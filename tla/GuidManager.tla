----------------------------- MODULE GuidManager -----------------------------
(***************************************************************************)
(* The server's GUID allocator (GuidManager.cpp): every NPC body the level  *)
(* data provides has a GUID, and a connected client borrows one of them.    *)
(* The free GUIDs form a stack, so that the GUID released last is the one   *)
(* assigned next.  A GUID carries a profile (nickname, status), which       *)
(* outlives the client that set it.                                         *)
(***************************************************************************)
EXTENDS GameTypes

VARIABLES availableGuids,  \* the stack of free GUIDs, its top last
          clientGuidMap,   \* the GUID of a slot, NoGuid where the map has no entry
          guidData         \* the profile kept for a GUID

guidVars == <<availableGuids, clientGuidMap, guidData>>

Free(stack) == {stack[i] : i \in DOMAIN stack}
Assigned == {clientGuidMap[c] : c \in Slots} \ {NoGuid}

-----------------------------------------------------------------------------
(* Operations.                                                              *)

\* An entry of guidData_ that is absent reads as the default profile.
GuidInit ==
    /\ availableGuids = [i \in DOMAIN AllGuids |-> AllGuids[Len(AllGuids) + 1 - i]]
    /\ clientGuidMap = [c \in Slots |-> NoGuid]
    /\ guidData = [g \in Guids |-> [f \in Fields |-> DefaultValue]]

\* What assignGuid returns to its caller.
GuidFor(c) ==
    IF clientGuidMap[c] # NoGuid THEN clientGuidMap[c]
    ELSE IF availableGuids = <<>> THEN NoGuid
    ELSE availableGuids[Len(availableGuids)]

\* Mutant: the GUID handed out stays on the free stack.
AssignGuidNoPop(c) ==
    IF clientGuidMap[c] # NoGuid \/ availableGuids = <<>>
    THEN UNCHANGED guidVars
    ELSE /\ clientGuidMap' = [clientGuidMap EXCEPT ![c] = GuidFor(c)]
         /\ UNCHANGED <<availableGuids, guidData>>

\* The two early returns leave everything alone; so does try_emplace when the
\* GUID has a profile already, whoever wrote it.
AssignGuid(c) ==
    IF clientGuidMap[c] # NoGuid \/ availableGuids = <<>>
    THEN UNCHANGED guidVars
    ELSE /\ clientGuidMap' = [clientGuidMap EXCEPT ![c] = GuidFor(c)]
         /\ availableGuids' = SubSeq(availableGuids, 1, Len(availableGuids) - 1)
         /\ UNCHANGED guidData

\* Mutant: the entry of the map stays, so that a second release pushes again.
ReleaseGuidKeepsEntry(c) ==
    IF clientGuidMap[c] = NoGuid
    THEN UNCHANGED guidVars
    ELSE /\ availableGuids' = Append(availableGuids, clientGuidMap[c])
         /\ UNCHANGED <<clientGuidMap, guidData>>

\* Mutant: the entry goes, and the GUID with it.
ReleaseGuidForgets(c) ==
    /\ clientGuidMap' = [clientGuidMap EXCEPT ![c] = NoGuid]
    /\ UNCHANGED <<availableGuids, guidData>>

ReleaseGuid(c) ==
    IF clientGuidMap[c] = NoGuid
    THEN UNCHANGED guidVars
    ELSE /\ availableGuids' = Append(availableGuids, clientGuidMap[c])
         /\ clientGuidMap' = [clientGuidMap EXCEPT ![c] = NoGuid]
         /\ UNCHANGED guidData

GetProfile(c, f) ==
    IF clientGuidMap[c] = NoGuid THEN DefaultValue ELSE guidData[clientGuidMap[c]][f]

SetProfile(c, f, v) ==
    IF clientGuidMap[c] = NoGuid
    THEN UNCHANGED guidVars
    ELSE /\ guidData' = [guidData EXCEPT ![clientGuidMap[c]][f] = v]
         /\ UNCHANGED <<availableGuids, clientGuidMap>>

GuidNext ==
    \E c \in Slots :
        \/ AssignGuid(c)
        \/ ReleaseGuid(c)
        \/ \E f \in Fields, v \in Values : SetProfile(c, f, v)

GuidSpec == GuidInit /\ [][GuidNext]_guidVars

-----------------------------------------------------------------------------
(* What the allocator promises.                                             *)

\* Every variable of the allocator keeps its type.
GuidTypeOK ==
    /\ availableGuids \in Seq(Guids)
    /\ clientGuidMap \in [Slots -> Guids \cup {NoGuid}]
    /\ guidData \in [Guids -> [Fields -> Values]]

\* No GUID is on the free stack twice: a second releaseGuid for one client, or
\* a release of a GUID that was never taken, would put it there.
FreeOnce ==
    \A i, j \in DOMAIN availableGuids : availableGuids[i] = availableGuids[j] => i = j

\* Two clients never borrow the same body: every message that names a player
\* names it by GUID (GuidManager::assignGuid and releaseGuid together).
UniqueGuids ==
    \A c, d \in Slots : clientGuidMap[c] = clientGuidMap[d] => c = d \/ clientGuidMap[c] = NoGuid

\* A GUID is free or borrowed, never both and never neither: none leaks over
\* any number of connects, refusals and disconnects (GuidManager.cpp).
GuidsConserved ==
    /\ Free(availableGuids) \cap Assigned = {}
    /\ Free(availableGuids) \cup Assigned = Guids

\* Every GUID is in one place, once, whatever clients come and go: on the free stack or
\* with one client (GuidManager.cpp).
GuidsInOnePlace == FreeOnce /\ UniqueGuids /\ GuidsConserved

\* A client keeps its GUID until it is released: no assignGuid call, its own
\* again or another client's, moves it to another body.
GuidKept ==
    [][\A c \in Slots :
          clientGuidMap[c] # NoGuid => clientGuidMap'[c] \in {clientGuidMap[c], NoGuid}]_guidVars
=============================================================================
