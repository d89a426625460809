------------------------------ MODULE HoldSync ------------------------------
(***************************************************************************)
(* Hoistables: the network thread looks at what Bilbo is hoisting and tells *)
(* the others when he begins and ends, and they make the object hoistable or *)
(* not, as soon as they hear of it.                                          *)
(*                                                                         *)
(* Where an object is while it is held is told as PushSync tells it of push  *)
(* blocks, and not modelled here.                                            *)
(***************************************************************************)
EXTENDS WorldRelay

CONSTANTS Hoistables,      \* GUIDs of objects Bilbo can hoist
          Nothing,         \* no object
          MaxHoists        \* bound: how often a player hoists something

ASSUME NothingAssumption == Nothing \notin Hoistables

VARIABLES hoisting,        \* per player: what its Bilbo hoists, or Nothing
          currentHoistable,   \* per player: g_currentHoistable
          hoistable,       \* per player: the objects that are hoistable in its world
          hoists           \* for the bound only

holdVars == <<hoisting, currentHoistable, hoistable, hoists>>

HoistableAcquire(o) == [type |-> "HOISTABLE_ACQUIRE", object |-> o]
HoistableRelease(o) == [type |-> "HOISTABLE_RELEASE", object |-> o]
HoldMessages == [type : {"HOISTABLE_ACQUIRE", "HOISTABLE_RELEASE"}, object : Hoistables]

HoldInit ==
    /\ hoisting = [p \in Players |-> Nothing]
    /\ currentHoistable = [p \in Players |-> Nothing]
    /\ hoistable = [p \in Players |-> Hoistables]
    /\ hoists = [p \in Players |-> 0]

\* The player p hoists o, which the game allows if it is hoistable.
Hoist(p, o) ==
    /\ InGameLogic(p)
    /\ o \in objects \cap hoistable[p]
    /\ hoisting[p] = Nothing
    /\ hoists[p] < MaxHoists
    /\ hoists' = [hoists EXCEPT ![p] = @ + 1]
    /\ hoisting' = [hoisting EXCEPT ![p] = o]
    /\ UNCHANGED <<relayVars, currentHoistable, hoistable>>

\* The player p puts down or throws what it hoists.
PutDown(p) ==
    /\ InGameLogic(p)
    /\ hoisting[p] # Nothing
    /\ hoisting' = [hoisting EXCEPT ![p] = Nothing]
    /\ UNCHANGED <<relayVars, currentHoistable, hoistable, hoists>>

\* A pass of the network thread finds that Bilbo hoists something ...
AcquireHoistable(p) ==
    /\ Playing(p)
    /\ currentHoistable[p] = Nothing /\ hoisting[p] # Nothing
    /\ currentHoistable' = [currentHoistable EXCEPT ![p] = hoisting[p]]
    /\ Send(p, <<HoistableAcquire(hoisting[p])>>)
    /\ UNCHANGED <<hoisting, hoistable, hoists>>

\* Mutant: the others are not told.
ReleaseSilently(p) ==
    /\ Playing(p)
    /\ currentHoistable[p] # Nothing /\ hoisting[p] = Nothing
    /\ currentHoistable' = [currentHoistable EXCEPT ![p] = Nothing]
    /\ UNCHANGED <<relayVars, hoisting, hoistable, hoists>>

\* ... or that he hoists nothing any more; that it is something else goes unseen.
ReleaseHoistable(p) ==
    /\ Playing(p)
    /\ currentHoistable[p] # Nothing /\ hoisting[p] = Nothing
    /\ currentHoistable' = [currentHoistable EXCEPT ![p] = Nothing]
    /\ Send(p, <<HoistableRelease(currentHoistable[p])>>)
    /\ UNCHANGED <<hoisting, hoistable, hoists>>

\* processHoistableAcquire and processHoistableRelease: the object is made hoistable or
\* not, even while Bilbo hoists it here.
ProcessHoistable(p) ==
    LET m == Head(downlink[p]) IN
    /\ HandleNext(p, HoldMessages)
    /\ hoistable' = IF p \notin onLevel THEN hoistable
                    ELSE IF m.type = "HOISTABLE_ACQUIRE"
                         THEN [hoistable EXCEPT ![p] = @ \ {m.object}]
                         ELSE [hoistable EXCEPT ![p] = @ \cup {m.object}]
    /\ UNCHANGED <<hoisting, currentHoistable, hoists>>

\* What Bilbo was seen to hoist goes with the session; nobody is told ...
ResetHolds(p) ==
    /\ currentHoistable' = [currentHoistable EXCEPT ![p] = Nothing]
    /\ UNCHANGED <<hoisting, hoistable, hoists>>

\* ... and stays when the level is left, until a pass over another one, which tells
\* nobody here, or over this one again.
ReloadHolds(p) ==
    /\ hoisting' = [hoisting EXCEPT ![p] = Nothing]
    /\ hoistable' = [hoistable EXCEPT ![p] = Hoistables]
    /\ currentHoistable' \in {currentHoistable, [currentHoistable EXCEPT ![p] = Nothing]}
    /\ UNCHANGED hoists

HoldStep(p) ==
    \/ \E o \in Hoistables : Hoist(p, o)
    \/ PutDown(p)
    \/ AcquireHoistable(p)
    \/ ReleaseHoistable(p)
    \/ ProcessHoistable(p)

-----------------------------------------------------------------------------

HoldTypeOK ==
    /\ hoisting \in [Players -> Hoistables \cup {Nothing}]
    /\ currentHoistable \in [Players -> Hoistables \cup {Nothing}]
    /\ hoistable \in [Players -> SUBSET Hoistables]
    /\ hoists \in [Players -> Nat]

\* No object is taken away from a player for good, however the players' hoisting
\* overlaps: while nobody is absent, it is hoistable again and again, unless somebody
\* holds on to something.
HoistableAgain == \A p \in Players, o \in Hoistables :
    []<>(o \in hoistable[p] \/ \E q \in Players : hoisting[q] # Nothing)
=============================================================================
