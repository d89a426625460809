------------------------------- MODULE Session -------------------------------
(***************************************************************************)
(* The server and its clients together: players come, go and come back,     *)
(* either end of a session notices its loss on its own, GUIDs are reused,   *)
(* and profiles, skins and ring states reach the players who are there and  *)
(* those who come later.                                                    *)
(***************************************************************************)
EXTENDS SessionServer, SessionClient

CONSTANT Allowances        \* bounds: how many connection attempts, uses of /name and
                           \* /status, and frames in which a ring state changes, there
                           \* may be of all players together

VARIABLE left              \* what is left of one of these

vars == <<serverVars, transportVars, clientVars, left>>

Init ==
    /\ TransportInit
    /\ ServerInit
    /\ ClientInit
    /\ left \in Allowances

Spend(what) ==
    /\ left[what] > 0
    /\ left' = [left EXCEPT ![what] = @ - 1]

-----------------------------------------------------------------------------
(* One disjunct per operation.                                              *)

Accept(p, s) ==
    AcceptClient(p, s) /\ Spend("connects") /\ UNCHANGED clientVars

Refuse(p, s) ==
    RefuseClient(p, s) /\ Spend("connects") /\ UNCHANGED clientVars

Drop(s) == DropClient(s) /\ UNCHANGED <<clientVars, left>>

ServerStep(s) == ServerReceive(s) /\ UNCHANGED <<clientVars, left>>

Leave(p) == Disconnect(p) /\ UNCHANGED <<serverVars, left>>

ClientStep(p) == ClientReceive(p) /\ UNCHANGED <<serverVars, left>>

UploadSkin(p) == SendLocalSkinData(p) /\ UNCHANGED <<serverVars, left>>

Rename(p) ==
    /\ \E f \in Fields, v \in Values : ChangeProfile(p, f, v)
    /\ Spend("changes")
    /\ UNCHANGED serverVars

RingFrame(p) ==
    /\ \E r \in RingStates : DetectLocalRingChange(p, r)
    /\ Spend("ringChanges")
    /\ UNCHANGED serverVars

SendRing(p) == SendRingSync(p) /\ UNCHANGED <<serverVars, left>>

Next ==
    \/ \E p \in Players, s \in Slots : Accept(p, s) \/ Refuse(p, s)
    \/ \E s \in Slots : Drop(s) \/ ServerStep(s)
    \/ \E p \in Players :
          \/ Leave(p)
          \/ ClientStep(p)
          \/ UploadSkin(p)
          \/ Rename(p)
          \/ RingFrame(p)
          \/ SendRing(p)

Spec == Init /\ [][Next]_vars

\* Both main loops keep running, so that messages are received and what is due
\* is sent; netcode times out an end whose other end is gone.  Nobody has to
\* connect, leave or type, and no live session has to end.
Fairness ==
    /\ \A s \in Slots : WF_vars(ServerStep(s)) /\ WF_vars(~Live(s) /\ Drop(s))
    /\ \A p \in Players :
          /\ WF_vars(ClientStep(p))
          /\ WF_vars(UploadSkin(p))
          /\ WF_vars(SendRing(p))
          /\ WF_vars(~Attached(p) /\ Leave(p))

FairSpec == Spec /\ Fairness

-----------------------------------------------------------------------------
(* What the session promises.                                               *)

Messages ==
    {GuidAssignMessage(g) : g \in Guids}
    \cup {ProfileMessage(f, g, v) : f \in Fields, g \in Guids, v \in Values}
    \cup {RingSyncMessage(g, r) : g \in Guids, r \in RingStates}
    \cup {SkinAnnouncementMessage(g) : g \in Guids}
    \cup {SkinFileTransferMessage(g, b) : g \in Guids, b \in Skins}
    \cup {SkinClearMessage(g) : g \in Guids}

\* Every variable of the session keeps its type.
TypeOK ==
    /\ GuidTypeOK
    /\ cachedSkins \in [Guids -> Skins \cup {Absent, Announced}]
    /\ slotPlayer \in [Slots -> Players \cup {NoPlayer}]
    /\ clientSlot \in [Players -> Slots \cup {NoSlot}]
    /\ toServer \in [Slots -> [Channels -> Seq(Messages)]]
    /\ toClient \in [Players -> [Channels -> Seq(Messages)]]
    /\ myGuid \in [Players -> Guids \cup {NoGuid}]
    /\ myProfile \in [Players -> [Fields -> Values]]
    /\ localSkinUploadAttempted \in [Players -> BOOLEAN]
    /\ pendingProfiles \in [Players -> [Guids -> [Fields -> Values \cup {Unknown}]]]
    /\ playerTextureNames \in [Players -> SUBSET Guids]
    /\ playerSkinFiles \in [Players -> [Guids -> Skins \cup {NoSkin}]]
    /\ playerRingState \in [Players -> [Guids -> RingStates \cup {Unknown}]]
    /\ lastLocalRing \in [Players -> RingStates \cup {Unknown}]
    /\ localRingDirty \in [Players -> BOOLEAN]

\* A slot is connected exactly while it holds a GUID: neither the refusal, which
\* disconnects a client inside its own connect handler, nor a slot's reuse
\* leaves one without the other (server.cpp OnServerClientConnected/Disconnected).
ConnectedHasGuid == \A s \in Slots : Connected(s) <=> clientGuidMap[s] # NoGuid

\* The server caches a skin only for a GUID somebody holds: nothing is left to
\* replay in the name of a player who is gone, even when the file arrives last.
CachedSkinsOwned == \A g \in Guids : cachedSkins[g] # Absent => g \in Assigned

\* A client that knows a GUID knows the one the server gave its slot: no GUID
\* of an earlier session of the player survives into the next one.
OwnGuid ==
    \A p \in Players :
        Attached(p) /\ myGuid[p] # NoGuid => myGuid[p] = clientGuidMap[clientSlot[p]]

\* The server relays a profile under the GUID the message claims; what is on
\* its way to a slot claims that slot's GUID, across reuse of slots and GUIDs.
ClaimsAreOwn ==
    \A s \in Slots, ch \in Channels : \A i \in DOMAIN toServer[s][ch] :
        toServer[s][ch][i].guid = clientGuidMap[s]

\* p and q are both there, and everything q has said of itself has reached p.
Heard(p, q, ch) ==
    /\ p # q /\ Attached(p) /\ Attached(q)
    /\ myGuid[q] # NoGuid
    /\ toServer[clientSlot[q]][ch] = <<>>
    /\ toClient[p][ch] = <<>>

\* Once it has, p shows q under q's present profile, whoever came first and
\* whatever the GUID's earlier holders were called.  (A text the player was told
\* is invalid is not announced.)
ProfilesAgree ==
    \A p, q \in Players : \A f \in Fields :
        Heard(p, q, "Gameplay") /\ myProfile[q][f] # EmptyValue
        => pendingProfiles[p][myGuid[q]][f] = myProfile[q][f]

\* A player sees the skin its peer has configured, whether it was there for the
\* upload, came between announcement and file, or got the server's replay.
SkinsAgree ==
    \A p, q \in Players :
        /\ Heard(p, q, "Skin")
        /\ localSkinUploadAttempted[q] /\ LocalSkin[q] # NoSkin
        => /\ playerSkinFiles[p][myGuid[q]] = LocalSkin[q]
           /\ myGuid[q] \in playerTextureNames[p]

\* "A player left, so their GUID no longer has an announced skin"
\* (client.cpp, processSkinClear): a GUID nobody has announced a skin for is
\* mapped to no installed file.
NoStaleSkin ==
    \A p, q \in Players :
        Heard(p, q, "Skin") /\ LocalSkin[q] = NoSkin => playerSkinFiles[p][myGuid[q]] = NoSkin

\* "it self-corrects after respawns, late joins, ..." (client.cpp,
\* applyRingVisual): a player sees whether its peer wears the ring.
RingsAgree ==
    \A p, q \in Players :
        Heard(p, q, "Gameplay") /\ lastLocalRing[q] # Unknown /\ ~localRingDirty[q]
        => playerRingState[p][myGuid[q]] = lastLocalRing[q]

\* The ring state of q reaches a peer p who is there when it changes, even when it
\* changes again on its way: the three flags of the two client threads lose none.
RingReaches(p, q) ==
    p # q /\ Attached(p) /\ Attached(q) /\ myGuid[q] # NoGuid /\ localRingDirty[q]
    ~> \/ ~Attached(p) \/ ~Attached(q) \/ myGuid[q] = NoGuid
       \/ playerRingState[p][myGuid[q]] = lastLocalRing[q]

\* The handlers of the server use the allocator as it is meant to be used, and
\* nothing else touches it: the session implements the allocator's specification.
UsesAllocator == GuidSpec

\* When players stop coming and going, every profile arrives everywhere, the
\* slots of lost clients included: all connected slots are seen as they are.
EventuallyAllAgree ==
    <>[](\A s, t \in Slots : \A f \in Fields :
            /\ Connected(s) /\ Connected(t) /\ s # t
            /\ myProfile[slotPlayer[t]][f] # EmptyValue
            => pendingProfiles[slotPlayer[s]][clientGuidMap[t]][f] = myProfile[slotPlayer[t]][f])
=============================================================================
