---------------------------- MODULE SessionServer ----------------------------
(***************************************************************************)
(* The server's side of a player's session (server.cpp): the adapter's      *)
(* connect and disconnect handlers and the handlers of the messages that    *)
(* leave something behind on the server or the peers for as long as a       *)
(* player is there: profile, skin and ring.                                 *)
(*                                                                         *)
(* serverMain is one thread, so that a handler is one step.                 *)
(***************************************************************************)
EXTENDS GuidManager, Transport, SequencesExt

VARIABLE cachedSkins       \* per GUID: absent, announced only, or the file's bytes

ASSUME CacheAssumption == {"absent", "announced"} \cap Skins = {}

Absent == "absent"
Announced == "announced"

serverVars == <<availableGuids, clientGuidMap, guidData, cachedSkins>>

ServerInit ==
    /\ GuidInit
    /\ cachedSkins = [g \in Guids |-> Absent]

-----------------------------------------------------------------------------
(* What a handler sends.                                                    *)

\* msgs on channel ch to every slot but the sender's (the loops that skip
\* i == senderIndex; Delivered skips the slots that are not connected).
ToOthers(sender, ch, msgs) ==
    [s \in Slots |-> IF s = sender THEN NoMessages ELSE [NoMessages EXCEPT ![ch] = msgs]]

\* Mutant: neither IsClientConnected nor the GUID is looked at.
ProfileReplayUnchecked(s) ==
    LET ProfileOf(i) ==
            IF i = s THEN <<>>
            ELSE [k \in DOMAIN ProfileFields |->
                     ProfileMessage(ProfileFields[k], clientGuidMap[i],
                                    GetProfile(i, ProfileFields[k]))]
    IN  FlattenSeq([k \in 1 .. MaxClients |-> ProfileOf(k - 1)])

\* sendNicknamesAndStatusesToClient, for the slots in their order.
ProfileReplay(s) ==
    LET ProfileOf(i) ==
            IF i = s \/ ~Connected(i) \/ clientGuidMap[i] = NoGuid THEN <<>>
            ELSE [k \in DOMAIN ProfileFields |->
                     ProfileMessage(ProfileFields[k], clientGuidMap[i],
                                    GetProfile(i, ProfileFields[k]))]
    IN  FlattenSeq([k \in 1 .. MaxClients |-> ProfileOf(k - 1)])

\* Mutant: a newcomer is told the names of the skins and not given the files.
SkinReplayNames ==
    LET SkinOf(g) == IF cachedSkins[g] = Absent THEN <<>> ELSE <<SkinAnnouncementMessage(g)>>
    IN  FlattenSeq([i \in DOMAIN AllGuids |-> SkinOf(AllGuids[i])])

\* replayCachedSkinsToClient.  The map's order is unspecified; messages about
\* different GUIDs do not affect each other, so the order of AllGuids stands
\* for all of them.
SkinReplay ==
    LET SkinOf(g) ==
            IF cachedSkins[g] = Absent THEN <<>>
            ELSE IF cachedSkins[g] = Announced THEN <<SkinAnnouncementMessage(g)>>
            ELSE <<SkinAnnouncementMessage(g), SkinFileTransferMessage(g, cachedSkins[g])>>
    IN  FlattenSeq([i \in DOMAIN AllGuids |-> SkinOf(AllGuids[i])])

-----------------------------------------------------------------------------
(* Connect and disconnect.  netcode marks the slot connected before it calls *)
(* the connect handler, and disconnected after the disconnect handler.      *)

\* Mutant: the connect handler does not look whether it got a GUID.
AcceptClientAnyway(p, s) ==
    /\ clientSlot[p] = NoSlot
    /\ IsFirstFree(s)
    /\ AssignGuid(s)
    /\ OpenSession(p, s, [Gameplay |-> <<GuidAssignMessage(GuidFor(s))>> \o ProfileReplay(s),
                          Skin     |-> SkinReplay])
    /\ UNCHANGED cachedSkins

\* netcode accepts p into slot s, and OnServerClientConnected finds a GUID.
AcceptClient(p, s) ==
    /\ clientSlot[p] = NoSlot
    /\ IsFirstFree(s)
    /\ GuidFor(s) # NoGuid
    /\ AssignGuid(s)
    /\ OpenSession(p, s, [Gameplay |-> <<GuidAssignMessage(GuidFor(s))>> \o ProfileReplay(s),
                          Skin     |-> SkinReplay])
    /\ UNCHANGED cachedSkins

\* Every GUID is borrowed: the handler disconnects the client it was called
\* for.  The disconnect handler runs inside the connect handler, finds no GUID
\* and announces nothing; the client is left holding an end of its own.
RefuseClient(p, s) ==
    /\ clientSlot[p] = NoSlot
    /\ IsFirstFree(s)
    /\ GuidFor(s) = NoGuid
    /\ AssignGuid(s)
    /\ clientSlot' = [clientSlot EXCEPT ![p] = s]
    /\ toServer' = [toServer EXCEPT ![s] = NoMessages]
    /\ toClient' = [toClient EXCEPT ![p] = NoMessages]
    /\ UNCHANGED <<slotPlayer, cachedSkins>>

\* Mutant: the disconnect handler leaves the skin in the cache.
DropClientKeepsSkin(s) ==
    /\ Connected(s)
    /\ ReleaseGuid(s)
    /\ CloseSlot(s, ToOthers(s, "Skin", <<SkinClearMessage(clientGuidMap[s])>>))
    /\ UNCHANGED cachedSkins

\* Mutant: the disconnect handler erases the GUID instead of releasing it.
DropClientLosesGuid(s) ==
    /\ Connected(s)
    /\ clientGuidMap' = [clientGuidMap EXCEPT ![s] = NoGuid]
    /\ cachedSkins' = [cachedSkins EXCEPT ![clientGuidMap[s]] = Absent]
    /\ CloseSlot(s, ToOthers(s, "Skin", <<SkinClearMessage(clientGuidMap[s])>>))
    /\ UNCHANGED <<availableGuids, guidData>>

\* A timeout, a disconnect packet or a channel error: the server drops slot s
\* and OnServerClientDisconnected gives its GUID back.
DropClient(s) ==
    LET g == clientGuidMap[s]
    IN  /\ Connected(s)
        /\ ReleaseGuid(s)
        /\ IF g # NoGuid
           THEN /\ cachedSkins' = [cachedSkins EXCEPT ![g] = Absent]
                /\ CloseSlot(s, ToOthers(s, "Skin", <<SkinClearMessage(g)>>))
           ELSE /\ UNCHANGED cachedSkins
                /\ CloseSlot(s, ToOthers(s, "Skin", <<>>))

-----------------------------------------------------------------------------
(* Message handlers.                                                        *)

\* The server takes the next message of slot s from channel ch and answers
\* the others with msgs on the same channel: every handler below does.
Relay(s, ch, msgs) ==
    /\ toServer' = [toServer EXCEPT ![s][ch] = Tail(@)]
    /\ toClient' = Delivered(ToOthers(s, ch, msgs))
    /\ UNCHANGED <<slotPlayer, clientSlot>>

HasNext(s, ch, types) ==
    Connected(s) /\ toServer[s][ch] # <<>> /\ Head(toServer[s][ch]).type \in types

\* Mutant: relayed and not remembered.
RelayProfileUpdate(s) ==
    /\ HasNext(s, "Gameplay", Fields)
    /\ Relay(s, "Gameplay", <<Head(toServer[s]["Gameplay"])>>)
    /\ UNCHANGED serverVars

\* processNicknameUpdate and processStatusUpdate: remembered for the GUID of
\* the slot, relayed under the GUID the message claims.
ProcessProfileUpdate(s) ==
    LET m == Head(toServer[s]["Gameplay"])
    IN  /\ HasNext(s, "Gameplay", Fields)
        /\ SetProfile(s, m.type, m.value)
        /\ Relay(s, "Gameplay", <<m>>)
        /\ UNCHANGED cachedSkins

\* broadcastRingSync: relayed under the sender's GUID; the server keeps nothing.
BroadcastRingSync(s) ==
    /\ HasNext(s, "Gameplay", {"RING_SYNC"})
    /\ Relay(s, "Gameplay",
             <<RingSyncMessage(clientGuidMap[s], Head(toServer[s]["Gameplay"]).on)>>)
    /\ UNCHANGED serverVars

\* processSkinAnnouncement: the cache entry is created, or keeps its bytes.
ProcessSkinAnnouncement(s) ==
    LET g == clientGuidMap[s]
    IN  /\ HasNext(s, "Skin", {"SKIN_ANNOUNCE"})
        /\ IF g = NoGuid
           THEN Relay(s, "Skin", <<>>) /\ UNCHANGED cachedSkins
           ELSE /\ Relay(s, "Skin", <<SkinAnnouncementMessage(g)>>)
                /\ cachedSkins' = [cachedSkins EXCEPT ![g] = IF @ = Absent THEN Announced ELSE @]
        /\ UNCHANGED guidVars

\* processSkinFileTransfer: cached, announced again, and relayed.
ProcessSkinFileTransfer(s) ==
    LET g == clientGuidMap[s]
        b == Head(toServer[s]["Skin"]).bytes
    IN  /\ HasNext(s, "Skin", {"SKIN_FILE_TRANSFER"})
        /\ IF g = NoGuid
           THEN Relay(s, "Skin", <<>>) /\ UNCHANGED cachedSkins
           ELSE /\ Relay(s, "Skin", <<SkinAnnouncementMessage(g), SkinFileTransferMessage(g, b)>>)
                /\ cachedSkins' = [cachedSkins EXCEPT ![g] = b]
        /\ UNCHANGED guidVars

ServerReceive(s) ==
    \/ ProcessProfileUpdate(s)
    \/ BroadcastRingSync(s)
    \/ ProcessSkinAnnouncement(s)
    \/ ProcessSkinFileTransfer(s)
=============================================================================
