---------------------------- MODULE SessionClient ----------------------------
(***************************************************************************)
(* A player's side of the session (client.cpp): what the client remembers   *)
(* of itself and of its peers, the handlers of the server's messages, and   *)
(* what the player and the game make it send.                               *)
(*                                                                         *)
(* The network thread runs clientMain; /name and /status come from the chat *)
(* overlay and the ring flag from the game thread, each a step of its own.  *)
(***************************************************************************)
EXTENDS Transport

CONSTANT LocalSkin         \* the skin each player has configured, or NoSkin

ASSUME LocalSkinAssumption == LocalSkin \in [Players -> Skins \cup {NoSkin}]

VARIABLES myGuid,                   \* the GUID the server assigned, or NoGuid
          myProfile,                \* myNickname and myStatus
          localSkinUploadAttempted,
          pendingProfiles,          \* pendingNicknames and pendingStatuses, by GUID
          playerTextureNames,       \* the GUIDs a texture is mapped to
          playerSkinFiles,          \* the installed file playerSkinFilePaths names, by GUID
          playerRingState,          \* g_playerRingState, by GUID
          lastLocalRing,            \* g_lastLocalRing: the state of the last frame
          localRingDirty            \* g_localRingDirty: to be sent

profileVars == <<myProfile, pendingProfiles>>
skinVars == <<localSkinUploadAttempted, playerTextureNames, playerSkinFiles>>
ringVars == <<playerRingState, lastLocalRing, localRingDirty>>
clientVars == <<myGuid, profileVars, skinVars, ringVars>>

NoProfiles == [g \in Guids |-> [f \in Fields |-> Unknown]]

ClientInit ==
    /\ myGuid = [p \in Players |-> NoGuid]
    /\ myProfile \in [Players -> [Fields -> {DefaultValue}]]
    /\ localSkinUploadAttempted = [p \in Players |-> FALSE]
    /\ pendingProfiles = [p \in Players |-> NoProfiles]
    /\ playerTextureNames = [p \in Players |-> {}]
    /\ playerSkinFiles = [p \in Players |-> [g \in Guids |-> NoSkin]]
    /\ playerRingState = [p \in Players |-> [g \in Guids |-> Unknown]]
    /\ lastLocalRing = [p \in Players |-> Unknown]
    /\ localRingDirty = [p \in Players |-> FALSE]

\* clientMain exchanges messages only while the client holds its end.
HasSession(p) == clientSlot[p] # NoSlot

Send(p, ch, msgs) ==
    /\ toServer' = Uploaded(p, ch, msgs)
    /\ UNCHANGED <<slotPlayer, clientSlot, toClient>>

-----------------------------------------------------------------------------
(* The session ends.                                                        *)

\* Mutant: resetClientSessionState keeps the GUID.
DisconnectKeepsGuid(p) ==
    /\ HasSession(p)
    /\ CloseClient(p)
    /\ localSkinUploadAttempted' = [localSkinUploadAttempted EXCEPT ![p] = FALSE]
    /\ pendingProfiles' = [pendingProfiles EXCEPT ![p] = NoProfiles]
    /\ UNCHANGED <<myGuid, myProfile, playerTextureNames, playerSkinFiles, ringVars>>

\* /reconnect, or a loss clientMain notices: the connection is closed and
\* resetClientSessionState runs before the next session.  It resets the GUID,
\* the upload flag and the pending profiles, and neither the skins nor the
\* ring states of the peers, nor the own ring state already sent.
Disconnect(p) ==
    /\ HasSession(p)
    /\ CloseClient(p)
    /\ myGuid' = [myGuid EXCEPT ![p] = NoGuid]
    /\ localSkinUploadAttempted' = [localSkinUploadAttempted EXCEPT ![p] = FALSE]
    /\ pendingProfiles' = [pendingProfiles EXCEPT ![p] = NoProfiles]
    /\ UNCHANGED <<myProfile, playerTextureNames, playerSkinFiles, ringVars>>

-----------------------------------------------------------------------------
(* The server's messages.                                                   *)

HasMessage(p, ch, types) ==
    HasSession(p) /\ toClient[p][ch] # <<>> /\ Head(toClient[p][ch]).type \in types

\* The client takes its next message from channel ch and sends reply on Gameplay.
Take(p, ch, reply) ==
    /\ toClient' = [toClient EXCEPT ![p][ch] = Tail(@)]
    /\ toServer' = Uploaded(p, "Gameplay", reply)
    /\ UNCHANGED <<slotPlayer, clientSlot>>

\* Mutant: the identity is not announced under the new GUID.
ProcessGuidAssignSilently(p) ==
    /\ HasMessage(p, "Gameplay", {"GUID_ASSIGN"})
    /\ myGuid' = [myGuid EXCEPT ![p] = Head(toClient[p]["Gameplay"]).guid]
    /\ localSkinUploadAttempted' = [localSkinUploadAttempted EXCEPT ![p] = FALSE]
    /\ Take(p, "Gameplay", <<>>)
    /\ UNCHANGED <<profileVars, playerTextureNames, playerSkinFiles, ringVars>>

\* GUID_ASSIGN: the skin is to be uploaded again, and the identity is sent
\* under the new GUID (sendLocalIdentityToServer returns early on NoGuid).
ProcessGuidAssign(p) ==
    LET g == Head(toClient[p]["Gameplay"]).guid
    IN  /\ HasMessage(p, "Gameplay", {"GUID_ASSIGN"})
        /\ myGuid' = [myGuid EXCEPT ![p] = g]
        /\ localSkinUploadAttempted' = [localSkinUploadAttempted EXCEPT ![p] = FALSE]
        /\ Take(p, "Gameplay",
                IF g = NoGuid THEN <<>>
                ELSE [k \in DOMAIN ProfileFields |->
                         ProfileMessage(ProfileFields[k], g, myProfile[p][ProfileFields[k]])])
        /\ UNCHANGED <<profileVars, playerTextureNames, playerSkinFiles, ringVars>>

ProcessPeerProfile(p) ==
    LET m == Head(toClient[p]["Gameplay"])
    IN  /\ HasMessage(p, "Gameplay", Fields)
        /\ pendingProfiles' = [pendingProfiles EXCEPT ![p][m.guid][m.type] = m.value]
        /\ Take(p, "Gameplay", <<>>)
        /\ UNCHANGED <<myGuid, myProfile, skinVars, ringVars>>

\* Mutant: the first ring state of a peer is kept.
ProcessFirstRingSync(p) ==
    LET m == Head(toClient[p]["Gameplay"])
    IN  /\ HasMessage(p, "Gameplay", {"RING_SYNC"})
        /\ playerRingState' = [playerRingState EXCEPT ![p][m.guid] = IF @ = Unknown THEN m.on ELSE @]
        /\ Take(p, "Gameplay", <<>>)
        /\ UNCHANGED <<myGuid, profileVars, skinVars, lastLocalRing, localRingDirty>>

ProcessRingSync(p) ==
    LET m == Head(toClient[p]["Gameplay"])
    IN  /\ HasMessage(p, "Gameplay", {"RING_SYNC"})
        /\ playerRingState' =
              IF m.guid = NoGuid THEN playerRingState
              ELSE [playerRingState EXCEPT ![p][m.guid] = m.on]
        /\ Take(p, "Gameplay", <<>>)
        /\ UNCHANGED <<myGuid, profileVars, skinVars, lastLocalRing, localRingDirty>>

ProcessPeerSkinAnnouncement(p) ==
    LET m == Head(toClient[p]["Skin"])
    IN  /\ HasMessage(p, "Skin", {"SKIN_ANNOUNCE"})
        /\ playerTextureNames' = [playerTextureNames EXCEPT ![p] = @ \cup {m.guid}]
        /\ Take(p, "Skin", <<>>)
        /\ UNCHANGED <<myGuid, profileVars, localSkinUploadAttempted, playerSkinFiles, ringVars>>

\* The file replaces the one installed for the GUID before.
ProcessPeerSkinFile(p) ==
    LET m == Head(toClient[p]["Skin"])
    IN  /\ HasMessage(p, "Skin", {"SKIN_FILE_TRANSFER"})
        /\ playerTextureNames' = [playerTextureNames EXCEPT ![p] = @ \cup {m.guid}]
        /\ playerSkinFiles' = [playerSkinFiles EXCEPT ![p][m.guid] = m.bytes]
        /\ Take(p, "Skin", <<>>)
        /\ UNCHANGED <<myGuid, profileVars, localSkinUploadAttempted, ringVars>>

ProcessSkinClear(p) ==
    LET m == Head(toClient[p]["Skin"])
    IN  /\ HasMessage(p, "Skin", {"SKIN_CLEAR"})
        /\ playerTextureNames' = [playerTextureNames EXCEPT ![p] = @ \ {m.guid}]
        /\ playerSkinFiles' = [playerSkinFiles EXCEPT ![p][m.guid] = NoSkin]
        /\ Take(p, "Skin", <<>>)
        /\ UNCHANGED <<myGuid, profileVars, localSkinUploadAttempted, ringVars>>

ClientReceive(p) ==
    \/ ProcessGuidAssign(p)
    \/ ProcessPeerProfile(p)
    \/ ProcessRingSync(p)
    \/ ProcessPeerSkinAnnouncement(p)
    \/ ProcessPeerSkinFile(p)
    \/ ProcessSkinClear(p)

-----------------------------------------------------------------------------
(* What the client sends of its own.                                        *)

\* sendLocalSkinData: once per GUID, the configured skin is installed under the
\* own GUID, announced and uploaded.
SendLocalSkinData(p) ==
    /\ HasSession(p) /\ myGuid[p] # NoGuid /\ ~localSkinUploadAttempted[p]
    /\ localSkinUploadAttempted' = [localSkinUploadAttempted EXCEPT ![p] = TRUE]
    /\ IF LocalSkin[p] = NoSkin
       THEN UNCHANGED <<transportVars, playerTextureNames, playerSkinFiles>>
       ELSE /\ playerTextureNames' = [playerTextureNames EXCEPT ![p] = @ \cup {myGuid[p]}]
            /\ playerSkinFiles' = [playerSkinFiles EXCEPT ![p][myGuid[p]] = LocalSkin[p]]
            /\ Send(p, "Skin", <<SkinAnnouncementMessage(myGuid[p]),
                                 SkinFileTransferMessage(myGuid[p], LocalSkin[p])>>)
    /\ UNCHANGED <<myGuid, profileVars, ringVars>>

\* /name and /status (ChatCommandNickname, ChatCommandStatus) with a text that
\* sanitizeIdentityValue makes v.  It is stored before it is refused.
ChangeProfile(p, f, v) ==
    /\ HasSession(p) /\ myGuid[p] # NoGuid
    /\ myProfile' = [myProfile EXCEPT ![p][f] = v]
    /\ IF v = EmptyValue
       THEN UNCHANGED transportVars
       ELSE Send(p, "Gameplay", <<ProfileMessage(f, myGuid[p], v)>>)
    /\ UNCHANGED <<myGuid, pendingProfiles, skinVars, ringVars>>

\* detectLocalRingChange in a frame of the game thread, session or no session:
\* the ring is now in state r, which is not the one of the frame before.
DetectLocalRingChange(p, r) ==
    /\ r # lastLocalRing[p]
    /\ lastLocalRing' = [lastLocalRing EXCEPT ![p] = r]
    /\ localRingDirty' = [localRingDirty EXCEPT ![p] = TRUE]
    /\ UNCHANGED <<transportVars, myGuid, profileVars, skinVars, playerRingState>>

\* sendRingSync, which clientMain calls with a session and a GUID.
SendRingSync(p) ==
    /\ HasSession(p) /\ myGuid[p] # NoGuid
    /\ localRingDirty[p]
    /\ localRingDirty' = [localRingDirty EXCEPT ![p] = FALSE]
    /\ Send(p, "Gameplay", <<RingSyncMessage(myGuid[p], lastLocalRing[p])>>)
    /\ UNCHANGED <<myGuid, profileVars, skinVars, playerRingState, lastLocalRing>>
=============================================================================
