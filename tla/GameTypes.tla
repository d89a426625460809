------------------------------ MODULE GameTypes ------------------------------
(***************************************************************************)
(* What server and client share: the client slots, the GUIDs of the level   *)
(* data, the data a player carries, and the messages about a player's       *)
(* session (GameTypes.h, NetworkConfig.h, NetworkMessages.h).               *)
(***************************************************************************)
EXTENDS Naturals, Sequences

CONSTANTS MaxClients,      \* NetDefaults::MAX_CLIENTS, the server's client slots
          AllGuids,        \* FAKE_BILBO_GUID.txt: one GUID per NPC body of the level data
          ProfileFields,   \* the parts of a profile, in the order they are sent
          Values,          \* the texts a part of a profile can hold
          DefaultValue,    \* the text of a profile nobody has written yet
          EmptyValue,      \* what is left of a text without a printable character
          Skins,           \* the contents a skin file can have
          NoSkin

Slots == 0 .. MaxClients - 1
Guids == {AllGuids[i] : i \in DOMAIN AllGuids}
Fields == {ProfileFields[i] : i \in DOMAIN ProfileFields}
NoGuid == 0
Unknown == "unknown"
RingStates == {"on", "off"}

\* The level data gives each NPC body a GUID of its own; the rest is what the
\* C++ types say.  There may be fewer GUIDs than slots.
ASSUME GuidAssumption ==
    /\ AllGuids \in Seq(Nat \ {NoGuid})
    /\ \A i, j \in DOMAIN AllGuids : AllGuids[i] = AllGuids[j] => i = j

ASSUME SlotsAssumption == MaxClients \in Nat \ {0}

ASSUME DataAssumption ==
    /\ ProfileFields \in Seq({"NICKNAME_UPDATE", "STATUS_UPDATE"})
    /\ DefaultValue \in Values \ {EmptyValue}
    /\ Unknown \notin Values
    /\ NoSkin \notin Skins

\* A skin message names the file bound to its GUID (getGuidBoundSkinFileName),
\* which every GUID of AllGuids has.
GuidAssignMessage(g)          == [type |-> "GUID_ASSIGN", guid |-> g]
ProfileMessage(f, g, v)       == [type |-> f, guid |-> g, value |-> v]
RingSyncMessage(g, on)        == [type |-> "RING_SYNC", guid |-> g, on |-> on]
SkinAnnouncementMessage(g)    == [type |-> "SKIN_ANNOUNCE", guid |-> g]
SkinFileTransferMessage(g, b) == [type |-> "SKIN_FILE_TRANSFER", guid |-> g, bytes |-> b]
SkinClearMessage(g)           == [type |-> "SKIN_CLEAR", guid |-> g]
=============================================================================
