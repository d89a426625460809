---------------------------- MODULE SessionProofs ----------------------------
(***************************************************************************)
(* The server's bookkeeping in the session, for any number of players,      *)
(* slots and GUIDs and for any bounds.  SessionInv adds to the allocator's  *)
(* invariant that the slots, the GUIDs and the skin cache agree; each of    *)
(* the three needs the others, since a handler reads one of them to decide  *)
(* what it does to the next.                                                *)
(***************************************************************************)
EXTENDS Session, GuidManagerProofs, SequenceFacts

SlotsTyped == slotPlayer \in [Slots -> Players \cup {NoPlayer}]
CacheTyped == DOMAIN cachedSkins = Guids

SessionInv ==
    /\ GuidInv
    /\ SlotsTyped
    /\ CacheTyped
    /\ ConnectedHasGuid
    /\ CachedSkinsOwned

\* An allocator step of the session is a step of the allocator.
LEMMA AllocatorOnly ==
    ASSUME UNCHANGED guidVars
    PROVE  /\ clientGuidMap' = clientGuidMap
           /\ availableGuids' = availableGuids
           /\ guidData' = guidData
           /\ Assigned' = Assigned
  BY DEF guidVars, Assigned

\* assignGuid returns 0 exactly when no GUID is left for a slot without one.
LEMMA NoGuidMeansNone ==
    ASSUME GuidInv, NEW s \in Slots, clientGuidMap[s] = NoGuid
    PROVE  /\ GuidFor(s) = NoGuid => availableGuids = <<>>
           /\ GuidFor(s) # NoGuid => availableGuids # <<>> /\ GuidFor(s) \in Guids
<1>1. availableGuids \in Seq(Guids)
  BY DEF GuidInv, MapTypeOK
<1>2. NoGuid \notin Guids
  BY GuidAssumption DEF Guids
<1>3. CASE availableGuids = <<>>
  BY <1>3 DEF GuidFor
<1>4. CASE availableGuids # <<>>
  <2>1. availableGuids[Len(availableGuids)] \in Guids
    BY <1>1, <1>4
  <2> QED
    BY <1>2, <1>4, <2>1 DEF GuidFor
<1> QED
  BY <1>3, <1>4

LEMMA AcceptPreserves ==
    ASSUME SessionInv, NEW p \in Players, NEW s \in Slots, AcceptClient(p, s)
    PROVE  SessionInv'
<1> USE DEF SessionInv
<1>1. ~Connected(s) /\ GuidFor(s) # NoGuid /\ AssignGuid(s)
  BY DEF AcceptClient, IsFirstFree
<1>2. clientGuidMap[s] = NoGuid
  BY <1>1 DEF ConnectedHasGuid
<1>3. clientGuidMap' = [clientGuidMap EXCEPT ![s] = GuidFor(s)]
  BY <1>1, <1>2, NoGuidMeansNone DEF AssignGuid
<1>4. slotPlayer' = [slotPlayer EXCEPT ![s] = p] /\ cachedSkins' = cachedSkins
  BY DEF AcceptClient, OpenSession
<1>5. clientGuidMap \in [Slots -> Guids \cup {NoGuid}]
  BY DEF GuidInv, MapTypeOK
<1>6. GuidInv'
  BY <1>1, AssignPreserves
<1>7. SlotsTyped' /\ CacheTyped'
  BY <1>4 DEF SlotsTyped, CacheTyped
<1>8. ConnectedHasGuid'
  BY <1>1, <1>3, <1>4, <1>5, TransportAssumption DEF ConnectedHasGuid, Connected, SlotsTyped
<1>9. Assigned \subseteq Assigned'
  BY <1>2, <1>3, <1>5 DEF Assigned
<1>10. CachedSkinsOwned'
  BY <1>4, <1>9 DEF CachedSkinsOwned
<1> QED
  BY <1>6, <1>7, <1>8, <1>10

LEMMA RefusePreserves ==
    ASSUME SessionInv, NEW p \in Players, NEW s \in Slots, RefuseClient(p, s)
    PROVE  SessionInv' /\ UNCHANGED guidVars
<1> USE DEF SessionInv
<1>1. ~Connected(s) /\ GuidFor(s) = NoGuid /\ AssignGuid(s)
  BY DEF RefuseClient, IsFirstFree
<1>2. clientGuidMap[s] = NoGuid
  BY <1>1 DEF ConnectedHasGuid
<1>3. UNCHANGED guidVars
  BY <1>1, <1>2, NoGuidMeansNone DEF AssignGuid
<1>4. slotPlayer' = slotPlayer /\ cachedSkins' = cachedSkins
  BY DEF RefuseClient
<1>5. GuidInv'
  BY <1>3, StutterPreserves
<1> QED
  BY <1>3, <1>4, <1>5, AllocatorOnly
     DEF SlotsTyped, CacheTyped, ConnectedHasGuid, Connected, CachedSkinsOwned

LEMMA DropPreserves ==
    ASSUME SessionInv, NEW s \in Slots, DropClient(s)
    PROVE  SessionInv'
<1> USE DEF SessionInv
<1> DEFINE g == clientGuidMap[s]
<1>1. Connected(s) /\ ReleaseGuid(s)
  BY DEF DropClient
<1>2. g # NoGuid
  BY <1>1 DEF ConnectedHasGuid
<1>3. clientGuidMap' = [clientGuidMap EXCEPT ![s] = NoGuid]
  BY <1>1, <1>2 DEF ReleaseGuid
<1>4. /\ slotPlayer' = [slotPlayer EXCEPT ![s] = NoPlayer]
      /\ cachedSkins' = [cachedSkins EXCEPT ![g] = Absent]
  BY <1>2 DEF DropClient, CloseSlot
<1>5. clientGuidMap \in [Slots -> Guids \cup {NoGuid}]
  BY DEF GuidInv, MapTypeOK
<1>6. GuidInv'
  BY <1>1, ReleasePreserves
<1>7. SlotsTyped' /\ CacheTyped'
  BY <1>4 DEF SlotsTyped, CacheTyped
<1>8. ConnectedHasGuid'
  BY <1>3, <1>4, <1>5 DEF ConnectedHasGuid, Connected, SlotsTyped
<1>9. Assigned \ {g} \subseteq Assigned'
  BY <1>3, <1>5 DEF Assigned
<1>10. CachedSkinsOwned'
  BY <1>4, <1>9 DEF CachedSkinsOwned, CacheTyped
<1> QED
  BY <1>6, <1>7, <1>8, <1>10

\* A message handler adds to the cache only for the GUID of its own slot.
LEMMA ReceivePreserves ==
    ASSUME SessionInv, NEW s \in Slots, ServerReceive(s)
    PROVE  SessionInv'
<1> USE DEF SessionInv
<1> DEFINE g == clientGuidMap[s]
<1>1. slotPlayer' = slotPlayer /\ Connected(s)
  BY DEF ServerReceive, ProcessProfileUpdate, BroadcastRingSync, ProcessSkinAnnouncement,
         ProcessSkinFileTransfer, HasNext, Relay
<1>2. g \in Guids /\ g \in Assigned
  BY <1>1 DEF ConnectedHasGuid, GuidInv, MapTypeOK, Assigned
<1>3. CASE ProcessProfileUpdate(s)
  <2> DEFINE m == Head(toServer[s]["Gameplay"])
  <2>1. SetProfile(s, m.type, m.value) /\ cachedSkins' = cachedSkins
    BY <1>3 DEF ProcessProfileUpdate
  <2>2. GuidInv'
    BY <2>1, SetProfilePreserves
  <2>3. clientGuidMap' = clientGuidMap
    BY <2>1 DEF SetProfile, guidVars
  <2> QED
    BY <1>1, <2>1, <2>2, <2>3
       DEF SlotsTyped, CacheTyped, ConnectedHasGuid, Connected, CachedSkinsOwned, Assigned
<1>4. CASE BroadcastRingSync(s)
  <2>1. UNCHANGED guidVars /\ cachedSkins' = cachedSkins
    BY <1>4 DEF BroadcastRingSync, serverVars, guidVars
  <2> QED
    BY <1>1, <2>1, StutterPreserves, AllocatorOnly
       DEF SlotsTyped, CacheTyped, ConnectedHasGuid, Connected, CachedSkinsOwned
<1>5. CASE ProcessSkinAnnouncement(s)
  <2>1. /\ UNCHANGED guidVars
        /\ cachedSkins' = [cachedSkins EXCEPT ![g] = IF @ = Absent THEN Announced ELSE @]
    BY <1>2, <1>5, GuidAssumption DEF ProcessSkinAnnouncement, Guids
  <2>2. CacheTyped' /\ CachedSkinsOwned'
    BY <1>2, <2>1, AllocatorOnly DEF CacheTyped, CachedSkinsOwned
  <2> QED
    BY <1>1, <2>1, <2>2, StutterPreserves, AllocatorOnly
       DEF SlotsTyped, ConnectedHasGuid, Connected
<1>6. CASE ProcessSkinFileTransfer(s)
  <2> DEFINE b == Head(toServer[s]["Skin"]).bytes
  <2>1. UNCHANGED guidVars /\ cachedSkins' = [cachedSkins EXCEPT ![g] = b]
    BY <1>2, <1>6, GuidAssumption DEF ProcessSkinFileTransfer, Guids
  <2>2. CacheTyped' /\ CachedSkinsOwned'
    BY <1>2, <2>1, AllocatorOnly DEF CacheTyped, CachedSkinsOwned
  <2> QED
    BY <1>1, <2>1, <2>2, StutterPreserves, AllocatorOnly
       DEF SlotsTyped, ConnectedHasGuid, Connected
<1> QED
  BY <1>3, <1>4, <1>5, <1>6 DEF ServerReceive

\* Nothing is connected, assigned or cached at the start.
LEMMA SessionInitEstablishes == Init => SessionInv
<1> SUFFICES ASSUME Init PROVE SessionInv
  OBVIOUS
<1>1. GuidInv
  BY InitEstablishes DEF Init, ServerInit
<1>2. SlotsTyped /\ CacheTyped
  BY DEF Init, TransportInit, ServerInit, SlotsTyped, CacheTyped
<1>3. ConnectedHasGuid /\ CachedSkinsOwned
  BY DEF Init, TransportInit, ServerInit, GuidInit, ConnectedHasGuid, Connected,
         CachedSkinsOwned
<1> QED
  BY <1>1, <1>2, <1>3 DEF SessionInv

\* What the clients do leaves the server's bookkeeping alone.
LEMMA ClientsPreserve ==
    ASSUME SessionInv, UNCHANGED <<serverVars, slotPlayer>>
    PROVE  SessionInv'
<1>1. UNCHANGED guidVars /\ cachedSkins' = cachedSkins /\ slotPlayer' = slotPlayer
  BY DEF serverVars, guidVars
<1>2. GuidInv'
  BY <1>1, StutterPreserves DEF SessionInv
<1> QED
  BY <1>1, <1>2, AllocatorOnly
     DEF SessionInv, SlotsTyped, CacheTyped, ConnectedHasGuid, Connected, CachedSkinsOwned

LEMMA SessionStep == SessionInv /\ [Next]_vars => SessionInv'
<1> SUFFICES ASSUME SessionInv, [Next]_vars PROVE SessionInv'
  OBVIOUS
<1>1. ASSUME NEW p \in Players, NEW s \in Slots, Accept(p, s) \/ Refuse(p, s)
      PROVE  SessionInv'
  BY <1>1, AcceptPreserves, RefusePreserves DEF Accept, Refuse
<1>2. ASSUME NEW s \in Slots, Drop(s) \/ ServerStep(s)
      PROVE  SessionInv'
  BY <1>2, DropPreserves, ReceivePreserves DEF Drop, ServerStep
<1>3. ASSUME NEW p \in Players, Leave(p) \/ ClientStep(p)
      PROVE  SessionInv'
  <2>1. UNCHANGED <<serverVars, slotPlayer>>
    BY <1>3 DEF Leave, Disconnect, CloseClient, ClientStep, ClientReceive, ProcessGuidAssign,
            ProcessPeerProfile, ProcessRingSync, ProcessPeerSkinAnnouncement,
            ProcessPeerSkinFile, ProcessSkinClear, Take
  <2> QED
    BY <2>1, ClientsPreserve
<1>4. ASSUME NEW p \in Players, UploadSkin(p) \/ Rename(p) \/ RingFrame(p) \/ SendRing(p)
      PROVE  SessionInv'
  <2>1. UNCHANGED serverVars
    BY <1>4 DEF UploadSkin, Rename, RingFrame, SendRing
  <2>2. SendLocalSkinData(p) => slotPlayer' = slotPlayer
    BY DEF SendLocalSkinData, Send, transportVars
  <2>3. \A f \in Fields, v \in Values : ChangeProfile(p, f, v) => slotPlayer' = slotPlayer
    BY DEF ChangeProfile, Send, transportVars
  <2>4. \A r \in RingStates : DetectLocalRingChange(p, r) => slotPlayer' = slotPlayer
    BY DEF DetectLocalRingChange, transportVars
  <2>5. SendRingSync(p) => slotPlayer' = slotPlayer
    BY DEF SendRingSync, Send
  <2>6. slotPlayer' = slotPlayer
    BY <1>4, <2>2, <2>3, <2>4, <2>5 DEF UploadSkin, Rename, RingFrame, SendRing
  <2> QED
    BY <2>1, <2>6, ClientsPreserve
<1>5. CASE UNCHANGED vars
  BY <1>5, ClientsPreserve DEF vars, transportVars
<1> QED
  BY <1>1, <1>2, <1>3, <1>4, <1>5 DEF Next

\* A slot is connected exactly while it holds a GUID (server.cpp:362-401, GuidManager.cpp:22-50).
THEOREM ConnectedHasGuidAlways == Spec => []ConnectedHasGuid
<1>1. SessionInv => ConnectedHasGuid
  BY DEF SessionInv, GuidInv
<1> QED
  BY SessionInitEstablishes, SessionStep, <1>1, PTL DEF Spec

\* The server never keeps a skin for a GUID nobody holds (server.cpp:389-401,
\* 887-932).
THEOREM CachedSkinsOwnedAlways == Spec => []CachedSkinsOwned
<1>1. SessionInv => CachedSkinsOwned
  BY DEF SessionInv
<1> QED
  BY SessionInitEstablishes, SessionStep, <1>1, PTL DEF Spec

\* No GUID leaks in the session and none is lent twice: refusals, ghosts and reuse
\* included.
THEOREM SessionConservesGuids == Spec => []GuidsInOnePlace
<1>1. SessionInv => GuidsInOnePlace
  BY DEF SessionInv, GuidInv, GuidsInOnePlace
<1> QED
  BY SessionInitEstablishes, SessionStep, <1>1, PTL DEF Spec
-----------------------------------------------------------------------------
(* Who claims which GUID.  A client learns its GUID from the first message   *)
(* of a session and names it in whatever it sends, so that the claim is tied *)
(* to the contents of the queues in both directions.                         *)

\* What a client that was told g may send.
UploadsFor(g) == LET G == {g} \cap Guids IN UNION {
    [type : Fields, guid : G, value : Values],
    [type : {"RING_SYNC"}, guid : G, on : RingStates],
    [type : {"SKIN_ANNOUNCE"}, guid : G],
    [type : {"SKIN_FILE_TRANSFER"}, guid : G, bytes : Skins]}

\* What the server tells the client of a slot that has g, on the channel of the game.
PeerNews == [type : Fields, guid : Guids, value : Values]
                \cup [type : {"RING_SYNC"}, guid : Guids, on : RingStates]
AnswersFor(g) == [type : {"GUID_ASSIGN"}, guid : {g}] \cup PeerNews

\* What is to be sent of the ring is a state the game was seen in.
ClientsTyped ==
    /\ clientSlot \in [Players -> Slots \cup {NoSlot}]
    /\ DOMAIN myGuid = Players
    /\ myProfile \in [Players -> [Fields -> Values]]
    /\ lastLocalRing \in [Players -> RingStates \cup {Unknown}]
    /\ localRingDirty \in [Players -> BOOLEAN]
    /\ \A p \in Players : localRingDirty[p] => lastLocalRing[p] # Unknown

QueuesShaped ==
    /\ DOMAIN toServer = Slots
    /\ \A s \in Slots : DOMAIN toServer[s] = Channels
    /\ DOMAIN toClient = Players
    /\ \A p \in Players : DOMAIN toClient[p] = Channels

UploadsOwn == \A s \in Slots, ch \in Channels :
    toServer[s][ch] \in Seq(UploadsFor(clientGuidMap[s]))

AnswersOwn == \A p \in Players : Attached(p) =>
    toClient[p]["Gameplay"] \in Seq(AnswersFor(clientGuidMap[clientSlot[p]]))

\* OwnGuid, and a client that is to connect has none.
GuidsOwn == \A p \in Players :
    /\ clientSlot[p] = NoSlot => myGuid[p] = NoGuid
    /\ Attached(p) => myGuid[p] \in {NoGuid, clientGuidMap[clientSlot[p]]}

ClaimInv ==
    /\ SessionInv
    /\ DataTypeOK
    /\ ClientsTyped
    /\ QueuesShaped
    /\ UploadsOwn
    /\ AnswersOwn
    /\ GuidsOwn

\* A profile message is told from the others by its type.
LEMMA FieldsApart == Fields \cap {"GUID_ASSIGN", "RING_SYNC", "SKIN_ANNOUNCE",
                                  "SKIN_FILE_TRANSFER", "SKIN_CLEAR"} = {}
BY DataAssumption DEF Fields

LEMMA NothingSent == ASSUME NEW S PROVE \A ch \in Channels : NoMessages[ch] \in Seq(S)
BY DEF NoMessages

LEMMA ClaimInitEstablishes == Init => ClaimInv
<1> SUFFICES ASSUME Init PROVE ClaimInv
  OBVIOUS
<1>1. SessionInv
  BY SessionInitEstablishes
<1>2. DataTypeOK /\ ClientsTyped
  BY DataAssumption DEF Init, ServerInit, GuidInit, TransportInit, ClientInit, DataTypeOK,
                        ClientsTyped
<1>3. QueuesShaped
  BY DEF Init, TransportInit, NoMessages, QueuesShaped
<1>4. UploadsOwn
  <2>1. \A s \in Slots : toServer[s] = NoMessages
    BY DEF Init, TransportInit
  <2> QED
    BY <2>1, NothingSent DEF UploadsOwn
<1>5. \A p \in Players : clientSlot[p] = NoSlot /\ myGuid[p] = NoGuid
  BY DEF Init, TransportInit, ClientInit
<1>6. AnswersOwn /\ GuidsOwn
  BY <1>5 DEF AnswersOwn, GuidsOwn, Attached
<1> QED
  BY <1>1, <1>2, <1>3, <1>4, <1>6 DEF ClaimInv

\* What a client sends under its GUID lands in the queue of the slot that has it.
LEMMA UploadedOwn ==
    ASSUME ClaimInv, NEW p \in Players, NEW ch \in Channels, NEW msgs,
           Attached(p) => msgs \in Seq(UploadsFor(clientGuidMap[clientSlot[p]])),
           toServer' = Uploaded(p, ch, msgs),
           clientGuidMap' = clientGuidMap
    PROVE  /\ UploadsOwn'
           /\ DOMAIN toServer' = Slots
           /\ \A s \in Slots : DOMAIN toServer'[s] = Channels
<1> DEFINE t == clientSlot[p]
<1>1. QueuesShaped /\ UploadsOwn
  BY DEF ClaimInv
<1>2. CASE ~Attached(p)
  BY <1>1, <1>2 DEF Uploaded, QueuesShaped, UploadsOwn
<1>3. CASE Attached(p)
  <2>1. t \in Slots
    BY <1>3 DEF Attached, ClaimInv, ClientsTyped
  <2>2. toServer' = [toServer EXCEPT ![t][ch] = toServer[t][ch] \o msgs]
    BY <1>3 DEF Uploaded
  <2>3. toServer[t][ch] \o msgs \in Seq(UploadsFor(clientGuidMap[t]))
    <3>1. /\ toServer[t][ch] \in Seq(UploadsFor(clientGuidMap[t]))
          /\ msgs \in Seq(UploadsFor(clientGuidMap[t]))
      BY <1>1, <1>3, <2>1 DEF UploadsOwn
    <3> HIDE DEF t
    <3> QED
      BY <3>1, ConcatProperties
  <2>4. \A s \in Slots, c \in Channels :
            toServer'[s][c] = IF s = t /\ c = ch THEN toServer[t][ch] \o msgs
                              ELSE toServer[s][c]
    BY <1>1, <2>1, <2>2 DEF QueuesShaped
  <2>5. UploadsOwn'
    BY <1>1, <2>3, <2>4 DEF UploadsOwn
  <2> QED
    BY <1>1, <2>1, <2>2, <2>5 DEF QueuesShaped
<1> QED
  BY <1>2, <1>3

\* What the server sends to others is news about peers.
LEMMA DeliveredOwn ==
    ASSUME ClaimInv, NEW s \in Slots, NEW ch \in Channels, NEW msgs,
           ch = "Gameplay" => msgs \in Seq(PeerNews),
           toClient' = Delivered(ToOthers(s, ch, msgs))
    PROVE  /\ \A p \in Players : Attached(p) =>
                  toClient'[p]["Gameplay"] \in Seq(AnswersFor(clientGuidMap[clientSlot[p]]))
           /\ DOMAIN toClient' = Players
           /\ \A p \in Players : DOMAIN toClient'[p] = Channels
<1>1. QueuesShaped /\ AnswersOwn /\ ClientsTyped
  BY DEF ClaimInv
<1>2. /\ DOMAIN toClient' = Players
      /\ \A p \in Players : DOMAIN toClient'[p] = Channels
  BY <1>1 DEF Delivered, QueuesShaped
<1>3. ASSUME NEW p \in Players, Attached(p)
      PROVE  toClient'[p]["Gameplay"] \in Seq(AnswersFor(clientGuidMap[clientSlot[p]]))
  <2> DEFINE A == AnswersFor(clientGuidMap[clientSlot[p]])
             more == ToOthers(s, ch, msgs)[clientSlot[p]]["Gameplay"]
  <2>1. clientSlot[p] \in Slots
    BY <1>1, <1>3 DEF Attached, ClientsTyped
  <2>2. more = <<>> \/ (ch = "Gameplay" /\ more = msgs)
    BY <2>1 DEF ToOthers, NoMessages, Channels
  <2>3. more \in Seq(A)
    <3>1. PeerNews \subseteq A
      BY DEF AnswersFor
    <3>2. msgs \in Seq(PeerNews) => msgs \in Seq(A)
      <4> HIDE DEF A
      <4> QED
        BY <3>1, SeqMonotonic
    <3>3. <<>> \in Seq(A)
      OBVIOUS
    <3>4. ch = "Gameplay" => msgs \in Seq(A)
      BY <3>2
    <3> HIDE DEF A, more
    <3> QED
      BY <2>2, <3>3, <3>4
  <2>4. toClient'[p]["Gameplay"] = toClient[p]["Gameplay"] \o more
    BY <1>3 DEF Delivered, Channels
  <2>5. toClient[p]["Gameplay"] \in Seq(A)
    BY <1>1, <1>3 DEF AnswersOwn
  <2> HIDE DEF A, more
  <2>6. toClient'[p]["Gameplay"] \in Seq(A)
    BY <2>3, <2>4, <2>5, ConcatProperties
  <2> QED
    BY <2>6 DEF A
<1> QED
  BY <1>2, <1>3

\* A newcomer is told its GUID, and the profiles of those who have one.
LEMMA ProfileReplayTyped ==
    ASSUME ClaimInv, NEW s \in Slots
    PROVE  ProfileReplay(s) \in Seq(PeerNews)
<1> DEFINE ProfileOf(i) ==
             IF i = s \/ ~Connected(i) \/ clientGuidMap[i] = NoGuid THEN <<>>
             ELSE [k \in DOMAIN ProfileFields |->
                      ProfileMessage(ProfileFields[k], clientGuidMap[i],
                                     GetProfile(i, ProfileFields[k]))]
           parts == [k \in 1 .. MaxClients |-> ProfileOf(k - 1)]
<1>1. Len(parts) \in Nat \ {0} /\ Len(parts) = MaxClients
  BY SlotsAssumption
<1>2. ASSUME NEW i \in Slots PROVE ProfileOf(i) \in Seq(PeerNews)
  <2>1. CASE i = s \/ ~Connected(i) \/ clientGuidMap[i] = NoGuid
    BY <2>1
  <2>2. CASE ~(i = s \/ ~Connected(i) \/ clientGuidMap[i] = NoGuid)
    <3>1. clientGuidMap[i] \in Guids
      BY <2>2 DEF ClaimInv, SessionInv, GuidInv, MapTypeOK
    <3>2. \A k \in DOMAIN ProfileFields : ProfileFields[k] \in Fields
      BY DEF Fields
    <3>3. \A f \in Fields : GetProfile(i, f) \in Values
      BY <3>1, <2>2 DEF GetProfile, ClaimInv, DataTypeOK
    <3>4. \A k \in DOMAIN ProfileFields :
              ProfileMessage(ProfileFields[k], clientGuidMap[i],
                             GetProfile(i, ProfileFields[k])) \in PeerNews
      BY <3>1, <3>2, <3>3 DEF ProfileMessage, PeerNews
    <3>5. Len(ProfileFields) \in Nat /\ DOMAIN ProfileFields = 1 .. Len(ProfileFields)
      BY DataAssumption
    <3> QED
      BY <2>2, <3>4, <3>5
  <2> QED
    BY <2>1, <2>2
<1>3. \A k \in 1 .. Len(parts) : parts[k] \in Seq(PeerNews)
  <2> SUFFICES ASSUME NEW k \in 1 .. MaxClients PROVE ProfileOf(k - 1) \in Seq(PeerNews)
    BY <1>1
  <2>1. k - 1 \in Slots
    BY SlotsAssumption DEF Slots
  <2> HIDE DEF ProfileOf
  <2> QED
    BY <1>2, <2>1
<1>4. FlattenSeq(parts) \in Seq(PeerNews)
  <2> HIDE DEF parts
  <2> QED
    BY <1>1, <1>3, FlattenTyped
<1> QED
  BY <1>4 DEF ProfileReplay

\* netcode accepts a client: the queues start anew and with the GUID.
LEMMA AcceptClaims ==
    ASSUME ClaimInv, NEW p \in Players, NEW s \in Slots, AcceptClient(p, s),
           UNCHANGED clientVars
    PROVE  ClaimInv'
<1> DEFINE g == GuidFor(s)
<1>1. /\ clientSlot[p] = NoSlot /\ ~Connected(s) /\ g # NoGuid /\ AssignGuid(s)
      /\ slotPlayer' = [slotPlayer EXCEPT ![s] = p]
      /\ clientSlot' = [clientSlot EXCEPT ![p] = s]
      /\ toServer' = [toServer EXCEPT ![s] = NoMessages]
      /\ toClient' = [toClient EXCEPT ![p] =
                         [Gameplay |-> <<GuidAssignMessage(g)>> \o ProfileReplay(s),
                          Skin     |-> SkinReplay]]
  BY DEF AcceptClient, IsFirstFree, OpenSession
<1>2. /\ UNCHANGED <<myGuid, myProfile, lastLocalRing, localRingDirty>>
  BY DEF clientVars, profileVars, ringVars
<1>3. SessionInv /\ DataTypeOK /\ ClientsTyped /\ QueuesShaped /\ UploadsOwn /\ AnswersOwn
      /\ GuidsOwn
  BY DEF ClaimInv
<1>4. SessionInv'
  BY <1>3, AcceptPreserves
<1>5. clientGuidMap[s] = NoGuid /\ SlotsTyped
  BY <1>1, <1>3 DEF SessionInv, ConnectedHasGuid
<1>6. clientGuidMap' = [clientGuidMap EXCEPT ![s] = g] /\ guidData' = guidData
  BY <1>1, <1>3, <1>5, NoGuidMeansNone DEF AssignGuid, SessionInv, guidVars
<1>7. clientGuidMap'[s] = g /\ \A t \in Slots \ {s} : clientGuidMap'[t] = clientGuidMap[t]
  BY <1>3, <1>6 DEF SessionInv, GuidInv, MapTypeOK
<1>8. DataTypeOK' /\ ClientsTyped'
  BY <1>1, <1>2, <1>3, <1>6 DEF DataTypeOK, ClientsTyped
<1>9. QueuesShaped'
  BY <1>1, <1>3 DEF QueuesShaped, NoMessages, Channels
<1>10. UploadsOwn'
  <2>1. toServer'[s] = NoMessages /\ \A t \in Slots \ {s} : toServer'[t] = toServer[t]
    BY <1>1, <1>3 DEF QueuesShaped
  <2> QED
    BY <1>3, <1>7, <2>1, NothingSent DEF UploadsOwn
<1>11. clientSlot'[p] = s /\ \A q \in Players \ {p} : clientSlot'[q] = clientSlot[q]
  BY <1>1, <1>3 DEF ClientsTyped
<1>12. ASSUME NEW q \in Players \ {p}, Attached(q)'
       PROVE  Attached(q) /\ clientSlot'[q] = clientSlot[q] /\ clientSlot[q] \in Slots \ {s}
  BY <1>1, <1>3, <1>5, <1>11, <1>12 DEF Attached, ClientsTyped, SlotsTyped
<1>13. AnswersOwn'
  <2>1. toClient'[p]["Gameplay"] \in Seq(AnswersFor(g))
    <3>1. toClient'[p]["Gameplay"] = <<GuidAssignMessage(g)>> \o ProfileReplay(s)
      BY <1>1, <1>3 DEF QueuesShaped
    <3>2. ProfileReplay(s) \in Seq(AnswersFor(g))
      BY ProfileReplayTyped, SeqMonotonic DEF AnswersFor
    <3>3. <<GuidAssignMessage(g)>> \in Seq(AnswersFor(g))
      BY DEF GuidAssignMessage, AnswersFor
    <3> QED
      BY <3>1, <3>2, <3>3, ConcatProperties
  <2>2. \A q \in Players \ {p} : toClient'[q] = toClient[q]
    BY <1>1, <1>3 DEF QueuesShaped
  <2> QED
    BY <1>3, <1>7, <1>11, <1>12, <2>1, <2>2 DEF AnswersOwn
<1>14. GuidsOwn'
  <2>1. myGuid[p] = NoGuid
    BY <1>1, <1>3 DEF GuidsOwn
  <2>2. s # NoSlot
    BY TransportAssumption
  <2> QED
    BY <1>2, <1>3, <1>7, <1>11, <1>12, <2>1, <2>2 DEF GuidsOwn
<1> QED
  BY <1>4, <1>8, <1>9, <1>10, <1>13, <1>14 DEF ClaimInv

\* The refused client is left with an end of a session that has no other end.
LEMMA RefuseClaims ==
    ASSUME ClaimInv, NEW p \in Players, NEW s \in Slots, RefuseClient(p, s),
           UNCHANGED clientVars
    PROVE  ClaimInv' /\ UNCHANGED guidVars
<1>1. /\ ~Connected(s) /\ clientSlot[p] = NoSlot
      /\ clientSlot' = [clientSlot EXCEPT ![p] = s]
      /\ toServer' = [toServer EXCEPT ![s] = NoMessages]
      /\ toClient' = [toClient EXCEPT ![p] = NoMessages]
      /\ slotPlayer' = slotPlayer
  BY DEF RefuseClient, IsFirstFree
<1>2. /\ UNCHANGED <<myGuid, myProfile, lastLocalRing, localRingDirty>>
  BY DEF clientVars, profileVars, ringVars
<1>3. SessionInv /\ DataTypeOK /\ ClientsTyped /\ QueuesShaped /\ UploadsOwn /\ AnswersOwn
      /\ GuidsOwn
  BY DEF ClaimInv
<1>4. SessionInv' /\ UNCHANGED guidVars
  BY <1>3, RefusePreserves
<1>5. clientGuidMap' = clientGuidMap /\ guidData' = guidData
  BY <1>4 DEF guidVars
<1>6. DataTypeOK' /\ ClientsTyped'
  BY <1>1, <1>2, <1>3, <1>5 DEF DataTypeOK, ClientsTyped
<1>7. QueuesShaped'
  BY <1>1, <1>3 DEF QueuesShaped, NoMessages
<1>8. UploadsOwn'
  <2>1. toServer'[s] = NoMessages /\ \A t \in Slots \ {s} : toServer'[t] = toServer[t]
    BY <1>1, <1>3 DEF QueuesShaped
  <2> QED
    BY <1>3, <1>5, <2>1, NothingSent DEF UploadsOwn
<1>9. clientSlot'[p] = s /\ \A q \in Players \ {p} : clientSlot'[q] = clientSlot[q]
  BY <1>1, <1>3 DEF ClientsTyped
<1>10. ~Attached(p)'
  BY <1>1, <1>9, TransportAssumption DEF Attached, Connected
<1>11. \A q \in Players \ {p} : Attached(q)' <=> Attached(q)
  BY <1>1, <1>9 DEF Attached
<1>12. AnswersOwn' /\ GuidsOwn'
  <2>1. \A q \in Players \ {p} : toClient'[q] = toClient[q]
    BY <1>1, <1>3 DEF QueuesShaped
  <2>2. AnswersOwn'
    BY <1>3, <1>5, <1>9, <1>10, <1>11, <2>1 DEF AnswersOwn
  <2>3. GuidsOwn'
    BY <1>2, <1>3, <1>5, <1>9, <1>10, <1>11, TransportAssumption DEF GuidsOwn
  <2> QED
    BY <2>2, <2>3
<1> QED
  BY <1>4, <1>6, <1>7, <1>8, <1>12 DEF ClaimInv

\* The server drops a slot: whoever was there is attached to nothing.
LEMMA DropClaims ==
    ASSUME ClaimInv, NEW s \in Slots, DropClient(s), UNCHANGED clientVars
    PROVE  ClaimInv'
<1>1. /\ ReleaseGuid(s)
      /\ slotPlayer' = [slotPlayer EXCEPT ![s] = NoPlayer]
      /\ toServer' = [toServer EXCEPT ![s] = NoMessages]
      /\ clientSlot' = clientSlot
      /\ \E msgs : toClient' = Delivered(ToOthers(s, "Skin", msgs))
  BY DEF DropClient, CloseSlot
<1>2. UNCHANGED <<myGuid, myProfile, lastLocalRing, localRingDirty>>
  BY DEF clientVars, profileVars, ringVars
<1>3. SessionInv /\ DataTypeOK /\ ClientsTyped /\ QueuesShaped /\ UploadsOwn /\ AnswersOwn
      /\ GuidsOwn
  BY DEF ClaimInv
<1>4. SessionInv'
  BY <1>3, DropPreserves
<1>5. /\ clientGuidMap' = [clientGuidMap EXCEPT ![s] = NoGuid] \/ clientGuidMap' = clientGuidMap
      /\ guidData' = guidData
  BY <1>1 DEF ReleaseGuid, guidVars
<1>6. \A t \in Slots \ {s} : clientGuidMap'[t] = clientGuidMap[t]
  BY <1>3, <1>5 DEF SessionInv, GuidInv, MapTypeOK
<1>7. DataTypeOK' /\ ClientsTyped'
  BY <1>1, <1>2, <1>3, <1>5 DEF DataTypeOK, ClientsTyped
<1>8. /\ \A p \in Players : Attached(p) =>
             toClient'[p]["Gameplay"] \in Seq(AnswersFor(clientGuidMap[clientSlot[p]]))
      /\ DOMAIN toClient' = Players
      /\ \A p \in Players : DOMAIN toClient'[p] = Channels
  <2>1. PICK msgs : toClient' = Delivered(ToOthers(s, "Skin", msgs))
    BY <1>1
  <2>2. "Skin" \in Channels /\ "Skin" # "Gameplay"
    BY DEF Channels
  <2> QED
    BY <2>1, <2>2, DeliveredOwn
<1>9. QueuesShaped'
  BY <1>1, <1>3, <1>8 DEF QueuesShaped, NoMessages
<1>10. UploadsOwn'
  <2>1. toServer'[s] = NoMessages /\ \A t \in Slots \ {s} : toServer'[t] = toServer[t]
    BY <1>1, <1>3 DEF QueuesShaped
  <2> QED
    BY <1>3, <1>6, <2>1, NothingSent DEF UploadsOwn
<1>11. ASSUME NEW p \in Players, Attached(p)'
       PROVE  Attached(p) /\ clientSlot[p] \in Slots \ {s}
  BY <1>1, <1>3, <1>11, TransportAssumption
     DEF Attached, SessionInv, SlotsTyped, ClientsTyped
<1>12. AnswersOwn'
  BY <1>1, <1>6, <1>8, <1>11 DEF AnswersOwn
<1>13. GuidsOwn'
  BY <1>1, <1>2, <1>3, <1>6, <1>11 DEF GuidsOwn
<1> QED
  BY <1>4, <1>7, <1>9, <1>10, <1>12, <1>13 DEF ClaimInv

\* A handler of the server: what it takes is the sender's, what it relays is news.
LEMMA ReceiveClaims ==
    ASSUME ClaimInv, NEW s \in Slots, ServerReceive(s), UNCHANGED clientVars
    PROVE  ClaimInv' /\ [GuidNext]_guidVars
<1> DEFINE g == clientGuidMap[s]
           m == Head(toServer[s]["Gameplay"])
<1>1. SessionInv /\ DataTypeOK /\ ClientsTyped /\ QueuesShaped /\ UploadsOwn /\ AnswersOwn
      /\ GuidsOwn
  BY DEF ClaimInv
<1>2. UNCHANGED <<myGuid, myProfile, lastLocalRing, localRingDirty>>
  BY DEF clientVars, profileVars, ringVars
<1>3. SessionInv'
  BY <1>1, ReceivePreserves
<1>4. Connected(s) /\ g \in Guids
  BY <1>1 DEF ServerReceive, ProcessProfileUpdate, BroadcastRingSync, ProcessSkinAnnouncement,
              ProcessSkinFileTransfer, HasNext, SessionInv, ConnectedHasGuid, GuidInv, MapTypeOK
<1>5. toServer[s]["Gameplay"] # <<>> => m \in UploadsFor(g)
  BY <1>1 DEF UploadsOwn, Channels
<1>6. ProcessProfileUpdate(s) =>
          /\ m \in PeerNews /\ m.type \in Fields /\ m.value \in Values
          /\ SetProfile(s, m.type, m.value)
  BY <1>4, <1>5, FieldsApart DEF ProcessProfileUpdate, HasNext, UploadsFor, PeerNews
<1>7. BroadcastRingSync(s) => RingSyncMessage(g, m.on) \in PeerNews
  BY <1>4, <1>5, FieldsApart
     DEF BroadcastRingSync, HasNext, UploadsFor, PeerNews, RingSyncMessage
<1>8. PICK ch, msgs :
         /\ ch \in Channels
         /\ ch = "Gameplay" => msgs \in Seq(PeerNews)
         /\ toServer[s][ch] # <<>>
         /\ Relay(s, ch, msgs)
  <2>0. "Gameplay" \in Channels
    BY DEF Channels
  <2>1. CASE ProcessProfileUpdate(s)
    <3>1. toServer[s]["Gameplay"] # <<>> /\ Relay(s, "Gameplay", <<m>>)
      BY <2>1 DEF ProcessProfileUpdate, HasNext
    <3>2. m \in PeerNews
      BY <1>6, <2>1
    <3> HIDE DEF m
    <3>3. <<m>> \in Seq(PeerNews)
      BY <3>2
    <3> QED
      BY <2>0, <3>1, <3>3
  <2>2. CASE BroadcastRingSync(s)
    <3> DEFINE r == RingSyncMessage(g, m.on)
    <3>1. toServer[s]["Gameplay"] # <<>> /\ Relay(s, "Gameplay", <<r>>)
      BY <2>2 DEF BroadcastRingSync, HasNext
    <3>2. r \in PeerNews
      BY <1>7, <2>2
    <3> HIDE DEF r
    <3>3. <<r>> \in Seq(PeerNews)
      BY <3>2
    <3> QED
      BY <2>0, <3>1, <3>3
  <2>3. CASE ProcessSkinAnnouncement(s)
    <3>1. "Skin" \in Channels /\ "Skin" # "Gameplay"
      BY DEF Channels
    <3> QED
      BY <2>3, <3>1 DEF ProcessSkinAnnouncement, HasNext
  <2>4. CASE ProcessSkinFileTransfer(s)
    <3>1. "Skin" \in Channels /\ "Skin" # "Gameplay"
      BY DEF Channels
    <3> QED
      BY <2>4, <3>1 DEF ProcessSkinFileTransfer, HasNext
  <2> QED
    BY <2>1, <2>2, <2>3, <2>4 DEF ServerReceive
<1>9. /\ toServer' = [toServer EXCEPT ![s][ch] = Tail(toServer[s][ch])]
      /\ toClient' = Delivered(ToOthers(s, ch, msgs))
      /\ UNCHANGED <<slotPlayer, clientSlot>>
  BY <1>8 DEF Relay
<1>10. UNCHANGED guidVars \/ (ProcessProfileUpdate(s) /\ SetProfile(s, m.type, m.value))
  BY <1>6 DEF ServerReceive, BroadcastRingSync, ProcessSkinAnnouncement,
              ProcessSkinFileTransfer, serverVars, guidVars
<1>11. clientGuidMap' = clientGuidMap /\ DataTypeOK'
  <2>1. CASE UNCHANGED guidVars
    BY <1>1, <2>1 DEF guidVars, DataTypeOK
  <2>2. CASE ProcessProfileUpdate(s) /\ SetProfile(s, m.type, m.value)
    <3>1. m.type \in Fields /\ m.value \in Values
      BY <1>6, <2>2
    <3>2. \/ UNCHANGED guidVars
          \/ /\ guidData' = [guidData EXCEPT ![g][m.type] = m.value]
             /\ clientGuidMap' = clientGuidMap
      BY <2>2 DEF SetProfile
    <3> HIDE DEF m
    <3> QED
      BY <1>1, <3>1, <3>2 DEF DataTypeOK, guidVars
  <2> QED
    BY <1>10, <2>1, <2>2
<1>12. [GuidNext]_guidVars
  <2>1. ProcessProfileUpdate(s) => GuidNext
    BY <1>6 DEF GuidNext
  <2> QED
    BY <1>10, <2>1
<1>13. UploadsOwn' /\ QueuesShaped'
  <2>1. Tail(toServer[s][ch]) \in Seq(UploadsFor(g))
    <3>1. toServer[s][ch] \in Seq(UploadsFor(g))
      BY <1>1, <1>8 DEF UploadsOwn
    <3> HIDE DEF g
    <3> QED
      BY <1>8, <3>1, HeadTailProperties
  <2>2. \A t \in Slots, c \in Channels :
            toServer'[t][c] = IF t = s /\ c = ch THEN Tail(toServer[s][ch]) ELSE toServer[t][c]
    BY <1>1, <1>9 DEF QueuesShaped
  <2>3. UploadsOwn'
    BY <1>1, <1>11, <2>1, <2>2 DEF UploadsOwn
  <2>4. DOMAIN toClient' = Players /\ \A p \in Players : DOMAIN toClient'[p] = Channels
    BY <1>8, <1>9, DeliveredOwn
  <2>5. QueuesShaped'
    BY <1>1, <1>9, <2>4 DEF QueuesShaped
  <2> QED
    BY <2>3, <2>5
<1>14. \A p \in Players : Attached(p)' <=> Attached(p)
  BY <1>9 DEF Attached
<1>15. AnswersOwn'
  <2>1. \A p \in Players : Attached(p) =>
            toClient'[p]["Gameplay"] \in Seq(AnswersFor(clientGuidMap[clientSlot[p]]))
    BY <1>8, <1>9, DeliveredOwn
  <2> QED
    BY <1>9, <1>11, <1>14, <2>1 DEF AnswersOwn
<1>16. GuidsOwn' /\ ClientsTyped'
  BY <1>1, <1>2, <1>9, <1>11, <1>14 DEF GuidsOwn, ClientsTyped
<1> QED
  BY <1>3, <1>11, <1>12, <1>13, <1>15, <1>16 DEF ClaimInv

\* The client gives up its end and forgets its GUID.
LEMMA DisconnectClaims ==
    ASSUME ClaimInv, NEW p \in Players, Disconnect(p), UNCHANGED serverVars
    PROVE  ClaimInv'
<1>1. SessionInv /\ DataTypeOK /\ ClientsTyped /\ QueuesShaped /\ UploadsOwn /\ AnswersOwn
      /\ GuidsOwn
  BY DEF ClaimInv
<1>2. /\ clientSlot' = [clientSlot EXCEPT ![p] = NoSlot]
      /\ toClient' = [toClient EXCEPT ![p] = NoMessages]
      /\ myGuid' = [myGuid EXCEPT ![p] = NoGuid]
      /\ UNCHANGED <<slotPlayer, toServer, myProfile, lastLocalRing, localRingDirty>>
  BY DEF Disconnect, CloseClient, ringVars
<1>3. UNCHANGED <<clientGuidMap, guidData>>
  BY DEF serverVars
<1>4. SessionInv'
  BY <1>1, <1>2, ClientsPreserve
<1>5. DataTypeOK' /\ ClientsTyped' /\ QueuesShaped' /\ UploadsOwn'
  BY <1>1, <1>2, <1>3 DEF DataTypeOK, ClientsTyped, QueuesShaped, UploadsOwn, NoMessages
<1>6. /\ clientSlot'[p] = NoSlot /\ myGuid'[p] = NoGuid
      /\ \A q \in Players \ {p} : /\ clientSlot'[q] = clientSlot[q]
                                 /\ myGuid'[q] = myGuid[q]
                                 /\ toClient'[q] = toClient[q]
  BY <1>1, <1>2 DEF ClientsTyped, QueuesShaped
<1>7. ~Attached(p)' /\ \A q \in Players \ {p} : Attached(q)' <=> Attached(q)
  BY <1>2, <1>6 DEF Attached
<1>8. AnswersOwn'
  BY <1>1, <1>3, <1>6, <1>7 DEF AnswersOwn
<1>9. GuidsOwn'
  BY <1>1, <1>3, <1>6, <1>7 DEF GuidsOwn
<1> QED
  BY <1>4, <1>5, <1>8, <1>9 DEF ClaimInv

\* A client sends something of its own under the GUID it has, or nothing.
LEMMA SendClaims ==
    ASSUME ClaimInv, NEW p \in Players, NEW ch \in Channels, NEW msgs,
           Attached(p) => msgs \in Seq(UploadsFor(clientGuidMap[clientSlot[p]])),
           toServer' = Uploaded(p, ch, msgs),
           UNCHANGED <<serverVars, slotPlayer, clientSlot, toClient, myGuid>>,
           ClientsTyped'
    PROVE  ClaimInv'
<1>1. SessionInv /\ DataTypeOK /\ QueuesShaped /\ AnswersOwn /\ GuidsOwn
  BY DEF ClaimInv
<1>2. SessionInv'
  BY <1>1, ClientsPreserve
<1>3. UNCHANGED <<clientGuidMap, guidData>>
  BY DEF serverVars
<1>4. UploadsOwn' /\ DOMAIN toServer' = Slots /\ \A s \in Slots : DOMAIN toServer'[s] = Channels
  BY <1>3, UploadedOwn
<1>5. DataTypeOK' /\ QueuesShaped' /\ AnswersOwn' /\ GuidsOwn'
  BY <1>1, <1>3, <1>4 DEF DataTypeOK, QueuesShaped, AnswersOwn, GuidsOwn, Attached
<1> QED
  BY <1>2, <1>4, <1>5 DEF ClaimInv

\* The GUID an attached client has is the one of its slot.
LEMMA OwnsItsSlot ==
    ASSUME ClaimInv, NEW p \in Players, Attached(p), myGuid[p] # NoGuid
    PROVE  /\ myGuid[p] = clientGuidMap[clientSlot[p]]
           /\ clientSlot[p] \in Slots
           /\ myGuid[p] \in Guids
  BY DEF ClaimInv, GuidsOwn, Attached, ClientsTyped, SessionInv, GuidInv, MapTypeOK

\* Nothing that the invariant speaks of changes on the client's side.
LEMMA QuietClaims ==
    ASSUME ClaimInv, ClientsTyped', UNCHANGED <<serverVars, transportVars, myGuid>>
    PROVE  ClaimInv'
<1>1. UNCHANGED <<slotPlayer, clientSlot, toServer, toClient, clientGuidMap, guidData>>
  BY DEF serverVars, transportVars
<1>2. SessionInv'
  BY <1>1, ClientsPreserve DEF ClaimInv
<1> QED
  BY <1>1, <1>2 DEF ClaimInv, DataTypeOK, QueuesShaped, UploadsOwn, AnswersOwn, GuidsOwn, Attached

LEMMA UploadSkinClaims ==
    ASSUME ClaimInv, NEW p \in Players, SendLocalSkinData(p), UNCHANGED serverVars
    PROVE  ClaimInv'
<1> DEFINE msgs == <<SkinAnnouncementMessage(myGuid[p]),
                     SkinFileTransferMessage(myGuid[p], LocalSkin[p])>>
<1>1. ClientsTyped' /\ myGuid' = myGuid
  <2>1. clientSlot' = clientSlot
    BY DEF SendLocalSkinData, Send, transportVars
  <2> QED
    BY <2>1 DEF SendLocalSkinData, profileVars, ringVars, ClaimInv, ClientsTyped
<1>2. CASE LocalSkin[p] = NoSkin
  <2>1. UNCHANGED transportVars
    BY <1>2 DEF SendLocalSkinData
  <2> QED
    BY <1>1, <2>1, QuietClaims
<1>3. CASE LocalSkin[p] # NoSkin
  <2>1. Send(p, "Skin", msgs) /\ myGuid[p] # NoGuid
    BY <1>3 DEF SendLocalSkinData
  <2>2. ASSUME Attached(p) PROVE msgs \in Seq(UploadsFor(clientGuidMap[clientSlot[p]]))
    <3> DEFINE g == clientGuidMap[clientSlot[p]]
    <3>1. myGuid[p] = g /\ g \in Guids
      BY <2>1, <2>2, OwnsItsSlot
    <3>2. LocalSkin[p] \in Skins
      BY <1>3, LocalSkinAssumption
    <3>3. SkinAnnouncementMessage(g) \in UploadsFor(g)
      BY <3>1 DEF SkinAnnouncementMessage, UploadsFor
    <3>4. SkinFileTransferMessage(g, LocalSkin[p]) \in UploadsFor(g)
      BY <3>1, <3>2 DEF SkinFileTransferMessage, UploadsFor
    <3>5. msgs = <<SkinAnnouncementMessage(g), SkinFileTransferMessage(g, LocalSkin[p])>>
      BY <3>1
    <3> HIDE DEF g, msgs
    <3>6. msgs \in Seq(UploadsFor(g))
      BY <3>3, <3>4, <3>5
    <3> QED
      BY <3>6 DEF g
  <2>3. "Skin" \in Channels
    BY DEF Channels
  <2> HIDE DEF msgs
  <2> QED
    BY <1>1, <2>1, <2>2, <2>3, SendClaims DEF Send
<1> QED
  BY <1>2, <1>3

LEMMA RenameClaims ==
    ASSUME ClaimInv, NEW p \in Players, NEW f \in Fields, NEW v \in Values,
           ChangeProfile(p, f, v), UNCHANGED serverVars
    PROVE  ClaimInv'
<1> DEFINE m == ProfileMessage(f, myGuid[p], v)
<1>1. ClientsTyped' /\ myGuid' = myGuid
  <2>1. clientSlot' = clientSlot
    BY DEF ChangeProfile, Send, transportVars
  <2> QED
    BY <2>1 DEF ChangeProfile, ringVars, ClaimInv, ClientsTyped
<1>2. CASE v = EmptyValue
  <2>1. UNCHANGED transportVars
    BY <1>2 DEF ChangeProfile
  <2> QED
    BY <1>1, <2>1, QuietClaims
<1>3. CASE v # EmptyValue
  <2>1. Send(p, "Gameplay", <<m>>) /\ myGuid[p] # NoGuid
    BY <1>3 DEF ChangeProfile
  <2>2. ASSUME Attached(p) PROVE <<m>> \in Seq(UploadsFor(clientGuidMap[clientSlot[p]]))
    <3>1. m \in UploadsFor(clientGuidMap[clientSlot[p]])
      BY <2>1, <2>2, OwnsItsSlot DEF ProfileMessage, UploadsFor
    <3> HIDE DEF m
    <3> QED
      BY <3>1
  <2>3. "Gameplay" \in Channels
    BY DEF Channels
  <2> HIDE DEF m
  <2> QED
    BY <1>1, <2>1, <2>2, <2>3, SendClaims DEF Send
<1> QED
  BY <1>2, <1>3

LEMMA RingFrameClaims ==
    ASSUME ClaimInv, NEW p \in Players, NEW r \in RingStates, DetectLocalRingChange(p, r),
           UNCHANGED serverVars
    PROVE  ClaimInv'
<1>1. ClientsTyped'
  BY DEF DetectLocalRingChange, profileVars, transportVars, ClaimInv, ClientsTyped,
         RingStates, Unknown
<1> QED
  BY <1>1, QuietClaims DEF DetectLocalRingChange

LEMMA SendRingClaims ==
    ASSUME ClaimInv, NEW p \in Players, SendRingSync(p), UNCHANGED serverVars
    PROVE  ClaimInv'
<1> DEFINE m == RingSyncMessage(myGuid[p], lastLocalRing[p])
<1>1. ClientsTyped' /\ myGuid' = myGuid
  BY DEF SendRingSync, Send, profileVars, ClaimInv, ClientsTyped
<1>2. Send(p, "Gameplay", <<m>>) /\ myGuid[p] # NoGuid
  BY DEF SendRingSync
<1>3. ASSUME Attached(p) PROVE <<m>> \in Seq(UploadsFor(clientGuidMap[clientSlot[p]]))
  <2>1. lastLocalRing[p] \in RingStates
    BY DEF SendRingSync, ClaimInv, ClientsTyped
  <2>2. m \in UploadsFor(clientGuidMap[clientSlot[p]])
    BY <1>2, <1>3, <2>1, OwnsItsSlot DEF RingSyncMessage, UploadsFor
  <2> HIDE DEF m
  <2> QED
    BY <2>2
<1>4. "Gameplay" \in Channels
  BY DEF Channels
<1> HIDE DEF m
<1> QED
  BY <1>1, <1>2, <1>3, <1>4, SendClaims DEF Send

\* A client takes a message: if it is its GUID, then the one of the slot, and what it
\* answers names that.
LEMMA ClientReceiveClaims ==
    ASSUME ClaimInv, NEW p \in Players, ClientReceive(p), UNCHANGED serverVars
    PROVE  ClaimInv'
<1> DEFINE g == clientGuidMap[clientSlot[p]]
           m == Head(toClient[p]["Gameplay"])
<1>1. SessionInv /\ DataTypeOK /\ ClientsTyped /\ QueuesShaped /\ UploadsOwn /\ AnswersOwn
      /\ GuidsOwn
  BY DEF ClaimInv
<1>2. UNCHANGED <<clientGuidMap, guidData>>
  BY DEF serverVars
<1>3. clientSlot[p] # NoSlot /\ UNCHANGED <<myProfile, lastLocalRing, localRingDirty>>
  BY DEF ClientReceive, ProcessGuidAssign, ProcessPeerProfile, ProcessRingSync,
         ProcessPeerSkinAnnouncement, ProcessPeerSkinFile, ProcessSkinClear, HasMessage,
         HasSession, profileVars, ringVars
<1>4. ASSUME ProcessGuidAssign(p), Attached(p) PROVE m.guid = g /\ g \in Guids
  <2>1. m \in AnswersFor(g) /\ m.type = "GUID_ASSIGN"
    <3>1. toClient[p]["Gameplay"] \in Seq(AnswersFor(g)) /\ toClient[p]["Gameplay"] # <<>>
      BY <1>1, <1>4 DEF AnswersOwn, ProcessGuidAssign, HasMessage
    <3>2. m.type = "GUID_ASSIGN"
      BY <1>4 DEF ProcessGuidAssign, HasMessage
    <3> HIDE DEF g
    <3> QED
      BY <3>1, <3>2
  <2>2. m.guid = g
    BY <2>1, FieldsApart DEF AnswersFor, PeerNews
  <2>3. clientSlot[p] \in Slots /\ Connected(clientSlot[p])
    BY <1>1, <1>4, TransportAssumption DEF Attached, Connected, ClientsTyped
  <2>4. g \in Guids
    BY <1>1, <2>3 DEF SessionInv, ConnectedHasGuid, GuidInv, MapTypeOK
  <2> QED
    BY <2>2, <2>4
<1>5. \/ myGuid' = myGuid
      \/ ProcessGuidAssign(p) /\ myGuid' = [myGuid EXCEPT ![p] = m.guid]
  BY DEF ClientReceive, ProcessGuidAssign, ProcessPeerProfile, ProcessRingSync,
         ProcessPeerSkinAnnouncement, ProcessPeerSkinFile, ProcessSkinClear
<1>6. PICK ch, reply :
         /\ ch \in Channels
         /\ Attached(p) => reply \in Seq(UploadsFor(g))
         /\ toClient[p][ch] # <<>>
         /\ Take(p, ch, reply)
  <2>0. "Gameplay" \in Channels /\ "Skin" \in Channels /\ <<>> \in Seq(UploadsFor(g))
    BY DEF Channels
  <2>1. CASE ProcessGuidAssign(p)
    <3> DEFINE reply ==
          IF m.guid = NoGuid THEN <<>>
          ELSE [k \in DOMAIN ProfileFields |->
                   ProfileMessage(ProfileFields[k], m.guid, myProfile[p][ProfileFields[k]])]
    <3>1. toClient[p]["Gameplay"] # <<>> /\ Take(p, "Gameplay", reply)
      BY <2>1 DEF ProcessGuidAssign, HasMessage
    <3>2. ASSUME Attached(p) PROVE reply \in Seq(UploadsFor(g))
      <4>1. m.guid = g /\ g # NoGuid
        BY <1>4, <2>1, <3>2, GuidAssumption DEF Guids
      <4>2. \A k \in DOMAIN ProfileFields : ProfileFields[k] \in Fields
        BY DEF Fields
      <4>3. \A f \in Fields : myProfile[p][f] \in Values
        BY <1>1 DEF ClientsTyped
      <4>4. \A k \in DOMAIN ProfileFields :
                ProfileMessage(ProfileFields[k], g, myProfile[p][ProfileFields[k]])
                    \in UploadsFor(g)
        BY <1>4, <2>1, <3>2, <4>2, <4>3 DEF ProfileMessage, UploadsFor
      <4>5. Len(ProfileFields) \in Nat /\ DOMAIN ProfileFields = 1 .. Len(ProfileFields)
        BY DataAssumption
      <4>6. reply = [k \in 1 .. Len(ProfileFields) |->
                        ProfileMessage(ProfileFields[k], g, myProfile[p][ProfileFields[k]])]
        BY <4>1, <4>5
      <4> HIDE DEF g, reply
      <4> QED
        BY <4>4, <4>5, <4>6
    <3> HIDE DEF reply
    <3> QED
      BY <2>0, <3>1, <3>2
  <2>2. CASE ProcessPeerProfile(p) \/ ProcessRingSync(p)
    <3>1. toClient[p]["Gameplay"] # <<>> /\ Take(p, "Gameplay", <<>>)
      BY <2>2 DEF ProcessPeerProfile, ProcessRingSync, HasMessage
    <3> QED
      BY <2>0, <3>1
  <2>3. CASE ProcessPeerSkinAnnouncement(p) \/ ProcessPeerSkinFile(p) \/ ProcessSkinClear(p)
    <3>1. toClient[p]["Skin"] # <<>> /\ Take(p, "Skin", <<>>)
      BY <2>3 DEF ProcessPeerSkinAnnouncement, ProcessPeerSkinFile, ProcessSkinClear, HasMessage
    <3> QED
      BY <2>0, <3>1
  <2> QED
    BY <2>1, <2>2, <2>3 DEF ClientReceive
<1>7. /\ toClient' = [toClient EXCEPT ![p][ch] = Tail(toClient[p][ch])]
      /\ toServer' = Uploaded(p, ch, reply) \/ toServer' = Uploaded(p, "Gameplay", reply)
      /\ UNCHANGED <<slotPlayer, clientSlot>>
  BY <1>6 DEF Take
<1>8. SessionInv'
  BY <1>1, <1>7, ClientsPreserve
<1>9. /\ UploadsOwn' /\ DOMAIN toServer' = Slots
      /\ \A s \in Slots : DOMAIN toServer'[s] = Channels
  <2>1. "Gameplay" \in Channels
    BY DEF Channels
  <2> QED
    BY <1>2, <1>6, <2>1, UploadedOwn DEF Take
<1>10. QueuesShaped'
  BY <1>1, <1>7, <1>9 DEF QueuesShaped
<1>11. \A q \in Players : Attached(q)' <=> Attached(q)
  BY <1>7 DEF Attached
<1>12. AnswersOwn'
  <2>1. \A q \in Players \ {p} : toClient'[q] = toClient[q]
    BY <1>1, <1>7 DEF QueuesShaped
  <2>2. ASSUME Attached(p) PROVE toClient'[p]["Gameplay"] \in Seq(AnswersFor(g))
    <3>1. toClient[p]["Gameplay"] \in Seq(AnswersFor(g))
      BY <1>1, <2>2 DEF AnswersOwn
    <3>2. toClient'[p]["Gameplay"] = IF ch = "Gameplay" THEN Tail(toClient[p]["Gameplay"])
                                     ELSE toClient[p]["Gameplay"]
      BY <1>1, <1>7 DEF QueuesShaped, Channels
    <3>3. ch = "Gameplay" => toClient[p]["Gameplay"] # <<>>
      BY <1>6
    <3> HIDE DEF g
    <3> QED
      BY <3>1, <3>2, <3>3, HeadTailProperties
  <2> QED
    BY <1>1, <1>2, <1>7, <1>11, <2>1, <2>2 DEF AnswersOwn
<1>13. GuidsOwn' /\ ClientsTyped'
  <2>1. ClientsTyped'
    BY <1>1, <1>3, <1>5, <1>7 DEF ClientsTyped
  <2>2. CASE myGuid' = myGuid
    BY <1>1, <1>2, <1>7, <1>11, <2>1, <2>2 DEF GuidsOwn
  <2>3. CASE ProcessGuidAssign(p) /\ myGuid' = [myGuid EXCEPT ![p] = m.guid]
    <3>1. \A q \in Players \ {p} : myGuid'[q] = myGuid[q]
      BY <1>1, <2>3 DEF ClientsTyped
    <3>2. Attached(p) => myGuid'[p] = g
      BY <1>1, <1>4, <2>3 DEF ClientsTyped
    <3> QED
      BY <1>1, <1>2, <1>3, <1>7, <1>11, <2>1, <3>1, <3>2 DEF GuidsOwn
  <2> QED
    BY <1>5, <2>1, <2>2, <2>3
<1>14. DataTypeOK'
  BY <1>1, <1>2 DEF DataTypeOK
<1> QED
  BY <1>8, <1>9, <1>10, <1>12, <1>13, <1>14 DEF ClaimInv

\* Every step keeps the claims own, and is a step of the allocator or leaves it alone.
LEMMA ClaimStep == ClaimInv /\ [Next]_vars => ClaimInv' /\ [GuidNext]_guidVars
<1> SUFFICES ASSUME ClaimInv, [Next]_vars PROVE ClaimInv' /\ [GuidNext]_guidVars
  OBVIOUS
<1>1. UNCHANGED serverVars => [GuidNext]_guidVars
  BY DEF serverVars, guidVars
<1>2. ASSUME NEW p \in Players, NEW s \in Slots, Accept(p, s)
      PROVE  ClaimInv' /\ [GuidNext]_guidVars
  BY <1>2, AcceptClaims DEF Accept, AcceptClient, GuidNext
<1>3. ASSUME NEW p \in Players, NEW s \in Slots, Refuse(p, s)
      PROVE  ClaimInv' /\ [GuidNext]_guidVars
  BY <1>3, RefuseClaims DEF Refuse
<1>4. ASSUME NEW s \in Slots, Drop(s) PROVE ClaimInv' /\ [GuidNext]_guidVars
  BY <1>4, DropClaims DEF Drop, DropClient, GuidNext
<1>5. ASSUME NEW s \in Slots, ServerStep(s) PROVE ClaimInv' /\ [GuidNext]_guidVars
  BY <1>5, ReceiveClaims DEF ServerStep
<1>6. ASSUME NEW p \in Players, Leave(p) PROVE ClaimInv' /\ [GuidNext]_guidVars
  BY <1>1, <1>6, DisconnectClaims DEF Leave
<1>7. ASSUME NEW p \in Players, ClientStep(p) PROVE ClaimInv' /\ [GuidNext]_guidVars
  BY <1>1, <1>7, ClientReceiveClaims DEF ClientStep
<1>8. ASSUME NEW p \in Players, UploadSkin(p) PROVE ClaimInv' /\ [GuidNext]_guidVars
  BY <1>1, <1>8, UploadSkinClaims DEF UploadSkin
<1>9. ASSUME NEW p \in Players, Rename(p) PROVE ClaimInv' /\ [GuidNext]_guidVars
  BY <1>1, <1>9, RenameClaims DEF Rename
<1>10. ASSUME NEW p \in Players, RingFrame(p) PROVE ClaimInv' /\ [GuidNext]_guidVars
  BY <1>1, <1>10, RingFrameClaims DEF RingFrame
<1>11. ASSUME NEW p \in Players, SendRing(p) PROVE ClaimInv' /\ [GuidNext]_guidVars
  BY <1>1, <1>11, SendRingClaims DEF SendRing
<1>12. CASE UNCHANGED vars
  <2>1. UNCHANGED <<serverVars, transportVars, clientVars>>
    BY <1>12 DEF vars
  <2>2. ClientsTyped'
    BY <2>1 DEF clientVars, profileVars, ringVars, transportVars, ClaimInv, ClientsTyped
  <2> QED
    BY <1>1, <2>1, <2>2, QuietClaims DEF clientVars
<1> QED
  BY <1>2, <1>3, <1>4, <1>5, <1>6, <1>7, <1>8, <1>9, <1>10, <1>11, <1>12 DEF Next

\* A client that knows a GUID knows the one of its slot: the first message of a session
\* brings it and the end of the session takes it away (client.cpp:3600-3660).
THEOREM OwnGuidAlways == Spec => []OwnGuid
<1>1. ClaimInv => OwnGuid
  BY OwnsItsSlot DEF OwnGuid
<1> QED
  BY ClaimInitEstablishes, ClaimStep, <1>1, PTL DEF Spec

\* The server relays profiles under the GUID the message claims, and it is the sender's.
THEOREM ClaimsAreOwnAlways == Spec => []ClaimsAreOwn
<1>1. ASSUME NEW g, NEW m \in UploadsFor(g) PROVE m.guid = g
  BY DEF UploadsFor
<1>2. ASSUME NEW g, NEW q \in Seq(UploadsFor(g)), NEW i \in DOMAIN q PROVE q[i].guid = g
  <2>1. q[i] \in UploadsFor(g)
    OBVIOUS
  <2> QED
    BY <1>1, <2>1
<1>3. ClaimInv => ClaimsAreOwn
  BY <1>2 DEF ClaimInv, UploadsOwn, ClaimsAreOwn
<1> QED
  BY ClaimInitEstablishes, ClaimStep, <1>3, PTL DEF Spec

\* The session implements the allocator: its handlers call it, and nothing else changes it.
THEOREM UsesAllocatorAlways == Spec => UsesAllocator
<1>1. Init => GuidInit
  BY DEF Init, ServerInit
<1> QED
  BY ClaimInitEstablishes, ClaimStep, <1>1, PTL DEF Spec, UsesAllocator, GuidSpec
=============================================================================
