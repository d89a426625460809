--------------------------- MODULE AgreementProofs ---------------------------
(***************************************************************************)
(* What the players see of each other, for any numbers of players, slots    *)
(* and GUIDs and for any bounds: every variable of the session keeps its    *)
(* type, and profiles and skins agree once everything has been heard.       *)
(***************************************************************************)
EXTENDS SessionProofs

-----------------------------------------------------------------------------
(* Types.  The invariant of SessionProofs types what the server keeps of    *)
(* its slots; the rest are the queues and what the clients know of peers.   *)

Queues == Seq(Messages)

QueuesTyped ==
    /\ toServer \in [Slots -> [Channels -> Queues]]
    /\ toClient \in [Players -> [Channels -> Queues]]

PeersTyped ==
    /\ myGuid \in [Players -> Guids \cup {NoGuid}]
    /\ localSkinUploadAttempted \in [Players -> BOOLEAN]
    /\ pendingProfiles \in [Players -> [Guids -> [Fields -> Values \cup {Unknown}]]]
    /\ playerTextureNames \in [Players -> SUBSET Guids]
    /\ playerSkinFiles \in [Players -> [Guids -> Skins \cup {NoSkin}]]
    /\ playerRingState \in [Players -> [Guids -> RingStates \cup {Unknown}]]

SkinsTyped == cachedSkins \in [Guids -> Skins \cup {Absent, Announced}]

TypeInv == ClaimInv /\ QueuesTyped /\ PeersTyped /\ SkinsTyped

LEMMA TypeInvTypes == TypeInv => TypeOK
BY DEF TypeInv, ClaimInv, SessionInv, GuidInv, MapTypeOK, DataTypeOK, GuidTypeOK, SlotsTyped,
       ClientsTyped, QueuesTyped, PeersTyped, SkinsTyped, Queues, TypeOK

\* What may be sent is a message.
LEMMA NewsAreMessages ==
    /\ PeerNews \subseteq Messages
    /\ \A g : UploadsFor(g) \subseteq Messages
<1>1. PeerNews \subseteq Messages
  BY DEF PeerNews, Messages, ProfileMessage, RingSyncMessage
<1>2. ASSUME NEW g PROVE UploadsFor(g) \subseteq Messages
  BY DEF UploadsFor, Messages, ProfileMessage, RingSyncMessage, SkinAnnouncementMessage,
         SkinFileTransferMessage
<1> QED
  BY <1>1, <1>2

\* A message is told from others by its type, and has what its type has.
LEMMA MessageParts ==
    ASSUME NEW m \in Messages
    PROVE  /\ m.guid \in Guids
           /\ m.type \in Fields =>
                  m.value \in Values /\ m = ProfileMessage(m.type, m.guid, m.value)
           /\ m.type = "GUID_ASSIGN" => m = GuidAssignMessage(m.guid)
           /\ m.type = "RING_SYNC" =>
                  m.on \in RingStates /\ m = RingSyncMessage(m.guid, m.on)
           /\ m.type = "SKIN_ANNOUNCE" => m = SkinAnnouncementMessage(m.guid)
           /\ m.type = "SKIN_FILE_TRANSFER" =>
                  m.bytes \in Skins /\ m = SkinFileTransferMessage(m.guid, m.bytes)
           /\ m.type = "SKIN_CLEAR" => m = SkinClearMessage(m.guid)
BY FieldsApart DEF Messages, GuidAssignMessage, ProfileMessage, RingSyncMessage,
                   SkinAnnouncementMessage, SkinFileTransferMessage, SkinClearMessage

LEMMA HeadIsMessage ==
    ASSUME QueuesTyped, NEW p \in Players, NEW ch \in Channels, toClient[p][ch] # <<>>
    PROVE  Head(toClient[p][ch]) \in Messages
BY DEF QueuesTyped, Queues

LEMMA TypeInitInv == Init => TypeInv
<1> SUFFICES ASSUME Init PROVE TypeInv
  OBVIOUS
<1>1. ClaimInv
  BY ClaimInitEstablishes
<1>2. QueuesTyped
  <2>1. NoMessages \in [Channels -> Queues]
    BY DEF NoMessages, Queues
  <2> QED
    BY <2>1 DEF Init, TransportInit, QueuesTyped
<1>3. PeersTyped /\ SkinsTyped
  BY DEF Init, ServerInit, ClientInit, NoProfiles, PeersTyped, SkinsTyped
<1> QED
  BY <1>1, <1>2, <1>3 DEF TypeInv

-----------------------------------------------------------------------------
(* The queues after something was sent.                                     *)

\* A client's messages come to the queue of its slot, if it still has one.
LEMMA UploadView ==
    ASSUME TypeInv, NEW r \in Players, NEW ch \in Channels, NEW msgs \in Queues,
           toServer' = Uploaded(r, ch, msgs)
    PROVE  /\ toServer' \in [Slots -> [Channels -> Queues]]
           /\ \A q \in Players, c \in Channels : Attached(q) =>
                  toServer'[clientSlot[q]][c] =
                      IF q = r /\ c = ch THEN toServer[clientSlot[q]][c] \o msgs
                      ELSE toServer[clientSlot[q]][c]
<1> DEFINE t == clientSlot[r]
<1>1. QueuesTyped /\ clientSlot \in [Players -> Slots \cup {NoSlot}]
  BY DEF TypeInv, ClaimInv, ClientsTyped
<1>2. CASE ~Attached(r)
  BY <1>1, <1>2 DEF Uploaded, QueuesTyped
<1>3. CASE Attached(r)
  <2>1. t \in Slots
    BY <1>1, <1>3 DEF Attached
  <2>2. toServer' = [toServer EXCEPT ![t][ch] = toServer[t][ch] \o msgs]
    BY <1>3 DEF Uploaded
  <2>3. toServer[t][ch] \o msgs \in Queues
    BY <1>1, <2>1, ConcatProperties DEF QueuesTyped, Queues
  <2>4. \A q \in Players : Attached(q) => clientSlot[q] \in Slots /\ (clientSlot[q] = t => q = r)
    BY <1>1, <1>3 DEF Attached
  <2> HIDE DEF t
  <2> QED
    BY <1>1, <2>1, <2>2, <2>3, <2>4 DEF QueuesTyped, t
<1> QED
  BY <1>2, <1>3

\* What the server sends to the others comes to the clients that still have their slot.
LEMMA DeliverView ==
    ASSUME TypeInv, NEW s \in Slots, NEW ch \in Channels, NEW msgs \in Queues,
           toClient' = Delivered(ToOthers(s, ch, msgs))
    PROVE  /\ toClient' \in [Players -> [Channels -> Queues]]
           /\ \A p \in Players, c \in Channels :
                  toClient'[p][c] =
                      IF Attached(p) /\ clientSlot[p] # s /\ c = ch THEN toClient[p][c] \o msgs
                      ELSE toClient[p][c]
<1>1. QueuesTyped /\ clientSlot \in [Players -> Slots \cup {NoSlot}]
  BY DEF TypeInv, ClaimInv, ClientsTyped
<1>2. ASSUME NEW p \in Players, NEW c \in Channels
      PROVE  /\ toClient'[p][c] =
                    IF Attached(p) /\ clientSlot[p] # s /\ c = ch THEN toClient[p][c] \o msgs
                    ELSE toClient[p][c]
             /\ toClient'[p][c] \in Queues
  <2>1. toClient[p][c] \in Queues
    BY <1>1 DEF QueuesTyped
  <2>2. CASE ~Attached(p)
    BY <2>1, <2>2 DEF Delivered
  <2>3. CASE Attached(p)
    <3>1. clientSlot[p] \in Slots
      BY <1>1, <2>3 DEF Attached
    <3> DEFINE more == ToOthers(s, ch, msgs)[clientSlot[p]][c]
    <3>2. more = IF clientSlot[p] # s /\ c = ch THEN msgs ELSE <<>>
      BY <3>1 DEF ToOthers, NoMessages
    <3>3. toClient'[p][c] = toClient[p][c] \o more
      BY <2>3 DEF Delivered
    <3>4. toClient[p][c] \o <<>> = toClient[p][c] /\ toClient[p][c] \o msgs \in Queues
      BY <2>1, ConcatProperties DEF Queues
    <3> HIDE DEF more
    <3> QED
      BY <2>1, <2>3, <3>2, <3>3, <3>4
  <2> QED
    BY <2>2, <2>3
<1>3. /\ DOMAIN toClient' = Players
      /\ toClient' \in [Players -> [Channels -> Queues]]
  <2>1. ASSUME NEW p \in Players PROVE toClient'[p] \in [Channels -> Queues]
    <3>1. CASE ~Attached(p)
      BY <1>1, <3>1 DEF Delivered, QueuesTyped
    <3>2. CASE Attached(p)
      <4>1. toClient'[p] = [c \in Channels |-> toClient[p][c] \o
                                ToOthers(s, ch, msgs)[clientSlot[p]][c]]
        BY <3>2 DEF Delivered
      <4>2. \A c \in Channels : toClient'[p][c] \in Queues
        BY <1>2
      <4> QED
        BY <4>1, <4>2
    <3> QED
      BY <3>1, <3>2
  <2>2. toClient' = [p \in Players |-> toClient'[p]]
    BY DEF Delivered
  <2> QED
    BY <2>1, <2>2
<1> QED
  BY <1>2, <1>3

-----------------------------------------------------------------------------
(* A topic is a part of a profile or the skin.  Both take the same way: what *)
(* a player says of a topic is on its way to the server, stored there, on    *)
(* its way to a peer, or shown by the peer.  What the peer will show is in   *)
(* the last of these that is not empty.                                      *)

Topics == Fields \cup {"SKIN_FILE_TRANSFER"}

ChannelOf(x) == IF x \in Fields THEN "Gameplay" ELSE "Skin"

\* What may be said of a topic under GUID g.
Texts(x) == IF x \in Fields THEN Values ELSE Skins
Word(x, g, v) ==
    IF x \in Fields THEN ProfileMessage(x, g, v) ELSE SkinFileTransferMessage(g, v)

\* The messages that set or reset it.
About(x, g) ==
    {m \in Messages : /\ m.guid = g
                      /\ m.type \in IF x \in Fields THEN {x}
                                    ELSE {"SKIN_FILE_TRANSFER", "SKIN_CLEAR"}}

Up(q, x) == toServer[clientSlot[q]][ChannelOf(x)]
Stored(x, g) == IF x \in Fields THEN guidData[g][x] ELSE cachedSkins[g]
Down(p, x) == toClient[p][ChannelOf(x)]
Shown(p, x, g) ==
    IF x \in Fields THEN pendingProfiles[p][g][x]
    ELSE IF g \in playerTextureNames[p] THEN playerSkinFiles[p][g] ELSE NoSkin

\* What q has said or will say of the topic, once it has announced itself.
Meant(q, x) == IF x \in Fields THEN myProfile[q][x] ELSE LocalSkin[q]
Said(q, x) ==
    /\ Attached(q) /\ myGuid[q] # NoGuid
    /\ IF x \in Fields THEN myProfile[q][x] # EmptyValue
       ELSE localSkinUploadAttempted[q] /\ LocalSkin[q] # NoSkin

\* The server has it, or will.
Gets(up, stored, K, want, word) ==
    LastIn(up, K, {word}) \/ (Silent(up, K) /\ stored = want)

\* The peer shows it, or will.
Reaches(up, stored, down, shown, K, want, word) ==
    \/ LastIn(up, K, {word})
    \/ /\ Silent(up, K) /\ stored = want
       /\ LastIn(down, K, {word}) \/ (Silent(down, K) /\ shown = want)

ServerGets(q, x) ==
    LET g == myGuid[q]
    IN  Gets(Up(q, x), Stored(x, g), About(x, g), Meant(q, x), Word(x, g, Meant(q, x)))

PeerGets(p, q, x) ==
    LET g == myGuid[q]
    IN  Reaches(Up(q, x), Stored(x, g), Down(p, x), Shown(p, x, g),
                About(x, g), Meant(q, x), Word(x, g, Meant(q, x)))

\* A newcomer p hears from the server what it stores, so that q's word has to
\* reach the server even if there is no peer yet.
AgreementInv ==
    /\ TypeInv
    /\ \A q \in Players, x \in Topics : Said(q, x) =>
          /\ ServerGets(q, x)
          /\ \A p \in Players : p # q /\ Attached(p) => PeerGets(p, q, x)

\* The writer says something that is not about the topic, or says it anew.
LEMMA WordAdded ==
    ASSUME NEW up \in Queues, NEW more \in Queues, NEW down, NEW stored, NEW shown,
           NEW K, NEW want, NEW word
    PROVE  /\ LastIn(more, K, {word}) =>
                  /\ Gets(up \o more, stored, K, want, word)
                  /\ Reaches(up \o more, stored, down, shown, K, want, word)
           /\ Silent(more, K) /\ Gets(up, stored, K, want, word) =>
                  Gets(up \o more, stored, K, want, word)
           /\ Silent(more, K) /\ Reaches(up, stored, down, shown, K, want, word) =>
                  Reaches(up \o more, stored, down, shown, K, want, word)
BY AddMore DEF Gets, Reaches, Queues

\* The server says something that is not about the topic.
LEMMA OtherNews ==
    ASSUME NEW up, NEW down \in Queues, NEW more \in Queues, NEW stored, NEW shown,
           NEW K, NEW want, NEW word, Silent(more, K),
           Reaches(up, stored, down, shown, K, want, word)
    PROVE  Reaches(up, stored, down \o more, shown, K, want, word)
BY AddMore DEF Reaches, Queues

\* The server takes a message of the writer, and passes it on if it is about the topic.
LEMMA WordRelayed ==
    ASSUME NEW up \in Queues, up # <<>>, NEW down \in Queues, NEW more \in Queues,
           NEW stored, NEW newStored, NEW shown, NEW K, NEW want, NEW word,
           Head(up) \notin K => Silent(more, K) /\ (stored = want => newStored = want),
           Head(up) = word => LastIn(more, K, {word}) /\ newStored = want
    PROVE  /\ Gets(up, stored, K, want, word) => Gets(Tail(up), newStored, K, want, word)
           /\ Reaches(up, stored, down, shown, K, want, word) =>
                  Reaches(Tail(up), newStored, down \o more, shown, K, want, word)
<1>1. /\ Silent(up, K) => Head(up) \notin K /\ Silent(Tail(up), K)
      /\ LastIn(up, K, {word}) => \/ LastIn(Tail(up), K, {word})
                                  \/ Head(up) = word /\ Silent(Tail(up), K)
  BY TakeFirst DEF Queues
<1>2. /\ Silent(down, K) /\ Silent(more, K) => Silent(down \o more, K)
      /\ LastIn(down, K, {word}) /\ Silent(more, K) => LastIn(down \o more, K, {word})
      /\ LastIn(more, K, {word}) => LastIn(down \o more, K, {word})
  BY AddMore DEF Queues
<1> QED
  BY <1>1, <1>2 DEF Gets, Reaches

\* The peer takes a message, and shows what it says of the topic.
LEMMA WordShown ==
    ASSUME NEW up, NEW stored, NEW down \in Queues, down # <<>>, NEW shown, NEW newShown,
           NEW K, NEW want, NEW word,
           Head(down) \notin K => (shown = want => newShown = want),
           Head(down) = word => newShown = want,
           Reaches(up, stored, down, shown, K, want, word)
    PROVE  Reaches(up, stored, Tail(down), newShown, K, want, word)
<1>1. /\ Silent(down, K) => Head(down) \notin K /\ Silent(Tail(down), K)
      /\ LastIn(down, K, {word}) => \/ LastIn(Tail(down), K, {word})
                                    \/ Head(down) = word /\ Silent(Tail(down), K)
  BY TakeFirst DEF Queues
<1> QED
  BY <1>1 DEF Reaches

\* The peer is new, and told everything the server stores.
LEMMA WordReplayed ==
    ASSUME NEW up, NEW stored, NEW down \in Queues, NEW shown, NEW K, NEW want, NEW word,
           stored = want => LastIn(down, K, {word}),
           Gets(up, stored, K, want, word)
    PROVE  Reaches(up, stored, down, shown, K, want, word)
BY DEF Gets, Reaches

LEMMA WordIsAbout ==
    ASSUME NEW x \in Topics, NEW g \in Guids, NEW v \in Texts(x)
    PROVE  Word(x, g, v) \in About(x, g) /\ Word(x, g, v) \in Messages
BY FieldsApart DEF Topics, Texts, Word, About, Messages, ProfileMessage, SkinFileTransferMessage

\* Only the sender's own message can change what is said of a topic, and a word is
\* what it says.
LEMMA NotAbout ==
    ASSUME NEW x \in Topics, NEW g, NEW m \in Messages
    PROVE  /\ m.guid # g => m \notin About(x, g)
           /\ m.type \in {"GUID_ASSIGN", "RING_SYNC", "SKIN_ANNOUNCE"} => m \notin About(x, g)
           /\ x \in Fields /\ m.type # x => m \notin About(x, g)
           /\ x \notin Fields /\ m.type \in Fields => m \notin About(x, g)
BY FieldsApart DEF Topics, About

-----------------------------------------------------------------------------
(* The handlers of the server.                                              *)

\* What the handler of message m of GUID g does to a topic of g: it keeps what is stored
\* unless m is about the topic, stores the word that m is, and passes it on.
Relays(g, m, ch, msgs, x) ==
    LET K == About(x, g)
    IN  IF ChannelOf(x) # ch
        THEN Stored(x, g)' = Stored(x, g)
        ELSE /\ m \notin K =>
                  /\ Silent(msgs, K)
                  /\ \A v \in Texts(x) : Stored(x, g) = v => Stored(x, g)' = v
             /\ \A v \in Texts(x) : m = Word(x, g, v) =>
                  LastIn(msgs, K, {m}) /\ Stored(x, g)' = v

\* To the topics of other GUIDs it does nothing.
ReceiveEffect(s, g, m, ch, msgs) ==
    /\ Relay(s, ch, msgs) /\ UNCHANGED clientGuidMap
    /\ toServer[s][ch] # <<>> /\ m = Head(toServer[s][ch])
    /\ Connected(s) /\ g = clientGuidMap[s]
    /\ \A i \in DOMAIN msgs : msgs[i].guid = g
    /\ \A x \in Topics : Relays(g, m, ch, msgs, x)
    /\ \A x \in Topics, h \in Guids \ {g} : Stored(x, h)' = Stored(x, h)

LEMMA OneMessage ==
    ASSUME NEW m \in Messages
    PROVE  /\ <<m>> \in Queues
           /\ DOMAIN <<m>> = {1} /\ <<m>>[1] = m
           /\ \A K : m \notin K => Silent(<<m>>, K)
           /\ \A K : LastIn(<<m>>, K, {m})
BY DEF Queues, Silent, LastIn

LEMMA TwoMessages ==
    ASSUME NEW a \in Messages, NEW b \in Messages
    PROVE  /\ <<a, b>> \in Queues
           /\ DOMAIN <<a, b>> = {1, 2} /\ <<a, b>>[1] = a /\ <<a, b>>[2] = b
           /\ \A K : a \notin K /\ b \notin K => Silent(<<a, b>>, K)
           /\ \A K : LastIn(<<a, b>>, K, {b})
BY DEF Queues, Silent, LastIn

\* The message taken is one of the sender's GUID.
LEMMA TakenIsOwn ==
    ASSUME TypeInv, NEW s \in Slots, NEW ch \in Channels, NEW types, HasNext(s, ch, types)
    PROVE  /\ Connected(s) /\ toServer[s][ch] # <<>>
           /\ Head(toServer[s][ch]).type \in types
           /\ Head(toServer[s][ch]) \in Messages
           /\ Head(toServer[s][ch]).guid = clientGuidMap[s]
           /\ clientGuidMap[s] \in Guids /\ clientGuidMap[s] # NoGuid
<1> DEFINE g == clientGuidMap[s]
           m == Head(toServer[s][ch])
<1>1. Connected(s) /\ toServer[s][ch] # <<>> /\ m.type \in types
  BY DEF HasNext
<1>2. g \in Guids /\ g # NoGuid
  BY <1>1 DEF TypeInv, ClaimInv, SessionInv, ConnectedHasGuid, GuidInv, MapTypeOK
<1>3. m \in UploadsFor(g)
  <2>1. toServer[s][ch] \in Seq(UploadsFor(g))
    BY DEF TypeInv, ClaimInv, UploadsOwn
  <2> HIDE DEF g
  <2> QED
    BY <1>1, <2>1
<1>4. m \in Messages /\ m.guid = g
  BY <1>3, NewsAreMessages DEF UploadsFor
<1> QED
  BY <1>1, <1>2, <1>4

LEMMA ProfileEffect ==
    ASSUME TypeInv, NEW s \in Slots, ProcessProfileUpdate(s)
    PROVE  \E g \in Guids, m \in Messages, msgs \in Queues :
               ReceiveEffect(s, g, m, "Gameplay", msgs)
<1>1. PICK g \in Guids, m \in Messages :
        /\ g = clientGuidMap[s] /\ m = Head(toServer[s]["Gameplay"])
        /\ Connected(s) /\ toServer[s]["Gameplay"] # <<>>
        /\ m.type \in Fields /\ m.guid = g /\ g # NoGuid
  <2>1. "Gameplay" \in Channels /\ HasNext(s, "Gameplay", Fields)
    BY DEF Channels, ProcessProfileUpdate
  <2> QED
    BY <2>1, TakenIsOwn
<1>2. /\ SetProfile(s, m.type, m.value) /\ Relay(s, "Gameplay", <<m>>)
      /\ cachedSkins' = cachedSkins
  BY <1>1 DEF ProcessProfileUpdate
<1>3. m.value \in Values
  BY <1>1, MessageParts
<1>4. guidData' = [guidData EXCEPT ![g][m.type] = m.value] /\ clientGuidMap' = clientGuidMap
  BY <1>1, <1>2 DEF SetProfile
<1>5. guidData \in [Guids -> [Fields -> Values]]
  BY DEF TypeInv, ClaimInv, DataTypeOK
<1>6. \A h \in Guids, f \in Fields :
          guidData'[h][f] = IF h = g /\ f = m.type THEN m.value ELSE guidData[h][f]
  BY <1>1, <1>4, <1>5
<1>7. \A x \in Topics, h \in Guids \ {g} : Stored(x, h)' = Stored(x, h)
  BY <1>2, <1>6 DEF Stored
<1>8. ASSUME NEW x \in Topics PROVE Relays(g, m, "Gameplay", <<m>>, x)
  <2>1. CASE x \notin Fields
    BY <1>2, <2>1 DEF Relays, ChannelOf, Stored
  <2>2. CASE x \in Fields
    <3>1. m \notin About(x, g) => m.type # x
      BY <1>1, <2>2 DEF About
    <3>2. Stored(x, g)' = IF x = m.type THEN m.value ELSE Stored(x, g)
      BY <1>6, <2>2 DEF Stored
    <3>3. m \notin About(x, g) => Silent(<<m>>, About(x, g))
      BY OneMessage
    <3>4. LastIn(<<m>>, About(x, g), {m})
      BY OneMessage
    <3>5. \A v \in Values : m = Word(x, g, v) => m.type = x /\ m.value = v
      BY <2>2 DEF Word, ProfileMessage
    <3> QED
      BY <2>2, <3>1, <3>2, <3>3, <3>4, <3>5 DEF Relays, ChannelOf, Texts
  <2> QED
    BY <2>1, <2>2
<1>9. \A i \in DOMAIN <<m>> : <<m>>[i].guid = g
  BY <1>1, OneMessage
<1>10. ReceiveEffect(s, g, m, "Gameplay", <<m>>)
  BY <1>1, <1>2, <1>4, <1>7, <1>8, <1>9 DEF ReceiveEffect
<1> QED
  BY <1>10, OneMessage

LEMMA RingEffect ==
    ASSUME TypeInv, NEW s \in Slots, BroadcastRingSync(s)
    PROVE  \E g \in Guids, m \in Messages, msgs \in Queues :
               ReceiveEffect(s, g, m, "Gameplay", msgs)
<1>1. PICK g \in Guids, m \in Messages :
        /\ g = clientGuidMap[s] /\ m = Head(toServer[s]["Gameplay"])
        /\ Connected(s) /\ toServer[s]["Gameplay"] # <<>> /\ m.type = "RING_SYNC"
  <2>1. "Gameplay" \in Channels /\ HasNext(s, "Gameplay", {"RING_SYNC"})
    BY DEF Channels, BroadcastRingSync
  <2> QED
    BY <2>1, TakenIsOwn
<1> DEFINE r == RingSyncMessage(g, m.on)
<1>2. Relay(s, "Gameplay", <<r>>) /\ UNCHANGED <<guidData, cachedSkins, clientGuidMap>>
  BY <1>1 DEF BroadcastRingSync, serverVars
<1>3. r \in Messages /\ r.guid = g /\ r.type = "RING_SYNC"
  BY <1>1, MessageParts DEF RingSyncMessage, Messages
<1>4. \A x \in Topics, h \in Guids : Stored(x, h)' = Stored(x, h)
  BY <1>2 DEF Stored
<1> HIDE DEF r
<1>5. ASSUME NEW x \in Topics PROVE Relays(g, m, "Gameplay", <<r>>, x)
  <2>1. Silent(<<r>>, About(x, g))
    BY <1>3, NotAbout, OneMessage
  <2>2. \A v \in Texts(x) : m # Word(x, g, v)
    BY <1>1, FieldsApart DEF Word, ProfileMessage, SkinFileTransferMessage
  <2> QED
    BY <1>4, <2>1, <2>2 DEF Relays
<1>6. \A i \in DOMAIN <<r>> : <<r>>[i].guid = g
  BY <1>3, OneMessage
<1>7. ReceiveEffect(s, g, m, "Gameplay", <<r>>)
  BY <1>1, <1>2, <1>4, <1>5, <1>6 DEF ReceiveEffect
<1> QED
  BY <1>3, <1>7, OneMessage

LEMMA AnnouncementEffect ==
    ASSUME TypeInv, NEW s \in Slots, ProcessSkinAnnouncement(s)
    PROVE  /\ SkinsTyped'
           /\ \E g \in Guids, m \in Messages, msgs \in Queues :
                  ReceiveEffect(s, g, m, "Skin", msgs)
<1>1. PICK g \in Guids, m \in Messages :
        /\ g = clientGuidMap[s] /\ m = Head(toServer[s]["Skin"]) /\ g # NoGuid
        /\ Connected(s) /\ toServer[s]["Skin"] # <<>> /\ m.type = "SKIN_ANNOUNCE"
  <2>1. "Skin" \in Channels /\ HasNext(s, "Skin", {"SKIN_ANNOUNCE"})
    BY DEF Channels, ProcessSkinAnnouncement
  <2> QED
    BY <2>1, TakenIsOwn
<1> DEFINE a == SkinAnnouncementMessage(g)
<1>2. /\ Relay(s, "Skin", <<a>>) /\ UNCHANGED <<guidData, clientGuidMap>>
      /\ cachedSkins' = [cachedSkins EXCEPT ![g] = IF @ = Absent THEN Announced ELSE @]
  BY <1>1 DEF ProcessSkinAnnouncement, guidVars
<1>3. a \in Messages /\ a.guid = g /\ a.type = "SKIN_ANNOUNCE"
  BY DEF SkinAnnouncementMessage, Messages
<1>4. cachedSkins \in [Guids -> Skins \cup {Absent, Announced}]
  BY DEF TypeInv, SkinsTyped
<1>5. SkinsTyped'
  BY <1>2, <1>4 DEF SkinsTyped
<1>6. \A x \in Topics, h \in Guids \ {g} : Stored(x, h)' = Stored(x, h)
  BY <1>2, <1>4 DEF Stored
<1> HIDE DEF a
<1>7. ASSUME NEW x \in Topics PROVE Relays(g, m, "Skin", <<a>>, x)
  <2>1. CASE x \in Fields
    BY <1>2, <2>1 DEF Relays, ChannelOf, Stored
  <2>2. CASE x \notin Fields
    <3>1. Silent(<<a>>, About(x, g))
      BY <1>3, NotAbout, OneMessage
    <3>2. \A v \in Texts(x) : m # Word(x, g, v)
      BY <1>1, <2>2 DEF Word, SkinFileTransferMessage
    <3>3. \A v \in Skins : cachedSkins[g] = v => cachedSkins'[g] = v
      BY <1>2, <1>4, CacheAssumption DEF Absent
    <3> QED
      BY <2>2, <3>1, <3>2, <3>3 DEF Relays, ChannelOf, Stored, Texts
  <2> QED
    BY <2>1, <2>2
<1>8. \A i \in DOMAIN <<a>> : <<a>>[i].guid = g
  BY <1>3, OneMessage
<1>9. ReceiveEffect(s, g, m, "Skin", <<a>>)
  BY <1>1, <1>2, <1>6, <1>7, <1>8 DEF ReceiveEffect
<1> QED
  BY <1>3, <1>5, <1>9, OneMessage

LEMMA SkinFileEffect ==
    ASSUME TypeInv, NEW s \in Slots, ProcessSkinFileTransfer(s)
    PROVE  /\ SkinsTyped'
           /\ \E g \in Guids, m \in Messages, msgs \in Queues :
                  ReceiveEffect(s, g, m, "Skin", msgs)
<1>1. PICK g \in Guids, m \in Messages :
        /\ g = clientGuidMap[s] /\ m = Head(toServer[s]["Skin"]) /\ g # NoGuid
        /\ Connected(s) /\ toServer[s]["Skin"] # <<>> /\ m.type = "SKIN_FILE_TRANSFER"
        /\ m.guid = g
  <2>1. "Skin" \in Channels /\ HasNext(s, "Skin", {"SKIN_FILE_TRANSFER"})
    BY DEF Channels, ProcessSkinFileTransfer
  <2> QED
    BY <2>1, TakenIsOwn
<1> DEFINE a == SkinAnnouncementMessage(g)
<1>2. m.bytes \in Skins /\ m = SkinFileTransferMessage(g, m.bytes)
  BY <1>1, MessageParts
<1>3. /\ Relay(s, "Skin", <<a, m>>) /\ UNCHANGED <<guidData, clientGuidMap>>
      /\ cachedSkins' = [cachedSkins EXCEPT ![g] = m.bytes]
  BY <1>1, <1>2 DEF ProcessSkinFileTransfer, guidVars
<1>4. a \in Messages /\ a.guid = g /\ a.type = "SKIN_ANNOUNCE"
  BY DEF SkinAnnouncementMessage, Messages
<1>5. cachedSkins \in [Guids -> Skins \cup {Absent, Announced}]
  BY DEF TypeInv, SkinsTyped
<1>6. SkinsTyped' /\ cachedSkins'[g] = m.bytes
  BY <1>2, <1>3, <1>5 DEF SkinsTyped
<1>7. \A x \in Topics, h \in Guids \ {g} : Stored(x, h)' = Stored(x, h)
  BY <1>3, <1>5 DEF Stored
<1> HIDE DEF a
<1>8. ASSUME NEW x \in Topics PROVE Relays(g, m, "Skin", <<a, m>>, x)
  <2>1. CASE x \in Fields
    BY <1>3, <2>1 DEF Relays, ChannelOf, Stored
  <2>2. CASE x \notin Fields
    <3>1. m \in About(x, g)
      BY <1>1, <2>2 DEF About
    <3>2. LastIn(<<a, m>>, About(x, g), {m})
      BY <1>4, TwoMessages
    <3>3. \A v \in Skins : m = Word(x, g, v) => m.bytes = v
      BY <2>2 DEF Word, SkinFileTransferMessage
    <3> QED
      BY <1>6, <2>2, <3>1, <3>2, <3>3 DEF Relays, ChannelOf, Stored, Texts
  <2> QED
    BY <2>1, <2>2
<1>9. \A i \in DOMAIN <<a, m>> : <<a, m>>[i].guid = g
  BY <1>1, <1>4, TwoMessages
<1>10. ReceiveEffect(s, g, m, "Skin", <<a, m>>)
  BY <1>1, <1>3, <1>7, <1>8, <1>9 DEF ReceiveEffect
<1> QED
  BY <1>4, <1>6, <1>10, TwoMessages

LEMMA ServerEffect ==
    ASSUME TypeInv, NEW s \in Slots, ServerReceive(s)
    PROVE  /\ SkinsTyped'
           /\ \E ch \in Channels, g \in Guids, m \in Messages, msgs \in Queues :
                  ReceiveEffect(s, g, m, ch, msgs)
<1>1. "Gameplay" \in Channels /\ "Skin" \in Channels
  BY DEF Channels
<1>2. CASE ProcessProfileUpdate(s)
  <2>1. cachedSkins' = cachedSkins
    BY <1>2 DEF ProcessProfileUpdate
  <2> QED
    BY <1>1, <1>2, <2>1, ProfileEffect DEF TypeInv, SkinsTyped
<1>3. CASE BroadcastRingSync(s)
  <2>1. cachedSkins' = cachedSkins
    BY <1>3 DEF BroadcastRingSync, serverVars
  <2> QED
    BY <1>1, <1>3, <2>1, RingEffect DEF TypeInv, SkinsTyped
<1>4. CASE ProcessSkinAnnouncement(s) \/ ProcessSkinFileTransfer(s)
  BY <1>1, <1>4, AnnouncementEffect, SkinFileEffect
<1> QED
  BY <1>2, <1>3, <1>4 DEF ServerReceive

-----------------------------------------------------------------------------
(* The handlers of the clients.                                             *)

\* What taking message m does to what a client shows of a topic of h.
Shows(p, m, ch, x, h) ==
    IF ChannelOf(x) # ch
    THEN Shown(p, x, h)' = Shown(p, x, h)
    ELSE /\ m \notin About(x, h) =>
               \A v \in Texts(x) : Shown(p, x, h) = v => Shown(p, x, h)' = v
         /\ \A v \in Texts(x) : m = Word(x, h, v) => Shown(p, x, h)' = v

OthersShown(p) == \A r \in Players \ {p}, x \in Topics, h \in Guids :
    Shown(r, x, h)' = Shown(r, x, h)

\* What p answers: nothing, or its identity when it is told its GUID.
Identity(g, profile) ==
    [k \in DOMAIN ProfileFields |-> ProfileMessage(ProfileFields[k], g, profile[ProfileFields[k]])]

Answers(p, m, reply) ==
    \/ reply = <<>> /\ UNCHANGED <<myGuid, localSkinUploadAttempted>>
    \/ /\ m.type = "GUID_ASSIGN"
       /\ reply = Identity(m.guid, myProfile[p])
       /\ myGuid' = [myGuid EXCEPT ![p] = m.guid]
       /\ localSkinUploadAttempted' = [localSkinUploadAttempted EXCEPT ![p] = FALSE]

TakeEffect(p, m, ch, reply) ==
    /\ Take(p, ch, reply)
    /\ toClient[p][ch] # <<>> /\ m = Head(toClient[p][ch])
    /\ UNCHANGED myProfile
    /\ Answers(p, m, reply)
    /\ \A x \in Topics, h \in Guids : Shows(p, m, ch, x, h)
    /\ OthersShown(p)

LEMMA NoAnswer == <<>> \in Queues
BY DEF Queues

\* The identity says everything a player means of its profile.
LEMMA IdentitySays ==
    ASSUME NEW g \in Guids, NEW profile \in [Fields -> Values]
    PROVE  /\ Identity(g, profile) \in Queues
           /\ \A x \in Fields : LastIn(Identity(g, profile), About(x, g), {Word(x, g, profile[x])})
<1> DEFINE reply == Identity(g, profile)
           n == Len(ProfileFields)
<1>1. n \in Nat /\ DOMAIN ProfileFields = 1 .. n
  BY DataAssumption
<1> HIDE DEF n
<1>2. ASSUME NEW k \in 1 .. n
      PROVE  /\ ProfileFields[k] \in Fields
             /\ reply[k] = ProfileMessage(ProfileFields[k], g, profile[ProfileFields[k]])
             /\ reply[k] \in Messages
  BY <1>1 DEF Fields, Identity, Messages
<1>3. DOMAIN reply = 1 .. n /\ reply \in Queues
  BY <1>1, <1>2 DEF Identity, Queues
<1>4. ASSUME NEW x \in Fields PROVE LastIn(reply, About(x, g), {Word(x, g, profile[x])})
  <2> DEFINE word == Word(x, g, profile[x])
  <2>1. word = ProfileMessage(x, g, profile[x])
    BY DEF Word
  <2>2. PICK k \in 1 .. n : ProfileFields[k] = x
    BY <1>1 DEF Fields
  <2>3. reply[k] = word
    BY <1>2, <2>1, <2>2
  <2>4. ASSUME NEW i \in 1 .. n, reply[i] \in About(x, g) PROVE reply[i] = word
    <3>1. reply[i].type = x
      BY <2>4 DEF About
    <3>2. \A f, h, v : ProfileMessage(f, h, v).type = f
      BY DEF ProfileMessage
    <3>3. reply[i].type = ProfileFields[i]
      BY <1>2, <3>2
    <3> QED
      BY <1>2, <2>1, <3>1, <3>3
  <2> HIDE DEF word, reply
  <2> QED
    BY <1>3, <2>3, <2>4, NothingElseSaid DEF Queues, word
<1> QED
  BY <1>3, <1>4

LEMMA GuidAssignEffect ==
    ASSUME TypeInv, NEW p \in Players, ProcessGuidAssign(p)
    PROVE  /\ PeersTyped'
           /\ \E m \in Messages, reply \in Queues : TakeEffect(p, m, "Gameplay", reply)
<1>1. PICK m \in Messages :
        /\ m = Head(toClient[p]["Gameplay"]) /\ toClient[p]["Gameplay"] # <<>>
        /\ m.type = "GUID_ASSIGN"
  BY HeadIsMessage DEF ProcessGuidAssign, HasMessage, TypeInv, Channels
<1> DEFINE reply == Identity(m.guid, myProfile[p])
<1>2. m.guid \in Guids /\ m.guid # NoGuid
  BY MessageParts, GuidAssumption DEF Guids
<1>3. reply \in Queues
  BY <1>2, IdentitySays DEF TypeInv, ClaimInv, ClientsTyped
<1>4. /\ Take(p, "Gameplay", reply)
      /\ myGuid' = [myGuid EXCEPT ![p] = m.guid]
      /\ localSkinUploadAttempted' = [localSkinUploadAttempted EXCEPT ![p] = FALSE]
      /\ UNCHANGED <<myProfile, pendingProfiles, playerTextureNames, playerSkinFiles,
                     playerRingState>>
  BY <1>1, <1>2 DEF ProcessGuidAssign, profileVars, ringVars, Identity
<1>5. PeersTyped'
  BY <1>2, <1>4 DEF TypeInv, PeersTyped
<1>6. \A r \in Players, x \in Topics, h \in Guids : Shown(r, x, h)' = Shown(r, x, h)
  BY <1>4 DEF Shown
<1>7. \A x \in Topics, h \in Guids : \A v \in Texts(x) : m # Word(x, h, v)
  BY <1>1, FieldsApart DEF Word, ProfileMessage, SkinFileTransferMessage
<1>8. TakeEffect(p, m, "Gameplay", reply)
  BY <1>1, <1>4, <1>6, <1>7 DEF TakeEffect, Answers, Shows, OthersShown
<1> QED
  BY <1>3, <1>5, <1>8

LEMMA PeerProfileEffect ==
    ASSUME TypeInv, NEW p \in Players, ProcessPeerProfile(p)
    PROVE  /\ PeersTyped'
           /\ \E m \in Messages, reply \in Queues : TakeEffect(p, m, "Gameplay", reply)
<1>1. PICK m \in Messages :
        /\ m = Head(toClient[p]["Gameplay"]) /\ toClient[p]["Gameplay"] # <<>>
        /\ m.type \in Fields
  BY HeadIsMessage DEF ProcessPeerProfile, HasMessage, TypeInv, Channels
<1>2. m.guid \in Guids /\ m.value \in Values
  BY <1>1, MessageParts
<1>3. /\ Take(p, "Gameplay", <<>>)
      /\ pendingProfiles' = [pendingProfiles EXCEPT ![p][m.guid][m.type] = m.value]
      /\ UNCHANGED <<myGuid, localSkinUploadAttempted, myProfile, playerTextureNames,
                     playerSkinFiles, playerRingState>>
  BY <1>1 DEF ProcessPeerProfile, skinVars, ringVars
<1>4. pendingProfiles \in [Players -> [Guids -> [Fields -> Values \cup {Unknown}]]]
  BY DEF TypeInv, PeersTyped
<1>5. PeersTyped'
  BY <1>1, <1>2, <1>3 DEF TypeInv, PeersTyped
<1>6. \A r \in Players, h \in Guids, f \in Fields :
          pendingProfiles'[r][h][f] = IF r = p /\ h = m.guid /\ f = m.type THEN m.value
                                      ELSE pendingProfiles[r][h][f]
  BY <1>1, <1>2, <1>3, <1>4
<1>7. OthersShown(p)
  BY <1>3, <1>6 DEF OthersShown, Shown
<1>8. ASSUME NEW x \in Topics, NEW h \in Guids PROVE Shows(p, m, "Gameplay", x, h)
  <2>1. CASE x \notin Fields
    BY <1>3, <2>1 DEF Shows, ChannelOf, Shown
  <2>2. CASE x \in Fields
    <3>1. m \notin About(x, h) => m.type # x \/ m.guid # h
      BY <2>2 DEF About
    <3>2. Shown(p, x, h)' = IF h = m.guid /\ x = m.type THEN m.value ELSE Shown(p, x, h)
      BY <1>6, <2>2 DEF Shown
    <3>3. \A v \in Values : m = Word(x, h, v) => m.type = x /\ m.guid = h /\ m.value = v
      BY <2>2 DEF Word, ProfileMessage
    <3> QED
      BY <2>2, <3>1, <3>2, <3>3 DEF Shows, ChannelOf, Texts
  <2> QED
    BY <2>1, <2>2
<1>9. TakeEffect(p, m, "Gameplay", <<>>)
  BY <1>1, <1>3, <1>7, <1>8 DEF TakeEffect, Answers
<1> QED
  BY <1>5, <1>9, NoAnswer

LEMMA PeerRingEffect ==
    ASSUME TypeInv, NEW p \in Players, ProcessRingSync(p)
    PROVE  /\ PeersTyped'
           /\ \E m \in Messages, reply \in Queues : TakeEffect(p, m, "Gameplay", reply)
<1>1. PICK m \in Messages :
        /\ m = Head(toClient[p]["Gameplay"]) /\ toClient[p]["Gameplay"] # <<>>
        /\ m.type = "RING_SYNC"
  BY HeadIsMessage DEF ProcessRingSync, HasMessage, TypeInv, Channels
<1>2. m.guid \in Guids /\ m.on \in RingStates
  BY <1>1, MessageParts
<1>3. /\ Take(p, "Gameplay", <<>>)
      /\ \/ playerRingState' = playerRingState
         \/ playerRingState' = [playerRingState EXCEPT ![p][m.guid] = m.on]
      /\ UNCHANGED <<myGuid, localSkinUploadAttempted, myProfile, pendingProfiles,
                     playerTextureNames, playerSkinFiles>>
  BY <1>1 DEF ProcessRingSync, skinVars, profileVars
<1>4. PeersTyped'
  <2>1. playerRingState \in [Players -> [Guids -> RingStates \cup {Unknown}]]
    BY DEF TypeInv, PeersTyped
  <2>2. playerRingState' \in [Players -> [Guids -> RingStates \cup {Unknown}]]
    BY <1>2, <1>3, <2>1
  <2> QED
    BY <1>3, <2>2 DEF TypeInv, PeersTyped
<1>5. \A r \in Players, x \in Topics, h \in Guids : Shown(r, x, h)' = Shown(r, x, h)
  BY <1>3 DEF Shown
<1>6. \A x \in Topics, h \in Guids : \A v \in Texts(x) : m # Word(x, h, v)
  BY <1>1, FieldsApart DEF Word, ProfileMessage, SkinFileTransferMessage
<1>7. TakeEffect(p, m, "Gameplay", <<>>)
  BY <1>1, <1>3, <1>5, <1>6 DEF TakeEffect, Answers, Shows, OthersShown
<1> QED
  BY <1>4, <1>7, NoAnswer

LEMMA PeerAnnouncementEffect ==
    ASSUME TypeInv, NEW p \in Players, ProcessPeerSkinAnnouncement(p)
    PROVE  /\ PeersTyped'
           /\ \E m \in Messages, reply \in Queues : TakeEffect(p, m, "Skin", reply)
<1>1. PICK m \in Messages :
        /\ m = Head(toClient[p]["Skin"]) /\ toClient[p]["Skin"] # <<>>
        /\ m.type = "SKIN_ANNOUNCE"
  BY HeadIsMessage DEF ProcessPeerSkinAnnouncement, HasMessage, TypeInv, Channels
<1>2. m.guid \in Guids
  BY MessageParts
<1>3. /\ Take(p, "Skin", <<>>)
      /\ playerTextureNames' = [playerTextureNames EXCEPT ![p] = @ \cup {m.guid}]
      /\ UNCHANGED <<myGuid, localSkinUploadAttempted, myProfile, pendingProfiles,
                     playerSkinFiles, playerRingState>>
  BY <1>1 DEF ProcessPeerSkinAnnouncement, profileVars, ringVars
<1>4. playerTextureNames \in [Players -> SUBSET Guids]
  BY DEF TypeInv, PeersTyped
<1>5. PeersTyped'
  BY <1>2, <1>3 DEF TypeInv, PeersTyped
<1>6. \A r \in Players :
          playerTextureNames'[r] = IF r = p THEN playerTextureNames[r] \cup {m.guid}
                                   ELSE playerTextureNames[r]
  BY <1>3, <1>4
<1>7. OthersShown(p)
  BY <1>3, <1>6 DEF OthersShown, Shown
<1>8. ASSUME NEW x \in Topics, NEW h \in Guids PROVE Shows(p, m, "Skin", x, h)
  <2>1. CASE x \in Fields
    BY <1>3, <2>1 DEF Shows, ChannelOf, Shown
  <2>2. CASE x \notin Fields
    <3>1. \A v \in Skins : Shown(p, x, h) = v => Shown(p, x, h)' = v
      BY <1>3, <1>6, <2>2, DataAssumption DEF Shown
    <3>2. \A v \in Skins : m # Word(x, h, v)
      BY <1>1, <2>2 DEF Word, SkinFileTransferMessage
    <3> QED
      BY <2>2, <3>1, <3>2 DEF Shows, ChannelOf, Texts
  <2> QED
    BY <2>1, <2>2
<1>9. TakeEffect(p, m, "Skin", <<>>)
  BY <1>1, <1>3, <1>7, <1>8 DEF TakeEffect, Answers
<1> QED
  BY <1>5, <1>9, NoAnswer

LEMMA PeerSkinFileEffect ==
    ASSUME TypeInv, NEW p \in Players, ProcessPeerSkinFile(p)
    PROVE  /\ PeersTyped'
           /\ \E m \in Messages, reply \in Queues : TakeEffect(p, m, "Skin", reply)
<1>1. PICK m \in Messages :
        /\ m = Head(toClient[p]["Skin"]) /\ toClient[p]["Skin"] # <<>>
        /\ m.type = "SKIN_FILE_TRANSFER"
  BY HeadIsMessage DEF ProcessPeerSkinFile, HasMessage, TypeInv, Channels
<1>2. m.guid \in Guids /\ m.bytes \in Skins
  BY <1>1, MessageParts
<1>3. /\ Take(p, "Skin", <<>>)
      /\ playerTextureNames' = [playerTextureNames EXCEPT ![p] = @ \cup {m.guid}]
      /\ playerSkinFiles' = [playerSkinFiles EXCEPT ![p][m.guid] = m.bytes]
      /\ UNCHANGED <<myGuid, localSkinUploadAttempted, myProfile, pendingProfiles,
                     playerRingState>>
  BY <1>1 DEF ProcessPeerSkinFile, profileVars, ringVars
<1>4. /\ playerTextureNames \in [Players -> SUBSET Guids]
      /\ playerSkinFiles \in [Players -> [Guids -> Skins \cup {NoSkin}]]
  BY DEF TypeInv, PeersTyped
<1>5. PeersTyped'
  BY <1>2, <1>3 DEF TypeInv, PeersTyped
<1>6. \A r \in Players, h \in Guids :
          /\ h \in playerTextureNames'[r] <=> h \in playerTextureNames[r] \/ (r = p /\ h = m.guid)
          /\ playerSkinFiles'[r][h] = IF r = p /\ h = m.guid THEN m.bytes
                                      ELSE playerSkinFiles[r][h]
  BY <1>2, <1>3, <1>4
<1>7. OthersShown(p)
  BY <1>3, <1>6 DEF OthersShown, Shown
<1>8. ASSUME NEW x \in Topics, NEW h \in Guids PROVE Shows(p, m, "Skin", x, h)
  <2>1. CASE x \in Fields
    BY <1>3, <2>1 DEF Shows, ChannelOf, Shown
  <2>2. CASE x \notin Fields
    <3>1. m \notin About(x, h) => m.guid # h
      BY <1>1, <2>2 DEF About
    <3>2. Shown(p, x, h)' = IF h = m.guid THEN m.bytes ELSE Shown(p, x, h)
      BY <1>6, <2>2 DEF Shown
    <3>3. \A v \in Skins : m = Word(x, h, v) => m.guid = h /\ m.bytes = v
      BY <2>2 DEF Word, SkinFileTransferMessage
    <3> QED
      BY <2>2, <3>1, <3>2, <3>3 DEF Shows, ChannelOf, Texts
  <2> QED
    BY <2>1, <2>2
<1>9. TakeEffect(p, m, "Skin", <<>>)
  BY <1>1, <1>3, <1>7, <1>8 DEF TakeEffect, Answers
<1> QED
  BY <1>5, <1>9, NoAnswer

LEMMA SkinClearEffect ==
    ASSUME TypeInv, NEW p \in Players, ProcessSkinClear(p)
    PROVE  /\ PeersTyped'
           /\ \E m \in Messages, reply \in Queues : TakeEffect(p, m, "Skin", reply)
<1>1. PICK m \in Messages :
        /\ m = Head(toClient[p]["Skin"]) /\ toClient[p]["Skin"] # <<>>
        /\ m.type = "SKIN_CLEAR"
  BY HeadIsMessage DEF ProcessSkinClear, HasMessage, TypeInv, Channels
<1>2. m.guid \in Guids
  BY MessageParts
<1>3. /\ Take(p, "Skin", <<>>)
      /\ playerTextureNames' = [playerTextureNames EXCEPT ![p] = @ \ {m.guid}]
      /\ playerSkinFiles' = [playerSkinFiles EXCEPT ![p][m.guid] = NoSkin]
      /\ UNCHANGED <<myGuid, localSkinUploadAttempted, myProfile, pendingProfiles,
                     playerRingState>>
  BY <1>1 DEF ProcessSkinClear, profileVars, ringVars
<1>4. /\ playerTextureNames \in [Players -> SUBSET Guids]
      /\ playerSkinFiles \in [Players -> [Guids -> Skins \cup {NoSkin}]]
  BY DEF TypeInv, PeersTyped
<1>5. PeersTyped'
  BY <1>2, <1>3 DEF TypeInv, PeersTyped
<1>6. \A r \in Players, h \in Guids : r # p \/ h # m.guid =>
          /\ h \in playerTextureNames'[r] <=> h \in playerTextureNames[r]
          /\ playerSkinFiles'[r][h] = playerSkinFiles[r][h]
  BY <1>2, <1>3, <1>4
<1>7. OthersShown(p)
  BY <1>3, <1>6 DEF OthersShown, Shown
<1>8. ASSUME NEW x \in Topics, NEW h \in Guids PROVE Shows(p, m, "Skin", x, h)
  <2>1. CASE x \in Fields
    BY <1>3, <2>1 DEF Shows, ChannelOf, Shown
  <2>2. CASE x \notin Fields
    <3>1. m \notin About(x, h) => m.guid # h
      BY <1>1, <2>2 DEF About
    <3>2. m.guid # h => Shown(p, x, h)' = Shown(p, x, h)
      BY <1>6, <2>2 DEF Shown
    <3>3. \A v \in Skins : m # Word(x, h, v)
      BY <1>1, <2>2 DEF Word, SkinFileTransferMessage
    <3> QED
      BY <2>2, <3>1, <3>2, <3>3 DEF Shows, ChannelOf, Texts
  <2> QED
    BY <2>1, <2>2
<1>9. TakeEffect(p, m, "Skin", <<>>)
  BY <1>1, <1>3, <1>7, <1>8 DEF TakeEffect, Answers
<1> QED
  BY <1>5, <1>9, NoAnswer

LEMMA ClientEffect ==
    ASSUME TypeInv, NEW p \in Players, ClientReceive(p)
    PROVE  /\ PeersTyped'
           /\ \E ch \in Channels, m \in Messages, reply \in Queues : TakeEffect(p, m, ch, reply)
<1>1. "Gameplay" \in Channels /\ "Skin" \in Channels
  BY DEF Channels
<1>2. CASE ProcessGuidAssign(p) \/ ProcessPeerProfile(p) \/ ProcessRingSync(p)
  BY <1>1, <1>2, GuidAssignEffect, PeerProfileEffect, PeerRingEffect
<1>3. CASE ProcessPeerSkinAnnouncement(p) \/ ProcessPeerSkinFile(p) \/ ProcessSkinClear(p)
  BY <1>1, <1>3, PeerAnnouncementEffect, PeerSkinFileEffect, SkinClearEffect
<1> QED
  BY <1>2, <1>3 DEF ClientReceive

-----------------------------------------------------------------------------
(* Steps of the session.                                                    *)

\* Who has announced itself has a GUID of its own, and so has its slot.
LEMMA HasOwnGuid ==
    ASSUME TypeInv, NEW q \in Players, Attached(q), myGuid[q] # NoGuid
    PROVE  /\ clientSlot[q] \in Slots /\ slotPlayer[clientSlot[q]] = q
           /\ myGuid[q] = clientGuidMap[clientSlot[q]]
           /\ myGuid[q] \in Guids
           /\ \A s \in Slots : clientGuidMap[s] = myGuid[q] => s = clientSlot[q]
<1>1. ClaimInv /\ UniqueGuids
  BY DEF TypeInv, ClaimInv, SessionInv, GuidInv
<1>2. /\ myGuid[q] = clientGuidMap[clientSlot[q]] /\ clientSlot[q] \in Slots
      /\ myGuid[q] \in Guids
  BY <1>1, OwnsItsSlot
<1> QED
  BY <1>1, <1>2 DEF Attached, UniqueGuids

LEMMA QueuesOfTopics ==
    ASSUME TypeInv, NEW q \in Players, NEW x \in Topics
    PROVE  /\ ChannelOf(x) \in Channels
           /\ Down(q, x) \in Queues
           /\ Attached(q) => Up(q, x) \in Queues
<1>1. ChannelOf(x) \in Channels
  BY DEF ChannelOf, Channels
<1>2. Attached(q) => clientSlot[q] \in Slots
  BY DEF Attached, TypeInv, ClaimInv, ClientsTyped
<1> QED
  BY <1>1, <1>2 DEF TypeInv, QueuesTyped, Up, Down

LEMMA MeantIsText ==
    ASSUME TypeInv, NEW q \in Players, NEW x \in Topics, Said(q, x)
    PROVE  Meant(q, x) \in Texts(x)
BY LocalSkinAssumption DEF TypeInv, ClaimInv, ClientsTyped, Said, Meant, Texts

LEMMA OthersSilent ==
    ASSUME NEW x \in Topics, NEW g, NEW msgs \in Queues,
           \A i \in DOMAIN msgs : msgs[i].guid # g
    PROVE  Silent(msgs, About(x, g))
BY DEF Silent, About

\* The two promises, for what q has as GUID and means.
LEMMA PromisesNow ==
    ASSUME NEW q \in Players, NEW x \in Topics, NEW g, NEW w, g = myGuid[q], w = Meant(q, x)
    PROVE  /\ ServerGets(q, x) <=>
                  Gets(Up(q, x), Stored(x, g), About(x, g), w, Word(x, g, w))
           /\ \A p \in Players : PeerGets(p, q, x) <=>
                  Reaches(Up(q, x), Stored(x, g), Down(p, x), Shown(p, x, g),
                          About(x, g), w, Word(x, g, w))
BY DEF ServerGets, PeerGets

LEMMA PromisesNext ==
    ASSUME NEW q \in Players, NEW x \in Topics, NEW g, NEW w, g = myGuid'[q], w = Meant(q, x)'
    PROVE  /\ ServerGets(q, x)' <=>
                  Gets(Up(q, x)', Stored(x, g)', About(x, g), w, Word(x, g, w))
           /\ \A p \in Players : PeerGets(p, q, x)' <=>
                  Reaches(Up(q, x)', Stored(x, g)', Down(p, x)', Shown(p, x, g)',
                          About(x, g), w, Word(x, g, w))
BY DEF ServerGets, PeerGets

\* What q may do: say the topic anew, or something else.
Speaks(q, x) ==
    \E more \in Queues :
        /\ Attached(q) /\ Up(q, x)' = Up(q, x) \o more
        /\ \/ /\ Said(q, x) /\ myGuid'[q] = myGuid[q] /\ Meant(q, x)' = Meant(q, x)
              /\ Stored(x, myGuid[q])' = Stored(x, myGuid[q])
              /\ Silent(more, About(x, myGuid[q]))
           \/ LastIn(more, About(x, myGuid'[q]), {Word(x, myGuid'[q], Meant(q, x)')})

\* What p may hear about the topic of h: nothing, or what it shows.
Hears(p, x, h) ==
    \/ /\ \E more \in Queues : Down(p, x)' = Down(p, x) \o more /\ Silent(more, About(x, h))
       /\ \A v \in Texts(x) : Shown(p, x, h) = v => Shown(p, x, h)' = v
    \/ /\ Down(p, x) # <<>> /\ Down(p, x)' = Tail(Down(p, x))
       /\ Head(Down(p, x)) \notin About(x, h) =>
              \A v \in Texts(x) : Shown(p, x, h) = v => Shown(p, x, h)' = v
       /\ \A v \in Texts(x) : Head(Down(p, x)) = Word(x, h, v) => Shown(p, x, h)' = v

\* Every step but the server's handling of q's own messages and the coming of a peer.
LEMMA QuietStep ==
    ASSUME AgreementInv, TypeInv',
           \A q \in Players, x \in Topics : Said(q, x)' => Speaks(q, x),
           \A p, q \in Players, x \in Topics, h \in Guids :
               /\ p # q /\ Attached(p)' /\ Said(q, x)' /\ Said(q, x)
               /\ h = myGuid[q] /\ h = myGuid'[q]
               => Attached(p) /\ Hears(p, x, h)
    PROVE  AgreementInv'
<1> SUFFICES ASSUME NEW q \in Players, NEW x \in Topics, Said(q, x)'
             PROVE  /\ ServerGets(q, x)'
                    /\ \A p \in Players : p # q /\ Attached(p)' => PeerGets(p, q, x)'
  BY DEF AgreementInv
<1>1. PICK g, w : g = myGuid'[q] /\ w = Meant(q, x)'
  OBVIOUS
<1>2. PICK more \in Queues :
        /\ Attached(q) /\ Up(q, x)' = Up(q, x) \o more
        /\ \/ /\ Said(q, x) /\ myGuid'[q] = myGuid[q] /\ Meant(q, x)' = Meant(q, x)
              /\ Stored(x, myGuid[q])' = Stored(x, myGuid[q])
              /\ Silent(more, About(x, myGuid[q]))
           \/ LastIn(more, About(x, myGuid'[q]), {Word(x, myGuid'[q], Meant(q, x)')})
  BY DEF Speaks
<1> DEFINE K == About(x, g)
           word == Word(x, g, w)
<1>3. TypeInv /\ Up(q, x) \in Queues
  BY <1>2, QueuesOfTopics DEF AgreementInv
<1>4. CASE LastIn(more, K, {word})
  <2>1. \A stored, down, shown :
            /\ Gets(Up(q, x)', stored, K, w, word)
            /\ Reaches(Up(q, x)', stored, down, shown, K, w, word)
    BY <1>2, <1>3, <1>4, WordAdded
  <2>2. Gets(Up(q, x)', Stored(x, g)', K, w, word)
    BY <2>1
  <2>3. \A p \in Players :
            Reaches(Up(q, x)', Stored(x, g)', Down(p, x)', Shown(p, x, g)', K, w, word)
    BY <2>1
  <2> QED
    BY <1>1, <2>2, <2>3, PromisesNext
<1>5. CASE ~LastIn(more, K, {word})
  <2>1. /\ Said(q, x) /\ g = myGuid[q] /\ w = Meant(q, x) /\ Stored(x, g)' = Stored(x, g)
        /\ Silent(more, K)
    <3>1. /\ Said(q, x) /\ myGuid'[q] = myGuid[q] /\ Meant(q, x)' = Meant(q, x)
          /\ Stored(x, myGuid[q])' = Stored(x, myGuid[q])
          /\ Silent(more, About(x, myGuid[q]))
      BY <1>1, <1>2, <1>5
    <3> QED
      BY <1>1, <3>1 DEF Stored
  <2>2. g \in Guids /\ w \in Texts(x)
    BY <1>2, <1>3, <2>1, HasOwnGuid, MeantIsText DEF Said
  <2>3. /\ Gets(Up(q, x), Stored(x, g), K, w, word)
        /\ \A p \in Players : p # q /\ Attached(p) =>
              Reaches(Up(q, x), Stored(x, g), Down(p, x), Shown(p, x, g), K, w, word)
    BY <2>1, PromisesNow DEF AgreementInv
  <2>4. ServerGets(q, x)'
    BY <1>1, <1>2, <1>3, <2>1, <2>3, WordAdded, PromisesNext
  <2>5. ASSUME NEW p \in Players, p # q, Attached(p)' PROVE PeerGets(p, q, x)'
    <3>1. Attached(p) /\ Hears(p, x, g) /\ Down(p, x) \in Queues
      BY <1>1, <1>3, <2>1, <2>2, <2>5, QueuesOfTopics
    <3>2. Reaches(Up(q, x)', Stored(x, g), Down(p, x), Shown(p, x, g), K, w, word)
      BY <1>2, <1>3, <2>1, <2>3, <2>5, <3>1, WordAdded
    <3>3. Reaches(Up(q, x)', Stored(x, g), Down(p, x)', Shown(p, x, g)', K, w, word)
      <4>1. CASE /\ \E news \in Queues : Down(p, x)' = Down(p, x) \o news /\ Silent(news, K)
                 /\ \A v \in Texts(x) : Shown(p, x, g) = v => Shown(p, x, g)' = v
        <5>1. PICK news \in Queues : Down(p, x)' = Down(p, x) \o news /\ Silent(news, K)
          BY <4>1
        <5>2. Reaches(Up(q, x)', Stored(x, g), Down(p, x)', Shown(p, x, g), K, w, word)
          BY <3>1, <3>2, <5>1, OtherNews
        <5> QED
          BY <2>2, <4>1, <5>2 DEF Reaches
      <4>2. CASE /\ Down(p, x) # <<>> /\ Down(p, x)' = Tail(Down(p, x))
                 /\ Head(Down(p, x)) \notin K =>
                        \A v \in Texts(x) : Shown(p, x, g) = v => Shown(p, x, g)' = v
                 /\ \A v \in Texts(x) : Head(Down(p, x)) = Word(x, g, v) => Shown(p, x, g)' = v
        BY <2>2, <3>1, <3>2, <4>2, WordShown
      <4> QED
        BY <3>1, <4>1, <4>2 DEF Hears
    <3> QED
      BY <1>1, <2>1, <3>3, PromisesNext
  <2> QED
    BY <2>4, <2>5
<1> QED
  BY <1>4, <1>5

\* A client that does not move keeps what it is and shows.
LEMMA ClientsRest ==
    ASSUME UNCHANGED clientVars
    PROVE  /\ UNCHANGED <<myGuid, myProfile, localSkinUploadAttempted>>
           /\ \A q \in Players, x \in Topics : Meant(q, x)' = Meant(q, x)
           /\ \A p \in Players, x \in Topics, h \in Guids : Shown(p, x, h)' = Shown(p, x, h)
           /\ PeersTyped => PeersTyped'
BY DEF clientVars, profileVars, skinVars, ringVars, Meant, Shown, PeersTyped

\* Somebody's session is what it was.
LEMMA SaidBefore ==
    ASSUME NEW q \in Players, NEW x \in Topics, Said(q, x)', Attached(q),
           UNCHANGED <<myGuid, myProfile, localSkinUploadAttempted>>
    PROVE  Said(q, x)
BY DEF Said

LEMMA ServerAgrees ==
    ASSUME AgreementInv, ClaimInv', NEW s \in Slots, ServerReceive(s), UNCHANGED clientVars
    PROVE  AgreementInv'
<1>1. TypeInv /\ SkinsTyped'
  BY ServerEffect DEF AgreementInv
<1>2. PICK ch \in Channels, g \in Guids, m \in Messages, msgs \in Queues :
          ReceiveEffect(s, g, m, ch, msgs)
  BY <1>1, ServerEffect
<1>3. /\ toServer' = [toServer EXCEPT ![s][ch] = Tail(toServer[s][ch])]
      /\ toClient' = Delivered(ToOthers(s, ch, msgs))
      /\ UNCHANGED <<slotPlayer, clientSlot>>
  BY <1>2 DEF ReceiveEffect, Relay
<1>4. /\ Connected(s) /\ g = clientGuidMap[s] /\ toServer[s][ch] # <<>>
      /\ m = Head(toServer[s][ch]) /\ \A i \in DOMAIN msgs : msgs[i].guid = g
      /\ \A x \in Topics : Relays(g, m, ch, msgs, x)
      /\ \A x \in Topics, h \in Guids \ {g} : Stored(x, h)' = Stored(x, h)
  BY <1>2 DEF ReceiveEffect
<1>5. /\ toClient' \in [Players -> [Channels -> Queues]]
      /\ \A p \in Players, c \in Channels :
             toClient'[p][c] =
                 IF Attached(p) /\ clientSlot[p] # s /\ c = ch THEN toClient[p][c] \o msgs
                 ELSE toClient[p][c]
  BY <1>1, <1>3, DeliverView
<1>6. toServer \in [Slots -> [Channels -> Queues]]
  BY <1>1 DEF TypeInv, QueuesTyped
<1>7. Tail(toServer[s][ch]) \in Queues
  <2>1. toServer[s][ch] \in Queues
    BY <1>6
  <2> QED
    BY <1>4, <2>1, HeadTailProperties DEF Queues
<1>8. TypeInv'
  <2>1. PeersTyped'
    BY <1>1, ClientsRest DEF TypeInv
  <2>2. QueuesTyped'
    BY <1>3, <1>5, <1>6, <1>7 DEF QueuesTyped
  <2> QED
    BY <1>1, <2>1, <2>2 DEF TypeInv
<1> SUFFICES ASSUME NEW q \in Players, NEW x \in Topics, Said(q, x)'
             PROVE  /\ ServerGets(q, x)'
                    /\ \A p \in Players : p # q /\ Attached(p)' => PeerGets(p, q, x)'
  BY <1>8 DEF AgreementInv
<1>9. UNCHANGED <<myGuid, myProfile, localSkinUploadAttempted>> /\ Meant(q, x)' = Meant(q, x)
  BY ClientsRest
<1>10. \A p \in Players : Attached(p)' <=> Attached(p)
  BY <1>3 DEF Attached
<1>11. Attached(q) /\ Said(q, x)
  BY <1>9, <1>10, SaidBefore DEF Said
<1>12. PICK h \in Guids, w \in Texts(x) : h = myGuid[q] /\ w = Meant(q, x)
  BY <1>1, <1>11, HasOwnGuid, MeantIsText DEF Said
<1> DEFINE K == About(x, h)
           word == Word(x, h, w)
           c == ChannelOf(x)
           t == clientSlot[q]
<1>13. /\ t \in Slots /\ slotPlayer[t] = q /\ h = clientGuidMap[t] /\ c \in Channels
       /\ (h = g) => t = s
       /\ Up(q, x) \in Queues
  BY <1>1, <1>4, <1>11, <1>12, HasOwnGuid, QueuesOfTopics DEF Said
<1>14. /\ Gets(Up(q, x), Stored(x, h), K, w, word)
       /\ \A p \in Players : p # q /\ Attached(p) =>
             Reaches(Up(q, x), Stored(x, h), Down(p, x), Shown(p, x, h), K, w, word)
  BY <1>11, <1>12, PromisesNow DEF AgreementInv
<1>15. Up(q, x)' = IF t = s /\ c = ch THEN Tail(Up(q, x)) ELSE Up(q, x)
  BY <1>3, <1>6, <1>13 DEF Up
<1>16. \A p \in Players : /\ Down(p, x) \in Queues
                          /\ Shown(p, x, h)' = Shown(p, x, h)
                          /\ p # q /\ Attached(p) =>
                                clientSlot[p] # t
                                /\ Down(p, x)' = IF clientSlot[p] # s /\ c = ch
                                                 THEN Down(p, x) \o msgs ELSE Down(p, x)
  BY <1>1, <1>5, <1>13, ClientsRest, QueuesOfTopics DEF Attached, Down
<1>17. SUFFICES /\ Gets(Up(q, x)', Stored(x, h)', K, w, word)
                /\ \A p \in Players : p # q /\ Attached(p) =>
                      Reaches(Up(q, x)', Stored(x, h)', Down(p, x)', Shown(p, x, h)', K, w, word)
  BY <1>9, <1>10, <1>12, PromisesNext
<1>18. CASE t = s /\ c = ch
  <2>1. /\ Up(q, x) # <<>> /\ Head(Up(q, x)) = m /\ h = g
        /\ m \notin K => Silent(msgs, K) /\ (Stored(x, h) = w => Stored(x, h)' = w)
        /\ m = word => LastIn(msgs, K, {word}) /\ Stored(x, h)' = w
    BY <1>4, <1>13, <1>18 DEF Up, Relays
  <2> HIDE DEF K, word
  <2>2. Gets(Up(q, x)', Stored(x, h)', K, w, word)
    <3>1. <<>> \in Queues
      BY NoAnswer
    <3> QED
      BY <1>13, <1>14, <1>15, <1>18, <2>1, <3>1, WordRelayed
  <2>3. ASSUME NEW p \in Players, p # q, Attached(p)
        PROVE  Reaches(Up(q, x)', Stored(x, h)', Down(p, x)', Shown(p, x, h)', K, w, word)
    BY <1>13, <1>14, <1>15, <1>16, <1>18, <2>1, <2>3, WordRelayed
  <2> QED
    BY <2>2, <2>3
<1>19. CASE t = s /\ c # ch
  BY <1>4, <1>13, <1>14, <1>15, <1>16, <1>19 DEF Relays
<1>20. CASE t # s
  <2>1. h # g /\ Stored(x, h)' = Stored(x, h) /\ Up(q, x)' = Up(q, x)
    BY <1>4, <1>13, <1>15, <1>20
  <2>2. Silent(msgs, K)
    BY <1>4, <2>1, OthersSilent
  <2>3. ASSUME NEW p \in Players, p # q, Attached(p)
        PROVE  Reaches(Up(q, x)', Stored(x, h)', Down(p, x)', Shown(p, x, h)', K, w, word)
    BY <1>14, <1>16, <2>1, <2>2, <2>3, OtherNews
  <2> QED
    BY <1>14, <2>1, <2>3
<1> QED
  BY <1>18, <1>19, <1>20

\* What the server stores of a profile, it tells a newcomer.
LEMMA ProfilesReplayed ==
    ASSUME TypeInv, NEW s \in Slots, NEW t \in Slots, t # s, Connected(t),
           NEW x \in Fields
    PROVE  LET g == clientGuidMap[t]
           IN  LastIn(ProfileReplay(s), About(x, g), {Word(x, g, guidData[g][x])})
<1> DEFINE g == clientGuidMap[t]
           ProfileOf(i) ==
             IF i = s \/ ~Connected(i) \/ clientGuidMap[i] = NoGuid THEN <<>>
             ELSE [k \in DOMAIN ProfileFields |->
                      ProfileMessage(ProfileFields[k], clientGuidMap[i],
                                     GetProfile(i, ProfileFields[k]))]
           parts == [k \in 1 .. MaxClients |-> ProfileOf(k - 1)]
           S == {ProfileMessage(f, h, guidData[h][f]) : f \in Fields, h \in Guids}
           word == Word(x, g, guidData[g][x])
<1>1. Len(parts) \in Nat \ {0} /\ Len(parts) = MaxClients
  BY SlotsAssumption
<1>2. /\ clientGuidMap \in [Slots -> Guids \cup {NoGuid}]
      /\ g \in Guids /\ g # NoGuid
      /\ guidData \in [Guids -> [Fields -> Values]]
  BY DEF TypeInv, ClaimInv, DataTypeOK, SessionInv, ConnectedHasGuid, GuidInv, MapTypeOK
<1>3. /\ Len(ProfileFields) \in Nat /\ DOMAIN ProfileFields = 1 .. Len(ProfileFields)
      /\ \A k \in DOMAIN ProfileFields : ProfileFields[k] \in Fields
  BY DataAssumption DEF Fields
<1>4. ASSUME NEW i \in Slots PROVE ProfileOf(i) \in Seq(S)
  <2>1. CASE i = s \/ ~Connected(i) \/ clientGuidMap[i] = NoGuid
    BY <2>1
  <2>2. CASE ~(i = s \/ ~Connected(i) \/ clientGuidMap[i] = NoGuid)
    <3>1. clientGuidMap[i] \in Guids
      BY <1>2, <2>2
    <3>2. \A f \in Fields : GetProfile(i, f) = guidData[clientGuidMap[i]][f]
      BY <2>2 DEF GetProfile
    <3>3. \A k \in DOMAIN ProfileFields :
              ProfileMessage(ProfileFields[k], clientGuidMap[i],
                             GetProfile(i, ProfileFields[k])) \in S
      BY <1>3, <3>1, <3>2
    <3> HIDE DEF S
    <3> QED
      BY <1>3, <2>2, <3>3
  <2> QED
    BY <2>1, <2>2
<1>5. \A k \in 1 .. Len(parts) : parts[k] \in Seq(S)
  <2> HIDE DEF ProfileOf, S
  <2> SUFFICES ASSUME NEW k \in 1 .. MaxClients PROVE ProfileOf(k - 1) \in Seq(S)
    BY <1>1
  <2>1. k - 1 \in Slots
    BY SlotsAssumption DEF Slots
  <2> QED
    BY <1>4, <2>1
<1>6. ProfileReplay(s) = FlattenSeq(parts)
  BY DEF ProfileReplay
<1>7. ProfileReplay(s) \in Seq(S)
  <2> HIDE DEF parts, S
  <2> QED
    BY <1>1, <1>5, <1>6, FlattenTyped
<1>8. word \in Range(ProfileOf(t))
  <2>1. PICK k \in DOMAIN ProfileFields : ProfileFields[k] = x
    BY DEF Fields
  <2>2. DOMAIN ProfileOf(t) = DOMAIN ProfileFields /\ ProfileOf(t)[k] = word
    BY <1>2, <2>1 DEF GetProfile, Word
  <2> HIDE DEF ProfileOf, word
  <2> QED
    BY <2>2 DEF Range
<1>9. word \in Range(ProfileReplay(s))
  <2>1. t + 1 \in 1 .. Len(parts) /\ parts[t + 1] = ProfileOf(t)
    <3>1. t \in Nat /\ t + 1 \in 1 .. MaxClients /\ (t + 1) - 1 = t
      BY SlotsAssumption DEF Slots
    <3> HIDE DEF ProfileOf
    <3> QED
      BY <1>1, <3>1
  <2> HIDE DEF parts, S, ProfileOf
  <2>2. Range(parts[t + 1]) \subseteq Range(FlattenSeq(parts))
    BY <1>1, <1>5, <2>1, FlattenKeeps
  <2> QED
    BY <1>6, <1>8, <2>1, <2>2
<1>10. \A i \in DOMAIN ProfileReplay(s) :
           ProfileReplay(s)[i] \in About(x, g) => ProfileReplay(s)[i] = word
  <2>1. \A m \in S : m \in About(x, g) => m = word
    BY DEF About, ProfileMessage, Word
  <2> HIDE DEF S
  <2> QED
    BY <1>7, <2>1
<1>11. \E i \in DOMAIN ProfileReplay(s) : ProfileReplay(s)[i] \in {word}
  BY <1>9 DEF Range
<1> HIDE DEF S, word
<1>12. LastIn(ProfileReplay(s), About(x, g), {word})
  BY <1>7, <1>10, <1>11, NothingElseSaid
<1> QED
  BY <1>12 DEF word

\* Skin files, too, and the server has nothing else to say of them.
LEMMA SkinsReplayed ==
    ASSUME TypeInv, Guids # {}
    PROVE  /\ SkinReplay \in Queues
           /\ \A g \in Guids, x \in Topics : x \notin Fields /\ cachedSkins[g] \in Skins =>
                  LastIn(SkinReplay, About(x, g), {Word(x, g, cachedSkins[g])})
<1> DEFINE SkinOf(g) ==
            IF cachedSkins[g] = Absent THEN <<>>
            ELSE IF cachedSkins[g] = Announced THEN <<SkinAnnouncementMessage(g)>>
            ELSE <<SkinAnnouncementMessage(g), SkinFileTransferMessage(g, cachedSkins[g])>>
           parts == [i \in DOMAIN AllGuids |-> SkinOf(AllGuids[i])]
           S == {SkinAnnouncementMessage(g) : g \in Guids}
                    \cup {m \in Messages : \E g \in Guids :
                             m = SkinFileTransferMessage(g, cachedSkins[g])}
<1>1. Len(parts) \in Nat \ {0} /\ Len(parts) = Len(AllGuids) /\ DOMAIN AllGuids = 1 .. Len(AllGuids)
  <2>1. AllGuids \in Seq(Nat \ {NoGuid}) /\ AllGuids # <<>>
    BY GuidAssumption DEF Guids
  <2>2. Len(AllGuids) \in Nat \ {0} /\ DOMAIN AllGuids = 1 .. Len(AllGuids)
    BY <2>1
  <2> HIDE DEF SkinOf
  <2> QED
    BY <2>2
<1>2. cachedSkins \in [Guids -> Skins \cup {Absent, Announced}]
  BY DEF TypeInv, SkinsTyped
<1>3. ASSUME NEW g \in Guids PROVE SkinOf(g) \in Seq(S)
  <2>1. SkinAnnouncementMessage(g) \in S
    OBVIOUS
  <2>2. cachedSkins[g] \in Skins => SkinFileTransferMessage(g, cachedSkins[g]) \in S
    BY DEF Messages
  <2>3. cachedSkins[g] \in Skins \/ cachedSkins[g] = Absent \/ cachedSkins[g] = Announced
    BY <1>2
  <2> HIDE DEF S
  <2> QED
    BY <2>1, <2>2, <2>3
<1>4. \A k \in 1 .. Len(parts) : parts[k] \in Seq(S)
  <2>1. \A k \in DOMAIN AllGuids : AllGuids[k] \in Guids
    BY DEF Guids
  <2> HIDE DEF SkinOf, S
  <2> QED
    BY <1>1, <1>3, <2>1
<1>5. SkinReplay = FlattenSeq(parts)
  BY DEF SkinReplay
<1>6. SkinReplay \in Seq(S)
  <2> HIDE DEF parts, S
  <2> QED
    BY <1>1, <1>4, <1>5, FlattenTyped
<1>7. SkinReplay \in Queues
  <2>1. S \subseteq Messages
    BY DEF Messages
  <2> HIDE DEF S
  <2> QED
    BY <1>6, <2>1, SeqMonotonic DEF Queues
<1>8. ASSUME NEW g \in Guids, NEW x \in Topics, x \notin Fields, cachedSkins[g] \in Skins
      PROVE  LastIn(SkinReplay, About(x, g), {Word(x, g, cachedSkins[g])})
  <2> DEFINE word == Word(x, g, cachedSkins[g])
  <2>1. word = SkinFileTransferMessage(g, cachedSkins[g])
    BY <1>8 DEF Word
  <2>2. word \in Range(SkinOf(g))
    <3>1. SkinOf(g) = <<SkinAnnouncementMessage(g), word>>
      BY <1>8, <2>1, CacheAssumption DEF Absent, Announced
    <3> HIDE DEF SkinOf, word
    <3>2. 2 \in DOMAIN SkinOf(g) /\ SkinOf(g)[2] = word
      BY <3>1
    <3> QED
      BY <3>2 DEF Range
  <2>3. PICK k \in DOMAIN AllGuids : AllGuids[k] = g
    BY DEF Guids
  <2>4. word \in Range(SkinReplay)
    <3>1. k \in 1 .. Len(parts) /\ parts[k] = SkinOf(g)
      <4> HIDE DEF SkinOf
      <4> QED
        BY <1>1, <2>3
    <3> HIDE DEF parts, S, SkinOf
    <3>2. Range(parts[k]) \subseteq Range(FlattenSeq(parts))
      BY <1>1, <1>4, <3>1, FlattenKeeps
    <3> QED
      BY <1>5, <2>2, <3>1, <3>2
  <2>5. \A m \in S : m \in About(x, g) => m = word
    <3>1. ASSUME NEW h \in Guids, SkinAnnouncementMessage(h) \in About(x, g) PROVE FALSE
      BY <1>8, <3>1 DEF About, SkinAnnouncementMessage
    <3>2. ASSUME NEW h \in Guids, SkinFileTransferMessage(h, cachedSkins[h]) \in About(x, g)
          PROVE  h = g
      BY <3>2 DEF About, SkinFileTransferMessage
    <3> QED
      BY <2>1, <3>1, <3>2
  <2>6. \A i \in DOMAIN SkinReplay : SkinReplay[i] \in About(x, g) => SkinReplay[i] = word
    <3> HIDE DEF S, word
    <3> QED
      BY <1>6, <2>5
  <2>7. \E i \in DOMAIN SkinReplay : SkinReplay[i] \in {word}
    BY <2>4 DEF Range
  <2> HIDE DEF S, word
  <2>8. LastIn(SkinReplay, About(x, g), {word})
    BY <1>6, <2>6, <2>7, NothingElseSaid
  <2> QED
    BY <2>8 DEF word
<1> QED
  BY <1>7, <1>8

\* Somebody comes: it is told all the server stores, and nobody else hears of it yet.
LEMMA AcceptAgrees ==
    ASSUME AgreementInv, ClaimInv', NEW r \in Players, NEW s \in Slots, AcceptClient(r, s),
           UNCHANGED clientVars
    PROVE  AgreementInv'
<1> DEFINE first == <<GuidAssignMessage(GuidFor(s))>> \o ProfileReplay(s)
<1>1. TypeInv /\ SessionInv
  BY DEF AgreementInv, TypeInv, ClaimInv
<1>2. /\ clientSlot[r] = NoSlot /\ ~Connected(s) /\ GuidFor(s) # NoGuid /\ AssignGuid(s)
      /\ slotPlayer' = [slotPlayer EXCEPT ![s] = r]
      /\ clientSlot' = [clientSlot EXCEPT ![r] = s]
      /\ toServer' = [toServer EXCEPT ![s] = NoMessages]
      /\ toClient' = [toClient EXCEPT ![r] = [Gameplay |-> first, Skin |-> SkinReplay]]
      /\ cachedSkins' = cachedSkins
  BY DEF AcceptClient, IsFirstFree, OpenSession
<1>3. guidData' = guidData
  BY <1>2 DEF AssignGuid, guidVars
<1>4. GuidFor(s) \in Guids
  BY <1>1, <1>2, NoGuidMeansNone DEF SessionInv, ConnectedHasGuid
<1>5. /\ <<GuidAssignMessage(GuidFor(s))>> \in Queues /\ ProfileReplay(s) \in Queues
      /\ first \in Queues /\ SkinReplay \in Queues
  <2>1. GuidAssignMessage(GuidFor(s)) \in Messages
    BY <1>4 DEF Messages
  <2>2. <<GuidAssignMessage(GuidFor(s))>> \in Queues
    BY <2>1, OneMessage
  <2>3. ProfileReplay(s) \in Queues
    BY <1>1, ProfileReplayTyped, NewsAreMessages, SeqMonotonic DEF TypeInv, Queues
  <2>4. first \in Queues
    BY <2>2, <2>3, ConcatProperties DEF Queues
  <2> QED
    BY <1>1, <1>4, <2>2, <2>3, <2>4, SkinsReplayed
<1> HIDE DEF first
<1>6. TypeInv'
  <2>1. NoMessages \in [Channels -> Queues]
    BY NoAnswer DEF NoMessages
  <2>2. [Gameplay |-> first, Skin |-> SkinReplay] \in [Channels -> Queues]
    BY <1>5 DEF Channels
  <2>3. QueuesTyped'
    BY <1>1, <1>2, <2>1, <2>2 DEF TypeInv, QueuesTyped
  <2>4. PeersTyped' /\ SkinsTyped'
    BY <1>1, <1>2, ClientsRest DEF TypeInv, SkinsTyped
  <2> QED
    BY <2>3, <2>4 DEF TypeInv
<1> SUFFICES ASSUME NEW q \in Players, NEW x \in Topics, Said(q, x)'
             PROVE  /\ ServerGets(q, x)'
                    /\ \A p \in Players : p # q /\ Attached(p)' => PeerGets(p, q, x)'
  BY <1>6 DEF AgreementInv
<1>7. UNCHANGED <<myGuid, myProfile, localSkinUploadAttempted>> /\ Meant(q, x)' = Meant(q, x)
  BY ClientsRest
<1>8. \A p \in Players \ {r} : Attached(p)' => /\ Attached(p) /\ clientSlot'[p] = clientSlot[p]
                                              /\ clientSlot[p] # s
  BY <1>1, <1>2 DEF Attached, Connected, ClaimInv, ClientsTyped, TypeInv, SessionInv, SlotsTyped
<1>9. q # r /\ Attached(q) /\ Said(q, x)
  <2>1. myGuid'[q] # NoGuid /\ Attached(q)'
    BY DEF Said
  <2>2. myGuid[r] = NoGuid
    BY <1>1, <1>2 DEF TypeInv, ClaimInv, GuidsOwn
  <2> QED
    BY <1>7, <1>8, <2>1, <2>2, SaidBefore
<1>10. PICK g \in Guids, w \in Texts(x) : g = myGuid[q] /\ w = Meant(q, x)
  BY <1>1, <1>9, HasOwnGuid, MeantIsText DEF Said
<1> DEFINE K == About(x, g)
           word == Word(x, g, w)
           t == clientSlot[q]
<1>11. t \in Slots \ {s} /\ slotPlayer[t] = q /\ g = clientGuidMap[t] /\ Connected(t)
  <2>1. t # s
    BY <1>8, <1>9 DEF Said
  <2> QED
    BY <1>1, <1>9, <1>10, <2>1, HasOwnGuid, TransportAssumption DEF Said, Connected
<1>12. /\ Gets(Up(q, x), Stored(x, g), K, w, word)
       /\ \A p \in Players : p # q /\ Attached(p) =>
             Reaches(Up(q, x), Stored(x, g), Down(p, x), Shown(p, x, g), K, w, word)
  BY <1>9, <1>10, PromisesNow DEF AgreementInv
<1>13. Up(q, x)' = Up(q, x) /\ Stored(x, g)' = Stored(x, g)
  BY <1>1, <1>2, <1>3, <1>8, <1>9, <1>11 DEF Up, Stored, TypeInv, QueuesTyped, Said
<1>14. SUFFICES \A p \in Players : p # q /\ Attached(p)' =>
                   Reaches(Up(q, x), Stored(x, g), Down(p, x)', Shown(p, x, g)', K, w, word)
  BY <1>7, <1>10, <1>12, <1>13, PromisesNext
<1>15. ASSUME NEW p \in Players \ {r}, p # q, Attached(p)'
       PROVE  Reaches(Up(q, x), Stored(x, g), Down(p, x)', Shown(p, x, g)', K, w, word)
  <2>1. Attached(p) /\ Down(p, x)' = Down(p, x) /\ Shown(p, x, g)' = Shown(p, x, g)
    BY <1>1, <1>2, <1>8, <1>15, ClientsRest DEF Down, TypeInv, QueuesTyped
  <2> QED
    BY <1>12, <1>15, <2>1
<1>16. Reaches(Up(q, x), Stored(x, g), Down(r, x)', Shown(r, x, g)', K, w, word)
  <2>1. Down(r, x)' = IF x \in Fields THEN first ELSE SkinReplay
    BY <1>1, <1>2 DEF Down, ChannelOf, TypeInv, QueuesTyped
  <2>2. CASE x \in Fields
    <3>1. LastIn(ProfileReplay(s), K, {Word(x, g, Stored(x, g))})
      BY <1>1, <1>11, <2>2, ProfilesReplayed DEF Stored
    <3>2. Stored(x, g) = w => LastIn(first, K, {word})
      BY <1>5, <3>1, AddMore DEF first, Queues
    <3> QED
      BY <1>5, <1>12, <2>1, <2>2, <3>2, WordReplayed
  <2>3. CASE x \notin Fields
    <3>1. Stored(x, g) = w => LastIn(SkinReplay, K, {word})
      BY <1>1, <2>3, SkinsReplayed DEF Stored, Texts
    <3> QED
      BY <1>5, <1>12, <2>1, <2>3, <3>1, WordReplayed
  <2> QED
    BY <2>2, <2>3
<1> QED
  BY <1>15, <1>16

\* Nothing is said, and nothing heard.
LEMMA SaysNothing ==
    ASSUME TypeInv, NEW q \in Players, NEW x \in Topics, Said(q, x),
           Up(q, x)' = Up(q, x), Stored(x, myGuid[q])' = Stored(x, myGuid[q]),
           myGuid'[q] = myGuid[q], Meant(q, x)' = Meant(q, x)
    PROVE  Speaks(q, x)
<1>1. Attached(q) /\ Up(q, x) \in Queues
  BY QueuesOfTopics DEF Said
<1>2. <<>> \in Queues /\ Up(q, x) \o <<>> = Up(q, x) /\ Silent(<<>>, About(x, myGuid[q]))
  BY <1>1, NoAnswer, EmptyIsSilent DEF Queues
<1> QED
  BY <1>1, <1>2 DEF Speaks

LEMMA HearsNothing ==
    ASSUME TypeInv, NEW p \in Players, NEW x \in Topics, NEW h,
           Down(p, x)' = Down(p, x), Shown(p, x, h)' = Shown(p, x, h)
    PROVE  Hears(p, x, h)
<1>1. Down(p, x) \in Queues
  BY QueuesOfTopics
<1>2. <<>> \in Queues /\ Down(p, x) \o <<>> = Down(p, x) /\ Silent(<<>>, About(x, h))
  BY <1>1, NoAnswer, EmptyIsSilent DEF Queues
<1> QED
  BY <1>2 DEF Hears

\* Somebody is refused: it is attached to nothing, and nobody else hears of it.
LEMMA RefuseAgrees ==
    ASSUME AgreementInv, ClaimInv', NEW r \in Players, NEW s \in Slots, RefuseClient(r, s),
           UNCHANGED clientVars
    PROVE  AgreementInv'
<1>1. TypeInv /\ ClaimInv /\ QueuesTyped
  BY DEF AgreementInv, TypeInv
<1>2. /\ ~Connected(s) /\ slotPlayer' = slotPlayer /\ cachedSkins' = cachedSkins
      /\ clientSlot' = [clientSlot EXCEPT ![r] = s]
      /\ toServer' = [toServer EXCEPT ![s] = NoMessages]
      /\ toClient' = [toClient EXCEPT ![r] = NoMessages]
  BY DEF RefuseClient, IsFirstFree
<1>3. guidData' = guidData
  BY <1>1, RefuseClaims DEF guidVars
<1>4. TypeInv'
  <2>1. NoMessages \in [Channels -> Queues]
    BY NoAnswer DEF NoMessages
  <2>2. QueuesTyped'
    BY <1>1, <1>2, <2>1 DEF QueuesTyped
  <2>3. PeersTyped' /\ SkinsTyped'
    BY <1>1, <1>2, ClientsRest DEF TypeInv, SkinsTyped
  <2> QED
    BY <2>2, <2>3 DEF TypeInv
<1>5. ASSUME NEW p \in Players, Attached(p)'
      PROVE  p # r /\ Attached(p) /\ clientSlot'[p] = clientSlot[p] /\ clientSlot[p] \in Slots \ {s}
  BY <1>1, <1>2, <1>5, TransportAssumption DEF Attached, Connected, ClaimInv, ClientsTyped
<1>6. ASSUME NEW q \in Players, NEW x \in Topics, Said(q, x)' PROVE Speaks(q, x)
  <2>1. Attached(q)'
    BY <1>6 DEF Said
  <2>2. Said(q, x)
    BY <1>5, <1>6, <2>1, ClientsRest, SaidBefore
  <2>3. Up(q, x)' = Up(q, x)
    BY <1>1, <1>2, <1>5, <2>1 DEF Up, QueuesTyped
  <2>4. Stored(x, myGuid[q])' = Stored(x, myGuid[q]) /\ myGuid'[q] = myGuid[q]
    BY <1>2, <1>3, ClientsRest DEF Stored
  <2> QED
    BY <1>1, <2>2, <2>3, <2>4, ClientsRest, SaysNothing
<1>7. ASSUME NEW p \in Players, NEW x \in Topics, NEW h \in Guids, Attached(p)'
      PROVE  Attached(p) /\ Hears(p, x, h)
  <2>1. Down(p, x)' = Down(p, x)
    BY <1>1, <1>2, <1>5, <1>7 DEF Down, QueuesTyped
  <2> QED
    BY <1>1, <1>5, <1>7, <2>1, ClientsRest, HearsNothing
<1> QED
  BY <1>4, <1>6, <1>7, QuietStep

\* A slot is dropped: what is said of it is about its GUID, which is nobody's then.
LEMMA DropAgrees ==
    ASSUME AgreementInv, ClaimInv', NEW s \in Slots, DropClient(s), UNCHANGED clientVars
    PROVE  AgreementInv'
<1> DEFINE g == clientGuidMap[s]
           msgs == <<SkinClearMessage(g)>>
<1>1. TypeInv /\ ClaimInv /\ QueuesTyped
  BY DEF AgreementInv, TypeInv
<1>2. Connected(s) /\ g \in Guids /\ g # NoGuid
  BY <1>1 DEF DropClient, ClaimInv, SessionInv, ConnectedHasGuid, GuidInv, MapTypeOK
<1>3. /\ ReleaseGuid(s) /\ clientSlot' = clientSlot
      /\ slotPlayer' = [slotPlayer EXCEPT ![s] = NoPlayer]
      /\ toServer' = [toServer EXCEPT ![s] = NoMessages]
      /\ cachedSkins' = [cachedSkins EXCEPT ![g] = Absent]
      /\ toClient' = Delivered(ToOthers(s, "Skin", msgs))
  BY <1>2 DEF DropClient, CloseSlot
<1>4. guidData' = guidData
  BY <1>3 DEF ReleaseGuid, guidVars
<1>5. msgs \in Queues /\ \A i \in DOMAIN msgs : msgs[i].guid = g
  <2>1. SkinClearMessage(g) \in Messages /\ SkinClearMessage(g).guid = g
    BY <1>2 DEF Messages, SkinClearMessage
  <2> QED
    BY <2>1, OneMessage
<1> HIDE DEF msgs
<1>6. /\ toClient' \in [Players -> [Channels -> Queues]]
      /\ \A p \in Players, c \in Channels :
             toClient'[p][c] =
                 IF Attached(p) /\ clientSlot[p] # s /\ c = "Skin" THEN toClient[p][c] \o msgs
                 ELSE toClient[p][c]
  <2>1. "Skin" \in Channels
    BY DEF Channels
  <2> QED
    BY <1>1, <1>3, <1>5, <2>1, DeliverView
<1>7. TypeInv'
  <2>1. NoMessages \in [Channels -> Queues]
    BY NoAnswer DEF NoMessages
  <2>2. QueuesTyped'
    BY <1>1, <1>3, <1>6, <2>1 DEF QueuesTyped
  <2>3. PeersTyped' /\ SkinsTyped'
    BY <1>1, <1>3, ClientsRest DEF TypeInv, SkinsTyped
  <2> QED
    BY <2>2, <2>3 DEF TypeInv
<1>8. ASSUME NEW p \in Players, Attached(p)' PROVE Attached(p) /\ clientSlot[p] \in Slots \ {s}
  BY <1>1, <1>3, <1>8, TransportAssumption
     DEF Attached, ClaimInv, ClientsTyped, SessionInv, SlotsTyped
<1>9. ASSUME NEW q \in Players, NEW x \in Topics, Said(q, x)'
      PROVE  Said(q, x) /\ myGuid[q] # g /\ myGuid[q] \in Guids /\ clientSlot[q] \in Slots \ {s}
  <2>1. Attached(q)'
    BY <1>9 DEF Said
  <2>2. Said(q, x)
    BY <1>8, <1>9, <2>1, ClientsRest, SaidBefore
  <2> QED
    BY <1>1, <1>8, <2>1, <2>2, HasOwnGuid DEF Said
<1>10. ASSUME NEW q \in Players, NEW x \in Topics, Said(q, x)' PROVE Speaks(q, x)
  <2>1. Up(q, x)' = Up(q, x)
    BY <1>1, <1>3, <1>9, <1>10 DEF Up, QueuesTyped
  <2>2. Stored(x, myGuid[q])' = Stored(x, myGuid[q]) /\ myGuid'[q] = myGuid[q]
    BY <1>1, <1>3, <1>4, <1>9, <1>10, ClientsRest DEF Stored, TypeInv, SkinsTyped
  <2> QED
    BY <1>1, <1>9, <1>10, <2>1, <2>2, ClientsRest, SaysNothing
<1>11. ASSUME NEW p \in Players, NEW q \in Players, NEW x \in Topics, NEW h \in Guids,
              Attached(p)', Said(q, x)', h = myGuid[q]
       PROVE  Attached(p) /\ Hears(p, x, h)
  <2>1. Attached(p) /\ clientSlot[p] # s /\ Shown(p, x, h)' = Shown(p, x, h) /\ h # g
    BY <1>8, <1>9, <1>11, ClientsRest
  <2>2. CASE ChannelOf(x) = "Skin"
    <3>1. Down(p, x)' = Down(p, x) \o msgs
      BY <1>6, <2>1, <2>2 DEF Down, Channels
    <3>2. Silent(msgs, About(x, h))
      BY <1>5, <2>1, OthersSilent
    <3> QED
      BY <1>5, <2>1, <3>1, <3>2 DEF Hears
  <2>3. CASE ChannelOf(x) # "Skin"
    <3>1. Down(p, x)' = Down(p, x)
      BY <1>1, <1>6, <2>3, QueuesOfTopics DEF Down
    <3> QED
      BY <1>1, <2>1, <3>1, HearsNothing
  <2> QED
    BY <2>2, <2>3
<1> QED
  BY <1>7, <1>10, <1>11, QuietStep

\* A client leaves: it forgets what it was told and what it has said.
LEMMA LeaveAgrees ==
    ASSUME AgreementInv, ClaimInv', NEW r \in Players, Disconnect(r), UNCHANGED serverVars
    PROVE  AgreementInv'
<1>1. TypeInv /\ ClaimInv /\ QueuesTyped
  BY DEF AgreementInv, TypeInv
<1>2. /\ clientSlot' = [clientSlot EXCEPT ![r] = NoSlot]
      /\ toClient' = [toClient EXCEPT ![r] = NoMessages]
      /\ myGuid' = [myGuid EXCEPT ![r] = NoGuid]
      /\ localSkinUploadAttempted' = [localSkinUploadAttempted EXCEPT ![r] = FALSE]
      /\ pendingProfiles' = [pendingProfiles EXCEPT ![r] = NoProfiles]
      /\ UNCHANGED <<slotPlayer, toServer, myProfile, playerTextureNames, playerSkinFiles,
                     playerRingState>>
  BY DEF Disconnect, CloseClient, ringVars
<1>3. UNCHANGED <<guidData, cachedSkins>>
  BY DEF serverVars
<1>4. /\ myGuid \in [Players -> Guids \cup {NoGuid}]
      /\ localSkinUploadAttempted \in [Players -> BOOLEAN]
      /\ pendingProfiles \in [Players -> [Guids -> [Fields -> Values \cup {Unknown}]]]
      /\ clientSlot \in [Players -> Slots \cup {NoSlot}]
  BY <1>1 DEF TypeInv, PeersTyped, ClaimInv, ClientsTyped
<1>5. TypeInv'
  <2>1. NoMessages \in [Channels -> Queues]
    BY NoAnswer DEF NoMessages
  <2>2. QueuesTyped'
    BY <1>1, <1>2, <2>1 DEF QueuesTyped
  <2>3. NoProfiles \in [Guids -> [Fields -> Values \cup {Unknown}]]
    BY DEF NoProfiles
  <2>4. PeersTyped' /\ SkinsTyped'
    BY <1>1, <1>2, <1>3, <2>3 DEF TypeInv, PeersTyped, SkinsTyped
  <2> QED
    BY <2>2, <2>4 DEF TypeInv
<1>6. ASSUME NEW p \in Players, Attached(p)'
      PROVE  p # r /\ Attached(p) /\ clientSlot'[p] = clientSlot[p]
  BY <1>2, <1>4, <1>6 DEF Attached
<1>7. ASSUME NEW q \in Players, NEW x \in Topics, Said(q, x)' PROVE Speaks(q, x)
  <2>1. q # r /\ Attached(q) /\ clientSlot'[q] = clientSlot[q]
    BY <1>6, <1>7 DEF Said
  <2>2. /\ myGuid'[q] = myGuid[q] /\ Meant(q, x)' = Meant(q, x)
        /\ localSkinUploadAttempted'[q] = localSkinUploadAttempted[q]
    BY <1>2, <1>4, <2>1 DEF Meant
  <2>3. Said(q, x)
    BY <1>2, <1>7, <2>1, <2>2 DEF Said
  <2>4. Up(q, x)' = Up(q, x) /\ Stored(x, myGuid[q])' = Stored(x, myGuid[q])
    BY <1>2, <1>3, <2>1, <2>2 DEF Up, Stored
  <2> QED
    BY <1>1, <2>2, <2>3, <2>4, SaysNothing
<1>8. ASSUME NEW p \in Players, NEW x \in Topics, NEW h \in Guids, Attached(p)'
      PROVE  Attached(p) /\ Hears(p, x, h)
  <2>1. p # r /\ Attached(p)
    BY <1>6, <1>8
  <2>2. Down(p, x)' = Down(p, x) /\ Shown(p, x, h)' = Shown(p, x, h)
    BY <1>1, <1>2, <1>4, <2>1 DEF Down, Shown, QueuesTyped
  <2> QED
    BY <1>1, <2>1, <2>2, HearsNothing
<1> QED
  BY <1>5, <1>7, <1>8, QuietStep

\* A client takes a message; if it is its GUID, it says all of its profile under it.
LEMMA ClientReceiveAgrees ==
    ASSUME AgreementInv, ClaimInv', NEW r \in Players, ClientReceive(r), UNCHANGED serverVars
    PROVE  AgreementInv'
<1>1. TypeInv /\ ClaimInv /\ QueuesTyped /\ PeersTyped'
  BY ClientEffect DEF AgreementInv, TypeInv
<1>2. PICK ch \in Channels, m \in Messages, reply \in Queues : TakeEffect(r, m, ch, reply)
  BY <1>1, ClientEffect
<1>3. /\ toClient[r][ch] # <<>> /\ m = Head(toClient[r][ch])
      /\ toClient' = [toClient EXCEPT ![r][ch] = Tail(toClient[r][ch])]
      /\ toServer' = Uploaded(r, "Gameplay", reply)
      /\ UNCHANGED <<slotPlayer, clientSlot, myProfile>>
      /\ Answers(r, m, reply)
      /\ \A x \in Topics, h \in Guids : Shows(r, m, ch, x, h)
      /\ OthersShown(r)
  BY <1>2 DEF TakeEffect, Take
<1>4. UNCHANGED <<guidData, cachedSkins>>
  BY DEF serverVars
<1>5. /\ toServer' \in [Slots -> [Channels -> Queues]]
      /\ \A q \in Players, c \in Channels : Attached(q) =>
             toServer'[clientSlot[q]][c] =
                 IF q = r /\ c = "Gameplay" THEN toServer[clientSlot[q]][c] \o reply
                 ELSE toServer[clientSlot[q]][c]
  <2>1. "Gameplay" \in Channels
    BY DEF Channels
  <2> QED
    BY <1>1, <1>3, <2>1, UploadView
<1>6. TypeInv'
  <2>1. Tail(toClient[r][ch]) \in Queues
    <3>1. toClient[r][ch] \in Queues
      BY <1>1 DEF QueuesTyped
    <3> QED
      BY <1>3, <3>1, HeadTailProperties DEF Queues
  <2>2. QueuesTyped'
    BY <1>1, <1>3, <1>5, <2>1 DEF QueuesTyped
  <2>3. SkinsTyped'
    BY <1>1, <1>4 DEF TypeInv, SkinsTyped
  <2> QED
    BY <1>1, <2>2, <2>3 DEF TypeInv
<1>7. \A p \in Players : Attached(p)' <=> Attached(p)
  BY <1>3 DEF Attached
<1>8. /\ myGuid \in [Players -> Guids \cup {NoGuid}]
      /\ localSkinUploadAttempted \in [Players -> BOOLEAN]
      /\ myProfile \in [Players -> [Fields -> Values]]
  BY <1>1 DEF TypeInv, PeersTyped, ClaimInv, ClientsTyped
<1>9. ASSUME NEW q \in Players, NEW x \in Topics, Said(q, x)' PROVE Speaks(q, x)
  <2>1. Attached(q) /\ Up(q, x) \in Queues /\ ChannelOf(x) \in Channels
    BY <1>1, <1>7, <1>9, QueuesOfTopics DEF Said
  <2>2. Meant(q, x)' = Meant(q, x)
    BY <1>3 DEF Meant
  <2>3. Up(q, x)' = IF q = r /\ ChannelOf(x) = "Gameplay" THEN Up(q, x) \o reply ELSE Up(q, x)
    BY <1>3, <1>5, <2>1 DEF Up
  <2>4. CASE /\ myGuid'[q] = myGuid[q]
             /\ localSkinUploadAttempted'[q] = localSkinUploadAttempted[q]
             /\ q = r => reply = <<>>
    <3>1. Said(q, x)
      BY <1>3, <1>9, <2>1, <2>4 DEF Said
    <3>2. Up(q, x)' = Up(q, x)
      BY <2>1, <2>3, <2>4 DEF Queues
    <3>3. Stored(x, myGuid[q])' = Stored(x, myGuid[q])
      BY <1>4, <2>4 DEF Stored
    <3> QED
      BY <1>1, <2>2, <2>4, <3>1, <3>2, <3>3, SaysNothing
  <2>5. CASE /\ q = r /\ reply = Identity(m.guid, myProfile[r])
             /\ myGuid' = [myGuid EXCEPT ![r] = m.guid]
             /\ localSkinUploadAttempted' = [localSkinUploadAttempted EXCEPT ![r] = FALSE]
    <3>1. x \in Fields
      BY <1>8, <1>9, <2>5 DEF Said
    <3>2. m.guid \in Guids /\ myGuid'[q] = m.guid
      BY <1>8, <2>5, MessageParts
    <3>3. LastIn(reply, About(x, m.guid), {Word(x, m.guid, myProfile[r][x])})
      BY <1>8, <2>5, <3>1, <3>2, IdentitySays
    <3>4. Meant(q, x)' = myProfile[r][x]
      BY <2>2, <2>5, <3>1 DEF Meant
    <3>5. Up(q, x)' = Up(q, x) \o reply
      BY <2>3, <2>5, <3>1 DEF ChannelOf
    <3> QED
      BY <2>1, <3>2, <3>3, <3>4, <3>5 DEF Speaks
  <2> QED
    BY <1>3, <1>8, <2>4, <2>5 DEF Answers
<1>10. ASSUME NEW p \in Players, NEW x \in Topics, NEW h \in Guids PROVE Hears(p, x, h)
  <2>1. ChannelOf(x) \in Channels
    BY <1>1, QueuesOfTopics
  <2>2. CASE p = r /\ ChannelOf(x) = ch
    <3>1. Down(p, x) # <<>> /\ Head(Down(p, x)) = m /\ Down(p, x)' = Tail(Down(p, x))
      BY <1>1, <1>3, <2>2 DEF Down, QueuesTyped
    <3>2. Shows(p, m, ch, x, h)
      BY <1>3, <2>2
    <3> QED
      BY <2>2, <3>1, <3>2 DEF Shows, Hears
  <2>3. CASE ~(p = r /\ ChannelOf(x) = ch)
    <3>1. Down(p, x)' = Down(p, x)
      BY <1>1, <1>3, <2>1, <2>3 DEF Down, QueuesTyped
    <3>2. Shown(p, x, h)' = Shown(p, x, h)
      BY <1>3, <2>3 DEF Shows, OthersShown
    <3> QED
      BY <1>1, <3>1, <3>2, HearsNothing
  <2> QED
    BY <2>2, <2>3
<1> QED
  BY <1>6, <1>7, <1>9, <1>10, QuietStep

\* Two who are there have different GUIDs.
LEMMA OthersGuid ==
    ASSUME TypeInv, NEW p \in Players, NEW q \in Players, p # q, Attached(p), Attached(q),
           myGuid[q] # NoGuid
    PROVE  myGuid[q] # myGuid[p]
<1>1. slotPlayer[clientSlot[q]] = q /\ \A s \in Slots : clientGuidMap[s] = myGuid[q] => s = clientSlot[q]
  BY HasOwnGuid
<1>2. ASSUME myGuid[q] = myGuid[p] PROVE FALSE
  <2>1. /\ clientSlot[p] \in Slots /\ slotPlayer[clientSlot[p]] = p
        /\ myGuid[q] = clientGuidMap[clientSlot[p]]
    BY <1>2, HasOwnGuid
  <2> QED
    BY <1>1, <2>1
<1> QED
  BY <1>2

\* A client says something of its own, and shows nothing else of its peers.
LEMMA SendAgrees ==
    ASSUME AgreementInv, ClaimInv', PeersTyped', NEW r \in Players, NEW ch \in Channels,
           NEW msgs \in Queues, Send(r, ch, msgs), UNCHANGED <<serverVars, myGuid>>,
           \A q \in Players, x \in Topics : Said(q, x)' =>
               \/ /\ Said(q, x) /\ Meant(q, x)' = Meant(q, x)
                  /\ q = r /\ ChannelOf(x) = ch => Silent(msgs, About(x, myGuid[q]))
               \/ /\ q = r /\ ChannelOf(x) = ch
                  /\ LastIn(msgs, About(x, myGuid[q]), {Word(x, myGuid[q], Meant(q, x)')}),
           \A p \in Players, x \in Topics, h \in Guids :
               h # myGuid[p] => Shown(p, x, h)' = Shown(p, x, h)
    PROVE  AgreementInv'
<1>1. TypeInv /\ QueuesTyped
  BY DEF AgreementInv, TypeInv
<1>2. toServer' = Uploaded(r, ch, msgs) /\ UNCHANGED <<slotPlayer, clientSlot, toClient>>
  BY DEF Send
<1>3. UNCHANGED <<guidData, cachedSkins>>
  BY DEF serverVars
<1>4. /\ toServer' \in [Slots -> [Channels -> Queues]]
      /\ \A q \in Players, c \in Channels : Attached(q) =>
             toServer'[clientSlot[q]][c] =
                 IF q = r /\ c = ch THEN toServer[clientSlot[q]][c] \o msgs
                 ELSE toServer[clientSlot[q]][c]
  BY <1>1, <1>2, UploadView
<1>5. TypeInv'
  BY <1>1, <1>2, <1>3, <1>4 DEF TypeInv, QueuesTyped, SkinsTyped
<1>6. \A p \in Players : Attached(p)' <=> Attached(p)
  BY <1>2 DEF Attached
<1>7. ASSUME NEW q \in Players, NEW x \in Topics, Said(q, x)' PROVE Speaks(q, x)
  <2>1. Attached(q) /\ ChannelOf(x) \in Channels
    BY <1>1, <1>6, <1>7, QueuesOfTopics DEF Said
  <2>2. Up(q, x)' = IF q = r /\ ChannelOf(x) = ch THEN Up(q, x) \o msgs ELSE Up(q, x)
    BY <1>2, <1>4, <2>1 DEF Up
  <2>3. Stored(x, myGuid[q])' = Stored(x, myGuid[q])
    BY <1>3 DEF Stored
  <2>4. CASE ~(q = r /\ ChannelOf(x) = ch)
    BY <1>1, <1>7, <2>2, <2>3, <2>4, SaysNothing
  <2>5. CASE q = r /\ ChannelOf(x) = ch
    BY <1>7, <2>1, <2>2, <2>3, <2>5 DEF Speaks
  <2> QED
    BY <2>4, <2>5
<1>8. ASSUME NEW p \in Players, NEW q \in Players, NEW x \in Topics, NEW h \in Guids,
             p # q, Attached(p)', Said(q, x), h = myGuid[q]
      PROVE  Attached(p) /\ Hears(p, x, h)
  <2>1. Attached(p)
    BY <1>6, <1>8
  <2>2. h # myGuid[p]
    BY <1>1, <1>8, <2>1, OthersGuid DEF Said
  <2>3. Down(p, x)' = Down(p, x) /\ Shown(p, x, h)' = Shown(p, x, h)
    BY <1>2, <2>2 DEF Down
  <2> QED
    BY <1>1, <2>1, <2>3, HearsNothing
<1> QED
  BY <1>5, <1>7, <1>8, QuietStep

\* A client says nothing, and shows nothing else of its peers.
LEMMA QuietAgrees ==
    ASSUME AgreementInv, ClaimInv', PeersTyped', UNCHANGED <<serverVars, transportVars, myGuid>>,
           \A q \in Players, x \in Topics : Said(q, x)' =>
               Said(q, x) /\ Meant(q, x)' = Meant(q, x),
           \A p \in Players, x \in Topics, h \in Guids :
               h # myGuid[p] => Shown(p, x, h)' = Shown(p, x, h)
    PROVE  AgreementInv'
<1>1. TypeInv /\ QueuesTyped
  BY DEF AgreementInv, TypeInv
<1>2. UNCHANGED <<slotPlayer, clientSlot, toServer, toClient, guidData, cachedSkins>>
  BY DEF serverVars, transportVars
<1>3. TypeInv'
  BY <1>1, <1>2 DEF TypeInv, QueuesTyped, SkinsTyped
<1>4. ASSUME NEW q \in Players, NEW x \in Topics, Said(q, x)' PROVE Speaks(q, x)
  <2>1. Up(q, x)' = Up(q, x) /\ Stored(x, myGuid[q])' = Stored(x, myGuid[q])
    BY <1>2 DEF Up, Stored
  <2> QED
    BY <1>1, <1>4, <2>1, SaysNothing
<1>5. ASSUME NEW p \in Players, NEW q \in Players, NEW x \in Topics, NEW h \in Guids,
             p # q, Attached(p)', Said(q, x), h = myGuid[q]
      PROVE  Attached(p) /\ Hears(p, x, h)
  <2>1. Attached(p)
    BY <1>2, <1>5 DEF Attached
  <2>2. h # myGuid[p]
    BY <1>1, <1>5, <2>1, OthersGuid DEF Said
  <2>3. Down(p, x)' = Down(p, x) /\ Shown(p, x, h)' = Shown(p, x, h)
    BY <1>2, <2>2 DEF Down
  <2> QED
    BY <1>1, <2>1, <2>3, HearsNothing
<1> QED
  BY <1>3, <1>4, <1>5, QuietStep

\* The skin is said with its upload, of which the file is the last message.
LEMMA UploadSkinAgrees ==
    ASSUME AgreementInv, ClaimInv', NEW r \in Players, SendLocalSkinData(r), UNCHANGED serverVars
    PROVE  AgreementInv'
<1>1. TypeInv /\ PeersTyped
  BY DEF AgreementInv, TypeInv
<1>2. /\ myGuid[r] \in Guids /\ UNCHANGED <<myGuid, myProfile, pendingProfiles>>
      /\ localSkinUploadAttempted' = [localSkinUploadAttempted EXCEPT ![r] = TRUE]
      /\ playerRingState' = playerRingState
  BY <1>1 DEF SendLocalSkinData, PeersTyped, profileVars, ringVars
<1>3. \A q \in Players, x \in Topics : Meant(q, x)' = Meant(q, x)
  BY <1>2 DEF Meant
<1>4. CASE LocalSkin[r] = NoSkin
  <2>1. UNCHANGED <<transportVars, playerTextureNames, playerSkinFiles>>
    BY <1>4 DEF SendLocalSkinData
  <2>2. PeersTyped'
    BY <1>1, <1>2, <2>1 DEF PeersTyped
  <2>3. \A q \in Players, x \in Topics : Said(q, x)' => Said(q, x)
    BY <1>1, <1>2, <1>4, <2>1 DEF Said, Attached, transportVars, PeersTyped
  <2>4. \A p \in Players, x \in Topics, h \in Guids : Shown(p, x, h)' = Shown(p, x, h)
    BY <1>2, <2>1 DEF Shown
  <2> QED
    BY <1>2, <1>3, <2>1, <2>2, <2>3, <2>4, QuietAgrees
<1>5. CASE LocalSkin[r] # NoSkin
  <2> DEFINE g == myGuid[r]
             announcement == SkinAnnouncementMessage(g)
             file == SkinFileTransferMessage(g, LocalSkin[r])
             msgs == <<announcement, file>>
  <2>1. /\ playerTextureNames' = [playerTextureNames EXCEPT ![r] = @ \cup {g}]
        /\ playerSkinFiles' = [playerSkinFiles EXCEPT ![r][g] = LocalSkin[r]]
        /\ Send(r, "Skin", msgs)
    BY <1>5 DEF SendLocalSkinData
  <2>2. LocalSkin[r] \in Skins
    BY <1>5, LocalSkinAssumption
  <2>3. PeersTyped'
    BY <1>1, <1>2, <2>1, <2>2 DEF PeersTyped
  <2>4. announcement \in Messages /\ file \in Messages
    BY <1>2, <2>2 DEF Messages, SkinAnnouncementMessage, SkinFileTransferMessage
  <2>5. msgs \in Queues /\ \A K : LastIn(msgs, K, {file})
    BY <2>4, TwoMessages
  <2>6. \A p \in Players, x \in Topics, h \in Guids :
            h # myGuid[p] => Shown(p, x, h)' = Shown(p, x, h)
    BY <1>1, <1>2, <2>1 DEF Shown, PeersTyped
  <2>7. ASSUME NEW q \in Players, NEW x \in Topics, Said(q, x)'
        PROVE  \/ /\ Said(q, x) /\ Meant(q, x)' = Meant(q, x)
                  /\ ~(q = r /\ ChannelOf(x) = "Skin")
               \/ /\ q = r /\ ChannelOf(x) = "Skin"
                  /\ LastIn(msgs, About(x, myGuid[q]), {Word(x, myGuid[q], Meant(q, x)')})
    <3>1. CASE q = r /\ ChannelOf(x) = "Skin"
      <4>1. x \notin Fields
        BY <3>1 DEF ChannelOf
      <4>2. Word(x, myGuid[q], Meant(q, x)') = file
        BY <1>3, <3>1, <4>1 DEF Word, Meant
      <4> QED
        BY <2>5, <3>1, <4>2
    <3>2. CASE ~(q = r /\ ChannelOf(x) = "Skin")
      <4>1. q = r => x \in Fields
        BY <3>2 DEF ChannelOf
      <4>2. Attached(q)
        BY <2>1, <2>7 DEF Said, Send, Attached
      <4> QED
        BY <1>1, <1>2, <1>3, <2>7, <3>2, <4>1, <4>2 DEF Said, PeersTyped
    <3> QED
      BY <3>1, <3>2
  <2>8. "Skin" \in Channels
    BY DEF Channels
  <2> HIDE DEF msgs
  <2> QED
    BY <1>2, <2>1, <2>3, <2>5, <2>6, <2>7, <2>8, SendAgrees
<1> QED
  BY <1>4, <1>5

\* A new text is said at once; one that is refused is kept, and not meant to be seen.
LEMMA RenameAgrees ==
    ASSUME AgreementInv, ClaimInv', NEW r \in Players, NEW f \in Fields, NEW v \in Values,
           ChangeProfile(r, f, v), UNCHANGED serverVars
    PROVE  AgreementInv'
<1>1. TypeInv /\ PeersTyped /\ myProfile \in [Players -> [Fields -> Values]]
  BY DEF AgreementInv, TypeInv, ClaimInv, ClientsTyped
<1>2. /\ myGuid[r] \in Guids /\ UNCHANGED <<myGuid, pendingProfiles, skinVars, ringVars>>
      /\ myProfile' = [myProfile EXCEPT ![r][f] = v]
  BY <1>1 DEF ChangeProfile, PeersTyped
<1>3. /\ PeersTyped'
      /\ \A p \in Players, x \in Topics, h \in Guids : Shown(p, x, h)' = Shown(p, x, h)
  BY <1>1, <1>2 DEF PeersTyped, Shown, skinVars, ringVars
<1>4. \A q \in Players, x \in Topics : ~(q = r /\ x = f) =>
          /\ Meant(q, x)' = Meant(q, x)
          /\ x \in Fields => myProfile'[q][x] = myProfile[q][x]
  BY <1>1, <1>2 DEF Meant
<1>5. myProfile'[r][f] = v
  BY <1>1, <1>2
<1>6. CASE v = EmptyValue
  <2>1. UNCHANGED transportVars
    BY <1>6 DEF ChangeProfile
  <2>2. \A q \in Players, x \in Topics : Said(q, x)' =>
            Said(q, x) /\ Meant(q, x)' = Meant(q, x)
    BY <1>2, <1>4, <1>5, <1>6, <2>1 DEF Said, Attached, transportVars, skinVars
  <2> QED
    BY <1>2, <1>3, <2>1, <2>2, QuietAgrees
<1>7. CASE v # EmptyValue
  <2> DEFINE g == myGuid[r]
             m == ProfileMessage(f, g, v)
             msgs == <<m>>
  <2>1. Send(r, "Gameplay", msgs)
    BY <1>7 DEF ChangeProfile
  <2>2. m \in Messages /\ m.type = f /\ m.guid = g
    BY <1>2 DEF Messages, ProfileMessage
  <2>3. /\ msgs \in Queues /\ \A K : LastIn(msgs, K, {m})
        /\ \A K : m \notin K => Silent(msgs, K)
    BY <2>2, OneMessage
  <2>4. ASSUME NEW q \in Players, NEW x \in Topics, Said(q, x)'
        PROVE  \/ /\ Said(q, x) /\ Meant(q, x)' = Meant(q, x)
                  /\ q = r /\ ChannelOf(x) = "Gameplay" => Silent(msgs, About(x, myGuid[q]))
               \/ /\ q = r /\ ChannelOf(x) = "Gameplay"
                  /\ LastIn(msgs, About(x, myGuid[q]), {Word(x, myGuid[q], Meant(q, x)')})
    <3>1. CASE q = r /\ x = f
      <4>1. ChannelOf(x) = "Gameplay" /\ Word(x, myGuid[q], Meant(q, x)') = m
        BY <1>5, <3>1 DEF ChannelOf, Word, Meant
      <4> QED
        BY <2>3, <3>1, <4>1
    <3>2. CASE ~(q = r /\ x = f)
      <4>1. Attached(q)
        BY <2>1, <2>4 DEF Said, Send, Attached
      <4>2. Said(q, x) /\ Meant(q, x)' = Meant(q, x)
        BY <1>2, <1>4, <2>4, <3>2, <4>1 DEF Said, skinVars
      <4>3. q = r /\ ChannelOf(x) = "Gameplay" => m \notin About(x, myGuid[q])
        <5>1. q = r /\ ChannelOf(x) = "Gameplay" => x \in Fields /\ m.type # x
          BY <2>2, <3>2 DEF ChannelOf
        <5> HIDE DEF m
        <5> QED
          BY <2>2, <5>1, NotAbout
      <4> HIDE DEF msgs, m
      <4> QED
        BY <2>3, <4>2, <4>3
    <3> QED
      BY <3>1, <3>2
  <2>5. "Gameplay" \in Channels
    BY DEF Channels
  <2> HIDE DEF msgs
  <2> QED
    BY <1>2, <1>3, <2>1, <2>3, <2>4, <2>5, SendAgrees
<1> QED
  BY <1>6, <1>7

\* The ring is not one of the topics.
LEMMA SendRingAgrees ==
    ASSUME AgreementInv, ClaimInv', NEW r \in Players, SendRingSync(r), UNCHANGED serverVars
    PROVE  AgreementInv'
<1> DEFINE m == RingSyncMessage(myGuid[r], lastLocalRing[r])
           msgs == <<m>>
<1>1. TypeInv /\ PeersTyped /\ lastLocalRing[r] \in RingStates
  BY DEF AgreementInv, TypeInv, ClaimInv, ClientsTyped, SendRingSync
<1>2. /\ myGuid[r] \in Guids /\ Send(r, "Gameplay", msgs)
      /\ UNCHANGED <<myGuid, profileVars, skinVars, playerRingState>>
  BY <1>1 DEF SendRingSync, PeersTyped
<1>3. /\ PeersTyped'
      /\ \A q \in Players, x \in Topics : Meant(q, x)' = Meant(q, x)
      /\ \A p \in Players, x \in Topics, h \in Guids : Shown(p, x, h)' = Shown(p, x, h)
  BY <1>1, <1>2 DEF PeersTyped, Meant, Shown, profileVars, skinVars
<1>4. m \in Messages /\ m.type = "RING_SYNC"
  BY <1>1, <1>2 DEF Messages, RingSyncMessage
<1> HIDE DEF m
<1>5. msgs \in Queues /\ \A x \in Topics : \A h : Silent(msgs, About(x, h))
  BY <1>4, OneMessage, NotAbout
<1>6. \A q \in Players, x \in Topics : Said(q, x)' => Said(q, x)
  BY <1>2 DEF Said, Attached, Send, profileVars, skinVars
<1>7. "Gameplay" \in Channels
  BY DEF Channels
<1> HIDE DEF msgs
<1> QED
  BY <1>2, <1>3, <1>5, <1>6, <1>7, SendAgrees

LEMMA RingFrameAgrees ==
    ASSUME AgreementInv, ClaimInv', NEW r \in Players, NEW ring \in RingStates,
           DetectLocalRingChange(r, ring), UNCHANGED serverVars
    PROVE  AgreementInv'
<1>1. UNCHANGED <<transportVars, myGuid, profileVars, skinVars, playerRingState>>
  BY DEF DetectLocalRingChange
<1>2. PeersTyped'
  BY <1>1 DEF AgreementInv, TypeInv, PeersTyped, profileVars, skinVars
<1>3. \A q \in Players, x \in Topics :
          Meant(q, x)' = Meant(q, x) /\ (Said(q, x)' => Said(q, x))
  BY <1>1 DEF Meant, Said, Attached, transportVars, profileVars, skinVars
<1>4. \A p \in Players, x \in Topics, h \in Guids : Shown(p, x, h)' = Shown(p, x, h)
  BY <1>1 DEF Shown, profileVars, skinVars
<1> QED
  BY <1>1, <1>2, <1>3, <1>4, QuietAgrees

-----------------------------------------------------------------------------
(* The theorems.                                                            *)

LEMMA AgreementInit == Init => AgreementInv
<1> SUFFICES ASSUME Init PROVE AgreementInv
  OBVIOUS
<1>1. TypeInv
  BY TypeInitInv
<1>2. \A q \in Players : ~Attached(q)
  BY DEF Init, TransportInit, Attached
<1> QED
  BY <1>1, <1>2 DEF AgreementInv, Said

LEMMA AgreementStep == AgreementInv /\ [Next]_vars => AgreementInv'
<1> SUFFICES ASSUME AgreementInv, [Next]_vars PROVE AgreementInv'
  OBVIOUS
<1>1. ClaimInv'
  BY ClaimStep DEF AgreementInv, TypeInv
<1>2. ASSUME NEW p \in Players, NEW s \in Slots, Accept(p, s) \/ Refuse(p, s)
      PROVE  AgreementInv'
  BY <1>1, <1>2, AcceptAgrees, RefuseAgrees DEF Accept, Refuse
<1>3. ASSUME NEW s \in Slots, Drop(s) \/ ServerStep(s)
      PROVE  AgreementInv'
  BY <1>1, <1>3, DropAgrees, ServerAgrees DEF Drop, ServerStep
<1>4. ASSUME NEW p \in Players, Leave(p) \/ ClientStep(p)
      PROVE  AgreementInv'
  BY <1>1, <1>4, LeaveAgrees, ClientReceiveAgrees DEF Leave, ClientStep
<1>5. ASSUME NEW p \in Players, UploadSkin(p) \/ SendRing(p)
      PROVE  AgreementInv'
  BY <1>1, <1>5, UploadSkinAgrees, SendRingAgrees DEF UploadSkin, SendRing
<1>6. ASSUME NEW p \in Players, Rename(p) PROVE AgreementInv'
  BY <1>1, <1>6, RenameAgrees DEF Rename
<1>7. ASSUME NEW p \in Players, RingFrame(p) PROVE AgreementInv'
  BY <1>1, <1>7, RingFrameAgrees DEF RingFrame
<1>8. CASE UNCHANGED vars
  <2>1. UNCHANGED <<serverVars, transportVars, clientVars>>
    BY <1>8 DEF vars
  <2>2. \A q \in Players, x \in Topics : Said(q, x)' => Said(q, x)
    BY <2>1 DEF Said, Attached, transportVars, clientVars, profileVars, skinVars
  <2> QED
    BY <1>1, <2>1, <2>2, ClientsRest, QuietAgrees DEF AgreementInv, TypeInv, clientVars
<1> QED
  BY <1>2, <1>3, <1>4, <1>5, <1>6, <1>7, <1>8 DEF Next

\* Every variable of the server, the clients and the queues between them keeps its
\* type: no handler of server.cpp or client.cpp stores or sends anything else.
THEOREM TypeOKAlways == Spec => []TypeOK
<1>1. AgreementInv => TypeOK
  BY TypeInvTypes DEF AgreementInv
<1> QED
  BY AgreementInit, AgreementStep, <1>1, PTL DEF Spec

\* What p shows of a topic once it has heard everything.
LEMMA HeardAgrees ==
    ASSUME AgreementInv, NEW p \in Players, NEW q \in Players, NEW x \in Topics, Said(q, x),
           Heard(p, q, ChannelOf(x))
    PROVE  Shown(p, x, myGuid[q]) = Meant(q, x)
<1>1. Up(q, x) = <<>> /\ Down(p, x) = <<>> /\ PeerGets(p, q, x)
  BY DEF Heard, Up, Down, AgreementInv
<1>2. \A K, V : ~LastIn(<<>>, K, V)
  BY DEF LastIn
<1> QED
  BY <1>1, <1>2 DEF PeerGets, Reaches

\* Nicknames and statuses agree: whoever came first, whatever the GUID's earlier holders
\* were called, and however often they were changed on the way (server.cpp:340-384,
\* client.cpp:3600-3660).
THEOREM ProfilesAgreeAlways == Spec => []ProfilesAgree
<1>1. ASSUME AgreementInv, NEW p \in Players, NEW q \in Players, NEW f \in Fields,
             Heard(p, q, "Gameplay"), myProfile[q][f] # EmptyValue
      PROVE  pendingProfiles[p][myGuid[q]][f] = myProfile[q][f]
  <2>1. f \in Topics /\ ChannelOf(f) = "Gameplay" /\ Said(q, f)
    BY <1>1 DEF Topics, ChannelOf, Heard, Said
  <2>2. Shown(p, f, myGuid[q]) = Meant(q, f)
    BY <1>1, <2>1, HeardAgrees
  <2> QED
    BY <2>2 DEF Shown, Meant
<1>2. AgreementInv => ProfilesAgree
  BY <1>1 DEF ProfilesAgree
<1> QED
  BY AgreementInit, AgreementStep, <1>2, PTL DEF Spec

\* Skins agree: the upload, the replay to who comes later and the clearing of a leaver's
\* skin never leave a player without the skin a peer has configured (server.cpp:340-401,
\* 887-932).
THEOREM SkinsAgreeAlways == Spec => []SkinsAgree
<1>1. ASSUME AgreementInv, NEW p \in Players, NEW q \in Players, Heard(p, q, "Skin"),
             localSkinUploadAttempted[q], LocalSkin[q] # NoSkin
      PROVE  /\ playerSkinFiles[p][myGuid[q]] = LocalSkin[q]
             /\ myGuid[q] \in playerTextureNames[p]
  <2> DEFINE x == "SKIN_FILE_TRANSFER"
  <2>1. x \in Topics /\ x \notin Fields
    BY FieldsApart DEF Topics
  <2>2. ChannelOf(x) = "Skin" /\ Said(q, x)
    BY <1>1, <2>1 DEF ChannelOf, Heard, Said
  <2>3. Shown(p, x, myGuid[q]) = Meant(q, x)
    BY <1>1, <2>1, <2>2, HeardAgrees
  <2> QED
    BY <1>1, <2>1, <2>3 DEF Shown, Meant
<1>2. AgreementInv => SkinsAgree
  BY <1>1 DEF SkinsAgree
<1> QED
  BY AgreementInit, AgreementStep, <1>2, PTL DEF Spec
=============================================================================
