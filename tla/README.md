# A verification of the Hobbit Synchrony

The Hobbit Synchrony turns *The Hobbit* (2003) into a multiplayer game: a DLL
inside every player's game (`client.cpp`) and one relay (`server.cpp`) exchange
messages over a library for reliable-ordered channels (`source/`, `reliable/`,
`netcode/`).  This directory holds TLA+ specifications of what the program does,
TLC runs that check them on small instances, and TLAPS proofs about them for
every size.

## 1. The system

### 1.1 Processes and threads

| process, thread | runs | touches |
|---|---|---|
| server, main thread | `serverMain`: send, receive, drain every slot's channels, advance time (which times out slots) | GUID allocator, skin cache |
| server, token thread | `ConnectTokenServer::Run` | the private key only |
| client, network thread | `clientMain`: receive and dispatch, detect what changed in the world, send | everything the client keeps |
| client, game thread | `hook_bilbo::OnAdvanceLogic` and the hooks: applies what the network thread queued, notices what the player does | queues under critical sections, atomics |
| client, chat overlay | `ChatMessage`, `/name`, `/status`, ... | own profile; sends messages itself |

Server handlers run to completion on one thread, so a handler is one step of a
model.  On a client the network and the game thread interleave at the critical
sections, so that a handler is cut where it leaves one.

### 1.2 Components

The complete list, with what is modelled of each, is `components` in
`PROJECT.json`.

* **GUID allocator** (`GuidManager.*`).  State: the stack of free GUIDs, the
  slot-to-GUID map, the profile of each GUID.  Operations: assign, release, read
  and write a profile.  Correct when no GUID is lent twice, lost, or moved under
  a client that holds it.
* **Server sessions** (`server.cpp`).  State: connected slots (in netcode), the
  skin cache.  Operations: connect handler, disconnect handler (also called from
  inside the connect handler), one handler per message.  Correct when slots,
  GUIDs and cache agree and a newcomer is told what the others were told before.
* **Client sessions** (`client.cpp`).  State: own GUID and profile, the peers'
  names, skins and ring states by GUID.  Operations: connect, lose, reconnect,
  one handler per message, upload, `/name`, `/status`, ring.  Correct when
  nothing of an earlier session is acted upon in a later one and peers see each
  other as they are.
* **World synchronisation** (`client.cpp`, relayed by `server.cpp`): chests,
  pickups, triggers, switches, web walls, stones, hoistables and push blocks,
  animation frames, cutscenes, spawned objects and effects.  State per
  client: the world as its game holds it, a cache of what was seen last, queues
  between the two threads.  Correct when an event of one player happens once on
  every other and is not sent back.
* **NPCs** (`client.cpp`, `NPC.*`): the *host* runs the AI, the other clients switch it
  off and copy what the host's NPCs look like.  State per client: the NPCs of the level
  with the AI flags they were found with, which of them are suppressed, the last snapshot.
  Correct when the worlds agree on what the host drives, and an NPC that is driven no
  longer has its own AI back.
* **Channels** (`source/yojimbo_reliable_ordered_channel.cpp`,
  `source/yojimbo_connection.cpp`, `reliable/reliable.c`): each message once and
  in order, or the session ends.
* **Sessions on the wire** (`netcode/netcode.c`): handshake, slots, keep-alive,
  timeouts, replay protection.  State: per client a state machine, per slot a client and
  its entry in a table of encryption mappings.  Correct when the two ends of a session
  open in order and close without one being left alone, and a slot has nothing of its
  former client.
* **Connect tokens** (`SecureConnection.h`, `ConnectTokenServer`).
* **Game memory access, overlay, hooks, set-up tool**, and third-party code.

### 1.3 What is hard here

Either end of a session may notice its loss long before the other; slots and
GUIDs are reused; the profile kept for a GUID outlives its holder; messages that
name a player do so by GUID; a newcomer must be given what the others were told
before it came, exactly once relative to the updates still on their way; two
threads per client share caches, flags and queues, and what one applies must not
look to the other like something the player did; packets are lost, late and
repeated below all this.  `hazards` in `PROJECT.json`
lists these at their lines, with the properties that cover each.

## 2. The modules

| module | models | notes |
|---|---|---|
| `GameTypes` | constants and messages of a session | assumptions on its data |
| `GuidManager` | `GuidManager.cpp` | also the *abstract specification* the session implements |
| `Transport` | slots, session ends, message queues | the library as the game code sees it |
| `SessionServer` | connect/disconnect and session handlers of `server.cpp` | extends the two above |
| `SessionClient` | session handlers and senders of `client.cpp` | extends `Transport` |
| `Session` | both together, bounds, fairness, properties | |
| `WorldRelay` | how an event in one world gets to the others: server relay, queues between a client's two threads, ends of sessions and visits | |
| `PickupSync`, `ChestSync`, `SwitchSync`, `WebWallSync`, `TriggerSync`, `TriggerItems`, `HoldSync`, `PushSync`, `AnimSync`, `SceneSync` | detection, sending and applying of each kind of event | each extends `WorldRelay` |
| `NpcSync` | who drives the NPCs, the snapshots, AI switched off and given back | extends `WorldRelay` |
| `World` | all kinds together, with the sessions and visits that begin and end for all of them | extends the eleven |
| `FifoChannel` | what a channel promises | *abstract specification* |
| `ReliableChannel` | one direction of a reliable-ordered channel, from `SendMessage` to `ReceiveMessage`, and the packets and acknowledgements between | implements `FifoChannel`; section 2.5 |
| `SessionEnds` | what a connection promises: two ends, and how they open and close | *abstract specification* |
| `EncryptionManager` | netcode's table of encryption mappings, as operators on a table | |
| `Handshake` | netcode's clients and server, from request to time-out | implements `SessionEnds`; section 2.6 |
| `GuidManagerProofs`, `SessionProofs`, `AgreementProofs`, `EventProofs`, `WorldProofs`, `ChannelProofs`, `HandshakeProofs` | theorems and their lemmas | section 5 |
| `SequenceFacts` | lemmas about natural numbers and joined sequences | for the proofs |
| `MCSession`, `MCWorld`, `MCReliableChannel`, `MCHandshake` | instances for TLC | |

The layers meet in promises: `Transport` opens and closes the ends of a session as
`SessionEnds` allows, except that the client's end opens with the server's; `Transport`
and `WorldRelay` have queues as `FifoChannel` describes them.

`Session` and `World` are two views of one program.  `Session` has slots, GUIDs and what
clients know of each other, `World` has the events of the game between players who have
a session.  What joins them is `resetClientSessionState`: in `Session` it forgets the
peers, in `World` (`ResetAll`) what the world synchronisation keeps.

### 2.1 GuidManager

`availableGuids`, `clientGuidMap`, `guidData` are `availableGuids_`,
`clientGuidMap_`, `guidData_`; a missing map entry is `NoGuid` (the 0 `getGuid`
returns), a missing profile reads as the default one, as `getNickname` does.
`AssignGuid`, `ReleaseGuid`, `SetProfile` are the member functions with their early
returns; `GuidFor` is what `assignGuid` returns.  Nickname and status are two
fields of one profile because the code treats them alike line by line.

### 2.2 Transport

A session has two ends, `slotPlayer[s]` on the server and `clientSlot[p]` on the
client.  They go up together (`OpenSession`, the moment netcode accepts a
challenge response) and down one at a time (`CloseSlot`, `CloseClient`).  In
between a slot can be a *ghost* whose client is gone, and a client can hold an
end whose slot was dropped and has possibly been given to somebody else.
Queues are per channel; order between the `Gameplay` and the `Skin` channel is not
kept, as in the code.

### 2.3 SessionServer, SessionClient, Session

One action per handler.  `AcceptClient` and `RefuseClient` are the two outcomes of
`OnServerClientConnected`; in the second the handler disconnects the client it
was called for, and the disconnect handler it thereby enters finds no GUID.
`DropClient` is `OnServerClientDisconnected` with whatever led to it.  The replies
of a handler are appended to the queues in the step that handles the message.
`Disconnect` is a client's loss of its session together with
`resetClientSessionState`, which the code runs before anything else can happen
on that thread.  `ChangeProfile` (chat overlay), `DetectLocalRingChange` (game
thread) and `SendRingSync` (network thread) are steps of their own.

`left` counts down what players may still do: connect, change their profile, put the ring
on or off.  `Allowances` has one record for each mixture that a run looks at.

Left out of these actions, because no property reads it: the labels and textures
the game shows, the installed files on disk apart from which GUID they are mapped
to, saving `/name` to the settings file, the level a ring message names.  Texts are
members of a small set, one of which, `EmptyValue`, is what is left of a text
without a printable character.

### 2.4 WorldRelay, the kinds of events, World

A player's client has a network thread (`clientMain`) and a game thread
(`OnAdvanceLogic` and the hooks).  `uplink` and `downlink` are the channel in both
directions, `incoming` is the `g_incoming...` vector, `pending` the local vector into
which the game thread swaps it.  `Relay` is the server's loop over the other
connected slots, `Receive` a `process...` handler, `TakeIncoming` the locked swap at
the head of an `applyQueued...` function, and each entry is applied in a step of its
own, so that the network thread's passes come in between as they do in the code.
`InGameLogic` says that the game's own logic (a player who collects, cuts, presses)
does not run while the game thread is in `applyQueued...`.

A module of a kind has the state of that kind and its steps (`PickupStep`, ...), what a
lost session does to the state (`ResetPickups`, ...) and what leaving the level does
(`ReloadPickups`, ...).  `World` puts them together: a step of one kind leaves the others
alone (`OfPickups`, ...); `Lose`, `Join` and `Leave` concern all of them at once, as
`resetClientSessionState` and the end of a visit do.  The program has one pair of
vectors for each kind, the model one queue per player for all of them.

The modules differ in how a local event is told from a remote one, which is what
could be wrong:

| module | local events are found by | remote events are kept from being taken for local ones by |
|---|---|---|
| `PickupSync` | comparison (`DetectPickupChange`) | nothing: an echo is sent, the flag makes it harmless |
| `ChestSync` | a hook (`Open`) | calling the original function |
| `SwitchSync` | comparison of all flags, of which one is told (`DetectSwitchChange`) | nothing |
| `WebWallSync` | a hook (`HookedBreak`) with one slot | `g_sentWebWallBreaks`, filled beforehand |
| `TriggerSync` | comparison, in one critical section | a suppression for one pass, then a snapshot |
| `TriggerItems` | comparison of flag and number of items | the same, with the items used one by one in between |
| `HoldSync` | comparison of what Bilbo hoists with what he was seen to hoist | only changing whether he *can* hoist it |
| `PushSync` | the same, of what he pushes | nothing: a block that was put somewhere is told only by who pushes it |
| `AnimSync` | a hook on load triggers, requests of others | setting frames without the hook |
| `SceneSync` | hooks (`StartCinema`, `ShowEffect`, `ThrowStone`) and the menu (`SpawnLocally`) | calling the original functions; a spawned object that is there is not made again |
| `NpcSync` | nothing is detected: the host tells its state again and again | only hosts tell |

Assumptions.  A level is modelled once per player, and messages are about it.  A pass
over pickups or switches is cut per object: the flags are written without the lock,
and a pass sends what it found when it ends.  A pass over triggers is one step: the
lock is held throughout.  A visit to the level begins with the world of the level
data.  Loading takes longer than a round of the network thread, so that it never
misses the end of a visit.  `/reconnect` and the assignment of the GUID, between
which the client sends and applies nothing, are one step.  Runs with fairness
start after the first pass over the level.  The game engine is external: collecting,
pressing, placing an item (a list holds an item once), and the walls it breaks, which
may already be gone when a message about them is applied.  What is queued per level
(`DirectMessages` is the rest) ends with it; the queues of `SceneSync` and the flags of
`AnimSync` end with nothing, and are sent, shown or dropped elsewhere.  When the network
thread handles the flag a load trigger has raised, the loops of the layer have begun.

In `PushSync` a place is who pushed the block there, and at which push.  Every pass tells the
place of the block that is pushed, reliably and in order like everything else; a pass that
would repeat the last one is left out.  Of the updates that wait for the game thread only the
last is applied (`waiting` is the `updated` entries of `hoistables`, which outlive a session
but not a level).  `BlocksFollow`, a part of `EventsReachAll`, says *where the player told last*:
the pass that finds the push over tells no place, so that what the block moved after
the pass before is never told.  `HoldSync` has no positions: those of hoisted objects are told
and applied by a copy of this code.

In `SwitchSync` the flags of a switch are whether it is on, and the other bits taken as one
(`rest`).  The cache compares all of it, so that a change of another bit (`ChangeRest`) sends a
state nobody chose.

In `WebWallSync` each world has the walls whose layer is loaded (`loaded`), which load triggers
change as they like, and none at the start of a visit.  A cut that arrives marks the wall first and
then looks for it; if it is not loaded the mark stays and the wall with it, `missed`.

In `TriggerItems` a message is applied in several steps, `SuppressItems`, a `UseItem` for each
item and `SnapshotItems`, with passes of the network thread before, between and after; a pass that
skips the trigger lifts the suppression (`LiftSuppression`), and the next one may find the
items and send them back.

In `AnimSync` all loops of a world advance with one `clock` (`Tick`) and share one shift against
it, since they advance at the same rate; each loading of a layer gives a world a shift
of its own.  What is sent is the frame at that moment (`FrameOf`), and it is set unchanged
when it is applied, so that a world that has been told is behind the host's by what the message
took to be relayed, queued and applied: `late`.  Nothing is told again until somebody asks.

In `SceneSync` a stone has the one slot of the code, the other queues are sequences.

In `NpcSync` what an NPC looks like is a number: the host's NPCs count up, an NPC that a
client's own AI moves is `Astray`.  `Synced` is the test the code makes in four places
(sending, suppressing, and the two hooks), `ActsIn` says that something in a game
still moves an NPC: its states, unless the flags are off, or its goals, unless the hooks
starve them.  A side changes in each world by itself, as level scripts run in each.  The
snapshot is the whole message; the cap on its length is left out.  `ReadNpcs` may miss
NPCs, because it may run while the level is being imported (the comment on the trigger of
`readGamePointers`).  No NPC is destroyed in mid-level, and modes 2 and 3 of `/ai`, which
switch one half of the AI off, are left out.

`detectPickupChanges` is commented as running on the game thread; it is called from
the network thread, and modelled there.

### 2.5 ReliableChannel

What `Transport` and `WorldRelay` take for granted, that a channel hands over each message
once and in order or the session ends, is `FifoChannel`: how much was sent, how much has
arrived, and whether the session lasts.  `ImplementsFifo` says that the detailed module
implements it, liveness included.  In the code it is the work of three layers: the channel
(`yojimbo_reliable_ordered_channel.cpp`), the connection that packs its messages, and the
endpoint that acknowledges packets (`reliable.c`).  The module has the three together for
one direction; the other direction only carries the acknowledgements.

`unacked` is the send queue, `due` those of its entries whose resend time is over,
`sendBlock` the block that is being sent, `contents` the `m_sentPackets`.  `SendMessages`
takes any of the messages `Sendable` allows, since which of them fit depends on their sizes;
`SendFragment` takes the first fragment that is due.  `ResendTime` is the clock: everything
unacknowledged is due again.  `ReceiveAcks` is `ProcessAcks` with the channel's `ProcessAck`
for each packet.  On the other side `queued` is the receive queue and `newest` its
`GetSequence()`; `Insert` is the one of `SequenceBuffer`, which clears the indices it skips.
`ReceivePacket` is an arrival with all that follows from it, and a packet the channel
refuses is not acknowledged.  `SendAcks` needs an empty queue, because both main loops
(`serverMain`, `clientMain`) take all messages between receiving packets and sending them:
`NoDesync` depends on it.

Left out: packets without data for this channel, so that a packet's number is counted in
packets of the channel (the windows of the code, counted in all packets, are tighter);
`m_sentPackets` and the endpoint's `sent_packets` forget old packets, whose
acknowledgement then counts as lost; fragmentation of packets in `reliable.c`, which
hands over whole packets.  Numbers do not wrap; `Comparable` says that the comparisons of
wrapped numbers (`SequenceGreaterThan`) come out as those of the true ones.  It needs a packet to
be outdated, as netcode's replay protection makes it, before half the range of numbers has
been sent: with the program's 256 packets, 32768 numbers and queues of 1024, packets of at most 124
messages (section 5).  The configuration permits 256, the messages of the game come one
or a few at a time.

### 2.6 Handshake

`state`, `attempt`, `challenge` and `should_disconnect` are a netcode client,
`client[s]`, `encryption_index[s]` and `packet_queue[s]` a slot, `mappings` the encryption
manager.  An attempt to connect is a number that stands for the token, the client id and
the socket, all new in each attempt; so `netcode_connect_token_entries_find_or_add` has
nothing to refuse, and a port that the operating system gives out again or a token that
somebody else sends is outside the model.  Packets are a set: a packet is taken once
(which is replay protection), lost, late or overtaken, and repeated by whoever sends it
while its state lasts; no more than `MaxFlying` are under way, and one for which there is
no room counts as lost.  Time is what makes time-outs and expiries possible, at any
moment.  Keep-alives of a client are payload packets here, both keep its slot.
The server may stop and start again (`Restart`): its tables are empty and its challenge key
is new, so that an old response means nothing to it.

`EncryptionManager` has the functions of the table one to one.  What could go wrong is the
length of the table: it grows when the entry used is the last one, shrinks when the last
one is removed, and entries that have expired are used again.  The assertions in
`netcode.c` about it are `MappingsOwned`.

`SessionEnds` is what all this is for: the server opens the first free slot for an attempt
that has none and announces it, the client joins when it hears of it, both close when they
like, and no end is left alone for ever.  A client may join an end that the server has
closed already, when the announcement is late; then it times out.  The same may happen to
the server: a request and a response that were repeated and come late open a slot for an
attempt that was given up, which times out too.  In `Session` these are the ghosts.

## 3. The runs

| run | instance | distinct states | shows |
|---|---|---|---|
| `session_profiles` | 2 players, 3 slots, 2 GUIDs, 3 connects, 2 renames | 1.4 million | every GUID in one place, identity, claims, profiles; implements the allocator |
| `session_skins` | 2 players, 3 slots, 3 GUIDs, 3 connects | 1.1 million | skin cache and replay |
| `session_liveness` | 2 players, 2 slots; 3 connects and 1 rename, or 2 connects and 2 ring changes | 0.35 million | profiles arrive everywhere, ring states at those who are there |
| `world` | 2 players, one object of any one kind, 2 absences (1 with a lock), 1 change of a switch, 2 presses, 2 items | 0.88 million | the safety of every kind of event |
| `world_live` | 3 players (2 for walls, buttons, locks, hoistables, loops and NPCs, both for levers), one object of any one kind (two hoistables), nobody absent but a client where loops or NPCs are, once | 0.23 million | what one player does happens in every world, and blocks follow who pushes them; the echoes of a switch settle; detection recovers; nothing is taken away for good; loops follow the host's; NPCs follow the host and get their AI back |
| `channel` | 4 messages, the second a block of 2 fragments, queues of 2, 1 loss, 1 resend of what is still on its way | 0.27 million | implements `FifoChannel`; what is forgotten has arrived, windows agree, numbers are comparable |
| `handshake` | 2 players; 2 attempts at a server for one or for two clients, or 1 attempt and a restart; 2 packets under way, 2 mappings | 0.48 million | implements `SessionEnds`; mappings are owned, queues are a slot's own |
| `ring_late_join`, `stale_skin`, `switch_twice`, `items_sent`, `ai_given_back` | the least that suffices | | findings, section 4 |

### 3.1 Bounds

*Sessions.*  Three connects of two players give every combination of ghost, refusal,
reuse of a slot and reuse of a GUID; with two GUIDs a player that returns while its
ghost is there is refused, or served, or served under another GUID.  Two players are
the least that have a peer.  The order of `/name` and everything else is free.  In
`session_liveness` nobody has a skin, so that the two players are interchangeable and
`RingReachesPresent` looks at one pair of them.

*The world.*  An *absence* is the loss of a session or the end of a visit to the level.
Two of them are the least that let a client leave the level while it has no session
and come back to it, where the loop's reset does not run and only the one of
`/reconnect` does.  `level` is one of several levels, most of one object, and says who
plays it, who of these may be absent and how often in all (`absences`), so that one run covers
every kind without interleaving steps of kinds that have nothing to say to each other.
Of two players who fill a lock only one is ever absent in `world`, and once; which one is either.
With one object the queues hold several messages of that object (an event and its
echoes).  Three players are the least at which an echo and an original come to somebody
from different sides, so the liveness run has three; a button, which every press sends on again, a
wall, whose layer comes and goes in every world, and a lock, which is filled item by item, are
there with two only, a lever with both.  What is not covered by one
object, the single slot of the web walls, is told of in section 4; what is proved in
section 5 holds for any number of players and objects, several kinds to a level
included.

*What is held.*  Two objects and two hoistings of each of two players in `world_live`: a
player changes from one to the other between two passes, and both hold one at the same
time.  One of three players pushes a block in `world_live`, twice, so that an update may
overtake the frame that would have applied the one before; in `world` both players push, at the same time
or one after the other.

*Walls.*  Layers are loaded and unloaded without a bound; a wall is cut once, or twice by two
players who do not know of each other.

*Switches.*  One change, by a player or of another bit, in `world` and `world_live`; two in
`switch_twice`.

*Presses.*  Two of three players press in `world_live`, twice in all; which two makes no
difference, and the third is the one to whom everything comes from elsewhere.

*Loops.*  Two layers that are loaded or uses of `/syncanim`, by the host or the client, and one
return of a client to the level or to its session, which asks again: requests collapse into one answer, two answers
are on their way, and a layer is loaded while frames wait.  A loop has 2 frames, so that a world is
behind the host's or is not.  There is one host, who alone
uses `/syncanim`; with two hosts, or if a client tells its own frames, nothing says
whose are right.  A client may leave the level or lose its session and come back, the
host may not: it does not ask anybody.

*Scenes.*  Each player sees something happen once.  A stone thrown before the last was sent
replaces it, so the claim is about stones thrown one at a time.

*NPCs.*  A host and a client who may be absent once; one move of the NPC, two changes of
side or uses of `/ai`, one snapshot on its way.  A snapshot is told again and again, so
that one on its way at a time shows old ones overtaking changes as well as several would.
`world` has two hosts, whose snapshots cross.  A warg stands for an ordinary fighter;
`Forced` and `LocalAI`, whose NPCs are on no level of the runs, change which of the
same two cases `Synced` is in.

*Items.*  In `world` two items are needed and a message has room for one, so that the
clamp of `readAndPushTriggerItems` is reached; in `world_live` the message has room for
the four of the code, more than there are, and one player places them.

*The channel.*  Four messages over queues of two use every index twice, the window is full
again and again, and the block has messages before and after it.  An acknowledgement covers two packets
and a packet is outdated after two, so that both windows are left.  `HalfRange` is 3: with 2,
a range of 4 numbers for queues of 2, `Comparable` fails.  `MaxLosses` bounds what
is lost; `MaxDelays` bounds resends of what is still on its way, the ones that
follow a loss are free.

*The handshake.*  Two attempts are one player who comes back while packets of its first
attempt are on their way, or two who want the one slot.  Two packets under way are a packet and
the one it overtakes.  Two mappings are the least at which the table shrinks below an entry that
is used again; a third attempt at a full table is turned away, which `HasRoom` says.

The counters (`left`, `absences`, `changes`, `presses`, `hoists`, `pushes`, `loads`, `shows`, `moves`, `scripts`) are bounds of the runs only: no
proof uses them.  `CHECK_DEADLOCK FALSE` is stated where the bounds let the system
stop: nobody has to connect once the connects are used up, and a level on which
everything has happened is quiet.

### 3.2 Fairness

`Session!Fairness`: both main loops run forever and drain their channels (`WF` on
receiving, uploading and sending); netcode's time-out
(`netcode_server_check_for_timeouts`, and its counterpart on the client) removes an
end whose other end is gone.  No fairness is assumed of players.  A live session may
or may not end.  `SendRing` is fair only on a level, so the liveness of the ring is
claimed for players who are on a level.

`World!Fairness`: the server relays the messages of every client, and the two threads of a
client go on: `clientMain` runs every 10 ms, and the game calls `OnAdvanceLogic` every
frame.  Weak fairness is of a whole thread, not of each of its steps; the queues are
finite and a pass finds everything there is, so that no step is starved, except beside the
snapshots of NPCs, which never end: reading and suppressing NPCs is therefore a
condition of its own.  (One pass of the loop does both.)
Nothing is assumed of players or the game: nobody has to collect, press or cut, a trigger need
not be armed again, no layer has to be loaded, and loops advance when they like.  Agreement is claimed where nobody is absent, since the code
transfers no state of a level to somebody who comes late, and also of clients who come
late where it does: loops and NPCs.  The claims are of the form
*if it happens in one world, it will have happened in all of them*.

`Handshake!Fairness`: only time-outs.  A slot whose client is not connected to it
times out, and so does a client that is connected to no slot, unless they get together.  Nobody has to connect, answer or be heard.

`ReliableChannel!Fairness`: both loops send and receive, time passes, and what is not lost
arrives.  The bound on losses stands for a network that does not lose everything for ever,
and no fairness is assumed of the program's `SendMessage`.

## 4. What the runs found

* `ring_late_join`: the ring state of a player is sent when it changes and never
  again, so somebody who joins later does not see it.
* `stale_skin`: the skin mappings survive a reconnect, the messages that clear them
  do not reach a client that is away.
* `switch_twice`: a remote state is set without telling the cache, so it is sent on as
  a change; two opposite states chase each other forever.  A single use settles
  (`SwitchesSettle` in `world_live`).
* `items_sent`: the new items of a trigger are read from the front of its list, so the
  second one placed is not the second one sent.

* `ai_given_back`: a lost session forgets which NPCs are suppressed without giving
  them their AI back, and the next one takes the flags it finds, which are off, for their own.
  `AIRestored`, which holds, says that an NPC is given back what it was found with.

More was seen in the models and in variants of the instances above, and is not a run of its own:

* `/name` with an unprintable text says "Invalid nickname." after it has stored it; it is
  announced at the next assignment of a GUID (`ChangeProfile` in `SessionClient`).
* `HookedBreak` has one slot for the wall that was cut; of two walls cut between two
  passes of the network thread the first is not sent (`Cut` with two walls on a level).
* The game thread skips walls it has applied, not walls cut here, so a wall two players
  cut at the same time is broken twice in both worlds (`broken` counts).
* The snapshot after remote items hides an item placed here that no pass has seen: it is in the
  count and never told.  Two players who place the last two items at the same time, or one whose
  items come back as echoes, may see a trigger fire in one world and not in the other; hence the
  single placer of `ItemsFireForAll`, which leaves out what was `Overlooked`.
* The suppression of a trigger is lifted by a pass that ends before the press; a second
  pass before the snapshot sends the press back, which the comment in
  `applyQueuedTriggerPressB` ("so we don't echo it back") excludes.  After the snapshot
  nothing is echoed (`NoEchoAfterSnapshot` in `world`).
* On levels 1 and 9 the comment at `levelKeepsLocalAI` says that "none of the host-driven
  machinery may touch" the NPCs; `readEnemiesState` does not ask it, and the clients apply
  the host's snapshots to NPCs whose AI runs (`KeepsAI` with `MoveNpc` and `UpdateEnemies`).
* A wall whose layer is not loaded when a cut arrives is marked and stands when the layer is loaded
  later, in one world and not in the other (`missed`).
* A switch is told whenever any bit of its flags changes: a change of another bit sends the
  state it has here to worlds where somebody may just have chosen the other (`ChangeRest`).
* The comments on loops ("a single alignment keeps them in phase from that point on",
  "one alignment holds forever") hold of the rate, not of the phase: the frame is out of date when
  it is set, and nothing makes up for it (`late`).
* The comment in `hkCinemaStart` says that a start the engine rejects had better not be told, the
  code after it queues every start of a synced cutscene.  `StartCinema` does as the code does.

## 5. The proofs

`GuidManagerProofs`: `GuidInv` (types, and the three parts of `GuidsInOnePlace`: `FreeOnce`,
`UniqueGuids`, `GuidsConserved`) is inductive as it stands.  The lemmas `PopLosesTop` and `PushAddsOne` say what the
two stack operations do; a push keeps `FreeOnce` only because conservation says the
GUID was not on the stack, and conservation survives the push only because no other
slot holds it: the three need each other.

`SessionProofs`: `SessionInv` adds that connected slots are the slots with a GUID and
that cached skins belong to assigned GUIDs.  One lemma per action of the server;
clients change none of its variables.  `OwnGuid` and `ClaimsAreOwn` need to know what is on its way:
`ClaimInv` says that the queue of a slot holds nothing but what the client with its GUID may send
(`UploadsOwn`), and that the queue of a client that is attached holds the assignment of its own
GUID and news of peers (`AnswersOwn`), whoever had the slot or the GUID before.  From the same
invariant every step of the composed system is one of `GuidManager` or leaves its variables
alone: `UsesAllocator`.  All of it holds for any number of players, slots,
GUIDs and for any bounds, from the assumptions `GuidAssumption`, `SlotsAssumption`,
`DataAssumption`, `TransportAssumption`, `CacheAssumption`, `LocalSkinAssumption`,
which TLC evaluates in the runs.  `GuidAssumption` is one about the data: the GUIDs in the file the
allocator loads are distinct and not zero, which the loader does not check.

`AgreementProofs`: `TypeInv` adds the types of what is on its way and of what clients know of peers, which
is the full `TypeOK`.  `ProfilesAgree` and `SkinsAgree` speak of moments when everything has been heard;
`AgreementInv` says what holds before.  Profiles and skins go the same way, a *topic* each.  What `q`
has said about a topic is on its way to the server, or stored there; and for every peer it is
on its way to the server, or stored and on its way down, or stored and shown.  Whichever of these is
the last to hold anything about the topic holds q's word (`LastIn`, `Silent`): that is why a newcomer,
who is sent what the server has stored while updates are on their way, ends up with the same.  The
invariant needs that nobody else speaks for `q`'s GUID (`ClaimsAreOwn`), and the types; what a former
holder of the GUID left behind does not matter, since the new one's word comes after it.

`SequenceFacts`: the messages a newcomer is sent are joined by `FlattenSeq`, which is
recursive.  Induction theorems with a predicate as parameter are out of the prover's reach, but
that a set of natural numbers has a least element is not: `InductionUpTo` is induction for sets.
`FlattenTyped` and `FlattenKeeps` say what it gives for joined sequences, `TakeFirst` and `AddMore`
what taking and adding messages does to the last word in a queue.

`EventProofs`, relay: one lemma per operation; each keeps `RelayInv`, that is
the shape of the queues and `NothingLeftOver` (a client without a session has nothing on
its way, one off the level has nothing queued), whatever the messages are.  `RelayTypeOK(M)` says that
nothing but messages of a set `M` is on its way; a step of a kind keeps it if what it sends is in `M`
(`RelayEffect`).  `M` may grow from step to step, which the switches need.

`EventProofs`, pickups: neither `GrantedOnce` nor `AnnouncedOnce` is inductive.  `GrantedIsFlag`
ties the number of grants to the flag, which the game sets together with the grant;
`CacheBehindFlag` says that the cache calls taken only what is taken, and that only
what it calls taken may have been announced: so the pass that announces a pickup
finds it unannounced.  Chests: nothing opens a chest that is open, and what waits to be
sent was opened here, since the hook is not called for what is opened for others.  Web walls:
`OnlyOwnCuts` and `MarksOfThisVisit` (a mark has a broken wall, or one that was not loaded when
the cut came) are inductive with the types; the
point is the client without a session, which keeps its marks when it leaves the level,
and of which nothing is claimed until `Join` has made it forget them.

Switches: a switch that looks changed to the cache may have been changed here, by whatever bit, or set for
somebody else.  `OnlyChangesTold` therefore needs `ChangedOrSeen`: where the flags differ from the cache, the
switch was in its present state when something changed it, here or where the remote state came from.  Triggers:
a fired trigger that the cache has as armed was pressed by the player here, or is between the press
that was received and its snapshot (`FiredByPlayer`); from it comes `NoEchoAfterSnapshot`.
`StageInv` says that until then the press is still at the head of what the game thread has
taken: otherwise `SnapshotTrigger` could take an entry off an empty queue, or one of another kind's.
Items: `CacheNotAhead` is inductive with the types; a `UseItem` leaves the list as it is or
adds to it, and a trigger that has fired stays so (`UseTyped`, `UseAhead`).  NPCs: what
`readGamePointers` has found is a function on some of the NPCs (`Found`), and
every step of theirs is typed.  Holds, blocks, loops and scenes: their types.

`WorldProofs`: `WorldInv` conjoins these.  Every step of every kind, and every session or visit that
begins or ends, is shown to keep it, so that the theorems hold of the whole `World`.  What may be on its
way is `Allowed`: any message, but of switches only states they had when something changed them (`Told`).  The assumptions
used are `RelayAssumption`, `TriggerAssumption` (finitely many triggers, since a pass
sends the changed ones as one sequence), `ItemsAssumption`, `PushAssumption`, `AnimAssumption`,
`NpcAssumption`; nothing is assumed about which objects a level has.

`ChannelProofs`: `ChannelInv` ties the two sides of a channel together, for any numbers of
messages, blocks and fragments and any sizes of queues and windows.  Its parts need each other in a circle.
What the sender forgot was acknowledged, and so has arrived; no two messages that are remembered share
an index, so what arrived is the receiver's; the sender's window starts at the oldest message
it remembers, which is never ahead of the receiver's program, because an acknowledgement leaves only
when the program has taken everything it can take; and with that the receiver's window has room
for whatever the sender may send, so that what arrives is kept.  From it come `ForgottenIsReceived`, `NoDesync`
and, step by step, that the channel implements `FifoChannel` as far as safety goes.  The assumption
is `ChannelAssumption`.

How far the receiver can be ahead of a message that arrives is a matter of counting (`AgeInv`).
No packet sent before is about messages a queue's size ahead (`SentInv`), and whatever the receiver
has came in some packet (`HasInv`): so beyond a queue's size it has only what the packets sent
later brought, and of those only a replay window may have arrived before this one is outdated:
`AgeBounded`, with the bound `MaxAge(M) == ReceiveQueueSize + (ReplayWindow - 1) * M` for packets of at
most `M` messages, first of all for the configured `MaxPerPacket`.  TLC reaches the bound when there are no blocks.

`ComparableAlways` is about what packets really carry, not what the configuration permits: for every `M` with
`MaxAge(M) < HalfRange`, which is a condition on numbers only, `Spec => [](FewHeld(M) => Comparable)`, where
`FewHeld(M)` says that no packet so far carried more than `M` messages.  Nothing is assumed of
`MaxPerPacket`.  With the game's sizes (queues of 1024, a window of 256, half a range of 32768) the condition is
met up to `M = 124`; a packet with 125 or more messages takes a sender that is that far behind.  The configuration
permits 256, and about such packets the theorem is silent.  The instance of `channel` has `HalfRange` 3, and there
`Comparable` is checked for all packets, because the block keeps numbers close.

`HandshakeProofs`: the assertions of `netcode.c` about mappings (`MappingsOwned`) follow
from `WellKept`, which does not speak of clients: no address is written beyond the end of the table, and of
the entries with one address all but the first have expired and are nobody's.  It is what makes
looking for an address find the entry of the client that has it (`OwnEntryIsFirst`), although
there may be several.  One lemma per function of the table (`AddKeepsTable`,
`RemoveKeepsTable`, ...), one per function of slots and table together (`AddKeepsSlots`,
`OwnKeepsSlots`, `FreeKeepsSlots`), then one per action.  Attempts are numbered in order, so that no two players
have the same; with that every step is one of `SessionEnds` or says nothing to it.  The
assumptions are `MappingsAssumption` and `HandshakeAssumption`; the bound on packets under way plays no
part.

Every invariant and every safety property of an action that a passing run checks is stated by a theorem.  Only
model-checked is everything under fairness, which TLAPS does not do: the properties of `session_liveness` and
`world_live` (that profiles and rings arrive, that events reach all, that switches settle, that
triggers are seen again, holds, loops, and NPCs), and the liveness parts of the two refinements, `ImplementsFifo` and
`ImplementsSessionEnds`.  What the items of a trigger do in the worlds of several players, and the AI given
back, are liveness or counterexamples, too.

## 6. Not modelled

The components with status `not_modelled` in `PROJECT.json`, with reasons.  In short: the
movement of players (overwritten by the next message, interpolated on floats), the senses
of NPCs and the pain they suffer (hooks that read a snapshot, one message), the text of
the chat, connect tokens, memory access, rendering and hooks as such, serialization,
allocation, the set-up tool, the library's tests, and the vendored cryptography and
allocator, which are most of the lines in the repository and have no state of this
program.

Within what is modelled: a level is about objects that are there when it is loaded; one
level is modelled, and a message for another is one that finds nobody on the level; the
server's relay of messages from a session that has just ended is taken as lost with it,
one of the orders the code allows.  Where hoisted objects are is not modelled, since
`PushSync` has the same code for push blocks.  Layers
matter to web walls and to loops; that other objects of a layer that is not loaded may not be found is
left out.  Level 7, whose loops are excepted from alignment, and the caps on
messages other than the one on items are left out.  Data races inside containers and the
library's allocator (`hazards` without a property) are below the steps of the models.

## 7. Plan

The models are in place and their safety properties proved; what is left, in this order:

1. Action properties about what no step may do, where a liveness property rests on one (a hoistable is
   enabled by a release or an end of a session only; a client's AI is switched off only for NPCs
   the host drives), as theorems.
2. Layers for objects other than walls and loops.
