----------------------------- MODULE EventProofs -----------------------------
(***************************************************************************)
(* The relay of events, and what holds of each kind of event by itself, for *)
(* any numbers of players and objects; WorldProofs composes them.           *)
(***************************************************************************)
EXTENDS PickupSync, ChestSync, SwitchSync, WebWallSync, TriggerSync, TriggerItems,
        HoldSync, PushSync, AnimSync, SceneSync, NpcSync, SequenceFacts, FiniteSetTheorems

-----------------------------------------------------------------------------
(* Whatever is relayed, nothing is left over from a session or a visit to   *)
(* the level: one lemma per operation of the relay.  What the queues hold   *)
(* does not matter, only which of them are empty.                           *)

IsQueues(q) == q = [p \in Players |-> q[p]]

RelayShape ==
    /\ level.players \subseteq Players
    /\ online \subseteq Players
    /\ onLevel \subseteq Players
    /\ IsQueues(uplink)
    /\ IsQueues(downlink)
    /\ IsQueues(incoming)
    /\ IsQueues(pending)

RelayInv == RelayShape /\ NothingLeftOver

\* What changes at most one player's queue leaves a queue for every player.
LEMMA QueuesKept ==
    ASSUME NEW q, IsQueues(q), NEW p \in Players, NEW new
    PROVE  /\ IsQueues([q EXCEPT ![p] = new])
           /\ [q EXCEPT ![p] = new][p] = new
           /\ \A r \in Players \ {p} : [q EXCEPT ![p] = new][r] = q[r]
BY DEF IsQueues

\* The start: everybody is there and every queue is empty.
LEMMA RelayInitInv ==
    ASSUME RelayInit
    PROVE  RelayInv
BY RelayAssumption DEF RelayInit, RelayInv, RelayShape, IsQueues, NothingLeftOver, NoQueue

\* Nothing of the relay changes.
LEMMA RelayStutterInv ==
    ASSUME RelayInv, UNCHANGED relayVars
    PROVE  RelayInv'
BY DEF relayVars, RelayInv, RelayShape, IsQueues, NothingLeftOver

\* Whatever p sends, it changes only its own uplink, and only with a session.
Sends(p) ==
    /\ p \in online
    /\ uplink' = [uplink EXCEPT ![p] = uplink'[p]]
    /\ UNCHANGED <<level, online, onLevel, downlink, incoming, pending, absences>>

LEMMA SendSends ==
    ASSUME RelayInv, NEW p \in online, p \in Players, NEW msgs, Send(p, msgs)
    PROVE  Sends(p)
<1>1. uplink' = [uplink EXCEPT ![p] = uplink[p] \o msgs]
    BY DEF Send
<1>2. uplink'[p] = uplink[p] \o msgs
    BY <1>1, QueuesKept DEF RelayInv, RelayShape, IsQueues
<1>3. QED BY <1>1, <1>2 DEF Send, Sends

LEMMA SendsInv ==
    ASSUME RelayInv, NEW p \in Players, Sends(p)
    PROVE  RelayInv'
<1>1. /\ IsQueues(uplink')
      /\ \A r \in Players \ {p} : uplink'[r] = uplink[r]
    BY QueuesKept DEF RelayInv, RelayShape, IsQueues, Sends
<1>2. p \in online /\ UNCHANGED <<level, online, onLevel, downlink, incoming, pending>>
    BY DEF Sends
<1>3. NothingLeftOver'
    BY <1>1, <1>2 DEF RelayInv, NothingLeftOver
<1>4. QED BY <1>1, <1>2, <1>3 DEF RelayInv, RelayShape, IsQueues

\* The server's relay: only to slots that are connected.
LEMMA RelayRelayInv ==
    ASSUME RelayInv, NEW p \in Players, Relay(p)
    PROVE  RelayInv'
<1>1. uplink' = [uplink EXCEPT ![p] = Tail(uplink[p])] /\ uplink[p] # <<>>
    BY DEF Relay
<1>2. p \in online
    BY <1>1 DEF RelayInv, NothingLeftOver
<1>3. /\ IsQueues(uplink')
      /\ \A r \in Players \ {p} : uplink'[r] = uplink[r]
    BY <1>1, QueuesKept DEF RelayInv, RelayShape, IsQueues
<1>4. IsQueues(downlink') /\ \A r \in Players \ online : downlink'[r] = downlink[r]
    BY DEF Relay, IsQueues
<1>5. UNCHANGED <<level, online, onLevel, incoming, pending>>
    BY DEF Relay
<1>6. NothingLeftOver'
    BY <1>2, <1>3, <1>4, <1>5 DEF RelayInv, NothingLeftOver
<1>7. QED BY <1>3, <1>4, <1>5, <1>6 DEF RelayInv, RelayShape, IsQueues

\* Receiving: what is about a level the player is not on is dropped.
LEMMA ReceiveInv ==
    ASSUME RelayInv, NEW p \in Players, Receive(p)
    PROVE  RelayInv'
<1>1. downlink' = [downlink EXCEPT ![p] = Tail(downlink[p])] /\ downlink[p] # <<>>
    BY DEF Receive
<1>2. p \in online
    BY <1>1 DEF RelayInv, NothingLeftOver
<1>3. /\ IsQueues(downlink')
      /\ \A r \in Players \ {p} : downlink'[r] = downlink[r]
    BY <1>1, QueuesKept DEF RelayInv, RelayShape, IsQueues
<1>4. \/ p \in onLevel /\ incoming' = [incoming EXCEPT ![p] = Append(incoming[p], Head(downlink[p]))]
      \/ incoming' = incoming
    BY DEF Receive
<1>5. /\ IsQueues(incoming')
      /\ \A r \in Players \ {p} : incoming'[r] = incoming[r]
      /\ p \notin onLevel => incoming' = incoming
    BY <1>4, QueuesKept DEF RelayInv, RelayShape, IsQueues
<1>6. UNCHANGED <<level, online, onLevel, uplink, pending>>
    BY DEF Receive
<1>7. NothingLeftOver'
    BY <1>2, <1>3, <1>5, <1>6 DEF RelayInv, NothingLeftOver
<1>8. QED BY <1>3, <1>5, <1>6, <1>7 DEF RelayInv, RelayShape, IsQueues

\* Handling a message at once takes it off, and does no more.
LEMMA HandleNextInv ==
    ASSUME RelayInv, NEW p \in Players, NEW Kind, HandleNext(p, Kind)
    PROVE  RelayInv'
<1>1. downlink' = [downlink EXCEPT ![p] = Tail(downlink[p])] /\ downlink[p] # <<>>
    BY DEF HandleNext
<1>2. p \in online
    BY <1>1 DEF RelayInv, NothingLeftOver
<1>3. /\ IsQueues(downlink')
      /\ \A r \in Players \ {p} : downlink'[r] = downlink[r]
    BY <1>1, QueuesKept DEF RelayInv, RelayShape, IsQueues
<1>4. UNCHANGED <<level, online, onLevel, uplink, incoming, pending>>
    BY DEF HandleNext
<1>5. NothingLeftOver'
    BY <1>2, <1>3, <1>4 DEF RelayInv, NothingLeftOver
<1>6. QED BY <1>3, <1>4, <1>5 DEF RelayInv, RelayShape, IsQueues

\* The game thread takes the queue of the network thread.
LEMMA TakeIncomingInv ==
    ASSUME RelayInv, NEW p \in Players, TakeIncoming(p)
    PROVE  RelayInv'
<1>1. /\ pending' = [pending EXCEPT ![p] = incoming[p]]
      /\ incoming' = [incoming EXCEPT ![p] = <<>>]
      /\ p \in onLevel
      /\ UNCHANGED <<level, online, onLevel, uplink, downlink>>
    BY DEF TakeIncoming, InGameLogic
<1>2. /\ IsQueues(pending') /\ IsQueues(incoming')
      /\ incoming'[p] = <<>>
      /\ \A r \in Players \ {p} : pending'[r] = pending[r] /\ incoming'[r] = incoming[r]
    BY <1>1, QueuesKept DEF RelayInv, RelayShape, IsQueues
<1>3. NothingLeftOver'
    BY <1>1, <1>2 DEF RelayInv, NothingLeftOver
<1>4. QED BY <1>1, <1>2, <1>3 DEF RelayInv, RelayShape, IsQueues

\* The game thread is done with one entry.
LEMMA AppliedInv ==
    ASSUME RelayInv, NEW p \in Players, pending[p] # <<>>, Applied(p)
    PROVE  RelayInv'
<1>1. pending' = [pending EXCEPT ![p] = Tail(pending[p])]
    BY DEF Applied
<1>2. IsQueues(pending') /\ \A r \in Players \ {p} : pending'[r] = pending[r]
    BY <1>1, QueuesKept DEF RelayInv, RelayShape, IsQueues
<1>3. p \in onLevel
    BY DEF RelayInv, NothingLeftOver
<1>4. UNCHANGED <<level, online, onLevel, uplink, downlink, incoming>>
    BY DEF Applied
<1>5. NothingLeftOver'
    BY <1>2, <1>3, <1>4 DEF RelayInv, NothingLeftOver
<1>6. QED BY <1>2, <1>4, <1>5 DEF RelayInv, RelayShape, IsQueues

\* A session ends and takes its queues along.
LEMMA LoseSessionInv ==
    ASSUME RelayInv, NEW p \in Players, LoseSession(p)
    PROVE  RelayInv'
<1>1. /\ uplink' = [uplink EXCEPT ![p] = <<>>]
      /\ downlink' = [downlink EXCEPT ![p] = <<>>]
      /\ incoming' = [incoming EXCEPT ![p] = <<>>]
      /\ online' = online \ {p}
      /\ UNCHANGED <<level, onLevel, pending>>
    BY DEF LoseSession
<1>2. /\ IsQueues(uplink') /\ IsQueues(downlink') /\ IsQueues(incoming')
      /\ uplink'[p] = <<>> /\ downlink'[p] = <<>> /\ incoming'[p] = <<>>
      /\ \A r \in Players \ {p} :
             uplink'[r] = uplink[r] /\ downlink'[r] = downlink[r] /\ incoming'[r] = incoming[r]
    BY <1>1, QueuesKept DEF RelayInv, RelayShape, IsQueues
<1>3. NothingLeftOver'
    BY <1>1, <1>2 DEF RelayInv, NothingLeftOver
<1>4. QED BY <1>1, <1>2, <1>3 DEF RelayInv, RelayShape, IsQueues

\* A session begins.
LEMMA JoinSessionInv ==
    ASSUME RelayInv, NEW p \in Players, JoinSession(p)
    PROVE  RelayInv'
BY DEF RelayInv, RelayShape, IsQueues, NothingLeftOver, JoinSession

\* A visit to the level ends and takes the received messages along.
LEMMA LeaveLevelInv ==
    ASSUME RelayInv, NEW p \in Players, LeaveLevel(p)
    PROVE  RelayInv'
<1>1. /\ incoming' = [incoming EXCEPT ![p] = <<>>]
      /\ onLevel' = onLevel \ {p}
      /\ pending[p] = <<>>
      /\ UNCHANGED <<level, online, uplink, downlink, pending>>
    BY DEF LeaveLevel, InGameLogic
<1>2. /\ IsQueues(incoming')
      /\ incoming'[p] = <<>>
      /\ \A r \in Players \ {p} : incoming'[r] = incoming[r]
    BY <1>1, QueuesKept DEF RelayInv, RelayShape, IsQueues
<1>3. NothingLeftOver'
    BY <1>1, <1>2 DEF RelayInv, NothingLeftOver
<1>4. QED BY <1>1, <1>2, <1>3 DEF RelayInv, RelayShape, IsQueues

\* A visit to the level begins.
LEMMA EnterLevelInv ==
    ASSUME RelayInv, NEW p \in Players, EnterLevel(p)
    PROVE  RelayInv'
BY DEF RelayInv, RelayShape, IsQueues, NothingLeftOver, EnterLevel

-----------------------------------------------------------------------------
(* What the relay carries.  M is any set of messages: whoever sends, sends  *)
(* some of M, so that nothing else is ever on its way.                      *)

\* A client's step does one of four things with the messages of its kind.
RelayEffect(p, Kind) ==
    \/ UNCHANGED relayVars
    \/ \E msgs \in Seq(Kind) : p \in online /\ Send(p, msgs)
    \/ HandleNext(p, Kind)
    \/ ToApply(p, Kind) /\ Applied(p)

\* The first message is taken off.
LEMMA FirstTaken ==
    ASSUME NEW M, NEW q \in [Players -> Seq(M)], NEW p \in Players, q[p] # <<>>
    PROVE  /\ Head(q[p]) \in M
           /\ [q EXCEPT ![p] = Tail(q[p])] \in [Players -> Seq(M)]
<1>1. q[p] \in Seq(M)
    OBVIOUS
<1>2. Head(q[p]) \in M /\ Tail(q[p]) \in Seq(M)
    BY <1>1
<1>3. QED BY <1>2

\* Queues of some messages are queues of more.
LEMMA MoreMessages ==
    ASSUME NEW M, NEW N, M \subseteq N
    PROVE  Seq(M) \subseteq Seq(N)
<1> SUFFICES ASSUME NEW q \in Seq(M) PROVE q \in Seq(N)
    OBVIOUS
<1>1. Len(q) \in Nat /\ q \in [1 .. Len(q) -> M]
    OBVIOUS
<1>2. q \in [1 .. Len(q) -> N]
    BY <1>1
<1>3. QED BY <1>1, <1>2

LEMMA StillRelayTyped ==
    ASSUME NEW M, RelayTypeOK(M), UNCHANGED relayVars
    PROVE  RelayTypeOK(M)'
BY DEF RelayTypeOK, relayVars

\* What a client sends, handles or applies.
LEMMA EffectTyped ==
    ASSUME NEW M, RelayTypeOK(M), NEW p \in Players,
           NEW Kind, Kind \subseteq M, RelayEffect(p, Kind)
    PROVE  RelayTypeOK(M)'
<1>1. CASE UNCHANGED relayVars
    BY <1>1, StillRelayTyped
<1>2. ASSUME NEW msgs \in Seq(Kind), Send(p, msgs)
      PROVE  RelayTypeOK(M)'
  <2>1. msgs \in Seq(M)
    BY MoreMessages
  <2>2. uplink[p] \in Seq(M)
    BY DEF RelayTypeOK
  <2>3. uplink[p] \o msgs \in Seq(M)
    BY <2>1, <2>2, ConcatProperties
  <2>4. uplink' = [uplink EXCEPT ![p] = uplink[p] \o msgs]
    BY <1>2 DEF Send
  <2>5. uplink' \in [Players -> Seq(M)]
    BY <2>3, <2>4 DEF RelayTypeOK
  <2>6. QED BY <1>2, <2>5 DEF RelayTypeOK, Send
<1>3. CASE HandleNext(p, Kind)
  <2>1. downlink' \in [Players -> Seq(M)]
    BY <1>3, FirstTaken DEF RelayTypeOK, HandleNext
  <2>2. QED BY <1>3, <2>1 DEF RelayTypeOK, HandleNext
<1>4. CASE ToApply(p, Kind) /\ Applied(p)
  <2>1. pending' \in [Players -> Seq(M)]
    BY <1>4, FirstTaken DEF RelayTypeOK, ToApply, Applied
  <2>2. QED BY <1>4, <2>1 DEF RelayTypeOK, Applied
<1>5. QED BY <1>1, <1>2, <1>3, <1>4 DEF RelayEffect

\* The relay adds nothing of its own.
LEMMA MovesTyped ==
    ASSUME NEW M, RelayTypeOK(M), NEW p \in Players,
           \/ Relay(p) \/ Receive(p) \/ TakeIncoming(p)
           \/ LoseSession(p) \/ JoinSession(p) \/ LeaveLevel(p) \/ EnterLevel(p)
    PROVE  RelayTypeOK(M)'
<1>1. CASE Relay(p)
  <2>1. uplink' \in [Players -> Seq(M)] /\ Head(uplink[p]) \in M
    BY <1>1, FirstTaken DEF RelayTypeOK, Relay
  <2>2. \A q \in Players : Append(downlink[q], Head(uplink[p])) \in Seq(M)
    BY <2>1 DEF RelayTypeOK
  <2>3. downlink' \in [Players -> Seq(M)]
    BY <1>1, <2>2 DEF RelayTypeOK, Relay
  <2>4. QED BY <1>1, <2>1, <2>3 DEF RelayTypeOK, Relay
<1>2. CASE Receive(p)
  <2>1. downlink' \in [Players -> Seq(M)] /\ Head(downlink[p]) \in M
    BY <1>2, FirstTaken DEF RelayTypeOK, Receive
  <2>2. Append(incoming[p], Head(downlink[p])) \in Seq(M)
    BY <2>1 DEF RelayTypeOK
  <2>3. incoming' \in [Players -> Seq(M)]
    BY <1>2, <2>2 DEF RelayTypeOK, Receive
  <2>4. QED BY <1>2, <2>1, <2>3 DEF RelayTypeOK, Receive
<1>3. CASE TakeIncoming(p)
  <2>1. incoming[p] \in Seq(M) /\ <<>> \in Seq(M)
    BY DEF RelayTypeOK
  <2>2. pending' \in [Players -> Seq(M)] /\ incoming' \in [Players -> Seq(M)]
    BY <1>3, <2>1 DEF RelayTypeOK, TakeIncoming
  <2>3. QED BY <1>3, <2>2 DEF RelayTypeOK, TakeIncoming
<1>4. CASE LoseSession(p)
  <2>1. <<>> \in Seq(M)
    OBVIOUS
  <2>2. /\ uplink' \in [Players -> Seq(M)]
        /\ downlink' \in [Players -> Seq(M)]
        /\ incoming' \in [Players -> Seq(M)]
    BY <1>4, <2>1 DEF RelayTypeOK, LoseSession
  <2>3. QED BY <1>4, <2>2 DEF RelayTypeOK, LoseSession
<1>5. CASE JoinSession(p)
    BY <1>5 DEF RelayTypeOK, JoinSession
<1>6. CASE LeaveLevel(p)
  <2>1. <<>> \in Seq(M)
    OBVIOUS
  <2>2. incoming' \in [Players -> Seq(M)]
    BY <1>6, <2>1 DEF RelayTypeOK, LeaveLevel
  <2>3. QED BY <1>6, <2>2 DEF RelayTypeOK, LeaveLevel
<1>7. CASE EnterLevel(p)
    BY <1>7 DEF RelayTypeOK, EnterLevel
<1>8. QED BY <1>1, <1>2, <1>3, <1>4, <1>5, <1>6, <1>7

LEMMA RelayInitTyped ==
    ASSUME RelayInit, NEW M
    PROVE  RelayTypeOK(M)
BY RelayAssumption DEF RelayInit, RelayTypeOK, NoQueue

-----------------------------------------------------------------------------
(* Pickups are granted once and announced once.  Neither is inductive: how  *)
(* often an item was granted has to be tied to the flag of the pickup, and  *)
(* what was announced to the cache.                                         *)

\* The item was granted exactly if the flag is set.
GrantedIsFlag == \A p \in Players, g \in Pickups :
    granted[p][g] = IF g \in collected[p] THEN 1 ELSE 0

\* What the cache has as taken is taken; only that may have been announced, and
\* once.
CacheBehindFlag == \A p \in Players, g \in Pickups :
    /\ pickupSeen[p][g] = "taken" => g \in collected[p]
    /\ announced[p][g] = 0 \/ (announced[p][g] = 1 /\ pickupSeen[p][g] = "taken")

PickupInv == PickupTypeOK /\ GrantedIsFlag /\ CacheBehindFlag

LEMMA PickupInitInv == ASSUME PickupInit PROVE PickupInv
BY DEF PickupInit, PickupInv, PickupTypeOK, GrantedIsFlag, CacheBehindFlag,
       NoPickupSeen, NoPickups

\* A player picks something up: flag and item change together.
LEMMA CollectInv ==
    ASSUME PickupInv, NEW p \in Players, NEW g \in Pickups, Collect(p, g)
    PROVE  PickupInv'
<1>1. PickupTypeOK'
    BY DEF PickupInv, PickupTypeOK, Collect
<1>2. GrantedIsFlag'
    BY DEF PickupInv, PickupTypeOK, GrantedIsFlag, Collect
<1>3. CacheBehindFlag'
    BY DEF PickupInv, PickupTypeOK, CacheBehindFlag, Collect
<1>4. QED BY <1>1, <1>2, <1>3 DEF PickupInv

\* Detection: the cache has been behind the flag, so a change seen is from lying to
\* taken, and has not been announced before.
LEMMA DetectPickupInv ==
    ASSUME PickupInv, NEW p \in Players, NEW g \in Pickups, DetectPickupChange(p, g)
    PROVE  PickupInv'
<1>1. PickupTypeOK'
  <2>1. pickupSeen' \in [Players -> [Pickups -> {"unseen", "lying", "taken"}]]
    BY DEF PickupInv, PickupTypeOK, DetectPickupChange, PickupFlag
  <2>2. announced' \in [Players -> [Pickups -> Nat]]
    <3>1. \/ announced' = announced
          \/ announced' = [announced EXCEPT ![p][g] = announced[p][g] + 1]
        BY DEF DetectPickupChange
    <3>2. announced \in [Players -> [Pickups -> Nat]]
        BY DEF PickupInv, PickupTypeOK
    <3>3. QED BY <3>1, <3>2
  <2>3. QED BY <2>1, <2>2 DEF PickupInv, PickupTypeOK, DetectPickupChange
<1>2. GrantedIsFlag'
    BY DEF PickupInv, GrantedIsFlag, DetectPickupChange
<1>3. CacheBehindFlag'
    BY DEF PickupInv, PickupTypeOK, CacheBehindFlag, DetectPickupChange, PickupFlag
<1>4. QED BY <1>1, <1>2, <1>3 DEF PickupInv

\* A remote pickup: an item is granted only with the flag.
LEMMA ApplyPickupInv ==
    ASSUME PickupInv, NEW p \in Players, ApplyPickupCollect(p)
    PROVE  PickupInv'
<1>1. Head(pending[p]).pickup \in Pickups
    BY DEF ApplyPickupCollect, ToApply, PickupMessages
<1>2. PICK g \in Pickups :
         /\ IF g \in collected[p]
            THEN UNCHANGED <<collected, granted>>
            ELSE /\ collected' = [collected EXCEPT ![p] = @ \cup {g}]
                 /\ granted' = [granted EXCEPT ![p][g] = @ + 1]
         /\ UNCHANGED <<pickupSeen, announced>>
    BY <1>1 DEF ApplyPickupCollect
<1>3. PickupTypeOK'
  <2>1. collected' \in [Players -> SUBSET Pickups]
    <3>1. collected' = collected \/ collected' = [collected EXCEPT ![p] = @ \cup {g}]
        BY <1>2
    <3>2. QED BY <3>1 DEF PickupInv, PickupTypeOK
  <2>2. granted' \in [Players -> [Pickups -> Nat]]
    <3>1. granted' = granted \/ granted' = [granted EXCEPT ![p][g] = @ + 1]
        BY <1>2
    <3>2. granted \in [Players -> [Pickups -> Nat]]
        BY DEF PickupInv, PickupTypeOK
    <3>3. QED BY <3>1, <3>2
  <2>3. QED BY <1>2, <2>1, <2>2 DEF PickupInv, PickupTypeOK
<1>4. GrantedIsFlag'
    BY <1>2 DEF PickupInv, PickupTypeOK, GrantedIsFlag
<1>5. CacheBehindFlag'
  <2>1. \A q \in Players : collected[q] \subseteq collected'[q]
    BY <1>2 DEF PickupInv, PickupTypeOK
  <2>2. QED BY <1>2, <2>1 DEF PickupInv, PickupTypeOK, CacheBehindFlag
<1>6. QED BY <1>3, <1>4, <1>5 DEF PickupInv

\* The player and the two threads of its client.
LEMMA PickupStepInv ==
    ASSUME PickupInv, NEW p \in Players, PickupStep(p)
    PROVE  PickupInv'
BY CollectInv, DetectPickupInv, ApplyPickupInv DEF PickupStep

\* The end of a session, or /reconnect: cache and announcements start anew, the
\* world does not.
LEMMA ResetPickupsInv ==
    ASSUME PickupInv, NEW p \in Players, ResetPickups(p)
    PROVE  PickupInv'
<1>1. PickupTypeOK'
    BY DEF PickupInv, PickupTypeOK, ResetPickups, NoPickupSeen, NoPickups
<1>2. GrantedIsFlag'
    BY DEF PickupInv, GrantedIsFlag, ResetPickups
<1>3. CacheBehindFlag'
    BY DEF PickupInv, PickupTypeOK, CacheBehindFlag, ResetPickups, NoPickupSeen, NoPickups
<1>4. QED BY <1>1, <1>2, <1>3 DEF PickupInv

\* The end of a visit: the world starts anew, and with it everything else.
LEMMA ReloadPickupsInv ==
    ASSUME PickupInv, NEW p \in Players, ReloadPickups(p)
    PROVE  PickupInv'
<1>1. PickupTypeOK'
    BY DEF PickupInv, PickupTypeOK, ReloadPickups, NoPickupSeen, NoPickups
<1>2. GrantedIsFlag'
    BY DEF PickupInv, PickupTypeOK, GrantedIsFlag, ReloadPickups, NoPickups
<1>3. CacheBehindFlag'
    BY DEF PickupInv, PickupTypeOK, CacheBehindFlag, ReloadPickups, NoPickupSeen, NoPickups
<1>4. QED BY <1>1, <1>2, <1>3 DEF PickupInv

\* What does not touch the pickups.
LEMMA PickupStutterInv ==
    ASSUME PickupInv, UNCHANGED pickupVars
    PROVE  PickupInv'
BY DEF PickupInv, PickupTypeOK, GrantedIsFlag, CacheBehindFlag, pickupVars

\* What the invariant is for.
LEMMA PickupInvSuffices ==
    ASSUME PickupInv
    PROVE  GrantedOnce /\ AnnouncedOnce
BY DEF PickupInv, GrantedIsFlag, CacheBehindFlag, GrantedOnce, AnnouncedOnce


\* What of this goes through the relay.
LEMMA PickupEffect ==
    ASSUME NEW p \in Players, PickupStep(p)
    PROVE  RelayEffect(p, PickupMessages)
<1>1. ASSUME NEW g \in Pickups, Collect(p, g) PROVE RelayEffect(p, PickupMessages)
    BY <1>1 DEF Collect, RelayEffect
<1>2. ASSUME NEW g \in Pickups, DetectPickupChange(p, g) PROVE RelayEffect(p, PickupMessages)
  <2>1. <<PickupCollect(g)>> \in Seq(PickupMessages)
    BY DEF PickupCollect, PickupMessages
  <2>2. QED BY <1>2, <2>1 DEF DetectPickupChange, Playing, RelayEffect
<1>3. CASE ApplyPickupCollect(p)
    BY <1>3 DEF ApplyPickupCollect, RelayEffect
<1>4. QED BY <1>1, <1>2, <1>3 DEF PickupStep
-----------------------------------------------------------------------------
(* A chest is opened once, and only what its own player opened is sent.  A  *)
(* client without a session may keep openings of a visit that is over; it   *)
(* forgets them before it has a session again.                              *)

\* How often a chest has been opened, and what the hook may have queued.
ChestShape ==
    /\ online \subseteq Players
    /\ opened \in [Players -> [Chests -> {0, 1}]]
    /\ outgoingOpens \in [Players -> Seq(ChestMessages)]
    /\ openedBy \in [Players -> SUBSET Chests]

ChestInv == ChestShape /\ OnlyOwnOpens

LEMMA ChestInitInv == ASSUME RelayInit, ChestInit PROVE ChestInv
BY RelayAssumption
DEF RelayInit, ChestInit, ChestInv, ChestShape, OnlyOwnOpens, Closed, NoQueue

\* The player opens a chest: the hook queues it behind what is queued.
LEMMA OpenInv ==
    ASSUME ChestInv, NEW p \in Players, NEW c \in Chests, Open(p, c)
    PROVE  ChestInv'
<1>1. /\ opened' = [opened EXCEPT ![p][c] = 1]
      /\ outgoingOpens' = [outgoingOpens EXCEPT ![p] = Append(outgoingOpens[p], ChestOpen(c))]
      /\ openedBy' = [openedBy EXCEPT ![p] = openedBy[p] \cup {c}]
      /\ online' = online
    BY DEF Open, relayVars
<1>2. ChestOpen(c) \in ChestMessages /\ ChestOpen(c).chest = c
    BY DEF ChestOpen, ChestMessages
<1>3. outgoingOpens[p] \in Seq(ChestMessages)
    BY DEF ChestInv, ChestShape
<1>4. outgoingOpens'[p] \in Seq(ChestMessages)
    BY <1>1, <1>2, <1>3 DEF ChestInv, ChestShape
<1>5. opened' \in [Players -> [Chests -> {0, 1}]]
    BY <1>1 DEF ChestInv, ChestShape
<1>6. ChestShape'
    BY <1>1, <1>2, <1>3, <1>5 DEF ChestInv, ChestShape
<1>7. ASSUME NEW q \in online, NEW i \in DOMAIN outgoingOpens'[q]
      PROVE  outgoingOpens'[q][i].chest \in openedBy'[q]
  <2>1. CASE q = p
    <3>1. /\ openedBy'[p] = openedBy[p] \cup {c}
          /\ outgoingOpens'[p] = Append(outgoingOpens[p], ChestOpen(c))
        BY <1>1 DEF ChestInv, ChestShape
    <3>2. i \in DOMAIN outgoingOpens[p] \/ outgoingOpens'[p][i] = ChestOpen(c)
        BY <1>3, <1>7, <2>1, <3>1
    <3>3. i \in DOMAIN outgoingOpens[p] => outgoingOpens'[p][i] = outgoingOpens[p][i]
        BY <1>3, <3>1
    <3>4. QED BY <1>2, <1>7, <2>1, <3>1, <3>2, <3>3 DEF ChestInv, OnlyOwnOpens
  <2>2. CASE q # p
    BY <1>1, <1>7, <2>2 DEF ChestInv, ChestShape, OnlyOwnOpens
  <2>3. QED BY <2>1, <2>2
<1>8. QED BY <1>1, <1>6, <1>7 DEF ChestInv, OnlyOwnOpens

\* The network thread empties the queue of the hook.
LEMMA SendChestInv ==
    ASSUME ChestInv, NEW p \in Players, SendChestOpens(p)
    PROVE  ChestInv'
BY DEF ChestInv, ChestShape, OnlyOwnOpens, SendChestOpens, Send

\* A remote opening: past the hook, and only of a chest that is closed.
LEMMA ApplyChestInv ==
    ASSUME ChestInv, NEW p \in Players, ApplyChestOpen(p)
    PROVE  ChestInv'
<1>1. Head(pending[p]).chest \in Chests
    BY DEF ApplyChestOpen, ToApply, ChestMessages
<1>2. PICK c \in Chests :
         opened' = [opened EXCEPT ![p][c] = IF opened[p][c] > 0 THEN opened[p][c] ELSE 1]
    BY <1>1 DEF ApplyChestOpen
<1>3. opened' \in [Players -> [Chests -> {0, 1}]]
    BY <1>2 DEF ChestInv, ChestShape
<1>4. UNCHANGED <<online, outgoingOpens, openedBy>>
    BY DEF ApplyChestOpen, Applied
<1>5. QED BY <1>3, <1>4 DEF ChestInv, ChestShape, OnlyOwnOpens

\* The player and the two threads of its client.
LEMMA ChestStepInv ==
    ASSUME ChestInv, NEW p \in Players, ChestStep(p)
    PROVE  ChestInv'
BY OpenInv, SendChestInv, ApplyChestInv DEF ChestStep

\* The end of a session, or the beginning of the next: nothing is left to send.
LEMMA ResetChestsInv ==
    ASSUME ChestInv, NEW p \in Players, online' \subseteq online \cup {p}, ResetChests(p)
    PROVE  ChestInv'
BY DEF ChestInv, ChestShape, OnlyOwnOpens, ResetChests

\* The end of a visit: a client with a session has nothing left to send.
LEMMA ReloadChestsInv ==
    ASSUME ChestInv, NEW p \in Players, online' = online, ReloadChests(p)
    PROVE  ChestInv'
<1>1. ChestShape'
    BY DEF ChestInv, ChestShape, ReloadChests, Closed
<1>2. OnlyOwnOpens'
    BY DEF ChestInv, ChestShape, OnlyOwnOpens, ReloadChests
<1>3. QED BY <1>1, <1>2 DEF ChestInv

\* What touches neither the chests nor who has a session.
LEMMA ChestStutterInv ==
    ASSUME ChestInv, online' = online, UNCHANGED chestVars
    PROVE  ChestInv'
BY DEF ChestInv, ChestShape, OnlyOwnOpens, chestVars

\* What the invariant is for.
LEMMA ChestInvSuffices ==
    ASSUME ChestInv
    PROVE  ChestTypeOK /\ OpenedOnce /\ OnlyOwnOpens
<1>1. \A f \in [Chests -> {0, 1}] : f \in [Chests -> Nat]
    OBVIOUS
<1>2. opened \in [Players -> [Chests -> Nat]]
    BY <1>1 DEF ChestInv, ChestShape
<1>3. ChestTypeOK
    BY <1>2 DEF ChestInv, ChestShape, ChestTypeOK
<1>4. OpenedOnce
    BY DEF ChestInv, ChestShape, OpenedOnce
<1>5. QED BY <1>3, <1>4 DEF ChestInv


\* What of this goes through the relay.
LEMMA ChestEffect ==
    ASSUME ChestInv, NEW p \in Players, ChestStep(p)
    PROVE  RelayEffect(p, ChestMessages)
<1>1. ASSUME NEW c \in Chests, Open(p, c) PROVE RelayEffect(p, ChestMessages)
    BY <1>1 DEF Open, RelayEffect
<1>2. CASE SendChestOpens(p)
  <2>1. outgoingOpens[p] \in Seq(ChestMessages)
    BY DEF ChestInv, ChestShape
  <2>2. QED BY <1>2, <2>1 DEF SendChestOpens, Playing, RelayEffect
<1>3. CASE ApplyChestOpen(p)
    BY <1>3 DEF ApplyChestOpen, RelayEffect
<1>4. QED BY <1>1, <1>2, <1>3 DEF ChestStep
-----------------------------------------------------------------------------
(* A remote cut of a web wall is not sent on though it is applied through   *)
(* the hook, and a mark is of this visit to the level.  Both hold only of      *)
(* clients with a session: one without may keep marks of its last visit,    *)
(* and forgets them before the next session begins.                         *)

WallInv ==
    /\ WallTypeOK
    /\ online \subseteq Players
    /\ OnlyOwnCuts
    /\ MarksOfThisVisit

WallSets == [Players -> SUBSET Walls]

LEMMA WallInitInv == ASSUME RelayInit, WallInit PROVE WallInv
BY RelayAssumption DEF RelayInit, WallInit, WallInv, WallTypeOK, OnlyOwnCuts, MarksOfThisVisit,
       Whole, NoWalls

\* What the hook does keeps the types, counts the wall as broken, and puts it in the
\* slot only if it was not known.
LEMMA HookedBreakTypes ==
    ASSUME WallTypeOK, NEW p \in Players, NEW w \in Walls,
           NEW known \in SUBSET Walls, HookedBreak(p, w, known)
    PROVE  /\ sent' \in WallSets
           /\ slot' \in [Players -> Walls \cup {NoWall}]
           /\ broken' \in [Players -> [Walls -> Nat]]
           /\ \A q \in Players, v \in Walls : broken[q][v] > 0 => broken'[q][v] > 0
           /\ broken'[p][w] > 0
           /\ \A q \in Players : slot'[q] = slot[q] \/ (q = p /\ slot'[q] = w /\ w \notin known)
<1>1. /\ sent \in WallSets
      /\ slot \in [Players -> Walls \cup {NoWall}]
      /\ broken \in [Players -> [Walls -> Nat]]
    BY DEF WallTypeOK, WallSets
<1>2. sent' \in WallSets
    BY <1>1 DEF HookedBreak, WallSets
<1>3. slot' \in [Players -> Walls \cup {NoWall}]
    BY <1>1 DEF HookedBreak
<1>4. broken' = [broken EXCEPT ![p][w] = @ + 1]
    BY DEF HookedBreak
<1>5. broken' \in [Players -> [Walls -> Nat]]
    BY <1>1, <1>4
<1>6. /\ \A q \in Players, v \in Walls : broken[q][v] > 0 => broken'[q][v] > 0
      /\ broken'[p][w] > 0
    BY <1>1, <1>4
<1>7. \A q \in Players : slot'[q] = slot[q] \/ (q = p /\ slot'[q] = w /\ w \notin known)
    BY <1>1 DEF HookedBreak
<1>8. QED BY <1>2, <1>3, <1>5, <1>6, <1>7

\* A layer is activated or deactivated, which changes no mark.
LEMMA SwitchLayerInv ==
    ASSUME WallInv, NEW p \in Players, NEW w \in Walls, SwitchLayer(p, w)
    PROVE  WallInv'
<1>1. online' = online /\ UNCHANGED <<broken, sent, slot, applied, cut, missed>>
    BY DEF SwitchLayer, relayVars
<1>2. WallTypeOK'
    BY <1>1 DEF WallInv, WallTypeOK, SwitchLayer
<1>3. OnlyOwnCuts' /\ MarksOfThisVisit'
    BY <1>1 DEF WallInv, OnlyOwnCuts, MarksOfThisVisit
<1>4. QED BY <1>1, <1>2, <1>3 DEF WallInv

\* A player cuts a wall: it is in the slot only as a wall of its own.
LEMMA CutInv ==
    ASSUME WallInv, NEW p \in Players, NEW w \in Walls, Cut(p, w)
    PROVE  WallInv'
<1>1. online' = online /\ UNCHANGED <<applied, loaded, missed>>
    BY DEF Cut, relayVars
<1>2. sent[p] \in SUBSET Walls /\ HookedBreak(p, w, sent[p])
    BY DEF WallInv, WallTypeOK, Cut
<1>3. /\ sent' \in WallSets
      /\ slot' \in [Players -> Walls \cup {NoWall}]
      /\ broken' \in [Players -> [Walls -> Nat]]
      /\ \A q \in Players, v \in Walls : broken[q][v] > 0 => broken'[q][v] > 0
      /\ \A q \in Players : slot'[q] = slot[q] \/ (q = p /\ slot'[q] = w)
    BY <1>2, HookedBreakTypes DEF WallInv
<1>4. cut' = [cut EXCEPT ![p] = @ \cup {w}] /\ cut \in WallSets
    BY DEF Cut, WallInv, WallTypeOK, WallSets
<1>5. WallTypeOK'
    BY <1>1, <1>3, <1>4 DEF WallInv, WallTypeOK, WallSets
<1>6. OnlyOwnCuts'
    BY <1>1, <1>3, <1>4 DEF WallInv, OnlyOwnCuts, WallSets
<1>7. MarksOfThisVisit'
    BY <1>1, <1>3 DEF WallInv, MarksOfThisVisit
<1>8. QED BY <1>1, <1>5, <1>6, <1>7 DEF WallInv

\* The network thread empties the slot.
LEMMA SendWallInv ==
    ASSUME WallInv, NEW p \in Players, SendWebWallBreak(p)
    PROVE  WallInv'
<1>1. online' = online
    BY DEF SendWebWallBreak, Send
<1>2. WallTypeOK'
    BY DEF WallInv, WallTypeOK, SendWebWallBreak
<1>3. OnlyOwnCuts'
    BY <1>1 DEF WallInv, WallTypeOK, OnlyOwnCuts, SendWebWallBreak
<1>4. MarksOfThisVisit'
    BY <1>1 DEF WallInv, MarksOfThisVisit, SendWebWallBreak
<1>5. QED BY <1>1, <1>2, <1>3, <1>4 DEF WallInv

\* A remote cut is applied: the wall is known to the hook, which leaves the slot alone,
\* and what is marked is broken already, or now, or counts as missed.
LEMMA ApplyWallInv ==
    ASSUME WallInv, NEW p \in Players, ApplyWebWallBreak(p)
    PROVE  WallInv'
<1>1. Head(pending[p]).wall \in Walls
    BY DEF ApplyWebWallBreak, ToApply, WallMessages
<1>2. PICK w \in Walls :
         /\ applied' = [applied EXCEPT ![p] = @ \cup {w}]
         /\ \/ /\ HookedBreak(p, w, sent[p] \cup {w})
               /\ UNCHANGED missed
            \/ /\ missed' = [missed EXCEPT ![p] = @ \cup {w}]
               /\ UNCHANGED <<broken, sent, slot>>
            \/ /\ w \in applied[p] \/ Gone(p, w)
               /\ UNCHANGED <<broken, sent, slot, missed>>
         /\ UNCHANGED <<loaded, cut>>
    BY <1>1 DEF ApplyWebWallBreak
<1>3. online' = online
    BY DEF ApplyWebWallBreak, Applied
<1>4. /\ applied \in WallSets /\ applied' \in WallSets
      /\ missed \in WallSets /\ loaded \in WallSets
    BY <1>2 DEF WallInv, WallTypeOK, WallSets
<1>5. CASE HookedBreak(p, w, sent[p] \cup {w}) /\ UNCHANGED missed
  <2>1. sent[p] \cup {w} \in SUBSET Walls
    BY DEF WallInv, WallTypeOK
  <2>2. /\ sent' \in WallSets
        /\ slot' \in [Players -> Walls \cup {NoWall}]
        /\ broken' \in [Players -> [Walls -> Nat]]
        /\ \A q \in Players, v \in Walls : broken[q][v] > 0 => broken'[q][v] > 0
        /\ broken'[p][w] > 0
        /\ \A q \in Players : slot'[q] = slot[q]
    BY <1>5, <2>1, HookedBreakTypes DEF WallInv
  <2>3. WallTypeOK'
    BY <1>2, <1>4, <1>5, <2>2 DEF WallInv, WallTypeOK, WallSets
  <2>4. OnlyOwnCuts'
    BY <1>2, <1>3, <2>2 DEF WallInv, WallTypeOK, OnlyOwnCuts
  <2>5. MarksOfThisVisit'
    BY <1>2, <1>3, <1>4, <1>5, <2>2 DEF WallInv, MarksOfThisVisit, WallSets
  <2>6. QED BY <1>3, <2>3, <2>4, <2>5 DEF WallInv
<1>6. CASE /\ missed' = [missed EXCEPT ![p] = @ \cup {w}]
           /\ UNCHANGED <<broken, sent, slot>>
  <2>1. WallTypeOK'
    BY <1>2, <1>4, <1>6 DEF WallInv, WallTypeOK, WallSets
  <2>2. OnlyOwnCuts'
    BY <1>2, <1>3, <1>6 DEF WallInv, OnlyOwnCuts
  <2>3. MarksOfThisVisit'
    BY <1>2, <1>3, <1>4, <1>6 DEF WallInv, MarksOfThisVisit, WallSets
  <2>4. QED BY <1>3, <2>1, <2>2, <2>3 DEF WallInv
<1>7. CASE (w \in applied[p] \/ Gone(p, w)) /\ UNCHANGED <<broken, sent, slot, missed>>
  <2>1. WallTypeOK'
    BY <1>2, <1>4, <1>7 DEF WallInv, WallTypeOK, WallSets
  <2>2. OnlyOwnCuts'
    BY <1>2, <1>3, <1>7 DEF WallInv, OnlyOwnCuts
  <2>3. MarksOfThisVisit'
    BY <1>2, <1>3, <1>4, <1>7 DEF WallInv, MarksOfThisVisit, Gone, WallSets
  <2>4. QED BY <1>3, <2>1, <2>2, <2>3 DEF WallInv
<1>8. QED BY <1>2, <1>5, <1>6, <1>7

\* The player and the two threads of its client.
LEMMA WallStepInv ==
    ASSUME WallInv, NEW p \in Players, WallStep(p)
    PROVE  WallInv'
BY SwitchLayerInv, CutInv, SendWallInv, ApplyWallInv DEF WallStep

\* The end of a visit: a client with a session forgets its marks; the claims are not
\* about one without.
LEMMA ReloadWallsInv ==
    ASSUME WallInv, NEW p \in Players, online' = online, ReloadWalls(p)
    PROVE  WallInv'
<1>1. WallTypeOK'
    BY DEF WallInv, WallTypeOK, ReloadWalls, NewWalls, ForgetWalls, Whole
<1>2. OnlyOwnCuts'
    BY DEF WallInv, WallTypeOK, OnlyOwnCuts, ReloadWalls, NewWalls, ForgetWalls
<1>3. MarksOfThisVisit'
    BY DEF WallInv, WallTypeOK, MarksOfThisVisit, ReloadWalls, NewWalls, ForgetWalls
<1>4. QED BY <1>1, <1>2, <1>3 DEF WallInv

\* The end of a session, or the beginning of the next: the marks are forgotten.
LEMMA ResetWallsInv ==
    ASSUME WallInv, NEW p \in Players, online' \subseteq online \cup {p}, ResetWalls(p)
    PROVE  WallInv'
<1>1. WallTypeOK'
    BY DEF WallInv, WallTypeOK, ResetWalls, ForgetWalls
<1>2. OnlyOwnCuts' /\ MarksOfThisVisit'
    BY DEF WallInv, WallTypeOK, OnlyOwnCuts, MarksOfThisVisit, ResetWalls, ForgetWalls
<1>3. QED BY <1>1, <1>2 DEF WallInv

\* What touches neither the walls nor who has a session.
LEMMA WallStutterInv ==
    ASSUME WallInv, online' = online, UNCHANGED wallVars
    PROVE  WallInv'
BY DEF WallInv, WallTypeOK, OnlyOwnCuts, MarksOfThisVisit, wallVars

\* What of this goes through the relay.
LEMMA WallEffect ==
    ASSUME WallInv, NEW p \in Players, WallStep(p)
    PROVE  RelayEffect(p, WallMessages)
<1>1. ASSUME NEW w \in Walls, SwitchLayer(p, w) \/ Cut(p, w) PROVE RelayEffect(p, WallMessages)
    BY <1>1 DEF SwitchLayer, Cut, RelayEffect
<1>2. CASE SendWebWallBreak(p)
  <2>1. slot[p] \in Walls
    BY <1>2 DEF SendWebWallBreak, WallInv, WallTypeOK
  <2>2. <<WebWallBreak(slot[p])>> \in Seq(WallMessages)
    BY <2>1 DEF WebWallBreak, WallMessages
  <2>3. QED BY <1>2, <2>2 DEF SendWebWallBreak, Playing, RelayEffect
<1>3. CASE ApplyWebWallBreak(p)
    BY <1>3 DEF ApplyWebWallBreak, RelayEffect
<1>4. QED BY <1>1, <1>2, <1>3 DEF WallStep

-----------------------------------------------------------------------------
(* Every switch state that is sent is one a switch had when a player or the *)
(* game changed it.  A state is sent when the flags differ from the cache,   *)
(* so that it has to be one of those, or the flags those in the cache, or    *)
(* the cache empty.                                                         *)

ChangedOrSeen == \A p \in Players, s \in Switches :
    \/ switchSeen[p][s] \in {Unseen, switchFlags[p][s]}
    \/ SwitchToggle(s, switchFlags[p][s].state) \in changed

SwitchInv == SwitchTypeOK /\ ChangedOrSeen

\* Messages with states that switches were changed to.
Told == SwitchMessages \cap changed

LEMMA SwitchInitInv == ASSUME SwitchInit PROVE SwitchInv
BY DEF SwitchInit, SwitchInv, SwitchTypeOK, ChangedOrSeen, AllOff, Flags, States

\* What changes a switch, whatever it is, has the new state in the history.
LEMMA ChangeInv ==
    ASSUME SwitchInv, NEW p \in Players, NEW s \in Switches, NEW flags \in Flags,
           Change(p, s, flags)
    PROVE  SwitchInv' /\ changed \subseteq changed' /\ RelayEffect(p, Told)
<1>1. /\ switchFlags' = [switchFlags EXCEPT ![p][s] = flags]
      /\ changed' = changed \cup {SwitchToggle(s, flags.state)}
      /\ switchSeen' = switchSeen
      /\ changes' = changes + 1
    BY DEF Change
<1>2. SwitchToggle(s, flags.state) \in SwitchMessages
    BY DEF SwitchToggle, SwitchMessages, Flags
<1>3. SwitchTypeOK'
  <2>1. switchFlags' \in [Players -> [Switches -> Flags]]
    BY <1>1 DEF SwitchInv, SwitchTypeOK
  <2>2. changes' \in Nat
    BY <1>1 DEF SwitchInv, SwitchTypeOK
  <2>3. QED BY <1>1, <1>2, <2>1, <2>2 DEF SwitchInv, SwitchTypeOK
<1>4. ChangedOrSeen'
    BY <1>1 DEF SwitchInv, SwitchTypeOK, ChangedOrSeen
<1>5. RelayEffect(p, Told)
    BY DEF Change, RelayEffect
<1>6. QED BY <1>1, <1>3, <1>4, <1>5 DEF SwitchInv

\* The player uses a switch.
LEMMA ToggleInv ==
    ASSUME SwitchInv, NEW p \in Players, NEW s \in Switches, Toggle(p, s)
    PROVE  SwitchInv' /\ changed \subseteq changed' /\ RelayEffect(p, Told)
<1>1. switchFlags[p][s] \in Flags
    BY DEF SwitchInv, SwitchTypeOK
<1>2. [switchFlags[p][s] EXCEPT !.state = Other(@)] \in Flags
    BY <1>1 DEF Flags, Other, States
<1>3. QED BY <1>2, ChangeInv DEF Toggle

\* The game changes another bit.
LEMMA ChangeRestInv ==
    ASSUME SwitchInv, NEW p \in Players, NEW s \in Switches, ChangeRest(p, s)
    PROVE  SwitchInv' /\ changed \subseteq changed' /\ RelayEffect(p, Told)
<1>1. switchFlags[p][s] \in Flags
    BY DEF SwitchInv, SwitchTypeOK
<1>2. [switchFlags[p][s] EXCEPT !.rest = ~@] \in Flags
    BY <1>1 DEF Flags
<1>3. QED BY <1>2, ChangeInv DEF ChangeRest

\* A pass notices a change: only of a switch it has seen in another state.
LEMMA DetectSwitchInv ==
    ASSUME SwitchInv, NEW p \in Players, NEW s \in Switches, DetectSwitchChange(p, s)
    PROVE  SwitchInv' /\ changed' = changed /\ RelayEffect(p, Told)
<1>1. switchFlags[p][s] \in Flags /\ switchFlags[p][s].state \in States
    BY DEF SwitchInv, SwitchTypeOK, Flags
<1>2. switchSeen' = [switchSeen EXCEPT ![p][s] = switchFlags[p][s]]
    BY DEF DetectSwitchChange
<1>3. SwitchTypeOK'
    BY <1>1 DEF SwitchInv, SwitchTypeOK, DetectSwitchChange
<1>4. ChangedOrSeen'
    BY DEF SwitchInv, SwitchTypeOK, ChangedOrSeen, DetectSwitchChange
<1>5. RelayEffect(p, Told)
  <2>1. CASE switchSeen[p][s] = Unseen
    BY <2>1 DEF DetectSwitchChange, RelayEffect
  <2>2. CASE switchSeen[p][s] # Unseen
    <3>1. SwitchToggle(s, switchFlags[p][s].state) \in changed
      BY <2>2 DEF DetectSwitchChange, SwitchInv, ChangedOrSeen
    <3>2. <<SwitchToggle(s, switchFlags[p][s].state)>> \in Seq(Told)
      BY <1>1, <3>1 DEF Told, SwitchToggle, SwitchMessages
    <3>3. QED BY <2>2, <3>2 DEF DetectSwitchChange, Playing, RelayEffect
  <2>3. QED BY <2>1, <2>2
<1>6. QED BY <1>3, <1>4, <1>5 DEF DetectSwitchChange, SwitchInv

\* A remote state is one a switch was changed to, if what is applied was.
LEMMA ApplySwitchInv ==
    ASSUME SwitchInv, NEW p \in Players, ApplySwitchToggle(p),
           Head(pending[p]) \in changed
    PROVE  SwitchInv' /\ changed' = changed /\ RelayEffect(p, Told)
<1>1. PICK m \in SwitchMessages :
         /\ m \in changed
         /\ switchFlags' = [switchFlags EXCEPT ![p][m.switch].state = m.state]
         /\ UNCHANGED <<switchSeen, changed, changes>>
    BY DEF ApplySwitchToggle, ToApply
<1>2. m.switch \in Switches /\ m.state \in States /\ m = SwitchToggle(m.switch, m.state)
    BY DEF SwitchMessages, SwitchToggle
<1>3. switchFlags \in [Players -> [Switches -> Flags]]
    BY DEF SwitchInv, SwitchTypeOK
<1>4. [switchFlags[p][m.switch] EXCEPT !.state = m.state] \in Flags
    BY <1>2, <1>3 DEF Flags
<1>5. switchFlags' \in [Players -> [Switches -> Flags]]
    BY <1>1, <1>2, <1>3, <1>4
<1>6. SwitchTypeOK'
    BY <1>1, <1>5 DEF SwitchInv, SwitchTypeOK
<1>7. \A q \in Players, s \in Switches :
        \/ switchFlags'[q][s] = switchFlags[q][s]
        \/ s = m.switch /\ switchFlags'[q][s].state = m.state
    BY <1>1, <1>2, <1>3 DEF Flags
<1>8. ChangedOrSeen'
    BY <1>1, <1>2, <1>7 DEF SwitchInv, ChangedOrSeen
<1>9. RelayEffect(p, Told)
    BY DEF ApplySwitchToggle, RelayEffect, ToApply, Told
<1>10. QED BY <1>1, <1>6, <1>8, <1>9 DEF SwitchInv

\* The player and the two threads of its client.
LEMMA SwitchStepInv ==
    ASSUME SwitchInv, NEW p \in Players, SwitchStep(p),
           ToApply(p, SwitchMessages) => Head(pending[p]) \in changed
    PROVE  SwitchInv' /\ changed \subseteq changed' /\ RelayEffect(p, Told)
<1>1. CASE ApplySwitchToggle(p)
    BY <1>1, ApplySwitchInv DEF ApplySwitchToggle
<1>2. QED BY <1>1, ToggleInv, ChangeRestInv, DetectSwitchInv DEF SwitchStep

\* The end of a session, and the end of a visit: the cache is forgotten.
LEMMA ForgetSwitchesInv ==
    ASSUME SwitchInv, NEW p \in Players, ResetSwitches(p) \/ ReloadSwitches(p)
    PROVE  SwitchInv' /\ changed' = changed
<1>1. NoSwitchSeen \in [Switches -> Flags \cup {Unseen}] /\ AllOff \in [Switches -> Flags]
    BY DEF NoSwitchSeen, AllOff, Flags, States
<1>2. /\ switchSeen' = [switchSeen EXCEPT ![p] = NoSwitchSeen]
      /\ switchFlags' = switchFlags \/ switchFlags' = [switchFlags EXCEPT ![p] = AllOff]
      /\ UNCHANGED <<changed, changes>>
    BY DEF ResetSwitches, ReloadSwitches
<1>3. SwitchTypeOK'
    BY <1>1, <1>2 DEF SwitchInv, SwitchTypeOK
<1>4. ChangedOrSeen'
    BY <1>2 DEF SwitchInv, SwitchTypeOK, ChangedOrSeen, NoSwitchSeen
<1>5. QED BY <1>2, <1>3, <1>4 DEF SwitchInv

\* What does not touch the switches.
LEMMA SwitchStutterInv ==
    ASSUME SwitchInv, UNCHANGED switchVars
    PROVE  SwitchInv' /\ changed' = changed
BY DEF SwitchInv, SwitchTypeOK, ChangedOrSeen, switchVars

-----------------------------------------------------------------------------
(* A press that was applied is not sent back.  A pass sends a trigger that   *)
(* has fired and that the cache has as armed; unless the player pressed it   *)
(* itself, that can only be the one whose application has not come to the    *)
(* snapshot yet.                                                             *)

\* A set of triggers is put into some order.
LEMMA SetToSeqTyped ==
    ASSUME NEW S, IsFiniteSet(S)
    PROVE  SetToSeq(S) \in Seq(S)
<1>1. Cardinality(S) \in Nat /\ ExistsBijection(1 .. Cardinality(S), S)
    BY FS_CardinalityType
<1>2. SetToSeq(S) \in [1 .. Cardinality(S) -> S]
    BY <1>1 DEF SetToSeq, ExistsBijection, Bijection, Injection
<1>3. QED BY <1>1, <1>2

\* While the game thread is applying a press, that press is still at the front of
\* what it has taken: nobody else takes it off, so that the last of the three steps
\* finds an entry to be done with.
StageInv == \A p \in Players : stage[p] # "none" => ToApply(p, TriggerMessages)

\* A press is being applied, and has not come to the snapshot.
BeingApplied(p, t) == stage[p] = "pressed" /\ t = Head(pending[p]).trigger

FiredByPlayer == \A p \in Players, t \in Triggers :
    t \in fired[p] /\ triggerSeen[p][t] = "armed" =>
        pressedBy[p][t] = "player" \/ BeingApplied(p, t)

TriggerInv == TriggerTypeOK /\ StageInv /\ FiredByPlayer

\* Messages about triggers that have fired in the world of p and that its cache has
\* as armed.
NewPresses(p) == {m \in TriggerMessages :
    m.trigger \in fired[p] /\ triggerSeen[p][m.trigger] = "armed"}

\* What is being applied is not touched.
Undisturbed == \A p \in Players : stage[p] # "none" => pending'[p] = pending[p]

LEMMA TriggerInitInv == ASSUME TriggerInit PROVE TriggerInv
BY DEF TriggerInit, TriggerInv, TriggerTypeOK, StageInv, FiredByPlayer

\* What does not touch the triggers, nor the press that is being applied.
LEMMA TriggerStutterInv ==
    ASSUME TriggerInv, UNCHANGED triggerVars, Undisturbed
    PROVE  TriggerInv'
<1>1. TriggerTypeOK'
    BY DEF TriggerInv, TriggerTypeOK, triggerVars
<1>2. StageInv'
    BY DEF TriggerInv, StageInv, ToApply, triggerVars, Undisturbed
<1>3. FiredByPlayer'
    BY DEF TriggerInv, FiredByPlayer, BeingApplied, triggerVars, Undisturbed
<1>4. QED BY <1>1, <1>2, <1>3 DEF TriggerInv

\* The player presses a trigger, or the game arms it again.
LEMMA PressInv ==
    ASSUME TriggerInv, NEW p \in Players, NEW t \in Triggers, Press(p, t) \/ Rearm(p, t)
    PROVE  TriggerInv'
<1>1. UNCHANGED <<pending, triggerSeen, suppressed, stage>>
    BY DEF Press, Rearm, relayVars
<1>2. TriggerTypeOK'
  <2>1. CASE Press(p, t)
    <3>1. fired' \in [Players -> SUBSET Triggers]
      BY <2>1 DEF TriggerInv, TriggerTypeOK, Press, Fire
    <3>2. pressedBy' \in [Players -> [Triggers -> {"nobody", "player", "message"}]]
      BY <2>1 DEF TriggerInv, TriggerTypeOK, Press, Fire
    <3>3. QED BY <1>1, <2>1, <3>1, <3>2 DEF TriggerInv, TriggerTypeOK, Press
  <2>2. CASE Rearm(p, t)
    BY <1>1, <2>2 DEF TriggerInv, TriggerTypeOK, Rearm
  <2>3. QED BY <2>1, <2>2
<1>3. StageInv'
    BY <1>1 DEF TriggerInv, StageInv, ToApply
<1>4. FiredByPlayer'
    BY <1>1 DEF TriggerInv, TriggerTypeOK, FiredByPlayer, BeingApplied, Press, Rearm, Fire
<1>5. QED BY <1>2, <1>3, <1>4 DEF TriggerInv

\* A pass sends what has fired since the last, and remembers it.
LEMMA DetectTriggerInv ==
    ASSUME TriggerInv, NEW p \in Players, DetectTriggerChanges(p)
    PROVE  TriggerInv' /\ p \in online /\ \E msgs \in Seq(NewPresses(p)) : Send(p, msgs)
<1>1. /\ triggerSeen' = [triggerSeen EXCEPT ![p] = SeenAfterPass(p)]
      /\ suppressed' = [suppressed EXCEPT ![p] = {}]
      /\ Send(p, Presses(p))
      /\ UNCHANGED <<fired, stage, pressedBy, presses, pending>>
    BY DEF DetectTriggerChanges, Send
<1>2. TriggerTypeOK'
  <2>1. SeenAfterPass(p) \in [Triggers -> {"unseen", "armed", "fired"}]
    BY DEF TriggerInv, TriggerTypeOK, SeenAfterPass, TriggerFlag
  <2>2. QED BY <1>1, <2>1 DEF TriggerInv, TriggerTypeOK
<1>3. StageInv'
    BY <1>1 DEF TriggerInv, StageInv, ToApply
<1>4. FiredByPlayer'
  <2> SUFFICES ASSUME NEW q \in Players, NEW t \in Triggers,
                      t \in fired[q], triggerSeen'[q][t] = "armed"
               PROVE  triggerSeen[q][t] = "armed"
    BY <1>1 DEF TriggerInv, FiredByPlayer, BeingApplied
  <2>1. q # p => triggerSeen'[q] = triggerSeen[q]
    BY <1>1 DEF TriggerInv, TriggerTypeOK
  <2>2. triggerSeen'[p] = SeenAfterPass(p)
    BY <1>1 DEF TriggerInv, TriggerTypeOK
  <2>3. QED BY <2>1, <2>2 DEF SeenAfterPass, TriggerFlag
<1>5. Presses(p) \in Seq(NewPresses(p))
  <2> DEFINE S == {TriggerOnPressB(t) : t \in JustFired(p)}
  <2>1. IsFiniteSet(JustFired(p))
    BY TriggerAssumption, FS_Subset DEF JustFired, Watched
  <2>2. IsFiniteSet(S)
    <3> DEFINE f == [t \in JustFired(p) |-> TriggerOnPressB(t)]
    <3>1. f \in Surjection(JustFired(p), S)
      BY DEF Surjection
    <3>2. QED BY <2>1, <3>1, FS_Surjection
  <2>3. S \subseteq NewPresses(p)
    BY DEF NewPresses, JustFired, Watched, TriggerOnPressB, TriggerMessages
  <2>4. Presses(p) = SetToSeq(S)
    BY DEF Presses
  <2> HIDE DEF S
  <2>5. QED BY <2>2, <2>3, <2>4, SetToSeqTyped, MoreMessages
<1>6. QED BY <1>1, <1>2, <1>3, <1>4, <1>5 DEF TriggerInv, DetectTriggerChanges, Playing

\* A press is suppressed, and pressed.
LEMMA ApplyPressInv ==
    ASSUME TriggerInv, NEW p \in Players, SuppressTrigger(p) \/ PressRemotely(p)
    PROVE  TriggerInv'
<1>1. pending' = pending /\ triggerSeen' = triggerSeen /\ presses' = presses
    BY DEF SuppressTrigger, PressRemotely, relayVars
<1>2. ToApply(p, TriggerMessages)
    BY DEF SuppressTrigger, PressRemotely, TriggerInv, StageInv
<1>3. PICK t \in Triggers : t = Head(pending[p]).trigger
    BY <1>2 DEF ToApply, TriggerMessages
<1>4. CASE SuppressTrigger(p)
  <2>1. /\ stage' = [stage EXCEPT ![p] = "suppressed"]
        /\ suppressed' = [suppressed EXCEPT ![p] = @ \cup {t}]
        /\ UNCHANGED <<fired, pressedBy>>
        /\ stage[p] = "none"
    BY <1>3, <1>4 DEF SuppressTrigger
  <2>2. TriggerTypeOK'
    BY <1>1, <2>1 DEF TriggerInv, TriggerTypeOK
  <2>3. StageInv'
    BY <1>1, <1>2, <2>1 DEF TriggerInv, TriggerTypeOK, StageInv, ToApply
  <2>4. FiredByPlayer'
    BY <1>1, <2>1 DEF TriggerInv, TriggerTypeOK, FiredByPlayer, BeingApplied
  <2>5. QED BY <2>2, <2>3, <2>4 DEF TriggerInv
<1>5. CASE PressRemotely(p)
  <2>1. /\ stage' = [stage EXCEPT ![p] = "pressed"]
        /\ fired' = [fired EXCEPT ![p] = @ \cup {t}]
        /\ pressedBy' = [pressedBy EXCEPT ![p][t] = IF t \in fired[p] THEN @ ELSE "message"]
        /\ UNCHANGED suppressed
        /\ stage[p] = "suppressed"
    BY <1>3, <1>5 DEF PressRemotely, Fire
  <2>2. TriggerTypeOK'
    <3>1. pressedBy' \in [Players -> [Triggers -> {"nobody", "player", "message"}]]
      BY <2>1 DEF TriggerInv, TriggerTypeOK
    <3>2. QED BY <1>1, <2>1, <3>1 DEF TriggerInv, TriggerTypeOK
  <2>3. StageInv'
    BY <1>1, <1>2, <2>1 DEF TriggerInv, TriggerTypeOK, StageInv, ToApply
  <2>4. FiredByPlayer'
    BY <1>1, <1>3, <2>1 DEF TriggerInv, TriggerTypeOK, FiredByPlayer, BeingApplied
  <2>5. QED BY <2>2, <2>3, <2>4 DEF TriggerInv
<1>6. QED BY <1>4, <1>5

\* The snapshot: the cache has the flag, and the press is done.
LEMMA SnapshotInv ==
    ASSUME RelayInv, TriggerInv, NEW p \in Players, SnapshotTrigger(p)
    PROVE  TriggerInv' /\ RelayEffect(p, TriggerMessages)
<1>1. ToApply(p, TriggerMessages)
    BY DEF SnapshotTrigger, TriggerInv, StageInv
<1>2. PICK t \in Triggers : t = Head(pending[p]).trigger
    BY <1>1 DEF ToApply, TriggerMessages
<1>3. /\ stage' = [stage EXCEPT ![p] = "none"]
      /\ triggerSeen' = [triggerSeen EXCEPT ![p][t] = TriggerFlag(p, t)]
      /\ UNCHANGED <<fired, suppressed, pressedBy, presses>>
    BY <1>2 DEF SnapshotTrigger
<1>4. \A r \in Players \ {p} : pending'[r] = pending[r]
    BY QueuesKept DEF SnapshotTrigger, Applied, RelayInv, RelayShape, IsQueues
<1>5. TriggerTypeOK'
    BY <1>3 DEF TriggerInv, TriggerTypeOK, TriggerFlag
<1>6. StageInv'
    BY <1>3, <1>4 DEF TriggerInv, TriggerTypeOK, StageInv, ToApply
<1>7. FiredByPlayer'
  <2> SUFFICES ASSUME NEW q \in Players, NEW u \in Triggers,
                      u \in fired[q], triggerSeen'[q][u] = "armed"
               PROVE  pressedBy[q][u] = "player" \/ BeingApplied(q, u)'
    BY <1>3 DEF FiredByPlayer
  <2>1. CASE q = p
    <3>1. u # t /\ triggerSeen[p][u] = "armed"
      BY <1>3, <2>1 DEF TriggerInv, TriggerTypeOK, TriggerFlag
    <3>2. QED BY <1>2, <2>1, <3>1 DEF TriggerInv, FiredByPlayer, BeingApplied
  <2>2. CASE q # p
    BY <1>3, <1>4, <2>2 DEF TriggerInv, TriggerTypeOK, FiredByPlayer, BeingApplied
  <2>3. QED BY <2>1, <2>2
<1>8. RelayEffect(p, TriggerMessages)
    BY <1>1 DEF SnapshotTrigger, RelayEffect
<1>9. QED BY <1>5, <1>6, <1>7, <1>8 DEF TriggerInv

\* The player and the two threads of its client.
LEMMA TriggerStepInv ==
    ASSUME RelayInv, TriggerInv, NEW p \in Players, TriggerStep(p)
    PROVE  TriggerInv' /\ RelayEffect(p, TriggerMessages)
<1>1. ASSUME NEW t \in Triggers, Press(p, t) \/ Rearm(p, t)
      PROVE  RelayEffect(p, TriggerMessages)
    BY <1>1 DEF Press, Rearm, RelayEffect
<1>2. CASE DetectTriggerChanges(p)
  <2>1. PICK msgs \in Seq(NewPresses(p)) : p \in online /\ Send(p, msgs)
    BY <1>2, DetectTriggerInv
  <2>2. msgs \in Seq(TriggerMessages)
    BY MoreMessages DEF NewPresses
  <2>3. QED BY <1>2, <2>1, <2>2, DetectTriggerInv DEF RelayEffect
<1>3. CASE SuppressTrigger(p) \/ PressRemotely(p)
    BY <1>3, ApplyPressInv DEF SuppressTrigger, PressRemotely, RelayEffect
<1>4. QED BY <1>1, <1>2, <1>3, PressInv, SnapshotInv DEF TriggerStep

\* The end of a session, or the beginning of the next: the cache is forgotten.
LEMMA ResetTriggersInv ==
    ASSUME TriggerInv, NEW p \in Players, ResetTriggers(p), pending' = pending
    PROVE  TriggerInv'
<1>1. TriggerTypeOK'
    BY DEF TriggerInv, TriggerTypeOK, ResetTriggers, ForgetTriggers, NoTriggerSeen
<1>2. StageInv'
    BY DEF TriggerInv, StageInv, ToApply, ResetTriggers
<1>3. FiredByPlayer'
    BY DEF TriggerInv, TriggerTypeOK, FiredByPlayer, BeingApplied, ResetTriggers,
           ForgetTriggers, NoTriggerSeen
<1>4. QED BY <1>1, <1>2, <1>3 DEF TriggerInv

\* The end of a visit: all triggers are armed.
LEMMA ReloadTriggersInv ==
    ASSUME TriggerInv, NEW p \in Players, ReloadTriggers(p), pending' = pending
    PROVE  TriggerInv'
<1>1. TriggerTypeOK'
  <2>1. NoTriggerSeen \in [Triggers -> {"unseen", "armed", "fired"}]
    BY DEF NoTriggerSeen
  <2>2. /\ \/ triggerSeen' = [triggerSeen EXCEPT ![p] = NoTriggerSeen]
           \/ triggerSeen' = triggerSeen
        /\ suppressed' = [suppressed EXCEPT ![p] = {}] \/ suppressed' = suppressed
        /\ fired' = [fired EXCEPT ![p] = {}]
        /\ UNCHANGED <<stage, pressedBy, presses>>
    BY DEF ReloadTriggers, ForgetTriggers
  <2>3. QED BY <2>1, <2>2 DEF TriggerInv, TriggerTypeOK
<1>2. StageInv'
    BY DEF TriggerInv, StageInv, ToApply, ReloadTriggers
<1>3. FiredByPlayer'
    BY DEF TriggerInv, TriggerTypeOK, FiredByPlayer, BeingApplied, ReloadTriggers,
           ForgetTriggers, NoTriggerSeen
<1>4. QED BY <1>1, <1>2, <1>3 DEF TriggerInv

-----------------------------------------------------------------------------
(* The caches of a trigger that needs items are never ahead of it, for      *)
(* clients with a session; so what a pass sends is some of what is in it.   *)

ItemInv == ItemTypeOK /\ CacheNotAhead

\* A message carries items, no more than it has room for.
LEMMA ItemsOfMessage ==
    ASSUME NEW m \in ItemMessages
    PROVE  /\ m.items \in Seq(Required)
           /\ Len(m.items) \in 0 .. MaxItems
           /\ ToSet(m.items) \subseteq Required
<1>1. PICK k \in 0 .. MaxItems : m.items \in [1 .. k -> Required]
    BY DEF ItemMessages, SeqOf
<1>2. QED BY <1>1, ItemsAssumption DEF ToSet

\* A list of items stays one when an item is used, and loses none.
LEMMA UseTyped ==
    ASSUME NEW list \in Seq(Required), NEW i \in Required
    PROVE  /\ Use(list, i) \in Seq(Required)
           /\ Len(list) <= Len(Use(list, i))
           /\ Complete(list) => Complete(Use(list, i))
<1>1. CASE i \in ToSet(list) \/ Complete(list)
    BY <1>1 DEF Use
<1>2. CASE ~(i \in ToSet(list) \/ Complete(list))
    BY <1>2 DEF Use
<1>3. QED BY <1>1, <1>2

\* The front of the list fits into a message.
LEMMA ItemsFit ==
    ASSUME NEW list \in Seq(Required), NEW n \in 0 .. Len(list)
    PROVE  TriggerOnUse(Items(list, n)) \in ItemMessages /\ ToSet(Items(list, n)) \subseteq Required
<1>1. MaxItems \in Nat /\ Len(list) \in Nat
    BY ItemsAssumption
<1> DEFINE k == IF n > MaxItems THEN MaxItems ELSE n
<1>2. k \in 0 .. MaxItems /\ k \in 0 .. Len(list)
    BY <1>1
<1>3. Items(list, n) \in [1 .. k -> Required]
  <2>1. Items(list, n) = SubSeq(list, 1, k)
    BY DEF Items
  <2> HIDE DEF k
  <2>2. Items(list, n) \in Seq(Required) /\ Len(Items(list, n)) = k
    BY <1>1, <1>2, <2>1, SubSeqProperties
  <2>3. QED BY <2>2
<1> HIDE DEF k
<1>4. Items(list, n) \in SeqOf(Required, MaxItems)
    BY <1>2, <1>3 DEF SeqOf
<1>5. QED BY <1>3, <1>4 DEF TriggerOnUse, ItemMessages, ToSet

LEMMA ItemInitInv ==
    ASSUME RelayInit, ItemInit
    PROVE  ItemInv
<1>1. online \subseteq Players
    BY RelayAssumption DEF RelayInit
<1>2. ItemTypeOK
    BY ItemsAssumption DEF ItemInit, ItemTypeOK, NotApplying
<1>3. QED BY <1>1, <1>2 DEF ItemInit, ItemInv, CacheNotAhead

\* An item is added: the trigger only gets ahead.
LEMMA UseAhead ==
    ASSUME ItemInv, RelayInv, NEW p \in Players, NEW i \in Required,
           supplied' = [supplied EXCEPT ![p] = Use(@, i)],
           UNCHANGED <<countSeen, firingSeen, online>>
    PROVE  supplied' \in [Players -> Seq(Required)] /\ CacheNotAhead'
<1> DEFINE after == Use(supplied[p], i)
<1>1. supplied \in [Players -> Seq(Required)]
    BY DEF ItemInv, ItemTypeOK
<1>2. /\ after \in Seq(Required)
      /\ Len(supplied[p]) <= Len(after)
      /\ Complete(supplied[p]) => Complete(after)
    BY <1>1, UseTyped
<1> HIDE DEF after
<1>3. supplied' = [supplied EXCEPT ![p] = after]
    BY DEF after
<1>4. ASSUME NEW q \in online
      PROVE  countSeen[q] <= Len(supplied'[q]) /\ (firingSeen[q] => Complete(supplied'[q]))
  <2>1. q \in Players /\ countSeen[q] \in Int
    BY DEF RelayInv, RelayShape, ItemInv, ItemTypeOK, NotSeen
  <2>2. countSeen[q] <= Len(supplied[q]) /\ (firingSeen[q] => Complete(supplied[q]))
    BY DEF ItemInv, CacheNotAhead, Fired
  <2>3. CASE q = p
    <3>1. supplied'[p] = after /\ Len(supplied[p]) \in Nat /\ Len(after) \in Nat
      BY <1>1, <1>2, <1>3
    <3>2. QED BY <1>2, <2>1, <2>2, <2>3, <3>1
  <2>4. CASE q # p
    <3>1. supplied'[q] = supplied[q]
      BY <1>1, <1>3, <2>1, <2>4
    <3>2. QED BY <2>2, <3>1
  <2>5. QED BY <2>3, <2>4
<1>5. CacheNotAhead'
    BY <1>4 DEF CacheNotAhead, Fired
<1>6. QED BY <1>1, <1>2, <1>3, <1>5

\* The player places an item.
LEMMA PlaceItemInv ==
    ASSUME ItemInv, RelayInv, NEW p \in Players, NEW i \in Required, PlaceItem(p, i)
    PROVE  ItemInv' /\ RelayEffect(p, ItemMessages)
<1>1. /\ supplied' = [supplied EXCEPT ![p] = Use(@, i)]
      /\ unnoticed' = [unnoticed EXCEPT ![p] = @ \cup {i}]
      /\ UNCHANGED <<countSeen, firingSeen, lockSuppressed, itemsUsed, told, online>>
    BY DEF PlaceItem, relayVars
<1>2. supplied' \in [Players -> Seq(Required)] /\ CacheNotAhead'
    BY <1>1, UseAhead
<1>3. ItemTypeOK'
    BY <1>1, <1>2 DEF ItemInv, ItemTypeOK
<1>4. QED BY <1>2, <1>3 DEF ItemInv, PlaceItem, RelayEffect

\* A pass that skips the trigger.
LEMMA LiftSuppressionInv ==
    ASSUME ItemInv, NEW p \in Players, LiftSuppression(p)
    PROVE  ItemInv' /\ RelayEffect(p, ItemMessages)
<1>1. /\ UNCHANGED <<relayVars, supplied, countSeen, firingSeen, itemsUsed, told, unnoticed>>
      /\ lockSuppressed' = lockSuppressed \ {p}
    BY DEF LiftSuppression
<1>2. ItemTypeOK'
    BY <1>1 DEF ItemInv, ItemTypeOK
<1>3. QED BY <1>1, <1>2 DEF ItemInv, CacheNotAhead, Fired, RelayEffect, relayVars

\* A pass: the caches are what is there.
LEMMA DetectItemsInv ==
    ASSUME ItemInv, RelayInv, NEW p \in Players, DetectItems(p)
    PROVE  ItemInv' /\ RelayEffect(p, ItemMessages)
<1>1. /\ supplied[p] \in Seq(Required)
      /\ Len(supplied[p]) \in Nat
      /\ countSeen[p] \in Nat \cup {NotSeen}
      /\ countSeen[p] <= Len(supplied[p])
      /\ p \in online
    BY DEF ItemInv, ItemTypeOK, CacheNotAhead, DetectItems, Playing
<1>2. /\ countSeen' = [countSeen EXCEPT ![p] = Len(supplied[p])]
      /\ firingSeen' = [firingSeen EXCEPT ![p] = Fired(p)]
      /\ supplied' = supplied
    BY DEF DetectItems
<1>3. online' = online
    BY DEF DetectItems, Send, relayVars
<1>4. countSeen[p] # NotSeen =>
          /\ TriggerOnUse(ItemsToSend(p)) \in ItemMessages
          /\ ToSet(ItemsToSend(p)) \subseteq Required
  <2> SUFFICES ASSUME countSeen[p] # NotSeen
               PROVE  /\ TriggerOnUse(ItemsToSend(p)) \in ItemMessages
                      /\ ToSet(ItemsToSend(p)) \subseteq Required
    OBVIOUS
  <2>1. PICK n \in 0 .. Len(supplied[p]) : ItemsToSend(p) = Items(supplied[p], n)
    <3>1. Len(supplied[p]) \in 0 .. Len(supplied[p])
      BY <1>1
    <3>2. Len(supplied[p]) - countSeen[p] \in 0 .. Len(supplied[p])
      BY <1>1
    <3>3. QED BY <3>1, <3>2 DEF ItemsToSend
  <2>2. QED BY <1>1, <2>1, ItemsFit
<1>5. ItemTypeOK'
  <2>1. told' \in [Players -> SUBSET Required]
    <3>1. CASE countSeen[p] = NotSeen
      BY <3>1 DEF DetectItems, ItemInv, ItemTypeOK
    <3>2. CASE countSeen[p] # NotSeen
      <4>1. told' = [told EXCEPT ![p] = @ \cup ToSet(ItemsToSend(p))]
        BY <3>2 DEF DetectItems
      <4>2. QED BY <1>4, <3>2, <4>1 DEF ItemInv, ItemTypeOK
    <3>3. QED BY <3>1, <3>2
  <2>2. Fired(p) \in BOOLEAN
    BY DEF Fired, Complete
  <2>3. /\ UNCHANGED <<lockSuppressed, itemsUsed>>
        /\ unnoticed' = [unnoticed EXCEPT ![p] = {}]
    BY DEF DetectItems
  <2>4. QED BY <1>1, <1>2, <2>1, <2>2, <2>3 DEF ItemInv, ItemTypeOK
<1>6. CacheNotAhead'
  <2> SUFFICES ASSUME NEW q \in online
               PROVE  /\ countSeen'[q] <= Len(supplied[q])
                      /\ firingSeen'[q] => Complete(supplied[q])
    BY <1>2, <1>3 DEF CacheNotAhead, Fired
  <2>1. q \in Players
    BY DEF RelayInv, RelayShape
  <2>2. CASE q = p
    BY <1>1, <1>2, <2>1, <2>2 DEF ItemInv, ItemTypeOK, Fired
  <2>3. CASE q # p
    <3>1. countSeen'[q] = countSeen[q] /\ firingSeen'[q] = firingSeen[q]
      BY <1>2, <2>1, <2>3 DEF ItemInv, ItemTypeOK
    <3>2. QED BY <3>1 DEF ItemInv, CacheNotAhead, Fired
  <2>4. QED BY <2>2, <2>3
<1>7. RelayEffect(p, ItemMessages)
  <2>1. CASE countSeen[p] = NotSeen
    BY <2>1 DEF DetectItems, RelayEffect
  <2>2. CASE countSeen[p] # NotSeen
    <3>1. <<TriggerOnUse(ItemsToSend(p))>> \in Seq(ItemMessages)
      BY <1>4, <2>2
    <3>2. QED BY <1>1, <2>2, <3>1 DEF DetectItems, RelayEffect
  <2>3. QED BY <2>1, <2>2
<1>8. QED BY <1>5, <1>6, <1>7 DEF ItemInv

\* The game thread begins with a message.
LEMMA SuppressItemsInv ==
    ASSUME ItemInv, NEW p \in Players, SuppressItems(p)
    PROVE  ItemInv' /\ RelayEffect(p, ItemMessages)
<1>1. PICK m \in ItemMessages : m = Head(pending[p])
    BY DEF SuppressItems, ToApply
<1>2. /\ itemsUsed' = [itemsUsed EXCEPT ![p] = 0]
      /\ lockSuppressed' = lockSuppressed \cup {p}
      /\ told' = [told EXCEPT ![p] = @ \cup ToSet(m.items)]
      /\ UNCHANGED <<relayVars, supplied, countSeen, firingSeen, unnoticed>>
    BY <1>1 DEF SuppressItems
<1>3. ToSet(m.items) \subseteq Required /\ 0 \in NotApplying .. MaxItems
    BY ItemsOfMessage, ItemsAssumption DEF NotApplying
<1>4. ItemTypeOK'
    BY <1>2, <1>3 DEF ItemInv, ItemTypeOK
<1>5. QED BY <1>2, <1>4 DEF ItemInv, CacheNotAhead, Fired, RelayEffect, relayVars

\* It uses an item: one of the message, whose place the count has not passed.
LEMMA UseItemInv ==
    ASSUME ItemInv, RelayInv, NEW p \in Players, UseItem(p)
    PROVE  ItemInv' /\ RelayEffect(p, ItemMessages)
<1>1. PICK m \in ItemMessages : m = Head(pending[p])
    BY DEF UseItem, ToApply
<1>2. PICK next \in 1 .. Len(m.items) :
         /\ itemsUsed' = [itemsUsed EXCEPT ![p] = next]
         /\ supplied' = [supplied EXCEPT ![p] = Use(@, m.items[next])]
    BY <1>1 DEF UseItem
<1>3. UNCHANGED <<relayVars, countSeen, firingSeen, lockSuppressed, told, unnoticed>>
    BY DEF UseItem
<1>4. m.items \in Seq(Required) /\ Len(m.items) \in 0 .. MaxItems
    BY ItemsOfMessage
<1>5. m.items[next] \in Required /\ next \in NotApplying .. MaxItems
    BY <1>4, ItemsAssumption DEF NotApplying
<1>6. supplied' \in [Players -> Seq(Required)] /\ CacheNotAhead'
    BY <1>2, <1>3, <1>5, UseAhead DEF relayVars
<1>7. ItemTypeOK'
    BY <1>2, <1>3, <1>5, <1>6 DEF ItemInv, ItemTypeOK
<1>8. QED BY <1>3, <1>6, <1>7 DEF ItemInv, RelayEffect

\* It ends with the snapshot: the caches are what has become of the list.
LEMMA SnapshotItemsInv ==
    ASSUME ItemInv, RelayInv, NEW p \in Players, SnapshotItems(p)
    PROVE  ItemInv' /\ RelayEffect(p, ItemMessages)
<1>1. /\ itemsUsed' = [itemsUsed EXCEPT ![p] = NotApplying]
      /\ countSeen' = [countSeen EXCEPT ![p] = Len(supplied[p])]
      /\ firingSeen' = [firingSeen EXCEPT ![p] = Fired(p)]
      /\ UNCHANGED <<supplied, lockSuppressed, told, unnoticed, online>>
    BY DEF SnapshotItems, Applied
<1>2. /\ supplied[p] \in Seq(Required) /\ Len(supplied[p]) \in Nat
      /\ Fired(p) \in BOOLEAN
      /\ NotApplying \in NotApplying .. MaxItems
    BY ItemsAssumption DEF ItemInv, ItemTypeOK, Fired, Complete, NotApplying
<1>3. ItemTypeOK'
    BY <1>1, <1>2 DEF ItemInv, ItemTypeOK
<1>4. CacheNotAhead'
  <2> SUFFICES ASSUME NEW q \in online
               PROVE  /\ countSeen'[q] <= Len(supplied[q])
                      /\ firingSeen'[q] => Complete(supplied[q])
    BY <1>1 DEF CacheNotAhead, Fired
  <2>1. q \in Players
    BY DEF RelayInv, RelayShape
  <2>2. CASE q = p
    BY <1>1, <1>2, <2>1, <2>2 DEF ItemInv, ItemTypeOK, Fired
  <2>3. CASE q # p
    <3>1. countSeen'[q] = countSeen[q] /\ firingSeen'[q] = firingSeen[q]
      BY <1>1, <2>1, <2>3 DEF ItemInv, ItemTypeOK
    <3>2. QED BY <3>1 DEF ItemInv, CacheNotAhead, Fired
  <2>4. QED BY <2>2, <2>3
<1>5. RelayEffect(p, ItemMessages)
    BY DEF SnapshotItems, RelayEffect
<1>6. QED BY <1>3, <1>4, <1>5 DEF ItemInv

\* The player and the two threads of its client.
LEMMA ItemStepInv ==
    ASSUME ItemInv, RelayInv, NEW p \in Players, ItemStep(p)
    PROVE  ItemInv' /\ RelayEffect(p, ItemMessages)
BY PlaceItemInv, LiftSuppressionInv, DetectItemsInv, SuppressItemsInv, UseItemInv,
   SnapshotItemsInv DEF ItemStep

\* The end of a session, or the beginning of the next: the caches are forgotten.
LEMMA ResetItemsInv ==
    ASSUME ItemInv, RelayInv, NEW p \in Players, ResetItems(p), online' \subseteq online \cup {p}
    PROVE  ItemInv'
<1>1. ItemTypeOK'
    BY DEF ItemInv, ItemTypeOK, ResetItems, ForgetItems
<1>2. CacheNotAhead'
  <2> SUFFICES ASSUME NEW q \in online \cup {p}
               PROVE  /\ countSeen'[q] <= Len(supplied[q])
                      /\ firingSeen'[q] => Complete(supplied[q])
    BY DEF CacheNotAhead, Fired, ResetItems
  <2>1. q \in Players
    BY DEF RelayInv, RelayShape
  <2>2. CASE q = p
    <3>1. countSeen'[p] = -1 /\ ~firingSeen'[p] /\ Len(supplied[p]) \in Nat
      BY DEF ItemInv, ItemTypeOK, ResetItems, ForgetItems, NotSeen
    <3>2. QED BY <2>2, <3>1
  <2>3. CASE q # p
    <3>1. countSeen'[q] = countSeen[q] /\ firingSeen'[q] = firingSeen[q] /\ q \in online
      BY <2>1, <2>3 DEF ItemInv, ItemTypeOK, ResetItems, ForgetItems
    <3>2. QED BY <3>1 DEF ItemInv, CacheNotAhead, Fired
  <2>4. QED BY <2>2, <2>3
<1>3. QED BY <1>1, <1>2 DEF ItemInv

\* The end of a visit: the list is empty, and so are the caches of a client with a
\* session.
LEMMA ReloadItemsInv ==
    ASSUME ItemInv, RelayInv, NEW p \in Players, ReloadItems(p), online' = online
    PROVE  ItemInv'
<1>1. ItemTypeOK'
  <2>1. supplied' \in [Players -> Seq(Required)] /\ told' \in [Players -> SUBSET Required]
    BY DEF ItemInv, ItemTypeOK, ReloadItems
  <2>2. countSeen' \in [Players -> Nat \cup {NotSeen}] /\ firingSeen' \in [Players -> BOOLEAN]
    BY DEF ItemInv, ItemTypeOK, ReloadItems, ForgetItems
  <2>3. lockSuppressed' \subseteq Players
    BY DEF ItemInv, ItemTypeOK, ReloadItems, ForgetItems
  <2>4. unnoticed' \in [Players -> SUBSET Required]
        /\ itemsUsed' \in [Players -> NotApplying .. MaxItems]
    BY DEF ItemInv, ItemTypeOK, ReloadItems
  <2>5. QED BY <2>1, <2>2, <2>3, <2>4 DEF ItemTypeOK
<1>2. CacheNotAhead'
  <2> SUFFICES ASSUME NEW q \in online
               PROVE  /\ countSeen'[q] <= Len(supplied'[q])
                      /\ firingSeen'[q] => Complete(supplied'[q])
    BY DEF CacheNotAhead, Fired
  <2>1. q \in Players
    BY DEF RelayInv, RelayShape
  <2>2. CASE q = p
    <3>1. countSeen'[p] = -1 /\ ~firingSeen'[p] /\ Len(supplied'[p]) = 0
      BY <2>2 DEF ItemInv, ItemTypeOK, ReloadItems, ForgetItems, NotSeen
    <3>2. QED BY <2>2, <3>1
  <2>3. CASE q # p
    <3>1. /\ countSeen'[q] = countSeen[q]
          /\ firingSeen'[q] = firingSeen[q]
          /\ supplied'[q] = supplied[q]
      BY <2>1, <2>3 DEF ItemInv, ItemTypeOK, ReloadItems, ForgetItems
    <3>2. QED BY <3>1 DEF ItemInv, CacheNotAhead, Fired
  <2>4. QED BY <2>2, <2>3
<1>3. QED BY <1>1, <1>2 DEF ItemInv

\* What touches neither the trigger nor who has a session.
LEMMA ItemStutterInv ==
    ASSUME ItemInv, online' = online, UNCHANGED itemVars
    PROVE  ItemInv'
BY DEF ItemInv, ItemTypeOK, CacheNotAhead, Fired, itemVars

-----------------------------------------------------------------------------
(* Hoistables, push blocks and loops: what they keep, and what they send.   *)

LEMMA HoldInitInv == ASSUME HoldInit PROVE HoldTypeOK
BY DEF HoldInit, HoldTypeOK

\* The player, the passes of the network thread, and what it is told.
LEMMA HoldStepInv ==
    ASSUME HoldTypeOK, NEW p \in Players, HoldStep(p)
    PROVE  HoldTypeOK' /\ RelayEffect(p, HoldMessages)
<1>1. ASSUME NEW o \in Hoistables, Hoist(p, o)
      PROVE  HoldTypeOK' /\ RelayEffect(p, HoldMessages)
  <2>1. hoists' \in [Players -> Nat]
    BY <1>1 DEF Hoist, HoldTypeOK
  <2>2. QED BY <1>1, <2>1 DEF Hoist, HoldTypeOK, RelayEffect
<1>2. CASE PutDown(p)
    BY <1>2 DEF PutDown, HoldTypeOK, RelayEffect
<1>3. CASE AcquireHoistable(p)
  <2>1. hoisting[p] \in Hoistables
    BY <1>3 DEF AcquireHoistable, HoldTypeOK
  <2>2. <<HoistableAcquire(hoisting[p])>> \in Seq(HoldMessages)
    BY <2>1 DEF HoistableAcquire, HoldMessages
  <2>3. HoldTypeOK'
    BY <1>3, <2>1 DEF AcquireHoistable, HoldTypeOK
  <2>4. QED BY <1>3, <2>2, <2>3 DEF AcquireHoistable, Playing, RelayEffect
<1>4. CASE ReleaseHoistable(p)
  <2>1. currentHoistable[p] \in Hoistables
    BY <1>4 DEF ReleaseHoistable, HoldTypeOK
  <2>2. <<HoistableRelease(currentHoistable[p])>> \in Seq(HoldMessages)
    BY <2>1 DEF HoistableRelease, HoldMessages
  <2>3. HoldTypeOK'
    BY <1>4 DEF ReleaseHoistable, HoldTypeOK
  <2>4. QED BY <1>4, <2>2, <2>3 DEF ReleaseHoistable, Playing, RelayEffect
<1>5. CASE ProcessHoistable(p)
  <2>1. Head(downlink[p]).object \in Hoistables
    BY <1>5 DEF ProcessHoistable, HandleNext, HoldMessages
  <2>2. HoldTypeOK'
    BY <1>5, <2>1 DEF ProcessHoistable, HoldTypeOK
  <2>3. QED BY <1>5, <2>2 DEF ProcessHoistable, RelayEffect
<1>6. QED BY <1>1, <1>2, <1>3, <1>4, <1>5 DEF HoldStep

LEMMA ForgetHoldsInv ==
    ASSUME HoldTypeOK, NEW p \in Players, ResetHolds(p) \/ ReloadHolds(p)
    PROVE  HoldTypeOK'
<1>1. CASE ResetHolds(p)
    BY <1>1 DEF HoldTypeOK, ResetHolds
<1>2. CASE ReloadHolds(p)
  <2>1. currentHoistable' \in [Players -> Hoistables \cup {Nothing}]
    BY <1>2 DEF HoldTypeOK, ReloadHolds
  <2>2. QED BY <1>2, <2>1 DEF HoldTypeOK, ReloadHolds
<1>3. QED BY <1>1, <1>2

LEMMA HoldStutterInv == ASSUME HoldTypeOK, UNCHANGED holdVars PROVE HoldTypeOK'
BY DEF HoldTypeOK, holdVars

-----------------------------------------------------------------------------

LEMMA PushInitInv == ASSUME PushInit PROVE PushTypeOK
BY DEF PushInit, PushTypeOK, NoUpdates, Places

\* One step of one block.
LEMMA BlockTold ==
    ASSUME PushTypeOK, NEW p \in Players, NEW b \in Blocks
    PROVE  /\ place[p][b] \in Places
           /\ PushBlockAcquire(b) \in PushMessages
           /\ PushBlockRelease(b) \in PushMessages
           /\ PushBlockUpdate(b, place[p][b]) \in PushMessages
           /\ [toldPlaces EXCEPT ![p][b] = {place[p][b]}] \in [Players -> [Blocks -> SUBSET Places]]
<1>1. place[p][b] \in Places
    BY DEF PushTypeOK
<1>2. [toldPlaces EXCEPT ![p][b] = {place[p][b]}] \in [Players -> [Blocks -> SUBSET Places]]
    BY <1>1 DEF PushTypeOK
<1>3. PushBlockUpdate(b, place[p][b]) \in PushMessages
    BY <1>1 DEF PushBlockUpdate, PushMessages
<1>4. QED BY <1>1, <1>2, <1>3 DEF PushBlockAcquire, PushBlockRelease, PushMessages

\* The player, the passes of the network thread, what it is told, and the game thread.
LEMMA PushStepInv ==
    ASSUME PushTypeOK, NEW p \in Players, PushStep(p)
    PROVE  PushTypeOK' /\ RelayEffect(p, PushMessages)
<1>1. ASSUME NEW b \in Blocks, Push(p, b)
      PROVE  PushTypeOK' /\ RelayEffect(p, PushMessages)
  <2> DEFINE k == pushes[p][b] + 1
  <2>1. k \in 1 .. MaxPushes /\ k \in Nat
    BY <1>1, PushAssumption DEF Push, PushTypeOK
  <2>2. /\ pushes' = [pushes EXCEPT ![p][b] = k]
        /\ place' = [place EXCEPT ![p][b] = [by |-> p, push |-> k]]
        /\ pushing' = [pushing EXCEPT ![p] = b]
        /\ UNCHANGED <<relayVars, currentPushBlock, waiting, toldPlaces>>
    BY <1>1 DEF Push
  <2> HIDE DEF k
  <2>3. [by |-> p, push |-> k] \in Places
    BY <2>1 DEF Places
  <2>4. place' \in [Players -> [Blocks -> Places]]
    BY <2>2, <2>3 DEF PushTypeOK
  <2>5. pushes' \in [Players -> [Blocks -> Nat]]
    BY <2>1, <2>2 DEF PushTypeOK
  <2>6. QED BY <2>2, <2>4, <2>5 DEF PushTypeOK, RelayEffect
<1>2. CASE StopPushing(p)
    BY <1>2 DEF StopPushing, PushTypeOK, RelayEffect
<1>3. CASE AcquirePushBlock(p)
  <2>1. PICK b \in Blocks : b = pushing[p]
    BY <1>3 DEF AcquirePushBlock, PushTypeOK
  <2>2. PushTypeOK'
    BY <1>3, <2>1, BlockTold DEF AcquirePushBlock, PushTypeOK
  <2>3. <<PushBlockAcquire(b), PushBlockUpdate(b, place[p][b])>> \in Seq(PushMessages)
    BY BlockTold
  <2>4. QED BY <1>3, <2>1, <2>2, <2>3 DEF AcquirePushBlock, Playing, RelayEffect
<1>4. CASE UpdatePushBlock(p)
  <2>1. PICK b \in Blocks : b = currentPushBlock[p]
    BY <1>4 DEF UpdatePushBlock, PushTypeOK
  <2>2. PushTypeOK'
    BY <1>4, <2>1, BlockTold DEF UpdatePushBlock, PushTypeOK
  <2>3. <<PushBlockUpdate(b, place[p][b])>> \in Seq(PushMessages)
    BY BlockTold
  <2>4. QED BY <1>4, <2>1, <2>2, <2>3 DEF UpdatePushBlock, Playing, RelayEffect
<1>5. CASE ReleasePushBlock(p)
  <2>1. PICK b \in Blocks : b = currentPushBlock[p]
    BY <1>5 DEF ReleasePushBlock, PushTypeOK
  <2>2. PushTypeOK'
    BY <1>5, <2>1 DEF ReleasePushBlock, PushTypeOK
  <2>3. <<PushBlockRelease(b)>> \in Seq(PushMessages)
    BY BlockTold
  <2>4. QED BY <1>5, <2>1, <2>2, <2>3 DEF ReleasePushBlock, Playing, RelayEffect
<1>6. CASE ProcessPushBlock(p)
  <2>1. PICK m \in PushMessages : m = Head(downlink[p])
    BY <1>6 DEF ProcessPushBlock, HandleNext
  <2>2. m.type = "PUSHBLOCK_UPDATE" => m.block \in Blocks /\ m.at \in Places
    BY DEF PushMessages
  <2>3. waiting' = IF p \in onLevel /\ m.type = "PUSHBLOCK_UPDATE"
                   THEN [waiting EXCEPT ![p][m.block] = {m.at}] ELSE waiting
    BY <1>6, <2>1 DEF ProcessPushBlock
  <2>4. waiting' \in [Players -> [Blocks -> SUBSET Places]]
    <3>1. waiting \in [Players -> [Blocks -> SUBSET Places]]
      BY DEF PushTypeOK
    <3>2. CASE p \in onLevel /\ m.type = "PUSHBLOCK_UPDATE"
      <4>1. /\ waiting' = [waiting EXCEPT ![p][m.block] = {m.at}]
            /\ m.block \in Blocks /\ {m.at} \in SUBSET Places
        BY <2>2, <2>3, <3>2
      <4>2. QED BY <3>1, <4>1
    <3>3. CASE ~(p \in onLevel /\ m.type = "PUSHBLOCK_UPDATE")
      BY <2>3, <3>1, <3>3
    <3>4. QED BY <3>2, <3>3
  <2>5. PushTypeOK'
    BY <1>6, <2>4 DEF ProcessPushBlock, PushTypeOK
  <2>6. QED BY <1>6, <2>5 DEF ProcessPushBlock, RelayEffect
<1>7. CASE ApplyPushBlocks(p)
  <2> DEFINE new == [b \in Blocks |-> IF waiting[p][b] = {} THEN place[p][b]
                                      ELSE CHOOSE at \in waiting[p][b] : TRUE]
  <2>1. new \in [Blocks -> Places]
    BY DEF PushTypeOK
  <2>2. /\ place' = [place EXCEPT ![p] = new]
        /\ waiting' = [waiting EXCEPT ![p] = NoUpdates[p]]
        /\ UNCHANGED <<relayVars, pushing, currentPushBlock, toldPlaces, pushes>>
    BY <1>7 DEF ApplyPushBlocks
  <2> HIDE DEF new
  <2>3. NoUpdates[p] \in [Blocks -> SUBSET Places]
    BY DEF NoUpdates
  <2>4. QED BY <2>1, <2>2, <2>3 DEF PushTypeOK, RelayEffect
<1>8. QED BY <1>1, <1>2, <1>3, <1>4, <1>5, <1>6, <1>7 DEF PushStep

LEMMA ForgetPushesInv ==
    ASSUME PushTypeOK, NEW p \in Players, ResetPushes(p) \/ ReloadPushes(p)
    PROVE  PushTypeOK'
<1>1. CASE ResetPushes(p)
    BY <1>1 DEF PushTypeOK, ResetPushes
<1>2. CASE ReloadPushes(p)
  <2>1. /\ NoUpdates[p] \in [Blocks -> SUBSET Places]
        /\ [b \in Blocks |-> AtStart] \in [Blocks -> Places]
    BY DEF NoUpdates, Places
  <2>2. currentPushBlock' \in [Players -> Blocks \cup {NoBlock}]
    BY <1>2 DEF PushTypeOK, ReloadPushes
  <2>3. QED BY <1>2, <2>1, <2>2 DEF PushTypeOK, ReloadPushes
<1>3. QED BY <1>1, <1>2

LEMMA PushStutterInv == ASSUME PushTypeOK, UNCHANGED pushVars PROVE PushTypeOK'
BY DEF PushTypeOK, pushVars

-----------------------------------------------------------------------------
(* Loops: frames are frames, whatever is added and however long they travel. *)

\* What a frame is: a number modulo the period.
LEMMA IsFrame == \A n \in Int : n % Period \in Frames
BY AnimAssumption DEF Frames

LEMMA AnimInitInv == ASSUME AnimInit PROVE AnimTypeOK
BY AnimAssumption DEF AnimInit, AnimTypeOK, Frames

\* Time passes.
LEMMA TickInv ==
    ASSUME AnimTypeOK, Tick
    PROVE  AnimTypeOK' /\ UNCHANGED relayVars
<1>1. clock + 1 \in Int
    BY AnimAssumption DEF AnimTypeOK, Frames
<1>2. clock' \in Frames
    BY <1>1, IsFrame DEF Tick
<1>3. QED BY <1>2 DEF Tick, AnimTypeOK

\* The loops of a world begin.
LEMMA BeginLoopsInv ==
    ASSUME AnimTypeOK, NEW p \in Players, BeginLoops(p)
    PROVE  shift' \in [Players -> Frames] /\ late' \in [Players -> Frames]
<1>1. 0 \in Frames
    BY AnimAssumption DEF Frames
<1>2. QED BY <1>1 DEF BeginLoops, AnimTypeOK

\* The player, the passes of the network thread, what it is told, and the game thread.
LEMMA AnimStepInv ==
    ASSUME AnimTypeOK, NEW p \in Players, AnimStep(p)
    PROVE  AnimTypeOK' /\ RelayEffect(p, AnimMessages)
<1>1. clock \in Frames /\ clock \in Int /\ shift[p] \in Int
    BY AnimAssumption DEF AnimTypeOK, Frames
<1>2. CASE LoadLayer(p)
  <2>1. shift' \in [Players -> Frames] /\ late' \in [Players -> Frames]
    BY <1>2, BeginLoopsInv DEF LoadLayer
  <2>2. AnimTypeOK'
    BY <1>2, <2>1 DEF LoadLayer, AnimTypeOK
  <2>3. QED BY <1>2, <2>2 DEF LoadLayer, RelayEffect
<1>3. CASE SyncAnim(p)
    BY <1>3 DEF SyncAnim, AnimTypeOK, RelayEffect
<1>4. CASE SendAnimSync(p)
  <2>1. FrameOf(p) \in Frames
    <3>1. clock + shift[p] \in Int
      BY <1>1
    <3>2. QED BY <3>1, IsFrame DEF FrameOf
  <2>2. <<AnimSyncOf(FrameOf(p))>> \in Seq(AnimMessages)
    BY <1>1, <2>1 DEF AnimSyncOf, AnimSyncs, AnimMessages
  <2>3. AnimTypeOK'
    BY <1>4 DEF SendAnimSync, Send, AnimTypeOK
  <2>4. QED BY <1>4, <2>2, <2>3 DEF SendAnimSync, Playing, RelayEffect
<1>5. CASE SendAnimSyncRequest(p)
  <2>1. <<AnimSyncRequest>> \in Seq(AnimMessages)
    BY DEF AnimMessages
  <2>2. AnimTypeOK'
    BY <1>5 DEF SendAnimSyncRequest, Send, AnimTypeOK
  <2>3. QED BY <1>5, <2>1, <2>2 DEF SendAnimSyncRequest, Playing, RelayEffect
<1>6. CASE ProcessAnimSyncRequest(p)
  <2>1. HandleNext(p, AnimMessages)
    BY <1>6 DEF ProcessAnimSyncRequest, HandleNext, AnimMessages
  <2>2. AnimTypeOK'
    BY <1>6, <2>1 DEF ProcessAnimSyncRequest, HandleNext, AnimTypeOK
  <2>3. QED BY <2>1, <2>2 DEF RelayEffect
<1>7. CASE ProcessAnimSync(p)
  <2>1. HandleNext(p, AnimMessages) /\ Head(downlink[p]) \in AnimSyncs
    BY <1>7 DEF ProcessAnimSync, HandleNext, AnimMessages
  <2>2. AnimTypeOK'
    BY <1>7, <2>1 DEF ProcessAnimSync, HandleNext, AnimTypeOK
  <2>3. QED BY <2>1, <2>2 DEF RelayEffect
<1>8. CASE ApplyAnimSync(p)
  <2>1. PICK m \in AnimSyncs : m = incomingAnimFrames[p]
    BY <1>8 DEF ApplyAnimSync, AnimTypeOK
  <2>2. m.frame - clock \in Int /\ clock - m.at \in Int
    <3>1. m.frame \in Int /\ m.at \in Int
      BY AnimAssumption DEF AnimSyncs, Frames
    <3>2. QED BY <1>1, <3>1
  <2>3. (m.frame - clock) % Period \in Frames /\ (clock - m.at) % Period \in Frames
    BY <2>2, IsFrame
  <2>4. /\ shift' = [shift EXCEPT ![p] = (m.frame - clock) % Period]
        /\ late' = [late EXCEPT ![p] = (clock - m.at) % Period]
        /\ incomingAnimFrames' = [incomingAnimFrames EXCEPT ![p] = NoFrames]
        /\ UNCHANGED <<relayVars, clock, animSyncRequested, animSyncPullRequested, loads>>
    BY <1>8, <2>1 DEF ApplyAnimSync
  <2>5. AnimTypeOK'
    BY <2>3, <2>4 DEF AnimTypeOK
  <2>6. QED BY <2>4, <2>5 DEF RelayEffect
<1>9. QED BY <1>2, <1>3, <1>4, <1>5, <1>6, <1>7, <1>8 DEF AnimStep

\* The end of a session, or the beginning of the next.
LEMMA ResetAnimsInv ==
    ASSUME AnimTypeOK, NEW p \in Players, ResetAnims(p)
    PROVE  AnimTypeOK'
BY DEF AnimTypeOK, ResetAnims

\* The end of a visit.
LEMMA ReloadAnimsInv ==
    ASSUME AnimTypeOK, NEW p \in Players, ReloadAnims(p)
    PROVE  AnimTypeOK'
<1>1. shift' \in [Players -> Frames] /\ late' \in [Players -> Frames]
  <2>1. CASE HasLoops
    BY <2>1, BeginLoopsInv DEF ReloadAnims
  <2>2. CASE ~HasLoops
    BY <2>2 DEF ReloadAnims, AnimTypeOK
  <2>3. QED BY <2>1, <2>2
<1>2. animSyncRequested' \subseteq Hosts \cup Callers
    BY DEF ReloadAnims, AnimTypeOK
<1>3. animSyncPullRequested' \subseteq Players \ Hosts
    BY DEF ReloadAnims, AnimTypeOK
<1>4. incomingAnimFrames' \in [Players -> AnimSyncs \cup {NoFrames}]
    BY DEF ReloadAnims, AnimTypeOK
<1>5. clock' \in Frames /\ loads' \in Nat
    BY DEF ReloadAnims, AnimTypeOK
<1>6. QED BY <1>1, <1>2, <1>3, <1>4, <1>5 DEF AnimTypeOK

\* What does not touch the loops.
LEMMA AnimStutterInv == ASSUME AnimTypeOK, UNCHANGED animVars PROVE AnimTypeOK'
BY DEF AnimTypeOK, animVars

-----------------------------------------------------------------------------
(* Cutscenes, spawned objects, effects and stones.                          *)

LEMMA SceneInitInv == ASSUME SceneInit PROVE SceneTypeOK
BY DEF SceneInit, SceneTypeOK, AllWaiting, NothingShown, NoQueue

\* What is left of a queue off the level is of the same kind.
LEMMA OnlyOfNoLevelTyped ==
    ASSUME NEW msgs \in Seq(SceneMessages), msgs # <<>>
    PROVE  OnlyOfNoLevel(msgs) \in Seq(SceneMessages)
<1> DEFINE parts == [i \in DOMAIN msgs |->
                        IF msgs[i].type \in OfNoLevel THEN <<msgs[i]>> ELSE <<>>]
<1>1. DOMAIN msgs = 1 .. Len(msgs) /\ Len(msgs) \in Nat \ {0}
    OBVIOUS
<1>2. Len(parts) = Len(msgs) /\ DOMAIN parts = 1 .. Len(msgs)
  <2>1. parts \in [1 .. Len(msgs) ->
                     {IF msgs[i].type \in OfNoLevel THEN <<msgs[i]>> ELSE <<>> :
                          i \in 1 .. Len(msgs)}]
    BY <1>1
  <2> HIDE DEF parts
  <2>2. QED BY <1>1, <2>1
<1>3. \A i \in 1 .. Len(parts) : parts[i] \in Seq(SceneMessages)
  <2> SUFFICES ASSUME NEW i \in 1 .. Len(msgs) PROVE parts[i] \in Seq(SceneMessages)
    BY <1>2
  <2>1. msgs[i] \in SceneMessages
    BY <1>1
  <2>2. parts[i] = IF msgs[i].type \in OfNoLevel THEN <<msgs[i]>> ELSE <<>>
    BY <1>1
  <2>3. QED BY <2>1, <2>2
<1>4. OnlyOfNoLevel(msgs) = FlattenSeq(parts)
    BY DEF OnlyOfNoLevel
<1> HIDE DEF parts
<1>5. QED BY <1>1, <1>2, <1>3, <1>4, FlattenTyped

\* A hook queues one more message.
LEMMA TellTyped ==
    ASSUME SceneTypeOK, NEW p \in Players, NEW m \in SceneMessages, Tell(p, m)
    PROVE  outgoingScenes' \in [Players -> Seq(SceneMessages)]
<1>1. Append(outgoingScenes[p], m) \in Seq(SceneMessages)
    BY DEF SceneTypeOK
<1>2. QED BY <1>1 DEF Tell, SceneTypeOK

\* An effect or stone is seen once more.
LEMMA SeenOnceMore ==
    ASSUME SceneTypeOK, NEW p \in Players, NEW e \in Effects \cup Stones,
           shown' = [shown EXCEPT ![p][e] = shown[p][e] + 1]
    PROVE  shown' \in [Players -> [Effects \cup Stones -> Nat]]
<1>1. shown[p] \in [Effects \cup Stones -> Nat]
    BY DEF SceneTypeOK
<1>2. shown[p][e] + 1 \in Nat
    BY <1>1
<1>3. [shown[p] EXCEPT ![e] = shown[p][e] + 1] \in [Effects \cup Stones -> Nat]
    BY <1>1, <1>2
<1>4. shown' = [shown EXCEPT ![p] = [shown[p] EXCEPT ![e] = shown[p][e] + 1]]
    BY DEF SceneTypeOK
<1>5. QED BY <1>3, <1>4 DEF SceneTypeOK

\* What happens in the player's own world.
LEMMA HappensInv ==
    ASSUME SceneTypeOK, NEW p \in Players,
           \/ \E c \in Cinemas : StartCinema(p, c) \/ EndCinema(p, c)
           \/ \E o \in Props : SpawnLocally(p, o)
           \/ \E e \in Effects : ShowEffect(p, e)
           \/ \E e \in Stones : ThrowStone(p, e)
    PROVE  SceneTypeOK' /\ UNCHANGED relayVars
<1>1. ASSUME NEW o, Happens(p, o) PROVE shows' \in [Players -> Nat]
    BY <1>1 DEF Happens, SceneTypeOK
<1>2. ASSUME NEW c \in Cinemas, StartCinema(p, c) PROVE SceneTypeOK'
  <2>1. CinemaSync(c) \in SceneMessages
    BY DEF CinemaSync, SceneMessages
  <2>2. outgoingScenes' \in [Players -> Seq(SceneMessages)]
    BY <1>2, <2>1, TellTyped DEF StartCinema
  <2>3. cinema' \in [Players -> [Cinemas -> {"waiting", "playing", "finished"}]]
    BY <1>2 DEF StartCinema, SceneTypeOK
  <2>4. QED BY <1>1, <1>2, <2>2, <2>3 DEF StartCinema, Happens, SceneTypeOK
<1>3. ASSUME NEW c \in Cinemas, EndCinema(p, c) PROVE SceneTypeOK'
  <2>1. cinema' \in [Players -> [Cinemas -> {"waiting", "playing", "finished"}]]
    BY <1>3 DEF EndCinema, SceneTypeOK
  <2>2. QED BY <1>3, <2>1 DEF EndCinema, SceneTypeOK
<1>4. ASSUME NEW o \in Props, SpawnLocally(p, o) PROVE SceneTypeOK'
  <2>1. SpawnObject(o) \in SceneMessages
    BY DEF SpawnObject, SceneMessages
  <2>2. outgoingScenes' \in [Players -> Seq(SceneMessages)]
    BY <1>4, <2>1, TellTyped DEF SpawnLocally
  <2>3. QED BY <1>1, <1>4, <2>2 DEF SpawnLocally, Happens, SceneTypeOK
<1>5. ASSUME NEW e \in Effects, ShowEffect(p, e) PROVE SceneTypeOK'
  <2>1. SpawnFx(e) \in SceneMessages
    BY DEF SpawnFx, SceneMessages
  <2>2. outgoingScenes' \in [Players -> Seq(SceneMessages)]
    BY <1>5, <2>1, TellTyped DEF ShowEffect
  <2>3. shown' \in [Players -> [Effects \cup Stones -> Nat]]
    BY <1>5, SeenOnceMore DEF ShowEffect
  <2>4. QED BY <1>1, <1>5, <2>2, <2>3 DEF ShowEffect, Happens, SceneTypeOK
<1>6. ASSUME NEW e \in Stones, ThrowStone(p, e) PROVE SceneTypeOK'
  <2>1. shown' \in [Players -> [Effects \cup Stones -> Nat]]
    BY <1>6, SeenOnceMore DEF ThrowStone
  <2>2. QED BY <1>1, <1>6, <2>1 DEF ThrowStone, Happens, SceneTypeOK
<1>7. UNCHANGED relayVars
    BY DEF StartCinema, EndCinema, SpawnLocally, ShowEffect, ThrowStone, Happens
<1>8. QED BY <1>2, <1>3, <1>4, <1>5, <1>6, <1>7

\* What is sent, here or elsewhere.
LEMMA SendScenesInv ==
    ASSUME SceneTypeOK, NEW p \in Players,
           SendScenes(p) \/ SendScenesElsewhere(p) \/ SendThrow(p)
    PROVE  SceneTypeOK' /\ RelayEffect(p, SceneMessages)
<1>1. outgoingScenes[p] \in Seq(SceneMessages) /\ <<>> \in Seq(SceneMessages)
    BY DEF SceneTypeOK
<1>2. CASE SendScenes(p)
    BY <1>1, <1>2 DEF SendScenes, SceneTypeOK, Playing, RelayEffect
<1>3. CASE SendScenesElsewhere(p)
  <2>1. PICK msgs \in Seq(SceneMessages) : msgs = OnlyOfNoLevel(outgoingScenes[p])
    BY <1>1, <1>3, OnlyOfNoLevelTyped DEF SendScenesElsewhere
  <2>2. QED BY <1>1, <1>3, <2>1 DEF SendScenesElsewhere, SceneTypeOK, RelayEffect
<1>4. CASE SendThrow(p)
  <2>1. PICK e \in lastThrow[p] :
            /\ p \in online
            /\ Send(p, <<StoneThrow(e)>>)
            /\ lastThrow' = [lastThrow EXCEPT ![p] = {}]
            /\ UNCHANGED <<cinema, spawned, shown, outgoingScenes, incomingScenes, shows>>
    BY <1>4 DEF SendThrow
  <2>2. <<StoneThrow(e)>> \in Seq(SceneMessages)
    BY DEF SceneTypeOK, StoneThrow, SceneMessages
  <2>3. QED BY <2>1, <2>2 DEF SceneTypeOK, RelayEffect
<1>5. QED BY <1>2, <1>3, <1>4

\* What others tell, and the queue elsewhere.
LEMMA ProcessSceneInv ==
    ASSUME SceneTypeOK, NEW p \in Players, ProcessScene(p) \/ ShowElsewhere(p)
    PROVE  SceneTypeOK' /\ RelayEffect(p, SceneMessages)
<1>1. CASE ProcessScene(p)
  <2>1. Head(downlink[p]) \in SceneMessages
    BY <1>1 DEF ProcessScene, HandleNext
  <2>2. Append(incomingScenes[p], Head(downlink[p])) \in Seq(SceneMessages)
    BY <2>1 DEF SceneTypeOK
  <2>3. incomingScenes' \in [Players -> Seq(SceneMessages)]
    BY <1>1, <2>2 DEF ProcessScene, SceneTypeOK
  <2>4. QED BY <1>1, <2>3 DEF ProcessScene, SceneTypeOK, RelayEffect
<1>2. CASE ShowElsewhere(p)
  <2>1. <<>> \in Seq(SceneMessages)
    OBVIOUS
  <2>2. QED BY <1>2, <2>1 DEF ShowElsewhere, SceneTypeOK, RelayEffect
<1>3. QED BY <1>1, <1>2

\* The game thread shows the first of what waits.
LEMMA ShowInv ==
    ASSUME SceneTypeOK, NEW p \in Players,
           ApplyCinemaStart(p) \/ ApplySpawn(p) \/ ApplyFx(p) \/ ApplyThrow(p)
    PROVE  SceneTypeOK' /\ UNCHANGED relayVars
<1>1. PICK m \in SceneMessages : m = Head(incomingScenes[p])
    BY FirstTaken DEF SceneTypeOK, ApplyCinemaStart, ApplySpawn, ApplyFx, ApplyThrow, ToShow
<1>2. incomingScenes' \in [Players -> Seq(SceneMessages)]
  <2>1. /\ incomingScenes[p] # <<>>
        /\ incomingScenes' = [incomingScenes EXCEPT ![p] = Tail(incomingScenes[p])]
    BY DEF ApplyCinemaStart, ApplySpawn, ApplyFx, ApplyThrow, ToShow, Shown
  <2>2. QED BY <2>1, FirstTaken DEF SceneTypeOK
<1>3. CASE ApplyCinemaStart(p)
  <2>1. m.cinema \in Cinemas
    BY <1>1, <1>3 DEF ApplyCinemaStart, ToShow, SceneMessages
  <2>2. cinema' \in [Players -> [Cinemas -> {"waiting", "playing", "finished"}]]
    BY <1>1, <1>3, <2>1 DEF ApplyCinemaStart, SceneTypeOK
  <2>3. QED BY <1>2, <1>3, <2>2 DEF ApplyCinemaStart, Shown, SceneTypeOK
<1>4. CASE ApplySpawn(p)
  <2>1. m.object \in Props
    BY <1>1, <1>4 DEF ApplySpawn, ToShow, SceneMessages
  <2>2. spawned' \in [Players -> SUBSET Props]
    BY <1>1, <1>4, <2>1 DEF ApplySpawn, SceneTypeOK
  <2>3. QED BY <1>2, <1>4, <2>2 DEF ApplySpawn, Shown, SceneTypeOK
<1>5. CASE ApplyFx(p)
  <2>1. m.effect \in Effects
    BY <1>1, <1>5 DEF ApplyFx, ToShow, SceneMessages
  <2>2. shown' \in [Players -> [Effects \cup Stones -> Nat]]
    BY <1>1, <1>5, <2>1, SeenOnceMore DEF ApplyFx
  <2>3. QED BY <1>2, <1>5, <2>2 DEF ApplyFx, Shown, SceneTypeOK
<1>6. CASE ApplyThrow(p)
  <2>1. m.stone \in Stones
    BY <1>1, <1>6 DEF ApplyThrow, ToShow, SceneMessages
  <2>2. shown' \in [Players -> [Effects \cup Stones -> Nat]]
    BY <1>1, <1>6, <2>1, SeenOnceMore DEF ApplyThrow
  <2>3. QED BY <1>2, <1>6, <2>2 DEF ApplyThrow, Shown, SceneTypeOK
<1>7. QED BY <1>3, <1>4, <1>5, <1>6

\* The player and the two threads of its client.
LEMMA SceneStepInv ==
    ASSUME SceneTypeOK, NEW p \in Players, SceneStep(p)
    PROVE  SceneTypeOK' /\ RelayEffect(p, SceneMessages)
BY HappensInv, SendScenesInv, ProcessSceneInv, ShowInv DEF SceneStep, RelayEffect

\* The end of a visit: the world is new, the queues are not.
LEMMA ReloadScenesInv ==
    ASSUME SceneTypeOK, NEW p \in Players, ReloadScenes(p)
    PROVE  SceneTypeOK'
<1>1. AllWaiting \in [Cinemas -> {"waiting", "playing", "finished"}]
    BY DEF AllWaiting
<1>2. QED BY <1>1 DEF SceneTypeOK, ReloadScenes

LEMMA SceneStutterInv == ASSUME SceneTypeOK, UNCHANGED sceneVars PROVE SceneTypeOK'
BY DEF SceneTypeOK, sceneVars

-----------------------------------------------------------------------------
(* NPCs.                                                                    *)

\* What readGamePointers may have found: some NPCs, with their AI flags.
Found == UNION {[S -> AIFlags] : S \in SUBSET Npcs}

NpcInv ==
    /\ NpcTypeOK
    /\ enemies \in [Players -> Found]
    /\ aiSuppressed \in [Players -> SUBSET Npcs]

\* NPCs that were found with flags of their own.
LEMMA FoundIs ==
    ASSUME NEW e
    PROVE  e \in Found <=> \E S \in SUBSET Npcs : e \in [S -> AIFlags]
BY DEF Found

LEMMA NpcInitInv == ASSUME NpcInit PROVE NpcInv
<1>1. NoNpcs \in [{} -> AIFlags]
    BY DEF NoNpcs
<1>2. NoNpcs \in Found /\ DOMAIN NoNpcs = {}
    BY <1>1, FoundIs
<1>3. enemies \in [Players -> Found] /\ \A p \in Players : aiSuppressed[p] \subseteq DOMAIN enemies[p]
    BY <1>2 DEF NpcInit
<1>4. \A p \in Players : \E S \in SUBSET Npcs : enemies[p] \in [S -> AIFlags]
    BY <1>3, FoundIs
<1>5. moves \in 0 .. MaxMoves /\ scripts \in 0 .. MaxScripts /\ 0 \in Looks
    BY NpcAssumption DEF NpcInit, Looks, Astray
<1>6. look \in [Players -> [Npcs -> Looks]] /\ aiFlags \in [Players -> [Npcs -> AIFlags]]
    BY <1>5 DEF NpcInit, AIFlags
<1>7. fighting \in [Players -> SUBSET Npcs]
    BY NpcAssumption DEF NpcInit
<1>8. QED BY <1>3, <1>4, <1>5, <1>6, <1>7 DEF NpcInit, NpcInv, NpcTypeOK, AIModes

\* What the NPCs do in a world.
LEMMA GameOfNpcsInv ==
    ASSUME NpcInv, NEW p \in Players, NEW n \in Npcs,
           MoveNpc(p, n) \/ BreakShield(p, n) \/ ChangeSide(p, n) \/ Activate(p, n)
    PROVE  NpcInv' /\ UNCHANGED relayVars
<1>1. CASE MoveNpc(p, n)
  <2>1. /\ Astray \in Looks
        /\ moves < MaxMoves => moves + 1 \in Looks /\ moves + 1 \in 0 .. MaxMoves
    BY NpcAssumption DEF NpcInv, NpcTypeOK, Looks, Astray
  <2>2. PICK l \in Looks : look' = [look EXCEPT ![p][n] = l]
    BY <1>1, <2>1 DEF MoveNpc
  <2>3. look' \in [Players -> [Npcs -> Looks]]
    BY <2>2 DEF NpcInv, NpcTypeOK
  <2>4. moves' \in 0 .. MaxMoves
    BY <1>1, <2>1 DEF MoveNpc, NpcInv, NpcTypeOK
  <2>5. QED BY <1>1, <2>3, <2>4 DEF MoveNpc, NpcInv, NpcTypeOK
<1>2. CASE BreakShield(p, n)
    BY <1>2 DEF BreakShield, NpcInv, NpcTypeOK
<1>3. CASE ChangeSide(p, n)
  <2>1. scripts' \in 0 .. MaxScripts
    BY <1>3, NpcAssumption DEF ChangeSide, NpcInv, NpcTypeOK
  <2>2. QED BY <1>3, <2>1 DEF ChangeSide, NpcInv, NpcTypeOK
<1>4. CASE Activate(p, n)
    BY <1>4 DEF Activate, NpcInv, NpcTypeOK
<1>5. QED BY <1>1, <1>2, <1>3, <1>4

\* The client reads in what it finds.
LEMMA ReadNpcsInv ==
    ASSUME NpcInv, NEW p \in Players, ReadNpcs(p)
    PROVE  NpcInv'
<1>1. PICK found \in SUBSET (objects \cap Npcs) :
         enemies' = [enemies EXCEPT ![p] = [n \in found |-> aiFlags[p][n]]]
    BY DEF ReadNpcs
<1>2. [n \in found |-> aiFlags[p][n]] \in [found -> AIFlags] /\ found \in SUBSET Npcs
    BY <1>1 DEF NpcInv, NpcTypeOK
<1>3. [n \in found |-> aiFlags[p][n]] \in Found
    BY <1>2, FoundIs
<1>4. enemies' \in [Players -> Found]
    BY <1>1, <1>3 DEF NpcInv
<1>5. \A q \in Players : \E S \in SUBSET Npcs : enemies'[q] \in [S -> AIFlags]
    BY <1>4, FoundIs
<1>6. aiSuppressed' = [aiSuppressed EXCEPT ![p] = {}]
    BY DEF ReadNpcs
<1>7. aiSuppressed' \in [Players -> SUBSET Npcs]
    BY <1>6 DEF NpcInv
<1>8. \A q \in Players : aiSuppressed'[q] \subseteq DOMAIN enemies'[q]
    BY <1>1, <1>6 DEF NpcInv, NpcTypeOK
<1>9. QED BY <1>4, <1>5, <1>7, <1>8 DEF ReadNpcs, NpcInv, NpcTypeOK

\* What the host tells is of NPCs there may be.
LEMMA SnapshotTyped ==
    ASSUME NpcInv, NEW p \in Players
    PROVE  SnapshotOf(p) \in Snapshots
<1> DEFINE S == {m \in DOMAIN enemies[p] : Synced(p, m)}
           LookOf(n) == [look |-> look[p][n], shield |-> n \in shielded[p]]
<1>1. S \in SUBSET Npcs
    BY DEF NpcInv, NpcTypeOK
<1>2. \A n \in Npcs : LookOf(n) \in NpcStates
  <2> SUFFICES ASSUME NEW n \in Npcs PROVE LookOf(n) \in NpcStates
    OBVIOUS
  <2>1. look[p][n] \in Looks
    BY DEF NpcInv, NpcTypeOK
  <2>2. (n \in shielded[p]) \in BOOLEAN
    OBVIOUS
  <2>3. QED BY <2>1, <2>2 DEF NpcStates
<1>3. SnapshotOf(p) = [n \in S |-> LookOf(n)]
    BY DEF SnapshotOf
<1> HIDE DEF S, LookOf
<1>4. SnapshotOf(p) \in [S -> NpcStates]
    BY <1>1, <1>2, <1>3
<1>5. QED BY <1>1, <1>4 DEF Snapshots

\* A mode is set for the NPCs that are driven, and taken back from those that are no more.
LEMMA ChangeModeInv ==
    ASSUME NpcInv, NEW p \in Players, NEW mode \in AIModes, ChangeEnemiesAIMode(p, mode)
    PROVE  /\ aiFlags' \in [Players -> [Npcs -> AIFlags]]
           /\ aiSuppressed' \in [Players -> SUBSET Npcs]
           /\ \A q \in Players : aiSuppressed'[q] \subseteq DOMAIN enemies[q]
<1> DEFINE Driven == {n \in DOMAIN enemies[p] \ KeepsAI : Synced(p, n)}
           Released == {n \in aiSuppressed[p] \ KeepsAI : ~Synced(p, n)}
           new == [n \in Npcs |-> IF n \in Driven THEN mode
                                  ELSE IF n \in Released THEN enemies[p][n]
                                  ELSE aiFlags[p][n]]
<1>1. /\ aiFlags' = [aiFlags EXCEPT ![p] = new]
      /\ aiSuppressed' = [aiSuppressed EXCEPT ![p] = (aiSuppressed[p] \cup Driven) \ Released]
    BY DEF ChangeEnemiesAIMode
<1>2. PICK S \in SUBSET Npcs : enemies[p] \in [S -> AIFlags]
    BY DEF NpcInv, NpcTypeOK
<1>3. Driven \subseteq S /\ Released \subseteq S /\ aiSuppressed[p] \subseteq S /\ DOMAIN enemies[p] = S
    BY <1>2 DEF NpcInv, NpcTypeOK
<1>4. mode \in AIFlags
    BY DEF AIFlags
<1>5. \A n \in Npcs : aiFlags[p][n] \in AIFlags
    BY DEF NpcInv, NpcTypeOK
<1> HIDE DEF Driven, Released
<1>6. new \in [Npcs -> AIFlags]
    BY <1>2, <1>3, <1>4, <1>5
<1> HIDE DEF new
<1>7. aiFlags' \in [Players -> [Npcs -> AIFlags]]
    BY <1>1, <1>6 DEF NpcInv, NpcTypeOK
<1>8. aiSuppressed' \in [Players -> SUBSET Npcs]
    BY <1>1, <1>2, <1>3 DEF NpcInv
<1>9. \A q \in Players : aiSuppressed'[q] \subseteq DOMAIN enemies[q]
    BY <1>1, <1>2, <1>3 DEF NpcInv, NpcTypeOK
<1>10. QED BY <1>7, <1>8, <1>9

\* A client suppresses, and whoever may, with /ai.
LEMMA SuppressInv ==
    ASSUME NpcInv, NEW p \in Players,
           SuppressAI(p) \/ \E mode \in AIModes : ChatCommandChangeAIMode(p, mode)
    PROVE  NpcInv' /\ UNCHANGED relayVars
<1>1. CASE SuppressAI(p)
  <2>1. aiMode[p] \in AIModes
    BY DEF NpcInv, NpcTypeOK
  <2>2. /\ aiFlags' \in [Players -> [Npcs -> AIFlags]]
        /\ aiSuppressed' \in [Players -> SUBSET Npcs]
        /\ \A q \in Players : aiSuppressed'[q] \subseteq DOMAIN enemies[q]
    BY <1>1, <2>1, ChangeModeInv DEF SuppressAI
  <2>3. QED BY <1>1, <2>2 DEF SuppressAI, NpcInv, NpcTypeOK
<1>2. ASSUME NEW mode \in AIModes, ChatCommandChangeAIMode(p, mode)
      PROVE  NpcInv' /\ UNCHANGED relayVars
  <2>1. /\ aiFlags' \in [Players -> [Npcs -> AIFlags]]
        /\ aiSuppressed' \in [Players -> SUBSET Npcs]
        /\ \A q \in Players : aiSuppressed'[q] \subseteq DOMAIN enemies[q]
    BY <1>2, ChangeModeInv DEF ChatCommandChangeAIMode
  <2>2. scripts' \in 0 .. MaxScripts
    BY <1>2, NpcAssumption DEF ChatCommandChangeAIMode, NpcInv, NpcTypeOK
  <2>3. aiMode' \in [Players -> AIModes]
    BY <1>2 DEF ChatCommandChangeAIMode, NpcInv, NpcTypeOK
  <2>4. QED BY <1>2, <2>1, <2>2, <2>3 DEF ChatCommandChangeAIMode, NpcInv, NpcTypeOK
<1>3. QED BY <1>1, <1>2

\* The NPCs are made to look as told.
LEMMA UpdateEnemiesInv ==
    ASSUME NpcInv, NEW p \in Players, UpdateEnemies(p)
    PROVE  NpcInv' /\ UNCHANGED relayVars
<1> DEFINE Updated == DOMAIN enemyUpdates[p] \cap DOMAIN enemies[p] \cap activated[p]
           new == [n \in Npcs |-> IF n \in Updated THEN enemyUpdates[p][n].look
                                  ELSE look[p][n]]
<1>1. /\ enemyUpdates[p] # NoUpdate
      /\ look' = [look EXCEPT ![p] = new]
      /\ shielded' = [shielded EXCEPT ![p] =
                         shielded[p] \ {n \in Updated : ~enemyUpdates[p][n].shield}]
      /\ enemyUpdates' = [enemyUpdates EXCEPT ![p] = NoUpdate]
      /\ UNCHANGED <<relayVars, fighting, activated, aiFlags, enemies, processedLevel,
                     aiSuppressed, aiMode, moves, scripts>>
    BY DEF UpdateEnemies
<1>2. enemyUpdates[p] \in Snapshots
    BY <1>1 DEF NpcInv, NpcTypeOK
<1>3. PICK S \in SUBSET Npcs : enemyUpdates[p] \in [S -> NpcStates]
    BY <1>2 DEF Snapshots
<1>4. \A n \in S : enemyUpdates[p][n].look \in Looks
    BY <1>3 DEF NpcStates
<1>5. \A n \in Npcs : look[p][n] \in Looks
    BY DEF NpcInv, NpcTypeOK
<1>6. Updated \subseteq S
    BY <1>3
<1> HIDE DEF Updated
<1>7. new \in [Npcs -> Looks]
    BY <1>4, <1>5, <1>6
<1> HIDE DEF new
<1>8. look' \in [Players -> [Npcs -> Looks]]
    BY <1>1, <1>7 DEF NpcInv, NpcTypeOK
<1>9. shielded' \in [Players -> SUBSET Npcs]
    BY <1>1 DEF NpcInv, NpcTypeOK
<1>10. enemyUpdates' \in [Players -> Snapshots \cup {NoUpdate}]
    BY <1>1 DEF NpcInv, NpcTypeOK
<1>11. QED BY <1>1, <1>8, <1>9, <1>10 DEF NpcInv, NpcTypeOK

\* The game and the two threads of a client.
LEMMA NpcStepInv ==
    ASSUME NpcInv, NEW p \in Players, NpcStep(p)
    PROVE  NpcInv' /\ RelayEffect(p, NpcMessages)
<1>1. CASE ReadNpcs(p)
    BY <1>1, ReadNpcsInv DEF ReadNpcs, RelayEffect
<1>2. CASE SendEnemies(p)
  <2>1. <<EnemiesUpdate(SnapshotOf(p))>> \in Seq(NpcMessages)
    BY SnapshotTyped DEF EnemiesUpdate, NpcMessages
  <2>2. NpcInv'
    BY <1>2 DEF SendEnemies, npcVars, NpcInv, NpcTypeOK
  <2>3. QED BY <1>2, <2>1, <2>2 DEF SendEnemies, Playing, RelayEffect
<1>3. CASE ProcessEnemiesUpdate(p)
  <2>1. Head(downlink[p]).npcs \in Snapshots
    BY <1>3 DEF ProcessEnemiesUpdate, HandleNext, NpcMessages
  <2>2. enemyUpdates' \in [Players -> Snapshots \cup {NoUpdate}]
    BY <1>3, <2>1 DEF ProcessEnemiesUpdate, NpcInv, NpcTypeOK
  <2>3. NpcInv'
    BY <1>3, <2>2 DEF ProcessEnemiesUpdate, NpcInv, NpcTypeOK
  <2>4. QED BY <1>3, <2>3 DEF ProcessEnemiesUpdate, RelayEffect
<1>4. QED BY <1>1, <1>2, <1>3, GameOfNpcsInv, SuppressInv, UpdateEnemiesInv
          DEF NpcStep, RelayEffect

\* Nothing is known of the NPCs.
LEMMA ForgetNpcsInv ==
    ASSUME NpcInv, NEW p \in Players, ForgetNpcs(p)
    PROVE  /\ enemies' \in [Players -> Found]
           /\ \A q \in Players : \E S \in SUBSET Npcs : enemies'[q] \in [S -> AIFlags]
           /\ processedLevel' \subseteq Players
           /\ aiSuppressed' \in [Players -> SUBSET Npcs]
           /\ \A q \in Players : aiSuppressed'[q] \subseteq DOMAIN enemies'[q]
<1>1. NoNpcs \in [{} -> AIFlags]
    BY DEF NoNpcs
<1>2. NoNpcs \in Found
    BY <1>1, FoundIs
<1>3. enemies' \in [Players -> Found]
    BY <1>2 DEF ForgetNpcs, NpcInv
<1>4. \A q \in Players : \E S \in SUBSET Npcs : enemies'[q] \in [S -> AIFlags]
    BY <1>3, FoundIs
<1>5. aiSuppressed' \in [Players -> SUBSET Npcs] /\ processedLevel' \subseteq Players
    BY DEF ForgetNpcs, NpcInv, NpcTypeOK
<1>6. \A q \in Players : aiSuppressed'[q] \subseteq DOMAIN enemies'[q]
    BY DEF ForgetNpcs, NpcInv, NpcTypeOK
<1>7. QED BY <1>3, <1>4, <1>5, <1>6

\* The end of a session, and the end of a visit.
LEMMA ResetNpcsInv ==
    ASSUME NpcInv, NEW p \in Players, ResetNpcs(p)
    PROVE  NpcInv'
BY ForgetNpcsInv DEF ResetNpcs, NpcInv, NpcTypeOK

LEMMA ReloadNpcsInv ==
    ASSUME NpcInv, NEW p \in Players, ReloadNpcs(p)
    PROVE  NpcInv'
<1>1. 0 \in Looks /\ "own" \in AIFlags
    BY NpcAssumption DEF Looks, Astray, AIFlags
<1>2. [n \in Npcs |-> 0] \in [Npcs -> Looks] /\ [n \in Npcs |-> "own"] \in [Npcs -> AIFlags]
    BY <1>1
<1>3. look' \in [Players -> [Npcs -> Looks]] /\ aiFlags' \in [Players -> [Npcs -> AIFlags]]
    BY <1>2 DEF ReloadNpcs, NpcInv, NpcTypeOK
<1>4. fighting' \in [Players -> SUBSET Npcs]
    BY NpcAssumption DEF ReloadNpcs, NpcInv, NpcTypeOK
<1>5. /\ shielded' \in [Players -> SUBSET Npcs]
      /\ activated' \in [Players -> SUBSET Npcs]
      /\ enemyUpdates' \in [Players -> Snapshots \cup {NoUpdate}]
    BY DEF ReloadNpcs, NpcInv, NpcTypeOK
<1>6. QED BY <1>3, <1>4, <1>5, ForgetNpcsInv DEF ReloadNpcs, NpcInv, NpcTypeOK

LEMMA NpcStutterInv == ASSUME NpcInv, UNCHANGED npcVars PROVE NpcInv'
BY DEF NpcInv, NpcTypeOK, npcVars
=============================================================================
