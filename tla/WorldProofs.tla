----------------------------- MODULE WorldProofs -----------------------------
(***************************************************************************)
(* What holds of the whole world, for any numbers of players and objects    *)
(* and any levels: everything keeps its type, pickups are granted and        *)
(* announced once, chests are opened once, switches are told in states they  *)
(* were changed to, web walls keep their marks straight, a press is not sent *)
(* back, and no session or visit leaves anything over.  The invariants of   *)
(* the relay and of the kinds are in EventProofs; here they are composed.   *)
(***************************************************************************)
EXTENDS World, EventProofs

\* What may be on its way: of switches, only states they were changed to.
Allowed == {m \in Messages : m \in SwitchMessages => m \in changed}

KindsInv ==
    /\ PickupInv
    /\ ChestInv
    /\ SwitchInv
    /\ WallInv
    /\ TriggerInv
    /\ ItemInv
    /\ HoldTypeOK
    /\ PushTypeOK
    /\ AnimTypeOK
    /\ SceneTypeOK
    /\ NpcInv

WorldInv ==
    /\ RelayInv
    /\ RelayTypeOK(Allowed)
    /\ KindsInv

LEMMA WorldInitInv == Init => WorldInv
<1> SUFFICES ASSUME Init PROVE WorldInv
    OBVIOUS
<1>1. RelayInv
    BY RelayInitInv DEF Init
<1>2. RelayTypeOK(Allowed)
  <2>1. PICK M : M = Allowed
    OBVIOUS
  <2>2. QED BY <2>1, RelayInitTyped DEF Init
<1>3. KindsInv
    BY PickupInitInv, ChestInitInv, SwitchInitInv, WallInitInv, TriggerInitInv, ItemInitInv,
       HoldInitInv, PushInitInv, AnimInitInv, SceneInitInv, NpcInitInv
    DEF Init, KindsInv
<1>4. QED BY <1>1, <1>2, <1>3 DEF WorldInv

\* What becomes of the uplink of q in a step that sends at most messages of this kind.
SendsAtMost(q, Kind) ==
    \/ uplink'[q] = uplink[q]
    \/ uplink'[q] = <<>>
    \/ uplink[q] # <<>> /\ uplink'[q] = Tail(uplink[q])
    \/ \E msgs \in Seq(Kind) : uplink'[q] = uplink[q] \o msgs

SendsNoPress == \A q \in Players : SendsAtMost(q, Messages \ TriggerMessages)

-----------------------------------------------------------------------------
(* What a step of one kind leaves of the relay and of the other kinds.      *)

\* A message is of one kind.
LEMMA KindsAreApart ==
    /\ \A m \in SwitchMessages \cup TriggerMessages :
           /\ m \notin PickupMessages
           /\ m \notin ChestMessages
           /\ m \notin WallMessages
           /\ m \notin ItemMessages
           /\ m \notin HoldMessages
           /\ m \notin PushMessages
           /\ m \notin AnimMessages
           /\ m \notin SceneMessages
           /\ m \notin NpcMessages
    /\ \A m \in SwitchMessages : m \notin TriggerMessages
<1>1. \A m \in SwitchMessages : m.type = "SWITCH_TOGGLE"
    BY DEF SwitchMessages
<1>2. \A m \in TriggerMessages : m.type = "TRIGGER_ONPRESSB"
    BY DEF TriggerMessages
<1>3. QED BY <1>1, <1>2 DEF PickupMessages, ChestMessages, WallMessages, ItemMessages,
              HoldMessages, PushMessages, AnimMessages, AnimSyncs, AnimSyncRequest, SceneMessages,
              NpcMessages

\* What may be sent.
LEMMA KindsAllowed ==
    /\ PickupMessages \subseteq Allowed
    /\ ChestMessages \subseteq Allowed
    /\ Told \subseteq Allowed
    /\ WallMessages \subseteq Allowed
    /\ TriggerMessages \subseteq Allowed
    /\ ItemMessages \subseteq Allowed
    /\ HoldMessages \subseteq Allowed
    /\ PushMessages \subseteq Allowed
    /\ AnimMessages \subseteq Allowed
    /\ SceneMessages \subseteq Allowed
    /\ NpcMessages \subseteq Allowed
BY KindsAreApart DEF Allowed, Told, Messages, DirectMessages

\* What is allowed stays allowed.
LEMMA StaysAllowed ==
    ASSUME NEW M, M = Allowed, changed \subseteq changed', RelayTypeOK(M)'
    PROVE  RelayTypeOK(Allowed)'
<1>1. PICK N : N = Allowed'
    OBVIOUS
<1>2. M \subseteq N
    BY <1>1 DEF Allowed
<1>3. Seq(M) \subseteq Seq(N)
    BY <1>2, MoreMessages
<1>4. RelayTypeOK(N)'
    BY <1>3 DEF RelayTypeOK
<1>5. QED BY <1>1, <1>4 DEF RelayTypeOK

\* A client changes its own uplink at most, and sends what belongs to the step.
LEMMA EffectSends ==
    ASSUME RelayInv, NEW p \in Players, NEW Kind, RelayEffect(p, Kind)
    PROVE  SendsAtMost(p, Kind) /\ \A q \in Players \ {p} : uplink'[q] = uplink[q]
<1>1. ASSUME NEW msgs \in Seq(Kind), Send(p, msgs)
      PROVE  SendsAtMost(p, Kind) /\ \A q \in Players \ {p} : uplink'[q] = uplink[q]
  <2>1. uplink' = [uplink EXCEPT ![p] = uplink[p] \o msgs] /\ IsQueues(uplink)
    BY <1>1 DEF Send, RelayInv, RelayShape
  <2>2. uplink'[p] = uplink[p] \o msgs /\ \A q \in Players \ {p} : uplink'[q] = uplink[q]
    BY <2>1, QueuesKept DEF IsQueues
  <2>3. QED BY <2>2 DEF SendsAtMost
<1>2. CASE uplink' = uplink
    BY <1>2 DEF SendsAtMost
<1>3. QED BY <1>1, <1>2 DEF RelayEffect, relayVars, HandleNext, Applied

\* What a step of a client does to the relay keeps what holds of it; it sends no press
\* and disturbs none that is being applied, unless it is about presses itself.
LEMMA AfterEffect ==
    ASSUME WorldInv, NEW p \in Players, NEW Kind, Kind \subseteq Allowed,
           RelayEffect(p, Kind), changed \subseteq changed'
    PROVE  /\ RelayInv'
           /\ RelayTypeOK(Allowed)'
           /\ online' = online
           /\ (\A m \in TriggerMessages : m \notin Kind) => Undisturbed /\ SendsNoPress
<1>1. RelayTypeOK(Allowed)'
  <2>1. PICK M : M = Allowed
    OBVIOUS
  <2>2. RelayTypeOK(M)'
    BY <2>1, EffectTyped DEF WorldInv
  <2>3. QED BY <2>1, <2>2, StaysAllowed
<1>2. (\A m \in TriggerMessages : m \notin Kind) => SendsNoPress
  <2> SUFFICES ASSUME \A m \in TriggerMessages : m \notin Kind PROVE SendsNoPress
    OBVIOUS
  <2>1. Kind \subseteq Messages \ TriggerMessages
    BY DEF Allowed
  <2>2. Seq(Kind) \subseteq Seq(Messages \ TriggerMessages)
    BY <2>1, MoreMessages
  <2>3. QED BY <2>2, EffectSends DEF SendsNoPress, SendsAtMost, WorldInv
<1>3. CASE UNCHANGED relayVars
    BY <1>1, <1>2, <1>3, RelayStutterInv DEF relayVars, WorldInv, Undisturbed
<1>4. ASSUME NEW msgs \in Seq(Kind), p \in online, Send(p, msgs)
      PROVE  RelayInv' /\ UNCHANGED <<online, pending>>
    BY <1>4, SendSends, SendsInv DEF WorldInv, Send
<1>5. CASE HandleNext(p, Kind)
    BY <1>1, <1>2, <1>5, HandleNextInv DEF HandleNext, WorldInv, Undisturbed
<1>6. CASE ToApply(p, Kind) /\ Applied(p)
  <2>1. RelayInv' /\ online' = online
    BY <1>6, AppliedInv DEF ToApply, Applied, WorldInv
  <2>2. \A r \in Players \ {p} : pending'[r] = pending[r]
    BY <1>6, QueuesKept DEF Applied, WorldInv, RelayInv, RelayShape, IsQueues
  <2>3. (\A m \in TriggerMessages : m \notin Kind) => stage[p] = "none"
    BY <1>6 DEF WorldInv, KindsInv, TriggerInv, StageInv, ToApply
  <2>4. QED BY <1>1, <1>2, <2>1, <2>2, <2>3 DEF Undisturbed
<1>7. QED BY <1>1, <1>2, <1>3, <1>4, <1>5, <1>6 DEF RelayEffect, Undisturbed

\* Kinds that a step does not touch.
LEMMA OtherKinds ==
    ASSUME KindsInv, online' = online
    PROVE  /\ UNCHANGED pickupVars => PickupInv'
           /\ UNCHANGED chestVars => ChestInv'
           /\ UNCHANGED switchVars => SwitchInv' /\ changed' = changed
           /\ UNCHANGED wallVars => WallInv'
           /\ UNCHANGED triggerVars /\ Undisturbed => TriggerInv'
           /\ UNCHANGED itemVars => ItemInv'
           /\ UNCHANGED holdVars => HoldTypeOK'
           /\ UNCHANGED pushVars => PushTypeOK'
           /\ UNCHANGED animVars => AnimTypeOK'
           /\ UNCHANGED sceneVars => SceneTypeOK'
           /\ UNCHANGED npcVars => NpcInv'
BY PickupStutterInv, ChestStutterInv, SwitchStutterInv, WallStutterInv, TriggerStutterInv,
   ItemStutterInv, HoldStutterInv, PushStutterInv, AnimStutterInv, SceneStutterInv,
   NpcStutterInv
DEF KindsInv

-----------------------------------------------------------------------------
(* The steps of the world.                                                  *)

LEMMA KindStepInv ==
    ASSUME WorldInv, NEW p \in Players,
           \/ OfPickups(PickupStep(p))
           \/ OfChests(ChestStep(p))
           \/ OfSwitches(SwitchStep(p))
           \/ OfWalls(WallStep(p))
           \/ OfTriggers(TriggerStep(p))
           \/ OfItems(ItemStep(p))
           \/ OfHolds(HoldStep(p))
           \/ OfPushes(PushStep(p))
           \/ OfAnims(AnimStep(p))
           \/ OfScenes(SceneStep(p))
           \/ OfNpcs(NpcStep(p))
    PROVE  WorldInv' /\ (TriggerStep(p) \/ SendsNoPress)
<1>1. RelayInv /\ KindsInv
    BY DEF WorldInv
<1>2. CASE OfPickups(PickupStep(p))
  <2>1. PickupInv' /\ RelayEffect(p, PickupMessages)
    BY <1>1, <1>2, PickupStepInv, PickupEffect DEF OfPickups, KindsInv
  <2>2. changed' = changed
    BY <1>2 DEF OfPickups, switchVars
  <2>3. /\ RelayInv' /\ RelayTypeOK(Allowed)' /\ online' = online
        /\ Undisturbed /\ SendsNoPress
    BY <2>1, <2>2, AfterEffect, KindsAllowed, KindsAreApart
  <2>4. QED BY <1>1, <1>2, <2>1, <2>3, OtherKinds DEF OfPickups, KindsInv, WorldInv
<1>3. CASE OfChests(ChestStep(p))
  <2>1. ChestInv' /\ RelayEffect(p, ChestMessages)
    BY <1>1, <1>3, ChestStepInv, ChestEffect DEF OfChests, KindsInv
  <2>2. changed' = changed
    BY <1>3 DEF OfChests, switchVars
  <2>3. /\ RelayInv' /\ RelayTypeOK(Allowed)' /\ online' = online
        /\ Undisturbed /\ SendsNoPress
    BY <2>1, <2>2, AfterEffect, KindsAllowed, KindsAreApart
  <2>4. QED BY <1>1, <1>3, <2>1, <2>3, OtherKinds DEF OfChests, KindsInv, WorldInv
<1>4. CASE OfSwitches(SwitchStep(p))
  <2>1. ToApply(p, SwitchMessages) => Head(pending[p]) \in changed
    <3>1. PICK M : M = Allowed
      OBVIOUS
    <3>2. ToApply(p, SwitchMessages) => Head(pending[p]) \in M
      BY <3>1, FirstTaken DEF WorldInv, RelayTypeOK, ToApply
    <3>3. QED BY <3>1, <3>2 DEF Allowed, ToApply
  <2>2. SwitchInv' /\ changed \subseteq changed' /\ RelayEffect(p, Told)
    BY <1>1, <1>4, <2>1, SwitchStepInv DEF OfSwitches, KindsInv
  <2>3. PICK Kind : Kind = Told
    OBVIOUS
  <2>4. /\ RelayInv' /\ RelayTypeOK(Allowed)' /\ online' = online
        /\ Undisturbed /\ SendsNoPress
    BY <1>4, <2>2, <2>3, AfterEffect, KindsAllowed, KindsAreApart DEF Told
  <2>5. QED BY <1>1, <1>4, <2>2, <2>4, OtherKinds DEF OfSwitches, KindsInv, WorldInv
<1>5. CASE OfWalls(WallStep(p))
  <2>1. WallInv' /\ RelayEffect(p, WallMessages)
    BY <1>1, <1>5, WallStepInv, WallEffect DEF OfWalls, KindsInv
  <2>2. changed' = changed
    BY <1>5 DEF OfWalls, switchVars
  <2>3. /\ RelayInv' /\ RelayTypeOK(Allowed)' /\ online' = online
        /\ Undisturbed /\ SendsNoPress
    BY <2>1, <2>2, AfterEffect, KindsAllowed, KindsAreApart
  <2>4. QED BY <1>1, <1>5, <2>1, <2>3, OtherKinds DEF OfWalls, KindsInv, WorldInv
<1>6. CASE OfTriggers(TriggerStep(p))
  <2>1. TriggerInv' /\ RelayEffect(p, TriggerMessages)
    BY <1>1, <1>6, TriggerStepInv DEF OfTriggers, KindsInv
  <2>2. changed' = changed
    BY <1>6 DEF OfTriggers, switchVars
  <2>3. RelayInv' /\ RelayTypeOK(Allowed)' /\ online' = online
    BY <2>1, <2>2, AfterEffect, KindsAllowed
  <2>4. QED BY <1>1, <1>6, <2>1, <2>3, OtherKinds DEF OfTriggers, KindsInv, WorldInv
<1>7. CASE OfItems(ItemStep(p))
  <2>1. ItemInv' /\ RelayEffect(p, ItemMessages)
    BY <1>1, <1>7, ItemStepInv DEF OfItems, KindsInv
  <2>2. changed' = changed
    BY <1>7 DEF OfItems, switchVars
  <2>3. /\ RelayInv' /\ RelayTypeOK(Allowed)' /\ online' = online
        /\ Undisturbed /\ SendsNoPress
    BY <2>1, <2>2, AfterEffect, KindsAllowed, KindsAreApart
  <2>4. QED BY <1>1, <1>7, <2>1, <2>3, OtherKinds DEF OfItems, KindsInv, WorldInv
<1>8. CASE OfHolds(HoldStep(p))
  <2>1. HoldTypeOK' /\ RelayEffect(p, HoldMessages)
    BY <1>1, <1>8, HoldStepInv DEF OfHolds, KindsInv
  <2>2. changed' = changed
    BY <1>8 DEF OfHolds, switchVars
  <2>3. /\ RelayInv' /\ RelayTypeOK(Allowed)' /\ online' = online
        /\ Undisturbed /\ SendsNoPress
    BY <2>1, <2>2, AfterEffect, KindsAllowed, KindsAreApart
  <2>4. QED BY <1>1, <1>8, <2>1, <2>3, OtherKinds DEF OfHolds, KindsInv, WorldInv
<1>9. CASE OfPushes(PushStep(p))
  <2>1. PushTypeOK' /\ RelayEffect(p, PushMessages)
    BY <1>1, <1>9, PushStepInv DEF OfPushes, KindsInv
  <2>2. changed' = changed
    BY <1>9 DEF OfPushes, switchVars
  <2>3. /\ RelayInv' /\ RelayTypeOK(Allowed)' /\ online' = online
        /\ Undisturbed /\ SendsNoPress
    BY <2>1, <2>2, AfterEffect, KindsAllowed, KindsAreApart
  <2>4. QED BY <1>1, <1>9, <2>1, <2>3, OtherKinds DEF OfPushes, KindsInv, WorldInv
<1>10. CASE OfAnims(AnimStep(p))
  <2>1. AnimTypeOK' /\ RelayEffect(p, AnimMessages)
    BY <1>1, <1>10, AnimStepInv DEF OfAnims, KindsInv
  <2>2. changed' = changed
    BY <1>10 DEF OfAnims, switchVars
  <2>3. /\ RelayInv' /\ RelayTypeOK(Allowed)' /\ online' = online
        /\ Undisturbed /\ SendsNoPress
    BY <2>1, <2>2, AfterEffect, KindsAllowed, KindsAreApart
  <2>4. QED BY <1>1, <1>10, <2>1, <2>3, OtherKinds DEF OfAnims, KindsInv, WorldInv
<1>11. CASE OfScenes(SceneStep(p))
  <2>1. SceneTypeOK' /\ RelayEffect(p, SceneMessages)
    BY <1>1, <1>11, SceneStepInv DEF OfScenes, KindsInv
  <2>2. changed' = changed
    BY <1>11 DEF OfScenes, switchVars
  <2>3. /\ RelayInv' /\ RelayTypeOK(Allowed)' /\ online' = online
        /\ Undisturbed /\ SendsNoPress
    BY <2>1, <2>2, AfterEffect, KindsAllowed, KindsAreApart
  <2>4. QED BY <1>1, <1>11, <2>1, <2>3, OtherKinds DEF OfScenes, KindsInv, WorldInv
<1>12. CASE OfNpcs(NpcStep(p))
  <2>1. NpcInv' /\ RelayEffect(p, NpcMessages)
    BY <1>1, <1>12, NpcStepInv DEF OfNpcs, KindsInv
  <2>2. changed' = changed
    BY <1>12 DEF OfNpcs, switchVars
  <2>3. /\ RelayInv' /\ RelayTypeOK(Allowed)' /\ online' = online
        /\ Undisturbed /\ SendsNoPress
    BY <2>1, <2>2, AfterEffect, KindsAllowed, KindsAreApart
  <2>4. QED BY <1>1, <1>12, <2>1, <2>3, OtherKinds DEF OfNpcs, KindsInv, WorldInv
<1>13. QED BY <1>2, <1>3, <1>4, <1>5, <1>6, <1>7, <1>8, <1>9, <1>10, <1>11, <1>12

\* The loops advance, and nothing else happens.
LEMMA TickStepInv ==
    ASSUME WorldInv, OfAnims(Tick)
    PROVE  WorldInv' /\ SendsNoPress
<1>1. AnimTypeOK' /\ UNCHANGED relayVars
    BY TickInv DEF OfAnims, WorldInv, KindsInv
<1>2. UNCHANGED <<pickupVars, chestVars, switchVars, wallVars, triggerVars, itemVars,
                  holdVars, pushVars, sceneVars, npcVars>>
    BY DEF OfAnims
<1>3. RelayInv' /\ UNCHANGED <<online, pending>>
    BY <1>1, RelayStutterInv DEF WorldInv, relayVars
<1>4. RelayTypeOK(Allowed)'
  <2>1. PICK M : M = Allowed
    OBVIOUS
  <2>2. RelayTypeOK(M)'
    BY <1>1, <2>1, StillRelayTyped DEF WorldInv
  <2>3. QED BY <1>2, <2>1, <2>2, StaysAllowed DEF switchVars
<1>5. SendsNoPress
    BY <1>1 DEF relayVars, SendsNoPress, SendsAtMost
<1>6. QED BY <1>1, <1>2, <1>3, <1>4, <1>5, OtherKinds DEF Undisturbed, KindsInv, WorldInv

\* What only moves messages, or loads the level.
LEMMA RelayStepInv ==
    ASSUME WorldInv, NEW p \in Players,
           \/ OfRelay(Relay(p))
           \/ OfRelay(ReceiveQueued(p))
           \/ OfRelay(TakeIncoming(p))
           \/ OfRelay(EnterLevel(p))
    PROVE  WorldInv' /\ SendsNoPress
<1>1. /\ UNCHANGED <<pickupVars, chestVars, switchVars, wallVars, triggerVars, itemVars,
                      holdVars, pushVars, animVars, sceneVars, npcVars>>
      /\ Relay(p) \/ Receive(p) \/ TakeIncoming(p) \/ EnterLevel(p)
    BY DEF OfRelay, ReceiveQueued
<1>2. RelayInv'
    BY <1>1, RelayRelayInv, ReceiveInv, TakeIncomingInv, EnterLevelInv DEF WorldInv
<1>3. RelayTypeOK(Allowed)'
  <2>1. PICK M : M = Allowed
    OBVIOUS
  <2>2. RelayTypeOK(M)'
    BY <1>1, <2>1, MovesTyped DEF WorldInv
  <2>3. QED BY <1>1, <2>1, <2>2, StaysAllowed DEF switchVars
<1>4. online' = online
    BY <1>1 DEF Relay, Receive, TakeIncoming, EnterLevel
<1>5. Undisturbed
  <2>1. CASE TakeIncoming(p)
    <3>1. stage[p] = "none"
      BY <2>1 DEF TakeIncoming, InGameLogic, WorldInv, KindsInv, TriggerInv, StageInv, ToApply
    <3>2. \A r \in Players \ {p} : pending'[r] = pending[r]
      BY <2>1, QueuesKept DEF TakeIncoming, WorldInv, RelayInv, RelayShape, IsQueues
    <3>3. QED BY <3>1, <3>2 DEF Undisturbed
  <2>2. CASE Relay(p) \/ Receive(p) \/ EnterLevel(p)
    BY <2>2 DEF Relay, Receive, EnterLevel, Undisturbed
  <2>3. QED BY <1>1, <2>1, <2>2
<1>6. SendsNoPress
  <2>1. CASE Relay(p)
    BY <2>1, QueuesKept DEF Relay, SendsNoPress, SendsAtMost, WorldInv, RelayInv, RelayShape
  <2>2. CASE Receive(p) \/ TakeIncoming(p) \/ EnterLevel(p)
    BY <2>2 DEF Receive, TakeIncoming, EnterLevel, SendsNoPress, SendsAtMost
  <2>3. QED BY <1>1, <2>1, <2>2
<1>7. QED BY <1>1, <1>2, <1>3, <1>4, <1>5, <1>6, OtherKinds DEF KindsInv, WorldInv

\* The end of a session, and the beginning of the next.
LEMMA SessionStepInv ==
    ASSUME WorldInv, NEW p \in Players, Lose(p) \/ Join(p)
    PROVE  WorldInv' /\ SendsNoPress
<1>1. RelayInv /\ KindsInv
    BY DEF WorldInv
<1>2. ResetAll(p) /\ (LoseSession(p) \/ JoinSession(p))
    BY DEF Lose, Join
<1>3. RelayInv' /\ pending' = pending /\ online' \subseteq online \cup {p}
    BY <1>1, <1>2, LoseSessionInv, JoinSessionInv DEF LoseSession, JoinSession
<1>4. SwitchInv' /\ changed' = changed
    BY <1>1, <1>2, ForgetSwitchesInv DEF ResetAll, KindsInv
<1>5. RelayTypeOK(Allowed)'
  <2>1. PICK M : M = Allowed
    OBVIOUS
  <2>2. RelayTypeOK(M)'
    BY <1>2, <2>1, MovesTyped DEF WorldInv
  <2>3. QED BY <1>4, <2>1, <2>2, StaysAllowed
<1>6. PickupInv' /\ ChestInv' /\ WallInv'
    BY <1>1, <1>2, <1>3, ResetPickupsInv, ResetChestsInv, ResetWallsInv DEF ResetAll, KindsInv
<1>7. TriggerInv' /\ ItemInv'
    BY <1>1, <1>2, <1>3, ResetTriggersInv, ResetItemsInv DEF ResetAll, KindsInv
<1>8. HoldTypeOK' /\ PushTypeOK' /\ AnimTypeOK'
    BY <1>1, <1>2, ForgetHoldsInv, ForgetPushesInv, ResetAnimsInv DEF ResetAll, KindsInv
<1>9. SceneTypeOK' /\ NpcInv'
    BY <1>1, <1>2, SceneStutterInv, ResetNpcsInv DEF ResetAll, KindsInv
<1>10. SendsNoPress
  <2>1. CASE LoseSession(p)
    BY <2>1, QueuesKept DEF LoseSession, SendsNoPress, SendsAtMost, WorldInv, RelayInv, RelayShape
  <2>2. CASE JoinSession(p)
    BY <2>2 DEF JoinSession, SendsNoPress, SendsAtMost
  <2>3. QED BY <1>2, <2>1, <2>2
<1>11. QED BY <1>3, <1>4, <1>5, <1>6, <1>7, <1>8, <1>9, <1>10 DEF KindsInv, WorldInv

\* The end of a visit to the level.
LEMMA LeaveStepInv ==
    ASSUME WorldInv, NEW p \in Players, Leave(p)
    PROVE  WorldInv' /\ SendsNoPress
<1>1. RelayInv /\ KindsInv
    BY DEF WorldInv
<1>2. RelayInv' /\ pending' = pending /\ online' = online
    BY <1>1, LeaveLevelInv DEF Leave, LeaveLevel
<1>3. SwitchInv' /\ changed' = changed
    BY <1>1, ForgetSwitchesInv DEF Leave, KindsInv
<1>4. RelayTypeOK(Allowed)'
  <2>1. PICK M : M = Allowed
    OBVIOUS
  <2>2. RelayTypeOK(M)'
    BY <2>1, MovesTyped DEF Leave, WorldInv
  <2>3. QED BY <1>3, <2>1, <2>2, StaysAllowed
<1>5. PickupInv' /\ ChestInv' /\ WallInv'
    BY <1>1, <1>2, ReloadPickupsInv, ReloadChestsInv, ReloadWallsInv DEF Leave, KindsInv
<1>6. TriggerInv' /\ ItemInv'
    BY <1>1, <1>2, ReloadTriggersInv, ReloadItemsInv DEF Leave, KindsInv
<1>7. HoldTypeOK' /\ PushTypeOK' /\ AnimTypeOK'
    BY <1>1, ForgetHoldsInv, ForgetPushesInv, ReloadAnimsInv DEF Leave, KindsInv
<1>8. SceneTypeOK' /\ NpcInv'
    BY <1>1, ReloadScenesInv, ReloadNpcsInv DEF Leave, KindsInv
<1>9. SendsNoPress
    BY DEF Leave, LeaveLevel, SendsNoPress, SendsAtMost
<1>10. QED BY <1>2, <1>3, <1>4, <1>5, <1>6, <1>7, <1>8, <1>9 DEF KindsInv, WorldInv

LEMMA WorldStutterInv ==
    ASSUME WorldInv, UNCHANGED vars
    PROVE  WorldInv' /\ SendsNoPress
<1>1. UNCHANGED <<relayVars, pickupVars, chestVars, switchVars, wallVars, triggerVars,
                  itemVars, holdVars, pushVars, animVars, sceneVars, npcVars>>
    BY DEF vars
<1>2. RelayInv' /\ UNCHANGED <<online, pending>>
    BY <1>1, RelayStutterInv DEF WorldInv, relayVars
<1>3. RelayTypeOK(Allowed)'
  <2>1. PICK M : M = Allowed
    OBVIOUS
  <2>2. RelayTypeOK(M)'
    BY <1>1, <2>1, StillRelayTyped DEF WorldInv
  <2>3. QED BY <1>1, <2>1, <2>2, StaysAllowed DEF switchVars
<1>4. SendsNoPress
    BY <1>1 DEF relayVars, SendsNoPress, SendsAtMost
<1>5. QED BY <1>1, <1>2, <1>3, <1>4, OtherKinds DEF Undisturbed, KindsInv, WorldInv

LEMMA WorldStepInv ==
    ASSUME WorldInv, [Next]_vars
    PROVE  WorldInv' /\ (SendsNoPress \/ \E p \in Players : TriggerStep(p))
<1>1. CASE UNCHANGED vars
    BY <1>1, WorldStutterInv
<1>2. CASE Next
  <2>1. level.players \subseteq Players
    BY DEF WorldInv, RelayInv, RelayShape
  <2>2. QED BY <1>2, <2>1, TickStepInv, KindStepInv, RelayStepInv, SessionStepInv,
             LeaveStepInv DEF Next
<1>3. QED BY <1>1, <1>2

LEMMA WorldInvAlways == Spec => []WorldInv
<1>1. WorldInv /\ [Next]_vars => WorldInv'
    BY WorldStepInv
<1>2. QED BY <1>1, WorldInitInv, PTL DEF Spec

-----------------------------------------------------------------------------

\* resetClientSessionState and the reset off the level leave no message of an old
\* session or visit, in any queue, whatever the kinds of events are doing.
THEOREM NothingLeftOverAlways == Spec => []NothingLeftOver
<1>1. WorldInv => NothingLeftOver
    BY DEF WorldInv, RelayInv
<1>2. QED BY <1>1, WorldInvAlways, PTL

\* applyQueuedPickupCollects never grants an item a second time, whoever else picked
\* it up and whatever echoes arrive.
THEOREM GrantedOnceAlways == Spec => []GrantedOnce
<1>1. WorldInv => GrantedOnce
    BY PickupInvSuffices DEF WorldInv, KindsInv
<1>2. QED BY <1>1, WorldInvAlways, PTL

\* detectPickupChanges announces a pickup at most once between two resets of its
\* cache, so that echoes die out.
THEOREM AnnouncedOnceAlways == Spec => []AnnouncedOnce
<1>1. WorldInv => AnnouncedOnce
    BY PickupInvSuffices DEF WorldInv, KindsInv
<1>2. QED BY <1>1, WorldInvAlways, PTL

\* applyQueuedChestOpens never opens a chest again that is open in a player's world.
THEOREM OpenedOnceAlways == Spec => []OpenedOnce
<1>1. WorldInv => OpenedOnce
    BY ChestInvSuffices DEF WorldInv, KindsInv
<1>2. QED BY <1>1, WorldInvAlways, PTL

\* The queue of hkChestOpen holds only what the client's own player opened during
\* this visit: openings for others go past the hook.
THEOREM OnlyOwnOpensAlways == Spec => []OnlyOwnOpens
<1>1. WorldInv => OnlyOwnOpens
    BY ChestInvSuffices DEF WorldInv, KindsInv
<1>2. QED BY <1>1, WorldInvAlways, PTL

\* The hook on StartBreakAtPoint never queues a cut that was applied for another
\* player: no feedback loop.
THEOREM OnlyOwnCutsAlways == Spec => []OnlyOwnCuts
<1>1. WorldInv => OnlyOwnCuts
    BY DEF WorldInv, KindsInv, WallInv
<1>2. QED BY <1>1, WorldInvAlways, PTL

\* No mark in g_appliedWebWallBreaks outlives the visit to the level it was made on, so
\* that no wall of a later visit is taken for broken; applyQueuedWebWallBreaks marks a
\* wall whose layer is not loaded, too, but only when it was cut on this visit.
THEOREM MarksOfThisVisitAlways == Spec => []MarksOfThisVisit
<1>1. WorldInv => MarksOfThisVisit
    BY DEF WorldInv, KindsInv, WallInv
<1>2. QED BY <1>1, WorldInvAlways, PTL

LEMMA WorldInvTyped == WorldInv => TypeOK
<1> SUFFICES ASSUME WorldInv PROVE TypeOK
    OBVIOUS
<1>1. RelayTypeOK(Messages)
  <2>1. PICK M : M = Allowed
    OBVIOUS
  <2>2. Seq(M) \subseteq Seq(Messages)
    BY <2>1, MoreMessages DEF Allowed
  <2>3. QED BY <2>1, <2>2 DEF WorldInv, RelayTypeOK
<1>2. ChestTypeOK
    BY ChestInvSuffices DEF WorldInv, KindsInv
<1>3. QED BY <1>1, <1>2 DEF WorldInv, KindsInv, PickupInv, SwitchInv, WallInv, TriggerInv,
                            ItemInv, NpcInv, TypeOK

\* Every variable keeps its type; in particular every message that is sent is one of its
\* kind, with content of the right type, on every channel and in every queue.
THEOREM WorldTypeOKAlways == Spec => []TypeOK
BY WorldInvTyped, WorldInvAlways, PTL

\* detectSwitchChanges sends no state a switch did not have when a player or the game
\* changed it, whatever it finds when a level is loaded or a session begins, and whatever
\* echoes arrive.
THEOREM OnlyChangesToldAlways == Spec => []OnlyChangesTold
<1>1. WorldInv => OnlyChangesTold
  <2> SUFFICES ASSUME WorldInv, NEW m \in Travelling, m \in SwitchMessages
               PROVE  m \in changed
    BY DEF OnlyChangesTold
  <2>1. PICK M : M = Allowed
    OBVIOUS
  <2>2. \A q \in {uplink, downlink, incoming, pending} : q \in [Players -> Seq(M)]
    BY <2>1 DEF WorldInv, RelayTypeOK
  <2>3. m \in M
    BY <2>2 DEF Travelling
  <2>4. QED BY <2>1, <2>3 DEF Allowed
<1>2. QED BY <1>1, WorldInvAlways, PTL

\* What a client with a session believes to have seen of a trigger's items never runs
\* ahead of what there is, so that no change to come looks like none.
THEOREM CacheNotAheadAlways == Spec => []CacheNotAhead
<1>1. WorldInv => CacheNotAhead
    BY DEF WorldInv, KindsInv, ItemInv
<1>2. QED BY <1>1, WorldInvAlways, PTL

-----------------------------------------------------------------------------
(* A press that was applied is not sent back: what a step sends, and what   *)
(* of that are presses.                                                     *)

\* What is new in an uplink.
LEMMA NewlySent ==
    ASSUME NEW M, NEW old \in Seq(M), NEW new \in Seq(M)
    PROVE  /\ Len(new) <= Len(old) => ToSet(SubSeq(new, Len(old) + 1, Len(new))) = {}
           /\ \A N, msgs : msgs \in Seq(N) /\ new = old \o msgs =>
                 ToSet(SubSeq(new, Len(old) + 1, Len(new))) \subseteq N
<1>1. Len(old) \in Nat /\ Len(new) \in Nat
    OBVIOUS
<1>2. ASSUME Len(new) <= Len(old)
      PROVE  ToSet(SubSeq(new, Len(old) + 1, Len(new))) = {}
  <2>1. SubSeq(new, Len(old) + 1, Len(new)) = <<>>
    BY <1>1, <1>2
  <2>2. QED BY <2>1 DEF ToSet
<1>3. ASSUME NEW N, NEW msgs \in Seq(N), new = old \o msgs
      PROVE  ToSet(SubSeq(new, Len(old) + 1, Len(new))) \subseteq N
  <2> DEFINE part == SubSeq(new, Len(old) + 1, Len(new))
  <2>1. Len(msgs) \in Nat /\ Len(new) = Len(old) + Len(msgs)
    BY <1>1, <1>3
  <2>2. /\ DOMAIN part = 1 .. Len(msgs)
        /\ \A i \in 1 .. Len(msgs) : part[i] = new[Len(old) + i]
    BY <1>1, <2>1
  <2>3. \A i \in 1 .. Len(msgs) : new[Len(old) + i] = msgs[i]
    BY <1>1, <1>3, <2>1
  <2>4. \A i \in 1 .. Len(msgs) : msgs[i] \in N
    BY <2>1
  <2> HIDE DEF part
  <2>5. ToSet(part) \subseteq N
    BY <2>2, <2>3, <2>4 DEF ToSet
  <2>6. QED BY <2>5 DEF part
<1>4. QED BY <1>2, <1>3

\* What p sends of presses in a step is among what the step may send.
LEMMA PressesAmong ==
    ASSUME WorldInv, WorldInv', NEW p \in Players, NEW Kind, SendsAtMost(p, Kind),
           NEW t \in PressesSentBy(p)
    PROVE  \E m \in TriggerMessages \cap Kind : t = m.trigger
<1>1. PICK m \in TriggerMessages :
         /\ m \in ToSet(SubSeq(uplink'[p], Len(uplink[p]) + 1, Len(uplink'[p])))
         /\ t = m.trigger
    BY DEF PressesSentBy
<1>2. uplink[p] \in Seq(Messages) /\ uplink'[p] \in Seq(Messages)
  <2>1. TypeOK /\ TypeOK'
    BY WorldInvTyped, PTL
  <2>2. QED BY <2>1 DEF TypeOK, RelayTypeOK
<1>3. ~(Len(uplink'[p]) <= Len(uplink[p]))
    BY <1>1, <1>2, NewlySent
<1>4. PICK msgs \in Seq(Kind) : uplink'[p] = uplink[p] \o msgs
  <2>1. Len(<<>>) <= Len(uplink[p]) /\ (uplink[p] # <<>> => Len(Tail(uplink[p])) <= Len(uplink[p]))
    BY <1>2
  <2>2. Len(uplink[p]) <= Len(uplink[p])
    BY <1>2
  <2>3. QED BY <1>3, <2>1, <2>2 DEF SendsAtMost
<1>5. QED BY <1>1, <1>2, <1>4, NewlySent

NotAnEcho(p, t) ==
    \/ pressedBy[p][t] = "player"
    \/ stage[p] = "pressed" /\ t = Head(pending[p]).trigger

LEMMA NoEchoStep ==
    ASSUME WorldInv, [Next]_vars
    PROVE  \A p \in Players : \A t \in PressesSentBy(p) : NotAnEcho(p, t)
<1> SUFFICES ASSUME NEW p \in Players, NEW t \in PressesSentBy(p)
             PROVE  NotAnEcho(p, t)
    OBVIOUS
<1>1. WorldInv' /\ RelayInv /\ TriggerInv
    BY WorldStepInv DEF WorldInv, KindsInv
<1>2. ~SendsNoPress
    BY <1>1, PressesAmong DEF SendsNoPress
<1>3. PICK q \in Players : TriggerStep(q)
    BY <1>2, WorldStepInv
<1>4. CASE DetectTriggerChanges(q)
  <2>1. PICK msgs \in Seq(NewPresses(q)) : Send(q, msgs)
    BY <1>1, <1>4, DetectTriggerInv
  <2>2. PICK Kind : Kind = NewPresses(q)
    OBVIOUS
  <2>3. /\ uplink'[q] = uplink[q] \o msgs
        /\ \A r \in Players \ {q} : uplink'[r] = uplink[r]
    BY <1>1, <2>1, QueuesKept DEF Send, RelayInv, RelayShape, IsQueues
  <2>4. SendsAtMost(q, Kind) /\ \A r \in Players \ {q} : SendsAtMost(r, {})
    BY <2>2, <2>3 DEF SendsAtMost
  <2>5. p = q
    BY <1>1, <2>4, PressesAmong
  <2>6. PICK m \in Kind : t = m.trigger
    BY <1>1, <2>4, <2>5, PressesAmong
  <2>7. t \in Triggers /\ t \in fired[p] /\ triggerSeen[p][t] = "armed"
    BY <2>2, <2>5, <2>6 DEF NewPresses, TriggerMessages
  <2>8. QED BY <1>1, <2>7 DEF TriggerInv, FiredByPlayer, BeingApplied, NotAnEcho
<1>5. CASE ~DetectTriggerChanges(q)
  <2>1. uplink' = uplink
    BY <1>3, <1>5 DEF TriggerStep, Press, Rearm, SuppressTrigger, PressRemotely, SnapshotTrigger,
                      Applied, relayVars
  <2>2. SendsNoPress
    BY <2>1 DEF SendsNoPress, SendsAtMost
  <2>3. QED BY <1>2, <2>2
<1>6. QED BY <1>4, <1>5

\* A press that was applied for another player is not sent back once its outcome is in
\* the cache of detectTriggerChanges (applyQueuedTriggerOnPressBs): whatever a pass
\* sends was pressed by its own player, or is just being applied.
THEOREM NoEchoAfterSnapshotAlways == Spec => NoEchoAfterSnapshot
<1>1. WorldInv /\ [Next]_vars =>
        [\A p \in Players : \A t \in PressesSentBy(p) : NotAnEcho(p, t)]_<<relayVars, triggerVars>>
    BY NoEchoStep
<1>2. QED BY <1>1, WorldInvAlways, PTL DEF Spec, NoEchoAfterSnapshot, NotAnEcho
=============================================================================
