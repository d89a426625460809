------------------------------- MODULE World -------------------------------
(***************************************************************************)
(* The world the players share: every kind of event, the channels that carry *)
(* them, and the sessions and visits to the level that begin and end for all *)
(* kinds at once.                                                            *)
(*                                                                         *)
(* The program has a queue for each kind; here a player has one for all, in  *)
(* which the events of a kind keep their order.  The kinds share nothing but *)
(* the session and the level.                                                *)
(***************************************************************************)
EXTENDS PickupSync, ChestSync, SwitchSync, WebWallSync, TriggerSync, TriggerItems,
        HoldSync, PushSync, AnimSync, SceneSync, NpcSync

vars == <<relayVars, pickupVars, chestVars, switchVars, wallVars, triggerVars, itemVars,
          holdVars, pushVars, animVars, sceneVars, npcVars>>

\* What the network thread does not queue until the level or the session ends.
DirectMessages == UNION {HoldMessages, PushMessages, AnimMessages, SceneMessages, NpcMessages}

Messages == UNION {PickupMessages, ChestMessages, SwitchMessages, WallMessages,
                   TriggerMessages, ItemMessages, DirectMessages}

Init ==
    /\ RelayInit
    /\ PickupInit
    /\ ChestInit
    /\ SwitchInit
    /\ WallInit
    /\ TriggerInit
    /\ ItemInit
    /\ HoldInit
    /\ PushInit
    /\ AnimInit
    /\ SceneInit
    /\ NpcInit

OfPickups(A) == A /\ UNCHANGED <<chestVars, switchVars, wallVars, triggerVars,
                                 itemVars, holdVars, pushVars, animVars, sceneVars, npcVars>>
OfChests(A) == A /\ UNCHANGED <<pickupVars, switchVars, wallVars, triggerVars,
                                itemVars, holdVars, pushVars, animVars, sceneVars, npcVars>>
OfSwitches(A) == A /\ UNCHANGED <<pickupVars, chestVars, wallVars, triggerVars,
                                  itemVars, holdVars, pushVars, animVars, sceneVars, npcVars>>
OfWalls(A) == A /\ UNCHANGED <<pickupVars, chestVars, switchVars, triggerVars,
                               itemVars, holdVars, pushVars, animVars, sceneVars, npcVars>>
OfTriggers(A) == A /\ UNCHANGED <<pickupVars, chestVars, switchVars, wallVars,
                                  itemVars, holdVars, pushVars, animVars, sceneVars, npcVars>>
OfItems(A) == A /\ UNCHANGED <<pickupVars, chestVars, switchVars, wallVars,
                               triggerVars, holdVars, pushVars, animVars, sceneVars, npcVars>>
OfHolds(A) == A /\ UNCHANGED <<pickupVars, chestVars, switchVars, wallVars,
                               triggerVars, itemVars, pushVars, animVars, sceneVars, npcVars>>
OfPushes(A) == A /\ UNCHANGED <<pickupVars, chestVars, switchVars, wallVars,
                                triggerVars, itemVars, holdVars, animVars, sceneVars, npcVars>>
OfAnims(A) == A /\ UNCHANGED <<pickupVars, chestVars, switchVars, wallVars,
                               triggerVars, itemVars, holdVars, pushVars, sceneVars, npcVars>>
OfScenes(A) == A /\ UNCHANGED <<pickupVars, chestVars, switchVars, wallVars,
                                triggerVars, itemVars, holdVars, pushVars, animVars, npcVars>>
OfNpcs(A) == A /\ UNCHANGED <<pickupVars, chestVars, switchVars, wallVars,
                              triggerVars, itemVars, holdVars, pushVars, animVars, sceneVars>>
OfRelay(A) == A /\ UNCHANGED <<pickupVars, chestVars, switchVars, wallVars,
                               triggerVars, itemVars, holdVars, pushVars, animVars, sceneVars, npcVars>>

\* resetClientSessionState, for all kinds.
ResetAll(p) ==
    /\ ResetPickups(p)
    /\ ResetChests(p)
    /\ ResetSwitches(p)
    /\ ResetWalls(p)
    /\ ResetTriggers(p)
    /\ ResetItems(p)
    /\ ResetHolds(p)
    /\ ResetPushes(p)
    /\ ResetAnims(p)
    /\ ResetNpcs(p)
    /\ UNCHANGED sceneVars

\* The session of p is lost ...
Lose(p) == LoseSession(p) /\ ResetAll(p)

\* ... and /reconnect, which resets once more, ends in a session in the same step.
Join(p) == JoinSession(p) /\ ResetAll(p)

\* The game of p leaves the level.
Leave(p) ==
    /\ LeaveLevel(p)
    /\ ReloadPickups(p)
    /\ ReloadChests(p)
    /\ ReloadSwitches(p)
    /\ ReloadWalls(p)
    /\ ReloadTriggers(p)
    /\ ReloadItems(p)
    /\ ReloadHolds(p)
    /\ ReloadPushes(p)
    /\ ReloadAnims(p)
    /\ ReloadScenes(p)
    /\ ReloadNpcs(p)

\* The network thread of p handles a message that waits for the game thread.
ReceiveQueued(p) == Receive(p) /\ Head(downlink[p]) \notin DirectMessages

Next ==
  \/ OfAnims(Tick)
  \/ \E p \in level.players :
    \/ OfPickups(PickupStep(p))
    \/ OfChests(ChestStep(p))
    \/ OfSwitches(SwitchStep(p))
    \/ OfWalls(WallStep(p))
    \/ OfTriggers(TriggerStep(p))
    \/ OfItems(ItemStep(p))
    \/ OfHolds(HoldStep(p))
    \/ OfPushes(PushStep(p))
    \/ OfAnims(AnimStep(p))
    \/ OfScenes(SceneStep(p))
    \/ OfNpcs(NpcStep(p))
    \/ OfRelay(Relay(p))
    \/ OfRelay(ReceiveQueued(p))
    \/ OfRelay(TakeIncoming(p))
    \/ OfRelay(EnterLevel(p))
    \/ Lose(p)
    \/ Join(p)
    \/ Leave(p)

\* The network thread of p: it receives, and its passes detect and send.  Reading and
\* suppressing NPCs, which it does besides, is told apart because snapshots never end.
NetworkThread(p) ==
    \/ OfRelay(ReceiveQueued(p))
    \/ OfPickups(\E g \in Pickups : DetectPickupChange(p, g))
    \/ OfChests(SendChestOpens(p))
    \/ OfSwitches(\E s \in Switches : DetectSwitchChange(p, s))
    \/ OfWalls(SendWebWallBreak(p))
    \/ OfTriggers(DetectTriggerChanges(p))
    \/ OfItems(LiftSuppression(p) \/ DetectItems(p))
    \/ OfHolds(AcquireHoistable(p) \/ ReleaseHoistable(p) \/ ProcessHoistable(p))
    \/ OfPushes(AcquirePushBlock(p) \/ UpdatePushBlock(p) \/ ReleasePushBlock(p)
                \/ ProcessPushBlock(p))
    \/ OfAnims(SendAnimSync(p) \/ SendAnimSyncRequest(p))
    \/ OfAnims(ProcessAnimSyncRequest(p) \/ ProcessAnimSync(p))
    \/ OfScenes(SendScenes(p) \/ SendThrow(p) \/ ProcessScene(p))
    \/ OfNpcs(SendEnemies(p) \/ ProcessEnemiesUpdate(p))

\* The game thread of p, as far as it runs code of the mod.
GameThread(p) ==
    \/ OfRelay(TakeIncoming(p))
    \/ OfPickups(ApplyPickupCollect(p))
    \/ OfChests(ApplyChestOpen(p))
    \/ OfSwitches(ApplySwitchToggle(p))
    \/ OfWalls(ApplyWebWallBreak(p))
    \/ OfTriggers(SuppressTrigger(p) \/ PressRemotely(p) \/ SnapshotTrigger(p))
    \/ OfItems(SuppressItems(p) \/ UseItem(p) \/ SnapshotItems(p))
    \/ OfPushes(ApplyPushBlocks(p))
    \/ OfAnims(ApplyAnimSync(p))
    \/ OfScenes(ApplyCinemaStart(p) \/ ApplySpawn(p) \/ ApplyFx(p) \/ ApplyThrow(p))
    \/ OfNpcs(UpdateEnemies(p))

\* The server and the two threads of a client go on; players need not.
Fairness == \A p \in Players :
    /\ WF_vars(OfRelay(Relay(p)))
    /\ WF_vars(NetworkThread(p))
    /\ WF_vars(OfNpcs(ReadNpcs(p) \/ SuppressAI(p)))
    /\ WF_vars(GameThread(p))

Spec == Init /\ [][Next]_vars
FairSpec == Spec /\ Fairness

-----------------------------------------------------------------------------

\* The types of everything; a message has room for what it carries.
TypeOK ==
    /\ RelayTypeOK(Messages)
    /\ PickupTypeOK
    /\ ChestTypeOK
    /\ SwitchTypeOK
    /\ WallTypeOK
    /\ TriggerTypeOK
    /\ ItemTypeOK
    /\ HoldTypeOK
    /\ PushTypeOK
    /\ AnimTypeOK
    /\ SceneTypeOK
    /\ NpcTypeOK

\* What one player does happens in every world, while nobody is absent: in the end it is
\* collected, opened, broken, fired, played, made, pushed or seen everywhere, for good.
EventsReachAll == <>[](/\ CollectedByAll
                       /\ OpenForAll
                       /\ BrokenForAll
                       /\ TriggersFireForAll
                       /\ ItemsFireForAll
                       /\ CinemasForAll
                       /\ SpawnsForAll
                       /\ BlocksFollow
                       /\ SeenAlike)
=============================================================================
