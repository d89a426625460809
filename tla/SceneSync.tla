------------------------------ MODULE SceneSync ------------------------------
(***************************************************************************)
(* What a player sees happen and the others are shown as well: cutscenes    *)
(* that are to be shared, objects made by /spawn, effects, and stones.  The  *)
(* hooks queue what happened here; what others tell is queued too, and the   *)
(* game thread shows it through the functions the hooks are on, past the     *)
(* hooks.  None of these queues ends with a session or a level.              *)
(***************************************************************************)
EXTENDS WorldRelay, SequencesExt

CONSTANTS Cinemas,         \* GUIDs of cutscenes in SYNCED_CINEMAS.txt
          Repeatable,      \* those that can be played again
          Props,           \* GUIDs of objects that are spawned
          Effects,         \* effects on the list, and
          Stones,          \* throws of stones, which have one slot
          MaxShows         \* bound: how often a player sees something happen

ASSUME SceneAssumption == MaxShows \in Nat /\ Repeatable \subseteq Cinemas

VARIABLES cinema,          \* per player and cutscene: waiting, playing or finished
          spawned,         \* per player: the spawned objects in its world
          shown,           \* per player and effect or stone: how often it was seen
          outgoingScenes,  \* per player: g_outgoingCinemaStarts, ...Spawns, ...Fx
          lastThrow,       \* per player: g_lastThrow..., or nothing: a set
          incomingScenes,  \* per player: g_incomingCinemaStarts, ...Spawns, ...Fx, ...Throws
          shows            \* for the bound only

sceneVars == <<cinema, spawned, shown, outgoingScenes, lastThrow, incomingScenes, shows>>

CinemaSync(c) == [type |-> "CINEMA_SYNC", cinema |-> c]
SpawnObject(o) == [type |-> "SPAWN_OBJECT", object |-> o]
SpawnFx(e) == [type |-> "SPAWN_FX", effect |-> e]
StoneThrow(e) == [type |-> "STONE_THROW", stone |-> e]
SceneMessages == [type : {"CINEMA_SYNC"}, cinema : Cinemas]
                 \cup [type : {"SPAWN_OBJECT"}, object : Props]
                 \cup [type : {"SPAWN_FX"}, effect : Effects]
                 \cup [type : {"STONE_THROW"}, stone : Stones]

NothingShown == [e \in Effects \cup Stones |-> 0]
AllWaiting == [c \in Cinemas |-> "waiting"]

SceneInit ==
    /\ cinema = [p \in Players |-> AllWaiting]
    /\ spawned = [p \in Players |-> {}]
    /\ shown = [p \in Players |-> NothingShown]
    /\ outgoingScenes = NoQueue
    /\ lastThrow = [p \in Players |-> {}]
    /\ incomingScenes = NoQueue
    /\ shows = [p \in Players |-> 0]

\* Something happens in the world of p, as often as the bound allows.
Happens(p, o) ==
    /\ InGameLogic(p)
    /\ o \in objects
    /\ shows[p] < MaxShows
    /\ shows' = [shows EXCEPT ![p] = @ + 1]
    /\ UNCHANGED <<relayVars, incomingScenes>>

\* A hook queues what is to be told.
Tell(p, m) == outgoingScenes' = [outgoingScenes EXCEPT ![p] = Append(@, m)]

\* The engine starts a cutscene, or refuses to.
CanStart(p, c) == cinema[p][c] = "waiting" \/ (cinema[p][c] = "finished" /\ c \in Repeatable)

\* hkCinemaStart: the others are told even when the engine refused.
StartCinema(p, c) ==
    /\ Happens(p, c)
    /\ cinema' = [cinema EXCEPT ![p][c] = IF CanStart(p, c) THEN "playing" ELSE @]
    /\ Tell(p, CinemaSync(c))
    /\ UNCHANGED <<spawned, shown, lastThrow>>

\* A cutscene ends.
EndCinema(p, c) ==
    /\ InGameLogic(p)
    /\ cinema[p][c] = "playing"
    /\ cinema' = [cinema EXCEPT ![p][c] = "finished"]
    /\ UNCHANGED <<relayVars, spawned, shown, outgoingScenes, lastThrow, incomingScenes, shows>>

\* processLocalSpawnRequest: the engine gives the object a GUID that its world does not
\* have.
SpawnLocally(p, o) ==
    /\ Happens(p, o)
    /\ p \in online
    /\ o \notin spawned[p]
    /\ spawned' = [spawned EXCEPT ![p] = @ \cup {o}]
    /\ Tell(p, SpawnObject(o))
    /\ UNCHANGED <<cinema, shown, lastThrow>>

\* hkFxFireAndForget
ShowEffect(p, e) ==
    /\ Happens(p, e)
    /\ shown' = [shown EXCEPT ![p][e] = @ + 1]
    /\ Tell(p, SpawnFx(e))
    /\ UNCHANGED <<cinema, spawned, lastThrow>>

\* hkCreateStoneProjectile: a stone thrown before the last was sent replaces it.
ThrowStone(p, e) ==
    /\ Happens(p, e)
    /\ shown' = [shown EXCEPT ![p][e] = @ + 1]
    /\ lastThrow' = [lastThrow EXCEPT ![p] = {e}]
    /\ UNCHANGED <<cinema, spawned, outgoingScenes>>

\* sendCinemaSync, sendSpawns and sendFxSpawns
SendScenes(p) ==
    /\ Playing(p)
    /\ outgoingScenes[p] # <<>>
    /\ Send(p, outgoingScenes[p])
    /\ outgoingScenes' = [outgoingScenes EXCEPT ![p] = <<>>]
    /\ UNCHANGED <<cinema, spawned, shown, lastThrow, incomingScenes, shows>>

\* A stone is sent from anywhere.
SendThrow(p) == \E e \in lastThrow[p] :
    /\ p \in online
    /\ Send(p, <<StoneThrow(e)>>)
    /\ lastThrow' = [lastThrow EXCEPT ![p] = {}]
    /\ UNCHANGED <<cinema, spawned, shown, outgoingScenes, incomingScenes, shows>>

\* Cutscenes and stones name the level they happen in, but nobody compares it.
OfNoLevel == {"CINEMA_SYNC", "STONE_THROW"}
OnlyOfNoLevel(msgs) == FlattenSeq([i \in DOMAIN msgs |->
    IF msgs[i].type \in OfNoLevel THEN <<msgs[i]>> ELSE <<>>])

\* The player p has gone to another level, where the same queues are sent ...
SendScenesElsewhere(p) ==
    /\ p \in online \ onLevel
    /\ outgoingScenes[p] # <<>>
    /\ Send(p, OnlyOfNoLevel(outgoingScenes[p]))
    /\ outgoingScenes' = [outgoingScenes EXCEPT ![p] = <<>>]
    /\ UNCHANGED <<cinema, spawned, shown, lastThrow, incomingScenes, shows>>

\* ... and shown, to no effect in this one.
ShowElsewhere(p) ==
    /\ p \notin onLevel
    /\ incomingScenes[p] # <<>>
    /\ incomingScenes' = [incomingScenes EXCEPT ![p] = <<>>]
    /\ UNCHANGED <<relayVars, cinema, spawned, shown, outgoingScenes, lastThrow, shows>>

\* processCinemaSync, processSpawnObject, processSpawnFx and processStoneThrow; a player
\* who is elsewhere is on another level or on none.
ProcessScene(p) ==
    LET m == Head(downlink[p]) IN
    /\ HandleNext(p, SceneMessages)
    /\ \/ /\ p \in onLevel \/ m.type \in OfNoLevel
          /\ incomingScenes' = [incomingScenes EXCEPT ![p] = Append(@, m)]
       \/ /\ p \notin onLevel
          /\ UNCHANGED incomingScenes
    /\ UNCHANGED <<cinema, spawned, shown, outgoingScenes, lastThrow, shows>>

\* The game thread of p has a message of this kind to show.
ToShow(p, type) ==
    /\ InGameLogic(p)
    /\ incomingScenes[p] # <<>>
    /\ Head(incomingScenes[p]).type = type

Shown(p) ==
    /\ incomingScenes' = [incomingScenes EXCEPT ![p] = Tail(@)]
    /\ UNCHANGED <<relayVars, lastThrow, shows>>

\* applyQueuedCinemaStarts
ApplyCinemaStart(p) ==
    LET c == Head(incomingScenes[p]).cinema IN
    /\ ToShow(p, "CINEMA_SYNC")
    /\ cinema' = [cinema EXCEPT ![p][c] = IF CanStart(p, c) THEN "playing" ELSE @]
    /\ Shown(p)
    /\ UNCHANGED <<spawned, shown, outgoingScenes>>

\* applyQueuedSpawns: an object that is there is not made again.
ApplySpawn(p) ==
    LET o == Head(incomingScenes[p]).object IN
    /\ ToShow(p, "SPAWN_OBJECT")
    /\ spawned' = [spawned EXCEPT ![p] = @ \cup {o}]
    /\ Shown(p)
    /\ UNCHANGED <<cinema, shown, outgoingScenes>>

\* applyQueuedFx
ApplyFx(p) ==
    LET e == Head(incomingScenes[p]).effect IN
    /\ ToShow(p, "SPAWN_FX")
    /\ shown' = [shown EXCEPT ![p][e] = @ + 1]
    /\ Shown(p)
    /\ UNCHANGED <<cinema, spawned, outgoingScenes>>

\* The stones others threw, at the start of OnAdvanceLogic
ApplyThrow(p) ==
    LET e == Head(incomingScenes[p]).stone IN
    /\ ToShow(p, "STONE_THROW")
    /\ shown' = [shown EXCEPT ![p][e] = @ + 1]
    /\ Shown(p)
    /\ UNCHANGED <<cinema, spawned, outgoingScenes>>

\* The level is loaded without what was spawned in it, and its cutscenes wait.
ReloadScenes(p) ==
    /\ cinema' = [cinema EXCEPT ![p] = AllWaiting]
    /\ spawned' = [spawned EXCEPT ![p] = {}]
    /\ UNCHANGED <<shown, outgoingScenes, lastThrow, incomingScenes, shows>>

SceneStep(p) ==
    \/ \E c \in Cinemas : StartCinema(p, c) \/ EndCinema(p, c)
    \/ \E o \in Props : SpawnLocally(p, o)
    \/ \E e \in Effects : ShowEffect(p, e)
    \/ \E e \in Stones : ThrowStone(p, e)
    \/ SendScenes(p)
    \/ SendScenesElsewhere(p)
    \/ ShowElsewhere(p)
    \/ SendThrow(p)
    \/ ProcessScene(p)
    \/ ApplyCinemaStart(p)
    \/ ApplySpawn(p)
    \/ ApplyFx(p)
    \/ ApplyThrow(p)

-----------------------------------------------------------------------------

SceneTypeOK ==
    /\ cinema \in [Players -> [Cinemas -> {"waiting", "playing", "finished"}]]
    /\ spawned \in [Players -> SUBSET Props]
    /\ shown \in [Players -> [Effects \cup Stones -> Nat]]
    /\ outgoingScenes \in [Players -> Seq(SceneMessages)]
    /\ lastThrow \in [Players -> SUBSET Stones]
    /\ incomingScenes \in [Players -> Seq(SceneMessages)]
    /\ shows \in [Players -> Nat]

\* A cutscene that starts in one world is played in all ...
CinemasForAll == \A c \in Cinemas :
    EverywhereOrNowhere({p \in Players : cinema[p][c] # "waiting"})

\* ... and an object that is spawned in one world is in all: what they come to while
\* nobody is absent.
SpawnsForAll == \A o \in Props :
    EverywhereOrNowhere({p \in Players : o \in spawned[p]})

\* Everybody has seen an effect, and the stones thrown one at a time, as often as it
\* happened: none is lost, none is shown again by those who were told of it.
SeenAlike == \A p, q \in level.players : shown[p] = shown[q]
=============================================================================
