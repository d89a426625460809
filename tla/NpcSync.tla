------------------------------ MODULE NpcSync ------------------------------
(***************************************************************************)
(* NPCs: those on a fighting side are driven by the host.  Again and again  *)
(* it tells what they look like in its world, and the clients, which switch *)
(* the AI of these NPCs off, make theirs look the same.  Level scripts      *)
(* change sides in each world on their own, and a neutral NPC lives its own  *)
(* life in each.                                                             *)
(*                                                                         *)
(* What an NPC looks like (position, rotation, animation, health) is one     *)
(* number here; its shield, which cannot be mended, is told apart.           *)
(***************************************************************************)
EXTENDS WorldRelay, FiniteSets

CONSTANTS Npcs,            \* GUIDs of the NPCs there may be on a level
          Fighters,        \* of these, on a fighting side in the level data
          Forced,          \* of these, driven on whatever side they are (isForceSyncedNpc)
          LocalAI,         \* of these, never driven (isLocalAiNpc)
          KeepsAI,         \* of these, on a level that keeps its AI (levelKeepsLocalAI)
          KeepsGoals,      \* of these, on a level that keeps its goals (levelKeepsGoalLists)
          Commanders,      \* the players who use /ai
          NoUpdate,        \* nothing to apply: enemies_updated is false
          MaxMoves,        \* bound: moves of the NPCs in the worlds of hosts
          MaxScripts,      \* bound: changes of side, and uses of /ai
          MaxSnapshots     \* bound: snapshots on one way to or from the server

ASSUME NpcAssumption ==
    /\ Fighters \subseteq Npcs /\ KeepsAI \subseteq KeepsGoals
    /\ MaxMoves \in Nat /\ MaxScripts \in Nat /\ MaxSnapshots \in Nat

VARIABLES fighting,        \* per player: the NPCs on a fighting side in its world
          look,            \* per player and NPC: what it looks like
          shielded,        \* per player: the NPCs that carry a shield
          activated,       \* per player: the NPCs the engine has activated
          aiFlags,         \* per player and NPC: the AI flags of the object
          enemies,         \* per player: `enemies', as the flags each NPC was found with
          processedLevel,  \* processedDataForThisLevel, a set of players
          aiSuppressed,    \* per player: g_aiSuppressed
          aiMode,          \* per player: g_enemies_ai_mode
          enemyUpdates,    \* per player: enemy_updates, or NoUpdate
          moves, scripts   \* for the bounds only

npcVars == <<fighting, look, shielded, activated, aiFlags, enemies, processedLevel,
             aiSuppressed, aiMode, enemyUpdates, moves, scripts>>

Astray == MaxMoves + 1     \* where an NPC gets that a client drives
Looks == 0 .. Astray
AIModes == {"off", "on"}   \* 0 and 1 of four; 2 and 3 switch one half off
AIFlags == AIModes \cup {"own"}

\* What is told of an NPC.
NpcStates == [look : Looks, shield : BOOLEAN]
Snapshots == UNION {[S -> NpcStates] : S \in SUBSET Npcs}
EnemiesUpdate(s) == [type |-> "ENEMIES_UPDATE", npcs |-> s]
NpcMessages == [type : {"ENEMIES_UPDATE"}, npcs : Snapshots]

NoNpcs == [n \in {} |-> "own"]

NpcInit ==
    /\ fighting = [p \in Players |-> Fighters]
    /\ look = [p \in Players |-> [n \in Npcs |-> 0]]
    /\ shielded = [p \in Players |-> Npcs]
    /\ activated = [p \in Players |-> {}]
    /\ aiFlags = [p \in Players |-> [n \in Npcs |-> "own"]]
    /\ enemies = [p \in Players |-> NoNpcs]
    /\ processedLevel = {}
    /\ aiSuppressed = [p \in Players |-> {}]
    /\ aiMode = [p \in Players |-> "off"]
    /\ enemyUpdates = [p \in Players |-> NoUpdate]
    /\ moves = 0
    /\ scripts = 0

HasNpcs == objects \cap Npcs # {}

\* In the world of p, n is one of those the host drives.
Synced(p, n) == n \notin LocalAI /\ (n \in fighting[p] \/ n \in Forced)

\* The hooks on goals and on script actions keep n from having any, in a client's world.
Starved(p, n) == p \notin Hosts /\ n \notin KeepsGoals /\ Synced(p, n)

\* Something in the game of p makes n act: its states, or goals.
ActsIn(p, n) == aiFlags[p][n] # "off" \/ ~Starved(p, n)

-----------------------------------------------------------------------------
(* The game. *)

\* An NPC of a level does something: a host's NPC something new, a client's something
\* of its own.
MoveNpc(p, n) ==
    /\ InGameLogic(p)
    /\ n \in objects \cap activated[p] /\ ActsIn(p, n)
    /\ IF p \in Hosts
       THEN /\ moves < MaxMoves
            /\ moves' = moves + 1
            /\ look' = [look EXCEPT ![p][n] = moves + 1]
       ELSE /\ look' = [look EXCEPT ![p][n] = Astray]
            /\ UNCHANGED moves
    /\ UNCHANGED <<relayVars, fighting, shielded, activated, aiFlags, enemies,
                   processedLevel, aiSuppressed, aiMode, enemyUpdates, scripts>>

\* The shield of an NPC breaks, where its AI runs.
BreakShield(p, n) ==
    /\ InGameLogic(p)
    /\ n \in objects \cap activated[p] \cap shielded[p] /\ ActsIn(p, n)
    /\ shielded' = [shielded EXCEPT ![p] = @ \ {n}]
    /\ UNCHANGED <<relayVars, fighting, look, activated, aiFlags, enemies,
                   processedLevel, aiSuppressed, aiMode, enemyUpdates, moves, scripts>>

\* A script of the level makes n neutral, or makes it fight.
ChangeSide(p, n) ==
    /\ InGameLogic(p)
    /\ n \in objects
    /\ scripts < MaxScripts
    /\ scripts' = scripts + 1
    /\ fighting' = [fighting EXCEPT ![p] = (@ \ {n}) \cup ({n} \ @)]
    /\ UNCHANGED <<relayVars, look, shielded, activated, aiFlags, enemies,
                   processedLevel, aiSuppressed, aiMode, enemyUpdates, moves>>

\* The engine activates n.
Activate(p, n) ==
    /\ InGameLogic(p)
    /\ n \in objects \ activated[p]
    /\ activated' = [activated EXCEPT ![p] = @ \cup {n}]
    /\ UNCHANGED <<relayVars, fighting, look, shielded, aiFlags, enemies,
                   processedLevel, aiSuppressed, aiMode, enemyUpdates, moves, scripts>>

-----------------------------------------------------------------------------
(* The client. *)

\* readGamePointers, once in a visit and session.  It races the import of the level, and
\* may miss an NPC.
ReadNpcs(p) ==
    /\ Playing(p) /\ HasNpcs
    /\ p \notin processedLevel
    /\ processedLevel' = processedLevel \cup {p}
    /\ \E found \in SUBSET (objects \cap Npcs) :
           enemies' = [enemies EXCEPT ![p] = [n \in found |-> aiFlags[p][n]]]
    /\ aiSuppressed' = [aiSuppressed EXCEPT ![p] = {}]
    /\ UNCHANGED <<relayVars, fighting, look, shielded, activated, aiFlags, aiMode,
                   enemyUpdates, moves, scripts>>

\* readEnemiesState, which leaves out neutral NPCs.
SnapshotOf(p) ==
    [n \in {m \in DOMAIN enemies[p] : Synced(p, m)} |->
        [look |-> look[p][n], shield |-> n \in shielded[p]]]

OnTheWay(queue) == Cardinality({i \in DOMAIN queue : queue[i] \in NpcMessages})

\* The host tells what the NPCs look like, at a steady rate.
SendEnemies(p) ==
    /\ Playing(p) /\ p \in Hosts
    /\ p \in processedLevel
    /\ \A q \in Players :
           OnTheWay(uplink[q]) < MaxSnapshots /\ OnTheWay(downlink[q]) < MaxSnapshots
    /\ Send(p, <<EnemiesUpdate(SnapshotOf(p))>>)
    /\ UNCHANGED npcVars

\* Mutant: a mode is for the NPCs that have none yet.
ChangeModeOnce(p, mode) ==
    LET Driven == {n \in DOMAIN enemies[p] \ (KeepsAI \cup aiSuppressed[p]) : Synced(p, n)}
        Released == {n \in aiSuppressed[p] \ KeepsAI : ~Synced(p, n)}
    IN  /\ aiFlags' = [aiFlags EXCEPT ![p] =
                          [n \in Npcs |-> IF n \in Driven THEN mode
                                          ELSE IF n \in Released THEN enemies[p][n]
                                          ELSE @[n]]]
        /\ aiSuppressed' = [aiSuppressed EXCEPT ![p] = (@ \cup Driven) \ Released]

\* Mutant: an NPC that is driven no more keeps the mode.
ChangeModeOfDriven(p, mode) ==
    LET Driven == {n \in DOMAIN enemies[p] \ KeepsAI : Synced(p, n)} IN
    /\ aiFlags' = [aiFlags EXCEPT ![p] =
                      [n \in Npcs |-> IF n \in Driven THEN mode ELSE @[n]]]
    /\ aiSuppressed' = [aiSuppressed EXCEPT ![p] = Driven]

\* changeEnemiesAIMode: driven NPCs get this mode, NPCs that are driven no more get back
\* the flags they were found with.
ChangeEnemiesAIMode(p, mode) ==
    LET Driven == {n \in DOMAIN enemies[p] \ KeepsAI : Synced(p, n)}
        Released == {n \in aiSuppressed[p] \ KeepsAI : ~Synced(p, n)}
    IN  /\ aiFlags' = [aiFlags EXCEPT ![p] =
                          [n \in Npcs |-> IF n \in Driven THEN mode
                                          ELSE IF n \in Released THEN enemies[p][n]
                                          ELSE @[n]]]
        /\ aiSuppressed' = [aiSuppressed EXCEPT ![p] = (@ \cup Driven) \ Released]

\* A client does it at the same rate.
SuppressAI(p) ==
    /\ Playing(p) /\ p \notin Hosts
    /\ ChangeEnemiesAIMode(p, aiMode[p])
    /\ UNCHANGED <<relayVars, fighting, look, shielded, activated, enemies,
                   processedLevel, aiMode, enemyUpdates, moves, scripts>>

\* /ai, the host included, which does it this once.
ChatCommandChangeAIMode(p, mode) ==
    /\ p \in online \cap Commanders /\ HasNpcs
    /\ scripts < MaxScripts
    /\ scripts' = scripts + 1
    /\ aiMode' = [aiMode EXCEPT ![p] = mode]
    /\ ChangeEnemiesAIMode(p, mode)
    /\ UNCHANGED <<relayVars, fighting, look, shielded, activated, enemies,
                   processedLevel, enemyUpdates, moves>>

\* processEnemiesUpdate: the latest snapshot wins.
ProcessEnemiesUpdate(p) ==
    /\ HandleNext(p, NpcMessages)
    /\ enemyUpdates' = IF p \in onLevel
                       THEN [enemyUpdates EXCEPT ![p] = Head(downlink[p]).npcs]
                       ELSE enemyUpdates
    /\ UNCHANGED <<fighting, look, shielded, activated, aiFlags, enemies,
                   processedLevel, aiSuppressed, aiMode, moves, scripts>>

\* OnAdvanceLogic: NPCs that are known and activated are made to look as told, and lose
\* their shields.
UpdateEnemies(p) ==
    LET upd == enemyUpdates[p]
        Updated == DOMAIN upd \cap DOMAIN enemies[p] \cap activated[p]
    IN  /\ InGameLogic(p)
        /\ upd # NoUpdate
        /\ look' = [look EXCEPT ![p] =
                       [n \in Npcs |-> IF n \in Updated THEN upd[n].look ELSE @[n]]]
        /\ shielded' = [shielded EXCEPT ![p] = @ \ {n \in Updated : ~upd[n].shield}]
        /\ enemyUpdates' = [enemyUpdates EXCEPT ![p] = NoUpdate]
        /\ UNCHANGED <<relayVars, fighting, activated, aiFlags, enemies, processedLevel,
                       aiSuppressed, aiMode, moves, scripts>>

\* clearEnemies; the game keeps the flags as they are, and what is to be applied stays.
ForgetNpcs(p) ==
    /\ enemies' = [enemies EXCEPT ![p] = NoNpcs]
    /\ aiSuppressed' = [aiSuppressed EXCEPT ![p] = {}]
    /\ processedLevel' = processedLevel \ {p}

\* What a session knew of the NPCs goes with it ...
ResetNpcs(p) ==
    /\ ForgetNpcs(p)
    /\ UNCHANGED <<fighting, look, shielded, activated, aiFlags, aiMode, enemyUpdates,
                   moves, scripts>>

\* ... and with the level, of which the game forgets everything.  What was to be applied
\* may be, to no effect, on another level.
ReloadNpcs(p) ==
    /\ ForgetNpcs(p)
    /\ fighting' = [fighting EXCEPT ![p] = Fighters]
    /\ look' = [look EXCEPT ![p] = [n \in Npcs |-> 0]]
    /\ shielded' = [shielded EXCEPT ![p] = Npcs]
    /\ activated' = [activated EXCEPT ![p] = {}]
    /\ aiFlags' = [aiFlags EXCEPT ![p] = [n \in Npcs |-> "own"]]
    /\ enemyUpdates' \in {enemyUpdates, [enemyUpdates EXCEPT ![p] = NoUpdate]}
    /\ UNCHANGED <<aiMode, moves, scripts>>

NpcStep(p) ==
    \/ \E n \in Npcs :
          MoveNpc(p, n) \/ BreakShield(p, n) \/ ChangeSide(p, n) \/ Activate(p, n)
    \/ ReadNpcs(p)
    \/ SendEnemies(p)
    \/ SuppressAI(p)
    \/ \E mode \in AIModes : ChatCommandChangeAIMode(p, mode)
    \/ ProcessEnemiesUpdate(p)
    \/ UpdateEnemies(p)

-----------------------------------------------------------------------------

NpcTypeOK ==
    /\ fighting \in [Players -> SUBSET Npcs]
    /\ look \in [Players -> [Npcs -> Looks]]
    /\ shielded \in [Players -> SUBSET Npcs]
    /\ activated \in [Players -> SUBSET Npcs]
    /\ aiFlags \in [Players -> [Npcs -> AIFlags]]
    /\ \A p \in Players : \E S \in SUBSET Npcs : enemies[p] \in [S -> AIFlags]
    /\ processedLevel \subseteq Players
    /\ \A p \in Players : aiSuppressed[p] \subseteq DOMAIN enemies[p]
    /\ aiMode \in [Players -> AIModes]
    /\ enemyUpdates \in [Players -> Snapshots \cup {NoUpdate}]
    /\ moves \in 0 .. MaxMoves
    /\ scripts \in 0 .. MaxScripts

\* n is driven by the host h in the world of q, which leaves its AI off.
DrivenBy(h, q, n) ==
    /\ n \in (DOMAIN enemies[h] \cap DOMAIN enemies[q] \cap activated[q]) \ KeepsGoals
    /\ Synced(h, n) /\ Synced(q, n)
    /\ aiMode[q] = "off"

\* What the host drives looks the same in all worlds once it stands still, and a shield
\* that broke with the host is broken everywhere: no state, goal or script makes an NPC
\* stray from it again and again (changeEnemiesAIMode, the hooks on goals and actions).
NpcsFollowHost == <>[](\A h \in level.players \cap Hosts, q \in level.players \ Hosts :
    \A n \in Npcs : DrivenBy(h, q, n) =>
        look[q][n] = look[h][n] /\ (n \in shielded[q] => n \in shielded[h]))

\* An NPC that a script returns to neutral has its AI flags back as it was found with
\* them, however often it changes sides (changeEnemiesAIMode).
AIRestored == <>[](\A q \in level.players \ Hosts : \A n \in DOMAIN enemies[q] :
    ~Synced(q, n) => aiFlags[q][n] = enemies[q][n])

\* "an NPC only has its AI suppressed while it sits on a synced team, and gets its own AI
\* back the moment a script returns it to neutral" (client.cpp, changeEnemiesAIMode).
AIGivenBack == <>[](\A q \in level.players \ Hosts : \A n \in DOMAIN enemies[q] :
    ~Synced(q, n) => aiFlags[q][n] = "own")
=============================================================================
