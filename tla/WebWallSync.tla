----------------------------- MODULE WebWallSync -----------------------------
(***************************************************************************)
(* Web walls: web_wall::StartBreakAtPoint is hooked.  The hook keeps the     *)
(* last wall cut here in a single slot, unless it was cut or applied before.*)
(* A remote cut calls the hooked function, so that the hook has to be told  *)
(* beforehand not to send the wall again.                                   *)
(*                                                                         *)
(* A wall is in a layer of the level, which load triggers activate and       *)
(* deactivate in each world by itself.  A cut that arrives while the layer   *)
(* is not loaded marks the wall and does nothing else, then or later.        *)
(***************************************************************************)
EXTENDS WorldRelay

CONSTANTS Walls,           \* GUIDs of web walls
          NoWall           \* what the slot holds while it is empty

ASSUME NoWallAssumption == NoWall \notin Walls

VARIABLES broken,          \* per player and wall: how often StartBreakAtPoint was called
          sent,            \* per player: g_sentWebWallBreaks, cut here or applied
          slot,            \* per player: g_lastWebWallGuid while g_haveWebWallBreak
          applied,         \* per player: g_appliedWebWallBreaks
          loaded,          \* per player: the walls whose layer is loaded in its world
          cut,             \* per player: the walls its player has cut (history)
          missed           \* per player: the walls that were marked on this visit and
                           \* not broken, their layer not being loaded (history)

wallVars == <<broken, sent, slot, applied, loaded, cut, missed>>

WebWallBreak(w) == [type |-> "WEB_WALL_BREAK", wall |-> w]
WallMessages == [type : {"WEB_WALL_BREAK"}, wall : Walls]

Whole == [w \in Walls |-> 0]
NoWalls == [p \in Players |-> {}]

WallInit ==
    /\ broken = [p \in Players |-> Whole]
    /\ sent = NoWalls
    /\ slot = [p \in Players |-> NoWall]
    /\ applied = NoWalls
    /\ loaded = NoWalls
    /\ cut = NoWalls
    /\ missed = NoWalls

\* hkStartBreakAtPoint: the hook remembers a wall it has not seen before, and the
\* game breaks it.
HookedBreak(p, w, known) ==
    /\ sent' = [sent EXCEPT ![p] = known \cup {w}]
    /\ slot' = IF w \in known THEN slot ELSE [slot EXCEPT ![p] = w]
    /\ broken' = [broken EXCEPT ![p][w] = @ + 1]

\* A load trigger activates the layer of wall w in the world of p, or deactivates it.
SwitchLayer(p, w) ==
    /\ InGameLogic(p)
    /\ w \in objects
    /\ loaded' = [loaded EXCEPT ![p] = IF w \in @ THEN @ \ {w} ELSE @ \cup {w}]
    /\ UNCHANGED <<relayVars, broken, sent, slot, applied, cut, missed>>

\* The player p cuts wall w.
Cut(p, w) ==
    /\ InGameLogic(p)
    /\ w \in objects \cap loaded[p]
    /\ broken[p][w] = 0
    /\ HookedBreak(p, w, sent[p])
    /\ cut' = [cut EXCEPT ![p] = @ \cup {w}]
    /\ UNCHANGED <<relayVars, applied, loaded, missed>>

\* The network thread of p sends the wall in the slot.
SendWebWallBreak(p) ==
    /\ Playing(p)
    /\ slot[p] # NoWall
    /\ Send(p, <<WebWallBreak(slot[p])>>)
    /\ slot' = [slot EXCEPT ![p] = NoWall]
    /\ UNCHANGED <<broken, sent, applied, loaded, cut, missed>>

\* A wall that is broken may be there for a while, or be gone.
Gone(p, w) == broken[p][w] > 0

\* Mutant: the hook is not told beforehand.
ApplyUnmarked(p) ==
    LET w == Head(pending[p]).wall IN
    /\ ToApply(p, WallMessages)
    /\ applied' = [applied EXCEPT ![p] = @ \cup {w}]
    /\ missed' = IF w \in applied[p] \cup loaded[p] THEN missed
                 ELSE [missed EXCEPT ![p] = @ \cup {w}]
    /\ IF w \in loaded[p] \ applied[p]
       THEN HookedBreak(p, w, sent[p])
       ELSE UNCHANGED <<broken, sent, slot>>
    /\ Applied(p)
    /\ UNCHANGED <<loaded, cut>>

\* Mutant: the wall is marked and left as it is.
ApplyMarksOnly(p) ==
    /\ ToApply(p, WallMessages)
    /\ applied' = [applied EXCEPT ![p] = @ \cup {Head(pending[p]).wall}]
    /\ Applied(p)
    /\ UNCHANGED <<broken, sent, slot, loaded, cut, missed>>

\* The game thread of p breaks the next wall it has taken from the queue.  The mark
\* comes first, and stays if there is no wall to break.
ApplyWebWallBreak(p) ==
    LET w == Head(pending[p]).wall IN
    /\ ToApply(p, WallMessages)
    /\ applied' = [applied EXCEPT ![p] = @ \cup {w}]
    /\ \/ /\ w \in loaded[p] \ applied[p]
          /\ HookedBreak(p, w, sent[p] \cup {w})
          /\ UNCHANGED missed
       \/ /\ w \notin applied[p] \cup loaded[p]
          /\ missed' = [missed EXCEPT ![p] = @ \cup {w}]
          /\ UNCHANGED <<broken, sent, slot>>
       \/ /\ w \in applied[p] \/ Gone(p, w)
          /\ UNCHANGED <<broken, sent, slot, missed>>
    /\ Applied(p)
    /\ UNCHANGED <<loaded, cut>>

ForgetWalls(p) ==
    /\ sent' = [sent EXCEPT ![p] = {}]
    /\ slot' = [slot EXCEPT ![p] = NoWall]
    /\ applied' = [applied EXCEPT ![p] = {}]

\* What the hook remembers goes with the session, and once more with /reconnect ...
ResetWalls(p) ==
    /\ ForgetWalls(p)
    /\ UNCHANGED <<broken, loaded, cut, missed>>

\* The next visit has all its walls.
NewWalls(p) ==
    /\ broken' = [broken EXCEPT ![p] = Whole]
    /\ loaded' = [loaded EXCEPT ![p] = {}]
    /\ cut' = [cut EXCEPT ![p] = {}]
    /\ missed' = [missed EXCEPT ![p] = {}]

\* Mutant: the walls applied during the last visit are not forgotten.
ReloadKeepsApplied(p) ==
    /\ NewWalls(p)
    /\ sent' = [sent EXCEPT ![p] = {}]
    /\ slot' = [slot EXCEPT ![p] = NoWall]
    /\ UNCHANGED applied

\* ... and with the level; the loop forgets it only while it has a session.
ReloadWalls(p) ==
    /\ NewWalls(p)
    /\ IF p \in online THEN ForgetWalls(p) ELSE UNCHANGED <<sent, slot, applied>>

WallStep(p) ==
    \/ \E w \in Walls : SwitchLayer(p, w) \/ Cut(p, w)
    \/ SendWebWallBreak(p)
    \/ ApplyWebWallBreak(p)

-----------------------------------------------------------------------------

WallTypeOK ==
    /\ broken \in [Players -> [Walls -> Nat]]
    /\ slot \in [Players -> Walls \cup {NoWall}]
    /\ sent \in [Players -> SUBSET Walls]
    /\ applied \in [Players -> SUBSET Walls]
    /\ loaded \in [Players -> SUBSET Walls]
    /\ cut \in [Players -> SUBSET Walls]
    /\ missed \in [Players -> SUBSET Walls]

\* No feedback: what a client with a session is about to send was cut by its own
\* player, though applying a remote cut goes through the same hook.
OnlyOwnCuts == \A p \in online : slot[p] # NoWall => slot[p] \in cut[p]

\* A mark in g_appliedWebWallBreaks is of this visit to the level: the wall is broken in
\* the world the player is in now, or somebody cut it while its layer was not loaded
\* here.  If a mark outlived the level, later cuts of the wall would be skipped and the
\* wall stand for good, though it is loaded and nobody had cut it before.
MarksOfThisVisit == \A p \in online, w \in Walls :
    w \in applied[p] => broken[p][w] > 0 \/ w \in missed[p]

\* A wall somebody cuts is broken in every world, except where its layer was not loaded
\* when the cut arrived: what all come to while nobody is absent and no two walls are
\* cut at a time.
BrokenForAll == \A w \in Walls :
    EverywhereOrNowhere({p \in Players : broken[p][w] > 0 \/ w \in missed[p]})
=============================================================================
