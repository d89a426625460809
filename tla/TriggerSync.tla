----------------------------- MODULE TriggerSync -----------------------------
(***************************************************************************)
(* Triggers that are pressed (OnPressB).  As with pickups the network thread*)
(* compares; here a set of suppressed triggers and a snapshot keep a press  *)
(* that was applied from being taken for one made here.  The critical       *)
(* section covers a whole pass of the network thread, but only pieces of an *)
(* application, which is therefore three steps.                             *)
(*                                                                         *)
(* The triggers isSyncExcludedTrigger names are not among Triggers.         *)
(***************************************************************************)
EXTENDS WorldRelay, SequencesExt

CONSTANTS Triggers,        \* GUIDs of triggers that are pressed
          Rearming,        \* those that can be pressed again
          Pressers,        \* bound: the players who press
          MaxPresses       \* bound: how often they press

ASSUME TriggerAssumption == IsFiniteSet(Triggers) /\ Rearming \subseteq Triggers

VARIABLES fired,           \* per player: the triggers whose WAS_TRIGGERED flag is set
          triggerSeen,     \* per player and trigger: triggerStatesCache
          suppressed,      \* per player: g_suppressTriggerDetection
          stage,           \* per player: how far its game thread is with Head(pending)
          pressedBy,       \* per player and trigger: who made it fire last (history)
          presses          \* for the bound only

triggerVars == <<fired, triggerSeen, suppressed, stage, pressedBy, presses>>

TriggerOnPressB(t) == [type |-> "TRIGGER_ONPRESSB", trigger |-> t]
TriggerMessages == [type : {"TRIGGER_ONPRESSB"}, trigger : Triggers]

NoTriggerSeen == [t \in Triggers |-> "unseen"]

\* Every client has made its first pass over the level.
TriggerInit ==
    /\ fired = [p \in Players |-> {}]
    /\ triggerSeen = [p \in Players |-> [t \in Triggers |-> "armed"]]
    /\ suppressed = [p \in Players |-> {}]
    /\ stage = [p \in Players |-> "none"]
    /\ pressedBy = [p \in Players |-> [t \in Triggers |-> "nobody"]]
    /\ presses = 0

\* The flag as the cache keeps it.
TriggerFlag(p, t) == IF t \in fired[p] THEN "fired" ELSE "armed"

\* The trigger t of p fires; one that has fired already does not notice.
Fire(p, t, who) ==
    /\ fired' = [fired EXCEPT ![p] = @ \cup {t}]
    /\ pressedBy' = [pressedBy EXCEPT ![p][t] = IF t \in fired[p] THEN @ ELSE who]

Press(p, t) ==
    /\ InGameLogic(p)
    /\ p \in Pressers /\ t \in objects \ fired[p]
    /\ presses < MaxPresses
    /\ presses' = presses + 1
    /\ Fire(p, t, "player")
    /\ UNCHANGED <<relayVars, triggerSeen, suppressed, stage>>

Rearm(p, t) ==
    /\ InGameLogic(p)
    /\ t \in Rearming \cap fired[p]
    /\ fired' = [fired EXCEPT ![p] = @ \ {t}]
    /\ UNCHANGED <<relayVars, triggerSeen, suppressed, stage, pressedBy, presses>>

-----------------------------------------------------------------------------

\* The triggers a pass looks at.
Watched(p) == (Triggers \cap objects) \ suppressed[p]

\* A press is a rising edge between two passes, and the first pass has none.
JustFired(p) == {t \in Watched(p) \cap fired[p] : triggerSeen[p][t] = "armed"}

Presses(p) == SetToSeq({TriggerOnPressB(t) : t \in JustFired(p)})

SeenAfterPass(p) == [t \in Triggers |->
    IF t \in Watched(p) THEN TriggerFlag(p, t) ELSE triggerSeen[p][t]]

\* Mutant: the suppression is never lifted.
DetectAndSuppressForever(p) ==
    /\ Playing(p)
    /\ Triggers \cap objects # {}
    /\ triggerSeen' = [triggerSeen EXCEPT ![p] = SeenAfterPass(p)]
    /\ Send(p, Presses(p))
    /\ UNCHANGED <<fired, suppressed, stage, pressedBy, presses>>

\* One pass of the network thread, which holds the critical section, and what it
\* sends.  The game thread can press one trigger meanwhile, which the pass then sees
\* or does not see.
DetectTriggerChanges(p) ==
    /\ Playing(p)
    /\ Triggers \cap objects # {}
    /\ triggerSeen' = [triggerSeen EXCEPT ![p] = SeenAfterPass(p)]
    /\ suppressed' = [suppressed EXCEPT ![p] = {}]
    /\ Send(p, Presses(p))
    /\ UNCHANGED <<fired, stage, pressedBy, presses>>

\* The game thread of p applies the first press it has taken: it suppresses the
\* trigger ...
SuppressTrigger(p) ==
    /\ ToApply(p, TriggerMessages)
    /\ stage[p] = "none"
    /\ stage' = [stage EXCEPT ![p] = "suppressed"]
    /\ suppressed' = [suppressed EXCEPT ![p] = @ \cup {Head(pending[p]).trigger}]
    /\ UNCHANGED <<relayVars, fired, triggerSeen, pressedBy, presses>>

\* ... presses it ...
PressRemotely(p) ==
    /\ stage[p] = "suppressed"
    /\ stage' = [stage EXCEPT ![p] = "pressed"]
    /\ Fire(p, Head(pending[p]).trigger, "message")
    /\ UNCHANGED <<relayVars, triggerSeen, suppressed, presses>>

\* Mutant: no snapshot, as it was for presses before they had OnUse's guard.
LeaveCacheAsItIs(p) ==
    /\ stage[p] = "pressed"
    /\ stage' = [stage EXCEPT ![p] = "none"]
    /\ Applied(p)
    /\ UNCHANGED <<fired, triggerSeen, suppressed, pressedBy, presses>>

\* ... and puts the outcome in the cache.
SnapshotTrigger(p) ==
    LET t == Head(pending[p]).trigger IN
    /\ stage[p] = "pressed"
    /\ stage' = [stage EXCEPT ![p] = "none"]
    /\ triggerSeen' = [triggerSeen EXCEPT ![p][t] = TriggerFlag(p, t)]
    /\ Applied(p)
    /\ UNCHANGED <<fired, suppressed, pressedBy, presses>>

ForgetTriggers(p) ==
    /\ triggerSeen' = [triggerSeen EXCEPT ![p] = NoTriggerSeen]
    /\ suppressed' = [suppressed EXCEPT ![p] = {}]

\* Cache and suppression go with the session, and once more with /reconnect ...
ResetTriggers(p) ==
    /\ ForgetTriggers(p)
    /\ UNCHANGED <<fired, stage, pressedBy, presses>>

\* ... and with the level, whose next visit has all its triggers armed; the loop
\* forgets them only while it has a session.
ReloadTriggers(p) ==
    /\ IF p \in online THEN ForgetTriggers(p) ELSE UNCHANGED <<triggerSeen, suppressed>>
    /\ fired' = [fired EXCEPT ![p] = {}]
    /\ UNCHANGED <<stage, pressedBy, presses>>

TriggerStep(p) ==
    \/ \E t \in Triggers : Press(p, t) \/ Rearm(p, t)
    \/ DetectTriggerChanges(p)
    \/ SuppressTrigger(p)
    \/ PressRemotely(p)
    \/ SnapshotTrigger(p)

-----------------------------------------------------------------------------

TriggerTypeOK ==
    /\ fired \in [Players -> SUBSET Triggers]
    /\ triggerSeen \in [Players -> [Triggers -> {"unseen", "armed", "fired"}]]
    /\ suppressed \in [Players -> SUBSET Triggers]
    /\ stage \in [Players -> {"none", "suppressed", "pressed"}]
    /\ pressedBy \in [Players -> [Triggers -> {"nobody", "player", "message"}]]
    /\ presses \in Nat

\* The triggers p sends in a step.
PressesSentBy(p) ==
    {m.trigger : m \in TriggerMessages \cap
         ToSet(SubSeq(uplink'[p], Len(uplink[p]) + 1, Len(uplink'[p])))}

\* Once its outcome is in the cache, a press that was applied is not sent back.
NoEchoAfterSnapshot ==
    [][\A p \in Players : \A t \in PressesSentBy(p) :
          \/ pressedBy[p][t] = "player"
          \/ stage[p] = "pressed" /\ t = Head(pending[p]).trigger]_<<relayVars, triggerVars>>

\* The detection is never blind for good: again and again the cache agrees with the
\* flag, so that applying a remote press does not make a trigger one-directional.
DetectionRecovers == \A p \in Players, t \in Triggers :
    []<>(t \in objects /\ Playing(p) => triggerSeen[p][t] = TriggerFlag(p, t))

\* Triggers that fire once fire in every world: what all come to while nobody is absent.
TriggersFireForAll == \A t \in Triggers \ Rearming :
    EverywhereOrNowhere({p \in Players : t \in fired[p]})
=============================================================================
