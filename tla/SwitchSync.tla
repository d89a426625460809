----------------------------- MODULE SwitchSync -----------------------------
(***************************************************************************)
(* Switches: the network thread compares the flags of the level's switches  *)
(* with what it saw last and sends whether those that differ are on.  The    *)
(* flags say more than on or off, so that a change of another bit sends a    *)
(* state nobody chose.  A remote state is set on the game thread; the cache  *)
(* is not told, so the next pass takes it for a change made here and sends   *)
(* it on.                                                                    *)
(***************************************************************************)
EXTENDS WorldRelay

CONSTANTS Switches,        \* GUIDs of switches
          MaxChanges       \* bound: how often players and the game change a switch

VARIABLES switchFlags,     \* per player and switch: stateFlags in its world
          switchSeen,      \* per player and switch: switchStatesCache
          changed,         \* the states switches had when something changed them (history)
          changes          \* for the bound only

switchVars == <<switchFlags, switchSeen, changed, changes>>

States == {"on", "off"}
Other(st) == IF st = "on" THEN "off" ELSE "on"

\* SWITCH_ON, and the other bits as one.
Flags == [state : States, rest : BOOLEAN]
Unseen == [state |-> "unseen", rest |-> FALSE]
AllOff == [s \in Switches |-> [state |-> "off", rest |-> FALSE]]
NoSwitchSeen == [s \in Switches |-> Unseen]

SwitchToggle(s, st) == [type |-> "SWITCH_TOGGLE", switch |-> s, state |-> st]
SwitchMessages == [type : {"SWITCH_TOGGLE"}, switch : Switches, state : States]

\* Every client has made its first pass over the level.
SwitchInit ==
    /\ switchFlags = [p \in Players |-> AllOff]
    /\ switchSeen = [p \in Players |-> AllOff]
    /\ changed = {}
    /\ changes = 0

\* Something in the world of p, not the mod, gives switch s these flags.
Change(p, s, flags) ==
    /\ InGameLogic(p)
    /\ s \in objects
    /\ changes < MaxChanges
    /\ changes' = changes + 1
    /\ switchFlags' = [switchFlags EXCEPT ![p][s] = flags]
    /\ changed' = changed \cup {SwitchToggle(s, flags.state)}
    /\ UNCHANGED <<relayVars, switchSeen>>

\* The player p uses switch s.
Toggle(p, s) == Change(p, s, [switchFlags[p][s] EXCEPT !.state = Other(@)])

\* The game changes another bit of switch s.
ChangeRest(p, s) == Change(p, s, [switchFlags[p][s] EXCEPT !.rest = ~@])

\* The pass of the network thread gets to switch s; what it found is sent at the
\* end of the pass.
DetectSwitchChange(p, s) ==
    /\ Playing(p)
    /\ s \in objects
    /\ switchSeen[p][s] # switchFlags[p][s]
    /\ switchSeen' = [switchSeen EXCEPT ![p][s] = switchFlags[p][s]]
    /\ IF switchSeen[p][s] # Unseen
       THEN Send(p, <<SwitchToggle(s, switchFlags[p][s].state)>>)
       ELSE UNCHANGED relayVars
    /\ UNCHANGED <<switchFlags, changed, changes>>

\* The game thread of p sets the next switch it has taken from the queue, on or off; one
\* that is in this state already stays as it is.
ApplySwitchToggle(p) ==
    LET m == Head(pending[p]) IN
    /\ ToApply(p, SwitchMessages)
    /\ switchFlags' = [switchFlags EXCEPT ![p][m.switch].state = m.state]
    /\ Applied(p)
    /\ UNCHANGED <<switchSeen, changed, changes>>

\* The cache goes with the session ...
ResetSwitches(p) ==
    /\ switchSeen' = [switchSeen EXCEPT ![p] = NoSwitchSeen]
    /\ UNCHANGED <<switchFlags, changed, changes>>

\* Mutant: the cache outlives the level.
ReloadKeepsCache(p) ==
    /\ switchFlags' = [switchFlags EXCEPT ![p] = AllOff]
    /\ UNCHANGED <<switchSeen, changed, changes>>

\* ... and with the level, whose next visit finds every switch as it is in the level
\* data.
ReloadSwitches(p) ==
    /\ switchSeen' = [switchSeen EXCEPT ![p] = NoSwitchSeen]
    /\ switchFlags' = [switchFlags EXCEPT ![p] = AllOff]
    /\ UNCHANGED <<changed, changes>>

SwitchStep(p) ==
    \/ \E s \in Switches : Toggle(p, s) \/ ChangeRest(p, s) \/ DetectSwitchChange(p, s)
    \/ ApplySwitchToggle(p)

-----------------------------------------------------------------------------

SwitchTypeOK ==
    /\ switchFlags \in [Players -> [Switches -> Flags]]
    /\ switchSeen \in [Players -> [Switches -> Flags \cup {Unseen}]]
    /\ changed \subseteq SwitchMessages
    /\ changes \in Nat

Travelling == UNION {UNION {{q[p][i] : i \in DOMAIN q[p]} : p \in Players} :
                     q \in {uplink, downlink, incoming, pending}}

\* Every state on its way is one a switch had in some world when a player or the game
\* changed it there: what a client sees when it loads the level or gets its session
\* back does not look to it like a change.
OnlyChangesTold == Travelling \cap SwitchMessages \subseteq changed

\* However a switch was used, everybody ends up with the same state of it, on or off:
\* what the README calls replicated.
SwitchesReplicated == <>[](\A p, q \in level.players, s \in Switches :
    switchFlags[p][s].state = switchFlags[q][s].state)

\* A switch is changed a bounded number of times; the echoes of that come to an end.
SwitchesSettle == <>[](Travelling \cap SwitchMessages = {})
=============================================================================
