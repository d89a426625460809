------------------------------ MODULE AnimSync ------------------------------
(***************************************************************************)
(* Animations that loop: the world of the host is right.  When the host     *)
(* loads a layer of the level it sends the frames its loops are at; another *)
(* client that loads one, or enters the level, asks for them.               *)
(*                                                                         *)
(* Loops advance at the same rate everywhere, so that a world differs from   *)
(* another by a shift.  All loops of a world share one here, and each load   *)
(* of a layer gives the world a shift of its own.  What is sent is not the   *)
(* shift but the frame at that moment, which is set, unchanged, whenever it  *)
(* has arrived: a world is behind the host's by what the message took.       *)
(***************************************************************************)
EXTENDS WorldRelay, Integers

CONSTANTS Loops,           \* what looks like a looping object of a level
          Callers,         \* the players who use /syncanim
          NoFrames,        \* no frames are queued
          Period,          \* how many frames a loop has
          MaxLoads         \* bound: how many layers are loaded, and uses of /syncanim

VARIABLES clock,           \* the frame of a loop that has no shift
          shift,           \* per player: the shift of the loops in its world
          animSyncRequested,  \* g_animSyncRequested, a set of players
          animSyncPullRequested, \* g_animSyncPullRequested, a set of players
          incomingAnimFrames, \* per player: g_incomingAnimFrames, or NoFrames
          late,            \* per player: how old the frames were that its loops were set
                           \* to, if they were set since they began (history)
          loads            \* for the bound only

animVars == <<clock, shift, animSyncRequested, animSyncPullRequested, incomingAnimFrames,
              late, loads>>

\* The frames of a loop, which are also what clock and shift range over.
Frames == 0 .. Period - 1

\* When the frame was read is not in the message; it is for the property.
AnimSyncOf(n) == [type |-> "ANIM_SYNC", frame |-> n, at |-> clock]
AnimSyncs == [type : {"ANIM_SYNC"}, frame : Frames, at : Frames]
AnimSyncRequest == [type |-> "ANIM_SYNC_REQUEST"]
AnimMessages == AnimSyncs \cup {AnimSyncRequest}

ASSUME AnimAssumption == Period \in Nat \ {0} /\ NoFrames \notin AnimSyncs

\* The worlds are aligned.
AnimInit ==
    /\ clock = 0
    /\ shift = [p \in Players |-> 0]
    /\ late = [p \in Players |-> 0]
    /\ animSyncRequested = {}
    /\ animSyncPullRequested = {}
    /\ incomingAnimFrames = [p \in Players |-> NoFrames]
    /\ loads = 0

HasLoops == objects \cap Loops # {}

\* Every loop advances by a frame, in all worlds.
Tick ==
    /\ HasLoops
    /\ clock' = (clock + 1) % Period
    /\ UNCHANGED <<relayVars, shift, animSyncRequested, animSyncPullRequested,
                   incomingAnimFrames, late, loads>>

\* The frame the loops of p are at.
FrameOf(p) == (clock + shift[p]) % Period

\* The loops of a layer begin, at whatever frame they were parked on.
BeginLoops(p) ==
    /\ \E n \in Frames : shift' = [shift EXCEPT ![p] = n]
    /\ late' = [late EXCEPT ![p] = 0]

\* Mutant: a client that loads a layer takes its loops for aligned.
LoadAndTellOnly(p) ==
    /\ InGameLogic(p)
    /\ HasLoops /\ loads < MaxLoads
    /\ loads' = loads + 1
    /\ BeginLoops(p)
    /\ animSyncRequested' = animSyncRequested \cup ({p} \cap Hosts)
    /\ UNCHANGED <<relayVars, clock, animSyncPullRequested, incomingAnimFrames>>

\* hkLoadTriggerExecute: the player p walks into a load trigger.
LoadLayer(p) ==
    /\ InGameLogic(p)
    /\ HasLoops /\ loads < MaxLoads
    /\ loads' = loads + 1
    /\ BeginLoops(p)
    /\ animSyncRequested' = animSyncRequested \cup ({p} \cap Hosts)
    /\ animSyncPullRequested' = animSyncPullRequested \cup ({p} \ Hosts)
    /\ UNCHANGED <<relayVars, clock, incomingAnimFrames>>

\* /syncanim: whoever uses it tells its frames, the host or not.
SyncAnim(p) ==
    /\ p \in Callers
    /\ Playing(p)
    /\ HasLoops /\ loads < MaxLoads
    /\ loads' = loads + 1
    /\ animSyncRequested' = animSyncRequested \cup {p}
    /\ UNCHANGED <<relayVars, clock, shift, animSyncPullRequested, incomingAnimFrames, late>>

\* The network thread of p reads the frames of this moment and sends them.
SendAnimSync(p) ==
    /\ Playing(p)
    /\ p \in animSyncRequested
    /\ animSyncRequested' = animSyncRequested \ {p}
    /\ Send(p, <<AnimSyncOf(FrameOf(p))>>)
    /\ UNCHANGED <<clock, shift, animSyncPullRequested, incomingAnimFrames, late, loads>>

\* Only clients ask: nothing raises the flag of the host.
SendAnimSyncRequest(p) ==
    /\ Playing(p)
    /\ p \in animSyncPullRequested
    /\ animSyncPullRequested' = animSyncPullRequested \ {p}
    /\ Send(p, <<AnimSyncRequest>>)
    /\ UNCHANGED <<clock, shift, animSyncRequested, incomingAnimFrames, late, loads>>

\* processAnimSyncRequest: several requests may become one answer.
ProcessAnimSyncRequest(p) ==
    /\ HandleNext(p, {AnimSyncRequest})
    /\ animSyncRequested' = IF p \in Hosts \cap onLevel THEN animSyncRequested \cup {p}
                            ELSE animSyncRequested
    /\ UNCHANGED <<clock, shift, animSyncPullRequested, incomingAnimFrames, late, loads>>

\* processAnimSync: the latest frames win.
ProcessAnimSync(p) ==
    /\ HandleNext(p, AnimSyncs)
    /\ incomingAnimFrames' = IF p \in onLevel
                             THEN [incomingAnimFrames EXCEPT ![p] = Head(downlink[p])]
                             ELSE incomingAnimFrames
    /\ UNCHANGED <<clock, shift, animSyncRequested, animSyncPullRequested, late, loads>>

\* applyQueuedAnimSync, on the game thread: the loops are set to the frame that was sent,
\* however long ago.
ApplyAnimSync(p) ==
    LET m == incomingAnimFrames[p] IN
    /\ InGameLogic(p)
    /\ m # NoFrames
    /\ shift' = [shift EXCEPT ![p] = (m.frame - clock) % Period]
    /\ late' = [late EXCEPT ![p] = (clock - m.at) % Period]
    /\ incomingAnimFrames' = [incomingAnimFrames EXCEPT ![p] = NoFrames]
    /\ UNCHANGED <<relayVars, clock, animSyncRequested, animSyncPullRequested, loads>>

\* Nothing of this goes with the session; a level is read again when the next session
\* begins, as if it were entered ...
ResetAnims(p) ==
    /\ animSyncPullRequested' = IF HasLoops
                                THEN animSyncPullRequested \cup (({p} \cap onLevel) \ Hosts)
                                ELSE animSyncPullRequested
    /\ UNCHANGED <<clock, shift, animSyncRequested, incomingAnimFrames, late, loads>>

\* ... nor with the level, whose loops begin anew with the next visit: a client asks
\* for the frames when it is there.  What was to be sent or applied may have been, on
\* another level.
ReloadAnims(p) ==
    /\ IF HasLoops
       THEN /\ BeginLoops(p)
            /\ animSyncPullRequested' = animSyncPullRequested \cup ({p} \ Hosts)
       ELSE UNCHANGED <<shift, late, animSyncPullRequested>>
    /\ animSyncRequested' \in {animSyncRequested, animSyncRequested \ {p}}
    /\ incomingAnimFrames' \in {incomingAnimFrames, [incomingAnimFrames EXCEPT ![p] = NoFrames]}
    /\ UNCHANGED <<clock, loads>>

AnimStep(p) ==
    \/ LoadLayer(p)
    \/ SyncAnim(p)
    \/ SendAnimSync(p)
    \/ SendAnimSyncRequest(p)
    \/ ProcessAnimSyncRequest(p)
    \/ ProcessAnimSync(p)
    \/ ApplyAnimSync(p)

-----------------------------------------------------------------------------

AnimTypeOK ==
    /\ clock \in Frames
    /\ shift \in [Players -> Frames]
    /\ animSyncRequested \subseteq Hosts \cup Callers
    /\ animSyncPullRequested \subseteq Players \ Hosts
    /\ incomingAnimFrames \in [Players -> AnimSyncs \cup {NoFrames}]
    /\ late \in [Players -> Frames]
    /\ loads \in Nat

\* Whoever loads layers, in whatever order and whatever requests and answers are under
\* way, and whichever client comes late: in the end the loops of every world follow
\* the host's, behind by what the last frames took to arrive and be applied and by
\* nothing else, with one host, who stays and alone uses /syncanim.
AnimsFollowHost == <>[](\A h \in Hosts \cap online \cap onLevel :
    \A p \in online \cap onLevel : (shift[p] + late[p]) % Period = shift[h])
=============================================================================
