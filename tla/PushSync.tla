------------------------------ MODULE PushSync ------------------------------
(***************************************************************************)
(* Push blocks: while Bilbo pushes one, every pass of the network thread     *)
(* tells the others where it is, and their game threads put it there.  They  *)
(* are told when he begins and ends, too, which changes nothing since the    *)
(* body of EnablePushBlock is commented out: two may push a block at once.   *)
(*                                                                         *)
(* A pass that would tell again what the last one told is left out.          *)
(***************************************************************************)
EXTENDS WorldRelay

CONSTANTS Blocks,          \* GUIDs of push blocks
          NoBlock,         \* no block
          AtStart,         \* where a block is in the level data
          Pushers,         \* bound: the players who push blocks
          MaxPushes        \* bound: how far a player pushes a block

ASSUME PushAssumption == NoBlock \notin Blocks /\ MaxPushes \in Nat

VARIABLES pushing,         \* per player: what its Bilbo pushes, or NoBlock
          currentPushBlock,   \* per player: g_currentPushBlock
          place,           \* per player and block: where the block is in its world
          waiting,         \* per player and block: the update in hoistables, if any
          toldPlaces,      \* per player and block: what it told last, if anything
          pushes           \* per player and block: how often it pushed the block

pushVars == <<pushing, currentPushBlock, place, waiting, toldPlaces, pushes>>

\* Whoever pushes a block once more gets it to where it never was.
Places == {AtStart} \cup [by : Players, push : 1..MaxPushes]

PushBlockAcquire(b) == [type |-> "PUSHBLOCK_ACQUIRE", block |-> b]
PushBlockRelease(b) == [type |-> "PUSHBLOCK_RELEASE", block |-> b]
PushBlockUpdate(b, at) == [type |-> "PUSHBLOCK_UPDATE", block |-> b, at |-> at]
PushMessages ==
    [type : {"PUSHBLOCK_ACQUIRE", "PUSHBLOCK_RELEASE"}, block : Blocks]
    \cup [type : {"PUSHBLOCK_UPDATE"}, block : Blocks, at : Places]

NoUpdates == [p \in Players |-> [b \in Blocks |-> {}]]

PushInit ==
    /\ pushing = [p \in Players |-> NoBlock]
    /\ currentPushBlock = [p \in Players |-> NoBlock]
    /\ place = [p \in Players |-> [b \in Blocks |-> AtStart]]
    /\ waiting = NoUpdates
    /\ toldPlaces = NoUpdates
    /\ pushes = [p \in Players |-> [b \in Blocks |-> 0]]

\* The player p pushes b a bit further.
Push(p, b) ==
    /\ InGameLogic(p)
    /\ p \in Pushers /\ b \in objects
    /\ pushing[p] \in {NoBlock, b}
    /\ pushes[p][b] < MaxPushes
    /\ pushes' = [pushes EXCEPT ![p][b] = @ + 1]
    /\ place' = [place EXCEPT ![p][b] = [by |-> p, push |-> pushes[p][b] + 1]]
    /\ pushing' = [pushing EXCEPT ![p] = b]
    /\ UNCHANGED <<relayVars, currentPushBlock, waiting, toldPlaces>>

\* The player p pushes no more.
StopPushing(p) ==
    /\ InGameLogic(p)
    /\ pushing[p] # NoBlock
    /\ pushing' = [pushing EXCEPT ![p] = NoBlock]
    /\ UNCHANGED <<relayVars, currentPushBlock, place, waiting, toldPlaces, pushes>>

\* A pass of the network thread finds that Bilbo pushes something, and tells where it is ...
AcquirePushBlock(p) ==
    LET b == pushing[p] IN
    /\ Playing(p)
    /\ currentPushBlock[p] = NoBlock /\ b # NoBlock
    /\ currentPushBlock' = [currentPushBlock EXCEPT ![p] = b]
    /\ toldPlaces' = [toldPlaces EXCEPT ![p][b] = {place[p][b]}]
    /\ Send(p, <<PushBlockAcquire(b), PushBlockUpdate(b, place[p][b])>>)
    /\ UNCHANGED <<pushing, place, waiting, pushes>>

\* ... as the following do, of the same block even if he pushes another by now ...
UpdatePushBlock(p) ==
    LET b == currentPushBlock[p] IN
    /\ Playing(p)
    /\ b # NoBlock /\ pushing[p] # NoBlock
    /\ toldPlaces[p][b] # {place[p][b]}
    /\ toldPlaces' = [toldPlaces EXCEPT ![p][b] = {place[p][b]}]
    /\ Send(p, <<PushBlockUpdate(b, place[p][b])>>)
    /\ UNCHANGED <<pushing, currentPushBlock, place, waiting, pushes>>

\* ... until he pushes nothing: where he left it after the pass before is not told.
ReleasePushBlock(p) ==
    LET b == currentPushBlock[p] IN
    /\ Playing(p)
    /\ b # NoBlock /\ pushing[p] = NoBlock
    /\ currentPushBlock' = [currentPushBlock EXCEPT ![p] = NoBlock]
    /\ Send(p, <<PushBlockRelease(b)>>)
    /\ UNCHANGED <<pushing, place, waiting, toldPlaces, pushes>>

\* processPushBlockAcquire, processPushBlockRelease and processPushBlockUpdate: of the
\* updates of a block that wait for the game thread only the last counts.
ProcessPushBlock(p) ==
    LET m == Head(downlink[p]) IN
    /\ HandleNext(p, PushMessages)
    /\ waiting' = IF p \in onLevel /\ m.type = "PUSHBLOCK_UPDATE"
                  THEN [waiting EXCEPT ![p][m.block] = {m.at}]
                  ELSE waiting
    /\ UNCHANGED <<pushing, currentPushBlock, place, toldPlaces, pushes>>

\* A frame of the game thread of p puts every block where it was told to be, even one
\* that Bilbo pushes.
ApplyPushBlocks(p) ==
    /\ InGameLogic(p)
    /\ waiting[p] # NoUpdates[p]
    /\ place' = [place EXCEPT ![p] =
                    [b \in Blocks |-> IF waiting[p][b] = {} THEN place[p][b]
                                      ELSE CHOOSE at \in waiting[p][b] : TRUE]]
    /\ waiting' = [waiting EXCEPT ![p] = NoUpdates[p]]
    /\ UNCHANGED <<relayVars, pushing, currentPushBlock, toldPlaces, pushes>>

\* What Bilbo was seen to push goes with the session; updates that wait stay.
ResetPushes(p) ==
    /\ currentPushBlock' = [currentPushBlock EXCEPT ![p] = NoBlock]
    /\ UNCHANGED <<pushing, place, waiting, toldPlaces, pushes>>

\* With the level it is the other way round: readGamePointers clears hoistables, and
\* what Bilbo was seen to push stays, until a pass over another level, which tells
\* nobody here, or over this one again.
ReloadPushes(p) ==
    /\ pushing' = [pushing EXCEPT ![p] = NoBlock]
    /\ place' = [place EXCEPT ![p] = [b \in Blocks |-> AtStart]]
    /\ waiting' = [waiting EXCEPT ![p] = NoUpdates[p]]
    /\ currentPushBlock' \in {currentPushBlock, [currentPushBlock EXCEPT ![p] = NoBlock]}
    /\ UNCHANGED <<toldPlaces, pushes>>

PushStep(p) ==
    \/ \E b \in Blocks : Push(p, b)
    \/ StopPushing(p)
    \/ AcquirePushBlock(p)
    \/ UpdatePushBlock(p)
    \/ ReleasePushBlock(p)
    \/ ProcessPushBlock(p)
    \/ ApplyPushBlocks(p)

-----------------------------------------------------------------------------

PushTypeOK ==
    /\ pushing \in [Players -> Blocks \cup {NoBlock}]
    /\ currentPushBlock \in [Players -> Blocks \cup {NoBlock}]
    /\ place \in [Players -> [Blocks -> Places]]
    /\ waiting \in [Players -> [Blocks -> SUBSET Places]]
    /\ toldPlaces \in [Players -> [Blocks -> SUBSET Places]]
    /\ pushes \in [Players -> [Blocks -> Nat]]

\* A block that one player alone pushed is, in every other world, where this player told
\* last, which is not always where it left the block.  With two at once there is nothing
\* to claim: each puts the block where the other had it, and they may end apart.
BlocksFollow == \A b \in Blocks \cap objects, p \in level.players :
    (\A q \in level.players \ {p} : pushes[q][b] = 0 /\ toldPlaces[q][b] = {}) =>
        \A q \in level.players \ {p} :
            place[q][b] \in (IF toldPlaces[p][b] = {} THEN {AtStart} ELSE toldPlaces[p][b])
=============================================================================
