----------------------------- MODULE WorldRelay -----------------------------
(***************************************************************************)
(* How an event in one player's world gets to the others: what all kinds of *)
(* world events (chests, pickups, triggers, switches, web walls) have in    *)
(* common.  The network thread of the player sends a message, the server    *)
(* relays it to every other client, the network thread there queues it, and *)
(* the game thread takes the whole queue and applies it entry by entry.     *)
(*                                                                         *)
(* One level is modelled; a player who is elsewhere is off it, and a message *)
(* that comes to it there is dropped.  What objects the level has and who    *)
(* plays it differ from behaviour to behaviour.                              *)
(***************************************************************************)
EXTENDS Naturals, Sequences

CONSTANTS Players,         \* the machines that run the client
          Hosts,           \* the players who chose to be the host
          Levels           \* the levels there may be: their objects, who plays them, who
                           \* of these may lose a session or leave the level, and the
                           \* bound on how often they do

VARIABLES level,           \* one of Levels
          online,          \* players with a session and a GUID
          onLevel,         \* players on the level
          uplink,          \* per player: sent by it, not yet at the server
          downlink,        \* per player: sent by the server, not yet received
          incoming,        \* per player: g_incoming..., received and not yet taken
          pending,         \* per player: what its game thread has taken and not yet applied
          absences         \* for the bound only

relayVars == <<level, online, onLevel, uplink, downlink, incoming, pending, absences>>

ASSUME RelayAssumption ==
    \A l \in Levels :
        l.players \subseteq Players /\ l.away \subseteq l.players /\ l.absences \in Nat

objects == level.objects

NoQueue == [p \in Players |-> <<>>]

RelayInit ==
    /\ level \in Levels
    /\ online = level.players
    /\ onLevel = level.players
    /\ uplink = NoQueue
    /\ downlink = NoQueue
    /\ incoming = NoQueue
    /\ pending = NoQueue
    /\ absences = 0

RelayTypeOK(Messages) ==
    /\ level \in Levels
    /\ online \subseteq Players
    /\ onLevel \subseteq Players
    /\ uplink \in [Players -> Seq(Messages)]
    /\ downlink \in [Players -> Seq(Messages)]
    /\ incoming \in [Players -> Seq(Messages)]
    /\ pending \in [Players -> Seq(Messages)]
    /\ absences \in Nat

\* What happens in the worlds of these players happens in all of them, or in none.
EverywhereOrNowhere(worlds) == worlds \in {{}, level.players}

\* The network thread of p detects and sends world events.
Playing(p) == p \in online /\ p \in onLevel

\* The game thread of p is in the game's own logic, not in the mod's.
InGameLogic(p) == p \in onLevel /\ pending[p] = <<>>

\* Sends messages of p; the rest of the client loop's state is not touched.
Send(p, msgs) ==
    /\ uplink' = [uplink EXCEPT ![p] = @ \o msgs]
    /\ UNCHANGED <<level, online, onLevel, downlink, incoming, pending, absences>>

-----------------------------------------------------------------------------

\* The server handles the next message of p: to every connected client but p.
Relay(p) ==
    /\ uplink[p] # <<>>
    /\ uplink' = [uplink EXCEPT ![p] = Tail(@)]
    /\ downlink' = [q \in Players |->
                       IF q \in online \ {p} THEN Append(downlink[q], Head(uplink[p]))
                       ELSE downlink[q]]
    /\ UNCHANGED <<level, online, onLevel, incoming, pending, absences>>

\* Mutant: a message is taken off the channel and not queued.
ReceiveAndDrop(p) ==
    /\ downlink[p] # <<>>
    /\ downlink' = [downlink EXCEPT ![p] = Tail(@)]
    /\ UNCHANGED <<level, online, onLevel, uplink, incoming, pending, absences>>

\* The network thread of p handles its next message.
Receive(p) ==
    /\ downlink[p] # <<>>
    /\ downlink' = [downlink EXCEPT ![p] = Tail(@)]
    /\ incoming' = IF p \in onLevel
                   THEN [incoming EXCEPT ![p] = Append(@, Head(downlink[p]))]
                   ELSE incoming
    /\ UNCHANGED <<level, online, onLevel, uplink, pending, absences>>

\* The network thread of p handles its next message, of this kind, at once or with a
\* queue that outlives sessions and levels.
HandleNext(p, Kind) ==
    /\ downlink[p] # <<>>
    /\ Head(downlink[p]) \in Kind
    /\ downlink' = [downlink EXCEPT ![p] = Tail(@)]
    /\ UNCHANGED <<level, online, onLevel, uplink, incoming, pending, absences>>

\* Mutant: what is taken stays in the queue, and is taken again.
CopyIncoming(p) ==
    /\ InGameLogic(p)
    /\ incoming[p] # <<>>
    /\ pending' = [pending EXCEPT ![p] = incoming[p]]
    /\ UNCHANGED <<level, online, onLevel, uplink, downlink, incoming, absences>>

\* The game thread of p takes everything that is queued.
TakeIncoming(p) ==
    /\ InGameLogic(p)
    /\ incoming[p] # <<>>
    /\ pending' = [pending EXCEPT ![p] = incoming[p]]
    /\ incoming' = [incoming EXCEPT ![p] = <<>>]
    /\ UNCHANGED <<level, online, onLevel, uplink, downlink, absences>>

\* The game thread of p has a message of this kind to apply.
ToApply(p, Kind) == pending[p] # <<>> /\ Head(pending[p]) \in Kind

\* The game thread of p is done with the first entry it has taken.
Applied(p) ==
    /\ pending' = [pending EXCEPT ![p] = Tail(@)]
    /\ UNCHANGED <<level, online, onLevel, uplink, downlink, incoming, absences>>

-----------------------------------------------------------------------------
(* Sessions and levels.  What each kind of event keeps is reset with these. *)

\* Mutant: the queues outlive the session.
LoseSessionOnly(p) ==
    /\ p \in online
    /\ p \in level.away /\ absences < level.absences
    /\ absences' = absences + 1
    /\ online' = online \ {p}
    /\ uplink' = [uplink EXCEPT ![p] = <<>>]
    /\ downlink' = [downlink EXCEPT ![p] = <<>>]
    /\ UNCHANGED <<level, onLevel, incoming, pending>>

\* The session of p is lost, with what was under way; resetClientSessionState
\* empties the queues, but not what the game thread has already taken.
LoseSession(p) ==
    /\ p \in online
    /\ p \in level.away /\ absences < level.absences
    /\ absences' = absences + 1
    /\ online' = online \ {p}
    /\ uplink' = [uplink EXCEPT ![p] = <<>>]
    /\ downlink' = [downlink EXCEPT ![p] = <<>>]
    /\ incoming' = [incoming EXCEPT ![p] = <<>>]
    /\ UNCHANGED <<level, onLevel, pending>>

\* /reconnect, up to the assignment of a GUID.
JoinSession(p) ==
    /\ p \notin online
    /\ online' = online \cup {p}
    /\ UNCHANGED <<level, onLevel, uplink, downlink, incoming, pending, absences>>

\* The game of p leaves the level; the network thread sees it and empties the
\* queues before it receives again.
LeaveLevel(p) ==
    /\ InGameLogic(p)
    /\ p \in level.away /\ absences < level.absences
    /\ absences' = absences + 1
    /\ onLevel' = onLevel \ {p}
    /\ incoming' = [incoming EXCEPT ![p] = <<>>]
    /\ UNCHANGED <<level, online, uplink, downlink, pending>>

\* The game of p has loaded the level again, as it is in the level data.
EnterLevel(p) ==
    /\ p \notin onLevel
    /\ onLevel' = onLevel \cup {p}
    /\ UNCHANGED <<level, online, uplink, downlink, incoming, pending, absences>>

-----------------------------------------------------------------------------

\* What a session or a visit to the level leaves behind when it ends: nothing that
\* would be sent or applied in the next one (resetClientSessionState, and the reset of
\* the loop off the level).
NothingLeftOver ==
    /\ \A p \in Players \ online :
           uplink[p] = <<>> /\ downlink[p] = <<>> /\ incoming[p] = <<>>
    /\ \A p \in Players \ onLevel : incoming[p] = <<>> /\ pending[p] = <<>>
=============================================================================
