------------------------------ MODULE Transport ------------------------------
(***************************************************************************)
(* The sessions between the server's client slots and the players' clients, *)
(* and their two reliable-ordered channels, as the game code sees them.     *)
(*                                                                         *)
(* Server and client find out about a lost session each on its own, so a    *)
(* session has two ends: slotPlayer is the server's (netcode's              *)
(* client_connected), clientSlot the client's.  A slot whose client is gone *)
(* is a ghost until the server times it out; a client whose slot is gone    *)
(* still reads what reached it before.  What either side sends to an end    *)
(* that is gone is lost.                                                    *)
(***************************************************************************)
EXTENDS GameTypes

CONSTANTS Players,         \* the machines that run the client
          NoPlayer,
          NoSlot

Channels == {"Gameplay", "Skin"}

ASSUME TransportAssumption ==
    /\ NoPlayer \notin Players
    /\ NoSlot \notin Slots

VARIABLES slotPlayer,      \* the player a slot is connected to, on the server
          clientSlot,      \* the slot a player's client is connected to
          toServer,        \* per slot and channel: sent by its client, not yet received
          toClient         \* per player and channel: sent by the server, not yet received

transportVars == <<slotPlayer, clientSlot, toServer, toClient>>

NoMessages == [ch \in Channels |-> <<>>]

\* IsClientConnected
Connected(s) == slotPlayer[s] # NoPlayer

\* Both ends of the session of slot s are up.
Live(s) == Connected(s) /\ clientSlot[slotPlayer[s]] = s

\* The client of p holds one end of a session whose other end is up as well.
Attached(p) == clientSlot[p] # NoSlot /\ slotPlayer[clientSlot[p]] = p

TransportInit ==
    /\ slotPlayer = [s \in Slots |-> NoPlayer]
    /\ clientSlot = [p \in Players |-> NoSlot]
    /\ toServer = [s \in Slots |-> NoMessages]
    /\ toClient = [p \in Players |-> NoMessages]

\* The slot a new session takes: netcode_server_find_free_client_index.
IsFirstFree(s) == ~Connected(s) /\ \A t \in Slots : t < s => Connected(t)

\* The queues to the clients after the server has sent out[s][ch] to every
\* slot s; what goes to a ghost is lost.
Delivered(out) ==
    [p \in Players |->
        IF Attached(p)
        THEN [ch \in Channels |-> toClient[p][ch] \o out[clientSlot[p]][ch]]
        ELSE toClient[p]]

\* Mutant: what a client sends goes to whoever has its slot now.
UploadedToSlot(p, ch, msgs) == [toServer EXCEPT ![clientSlot[p]][ch] = @ \o msgs]

\* The queues to the server after the client of p has sent msgs on channel ch.
Uploaded(p, ch, msgs) ==
    IF Attached(p)
    THEN [toServer EXCEPT ![clientSlot[p]][ch] = @ \o msgs]
    ELSE toServer

-----------------------------------------------------------------------------
(* The two ends go up together and down one at a time.                      *)

\* netcode accepts p into slot s, and the callback sends it msgs[ch].
OpenSession(p, s, msgs) ==
    /\ slotPlayer' = [slotPlayer EXCEPT ![s] = p]
    /\ clientSlot' = [clientSlot EXCEPT ![p] = s]
    /\ toServer' = [toServer EXCEPT ![s] = NoMessages]
    /\ toClient' = [toClient EXCEPT ![p] = msgs]

\* The server drops slot s and everything it has not received from it.
CloseSlot(s, out) ==
    /\ slotPlayer' = [slotPlayer EXCEPT ![s] = NoPlayer]
    /\ toServer' = [toServer EXCEPT ![s] = NoMessages]
    /\ toClient' = Delivered(out)
    /\ UNCHANGED clientSlot

\* The client of p drops its session and everything it has not received; what
\* it sent may still be received.
CloseClient(p) ==
    /\ clientSlot' = [clientSlot EXCEPT ![p] = NoSlot]
    /\ toClient' = [toClient EXCEPT ![p] = NoMessages]
    /\ UNCHANGED <<slotPlayer, toServer>>
=============================================================================
