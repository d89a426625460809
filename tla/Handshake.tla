------------------------------ MODULE Handshake ------------------------------
(***************************************************************************)
(* How clients get a slot of the server and lose it again: netcode's        *)
(* connection request, challenge, response and keep-alive, its time-outs,    *)
(* and the queue of payload packets a slot has.                             *)
(*                                                                         *)
(* An attempt to connect is a number; it stands for the connect token, the   *)
(* client id and the socket, which are new in each.  Packets are a set: they  *)
(* are lost, overtake each other, and come long after they were sent; a       *)
(* sender repeats them while its state lasts.  Of time only remains that     *)
(* what waits for time may happen.                                           *)
(***************************************************************************)
EXTENDS EncryptionManager, FiniteSets

CONSTANTS Players,         \* the machines that run the client
          MaxAttempts,     \* attempts to connect are numbers up to this
          MaxRestarts,     \* how often the server may be started again
          MaxFlying,       \* bound: how many packets are under way at a time
          Settings         \* how many clients the server is started for, and bounds on
                           \* how often players connect and the server is started again

Attempts == 1 .. MaxAttempts
None == 0                  \* no attempt

ASSUME HandshakeAssumption ==
    /\ MaxAttempts \in Nat /\ MaxRestarts \in Nat /\ MaxFlying \in Nat
    /\ Settings \subseteq [max_clients : Nat, attempts : 0 .. MaxAttempts,
                           restarts : 0 .. MaxRestarts]
    /\ Addresses = Attempts /\ NoAddress = None
    /\ Slots \subseteq Nat

VARIABLES setting,         \* one of Settings
          state,           \* per player: the state of its netcode client
          attempt,         \* per player: the attempt it is making or has made, or None
          challenge,       \* per player: which server's challenge it has
          should_disconnect,  \* per player: it was denied or disconnected by the server
          client,          \* per slot: the attempt of the client that has it, or None
          encryption_index,   \* per slot: its entry in the table
          packet_queue,    \* per slot: whose payload packets wait to be read
          mappings,        \* the encryption manager
          packets,         \* the packets under way
          attempts,        \* attempts so far
          restarts         \* how often the server was started again

clientVars == <<state, attempt, challenge, should_disconnect, attempts>>
slotVars == <<setting, client, encryption_index, packet_queue, mappings, restarts>>
vars == <<clientVars, slotVars, packets>>

NoEntry == 0               \* encryption_index = -1

\* Packets to the server are of an attempt, packets to a client are for one.  A
\* challenge can be read by the server that made it, a keep-alive tells the slot.
Request(a) == [type |-> "REQUEST", attempt |-> a]
Response(a, e) == [type |-> "RESPONSE", attempt |-> a, server |-> e]
Payload(a) == [type |-> "PAYLOAD", attempt |-> a]
Disconnect(a) == [type |-> "DISCONNECT", attempt |-> a]
Denied(a) == [type |-> "DENIED", to |-> a]
Challenge(a, e) == [type |-> "CHALLENGE", to |-> a, server |-> e]
KeepAlive(a, s) == [type |-> "KEEP_ALIVE", to |-> a, slot |-> s]
Disconnected(a) == [type |-> "DISCONNECT", to |-> a]

\* The server of each start has a challenge key of its own.
Servers == 0 .. MaxRestarts

Packets ==
    {Request(a) : a \in Attempts} \cup {Payload(a) : a \in Attempts}
    \cup {Response(a, e) : a \in Attempts, e \in Servers}
    \cup {Disconnect(a) : a \in Attempts} \cup {Disconnected(a) : a \in Attempts}
    \cup {Denied(a) : a \in Attempts}
    \cup {Challenge(a, e) : a \in Attempts, e \in Servers}
    \cup {KeepAlive(a, s) : a \in Attempts, s \in Slots}

Init ==
    /\ setting \in Settings
    /\ state = [p \in Players |-> "disconnected"]
    /\ attempt = [p \in Players |-> None]
    /\ challenge = [p \in Players |-> 0]
    /\ should_disconnect = [p \in Players |-> FALSE]
    /\ client = [s \in Slots |-> None]
    /\ encryption_index = [s \in Slots |-> NoEntry]
    /\ packet_queue = [s \in Slots |-> {}]
    /\ mappings = EmptyTable
    /\ packets = {}
    /\ attempts = 0
    /\ restarts = 0

\* A packet is sent; its sender repeats it if there is no room now.
Sent(flying, m) == IF Cardinality(flying) < MaxFlying THEN flying \cup {m} ELSE flying

SendPacket(m) == packets' = Sent(packets, m)

-----------------------------------------------------------------------------
(* The client.                                                              *)

Connecting(p) == state[p] \in {"sending request", "sending response"}

\* The socket of an attempt is closed: what is under way to it is lost.
Heard(flying, a) == {m \in flying : "to" \in DOMAIN m => m.to # a}

\* netcode_client_disconnect_internal and Client::Disconnect.
EndAttempt(p, flying) ==
    /\ state' = [state EXCEPT ![p] = "disconnected"]
    /\ attempt' = [attempt EXCEPT ![p] = None]
    /\ challenge' = [challenge EXCEPT ![p] = 0]
    /\ should_disconnect' = [should_disconnect EXCEPT ![p] = FALSE]
    /\ packets' = Heard(flying, attempt[p])
    /\ UNCHANGED attempts

\* A player connects for the first time or after the client was disconnected.
Connect(p) ==
    /\ state[p] = "disconnected"
    /\ attempts < setting.attempts
    /\ attempts' = attempts + 1
    /\ attempt' = [attempt EXCEPT ![p] = attempts + 1]
    /\ state' = [state EXCEPT ![p] = "sending request"]
    /\ UNCHANGED <<slotVars, packets, challenge, should_disconnect>>

\* The player quits, or starts /reconnect: the client disconnects, and says so.
Quit(p) ==
    /\ state[p] # "disconnected"
    /\ EndAttempt(p, Sent(packets, Disconnect(attempt[p])))
    /\ UNCHANGED slotVars

\* netcode_client_send_packets, and the channel's payload.
SendRequest(p) ==
    /\ state[p] = "sending request"
    /\ SendPacket(Request(attempt[p]))
    /\ UNCHANGED <<clientVars, slotVars>>

SendResponse(p) ==
    /\ state[p] = "sending response"
    /\ SendPacket(Response(attempt[p], challenge[p]))
    /\ UNCHANGED <<clientVars, slotVars>>

SendPayload(p) ==
    /\ state[p] = "connected"
    /\ SendPacket(Payload(attempt[p]))
    /\ UNCHANGED <<clientVars, slotVars>>

\* netcode_client_process_packet_internal
ReceiveDenied(p) ==
    /\ Denied(attempt[p]) \in packets
    /\ packets' = packets \ {Denied(attempt[p])}
    /\ should_disconnect' = [should_disconnect EXCEPT ![p] = @ \/ Connecting(p)]
    /\ UNCHANGED <<slotVars, state, attempt, challenge, attempts>>

\* Mutant: the client takes the challenge for its connection.
ReceiveChallengeConnected(p) == \E e \in Servers :
    /\ Challenge(attempt[p], e) \in packets
    /\ packets' = packets \ {Challenge(attempt[p], e)}
    /\ IF state[p] = "sending request"
       THEN /\ state' = [state EXCEPT ![p] = "connected"]
            /\ challenge' = [challenge EXCEPT ![p] = e]
       ELSE UNCHANGED <<state, challenge>>
    /\ UNCHANGED <<slotVars, attempt, should_disconnect, attempts>>

ReceiveChallenge(p) == \E e \in Servers :
    /\ Challenge(attempt[p], e) \in packets
    /\ packets' = packets \ {Challenge(attempt[p], e)}
    /\ IF state[p] = "sending request"
       THEN /\ state' = [state EXCEPT ![p] = "sending response"]
            /\ challenge' = [challenge EXCEPT ![p] = e]
       ELSE UNCHANGED <<state, challenge>>
    /\ UNCHANGED <<slotVars, attempt, should_disconnect, attempts>>

ReceiveKeepAlive(p) == \E s \in Slots :
    /\ KeepAlive(attempt[p], s) \in packets
    /\ packets' = packets \ {KeepAlive(attempt[p], s)}
    /\ state' = [state EXCEPT ![p] = IF @ = "sending response" THEN "connected" ELSE @]
    /\ UNCHANGED <<slotVars, attempt, challenge, should_disconnect, attempts>>

ReceiveDisconnect(p) ==
    /\ Disconnected(attempt[p]) \in packets
    /\ packets' = packets \ {Disconnected(attempt[p])}
    /\ should_disconnect' = [should_disconnect EXCEPT ![p] = @ \/ state[p] = "connected"]
    /\ UNCHANGED <<slotVars, state, attempt, challenge, attempts>>

\* The end of netcode_client_update: the client was told to disconnect, ...
Obey(p) ==
    /\ should_disconnect[p]
    /\ EndAttempt(p, packets)
    /\ UNCHANGED slotVars

\* ... its token expires or the server does not answer in time, ...
GiveUp(p) ==
    /\ Connecting(p)
    /\ EndAttempt(p, packets)
    /\ UNCHANGED slotVars

\* ... or it has not heard of the server for long; a client that crashes does no more.
TimeOut(p) ==
    /\ state[p] = "connected"
    /\ EndAttempt(p, packets)
    /\ UNCHANGED slotVars

-----------------------------------------------------------------------------
(* The server.                                                              *)

\* netcode_server_find_client_index_by_address, and by_id
IsClient(a) == \E s \in Slots : client[s] = a

\* The slots the server loops over.
InUse == {s \in Slots : s < setting.max_clients}

\* num_connected_clients = max_clients
Full == \A s \in InUse : client[s] # None

\* netcode_server_find_free_client_index
IsFreeSlot(s) == IsFirst(s, {r \in InUse : client[r] = None})

\* netcode_server_process_connection_request_packet
ProcessRequest(a) ==
    LET left == packets \ {Request(a)} IN
    /\ Request(a) \in packets
    /\ \/ IsClient(a) /\ packets' = left /\ UNCHANGED mappings
       \/ ~IsClient(a) /\ Full /\ packets' = Sent(left, Denied(a)) /\ UNCHANGED mappings
       \/ /\ ~IsClient(a) /\ ~Full
          /\ IF HasRoom(mappings, a)
             THEN /\ mappings' = AddMapping(mappings, a)
                  /\ packets' = Sent(left, Challenge(a, restarts))
             ELSE packets' = left /\ UNCHANGED mappings
    /\ UNCHANGED <<clientVars, setting, client, encryption_index, packet_queue, restarts>>

\* netcode_server_connect_client, with the first keep-alive packet
ConnectClient(s, a, i, flying) ==
    /\ client' = [client EXCEPT ![s] = a]
    /\ encryption_index' = [encryption_index EXCEPT ![s] = i]
    /\ mappings' = Own(mappings, i, s)
    /\ packets' = Sent(flying, KeepAlive(a, s))
    /\ UNCHANGED <<setting, packet_queue, restarts>>

\* netcode_server_process_connection_response_packet: a client without keys or with the
\* challenge of another server is ignored.
ProcessResponse(a) == \E e \in Servers :
    LET left == packets \ {Response(a, e)} IN
    /\ Response(a, e) \in packets
    /\ IF e # restarts \/ IsClient(a) \/ ~HasMapping(mappings, a)
       THEN packets' = left /\ UNCHANGED slotVars
       ELSE \/ Full /\ packets' = Sent(left, Denied(a)) /\ UNCHANGED slotVars
            \/ \E s \in Slots :
                   /\ IsFreeSlot(s)
                   /\ ConnectClient(s, a, FindMapping(mappings, a), left)
    /\ UNCHANGED clientVars

\* A payload packet waits in the slot's queue; one of nobody's is ignored.
ProcessPayload(a) ==
    /\ Payload(a) \in packets
    /\ packets' = packets \ {Payload(a)}
    /\ packet_queue' = [s \in Slots |->
                           IF client[s] = a THEN packet_queue[s] \cup {a} ELSE packet_queue[s]]
    /\ UNCHANGED <<clientVars, setting, client, encryption_index, mappings, restarts>>

\* Server::ReceivePackets reads all that wait.
ReadPackets(s) ==
    /\ packet_queue[s] # {}
    /\ packet_queue' = [packet_queue EXCEPT ![s] = {}]
    /\ UNCHANGED <<clientVars, setting, client, encryption_index, mappings, restarts, packets>>

\* netcode_server_send_packets, and the keep-alive before a first payload packet
SendKeepAlive(s) ==
    /\ client[s] # None
    /\ SendPacket(KeepAlive(client[s], s))
    /\ mappings' = Touch(mappings, encryption_index[s])
    /\ UNCHANGED <<clientVars, setting, client, encryption_index, packet_queue, restarts>>

\* Mutant: the queue of the slot is left for its next client.
DisconnectClientOnly(s) ==
    /\ client' = [client EXCEPT ![s] = None]
    /\ encryption_index' = [encryption_index EXCEPT ![s] = NoEntry]
    /\ mappings' = RemoveMapping(Disown(mappings, encryption_index[s]), client[s])
    /\ UNCHANGED <<clientVars, setting, packet_queue, restarts>>

\* netcode_server_disconnect_client_internal
DisconnectClient(s) ==
    /\ client' = [client EXCEPT ![s] = None]
    /\ encryption_index' = [encryption_index EXCEPT ![s] = NoEntry]
    /\ packet_queue' = [packet_queue EXCEPT ![s] = {}]
    /\ mappings' = RemoveMapping(Disown(mappings, encryption_index[s]), client[s])
    /\ UNCHANGED <<clientVars, setting, restarts>>

\* A client says that it disconnects; a packet of one that is not connected is ignored.
ProcessDisconnect(a) ==
    /\ Disconnect(a) \in packets
    /\ packets' = packets \ {Disconnect(a)}
    /\ \/ \E s \in Slots : client[s] = a /\ DisconnectClient(s)
       \/ ~IsClient(a) /\ UNCHANGED <<clientVars, slotVars>>

\* netcode_server_check_for_timeouts: nothing was heard of the client for long.
TimeOutClient(s) ==
    /\ client[s] # None
    /\ DisconnectClient(s)
    /\ UNCHANGED packets

\* netcode_server_disconnect_client, on an error of the channel: the client is told.
ExpelClient(s) ==
    /\ client[s] # None
    /\ DisconnectClient(s)
    /\ packets' = Sent(packets, Disconnected(client[s]))

\* The server stops or crashes, and is started again, with a new challenge key.
Restart ==
    /\ restarts < setting.restarts
    /\ restarts' = restarts + 1
    /\ client' = [s \in Slots |-> None]
    /\ encryption_index' = [s \in Slots |-> NoEntry]
    /\ packet_queue' = [s \in Slots |-> {}]
    /\ mappings' = EmptyTable
    /\ UNCHANGED <<clientVars, setting, packets>>

\* Time passes for a mapping.
Expire(i) ==
    /\ i \in Used(mappings) \ mappings.expired
    /\ mappings' = ExpireEntry(mappings, i)
    /\ UNCHANGED <<clientVars, setting, client, encryption_index, packet_queue, restarts, packets>>

\* A packet is lost.
Lose(m) ==
    /\ packets' = packets \ {m}
    /\ UNCHANGED <<clientVars, slotVars>>

-----------------------------------------------------------------------------

ClientStep(p) ==
    \/ Connect(p) \/ Quit(p)
    \/ SendRequest(p) \/ SendResponse(p) \/ SendPayload(p)
    \/ ReceiveDenied(p) \/ ReceiveChallenge(p) \/ ReceiveKeepAlive(p) \/ ReceiveDisconnect(p)
    \/ Obey(p) \/ GiveUp(p) \/ TimeOut(p)

SlotStep(s) == ReadPackets(s) \/ SendKeepAlive(s) \/ TimeOutClient(s) \/ ExpelClient(s)

Next ==
    \/ \E p \in Players : ClientStep(p)
    \/ \E a \in Attempts :
           ProcessRequest(a) \/ ProcessResponse(a) \/ ProcessPayload(a) \/ ProcessDisconnect(a)
    \/ \E s \in Slots : SlotStep(s)
    \/ Restart
    \/ \E i \in Entries : Expire(i)
    \/ \E m \in packets : Lose(m)

Spec == Init /\ [][Next]_vars

Connected(p, s) == state[p] = "connected" /\ attempt[p] = client[s]

\* Only a connected client keeps its slot from timing out, and only a slot its client.
Fairness ==
    /\ \A s \in Slots : WF_vars(TimeOutClient(s) /\ \A p \in Players : ~Connected(p, s))
    /\ \A p \in Players : WF_vars(TimeOut(p) /\ \A s \in Slots : ~Connected(p, s))

FairSpec == Spec /\ Fairness

-----------------------------------------------------------------------------

TypeOK ==
    /\ setting \in Settings
    /\ state \in [Players -> {"disconnected", "sending request", "sending response", "connected"}]
    /\ attempt \in [Players -> Attempts \cup {None}]
    /\ challenge \in [Players -> Servers]
    /\ should_disconnect \in [Players -> BOOLEAN]
    /\ client \in [Slots -> Attempts \cup {None}]
    /\ encryption_index \in [Slots -> Entries \cup {NoEntry}]
    /\ packet_queue \in [Slots -> SUBSET Attempts]
    /\ mappings \in Tables
    /\ packets \subseteq Packets
    /\ attempts \in 0 .. MaxAttempts
    /\ restarts \in Servers

\* The assertions of netcode_server_disconnect_client_internal, _connect_client, _touch
\* and _get_send_key: the entry of a connected client is in use, is its slot's and has
\* its address, however entries expire, are used again and the table shrinks.
MappingsOwned ==
    /\ \A s \in Slots : client[s] # None =>
           LET i == encryption_index[s] IN
           /\ i \in Used(mappings)
           /\ mappings.client_index[i] = s
           /\ mappings.address[i] = client[s]
    /\ \A i \in Entries : mappings.client_index[i] # NoSlot =>
           encryption_index[mappings.client_index[i]] = i

\* When a client is disconnected, the entry removed for its address is its own, though
\* there may be an older one for the address.
OwnEntryIsFirst == \A s \in Slots : client[s] # None =>
    IsFirst(encryption_index[s], Matching(mappings, client[s]))

\* What waits in the queue of a slot is of the slot's client, never of the one before.
QueueIsOwn == \A s \in Slots : packet_queue[s] \subseteq {client[s]}

\* The two ends of a session: a slot of the server, and a client that is connected.
Ends == INSTANCE SessionEnds WITH
    holder <- client,
    joined <- [p \in Players |-> IF state[p] = "connected" THEN attempt[p] ELSE None],
    announced <- {<<m.to, m.slot>> : m \in {k \in packets : k.type = "KEEP_ALIVE"}}

\* Whatever is lost, late or repeated: an attempt has one slot at a time, the first free
\* one; a client is connected only after its slot was opened; no end outlives the other.
ImplementsSessionEnds == Ends!FairEndsSpec
=============================================================================
