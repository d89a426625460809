----------------------------- MODULE SessionEnds -----------------------------
(***************************************************************************)
(* What a connection promises: a session has two ends, a slot of the server *)
(* and a client.  The server opens its end first and says so; the client     *)
(* opens its end when it hears of it, though by then the slot may be gone;   *)
(* either end closes at any time, and no end outlives the other for ever.    *)
(***************************************************************************)
EXTENDS Integers

CONSTANTS Players,         \* the machines that run the client
          Slots,           \* the slots of the server: numbers
          MaxAttempts      \* attempts to connect are numbers up to this

VARIABLES holder,          \* per slot: the attempt it was opened for, or 0
          joined,          \* per player: the attempt its end was opened in, or 0
          announced        \* what the server has said: <<attempt, slot>>

endsVars == <<holder, joined, announced>>

Attempts == 1 .. MaxAttempts

EndsInit ==
    /\ holder = [s \in Slots |-> 0]
    /\ joined = [p \in Players |-> 0]
    /\ announced = {}

HasSlot(a) == \E s \in Slots : holder[s] = a

FirstFree(s) == holder[s] = 0 /\ \A r \in Slots : r < s => holder[r] # 0

\* The server opens the first free slot, for an attempt that has none, and says so.
Open(s, a) ==
    /\ FirstFree(s)
    /\ ~HasSlot(a)
    /\ holder' = [holder EXCEPT ![s] = a]
    /\ announced' \subseteq announced \cup {<<a, s>>}
    /\ UNCHANGED joined

\* The server tells the client again.
Announce(s) ==
    /\ holder[s] # 0
    /\ announced' = announced \cup {<<holder[s], s>>}
    /\ UNCHANGED <<holder, joined>>

\* The client hears what was said of its attempt, and opens its end.
Join(p, a) ==
    /\ joined[p] = 0
    /\ \A q \in Players : joined[q] # a
    /\ \E s \in Slots : <<a, s>> \in announced
    /\ joined' = [joined EXCEPT ![p] = a]
    /\ announced' \subseteq announced
    /\ UNCHANGED holder

\* The server closes its end.
Close(s) ==
    /\ holder[s] # 0
    /\ holder' = [holder EXCEPT ![s] = 0]
    /\ UNCHANGED <<joined, announced>>

\* The client closes its end, and hears nothing of it any more.
Leave(p) ==
    /\ joined[p] # 0
    /\ joined' = [joined EXCEPT ![p] = 0]
    /\ announced' \subseteq announced
    /\ UNCHANGED holder

\* What was said is lost, or comes too late.
Forget == announced' \subseteq announced /\ UNCHANGED <<holder, joined>>

\* The server stops, and all its ends are closed.
Stop ==
    /\ holder' = [s \in Slots |-> 0]
    /\ UNCHANGED <<joined, announced>>

EndsNext ==
    \/ \E s \in Slots : (\E a \in Attempts : Open(s, a)) \/ Announce(s) \/ Close(s)
    \/ \E p \in Players : (\E a \in Attempts : Join(p, a)) \/ Leave(p)
    \/ Forget
    \/ Stop

EndsSpec == EndsInit /\ [][EndsNext]_endsVars

-----------------------------------------------------------------------------

\* A slot is open, and the client of its session is not, or no longer, in it.
Abandoned(s) == holder[s] # 0 /\ \A p \in Players : joined[p] # holder[s]

\* A client is in a session of which the server has no end.
Deserted(p) == joined[p] # 0 /\ ~HasSlot(joined[p])

\* No end is left alone for ever.  (It is what weak fairness of closing such an end says,
\* since an end that is closed is not left alone.)
EndsMeet ==
    /\ \A s \in Slots : []<>~Abandoned(s)
    /\ \A p \in Players : []<>~Deserted(p)

FairEndsSpec == EndsSpec /\ EndsMeet
=============================================================================
