----------------------------- MODULE MCHandshake -----------------------------
(* An instance of Handshake for TLC: slots are numbers from 0, as in the code. *)
EXTENDS Handshake

MCAttempts == 1 .. MaxAttempts
MCNone == 0
MCSlots == {0, 1}
MCNoSlot == -1

Setting(n, a, r) == [max_clients |-> n, attempts |-> a, restarts |-> r]
\* A server that is full, one that is not, and one that is started again.
MCSettings == {Setting(1, 2, 0), Setting(2, 2, 0), Setting(2, 1, 1)}
=============================================================================
