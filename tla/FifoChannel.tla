----------------------------- MODULE FifoChannel -----------------------------
(***************************************************************************)
(* What the game takes a reliable-ordered channel for: the messages are     *)
(* handed over each once, in the order in which they were sent, or the      *)
(* session ends.  Messages are known by their position.  Transport and      *)
(* WorldRelay have queues like this one; ReliableChannel implements it.     *)
(***************************************************************************)
EXTENDS Naturals

VARIABLES sent,            \* how many messages have been sent
          delivered,       \* how many have been handed over
          up               \* the session lasts

vars == <<sent, delivered, up>>

Init ==
    /\ sent = 0
    /\ delivered = 0
    /\ up = TRUE

Send ==
    /\ up
    /\ sent' = sent + 1
    /\ UNCHANGED <<delivered, up>>

\* The oldest message that is on its way arrives.
Deliver ==
    /\ up
    /\ delivered < sent
    /\ delivered' = delivered + 1
    /\ UNCHANGED <<sent, up>>

\* The session ends, and with it what is on its way.
Break ==
    /\ up
    /\ up' = FALSE
    /\ UNCHANGED <<sent, delivered>>

Next == Send \/ Deliver \/ Break

Spec == Init /\ [][Next]_vars

\* Nothing stays on its way while the session lasts.
FairSpec == Spec /\ WF_vars(Deliver)
=============================================================================
