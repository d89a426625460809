------------------------------ MODULE ChestSync ------------------------------
(***************************************************************************)
(* Chests: treasure_chest::Open is hooked.  The hook queues a chest the      *)
(* player opens; a remote opening calls the original function, past the     *)
(* hook, and only for a chest that is still closed.                         *)
(***************************************************************************)
EXTENDS WorldRelay

CONSTANT Chests            \* GUIDs of chests

VARIABLES opened,          \* per player and chest: how often it has been opened
          outgoingOpens,   \* per player: g_outgoingChestOpens
          openedBy         \* per player: the chests its player has opened (history)

chestVars == <<opened, outgoingOpens, openedBy>>

ChestOpen(c) == [type |-> "CHEST_OPEN", chest |-> c]
ChestMessages == [type : {"CHEST_OPEN"}, chest : Chests]

Closed == [c \in Chests |-> 0]

ChestInit ==
    /\ opened = [p \in Players |-> Closed]
    /\ outgoingOpens = NoQueue
    /\ openedBy = [p \in Players |-> {}]

\* hkChestOpen: the player p opens c.
Open(p, c) ==
    /\ InGameLogic(p)
    /\ c \in objects
    /\ opened[p][c] = 0
    /\ opened' = [opened EXCEPT ![p][c] = 1]
    /\ outgoingOpens' = [outgoingOpens EXCEPT ![p] = Append(@, ChestOpen(c))]
    /\ openedBy' = [openedBy EXCEPT ![p] = @ \cup {c}]
    /\ UNCHANGED relayVars

\* The network thread of p sends what the hook has queued.
SendChestOpens(p) ==
    /\ Playing(p)
    /\ outgoingOpens[p] # <<>>
    /\ Send(p, outgoingOpens[p])
    /\ outgoingOpens' = [outgoingOpens EXCEPT ![p] = <<>>]
    /\ UNCHANGED <<opened, openedBy>>

\* Mutant: a remote opening goes through the hook.
ApplyThroughHook(p) ==
    LET c == Head(pending[p]).chest IN
    /\ ToApply(p, ChestMessages)
    /\ IF opened[p][c] > 0
       THEN UNCHANGED <<opened, outgoingOpens>>
       ELSE /\ opened' = [opened EXCEPT ![p][c] = @ + 1]
            /\ outgoingOpens' = [outgoingOpens EXCEPT ![p] = Append(@, ChestOpen(c))]
    /\ Applied(p)
    /\ UNCHANGED openedBy

\* Mutant: a chest is opened without a look at its flag.
ApplyUnchecked(p) ==
    LET c == Head(pending[p]).chest IN
    /\ ToApply(p, ChestMessages)
    /\ opened' = [opened EXCEPT ![p][c] = @ + 1]
    /\ Applied(p)
    /\ UNCHANGED <<outgoingOpens, openedBy>>

\* The game thread of p opens the next chest it has taken from the queue.
ApplyChestOpen(p) ==
    LET c == Head(pending[p]).chest IN
    /\ ToApply(p, ChestMessages)
    /\ opened' = [opened EXCEPT ![p][c] = IF @ > 0 THEN @ ELSE 1]
    /\ Applied(p)
    /\ UNCHANGED <<outgoingOpens, openedBy>>

\* The queue of the hook goes with the session, and once more with /reconnect ...
ResetChests(p) ==
    /\ outgoingOpens' = [outgoingOpens EXCEPT ![p] = <<>>]
    /\ UNCHANGED <<opened, openedBy>>

\* ... and with the level, whose next visit has all its chests closed; the loop
\* empties the queue only while it has a session.
ReloadChests(p) ==
    /\ opened' = [opened EXCEPT ![p] = Closed]
    /\ openedBy' = [openedBy EXCEPT ![p] = {}]
    /\ outgoingOpens' = IF p \in online
                        THEN [outgoingOpens EXCEPT ![p] = <<>>]
                        ELSE outgoingOpens

ChestStep(p) ==
    \/ \E c \in Chests : Open(p, c)
    \/ SendChestOpens(p)
    \/ ApplyChestOpen(p)

-----------------------------------------------------------------------------

ChestTypeOK ==
    /\ opened \in [Players -> [Chests -> Nat]]
    /\ outgoingOpens \in [Players -> Seq(ChestMessages)]
    /\ openedBy \in [Players -> SUBSET Chests]

\* A chest gives its contents once in each world, even if several players open it
\* before they hear of each other.
OpenedOnce == \A p \in Players, c \in Chests : opened[p][c] <= 1

\* No echo: what a client with a session is about to send was opened by its own
\* player, during this visit to the level.
OnlyOwnOpens == \A p \in online :
    \A i \in DOMAIN outgoingOpens[p] : outgoingOpens[p][i].chest \in openedBy[p]

\* A chest somebody opens is open in every world: what all come to while nobody is absent.
OpenForAll == \A c \in Chests :
    EverywhereOrNowhere({p \in Players : opened[p][c] > 0})
=============================================================================
