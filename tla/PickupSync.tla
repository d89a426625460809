----------------------------- MODULE PickupSync -----------------------------
(***************************************************************************)
(* Pickups: what one player picks up, everybody gets.  There is no hook; the*)
(* network thread compares the pickups of the level with what it saw last,  *)
(* so a pickup that a remote message has collected looks to it like one the *)
(* player has collected, and is announced once more.                        *)
(***************************************************************************)
EXTENDS WorldRelay

CONSTANT Pickups           \* GUIDs of pickups

VARIABLES collected,       \* per player: the pickups whose PICKED_UP flag is set
          pickupSeen,      \* per player and pickup: pickupStatesCache
          granted,         \* per player and pickup: how often its Bilbo got the item
          announced        \* per player and pickup: how often it was sent (history)

pickupVars == <<collected, pickupSeen, granted, announced>>

PickupCollect(g) == [type |-> "PICKUP_COLLECT", pickup |-> g]
PickupMessages == [type : {"PICKUP_COLLECT"}, pickup : Pickups]

NoPickupSeen == [g \in Pickups |-> "unseen"]
NoPickups == [g \in Pickups |-> 0]

PickupInit ==
    /\ collected = [p \in Players |-> {}]
    /\ pickupSeen = [p \in Players |-> NoPickupSeen]
    /\ granted = [p \in Players |-> NoPickups]
    /\ announced = [p \in Players |-> NoPickups]

\* The player p picks up g; the game sets the flag and grants the item.
Collect(p, g) ==
    /\ InGameLogic(p)
    /\ g \in objects \ collected[p]
    /\ collected' = [collected EXCEPT ![p] = @ \cup {g}]
    /\ granted' = [granted EXCEPT ![p][g] = @ + 1]
    /\ UNCHANGED <<relayVars, pickupSeen, announced>>

\* The flag as the cache keeps it.
PickupFlag(p, g) == IF g \in collected[p] THEN "taken" ELSE "lying"

\* Mutant: a change is sent but not remembered.
DetectAndForget(p, g) ==
    /\ Playing(p)
    /\ g \in objects
    /\ pickupSeen[p][g] # PickupFlag(p, g)
    /\ pickupSeen' = [pickupSeen EXCEPT ![p][g] = "lying"]
    /\ IF pickupSeen[p][g] = "lying"
       THEN /\ Send(p, <<PickupCollect(g)>>)
            /\ announced' = [announced EXCEPT ![p][g] = @ + 1]
       ELSE UNCHANGED <<relayVars, announced>>
    /\ UNCHANGED <<collected, granted>>

\* The pass of the network thread gets to pickup g (between two of them the
\* game thread may do anything); what it found is sent at the end of the pass.
DetectPickupChange(p, g) ==
    /\ Playing(p)
    /\ g \in objects
    /\ pickupSeen[p][g] # PickupFlag(p, g)
    /\ pickupSeen' = [pickupSeen EXCEPT ![p][g] = PickupFlag(p, g)]
    /\ IF pickupSeen[p][g] = "lying"
       THEN /\ Send(p, <<PickupCollect(g)>>)
            /\ announced' = [announced EXCEPT ![p][g] = @ + 1]
       ELSE UNCHANGED <<relayVars, announced>>
    /\ UNCHANGED <<collected, granted>>

\* Mutant: an item is granted without a look at the flag.
GrantUnchecked(p) ==
    LET g == Head(pending[p]).pickup IN
    /\ ToApply(p, PickupMessages)
    /\ collected' = [collected EXCEPT ![p] = @ \cup {g}]
    /\ granted' = [granted EXCEPT ![p][g] = @ + 1]
    /\ Applied(p)
    /\ UNCHANGED <<pickupSeen, announced>>

\* The game thread of p grants the next pickup it has taken from the queue.
ApplyPickupCollect(p) ==
    LET g == Head(pending[p]).pickup IN
    /\ ToApply(p, PickupMessages)
    /\ IF g \in collected[p]
       THEN UNCHANGED <<collected, granted>>
       ELSE /\ collected' = [collected EXCEPT ![p] = @ \cup {g}]
            /\ granted' = [granted EXCEPT ![p][g] = @ + 1]
    /\ Applied(p)
    /\ UNCHANGED <<pickupSeen, announced>>

\* The cache goes with the session ...
ResetPickups(p) ==
    /\ pickupSeen' = [pickupSeen EXCEPT ![p] = NoPickupSeen]
    /\ announced' = [announced EXCEPT ![p] = NoPickups]
    /\ UNCHANGED <<collected, granted>>

\* ... and with the level, whose next visit has all its pickups again.
ReloadPickups(p) ==
    /\ pickupSeen' = [pickupSeen EXCEPT ![p] = NoPickupSeen]
    /\ announced' = [announced EXCEPT ![p] = NoPickups]
    /\ collected' = [collected EXCEPT ![p] = {}]
    /\ granted' = [granted EXCEPT ![p] = NoPickups]

PickupStep(p) ==
    \/ \E g \in Pickups : Collect(p, g) \/ DetectPickupChange(p, g)
    \/ ApplyPickupCollect(p)

-----------------------------------------------------------------------------

PickupTypeOK ==
    /\ collected \in [Players -> SUBSET Pickups]
    /\ pickupSeen \in [Players -> [Pickups -> {"unseen", "lying", "taken"}]]
    /\ granted \in [Players -> [Pickups -> Nat]]
    /\ announced \in [Players -> [Pickups -> Nat]]

\* Nobody gets an item twice during a visit to the level, however many players
\* collect it at the same time and however the echoes of applyQueuedPickupCollects
\* travel.
GrantedOnce == \A p \in Players, g \in Pickups : granted[p][g] <= 1

\* The echo dies out: between two resets of its cache a client announces a pickup
\* at most once, whether its player or a message collected it.
AnnouncedOnce == \A p \in Players, g \in Pickups : announced[p][g] <= 1

\* A pickup that somebody collects after the first look at it, which records it as it
\* lies in the level, is collected in everybody's world: what all come to while nobody
\* is absent.
CollectedByAll == \A g \in Pickups :
    (\E p \in level.players :
        \/ announced[p][g] > 0
        \/ g \in collected[p] /\ pickupSeen[p][g] = "lying")
        => level.players \subseteq {p \in Players : g \in collected[p]}
=============================================================================
