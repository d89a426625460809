---------------------------- MODULE TriggerItems ----------------------------
(***************************************************************************)
(* A trigger that fires once a set of items has been placed in it (OnUse).  *)
(* The network thread compares its flag and how many items it holds with    *)
(* what it saw last, and sends items from the front of its list; applying a *)
(* message overwrites both cached values.  It is guarded like a press       *)
(* (TriggerSync): the game thread suppresses the trigger, uses the items one *)
(* by one and takes the snapshot, with passes of the network thread anywhere *)
(* between.                                                                  *)
(***************************************************************************)
EXTENDS WorldRelay, SequencesExt, Integers

CONSTANTS Lock,            \* the GUID of the trigger
          Required,        \* the items it needs
          MaxItems,        \* how many items a message has room for
          Placers          \* the players who carry items

ASSUME ItemsAssumption == MaxItems \in Nat /\ Placers \subseteq Players

VARIABLES supplied,        \* per player: the list of items in its trigger
          countSeen,       \* per player: triggerSuppliedItemCountCache
          firingSeen,      \* per player: the flag in triggerStatesCache
          lockSuppressed,  \* the players whose g_suppressTriggerDetection has the trigger
          itemsUsed,       \* per player: how many items of Head(pending) its game thread
                           \* has used, or NotApplying
          told,            \* per player: the items it has sent or been sent (history)
          unnoticed        \* per player: the items placed here since a pass last noticed
                           \* a change (history)

itemVars == <<supplied, countSeen, firingSeen, lockSuppressed, itemsUsed, told, unnoticed>>

TriggerOnUse(list) == [type |-> "TRIGGER_ONUSE", items |-> list]
ItemMessages == [type : {"TRIGGER_ONUSE"}, items : SeqOf(Required, MaxItems)]

NotSeen == -1              \* the caches have no entry
NotApplying == -1

\* Every client has made its first pass over the level.
ItemInit ==
    /\ supplied = [p \in Players |-> <<>>]
    /\ countSeen = [p \in Players |-> 0]
    /\ firingSeen = [p \in Players |-> FALSE]
    /\ lockSuppressed = {}
    /\ itemsUsed = [p \in Players |-> NotApplying]
    /\ told = [p \in Players |-> {}]
    /\ unnoticed = [p \in Players |-> {}]

\* The trigger has fired: WAS_TRIGGERED.
Complete(list) == Required \subseteq ToSet(list)
Fired(p) == Complete(supplied[p])

\* trigger::OnUse: a list holds an item once, and none is added after it has fired.
Use(list, i) == IF i \in ToSet(list) \/ Complete(list) THEN list ELSE Append(list, i)

PlaceItem(p, i) ==
    /\ InGameLogic(p)
    /\ Lock \in objects
    /\ p \in Placers
    /\ Use(supplied[p], i) # supplied[p]
    /\ supplied' = [supplied EXCEPT ![p] = Use(@, i)]
    /\ unnoticed' = [unnoticed EXCEPT ![p] = @ \cup {i}]
    /\ UNCHANGED <<relayVars, countSeen, firingSeen, lockSuppressed, itemsUsed, told>>

\* Mutant: a message with more items than it has room for.
ItemsUnclamped(list, n) == SubSeq(list, 1, n)

\* readAndPushTriggerItems: n items of the list, from its front; n is positive where it
\* is called (CacheNotAhead).
Items(list, n) == SubSeq(list, 1, IF n > MaxItems THEN MaxItems ELSE n)

\* Which items a pass sends: all of them if the trigger has just fired, otherwise as
\* many as are new.
ItemsToSend(p) ==
    IF Fired(p) /\ ~firingSeen[p]
    THEN Items(supplied[p], Len(supplied[p]))
    ELSE Items(supplied[p], Len(supplied[p]) - countSeen[p])

\* A pass of the network thread that skips the trigger; it is the last to do so.
LiftSuppression(p) ==
    /\ Playing(p)
    /\ p \in lockSuppressed
    /\ lockSuppressed' = lockSuppressed \ {p}
    /\ UNCHANGED <<relayVars, supplied, countSeen, firingSeen, itemsUsed, told, unnoticed>>

\* A pass that notices a change; the first one has nothing to compare with.
DetectItems(p) ==
    /\ Playing(p)
    /\ Lock \in objects
    /\ p \notin lockSuppressed
    /\ Len(supplied[p]) # countSeen[p]
    /\ unnoticed' = [unnoticed EXCEPT ![p] = {}]
    /\ countSeen' = [countSeen EXCEPT ![p] = Len(supplied[p])]
    /\ firingSeen' = [firingSeen EXCEPT ![p] = Fired(p)]
    /\ IF countSeen[p] # NotSeen
       THEN /\ Send(p, <<TriggerOnUse(ItemsToSend(p))>>)
            /\ told' = [told EXCEPT ![p] = @ \cup ToSet(ItemsToSend(p))]
       ELSE UNCHANGED <<relayVars, told>>
    /\ UNCHANGED <<supplied, lockSuppressed, itemsUsed>>

\* The game thread of p applies the first message it has taken: it suppresses the
\* trigger ...
SuppressItems(p) ==
    /\ ToApply(p, ItemMessages)
    /\ itemsUsed[p] = NotApplying
    /\ itemsUsed' = [itemsUsed EXCEPT ![p] = 0]
    /\ lockSuppressed' = lockSuppressed \cup {p}
    /\ told' = [told EXCEPT ![p] = @ \cup ToSet(Head(pending[p]).items)]
    /\ UNCHANGED <<relayVars, supplied, countSeen, firingSeen, unnoticed>>

\* ... uses the items, in their order ...
UseItem(p) ==
    LET items == Head(pending[p]).items
        next == itemsUsed[p] + 1 IN
    /\ ToApply(p, ItemMessages)
    /\ next \in 1 .. Len(items)
    /\ itemsUsed' = [itemsUsed EXCEPT ![p] = next]
    /\ supplied' = [supplied EXCEPT ![p] = Use(@, items[next])]
    /\ UNCHANGED <<relayVars, countSeen, firingSeen, lockSuppressed, told, unnoticed>>

\* Mutant: the message's items are counted, whether they were in the list or not.
CountAllItems(p) ==
    /\ ToApply(p, ItemMessages)
    /\ itemsUsed[p] = Len(Head(pending[p]).items)
    /\ itemsUsed' = [itemsUsed EXCEPT ![p] = NotApplying]
    /\ countSeen' = [countSeen EXCEPT ![p] = @ + itemsUsed[p]]
    /\ firingSeen' = [firingSeen EXCEPT ![p] = Fired(p)]
    /\ Applied(p)
    /\ UNCHANGED <<supplied, lockSuppressed, told, unnoticed>>

\* ... and puts the outcome in both caches.  The count is read before the critical
\* section is entered, but only this thread adds items.
SnapshotItems(p) ==
    /\ ToApply(p, ItemMessages)
    /\ itemsUsed[p] = Len(Head(pending[p]).items)
    /\ itemsUsed' = [itemsUsed EXCEPT ![p] = NotApplying]
    /\ countSeen' = [countSeen EXCEPT ![p] = Len(supplied[p])]
    /\ firingSeen' = [firingSeen EXCEPT ![p] = Fired(p)]
    /\ Applied(p)
    /\ UNCHANGED <<supplied, lockSuppressed, told, unnoticed>>

ForgetItems(p) ==
    /\ countSeen' = [countSeen EXCEPT ![p] = NotSeen]
    /\ firingSeen' = [firingSeen EXCEPT ![p] = FALSE]
    /\ lockSuppressed' = lockSuppressed \ {p}

\* Caches and suppression go with the session, and once more with /reconnect ...
ResetItems(p) ==
    /\ ForgetItems(p)
    /\ UNCHANGED <<supplied, itemsUsed, told, unnoticed>>

\* ... and with the level, whose next visit has an empty trigger; the loop forgets
\* them only while it has a session.
ReloadItems(p) ==
    /\ IF p \in online THEN ForgetItems(p)
       ELSE UNCHANGED <<countSeen, firingSeen, lockSuppressed>>
    /\ supplied' = [supplied EXCEPT ![p] = <<>>]
    /\ told' = [told EXCEPT ![p] = {}]
    /\ unnoticed' = [unnoticed EXCEPT ![p] = {}]
    /\ UNCHANGED itemsUsed

ItemStep(p) ==
    \/ \E i \in Required : PlaceItem(p, i)
    \/ LiftSuppression(p)
    \/ DetectItems(p)
    \/ SuppressItems(p)
    \/ UseItem(p)
    \/ SnapshotItems(p)

-----------------------------------------------------------------------------

ItemTypeOK ==
    /\ supplied \in [Players -> Seq(Required)]
    /\ countSeen \in [Players -> Nat \cup {NotSeen}]
    /\ firingSeen \in [Players -> BOOLEAN]
    /\ lockSuppressed \subseteq Players
    /\ itemsUsed \in [Players -> NotApplying .. MaxItems]
    /\ told \in [Players -> SUBSET Required]
    /\ unnoticed \in [Players -> SUBSET Required]

\* No client with a session believes to have seen more than there is, or a firing that
\* has not been; otherwise a later change would look like none.
CacheNotAhead == \A p \in online :
    /\ countSeen[p] <= Len(supplied[p])
    /\ firingSeen[p] => Fired(p)

\* An item the player placed is in the count of the cache and no pass has noticed it: the
\* snapshot of a remote message came first.
Overlooked(p) == unnoticed[p] # {} /\ countSeen[p] = Len(supplied[p])

\* A trigger that fires in one world fires in all of them (the README calls triggers
\* replicated) if one player places its items, though single items are mixed up on the
\* way; unless the snapshot of an echo hides the last ones from that player's passes.
ItemsFireForAll ==
    (\E p \in Players : Overlooked(p)) \/ EverywhereOrNowhere({p \in Players : Fired(p)})

\* The comments in detectTriggerChanges and at sendTriggerOnUse: placed items are sent.
PlacedItemsSent == \A p \in Players :
    ToSet(SubSeq(supplied[p], 1, countSeen[p])) \subseteq told[p]
=============================================================================
