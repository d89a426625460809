-------------------------- MODULE EncryptionManager --------------------------
(***************************************************************************)
(* netcode's table of encryption mappings: for the address of a client that *)
(* asks for a connection, and of one that has it, the keys of its packets.  *)
(* A table is a value, and each function of netcode.c an operator on it.    *)
(*                                                                         *)
(* An address stands for the keys too: a client that connects again has a   *)
(* new socket and a new token.  Of the times of an entry only remains        *)
(* whether it has expired.                                                   *)
(***************************************************************************)
EXTENDS Integers

CONSTANTS MaxMappings,     \* NETCODE_MAX_ENCRYPTION_MAPPINGS
          Addresses,       \* addresses of clients
          NoAddress,       \* NETCODE_ADDRESS_NONE
          Slots,           \* client_index on the server
          NoSlot           \* client_index = -1

ASSUME MappingsAssumption ==
    /\ MaxMappings \in Nat \ {0}
    /\ NoAddress \notin Addresses
    /\ NoSlot \notin Slots

Entries == 1 .. MaxMappings

Tables == [address : [Entries -> Addresses \cup {NoAddress}],
           client_index : [Entries -> Slots \cup {NoSlot}],
           expired : SUBSET Entries,
           num : 0 .. MaxMappings]

\* netcode_encryption_manager_reset
EmptyTable == [address |-> [i \in Entries |-> NoAddress],
               client_index |-> [i \in Entries |-> NoSlot],
               expired |-> {},
               num |-> 0]

\* i is the first of the entries in S.
IsFirst(i, S) == i \in S /\ \A j \in S : i <= j

Used(t) == 1 .. t.num

\* The entries for an address that may still be used.
Live(t, a) == {i \in Used(t) \ t.expired : t.address[i] = a}

\* netcode_encryption_manager_find_encryption_mapping finds one.
HasMapping(t, a) == Live(t, a) # {}

\* What it finds.
FindMapping(t, a) == CHOOSE i \in Live(t, a) : IsFirst(i, Live(t, a))

\* Nobody needs the entry i any more.
Unneeded(t, i) == i \in t.expired /\ t.client_index[i] = NoSlot

\* Mutant: an entry that has expired is free, whoever is connected with it.
ReusableThoughOwned(t) == {i \in Entries : t.address[i] = NoAddress \/ i \in t.expired}

\* The entries a new mapping may be put in.
Reusable(t) == {i \in Entries : t.address[i] = NoAddress \/ Unneeded(t, i)}

\* netcode_encryption_manager_add_encryption_mapping can add one.
HasRoom(t, a) == HasMapping(t, a) \/ Reusable(t) # {}

\* Mutant: the table is taken to be one longer than it is.
AddMappingOffByOne(t, a) ==
    IF HasMapping(t, a) THEN t
    ELSE LET i == CHOOSE i \in Reusable(t) : IsFirst(i, Reusable(t)) IN
         [t EXCEPT !.address[i] = a,
                   !.expired = @ \ {i},
                   !.num = IF i >= @ THEN i + 1 ELSE @]

\* Mutant: an entry nobody has used is preferred to one that has expired.
AddMappingUnused(t, a) ==
    IF HasMapping(t, a) THEN t
    ELSE LET unused == {i \in Entries : t.address[i] = NoAddress}
             choices == IF unused # {} THEN unused ELSE Reusable(t)
             i == CHOOSE i \in choices : IsFirst(i, choices) IN
         [t EXCEPT !.address[i] = a,
                   !.expired = @ \ {i},
                   !.num = IF i > @ THEN i ELSE @]

\* ... and what it makes of the table: nothing, or the address in the first entry.
AddMapping(t, a) ==
    IF HasMapping(t, a) THEN t
    ELSE LET i == CHOOSE i \in Reusable(t) : IsFirst(i, Reusable(t)) IN
         [t EXCEPT !.address[i] = a,
                   !.expired = @ \ {i},
                   !.num = IF i > @ THEN i ELSE @]

\* The entries for an address, expired or not.
Matching(t, a) == {i \in Used(t) : t.address[i] = a}

\* The last entry below i that somebody needs, or 0.
LastNeeded(t, i) == CHOOSE n \in 0 .. i - 1 :
    /\ n = 0 \/ ~Unneeded(t, n)
    /\ \A j \in n + 1 .. i - 1 : Unneeded(t, j)

\* netcode_encryption_manager_remove_encryption_mapping: the first entry for the
\* address is cleared, and if it was the last of the table, so are those before it that
\* nobody needs.
RemoveMapping(t, a) ==
    IF Matching(t, a) = {} THEN t
    ELSE LET i == CHOOSE i \in Matching(t, a) : IsFirst(i, Matching(t, a))
             n == IF i = t.num THEN LastNeeded(t, i) ELSE t.num IN
         [t EXCEPT !.address = [j \in Entries |-> IF j = i \/ (j > n /\ j <= i)
                                                  THEN NoAddress ELSE @[j]],
                   !.expired = @ \cup {i},
                   !.num = n]

\* netcode_encryption_manager_touch, for the entry's own address.
Touch(t, i) == [t EXCEPT !.expired = @ \ {i}]

\* The entry is owned by a slot, and does not expire by itself (set_expire_time).
Own(t, i, s) == [t EXCEPT !.client_index[i] = s, !.expired = @ \ {i}]

Disown(t, i) == [t EXCEPT !.client_index[i] = NoSlot]

\* Time has passed: netcode_encryption_manager_entry_expired.
ExpireEntry(t, i) == [t EXCEPT !.expired = @ \cup {i}]
=============================================================================
