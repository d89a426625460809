--------------------------- MODULE HandshakeProofs ---------------------------
(***************************************************************************)
(* Slots, encryption mappings and the ends of sessions, for any numbers of  *)
(* players, slots, mappings, attempts and packets under way.                *)
(*                                                                         *)
(* The assertions of netcode about its table of mappings hold because of    *)
(* two facts that are not about clients: no address is written beyond the   *)
(* end of the table, and of the entries with one address all but the first  *)
(* have expired and are nobody's.  The second holds since a new entry goes  *)
(* to the first place that is free, where an expired entry of the same      *)
(* address counts as free.                                                  *)
(*                                                                         *)
(* Below, the slots' entries follow from them (SlotsOwn), the clients number *)
(* their attempts so that no two have the same (ClientsInv), and every step  *)
(* is one of SessionEnds or changes nothing that it speaks of.               *)
(***************************************************************************)
EXTENDS Handshake, SequenceFacts

-----------------------------------------------------------------------------
(* The table.                                                               *)

\* The first of a set of entries.
LEMMA FirstEntry ==
    ASSUME NEW S, S \subseteq Entries, S # {}
    PROVE  LET i == CHOOSE i \in S : IsFirst(i, S) IN IsFirst(i, S) /\ i \in Entries
<1>1. S \subseteq Nat
    BY MappingsAssumption DEF Entries
<1>2. \E i \in S : IsFirst(i, S)
    BY <1>1, LeastNatural DEF IsFirst
<1>3. QED BY <1>2

LEMMA Fields ==
    ASSUME NEW t \in Tables
    PROVE  /\ t.address \in [Entries -> Addresses \cup {NoAddress}]
           /\ t.client_index \in [Entries -> Slots \cup {NoSlot}]
           /\ t.expired \subseteq Entries
           /\ t.num \in 0 .. MaxMappings
BY DEF Tables

\* A table is well kept: nothing is written beyond its end, and of the entries with one
\* address all but the first have expired and are nobody's.
WellKept(t) ==
    /\ \A i \in Entries : i > t.num => t.address[i] = NoAddress
    /\ \A i, j \in Entries : i < j /\ t.address[i] = t.address[j] /\ t.address[i] # NoAddress =>
           j \in t.expired /\ t.client_index[j] = NoSlot

\* What is found is an entry of the address that has not expired, and the first of all.
LEMMA Found ==
    ASSUME NEW t \in Tables, NEW a \in Addresses, WellKept(t), HasMapping(t, a)
    PROVE  LET i == FindMapping(t, a) IN
           /\ i \in Used(t) /\ i \in Entries /\ i \notin t.expired /\ t.address[i] = a
           /\ \A j \in Entries : t.address[j] = a => i <= j
<1> DEFINE i == FindMapping(t, a)
<1>1. t.num \in Nat /\ t.num <= MaxMappings
    BY Fields, MappingsAssumption
<1>2. Live(t, a) \subseteq Entries /\ Live(t, a) # {}
    BY <1>1, MappingsAssumption DEF Live, Used, Entries, HasMapping
<1>3. i \in Live(t, a) /\ i \in Entries
    BY <1>2, FirstEntry DEF FindMapping, IsFirst
<1> HIDE DEF i
<1>4. \A j \in Entries : t.address[j] = a => i <= j
  <2> SUFFICES ASSUME NEW j \in Entries, t.address[j] = a, j < i PROVE FALSE
    BY <1>3, MappingsAssumption DEF Entries
  <2>1. i \in t.expired
    BY <1>3, MappingsAssumption DEF WellKept, Live
  <2>2. QED BY <1>3, <2>1 DEF Live
<1>5. QED BY <1>3, <1>4 DEF i, Live

\* Where nothing is found and there is room, the address goes to the first place that is
\* nobody's; what else there is of the address comes later and has expired.
LEMMA Added ==
    ASSUME NEW t \in Tables, NEW a \in Addresses, WellKept(t), ~HasMapping(t, a), HasRoom(t, a)
    PROVE  \E i \in Reusable(t) :
               /\ \A j \in Reusable(t) : i <= j
               /\ i <= t.num + 1
               /\ AddMapping(t, a) = [t EXCEPT !.address[i] = a,
                                              !.expired = t.expired \ {i},
                                              !.num = IF i > t.num THEN i ELSE t.num]
<1> DEFINE i == CHOOSE i \in Reusable(t) : IsFirst(i, Reusable(t))
<1>1. Reusable(t) \subseteq Entries /\ Reusable(t) # {}
    BY DEF Reusable, HasRoom
<1>2. IsFirst(i, Reusable(t)) /\ i \in Entries
    BY <1>1, FirstEntry
<1>3. AddMapping(t, a) = [t EXCEPT !.address[i] = a,
                                   !.expired = t.expired \ {i},
                                   !.num = IF i > t.num THEN i ELSE t.num]
    BY DEF AddMapping
<1> HIDE DEF i
<1>4. i <= t.num + 1
  <2>1. t.num \in Nat /\ i \in Nat /\ i <= MaxMappings /\ MaxMappings \in Nat
    BY <1>2, Fields, MappingsAssumption DEF Entries
  <2>2. t.num + 1 <= MaxMappings => t.num + 1 \in Reusable(t)
    <3>1. t.num + 1 <= MaxMappings => t.num + 1 \in Entries /\ t.num + 1 > t.num
        BY <2>1 DEF Entries
    <3>2. QED BY <3>1 DEF WellKept, Reusable
  <2>3. QED BY <1>2, <2>1, <2>2 DEF IsFirst
<1>5. QED BY <1>2, <1>3, <1>4 DEF IsFirst

LEMMA AddKeepsTable ==
    ASSUME NEW t \in Tables, NEW a \in Addresses, WellKept(t), HasRoom(t, a),
           \A i \in Entries : t.address[i] = a => t.client_index[i] = NoSlot
    PROVE  LET u == AddMapping(t, a) IN
           /\ u \in Tables /\ WellKept(u)
           /\ u.client_index = t.client_index
           /\ t.num <= u.num
           /\ \A i \in Entries : t.address[i] # NoAddress /\ t.client_index[i] # NoSlot =>
                  u.address[i] = t.address[i]
<1>1. CASE HasMapping(t, a)
  <2>1. AddMapping(t, a) = t
    BY <1>1 DEF AddMapping
  <2>2. t.num \in Int
    BY Fields
  <2>3. QED BY <2>1, <2>2
<1>2. CASE ~HasMapping(t, a)
  <2> DEFINE u == AddMapping(t, a)
  <2>1. PICK i \in Reusable(t) :
            /\ \A j \in Reusable(t) : i <= j
            /\ i <= t.num + 1
            /\ u = [t EXCEPT !.address[i] = a,
                             !.expired = t.expired \ {i},
                             !.num = IF i > t.num THEN i ELSE t.num]
    BY <1>2, Added
  <2>2. i \in Entries /\ i \in Nat /\ i <= MaxMappings /\ t.num \in 0 .. MaxMappings
        /\ MaxMappings \in Nat /\ Entries \subseteq Nat
    BY Fields, MappingsAssumption DEF Reusable, Entries
  <2>3. /\ u \in Tables
        /\ u.address = [t.address EXCEPT ![i] = a]
        /\ u.client_index = t.client_index
        /\ u.expired = t.expired \ {i}
        /\ u.num = IF i > t.num THEN i ELSE t.num
    <3> DEFINE n == IF i > t.num THEN i ELSE t.num
    <3>1. n \in 0 .. MaxMappings
        BY <2>2
    <3>2. [t.address EXCEPT ![i] = a] \in [Entries -> Addresses \cup {NoAddress}]
        BY <2>2, Fields
    <3>3. t.expired \ {i} \subseteq Entries
        BY Fields
    <3> HIDE DEF n
    <3>4. u = [address |-> [t.address EXCEPT ![i] = a], client_index |-> t.client_index,
               expired |-> t.expired \ {i}, num |-> n]
        BY <2>1 DEF Tables, n
    <3>5. u \in Tables
        BY <3>1, <3>2, <3>3, <3>4, Fields DEF Tables
    <3>6. QED BY <3>4, <3>5 DEF n
  <2> HIDE DEF u
  <2>4. /\ u.address[i] = a
        /\ \A j \in Entries : j # i => u.address[j] = t.address[j]
    BY <2>2, <2>3, Fields
  <2>5. ASSUME NEW j \in Entries, j > u.num PROVE u.address[j] = NoAddress
    <3>1. j > t.num /\ j # i
        BY <2>2, <2>3, <2>5
    <3>2. QED BY <2>4, <3>1 DEF WellKept
  <2>6. ASSUME NEW j \in Entries, t.address[j] = a
        PROVE  j \in t.expired /\ t.client_index[j] = NoSlot /\ i <= j
    <3>1. j <= t.num
        BY <2>2, <2>6, MappingsAssumption DEF WellKept
    <3>2. j \in t.expired
        BY <1>2, <2>2, <2>6, <3>1 DEF HasMapping, Live, Used, Entries
    <3>3. QED BY <2>1, <2>6, <3>2 DEF Reusable, Unneeded
  <2>7. ASSUME NEW j \in Entries, NEW k \in Entries, j < k, u.address[j] = u.address[k],
               u.address[j] # NoAddress
        PROVE  k \in u.expired /\ u.client_index[k] = NoSlot
    <3>1. CASE k = i
        <4>1. t.address[j] = a /\ j < i
            BY <2>2, <2>4, <2>7, <3>1
        <4>2. QED BY <2>2, <2>6, <4>1
    <3>2. CASE j = i /\ k # i
        <4>1. t.address[k] = a
            BY <2>4, <2>7, <3>2
        <4>2. QED BY <2>3, <2>6, <3>2, <4>1
    <3>3. CASE j # i /\ k # i
        BY <2>3, <2>4, <2>7, <3>3 DEF WellKept
    <3>4. QED BY <3>1, <3>2, <3>3
  <2>8. \A j \in Entries : t.address[j] # NoAddress /\ t.client_index[j] # NoSlot => j # i
    BY <2>1 DEF Reusable, Unneeded
  <2>9. t.num <= u.num
    BY <2>2, <2>3
  <2>10. QED BY <2>3, <2>4, <2>5, <2>7, <2>8, <2>9 DEF WellKept, u
<1>3. QED BY <1>1, <1>2

\* The last entry below i that somebody needs exists.
LEMMA LastNeededIs ==
    ASSUME NEW t \in Tables, NEW i \in Entries
    PROVE  LET n == LastNeeded(t, i) IN
           n \in 0 .. i - 1 /\ \A j \in n + 1 .. i - 1 : Unneeded(t, j)
<1> DEFINE After(n) == \A j \in n + 1 .. i - 1 : Unneeded(t, j)
           N == {n \in 0 .. i - 1 : After(n)}
<1>1. i \in Nat /\ i >= 1
    BY MappingsAssumption DEF Entries
<1>2. i - 1 \in N /\ N \subseteq Nat
    BY <1>1
<1>3. PICK n \in N : \A k \in N : n <= k
  <2> HIDE DEF N
  <2> QED BY <1>2, LeastNatural
<1>4. n \in 0 .. i - 1 /\ After(n)
    BY <1>3
<1>5. n # 0 => ~Unneeded(t, n)
  <2> SUFFICES ASSUME n # 0, Unneeded(t, n) PROVE FALSE
    OBVIOUS
  <2>1. n - 1 \in 0 .. i - 1 /\ (n - 1) + 1 = n
    BY <1>1, <1>4
  <2>2. After(n - 1)
    BY <1>1, <1>4, <2>1
  <2>3. QED BY <1>3, <2>1, <2>2
<1>6. QED BY <1>4, <1>5 DEF LastNeeded

\* The first entry of an address is removed, which is nobody's: of the others those that
\* are somebody's stay.
LEMMA RemoveKeepsTable ==
    ASSUME NEW t \in Tables, NEW a \in Addresses, WellKept(t),
           NEW i \in Used(t), IsFirst(i, Matching(t, a)), t.client_index[i] = NoSlot
    PROVE  LET u == RemoveMapping(t, a) IN
           /\ u \in Tables /\ WellKept(u)
           /\ u.client_index = t.client_index
           /\ \A j \in Used(t) : t.client_index[j] # NoSlot =>
                  j \in Used(u) /\ u.address[j] = t.address[j]
<1> DEFINE first == CHOOSE j \in Matching(t, a) : IsFirst(j, Matching(t, a))
           n == IF i = t.num THEN LastNeeded(t, i) ELSE t.num
           u == RemoveMapping(t, a)
           cleared == [j \in Entries |-> IF j = i \/ (j > n /\ j <= i)
                                         THEN NoAddress ELSE t.address[j]]
<1>1. t.num \in 0 .. MaxMappings /\ MaxMappings \in Nat
    BY Fields, MappingsAssumption
<1>2. i \in Entries /\ i \in Nat /\ i <= t.num /\ Used(t) \subseteq Entries /\ Entries \subseteq Nat
    BY <1>1 DEF Used, Entries
<1>3. first = i
  <2>1. Matching(t, a) \subseteq Nat
    BY <1>2 DEF Matching
  <2>2. \A j \in Matching(t, a) : IsFirst(j, Matching(t, a)) => j = i
    BY <2>1 DEF IsFirst
  <2>3. QED BY <2>2 DEF IsFirst
<1>4. Matching(t, a) # {}
    BY DEF IsFirst
<1>5. u = [t EXCEPT !.address = cleared, !.expired = t.expired \cup {i}, !.num = n]
  <2>1. LET nn == IF first = t.num THEN LastNeeded(t, first) ELSE t.num IN
        u = [t EXCEPT !.address = [j \in Entries |-> IF j = first \/ (j > nn /\ j <= first)
                                                     THEN NoAddress ELSE t.address[j]],
                      !.expired = t.expired \cup {first},
                      !.num = nn]
    BY <1>4 DEF RemoveMapping
  <2> HIDE DEF first
  <2>2. QED BY <1>3, <2>1
<1>6. n \in 0 .. MaxMappings /\ n <= t.num /\ (i = t.num => n < i) /\ (i # t.num => n = t.num)
  <2>1. LastNeeded(t, i) \in 0 .. i - 1
    BY <1>2, LastNeededIs
  <2>2. QED BY <1>1, <1>2, <2>1
<1>7. \A j \in Used(t) : t.client_index[j] # NoSlot => j <= n /\ j # i
  <2> SUFFICES ASSUME NEW j \in Used(t), t.client_index[j] # NoSlot, j > n, j # i PROVE FALSE
    BY <1>1, <1>2, <1>6
  <2>1. i = t.num /\ n = LastNeeded(t, i)
    BY <1>1, <1>6 DEF Used
  <2>2. j \in n + 1 .. i - 1
    BY <1>1, <1>2, <1>6, <2>1 DEF Used
  <2>3. Unneeded(t, j)
    BY <1>2, <2>1, <2>2, LastNeededIs
  <2>4. QED BY <2>3 DEF Unneeded
<1> HIDE DEF first, n
<1>8. cleared \in [Entries -> Addresses \cup {NoAddress}]
    BY Fields
<1> HIDE DEF u
<1>9. u = [address |-> cleared, client_index |-> t.client_index,
           expired |-> t.expired \cup {i}, num |-> n]
  <2> HIDE DEF cleared
  <2> QED BY <1>5 DEF Tables
<1>10. u \in Tables
  <2> HIDE DEF cleared
  <2> QED BY <1>2, <1>6, <1>8, <1>9, Fields DEF Tables
<1>11. /\ u.client_index = t.client_index /\ u.expired = t.expired \cup {i} /\ u.num = n
       /\ \A j \in Entries : u.address[j] = IF j = i \/ (j > n /\ j <= i)
                                            THEN NoAddress ELSE t.address[j]
    BY <1>9
<1>12. ASSUME NEW j \in Entries, j > u.num PROVE u.address[j] = NoAddress
  <2>1. CASE j <= i
    BY <1>11, <1>12, <2>1
  <2>2. CASE ~(j <= i)
    <3>1. j > t.num
        BY <1>1, <1>2, <1>6, <1>11, <1>12, <2>2
    <3>2. QED BY <1>11, <2>2, <3>1 DEF WellKept
  <2>3. QED BY <2>1, <2>2
<1>13. ASSUME NEW j \in Entries, NEW k \in Entries, j < k, u.address[j] = u.address[k],
              u.address[j] # NoAddress
       PROVE  k \in u.expired /\ u.client_index[k] = NoSlot
    BY <1>11, <1>13 DEF WellKept
<1>14. WellKept(u)
    BY <1>12, <1>13 DEF WellKept
<1>15. ASSUME NEW j \in Used(t), t.client_index[j] # NoSlot
       PROVE  j \in Used(u) /\ u.address[j] = t.address[j]
  <2>1. j <= n /\ j # i /\ j \in Entries /\ j \in Nat /\ j >= 1
    BY <1>1, <1>2, <1>7, <1>15 DEF Used
  <2>2. QED BY <1>6, <1>11, <2>1 DEF Used
<1>16. QED BY <1>10, <1>11, <1>14, <1>15 DEF u

\* An entry that is a slot's, or that is the first of its address, may be owned and
\* touched; any may be disowned and expire.
LEMMA OwnKeepsTable ==
    ASSUME NEW t \in Tables, WellKept(t), NEW i \in Entries, NEW s \in Slots,
           \A j \in Entries : t.address[j] = t.address[i] => i <= j
    PROVE  LET u == Own(t, i, s) IN
           /\ u \in Tables /\ WellKept(u)
           /\ u.address = t.address /\ u.num = t.num
           /\ u.client_index = [t.client_index EXCEPT ![i] = s]
<1> DEFINE u == Own(t, i, s)
           c == [t.client_index EXCEPT ![i] = s]
<1>1. c \in [Entries -> Slots \cup {NoSlot}]
    BY Fields
<1>2. u = [address |-> t.address, client_index |-> c, expired |-> t.expired \ {i}, num |-> t.num]
  <2>1. u = [t EXCEPT !.client_index = c, !.expired = t.expired \ {i}]
    BY DEF Own
  <2> HIDE DEF u, c
  <2>2. QED BY <2>1 DEF Tables
<1>3. \A j \in Entries : j # i => c[j] = t.client_index[j]
    BY Fields
<1> HIDE DEF u, c
<1>4. u \in Tables
    BY <1>1, <1>2, Fields DEF Tables
<1>5. \A j, k \in Entries : j < k /\ t.address[j] = t.address[k] => k # i
    BY MappingsAssumption DEF Entries
<1>6. WellKept(u)
    BY <1>2, <1>3, <1>5 DEF WellKept
<1>7. QED BY <1>2, <1>4, <1>6 DEF u, c

LEMMA TouchKeepsTable ==
    ASSUME NEW t \in Tables, WellKept(t), NEW i \in Entries,
           \A j \in Entries : t.address[j] = t.address[i] => i <= j
    PROVE  LET u == Touch(t, i) IN
           /\ u \in Tables /\ WellKept(u)
           /\ u.address = t.address /\ u.num = t.num /\ u.client_index = t.client_index
<1> DEFINE u == Touch(t, i)
<1>2. u = [address |-> t.address, client_index |-> t.client_index,
           expired |-> t.expired \ {i}, num |-> t.num]
    BY DEF Touch, Tables
<1> HIDE DEF u
<1>4. u \in Tables
    BY <1>2, Fields DEF Tables
<1>5. \A j, k \in Entries : j < k /\ t.address[j] = t.address[k] => k # i
    BY MappingsAssumption DEF Entries
<1>6. WellKept(u)
    BY <1>2, <1>5 DEF WellKept
<1>7. QED BY <1>2, <1>4, <1>6 DEF u

LEMMA DisownKeepsTable ==
    ASSUME NEW t \in Tables, WellKept(t), NEW i \in Entries
    PROVE  LET u == Disown(t, i) IN
           /\ u \in Tables /\ WellKept(u)
           /\ u.address = t.address /\ u.num = t.num
           /\ u.client_index = [t.client_index EXCEPT ![i] = NoSlot]
<1> DEFINE u == Disown(t, i)
           c == [t.client_index EXCEPT ![i] = NoSlot]
<1>1. c \in [Entries -> Slots \cup {NoSlot}]
    BY Fields
<1>2. u = [address |-> t.address, client_index |-> c, expired |-> t.expired, num |-> t.num]
    BY DEF Disown, Tables
<1>3. \A j \in Entries : c[j] = IF j = i THEN NoSlot ELSE t.client_index[j]
    BY Fields
<1> HIDE DEF u, c
<1>4. u \in Tables
    BY <1>1, <1>2, Fields DEF Tables
<1>6. WellKept(u)
    BY <1>2, <1>3 DEF WellKept
<1>7. QED BY <1>2, <1>4, <1>6 DEF u, c

LEMMA ExpireKeepsTable ==
    ASSUME NEW t \in Tables, WellKept(t), NEW i \in Entries
    PROVE  LET u == ExpireEntry(t, i) IN
           /\ u \in Tables /\ WellKept(u)
           /\ u.address = t.address /\ u.num = t.num /\ u.client_index = t.client_index
<1> DEFINE u == ExpireEntry(t, i)
<1>2. u = [address |-> t.address, client_index |-> t.client_index,
           expired |-> t.expired \cup {i}, num |-> t.num]
    BY DEF ExpireEntry, Tables
<1> HIDE DEF u
<1>4. u \in Tables
    BY <1>2, Fields DEF Tables
<1>6. WellKept(u)
    BY <1>2 DEF WellKept
<1>7. QED BY <1>2, <1>4, <1>6 DEF u

LEMMA EmptyIsKept == EmptyTable \in Tables /\ WellKept(EmptyTable)
BY MappingsAssumption DEF EmptyTable, Tables, WellKept

-----------------------------------------------------------------------------
(* Slots and their entries.                                                 *)

\* The entry of a slot that is in use is the slot's and has its client's address; an
\* entry that is a slot's is the entry of that slot; a free slot has none.
SlotsOwn(cl, index, t) ==
    /\ \A s \in Slots : cl[s] # None =>
           /\ index[s] \in Used(t)
           /\ t.client_index[index[s]] = s
           /\ t.address[index[s]] = cl[s]
    /\ \A i \in Entries : t.client_index[i] # NoSlot => index[t.client_index[i]] = i
    /\ \A s \in Slots : cl[s] = None => index[s] = NoEntry

SlotsTyped(cl, index) ==
    /\ cl \in [Slots -> Attempts \cup {None}]
    /\ index \in [Slots -> Entries \cup {NoEntry}]

\* The parts of a state the table is about.
TableInv(cl, index, t) ==
    SlotsTyped(cl, index) /\ t \in Tables /\ WellKept(t) /\ SlotsOwn(cl, index, t)

LEMMA UsedEntries == ASSUME NEW t \in Tables PROVE Used(t) \subseteq Entries
BY Fields, MappingsAssumption DEF Used, Entries

LEMMA NotAnEntry == NoEntry \notin Entries
BY MappingsAssumption DEF NoEntry, Entries

\* An entry that is somebody's is the first of its address.
LEMMA OwnedIsFirst ==
    ASSUME NEW t \in Tables, WellKept(t), NEW i \in Entries,
           t.client_index[i] # NoSlot, t.address[i] # NoAddress
    PROVE  \A j \in Entries : t.address[j] = t.address[i] => i <= j
<1> SUFFICES ASSUME NEW j \in Entries, t.address[j] = t.address[i], j < i PROVE FALSE
    BY MappingsAssumption DEF Entries
<1> QED BY DEF WellKept

\* The entry of a slot that is in use.
LEMMA SlotsEntry ==
    ASSUME NEW cl, NEW index, NEW t, TableInv(cl, index, t), NEW s \in Slots, cl[s] # None
    PROVE  LET i == index[s] IN
           /\ i \in Entries /\ i \in Used(t)
           /\ t.client_index[i] = s /\ t.address[i] = cl[s]
           /\ cl[s] \in Addresses /\ cl[s] # NoAddress
           /\ \A j \in Entries : t.address[j] = t.address[i] => i <= j
<1>1. index[s] \in Used(t) /\ t.client_index[index[s]] = s /\ t.address[index[s]] = cl[s]
    BY DEF TableInv, SlotsOwn
<1>2. index[s] \in Entries
    BY <1>1, UsedEntries DEF TableInv
<1>3. cl[s] \in Addresses /\ cl[s] # NoAddress
    BY HandshakeAssumption DEF TableInv, SlotsTyped
<1>4. t.client_index[index[s]] # NoSlot
    BY <1>1, MappingsAssumption
<1>5. QED BY <1>1, <1>2, <1>3, <1>4, OwnedIsFirst DEF TableInv

\* An address nobody is connected from has no entry that is somebody's.
LEMMA NobodysEntry ==
    ASSUME NEW cl, NEW index, NEW t, TableInv(cl, index, t), NEW a \in Attempts,
           \A s \in Slots : cl[s] # a
    PROVE  \A i \in Entries : t.address[i] = a => t.client_index[i] = NoSlot
<1> SUFFICES ASSUME NEW i \in Entries, t.address[i] = a, t.client_index[i] # NoSlot PROVE FALSE
    OBVIOUS
<1> DEFINE s == t.client_index[i]
<1>1. s \in Slots /\ index[s] = i
    BY Fields DEF TableInv, SlotsOwn
<1>2. cl[s] # None
    BY <1>1, NotAnEntry DEF TableInv, SlotsOwn
<1>3. t.address[i] = cl[s]
    BY <1>1, <1>2 DEF TableInv, SlotsOwn
<1>4. QED BY <1>1, <1>3

\* A request puts an address in the table.
LEMMA AddKeepsSlots ==
    ASSUME NEW cl, NEW index, NEW t, TableInv(cl, index, t), NEW a \in Attempts,
           \A s \in Slots : cl[s] # a, HasRoom(t, a)
    PROVE  TableInv(cl, index, AddMapping(t, a))
<1> DEFINE u == AddMapping(t, a)
<1>1. a \in Addresses /\ t \in Tables /\ WellKept(t)
    BY HandshakeAssumption DEF TableInv
<1>2. /\ u \in Tables /\ WellKept(u) /\ u.client_index = t.client_index /\ t.num <= u.num
      /\ \A i \in Entries : t.address[i] # NoAddress /\ t.client_index[i] # NoSlot =>
             u.address[i] = t.address[i]
    BY <1>1, NobodysEntry, AddKeepsTable
<1>3. Used(t) \subseteq Used(u)
  <2>1. t.num \in Int /\ u.num \in Int
    BY <1>1, <1>2, Fields
  <2> HIDE DEF u
  <2>2. QED BY <1>2, <2>1 DEF Used
<1> HIDE DEF u
<1>4. ASSUME NEW s \in Slots, cl[s] # None
      PROVE  index[s] \in Used(u) /\ u.client_index[index[s]] = s /\ u.address[index[s]] = cl[s]
  <2>1. s # NoSlot
    BY MappingsAssumption
  <2>2. QED BY <1>2, <1>3, <1>4, <2>1, SlotsEntry
<1>5. QED BY <1>2, <1>4 DEF TableInv, SlotsOwn, u

\* A slot that was free gets the entry that is found for the address of its client.
LEMMA OwnKeepsSlots ==
    ASSUME NEW cl, NEW index, NEW t, TableInv(cl, index, t), NEW a \in Attempts,
           \A s \in Slots : cl[s] # a, HasMapping(t, a), NEW s \in Slots, cl[s] = None
    PROVE  LET i == FindMapping(t, a) IN
           /\ i \in Entries
           /\ TableInv([cl EXCEPT ![s] = a], [index EXCEPT ![s] = i], Own(t, i, s))
<1> DEFINE i == FindMapping(t, a)
           u == Own(t, i, s)
           new == [cl EXCEPT ![s] = a]
           own == [index EXCEPT ![s] = i]
<1>1. a \in Addresses /\ a # NoAddress /\ t \in Tables /\ WellKept(t) /\ s # NoSlot /\ a # None
    BY HandshakeAssumption, MappingsAssumption DEF TableInv
<1>2. /\ i \in Used(t) /\ i \in Entries /\ t.address[i] = a
      /\ \A j \in Entries : t.address[j] = a => i <= j
    BY <1>1, Found
<1>3. t.client_index[i] = NoSlot
    BY <1>2, NobodysEntry
<1> HIDE DEF i
<1>4. /\ u \in Tables /\ WellKept(u) /\ u.address = t.address /\ u.num = t.num
      /\ u.client_index = [t.client_index EXCEPT ![i] = s]
    BY <1>1, <1>2, OwnKeepsTable
<1>5. /\ SlotsTyped(new, own)
      /\ \A r \in Slots : /\ new[r] = IF r = s THEN a ELSE cl[r]
                          /\ own[r] = IF r = s THEN i ELSE index[r]
    BY <1>2 DEF TableInv, SlotsTyped
<1>6. \A j \in Entries : u.client_index[j] = IF j = i THEN s ELSE t.client_index[j]
    BY <1>1, <1>4, Fields
<1>7. Used(u) = Used(t)
    BY <1>4 DEF Used
<1> HIDE DEF u, new, own
<1>8. ASSUME NEW r \in Slots, new[r] # None
      PROVE  own[r] \in Used(u) /\ u.client_index[own[r]] = r /\ u.address[own[r]] = new[r]
  <2>1. CASE r = s
    BY <1>2, <1>4, <1>5, <1>6, <1>7, <2>1
  <2>2. CASE r # s
    <3>1. cl[r] # None
        BY <1>5, <1>8, <2>2
    <3>2. /\ index[r] \in Entries /\ index[r] \in Used(t)
          /\ t.client_index[index[r]] = r /\ t.address[index[r]] = cl[r]
        BY <3>1, SlotsEntry
    <3>3. index[r] # i
        BY <1>3, <3>2, MappingsAssumption
    <3>4. QED BY <1>4, <1>5, <1>6, <1>7, <2>2, <3>2, <3>3
  <2>3. QED BY <2>1, <2>2
<1>9. ASSUME NEW j \in Entries, u.client_index[j] # NoSlot PROVE own[u.client_index[j]] = j
  <2>1. CASE j = i
    BY <1>5, <1>6, <2>1
  <2>2. CASE j # i
    <3>1. t.client_index[j] \in Slots /\ index[t.client_index[j]] = j
        BY <1>1, <1>6, <1>9, <2>2, Fields DEF TableInv, SlotsOwn
    <3>2. t.client_index[j] # s
        BY <3>1, NotAnEntry DEF TableInv, SlotsOwn
    <3>3. QED BY <1>5, <1>6, <2>2, <3>1, <3>2
  <2>3. QED BY <2>1, <2>2
<1>10. \A r \in Slots : new[r] = None => own[r] = NoEntry
    BY <1>1, <1>5 DEF TableInv, SlotsOwn
<1>11. TableInv(new, own, u)
    BY <1>4, <1>5, <1>8, <1>9, <1>10 DEF TableInv, SlotsOwn
<1>12. QED BY <1>2, <1>11 DEF i, u, new, own

\* A slot is freed: its entry is disowned, and removed for the client's address.
LEMMA FreeKeepsSlots ==
    ASSUME NEW cl, NEW index, NEW t, TableInv(cl, index, t), NEW s \in Slots, cl[s] # None
    PROVE  TableInv([cl EXCEPT ![s] = None], [index EXCEPT ![s] = NoEntry],
                    RemoveMapping(Disown(t, index[s]), cl[s]))
<1> DEFINE i == index[s]
           a == cl[s]
           d == Disown(t, i)
           u == RemoveMapping(d, a)
           new == [cl EXCEPT ![s] = None]
           own == [index EXCEPT ![s] = NoEntry]
<1>1. /\ i \in Entries /\ i \in Used(t)
      /\ t.client_index[i] = s /\ t.address[i] = a /\ a \in Addresses
      /\ \A j \in Entries : t.address[j] = a => i <= j
    BY SlotsEntry
<1>2. /\ d \in Tables /\ WellKept(d) /\ d.address = t.address /\ d.num = t.num
      /\ d.client_index = [t.client_index EXCEPT ![i] = NoSlot]
    BY <1>1, DisownKeepsTable DEF TableInv
<1>3. /\ \A j \in Entries : d.client_index[j] = IF j = i THEN NoSlot ELSE t.client_index[j]
      /\ Used(d) = Used(t) /\ Used(t) \subseteq Entries
    BY <1>1, <1>2, Fields, UsedEntries DEF TableInv, Used
<1> HIDE DEF d
<1>4. IsFirst(i, Matching(d, a))
    BY <1>1, <1>2, <1>3 DEF IsFirst, Matching
<1>5. d.client_index[i] = NoSlot /\ i \in Used(d)
    BY <1>1, <1>3
<1>6. /\ u \in Tables /\ WellKept(u) /\ u.client_index = d.client_index
      /\ \A j \in Used(d) : d.client_index[j] # NoSlot =>
             j \in Used(u) /\ u.address[j] = d.address[j]
  <2> HIDE DEF a, i
  <2>1. QED BY <1>1, <1>2, <1>4, <1>5, RemoveKeepsTable
<1>7. /\ SlotsTyped(new, own)
      /\ \A r \in Slots : /\ new[r] = IF r = s THEN None ELSE cl[r]
                          /\ own[r] = IF r = s THEN NoEntry ELSE index[r]
    BY DEF TableInv, SlotsTyped
<1> HIDE DEF u, new, own
<1>8. ASSUME NEW r \in Slots, new[r] # None
      PROVE  own[r] \in Used(u) /\ u.client_index[own[r]] = r /\ u.address[own[r]] = new[r]
  <2>1. r # s /\ cl[r] # None /\ own[r] = index[r] /\ new[r] = cl[r]
    BY <1>7, <1>8
  <2>2. /\ index[r] \in Entries /\ index[r] \in Used(t)
        /\ t.client_index[index[r]] = r /\ t.address[index[r]] = cl[r]
    BY <2>1, SlotsEntry
  <2>3. index[r] # i /\ r # NoSlot
    BY <1>1, <2>1, <2>2, MappingsAssumption
  <2>4. d.client_index[index[r]] = r /\ index[r] \in Used(d)
    BY <1>3, <2>2, <2>3
  <2>5. QED BY <1>2, <1>6, <2>1, <2>2, <2>3, <2>4
<1>9. ASSUME NEW j \in Entries, u.client_index[j] # NoSlot PROVE own[u.client_index[j]] = j
  <2>1. j # i /\ u.client_index[j] = t.client_index[j]
    BY <1>3, <1>6, <1>9
  <2>2. t.client_index[j] \in Slots /\ index[t.client_index[j]] = j
    BY <1>9, <2>1, Fields DEF TableInv, SlotsOwn
  <2>3. t.client_index[j] # s
    BY <2>1, <2>2
  <2>4. QED BY <1>7, <2>1, <2>2, <2>3
<1>10. \A r \in Slots : new[r] = None => own[r] = NoEntry
    BY <1>7 DEF TableInv, SlotsOwn
<1>11. TableInv(new, own, u)
    BY <1>6, <1>7, <1>8, <1>9, <1>10 DEF TableInv, SlotsOwn
<1>12. QED BY <1>11 DEF u, new, own, d

\* Of a table only what has expired changes.
LEMMA SameKeepsSlots ==
    ASSUME NEW cl, NEW index, NEW t, TableInv(cl, index, t), NEW u \in Tables, WellKept(u),
           u.address = t.address, u.num = t.num, u.client_index = t.client_index
    PROVE  TableInv(cl, index, u)
<1>1. Used(u) = Used(t)
    BY DEF Used
<1>2. SlotsOwn(cl, index, u)
    BY <1>1 DEF TableInv, SlotsOwn
<1>3. QED BY <1>2 DEF TableInv

-----------------------------------------------------------------------------
(* The slots of the server.                                                 *)

SlotsInv ==
    /\ setting \in Settings
    /\ TableInv(client, encryption_index, mappings)
    /\ packet_queue \in [Slots -> SUBSET Attempts]
    /\ QueueIsOwn
    /\ restarts \in Servers

\* netcode_server_connect_client keeps them ...
LEMMA ConnectKeepsSlots ==
    ASSUME SlotsInv, NEW a \in Attempts, ~IsClient(a), HasMapping(mappings, a),
           NEW s \in Slots, client[s] = None, NEW flying,
           ConnectClient(s, a, FindMapping(mappings, a), flying)
    PROVE  SlotsInv'
<1>1. TableInv(client, encryption_index, mappings)'
    BY OwnKeepsSlots DEF SlotsInv, ConnectClient, IsClient
<1>2. packet_queue[s] = {}
    BY HandshakeAssumption DEF SlotsInv, QueueIsOwn, Attempts, None
<1>3. \A r \in Slots : r # s => client'[r] = client[r]
    BY DEF SlotsInv, TableInv, SlotsTyped, ConnectClient
<1>4. QueueIsOwn' /\ UNCHANGED <<packet_queue, setting, restarts>>
    BY <1>2, <1>3 DEF SlotsInv, QueueIsOwn, ConnectClient
<1>5. QED BY <1>1, <1>4 DEF SlotsInv

\* ... and so does netcode_server_disconnect_client_internal.
LEMMA DisconnectKeepsSlots ==
    ASSUME SlotsInv, NEW s \in Slots, client[s] # None, DisconnectClient(s)
    PROVE  SlotsInv'
<1>1. TableInv(client, encryption_index, mappings)'
    BY FreeKeepsSlots DEF SlotsInv, DisconnectClient
<1>2. packet_queue' \in [Slots -> SUBSET Attempts]
    BY DEF SlotsInv, DisconnectClient
<1>3. \A r \in Slots : /\ r # s => client'[r] = client[r] /\ packet_queue'[r] = packet_queue[r]
                       /\ r = s => packet_queue'[r] = {}
    BY DEF SlotsInv, TableInv, SlotsTyped, DisconnectClient
<1>4. QueueIsOwn'
    BY <1>3 DEF SlotsInv, QueueIsOwn
<1>5. QED BY <1>1, <1>2, <1>4 DEF SlotsInv, DisconnectClient

\* Steps that leave the slots and the table alone.
LEMMA SlotsKept == ASSUME SlotsInv, UNCHANGED slotVars PROVE SlotsInv'
BY DEF SlotsInv, slotVars, QueueIsOwn, TableInv, SlotsTyped, SlotsOwn

LEMMA ServerKeepsSlots ==
    ASSUME SlotsInv,
           \/ \E a \in Attempts :
                  ProcessRequest(a) \/ ProcessResponse(a) \/ ProcessPayload(a) \/ ProcessDisconnect(a)
           \/ \E s \in Slots : SlotStep(s)
           \/ Restart
           \/ \E i \in Entries : Expire(i)
    PROVE  SlotsInv'
<1>1. ASSUME NEW a \in Attempts, ProcessRequest(a) PROVE SlotsInv'
  <2>1. UNCHANGED <<setting, client, encryption_index, packet_queue, restarts>>
    BY <1>1 DEF ProcessRequest
  <2>2. CASE UNCHANGED mappings
    BY <2>1, <2>2, SlotsKept DEF slotVars
  <2>3. CASE ~IsClient(a) /\ HasRoom(mappings, a) /\ mappings' = AddMapping(mappings, a)
    <3>1. TableInv(client, encryption_index, mappings')
        BY <2>3, AddKeepsSlots DEF SlotsInv, IsClient
    <3>2. QED BY <2>1, <3>1 DEF SlotsInv, QueueIsOwn
  <2>4. QED BY <1>1, <2>2, <2>3 DEF ProcessRequest
<1>2. ASSUME NEW a \in Attempts, ProcessResponse(a) PROVE SlotsInv'
  <2>1. CASE UNCHANGED slotVars
    BY <2>1, SlotsKept
  <2>2. CASE ~UNCHANGED slotVars
    <3>1. ~IsClient(a) /\ HasMapping(mappings, a)
        BY <1>2, <2>2 DEF ProcessResponse
    <3>2. PICK e \in Servers, s \in Slots :
              /\ IsFreeSlot(s)
              /\ ConnectClient(s, a, FindMapping(mappings, a), packets \ {Response(a, e)})
        BY <1>2, <2>2 DEF ProcessResponse
    <3>3. client[s] = None
        BY <3>2 DEF IsFreeSlot, IsFirst
    <3>4. QED BY <3>1, <3>2, <3>3, ConnectKeepsSlots
  <2>3. QED BY <2>1, <2>2
<1>3. ASSUME NEW a \in Attempts, ProcessPayload(a) PROVE SlotsInv'
  <2>1. packet_queue' \in [Slots -> SUBSET Attempts] /\ QueueIsOwn'
    BY <1>3 DEF SlotsInv, QueueIsOwn, ProcessPayload
  <2>2. QED BY <1>3, <2>1 DEF SlotsInv, ProcessPayload
<1>4. ASSUME NEW a \in Attempts, ProcessDisconnect(a) PROVE SlotsInv'
  <2>1. CASE UNCHANGED slotVars
    BY <2>1, SlotsKept
  <2>2. CASE ~UNCHANGED slotVars
    <3>1. PICK s \in Slots : client[s] = a /\ DisconnectClient(s)
        BY <1>4, <2>2 DEF ProcessDisconnect
    <3>2. client[s] # None
        BY <3>1 DEF Attempts, None
    <3>3. QED BY <3>1, <3>2, DisconnectKeepsSlots
  <2>3. QED BY <2>1, <2>2
<1>5. ASSUME NEW s \in Slots, ReadPackets(s) PROVE SlotsInv'
  <2>1. packet_queue' \in [Slots -> SUBSET Attempts] /\ QueueIsOwn'
    BY <1>5 DEF SlotsInv, QueueIsOwn, ReadPackets
  <2>2. QED BY <1>5, <2>1 DEF SlotsInv, ReadPackets
<1>6. ASSUME NEW s \in Slots, SendKeepAlive(s) PROVE SlotsInv'
  <2>1. UNCHANGED <<setting, client, encryption_index, packet_queue, restarts>>
        /\ client[s] # None /\ mappings' = Touch(mappings, encryption_index[s])
    BY <1>6 DEF SendKeepAlive
  <2>2. TableInv(client, encryption_index, mappings')
    BY <2>1, SlotsEntry, TouchKeepsTable, SameKeepsSlots DEF SlotsInv, TableInv
  <2>3. QED BY <2>1, <2>2 DEF SlotsInv, QueueIsOwn
<1>7. ASSUME NEW s \in Slots, TimeOutClient(s) \/ ExpelClient(s) PROVE SlotsInv'
    BY <1>7, DisconnectKeepsSlots DEF TimeOutClient, ExpelClient
<1>8. ASSUME Restart PROVE SlotsInv'
  <2>1. /\ client' = [s \in Slots |-> None] /\ encryption_index' = [s \in Slots |-> NoEntry]
        /\ packet_queue' = [s \in Slots |-> {}] /\ mappings' = EmptyTable
        /\ restarts' = restarts + 1 /\ restarts < setting.restarts /\ setting' = setting
    BY <1>8 DEF Restart
  <2>2. SlotsOwn(client', encryption_index', mappings') /\ SlotsTyped(client', encryption_index')
    BY <2>1 DEF SlotsOwn, SlotsTyped, EmptyTable
  <2>3. restarts' \in Servers
    BY <2>1, HandshakeAssumption DEF SlotsInv, Servers
  <2>4. packet_queue' \in [Slots -> SUBSET Attempts] /\ QueueIsOwn'
    BY <2>1 DEF QueueIsOwn
  <2>5. QED BY <2>1, <2>2, <2>3, <2>4, EmptyIsKept DEF SlotsInv, TableInv
<1>9. ASSUME NEW i \in Entries, Expire(i) PROVE SlotsInv'
  <2>1. UNCHANGED <<setting, client, encryption_index, packet_queue, restarts>>
        /\ mappings' = ExpireEntry(mappings, i)
    BY <1>9 DEF Expire
  <2>2. TableInv(client, encryption_index, mappings')
    BY <2>1, ExpireKeepsTable, SameKeepsSlots DEF SlotsInv, TableInv
  <2>3. QED BY <2>1, <2>2 DEF SlotsInv, QueueIsOwn
<1>10. QED BY <1>1, <1>2, <1>3, <1>4, <1>5, <1>6, <1>7, <1>8, <1>9 DEF SlotStep

-----------------------------------------------------------------------------
(* Packets.                                                                 *)

LEMMA SentIs ==
    ASSUME NEW P, NEW m
    PROVE  /\ Sent(P, m) = P \/ Sent(P, m) = P \cup {m}
           /\ \A S : P \subseteq S /\ m \in S => Sent(P, m) \subseteq S
BY DEF Sent

LEMMA AreOfPackets ==
    /\ \A a \in Attempts :
           /\ Request(a) \in Packets /\ Payload(a) \in Packets
           /\ Disconnect(a) \in Packets /\ Disconnected(a) \in Packets /\ Denied(a) \in Packets
    /\ \A a \in Attempts, e \in Servers : Response(a, e) \in Packets /\ Challenge(a, e) \in Packets
    /\ \A a \in Attempts, s \in Slots : KeepAlive(a, s) \in Packets
BY DEF Packets

\* The socket of an attempt is closed: what is under way stays a part of what was.
LEMMA HeardIs == ASSUME NEW P, NEW a PROVE Heard(P, a) \subseteq P
BY DEF Heard

-----------------------------------------------------------------------------
(* The clients.                                                             *)

\* Attempts are numbered in order, each is one player's, and a player has one while its
\* client is not disconnected.
ClientsInv ==
    /\ state \in [Players -> {"disconnected", "sending request", "sending response", "connected"}]
    /\ attempt \in [Players -> Attempts \cup {None}]
    /\ challenge \in [Players -> Servers]
    /\ should_disconnect \in [Players -> BOOLEAN]
    /\ attempts \in 0 .. MaxAttempts
    /\ \A p \in Players : attempt[p] <= attempts
    /\ \A p \in Players : state[p] = "disconnected" <=> attempt[p] = None
    /\ \A p, q \in Players : attempt[p] = attempt[q] /\ attempt[p] # None => p = q

LEMMA Bounds ==
    /\ MaxAttempts \in Nat
    /\ \A x \in Settings : x.attempts \in 0 .. MaxAttempts
<1>1. MaxAttempts \in Nat
    BY HandshakeAssumption
<1>2. ASSUME NEW x \in Settings PROVE x.attempts \in 0 .. MaxAttempts
  <2>1. x \in [max_clients : Nat, attempts : 0 .. MaxAttempts, restarts : 0 .. MaxRestarts]
    BY <1>2, HandshakeAssumption
  <2>2. QED BY <2>1
<1>3. QED BY <1>1, <1>2

\* What is a number in it.
LEMMA Numbers ==
    ASSUME ClientsInv
    PROVE  /\ attempts \in Nat /\ attempts <= MaxAttempts
           /\ \A p \in Players : attempt[p] \in Nat /\ attempt[p] <= attempts
<1>1. attempts \in 0 .. MaxAttempts /\ \A p \in Players : attempt[p] <= attempts
    BY DEF ClientsInv
<1>2. \A p \in Players : attempt[p] \in Attempts \cup {None}
    BY DEF ClientsInv
<1>3. Attempts \cup {None} \subseteq Nat
    BY Bounds DEF Attempts, None
<1>4. QED BY <1>1, <1>2, <1>3, Bounds

LEMMA ClientsKept == ASSUME ClientsInv, UNCHANGED clientVars PROVE ClientsInv'
BY DEF ClientsInv, clientVars

LEMMA HasAttempt ==
    ASSUME ClientsInv, NEW p \in Players, state[p] # "disconnected"
    PROVE  attempt[p] \in Attempts /\ attempt[p] # None
BY DEF ClientsInv

LEMMA EndKeepsClients ==
    ASSUME ClientsInv, NEW p \in Players, NEW flying, EndAttempt(p, flying)
    PROVE  ClientsInv' /\ packets' \subseteq flying
<1>1. /\ state' = [state EXCEPT ![p] = "disconnected"]
      /\ attempt' = [attempt EXCEPT ![p] = None]
      /\ challenge' = [challenge EXCEPT ![p] = 0]
      /\ should_disconnect' = [should_disconnect EXCEPT ![p] = FALSE]
      /\ attempts' = attempts
    BY DEF EndAttempt
<1>2. packets' \subseteq flying
    BY HeardIs DEF EndAttempt
<1>3. 0 \in Servers
    BY HandshakeAssumption DEF Servers
<1>4. /\ state' \in [Players -> {"disconnected", "sending request", "sending response", "connected"}]
      /\ attempt' \in [Players -> Attempts \cup {None}]
      /\ challenge' \in [Players -> Servers]
      /\ should_disconnect' \in [Players -> BOOLEAN]
      /\ attempts' \in 0 .. MaxAttempts
    BY <1>1, <1>3 DEF ClientsInv
<1>5. \A q \in Players : /\ attempt'[q] = IF q = p THEN None ELSE attempt[q]
                         /\ state'[q] = IF q = p THEN "disconnected" ELSE state[q]
    BY <1>1 DEF ClientsInv
<1>6. \A q \in Players : attempt'[q] <= attempts'
  <2>1. 0 <= attempts /\ \A q \in Players : attempt[q] <= attempts
    BY Numbers
  <2>2. QED BY <1>1, <1>5, <2>1 DEF None
<1>7. \A q \in Players : state'[q] = "disconnected" <=> attempt'[q] = None
    BY <1>5 DEF ClientsInv
<1>8. \A q, r \in Players : attempt'[q] = attempt'[r] /\ attempt'[q] # None => q = r
    BY <1>5 DEF ClientsInv
<1>9. QED BY <1>2, <1>4, <1>6, <1>7, <1>8 DEF ClientsInv

LEMMA ConnectKeepsClients ==
    ASSUME ClientsInv, setting \in Settings, NEW p \in Players, Connect(p)
    PROVE  ClientsInv'
<1> DEFINE next == attempts + 1
<1>1. /\ state' = [state EXCEPT ![p] = "sending request"]
      /\ attempt' = [attempt EXCEPT ![p] = next]
      /\ attempts' = next /\ attempts < setting.attempts
      /\ UNCHANGED <<challenge, should_disconnect>>
    BY DEF Connect
<1>2. next \in Nat /\ next \in Attempts /\ next \in 0 .. MaxAttempts /\ next # None /\ attempts < next
      /\ \A q \in Players : attempt[q] < next
  <2>1. attempts < setting.attempts /\ setting.attempts \in 0 .. MaxAttempts
    BY <1>1, Bounds
  <2>2. QED BY <2>1, Bounds, Numbers DEF Attempts, None
<1>3. \A q \in Players : attempt[q] # next /\ attempt[q] <= next
    BY <1>2, Numbers
<1> HIDE DEF next
<1>4. /\ state' \in [Players -> {"disconnected", "sending request", "sending response", "connected"}]
      /\ attempt' \in [Players -> Attempts \cup {None}]
      /\ challenge' \in [Players -> Servers]
      /\ should_disconnect' \in [Players -> BOOLEAN]
      /\ attempts' \in 0 .. MaxAttempts
    BY <1>1, <1>2 DEF ClientsInv
<1>5. \A q \in Players : /\ attempt'[q] = IF q = p THEN next ELSE attempt[q]
                         /\ state'[q] = IF q = p THEN "sending request" ELSE state[q]
    BY <1>1 DEF ClientsInv
<1>6. \A q \in Players : attempt'[q] <= attempts'
  <2>1. next <= next
    BY <1>2
  <2>2. QED BY <1>1, <1>3, <1>5, <2>1
<1>7. \A q \in Players : state'[q] = "disconnected" <=> attempt'[q] = None
    BY <1>2, <1>5 DEF ClientsInv
<1>8. \A q, r \in Players : attempt'[q] = attempt'[r] /\ attempt'[q] # None => q = r
    BY <1>3, <1>5 DEF ClientsInv
<1>9. QED BY <1>4, <1>6, <1>7, <1>8 DEF ClientsInv

\* Steps of a client that change no attempt.
LEMMA StateKeepsClients ==
    ASSUME ClientsInv, NEW p \in Players, NEW x, NEW c, NEW d,
           x \in {"sending request", "sending response", "connected"}, state[p] # "disconnected",
           c \in Servers, d \in BOOLEAN,
           state' = [state EXCEPT ![p] = x], challenge' = [challenge EXCEPT ![p] = c],
           should_disconnect' = [should_disconnect EXCEPT ![p] = d],
           UNCHANGED <<attempt, attempts>>
    PROVE  ClientsInv'
BY DEF ClientsInv

LEMMA ClientKeeps ==
    ASSUME ClientsInv, setting \in Settings, packets \subseteq Packets,
           NEW p \in Players, ClientStep(p)
    PROVE  ClientsInv' /\ packets' \subseteq Packets
<1> DEFINE a == attempt[p]
<1>1. CASE Connect(p)
    BY <1>1, ConnectKeepsClients DEF Connect
<1>2. CASE Quit(p)
  <2>1. Disconnect(a) \in Packets
    BY <1>2, HasAttempt, AreOfPackets DEF Quit
  <2>2. Sent(packets, Disconnect(a)) \subseteq Packets
    BY <2>1, SentIs
  <2>3. QED BY <1>2, <2>2, EndKeepsClients DEF Quit
<1>3. CASE SendRequest(p) \/ SendResponse(p) \/ SendPayload(p)
  <2>1. state[p] # "disconnected"
    BY <1>3 DEF SendRequest, SendResponse, SendPayload
  <2>2. PICK m \in {Request(a), Response(a, challenge[p]), Payload(a)} : packets' = Sent(packets, m)
    BY <1>3 DEF SendRequest, SendResponse, SendPayload, SendPacket
  <2>3. a \in Attempts /\ challenge[p] \in Servers
    BY <2>1, HasAttempt DEF ClientsInv
  <2>4. m \in Packets
    <3> HIDE DEF a
    <3> QED BY <2>2, <2>3, AreOfPackets
  <2>5. packets' \subseteq Packets
    BY <2>2, <2>4, SentIs
  <2>6. QED BY <1>3, <2>5, ClientsKept DEF SendRequest, SendResponse, SendPayload
<1>4. CASE ReceiveDenied(p)
  <2>1. ClientsInv'
    BY <1>4 DEF ReceiveDenied, ClientsInv, Connecting
  <2>2. QED BY <1>4, <2>1 DEF ReceiveDenied
<1>5. CASE ReceiveChallenge(p)
  <2>1. PICK e \in Servers :
            /\ packets' = packets \ {Challenge(a, e)}
            /\ IF state[p] = "sending request"
               THEN /\ state' = [state EXCEPT ![p] = "sending response"]
                    /\ challenge' = [challenge EXCEPT ![p] = e]
               ELSE UNCHANGED <<state, challenge>>
            /\ UNCHANGED <<attempt, should_disconnect, attempts>>
    BY <1>5 DEF ReceiveChallenge
  <2>2. ClientsInv'
    BY <2>1 DEF ClientsInv
  <2>3. QED BY <2>1, <2>2
<1>6. CASE ReceiveKeepAlive(p)
  <2>1. PICK s \in Slots :
            /\ packets' = packets \ {KeepAlive(a, s)}
            /\ state' = [state EXCEPT ![p] =
                            IF state[p] = "sending response" THEN "connected" ELSE state[p]]
            /\ UNCHANGED <<attempt, challenge, should_disconnect, attempts>>
    BY <1>6 DEF ReceiveKeepAlive
  <2>2. ClientsInv'
    BY <2>1 DEF ClientsInv
  <2>3. QED BY <2>1, <2>2
<1>7. CASE ReceiveDisconnect(p)
  <2>1. ClientsInv'
    BY <1>7 DEF ReceiveDisconnect, ClientsInv
  <2>2. QED BY <1>7, <2>1 DEF ReceiveDisconnect
<1>8. CASE Obey(p) \/ GiveUp(p) \/ TimeOut(p)
    BY <1>8, EndKeepsClients DEF Obey, GiveUp, TimeOut
<1>9. QED BY <1>1, <1>2, <1>3, <1>4, <1>5, <1>6, <1>7, <1>8 DEF ClientStep

-----------------------------------------------------------------------------

HandshakeInv == ClientsInv /\ SlotsInv /\ packets \subseteq Packets

LEMMA HandshakeInit == Init => HandshakeInv
<1> SUFFICES ASSUME Init PROVE HandshakeInv
    OBVIOUS
<1>1. 0 \in Servers /\ 0 \in 0 .. MaxAttempts /\ 0 <= 0
    BY HandshakeAssumption DEF Servers
<1>2. ClientsInv
    BY <1>1 DEF Init, ClientsInv, None
<1>3. SlotsOwn(client, encryption_index, mappings) /\ SlotsTyped(client, encryption_index)
    BY DEF Init, SlotsOwn, SlotsTyped, EmptyTable
<1>4. SlotsInv
    BY <1>1, <1>3, EmptyIsKept DEF Init, SlotsInv, TableInv, QueueIsOwn
<1>5. packets \subseteq Packets
    BY DEF Init
<1>6. QED BY <1>2, <1>4, <1>5 DEF HandshakeInv

LEMMA HandshakeStep == HandshakeInv /\ [Next]_vars => HandshakeInv'
<1> SUFFICES ASSUME HandshakeInv, [Next]_vars PROVE HandshakeInv'
    OBVIOUS
<1>1. CASE UNCHANGED vars
  <2>1. UNCHANGED clientVars /\ UNCHANGED slotVars /\ UNCHANGED packets
    BY <1>1 DEF vars
  <2>2. QED BY <2>1, ClientsKept, SlotsKept DEF HandshakeInv
<1>2. ASSUME NEW p \in Players, ClientStep(p) PROVE HandshakeInv'
  <2>1. UNCHANGED slotVars
    BY <1>2 DEF ClientStep, Connect, Quit, SendRequest, SendResponse, SendPayload, ReceiveDenied,
                ReceiveChallenge, ReceiveKeepAlive, ReceiveDisconnect, Obey, GiveUp, TimeOut
  <2>2. QED BY <1>2, <2>1, ClientKeeps, SlotsKept DEF HandshakeInv, SlotsInv
<1>3. ASSUME \/ \E a \in Attempts :
                    ProcessRequest(a) \/ ProcessResponse(a) \/ ProcessPayload(a) \/ ProcessDisconnect(a)
             \/ \E s \in Slots : SlotStep(s)
             \/ Restart
             \/ \E i \in Entries : Expire(i)
      PROVE  HandshakeInv'
  <2>1. SlotsInv'
    BY <1>3, ServerKeepsSlots DEF HandshakeInv
  <2>2. UNCHANGED clientVars
    BY <1>3 DEF ProcessRequest, ProcessResponse, ProcessPayload, ProcessDisconnect, SlotStep,
                ReadPackets, SendKeepAlive, TimeOutClient, ExpelClient, DisconnectClient,
                Restart, Expire
  <2>3. packets' \subseteq Packets
    <3>1. restarts \in Servers /\ packets \subseteq Packets
        BY DEF HandshakeInv, SlotsInv
    <3>2. \A s \in Slots : client[s] # None => client[s] \in Attempts
        BY DEF HandshakeInv, SlotsInv, TableInv, SlotsTyped
    <3>3. packets' \subseteq packets \/ \E m \in Packets : packets' \subseteq packets \cup {m}
      <4>1. ASSUME NEW a \in Attempts, ProcessRequest(a)
            PROVE  \E m \in Packets : packets' \subseteq packets \cup {m}
          <5> DEFINE left == packets \ {Request(a)}
          <5>1. packets' \in {left, Sent(left, Denied(a)), Sent(left, Challenge(a, restarts))}
              BY <4>1 DEF ProcessRequest
          <5> HIDE DEF left
          <5>2. \/ packets' \subseteq left \cup {Denied(a)}
                \/ packets' \subseteq left \cup {Challenge(a, restarts)}
              BY <5>1, SentIs
          <5>3. QED BY <3>1, <5>2, AreOfPackets DEF left
      <4>2. ASSUME NEW a \in Attempts, ProcessResponse(a)
            PROVE  \E m \in Packets : packets' \subseteq packets \cup {m}
          <5>1. PICK e \in Servers :
                    \E m \in {Denied(a)} \cup {KeepAlive(a, s) : s \in Slots} :
                        packets' \in {packets \ {Response(a, e)}, Sent(packets \ {Response(a, e)}, m)}
              BY <4>2 DEF ProcessResponse, ConnectClient
          <5> DEFINE left == packets \ {Response(a, e)}
          <5>2. PICK m \in {Denied(a)} \cup {KeepAlive(a, s) : s \in Slots} :
                        packets' \in {left, Sent(left, m)}
              BY <5>1
          <5>3. m \in Packets
              BY <5>2, AreOfPackets
          <5> HIDE DEF left
          <5>4. packets' \subseteq left \cup {m}
              BY <5>2, SentIs
          <5>5. QED BY <5>3, <5>4 DEF left
      <4>3. ASSUME NEW s \in Slots, SlotStep(s)
            PROVE  packets' = packets \/ \E m \in Packets : packets' \subseteq packets \cup {m}
          <5>1. CASE UNCHANGED packets
              BY <5>1
          <5>2. CASE ~UNCHANGED packets
              <6>1. client[s] \in Attempts
                  BY <3>2, <4>3, <5>2
                     DEF SlotStep, ReadPackets, SendKeepAlive, TimeOutClient, ExpelClient
              <6>2. PICK m \in {KeepAlive(client[s], s), Disconnected(client[s])} :
                        packets' = Sent(packets, m)
                  BY <4>3, <5>2
                     DEF SlotStep, ReadPackets, SendKeepAlive, SendPacket, TimeOutClient,
                         ExpelClient
              <6>3. QED BY <6>1, <6>2, SentIs, AreOfPackets
          <5>3. QED BY <5>1, <5>2
      <4>4. ASSUME \/ \E a \in Attempts : ProcessPayload(a) \/ ProcessDisconnect(a)
                   \/ Restart
                   \/ \E i \in Entries : Expire(i)
            PROVE  packets' \subseteq packets
          BY <4>4 DEF ProcessPayload, ProcessDisconnect, Restart, Expire
      <4>5. QED BY <1>3, <4>1, <4>2, <4>3, <4>4
    <3>4. QED BY <3>1, <3>3
  <2>4. QED BY <2>1, <2>2, <2>3, ClientsKept DEF HandshakeInv
<1>4. ASSUME NEW m \in packets, Lose(m) PROVE HandshakeInv'
    BY <1>4, ClientsKept, SlotsKept DEF Lose, HandshakeInv
<1>5. QED BY <1>1, <1>2, <1>3, <1>4 DEF Next

\* The model keeps its types.
THEOREM HandshakeTypeOKAlways == Spec => []TypeOK
<1>1. HandshakeInv => TypeOK
    BY DEF HandshakeInv, ClientsInv, SlotsInv, TableInv, SlotsTyped, TypeOK
<1>2. QED BY HandshakeInit, HandshakeStep, <1>1, PTL DEF Spec

\* The assertions of netcode.c about the entry of a connected client hold for any numbers
\* of slots, mappings and clients, however entries expire and are used again.
THEOREM MappingsOwnedAlways == Spec => []MappingsOwned
<1>1. HandshakeInv => MappingsOwned
    BY DEF HandshakeInv, SlotsInv, TableInv, SlotsOwn, MappingsOwned
<1>2. QED BY HandshakeInit, HandshakeStep, <1>1, PTL DEF Spec

\* netcode_encryption_manager_remove_encryption_mapping, which looks for an address, finds
\* the entry of the client that is disconnected.
THEOREM OwnEntryIsFirstAlways == Spec => []OwnEntryIsFirst
<1>1. ASSUME HandshakeInv PROVE OwnEntryIsFirst
  <2> SUFFICES ASSUME NEW s \in Slots, client[s] # None
               PROVE  IsFirst(encryption_index[s], Matching(mappings, client[s]))
    BY DEF OwnEntryIsFirst
  <2>1. TableInv(client, encryption_index, mappings) /\ mappings \in Tables
    BY <1>1 DEF HandshakeInv, SlotsInv, TableInv
  <2>2. QED BY <2>1, SlotsEntry, UsedEntries DEF IsFirst, Matching
<1>2. QED BY HandshakeInit, HandshakeStep, <1>1, PTL DEF Spec

\* No payload packet of a client waits in the queue of a slot that is another's by now.
THEOREM QueueIsOwnAlways == Spec => []QueueIsOwn
<1>1. HandshakeInv => QueueIsOwn
    BY DEF HandshakeInv, SlotsInv
<1>2. QED BY HandshakeInit, HandshakeStep, <1>1, PTL DEF Spec

-----------------------------------------------------------------------------
(* The two ends of a session.                                               *)

\* What the keep-alive packets among P say.
Said(P) == {<<m.to, m.slot>> : m \in {k \in P : k.type = "KEEP_ALIVE"}}

\* The end of each player.
EndOf == [p \in Players |-> IF state[p] = "connected" THEN attempt[p] ELSE None]

LEMMA SaidLess == ASSUME NEW P, NEW Q, P \subseteq Q PROVE Said(P) \subseteq Said(Q)
BY DEF Said

LEMMA SaidOther ==
    ASSUME NEW P, NEW m, m.type # "KEEP_ALIVE"
    PROVE  Said(P \ {m}) = Said(P) /\ Said(Sent(P, m)) = Said(P)
<1>1. Said(P \ {m}) = Said(P) /\ Said(P \cup {m}) = Said(P)
    BY DEF Said
<1>2. QED BY <1>1, SentIs

LEMMA SaidAgain ==
    ASSUME NEW P, NEW a, NEW s
    PROVE  \/ Said(Sent(P, KeepAlive(a, s))) = Said(P)
           \/ Said(Sent(P, KeepAlive(a, s))) = Said(P) \cup {<<a, s>>}
<1>1. /\ KeepAlive(a, s).type = "KEEP_ALIVE"
      /\ KeepAlive(a, s).to = a /\ KeepAlive(a, s).slot = s
    BY DEF KeepAlive
<1>2. Said(P \cup {KeepAlive(a, s)}) = Said(P) \cup {<<a, s>>}
    BY <1>1 DEF Said
<1>3. QED BY <1>2, SentIs

\* The types of packets tell keep-alives from the rest.
LEMMA Types ==
    /\ \A a : /\ Request(a).type # "KEEP_ALIVE" /\ Payload(a).type # "KEEP_ALIVE"
              /\ Disconnect(a).type # "KEEP_ALIVE" /\ Disconnected(a).type # "KEEP_ALIVE"
              /\ Denied(a).type # "KEEP_ALIVE"
    /\ \A a, e : Response(a, e).type # "KEEP_ALIVE" /\ Challenge(a, e).type # "KEEP_ALIVE"
    /\ \A a, s : /\ KeepAlive(a, s).type = "KEEP_ALIVE"
                 /\ KeepAlive(a, s).to = a /\ KeepAlive(a, s).slot = s
BY DEF Request, Payload, Disconnect, Disconnected, Denied, Response, Challenge, KeepAlive

\* The steps of SessionEnds in terms of the model.
LEMMA Ended ==
    /\ EndOf = [p \in Players |-> IF state[p] = "connected" THEN attempt[p] ELSE None]
    /\ EndOf' = [p \in Players |-> IF state'[p] = "connected" THEN attempt'[p] ELSE None]
    /\ Said(packets) = {<<m.to, m.slot>> : m \in {k \in packets : k.type = "KEEP_ALIVE"}}
    /\ Said(packets') = {<<m.to, m.slot>> : m \in {k \in packets' : k.type = "KEEP_ALIVE"}}
BY DEF EndOf, Said

LEMMA Stutters ==
    ASSUME UNCHANGED client, UNCHANGED EndOf, Said(packets') = Said(packets)
    PROVE  UNCHANGED Ends!endsVars
BY Ended, Zenon DEF Ends!endsVars

LEMMA Forgets ==
    ASSUME Said(packets') \subseteq Said(packets), UNCHANGED client, UNCHANGED EndOf
    PROVE  Ends!Forget
BY Ended, Zenon DEF Ends!Forget

LEMMA Stops ==
    ASSUME client' = [s \in Slots |-> 0], UNCHANGED EndOf, Said(packets') = Said(packets)
    PROVE  Ends!Stop
BY Ended, Zenon DEF Ends!Stop

LEMMA Closes ==
    ASSUME NEW s \in Slots, client[s] # 0, client' = [client EXCEPT ![s] = 0],
           UNCHANGED EndOf, Said(packets') = Said(packets)
    PROVE  Ends!Close(s)
BY Ended, Zenon DEF Ends!Close

LEMMA Announces ==
    ASSUME NEW s \in Slots, client[s] # 0, UNCHANGED client, UNCHANGED EndOf,
           Said(packets') = Said(packets) \cup {<<client[s], s>>}
    PROVE  Ends!Announce(s)
BY Ended, Zenon DEF Ends!Announce

LEMMA Opens ==
    ASSUME NEW s \in Slots, NEW a \in Attempts,
           client[s] = 0, \A r \in Slots : r < s => client[r] # 0,
           \A r \in Slots : client[r] # a,
           client' = [client EXCEPT ![s] = a], UNCHANGED EndOf,
           Said(packets') \subseteq Said(packets) \cup {<<a, s>>}
    PROVE  Ends!Open(s, a)
BY Ended, Zenon DEF Ends!Open, Ends!FirstFree, Ends!HasSlot

LEMMA Joins ==
    ASSUME NEW p \in Players, NEW a \in Attempts,
           EndOf[p] = 0, \A q \in Players : EndOf[q] # a,
           \E s \in Slots : <<a, s>> \in Said(packets),
           EndOf' = [EndOf EXCEPT ![p] = a], UNCHANGED client,
           Said(packets') \subseteq Said(packets)
    PROVE  Ends!Join(p, a)
BY Ended, Zenon DEF Ends!Join

LEMMA Leaves ==
    ASSUME NEW p \in Players,
           EndOf[p] # 0, EndOf' = [EndOf EXCEPT ![p] = 0], UNCHANGED client,
           Said(packets') \subseteq Said(packets)
    PROVE  Ends!Leave(p)
BY Ended, Zenon DEF Ends!Leave

\* What a client does.
LEMMA ClientEnds ==
    ASSUME HandshakeInv, NEW p \in Players, ClientStep(p)
    PROVE  \/ UNCHANGED Ends!endsVars \/ Ends!Forget
           \/ \E a \in Attempts : Ends!Join(p, a)
           \/ Ends!Leave(p)
<1> DEFINE b == attempt[p]
<1>1. /\ state \in [Players -> {"disconnected", "sending request", "sending response", "connected"}]
      /\ attempt \in [Players -> Attempts \cup {None}]
      /\ \A q, r \in Players : attempt[q] = attempt[r] /\ attempt[q] # None => q = r
    BY DEF HandshakeInv, ClientsInv
<1>2. \A q \in Players : EndOf[q] = IF state[q] = "connected" THEN attempt[q] ELSE None
    BY DEF EndOf
<1>3. \A q \in Players : EndOf'[q] = IF state'[q] = "connected" THEN attempt'[q] ELSE None
    BY DEF EndOf
<1>4. UNCHANGED client
    BY DEF ClientStep, Connect, Quit, SendRequest, SendResponse, SendPayload, ReceiveDenied,
           ReceiveChallenge, ReceiveKeepAlive, ReceiveDisconnect, Obey, GiveUp, TimeOut, slotVars
<1>5. DOMAIN EndOf = Players /\ DOMAIN EndOf' = Players
      /\ EndOf = [q \in Players |-> EndOf[q]] /\ EndOf' = [q \in Players |-> EndOf'[q]]
    BY DEF EndOf
<1>6. ASSUME Connect(p) PROVE UNCHANGED Ends!endsVars
  <2>1. /\ state[p] # "connected" /\ state' = [state EXCEPT ![p] = "sending request"]
        /\ attempt' = [attempt EXCEPT ![p] = attempts + 1] /\ packets' = packets
    BY <1>6 DEF Connect
  <2>2. \A q \in Players : EndOf'[q] = EndOf[q]
    BY <1>1, <1>2, <1>3, <2>1
  <2>3. EndOf' = EndOf /\ Said(packets') = Said(packets)
    BY <1>5, <2>1, <2>2
  <2>4. QED BY <1>4, <2>3, Stutters
<1>7. ASSUME NEW flying, EndAttempt(p, flying), Said(flying) = Said(packets), state[p] # "disconnected"
      PROVE  Ends!Forget \/ Ends!Leave(p)
  <2>1. /\ state' = [state EXCEPT ![p] = "disconnected"]
        /\ attempt' = [attempt EXCEPT ![p] = None]
        /\ packets' = Heard(flying, b)
    BY <1>7 DEF EndAttempt
  <2>2. Said(packets') \subseteq Said(packets)
    BY <1>7, <2>1, HeardIs, SaidLess
  <2>3. \A q \in Players : EndOf'[q] = IF q = p THEN 0 ELSE EndOf[q]
    BY <1>1, <1>2, <1>3, <2>1 DEF None
  <2>4. CASE EndOf[p] = 0
    <3>1. EndOf' = EndOf
        BY <1>5, <2>3, <2>4
    <3>2. QED BY <1>4, <2>2, <3>1, Forgets
  <2>5. CASE EndOf[p] # 0
    <3>1. EndOf' = [EndOf EXCEPT ![p] = 0]
        BY <1>5, <2>3
    <3>2. QED BY <1>4, <2>2, <2>5, <3>1, Leaves
  <2>6. QED BY <2>4, <2>5
<1>8. ASSUME Quit(p) PROVE Ends!Forget \/ Ends!Leave(p)
  <2>1. Said(Sent(packets, Disconnect(b))) = Said(packets)
    BY SaidOther, Types
  <2>2. QED BY <1>7, <1>8, <2>1 DEF Quit
<1>9. ASSUME Obey(p) \/ GiveUp(p) \/ TimeOut(p) PROVE Ends!Forget \/ Ends!Leave(p)
  <2>1. CASE state[p] = "disconnected"
    <3>1. EndAttempt(p, packets)
        BY <1>9 DEF Obey, GiveUp, TimeOut
    <3>2. Said(packets') \subseteq Said(packets)
        BY <3>1, HeardIs, SaidLess DEF EndAttempt
    <3>3. \A q \in Players : EndOf'[q] = EndOf[q]
        BY <1>1, <1>2, <1>3, <2>1, <3>1 DEF EndAttempt
    <3>4. EndOf' = EndOf
        BY <1>5, <3>3
    <3>5. QED BY <1>4, <3>2, <3>4, Forgets
  <2>2. CASE state[p] # "disconnected"
    BY <1>7, <1>9, <2>2 DEF Obey, GiveUp, TimeOut
  <2>3. QED BY <2>1, <2>2
<1>10. ASSUME SendRequest(p) \/ SendResponse(p) \/ SendPayload(p) PROVE UNCHANGED Ends!endsVars
  <2>1. PICK m \in {Request(b), Response(b, challenge[p]), Payload(b)} : packets' = Sent(packets, m)
    BY <1>10 DEF SendRequest, SendResponse, SendPayload, SendPacket
  <2>2. m.type # "KEEP_ALIVE"
    BY <2>1, Types
  <2>3. Said(packets') = Said(packets)
    BY <2>1, <2>2, SaidOther
  <2>4. EndOf' = EndOf
    BY <1>10 DEF SendRequest, SendResponse, SendPayload, clientVars, EndOf
  <2>5. QED BY <1>4, <2>3, <2>4, Stutters
<1>11. ASSUME ReceiveDenied(p) \/ ReceiveChallenge(p) \/ ReceiveDisconnect(p) PROVE Ends!Forget
  <2>1. packets' \subseteq packets /\ attempt' = attempt
    BY <1>11 DEF ReceiveDenied, ReceiveChallenge, ReceiveDisconnect
  <2>2. state' = state \/ (state[p] = "sending request"
                           /\ state' = [state EXCEPT ![p] = "sending response"])
    BY <1>11 DEF ReceiveDenied, ReceiveChallenge, ReceiveDisconnect
  <2>3. \A q \in Players : EndOf'[q] = EndOf[q]
    BY <1>1, <1>2, <1>3, <2>1, <2>2
  <2>4. EndOf' = EndOf /\ Said(packets') \subseteq Said(packets)
    BY <1>5, <2>1, <2>3, SaidLess
  <2>5. QED BY <1>4, <2>4, Forgets
<1>12. ASSUME ReceiveKeepAlive(p)
       PROVE  Ends!Forget \/ \E a \in Attempts : Ends!Join(p, a)
  <2>1. PICK s \in Slots :
            /\ KeepAlive(b, s) \in packets
            /\ packets' \subseteq packets
            /\ state' = [state EXCEPT ![p] =
                            IF state[p] = "sending response" THEN "connected" ELSE state[p]]
            /\ attempt' = attempt
    BY <1>12 DEF ReceiveKeepAlive
  <2>2. Said(packets') \subseteq Said(packets)
    BY <2>1, SaidLess
  <2>3. CASE state[p] # "sending response"
    <3>1. \A q \in Players : EndOf'[q] = EndOf[q]
        BY <1>1, <1>2, <1>3, <2>1, <2>3
    <3>2. EndOf' = EndOf
        BY <1>5, <3>1
    <3>3. QED BY <1>4, <2>2, <3>2, Forgets
  <2>4. CASE state[p] = "sending response"
    <3>1. PICK a \in Attempts : a = attempt[p] /\ a # None
        BY <2>4, HasAttempt DEF HandshakeInv
    <3>2. EndOf[p] = 0
        BY <1>2, <2>4 DEF None
    <3>3. \A q \in Players : EndOf[q] # a
      <4> SUFFICES ASSUME NEW q \in Players, EndOf[q] = a PROVE FALSE
        OBVIOUS
      <4>1. attempt[q] = a /\ state[q] = "connected"
        BY <1>2, <3>1
      <4>2. q = p
        BY <1>1, <3>1, <4>1
      <4>3. QED BY <2>4, <4>1, <4>2
    <3>4. \A q \in Players : EndOf'[q] = IF q = p THEN a ELSE EndOf[q]
        BY <1>1, <1>2, <1>3, <2>1, <2>4, <3>1
    <3>5. EndOf' = [EndOf EXCEPT ![p] = a]
        BY <1>5, <3>4
    <3>6. <<a, s>> \in Said(packets)
      <4>1. KeepAlive(a, s).type = "KEEP_ALIVE" /\ KeepAlive(a, s).to = a /\ KeepAlive(a, s).slot = s
        BY Types
      <4>2. QED BY <2>1, <3>1, <4>1 DEF Said
    <3>7. Ends!Join(p, a)
        BY <1>4, <2>2, <3>2, <3>3, <3>5, <3>6, Joins
    <3>8. QED BY <3>7
  <2>5. QED BY <2>3, <2>4
<1>13. QED BY <1>6, <1>8, <1>9, <1>10, <1>11, <1>12 DEF ClientStep

\* The first of the free slots the server loops over is the first free slot.
LEMMA FreeIsFirst ==
    ASSUME setting \in Settings, NEW s \in Slots, IsFreeSlot(s)
    PROVE  client[s] = None /\ \A r \in Slots : r < s => client[r] # None
<1>1. s < setting.max_clients /\ client[s] = None
      /\ \A r \in Slots : r < setting.max_clients /\ client[r] = None => s <= r
    BY DEF IsFreeSlot, IsFirst, InUse
<1>2. setting.max_clients \in Nat
  <2>1. setting \in [max_clients : Nat, attempts : 0 .. MaxAttempts, restarts : 0 .. MaxRestarts]
    BY HandshakeAssumption
  <2>2. QED BY <2>1
<1>3. Slots \subseteq Nat
    BY HandshakeAssumption
<1>4. QED BY <1>1, <1>2, <1>3

\* What the server and the network do.
LEMMA ServerEnds ==
    ASSUME HandshakeInv,
           \/ \E a \in Attempts :
                  ProcessRequest(a) \/ ProcessResponse(a) \/ ProcessPayload(a) \/ ProcessDisconnect(a)
           \/ \E s \in Slots : SlotStep(s)
           \/ Restart
           \/ \E i \in Entries : Expire(i)
           \/ \E m \in packets : Lose(m)
    PROVE  \/ UNCHANGED Ends!endsVars \/ Ends!Forget \/ Ends!Stop
           \/ \E s \in Slots : (\E a \in Attempts : Ends!Open(s, a)) \/ Ends!Announce(s) \/ Ends!Close(s)
<1>1. UNCHANGED clientVars
    BY DEF ProcessRequest, ProcessResponse, ProcessPayload, ProcessDisconnect, SlotStep,
           ReadPackets, SendKeepAlive, TimeOutClient, ExpelClient, DisconnectClient, Restart,
           Expire, Lose
<1>2. EndOf' = EndOf
    BY <1>1 DEF EndOf, clientVars
<1>3. ASSUME NEW a \in Attempts, ProcessRequest(a) PROVE UNCHANGED Ends!endsVars
  <2> DEFINE left == packets \ {Request(a)}
  <2>1. packets' \in {left, Sent(left, Denied(a)), Sent(left, Challenge(a, restarts))}
        /\ client' = client
    BY <1>3 DEF ProcessRequest
  <2>2. Said(left) = Said(packets)
    BY SaidOther, Types
  <2> HIDE DEF left
  <2>3. Denied(a).type # "KEEP_ALIVE" /\ Challenge(a, restarts).type # "KEEP_ALIVE"
    BY Types
  <2>4. /\ Said(Sent(left, Denied(a))) = Said(left)
        /\ Said(Sent(left, Challenge(a, restarts))) = Said(left)
    BY <2>3, SaidOther
  <2>5. Said(packets') = Said(packets)
    BY <2>1, <2>2, <2>4
  <2>6. QED BY <1>2, <2>1, <2>5, Stutters
<1>4. ASSUME NEW a \in Attempts, ProcessResponse(a)
      PROVE  UNCHANGED Ends!endsVars \/ \E s \in Slots : Ends!Open(s, a)
  <2>1. PICK e \in Servers :
            LET left == packets \ {Response(a, e)} IN
            IF e # restarts \/ IsClient(a) \/ ~HasMapping(mappings, a)
            THEN packets' = left /\ UNCHANGED slotVars
            ELSE \/ Full /\ packets' = Sent(left, Denied(a)) /\ UNCHANGED slotVars
                 \/ \E s \in Slots :
                        /\ IsFreeSlot(s)
                        /\ ConnectClient(s, a, FindMapping(mappings, a), left)
    BY <1>4 DEF ProcessResponse
  <2> DEFINE left == packets \ {Response(a, e)}
  <2>2. Said(left) = Said(packets)
    <3>1. Response(a, e).type # "KEEP_ALIVE"
        BY Types
    <3>2. QED BY <3>1, SaidOther
  <2>3. CASE UNCHANGED slotVars /\ packets' \in {left, Sent(left, Denied(a))}
    <3>1. client' = client
        BY <2>3 DEF slotVars
    <3> HIDE DEF left
    <3>2. Denied(a).type # "KEEP_ALIVE"
        BY Types
    <3>3. Said(packets') = Said(packets)
        BY <2>2, <2>3, <3>2, SaidOther
    <3>4. QED BY <1>2, <3>1, <3>3, Stutters
  <2>4. ASSUME NEW s \in Slots, IsFreeSlot(s), ~IsClient(a),
               ConnectClient(s, a, FindMapping(mappings, a), left)
        PROVE  Ends!Open(s, a)
    <3>1. client' = [client EXCEPT ![s] = a] /\ packets' = Sent(left, KeepAlive(a, s))
        BY <2>4 DEF ConnectClient
    <3>2. client[s] = 0 /\ \A r \in Slots : r < s => client[r] # 0
        BY <2>4, FreeIsFirst DEF HandshakeInv, SlotsInv, None
    <3>3. \A r \in Slots : client[r] # a
        BY <2>4 DEF IsClient
    <3> HIDE DEF left
    <3>4. Said(packets') = Said(left) \/ Said(packets') = Said(left) \cup {<<a, s>>}
        BY <3>1, SaidAgain
    <3>5. Said(packets') \subseteq Said(packets) \cup {<<a, s>>}
        BY <2>2, <3>4
    <3>6. QED BY <1>2, <3>1, <3>2, <3>3, <3>5, Opens
  <2>5. QED BY <2>1, <2>3, <2>4
<1>5. ASSUME NEW s \in Slots, client[s] # None, DisconnectClient(s), Said(packets') = Said(packets)
      PROVE  Ends!Close(s)
    BY <1>2, <1>5, Closes DEF DisconnectClient, None
<1>6. ASSUME NEW a \in Attempts, ProcessDisconnect(a)
      PROVE  UNCHANGED Ends!endsVars \/ \E s \in Slots : Ends!Close(s)
  <2>1. packets' = packets \ {Disconnect(a)}
    BY <1>6 DEF ProcessDisconnect
  <2>2. Said(packets') = Said(packets)
    BY <2>1, SaidOther, Types
  <2>3. CASE UNCHANGED slotVars
    <3>1. client' = client
        BY <2>3 DEF slotVars
    <3>2. QED BY <1>2, <2>2, <3>1, Stutters
  <2>4. ASSUME NEW s \in Slots, client[s] = a, DisconnectClient(s) PROVE Ends!Close(s)
    <3>1. client[s] # None
        BY <2>4 DEF Attempts, None
    <3>2. QED BY <1>5, <2>2, <2>4, <3>1
  <2>5. QED BY <1>6, <2>3, <2>4 DEF ProcessDisconnect
<1>7. ASSUME NEW s \in Slots, SlotStep(s)
      PROVE  UNCHANGED Ends!endsVars \/ Ends!Announce(s) \/ Ends!Close(s)
  <2>1. CASE ReadPackets(s)
    BY <1>2, <2>1, Stutters DEF ReadPackets
  <2>2. CASE SendKeepAlive(s)
    <3>1. client[s] # 0 /\ client' = client /\ packets' = Sent(packets, KeepAlive(client[s], s))
        BY <2>2 DEF SendKeepAlive, SendPacket, None
    <3>2. Said(packets') = Said(packets) \/ Said(packets') = Said(packets) \cup {<<client[s], s>>}
        BY <3>1, SaidAgain
    <3>3. QED BY <1>2, <3>1, <3>2, Stutters, Announces
  <2>3. CASE TimeOutClient(s)
    BY <1>5, <2>3 DEF TimeOutClient
  <2>4. CASE ExpelClient(s)
    <3>1. Said(packets') = Said(packets)
        BY <2>4, SaidOther, Types DEF ExpelClient
    <3>2. QED BY <1>5, <2>4, <3>1 DEF ExpelClient
  <2>5. QED BY <1>7, <2>1, <2>2, <2>3, <2>4 DEF SlotStep
<1>8. ASSUME Restart PROVE Ends!Stop
  <2>1. client' = [s \in Slots |-> 0] /\ packets' = packets
    BY <1>8 DEF Restart, None
  <2>2. QED BY <1>2, <2>1, Stops
<1>9. ASSUME \E a \in Attempts : ProcessPayload(a) PROVE UNCHANGED Ends!endsVars
  <2>1. PICK a \in Attempts : packets' = packets \ {Payload(a)} /\ client' = client
    BY <1>9 DEF ProcessPayload
  <2>2. Said(packets') = Said(packets)
    BY <2>1, SaidOther, Types
  <2>3. QED BY <1>2, <2>1, <2>2, Stutters
<1>10. ASSUME \E i \in Entries : Expire(i) PROVE UNCHANGED Ends!endsVars
  <2>1. client' = client /\ packets' = packets
    BY <1>10 DEF Expire
  <2>2. QED BY <1>2, <2>1, Stutters
<1>11. ASSUME \E m \in packets : Lose(m) PROVE Ends!Forget
  <2>1. client' = client /\ packets' \subseteq packets
    BY <1>11 DEF Lose, slotVars
  <2>2. QED BY <1>2, <2>1, SaidLess, Forgets
<1>12. QED BY <1>3, <1>4, <1>6, <1>7, <1>8, <1>9, <1>10, <1>11

LEMMA EndsStep == HandshakeInv /\ [Next]_vars => [Ends!EndsNext]_(Ends!endsVars)
<1> SUFFICES ASSUME HandshakeInv, [Next]_vars PROVE [Ends!EndsNext]_(Ends!endsVars)
    OBVIOUS
<1>1. CASE UNCHANGED vars
  <2>1. UNCHANGED <<client, EndOf, Said(packets)>>
    BY <1>1 DEF vars, slotVars, clientVars, EndOf
  <2>2. QED BY <2>1, Stutters
<1>2. CASE Next
  <2>1. Ends!Attempts = Attempts
    BY DEF Ends!Attempts, Attempts
  <2>2. ASSUME NEW p \in Players, ClientStep(p) PROVE [Ends!EndsNext]_(Ends!endsVars)
    BY <2>1, <2>2, ClientEnds DEF Ends!EndsNext
  <2>3. CASE ~\E p \in Players : ClientStep(p)
    BY <1>2, <2>1, <2>3, ServerEnds DEF Next, Ends!EndsNext
  <2>4. QED BY <2>2, <2>3
<1>3. QED BY <1>1, <1>2

\* The safety of ImplementsSessionEnds: whatever is lost, late or repeated, however often
\* the server is started again, a slot is opened for an attempt that has none, and a
\* client joins after that.
THEOREM ImplementsSessionEndsSafety == Spec => Ends!EndsSpec
<1>1. Init => Ends!EndsInit
    BY DEF Init, Ends!EndsInit, None
<1>2. QED BY HandshakeInit, HandshakeStep, EndsStep, <1>1, PTL DEF Spec, Ends!EndsSpec
=============================================================================
