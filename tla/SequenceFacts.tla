---------------------------- MODULE SequenceFacts ----------------------------
(***************************************************************************)
(* Induction over the natural numbers, for sets instead of predicates, and  *)
(* what it says of the folds the models use.  An induction theorem with a   *)
(* predicate as its parameter cannot be instantiated by the provers; that   *)
(* every set of natural numbers has a least element needs no parameter.     *)
(* And what a queue of messages will have said once it is read.             *)
(***************************************************************************)
EXTENDS Integers, SequencesExt, SequenceTheorems, WellFoundedInduction, TLAPS

\* Every set of natural numbers has a least element.
LEMMA LeastNatural ==
    ASSUME NEW T, T \subseteq Nat, T # {}
    PROVE  \E m \in T : \A k \in T : m <= k
<1> DEFINE Less == {ss \in Nat \X Nat : ss[1] < ss[2]}
<1>1. IsWellFoundedOn(Less, Nat)
    BY NatLessThanWellFounded DEF OpToRel
<1>2. PICK m \in T : \A k \in T : ~(<<k, m>> \in Less)
    <2> HIDE DEF Less
    <2> QED BY <1>1, WFMin
<1>3. \A k \in T : ~(k < m)
    BY <1>2
<1>4. QED BY <1>3

\* Induction up to n over the set of those numbers something holds of.
LEMMA InductionUpTo ==
    ASSUME NEW n \in Nat, NEW T, 0 \in T,
           \A k \in Nat : k < n /\ k \in T => k + 1 \in T
    PROVE  \A k \in 0 .. n : k \in T
<1> DEFINE B == {k \in 0 .. n : k \notin T}
<1> SUFFICES ASSUME B # {} PROVE FALSE
    OBVIOUS
<1>1. B \subseteq Nat
    OBVIOUS
<1>2. PICK m \in B : \A k \in B : m <= k
    <2> HIDE DEF B
    <2> QED BY <1>1, LeastNatural
<1>3. m # 0 /\ m - 1 \in Nat /\ m - 1 < n /\ m - 1 \notin B
    BY <1>2
<1>4. QED BY <1>2, <1>3

-----------------------------------------------------------------------------
(* FlattenSeq: what it joins is what was in the parts.                      *)

\* The function FlattenSeq defines recursively.
Joined(seqs) == CHOOSE flatten : flatten = [i \in 1 .. Len(seqs) |->
    IF i = 1 THEN seqs[i] ELSE flatten[i - 1] \o seqs[i]]

LEMMA FlattenIsJoined ==
    ASSUME NEW seqs, Len(seqs) # 0
    PROVE  FlattenSeq(seqs) = Joined(seqs)[Len(seqs)]
BY DEF FlattenSeq, Joined

\* It exists: by induction over its domain.
LEMMA JoinedExists ==
    ASSUME NEW seqs, NEW n \in Nat
    PROVE  \E f : f = [i \in 1 .. n |-> IF i = 1 THEN seqs[i] ELSE f[i - 1] \o seqs[i]]
<1> DEFINE Joins(f, m) == f = [i \in 1 .. m |-> IF i = 1 THEN seqs[i] ELSE f[i - 1] \o seqs[i]]
           T == {m \in Nat : \E f : Joins(f, m)}
<1>1. 0 \in T
  <2>1. Joins([i \in 1 .. 0 |-> seqs[i]], 0)
    OBVIOUS
  <2>2. QED BY <2>1
<1>2. ASSUME NEW m \in Nat, m \in T PROVE m + 1 \in T
  <2>1. PICK f : Joins(f, m)
    BY <1>2
  <2> DEFINE next == IF m = 0 THEN seqs[1] ELSE f[m] \o seqs[m + 1]
             g == [i \in 1 .. m + 1 |-> IF i = m + 1 THEN next ELSE f[i]]
  <2>2. \A i \in 1 .. m + 1 : g[i] = IF i = 1 THEN seqs[i] ELSE g[i - 1] \o seqs[i]
    <3> TAKE i \in 1 .. m + 1
    <3>1. CASE i = m + 1
        <4>1. g[i] = next
            BY <3>1
        <4>2. CASE m = 0
            BY <3>1, <4>1, <4>2
        <4>3. CASE m # 0
            <5>1. m \in 1 .. m + 1 /\ i - 1 = m /\ g[m] = f[m] /\ i # 1
                BY <3>1, <4>3
            <5>2. QED BY <3>1, <4>1, <4>3, <5>1
        <4>4. QED BY <4>2, <4>3
    <3>2. CASE i # m + 1
        <4>1. i \in 1 .. m /\ g[i] = f[i]
            BY <3>2
        <4>2. f[i] = IF i = 1 THEN seqs[i] ELSE f[i - 1] \o seqs[i]
            BY <2>1, <4>1
        <4>3. i # 1 => i - 1 \in 1 .. m + 1 /\ g[i - 1] = f[i - 1]
            BY <4>1
        <4>4. QED BY <4>1, <4>2, <4>3
    <3>3. QED BY <3>1, <3>2
  <2>3. Joins(g, m + 1)
    BY <2>2
  <2>4. QED
    <3> HIDE DEF Joins, g
    <3> QED BY <2>3
<1>3. n \in T
  <2> HIDE DEF T
  <2> QED BY <1>1, <1>2, InductionUpTo
<1>4. QED BY <1>3

\* A sequence of sequences over S becomes a sequence over S.
LEMMA FlattenTyped ==
    ASSUME NEW S, NEW seqs, Len(seqs) \in Nat \ {0},
           \A i \in 1 .. Len(seqs) : seqs[i] \in Seq(S)
    PROVE  FlattenSeq(seqs) \in Seq(S)
<1> DEFINE n == Len(seqs)
           f == Joined(seqs)
           T == {k \in Nat : k \in 1 .. n => f[k] \in Seq(S)}
<1>1. f = [i \in 1 .. n |-> IF i = 1 THEN seqs[i] ELSE f[i - 1] \o seqs[i]]
    BY JoinedExists DEF Joined
<1> HIDE DEF f
<1>2. \A i \in 1 .. n : f[i] = IF i = 1 THEN seqs[i] ELSE f[i - 1] \o seqs[i]
    BY <1>1
<1>3. 0 \in T
    OBVIOUS
<1>4. ASSUME NEW k \in Nat, k < n, k \in T PROVE k + 1 \in T
  <2>1. k + 1 \in 1 .. n
    BY <1>4
  <2>2. CASE k = 0
    BY <1>2, <2>1, <2>2
  <2>3. CASE k # 0
    <3>1. f[k] \in Seq(S) /\ seqs[k + 1] \in Seq(S)
        BY <1>4, <2>1, <2>3
    <3>2. k + 1 # 1 /\ (k + 1) - 1 = k
        BY <2>3
    <3>3. f[k + 1] = f[k] \o seqs[k + 1]
        BY <1>2, <2>1, <3>2
    <3>4. f[k + 1] \in Seq(S)
        BY <3>1, <3>3
    <3>5. QED BY <3>4
  <2>4. QED BY <2>2, <2>3
<1>5. n \in T
  <2>1. n \in Nat
    OBVIOUS
  <2> HIDE DEF T, n
  <2>2. \A k \in 0 .. n : k \in T
    BY <1>3, <1>4, <2>1, InductionUpTo
  <2>3. QED BY <2>1, <2>2
<1>6. f[n] \in Seq(S)
    BY <1>5
<1>7. QED BY <1>6, FlattenIsJoined DEF f

\* No element of a part is left out.
LEMMA FlattenKeeps ==
    ASSUME NEW S, NEW seqs, Len(seqs) \in Nat \ {0},
           \A i \in 1 .. Len(seqs) : seqs[i] \in Seq(S),
           NEW part \in 1 .. Len(seqs)
    PROVE  Range(seqs[part]) \subseteq Range(FlattenSeq(seqs))
<1> DEFINE n == Len(seqs)
           f == Joined(seqs)
           T == {k \in Nat : k \in 1 .. n => f[k] \in Seq(S) /\ (k >= part => Range(seqs[part]) \subseteq Range(f[k]))}
<1>1. f = [i \in 1 .. n |-> IF i = 1 THEN seqs[i] ELSE f[i - 1] \o seqs[i]]
    BY JoinedExists DEF Joined
<1> HIDE DEF f
<1>2. \A i \in 1 .. n : f[i] = IF i = 1 THEN seqs[i] ELSE f[i - 1] \o seqs[i]
    BY <1>1
<1>3. 0 \in T
    OBVIOUS
<1>4. ASSUME NEW k \in Nat, k < n, k \in T PROVE k + 1 \in T
  <2>1. k + 1 \in 1 .. n
    BY <1>4
  <2>2. CASE k = 0
    <3>1. f[k + 1] = seqs[k + 1]
        BY <1>2, <2>1, <2>2
    <3>2. k + 1 >= part => k + 1 = part
        BY <2>2
    <3>3. f[k + 1] \in Seq(S) /\ (k + 1 >= part => Range(seqs[part]) \subseteq Range(f[k + 1]))
        BY <2>1, <3>1, <3>2
    <3>4. QED BY <3>3
  <2>3. CASE k # 0
    <3>1. f[k] \in Seq(S) /\ seqs[k + 1] \in Seq(S)
            /\ (k >= part => Range(seqs[part]) \subseteq Range(f[k]))
        BY <1>4, <2>1, <2>3
    <3>2. k + 1 # 1 /\ (k + 1) - 1 = k
        BY <2>3
    <3>3. f[k + 1] = f[k] \o seqs[k + 1]
        BY <1>2, <2>1, <3>2
    <3>4. f[k + 1] \in Seq(S)
        BY <3>1, <3>3
    <3>5. Range(f[k + 1]) = Range(f[k]) \cup Range(seqs[k + 1])
      <4> DEFINE a == f[k]
                 b == seqs[k + 1]
      <4>1. a \in Seq(S) /\ b \in Seq(S)
        BY <3>1
      <4> HIDE DEF a, b
      <4>2. Range(a \o b) = Range(a) \cup Range(b)
        BY <4>1, RangeConcatenation
      <4>3. QED BY <3>3, <4>2 DEF a, b
    <3>6. k + 1 >= part => k >= part \/ k + 1 = part
        OBVIOUS
    <3>7. QED BY <3>1, <3>4, <3>5, <3>6
  <2>4. QED BY <2>2, <2>3
<1>5. n \in T
  <2>1. n \in Nat
    OBVIOUS
  <2> HIDE DEF T, n
  <2>2. \A k \in 0 .. n : k \in T
    BY <1>3, <1>4, <2>1, InductionUpTo
  <2>3. QED BY <2>1, <2>2
<1>6. Range(seqs[part]) \subseteq Range(f[n])
    BY <1>5
<1>7. QED BY <1>6, FlattenIsJoined DEF f

-----------------------------------------------------------------------------
(* A queue of messages, of which those in K are about one thing: what its   *)
(* reader will have heard of the thing last.                                *)

\* Nothing is said of it.
Silent(queue, K) == \A i \in DOMAIN queue : queue[i] \notin K

\* The last that is said of it is in V.
LastIn(queue, K, V) ==
    \E i \in DOMAIN queue : queue[i] \in V /\ \A j \in DOMAIN queue : j > i => queue[j] \notin K

LEMMA EmptyIsSilent == ASSUME NEW K PROVE Silent(<<>>, K)
BY DEF Silent

\* The reader takes the first message.
LEMMA TakeFirst ==
    ASSUME NEW S, NEW queue \in Seq(S), queue # <<>>, NEW K, NEW V
    PROVE  /\ Silent(queue, K) => Head(queue) \notin K /\ Silent(Tail(queue), K)
           /\ LastIn(queue, K, V) => \/ LastIn(Tail(queue), K, V)
                                     \/ Head(queue) \in V /\ Silent(Tail(queue), K)
<1>1. /\ Head(queue) = queue[1]
      /\ Len(Tail(queue)) = Len(queue) - 1
      /\ Tail(queue) \in Seq(S)
      /\ \A i \in 1 .. Len(queue) - 1 : Tail(queue)[i] = queue[i + 1]
    OBVIOUS
<1>2. /\ 1 \in DOMAIN queue
      /\ DOMAIN Tail(queue) = 1 .. Len(queue) - 1
      /\ DOMAIN queue = 1 .. Len(queue)
      /\ Len(queue) \in Nat
    BY <1>1
<1>3. Silent(queue, K) => Head(queue) \notin K /\ Silent(Tail(queue), K)
    BY <1>1, <1>2 DEF Silent
<1>4. ASSUME LastIn(queue, K, V)
      PROVE  LastIn(Tail(queue), K, V) \/ (Head(queue) \in V /\ Silent(Tail(queue), K))
  <2>1. PICK i \in DOMAIN queue :
            queue[i] \in V /\ \A j \in DOMAIN queue : j > i => queue[j] \notin K
    BY <1>4 DEF LastIn
  <2>2. CASE i = 1
    BY <1>1, <1>2, <2>1, <2>2 DEF Silent
  <2>3. CASE i # 1
    <3>1. i - 1 \in DOMAIN Tail(queue) /\ Tail(queue)[i - 1] \in V
        BY <1>1, <1>2, <2>1, <2>3
    <3>2. \A j \in DOMAIN Tail(queue) : j > i - 1 => Tail(queue)[j] \notin K
        BY <1>1, <1>2, <2>1
    <3>3. QED BY <3>1, <3>2 DEF LastIn
  <2>4. QED BY <2>2, <2>3
<1>5. QED BY <1>3, <1>4

\* The writer adds some.
LEMMA AddMore ==
    ASSUME NEW S, NEW queue \in Seq(S), NEW more \in Seq(S), NEW K, NEW V
    PROVE  /\ Silent(queue, K) /\ Silent(more, K) => Silent(queue \o more, K)
           /\ LastIn(queue, K, V) /\ Silent(more, K) => LastIn(queue \o more, K, V)
           /\ LastIn(more, K, V) => LastIn(queue \o more, K, V)
<1> DEFINE q == queue \o more
           n == Len(queue)
<1>1. /\ n \in Nat /\ Len(more) \in Nat /\ DOMAIN q = 1 .. n + Len(more)
      /\ DOMAIN queue = 1 .. n /\ DOMAIN more = 1 .. Len(more)
      /\ \A i \in 1 .. n : q[i] = queue[i]
      /\ \A i \in 1 .. Len(more) : q[n + i] = more[i]
    BY ConcatProperties
<1>2. \A j \in DOMAIN q : j > n => j - n \in DOMAIN more /\ q[j] = more[j - n]
  <2> TAKE j \in DOMAIN q
  <2> HAVE j > n
  <2>1. j - n \in 1 .. Len(more) /\ n + (j - n) = j
    BY <1>1
  <2>2. QED BY <1>1, <2>1
<1> HIDE DEF q, n
<1>3. \A j \in DOMAIN q : j \in DOMAIN queue \/ j > n
    BY <1>1
<1>4. Silent(queue, K) /\ Silent(more, K) => Silent(q, K)
    BY <1>1, <1>2, <1>3 DEF Silent
<1>5. ASSUME LastIn(queue, K, V), Silent(more, K) PROVE LastIn(q, K, V)
  <2>1. PICK i \in DOMAIN queue :
            queue[i] \in V /\ \A j \in DOMAIN queue : j > i => queue[j] \notin K
    BY <1>5 DEF LastIn
  <2>2. i \in DOMAIN q /\ q[i] \in V
    BY <1>1, <2>1
  <2>3. \A j \in DOMAIN q : j > i => q[j] \notin K
    BY <1>1, <1>2, <1>3, <1>5, <2>1 DEF Silent
  <2>4. QED BY <2>2, <2>3 DEF LastIn
<1>6. ASSUME LastIn(more, K, V) PROVE LastIn(q, K, V)
  <2>1. PICK i \in DOMAIN more :
            more[i] \in V /\ \A j \in DOMAIN more : j > i => more[j] \notin K
    BY <1>6 DEF LastIn
  <2>2. n + i \in DOMAIN q /\ q[n + i] \in V
    BY <1>1, <2>1
  <2>3. \A j \in DOMAIN q : j > n + i => q[j] \notin K
    <3> TAKE j \in DOMAIN q
    <3> HAVE j > n + i
    <3>1. j > n /\ j - n > i
        BY <1>1, <2>1
    <3>2. QED BY <1>2, <2>1, <3>1
  <2>4. QED BY <2>2, <2>3 DEF LastIn
<1>7. QED BY <1>4, <1>5, <1>6 DEF q

\* Something is said of it, and nothing that is not in V.
LEMMA NothingElseSaid ==
    ASSUME NEW S, NEW queue \in Seq(S), NEW K, NEW V,
           \E i \in DOMAIN queue : queue[i] \in V,
           \A i \in DOMAIN queue : queue[i] \in K => queue[i] \in V
    PROVE  LastIn(queue, K, V)
<1> DEFINE n == Len(queue)
           B == {k \in 0 .. n : k # n /\ queue[n - k] \in V}
<1>1. n \in Nat /\ DOMAIN queue = 1 .. n
    OBVIOUS
<1>2. PICK i \in 1 .. n : queue[i] \in V
    BY <1>1
<1> HIDE DEF n
<1>3. B \subseteq Nat /\ B # {}
  <2>1. n - i \in 0 .. n /\ n - i # n /\ n - (n - i) = i
    BY <1>1
  <2>2. QED BY <1>2, <2>1
<1>4. PICK k \in B : \A j \in B : k <= j
  <2> HIDE DEF B
  <2>1. QED BY <1>3, LeastNatural
<1>5. n - k \in 1 .. n /\ queue[n - k] \in V
    BY <1>1, <1>4
<1>6. \A j \in 1 .. n : j > n - k => queue[j] \notin V
  <2> TAKE j \in 1 .. n
  <2> HAVE j > n - k
  <2>1. n - j \in 0 .. n /\ n - j # n /\ n - (n - j) = j /\ n - j < k
    BY <1>1, <1>4
  <2>2. n - j \notin B
    BY <1>4, <2>1
  <2>3. QED BY <2>1, <2>2
<1>7. QED BY <1>1, <1>5, <1>6 DEF LastIn
=============================================================================
