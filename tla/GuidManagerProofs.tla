-------------------------- MODULE GuidManagerProofs --------------------------
(***************************************************************************)
(* The allocator's invariants for any number of slots and of GUIDs.         *)
(* GuidInv is inductive as it stands: pushing the GUID of a slot onto the   *)
(* free stack keeps FreeOnce only because GuidsConserved says that it was   *)
(* not there, and GuidsConserved survives the push only because UniqueGuids *)
(* says that no other slot holds it.                                        *)
(***************************************************************************)
EXTENDS GuidManager, SequenceTheorems, TLAPS

MapTypeOK ==
    /\ availableGuids \in Seq(Guids)
    /\ clientGuidMap \in [Slots -> Guids \cup {NoGuid}]

DataTypeOK == guidData \in [Guids -> [Fields -> Values]]

GuidInv == MapTypeOK /\ FreeOnce /\ UniqueGuids /\ GuidsConserved

\* The stack after a pop: it loses exactly its top (GuidManager.cpp:31-32).
LEMMA PopLosesTop ==
    ASSUME NEW S, NEW stack \in Seq(S), stack # <<>>,
           \A i, j \in DOMAIN stack : stack[i] = stack[j] => i = j
    PROVE  LET top  == stack[Len(stack)]
               rest == SubSeq(stack, 1, Len(stack) - 1)
           IN  /\ top \in S
               /\ top \in Free(stack)
               /\ rest \in Seq(S)
               /\ \A i, j \in DOMAIN rest : rest[i] = rest[j] => i = j
               /\ Free(rest) = Free(stack) \ {top}
<1> DEFINE top == stack[Len(stack)]
           rest == SubSeq(stack, 1, Len(stack) - 1)
<1>1. Len(stack) \in Nat /\ Len(stack) > 0 /\ DOMAIN stack = 1 .. Len(stack)
  OBVIOUS
<1>2. rest \in Seq(S) /\ Len(rest) = Len(stack) - 1
  BY <1>1
<1>3. DOMAIN rest = 1 .. Len(stack) - 1
  BY <1>1, <1>2
<1>4. \A i \in DOMAIN rest : rest[i] = stack[i]
  BY <1>1, <1>3
<1>5. top \in S /\ top \in Free(stack)
  BY <1>1 DEF Free
<1>6. \A i, j \in DOMAIN rest : rest[i] = rest[j] => i = j
  BY <1>1, <1>3, <1>4
<1>7. \A i \in DOMAIN stack : i \in DOMAIN rest \/ i = Len(stack)
  BY <1>1, <1>3
<1>8. \A i \in DOMAIN rest : rest[i] # top /\ i \in DOMAIN stack
  BY <1>1, <1>3, <1>4
<1>9. Free(rest) \subseteq Free(stack) \ {top}
  BY <1>4, <1>8 DEF Free
<1>10. Free(stack) \ {top} \subseteq Free(rest)
  BY <1>4, <1>7 DEF Free
<1> QED
  BY <1>2, <1>5, <1>6, <1>9, <1>10

\* The stack after a push of something it did not hold (GuidManager.cpp:47).
LEMMA PushAddsOne ==
    ASSUME NEW S, NEW stack \in Seq(S), NEW g \in S, g \notin Free(stack),
           \A i, j \in DOMAIN stack : stack[i] = stack[j] => i = j
    PROVE  LET longer == Append(stack, g)
           IN  /\ longer \in Seq(S)
               /\ \A i, j \in DOMAIN longer : longer[i] = longer[j] => i = j
               /\ Free(longer) = Free(stack) \cup {g}
<1> DEFINE longer == Append(stack, g)
<1>1. Len(stack) \in Nat /\ DOMAIN stack = 1 .. Len(stack)
  OBVIOUS
<1>2. longer \in Seq(S) /\ DOMAIN longer = 1 .. Len(stack) + 1
  BY <1>1
<1>3. /\ \A i \in DOMAIN stack : longer[i] = stack[i]
      /\ longer[Len(stack) + 1] = g
  BY <1>1
<1>4. \A i \in DOMAIN longer : i \in DOMAIN stack \/ i = Len(stack) + 1
  BY <1>1, <1>2
<1>5. \A i \in DOMAIN stack : stack[i] # g
  BY DEF Free
<1>6. \A i, j \in DOMAIN longer : longer[i] = longer[j] => i = j
  BY <1>3, <1>4, <1>5
<1>7. Free(longer) = Free(stack) \cup {g}
  BY <1>1, <1>2, <1>3, <1>4 DEF Free
<1> QED
  BY <1>2, <1>6, <1>7

\* The invariant speaks of the allocator's variables only.
LEMMA StutterPreserves == GuidInv /\ UNCHANGED guidVars => GuidInv'
<1> SUFFICES ASSUME GuidInv, UNCHANGED guidVars PROVE GuidInv'
  OBVIOUS
<1>1. /\ availableGuids' = availableGuids
      /\ clientGuidMap' = clientGuidMap
  BY DEF guidVars
<1>2. MapTypeOK' /\ FreeOnce'
  BY <1>1 DEF GuidInv, MapTypeOK, FreeOnce
<1>3. UniqueGuids' /\ GuidsConserved'
  BY <1>1 DEF GuidInv, UniqueGuids, GuidsConserved, Free, Assigned
<1> QED
  BY <1>2, <1>3 DEF GuidInv

\* A client without a GUID takes the top of the stack, or nothing.
LEMMA AssignPreserves ==
    ASSUME GuidInv, NEW c \in Slots, AssignGuid(c)
    PROVE  GuidInv'
<1> USE DEF GuidInv
<1>1. CASE clientGuidMap[c] # NoGuid \/ availableGuids = <<>>
  BY <1>1 DEF AssignGuid, guidVars, MapTypeOK, FreeOnce, UniqueGuids, GuidsConserved,
              Free, Assigned
<1>2. CASE clientGuidMap[c] = NoGuid /\ availableGuids # <<>>
  <2> DEFINE top == availableGuids[Len(availableGuids)]
  <2>1. /\ clientGuidMap' = [clientGuidMap EXCEPT ![c] = top]
        /\ availableGuids' = SubSeq(availableGuids, 1, Len(availableGuids) - 1)
    BY <1>2 DEF AssignGuid, GuidFor, guidVars
  <2>2. availableGuids \in Seq(Guids) /\ clientGuidMap \in [Slots -> Guids \cup {NoGuid}]
    BY DEF MapTypeOK
  <2>3. /\ top \in Guids /\ top \in Free(availableGuids)
        /\ availableGuids' \in Seq(Guids)
        /\ \A i, j \in DOMAIN availableGuids' : availableGuids'[i] = availableGuids'[j] => i = j
        /\ Free(availableGuids') = Free(availableGuids) \ {top}
    BY <1>2, <2>1, <2>2, PopLosesTop DEF FreeOnce
  <2>4. top # NoGuid
    BY <2>3, GuidAssumption DEF Guids
  <2>5. \A d \in Slots : clientGuidMap[d] # top
    BY <2>3, <2>4 DEF GuidsConserved, Assigned
  <2>6. Assigned' = Assigned \cup {top}
    BY <1>2, <2>1, <2>2, <2>4 DEF Assigned
  <2>7. MapTypeOK'
    BY <2>1, <2>2, <2>3 DEF MapTypeOK
  <2>8. FreeOnce'
    BY <2>3 DEF FreeOnce
  <2>9. UniqueGuids'
    BY <2>1, <2>2, <2>5 DEF UniqueGuids
  <2>10. GuidsConserved'
    BY <2>3, <2>6 DEF GuidsConserved
  <2> QED
    BY <2>7, <2>8, <2>9, <2>10
<1> QED
  BY <1>1, <1>2

\* A release gives back the slot's GUID once, and nothing when it has none.
LEMMA ReleasePreserves ==
    ASSUME GuidInv, NEW c \in Slots, ReleaseGuid(c)
    PROVE  GuidInv'
<1> USE DEF GuidInv
<1>1. CASE clientGuidMap[c] = NoGuid
  <2>1. UNCHANGED guidVars
    BY <1>1 DEF ReleaseGuid
  <2> QED
    BY <2>1, StutterPreserves
<1>2. CASE clientGuidMap[c] # NoGuid
  <2> DEFINE g == clientGuidMap[c]
  <2>1. /\ availableGuids' = Append(availableGuids, g)
        /\ clientGuidMap' = [clientGuidMap EXCEPT ![c] = NoGuid]
    BY <1>2 DEF ReleaseGuid
  <2>2. availableGuids \in Seq(Guids) /\ clientGuidMap \in [Slots -> Guids \cup {NoGuid}]
    BY DEF MapTypeOK
  <2>3. g \in Guids /\ g \in Assigned
    BY <1>2, <2>2 DEF Assigned
  <2>4. g \notin Free(availableGuids)
    BY <2>3 DEF GuidsConserved
  <2>5. /\ availableGuids' \in Seq(Guids)
        /\ \A i, j \in DOMAIN availableGuids' : availableGuids'[i] = availableGuids'[j] => i = j
        /\ Free(availableGuids') = Free(availableGuids) \cup {g}
    BY <2>1, <2>2, <2>3, <2>4, PushAddsOne DEF FreeOnce
  <2>6. Assigned' = Assigned \ {g}
    BY <1>2, <2>1, <2>2 DEF Assigned, UniqueGuids
  <2>7. MapTypeOK'
    BY <2>1, <2>2, <2>5 DEF MapTypeOK
  <2>8. FreeOnce'
    BY <2>5 DEF FreeOnce
  <2>9. UniqueGuids'
    BY <2>1, <2>2 DEF UniqueGuids
  <2>10. GuidsConserved'
    BY <2>3, <2>5, <2>6 DEF GuidsConserved
  <2> QED
    BY <2>7, <2>8, <2>9, <2>10
<1> QED
  BY <1>1, <1>2

\* Writing a profile touches neither the stack nor the map.
LEMMA SetProfilePreserves ==
    ASSUME GuidInv, NEW c, NEW f, NEW v, SetProfile(c, f, v)
    PROVE  GuidInv'
<1>1. availableGuids' = availableGuids /\ clientGuidMap' = clientGuidMap
  BY DEF SetProfile, guidVars
<1> QED
  BY <1>1 DEF GuidInv, MapTypeOK, FreeOnce, UniqueGuids, GuidsConserved, Free, Assigned

\* loadFromFile leaves every GUID free, once each.
LEMMA InitEstablishes == GuidInit => GuidInv
<1> SUFFICES ASSUME GuidInit PROVE GuidInv
  OBVIOUS
<1> DEFINE n == Len(AllGuids)
<1>1. n \in Nat /\ DOMAIN AllGuids = 1 .. n /\ AllGuids \in Seq(Guids)
  BY GuidAssumption DEF Guids
<1>2. availableGuids \in Seq(Guids) /\ DOMAIN availableGuids = 1 .. n
  <2>1. availableGuids = [i \in 1 .. n |-> AllGuids[n + 1 - i]]
    BY <1>1 DEF GuidInit
  <2>2. \A i \in 1 .. n : AllGuids[n + 1 - i] \in Guids
    BY <1>1 DEF Guids
  <2>3. availableGuids \in [1 .. n -> Guids]
    BY <2>1, <2>2
  <2> QED
    BY <1>1, <2>3, SeqDef
<1>3. \A i \in 1 .. n : availableGuids[i] = AllGuids[n + 1 - i] /\ n + 1 - i \in 1 .. n
  BY <1>1 DEF GuidInit
<1>4. FreeOnce
  <2> SUFFICES ASSUME NEW i \in 1 .. n, NEW j \in 1 .. n, availableGuids[i] = availableGuids[j]
               PROVE  i = j
    BY <1>2 DEF FreeOnce
  <2>1. /\ n + 1 - i \in DOMAIN AllGuids /\ n + 1 - j \in DOMAIN AllGuids
        /\ AllGuids[n + 1 - i] = AllGuids[n + 1 - j]
    BY <1>1, <1>3
  <2>2. n + 1 - i = n + 1 - j
    BY <2>1, GuidAssumption
  <2> QED
    BY <1>1, <2>2
<1>5. Free(availableGuids) = Guids
  <2>1. \A i \in 1 .. n : availableGuids[n + 1 - i] = AllGuids[i] /\ n + 1 - i \in 1 .. n
    BY <1>1, <1>3
  <2>2. Free(availableGuids) = {availableGuids[i] : i \in 1 .. n}
    BY <1>2 DEF Free
  <2>3. Guids = {AllGuids[i] : i \in 1 .. n}
    BY <1>1 DEF Guids
  <2>4. \A i \in 1 .. n : \E j \in 1 .. n : availableGuids[i] = AllGuids[j]
    BY <1>3
  <2>5. \A i \in 1 .. n : \E j \in 1 .. n : AllGuids[i] = availableGuids[j]
    BY <2>1
  <2>6. \A g \in Free(availableGuids) : g \in Guids
    BY <2>2, <2>3, <2>4
  <2>7. \A g \in Guids : g \in Free(availableGuids)
    BY <2>2, <2>3, <2>5
  <2> QED
    BY <2>6, <2>7
<1>6. Assigned = {} /\ UniqueGuids
  BY DEF GuidInit, Assigned, UniqueGuids
<1>7. MapTypeOK
  BY <1>2 DEF GuidInit, MapTypeOK
<1> QED
  BY <1>4, <1>5, <1>6, <1>7 DEF GuidInv, GuidsConserved

\* No body is lost and none is lent twice, whatever the number of slots, of
\* GUIDs and of connects (GuidManager.cpp:22-50).
THEOREM GuidsConservedAlways == GuidSpec => []GuidsInOnePlace
<1>1. GuidInv /\ [GuidNext]_guidVars => GuidInv'
  BY AssignPreserves, ReleasePreserves, SetProfilePreserves, StutterPreserves DEF GuidNext
<1>2. GuidInv => GuidsInOnePlace
  BY DEF GuidInv, GuidsInOnePlace
<1> QED
  BY InitEstablishes, <1>1, <1>2, PTL DEF GuidSpec

\* The allocator's types (GuidManager.h).
THEOREM GuidTypeOKAlways == GuidSpec => []GuidTypeOK
<1>1. GuidInv /\ [GuidNext]_guidVars => GuidInv'
  BY AssignPreserves, ReleasePreserves, SetProfilePreserves, StutterPreserves DEF GuidNext
<1>2. GuidInit => DataTypeOK
  BY DataAssumption DEF GuidInit, DataTypeOK
<1>3. DataTypeOK /\ [GuidNext]_guidVars => DataTypeOK'
  <2> SUFFICES ASSUME DataTypeOK, [GuidNext]_guidVars PROVE DataTypeOK'
    OBVIOUS
  <2>1. CASE guidData' = guidData
    BY <2>1 DEF DataTypeOK
  <2>2. CASE \E c \in Slots, f \in Fields, v \in Values : SetProfile(c, f, v)
    <3>1. PICK c \in Slots, f \in Fields, v \in Values : SetProfile(c, f, v)
      BY <2>2
    <3>2. \/ guidData' = guidData
          \/ guidData' = [guidData EXCEPT ![clientGuidMap[c]][f] = v]
      BY <3>1 DEF SetProfile, guidVars
    <3> QED
      BY <3>2 DEF DataTypeOK
  <2> QED
    BY <2>1, <2>2 DEF GuidNext, AssignGuid, ReleaseGuid, guidVars
<1>4. GuidInv /\ DataTypeOK => GuidTypeOK
  BY DEF GuidInv, MapTypeOK, DataTypeOK, GuidTypeOK
<1> QED
  BY InitEstablishes, <1>1, <1>2, <1>3, <1>4, PTL DEF GuidSpec

\* A slot's GUID changes only by being given back (GuidManager.cpp:22-27).
THEOREM GuidKeptAlways == GuidSpec => GuidKept
<1> DEFINE Kept == \A c \in Slots :
                      clientGuidMap[c] # NoGuid => clientGuidMap'[c] \in {clientGuidMap[c], NoGuid}
<1>1. GuidInv /\ [GuidNext]_guidVars => GuidInv'
  BY AssignPreserves, ReleasePreserves, SetProfilePreserves, StutterPreserves DEF GuidNext
<1>2. GuidInv /\ [GuidNext]_guidVars => [Kept]_guidVars
  <2> SUFFICES ASSUME GuidInv, GuidNext PROVE Kept
    OBVIOUS
  <2>1. clientGuidMap \in [Slots -> Guids \cup {NoGuid}]
    BY DEF GuidInv, MapTypeOK
  <2> QED
    BY <2>1 DEF GuidNext, AssignGuid, ReleaseGuid, SetProfile, guidVars
<1> QED
  BY InitEstablishes, <1>1, <1>2, PTL DEF GuidSpec, GuidKept
=============================================================================
