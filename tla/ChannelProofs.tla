---------------------------- MODULE ChannelProofs ----------------------------
(***************************************************************************)
(* A reliable-ordered channel loses nothing and runs into no desync, for    *)
(* any sizes of its queues and windows, any blocks, and any bounds.         *)
(*                                                                         *)
(* The argument goes round in a circle.  The sender has forgotten only what *)
(* it knows to have arrived; the receiver has what has arrived, since no    *)
(* message it takes shares an index with one that waits in its queue; that  *)
(* is so because no message is sent further than a queue's size ahead of    *)
(* the oldest the sender remembers; and the oldest is never ahead of the    *)
(* receiver's program, because acknowledgements leave only when the program *)
(* has taken everything that it can take.                                   *)
(*                                                                         *)
(* The last section counts the messages the receiver can be ahead of one    *)
(* that arrives, on which it depends whether 16 bits tell them apart.       *)
(***************************************************************************)
EXTENDS ReliableChannel, Integers, SequenceFacts, FiniteSetTheorems, TLAPS

Contents == [type : {"messages"}, ids : SUBSET Nat]
                \cup [type : {"fragment"}, id : Nat, fragment : Fragments]

\* TypeOK, and that packets are numbered one after the other.
TypesInv == TypeOK /\ contents \in Seq(Contents)

\* The sender has acknowledgements that the message i has arrived.
Known(i) ==
    \/ \E s \in reported : Carries(s, i)
    \/ \A f \in Fragments : \E s \in reported : contents[s] = Fragment(i, f)

SenderInv ==
    /\ oldest <= nextSend
    /\ \A i \in unacked : oldest <= i /\ i < nextSend
    /\ \A i \in Nat : i < nextSend /\ i \notin unacked => Known(i)

\* A message is sent when every block before it is done with, a fragment when
\* everything before its block is.
PacketsInv == \A s \in DOMAIN contents, i \in Nat :
    /\ Carries(s, i) =>
           /\ i < nextSend
           /\ i < oldest + ReceiveQueueSize
           /\ i \notin Blocks
           /\ \A b \in Blocks : b < i => b \notin unacked
    /\ \A f \in Fragments : contents[s] = Fragment(i, f) =>
           i \in Blocks /\ i < nextSend /\ i <= oldest

AcksInv ==
    /\ acked \subseteq reported
    /\ \A acks \in acksInFlight : acks \subseteq reported
    /\ reported \subseteq arrived
    /\ \A f \in sendBlock.acked : \E s \in reported : contents[s] = Fragment(sendBlock.id, f)

\* When something was reported, the program had taken all it could take.
TakenInv == \A n \in Nat : (\A i \in Nat : i < n => Known(i)) => n <= nextReceive

\* The receive queue holds a window of numbers, and no block is passed over.
QueueInv ==
    /\ nextReceive <= newest /\ newest <= nextSend
    /\ \A i \in queued : /\ nextReceive <= i
                         /\ i < newest
                         /\ i < nextReceive + ReceiveQueueSize
    /\ \A b \in Blocks : b < newest => Has(b)

\* What has arrived is there, or is a part of the block that is being received.
ArrivedInv ==
    /\ \A s \in arrived, i \in Nat : Carries(s, i) => Has(i)
    /\ \A s \in arrived, i \in Nat, f \in Fragments : contents[s] = Fragment(i, f) =>
           Has(i) \/ (i = newest /\ receiveBlock.active /\ f \in receiveBlock.fragments)
    /\ receiveBlock.active =>
           /\ receiveBlock.id = newest
           /\ newest \in Blocks
           /\ receiveBlock.fragments # Fragments

ChannelInv ==
    /\ TypesInv
    /\ SenderInv
    /\ PacketsInv
    /\ AcksInv
    /\ TakenInv
    /\ QueueInv
    /\ ArrivedInv
    /\ NoDesync

-----------------------------------------------------------------------------
(* What the invariant says.                                                 *)

\* Two numbers of one window have different indices.
LEMMA WindowApart ==
    ASSUME NEW m \in Positive, NEW i \in Nat, NEW k \in Nat, i < k, k < i + m
    PROVE  ~SameIndex(i, k, m)
<1> SUFFICES ASSUME i % m = k % m PROVE FALSE
    BY DEF SameIndex
<1> DEFINE a == i \div m
           b == k \div m
<1>1. a \in Int /\ b \in Int
    BY DEF Positive
<1>2. i = m * a + (i % m) /\ k = m * b + (k % m)
    BY DEF Positive
<1> HIDE DEF a, b
<1>3. k - i = m * (b - a)
    BY <1>1, <1>2 DEF Positive
<1>4. CASE b - a <= 0
  <2>1. m * (b - a) <= 0
    BY <1>1, <1>4, SMTT(30) DEF Positive
  <2>2. QED BY <1>3, <2>1
<1>5. CASE b - a >= 1
  <2>1. m * (b - a) >= m
    BY <1>1, <1>5, SMTT(30) DEF Positive
  <2>2. QED BY <1>3, <2>1 DEF Positive
<1>6. QED BY <1>1, <1>4, <1>5

\* Positive sizes: a block has a first fragment, a queue has room for one message.
LEMMA Sizes == 0 \in Fragments /\ ReceiveQueueSize \in Positive
BY ChannelAssumption DEF Fragments, Positive

\* The types of the numbers.
LEMMA Numbers ==
    ASSUME ChannelInv
    PROVE  /\ nextSend \in Nat /\ oldest \in Nat /\ nextReceive \in Nat /\ newest \in Nat
           /\ unacked \subseteq Nat /\ due \subseteq unacked /\ queued \subseteq Nat
           /\ Blocks \subseteq Nat /\ ReceiveQueueSize \in Nat /\ ReceiveQueueSize > 0
<1>1. /\ nextSend \in Nat /\ oldest \in Nat /\ nextReceive \in Nat /\ newest \in Nat
      /\ unacked \subseteq Nat /\ due \subseteq unacked /\ queued \subseteq Nat
    BY DEF ChannelInv, TypesInv, TypeOK
<1>2. Blocks \subseteq Nat /\ ReceiveQueueSize \in Nat /\ ReceiveQueueSize > 0
    BY ChannelAssumption, Sizes DEF Positive
<1>3. QED BY <1>1, <1>2

\* The two kinds of packets are told apart, and fragments are what they are.
LEMMA FragmentFields ==
    ASSUME NEW i, NEW j, NEW f, NEW g, Fragment(i, f) = Fragment(j, g)
    PROVE  i = j /\ f = g
<1>1. Fragment(i, f).id = i /\ Fragment(i, f).fragment = f
    BY DEF Fragment
<1>2. Fragment(j, g).id = j /\ Fragment(j, g).fragment = g
    BY DEF Fragment
<1>3. QED BY <1>1, <1>2

\* What is known to have arrived is there.
LEMMA KnownIsThere == ASSUME ChannelInv, NEW i \in Nat, Known(i) PROVE Has(i)
<1>1. reported \subseteq arrived
    BY DEF ChannelInv, AcksInv
<1>2. CASE \E s \in reported : Carries(s, i)
    BY <1>1, <1>2 DEF ChannelInv, ArrivedInv
<1>3. CASE \A f \in Fragments : \E s \in reported : contents[s] = Fragment(i, f)
  <2> SUFFICES ASSUME ~Has(i) PROVE FALSE
    OBVIOUS
  <2>1. \A f \in Fragments : receiveBlock.active /\ f \in receiveBlock.fragments
    BY <1>1, <1>3 DEF ChannelInv, ArrivedInv
  <2>2. receiveBlock.active
    BY <2>1, Sizes
  <2>3. receiveBlock.fragments \subseteq Fragments
    BY DEF ChannelInv, TypesInv, TypeOK
  <2>4. receiveBlock.fragments = Fragments
    BY <2>1, <2>3
  <2>5. QED BY <2>2, <2>4 DEF ChannelInv, ArrivedInv
<1>4. QED BY <1>2, <1>3 DEF Known

\* What is forgotten is there.
LEMMA ForgottenIsThere ==
    ASSUME ChannelInv, NEW i \in Nat, i < nextSend, i \notin unacked PROVE Has(i)
BY KnownIsThere DEF ChannelInv, SenderInv

\* The oldest message the sender remembers is not ahead of the receiver's program.
LEMMA OldestIsTaken == ASSUME ChannelInv PROVE oldest <= nextReceive
<1>1. oldest \in Nat /\ nextSend \in Nat
    BY DEF ChannelInv, TypesInv, TypeOK
<1>2. \A i \in Nat : i < oldest => Known(i)
    BY <1>1 DEF ChannelInv, SenderInv
<1>3. QED BY <1>1, <1>2 DEF ChannelInv, TakenInv

LEMMA ChannelInitInv == Init => ChannelInv
<1> SUFFICES ASSUME Init PROVE ChannelInv
    OBVIOUS
<1>1. TypesInv
    BY DEF Init, TypesInv, TypeOK, NoBlock, NothingReceived
<1>2. SenderInv /\ PacketsInv /\ AcksInv
    BY DEF Init, SenderInv, PacketsInv, AcksInv, NoBlock
<1>3. TakenInv
  <2> SUFFICES ASSUME NEW n \in Nat, \A i \in Nat : i < n => Known(i) PROVE n <= 0
    BY DEF Init, TakenInv
  <2>1. ~Known(0)
    BY Sizes DEF Init, Known
  <2>2. QED BY <2>1
<1>4. QueueInv /\ ArrivedInv /\ NoDesync
    BY ChannelAssumption DEF Init, QueueInv, ArrivedInv, NoDesync, NothingReceived, Has
<1>5. QED BY <1>1, <1>2, <1>3, <1>4 DEF ChannelInv

-----------------------------------------------------------------------------
(* The sender's steps.                                                      *)

\* What is known depends on the packets that were reported.
LEMMA StillKnown ==
    ASSUME TypesInv, AcksInv, reported' = reported,
           \A s \in DOMAIN contents : contents'[s] = contents[s]
    PROVE  \A i : Known(i)' <=> Known(i)
<1>1. reported \subseteq DOMAIN contents
    BY DEF TypesInv, TypeOK, AcksInv
<1>2. QED BY <1>1 DEF Known, Carries

\* Nothing that the receiver or the network has changes.
LEMMA ReceiverUntouched ==
    ASSUME ChannelInv, UNCHANGED <<receiveVars, error>>, nextSend <= nextSend', nextSend' \in Nat,
           \A s \in DOMAIN contents : contents'[s] = contents[s]
    PROVE  TakenInv' /\ QueueInv' /\ ArrivedInv' /\ NoDesync'
<1>1. \A i : Known(i)' <=> Known(i)
    BY StillKnown DEF ChannelInv, receiveVars
<1>2. TakenInv'
    BY <1>1 DEF ChannelInv, TakenInv, receiveVars
<1>3. QueueInv' /\ NoDesync'
  <2>1. newest <= nextSend'
    BY Numbers DEF ChannelInv, QueueInv
  <2>2. QED BY <2>1 DEF ChannelInv, QueueInv, NoDesync, Has, receiveVars
<1>4. arrived \subseteq DOMAIN contents
    BY DEF ChannelInv, TypesInv, TypeOK
<1>5. ArrivedInv'
    BY <1>4 DEF ChannelInv, ArrivedInv, Has, Carries, receiveVars
<1>6. QED BY <1>2, <1>3, <1>5

LEMMA SendMessageInv == ASSUME ChannelInv, SendMessage PROVE ChannelInv'
<1>1. /\ nextSend' = nextSend + 1
      /\ unacked' = unacked \cup {nextSend}
      /\ due' = due \cup {nextSend}
      /\ UNCHANGED <<oldest, sendBlock, acked, contents, inFlight, acksInFlight, arrived,
                     nextReceive, queued, newest, receiveBlock, reported, error>>
    BY DEF SendMessage, networkVars, receiveVars
<1>2. TypesInv'
  <2>1. nextSend' \in Nat /\ unacked' \subseteq Nat /\ due' \subseteq unacked'
    BY <1>1, Numbers
  <2>2. QED BY <1>1, <2>1 DEF ChannelInv, TypesInv, TypeOK
<1>3. \A i : Known(i)' <=> Known(i)
    BY <1>1, StillKnown DEF ChannelInv
<1>4. SenderInv'
    BY <1>1, <1>3, Numbers DEF ChannelInv, SenderInv
<1>5. PacketsInv'
  <2>1. PacketsInv
    BY DEF ChannelInv
  <2>2. \A i \in Nat : i < nextSend => i < nextSend' /\ \A b \in Blocks : b < i => b # nextSend
    BY <1>1, Numbers
  <2>3. QED BY <1>1, <2>1, <2>2 DEF PacketsInv, Carries
<1>6. AcksInv'
    BY <1>1 DEF ChannelInv, AcksInv
<1>7. TakenInv' /\ QueueInv' /\ ArrivedInv' /\ NoDesync'
  <2>1. nextSend <= nextSend' /\ nextSend' \in Nat
    BY <1>1, Numbers
  <2>2. QED BY <1>1, <2>1, ReceiverUntouched DEF receiveVars
<1>8. QED BY <1>2, <1>4, <1>5, <1>6, <1>7 DEF ChannelInv

\* A packet is sent whose contents are as PacketsInv wants them.
LEMMA TransmitInv ==
    ASSUME ChannelInv, NEW content \in Contents, Transmit(content),
           UNCHANGED <<nextSend, oldest, unacked, acked, receiveVars, error>>,
           due' \subseteq due,
           sendBlock' \in [active : BOOLEAN, id : Nat, acked : SUBSET Fragments,
                           due : SUBSET Fragments],
           sendBlock'.acked = {} \/ (sendBlock'.acked = sendBlock.acked /\ sendBlock'.id = sendBlock.id),
           \A i \in Nat : content.type = "messages" /\ i \in content.ids =>
               /\ i < nextSend
               /\ i < oldest + ReceiveQueueSize
               /\ i \notin Blocks
               /\ \A b \in Blocks : b < i => b \notin unacked,
           \A i \in Nat, f \in Fragments : content = Fragment(i, f) =>
               i \in Blocks /\ i < nextSend /\ i <= oldest
    PROVE  ChannelInv'
<1> DEFINE n == Len(contents) + 1
<1>1. /\ contents' = Append(contents, content)
      /\ inFlight' = inFlight \cup {n}
      /\ UNCHANGED <<acksInFlight, arrived, nextReceive, queued, newest, receiveBlock, reported>>
    BY DEF Transmit, receiveVars
<1>2. contents \in Seq(Contents)
    BY DEF ChannelInv, TypesInv
<1>3. /\ contents' \in Seq(Contents)
      /\ DOMAIN contents' = DOMAIN contents \cup {n}
      /\ contents'[n] = content
      /\ \A s \in DOMAIN contents : contents'[s] = contents[s]
  <2> HIDE DEF Contents
  <2> QED BY <1>1, <1>2
<1>4. TypesInv'
  <2>1. \A s \in DOMAIN contents' : contents'[s] \in Contents
    BY <1>3
  <2>2. \A s \in DOMAIN contents' :
           \/ contents'[s] \in [type : {"messages"}, ids : SUBSET Nat]
           \/ contents'[s] \in [type : {"fragment"}, id : Nat, fragment : Fragments]
    BY <2>1 DEF Contents
  <2>3. inFlight' \cup arrived' \cup acked' \subseteq DOMAIN contents'
    BY <1>1, <1>3 DEF ChannelInv, TypesInv, TypeOK
  <2>4. acksInFlight' \subseteq SUBSET DOMAIN contents'
    BY <1>1, <1>3 DEF ChannelInv, TypesInv, TypeOK
  <2> HIDE DEF n
  <2>5. QED BY <1>1, <1>3, <2>2, <2>3, <2>4 DEF ChannelInv, TypesInv, TypeOK
<1>5. \A i : Known(i)' <=> Known(i)
    BY <1>1, <1>3, StillKnown DEF ChannelInv
<1>6. SenderInv'
    BY <1>5 DEF ChannelInv, SenderInv
<1>7. PacketsInv'
  <2> SUFFICES ASSUME NEW s \in DOMAIN contents', NEW i \in Nat
               PROVE  /\ Carries(s, i)' =>
                             /\ i < nextSend
                             /\ i < oldest + ReceiveQueueSize
                             /\ i \notin Blocks
                             /\ \A b \in Blocks : b < i => b \notin unacked
                      /\ \A f \in Fragments : contents'[s] = Fragment(i, f) =>
                             i \in Blocks /\ i < nextSend /\ i <= oldest
    BY DEF PacketsInv
  <2>1. CASE s = n
    BY <1>3, <2>1 DEF Carries
  <2>2. CASE s # n
    <3>1. s \in DOMAIN contents /\ contents'[s] = contents[s]
        BY <1>3, <2>2
    <3>2. QED BY <3>1 DEF ChannelInv, PacketsInv, Carries
  <2>3. QED BY <2>1, <2>2
<1>8. AcksInv'
  <2>1. reported \subseteq DOMAIN contents
    BY DEF ChannelInv, TypesInv, TypeOK, AcksInv
  <2>2. QED BY <1>1, <1>3, <2>1 DEF ChannelInv, AcksInv
<1>9. TakenInv' /\ QueueInv' /\ ArrivedInv' /\ NoDesync'
  <2>1. nextSend <= nextSend' /\ nextSend' \in Nat
    BY Numbers
  <2>2. QED BY <1>3, <2>1, ReceiverUntouched
<1>10. QED BY <1>4, <1>6, <1>7, <1>8, <1>9 DEF ChannelInv

LEMMA SendMessagesInv == ASSUME ChannelInv, SendMessages PROVE ChannelInv'
<1>1. PICK ids \in SUBSET Sendable :
          /\ Transmit(Messages(ids))
          /\ due' = due \ ids
          /\ UNCHANGED <<nextSend, oldest, unacked, sendBlock, acked, receiveVars, error>>
    BY DEF SendMessages
<1>2. Sendable \subseteq unacked /\ unacked \subseteq Nat
    BY DEF Sendable, ChannelInv, TypesInv, TypeOK
<1>3. Messages(ids) \in Contents
    BY <1>2 DEF Messages, Contents
<1>4. ASSUME NEW i \in ids
      PROVE  /\ i < nextSend
             /\ i < oldest + ReceiveQueueSize
             /\ i \notin Blocks
             /\ \A b \in Blocks : b < i => b \notin unacked
  <2>1. i \in unacked /\ i \in Nat /\ i < oldest + Window
    BY <1>2 DEF Sendable
  <2>2. \A b \in unacked \cap Blocks : i < b
    BY DEF Sendable
  <2>3. Window \in Nat /\ Window <= ReceiveQueueSize /\ ReceiveQueueSize \in Nat
    BY ChannelAssumption DEF Window, Positive
  <2>4. oldest \in Nat
    BY DEF ChannelInv, TypesInv, TypeOK
  <2>5. i < oldest + ReceiveQueueSize
    BY <2>1, <2>3, <2>4
  <2>6. Blocks \subseteq Nat
    BY ChannelAssumption
  <2>7. QED BY <2>1, <2>2, <2>5, <2>6 DEF ChannelInv, SenderInv
<1>5. \A i, f : Messages(ids) # Fragment(i, f)
    BY DEF Messages, Fragment
<1>6. Messages(ids).ids = ids
    BY DEF Messages
<1>7. sendBlock' \in [active : BOOLEAN, id : Nat, acked : SUBSET Fragments, due : SUBSET Fragments]
    BY <1>1 DEF ChannelInv, TypesInv, TypeOK
<1>8. QED BY <1>1, <1>3, <1>4, <1>5, <1>6, <1>7, TransmitInv

LEMMA SendFragmentInv == ASSUME ChannelInv, SendFragment PROVE ChannelInv'
<1>1. PICK f \in CurrentBlock.due \ CurrentBlock.acked :
          /\ oldest \in unacked \cap Blocks
          /\ Transmit(Fragment(oldest, f))
          /\ sendBlock' = [CurrentBlock EXCEPT !.due = CurrentBlock.due \ {f}]
          /\ UNCHANGED <<nextSend, oldest, unacked, due, acked, receiveVars, error>>
    BY DEF SendFragment
<1>2. CurrentBlock \in [active : BOOLEAN, id : Nat, acked : SUBSET Fragments,
                        due : SUBSET Fragments]
    BY DEF CurrentBlock, ChannelInv, TypesInv, TypeOK
<1>3. f \in Fragments /\ oldest \in Nat
    BY <1>2 DEF ChannelInv, TypesInv, TypeOK
<1>4. Fragment(oldest, f) \in Contents
    BY <1>3 DEF Fragment, Contents
<1>5. /\ sendBlock' \in [active : BOOLEAN, id : Nat, acked : SUBSET Fragments,
                         due : SUBSET Fragments]
      /\ sendBlock'.acked = CurrentBlock.acked /\ sendBlock'.id = CurrentBlock.id
    BY <1>1, <1>2
<1>6. sendBlock'.acked = {} \/ (sendBlock'.acked = sendBlock.acked /\ sendBlock'.id = sendBlock.id)
    BY <1>5 DEF CurrentBlock
<1>7. Fragment(oldest, f).type # "messages"
    BY DEF Fragment
<1>8. \A i \in Nat, g \in Fragments : Fragment(oldest, f) = Fragment(i, g) =>
          i \in Blocks /\ i < nextSend /\ i <= oldest
    BY <1>1, <1>3, FragmentFields DEF ChannelInv, SenderInv
<1>9. QED BY <1>1, <1>4, <1>5, <1>6, <1>7, <1>8, TransmitInv

LEMMA ResendInv == ASSUME ChannelInv, ResendTime PROVE ChannelInv'
<1>1. /\ due' = unacked
      /\ sendBlock' = IF sendBlock.active THEN [sendBlock EXCEPT !.due = Fragments] ELSE sendBlock
      /\ UNCHANGED <<nextSend, oldest, unacked, acked, contents, inFlight, acksInFlight, arrived,
                     nextReceive, queued, newest, receiveBlock, reported, error>>
    BY DEF ResendTime, networkVars, receiveVars
<1>2. /\ sendBlock' \in [active : BOOLEAN, id : Nat, acked : SUBSET Fragments,
                         due : SUBSET Fragments]
      /\ sendBlock'.acked = sendBlock.acked /\ sendBlock'.id = sendBlock.id
    BY <1>1 DEF ChannelInv, TypesInv, TypeOK
<1>3. TypesInv'
    BY <1>1, <1>2 DEF ChannelInv, TypesInv, TypeOK
<1>4. AcksInv'
    BY <1>1, <1>2 DEF ChannelInv, AcksInv
<1>5. \A i : Known(i)' <=> Known(i)
    BY <1>1, StillKnown DEF ChannelInv
<1>6. SenderInv' /\ PacketsInv'
    BY <1>1, <1>5 DEF ChannelInv, SenderInv, PacketsInv, Carries
<1>7. TakenInv' /\ QueueInv' /\ ArrivedInv' /\ NoDesync'
  <2>1. nextSend <= nextSend' /\ nextSend' \in Nat
    BY <1>1, Numbers
  <2>2. QED BY <1>1, <2>1, ReceiverUntouched DEF receiveVars
<1>8. QED BY <1>3, <1>4, <1>6, <1>7 DEF ChannelInv

\* Acknowledgements arrive: what the sender forgets it knows to have arrived.
LEMMA ReceiveAcksInv ==
    ASSUME ChannelInv, NEW acks \in acksInFlight, ReceiveAcks(acks)
    PROVE  ChannelInv'
<1> DEFINE new == acks \ acked
           all == AckedFragments(new)
           whole == sendBlock.active /\ all = Fragments
<1>1. /\ acksInFlight' = acksInFlight \ {acks}
      /\ acked' = acked \cup acks
      /\ unacked' = {i \in unacked : /\ \A s \in new : ~Carries(s, i)
                                     /\ ~(whole /\ i = sendBlock.id)}
      /\ due' = due \cap unacked'
      /\ sendBlock' = IF whole THEN NoBlock
                      ELSE IF sendBlock.active THEN [sendBlock EXCEPT !.acked = all]
                           ELSE sendBlock
      /\ UNCHANGED <<nextSend, contents, inFlight, arrived, nextReceive, queued, newest,
                     receiveBlock, reported, error>>
    BY DEF ReceiveAcks, receiveVars
<1>2. acks \subseteq reported
    BY DEF ChannelInv, AcksInv
<1>3. all \subseteq Fragments /\ \A f \in all : \E s \in reported : contents[s] = Fragment(sendBlock.id, f)
    BY <1>2 DEF AckedFragments, ChannelInv, AcksInv, TypesInv, TypeOK
<1> HIDE DEF all
<1>4. /\ sendBlock' \in [active : BOOLEAN, id : Nat, acked : SUBSET Fragments,
                         due : SUBSET Fragments]
      /\ \/ sendBlock'.acked = {}
         \/ sendBlock'.id = sendBlock.id /\ sendBlock'.acked \in {all, sendBlock.acked}
    BY <1>1, <1>3 DEF ChannelInv, TypesInv, TypeOK, NoBlock
<1>5. AcksInv'
    BY <1>1, <1>2, <1>3, <1>4 DEF ChannelInv, AcksInv
<1>6. oldest' \in Nat /\ oldest <= oldest' /\ oldest' <= nextSend
      /\ \A j \in unacked' : oldest' <= j
  <2>1. PICK i \in unacked' \cup {nextSend} : (\A j \in unacked' : i <= j) /\ oldest' = i
    BY DEF ReceiveAcks, UpdateOldest
  <2>2. unacked' \subseteq unacked
    BY <1>1
  <2>3. QED BY <2>1, <2>2, Numbers DEF ChannelInv, SenderInv
<1>7. TypesInv'
  <2>1. unacked' \subseteq unacked /\ due' \subseteq unacked' /\ acked' \subseteq DOMAIN contents
    BY <1>1 DEF ChannelInv, TypesInv, TypeOK
  <2>2. QED BY <1>1, <1>4, <1>6, <2>1 DEF ChannelInv, TypesInv, TypeOK
<1>8. \A i : Known(i)' <=> Known(i)
    BY <1>1, StillKnown DEF ChannelInv
<1>9. ASSUME NEW i \in Nat, i < nextSend, i \notin unacked' PROVE Known(i)
  <2>1. CASE i \notin unacked
    BY <1>9, <2>1 DEF ChannelInv, SenderInv
  <2>2. CASE \E s \in new : Carries(s, i)
    BY <1>2, <2>2 DEF Known
  <2>3. CASE whole /\ i = sendBlock.id
    BY <1>3, <2>3 DEF Known
  <2>4. QED BY <1>1, <1>9, <2>1, <2>2, <2>3
<1>10. SenderInv'
  <2>1. \A i \in unacked' : i < nextSend
    BY <1>1 DEF ChannelInv, SenderInv
  <2>2. QED BY <1>1, <1>6, <1>8, <1>9, <2>1 DEF SenderInv
<1>11. PacketsInv'
  <2>1. unacked' \subseteq unacked
    BY <1>1
  <2>3. \A i \in Nat : /\ i <= oldest => i <= oldest'
                       /\ i < oldest + ReceiveQueueSize => i < oldest' + ReceiveQueueSize
    BY <1>6, Numbers
  <2> HIDE DEF new, whole
  <2>4. QED BY <1>1, <2>1, <2>3 DEF ChannelInv, PacketsInv, Carries
<1>12. TakenInv' /\ QueueInv' /\ ArrivedInv' /\ NoDesync'
  <2>1. nextSend <= nextSend' /\ nextSend' \in Nat
    BY <1>1, Numbers
  <2>2. QED BY <1>1, <2>1, ReceiverUntouched DEF receiveVars
<1>13. QED BY <1>5, <1>7, <1>10, <1>11, <1>12 DEF ChannelInv

\* The network loses something.
LEMMA LoseInv ==
    ASSUME ChannelInv, inFlight' \subseteq inFlight, acksInFlight' \subseteq acksInFlight,
           UNCHANGED <<sendVars, contents, receiveVars, error>>
    PROVE  ChannelInv'
<1>1. UNCHANGED <<nextSend, oldest, unacked, due, sendBlock, acked, contents, arrived,
                  nextReceive, queued, newest, receiveBlock, reported, error>>
    BY DEF sendVars, receiveVars
<1>2. TypesInv' /\ AcksInv'
    BY <1>1 DEF ChannelInv, TypesInv, TypeOK, AcksInv
<1>3. \A i : Known(i)' <=> Known(i)
    BY <1>1, StillKnown DEF ChannelInv
<1>4. SenderInv' /\ PacketsInv'
    BY <1>1, <1>3 DEF ChannelInv, SenderInv, PacketsInv, Carries
<1>5. TakenInv' /\ QueueInv' /\ ArrivedInv' /\ NoDesync'
  <2>1. nextSend <= nextSend' /\ nextSend' \in Nat
    BY <1>1, Numbers
  <2>2. QED BY <1>1, <2>1, ReceiverUntouched DEF receiveVars
<1>6. QED BY <1>2, <1>4, <1>5 DEF ChannelInv

-----------------------------------------------------------------------------
(* The receiver's steps.                                                    *)

\* Nothing that the sender has changes; what has arrived does not get less.
LEMMA SenderUntouched ==
    ASSUME ChannelInv, UNCHANGED <<sendVars, contents, acksInFlight, reported>>,
           inFlight' \subseteq inFlight, arrived \subseteq arrived'
    PROVE  SenderInv' /\ PacketsInv' /\ AcksInv' /\ (\A i : Known(i)' <=> Known(i))
<1>1. UNCHANGED <<nextSend, oldest, unacked, due, sendBlock, acked>>
    BY DEF sendVars
<1>2. \A i : Known(i)' <=> Known(i)
    BY StillKnown DEF ChannelInv
<1>3. SenderInv' /\ PacketsInv'
    BY <1>1, <1>2 DEF ChannelInv, SenderInv, PacketsInv, Carries
<1>4. AcksInv'
    BY <1>1 DEF ChannelInv, AcksInv
<1>5. QED BY <1>2, <1>3, <1>4

\* Messages that the queue has room for displace nothing.
LEMMA InsertKeeps ==
    ASSUME ChannelInv, NEW ids \in SUBSET Nat, Insert(ids), ids \cap queued = {},
           \A i \in ids : nextReceive <= i /\ i < nextReceive + ReceiveQueueSize
    PROVE  /\ queued' = queued \cup ids
           /\ newest' \in Nat /\ newest <= newest'
           /\ \A i \in ids : i < newest'
           /\ newest' = newest \/ \E i \in ids : newest' = i + 1
<1> DEFINE skipped == UNION {newest .. i : i \in ids}
           dropped == {i \in queued : \E k \in ids \cup skipped :
                           SameIndex(i, k, ReceiveQueueSize)}
<1>1. queued' = (queued \ dropped) \cup ids
    BY DEF Insert
<1>2. PICK n \in {newest} \cup {i + 1 : i \in ids} :
          n >= newest /\ (\A i \in ids : i < n) /\ newest' = n
    BY DEF Insert
<1>3. ASSUME NEW i \in queued, NEW k \in ids \cup skipped
      PROVE  ~SameIndex(i, k, ReceiveQueueSize)
  <2>1. /\ i \in Nat /\ nextReceive <= i /\ i < newest
        /\ i < nextReceive + ReceiveQueueSize
    BY Numbers DEF ChannelInv, QueueInv
  <2>2. k \in Nat /\ nextReceive <= k /\ k < nextReceive + ReceiveQueueSize /\ k # i
    <3>1. CASE k \in ids
        BY <3>1
    <3>2. CASE k \in skipped
        <4>1. PICK j \in ids : k \in newest .. j
            BY <3>2
        <4>2. QED BY <2>1, <4>1, Numbers
    <3>3. QED BY <3>1, <3>2
  <2>3. i < k => k < i + ReceiveQueueSize
    BY <2>1, <2>2, Numbers
  <2>4. k < i => i < k + ReceiveQueueSize
    BY <2>1, <2>2, Numbers
  <2>5. i < k \/ k < i
    BY <2>1, <2>2
  <2>6. i < k => ~SameIndex(i, k, ReceiveQueueSize)
    BY <2>1, <2>2, <2>3, Sizes, WindowApart
  <2>7. k < i => ~SameIndex(k, i, ReceiveQueueSize)
    BY <2>1, <2>2, <2>4, Sizes, WindowApart
  <2>8. QED BY <2>5, <2>6, <2>7 DEF SameIndex
<1>4. dropped = {}
    BY <1>3
<1> HIDE DEF dropped, skipped
<1>5. queued' = queued \cup ids
    BY <1>1, <1>4
<1>6. newest \in Nat /\ \A i \in ids : i + 1 \in Nat
    BY Numbers
<1>7. QED BY <1>2, <1>5, <1>6

\* Every message of a packet is there once the packet has been taken.
LEMMA MessagesInv ==
    ASSUME ChannelInv, NEW s \in DOMAIN contents, NEW ids \in SUBSET Nat,
           contents[s] = Messages(ids), AcceptMessages(ids), error = "none",
           UNCHANGED nextReceive
    PROVE  /\ error' = "none"
           /\ newest' \in Nat /\ queued' \subseteq Nat /\ receiveBlock' = receiveBlock
           /\ \A i \in Nat : Has(i) => Has(i)'
           /\ \A i \in ids : Has(i)'
           /\ nextReceive <= newest' /\ newest' <= nextSend
           /\ \A i \in queued' : /\ nextReceive <= i
                                 /\ i < newest'
                                 /\ i < nextReceive + ReceiveQueueSize
           /\ \A b \in Blocks : b < newest' => Has(b)'
           /\ receiveBlock.active => newest' = newest
<1> DEFINE new == {i \in ids \ queued : i >= nextReceive /\ i < nextReceive + ReceiveQueueSize}
<1>1. /\ Insert(new)
      /\ error' = IF \E i \in ids : i >= nextReceive + ReceiveQueueSize THEN "desync" ELSE error
      /\ receiveBlock' = receiveBlock
    BY DEF AcceptMessages
<1>2. ASSUME NEW i \in ids
      PROVE  /\ i \in Nat /\ i < nextSend /\ i < oldest + ReceiveQueueSize /\ i \notin Blocks
             /\ \A b \in Blocks : b < i => Has(b)
  <2>1. Carries(s, i)
    BY DEF Carries, Messages
  <2>2. /\ i < nextSend /\ i < oldest + ReceiveQueueSize /\ i \notin Blocks
        /\ \A b \in Blocks : b < i => b \notin unacked
    BY <2>1 DEF ChannelInv, PacketsInv
  <2>3. ASSUME NEW b \in Blocks, b < i PROVE Has(b)
    <3>1. b \in Nat /\ b < nextSend
        BY <2>2, <2>3, Numbers
    <3>2. QED BY <2>2, <2>3, <3>1, ForgottenIsThere
  <2>4. QED BY <2>2, <2>3
<1>3. \A i \in ids : i < nextReceive + ReceiveQueueSize
    BY <1>2, OldestIsTaken, Numbers
<1>4. error' = "none"
    BY <1>1, <1>3, Numbers
<1>5. /\ queued' = queued \cup new
      /\ newest' \in Nat /\ newest <= newest'
      /\ \A i \in new : i < newest'
      /\ newest' = newest \/ \E i \in new : newest' = i + 1
  <2>1. \A i \in new : nextReceive <= i /\ i < nextReceive + ReceiveQueueSize
    BY Numbers
  <2>2. new \in SUBSET Nat /\ new \cap queued = {}
    OBVIOUS
  <2> HIDE DEF new
  <2>3. QED BY <1>1, <2>1, <2>2, InsertKeeps
<1>6. \A i \in Nat : Has(i) => Has(i)'
    BY <1>5 DEF Has
<1>7. \A i \in ids : Has(i)'
  <2>1. \A i \in ids : i < nextReceive \/ i \in queued \/ i \in new
    BY <1>3, Numbers
  <2>2. QED BY <1>5, <2>1 DEF Has
<1>8. nextReceive <= newest' /\ newest' <= nextSend
  <2>1. \A i \in new : i + 1 <= nextSend
    BY <1>2, Numbers
  <2>2. QED BY <1>5, <2>1, Numbers DEF ChannelInv, QueueInv
<1>9. ASSUME NEW i \in queued'
      PROVE  nextReceive <= i /\ i < newest' /\ i < nextReceive + ReceiveQueueSize
  <2>1. CASE i \in queued
    BY <1>5, <2>1, Numbers DEF ChannelInv, QueueInv
  <2>2. CASE i \in new
    BY <1>5, <2>2, Numbers
  <2>3. QED BY <1>5, <2>1, <2>2
<1>10. ASSUME NEW b \in Blocks, b < newest' PROVE Has(b)
  <2>1. CASE newest' = newest
    BY <1>10, <2>1 DEF ChannelInv, QueueInv
  <2>2. CASE \E i \in new : newest' = i + 1
    <3>1. PICK i \in new : newest' = i + 1
        BY <2>2
    <3>2. b < i
        BY <1>2, <1>10, <3>1, Numbers
    <3>3. QED BY <1>2, <3>2
  <2>3. QED BY <1>5, <2>1, <2>2
<1>11. receiveBlock.active => newest' = newest
  <2> SUFFICES ASSUME receiveBlock.active, newest' # newest PROVE FALSE
    OBVIOUS
  <2>1. newest \in Blocks /\ newest < newest'
    BY <1>5, Numbers DEF ChannelInv, ArrivedInv
  <2>2. Has(newest)
    BY <1>10, <2>1
  <2>3. QED BY <2>2, Numbers DEF Has, ChannelInv, QueueInv
<1>12. QED
  <2>1. queued' \subseteq Nat
    BY <1>5, Numbers
  <2>2. \A b \in Blocks : b < newest' => Has(b)'
    BY <1>6, <1>10, Numbers
  <2>3. QED BY <1>1, <1>4, <1>5, <1>6, <1>7, <1>8, <1>9, <1>11, <2>1, <2>2


\* A fragment of a block: the block is there already, or is the one received next.
LEMMA FragmentInv ==
    ASSUME ChannelInv, NEW s \in DOMAIN contents, NEW b \in Nat, NEW f \in Fragments,
           contents[s] = Fragment(b, f), AcceptFragment(b, f), error = "none",
           UNCHANGED <<nextReceive, nextSend, contents>>, arrived' \subseteq arrived \cup {s}
    PROVE  /\ error' = "none"
           /\ newest' \in Nat /\ queued' \subseteq Nat
           /\ receiveBlock' \in [active : BOOLEAN, id : Nat, fragments : SUBSET Fragments]
           /\ QueueInv' /\ ArrivedInv'
<1> DEFINE block == [Receiving(b) EXCEPT !.fragments = Receiving(b).fragments \cup {f}]
<1>1. b \in Blocks /\ b < nextSend /\ b <= nextReceive
    BY OldestIsTaken, Numbers DEF ChannelInv, PacketsInv
<1>2. QueueInv /\ ArrivedInv
    BY DEF ChannelInv
<1>3. receiveBlock \in [active : BOOLEAN, id : Nat, fragments : SUBSET Fragments]
    BY DEF ChannelInv, TypesInv, TypeOK
<1>4. \A i, g : contents[s] = Fragment(i, g) => i = b /\ g = f
    BY FragmentFields
<1>5. \A i : ~Carries(s, i)
    BY DEF Carries, Fragment
<1>6. CASE b # newest
  <2>1. UNCHANGED <<queued, newest, receiveBlock, error>>
    BY <1>6 DEF AcceptFragment
  <2>2. Has(b)
    BY <1>1, <1>2, <1>6, Numbers DEF QueueInv
  <2>3. QueueInv'
    BY <1>2, <2>1 DEF QueueInv, Has
  <2>4. ArrivedInv'
    BY <1>2, <1>4, <1>5, <2>1, <2>2 DEF ArrivedInv, Has, Carries
  <2>5. QED BY <1>3, <2>1, <2>3, <2>4, Numbers
<1>7. CASE b = newest
  <2>1. nextReceive = b
    BY <1>1, <1>2, <1>7, Numbers DEF QueueInv
  <2>2. queued = {}
    BY <1>2, <1>7, <2>1, Numbers DEF QueueInv
  <2>3. /\ block.active /\ block.id = b
        /\ block.fragments \subseteq Fragments /\ f \in block.fragments
        /\ block \in [active : BOOLEAN, id : Nat, fragments : SUBSET Fragments]
        /\ receiveBlock.active => receiveBlock.fragments \subseteq block.fragments
    BY <1>2, <1>3, <1>7 DEF Receiving, ArrivedInv
  <2> HIDE DEF block
  <2>4. CASE block.fragments # Fragments
    <3>1. receiveBlock' = block /\ UNCHANGED <<queued, newest, error>>
        BY <1>7, <2>4 DEF AcceptFragment, block
    <3>2. QueueInv'
        BY <1>2, <3>1 DEF QueueInv, Has
    <3>3. ASSUME NEW t \in arrived \cup {s}, NEW i \in Nat, NEW g \in Fragments,
                 contents[t] = Fragment(i, g)
          PROVE  Has(i) \/ (i = newest /\ g \in block.fragments)
      <4>1. CASE t = s
        BY <1>4, <1>7, <2>3, <3>3, <4>1
      <4>2. CASE t \in arrived
        BY <1>2, <2>3, <3>3, <4>2 DEF ArrivedInv
      <4>3. QED BY <3>3, <4>1, <4>2
    <3>4. ArrivedInv'
        BY <1>1, <1>2, <1>5, <1>7, <2>3, <2>4, <3>1, <3>3 DEF ArrivedInv, Has, Carries
    <3>5. QED BY <2>3, <3>1, <3>2, <3>4, Numbers
  <2>5. CASE block.fragments = Fragments
    <3>1. receiveBlock' = NothingReceived /\ Insert({b}) /\ error' = error
        BY <1>7, <2>2, <2>5 DEF AcceptFragment, block
    <3>2. queued' = {b} /\ newest' = b + 1
        <4>1. nextReceive <= b /\ b < nextReceive + ReceiveQueueSize
            BY <2>1, Numbers
        <4>2. /\ queued' = queued \cup {b}
              /\ newest' = newest \/ \E i \in {b} : newest' = i + 1
              /\ \A i \in {b} : i < newest'
            BY <2>2, <3>1, <4>1, InsertKeeps
        <4>3. QED BY <1>7, <2>2, <4>2, Numbers
    <3>3. \A i \in Nat : Has(i) \/ i = b => Has(i)'
        BY <2>2, <3>2 DEF Has
    <3>4. QueueInv'
        <4>1. nextReceive <= newest' /\ newest' <= nextSend
            BY <1>1, <2>1, <3>2, Numbers
        <4>2. \A i \in queued' : /\ nextReceive <= i
                                 /\ i < newest'
                                 /\ i < nextReceive + ReceiveQueueSize
            BY <2>1, <3>2, Numbers
        <4>3. \A c \in Blocks : c < newest' => Has(c)'
            <5> SUFFICES ASSUME NEW c \in Blocks, c < newest' PROVE Has(c)'
                OBVIOUS
            <5>1. c \in Nat /\ (c < newest \/ c = b)
                BY <1>7, <3>2, Numbers
            <5>2. QED BY <1>2, <3>3, <5>1 DEF QueueInv
        <4>4. QED BY <4>1, <4>2, <4>3 DEF QueueInv
    <3>5. ArrivedInv'
        <4>1. \A t \in arrived', i \in Nat : Carries(t, i)' => Has(i)'
            BY <1>2, <1>5, <3>3 DEF ArrivedInv, Carries
        <4>2. \A t \in arrived', i \in Nat, g \in Fragments :
                  contents[t] = Fragment(i, g) => Has(i)'
            <5> SUFFICES ASSUME NEW t \in arrived \cup {s}, NEW i \in Nat, NEW g \in Fragments,
                                contents[t] = Fragment(i, g)
                         PROVE  Has(i) \/ i = b
                BY <3>3
            <5>1. CASE t = s
                BY <1>4, <5>1
            <5>2. CASE t \in arrived
                BY <1>2, <1>7, <5>2 DEF ArrivedInv
            <5>3. QED BY <5>1, <5>2
        <4>3. ~receiveBlock'.active
            BY <3>1 DEF NothingReceived
        <4>4. QED BY <4>1, <4>2, <4>3 DEF ArrivedInv
    <3>6. receiveBlock' \in [active : BOOLEAN, id : Nat, fragments : SUBSET Fragments]
        BY <3>1 DEF NothingReceived
    <3>7. QED BY <3>1, <3>2, <3>4, <3>5, <3>6, Numbers
  <2>6. QED BY <2>4, <2>5
<1>8. QED BY <1>6, <1>7

LEMMA ReceivePacketInv ==
    ASSUME ChannelInv, error = "none", NEW s \in inFlight, ReceivePacket(s)
    PROVE  ChannelInv'
<1>1. /\ inFlight' = inFlight \ {s}
      /\ arrived' = arrived \/ arrived' = arrived \cup {s}
      /\ UNCHANGED <<nextReceive, reported, sendVars, contents, acksInFlight>>
    BY DEF ReceivePacket
<1>2. s \in DOMAIN contents
    BY DEF ChannelInv, TypesInv, TypeOK
<1>3. nextSend' = nextSend
    BY <1>1 DEF sendVars
<1>4. SenderInv' /\ PacketsInv' /\ AcksInv' /\ (\A i : Known(i)' <=> Known(i))
    BY <1>1, SenderUntouched
<1>5. /\ error' = "none"
      /\ newest' \in Nat /\ queued' \subseteq Nat
      /\ receiveBlock' \in [active : BOOLEAN, id : Nat, fragments : SUBSET Fragments]
      /\ QueueInv' /\ ArrivedInv'
  <2>1. CASE Stale(s)
    <3>1. UNCHANGED <<arrived, queued, newest, receiveBlock, error>>
        BY <2>1 DEF ReceivePacket
    <3>2. receiveBlock \in [active : BOOLEAN, id : Nat, fragments : SUBSET Fragments]
        BY DEF ChannelInv, TypesInv, TypeOK
    <3>3. QED BY <1>1, <1>3, <3>1, <3>2, Numbers
              DEF ChannelInv, QueueInv, ArrivedInv, Has, Carries
  <2>2. CASE ~Stale(s) /\ contents[s].type = "messages"
    <3> DEFINE ids == contents[s].ids
    <3>1. ids \in SUBSET Nat /\ contents[s] = Messages(ids)
        <4>1. contents[s] \in [type : {"messages"}, ids : SUBSET Nat]
            BY <1>2, <2>2 DEF ChannelInv, TypesInv, TypeOK
        <4>2. QED BY <4>1 DEF Messages
    <3>2. AcceptMessages(ids)
        BY <2>2 DEF ReceivePacket, Accept
    <3> HIDE DEF ids
    <3>3. /\ error' = "none"
          /\ newest' \in Nat /\ queued' \subseteq Nat /\ receiveBlock' = receiveBlock
          /\ \A i \in Nat : Has(i) => Has(i)'
          /\ \A i \in ids : Has(i)'
          /\ nextReceive <= newest' /\ newest' <= nextSend
          /\ \A i \in queued' : /\ nextReceive <= i
                                /\ i < newest'
                                /\ i < nextReceive + ReceiveQueueSize
          /\ \A b \in Blocks : b < newest' => Has(b)'
          /\ receiveBlock.active => newest' = newest
        BY <1>1, <1>2, <3>1, <3>2, MessagesInv
    <3>4. QueueInv'
        BY <1>1, <1>3, <3>3 DEF QueueInv
    <3>5. \A i : Carries(s, i) => i \in ids
        BY <3>1 DEF Carries, Messages
    <3>6. \A i, f : contents[s] # Fragment(i, f)
        BY <2>2 DEF Fragment
    <3>7. ArrivedInv'
        <4>1. \A t \in arrived', i \in Nat : Carries(t, i)' => Has(i)'
            BY <1>1, <3>3, <3>5 DEF ChannelInv, ArrivedInv, Carries
        <4>2. ASSUME NEW t \in arrived', NEW i \in Nat, NEW f \in Fragments,
                     contents[t] = Fragment(i, f)
              PROVE  Has(i)' \/ (i = newest' /\ receiveBlock'.active
                                     /\ f \in receiveBlock'.fragments)
            BY <1>1, <3>3, <3>6, <4>2 DEF ChannelInv, ArrivedInv
        <4>3. QED BY <1>1, <3>3, <4>1, <4>2 DEF ChannelInv, ArrivedInv
    <3>8. receiveBlock \in [active : BOOLEAN, id : Nat, fragments : SUBSET Fragments]
        BY DEF ChannelInv, TypesInv, TypeOK
    <3>9. QED BY <3>3, <3>4, <3>7, <3>8
  <2>3. CASE ~Stale(s) /\ contents[s].type # "messages"
    <3> DEFINE b == contents[s].id
               f == contents[s].fragment
    <3>1. contents[s] \in [type : {"fragment"}, id : Nat, fragment : Fragments]
        BY <1>2, <2>3 DEF ChannelInv, TypesInv, TypeOK
    <3>2. b \in Nat /\ f \in Fragments /\ contents[s] = Fragment(b, f)
        BY <3>1 DEF Fragment
    <3>3. AcceptFragment(b, f)
        BY <2>3 DEF ReceivePacket, Accept
    <3> HIDE DEF b, f
    <3>4. QED BY <1>1, <1>2, <1>3, <3>2, <3>3, FragmentInv
  <2>4. QED BY <2>1, <2>2, <2>3
<1>6. TypesInv'
  <2>1. UNCHANGED <<nextSend, oldest, unacked, due, sendBlock, acked>>
    BY <1>1 DEF sendVars
  <2>2. inFlight' \cup arrived' \cup acked' \subseteq DOMAIN contents'
    BY <1>1, <1>2, <2>1 DEF ChannelInv, TypesInv, TypeOK
  <2>3. QED BY <1>1, <1>5, <2>1, <2>2 DEF ChannelInv, TypesInv, TypeOK
<1>7. TakenInv' /\ NoDesync'
    BY <1>1, <1>4, <1>5 DEF ChannelInv, TakenInv, NoDesync
<1>8. QED BY <1>4, <1>5, <1>6, <1>7 DEF ChannelInv

LEMMA ReceiveMessageInv ==
    ASSUME ChannelInv, ReceiveMessage
    PROVE  ChannelInv' /\ nextReceive < nextSend
<1>1. /\ nextReceive \in queued
      /\ nextReceive' = nextReceive + 1
      /\ queued' = queued \ {nextReceive}
      /\ UNCHANGED <<nextSend, oldest, unacked, due, sendBlock, acked, contents, inFlight,
                     acksInFlight, arrived, newest, receiveBlock, reported, error>>
    BY DEF ReceiveMessage, sendVars, networkVars
<1>2. nextReceive < newest /\ newest <= nextSend
    BY <1>1 DEF ChannelInv, QueueInv
<1>3. SenderInv' /\ PacketsInv' /\ AcksInv' /\ (\A i : Known(i)' <=> Known(i))
    BY <1>1, SenderUntouched DEF sendVars
<1>4. \A i \in Nat : Has(i)' <=> Has(i)
    BY <1>1, Numbers DEF Has
<1>5. TypesInv'
  <2>1. nextReceive' \in Nat /\ queued' \subseteq Nat
    BY <1>1, Numbers
  <2>2. QED BY <1>1, <2>1 DEF ChannelInv, TypesInv, TypeOK
<1>6. TakenInv'
    BY <1>1, <1>3, Numbers DEF ChannelInv, TakenInv
<1>7. QueueInv'
  <2>1. \A i \in queued' : /\ nextReceive' <= i
                           /\ i < newest
                           /\ i < nextReceive' + ReceiveQueueSize
    BY <1>1, Numbers DEF ChannelInv, QueueInv
  <2>2. nextReceive' <= newest
    BY <1>1, <1>2, Numbers
  <2>3. QED BY <1>1, <1>4, <2>1, <2>2, Numbers DEF ChannelInv, QueueInv
<1>8. ArrivedInv' /\ NoDesync'
    BY <1>1, <1>4 DEF ChannelInv, ArrivedInv, NoDesync, Carries
<1>9. nextReceive < nextSend
    BY <1>2, Numbers
<1>10. QED BY <1>3, <1>5, <1>6, <1>7, <1>8, <1>9 DEF ChannelInv

\* An acknowledgement leaves: whatever has arrived, the program has taken all of it that
\* comes before a gap.
LEMMA SendAcksInv == ASSUME ChannelInv, SendAcks PROVE ChannelInv'
<1>1. /\ nextReceive \notin queued
      /\ acksInFlight' = acksInFlight \cup {Acknowledgement}
      /\ reported' = arrived
      /\ UNCHANGED <<nextSend, oldest, unacked, due, sendBlock, acked, contents, inFlight,
                     arrived, nextReceive, queued, newest, receiveBlock, error>>
    BY DEF SendAcks, sendVars
<1>2. Acknowledgement \subseteq arrived /\ reported \subseteq arrived
    BY DEF Acknowledgement, ChannelInv, AcksInv
<1>3. arrived \subseteq DOMAIN contents
    BY DEF ChannelInv, TypesInv, TypeOK
<1>4. TypesInv'
  <2>1. acksInFlight' \subseteq SUBSET DOMAIN contents
    <3>1. acksInFlight \subseteq SUBSET DOMAIN contents
        BY DEF ChannelInv, TypesInv, TypeOK
    <3>2. Acknowledgement \in SUBSET DOMAIN contents
        BY <1>2, <1>3
    <3>3. QED BY <1>1, <3>1, <3>2
  <2>2. QED BY <1>1, <2>1 DEF ChannelInv, TypesInv, TypeOK
<1>5. \A i \in Nat : Known(i) => Known(i)'
    BY <1>1, <1>2 DEF Known, Carries
<1>6. SenderInv'
    BY <1>1, <1>5 DEF ChannelInv, SenderInv
<1>7. PacketsInv'
    BY <1>1 DEF ChannelInv, PacketsInv, Carries
<1>8. AcksInv'
    BY <1>1, <1>2 DEF ChannelInv, AcksInv
<1>9. QueueInv' /\ ArrivedInv' /\ NoDesync'
    BY <1>1 DEF ChannelInv, QueueInv, ArrivedInv, NoDesync, Has, Carries
<1>10. ASSUME NEW i \in Nat, Known(i)' PROVE Has(i)
  <2>1. CASE \E t \in arrived : Carries(t, i)
    BY <2>1 DEF ChannelInv, ArrivedInv
  <2>2. CASE \A f \in Fragments : \E t \in arrived : contents[t] = Fragment(i, f)
    <3> SUFFICES ASSUME ~Has(i) PROVE FALSE
        OBVIOUS
    <3>1. \A f \in Fragments : receiveBlock.active /\ f \in receiveBlock.fragments
        BY <2>2 DEF ChannelInv, ArrivedInv
    <3>2. receiveBlock.fragments \subseteq Fragments
        BY DEF ChannelInv, TypesInv, TypeOK
    <3>3. QED BY <3>1, <3>2, Sizes DEF ChannelInv, ArrivedInv
  <2>3. QED BY <1>1, <1>10, <2>1, <2>2 DEF Known, Carries
<1>11. TakenInv'
  <2> SUFFICES ASSUME NEW n \in Nat, \A i \in Nat : i < n => Known(i)' PROVE n <= nextReceive
    BY <1>1 DEF TakenInv
  <2>1. ~Has(nextReceive)
    BY <1>1, Numbers DEF Has
  <2>2. ~(nextReceive < n)
    BY <1>10, <2>1, Numbers
  <2>3. QED BY <2>2, Numbers
<1>12. QED BY <1>4, <1>6, <1>7, <1>8, <1>9, <1>11 DEF ChannelInv

-----------------------------------------------------------------------------
(* The theorems.                                                            *)

\* Every step of the channel is one of FifoChannel or invisible there.
LEMMA ChannelStep == ChannelInv /\ [Next]_vars => ChannelInv' /\ [Fifo!Next]_(Fifo!vars)
<1> SUFFICES ASSUME ChannelInv, [Next]_vars PROVE ChannelInv' /\ [Fifo!Next]_(Fifo!vars)
    OBVIOUS
<1> USE DEF Fifo!Next, Fifo!vars, Fifo!Send, Fifo!Deliver, Fifo!Break, Up
<1>1. CASE Next /\ SendMessage
  <2>1. nextSend' = nextSend + 1 /\ UNCHANGED <<nextReceive, error>> /\ error = "none"
    BY <1>1 DEF Next, SendMessage, receiveVars
  <2>2. QED BY <1>1, <2>1, SendMessageInv
<1>2. CASE Next /\ OverflowSendQueue
  <2>1. /\ error = "none" /\ error' = "send queue full"
        /\ UNCHANGED <<sendVars, networkVars, receiveVars>>
    BY <1>2 DEF Next, OverflowSendQueue
  <2>2. UNCHANGED <<nextSend, nextReceive>>
    BY <2>1 DEF sendVars, receiveVars
  <2>3. ChannelInv'
    <3>1. UNCHANGED <<nextSend, oldest, unacked, due, sendBlock, acked, contents, inFlight,
                      acksInFlight, arrived, nextReceive, queued, newest, receiveBlock, reported>>
        BY <2>1 DEF sendVars, networkVars, receiveVars
    <3>2. SenderInv' /\ PacketsInv' /\ AcksInv' /\ (\A i : Known(i)' <=> Known(i))
        BY <2>1, <3>1, SenderUntouched
    <3>3. TypesInv'
        BY <2>1, <3>1 DEF ChannelInv, TypesInv, TypeOK
    <3>4. TakenInv' /\ QueueInv' /\ ArrivedInv' /\ NoDesync'
        BY <2>1, <3>1, <3>2
           DEF ChannelInv, TakenInv, QueueInv, ArrivedInv, NoDesync, Has, Carries
    <3>5. QED BY <3>2, <3>3, <3>4 DEF ChannelInv
  <2>4. QED BY <2>1, <2>2, <2>3
<1>3. CASE Next /\ (SendMessages \/ SendFragment \/ ResendTime)
  <2>1. UNCHANGED <<nextSend, nextReceive, error>>
    BY <1>3 DEF SendMessages, SendFragment, ResendTime, receiveVars
  <2>2. QED BY <1>3, <2>1, SendMessagesInv, SendFragmentInv, ResendInv
<1>4. ASSUME NEW acks \in acksInFlight, ReceiveAcks(acks) \/ LoseAcks(acks)
      PROVE  ChannelInv' /\ [Fifo!Next]_(Fifo!vars)
  <2>1. UNCHANGED <<nextSend, nextReceive, error>>
    BY <1>4 DEF ReceiveAcks, LoseAcks, sendVars, receiveVars
  <2>2. LoseAcks(acks) => ChannelInv'
    BY LoseInv DEF LoseAcks
  <2>3. QED BY <1>4, <2>1, <2>2, ReceiveAcksInv
<1>5. ASSUME Next, NEW s \in inFlight, ReceivePacket(s) \/ LosePacket(s)
      PROVE  ChannelInv' /\ [Fifo!Next]_(Fifo!vars)
  <2>1. UNCHANGED <<nextSend, nextReceive>> /\ error = "none"
    BY <1>5 DEF Next, ReceivePacket, LosePacket, sendVars, receiveVars
  <2>2. LosePacket(s) => ChannelInv'
    BY LoseInv DEF LosePacket
  <2>3. ChannelInv'
    BY <1>5, <2>1, <2>2, ReceivePacketInv
  <2>4. QED BY <2>1, <2>3
<1>6. CASE Next /\ ReceiveMessage
  <2>1. ChannelInv' /\ nextReceive < nextSend
    BY <1>6, ReceiveMessageInv
  <2>2. /\ error = "none" /\ nextReceive' = nextReceive + 1
        /\ UNCHANGED <<nextSend, error>>
    BY <1>6 DEF Next, ReceiveMessage, sendVars
  <2>3. QED BY <2>1, <2>2
<1>7. CASE Next /\ SendAcks
  <2>1. UNCHANGED <<nextSend, nextReceive, error>>
    BY <1>7 DEF SendAcks, sendVars
  <2>2. QED BY <1>7, <2>1, SendAcksInv
<1>8. CASE UNCHANGED vars
  <2>1. UNCHANGED <<sendVars, networkVars, receiveVars, error>>
    BY <1>8 DEF vars
  <2>2. ChannelInv'
    BY <2>1, LoseInv DEF networkVars
  <2>3. QED BY <2>1, <2>2 DEF sendVars, receiveVars
<1>9. QED BY <1>1, <1>2, <1>3, <1>4, <1>5, <1>6, <1>7, <1>8 DEF Next

\* The types of the channel's variables (yojimbo_reliable_ordered_channel.cpp).
THEOREM ChannelTypeOKAlways == Spec => []TypeOK
<1>1. ChannelInv => TypeOK
    BY DEF ChannelInv, TypesInv
<1>2. QED BY ChannelInitInv, ChannelStep, <1>1, PTL DEF Spec

\* Nothing is lost: what the sender has forgotten the receiver has, whatever packets are
\* lost or late, and blocks included (ProcessAck, ProcessPacketMessages and
\* ProcessPacketFragment).
THEOREM ForgottenIsReceivedAlways == Spec => []ForgottenIsReceived
<1>1. ASSUME ChannelInv PROVE ForgottenIsReceived
  <2>1. \A i \in 0 .. nextSend - 1 : i \in Nat /\ i < nextSend
    BY <1>1, Numbers
  <2>2. QED BY <1>1, <2>1, ForgottenIsThere DEF ForgottenIsReceived
<1>2. QED BY ChannelInitInv, ChannelStep, <1>1, PTL DEF Spec

\* The receiver is never sent what it cannot queue: the error level that ends a session
\* for a desync is unreachable (ProcessPacketMessages, ProcessPacketFragment).
THEOREM NoDesyncAlways == Spec => []NoDesync
<1>1. ChannelInv => NoDesync
    BY DEF ChannelInv
<1>2. QED BY ChannelInitInv, ChannelStep, <1>1, PTL DEF Spec

\* The channel, its connection and its endpoint implement what the game takes them for:
\* messages are handed over once and in order, or the session ends.
THEOREM ImplementsFifoSafety == Spec => Fifo!Spec
<1>1. Init => Fifo!Init
    BY DEF Init, Fifo!Init, Up
<1>2. QED BY ChannelInitInv, ChannelStep, <1>1, PTL DEF Spec, Fifo!Spec

-----------------------------------------------------------------------------
(* How old a message may be when it arrives.                                *)

\* The messages, or the block, that a packet is about.
Held(s) == IF contents[s].type = "messages" THEN contents[s].ids ELSE {contents[s].id}

\* No packet is about a message a queue's size ahead of one that was sent with it or later.
SentInv == \A s, t \in DOMAIN contents, i, k \in Nat :
    Carries(s, i) /\ t <= s /\ k \in Held(t) => k < i + ReceiveQueueSize

\* What the receiver has has arrived in a packet.
HasInv == \A j \in Nat : Has(j) => \E t \in arrived : j \in Held(t)

\* A packet is about a few messages.
FewInv == \A s \in DOMAIN contents :
    IsFiniteSet(Held(s)) /\ Cardinality(Held(s)) <= MaxPerPacket

AgeInv == SentInv /\ HasInv /\ FewInv

\* What a packet is about are numbers that were sent.
LEMMA HeldAreSent ==
    ASSUME ChannelInv, NEW s \in DOMAIN contents
    PROVE  /\ Held(s) \subseteq Nat
           /\ \A k \in Held(s) : k < nextSend /\ k < oldest + ReceiveQueueSize
<1>1. contents[s] \in Contents
    BY DEF ChannelInv, TypesInv, TypeOK, Contents
<1>2. CASE contents[s].type = "messages"
  <2>1. Held(s) = contents[s].ids /\ contents[s].ids \subseteq Nat
    BY <1>1, <1>2 DEF Held, Contents
  <2>2. QED BY <1>2, <2>1 DEF ChannelInv, PacketsInv, Carries
<1>3. CASE contents[s].type # "messages"
  <2>1. contents[s] \in [type : {"fragment"}, id : Nat, fragment : Fragments]
    BY <1>1, <1>3 DEF Contents
  <2>2. contents[s] = Fragment(contents[s].id, contents[s].fragment)
    BY <2>1 DEF Fragment
  <2>3. contents[s].id < nextSend /\ contents[s].id <= oldest
    BY <2>1, <2>2 DEF ChannelInv, PacketsInv
  <2>4. Held(s) = {contents[s].id}
    BY <1>3 DEF Held
  <2>5. QED BY <2>1, <2>3, <2>4, Numbers
<1>4. QED BY <1>2, <1>3

LEMMA AgeInitInv == Init => AgeInv
<1> SUFFICES ASSUME Init PROVE AgeInv
    OBVIOUS
<1>1. SentInv /\ FewInv
    BY DEF Init, SentInv, FewInv
<1>2. HasInv
    BY DEF Init, HasInv, Has
<1>3. QED BY <1>1, <1>2 DEF AgeInv

\* No packet is sent, and the receiver has nothing that had not arrived.
LEMMA NothingSentAge ==
    ASSUME AgeInv, contents' = contents, arrived \subseteq arrived',
           \A j \in Nat : Has(j)' => Has(j)
    PROVE  AgeInv'
<1>1. \A s : Held(s)' = Held(s)
    BY DEF Held
<1>2. SentInv' /\ FewInv'
    BY <1>1 DEF AgeInv, SentInv, FewInv, Carries
<1>3. HasInv'
    BY <1>1 DEF AgeInv, HasInv
<1>4. QED BY <1>2, <1>3 DEF AgeInv

\* A packet is sent: its messages are not older than the oldest the sender remembers, and
\* nothing was ever sent a queue's size ahead of that one.
LEMMA TransmitAge ==
    ASSUME ChannelInv, AgeInv, NEW content \in Contents, Transmit(content),
           UNCHANGED receiveVars,
           NEW ids \in SUBSET Nat,
           ids = IF content.type = "messages" THEN content.ids ELSE {content.id},
           \A i \in ids : oldest <= i /\ i < oldest + ReceiveQueueSize,
           IsFiniteSet(ids), Cardinality(ids) <= MaxPerPacket
    PROVE  AgeInv'
<1> PICK n : n = Len(contents) + 1
    OBVIOUS
<1>1. /\ contents' = Append(contents, content)
      /\ UNCHANGED <<arrived, nextReceive, queued>>
    BY DEF Transmit, receiveVars
<1>2. contents \in Seq(Contents)
    BY DEF ChannelInv, TypesInv
<1>3. /\ DOMAIN contents' = DOMAIN contents \cup {n}
      /\ contents'[n] = content
      /\ DOMAIN contents = 1 .. Len(contents) /\ Len(contents) \in Nat
      /\ \A s \in DOMAIN contents : contents'[s] = contents[s]
  <2> HIDE DEF Contents
  <2> QED BY <1>1, <1>2
<1>4. \A s \in DOMAIN contents : Held(s)' = Held(s) /\ \A i : Carries(s, i)' <=> Carries(s, i)
    BY <1>3 DEF Held, Carries
<1>5. Held(n)' = ids /\ \A i : Carries(n, i)' => i \in ids
    BY <1>3 DEF Held, Carries
<1>6. SentInv'
  <2> SUFFICES ASSUME NEW s \in DOMAIN contents', NEW t \in DOMAIN contents', NEW i \in Nat,
                      NEW k \in Nat, Carries(s, i)', t <= s, k \in Held(t)'
               PROVE  k < i + ReceiveQueueSize
    BY DEF SentInv
  <2>1. CASE s \in DOMAIN contents
    <3>1. t \in DOMAIN contents
        BY <1>3, <2>1
    <3>2. QED BY <1>4, <2>1, <3>1 DEF AgeInv, SentInv
  <2>2. CASE s = n
    <3>1. oldest <= i
        BY <1>5, <2>2
    <3>2. k < oldest + ReceiveQueueSize
        BY <1>3, <1>4, <1>5, HeldAreSent
    <3>3. QED BY <3>1, <3>2, Numbers
  <2>3. QED BY <1>3, <2>1, <2>2
<1>7. FewInv'
    BY <1>3, <1>4, <1>5 DEF AgeInv, FewInv
<1>8. HasInv'
  <2>1. arrived \subseteq DOMAIN contents
    BY DEF ChannelInv, TypesInv, TypeOK
  <2>2. QED BY <1>1, <1>4, <2>1 DEF AgeInv, HasInv, Has
<1>9. QED BY <1>6, <1>7, <1>8 DEF AgeInv

LEMMA SendMessagesAge == ASSUME ChannelInv, AgeInv, SendMessages PROVE AgeInv'
<1>1. PICK ids \in SUBSET Sendable :
          Cardinality(ids) <= MaxPerPacket /\ Transmit(Messages(ids)) /\ UNCHANGED receiveVars
    BY DEF SendMessages
<1>2. \A i \in ids : i \in unacked /\ i \in Nat /\ i < oldest + Window
    BY DEF Sendable, ChannelInv, TypesInv, TypeOK
<1>3. Window \in Nat /\ Window <= ReceiveQueueSize
    BY ChannelAssumption DEF Window, Positive
<1>4. \A i \in ids : oldest <= i /\ i < oldest + ReceiveQueueSize
    BY <1>2, <1>3, Numbers DEF ChannelInv, SenderInv
<1>5. IsFiniteSet(ids)
  <2>1. oldest + ReceiveQueueSize \in Nat /\ \A i \in ids : i <= oldest + ReceiveQueueSize
    BY <1>2, <1>4, Numbers
  <2>2. ids \in SUBSET Nat
    BY <1>2
  <2>3. QED BY <2>1, <2>2, FS_BoundedSetOfNaturals
<1>6. Messages(ids) \in Contents /\ ids \in SUBSET Nat
    BY <1>2 DEF Messages, Contents
<1>7. Messages(ids).type = "messages" /\ Messages(ids).ids = ids
    BY DEF Messages
<1>8. QED BY <1>1, <1>4, <1>5, <1>6, <1>7, TransmitAge

LEMMA SendFragmentAge == ASSUME ChannelInv, AgeInv, SendFragment PROVE AgeInv'
<1>1. PICK f \in CurrentBlock.due \ CurrentBlock.acked :
          Transmit(Fragment(oldest, f)) /\ UNCHANGED receiveVars
    BY DEF SendFragment
<1>2. f \in Fragments /\ oldest \in Nat
    BY DEF CurrentBlock, ChannelInv, TypesInv, TypeOK
<1>3. Fragment(oldest, f) \in Contents
    BY <1>2 DEF Fragment, Contents
<1>4. Fragment(oldest, f).type # "messages" /\ Fragment(oldest, f).id = oldest
    BY DEF Fragment
<1>5. IsFiniteSet({oldest}) /\ Cardinality({oldest}) <= MaxPerPacket
  <2>1. MaxPerPacket \in Nat /\ 1 <= MaxPerPacket
    BY ChannelAssumption DEF Positive
  <2>2. IsFiniteSet({oldest}) /\ Cardinality({oldest}) = 1
    BY FS_Singleton
  <2>3. QED BY <2>1, <2>2
<1>6. \A i \in {oldest} : oldest <= i /\ i < oldest + ReceiveQueueSize
    BY <1>2, Numbers
<1>7. {oldest} \in SUBSET Nat
    BY <1>2
<1>8. QED BY <1>1, <1>3, <1>4, <1>5, <1>6, <1>7, TransmitAge

\* A packet arrives: what the receiver takes from it, it has brought.
LEMMA ReceivePacketAge ==
    ASSUME ChannelInv, AgeInv, NEW s \in inFlight, ReceivePacket(s), NoDesync', error = "none"
    PROVE  AgeInv'
<1>1. contents' = contents /\ nextReceive' = nextReceive
    BY DEF ReceivePacket
<1>2. s \in DOMAIN contents /\ contents[s] \in Contents
    BY DEF ChannelInv, TypesInv, TypeOK, Contents
<1>3. CASE Stale(s)
  <2>1. arrived' = arrived /\ queued' = queued
    BY <1>3 DEF ReceivePacket
  <2>2. QED BY <1>1, <2>1, NothingSentAge DEF Has
<1>4. CASE ~Stale(s)
  <2>1. Accept(contents[s]) /\ arrived' = IF error' = "none" THEN arrived \cup {s} ELSE arrived
    BY <1>4 DEF ReceivePacket
  <2>2. error' = "none"
    BY <1>4, <2>1 DEF Accept, AcceptMessages, AcceptFragment, NoDesync
  <2>3. \A ids : Insert(ids) => queued' \subseteq queued \cup ids
    BY DEF Insert
  <2>4. queued' \subseteq queued \cup Held(s)
    <3>1. CASE contents[s].type = "messages"
      <4>1. AcceptMessages(contents[s].ids)
        BY <2>1, <3>1 DEF Accept
      <4>2. Held(s) = contents[s].ids
        BY <3>1 DEF Held
      <4>3. QED BY <2>3, <4>1, <4>2 DEF AcceptMessages
    <3>2. CASE contents[s].type # "messages"
      <4>1. AcceptFragment(contents[s].id, contents[s].fragment)
        BY <2>1, <3>2 DEF Accept
      <4>2. Held(s) = {contents[s].id}
        BY <3>2 DEF Held
      <4>3. queued' = queued \/ Insert({contents[s].id})
        BY <4>1 DEF AcceptFragment
      <4>4. QED BY <2>3, <4>2, <4>3
    <3>3. QED BY <3>1, <3>2
  <2>5. arrived' = arrived \cup {s}
    BY <2>1, <2>2
  <2>6. \A t : Held(t)' = Held(t)
    BY <1>1 DEF Held
  <2>7. SentInv' /\ FewInv'
    BY <1>1, <2>6 DEF AgeInv, SentInv, FewInv, Carries
  <2>8. HasInv'
    <3> SUFFICES ASSUME NEW j \in Nat, Has(j)' PROVE \E t \in arrived' : j \in Held(t)
        BY <2>6 DEF HasInv
    <3>1. Has(j) \/ j \in Held(s)
        BY <1>1, <2>4 DEF Has
    <3>2. QED BY <2>5, <3>1 DEF AgeInv, HasInv
  <2>9. QED BY <2>7, <2>8 DEF AgeInv
<1>5. QED BY <1>3, <1>4

\* Every step keeps it.
LEMMA AgeStep == ASSUME ChannelInv, AgeInv, ChannelInv', [Next]_vars PROVE AgeInv'
<1>1. CASE Next /\ (\/ SendMessage \/ OverflowSendQueue \/ ResendTime \/ SendAcks
                    \/ \E acks \in acksInFlight : ReceiveAcks(acks) \/ LoseAcks(acks)
                    \/ \E s \in inFlight : LosePacket(s))
  <2>1. UNCHANGED <<contents, arrived, nextReceive, queued>>
    BY <1>1 DEF SendMessage, OverflowSendQueue, ResendTime, SendAcks, ReceiveAcks, LoseAcks,
                LosePacket, networkVars, receiveVars
  <2>2. QED BY <2>1, NothingSentAge DEF Has
<1>2. CASE UNCHANGED vars
  <2>1. UNCHANGED <<contents, arrived, nextReceive, queued>>
    BY <1>2 DEF vars, networkVars, receiveVars
  <2>2. QED BY <2>1, NothingSentAge DEF Has
<1>3. CASE SendMessages
    BY <1>3, SendMessagesAge
<1>4. CASE SendFragment
    BY <1>4, SendFragmentAge
<1>5. CASE Next /\ \E s \in inFlight : ReceivePacket(s)
    BY <1>5, ReceivePacketAge DEF Next, ChannelInv
<1>6. CASE ReceiveMessage
  <2>1. /\ UNCHANGED <<contents, arrived>>
        /\ nextReceive' = nextReceive + 1 /\ nextReceive \in queued
        /\ queued' = queued \ {nextReceive}
    BY <1>6 DEF ReceiveMessage, networkVars
  <2>2. \A j \in Nat : j < nextReceive + 1 => j < nextReceive \/ j = nextReceive
    BY Numbers
  <2>3. \A j \in Nat : Has(j)' => Has(j)
    BY <2>1, <2>2 DEF Has
  <2>4. QED BY <2>1, <2>3, NothingSentAge
<1>7. QED BY <1>1, <1>2, <1>3, <1>4, <1>5, <1>6 DEF Next

\* What the m packets after s are about.
HeldAfter(s, m) == {k \in Nat : \E t \in DOMAIN contents : s < t /\ t <= s + m /\ k \in Held(t)}

\* No packet has been about more than M messages.
FewHeld(M) == \A s \in DOMAIN contents : Cardinality(Held(s)) <= M

\* If a packet is about M messages at most, m packets are about m times as many.
LEMMA HeldAfterIsFew ==
    ASSUME FewInv, ChannelInv, NEW M \in Nat, FewHeld(M), NEW s \in Nat, NEW n \in Nat
    PROVE  IsFiniteSet(HeldAfter(s, n)) /\ Cardinality(HeldAfter(s, n)) <= n * M
<1> DEFINE Few(m) == /\ IsFiniteSet(HeldAfter(s, m))
                     /\ Cardinality(HeldAfter(s, m)) <= m * M
           T == {m \in Nat : Few(m)}
<1>1. M \in Nat
    OBVIOUS
<1>2. DOMAIN contents \subseteq Nat
  <2>1. contents \in Seq(Contents)
    BY DEF ChannelInv, TypesInv
  <2> HIDE DEF Contents
  <2>2. QED BY <2>1
<1>3. 0 \in T
  <2>1. HeldAfter(s, 0) = {}
    BY <1>2 DEF HeldAfter
  <2>2. QED BY <1>1, <2>1, FS_EmptySet
<1>4. ASSUME NEW m \in Nat, m < n, m \in T PROVE m + 1 \in T
  <2>1. Few(m) /\ m + 1 \in Nat
    BY <1>4
  <2>2. CASE s + m + 1 \in DOMAIN contents
    <3> DEFINE new == Held(s + m + 1)
    <3>1. new \subseteq Nat /\ IsFiniteSet(new) /\ Cardinality(new) <= M
        BY <2>2, HeldAreSent DEF FewInv, FewHeld
    <3>2. HeldAfter(s, m + 1) = HeldAfter(s, m) \cup new
      <4>1. \A t \in Nat : s < t /\ t <= s + (m + 1) <=> (s < t /\ t <= s + m) \/ t = s + m + 1
        OBVIOUS
      <4>2. \A t \in DOMAIN contents :
                s < t /\ t <= s + (m + 1) <=> (s < t /\ t <= s + m) \/ t = s + m + 1
        BY <1>2, <4>1
      <4> HIDE DEF Few, T
      <4>3. QED BY <2>2, <3>1, <4>2 DEF HeldAfter
    <3> HIDE DEF new
    <3>3. /\ IsFiniteSet(HeldAfter(s, m) \cup new)
          /\ Cardinality(HeldAfter(s, m) \cup new)
                 = Cardinality(HeldAfter(s, m)) + Cardinality(new)
                       - Cardinality(HeldAfter(s, m) \cap new)
        BY <2>1, <3>1, FS_Union
    <3>4. IsFiniteSet(HeldAfter(s, m) \cap new)
        BY <3>1, FS_Intersection
    <3>5. /\ Cardinality(HeldAfter(s, m)) \in Nat /\ Cardinality(new) \in Nat
          /\ Cardinality(HeldAfter(s, m) \cap new) \in Nat
        BY <2>1, <3>1, <3>4, FS_CardinalityType
    <3>6. (m + 1) * M = m * M + M /\ m * M \in Nat
        BY <1>1
    <3>7. \A a, b, c, p, q \in Nat : a <= p /\ b <= q => a + b - c <= p + q
        OBVIOUS
    <3>8. Cardinality(HeldAfter(s, m + 1)) <= (m + 1) * M
      <4>1. Cardinality(HeldAfter(s, m)) <= m * M /\ Cardinality(new) <= M
        BY <2>1, <3>1
      <4>2. Cardinality(HeldAfter(s, m)) + Cardinality(new)
                - Cardinality(HeldAfter(s, m) \cap new) <= m * M + M
        BY <1>1, <3>5, <3>6, <3>7, <4>1
      <4>3. QED BY <3>2, <3>3, <3>6, <4>2
    <3>9. QED BY <2>1, <3>2, <3>3, <3>8
  <2>3. CASE s + m + 1 \notin DOMAIN contents
    <3>1. HeldAfter(s, m + 1) = HeldAfter(s, m)
      <4>1. \A t \in Nat : s < t /\ t <= s + (m + 1) <=> (s < t /\ t <= s + m) \/ t = s + m + 1
        OBVIOUS
      <4>2. \A t \in DOMAIN contents : s < t /\ t <= s + (m + 1) <=> s < t /\ t <= s + m
        BY <1>2, <2>3, <4>1
      <4> HIDE DEF Few, T
      <4>3. QED BY <4>2 DEF HeldAfter
    <3>2. Cardinality(HeldAfter(s, m)) \in Nat
        BY <2>1, FS_CardinalityType
    <3>3. /\ (m + 1) * M = m * M + M
          /\ m * M \in Nat
        BY <1>1
    <3>4. \A a, p, q \in Nat : a <= p => a <= p + q
        OBVIOUS
    <3>5. Cardinality(HeldAfter(s, m)) <= (m + 1) * M
        BY <1>1, <2>1, <3>2, <3>3, <3>4
    <3>6. QED BY <2>1, <3>1, <3>5
  <2>4. QED BY <2>2, <2>3
<1> HIDE DEF T
<1>5. \A k \in 0 .. n : k \in T
    BY <1>3, <1>4, InductionUpTo
<1>6. QED BY <1>5 DEF T

\* How many messages the receiver can be ahead of one that arrives.
MaxAge(M) == ReceiveQueueSize + (ReplayWindow - 1) * M

\* The receiver has gone past a message that is a queue's size behind only with messages of
\* packets that were sent later, and of those only a replay window has arrived.
LEMMA AgeIsBounded ==
    ASSUME ChannelInv, AgeInv, NEW M \in Nat, FewHeld(M),
           NEW s \in inFlight, ~Stale(s), NEW i \in Nat, Carries(s, i)
    PROVE  nextReceive <= i + MaxAge(M)
<1> DEFINE first == i + ReceiveQueueSize
           m == ReplayWindow - 1
           D == HeldAfter(s, m)
<1>1. first \in Nat /\ m \in Nat /\ nextReceive \in Nat
    BY Numbers, ChannelAssumption DEF Positive
<1>2. DOMAIN contents \subseteq Nat
  <2>1. contents \in Seq(Contents)
    BY DEF ChannelInv, TypesInv
  <2> HIDE DEF Contents
  <2>2. QED BY <2>1
<1>3. s \in DOMAIN contents /\ arrived \subseteq DOMAIN contents /\ s \in Nat
    BY <1>2 DEF ChannelInv, TypesInv, TypeOK
<1>4. IsFiniteSet(D) /\ Cardinality(D) <= m * M /\ m * M \in Nat
    BY <1>1, <1>3, HeldAfterIsFew DEF AgeInv
<1>5. ASSUME NEW j \in first .. nextReceive - 1 PROVE j \in D
  <2>1. j \in Nat /\ first <= j /\ j < nextReceive
    BY <1>1
  <2>2. PICK t \in arrived : j \in Held(t)
    BY <2>1 DEF AgeInv, HasInv, Has
  <2>3. t \in DOMAIN contents /\ t \in Nat
    BY <1>2, <1>3
  <2>4. ~(t <= s)
    BY <1>3, <2>1, <2>2, <2>3, Numbers DEF AgeInv, SentInv
  <2>5. ~(s + ReplayWindow <= t)
    BY DEF Stale
  <2>6. ReplayWindow \in Nat
    BY ChannelAssumption DEF Positive
  <2>7. s < t /\ t <= s + m
    BY <1>3, <2>3, <2>4, <2>5, <2>6
  <2>8. QED BY <2>1, <2>2, <2>3, <2>7 DEF HeldAfter
<1>6. Cardinality(first .. nextReceive - 1) <= Cardinality(D) /\ Cardinality(D) \in Nat
    BY <1>4, <1>5, FS_Subset, FS_CardinalityType
<1> HIDE DEF first, m, D
<1>7. Cardinality(first .. nextReceive - 1)
          = IF first > nextReceive - 1 THEN 0 ELSE nextReceive - 1 - first + 1
    BY <1>1, FS_Interval
<1>8. nextReceive <= first + m * M
    BY <1>1, <1>4, <1>6, <1>7
<1>9. \A a, b \in Nat : (i + a) + b = i + (a + b)
    OBVIOUS
<1>10. first + m * M = i + MaxAge(M)
    BY <1>1, <1>4, <1>9, Numbers DEF first, m, MaxAge
<1>11. QED BY <1>8, <1>10

\* Numbers less than half the range apart compare as they do before they wrap.
LEMMA WrapCompares ==
    ASSUME NEW a \in Nat, NEW b \in Nat, a <= b, b < a + HalfRange
    PROVE  /\ ~SequenceGreaterThan(Wrap(a), Wrap(b))
           /\ SequenceGreaterThan(Wrap(b), Wrap(a)) <=> b > a
<1> DEFINE range == 2 * HalfRange
           c == a \div range
           d == b \div range
<1>1. HalfRange \in Nat /\ HalfRange > 0 /\ range \in Nat /\ range > 0
    BY ChannelAssumption DEF Positive
<1>2. c \in Int /\ d \in Int /\ Wrap(a) \in 0 .. range - 1 /\ Wrap(b) \in 0 .. range - 1
    BY <1>1 DEF Wrap
<1>3. a = range * c + Wrap(a) /\ b = range * d + Wrap(b)
    BY <1>1 DEF Wrap
<1> HIDE DEF c, d
<1>4. b - a = range * (d - c) + (Wrap(b) - Wrap(a))
    BY <1>1, <1>2, <1>3
<1>5. d - c \in {0, 1}
  <2>1. CASE d - c <= -1
    <3>1. range * (d - c) <= -range
        BY <1>1, <1>2, <2>1, SMTT(30)
    <3>2. QED BY <1>1, <1>2, <1>4, <3>1
  <2>2. CASE d - c >= 2
    <3>1. range * (d - c) >= 2 * range
        BY <1>1, <1>2, <2>2, SMTT(30)
    <3>2. QED BY <1>1, <1>2, <1>4, <3>1
  <2>3. QED BY <1>2, <2>1, <2>2
<1>6. CASE d - c = 0
  <2>1. b - a = Wrap(b) - Wrap(a)
    BY <1>1, <1>2, <1>4, <1>6
  <2>2. QED BY <1>1, <1>2, <2>1 DEF SequenceGreaterThan
<1>7. CASE d - c = 1
  <2>1. b - a = range + (Wrap(b) - Wrap(a))
    BY <1>1, <1>2, <1>4, <1>7
  <2>2. QED BY <1>1, <1>2, <2>1 DEF SequenceGreaterThan
<1>8. QED BY <1>5, <1>6, <1>7

LEMMA AgeAlways == Spec => [](ChannelInv /\ AgeInv)
<1>1. Init => ChannelInv /\ AgeInv
    BY ChannelInitInv, AgeInitInv
<1>2. ChannelInv /\ AgeInv /\ [Next]_vars => (ChannelInv /\ AgeInv)'
    BY ChannelStep, AgeStep
<1>3. QED BY <1>1, <1>2, PTL DEF Spec

\* How old a message is that arrives: the receiver is ahead of it by a queue and what the
\* packets of a replay window may have brought, at most.
AgeBounded ==
    \A s \in inFlight, i \in Nat :
        ~Stale(s) /\ Carries(s, i) => nextReceive <= i + MaxAge(MaxPerPacket)

\* No message is older than that when it arrives, for any sizes and blocks and whatever is
\* lost, late or repeated (SendMessage to ProcessPacketMessages, with the replay
\* protection of netcode.c).
THEOREM AgeBoundedAlways == Spec => []AgeBounded
<1>1. ASSUME ChannelInv, AgeInv PROVE AgeBounded
  <2>1. MaxPerPacket \in Nat
    BY ChannelAssumption DEF Positive
  <2>2. FewHeld(MaxPerPacket)
    BY <1>1 DEF AgeInv, FewInv, FewHeld
  <2>3. QED BY <1>1, <2>1, <2>2, AgeIsBounded DEF AgeBounded
<1>2. QED BY AgeAlways, <1>1, PTL

\* As long as no packet was about more than M messages, the comparisons of
\* ProcessPacketMessages are right, for every M a queue and a replay window of which are
\* less than half of the numbers: with the sizes the game is built with, 1024 and 256 of
\* 65536 numbers, for up to 124 messages to a packet (1024 + 255 * 124 = 32644).
THEOREM ComparableAlways ==
    ASSUME NEW M \in Nat, ReceiveQueueSize + (ReplayWindow - 1) * M < HalfRange
    PROVE  Spec => [](FewHeld(M) => Comparable)
<1>1. ASSUME ChannelInv, AgeInv, FewHeld(M) PROVE Comparable
  <2> SUFFICES ASSUME NEW s \in inFlight, contents[s].type = "messages", ~Stale(s),
                      NEW i \in contents[s].ids
               PROVE  /\ SequenceGreaterThan(Wrap(nextReceive), Wrap(i)) <=> nextReceive > i
                      /\ i >= nextReceive =>
                             (SequenceGreaterThan(Wrap(i), Wrap(nextReceive + ReceiveQueueSize - 1))
                                 <=> i > nextReceive + ReceiveQueueSize - 1)
    BY DEF Comparable
  <2>1. Carries(s, i)
    BY DEF Carries
  <2>2. s \in DOMAIN contents
    BY <1>1 DEF ChannelInv, TypesInv, TypeOK
  <2>3. i \in Nat /\ i < oldest + ReceiveQueueSize
    BY <1>1, <2>2, HeldAreSent DEF Held
  <2>4. oldest <= nextReceive /\ oldest \in Nat /\ nextReceive \in Nat
    BY <1>1, OldestIsTaken, Numbers
  <2>5. nextReceive <= i + MaxAge(M)
    BY <1>1, <2>1, <2>3, AgeIsBounded
  <2>6. /\ HalfRange \in Nat /\ ReceiveQueueSize \in Nat /\ ReceiveQueueSize > 0
        /\ MaxAge(M) \in Nat /\ ReceiveQueueSize <= MaxAge(M) /\ MaxAge(M) < HalfRange
    <3>1. HalfRange \in Nat /\ ReceiveQueueSize \in Nat /\ ReceiveQueueSize > 0
        BY ChannelAssumption DEF Positive
    <3>2. ReplayWindow - 1 \in Nat
        BY ChannelAssumption DEF Positive
    <3>3. (ReplayWindow - 1) * M \in Nat
        BY <3>2
    <3>4. QED BY <3>1, <3>3 DEF MaxAge
  <2>7. SequenceGreaterThan(Wrap(nextReceive), Wrap(i)) <=> nextReceive > i
    <3>1. CASE i <= nextReceive
        BY <2>3, <2>4, <2>5, <2>6, <3>1, WrapCompares
    <3>2. CASE nextReceive <= i
        BY <2>3, <2>4, <2>6, <3>2, WrapCompares
    <3>3. QED BY <2>3, <2>4, <3>1, <3>2
  <2>8. CASE i >= nextReceive
    <3>1. i <= nextReceive + ReceiveQueueSize - 1 /\ nextReceive + ReceiveQueueSize - 1 \in Nat
        BY <2>3, <2>4, <2>6
    <3>2. nextReceive + ReceiveQueueSize - 1 < i + HalfRange
        BY <2>3, <2>4, <2>6, <2>8
    <3>3. ~SequenceGreaterThan(Wrap(i), Wrap(nextReceive + ReceiveQueueSize - 1))
        BY <2>3, <3>1, <3>2, WrapCompares
    <3>4. QED BY <2>3, <2>7, <3>1, <3>3
  <2>9. QED BY <2>7, <2>8
<1>2. ChannelInv /\ AgeInv => (FewHeld(M) => Comparable)
    BY <1>1
<1>3. QED BY AgeAlways, <1>2, PTL
=============================================================================
