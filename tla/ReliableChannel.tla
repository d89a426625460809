--------------------------- MODULE ReliableChannel ---------------------------
(***************************************************************************)
(* One direction of a reliable-ordered channel: a sender and a receiver of   *)
(* messages, over packets that are lost, delayed and reordered.  The sender  *)
(* repeats what is not acknowledged; a message with a block (a skin's file)  *)
(* travels alone, in fragments.  Acknowledgements ride on the packets of the *)
(* other direction.                                                          *)
(*                                                                         *)
(* Numbers of messages and packets do not wrap here; that the code's 16 bits *)
(* are not confused is what Comparable is about.                             *)
(* Packets that carry nothing of this channel are left out.  A message is    *)
(* the number it is sent as.                                                 *)
(***************************************************************************)
EXTENDS Naturals, Sequences, FiniteSets

CONSTANTS Blocks,            \* numbers of the messages that are blocks
          NumFragments,      \* of a block
          SendQueueSize,     \* messageSendQueueSize
          ReceiveQueueSize,  \* messageReceiveQueueSize
          MaxPerPacket,      \* maxMessagesPerPacket
          AckBits,           \* how many packets an acknowledgement covers: 32
          ReplayWindow,      \* how old a packet may be: 256 packets
          HalfRange,         \* half of the numbers a message can have: 32768
          MaxMessages,       \* bound: messages sent
          MaxLosses,         \* bound: packets and acknowledgements lost
          MaxDelays          \* bound: resends of what is still on its way

VARIABLES nextSend,          \* m_sendMessageId
          oldest,            \* m_oldestUnackedMessageId
          unacked,           \* m_messageSendQueue
          due,               \* of these, the messages whose messageResendTime is over
          sendBlock,         \* m_sendBlock, with the fragments acknowledged and those due
          contents,          \* m_sentPackets: what each packet has carried
          acked,             \* the packets whose acknowledgement has been processed
          inFlight,          \* packets on their way
          acksInFlight,      \* acknowledgements on their way: sets of packets
          arrived,           \* received_packets: the packets the receiver has processed
          nextReceive,       \* m_receiveMessageId
          queued,            \* m_messageReceiveQueue
          newest,            \* the highest number put there, plus one: its GetSequence
          receiveBlock,      \* m_receiveBlock, with the fragments received
          reported,          \* what had arrived when last acknowledged (history)
          error,             \* the error level, which ends the session
          losses, delays     \* for the bounds only

sendVars == <<nextSend, oldest, unacked, due, sendBlock, acked>>
networkVars == <<contents, inFlight, acksInFlight, losses>>
receiveVars == <<arrived, nextReceive, queued, newest, receiveBlock, reported>>
vars == <<sendVars, networkVars, receiveVars, error, delays>>

Positive == Nat \ {0}

ASSUME ChannelAssumption ==
    /\ Blocks \subseteq Nat
    /\ {NumFragments, SendQueueSize, ReceiveQueueSize, MaxPerPacket} \subseteq Positive
    /\ {AckBits, ReplayWindow, HalfRange} \subseteq Positive
    /\ {MaxMessages, MaxLosses, MaxDelays} \subseteq Nat

Fragments == 0 .. NumFragments - 1
NoBlock == [active |-> FALSE, id |-> 0, acked |-> {}, due |-> {}]
NothingReceived == [active |-> FALSE, id |-> 0, fragments |-> {}]

\* What a packet carries: messages, or a fragment of a block.
Messages(ids) == [type |-> "messages", ids |-> ids]
Fragment(i, f) == [type |-> "fragment", id |-> i, fragment |-> f]

Carries(s, i) == contents[s].type = "messages" /\ i \in contents[s].ids

Init ==
    /\ nextSend = 0
    /\ oldest = 0
    /\ unacked = {}
    /\ due = {}
    /\ sendBlock = NoBlock
    /\ contents = <<>>
    /\ acked = {}
    /\ inFlight = {}
    /\ acksInFlight = {}
    /\ arrived = {}
    /\ nextReceive = 0
    /\ queued = {}
    /\ newest = 0
    /\ receiveBlock = NothingReceived
    /\ reported = {}
    /\ error = "none"
    /\ losses = 0
    /\ delays = 0

\* A queue of this size keeps the numbers at the same index.
SameIndex(i, j, size) == i % size = j % size

-----------------------------------------------------------------------------
(* The sender.                                                              *)

CanSendMessage == \A i \in unacked : ~SameIndex(i, nextSend, SendQueueSize)

SendMessage ==
    /\ nextSend < MaxMessages
    /\ CanSendMessage
    /\ nextSend' = nextSend + 1
    /\ unacked' = unacked \cup {nextSend}
    /\ due' = due \cup {nextSend}
    /\ UNCHANGED <<oldest, sendBlock, acked, networkVars, receiveVars, error, delays>>

\* The program sends without asking; a full queue ends the session.
OverflowSendQueue ==
    /\ nextSend < MaxMessages
    /\ ~CanSendMessage
    /\ error' = "send queue full"
    /\ UNCHANGED <<sendVars, networkVars, receiveVars, delays>>

Transmit(content) ==
    /\ contents' = Append(contents, content)
    /\ inFlight' = inFlight \cup {Len(contents) + 1}
    /\ UNCHANGED <<acksInFlight, losses>>

Window == IF SendQueueSize < ReceiveQueueSize THEN SendQueueSize ELSE ReceiveQueueSize

\* Mutant: a block holds up only itself.
SendableAroundBlocks == {i \in due \ Blocks : i < oldest + Window}

\* The messages a packet may take: no further than the receiver can queue, and none
\* from the first block on.
Sendable ==
    {i \in due : i < oldest + Window /\ \A b \in unacked \cap Blocks : i < b}

\* Which of them fit is a matter of their sizes.
SendMessages == \E ids \in SUBSET Sendable :
    /\ ids # {}
    /\ Cardinality(ids) <= MaxPerPacket
    /\ Transmit(Messages(ids))
    /\ due' = due \ ids
    /\ UNCHANGED <<nextSend, oldest, unacked, sendBlock, acked, receiveVars, error, delays>>

\* The block that is being sent; the oldest message, if it is one, starts afresh.
CurrentBlock ==
    IF sendBlock.active THEN sendBlock
    ELSE [active |-> TRUE, id |-> oldest, acked |-> {}, due |-> Fragments]

SendFragment == \E f \in CurrentBlock.due \ CurrentBlock.acked :
    /\ oldest \in unacked \cap Blocks
    /\ \A g \in CurrentBlock.due \ CurrentBlock.acked : f <= g
    /\ Transmit(Fragment(oldest, f))
    /\ sendBlock' = [CurrentBlock EXCEPT !.due = @ \ {f}]
    /\ UNCHANGED <<nextSend, oldest, unacked, due, acked, receiveVars, error, delays>>

\* What the other end acknowledges with its next packet.
Acknowledgement == {s \in arrived : \A t \in arrived : t < s + AckBits}

\* Nothing is on its way that could still make a resend unnecessary.
Quiet == inFlight = {} /\ acksInFlight = {} /\ Acknowledgement \subseteq acked

\* Mutant: fragments are sent once.
ResendMessagesOnly ==
    /\ Quiet \/ delays < MaxDelays
    /\ delays' = IF Quiet THEN delays ELSE delays + 1
    /\ due # unacked
    /\ due' = unacked
    /\ UNCHANGED <<nextSend, oldest, unacked, sendBlock, acked, networkVars, receiveVars,
                   error>>

\* Mutant: what has been acknowledged is sent again.
ResendAll ==
    /\ Quiet \/ delays < MaxDelays
    /\ delays' = IF Quiet THEN delays ELSE delays + 1
    /\ due' = 0 .. oldest
    /\ UNCHANGED <<nextSend, oldest, unacked, sendBlock, acked, networkVars, receiveVars,
                   error>>

\* Time goes by: what has not been acknowledged may be sent again.
ResendTime ==
    /\ Quiet \/ delays < MaxDelays
    /\ delays' = IF Quiet THEN delays ELSE delays + 1
    /\ due' = unacked
    /\ sendBlock' = IF sendBlock.active THEN [sendBlock EXCEPT !.due = Fragments]
                    ELSE sendBlock
    /\ <<due', sendBlock'>> # <<due, sendBlock>>
    /\ UNCHANGED <<nextSend, oldest, unacked, acked, networkVars, receiveVars, error>>

\* UpdateOldestUnackedMessageId: to the first message that is not acknowledged.
UpdateOldest == \E i \in unacked' \cup {nextSend} :
    /\ \A j \in unacked' : i <= j
    /\ oldest' = i

\* The acknowledged fragments of the block that is being sent, with those of packets.
AckedFragments(packets) == sendBlock.acked \cup
    {f \in Fragments : \E s \in packets : contents[s] = Fragment(sendBlock.id, f)}

\* ProcessAcks, for the packets not acknowledged before.
ReceiveAcks(acks) ==
    LET new == acks \ acked
        whole == sendBlock.active /\ AckedFragments(new) = Fragments
    IN
    /\ acks \in acksInFlight
    /\ acksInFlight' = acksInFlight \ {acks}
    /\ acked' = acked \cup acks
    /\ unacked' = {i \in unacked : /\ \A s \in new : ~Carries(s, i)
                                   /\ ~(whole /\ i = sendBlock.id)}
    /\ due' = due \cap unacked'
    /\ sendBlock' = IF whole THEN NoBlock
                    ELSE IF sendBlock.active
                         THEN [sendBlock EXCEPT !.acked = AckedFragments(new)]
                         ELSE sendBlock
    /\ UpdateOldest
    /\ UNCHANGED <<nextSend, contents, inFlight, losses, receiveVars, error, delays>>

-----------------------------------------------------------------------------
(* The network.                                                             *)

LosePacket(s) ==
    /\ losses < MaxLosses
    /\ losses' = losses + 1
    /\ inFlight' = inFlight \ {s}
    /\ UNCHANGED <<sendVars, contents, acksInFlight, receiveVars, error, delays>>

LoseAcks(acks) ==
    /\ losses < MaxLosses
    /\ losses' = losses + 1
    /\ acksInFlight' = acksInFlight \ {acks}
    /\ UNCHANGED <<sendVars, contents, inFlight, receiveVars, error, delays>>

-----------------------------------------------------------------------------
(* The receiver.                                                            *)

\* Mutant: packets of any age are taken.
NeverStale(s) == FALSE

\* Too old for netcode's replay protection, which also discards what is there twice.
Stale(s) == \E t \in arrived : s + ReplayWindow <= t

\* Puts messages into the queue; what had their indices, or those of the numbers that
\* are skipped, is dropped from it.
Insert(ids) ==
    LET skipped == UNION {newest .. i : i \in ids}
        dropped == {i \in queued : \E k \in ids \cup skipped :
                        SameIndex(i, k, ReceiveQueueSize)}
    IN
    /\ queued' = (queued \ dropped) \cup ids
    /\ \E n \in {newest} \cup {i + 1 : i \in ids} :
           /\ n >= newest
           /\ \A i \in ids : i < n
           /\ newest' = n

\* ProcessPacketMessages.
AcceptMessages(ids) ==
    /\ Insert({i \in ids \ queued : i >= nextReceive /\ i < nextReceive + ReceiveQueueSize})
    /\ error' = IF \E i \in ids : i >= nextReceive + ReceiveQueueSize THEN "desync" ELSE error
    /\ UNCHANGED receiveBlock

\* The block that is being received.
Receiving(i) == IF receiveBlock.active THEN receiveBlock
                ELSE [active |-> TRUE, id |-> i, fragments |-> {}]

\* ProcessPacketFragment: a fragment of any but the next message is ignored.
AcceptFragment(i, f) ==
    LET block == [Receiving(i) EXCEPT !.fragments = @ \cup {f}] IN
    IF i # newest THEN UNCHANGED <<queued, newest, receiveBlock, error>>
    ELSE IF block.fragments # Fragments
    THEN receiveBlock' = block /\ UNCHANGED <<queued, newest, error>>
    ELSE IF \E j \in queued : SameIndex(i, j, ReceiveQueueSize)
    THEN receiveBlock' = block /\ error' = "desync" /\ UNCHANGED <<queued, newest>>
    ELSE /\ receiveBlock' = NothingReceived
         /\ Insert({i})
         /\ UNCHANGED error

Accept(content) ==
    \/ content.type = "messages" /\ AcceptMessages(content.ids)
    \/ content.type = "fragment" /\ AcceptFragment(content.id, content.fragment)

\* A packet the channel cannot accept is not acknowledged.
ReceivePacket(s) ==
    /\ inFlight' = inFlight \ {s}
    /\ IF Stale(s)
       THEN UNCHANGED <<arrived, queued, newest, receiveBlock, error>>
       ELSE /\ Accept(contents[s])
            /\ arrived' = IF error' = "none" THEN arrived \cup {s} ELSE arrived
    /\ UNCHANGED <<nextReceive, reported, sendVars, contents, acksInFlight, losses, delays>>

\* The program takes the next message.
ReceiveMessage ==
    /\ nextReceive \in queued
    /\ nextReceive' = nextReceive + 1
    /\ queued' = queued \ {nextReceive}
    /\ UNCHANGED <<arrived, newest, receiveBlock, reported, sendVars, networkVars, error, delays>>

\* Mutant: acknowledgements are sent before the messages are taken.
SendAcksAtOnce ==
    /\ ~(Acknowledgement \subseteq acked)
    /\ acksInFlight' = acksInFlight \cup {Acknowledgement}
    /\ reported' = arrived
    /\ UNCHANGED <<arrived, nextReceive, queued, newest, receiveBlock, sendVars, contents,
                   inFlight, losses, error, delays>>

\* The next packet in the other direction; both main loops send only after they have
\* taken all messages.  Acknowledgements that say nothing new are left out.
SendAcks ==
    /\ nextReceive \notin queued
    /\ ~(Acknowledgement \subseteq acked)
    /\ acksInFlight' = acksInFlight \cup {Acknowledgement}
    /\ reported' = arrived
    /\ UNCHANGED <<arrived, nextReceive, queued, newest, receiveBlock, sendVars, contents,
                   inFlight, losses, error, delays>>

-----------------------------------------------------------------------------

Next ==
    /\ error = "none"
    /\ \/ SendMessage
       \/ OverflowSendQueue
       \/ SendMessages
       \/ SendFragment
       \/ ResendTime
       \/ \E acks \in acksInFlight : ReceiveAcks(acks) \/ LoseAcks(acks)
       \/ \E s \in inFlight : ReceivePacket(s) \/ LosePacket(s)
       \/ ReceiveMessage
       \/ SendAcks

Spec == Init /\ [][Next]_vars

Up == error = "none"

\* Both ends' loops go on, time passes, and what is not lost arrives.
Fairness ==
    /\ WF_vars(Up /\ (SendMessages \/ SendFragment))
    /\ WF_vars(Up /\ ResendTime)
    /\ WF_vars(Up /\ \E acks \in acksInFlight : ReceiveAcks(acks))
    /\ WF_vars(Up /\ \E s \in inFlight : ReceivePacket(s))
    /\ WF_vars(Up /\ ReceiveMessage)
    /\ WF_vars(Up /\ SendAcks)

FairSpec == Spec /\ Fairness

-----------------------------------------------------------------------------

TypeOK ==
    /\ nextSend \in Nat
    /\ oldest \in Nat
    /\ unacked \subseteq Nat
    /\ due \subseteq unacked
    /\ sendBlock \in [active : BOOLEAN, id : Nat, acked : SUBSET Fragments,
                      due : SUBSET Fragments]
    /\ \A s \in DOMAIN contents :
           \/ contents[s] \in [type : {"messages"}, ids : SUBSET Nat]
           \/ contents[s] \in [type : {"fragment"}, id : Nat, fragment : Fragments]
    /\ inFlight \cup arrived \cup acked \subseteq DOMAIN contents
    /\ acksInFlight \subseteq SUBSET DOMAIN contents
    /\ nextReceive \in Nat
    /\ queued \subseteq Nat
    /\ newest \in Nat
    /\ receiveBlock \in [active : BOOLEAN, id : Nat, fragments : SUBSET Fragments]
    /\ error \in {"none", "send queue full", "desync"}

\* The receiver has the message i.
Has(i) == i < nextReceive \/ i \in queued

\* What the sender has forgotten the receiver has, so that nothing is lost: though a
\* packet is acknowledged even if its fragment was ignored, and though the receive queue
\* drops what shares an index.
ForgottenIsReceived == \A i \in 0 .. nextSend - 1 : i \notin unacked => Has(i)

\* The sender does not run ahead of what the receiver can queue, though it learns what
\* has arrived and not what has been taken from the queue.
NoDesync == error # "desync"

\* Which of two 16-bit numbers is the later one.
SequenceGreaterThan(s1, s2) ==
    \/ s1 > s2 /\ s1 - s2 <= HalfRange
    \/ s1 < s2 /\ s2 - s1 > HalfRange

Wrap(i) == i % (2 * HalfRange)

\* The comparisons of ProcessPacketMessages, which the code makes on 16 bits, have the
\* outcome they have on the true numbers, for every packet that may still arrive.
Comparable ==
    \A s \in inFlight : contents[s].type = "messages" /\ ~Stale(s) =>
        \A i \in contents[s].ids :
            /\ SequenceGreaterThan(Wrap(nextReceive), Wrap(i)) <=> nextReceive > i
            /\ i >= nextReceive =>
                   (SequenceGreaterThan(Wrap(i), Wrap(nextReceive + ReceiveQueueSize - 1))
                       <=> i > nextReceive + ReceiveQueueSize - 1)

\* The channel as the game sees it.
Fifo == INSTANCE FifoChannel WITH sent <- nextSend, delivered <- nextReceive, up <- Up

\* Each message is handed over once and in order, and none stays on its way while the
\* session lasts, whatever is lost: the three layers together are a queue.
ImplementsFifo == Fifo!FairSpec
=============================================================================
