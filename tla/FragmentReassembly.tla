-------------------------- MODULE FragmentReassembly --------------------------
(***************************************************************************)
(* Messages larger than the MTU: how send_packet numbers and splits them   *)
(* and how on_fragment (task.rs), FragmentBuffer, receive_reliable and     *)
(* receive_unreliable (channel.rs) put them together again, on one channel *)
(* that carries reliable and unreliable messages, fragmented or not.       *)
(*                                                                         *)
(* A command may be received in any order and any number of times, or      *)
(* never.  One fragment carries one unit of payload: the piece <<m, i>> is *)
(* the i-th unit of message m.  Sequence numbers do not wrap here, and the *)
(* receiver's reorder queue and the application's queue have room; those   *)
(* limits are the subject of ReliableChannel.                              *)
(***************************************************************************)
EXTENDS Integers, Sequences, FiniteSets

CONSTANTS
  MaxMessages,    \* bound: messages sent
  MaxFragments,   \* bound: fragments of a message
  Mixes,          \* bounds [reliable, unreliable] on the fragments of messages of
                  \* each mode (0: none is sent), of which a channel keeps to one
  MaxBuffers,     \* MAX_FRAGMENT_BUFFERS_PER_CHANNEL
  MaxBytes        \* MAX_FRAGMENT_BYTES_PER_PEER, in units

ASSUME FragmentAssumption ==
  /\ MaxMessages \in Nat /\ MaxFragments \in Nat
  /\ Mixes \subseteq [{"reliable", "unreliable"} -> 0 .. MaxFragments]
  /\ MaxBuffers \in Nat /\ MaxBytes \in Nat

VARIABLES
  \* sender
  sent,                     \* history: the messages, in order
  outgoing_reliable_seq,
  outgoing_unreliable_seq,
  net,                      \* commands sent
  acked,                    \* reliable commands the receiver has acknowledged
  \* receiver
  incoming_reliable_seq,
  incoming_reliable_queue,  \* seq -> message
  incoming_unreliable_seq,
  fragment_buffers,         \* start_seq -> FragmentBuffer
  fragment_bytes_in_flight,
  delivered                 \* what deliver has been given, in order

senderVars   == <<sent, outgoing_reliable_seq, outgoing_unreliable_seq, net>>
receiverVars == <<acked, incoming_reliable_seq, incoming_reliable_queue,
                  incoming_unreliable_seq, fragment_buffers,
                  fragment_bytes_in_flight, delivered>>
vars == <<senderVars, receiverVars>>

Hole == <<0, 0>>   \* a zeroed unit of a buffer

\* The payload of message m, cut into n units.
Payload(m, n) == [i \in 0 .. (n - 1) |-> <<m, i>>]

Empty == [s \in {} |-> Hole]

Put(f, s, v) == [x \in DOMAIN f \cup {s} |-> IF x = s THEN v ELSE f[x]]

Drop(f, S) == [x \in DOMAIN f \ S |-> f[x]]

Init ==
  /\ sent = <<>> /\ net = {} /\ acked = {}
  /\ outgoing_reliable_seq = 0 /\ outgoing_unreliable_seq = 0
  /\ incoming_reliable_seq = 0 /\ incoming_unreliable_seq = 0
  /\ incoming_reliable_queue = Empty /\ fragment_buffers = Empty
  /\ fragment_bytes_in_flight = 0 /\ delivered = <<>>

----------------------------------------------------------------------------
(* send_packet.  A message that fits one datagram (count 1) is sent whole.  *)
(* Every reliable fragment takes a sequence number of its own; the          *)
(* fragments of an unreliable message share one.                            *)

Command(m, mode, start, seq, n, i) ==
  [msg |-> m, mode |-> mode, start |-> start, reliable_seq |-> seq,
   count |-> n, number |-> i]

\* What applications send on one channel.
Mixed(messages) ==
  \E mix \in Mixes : \A i \in DOMAIN messages : messages[i].count <= mix[messages[i].mode]

SendReliable(n) ==
  LET m == Len(sent) + 1
      start == outgoing_reliable_seq + 1
  IN  /\ Len(sent) < MaxMessages
      /\ outgoing_reliable_seq' = outgoing_reliable_seq + n
      /\ sent' = Append(sent, [mode |-> "reliable", start |-> start, count |-> n,
                               epoch |-> outgoing_reliable_seq])
      /\ Mixed(sent')
      /\ net' = net \cup {Command(m, "reliable", start, start + i, n, i) : i \in 0 .. (n - 1)}
      /\ UNCHANGED <<outgoing_unreliable_seq, receiverVars>>

SendUnreliable(n) ==
  LET m == Len(sent) + 1
      start == outgoing_unreliable_seq + 1
  IN  /\ Len(sent) < MaxMessages
      /\ outgoing_unreliable_seq' = start
      /\ sent' = Append(sent, [mode |-> "unreliable", start |-> start, count |-> n,
                               epoch |-> outgoing_reliable_seq])
      /\ Mixed(sent')
      /\ net' = net \cup {Command(m, "unreliable", start, outgoing_reliable_seq, n, i)
                            : i \in 0 .. (n - 1)}
      /\ UNCHANGED <<outgoing_reliable_seq, receiverVars>>

----------------------------------------------------------------------------
(* channel.rs.  The handlers below give the new state of the channel.       *)

\* The run of consecutive sequence numbers after seq that are queued.
Drained(seq, queue) ==
  {s \in DOMAIN queue : s > seq /\ \A t \in (seq + 1) .. s : t \in DOMAIN queue}

\* Release first, then the queued run behind it: the state after seq.
Release(first, seq, queue) ==
  LET run == Drained(seq, queue)
      d   == Cardinality(run)
  IN  [seq |-> seq + d, queue |-> Drop(queue, run),
       out |-> first \o [i \in 1 .. d |-> queue[seq + i]]]

\* Channel::receive_reliable.
ReceiveReliable(seq, data) ==
  LET expected == incoming_reliable_seq + 1
  IN  IF seq = expected THEN Release(<<data>>, seq, incoming_reliable_queue)
      ELSE [seq |-> incoming_reliable_seq, out |-> <<>>,
            queue |-> IF seq > expected THEN Put(incoming_reliable_queue, seq, data)
                      ELSE incoming_reliable_queue]

\* The messages released are handed to deliver, and the channel takes state r.
CommitReliable(r) ==
  /\ incoming_reliable_seq' = r.seq
  /\ incoming_reliable_queue' = r.queue
  /\ delivered' = delivered \o [i \in 1 .. Len(r.out) |->
                                  [mode |-> "reliable", data |-> r.out[i]]]
  /\ UNCHANGED incoming_unreliable_seq

\* Channel::receive_unreliable, and deliver if it accepts the message.
ReceiveUnreliable(seq, data) ==
  /\ IF seq > incoming_unreliable_seq
     THEN /\ incoming_unreliable_seq' = seq
          /\ delivered' = Append(delivered, [mode |-> "unreliable", data |-> data])
     ELSE UNCHANGED <<incoming_unreliable_seq, delivered>>
  /\ UNCHANGED <<incoming_reliable_seq, incoming_reliable_queue>>

\* on_command pushes the ACK of a reliable command before it handles it.
Acknowledge(c) ==
  acked' = IF c.mode = "reliable" THEN acked \cup {c} ELSE acked

\* on_command, CMD_SEND_RELIABLE.
RecvReliable(c) ==
  /\ c.mode = "reliable" /\ c.count = 1
  /\ Acknowledge(c)
  /\ CommitReliable(ReceiveReliable(c.start, Payload(c.msg, 1)))
  /\ UNCHANGED <<senderVars, fragment_buffers, fragment_bytes_in_flight>>

\* Mutant: without the epoch check.
RecvUnreliable_AnyEpoch(c) ==
  /\ c.mode = "unreliable" /\ c.count = 1
  /\ ReceiveUnreliable(c.start, Payload(c.msg, 1))
  /\ UNCHANGED <<senderVars, acked, fragment_buffers, fragment_bytes_in_flight>>

\* on_command, CMD_SEND_UNRELIABLE: dropped when it belongs to an older
\* reliable epoch than the one received.
RecvUnreliable(c) ==
  /\ c.mode = "unreliable" /\ c.count = 1
  /\ c.reliable_seq >= incoming_reliable_seq
  /\ ReceiveUnreliable(c.start, Payload(c.msg, 1))
  /\ UNCHANGED <<senderVars, acked, fragment_buffers, fragment_bytes_in_flight>>

----------------------------------------------------------------------------
(* on_fragment.                                                             *)

\* Mutant: one fragment too few is waited for.
NewBuffer_OneShort(c) ==
  [count |-> c.count - 1, mask |-> {}, buf |-> [i \in 0 .. (c.count - 1) |-> Hole]]

\* FragmentBuffer::new, from the first fragment that names start_seq.
NewBuffer(c) ==
  [count |-> c.count, mask |-> {}, buf |-> [i \in 0 .. (c.count - 1) |-> Hole]]

\* There is a buffer for c, or one may be opened.
Admitted(c) ==
  \/ c.start \in DOMAIN fragment_buffers
  \/ /\ Cardinality(DOMAIN fragment_buffers) < MaxBuffers
     /\ fragment_bytes_in_flight + c.count <= MaxBytes

\* FragmentBuffer::receive: duplicates, and pieces beyond the end, are refused.
Store(b, c) ==
  IF c.number \in b.mask \/ c.number \notin DOMAIN b.buf THEN b
  ELSE [b EXCEPT !.mask = @ \cup {c.number}, !.buf[c.number] = <<c.msg, c.number>>]

\* Mutant: the budget of a completed message is not released.
Freed_Nothing(bytes, c) == bytes

\* The budget after the reassembly that c completes.
Freed(bytes, c) == IF bytes > c.count THEN bytes - c.count ELSE 0

\* Mutant: one number too many is skipped.
CompleteReliable_SkipsOneMore(c, data) ==
  LET r == ReceiveReliable(c.start, data)
  IN  IF r.out # <<>> THEN CommitReliable(Release(r.out, r.seq + c.count, r.queue))
      ELSE CommitReliable(r)

\* The assembled message goes through receive_reliable at its first number;
\* if that releases it, its other numbers are skipped and the queue drained.
CompleteReliable(c, data) ==
  LET r == ReceiveReliable(c.start, data)
  IN  IF r.out # <<>> /\ c.count > 1
      THEN CommitReliable(Release(r.out, r.seq + c.count - 1, r.queue))
      ELSE CommitReliable(r)

\* A fragment is stored; the one that completes its message releases it.
RecvFragment(c) ==
  /\ c.count > 1 /\ Acknowledge(c)
  /\ UNCHANGED senderVars
  /\ \/ /\ ~Admitted(c)
        /\ UNCHANGED <<fragment_buffers, fragment_bytes_in_flight, delivered,
                       incoming_reliable_seq, incoming_reliable_queue,
                       incoming_unreliable_seq>>
     \/ /\ Admitted(c)
        /\ LET new    == c.start \notin DOMAIN fragment_buffers
               before == IF new THEN NewBuffer(c) ELSE fragment_buffers[c.start]
               b      == Store(before, c)
               bytes  == fragment_bytes_in_flight + (IF new THEN c.count ELSE 0)
               done   == b # before /\ Cardinality(b.mask) = b.count
           IN  \/ /\ ~done
                  /\ fragment_buffers' = Put(fragment_buffers, c.start, b)
                  /\ fragment_bytes_in_flight' = bytes
                  /\ UNCHANGED <<delivered, incoming_reliable_seq,
                                 incoming_reliable_queue, incoming_unreliable_seq>>
               \/ /\ done
                  /\ fragment_buffers' = Drop(fragment_buffers, {c.start})
                  /\ fragment_bytes_in_flight' = Freed(bytes, c)
                  /\ IF c.mode = "reliable" THEN CompleteReliable(c, b.buf)
                     ELSE ReceiveUnreliable(c.start, b.buf)

Next ==
  \/ \E n \in 1 .. MaxFragments : SendReliable(n)
  \/ \E n \in 1 .. MaxFragments : SendUnreliable(n)
  \/ \E c \in net : RecvReliable(c) \/ RecvUnreliable(c) \/ RecvFragment(c)

Spec == Init /\ [][Next]_vars

----------------------------------------------------------------------------
(* Properties.                                                              *)

\* The places in delivered, and in sent, of the messages of a mode.
Delivered(mode) == {i \in 1 .. Len(delivered) : delivered[i].mode = mode}
SentBy(mode) == {m \in 1 .. Len(sent) : sent[m].mode = mode}

\* The message a delivered payload claims to be.
MessageOf(d) == d.data[0][1]

\* The receiver never runs ahead of the sender, opens no more buffers than
\* MAX_FRAGMENT_BUFFERS_PER_CHANNEL, and marks only fragments it has room for.
TypeOK ==
  /\ outgoing_reliable_seq \in Nat /\ incoming_reliable_seq \in 0 .. outgoing_reliable_seq
  /\ outgoing_unreliable_seq \in Nat
  /\ incoming_unreliable_seq \in 0 .. outgoing_unreliable_seq
  /\ acked \subseteq net
  /\ Cardinality(DOMAIN fragment_buffers) <= MaxBuffers
  /\ \A s \in DOMAIN fragment_buffers :
       fragment_buffers[s].mask \subseteq DOMAIN fragment_buffers[s].buf

(* Buffers are found by the first number of a message, and the two modes    *)
(* are numbered apart: fragments of a reliable and of an unreliable message *)
(* with the same first number end up in one buffer.  What is promised       *)
(* holds until two such messages have been sent.                            *)

\* No two fragmented messages on the channel have the same first number.
NoClash ==
  \A l, m \in 1 .. Len(sent) :
    sent[l].count > 1 /\ sent[m].count > 1 /\ sent[l].start = sent[m].start => l = m

\* What deliver is given is a whole message, every unit from that message and
\* in its place: no hole, no piece of another message (on_fragment,
\* FragmentBuffer::receive).  protocol.md: "delivery occurs when all
\* fragmentCount fragments have arrived".
DeliveredWhole ==
  \A i \in 1 .. Len(delivered) :
    delivered[i].data = Payload(MessageOf(delivered[i]), sent[MessageOf(delivered[i])].count)

\* Until first numbers clash, only whole messages are delivered, also when
\* fragmented messages of both modes are reassembled side by side.
Intact == NoClash => DeliveredWhole

\* Until first numbers clash, reliable messages are delivered in the order in
\* which they were sent, each once and none skipped, however their fragments
\* were reordered or repeated: the ones delivered before a message are the
\* ones sent before it.
ReliablePrefix ==
  NoClash =>
    \A j \in Delivered("reliable") :
      /\ MessageOf(delivered[j]) \in SentBy("reliable")
      /\ {MessageOf(delivered[i]) : i \in {i \in Delivered("reliable") : i < j}}
           = {m \in SentBy("reliable") : m < MessageOf(delivered[j])}

\* Unreliable messages, fragmented or not, are delivered in sending order and
\* at most once: late arrivals are discarded (receive_unreliable).
UnreliableOrder ==
  \A i, j \in Delivered("unreliable") :
    i < j => MessageOf(delivered[i]) < MessageOf(delivered[j])

\* The units of payload the open buffers have room for.
Reserved == UNION {{s} \X DOMAIN fragment_buffers[s].buf : s \in DOMAIN fragment_buffers}

\* fragment_bytes_in_flight is what the open buffers hold, and stays within
\* the budget of the peer: releases match reservations.
BudgetExact ==
  /\ fragment_bytes_in_flight = Cardinality(Reserved)
  /\ fragment_bytes_in_flight <= MaxBytes

\* The j-th message delivered was not sent before a reliable message that was
\* delivered before it.
InEpoch(j) ==
  \A i \in Delivered("reliable") : i < j => MessageOf(delivered[i]) < MessageOf(delivered[j])

\* An unreliable message that was sent whole is not delivered once a reliable
\* message that was sent after it has been delivered: the epoch check of
\* CMD_SEND_UNRELIABLE, which on_fragment does not make.
EpochRespected ==
  \A j \in Delivered("unreliable") : sent[MessageOf(delivered[j])].count = 1 => InEpoch(j)

\* Until first numbers clash, the reassembly buffers are within their limits and
\* fragment_bytes_in_flight is what they hold.
BuffersExact == NoClash => TypeOK /\ BudgetExact

\* Until first numbers clash, unreliable messages come in their turn, among
\* themselves and, if they were sent whole, with respect to reliable ones.
UnreliableInTurn == NoClash => UnreliableOrder /\ EpochRespected

\* task.rs, at the epoch check: drop if this unreliable belongs to an older
\* reliable epoch than we've received, fragmented or not.
EveryEpochRespected == \A j \in Delivered("unreliable") : InEpoch(j)

\* task.rs says that the next expected number after a fragmented message is
\* the one behind its last fragment: once every reliable command has been
\* acknowledged, so that none is sent again, all messages are delivered.
NoStall ==
  (\A c \in net : c.mode = "reliable" => c \in acked)
    => Cardinality(Delivered("reliable")) = Cardinality(SentBy("reliable"))

\* task.rs calls fragment_bytes_in_flight the bytes of reassemblies in
\* progress: no buffer is held for a message that has been delivered.
BuffersInProgress ==
  \A s \in DOMAIN fragment_buffers : \A i \in 1 .. Len(delivered) :
    \A n \in fragment_buffers[s].mask :
      fragment_buffers[s].buf[n][1] # MessageOf(delivered[i])
=============================================================================
