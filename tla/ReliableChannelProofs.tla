------------------------ MODULE ReliableChannelProofs ------------------------
(***************************************************************************)
(* Proofs about ReliableChannel, for every sequence space, window, queue   *)
(* size, number of packets and number of retransmissions.                  *)
(***************************************************************************)
EXTENDS ReliableChannel, SeqNumProofs, SequenceTheorems, FiniteSetTheorems,
        FunctionTheorems, TLAPS

\* Commands, outstanding records and acknowledgements are well formed.
LEMMA CommandTyped ==
  ASSUME NEW kind \in Kinds, NEW i \in Nat
  PROVE  Command(kind, i) \in CommandSet
  BY WrapType DEF Command, CommandSet

LEMMA AckTyped ==
  ASSUME NEW c \in CommandSet
  PROVE  Ack(c) \in AckSet
  BY DEF Ack, AckSet, CommandSet, Chan

\* BTreeMap::insert keeps the map well formed.
LEMMA InsertTyped ==
  ASSUME NEW out, out \subseteq OutstandingSet, NEW new, new \subseteq CommandSet
  PROVE  InsertAll(out, new) \subseteq OutstandingSet
  BY ChannelAssumption DEF InsertAll, Outstanding, OutstandingSet

\* What Transmit leaves behind is well formed.
LEMMA TransmitTyped ==
  ASSUME TypeOK, NEW pkts \in Seq(1 .. MaxPackets),
         NEW out, out \subseteq OutstandingSet,
         NEW others, others \subseteq CommandSet,
         Transmit(pkts, out, others)
  PROVE  /\ outgoing_reliable_seq' \in SeqNo
         /\ wire' \in Seq(1 .. MaxPackets)
         /\ outgoing_reliable' \subseteq OutstandingSet
         /\ net' \subseteq CommandSet
         /\ acks' \subseteq AckSet
<1> DEFINE new == {Command("DATA", Len(wire) + i) : i \in 1 .. Len(pkts)}
<1>1. wire \in Seq(1 .. MaxPackets) /\ Len(wire) \in Nat /\ Len(pkts) \in Nat
  BY DEF TypeOK
<1>2. new \subseteq CommandSet
  BY <1>1, CommandTyped DEF Kinds
<1>3. outgoing_reliable_seq' \in SeqNo
  BY <1>1, WrapType DEF TypeOK, Transmit, WrapAdd, Wrap, SeqNo
<1>4. wire' \in Seq(1 .. MaxPackets)
  BY <1>1, ConcatProperties DEF Transmit
<1>5. outgoing_reliable' \subseteq OutstandingSet
  BY <1>2, InsertTyped DEF Transmit
<1>6. net' \subseteq CommandSet
  BY <1>2 DEF Transmit, Fresh, TypeOK
<1>7. acks' \subseteq AckSet
  BY DEF Transmit, Fresh, TypeOK
<1> QED BY <1>3, <1>4, <1>5, <1>6, <1>7

\* What a connection-level command leaves behind is well formed.
LEMMA SendControlTyped ==
  ASSUME TypeOK, NEW kind \in Kinds, SendControl(kind)
  PROVE  /\ outgoing_reliable' \subseteq OutstandingSet
         /\ net' \subseteq CommandSet
         /\ control_seq' \in Nat
<1>1. Command(kind, control_seq + 1) \in CommandSet
  BY CommandTyped DEF TypeOK
<1>2. /\ outgoing_reliable \subseteq OutstandingSet /\ net \subseteq CommandSet
      /\ control_seq \in Nat
  BY DEF TypeOK
<1> QED BY <1>1, <1>2, InsertTyped DEF SendControl

\* Retransmission keeps the outstanding records well formed.
LEMMA RetransmitTyped ==
  ASSUME TypeOK, NEW due \in SUBSET Retriable
  PROVE  /\ {Outstanding(r.cmd, r.attempts + 1) : r \in due} \subseteq OutstandingSet
         /\ {r.cmd : r \in due} \subseteq CommandSet
         /\ outgoing_reliable \ due \subseteq OutstandingSet
<1>1. outgoing_reliable \subseteq OutstandingSet
  BY DEF TypeOK
<1>2. due \subseteq outgoing_reliable
  BY DEF Retriable
<1>3. ASSUME NEW r \in due
      PROVE  r.cmd \in CommandSet /\ Outstanding(r.cmd, r.attempts + 1) \in OutstandingSet
  <2>1. r \in OutstandingSet /\ r.attempts < MaxAttempts
    BY <1>1, <1>2 DEF Retriable
  <2>2. r.cmd \in CommandSet /\ r.attempts \in 1 .. MaxAttempts
    BY <2>1 DEF OutstandingSet
  <2>3. r.attempts + 1 \in 1 .. MaxAttempts
    BY <2>1, <2>2, ChannelAssumption
  <2> QED BY <2>2, <2>3 DEF Outstanding, OutstandingSet
<1>4. {Outstanding(r.cmd, r.attempts + 1) : r \in due} \subseteq OutstandingSet
  BY <1>3
<1>5. {r.cmd : r \in due} \subseteq CommandSet
  BY <1>3
<1> QED BY <1>1, <1>4, <1>5

\* deliver never overfills the application's queue.
LEMMA DeliverTyped ==
  ASSUME TypeOK, NEW pkts \in Seq(Nat), Deliver(pkts)
  PROVE  /\ to_user' \in Seq(Nat) /\ Len(to_user') <= UserCap
         /\ dropped' \subseteq Nat
<1> DEFINE room == UserCap - Len(to_user)
           k == IF Len(pkts) < room THEN Len(pkts) ELSE room
<1>1. k \in Nat /\ k <= Len(pkts) /\ k <= room /\ Len(pkts) \in Nat
  BY ChannelAssumption DEF TypeOK
<1>2. SubSeq(pkts, 1, k) \in Seq(Nat) /\ Len(SubSeq(pkts, 1, k)) <= k
  BY <1>1, SubSeqProperties
<1>3. to_user' = to_user \o SubSeq(pkts, 1, k)
      /\ dropped' = dropped \cup {pkts[i] : i \in (k + 1) .. Len(pkts)}
  BY DEF Deliver
<1> HIDE DEF k
<1>4. to_user' \in Seq(Nat) /\ Len(to_user') = Len(to_user) + Len(SubSeq(pkts, 1, k))
  BY <1>2, <1>3, ConcatProperties DEF TypeOK
<1>5. Len(to_user') <= UserCap
  BY <1>1, <1>2, <1>4, ChannelAssumption DEF TypeOK
<1>6. dropped' \subseteq Nat
  <2>1. \A i \in (k + 1) .. Len(pkts) : i \in 1 .. Len(pkts)
    BY <1>1
  <2>2. \A i \in 1 .. Len(pkts) : pkts[i] \in Nat
    OBVIOUS
  <2> QED BY <1>3, <2>1, <2>2 DEF TypeOK
<1> QED BY <1>4, <1>5, <1>6

LEMMA ArriveTyped ==
  ASSUME TypeOK, NEW c \in net, Arrive(c)
  PROVE  net' \subseteq CommandSet /\ acks' \subseteq AckSet
  BY AckTyped DEF TypeOK, Arrive

\* The initial state is well formed.
LEMMA InitTyped == Init => TypeOK
  BY ChannelAssumption, HalfModFacts DEF Init, TypeOK, SeqNo

\* receive_reliable keeps the receiving channel well formed.
LEMMA ReceiveExpectedTyped ==
  ASSUME TypeOK, NEW c \in net, ReceiveExpected(c)
  PROVE  /\ incoming_reliable_seq' \in SeqNo
         /\ incoming_reliable_queue' \subseteq CommandSet
         /\ released' \in Seq(Nat) /\ dropped' \subseteq Nat
         /\ to_user' \in Seq(Nat) /\ Len(to_user') <= UserCap
<1>1. PICK d \in 0 .. (SeqRange - 1) :
        /\ \A i \in 1 .. d : Buffered(WrapAdd(c.seq, i))
        /\ LET run == [i \in 1 .. (d + 1) |->
                         IF i = 1 THEN c.idx ELSE BufferedAt(WrapAdd(c.seq, i - 1)).idx]
           IN  released' = released \o run /\ Deliver(run)
        /\ incoming_reliable_seq' = WrapAdd(c.seq, d)
        /\ incoming_reliable_queue' \subseteq incoming_reliable_queue
  BY DEF ReceiveExpected
<1> DEFINE run == [i \in 1 .. (d + 1) |->
                     IF i = 1 THEN c.idx ELSE BufferedAt(WrapAdd(c.seq, i - 1)).idx]
<1>2. c.seq \in SeqNo /\ c.idx \in Nat /\ d \in Nat
  BY SeqRangeAssumption DEF TypeOK, CommandSet
<1>3. \A i \in 1 .. d : BufferedAt(WrapAdd(c.seq, i)).idx \in Nat
  <2> SUFFICES ASSUME NEW i \in 1 .. d
               PROVE  BufferedAt(WrapAdd(c.seq, i)).idx \in Nat
    OBVIOUS
  <2>1. BufferedAt(WrapAdd(c.seq, i)) \in incoming_reliable_queue
    BY <1>1 DEF Buffered, BufferedAt
  <2> QED BY <2>1 DEF TypeOK, CommandSet
<1>4. run \in Seq(Nat)
  <2>1. \A i \in 1 .. (d + 1) : i # 1 => i - 1 \in 1 .. d
    BY <1>2
  <2>2. \A i \in 1 .. (d + 1) : run[i] \in Nat
    BY <1>2, <1>3, <2>1
  <2> QED BY <1>2, <2>2
<1>5. released' = released \o run /\ Deliver(run)
  BY <1>1
<1> HIDE DEF run
<1>6. released' \in Seq(Nat)
  BY <1>4, <1>5, ConcatProperties DEF TypeOK
<1>7. incoming_reliable_seq' \in SeqNo
  <2>1. c.seq \in Int /\ d \in Int
    BY <1>2, SeqRangeAssumption DEF SeqNo
  <2> QED BY <1>1, <2>1, WrapAddType
<1> QED BY <1>1, <1>4, <1>5, <1>6, <1>7, DeliverTyped DEF TypeOK

LEMMA CloseReceiverTyped ==
  ASSUME TypeOK, CloseReceiver
  PROVE  /\ alive' \in BOOLEAN
         /\ to_user' \in Seq(Nat) /\ Len(to_user') <= UserCap
<1>1. to_user \in Seq(Nat) /\ Len(to_user) \in Nat /\ Len(to_user) <= UserCap
  BY DEF TypeOK
<1>2. /\ Append(to_user, DisconnectEvent) \in Seq(Nat)
      /\ Len(Append(to_user, DisconnectEvent)) = Len(to_user) + 1
  BY <1>1, AppendProperties, DisconnectEvent \in Nat DEF DisconnectEvent
<1>3. CASE Len(to_user) < UserCap
  <2>1. to_user' = Append(to_user, DisconnectEvent)
    BY <1>3 DEF CloseReceiver
  <2>2. to_user' \in Seq(Nat) /\ Len(to_user') <= UserCap
    BY <1>1, <1>2, <1>3, <2>1, ChannelAssumption
  <2> QED BY <2>2 DEF CloseReceiver
<1>4. CASE ~(Len(to_user) < UserCap)
  <2>1. to_user' = to_user /\ alive' = FALSE
    BY <1>4 DEF CloseReceiver
  <2> QED BY <1>1, <2>1
<1> QED BY <1>3, <1>4

\* Every step of the sending host keeps the state well formed.
LEMMA SenderTyped ==
  ASSUME TypeOK, UserSend \/ UserDisconnect \/ AdjustWindow \/ Service
  PROVE  TypeOK'
<1>1. CASE UserSend
  <2>1. submitted + 1 \in 1 .. MaxPackets /\ submitted' \in 0 .. MaxPackets
    BY <1>1, ChannelAssumption DEF UserSend, TypeOK
  <2>2. CASE state = "Connected" /\ WindowOpen(1)
    <3> DEFINE pkts == <<submitted + 1>>
               others == {}
    <3>1. Transmit(pkts, outgoing_reliable, others) /\ UNCHANGED pending_send
      BY <1>1, <2>2 DEF UserSend
    <3>2. pkts \in Seq(1 .. MaxPackets)
      BY <2>1
    <3>3. outgoing_reliable \subseteq OutstandingSet /\ others \subseteq CommandSet
      BY DEF TypeOK
    <3> HIDE DEF pkts, others
    <3>4. /\ outgoing_reliable_seq' \in SeqNo
          /\ wire' \in Seq(1 .. MaxPackets)
          /\ outgoing_reliable' \subseteq OutstandingSet
          /\ net' \subseteq CommandSet
          /\ acks' \subseteq AckSet
      BY <3>1, <3>2, <3>3, TransmitTyped
    <3> QED BY <1>1, <2>1, <3>1, <3>4 DEF UserSend, TypeOK, receiverVars
  <2>3. CASE state = "Connected" /\ ~WindowOpen(1)
    <3>1. pending_send' \in Seq(1 .. MaxPackets) /\ Len(pending_send') <= MaxPending
      <4>1. pending_send' = IF Len(pending_send) < MaxPending
                            THEN Append(pending_send, submitted + 1)
                            ELSE pending_send
        BY <1>1, <2>3 DEF UserSend
      <4>2. /\ Append(pending_send, submitted + 1) \in Seq(1 .. MaxPackets)
            /\ Len(Append(pending_send, submitted + 1)) = Len(pending_send) + 1
            /\ Len(pending_send) \in Nat
        BY <2>1, AppendProperties DEF TypeOK
      <4>3. CASE Len(pending_send) < MaxPending
        BY <4>1, <4>2, <4>3, ChannelAssumption
      <4>4. CASE ~(Len(pending_send) < MaxPending)
        BY <4>1, <4>4 DEF TypeOK
      <4> QED BY <4>3, <4>4
    <3> QED BY <1>1, <2>1, <2>3, <3>1 DEF UserSend, TypeOK, receiverVars
  <2>4. CASE state # "Connected"
    BY <1>1, <2>1, <2>4 DEF UserSend, TypeOK, receiverVars
  <2> QED BY <2>2, <2>3, <2>4
<1>2. CASE UserDisconnect
  <2>1. SendControl("DISCONNECT") => /\ outgoing_reliable' \subseteq OutstandingSet
                                     /\ net' \subseteq CommandSet
                                     /\ control_seq' \in Nat
    BY SendControlTyped DEF Kinds
  <2> QED BY <1>2, <2>1 DEF UserDisconnect, TypeOK, receiverVars
<1>3. CASE AdjustWindow
  BY <1>3 DEF AdjustWindow, TypeOK, receiverVars
<1>4. CASE ServiceTimeout
  BY <1>4, ChannelAssumption DEF ServiceTimeout, RemovePeer, TypeOK, receiverVars
<1>5. ASSUME NEW due \in SUBSET Retriable, NEW ping \in BOOLEAN,
             ServiceConnected(due, ping)
      PROVE  TypeOK'
  <2> DEFINE again == {Outstanding(r.cmd, r.attempts + 1) : r \in due}
             pings == IF ping THEN {Command("PING", control_seq + 1)} ELSE {}
             out == InsertAll(outgoing_reliable \ due, pings) \cup again
             others == {r.cmd : r \in due} \cup pings
  <2>1. PICK k \in 0 .. Len(pending_send) :
          /\ Transmit(SubSeq(pending_send, 1, k), out, others)
          /\ pending_send' = SubSeq(pending_send, k + 1, Len(pending_send))
    BY <1>5 DEF ServiceConnected
  <2>2. pings \subseteq CommandSet
    <3>1. Command("PING", control_seq + 1) \in CommandSet
      BY CommandTyped DEF Kinds, TypeOK
    <3> QED BY <3>1
  <2>3. out \subseteq OutstandingSet /\ others \subseteq CommandSet
    <3>1. /\ again \subseteq OutstandingSet
          /\ {r.cmd : r \in due} \subseteq CommandSet
          /\ outgoing_reliable \ due \subseteq OutstandingSet
      BY RetransmitTyped
    <3> HIDE DEF again, pings
    <3>2. InsertAll(outgoing_reliable \ due, pings) \subseteq OutstandingSet
      BY <2>2, <3>1, InsertTyped
    <3> QED BY <2>2, <3>1, <3>2
  <2>4. pending_send \in Seq(1 .. MaxPackets) /\ Len(pending_send) \in Nat
        /\ k \in Nat /\ k <= Len(pending_send)
    BY DEF TypeOK
  <2>5. SubSeq(pending_send, 1, k) \in Seq(1 .. MaxPackets)
    <3>1. \A i \in 1 .. k : pending_send[i] \in 1 .. MaxPackets
      BY <2>4, ChannelAssumption, ElementOfSeq
    <3> QED BY <2>4, <3>1, SubSeqProperties
  <2>6. pending_send' \in Seq(1 .. MaxPackets) /\ Len(pending_send') <= MaxPending
    <3>1. \A i \in (k + 1) .. Len(pending_send) : pending_send[i] \in 1 .. MaxPackets
      BY <2>4, ChannelAssumption, ElementOfSeq
    <3>2. /\ pending_send' \in Seq(1 .. MaxPackets)
          /\ Len(pending_send') = IF k + 1 <= Len(pending_send)
                                  THEN Len(pending_send) - (k + 1) + 1 ELSE 0
      BY <2>1, <2>4, <3>1, SubSeqProperties
    <3> QED BY <2>4, <3>2, ChannelAssumption DEF TypeOK
  <2> HIDE DEF out, others
  <2>7. /\ outgoing_reliable_seq' \in SeqNo
        /\ wire' \in Seq(1 .. MaxPackets)
        /\ outgoing_reliable' \subseteq OutstandingSet
        /\ net' \subseteq CommandSet
        /\ acks' \subseteq AckSet
    BY <2>1, <2>3, <2>5, TransmitTyped
  <2> QED BY <1>5, <2>6, <2>7 DEF ServiceConnected, TypeOK, receiverVars
<1>6. ASSUME NEW due \in SUBSET Retriable, ServiceClosing(due)
      PROVE  TypeOK'
  <2>1. /\ outgoing_reliable' \subseteq OutstandingSet
        /\ net' \subseteq CommandSet
        /\ control_seq' \in Nat
    <3>1. CASE SendControl("DISCONNECT")
      BY <3>1, SendControlTyped DEF Kinds
    <3>2. CASE ~SendControl("DISCONNECT")
      BY <1>6, <3>2, RetransmitTyped DEF ServiceClosing, TypeOK
    <3> QED BY <3>1, <3>2
  <2> QED BY <1>6, <2>1, ChannelAssumption DEF ServiceClosing, TypeOK, receiverVars
<1> QED BY <1>1, <1>2, <1>3, <1>4, <1>5, <1>6 DEF Service

\* Every step of the network, of on_ack and of the receiving host does, too.
LEMMA ReceiverTyped ==
  ASSUME TypeOK,
         \/ Lose \/ ReceiverTimeout \/ UserRecv
         \/ \E a \in acks : OnAck(a)
         \/ \E c \in net : RecvReliable(c) \/ RecvPing(c) \/ RecvDisconnect(c)
  PROVE  TypeOK'
<1>1. CASE Lose
  BY <1>1 DEF Lose, TypeOK, senderVars, receiverVars
<1>2. CASE ReceiverTimeout
  BY <1>2, CloseReceiverTyped
  DEF ReceiverTimeout, CloseReceiver, TypeOK, senderVars
<1>3. CASE UserRecv
  <2>1. /\ Tail(to_user) \in Seq(Nat) /\ Len(Tail(to_user)) = Len(to_user) - 1
        /\ Head(to_user) \in Nat
    BY <1>3, HeadTailProperties DEF UserRecv, TypeOK
  <2>2. received' \in Seq(Nat)
    BY <1>3, <2>1, AppendProperties DEF UserRecv, TypeOK
  <2>3. Len(to_user') <= UserCap
    BY <1>3, <2>1, ChannelAssumption DEF UserRecv, TypeOK
  <2> QED BY <1>3, <2>1, <2>2, <2>3 DEF UserRecv, TypeOK, senderVars
<1>4. ASSUME NEW a \in acks, OnAck(a)
      PROVE  TypeOK'
  <2>1. /\ state' \in {state, "Removed"}
        /\ outgoing_reliable' \subseteq outgoing_reliable
        /\ pending_send' \in {pending_send, <<>>}
        /\ acks' \subseteq acks
    BY <1>4 DEF OnAck, RemovePeer
  <2>2. pending_send' \in Seq(1 .. MaxPackets) /\ Len(pending_send') <= MaxPending
    <3>1. CASE pending_send' = pending_send
      BY <3>1 DEF TypeOK
    <3>2. CASE pending_send' = <<>>
      BY <3>2, ChannelAssumption
    <3> QED BY <2>1, <3>1, <3>2
  <2> QED BY <1>4, <2>1, <2>2 DEF OnAck, TypeOK, receiverVars
<1>5. ASSUME NEW c \in net, RecvReliable(c)
      PROVE  TypeOK'
  <2>1. net' \subseteq CommandSet /\ acks' \subseteq AckSet
    BY <1>5, ArriveTyped DEF RecvReliable
  <2>2. CASE ReceiveExpected(c)
    <3>1. refused' = refused
      BY <2>2 DEF ReceiveExpected
    <3> QED BY <1>5, <2>1, <2>2, <3>1, ReceiveExpectedTyped DEF RecvReliable, TypeOK, senderVars
  <2>3. CASE ReceiveAhead(c)
    <3>1. c \in CommandSet /\ c.idx \in Nat
      BY DEF TypeOK, CommandSet
    <3>2. refused' \subseteq Nat
      BY <2>3, <3>1 DEF ReceiveAhead, TypeOK
    <3>3. incoming_reliable_queue' \subseteq CommandSet
      BY <2>3, <3>1 DEF ReceiveAhead, TypeOK
    <3> QED BY <1>5, <2>1, <2>3, <3>2, <3>3 DEF RecvReliable, ReceiveAhead, TypeOK, senderVars
  <2>4. CASE ReceiveOld(c)
    BY <1>5, <2>1, <2>4 DEF RecvReliable, ReceiveOld, TypeOK, senderVars
  <2> QED BY <1>5, <2>2, <2>3, <2>4 DEF RecvReliable
<1>6. ASSUME NEW c \in net, RecvPing(c)
      PROVE  TypeOK'
  BY <1>6, ArriveTyped DEF RecvPing, TypeOK, senderVars, receiverVars
<1>7. ASSUME NEW c \in net, RecvDisconnect(c)
      PROVE  TypeOK'
  BY <1>7, ArriveTyped, CloseReceiverTyped
  DEF RecvDisconnect, CloseReceiver, TypeOK, senderVars
<1> QED BY <1>1, <1>2, <1>3, <1>4, <1>5, <1>6, <1>7

\* Type correctness: the state of both hosts and of the network stays well
\* formed, the application's queue within its capacity and pending_send
\* within its cap, whatever the network and the applications do.
THEOREM TypeCorrect == Spec => []TypeOK
<1>1. TypeOK /\ [Next]_vars => TypeOK'
  <2> SUFFICES ASSUME TypeOK, [Next]_vars PROVE TypeOK'
    OBVIOUS
  <2>1. CASE Next
    BY <2>1, SenderTyped, ReceiverTyped DEF Next
  <2>2. CASE UNCHANGED vars
    BY <2>2 DEF vars, senderVars, receiverVars, TypeOK
  <2> QED BY <2>1, <2>2
<1> QED BY <1>1, InitTyped, PTL DEF Spec

----------------------------------------------------------------------------
(* The inductive invariant.  It holds as long as the reorder queue has not  *)
(* refused a packet.                                                        *)

\* Positions and counters are numbers.
LEMMA Numbers ==
  ASSUME TypeOK
  PROVE  /\ Len(wire) \in Nat /\ Len(released) \in Nat
         /\ MaxWindow \in Nat /\ 1 <= MaxWindow /\ MaxWindow <= HalfMod
         /\ HalfMod \in Nat /\ SeqRange \in Nat /\ SeqRange = 2 * HalfMod /\ HalfMod >= 2
         /\ effective_window \in Nat /\ effective_window <= MaxWindow
<1>1. /\ MaxWindow \in Nat /\ 1 <= MaxWindow /\ MaxWindow <= HalfMod
      /\ effective_window \in 0 .. MaxWindow
  BY ChannelAssumption DEF TypeOK
<1>2. Len(wire) \in Nat /\ Len(released) \in Nat
  BY DEF TypeOK
<1> QED BY <1>1, <1>2, HalfModFacts, SeqRangeAssumption

\* So are the positions that commands and acknowledgements carry.
LEMMA Positions ==
  ASSUME TypeOK
  PROVE  /\ \A c \in net : c.idx \in Nat
         /\ \A c \in incoming_reliable_queue : c.idx \in Nat
         /\ \A a \in acks : a.idx \in Nat
         /\ \A r \in outgoing_reliable : r.cmd.idx \in Nat
  BY DEF TypeOK, CommandSet, AckSet, OutstandingSet

\* The packet the receiver waits for is still outstanding at the sender.
LEMMA ExpectedIsOutstanding ==
  ASSUME TypeOK, IndInv, state # "Removed", Len(released) < Len(wire)
  PROVE  \E r \in Data(outgoing_reliable) : r.cmd.idx = Len(released) + 1
<1>1. Len(released) + 1 \in 1 .. Len(wire)
  BY Numbers
<1>2. ~ \E c \in incoming_reliable_queue : c.idx = Len(released) + 1
  BY Numbers, Positions DEF IndInv, QueueInv
<1> QED BY <1>1, <1>2, Numbers DEF IndInv, AckedKept

\* When nothing is outstanding, everything transmitted has been released.
LEMMA DrainedIsReleased ==
  ASSUME TypeOK, IndInv, state # "Removed", Data(outgoing_reliable) = {}
  PROVE  Len(released) = Len(wire)
<1>1. ~(Len(released) < Len(wire))
  BY ExpectedIsOutstanding
<1> QED BY <1>1, Numbers DEF IndInv, CountersInv

\* The window check keeps every outstanding packet, old or just sent, within
\* MaxWindow of the newest one.  It would not if it counted packets.
LEMMA WindowKeeps ==
  ASSUME TypeOK, IndInv, NEW k \in Nat, \A i \in 1 .. k : WindowOpen(i)
  PROVE  /\ \A r \in Data(outgoing_reliable) : Len(wire) + k < r.cmd.idx + MaxWindow
         /\ \A j \in 1 .. k : Len(wire) + k < Len(wire) + j + MaxWindow
<1> DEFINE N == Len(wire)
<1>0. N \in Nat /\ outgoing_reliable_seq = Wrap(N)
  BY Numbers DEF IndInv, CountersInv
<1>1. ASSUME NEW r \in Data(outgoing_reliable), ~(N + k < r.cmd.idx + MaxWindow)
      PROVE  FALSE
  <2> DEFINE p == r.cmd.idx
             i == MaxWindow - (N - p)
  <2>1. r.cmd.seq = Wrap(p) /\ p \in 1 .. N /\ N < p + MaxWindow /\ p \in Nat
    BY Numbers, Positions DEF IndInv, OutstandingInv, InFlight, Data
  <2>7. ~(N + k < p + MaxWindow)
    BY <1>1
  <2>8. r.cmd.seq \in {q.cmd.seq : q \in Data(outgoing_reliable)}
    OBVIOUS
  <2> HIDE DEF N, p
  <2>2. i \in 1 .. k /\ i \in Int /\ p \in Int /\ N + i \in Int /\ (N + i) - p = MaxWindow
    BY <1>0, <2>1, <2>7, Numbers, SMTT(30)
  <2> HIDE DEF i
  <2>3. WrapAdd(outgoing_reliable_seq, i) = Wrap(N + i)
    BY <1>0, <2>2, WrapAddWrap
  <2>4. WrapSub(Wrap(N + i), Wrap(p)) = (N + i) - p
    BY <2>2, Numbers, WrapDistance
  <2>5. WrapSub(WrapAdd(outgoing_reliable_seq, i), r.cmd.seq) < effective_window
    BY <2>2, <2>8 DEF WindowOpen
  <2>6. MaxWindow < effective_window
    BY <2>1, <2>2, <2>3, <2>4, <2>5
  <2> QED BY <2>6, Numbers
<1>2. ASSUME NEW j \in 1 .. k, ~(N + k < N + j + MaxWindow)
      PROVE  FALSE
  <2> DEFINE i == j + MaxWindow
  <2>1. /\ i \in 1 .. k /\ j \in 1 .. (i - 1) /\ i \in Int /\ j \in Int
        /\ N + i \in Int /\ N + j \in Int /\ (N + i) - (N + j) = MaxWindow
    BY <1>0, <1>2, Numbers, SMTT(30)
  <2> HIDE DEF N, i
  <2>2. /\ WrapAdd(outgoing_reliable_seq, i) = Wrap(N + i)
        /\ WrapAdd(outgoing_reliable_seq, j) = Wrap(N + j)
    BY <1>0, <2>1, WrapAddWrap, N \in Int
  <2>3. WrapSub(Wrap(N + i), Wrap(N + j)) = (N + i) - (N + j)
    BY <2>1, Numbers, WrapDistance
  <2>4. WrapSub(WrapAdd(outgoing_reliable_seq, i), WrapAdd(outgoing_reliable_seq, j))
          < effective_window
    BY <2>1 DEF WindowOpen
  <2>5. MaxWindow < effective_window
    BY <2>1, <2>2, <2>3, <2>4
  <2> QED BY <2>5, Numbers
<1> QED BY <1>1, <1>2

\* Transmit preserves the invariant: out holds the outstanding packets, with
\* whatever retransmission counts, and others nothing but them and pings.
LEMMA TransmitInd ==
  ASSUME TypeOK, IndInv, state = "Connected", state' = state, UNCHANGED receiverVars,
         NEW pkts \in Seq(1 .. MaxPackets), NEW out, NEW others,
         \A i \in 1 .. Len(pkts) : WindowOpen(i),
         \A r \in Data(out) : \E q \in Data(outgoing_reliable) : q.cmd = r.cmd,
         \A q \in Data(outgoing_reliable) : \E r \in Data(out) : r.cmd = q.cmd,
         \A r \in out : r.cmd.kind # "DISCONNECT",
         \A c \in others : /\ c.kind # "DISCONNECT"
                           /\ c.kind = "DATA" =>
                                \E q \in Data(outgoing_reliable) : q.cmd = c,
         Transmit(pkts, out, others)
  PROVE  IndInv'
<1> DEFINE N == Len(wire)
           E == Len(released)
           k == Len(pkts)
           new == {Command("DATA", N + i) : i \in 1 .. k}
<1>1. k \in Nat /\ N \in Nat /\ E \in Nat /\ Len(wire') = N + k
  <2>1. wire \in Seq(1 .. MaxPackets) /\ wire' = wire \o pkts
    BY DEF TypeOK, Transmit
  <2>2. Len(wire \o pkts) = Len(wire) + Len(pkts) /\ Len(pkts) \in Nat
    BY <2>1, ConcatProperties
  <2> QED BY <2>1, <2>2, Numbers
<1>2. /\ \A r \in Data(outgoing_reliable) : N + k < r.cmd.idx + MaxWindow
      /\ \A j \in 1 .. k : N + k < N + j + MaxWindow
  BY <1>1, WindowKeeps
<1>3. \A r \in Data(outgoing_reliable) :
        r.cmd.seq = Wrap(r.cmd.idx) /\ r.cmd.idx \in 1 .. N /\ r.cmd.idx \in Nat
  BY <1>1, Positions DEF IndInv, OutstandingInv, InFlight, Data
<1>4. released' = released /\ incoming_reliable_queue' = incoming_reliable_queue
      /\ incoming_reliable_seq' = incoming_reliable_seq
  BY DEF receiverVars
<1>5. \A c \in new : /\ c.kind = "DATA" /\ c.seq = Wrap(c.idx)
                     /\ c.idx \in (N + 1) .. (N + k) /\ N + k < c.idx + MaxWindow
  BY <1>1, <1>2 DEF Command
<1>6. \A i \in (N + 1) .. (N + k) : \E c \in new : c.idx = i
  <2> SUFFICES ASSUME NEW i \in (N + 1) .. (N + k)
               PROVE  \E c \in new : c.idx = i
    OBVIOUS
  <2>1. i - N \in 1 .. k /\ N + (i - N) = i
    BY <1>1
  <2>2. Command("DATA", N + (i - N)) \in new
    BY <2>1
  <2> QED BY <2>1, <2>2 DEF Command
<1>7. /\ outgoing_reliable_seq' = WrapAdd(outgoing_reliable_seq, k)
      /\ outgoing_reliable' = InsertAll(out, new)
      /\ net' = {c \in net : c.kind # "DATA"} \cup others \cup new
                  \cup Fresh({c \in net : c.kind = "DATA"}, N + k)
      /\ acks' = {a \in acks : a.ch = "connection"}
                  \cup Fresh({a \in acks : a.ch = "channel"}, N + k)
  BY DEF Transmit
<1> HIDE DEF N, E, k, new
<1>8. OutstandingInv'
  <2> SUFFICES ASSUME NEW r \in Data(outgoing_reliable)' PROVE InFlight(r.cmd, MaxWindow)'
    BY DEF OutstandingInv
  <2>1. r.cmd.kind = "DATA" /\ (r \in out \/ r.cmd \in new)
    BY <1>7 DEF InsertAll, Outstanding, Data
  <2>2. CASE r.cmd \in new
    BY <1>1, <1>5, <2>2 DEF InFlight
  <2>3. CASE r \in out
    <3>1. PICK q \in Data(outgoing_reliable) : q.cmd = r.cmd
      BY <2>1, <2>3 DEF Data
    <3> QED BY <1>1, <1>2, <1>3, <3>1 DEF InFlight
  <2> QED BY <2>1, <2>2, <2>3
<1>9. NetInv'
  <2> SUFFICES ASSUME NEW c \in net', c.kind = "DATA" PROVE InFlight(c, HalfMod)'
    BY DEF NetInv
  <2>1. CASE c \in new
    BY <1>1, <1>5, <2>1, Numbers DEF InFlight
  <2>2. CASE c \in others
    <3>1. PICK q \in Data(outgoing_reliable) : q.cmd = c
      BY <2>2
    <3> QED BY <1>1, <1>2, <1>3, <3>1, Numbers, SMTT(30) DEF InFlight
  <2>3. CASE c \in net /\ c.idx + HalfMod > N + k
    <3>1. c.seq = Wrap(c.idx) /\ c.idx \in 1 .. N /\ c.idx \in Nat
      BY <2>3, Positions DEF IndInv, NetInv, InFlight, N
    <3> QED BY <1>1, <2>3, <3>1, Numbers DEF InFlight
  <2> QED BY <1>7, <2>1, <2>2, <2>3 DEF Fresh
<1>10. AcksInv'
  <2> SUFFICES ASSUME NEW a \in acks', a.ch = "channel"
               PROVE  InFlight(a, HalfMod)' /\ Received(a.idx)'
    BY DEF AcksInv
  <2>1. a \in acks /\ a.idx + HalfMod > N + k
    BY <1>7 DEF Fresh
  <2>2. /\ a.seq = Wrap(a.idx) /\ a.idx \in 1 .. N /\ a.idx \in Nat
        /\ Received(a.idx)
    BY <2>1, Positions DEF IndInv, AcksInv, InFlight, N
  <2>3. Received(a.idx)'
    BY <1>4, <2>2 DEF Received
  <2> QED BY <1>1, <2>1, <2>2, <2>3, Numbers DEF InFlight
<1>11. CountersInv'
  <2>1. outgoing_reliable_seq' = Wrap(N + k)
    BY <1>1, <1>7, WrapAddWrap DEF IndInv, CountersInv, N
  <2>2. E <= N /\ incoming_reliable_seq = Wrap(E)
    BY DEF IndInv, CountersInv, N, E
  <2>3. E < N + k => N + k < E + 1 + MaxWindow
    <3>1. CASE E < N
      <4>1. \E r \in Data(outgoing_reliable) : r.cmd.idx = E + 1
        BY <3>1, ExpectedIsOutstanding DEF E, N
      <4> QED BY <1>2, <4>1
    <3>2. CASE E = N /\ k > 0
      <4>1. 1 \in 1 .. k
        BY <1>1, <3>2
      <4> QED BY <1>1, <1>2, <3>2, <4>1, Numbers
    <3> QED BY <1>1, <2>2, <3>1, <3>2
  <2> QED BY <1>1, <1>4, <2>1, <2>2, <2>3 DEF CountersInv, E
<1>12. QueueInv'
  <2>1. \A c \in incoming_reliable_queue :
          c.kind = "DATA" /\ c.seq = Wrap(c.idx) /\ c.idx \in (E + 2) .. N
    BY DEF IndInv, QueueInv, E, N
  <2> QED BY <1>1, <1>4, <2>1 DEF QueueInv, E
<1>13. Sequential'
  BY <1>4 DEF IndInv, Sequential
<1>14. AckedKept'
  <2> SUFFICES ASSUME NEW i \in 1 .. (N + k)
               PROVE  (\E r \in Data(outgoing_reliable)' : r.cmd.idx = i) \/ Received(i)'
    BY <1>1 DEF AckedKept, Received
  <2>1. CASE i \in (N + 1) .. (N + k)
    <3>1. PICK c \in new : c.idx = i
      BY <1>6, <2>1
    <3>2. Outstanding(c, 1) \in Data(outgoing_reliable)' /\ Outstanding(c, 1).cmd = c
      BY <1>5, <1>7, <3>1 DEF InsertAll, Data, Outstanding
    <3> QED BY <3>1, <3>2
  <2>2. CASE i \in 1 .. N /\ Received(i)
    BY <1>4, <2>2 DEF Received
  <2>3. CASE i \in 1 .. N /\ ~Received(i)
    <3>1. PICK q \in Data(outgoing_reliable) : q.cmd.idx = i
      BY <2>3 DEF IndInv, AckedKept, Received, N
    <3>2. PICK r \in Data(out) : r.cmd = q.cmd
      OBVIOUS
    <3>3. \A c \in new : r.cmd.seq # c.seq
      <4> SUFFICES ASSUME NEW c \in new, Wrap(i) = Wrap(c.idx) PROVE FALSE
        BY <1>3, <1>5, <3>1, <3>2
      <4>1. /\ i \in Int /\ c.idx \in Int /\ i < c.idx /\ c.idx <= N + k
            /\ N + k < i + MaxWindow
        BY <1>1, <1>2, <1>5, <2>3, <3>1
      <4>2. i - c.idx < SeqRange /\ c.idx - i < SeqRange
        BY <1>1, <4>1, Numbers, SMTT(30)
      <4>3. i = c.idx
        BY <4>1, <4>2, WrapInjective
      <4> QED BY <4>1, <4>3
    <3>4. r \in Data(outgoing_reliable)'
      BY <1>7, <3>2, <3>3 DEF InsertAll, Data
    <3> QED BY <3>1, <3>2, <3>4
  <2> QED BY <1>1, <2>1, <2>2, <2>3
<1>15. ClosingInv' /\ ClosedAfterData'
  <2>1. \A c \in net' : c.kind # "DISCONNECT"
    <3>1. \A c \in net : c.kind # "DISCONNECT"
      BY DEF IndInv, ClosingInv
    <3> QED BY <1>5, <1>7, <3>1 DEF Fresh
  <2>2. \A r \in outgoing_reliable' : r.cmd.kind # "DISCONNECT"
    BY <1>5, <1>7 DEF InsertAll, Outstanding
  <2> QED BY <2>1, <2>2 DEF ClosingInv, ClosedAfterData
<1> QED BY <1>8, <1>9, <1>10, <1>11, <1>12, <1>13, <1>14, <1>15 DEF IndInv

\* Steps that leave the receiver and the transmitted packets alone.
LEMMA SenderFrame ==
  ASSUME IndInv, UNCHANGED <<receiverVars, wire, outgoing_reliable_seq>>
  PROVE  CountersInv' /\ QueueInv' /\ Sequential' /\ (\A i : Received(i) => Received(i)')
  BY DEF IndInv, CountersInv, QueueInv, Sequential, Received, receiverVars

\* Sending DISCONNECT preserves the invariant: nothing may be outstanding.
LEMMA SendDisconnectInd ==
  ASSUME TypeOK, IndInv, state # "Removed", outgoing_reliable = {},
         UNCHANGED <<receiverVars, wire, outgoing_reliable_seq, acks>>,
         state' = "Disconnecting", SendControl("DISCONNECT")
  PROVE  IndInv'
<1> DEFINE c == Command("DISCONNECT", control_seq + 1)
<1>1. c.kind = "DISCONNECT" /\ net' = net \cup {c} /\ outgoing_reliable' = {Outstanding(c, 1)}
  BY DEF SendControl, Command, InsertAll
<1>2. Len(released) = Len(wire)
  BY DrainedIsReleased DEF Data
<1>3. wire' = wire /\ released' = released
      /\ incoming_reliable_queue' = incoming_reliable_queue /\ acks' = acks
  BY DEF receiverVars
<1> HIDE DEF c
<1>4. Data(outgoing_reliable)' = {}
  BY <1>1 DEF Data, Outstanding
<1>5. OutstandingInv'
  BY <1>4 DEF OutstandingInv
<1>6. NetInv'
  BY <1>1, <1>3 DEF IndInv, NetInv, InFlight
<1>7. AcksInv'
  BY <1>3 DEF IndInv, AcksInv, InFlight, Received
<1>8. AckedKept'
  BY <1>2, <1>3, Numbers DEF AckedKept
<1>9. ClosedAfterData' /\ ClosingInv'
  BY <1>2, <1>3, <1>4 DEF ClosedAfterData, ClosingInv
<1> QED BY SenderFrame, <1>5, <1>6, <1>7, <1>8, <1>9 DEF IndInv

\* remove_peer preserves the invariant.
LEMMA RemovePeerInd ==
  ASSUME TypeOK, IndInv, RemovePeer, acks' \subseteq acks,
         UNCHANGED <<receiverVars, wire, outgoing_reliable_seq, net>>
  PROVE  IndInv'
<1>1. /\ wire' = wire /\ released' = released /\ net' = net
      /\ incoming_reliable_queue' = incoming_reliable_queue
      /\ state' = "Removed" /\ outgoing_reliable' = {}
  BY DEF receiverVars, RemovePeer
<1>2. OutstandingInv' /\ AckedKept' /\ ClosingInv'
  BY <1>1 DEF OutstandingInv, AckedKept, ClosingInv, Data
<1>3. NetInv' /\ ClosedAfterData'
  BY <1>1 DEF IndInv, NetInv, InFlight, ClosedAfterData
<1>4. AcksInv'
  BY <1>1 DEF IndInv, AcksInv, InFlight, Received
<1> QED BY SenderFrame, <1>2, <1>3, <1>4 DEF IndInv

\* on_ack preserves the invariant: within the lifetime of an acknowledgement
\* its sequence number names one outstanding packet, the one that arrived.
LEMMA OnAckInd ==
  ASSUME TypeOK, IndInv, NEW a \in acks, OnAck(a)
  PROVE  IndInv'
<1> DEFINE left == {r \in outgoing_reliable :
                      ~(Chan(r.cmd.kind) = a.ch /\ r.cmd.seq = a.seq)}
<1>1. /\ UNCHANGED <<receiverVars, wire, outgoing_reliable_seq, net>>
      /\ acks' \subseteq acks /\ state # "Removed"
  BY DEF OnAck
<1>2. CASE state = "Disconnecting" /\ left = {}
  BY <1>1, <1>2, RemovePeerInd DEF OnAck
<1>3. CASE ~(state = "Disconnecting" /\ left = {})
  <2>1. outgoing_reliable' = left /\ state' = state
    BY <1>3 DEF OnAck
  <2>2. /\ wire' = wire /\ released' = released /\ net' = net
        /\ incoming_reliable_queue' = incoming_reliable_queue
    BY <1>1 DEF receiverVars
  <2>3. OutstandingInv' /\ NetInv' /\ ClosingInv' /\ ClosedAfterData'
    BY <2>1, <2>2
    DEF IndInv, OutstandingInv, NetInv, ClosingInv, ClosedAfterData, InFlight, Data
  <2>4. AcksInv'
    BY <1>1, <2>2 DEF IndInv, AcksInv, InFlight, Received
  <2>5. AckedKept'
    <3> SUFFICES ASSUME NEW i \in 1 .. Len(wire),
                        ~ \E r \in Data(left) : r.cmd.idx = i
                 PROVE  Received(i)
      BY <2>1, <2>2 DEF AckedKept, Received
    <3>1. CASE \E r \in Data(outgoing_reliable) : r.cmd.idx = i
      <4>1. PICK r \in Data(outgoing_reliable) : r.cmd.idx = i
        BY <3>1
      <4>2. a.ch = "channel" /\ r.cmd.seq = a.seq
        BY <4>1 DEF Data, Chan
      <4>3. r.cmd.seq = Wrap(i) /\ Len(wire) < i + MaxWindow
        BY <4>1 DEF IndInv, OutstandingInv, InFlight
      <4>4. /\ a.seq = Wrap(a.idx) /\ a.idx \in 1 .. Len(wire)
            /\ Len(wire) < a.idx + HalfMod /\ Received(a.idx)
        BY <4>2 DEF IndInv, AcksInv, InFlight
      <4>5. i \in Int /\ a.idx \in Int /\ i - a.idx < SeqRange /\ a.idx - i < SeqRange
        BY <4>3, <4>4, Numbers
      <4>6. i = a.idx
        BY <4>2, <4>3, <4>4, <4>5, WrapInjective
      <4> QED BY <4>4, <4>6
    <3>2. CASE ~ \E r \in Data(outgoing_reliable) : r.cmd.idx = i
      BY <1>1, <3>2 DEF IndInv, AckedKept, Received
    <3> QED BY <3>1, <3>2
  <2> QED BY SenderFrame, <1>1, <2>3, <2>4, <2>5 DEF IndInv
<1> QED BY <1>2, <1>3

\* Every step of the sending host preserves the invariant.
LEMMA SenderInd ==
  ASSUME TypeOK, IndInv, UserSend \/ UserDisconnect \/ AdjustWindow \/ Service
  PROVE  IndInv'
<1>1. ASSUME UNCHANGED <<state, outgoing_reliable_seq, outgoing_reliable, wire, net,
                         acks, receiverVars>>
      PROVE  IndInv'
  <2>1. OutstandingInv' /\ NetInv' /\ AcksInv' /\ ClosingInv'
    BY <1>1 DEF IndInv, OutstandingInv, NetInv, AcksInv, ClosingInv, InFlight, Data,
                Received, receiverVars
  <2>2. AckedKept' /\ ClosedAfterData'
    BY <1>1 DEF IndInv, AckedKept, ClosedAfterData, Data, receiverVars
  <2> QED BY SenderFrame, <1>1, <2>1, <2>2 DEF IndInv
<1>2. CASE UserSend
  <2>1. CASE state = "Connected" /\ WindowOpen(1)
    <3> DEFINE pkts == <<submitted + 1>>
               others == {}
    <3>1. /\ Transmit(pkts, outgoing_reliable, others)
          /\ state' = state /\ UNCHANGED receiverVars
      BY <1>2, <2>1 DEF UserSend
    <3>2. pkts \in Seq(1 .. MaxPackets) /\ Len(pkts) = 1
      BY <1>2, ChannelAssumption DEF UserSend, TypeOK
    <3>3. \A i \in 1 .. Len(pkts) : WindowOpen(i)
      BY <2>1, <3>2
    <3>4. \A r \in outgoing_reliable : r.cmd.kind # "DISCONNECT"
      BY <2>1 DEF IndInv, ClosingInv
    <3>5. \A c \in others : /\ c.kind # "DISCONNECT"
                            /\ c.kind = "DATA" =>
                                 \E q \in Data(outgoing_reliable) : q.cmd = c
      OBVIOUS
    <3> HIDE DEF pkts, others
    <3> QED BY <2>1, <3>1, <3>2, <3>3, <3>4, <3>5, TransmitInd
  <2>2. CASE ~(state = "Connected" /\ WindowOpen(1))
    BY <1>1, <1>2, <2>2 DEF UserSend
  <2> QED BY <2>1, <2>2
<1>3. CASE UserDisconnect
  <2>1. CASE outgoing_reliable = {}
    BY <1>3, <2>1, SendDisconnectInd DEF UserDisconnect
  <2>2. CASE outgoing_reliable # {}
    <3>1. /\ state = "Connected" /\ state' = "DisconnectLater"
          /\ UNCHANGED <<outgoing_reliable, net, acks, wire, outgoing_reliable_seq, receiverVars>>
      BY <1>3, <2>2 DEF UserDisconnect
    <3>2. OutstandingInv' /\ NetInv' /\ AcksInv' /\ ClosingInv'
      BY <3>1 DEF IndInv, OutstandingInv, NetInv, AcksInv, ClosingInv, InFlight, Data,
                  Received, receiverVars
    <3>3. AckedKept' /\ ClosedAfterData'
      BY <3>1 DEF IndInv, AckedKept, ClosedAfterData, Data, receiverVars
    <3> QED BY SenderFrame, <3>1, <3>2, <3>3 DEF IndInv
  <2> QED BY <2>1, <2>2
<1>4. CASE AdjustWindow
  BY <1>1, <1>4 DEF AdjustWindow
<1>5. CASE ServiceTimeout
  BY <1>5, RemovePeerInd DEF ServiceTimeout
<1>6. ASSUME NEW due \in SUBSET Retriable, NEW ping \in BOOLEAN,
             ServiceConnected(due, ping)
      PROVE  IndInv'
  <2> DEFINE again == {Outstanding(r.cmd, r.attempts + 1) : r \in due}
             pings == IF ping THEN {Command("PING", control_seq + 1)} ELSE {}
             out == InsertAll(outgoing_reliable \ due, pings) \cup again
             others == {r.cmd : r \in due} \cup pings
  <2>1. PICK k \in 0 .. Len(pending_send) :
          /\ \A i \in 1 .. k : WindowOpen(i)
          /\ Transmit(SubSeq(pending_send, 1, k), out, others)
    BY <1>6 DEF ServiceConnected
  <2> DEFINE pkts == SubSeq(pending_send, 1, k)
  <2>2. pkts \in Seq(1 .. MaxPackets) /\ Len(pkts) = k
    <3>1. pending_send \in Seq(1 .. MaxPackets) /\ Len(pending_send) \in Nat
          /\ k \in Nat /\ k <= Len(pending_send)
      BY DEF TypeOK
    <3>2. \A i \in 1 .. k : pending_send[i] \in 1 .. MaxPackets
      BY <3>1, ChannelAssumption, ElementOfSeq
    <3> QED BY <3>1, <3>2, SubSeqProperties
  <2>3. /\ state = "Connected" /\ state' = state /\ UNCHANGED receiverVars
        /\ \A r \in outgoing_reliable : r.cmd.kind # "DISCONNECT"
    BY <1>6 DEF ServiceConnected, IndInv, ClosingInv
  <2>4. due \subseteq outgoing_reliable
    BY DEF Retriable
  <2>5. \A c \in pings : c.kind = "PING"
    BY DEF Command
  <2>6. \A r \in again : \E q \in due : q.cmd = r.cmd
    BY DEF Outstanding
  <2>7. \A q \in due : \E r \in again : r.cmd = q.cmd
    <3> SUFFICES ASSUME NEW q \in due PROVE \E r \in again : r.cmd = q.cmd
      OBVIOUS
    <3>1. Outstanding(q.cmd, q.attempts + 1) \in again
      OBVIOUS
    <3> QED BY <3>1 DEF Outstanding
  <2> HIDE DEF pings, again
  <2>8. \A r \in out : \/ r \in outgoing_reliable
                       \/ r.cmd.kind = "PING"
                       \/ \E q \in due : q.cmd = r.cmd
    BY <2>5, <2>6 DEF InsertAll, Outstanding
  <2>9. \A r \in Data(outgoing_reliable) : r \in out \/ r \in due
    BY <2>5 DEF InsertAll, Data, Chan
  <2>10. /\ \A r \in Data(out) : \E q \in Data(outgoing_reliable) : q.cmd = r.cmd
         /\ \A r \in out : r.cmd.kind # "DISCONNECT"
    BY <2>3, <2>4, <2>8 DEF Data
  <2>11. \A q \in Data(outgoing_reliable) : \E r \in Data(out) : r.cmd = q.cmd
    <3> SUFFICES ASSUME NEW q \in Data(outgoing_reliable)
                 PROVE  \E r \in Data(out) : r.cmd = q.cmd
      OBVIOUS
    <3>1. CASE q \in out
      BY <3>1 DEF Data
    <3>2. CASE q \in due
      BY <2>7, <3>2 DEF Data
    <3> QED BY <2>9, <3>1, <3>2
  <2>12. \A c \in others : /\ c.kind # "DISCONNECT"
                           /\ c.kind = "DATA" =>
                                \E q \in Data(outgoing_reliable) : q.cmd = c
    BY <2>3, <2>4, <2>5 DEF Data
  <2>13. \A i \in 1 .. Len(pkts) : WindowOpen(i)
    BY <2>1, <2>2
  <2>14. Transmit(pkts, out, others)
    BY <2>1
  <2> HIDE DEF out, others, pkts
  <2> QED BY <2>2, <2>3, <2>10, <2>11, <2>12, <2>13, <2>14, TransmitInd
<1>7. ASSUME NEW due \in SUBSET Retriable, ServiceClosing(due)
      PROVE  IndInv'
  <2>1. CASE state = "DisconnectLater" /\ outgoing_reliable = {}
    BY <1>7, <2>1, SendDisconnectInd DEF ServiceClosing
  <2>2. CASE ~(state = "DisconnectLater" /\ outgoing_reliable = {})
    <3> DEFINE again == {Outstanding(r.cmd, r.attempts + 1) : r \in due}
    <3>1. /\ state' = state /\ state \in {"DisconnectLater", "Disconnecting"}
          /\ outgoing_reliable' = (outgoing_reliable \ due) \cup again
          /\ net' = net \cup {r.cmd : r \in due}
          /\ UNCHANGED <<acks, wire, outgoing_reliable_seq, receiverVars>>
      BY <1>7, <2>2 DEF ServiceClosing
    <3>2. due \subseteq outgoing_reliable
      BY DEF Retriable
    <3>3. /\ \A r \in outgoing_reliable' : \E q \in outgoing_reliable : q.cmd = r.cmd
          /\ \A q \in outgoing_reliable : \E r \in outgoing_reliable' : q.cmd = r.cmd
      <4>1. \A r \in again : \E q \in due : q.cmd = r.cmd
        BY DEF Outstanding
      <4>2. \A q \in due : Outstanding(q.cmd, q.attempts + 1) \in again
                           /\ Outstanding(q.cmd, q.attempts + 1).cmd = q.cmd
        BY DEF Outstanding
      <4> QED BY <3>1, <3>2, <4>1, <4>2
    <3>4. wire' = wire /\ released' = released
          /\ incoming_reliable_queue' = incoming_reliable_queue
      BY <3>1 DEF receiverVars
    <3>5. OutstandingInv'
      BY <3>3, <3>4 DEF IndInv, OutstandingInv, InFlight, Data
    <3>6. NetInv'
      <4>1. \A r \in due : r.cmd.kind = "DATA" => InFlight(r.cmd, HalfMod)
        BY <3>2, Numbers, Positions DEF IndInv, OutstandingInv, InFlight, Data
      <4> QED BY <3>1, <3>4, <4>1 DEF IndInv, NetInv, InFlight
    <3>7. AcksInv'
      BY <3>1, <3>4 DEF IndInv, AcksInv, InFlight, Received
    <3>8. ClosingInv' /\ ClosedAfterData'
      BY <3>1, <3>2, <3>3, <3>4 DEF IndInv, ClosingInv, ClosedAfterData, Data
    <3>9. AckedKept'
      BY <3>1, <3>3, <3>4 DEF IndInv, AckedKept, Data
    <3> QED BY SenderFrame, <3>1, <3>5, <3>6, <3>7, <3>8, <3>9 DEF IndInv
  <2> QED BY <2>1, <2>2
<1> QED BY <1>2, <1>3, <1>4, <1>5, <1>6, <1>7 DEF Service

\* A packet in flight compares with the expected one as its position does.
LEMMA ArrivalOrder ==
  ASSUME TypeOK, IndInv, NEW c \in net, c.kind = "DATA"
  PROVE  LET e == Len(released) + 1
             expected == WrapAdd(incoming_reliable_seq, 1)
         IN  /\ expected = Wrap(e)
             /\ c.seq = Wrap(c.idx) /\ c.idx \in 1 .. Len(wire)
             /\ c.seq = expected <=> c.idx = e
             /\ seq_lt(expected, c.seq) <=> e < c.idx
<1> DEFINE e == Len(released) + 1
           expected == WrapAdd(incoming_reliable_seq, 1)
<1>1. expected = Wrap(e)
  BY Numbers, WrapAddWrap DEF IndInv, CountersInv
<1>2. c.seq = Wrap(c.idx) /\ c.idx \in 1 .. Len(wire) /\ Len(wire) < c.idx + HalfMod
  BY DEF IndInv, NetInv, InFlight
<1>3. /\ e \in Int /\ c.idx \in Int
      /\ e - c.idx <= HalfMod /\ c.idx - e < HalfMod
      /\ e - c.idx < SeqRange /\ c.idx - e < SeqRange
  BY <1>2, Numbers, SMTT(30) DEF IndInv, CountersInv
<1> HIDE DEF e, expected
<1>4. Wrap(e) = Wrap(c.idx) => e = c.idx
  BY <1>3, WrapInjective
<1>5. seq_lt(Wrap(e), Wrap(c.idx)) <=> e < c.idx
  BY <1>3, SeqLtWrap
<1>6. c.seq = expected <=> c.idx = e
  BY <1>1, <1>2, <1>4
<1>7. seq_lt(expected, c.seq) <=> e < c.idx
  BY <1>1, <1>2, <1>5
<1> QED BY <1>1, <1>2, <1>6, <1>7 DEF e, expected

\* A step of receive_reliable preserves the invariant if it keeps what the
\* receiver had, has the packet it acknowledges, and keeps gap and order.
LEMMA ReceiverFrame ==
  ASSUME TypeOK, IndInv, NEW c \in net, c.kind = "DATA", Arrive(c), UNCHANGED senderVars,
         \A i \in 1 .. Len(wire) : Received(i) => Received(i)',
         Received(c.idx)', Sequential', QueueInv',
         incoming_reliable_seq' = Wrap(Len(released')),
         Len(released') \in Nat, Len(released) <= Len(released'), Len(released') <= Len(wire)
  PROVE  IndInv'
<1>1. wire' = wire /\ state' = state /\ outgoing_reliable' = outgoing_reliable
      /\ outgoing_reliable_seq' = outgoing_reliable_seq
  BY DEF senderVars
<1>2. net' \subseteq net /\ acks' = acks \cup {Ack(c)}
  BY DEF Arrive
<1>3. CountersInv'
  BY <1>1, Numbers DEF IndInv, CountersInv
<1>4. OutstandingInv' /\ NetInv' /\ ClosingInv'
  BY <1>1, <1>2 DEF IndInv, OutstandingInv, NetInv, ClosingInv, InFlight, Data
<1>5. AcksInv'
  <2> SUFFICES ASSUME NEW a \in acks', a.ch = "channel"
               PROVE  InFlight(a, HalfMod)' /\ Received(a.idx)'
    BY DEF AcksInv
  <2>1. CASE a \in acks
    BY <1>1, <2>1 DEF IndInv, AcksInv, InFlight
  <2>2. CASE a = Ack(c)
    <3>1. a.seq = c.seq /\ a.idx = c.idx
      BY <2>2 DEF Ack
    <3>2. InFlight(c, HalfMod)
      BY DEF IndInv, NetInv
    <3> QED BY <1>1, <3>1, <3>2 DEF InFlight
  <2> QED BY <1>2, <2>1, <2>2
<1>6. AckedKept'
  <2> SUFFICES ASSUME state # "Removed", NEW i \in 1 .. Len(wire),
                      ~ \E r \in Data(outgoing_reliable) : r.cmd.idx = i
               PROVE  Received(i)'
    BY <1>1 DEF AckedKept, Received
  <2>1. Received(i)
    BY DEF IndInv, AckedKept, Received
  <2> QED BY <2>1
<1>7. ClosedAfterData'
  BY <1>1, <1>2, Numbers DEF IndInv, ClosedAfterData
<1> QED BY <1>3, <1>4, <1>5, <1>6, <1>7 DEF IndInv

\* The expected packet and the run buffered behind it are released in order.
LEMMA ReceiveExpectedInd ==
  ASSUME TypeOK, IndInv, NEW c \in net, c.kind = "DATA", Arrive(c), UNCHANGED senderVars,
         ReceiveExpected(c)
  PROVE  IndInv'
<1> DEFINE N == Len(wire)
           E == Len(released)
           queue == incoming_reliable_queue
<1>1. c.seq = Wrap(E + 1) /\ c.idx = E + 1 /\ E + 1 <= N
  BY ArrivalOrder, Numbers DEF ReceiveExpected
<1>2. N \in Nat /\ E \in Nat /\ N < E + 1 + MaxWindow
  BY <1>1, Numbers DEF IndInv, CountersInv
<1>3. \A r \in queue : /\ r.kind = "DATA" /\ r.seq = Wrap(r.idx)
                       /\ r.idx \in (E + 2) .. N /\ r.idx \in Nat
  BY Positions DEF IndInv, QueueInv
<1>4. PICK d \in 0 .. (SeqRange - 1) :
        /\ \A i \in 1 .. d : Buffered(WrapAdd(c.seq, i))
        /\ ~Buffered(WrapAdd(c.seq, d + 1))
        /\ released' = released \o
             [i \in 1 .. (d + 1) |->
                IF i = 1 THEN c.idx ELSE BufferedAt(WrapAdd(c.seq, i - 1)).idx]
        /\ incoming_reliable_seq' = WrapAdd(c.seq, d)
        /\ queue' = {r \in queue : r.seq \notin {WrapAdd(c.seq, i) : i \in 1 .. d}}
  BY DEF ReceiveExpected
<1> DEFINE run == [i \in 1 .. (d + 1) |->
                     IF i = 1 THEN c.idx ELSE BufferedAt(WrapAdd(c.seq, i - 1)).idx]
<1>5. d \in Nat /\ d < SeqRange
  BY SeqRangeAssumption
<1>6. \A i \in Nat : WrapAdd(c.seq, i) = Wrap(E + 1 + i)
  <2> SUFFICES ASSUME NEW i \in Nat PROVE WrapAdd(c.seq, i) = Wrap(E + 1 + i)
    OBVIOUS
  <2>1. E + 1 \in Int /\ i \in Int
    BY <1>2
  <2>2. WrapAdd(Wrap(E + 1), i) = Wrap((E + 1) + i)
    BY <2>1, WrapAddWrap
  <2> QED BY <1>1, <2>2
\* A sequence number close to E names at most one buffered packet.
<1>7. \A r \in queue, p \in Nat :
        r.seq = Wrap(p) /\ E < p /\ p <= N + 1 => r.idx = p
  <2> SUFFICES ASSUME NEW r \in queue, NEW p \in Nat, r.seq = Wrap(p), E < p, p <= N + 1
               PROVE  r.idx = p
    OBVIOUS
  <2>1. r.idx \in Int /\ p \in Int /\ r.idx - p < SeqRange /\ p - r.idx < SeqRange
    BY <1>2, <1>3, Numbers, SMTT(30)
  <2> QED BY <1>3, <2>1, WrapInjective
\* The run ends before the newest packet.
<1>8. E + 1 + d <= N
  <2> SUFFICES ASSUME ~(E + 1 + d <= N) PROVE FALSE
    OBVIOUS
  <2> DEFINE i == N - E
  <2>1. i \in 1 .. d /\ i \in Nat /\ E + 1 + i = N + 1
    BY <1>1, <1>2, <1>5
  <2>2. Buffered(Wrap(N + 1))
    BY <1>4, <1>6, <2>1
  <2>3. PICK r \in queue : r.seq = Wrap(N + 1)
    BY <2>2 DEF Buffered
  <2>4. r.idx = N + 1
    BY <1>1, <1>2, <1>7, <2>3
  <2> QED BY <1>2, <1>3, <2>4
<1>9. \A i \in 1 .. d : BufferedAt(WrapAdd(c.seq, i)) \in queue
                        /\ BufferedAt(WrapAdd(c.seq, i)).idx = E + 1 + i
  <2> SUFFICES ASSUME NEW i \in 1 .. d
               PROVE  BufferedAt(WrapAdd(c.seq, i)) \in queue
                      /\ BufferedAt(WrapAdd(c.seq, i)).idx = E + 1 + i
    OBVIOUS
  <2> DEFINE r == BufferedAt(WrapAdd(c.seq, i))
  <2>1. r \in queue /\ r.seq = WrapAdd(c.seq, i)
    BY <1>4 DEF Buffered, BufferedAt
  <2>2. r.seq = Wrap(E + 1 + i)
    BY <1>5, <1>6, <2>1
  <2>3. E + 1 + i \in Nat /\ E < E + 1 + i /\ E + 1 + i <= N + 1
    BY <1>2, <1>5, <1>8
  <2> HIDE DEF r
  <2>4. r.idx = E + 1 + i
    BY <1>7, <2>1, <2>2, <2>3
  <2> QED BY <2>1, <2>4 DEF r
<1>10. \A i \in 1 .. (d + 1) : run[i] = E + i
  <2> SUFFICES ASSUME NEW i \in 1 .. (d + 1) PROVE run[i] = E + i
    OBVIOUS
  <2>1. CASE i = 1
    BY <1>1, <2>1
  <2>2. CASE i # 1
    <3>1. i - 1 \in 1 .. d /\ E + 1 + (i - 1) = E + i
      BY <1>2, <1>5, <2>2
    <3> QED BY <1>9, <2>2, <3>1
  <2> QED BY <2>1, <2>2
<1>11. run \in Seq(Nat) /\ Len(run) = d + 1
  BY <1>2, <1>5, <1>10
<1>12. released' = released \o run
  BY <1>4
<1> HIDE DEF run
<1>13. /\ Len(released') = E + d + 1
       /\ \A i \in 1 .. (E + d + 1) :
            released'[i] = IF i <= E THEN released[i] ELSE run[i - E]
  <2>1. released \in Seq(Nat)
    BY DEF TypeOK
  <2>2. /\ Len(released \o run) = Len(released) + Len(run)
        /\ \A i \in 1 .. (Len(released) + Len(run)) :
             (released \o run)[i] = IF i <= Len(released) THEN released[i]
                                    ELSE run[i - Len(released)]
    BY <1>11, <2>1, ConcatProperties
  <2>3. Len(released) + Len(run) = E + d + 1
    BY <1>2, <1>5, <1>11
  <2> QED BY <1>12, <2>2, <2>3
<1>14. Sequential'
  <2> SUFFICES ASSUME NEW i \in 1 .. (E + d + 1) PROVE released'[i] = i
    BY <1>13 DEF Sequential
  <2>1. CASE i <= E
    BY <1>2, <1>13, <2>1 DEF IndInv, Sequential
  <2>2. CASE i > E
    <3>1. i - E \in 1 .. (d + 1) /\ E + (i - E) = i
      BY <1>2, <1>5, <2>2
    <3> QED BY <1>2, <1>10, <1>13, <2>2, <3>1
  <2> QED BY <1>2, <1>5, <2>1, <2>2
<1>15. QueueInv'
  <2>1. wire' = wire
    BY DEF senderVars
  <2> SUFFICES ASSUME NEW r \in queue'
               PROVE  r.kind = "DATA" /\ r.seq = Wrap(r.idx) /\ r.idx \in (E + d + 3) .. N
    BY <1>2, <1>5, <1>13, <2>1 DEF QueueInv
  <2>2. r \in queue /\ \A i \in 1 .. d : r.seq # WrapAdd(c.seq, i)
    BY <1>4
  <2>3. r.kind = "DATA" /\ r.seq = Wrap(r.idx) /\ r.idx \in (E + 2) .. N /\ r.idx \in Nat
    BY <1>3, <2>2
  <2>4. ~(r.idx <= E + d + 1)
    <3> SUFFICES ASSUME r.idx <= E + d + 1 PROVE FALSE
      OBVIOUS
    <3> DEFINE i == r.idx - E - 1
    <3>1. i \in 1 .. d /\ i \in Nat /\ E + 1 + i = r.idx
      BY <1>2, <1>5, <2>3
    <3> QED BY <1>6, <2>2, <2>3, <3>1
  <2>5. r.idx # E + d + 2
    <3> SUFFICES ASSUME r.idx = E + d + 2 PROVE FALSE
      OBVIOUS
    <3>1. d + 1 \in Nat /\ E + 1 + (d + 1) = E + d + 2
      BY <1>2, <1>5
    <3>2. r.seq = WrapAdd(c.seq, d + 1)
      BY <1>6, <2>3, <3>1
    <3> QED BY <1>4, <2>2, <3>2 DEF Buffered
  <2> QED BY <1>2, <1>5, <2>3, <2>4, <2>5
<1>16. \A i \in 1 .. N : Received(i) => Received(i)'
  <2> SUFFICES ASSUME NEW i \in 1 .. N, Received(i) PROVE Received(i)'
    OBVIOUS
  <2>1. CASE i <= E + d + 1
    BY <1>2, <1>5, <1>13, <2>1 DEF Received
  <2>2. CASE i > E + d + 1
    <3>1. PICK r \in queue : r.idx = i
      BY <1>2, <1>5, <2>2 DEF Received
    <3>2. ASSUME NEW j \in 1 .. d, r.seq = WrapAdd(c.seq, j) PROVE FALSE
      <4>1. /\ j \in Nat /\ E + 1 + j \in Nat
            /\ E < E + 1 + j /\ E + 1 + j <= N + 1
        BY <1>2, <1>5, <1>8
      <4>3. r.seq = Wrap(E + 1 + j)
        BY <1>6, <3>2, <4>1
      <4>2. i = E + 1 + j
        BY <1>7, <3>1, <4>1, <4>3
      <4> QED BY <1>2, <1>5, <2>2, <4>2
    <3>3. r \in queue'
      BY <1>4, <3>2
    <3> QED BY <3>1, <3>3 DEF Received
  <2> QED BY <1>2, <1>5, <2>1, <2>2
<1>17. Received(c.idx)'
  BY <1>1, <1>2, <1>5, <1>13 DEF Received
<1>18. incoming_reliable_seq' = Wrap(Len(released'))
  BY <1>2, <1>4, <1>5, <1>6, <1>13, SMTT(30)
<1>19. Len(released') \in Nat /\ E <= Len(released') /\ Len(released') <= N
  BY <1>2, <1>5, <1>8, <1>13
<1> QED BY <1>14, <1>15, <1>16, <1>17, <1>18, <1>19, ReceiverFrame

\* A packet ahead of the gap is buffered, or was buffered already, unless the
\* queue refuses it.
LEMMA ReceiveAheadInd ==
  ASSUME TypeOK, IndInv, NEW c \in net, c.kind = "DATA", Arrive(c),
         UNCHANGED senderVars, ReceiveAhead(c), refused' = {}
  PROVE  IndInv'
<1> DEFINE queue == incoming_reliable_queue
<1>1. /\ c.seq = Wrap(c.idx) /\ c.idx \in 1 .. Len(wire)
      /\ Len(released) + 1 < c.idx
      /\ WrapAdd(incoming_reliable_seq, 1) = Wrap(Len(released) + 1)
  BY ArrivalOrder DEF ReceiveAhead
<1>2. c.idx \in (Len(released) + 2) .. Len(wire) /\ c.idx \in Nat
  BY <1>1, Numbers
<1>3. /\ incoming_reliable_seq' = incoming_reliable_seq
      /\ released' = released /\ wire' = wire
  BY DEF ReceiveAhead, senderVars
<1>4. \A r \in queue : /\ r.seq = Wrap(r.idx) /\ r.kind = "DATA"
                       /\ r.idx \in (Len(released) + 2) .. Len(wire) /\ r.idx \in Nat
  BY Positions DEF IndInv, QueueInv
\* The receive window never rejects a packet the sender's window admitted.
<1>5. WrapSub(c.seq, WrapAdd(incoming_reliable_seq, 1)) <= HalfMod
  <2> DEFINE e == Len(released) + 1
  <2>1. /\ c.idx \in Int /\ e \in Int /\ 0 <= c.idx - e /\ c.idx - e <= HalfMod
        /\ c.idx - e < SeqRange
    BY <1>1, <1>2, Numbers DEF IndInv, CountersInv
  <2>2. WrapSub(Wrap(c.idx), Wrap(e)) = c.idx - e
    BY <2>1, WrapDistance
  <2> QED BY <1>1, <2>1, <2>2
\* Packets in the queue with the same sequence number are the same packet.
<1>6. \A r \in queue : r.seq = c.seq => r.idx = c.idx
  <2> SUFFICES ASSUME NEW r \in queue, r.seq = c.seq PROVE r.idx = c.idx
    OBVIOUS
  <2>1. /\ r.idx \in Int /\ c.idx \in Int
        /\ r.idx - c.idx < SeqRange /\ c.idx - r.idx < SeqRange
    BY <1>2, <1>4, Numbers DEF IndInv, CountersInv
  <2> QED BY <1>1, <1>4, <2>1, WrapInjective
<1>7. /\ \A r \in queue' : r \in queue \/ r = c
      /\ \A r \in queue : \E q \in queue' : q.idx = r.idx
      /\ \E q \in queue' : q.idx = c.idx
  <2>1. CASE ~QueueFull
    <3>1. queue' = {r \in queue : r.seq # c.seq} \cup {c}
      BY <1>5, <2>1 DEF ReceiveAhead
    <3> QED BY <1>6, <3>1
  <2>2. CASE QueueFull
    <3>1. queue' = queue
      BY <2>2 DEF ReceiveAhead
    <3>2. Buffered(c.seq)
      BY <2>2 DEF ReceiveAhead
    <3> QED BY <1>6, <3>1, <3>2 DEF Buffered
  <2> QED BY <2>1, <2>2
<1>8. QueueInv'
  BY <1>1, <1>2, <1>3, <1>4, <1>7 DEF QueueInv
<1>9. (\A i \in 1 .. Len(wire) : Received(i) => Received(i)') /\ Received(c.idx)'
  BY <1>3, <1>7 DEF Received
<1>10. Sequential' /\ incoming_reliable_seq' = Wrap(Len(released'))
  BY <1>3 DEF IndInv, Sequential, CountersInv
<1>11. Len(released') \in Nat /\ Len(released) <= Len(released')
       /\ Len(released') <= Len(wire)
  BY <1>3, Numbers DEF IndInv, CountersInv
<1> QED BY <1>8, <1>9, <1>10, <1>11, ReceiverFrame

\* An old duplicate was released before.
LEMMA ReceiveOldInd ==
  ASSUME TypeOK, IndInv, NEW c \in net, c.kind = "DATA", Arrive(c), UNCHANGED senderVars,
         ReceiveOld(c)
  PROVE  IndInv'
<1>1. c.idx \in 1 .. Len(wire) /\ c.idx # Len(released) + 1
      /\ ~(Len(released) + 1 < c.idx)
  BY ArrivalOrder DEF ReceiveOld
<1>2. /\ incoming_reliable_seq' = incoming_reliable_seq /\ released' = released
      /\ incoming_reliable_queue' = incoming_reliable_queue /\ wire' = wire
  BY DEF ReceiveOld, senderVars
<1>3. Received(c.idx)'
  BY <1>1, <1>2, Numbers DEF Received
<1>4. \A i \in 1 .. Len(wire) : Received(i) => Received(i)'
  BY <1>2 DEF Received
<1>5. Sequential' /\ QueueInv' /\ incoming_reliable_seq' = Wrap(Len(released'))
  BY <1>2 DEF IndInv, Sequential, QueueInv, CountersInv
<1>6. Len(released') \in Nat /\ Len(released) <= Len(released')
      /\ Len(released') <= Len(wire)
  BY <1>2, Numbers DEF IndInv, CountersInv
<1> QED BY <1>3, <1>4, <1>5, <1>6, ReceiverFrame

\* Steps that only take from the network, or add connection-level ACKs, and
\* leave both channels alone preserve the invariant.
LEMMA NetworkInd ==
  ASSUME TypeOK, IndInv, UNCHANGED senderVars,
         released' = released, incoming_reliable_seq' = incoming_reliable_seq,
         incoming_reliable_queue' = incoming_reliable_queue,
         net' \subseteq net,
         \A a \in acks' : a \in acks \/ a.ch = "connection"
  PROVE  IndInv'
<1>1. wire' = wire /\ state' = state /\ outgoing_reliable' = outgoing_reliable
      /\ outgoing_reliable_seq' = outgoing_reliable_seq
  BY DEF senderVars
<1>2. CountersInv' /\ OutstandingInv' /\ NetInv' /\ QueueInv' /\ ClosingInv'
  BY <1>1 DEF IndInv, CountersInv, OutstandingInv, NetInv, QueueInv, ClosingInv,
              InFlight, Data
<1>3. AcksInv'
  BY <1>1 DEF IndInv, AcksInv, InFlight, Received
<1>4. Sequential' /\ AckedKept' /\ ClosedAfterData'
  BY <1>1 DEF IndInv, Sequential, AckedKept, ClosedAfterData, Data
<1> QED BY <1>2, <1>3, <1>4 DEF IndInv

\* Every step that refuses no packet preserves the invariant.
LEMMA NextInd ==
  ASSUME TypeOK, IndInv, [Next]_vars, refused' = {}
  PROVE  IndInv'
<1>1. CASE UNCHANGED vars
  BY <1>1, NetworkInd DEF vars, receiverVars
<1>2. CASE UserSend \/ UserDisconnect \/ AdjustWindow \/ Service
  BY <1>2, SenderInd
<1>3. CASE Lose
  BY <1>3, NetworkInd DEF Lose, receiverVars
<1>4. CASE ReceiverTimeout
  BY <1>4, NetworkInd DEF ReceiverTimeout, CloseReceiver
<1>5. CASE UserRecv
  BY <1>5, NetworkInd DEF UserRecv
<1>6. ASSUME NEW a \in acks, OnAck(a) PROVE IndInv'
  BY <1>6, OnAckInd
<1>7. ASSUME NEW c \in net, RecvReliable(c) PROVE IndInv'
  BY <1>7, ReceiveExpectedInd, ReceiveAheadInd, ReceiveOldInd DEF RecvReliable
<1>8. ASSUME NEW c \in net, RecvPing(c) PROVE IndInv'
  <2>1. Ack(c).ch = "connection"
    BY <1>8 DEF RecvPing, Ack, Chan
  <2> QED BY <1>8, <2>1, NetworkInd DEF RecvPing, Arrive, receiverVars
<1>9. ASSUME NEW c \in net, RecvDisconnect(c) PROVE IndInv'
  <2>1. Ack(c).ch = "connection"
    BY <1>9 DEF RecvDisconnect, Ack, Chan
  <2> QED BY <1>9, <2>1, NetworkInd DEF RecvDisconnect, CloseReceiver, Arrive
<1> QED BY <1>1, <1>2, <1>3, <1>4, <1>5, <1>6, <1>7, <1>8, <1>9 DEF Next

LEMMA InitInd == Init => IndInv
<1> SUFFICES ASSUME Init PROVE IndInv
  OBVIOUS
<1>1. Len(wire) = 0 /\ Len(released) = 0
  BY DEF Init
<1>2. Wrap(0) = 0
  BY SeqRangeAssumption DEF Wrap
<1>3. CountersInv
  BY <1>1, <1>2 DEF Init, CountersInv
<1>4. OutstandingInv /\ NetInv /\ AcksInv /\ QueueInv /\ ClosingInv
  BY DEF Init, OutstandingInv, NetInv, AcksInv, QueueInv, ClosingInv, Data
<1>5. Sequential /\ AckedKept /\ ClosedAfterData
  BY <1>1 DEF Init, Sequential, AckedKept, ClosedAfterData
<1> QED BY <1>3, <1>4, <1>5 DEF IndInv

\* Only a packet ahead of the gap is refused, and the queue never forgets it.
LEMMA RefusedStep ==
  ASSUME [Next]_vars
  PROVE  \/ refused' = refused
         \/ /\ refused' # {}
            /\ \E c \in net : /\ c.kind = "DATA" /\ ReceiveAhead(c)
                            /\ UNCHANGED senderVars
<1>1. CASE \/ UserSend \/ UserDisconnect \/ AdjustWindow \/ Service \/ Lose
           \/ (\E a \in acks : OnAck(a)) \/ UNCHANGED vars
  BY <1>1
  DEF UserSend, UserDisconnect, AdjustWindow, Service, ServiceTimeout, ServiceConnected,
      ServiceClosing, Lose, OnAck, vars, receiverVars
<1>2. ASSUME NEW c \in net, RecvReliable(c)
      PROVE  refused' = refused \/ (refused' # {} /\ ReceiveAhead(c))
  <2>1. CASE ReceiveExpected(c) \/ ReceiveOld(c)
    BY <2>1 DEF ReceiveExpected, ReceiveOld
  <2>2. CASE ReceiveAhead(c)
    BY <2>2 DEF ReceiveAhead
  <2> QED BY <1>2, <2>1, <2>2 DEF RecvReliable
<1>3. ASSUME NEW c \in net, RecvPing(c) \/ RecvDisconnect(c) PROVE refused' = refused
  BY <1>3 DEF RecvPing, RecvDisconnect, CloseReceiver, receiverVars
<1>4. CASE ReceiverTimeout \/ UserRecv
  BY <1>4 DEF ReceiverTimeout, CloseReceiver, UserRecv
<1> QED BY <1>1, <1>2, <1>3, <1>4 DEF Next, RecvReliable

\* Until the reorder queue refuses a packet, the invariant holds.
IndUntilRefused == refused = {} => IndInv

THEOREM InductiveInvariant == Spec => [](TypeOK /\ IndUntilRefused)
<1>1. TypeOK /\ IndUntilRefused /\ [Next]_vars => IndUntilRefused'
  <2> SUFFICES ASSUME TypeOK, IndUntilRefused, [Next]_vars, refused' = {} PROVE IndInv'
    BY DEF IndUntilRefused
  <2>1. refused = {}
    BY RefusedStep DEF ReceiveAhead
  <2> QED BY <2>1, NextInd DEF IndUntilRefused
<1>2. Init => IndUntilRefused
  BY InitInd DEF IndUntilRefused
<1> QED BY <1>1, <1>2, TypeCorrect, PTL DEF Spec

\* receive_reliable releases packets exactly once and in order, until the
\* reorder queue refuses one.
THEOREM ReliableInOrder == Spec => []InOrder
<1>1. IndUntilRefused => InOrder
  BY DEF IndUntilRefused, IndInv, InOrder
<1> QED BY <1>1, InductiveInvariant, PTL

\* on_ack forgets a packet only when the receiving host holds it: it takes a
\* full reorder queue to lose an acknowledged packet.
THEOREM NoFalseAck == Spec => []AckedIsReceived
<1>1. IndUntilRefused => AckedIsReceived
  BY DEF IndUntilRefused, IndInv, AckedIsReceived
<1> QED BY <1>1, InductiveInvariant, PTL

\* A graceful disconnect never overtakes transmitted data, until the reorder
\* queue refuses a packet.
THEOREM DisconnectAfterData == Spec => []GracefulDisconnect
<1>1. IndUntilRefused => GracefulDisconnect
  BY DEF IndUntilRefused, IndInv, GracefulDisconnect
<1> QED BY <1>1, InductiveInvariant, PTL

----------------------------------------------------------------------------
(* The refinement: ReliableChannel implements ReliableLink, for every value *)
(* of its constants.                                                        *)


\* What has been handed over is the released prefix of what was transmitted.
LEMMA HandedIsPrefix ==
  ASSUME TypeOK, IndInv
  PROVE  /\ Len(handed) = Len(released) /\ DOMAIN handed = 1 .. Len(released)
         /\ \A k \in 1 .. Len(released) : handed[k] = wire[k]
         /\ handed = SubSeq(wire, 1, Len(released))
<1>1. Len(released) \in Nat /\ Len(released) <= Len(wire) /\ Len(wire) \in Nat
  BY Numbers DEF IndInv, CountersInv
<1>2. \A k \in 1 .. Len(released) : released[k] = k
  BY DEF IndInv, Sequential
<1>3. handed = [k \in 1 .. Len(released) |-> wire[k]]
  BY <1>2 DEF handed
<1>4. SubSeq(wire, 1, Len(released)) = [k \in 1 .. Len(released) |-> wire[k]]
  <2>1. \A k \in 1 .. Len(released) : wire[k] \in 1 .. MaxPackets
    <3>1. wire \in Seq(1 .. MaxPackets) /\ \A k \in 1 .. Len(released) : k \in 1 .. Len(wire)
      BY <1>1 DEF TypeOK
    <3> QED BY <3>1, ElementOfSeq
  <2> DEFINE s == SubSeq(wire, 1, Len(released))
  <2>2. /\ s \in Seq(1 .. MaxPackets)
        /\ Len(s) = IF 1 <= Len(released) THEN Len(released) - 1 + 1 ELSE 0
        /\ \A k \in 1 .. (Len(released) - 1 + 1) : s[k] = wire[1 + k - 1]
    BY <1>1, <2>1, SubSeqProperties
  <2> HIDE DEF s
  <2>3. Len(s) = Len(released) /\ \A k \in 1 .. Len(released) : s[k] = wire[k]
    BY <1>1, <2>2
  <2>4. s = [k \in 1 .. Len(s) |-> s[k]]
    BY <2>2
  <2> QED BY <2>3, <2>4 DEF s
<1>5. Len(handed) = Len(released)
  BY <1>1, <1>3
<1> QED BY <1>2, <1>3, <1>4, <1>5

\* Transmitting packets is Send of the abstract link, or nothing.
LEMMA TransmitLink ==
  ASSUME TypeOK, TypeOK', IndInv, IndInv', refused = {}, refused' = {},
         state = "Connected", state' = state,
         released' = released,
         NEW pkts \in Seq(1 .. MaxPackets), NEW out, NEW others, Transmit(pkts, out, others)
  PROVE  [Link!Next]_(Link!linkVars)
<1>1. wire' = wire \o pkts /\ wire \in Seq(1 .. MaxPackets) /\ wire' \in Seq(1 .. MaxPackets)
  BY DEF Transmit, TypeOK
<1>2. /\ Len(wire') = Len(wire) + Len(pkts) /\ Len(pkts) \in Nat /\ Len(wire) \in Nat
      /\ \A i \in 1 .. Len(wire) : wire'[i] = wire[i]
  <2>1. /\ Len(wire \o pkts) = Len(wire) + Len(pkts) /\ Len(pkts) \in Nat /\ Len(wire) \in Nat
        /\ \A i \in 1 .. (Len(wire) + Len(pkts)) :
             (wire \o pkts)[i] = IF i <= Len(wire) THEN wire[i] ELSE pkts[i - Len(wire)]
    BY <1>1, ConcatProperties
  <2> QED BY <1>1, <2>1
<1>3. handed' = handed /\ linkStatus' = linkStatus /\ linkStatus = "open"
  <2>1. Len(released) \in Nat /\ Len(released) <= Len(wire)
    BY Numbers DEF IndInv, CountersInv
  <2>2. \A k \in 1 .. Len(released) : released[k] \in 1 .. Len(wire)
    BY <2>1, <1>2 DEF IndInv, Sequential
  <2> QED BY <1>2, <2>2 DEF handed, linkStatus
<1>4. CASE Len(pkts) = 0
  <2>1. pkts = <<>>
    BY <1>4
  <2>2. wire' = wire
    BY <1>1, <2>1, ConcatEmptySeq
  <2> QED BY <1>3, <2>2 DEF Link!linkVars
<1>5. CASE Len(pkts) > 0
  <2>1. SubSeq(wire', 1, Len(wire)) = wire
    <3>1. \A i \in 1 .. Len(wire) : wire'[i] \in 1 .. MaxPackets
      BY <1>1, <1>2, ChannelAssumption, ElementOfSeq
    <3> DEFINE s == SubSeq(wire', 1, Len(wire))
    <3>2. /\ s \in Seq(1 .. MaxPackets)
          /\ Len(s) = IF 1 <= Len(wire) THEN Len(wire) - 1 + 1 ELSE 0
          /\ \A k \in 1 .. (Len(wire) - 1 + 1) : s[k] = wire'[1 + k - 1]
      BY <1>2, <3>1, SubSeqProperties
    <3> HIDE DEF s
    <3>3. Len(s) = Len(wire) /\ \A k \in 1 .. Len(wire) : s[k] = wire[k]
      BY <1>2, <3>2
    <3>4. s = wire
      BY <1>1, <3>2, <3>3, SeqEqual
    <3> QED BY <3>4 DEF s
  <2>2. Len(wire') > Len(wire)
    BY <1>2, <1>5
  <2>3. Link!Send
    BY <1>1, <1>3, <2>1, <2>2 DEF Link!Send
  <2> QED BY <2>3 DEF Link!Next
<1> QED BY <1>2, <1>4, <1>5

\* Steps the abstract link does not see.
LEMMA StutterLink ==
  ASSUME wire' = wire, released' = released, linkStatus' = linkStatus
  PROVE  [Link!Next]_(Link!linkVars)
  BY DEF Link!linkVars, handed

\* The status of the link is that of the sending peer.
LEMMA SameStatus ==
  ASSUME refused = {}, refused' = {}, state' = state
  PROVE  linkStatus' = linkStatus
  BY DEF linkStatus

\* Releasing packets is Handover of the abstract link.
LEMMA ReleaseLink ==
  ASSUME TypeOK, TypeOK', IndInv, IndInv', refused = {}, refused' = {},
         wire' = wire, state' = state, Len(released') > Len(released)
  PROVE  [Link!Next]_(Link!linkVars)
<1>1. Len(released) \in Nat /\ Len(handed) = Len(released)
  BY HandedIsPrefix, Numbers
<1>2. Len(released') \in Nat /\ Len(released') <= Len(wire) /\ Len(wire) \in Nat
  BY Numbers DEF IndInv, CountersInv, TypeOK
<1>3. handed' = SubSeq(wire, 1, Len(released'))
  <2>1. \A k \in 1 .. Len(released') : released'[k] = k
    BY DEF IndInv, Sequential
  <2>2. handed' = [k \in 1 .. Len(released') |-> wire[k]]
    BY <2>1 DEF handed
  <2> DEFINE s == SubSeq(wire, 1, Len(released'))
  <2>3. wire \in Seq(1 .. MaxPackets) /\ \A k \in 1 .. Len(released') : k \in 1 .. Len(wire)
    BY <1>2 DEF TypeOK
  <2>4. \A k \in 1 .. Len(released') : wire[k] \in 1 .. MaxPackets
    BY <2>3, ElementOfSeq
  <2>5. /\ s \in Seq(1 .. MaxPackets)
        /\ Len(s) = IF 1 <= Len(released') THEN Len(released') - 1 + 1 ELSE 0
        /\ \A k \in 1 .. (Len(released') - 1 + 1) : s[k] = wire[1 + k - 1]
    BY <1>2, <2>4, SubSeqProperties
  <2> HIDE DEF s
  <2>6. Len(s) = Len(released') /\ \A k \in 1 .. Len(released') : s[k] = wire[k]
    BY <1>2, <2>5
  <2>7. s = [k \in 1 .. Len(s) |-> s[k]]
    BY <2>5
  <2>8. s = [k \in 1 .. Len(released') |-> wire[k]]
    BY <2>6, <2>7
  <2> QED BY <2>2, <2>8 DEF s
<1>4. Len(released') \in (Len(handed) + 1) .. Len(wire)
  BY <1>1, <1>2
<1>5. Link!Handover
  BY <1>3, <1>4 DEF Link!Handover, linkStatus
<1> QED BY <1>5 DEF Link!Next

\* Sending DISCONNECT is Close: everything has been handed over.
LEMMA CloseLink ==
  ASSUME TypeOK, TypeOK', IndInv, IndInv', refused = {}, refused' = {},
         wire' = wire, released' = released, state \in {"Connected", "DisconnectLater"}, state' = "Disconnecting"
  PROVE  [Link!Next]_(Link!linkVars)
<1>1. Len(released) = Len(wire)
  BY DEF IndInv, ClosedAfterData
<1>2. handed = wire
  <2>1. handed = SubSeq(wire, 1, Len(wire))
    BY <1>1, HandedIsPrefix
  <2> QED BY <2>1, SubSeqFull DEF TypeOK
<1>3. linkStatus = "open" /\ linkStatus' = "closing" /\ handed' = handed
  BY DEF linkStatus, handed
<1>4. Link!Close
  BY <1>2, <1>3 DEF Link!Close
<1> QED BY <1>4 DEF Link!Next

\* remove_peer is Vanish.
LEMMA RemoveLink ==
  ASSUME TypeOK, wire' = wire, released' = released, state # "Removed", state' = "Removed",
         refused = {}, refused' = {}
  PROVE  [Link!Next]_(Link!linkVars)
<1>1. linkStatus \in {"open", "closing"} /\ linkStatus' = "gone" /\ handed' = handed
  BY DEF linkStatus, handed, TypeOK
<1>2. Link!Vanish
  BY <1>1 DEF Link!Vanish
<1> QED BY <1>2 DEF Link!Next

\* The expected packet always releases something.
LEMMA ReleasedRun ==
  ASSUME TypeOK, NEW c \in net, ReceiveExpected(c)
  PROVE  \E run \in Seq(Nat) : Len(run) > 0 /\ released' = released \o run /\ Deliver(run)
<1>1. PICK d \in 0 .. (SeqRange - 1) :
        /\ \A i \in 1 .. d : Buffered(WrapAdd(c.seq, i))
        /\ LET run == [i \in 1 .. (d + 1) |->
                         IF i = 1 THEN c.idx ELSE BufferedAt(WrapAdd(c.seq, i - 1)).idx]
           IN  released' = released \o run /\ Deliver(run)
  BY DEF ReceiveExpected
<1> DEFINE run == [i \in 1 .. (d + 1) |->
                     IF i = 1 THEN c.idx ELSE BufferedAt(WrapAdd(c.seq, i - 1)).idx]
<1>2. d \in Nat /\ c.idx \in Nat
  BY SeqRangeAssumption DEF TypeOK, CommandSet
<1>3. \A i \in 1 .. d : BufferedAt(WrapAdd(c.seq, i)).idx \in Nat
  BY <1>1, Positions DEF Buffered, BufferedAt
<1>4. \A i \in 1 .. (d + 1) : i # 1 => i - 1 \in 1 .. d
  BY <1>2
<1>5. \A i \in 1 .. (d + 1) : run[i] \in Nat
  BY <1>2, <1>3, <1>4
<1>6. run \in Seq(Nat) /\ Len(run) = d + 1
  BY <1>2, <1>5
<1>7. released' = released \o run /\ Deliver(run)
  BY <1>1
<1> HIDE DEF run
<1>8. Len(run) > 0
  BY <1>2, <1>6
<1> QED BY <1>6, <1>7, <1>8

\* A packet the queue refuses breaks the abstract link.
LEMMA BreakLink ==
  ASSUME TypeOK, IndInv, NEW c \in net, c.kind = "DATA", ReceiveAhead(c),
         UNCHANGED senderVars, refused = {}, refused' # {}
  PROVE  [Link!Next]_(Link!linkVars)
<1>1. wire' = wire /\ released' = released /\ handed' = handed
  BY DEF ReceiveAhead, senderVars, handed
<1>2. Len(handed) # Len(wire)
  <2>1. Len(released) + 1 < c.idx /\ c.idx \in 1 .. Len(wire)
    BY ArrivalOrder DEF ReceiveAhead
  <2>2. Len(handed) = Len(released)
    BY HandedIsPrefix
  <2> QED BY <2>1, <2>2, Numbers
<1>3. linkStatus # "broken" /\ linkStatus' = "broken"
  BY DEF linkStatus, TypeOK
<1>4. Link!Break
  BY <1>1, <1>2, <1>3 DEF Link!Break
<1> QED BY <1>4 DEF Link!Next

\* Every other step implements a step of the abstract link or a stutter.
LEMMA NextLink ==
  ASSUME TypeOK, TypeOK', IndInv, IndInv', refused = {}, refused' = {}, [Next]_vars
  PROVE  [Link!Next]_(Link!linkVars)
<1>1. CASE UNCHANGED vars
  BY <1>1, StutterLink DEF vars, senderVars, receiverVars, linkStatus
<1>2. CASE UserSend
  <2>1. CASE state = "Connected" /\ WindowOpen(1)
    <3> DEFINE pkts == <<submitted + 1>>
               others == {}
    <3>1. /\ Transmit(pkts, outgoing_reliable, others)
          /\ state' = state /\ released' = released
      BY <1>2, <2>1 DEF UserSend, receiverVars
    <3>2. pkts \in Seq(1 .. MaxPackets)
      BY <1>2, ChannelAssumption DEF UserSend, TypeOK
    <3> HIDE DEF pkts, others
    <3> QED BY <2>1, <3>1, <3>2, TransmitLink
  <2>2. CASE ~(state = "Connected" /\ WindowOpen(1))
    <3>1. wire' = wire /\ released' = released /\ state' = state
      BY <1>2, <2>2 DEF UserSend, receiverVars
    <3> QED BY <3>1, StutterLink DEF linkStatus
  <2> QED BY <2>1, <2>2
<1>3. CASE UserDisconnect
  <2>1. /\ wire' = wire /\ released' = released /\ state = "Connected"
        /\ state' \in {"DisconnectLater", "Disconnecting"}
    BY <1>3 DEF UserDisconnect, receiverVars
  <2>2. CASE state' = "DisconnectLater"
    BY <2>1, <2>2, StutterLink DEF linkStatus
  <2>3. CASE state' = "Disconnecting"
    BY <2>1, <2>3, CloseLink
  <2> QED BY <2>1, <2>2, <2>3
<1>4. CASE AdjustWindow
  BY <1>4, StutterLink DEF AdjustWindow, receiverVars, linkStatus
<1>5. CASE ServiceTimeout
  BY <1>5, RemoveLink DEF ServiceTimeout, RemovePeer, receiverVars
<1>6. ASSUME NEW due \in SUBSET Retriable, NEW ping \in BOOLEAN,
             ServiceConnected(due, ping)
      PROVE  [Link!Next]_(Link!linkVars)
  <2>1. PICK k \in 0 .. Len(pending_send) : \E out, others :
          Transmit(SubSeq(pending_send, 1, k), out, others)
    BY <1>6 DEF ServiceConnected
  <2> DEFINE pkts == SubSeq(pending_send, 1, k)
  <2>2. PICK out, others : Transmit(pkts, out, others)
    BY <2>1
  <2>3. pkts \in Seq(1 .. MaxPackets)
    <3>1. pending_send \in Seq(1 .. MaxPackets) /\ Len(pending_send) \in Nat
          /\ k \in Nat /\ k <= Len(pending_send)
      BY DEF TypeOK
    <3>2. \A i \in 1 .. k : pending_send[i] \in 1 .. MaxPackets
      BY <3>1, ChannelAssumption, ElementOfSeq
    <3> QED BY <3>1, <3>2, SubSeqProperties
  <2>4. state = "Connected" /\ state' = state /\ released' = released
    BY <1>6 DEF ServiceConnected, receiverVars
  <2> HIDE DEF pkts
  <2> QED BY <2>2, <2>3, <2>4, TransmitLink
<1>7. ASSUME NEW due \in SUBSET Retriable, ServiceClosing(due)
      PROVE  [Link!Next]_(Link!linkVars)
  <2>1. /\ wire' = wire /\ released' = released
        /\ state' = state \/ (state = "DisconnectLater" /\ state' = "Disconnecting")
    BY <1>7 DEF ServiceClosing, receiverVars
  <2>2. CASE state' = state
    BY <2>1, <2>2, StutterLink DEF linkStatus
  <2>3. CASE state = "DisconnectLater" /\ state' = "Disconnecting"
    BY <2>1, <2>3, CloseLink
  <2> QED BY <2>1, <2>2, <2>3
<1>8. ASSUME NEW a \in acks, OnAck(a)
      PROVE  [Link!Next]_(Link!linkVars)
  <2>1. /\ wire' = wire /\ released' = released /\ state # "Removed"
        /\ state' \in {state, "Removed"}
    BY <1>8 DEF OnAck, RemovePeer, receiverVars
  <2>2. CASE state' = state
    BY <2>1, <2>2, StutterLink, SameStatus
  <2>3. CASE state' = "Removed"
    BY <2>1, <2>3, RemoveLink
  <2> QED BY <2>1, <2>2, <2>3
<1>9. CASE Lose \/ ReceiverTimeout \/ UserRecv
  <2>1. wire' = wire /\ released' = released /\ state' = state
    BY <1>9 DEF Lose, ReceiverTimeout, CloseReceiver, UserRecv, senderVars, receiverVars
  <2> QED BY <2>1, StutterLink, SameStatus
<1>10. ASSUME NEW c \in net, RecvReliable(c)
       PROVE  [Link!Next]_(Link!linkVars)
  <2>1. wire' = wire /\ state' = state
    BY <1>10 DEF RecvReliable, senderVars
  <2>2. CASE ReceiveExpected(c)
    <3>1. PICK run : run \in Seq(Nat) /\ Len(run) > 0 /\ released' = released \o run
      BY <2>2, ReleasedRun
    <3>2. Len(released') > Len(released)
      BY <3>1, ConcatProperties DEF TypeOK
    <3> QED BY <2>1, <3>2, ReleaseLink
  <2>3. CASE ReceiveAhead(c) \/ ReceiveOld(c)
    <3>1. released' = released
      BY <2>3 DEF ReceiveAhead, ReceiveOld
    <3> QED BY <2>1, <3>1, StutterLink DEF linkStatus
  <2> QED BY <1>10, <2>2, <2>3 DEF RecvReliable
<1>11. ASSUME NEW c \in net, RecvPing(c) \/ RecvDisconnect(c)
       PROVE  [Link!Next]_(Link!linkVars)
  <2>1. wire' = wire /\ released' = released /\ state' = state
    BY <1>11 DEF RecvPing, RecvDisconnect, CloseReceiver, senderVars, receiverVars
  <2> QED BY <2>1, StutterLink, SameStatus
<1> QED BY <1>1, <1>2, <1>3, <1>4, <1>5, <1>6, <1>7, <1>8, <1>9, <1>10, <1>11
    DEF Next, Service

\* The channel implements the abstract link: reliable packets come out in
\* transmission order, none skipped or repeated, a graceful disconnect waits
\* for all of them, and only a full reorder queue breaks the link.
THEOREM ChannelImplementsLink == Spec => ImplementsLink
<1> SUFFICES Spec => Link!Spec
  BY DEF ImplementsLink
<1>1. Init => Link!Init
  BY DEF Init, Link!Init, handed, linkStatus
<1>2. TypeOK /\ IndUntilRefused /\ TypeOK' /\ IndUntilRefused' /\ [Next]_vars
        => [Link!Next]_(Link!linkVars)
  <2> SUFFICES ASSUME TypeOK, IndUntilRefused, TypeOK', IndUntilRefused', [Next]_vars
               PROVE  [Link!Next]_(Link!linkVars)
    OBVIOUS
  <2>1. CASE refused # {} /\ refused' # {}
    <3>1. Link!Broken
      BY <2>1 DEF Link!Broken, linkStatus
    <3> QED BY <3>1 DEF Link!Next
  <2>2. CASE refused = {} /\ refused' # {}
    BY <2>2, RefusedStep, BreakLink DEF IndUntilRefused
  <2>3. CASE refused = {} /\ refused' = {}
    BY <2>3, NextLink DEF IndUntilRefused
  <2>4. CASE refused # {} /\ refused' = {}
    BY <2>4, RefusedStep
  <2> QED BY <2>1, <2>2, <2>3, <2>4
<1> QED BY <1>1, <1>2, InductiveInvariant, PTL DEF Spec, Link!Spec

----------------------------------------------------------------------------
(* What the receiving application reads.                                    *)

\* Everything the application has read or will read if nothing more arrives.
seen == received \o to_user

\* What was queued for the application are released packets in increasing
\* order; the disconnect event comes last, when the peer is gone.
SeenInv ==
  /\ \A i \in 1 .. Len(seen) : seen[i] <= Len(released)
  /\ alive => \A i \in 1 .. Len(seen) : seen[i] # DisconnectEvent
  /\ Increasing(seen)

LEMMA SeenTyped == ASSUME TypeOK PROVE seen \in Seq(Nat)
  BY ConcatProperties DEF TypeOK, seen

\* Numbers in order behind smaller ones keep a sequence increasing.
LEMMA ExtendIncreasing ==
  ASSUME NEW s \in Seq(Nat), NEW t \in Seq(Nat), NEW n \in Nat, Increasing(s),
         \A i \in 1 .. Len(s) : s[i] <= n /\ s[i] # DisconnectEvent,
         \A i \in 1 .. Len(t) : t[i] = n + i
  PROVE  /\ Increasing(s \o t)
         /\ \A i \in 1 .. Len(s \o t) : (s \o t)[i] <= n + Len(t)
                                        /\ (s \o t)[i] # DisconnectEvent
<1> DEFINE u == s \o t
<1>1. /\ Len(u) = Len(s) + Len(t) /\ Len(s) \in Nat /\ Len(t) \in Nat
      /\ \A i \in 1 .. Len(u) : u[i] = IF i <= Len(s) THEN s[i] ELSE t[i - Len(s)]
  BY ConcatProperties
<1> HIDE DEF u
<1>2. \A i \in 1 .. Len(u) : \/ i <= Len(s) /\ i \in 1 .. Len(s) /\ u[i] = s[i]
                             \/ i > Len(s) /\ u[i] = n + (i - Len(s))
  <2> SUFFICES ASSUME NEW i \in 1 .. Len(u), i > Len(s) PROVE u[i] = n + (i - Len(s))
    BY <1>1
  <2>1. i - Len(s) \in 1 .. Len(t) /\ u[i] = t[i - Len(s)]
    BY <1>1
  <2> QED BY <2>1
<1>3. \A i \in 1 .. Len(s) : s[i] \in Nat /\ s[i] <= n /\ s[i] # 0
  BY DEF DisconnectEvent
<1>4. ASSUME NEW i \in 1 .. Len(u) PROVE u[i] <= n + Len(t) /\ u[i] # 0
  BY <1>1, <1>2, <1>3, <1>4, SMTT(30)
<1>5. ASSUME NEW i \in 1 .. Len(u), NEW j \in 1 .. Len(u), i < j
      PROVE  u[j] = 0 \/ u[i] < u[j]
  <2>1. CASE j <= Len(s)
    <3>1. i \in 1 .. Len(s) /\ j \in 1 .. Len(s) /\ u[i] = s[i] /\ u[j] = s[j]
      BY <1>1, <1>2, <1>5, <2>1
    <3> QED BY <1>5, <3>1 DEF Increasing, DisconnectEvent
  <2>2. CASE j > Len(s)
    BY <1>1, <1>2, <1>3, <1>5, <2>2, SMTT(30)
  <2> QED BY <1>1, <2>1, <2>2
<1> QED BY <1>4, <1>5 DEF Increasing, DisconnectEvent, u

\* deliver queues a prefix of the released run, and the run continues the
\* released packets.
LEMMA DeliverSeen ==
  ASSUME TypeOK, TypeOK', IndInv, IndInv', SeenInv, alive, NEW c \in net,
         ReceiveExpected(c), UNCHANGED <<alive, received>>
  PROVE  SeenInv'
<1>1. PICK run \in Seq(Nat) : released' = released \o run /\ Deliver(run)
  BY ReleasedRun
<1> DEFINE n == Len(released)
           room == UserCap - Len(to_user)
           k == IF Len(run) < room THEN Len(run) ELSE room
           t == SubSeq(run, 1, k)
<1>2. /\ n \in Nat /\ Len(run) \in Nat /\ Len(released') = n + Len(run)
      /\ \A i \in 1 .. (n + Len(run)) :
           (released \o run)[i] = IF i <= n THEN released[i] ELSE run[i - n]
  BY <1>1, ConcatProperties DEF TypeOK
<1>3. \A i \in 1 .. Len(run) : run[i] = n + i
  <2> SUFFICES ASSUME NEW i \in 1 .. Len(run) PROVE run[i] = n + i
    OBVIOUS
  <2>1. n + i \in 1 .. (n + Len(run)) /\ ~ (n + i <= n) /\ (n + i) - n = i
    BY <1>2
  <2>2. released'[n + i] = run[i]
    BY <1>1, <1>2, <2>1
  <2> QED BY <1>2, <2>1, <2>2 DEF IndInv, Sequential
<1>4. k \in Nat /\ k <= Len(run)
  BY <1>2, ChannelAssumption DEF TypeOK
<1>5. to_user' = to_user \o t
  BY <1>1 DEF Deliver
<1> HIDE DEF k, n
<1>6. /\ t \in Seq(Nat) /\ Len(t) = k
      /\ \A i \in 1 .. k : t[i] = n + i
  <2>1. \A i \in 1 .. k : run[i] \in Nat
    BY <1>2, <1>4
  <2>2. /\ t \in Seq(Nat) /\ Len(t) = IF 1 <= k THEN k - 1 + 1 ELSE 0
        /\ \A i \in 1 .. (k - 1 + 1) : t[i] = run[1 + i - 1]
    BY <1>4, <2>1, SubSeqProperties
  <2>3. Len(t) = k
    BY <1>4, <2>2
  <2>4. ASSUME NEW i \in 1 .. k PROVE t[i] = n + i
    <3>1. i \in 1 .. (k - 1 + 1) /\ 1 + i - 1 = i /\ i \in 1 .. Len(run)
      BY <1>2, <1>4
    <3> QED BY <1>3, <2>2, <3>1
  <2> QED BY <2>2, <2>3, <2>4
<1> HIDE DEF t
<1>7. seen' = seen \o t
  <2>1. received \in Seq(Nat) /\ to_user \in Seq(Nat)
    BY DEF TypeOK
  <2>2. (received \o to_user) \o t = received \o (to_user \o t)
    BY <1>6, <2>1, ConcatAssociative, SMTT(30)
  <2> QED BY <1>5, <2>2 DEF seen
<1>8. /\ seen \in Seq(Nat) /\ Increasing(seen)
      /\ \A i \in 1 .. Len(seen) : seen[i] <= n /\ seen[i] # DisconnectEvent
  BY SeenTyped DEF SeenInv, n
<1> HIDE DEF seen
<1>9. /\ Increasing(seen \o t)
      /\ \A i \in 1 .. Len(seen \o t) : (seen \o t)[i] <= n + Len(t)
                                        /\ (seen \o t)[i] # DisconnectEvent
  <2>1. n \in Nat /\ t \in Seq(Nat) /\ \A i \in 1 .. Len(t) : t[i] = n + i
    BY <1>2, <1>6
  <2> HIDE DEF Increasing
  <2> QED BY <1>8, <2>1, ExtendIncreasing
<1>10. Increasing(seen') /\ \A i \in 1 .. Len(seen') : seen'[i] # DisconnectEvent
  BY <1>7, <1>9 DEF Increasing
<1>11. \A i \in 1 .. Len(seen') : seen'[i] <= Len(released')
  <2>1. seen' \in Seq(Nat)
    BY <1>6, <1>7, <1>8, ConcatProperties
  <2>2. \A i \in 1 .. Len(seen') : seen'[i] <= n + k /\ seen'[i] \in Nat
    BY <1>6, <1>7, <1>9, <2>1
  <2> QED BY <1>2, <1>4, <2>2 DEF n
<1> QED BY <1>10, <1>11 DEF SeenInv, Increasing

\* The disconnect event ends what the application reads.
LEMMA CloseSeen ==
  ASSUME TypeOK, IndInv, SeenInv, alive, CloseReceiver
  PROVE  SeenInv'
<1>1. /\ alive' = FALSE /\ received' = received /\ released' = released
      /\ to_user' = to_user \/ to_user' = Append(to_user, DisconnectEvent)
  BY DEF CloseReceiver
<1>2. CASE to_user' = to_user
  <2>1. seen' = seen
    BY <1>1, <1>2 DEF seen
  <2> QED BY <1>1, <2>1 DEF SeenInv, Increasing
<1>3. CASE to_user' = Append(to_user, DisconnectEvent)
  <2> DEFINE s == seen
             m == Len(s)
  <2>1. received \in Seq(Nat) /\ to_user \in Seq(Nat) /\ s \in Seq(Nat) /\ m \in Nat
    BY SeenTyped DEF TypeOK
  <2>2. to_user' = to_user \o <<DisconnectEvent>> /\ <<DisconnectEvent>> \in Seq(Nat)
    BY <1>3, <2>1, AppendIsConcat DEF DisconnectEvent
  <2>3. seen' = s \o <<DisconnectEvent>>
    BY <1>1, <2>1, <2>2, ConcatAssociative DEF seen
  <2>4. /\ Len(seen') = m + 1
        /\ \A i \in 1 .. m : seen'[i] = s[i]
        /\ seen'[m + 1] = DisconnectEvent
    <3>1. /\ Len(seen') = m + Len(<<DisconnectEvent>>)
          /\ \A i \in 1 .. (m + Len(<<DisconnectEvent>>)) :
               seen'[i] = IF i <= m THEN s[i] ELSE <<DisconnectEvent>>[i - m]
      BY <2>1, <2>2, <2>3, ConcatProperties
    <3>2. Len(<<DisconnectEvent>>) = 1 /\ (m + 1) - m = 1
      BY <2>1
    <3> QED BY <2>1, <3>1, <3>2
  <2>5. \A i \in 1 .. (m + 1) : i \in 1 .. m \/ i = m + 1
    BY <2>1
  <2>6. Increasing(s) /\ \A i \in 1 .. m : s[i] <= Len(released) /\ s[i] # DisconnectEvent
    BY SeenTyped DEF SeenInv
  <2> HIDE DEF s, m
  <2>7. Increasing(seen')
    <3> SUFFICES ASSUME NEW i \in 1 .. (m + 1), NEW j \in 1 .. (m + 1), i < j
                 PROVE  /\ seen'[i] # DisconnectEvent
                        /\ seen'[j] = DisconnectEvent \/ seen'[i] < seen'[j]
      BY <2>4 DEF Increasing
    <3>1. i \in 1 .. m
      BY <2>1
    <3> QED BY <2>4, <2>5, <2>6, <3>1 DEF Increasing, m
  <2>8. \A i \in 1 .. Len(seen') : seen'[i] <= Len(released')
    <3>1. Len(released) \in Nat /\ DisconnectEvent = 0
      BY DEF TypeOK, DisconnectEvent
    <3> QED BY <1>1, <2>4, <2>5, <2>6, <3>1
  <2> QED BY <1>1, <2>7, <2>8 DEF SeenInv, Increasing
<1> QED BY <1>1, <1>2, <1>3

\* Reading moves the head of the queue to the end of what was read.
LEMMA ReadSeen ==
  ASSUME TypeOK, SeenInv, UserRecv
  PROVE  SeenInv'
<1>1. /\ to_user # <<>> /\ to_user' = Tail(to_user)
      /\ received' = Append(received, Head(to_user))
      /\ alive' = alive /\ released' = released
  BY DEF UserRecv
<1>2. received \in Seq(Nat) /\ to_user \in Seq(Nat)
  BY DEF TypeOK
<1>3. /\ Head(to_user) \in Nat /\ Tail(to_user) \in Seq(Nat)
      /\ <<Head(to_user)>> \in Seq(Nat)
  BY <1>1, <1>2, HeadTailProperties
<1>4. to_user = <<Head(to_user)>> \o Tail(to_user)
  <2> DEFINE t == <<Head(to_user)>> \o Tail(to_user)
  <2>1. /\ Len(to_user) \in Nat /\ Len(to_user) # 0
        /\ Len(Tail(to_user)) = Len(to_user) - 1
        /\ \A i \in 1 .. Len(Tail(to_user)) : Tail(to_user)[i] = to_user[i + 1]
        /\ Head(to_user) = to_user[1]
    BY <1>1, <1>2, HeadTailProperties, EmptySeq
  <2>2. Len(<<Head(to_user)>>) = 1 /\ <<Head(to_user)>>[1] = Head(to_user)
    OBVIOUS
  <2>3. /\ t \in Seq(Nat) /\ Len(t) = 1 + (Len(to_user) - 1)
        /\ \A i \in 1 .. Len(t) : t[i] = IF i <= 1 THEN <<Head(to_user)>>[i]
                                         ELSE Tail(to_user)[i - 1]
    BY <1>3, <2>1, <2>2, ConcatProperties
  <2> HIDE DEF t
  <2>4. Len(t) = Len(to_user) /\ \A i \in 1 .. Len(to_user) : t[i] = to_user[i]
    <3>1. Len(t) = Len(to_user)
      BY <2>1, <2>3
    <3>2. t[1] = to_user[1]
      BY <2>1, <2>2, <2>3, <3>1
    <3>3. ASSUME NEW i \in 1 .. Len(to_user), i # 1 PROVE t[i] = to_user[i]
      <4>1. i - 1 \in 1 .. Len(Tail(to_user)) /\ (i - 1) + 1 = i /\ ~ (i <= 1)
        BY <2>1, <3>3
      <4>2. Tail(to_user)[i - 1] = to_user[(i - 1) + 1]
        BY <2>1, <4>1
      <4> QED BY <2>3, <3>1, <4>1, <4>2
    <3> QED BY <3>1, <3>2, <3>3
  <2>5. t = to_user
    BY <1>2, <2>3, <2>4, SeqEqual
  <2> QED BY <2>5 DEF t
<1>5. seen' = seen
  <2>1. received' = received \o <<Head(to_user)>>
    BY <1>1, <1>2, <1>3, AppendIsConcat
  <2>2. (received \o <<Head(to_user)>>) \o Tail(to_user)
          = received \o (<<Head(to_user)>> \o Tail(to_user))
    BY <1>2, <1>3, ConcatAssociative
  <2> QED BY <1>1, <1>4, <2>1, <2>2 DEF seen
<1> QED BY <1>1, <1>5 DEF SeenInv, Increasing

LEMMA SeenUnchanged ==
  ASSUME SeenInv, UNCHANGED <<alive, received, to_user, released>>
  PROVE  SeenInv'
  BY DEF SeenInv, Increasing, seen

LEMMA NextSeen ==
  ASSUME TypeOK, TypeOK', IndInv, IndInv', SeenInv, [Next]_vars
  PROVE  SeenInv'
<1>1. CASE \/ UserSend \/ UserDisconnect \/ AdjustWindow \/ Service \/ Lose
           \/ (\E a \in acks : OnAck(a)) \/ UNCHANGED vars
  BY <1>1, SeenUnchanged
  DEF UserSend, UserDisconnect, AdjustWindow, Service, ServiceTimeout, ServiceConnected,
      ServiceClosing, Lose, OnAck, vars, receiverVars
<1>2. ASSUME NEW c \in net, RecvReliable(c) PROVE SeenInv'
  <2>1. alive /\ UNCHANGED <<alive, received>>
    BY <1>2 DEF RecvReliable, Arrive
  <2>2. CASE ReceiveExpected(c)
    BY <2>1, <2>2, DeliverSeen
  <2>3. CASE ReceiveAhead(c) \/ ReceiveOld(c)
    BY <2>1, <2>3, SeenUnchanged DEF ReceiveAhead, ReceiveOld
  <2> QED BY <1>2, <2>2, <2>3 DEF RecvReliable
<1>3. ASSUME NEW c \in net, RecvPing(c) PROVE SeenInv'
  BY <1>3, SeenUnchanged DEF RecvPing, receiverVars
<1>4. ASSUME NEW c \in net, RecvDisconnect(c) PROVE SeenInv'
  BY <1>4, CloseSeen DEF RecvDisconnect, Arrive
<1>5. CASE ReceiverTimeout
  BY <1>5, CloseSeen DEF ReceiverTimeout
<1>6. CASE UserRecv
  BY <1>6, ReadSeen
<1> QED BY <1>1, <1>2, <1>3, <1>4, <1>5, <1>6 DEF Next

\* The application reads strictly increasing packets and the disconnect event
\* last, whatever deliver drops when its queue is full, until the reorder queue
\* refuses a packet.
THEOREM UserReadsInOrder == Spec => []UserOrder
<1> DEFINE Seen == refused = {} => SeenInv
<1>1. Init => Seen
  <2> SUFFICES ASSUME Init PROVE SeenInv
    OBVIOUS
  <2>1. seen = <<>> /\ Len(seen) = 0
    BY DEF Init, seen
  <2> QED BY <2>1 DEF SeenInv, Increasing
<1>2. TypeOK /\ TypeOK' /\ IndUntilRefused /\ IndUntilRefused' /\ Seen /\ [Next]_vars
        => Seen'
  <2> SUFFICES ASSUME TypeOK, TypeOK', IndUntilRefused, IndUntilRefused', Seen,
                      [Next]_vars, refused' = {}
               PROVE  SeenInv'
    OBVIOUS
  <2>1. refused = {}
    BY RefusedStep DEF ReceiveAhead
  <2>2. IndInv /\ IndInv' /\ SeenInv
    BY <2>1 DEF IndUntilRefused
  <2> QED BY <2>2, NextSeen
<1>3. Seen => UserOrder
  BY DEF SeenInv, UserOrder, seen
<1> HIDE DEF Seen
<1> QED BY <1>1, <1>2, <1>3, InductiveInvariant, PTL DEF Spec
=============================================================================
