--------------------------- MODULE ReliableChannel ---------------------------
(***************************************************************************)
(* One reliable channel of an established connection, in one direction:    *)
(* the sending host task (send_packet, on_ack, send_disconnect and         *)
(* service_one of task.rs), the UDP network, and the receiving host task   *)
(* (on_command of task.rs, receive_reliable of channel.rs) with the bounded *)
(* queue towards the application.                                          *)
(*                                                                         *)
(* Every handler runs to completion inside the single host task, so each   *)
(* is one action.  The network loses, duplicates and reorders commands.    *)
(* It is assumed not to hold a command while HalfMod later packets are     *)
(* sent on the channel (Fresh).  Timers are abstracted: a service tick     *)
(* finds any set of outstanding commands due.  Packets fit one datagram;   *)
(* fragmented ones are the subject of FragmentReassembly.                  *)
(***************************************************************************)
EXTENDS SeqNum, Sequences, FiniteSets

CONSTANTS
  MaxPackets,   \* bound: reliable packets the application submits
  MaxPings,     \* bound: pings the sending host emits
  MaxAttempts,  \* transmissions of a command before service_one gives up
  Windows,      \* values the effective send window takes
  MaxWindow,    \* the largest of them (FREE_RELIABLE_WINDOWS * RELIABLE_WINDOW_SIZE)
  MaxPending,   \* MAX_PENDING_SEND
  MaxQueue,     \* MAX_INCOMING_RELIABLE_QUEUE
  UserCap       \* capacity of the to_user channel

ASSUME ChannelAssumption ==
  /\ MaxPackets \in Nat /\ MaxPings \in Nat
  /\ MaxAttempts \in Nat \ {0}
  /\ MaxWindow \in Nat /\ 1 <= MaxWindow /\ MaxWindow <= HalfMod
  /\ Windows # {} /\ Windows \subseteq 0 .. MaxWindow
  /\ MaxPending \in Nat /\ MaxQueue \in Nat /\ UserCap \in Nat

VARIABLES
  \* PeerEntry and Channel of the sending host
  state,                    \* PeerState; "Removed" when the slot is empty
  outgoing_reliable_seq,    \* Channel::outgoing_reliable_seq
  control_seq,              \* PeerEntry::outgoing_reliable_seq, not wrapped
  outgoing_reliable,        \* outstanding commands
  pending_send,             \* packets waiting for the window
  effective_window,
  \* the network
  net,                      \* commands on their way to the receiver
  acks,                     \* acknowledgements on their way back
  \* PeerEntry and Channel of the receiving host
  alive,                    \* the receiver's slot is still occupied
  incoming_reliable_seq,
  incoming_reliable_queue,  \* packets buffered ahead of a gap
  to_user,                  \* bounded channel to the application
  \* history
  submitted,                \* number of packets the application submitted
  wire,                     \* the submitted packets in order of transmission
  released,                 \* positions in wire handed to deliver, in order
  dropped,                  \* positions deliver could not queue
  refused,                  \* positions incoming_reliable_queue had no room for
  received                  \* what the receiving application has read

senderVars   == <<state, outgoing_reliable_seq, control_seq, outgoing_reliable,
                  pending_send, effective_window, submitted, wire>>
receiverVars == <<alive, incoming_reliable_seq, incoming_reliable_queue,
                  to_user, released, dropped, refused, received>>
vars == <<senderVars, net, acks, receiverVars>>

----------------------------------------------------------------------------
(* Commands.  idx is the position of a packet in wire, which stands for     *)
(* its payload; for a connection-level command it is control_seq.           *)

Kinds == {"DATA", "PING", "DISCONNECT"}

Chan(kind) == IF kind = "DATA" THEN "channel" ELSE "connection"

\* A command in flight (idx unwrapped, the wire only carries seq).
Command(kind, i) == [kind |-> kind, seq |-> Wrap(i), idx |-> i]

\* ack(): echoes the channel and the sequence number of the command.
Ack(c) == [ch |-> Chan(c.kind), seq |-> c.seq, idx |-> c.idx]

\* OutstandingReliable as make_reliable inserts it.
Outstanding(c, n) == [cmd |-> c, attempts |-> n]

Data(out) == {r \in out : r.cmd.kind = "DATA"}

\* BTreeMap::insert keyed by (channel, seq): an equal key is overwritten.
InsertAll(out, new) ==
  {r \in out : \A c \in new : Chan(r.cmd.kind) # Chan(c.kind) \/ r.cmd.seq # c.seq}
    \cup {Outstanding(c, 1) : c \in new}

\* The network forgets packets that HalfMod later packets have passed.
Fresh(cmds, n) == {c \in cmds : c.idx + HalfMod > n}

DisconnectEvent == 0   \* Err(..) on the to_user channel; packets are 1, 2, ...

Init ==
  /\ state = "Connected" /\ alive = TRUE
  /\ outgoing_reliable_seq = 0 /\ incoming_reliable_seq = 0
  /\ control_seq = 0
  /\ outgoing_reliable = {} /\ incoming_reliable_queue = {}
  /\ effective_window \in Windows
  /\ pending_send = <<>> /\ to_user = <<>>
  /\ net = {} /\ acks = {}
  /\ submitted = 0 /\ wire = <<>> /\ released = <<>> /\ received = <<>>
  /\ dropped = {} /\ refused = {}

----------------------------------------------------------------------------
(* The sending host.                                                        *)

\* Mutants: the window bounds the number of outstanding packets instead of
\* their distance; the distance may equal the window.
WindowOpen_Counts(i) ==
  Cardinality(Data(outgoing_reliable)) + i - 1 < effective_window

WindowOpen_Loose(i) ==
  \A r \in Data(outgoing_reliable) :
    WrapSub(WrapAdd(outgoing_reliable_seq, i), r.cmd.seq) <= effective_window

\* The i-th packet to be sent from now on fits the window: the distance to
\* the oldest outstanding packet, hence to every one, is below the window.
\* The i-1 packets sent just before it are outstanding as well.
WindowOpen(i) ==
  \A s \in {r.cmd.seq : r \in Data(outgoing_reliable)}
             \cup {WrapAdd(outgoing_reliable_seq, j) : j \in 1 .. (i - 1)} :
    WrapSub(WrapAdd(outgoing_reliable_seq, i), s) < effective_window

\* Give the packets in pkts the next sequence numbers and emit them, next to
\* the commands in others that the same handler emits.
Transmit(pkts, out, others) ==
  LET n   == Len(wire)
      k   == Len(pkts)
      new == {Command("DATA", n + i) : i \in 1 .. k}
  IN  /\ outgoing_reliable_seq' = WrapAdd(outgoing_reliable_seq, k)
      /\ wire' = wire \o pkts
      /\ outgoing_reliable' = InsertAll(out, new)
      /\ net' = {c \in net : c.kind # "DATA"} \cup others \cup new
                  \cup Fresh({c \in net : c.kind = "DATA"}, n + k)
      /\ acks' = {a \in acks : a.ch = "connection"}
                  \cup Fresh({a \in acks : a.ch = "channel"}, n + k)

\* send_packet of a reliable packet submitted by the application.
UserSend ==
  /\ submitted < MaxPackets
  /\ submitted' = submitted + 1
  /\ \/ /\ state = "Connected" /\ WindowOpen(1)
        /\ Transmit(<<submitted + 1>>, outgoing_reliable, {})
        /\ UNCHANGED pending_send
     \/ /\ state = "Connected" /\ ~WindowOpen(1)
        /\ pending_send' = IF Len(pending_send) < MaxPending
                           THEN Append(pending_send, submitted + 1)
                           ELSE pending_send
        /\ UNCHANGED <<outgoing_reliable_seq, outgoing_reliable, wire, net, acks>>
     \/ /\ state # "Connected"
        /\ UNCHANGED <<outgoing_reliable_seq, outgoing_reliable, wire, net, acks,
                       pending_send>>
  /\ UNCHANGED <<state, control_seq, effective_window, receiverVars>>

\* make_reliable and emit_by_key of a connection-level command.
SendControl(kind) ==
  /\ LET c == Command(kind, control_seq + 1)
     IN  /\ outgoing_reliable' = InsertAll(outgoing_reliable, {c})
         /\ net' = net \cup {c}
  /\ control_seq' = control_seq + 1

\* Mutant: DISCONNECT is sent at once, whatever is outstanding.
UserDisconnect_AtOnce ==
  /\ state = "Connected"
  /\ state' = "Disconnecting"
  /\ SendControl("DISCONNECT")
  /\ UNCHANGED <<outgoing_reliable_seq, pending_send, effective_window, acks,
                 submitted, wire, receiverVars>>

\* send_disconnect, for PeerSender::disconnect or its Drop.
UserDisconnect ==
  /\ state = "Connected"
  /\ \/ /\ outgoing_reliable # {}
        /\ state' = "DisconnectLater"
        /\ UNCHANGED <<outgoing_reliable, net, control_seq>>
     \/ /\ outgoing_reliable = {}
        /\ state' = "Disconnecting"
        /\ SendControl("DISCONNECT")
  /\ UNCHANGED <<outgoing_reliable_seq, pending_send, effective_window, acks,
                 submitted, wire, receiverVars>>

\* remove_peer: the slot is emptied and everything in it is dropped.
RemovePeer ==
  /\ state' = "Removed"
  /\ outgoing_reliable' = {}
  /\ pending_send' = <<>>

\* Mutant: the peer is not removed when the DISCONNECT is acknowledged.
OnAck_KeepsPeer(a) ==
  /\ state # "Removed"
  /\ acks' \in {acks, acks \ {a}}
  /\ effective_window' \in Windows
  /\ outgoing_reliable' = {r \in outgoing_reliable :
                             ~(Chan(r.cmd.kind) = a.ch /\ r.cmd.seq = a.seq)}
  /\ UNCHANGED <<state, pending_send, outgoing_reliable_seq, control_seq,
                 submitted, wire, net, receiverVars>>

\* on_ack.  The throttle, and with it the window, may move on every ACK.
OnAck(a) ==
  LET left == {r \in outgoing_reliable :
                 ~(Chan(r.cmd.kind) = a.ch /\ r.cmd.seq = a.seq)}
  IN  /\ state # "Removed"
      /\ acks' \in {acks, acks \ {a}}
      /\ effective_window' \in Windows
      /\ IF state = "Disconnecting" /\ left = {}
         THEN RemovePeer
         ELSE /\ outgoing_reliable' = left
              /\ UNCHANGED <<state, pending_send>>
      /\ UNCHANGED <<outgoing_reliable_seq, control_seq, submitted, wire, net,
                     receiverVars>>

\* CMD_BANDWIDTH_LIMIT, CMD_THROTTLE_CONFIGURE or bandwidth_throttle.
AdjustWindow ==
  /\ state # "Removed"
  /\ effective_window' \in Windows \ {effective_window}
  /\ UNCHANGED <<state, outgoing_reliable_seq, control_seq, outgoing_reliable,
                 pending_send, submitted, wire, net, acks, receiverVars>>

\* service_one, a command has been due too often or for too long.
ServiceTimeout ==
  /\ state # "Removed" /\ outgoing_reliable # {}
  /\ RemovePeer
  /\ UNCHANGED <<outgoing_reliable_seq, control_seq, effective_window, submitted,
                 wire, net, acks, receiverVars>>

\* service_one in state Connected: retransmit what is due, ping when nothing
\* is outstanding, then drain pending_send as far as the window allows.  The
\* packets that do not fit go back to the queue in their order.
ServiceConnected(due, ping) ==
  /\ state = "Connected"
  /\ ping => outgoing_reliable = {} /\ control_seq < MaxPings
  /\ \E k \in 0 .. Len(pending_send) :
       /\ \A i \in 1 .. k : WindowOpen(i)
       /\ k < Len(pending_send) => ~WindowOpen(k + 1)
       /\ LET again == {Outstanding(r.cmd, r.attempts + 1) : r \in due}
              pings == IF ping THEN {Command("PING", control_seq + 1)} ELSE {}
          IN  Transmit(SubSeq(pending_send, 1, k),
                       InsertAll(outgoing_reliable \ due, pings) \cup again,
                       {r.cmd : r \in due} \cup pings)
       /\ pending_send' = SubSeq(pending_send, k + 1, Len(pending_send))
  /\ control_seq' = IF ping THEN control_seq + 1 ELSE control_seq
  /\ UNCHANGED <<state, effective_window, submitted, receiverVars>>

\* service_one while disconnecting: retransmit what is due; send the deferred
\* DISCONNECT once nothing is outstanding.  The drained packets are lost,
\* because send_packet ignores them in this state.
ServiceClosing(due) ==
  /\ state \in {"DisconnectLater", "Disconnecting"}
  /\ pending_send' = <<>>
  /\ \/ /\ state = "DisconnectLater" /\ outgoing_reliable = {}
        /\ state' = "Disconnecting"
        /\ SendControl("DISCONNECT")
     \/ /\ ~(state = "DisconnectLater" /\ outgoing_reliable = {})
        /\ outgoing_reliable' = (outgoing_reliable \ due)
                 \cup {Outstanding(r.cmd, r.attempts + 1) : r \in due}
        /\ net' = net \cup {r.cmd : r \in due}
        /\ UNCHANGED <<state, control_seq>>
  /\ UNCHANGED <<outgoing_reliable_seq, effective_window, submitted, wire, acks,
                 receiverVars>>

\* The commands service_one may find due and still retransmit.
Retriable == {r \in outgoing_reliable : r.attempts < MaxAttempts}

Service ==
  \/ ServiceTimeout
  \/ \E due \in SUBSET Retriable :
       \/ \E ping \in BOOLEAN : ServiceConnected(due, ping)
       \/ ServiceClosing(due)

----------------------------------------------------------------------------
(* The network.                                                             *)

Lose ==
  /\ \/ \E c \in net : net' = net \ {c} /\ UNCHANGED acks
     \/ \E a \in acks : acks' = acks \ {a} /\ UNCHANGED net
  /\ UNCHANGED <<senderVars, receiverVars>>

----------------------------------------------------------------------------
(* The receiving host.                                                      *)

\* A datagram with c arrives: c leaves the network or a duplicate remains.
Arrive(c) ==
  /\ alive
  /\ net' \in {net, net \ {c}}
  /\ acks' = acks \cup {Ack(c)}

\* deliver, for each packet in turn: try_send, and drop when there is no room.
Deliver(pkts) ==
  LET room == UserCap - Len(to_user)
      k    == IF Len(pkts) < room THEN Len(pkts) ELSE room
  IN  /\ to_user' = to_user \o SubSeq(pkts, 1, k)
      /\ dropped' = dropped \cup {pkts[i] : i \in (k + 1) .. Len(pkts)}

Buffered(s) == \E r \in incoming_reliable_queue : r.seq = s

BufferedAt(s) == CHOOSE r \in incoming_reliable_queue : r.seq = s

\* Mutant: the buffered run is skipped over instead of released.
ReceiveExpected_SkipsRun(c) ==
  /\ c.seq = WrapAdd(incoming_reliable_seq, 1)
  /\ \E d \in 0 .. (SeqRange - 1) :
       /\ \A i \in 1 .. d : Buffered(WrapAdd(c.seq, i))
       /\ ~Buffered(WrapAdd(c.seq, d + 1))
       /\ incoming_reliable_seq' = WrapAdd(c.seq, d)
  /\ released' = Append(released, c.idx) /\ Deliver(<<c.idx>>)
  /\ incoming_reliable_queue' = {}
  /\ UNCHANGED refused

\* receive_reliable, seq = expected: release it and the run buffered behind it.
ReceiveExpected(c) ==
  /\ c.seq = WrapAdd(incoming_reliable_seq, 1)
  /\ \E d \in 0 .. (SeqRange - 1) :
       /\ \A i \in 1 .. d : Buffered(WrapAdd(c.seq, i))
       /\ ~Buffered(WrapAdd(c.seq, d + 1))
       /\ LET run == [i \in 1 .. (d + 1) |->
                        IF i = 1 THEN c.idx ELSE BufferedAt(WrapAdd(c.seq, i - 1)).idx]
          IN  released' = released \o run /\ Deliver(run)
       /\ incoming_reliable_seq' = WrapAdd(c.seq, d)
       /\ incoming_reliable_queue' =
            {r \in incoming_reliable_queue : r.seq \notin {WrapAdd(c.seq, i) : i \in 1 .. d}}
       /\ UNCHANGED refused

QueueFull == Cardinality(incoming_reliable_queue) >= MaxQueue

\* Mutant: the queue is taken to be full one packet too early.
ReceiveAhead_OneShort(c) ==
  /\ seq_lt(WrapAdd(incoming_reliable_seq, 1), c.seq)
  /\ incoming_reliable_queue' =
       IF Cardinality(incoming_reliable_queue) + 1 < MaxQueue
       THEN incoming_reliable_queue \cup {c} ELSE incoming_reliable_queue
  /\ refused' = IF QueueFull /\ ~Buffered(c.seq) THEN refused \cup {c.idx} ELSE refused
  /\ UNCHANGED <<incoming_reliable_seq, released, dropped, to_user>>

\* receive_reliable, seq ahead of expected: buffer it if the queue has room.
\* If not it is gone, for it is acknowledged all the same.
ReceiveAhead(c) ==
  /\ seq_lt(WrapAdd(incoming_reliable_seq, 1), c.seq)
  /\ incoming_reliable_queue' =
       IF /\ WrapSub(c.seq, WrapAdd(incoming_reliable_seq, 1)) <= HalfMod
          /\ ~QueueFull
       THEN {r \in incoming_reliable_queue : r.seq # c.seq} \cup {c}
       ELSE incoming_reliable_queue
  /\ refused' = IF QueueFull /\ ~Buffered(c.seq) THEN refused \cup {c.idx} ELSE refused
  /\ UNCHANGED <<incoming_reliable_seq, released, dropped, to_user>>

\* receive_reliable, anything else is an old duplicate.
ReceiveOld(c) ==
  /\ c.seq # WrapAdd(incoming_reliable_seq, 1)
  /\ ~seq_lt(WrapAdd(incoming_reliable_seq, 1), c.seq)
  /\ UNCHANGED <<incoming_reliable_seq, incoming_reliable_queue, released, dropped,
                 refused, to_user>>

\* on_command, CMD_SEND_RELIABLE: acknowledged whatever becomes of it.
RecvReliable(c) ==
  /\ c.kind = "DATA" /\ Arrive(c)
  /\ ReceiveExpected(c) \/ ReceiveAhead(c) \/ ReceiveOld(c)
  /\ UNCHANGED <<senderVars, alive, received>>

\* on_command, CMD_PING.
RecvPing(c) ==
  /\ c.kind = "PING" /\ Arrive(c)
  /\ UNCHANGED <<senderVars, receiverVars>>

\* Mutant: the event is queued and the peer stays in its slot.
CloseReceiver_KeepsPeer ==
  /\ to_user' = IF Len(to_user) < UserCap THEN Append(to_user, DisconnectEvent)
                ELSE to_user
  /\ UNCHANGED <<alive, incoming_reliable_seq, incoming_reliable_queue, released,
                 dropped, refused, received>>

\* try_send of the disconnect event, then remove_peer.
CloseReceiver ==
  /\ alive' = FALSE
  /\ to_user' = IF Len(to_user) < UserCap THEN Append(to_user, DisconnectEvent)
                ELSE to_user
  /\ UNCHANGED <<incoming_reliable_seq, incoming_reliable_queue, released, dropped,
                 refused, received>>

\* on_command, CMD_DISCONNECT.
RecvDisconnect(c) ==
  /\ c.kind = "DISCONNECT" /\ Arrive(c)
  /\ CloseReceiver
  /\ UNCHANGED senderVars

\* The receiving host's own service_one gives up on the connection.
ReceiverTimeout ==
  /\ alive /\ CloseReceiver
  /\ UNCHANGED <<senderVars, net, acks>>

\* Peer::recv.
UserRecv ==
  /\ to_user # <<>>
  /\ to_user' = Tail(to_user)
  /\ received' = Append(received, Head(to_user))
  /\ UNCHANGED <<senderVars, net, acks, alive, incoming_reliable_seq,
                 incoming_reliable_queue, released, dropped, refused>>

----------------------------------------------------------------------------

Next ==
  \/ UserSend \/ UserDisconnect \/ AdjustWindow \/ Service \/ Lose
  \/ \E a \in acks : OnAck(a)
  \/ \E c \in net : RecvReliable(c) \/ RecvPing(c) \/ RecvDisconnect(c)
  \/ ReceiverTimeout \/ UserRecv

Spec == Init /\ [][Next]_vars

\* The 20 ms ticker of run keeps firing, and the retransmission timer of some
\* outstanding command expires sooner or later; when every command has used
\* up its attempts, its next expiry is a timeout.
Progress ==
  \/ outgoing_reliable # {} /\ Retriable = {} /\ ServiceTimeout
  \/ \E due \in SUBSET Retriable :
       /\ outgoing_reliable # {} => due # {}
       /\ ServiceConnected(due, FALSE) \/ ServiceClosing(due)

FairSpec == Spec /\ WF_vars(Progress)

----------------------------------------------------------------------------
(* Properties.                                                              *)

CommandSet     == [kind : Kinds, seq : SeqNo, idx : Nat]
OutstandingSet == [cmd : CommandSet, attempts : 1 .. MaxAttempts]
AckSet         == [ch : {"channel", "connection"}, seq : SeqNo, idx : Nat]

\* Every variable has the type its Rust counterpart has; the application's
\* queue never exceeds its capacity and pending_send never its cap.
TypeOK ==
  /\ state \in {"Connected", "DisconnectLater", "Disconnecting", "Removed"}
  /\ outgoing_reliable_seq \in SeqNo /\ incoming_reliable_seq \in SeqNo
  /\ control_seq \in Nat
  /\ outgoing_reliable \subseteq OutstandingSet
  /\ pending_send \in Seq(1 .. MaxPackets) /\ Len(pending_send) <= MaxPending
  /\ effective_window \in Windows
  /\ net \subseteq CommandSet
  /\ acks \subseteq AckSet
  /\ alive \in BOOLEAN
  /\ incoming_reliable_queue \subseteq CommandSet
  /\ to_user \in Seq(Nat) /\ Len(to_user) <= UserCap
  /\ submitted \in 0 .. MaxPackets
  /\ wire \in Seq(1 .. MaxPackets)
  /\ released \in Seq(Nat) /\ received \in Seq(Nat) /\ dropped \subseteq Nat
  /\ refused \subseteq Nat

(* MAX_INCOMING_RELIABLE_QUEUE (4096) is below the largest window (32768),  *)
(* and a packet that finds the queue full is acknowledged and lost.  What   *)
(* is promised holds until that happens.                                    *)

\* receive_reliable hands packets to deliver exactly once and in the order in
\* which send_packet numbered them, across wrap-around, loss, duplication,
\* reordering and any movement of the send window, until the reorder queue
\* has to refuse a packet.
Sequential == \A k \in 1 .. Len(released) : released[k] = k

InOrder == refused = {} => Sequential

\* on_ack discards a packet only when the receiving host holds it, released or
\* in incoming_reliable_queue: a full reorder queue is the only place where
\* an acknowledged packet can get lost.
AckedKept ==
  state # "Removed" =>
    \A i \in 1 .. Len(wire) :
      \/ \E r \in Data(outgoing_reliable) : r.cmd.idx = i
      \/ i <= Len(released)
      \/ \E c \in incoming_reliable_queue : c.idx = i

AckedIsReceived == refused = {} => AckedKept

\* CMD_DISCONNECT is only sent, and hence can only remove the receiving peer,
\* once every transmitted packet has been released to deliver, until the
\* reorder queue has to refuse a packet.
ClosedAfterData ==
  state = "Disconnecting" \/ (\E c \in net : c.kind = "DISCONNECT")
    => Len(released) = Len(wire)

GracefulDisconnect == refused = {} => ClosedAfterData

\* What the application reads is strictly increasing in transmission order,
\* and the disconnect event is the last thing it reads, whatever try_send
\* drops, until the reorder queue has to refuse a packet.
Increasing(s) ==
  \A i, j \in 1 .. Len(s) :
    i < j => s[i] # DisconnectEvent /\ (s[j] = DisconnectEvent \/ s[i] < s[j])

UserOrder == refused = {} => Increasing(received \o to_user)

\* Every transmitted packet is released, unless the sender gives up on the
\* connection: retransmission closes every gap (service_one, on_ack), until
\* the reorder queue has to refuse a packet.
EventuallyReleased ==
  \A k \in 1 .. MaxPackets :
    (Len(wire) >= k) ~> (Len(released) >= k \/ state = "Removed" \/ refused # {})

\* A requested disconnect always ends with the slot being freed, even when
\* the other side is gone and acknowledges nothing.
DisconnectCompletes ==
  (state \in {"DisconnectLater", "Disconnecting"}) ~> (state = "Removed")

\* The channel implements the abstract link: sent is the history of
\* transmissions, got the packets receive_reliable has released.
handed == [k \in 1 .. Len(released) |-> wire[released[k]]]

linkStatus ==
  IF refused # {} THEN "broken"
  ELSE CASE state \in {"Connected", "DisconnectLater"} -> "open"
         [] state = "Disconnecting" -> "closing"
         [] state = "Removed" -> "gone"

Link == INSTANCE ReliableLink WITH
          Packet <- 1 .. MaxPackets, sent <- wire, got <- handed, status <- linkStatus

\* Every step of the hosts and of the network is a step of the abstract link
\* or invisible in it: no packet is skipped, repeated or overtaken, and
\* DISCONNECT is never sent while a transmitted packet is undelivered. The link
\* breaks when the reorder queue refuses a packet, and in no other way.
ImplementsLink == Link!Spec

----------------------------------------------------------------------------
(* The inductive invariant behind InOrder, AckedIsReceived and              *)
(* GracefulDisconnect.  N packets have been transmitted and E released.     *)

Received(i) ==
  i <= Len(released) \/ \E c \in incoming_reliable_queue : c.idx = i

\* A packet in flight carries its wrapped position and is younger than age.
InFlight(c, age) ==
  /\ c.seq = Wrap(c.idx)
  /\ c.idx \in 1 .. Len(wire)
  /\ Len(wire) < c.idx + age

\* The wrapped counters are the wrapped history; the receiver lags by less
\* than a window, because the packet it waits for is still outstanding.
CountersInv ==
  /\ outgoing_reliable_seq = Wrap(Len(wire))
  /\ incoming_reliable_seq = Wrap(Len(released))
  /\ Len(released) <= Len(wire)
  /\ Len(released) < Len(wire) => Len(wire) < Len(released) + 1 + MaxWindow

OutstandingInv == \A r \in Data(outgoing_reliable) : InFlight(r.cmd, MaxWindow)

NetInv == \A c \in net : c.kind = "DATA" => InFlight(c, HalfMod)

\* An acknowledgement in flight is the truth about the receiver.
AcksInv ==
  \A a \in acks : a.ch = "channel" => InFlight(a, HalfMod) /\ Received(a.idx)

\* Buffered packets lie beyond the gap at E + 1.
QueueInv ==
  \A c \in incoming_reliable_queue :
    c.kind = "DATA" /\ c.seq = Wrap(c.idx) /\ c.idx \in (Len(released) + 2) .. Len(wire)

\* A DISCONNECT exists only once nothing else is outstanding.
ClosingInv ==
  /\ state = "Disconnecting" => Data(outgoing_reliable) = {}
  /\ (\E r \in outgoing_reliable : r.cmd.kind = "DISCONNECT")
        => state = "Disconnecting"
  /\ (\E c \in net : c.kind = "DISCONNECT") => state \in {"Disconnecting", "Removed"}

IndInv ==
  /\ CountersInv /\ OutstandingInv /\ NetInv /\ AcksInv /\ QueueInv
  /\ Sequential /\ AckedKept /\ ClosedAfterData /\ ClosingInv

\* protocol.md says that up to 32768 packets may be unacknowledged at once: the
\* reorder queue of the receiver has room for them.
NothingRefused == refused = {}

\* lib.rs documents SendMode::Reliable as ordered delivery: packets go on the
\* wire in the order in which the application submitted them.
SubmissionOrder ==
  \A i, j \in 1 .. Len(wire) : i < j => wire[i] < wire[j]

\* task.rs documents DisconnectLater as draining the send queue: a packet
\* leaves pending_send only to be transmitted or with the whole connection.
PendingIsSent ==
  [][state' # "Removed" =>
       \A i \in 1 .. Len(pending_send) :
         \/ \E j \in 1 .. Len(pending_send') : pending_send'[j] = pending_send[i]
         \/ \E j \in 1 .. Len(wire') : wire'[j] = pending_send[i]]_vars

\* lib.rs documents SendMode::Reliable as reliable delivery: no packet that
\* was acknowledged is thrown away on its way to the application.
NothingDropped == dropped = {}
=============================================================================
