-------------------------- MODULE OriginalChannel --------------------------
(***************************************************************************)
(* One channel of a connection of the original C library, data one way:   *)
(* enet_peer_send, the reliable windows and queues of the sender           *)
(* (peer.c, protocol.c), the incoming queues, reassembly, dispatch and     *)
(* acknowledgements of the receiver, and a disconnect of the sender, at    *)
(* once or after what is queued.                                           *)
(*                                                                         *)
(* Commands travel one by one: a datagram is a way of sending several      *)
(* commands together, and what it loses or delays together may also be     *)
(* lost or delayed apart. A command that was sent stays in the network and *)
(* may arrive late, several times or never. Every packet has an identity,  *)
(* its place in the plan of the application, which the code does not have. *)
(***************************************************************************)
EXTENDS Integers, Sequences, FiniteSets, SequencesExt, FiniteSetsExt

CONSTANTS
    RELIABLE_WINDOWS,          \* windows of the reliable number range
    RELIABLE_WINDOW_SIZE,      \* numbers of a window
    FREE_RELIABLE_WINDOWS,     \* half of the windows
    UNSEQUENCED_WINDOWS,       \* windows of the unsequenced group range
    UNSEQUENCED_WINDOW_SIZE,
    FREE_UNSEQUENCED_WINDOWS,
    UnreliableMax,             \* 0xFFFF, the last unreliable number
    WindowBytes,               \* MAX(throttled windowSize, mtu), in fragments
    MaximumWaitingData,        \* of the receiver, in fragments
    Start,                     \* reliable number both sides have reached
    StartGroup,                \* unsequenced group the sender has reached
    Plans,                     \* what the application may send, in order
    MaxTimeouts                \* bound on retransmissions

VARIABLES
    plan,      \* the plan the application follows
    sent,      \* how many of its packets it has submitted
    state,     \* state of the peer at the sender
    later,     \* it was last asked to disconnect after its data
    out,       \* outgoingReliable/UnreliableSequenceNumber, outgoingUnsequencedGroup
    queued,    \* outgoingCommands, outgoingSendReliableCommands, sentReliableCommands
    windows,   \* reliableWindows, usedReliableWindows, reliableDataInTransit
    rcv,       \* the peer and its channel at the receiver
    wire,      \* commands sent so far
    acks,      \* acknowledgements sent so far
    order,     \* packets dispatched to the application of the receiver
    timeouts   \* retransmissions so far

senderVars == <<plan, sent, state, later, out, queued, windows, timeouts>>
channelVars == <<senderVars, rcv, wire, acks, order>>

Range16 == RELIABLE_WINDOWS * RELIABLE_WINDOW_SIZE
GroupRange == UNSEQUENCED_WINDOWS * UNSEQUENCED_WINDOW_SIZE
Window(seq) == seq \div RELIABLE_WINDOW_SIZE

Kinds == {"reliable", "unreliable", "unsequenced", "fragment"}

\* The windows are as in enet.h, and a packet has a size.
ASSUME ConstantsAssumption ==
    /\ FREE_RELIABLE_WINDOWS \in Nat /\ FREE_RELIABLE_WINDOWS > 2
    /\ RELIABLE_WINDOWS = 2 * FREE_RELIABLE_WINDOWS
    /\ RELIABLE_WINDOW_SIZE \in Nat \ {0}
    /\ UNSEQUENCED_WINDOWS = 2 * FREE_UNSEQUENCED_WINDOWS
    /\ Start \in 0 .. Range16 - 1
    /\ \A p \in Plans : p \in Seq([kind : Kinds, size : Nat \ {0}])

Reliable == {"SEND_RELIABLE", "SEND_FRAGMENT"}

\* An outgoing command, also as it travels; attempts tells sendAttempts > 0.
Command(type, id, frag, count, rel, unrel, start) ==
    [type |-> type, id |-> id, frag |-> frag, count |-> count, rel |-> rel,
     unrel |-> unrel, start |-> start, attempts |-> FALSE]

Size(c) == IF c.count = 0 THEN 1 ELSE c.count
-----------------------------------------------------------------------------
(* The sender.                                                             *)

\* The commands of a packet, numbered by enet_peer_setup_outgoing_command.
\* A packet of one size more than the fragment length is fragmented, and
\* reliably so unless it asks for unreliable fragments and a number is left.
Commands(id) ==
    LET p == plan[id]
        unreliable == out.unrel < UnreliableMax
        rel(k) == (out.rel + k) % Range16
    IN  IF p.size > 1
        THEN [k \in 1 .. p.size |->
                IF p.kind = "fragment" /\ unreliable
                THEN Command("SEND_UNRELIABLE_FRAGMENT", id, k - 1, p.size,
                             out.rel, out.unrel + 1, out.unrel + 1)
                ELSE Command("SEND_FRAGMENT", id, k - 1, p.size, rel(k), 0, rel(1))]
        ELSE IF p.kind = "unsequenced"
        THEN <<Command("SEND_UNSEQUENCED", id, 0, 0, 0, 0, (out.group + 1) % GroupRange)>>
        ELSE IF p.kind = "reliable" \/ ~unreliable
        THEN <<Command("SEND_RELIABLE", id, 0, 0, rel(1), 0, 0)>>
        ELSE <<Command("SEND_UNRELIABLE", id, 0, 0, out.rel, out.unrel + 1, 0)>>

\* A reliable command takes a number of the channel and restarts the
\* unreliable ones; the queue depends on the acknowledge flag.
Setup(cs) ==
    LET type == cs[1].type IN
    CASE type \in Reliable ->
           /\ out' = [rel |-> (out.rel + Len(cs)) % Range16, unrel |-> 0, group |-> out.group]
           /\ queued' = [queued EXCEPT !.sendReliable = @ \o cs]
      [] type = "SEND_UNSEQUENCED" ->
           /\ out' = [out EXCEPT !.group = (@ + 1) % GroupRange]
           /\ queued' = [queued EXCEPT !.commands = @ \o cs]
      [] OTHER ->
           /\ out' = [out EXCEPT !.unrel = @ + 1]
           /\ queued' = [queued EXCEPT !.commands = @ \o cs]

\* enet_peer_send
PeerSend ==
    /\ state = "CONNECTED"
    /\ sent < Len(plan)
    /\ sent' = sent + 1
    /\ Setup(Commands(sent + 1))
    /\ UNCHANGED <<plan, state, later, windows, rcv, wire, acks, order, timeouts>>

\* enet_peer_has_outgoing_commands
HasOutgoing(q) == q.commands \o q.sendReliable \o q.sentReliable # <<>>

NoCommands == [commands |-> <<>>, sendReliable |-> <<>>, sentReliable |-> <<>>]
Disconnect == Command("DISCONNECT", 0, 0, 0, 0, 0, 0)

\* enet_peer_disconnect of a connected peer forgets all that is queued;
\* the DISCONNECT follows with the next service.
PeerDisconnect ==
    /\ state' = "DISCONNECTING"
    /\ queued' = [NoCommands EXCEPT !.commands = <<Disconnect>>]

DisconnectNow ==
    /\ state \in {"CONNECTED", "DISCONNECT_LATER"}
    /\ sent = Len(plan)
    /\ PeerDisconnect
    /\ later' = FALSE
    /\ UNCHANGED <<plan, sent, out, windows, rcv, wire, acks, order, timeouts>>

\* Mutant: queued commands are not waited for.
DisconnectLater_AtOnce ==
    /\ state = "CONNECTED"
    /\ PeerDisconnect
    /\ later' = TRUE
    /\ UNCHANGED <<plan, sent, out, windows, rcv, wire, acks, order, timeouts>>

\* enet_peer_disconnect_later
DisconnectLater ==
    /\ state = "CONNECTED"
    /\ IF HasOutgoing(queued)
       THEN state' = "DISCONNECT_LATER" /\ UNCHANGED queued
       ELSE PeerDisconnect
    /\ later' = TRUE
    /\ UNCHANGED <<plan, sent, out, windows, rcv, wire, acks, order, timeouts>>

\* Mutant: only the window before is looked at.
WindowWrap_NotFull(w, c) ==
    /\ ~c.attempts
    /\ c.rel % RELIABLE_WINDOW_SIZE = 0
    /\ w.reliable[(Window(c.rel) + RELIABLE_WINDOWS - 1) % RELIABLE_WINDOWS]
              >= RELIABLE_WINDOW_SIZE

\* A window is entered only if the one before it is not full and none of the
\* FREE + 2 windows from it on has commands under way.
WindowWrap(w, c) ==
    /\ ~c.attempts
    /\ c.rel % RELIABLE_WINDOW_SIZE = 0
    /\ \/ w.reliable[(Window(c.rel) + RELIABLE_WINDOWS - 1) % RELIABLE_WINDOWS]
              >= RELIABLE_WINDOW_SIZE
       \/ \E k \in 0 .. FREE_RELIABLE_WINDOWS + 1 :
              (Window(c.rel) + k) % RELIABLE_WINDOWS \in w.used

\* The windows with c under way: counted in its window when it is first sent,
\* in transit every time.
Entered(w, c) ==
    [reliable |-> [w.reliable EXCEPT ![Window(c.rel)] = IF c.attempts THEN @ ELSE @ + 1],
     used |-> IF c.attempts THEN w.used ELSE w.used \cup {Window(c.rel)},
     transit |-> w.transit + 1]

\* One reliable command of enet_protocol_check_outgoing_commands: taken, with
\* its window and its bytes counted, unless it or an earlier one is blocked.
Take(acc, c) ==
    IF acc.blocked \/ WindowWrap(acc.w, c) \/ acc.w.transit + 1 > WindowBytes
    THEN [acc EXCEPT !.blocked = TRUE]
    ELSE [n |-> acc.n + 1, blocked |-> FALSE, w |-> Entered(acc.w, c)]

\* All of them in their order
TakeAll(q, w) ==
    LET after[i \in 0 .. Len(q)] ==
            IF i = 0 THEN [n |-> 0, blocked |-> FALSE, w |-> w] ELSE Take(after[i - 1], q[i])
    IN  after[Len(q)]

Attempted(s) == [i \in DOMAIN s |-> [s[i] EXCEPT !.attempts = TRUE]]

\* The throttle drops a command at offset 0 and the commands next in the queue
\* whose two numbers are the same.
Throttled(q, starts) ==
    {i \in DOMAIN q : \E s \in starts :
        /\ s <= i
        /\ \A k \in s .. i : q[k].rel = q[s].rel /\ q[k].unrel = q[s].unrel}

\* enet_protocol_check_outgoing_commands, called until nothing more can be
\* sent. Unreliable commands are forgotten once sent; a peer that waits to
\* disconnect does so when all its queues are empty.
CheckOutgoing ==
    \E starts \in SUBSET {i \in DOMAIN queued.commands :
                            /\ queued.commands[i].type # "DISCONNECT"
                            /\ queued.commands[i].frag = 0} :
    LET acc == TakeAll(queued.sendReliable, windows)
        taken == Attempted(SubSeq(queued.sendReliable, 1, acc.n))
        dropped == Throttled(queued.commands, starts)
        free == {i \in DOMAIN queued.commands : i \notin dropped}
        rest == [commands |-> <<>>,
                 sendReliable |-> SubSeq(queued.sendReliable, acc.n + 1,
                                         Len(queued.sendReliable)),
                 sentReliable |-> queued.sentReliable \o taken]
    IN  /\ acc.n > 0 \/ queued.commands # <<>>
        /\ wire' = wire \cup Range(taken)
                      \cup {[queued.commands[i] EXCEPT !.attempts = TRUE] : i \in free}
        /\ windows' = acc.w
        /\ IF state = "DISCONNECT_LATER" /\ ~HasOutgoing(rest)
           THEN PeerDisconnect
           ELSE queued' = rest /\ UNCHANGED state
        /\ UNCHANGED <<plan, sent, later, out, rcv, acks, order, timeouts>>

\* The entries of q at the places I, in their order
Pick(q, I) ==
    LET picked[i \in 0 .. Len(q)] ==
            IF i = 0 THEN <<>>
            ELSE IF i \in I THEN Append(picked[i - 1], q[i]) ELSE picked[i - 1]
    IN  picked[Len(q)]

\* enet_protocol_check_timeouts: the expired commands return to the front of
\* the queue in their order, and are no longer in transit.
CheckTimeouts ==
    /\ timeouts < MaxTimeouts
    /\ \E expired \in SUBSET (DOMAIN queued.sentReliable) \ {{}} :
        /\ queued' = [commands |-> queued.commands,
                      sendReliable |-> Pick(queued.sentReliable, expired) \o queued.sendReliable,
                      sentReliable |-> Pick(queued.sentReliable,
                                            DOMAIN queued.sentReliable \ expired)]
        /\ windows' = [windows EXCEPT !.transit = @ - Cardinality(expired)]
    /\ timeouts' = timeouts + 1
    /\ UNCHANGED <<plan, sent, state, later, out, rcv, wire, acks, order>>

IndexOf(s, rel) == {i \in DOMAIN s : s[i].attempts /\ s[i].rel = rel}

\* enet_protocol_remove_sent_reliable_command: the command is under way, or
\* waits to be sent again; its window loses one command, and the bytes in
\* transit shrink only if it is under way.
HandleAcknowledge(rel) ==
    LET under == IndexOf(queued.sentReliable, rel)
        again == IF under = {} THEN IndexOf(queued.sendReliable, rel) ELSE {}
        w == Window(rel)
        count == windows.reliable[w] - 1
        without(q, found) == IF found = {} THEN q ELSE RemoveAt(q, Min(found))
        rest == [commands |-> queued.commands,
                 sendReliable |-> without(queued.sendReliable, again),
                 sentReliable |-> without(queued.sentReliable, under)]
    IN  /\ rel \in acks
        /\ under \cup again # {}
        /\ windows' = [reliable |-> [windows.reliable EXCEPT ![w] = count],
                       used |-> IF count = 0 THEN windows.used \ {w} ELSE windows.used,
                       transit |-> windows.transit - IF under = {} THEN 0 ELSE 1]
        /\ IF state = "DISCONNECT_LATER" /\ ~HasOutgoing(rest)
           THEN PeerDisconnect
           ELSE queued' = rest /\ UNCHANGED state
        /\ UNCHANGED <<plan, sent, later, out, rcv, wire, acks, order, timeouts>>
-----------------------------------------------------------------------------
(* The receiver. r is its peer and channel; an entry of its queues is an   *)
(* ENetIncomingCommand, whose fragments received so far are got.           *)

Entry(c, rel, unrel) ==
    [type |-> c.type, id |-> c.id, rel |-> rel, unrel |-> unrel,
     count |-> c.count, got |-> {}]

Remaining(e) == e.count - Cardinality(e.got)
Length(q) == FoldLeft(LAMBDA n, e : n + Size(e), 0, q)

\* The window of seq as the receiver sees it, and whether it is one of those
\* it accepts.
WindowFrom(r, seq) ==
    Window(seq) + (IF seq < r.incoming THEN RELIABLE_WINDOWS ELSE 0)

Accepts(r, seq) ==
    LET w == WindowFrom(r, seq) current == Window(r.incoming)
    IN  current <= w /\ w < current + FREE_RELIABLE_WINDOWS - 1

\* Where a scan from the end of q for the numbers rel, unrel stops: at the
\* last entry that is not after them (0 if there is none).
After(r, e, rel, unrel) ==
    IF (rel < r.incoming) # (e.rel < r.incoming)
    THEN e.rel < r.incoming
    ELSE e.rel > rel \/ (e.rel = rel /\ e.unrel > unrel)

Scan(r, q, rel, unrel) ==
    Max({0} \cup {i \in DOMAIN q : ~After(r, q[i], rel, unrel)})

\* Mutant: a number that is queued is not recognised.
Holds_Never(r, q, rel, unrel) == FALSE

Holds(r, q, rel, unrel) ==
    LET i == Scan(r, q, rel, unrel)
    IN  i > 0 /\ q[i].rel = rel /\ q[i].unrel = unrel

\* enet_peer_dispatch_incoming_unreliable_commands. moved are the entries
\* dispatched, those before dropped are discarded, start is the first entry of
\* the run that may be dispatched next. An incomplete entry ends a run; one of
\* a later reliable number stops the walk; one left behind is discarded.
WalkUnreliable(r, acc, i) ==
    LET e == r.unrel[i]
        run == acc.start .. i - 1
    IN  IF acc.stop # 0 \/ e.type = "SEND_UNSEQUENCED"
        THEN acc
        ELSE IF e.rel = r.incoming
        THEN IF Remaining(e) = 0
             THEN [acc EXCEPT !.last = e.unrel]
             ELSE [acc EXCEPT
                     !.moved = @ \cup run,
                     !.dropped = IF run # {} THEN i
                                 ELSE IF acc.dropped # i THEN i - 1 ELSE @,
                     !.start = i + 1]
        ELSE IF Accepts(r, e.rel)
        THEN [acc EXCEPT !.stop = i]
        ELSE [acc EXCEPT !.moved = @ \cup run, !.dropped = i + 1, !.start = i + 1]

DispatchUnreliable(r, new) ==
    LET n == Len(r.unrel)
        walk == FoldLeft(LAMBDA acc, i : WalkUnreliable(r, acc, i),
                         [start |-> 1, dropped |-> 1, moved |-> {},
                          last |-> r.incomingUnrel, stop |-> 0],
                         [i \in 1 .. n |-> i])
        end == IF walk.stop = 0 THEN n + 1 ELSE walk.stop
        run == walk.start .. end - 1
        moved == walk.moved \cup run
        dropped == IF run # {} THEN end ELSE walk.dropped
        gone == {i \in 1 .. n : i \notin moved /\ i < dropped /\ r.unrel[i] # new}
    IN  [r EXCEPT !.incomingUnrel = walk.last,
                  !.dispatched = @ \o Pick(r.unrel, moved),
                  !.unrel = Pick(@, (1 .. n) \ (moved \cup gone)),
                  !.waiting = @ - Length(Pick(r.unrel, gone))]

\* enet_peer_dispatch_incoming_reliable_commands
WalkReliable(acc, e) ==
    IF acc.stop \/ Remaining(e) > 0 \/ e.rel # (acc.incoming + 1) % Range16
    THEN [acc EXCEPT !.stop = TRUE]
    ELSE [acc EXCEPT !.n = @ + 1,
                     !.incoming = (e.rel + Size(e) - 1) % Range16]

DispatchReliable(r, new) ==
    LET walk == FoldLeft(WalkReliable,
                         [n |-> 0, incoming |-> r.incoming, stop |-> FALSE], r.rel)
        moved == [r EXCEPT !.incoming = walk.incoming,
                           !.incomingUnrel = 0,
                           !.dispatched = @ \o SubSeq(r.rel, 1, walk.n),
                           !.rel = SubSeq(@, walk.n + 1, Len(@))]
    IN  IF walk.n = 0 THEN r
        ELSE IF moved.unrel = <<>> THEN moved
        ELSE DispatchUnreliable(moved, new)

\* enet_peer_queue_incoming_command: "ok" with the command queued, "dummy" if
\* it is discarded as known or out of the window, "error" if there is no room
\* or a discarded command was to be assembled.
QueueIncoming(r, e) ==
    LET sequenced == e.type # "SEND_UNSEQUENCED"
        reliable == e.type \in Reliable
        q == IF reliable THEN r.rel ELSE r.unrel
        known == IF reliable THEN e.rel = r.incoming
                 ELSE e.rel = r.incoming /\ e.unrel <= r.incomingUnrel
        discard == \/ r.state = "DISCONNECT_LATER"
                   \/ /\ sequenced
                      /\ ~Accepts(r, e.rel) \/ known \/ Holds(r, q, e.rel, e.unrel)
        at == IF sequenced THEN Scan(r, q, e.rel, e.unrel) + 1 ELSE 1
        inserted == InsertAt(q, at, e)
        full == [r EXCEPT !.waiting = @ + Size(e)]
    IN  IF discard
        THEN [result |-> IF e.count > 0 THEN "error" ELSE "dummy", r |-> r]
        ELSE IF r.waiting >= MaximumWaitingData
        THEN [result |-> "error", r |-> r]
        ELSE [result |-> "ok",
              r |-> IF reliable
                    THEN DispatchReliable([full EXCEPT !.rel = inserted], e)
                    ELSE DispatchUnreliable([full EXCEPT !.unrel = inserted], e)]

\* enet_protocol_handle_send_reliable and _send_unreliable
HandleSend(r, c) == QueueIncoming(r, Entry(c, c.rel, c.unrel))

\* enet_protocol_handle_send_unsequenced: groups of a window already left, or
\* too far ahead, are ignored; the first of a later window clears the bits.
HandleUnsequenced(r, c) ==
    LET index == c.start % UNSEQUENCED_WINDOW_SIZE
        base == c.start - index
        ahead == c.start + (IF c.start < r.group THEN GroupRange ELSE 0)
        bits == IF base = r.group THEN r.bits ELSE {}
        res == QueueIncoming([r EXCEPT !.group = base, !.bits = bits], Entry(c, 0, 0))
    IN  IF \/ ahead >= r.group + FREE_UNSEQUENCED_WINDOWS * UNSEQUENCED_WINDOW_SIZE
           \/ index \in bits
        THEN [result |-> "dummy", r |-> r]
        ELSE IF res.result = "error" THEN res
        ELSE [res EXCEPT !.r.bits = @ \cup {index}]

\* Entry i of a queue with one fragment more, and whether none is missing.
Marked(q, i, frag) == [q EXCEPT ![i].got = @ \cup {frag}]
Complete(q, i) == Remaining(q[i]) = 0

\* A fragment goes to its entry unless the entry has it; when that completes
\* the entry, the queue is dispatched.
AddReliable(r, i, c) ==
    IF c.frag \in r.rel[i].got THEN r
    ELSE IF Complete(Marked(r.rel, i, c.frag), i)
         THEN DispatchReliable([r EXCEPT !.rel = Marked(@, i, c.frag)], Disconnect)
         ELSE [r EXCEPT !.rel = Marked(@, i, c.frag)]

AddUnreliable(r, i, c) ==
    IF c.frag \in r.unrel[i].got THEN r
    ELSE IF Complete(Marked(r.unrel, i, c.frag), i)
         THEN DispatchUnreliable([r EXCEPT !.unrel = Marked(@, i, c.frag)], Disconnect)
         ELSE [r EXCEPT !.unrel = Marked(@, i, c.frag)]

\* The entry is queued; if it could not be, the handler fails.
AddTo(res, c, rel, unrel) ==
    IF res.result = "error" THEN res
    ELSE [res EXCEPT !.r = IF c.type = "SEND_FRAGMENT"
                           THEN AddReliable(@, Scan(@, @.rel, rel, unrel), c)
                           ELSE AddUnreliable(@, Scan(@, @.unrel, rel, unrel), c)]

\* The second half of both fragment handlers: fragment c of the entry with the
\* numbers rel, unrel, which is queued first if it is new.
AddFragment(r, c, rel, unrel) ==
    LET q == IF c.type = "SEND_FRAGMENT" THEN r.rel ELSE r.unrel
        found == Holds(r, q, rel, unrel)
        same(e) == e.type = c.type /\ e.count = c.count
    IN  IF ~found THEN AddTo(QueueIncoming(r, Entry(c, rel, unrel)), c, rel, unrel)
        ELSE IF same(q[Scan(r, q, rel, unrel)])
             THEN AddTo([result |-> "ok", r |-> r], c, rel, unrel)
             ELSE [result |-> "error", r |-> r]

\* enet_protocol_handle_send_fragment and _send_unreliable_fragment
HandleFragment(r, c) ==
    LET reliable == c.type = "SEND_FRAGMENT"
        rel == IF reliable THEN c.start ELSE c.rel
        unrel == IF reliable THEN 0 ELSE c.start
    IN  IF \/ ~Accepts(r, rel)
           \/ ~reliable /\ rel = r.incoming /\ unrel <= r.incomingUnrel
        THEN [result |-> "dummy", r |-> r]
        ELSE AddFragment(r, c, rel, unrel)

Handle(r, c) ==
    CASE c.type \in {"SEND_RELIABLE", "SEND_UNRELIABLE"} -> HandleSend(r, c)
      [] c.type = "SEND_UNSEQUENCED" -> HandleUnsequenced(r, c)
      [] OTHER -> HandleFragment(r, c)

\* Mutants: every number is acknowledged; none behind the last delivered.
Acknowledges_Always(r, c) == c.type \in Reliable
Acknowledges_NotBehind(r, c) ==
    /\ c.type \in Reliable
    /\ WindowFrom(r, c.rel) < Window(r.incoming) + FREE_RELIABLE_WINDOWS - 1

\* enet_peer_queue_acknowledgement: nothing is said of a number that lies
\* just beyond the windows the receiver accepts.
Acknowledges(r, c) ==
    LET w == WindowFrom(r, c.rel) free == Window(r.incoming) + FREE_RELIABLE_WINDOWS
    IN  c.type \in Reliable /\ ~(free - 1 <= w /\ w <= free)

\* A command arrives. A handler that fails ends the datagram before the
\* command is acknowledged.
Receive(c) ==
    /\ c \in wire
    /\ c.type # "DISCONNECT"
    /\ rcv.state \in {"CONNECTED", "DISCONNECT_LATER"}
    /\ \E res \in {Handle(rcv, c)} :
        /\ rcv' = res.r
        /\ acks' = IF res.result # "error" /\ Acknowledges(res.r, c)
                   THEN acks \cup {c.rel} ELSE acks
        /\ order' = order \o [i \in 1 .. Len(res.r.dispatched) - Len(rcv.dispatched) |->
                                 res.r.dispatched[Len(rcv.dispatched) + i].id]
    /\ UNCHANGED <<senderVars, wire>>

\* enet_peer_receive, or a RECEIVE event of enet_host_service
PeerReceive ==
    /\ rcv.dispatched # <<>>
    /\ rcv' = [rcv EXCEPT !.dispatched = Tail(@), !.waiting = @ - Size(Head(rcv.dispatched))]
    /\ UNCHANGED <<senderVars, wire, acks, order>>

\* The receiver calls enet_peer_disconnect_later with data of its own queued
\* (the other direction is not modelled): from now on it discards what comes.
ReceiverLater ==
    /\ rcv.state = "CONNECTED"
    /\ rcv' = [rcv EXCEPT !.state = "DISCONNECT_LATER"]
    /\ UNCHANGED <<senderVars, wire, acks, order>>

\* enet_protocol_handle_disconnect of a connected peer empties every queue,
\* what is dispatched and not yet read included.
ReceiveDisconnect ==
    /\ [Disconnect EXCEPT !.attempts = TRUE] \in wire
    /\ rcv.state \in {"CONNECTED", "DISCONNECT_LATER"}
    /\ rcv' = [rcv EXCEPT !.state = "ACKNOWLEDGING_DISCONNECT", !.rel = <<>>,
                          !.unrel = <<>>, !.dispatched = <<>>, !.waiting = 0]
    /\ UNCHANGED <<senderVars, wire, acks, order>>
-----------------------------------------------------------------------------
ChannelInit ==
    /\ plan \in Plans
    /\ sent = 0
    /\ state = "CONNECTED"
    /\ later = FALSE
    /\ out = [rel |-> Start, unrel |-> 0, group |-> StartGroup]
    /\ queued = NoCommands
    /\ windows = [reliable |-> [w \in 0 .. RELIABLE_WINDOWS - 1 |-> 0], used |-> {},
                  transit |-> 0]
    /\ rcv = [state |-> "CONNECTED", incoming |-> Start, incomingUnrel |-> 0,
              rel |-> <<>>, unrel |-> <<>>, dispatched |-> <<>>, waiting |-> 0,
              group |-> StartGroup - (StartGroup % UNSEQUENCED_WINDOW_SIZE), bits |-> {}]
    /\ wire = {}
    /\ acks = {}
    /\ order = <<>>
    /\ timeouts = 0

ChannelNext ==
    \/ PeerSend
    \/ DisconnectNow
    \/ DisconnectLater
    \/ CheckOutgoing
    \/ CheckTimeouts
    \/ \E rel \in acks : HandleAcknowledge(rel)
    \/ \E c \in wire : Receive(c)
    \/ PeerReceive
    \/ ReceiverLater
    \/ ReceiveDisconnect

ChannelSpec == ChannelInit /\ [][ChannelNext]_channelVars

-----------------------------------------------------------------------------
(* Properties.                                                             *)

ChannelTypeOK ==
    /\ plan \in Plans /\ sent \in 0 .. Len(plan)
    /\ state \in {"CONNECTED", "DISCONNECT_LATER", "DISCONNECTING"}
    /\ out \in [rel : 0 .. Range16 - 1, unrel : 0 .. UnreliableMax, group : 0 .. GroupRange - 1]
    /\ windows.used \subseteq 0 .. RELIABLE_WINDOWS - 1
    /\ windows.reliable \in [0 .. RELIABLE_WINDOWS - 1 -> 0 .. RELIABLE_WINDOW_SIZE]
    /\ rcv.incoming \in 0 .. Range16 - 1
    /\ rcv.group \in 0 .. GroupRange - 1
    /\ acks \subseteq 0 .. Range16 - 1

Sequenced(i) == plan[i].kind # "unsequenced" \/ plan[i].size > 1
AlwaysReliable(i) ==
    plan[i].kind = "reliable" \/ (plan[i].size > 1 /\ plan[i].kind # "fragment")
Dispatched(i) == \E k \in DOMAIN order : order[k] = i

\* Sequenced packets, reliable or not, reach the application in the order in
\* which they were sent, none of them twice: an unreliable packet is never
\* dispatched after a packet that was sent later.
SequencedOrder ==
    LET s == SelectSeq(order, Sequenced)
    IN  \A i, j \in DOMAIN s : i < j => s[i] < s[j]

\* When a sequenced packet is dispatched, every reliable packet sent before it
\* has been dispatched: no gap in what the application reads.
ReliableNoGap ==
    \A k \in DOMAIN order : Sequenced(order[k]) =>
        \A i \in 1 .. order[k] - 1 : AlwaysReliable(i) => Dispatched(i)

\* What the receiver acknowledged it keeps, until it is dispatched: an
\* acknowledgement is never sent for a command that is discarded as out of
\* the window. (A receiver that waits to disconnect does discard.)
AckedIsKept ==
    rcv.state = "CONNECTED" =>
        \A c \in wire : (c.type \in Reliable /\ c.rel \in acks) =>
            \/ Dispatched(c.id)
            \/ \E i \in DOMAIN rcv.rel :
                    /\ rcv.rel[i].id = c.id
                    /\ c.type = "SEND_FRAGMENT" => c.frag \in rcv.rel[i].got

\* The counts the sender's window check relies on: a window counts the
\* commands sent at least once and not acknowledged, used names the windows
\* with a count, and transit the commands under way, whatever timeouts and
\* late acknowledgements did.
WindowsExact ==
    state # "DISCONNECTING" =>
        LET all == queued.sentReliable \o queued.sendReliable
            counted(w) == {i \in DOMAIN all : all[i].attempts /\ Window(all[i].rel) = w}
        IN  /\ \A w \in DOMAIN windows.reliable :
                    /\ windows.reliable[w] = Cardinality(counted(w))
                    /\ w \in windows.used <=> counted(w) # {}
            /\ windows.transit = Len(queued.sentReliable)

\* The commands under way never span more windows than the receiver accepts
\* beyond the window of the last number it delivered.
SpanBounded ==
    state # "DISCONNECTING" =>
        \A u, w \in windows.used :
            LET d == (w - u + RELIABLE_WINDOWS) % RELIABLE_WINDOWS
            IN  d < FREE_RELIABLE_WINDOWS - 1 \/ d > FREE_RELIABLE_WINDOWS + 1

\* totalWaitingData is the size of what waits in the three queues: it decides
\* whether a packet is refused, and a leak would refuse them all in the end.
WaitingExact ==
    rcv.waiting = Length(rcv.rel) + Length(rcv.unrel) + Length(rcv.dispatched)

\* An unsequenced packet is dispatched at once, at most once. Because none
\* waits, the scan of queue_incoming_command, which tests the new command and
\* not the queued one for being unsequenced, never meets one.
UnsequencedOnce ==
    /\ \A i \in DOMAIN rcv.unrel : rcv.unrel[i].type # "SEND_UNSEQUENCED"
    /\ \A i, j \in DOMAIN order : (order[i] = order[j]) => i = j

\* The incoming queues are sorted by distance from the last number delivered,
\* without repetition, across a wrap of the numbers too.
QueuesSorted ==
    LET d(e) == (e.rel - rcv.incoming + Range16) % Range16
        before(e, f) == d(e) < d(f) \/ (d(e) = d(f) /\ e.unrel < f.unrel)
        sorted(q) == \A i, j \in DOMAIN q : i < j => before(q[i], q[j])
    IN  sorted(rcv.rel) /\ sorted(rcv.unrel)

\* What the application reads: sequenced packets in order and without a gap,
\* unsequenced ones at most once (dispatch_incoming_reliable_commands,
\* dispatch_incoming_unreliable_commands, handle_send_unsequenced).
DispatchOrder == SequencedOrder /\ ReliableNoGap /\ UnsequencedOnce

\* The reliable windows of the sender: their counts are exact, and the receiver
\* can tell every command under way from the ones delivered.
WindowsKept == WindowsExact /\ SpanBounded

\* What the receiver keeps: everything it acknowledged and did not dispatch yet,
\* in sorted queues whose contents its waiting data counts exactly.
ReceiverExact == ChannelTypeOK /\ AckedIsKept /\ WaitingExact /\ QueuesSorted

\* A graceful disconnect comes after the data: a sender that waited sends its
\* DISCONNECT only when every reliable packet has reached the receiver.
LaterAfterData ==
    (later /\ state = "DISCONNECTING" /\ rcv.state = "CONNECTED") =>
        \A i \in 1 .. sent : AlwaysReliable(i) =>
            Dispatched(i) \/ \E k \in DOMAIN rcv.rel : rcv.rel[k].id = i

\* Nothing that enet_host_service could still do on either side changes
\* anything: no command may be sent, no acknowledgement is outstanding, no
\* reliable command that arrives again is taken, all that was dispatched is read.
Quiescent ==
    /\ queued.commands = <<>>
    /\ queued.sendReliable # <<>> => Take([n |-> 0, blocked |-> FALSE, w |-> windows],
                                          Head(queued.sendReliable)).blocked
    /\ \A c \in Range(queued.sentReliable) : c.rel \notin acks
    /\ \A c \in wire : c.type \in Reliable =>
            \A res \in {Handle(rcv, c)} :
                res.r = rcv /\ ~(res.result # "error" /\ Acknowledges(rcv, c) /\ c.rel \notin acks)
    /\ rcv.dispatched = <<>>

\* The two sides never wait for each other: when nothing is left to do, every
\* reliable packet has been dispatched and acknowledged. The windows of the
\* sender reopen, and the receiver does not refuse or ignore for ever.
NoStall ==
    (Quiescent /\ state # "DISCONNECTING" /\ rcv.state = "CONNECTED") =>
        /\ ~HasOutgoing(queued)
        /\ \A i \in 1 .. sent : AlwaysReliable(i) => Dispatched(i)

=============================================================================
