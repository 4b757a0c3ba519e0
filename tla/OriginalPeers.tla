--------------------------- MODULE OriginalPeers ---------------------------
(***************************************************************************)
(* The life of connections in the original C library: the peers of several *)
(* hosts, from enet_host_connect to the DISCONNECT event, with the         *)
(* dispatch queue through which a host tells its application of them       *)
(* (protocol.c, peer.c, host.c).                                           *)
(*                                                                         *)
(* Commands travel one by one, each with the header of its datagram. A     *)
(* command that was sent may arrive late, several times or never, so a     *)
(* retransmission adds nothing to the network: commands under way and      *)
(* commands waiting to be sent again are one set, sent. Within a peer no   *)
(* two commands have the same number and channel, and the order of a list  *)
(* of commands decides nothing, so out and sent are sets. A handler that   *)
(* fails ends its datagram, which is a loss of the commands that follow.   *)
(*                                                                         *)
(* enet_host_service and enet_host_flush are sequences of the steps below: *)
(* send, receive, time out, dispatch. event tells whether the application  *)
(* passed an event structure or NULL.                                      *)
(***************************************************************************)
EXTENDS Integers, Sequences, FiniteSets, SequencesExt, FiniteSetsExt

CONSTANTS
    Slots,            \* [host -> number of its peers]
    Dialers,          \* hosts whose application calls enet_host_connect
    DuplicatePeers,   \* of every host
    Bounds            \* bounds, one of which a behaviour keeps to: accepts, CONNECT
                      \* commands accepted; extras, packets, pings and settings;
                      \* calls, these and connects together; events, the ways
                      \* enet_host_service is called

Hosts == DOMAIN Slots

VARIABLES
    hosts,      \* [host -> its peers, dispatch queue and counters]
    net,        \* commands sent so far
    connects,   \* calls of enet_host_connect so far
    accepts,    \* CONNECT commands accepted so far
    extras,     \* packets, pings and settings so far
    crossed,    \* a command was taken from another connection
    bounds      \* one of Bounds

vars == <<hosts, net, connects, accepts, extras, crossed, bounds>>

ASSUME ConstantsAssumption ==
    /\ \A h \in Hosts : Slots[h] \in Nat \ {0}
    /\ Dialers \subseteq Hosts
    /\ \A b \in Bounds : b \in [accepts : Nat, extras : Nat, calls : Nat,
                                   events : SUBSET BOOLEAN]

MAXIMUM_PEER_ID == -1
NoID == 255                      \* a session ID not yet chosen

Connected == {"CONNECTED", "DISCONNECT_LATER"}

\* A command; seq and ch name it for acknowledgements, rel is the flag
\* ACKNOWLEDGE, body the fields of the connect commands and settings.
Command(type, rel, body) ==
    [type |-> type, rel |-> rel, ch |-> IF type = "SEND" THEN 0 ELSE 255,
     seq |-> 0, body |-> body]

\* A peer no connection uses: enet_peer_reset keeps its sessions and address.
Fresh == [state |-> "DISCONNECTED", cid |-> 0, addr |-> 0, outID |-> MAXIMUM_PEER_ID,
          inS |-> NoID, outS |-> NoID, seq |-> 0, chseq |-> 0, got |-> 0, bw |-> 0,
          thr |-> 0, out |-> {}, sent |-> {}, acks |-> {}, data |-> 0,
          flag |-> FALSE]
-----------------------------------------------------------------------------
(* Functions of a host H and a slot i, as the functions of the library.    *)

OnConnect(H, i) ==
    IF H.peer[i].state \in Connected THEN H
    ELSE [H EXCEPT !.connected = @ + 1,
                   !.limited = IF H.peer[i].bw # 0 THEN @ + 1 ELSE @]

\* Mutant: a peer that waits to disconnect is not counted off.
OnDisconnect_Connected(H, i) ==
    IF H.peer[i].state # "CONNECTED" THEN H
    ELSE [H EXCEPT !.connected = @ - 1,
                   !.limited = IF H.peer[i].bw # 0 THEN @ - 1 ELSE @]

OnDisconnect(H, i) ==
    IF H.peer[i].state \notin Connected THEN H
    ELSE [H EXCEPT !.connected = @ - 1,
                   !.limited = IF H.peer[i].bw # 0 THEN @ - 1 ELSE @]

ChangeState(H, i, s) ==
    [(IF s \in Connected THEN OnConnect(H, i) ELSE OnDisconnect(H, i))
        EXCEPT !.peer[i].state = s]

\* enet_list_insert of a peer the list already holds breaks the list.
Enqueue(H, i) ==
    IF H.peer[i].flag THEN H
    ELSE [H EXCEPT !.peer[i].flag = TRUE,
                   !.broken = @ \/ i \in Range(H.queue),
                   !.queue = Append(@, i)]

DispatchState(H, i, s) == Enqueue(ChangeState(H, i, s), i)

ResetQueues(H, i) ==
    [H EXCEPT !.queue = IF H.peer[i].flag THEN RemoveFirst(@, i) ELSE @,
              !.peer[i] = [@ EXCEPT !.flag = FALSE, !.acks = {}, !.sent = {}, !.out = {},
                                    !.data = 0]]

\* enet_peer_reset clears the flags before it resets the queues.
PeerReset(H, i) ==
    LET p == H.peer[i] IN
    ResetQueues([OnDisconnect(H, i) EXCEPT
                    !.peer[i] = [Fresh EXCEPT !.inS = p.inS, !.outS = p.outS,
                                              !.addr = p.addr]], i)

\* The events of the application; told is what it knows of the peer.
ConnectEvent(H, i) ==
    [H EXCEPT !.told[i] = IF @ \in {"none", "asked", "connecting"} THEN "connected" ELSE "bad"]

DisconnectEvent(H, i) ==
    [H EXCEPT !.told[i] = IF @ \in {"connecting", "connected"} THEN "none" ELSE "bad"]

NotifyConnect(H, i, event) ==
    LET G == [H EXCEPT !.recalculate = TRUE] IN
    IF event THEN ConnectEvent(ChangeState(G, i, "CONNECTED"), i)
    ELSE DispatchState(G, i, IF H.peer[i].state = "CONNECTING"
                             THEN "CONNECTION_SUCCEEDED" ELSE "CONNECTION_PENDING")

\* Mutant: a failed attempt is dropped without an event.
NotifyDisconnect_Silent(H, i, event) ==
    IF H.peer[i].state \in {"DISCONNECTED", "CONNECTING", "ACKNOWLEDGING_CONNECT",
                            "CONNECTION_PENDING"}
    THEN PeerReset(H, i)
    ELSE IF event THEN PeerReset(DisconnectEvent(H, i), i)
    ELSE DispatchState(H, i, "ZOMBIE")

NotifyDisconnect(H, i, event) ==
    LET s == H.peer[i].state
        early == s \in {"DISCONNECTED", "ACKNOWLEDGING_CONNECT", "CONNECTION_PENDING"}
        G == [H EXCEPT !.recalculate = @ \/ s \notin {"DISCONNECTED", "CONNECTING",
                                                      "ACKNOWLEDGING_CONNECT"}]
    IN  IF early THEN PeerReset(G, i)
        ELSE IF event THEN PeerReset(DisconnectEvent(G, i), i)
        ELSE DispatchState(G, i, "ZOMBIE")

\* enet_peer_queue_outgoing_command; every command on channel 0xFF takes a
\* number of the peer, an unsequenced DISCONNECT too.
QueueOutgoing(H, i, c) ==
    LET p == H.peer[i]
        n == IF c.ch = 0 THEN p.chseq + 1 ELSE p.seq + 1
    IN  [H EXCEPT !.peer[i] = [p EXCEPT !.out = p.out \cup {[c EXCEPT !.seq = n]},
                                        !.chseq = IF c.ch = 0 THEN n ELSE p.chseq,
                                        !.seq = IF c.ch = 0 THEN p.seq ELSE n]]

HasOutgoing(p) == p.out # {} \/ p.sent # {}

\* enet_peer_disconnect of a connected peer.
StartDisconnect(H, i) ==
    ChangeState(QueueOutgoing(ResetQueues(H, i), i, Command("DISCONNECT", TRUE, 0)),
                i, "DISCONNECTING")

\* The datagram of h that carries c of peer p; cid is not in the datagram.
Datagram(h, p, c) ==
    [to |-> p.addr, from |-> h, id |-> p.outID, cid |-> p.cid, cmd |-> c,
     sess |-> IF p.outID = MAXIMUM_PEER_ID THEN 0 ELSE p.outS]

\* One peer of enet_protocol_send_outgoing_commands: acknowledgements first,
\* of which one of a DISCONNECT makes the peer a zombie, then the commands;
\* a peer that waits to disconnect does so once nothing is outstanding.
SendPeer(H, i) ==
    LET p == H.peer[i]
        ended == \E a \in p.acks : a.type = "DISCONNECT"
        A == IF ended THEN DispatchState(H, i, "ZOMBIE") ELSE H
        B == [A EXCEPT !.peer[i] = [@ EXCEPT !.acks = {}, !.out = {},
                                             !.sent = p.sent \cup {c \in p.out : c.rel}]]
    IN  IF p.state \in {"DISCONNECTED", "ZOMBIE"} THEN H
        ELSE IF p.state = "DISCONNECT_LATER" /\ ~HasOutgoing(B.peer[i])
        THEN StartDisconnect(B, i)
        ELSE B

Sends(h, H) ==
    UNION {LET p == H.peer[i]
               ack(a) == [Command("ACKNOWLEDGE", FALSE, 0) EXCEPT !.ch = a.ch, !.seq = a.seq]
           IN  IF p.state \in {"DISCONNECTED", "ZOMBIE"} THEN {}
               ELSE {Datagram(h, p, ack(a)) : a \in p.acks}
                        \cup {Datagram(h, p, c) : c \in p.out}
           : i \in DOMAIN H.peer}

SendAll(H) ==
    LET after[i \in 0 .. Len(H.peer)] == IF i = 0 THEN H ELSE SendPeer(after[i - 1], i)
    IN  after[Len(H.peer)]

Step(h, H) ==
    /\ hosts[h].broken = FALSE
    /\ hosts' = [hosts EXCEPT ![h] = H]
-----------------------------------------------------------------------------
(* What the application does.                                              *)

Body(H, i) ==
    LET p == H.peer[i]
    IN  [id |-> i, inS |-> p.inS, outS |-> p.outS, cid |-> p.cid, bw |-> H.bw, thr |-> p.thr]

\* enet_host_connect: the connect ID is random, here one never used before.
Connect(h, to) ==
    /\ connects + extras < bounds.calls
    /\ \E i \in DOMAIN hosts[h].peer :
        /\ hosts[h].peer[i].state = "DISCONNECTED"
        /\ \A j \in 1 .. i - 1 : hosts[h].peer[j].state # "DISCONNECTED"
        /\ LET G == [hosts[h] EXCEPT !.told[i] = "connecting",
                                     !.peer[i] = [@ EXCEPT !.state = "CONNECTING", !.addr = to,
                                                           !.cid = connects + 1]]
           IN  Step(h, QueueOutgoing(G, i, Command("CONNECT", TRUE, Body(G, i))))
    /\ connects' = connects + 1
    /\ UNCHANGED <<net, accepts, extras, crossed, bounds>>

\* The application may use a peer it was given and not told the end of.
Knows(h, i) == hosts[h].told[i] \in {"connecting", "connected"}

\* An unsequenced DISCONNECT sent at once with all that waits in the host,
\* and the peer reset: enet_peer_disconnect of a peer not connected yet, and
\* enet_peer_disconnect_now.
DropNow(h, i, told) ==
    LET G == QueueOutgoing(ResetQueues(hosts[h], i), i, Command("DISCONNECT", FALSE, 0))
    IN  /\ Step(h, [PeerReset(SendAll(G), i) EXCEPT !.told[i] = told])
        /\ net' = net \cup Sends(h, G)

Over == {"DISCONNECTING", "DISCONNECTED", "ACKNOWLEDGING_DISCONNECT", "ZOMBIE"}

PeerDisconnect(h, i) ==
    /\ Knows(h, i)
    /\ hosts[h].peer[i].state \notin Over
    /\ IF hosts[h].peer[i].state \in Connected
       THEN Step(h, StartDisconnect(hosts[h], i)) /\ UNCHANGED net
       ELSE DropNow(h, i, "asked")
    /\ UNCHANGED <<connects, accepts, extras, crossed, bounds>>

\* enet_peer_disconnect_later with commands outstanding; without any it is
\* enet_peer_disconnect.
PeerDisconnectLater(h, i) ==
    /\ Knows(h, i)
    /\ hosts[h].peer[i].state = "CONNECTED"
    /\ HasOutgoing(hosts[h].peer[i])
    /\ Step(h, [hosts[h] EXCEPT !.peer[i].state = "DISCONNECT_LATER"])
    /\ UNCHANGED <<net, connects, accepts, extras, crossed, bounds>>

\* enet_peer_disconnect_now; a zombie, or a peer that has sent its DISCONNECT,
\* is only reset, as it is by enet_peer_reset.
PeerDisconnectNow(h, i) ==
    /\ Knows(h, i)
    /\ hosts[h].peer[i].state \notin {"DISCONNECTED", "ZOMBIE", "DISCONNECTING"}
    /\ DropNow(h, i, "none")
    /\ UNCHANGED <<connects, accepts, extras, crossed, bounds>>

Reset(h, i) ==
    /\ Knows(h, i)
    /\ hosts[h].peer[i].state # "DISCONNECTED"
    /\ Step(h, [PeerReset(hosts[h], i) EXCEPT !.told[i] = "none"])
    /\ UNCHANGED <<net, connects, accepts, extras, crossed, bounds>>

MayCall == extras < bounds.extras /\ connects + extras < bounds.calls

\* enet_peer_send, enet_peer_ping and enet_peer_throttle_configure, which does
\* not look at the state. (One packet per connection and direction.)
Submit(h, i, type) ==
    LET p == hosts[h].peer[i] IN
    /\ MayCall
    /\ Knows(h, i)
    /\ IF type = "THROTTLE_CONFIGURE" THEN p.state # "DISCONNECTED" ELSE p.state = "CONNECTED"
    /\ type \in {"SEND", "SEND_UNRELIABLE"} => p.chseq = 0
    /\ LET G == [hosts[h] EXCEPT !.peer[i].thr = IF type = "THROTTLE_CONFIGURE" THEN 1 ELSE @]
       IN  Step(h, QueueOutgoing(G, i, IF type = "SEND_UNRELIABLE" THEN Command("SEND", FALSE, 0)
                                       ELSE Command(type, TRUE, 0)))
    /\ extras' = extras + 1
    /\ UNCHANGED <<net, connects, accepts, crossed, bounds>>

\* One peer that is told of its limit, and all of them one after the other.
TellPeer(H, i, bw) ==
    IF H.peer[i].state \in Connected
    THEN QueueOutgoing(H, i, Command("BANDWIDTH_LIMIT", TRUE, bw))
    ELSE H

TellAll(H, bw) ==
    LET after[i \in 0 .. Len(H.peer)] == IF i = 0 THEN H ELSE TellPeer(after[i - 1], i, bw)
    IN  after[Len(H.peer)]

\* enet_host_bandwidth_limit, or a recalculation that is due, and then
\* enet_host_bandwidth_throttle: every connected peer is told of its limit bw.
BandwidthLimit(h, bw) ==
    LET H == hosts[h] IN
    /\ MayCall
    /\ H.connected > 0
    /\ H.recalculate \/ bw # H.bw
    /\ Step(h, TellAll([H EXCEPT !.bw = bw, !.recalculate = FALSE], bw))
    /\ extras' = extras + 1
    /\ UNCHANGED <<net, connects, accepts, crossed, bounds>>
-----------------------------------------------------------------------------
(* What the library does when it is serviced.                              *)

SendOutgoing(h) ==
    /\ \E i \in DOMAIN hosts[h].peer : LET p == hosts[h].peer[i] IN
        /\ p.state \notin {"DISCONNECTED", "ZOMBIE"}
        /\ p.acks # {} \/ p.out # {}
    /\ Step(h, SendAll(hosts[h]))
    /\ net' = net \cup Sends(h, hosts[h])
    /\ UNCHANGED <<connects, accepts, extras, crossed, bounds>>

\* A service call with an event empties the dispatch queue before it does
\* anything else, so it meets no peer queued before it was reset.
MayNotify(H, event) ==
    /\ event \in bounds.events
    /\ event => \A k \in DOMAIN H.queue : H.peer[H.queue[k]].flag

\* enet_protocol_check_timeouts gives up: some command was never acknowledged.
TimeOut(h, i, event) ==
    /\ MayNotify(hosts[h], event)
    /\ hosts[h].peer[i].state \notin {"DISCONNECTED", "ZOMBIE"}
    /\ hosts[h].peer[i].sent # {}
    /\ Step(h, NotifyDisconnect(hosts[h], i, event))
    /\ UNCHANGED <<net, connects, accepts, extras, crossed, bounds>>

\* Of the entries of the queue only these cause an event.
Eventful(p) ==
    \/ p.state \in {"CONNECTION_PENDING", "CONNECTION_SUCCEEDED", "ZOMBIE"}
    \/ p.state = "CONNECTED" /\ p.data > 0

\* enet_protocol_dispatch_incoming_commands: entries without an event are
\* skipped, the first with one causes it.
Dispatch(h) ==
    LET H == hosts[h]
        q == H.queue
        hits == {k \in DOMAIN q : Eventful(H.peer[q[k]])}
        n == IF hits = {} THEN Len(q) ELSE Min(hits)
        i == q[n]
        P == [H EXCEPT !.queue = SubSeq(q, n + 1, Len(q)),
                       !.peer = [j \in DOMAIN @ |-> IF j \in Range(SubSeq(q, 1, n))
                                                    THEN [@[j] EXCEPT !.flag = FALSE]
                                                    ELSE @[j]]]
    IN  /\ q # <<>>
        /\ UNCHANGED <<net, connects, accepts, extras, crossed, bounds>>
        /\ Step(h, IF hits = {} THEN P
                   ELSE CASE H.peer[i].state = "ZOMBIE" ->
                               PeerReset(DisconnectEvent([P EXCEPT !.recalculate = TRUE], i), i)
                          [] H.peer[i].state = "CONNECTED" ->
                               LET G == [P EXCEPT !.peer[i].data = @ - 1]
                               IN  IF G.peer[i].data > 0 THEN Enqueue(G, i) ELSE G
                          [] OTHER -> ConnectEvent(ChangeState(P, i, "CONNECTED"), i))
-----------------------------------------------------------------------------
(* The handlers: the new host, and whether the datagram goes on.           *)

Ok(H) == [H |-> H, ok |-> TRUE]
Error(H) == [H |-> H, ok |-> FALSE]

\* The next session ID after `given` (of the CONNECT) or `own`, never `own`.
NextSession(given, own) ==
    LET s == ((IF given = NoID THEN own ELSE given) + 1) % 4
    IN  IF s = own THEN (s + 1) % 4 ELSE s

HandleConnect(H, d) ==
    LET b == d.cmd.body
        free == {i \in DOMAIN H.peer : H.peer[i].state = "DISCONNECTED"}
        same == {i \in DOMAIN H.peer : /\ H.peer[i].state \notin {"DISCONNECTED", "CONNECTING"}
                                       /\ H.peer[i].addr = d.from}
        i == Min(free)
        p == H.peer[i]
        G == [H EXCEPT !.peer[i] = [p EXCEPT
                !.state = "ACKNOWLEDGING_CONNECT", !.cid = b.cid, !.addr = d.from,
                !.outID = b.id, !.bw = b.bw, !.thr = b.thr,
                !.outS = NextSession(b.inS, p.outS), !.inS = NextSession(b.outS, p.inS)]]
        verify == [id |-> i, inS |-> G.peer[i].outS, outS |-> G.peer[i].inS,
                   cid |-> b.cid, bw |-> H.bw, thr |-> b.thr]
    IN  IF \/ free = {} \/ Cardinality(same) >= DuplicatePeers
           \/ \E j \in same : H.peer[j].cid = b.cid
        THEN Error(H)
        ELSE Ok(QueueOutgoing(G, i, Command("VERIFY_CONNECT", TRUE, verify)))

\* enet_protocol_remove_sent_reliable_command, and the command it removed.
RemoveSent(H, i, seq, ch) ==
    LET found == {c \in H.peer[i].sent : c.seq = seq /\ c.ch = ch}
        first == CHOOSE c \in found : TRUE
    IN  IF found = {} THEN [H |-> H, type |-> "NONE"]
        ELSE [H |-> [H EXCEPT !.peer[i].sent = @ \ {first}], type |-> first.type]

\* Mutant: the last acknowledgement does not start the disconnect.
HandleAcknowledge_NotLater(H, i, c, event) ==
    LET removed == RemoveSent(H, i, c.seq, c.ch)
        G == removed.H
    IN  CASE H.peer[i].state = "ACKNOWLEDGING_CONNECT" ->
               IF removed.type = "VERIFY_CONNECT" THEN Ok(NotifyConnect(G, i, event)) ELSE Error(G)
          [] H.peer[i].state = "DISCONNECTING" ->
               IF removed.type = "DISCONNECT" THEN Ok(NotifyDisconnect(G, i, event)) ELSE Error(G)
          [] OTHER -> Ok(G)

HandleAcknowledge(H, i, c, event) ==
    LET removed == RemoveSent(H, i, c.seq, c.ch)
        G == removed.H
    IN  CASE H.peer[i].state = "ACKNOWLEDGING_CONNECT" ->
               IF removed.type = "VERIFY_CONNECT" THEN Ok(NotifyConnect(G, i, event)) ELSE Error(G)
          [] H.peer[i].state = "DISCONNECTING" ->
               IF removed.type = "DISCONNECT" THEN Ok(NotifyDisconnect(G, i, event)) ELSE Error(G)
          [] H.peer[i].state = "DISCONNECT_LATER" /\ ~HasOutgoing(G.peer[i]) ->
               Ok(StartDisconnect(G, i))
          [] OTHER -> Ok(G)

HandleVerify(H, i, b, event) ==
    LET p == H.peer[i]
        G == [RemoveSent(H, i, 1, 255).H EXCEPT
                !.peer[i] = [@ EXCEPT !.outID = b.id, !.inS = b.inS, !.outS = b.outS, !.bw = b.bw]]
    IN  IF p.state # "CONNECTING" THEN Ok(H)
        ELSE IF b.cid # p.cid \/ b.thr # p.thr THEN Error(DispatchState(H, i, "ZOMBIE"))
        ELSE Ok(NotifyConnect(G, i, event))

HandleDisconnect(H, i, c) ==
    LET s == H.peer[i].state
        G == ResetQueues(H, i)
    IN  CASE s \in {"DISCONNECTED", "ZOMBIE", "ACKNOWLEDGING_DISCONNECT"} -> Ok(H)
          [] s \in {"CONNECTION_SUCCEEDED", "DISCONNECTING", "CONNECTING"} ->
               Ok(DispatchState(G, i, "ZOMBIE"))
          [] s \in {"ACKNOWLEDGING_CONNECT", "CONNECTION_PENDING"} ->
               Ok(PeerReset([G EXCEPT !.recalculate = @ \/ s = "CONNECTION_PENDING"], i))
          [] s \in Connected ->
               Ok(IF c.rel THEN ChangeState(G, i, "ACKNOWLEDGING_DISCONNECT")
                           ELSE DispatchState(G, i, "ZOMBIE"))

\* The commands that only a connected peer takes. A packet is dispatched once,
\* and dropped by a peer that waits to disconnect.
HandleConnected(H, i, c) ==
    LET p == H.peer[i] IN
    IF p.state \notin Connected THEN Error(H)
    ELSE CASE c.type = "PING" -> Ok(H)
           [] c.type = "BANDWIDTH_LIMIT" ->
                Ok([H EXCEPT !.peer[i].bw = c.body,
                             !.limited = @ - (IF p.bw # 0 THEN 1 ELSE 0)
                                           + (IF c.body # 0 THEN 1 ELSE 0)])
           [] c.type = "THROTTLE_CONFIGURE" -> Ok([H EXCEPT !.peer[i].thr = 1])
           [] c.type = "SEND" ->
                IF p.state = "DISCONNECT_LATER" \/ c.seq = p.got THEN Ok(H)
                ELSE Ok(Enqueue([H EXCEPT !.peer[i] = [p EXCEPT !.got = c.seq, !.data = p.data + 1]], i))

Handle(H, i, c, event) ==
    CASE c.type = "ACKNOWLEDGE" -> HandleAcknowledge(H, i, c, event)
      [] c.type = "CONNECT" -> Error(H)
      [] c.type = "VERIFY_CONNECT" -> HandleVerify(H, i, c.body, event)
      [] c.type = "DISCONNECT" -> HandleDisconnect(H, i, c)
      [] OTHER -> HandleConnected(H, i, c)

\* Mutant: the session of a datagram is not looked at.
Admits_AnySession(p, d) ==
    /\ p.state \notin {"DISCONNECTED", "ZOMBIE"}
    /\ p.addr = d.from

\* The peer a datagram is for: in use, of the sender's address, and in the
\* session of the datagram once the other side's ID is known.
Admits(p, d) ==
    /\ p.state \notin {"DISCONNECTED", "ZOMBIE"}
    /\ p.addr = d.from
    /\ p.outID # MAXIMUM_PEER_ID => d.sess = p.inS

\* Mutant: a peer that ends acknowledges nothing.
Acknowledges_NotEnding(p, c) ==
    /\ c.rel
    /\ p.state \in {"CONNECTING", "CONNECTION_PENDING", "CONNECTION_SUCCEEDED", "CONNECTED",
                    "DISCONNECT_LATER"}

\* The states in which a command is acknowledged.
Acknowledges(p, c) ==
    /\ c.rel
    /\ p.state \notin {"DISCONNECTING", "ACKNOWLEDGING_CONNECT", "DISCONNECTED", "ZOMBIE"}
    /\ p.state = "ACKNOWLEDGING_DISCONNECT" => c.type = "DISCONNECT"

\* enet_protocol_handle_incoming_commands
Receive(h, d, event) ==
    LET H == hosts[h] i == d.id
        res == Handle(H, i, d.cmd, event)
    IN  /\ d.to = h
        /\ MayNotify(H, event)
        /\ IF i = MAXIMUM_PEER_ID
           THEN /\ d.cmd.type = "CONNECT"
                /\ accepts < bounds.accepts
                /\ Step(h, HandleConnect(H, d).H)
                /\ accepts' = IF HandleConnect(H, d).ok THEN accepts + 1 ELSE accepts
                /\ UNCHANGED crossed
           ELSE /\ i \in DOMAIN H.peer
                /\ Admits(H.peer[i], d)
                /\ Step(h, IF res.ok /\ Acknowledges(res.H.peer[i], d.cmd)
                           THEN [res.H EXCEPT !.peer[i].acks = @ \cup {d.cmd}]
                           ELSE res.H)
                /\ UNCHANGED accepts
                /\ crossed' = (crossed \/ (/\ H.peer[i].outID # MAXIMUM_PEER_ID
                                           /\ d.cid # H.peer[i].cid
                                           /\ d.cmd.type # "VERIFY_CONNECT"))
        /\ UNCHANGED <<net, connects, extras, bounds>>
-----------------------------------------------------------------------------
Init ==
    /\ hosts = [h \in Hosts |->
            [peer |-> [i \in 1 .. Slots[h] |-> Fresh], queue |-> <<>>, broken |-> FALSE,
             connected |-> 0, limited |-> 0, bw |-> 0, recalculate |-> FALSE,
             told |-> [i \in 1 .. Slots[h] |-> "none"]]]
    /\ net = {}
    /\ connects = 0
    /\ accepts = 0
    /\ extras = 0
    /\ crossed = FALSE
    /\ bounds \in Bounds

Next ==
    \/ \E h \in Dialers : \E to \in Hosts \ {h} : Connect(h, to)
    \/ \E h \in Hosts : \E i \in DOMAIN hosts[h].peer :
        \/ PeerDisconnect(h, i)
        \/ PeerDisconnectLater(h, i)
        \/ PeerDisconnectNow(h, i)
        \/ Reset(h, i)
        \/ \E type \in {"SEND", "SEND_UNRELIABLE", "PING", "THROTTLE_CONFIGURE"} :
            Submit(h, i, type)
        \/ \E event \in BOOLEAN : TimeOut(h, i, event)
    \/ \E h \in Hosts :
        \/ \E bw \in {0, 1} : BandwidthLimit(h, bw)
        \/ SendOutgoing(h)
        \/ Dispatch(h)
        \/ \E d \in net, event \in BOOLEAN : Receive(h, d, event)

Spec == Init /\ [][Next]_vars

\* Both applications keep calling enet_host_service and fetch their events; a
\* command that is never acknowledged is given up in the end (its timeouts
\* double until they pass timeoutMaximum).
FairSpec ==
    /\ Spec
    /\ \A h \in Hosts :
        /\ WF_vars(SendOutgoing(h))
        /\ WF_vars(Dispatch(h))
        /\ \A i \in 1 .. Slots[h] : WF_vars(\E event \in BOOLEAN : TimeOut(h, i, event))
-----------------------------------------------------------------------------
(* Properties.                                                             *)

States == {"DISCONNECTED", "CONNECTING", "ACKNOWLEDGING_CONNECT", "CONNECTION_PENDING",
           "CONNECTION_SUCCEEDED", "CONNECTED", "DISCONNECT_LATER", "DISCONNECTING",
           "ACKNOWLEDGING_DISCONNECT", "ZOMBIE"}

TypeOK ==
    \A h \in Hosts : LET H == hosts[h] IN
        /\ H.queue \in Seq(DOMAIN H.peer)
        /\ H.connected \in Nat /\ H.limited \in Nat
        /\ \A i \in DOMAIN H.peer :
            /\ H.peer[i].state \in States
            /\ {H.peer[i].inS, H.peer[i].outS} \subseteq 0 .. 3 \cup {NoID}

AllPeers == {x \in Hosts \X (1 .. Max(Range(Slots))) : x[2] \in DOMAIN hosts[x[1]].peer}

\* connectedPeers and bandwidthLimitedPeers, by which the host divides its
\* bandwidth, count exactly the connected peers and those with a limit, along
\* every path a connection can end, and when a limit changes under way.
CountersExact ==
    \A h \in Hosts : LET H == hosts[h] IN
        /\ H.connected = Cardinality({i \in DOMAIN H.peer : H.peer[i].state \in Connected})
        /\ H.limited = Cardinality({i \in DOMAIN H.peer :
                                        H.peer[i].state \in Connected /\ H.peer[i].bw # 0})

\* The application gets a CONNECT event once per connection, a DISCONNECT event
\* only for a peer it has, and no peer it has is lost without one, unless it
\* gave the peer up itself: by enet_peer_reset or enet_peer_disconnect_now,
\* which say that there is no event, or by enet_peer_disconnect before the peer
\* was connected ("asked"), where one is promised (DisconnectTold).
EventsMatch ==
    \A x \in AllPeers : LET H == hosts[x[1]] i == x[2] IN
        /\ H.told[i] # "bad"
        /\ H.peer[i].state = "DISCONNECTED" => H.told[i] \in {"none", "asked"}
        /\ H.peer[i].state \in Connected => H.told[i] = "connected"

\* A peer that has an event to tell is in the dispatch queue, and its flag
\* with it: no connection waits for an event that never comes.
AwaitsDispatch ==
    \A x \in AllPeers : LET H == hosts[x[1]] p == H.peer[x[2]] IN
        /\ Eventful(p) => p.flag
        /\ p.flag => x[2] \in Range(H.queue)

\* No peer is stuck: one that waits for the other side holds a command that is
\* sent until it is acknowledged or given up, one that owes an
\* acknowledgement still has it, one that waits to disconnect has a reason.
NoLimbo ==
    \A x \in AllPeers : LET p == hosts[x[1]].peer[x[2]]
                             has(type) == \E c \in p.out \cup p.sent : c.type = type
                         IN
        /\ p.state = "CONNECTING" => has("CONNECT")
        /\ p.state = "ACKNOWLEDGING_CONNECT" => has("VERIFY_CONNECT")
        /\ p.state = "DISCONNECTING" => has("DISCONNECT")
        /\ p.state = "DISCONNECT_LATER" => HasOutgoing(p)
        /\ p.state = "ACKNOWLEDGING_DISCONNECT" => \E a \in p.acks : a.type = "DISCONNECT"

\* Two ends that are both connected and carry the same connect ID agree on
\* their peer IDs and sessions, whatever a repeated CONNECT made the acceptor
\* start again in between.
SessionsAgree ==
    \A x, y \in AllPeers : LET p == hosts[x[1]].peer[x[2]] q == hosts[y[1]].peer[y[2]] IN
        (x # y /\ {p.state, q.state} \subseteq Connected /\ p.cid = q.cid) =>
            /\ p.inS = q.outS /\ p.outS = q.inS
            /\ p.outID = y[2] /\ q.outID = x[2]

\* A peer that knows its other end takes no command of an earlier connection,
\* however late it arrives. (A late VERIFY_CONNECT is taken, and acknowledged,
\* but changes nothing.)
NoCrossTalk == ~crossed

\* The two bits of a session tell the connections of a slot apart until they
\* have come round: with the fifth connection that is accepted the first session
\* is used again, and from then on NoCrossTalk may fail.
SessionsUnused == accepts <= 4

\* The counters of a host are exact in every state of its peers.
CountsAgree == TypeOK /\ CountersExact

\* What the application was told matches the peer's state, and what it was not
\* told yet is queued; no event comes twice or for a peer it does not have.
EventsComplete == EventsMatch /\ AwaitsDispatch

\* Connections are kept apart: both ends of one agree, and until sessions come
\* round neither takes a command of another, however late it arrives.
SessionsApart == SessionsAgree /\ (SessionsUnused => NoCrossTalk)

\* Every attempt to connect or to disconnect ends, with the peer connected or
\* free again, whatever is lost and whatever arrives late.
AttemptsEnd ==
    \A h \in Hosts : \A i \in 1 .. Slots[h] :
        (hosts[h].peer[i].state # "DISCONNECTED" /\ hosts[h].peer[i].state # "CONNECTED")
            ~> (hosts[h].peer[i].state \in {"DISCONNECTED", "CONNECTED"} \/ hosts[h].broken)

\* What the comment on enet_peer_disconnect says: an ENET_EVENT_DISCONNECT event
\* will be generated once the disconnection is complete. In the code a peer that
\* is not connected yet is reset at once, and no event is left to come.
DisconnectTold ==
    \A x \in AllPeers : LET H == hosts[x[1]] i == x[2] IN
        H.peer[i].state = "DISCONNECTED" => H.told[i] # "asked"

\* What the comment on enet_host_check_events says: it dispatches a queued event
\* if there is one and returns 0 if there is none. For that dispatchQueue must
\* stay a list. In the code enet_peer_reset clears the flag of a queued peer
\* before it looks at it, so the peer stays queued, is inserted a second time
\* and is then its own successor: the walk over the queue does not end.
QueueIntact == \A h \in Hosts : ~hosts[h].broken
=============================================================================
