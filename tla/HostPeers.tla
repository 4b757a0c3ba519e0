------------------------------ MODULE HostPeers ------------------------------
(***************************************************************************)
(* The life of connections: a server host, client hosts at fixed           *)
(* addresses and the datagrams between them.  Every host runs the same     *)
(* HostTask (task.rs): peer slots, the map from addresses to slots, the    *)
(* three-way handshake, session numbers, pings, the graceful disconnect    *)
(* and the timeouts of service_one.  Payload is left to ReliableChannel;   *)
(* here the reliable commands are those of the connection itself.          *)
(*                                                                         *)
(* A client host is started by Host::connect, holds one slot and stops     *)
(* when its Peer is dropped or the connect times out; a later connect may  *)
(* bind the same port, that is, start from the same address.  A datagram   *)
(* carries one command (the commands of a bundle may arrive in any order   *)
(* anyway).  It may be lost (never received), delayed, overtaken and       *)
(* duplicated.  Timers are abstracted: what is outstanding may be found    *)
(* due, or overdue, at any service tick.                                   *)
(***************************************************************************)
EXTENDS Integers, Sequences, FiniteSets

CONSTANTS
  Server, Clients,  \* hosts, identified with their addresses
  MaxPeers,         \* slots of the server
  AcceptCap,        \* capacity of the accept channel
  Bounds            \* sets of bounds, of which a behaviour keeps to one

ASSUME HostAssumption ==
  /\ Server \notin Clients
  /\ MaxPeers \in Nat \ {0} /\ AcceptCap \in Nat
  /\ \A b \in Bounds : /\ b.attempts \in Nat \ {0}
                       /\ b.connects \in Nat /\ b.pings \in Nat /\ b.dups \in Nat
                       /\ b.drops \in Nat

Hosts == {Server} \cup Clients

Keys(h) == IF h = Server THEN 0 .. (MaxPeers - 1) ELSE {0}

Unassigned == -1   \* PEER_ID_UNASSIGNED on the wire, and no entry in addr_map
NoSession  == 255  \* 0xFF: session not yet negotiated
NoData     == -1   \* Err(None): an unclean end of the connection
NoPeer     == [state |-> "Free"]

VARIABLES
  peers,         \* HostTask::peers of every host
  addr_map,      \* HostTask::addr_map of every host
  accept_queue,  \* the server's accept channel
  handles,       \* the Peers the application of every host holds
  requests,      \* ToTask::Disconnect requests of dropped Peers of the server
  up,            \* the clients whose host task runs
  net,           \* datagrams under way
  dups,
  connects,      \* number of connection attempts so far
  established,   \* history: attempts whose client became Connected
  events,        \* disconnect events sent to the applications
  lost,          \* history: dropped Peers whose request found the channel full
  bound          \* the bounds of this behaviour

dropVars == <<requests, lost>>
vars == <<peers, addr_map, accept_queue, handles, dropVars, up, net, dups, connects,
          established, events, bound>>

MaxAttempts == bound.attempts  \* transmissions of a command before service_one gives up
MaxConnects == bound.connects  \* connection attempts, each with its own connect_id
MaxPings    == bound.pings     \* connection-level commands of an entry whose peer is up
MaxDups     == bound.dups      \* CONNECT datagrams the network duplicates
MaxDrops    == bound.drops     \* connections, the first, whose Peer the server may drop

----------------------------------------------------------------------------
(* Datagrams and peer entries.                                              *)

Outstanding(type, seq, n) == [type |-> type, seq |-> seq, attempts |-> n]

\* Mutant: the sessions are sent as the sender uses them.
Datagram_Unswapped(h, k, e, type, seq) ==
  [from |-> h, to |-> e.addr, peer |-> e.out_peer, sess |-> e.out_sess % 4,
   type |-> type, seq |-> seq, reliable |-> type # "ACK",
   conn |-> e.conn, key |-> k, in_sess |-> e.in_sess, out_sess |-> e.out_sess]

\* make_datagram: the header is filled in from the entry e of host h at key k.
\* The body of CONNECT and VERIFY_CONNECT names the connect_id, the slot and
\* the sessions as the receiver is to use them; that of DISCONNECT the reason,
\* for which every connection has one of its own.
Datagram(h, k, e, type, seq) ==
  LET handshake == type \in {"CONNECT", "VERIFY_CONNECT"}
  IN  [from |-> h, to |-> e.addr, peer |-> e.out_peer, sess |-> e.out_sess % 4,
       type |-> type, seq |-> seq, reliable |-> type # "ACK",
       conn |-> IF handshake \/ type = "DISCONNECT" THEN e.conn ELSE 0,
       key |-> IF handshake THEN k ELSE 0,
       in_sess |-> IF handshake THEN e.out_sess ELSE 0,
       out_sess |-> IF handshake THEN e.in_sess ELSE 0]

\* send_raw_disconnect: no entry, session 0, not to be acknowledged.
RawDisconnect(d) ==
  [from |-> d.to, to |-> d.from, peer |-> d.key, sess |-> 0,
   type |-> "DISCONNECT", seq |-> 0, conn |-> 0, key |-> 0,
   in_sess |-> 0, out_sess |-> 0, reliable |-> FALSE]

\* The PeerEntry that begin_connect or on_connect creates, with its handshake
\* command as the first outstanding one.
NewEntry(addr, state, out_peer, conn, in_sess, out_sess, type) ==
  [addr |-> addr, state |-> state, out_peer |-> out_peer, conn |-> conn,
   in_sess |-> in_sess, out_sess |-> out_sess, seq |-> 1, connect_seq |-> 1,
   outstanding |-> {Outstanding(type, 1, 1)}]

\* make_reliable on the connection channel.
AddReliable(e, type) ==
  [e EXCEPT !.seq = e.seq + 1,
            !.outstanding = e.outstanding \cup {Outstanding(type, e.seq + 1, 1)}]

SetPeer(h, k, e) == peers' = [peers EXCEPT ![h][k] = e]

\* Mutant: the address stays in the map.
RemovePeer_KeepsAddress(h, k) ==
  /\ SetPeer(h, k, NoPeer)
  /\ UNCHANGED addr_map

\* remove_peer: the slot and the address of its occupant are forgotten.
RemovePeer(h, k) ==
  /\ SetPeer(h, k, NoPeer)
  /\ addr_map' = [addr_map EXCEPT ![h][peers[h][k].addr] = Unassigned]

\* try_send of Err(data) to the application of the connection.
Notify(h, e, data) ==
  events' = events \cup {[host |-> h, conn |-> e.conn, data |-> data]}

Init ==
  /\ peers = [h \in Hosts |-> [k \in Keys(h) |-> NoPeer]]
  /\ addr_map = [h \in Hosts |-> [a \in Hosts |-> Unassigned]]
  /\ accept_queue = <<>> /\ handles = [h \in Hosts |-> {}]
  /\ up = {} /\ net = {} /\ dups = 0 /\ connects = 0
  /\ established = {} /\ events = {} /\ requests = {} /\ lost = {}
  /\ bound \in Bounds

----------------------------------------------------------------------------
(* The applications.                                                        *)

\* Host::connect_with_timeout and begin_connect.
Connect(h) ==
  /\ h \notin up /\ connects < MaxConnects
  /\ connects' = connects + 1
  /\ up' = up \cup {h}
  /\ LET e == NewEntry(Server, "Connecting", Unassigned, connects + 1,
                       NoSession, NoSession, "CONNECT")
     IN  /\ SetPeer(h, 0, e)
         /\ addr_map' = [addr_map EXCEPT ![h][Server] = 0]
         /\ net' = net \cup {Datagram(h, 0, e, "CONNECT", 1)}
  /\ UNCHANGED <<accept_queue, handles, dups, bound, dropVars, established, events>>

\* send_disconnect of the entry e, unless it is handshaking or already closing.
Closable(e) == e # NoPeer /\ e.state \in {"Connecting", "Connected"}

SendDisconnect(h, k) ==
  LET e == peers[h][k]
      f == [AddReliable(e, "DISCONNECT") EXCEPT !.state = "Disconnecting"]
  IN  /\ Closable(e)
      /\ IF e.outstanding # {}
         THEN /\ SetPeer(h, k, [e EXCEPT !.state = "DisconnectLater"])
              /\ UNCHANGED net
         ELSE /\ SetPeer(h, k, f)
              /\ net' = net \cup {Datagram(h, k, f, "DISCONNECT", f.seq)}

\* PeerSender::disconnect, keeping the Peer: it waits until the request is sent.
UserDisconnect(h, hd) ==
  /\ SendDisconnect(h, hd.key)
  /\ UNCHANGED <<addr_map, accept_queue, handles, up, dups, connects, bound, dropVars,
                 established, events>>

\* Drop of a Peer of the server: the handle is gone; try_send leaves a request
\* for the host task, or loses it when the channel is full.
ServerDrop(hd) ==
  /\ hd \in handles[Server] /\ hd.conn <= MaxDrops
  /\ handles' = [handles EXCEPT ![Server] = @ \ {hd}]
  /\ \/ requests' = requests \cup {hd} /\ lost' = lost
     \/ requests' = requests /\ lost' = lost \cup {hd}
  /\ UNCHANGED <<peers, addr_map, accept_queue, up, net, dups, connects, bound,
                 established, events>>

\* The host task takes the request of a dropped Peer from the channel.
TakeRequest(hd) ==
  /\ requests' = requests \ {hd}
  /\ \/ SendDisconnect(Server, hd.key)
     \/ ~Closable(peers[Server][hd.key]) /\ UNCHANGED <<peers, net>>
  /\ UNCHANGED <<addr_map, accept_queue, handles, lost, up, dups, connects, bound,
                 established, events>>

\* The client's Peer is dropped, or connect_with_timeout gives up.  The drop
\* sends DISCONNECT if nothing is outstanding; then the last sender of
\* ToTask is gone, run ends, and nothing is ever retransmitted.  A request
\* lost at a full channel shows as a DISCONNECT that is never received.
ClientStops(h) ==
  LET e == peers[h][0]
  IN  /\ h \in up
      /\ up' = up \ {h}
      /\ peers' = [peers EXCEPT ![h][0] = NoPeer]
      /\ addr_map' = [addr_map EXCEPT ![h][Server] = Unassigned]
      /\ handles' = [handles EXCEPT ![h] = {}]
      /\ net' = IF handles[h] # {} /\ Closable(e) /\ e.outstanding = {}
                THEN net \cup {Datagram(h, 0, e, "DISCONNECT", e.seq + 1)}
                ELSE net
      /\ UNCHANGED <<accept_queue, dups, connects, bound, dropVars, established, events>>

\* Host::accept.
Accept ==
  /\ accept_queue # <<>>
  /\ accept_queue' = Tail(accept_queue)
  /\ handles' = [handles EXCEPT ![Server] = @ \cup {Head(accept_queue)}]
  /\ UNCHANGED <<peers, addr_map, up, net, dups, connects, bound, dropVars, established, events>>

----------------------------------------------------------------------------
(* Arrival of a datagram: on_datagram and on_command.                       *)

\* The key a datagram is attributed to: the address only matters while the
\* sender does not know its peer id.
KeyOf(d) ==
  IF d.peer = Unassigned THEN addr_map[d.to][d.from]
  ELSE IF d.peer \in Keys(d.to) THEN d.peer
  ELSE Unassigned

Known(d) == KeyOf(d) # Unassigned /\ peers[d.to][KeyOf(d)] # NoPeer

\* The session check, which CONNECT is exempt from.
InSession(d) ==
  LET e == peers[d.to][KeyOf(d)]
  IN  e.in_sess = NoSession \/ d.sess = e.in_sess

\* d is received and replies are sent.  d may be received again later; of
\* CONNECT datagrams the network duplicates MaxDups in all.
Exchange(d, replies) ==
  /\ d.to = Server \/ d.to \in up
  /\ \/ /\ d.type # "CONNECT"
        /\ net' = net \cup replies /\ dups' = dups
     \/ /\ d.type = "CONNECT"
        /\ net' = (net \ {d}) \cup replies /\ dups' = dups
     \/ /\ d.type = "CONNECT" /\ dups < MaxDups
        /\ net' = net \cup replies /\ dups' = dups + 1

AckOf(d, e) == Datagram(d.to, KeyOf(d), e, "ACK", d.seq)

\* on_connect: evict whoever is at this address, take the first free slot or
\* refuse, answer with ACK and VERIFY_CONNECT.
OnConnect(d) ==
  LET h    == d.to
      old  == addr_map[h][d.from]
      left == IF old = Unassigned THEN peers[h] ELSE [peers[h] EXCEPT ![old] = NoPeer]
      free == {k \in Keys(h) : left[k] = NoPeer}
      slot == CHOOSE k \in free : \A j \in free : k <= j
      e    == NewEntry(d.from, "AcknowledgingConnect", d.key, d.conn, 1, 2,
                       "VERIFY_CONNECT")
  IN  /\ d.type = "CONNECT"
      /\ IF old # Unassigned /\ peers[h][old] # NoPeer
         THEN Notify(h, peers[h][old], NoData) ELSE UNCHANGED events
      /\ IF free = {}
         THEN /\ Exchange(d, {RawDisconnect(d)})
              /\ UNCHANGED <<peers, addr_map>>
         ELSE /\ peers' = [peers EXCEPT ![h] = [left EXCEPT ![slot] = e]]
              /\ addr_map' = [addr_map EXCEPT ![h][d.from] = slot]
              /\ Exchange(d, {Datagram(h, slot, e, "ACK", d.seq),
                              Datagram(h, slot, e, "VERIFY_CONNECT", 1)})
      /\ UNCHANGED <<accept_queue, handles, up, connects, bound, dropVars, established>>

\* Mutant: any VERIFY_CONNECT of the connection is taken, in every state.
OnVerifyConnect_AnyState(d) ==
  LET h == d.to
      k == KeyOf(d)
      e == peers[h][k]
      f == [e EXCEPT !.state = "Connected", !.out_peer = d.key,
                     !.in_sess = d.in_sess, !.out_sess = d.out_sess]
  IN  /\ d.type = "VERIFY_CONNECT" /\ Known(d) /\ InSession(d)
      /\ d.conn = e.conn
      /\ SetPeer(h, k, f)
      /\ handles' = [handles EXCEPT ![h] = @ \cup {[key |-> k, conn |-> e.conn]}]
      /\ established' = established \cup {e.conn}
      /\ Exchange(d, {AckOf(d, f)})
      /\ UNCHANGED <<addr_map, accept_queue, up, connects, bound, dropVars, events>>

\* on_verify_connect.  The command is acknowledged even when it is ignored.
OnVerifyConnect(d) ==
  LET h == d.to
      k == KeyOf(d)
      e == peers[h][k]
      f == [e EXCEPT !.state = "Connected", !.out_peer = d.key,
                     !.in_sess = d.in_sess, !.out_sess = d.out_sess,
                     !.outstanding = {r \in @ : r.seq # e.connect_seq}]
  IN  /\ d.type = "VERIFY_CONNECT" /\ Known(d) /\ InSession(d)
      /\ \/ /\ e.state = "Connecting" /\ d.conn = e.conn
            /\ SetPeer(h, k, f)
            /\ handles' = [handles EXCEPT ![h] = @ \cup {[key |-> k, conn |-> e.conn]}]
            /\ established' = established \cup {e.conn}
            /\ Exchange(d, {AckOf(d, f)})
         \/ /\ ~(e.state = "Connecting" /\ d.conn = e.conn)
            /\ Exchange(d, {AckOf(d, e)})
            /\ UNCHANGED <<peers, handles, established>>
      /\ UNCHANGED <<addr_map, accept_queue, up, connects, bound, dropVars, events>>

\* on_ack: completes the handshake of the server or the disconnect.
OnAck(d) ==
  LET h == d.to
      k == KeyOf(d)
      e == peers[h][k]
      f == [e EXCEPT !.outstanding = {r \in @ : r.seq # d.seq}]
      completing == e.state = "AcknowledgingConnect" /\ d.seq = e.connect_seq
      done       == e.state = "Disconnecting" /\ f.outstanding = {}
  IN  /\ d.type = "ACK" /\ Known(d) /\ InSession(d)
      /\ \/ /\ completing /\ Len(accept_queue) < AcceptCap
            /\ SetPeer(h, k, [f EXCEPT !.state = "Connected"])
            /\ accept_queue' = Append(accept_queue, [key |-> k, conn |-> e.conn])
            /\ UNCHANGED addr_map
         \/ /\ done \/ (completing /\ Len(accept_queue) >= AcceptCap)
            /\ RemovePeer(h, k)
            /\ UNCHANGED accept_queue
         \/ /\ ~completing /\ ~done
            /\ SetPeer(h, k, f)
            /\ UNCHANGED <<addr_map, accept_queue>>
      /\ Exchange(d, {})
      /\ UNCHANGED <<handles, up, connects, bound, dropVars, established, events>>

\* on_command, CMD_DISCONNECT: ignored by an entry that is still handshaking.
OnDisconnect(d) ==
  LET h == d.to
      k == KeyOf(d)
      e == peers[h][k]
  IN  /\ d.type = "DISCONNECT" /\ Known(d) /\ InSession(d)
      /\ \/ /\ e.state = "AcknowledgingConnect"
            /\ Exchange(d, {})
            /\ UNCHANGED <<peers, addr_map, events>>
         \/ /\ e.state # "AcknowledgingConnect"
            /\ Exchange(d, IF d.reliable THEN {AckOf(d, e)} ELSE {})
            /\ Notify(h, e, d.conn)
            /\ RemovePeer(h, k)
      /\ UNCHANGED <<accept_queue, handles, up, connects, bound, dropVars, established>>

\* on_command, CMD_PING: acknowledged.
OnPing(d) ==
  /\ d.type = "PING" /\ Known(d) /\ InSession(d)
  /\ Exchange(d, {AckOf(d, peers[d.to][KeyOf(d)])})
  /\ UNCHANGED <<peers, addr_map, accept_queue, handles, up, connects, bound, dropVars, established, events>>

\* A datagram for no entry, or of another session, changes nothing.
OnDatagram(d) ==
  OnConnect(d) \/ OnVerifyConnect(d) \/ OnAck(d) \/ OnDisconnect(d) \/ OnPing(d)

----------------------------------------------------------------------------
(* service_one.  Its branches exclude each other on the connection channel: *)
(* the first two need something outstanding, the others nothing.            *)

Retransmit(h, k) ==
  LET e == peers[h][k]
  IN  \E r \in e.outstanding :
        /\ r.attempts < MaxAttempts
        /\ SetPeer(h, k, [e EXCEPT !.outstanding =
             (@ \ {r}) \cup {Outstanding(r.type, r.seq, r.attempts + 1)}])
        /\ net' = net \cup {Datagram(h, k, e, r.type, r.seq)}
        /\ UNCHANGED <<addr_map, accept_queue, handles, up, dups, connects, bound, dropVars, established, events>>

\* Mutant: a handshake is not timed out.
Timeout_Established(h, k) ==
  LET e == peers[h][k]
  IN  /\ e.outstanding # {} /\ e.state # "AcknowledgingConnect"
      /\ Notify(h, e, NoData)
      /\ RemovePeer(h, k)
      /\ UNCHANGED <<accept_queue, handles, up, net, dups, connects, bound, dropVars, established>>

Timeout(h, k) ==
  LET e == peers[h][k]
  IN  /\ e.outstanding # {}
      /\ Notify(h, e, NoData)
      /\ RemovePeer(h, k)
      /\ UNCHANGED <<accept_queue, handles, up, net, dups, connects, bound, dropVars, established>>

\* Mutant: the ping is not tracked among the outstanding commands.
Ping_Untracked(h, k) ==
  LET e == peers[h][k]
  IN  /\ e.state = "Connected" /\ e.outstanding = {}
      /\ net' = net \cup {Datagram(h, k, e, "PING", e.seq)}
      /\ UNCHANGED <<peers, addr_map, accept_queue, handles, up, dups, connects, bound, dropVars,
                     established, events>>

Ping(h, k) ==
  LET e == peers[h][k]
      f == AddReliable(e, "PING")
  IN  /\ e.state = "Connected" /\ e.outstanding = {}
      /\ e.seq < MaxPings \/ e.addr \in Clients \ up
      /\ SetPeer(h, k, f)
      /\ net' = net \cup {Datagram(h, k, f, "PING", f.seq)}
      /\ UNCHANGED <<addr_map, accept_queue, handles, up, dups, connects, bound, dropVars, established, events>>

DisconnectNow(h, k) ==
  LET e == peers[h][k]
      f == [AddReliable(e, "DISCONNECT") EXCEPT !.state = "Disconnecting"]
  IN  /\ e.state = "DisconnectLater" /\ e.outstanding = {}
      /\ SetPeer(h, k, f)
      /\ net' = net \cup {Datagram(h, k, f, "DISCONNECT", f.seq)}
      /\ UNCHANGED <<addr_map, accept_queue, handles, up, dups, connects, bound, dropVars, established, events>>

ServiceOne(h, k) ==
  /\ peers[h][k] # NoPeer
  /\ Retransmit(h, k) \/ Timeout(h, k) \/ Ping(h, k) \/ DisconnectNow(h, k)

Next ==
  \/ \E h \in Clients : Connect(h) \/ ClientStops(h)
  \/ \E h \in Hosts : \E hd \in handles[h] : UserDisconnect(h, hd)
  \/ \E hd \in handles[Server] : ServerDrop(hd)
  \/ \E hd \in requests : TakeRequest(hd)
  \/ Accept
  \/ \E d \in net : OnDatagram(d)
  \/ \E h \in Hosts : \E k \in Keys(h) : ServiceOne(h, k)

Spec == Init /\ [][Next]_vars

\* The ticker of the server's run keeps servicing every slot.
FairSpec == Spec /\ \A k \in Keys(Server) : WF_vars(ServiceOne(Server, k))

----------------------------------------------------------------------------
(* Properties.                                                              *)

States == {"Connecting", "AcknowledgingConnect", "Connected", "DisconnectLater",
           "Disconnecting"}
Types  == {"CONNECT", "VERIFY_CONNECT", "ACK", "PING", "DISCONNECT"}
Conns  == 0 .. MaxConnects
AnyKey == 0 .. (MaxPeers - 1)

Entry ==
  [addr : Hosts, state : States, out_peer : {Unassigned} \cup AnyKey, conn : Conns,
   in_sess : {1, 2, NoSession}, out_sess : {1, 2, NoSession}, seq : Nat,
   connect_seq : Nat,
   outstanding : SUBSET [type : Types, seq : Nat, attempts : 1 .. MaxAttempts]]

\* The hosts stay within their types and limits: the accept channel within its
\* capacity, no entry beyond its attempts, handles only to existing slots.
TypeOK ==
  /\ \A h \in Hosts : \A k \in Keys(h) : peers[h][k] \in {NoPeer} \cup Entry
  /\ addr_map \in [Hosts -> [Hosts -> {Unassigned} \cup AnyKey]]
  /\ accept_queue \in Seq([key : AnyKey, conn : Conns])
  /\ Len(accept_queue) <= AcceptCap
  /\ \A h \in Hosts : handles[h] \subseteq [key : Keys(h), conn : Conns]
  /\ requests \cup lost \subseteq [key : Keys(Server), conn : Conns]
  /\ up \subseteq Clients
  /\ dups \in 0 .. MaxDups /\ connects \in Conns /\ established \subseteq Conns

\* addr_map and the slots describe each other: every address in the map leads
\* to the occupied slot of that address and every occupied slot is in the
\* map, so no address ever has two entries, whatever is evicted, refused,
\* removed or reused (begin_connect, on_connect, remove_peer).
AddrMapConsistent ==
  \A h \in Hosts :
    /\ \A a \in Hosts : addr_map[h][a] # Unassigned =>
         /\ addr_map[h][a] \in Keys(h)
         /\ peers[h][addr_map[h][a]] # NoPeer
         /\ peers[h][addr_map[h][a]].addr = a
    /\ \A k \in Keys(h) : peers[h][k] # NoPeer => addr_map[h][peers[h][k].addr] = k

\* When a client has left the handshake and the slot it addresses holds its
\* connection, each side stamps datagrams with the session the other expects
\* and addresses the slot the other occupies (on_connect, on_verify_connect).
SessionAgreement ==
  \A c \in Clients :
    LET e == peers[c][0] IN
    e # NoPeer /\ e.state # "Connecting" =>
      LET f == peers[Server][e.out_peer] IN
      f # NoPeer /\ f.conn = e.conn =>
        /\ f.addr = c /\ f.out_peer = 0
        /\ f.in_sess = e.out_sess /\ e.in_sess = f.out_sess

\* Every Connected slot of the server can still be closed by its application:
\* its Peer waits in the accept channel or is held, or the request that its
\* drop left waits for the host task. on_ack frees the slot when the accept
\* channel is full, send_disconnect acts on every Connected slot. Only a drop
\* that finds the request channel full abandons a slot.
Owned(hd) ==
  \/ hd \in handles[Server] \cup requests
  \/ \E i \in 1 .. Len(accept_queue) : accept_queue[i] = hd

ConnectedIsOwned ==
  \A k \in Keys(Server) :
    LET hd == [key |-> k, conn |-> peers[Server][k].conn] IN
    peers[Server][k] # NoPeer /\ peers[Server][k].state = "Connected"
      => Owned(hd) \/ hd \in lost

\* Slots, address map and the application's handles stay consistent whatever is
\* evicted, refused, removed or reused.
SlotsConsistent == TypeOK /\ AddrMapConsistent /\ ConnectedIsOwned

\* No late VERIFY_CONNECT or ACK reopens a connection that is being closed:
\* the entry stays closing, is freed, or gives way to a new handshake.
Closing(e) == e.state \in {"DisconnectLater", "Disconnecting"}

ClosingIsFinal ==
  [][\A h \in Hosts : \A k \in Keys(h) :
       Closing(peers[h][k]) =>
         \/ Closing(peers'[h][k])
         \/ peers'[h][k].state \in {"Free", "AcknowledgingConnect"}]_vars

\* A half-open slot does not stay half-open: the handshake completes or the
\* retransmissions of VERIFY_CONNECT run out.
HalfOpenEnds ==
  \A k \in Keys(Server) :
    (peers[Server][k].state = "AcknowledgingConnect")
      ~> (peers[Server][k].state # "AcknowledgingConnect")

\* The slot of a client that has gone away is freed, by its DISCONNECT or by
\* the timeout of a command or ping, unless a client is back at the address.
DeadPeerFreed ==
  \A k \in Keys(Server) : \A c \in Clients :
    (peers[Server][k] # NoPeer /\ peers[Server][k].addr = c /\ c \notin up)
      ~> (peers[Server][k] = NoPeer \/ c \in up \/ peers[Server][k].addr # c)

\* task.rs says of a DISCONNECT left over from an earlier connection that it
\* must not kill the newly created peer: the reason the server's application
\* is given stems from the connection that has ended.
StaleDisconnectHarmless ==
  \A ev \in events : ev.host = Server /\ ev.data # NoData => ev.data = ev.conn

\* peer.rs documents Disconnected(None) as a connection timeout: a step of the
\* server that gives its application this event is a timeout of service_one.
NoneMeansTimeout ==
  [][\A k \in Keys(Server) :
       LET ev == [host |-> Server, conn |-> peers[Server][k].conn, data |-> NoData] IN
       peers[Server][k].state = "Connected" /\ ev \in events' \ events
         => Timeout(Server, k)]_vars

\* protocol.md: the client acknowledges the VERIFY_CONNECT that matches its
\* connectID, and then both sides are connected.
BothSidesConnected ==
  \A k \in Keys(Server) :
    LET e == peers[Server][k] IN
    e # NoPeer /\ e.state = "Connected" => e.conn \in established

\* task.rs means to ignore the disconnect of a stale PeerSender whose slot
\* was reused: a connection is only ever closed through a Peer made for it.
HandleActsOnItsPeer ==
  [][\A k \in Keys(Server) :
       Closable(peers[Server][k]) /\ Closing(peers'[Server][k]) =>
         [key |-> k, conn |-> peers[Server][k].conn] \in handles[Server] \cup requests]_vars

\* peer.rs documents a graceful disconnect when the sending half is dropped,
\* ignored only if the task is gone: every Connected slot is owned.
DropDisconnects ==
  \A k \in Keys(Server) :
    peers[Server][k] # NoPeer /\ peers[Server][k].state = "Connected"
      => Owned([key |-> k, conn |-> peers[Server][k].conn])
=============================================================================
