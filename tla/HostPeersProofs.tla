--------------------------- MODULE HostPeersProofs ---------------------------
(***************************************************************************)
(* Proofs about HostPeers, for every number of clients, slots, connection  *)
(* attempts, retransmissions, pings and duplicated datagrams: the slots    *)
(* and the address map describe each other, both ends of a connection      *)
(* agree on its sessions, and a closing connection is never reopened.      *)
(***************************************************************************)
EXTENDS HostPeers, SequenceTheorems, WellFoundedInduction, TLAPS

USE DEF dropVars

----------------------------------------------------------------------------
(* The inductive invariant.                                                 *)

\* What on_connect makes of a slot of the server, and keeps.
ServerSide(e) ==
  /\ e.addr \in Clients /\ e.state # "Connecting"
  /\ e.out_peer = 0 /\ e.in_sess = 1 /\ e.out_sess = 2
  /\ \A r \in e.outstanding : r.type # "CONNECT"

\* What begin_connect and on_verify_connect make of the slot of a client.
ClientSide(e) ==
  /\ e.addr = Server /\ e.state # "AcknowledgingConnect"
  /\ \/ e.state = "Connecting"
     \/ e.out_peer \in Keys(Server) /\ e.in_sess = 2 /\ e.out_sess = 1
  /\ \A r \in e.outstanding : r.type # "VERIFY_CONNECT"

EntryOK(h, e) == IF h = Server THEN ServerSide(e) ELSE ClientSide(e)

\* The two ends of a connection never take each other's part.
SidesApart ==
  \A h \in Hosts : \A k \in Keys(h) :
    peers[h][k] # NoPeer => EntryOK(h, peers[h][k])

\* The tables of every host: functions on its keys and addresses that describe
\* each other.
Tables ==
  /\ DOMAIN peers = Hosts
  /\ \A h \in Hosts : peers[h] \in [Keys(h) -> {NoPeer} \cup Entry]
  /\ addr_map \in [Hosts -> [Hosts -> {Unassigned} \cup AnyKey]]
  /\ AddrMapConsistent /\ SidesApart

Handle(h) == [key : Keys(h), conn : Conns]

\* The rest of the state stays within its types and bounds.
Books ==
  /\ bound \in Bounds
  /\ handles \in [Hosts -> SUBSET [key : AnyKey, conn : Conns]]
  /\ \A h \in Hosts : handles[h] \subseteq Handle(h)
  /\ accept_queue \in Seq(Handle(Server)) /\ Len(accept_queue) <= AcceptCap
  /\ requests \subseteq Handle(Server) /\ lost \subseteq Handle(Server)
  /\ up \subseteq Clients
  /\ dups \in 0 .. MaxDups /\ connects \in Conns /\ established \subseteq Conns

\* A client that does not run has no entry, and it has a Peer only once its
\* connection is established.
ClientsIdle ==
  \A c \in Clients :
    /\ c \notin up => peers[c][0] = NoPeer
    /\ c \notin up \/ peers[c][0].state = "Connecting" => handles[c] = {}

DatagramSet ==
  [from : Hosts, to : Hosts, peer : {Unassigned} \cup AnyKey, sess : Int,
   type : Types, seq : Nat, reliable : BOOLEAN, conn : Nat, key : AnyKey,
   in_sess : Int, out_sess : Int]

\* The handshake datagrams of a client go to the server, and those of the
\* server to a client, with the sessions as on_connect chooses them.
HandshakeOK(d) ==
  /\ d.type = "CONNECT" => d.to = Server /\ d.from \in Clients /\ d.key = 0
  /\ d.type = "VERIFY_CONNECT" =>
       d.to \in Clients /\ d.key \in Keys(Server) /\ d.in_sess = 2 /\ d.out_sess = 1

NetOK == \A d \in net : d \in DatagramSet /\ HandshakeOK(d)

\* Client c has made connection attempt n, as far as anybody still knows.
Dialled(c, n) ==
  \/ \E d \in net : d.type = "CONNECT" /\ d.from = c /\ d.conn = n
  \/ peers[c][0] # NoPeer /\ peers[c][0].conn = n
  \/ \E k \in Keys(Server) : /\ peers[Server][k] # NoPeer
                             /\ peers[Server][k].addr = c /\ peers[Server][k].conn = n

\* No two clients have made the same attempt: connect_id names a connection.
OneDialer ==
  \A c \in Clients : \A n \in Nat : Dialled(c, n) =>
    n <= connects /\ \A b \in Clients : Dialled(b, n) => b = c

IndInv == Tables /\ Books /\ ConnectedIsOwned /\ ClientsIdle /\ NetOK /\ OneDialer

----------------------------------------------------------------------------
(* Constants, entries and datagrams.                                        *)

\* The bounds of a behaviour, and what a key is.
LEMMA BoundFacts ==
  ASSUME bound \in Bounds
  PROVE  /\ MaxAttempts \in Nat \ {0} /\ MaxConnects \in Nat
         /\ MaxPings \in Nat /\ MaxDups \in Nat
  BY HostAssumption DEF MaxAttempts, MaxConnects, MaxPings, MaxDups

LEMMA KeyFacts ==
  /\ Server \in Hosts /\ Clients \subseteq Hosts
  /\ 0 \in AnyKey /\ Keys(Server) = AnyKey /\ Unassigned \notin AnyKey
  /\ \A c \in Clients : c # Server /\ Keys(c) = {0}
  /\ \A h \in Hosts : 0 \in Keys(h) /\ Keys(h) \subseteq AnyKey
  BY HostAssumption DEF Hosts, Keys, AnyKey, Unassigned

\* A free slot is no entry.
LEMMA FreeIsNoEntry ==
  /\ NoPeer.state = "Free" /\ NoPeer \notin Entry
  /\ \A e \in Entry : e # NoPeer /\ e.state \in States /\ e.state # "Free"
  BY DEF NoPeer, Entry, States

\* What the slots hold, in the form the proofs use.
LEMMA SlotTyped ==
  ASSUME Tables, NEW h \in Hosts, NEW k \in Keys(h)
  PROVE  peers[h][k] = NoPeer \/ peers[h][k] \in Entry
  BY DEF Tables

\* The commands an entry may have outstanding.
Commands == [type : Types, seq : Nat, attempts : 1 .. MaxAttempts]

LEMMA CommandTyped ==
  ASSUME NEW type \in Types, NEW seq \in Nat, NEW n \in 1 .. MaxAttempts
  PROVE  Outstanding(type, seq, n) \in Commands /\ Outstanding(type, seq, n).type = type
  BY DEF Outstanding, Commands

\* make_reliable in a step that leaves the entry in state s.
Added(e, type, s) == [AddReliable(e, type) EXCEPT !.state = s]

\* make_reliable adds one command with the next number and changes no more.
LEMMA AddReliableFacts ==
  ASSUME bound \in Bounds, NEW e \in Entry, NEW type \in Types, NEW s \in States,
         NEW f, f = Added(e, type, s)
  PROVE  /\ f \in Entry /\ f.state = s /\ f.seq \in Nat
         /\ f.addr = e.addr /\ f.conn = e.conn /\ f.out_peer = e.out_peer
         /\ f.in_sess = e.in_sess /\ f.out_sess = e.out_sess
         /\ \A r \in f.outstanding : r \in e.outstanding \/ r.type = type
<1> DEFINE c == Outstanding(type, e.seq + 1, 1)
           d == e.outstanding \cup {c}
<1>1. MaxAttempts \in Nat \ {0} /\ e.seq + 1 \in Nat
  BY BoundFacts DEF Entry
<1>2. c \in Commands /\ c.type = type
  BY <1>1, CommandTyped
<1>3. e.outstanding \subseteq Commands
  BY DEF Entry, Commands
<1>4. AddReliable(e, type) = [e EXCEPT !.seq = e.seq + 1, !.outstanding = d]
  BY DEF AddReliable
<1> HIDE DEF c
<1>5. d \in SUBSET Commands /\ \A r \in d : r \in e.outstanding \/ r.type = type
  BY <1>2, <1>3
<1> HIDE DEF d
<1>6. f = [e EXCEPT !.seq = e.seq + 1, !.outstanding = d, !.state = s]
  BY <1>4 DEF Added
<1> QED BY <1>1, <1>5, <1>6 DEF Entry, Commands

\* make_datagram fills in a datagram of the network from an entry of a host.
LEMMA DatagramTyped ==
  ASSUME bound \in Bounds, NEW h \in Hosts, NEW k \in Keys(h), NEW e \in Entry,
         NEW type \in Types, NEW seq \in Nat
  PROVE  /\ Datagram(h, k, e, type, seq) \in DatagramSet
         /\ Datagram(h, k, e, type, seq).type = type
         /\ Datagram(h, k, e, type, seq).from = h
         /\ type = "CONNECT" => Datagram(h, k, e, type, seq).conn = e.conn
<1>1. /\ k \in AnyKey /\ 0 \in AnyKey /\ e.conn \in Nat
      /\ e.in_sess \in Int /\ e.out_sess \in Int /\ e.out_sess % 4 \in Int
  BY KeyFacts, BoundFacts DEF Entry, Conns, NoSession
<1>2. e.addr \in Hosts /\ e.out_peer \in {Unassigned} \cup AnyKey
  BY DEF Entry
<1> QED BY <1>1, <1>2 DEF Datagram, DatagramSet

\* The handshake commands of a well-formed entry are well formed.
LEMMA DatagramOK ==
  ASSUME bound \in Bounds, NEW h \in Hosts, NEW k \in Keys(h), NEW e \in Entry,
         EntryOK(h, e), NEW type \in Types, NEW seq \in Nat,
         h = Server => type # "CONNECT", h # Server => type # "VERIFY_CONNECT"
  PROVE  /\ Datagram(h, k, e, type, seq) \in DatagramSet
         /\ HandshakeOK(Datagram(h, k, e, type, seq))
<1>1. Datagram(h, k, e, type, seq) \in DatagramSet
  BY DatagramTyped
<1> DEFINE d == Datagram(h, k, e, type, seq)
<1>2. /\ d.type = type /\ d.from = h /\ d.to = e.addr
      /\ type \in {"CONNECT", "VERIFY_CONNECT"} =>
           d.key = k /\ d.in_sess = e.out_sess /\ d.out_sess = e.in_sess
  BY DEF Datagram
<1> HIDE DEF d
<1>3. ASSUME type = "CONNECT" PROVE HandshakeOK(d)
  <2>1. h \in Clients /\ k = 0 /\ e.addr = Server
    BY <1>3, KeyFacts DEF EntryOK, ClientSide, Hosts
  <2> QED BY <1>2, <1>3, <2>1 DEF HandshakeOK
<1>4. ASSUME type = "VERIFY_CONNECT" PROVE HandshakeOK(d)
  <2>1. e.addr \in Clients /\ k \in Keys(Server) /\ e.in_sess = 1 /\ e.out_sess = 2
    BY <1>4, KeyFacts DEF EntryOK, ServerSide
  <2> QED BY <1>2, <1>4, <2>1 DEF HandshakeOK
<1>5. ASSUME type \notin {"CONNECT", "VERIFY_CONNECT"} PROVE HandshakeOK(d)
  BY <1>2, <1>5 DEF HandshakeOK
<1> QED BY <1>1, <1>3, <1>4, <1>5 DEF d

----------------------------------------------------------------------------
(* Steps on the tables of one host.                                         *)

\* A step that writes one slot leaves the other slots alone.
LEMMA SetPeerIs ==
  ASSUME Tables, bound' = bound, NEW h \in Hosts, NEW k \in Keys(h),
         NEW e \in {NoPeer} \cup Entry, SetPeer(h, k, e)
  PROVE  /\ DOMAIN peers' = Hosts
         /\ \A g \in Hosts : peers'[g] \in [Keys(g) -> {NoPeer} \cup Entry']
         /\ \A g \in Hosts : \A j \in Keys(g) :
              peers'[g][j] = IF g = h /\ j = k THEN e ELSE peers[g][j]
<1>1. DOMAIN peers = Hosts /\ \A g \in Hosts : peers[g] \in [Keys(g) -> {NoPeer} \cup Entry]
  BY DEF Tables
<1>2. Entry' = Entry
  BY DEF Entry, Conns, MaxConnects, MaxAttempts
<1>3. peers' = [peers EXCEPT ![h] = [peers[h] EXCEPT ![k] = e]]
  BY DEF SetPeer
<1> DEFINE row == [peers[h] EXCEPT ![k] = e]
<1>4. row \in [Keys(h) -> {NoPeer} \cup Entry]
      /\ \A j \in Keys(h) : row[j] = IF j = k THEN e ELSE peers[h][j]
  BY <1>1
<1> HIDE DEF row
<1>5. DOMAIN peers' = Hosts /\ \A g \in Hosts : peers'[g] = IF g = h THEN row ELSE peers[g]
  BY <1>1, <1>3 DEF row
<1> QED BY <1>1, <1>2, <1>4, <1>5

\* A step that rewrites an entry without moving it keeps the tables.
LEMMA KeepSlot ==
  ASSUME Tables, bound' = bound, NEW h \in Hosts, NEW k \in Keys(h),
         peers[h][k] # NoPeer, NEW f \in Entry, EntryOK(h, f),
         f.addr = peers[h][k].addr, SetPeer(h, k, f), UNCHANGED addr_map
  PROVE  Tables'
<1>1. /\ DOMAIN peers' = Hosts
      /\ \A g \in Hosts : peers'[g] \in [Keys(g) -> {NoPeer} \cup Entry']
      /\ \A g \in Hosts : \A j \in Keys(g) :
           peers'[g][j] = IF g = h /\ j = k THEN f ELSE peers[g][j]
  BY SetPeerIs
<1>2. f # NoPeer
  BY FreeIsNoEntry
<1>3. AddrMapConsistent'
  BY <1>1, <1>2 DEF Tables, AddrMapConsistent
<1>4. SidesApart'
  BY <1>1 DEF Tables, SidesApart, EntryOK, ServerSide, ClientSide
<1> QED BY <1>1, <1>3, <1>4 DEF Tables

\* remove_peer keeps the tables.
LEMMA FreeSlot ==
  ASSUME Tables, bound' = bound, NEW h \in Hosts, NEW k \in Keys(h),
         peers[h][k] # NoPeer, RemovePeer(h, k)
  PROVE  /\ Tables'
         /\ \A g \in Hosts : \A j \in Keys(g) :
              peers'[g][j] = IF g = h /\ j = k THEN NoPeer ELSE peers[g][j]
<1>1. /\ DOMAIN peers' = Hosts
      /\ \A g \in Hosts : peers'[g] \in [Keys(g) -> {NoPeer} \cup Entry']
      /\ \A g \in Hosts : \A j \in Keys(g) :
           peers'[g][j] = IF g = h /\ j = k THEN NoPeer ELSE peers[g][j]
  BY SetPeerIs DEF RemovePeer
<1> DEFINE a == peers[h][k].addr
<1>2. a \in Hosts /\ addr_map[h][a] = k
  BY DEF Tables, AddrMapConsistent, Entry
<1>3. /\ addr_map' \in [Hosts -> [Hosts -> {Unassigned} \cup AnyKey]]
      /\ \A g, b \in Hosts : addr_map'[g][b] = IF g = h /\ b = a THEN Unassigned
                                               ELSE addr_map[g][b]
  BY <1>2 DEF Tables, RemovePeer
<1>4. AddrMapConsistent'
  <2> HIDE DEF a
  <2> SUFFICES ASSUME NEW g \in Hosts
               PROVE  /\ \A b \in Hosts : addr_map'[g][b] # Unassigned =>
                           /\ addr_map'[g][b] \in Keys(g)
                           /\ peers'[g][addr_map'[g][b]] # NoPeer
                           /\ peers'[g][addr_map'[g][b]].addr = b
                      /\ \A j \in Keys(g) : peers'[g][j] # NoPeer =>
                           addr_map'[g][peers'[g][j].addr] = j
    BY DEF AddrMapConsistent
  <2>1. /\ \A b \in Hosts : addr_map[g][b] # Unassigned =>
             /\ addr_map[g][b] \in Keys(g)
             /\ peers[g][addr_map[g][b]] # NoPeer
             /\ peers[g][addr_map[g][b]].addr = b
        /\ \A j \in Keys(g) : peers[g][j] # NoPeer =>
             peers[g][j].addr \in Hosts /\ addr_map[g][peers[g][j].addr] = j
    BY DEF Tables, AddrMapConsistent, Entry
  <2>2. \A j \in Keys(g) : peers'[g][j] = IF g = h /\ j = k THEN NoPeer ELSE peers[g][j]
    BY <1>1
  <2>3. \A b \in Hosts : addr_map'[g][b] = IF g = h /\ b = a THEN Unassigned
                                           ELSE addr_map[g][b]
    BY <1>3
  <2>4. g = h => peers[g][k].addr = a
    BY DEF a
  <2>5. ASSUME NEW b \in Hosts, addr_map'[g][b] # Unassigned
        PROVE  /\ addr_map'[g][b] \in Keys(g)
               /\ peers'[g][addr_map'[g][b]] # NoPeer
               /\ peers'[g][addr_map'[g][b]].addr = b
    <3>1. addr_map'[g][b] = addr_map[g][b] /\ (g = h => b # a)
      BY <2>3, <2>5
    <3>2. /\ addr_map[g][b] \in Keys(g) /\ peers[g][addr_map[g][b]] # NoPeer
          /\ peers[g][addr_map[g][b]].addr = b
      BY <2>1, <2>5, <3>1
    <3>3. ~ (g = h /\ addr_map[g][b] = k)
      BY <2>4, <3>1, <3>2
    <3> QED BY <2>2, <3>1, <3>2, <3>3
  <2>6. ASSUME NEW j \in Keys(g), peers'[g][j] # NoPeer
        PROVE  addr_map'[g][peers'[g][j].addr] = j
    <3>1. peers'[g][j] = peers[g][j] /\ ~ (g = h /\ j = k)
      BY <2>2, <2>6
    <3>2. peers[g][j].addr \in Hosts /\ addr_map[g][peers[g][j].addr] = j
      BY <2>1, <2>6, <3>1
    <3>3. ~ (g = h /\ peers[g][j].addr = a)
      BY <1>2, <3>1, <3>2
    <3> QED BY <2>3, <3>1, <3>2, <3>3
  <2> QED BY <2>5, <2>6
<1>5. SidesApart'
  BY <1>1 DEF Tables, SidesApart, EntryOK, ServerSide, ClientSide
<1> QED BY <1>1, <1>3, <1>4, <1>5 DEF Tables

\* An attempt that nobody newly knows of keeps the attempts of the clients apart.
LEMMA KeepDialer ==
  ASSUME OneDialer, UNCHANGED <<connects, bound>>,
         \A c \in Clients : \A n \in Nat : Dialled(c, n)' => Dialled(c, n)
  PROVE  OneDialer'
  BY DEF OneDialer

\* The attempts somebody knows of after a step that keeps whom every slot is for.
LEMMA SameAttempts ==
  ASSUME IndInv, UNCHANGED <<connects, bound>>,
         \A g \in Hosts : \A j \in Keys(g) : peers'[g][j] # NoPeer =>
           /\ peers[g][j] # NoPeer
           /\ peers'[g][j].addr = peers[g][j].addr /\ peers'[g][j].conn = peers[g][j].conn,
         \A d \in net' : d.type = "CONNECT" =>
           d \in net \/ Dialled(d.from, d.conn)
  PROVE  OneDialer'
<1>1. ASSUME NEW c \in Clients, NEW n \in Nat, Dialled(c, n)' PROVE Dialled(c, n)
  <2>1. CASE \E d \in net' : d.type = "CONNECT" /\ d.from = c /\ d.conn = n
    BY <2>1 DEF Dialled
  <2>2. CASE peers'[c][0] # NoPeer /\ peers'[c][0].conn = n
    BY <2>2, KeyFacts DEF Dialled
  <2>3. CASE \E k \in Keys(Server) : /\ peers'[Server][k] # NoPeer
                                     /\ peers'[Server][k].addr = c
                                     /\ peers'[Server][k].conn = n
    BY <2>3, KeyFacts DEF Dialled
  <2> QED BY <1>1, <2>1, <2>2, <2>3 DEF Dialled
<1> QED BY <1>1, KeepDialer DEF IndInv

\* A slot that is Connected after a step, and was so before, is still owned.
LEMMA OwnedKept ==
  ASSUME ConnectedIsOwned, UNCHANGED <<handles, accept_queue, requests, lost>>,
         \A k \in Keys(Server) :
           peers'[Server][k] # NoPeer /\ peers'[Server][k].state = "Connected" =>
             /\ peers[Server][k] # NoPeer /\ peers[Server][k].state = "Connected"
             /\ peers'[Server][k].conn = peers[Server][k].conn
  PROVE  ConnectedIsOwned'
  BY DEF ConnectedIsOwned, Owned

\* Of the requests of dropped Peers, those for slot k of h may be taken by a step
\* that leaves the slot in the given state.
Served(h, k, state) ==
  /\ lost' = lost /\ requests' \subseteq requests
  /\ \A x \in requests : x \in requests' \/ (h = Server /\ x.key = k /\ state # "Connected")

LEMMA ServedNone ==
  ASSUME UNCHANGED dropVars
  PROVE  \A h, k, state : Served(h, k, state)
  BY DEF Served, dropVars

\* What host h may put on the wire in a step.
Sendable(h, d) ==
  /\ d \in DatagramSet /\ HandshakeOK(d)
  /\ d.type = "CONNECT" =>
       h \in Clients /\ d.from = h /\ peers[h][0] # NoPeer /\ d.conn = peers[h][0].conn

LEMMA SendableDatagram ==
  ASSUME IndInv, NEW h \in Hosts, NEW k \in Keys(h), NEW e \in Entry, EntryOK(h, e),
         NEW type \in Types, NEW seq \in Nat,
         h = Server => type # "CONNECT", h # Server => type # "VERIFY_CONNECT",
         type = "CONNECT" => peers[h][k] # NoPeer /\ e.conn = peers[h][k].conn
  PROVE  Sendable(h, Datagram(h, k, e, type, seq))
<1>1. bound \in Bounds
  BY DEF IndInv, Books
<1>2. type = "CONNECT" => h \in Clients /\ k = 0
  BY KeyFacts DEF Hosts
<1>3. /\ Datagram(h, k, e, type, seq) \in DatagramSet
      /\ HandshakeOK(Datagram(h, k, e, type, seq))
  BY <1>1, DatagramOK
<1>4. /\ Datagram(h, k, e, type, seq).type = type
      /\ Datagram(h, k, e, type, seq).from = h
      /\ type = "CONNECT" => Datagram(h, k, e, type, seq).conn = e.conn
  BY <1>1, DatagramTyped
<1> HIDE DEF Datagram
<1> QED BY <1>2, <1>3, <1>4 DEF Sendable

LEMMA SendableKnown ==
  ASSUME NEW h, NEW d, Sendable(h, d), d.type = "CONNECT"
  PROVE  Dialled(d.from, d.conn)
  BY DEF Sendable, Dialled

\* A step that rewrites an entry, or nothing, without connecting anybody, and
\* sends datagrams of that entry.
LEMMA RewriteStep ==
  ASSUME IndInv, NEW h \in Hosts, NEW k \in Keys(h), peers[h][k] # NoPeer,
         NEW f \in Entry, EntryOK(h, f), SetPeer(h, k, f),
         f.addr = peers[h][k].addr, f.conn = peers[h][k].conn,
         f.state \in {"Connecting", "Connected"} => f.state = peers[h][k].state,
         \A d \in net' : d \in net \/ Sendable(h, d), dups' \in 0 .. MaxDups,
         Served(h, k, f.state),
         UNCHANGED <<addr_map, accept_queue, handles, up, connects, bound, established>>
  PROVE  IndInv'
<1>1. Tables' /\ \A g \in Hosts : \A j \in Keys(g) :
        peers'[g][j] = IF g = h /\ j = k THEN f ELSE peers[g][j]
  BY KeepSlot, SetPeerIs DEF IndInv
<1>2. Books'
  BY DEF IndInv, Books, Handle, Conns, MaxDups, MaxConnects, Served
<1>3. ConnectedIsOwned'
  <2> SUFFICES ASSUME NEW j \in Keys(Server), peers'[Server][j] # NoPeer,
                      peers'[Server][j].state = "Connected",
                      NEW x, x = [key |-> j, conn |-> peers'[Server][j].conn]
               PROVE  Owned(x)' \/ x \in lost'
    BY DEF ConnectedIsOwned
  <2>1. /\ peers[Server][j] # NoPeer /\ peers[Server][j].state = "Connected"
        /\ peers'[Server][j].conn = peers[Server][j].conn
        /\ h = Server /\ j = k => f.state = "Connected"
    BY <1>1, KeyFacts
  <2>2. Owned(x) \/ x \in lost
    BY <2>1 DEF IndInv, ConnectedIsOwned
  <2>3. x.key = j
    OBVIOUS
  <2>4. x \in requests => x \in requests'
    BY <2>1, <2>3 DEF Served
  <2> QED BY <2>2, <2>4 DEF Owned, Served
<1>4. ClientsIdle'
  BY <1>1, KeyFacts DEF IndInv, ClientsIdle
<1>5. NetOK'
  BY DEF IndInv, NetOK, Sendable
<1>6. OneDialer'
  BY <1>1, SameAttempts, SendableKnown
<1> QED BY <1>1, <1>2, <1>3, <1>4, <1>5, <1>6 DEF IndInv

\* A step that frees a slot.
LEMMA RemoveStep ==
  ASSUME IndInv, NEW h \in Hosts, NEW k \in Keys(h), peers[h][k] # NoPeer,
         RemovePeer(h, k),
         \A d \in net' : d \in net \/ Sendable(h, d), dups' \in 0 .. MaxDups,
         UNCHANGED <<accept_queue, handles, up, connects, bound, dropVars, established>>
  PROVE  IndInv'
<1>1. Tables' /\ \A g \in Hosts : \A j \in Keys(g) :
        peers'[g][j] = IF g = h /\ j = k THEN NoPeer ELSE peers[g][j]
  BY FreeSlot DEF IndInv
<1>2. Books'
  BY DEF IndInv, Books, Handle, Conns, MaxDups, MaxConnects
<1>3. ConnectedIsOwned'
  BY <1>1, OwnedKept, KeyFacts DEF IndInv
<1>4. ClientsIdle'
  BY <1>1, KeyFacts, FreeIsNoEntry DEF IndInv, ClientsIdle
<1>5. NetOK'
  BY DEF IndInv, NetOK, Sendable
<1>6. OneDialer'
  BY <1>1, SameAttempts, SendableKnown
<1> QED BY <1>1, <1>2, <1>3, <1>4, <1>5, <1>6 DEF IndInv

\* A step that leaves the tables and the handles alone.
LEMMA QuietStep ==
  ASSUME IndInv, NEW h \in Hosts,
         \A d \in net' : d \in net \/ Sendable(h, d), dups' \in 0 .. MaxDups,
         UNCHANGED <<peers, addr_map, accept_queue, handles, up, connects, bound, dropVars, established>>
  PROVE  IndInv'
<1>1. Tables'
  BY DEF IndInv, Tables, AddrMapConsistent, SidesApart, EntryOK, ServerSide, ClientSide,
         Entry, Conns, MaxConnects, MaxAttempts
<1>2. Books'
  BY DEF IndInv, Books, Handle, Conns, MaxDups, MaxConnects
<1>3. ConnectedIsOwned' /\ ClientsIdle'
  BY DEF IndInv, ConnectedIsOwned, Owned, ClientsIdle
<1>4. NetOK'
  BY DEF IndInv, NetOK, Sendable
<1>5. OneDialer'
  BY SameAttempts, SendableKnown
<1> QED BY <1>1, <1>2, <1>3, <1>4, <1>5 DEF IndInv

----------------------------------------------------------------------------
(* service_one, the applications and the handlers.                          *)

LEMMA EntryAt ==
  ASSUME IndInv, NEW h \in Hosts, NEW k \in Keys(h), peers[h][k] # NoPeer
  PROVE  peers[h][k] \in Entry /\ EntryOK(h, peers[h][k])
  BY SlotTyped DEF IndInv, Tables, SidesApart

\* An entry that differs from another in its state and commands only is at the
\* same end, unless it goes back to handshaking.
LEMMA SameSide ==
  ASSUME NEW h, NEW e \in Entry, EntryOK(h, e), NEW f \in Entry,
         f.addr = e.addr, f.out_peer = e.out_peer,
         f.in_sess = e.in_sess, f.out_sess = e.out_sess,
         f.state = "Connecting" => e.state = "Connecting",
         f.state = "AcknowledgingConnect" => e.state = "AcknowledgingConnect",
         e.state = "Connecting" => f.state = "Connecting",
         \A r \in f.outstanding : r \in e.outstanding \/ r.type \in {"PING", "DISCONNECT"}
                                  \/ \E q \in e.outstanding : r.type = q.type
  PROVE  EntryOK(h, f)
  BY DEF EntryOK, ServerSide, ClientSide

LEMMA RetransmitStep ==
  ASSUME IndInv, NEW h \in Hosts, NEW k \in Keys(h), peers[h][k] # NoPeer, Retransmit(h, k)
  PROVE  IndInv'
<1> DEFINE e == peers[h][k]
<1>1. e \in Entry /\ EntryOK(h, e) /\ bound \in Bounds
  BY EntryAt DEF IndInv, Books
<1>2. PICK r \in e.outstanding :
        /\ r.attempts < MaxAttempts
        /\ SetPeer(h, k, [e EXCEPT !.outstanding =
             (@ \ {r}) \cup {Outstanding(r.type, r.seq, r.attempts + 1)}])
        /\ net' = net \cup {Datagram(h, k, e, r.type, r.seq)}
  BY DEF Retransmit
<1>3. /\ r \in Commands /\ r.type \in Types /\ r.seq \in Nat
      /\ r.attempts + 1 \in 1 .. MaxAttempts
      /\ e.outstanding \subseteq Commands
  BY <1>1, <1>2, BoundFacts DEF Entry, Commands
<1> DEFINE c == Outstanding(r.type, r.seq, r.attempts + 1)
           d == (e.outstanding \ {r}) \cup {c}
           f == [e EXCEPT !.outstanding = d]
<1>4. c \in Commands /\ c.type = r.type
  BY <1>3, CommandTyped
<1>5. SetPeer(h, k, f)
  BY <1>2
<1> HIDE DEF c, e
<1>6. d \in SUBSET Commands /\ \A q \in d : q \in e.outstanding \/ q.type = r.type
  BY <1>3, <1>4
<1> HIDE DEF d
<1>7. /\ f \in Entry /\ f.addr = e.addr /\ f.conn = e.conn /\ f.out_peer = e.out_peer
      /\ f.in_sess = e.in_sess /\ f.out_sess = e.out_sess /\ f.state = e.state
      /\ f.outstanding = d
  BY <1>1, <1>6 DEF Entry, Commands
<1> HIDE DEF f
<1>8. EntryOK(h, f)
  BY <1>1, <1>2, <1>6, <1>7, SameSide
<1>9. /\ h = Server => r.type # "CONNECT"
      /\ h # Server => r.type # "VERIFY_CONNECT"
  BY <1>1, <1>2 DEF EntryOK, ServerSide, ClientSide
<1>10. Sendable(h, Datagram(h, k, e, r.type, r.seq))
  BY <1>1, <1>3, <1>9, SendableDatagram DEF e
<1>11. \A x \in net' : x \in net \/ Sendable(h, x)
  BY <1>2, <1>10 DEF e
<1>12. /\ dups' \in 0 .. MaxDups
       /\ UNCHANGED <<addr_map, accept_queue, handles, up, connects, bound, dropVars, established>>
  BY DEF Retransmit, IndInv, Books
<1> QED BY <1>5, <1>7, <1>8, <1>11, <1>12, RewriteStep, ServedNone DEF e

LEMMA TimeoutStep ==
  ASSUME IndInv, NEW h \in Hosts, NEW k \in Keys(h), peers[h][k] # NoPeer, Timeout(h, k)
  PROVE  IndInv'
<1>1. dups' \in 0 .. MaxDups
  BY DEF Timeout, IndInv, Books
<1> QED BY <1>1, RemoveStep DEF Timeout

\* A step that adds a command to an entry and sends it.
LEMMA AddStep ==
  ASSUME IndInv, NEW h \in Hosts, NEW k \in Keys(h), peers[h][k] # NoPeer,
         peers[h][k].state # "Connecting",
         NEW type \in {"PING", "DISCONNECT"}, NEW s \in States,
         s \in {"Connecting", "AcknowledgingConnect", "Connected"} => s = peers[h][k].state,
         NEW f, f = Added(peers[h][k], type, s),
         SetPeer(h, k, f), net' = net \cup {Datagram(h, k, f, type, f.seq)},
         Served(h, k, s),
         UNCHANGED <<addr_map, accept_queue, handles, up, dups, connects, bound, established>>
  PROVE  IndInv'
<1> DEFINE e == peers[h][k]
<1>1. e \in Entry /\ EntryOK(h, e) /\ bound \in Bounds /\ dups' \in 0 .. MaxDups
  BY EntryAt DEF IndInv, Books
<1>2. type \in Types
  BY DEF Types
<1> HIDE DEF e
<1>3. /\ f \in Entry /\ f.state = s /\ f.seq \in Nat
      /\ f.addr = e.addr /\ f.conn = e.conn /\ f.out_peer = e.out_peer
      /\ f.in_sess = e.in_sess /\ f.out_sess = e.out_sess
      /\ \A r \in f.outstanding : r \in e.outstanding \/ r.type = type
  BY <1>1, <1>2, AddReliableFacts DEF e
<1>4. EntryOK(h, f)
  <2>1. /\ f.state = "Connecting" => e.state = "Connecting"
        /\ f.state = "AcknowledgingConnect" => e.state = "AcknowledgingConnect"
        /\ e.state # "Connecting"
    BY <1>3 DEF e
  <2>2. \A r \in f.outstanding : r \in e.outstanding \/ r.type \in {"PING", "DISCONNECT"}
    BY <1>3
  <2> QED BY <1>1, <1>3, <2>1, <2>2, SameSide
<1>5. Sendable(h, Datagram(h, k, f, type, f.seq))
  BY <1>2, <1>3, <1>4, SendableDatagram
<1>6. \A x \in net' : x \in net \/ Sendable(h, x)
  BY <1>5
<1> QED BY <1>1, <1>3, <1>4, <1>6, RewriteStep DEF e

LEMMA StateKept ==
  ASSUME bound \in Bounds, NEW e \in Entry, NEW type \in Types
  PROVE  AddReliable(e, type) = Added(e, type, e.state)
<1> DEFINE f == AddReliable(e, type)
           c == Outstanding(type, e.seq + 1, 1)
           d == e.outstanding \cup {c}
<1>1. f = [e EXCEPT !.seq = e.seq + 1, !.outstanding = d]
  BY DEF AddReliable
<1> HIDE DEF d
<1>2. f \in Entry /\ f.state = e.state
  <2>1. d \in SUBSET Commands /\ e.seq + 1 \in Nat
    <3>1. MaxAttempts \in Nat \ {0} /\ e.seq + 1 \in Nat /\ e.outstanding \subseteq Commands
      BY BoundFacts DEF Entry, Commands
    <3>2. c \in Commands
      BY <3>1, CommandTyped
    <3> QED BY <3>1, <3>2 DEF d
  <2> QED BY <1>1, <2>1 DEF Entry, Commands
<1> HIDE DEF f
<1>3. f = [f EXCEPT !.state = e.state]
  BY <1>2 DEF Entry
<1> QED BY <1>3 DEF f, Added

LEMMA PingStep ==
  ASSUME IndInv, NEW h \in Hosts, NEW k \in Keys(h), peers[h][k] # NoPeer, Ping(h, k)
  PROVE  IndInv'
<1> DEFINE f == AddReliable(peers[h][k], "PING")
<1>1. /\ peers[h][k] \in Entry /\ bound \in Bounds /\ "PING" \in Types
      /\ "Connected" \in States
  BY EntryAt DEF IndInv, Books, Types, States
<1>2. peers[h][k].state = "Connected" /\ SetPeer(h, k, f)
      /\ net' = net \cup {Datagram(h, k, f, "PING", f.seq)}
  BY DEF Ping
<1>3. f = Added(peers[h][k], "PING", "Connected")
  BY <1>1, <1>2, StateKept
<1>4. UNCHANGED <<addr_map, accept_queue, handles, up, dups, connects, bound, dropVars, established>>
  BY DEF Ping
<1> HIDE DEF f
<1> QED BY <1>1, <1>2, <1>3, <1>4, AddStep, ServedNone

LEMMA DisconnectNowStep ==
  ASSUME IndInv, NEW h \in Hosts, NEW k \in Keys(h), peers[h][k] # NoPeer,
         DisconnectNow(h, k)
  PROVE  IndInv'
<1> DEFINE f == [AddReliable(peers[h][k], "DISCONNECT") EXCEPT !.state = "Disconnecting"]
<1>1. "Disconnecting" \in States
  BY DEF States
<1>2. peers[h][k].state = "DisconnectLater" /\ SetPeer(h, k, f)
      /\ net' = net \cup {Datagram(h, k, f, "DISCONNECT", f.seq)}
      /\ UNCHANGED <<addr_map, accept_queue, handles, up, dups, connects, bound, dropVars, established>>
  BY DEF DisconnectNow
<1> HIDE DEF f
<1>3. f = Added(peers[h][k], "DISCONNECT", "Disconnecting")
  BY DEF f, Added
<1> QED BY <1>1, <1>2, <1>3, AddStep, ServedNone

\* A Peer leads to a slot that has left the handshake of begin_connect.
LEMMA HandleFacts ==
  ASSUME IndInv, NEW h \in Hosts, NEW hd \in handles[h]
  PROVE  /\ hd.key \in Keys(h)
         /\ peers[h][hd.key] # NoPeer => peers[h][hd.key].state # "Connecting"
<1>1. hd \in Handle(h)
  BY DEF IndInv, Books
<1>2. hd.key \in Keys(h)
  BY <1>1 DEF Handle
<1>3. CASE h = Server
  BY <1>2, <1>3, EntryAt DEF EntryOK, ServerSide
<1>4. CASE h # Server
  BY <1>2, <1>4, KeyFacts DEF IndInv, ClientsIdle, Hosts
<1> QED BY <1>2, <1>3, <1>4

\* send_disconnect through a Peer or by the request of a dropped one.
LEMMA DisconnectStep ==
  ASSUME IndInv, NEW h \in Hosts, NEW k \in Keys(h), SendDisconnect(h, k),
         peers[h][k].state # "Connecting",
         \A t \in {"DisconnectLater", "Disconnecting"} : Served(h, k, t),
         UNCHANGED <<addr_map, accept_queue, handles, up, dups, connects, bound, established>>
  PROVE  IndInv'
<1> DEFINE e == peers[h][k]
           f == [AddReliable(e, "DISCONNECT") EXCEPT !.state = "Disconnecting"]
           g == [e EXCEPT !.state = "DisconnectLater"]
<1>1. e # NoPeer /\ e.state # "Connecting"
  BY DEF SendDisconnect, Closable
<1>2. e \in Entry /\ EntryOK(h, e) /\ dups' \in 0 .. MaxDups
  BY <1>1, EntryAt DEF IndInv, Books
<1>4. \/ SetPeer(h, k, g) /\ net' = net
      \/ SetPeer(h, k, f) /\ net' = net \cup {Datagram(h, k, f, "DISCONNECT", f.seq)}
  BY DEF SendDisconnect
<1>5. "Disconnecting" \in States /\ "DisconnectLater" \in States
  BY DEF States
<1>6. f = Added(peers[h][k], "DISCONNECT", "Disconnecting")
  BY DEF Added
<1> HIDE DEF f
<1>7. CASE SetPeer(h, k, f) /\ net' = net \cup {Datagram(h, k, f, "DISCONNECT", f.seq)}
  BY <1>1, <1>5, <1>6, <1>7, AddStep
<1>8. CASE SetPeer(h, k, g) /\ net' = net
  <2> HIDE DEF e
  <2>1. /\ g \in Entry /\ g.addr = e.addr /\ g.conn = e.conn /\ g.out_peer = e.out_peer
        /\ g.in_sess = e.in_sess /\ g.out_sess = e.out_sess
        /\ g.outstanding = e.outstanding /\ g.state = "DisconnectLater"
    BY <1>2, <1>5 DEF Entry
  <2> HIDE DEF g
  <2>2. EntryOK(h, g)
    BY <1>1, <1>2, <2>1, SameSide
  <2> QED BY <1>1, <1>2, <1>8, <2>1, <2>2, RewriteStep DEF e
<1> QED BY <1>4, <1>7, <1>8

LEMMA UserDisconnectStep ==
  ASSUME IndInv, NEW h \in Hosts, NEW hd \in handles[h], UserDisconnect(h, hd)
  PROVE  IndInv'
<1>1. hd.key \in Keys(h) /\ peers[h][hd.key].state # "Connecting"
  BY HandleFacts DEF UserDisconnect, SendDisconnect, Closable
<1> QED BY <1>1, DisconnectStep, ServedNone DEF UserDisconnect

LEMMA ServerDropStep ==
  ASSUME IndInv, NEW hd \in handles[Server], ServerDrop(hd)
  PROVE  IndInv'
<1>1. Tables'
  BY DEF ServerDrop, IndInv, Tables, AddrMapConsistent, SidesApart, EntryOK, ServerSide,
         ClientSide, Entry, Conns, MaxConnects, MaxAttempts
<1>2. /\ DOMAIN handles' = Hosts
      /\ \A h \in Hosts : handles'[h] = IF h = Server THEN handles[h] \ {hd} ELSE handles[h]
      /\ handles' \in [Hosts -> SUBSET [key : AnyKey, conn : Conns]]
  BY KeyFacts DEF ServerDrop, IndInv, Books
<1>3. Books'
  BY <1>2 DEF ServerDrop, IndInv, Books, Handle, Conns, MaxDups, MaxConnects
<1>4. ConnectedIsOwned'
  <2>1. /\ peers' = peers /\ accept_queue' = accept_queue
        /\ requests \subseteq requests' /\ lost \subseteq lost'
        /\ hd \in requests' \/ hd \in lost'
    BY DEF ServerDrop
  <2>2. handles'[Server] = handles[Server] \ {hd}
    BY <1>2, KeyFacts
  <2> SUFFICES ASSUME NEW j \in Keys(Server), peers[Server][j] # NoPeer,
                      peers[Server][j].state = "Connected",
                      NEW x, x = [key |-> j, conn |-> peers[Server][j].conn]
               PROVE  Owned(x)' \/ x \in lost'
    BY <2>1 DEF ConnectedIsOwned
  <2>3. Owned(x) \/ x \in lost
    BY DEF IndInv, ConnectedIsOwned
  <2> QED BY <2>1, <2>2, <2>3 DEF Owned
<1>5. ClientsIdle'
  BY <1>2, KeyFacts DEF ServerDrop, IndInv, ClientsIdle
<1>6. NetOK'
  BY DEF ServerDrop, IndInv, NetOK
<1>7. OneDialer'
  BY SameAttempts DEF ServerDrop
<1> QED BY <1>1, <1>3, <1>4, <1>5, <1>6, <1>7 DEF IndInv

\* Once its request has been taken, the slot of a dropped Peer is not Connected.
LEMMA TakeRequestStep ==
  ASSUME IndInv, NEW hd \in requests, TakeRequest(hd)
  PROVE  IndInv'
<1> DEFINE k == hd.key
<1>1. hd \in Handle(Server) /\ k \in Keys(Server) /\ Server \in Hosts
  BY KeyFacts DEF IndInv, Books, Handle
<1>2. /\ requests' = requests \ {hd}
      /\ UNCHANGED <<addr_map, accept_queue, handles, lost, up, dups, connects, bound,
                     established>>
  BY DEF TakeRequest
<1>3. CASE SendDisconnect(Server, k)
  <2>1. peers[Server][k].state # "Connecting"
    BY <1>1, <1>3, EntryAt DEF SendDisconnect, Closable, EntryOK, ServerSide
  <2>2. \A t \in {"DisconnectLater", "Disconnecting"} : Served(Server, k, t)
    BY <1>2 DEF Served
  <2> HIDE DEF k
  <2> QED BY <1>1, <1>2, <1>3, <2>1, <2>2, DisconnectStep
<1>4. CASE ~Closable(peers[Server][k]) /\ UNCHANGED <<peers, net>>
  <2>1. Tables'
    BY <1>2, <1>4 DEF IndInv, Tables, AddrMapConsistent, SidesApart, EntryOK, ServerSide,
           ClientSide, Entry, Conns, MaxConnects, MaxAttempts
  <2>2. Books'
    BY <1>2 DEF IndInv, Books, Handle, Conns, MaxDups, MaxConnects
  <2>3. ConnectedIsOwned'
    <3> SUFFICES ASSUME NEW j \in Keys(Server), peers[Server][j] # NoPeer,
                        peers[Server][j].state = "Connected",
                        NEW x, x = [key |-> j, conn |-> peers[Server][j].conn]
                 PROVE  Owned(x)' \/ x \in lost'
      BY <1>4 DEF ConnectedIsOwned
    <3>1. j # k
      BY <1>4 DEF Closable
    <3>2. x.key = j
      OBVIOUS
    <3>3. x # hd
      BY <3>1, <3>2
    <3>4. Owned(x) \/ x \in lost
      BY DEF IndInv, ConnectedIsOwned
    <3> QED BY <1>2, <3>3, <3>4 DEF Owned
  <2>4. ClientsIdle'
    BY <1>2, <1>4 DEF IndInv, ClientsIdle
  <2>5. NetOK'
    BY <1>4 DEF IndInv, NetOK
  <2>6. OneDialer'
    BY <1>2, <1>4, SameAttempts
  <2> QED BY <2>1, <2>2, <2>3, <2>4, <2>5, <2>6 DEF IndInv
<1> QED BY <1>3, <1>4 DEF TakeRequest

LEMMA AcceptStep ==
  ASSUME IndInv, Accept
  PROVE  IndInv'
<1> DEFINE hd == Head(accept_queue)
<1>1. Tables'
  BY DEF Accept, IndInv, Tables, AddrMapConsistent, SidesApart, EntryOK, ServerSide,
         ClientSide, Entry, Conns, MaxConnects, MaxAttempts
<1>2. /\ accept_queue \in Seq(Handle(Server)) /\ accept_queue # <<>>
      /\ accept_queue' = Tail(accept_queue)
  BY DEF Accept, IndInv, Books
<1>3. /\ hd \in Handle(Server) /\ accept_queue' \in Seq(Handle(Server))
      /\ Len(accept_queue) \in Nat /\ Len(accept_queue') = Len(accept_queue) - 1
      /\ \A i \in 1 .. Len(accept_queue') : accept_queue'[i] = accept_queue[i + 1]
      /\ hd = accept_queue[1]
  BY <1>2, HeadTailProperties
<1>4. Handle(Server)' = Handle(Server) /\ \A h \in Hosts : Handle(h)' = Handle(h)
  BY DEF Accept, Handle, Conns, MaxConnects
<1>5. /\ DOMAIN handles' = Hosts
      /\ \A h \in Hosts : handles'[h] = IF h = Server THEN handles[h] \cup {hd} ELSE handles[h]
  BY KeyFacts DEF Accept, IndInv, Books
<1> HIDE DEF hd
<1>6. Handle(Server) = [key : AnyKey, conn : Conns]
  <2>1. Keys(Server) = AnyKey
    BY KeyFacts
  <2> QED BY <2>1 DEF Handle
<1>7. Books'
  <2>1. /\ handles' \in [Hosts -> SUBSET [key : AnyKey, conn : Conns]]
        /\ \A h \in Hosts : handles'[h] \subseteq Handle(h)
    <3>1. handles' = [h \in Hosts |-> IF h = Server THEN handles[h] \cup {hd} ELSE handles[h]]
      BY KeyFacts DEF Accept, IndInv, Books, hd
    <3>2. /\ handles \in [Hosts -> SUBSET Handle(Server)]
          /\ \A h \in Hosts : handles[h] \subseteq Handle(h)
      BY <1>6 DEF IndInv, Books
    <3> QED BY <1>3, <1>6, <3>1, <3>2
  <2>2. accept_queue' \in Seq(Handle(Server)') /\ Len(accept_queue') <= AcceptCap
    BY <1>3, <1>4, HostAssumption DEF IndInv, Books
  <2>3. UNCHANGED <<bound, dropVars, up, dups, connects, established>>
    BY DEF Accept
  <2>4. Conns' = Conns /\ MaxDups' = MaxDups
    BY <2>3 DEF Conns, MaxConnects, MaxDups
  <2> QED BY <1>4, <2>1, <2>2, <2>3, <2>4 DEF IndInv, Books
<1>8. ConnectedIsOwned'
  <2> SUFFICES ASSUME NEW k \in Keys(Server), peers[Server][k] # NoPeer,
                      peers[Server][k].state = "Connected",
                      NEW x, x = [key |-> k, conn |-> peers[Server][k].conn]
               PROVE  \/ x \in handles'[Server] \cup requests \cup lost
                      \/ \E i \in 1 .. Len(accept_queue') : accept_queue'[i] = x
    BY DEF Accept, ConnectedIsOwned, Owned
  <2>1. \/ x \in handles[Server] \cup requests \cup lost
        \/ \E i \in 1 .. Len(accept_queue) : accept_queue[i] = x
    BY DEF IndInv, ConnectedIsOwned, Owned
  <2>2. ASSUME NEW i \in 1 .. Len(accept_queue), accept_queue[i] = x, i # 1
        PROVE  \E j \in 1 .. Len(accept_queue') : accept_queue'[j] = x
    <3>1. i - 1 \in 1 .. Len(accept_queue') /\ (i - 1) + 1 = i
      BY <1>3, <2>2
    <3>2. accept_queue'[i - 1] = accept_queue[(i - 1) + 1]
      BY <1>3, <3>1
    <3>3. accept_queue'[i - 1] = x
      BY <2>2, <3>1, <3>2
    <3> QED BY <3>1, <3>3
  <2> QED BY <1>3, <1>5, <2>1, <2>2, KeyFacts
<1>9. ClientsIdle'
  BY <1>5, KeyFacts DEF Accept, IndInv, ClientsIdle
<1>10. NetOK'
  BY DEF Accept, IndInv, NetOK
<1>11. OneDialer'
  BY SameAttempts DEF Accept
<1> QED BY <1>1, <1>7, <1>8, <1>9, <1>10, <1>11 DEF IndInv

\* begin_connect and on_connect make well-formed entries.
LEMMA NewEntryTyped ==
  ASSUME bound \in Bounds, NEW addr \in Hosts, NEW state \in States,
         NEW out_peer \in {Unassigned} \cup AnyKey, NEW conn \in Conns,
         NEW in \in {1, 2, NoSession}, NEW out \in {1, 2, NoSession}, NEW type \in Types,
         NEW e, e = NewEntry(addr, state, out_peer, conn, in, out, type)
  PROVE  /\ e \in Entry /\ e.addr = addr /\ e.state = state /\ e.out_peer = out_peer
         /\ e.conn = conn /\ e.in_sess = in /\ e.out_sess = out
         /\ \A r \in e.outstanding : r.type = type
<1> DEFINE c == Outstanding(type, 1, 1)
           d == {c}
<1>1. c \in Commands /\ c.type = type
  BY BoundFacts, CommandTyped
<1>2. e = [addr |-> addr, state |-> state, out_peer |-> out_peer, conn |-> conn,
           in_sess |-> in, out_sess |-> out, seq |-> 1, connect_seq |-> 1,
           outstanding |-> d]
  BY DEF NewEntry
<1> HIDE DEF c
<1>3. d \in SUBSET Commands /\ \A r \in d : r.type = type
  BY <1>1
<1> HIDE DEF d
<1> QED BY <1>2, <1>3 DEF Entry, Commands

LEMMA ConnectStep ==
  ASSUME IndInv, NEW h \in Clients, Connect(h)
  PROVE  IndInv'
<1> DEFINE e == NewEntry(Server, "Connecting", Unassigned, connects + 1,
                         NoSession, NoSession, "CONNECT")
           m == Datagram(h, 0, e, "CONNECT", 1)
<1>1. /\ h \in Hosts /\ h # Server /\ Keys(h) = {0} /\ 0 \in Keys(h) /\ Server \in Hosts
      /\ bound \in Bounds /\ bound' = bound
      /\ connects \in Nat /\ connects + 1 \in Conns /\ connects' = connects + 1
  BY KeyFacts, BoundFacts DEF IndInv, Books, Connect, Conns
<1>2. /\ SetPeer(h, 0, e) /\ addr_map' = [addr_map EXCEPT ![h][Server] = 0]
      /\ net' = net \cup {m}
  BY DEF Connect
<1>3. /\ e \in Entry /\ e.addr = Server /\ e.state = "Connecting"
      /\ e.conn = connects + 1 /\ \A r \in e.outstanding : r.type = "CONNECT"
  <2>1. "Connecting" \in States /\ "CONNECT" \in Types
    BY DEF States, Types
  <2> HIDE DEF e
  <2>2. e = NewEntry(Server, "Connecting", Unassigned, connects + 1,
                     NoSession, NoSession, "CONNECT")
    BY DEF e
  <2> QED BY <1>1, <2>1, <2>2, NewEntryTyped
<1> HIDE DEF e
<1>4. EntryOK(h, e)
  BY <1>1, <1>3 DEF EntryOK, ClientSide
<1>5. /\ m \in DatagramSet /\ HandshakeOK(m) /\ m.from = h
      /\ m.type = "CONNECT" /\ m.conn = connects + 1
  BY <1>1, <1>3, <1>4, DatagramOK, DatagramTyped DEF Types
<1> HIDE DEF m
<1>6. peers[h][0] = NoPeer /\ handles[h] = {} /\ Tables
  BY DEF Connect, IndInv, ClientsIdle
<1>7. /\ DOMAIN peers' = Hosts
      /\ \A g \in Hosts : peers'[g] \in [Keys(g) -> {NoPeer} \cup Entry']
      /\ \A g \in Hosts : \A j \in Keys(g) :
           peers'[g][j] = IF g = h /\ j = 0 THEN e ELSE peers[g][j]
  BY <1>1, <1>2, <1>3, <1>6, SetPeerIs
<1>8. /\ addr_map' \in [Hosts -> [Hosts -> {Unassigned} \cup AnyKey]]
      /\ \A g, b \in Hosts : addr_map'[g][b] = IF g = h /\ b = Server THEN 0
                                               ELSE addr_map[g][b]
  BY <1>1, <1>2, <1>6, KeyFacts DEF Tables
<1>9. e # NoPeer
  BY <1>3, FreeIsNoEntry
<1>10. \A b \in Hosts : addr_map[h][b] = Unassigned
  BY <1>1, <1>6 DEF Tables, AddrMapConsistent
<1>11. AddrMapConsistent'
  <2>1. ASSUME NEW g \in Hosts, g # h
        PROVE  /\ \A b \in Hosts : addr_map'[g][b] # Unassigned =>
                    /\ addr_map'[g][b] \in Keys(g)
                    /\ peers'[g][addr_map'[g][b]] # NoPeer
                    /\ peers'[g][addr_map'[g][b]].addr = b
               /\ \A j \in Keys(g) : peers'[g][j] # NoPeer =>
                    addr_map'[g][peers'[g][j].addr] = j
    <3>1. /\ \A b \in Hosts : addr_map'[g][b] = addr_map[g][b]
          /\ \A j \in Keys(g) : peers'[g][j] = peers[g][j]
      BY <1>7, <1>8, <2>1
    <3>2. \A j \in Keys(g) : peers[g][j] # NoPeer => peers[g][j].addr \in Hosts
      BY <1>6 DEF Tables, Entry
    <3> QED BY <1>6, <3>1, <3>2 DEF Tables, AddrMapConsistent
  <2>2. /\ \A b \in Hosts : addr_map'[h][b] # Unassigned =>
             /\ addr_map'[h][b] \in Keys(h)
             /\ peers'[h][addr_map'[h][b]] # NoPeer
             /\ peers'[h][addr_map'[h][b]].addr = b
        /\ \A j \in Keys(h) : peers'[h][j] # NoPeer => addr_map'[h][peers'[h][j].addr] = j
    BY <1>1, <1>3, <1>7, <1>8, <1>9, <1>10
  <2> QED BY <2>1, <2>2 DEF AddrMapConsistent
<1>12. SidesApart'
  BY <1>4, <1>6, <1>7 DEF Tables, SidesApart, EntryOK, ServerSide, ClientSide
<1>13. Tables'
  BY <1>7, <1>8, <1>11, <1>12 DEF Tables
<1>14. Books'
  BY <1>1 DEF Connect, IndInv, Books, Handle, Conns, MaxDups, MaxConnects
<1>15. ConnectedIsOwned'
  BY <1>1, <1>7, OwnedKept, KeyFacts DEF Connect, IndInv
<1>16. ClientsIdle'
  BY <1>6, <1>7, KeyFacts DEF Connect, IndInv, ClientsIdle
<1>17. NetOK'
  BY <1>2, <1>5 DEF IndInv, NetOK
<1>18. OneDialer'
  <2>1. ASSUME NEW c \in Clients, NEW n \in Nat, Dialled(c, n)'
        PROVE  Dialled(c, n) \/ (c = h /\ n = connects + 1)
    <3>1. CASE \E d \in net' : d.type = "CONNECT" /\ d.from = c /\ d.conn = n
      BY <1>2, <1>5, <3>1 DEF Dialled
    <3>2. CASE peers'[c][0] # NoPeer /\ peers'[c][0].conn = n
      BY <1>3, <1>7, <3>2, KeyFacts DEF Dialled
    <3>3. CASE \E k \in Keys(Server) : /\ peers'[Server][k] # NoPeer
                                       /\ peers'[Server][k].addr = c
                                       /\ peers'[Server][k].conn = n
      BY <1>1, <1>7, <3>3, KeyFacts DEF Dialled
    <3> QED BY <2>1, <3>1, <3>2, <3>3 DEF Dialled
  <2>2. \A c \in Clients : \A n \in Nat : Dialled(c, n) => n <= connects
    BY DEF IndInv, OneDialer
  <2>4. SUFFICES ASSUME NEW c \in Clients, NEW n \in Nat, Dialled(c, n)'
                 PROVE  n <= connects + 1 /\ \A b \in Clients : Dialled(b, n)' => b = c
    BY <1>1 DEF OneDialer
  <2>5. CASE n = connects + 1
    BY <1>1, <2>1, <2>2, <2>4, <2>5
  <2>6. CASE n # connects + 1
    <3>1. Dialled(c, n) /\ n <= connects
      BY <2>1, <2>2, <2>4, <2>6
    <3>2. \A b \in Clients : Dialled(b, n)' => b = c
      BY <2>1, <2>6, <3>1 DEF IndInv, OneDialer
    <3> QED BY <1>1, <3>1, <3>2
  <2> QED BY <2>5, <2>6
<1> QED BY <1>13, <1>14, <1>15, <1>16, <1>17, <1>18 DEF IndInv

LEMMA ClientStopsStep ==
  ASSUME IndInv, NEW h \in Clients, ClientStops(h)
  PROVE  IndInv'
<1> DEFINE e == peers[h][0]
           m == Datagram(h, 0, e, "DISCONNECT", e.seq + 1)
<1>1. /\ h \in Hosts /\ h # Server /\ Keys(h) = {0} /\ 0 \in Keys(h) /\ Server \in Hosts
      /\ Tables /\ bound' = bound /\ bound \in Bounds
  BY KeyFacts DEF IndInv, Books, ClientStops
<1>2. /\ DOMAIN peers' = Hosts
      /\ \A g \in Hosts : peers'[g] \in [Keys(g) -> {NoPeer} \cup Entry']
      /\ \A g \in Hosts : \A j \in Keys(g) :
           peers'[g][j] = IF g = h /\ j = 0 THEN NoPeer ELSE peers[g][j]
  BY <1>1, SetPeerIs, ZenonT(40) DEF ClientStops, SetPeer
<1>3. /\ addr_map' \in [Hosts -> [Hosts -> {Unassigned} \cup AnyKey]]
      /\ \A g, b \in Hosts : addr_map'[g][b] = IF g = h /\ b = Server THEN Unassigned
                                               ELSE addr_map[g][b]
  BY <1>1 DEF ClientStops, Tables
<1>4. \A b \in Hosts : addr_map[h][b] # Unassigned => b = Server
  BY <1>1 DEF Tables, AddrMapConsistent, SidesApart, EntryOK, ClientSide
<1>5. AddrMapConsistent'
  <2>1. ASSUME NEW g \in Hosts, g # h
        PROVE  /\ \A b \in Hosts : addr_map'[g][b] # Unassigned =>
                    /\ addr_map'[g][b] \in Keys(g)
                    /\ peers'[g][addr_map'[g][b]] # NoPeer
                    /\ peers'[g][addr_map'[g][b]].addr = b
               /\ \A j \in Keys(g) : peers'[g][j] # NoPeer =>
                    addr_map'[g][peers'[g][j].addr] = j
    <3>1. /\ \A b \in Hosts : addr_map'[g][b] = addr_map[g][b]
          /\ \A j \in Keys(g) : peers'[g][j] = peers[g][j]
      BY <1>2, <1>3, <2>1
    <3>2. \A j \in Keys(g) : peers[g][j] # NoPeer => peers[g][j].addr \in Hosts
      BY <1>1 DEF Tables, Entry
    <3> QED BY <1>1, <3>1, <3>2 DEF Tables, AddrMapConsistent
  <2>2. /\ \A b \in Hosts : addr_map'[h][b] = Unassigned
        /\ \A j \in Keys(h) : peers'[h][j] = NoPeer
    BY <1>1, <1>2, <1>3, <1>4
  <2> QED BY <2>1, <2>2 DEF AddrMapConsistent
<1>6. SidesApart'
  BY <1>1, <1>2 DEF Tables, SidesApart, EntryOK, ServerSide, ClientSide
<1>7. Tables'
  BY <1>2, <1>3, <1>5, <1>6 DEF Tables
<1>8. /\ handles' \in [Hosts -> SUBSET [key : AnyKey, conn : Conns]]
      /\ \A g \in Hosts : handles'[g] = IF g = h THEN {} ELSE handles[g]
  BY <1>1 DEF ClientStops, IndInv, Books
<1>9. Books'
  BY <1>1, <1>8 DEF ClientStops, IndInv, Books, Handle, Conns, MaxDups, MaxConnects
<1>10. ConnectedIsOwned'
  BY <1>1, <1>2, <1>8, KeyFacts DEF ClientStops, IndInv, ConnectedIsOwned, Owned
<1>11. ClientsIdle'
  BY <1>2, <1>8, KeyFacts, FreeIsNoEntry DEF ClientStops, IndInv, ClientsIdle
<1>12. \A x \in net' : x \in net \/ Sendable(h, x)
  <2>1. CASE net' = net
    BY <2>1
  <2>2. CASE Closable(e) /\ net' = net \cup {m}
    <3>1. e \in Entry /\ EntryOK(h, e) /\ e.seq + 1 \in Nat /\ "DISCONNECT" \in Types
      BY <1>1, <2>2, EntryAt DEF Closable, Entry, Types
    <3>2. Sendable(h, m)
      BY <1>1, <3>1, SendableDatagram
    <3> QED BY <2>2, <3>2
  <2> QED BY <2>1, <2>2 DEF ClientStops
<1>13. NetOK'
  BY <1>12 DEF IndInv, NetOK, Sendable
<1>14. OneDialer'
  BY <1>2, <1>12, SameAttempts, SendableKnown DEF ClientStops
<1> QED BY <1>7, <1>9, <1>10, <1>11, <1>13, <1>14 DEF IndInv

\* What is known of a datagram that arrives, and of the replies to it.
LEMMA ArrivalFacts ==
  ASSUME IndInv, NEW d \in net
  PROVE  /\ d \in DatagramSet /\ HandshakeOK(d) /\ d.to \in Hosts /\ d.from \in Hosts
         /\ d.seq \in Nat /\ d.type \in Types
         /\ Known(d) => KeyOf(d) \in Keys(d.to) /\ peers[d.to][KeyOf(d)] # NoPeer
<1>1. d \in DatagramSet /\ HandshakeOK(d)
  BY DEF IndInv, NetOK
<1>2. d.to \in Hosts /\ d.from \in Hosts /\ d.seq \in Nat /\ d.type \in Types
  BY <1>1 DEF DatagramSet
<1> QED BY <1>1, <1>2 DEF Known, KeyOf, IndInv, Tables, AddrMapConsistent

LEMMA ExchangeFacts ==
  ASSUME IndInv, NEW d \in net, NEW replies, Exchange(d, replies)
  PROVE  /\ \A x \in net' : x \in net \/ x \in replies
         /\ dups' \in 0 .. MaxDups
         /\ d.to = Server \/ d.to \in up
<1>1. dups \in 0 .. MaxDups /\ MaxDups \in Nat
  BY BoundFacts DEF IndInv, Books
<1>2. dups' \in 0 .. MaxDups
  BY <1>1 DEF Exchange
<1> QED BY <1>2 DEF Exchange

\* The acknowledgement of a datagram may be sent.
LEMMA AckSendable ==
  ASSUME IndInv, NEW d \in net, Known(d), NEW e \in Entry, EntryOK(d.to, e)
  PROVE  Sendable(d.to, AckOf(d, e))
  BY ArrivalFacts, SendableDatagram DEF AckOf, Types

LEMMA OnPingStep ==
  ASSUME IndInv, NEW d \in net, OnPing(d)
  PROVE  IndInv'
<1> DEFINE e == peers[d.to][KeyOf(d)]
<1>1. Known(d) /\ e \in Entry /\ EntryOK(d.to, e) /\ d.to \in Hosts
  BY ArrivalFacts, EntryAt DEF OnPing
<1>2. Sendable(d.to, AckOf(d, e))
  BY <1>1, AckSendable
<1>3. Exchange(d, {AckOf(d, e)})
  BY DEF OnPing
<1> HIDE DEF e
<1>4. \A x \in net' : x \in net \/ Sendable(d.to, x)
  BY <1>2, <1>3, ExchangeFacts
<1>5. dups' \in 0 .. MaxDups
  BY <1>3, ExchangeFacts
<1> QED BY <1>1, <1>4, <1>5, QuietStep DEF OnPing

LEMMA OnDisconnectStep ==
  ASSUME IndInv, NEW d \in net, OnDisconnect(d)
  PROVE  IndInv'
<1> DEFINE h == d.to
           k == KeyOf(d)
           e == peers[h][k]
<1>1. /\ Known(d) /\ h \in Hosts /\ k \in Keys(h) /\ e # NoPeer
      /\ e \in Entry /\ EntryOK(h, e)
  BY ArrivalFacts, EntryAt DEF OnDisconnect
<1>2. UNCHANGED <<accept_queue, handles, up, connects, bound, dropVars, established>>
  BY DEF OnDisconnect
<1>3. \/ Exchange(d, {}) /\ UNCHANGED <<peers, addr_map, events>>
      \/ /\ Exchange(d, IF d.reliable THEN {AckOf(d, e)} ELSE {})
         /\ RemovePeer(h, k)
  BY DEF OnDisconnect
<1>4. Sendable(h, AckOf(d, e))
  BY <1>1, AckSendable
<1> HIDE DEF e, k, h
<1>5. CASE Exchange(d, {}) /\ UNCHANGED <<peers, addr_map, events>>
  <2>1. dups' \in 0 .. MaxDups /\ \A x \in net' : x \in net
    BY <1>5, ExchangeFacts
  <2> QED BY <1>1, <1>2, <1>5, <2>1, QuietStep
<1>6. CASE Exchange(d, IF d.reliable THEN {AckOf(d, e)} ELSE {}) /\ RemovePeer(h, k)
  <2> DEFINE replies == IF d.reliable THEN {AckOf(d, e)} ELSE {}
  <2>1. Exchange(d, replies) /\ \A x \in replies : Sendable(h, x)
    BY <1>4, <1>6
  <2> HIDE DEF replies
  <2>2. dups' \in 0 .. MaxDups /\ \A x \in net' : x \in net \/ Sendable(h, x)
    BY <2>1, ExchangeFacts
  <2> QED BY <1>1, <1>2, <1>6, <2>2, RemoveStep DEF e
<1> QED BY <1>3, <1>5, <1>6

LEMMA OnAckStep ==
  ASSUME IndInv, NEW d \in net, OnAck(d)
  PROVE  IndInv'
<1> DEFINE h == d.to
           k == KeyOf(d)
           e == peers[h][k]
           r == {q \in e.outstanding : q.seq # d.seq}
           f == [e EXCEPT !.outstanding = r]
           g == [f EXCEPT !.state = "Connected"]
           hd == [key |-> k, conn |-> e.conn]
<1>1. /\ Known(d) /\ h \in Hosts /\ k \in Keys(h) /\ e # NoPeer
      /\ e \in Entry /\ EntryOK(h, e)
  BY ArrivalFacts, EntryAt DEF OnAck
<1>2. Exchange(d, {}) /\ UNCHANGED <<handles, up, connects, bound, dropVars, established, events>>
  BY DEF OnAck
<1>3. dups' \in 0 .. MaxDups /\ \A x \in net' : x \in net
  BY <1>2, ExchangeFacts
<1>4. \/ /\ e.state = "AcknowledgingConnect" /\ Len(accept_queue) < AcceptCap
         /\ SetPeer(h, k, g) /\ accept_queue' = Append(accept_queue, hd)
         /\ UNCHANGED addr_map
      \/ RemovePeer(h, k) /\ UNCHANGED accept_queue
      \/ SetPeer(h, k, f) /\ UNCHANGED <<addr_map, accept_queue>>
  BY DEF OnAck
<1>5. r \subseteq e.outstanding /\ e.state \in States /\ "Connected" \in States
      /\ e.conn \in Conns
  BY <1>1 DEF Entry, States
<1> HIDE DEF h, k, e, r
<1>6. f = [e EXCEPT !.outstanding = r, !.state = e.state]
  BY <1>1 DEF Entry
<1>7. f \in Entry /\ EntryOK(h, f) /\ f.addr = e.addr /\ f.conn = e.conn /\ f.state = e.state
  BY <1>1, <1>5, <1>6 DEF EntryOK, ServerSide, ClientSide, Entry
<1>8. e.state = "AcknowledgingConnect" =>
        /\ h = Server
        /\ g \in Entry /\ EntryOK(h, g) /\ g.addr = e.addr /\ g.conn = e.conn
        /\ g.state = "Connected"
  BY <1>1, <1>5 DEF EntryOK, ServerSide, ClientSide, Entry
<1> HIDE DEF f, g
<1>9. CASE RemovePeer(h, k) /\ UNCHANGED accept_queue
  BY <1>1, <1>2, <1>3, <1>9, RemoveStep DEF e
<1>10. CASE SetPeer(h, k, f) /\ UNCHANGED <<addr_map, accept_queue>>
  BY <1>1, <1>2, <1>3, <1>7, <1>10, RewriteStep, ServedNone DEF e
<1>11. CASE /\ e.state = "AcknowledgingConnect" /\ Len(accept_queue) < AcceptCap
            /\ SetPeer(h, k, g) /\ accept_queue' = Append(accept_queue, hd)
            /\ UNCHANGED addr_map
  <2>1. h = Server /\ Tables /\ bound' = bound
    BY <1>2, <1>8, <1>11 DEF IndInv
  <2>2. Tables'
    BY <1>1, <1>8, <1>11, <2>1, KeepSlot DEF e
  <2>3. \A x \in Hosts : \A j \in Keys(x) :
          peers'[x][j] = IF x = h /\ j = k THEN g ELSE peers[x][j]
    BY <1>1, <1>8, <1>11, <2>1, SetPeerIs
  <2>4. /\ accept_queue \in Seq(Handle(Server)) /\ hd \in Handle(Server)
        /\ Len(accept_queue) \in Nat
    BY <1>1, <1>5, <2>1 DEF IndInv, Books, Handle
  <2>5. /\ accept_queue' \in Seq(Handle(Server)) /\ Len(accept_queue') = Len(accept_queue) + 1
        /\ \A i \in 1 .. Len(accept_queue) : accept_queue'[i] = accept_queue[i]
        /\ accept_queue'[Len(accept_queue) + 1] = hd
    BY <1>11, <2>4, AppendProperties
  <2>6. Books'
    <3>1. Handle(Server)' = Handle(Server) /\ \A x \in Hosts : Handle(x)' = Handle(x)
      BY <1>2 DEF Handle, Conns, MaxConnects
    <3>2. Len(accept_queue') <= AcceptCap
      BY <1>11, <2>4, <2>5, HostAssumption
    <3> QED BY <1>2, <1>3, <2>5, <3>1, <3>2 DEF IndInv, Books, Conns, MaxConnects, MaxDups
  <2>7. ConnectedIsOwned'
    <3> SUFFICES ASSUME NEW j \in Keys(Server), peers'[Server][j] # NoPeer,
                        peers'[Server][j].state = "Connected",
                        NEW x, x = [key |-> j, conn |-> peers'[Server][j].conn]
                 PROVE  \/ x \in handles'[Server] \cup requests' \cup lost'
                        \/ \E i \in 1 .. Len(accept_queue') : accept_queue'[i] = x
      BY DEF ConnectedIsOwned, Owned
    <3>1. CASE j = k
      <4>1. x = hd
        BY <1>8, <1>11, <2>1, <2>3, <3>1, KeyFacts
      <4> QED BY <2>4, <2>5, <4>1
    <3>2. CASE j # k
      <4>1. peers'[Server][j] = peers[Server][j]
        BY <2>1, <2>3, <3>2, KeyFacts
      <4>2. \/ x \in handles[Server] \cup requests \cup lost
            \/ \E i \in 1 .. Len(accept_queue) : accept_queue[i] = x
        BY <4>1 DEF IndInv, ConnectedIsOwned, Owned
      <4> QED BY <1>2, <2>4, <2>5, <4>2
    <3> QED BY <3>1, <3>2
  <2>8. ClientsIdle'
    BY <1>2, <2>1, <2>3, KeyFacts DEF IndInv, ClientsIdle
  <2>9. NetOK'
    BY <1>3 DEF IndInv, NetOK
  <2>10. OneDialer'
    BY <1>1, <1>2, <1>3, <1>8, <1>11, <2>3, SameAttempts DEF e
  <2> QED BY <2>2, <2>6, <2>7, <2>8, <2>9, <2>10 DEF IndInv
<1> QED BY <1>4, <1>9, <1>10, <1>11

LEMMA OnVerifyConnectStep ==
  ASSUME IndInv, NEW d \in net, OnVerifyConnect(d)
  PROVE  IndInv'
<1> DEFINE h == d.to
           k == KeyOf(d)
           e == peers[h][k]
           r == {q \in e.outstanding : q.seq # e.connect_seq}
           f == [e EXCEPT !.state = "Connected", !.out_peer = d.key,
                          !.in_sess = d.in_sess, !.out_sess = d.out_sess,
                          !.outstanding = r]
           hd == [key |-> k, conn |-> e.conn]
<1>1. /\ Known(d) /\ h \in Hosts /\ k \in Keys(h) /\ e # NoPeer
      /\ e \in Entry /\ EntryOK(h, e)
      /\ h \in Clients /\ d.key \in AnyKey /\ d.in_sess = 2 /\ d.out_sess = 1
  BY ArrivalFacts, EntryAt, KeyFacts DEF OnVerifyConnect, HandshakeOK
<1>2. UNCHANGED <<addr_map, accept_queue, up, connects, bound, dropVars, events>>
  BY DEF OnVerifyConnect
<1>3. \/ /\ e.state = "Connecting" /\ SetPeer(h, k, f)
         /\ handles' = [handles EXCEPT ![h] = handles[h] \cup {hd}]
         /\ established' = established \cup {e.conn}
         /\ Exchange(d, {AckOf(d, f)})
      \/ Exchange(d, {AckOf(d, e)}) /\ UNCHANGED <<peers, handles, established>>
  BY DEF OnVerifyConnect
<1>4. r \subseteq e.outstanding /\ "Connected" \in States /\ e.conn \in Conns
  BY <1>1 DEF Entry, States
<1> HIDE DEF h, k, e, r
<1>5. /\ f \in Entry /\ f.addr = e.addr /\ f.conn = e.conn
      /\ f.state = "Connected" /\ f.out_peer \in AnyKey
      /\ f.in_sess = 2 /\ f.out_sess = 1 /\ f.outstanding = r
  BY <1>1, <1>4 DEF Entry
<1> HIDE DEF f
<1>6. EntryOK(h, f)
  BY <1>1, <1>4, <1>5, KeyFacts DEF EntryOK, ClientSide
<1>7. Sendable(h, AckOf(d, e)) /\ Sendable(h, AckOf(d, f))
  BY <1>1, <1>5, <1>6, AckSendable DEF h
<1>8. CASE Exchange(d, {AckOf(d, e)}) /\ UNCHANGED <<peers, handles, established>>
  <2>1. dups' \in 0 .. MaxDups /\ \A x \in net' : x \in net \/ Sendable(h, x)
    BY <1>7, <1>8, ExchangeFacts
  <2> QED BY <1>1, <1>2, <1>8, <2>1, QuietStep
<1>9. CASE /\ e.state = "Connecting" /\ SetPeer(h, k, f)
           /\ handles' = [handles EXCEPT ![h] = handles[h] \cup {hd}]
           /\ established' = established \cup {e.conn}
           /\ Exchange(d, {AckOf(d, f)})
  <2>1. /\ dups' \in 0 .. MaxDups /\ \A x \in net' : x \in net \/ Sendable(h, x)
        /\ h # Server /\ h \in up
    BY <1>1, <1>7, <1>9, ExchangeFacts, KeyFacts DEF h
  <2>2. Tables /\ bound' = bound
    BY <1>2 DEF IndInv
  <2>3. Tables'
    BY <1>1, <1>2, <1>5, <1>6, <1>9, <2>2, KeepSlot DEF e
  <2>4. \A x \in Hosts : \A j \in Keys(x) :
          peers'[x][j] = IF x = h /\ j = k THEN f ELSE peers[x][j]
    BY <1>1, <1>5, <1>9, <2>2, SetPeerIs
  <2>5. hd \in Handle(h) /\ hd \in [key : AnyKey, conn : Conns]
    BY <1>1, <1>4, KeyFacts DEF Handle
  <2> HIDE DEF hd
  <2>6. /\ handles' \in [Hosts -> SUBSET [key : AnyKey, conn : Conns]]
        /\ \A x \in Hosts : handles'[x] = IF x = h THEN handles[x] \cup {hd} ELSE handles[x]
    BY <1>1, <1>9, <2>5 DEF IndInv, Books
  <2>7. Books'
    <3>1. Handle(Server)' = Handle(Server) /\ \A x \in Hosts : Handle(x)' = Handle(x)
      BY <1>2 DEF Handle, Conns, MaxConnects
    <3>2. \A x \in Hosts : handles'[x] \subseteq Handle(x)
      BY <2>5, <2>6 DEF IndInv, Books
    <3>3. established' \subseteq Conns
      BY <1>4, <1>9 DEF IndInv, Books
    <3> QED BY <1>2, <2>1, <2>6, <3>1, <3>2, <3>3
        DEF IndInv, Books, Conns, MaxConnects, MaxDups
  <2>8. ConnectedIsOwned'
    BY <1>2, <2>1, <2>4, <2>6, KeyFacts DEF IndInv, ConnectedIsOwned, Owned
  <2>9. ClientsIdle'
    BY <1>1, <1>2, <1>5, <2>1, <2>4, <2>6, KeyFacts DEF IndInv, ClientsIdle
  <2>10. NetOK'
    BY <2>1 DEF IndInv, NetOK, Sendable
  <2>11. OneDialer'
    <3>1. \A x \in net' : x.type = "CONNECT" => x \in net \/ Dialled(x.from, x.conn)
      BY <2>1, SendableKnown
    <3>2. \A x \in Hosts : \A j \in Keys(x) : peers'[x][j] # NoPeer =>
            /\ peers[x][j] # NoPeer /\ peers'[x][j].addr = peers[x][j].addr
            /\ peers'[x][j].conn = peers[x][j].conn
      BY <1>1, <1>5, <2>4 DEF e
    <3> QED BY <1>2, <3>1, <3>2, SameAttempts
  <2> QED BY <2>3, <2>7, <2>8, <2>9, <2>10, <2>11 DEF IndInv
<1> QED BY <1>3, <1>8, <1>9

\* A non-empty set of numbers has a least element.
LEMMA LeastElement ==
  ASSUME NEW S, S \subseteq Nat, S # {}
  PROVE  \E x \in S : \A y \in S : x <= y
<1> DEFINE R == OpToRel(<, Nat)
<1>1. IsWellFoundedOn(R, Nat)
  BY NatLessThanWellFounded
<1>2. \A x, y \in Nat : y < x => <<y, x>> \in R
  BY DEF OpToRel
<1> HIDE DEF R
<1>3. PICK x \in S : \A y \in S : ~ (<<y, x>> \in R)
  BY <1>1, WFMin
<1>4. \A y \in S : ~ (y < x)
  BY <1>2, <1>3, Zenon
<1> QED BY <1>4

\* The RST of a full server may be sent.
LEMMA RefusalSendable ==
  ASSUME IndInv, NEW d \in net, d.type = "CONNECT"
  PROVE  Sendable(Server, RawDisconnect(d))
<1>1. /\ d.to = Server /\ d.from \in Hosts /\ d.key = 0 /\ 0 \in AnyKey
      /\ Server \in Hosts /\ "DISCONNECT" \in Types
  BY ArrivalFacts, KeyFacts DEF HandshakeOK, Types
<1> QED BY <1>1 DEF RawDisconnect, Sendable, DatagramSet, HandshakeOK

LEMMA OnConnectStep ==
  ASSUME IndInv, NEW d \in net, OnConnect(d)
  PROVE  IndInv'
<1> DEFINE c    == d.from
           old  == addr_map[Server][c]
           left == IF old = Unassigned THEN peers[Server]
                   ELSE [peers[Server] EXCEPT ![old] = NoPeer]
           free == {k \in Keys(Server) : left[k] = NoPeer}
           slot == CHOOSE k \in free : \A j \in free : k <= j
           e    == NewEntry(c, "AcknowledgingConnect", d.key, d.conn, 1, 2,
                            "VERIFY_CONNECT")
           ack  == Datagram(Server, slot, e, "ACK", d.seq)
           ver  == Datagram(Server, slot, e, "VERIFY_CONNECT", 1)
<1>1. /\ d.type = "CONNECT" /\ d.to = Server /\ c \in Clients /\ c \in Hosts /\ d.key = 0
      /\ d.seq \in Nat /\ Server \in Hosts /\ Tables /\ bound \in Bounds
  BY ArrivalFacts, KeyFacts DEF OnConnect, HandshakeOK, IndInv, Books
<1>2. UNCHANGED <<accept_queue, handles, up, connects, bound, dropVars, established>>
  BY DEF OnConnect
<1>3. \/ /\ free = {} /\ Exchange(d, {RawDisconnect(d)}) /\ UNCHANGED <<peers, addr_map>>
      \/ /\ free # {}
         /\ peers' = [peers EXCEPT ![Server] = [left EXCEPT ![slot] = e]]
         /\ addr_map' = [addr_map EXCEPT ![Server][c] = slot]
         /\ Exchange(d, {ack, ver})
  BY <1>1, ZenonT(40) DEF OnConnect
<1>4. old = Unassigned \/ (old \in Keys(Server) /\ peers[Server][old] # NoPeer
                           /\ peers[Server][old].addr = c)
  BY <1>1 DEF Tables, AddrMapConsistent
<1>5. /\ left \in [Keys(Server) -> {NoPeer} \cup Entry]
      /\ \A j \in Keys(Server) : left[j] = IF j = old THEN NoPeer ELSE peers[Server][j]
  <2>1. peers[Server] \in [Keys(Server) -> {NoPeer} \cup Entry]
    BY <1>1 DEF Tables
  <2>2. old = Unassigned => \A j \in Keys(Server) : j # old
    BY KeyFacts
  <2> QED BY <1>4, <2>1, <2>2
<1>6. free # {} => slot \in free
  <2>1. free \subseteq Nat
    BY KeyFacts DEF AnyKey
  <2> HIDE DEF free
  <2> QED BY <2>1, LeastElement
<1> HIDE DEF old, left, slot
<1>7. CASE free = {} /\ Exchange(d, {RawDisconnect(d)}) /\ UNCHANGED <<peers, addr_map>>
  <2>1. Sendable(Server, RawDisconnect(d))
    BY <1>1, RefusalSendable
  <2> HIDE DEF free
  <2>2. dups' \in 0 .. MaxDups /\ \A x \in net' : x \in net \/ Sendable(Server, x)
    BY <1>7, <2>1, ExchangeFacts
  <2> QED BY <1>1, <1>2, <1>7, <2>2, QuietStep
<1>8. CASE /\ free # {}
           /\ peers' = [peers EXCEPT ![Server] = [left EXCEPT ![slot] = e]]
           /\ addr_map' = [addr_map EXCEPT ![Server][c] = slot]
           /\ Exchange(d, {ack, ver})
  <2>1. slot \in Keys(Server) /\ (slot = old \/ peers[Server][slot] = NoPeer)
    BY <1>5, <1>6, <1>8
  <2> HIDE DEF free
  <2>2. Dialled(c, d.conn) /\ d.conn \in Nat
    BY <1>1, ArrivalFacts DEF Dialled, DatagramSet
  <2>3. d.conn \in Conns
    BY <1>1, <2>2, BoundFacts DEF IndInv, OneDialer, Books, Conns
  <2>4. /\ e \in Entry /\ e.addr = c /\ e.state = "AcknowledgingConnect"
        /\ e.out_peer = 0 /\ e.conn = d.conn /\ e.in_sess = 1 /\ e.out_sess = 2
        /\ \A r \in e.outstanding : r.type = "VERIFY_CONNECT"
    <3>1. "AcknowledgingConnect" \in States /\ "VERIFY_CONNECT" \in Types /\ 0 \in AnyKey
      BY KeyFacts DEF States, Types
    <3> HIDE DEF e
    <3>2. e = NewEntry(c, "AcknowledgingConnect", d.key, d.conn, 1, 2, "VERIFY_CONNECT")
      BY DEF e
    <3> QED BY <1>1, <2>3, <3>1, <3>2, NewEntryTyped
  <2> HIDE DEF e
  <2>5. EntryOK(Server, e) /\ e # NoPeer
    BY <1>1, <2>4, FreeIsNoEntry DEF EntryOK, ServerSide
  <2>6. Sendable(Server, ack) /\ Sendable(Server, ver)
    BY <1>1, <2>1, <2>4, <2>5, SendableDatagram DEF Types
  <2> HIDE DEF ack, ver
  <2>7. dups' \in 0 .. MaxDups /\ \A x \in net' : x \in net \/ Sendable(Server, x)
    BY <1>8, <2>6, ExchangeFacts
  <2> DEFINE row == [left EXCEPT ![slot] = e]
  <2>8. /\ row \in [Keys(Server) -> {NoPeer} \cup Entry]
        /\ \A j \in Keys(Server) : row[j] = IF j = slot THEN e
                                            ELSE IF j = old THEN NoPeer
                                            ELSE peers[Server][j]
    BY <1>5, <2>1, <2>4
  <2> HIDE DEF row
  <2>9. /\ DOMAIN peers' = Hosts
        /\ \A g \in Hosts : peers'[g] = IF g = Server THEN row ELSE peers[g]
    BY <1>1, <1>8 DEF Tables, row
  <2>10. \A g \in Hosts : peers'[g] \in [Keys(g) -> {NoPeer} \cup Entry']
    <3>1. Entry' = Entry
      BY <1>2 DEF Entry, Conns, MaxConnects, MaxAttempts
    <3> QED BY <1>1, <2>8, <2>9, <3>1 DEF Tables
  <2>11. /\ addr_map' \in [Hosts -> [Hosts -> {Unassigned} \cup AnyKey]]
         /\ \A g, b \in Hosts : addr_map'[g][b] = IF g = Server /\ b = c THEN slot
                                                  ELSE addr_map[g][b]
    BY <1>1, <1>8, <2>1, KeyFacts DEF Tables
  <2>12. AddrMapConsistent'
    <3>1. ASSUME NEW g \in Hosts, g # Server
          PROVE  /\ \A b \in Hosts : addr_map'[g][b] # Unassigned =>
                      /\ addr_map'[g][b] \in Keys(g)
                      /\ peers'[g][addr_map'[g][b]] # NoPeer
                      /\ peers'[g][addr_map'[g][b]].addr = b
                 /\ \A j \in Keys(g) : peers'[g][j] # NoPeer =>
                      addr_map'[g][peers'[g][j].addr] = j
      <4>1. /\ \A b \in Hosts : addr_map'[g][b] = addr_map[g][b]
            /\ peers'[g] = peers[g]
        BY <2>9, <2>11, <3>1
      <4>2. \A j \in Keys(g) : peers[g][j] # NoPeer => peers[g][j].addr \in Hosts
        BY <1>1 DEF Tables, Entry
      <4> QED BY <1>1, <4>1, <4>2 DEF Tables, AddrMapConsistent
    <3>2. ASSUME NEW b \in Hosts, addr_map'[Server][b] # Unassigned
          PROVE  /\ addr_map'[Server][b] \in Keys(Server)
                 /\ peers'[Server][addr_map'[Server][b]] # NoPeer
                 /\ peers'[Server][addr_map'[Server][b]].addr = b
      <4>1. CASE b = c
        BY <1>1, <2>1, <2>4, <2>5, <2>8, <2>9, <2>11, <4>1
      <4>2. CASE b # c
        <5> DEFINE j == addr_map[Server][b]
        <5>1. /\ addr_map'[Server][b] = j /\ j \in Keys(Server)
              /\ peers[Server][j] # NoPeer /\ peers[Server][j].addr = b
          BY <1>1, <2>11, <3>2, <4>2 DEF Tables, AddrMapConsistent
        <5>2. j # old
          BY <1>4, <4>2, <5>1, KeyFacts
        <5>3. j # slot
          BY <2>1, <5>1, <5>2
        <5> HIDE DEF j
        <5> QED BY <1>1, <2>8, <2>9, <5>1, <5>2, <5>3
      <4> QED BY <4>1, <4>2
    <3>3. ASSUME NEW j \in Keys(Server), peers'[Server][j] # NoPeer
          PROVE  addr_map'[Server][peers'[Server][j].addr] = j
      <4>1. CASE j = slot
        BY <1>1, <2>1, <2>4, <2>8, <2>9, <2>11, <4>1
      <4>2. CASE j # slot
        <5>1. peers'[Server][j] = peers[Server][j] /\ j # old
          BY <1>1, <2>8, <2>9, <3>3, <4>2
        <5>2. peers[Server][j].addr \in Hosts /\ addr_map[Server][peers[Server][j].addr] = j
          BY <1>1, <3>3, <5>1 DEF Tables, AddrMapConsistent, Entry
        <5>3. peers[Server][j].addr # c
          BY <5>1, <5>2 DEF old
        <5> QED BY <1>1, <2>11, <5>1, <5>2, <5>3
      <4> QED BY <4>1, <4>2
    <3> QED BY <3>1, <3>2, <3>3 DEF AddrMapConsistent
  <2>13. \A g \in Hosts : \A j \in Keys(g) : peers'[g][j] # NoPeer =>
           peers'[g][j] = peers[g][j] \/ (g = Server /\ j = slot /\ peers'[g][j] = e)
    BY <2>8, <2>9
  <2>14. SidesApart'
    BY <1>1, <2>5, <2>13 DEF Tables, SidesApart, EntryOK, ServerSide, ClientSide
  <2>15. Tables'
    BY <2>9, <2>10, <2>11, <2>12, <2>14 DEF Tables
  <2>16. Books'
    BY <1>2, <2>7 DEF IndInv, Books, Handle, Conns, MaxDups, MaxConnects
  <2>17. ConnectedIsOwned'
    BY <1>1, <1>2, <2>4, <2>13, OwnedKept DEF IndInv
  <2>18. ClientsIdle'
    BY <1>2, <2>9, KeyFacts DEF IndInv, ClientsIdle
  <2>19. NetOK'
    BY <2>7 DEF IndInv, NetOK, Sendable
  <2>20. OneDialer'
    <3>1. ASSUME NEW b \in Clients, NEW n \in Nat, Dialled(b, n)' PROVE Dialled(b, n)
      <4>1. CASE \E x \in net' : x.type = "CONNECT" /\ x.from = b /\ x.conn = n
        BY <2>7, <4>1, SendableKnown DEF Dialled
      <4>2. CASE peers'[b][0] # NoPeer /\ peers'[b][0].conn = n
        BY <2>9, <4>2, KeyFacts DEF Dialled
      <4>3. CASE \E k \in Keys(Server) : /\ peers'[Server][k] # NoPeer
                                         /\ peers'[Server][k].addr = b
                                         /\ peers'[Server][k].conn = n
        BY <1>1, <2>2, <2>4, <2>13, <4>3 DEF Dialled
      <4> QED BY <3>1, <4>1, <4>2, <4>3 DEF Dialled
    <3> QED BY <1>2, <3>1, KeepDialer DEF IndInv
  <2> QED BY <2>15, <2>16, <2>17, <2>18, <2>19, <2>20 DEF IndInv
<1> HIDE DEF free, e, ack, ver
<1> QED BY <1>3, <1>7, <1>8

----------------------------------------------------------------------------
(* The theorems.                                                            *)

LEMMA InitIndInv == Init => IndInv
<1> SUFFICES ASSUME Init PROVE IndInv
  OBVIOUS
<1>1. /\ bound \in Bounds
      /\ \A h \in Hosts : \A k \in Keys(h) : peers[h][k] = NoPeer
      /\ \A h, a \in Hosts : addr_map[h][a] = Unassigned
      /\ net = {} /\ accept_queue = <<>> /\ \A h \in Hosts : handles[h] = {}
  BY DEF Init
<1>2. Tables
  <2>1. /\ DOMAIN peers = Hosts
        /\ \A h \in Hosts : peers[h] \in [Keys(h) -> {NoPeer} \cup Entry]
        /\ addr_map \in [Hosts -> [Hosts -> {Unassigned} \cup AnyKey]]
    BY DEF Init
  <2> QED BY <1>1, <2>1 DEF Tables, AddrMapConsistent, SidesApart
<1>3. Books
  BY <1>1, BoundFacts, HostAssumption DEF Init, Books, Conns, Handle
<1>4. ConnectedIsOwned /\ ClientsIdle
  BY <1>1, KeyFacts, FreeIsNoEntry DEF ConnectedIsOwned, Owned, ClientsIdle
<1>5. NetOK /\ OneDialer
  BY <1>1, KeyFacts DEF NetOK, OneDialer, Dialled
<1> QED BY <1>2, <1>3, <1>4, <1>5 DEF IndInv

LEMMA ServiceOneStep ==
  ASSUME IndInv, NEW h \in Hosts, NEW k \in Keys(h), ServiceOne(h, k)
  PROVE  IndInv'
  BY RetransmitStep, TimeoutStep, PingStep, DisconnectNowStep DEF ServiceOne

LEMMA NextIndInv == IndInv /\ [Next]_vars => IndInv'
<1> SUFFICES ASSUME IndInv, [Next]_vars PROVE IndInv'
  OBVIOUS
<1>1. ASSUME NEW h \in Clients, Connect(h) PROVE IndInv'
  BY <1>1, ConnectStep
<1>2. ASSUME NEW h \in Clients, ClientStops(h) PROVE IndInv'
  BY <1>2, ClientStopsStep
<1>3. ASSUME NEW h \in Hosts, NEW hd \in handles[h], UserDisconnect(h, hd) PROVE IndInv'
  BY <1>3, UserDisconnectStep
<1>4. ASSUME NEW hd \in handles[Server], ServerDrop(hd) PROVE IndInv'
  BY <1>4, ServerDropStep
<1>10. ASSUME NEW hd \in requests, TakeRequest(hd) PROVE IndInv'
  BY <1>10, TakeRequestStep
<1>5. CASE Accept
  BY <1>5, AcceptStep
<1>6. ASSUME NEW d \in net, OnDatagram(d) PROVE IndInv'
  BY <1>6, OnConnectStep, OnVerifyConnectStep, OnAckStep, OnDisconnectStep, OnPingStep
  DEF OnDatagram
<1>7. ASSUME NEW h \in Hosts, NEW k \in Keys(h), ServiceOne(h, k) PROVE IndInv'
  BY <1>7, ServiceOneStep
<1>8. CASE UNCHANGED vars
  <2>1. dups' \in 0 .. MaxDups
    BY <1>8 DEF vars, IndInv, Books
  <2> QED BY <1>8, <2>1, KeyFacts, QuietStep DEF vars
<1> QED BY <1>1, <1>2, <1>3, <1>4, <1>5, <1>6, <1>7, <1>8, <1>10 DEF Next

\* The invariant of begin_connect, on_connect, on_verify_connect, on_ack and
\* remove_peer that the properties below follow from.
THEOREM HostInvariant == Spec => []IndInv
<1> QED BY InitIndInv, NextIndInv, PTL DEF Spec

\* The slots, the address map and the application's handles stay consistent
\* whatever is evicted, refused, removed or reused: no address has two entries,
\* no entry is lost from the map, and every Connected slot of the server can
\* still be closed by its application, unless the request of a dropped Peer
\* found the channel full.
THEOREM SlotsStayConsistent == Spec => []SlotsConsistent
<1>1. IndInv => SlotsConsistent
  <2> SUFFICES ASSUME IndInv PROVE SlotsConsistent
    OBVIOUS
  <2>1. Handle(Server) = [key : AnyKey, conn : Conns]
    BY KeyFacts DEF Handle
  <2>2. TypeOK
    BY <2>1 DEF IndInv, Tables, Books, Handle, TypeOK
  <2> QED BY <2>2 DEF IndInv, Tables, SlotsConsistent
<1> QED BY <1>1, HostInvariant, PTL

\* A client that has left the handshake and the slot it addresses, if it still
\* holds that connection, agree on both sessions and on each other's slots,
\* whatever the network delays, duplicates and reorders.
THEOREM SessionsAgree == Spec => []SessionAgreement
<1>1. IndInv => SessionAgreement
  <2> SUFFICES ASSUME IndInv, NEW c \in Clients, NEW e, e = peers[c][0], e # NoPeer,
                      e.state # "Connecting", NEW f, f = peers[Server][e.out_peer],
                      f # NoPeer, f.conn = e.conn
               PROVE  /\ f.addr = c /\ f.out_peer = 0
                      /\ f.in_sess = e.out_sess /\ e.in_sess = f.out_sess
    BY DEF SessionAgreement
  <2>1. c \in Hosts /\ c # Server /\ 0 \in Keys(c) /\ Server \in Hosts
    BY KeyFacts
  <2>2. e \in Entry /\ EntryOK(c, e)
    BY <2>1, EntryAt
  <2>3. e.out_peer \in Keys(Server) /\ e.in_sess = 2 /\ e.out_sess = 1
    BY <2>1, <2>2 DEF EntryOK, ClientSide
  <2>4. f \in Entry /\ EntryOK(Server, f)
    BY <2>1, <2>3, EntryAt
  <2>5. f.addr \in Clients /\ f.out_peer = 0 /\ f.in_sess = 1 /\ f.out_sess = 2
    BY <2>4 DEF EntryOK, ServerSide
  <2>6. Dialled(c, e.conn) /\ Dialled(f.addr, e.conn)
    BY <2>3 DEF Dialled
  <2>7. e.conn \in Nat
    BY <2>2, BoundFacts DEF IndInv, Books, Entry, Conns
  <2>8. f.addr = c
    BY <2>5, <2>6, <2>7 DEF IndInv, OneDialer
  <2> QED BY <2>3, <2>5, <2>8
<1> QED BY <1>1, HostInvariant, PTL

\* The slots after a step that writes one of them.
LEMMA SlotsAfter ==
  ASSUME Tables, NEW h \in Hosts, NEW k \in Keys(h), NEW e, SetPeer(h, k, e)
  PROVE  \A g \in Hosts : \A j \in Keys(g) :
           peers'[g][j] = IF g = h /\ j = k THEN e ELSE peers[g][j]
<1>1. DOMAIN peers = Hosts /\ \A g \in Hosts : DOMAIN peers[g] = Keys(g)
  BY DEF Tables
<1> QED BY <1>1 DEF SetPeer

\* The state of an entry as a step leaves it.
LEMMA StateAfter ==
  ASSUME NEW e \in Entry, NEW r
  PROVE  /\ [e EXCEPT !.outstanding = r].state = e.state
         /\ \A s \in States : [AddReliable(e, "DISCONNECT") EXCEPT !.state = s].state = s
<1>1. [e EXCEPT !.outstanding = r].state = e.state
  BY DEF Entry
<1> DEFINE d == e.outstanding \cup {Outstanding("DISCONNECT", e.seq + 1, 1)}
           f == [e EXCEPT !.seq = e.seq + 1, !.outstanding = d]
<1>2. AddReliable(e, "DISCONNECT") = f
  BY DEF AddReliable
<1> HIDE DEF d
<1>3. \A s \in States : [f EXCEPT !.state = s].state = s
  BY DEF Entry
<1> QED BY <1>1, <1>2, <1>3

\* What the slot at key k of host h may hold after a step if it was closing.
StaysClosed(h, k) ==
  Closing(peers'[h][k]) \/ peers'[h][k].state \in {"Free", "AcknowledgingConnect"}

LEMMA ServiceCloses ==
  ASSUME IndInv, NEW h \in Hosts, NEW k \in Keys(h), ServiceOne(h, k),
         NEW g \in Hosts, NEW j \in Keys(g), Closing(peers[g][j])
  PROVE  StaysClosed(g, j)
<1> DEFINE e == peers[h][k]
<1>1. e \in Entry /\ Tables
  BY EntryAt DEF ServiceOne, IndInv
<1> HIDE DEF e
<1>2. CASE Retransmit(h, k)
  <2>1. PICK r : SetPeer(h, k, [e EXCEPT !.outstanding = r])
    BY <1>2 DEF Retransmit, e
  <2> DEFINE f == [e EXCEPT !.outstanding = r]
  <2>2. f.state = e.state
    BY <1>1, StateAfter
  <2> HIDE DEF f
  <2>3. peers'[g][j] = IF g = h /\ j = k THEN f ELSE peers[g][j]
    BY <1>1, <2>1, SlotsAfter DEF f
  <2> QED BY <2>2, <2>3 DEF StaysClosed, Closing, e
<1>3. CASE Timeout(h, k)
  BY <1>1, <1>3, SlotsAfter, FreeIsNoEntry DEF Timeout, RemovePeer, StaysClosed, Closing
<1>4. CASE Ping(h, k)
  <2>1. PICK f : SetPeer(h, k, f) /\ e.state = "Connected"
    BY <1>4 DEF Ping, e
  <2>2. peers'[g][j] = IF g = h /\ j = k THEN f ELSE peers[g][j]
    BY <1>1, <2>1, SlotsAfter
  <2> QED BY <2>1, <2>2 DEF StaysClosed, Closing, e
<1>5. CASE DisconnectNow(h, k)
  <2> DEFINE f == [AddReliable(e, "DISCONNECT") EXCEPT !.state = "Disconnecting"]
  <2>1. SetPeer(h, k, f) /\ f.state = "Disconnecting"
    BY <1>1, <1>5, StateAfter DEF DisconnectNow, States, e
  <2> HIDE DEF f
  <2>2. peers'[g][j] = IF g = h /\ j = k THEN f ELSE peers[g][j]
    BY <1>1, <2>1, SlotsAfter
  <2> QED BY <2>1, <2>2 DEF StaysClosed, Closing
<1> QED BY <1>2, <1>3, <1>4, <1>5 DEF ServiceOne

LEMMA DatagramCloses ==
  ASSUME IndInv, NEW d \in net, OnDatagram(d),
         NEW g \in Hosts, NEW j \in Keys(g), Closing(peers[g][j])
  PROVE  StaysClosed(g, j)
<1> DEFINE h == d.to
           k == KeyOf(d)
           e == peers[h][k]
<1>1. h \in Hosts /\ Tables /\ (Known(d) => k \in Keys(h) /\ e \in Entry)
  BY ArrivalFacts, EntryAt DEF IndInv
<1> HIDE DEF h, k, e
<1>2. CASE UNCHANGED peers
  BY <1>2 DEF StaysClosed
<1>3. CASE Known(d) /\ RemovePeer(h, k)
  BY <1>1, <1>3, SlotsAfter, FreeIsNoEntry DEF RemovePeer, StaysClosed, Closing
<1>4. CASE OnVerifyConnect(d)
  <2>1. CASE \E f : SetPeer(h, k, f) /\ e.state = "Connecting" /\ Known(d)
    <3>1. PICK f : SetPeer(h, k, f) /\ e.state = "Connecting" /\ Known(d)
      BY <2>1
    <3>2. peers'[g][j] = IF g = h /\ j = k THEN f ELSE peers[g][j]
      BY <1>1, <3>1, SlotsAfter
    <3> QED BY <3>1, <3>2 DEF StaysClosed, Closing, e
  <2> QED BY <1>2, <1>4, <2>1 DEF OnVerifyConnect, h, k, e
<1>5. CASE OnAck(d)
  <2>1. CASE \E f : SetPeer(h, k, f) /\ e.state = "AcknowledgingConnect" /\ Known(d)
    <3>1. PICK f : SetPeer(h, k, f) /\ e.state = "AcknowledgingConnect" /\ Known(d)
      BY <2>1
    <3>2. peers'[g][j] = IF g = h /\ j = k THEN f ELSE peers[g][j]
      BY <1>1, <3>1, SlotsAfter
    <3> QED BY <3>1, <3>2 DEF StaysClosed, Closing, e
  <2>2. CASE \E r : SetPeer(h, k, [e EXCEPT !.outstanding = r]) /\ Known(d)
    <3>1. PICK r : SetPeer(h, k, [e EXCEPT !.outstanding = r]) /\ Known(d)
      BY <2>2
    <3> DEFINE f == [e EXCEPT !.outstanding = r]
    <3>2. f.state = e.state
      BY <1>1, <3>1, StateAfter
    <3> HIDE DEF f
    <3>3. peers'[g][j] = IF g = h /\ j = k THEN f ELSE peers[g][j]
      BY <1>1, <3>1, SlotsAfter DEF f
    <3> QED BY <3>2, <3>3 DEF StaysClosed, Closing, e
  <2> QED BY <1>3, <1>5, <2>1, <2>2 DEF OnAck, h, k, e
<1>6. CASE OnDisconnect(d)
  BY <1>2, <1>3, <1>6 DEF OnDisconnect, h, k
<1>7. CASE OnConnect(d)
  <2> DEFINE old  == addr_map[h][d.from]
             left == IF old = Unassigned THEN peers[h]
                     ELSE [peers[h] EXCEPT ![old] = NoPeer]
             free == {i \in Keys(h) : left[i] = NoPeer}
             slot == CHOOSE i \in free : \A n \in free : i <= n
             f    == NewEntry(d.from, "AcknowledgingConnect", d.key, d.conn, 1, 2,
                              "VERIFY_CONNECT")
  <2>1. CASE peers' = [peers EXCEPT ![h] = [left EXCEPT ![slot] = f]]
    <3>1. f.state = "AcknowledgingConnect"
      BY DEF NewEntry
    <3>2. DOMAIN peers = Hosts /\ DOMAIN peers[h] = Keys(h)
      BY <1>1 DEF Tables
    <3>3. DOMAIN left = Keys(h) /\ \A i \in Keys(h) : left[i] = NoPeer \/ left[i] = peers[h][i]
      BY <3>2
    <3> HIDE DEF old, left, slot, f
    <3>4. peers'[g] = IF g = h THEN [left EXCEPT ![slot] = f] ELSE peers[g]
      BY <1>1, <2>1, <3>2
    <3>5. peers'[g][j] \in {peers[g][j], NoPeer, f}
      BY <3>3, <3>4
    <3> QED BY <3>1, <3>5, FreeIsNoEntry DEF StaysClosed, Closing
  <2> QED BY <1>2, <1>7, <2>1 DEF OnConnect, h
<1>8. CASE OnPing(d)
  BY <1>2, <1>8 DEF OnPing
<1> QED BY <1>4, <1>5, <1>6, <1>7, <1>8 DEF OnDatagram

\* An entry that is being closed stays so, is freed, or gives way to a new
\* handshake: no late VERIFY_CONNECT, ACK or ping reopens it.
THEOREM ClosingStaysFinal == Spec => ClosingIsFinal
<1>1. ASSUME IndInv, [Next]_vars, NEW g \in Hosts, NEW j \in Keys(g), Closing(peers[g][j])
      PROVE  StaysClosed(g, j)
  <2> USE <1>1
  <2>1. Tables /\ peers[g][j] # NoPeer
    BY FreeIsNoEntry DEF IndInv, Closing
  <2>2. ASSUME NEW h \in Clients, Connect(h) PROVE StaysClosed(g, j)
    <3>1. h \in Hosts /\ 0 \in Keys(h) /\ peers[h][0] = NoPeer
      BY <2>2, KeyFacts DEF Connect, IndInv, ClientsIdle
    <3>2. PICK f : SetPeer(h, 0, f)
      BY <2>2 DEF Connect
    <3>3. peers'[g][j] = IF g = h /\ j = 0 THEN f ELSE peers[g][j]
      BY <2>1, <3>1, <3>2, SlotsAfter
    <3> QED BY <2>1, <3>1, <3>3 DEF StaysClosed
  <2>3. ASSUME NEW h \in Clients, ClientStops(h) PROVE StaysClosed(g, j)
    <3>1. h \in Hosts /\ 0 \in Keys(h) /\ SetPeer(h, 0, NoPeer)
      BY <2>3, KeyFacts DEF ClientStops, SetPeer
    <3>2. peers'[g][j] = IF g = h /\ j = 0 THEN NoPeer ELSE peers[g][j]
      BY <2>1, <3>1, SlotsAfter
    <3> QED BY <3>2, FreeIsNoEntry DEF StaysClosed, Closing
  <2>4. ASSUME NEW h \in Hosts, NEW hd \in handles[h], UserDisconnect(h, hd)
        PROVE  StaysClosed(g, j)
    <3>1. hd.key \in Keys(h) /\ peers[h][hd.key].state \in {"Connecting", "Connected"}
      BY <2>4, HandleFacts DEF UserDisconnect, SendDisconnect, Closable
    <3>2. PICK f : SetPeer(h, hd.key, f)
      BY <2>4 DEF UserDisconnect, SendDisconnect
    <3>3. peers'[g][j] = IF g = h /\ j = hd.key THEN f ELSE peers[g][j]
      BY <2>1, <3>1, <3>2, SlotsAfter
    <3> QED BY <3>1, <3>3 DEF StaysClosed, Closing
  <2>5. ASSUME NEW hd \in handles[Server], ServerDrop(hd) PROVE StaysClosed(g, j)
    BY <2>5 DEF ServerDrop, StaysClosed
  <2>10. ASSUME NEW hd \in requests, TakeRequest(hd) PROVE StaysClosed(g, j)
    <3>1. hd.key \in Keys(Server) /\ Server \in Hosts
      BY KeyFacts DEF IndInv, Books, Handle
    <3>2. CASE SendDisconnect(Server, hd.key)
      <4>1. peers[Server][hd.key].state \in {"Connecting", "Connected"}
        BY <3>2 DEF SendDisconnect, Closable
      <4>2. PICK f : SetPeer(Server, hd.key, f)
        BY <3>2 DEF SendDisconnect
      <4>3. peers'[g][j] = IF g = Server /\ j = hd.key THEN f ELSE peers[g][j]
        BY <2>1, <3>1, <4>2, SlotsAfter
      <4> QED BY <4>1, <4>3 DEF StaysClosed, Closing
    <3>3. CASE UNCHANGED peers
      BY <3>3 DEF StaysClosed
    <3> QED BY <2>10, <3>2, <3>3 DEF TakeRequest
  <2>6. CASE Accept
    BY <2>6 DEF Accept, StaysClosed
  <2>7. ASSUME NEW d \in net, OnDatagram(d) PROVE StaysClosed(g, j)
    BY <2>7, DatagramCloses
  <2>8. ASSUME NEW h \in Hosts, NEW k \in Keys(h), ServiceOne(h, k) PROVE StaysClosed(g, j)
    BY <2>8, ServiceCloses
  <2>9. CASE UNCHANGED vars
    BY <2>9 DEF vars, StaysClosed
  <2> QED BY <2>2, <2>3, <2>4, <2>5, <2>6, <2>7, <2>8, <2>9, <2>10 DEF Next
<1>2. IndInv /\ [Next]_vars =>
        [\A h \in Hosts : \A k \in Keys(h) :
           Closing(peers[h][k]) =>
             \/ Closing(peers'[h][k])
             \/ peers'[h][k].state \in {"Free", "AcknowledgingConnect"}]_vars
  BY <1>1 DEF StaysClosed
<1> QED BY <1>2, HostInvariant, PTL DEF Spec, ClosingIsFinal
=============================================================================
