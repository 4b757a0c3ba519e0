------------------------ MODULE OriginalPeersProofs ------------------------
(***************************************************************************)
(* Proofs about OriginalPeers, for any number of hosts and of peers, any   *)
(* calls and any number of datagrams: the counters of a host are exact,    *)
(* every event reaches the application once, and, when one host dials, no  *)
(* peer is left in a state that nothing ends.                              *)
(*                                                                         *)
(* The functions of the library change one peer of one host. What each may *)
(* do to the rest of the host is the relation Linked, which is transitive; *)
(* what it does to the peer is written down next to it.                    *)
(***************************************************************************)
EXTENDS OriginalPeers, FiniteSetTheorems, WellFoundedInduction, NaturalsInduction, TLAPS

\* NoLimbo is about applications of which only one dials (the others accept).
OneDialer == \A g, h \in Dialers : g = h
-----------------------------------------------------------------------------
(* Types.                                                                  *)

Sessions == 0 .. 3 \cup {NoID}
Types == {"ACKNOWLEDGE", "CONNECT", "VERIFY_CONNECT", "DISCONNECT", "PING",
          "BANDWIDTH_LIMIT", "THROTTLE_CONFIGURE", "SEND"}
Offer == [id : Nat, inS : Sessions, outS : Sessions, cid : Nat, bw : Nat, thr : Nat]

CmdBase == [type : Types, rel : BOOLEAN, ch : {0, 255}, seq : Nat, body : Offer \cup Nat]
Cmd == {c \in CmdBase : /\ c.type \in {"CONNECT", "VERIFY_CONNECT"} => c.body \in Offer
                        /\ c.type = "BANDWIDTH_LIMIT" => c.body \in Nat
                        /\ c.type = "ACKNOWLEDGE" => ~c.rel}

PeerType ==
    [state : States, cid : Nat, addr : Hosts \cup {0}, outID : Int, inS : Sessions,
     outS : Sessions, seq : Nat, chseq : Nat, got : Nat, bw : Nat, thr : Nat,
     out : SUBSET Cmd, sent : SUBSET Cmd, acks : SUBSET Cmd, data : Nat, flag : BOOLEAN]

Told == {"none", "asked", "connecting", "connected", "bad"}
Range1(h) == 1 .. Slots[h]
HostType(h) ==
    [peer : [Range1(h) -> PeerType], queue : Seq(Range1(h)), broken : BOOLEAN,
     connected : Int, limited : Int, bw : Nat, recalculate : BOOLEAN,
     told : [Range1(h) -> Told]]

DatagramType ==
    [to : Hosts \cup {0}, from : Hosts, id : Int, cid : Nat, cmd : Cmd, sess : Sessions]
-----------------------------------------------------------------------------
(* The inductive invariant.                                                *)

Counts(p) == IF p.state \in Connected THEN 1 ELSE 0
Limits(p) == IF p.state \in Connected /\ p.bw # 0 THEN 1 ELSE 0

\* The counters of host H are exact.
Exact(H) ==
    /\ H.connected = Cardinality({i \in DOMAIN H.peer : H.peer[i].state \in Connected})
    /\ H.limited = Cardinality({i \in DOMAIN H.peer :
                                    H.peer[i].state \in Connected /\ H.peer[i].bw # 0})

Queued(H, i) == H.peer[i].flag => i \in Range(H.queue)

\* What the application knows (t) of a peer, by the state of the peer.
KnownAs(p) ==
    CASE p.state \in {"DISCONNECTED", "ACKNOWLEDGING_CONNECT", "CONNECTION_PENDING"} ->
           {"none", "asked"}
      [] p.state \in {"CONNECTING", "CONNECTION_SUCCEEDED"} -> {"connecting"}
      [] p.state = "ZOMBIE" -> {"connecting", "connected"}
      [] OTHER -> {"connected"}

\* Packets are kept only by a peer that was connected, a DISCONNECT is
\* acknowledged only by one that ends, and who has an event is marked.
Early == {"DISCONNECTED", "CONNECTING", "ACKNOWLEDGING_CONNECT", "CONNECTION_PENDING",
          "CONNECTION_SUCCEEDED"}
EventOK(p, t) ==
    /\ t \in KnownAs(p)
    /\ p.state \in Early => p.data = 0
    /\ (\E a \in p.acks : a.type = "DISCONNECT") => p.state \in {"ACKNOWLEDGING_DISCONNECT", "ZOMBIE"}
    /\ p.state = "DISCONNECTED" => p.acks = {}
    /\ Eventful(p) => p.flag

\* p will send, or has sent and waits for, a reliable command of this type.
Holds(p, type) ==
    \/ \E c \in p.out : c.type = type /\ c.rel
    \/ \E c \in p.sent : c.type = type

Waits(p) ==
    /\ p.state = "CONNECTING" => Holds(p, "CONNECT")
    /\ p.state = "ACKNOWLEDGING_CONNECT" => Holds(p, "VERIFY_CONNECT")
    /\ p.state = "DISCONNECTING" => Holds(p, "DISCONNECT")
    /\ p.state = "DISCONNECT_LATER" => HasOutgoing(p)
    /\ p.state = "ACKNOWLEDGING_DISCONNECT" => \E a \in p.acks : a.type = "DISCONNECT"

\* A dialer's CONNECT has number 1, what it sends on channel 0xFF later has not.
DialerCmd(c) ==
    IF c.type = "CONNECT" THEN c.seq = 1 /\ c.ch = 255 ELSE c.ch = 255 => c.seq >= 2
\* An acceptor does not dial, and acknowledgements are no commands of their own.
AcceptorCmd(c) == c.type # "CONNECT" /\ c.type # "ACKNOWLEDGE"
CmdOK(h, c) == IF h \in Dialers THEN DialerCmd(c) ELSE AcceptorCmd(c)
\* It acknowledges nothing with number 1 of channel 0xFF.
AckOK(h, c) == h \notin Dialers => (c.ch = 255 => c.seq >= 2)

\* The other end of a peer, and the two roles.
Ends(h, p) ==
    /\ p.state # "DISCONNECTED" => /\ p.addr \in Hosts /\ p.addr # h
                                   /\ h \in Dialers \/ p.addr \in Dialers
    /\ IF h \in Dialers
       THEN /\ p.state # "ACKNOWLEDGING_CONNECT"
            /\ IF p.state = "DISCONNECTED" THEN p.seq = 0 ELSE p.seq >= 1
       ELSE p.state # "CONNECTING"

\* What a peer has to send.
Stock(h, p) ==
    /\ \A c \in p.out : CmdOK(h, c)
    /\ \A c \in p.sent : CmdOK(h, c)
    /\ \A c \in p.acks : AckOK(h, c)

\* What holds of a peer also while it is being worked on, and at rest.
PeerFit(h, p, t) == EventOK(p, t) /\ (OneDialer => Ends(h, p) /\ Stock(h, p))
PeerOK(h, p, t) == PeerFit(h, p, t) /\ (OneDialer => Waits(p))

\* What holds of a host whichever peer is being worked on.
HostOK(h, H) ==
    /\ H \in HostType(h)
    /\ Exact(H)
    /\ \A i \in Range1(h) : Queued(H, i)

\* A datagram, by the role of its sender.
Carries(d) ==
    /\ d.cmd.type = "CONNECT" => d.from \in Dialers /\ d.to # d.from
    /\ IF d.from \in Dialers
       THEN (d.cmd.type \notin {"CONNECT", "ACKNOWLEDGE"} /\ d.cmd.ch = 255) => d.cmd.seq >= 2
       ELSE (d.cmd.type = "ACKNOWLEDGE" /\ d.cmd.ch = 255) => d.cmd.seq >= 2

IndInv ==
    /\ hosts = [h \in Hosts |-> hosts[h]]
    /\ connects \in Nat
    /\ \A h \in Hosts : HostOK(h, hosts[h])
    /\ \A h \in Hosts : \A i \in Range1(h) : PeerOK(h, hosts[h].peer[i], hosts[h].told[i])
    /\ \A d \in net : d \in DatagramType /\ (OneDialer => Carries(d))
-----------------------------------------------------------------------------
(* A function of the library that works on peer i of host h.               *)

Linked(h, H, G, i) ==
    /\ G \in HostType(h)
    /\ \A j \in Range1(h) \ {i} :
        /\ G.peer[j] = H.peer[j] /\ G.told[j] = H.told[j]
        /\ j \in Range(H.queue) => j \in Range(G.queue)
    /\ G.connected - Counts(G.peer[i]) = H.connected - Counts(H.peer[i])
    /\ G.limited - Limits(G.peer[i]) = H.limited - Limits(H.peer[i])
    /\ Queued(H, i) => Queued(G, i)

LEMMA HostFields ==
    ASSUME NEW h, NEW H \in HostType(h)
    PROVE  /\ H.peer \in [Range1(h) -> PeerType] /\ DOMAIN H.peer = Range1(h)
           /\ H.queue \in Seq(Range1(h)) /\ H.broken \in BOOLEAN
           /\ H.connected \in Int /\ H.limited \in Int /\ H.bw \in Nat
           /\ H.recalculate \in BOOLEAN /\ H.told \in [Range1(h) -> Told]
           /\ \A i \in Range1(h) : H.peer[i] \in PeerType /\ H.told[i] \in Told
  BY DEF HostType

LEMMA CountTypes == \A p : Counts(p) \in Int /\ Limits(p) \in Int
  BY DEF Counts, Limits

LEMMA LinkedSelf ==
    ASSUME NEW h, NEW H \in HostType(h), NEW i \in Range1(h)
    PROVE  Linked(h, H, H, i)
  BY DEF Linked

LEMMA LinkedTransitive ==
    ASSUME NEW h, NEW H, NEW G, NEW K, NEW i,
           H \in HostType(h), Linked(h, H, G, i), Linked(h, G, K, i)
    PROVE  Linked(h, H, K, i)
<1>1. /\ H.connected \in Int /\ H.limited \in Int /\ G.connected \in Int /\ G.limited \in Int
      /\ K.connected \in Int /\ K.limited \in Int
  BY HostFields DEF Linked
<1>2. /\ Counts(H.peer[i]) \in Int /\ Counts(G.peer[i]) \in Int /\ Counts(K.peer[i]) \in Int
      /\ Limits(H.peer[i]) \in Int /\ Limits(G.peer[i]) \in Int /\ Limits(K.peer[i]) \in Int
  BY CountTypes
<1>3. /\ K.connected - Counts(K.peer[i]) = H.connected - Counts(H.peer[i])
      /\ K.limited - Limits(K.peer[i]) = H.limited - Limits(H.peer[i])
  BY <1>1, <1>2 DEF Linked
<1> QED BY <1>3, Zenon DEF Linked

\* A step that replaces peer i and nothing the counters look at.
WithPeer(H, i, p) == [H EXCEPT !.peer[i] = p]

LEMMA WithPeerLinked ==
    ASSUME NEW h, NEW H \in HostType(h), NEW i \in Range1(h), NEW p \in PeerType,
           Counts(p) = Counts(H.peer[i]), Limits(p) = Limits(H.peer[i]),
           p.flag => H.peer[i].flag
    PROVE  LET G == WithPeer(H, i, p)
           IN  /\ Linked(h, H, G, i) /\ G.peer[i] = p /\ G.told = H.told
               /\ G.queue = H.queue /\ G.bw = H.bw
<1> DEFINE G == WithPeer(H, i, p)
<1>1. /\ G \in HostType(h) /\ G.peer[i] = p /\ G.told = H.told /\ G.queue = H.queue /\ G.bw = H.bw
      /\ G.connected = H.connected /\ G.limited = H.limited
      /\ \A j \in Range1(h) \ {i} : G.peer[j] = H.peer[j]
  BY DEF HostType, WithPeer
<1> HIDE DEF G
<1>2. Linked(h, H, G, i)
  BY <1>1 DEF Linked, Queued
<1> QED BY <1>1, <1>2 DEF G

\* The functions of the library: peer i becomes p, the application knows t.
Becomes(h, H, G, i, p, t) == Linked(h, H, G, i) /\ G.peer[i] = p /\ G.told[i] = t

LEMMA BecomesTransitive ==
    ASSUME NEW h, NEW H \in HostType(h), NEW G, NEW K, NEW i, NEW p, NEW q, NEW t, NEW u,
           Becomes(h, H, G, i, p, t), Becomes(h, G, K, i, q, u)
    PROVE  Becomes(h, H, K, i, q, u)
  BY LinkedTransitive DEF Becomes

LEMMA BecomesTyped ==
    ASSUME NEW h, NEW H, NEW G, NEW i \in Range1(h), NEW p, NEW t, Becomes(h, H, G, i, p, t)
    PROVE  G \in HostType(h) /\ p \in PeerType /\ t \in Told /\ p = G.peer[i] /\ t = G.told[i]
  BY HostFields DEF Becomes, Linked

LEMMA WithPeerBecomes ==
    ASSUME NEW h, NEW H \in HostType(h), NEW i \in Range1(h), NEW p \in PeerType,
           Counts(p) = Counts(H.peer[i]), Limits(p) = Limits(H.peer[i]),
           p.flag => H.peer[i].flag
    PROVE  Becomes(h, H, WithPeer(H, i, p), i, p, H.told[i])
  BY WithPeerLinked DEF Becomes

LEMMA RecalculateBecomes ==
    ASSUME NEW h, NEW H \in HostType(h), NEW i \in Range1(h), NEW b \in BOOLEAN
    PROVE  Becomes(h, H, [H EXCEPT !.recalculate = b], i, H.peer[i], H.told[i])
<1> DEFINE G == [H EXCEPT !.recalculate = b]
<1>1. /\ G \in HostType(h) /\ G.peer = H.peer /\ G.told = H.told /\ G.queue = H.queue
      /\ G.connected = H.connected /\ G.limited = H.limited
  BY DEF HostType
<1> HIDE DEF G
<1>2. Becomes(h, H, G, i, H.peer[i], H.told[i])
  BY <1>1 DEF Becomes, Linked, Queued
<1> QED BY <1>2 DEF G

\* enet_peer_on_connect, enet_peer_on_disconnect and the change of the state
LEMMA ChangeStateBecomes ==
    ASSUME NEW h, NEW H \in HostType(h), NEW i \in Range1(h), NEW s \in States
    PROVE  Becomes(h, H, ChangeState(H, i, s), i, [H.peer[i] EXCEPT !.state = s], H.told[i])
<1> DEFINE A == IF s \in Connected THEN OnConnect(H, i) ELSE OnDisconnect(H, i)
           p == H.peer[i]
           q == [p EXCEPT !.state = s]
           G == ChangeState(H, i, s)
<1>1. /\ H.connected \in Int /\ H.limited \in Int /\ p \in PeerType
  BY HostFields
<1>2. /\ A \in HostType(h) /\ A.peer = H.peer /\ A.told = H.told /\ A.queue = H.queue
      /\ A.connected = H.connected + (IF s \in Connected THEN 1 ELSE 0) - Counts(p)
      /\ A.limited = H.limited + (IF s \in Connected /\ p.bw # 0 THEN 1 ELSE 0) - Limits(p)
  <2> HIDE DEF p
  <2>2. CASE (s \in Connected) <=> (p.state \in Connected)
    <3>1. A = H
      BY <2>2 DEF OnConnect, OnDisconnect, p
    <3>2. Counts(p) = (IF s \in Connected THEN 1 ELSE 0)
          /\ Limits(p) = (IF s \in Connected /\ p.bw # 0 THEN 1 ELSE 0)
      BY <2>2 DEF Counts, Limits
    <3> QED BY <1>1, <3>1, <3>2
  <2>3. CASE s \in Connected /\ p.state \notin Connected
    <3> DEFINE l == IF p.bw # 0 THEN H.limited + 1 ELSE H.limited
    <3>1. A = [H EXCEPT !.connected = H.connected + 1, !.limited = l]
      BY <2>3 DEF OnConnect, p
    <3>2. Counts(p) = 0 /\ Limits(p) = 0
      BY <2>3 DEF Counts, Limits
    <3>3. l \in Int /\ H.connected + 1 \in Int
      BY <1>1
    <3>4. l = H.limited + (IF s \in Connected /\ p.bw # 0 THEN 1 ELSE 0) - 0
      BY <1>1, <2>3
    <3> HIDE DEF l, A
    <3>5. /\ A \in HostType(h) /\ A.peer = H.peer /\ A.told = H.told
          /\ A.queue = H.queue /\ A.connected = H.connected + 1 /\ A.limited = l
      BY <3>1, <3>3 DEF HostType
    <3> QED BY <1>1, <2>3, <3>2, <3>4, <3>5
  <2>4. CASE s \notin Connected /\ p.state \in Connected
    <3> DEFINE l == IF p.bw # 0 THEN H.limited - 1 ELSE H.limited
    <3>1. A = [H EXCEPT !.connected = H.connected - 1, !.limited = l]
      BY <2>4 DEF OnDisconnect, p
    <3>2. Counts(p) = 1 /\ Limits(p) = IF p.bw # 0 THEN 1 ELSE 0
      BY <2>4 DEF Counts, Limits
    <3>3. l \in Int /\ H.connected - 1 \in Int
      BY <1>1
    <3>4. l = H.limited + (IF s \in Connected /\ p.bw # 0 THEN 1 ELSE 0) - Limits(p)
      BY <1>1, <2>4, <3>2
    <3> HIDE DEF l, A
    <3>5. /\ A \in HostType(h) /\ A.peer = H.peer /\ A.told = H.told
          /\ A.queue = H.queue /\ A.connected = H.connected - 1 /\ A.limited = l
      BY <3>1, <3>3 DEF HostType
    <3> QED BY <1>1, <2>4, <3>2, <3>4, <3>5
  <2> QED BY <2>2, <2>3, <2>4
<1>3. G = [A EXCEPT !.peer[i].state = s]
  BY DEF ChangeState
<1>4. q \in PeerType /\ q.state = s /\ q.bw = p.bw /\ q.flag = p.flag
  BY <1>1 DEF PeerType
<1> HIDE DEF A, G
<1>5. /\ G \in HostType(h) /\ G.peer[i] = q /\ G.told = A.told /\ G.queue = A.queue
      /\ G.connected = A.connected /\ G.limited = A.limited
      /\ \A j \in Range1(h) \ {i} : G.peer[j] = A.peer[j]
  BY <1>2, <1>3, <1>4 DEF HostType
<1>6. Counts(q) = (IF s \in Connected THEN 1 ELSE 0)
      /\ Limits(q) = (IF s \in Connected /\ p.bw # 0 THEN 1 ELSE 0)
  BY <1>4 DEF Counts, Limits
<1> HIDE DEF q, p
<1>7. /\ G.connected - Counts(q) = H.connected - Counts(p)
      /\ G.limited - Limits(q) = H.limited - Limits(p)
  <2>1. Counts(p) \in Int /\ Limits(p) \in Int /\ Counts(q) \in Int /\ Limits(q) \in Int
    BY CountTypes
  <2> QED BY <1>1, <1>2, <1>5, <1>6, <2>1
<1>8. Queued(H, i) => Queued(G, i)
  BY <1>2, <1>4, <1>5 DEF Queued, p
<1> QED BY <1>2, <1>5, <1>7, <1>8 DEF Becomes, Linked, G, p, q

LEMMA Entries ==
    ASSUME NEW S, NEW s \in Seq(S)
    PROVE  \A j : j \in Range(s) <=> \E k \in 1 .. Len(s) : s[k] = j
  BY DEF Range

LEMMA RangeOfAppend ==
    ASSUME NEW S, NEW s \in Seq(S), NEW x \in S
    PROVE  Append(s, x) \in Seq(S) /\ x \in Range(Append(s, x))
           /\ \A y \in Range(s) : y \in Range(Append(s, x))
<1> DEFINE a == Append(s, x)
<1>1. /\ a \in Seq(S) /\ Len(a) = Len(s) + 1 /\ Len(s) \in Nat /\ a[Len(s) + 1] = x
      /\ \A k \in 1 .. Len(s) : a[k] = s[k]
  OBVIOUS
<1> HIDE DEF a
<1>2. x \in Range(a)
  <2>1. Len(s) + 1 \in 1 .. Len(a)
    BY <1>1
  <2> QED BY <1>1, <2>1, Entries
<1>3. ASSUME NEW y \in Range(s) PROVE y \in Range(a)
  <2>1. PICK k \in 1 .. Len(s) : s[k] = y
    BY Entries
  <2>2. k \in 1 .. Len(a) /\ a[k] = y
    BY <1>1, <2>1
  <2> QED BY <1>1, <2>2, Entries
<1> QED BY <1>1, <1>2, <1>3 DEF a

\* enet_protocol_dispatch_state without the state
LEMMA EnqueueBecomes ==
    ASSUME NEW h, NEW H \in HostType(h), NEW i \in Range1(h)
    PROVE  Becomes(h, H, Enqueue(H, i), i, [H.peer[i] EXCEPT !.flag = TRUE], H.told[i])
<1> DEFINE p == H.peer[i]
           q == [p EXCEPT !.flag = TRUE]
           G == Enqueue(H, i)
           Q == Append(H.queue, i)
           b == H.broken \/ i \in Range(H.queue)
<1>1. p \in PeerType /\ H.queue \in Seq(Range1(h)) /\ H.told[i] \in Told
  BY HostFields
<1>2. CASE p.flag
  <2>1. q = p /\ G = H
    BY <1>1, <1>2 DEF PeerType, Enqueue
  <2> QED BY <2>1, LinkedSelf DEF Becomes
<1>3. CASE ~p.flag
  <2>1. G = [H EXCEPT !.peer[i].flag = TRUE, !.broken = b, !.queue = Q]
    BY <1>3 DEF Enqueue
  <2>2. Q \in Seq(Range1(h)) /\ i \in Range(Q) /\ \A y \in Range(H.queue) : y \in Range(Q)
    BY <1>1, RangeOfAppend
  <2>3. q \in PeerType /\ q.state = p.state /\ q.bw = p.bw
    BY <1>1 DEF PeerType
  <2>4. b \in BOOLEAN
    OBVIOUS
  <2>5. Counts(q) = Counts(p) /\ Limits(q) = Limits(p)
    BY <2>3 DEF Counts, Limits
  <2> HIDE DEF G, Q, b
  <2>6. /\ G \in HostType(h) /\ G.peer[i] = q /\ G.told = H.told /\ G.queue = Q
        /\ G.connected = H.connected /\ G.limited = H.limited
        /\ \A j \in Range1(h) \ {i} : G.peer[j] = H.peer[j]
    BY <2>1, <2>2, <2>3, <2>4 DEF HostType
  <2> HIDE DEF p, q
  <2>7. Becomes(h, H, G, i, q, H.told[i])
    BY <2>2, <2>5, <2>6 DEF Becomes, Linked, Queued, p
  <2> QED BY <2>7 DEF G, q, p
<1> QED BY <1>2, <1>3

\* Every nonempty set of natural numbers has a least element.
LEMMA LeastElement ==
    ASSUME NEW S, S \subseteq Nat, S # {}
    PROVE  \E x \in S : \A y \in S : x <= y
<1> DEFINE R == OpToRel(<, Nat)
<1>1. IsWellFoundedOn(R, Nat)
  BY NatLessThanWellFounded
<1>2. \A x, y \in Nat : y < x => <<y, x>> \in R
  BY DEF OpToRel
<1> HIDE DEF R
<1>3. PICK x \in S : \A y \in S : ~ (<<y, x>> \in R)
  BY <1>1, WFMin
<1>4. \A y \in S : ~ (y < x)
  BY <1>2, <1>3, Zenon
<1> QED BY <1>4

\* A list without its n-th entry
LEMMA RemoveAtKeeps ==
    ASSUME NEW S, NEW s \in Seq(S), NEW n \in 1 .. Len(s)
    PROVE  /\ RemoveAt(s, n) \in Seq(S)
           /\ \A j \in Range(s) : j # s[n] => j \in Range(RemoveAt(s, n))
<1> DEFINE a == SubSeq(s, 1, n - 1)
           b == SubSeq(s, n + 1, Len(s))
<1>1. a \in Seq(S) /\ Len(a) = n - 1 /\ \A k \in 1 .. n - 1 : a[k] = s[k]
  OBVIOUS
<1>2. b \in Seq(S) /\ Len(b) = Len(s) - n /\ \A k \in 1 .. Len(s) - n : b[k] = s[n + k]
  OBVIOUS
<1>3. RemoveAt(s, n) = a \o b
  BY DEF RemoveAt
<1> HIDE DEF a, b
<1>4. a \o b \in Seq(S) /\ Len(a \o b) = Len(a) + Len(b)
  <2>1. a \in Seq(S) /\ b \in Seq(S)
    BY <1>1, <1>2
  <2>2. a \o b \in Seq(S)
    BY <2>1
  <2>3. Len(a \o b) = Len(a) + Len(b)
    BY <2>1
  <2> QED BY <2>2, <2>3
<1>5. ASSUME NEW k \in 1 .. Len(s), k # n
      PROVE  \E m \in 1 .. Len(a \o b) : (a \o b)[m] = s[k]
  <2>1. CASE k < n
    <3>1. k \in 1 .. Len(a \o b) /\ (a \o b)[k] = a[k] /\ a[k] = s[k]
      BY <1>1, <1>2, <1>4, <2>1
    <3> QED BY <3>1
  <2>2. CASE k > n
    <3>1. k - 1 \in 1 .. Len(a \o b) /\ (a \o b)[k - 1] = b[k - n] /\ b[k - n] = s[k]
      BY <1>1, <1>2, <1>4, <2>2
    <3> QED BY <3>1
  <2> QED BY <1>5, <2>1, <2>2
<1>6. /\ \A j \in Range(s) : \E k \in 1 .. Len(s) : s[k] = j
      /\ \A m \in 1 .. Len(a \o b) : (a \o b)[m] \in Range(a \o b)
  BY <1>4, Entries
<1>7. \A j \in Range(s) : j # s[n] => j \in Range(a \o b)
  BY <1>5, <1>6
<1> QED BY <1>3, <1>4, <1>7

\* The number of the first entry of a list that is i, as RemoveFirst finds it
LEMMA RemoveFirstKeeps ==
    ASSUME NEW S, NEW s \in Seq(S), NEW i
    PROVE  /\ RemoveFirst(s, i) \in Seq(S)
           /\ \A j \in Range(s) : j # i => j \in Range(RemoveFirst(s, i))
<1>1. CASE ~ \E k \in 1 .. Len(s) : s[k] = i
  BY <1>1 DEF RemoveFirst
<1>2. CASE \E k \in 1 .. Len(s) : s[k] = i
  <2> DEFINE I == {k \in 1 .. Len(s) : s[k] = i}
             n == Min(I)
  <2>1. I # {} /\ I \subseteq Nat
    BY <1>2
  <2>2. PICK x \in I : \A y \in I : x <= y
    BY <2>1, LeastElement
  <2>3. n \in I
    BY <2>2 DEF Min
  <2>4. RemoveFirst(s, i) = RemoveAt(s, n)
    BY <1>2, <2>1, Zenon DEF RemoveFirst, SelectInSeq
  <2>5. s[n] = i /\ n \in 1 .. Len(s)
    BY <2>3
  <2> HIDE DEF n
  <2> QED BY <2>4, <2>5, RemoveAtKeeps
<1> QED BY <1>1, <1>2

\* enet_peer_reset_queues
Emptied(p) == [p EXCEPT !.flag = FALSE, !.acks = {}, !.sent = {}, !.out = {}, !.data = 0]

LEMMA ResetQueuesBecomes ==
    ASSUME NEW h, NEW H \in HostType(h), NEW i \in Range1(h)
    PROVE  Becomes(h, H, ResetQueues(H, i), i, Emptied(H.peer[i]), H.told[i])
<1> DEFINE p == H.peer[i]
           q == Emptied(p)
           Q == IF p.flag THEN RemoveFirst(H.queue, i) ELSE H.queue
           G == ResetQueues(H, i)
<1>1. p \in PeerType /\ H.queue \in Seq(Range1(h))
  BY HostFields
<1>2. Q \in Seq(Range1(h)) /\ \A j \in Range(H.queue) : j # i => j \in Range(Q)
  BY <1>1, RemoveFirstKeeps
<1>3. q \in PeerType /\ q.state = p.state /\ q.bw = p.bw /\ q.flag = FALSE
  BY <1>1 DEF PeerType, Emptied
<1>4. G = [H EXCEPT !.queue = Q, !.peer[i] = q]
  BY DEF ResetQueues, Emptied
<1>5. Counts(q) = Counts(p) /\ Limits(q) = Limits(p)
  BY <1>3 DEF Counts, Limits
<1> HIDE DEF G, Q
<1> HIDE DEF p, q
<1>7. /\ G \in HostType(h) /\ G.peer[i] = q /\ G.told = H.told /\ G.queue = Q
      /\ G.connected = H.connected /\ G.limited = H.limited
      /\ \A j \in Range1(h) \ {i} : G.peer[j] = H.peer[j]
  BY <1>2, <1>3, <1>4 DEF HostType
<1>8. Becomes(h, H, G, i, q, H.told[i])
  BY <1>2, <1>3, <1>5, <1>7 DEF Becomes, Linked, Queued, p
<1> QED BY <1>8 DEF G, q, p

\* enet_peer_reset
Cleared(p) == [Fresh EXCEPT !.inS = p.inS, !.outS = p.outS, !.addr = p.addr]

LEMMA FreshTyped == Fresh \in PeerType /\ \A p \in PeerType : Cleared(p) \in PeerType
<1>1. /\ "DISCONNECTED" \in States /\ NoID \in Sessions /\ MAXIMUM_PEER_ID \in Int
      /\ 0 \in Nat /\ 0 \in Hosts \cup {0} /\ FALSE \in BOOLEAN /\ {} \in SUBSET Cmd
  BY DEF States, Sessions, NoID, MAXIMUM_PEER_ID
<1>2. Fresh \in PeerType
  BY <1>1 DEF Fresh, PeerType
<1>3. ASSUME NEW p \in PeerType PROVE Cleared(p) \in PeerType
  BY <1>2 DEF PeerType, Cleared
<1> QED BY <1>2, <1>3

LEMMA ClearedFields ==
    ASSUME NEW p \in PeerType
    PROVE  LET q == Cleared(p)
           IN  /\ q \in PeerType /\ q.state = "DISCONNECTED" /\ q.flag = FALSE /\ q.acks = {}
               /\ q.sent = {} /\ q.out = {} /\ q.data = 0 /\ q.seq = 0 /\ q.addr = p.addr
  BY FreshTyped DEF Cleared, Fresh

LEMMA PeerResetBecomes ==
    ASSUME NEW h, NEW H \in HostType(h), NEW i \in Range1(h)
    PROVE  Becomes(h, H, PeerReset(H, i), i, Cleared(H.peer[i]), H.told[i])
<1> DEFINE p == H.peer[i]
           q == Cleared(p)
           A == OnDisconnect(H, i)
           B == [A EXCEPT !.peer[i] = q]
           C == ChangeState(H, i, "DISCONNECTED")
<1>1. p \in PeerType /\ q \in PeerType
  BY HostFields, FreshTyped
<1>2. Becomes(h, H, C, i, [p EXCEPT !.state = "DISCONNECTED"], H.told[i])
  BY ChangeStateBecomes DEF States
<1>3. C = [A EXCEPT !.peer[i].state = "DISCONNECTED"]
  BY DEF ChangeState, Connected
<1>4. A \in HostType(h)
  <2>1. H.connected - 1 \in Int /\ H.limited - 1 \in Int
    BY HostFields
  <2> QED BY <2>1 DEF OnDisconnect, HostType
<1>5. PeerReset(H, i) = ResetQueues(B, i)
  BY DEF PeerReset, Cleared
<1> HIDE DEF A, C
<1>6. B = WithPeer(C, i, q) /\ C \in HostType(h)
  <2> DEFINE d == [A.peer[i] EXCEPT !.state = "DISCONNECTED"]
  <2>1. C = [A EXCEPT !.peer[i] = d]
    BY <1>3
  <2>2. d \in PeerType
    <3>1. A.peer[i] \in PeerType /\ "DISCONNECTED" \in States
      BY <1>4, HostFields DEF States
    <3> QED BY <3>1 DEF PeerType
  <2> HIDE DEF d, q
  <2> QED BY <1>1, <1>4, <2>1, <2>2 DEF WithPeer, HostType
<1>7. C.peer[i].state = "DISCONNECTED" /\ C.told[i] = H.told[i]
  BY <1>1, <1>2 DEF Becomes, PeerType
<1>8. q.state = "DISCONNECTED" /\ q.flag = FALSE /\ Emptied(q) = q
  <2>1. /\ q.state = "DISCONNECTED" /\ q.flag = FALSE /\ q.acks = {} /\ q.sent = {}
        /\ q.out = {} /\ q.data = 0
    BY <1>1, ClearedFields
  <2> HIDE DEF q
  <2> QED BY <1>1, <2>1 DEF Emptied, PeerType
<1> HIDE DEF q
<1>9. Counts(q) = Counts(C.peer[i]) /\ Limits(q) = Limits(C.peer[i])
  BY <1>7, <1>8 DEF Counts, Limits, Connected
<1>10. Becomes(h, C, WithPeer(C, i, q), i, q, H.told[i])
  BY <1>1, <1>6, <1>7, <1>8, <1>9, WithPeerBecomes
<1>11. Becomes(h, H, B, i, q, H.told[i])
  BY <1>2, <1>6, <1>10, BecomesTransitive
<1> HIDE DEF B, p
<1>12. B \in HostType(h) /\ B.peer[i] = q /\ B.told[i] = H.told[i]
  BY <1>11, BecomesTyped
<1>13. Becomes(h, B, ResetQueues(B, i), i, q, H.told[i])
  BY <1>8, <1>12, ResetQueuesBecomes
<1>14. Becomes(h, H, ResetQueues(B, i), i, q, H.told[i])
  BY <1>11, <1>13, BecomesTransitive
<1> QED BY <1>5, <1>14 DEF q, p

\* enet_protocol_dispatch_state
Marked(p, s) == [p EXCEPT !.state = s, !.flag = TRUE]

LEMMA DispatchStateBecomes ==
    ASSUME NEW h, NEW H \in HostType(h), NEW i \in Range1(h), NEW s \in States
    PROVE  Becomes(h, H, DispatchState(H, i, s), i, Marked(H.peer[i], s), H.told[i])
<1> DEFINE p == H.peer[i]
           q == [p EXCEPT !.state = s]
           A == ChangeState(H, i, s)
<1>1. Becomes(h, H, A, i, q, H.told[i])
  BY ChangeStateBecomes
<1>2. DispatchState(H, i, s) = Enqueue(A, i)
  BY DEF DispatchState
<1>3. Marked(p, s) = [q EXCEPT !.flag = TRUE]
  BY HostFields DEF Marked, PeerType
<1> HIDE DEF A, q
<1>4. A \in HostType(h) /\ A.peer[i] = q /\ A.told[i] = H.told[i]
  BY <1>1, BecomesTyped
<1>5. Becomes(h, A, Enqueue(A, i), i, [q EXCEPT !.flag = TRUE], H.told[i])
  BY <1>4, EnqueueBecomes
<1> QED BY <1>1, <1>2, <1>3, <1>5, BecomesTransitive

LEMMA MarkedFields ==
    ASSUME NEW p \in PeerType, NEW s \in States
    PROVE  LET q == Marked(p, s)
           IN  /\ q \in PeerType /\ q.state = s /\ q.flag = TRUE /\ q.acks = p.acks
               /\ q.sent = p.sent /\ q.out = p.out /\ q.data = p.data /\ q.seq = p.seq
               /\ q.addr = p.addr
  BY DEF Marked, PeerType

\* The events of the application
LEMMA ToldBecomes ==
    ASSUME NEW h, NEW H \in HostType(h), NEW i \in Range1(h), NEW t \in Told
    PROVE  Becomes(h, H, [H EXCEPT !.told[i] = t], i, H.peer[i], t)
<1> DEFINE G == [H EXCEPT !.told[i] = t]
<1>1. /\ G \in HostType(h) /\ G.peer = H.peer /\ G.told[i] = t /\ G.queue = H.queue
      /\ G.connected = H.connected /\ G.limited = H.limited
      /\ \A j \in Range1(h) \ {i} : G.told[j] = H.told[j]
  BY DEF HostType
<1> HIDE DEF G
<1>2. Becomes(h, H, G, i, H.peer[i], t)
  BY <1>1 DEF Becomes, Linked, Queued
<1> QED BY <1>2 DEF G

LEMMA ConnectEventBecomes ==
    ASSUME NEW h, NEW H \in HostType(h), NEW i \in Range1(h),
           H.told[i] \in {"none", "asked", "connecting"}
    PROVE  Becomes(h, H, ConnectEvent(H, i), i, H.peer[i], "connected")
<1>1. ConnectEvent(H, i) = [H EXCEPT !.told[i] = "connected"]
  BY DEF ConnectEvent
<1>2. "connected" \in Told
  BY DEF Told
<1> QED BY <1>1, <1>2, ToldBecomes

LEMMA DisconnectEventBecomes ==
    ASSUME NEW h, NEW H \in HostType(h), NEW i \in Range1(h),
           H.told[i] \in {"connecting", "connected"}
    PROVE  Becomes(h, H, DisconnectEvent(H, i), i, H.peer[i], "none")
<1>1. DisconnectEvent(H, i) = [H EXCEPT !.told[i] = "none"]
  BY DEF DisconnectEvent
<1>2. "none" \in Told
  BY DEF Told
<1> QED BY <1>1, <1>2, ToldBecomes

\* enet_peer_queue_outgoing_command
NextSeq(p, c) == IF c.ch = 0 THEN p.chseq + 1 ELSE p.seq + 1
Numbered(p, c) == [c EXCEPT !.seq = NextSeq(p, c)]
Pushed(p, c) ==
    [p EXCEPT !.out = @ \cup {Numbered(p, c)},
              !.chseq = IF c.ch = 0 THEN NextSeq(p, c) ELSE @,
              !.seq = IF c.ch = 0 THEN @ ELSE NextSeq(p, c)]

LEMMA PushedFields ==
    ASSUME NEW p \in PeerType, NEW c \in Cmd
    PROVE  LET q == Pushed(p, c)
               x == Numbered(p, c)
           IN  /\ q \in PeerType /\ q.state = p.state /\ q.flag = p.flag /\ q.acks = p.acks
               /\ q.sent = p.sent /\ q.data = p.data /\ q.addr = p.addr /\ q.bw = p.bw
               /\ q.out = p.out \cup {x}
               /\ x \in Cmd /\ x.type = c.type /\ x.rel = c.rel /\ x.ch = c.ch
               /\ x.seq = NextSeq(p, c)
               /\ q.seq = IF c.ch = 0 THEN p.seq ELSE p.seq + 1
<1> DEFINE n == NextSeq(p, c)
           x == Numbered(p, c)
           q == Pushed(p, c)
<1>1. n \in Nat /\ p.seq \in Nat /\ p.chseq \in Nat
  BY DEF NextSeq, PeerType
<1>2. c \in CmdBase
  BY DEF Cmd
<1>3. q = [p EXCEPT !.out = @ \cup {x}, !.chseq = IF c.ch = 0 THEN n ELSE @,
                    !.seq = IF c.ch = 0 THEN @ ELSE n]
  BY DEF Pushed
<1>4. c.ch # 0 => n = p.seq + 1
  BY DEF NextSeq
<1>0. x = [c EXCEPT !.seq = n]
  BY DEF Numbered
<1> HIDE DEF n, q, x
<1>5. /\ x \in CmdBase /\ x.type = c.type /\ x.rel = c.rel /\ x.ch = c.ch
      /\ x.seq = n /\ x.body = c.body
  BY <1>0, <1>1, <1>2 DEF CmdBase
<1>6. x \in Cmd
  BY <1>5 DEF Cmd
<1>7. p.out \cup {x} \in SUBSET Cmd
  BY <1>6 DEF PeerType
<1>8. /\ q \in PeerType /\ q.state = p.state /\ q.flag = p.flag /\ q.acks = p.acks
      /\ q.sent = p.sent /\ q.data = p.data /\ q.addr = p.addr /\ q.bw = p.bw
      /\ q.out = p.out \cup {x} /\ q.seq = IF c.ch = 0 THEN p.seq ELSE n
  BY <1>1, <1>3, <1>7 DEF PeerType
<1>9. q.seq = IF c.ch = 0 THEN p.seq ELSE p.seq + 1
  BY <1>4, <1>8
<1> QED BY <1>5, <1>6, <1>8, <1>9 DEF q, x, n

LEMMA QueueOutgoingBecomes ==
    ASSUME NEW h, NEW H \in HostType(h), NEW i \in Range1(h), NEW c \in Cmd
    PROVE  Becomes(h, H, QueueOutgoing(H, i, c), i, Pushed(H.peer[i], c), H.told[i])
<1> DEFINE p == H.peer[i]
           q == Pushed(p, c)
<1>1. QueueOutgoing(H, i, c) = WithPeer(H, i, q)
  BY DEF QueueOutgoing, WithPeer, Pushed, Numbered, NextSeq
<1>2. p \in PeerType /\ H.told[i] \in Told
  BY HostFields
<1>3. q \in PeerType /\ q.state = p.state /\ q.flag = p.flag /\ q.bw = p.bw
  BY <1>2, PushedFields
<1> HIDE DEF q
<1>4. Counts(q) = Counts(p) /\ Limits(q) = Limits(p)
  BY <1>3 DEF Counts, Limits
<1>5. Becomes(h, H, WithPeer(H, i, q), i, q, H.told[i])
  BY <1>3, <1>4, WithPeerBecomes
<1> QED BY <1>1, <1>5 DEF q

LEMMA CommandTyped ==
    ASSUME NEW type \in Types, NEW rel \in BOOLEAN, NEW body \in Offer \cup Nat,
           type \in {"CONNECT", "VERIFY_CONNECT"} => body \in Offer,
           type = "BANDWIDTH_LIMIT" => body \in Nat, type = "ACKNOWLEDGE" => ~rel
    PROVE  LET c == Command(type, rel, body)
           IN  /\ c \in Cmd /\ c.type = type /\ c.rel = rel /\ c.body = body
               /\ c.ch = IF type = "SEND" THEN 0 ELSE 255
<1> DEFINE c == Command(type, rel, body)
<1>1. c = [type |-> type, rel |-> rel, ch |-> IF type = "SEND" THEN 0 ELSE 255,
           seq |-> 0, body |-> body]
  BY DEF Command
<1> HIDE DEF c
<1>2. c \in CmdBase /\ c.type = type /\ c.rel = rel /\ c.body = body
      /\ c.ch = IF type = "SEND" THEN 0 ELSE 255
  BY <1>1 DEF CmdBase
<1>3. c \in Cmd
  BY <1>2 DEF Cmd
<1> QED BY <1>2, <1>3 DEF c

\* enet_protocol_remove_sent_reliable_command
Leaves(p, left) == [p EXCEPT !.sent = left]

LEMMA RemoveSentBecomes ==
    ASSUME NEW h, NEW H \in HostType(h), NEW i \in Range1(h), NEW seq, NEW ch
    PROVE  LET R == RemoveSent(H, i, seq, ch)
               p == H.peer[i]
           IN  \E left \in SUBSET p.sent :
                 /\ Becomes(h, H, R.H, i, Leaves(p, left), H.told[i])
                 /\ \/ R.type = "NONE" /\ left = p.sent
                    \/ \E c \in p.sent : /\ c.seq = seq /\ c.ch = ch
                                         /\ R.type = c.type /\ left = p.sent \ {c}
<1> DEFINE R == RemoveSent(H, i, seq, ch)
           p == H.peer[i]
           found == {c \in p.sent : c.seq = seq /\ c.ch = ch}
           first == CHOOSE c \in found : TRUE
<1>1. p \in PeerType
  BY HostFields
<1>2. CASE found = {}
  <2>1. R.H = H /\ R.type = "NONE"
    BY <1>2 DEF RemoveSent
  <2>2. Leaves(p, p.sent) = p
    BY <1>1 DEF PeerType, Leaves
  <2>3. Becomes(h, H, R.H, i, Leaves(p, p.sent), H.told[i])
    BY <2>1, <2>2, LinkedSelf DEF Becomes
  <2> QED BY <2>1, <2>3
<1>3. CASE found # {}
  <2> DEFINE left == p.sent \ {first}
             q == Leaves(p, left)
  <2>1. first \in p.sent /\ first.seq = seq /\ first.ch = ch
    BY <1>3
  <2>2. R.H = [H EXCEPT !.peer[i].sent = left] /\ R.type = first.type
    BY <1>3 DEF RemoveSent
  <2> HIDE DEF first
  <2>3. q \in PeerType /\ q.state = p.state /\ q.flag = p.flag /\ q.bw = p.bw
    BY <1>1 DEF PeerType, Leaves
  <2>4. Counts(q) = Counts(p) /\ Limits(q) = Limits(p)
    BY <2>3 DEF Counts, Limits
  <2>5. R.H = WithPeer(H, i, q)
    BY <2>2 DEF WithPeer, Leaves
  <2> HIDE DEF q, R
  <2>6. Becomes(h, H, R.H, i, q, H.told[i])
    BY <2>3, <2>4, <2>5, WithPeerBecomes
  <2>7. left \in SUBSET p.sent
    OBVIOUS
  <2> HIDE DEF left, p
  <2> QED BY <2>1, <2>2, <2>6, <2>7 DEF q, R, p, left
<1> QED BY <1>2, <1>3

\* The DISCONNECT of enet_peer_disconnect
Ending(rel) == Command("DISCONNECT", rel, 0)
Leaving(p) == [Pushed(Emptied(p), Ending(TRUE)) EXCEPT !.state = "DISCONNECTING"]

LEMMA EndingTyped ==
    ASSUME NEW rel \in BOOLEAN
    PROVE  /\ Ending(rel) \in Cmd /\ Ending(rel).type = "DISCONNECT"
           /\ Ending(rel).rel = rel /\ Ending(rel).ch = 255
<1>1. "DISCONNECT" \in Types /\ 0 \in Offer \cup Nat
  BY DEF Types
<1> QED BY <1>1, CommandTyped DEF Ending

LEMMA EmptiedFields ==
    ASSUME NEW p \in PeerType
    PROVE  LET q == Emptied(p)
           IN  /\ q \in PeerType /\ q.state = p.state /\ q.flag = FALSE /\ q.acks = {}
               /\ q.sent = {} /\ q.out = {} /\ q.data = 0 /\ q.seq = p.seq
               /\ q.addr = p.addr /\ q.bw = p.bw
  BY DEF PeerType, Emptied

LEMMA LeavingFields ==
    ASSUME NEW p \in PeerType
    PROVE  LET q == Leaving(p)
           IN  /\ q \in PeerType /\ q.state = "DISCONNECTING" /\ q.flag = FALSE /\ q.acks = {}
               /\ q.sent = {} /\ q.data = 0 /\ q.seq = p.seq + 1 /\ q.addr = p.addr
               /\ \E x \in Cmd : /\ q.out = {x} /\ x.type = "DISCONNECT" /\ x.rel
                                 /\ x.ch = 255 /\ x.seq = p.seq + 1
<1> DEFINE a == Emptied(p)
           c == Ending(TRUE)
           b == Pushed(a, c)
           x == Numbered(a, c)
           q == Leaving(p)
<1>1. /\ a \in PeerType /\ a.flag = FALSE /\ a.acks = {} /\ a.sent = {} /\ a.out = {}
      /\ a.data = 0 /\ a.seq = p.seq /\ a.addr = p.addr
  BY EmptiedFields
<1>2. c \in Cmd /\ c.type = "DISCONNECT" /\ c.rel = TRUE /\ c.ch = 255
  BY EndingTyped
<1> HIDE DEF a, c
<1>3. NextSeq(a, c) = p.seq + 1
  BY <1>1, <1>2 DEF NextSeq
<1>4. /\ b \in PeerType /\ b.flag = FALSE /\ b.acks = {} /\ b.sent = {} /\ b.data = 0
      /\ b.addr = p.addr /\ b.out = {x} /\ x \in Cmd /\ x.type = "DISCONNECT" /\ x.rel = TRUE
      /\ x.ch = 255 /\ x.seq = p.seq + 1 /\ b.seq = p.seq + 1
  <2>1. /\ b \in PeerType /\ b.flag = a.flag /\ b.acks = a.acks
        /\ b.sent = a.sent /\ b.data = a.data /\ b.addr = a.addr
        /\ b.out = a.out \cup {x}
        /\ x \in Cmd /\ x.type = c.type /\ x.rel = c.rel /\ x.ch = c.ch
        /\ x.seq = NextSeq(a, c)
        /\ b.seq = IF c.ch = 0 THEN a.seq ELSE a.seq + 1
    BY <1>1, <1>2, PushedFields
  <2> HIDE DEF b, x
  <2> QED BY <1>1, <1>2, <1>3, <2>1
<1>5. q = [b EXCEPT !.state = "DISCONNECTING"] /\ "DISCONNECTING" \in States
  BY DEF Leaving, States, a, c
<1> HIDE DEF b, x, q
<1>6. /\ q \in PeerType /\ q.state = "DISCONNECTING" /\ q.flag = b.flag /\ q.acks = b.acks
      /\ q.sent = b.sent /\ q.data = b.data /\ q.seq = b.seq /\ q.addr = b.addr /\ q.out = b.out
  BY <1>4, <1>5 DEF PeerType
<1> QED BY <1>4, <1>6 DEF q

LEMMA StartDisconnectBecomes ==
    ASSUME NEW h, NEW H \in HostType(h), NEW i \in Range1(h)
    PROVE  Becomes(h, H, StartDisconnect(H, i), i, Leaving(H.peer[i]), H.told[i])
<1> DEFINE A == ResetQueues(H, i)
           a == Emptied(H.peer[i])
           c == Ending(TRUE)
           B == QueueOutgoing(A, i, c)
           b == Pushed(a, c)
<1>1. Becomes(h, H, A, i, a, H.told[i])
  BY ResetQueuesBecomes
<1>2. StartDisconnect(H, i) = ChangeState(B, i, "DISCONNECTING")
  BY DEF StartDisconnect, Ending
<1>3. c \in Cmd /\ "DISCONNECTING" \in States
  BY EndingTyped DEF States
<1> HIDE DEF A, a, c
<1>4. A \in HostType(h) /\ A.peer[i] = a /\ A.told[i] = H.told[i]
  BY <1>1, BecomesTyped
<1>5. Becomes(h, A, B, i, b, H.told[i])
  BY <1>3, <1>4, QueueOutgoingBecomes
<1>6. Becomes(h, H, B, i, b, H.told[i])
  BY <1>1, <1>5, BecomesTransitive
<1> HIDE DEF B, b
<1>7. B \in HostType(h) /\ B.peer[i] = b /\ B.told[i] = H.told[i]
  BY <1>6, BecomesTyped
<1>8. Becomes(h, B, ChangeState(B, i, "DISCONNECTING"), i,
              [b EXCEPT !.state = "DISCONNECTING"], H.told[i])
  BY <1>3, <1>7, ChangeStateBecomes
<1>9. Leaving(H.peer[i]) = [b EXCEPT !.state = "DISCONNECTING"]
  BY DEF Leaving, a, b, c
<1> QED BY <1>2, <1>6, <1>8, <1>9, BecomesTransitive
-----------------------------------------------------------------------------
(* What a peer may become.                                                 *)

\* p has less to send than before, q the same end and number.
Less(p, q) ==
    /\ q.out \subseteq p.out /\ q.sent \subseteq p.sent \cup p.out /\ q.acks \subseteq p.acks
    /\ q.addr = p.addr /\ q.seq = p.seq

LEMMA LessFit ==
    ASSUME NEW h, NEW p, NEW q, Less(p, q), Ends(h, p), Stock(h, p),
           p.state # "DISCONNECTED", q.state # "DISCONNECTED",
           q.state \in {"CONNECTING", "ACKNOWLEDGING_CONNECT"} => q.state = p.state
    PROVE  Ends(h, q) /\ Stock(h, q)
<1>1. Ends(h, q)
  BY DEF Less, Ends
<1>2. Stock(h, q)
  BY DEF Less, Stock
<1> QED BY <1>1, <1>2

LEMMA ClearedOK ==
    ASSUME NEW h, NEW p \in PeerType, NEW t \in {"none", "asked"}
    PROVE  PeerOK(h, Cleared(p), t)
<1> DEFINE q == Cleared(p)
<1>1. /\ q.state = "DISCONNECTED" /\ q.flag = FALSE /\ q.acks = {}
      /\ q.sent = {} /\ q.out = {} /\ q.data = 0 /\ q.seq = 0
  BY ClearedFields
<1> HIDE DEF q
<1>2. EventOK(q, t)
  BY <1>1 DEF EventOK, KnownAs, Early, Eventful
<1>3. Ends(h, q) /\ Stock(h, q) /\ Waits(q)
  BY <1>1 DEF Ends, Stock, Waits
<1> QED BY <1>2, <1>3 DEF PeerOK, PeerFit, q

LEMMA ZombieOK ==
    ASSUME NEW h, NEW p, NEW q, NEW t \in {"connecting", "connected"},
           PeerFit(h, p, t), Less(p, q), p.state # "DISCONNECTED",
           q.state = "ZOMBIE", q.flag
    PROVE  PeerOK(h, q, t)
<1>1. EventOK(q, t)
  BY DEF EventOK, KnownAs, Early, Eventful
<1>2. ASSUME OneDialer PROVE Ends(h, q) /\ Stock(h, q)
  BY <1>2, LessFit DEF PeerFit
<1>3. Waits(q)
  BY DEF Waits
<1> QED BY <1>1, <1>2, <1>3 DEF PeerOK, PeerFit

LEMMA KnownStates ==
    ASSUME NEW h, NEW p \in PeerType, NEW t, PeerFit(h, p, t)
    PROVE  /\ p.state \in {"DISCONNECTED", "ACKNOWLEDGING_CONNECT", "CONNECTION_PENDING"}
                => t \in {"none", "asked"}
           /\ p.state \in {"CONNECTING", "CONNECTION_SUCCEEDED"} => t = "connecting"
           /\ p.state \notin {"DISCONNECTED", "ACKNOWLEDGING_CONNECT", "CONNECTION_PENDING"}
                => t \in {"connecting", "connected"}
           /\ p.state \in {"CONNECTED", "DISCONNECT_LATER", "DISCONNECTING",
                           "ACKNOWLEDGING_DISCONNECT"} => t = "connected"
  BY DEF PeerFit, EventOK, KnownAs

\* A peer that becomes connected, or is about to.
LEMMA ConnectedOK ==
    ASSUME NEW h, NEW p, NEW q, NEW t, NEW u,
           PeerFit(h, p, t), Less(p, q), q.data = p.data,
           p.state \in Early \ {"DISCONNECTED"},
           \/ q.state = "CONNECTED" /\ u = "connected"
           \/ q.state \in {"CONNECTION_PENDING", "CONNECTION_SUCCEEDED"} /\ q.flag /\ u \in KnownAs(q)
    PROVE  PeerOK(h, q, u)
<1>1. p.data = 0 /\ ~ \E a \in q.acks : a.type = "DISCONNECT"
  BY DEF PeerFit, EventOK, Less, Early
<1>2. u \in KnownAs(q)
  BY DEF KnownAs
<1>3. EventOK(q, u)
  BY <1>1, <1>2 DEF EventOK, Early, Eventful
<1>4. p.state # "DISCONNECTED"
  BY DEF Early
<1>5. ASSUME OneDialer PROVE Ends(h, q) /\ Stock(h, q)
  BY <1>4, <1>5, LessFit DEF PeerFit
<1>6. Waits(q)
  BY DEF Waits
<1> QED BY <1>3, <1>5, <1>6 DEF PeerOK, PeerFit

LEMMA LeavingOK ==
    ASSUME NEW h, NEW p \in PeerType, NEW t, PeerFit(h, p, t), p.state \in Connected
    PROVE  PeerOK(h, Leaving(p), t)
<1> DEFINE q == Leaving(p)
<1>1. /\ q \in PeerType /\ q.state = "DISCONNECTING" /\ q.flag = FALSE /\ q.acks = {}
      /\ q.sent = {} /\ q.data = 0 /\ q.seq = p.seq + 1 /\ q.addr = p.addr
  BY LeavingFields
<1>2. PICK x \in Cmd : /\ q.out = {x} /\ x.type = "DISCONNECT" /\ x.rel
                       /\ x.ch = 255 /\ x.seq = p.seq + 1
  BY LeavingFields
<1> HIDE DEF q
<1>3. EventOK(q, t)
  BY <1>1 DEF PeerFit, EventOK, KnownAs, Early, Eventful, Connected
<1>4. ASSUME OneDialer PROVE Ends(h, q) /\ Stock(h, q)
  <2>1. p.seq \in Nat /\ Ends(h, p)
    BY <1>4 DEF PeerType, PeerFit
  <2>2. h \in Dialers => p.seq >= 1
    BY <2>1 DEF Ends, Connected
  <2>3. Ends(h, q)
    BY <1>1, <2>1, <2>2 DEF Ends, Connected
  <2>4. CmdOK(h, x)
    BY <1>2, <2>1, <2>2 DEF CmdOK, DialerCmd, AcceptorCmd
  <2>5. Stock(h, q)
    BY <1>1, <1>2, <2>4 DEF Stock
  <2> QED BY <2>3, <2>5
<1>5. Waits(q)
  BY <1>1, <1>2 DEF Waits, Holds
<1> QED BY <1>3, <1>4, <1>5 DEF PeerOK, PeerFit, q

\* A whole operation on peer i: the rest of the host and the peer are right.
Good(h, H, G, i) == Linked(h, H, G, i) /\ PeerOK(h, G.peer[i], G.told[i])

LEMMA BecomesGood ==
    ASSUME NEW h, NEW H, NEW G, NEW i, NEW p, NEW t, Becomes(h, H, G, i, p, t), PeerOK(h, p, t)
    PROVE  Good(h, H, G, i)
  BY DEF Becomes, Good

LEMMA GoodTransitive ==
    ASSUME NEW h, NEW H \in HostType(h), NEW G, NEW K, NEW i, NEW p, NEW t,
           Becomes(h, H, G, i, p, t), Good(h, G, K, i)
    PROVE  Good(h, H, K, i)
  BY LinkedTransitive DEF Becomes, Good

\* The peer is reset, the application knows t.
LEMMA ResetGood ==
    ASSUME NEW h, NEW H \in HostType(h), NEW i \in Range1(h), H.told[i] \in {"none", "asked"}
    PROVE  Good(h, H, PeerReset(H, i), i)
<1>1. H.peer[i] \in PeerType
  BY HostFields
<1>2. Becomes(h, H, PeerReset(H, i), i, Cleared(H.peer[i]), H.told[i])
  BY PeerResetBecomes
<1>3. PeerOK(h, Cleared(H.peer[i]), H.told[i])
  BY <1>1, ClearedOK
<1> QED BY <1>2, <1>3, BecomesGood

LEMMA ResetToldGood ==
    ASSUME NEW h, NEW H \in HostType(h), NEW i \in Range1(h), NEW t \in {"none", "asked"}
    PROVE  Good(h, H, [PeerReset(H, i) EXCEPT !.told[i] = t], i)
<1> DEFINE A == PeerReset(H, i)
           p == Cleared(H.peer[i])
<1>1. H.peer[i] \in PeerType /\ t \in Told
  BY HostFields DEF Told
<1>2. Becomes(h, H, A, i, p, H.told[i])
  BY PeerResetBecomes
<1>3. PeerOK(h, p, t)
  BY <1>1, ClearedOK
<1> HIDE DEF A, p
<1>4. A \in HostType(h) /\ A.peer[i] = p
  BY <1>2, BecomesTyped
<1>5. Becomes(h, A, [A EXCEPT !.told[i] = t], i, p, t)
  BY <1>1, <1>4, ToldBecomes
<1>6. Becomes(h, H, [A EXCEPT !.told[i] = t], i, p, t)
  BY <1>2, <1>5, BecomesTransitive
<1> QED BY <1>3, <1>6, BecomesGood DEF A

\* A DISCONNECT event and the reset.
LEMMA DisconnectEventGood ==
    ASSUME NEW h, NEW H \in HostType(h), NEW i \in Range1(h),
           H.told[i] \in {"connecting", "connected"}
    PROVE  Good(h, H, PeerReset(DisconnectEvent(H, i), i), i)
<1> DEFINE A == DisconnectEvent(H, i)
<1>1. Becomes(h, H, A, i, H.peer[i], "none")
  BY DisconnectEventBecomes
<1> HIDE DEF A
<1>2. A \in HostType(h) /\ A.told[i] = "none"
  BY <1>1, BecomesTyped
<1>3. Good(h, A, PeerReset(A, i), i)
  BY <1>2, ResetGood
<1> QED BY <1>1, <1>3, GoodTransitive DEF A

\* A zombie waits for its event.
LEMMA ZombieGood ==
    ASSUME NEW h, NEW H \in HostType(h), NEW i \in Range1(h),
           H.told[i] \in {"connecting", "connected"}, H.peer[i].state # "DISCONNECTED",
           PeerFit(h, H.peer[i], H.told[i])
    PROVE  Good(h, H, DispatchState(H, i, "ZOMBIE"), i)
<1> DEFINE p == H.peer[i]
           q == Marked(p, "ZOMBIE")
<1>1. p \in PeerType /\ "ZOMBIE" \in States
  BY HostFields DEF States
<1>2. /\ q.state = "ZOMBIE" /\ q.flag = TRUE /\ q.acks = p.acks /\ q.sent = p.sent
      /\ q.out = p.out /\ q.seq = p.seq /\ q.addr = p.addr
  BY <1>1, MarkedFields
<1>3. Becomes(h, H, DispatchState(H, i, "ZOMBIE"), i, q, H.told[i])
  BY <1>1, DispatchStateBecomes
<1> HIDE DEF q, p
<1>4. Less(p, q)
  BY <1>2 DEF Less
<1>5. PeerOK(h, q, H.told[i])
  BY <1>2, <1>4, ZombieOK DEF p
<1> QED BY <1>3, <1>5, BecomesGood

\* enet_protocol_notify_disconnect
LEMMA NotifyDisconnectGood ==
    ASSUME NEW h, NEW H \in HostType(h), NEW i \in Range1(h), NEW event \in BOOLEAN,
           PeerFit(h, H.peer[i], H.told[i])
    PROVE  Good(h, H, NotifyDisconnect(H, i, event), i)
<1> DEFINE s == H.peer[i].state
           r == H.recalculate \/ s \notin {"DISCONNECTED", "CONNECTING", "ACKNOWLEDGING_CONNECT"}
           G == [H EXCEPT !.recalculate = r]
           early == s \in {"DISCONNECTED", "ACKNOWLEDGING_CONNECT", "CONNECTION_PENDING"}
<1>1. r \in BOOLEAN /\ H.peer[i] \in PeerType
  BY HostFields
<1>2. Becomes(h, H, G, i, H.peer[i], H.told[i])
  BY <1>1, RecalculateBecomes
<1>3. NotifyDisconnect(H, i, event) =
        IF early THEN PeerReset(G, i)
        ELSE IF event THEN PeerReset(DisconnectEvent(G, i), i)
        ELSE DispatchState(G, i, "ZOMBIE")
  BY DEF NotifyDisconnect
<1>4. IF early THEN H.told[i] \in {"none", "asked"} ELSE H.told[i] \in {"connecting", "connected"}
  BY <1>1, KnownStates
<1>5. ~early => H.peer[i].state # "DISCONNECTED"
  OBVIOUS
<1> HIDE DEF G, early
<1>6. G \in HostType(h) /\ G.peer[i] = H.peer[i] /\ G.told[i] = H.told[i]
  BY <1>2, BecomesTyped
<1>7. CASE early
  <2>1. Good(h, G, PeerReset(G, i), i)
    BY <1>4, <1>6, <1>7, ResetGood
  <2> QED BY <1>2, <1>3, <1>7, <2>1, GoodTransitive
<1>8. CASE ~early /\ event
  <2>1. Good(h, G, PeerReset(DisconnectEvent(G, i), i), i)
    BY <1>4, <1>6, <1>8, DisconnectEventGood
  <2> QED BY <1>2, <1>3, <1>8, <2>1, GoodTransitive
<1>9. CASE ~early /\ ~event
  <2>1. Good(h, G, DispatchState(G, i, "ZOMBIE"), i)
    BY <1>4, <1>5, <1>6, <1>9, ZombieGood
  <2> QED BY <1>2, <1>3, <1>9, <2>1, GoodTransitive
<1> QED BY <1>7, <1>8, <1>9

\* The CONNECT event
LEMMA ConnectEventGood ==
    ASSUME NEW h, NEW H \in HostType(h), NEW i \in Range1(h),
           PeerFit(h, H.peer[i], H.told[i]), H.peer[i].state \in Early \ {"DISCONNECTED"}
    PROVE  Good(h, H, ConnectEvent(ChangeState(H, i, "CONNECTED"), i), i)
<1> DEFINE p == H.peer[i]
           q == [p EXCEPT !.state = "CONNECTED"]
           A == ChangeState(H, i, "CONNECTED")
<1>1. p \in PeerType /\ "CONNECTED" \in States
  BY HostFields DEF States
<1>2. Becomes(h, H, A, i, q, H.told[i])
  BY <1>1, ChangeStateBecomes
<1>3. H.told[i] \in {"none", "asked", "connecting"}
  BY <1>1, KnownStates DEF Early
<1>4. /\ q.state = "CONNECTED" /\ q.acks = p.acks /\ q.sent = p.sent /\ q.out = p.out
      /\ q.seq = p.seq /\ q.addr = p.addr /\ q.data = p.data
  BY <1>1 DEF PeerType
<1> HIDE DEF A, q, p
<1>5. A \in HostType(h) /\ A.told[i] = H.told[i] /\ A.peer[i] = q
  BY <1>2, BecomesTyped
<1>6. Becomes(h, A, ConnectEvent(A, i), i, q, "connected")
  BY <1>3, <1>5, ConnectEventBecomes
<1>7. Less(p, q)
  BY <1>4 DEF Less
<1>8. PeerOK(h, q, "connected")
  BY <1>4, <1>7, ConnectedOK DEF p
<1>9. Becomes(h, H, ConnectEvent(A, i), i, q, "connected")
  BY <1>2, <1>6, BecomesTransitive
<1> QED BY <1>8, <1>9, BecomesGood DEF A

\* enet_protocol_notify_connect
LEMMA NotifyConnectGood ==
    ASSUME NEW h, NEW H \in HostType(h), NEW i \in Range1(h), NEW event \in BOOLEAN,
           PeerFit(h, H.peer[i], H.told[i]),
           H.peer[i].state \in {"CONNECTING", "ACKNOWLEDGING_CONNECT"}
    PROVE  Good(h, H, NotifyConnect(H, i, event), i)
<1> DEFINE G == [H EXCEPT !.recalculate = TRUE]
           p == H.peer[i]
           s == IF p.state = "CONNECTING" THEN "CONNECTION_SUCCEEDED" ELSE "CONNECTION_PENDING"
           q == Marked(p, s)
<1>1. p \in PeerType /\ s \in States /\ p.state \in Early \ {"DISCONNECTED"}
  BY HostFields DEF States, Early
<1>2. Becomes(h, H, G, i, p, H.told[i])
  BY RecalculateBecomes
<1>3. NotifyConnect(H, i, event) = IF event THEN ConnectEvent(ChangeState(G, i, "CONNECTED"), i)
                                   ELSE DispatchState(G, i, s)
  BY DEF NotifyConnect
<1>4. /\ q.state = s /\ q.flag = TRUE /\ q.acks = p.acks /\ q.sent = p.sent
      /\ q.out = p.out /\ q.seq = p.seq /\ q.addr = p.addr /\ q.data = p.data
  BY <1>1, MarkedFields
<1>5. H.told[i] \in KnownAs(q)
  <2>1. /\ p.state = "ACKNOWLEDGING_CONNECT" => H.told[i] \in {"none", "asked"}
        /\ p.state = "CONNECTING" => H.told[i] = "connecting"
    BY <1>1, KnownStates
  <2> QED BY <1>4, <2>1 DEF KnownAs
<1>6. s \in {"CONNECTION_SUCCEEDED", "CONNECTION_PENDING"}
  OBVIOUS
<1> HIDE DEF G, q, s, p
<1>7. G \in HostType(h) /\ G.peer[i] = p /\ G.told[i] = H.told[i]
  BY <1>2, BecomesTyped
<1>8. CASE event
  <2>1. Good(h, G, ConnectEvent(ChangeState(G, i, "CONNECTED"), i), i)
    BY <1>1, <1>7, ConnectEventGood DEF p
  <2> QED BY <1>2, <1>3, <1>8, <2>1, GoodTransitive
<1>9. CASE ~event
  <2>1. Becomes(h, G, DispatchState(G, i, s), i, q, H.told[i])
    BY <1>1, <1>7, DispatchStateBecomes DEF q
  <2>2. Less(p, q)
    BY <1>4 DEF Less
  <2>3. PeerOK(h, q, H.told[i])
    BY <1>1, <1>4, <1>5, <1>6, <2>2, ConnectedOK DEF p
  <2>4. Good(h, G, DispatchState(G, i, s), i)
    BY <2>1, <2>3, BecomesGood
  <2> QED BY <1>2, <1>3, <1>9, <2>4, GoodTransitive
<1> QED BY <1>8, <1>9
-----------------------------------------------------------------------------
(* The handlers.                                                           *)

\* Without a command that was acknowledged a peer still holds one of type.
LEMMA StillHolds ==
    ASSUME NEW p \in PeerType, NEW left, NEW type, Holds(p, type),
           \/ left = p.sent
           \/ \E c \in p.sent : c.type # type /\ left = p.sent \ {c}
    PROVE  Holds(Leaves(p, left), type)
<1> DEFINE q == Leaves(p, left)
<1>1. q.out = p.out /\ q.sent = left
  BY DEF PeerType, Leaves
<1> HIDE DEF q
<1>2. CASE \E c \in p.out : c.type = type /\ c.rel
  BY <1>1, <1>2 DEF Holds, q
<1>3. CASE \E c \in p.sent : c.type = type
  <2>1. PICK c \in p.sent : c.type = type
    BY <1>3
  <2>2. c \in left
    BY <2>1
  <2> QED BY <1>1, <2>1, <2>2 DEF Holds, q
<1> QED BY <1>2, <1>3 DEF Holds

\* enet_protocol_handle_acknowledge
LEMMA AcknowledgeGood ==
    ASSUME NEW h, NEW H \in HostType(h), NEW i \in Range1(h), NEW event \in BOOLEAN, NEW c,
           PeerOK(h, H.peer[i], H.told[i]), H.peer[i].state # "DISCONNECTED",
           OneDialer /\ h \in Dialers => (c.ch = 255 => c.seq >= 2)
    PROVE  Good(h, H, HandleAcknowledge(H, i, c, event).H, i)
<1> DEFINE p == H.peer[i]
           t == H.told[i]
           R == RemoveSent(H, i, c.seq, c.ch)
           G == R.H
<1>1. p \in PeerType
  BY HostFields
<1>2. PICK left \in SUBSET p.sent :
        /\ Becomes(h, H, G, i, Leaves(p, left), t)
        /\ \/ R.type = "NONE" /\ left = p.sent
           \/ \E x \in p.sent : /\ x.seq = c.seq /\ x.ch = c.ch
                                /\ R.type = x.type /\ left = p.sent \ {x}
  BY RemoveSentBecomes
<1> DEFINE q == Leaves(p, left)
<1>3. /\ q \in PeerType /\ q.state = p.state /\ q.out = p.out /\ q.sent = left
      /\ q.acks = p.acks /\ q.addr = p.addr /\ q.seq = p.seq /\ q.data = p.data
      /\ q.flag = p.flag
  BY <1>1 DEF PeerType, Leaves
<1>4. \A type : Holds(p, type) /\ type # R.type => Holds(q, type)
  BY <1>1, <1>2, StillHolds
<1>5. HandleAcknowledge(H, i, c, event).H =
        CASE p.state = "ACKNOWLEDGING_CONNECT" ->
               IF R.type = "VERIFY_CONNECT" THEN NotifyConnect(G, i, event) ELSE G
          [] p.state = "DISCONNECTING" ->
               IF R.type = "DISCONNECT" THEN NotifyDisconnect(G, i, event) ELSE G
          [] p.state = "DISCONNECT_LATER" /\ ~HasOutgoing(G.peer[i]) -> StartDisconnect(G, i)
          [] OTHER -> G
  BY DEF HandleAcknowledge, Ok, Error
<1> HIDE DEF p, t, R, G, q
<1>6. G \in HostType(h) /\ G.peer[i] = q /\ G.told[i] = t
  BY <1>2, BecomesTyped DEF q
<1>7. Less(p, q)
  BY <1>3 DEF Less
<1>8. PeerFit(h, q, t)
  <2>1. EventOK(q, t)
    <3>1. EventOK(p, t)
      BY DEF PeerOK, PeerFit, p, t
    <3> QED BY <1>3, <3>1 DEF EventOK, KnownAs, Eventful
  <2>2. ASSUME OneDialer PROVE Ends(h, q) /\ Stock(h, q)
    <3>1. Ends(h, p) /\ Stock(h, p) /\ p.state # "DISCONNECTED"
      BY <2>2 DEF PeerOK, PeerFit, p
    <3> QED BY <1>3, <1>7, <3>1, LessFit
  <2> QED BY <2>1, <2>2 DEF PeerFit
<1>9. ASSUME NEW K, Good(h, G, K, i) PROVE Good(h, H, K, i)
  BY <1>2, <1>9, GoodTransitive DEF q
<1>10. PeerOK(h, q, t) => Good(h, H, G, i)
  BY <1>2, BecomesGood DEF q
<1>11. OneDialer => Waits(p) /\ Ends(h, p) /\ Stock(h, p)
  BY DEF PeerOK, PeerFit, p
<1>12. CASE p.state = "ACKNOWLEDGING_CONNECT"
  <2>1. CASE R.type = "VERIFY_CONNECT"
    <3>1. Good(h, G, NotifyConnect(G, i, event), i)
      BY <1>3, <1>6, <1>8, <1>12, NotifyConnectGood
    <3> QED BY <1>5, <1>9, <1>12, <2>1, <3>1
  <2>2. CASE R.type # "VERIFY_CONNECT"
    <3>1. OneDialer => Waits(q)
      BY <1>3, <1>4, <1>11, <1>12, <2>2 DEF Waits
    <3> QED BY <1>5, <1>8, <1>10, <1>12, <2>2, <3>1 DEF PeerOK
  <2> QED BY <2>1, <2>2
<1>13. CASE p.state = "DISCONNECTING"
  <2>1. CASE R.type = "DISCONNECT"
    <3>1. Good(h, G, NotifyDisconnect(G, i, event), i)
      BY <1>6, <1>8, NotifyDisconnectGood
    <3> QED BY <1>5, <1>9, <1>13, <2>1, <3>1
  <2>2. CASE R.type # "DISCONNECT"
    <3>1. OneDialer => Waits(q)
      BY <1>3, <1>4, <1>11, <1>13, <2>2 DEF Waits
    <3> QED BY <1>5, <1>8, <1>10, <1>13, <2>2, <3>1 DEF PeerOK
  <2> QED BY <2>1, <2>2
<1>14. CASE p.state = "DISCONNECT_LATER" /\ ~HasOutgoing(q)
  <2>1. Becomes(h, G, StartDisconnect(G, i), i, Leaving(q), t)
    BY <1>6, StartDisconnectBecomes
  <2>2. PeerOK(h, Leaving(q), t)
    BY <1>3, <1>8, <1>14, LeavingOK DEF Connected
  <2>3. Good(h, G, StartDisconnect(G, i), i)
    BY <2>1, <2>2, BecomesGood
  <2> QED BY <1>5, <1>6, <1>9, <1>14, <2>3
<1>15. CASE /\ p.state \notin {"ACKNOWLEDGING_CONNECT", "DISCONNECTING"}
            /\ ~(p.state = "DISCONNECT_LATER" /\ ~HasOutgoing(q))
  <2>1. ASSUME OneDialer PROVE Waits(q)
    <3>1. CASE p.state = "CONNECTING"
      <4>1. h \in Dialers
        BY <1>11, <2>1, <3>1 DEF Ends
      <4>2. R.type # "CONNECT"
        <5>1. ASSUME NEW x \in p.sent, x.seq = c.seq, x.ch = c.ch PROVE x.type # "CONNECT"
          <6>1. DialerCmd(x)
            BY <1>11, <2>1, <4>1 DEF Stock, CmdOK
          <6> QED BY <2>1, <4>1, <5>1, <6>1 DEF DialerCmd
        <5> QED BY <1>2, <5>1
      <4> QED BY <1>3, <1>4, <1>11, <2>1, <3>1, <4>2 DEF Waits
    <3>2. CASE p.state # "CONNECTING"
      BY <1>3, <1>11, <1>15, <2>1, <3>2 DEF Waits
    <3> QED BY <3>1, <3>2
  <2>2. HandleAcknowledge(H, i, c, event).H = G
    BY <1>5, <1>6, <1>15
  <2> QED BY <1>8, <1>10, <2>1, <2>2 DEF PeerOK
<1> QED BY <1>12, <1>13, <1>14, <1>15

\* Fields the invariant does not look at, and a packet more for a connected peer.
LEMMA SameOK ==
    ASSUME NEW h, NEW p, NEW q, NEW t,
           q.state = p.state, q.out = p.out, q.sent = p.sent, q.acks = p.acks,
           q.addr = p.addr, q.seq = p.seq, p.flag => q.flag,
           q.data = p.data \/ (p.state = "CONNECTED" /\ q.flag)
    PROVE  /\ PeerFit(h, p, t) => PeerFit(h, q, t)
           /\ PeerOK(h, p, t) => PeerOK(h, q, t)
<1>1. EventOK(p, t) => EventOK(q, t)
  <2>1. KnownAs(q) = KnownAs(p)
    BY DEF KnownAs
  <2>2. EventOK(p, t) => (Eventful(q) => q.flag)
    BY DEF EventOK, Eventful
  <2>3. EventOK(p, t) => (q.state \in Early => q.data = 0)
    BY DEF EventOK, Early
  <2> QED BY <2>1, <2>2, <2>3 DEF EventOK
<1>2. Ends(h, p) => Ends(h, q)
  BY DEF Ends
<1>3. Stock(h, p) => Stock(h, q)
  BY DEF Stock
<1>4. Waits(p) => Waits(q)
  BY DEF Waits, Holds, HasOutgoing
<1> QED BY <1>1, <1>2, <1>3, <1>4 DEF PeerOK, PeerFit

\* enet_protocol_handle_verify_connect
Verified(p, b) == [p EXCEPT !.outID = b.id, !.inS = b.inS, !.outS = b.outS, !.bw = b.bw]

LEMMA VerifyGood ==
    ASSUME NEW h, NEW H \in HostType(h), NEW i \in Range1(h), NEW event \in BOOLEAN,
           NEW b \in Offer,
           PeerOK(h, H.peer[i], H.told[i])
    PROVE  Good(h, H, HandleVerify(H, i, b, event).H, i)
<1> DEFINE p == H.peer[i]
           t == H.told[i]
           A == RemoveSent(H, i, 1, 255).H
           G == [A EXCEPT !.peer[i] = [@ EXCEPT !.outID = b.id, !.inS = b.inS, !.outS = b.outS,
                                                !.bw = b.bw]]
<1>1. p \in PeerType /\ PeerFit(h, p, t)
  BY HostFields DEF PeerOK
<1>2. HandleVerify(H, i, b, event).H =
        IF p.state # "CONNECTING" THEN H
        ELSE IF b.cid # p.cid \/ b.thr # p.thr THEN DispatchState(H, i, "ZOMBIE")
        ELSE NotifyConnect(G, i, event)
  BY DEF HandleVerify, Ok, Error
<1>3. CASE p.state # "CONNECTING"
  BY <1>2, <1>3, LinkedSelf DEF Good
<1>4. CASE p.state = "CONNECTING" /\ (b.cid # p.cid \/ b.thr # p.thr)
  <2>1. t \in {"connecting", "connected"} /\ p.state # "DISCONNECTED"
    BY <1>1, <1>4, KnownStates
  <2> HIDE DEF G
  <2> QED BY <1>1, <1>2, <1>4, <2>1, ZombieGood
<1>5. CASE p.state = "CONNECTING" /\ ~(b.cid # p.cid \/ b.thr # p.thr)
  <2>1. PICK left \in SUBSET p.sent : Becomes(h, H, A, i, Leaves(p, left), t)
    BY RemoveSentBecomes
  <2> DEFINE q == Leaves(p, left)
             v == Verified(q, b)
  <2>2. /\ q \in PeerType /\ q.state = p.state /\ q.out = p.out /\ q.sent = left
        /\ q.acks = p.acks /\ q.addr = p.addr /\ q.seq = p.seq /\ q.data = p.data
        /\ q.flag = p.flag
    BY <1>1 DEF PeerType, Leaves
  <2>3. HandleVerify(H, i, b, event).H = NotifyConnect(G, i, event)
    BY <1>2, <1>5
  <2> HIDE DEF q
  <2>4. /\ v \in PeerType /\ v.state = q.state /\ v.out = q.out /\ v.sent = q.sent
        /\ v.acks = q.acks /\ v.addr = q.addr /\ v.seq = q.seq /\ v.data = q.data
        /\ v.flag = q.flag
    <3>1. b.id \in Int /\ b.inS \in Sessions /\ b.outS \in Sessions /\ b.bw \in Nat
      BY DEF Offer
    <3> QED BY <2>2, <3>1 DEF PeerType, Verified
  <2> HIDE DEF A
  <2>5. A \in HostType(h) /\ A.peer[i] = q /\ A.told[i] = t
    BY <2>1, BecomesTyped DEF q
  <2>6. G = WithPeer(A, i, v)
    BY <2>5 DEF WithPeer, Verified
  <2> HIDE DEF v, G, p, t
  <2>7. Counts(v) = Counts(q) /\ Limits(v) = Limits(q)
    BY <1>5, <2>2, <2>4 DEF Counts, Limits, Connected
  <2>8. Becomes(h, A, G, i, v, t)
    BY <2>4, <2>5, <2>6, <2>7, WithPeerBecomes
  <2>9. Becomes(h, H, G, i, v, t)
    BY <2>1, <2>8, BecomesTransitive DEF q
  <2>10. PeerFit(h, q, t)
    <3>1. EventOK(q, t)
      <4>1. EventOK(p, t)
        BY <1>1 DEF PeerFit
      <4> QED BY <2>2, <4>1 DEF EventOK, KnownAs, Eventful
    <3>2. ASSUME OneDialer PROVE Ends(h, q) /\ Stock(h, q)
      <4>1. Less(p, q)
        BY <2>2 DEF Less
      <4>2. Ends(h, p) /\ Stock(h, p) /\ p.state # "DISCONNECTED"
        BY <1>1, <1>5, <3>2 DEF PeerFit
      <4> QED BY <1>5, <2>2, <4>1, <4>2, LessFit
    <3> QED BY <3>1, <3>2 DEF PeerFit
  <2>11. PeerFit(h, v, t)
    BY <2>4, <2>10, SameOK
  <2>12. G \in HostType(h) /\ G.peer[i] = v /\ G.told[i] = t
    BY <2>9, BecomesTyped
  <2>13. Good(h, G, NotifyConnect(G, i, event), i)
    BY <1>5, <2>2, <2>4, <2>11, <2>12, NotifyConnectGood
  <2> QED BY <2>3, <2>9, <2>13, GoodTransitive
<1> QED BY <1>3, <1>4, <1>5

\* The acknowledgement that a handled command asks for.
Acked(H, i, c) ==
    IF Acknowledges(H.peer[i], c) THEN [H EXCEPT !.peer[i].acks = @ \cup {c}] ELSE H
Owing(p, c) == [p EXCEPT !.acks = @ \cup {c}]

LEMMA AckedGood ==
    ASSUME NEW h, NEW H \in HostType(h), NEW i \in Range1(h), NEW c \in Cmd,
           PeerFit(h, H.peer[i], H.told[i]),
           OneDialer => Waits(H.peer[i]) \/ (/\ H.peer[i].state = "ACKNOWLEDGING_DISCONNECT"
                                             /\ c.type = "DISCONNECT" /\ c.rel),
           c.type = "DISCONNECT" => H.peer[i].state \in {"ACKNOWLEDGING_DISCONNECT", "ZOMBIE",
                                                         "DISCONNECTED"},
           OneDialer /\ c.rel => AckOK(h, c)
    PROVE  Good(h, H, Acked(H, i, c), i)
<1> DEFINE p == H.peer[i]
           t == H.told[i]
           q == Owing(p, c)
<1>1. p \in PeerType
  BY HostFields
<1>2. CASE Acknowledges(p, c)
  <2>1. /\ q \in PeerType /\ q.state = p.state /\ q.out = p.out /\ q.sent = p.sent
        /\ q.acks = p.acks \cup {c} /\ q.addr = p.addr /\ q.seq = p.seq /\ q.data = p.data
        /\ q.flag = p.flag /\ q.bw = p.bw
    BY <1>1 DEF PeerType, Owing
  <2>2. Acked(H, i, c) = WithPeer(H, i, q)
    BY <1>2 DEF Acked, WithPeer, Owing
  <2>3. c.rel /\ p.state \notin {"DISCONNECTING", "ACKNOWLEDGING_CONNECT", "DISCONNECTED", "ZOMBIE"}
    BY <1>2 DEF Acknowledges
  <2> HIDE DEF q
  <2>4. Counts(q) = Counts(p) /\ Limits(q) = Limits(p)
    BY <2>1 DEF Counts, Limits
  <2>5. Becomes(h, H, Acked(H, i, c), i, q, t)
    BY <2>1, <2>2, <2>4, WithPeerBecomes
  <2> HIDE DEF p, t
  <2>6. EventOK(q, t)
    <3>1. EventOK(p, t) /\ (c.type = "DISCONNECT" => p.state = "ACKNOWLEDGING_DISCONNECT")
      BY <2>3 DEF PeerFit, p, t
    <3>2. (\E a \in q.acks : a.type = "DISCONNECT")
             => q.state \in {"ACKNOWLEDGING_DISCONNECT", "ZOMBIE"}
      BY <2>1, <3>1 DEF EventOK
    <3> QED BY <2>1, <2>3, <3>1, <3>2 DEF EventOK, KnownAs, Eventful
  <2>7. ASSUME OneDialer PROVE Ends(h, q) /\ Stock(h, q) /\ Waits(q)
    <3>1. Ends(h, p) /\ Stock(h, p) /\ AckOK(h, c)
      BY <2>3, <2>7 DEF PeerFit, p
    <3>2. Ends(h, q)
      BY <2>1, <3>1 DEF Ends
    <3>3. Stock(h, q)
      BY <2>1, <3>1 DEF Stock
    <3>4. Waits(q)
      BY <2>1, <2>7 DEF Waits, Holds, HasOutgoing, p
    <3> QED BY <3>2, <3>3, <3>4
  <2> QED BY <2>5, <2>6, <2>7, BecomesGood DEF PeerOK, PeerFit
<1>3. CASE ~Acknowledges(p, c)
  <2>1. Acked(H, i, c) = H
    BY <1>3 DEF Acked
  <2>2. ~(p.state = "ACKNOWLEDGING_DISCONNECT" /\ c.type = "DISCONNECT" /\ c.rel)
    BY <1>3 DEF Acknowledges
  <2>3. PeerOK(h, p, t)
    BY <2>2 DEF PeerOK
  <2> QED BY <2>1, <2>3, LinkedSelf DEF Good
<1> QED BY <1>2, <1>3

\* A command acknowledged after an operation that was right.
LEMMA GoodAcked ==
    ASSUME NEW h, NEW H \in HostType(h), NEW G, NEW i \in Range1(h), NEW c \in Cmd,
           Good(h, H, G, i),
           c.type = "DISCONNECT" => G.peer[i].state \in {"ACKNOWLEDGING_DISCONNECT", "ZOMBIE",
                                                         "DISCONNECTED"},
           OneDialer /\ c.rel => AckOK(h, c)
    PROVE  Good(h, H, Acked(G, i, c), i)
<1>1. G \in HostType(h) /\ Linked(h, H, G, i) /\ PeerOK(h, G.peer[i], G.told[i])
  BY DEF Good, Linked
<1>2. Good(h, G, Acked(G, i, c), i)
  BY <1>1, AckedGood DEF PeerOK
<1> QED BY <1>1, <1>2, LinkedTransitive DEF Good

\* enet_protocol_handle_disconnect
LEMMA DisconnectGood ==
    ASSUME NEW h, NEW H \in HostType(h), NEW i \in Range1(h), NEW c \in Cmd,
           c.type = "DISCONNECT",
           PeerOK(h, H.peer[i], H.told[i]), H.peer[i].state # "DISCONNECTED",
           OneDialer /\ c.rel => AckOK(h, c)
    PROVE  Good(h, H, Acked(HandleDisconnect(H, i, c).H, i, c), i)
<1> DEFINE p == H.peer[i]
           s == p.state
           t == H.told[i]
           q == Emptied(p)
           A == ResetQueues(H, i)
           r == A.recalculate \/ s = "CONNECTION_PENDING"
           B == [A EXCEPT !.recalculate = r]
           K == HandleDisconnect(H, i, c).H
<1>1. p \in PeerType /\ PeerFit(h, p, t) /\ s \in States
  BY HostFields DEF PeerOK, PeerType
<1>2. Becomes(h, H, A, i, q, t)
  BY ResetQueuesBecomes
<1>3. /\ q \in PeerType /\ q.state = s /\ q.flag = FALSE /\ q.acks = {} /\ q.sent = {}
      /\ q.out = {} /\ q.data = 0 /\ q.seq = p.seq /\ q.addr = p.addr /\ q.bw = p.bw
  BY <1>1, EmptiedFields
<1>4. /\ s \in {"ZOMBIE", "ACKNOWLEDGING_DISCONNECT"} => K = H
      /\ \/ s \in {"CONNECTION_SUCCEEDED", "DISCONNECTING", "CONNECTING"}
         \/ s \in Connected /\ ~c.rel
         => K = DispatchState(A, i, "ZOMBIE")
      /\ s \in {"ACKNOWLEDGING_CONNECT", "CONNECTION_PENDING"} => K = PeerReset(B, i)
      /\ s \in Connected /\ c.rel => K = ChangeState(A, i, "ACKNOWLEDGING_DISCONNECT")
  <2>1. CASE s \in {"ZOMBIE", "ACKNOWLEDGING_DISCONNECT"}
    BY <2>1 DEF HandleDisconnect, Ok, Connected
  <2>2. CASE s \in {"CONNECTION_SUCCEEDED", "DISCONNECTING", "CONNECTING"}
    BY <2>2 DEF HandleDisconnect, Ok, Connected
  <2>3. CASE s \in {"ACKNOWLEDGING_CONNECT", "CONNECTION_PENDING"}
    BY <2>3 DEF HandleDisconnect, Ok, Connected
  <2>4. CASE s \in Connected
    BY <2>4 DEF HandleDisconnect, Ok, Connected
  <2> QED BY <2>1, <2>2, <2>3, <2>4
<1>5. /\ "ZOMBIE" \in States /\ "ACKNOWLEDGING_DISCONNECT" \in States
  BY DEF States
<1> HIDE DEF A, B, q, K
<1>6. A \in HostType(h) /\ A.peer[i] = q /\ A.told[i] = t
  BY <1>2, BecomesTyped
<1>7. Less(p, q)
  BY <1>3 DEF Less
<1> DEFINE z == Marked(q, "ZOMBIE")
<1>8. CASE s \in {"ZOMBIE", "ACKNOWLEDGING_DISCONNECT"}
  <2>1. K = H
    BY <1>4, <1>8
  <2>2. Good(h, H, H, i)
    BY LinkedSelf DEF Good
  <2> QED BY <1>8, <2>1, <2>2, GoodAcked DEF K
<1>9. CASE \/ s \in {"CONNECTION_SUCCEEDED", "DISCONNECTING", "CONNECTING"}
           \/ s \in Connected /\ ~c.rel
  <2>1. K = DispatchState(A, i, "ZOMBIE")
    BY <1>4, <1>9 DEF Connected
  <2>2. Becomes(h, A, K, i, z, t)
    BY <1>5, <1>6, <2>1, DispatchStateBecomes
  <2>3. /\ z.state = "ZOMBIE" /\ z.flag = TRUE /\ z.acks = q.acks /\ z.sent = q.sent
        /\ z.out = q.out /\ z.seq = q.seq /\ z.addr = q.addr
    BY <1>3, <1>5, MarkedFields
  <2>4. t \in {"connecting", "connected"}
    BY <1>1, <1>9, KnownStates DEF Connected
  <2> HIDE DEF z, p, t
  <2>5. Less(p, z)
    BY <1>3, <2>3 DEF Less
  <2>6. PeerOK(h, z, t)
    BY <1>1, <2>3, <2>4, <2>5, ZombieOK DEF p
  <2>7. Becomes(h, H, K, i, z, t)
    BY <1>2, <2>2, BecomesTransitive
  <2>8. Good(h, H, K, i) /\ K.peer[i] = z
    BY <2>6, <2>7, BecomesGood DEF Becomes
  <2> QED BY <2>3, <2>8, GoodAcked DEF K
<1>10. CASE s \in {"ACKNOWLEDGING_CONNECT", "CONNECTION_PENDING"}
  <2>1. K = PeerReset(B, i)
    BY <1>4, <1>10
  <2>2. r \in BOOLEAN /\ t \in {"none", "asked"}
    BY <1>1, <1>6, <1>10, HostFields, KnownStates
  <2>3. Becomes(h, A, B, i, q, t)
    BY <1>6, <2>2, RecalculateBecomes DEF B
  <2>4. Becomes(h, H, B, i, q, t)
    BY <1>2, <2>3, BecomesTransitive
  <2>5. B \in HostType(h) /\ B.told[i] = t /\ B.peer[i] = q
    BY <2>4, BecomesTyped
  <2>6. Good(h, B, K, i)
    BY <2>1, <2>2, <2>5, ResetGood
  <2>7. Good(h, H, K, i)
    BY <2>4, <2>6, GoodTransitive
  <2>8. K.peer[i] = Cleared(q)
    BY <2>1, <2>5, PeerResetBecomes DEF Becomes
  <2>9. K.peer[i].state = "DISCONNECTED"
    BY <1>3, <2>8, ClearedFields
  <2> QED BY <2>7, <2>9, GoodAcked DEF K
<1>11. CASE s \in Connected /\ c.rel
  <2> DEFINE e == [q EXCEPT !.state = "ACKNOWLEDGING_DISCONNECT"]
  <2>1. K = ChangeState(A, i, "ACKNOWLEDGING_DISCONNECT")
    BY <1>4, <1>11 DEF Connected
  <2>2. Becomes(h, A, K, i, e, t)
    BY <1>5, <1>6, <2>1, ChangeStateBecomes
  <2>3. /\ e.state = "ACKNOWLEDGING_DISCONNECT" /\ e.flag = FALSE /\ e.acks = {} /\ e.sent = {}
        /\ e.out = {} /\ e.seq = p.seq /\ e.addr = p.addr /\ e.data = 0
    BY <1>3 DEF PeerType
  <2> HIDE DEF e
  <2>4. Becomes(h, H, K, i, e, t)
    BY <1>2, <2>2, BecomesTransitive
  <2>5. K \in HostType(h) /\ K.peer[i] = e /\ K.told[i] = t
    BY <2>4, BecomesTyped
  <2>6. t = "connected"
    BY <1>1, <1>11, KnownStates DEF Connected
  <2>7. PeerFit(h, e, t)
    <3>1. EventOK(e, t)
      BY <2>3, <2>6 DEF EventOK, KnownAs, Early, Eventful
    <3>2. ASSUME OneDialer PROVE Ends(h, e) /\ Stock(h, e)
      <4>1. Ends(h, p) /\ Stock(h, p) /\ p.state # "DISCONNECTED"
        BY <1>1, <3>2 DEF PeerFit
      <4> HIDE DEF p
      <4>2. Less(p, e)
        BY <2>3 DEF Less
      <4> QED BY <2>3, <4>1, <4>2, LessFit
    <3> QED BY <3>1, <3>2 DEF PeerFit
  <2>8. Good(h, K, Acked(K, i, c), i)
    BY <1>11, <2>3, <2>5, <2>7, AckedGood
  <2> QED BY <2>4, <2>8, GoodTransitive DEF K
<1> QED BY <1>1, <1>8, <1>9, <1>10, <1>11 DEF States, Connected

\* enet_protocol_handle_bandwidth_limit: the counter follows the limit.
Limited(H, i, bw) ==
    [H EXCEPT !.peer[i].bw = bw,
              !.limited = @ - (IF H.peer[i].bw # 0 THEN 1 ELSE 0) + (IF bw # 0 THEN 1 ELSE 0)]

LEMMA LimitedGood ==
    ASSUME NEW h, NEW H \in HostType(h), NEW i \in Range1(h), NEW bw \in Nat,
           PeerOK(h, H.peer[i], H.told[i]), H.peer[i].state \in Connected
    PROVE  Good(h, H, Limited(H, i, bw), i)
<1> DEFINE p == H.peer[i]
           q == [p EXCEPT !.bw = bw]
           n == H.limited - (IF p.bw # 0 THEN 1 ELSE 0) + (IF bw # 0 THEN 1 ELSE 0)
           G == Limited(H, i, bw)
<1>1. p \in PeerType /\ H.limited \in Int
  BY HostFields
<1>2. /\ q \in PeerType /\ q.state = p.state /\ q.out = p.out /\ q.sent = p.sent
      /\ q.acks = p.acks /\ q.addr = p.addr /\ q.seq = p.seq /\ q.data = p.data
      /\ q.flag = p.flag /\ q.bw = bw
  BY <1>1 DEF PeerType
<1>3. n \in Int /\ n - (IF bw # 0 THEN 1 ELSE 0) = H.limited - (IF p.bw # 0 THEN 1 ELSE 0)
  BY <1>1
<1>4. G = [H EXCEPT !.peer[i] = q, !.limited = n]
  BY DEF Limited
<1> HIDE DEF n, q, G
<1>5. /\ G \in HostType(h) /\ G.peer[i] = q /\ G.told = H.told /\ G.queue = H.queue
      /\ G.connected = H.connected /\ G.limited = n
      /\ \A j \in Range1(h) \ {i} : G.peer[j] = H.peer[j]
  BY <1>2, <1>3, <1>4 DEF HostType
<1>6. /\ Counts(q) = Counts(p) /\ Limits(p) = (IF p.bw # 0 THEN 1 ELSE 0)
      /\ Limits(q) = (IF bw # 0 THEN 1 ELSE 0)
  BY <1>2 DEF Counts, Limits
<1>7. Linked(h, H, G, i)
  BY <1>2, <1>3, <1>5, <1>6 DEF Linked, Queued
<1>8. PeerOK(h, q, H.told[i])
  BY <1>2, SameOK
<1> QED BY <1>5, <1>7, <1>8 DEF Good, G

LEMMA WithPeerGood ==
    ASSUME NEW h, NEW H \in HostType(h), NEW i \in Range1(h), NEW p \in PeerType,
           Counts(p) = Counts(H.peer[i]), Limits(p) = Limits(H.peer[i]),
           p.flag => H.peer[i].flag, PeerOK(h, p, H.told[i])
    PROVE  Good(h, H, WithPeer(H, i, p), i)
  BY WithPeerBecomes, BecomesGood

\* A packet comes in, and the peer is queued for it.
Fetched(p, n) == [p EXCEPT !.got = n, !.data = @ + 1]
Delivered(p, n) == [Fetched(p, n) EXCEPT !.flag = TRUE]

LEMMA PacketGood ==
    ASSUME NEW h, NEW H \in HostType(h), NEW i \in Range1(h), NEW n \in Nat,
           PeerOK(h, H.peer[i], H.told[i]), H.peer[i].state = "CONNECTED"
    PROVE  Good(h, H, Enqueue(WithPeer(H, i, Fetched(H.peer[i], n)), i), i)
<1> DEFINE p == H.peer[i]
           f == Fetched(p, n)
           q == Delivered(p, n)
           A == WithPeer(H, i, f)
<1>1. p \in PeerType
  BY HostFields
<1>2. f \in PeerType /\ f.state = p.state /\ f.bw = p.bw /\ f.flag = p.flag
  <2>1. p.data + 1 \in Nat
    BY <1>1 DEF PeerType
  <2>2. f = [p EXCEPT !.got = n, !.data = p.data + 1]
    BY DEF Fetched
  <2> DEFINE m == p.data + 1
  <2> HIDE DEF m
  <2>3. f = [p EXCEPT !.got = n, !.data = m] /\ m \in Nat
    BY <2>1, <2>2 DEF m
  <2> HIDE DEF f, p
  <2>4. f \in PeerType
    BY <1>1, <2>3 DEF PeerType
  <2>5. f.state = p.state /\ f.bw = p.bw /\ f.flag = p.flag
    BY <1>1, <2>3 DEF PeerType
  <2> QED BY <2>4, <2>5
<1>3. /\ q.state = p.state /\ q.out = p.out /\ q.sent = p.sent /\ q.acks = p.acks
      /\ q.addr = p.addr /\ q.seq = p.seq /\ q.flag = TRUE
  BY <1>1 DEF PeerType, Delivered, Fetched
<1>4. q = [f EXCEPT !.flag = TRUE]
  BY DEF Delivered
<1> HIDE DEF f, q, A
<1>5. Counts(f) = Counts(p) /\ Limits(f) = Limits(p)
  BY <1>2 DEF Counts, Limits
<1>6. Becomes(h, H, A, i, f, H.told[i])
  BY <1>2, <1>5, WithPeerBecomes DEF A
<1>7. A \in HostType(h) /\ A.peer[i] = f /\ A.told[i] = H.told[i]
  BY <1>6, BecomesTyped
<1>8. Becomes(h, A, Enqueue(A, i), i, q, H.told[i])
  BY <1>4, <1>7, EnqueueBecomes
<1>9. Becomes(h, H, Enqueue(A, i), i, q, H.told[i])
  BY <1>6, <1>8, BecomesTransitive
<1>10. PeerOK(h, q, H.told[i])
  BY <1>3, SameOK
<1> QED BY <1>9, <1>10, BecomesGood DEF A, f

LEMMA HandleConnectedGood ==
    ASSUME NEW h, NEW H \in HostType(h), NEW i \in Range1(h), NEW c \in Cmd,
           c.type \in {"PING", "BANDWIDTH_LIMIT", "THROTTLE_CONFIGURE", "SEND"},
           PeerOK(h, H.peer[i], H.told[i])
    PROVE  Good(h, H, HandleConnected(H, i, c).H, i)
<1> DEFINE p == H.peer[i]
           q == [p EXCEPT !.thr = 1]
           K == HandleConnected(H, i, c).H
<1>1. p \in PeerType /\ c.seq \in Nat /\ (c.type = "BANDWIDTH_LIMIT" => c.body \in Nat)
  BY HostFields DEF Cmd, CmdBase
<1>2. Good(h, H, H, i)
  BY LinkedSelf DEF Good
<1>3. CASE p.state \notin Connected \/ c.type = "PING"
  BY <1>2, <1>3 DEF HandleConnected, Ok, Error
<1>4. CASE p.state \in Connected /\ c.type = "BANDWIDTH_LIMIT"
  <2>1. K = Limited(H, i, c.body)
    BY <1>4 DEF HandleConnected, Ok, Limited
  <2> QED BY <1>1, <1>4, <2>1, LimitedGood
<1>5. CASE p.state \in Connected /\ c.type = "THROTTLE_CONFIGURE"
  <2>1. K = WithPeer(H, i, q)
    BY <1>5 DEF HandleConnected, Ok, WithPeer
  <2>2. /\ q \in PeerType /\ q.state = p.state /\ q.out = p.out /\ q.sent = p.sent
        /\ q.acks = p.acks /\ q.addr = p.addr /\ q.seq = p.seq /\ q.data = p.data
        /\ q.flag = p.flag /\ q.bw = p.bw
    BY <1>1 DEF PeerType
  <2> HIDE DEF q
  <2>3. Counts(q) = Counts(p) /\ Limits(q) = Limits(p)
    BY <2>2 DEF Counts, Limits
  <2>4. PeerOK(h, q, H.told[i])
    BY <2>2, SameOK
  <2> QED BY <2>1, <2>2, <2>3, <2>4, WithPeerGood
<1>6. CASE p.state \in Connected /\ c.type = "SEND"
  <2>1. CASE p.state = "DISCONNECT_LATER" \/ c.seq = p.got
    BY <1>2, <1>6, <2>1 DEF HandleConnected, Ok
  <2>2. CASE ~(p.state = "DISCONNECT_LATER" \/ c.seq = p.got)
    <3>1. K = Enqueue(WithPeer(H, i, Fetched(p, c.seq)), i)
      BY <1>6, <2>2 DEF HandleConnected, Ok, WithPeer, Fetched
    <3>2. p.state = "CONNECTED"
      BY <1>6, <2>2 DEF Connected
    <3> QED BY <1>1, <3>1, <3>2, PacketGood
  <2> QED BY <2>1, <2>2
<1> QED BY <1>3, <1>4, <1>5, <1>6

\* A command for a peer, handled and acknowledged.
LEMMA HandleGood ==
    ASSUME NEW h, NEW H \in HostType(h), NEW i \in Range1(h), NEW d \in DatagramType,
           NEW event \in BOOLEAN, PeerOK(h, H.peer[i], H.told[i]), Admits(H.peer[i], d),
           OneDialer => Carries(d)
    PROVE  LET res == Handle(H, i, d.cmd, event)
           IN  Good(h, H, IF res.ok /\ Acknowledges(res.H.peer[i], d.cmd)
                          THEN [res.H EXCEPT !.peer[i].acks = @ \cup {d.cmd}]
                          ELSE res.H, i)
<1> DEFINE c == d.cmd
           p == H.peer[i]
           res == Handle(H, i, c, event)
           K == IF res.ok THEN Acked(res.H, i, c) ELSE res.H
<1>1. /\ p \in PeerType /\ c \in Cmd /\ c.type \in Types /\ (c.type = "ACKNOWLEDGE" => ~c.rel)
      /\ (c.type = "VERIFY_CONNECT" => c.body \in Offer)
  BY HostFields DEF DatagramType, Cmd, CmdBase
<1>2. p.state # "DISCONNECTED" /\ p.addr = d.from
  BY DEF Admits
<1>3. ASSUME OneDialer PROVE /\ p.addr # h /\ (h \in Dialers \/ p.addr \in Dialers) /\ Carries(d)
  BY <1>2, <1>3 DEF PeerOK, PeerFit, Ends
<1>4. (OneDialer /\ h \in Dialers) => (c.type = "ACKNOWLEDGE" => (c.ch = 255 => c.seq >= 2))
  <2> SUFFICES ASSUME OneDialer, h \in Dialers, c.type = "ACKNOWLEDGE", c.ch = 255
               PROVE  c.seq >= 2
    OBVIOUS
  <2>1. d.from \notin Dialers
    BY <1>2, <1>3 DEF OneDialer
  <2> QED BY <1>3, <2>1 DEF Carries
<1>5. ASSUME c.type # "CONNECT", OneDialer, c.rel PROVE AckOK(h, c)
  <2>1. c.type \notin {"CONNECT", "ACKNOWLEDGE"}
    BY <1>1, <1>5
  <2> QED BY <1>2, <1>3, <1>5, <2>1 DEF AckOK, Carries
<1>6. K = IF res.ok /\ Acknowledges(res.H.peer[i], c)
          THEN [res.H EXCEPT !.peer[i].acks = @ \cup {c}] ELSE res.H
  BY DEF Acked
<1>7. Good(h, H, K, i)
  <2>1. CASE c.type = "CONNECT"
    <3>1. K = H
      BY <2>1 DEF Handle, Error
    <3> QED BY <3>1, LinkedSelf DEF Good
  <2>2. CASE c.type = "DISCONNECT"
    <3>1. res = HandleDisconnect(H, i, c)
      BY <2>2 DEF Handle
    <3>2. HandleDisconnect(H, i, c).ok
      <4>1. p.state \in States
        BY <1>1 DEF PeerType
      <4> QED BY <4>1 DEF HandleDisconnect, Ok, States, Connected
    <3>3. K = Acked(HandleDisconnect(H, i, c).H, i, c)
      BY <3>1, <3>2
    <3> QED BY <1>1, <1>2, <1>5, <2>2, <3>3, DisconnectGood
  <2>3. CASE c.type \notin {"CONNECT", "DISCONNECT"}
    <3>1. Good(h, H, res.H, i)
      <4>1. CASE c.type = "ACKNOWLEDGE"
        <5>1. res = HandleAcknowledge(H, i, c, event)
          BY <4>1 DEF Handle
        <5>2. OneDialer /\ h \in Dialers => (c.ch = 255 => c.seq >= 2)
          BY <1>4, <4>1
        <5> HIDE DEF c, res
        <5> QED BY <1>2, <5>1, <5>2, AcknowledgeGood
      <4>2. CASE c.type = "VERIFY_CONNECT"
        <5>1. res = HandleVerify(H, i, c.body, event)
          BY <4>2 DEF Handle
        <5> QED BY <1>1, <4>2, <5>1, VerifyGood
      <4>3. CASE c.type \in {"PING", "BANDWIDTH_LIMIT", "THROTTLE_CONFIGURE", "SEND"}
        <5>1. res = HandleConnected(H, i, c)
          BY <4>3 DEF Handle
        <5> QED BY <1>1, <4>3, <5>1, HandleConnectedGood
      <4> QED BY <1>1, <2>3, <4>1, <4>2, <4>3 DEF Types
    <3> HIDE DEF res, c
    <3>2. Good(h, H, Acked(res.H, i, c), i)
      BY <1>1, <1>5, <2>3, <3>1, GoodAcked
    <3> QED BY <3>1, <3>2
  <2> QED BY <2>1, <2>2, <2>3
<1> QED BY <1>6, <1>7
-----------------------------------------------------------------------------
(* A host whose peers are all at rest, and operations on one of them.      *)

LEMMA SameElsewhere ==
    ASSUME NEW S, IsFiniteSet(S), NEW A \in SUBSET S, NEW B \in SUBSET S, NEW i \in S,
           A \ {i} = B \ {i}
    PROVE  Cardinality(A) - (IF i \in A THEN 1 ELSE 0) = Cardinality(B) - (IF i \in B THEN 1 ELSE 0)
<1>1. IsFiniteSet(A) /\ IsFiniteSet(B) /\ IsFiniteSet(A \ {i}) /\ IsFiniteSet(B \ {i})
  BY FS_Subset
<1>2. /\ Cardinality(A) \in Nat /\ Cardinality(B) \in Nat /\ Cardinality(A \ {i}) \in Nat
  BY <1>1, FS_CardinalityType
<1>3. Cardinality(A \ {i}) = Cardinality(A) - (IF i \in A THEN 1 ELSE 0)
  BY <1>1, <1>2, FS_RemoveElement
<1>4. Cardinality(B \ {i}) = Cardinality(B) - (IF i \in B THEN 1 ELSE 0)
  BY <1>1, <1>2, FS_RemoveElement
<1> QED BY <1>3, <1>4

LEMMA LinkKeeps ==
    ASSUME NEW h \in Hosts, NEW H, NEW G, NEW i \in Range1(h),
           HostOK(h, H), Linked(h, H, G, i)
    PROVE  HostOK(h, G)
<1> DEFINE R == Range1(h)
           A == {j \in DOMAIN H.peer : H.peer[j].state \in Connected}
           B == {j \in DOMAIN G.peer : G.peer[j].state \in Connected}
           C == {j \in DOMAIN H.peer : H.peer[j].state \in Connected /\ H.peer[j].bw # 0}
           D == {j \in DOMAIN G.peer : G.peer[j].state \in Connected /\ G.peer[j].bw # 0}
<1>1. H \in HostType(h) /\ G \in HostType(h) /\ DOMAIN H.peer = R /\ DOMAIN G.peer = R
  BY HostFields DEF HostOK, Linked
<1>2. Slots[h] \in Nat
  BY ConstantsAssumption
<1>3. IsFiniteSet(R)
  BY <1>2, FS_Interval DEF Range1
<1>4. \A j \in R \ {i} : G.peer[j] = H.peer[j]
  BY DEF Linked
<1>5. /\ A \in SUBSET R /\ B \in SUBSET R /\ A \ {i} = B \ {i}
      /\ C \in SUBSET R /\ D \in SUBSET R /\ C \ {i} = D \ {i}
  BY <1>1, <1>4
<1>6. /\ (IF i \in A THEN 1 ELSE 0) = Counts(H.peer[i])
      /\ (IF i \in B THEN 1 ELSE 0) = Counts(G.peer[i])
      /\ (IF i \in C THEN 1 ELSE 0) = Limits(H.peer[i])
      /\ (IF i \in D THEN 1 ELSE 0) = Limits(G.peer[i])
  BY <1>1 DEF Counts, Limits
<1>7. /\ Cardinality(A) \in Nat /\ Cardinality(B) \in Nat
      /\ Cardinality(C) \in Nat /\ Cardinality(D) \in Nat
  <2>1. IsFiniteSet(A) /\ IsFiniteSet(B) /\ IsFiniteSet(C) /\ IsFiniteSet(D)
    BY <1>3, <1>5, FS_Subset
  <2> QED BY <2>1, FS_CardinalityType
<1>8. H.connected = Cardinality(A) /\ H.limited = Cardinality(C)
  BY DEF HostOK, Exact
<1> HIDE DEF A, B, C, D, R
<1>9. /\ Cardinality(A) - Counts(H.peer[i]) = Cardinality(B) - Counts(G.peer[i])
      /\ Cardinality(C) - Limits(H.peer[i]) = Cardinality(D) - Limits(G.peer[i])
  <2>1. i \in R
    BY DEF R
  <2>2. Cardinality(A) - (IF i \in A THEN 1 ELSE 0) = Cardinality(B) - (IF i \in B THEN 1 ELSE 0)
    BY <1>3, <1>5, <2>1, SameElsewhere
  <2>3. Cardinality(C) - (IF i \in C THEN 1 ELSE 0) = Cardinality(D) - (IF i \in D THEN 1 ELSE 0)
    BY <1>3, <1>5, <2>1, SameElsewhere
  <2> QED BY <1>6, <2>2, <2>3
<1>10. G.connected = Cardinality(B) /\ G.limited = Cardinality(D)
  <2>1. /\ G.connected \in Int /\ G.limited \in Int
    BY <1>1, HostFields
  <2>2. /\ Counts(H.peer[i]) \in Int /\ Counts(G.peer[i]) \in Int
        /\ Limits(H.peer[i]) \in Int /\ Limits(G.peer[i]) \in Int
    BY CountTypes
  <2>3. /\ G.connected - Counts(G.peer[i]) = H.connected - Counts(H.peer[i])
        /\ G.limited - Limits(G.peer[i]) = H.limited - Limits(H.peer[i])
    BY DEF Linked
  <2> QED BY <1>7, <1>8, <1>9, <2>1, <2>2, <2>3
<1>11. Exact(G)
  BY <1>10 DEF Exact, B, D
<1>12. \A j \in Range1(h) : Queued(G, j)
  <2> SUFFICES ASSUME NEW j \in Range1(h) PROVE Queued(G, j)
    OBVIOUS
  <2>1. Queued(H, j)
    BY DEF HostOK
  <2> QED BY <2>1 DEF Linked, Queued
<1> QED BY <1>1, <1>11, <1>12 DEF HostOK

\* A host between two operations, and one whose peers are right if they were.
AtRest(h, H) == HostOK(h, H) /\ \A j \in Range1(h) : PeerOK(h, H.peer[j], H.told[j])
Kept(h, H, G) ==
    /\ HostOK(h, G)
    /\ \A j \in Range1(h) : PeerOK(h, H.peer[j], H.told[j]) => PeerOK(h, G.peer[j], G.told[j])

LEMMA GoodAtRest ==
    ASSUME NEW h \in Hosts, NEW H, NEW G, NEW i \in Range1(h), AtRest(h, H), Good(h, H, G, i)
    PROVE  AtRest(h, G)
<1>1. HostOK(h, G)
  BY LinkKeeps DEF AtRest, Good
<1>2. \A j \in Range1(h) \ {i} : G.peer[j] = H.peer[j] /\ G.told[j] = H.told[j]
  BY DEF Good, Linked
<1> QED BY <1>1, <1>2 DEF AtRest, Good

LEMMA AtRestTyped ==
    ASSUME NEW h, NEW H, AtRest(h, H)
    PROVE  H \in HostType(h) /\ HostOK(h, H)
  BY DEF AtRest, HostOK
-----------------------------------------------------------------------------
(* Commands that are queued.                                               *)

\* A command more in a peer that is in use.
LEMMA PushedKeeps ==
    ASSUME NEW h, NEW p \in PeerType, NEW c \in Cmd, p.state # "DISCONNECTED",
           c.type \notin {"CONNECT", "ACKNOWLEDGE"}
    PROVE  /\ Ends(h, p) /\ Stock(h, p) => Ends(h, Pushed(p, c)) /\ Stock(h, Pushed(p, c))
           /\ \A t : PeerOK(h, p, t) => PeerOK(h, Pushed(p, c), t)
<1> DEFINE q == Pushed(p, c)
           x == Numbered(p, c)
<1>1. /\ q \in PeerType /\ q.state = p.state /\ q.flag = p.flag /\ q.acks = p.acks
      /\ q.sent = p.sent /\ q.data = p.data /\ q.addr = p.addr
      /\ q.out = p.out \cup {x} /\ x.type = c.type /\ x.ch = c.ch
      /\ x.seq = NextSeq(p, c)
      /\ q.seq = IF c.ch = 0 THEN p.seq ELSE p.seq + 1
  BY PushedFields
<1>2. p.seq \in Nat /\ c.ch \in {0, 255}
  BY DEF PeerType, Cmd, CmdBase
<1> HIDE DEF q, x
<1>3. ASSUME Ends(h, p), Stock(h, p) PROVE Ends(h, q) /\ Stock(h, q)
  <2>1. h \in Dialers => p.seq >= 1
    BY <1>3 DEF Ends
  <2>2. Ends(h, q)
    BY <1>1, <1>2, <1>3, <2>1 DEF Ends
  <2>3. CmdOK(h, x)
    BY <1>1, <1>2, <2>1 DEF CmdOK, DialerCmd, AcceptorCmd, NextSeq
  <2>4. Stock(h, q)
    BY <1>1, <1>3, <2>3 DEF Stock
  <2> QED BY <2>2, <2>4
<1>4. ASSUME NEW t, EventOK(p, t) PROVE EventOK(q, t)
  BY <1>1, <1>4 DEF EventOK, KnownAs, Eventful
<1>5. Waits(p) => Waits(q)
  BY <1>1 DEF Waits, Holds, HasOutgoing
<1> QED BY <1>3, <1>4, <1>5 DEF PeerOK, PeerFit, q

LEMMA QueueOutgoingGood ==
    ASSUME NEW h, NEW H \in HostType(h), NEW i \in Range1(h), NEW c \in Cmd,
           PeerOK(h, H.peer[i], H.told[i]), H.peer[i].state # "DISCONNECTED",
           c.type \notin {"CONNECT", "ACKNOWLEDGE"}
    PROVE  Good(h, H, QueueOutgoing(H, i, c), i)
<1>1. H.peer[i] \in PeerType
  BY HostFields
<1>2. PeerOK(h, Pushed(H.peer[i], c), H.told[i])
  BY <1>1, PushedKeeps
<1> QED BY <1>2, QueueOutgoingBecomes, BecomesGood

\* The first command of a new connection: q is a free peer p, taken.
LEMMA FirstCommand ==
    ASSUME NEW h, NEW p, NEW q \in PeerType, NEW c \in Cmd, NEW t, NEW u,
           PeerOK(h, p, t), p.state = "DISCONNECTED",
           q.out = p.out, q.sent = p.sent, q.acks = p.acks, q.data = p.data, q.seq = p.seq,
           c.rel, c.ch = 255,
           \/ q.state = "CONNECTING" /\ c.type = "CONNECT" /\ u = "connecting"
           \/ q.state = "ACKNOWLEDGING_CONNECT" /\ c.type = "VERIFY_CONNECT" /\ u = t,
           OneDialer => /\ q.addr \in Hosts /\ q.addr # h
                        /\ IF h \in Dialers THEN q.state = "CONNECTING"
                           ELSE q.state = "ACKNOWLEDGING_CONNECT" /\ q.addr \in Dialers
    PROVE  PeerOK(h, Pushed(q, c), u)
<1> DEFINE r == Pushed(q, c)
           x == Numbered(q, c)
<1>1. /\ r \in PeerType /\ r.state = q.state /\ r.flag = q.flag /\ r.acks = q.acks
      /\ r.sent = q.sent /\ r.data = q.data /\ r.addr = q.addr
      /\ r.out = q.out \cup {x} /\ x.type = c.type /\ x.ch = 255 /\ x.rel
      /\ x.seq = q.seq + 1 /\ r.seq = q.seq + 1
  BY PushedFields DEF NextSeq
<1>2. q.seq \in Nat
  BY DEF PeerType
<1> HIDE DEF r, x
<1>3. EventOK(r, u)
  <2>1. t \in {"none", "asked"} /\ p.acks = {} /\ p.data = 0
    BY DEF PeerOK, PeerFit, EventOK, KnownAs, Early
  <2>2. u \in KnownAs(r)
    BY <1>1, <2>1 DEF KnownAs
  <2> QED BY <1>1, <2>1, <2>2 DEF EventOK, Eventful, Early
<1>4. ASSUME OneDialer PROVE Ends(h, r) /\ Stock(h, r)
  <2>1. Ends(h, p) /\ Stock(h, p)
    BY <1>4 DEF PeerOK, PeerFit
  <2>2. h \in Dialers => q.seq = 0
    BY <2>1 DEF Ends
  <2>3. Ends(h, r)
    BY <1>1, <1>2, <1>4 DEF Ends
  <2>4. CmdOK(h, x)
    BY <1>1, <1>2, <1>4, <2>2 DEF CmdOK, DialerCmd, AcceptorCmd
  <2>5. Stock(h, r)
    BY <1>1, <2>1, <2>4 DEF Stock
  <2> QED BY <2>3, <2>5
<1>5. Waits(r)
  BY <1>1 DEF Waits, Holds
<1> QED BY <1>3, <1>4, <1>5 DEF PeerOK, PeerFit, r

LEMMA SessionTyped ==
    ASSUME NEW given \in Sessions, NEW own \in Sessions
    PROVE  NextSession(given, own) \in Sessions
<1> DEFINE a == IF given = NoID THEN own ELSE given
           s == (a + 1) % 4
<1>1. a \in Nat /\ own \in Nat
  BY DEF Sessions, NoID
<1>2. s \in 0 .. 3 /\ (s + 1) % 4 \in 0 .. 3
  <2> HIDE DEF a
  <2>1. s \in 0 .. 3
    BY <1>1
  <2> HIDE DEF s
  <2> QED BY <2>1
<1>3. NextSession(given, own) \in {s, (s + 1) % 4}
  BY DEF NextSession
<1> HIDE DEF s
<1> QED BY <1>2, <1>3 DEF Sessions

ConnectCmd(v) == Command("CONNECT", TRUE, v)
VerifyCmd(v) == Command("VERIFY_CONNECT", TRUE, v)

LEMMA VerifyTyped ==
    ASSUME NEW v \in Offer
    PROVE  /\ VerifyCmd(v) \in Cmd /\ VerifyCmd(v).type = "VERIFY_CONNECT"
           /\ VerifyCmd(v).rel /\ VerifyCmd(v).ch = 255
           /\ ConnectCmd(v) \in Cmd /\ ConnectCmd(v).type = "CONNECT"
           /\ ConnectCmd(v).rel /\ ConnectCmd(v).ch = 255
<1>1. /\ "VERIFY_CONNECT" \in Types /\ "CONNECT" \in Types /\ TRUE \in BOOLEAN
      /\ 255 \in {0, 255} /\ 0 \in Nat /\ v \in Offer \cup Nat
  BY DEF Types
<1>2. /\ VerifyCmd(v) \in Cmd /\ VerifyCmd(v).type = "VERIFY_CONNECT"
      /\ VerifyCmd(v).rel /\ VerifyCmd(v).ch = 255
  <2>1. VerifyCmd(v) = [type |-> "VERIFY_CONNECT", rel |-> TRUE, ch |-> 255, seq |-> 0, body |-> v]
    BY DEF VerifyCmd, Command
  <2> QED BY <1>1, <2>1 DEF Cmd, CmdBase
<1>3. /\ ConnectCmd(v) \in Cmd /\ ConnectCmd(v).type = "CONNECT"
      /\ ConnectCmd(v).rel /\ ConnectCmd(v).ch = 255
  <2>1. ConnectCmd(v) = [type |-> "CONNECT", rel |-> TRUE, ch |-> 255, seq |-> 0, body |-> v]
    BY DEF ConnectCmd, Command
  <2> QED BY <1>1, <2>1 DEF Cmd, CmdBase
<1> QED BY <1>2, <1>3

\* enet_protocol_handle_connect takes a free peer, or nothing.
Accepting(p, d) ==
    [p EXCEPT !.state = "ACKNOWLEDGING_CONNECT", !.cid = d.cmd.body.cid, !.addr = d.from,
              !.outID = d.cmd.body.id, !.bw = d.cmd.body.bw, !.thr = d.cmd.body.thr,
              !.outS = NextSession(d.cmd.body.inS, p.outS),
              !.inS = NextSession(d.cmd.body.outS, p.inS)]

LEMMA AcceptingFields ==
    ASSUME NEW p \in PeerType, NEW d \in DatagramType, d.cmd.type = "CONNECT"
    PROVE  LET q == Accepting(p, d)
           IN  /\ q \in PeerType /\ q.state = "ACKNOWLEDGING_CONNECT" /\ q.addr = d.from
               /\ q.out = p.out /\ q.sent = p.sent /\ q.acks = p.acks /\ q.data = p.data
               /\ q.seq = p.seq /\ q.flag = p.flag /\ d.cmd.body \in Offer
               /\ q.inS \in Sessions /\ q.outS \in Sessions
<1> DEFINE b == d.cmd.body
           o == NextSession(b.inS, p.outS)
           n == NextSession(b.outS, p.inS)
           q == Accepting(p, d)
<1>1. b \in Offer /\ d.from \in Hosts
  BY DEF DatagramType, Cmd
<1>2. /\ b.id \in Int /\ b.inS \in Sessions /\ b.outS \in Sessions /\ b.cid \in Nat
      /\ b.bw \in Nat /\ b.thr \in Nat /\ p.outS \in Sessions /\ p.inS \in Sessions
  BY <1>1 DEF Offer, PeerType
<1>3. o \in Sessions /\ n \in Sessions
  BY <1>2, SessionTyped
<1>4. "ACKNOWLEDGING_CONNECT" \in States /\ d.from \in Hosts \cup {0}
  BY <1>1 DEF States
<1>5. q = [p EXCEPT !.state = "ACKNOWLEDGING_CONNECT", !.cid = b.cid, !.addr = d.from,
                    !.outID = b.id, !.bw = b.bw, !.thr = b.thr, !.outS = o, !.inS = n]
  BY DEF Accepting
<1> HIDE DEF q, o, n, b
<1>6. /\ q \in PeerType /\ q.state = "ACKNOWLEDGING_CONNECT" /\ q.addr = d.from
      /\ q.out = p.out /\ q.sent = p.sent /\ q.acks = p.acks /\ q.data = p.data
      /\ q.seq = p.seq /\ q.flag = p.flag
  BY <1>2, <1>3, <1>4, <1>5 DEF PeerType
<1>7. q.inS \in Sessions /\ q.outS \in Sessions
  BY <1>6 DEF PeerType
<1> QED BY <1>1, <1>6, <1>7 DEF q, b

LEMMA HandleConnectGood ==
    ASSUME NEW h \in Hosts, NEW H, AtRest(h, H), NEW d \in DatagramType,
           d.cmd.type = "CONNECT", d.to = h, OneDialer => Carries(d)
    PROVE  AtRest(h, HandleConnect(H, d).H)
<1> DEFINE b == d.cmd.body
           free == {i \in DOMAIN H.peer : H.peer[i].state = "DISCONNECTED"}
           same == {i \in DOMAIN H.peer : /\ H.peer[i].state \notin {"DISCONNECTED", "CONNECTING"}
                                          /\ H.peer[i].addr = d.from}
           no == \/ free = {} \/ Cardinality(same) >= DuplicatePeers
                 \/ \E j \in same : H.peer[j].cid = b.cid
           i == Min(free)
           p == H.peer[i]
           q == Accepting(p, d)
           G == WithPeer(H, i, q)
           verify == [id |-> i, inS |-> q.outS, outS |-> q.inS,
                      cid |-> b.cid, bw |-> H.bw, thr |-> b.thr]
           c == Command("VERIFY_CONNECT", TRUE, verify)
<1>1. H \in HostType(h) /\ HostOK(h, H) /\ DOMAIN H.peer = Range1(h) /\ H.bw \in Nat
  BY AtRestTyped, HostFields
<1>2. CASE no
  <2>1. HandleConnect(H, d).H = H
    BY <1>2 DEF HandleConnect, Error
  <2> QED BY <2>1
<1>3. CASE ~no
  <2>1. i \in Range1(h) /\ i \in Nat /\ p.state = "DISCONNECTED"
    <3>1. free \subseteq Nat /\ free \subseteq Range1(h) /\ free # {}
      BY <1>1, <1>3 DEF Range1
    <3>2. \E x \in free : \A y \in free : x <= y
      BY <3>1, LeastElement
    <3>3. i \in free
      BY <3>2, Zenon DEF Min
    <3> QED BY <3>1, <3>3
  <2> HIDE DEF i
  <2>2. p \in PeerType /\ PeerOK(h, p, H.told[i])
    BY <1>1, <2>1, HostFields DEF AtRest
  <2>3. /\ q \in PeerType /\ q.state = "ACKNOWLEDGING_CONNECT" /\ q.addr = d.from
        /\ q.out = p.out /\ q.sent = p.sent /\ q.acks = p.acks /\ q.data = p.data
        /\ q.seq = p.seq /\ q.flag = p.flag /\ b \in Offer
        /\ q.inS \in Sessions /\ q.outS \in Sessions
    BY <2>2, AcceptingFields
  <2>4. G.peer[i] = q
    BY <1>1, <2>1 DEF WithPeer, HostType
  <2>5. HandleConnect(H, d).H = QueueOutgoing(G, i, c)
    BY <1>3, <2>4 DEF HandleConnect, Ok, WithPeer, Accepting, i
  <2> HIDE DEF q, G, p
  <2>6. verify \in Offer
    BY <1>1, <2>1, <2>3 DEF Offer
  <2> HIDE DEF verify
  <2>7. c \in Cmd /\ c.type = "VERIFY_CONNECT" /\ c.rel /\ c.ch = 255
    BY <2>6, VerifyTyped DEF VerifyCmd
  <2> HIDE DEF c
  <2>8. Counts(q) = Counts(p) /\ Limits(q) = Limits(p)
    BY <2>1, <2>3 DEF Counts, Limits, Connected
  <2>9. Becomes(h, H, G, i, q, H.told[i])
    BY <1>1, <2>1, <2>3, <2>8, WithPeerBecomes DEF G, p
  <2>10. G \in HostType(h) /\ G.told[i] = H.told[i]
    BY <2>1, <2>9, BecomesTyped
  <2>11. Becomes(h, G, QueueOutgoing(G, i, c), i, Pushed(q, c), H.told[i])
    BY <2>1, <2>4, <2>7, <2>10, QueueOutgoingBecomes
  <2>12. PeerOK(h, Pushed(q, c), H.told[i])
    <3>1. ASSUME OneDialer PROVE d.from \in Dialers /\ d.from # h /\ h \notin Dialers /\ d.from \in Hosts
      BY <3>1, ConstantsAssumption DEF Carries, OneDialer
    <3> QED BY <2>1, <2>2, <2>3, <2>7, <3>1, FirstCommand
  <2>13. Good(h, H, QueueOutgoing(G, i, c), i)
    BY <1>1, <2>9, <2>11, <2>12, BecomesTransitive, BecomesGood
  <2> QED BY <2>1, <2>5, <2>13, GoodAtRest
<1> QED BY <1>2, <1>3
-----------------------------------------------------------------------------
(* What goes through all peers of a host.                                  *)

\* One peer of the walk: the others stay, and this one is right if it was.
Stage(h, H, G, i) ==
    /\ Linked(h, H, G, i)
    /\ PeerOK(h, H.peer[i], H.told[i]) => PeerOK(h, G.peer[i], G.told[i])

Flushed(p, q) == [p EXCEPT !.acks = {}, !.out = {}, !.sent = q.sent \cup {c \in q.out : c.rel}]

LEMMA FlushedFields ==
    ASSUME NEW p \in PeerType, NEW q \in PeerType
    PROVE  LET f == Flushed(p, q)
           IN  /\ f \in PeerType /\ f.state = p.state /\ f.acks = {} /\ f.out = {}
               /\ f.sent = q.sent \cup {c \in q.out : c.rel}
               /\ f.addr = p.addr /\ f.seq = p.seq /\ f.data = p.data /\ f.flag = p.flag
               /\ f.bw = p.bw
<1> DEFINE s == q.sent \cup {c \in q.out : c.rel}
           f == Flushed(p, q)
<1>1. s \in SUBSET Cmd /\ {} \in SUBSET Cmd
  BY DEF PeerType
<1>2. f = [p EXCEPT !.acks = {}, !.out = {}, !.sent = s]
  BY DEF Flushed
<1> HIDE DEF s, f
<1>3. /\ f \in PeerType /\ f.state = p.state /\ f.acks = {} /\ f.out = {} /\ f.sent = s
      /\ f.addr = p.addr /\ f.seq = p.seq /\ f.data = p.data /\ f.flag = p.flag
      /\ f.bw = p.bw
  BY <1>1, <1>2 DEF PeerType
<1> QED BY <1>3 DEF s, f

\* enet_protocol_send_outgoing_commands, one peer
LEMMA SendPeerStage ==
    ASSUME NEW h, NEW H \in HostType(h), NEW i \in Range1(h)
    PROVE  Stage(h, H, SendPeer(H, i), i)
<1> DEFINE p == H.peer[i]
           t == H.told[i]
           ended == \E a \in p.acks : a.type = "DISCONNECT"
           A == IF ended THEN DispatchState(H, i, "ZOMBIE") ELSE H
           m == IF ended THEN Marked(p, "ZOMBIE") ELSE p
           f == Flushed(m, p)
           B == WithPeer(A, i, f)
           G == SendPeer(H, i)
<1>1. p \in PeerType /\ "ZOMBIE" \in States
  BY HostFields DEF States
<1>2. Becomes(h, H, A, i, m, t)
  <2>1. CASE ended
    BY <1>1, <2>1, DispatchStateBecomes
  <2>2. CASE ~ended
    BY <2>2, LinkedSelf DEF Becomes
  <2> QED BY <2>1, <2>2
<1>3. A \in HostType(h) /\ A.peer[i] = m /\ A.told[i] = t /\ m \in PeerType
  BY <1>2, BecomesTyped
<1>4. /\ ended => m.state = "ZOMBIE" /\ m.flag
      /\ ~ended => m = p
      /\ m.addr = p.addr /\ m.seq = p.seq /\ m.data = p.data
  BY <1>1, MarkedFields
<1>5. G = IF p.state \in {"DISCONNECTED", "ZOMBIE"} THEN H
          ELSE IF p.state = "DISCONNECT_LATER" /\ ~HasOutgoing(B.peer[i]) THEN StartDisconnect(B, i)
          ELSE B
  <2>1. B = [A EXCEPT !.peer[i] = [@ EXCEPT !.acks = {}, !.out = {},
                                            !.sent = p.sent \cup {c \in p.out : c.rel}]]
    BY <1>3 DEF WithPeer, Flushed
  <2> HIDE DEF B
  <2> QED BY <2>1 DEF SendPeer
<1>6. /\ f \in PeerType /\ f.state = m.state /\ f.acks = {} /\ f.out = {}
      /\ f.sent = p.sent \cup {c \in p.out : c.rel}
      /\ f.addr = m.addr /\ f.seq = m.seq /\ f.data = m.data /\ f.flag = m.flag
      /\ f.bw = m.bw
  BY <1>1, <1>3, FlushedFields
<1> HIDE DEF A, m, f, B, G, ended, p, t
<1>7. Counts(f) = Counts(m) /\ Limits(f) = Limits(m)
  BY <1>6 DEF Counts, Limits
<1>8. Becomes(h, A, B, i, f, t)
  BY <1>3, <1>6, <1>7, WithPeerBecomes DEF B
<1>9. Becomes(h, H, B, i, f, t)
  BY <1>2, <1>8, BecomesTransitive
<1>10. B \in HostType(h) /\ B.peer[i] = f /\ B.told[i] = t
  BY <1>9, BecomesTyped
<1>11. Less(p, f)
  BY <1>4, <1>6 DEF Less
<1>12. ASSUME PeerOK(h, p, t), p.state \notin {"DISCONNECTED", "ZOMBIE"}
       PROVE  /\ PeerFit(h, f, t) /\ (ended => f.state = "ZOMBIE")
              /\ ended \/ ~(p.state = "DISCONNECT_LATER" /\ ~HasOutgoing(f)) => PeerOK(h, f, t)
  <2>1. CASE ended
    <3>1. p.state = "ACKNOWLEDGING_DISCONNECT"
      BY <1>12, <2>1 DEF PeerOK, PeerFit, EventOK, ended
    <3>2. t \in {"connecting", "connected"} /\ PeerFit(h, p, t)
      BY <1>1, <1>12, <3>1, KnownStates DEF PeerOK
    <3>3. PeerOK(h, f, t)
      BY <1>4, <1>6, <1>11, <1>12, <2>1, <3>2, ZombieOK
    <3> QED BY <1>4, <1>6, <2>1, <3>3 DEF PeerOK
  <2>2. CASE ~ended
    <3>1. f.state = p.state /\ f.data = p.data /\ f.flag = p.flag
      BY <1>4, <1>6, <2>2
    <3>2. EventOK(f, t)
      <4>1. EventOK(p, t)
        BY <1>12 DEF PeerOK, PeerFit
      <4> QED BY <1>6, <3>1, <4>1 DEF EventOK, KnownAs, Eventful
    <3>3. ASSUME OneDialer PROVE Ends(h, f) /\ Stock(h, f)
      <4>1. Ends(h, p) /\ Stock(h, p) /\ p.state # "DISCONNECTED"
        BY <1>12, <3>3 DEF PeerOK, PeerFit
      <4> QED BY <1>11, <3>1, <4>1, LessFit
    <3>4. ASSUME OneDialer, ~(p.state = "DISCONNECT_LATER" /\ ~HasOutgoing(f)) PROVE Waits(f)
      <4>1. Waits(p)
        BY <1>12, <3>4 DEF PeerOK
      <4>2. \A type : Holds(p, type) => Holds(f, type)
        BY <1>6 DEF Holds
      <4>3. p.state # "ACKNOWLEDGING_DISCONNECT"
        BY <2>2, <4>1 DEF Waits, ended
      <4> QED BY <3>1, <3>4, <4>1, <4>2, <4>3 DEF Waits
    <3> QED BY <2>2, <3>2, <3>3, <3>4 DEF PeerOK, PeerFit
  <2> QED BY <2>1, <2>2
<1>13. CASE p.state \in {"DISCONNECTED", "ZOMBIE"}
  <2>1. G = H
    BY <1>5, <1>13
  <2> QED BY <2>1, LinkedSelf DEF Stage, G
<1>14. CASE /\ p.state \notin {"DISCONNECTED", "ZOMBIE"}
            /\ p.state = "DISCONNECT_LATER" /\ ~HasOutgoing(f)
  <2>1. G = StartDisconnect(B, i)
    BY <1>5, <1>10, <1>14
  <2>2. Becomes(h, B, G, i, Leaving(f), t)
    BY <1>10, <2>1, StartDisconnectBecomes
  <2>3. Becomes(h, H, G, i, Leaving(f), t)
    BY <1>9, <2>2, BecomesTransitive
  <2>4. ASSUME PeerOK(h, p, t) PROVE PeerOK(h, Leaving(f), t)
    <3>1. PeerFit(h, f, t)
      BY <1>12, <1>14, <2>4
    <3>2. ~ended
      BY <1>14, <2>4 DEF PeerOK, PeerFit, EventOK, ended
    <3>3. f.state \in Connected
      BY <1>4, <1>6, <1>14, <3>2 DEF Connected
    <3> QED BY <1>6, <3>1, <3>3, LeavingOK
  <2> QED BY <2>3, <2>4 DEF Stage, Becomes, G, p, t
<1>15. CASE /\ p.state \notin {"DISCONNECTED", "ZOMBIE"}
            /\ ~(p.state = "DISCONNECT_LATER" /\ ~HasOutgoing(f))
  <2>1. G = B
    BY <1>5, <1>10, <1>15
  <2>2. PeerOK(h, p, t) => PeerOK(h, f, t)
    BY <1>12, <1>15
  <2> QED BY <1>9, <2>1, <2>2 DEF Stage, Becomes, G, p, t
<1> QED BY <1>13, <1>14, <1>15

Limiting(bw) == Command("BANDWIDTH_LIMIT", TRUE, bw)

LEMMA LimitingTyped ==
    ASSUME NEW bw \in Nat
    PROVE  Limiting(bw) \in Cmd /\ Limiting(bw).type = "BANDWIDTH_LIMIT"
<1>1. /\ "BANDWIDTH_LIMIT" \in Types /\ TRUE \in BOOLEAN /\ 255 \in {0, 255} /\ 0 \in Nat
      /\ bw \in Offer \cup Nat
  BY DEF Types
<1>2. Limiting(bw) = [type |-> "BANDWIDTH_LIMIT", rel |-> TRUE, ch |-> 255, seq |-> 0, body |-> bw]
  BY DEF Limiting, Command
<1> QED BY <1>1, <1>2 DEF Cmd, CmdBase

\* enet_host_bandwidth_throttle, one peer
LEMMA TellPeerStage ==
    ASSUME NEW h, NEW H \in HostType(h), NEW i \in Range1(h), NEW bw \in Nat
    PROVE  Stage(h, H, TellPeer(H, i, bw), i)
<1>1. CASE H.peer[i].state \in Connected
  <2> DEFINE G == QueueOutgoing(H, i, Limiting(bw))
  <2>1. TellPeer(H, i, bw) = G
    BY <1>1 DEF TellPeer, Limiting
  <2>2. Becomes(h, H, G, i, Pushed(H.peer[i], Limiting(bw)), H.told[i])
    BY LimitingTyped, QueueOutgoingBecomes
  <2>3. H.peer[i] \in PeerType /\ H.peer[i].state # "DISCONNECTED" /\ Limiting(bw) \in Cmd
        /\ Limiting(bw).type \notin {"CONNECT", "ACKNOWLEDGE"}
    BY <1>1, HostFields, LimitingTyped DEF Connected
  <2>4. PeerOK(h, H.peer[i], H.told[i]) => PeerOK(h, Pushed(H.peer[i], Limiting(bw)), H.told[i])
    BY <2>3, PushedKeeps
  <2> HIDE DEF G
  <2> QED BY <2>1, <2>2, <2>4 DEF Stage, Becomes
<1>2. CASE H.peer[i].state \notin Connected
  <2>1. TellPeer(H, i, bw) = H
    BY <1>2 DEF TellPeer
  <2> QED BY <2>1, LinkedSelf DEF Stage
<1> QED BY <1>1, <1>2

\* A set that has 0 and with every number the next has all numbers.
LEMMA Induct ==
    ASSUME NEW T, 0 \in T, \A n \in Nat : n \in T => n + 1 \in T
    PROVE  Nat \subseteq T
<1> DEFINE S == {n \in Nat : n \notin T}
<1> SUFFICES ASSUME S # {} PROVE FALSE
  OBVIOUS
<1>1. S \subseteq Nat
  OBVIOUS
<1>2. PICK x \in S : \A y \in S : x <= y
  BY <1>1, LeastElement
<1>3. x # 0 /\ x \in Nat
  BY <1>2
<1>4. x - 1 \in T /\ x - 1 \in Nat
  BY <1>2, <1>3
<1> QED BY <1>2, <1>3, <1>4

\* The two walks as one: with a limit bw the peers are told of it.
Visit(tell, bw, H, i) == IF tell THEN TellPeer(H, i, bw) ELSE SendPeer(H, i)

\* The walk as the sequence f of the hosts after each peer.
Walk(f, n, tell, bw, H) ==
    f = [i \in 0 .. n |-> IF i = 0 THEN H ELSE Visit(tell, bw, f[i - 1], i)]

LEMMA WalkExists ==
    ASSUME NEW tell, NEW bw, NEW H, NEW n \in Nat
    PROVE  \E f : Walk(f, n, tell, bw, H)
<1> DEFINE T == {m \in Nat : \E f : Walk(f, m, tell, bw, H)}
<1>1. 0 \in T
  <2>1. Walk([i \in 0 .. 0 |-> H], 0, tell, bw, H)
    BY DEF Walk
  <2> QED BY <2>1
<1>2. ASSUME NEW m \in Nat, m \in T PROVE m + 1 \in T
  <2>1. PICK f : Walk(f, m, tell, bw, H)
    BY <1>2
  <2> DEFINE last == Visit(tell, bw, f[m], m + 1)
             g == [i \in 0 .. m + 1 |-> IF i = m + 1 THEN last ELSE f[i]]
             k == [i \in 0 .. m + 1 |-> IF i = 0 THEN H ELSE Visit(tell, bw, g[i - 1], i)]
  <2>2. \A i \in 0 .. m : f[i] = IF i = 0 THEN H ELSE Visit(tell, bw, f[i - 1], i)
    BY <2>1 DEF Walk
  <2>3. ASSUME NEW i \in 0 .. m + 1 PROVE g[i] = k[i]
    <3>1. CASE i = m + 1
      <4>1. g[i] = last /\ i # 0 /\ i - 1 = m /\ m \in 0 .. m + 1 /\ m # m + 1
        BY <3>1
      <4>2. g[i - 1] = f[m]
        BY <4>1
      <4> HIDE DEF g, last
      <4>3. k[i] = Visit(tell, bw, f[m], m + 1)
        BY <3>1, <4>1, <4>2
      <4> QED BY <4>1, <4>3 DEF last
    <3>2. CASE i = 0
      BY <3>2, <2>2
    <3>3. CASE i \in 1 .. m
      <4>1. i \in 0 .. m /\ i # 0 /\ i - 1 \in 0 .. m /\ i - 1 \in 0 .. m + 1 /\ i # m + 1 /\ i - 1 # m + 1
        BY <3>3
      <4>2. g[i] = f[i] /\ g[i - 1] = f[i - 1]
        BY <4>1
      <4> HIDE DEF g
      <4> QED BY <4>1, <4>2, <2>2
    <3> QED BY <3>1, <3>2, <3>3
  <2>4. g = k
    <3>1. g = [i \in 0 .. m + 1 |-> g[i]] /\ k = [i \in 0 .. m + 1 |-> k[i]]
      OBVIOUS
    <3> HIDE DEF g, k
    <3> QED BY <2>3, <3>1, Zenon
  <2>5. Walk(g, m + 1, tell, bw, H)
    BY <2>4 DEF Walk
  <2> HIDE DEF g
  <2> QED BY <2>5
<1>3. Nat \subseteq T
  <2> HIDE DEF T
  <2> QED BY <1>1, <1>2, Induct
<1> QED BY <1>3

LEMMA Walks ==
    ASSUME NEW H, NEW bw, Len(H.peer) \in Nat
    PROVE  /\ \E f : Walk(f, Len(H.peer), FALSE, bw, H) /\ SendAll(H) = f[Len(H.peer)]
           /\ \E f : Walk(f, Len(H.peer), TRUE, bw, H) /\ TellAll(H, bw) = f[Len(H.peer)]
<1> DEFINE n == Len(H.peer)
           sends == CHOOSE f : Walk(f, n, FALSE, bw, H)
           tells == CHOOSE f : Walk(f, n, TRUE, bw, H)
<1>1. Walk(sends, n, FALSE, bw, H) /\ Walk(tells, n, TRUE, bw, H)
  BY WalkExists
<1>2. SendAll(H) = sends[n]
  BY DEF SendAll, Walk, Visit
<1>3. TellAll(H, bw) = tells[n]
  BY DEF TellAll, Walk, Visit
<1> QED BY <1>1, <1>2, <1>3

LEMMA PeerCount ==
    ASSUME NEW h \in Hosts, NEW H \in HostType(h)
    PROVE  Len(H.peer) = Slots[h] /\ Slots[h] \in Nat
<1>1. Slots[h] \in Nat
  BY ConstantsAssumption
<1>2. H.peer \in [1 .. Slots[h] -> PeerType]
  BY HostFields DEF Range1
<1> QED BY <1>1, <1>2

LEMMA WalkKeeps ==
    ASSUME NEW h \in Hosts, NEW H, HostOK(h, H), NEW tell \in BOOLEAN, NEW bw \in Nat, NEW f,
           Walk(f, Slots[h], tell, bw, H)
    PROVE  Kept(h, H, f[Slots[h]])
<1> DEFINE n == Slots[h]
           T == {m \in Nat : m <= n => Kept(h, H, f[m])}
<1>1. n \in Nat
  BY ConstantsAssumption
<1>2. \A i \in 0 .. n : f[i] = IF i = 0 THEN H ELSE Visit(tell, bw, f[i - 1], i)
  BY DEF Walk
<1>3. 0 \in T
  <2>1. f[0] = H
    BY <1>1, <1>2
  <2> QED BY <2>1 DEF Kept
<1>4. ASSUME NEW m \in Nat, m \in T PROVE m + 1 \in T
  <2> SUFFICES ASSUME m + 1 <= n PROVE Kept(h, H, f[m + 1])
    OBVIOUS
  <2> DEFINE i == m + 1
             F == f[m]
             G == f[m + 1]
  <2>1. Kept(h, H, F) /\ i \in Range1(h) /\ i \in 0 .. n /\ i # 0 /\ i - 1 = m
    BY <1>1, <1>4 DEF Range1
  <2>2. G = Visit(tell, bw, F, i)
    BY <1>2, <2>1
  <2> HIDE DEF F, G, i
  <2>3. HostOK(h, F) /\ F \in HostType(h)
    BY <2>1 DEF Kept, HostOK
  <2>4. Stage(h, F, G, i)
    BY <2>1, <2>2, <2>3, SendPeerStage, TellPeerStage DEF Visit
  <2>5. HostOK(h, G)
    BY <2>1, <2>3, <2>4, LinkKeeps DEF Stage
  <2>6. \A j \in Range1(h) \ {i} : G.peer[j] = F.peer[j] /\ G.told[j] = F.told[j]
    BY <2>4 DEF Stage, Linked
  <2>7. \A j \in Range1(h) : PeerOK(h, F.peer[j], F.told[j]) => PeerOK(h, G.peer[j], G.told[j])
    BY <2>4, <2>6 DEF Stage
  <2>8. Kept(h, H, G)
    BY <2>1, <2>5, <2>7 DEF Kept
  <2> QED BY <2>8 DEF G
<1>5. Nat \subseteq T
  <2> HIDE DEF T
  <2> QED BY <1>3, <1>4, Induct
<1> QED BY <1>1, <1>5

LEMMA AllKeep ==
    ASSUME NEW h \in Hosts, NEW H, HostOK(h, H), NEW bw \in Nat
    PROVE  Kept(h, H, SendAll(H)) /\ Kept(h, H, TellAll(H, bw))
<1>1. Len(H.peer) = Slots[h] /\ Slots[h] \in Nat
  BY PeerCount DEF HostOK
<1>2. PICK f : Walk(f, Slots[h], FALSE, bw, H) /\ SendAll(H) = f[Slots[h]]
  BY <1>1, Walks
<1>3. PICK g : Walk(g, Slots[h], TRUE, bw, H) /\ TellAll(H, bw) = g[Slots[h]]
  BY <1>1, Walks
<1>4. Kept(h, H, f[Slots[h]])
  BY <1>2, WalkKeeps
<1>5. Kept(h, H, g[Slots[h]])
  BY <1>3, WalkKeeps
<1> QED BY <1>2, <1>3, <1>4, <1>5

\* What a peer sends, by its state before.
AckOf(a) == [Command("ACKNOWLEDGE", FALSE, 0) EXCEPT !.ch = a.ch, !.seq = a.seq]

LEMMA AckTyped ==
    ASSUME NEW a \in Cmd
    PROVE  /\ AckOf(a) \in Cmd /\ AckOf(a).type = "ACKNOWLEDGE" /\ AckOf(a).ch = a.ch
           /\ AckOf(a).seq = a.seq
<1>1. /\ "ACKNOWLEDGE" \in Types /\ FALSE \in BOOLEAN /\ 0 \in Offer \cup Nat
      /\ a.ch \in {0, 255} /\ a.seq \in Nat
  BY DEF Types, Cmd, CmdBase
<1>2. AckOf(a) = [type |-> "ACKNOWLEDGE", rel |-> FALSE, ch |-> a.ch, seq |-> a.seq, body |-> 0]
  <2> DEFINE c == Command("ACKNOWLEDGE", FALSE, 0)
  <2>1. c = [type |-> "ACKNOWLEDGE", rel |-> FALSE, ch |-> 255, seq |-> 0, body |-> 0]
    BY DEF Command
  <2>2. AckOf(a) = [c EXCEPT !.ch = a.ch, !.seq = a.seq]
    BY DEF AckOf
  <2> HIDE DEF c
  <2> QED BY <2>1, <2>2
<1> QED BY <1>1, <1>2 DEF Cmd, CmdBase

LEMMA DatagramFields ==
    ASSUME NEW h \in Hosts, NEW p \in PeerType, NEW c \in Cmd
    PROVE  LET d == Datagram(h, p, c)
           IN  /\ d \in DatagramType /\ d.to = p.addr /\ d.from = h /\ d.cmd = c
<1> DEFINE s == IF p.outID = MAXIMUM_PEER_ID THEN 0 ELSE p.outS
           d == Datagram(h, p, c)
<1>1. /\ s \in Sessions /\ p.addr \in Hosts \cup {0} /\ p.outID \in Int /\ p.cid \in Nat
  BY DEF PeerType, Sessions
<1>2. d = [to |-> p.addr, from |-> h, id |-> p.outID, cid |-> p.cid, cmd |-> c, sess |-> s]
  BY DEF Datagram
<1> HIDE DEF s, d
<1>3. d \in DatagramType /\ d.to = p.addr /\ d.from = h /\ d.cmd = c
  BY <1>1, <1>2 DEF DatagramType
<1> QED BY <1>3 DEF d

\* The datagrams of a host whose peers have ends and commands as they should.
LEMMA SendsCarry ==
    ASSUME NEW h \in Hosts, NEW H \in HostType(h), NEW d \in Sends(h, H),
           OneDialer => \A i \in Range1(h) : Ends(h, H.peer[i]) /\ Stock(h, H.peer[i])
    PROVE  d \in DatagramType /\ (OneDialer => Carries(d))
<1>1. PICK i \in Range1(h) :
        /\ H.peer[i].state \notin {"DISCONNECTED", "ZOMBIE"}
        /\ \/ \E a \in H.peer[i].acks : d = Datagram(h, H.peer[i], AckOf(a))
           \/ \E c \in H.peer[i].out : d = Datagram(h, H.peer[i], c)
  <2>1. DOMAIN H.peer = Range1(h)
    BY HostFields
  <2>2. PICK i \in Range1(h) :
          d \in IF H.peer[i].state \in {"DISCONNECTED", "ZOMBIE"} THEN {}
                ELSE {Datagram(h, H.peer[i], AckOf(a)) : a \in H.peer[i].acks}
                        \cup {Datagram(h, H.peer[i], c) : c \in H.peer[i].out}
    BY <2>1, Zenon DEF Sends, AckOf
  <2>3. H.peer[i].state \notin {"DISCONNECTED", "ZOMBIE"}
    BY <2>2
  <2> QED BY <2>2, <2>3
<1> DEFINE p == H.peer[i]
<1>2. p \in PeerType /\ p.out \subseteq Cmd /\ p.acks \subseteq Cmd
  BY HostFields DEF PeerType
<1>3. ASSUME OneDialer PROVE Ends(h, p) /\ Stock(h, p) /\ p.addr # h
  BY <1>1, <1>3 DEF Ends
<1> HIDE DEF p
<1>4. ASSUME NEW a \in p.acks, d = Datagram(h, p, AckOf(a))
      PROVE  d \in DatagramType /\ (OneDialer => Carries(d))
  <2>1. AckOf(a) \in Cmd /\ AckOf(a).type = "ACKNOWLEDGE" /\ AckOf(a).ch = a.ch /\ AckOf(a).seq = a.seq
    BY <1>2, AckTyped
  <2>2. d \in DatagramType /\ d.from = h /\ d.cmd = AckOf(a)
    BY <1>2, <1>4, <2>1, DatagramFields
  <2>3. ASSUME OneDialer PROVE Carries(d)
    <3>1. AckOK(h, a)
      BY <1>3, <2>3 DEF Stock
    <3> QED BY <2>1, <2>2, <3>1 DEF Carries, AckOK
  <2> QED BY <2>2, <2>3
<1>5. ASSUME NEW c \in p.out, d = Datagram(h, p, c)
      PROVE  d \in DatagramType /\ (OneDialer => Carries(d))
  <2>1. d \in DatagramType /\ d.from = h /\ d.cmd = c /\ d.to = p.addr
    BY <1>2, <1>5, DatagramFields
  <2>2. ASSUME OneDialer PROVE Carries(d)
    <3>1. CmdOK(h, c) /\ p.addr # h
      BY <1>3, <2>2 DEF Stock
    <3>2. CASE h \in Dialers
      BY <2>1, <3>1, <3>2 DEF Carries, CmdOK, DialerCmd
    <3>3. CASE h \notin Dialers
      BY <2>1, <3>1, <3>3 DEF Carries, CmdOK, AcceptorCmd
    <3> QED BY <3>2, <3>3
  <2> QED BY <2>1, <2>2
<1> QED BY <1>1, <1>4, <1>5 DEF p
-----------------------------------------------------------------------------
(* The actions.                                                            *)

NetOK(N) == \A d \in N : d \in DatagramType /\ (OneDialer => Carries(d))
AllAtRest(hs) == hs = [h \in Hosts |-> hs[h]] /\ \A h \in Hosts : AtRest(h, hs[h])

LEMMA IndInvParts == IndInv <=> AllAtRest(hosts) /\ connects \in Nat /\ NetOK(net)
  BY DEF IndInv, AllAtRest, AtRest, NetOK

LEMMA StepRest ==
    ASSUME NEW h \in Hosts, NEW K, AllAtRest(hosts), AtRest(h, K), Step(h, K)
    PROVE  AllAtRest(hosts')
<1>1. hosts = [g \in Hosts |-> hosts[g]] /\ \A g \in Hosts : AtRest(g, hosts[g])
  BY DEF AllAtRest
<1>2. hosts' = [hosts EXCEPT ![h] = K]
  BY DEF Step
<1>3. hosts' = [g \in Hosts |-> IF g = h THEN K ELSE hosts[g]]
  BY <1>1, <1>2
<1>4. \A g \in Hosts : hosts'[g] = IF g = h THEN K ELSE hosts[g]
  BY <1>3
<1>5. hosts' = [g \in Hosts |-> hosts'[g]]
  BY <1>3
<1> QED BY <1>1, <1>4, <1>5, Zenon DEF AllAtRest

LEMMA NetGrows ==
    ASSUME NEW h \in Hosts, NEW H \in HostType(h), NEW N, NetOK(N),
           OneDialer => \A i \in Range1(h) : Ends(h, H.peer[i]) /\ Stock(h, H.peer[i])
    PROVE  NetOK(N \cup Sends(h, H))
  BY SendsCarry DEF NetOK

LEMMA RestFacts ==
    ASSUME NEW h \in Hosts, AllAtRest(hosts)
    PROVE  /\ AtRest(h, hosts[h]) /\ HostOK(h, hosts[h]) /\ hosts[h] \in HostType(h)
           /\ DOMAIN hosts[h].peer = Range1(h)
           /\ \A i \in Range1(h) : /\ PeerOK(h, hosts[h].peer[i], hosts[h].told[i])
                                   /\ hosts[h].peer[i] \in PeerType
<1>1. AtRest(h, hosts[h])
  BY DEF AllAtRest
<1>2. hosts[h] \in HostType(h) /\ HostOK(h, hosts[h])
  BY <1>1, AtRestTyped
<1> QED BY <1>1, <1>2, HostFields DEF AtRest

\* A step that is right for one peer of one host.
LEMMA GoodStep ==
    ASSUME NEW h \in Hosts, NEW i \in Range1(h), NEW K, AllAtRest(hosts),
           Good(h, hosts[h], K, i), Step(h, K)
    PROVE  AllAtRest(hosts')
  BY RestFacts, GoodAtRest, StepRest

\* enet_host_connect
Dialing(p, to, id) == [p EXCEPT !.state = "CONNECTING", !.addr = to, !.cid = id]

LEMMA ConnectRest ==
    ASSUME AllAtRest(hosts), connects \in Nat, NEW h \in Dialers, NEW to \in Hosts \ {h},
           Connect(h, to)
    PROVE  AllAtRest(hosts')
<1> DEFINE H == hosts[h]
<1>1. h \in Hosts
  BY ConstantsAssumption
<1>2. /\ H \in HostType(h) /\ DOMAIN H.peer = Range1(h)
      /\ \A i \in Range1(h) : PeerOK(h, H.peer[i], H.told[i]) /\ H.peer[i] \in PeerType
  BY <1>1, RestFacts
<1>3. PICK i \in Range1(h) :
        /\ H.peer[i].state = "DISCONNECTED"
        /\ LET G == [H EXCEPT !.told[i] = "connecting",
                              !.peer[i] = [@ EXCEPT !.state = "CONNECTING", !.addr = to,
                                                    !.cid = connects + 1]]
           IN  Step(h, QueueOutgoing(G, i, Command("CONNECT", TRUE, Body(G, i))))
  BY <1>2 DEF Connect
<1> DEFINE p == H.peer[i]
           q == Dialing(p, to, connects + 1)
           A == [H EXCEPT !.told[i] = "connecting"]
           G == WithPeer(A, i, q)
           c == ConnectCmd(Body(G, i))
           K == QueueOutgoing(G, i, c)
<1>4. Becomes(h, H, A, i, p, "connecting")
  BY <1>2, ToldBecomes DEF Told
<1>5. /\ q \in PeerType /\ q.state = "CONNECTING" /\ q.addr = to /\ q.flag = p.flag
      /\ q.out = p.out /\ q.sent = p.sent /\ q.acks = p.acks /\ q.data = p.data /\ q.seq = p.seq
  <2>1. connects + 1 \in Nat /\ "CONNECTING" \in States /\ to \in Hosts \cup {0} /\ p \in PeerType
    BY <1>2 DEF States
  <2> DEFINE n == connects + 1
  <2> HIDE DEF n
  <2>2. n \in Nat /\ q = Dialing(p, to, n)
    BY <2>1 DEF n
  <2> QED BY <2>1, <2>2 DEF PeerType, Dialing
<1>6. Step(h, K)
  <2>1. G = [H EXCEPT !.told[i] = "connecting",
                      !.peer[i] = [@ EXCEPT !.state = "CONNECTING", !.addr = to,
                                            !.cid = connects + 1]]
    BY <1>2 DEF WithPeer, Dialing, HostType
  <2> HIDE DEF G
  <2> QED BY <1>3, <2>1 DEF ConnectCmd
<1> HIDE DEF A, q
<1>7. A \in HostType(h) /\ A.peer[i] = p /\ A.told[i] = "connecting"
  BY <1>4, BecomesTyped
<1>8. Counts(q) = Counts(p) /\ Limits(q) = Limits(p)
  BY <1>3, <1>5 DEF Counts, Limits, Connected
<1>9. Becomes(h, A, G, i, q, "connecting")
  BY <1>5, <1>7, <1>8, WithPeerBecomes
<1> HIDE DEF G, K
<1>10. Becomes(h, H, G, i, q, "connecting")
  BY <1>2, <1>4, <1>9, BecomesTransitive
<1>11. G \in HostType(h) /\ G.peer[i] = q /\ G.told[i] = "connecting"
  BY <1>10, BecomesTyped
<1>12. Body(G, i) \in Offer
  <2>1. /\ i \in Nat /\ q.inS \in Sessions /\ q.outS \in Sessions /\ q.cid \in Nat
        /\ G.bw \in Nat /\ q.thr \in Nat
    BY <1>5, <1>11, HostFields DEF PeerType, Range1
  <2>2. Body(G, i) = [id |-> i, inS |-> q.inS, outS |-> q.outS, cid |-> q.cid, bw |-> G.bw,
                      thr |-> q.thr]
    BY <1>11 DEF Body
  <2> QED BY <2>1, <2>2 DEF Offer
<1>13. c \in Cmd /\ c.type = "CONNECT" /\ c.rel /\ c.ch = 255
  BY <1>12, VerifyTyped
<1> HIDE DEF c
<1>14. Becomes(h, G, K, i, Pushed(q, c), "connecting")
  BY <1>11, <1>13, QueueOutgoingBecomes DEF K
<1>15. Becomes(h, H, K, i, Pushed(q, c), "connecting")
  BY <1>2, <1>10, <1>14, BecomesTransitive
<1>16. PeerOK(h, Pushed(q, c), "connecting")
  BY <1>2, <1>3, <1>5, <1>13, FirstCommand
<1>17. Good(h, H, K, i)
  BY <1>15, <1>16, BecomesGood
<1> QED BY <1>1, <1>6, <1>17, GoodStep

\* The last command of a connection that is dropped at once.
LEMMA DropNowRest ==
    ASSUME AllAtRest(hosts), NetOK(net), NEW h \in Hosts, NEW i \in Range1(h),
           NEW t \in {"none", "asked"}, hosts[h].peer[i].state # "DISCONNECTED",
           DropNow(h, i, t)
    PROVE  AllAtRest(hosts') /\ NetOK(net')
<1> DEFINE H == hosts[h]
           p == H.peer[i]
           A == ResetQueues(H, i)
           e == Emptied(p)
           c == Ending(FALSE)
           G == QueueOutgoing(A, i, c)
           S == SendAll(G)
           K == [PeerReset(S, i) EXCEPT !.told[i] = t]
<1>1. /\ AtRest(h, H) /\ HostOK(h, H) /\ H \in HostType(h)
      /\ \A j \in Range1(h) : PeerOK(h, H.peer[j], H.told[j]) /\ H.peer[j] \in PeerType
  BY RestFacts
<1>2. Step(h, K) /\ net' = net \cup Sends(h, G)
  BY DEF DropNow, Ending
<1>3. Becomes(h, H, A, i, e, H.told[i])
  BY <1>1, ResetQueuesBecomes
<1>4. /\ e \in PeerType /\ e.state = p.state /\ e.acks = {} /\ e.sent = {} /\ e.out = {}
      /\ e.seq = p.seq /\ e.addr = p.addr
  BY <1>1, EmptiedFields
<1>5. c \in Cmd /\ c.type = "DISCONNECT"
  BY EndingTyped
<1> HIDE DEF A, e, c
<1>6. A \in HostType(h) /\ A.peer[i] = e
  BY <1>3, BecomesTyped
<1>7. Becomes(h, A, G, i, Pushed(e, c), A.told[i])
  BY <1>5, <1>6, QueueOutgoingBecomes
<1> HIDE DEF G
<1>8. Linked(h, H, G, i) /\ G.peer[i] = Pushed(e, c)
  BY <1>1, <1>3, <1>7, LinkedTransitive DEF Becomes
<1>9. HostOK(h, G) /\ G \in HostType(h)
  BY <1>1, <1>8, LinkKeeps DEF HostOK
<1>10. Kept(h, G, S)
  BY <1>9, AllKeep
<1> HIDE DEF S
<1>11. HostOK(h, S) /\ S \in HostType(h)
  BY <1>10 DEF Kept, HostOK
<1>12. Good(h, S, K, i)
  BY <1>11, ResetToldGood
<1> HIDE DEF K
<1>13. HostOK(h, K)
  BY <1>11, <1>12, LinkKeeps DEF Good
<1>14. ASSUME NEW j \in Range1(h) PROVE PeerOK(h, K.peer[j], K.told[j])
  <2>1. CASE j = i
    BY <1>12, <2>1 DEF Good
  <2>2. CASE j # i
    <3>1. G.peer[j] = H.peer[j] /\ G.told[j] = H.told[j]
      BY <1>8, <2>2 DEF Linked
    <3>2. K.peer[j] = S.peer[j] /\ K.told[j] = S.told[j]
      BY <1>12, <2>2 DEF Good, Linked
    <3>3. PeerOK(h, S.peer[j], S.told[j])
      BY <1>1, <1>10, <3>1 DEF Kept
    <3> QED BY <3>2, <3>3
  <2> QED BY <2>1, <2>2
<1>15. AtRest(h, K)
  BY <1>13, <1>14 DEF AtRest
<1>16. ASSUME OneDialer, NEW j \in Range1(h) PROVE Ends(h, G.peer[j]) /\ Stock(h, G.peer[j])
  <2>1. Ends(h, H.peer[j]) /\ Stock(h, H.peer[j])
    BY <1>1, <1>16 DEF PeerOK, PeerFit
  <2>2. CASE j = i
    <3>1. Less(p, e)
      BY <1>4 DEF Less
    <3>2. Ends(h, e) /\ Stock(h, e)
      BY <1>4, <2>1, <2>2, <3>1, LessFit
    <3> QED BY <1>4, <1>5, <1>8, <2>2, <3>2, PushedKeeps
  <2>3. CASE j # i
    BY <1>8, <2>1, <2>3 DEF Linked
  <2> QED BY <2>2, <2>3
<1>17. NetOK(net')
  BY <1>2, <1>9, <1>16, NetGrows
<1> QED BY <1>2, <1>15, <1>17, StepRest

\* enet_peer_disconnect
LEMMA PeerDisconnectRest ==
    ASSUME AllAtRest(hosts), NetOK(net), NEW h \in Hosts, NEW i \in Range1(h),
           PeerDisconnect(h, i)
    PROVE  AllAtRest(hosts') /\ NetOK(net')
<1> DEFINE p == hosts[h].peer[i]
<1>1. /\ hosts[h] \in HostType(h) /\ PeerOK(h, p, hosts[h].told[i]) /\ p \in PeerType
  BY RestFacts
<1>2. CASE p.state \in Connected
  <2>1. Step(h, StartDisconnect(hosts[h], i)) /\ net' = net
    BY <1>2 DEF PeerDisconnect
  <2>2. PeerOK(h, Leaving(p), hosts[h].told[i])
    BY <1>1, <1>2, LeavingOK DEF PeerOK
  <2>3. Good(h, hosts[h], StartDisconnect(hosts[h], i), i)
    BY <1>1, <2>2, StartDisconnectBecomes, BecomesGood
  <2> QED BY <2>1, <2>3, GoodStep
<1>3. CASE p.state \notin Connected
  <2>1. DropNow(h, i, "asked") /\ p.state # "DISCONNECTED"
    BY <1>3 DEF PeerDisconnect, Over
  <2> QED BY <2>1, DropNowRest
<1> QED BY <1>2, <1>3

\* enet_peer_disconnect_later
LEMMA PeerDisconnectLaterRest ==
    ASSUME AllAtRest(hosts), NEW h \in Hosts, NEW i \in Range1(h), PeerDisconnectLater(h, i)
    PROVE  AllAtRest(hosts')
<1> DEFINE H == hosts[h]
           p == H.peer[i]
           t == H.told[i]
           q == [p EXCEPT !.state = "DISCONNECT_LATER"]
<1>1. /\ H \in HostType(h) /\ PeerOK(h, p, t) /\ p \in PeerType
  BY RestFacts
<1>2. p.state = "CONNECTED" /\ HasOutgoing(p) /\ Step(h, WithPeer(H, i, q))
  BY DEF PeerDisconnectLater, WithPeer
<1>3. /\ q \in PeerType /\ q.state = "DISCONNECT_LATER" /\ q.out = p.out /\ q.sent = p.sent
      /\ q.acks = p.acks /\ q.addr = p.addr /\ q.seq = p.seq /\ q.data = p.data
      /\ q.flag = p.flag /\ q.bw = p.bw
  <2>1. "DISCONNECT_LATER" \in States
    BY DEF States
  <2> QED BY <1>1, <2>1 DEF PeerType
<1> HIDE DEF q
<1>4. Counts(q) = Counts(p) /\ Limits(q) = Limits(p)
  BY <1>2, <1>3 DEF Counts, Limits, Connected
<1>5. PeerOK(h, q, t)
  <2> HIDE DEF p, t
  <2>1. EventOK(q, t)
    <3>1. EventOK(p, t)
      BY <1>1 DEF PeerOK, PeerFit
    <3> QED BY <1>2, <1>3, <3>1 DEF EventOK, KnownAs, Early, Eventful
  <2>2. ASSUME OneDialer PROVE Ends(h, q) /\ Stock(h, q)
    <3>1. Ends(h, p) /\ Stock(h, p)
      BY <1>1, <2>2 DEF PeerOK, PeerFit
    <3>2. Less(p, q)
      BY <1>3 DEF Less
    <3> QED BY <1>2, <1>3, <3>1, <3>2, LessFit
  <2>3. Waits(q)
    BY <1>2, <1>3 DEF Waits, HasOutgoing
  <2> QED BY <2>1, <2>2, <2>3 DEF PeerOK, PeerFit
<1>6. Good(h, H, WithPeer(H, i, q), i)
  BY <1>1, <1>3, <1>4, <1>5, WithPeerGood
<1> QED BY <1>2, <1>6, GoodStep

\* enet_peer_disconnect_now and enet_peer_reset
LEMMA DropRest ==
    ASSUME AllAtRest(hosts), NetOK(net), NEW h \in Hosts, NEW i \in Range1(h),
           PeerDisconnectNow(h, i) \/ Reset(h, i)
    PROVE  AllAtRest(hosts') /\ NetOK(net')
<1>1. hosts[h] \in HostType(h)
  BY RestFacts
<1>2. CASE PeerDisconnectNow(h, i)
  <2>1. DropNow(h, i, "none") /\ hosts[h].peer[i].state # "DISCONNECTED"
    BY <1>2 DEF PeerDisconnectNow
  <2> QED BY <2>1, DropNowRest
<1>3. CASE Reset(h, i)
  <2> DEFINE K == [PeerReset(hosts[h], i) EXCEPT !.told[i] = "none"]
  <2>1. Step(h, K) /\ net' = net
    BY <1>3 DEF Reset
  <2>2. Good(h, hosts[h], K, i)
    BY <1>1, ResetToldGood
  <2> HIDE DEF K
  <2> QED BY <2>1, <2>2, GoodStep
<1> QED BY <1>2, <1>3

\* enet_peer_send, enet_peer_ping and enet_peer_throttle_configure
Submitted(type) ==
    IF type = "SEND_UNRELIABLE" THEN Command("SEND", FALSE, 0) ELSE Command(type, TRUE, 0)

LEMMA SubmittedTyped ==
    ASSUME NEW type \in {"SEND", "SEND_UNRELIABLE", "PING", "THROTTLE_CONFIGURE"}
    PROVE  Submitted(type) \in Cmd /\ Submitted(type).type \notin {"CONNECT", "ACKNOWLEDGE"}
<1>1. /\ "SEND" \in Types /\ "PING" \in Types /\ "THROTTLE_CONFIGURE" \in Types
      /\ 0 \in Offer \cup Nat
  BY DEF Types
<1>2. PICK a \in Types, r \in BOOLEAN :
        Submitted(type) = Command(a, r, 0) /\ a \in {"SEND", "PING", "THROTTLE_CONFIGURE"}
  BY <1>1 DEF Submitted
<1> QED BY <1>1, <1>2, CommandTyped

LEMMA SubmitRest ==
    ASSUME AllAtRest(hosts), NEW h \in Hosts, NEW i \in Range1(h),
           NEW type \in {"SEND", "SEND_UNRELIABLE", "PING", "THROTTLE_CONFIGURE"},
           Submit(h, i, type)
    PROVE  AllAtRest(hosts')
<1> DEFINE H == hosts[h]
           p == H.peer[i]
           t == H.told[i]
           n == IF type = "THROTTLE_CONFIGURE" THEN 1 ELSE p.thr
           q == [p EXCEPT !.thr = n]
           G == WithPeer(H, i, q)
           c == Submitted(type)
           K == QueueOutgoing(G, i, c)
<1>1. /\ H \in HostType(h) /\ PeerOK(h, p, t) /\ p \in PeerType
  BY RestFacts
<1>2. p.state # "DISCONNECTED"
  BY DEF Submit
<1>3. Step(h, K)
  <2>1. G = [H EXCEPT !.peer[i].thr = IF type = "THROTTLE_CONFIGURE" THEN 1 ELSE @]
    BY DEF WithPeer
  <2> HIDE DEF G
  <2> QED BY <2>1 DEF Submit, Submitted
<1>4. n \in Nat
  BY <1>1 DEF PeerType
<1> HIDE DEF n, K
<1>5. /\ q \in PeerType /\ q.state = p.state /\ q.out = p.out /\ q.sent = p.sent
      /\ q.acks = p.acks /\ q.addr = p.addr /\ q.seq = p.seq /\ q.data = p.data
      /\ q.flag = p.flag /\ q.bw = p.bw
  BY <1>1, <1>4 DEF PeerType
<1> HIDE DEF q, G
<1>6. Counts(q) = Counts(p) /\ Limits(q) = Limits(p)
  BY <1>5 DEF Counts, Limits
<1>7. Becomes(h, H, G, i, q, t)
  BY <1>1, <1>5, <1>6, WithPeerBecomes DEF G
<1>8. G \in HostType(h) /\ G.peer[i] = q /\ G.told[i] = t
  BY <1>7, BecomesTyped
<1>9. PeerOK(h, q, t)
  BY <1>1, <1>5, SameOK
<1>10. Good(h, G, K, i)
  BY <1>2, <1>5, <1>8, <1>9, SubmittedTyped, QueueOutgoingGood DEF K
<1>11. Good(h, H, K, i)
  BY <1>1, <1>7, <1>10, GoodTransitive
<1> QED BY <1>3, <1>11, GoodStep

LEMMA KeptRest ==
    ASSUME NEW h, NEW H, NEW K, AtRest(h, H), Kept(h, H, K)
    PROVE  AtRest(h, K)
  BY DEF AtRest, Kept

\* enet_host_bandwidth_limit and enet_host_bandwidth_throttle
LEMMA BandwidthLimitRest ==
    ASSUME AllAtRest(hosts), NEW h \in Hosts, NEW bw \in {0, 1}, BandwidthLimit(h, bw)
    PROVE  AllAtRest(hosts')
<1> DEFINE H == hosts[h]
           A == [H EXCEPT !.bw = bw, !.recalculate = FALSE]
<1>1. AtRest(h, H) /\ H \in HostType(h) /\ HostOK(h, H) /\ bw \in Nat
  BY RestFacts
<1>2. Step(h, TellAll(A, bw))
  BY DEF BandwidthLimit
<1>3. /\ A \in HostType(h) /\ A.peer = H.peer /\ A.told = H.told /\ A.queue = H.queue
      /\ A.connected = H.connected /\ A.limited = H.limited
  BY <1>1 DEF HostType
<1> HIDE DEF A
<1>4. HostOK(h, A)
  BY <1>1, <1>3 DEF HostOK, Exact, Queued
<1>5. AtRest(h, A)
  BY <1>1, <1>3, <1>4 DEF AtRest
<1>6. Kept(h, A, TellAll(A, bw))
  BY <1>1, <1>4, AllKeep
<1> QED BY <1>2, <1>5, <1>6, KeptRest, StepRest

LEMMA SendOutgoingRest ==
    ASSUME AllAtRest(hosts), NetOK(net), NEW h \in Hosts, SendOutgoing(h)
    PROVE  AllAtRest(hosts') /\ NetOK(net')
<1> DEFINE H == hosts[h]
<1>1. /\ AtRest(h, H) /\ H \in HostType(h) /\ HostOK(h, H)
      /\ \A j \in Range1(h) : PeerOK(h, H.peer[j], H.told[j])
  BY RestFacts
<1>2. Step(h, SendAll(H)) /\ net' = net \cup Sends(h, H)
  BY DEF SendOutgoing
<1>3. Kept(h, H, SendAll(H))
  BY <1>1, AllKeep
<1>4. OneDialer => \A j \in Range1(h) : Ends(h, H.peer[j]) /\ Stock(h, H.peer[j])
  BY <1>1 DEF PeerOK, PeerFit
<1>5. NetOK(net')
  BY <1>1, <1>2, <1>4, NetGrows
<1> QED BY <1>1, <1>2, <1>3, <1>5, KeptRest, StepRest

LEMMA TimeOutRest ==
    ASSUME AllAtRest(hosts), NEW h \in Hosts, NEW i \in Range1(h), NEW event \in BOOLEAN,
           TimeOut(h, i, event)
    PROVE  AllAtRest(hosts')
<1>1. hosts[h] \in HostType(h) /\ PeerFit(h, hosts[h].peer[i], hosts[h].told[i])
  BY RestFacts DEF PeerOK
<1>2. Good(h, hosts[h], NotifyDisconnect(hosts[h], i, event), i)
  BY <1>1, NotifyDisconnectGood
<1>3. Step(h, NotifyDisconnect(hosts[h], i, event))
  BY DEF TimeOut
<1> QED BY <1>2, <1>3, GoodStep

\* enet_protocol_handle_incoming_commands
LEMMA ReceiveRest ==
    ASSUME AllAtRest(hosts), NetOK(net), NEW h \in Hosts, NEW d \in net, NEW event \in BOOLEAN,
           Receive(h, d, event)
    PROVE  AllAtRest(hosts')
<1> DEFINE H == hosts[h]
           i == d.id
           res == Handle(H, i, d.cmd, event)
           K == IF res.ok /\ Acknowledges(res.H.peer[i], d.cmd)
                THEN [res.H EXCEPT !.peer[i].acks = @ \cup {d.cmd}]
                ELSE res.H
<1>1. /\ AtRest(h, H) /\ H \in HostType(h) /\ DOMAIN H.peer = Range1(h)
      /\ \A j \in Range1(h) : PeerOK(h, H.peer[j], H.told[j])
  BY RestFacts
<1>2. d \in DatagramType /\ (OneDialer => Carries(d))
  BY DEF NetOK
<1>3. CASE i = MAXIMUM_PEER_ID
  <2>1. d.cmd.type = "CONNECT" /\ d.to = h /\ Step(h, HandleConnect(H, d).H)
    BY <1>3 DEF Receive
  <2>2. AtRest(h, HandleConnect(H, d).H)
    BY <1>1, <1>2, <2>1, HandleConnectGood
  <2> QED BY <2>1, <2>2, StepRest
<1>4. CASE i # MAXIMUM_PEER_ID
  <2>1. i \in Range1(h) /\ Admits(H.peer[i], d) /\ Step(h, K)
    BY <1>1, <1>4 DEF Receive
  <2>2. Good(h, H, K, i)
    BY <1>1, <1>2, <2>1, HandleGood
  <2> HIDE DEF K
  <2> QED BY <2>1, <2>2, GoodStep
<1> QED BY <1>3, <1>4

\* The entries of the queue up to n, and the rest.
LEMMA SplitRange ==
    ASSUME NEW S, NEW s \in Seq(S), NEW n \in 1 .. Len(s)
    PROVE  /\ SubSeq(s, n + 1, Len(s)) \in Seq(S)
           /\ \A j : j \in Range(SubSeq(s, 1, n)) <=> \E k \in 1 .. n : s[k] = j
           /\ \A j \in Range(s) : \/ j \in Range(SubSeq(s, 1, n))
                                  \/ j \in Range(SubSeq(s, n + 1, Len(s)))
<1> DEFINE a == SubSeq(s, 1, n)
           b == SubSeq(s, n + 1, Len(s))
<1>1. /\ a \in Seq(S) /\ b \in Seq(S) /\ Len(a) = n /\ Len(b) = Len(s) - n
      /\ Len(s) \in Nat /\ n \in Nat
  OBVIOUS
<1>2. /\ \A k \in 1 .. n : a[k] = s[k]
      /\ \A k \in 1 .. Len(s) - n : b[k] = s[n + k]
  BY <1>1
<1> HIDE DEF a, b
<1>3. \A j : j \in Range(a) <=> \E k \in 1 .. n : s[k] = j
  BY <1>1, <1>2, Entries
<1>4. ASSUME NEW j \in Range(s) PROVE j \in Range(a) \/ j \in Range(b)
  <2>1. PICK k \in 1 .. Len(s) : s[k] = j
    BY Entries
  <2>2. CASE k <= n
    BY <1>1, <1>3, <2>1, <2>2
  <2>3. CASE k > n
    <3>1. k - n \in 1 .. Len(b) /\ b[k - n] = j
      BY <1>1, <1>2, <2>1, <2>3
    <3> QED BY <1>1, <3>1, Entries
  <2> QED BY <1>1, <2>2, <2>3
<1> QED BY <1>1, <1>3, <1>4 DEF a, b

\* The queue without its first n entries, whose peers are no longer marked.
Plain(p) == [p EXCEPT !.flag = FALSE]
Taken(H, n) ==
    [H EXCEPT !.queue = SubSeq(H.queue, n + 1, Len(H.queue)),
              !.peer = [j \in DOMAIN H.peer |-> IF j \in Range(SubSeq(H.queue, 1, n))
                                                THEN Plain(H.peer[j]) ELSE H.peer[j]]]

LEMMA PlainFields ==
    ASSUME NEW p \in PeerType
    PROVE  LET q == Plain(p)
           IN  /\ q \in PeerType /\ q.state = p.state /\ q.out = p.out /\ q.sent = p.sent
               /\ q.acks = p.acks /\ q.addr = p.addr /\ q.seq = p.seq /\ q.data = p.data
               /\ q.flag = FALSE /\ q.bw = p.bw
  BY DEF PeerType, Plain

LEMMA PlainOK ==
    ASSUME NEW h, NEW p \in PeerType, NEW t, PeerOK(h, p, t), ~Eventful(p)
    PROVE  PeerOK(h, Plain(p), t)
<1> DEFINE q == Plain(p)
<1>1. /\ q.state = p.state /\ q.out = p.out /\ q.sent = p.sent /\ q.acks = p.acks
      /\ q.addr = p.addr /\ q.seq = p.seq /\ q.data = p.data
  BY PlainFields
<1> HIDE DEF q
<1>2. EventOK(q, t)
  <2>1. EventOK(p, t)
    BY DEF PeerOK, PeerFit
  <2>2. ~Eventful(q)
    BY <1>1 DEF Eventful
  <2> QED BY <1>1, <2>1, <2>2 DEF EventOK, KnownAs
<1>3. ASSUME OneDialer PROVE Ends(h, q) /\ Stock(h, q) /\ Waits(q)
  <2>1. Ends(h, p) /\ Stock(h, p) /\ Waits(p)
    BY <1>3 DEF PeerOK, PeerFit
  <2>2. Ends(h, q)
    BY <1>1, <2>1 DEF Ends
  <2>3. Stock(h, q)
    BY <1>1, <2>1 DEF Stock
  <2>4. Waits(q)
    BY <1>1, <2>1 DEF Waits, Holds, HasOutgoing
  <2> QED BY <2>2, <2>3, <2>4
<1> QED BY <1>2, <1>3 DEF PeerOK, PeerFit, q

LEMMA TakenOK ==
    ASSUME NEW h \in Hosts, NEW H, AtRest(h, H), NEW n \in 1 .. Len(H.queue)
    PROVE  LET P == Taken(H, n)
               F == {H.queue[k] : k \in 1 .. n}
           IN  /\ HostOK(h, P) /\ P \in HostType(h) /\ P.told = H.told
               /\ \A j \in F : j \in Range1(h) /\ P.peer[j] = Plain(H.peer[j])
               /\ \A j \in Range1(h) \ F : P.peer[j] = H.peer[j]
<1> DEFINE P == Taken(H, n)
           F == {H.queue[k] : k \in 1 .. n}
           A == SubSeq(H.queue, 1, n)
           Q == SubSeq(H.queue, n + 1, Len(H.queue))
           g == [j \in DOMAIN H.peer |-> IF j \in Range(A) THEN Plain(H.peer[j]) ELSE H.peer[j]]
<1>1. /\ H \in HostType(h) /\ HostOK(h, H) /\ DOMAIN H.peer = Range1(h)
      /\ H.queue \in Seq(Range1(h)) /\ \A j \in Range1(h) : H.peer[j] \in PeerType
  BY AtRestTyped, HostFields
<1>2. /\ Q \in Seq(Range1(h)) /\ \A j : j \in Range(A) <=> j \in F
      /\ \A j \in Range(H.queue) : j \in F \/ j \in Range(Q)
  <2>1. /\ Q \in Seq(Range1(h))
        /\ \A j : j \in Range(A) <=> \E k \in 1 .. n : H.queue[k] = j
        /\ \A j \in Range(H.queue) : j \in Range(A) \/ j \in Range(Q)
    BY <1>1, SplitRange
  <2>2. \A j : j \in F <=> \E k \in 1 .. n : H.queue[k] = j
    OBVIOUS
  <2> HIDE DEF F, Q, A
  <2> QED BY <2>1, <2>2
<1>3. F \subseteq Range1(h)
  <2>1. \A k \in 1 .. Len(H.queue) : H.queue[k] \in Range1(h)
    BY <1>1
  <2> QED BY <1>1, <2>1
<1> HIDE DEF F, Q, A
<1>4. /\ g \in [Range1(h) -> PeerType]
      /\ \A j \in F : g[j] = Plain(H.peer[j])
      /\ \A j \in Range1(h) \ F : g[j] = H.peer[j]
  BY <1>1, <1>2, <1>3, PlainFields
<1>5. P = [H EXCEPT !.queue = Q, !.peer = g]
  BY DEF Taken, Q, A
<1> HIDE DEF P, g
<1>6. /\ P \in HostType(h) /\ P.told = H.told /\ P.peer = g /\ P.queue = Q
      /\ P.connected = H.connected /\ P.limited = H.limited
  BY <1>1, <1>2, <1>4, <1>5 DEF HostType
<1>7. \A j \in Range1(h) : P.peer[j].state = H.peer[j].state /\ P.peer[j].bw = H.peer[j].bw
  <2> SUFFICES ASSUME NEW j \in Range1(h)
               PROVE  P.peer[j].state = H.peer[j].state /\ P.peer[j].bw = H.peer[j].bw
    OBVIOUS
  <2>1. CASE j \in F
    <3>1. P.peer[j] = Plain(H.peer[j])
      BY <1>4, <1>6, <2>1
    <3>2. H.peer[j] \in PeerType
      BY <1>1
    <3>3. Plain(H.peer[j]).state = H.peer[j].state /\ Plain(H.peer[j]).bw = H.peer[j].bw
      BY <3>2, PlainFields
    <3> QED BY <3>1, <3>3
  <2>2. CASE j \notin F
    BY <1>4, <1>6, <2>2
  <2> QED BY <2>1, <2>2
<1>8. DOMAIN P.peer = Range1(h)
  BY <1>6, HostFields
<1>9. Exact(P)
  <2>1. {i \in DOMAIN P.peer : P.peer[i].state \in Connected}
          = {i \in DOMAIN H.peer : H.peer[i].state \in Connected}
    BY <1>1, <1>7, <1>8
  <2>2. {i \in DOMAIN P.peer : P.peer[i].state \in Connected /\ P.peer[i].bw # 0}
          = {i \in DOMAIN H.peer : H.peer[i].state \in Connected /\ H.peer[i].bw # 0}
    BY <1>1, <1>7, <1>8
  <2>3. Exact(H)
    BY <1>1 DEF HostOK
  <2> QED BY <1>6, <2>1, <2>2, <2>3 DEF Exact
<1>10. \A j \in Range1(h) : Queued(P, j)
  <2> SUFFICES ASSUME NEW j \in Range1(h), P.peer[j].flag PROVE j \in Range(P.queue)
    BY DEF Queued
  <2>1. j \notin F
    BY <1>1, <1>4, <1>6, PlainFields
  <2>2. H.peer[j].flag
    BY <1>4, <1>6, <2>1
  <2>3. j \in Range(H.queue)
    BY <1>1, <2>2 DEF HostOK, Queued
  <2> QED BY <1>2, <1>6, <2>1, <2>3
<1>11. HostOK(h, P)
  BY <1>6, <1>9, <1>10 DEF HostOK
<1> QED BY <1>3, <1>4, <1>6, <1>11 DEF P, F

\* One peer's event, out of the queue.
LEMMA PacketTaken ==
    ASSUME NEW h, NEW P \in HostType(h), NEW i \in Range1(h), NEW p \in PeerType, NEW t,
           PeerOK(h, p, t), p.state = "CONNECTED", p.data > 0, P.peer[i] = Plain(p), P.told[i] = t
    PROVE  LET G == [P EXCEPT !.peer[i].data = @ - 1]
           IN  Good(h, P, IF G.peer[i].data > 0 THEN Enqueue(G, i) ELSE G, i)
<1> DEFINE a == Plain(p)
           n == p.data - 1
           u == [a EXCEPT !.data = n]
           v == [u EXCEPT !.flag = TRUE]
           G == WithPeer(P, i, u)
<1>1. /\ a \in PeerType /\ a.state = p.state /\ a.out = p.out /\ a.sent = p.sent
      /\ a.acks = p.acks /\ a.addr = p.addr /\ a.seq = p.seq /\ a.data = p.data
      /\ a.flag = FALSE /\ a.bw = p.bw
  BY PlainFields
<1>2. n \in Nat
  BY DEF PeerType
<1>3. G = [P EXCEPT !.peer[i].data = @ - 1]
  BY <1>1 DEF WithPeer
<1> HIDE DEF a, n
<1>4. /\ u \in PeerType /\ u.state = p.state /\ u.out = p.out /\ u.sent = p.sent
      /\ u.acks = p.acks /\ u.addr = p.addr /\ u.seq = p.seq /\ u.data = n
      /\ u.flag = FALSE /\ u.bw = a.bw
  BY <1>1, <1>2 DEF PeerType
<1> HIDE DEF u
<1>5. /\ v.state = p.state /\ v.out = p.out /\ v.sent = p.sent
      /\ v.acks = p.acks /\ v.addr = p.addr /\ v.seq = p.seq /\ v.flag = TRUE
  BY <1>4 DEF PeerType
<1> HIDE DEF v, G
<1>6. Counts(u) = Counts(a) /\ Limits(u) = Limits(a)
  BY <1>1, <1>4 DEF Counts, Limits
<1>7. Becomes(h, P, G, i, u, t)
  BY <1>1, <1>4, <1>6, WithPeerBecomes DEF G, a
<1>8. G \in HostType(h) /\ G.peer[i] = u /\ G.told[i] = t
  BY <1>7, BecomesTyped
<1>9. CASE u.data > 0
  <2>1. Becomes(h, G, Enqueue(G, i), i, v, t)
    BY <1>8, EnqueueBecomes DEF v
  <2>2. PeerOK(h, v, t)
    BY <1>5, SameOK
  <2>3. Good(h, P, Enqueue(G, i), i)
    BY <1>7, <2>1, <2>2, BecomesTransitive, BecomesGood
  <2> QED BY <1>3, <1>8, <1>9, <2>3
<1>10. CASE ~(u.data > 0)
  <2> DEFINE r == [p EXCEPT !.data = 0]
  <2>1. n = 0
    BY <1>2, <1>4, <1>10
  <2>2. /\ r \in PeerType /\ r.state = p.state /\ r.out = p.out /\ r.sent = p.sent
        /\ r.acks = p.acks /\ r.addr = p.addr /\ r.seq = p.seq /\ r.data = 0 /\ r.flag = p.flag
    BY DEF PeerType
  <2>3. p.flag
    BY DEF PeerOK, PeerFit, EventOK, Eventful
  <2>4. u = Plain(r)
    BY <2>1 DEF u, Plain, PeerType, a
  <2> HIDE DEF r
  <2>5. PeerOK(h, r, t)
    BY <2>2, <2>3, SameOK
  <2>6. ~Eventful(r)
    BY <2>2 DEF Eventful
  <2>7. PeerOK(h, u, t)
    BY <2>2, <2>4, <2>5, <2>6, PlainOK
  <2>8. Good(h, P, G, i)
    BY <1>7, <2>7, BecomesGood
  <2> QED BY <1>3, <1>8, <1>10, <2>8
<1> QED BY <1>9, <1>10

LEMMA ConnectTaken ==
    ASSUME NEW h, NEW P \in HostType(h), NEW i \in Range1(h), NEW p \in PeerType, NEW t,
           PeerOK(h, p, t), p.state \in {"CONNECTION_PENDING", "CONNECTION_SUCCEEDED"},
           P.peer[i] = Plain(p), P.told[i] = t
    PROVE  Good(h, P, ConnectEvent(ChangeState(P, i, "CONNECTED"), i), i)
<1> DEFINE a == Plain(p)
           v == [a EXCEPT !.state = "CONNECTED"]
           A == ChangeState(P, i, "CONNECTED")
<1>1. /\ a \in PeerType /\ a.out = p.out /\ a.sent = p.sent
      /\ a.acks = p.acks /\ a.addr = p.addr /\ a.seq = p.seq /\ a.data = p.data
  BY PlainFields
<1>2. "CONNECTED" \in States
  BY DEF States
<1> HIDE DEF a
<1>3. /\ v.state = "CONNECTED" /\ v.out = p.out /\ v.sent = p.sent
      /\ v.acks = p.acks /\ v.addr = p.addr /\ v.seq = p.seq /\ v.data = p.data
  BY <1>1 DEF PeerType
<1>4. Becomes(h, P, A, i, v, t)
  BY <1>2, ChangeStateBecomes DEF a
<1> HIDE DEF v, A
<1>5. t \in {"none", "asked", "connecting"} /\ PeerFit(h, p, t)
  BY KnownStates DEF PeerOK
<1>6. A \in HostType(h) /\ A.peer[i] = v /\ A.told[i] = t
  BY <1>4, BecomesTyped
<1>7. Becomes(h, A, ConnectEvent(A, i), i, v, "connected")
  BY <1>5, <1>6, ConnectEventBecomes
<1>8. Less(p, v) /\ p.state \in Early \ {"DISCONNECTED"}
  BY <1>3 DEF Less, Early
<1>9. PeerOK(h, v, "connected")
  BY <1>3, <1>5, <1>8, ConnectedOK
<1> QED BY <1>4, <1>7, <1>9, BecomesTransitive, BecomesGood DEF A

LEMMA ZombieTaken ==
    ASSUME NEW h, NEW P \in HostType(h), NEW i \in Range1(h), NEW p \in PeerType, NEW t,
           PeerOK(h, p, t), p.state = "ZOMBIE", P.told[i] = t
    PROVE  Good(h, P, PeerReset(DisconnectEvent([P EXCEPT !.recalculate = TRUE], i), i), i)
<1> DEFINE A == [P EXCEPT !.recalculate = TRUE]
<1>1. t \in {"connecting", "connected"}
  BY KnownStates DEF PeerOK
<1>2. Becomes(h, P, A, i, P.peer[i], t)
  BY RecalculateBecomes
<1> HIDE DEF A
<1>3. A \in HostType(h) /\ A.told[i] = t
  BY <1>2, BecomesTyped
<1>4. Good(h, A, PeerReset(DisconnectEvent(A, i), i), i)
  BY <1>1, <1>3, DisconnectEventGood
<1> QED BY <1>2, <1>4, GoodTransitive DEF A

\* enet_protocol_dispatch_incoming_commands
LEMMA DispatchRest ==
    ASSUME AllAtRest(hosts), NEW h \in Hosts, Dispatch(h)
    PROVE  AllAtRest(hosts')
<1> DEFINE H == hosts[h]
           q == H.queue
           hits == {k \in DOMAIN q : Eventful(H.peer[q[k]])}
           n == IF hits = {} THEN Len(q) ELSE Min(hits)
           i == q[n]
           P == Taken(H, n)
           F == {q[k] : k \in 1 .. n}
           K == IF hits = {} THEN P
                ELSE CASE H.peer[i].state = "ZOMBIE" ->
                            PeerReset(DisconnectEvent([P EXCEPT !.recalculate = TRUE], i), i)
                       [] H.peer[i].state = "CONNECTED" ->
                            LET G == [P EXCEPT !.peer[i].data = @ - 1]
                            IN  IF G.peer[i].data > 0 THEN Enqueue(G, i) ELSE G
                       [] OTHER -> ConnectEvent(ChangeState(P, i, "CONNECTED"), i)
<1>1. /\ AtRest(h, H) /\ H \in HostType(h) /\ q \in Seq(Range1(h))
      /\ \A j \in Range1(h) : PeerOK(h, H.peer[j], H.told[j]) /\ H.peer[j] \in PeerType
  BY RestFacts, HostFields
<1>2. q # <<>> /\ Step(h, K)
  BY DEF Dispatch, Taken, Plain
<1>3. DOMAIN q = 1 .. Len(q) /\ Len(q) \in Nat /\ Len(q) >= 1
  <2> HIDE DEF q, K
  <2>1. DOMAIN q = 1 .. Len(q) /\ Len(q) \in Nat
    BY <1>1
  <2>2. Len(q) # 0
    BY <1>1, <1>2
  <2> QED BY <2>1, <2>2
<1>4. /\ n \in 1 .. Len(q)
      /\ hits # {} => n \in hits
      /\ \A k \in 1 .. n : (hits = {} \/ k # n) => ~Eventful(H.peer[q[k]])
  <2>1. CASE hits = {}
    BY <1>3, <2>1
  <2>2. CASE hits # {}
    <3>1. hits \subseteq Nat /\ hits \subseteq 1 .. Len(q)
      BY <1>3
    <3>2. \E x \in hits : \A y \in hits : x <= y
      BY <2>2, <3>1, LeastElement
    <3>3. n \in hits /\ \A y \in hits : n <= y
      BY <2>2, <3>2, Zenon DEF Min
    <3>4. n \in 1 .. Len(q)
      BY <3>1, <3>3
    <3>5. ASSUME NEW k \in 1 .. n, k # n PROVE k \notin hits /\ k \in DOMAIN q
      <4> HIDE DEF hits, n
      <4> QED BY <1>3, <3>3, <3>4, <3>5
    <3> QED BY <2>2, <3>3, <3>4, <3>5
  <2> QED BY <2>1, <2>2
<1> HIDE DEF n, H
<1>5. /\ HostOK(h, P) /\ P \in HostType(h) /\ P.told = H.told
      /\ \A j \in F : j \in Range1(h) /\ P.peer[j] = Plain(H.peer[j])
      /\ \A j \in Range1(h) \ F : P.peer[j] = H.peer[j]
  BY <1>1, <1>4, TakenOK
<1>6. i \in F /\ i \in Range1(h) /\ P.peer[i] = Plain(H.peer[i]) /\ P.told[i] = H.told[i]
  BY <1>4, <1>5
<1>7. hits # {} => Eventful(H.peer[i])
  BY <1>4
<1>8. \A j \in F : (hits = {} \/ j # i) => ~Eventful(H.peer[j])
  BY <1>4
<1> HIDE DEF hits, i, P, F
<1>9. ASSUME NEW j \in Range1(h), hits = {} \/ j # i PROVE PeerOK(h, P.peer[j], P.told[j])
  <2>1. CASE j \in F
    BY <1>1, <1>5, <1>8, <1>9, <2>1, PlainOK
  <2>2. CASE j \notin F
    BY <1>1, <1>5, <2>2
  <2> QED BY <2>1, <2>2
<1>10. CASE hits = {}
  <2>1. K = P
    BY <1>10
  <2>2. AtRest(h, P)
    BY <1>5, <1>9, <1>10 DEF AtRest
  <2> QED BY <1>2, <2>1, <2>2, StepRest
<1>11. CASE hits # {}
  <2> DEFINE p == H.peer[i]
  <2>1. p \in PeerType /\ PeerOK(h, p, P.told[i]) /\ Eventful(p)
    BY <1>1, <1>6, <1>7, <1>11
  <2>2. Good(h, P, K, i)
    <3>1. CASE p.state = "ZOMBIE"
      <4>1. K = PeerReset(DisconnectEvent([P EXCEPT !.recalculate = TRUE], i), i)
        BY <1>11, <3>1
      <4> QED BY <1>5, <1>6, <2>1, <3>1, <4>1, ZombieTaken
    <3>2. CASE p.state = "CONNECTED"
      <4>1. K = LET G == [P EXCEPT !.peer[i].data = @ - 1]
                IN  IF G.peer[i].data > 0 THEN Enqueue(G, i) ELSE G
        BY <1>11, <3>2
      <4>2. p.data > 0
        BY <2>1, <3>2 DEF Eventful
      <4> HIDE DEF K
      <4> QED BY <1>5, <1>6, <2>1, <3>2, <4>1, <4>2, PacketTaken
    <3>3. CASE p.state \notin {"ZOMBIE", "CONNECTED"}
      <4>1. K = ConnectEvent(ChangeState(P, i, "CONNECTED"), i)
        BY <1>11, <3>3
      <4>2. p.state \in {"CONNECTION_PENDING", "CONNECTION_SUCCEEDED"}
        BY <2>1, <3>3 DEF Eventful
      <4> QED BY <1>5, <1>6, <2>1, <4>1, <4>2, ConnectTaken
    <3> QED BY <3>1, <3>2, <3>3
  <2> HIDE DEF K
  <2>3. HostOK(h, K)
    BY <1>5, <1>6, <2>2, LinkKeeps DEF Good
  <2>4. \A j \in Range1(h) \ {i} : K.peer[j] = P.peer[j] /\ K.told[j] = P.told[j]
    BY <2>2 DEF Good, Linked
  <2>5. AtRest(h, K)
    BY <1>9, <2>2, <2>3, <2>4 DEF AtRest, Good
  <2> QED BY <1>2, <2>5, StepRest
<1> QED BY <1>10, <1>11
-----------------------------------------------------------------------------
(* The theorems.                                                           *)

LEMMA InitRest == Init => IndInv
<1> SUFFICES ASSUME Init PROVE IndInv
  OBVIOUS
<1>1. /\ hosts = [h \in Hosts |->
            [peer |-> [i \in 1 .. Slots[h] |-> Fresh], queue |-> <<>>, broken |-> FALSE,
             connected |-> 0, limited |-> 0, bw |-> 0, recalculate |-> FALSE,
             told |-> [i \in 1 .. Slots[h] |-> "none"]]]
      /\ net = {} /\ connects = 0
  BY DEF Init
<1>2. ASSUME NEW h \in Hosts PROVE AtRest(h, hosts[h])
  <2> DEFINE H == hosts[h]
  <2>1. H = [peer |-> [i \in Range1(h) |-> Fresh], queue |-> <<>>, broken |-> FALSE,
             connected |-> 0, limited |-> 0, bw |-> 0, recalculate |-> FALSE,
             told |-> [i \in Range1(h) |-> "none"]]
    BY <1>1 DEF Range1
  <2> HIDE DEF H
  <2>2. Fresh \in PeerType /\ "none" \in Told /\ <<>> \in Seq(Range1(h))
    BY FreshTyped DEF Told
  <2>3. H \in HostType(h)
    BY <2>1, <2>2 DEF HostType
  <2>4. /\ \A j \in Range1(h) : H.peer[j] = Fresh /\ H.told[j] = "none"
        /\ DOMAIN H.peer = Range1(h) /\ H.connected = 0 /\ H.limited = 0
    BY <2>1
  <2>5. /\ Fresh.state = "DISCONNECTED" /\ Fresh.flag = FALSE /\ Fresh.acks = {}
        /\ Fresh.sent = {} /\ Fresh.out = {} /\ Fresh.data = 0 /\ Fresh.seq = 0
    BY DEF Fresh
  <2>6. Exact(H)
    <3>1. {i \in DOMAIN H.peer : H.peer[i].state \in Connected} = {}
      BY <2>4, <2>5 DEF Connected
    <3>2. {i \in DOMAIN H.peer : H.peer[i].state \in Connected /\ H.peer[i].bw # 0} = {}
      BY <2>4, <2>5 DEF Connected
    <3> QED BY <2>4, <3>1, <3>2, FS_EmptySet DEF Exact
  <2>7. HostOK(h, H)
    BY <2>3, <2>4, <2>5, <2>6 DEF HostOK, Queued
  <2>8. PeerOK(h, Fresh, "none")
    <3>1. EventOK(Fresh, "none")
      BY <2>5 DEF EventOK, KnownAs, Early, Eventful
    <3>2. Ends(h, Fresh) /\ Stock(h, Fresh) /\ Waits(Fresh)
      BY <2>5 DEF Ends, Stock, Waits
    <3> QED BY <3>1, <3>2 DEF PeerOK, PeerFit
  <2> QED BY <2>4, <2>7, <2>8 DEF AtRest, H
<1>3. hosts = [h \in Hosts |-> hosts[h]]
  BY <1>1
<1>4. AllAtRest(hosts)
  BY <1>2, <1>3 DEF AllAtRest
<1>5. connects \in Nat /\ NetOK(net)
  BY <1>1 DEF NetOK
<1> QED BY <1>4, <1>5, IndInvParts

LEMMA NextRest == IndInv /\ [Next]_vars => IndInv'
<1> SUFFICES ASSUME IndInv, [Next]_vars PROVE IndInv'
  OBVIOUS
<1>1. AllAtRest(hosts) /\ connects \in Nat /\ NetOK(net)
  BY IndInvParts
<1> SUFFICES AllAtRest(hosts') /\ connects' \in Nat /\ NetOK(net')
  BY DEF IndInv, AllAtRest, AtRest, NetOK
<1>2. ASSUME NEW h \in Dialers, NEW to \in Hosts \ {h}, Connect(h, to)
      PROVE  AllAtRest(hosts') /\ connects' \in Nat /\ NetOK(net')
  <2>1. connects' = connects + 1 /\ net' = net
    BY <1>2 DEF Connect
  <2> QED BY <1>1, <1>2, <2>1, ConnectRest
<1>3. ASSUME NEW h \in Hosts, NEW i \in DOMAIN hosts[h].peer,
             \/ PeerDisconnect(h, i)
             \/ PeerDisconnectLater(h, i)
             \/ PeerDisconnectNow(h, i)
             \/ Reset(h, i)
             \/ \E type \in {"SEND", "SEND_UNRELIABLE", "PING", "THROTTLE_CONFIGURE"} :
                    Submit(h, i, type)
             \/ \E event \in BOOLEAN : TimeOut(h, i, event)
      PROVE  AllAtRest(hosts') /\ connects' \in Nat /\ NetOK(net')
  <2>1. i \in Range1(h)
    BY <1>1, RestFacts
  <2>2. CASE PeerDisconnect(h, i)
    BY <1>1, <2>1, <2>2, PeerDisconnectRest DEF PeerDisconnect
  <2>3. CASE PeerDisconnectLater(h, i)
    <3>1. net' = net /\ connects' = connects
      BY <2>3 DEF PeerDisconnectLater
    <3> QED BY <1>1, <2>1, <2>3, <3>1, PeerDisconnectLaterRest
  <2>4. CASE PeerDisconnectNow(h, i) \/ Reset(h, i)
    <3>1. connects' = connects
      BY <2>4 DEF PeerDisconnectNow, Reset
    <3> QED BY <1>1, <2>1, <2>4, <3>1, DropRest
  <2>5. ASSUME NEW type \in {"SEND", "SEND_UNRELIABLE", "PING", "THROTTLE_CONFIGURE"},
               Submit(h, i, type)
        PROVE  AllAtRest(hosts') /\ connects' \in Nat /\ NetOK(net')
    <3>1. net' = net /\ connects' = connects
      BY <2>5 DEF Submit
    <3> QED BY <1>1, <2>1, <2>5, <3>1, SubmitRest
  <2>6. ASSUME NEW event \in BOOLEAN, TimeOut(h, i, event)
        PROVE  AllAtRest(hosts') /\ connects' \in Nat /\ NetOK(net')
    <3>1. net' = net /\ connects' = connects
      BY <2>6 DEF TimeOut
    <3> QED BY <1>1, <2>1, <2>6, <3>1, TimeOutRest
  <2> QED BY <1>3, <2>2, <2>3, <2>4, <2>5, <2>6
<1>4. ASSUME NEW h \in Hosts, NEW bw \in {0, 1}, BandwidthLimit(h, bw)
      PROVE  AllAtRest(hosts') /\ connects' \in Nat /\ NetOK(net')
  <2>1. net' = net /\ connects' = connects
    BY <1>4 DEF BandwidthLimit
  <2> QED BY <1>1, <1>4, <2>1, BandwidthLimitRest
<1>5. ASSUME NEW h \in Hosts, SendOutgoing(h)
      PROVE  AllAtRest(hosts') /\ connects' \in Nat /\ NetOK(net')
  <2>1. connects' = connects
    BY <1>5 DEF SendOutgoing
  <2> QED BY <1>1, <1>5, <2>1, SendOutgoingRest
<1>6. ASSUME NEW h \in Hosts, Dispatch(h)
      PROVE  AllAtRest(hosts') /\ connects' \in Nat /\ NetOK(net')
  <2>1. net' = net /\ connects' = connects
    BY <1>6 DEF Dispatch
  <2> QED BY <1>1, <1>6, <2>1, DispatchRest
<1>7. ASSUME NEW h \in Hosts, NEW d \in net, NEW event \in BOOLEAN, Receive(h, d, event)
      PROVE  AllAtRest(hosts') /\ connects' \in Nat /\ NetOK(net')
  <2>1. net' = net /\ connects' = connects
    BY <1>7 DEF Receive
  <2> QED BY <1>1, <1>7, <2>1, ReceiveRest
<1>8. CASE UNCHANGED vars
  <2>1. hosts' = hosts /\ net' = net /\ connects' = connects
    BY <1>8 DEF vars
  <2> QED BY <1>1, <2>1
<1> QED BY <1>2, <1>3, <1>4, <1>5, <1>6, <1>7, <1>8 DEF Next

\* The invariant of the host's peers, queue and counters, and of the datagrams.
THEOREM PeersInvariant == Spec => []IndInv
<1> QED BY InitRest, NextRest, PTL DEF Spec

LEMMA PeersOf ==
    ASSUME IndInv, NEW x \in AllPeers
    PROVE  /\ x[1] \in Hosts /\ x[2] \in Range1(x[1])
           /\ HostOK(x[1], hosts[x[1]])
           /\ hosts[x[1]].peer[x[2]] \in PeerType
           /\ PeerOK(x[1], hosts[x[1]].peer[x[2]], hosts[x[1]].told[x[2]])
<1>1. x[1] \in Hosts /\ x[2] \in DOMAIN hosts[x[1]].peer
  BY DEF AllPeers
<1>2. AllAtRest(hosts)
  BY IndInvParts
<1> QED BY <1>1, <1>2, RestFacts

\* connectedPeers and bandwidthLimitedPeers are exact in every reachable state
\* (enet_peer_on_connect, enet_peer_on_disconnect and the limit that a
\* BANDWIDTH_LIMIT changes while the peer is counted).
THEOREM CountersAreExact == Spec => []CountsAgree
<1>1. IndInv => CountsAgree
  <2> SUFFICES ASSUME IndInv, NEW h \in Hosts
               PROVE  LET H == hosts[h] IN
                      /\ H.queue \in Seq(DOMAIN H.peer)
                      /\ H.connected \in Nat /\ H.limited \in Nat
                      /\ \A i \in DOMAIN H.peer :
                           /\ H.peer[i].state \in States
                           /\ {H.peer[i].inS, H.peer[i].outS} \subseteq 0 .. 3 \cup {NoID}
                      /\ Exact(H)
    BY DEF CountsAgree, TypeOK, CountersExact, Exact
  <2> DEFINE H == hosts[h]
             A == {i \in DOMAIN H.peer : H.peer[i].state \in Connected}
             B == {i \in DOMAIN H.peer : H.peer[i].state \in Connected /\ H.peer[i].bw # 0}
  <2>1. H \in HostType(h) /\ Exact(H)
    BY DEF IndInv, HostOK
  <2>2. /\ DOMAIN H.peer = Range1(h) /\ H.queue \in Seq(Range1(h))
        /\ \A i \in Range1(h) : H.peer[i] \in PeerType
    BY <2>1, HostFields
  <2>3. Slots[h] \in Nat
    BY ConstantsAssumption
  <2>4. IsFiniteSet(A) /\ IsFiniteSet(B)
    <3>1. IsFiniteSet(Range1(h))
      BY <2>3, FS_Interval DEF Range1
    <3>2. A \in SUBSET Range1(h) /\ B \in SUBSET Range1(h)
      BY <2>2
    <3> QED BY <3>1, <3>2, FS_Subset
  <2>5. H.connected \in Nat /\ H.limited \in Nat
    BY <2>1, <2>4, FS_CardinalityType DEF Exact
  <2>6. \A i \in Range1(h) : /\ H.peer[i].state \in States
                             /\ H.peer[i].inS \in Sessions /\ H.peer[i].outS \in Sessions
    BY <2>2 DEF PeerType
  <2> HIDE DEF H
  <2>7. H.queue \in Seq(DOMAIN H.peer)
    BY <2>2
  <2>8. \A i \in DOMAIN H.peer :
          /\ H.peer[i].state \in States
          /\ {H.peer[i].inS, H.peer[i].outS} \subseteq 0 .. 3 \cup {NoID}
    BY <2>2, <2>6 DEF Sessions
  <2> QED BY <2>1, <2>5, <2>7, <2>8 DEF H
<1> QED BY <1>1, PeersInvariant, PTL

\* Every event reaches the application once (enet_protocol_notify_connect,
\* enet_protocol_notify_disconnect and the dispatch queue).
THEOREM EventsReachOnce == Spec => []EventsComplete
<1>1. IndInv => EventsComplete
  <2> SUFFICES ASSUME IndInv, NEW x \in AllPeers
               PROVE  LET H == hosts[x[1]] i == x[2] p == H.peer[i] IN
                      /\ H.told[i] # "bad"
                      /\ p.state = "DISCONNECTED" => H.told[i] \in {"none", "asked"}
                      /\ p.state \in Connected => H.told[i] = "connected"
                      /\ Eventful(p) => p.flag
                      /\ p.flag => i \in Range(H.queue)
    BY DEF EventsComplete, EventsMatch, AwaitsDispatch
  <2> DEFINE H == hosts[x[1]]
             i == x[2]
             p == H.peer[i]
             t == H.told[i]
  <2>1. /\ x[1] \in Hosts /\ i \in Range1(x[1]) /\ HostOK(x[1], H) /\ p \in PeerType
        /\ PeerOK(x[1], p, t)
    BY PeersOf
  <2> HIDE DEF H, i
  <2>2. p.flag => i \in Range(H.queue)
    BY <2>1 DEF HostOK, Queued
  <2>3. EventOK(p, t) /\ PeerFit(x[1], p, t)
    BY <2>1 DEF PeerOK, PeerFit
  <2>4. /\ p.state = "DISCONNECTED" => t \in {"none", "asked"}
        /\ p.state \in Connected => t = "connected"
        /\ t \in {"none", "asked", "connecting", "connected"}
    <3> HIDE DEF p, t
    <3> QED BY <2>1, <2>3, KnownStates DEF Connected
  <2>5. t # "bad"
    BY <2>4
  <2>6. Eventful(p) => p.flag
    BY <2>3 DEF EventOK
  <2> QED BY <2>2, <2>4, <2>5, <2>6 DEF H, i
<1> QED BY <1>1, PeersInvariant, PTL

\* When only one host dials, no peer is left in a state that nothing ends: one
\* that waits holds a command that is sent until it is acknowledged or given
\* up, one that owes the acknowledgement of a DISCONNECT still has it.
THEOREM NobodyIsStuck == OneDialer => (Spec => []NoLimbo)
<1>1. OneDialer /\ IndInv => NoLimbo
  <2> SUFFICES ASSUME OneDialer, IndInv, NEW x \in AllPeers
               PROVE  LET p == hosts[x[1]].peer[x[2]]
                          has(type) == \E c \in p.out \cup p.sent : c.type = type
                      IN  /\ p.state = "CONNECTING" => has("CONNECT")
                          /\ p.state = "ACKNOWLEDGING_CONNECT" => has("VERIFY_CONNECT")
                          /\ p.state = "DISCONNECTING" => has("DISCONNECT")
                          /\ p.state = "DISCONNECT_LATER" => HasOutgoing(p)
                          /\ p.state = "ACKNOWLEDGING_DISCONNECT" => \E a \in p.acks : a.type = "DISCONNECT"
    BY DEF NoLimbo
  <2> DEFINE p == hosts[x[1]].peer[x[2]]
  <2>1. Waits(p)
    BY PeersOf DEF PeerOK
  <2> HIDE DEF p
  <2>2. \A type : Holds(p, type) => \E c \in p.out \cup p.sent : c.type = type
    BY DEF Holds
  <2>3. /\ p.state = "CONNECTING" => \E c \in p.out \cup p.sent : c.type = "CONNECT"
        /\ p.state = "ACKNOWLEDGING_CONNECT" => \E c \in p.out \cup p.sent : c.type = "VERIFY_CONNECT"
        /\ p.state = "DISCONNECTING" => \E c \in p.out \cup p.sent : c.type = "DISCONNECT"
        /\ p.state = "DISCONNECT_LATER" => HasOutgoing(p)
        /\ p.state = "ACKNOWLEDGING_DISCONNECT" => \E a \in p.acks : a.type = "DISCONNECT"
    BY <2>1, <2>2 DEF Waits
  <2> QED BY <2>3 DEF p
<1>2. [](IndInv) /\ []OneDialer => []NoLimbo
  BY <1>1, PTL
<1>3. OneDialer => []OneDialer
  OBVIOUS
<1> QED BY <1>2, <1>3, PeersInvariant, PTL
=============================================================================
