---------------------------- MODULE OriginalFlow ----------------------------
(***************************************************************************)
(* How a host of the original C library limits what it sends: the window   *)
(* of reliable data of each peer, the share of its bandwidth that it       *)
(* grants to each, and the throttle that drops unreliable packets, which   *)
(* follows the measured round trips (host.c, peer.c, protocol.c).          *)
(*                                                                         *)
(* One host is modelled with its peers; the hosts at the other ends        *)
(* announce any bandwidths. The number of connected peers and of those     *)
(* with a limit are counted here; that the counters of the host are these  *)
(* numbers is CountersExact of module OriginalPeers. Integers are of 32    *)
(* bits, here of Word values. CONNECTED stands for DISCONNECT_LATER too.   *)
(***************************************************************************)
EXTENDS Integers, Sequences, FiniteSets, SequencesExt, FiniteSetsExt

CONSTANTS
    HostIn, HostOut, \* bandwidths the host may have, bytes per second; 0 is no limit
    PeerIn, PeerOut, \* bandwidths that the other ends announce
    Word,            \* 2^32
    Second,          \* ENET_HOST_BANDWIDTH_THROTTLE_INTERVAL, one second
    Periods,         \* time between two calls of enet_host_bandwidth_throttle
    Amounts,         \* bytes submitted at once
    CommandSize,     \* bytes of a command without a packet
    Scale, Counter,  \* ENET_PEER_PACKET_THROTTLE_SCALE and _COUNTER
    Acceleration, Deceleration,
    DefaultRtt, Samples,      \* round trips that are measured
    WindowScale, MinWindow, MaxWindow,
    MaxTotal,        \* bound on the bytes of a period
    Budgets          \* bounds: [peers, calls, samples], the numbers of each

\* Bandwidths are integers of 32 bits, a round trip takes 1 at least, the
\* throttle's counter visits every value, and MaxTotal leaves room for the
\* commands of the handshake.
ASSUME FlowAssumption ==
    /\ \A b \in Budgets : b \in [peers : Nat \ {0}, calls : Nat, samples : Nat]
    /\ Word \in Nat \ {0}
    /\ \A S \in {HostIn, HostOut, PeerIn, PeerOut} : S \subseteq 0 .. Word - 1
    /\ Second \in Nat \ {0} /\ \A e \in Periods : e \in Nat /\ e >= Second
    /\ Scale \in Nat /\ Counter \in 1 .. Scale - 1
    /\ \A k \in 1 .. Scale - 1 : (k * Counter) % Scale # 0
    /\ Acceleration \in Nat /\ Deceleration \in Nat
    /\ DefaultRtt \in Nat /\ Samples \subseteq Nat \ {0}
    /\ WindowScale \in Nat \ {0}
    /\ MinWindow \in Nat \ {0} /\ MaxWindow \in Nat /\ MinWindow <= MaxWindow
    /\ Amounts \subseteq Nat /\ CommandSize \in Nat /\ MaxTotal \in Nat
    /\ 2 * CommandSize <= MaxTotal

VARIABLES
    host,      \* incomingBandwidth, outgoingBandwidth, recalculateBandwidthLimits
    peer,      \* [Peers -> the peer]
    budget     \* what is left of one of Budgets

flowVars == <<host, peer, budget>>

PeerCount == budget.peers
Peers == 1 .. PeerCount

\* enet_peer_reset. hist (the round trips measured) and told (the incoming
\* bandwidth announced to the peer last, -1 for none) are for the properties.
Fresh ==
    [state |-> "DISCONNECTED", in |-> 0, out |-> 0, window |-> MaxWindow, total |-> 0,
     throttle |-> Scale, limit |-> Scale, counter |-> 0,
     rtt |-> DefaultRtt, var |-> 0, lowest |-> DefaultRtt, highest |-> 0,
     lastRtt |-> DefaultRtt, lastVar |-> 0, hist |-> <<>>, told |-> -1]

Connected(ps) == {p \in Peers : ps[p].state = "CONNECTED"}

\* The sum of f over the peers of S
Total(f, S) ==
    LET sum[p \in 0 .. PeerCount] ==
            IF p = 0 THEN 0 ELSE sum[p - 1] + IF p \in S THEN f[p] ELSE 0
    IN  sum[PeerCount]
-----------------------------------------------------------------------------
(* Windows.                                                                *)

Clamp(w) == IF w < MinWindow THEN MinWindow ELSE IF w > MaxWindow THEN MaxWindow ELSE w

Scaled(bandwidth) == IF bandwidth = 0 THEN MaxWindow ELSE (bandwidth \div WindowScale) * MinWindow

\* Mutant: the larger of two limits counts.
SharedWindow_Larger(own, its) == Clamp(Scaled(IF own > its THEN own ELSE its))

\* The window towards a peer: by the lower of two limits, or by the only one.
SharedWindow(own, its) ==
    Clamp(Scaled(IF (own < its /\ own # 0) \/ its = 0 THEN own ELSE its))

\* What the other end answers to a CONNECT that asks for a window.
AnswerWindow(itsIn, asked) == Clamp(IF Scaled(itsIn) > asked THEN asked ELSE Scaled(itsIn))
-----------------------------------------------------------------------------
(* Connections.                                                            *)

Call == budget.calls > 0 /\ budget' = [budget EXCEPT !.calls = @ - 1]

\* enet_host_connect
Connect(p) ==
    /\ peer[p].state = "DISCONNECTED"
    /\ peer' = [peer EXCEPT ![p].state = "CONNECTING", ![p].window = Clamp(Scaled(host.out)),
                            ![p].total = @ + CommandSize]
    /\ UNCHANGED <<host, budget>>

\* enet_protocol_handle_verify_connect of a host with these bandwidths, and its
\* acknowledgement
HandleVerify(p, incoming, outgoing) ==
    /\ peer[p].state = "CONNECTING"
    /\ LET w == AnswerWindow(incoming, peer[p].window) IN
       peer' = [peer EXCEPT ![p].state = "CONNECTED", ![p].in = incoming, ![p].out = outgoing,
                            ![p].window = IF w < @ THEN w ELSE @, ![p].total = @ + CommandSize]
    /\ host' = [host EXCEPT !.recalculate = TRUE]
    /\ UNCHANGED budget

\* enet_protocol_handle_connect; the acknowledgement of the answer connects.
HandleConnect(p, incoming, outgoing) ==
    /\ peer[p].state = "DISCONNECTED"
    /\ peer' = [peer EXCEPT ![p].state = "ACKNOWLEDGING_CONNECT",
                            ![p].in = incoming, ![p].out = outgoing,
                            ![p].window = SharedWindow(host.out, incoming),
                            ![p].total = @ + CommandSize]
    /\ UNCHANGED <<host, budget>>

\* enet_protocol_notify_disconnect and enet_peer_reset, which tells nobody
Leave(p, notify) ==
    /\ Call
    /\ peer[p].state # "DISCONNECTED"
    /\ host' = [host EXCEPT !.recalculate = @ \/ (notify /\ peer[p].state = "CONNECTED")]
    /\ peer' = [peer EXCEPT ![p] = Fresh]

\* enet_host_bandwidth_limit
BandwidthLimit(incoming, outgoing) ==
    /\ Call
    /\ host' = [in |-> incoming, out |-> outgoing, recalculate |-> TRUE]
    /\ UNCHANGED peer

\* enet_protocol_handle_bandwidth_limit, and its acknowledgement
HandleBandwidthLimit(p, incoming, outgoing) ==
    /\ Call
    /\ p \in Connected(peer)
    /\ peer[p].total + CommandSize <= MaxTotal
    /\ peer' = [peer EXCEPT ![p].in = incoming, ![p].out = outgoing,
                            ![p].window = SharedWindow(host.out, incoming),
                            ![p].total = @ + CommandSize]
    /\ UNCHANGED host
-----------------------------------------------------------------------------
(* Round trips and the throttle.                                           *)

\* packetThrottleCounter after k unreliable packets
CounterAfter(c, k) == (c + k * Counter) % Scale

\* A packet is queued (enet_peer_setup_outgoing_command) and, being
\* unreliable, sent or dropped by the throttle; both count as data.
Submit(p, n) ==
    /\ Call
    /\ p \in Connected(peer)
    /\ peer[p].total + n <= MaxTotal
    /\ peer' = [peer EXCEPT ![p].total = @ + n, ![p].counter = CounterAfter(@, 1)]
    /\ UNCHANGED host

\* enet_peer_throttle
PeerThrottle(q, s) ==
    LET up == (q.throttle + Acceleration) % Word IN
    IF q.lastRtt <= q.lastVar THEN q.limit
    ELSE IF s <= q.lastRtt THEN IF up > q.limit THEN q.limit ELSE up
    ELSE IF s > q.lastRtt + 2 * q.lastVar
         THEN IF q.throttle > Deceleration THEN q.throttle - Deceleration ELSE 0
    ELSE q.throttle

\* Mutant: the mean moves by the whole difference and more.
Measure_Overshoots(q, s) ==
    LET diff == IF s >= q.rtt THEN s - q.rtt ELSE q.rtt - s
    IN  IF q.hist = <<>>
        THEN [q EXCEPT !.rtt = s, !.var = (s + 1) \div 2]
        ELSE [q EXCEPT !.throttle = PeerThrottle(q, s),
                       !.var = @ - @ \div 4 + diff \div 4,
                       !.rtt = IF s >= @ THEN @ + diff + diff \div 8 ELSE @ - diff \div 8]

\* The estimate after a round trip of s, and the throttle, unless it is the
\* first round trip of the peer.
Measure(q, s) ==
    LET diff == IF s >= q.rtt THEN s - q.rtt ELSE q.rtt - s
    IN  IF q.hist = <<>>
        THEN [q EXCEPT !.rtt = s, !.var = (s + 1) \div 2]
        ELSE [q EXCEPT !.throttle = PeerThrottle(q, s),
                       !.var = @ - @ \div 4 + diff \div 4,
                       !.rtt = IF s >= @ THEN @ + diff \div 8 ELSE @ - diff \div 8]

\* The peer afterwards. over: packetThrottleInterval has passed since the lowest
\* mean was last taken over, or it never was.
Acknowledged(q, s, over) ==
    LET m == Measure(q, s)
        low == IF m.rtt < m.lowest THEN m.rtt ELSE m.lowest
        high == IF m.var > m.highest THEN m.var ELSE m.highest
        new == IF over
               THEN [m EXCEPT !.lastRtt = low, !.lastVar = IF high > 1 THEN high ELSE 1,
                              !.lowest = m.rtt, !.highest = m.var]
               ELSE [m EXCEPT !.lowest = low, !.highest = high]
    IN  [new EXCEPT !.state = IF @ = "ACKNOWLEDGING_CONNECT" THEN "CONNECTED" ELSE @,
                    !.hist = Append(@, s)]

\* enet_protocol_handle_acknowledge
HandleAcknowledge(p, s, over) ==
    /\ peer[p].state # "DISCONNECTED"
    /\ budget.samples > 0 /\ budget' = [budget EXCEPT !.samples = @ - 1]
    /\ peer[p].hist = <<>> => over
    /\ peer' = [peer EXCEPT ![p] = Acknowledged(@, s, over)]
    /\ host' = [host EXCEPT !.recalculate = @ \/ peer[p].state = "ACKNOWLEDGING_CONNECT"]
-----------------------------------------------------------------------------
(* enet_host_bandwidth_throttle.                                           *)

\* Mutant: a period of any length counts as one second.
Earned_OneSecond(bandwidth, period) == bandwidth

Earned(bandwidth, period) == ((bandwidth * period) % Word) \div Second

\* The throttle that fits the data left into the bandwidth left
Fitting(acc) ==
    IF acc.data <= acc.bandwidth THEN Scale
    ELSE ((acc.bandwidth * Scale) % Word) \div acc.data

\* The limit of the throttle of a peer, and a period that begins
Limited(q, limit) ==
    [q EXCEPT !.limit = limit, !.throttle = IF @ > limit THEN limit ELSE @, !.total = 0]

\* Mutant: the outgoing bandwidth of a peer is taken for its incoming one.
LimitPeer_Outgoing(period, acc, p) ==
    LET q == acc.peer[p]
        its == Earned(q.out, period)
        limit == ((its * Scale) % Word) \div q.total
    IN  IF \/ p \notin Connected(acc.peer) \/ q.in = 0 \/ p \in acc.done
           \/ ((acc.throttle * q.total) % Word) \div Scale <= its
        THEN acc
        ELSE [acc EXCEPT !.peer[p] = Limited(q, IF limit = 0 THEN 1 ELSE limit),
                         !.done = @ \cup {p}, !.again = TRUE,
                         !.bandwidth = (@ - its) % Word, !.data = (@ - its) % Word]

\* One peer of a pass: one that cannot take what the throttle lets through gets
\* a limit of its own, and what it can take leaves the bandwidth of the others.
LimitPeer(period, acc, p) ==
    LET q == acc.peer[p]
        its == Earned(q.in, period)
        limit == ((its * Scale) % Word) \div q.total
    IN  IF \/ p \notin Connected(acc.peer) \/ q.in = 0 \/ p \in acc.done
           \/ ((acc.throttle * q.total) % Word) \div Scale <= its
        THEN acc
        ELSE [acc EXCEPT !.peer[p] = Limited(q, IF limit = 0 THEN 1 ELSE limit),
                         !.done = @ \cup {p}, !.again = TRUE,
                         !.bandwidth = (@ - its) % Word, !.data = (@ - its) % Word]

\* A pass over the peers, if the last one limited a peer and one is left
LimitPass(period, acc) ==
    LET after[p \in 0 .. PeerCount] ==
            IF p = 0 THEN [acc EXCEPT !.again = FALSE, !.throttle = Fitting(acc)]
            ELSE LimitPeer(period, after[p - 1], p)
    IN  IF acc.again /\ acc.done # Connected(peer) THEN after[PeerCount] ELSE acc

\* Passes until one changes nothing; each of the others limits a peer, so there
\* are at most PeerCount of them. Then the peers left share what is left.
LimitPeers(period) ==
    LET total == Total([p \in Peers |-> peer[p].total], Connected(peer))
        after[i \in 0 .. PeerCount + 1] ==
            IF i = 0
            THEN [peer |-> peer, done |-> {}, throttle |-> 0,
                  again |-> \E p \in Connected(peer) : peer[p].in # 0,
                  bandwidth |-> IF host.out = 0 THEN Word - 1 ELSE Earned(host.out, period),
                  data |-> IF host.out = 0 THEN Word - 1 ELSE total % Word]
            ELSE LimitPass(period, after[i - 1])
        end == after[PeerCount + 1]
    IN  [p \in Peers |-> IF p \in Connected(peer) \ end.done
                         THEN Limited(end.peer[p], Fitting(end)) ELSE end.peer[p]]

\* A peer that sends less than an equal share is granted what it sends.
Grant(ps, acc, p) ==
    IF p \notin Connected(ps) \/ p \in acc.done \/ (ps[p].out > 0 /\ ps[p].out >= acc.share)
    THEN acc
    ELSE [acc EXCEPT !.done = @ \cup {p}, !.again = TRUE, !.left = @ - 1,
                     !.bandwidth = (@ - ps[p].out) % Word]

GrantPass(ps, acc) ==
    LET after[p \in 0 .. PeerCount] ==
            IF p = 0 THEN [acc EXCEPT !.again = FALSE, !.share = acc.bandwidth \div acc.left]
            ELSE Grant(ps, after[p - 1], p)
    IN  IF acc.again /\ acc.left > 0 THEN after[PeerCount] ELSE acc

\* Who is told which incoming bandwidth: what it was granted, or the share of
\* the rest.
Grants(ps) ==
    LET after[i \in 0 .. PeerCount + 1] ==
            IF i = 0
            THEN [done |-> {}, again |-> host.in # 0, bandwidth |-> host.in, share |-> 0,
                  left |-> Cardinality(Connected(ps))]
            ELSE GrantPass(ps, after[i - 1])
        end == after[PeerCount + 1]
    IN  [p \in Connected(ps) |-> IF p \in end.done THEN ps[p].out ELSE end.share]

Throttle(period) ==
    /\ Call
    /\ IF Connected(peer) = {}
       THEN UNCHANGED <<host, peer>>
       ELSE LET ps == LimitPeers(period)
                told == Grants(ps)
            IN  /\ host' = [host EXCEPT !.recalculate = FALSE]
                /\ peer' = [p \in Peers |->
                               IF host.recalculate /\ p \in DOMAIN told
                               THEN [ps[p] EXCEPT !.told = told[p], !.total = CommandSize]
                               ELSE ps[p]]

FlowInit ==
    /\ host \in [in : HostIn, out : HostOut, recalculate : {FALSE}]
    /\ budget \in Budgets
    /\ peer = [p \in Peers |-> Fresh]

FlowNext ==
    \/ \E p \in Peers :
        \/ Connect(p)
        \/ \E incoming \in PeerIn, outgoing \in PeerOut :
            \/ HandleVerify(p, incoming, outgoing)
            \/ HandleConnect(p, incoming, outgoing)
            \/ HandleBandwidthLimit(p, incoming, outgoing)
        \/ \E notify \in BOOLEAN : Leave(p, notify)
        \/ \E n \in Amounts : Submit(p, n)
        \/ \E s \in Samples, over \in BOOLEAN : HandleAcknowledge(p, s, over)
    \/ \E incoming \in HostIn, outgoing \in HostOut : BandwidthLimit(incoming, outgoing)
    \/ \E e \in Periods : Throttle(e)

FlowSpec == FlowInit /\ [][FlowNext]_flowVars
-----------------------------------------------------------------------------
(* Properties.                                                             *)

FlowTypeOK ==
    /\ host \in [in : HostIn, out : HostOut, recalculate : BOOLEAN]
    /\ \A p \in Peers : LET q == peer[p] IN
        /\ q.window \in MinWindow .. MaxWindow
        /\ q.limit \in 0 .. Scale /\ q.throttle \in 0 .. q.limit
        /\ q.total \in 0 .. MaxTotal /\ q.counter \in 0 .. Scale - 1
        /\ q.in \in PeerIn \cup {0} /\ q.out \in PeerOut \cup {0}

(* enet_host_bandwidth_throttle multiplies in 32 bits. Data beyond          *)
(* Word / Scale of a period, and bandwidths whose product with a period is  *)
(* Word or more, make it compute with what is left of the products.         *)

\* Of Scale packets, the number that a throttle lets pass: those for which the
\* counter does not exceed it.
Share(throttle) == IF throttle < Scale THEN throttle + 1 ELSE Scale

\* What passes the limit of a peer when the next period is like the last, in
\* parts of Scale
Passing(p) == peer[p].total * Share(peer'[p].limit)

\* While no product with the data of a period wraps, whatever products with the
\* bandwidths do: what passes the throttle exceeds the bandwidth of the host by
\* one packet of Scale at most, and that of each peer by this and less than one
\* byte, in whichever order the peers were limited. A limit of 1, the least a
\* slow peer gets, may be more than fits.
ShareKept ==
    [][\A e \in Periods : Throttle(e) =>
        LET submitted == [p \in Connected(peer) |-> peer[p].total]
            fits == {p \in Connected(peer) : peer'[p].limit # 1}
            passing == [p \in fits |-> Passing(p)]
            earned(bandwidth) == (bandwidth * e) \div Second
        IN  (/\ Total(submitted, Connected(peer)) < Word
             /\ \A p \in Connected(peer) : Scale * peer[p].total < Word)
                => /\ host.out # 0 =>
                        Total(passing, fits) <= Scale * earned(host.out) + Total(submitted, fits)
                   /\ \A p \in fits : peer[p].in # 0 =>
                        Passing(p) < Scale * (earned(peer[p].in) + 1) + peer[p].total]_flowVars

\* Nobody is limited for nothing in a period: if what was submitted fits into
\* the bandwidths as it is, every packet may pass in the next.
NotLimited(e) ==
    LET submitted == [p \in Connected(peer) |-> peer[p].total]
        fits(n, bandwidth) == bandwidth = 0 \/ n <= (bandwidth * e) \div Second
    IN  (/\ fits(Total(submitted, Connected(peer)), host.out)
         /\ \A p \in Connected(peer) : fits(peer[p].total, peer[p].in))
            => \A p \in Connected(peer) : peer'[p].limit = Scale

\* The product of some bandwidth with the period has no room in a word.
ProductWraps(e) ==
    \E b \in {host.out} \cup {peer[p].in : p \in Connected(peer)} : b * e >= Word

\* The throttle is not limited for nothing, unless a product of a bandwidth and
\* the period wraps, of whichever peer or of the host, and however often peers
\* were limited or came and went before.
NoNeedlessLimit ==
    [][\A e \in Periods : Throttle(e) /\ ~ProductWraps(e) => NotLimited(e)]_flowVars

\* The comment on enet_host_create says that packets are dropped so that the
\* bandwidth is not overwhelmed: not if they fit, in any range of bandwidths.
\* In the code a product that wraps is taken for a lower bandwidth.
NeverNeedless == [][\A e \in Periods : Throttle(e) => NotLimited(e)]_flowVars

\* The incoming bandwidths that the host announces add up to no more than it
\* has, whoever came, left or changed its own before (a peer told 0 aside,
\* which is OnlyLimits).
GrantsFit ==
    host.in # 0 /\ ~host.recalculate =>
        LET told == {p \in Connected(peer) : peer[p].told >= 0}
        IN  Total([p \in told |-> peer[p].told], told) <= host.in

\* The window towards a peer is never more than the incoming bandwidth that
\* the peer announced last allows, by whichever side the connection was made.
WindowFits ==
    \A p \in Peers : peer[p].in # 0 => peer[p].window <= Clamp(Scaled(peer[p].in))

\* The mean round trip lies between the shortest and the longest measured, its
\* variance below the longest, and the extremes of the interval enclose both.
RttWithin ==
    \A p \in Peers : LET q == peer[p] IN
        q.hist # <<>> =>
            /\ q.rtt \in Min(Range(q.hist)) .. Max(Range(q.hist))
            /\ q.var \in 0 .. Max(Range(q.hist))
            /\ q.lowest <= q.rtt /\ q.highest >= q.var

\* Of Scale unreliable packets in a row, how many pass the throttle
Pass(q) == Cardinality({k \in 1 .. Scale : CounterAfter(q.counter, k) <= q.throttle})

\* Of Scale unreliable packets in a row the throttle lets as many pass as its
\* value says, or one more, wherever the counter stands.
DropShare ==
    \A p \in Peers : Pass(peer[p]) \in {peer[p].throttle, peer[p].throttle + 1}

\* Announced bandwidths and windows fit what the host and the peers have.
LimitsFit == GrantsFit /\ WindowFits

\* The round-trip estimate follows the measurements, and the throttle lets the
\* share of packets pass that its value says, to within one packet of Scale.
ThrottleExact == FlowTypeOK /\ RttWithin /\ DropShare

\* What the comment on enet_peer_throttle_configure says of a throttle of 0: all
\* unreliable packets are dropped. In the code the one passes for which the
\* counter is 0.
ZeroDropsAll == \A p \in Peers : peer[p].throttle = 0 => Pass(peer[p]) = 0

\* What the comment on enet_host_create says of the incoming bandwidth, that it
\* is not overwhelmed: no peer is left without a limit. In the code a peer that
\* announced no limit of its own is told 0, which is no limit.
OnlyLimits ==
    host.in # 0 => \A p \in Connected(peer) : peer[p].told # 0

\* What that comment says of the outgoing bandwidth: it determines the window.
\* In the code a change of it by enet_host_bandwidth_limit does not.
OwnWindowFits ==
    host.out # 0 /\ ~host.recalculate =>
        \A p \in Connected(peer) : peer[p].window <= Clamp(Scaled(host.out))

\* What the comment on enet_peer_throttle_configure says: only a round trip
\* that is significantly longer than the mean lowers the throttle, not one
\* that equals each of the last three.
SteadyKeeps ==
    [][\A p \in Peers :
        LET h == peer'[p].hist IN
        (Len(h) > 4 /\ h # peer[p].hist /\ Cardinality({h[i] : i \in Len(h) - 3 .. Len(h)}) = 1)
            => peer'[p].throttle >= peer[p].throttle]_flowVars
=============================================================================
