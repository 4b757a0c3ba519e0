----------------------------- MODULE FlowControl -----------------------------
(***************************************************************************)
(* How much a host may send to each peer: the window size negotiated in    *)
(* the handshake (on_connect, on_verify_connect), shared out once a second *)
(* by bandwidth_throttle, and changed by the peer's BANDWIDTH_LIMIT; with  *)
(* the throttle parameters that travel the same way (THROTTLE_CONFIGURE).  *)
(* All of it is in task.rs.                                                *)
(*                                                                         *)
(* One server talks to clients.  The Native ones are clients of this       *)
(* crate: they offer the largest window and no bandwidth limit.  The       *)
(* others run another implementation of the protocol and may offer,        *)
(* configure and limit what they like.  Slots, sessions and connect_id are *)
(* the business of HostPeers: a client has one slot here.                  *)
(***************************************************************************)
EXTENDS Integers, FiniteSets, FiniteSetsExt

CONSTANTS
  Clients, Native,   \* all clients, and those of this crate
  WinMin, WinMax,    \* WINDOW_SIZE_MIN, WINDOW_SIZE_MAX
  Scale,             \* PACKET_THROTTLE_SCALE
  DefaultInterval,   \* THROTTLE_INTERVAL_MS
  DefaultStep,       \* THROTTLE_ACCELERATION and THROTTLE_DECELERATION, which are equal
  InBw, OutBw,       \* the server's incoming_bandwidth and outgoing_bandwidth
  Windows,           \* windows other clients ask for
  Bandwidths,        \* bandwidths other clients announce
  Intervals, Steps   \* throttle parameters other clients announce

Throttle(i, a, d) == [interval |-> i, acceleration |-> a, deceleration |-> d]

Defaults == Throttle(DefaultInterval, DefaultStep, DefaultStep)

Throttles == {Throttle(i, a, d) : i \in Intervals, a \in Steps, d \in Steps}

NoPeer == [state |-> "Free"]

VARIABLES
  peers,     \* the server's entry for every client
  clients,   \* the entry of every native client for the server
  net,       \* commands under way to the native clients
  asked,     \* history: the window every client asked for in its CONNECT
  told       \* history: the incoming bandwidth every client last announced

vars == <<peers, clients, net, asked, told>>

Init ==
  /\ peers = [c \in Clients |-> NoPeer]
  /\ clients = [c \in Native |-> NoPeer]
  /\ net = {}
  /\ asked = [c \in Clients |-> WinMax] /\ told = [c \in Clients |-> 0]

----------------------------------------------------------------------------
(* Window sizes.                                                            *)

Least(a, b) == IF a <= b THEN a ELSE b
Most(a, b) == IF a >= b THEN a ELSE b

Clamp(w) == Most(WinMin, Least(w, WinMax))

\* The window for a bandwidth that is limited.
Share(bw) == Most((bw \div WinMax) * WinMin, WinMin)

\* on_connect: from the server's own incoming bandwidth.
ServerWindow == IF InBw = 0 THEN WinMax ELSE Share(InBw)

\* on_connect: from what the server may send and the client can take.
PeerWindow(client_in) ==
  IF OutBw = 0 /\ client_in = 0 THEN WinMax
  ELSE IF OutBw = 0 \/ client_in = 0 THEN Share(Most(OutBw, client_in))
  ELSE Share(Least(OutBw, client_in))

\* on_connect.
Negotiated(window, client_in) ==
  Clamp(Least(Least(ServerWindow, PeerWindow(client_in)), window))

----------------------------------------------------------------------------
(* The handshake.                                                           *)

Entry(state, window, t) == [state |-> state, window |-> window, throttle |-> t]

Verify(c) == [to |-> c, type |-> "VERIFY_CONNECT", window |-> peers'[c].window,
              throttle |-> peers'[c].throttle]

Limit(c, ib, ob) == [to |-> c, type |-> "BANDWIDTH_LIMIT", ib |-> ib, ob |-> ob]

\* begin_connect of a native client.
BeginConnect(c) ==
  /\ clients[c] = NoPeer
  /\ clients' = [clients EXCEPT ![c] = Entry("Connecting", WinMax, Defaults)]
  /\ UNCHANGED <<peers, net, asked, told>>

\* on_connect: whatever entry the client had is replaced.
OnConnect(c, window, client_in, t) ==
  /\ peers' = [peers EXCEPT ![c] =
                 Entry("AcknowledgingConnect", Negotiated(window, client_in), t)]
  /\ net' = IF c \in Native THEN net \cup {Verify(c)} ELSE net
  /\ asked' = [asked EXCEPT ![c] = window]
  /\ told' = [told EXCEPT ![c] = client_in]
  /\ UNCHANGED clients

NativeConnect(c) == clients[c] # NoPeer /\ OnConnect(c, WinMax, 0, Defaults)

ForeignConnect(c) ==
  \E w \in Windows : \E bw \in Bandwidths : \E t \in Throttles : OnConnect(c, w, bw, t)

\* on_verify_connect.
OnVerifyConnect(m) ==
  /\ m.type = "VERIFY_CONNECT"
  /\ clients[m.to].state = "Connecting"
  /\ clients' = [clients EXCEPT ![m.to] = Entry("Connected", Clamp(m.window), m.throttle)]
  /\ UNCHANGED <<peers, net, asked, told>>

\* on_ack of VERIFY_CONNECT at the server.
OnVerifyAck(c) ==
  /\ peers[c].state = "AcknowledgingConnect"
  /\ c \in Native => clients[c].state = "Connected"
  /\ peers' = [peers EXCEPT ![c].state = "Connected"]
  /\ UNCHANGED <<clients, net, asked, told>>

\* remove_peer: disconnect or timeout, at the server and at a native client.
RemovePeer(c) ==
  /\ peers[c] # NoPeer
  /\ peers' = [peers EXCEPT ![c] = NoPeer]
  /\ UNCHANGED <<clients, net, asked, told>>

ClientStops(c) ==
  /\ clients[c] # NoPeer
  /\ clients' = [clients EXCEPT ![c] = NoPeer]
  /\ UNCHANGED <<peers, net, asked, told>>

----------------------------------------------------------------------------
(* Limits and throttle parameters.                                          *)

ConnectedPeers == {c \in Clients : peers[c].state = "Connected"}

PerPeer == Clamp(OutBw \div Cardinality(ConnectedPeers))

\* bandwidth_throttle, once its interval is over.
BandwidthThrottle ==
  LET n  == Cardinality(ConnectedPeers)
      ob == IF OutBw > 0 THEN OutBw \div n ELSE 0
  IN  /\ InBw # 0 \/ OutBw # 0
      /\ n # 0
      /\ peers' = IF OutBw > 0
                  THEN [c \in Clients |-> IF c \in ConnectedPeers
                                          THEN [peers[c] EXCEPT !.window = PerPeer]
                                          ELSE peers[c]]
                  ELSE peers
      /\ net' = IF InBw = 0 /\ ob = 0 THEN net
                ELSE net \cup {Limit(c, InBw, ob) : c \in ConnectedPeers \cap Native}
      /\ UNCHANGED <<clients, asked, told>>

\* Mutant: what the sender may send is taken for what it can take.
Limited_Outgoing(w, ib, ob) ==
  IF ib = 0 /\ ob = 0 THEN w
  ELSE Clamp(IF ob = 0 THEN WinMax ELSE Share(ob))

\* on_command, CMD_BANDWIDTH_LIMIT: the window after a limit.
Limited(w, ib, ob) ==
  IF ib = 0 /\ ob = 0 THEN w
  ELSE Clamp(IF ib = 0 THEN WinMax ELSE Share(ib))

\* At a native client.  The command is applied as often as it arrives.
OnBandwidthLimit(m) ==
  /\ m.type = "BANDWIDTH_LIMIT"
  /\ clients[m.to] # NoPeer
  /\ clients' = [clients EXCEPT ![m.to].window = Limited(@, m.ib, m.ob)]
  /\ UNCHANGED <<peers, net, asked, told>>

\* At the server, from a client that announces its bandwidth.
ForeignLimit(c, ib, ob) ==
  /\ peers[c] # NoPeer
  /\ peers' = [peers EXCEPT ![c].window = Limited(@, ib, ob)]
  /\ told' = [told EXCEPT ![c] = ib]
  /\ UNCHANGED <<clients, net, asked>>

\* on_command, CMD_THROTTLE_CONFIGURE.
ForeignThrottle(c, t) ==
  /\ peers[c] # NoPeer
  /\ peers' = [peers EXCEPT ![c].throttle =
       Throttle(IF t.interval > 0 THEN t.interval ELSE @.interval,
                Least(t.acceleration, Scale), Least(t.deceleration, Scale))]
  /\ UNCHANGED <<clients, net, asked, told>>

Next ==
  \/ \E c \in Native : BeginConnect(c) \/ NativeConnect(c) \/ ClientStops(c)
  \/ \E c \in Clients : OnVerifyAck(c) \/ RemovePeer(c)
  \/ \E c \in Clients \ Native :
       \/ ForeignConnect(c)
       \/ \E ib, ob \in Bandwidths : ForeignLimit(c, ib, ob)
       \/ \E t \in Throttles : ForeignThrottle(c, t)
  \/ BandwidthThrottle
  \/ \E m \in net : OnVerifyConnect(m) \/ OnBandwidthLimit(m)

Spec == Init /\ [][Next]_vars

\* The ticker of run calls service_all, and with it bandwidth_throttle.
FairSpec == Spec /\ WF_vars(BandwidthThrottle)

----------------------------------------------------------------------------
(* Properties.                                                              *)

States == {"Connecting", "AcknowledgingConnect", "Connected"}

\* Entries are well-formed and every window is within the limits of the
\* protocol, whoever set it last (on_connect, on_verify_connect,
\* bandwidth_throttle, CMD_BANDWIDTH_LIMIT).
TypeOK ==
  LET Entries == [state : States, window : WinMin .. WinMax,
                  throttle : [interval : Nat, acceleration : Nat, deceleration : Nat]]
  IN  /\ \A c \in Clients : peers[c] \in {NoPeer} \cup Entries
      /\ \A c \in Native : clients[c] \in {NoPeer} \cup Entries

\* A connected client of this crate never has a larger window than the
\* server's incoming bandwidth allows, whichever of VERIFY_CONNECT and the
\* limits of bandwidth_throttle it received last and however often, those of
\* an earlier connection included.
HonoursServerLimit ==
  \A c \in Native : clients[c].state = "Connected" => clients[c].window <= Clamp(ServerWindow)

TotalWindow == MapThenSumSet(LAMBDA c : peers[c].window, ConnectedPeers)

\* The comment on bandwidth_throttle: the sum of the windows it sets does not
\* exceed the outgoing bandwidth.
WithinBudget == [][BandwidthThrottle /\ OutBw > 0 => TotalWindow' <= OutBw]_vars

\* bandwidth_throttle says that its incoming_bandwidth tells the peer how fast
\* it may send: a host honours what its peer has announced.
PeerLimitHonoured ==
  \A c \in ConnectedPeers : told[c] # 0 => peers[c].window <= Clamp(Share(told[c]))

\* protocol.md on the window size sent in VERIFY_CONNECT: the smaller of the
\* server window and the window the client asked for, clamped.
VerifyAsDocumented ==
  \A c \in Clients : peers[c].state = "AcknowledgingConnect" =>
    peers[c].window = Clamp(Least(ServerWindow, asked[c]))

\* on_command clamps acceleration and deceleration to the throttle scale and
\* ignores an interval of zero: no entry has such parameters.
ThrottleClamped ==
  \A c \in Clients : peers[c] # NoPeer =>
    /\ peers[c].throttle.interval > 0
    /\ peers[c].throttle.acceleration <= Scale
    /\ peers[c].throttle.deceleration <= Scale
=============================================================================
