---------------------------- MODULE MCHostPeers ----------------------------
(* The bounds of the runs of HostPeers.                                    *)
EXTENDS HostPeers

Bound(attempts, connects_, pings, dups_, drops) ==
  [attempts |-> attempts, connects |-> connects_, pings |-> pings, dups |-> dups_,
   drops |-> drops]

\* Two connections that follow or cross each other, or one with retransmissions,
\* pings and a duplicated CONNECT.
TwoOrLong == {Bound(1, 2, 1, 0, 1), Bound(2, 1, 2, 1, 0)}

Two == {Bound(1, 2, 1, 0, 2)}
Duplicated == {Bound(1, 1, 1, 1, 1)}
=============================================================================
