------------------------ MODULE MCFragmentReassembly ------------------------
(* What the channels of the runs of FragmentReassembly carry.              *)
EXTENDS FragmentReassembly

Mix(r, u) == [reliable |-> r, unreliable |-> u]

\* Messages of both modes side by side, fragmented or not.
Every == {Mix(3, 2), Mix(1, 3)}

BothFragmented == {Mix(2, 2)}
UnreliableFragmented == {Mix(1, 2)}
ReliableOnly == {Mix(2, 0)}
=============================================================================
