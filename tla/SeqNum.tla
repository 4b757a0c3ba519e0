------------------------------- MODULE SeqNum -------------------------------
(***************************************************************************)
(* Wrapping sequence numbers (protocol.rs, u16 arithmetic).  The crate     *)
(* uses u16::wrapping_add, u16::wrapping_sub and seq_lt everywhere a       *)
(* sequence number is advanced or compared.  SeqRange is 2^16 in the crate *)
(* and a parameter here, so that a short run reaches the wrap-around.      *)
(***************************************************************************)
EXTENDS Integers

CONSTANT SeqRange   \* size of the sequence-number space (65536)

ASSUME SeqRangeAssumption == SeqRange \in Nat /\ SeqRange >= 4 /\ SeqRange % 2 = 0

HalfMod == SeqRange \div 2

SeqNo == 0 .. (SeqRange - 1)

\* The sequence number of the n-th command of a channel (the counter starts
\* at 0 and is bumped before every use).
Wrap(n) == n % SeqRange

WrapAdd(a, n) == (a + n) % SeqRange

WrapSub(a, b) == (a - b) % SeqRange

\* a comes before b: the difference, read as a signed number, is positive.
seq_lt(a, b) == WrapSub(b, a) \in 1 .. (HalfMod - 1)
=============================================================================
