---------------------------- MODULE SeqNumProofs ----------------------------
(***************************************************************************)
(* Remainders by any modulus: what wrapping arithmetic, the truncation of  *)
(* a clock and the index into a ring of bits have in common.  Then what    *)
(* the wrapping arithmetic of SeqNum computes, for every modulus: the      *)
(* wrapped operations commute with counting, and numbers less than half    *)
(* the space apart are told apart and ordered correctly by their wrapped   *)
(* images.  The proofs of the other modules cite these lemmas.             *)
(***************************************************************************)
EXTENDS SeqNum, TLAPS

----------------------------------------------------------------------------
(* Remainders.                                                              *)

\* The remainder by M is the only number below M congruent to n.
LEMMA RemainderUnique ==
  ASSUME NEW M \in Nat \ {0}, NEW n \in Int, NEW q \in Int, NEW r \in 0 .. (M - 1),
         n = M * q + r
  PROVE  n % M = r
  OBVIOUS

\* Division with remainder by M.
LEMMA Division ==
  ASSUME NEW M \in Nat \ {0}, NEW n \in Int
  PROVE  n \div M \in Int /\ n = M * (n \div M) + (n % M) /\ n % M \in 0 .. (M - 1)
  OBVIOUS

\* Adding a multiple of M does not change the remainder.
LEMMA RemainderShift ==
  ASSUME NEW M \in Nat \ {0}, NEW n \in Int, NEW q \in Int
  PROVE  (n + M * q) % M = n % M
<1> DEFINE d == n \div M
           r == n % M
<1>1. d \in Int /\ n = M * d + r /\ r \in 0 .. (M - 1)
  BY Division
<1> HIDE DEF d, r
<1>2. M * (d + q) = M * d + M * q
  BY <1>1
<1>3. M * d \in Int /\ M * q \in Int /\ r \in Int
  BY <1>1
<1>4. n + M * q = M * (d + q) + r /\ n + M * q \in Int /\ d + q \in Int
  BY <1>1, <1>2, <1>3
<1>5. (n + M * q) % M = r
  BY <1>1, <1>4, RemainderUnique
<1> QED BY <1>5 DEF r

\* A remainder does not exceed the number, which exceeds it by a multiple.
LEMMA RemainderBelow ==
  ASSUME NEW M \in Nat \ {0}, NEW n \in Nat
  PROVE  n \div M \in Nat /\ n % M <= n /\ n - (n % M) = M * (n \div M)
<1> DEFINE d == n \div M
           r == n % M
<1>1. d \in Int /\ n = M * d + r /\ r \in 0 .. (M - 1)
  BY Division
<1>2. d \in Nat
  BY <1>1
<1> HIDE DEF d, r
<1>3. M * d \in Nat
  BY <1>2
<1>4. r <= n /\ n - r = M * d
  BY <1>1, <1>3
<1> QED BY <1>2, <1>4 DEF d, r

\* A number within one turn of zero.
LEMMA RemainderNear ==
  ASSUME NEW M \in Nat \ {0}, NEW x \in Int, -M <= x, x < M
  PROVE  x % M = IF x >= 0 THEN x ELSE x + M
<1>1. CASE x >= 0
  BY <1>1, RemainderUnique, x = M * 0 + x, x \in 0 .. (M - 1), 0 \in Int
<1>2. CASE x < 0
  <2>1. x = M * (-1) + (x + M) /\ x + M \in 0 .. (M - 1)
    BY <1>2
  <2>2. -1 \in Int
    OBVIOUS
  <2>3. x % M = x + M
    BY <2>1, <2>2, RemainderUnique
  <2> QED BY <1>2, <2>3
<1> QED BY <1>1, <1>2

\* The lower part of a lower part is the lower part.
LEMMA RemainderOfRemainder ==
  ASSUME NEW M \in Nat \ {0}, NEW m \in Nat \ {0}, NEW K \in Nat \ {0}, K = m * M,
         NEW n \in Int
  PROVE  (n % K) % M = n % M
<1> DEFINE d == n \div K
           r == n % K
<1>0. d \in Int /\ n = K * d + r /\ r \in 0 .. (K - 1)
  BY Division
<1>1. d \in Int /\ n = K * d + r /\ r \in Int
  BY <1>0
<1> HIDE DEF d, r
<1>2. m * d \in Int /\ K * d = M * (m * d)
  BY <1>1
<1>3. n = r + M * (m * d)
  BY <1>1, <1>2
<1> DEFINE k == m * d
<1>4. k \in Int /\ n = r + M * k
  BY <1>2, <1>3
<1> HIDE DEF k
<1>5. (r + M * k) % M = r % M
  BY <1>1, <1>4, RemainderShift
<1>6. n % M = r % M
  BY <1>4, <1>5
<1> QED BY <1>6 DEF r

----------------------------------------------------------------------------
(* Sequence numbers.                                                        *)

\* Half of the sequence space is an integer, and twice it is the space.
LEMMA HalfModFacts == HalfMod \in Nat /\ HalfMod >= 2 /\ SeqRange = 2 * HalfMod
  BY SeqRangeAssumption DEF HalfMod

\* A wrapped counter is a sequence number.
LEMMA WrapType == \A n \in Int : Wrap(n) \in SeqNo
  BY SeqRangeAssumption DEF Wrap, SeqNo

\* wrapping_add yields a sequence number.
LEMMA WrapAddType == \A a, k \in Int : WrapAdd(a, k) \in SeqNo
  BY SeqRangeAssumption DEF WrapAdd, SeqNo

\* Division with remainder by SeqRange.
LEMMA DivMod ==
  ASSUME NEW n \in Int
  PROVE  n \div SeqRange \in Int /\ n = SeqRange * (n \div SeqRange) + (n % SeqRange)
  BY SeqRangeAssumption, Division

\* The remainder is the only sequence number congruent to n.
LEMMA ModUnique ==
  ASSUME NEW n \in Int, NEW q \in Int, NEW r \in SeqNo, n = SeqRange * q + r
  PROVE  n % SeqRange = r
  BY SeqRangeAssumption DEF SeqNo

\* Adding a multiple of SeqRange does not change the remainder.
LEMMA ModShift ==
  ASSUME NEW n \in Int, NEW q \in Int
  PROVE  (n + SeqRange * q) % SeqRange = n % SeqRange
<1>1. SeqRange \in Nat \ {0}
  BY SeqRangeAssumption
<1> QED BY <1>1, RemainderShift

\* wrapping_add of a wrapped counter is the wrapped sum.
LEMMA WrapAddWrap ==
  ASSUME NEW n \in Int, NEW k \in Int
  PROVE  WrapAdd(Wrap(n), k) = Wrap(n + k)
<1> DEFINE d == n \div SeqRange
           r == n % SeqRange
<1>1. d \in Int /\ n = SeqRange * d + r /\ r \in Int
  BY DivMod, WrapType DEF Wrap, SeqNo
<1> HIDE DEF d, r
<1>2. n + k = (r + k) + SeqRange * d
  BY <1>1, SeqRangeAssumption
<1>3. ((r + k) + SeqRange * d) % SeqRange = (r + k) % SeqRange
  BY <1>1, ModShift
<1> QED BY <1>2, <1>3 DEF WrapAdd, Wrap, r

\* wrapping_sub of wrapped counters is the wrapped difference.
LEMMA WrapSubWrap ==
  ASSUME NEW a \in Int, NEW b \in Int
  PROVE  WrapSub(Wrap(a), Wrap(b)) = Wrap(a - b)
<1> DEFINE da == a \div SeqRange
           ra == a % SeqRange
           db == b \div SeqRange
           rb == b % SeqRange
<1>1. da \in Int /\ a = SeqRange * da + ra /\ ra \in Int
  BY DivMod, WrapType DEF Wrap, SeqNo
<1>2. db \in Int /\ b = SeqRange * db + rb /\ rb \in Int
  BY DivMod, WrapType DEF Wrap, SeqNo
<1> HIDE DEF da, ra, db, rb
<1>3. SeqRange * (da - db) = SeqRange * da - SeqRange * db
  BY <1>1, <1>2, SeqRangeAssumption
<1>4. SeqRange * da \in Int /\ SeqRange * db \in Int /\ da - db \in Int /\ ra - rb \in Int
  BY <1>1, <1>2, SeqRangeAssumption
<1>5. a - b = (ra - rb) + SeqRange * (da - db)
  BY <1>1, <1>2, <1>3, <1>4
<1>6. ((ra - rb) + SeqRange * (da - db)) % SeqRange = (ra - rb) % SeqRange
  BY <1>4, ModShift
<1> QED BY <1>5, <1>6 DEF WrapSub, Wrap, ra, rb

\* Counting a short way forward from a wrapped counter is exact.
LEMMA WrapDistance ==
  ASSUME NEW a \in Int, NEW b \in Int, 0 <= a - b, a - b < SeqRange
  PROVE  WrapSub(Wrap(a), Wrap(b)) = a - b
<1>1. a - b \in SeqNo
  BY SeqRangeAssumption DEF SeqNo
<1>2. (a - b) % SeqRange = a - b
  BY <1>1, SeqRangeAssumption, ModUnique, a - b = SeqRange * 0 + (a - b)
<1> QED BY <1>2, WrapSubWrap DEF Wrap

\* Two counters less than SeqRange apart are equal if their images are.
LEMMA WrapInjective ==
  ASSUME NEW a \in Int, NEW b \in Int, Wrap(a) = Wrap(b),
         a - b < SeqRange, b - a < SeqRange
  PROVE  a = b
<1>1. CASE a >= b
  <2>1. WrapSub(Wrap(a), Wrap(b)) = a - b
    BY <1>1, WrapDistance
  <2>2. WrapSub(Wrap(b), Wrap(b)) = b - b
    BY WrapDistance, SeqRangeAssumption
  <2> QED BY <2>1, <2>2
<1>2. CASE b > a
  <2>1. WrapSub(Wrap(b), Wrap(a)) = b - a
    BY <1>2, WrapDistance
  <2>2. WrapSub(Wrap(a), Wrap(a)) = a - a
    BY WrapDistance, SeqRangeAssumption
  <2> QED BY <2>1, <2>2
<1> QED BY <1>1, <1>2

\* seq_lt orders counters that are at most half the space apart; at exactly
\* half the space it answers that b does not come after a.
LEMMA SeqLtWrap ==
  ASSUME NEW a \in Int, NEW b \in Int, a - b <= HalfMod, b - a < HalfMod
  PROVE  seq_lt(Wrap(a), Wrap(b)) <=> a < b
<1>1. CASE a <= b
  <2>1. WrapSub(Wrap(b), Wrap(a)) = b - a
    BY <1>1, WrapDistance, HalfModFacts
  <2> QED BY <1>1, <2>1, HalfModFacts DEF seq_lt
<1>2. CASE b < a
  <2>1. WrapSub(Wrap(b), Wrap(a)) = (b - a) % SeqRange
    BY WrapSubWrap DEF Wrap
  <2>2. /\ b - a = SeqRange * (-1) + (SeqRange + (b - a))
        /\ SeqRange + (b - a) \in SeqNo
    BY <1>2, HalfModFacts DEF SeqNo
  <2>3. (b - a) % SeqRange = SeqRange + (b - a)
    BY <2>2, ModUnique, b - a \in Int, -1 \in Int
  <2>4. SeqRange + (b - a) >= HalfMod
    BY HalfModFacts
  <2> QED BY <1>2, <2>1, <2>3, <2>4, HalfModFacts DEF seq_lt
<1> QED BY <1>1, <1>2
=============================================================================
