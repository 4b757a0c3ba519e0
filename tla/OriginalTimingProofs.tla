------------------------ MODULE OriginalTimingProofs ------------------------
(***************************************************************************)
(* The timers and the rates of the original C library. OriginalTimers: the *)
(* times that acknowledgements return, the timeouts and the end of a       *)
(* silent peer, for every width of the clock and of the time in a          *)
(* datagram, every start of the clock and every delay. OriginalFlow: the   *)
(* windows, the grants of bandwidth, the throttle and the round-trip       *)
(* estimate, for every number of peers, every bandwidth and every order.   *)
(***************************************************************************)
EXTENDS OriginalTimers, OriginalFlow, SeqNumProofs, WellFoundedInduction, FiniteSetTheorems,
        TLAPS

\* The constants as the proofs use them: H is half of LowRange and TimeRange a
\* multiple of LowRange.
LEMMA Ranges ==
    /\ LowRange \in Nat \ {0} /\ TimeRange \in Nat \ {0} /\ TimeOverflow \in Nat
    /\ LowRange <= TimeOverflow /\ TimeOverflow + LowRange <= TimeRange
    /\ Start \in Nat /\ MaxStep \in Nat
    /\ LowRange \div 2 \in Nat /\ 2 * (LowRange \div 2) = LowRange
    /\ TimeRange \div LowRange \in Nat \ {0}
    /\ TimeRange = (TimeRange \div LowRange) * LowRange
<1>1. /\ LowRange \in Nat \ {0} /\ TimeRange \in Nat \ {0} /\ TimeOverflow \in Nat
      /\ LowRange <= TimeOverflow /\ TimeOverflow + LowRange <= TimeRange
      /\ LowRange % 2 = 0 /\ TimeRange % LowRange = 0 /\ TimeRange > LowRange
      /\ MaxStep \in Nat
  BY TimeAssumption
<1>2. Start \in Nat
  BY TimeAssumption, <1>1
<1>3. LowRange = 2 * (LowRange \div 2) /\ LowRange \div 2 \in Nat
  BY <1>1
<1> DEFINE m == TimeRange \div LowRange
<1>4. m \in Int /\ TimeRange = LowRange * m + (TimeRange % LowRange)
  BY <1>1, Division
<1>5. m \in Nat
  BY <1>1, RemainderBelow
<1> HIDE DEF m
<1>6. LowRange * m \in Int /\ LowRange * m = m * LowRange
  BY <1>1, <1>5
<1>7. TimeRange = m * LowRange
  BY <1>1, <1>4, <1>6
<1>8. m # 0
  BY <1>1, <1>7
<1> QED BY <1>1, <1>2, <1>3, <1>5, <1>7, <1>8 DEF m

\* What is left of two times on a smaller clock gives the time between them on
\* that clock, which is never more than the time between them.
LEMMA Between ==
    ASSUME NEW T \in Nat, NEW S \in Nat, S <= T
    PROVE  LET a == T % LowRange
               l == S % LowRange
               d == IF a >= l THEN a - l ELSE a - l + LowRange
           IN  /\ a \in 0 .. LowRange - 1 /\ l \in 0 .. LowRange - 1
               /\ d <= T - S
               /\ T - S < LowRange => d = T - S
<1> DEFINE a == T % LowRange
           l == S % LowRange
           p == T \div LowRange
           q == S \div LowRange
<1>0. LowRange \in Nat \ {0}
  BY Ranges
<1>1. p \in Int /\ T = LowRange * p + a /\ a \in 0 .. LowRange - 1
  BY <1>0, Division
<1>2. q \in Int /\ S = LowRange * q + l /\ l \in 0 .. LowRange - 1
  BY <1>0, Division
<1> HIDE DEF a, l, p, q
<1>3. a \in Int /\ l \in Int /\ -LowRange <= a - l /\ a - l < LowRange /\ a - l \in Int
  BY <1>0, <1>1, <1>2
<1>4. p - q \in Int /\ LowRange * (p - q) = LowRange * p - LowRange * q
  BY <1>0, <1>1, <1>2
<1>5. T - S = (a - l) + LowRange * (p - q)
  <2>1. LowRange * p \in Int /\ LowRange * q \in Int
    BY <1>0, <1>1, <1>2
  <2> QED BY <1>1, <1>2, <1>3, <1>4, <2>1
<1>6. ((a - l) + LowRange * (p - q)) % LowRange = (a - l) % LowRange
  BY <1>0, <1>3, <1>4, RemainderShift
<1>7. (a - l) % LowRange = IF a - l >= 0 THEN a - l ELSE a - l + LowRange
  BY <1>0, <1>3, RemainderNear
<1>8. (T - S) % LowRange = IF a >= l THEN a - l ELSE a - l + LowRange
  BY <1>3, <1>5, <1>6, <1>7
<1>9. (T - S) % LowRange <= T - S
  BY <1>0, RemainderBelow, T - S \in Nat
<1>10. ASSUME T - S < LowRange PROVE (T - S) % LowRange = T - S
  BY <1>0, <1>10, RemainderNear, T - S \in Int, T - S >= 0, -LowRange <= T - S
<1> QED BY <1>1, <1>2, <1>8, <1>9, <1>10 DEF a, l

\* The time that SentTime finds, seen from now: as long ago as the smaller clock
\* says, or in the future where the halves give no wrap.
LEMMA SeenFromNow ==
    ASSUME NEW T \in Nat, NEW low \in 0 .. LowRange - 1
    PROVE  LET now == T % TimeRange
               a == T % LowRange
               H == LowRange \div 2
           IN  (now - SentTime(now, low)) % TimeRange =
                   IF low >= H /\ ~(a >= H) THEN a - low + LowRange
                   ELSE IF a >= low THEN a - low ELSE a - low + TimeRange
<1> DEFINE now == T % TimeRange
           a == T % LowRange
           H == LowRange \div 2
           t == (now - (now % LowRange)) + low
<1>0. /\ LowRange \in Nat \ {0} /\ TimeRange \in Nat \ {0} /\ LowRange <= TimeRange
      /\ TimeRange \div LowRange \in Nat \ {0}
      /\ TimeRange = (TimeRange \div LowRange) * LowRange
  BY Ranges
<1>1. now % LowRange = a
  BY <1>0, RemainderOfRemainder, T \in Int
<1>2. now \in 0 .. TimeRange - 1 /\ a \in 0 .. LowRange - 1
  BY <1>0, Division, T \in Int
<1> HIDE DEF now, a
<1>3. now \in Int /\ a \in Int /\ low \in Int /\ t \in Int
  BY <1>0, <1>1, <1>2
<1>4. low % LowRange = low
  <2>1. -LowRange <= low /\ low < LowRange /\ low >= 0
    BY <1>0
  <2> QED BY <1>0, <1>3, <2>1, RemainderNear
<1>5. SentTime(now, low) = IF low >= H /\ ~(a >= H) THEN (t - LowRange) % TimeRange ELSE t
  BY <1>1, <1>4 DEF SentTime
<1>6. now - t = a - low
  BY <1>1, <1>3
<1>7. CASE low >= H /\ ~(a >= H)
  <2> DEFINE u == (t - LowRange) % TimeRange
             k == (t - LowRange) \div TimeRange
             y == a - low + LowRange
  <2>1. k \in Int /\ t - LowRange = TimeRange * k + u /\ u \in 0 .. TimeRange - 1
    BY <1>0, <1>3, Division, t - LowRange \in Int
  <2>2. H \in Int
    BY Ranges
  <2>3. y \in Int /\ 0 <= y /\ y < LowRange
    BY <1>0, <1>2, <1>3, <1>7, <2>2
  <2>4. SentTime(now, low) = u
    BY <1>5, <1>7
  <2> HIDE DEF u, k, t, now, a, H
  <2>5. TimeRange * k \in Int /\ u \in Int
    BY <1>0, <2>1
  <2>6. now - u = y + TimeRange * k
    BY <1>0, <1>3, <1>6, <2>1, <2>5
  <2> HIDE DEF y
  <2>7. (y + TimeRange * k) % TimeRange = y % TimeRange
    BY <1>0, <2>1, <2>3, RemainderShift
  <2>8. y % TimeRange = y
    BY <1>0, <2>3, RemainderNear
  <2>9. (now - SentTime(now, low)) % TimeRange = y
    BY <2>4, <2>6, <2>7, <2>8
  <2> QED BY <1>7, <2>9 DEF y, now, a, H
<1>8. CASE ~(low >= H /\ ~(a >= H))
  <2>1. SentTime(now, low) = t
    BY <1>5, <1>8
  <2> HIDE DEF t, now, a, H
  <2>2. a - low \in Int /\ -TimeRange <= a - low /\ a - low < TimeRange
    BY <1>0, <1>2, <1>3
  <2>3. (a - low) % TimeRange = IF a - low >= 0 THEN a - low ELSE a - low + TimeRange
    BY <1>0, <2>2, RemainderNear
  <2>4. (now - SentTime(now, low)) % TimeRange
            = IF a >= low THEN a - low ELSE a - low + TimeRange
    BY <1>3, <1>6, <2>1, <2>3
  <2> QED BY <1>8, <2>4 DEF now, a, H
<1> QED BY <1>7, <1>8

\* The comparison of the halves, on the smaller clock: e is the age that is
\* measured, n the true one.
LEMMA Halves ==
    ASSUME NEW L \in Nat, NEW H \in Nat, 2 * H = L, NEW O \in Nat, NEW R \in Nat,
           L <= O, O + L <= R,
           NEW a \in Int, 0 <= a, a < L, NEW l \in Int, 0 <= l, l < L, NEW n \in Nat,
           NEW d \in Int, d = (IF a >= l THEN a - l ELSE a - l + L),
           d <= n, n < L => d = n,
           NEW e \in Int, e = (IF l >= H /\ ~(a >= H) THEN a - l + L
                               ELSE IF a >= l THEN a - l ELSE a - l + R)
    PROVE  /\ n < H => e = n /\ ~(e >= O)
           /\ ~(e >= O) => e <= n
<1>1. CASE l >= H /\ ~(a >= H)
  BY <1>1
<1>2. CASE ~(l >= H /\ ~(a >= H)) /\ a >= l
  BY <1>2
<1>3. CASE ~(l >= H /\ ~(a >= H)) /\ ~(a >= l)
  BY <1>3
<1> QED BY <1>1, <1>2, <1>3

\* SentTime and the comparisons of time.h are right at every two times.
LEMMA ReadBack ==
    ASSUME NEW T \in Nat, NEW S \in Nat, S <= T
    PROVE  LET now == T % TimeRange
               t == SentTime(now, (S % TimeRange) % LowRange)
           IN  /\ T - S < LowRange \div 2 => TimeDifference(now, t) = T - S /\ ~TimeLess(now, t)
               /\ ~TimeLess(now, t) => TimeDifference(now, t) <= T - S
<1> DEFINE now == T % TimeRange
           l == S % LowRange
           a == T % LowRange
           H == LowRange \div 2
           d == IF a >= l THEN a - l ELSE a - l + LowRange
           t == SentTime(now, l)
           e == (now - t) % TimeRange
<1>0. /\ LowRange \in Nat \ {0} /\ TimeRange \in Nat \ {0} /\ TimeOverflow \in Nat
      /\ LowRange <= TimeOverflow /\ TimeOverflow + LowRange <= TimeRange
      /\ H \in Nat /\ 2 * H = LowRange
      /\ TimeRange \div LowRange \in Nat \ {0}
      /\ TimeRange = (TimeRange \div LowRange) * LowRange
  BY Ranges
<1>1. (S % TimeRange) % LowRange = l
  BY <1>0, RemainderOfRemainder, S \in Int
<1>2. /\ a \in 0 .. LowRange - 1 /\ l \in 0 .. LowRange - 1
      /\ d <= T - S
      /\ T - S < LowRange => d = T - S
  BY Between
<1>3. e = IF l >= H /\ ~(a >= H) THEN a - l + LowRange
          ELSE IF a >= l THEN a - l ELSE a - l + TimeRange
  BY <1>2, SeenFromNow
<1> HIDE DEF now, l, a, H, t, e
<1>4. a \in Int /\ l \in Int /\ 0 <= a /\ a < LowRange /\ 0 <= l /\ l < LowRange
  BY <1>0, <1>2
<1>5. d \in Int /\ e \in Int /\ T - S \in Nat
  BY <1>0, <1>3, <1>4
<1>6. /\ T - S < H => e = T - S /\ ~(e >= TimeOverflow)
      /\ ~(e >= TimeOverflow) => e <= T - S
  <2> DEFINE n == T - S
  <2>1. n \in Nat /\ d <= n /\ (n < LowRange => d = n)
    BY <1>2, <1>5
  <2>2. d = IF a >= l THEN a - l ELSE a - l + LowRange
    OBVIOUS
  <2> HIDE DEF n, d
  <2>3. /\ n < H => e = n /\ ~(e >= TimeOverflow)
        /\ ~(e >= TimeOverflow) => e <= n
    BY <1>0, <1>3, <1>4, <1>5, <2>1, <2>2, Halves DEF d
  <2> QED BY <2>3 DEF n
<1>7. TimeLess(now, t) <=> e >= TimeOverflow
  BY DEF TimeLess, e
<1>8. ~(e >= TimeOverflow) => TimeDifference(now, t) = e
  BY DEF TimeDifference, e
<1>9. /\ T - S < H => TimeDifference(now, t) = T - S /\ ~TimeLess(now, t)
      /\ ~TimeLess(now, t) => TimeDifference(now, t) <= T - S
  BY <1>6, <1>7, <1>8
<1> QED BY <1>1, <1>9 DEF now, t, H
-----------------------------------------------------------------------------
\* Every transmission that may be acknowledged was made at a time of the past,
\* and carries what is left of that time.
EchoInv ==
    /\ elapsed \in Nat
    /\ \A x \in echoes :
        /\ x.at \in Nat /\ x.at <= elapsed
        /\ x.low = ((Start + x.at) % TimeRange) % LowRange

LEMMA EchoInit == Init => EchoInv
  BY DEF Init, EchoInv

LEMMA EchoService ==
    ASSUME EchoInv, NEW d \in 1 .. MaxStep, NEW rto, Service(d, rto)
    PROVE  EchoInv'
<1>0. d \in Nat
  BY Ranges
<1> DEFINE at == elapsed + d
           t == (Start + at) % TimeRange
<1>1. elapsed' = at /\ at \in Nat /\ elapsed <= at
  BY <1>0 DEF Service, EchoInv
<1>2. ASSUME NEW x \in echoes'
      PROVE  x \in echoes \/ (x.at = at /\ x.low = t % LowRange)
  <2> DEFINE y == CheckTimeouts(t)
             waiting == y.moved \o out
             ping == /\ waiting = <<>> /\ y.kept = <<>>
                     /\ TimeDifference(t, received) >= PingInterval
                     /\ commands < MaxCommands
             new == Transmit(t, at, rto, IF ping THEN <<Command(commands)>> ELSE waiting)
             made == {[id |-> new[i].id, low |-> t % LowRange, at |-> at] : i \in DOMAIN new}
  <2>1. echoes' = echoes \/ echoes' = echoes \cup made
    <3>1. CASE y.gone
      BY <3>1 DEF Service
    <3>2. CASE ~y.gone
      BY <3>2 DEF Service
    <3> QED BY <3>1, <3>2
  <2>2. ASSUME NEW z \in made PROVE z.at = at /\ z.low = t % LowRange
    <3> HIDE DEF new, at, t
    <3> QED BY <2>2
  <2> HIDE DEF made
  <2> QED BY <1>2, <2>1, <2>2
<1>3. ASSUME NEW x \in echoes'
      PROVE  /\ x.at \in Nat /\ x.at <= elapsed'
             /\ x.low = ((Start + x.at) % TimeRange) % LowRange
  <2>1. CASE x \in echoes
    <3>1. x.at \in Nat /\ x.at <= elapsed /\ elapsed \in Nat
          /\ x.low = ((Start + x.at) % TimeRange) % LowRange
      BY <2>1 DEF EchoInv
    <3> HIDE DEF at
    <3> QED BY <3>1, <1>1
  <2>2. CASE x.at = at /\ x.low = t % LowRange
    BY <2>2, <1>1
  <2> QED BY <1>3, <1>2, <2>1, <2>2
<1> QED BY <1>1, <1>3 DEF EchoInv

LEMMA EchoNext == EchoInv /\ [Next]_vars => EchoInv'
<1> SUFFICES ASSUME EchoInv, [Next]_vars PROVE EchoInv'
  OBVIOUS
<1>1. CASE Queue
  BY <1>1 DEF Queue, EchoInv
<1>2. CASE \E d \in 1 .. MaxStep, rto \in RoundTripTimeouts : Service(d, rto)
  BY <1>2, EchoService
<1>3. CASE \E x \in echoes : Acknowledge(x)
  BY <1>3 DEF Acknowledge, EchoInv
<1>4. CASE UNCHANGED vars
  BY <1>4 DEF vars, EchoInv
<1> QED BY <1>1, <1>2, <1>3, <1>4 DEF Next

LEMMA EchoRead == EchoInv => EchoExact
<1> SUFFICES ASSUME EchoInv, NEW x \in echoes
             PROVE  LET age == elapsed - x.at
                        t == SentTime(Now, x.low)
                    IN  /\ age < LowRange \div 2 =>
                             TimeDifference(Now, t) = age /\ ~TimeLess(Now, t)
                        /\ ~TimeLess(Now, t) => TimeDifference(Now, t) <= age
  BY DEF EchoExact
<1> DEFINE T == Start + elapsed
           S == Start + x.at
<1>1. /\ elapsed \in Nat /\ x.at \in Nat /\ x.at <= elapsed
      /\ x.low = (S % TimeRange) % LowRange
  BY DEF EchoInv
<1>2. T \in Nat /\ S \in Nat /\ S <= T /\ T - S = elapsed - x.at
  BY <1>1, Ranges
<1>3. Now = T % TimeRange
  BY DEF Now
<1> HIDE DEF T, S
<1>4. LET now == T % TimeRange
          t == SentTime(now, (S % TimeRange) % LowRange)
      IN  /\ T - S < LowRange \div 2 => TimeDifference(now, t) = T - S /\ ~TimeLess(now, t)
          /\ ~TimeLess(now, t) => TimeDifference(now, t) <= T - S
  BY <1>2, ReadBack
<1> QED BY <1>1, <1>2, <1>3, <1>4

\* A time that an acknowledgement returns within half a turn of the time in a
\* datagram is read back exactly, and none is ever read as longer ago than it
\* was (enet_protocol_handle_acknowledge), however often the clock wraps.
THEOREM EchoesExact == Spec => []EchoExact
<1>1. Init => EchoInv
  BY EchoInit
<1>2. EchoInv /\ [Next]_vars => EchoInv'
  BY EchoNext
<1>3. EchoInv => EchoExact
  BY EchoRead
<1> QED BY <1>1, <1>2, <1>3, PTL DEF Spec
-----------------------------------------------------------------------------
(* The commands under way.                                                 *)

\* What the clock shows at a time, and the latest time up to at at which it
\* showed v.
Clock(e) == (Start + e) % TimeRange
Back(at, v) == at - ((Clock(at) - v) % TimeRange)

Cmd == [id : Nat, attempts : Nat, rto : Nat, sentTime : 0 .. TimeRange - 1,
        first : Int, last : Int]

\* A command that was sent, and one that was not.
SentCmd == {c \in Cmd : /\ c.attempts > 0 /\ c.rto > 0
                        /\ 0 <= c.first /\ c.first <= c.last
                        /\ c.sentTime = Clock(c.last)}
NewCmd == {c \in Cmd : c.attempts = 0 /\ c.rto = 0 /\ c.first = -1}

Types ==
    /\ elapsed \in 0 .. MaxElapsed
    /\ state \in {"CONNECTED", "DISCONNECTED"}
    /\ next \in 0 .. TimeRange - 1 /\ earliest \in 0 .. TimeRange - 1
    /\ received \in 0 .. TimeRange - 1
    /\ commands \in Nat
    /\ sent \in Seq(SentCmd) /\ out \in Seq(NewCmd)

\* sentReliableCommands is in the order of sending, every transmission is
\* remembered, and the cached timeout is that of the first.
Listed ==
    /\ \A i \in DOMAIN sent : sent[i].last <= elapsed
    /\ \A i, j \in DOMAIN sent : i <= j => sent[i].last <= sent[j].last
    /\ \A i \in DOMAIN sent : \E x \in echoes : x.at = sent[i].last
    /\ NextTimeoutExact

\* The earliest timeout is no earlier than the first transmission of some
\* command.
EarlyInv ==
    (state = "CONNECTED" /\ earliest # 0) =>
        \E i \in DOMAIN sent : sent[i].first <= Back(elapsed, earliest)

\* Every timeout is bounded, and no command waits longer than that bound.
Rescanned ==
    \A i \in DOMAIN sent :
        /\ sent[i].rto <= LongestTimeout
        /\ elapsed - sent[i].last < LongestTimeout

\* A command sent twice with no acknowledgement since has set the earliest
\* timeout, and was sent within the maximum timeout.
Counted ==
    \A i \in DOMAIN sent :
        (sent[i].first >= LastAck /\ sent[i].first # sent[i].last) =>
            /\ earliest # 0
            /\ Back(elapsed, earliest) <= sent[i].first
            /\ sent[i].last - sent[i].first < TimeoutMaximum

\* The earliest timeout was looked at when some command was sent again.
Looked ==
    earliest # 0 =>
        \E i \in DOMAIN sent : /\ Back(elapsed, earliest) <= sent[i].last
                               /\ sent[i].last - Back(elapsed, earliest) < TimeoutMaximum

\* The clock can tell the times that matter: the maximum timeout, the longest
\* single one and the time between two calls of the service together are less
\* than what is taken for a wrap, and than the rest of the clock.
Horizon == TimeoutMaximum + LongestTimeout + MaxStep
ClockFits == Horizon <= TimeOverflow /\ Horizon <= TimeRange - TimeOverflow

SilenceInv ==
    (ClockFits /\ state = "CONNECTED" /\ ZeroSkipped) => Rescanned /\ Counted /\ Looked

IndInv == Types /\ Listed /\ EarlyInv /\ SilenceInv
-----------------------------------------------------------------------------
(* The walk through sentReliableCommands.                                  *)

\* Every nonempty set of natural numbers has a least element.
LEMMA LeastElement ==
    ASSUME NEW S, S \subseteq Nat, S # {}
    PROVE  \E x \in S : \A y \in S : x <= y
<1> DEFINE R == OpToRel(<, Nat)
<1>1. IsWellFoundedOn(R, Nat)
  BY NatLessThanWellFounded
<1>2. \A x, y \in Nat : y < x => <<y, x>> \in R
  BY DEF OpToRel
<1> HIDE DEF R
<1>3. PICK x \in S : \A y \in S : ~ (<<y, x>> \in R)
  BY <1>1, WFMin
<1>4. \A y \in S : ~ (y < x)
  BY <1>2, <1>3, Zenon
<1> QED BY <1>4

\* A set that has 0 and with every number the next has all numbers.
LEMMA Induct ==
    ASSUME NEW T, 0 \in T, \A n \in Nat : n \in T => n + 1 \in T
    PROVE  Nat \subseteq T
<1> DEFINE S == {n \in Nat : n \notin T}
<1> SUFFICES ASSUME S # {} PROVE FALSE
  OBVIOUS
<1>1. S \subseteq Nat
  OBVIOUS
<1>2. PICK x \in S : \A y \in S : x <= y
  BY <1>1, LeastElement
<1>3. x # 0 /\ x \in Nat
  BY <1>2
<1>4. x - 1 \in T /\ x - 1 \in Nat
  BY <1>2, <1>3
<1> QED BY <1>2, <1>3, <1>4

\* The walk as the sequence f of what is known after each command.
Walk(f, n, t, s, from) ==
    f = [i \in 0 .. n |-> IF i = 0 THEN from ELSE Expire(t, s, f[i - 1], i)]

LEMMA WalkExists ==
    ASSUME NEW t, NEW s, NEW from, NEW n \in Nat
    PROVE  \E f : Walk(f, n, t, s, from)
<1> DEFINE T == {m \in Nat : \E f : Walk(f, m, t, s, from)}
<1>1. 0 \in T
  <2>1. Walk([i \in 0 .. 0 |-> from], 0, t, s, from)
    BY DEF Walk
  <2> QED BY <2>1
<1>2. ASSUME NEW m \in Nat, m \in T PROVE m + 1 \in T
  <2>1. PICK f : Walk(f, m, t, s, from)
    BY <1>2
  <2> DEFINE last == Expire(t, s, f[m], m + 1)
             g == [i \in 0 .. m + 1 |-> IF i = m + 1 THEN last ELSE f[i]]
             h == [i \in 0 .. m + 1 |-> IF i = 0 THEN from ELSE Expire(t, s, g[i - 1], i)]
  <2>2. \A i \in 0 .. m : f[i] = IF i = 0 THEN from ELSE Expire(t, s, f[i - 1], i)
    BY <2>1 DEF Walk
  <2>3. ASSUME NEW i \in 0 .. m + 1 PROVE g[i] = h[i]
    <3>1. CASE i = m + 1
      <4>1. g[i] = last /\ i # 0 /\ i - 1 = m /\ m \in 0 .. m + 1 /\ m # m + 1
        BY <3>1
      <4>2. g[i - 1] = f[m]
        BY <4>1
      <4> HIDE DEF g, last
      <4>3. h[i] = Expire(t, s, f[m], m + 1)
        BY <3>1, <4>1, <4>2
      <4> QED BY <4>1, <4>3 DEF last
    <3>2. CASE i = 0
      BY <3>2, <2>2
    <3>3. CASE i \in 1 .. m
      <4>1. i \in 0 .. m /\ i # 0 /\ i - 1 \in 0 .. m /\ i - 1 \in 0 .. m + 1 /\ i # m + 1 /\ i - 1 # m + 1
        BY <3>3
      <4>2. g[i] = f[i] /\ g[i - 1] = f[i - 1]
        BY <4>1
      <4> HIDE DEF g
      <4> QED BY <4>1, <4>2, <2>2
    <3> QED BY <3>1, <3>2, <3>3
  <2>4. g = h
    <3>1. g = [i \in 0 .. m + 1 |-> g[i]] /\ h = [i \in 0 .. m + 1 |-> h[i]]
      OBVIOUS
    <3> HIDE DEF g, h
    <3> QED BY <2>3, <3>1, Zenon
  <2>5. Walk(g, m + 1, t, s, from)
    BY <2>4 DEF Walk
  <2> HIDE DEF g
  <2> QED BY <2>5
<1>3. Nat \subseteq T
  <2> HIDE DEF T
  <2> QED BY <1>1, <1>2, Induct
<1> QED BY <1>3

LEMMA ScanWalks ==
    ASSUME NEW t, NEW s, NEW from, Len(s) \in Nat
    PROVE  \E f : Walk(f, Len(s), t, s, from) /\ Scan(t, s, from) = f[Len(s)]
<1> DEFINE acc == CHOOSE f : Walk(f, Len(s), t, s, from)
<1>1. \E f : Walk(f, Len(s), t, s, from)
  BY WalkExists
<1>2. Walk(acc, Len(s), t, s, from)
  BY <1>1, Zenon
<1>3. Scan(t, s, from) = acc[Len(s)]
  BY Zenon DEF Scan, Walk
<1> QED BY <1>2, <1>3, Zenon
-----------------------------------------------------------------------------
(* Clock values and the times they stand for.                              *)

\* The estimates of the round trip, and the timeouts made of them.
LEMMA Timeouts ==
    /\ TimeoutMinimum \in Nat /\ TimeoutMaximum \in Nat
    /\ LongestRto \in Nat /\ LongestRto > 0
    /\ \A r \in RoundTripTimeouts : r \in Nat /\ r > 0 /\ r <= LongestRto
    /\ LongestTimeout \in Nat /\ LongestTimeout > 0
    /\ LongestRto <= LongestTimeout /\ 2 * TimeoutMaximum <= LongestTimeout
<1>1. LongestRto \in RoundTripTimeouts /\ \A q \in RoundTripTimeouts : q <= LongestRto
  BY TimeoutAssumption DEF LongestRto
<1>2. LongestRto \in Nat /\ LongestRto > 0 /\ TimeoutMaximum \in Nat
  BY <1>1, TimeoutAssumption
<1>3. LongestTimeout \in Nat /\ LongestTimeout > 0
      /\ LongestRto <= LongestTimeout /\ 2 * TimeoutMaximum <= LongestTimeout
  BY <1>2 DEF LongestTimeout
<1> QED BY <1>1, <1>2, <1>3, TimeoutAssumption

LEMMA ClockType == \A e \in Int : Clock(e) \in 0 .. TimeRange - 1 /\ Clock(e) \in Int
<1> SUFFICES ASSUME NEW e \in Int PROVE Clock(e) \in 0 .. TimeRange - 1 /\ Clock(e) \in Int
  OBVIOUS
<1>1. Start + e \in Int /\ TimeRange \in Nat \ {0}
  BY Ranges
<1>2. Clock(e) \in 0 .. TimeRange - 1
  BY <1>1, Division DEF Clock
<1> QED BY <1>1, <1>2

\* Two clock values differ by what the times do, up to turns of the clock.
LEMMA ClockDifference ==
    ASSUME NEW a \in Int, NEW b \in Int
    PROVE  (Clock(a) - Clock(b)) % TimeRange = (a - b) % TimeRange
<1> DEFINE p == (Start + a) \div TimeRange
           q == (Start + b) \div TimeRange
<1>0. TimeRange \in Nat \ {0} /\ Start \in Nat /\ Start + a \in Int /\ Start + b \in Int
  BY Ranges
<1>1. p \in Int /\ Start + a = TimeRange * p + Clock(a)
  BY <1>0, Division DEF Clock
<1>2. q \in Int /\ Start + b = TimeRange * q + Clock(b)
  BY <1>0, Division DEF Clock
<1>3. Clock(a) \in Int /\ Clock(b) \in Int
  BY ClockType
<1> HIDE DEF p, q
<1>4. TimeRange * (p - q) = TimeRange * p - TimeRange * q
      /\ TimeRange * p \in Int /\ TimeRange * q \in Int /\ p - q \in Int
  BY <1>0, <1>1, <1>2
<1>5. a - b = (Clock(a) - Clock(b)) + TimeRange * (p - q)
  BY <1>0, <1>1, <1>2, <1>3, <1>4
<1>6. ((Clock(a) - Clock(b)) + TimeRange * (p - q)) % TimeRange
        = (Clock(a) - Clock(b)) % TimeRange
  BY <1>0, <1>3, <1>4, RemainderShift, Clock(a) - Clock(b) \in Int
<1> QED BY <1>5, <1>6

\* A time e not after at, up to a turn, is the one its clock value stands for.
LEMMA BackClock ==
    ASSUME NEW at \in Int, NEW e \in Int, e <= at
    PROVE  /\ e <= Back(at, Clock(e))
           /\ at - e < TimeRange => Back(at, Clock(e)) = e
<1>0. TimeRange \in Nat \ {0} /\ at - e \in Nat
  BY Ranges
<1>1. Back(at, Clock(e)) = at - ((at - e) % TimeRange)
  BY ClockDifference DEF Back
<1>2. (at - e) % TimeRange <= at - e /\ (at - e) % TimeRange \in Int
  <2> DEFINE n == at - e
  <2>1. n \in Nat /\ n \in Int
    BY <1>0
  <2> HIDE DEF n
  <2>2. n % TimeRange <= n
    BY <1>0, <2>1, RemainderBelow
  <2>3. n % TimeRange \in 0 .. TimeRange - 1
    BY <1>0, <2>1, Division
  <2>4. n % TimeRange \in Int
    BY <1>0, <2>3
  <2> QED BY <2>2, <2>4 DEF n
<1>3. at - e < TimeRange => (at - e) % TimeRange = at - e
  BY <1>0, RemainderNear, at - e \in Int, -TimeRange <= at - e
<1> QED BY <1>1, <1>2, <1>3

LEMMA BackFacts ==
    ASSUME NEW at \in Int, NEW v \in 0 .. TimeRange - 1
    PROVE  /\ Back(at, v) \in Int /\ Back(at, v) <= at /\ at - Back(at, v) < TimeRange
           /\ at - Back(at, v) = (Clock(at) - v) % TimeRange
           /\ Clock(Back(at, v)) = v
<1> DEFINE D == (Clock(at) - v) % TimeRange
           k == (Clock(at) - v) \div TimeRange
           p == (Start + at) \div TimeRange
<1>0. TimeRange \in Nat \ {0} /\ Start \in Nat /\ Start + at \in Int /\ v \in Int
  BY Ranges
<1>1. Clock(at) \in Int
  BY ClockType
<1>2. k \in Int /\ Clock(at) - v = TimeRange * k + D /\ D \in 0 .. TimeRange - 1
  BY <1>0, <1>1, Division, Clock(at) - v \in Int
<1>3. p \in Int /\ Start + at = TimeRange * p + Clock(at)
  BY <1>0, Division DEF Clock
<1>4. Back(at, v) = at - D
  BY DEF Back
<1> HIDE DEF D, k, p
<1>5. D \in Int /\ 0 <= D /\ D < TimeRange
  BY <1>0, <1>2
<1>6. TimeRange * (p + k) = TimeRange * p + TimeRange * k
      /\ TimeRange * p \in Int /\ TimeRange * k \in Int /\ p + k \in Int
  BY <1>0, <1>2, <1>3
<1>7. Start + Back(at, v) = TimeRange * (p + k) + v
  BY <1>0, <1>1, <1>2, <1>3, <1>4, <1>5, <1>6
<1>8. (Start + Back(at, v)) % TimeRange = v
  BY <1>0, <1>4, <1>5, <1>6, <1>7, RemainderUnique, Start + Back(at, v) \in Int
<1>9. Clock(Back(at, v)) = v
  BY <1>8 DEF Clock
<1> QED BY <1>4, <1>5, <1>9 DEF D

\* As time passes a clock value stands for the same time, or for a later one.
LEMMA BackLater ==
    ASSUME NEW a \in Int, NEW b \in Int, a <= b, NEW v \in 0 .. TimeRange - 1
    PROVE  /\ Back(a, v) <= Back(b, v)
           /\ b - Back(a, v) < TimeRange => Back(b, v) = Back(a, v)
<1>1. Back(a, v) \in Int /\ Back(a, v) <= a /\ Clock(Back(a, v)) = v
  BY BackFacts
<1>2. Back(a, v) <= b
  BY <1>1
<1> QED BY <1>1, <1>2, BackClock

\* ENET_TIME_DIFFERENCE from now
LEMMA AgeOf ==
    ASSUME NEW at \in Int, NEW v \in 0 .. TimeRange - 1
    PROVE  /\ at - Back(at, v) < TimeOverflow => TimeDifference(Clock(at), v) = at - Back(at, v)
           /\ \A m \in Nat : /\ m <= TimeOverflow
                             /\ TimeDifference(Clock(at), v) >= m
                             => at - Back(at, v) >= m
<1>1. at - Back(at, v) = (Clock(at) - v) % TimeRange /\ Back(at, v) \in Int
  BY BackFacts
<1>2. TimeOverflow \in Nat
  BY Ranges
<1> DEFINE D == at - Back(at, v)
<1>3. D \in Int
  BY <1>1
<1>4. D < TimeOverflow => TimeDifference(Clock(at), v) = D
  BY <1>1, <1>2, <1>3 DEF TimeDifference
<1> HIDE DEF D
<1>5. ASSUME NEW m \in Nat, m <= TimeOverflow, TimeDifference(Clock(at), v) >= m
      PROVE  D >= m
  BY <1>2, <1>3, <1>4, <1>5
<1> QED BY <1>4, <1>5 DEF D

\* ENET_TIME_LESS of two times that are less than n away from now
LEMMA Earlier ==
    ASSUME NEW at \in Int, NEW u \in 0 .. TimeRange - 1, NEW v \in 0 .. TimeRange - 1,
           NEW n \in Nat, n <= TimeOverflow, n <= TimeRange - TimeOverflow,
           at - Back(at, u) < n, at - Back(at, v) < n
    PROVE  TimeLess(u, v) <=> Back(at, u) < Back(at, v)
<1> DEFINE a == Back(at, u)
           b == Back(at, v)
<1>0. TimeRange \in Nat \ {0} /\ TimeOverflow \in Nat /\ TimeOverflow < TimeRange
      /\ TimeOverflow > 0
  BY Ranges
<1>1. a \in Int /\ b \in Int /\ a <= at /\ b <= at /\ Clock(a) = u /\ Clock(b) = v
  BY BackFacts
<1>2. (u - v) % TimeRange = (a - b) % TimeRange
  BY <1>1, ClockDifference
<1> HIDE DEF a, b
<1>3. a - b \in Int /\ -TimeRange <= a - b /\ a - b < TimeRange /\ a - b < n /\ b - a < n
  <2>1. at - a < n /\ at - b < n
    BY DEF a, b
  <2> QED BY <1>0, <1>1, <2>1
<1>4. (a - b) % TimeRange = IF a - b >= 0 THEN a - b ELSE a - b + TimeRange
  BY <1>0, <1>3, RemainderNear
<1>5. (u - v) % TimeRange >= TimeOverflow <=> a < b
  BY <1>0, <1>1, <1>2, <1>3, <1>4
<1> QED BY <1>5 DEF TimeLess, a, b
-----------------------------------------------------------------------------
(* One command of the walk.                                                *)

Expired(at, c) == ~(TimeDifference(Clock(at), c.sentTime) < c.rto)
Doubled(c) == [c EXCEPT !.rto = 2 * @]
FirstOf(acc, c) ==
    IF acc.earliest = 0 \/ TimeLess(c.sentTime, acc.earliest) THEN c.sentTime ELSE acc.earliest

AccType == [earliest : 0 .. TimeRange - 1, gone : BOOLEAN, moved : Seq(SentCmd),
            kept : Seq(SentCmd), next : 0 .. TimeRange - 1]

LEMMA SentFacts ==
    ASSUME NEW c \in SentCmd
    PROVE  /\ c \in Cmd /\ c.attempts \in Nat /\ c.attempts > 0 /\ c.rto \in Nat /\ c.rto > 0
           /\ c.first \in Int /\ 0 <= c.first /\ c.last \in Int /\ c.first <= c.last
           /\ c.sentTime = Clock(c.last) /\ c.sentTime \in 0 .. TimeRange - 1
           /\ c.id \in Nat
  BY DEF SentCmd, Cmd

LEMMA DueType == \A c \in SentCmd : Due(c) \in 0 .. TimeRange - 1
<1> SUFFICES ASSUME NEW c \in SentCmd PROVE Due(c) \in 0 .. TimeRange - 1
  OBVIOUS
<1>1. c.sentTime + c.rto \in Int /\ TimeRange \in Nat \ {0}
  BY SentFacts, Ranges
<1> QED BY <1>1, Division DEF Due

LEMMA DoubledFacts ==
    ASSUME NEW c \in SentCmd
    PROVE  /\ Doubled(c) \in SentCmd
           /\ Doubled(c).rto = 2 * c.rto /\ Doubled(c).first = c.first
           /\ Doubled(c).last = c.last /\ Doubled(c).id = c.id
           /\ Doubled(c).attempts = c.attempts
<1>1. c \in Cmd /\ c.rto \in Nat /\ c.rto > 0
  BY SentFacts
<1>2. 2 * c.rto \in Nat /\ 2 * c.rto > 0
  BY <1>1
<1>3. /\ Doubled(c).rto = 2 * c.rto /\ Doubled(c).first = c.first
      /\ Doubled(c).last = c.last /\ Doubled(c).id = c.id
      /\ Doubled(c).attempts = c.attempts /\ Doubled(c).sentTime = c.sentTime
      /\ Doubled(c) \in Cmd
  BY <1>1, <1>2 DEF Doubled, Cmd
<1>4. Doubled(c) \in SentCmd
  BY <1>2, <1>3 DEF SentCmd
<1> QED BY <1>3, <1>4

\* A command whose time has not come stays where it is, and so does all that
\* comes after the end of the connection.
LEMMA ExpireKeeps ==
    ASSUME NEW at \in Int, NEW s \in Seq(SentCmd), NEW i \in 1 .. Len(s), NEW acc \in AccType,
           acc.gone \/ ~Expired(at, s[i])
    PROVE  LET y == Expire(Clock(at), s, acc, i)
           IN  /\ y \in AccType
               /\ y.earliest = acc.earliest /\ y.gone = acc.gone /\ y.moved = acc.moved
               /\ y.next = acc.next /\ y.kept = Append(acc.kept, s[i])
<1> DEFINE y == Expire(Clock(at), s, acc, i)
           k == Append(acc.kept, s[i])
<1>1. s[i] \in SentCmd
  OBVIOUS
<1>2. k \in Seq(SentCmd)
  BY <1>1 DEF AccType
<1>3. y = [acc EXCEPT !.kept = k]
  BY Zenon DEF Expire, Expired
<1> HIDE DEF y, k
<1>4. /\ y \in AccType
      /\ y.earliest = acc.earliest /\ y.gone = acc.gone /\ y.moved = acc.moved
      /\ y.next = acc.next /\ y.kept = k
  BY <1>2, <1>3 DEF AccType
<1> QED BY <1>4 DEF y, k

\* A command whose time has come moves, the cached timeout goes on to the next
\* if nothing before it stays, and the earliest timeout decides.
LEMMA ExpireMoves ==
    ASSUME NEW at \in Int, NEW s \in Seq(SentCmd), NEW i \in 1 .. Len(s), NEW acc \in AccType,
           ~acc.gone, Expired(at, s[i])
    PROVE  LET y == Expire(Clock(at), s, acc, i)
               first == FirstOf(acc, s[i])
               age == TimeDifference(Clock(at), first)
           IN  /\ y \in AccType
               /\ y.earliest = first /\ y.kept = acc.kept
               /\ y.moved = Append(acc.moved, Doubled(s[i]))
               /\ y.next = IF acc.kept = <<>> /\ i < Len(s) THEN Due(s[i + 1]) ELSE acc.next
               /\ y.gone => first # 0 /\ (age >= TimeoutMaximum \/ age >= TimeoutMinimum)
               /\ (~y.gone /\ first # 0) => ~(age >= TimeoutMaximum)
<1> DEFINE y == Expire(Clock(at), s, acc, i)
           first == FirstOf(acc, s[i])
           age == TimeDifference(Clock(at), first)
           m == Append(acc.moved, Doubled(s[i]))
           n == IF acc.kept = <<>> /\ i < Len(s) THEN Due(s[i + 1]) ELSE acc.next
           g == first # 0 /\ (\/ age >= TimeoutMaximum
                              \/ 2 ^ (s[i].attempts - 1) >= TimeoutLimit /\ age >= TimeoutMinimum)
<1>1. s[i] \in SentCmd
  OBVIOUS
<1>2. m \in Seq(SentCmd)
  BY <1>1, DoubledFacts DEF AccType
<1>3. n \in 0 .. TimeRange - 1
  <2>1. CASE acc.kept = <<>> /\ i < Len(s)
    <3>1. s[i + 1] \in SentCmd
      BY <2>1
    <3> QED BY <2>1, <3>1, DueType
  <2>2. CASE ~(acc.kept = <<>> /\ i < Len(s))
    BY <2>2 DEF AccType
  <2> QED BY <2>1, <2>2
<1>4. first \in 0 .. TimeRange - 1
  BY <1>1, SentFacts DEF FirstOf, AccType
<1>5. y = [acc EXCEPT !.earliest = first, !.gone = g, !.moved = m, !.next = n]
  BY Zenon DEF Expire, Expired, FirstOf, Doubled
<1>6. g \in BOOLEAN
  OBVIOUS
<1>7. /\ g => first # 0 /\ (age >= TimeoutMaximum \/ age >= TimeoutMinimum)
      /\ (~g /\ first # 0) => ~(age >= TimeoutMaximum)
  <2> HIDE DEF first, age
  <2> QED BY Zenon
<1> HIDE DEF y, first, age, m, n, g
<1>8. /\ y \in AccType
      /\ y.earliest = first /\ y.gone = g /\ y.moved = m
      /\ y.next = n /\ y.kept = acc.kept
  BY <1>2, <1>3, <1>4, <1>5, <1>6 DEF AccType
<1> QED BY <1>7, <1>8, Zenon DEF y, first, age, m, n
-----------------------------------------------------------------------------
(* What the walk keeps.                                                    *)

\* A command is not given up before the minimum timeout if that is not more
\* than the maximum, nor more than the clock can tell.
MinimumFits == TimeoutMinimum <= TimeoutMaximum /\ TimeoutMinimum <= TimeOverflow

InOrderOfSending(s) == \A i, j \in DOMAIN s : i <= j => s[i].last <= s[j].last

\* Of the first i commands of s those whose time has come are in moved, the
\* others in kept, in their order, and next is the timeout of the first that
\* is kept or not yet looked at.
WalkKept(at, s, acc, i) ==
    /\ \A k \in DOMAIN acc.kept :
         \E j \in 1 .. i : acc.kept[k] = s[j] /\ (acc.gone \/ ~Expired(at, s[j]))
    /\ InOrderOfSending(acc.kept)
    /\ \A j \in 1 .. i : \/ \E k \in DOMAIN acc.kept : acc.kept[k] = s[j]
                         \/ \E k \in DOMAIN acc.moved : acc.moved[k] = Doubled(s[j])
WalkMoved(at, s, acc, i) ==
    \A k \in DOMAIN acc.moved :
        \E j \in 1 .. i : acc.moved[k] = Doubled(s[j]) /\ Expired(at, s[j])
WalkNext(s, acc, i) ==
    IF acc.kept = <<>> THEN i < Len(s) => acc.next = Due(s[i + 1])
    ELSE acc.next = Due(acc.kept[1])
WalkEarly(at, s, acc) ==
    /\ acc.earliest # 0 => \E j \in DOMAIN s : s[j].first <= Back(at, acc.earliest)
    /\ (acc.gone /\ MinimumFits) => \E j \in DOMAIN s : at - s[j].first >= TimeoutMinimum

WalkInv(at, s, acc, i) ==
    /\ acc \in AccType
    /\ WalkKept(at, s, acc, i)
    /\ WalkMoved(at, s, acc, i)
    /\ WalkNext(s, acc, i)
    /\ WalkEarly(at, s, acc)

LEMMA WalkStepKeeps ==
    ASSUME NEW at \in Int, NEW s \in Seq(SentCmd), NEW i \in 1 .. Len(s), NEW acc,
           InOrderOfSending(s), WalkInv(at, s, acc, i - 1),
           acc.gone \/ ~Expired(at, s[i])
    PROVE  WalkInv(at, s, Expire(Clock(at), s, acc, i), i)
<1> DEFINE y == Expire(Clock(at), s, acc, i)
<1>0. i \in Nat /\ i > 0 /\ i - 1 \in Nat /\ i \in DOMAIN s /\ s[i] \in SentCmd /\ Len(s) \in Nat
      /\ i \in 1 .. i
  OBVIOUS
<1>1. acc \in AccType
  BY DEF WalkInv
<1>2. /\ y \in AccType
      /\ y.earliest = acc.earliest /\ y.gone = acc.gone /\ y.moved = acc.moved
      /\ y.next = acc.next /\ y.kept = Append(acc.kept, s[i])
  BY <1>1, ExpireKeeps
<1>3. acc.kept \in Seq(SentCmd) /\ acc.gone \in BOOLEAN
  BY <1>1 DEF AccType
<1> HIDE DEF y
<1> DEFINE n == Len(acc.kept)
<1>4. /\ n \in Nat /\ DOMAIN acc.kept = 1 .. n /\ DOMAIN y.kept = 1 .. n + 1
      /\ y.kept[n + 1] = s[i] /\ \A k \in 1 .. n : y.kept[k] = acc.kept[k]
  BY <1>0, <1>2, <1>3
<1>5. WalkKept(at, s, acc, i - 1)
  BY DEF WalkInv
<1>6. WalkKept(at, s, y, i)
  <2>1. ASSUME NEW k \in DOMAIN y.kept
        PROVE  \E j \in 1 .. i : y.kept[k] = s[j] /\ (y.gone \/ ~Expired(at, s[j]))
    <3>1. CASE k = n + 1
      BY <3>1, <1>0, <1>2, <1>4
    <3>2. CASE k \in 1 .. n
      <4>1. PICK j \in 1 .. i - 1 : acc.kept[k] = s[j] /\ (acc.gone \/ ~Expired(at, s[j]))
        BY <3>2, <1>4, <1>5 DEF WalkKept
      <4>2. j \in 1 .. i
        BY <1>0
      <4> QED BY <4>1, <4>2, <3>2, <1>2, <1>4
    <3> QED BY <2>1, <3>1, <3>2, <1>4
  <2>2. ASSUME NEW a \in DOMAIN y.kept, NEW b \in DOMAIN y.kept, a <= b
        PROVE  y.kept[a].last <= y.kept[b].last
    <3>1. CASE b \in 1 .. n
      <4>1. a \in 1 .. n
        BY <3>1, <2>2, <1>4
      <4> QED BY <3>1, <4>1, <2>2, <1>4, <1>5 DEF WalkKept, InOrderOfSending
    <3>2. CASE b = n + 1 /\ a = n + 1
      BY <3>2, <1>0, <1>4, SentFacts
    <3>3. CASE b = n + 1 /\ a \in 1 .. n
      <4>1. PICK j \in 1 .. i - 1 : acc.kept[a] = s[j]
        BY <3>3, <1>4, <1>5 DEF WalkKept
      <4>2. j \in DOMAIN s /\ j <= i
        BY <1>0
      <4>3. s[j].last <= s[i].last
        BY <4>2, <1>0 DEF InOrderOfSending
      <4> QED BY <4>1, <4>3, <3>3, <1>4
    <3> QED BY <2>2, <3>1, <3>2, <3>3, <1>4, SMTT(30)
  <2>3. ASSUME NEW j \in 1 .. i
        PROVE  \/ \E k \in DOMAIN y.kept : y.kept[k] = s[j]
               \/ \E k \in DOMAIN y.moved : y.moved[k] = Doubled(s[j])
    <3>1. CASE j = i
      BY <3>1, <1>4, n + 1 \in 1 .. n + 1
    <3>2. CASE j \in 1 .. i - 1
      <4>1. CASE \E k \in DOMAIN acc.kept : acc.kept[k] = s[j]
        <5>1. PICK k \in 1 .. n : acc.kept[k] = s[j]
          BY <4>1, <1>4
        <5>2. k \in 1 .. n + 1
          BY <1>4
        <5> QED BY <5>1, <5>2, <1>4
      <4>2. CASE \E k \in DOMAIN acc.moved : acc.moved[k] = Doubled(s[j])
        BY <4>2, <1>2
      <4> QED BY <3>2, <4>1, <4>2, <1>5 DEF WalkKept
    <3> QED BY <2>3, <3>1, <3>2, <1>0
  <2> QED BY <2>1, <2>2, <2>3 DEF WalkKept, InOrderOfSending
<1>7. WalkMoved(at, s, y, i)
  <2> SUFFICES ASSUME NEW k \in DOMAIN y.moved
               PROVE  \E j \in 1 .. i : y.moved[k] = Doubled(s[j]) /\ Expired(at, s[j])
    BY DEF WalkMoved
  <2>1. PICK j \in 1 .. i - 1 : acc.moved[k] = Doubled(s[j]) /\ Expired(at, s[j])
    BY <1>2 DEF WalkInv, WalkMoved
  <2>2. j \in 1 .. i
    BY <1>0
  <2> QED BY <2>1, <2>2, <1>2
<1>8. WalkNext(s, y, i)
  <2>1. y.kept # <<>>
    BY <1>4
  <2>2. CASE acc.kept = <<>>
    <3>1. i - 1 < Len(s) /\ (i - 1) + 1 = i
      BY <1>0
    <3>2. acc.next = Due(s[i])
      BY <2>2, <3>1 DEF WalkInv, WalkNext
    <3>3. y.kept[1] = s[i]
      BY <2>2, <1>4
    <3> QED BY <2>1, <3>2, <3>3, <1>2 DEF WalkNext
  <2>3. CASE acc.kept # <<>>
    <3>1. acc.next = Due(acc.kept[1])
      BY <2>3 DEF WalkInv, WalkNext
    <3>2. 1 \in 1 .. n
      BY <2>3, <1>3, <1>4
    <3> QED BY <2>1, <3>1, <3>2, <1>2, <1>4 DEF WalkNext
  <2> QED BY <2>2, <2>3
<1>9. WalkEarly(at, s, y)
  BY <1>2 DEF WalkInv, WalkEarly
<1> QED BY <1>2, <1>6, <1>7, <1>8, <1>9 DEF WalkInv, y

LEMMA WalkStepMoves ==
    ASSUME NEW at \in Int, NEW s \in Seq(SentCmd), NEW i \in 1 .. Len(s), NEW acc,
           InOrderOfSending(s), \A j \in DOMAIN s : s[j].last <= at,
           WalkInv(at, s, acc, i - 1), ~acc.gone, Expired(at, s[i])
    PROVE  WalkInv(at, s, Expire(Clock(at), s, acc, i), i)
<1> DEFINE y == Expire(Clock(at), s, acc, i)
           first == FirstOf(acc, s[i])
           age == TimeDifference(Clock(at), first)
<1>0. i \in Nat /\ i > 0 /\ i - 1 \in Nat /\ i \in DOMAIN s /\ s[i] \in SentCmd /\ Len(s) \in Nat
      /\ i \in 1 .. i
  OBVIOUS
<1>1. acc \in AccType
  BY DEF WalkInv
<1>2. /\ y \in AccType
      /\ y.earliest = first /\ y.kept = acc.kept
      /\ y.moved = Append(acc.moved, Doubled(s[i]))
      /\ y.next = IF acc.kept = <<>> /\ i < Len(s) THEN Due(s[i + 1]) ELSE acc.next
      /\ y.gone => first # 0 /\ (age >= TimeoutMaximum \/ age >= TimeoutMinimum)
  BY <1>1, ExpireMoves
<1>3. acc.moved \in Seq(SentCmd) /\ Doubled(s[i]) \in SentCmd
  BY <1>0, <1>1, DoubledFacts DEF AccType
<1> HIDE DEF y
<1> DEFINE n == Len(acc.moved)
<1>4. /\ n \in Nat /\ DOMAIN acc.moved = 1 .. n /\ DOMAIN y.moved = 1 .. n + 1
      /\ y.moved[n + 1] = Doubled(s[i]) /\ \A k \in 1 .. n : y.moved[k] = acc.moved[k]
  BY <1>2, <1>3
<1>5. WalkKept(at, s, acc, i - 1)
  BY DEF WalkInv
<1>6. WalkKept(at, s, y, i)
  <2>1. ASSUME NEW k \in DOMAIN y.kept
        PROVE  \E j \in 1 .. i : y.kept[k] = s[j] /\ (y.gone \/ ~Expired(at, s[j]))
    <3>1. PICK j \in 1 .. i - 1 : acc.kept[k] = s[j] /\ (acc.gone \/ ~Expired(at, s[j]))
      BY <2>1, <1>2, <1>5 DEF WalkKept
    <3>2. j \in 1 .. i
      BY <1>0
    <3> QED BY <3>1, <3>2, <1>2
  <2>2. InOrderOfSending(y.kept)
    BY <1>2, <1>5 DEF WalkKept
  <2>3. ASSUME NEW j \in 1 .. i
        PROVE  \/ \E k \in DOMAIN y.kept : y.kept[k] = s[j]
               \/ \E k \in DOMAIN y.moved : y.moved[k] = Doubled(s[j])
    <3>1. CASE j = i
      BY <3>1, <1>4, n + 1 \in 1 .. n + 1
    <3>2. CASE j \in 1 .. i - 1
      <4>1. CASE \E k \in DOMAIN acc.moved : acc.moved[k] = Doubled(s[j])
        <5>1. PICK k \in 1 .. n : acc.moved[k] = Doubled(s[j])
          BY <4>1, <1>4
        <5>2. k \in 1 .. n + 1
          BY <1>4
        <5> QED BY <5>1, <5>2, <1>4
      <4>2. CASE \E k \in DOMAIN acc.kept : acc.kept[k] = s[j]
        BY <4>2, <1>2
      <4> QED BY <3>2, <4>1, <4>2, <1>5 DEF WalkKept
    <3> QED BY <2>3, <3>1, <3>2, <1>0
  <2> QED BY <2>1, <2>2, <2>3 DEF WalkKept
<1>7. WalkMoved(at, s, y, i)
  <2> SUFFICES ASSUME NEW k \in DOMAIN y.moved
               PROVE  \E j \in 1 .. i : y.moved[k] = Doubled(s[j]) /\ Expired(at, s[j])
    BY DEF WalkMoved
  <2>1. CASE k = n + 1
    BY <2>1, <1>0, <1>4
  <2>2. CASE k \in 1 .. n
    <3>1. PICK j \in 1 .. i - 1 : acc.moved[k] = Doubled(s[j]) /\ Expired(at, s[j])
      BY <2>2, <1>4 DEF WalkInv, WalkMoved
    <3>2. j \in 1 .. i
      BY <1>0
    <3> QED BY <3>1, <3>2, <2>2, <1>4
  <2> QED BY <2>1, <2>2, <1>4
<1>8. WalkNext(s, y, i)
  BY <1>2 DEF WalkInv, WalkNext
<1>9. WalkEarly(at, s, y)
  <2>0. first \in 0 .. TimeRange - 1
    BY <1>2 DEF AccType
  <2>1. ASSUME first # 0 PROVE \E j \in DOMAIN s : s[j].first <= Back(at, first)
    <3>1. CASE first = s[i].sentTime
      <4>1. s[i].last \in Int /\ s[i].last <= at /\ s[i].sentTime = Clock(s[i].last)
            /\ s[i].first \in Int /\ s[i].first <= s[i].last
        BY <1>0, SentFacts
      <4>2. s[i].last <= Back(at, first)
        BY <3>1, <4>1, BackClock
      <4>3. Back(at, first) \in Int
        BY <2>0, BackFacts
      <4>4. s[i].first <= Back(at, first)
        BY <4>1, <4>2, <4>3
      <4> QED BY <4>4, <1>0
    <3>2. CASE first = acc.earliest
      BY <3>2, <2>1 DEF WalkInv, WalkEarly
    <3> QED BY <3>1, <3>2 DEF FirstOf
  <2>2. ASSUME y.gone, MinimumFits PROVE \E j \in DOMAIN s : at - s[j].first >= TimeoutMinimum
    <3>1. PICK j \in DOMAIN s : s[j].first <= Back(at, first)
      BY <2>1, <2>2, <1>2
    <3>2. s[j].first \in Int
      BY <3>1, SentFacts
    <3>3. Back(at, first) \in Int /\ TimeoutMinimum \in Nat
      BY <2>0, BackFacts, Timeouts
    <3>4. at - Back(at, first) >= TimeoutMinimum
      <4> DEFINE D == at - Back(at, first)
      <4>1. D \in Int /\ TimeoutMinimum \in Nat /\ TimeoutMaximum \in Nat /\ TimeOverflow \in Nat
            /\ TimeoutMinimum <= TimeoutMaximum /\ TimeoutMinimum <= TimeOverflow
        <5>1. D \in Int
          BY <3>3
        <5>2. TimeoutMinimum \in Nat /\ TimeoutMaximum \in Nat /\ TimeOverflow \in Nat
          BY Timeouts, Ranges
        <5>3. TimeoutMinimum <= TimeoutMaximum /\ TimeoutMinimum <= TimeOverflow
          BY <2>2 DEF MinimumFits
        <5> QED BY <5>1, <5>2, <5>3
      <4>2. D < TimeOverflow => age = D
        BY <2>0, AgeOf
      <4>3. age >= TimeoutMaximum \/ age >= TimeoutMinimum
        BY <2>2, <1>2
      <4> HIDE DEF D, age
      <4> QED BY <4>1, <4>2, <4>3 DEF D
    <3> QED BY <3>1, <3>2, <3>3, <3>4
  <2> QED BY <2>1, <2>2, <1>2 DEF WalkEarly
<1> QED BY <1>2, <1>6, <1>7, <1>8, <1>9 DEF WalkInv, y

LEMMA HorizonFacts ==
    /\ Horizon \in Nat /\ Horizon > 0
    /\ ClockFits => Horizon < TimeRange
<1>1. TimeoutMaximum \in Nat /\ LongestTimeout \in Nat /\ LongestTimeout > 0 /\ MaxStep \in Nat
  BY Timeouts, Ranges
<1>2. TimeRange \in Nat /\ TimeOverflow \in Nat /\ TimeOverflow < TimeRange
  BY Ranges
<1>3. Horizon \in Nat /\ Horizon > 0
  BY <1>1 DEF Horizon
<1>4. ClockFits => Horizon < TimeRange
  BY <1>2, <1>3 DEF ClockFits
<1> QED BY <1>3, <1>4

\* The earliest timeout, e at the start, never gets later, is not after the
\* sending of any command that moves, and less than the maximum ago if one did.
WalkSilent(at, e, acc) ==
    /\ acc.earliest # 0 => at - Back(at, acc.earliest) < Horizon
    /\ ~acc.gone => \A k \in DOMAIN acc.moved :
                        /\ acc.earliest # 0
                        /\ Back(at, acc.earliest) <= acc.moved[k].last
                        /\ at - Back(at, acc.earliest) < TimeoutMaximum
    /\ e # 0 => acc.earliest # 0 /\ Back(at, acc.earliest) <= Back(at, e)
    /\ acc.moved = <<>> => acc.earliest = e

LEMMA WalkSilentStep ==
    ASSUME ClockFits, NEW at \in Int, NEW s \in Seq(SentCmd), NEW i \in 1 .. Len(s), NEW acc,
           NEW e \in 0 .. TimeRange - 1,
           acc \in AccType, s[i].last <= at, at - s[i].last < Horizon, Clock(s[i].last) # 0,
           WalkSilent(at, e, acc)
    PROVE  WalkSilent(at, e, Expire(Clock(at), s, acc, i))
<1> DEFINE y == Expire(Clock(at), s, acc, i)
           c == s[i]
           first == FirstOf(acc, c)
           age == TimeDifference(Clock(at), first)
<1>1. CASE acc.gone \/ ~Expired(at, c)
  <2>1. y.earliest = acc.earliest /\ y.gone = acc.gone /\ y.moved = acc.moved
    BY <1>1, ExpireKeeps
  <2> HIDE DEF y
  <2>2. WalkSilent(at, e, y)
    BY <2>1 DEF WalkSilent
  <2> QED BY <2>2 DEF y
<1>2. CASE ~acc.gone /\ Expired(at, c)
  <2>1. /\ y \in AccType
        /\ y.earliest = first
        /\ y.moved = Append(acc.moved, Doubled(c))
        /\ (~y.gone /\ first # 0) => ~(age >= TimeoutMaximum)
    BY <1>2, ExpireMoves
  <2> HIDE DEF y
  <2>2. c \in SentCmd /\ acc.moved \in Seq(SentCmd) /\ acc.earliest \in 0 .. TimeRange - 1
    BY DEF AccType
  <2> DEFINE n == Len(acc.moved)
  <2>3. /\ n \in Nat /\ DOMAIN acc.moved = 1 .. n /\ DOMAIN y.moved = 1 .. n + 1
        /\ y.moved[n + 1] = Doubled(c) /\ \A k \in 1 .. n : y.moved[k] = acc.moved[k]
    BY <2>1, <2>2, DoubledFacts
  <2>4. c.last \in Int /\ c.sentTime = Clock(c.last) /\ c.sentTime \in 0 .. TimeRange - 1
        /\ c.sentTime # 0 /\ Doubled(c).last = c.last
    BY <2>2, SentFacts, DoubledFacts
  <2> HIDE DEF c
  <2>5. c.last <= at /\ at - c.last < Horizon
    BY DEF c
  <2>6. Horizon \in Nat /\ Horizon <= TimeOverflow /\ Horizon <= TimeRange - TimeOverflow
        /\ Horizon < TimeRange /\ TimeRange \in Nat /\ TimeOverflow \in Nat
    BY HorizonFacts, Ranges DEF ClockFits
  <2>7. Back(at, c.sentTime) = c.last
    <3>1. at - c.last < TimeRange
      BY <2>4, <2>5, <2>6
    <3> QED BY <2>4, <2>5, <3>1, BackClock
  <2>8. /\ first # 0 /\ first \in 0 .. TimeRange - 1
        /\ at - Back(at, first) < Horizon
        /\ Back(at, first) <= c.last
        /\ acc.earliest # 0 => Back(at, first) <= Back(at, acc.earliest)
    <3>1. CASE acc.earliest = 0
      BY <3>1, <2>4, <2>5, <2>7 DEF FirstOf
    <3>2. CASE acc.earliest # 0
      <4>1. at - Back(at, acc.earliest) < Horizon
        BY <3>2 DEF WalkSilent
      <4>2. Back(at, acc.earliest) \in Int
        BY <2>2, BackFacts
      <4>3. TimeLess(c.sentTime, acc.earliest) <=> c.last < Back(at, acc.earliest)
        BY <2>2, <2>4, <2>5, <2>6, <2>7, <4>1, Earlier
      <4>4. CASE TimeLess(c.sentTime, acc.earliest)
        <5>1. first = c.sentTime
          BY <4>4 DEF FirstOf
        <5> QED BY <5>1, <4>2, <4>3, <4>4, <2>4, <2>5, <2>7
      <4>5. CASE ~TimeLess(c.sentTime, acc.earliest)
        <5>1. first = acc.earliest
          BY <4>5, <3>2 DEF FirstOf
        <5> QED BY <5>1, <3>2, <4>1, <4>2, <4>3, <4>5, <2>2, <2>4
      <4> QED BY <4>4, <4>5
    <3> QED BY <3>1, <3>2
  <2> HIDE DEF first
  <2>9. Back(at, first) \in Int
    BY <2>8, BackFacts
  <2>10. ~y.gone => at - Back(at, first) < TimeoutMaximum
    <3>1. at - Back(at, first) < TimeOverflow
      BY <2>6, <2>8, <2>9
    <3>2. age = at - Back(at, first)
      BY <2>8, <3>1, AgeOf
    <3> QED BY <3>2, <2>1, <2>8, <2>9, Timeouts
  <2>11. ASSUME ~y.gone, NEW k \in DOMAIN y.moved
         PROVE  Back(at, first) <= y.moved[k].last
    <3>1. CASE k = n + 1
      BY <3>1, <2>3, <2>4, <2>8
    <3>2. CASE k \in 1 .. n
      <4>1. acc.earliest # 0 /\ Back(at, acc.earliest) <= acc.moved[k].last
        BY <3>2, <1>2, <2>3 DEF WalkSilent
      <4>2. acc.moved[k] \in SentCmd
        BY <3>2, <2>2
      <4>3. acc.moved[k].last \in Int /\ Back(at, acc.earliest) \in Int
        BY <4>2, <2>2, SentFacts, BackFacts
      <4>4. y.moved[k] = acc.moved[k]
        BY <3>2, <2>3
      <4> QED BY <4>1, <4>3, <4>4, <2>8, <2>9
    <3> QED BY <2>11, <3>1, <3>2, <2>3
  <2>12. e # 0 => Back(at, first) <= Back(at, e)
    <3> SUFFICES ASSUME e # 0 PROVE Back(at, first) <= Back(at, e)
      OBVIOUS
    <3>1. acc.earliest # 0 /\ Back(at, acc.earliest) <= Back(at, e)
      BY DEF WalkSilent
    <3>2. Back(at, acc.earliest) \in Int /\ Back(at, e) \in Int
      BY <2>2, BackFacts
    <3> QED BY <3>1, <3>2, <2>8, <2>9
  <2>13. y.moved # <<>>
    BY <2>3
  <2>14. WalkSilent(at, e, y)
    BY <2>1, <2>8, <2>10, <2>11, <2>12, <2>13 DEF WalkSilent
  <2> QED BY <2>14 DEF y
<1> QED BY <1>1, <1>2

\* The state of the walk before the first command, and what holds before it
\* begins.
From(e, n) == [earliest |-> e, gone |-> FALSE, moved |-> <<>>, kept |-> <<>>, next |-> n]

WalkStart(at, s, e, n) ==
    /\ at \in Int /\ s \in Seq(SentCmd) /\ InOrderOfSending(s)
    /\ e \in 0 .. TimeRange - 1 /\ n \in 0 .. TimeRange - 1
    /\ \A j \in DOMAIN s : s[j].last <= at
    /\ s # <<>> => n = Due(s[1])
    /\ e # 0 => \E j \in DOMAIN s : s[j].first <= Back(at, e)

SilentStart(at, s, e) ==
    /\ ClockFits
    /\ e # 0 => at - Back(at, e) < Horizon
    /\ \A j \in DOMAIN s : at - s[j].last < Horizon /\ Clock(s[j].last) # 0

LEMMA ScanFacts ==
    ASSUME NEW at, NEW s, NEW e, NEW n, WalkStart(at, s, e, n), s # <<>>
    PROVE  LET x == Scan(Clock(at), s, From(e, n))
           IN  /\ WalkInv(at, s, x, Len(s))
               /\ SilentStart(at, s, e) => WalkSilent(at, e, x)
<1> DEFINE from == From(e, n)
           t == Clock(at)
<1>0. /\ at \in Int /\ s \in Seq(SentCmd) /\ InOrderOfSending(s)
      /\ e \in 0 .. TimeRange - 1 /\ n \in 0 .. TimeRange - 1
      /\ \A j \in DOMAIN s : s[j].last <= at
      /\ n = Due(s[1])
      /\ e # 0 => \E j \in DOMAIN s : s[j].first <= Back(at, e)
  BY DEF WalkStart
<1>1. Len(s) \in Nat /\ Len(s) > 0
  BY <1>0
<1>2. PICK f : Walk(f, Len(s), t, s, from) /\ Scan(t, s, from) = f[Len(s)]
  BY <1>1, ScanWalks
<1>3. \A i \in 0 .. Len(s) : f[i] = IF i = 0 THEN from ELSE Expire(t, s, f[i - 1], i)
  BY <1>2 DEF Walk
<1> DEFINE Q(i) == /\ WalkInv(at, s, f[i], i)
                   /\ SilentStart(at, s, e) => WalkSilent(at, e, f[i])
           T == {i \in Nat : i <= Len(s) => Q(i)}
<1>4. 0 \in T
  <2>1. f[0] = from
    BY <1>1, <1>3
  <2>2. /\ from.earliest = e /\ from.gone = FALSE /\ from.moved = <<>> /\ from.kept = <<>>
        /\ from.next = n /\ from \in AccType
    BY <1>0 DEF From, AccType
  <2>3. DOMAIN <<>> = {} /\ \A i \in 1 .. 0 : FALSE
    OBVIOUS
  <2> HIDE DEF from
  <2>4. WalkKept(at, s, from, 0) /\ WalkMoved(at, s, from, 0)
    BY <2>2, <2>3 DEF WalkKept, WalkMoved, InOrderOfSending
  <2>5. WalkNext(s, from, 0)
    BY <1>0, <2>2 DEF WalkNext
  <2>6. WalkEarly(at, s, from)
    BY <1>0, <2>2 DEF WalkEarly
  <2>7. WalkInv(at, s, from, 0)
    BY <2>2, <2>4, <2>5, <2>6 DEF WalkInv
  <2>8. Back(at, e) \in Int
    BY <1>0, BackFacts
  <2>9. SilentStart(at, s, e) => WalkSilent(at, e, from)
    BY <2>2, <2>3, <2>8 DEF SilentStart, WalkSilent
  <2> QED BY <2>1, <2>7, <2>9
<1>5. ASSUME NEW m \in Nat, m \in T PROVE m + 1 \in T
  <2> SUFFICES ASSUME m + 1 <= Len(s) PROVE Q(m + 1)
    OBVIOUS
  <2> DEFINE i == m + 1
  <2>1. i \in 1 .. Len(s) /\ i - 1 = m /\ m <= Len(s) /\ i \in DOMAIN s /\ i \in 0 .. Len(s) /\ i # 0
    BY <1>0, <1>1
  <2>2. Q(m)
    BY <1>5, <2>1
  <2>3. f[i] = Expire(t, s, f[m], i)
    BY <1>3, <2>1
  <2> HIDE DEF i, Q, T
  <2>4. WalkInv(at, s, f[i - 1], i - 1)
    BY <2>1, <2>2 DEF Q
  <2>5. f[m] \in AccType
    BY <2>2 DEF Q, WalkInv
  <2>6. f[m].gone \in BOOLEAN
    BY <2>5 DEF AccType
  <2>7. WalkInv(at, s, f[i], i)
    <3>1. CASE f[m].gone \/ ~Expired(at, s[i])
      BY <3>1, <1>0, <2>1, <2>3, <2>4, WalkStepKeeps
    <3>2. CASE ~f[m].gone /\ Expired(at, s[i])
      BY <3>2, <1>0, <2>1, <2>3, <2>4, WalkStepMoves
    <3> QED BY <3>1, <3>2
  <2>8. ASSUME SilentStart(at, s, e) PROVE WalkSilent(at, e, f[i])
    <3>1. ClockFits /\ at - s[i].last < Horizon /\ Clock(s[i].last) # 0 /\ s[i].last <= at
      BY <2>8, <2>1, <1>0 DEF SilentStart
    <3>2. WalkSilent(at, e, f[m])
      BY <2>2, <2>8 DEF Q
    <3> QED BY <3>1, <3>2, <1>0, <2>1, <2>3, <2>5, WalkSilentStep
  <2> QED BY <2>7, <2>8 DEF Q, i
<1>6. Nat \subseteq T
  <2> HIDE DEF T
  <2> QED BY <1>4, <1>5, Induct
<1>7. Q(Len(s))
  BY <1>1, <1>6
<1> QED BY <1>2, <1>7
-----------------------------------------------------------------------------
(* The commands as the service finds them.                                 *)

LEMMA DueClock ==
    ASSUME NEW c \in SentCmd
    PROVE  Due(c) = Clock(c.last + c.rto)
<1> DEFINE p == (Start + c.last) \div TimeRange
<1>0. TimeRange \in Nat \ {0} /\ Start \in Nat /\ c.last \in Int /\ c.rto \in Int
      /\ Start + c.last \in Int /\ c.sentTime = Clock(c.last) /\ Clock(c.last) \in Int
  BY SentFacts, Ranges, ClockType
<1>1. p \in Int /\ Start + c.last = TimeRange * p + Clock(c.last)
  BY <1>0, Division DEF Clock
<1> HIDE DEF p
<1>2. TimeRange * p \in Int /\ Clock(c.last) + c.rto \in Int
  BY <1>0, <1>1
<1>3. Start + (c.last + c.rto) = (Clock(c.last) + c.rto) + TimeRange * p
  BY <1>0, <1>1, <1>2
<1>4. ((Clock(c.last) + c.rto) + TimeRange * p) % TimeRange = (Clock(c.last) + c.rto) % TimeRange
  BY <1>0, <1>1, <1>2, RemainderShift
<1> QED BY <1>0, <1>3, <1>4 DEF Due, Clock

\* The last acknowledgement is the time that lastReceiveTime, here r, stands
\* for.
LEMMA LastAckBack ==
    ASSUME NEW e \in Nat, NEW r \in 0 .. TimeRange - 1
    PROVE  e + 1 - ((Clock(e) + 1 - r) % TimeRange) = Back(e + 1, r)
<1> DEFINE p == (Start + e) \div TimeRange
           q == (Start + (e + 1)) \div TimeRange
<1>0. TimeRange \in Nat \ {0} /\ Start \in Nat /\ e \in Int /\ e + 1 \in Int /\ r \in Int
      /\ Start + e \in Int /\ Start + (e + 1) \in Int
  BY Ranges
<1>1. p \in Int /\ Start + e = TimeRange * p + Clock(e) /\ Clock(e) \in Int
  BY <1>0, Division, ClockType DEF Clock
<1>2. q \in Int /\ Start + (e + 1) = TimeRange * q + Clock(e + 1) /\ Clock(e + 1) \in Int
  BY <1>0, Division, ClockType DEF Clock
<1> HIDE DEF p, q
<1>3. /\ q - p \in Int /\ TimeRange * (q - p) = TimeRange * q - TimeRange * p
      /\ TimeRange * q \in Int /\ TimeRange * p \in Int
      /\ Clock(e + 1) - r \in Int
  BY <1>0, <1>1, <1>2
<1>4. Clock(e) + 1 - r = (Clock(e + 1) - r) + TimeRange * (q - p)
  <2>1. (Start + (e + 1)) - (Start + e) = 1
    BY <1>0
  <2>2. TimeRange * q - TimeRange * p = 1 + Clock(e) - Clock(e + 1)
    BY <1>1, <1>2, <1>3, <2>1
  <2> QED BY <1>0, <1>1, <1>2, <1>3, <2>2
<1> DEFINE m == (Clock(e + 1) - r) % TimeRange
<1>5. (Clock(e) + 1 - r) % TimeRange = m
  <2>1. ((Clock(e + 1) - r) + TimeRange * (q - p)) % TimeRange = m
    BY <1>0, <1>3, RemainderShift
  <2> QED BY <1>4, <2>1
<1>6. Back(e + 1, r) = (e + 1) - m
  BY Zenon DEF Back
<1>7. m \in Int
  <2>1. m \in 0 .. TimeRange - 1
    BY <1>0, <1>3, Division
  <2> QED BY <1>0, <2>1
<1> HIDE DEF m
<1>8. e + 1 - m = (e + 1) - m
  BY <1>0, <1>7
<1> QED BY <1>5, <1>6, <1>8

\* The timeouts that are found at time at.
Found(at) == CheckTimeouts(Clock(at))

\* What is found of the list, whatever the timeouts are.
FoundAny(at, x) ==
    /\ x \in AccType
    /\ InOrderOfSending(x.kept)
    /\ \A k \in DOMAIN x.kept : \E j \in DOMAIN sent : x.kept[k] = sent[j]
    /\ \A k \in DOMAIN x.moved : \E j \in DOMAIN sent : x.moved[k] = Doubled(sent[j])
    /\ \A j \in DOMAIN sent : \/ \E k \in DOMAIN x.kept : x.kept[k] = sent[j]
                              \/ \E k \in DOMAIN x.moved : x.moved[k] = Doubled(sent[j])
    /\ x.kept # <<>> => x.next = Due(x.kept[1])
    /\ WalkEarly(at, sent, x)

\* What is found if the clock can tell the times apart.
FoundSilent(at, x) ==
    /\ \A k \in DOMAIN x.kept : at - x.kept[k].last < LongestTimeout
    /\ \A k \in DOMAIN x.moved : x.moved[k].rto <= LongestTimeout
    /\ WalkSilent(at, earliest, x)

LEMMA StartOfWalk ==
    ASSUME IndInv, state = "CONNECTED", NEW at \in Int, elapsed <= at
    PROVE  WalkStart(at, sent, earliest, next)
<1>1. /\ elapsed \in Int /\ sent \in Seq(SentCmd)
      /\ earliest \in 0 .. TimeRange - 1 /\ next \in 0 .. TimeRange - 1
  BY TimeAssumption DEF IndInv, Types
<1>2. /\ InOrderOfSending(sent)
      /\ \A j \in DOMAIN sent : sent[j].last <= elapsed
      /\ sent # <<>> => next = Due(sent[1])
  BY DEF IndInv, Listed, InOrderOfSending, NextTimeoutExact
<1>3. \A j \in DOMAIN sent : sent[j].last <= at
  <2> TAKE j \in DOMAIN sent
  <2>1. sent[j].last \in Int
    BY <1>1, SentFacts
  <2> QED BY <1>1, <1>2, <2>1
<1>4. ASSUME earliest # 0 PROVE \E j \in DOMAIN sent : sent[j].first <= Back(at, earliest)
  <2>1. PICK j \in DOMAIN sent : sent[j].first <= Back(elapsed, earliest)
    BY <1>4 DEF IndInv, EarlyInv
  <2>2. sent[j].first \in Int
    BY <1>1, SentFacts
  <2>3. Back(elapsed, earliest) <= Back(at, earliest)
        /\ Back(elapsed, earliest) \in Int /\ Back(at, earliest) \in Int
    BY <1>1, BackLater, BackFacts
  <2> QED BY <2>1, <2>2, <2>3
<1> QED BY <1>1, <1>2, <1>3, <1>4 DEF WalkStart

LEMMA FoundFacts ==
    ASSUME IndInv, state = "CONNECTED", NEW at \in Int, elapsed <= at
    PROVE  FoundAny(at, Found(at))
<1> DEFINE x == Found(at)
           t == Clock(at)
<1>1. WalkStart(at, sent, earliest, next)
  BY StartOfWalk
<1>2. /\ sent \in Seq(SentCmd) /\ InOrderOfSending(sent)
      /\ earliest \in 0 .. TimeRange - 1 /\ next \in 0 .. TimeRange - 1
      /\ sent # <<>> => next = Due(sent[1])
      /\ earliest # 0 => \E j \in DOMAIN sent : sent[j].first <= Back(at, earliest)
  BY <1>1 DEF WalkStart
<1>3. CASE sent = <<>> \/ TimeLess(t, next)
  <2>1. x = [From(earliest, next) EXCEPT !.kept = sent]
    BY <1>3 DEF Found, CheckTimeouts, From
  <2> DEFINE from == From(earliest, next)
  <2>0. from \in AccType /\ from.moved = <<>> /\ from.earliest = earliest /\ from.next = next
        /\ from.gone = FALSE
    BY <1>2 DEF From, AccType
  <2> HIDE DEF from, x
  <2>2. /\ x \in AccType /\ x.kept = sent /\ x.moved = <<>> /\ ~x.gone
        /\ x.earliest = earliest /\ x.next = next
    BY <1>2, <2>0, <2>1 DEF AccType, from
  <2>3. DOMAIN x.moved = {}
    BY <2>2
  <2> HIDE DEF x
  <2>4. WalkEarly(at, sent, x)
    BY <1>2, <2>2 DEF WalkEarly
  <2>5. FoundAny(at, x)
    BY <1>2, <2>2, <2>3, <2>4 DEF FoundAny
  <2> QED BY <2>5 DEF x
<1>4. CASE sent # <<>> /\ ~TimeLess(t, next)
  <2>1. x = Scan(t, sent, From(earliest, next))
    BY <1>4 DEF Found, CheckTimeouts, From
  <2>2. WalkInv(at, sent, x, Len(sent))
    BY <1>1, <1>4, <2>1, ScanFacts
  <2>3. Len(sent) \in Nat /\ DOMAIN sent = 1 .. Len(sent)
    BY <1>2
  <2> HIDE DEF x
  <2>4. x \in AccType /\ WalkKept(at, sent, x, Len(sent)) /\ WalkMoved(at, sent, x, Len(sent))
        /\ WalkNext(sent, x, Len(sent)) /\ WalkEarly(at, sent, x)
    BY <2>2 DEF WalkInv
  <2>5. /\ InOrderOfSending(x.kept)
        /\ \A k \in DOMAIN x.kept : \E j \in DOMAIN sent : x.kept[k] = sent[j]
        /\ \A j \in DOMAIN sent : \/ \E k \in DOMAIN x.kept : x.kept[k] = sent[j]
                                  \/ \E k \in DOMAIN x.moved : x.moved[k] = Doubled(sent[j])
    BY <2>3, <2>4, Zenon DEF WalkKept
  <2>6. \A k \in DOMAIN x.moved : \E j \in DOMAIN sent : x.moved[k] = Doubled(sent[j])
    BY <2>3, <2>4, Zenon DEF WalkMoved
  <2>7. x.kept # <<>> => x.next = Due(x.kept[1])
    BY <2>4 DEF WalkNext
  <2>8. FoundAny(at, x)
    BY <2>4, <2>5, <2>6, <2>7 DEF FoundAny
  <2> QED BY <2>8 DEF x
<1> QED BY <1>3, <1>4

\* The service is never too late for the clock.
LEMMA StartOfSilence ==
    ASSUME IndInv, state = "CONNECTED", ZeroSkipped, ClockFits,
           NEW d \in 1 .. MaxStep
    PROVE  /\ SilentStart(elapsed + d, sent, earliest)
           /\ earliest # 0 => Back(elapsed + d, earliest) = Back(elapsed, earliest)
<1> DEFINE at == elapsed + d
<1>0. /\ d \in Nat /\ d <= MaxStep /\ MaxStep \in Nat /\ elapsed \in Nat /\ at \in Nat
      /\ sent \in Seq(SentCmd) /\ earliest \in 0 .. TimeRange - 1
      /\ TimeoutMaximum \in Nat /\ LongestTimeout \in Nat
      /\ Horizon \in Nat /\ Horizon = TimeoutMaximum + LongestTimeout + MaxStep
      /\ Horizon < TimeRange /\ TimeRange \in Nat
  BY TimeAssumption, Timeouts, HorizonFacts DEF IndInv, Types, Horizon
<1>1. Rescanned /\ Looked
  BY DEF IndInv, SilenceInv
<1>2. ASSUME NEW j \in DOMAIN sent
      PROVE  at - sent[j].last < Horizon /\ Clock(sent[j].last) # 0
  <2>1. sent[j].last \in Int
    BY <1>0, SentFacts
  <2>2. elapsed - sent[j].last < LongestTimeout
    BY <1>1 DEF Rescanned
  <2>3. PICK z \in echoes : z.at = sent[j].last
    BY DEF IndInv, Listed
  <2>4. Clock(sent[j].last) # 0
    BY <2>3 DEF ZeroSkipped, Clock
  <2> QED BY <1>0, <2>1, <2>2, <2>4, SMTT(30)
<1>3. ASSUME earliest # 0
      PROVE  at - Back(at, earliest) < Horizon /\ Back(at, earliest) = Back(elapsed, earliest)
  <2> DEFINE b == Back(elapsed, earliest)
  <2>1. PICK i \in DOMAIN sent : b <= sent[i].last /\ sent[i].last - b < TimeoutMaximum
    BY <1>1, <1>3 DEF Looked
  <2>2. elapsed - sent[i].last < LongestTimeout /\ sent[i].last \in Int
    BY <1>0, <1>1, SentFacts DEF Rescanned
  <2>3. b \in Int
    BY <1>0, BackFacts
  <2> HIDE DEF b
  <2>4. at - b < Horizon /\ at - b < TimeRange
    <3> DEFINE l == sent[i].last
    <3>1. b <= l /\ l - b < TimeoutMaximum /\ elapsed - l < LongestTimeout /\ l \in Int
      BY <2>1, <2>2
    <3> HIDE DEF l
    <3>2. at - b < TimeoutMaximum + LongestTimeout + MaxStep
      BY <1>0, <2>3, <3>1
    <3> QED BY <1>0, <2>3, <3>2
  <2>5. Back(at, earliest) = b
    BY <1>0, <2>4, BackLater, elapsed <= at DEF b
  <2> QED BY <2>4, <2>5 DEF b
<1> QED BY <1>2, <1>3 DEF SilentStart

LEMMA FoundInSilence ==
    ASSUME IndInv, state = "CONNECTED", ZeroSkipped, ClockFits,
           NEW d \in 1 .. MaxStep, ~Found(elapsed + d).gone
    PROVE  FoundSilent(elapsed + d, Found(elapsed + d))
<1> DEFINE at == elapsed + d
           x == Found(at)
           t == Clock(at)
<1>0. /\ d \in Nat /\ elapsed \in Nat /\ at \in Int /\ elapsed <= at
      /\ sent \in Seq(SentCmd) /\ earliest \in 0 .. TimeRange - 1 /\ next \in 0 .. TimeRange - 1
      /\ LongestTimeout \in Nat /\ TimeoutMaximum \in Nat /\ 2 * TimeoutMaximum <= LongestTimeout
      /\ Horizon \in Nat /\ Horizon <= TimeOverflow /\ Horizon < TimeRange
      /\ TimeOverflow \in Nat /\ TimeRange \in Nat \ {0}
  BY TimeAssumption, Timeouts, HorizonFacts, Ranges DEF IndInv, Types, ClockFits
<1>1. WalkStart(at, sent, earliest, next)
  BY <1>0, StartOfWalk
<1>2. SilentStart(at, sent, earliest)
  BY StartOfSilence
<1>3. /\ \A j \in DOMAIN sent : at - sent[j].last < Horizon /\ sent[j].last <= at
      /\ earliest # 0 => at - Back(at, earliest) < Horizon
      /\ \A i, j \in DOMAIN sent : i <= j => sent[i].last <= sent[j].last
      /\ sent # <<>> => next = Due(sent[1])
  BY <1>1, <1>2 DEF WalkStart, SilentStart, InOrderOfSending
<1>4. \A j \in DOMAIN sent : sent[j] \in SentCmd /\ sent[j].last \in Int /\ sent[j].rto \in Nat
                             /\ sent[j].rto <= LongestTimeout
  BY <1>0, SentFacts DEF IndInv, SilenceInv, Rescanned
<1> HIDE DEF at
<1>5. CASE sent = <<>> \/ TimeLess(t, next)
  <2>1. x = [From(earliest, next) EXCEPT !.kept = sent]
    BY <1>5 DEF Found, CheckTimeouts, From
  <2>2. x.kept = sent /\ x.moved = <<>> /\ x.earliest = earliest
    BY <2>1 DEF From
  <2> HIDE DEF x
  <2>3. WalkSilent(at, earliest, x)
    <3>1. DOMAIN x.moved = {}
      BY <2>2
    <3>2. Back(at, earliest) \in Int
      BY <1>0, BackFacts
    <3> QED BY <1>3, <2>2, <3>1, <3>2 DEF WalkSilent
  <2>4. ASSUME NEW k \in DOMAIN sent PROVE at - sent[k].last < LongestTimeout
    <3> DEFINE c == sent[1]
               due == c.last + c.rto
    <3>1. sent # <<>> /\ 1 \in DOMAIN sent /\ 1 <= k
      BY <1>0
    <3>2. /\ TimeLess(t, next) /\ next = Due(c) /\ c \in SentCmd /\ c.last \in Int /\ c.rto \in Nat
          /\ c.rto <= LongestTimeout /\ c.last <= sent[k].last /\ sent[k].last \in Int
          /\ at - c.last < Horizon
      BY <3>1, <1>3, <1>4, <1>5
    <3>3. next = Clock(due) /\ due \in Int
      BY <3>2, DueClock
    <3>4. at < due
      <4> SUFFICES ASSUME ~(at < due) PROVE FALSE
        OBVIOUS
      <4>0. due = c.last + c.rto
        OBVIOUS
      <4> HIDE DEF c, due
      <4>1. 0 <= at - due /\ at - due < Horizon /\ at - due \in Int
        <5>1. at \in Int /\ due \in Int /\ Horizon \in Nat
          BY <1>0, <3>3
        <5>2. c.last \in Int /\ c.rto \in Nat /\ at - c.last < Horizon
          BY <3>2
        <5> QED BY <4>0, <5>1, <5>2
      <4>2. (at - due) % TimeRange = at - due
        BY <1>0, <4>1, RemainderNear, -TimeRange <= at - due, at - due < TimeRange
      <4>3. (Clock(at) - Clock(due)) % TimeRange = at - due
        BY <1>0, <3>3, <4>2, ClockDifference
      <4>4. ~TimeLess(Clock(at), Clock(due))
        BY <1>0, <4>1, <4>3 DEF TimeLess
      <4> QED BY <3>2, <3>3, <4>4
    <3> HIDE DEF c
    <3> QED BY <1>0, <3>2, <3>3, <3>4, SMTT(30)
  <2>5. FoundSilent(at, x)
    BY <2>2, <2>3, <2>4 DEF FoundSilent
  <2> QED BY <2>5 DEF x, at
<1>6. CASE sent # <<>> /\ ~TimeLess(t, next)
  <2>1. x = Scan(t, sent, From(earliest, next))
    BY <1>6 DEF Found, CheckTimeouts, From
  <2>2. WalkInv(at, sent, x, Len(sent)) /\ WalkSilent(at, earliest, x)
    BY <1>1, <1>2, <1>6, <2>1, ScanFacts DEF at
  <2>3. Len(sent) \in Nat /\ DOMAIN sent = 1 .. Len(sent)
    BY <1>0
  <2>4. ~x.gone
    BY DEF at
  <2> HIDE DEF x
  <2>5. \A j \in DOMAIN sent : TimeDifference(t, sent[j].sentTime) = at - sent[j].last
    <3> TAKE j \in DOMAIN sent
    <3>1. sent[j].sentTime = Clock(sent[j].last) /\ sent[j].sentTime \in 0 .. TimeRange - 1
      BY <1>4, SentFacts
    <3>2. at - sent[j].last < TimeRange /\ at - sent[j].last < TimeOverflow
      BY <1>0, <1>3, <1>4
    <3>3. Back(at, sent[j].sentTime) = sent[j].last
      BY <3>1, <3>2, <1>0, <1>3, <1>4, BackClock
    <3> QED BY <3>1, <3>2, <3>3, <1>0, AgeOf
  <2>6. ASSUME NEW k \in DOMAIN x.kept PROVE at - x.kept[k].last < LongestTimeout
    <3>1. PICK j \in 1 .. Len(sent) : x.kept[k] = sent[j] /\ ~Expired(at, sent[j])
      BY <2>2, <2>4 DEF WalkInv, WalkKept
    <3>2. at - sent[j].last < sent[j].rto
      BY <3>1, <2>3, <2>5 DEF Expired
    <3>3. sent[j].last \in Int /\ sent[j].rto \in Nat /\ sent[j].rto <= LongestTimeout
      BY <1>4, <2>3
    <3>4. at - sent[j].last < LongestTimeout
      BY <3>2, <3>3, <1>0
    <3> QED BY <3>1, <3>4
  <2>7. ASSUME NEW k \in DOMAIN x.moved PROVE x.moved[k].rto <= LongestTimeout
    <3>1. PICK j \in 1 .. Len(sent) : x.moved[k] = Doubled(sent[j]) /\ Expired(at, sent[j])
      BY <2>2 DEF WalkInv, WalkMoved
    <3>2. ~(at - sent[j].last < sent[j].rto)
      BY <3>1, <2>3, <2>5 DEF Expired
    <3>3. x.moved[k].rto = 2 * sent[j].rto /\ x.moved[k].last = sent[j].last
      BY <3>1, <1>4, <2>3, DoubledFacts
    <3>4. Back(at, x.earliest) <= sent[j].last /\ at - Back(at, x.earliest) < TimeoutMaximum
      BY <2>2, <2>4, <3>3 DEF WalkSilent
    <3>5. Back(at, x.earliest) \in Int
      BY <1>0, <2>2, BackFacts DEF WalkInv, AccType
    <3>6. sent[j].last \in Int /\ sent[j].rto \in Nat
      BY <1>4, <2>3
    <3>7. sent[j].rto < TimeoutMaximum
      BY <1>0, <3>2, <3>4, <3>5, <3>6, SMTT(30)
    <3>8. 2 * sent[j].rto <= LongestTimeout
      BY <1>0, <3>6, <3>7
    <3> QED BY <3>3, <3>8
  <2>8. FoundSilent(at, x)
    BY <2>2, <2>6, <2>7 DEF FoundSilent
  <2> QED BY <2>8 DEF x, at
<1> QED BY <1>5, <1>6
-----------------------------------------------------------------------------
(* The service.                                                            *)

\* A transmission of c, when the estimate is rto.
Resent(at, rto, c, y) ==
    /\ y \in SentCmd /\ y.last = at /\ y.id = c.id
    /\ y.rto = (IF c.rto = 0 THEN rto ELSE c.rto)
    /\ y.first = (IF c.first < 0 THEN at ELSE c.first)

LEMMA TransmitFacts ==
    ASSUME NEW at \in Nat, NEW rto \in RoundTripTimeouts, NEW cs \in Seq(SentCmd \cup NewCmd),
           \A i \in DOMAIN cs : cs[i].first <= at
    PROVE  LET new == Transmit(Clock(at), at, rto, cs)
           IN  /\ new \in Seq(SentCmd) /\ Len(new) = Len(cs) /\ DOMAIN new = DOMAIN cs
               /\ \A i \in DOMAIN cs : Resent(at, rto, cs[i], new[i])
<1> DEFINE new == Transmit(Clock(at), at, rto, cs)
<1>1. DOMAIN cs = 1 .. Len(cs) /\ Len(cs) \in Nat /\ DOMAIN new = 1 .. Len(cs)
  BY DEF Transmit
<1>2. ASSUME NEW i \in DOMAIN cs PROVE Resent(at, rto, cs[i], new[i])
  <2> DEFINE c == cs[i]
             y == new[i]
  <2>1. c \in Cmd /\ c.rto \in Nat /\ c.attempts \in Nat /\ c.first \in Int
        /\ (c.rto = 0 \/ c.rto > 0) /\ (c.first >= 0 \/ c.first < 0)
    BY <1>2 DEF SentCmd, NewCmd, Cmd
  <2>2. rto \in Nat /\ rto > 0
    BY Timeouts
  <2>3. Clock(at) \in 0 .. TimeRange - 1
    BY ClockType
  <2>4. c.first <= at
    BY <1>2
  <2>5. y = [c EXCEPT !.attempts = @ + 1, !.sentTime = Clock(at),
                      !.rto = IF @ = 0 THEN rto ELSE @,
                      !.first = IF @ < 0 THEN at ELSE @,
                      !.last = at]
    BY <1>1, <1>2 DEF Transmit
  <2> HIDE DEF c, y
  <2> DEFINE r == IF c.rto = 0 THEN rto ELSE c.rto
             f == IF c.first < 0 THEN at ELSE c.first
  <2>6. r \in Nat /\ r > 0 /\ f \in Int /\ 0 <= f /\ f <= at /\ c.attempts + 1 \in Nat
        /\ c.attempts + 1 > 0
    BY <2>1, <2>2, <2>4
  <2>7. y = [c EXCEPT !.attempts = c.attempts + 1, !.sentTime = Clock(at),
                      !.rto = r, !.first = f, !.last = at]
    BY <2>5
  <2> HIDE DEF r, f
  <2>8. /\ y \in Cmd /\ y.attempts = c.attempts + 1 /\ y.sentTime = Clock(at) /\ y.rto = r
        /\ y.first = f /\ y.last = at /\ y.id = c.id
    <3> DEFINE a == c.attempts + 1
               k == Clock(at)
    <3>1. a \in Nat /\ k \in 0 .. TimeRange - 1 /\ r \in Nat /\ f \in Int /\ at \in Int
      BY <2>3, <2>6
    <3>2. y = [c EXCEPT !.attempts = a, !.sentTime = k, !.rto = r, !.first = f, !.last = at]
      BY <2>7
    <3> HIDE DEF a, k
    <3>3. y \in Cmd /\ y.attempts = a /\ y.sentTime = k /\ y.rto = r
          /\ y.first = f /\ y.last = at /\ y.id = c.id
      BY <2>1, <3>1, <3>2 DEF Cmd
    <3> QED BY <3>3 DEF a, k
  <2>9. y \in SentCmd
    BY <2>6, <2>8 DEF SentCmd
  <2> QED BY <2>8, <2>9 DEF Resent, c, y, r, f
<1>3. new \in Seq(SentCmd) /\ Len(new) = Len(cs)
  <2>1. \A i \in 1 .. Len(cs) : new[i] \in SentCmd
    BY <1>1, <1>2 DEF Resent
  <2>2. new = [i \in 1 .. Len(cs) |-> new[i]]
    BY <1>1 DEF Transmit
  <2> HIDE DEF new
  <2>3. new \in [1 .. Len(cs) -> SentCmd]
    BY <2>1, <2>2
  <2> QED BY <1>1, <2>3
<1> QED BY <1>1, <1>2, <1>3

\* A service that does not end the connection sends the commands cs.
Served(d, rto, cs) ==
    LET at == elapsed + d
        x == Found(at)
        new == Transmit(Clock(at), at, rto, cs)
    IN  /\ state = "CONNECTED" /\ at <= MaxElapsed /\ elapsed' = at /\ ~x.gone
        /\ \/ cs = x.moved \o out
           \/ /\ x.moved = <<>> /\ cs = <<Command(commands)>>
        /\ sent' = x.kept \o new /\ out' = <<>>
        /\ next' = IF x.kept = <<>> /\ new # <<>> THEN (Clock(at) + new[1].rto) % TimeRange
                   ELSE x.next
        /\ earliest' = x.earliest
        /\ echoes' = echoes \cup {[id |-> new[i].id, low |-> Clock(at) % LowRange, at |-> at]
                                    : i \in DOMAIN new}
        /\ commands' \in Nat
        /\ state' = state /\ received' = received

\* A service that ends it.
Ended(d) ==
    LET at == elapsed + d
    IN  /\ state = "CONNECTED" /\ at <= MaxElapsed /\ elapsed' = at /\ Found(at).gone
        /\ state' = "DISCONNECTED"
        /\ UNCHANGED <<out, sent, next, earliest, received, echoes, commands>>

LEMMA ServiceCases ==
    ASSUME IndInv, NEW d \in 1 .. MaxStep, NEW rto \in RoundTripTimeouts, Service(d, rto)
    PROVE  Ended(d) \/ \E cs : Served(d, rto, cs)
<1> DEFINE at == elapsed + d
           t == (Start + at) % TimeRange
           x == CheckTimeouts(t)
           waiting == x.moved \o out
           ping == /\ waiting = <<>> /\ x.kept = <<>>
                   /\ TimeDifference(t, received) >= PingInterval
                   /\ commands < MaxCommands
           cs == IF ping THEN <<Command(commands)>> ELSE waiting
           new == Transmit(t, at, rto, cs)
<1>0. state = "CONNECTED" /\ at <= MaxElapsed /\ elapsed' = at
  BY DEF Service
<1>1. t = Clock(at) /\ x = Found(at)
  BY DEF Clock, Found
<1>2. CASE x.gone
  <2>1. state' = "DISCONNECTED" /\ UNCHANGED <<out, sent, next, earliest, received, echoes, commands>>
    BY <1>2 DEF Service
  <2> QED BY <1>0, <1>1, <1>2, <2>1 DEF Ended
<1>3. CASE ~x.gone
  <2>1. /\ sent' = x.kept \o new
        /\ out' = <<>>
        /\ next' = IF x.kept = <<>> /\ new # <<>> THEN (t + new[1].rto) % TimeRange
                   ELSE x.next
        /\ earliest' = x.earliest
        /\ echoes' = echoes \cup {[id |-> new[i].id, low |-> t % LowRange, at |-> at]
                                    : i \in DOMAIN new}
        /\ commands' = IF ping THEN commands + 1 ELSE commands
        /\ UNCHANGED <<state, received>>
    BY <1>3 DEF Service
  <2>2. commands \in Nat /\ out \in Seq(NewCmd) /\ elapsed \in Int /\ at \in Int /\ elapsed <= at
    BY TimeAssumption DEF IndInv, Types
  <2>3. commands' \in Nat
    <3>1. commands' = commands + 1 \/ commands' = commands
      BY <2>1, Zenon
    <3> QED BY <2>2, <3>1
  <2>4. x.moved \in Seq(SentCmd)
    BY <1>0, <1>1, <2>2, FoundFacts DEF FoundAny, AccType
  <2>5. ping => x.moved = <<>>
    <3> HIDE DEF x
    <3> QED BY <2>2, <2>4
  <2>6. cs = x.moved \o out \/ (x.moved = <<>> /\ cs = <<Command(commands)>>)
    <3> HIDE DEF x
    <3> QED BY <2>5
  <2> HIDE DEF x, t, ping, cs, waiting, at
  <2>7. Served(d, rto, cs)
    BY <1>0, <1>1, <1>3, <2>1, <2>3, <2>6 DEF Served, at
  <2> QED BY <2>7
<1> QED BY <1>2, <1>3

LEMMA Joined ==
    ASSUME NEW S, NEW a \in Seq(S), NEW b \in Seq(S)
    PROVE  LET n == Len(a)
               m == Len(b)
           IN  /\ n \in Nat /\ m \in Nat /\ DOMAIN a = 1 .. n /\ DOMAIN b = 1 .. m
               /\ a \o b \in Seq(S) /\ DOMAIN (a \o b) = 1 .. n + m
               /\ \A i \in 1 .. n : (a \o b)[i] = a[i]
               /\ \A i \in 1 .. m : n + i \in DOMAIN (a \o b) /\ (a \o b)[n + i] = b[i]
<1> DEFINE n == Len(a)
           m == Len(b)
           c == a \o b
<1>1. n \in Nat /\ m \in Nat /\ DOMAIN a = 1 .. n /\ DOMAIN b = 1 .. m
  OBVIOUS
<1>2. c \in Seq(S) /\ Len(c) = n + m /\ DOMAIN c = 1 .. n + m
  OBVIOUS
<1>3. \A i \in 1 .. n + m : c[i] = IF i <= n THEN a[i] ELSE b[i - n]
  OBVIOUS
<1> HIDE DEF n, m, c
<1>4. \A i \in 1 .. n : c[i] = a[i]
  BY <1>1, <1>3
<1>5. ASSUME NEW i \in 1 .. m PROVE n + i \in DOMAIN c /\ c[n + i] = b[i]
  <2>1. n + i \in 1 .. n + m /\ ~(n + i <= n) /\ (n + i) - n = i
    BY <1>1
  <2> QED BY <1>2, <1>3, <2>1
<1> QED BY <1>1, <1>2, <1>4, <1>5 DEF n, m, c

LEMMA CommandIsNew ==
    ASSUME NEW n \in Nat
    PROVE  Command(n) \in NewCmd
<1>1. 0 \in 0 .. TimeRange - 1
  BY Ranges
<1> QED BY <1>1 DEF Command, NewCmd, Cmd

\* The new list: what stays, then what is sent.
ServedList(at, rto, cs, x) ==
    /\ sent' \in Seq(SentCmd)
    /\ \A i \in DOMAIN sent' : \/ \E k \in DOMAIN x.kept : sent'[i] = x.kept[k]
                               \/ \E k \in DOMAIN cs : Resent(at, rto, cs[k], sent'[i])
    /\ \A k \in DOMAIN cs : \/ \E m \in DOMAIN x.moved : cs[k] = x.moved[m]
                            \/ cs[k] \in NewCmd
    /\ \A k \in DOMAIN x.kept : \E i \in DOMAIN sent' : sent'[i] = x.kept[k]
    /\ \A m \in DOMAIN x.moved : \E i \in DOMAIN sent' : Resent(at, rto, x.moved[m], sent'[i])
    /\ InOrderOfSending(sent')
    /\ \A i \in DOMAIN sent' : sent'[i].last <= at
    /\ sent' # <<>> => next' = Due(sent'[1])
    /\ next' \in 0 .. TimeRange - 1
    /\ echoes \subseteq echoes'
    /\ \A i \in DOMAIN sent' : \E z \in echoes' : z.at = sent'[i].last

LEMMA ServedFacts ==
    ASSUME IndInv, NEW d \in 1 .. MaxStep, NEW rto \in RoundTripTimeouts, NEW cs, Served(d, rto, cs)
    PROVE  ServedList(elapsed + d, rto, cs, Found(elapsed + d))
<1> DEFINE at == elapsed + d
           x == Found(at)
           new == Transmit(Clock(at), at, rto, cs)
<1>0. /\ elapsed \in Nat /\ d \in Nat /\ at \in Nat /\ at \in Int /\ elapsed <= at
      /\ sent \in Seq(SentCmd) /\ out \in Seq(NewCmd) /\ commands \in Nat
      /\ TimeRange \in Nat \ {0}
  BY TimeAssumption, Ranges DEF IndInv, Types
<1>1. /\ state = "CONNECTED"
      /\ \/ cs = x.moved \o out
         \/ /\ x.moved = <<>> /\ cs = <<Command(commands)>>
      /\ sent' = x.kept \o new
      /\ next' = IF x.kept = <<>> /\ new # <<>> THEN (Clock(at) + new[1].rto) % TimeRange
                 ELSE x.next
      /\ echoes' = echoes \cup {[id |-> new[i].id, low |-> Clock(at) % LowRange, at |-> at]
                                  : i \in DOMAIN new}
  BY DEF Served
<1>2. FoundAny(at, x)
  BY <1>0, <1>1, FoundFacts
<1>3. /\ x.kept \in Seq(SentCmd) /\ x.moved \in Seq(SentCmd) /\ x.next \in 0 .. TimeRange - 1
      /\ InOrderOfSending(x.kept)
      /\ \A k \in DOMAIN x.kept : \E j \in DOMAIN sent : x.kept[k] = sent[j]
      /\ \A k \in DOMAIN x.moved : \E j \in DOMAIN sent : x.moved[k] = Doubled(sent[j])
      /\ x.kept # <<>> => x.next = Due(x.kept[1])
  BY <1>2 DEF FoundAny, AccType
<1>4. \A j \in DOMAIN sent : /\ sent[j] \in SentCmd /\ sent[j].last \in Int /\ sent[j].last <= elapsed
                             /\ sent[j].first \in Int /\ sent[j].first <= sent[j].last
                             /\ \E z \in echoes : z.at = sent[j].last
  BY <1>0, SentFacts DEF IndInv, Listed
<1> HIDE DEF x, at
<1>5. /\ cs \in Seq(SentCmd \cup NewCmd)
      /\ \A k \in DOMAIN cs : \/ \E m \in DOMAIN x.moved : cs[k] = x.moved[m]
                              \/ cs[k] \in NewCmd
      /\ \A m \in DOMAIN x.moved : m \in DOMAIN cs /\ cs[m] = x.moved[m]
  <2>1. CASE cs = x.moved \o out
    <3>1. x.moved \in Seq(SentCmd \cup NewCmd) /\ out \in Seq(SentCmd \cup NewCmd)
      BY <1>0, <1>3
    <3>2. cs \in Seq(SentCmd \cup NewCmd)
      BY <2>1, <3>1
    <3>3. /\ DOMAIN cs = 1 .. Len(x.moved) + Len(out) /\ Len(x.moved) \in Nat /\ Len(out) \in Nat
          /\ DOMAIN x.moved = 1 .. Len(x.moved) /\ DOMAIN out = 1 .. Len(out)
          /\ \A k \in DOMAIN cs : cs[k] = IF k <= Len(x.moved) THEN x.moved[k]
                                          ELSE out[k - Len(x.moved)]
      BY <1>0, <1>3, <2>1
    <3>4. ASSUME NEW k \in DOMAIN cs
          PROVE  (\E m \in DOMAIN x.moved : cs[k] = x.moved[m]) \/ cs[k] \in NewCmd
      <4>1. CASE k <= Len(x.moved)
        BY <3>3, <3>4, <4>1
      <4>2. CASE ~(k <= Len(x.moved))
        <5>1. k - Len(x.moved) \in 1 .. Len(out)
          BY <3>3, <3>4, <4>2
        <5> QED BY <5>1, <4>2, <3>3, <3>4, <1>0
      <4> QED BY <4>1, <4>2
    <3>5. \A m \in DOMAIN x.moved : m \in DOMAIN cs /\ cs[m] = x.moved[m]
      BY <3>3
    <3> QED BY <3>2, <3>4, <3>5
  <2>2. CASE x.moved = <<>> /\ cs = <<Command(commands)>>
    <3>1. Command(commands) \in NewCmd
      BY <1>0, CommandIsNew
    <3>2. cs \in Seq(SentCmd \cup NewCmd) /\ DOMAIN cs = {1} /\ cs[1] = Command(commands)
      BY <2>2, <3>1
    <3> QED BY <2>2, <3>1, <3>2
  <2> QED BY <1>1, <2>1, <2>2
<1>6. \A i \in DOMAIN cs : cs[i].first <= at
  <2> TAKE i \in DOMAIN cs
  <2>1. CASE \E m \in DOMAIN x.moved : cs[i] = x.moved[m]
    <3>1. PICK j \in DOMAIN sent : cs[i] = Doubled(sent[j])
      BY <2>1, <1>3
    <3>2. cs[i].first = sent[j].first
      BY <3>1, <1>4, DoubledFacts
    <3> QED BY <3>2, <1>0, <1>4
  <2>2. CASE cs[i] \in NewCmd
    BY <2>2, <1>0 DEF NewCmd
  <2> QED BY <2>1, <2>2, <1>5
<1>7. /\ new \in Seq(SentCmd) /\ Len(new) = Len(cs) /\ DOMAIN new = DOMAIN cs
      /\ \A i \in DOMAIN cs : Resent(at, rto, cs[i], new[i])
  BY <1>0, <1>5, <1>6, TransmitFacts
<1> HIDE DEF new
<1> DEFINE n == Len(x.kept)
           m == Len(new)
<1>8. /\ n \in Nat /\ m \in Nat /\ DOMAIN x.kept = 1 .. n /\ DOMAIN new = 1 .. m
      /\ sent' \in Seq(SentCmd) /\ DOMAIN sent' = 1 .. n + m
      /\ \A i \in 1 .. n : sent'[i] = x.kept[i]
      /\ \A i \in 1 .. m : n + i \in DOMAIN sent' /\ sent'[n + i] = new[i]
  <2> DEFINE a == x.kept
             c == a \o new
  <2>1. a \in Seq(SentCmd) /\ new \in Seq(SentCmd) /\ sent' = c
    BY <1>1, <1>3, <1>7
  <2> HIDE DEF a
  <2>2. /\ Len(a) \in Nat /\ m \in Nat /\ DOMAIN a = 1 .. Len(a) /\ DOMAIN new = 1 .. m
        /\ c \in Seq(SentCmd) /\ DOMAIN c = 1 .. Len(a) + m
        /\ \A i \in 1 .. Len(a) : c[i] = a[i]
        /\ \A i \in 1 .. m : Len(a) + i \in DOMAIN c /\ c[Len(a) + i] = new[i]
    BY <2>1, Joined
  <2> HIDE DEF c, m
  <2> QED BY <2>1, <2>2, Zenon DEF a
<1> HIDE DEF n, m
<1>9. ASSUME NEW i \in DOMAIN sent'
      PROVE  \/ i \in 1 .. n /\ sent'[i] = x.kept[i]
             \/ /\ i > n /\ \E k \in DOMAIN cs : /\ Resent(at, rto, cs[k], sent'[i])
                                                 /\ k \in DOMAIN new /\ sent'[i] = new[k]
  <2>1. CASE i \in 1 .. n
    BY <2>1, <1>8
  <2>2. CASE i > n
    <3>1. i - n \in 1 .. m /\ n + (i - n) = i
      BY <1>8, <1>9, <2>2
    <3>2. sent'[i] = new[i - n]
      BY <1>8, <3>1
    <3> QED BY <2>2, <3>1, <3>2, <1>7, <1>8
  <2> QED BY <1>8, <1>9, <2>1, <2>2
<1>10. \A i \in DOMAIN sent' : \/ \E k \in DOMAIN x.kept : sent'[i] = x.kept[k]
                               \/ \E k \in DOMAIN cs : Resent(at, rto, cs[k], sent'[i])
  BY <1>8, <1>9
<1>11. \A k \in DOMAIN x.kept : \E i \in DOMAIN sent' : sent'[i] = x.kept[k]
  <2> TAKE k \in DOMAIN x.kept
  <2>1. k \in DOMAIN sent' /\ sent'[k] = x.kept[k]
    BY <1>8
  <2> QED BY <2>1
<1>12. \A k \in DOMAIN x.moved : \E i \in DOMAIN sent' : Resent(at, rto, x.moved[k], sent'[i])
  <2> TAKE k \in DOMAIN x.moved
  <2>1. k \in DOMAIN cs /\ cs[k] = x.moved[k] /\ k \in 1 .. m
    BY <1>5, <1>7, <1>8
  <2>2. n + k \in DOMAIN sent' /\ sent'[n + k] = new[k]
    BY <1>8, <2>1
  <2> QED BY <2>1, <2>2, <1>7
<1>13. \A i \in 1 .. n : sent'[i].last \in Int /\ sent'[i].last <= elapsed
                         /\ \E z \in echoes : z.at = sent'[i].last
  <2> TAKE i \in 1 .. n
  <2>1. PICK j \in DOMAIN sent : x.kept[i] = sent[j]
    BY <1>3, <1>8
  <2> QED BY <2>1, <1>4, <1>8
<1>14. \A i \in DOMAIN sent' : sent'[i].last <= at /\ (i > n => sent'[i].last = at)
  <2> TAKE i \in DOMAIN sent'
  <2>1. CASE i \in 1 .. n
    BY <2>1, <1>0, <1>8, <1>13
  <2>2. CASE i > n
    <3>1. sent'[i].last = at
      BY <2>2, <1>8, <1>9 DEF Resent
    <3> QED BY <3>1, <1>0
  <2> QED BY <2>1, <2>2, <1>8
<1>15. InOrderOfSending(sent')
  <2> SUFFICES ASSUME NEW a \in DOMAIN sent', NEW b \in DOMAIN sent', a <= b
               PROVE  sent'[a].last <= sent'[b].last
    BY DEF InOrderOfSending
  <2>1. CASE b \in 1 .. n
    <3>1. a \in 1 .. n
      BY <2>1, <1>8
    <3> QED BY <2>1, <3>1, <1>3, <1>8 DEF InOrderOfSending
  <2>2. CASE b > n
    BY <2>2, <1>14
  <2> QED BY <2>1, <2>2, <1>8
<1>16. (sent' # <<>> => next' = Due(sent'[1])) /\ next' \in 0 .. TimeRange - 1
  <2>1. CASE x.kept # <<>>
    <3>1. 1 \in 1 .. n
      BY <2>1, <1>3, <1>8
    <3>2. next' = x.next
      BY <1>1, <2>1
    <3> QED BY <2>1, <3>1, <3>2, <1>3, <1>8
  <2>2. CASE x.kept = <<>> /\ new # <<>>
    <3>1. n = 0 /\ 1 \in 1 .. m
      BY <2>2, <1>7, <1>8 DEF n, m
    <3>2. sent'[1] = new[1] /\ new[1] \in SentCmd /\ 1 \in DOMAIN cs
      BY <3>1, <1>7, <1>8
    <3>3. new[1].last = at
      BY <3>2, <1>7 DEF Resent
    <3>4. new[1].sentTime = Clock(at)
      BY <3>2, <3>3, SentFacts
    <3>5. next' = Due(new[1])
      BY <1>1, <2>2, <3>4 DEF Due
    <3> QED BY <3>2, <3>5, DueType
  <2>3. CASE x.kept = <<>> /\ new = <<>>
    <3>1. sent' = <<>> /\ next' = x.next
      BY <1>1, <2>3
    <3> QED BY <3>1, <1>3
  <2> QED BY <2>1, <2>2, <2>3
<1>17. echoes \subseteq echoes'
  BY <1>1
<1>18. \A i \in DOMAIN sent' : \E z \in echoes' : z.at = sent'[i].last
  <2> TAKE i \in DOMAIN sent'
  <2>1. CASE i \in 1 .. n
    BY <2>1, <1>13, <1>17
  <2>2. CASE i > n
    <3>1. PICK k \in DOMAIN new : TRUE
      BY <2>2, <1>8, <1>9
    <3> DEFINE z == [id |-> new[k].id, low |-> Clock(at) % LowRange, at |-> at]
    <3>2. z \in echoes' /\ z.at = at
      BY <1>1, <3>1
    <3> QED BY <2>2, <3>2, <1>14
  <2> QED BY <2>1, <2>2, <1>8
<1> QED BY <1>5, <1>8, <1>10, <1>11, <1>12, <1>14, <1>15, <1>16, <1>17, <1>18
        DEF ServedList, x, at

LEMMA ServedTypes ==
    ASSUME IndInv, NEW d \in 1 .. MaxStep, NEW rto \in RoundTripTimeouts, NEW cs, Served(d, rto, cs)
    PROVE  Types' /\ Listed'
<1> DEFINE at == elapsed + d
           x == Found(at)
<1>0. /\ elapsed \in Nat /\ d \in Nat /\ at \in Nat /\ at \in Int /\ elapsed <= at
      /\ MaxElapsed \in Nat /\ received \in 0 .. TimeRange - 1
  BY TimeAssumption, Ranges DEF IndInv, Types
<1>1. ServedList(at, rto, cs, x)
  BY ServedFacts
<1>2. /\ state = "CONNECTED" /\ at <= MaxElapsed /\ elapsed' = at /\ out' = <<>>
      /\ earliest' = x.earliest /\ commands' \in Nat /\ state' = state /\ received' = received
  BY DEF Served
<1>3. x \in AccType
  BY <1>0, <1>2, FoundFacts DEF FoundAny
<1> HIDE DEF x, at
<1>4. x.earliest \in 0 .. TimeRange - 1
  BY <1>3 DEF AccType
<1>5. Types'
  BY <1>0, <1>1, <1>2, <1>4 DEF Types, ServedList
<1>6. Listed'
  BY <1>1, <1>2 DEF Listed, ServedList, InOrderOfSending, NextTimeoutExact
<1> QED BY <1>5, <1>6

LEMMA ServedEarly ==
    ASSUME IndInv, NEW d \in 1 .. MaxStep, NEW rto \in RoundTripTimeouts, NEW cs, Served(d, rto, cs)
    PROVE  EarlyInv'
<1> DEFINE at == elapsed + d
           x == Found(at)
<1>0. /\ at \in Int /\ elapsed <= at /\ sent \in Seq(SentCmd)
  BY TimeAssumption, Ranges DEF IndInv, Types
<1>1. ServedList(at, rto, cs, x)
  BY ServedFacts
<1>2. state = "CONNECTED" /\ elapsed' = at /\ earliest' = x.earliest
  BY DEF Served
<1>3. FoundAny(at, x)
  BY <1>0, <1>2, FoundFacts
<1> SUFFICES ASSUME x.earliest # 0
             PROVE  \E i \in DOMAIN sent' : sent'[i].first <= Back(at, x.earliest)
  BY <1>2 DEF EarlyInv
<1> HIDE DEF x, at
<1>4. PICK j \in DOMAIN sent : sent[j].first <= Back(at, x.earliest)
  BY <1>3 DEF FoundAny, WalkEarly
<1>5. sent[j] \in SentCmd /\ sent[j].first \in Int /\ 0 <= sent[j].first
  BY <1>0, SentFacts
<1>6. CASE \E k \in DOMAIN x.kept : x.kept[k] = sent[j]
  <2>1. PICK i \in DOMAIN sent' : sent'[i] = sent[j]
    BY <1>1, <1>6 DEF ServedList
  <2> QED BY <2>1, <1>4
<1>7. CASE \E k \in DOMAIN x.moved : x.moved[k] = Doubled(sent[j])
  <2>1. PICK i \in DOMAIN sent' : Resent(at, rto, Doubled(sent[j]), sent'[i])
    BY <1>1, <1>7 DEF ServedList
  <2>2. sent'[i].first = sent[j].first
    BY <2>1, <1>5, DoubledFacts DEF Resent
  <2> QED BY <2>2, <1>4
<1> QED BY <1>3, <1>6, <1>7 DEF FoundAny

LEMMA ServedSilence ==
    ASSUME IndInv, NEW d \in 1 .. MaxStep, NEW rto \in RoundTripTimeouts, NEW cs, Served(d, rto, cs)
    PROVE  SilenceInv'
<1> DEFINE at == elapsed + d
           x == Found(at)
<1>1. ServedList(at, rto, cs, x)
  BY ServedFacts
<1>2. state = "CONNECTED" /\ elapsed' = at /\ earliest' = x.earliest /\ received' = received /\ ~x.gone
      /\ state' = state
  BY DEF Served
<1>3. Types /\ Types'
  BY ServedTypes DEF IndInv
<1>0. /\ at \in Int /\ elapsed <= at /\ elapsed \in Int /\ sent \in Seq(SentCmd)
      /\ received \in 0 .. TimeRange - 1 /\ earliest \in 0 .. TimeRange - 1
      /\ TimeoutMaximum \in Nat /\ LongestTimeout \in Nat /\ LongestTimeout > 0
      /\ at + 1 \in Int /\ elapsed + 1 \in Int /\ elapsed + 1 <= at + 1
      /\ rto \in Nat /\ rto > 0 /\ rto <= LongestTimeout /\ at < at + 1
  <2>1. /\ TimeoutMaximum \in Nat /\ LongestTimeout \in Nat /\ LongestTimeout > 0
        /\ LongestRto \in Nat /\ LongestRto <= LongestTimeout
        /\ rto \in Nat /\ rto > 0 /\ rto <= LongestRto
    BY Timeouts
  <2>2. rto <= LongestTimeout
    BY <2>1
  <2>3. /\ at \in Int /\ elapsed <= at /\ elapsed \in Int /\ sent \in Seq(SentCmd)
        /\ received \in 0 .. TimeRange - 1 /\ earliest \in 0 .. TimeRange - 1
        /\ at + 1 \in Int /\ elapsed + 1 \in Int /\ elapsed + 1 <= at + 1 /\ at < at + 1
    BY <1>3, TimeAssumption DEF Types
  <2> QED BY <2>1, <2>2, <2>3
<1> SUFFICES ASSUME ClockFits, ZeroSkipped' PROVE Rescanned' /\ Counted' /\ Looked'
  BY DEF SilenceInv
<1>4. ZeroSkipped
  BY <1>1 DEF ZeroSkipped, ServedList
<1>5. FoundSilent(at, x)
  BY <1>2, <1>4, FoundInSilence
<1>6. FoundAny(at, x)
  BY <1>0, <1>2, FoundFacts
<1>7. earliest # 0 => Back(at, earliest) = Back(elapsed, earliest)
  BY <1>2, <1>4, StartOfSilence
<1>8. Rescanned /\ Counted /\ Looked
  BY <1>2, <1>4 DEF IndInv, SilenceInv
<1>9. LastAck \in Int /\ LastAck' \in Int /\ LastAck <= LastAck'
  <2>1. LastAck = Back(elapsed + 1, received)
    <3>1. elapsed \in Nat
      BY <1>3, TimeAssumption DEF Types
    <3>2. LastAck = elapsed + 1 - ((Clock(elapsed) + 1 - received) % TimeRange)
      BY DEF LastAck, Now, Clock
    <3> QED BY <3>1, <3>2, <1>0, LastAckBack
  <2>2. LastAck' = Back(at + 1, received)
    <3>1. at \in Nat
      BY <1>3, TimeAssumption DEF Types
    <3>2. LastAck' = at + 1 - ((Clock(at) + 1 - received) % TimeRange)
      BY <1>2 DEF LastAck, Now, Clock
    <3> QED BY <3>1, <3>2, <1>0, LastAckBack
  <2>3. Back(elapsed + 1, received) <= Back(at + 1, received)
    BY <1>0, BackLater
  <2>4. Back(elapsed + 1, received) \in Int /\ Back(at + 1, received) \in Int
    BY <1>0, BackFacts
  <2> QED BY <2>1, <2>2, <2>3, <2>4
<1> HIDE DEF x, at
<1>10. x.earliest \in 0 .. TimeRange - 1 /\ Back(at, x.earliest) \in Int
       /\ Back(at, earliest) \in Int
  <2>1. x.earliest \in 0 .. TimeRange - 1
    BY <1>6 DEF FoundAny, AccType
  <2> QED BY <2>1, <1>0, BackFacts
<1>11. \A j \in DOMAIN sent : /\ sent[j] \in SentCmd /\ sent[j].last \in Int /\ sent[j].first \in Int
                              /\ 0 <= sent[j].first /\ sent[j].first <= sent[j].last
                              /\ sent[j].rto \in Nat /\ sent[j].rto > 0
  BY <1>0, SentFacts
\* Every command of the new list stayed, was sent again or is new.
<1>12. ASSUME NEW i \in DOMAIN sent'
       PROVE  \/ \E j \in DOMAIN sent : /\ sent'[i] = sent[j]
                                        /\ at - sent[j].last < LongestTimeout
              \/ \E j \in DOMAIN sent :
                    /\ sent'[i].last = at /\ sent'[i].first = sent[j].first
                    /\ sent'[i].rto <= LongestTimeout
                    /\ x.earliest # 0 /\ Back(at, x.earliest) <= sent[j].last
                    /\ at - Back(at, x.earliest) < TimeoutMaximum
              \/ sent'[i].last = at /\ sent'[i].first = at /\ sent'[i].rto <= LongestTimeout
  <2>1. CASE \E k \in DOMAIN x.kept : sent'[i] = x.kept[k]
    <3>1. PICK k \in DOMAIN x.kept : sent'[i] = x.kept[k]
      BY <2>1
    <3>2. PICK j \in DOMAIN sent : x.kept[k] = sent[j]
      BY <1>6 DEF FoundAny
    <3>3. at - x.kept[k].last < LongestTimeout
      BY <1>5 DEF FoundSilent
    <3> QED BY <3>1, <3>2, <3>3
  <2>2. CASE \E k \in DOMAIN cs : Resent(at, rto, cs[k], sent'[i])
    <3>1. PICK k \in DOMAIN cs : Resent(at, rto, cs[k], sent'[i])
      BY <2>2
    <3>2. CASE \E m \in DOMAIN x.moved : cs[k] = x.moved[m]
      <4>1. PICK m \in DOMAIN x.moved : cs[k] = x.moved[m]
        BY <3>2
      <4>2. PICK j \in DOMAIN sent : x.moved[m] = Doubled(sent[j])
        BY <1>6 DEF FoundAny
      <4>3. x.moved[m].first = sent[j].first /\ x.moved[m].last = sent[j].last
            /\ x.moved[m].rto = 2 * sent[j].rto
        BY <4>2, <1>11, DoubledFacts
      <4>4. x.moved[m].rto # 0 /\ ~(x.moved[m].first < 0)
        BY <4>3, <1>11
      <4>5. sent'[i].last = at /\ sent'[i].first = sent[j].first /\ sent'[i].rto = x.moved[m].rto
        BY <3>1, <4>1, <4>3, <4>4 DEF Resent
      <4>6. x.moved[m].rto <= LongestTimeout
        BY <1>5 DEF FoundSilent
      <4>7. x.earliest # 0 /\ Back(at, x.earliest) <= x.moved[m].last
            /\ at - Back(at, x.earliest) < TimeoutMaximum
        BY <1>2, <1>5 DEF FoundSilent, WalkSilent, x, at
      <4> QED BY <4>3, <4>5, <4>6, <4>7
    <3>3. CASE cs[k] \in NewCmd
      <4>1. cs[k].rto = 0 /\ cs[k].first < 0
        BY <3>3 DEF NewCmd
      <4> QED BY <3>1, <4>1, <1>0 DEF Resent
    <3> QED BY <1>1, <3>2, <3>3 DEF ServedList
  <2> QED BY <1>1, <1>12, <2>1, <2>2 DEF ServedList
<1>13. ASSUME NEW i \in DOMAIN sent'
       PROVE  sent'[i].rto <= LongestTimeout /\ at - sent'[i].last < LongestTimeout
  <2>1. CASE \E j \in DOMAIN sent : sent'[i] = sent[j] /\ at - sent[j].last < LongestTimeout
    BY <2>1, <1>8 DEF Rescanned
  <2>2. CASE sent'[i].last = at /\ sent'[i].rto <= LongestTimeout
    BY <2>2, <1>0
  <2> QED BY <1>12, <1>13, <2>1, <2>2
<1>14. earliest # 0 => x.earliest # 0 /\ Back(at, x.earliest) <= Back(elapsed, earliest)
  BY <1>5, <1>7 DEF FoundSilent, WalkSilent
<1>15. ASSUME NEW i \in DOMAIN sent', sent'[i].first >= LastAck', sent'[i].first # sent'[i].last
       PROVE  /\ x.earliest # 0
              /\ Back(at, x.earliest) <= sent'[i].first
              /\ sent'[i].last - sent'[i].first < TimeoutMaximum
  <2>1. ASSUME NEW j \in DOMAIN sent, sent'[i].first = sent[j].first, sent[j].first # sent[j].last
        PROVE  /\ x.earliest # 0
               /\ Back(at, x.earliest) <= sent[j].first
               /\ sent[j].last - sent[j].first < TimeoutMaximum
    <3>1. sent[j].first >= LastAck
      BY <1>9, <1>11, <1>15, <2>1
    <3>2. earliest # 0 /\ Back(elapsed, earliest) <= sent[j].first
          /\ sent[j].last - sent[j].first < TimeoutMaximum
      BY <1>8, <2>1, <3>1 DEF Counted
    <3>3. Back(elapsed, earliest) \in Int
      BY <1>0, BackFacts
    <3> QED BY <3>2, <3>3, <1>10, <1>11, <1>14
  <2>2. CASE \E j \in DOMAIN sent : sent'[i] = sent[j]
    BY <2>1, <2>2, <1>15
  <2>3. CASE \E j \in DOMAIN sent :
                    /\ sent'[i].last = at /\ sent'[i].first = sent[j].first
                    /\ x.earliest # 0 /\ Back(at, x.earliest) <= sent[j].last
                    /\ at - Back(at, x.earliest) < TimeoutMaximum
    <3>1. PICK j \in DOMAIN sent :
                    /\ sent'[i].last = at /\ sent'[i].first = sent[j].first
                    /\ x.earliest # 0 /\ Back(at, x.earliest) <= sent[j].last
                    /\ at - Back(at, x.earliest) < TimeoutMaximum
      BY <2>3
    <3>2. Back(at, x.earliest) <= sent[j].first
      <4>1. CASE sent[j].first = sent[j].last
        BY <3>1, <4>1
      <4>2. CASE sent[j].first # sent[j].last
        BY <3>1, <4>2, <2>1
      <4> QED BY <4>1, <4>2
    <3>3. at \in Int /\ TimeoutMaximum \in Int /\ sent[j].first \in Int
          /\ Back(at, x.earliest) \in Int
      BY <1>0, <1>10, <1>11
    <3>4. at - sent[j].first < TimeoutMaximum
      BY <3>1, <3>2, <3>3
    <3> QED BY <3>1, <3>2, <3>4
  <2> QED BY <1>12, <1>15, <2>2, <2>3
<1>16. ASSUME x.earliest # 0
       PROVE  \E i \in DOMAIN sent' : /\ Back(at, x.earliest) <= sent'[i].last
                                      /\ sent'[i].last - Back(at, x.earliest) < TimeoutMaximum
  <2>1. x.moved \in Seq(SentCmd)
    BY <1>6 DEF FoundAny, AccType
  <2>2. CASE x.moved # <<>>
    <3>1. 1 \in DOMAIN x.moved
      BY <2>1, <2>2
    <3>2. at - Back(at, x.earliest) < TimeoutMaximum
      BY <1>2, <1>5, <3>1 DEF FoundSilent, WalkSilent, x, at
    <3>3. PICK i \in DOMAIN sent' : Resent(at, rto, x.moved[1], sent'[i])
      BY <1>1, <3>1 DEF ServedList
    <3>4. sent'[i].last = at
      BY <3>3 DEF Resent
    <3>5. Back(at, x.earliest) <= at
      BY <1>0, <1>10, BackFacts
    <3> QED BY <3>2, <3>4, <3>5
  <2>3. CASE x.moved = <<>>
    <3>1. x.earliest = earliest /\ DOMAIN x.moved = {}
      BY <2>3, <1>5 DEF FoundSilent, WalkSilent
    <3>2. PICK j \in DOMAIN sent : /\ Back(elapsed, earliest) <= sent[j].last
                                   /\ sent[j].last - Back(elapsed, earliest) < TimeoutMaximum
      BY <1>8, <1>16, <3>1 DEF Looked
    <3>3. PICK k \in DOMAIN x.kept : x.kept[k] = sent[j]
      BY <1>6, <3>1 DEF FoundAny
    <3>4. PICK i \in DOMAIN sent' : sent'[i] = sent[j]
      BY <1>1, <3>3 DEF ServedList
    <3> QED BY <3>1, <3>2, <3>4, <1>7, <1>16
  <2> QED BY <2>2, <2>3
<1>17. Rescanned'
  BY <1>2, <1>13 DEF Rescanned
<1>18. Counted'
  BY <1>2, <1>15 DEF Counted
<1>19. Looked'
  BY <1>2, <1>16 DEF Looked
<1> QED BY <1>17, <1>18, <1>19

LEMMA ServiceKeeps ==
    ASSUME IndInv, NEW d \in 1 .. MaxStep, NEW rto \in RoundTripTimeouts, Service(d, rto)
    PROVE  IndInv'
<1>1. CASE \E cs : Served(d, rto, cs)
  BY <1>1, ServedTypes, ServedEarly, ServedSilence DEF IndInv
<1>2. CASE Ended(d)
  <2>1. /\ elapsed' = elapsed + d /\ elapsed + d <= MaxElapsed /\ state' = "DISCONNECTED"
        /\ UNCHANGED <<out, sent, next, earliest, received, echoes, commands>>
    BY <1>2 DEF Ended
  <2>2. elapsed \in Nat /\ d \in Nat /\ MaxElapsed \in Nat /\ sent \in Seq(SentCmd)
    BY TimeAssumption DEF IndInv, Types
  <2>3. elapsed' \in 0 .. MaxElapsed /\ elapsed <= elapsed' /\ elapsed' \in Int
    BY <2>1, <2>2
  <2>4. Types'
    BY <2>1, <2>3 DEF IndInv, Types
  <2>5. Listed'
    <3>1. \A i \in DOMAIN sent : sent[i].last <= elapsed'
      <4> TAKE i \in DOMAIN sent
      <4>1. sent[i].last \in Int /\ sent[i].last <= elapsed
        BY <2>2, SentFacts DEF IndInv, Listed
      <4> QED BY <4>1, <2>2, <2>3
    <3> QED BY <2>1, <3>1 DEF IndInv, Listed, NextTimeoutExact
  <2> QED BY <2>1, <2>4, <2>5 DEF IndInv, EarlyInv, SilenceInv
<1> QED BY <1>1, <1>2, ServiceCases
-----------------------------------------------------------------------------
(* Acknowledgements and new commands.                                      *)

LEMMA RemoveFacts ==
    ASSUME NEW s \in Seq(SentCmd), NEW i \in DOMAIN s
    PROVE  LET w == RemoveAt(s, i)
           IN  /\ w \in Seq(SentCmd)
               /\ \A k \in DOMAIN w : \E j \in DOMAIN s : w[k] = s[j]
               /\ InOrderOfSending(s) => InOrderOfSending(w)
<1> DEFINE n == Len(s)
           a == SubSeq(s, 1, i - 1)
           b == SubSeq(s, i + 1, n)
           w == a \o b
<1>1. n \in Nat /\ i \in 1 .. n /\ DOMAIN s = 1 .. n
  OBVIOUS
<1>2. a \in Seq(SentCmd) /\ Len(a) = i - 1 /\ \A k \in 1 .. i - 1 : a[k] = s[k]
  BY <1>1
<1>3. b \in Seq(SentCmd) /\ Len(b) = n - i /\ \A k \in 1 .. n - i : b[k] = s[i + k]
  <2>1. b \in Seq(SentCmd)
    BY <1>1
  <2>2. Len(b) = n - i
    BY <1>1
  <2>3. \A k \in 1 .. n - i : b[k] = s[i + k]
    BY <1>1
  <2> QED BY <2>1, <2>2, <2>3
<1>4. RemoveAt(s, i) = w
  BY DEF RemoveAt
<1> HIDE DEF a, b
<1>5. /\ w \in Seq(SentCmd) /\ DOMAIN w = 1 .. (i - 1) + (n - i)
      /\ \A k \in 1 .. i - 1 : w[k] = a[k]
      /\ \A k \in 1 .. n - i : w[(i - 1) + k] = b[k]
  <2>1. /\ w \in Seq(SentCmd) /\ DOMAIN w = 1 .. Len(a) + Len(b)
        /\ \A k \in 1 .. Len(a) : w[k] = a[k]
        /\ \A k \in 1 .. Len(b) : w[Len(a) + k] = b[k]
    <3>1. a \in Seq(SentCmd) /\ b \in Seq(SentCmd)
      BY <1>2, <1>3
    <3>2. /\ a \o b \in Seq(SentCmd) /\ DOMAIN (a \o b) = 1 .. Len(a) + Len(b)
          /\ \A k \in 1 .. Len(a) : (a \o b)[k] = a[k]
          /\ \A k \in 1 .. Len(b) : (a \o b)[Len(a) + k] = b[k]
      BY ONLY <3>1, Joined, SMTT(30)
    <3> QED BY ONLY <3>2
  <2>2. Len(a) = i - 1 /\ Len(b) = n - i
    BY <1>2, <1>3
  <2> HIDE DEF w, n
  <2> QED BY <2>1, <2>2, Zenon
<1> HIDE DEF w, n
<1>6. DOMAIN w = 1 .. n - 1
  BY <1>1, <1>5
<1>7. ASSUME NEW k \in DOMAIN w
      PROVE  LET j == IF k < i THEN k ELSE k + 1
             IN  j \in DOMAIN s /\ w[k] = s[j]
  <2>1. CASE k < i
    <3>1. k \in 1 .. i - 1 /\ k \in DOMAIN s
      BY <1>1, <1>6, <2>1
    <3> QED BY <2>1, <3>1, <1>2, <1>5
  <2>2. CASE ~(k < i)
    <3> DEFINE q == k - i + 1
    <3>1. q \in 1 .. n - i /\ (i - 1) + q = k /\ i + q = k + 1 /\ k + 1 \in DOMAIN s
      BY <1>1, <1>6, <2>2
    <3> HIDE DEF q
    <3>2. w[(i - 1) + q] = b[q] /\ b[q] = s[i + q]
      BY <3>1, <1>3, <1>5
    <3> QED BY <2>2, <3>1, <3>2
  <2> QED BY <2>1, <2>2
<1>8. InOrderOfSending(s) => InOrderOfSending(w)
  <2> SUFFICES ASSUME InOrderOfSending(s), NEW k \in DOMAIN w, NEW l \in DOMAIN w, k <= l
               PROVE  w[k].last <= w[l].last
    BY DEF InOrderOfSending
  <2> DEFINE p == IF k < i THEN k ELSE k + 1
             q == IF l < i THEN l ELSE l + 1
  <2>1. p \in DOMAIN s /\ q \in DOMAIN s /\ w[k] = s[p] /\ w[l] = s[q]
    BY <1>7
  <2>2. p <= q
    BY <1>1, <1>6
  <2> HIDE DEF p, q
  <2> QED BY <2>1, <2>2 DEF InOrderOfSending
<1>9. \A k \in DOMAIN w : \E j \in DOMAIN s : w[k] = s[j]
  BY <1>7
<1> QED BY <1>4, <1>5, <1>8, <1>9

LEMMA UnsendFacts ==
    ASSUME IndInv, state = "CONNECTED", NEW id, Unsend(id)
    PROVE  /\ out' = out /\ sent' \in Seq(SentCmd) /\ InOrderOfSending(sent')
           /\ \A k \in DOMAIN sent' : \E j \in DOMAIN sent : sent'[k] = sent[j]
           /\ sent' # <<>> => next' = Due(sent'[1])
           /\ next' \in 0 .. TimeRange - 1
<1> DEFINE under == {i \in DOMAIN sent : sent[i].id = id}
           again == {i \in DOMAIN out : out[i].id = id /\ out[i].attempts > 0}
<1>0. /\ sent \in Seq(SentCmd) /\ out \in Seq(NewCmd) /\ next \in 0 .. TimeRange - 1
      /\ InOrderOfSending(sent) /\ (sent # <<>> => next = Due(sent[1]))
  BY DEF IndInv, Types, Listed, InOrderOfSending, NextTimeoutExact
<1>1. again = {}
  <2>1. \A i \in DOMAIN out : out[i] \in NewCmd
    BY <1>0
  <2> QED BY <2>1 DEF NewCmd
<1>2. /\ sent' = Without(sent, under)
      /\ out' = IF under = {} THEN Without(out, again) ELSE out
      /\ next' = IF under \cup again # {} /\ sent' # <<>> THEN Due(sent'[1]) ELSE next
  BY DEF Unsend
<1>3. out' = out
  BY <1>1, <1>2 DEF Without
<1>4. CASE under = {}
  <2>1. sent' = sent /\ next' = next
    BY <1>1, <1>2, <1>4 DEF Without
  <2> QED BY <1>0, <1>3, <2>1
<1>5. CASE under # {}
  <2> DEFINE i == CHOOSE k \in under : TRUE
  <2>1. i \in under
    BY <1>5
  <2>2. i \in DOMAIN sent
    BY <2>1
  <2>3. sent' = RemoveAt(sent, i)
    BY <1>2, <1>5 DEF Without
  <2> HIDE DEF i
  <2>4. /\ sent' \in Seq(SentCmd) /\ InOrderOfSending(sent')
        /\ \A k \in DOMAIN sent' : \E j \in DOMAIN sent : sent'[k] = sent[j]
    BY <1>0, <2>2, <2>3, RemoveFacts
  <2>5. sent' # <<>> => next' = Due(sent'[1])
    BY <1>2, <1>5
  <2>6. next' \in 0 .. TimeRange - 1
    <3>1. CASE sent' = <<>>
      BY <3>1, <1>0, <1>2
    <3>2. CASE sent' # <<>>
      <4>1. sent'[1] \in SentCmd
        BY <2>4, <3>2
      <4> QED BY <3>2, <4>1, <2>5, DueType
    <3> QED BY <3>1, <3>2
  <2> QED BY <1>3, <2>4, <2>5, <2>6
<1> QED BY <1>4, <1>5

LEMMA AcknowledgeKeeps ==
    ASSUME IndInv, NEW x, Acknowledge(x)
    PROVE  IndInv'
<1>1. /\ state = "CONNECTED" /\ received' = (IF Now > 1 THEN Now ELSE 1) /\ earliest' = 0
      /\ Unsend(x.id) /\ elapsed' = elapsed /\ state' = state /\ echoes' = echoes
      /\ commands' = commands
  BY DEF Acknowledge
<1>2. /\ out' = out /\ sent' \in Seq(SentCmd) /\ InOrderOfSending(sent')
      /\ \A k \in DOMAIN sent' : \E j \in DOMAIN sent : sent'[k] = sent[j]
      /\ sent' # <<>> => next' = Due(sent'[1])
      /\ next' \in 0 .. TimeRange - 1
  BY <1>1, UnsendFacts
<1>3. elapsed \in Nat /\ elapsed \in Int /\ elapsed + 1 \in Int /\ sent \in Seq(SentCmd)
      /\ TimeRange \in Nat /\ TimeRange > 2
  BY TimeAssumption DEF IndInv, Types
<1>4. Now = Clock(elapsed) /\ Now \in 0 .. TimeRange - 1 /\ Now \in Int
  BY <1>3, ClockType DEF Now, Clock
<1>5. received' \in 0 .. TimeRange - 1 /\ 0 \in 0 .. TimeRange - 1
  BY <1>1, <1>3, <1>4
<1>6. Types'
  BY <1>1, <1>2, <1>5 DEF IndInv, Types
<1>7. Listed'
  BY <1>1, <1>2 DEF IndInv, Listed, InOrderOfSending, NextTimeoutExact
<1>8. EarlyInv'
  BY <1>1 DEF EarlyInv
<1>9. LastAck' \in Int /\ LastAck' >= elapsed
  <2>1. LastAck' = elapsed + 1 - ((Clock(elapsed) + 1 - received') % TimeRange)
    BY <1>1 DEF LastAck, Now, Clock
  <2>2. LastAck' = Back(elapsed + 1, received')
    BY <1>3, <1>5, <2>1, LastAckBack
  <2>3. Back(elapsed + 1, received') \in Int
    BY <1>3, <1>5, BackFacts
  <2>4. CASE received' = Clock(elapsed)
    <3>1. elapsed <= elapsed + 1
      BY <1>3
    <3>2. elapsed <= Back(elapsed + 1, Clock(elapsed))
      BY <1>3, <3>1, BackClock
    <3> QED BY <2>2, <2>3, <2>4, <3>2, <1>3
  <2>5. CASE received' = Clock(elapsed + 1)
    <3>1. elapsed + 1 <= Back(elapsed + 1, Clock(elapsed + 1))
      BY <1>3, BackClock
    <3> QED BY <2>2, <2>3, <2>5, <3>1, <1>3
  <2>6. received' = Clock(elapsed) \/ received' = Clock(elapsed + 1)
    <3>1. CASE Now > 1
      BY <3>1, <1>1, <1>4
    <3>2. CASE Now = 1
      BY <3>2, <1>1, <1>4
    <3>3. CASE Now = 0
      <4> DEFINE p == (Start + elapsed) \div TimeRange
      <4>1. p \in Int /\ Start + elapsed = TimeRange * p + Clock(elapsed) /\ Start \in Int
        BY <1>3, Ranges, Division DEF Clock
      <4> HIDE DEF p
      <4>2. TimeRange * p \in Int
        BY <4>1, <1>3
      <4>3. Start + (elapsed + 1) = TimeRange * p + 1 /\ 1 \in 0 .. TimeRange - 1
        BY <4>1, <4>2, <3>3, <1>3, <1>4
      <4>4. (Start + (elapsed + 1)) % TimeRange = 1
        BY <4>1, <4>3, <1>3, Ranges, RemainderUnique, Start + (elapsed + 1) \in Int
      <4> QED BY <4>4, <3>3, <1>1 DEF Clock
    <3> QED BY <3>1, <3>2, <3>3, <1>3, <1>4
  <2> QED BY <2>4, <2>5, <2>6
<1>10. SilenceInv'
  <2> SUFFICES ASSUME ClockFits, ZeroSkipped' PROVE Rescanned' /\ Counted' /\ Looked'
    BY DEF SilenceInv
  <2>1. Rescanned
    BY <1>1 DEF IndInv, SilenceInv, ZeroSkipped
  <2>2. Rescanned'
    BY <1>1, <1>2, <2>1 DEF Rescanned
  <2>3. ASSUME NEW i \in DOMAIN sent', sent'[i].first >= LastAck'
        PROVE  sent'[i].first = sent'[i].last
    <3>1. PICK j \in DOMAIN sent : sent'[i] = sent[j]
      BY <1>2
    <3>2. sent[j].last <= elapsed /\ sent[j].last \in Int /\ sent[j].first \in Int
          /\ sent[j].first <= sent[j].last
      BY <1>3, SentFacts DEF IndInv, Listed
    <3> QED BY <3>1, <3>2, <2>3, <1>3, <1>9
  <2>4. Counted'
    BY <2>3 DEF Counted
  <2>5. Looked'
    BY <1>1 DEF Looked
  <2> QED BY <2>2, <2>4, <2>5
<1> QED BY <1>6, <1>7, <1>8, <1>10 DEF IndInv

LEMMA QueueKeeps ==
    ASSUME IndInv, Queue
    PROVE  IndInv'
<1>1. /\ out' = Append(out, Command(commands)) /\ commands' = commands + 1
      /\ UNCHANGED <<elapsed, state, sent, next, earliest, received, echoes>>
  BY DEF Queue
<1>2. out \in Seq(NewCmd) /\ commands \in Nat
  BY DEF IndInv, Types
<1>3. out' \in Seq(NewCmd) /\ commands' \in Nat
  BY <1>1, <1>2, CommandIsNew
<1>4. Types'
  BY <1>1, <1>3 DEF IndInv, Types
<1>5. Listed' /\ EarlyInv'
  BY <1>1 DEF IndInv, Listed, EarlyInv, NextTimeoutExact
<1>6. SilenceInv'
  BY <1>1 DEF IndInv, SilenceInv, ZeroSkipped, Rescanned, Counted, Looked, LastAck, Now
<1> QED BY <1>4, <1>5, <1>6 DEF IndInv

LEMMA TimersInit == Init => IndInv
<1> SUFFICES ASSUME Init PROVE IndInv
  OBVIOUS
<1>1. /\ elapsed = 0 /\ state = "CONNECTED" /\ out = <<>> /\ sent = <<>> /\ next = 0 /\ earliest = 0
      /\ received = (IF Start > 1 THEN Start ELSE 1) /\ echoes = {} /\ commands = 0
  BY DEF Init
<1>2. 0 \in 0 .. MaxElapsed /\ 0 \in 0 .. TimeRange - 1 /\ received \in 0 .. TimeRange - 1
  BY <1>1, TimeAssumption
<1>3. Types
  BY <1>1, <1>2 DEF Types
<1>4. DOMAIN sent = {}
  BY <1>1
<1> QED BY <1>1, <1>3, <1>4
        DEF IndInv, Listed, EarlyInv, SilenceInv, Rescanned, Counted, Looked, NextTimeoutExact

LEMMA TimersNext == IndInv /\ [Next]_vars => IndInv'
<1> SUFFICES ASSUME IndInv, [Next]_vars PROVE IndInv'
  OBVIOUS
<1>1. CASE Queue
  BY <1>1, QueueKeeps
<1>2. CASE \E d \in 1 .. MaxStep, rto \in RoundTripTimeouts : Service(d, rto)
  BY <1>2, ServiceKeeps
<1>3. CASE \E x \in echoes : Acknowledge(x)
  BY <1>3, AcknowledgeKeeps
<1>4. CASE UNCHANGED vars
  BY <1>4 DEF vars, IndInv, Types, Listed, EarlyInv, SilenceInv, ZeroSkipped, Rescanned, Counted,
              Looked, LastAck, Now, NextTimeoutExact
<1> QED BY <1>1, <1>2, <1>3, <1>4 DEF Next
-----------------------------------------------------------------------------
(* The theorems.                                                           *)

\* The invariant that relates the list of sent commands, the cached timeouts
\* and the time of the last acknowledgement holds in every state.
THEOREM TimersInvariant == Spec => []IndInv
<1>1. Init => IndInv
  BY TimersInit
<1>2. IndInv /\ [Next]_vars => IndInv'
  BY TimersNext
<1> QED BY <1>1, <1>2, PTL DEF Spec

LEMMA TimersRead == IndInv /\ EchoInv => TimersExact
<1> SUFFICES ASSUME IndInv, EchoInv PROVE TimersExact
  OBVIOUS
<1>1. /\ elapsed \in 0 .. MaxElapsed /\ state \in {"CONNECTED", "DISCONNECTED"}
      /\ next \in 0 .. TimeRange - 1 /\ earliest \in 0 .. TimeRange - 1
      /\ received \in 0 .. TimeRange - 1 /\ sent \in Seq(SentCmd) /\ NextTimeoutExact
  BY DEF IndInv, Types, Listed
<1>2. \A c \in Range(sent) : c.attempts > 0 /\ c.rto > 0 /\ c.sentTime \in 0 .. TimeRange - 1
  <2> TAKE c \in Range(sent)
  <2>1. c \in SentCmd
    BY <1>1 DEF Range
  <2> QED BY <2>1, SentFacts
<1>3. \A x \in echoes : x.at \in 0 .. elapsed /\ x.low \in 0 .. LowRange - 1
  <2> TAKE x \in echoes
  <2>1. /\ elapsed \in Nat /\ x.at \in Nat /\ x.at <= elapsed
        /\ x.low = ((Start + x.at) % TimeRange) % LowRange
    BY DEF EchoInv
  <2>2. Clock(x.at) \in Int /\ x.low = Clock(x.at) % LowRange
    BY <2>1, ClockType DEF Clock
  <2>3. LowRange \in Nat \ {0}
    BY Ranges
  <2>4. x.low \in 0 .. LowRange - 1
    BY <2>2, <2>3, Division
  <2> QED BY <2>1, <2>4
<1>4. TypeOK
  BY <1>1, <1>2, <1>3 DEF TypeOK
<1> QED BY <1>1, <1>4 DEF TimersExact

\* nextTimeout is always the timeout of the first command of
\* sentReliableCommands, whatever was acknowledged, moved by
\* enet_protocol_check_timeouts or sent again, and the times are clock values.
THEOREM TimersStayExact == Spec => []TimersExact
<1>1. Init => EchoInv
  BY EchoInit
<1>2. EchoInv /\ [Next]_vars => EchoInv'
  BY EchoNext
<1>3. IndInv /\ EchoInv => TimersExact
  BY TimersRead
<1> QED BY <1>1, <1>2, <1>3, TimersInvariant, PTL DEF Spec

LEMMA SilenceRead == ClockFits => (IndInv => SilenceEnds)
<1> SUFFICES ASSUME ClockFits, IndInv, state = "CONNECTED", ZeroSkipped,
                    NEW c \in Outstanding, c.first >= LastAck
             PROVE  elapsed - c.first < Bound
  BY DEF SilenceEnds
<1>1. sent \in Seq(SentCmd) /\ out \in Seq(NewCmd) /\ elapsed \in Int
  BY TimeAssumption DEF IndInv, Types
<1>2. \A i \in DOMAIN out : out[i].attempts = 0
  <2> TAKE i \in DOMAIN out
  <2>1. out[i] \in NewCmd
    BY <1>1
  <2> QED BY <2>1 DEF NewCmd
<1>3. PICK i \in DOMAIN sent : c = sent[i]
  BY <1>2 DEF Outstanding, Range
<1>4. c.first \in Int /\ c.last \in Int /\ c.first <= c.last
  BY <1>1, <1>3, SentFacts
<1>5. elapsed - c.last < LongestTimeout /\ (c.first # c.last => c.last - c.first < TimeoutMaximum)
  BY <1>3 DEF IndInv, SilenceInv, Rescanned, Counted
<1>6. LongestTimeout \in Nat /\ TimeoutMaximum \in Nat
  BY Timeouts
<1> QED BY <1>1, <1>4, <1>5, <1>6 DEF Bound

\* If the clock can tell the times apart, a peer that acknowledges nothing any
\* more is given up by enet_protocol_check_timeouts in bounded time, although
\* it looks at the list only when the first timeout of it runs out.
THEOREM SilenceIsNoticed == ClockFits => (Spec => []SilenceEnds)
<1> SUFFICES ASSUME ClockFits PROVE Spec => []SilenceEnds
  OBVIOUS
<1>1. IndInv => SilenceEnds
  BY SilenceRead
<1> QED BY <1>1, TimersInvariant, PTL

TooEarlyStep ==
    state' = "DISCONNECTED" => \E c \in Outstanding : elapsed' - c.first >= TimeoutMinimum

LEMMA EarlyRead == MinimumFits => (IndInv /\ [Next]_vars => [TooEarlyStep]_vars)
<1> SUFFICES ASSUME MinimumFits, IndInv, Next, state' = "DISCONNECTED"
             PROVE  \E c \in Outstanding : elapsed' - c.first >= TimeoutMinimum
  BY DEF TooEarlyStep
<1>1. CASE Queue
  BY <1>1 DEF Queue
<1>2. CASE \E x \in echoes : Acknowledge(x)
  BY <1>2 DEF Acknowledge
<1>3. CASE \E d \in 1 .. MaxStep, rto \in RoundTripTimeouts : Service(d, rto)
  <2>1. PICK d \in 1 .. MaxStep, rto \in RoundTripTimeouts : Service(d, rto)
    BY <1>3
  <2>2. Ended(d)
    <3>1. ~(\E cs : Served(d, rto, cs))
      BY DEF Served
    <3> QED BY <2>1, <3>1, ServiceCases
  <2> DEFINE at == elapsed + d
  <2>3. state = "CONNECTED" /\ elapsed' = at /\ Found(at).gone
    BY <2>2 DEF Ended
  <2>4. at \in Int /\ elapsed <= at
    BY TimeAssumption DEF IndInv, Types
  <2>5. WalkEarly(at, sent, Found(at))
    BY <2>3, <2>4, FoundFacts DEF FoundAny
  <2>6. PICK j \in DOMAIN sent : at - sent[j].first >= TimeoutMinimum
    BY <2>3, <2>5 DEF WalkEarly
  <2>7. sent[j] \in Outstanding
    BY DEF Outstanding, Range
  <2> QED BY <2>3, <2>6, <2>7
<1> QED BY <1>1, <1>2, <1>3 DEF Next

\* A peer is given up only if some command that is not acknowledged was first
\* sent the minimum timeout ago, however often the clock and earliestTimeout
\* wrapped or were reset in between.
THEOREM NotGivenUpEarly == MinimumFits => (Spec => NotTooEarly)
<1> SUFFICES ASSUME MinimumFits PROVE Spec => NotTooEarly
  OBVIOUS
<1>1. IndInv /\ [Next]_vars => [TooEarlyStep]_vars
  BY EarlyRead
<1>2. Spec => [][TooEarlyStep]_vars
  BY <1>1, TimersInvariant, PTL DEF Spec
<1> QED BY <1>2 DEF NotTooEarly, TooEarlyStep
----------------------------------------------------------------------------
(* The rates of a host: OriginalFlow.                                       *)

FlowPeer ==
    [state : {"DISCONNECTED", "CONNECTING", "ACKNOWLEDGING_CONNECT", "CONNECTED"},
     in : PeerIn \cup {0}, out : PeerOut \cup {0}, window : MinWindow .. MaxWindow,
     total : 0 .. MaxTotal, throttle : 0 .. Scale, limit : 0 .. Scale,
     counter : 0 .. Scale - 1, rtt : Nat, var : Nat, lowest : Nat, highest : Nat,
     lastRtt : Nat, lastVar : Nat, hist : Seq(Nat), told : Int]

\* The handshake leaves room for its commands and announces nothing before.
Handshake(q) ==
    /\ q.state # "CONNECTED" => q.told = -1 /\ q.total <= CommandSize
    /\ q.state \in {"DISCONNECTED", "CONNECTING"} => q.in = 0
    /\ q.state = "DISCONNECTED" => q.total = 0

WindowOf(q) == q.in # 0 => q.window <= Clamp(Scaled(q.in))

\* The round trips measured have a shortest and a longest, between which the
\* mean is; the variance is not above the longest.
Trips(q) ==
    q.hist # <<>> =>
        /\ q.lowest <= q.rtt /\ q.highest >= q.var
        /\ \E lo, hi \in Range(q.hist) :
            /\ \A x \in Range(q.hist) : lo <= x /\ x <= hi
            /\ lo <= q.rtt /\ q.rtt <= hi /\ q.var <= hi

FlowPeerOK(q) ==
    /\ q \in FlowPeer
    /\ q.throttle <= q.limit
    /\ Handshake(q) /\ WindowOf(q) /\ Trips(q)

FlowInv ==
    /\ host \in [in : HostIn, out : HostOut, recalculate : BOOLEAN]
    /\ budget \in [peers : Nat \ {0}, calls : Nat, samples : Nat]
    /\ peer = [p \in Peers |-> peer[p]]
    /\ \A p \in Peers : FlowPeerOK(peer[p])
    /\ GrantsFit
----------------------------------------------------------------------------
(* Walks over the peers: sums, passes and the repetition of passes.         *)

Item(f, S, p) == IF p \in S THEN f[p] ELSE 0

\* One step of a walk, by what the walk is for. x says what it walks over.
Visit(kind, x, acc, i) ==
    CASE kind = "sum" -> acc + Item(x.f, x.S, i)
      [] kind = "limit" -> LimitPeer(x, acc, i)
      [] kind = "limits" -> LimitPass(x, acc)
      [] kind = "grant" -> Grant(x, acc, i)
      [] kind = "grants" -> GrantPass(x, acc)

FlowWalk(w, n, kind, x, A) ==
    w = [i \in 0 .. n |-> IF i = 0 THEN A ELSE Visit(kind, x, w[i - 1], i)]

LEMMA FlowWalkExists ==
    ASSUME NEW kind, NEW x, NEW A, NEW n \in Nat
    PROVE  \E w : FlowWalk(w, n, kind, x, A)
<1> DEFINE T == {m \in Nat : \E w : FlowWalk(w, m, kind, x, A)}
<1>1. 0 \in T
  <2>1. FlowWalk([i \in 0 .. 0 |-> A], 0, kind, x, A)
    BY DEF FlowWalk
  <2> QED BY <2>1
<1>2. ASSUME NEW m \in Nat, m \in T PROVE m + 1 \in T
  <2>1. PICK w : FlowWalk(w, m, kind, x, A)
    BY <1>2
  <2> DEFINE last == Visit(kind, x, w[m], m + 1)
             g == [i \in 0 .. m + 1 |-> IF i = m + 1 THEN last ELSE w[i]]
             k == [i \in 0 .. m + 1 |-> IF i = 0 THEN A ELSE Visit(kind, x, g[i - 1], i)]
  <2>2. \A i \in 0 .. m : w[i] = IF i = 0 THEN A ELSE Visit(kind, x, w[i - 1], i)
    BY <2>1 DEF FlowWalk
  <2>3. ASSUME NEW i \in 0 .. m + 1 PROVE g[i] = k[i]
    <3>1. CASE i = m + 1
      <4>1. g[i] = last /\ i # 0 /\ i - 1 = m /\ m \in 0 .. m + 1 /\ m # m + 1
        BY <3>1
      <4>2. g[i - 1] = w[m]
        BY <4>1
      <4> HIDE DEF g, last
      <4>3. k[i] = Visit(kind, x, w[m], m + 1)
        BY <3>1, <4>1, <4>2
      <4> QED BY <4>1, <4>3 DEF last
    <3>2. CASE i = 0
      BY <3>2, <2>2
    <3>3. CASE i \in 1 .. m
      <4>1. i \in 0 .. m /\ i # 0 /\ i - 1 \in 0 .. m /\ i - 1 \in 0 .. m + 1 /\ i # m + 1 /\ i - 1 # m + 1
        BY <3>3
      <4>2. g[i] = w[i] /\ g[i - 1] = w[i - 1]
        BY <4>1
      <4> HIDE DEF g
      <4> QED BY <4>1, <4>2, <2>2
    <3> QED BY <3>1, <3>2, <3>3
  <2>4. g = k
    <3>1. g = [i \in 0 .. m + 1 |-> g[i]] /\ k = [i \in 0 .. m + 1 |-> k[i]]
      OBVIOUS
    <3> HIDE DEF g, k
    <3> QED BY <2>3, <3>1, Zenon
  <2>5. FlowWalk(g, m + 1, kind, x, A)
    BY <2>4 DEF FlowWalk
  <2> HIDE DEF g
  <2> QED BY <2>5
<1>3. Nat \subseteq T
  <2> HIDE DEF T
  <2> QED BY <1>1, <1>2, Induct
<1> QED BY <1>3

\* What a walk does, without the function.
LEMMA WalkSteps ==
    ASSUME NEW kind, NEW x, NEW A, NEW n \in Nat, NEW w, FlowWalk(w, n, kind, x, A)
    PROVE  /\ w[0] = A
           /\ \A i \in 1 .. n : w[i] = Visit(kind, x, w[i - 1], i)
<1>1. \A i \in 0 .. n : w[i] = IF i = 0 THEN A ELSE Visit(kind, x, w[i - 1], i)
  BY DEF FlowWalk
<1>2. 0 \in 0 .. n /\ \A i \in 1 .. n : i \in 0 .. n /\ i # 0
  OBVIOUS
<1> QED BY <1>1, <1>2

\* The sum of f over the first n peers, as far as they are in S.
SumTo(f, S, n) ==
    LET sum[p \in 0 .. n] == IF p = 0 THEN 0 ELSE sum[p - 1] + IF p \in S THEN f[p] ELSE 0
    IN  sum[n]

LEMMA SumWalks ==
    ASSUME NEW f, NEW S, NEW n \in Nat
    PROVE  \E w : /\ SumTo(f, S, n) = w[n] /\ w[0] = 0
                  /\ \A i \in 1 .. n : w[i] = w[i - 1] + Item(f, S, i)
<1> DEFINE x == [f |-> f, S |-> S]
           w == CHOOSE w : FlowWalk(w, n, "sum", x, 0)
<1>1. FlowWalk(w, n, "sum", x, 0)
  BY FlowWalkExists
<1>2. SumTo(f, S, n) = w[n]
  BY DEF SumTo, FlowWalk, Visit, Item
<1> HIDE DEF w
<1>3. \A i \in 1 .. n : Visit("sum", x, w[i - 1], i) = w[i - 1] + Item(f, S, i)
  BY DEF Visit
<1>4. w[0] = 0 /\ \A i \in 1 .. n : w[i] = Visit("sum", x, w[i - 1], i)
  BY <1>1, WalkSteps
<1> QED BY <1>2, <1>3, <1>4

\* Larger items make a larger sum.
LEMMA SumGrows ==
    ASSUME NEW f, NEW S, NEW g, NEW T, NEW n \in Nat,
           \A p \in 1 .. n : Item(f, S, p) \in Nat /\ Item(g, T, p) \in Nat
                             /\ Item(f, S, p) <= Item(g, T, p)
    PROVE  SumTo(f, S, n) \in Nat /\ SumTo(g, T, n) \in Nat /\ SumTo(f, S, n) <= SumTo(g, T, n)
<1>1. PICK v : /\ SumTo(f, S, n) = v[n] /\ v[0] = 0
               /\ \A i \in 1 .. n : v[i] = v[i - 1] + Item(f, S, i)
  BY SumWalks
<1>2. PICK w : /\ SumTo(g, T, n) = w[n] /\ w[0] = 0
               /\ \A i \in 1 .. n : w[i] = w[i - 1] + Item(g, T, i)
  BY SumWalks
<1> DEFINE R == {m \in Nat : m <= n => v[m] \in Nat /\ w[m] \in Nat /\ v[m] <= w[m]}
<1>3. 0 \in R
  BY <1>1, <1>2
<1>4. ASSUME NEW m \in Nat, m \in R PROVE m + 1 \in R
  <2> SUFFICES ASSUME m + 1 <= n PROVE v[m + 1] \in Nat /\ w[m + 1] \in Nat /\ v[m + 1] <= w[m + 1]
    OBVIOUS
  <2>1. m + 1 \in 1 .. n /\ (m + 1) - 1 = m /\ v[m] \in Nat /\ w[m] \in Nat /\ v[m] <= w[m]
    BY <1>4
  <2>2. v[m + 1] = v[m] + Item(f, S, m + 1) /\ w[m + 1] = w[m] + Item(g, T, m + 1)
    BY <1>1, <1>2, <2>1
  <2> QED BY <2>1, <2>2
<1>5. Nat \subseteq R
  <2> HIDE DEF R
  <2> QED BY <1>3, <1>4, Induct
<1> QED BY <1>1, <1>2, <1>5

\* f and g differ by d at j, and nowhere else.
Differ(f, g, S, n, j, d) ==
    /\ n \in Nat /\ j \in 1 .. n /\ d \in Int
    /\ \A p \in 1 .. n : Item(f, S, p) \in Int
    /\ \A p \in 1 .. n : Item(g, S, p) = IF p = j THEN Item(f, S, p) + d ELSE Item(f, S, p)

\* One item that differs by d changes the sum by d.
LEMMA SumMoves ==
    ASSUME NEW f, NEW g, NEW S, NEW n, NEW j, NEW d, Differ(f, g, S, n, j, d)
    PROVE  SumTo(f, S, n) \in Int /\ SumTo(g, S, n) = SumTo(f, S, n) + d
<1>0. /\ n \in Nat /\ j \in 1 .. n /\ d \in Int
      /\ \A p \in 1 .. n : Item(f, S, p) \in Int
      /\ \A p \in 1 .. n : Item(g, S, p) = IF p = j THEN Item(f, S, p) + d ELSE Item(f, S, p)
  BY DEF Differ
<1>1. PICK v : /\ SumTo(f, S, n) = v[n] /\ v[0] = 0
               /\ \A i \in 1 .. n : v[i] = v[i - 1] + Item(f, S, i)
  BY <1>0, SumWalks
<1>2. PICK w : /\ SumTo(g, S, n) = w[n] /\ w[0] = 0
               /\ \A i \in 1 .. n : w[i] = w[i - 1] + Item(g, S, i)
  BY <1>0, SumWalks
<1> DEFINE R == {m \in Nat : m <= n => v[m] \in Int /\ w[m] = IF m < j THEN v[m] ELSE v[m] + d}
<1>3. 0 \in R
  BY <1>0, <1>1, <1>2
<1>4. ASSUME NEW m \in Nat, m \in R PROVE m + 1 \in R
  <2> SUFFICES ASSUME m + 1 <= n
               PROVE  v[m + 1] \in Int /\ w[m + 1] = IF m + 1 < j THEN v[m + 1] ELSE v[m + 1] + d
    OBVIOUS
  <2>1. m + 1 \in 1 .. n /\ (m + 1) - 1 = m /\ v[m] \in Int /\ w[m] = IF m < j THEN v[m] ELSE v[m] + d
    BY <1>0, <1>4
  <2>2. v[m + 1] = v[m] + Item(f, S, m + 1) /\ w[m + 1] = w[m] + Item(g, S, m + 1)
    BY <1>1, <1>2, <2>1
  <2>3. /\ Item(f, S, m + 1) \in Int
        /\ Item(g, S, m + 1) = IF m + 1 = j THEN Item(f, S, m + 1) + d ELSE Item(f, S, m + 1)
    BY <1>0, <2>1
  <2> QED BY <1>0, <2>1, <2>2, <2>3
<1>5. Nat \subseteq R
  <2> HIDE DEF R
  <2> QED BY <1>3, <1>4, Induct
<1> QED BY <1>0, <1>1, <1>2, <1>5

\* The sum of equal items is their number times the item.
LEMMA SumOfEqual ==
    ASSUME NEW S, NEW n \in Nat, S \subseteq 1 .. n, NEW f, NEW c \in Nat, \A p \in S : f[p] = c
    PROVE  SumTo(f, S, n) = c * Cardinality(S) /\ Cardinality(S) \in Nat
<1>1. PICK v : /\ SumTo(f, S, n) = v[n] /\ v[0] = 0
               /\ \A i \in 1 .. n : v[i] = v[i - 1] + Item(f, S, i)
  BY SumWalks
<1> DEFINE First(m) == S \cap (1 .. m)
           R == {m \in Nat : m <= n => IsFiniteSet(First(m)) /\ Cardinality(First(m)) \in Nat
                                       /\ v[m] = c * Cardinality(First(m))}
<1>2. 0 \in R
  <2>1. First(0) = {}
    OBVIOUS
  <2> QED BY <1>1, <2>1, FS_EmptySet
<1>3. ASSUME NEW m \in Nat, m \in R PROVE m + 1 \in R
  <2> SUFFICES ASSUME m + 1 <= n
               PROVE  IsFiniteSet(First(m + 1)) /\ Cardinality(First(m + 1)) \in Nat
                      /\ v[m + 1] = c * Cardinality(First(m + 1))
    OBVIOUS
  <2> DEFINE F == First(m)
             k == Cardinality(F)
  <2>1. m + 1 \in 1 .. n /\ (m + 1) - 1 = m /\ IsFiniteSet(F) /\ k \in Nat /\ v[m] = c * k
    BY <1>3
  <2>2. v[m + 1] = v[m] + Item(f, S, m + 1)
    BY <1>1, <2>1
  <2>3. CASE m + 1 \in S
    <3>1. First(m + 1) = F \cup {m + 1} /\ m + 1 \notin F
      BY <2>3
    <3>2. IsFiniteSet(F \cup {m + 1}) /\ Cardinality(F \cup {m + 1}) = k + 1
      BY <2>1, <3>1, FS_AddElement
    <3>3. v[m + 1] = c * k + c
      BY <2>1, <2>2, <2>3 DEF Item
    <3>4. c * (k + 1) = c * k + c
      BY <2>1
    <3>5. IsFiniteSet(First(m + 1)) /\ Cardinality(First(m + 1)) = k + 1
      BY <3>1, <3>2
    <3> HIDE DEF First, F, k
    <3>6. v[m + 1] = c * (k + 1) /\ k + 1 \in Nat
      BY <2>1, <3>3, <3>4
    <3> QED BY <3>5, <3>6
  <2>4. CASE m + 1 \notin S
    <3>1. First(m + 1) = F
      BY <2>4
    <3>2. c * k \in Nat
      BY <2>1
    <3>3. v[m + 1] = c * k
      BY <2>1, <2>2, <2>4, <3>2 DEF Item
    <3> HIDE DEF First, F
    <3> QED BY <2>1, <3>1, <3>3
  <2> QED BY <2>3, <2>4
<1>4. Nat \subseteq R
  <2> HIDE DEF R
  <2> QED BY <1>2, <1>3, Induct
<1>5. First(n) = S
  OBVIOUS
<1> HIDE DEF First
<1> QED BY <1>1, <1>4, <1>5

----------------------------------------------------------------------------
(* Arithmetic.                                                              *)

\* Division is monotone.
LEMMA QuotientBound ==
    ASSUME NEW a \in Nat, NEW b \in Nat \ {0}, NEW s \in Nat, a <= s * b
    PROVE  a \div b \in Nat /\ a \div b <= s
<1> DEFINE d == a \div b
           r == a % b
<1>1. d \in Int /\ a = b * d + r /\ r \in 0 .. b - 1
  BY Division
<1> HIDE DEF d, r
<1>2. d >= 0
  <2> SUFFICES ASSUME d <= -1 PROVE FALSE
    BY <1>1
  <2>1. b * d <= -b
    BY <1>1
  <2> QED BY <1>1, <2>1
<1>3. d <= s
  <2> SUFFICES ASSUME d >= s + 1 PROVE FALSE
    BY <1>1
  <2>1. b * d >= b * (s + 1) /\ b * (s + 1) = s * b + b
    BY <1>1
  <2> QED BY <1>1, <2>1
<1> QED BY <1>1, <1>2, <1>3 DEF d

LEMMA QuotientGrows ==
    ASSUME NEW a \in Nat, NEW c \in Nat, NEW b \in Nat \ {0}, a <= c
    PROVE  a \div b \in Nat /\ c \div b \in Nat /\ a \div b <= c \div b
<1> DEFINE d == c \div b
           r == c % b
<1>1. d \in Int /\ c = b * d + r /\ r \in 0 .. b - 1
  BY Division
<1>2. d \in Nat
  BY RemainderBelow
<1> DEFINE e == a \div b
           t == a % b
<1>3. e \in Int /\ a = b * e + t /\ t \in 0 .. b - 1
  BY Division
<1>4. e \in Nat
  BY RemainderBelow
<1> HIDE DEF d, r, e, t
<1>5. e <= d
  <2> SUFFICES ASSUME e >= d + 1 PROVE FALSE
    BY <1>2, <1>4
  <2>1. b * e >= b * (d + 1) /\ b * (d + 1) = b * d + b
    BY <1>2, <1>4
  <2> QED BY <1>1, <1>3, <2>1
<1> QED BY <1>2, <1>4, <1>5 DEF d, e

LEMMA RemainderNat ==
    ASSUME NEW W \in Nat \ {0}, NEW a \in Nat
    PROVE  a % W \in Nat /\ a % W <= a
<1>1. a % W <= a
  BY RemainderBelow
<1>2. a % W \in 0 .. W - 1
  BY Division
<1> QED BY <1>1, <1>2

\* Equal remainders differ by a multiple.
LEMMA SameRemainder ==
    ASSUME NEW M \in Nat \ {0}, NEW a \in Int, NEW b \in Int, a % M = b % M
    PROVE  (b - a) % M = 0
<1> DEFINE d == a \div M
           e == b \div M
           r == a % M
<1>1. d \in Int /\ a = M * d + r /\ r \in 0 .. M - 1
  BY Division
<1>2. e \in Int /\ b = M * e + r
  BY Division
<1> HIDE DEF d, e, r
<1>3. b - a = M * (e - d) + 0 /\ e - d \in Int /\ 0 \in 0 .. M - 1
  BY <1>1, <1>2
<1> QED BY <1>3, RemainderUnique

LEMMA FlowConstants ==
    /\ Word \in Nat \ {0} /\ Second \in Nat \ {0} /\ Scale \in Nat /\ Scale >= 2
    /\ Counter \in 1 .. Scale - 1 /\ Acceleration \in Nat /\ Deceleration \in Nat
    /\ MinWindow \in Nat \ {0} /\ MaxWindow \in Nat /\ MinWindow <= MaxWindow
    /\ WindowScale \in Nat \ {0} /\ CommandSize \in Nat /\ MaxTotal \in Nat
    /\ 2 * CommandSize <= MaxTotal /\ DefaultRtt \in Nat /\ Samples \subseteq Nat \ {0}
    /\ HostIn \subseteq 0 .. Word - 1 /\ HostOut \subseteq 0 .. Word - 1
    /\ PeerIn \subseteq 0 .. Word - 1 /\ PeerOut \subseteq 0 .. Word - 1
    /\ Amounts \subseteq Nat /\ Periods \subseteq Nat
    /\ Budgets \subseteq [peers : Nat \ {0}, calls : Nat, samples : Nat]
  BY FlowAssumption

\* The counter of the throttle takes every value once in Scale packets, so that
\* the share that passes is exact.
LEMMA CounterShare ==
    ASSUME NEW c \in 0 .. Scale - 1, NEW t \in 0 .. Scale
    PROVE  Cardinality({k \in 1 .. Scale : CounterAfter(c, k) <= t})
             = IF t < Scale THEN t + 1 ELSE Scale
<1> DEFINE K == 1 .. Scale
           R == 0 .. Scale - 1
           f == [k \in K |-> CounterAfter(c, k)]
           A == {k \in K : CounterAfter(c, k) <= t}
           B == {x \in R : x <= t}
           g == [k \in A |-> CounterAfter(c, k)]
<1>1. Scale \in Nat \ {0} /\ Counter \in Nat /\ \A k \in 1 .. Scale - 1 : (k * Counter) % Scale # 0
  BY FlowConstants, FlowAssumption
<1>2. \A k \in K : c + k * Counter \in Nat /\ CounterAfter(c, k) \in R
  BY <1>1 DEF CounterAfter
<1>3. ASSUME NEW k \in K, NEW l \in K, k < l, CounterAfter(c, k) = CounterAfter(c, l) PROVE FALSE
  <2>1. c + k * Counter \in Int /\ c + l * Counter \in Int
    BY <1>1
  <2>2. ((c + l * Counter) - (c + k * Counter)) % Scale = 0
    BY <1>1, <1>3, <2>1, SameRemainder DEF CounterAfter
  <2>3. (c + l * Counter) - (c + k * Counter) = (l - k) * Counter
    BY <1>1
  <2>4. l - k \in 1 .. Scale - 1
    BY <1>1, <1>3
  <2> QED BY <1>1, <2>2, <2>3, <2>4
<1>4. \A k, l \in K : CounterAfter(c, k) = CounterAfter(c, l) => k = l
  BY <1>1, <1>3
<1>5. f \in Injection(K, R)
  BY <1>2, <1>4 DEF Injection, IsInjective
<1>6. IsFiniteSet(K) /\ IsFiniteSet(R) /\ Cardinality(K) = Scale /\ Cardinality(R) = Scale
  BY <1>1, FS_Interval
<1>7. f \in Surjection(K, R)
  BY <1>5, <1>6, FS_Injection
<1>8. \A x \in R : \E k \in K : CounterAfter(c, k) = x
  BY <1>7 DEF Surjection
<1>9. g \in Bijection(A, B)
  <2>1. g \in [A -> B]
    BY <1>2
  <2>2. \A k, l \in A : g[k] = g[l] => k = l
    BY <1>4
  <2>3. \A x \in B : \E k \in A : g[k] = x
    BY <1>8
  <2> QED BY <2>1, <2>2, <2>3 DEF Bijection, Injection, Surjection, IsInjective
<1>10. IsFiniteSet(A)
  BY <1>6, FS_Subset
<1>11. Cardinality(B) = Cardinality(A)
  BY <1>9, <1>10, FS_Bijection DEF ExistsBijection
<1>12. B = 0 .. (IF t < Scale THEN t ELSE Scale - 1)
  BY <1>1
<1>13. Cardinality(B) = IF t < Scale THEN t + 1 ELSE Scale
  <2>1. CASE t < Scale
    <3>1. B = 0 .. t /\ 0 \in Int /\ t \in Int /\ ~(0 > t)
      BY <1>1, <1>12, <2>1
    <3>2. Cardinality(0 .. t) = t - 0 + 1
      BY <3>1, FS_Interval
    <3> HIDE DEF B
    <3> QED BY <2>1, <3>1, <3>2
  <2>2. CASE ~(t < Scale)
    <3>1. B = 0 .. Scale - 1
      BY <1>1, <1>12, <2>2
    <3> HIDE DEF B
    <3> QED BY <1>6, <2>2, <3>1
  <2> QED BY <2>1, <2>2
<1> QED BY <1>11, <1>13

----------------------------------------------------------------------------
(* Windows.                                                                 *)

LEMMA ClampFacts ==
    /\ \A w \in Nat : Clamp(w) \in MinWindow .. MaxWindow
    /\ \A v, w \in Nat : v <= w => Clamp(v) <= Clamp(w)
    /\ \A w \in MinWindow .. MaxWindow : Clamp(w) = w
  BY FlowConstants DEF Clamp

LEMMA ScaledFacts ==
    /\ \A b \in Nat : Scaled(b) \in Nat
    /\ \A a, b \in Nat : a # 0 /\ a <= b => Scaled(a) <= Scaled(b)
<1>1. ASSUME NEW b \in Nat PROVE Scaled(b) \in Nat
  <2>1. b \div WindowScale \in Nat
    BY FlowConstants, QuotientGrows
  <2> QED BY <2>1, FlowConstants DEF Scaled
<1>2. ASSUME NEW a \in Nat, NEW b \in Nat, a # 0, a <= b PROVE Scaled(a) <= Scaled(b)
  <2> DEFINE d == a \div WindowScale
             e == b \div WindowScale
  <2>1. d \in Nat /\ e \in Nat /\ d <= e
    BY <1>2, FlowConstants, QuotientGrows
  <2>2. Scaled(a) = d * MinWindow /\ Scaled(b) = e * MinWindow
    BY <1>2 DEF Scaled
  <2> HIDE DEF d, e
  <2>3. d * MinWindow <= e * MinWindow
    BY <2>1, FlowConstants
  <2> QED BY <2>2, <2>3
<1> QED BY <1>1, <1>2

\* Every window lies between its limits, and the answer to a CONNECT and the
\* window that follows a BANDWIDTH_LIMIT fit what the other end announced.
LEMMA SharedFits ==
    ASSUME NEW own \in Nat, NEW its \in Nat
    PROVE  /\ SharedWindow(own, its) \in MinWindow .. MaxWindow
           /\ its # 0 => SharedWindow(own, its) <= Clamp(Scaled(its))
<1>1. CASE (own < its /\ own # 0) \/ its = 0
  <2>1. SharedWindow(own, its) = Clamp(Scaled(own))
    BY <1>1 DEF SharedWindow
  <2>2. Scaled(own) \in Nat /\ Scaled(its) \in Nat /\ (its # 0 => Scaled(own) <= Scaled(its))
    BY <1>1, ScaledFacts
  <2> QED BY <2>1, <2>2, ClampFacts
<1>2. CASE ~((own < its /\ own # 0) \/ its = 0)
  <2>1. SharedWindow(own, its) = Clamp(Scaled(its))
    BY <1>2 DEF SharedWindow
  <2>2. Scaled(its) \in Nat /\ Clamp(Scaled(its)) \in MinWindow .. MaxWindow
    BY ScaledFacts, ClampFacts
  <2> QED BY <2>1, <2>2, FlowConstants
<1> QED BY <1>1, <1>2

LEMMA AnswerFits ==
    ASSUME NEW itsIn \in Nat, NEW asked \in MinWindow .. MaxWindow
    PROVE  LET w == AnswerWindow(itsIn, asked)
           IN  w \in MinWindow .. MaxWindow /\ w <= Clamp(Scaled(itsIn))
<1> DEFINE s == Scaled(itsIn)
           m == IF s > asked THEN asked ELSE s
<1>1. s \in Nat /\ m \in Nat /\ m <= s
  BY ScaledFacts, FlowConstants
<1>2. AnswerWindow(itsIn, asked) = Clamp(m)
  BY DEF AnswerWindow
<1> HIDE DEF s, m
<1>3. Clamp(m) \in MinWindow .. MaxWindow /\ Clamp(m) <= Clamp(s)
  BY <1>1, ClampFacts
<1> QED BY <1>2, <1>3 DEF s
----------------------------------------------------------------------------
(* What the actions do to one peer.                                         *)

LEMMA FreshOK == FlowPeerOK(Fresh)
<1>1. Fresh \in FlowPeer
  BY FlowConstants DEF Fresh, FlowPeer
<1> QED BY <1>1, FlowConstants DEF Fresh, FlowPeerOK, Handshake, WindowOf, Trips

\* Fields of a typed peer.
LEMMA FlowFields ==
    ASSUME NEW q \in FlowPeer
    PROVE  /\ q.in \in Nat /\ q.out \in Nat /\ q.in \in PeerIn \cup {0} /\ q.out \in PeerOut \cup {0}
           /\ q.out < Word /\ q.in < Word
           /\ q.window \in MinWindow .. MaxWindow
           /\ q.total \in Nat /\ q.total <= MaxTotal /\ q.throttle \in 0 .. Scale
           /\ q.limit \in 0 .. Scale /\ q.counter \in 0 .. Scale - 1
           /\ q.rtt \in Nat /\ q.var \in Nat /\ q.lowest \in Nat /\ q.highest \in Nat
           /\ q.lastRtt \in Nat /\ q.lastVar \in Nat /\ q.hist \in Seq(Nat) /\ q.told \in Int
<1>1. PeerIn \cup {0} \subseteq 0 .. Word - 1 /\ PeerOut \cup {0} \subseteq 0 .. Word - 1
  BY FlowConstants
<1>2. /\ q.in \in PeerIn \cup {0} /\ q.out \in PeerOut \cup {0}
      /\ q.window \in MinWindow .. MaxWindow
      /\ q.total \in 0 .. MaxTotal /\ q.throttle \in 0 .. Scale
      /\ q.limit \in 0 .. Scale /\ q.counter \in 0 .. Scale - 1
      /\ q.rtt \in Nat /\ q.var \in Nat /\ q.lowest \in Nat /\ q.highest \in Nat
      /\ q.lastRtt \in Nat /\ q.lastVar \in Nat /\ q.hist \in Seq(Nat) /\ q.told \in Int
  BY DEF FlowPeer
<1>3. q.in \in 0 .. Word - 1 /\ q.out \in 0 .. Word - 1
  BY <1>1, <1>2, Zenon
<1>4. /\ q.in \in Nat /\ q.out \in Nat /\ q.out < Word /\ q.in < Word
      /\ q.total \in Nat /\ q.total <= MaxTotal
  <2>1. Word \in Nat /\ MaxTotal \in Nat /\ q.total \in 0 .. MaxTotal
    BY <1>2, FlowConstants
  <2> QED BY <1>3, <2>1
<1> QED BY <1>2, <1>4

\* The measurements of a peer, and what has been left alone.
LEMMA SameTrips ==
    ASSUME NEW q, NEW r, r.hist = q.hist, r.rtt = q.rtt, r.var = q.var, r.lowest = q.lowest,
           r.highest = q.highest, Trips(q)
    PROVE  Trips(r)
  BY DEF Trips

LEMMA DialedOK ==
    ASSUME NEW q, FlowPeerOK(q), q.state = "DISCONNECTED", NEW w \in MinWindow .. MaxWindow
    PROVE  FlowPeerOK([q EXCEPT !.state = "CONNECTING", !.window = w, !.total = @ + CommandSize])
<1> DEFINE n == q.total + CommandSize
           r == [q EXCEPT !.state = "CONNECTING", !.window = w, !.total = n]
<1>1. q \in FlowPeer /\ q.total = 0 /\ q.in = 0 /\ q.told = -1 /\ q.throttle <= q.limit /\ Trips(q)
  BY DEF FlowPeerOK, Handshake
<1>2. n \in 0 .. MaxTotal /\ n = CommandSize
  BY <1>1, FlowConstants
<1> HIDE DEF n
<1>3. r \in FlowPeer
  BY <1>1, <1>2 DEF FlowPeer
<1>4. /\ r.state = "CONNECTING" /\ r.total = n /\ r.in = q.in /\ r.told = q.told
      /\ r.throttle = q.throttle /\ r.limit = q.limit /\ r.hist = q.hist /\ r.rtt = q.rtt
      /\ r.var = q.var /\ r.lowest = q.lowest /\ r.highest = q.highest
  BY <1>1 DEF FlowPeer
<1> HIDE DEF r
<1>5. Trips(r)
  BY <1>1, <1>4, SameTrips
<1>6. FlowPeerOK(r)
  BY <1>1, <1>2, <1>3, <1>4, <1>5, FlowConstants DEF FlowPeerOK, Handshake, WindowOf
<1> QED BY <1>6 DEF r, n

\* A peer that learns the bandwidths of the other end, and its window.
LEMMA LearnedOK ==
    ASSUME NEW q, FlowPeerOK(q), NEW s \in {"ACKNOWLEDGING_CONNECT", "CONNECTED"},
           NEW i \in PeerIn, NEW o \in PeerOut, NEW w \in MinWindow .. MaxWindow,
           i # 0 => w <= Clamp(Scaled(i)), q.total + CommandSize <= MaxTotal,
           s = "ACKNOWLEDGING_CONNECT" => q.state = "DISCONNECTED"
    PROVE  FlowPeerOK([q EXCEPT !.state = s, !.in = i, !.out = o, !.window = w,
                                !.total = @ + CommandSize])
<1> DEFINE n == q.total + CommandSize
           r == [q EXCEPT !.state = s, !.in = i, !.out = o, !.window = w, !.total = n]
<1>1. /\ q \in FlowPeer /\ q.throttle <= q.limit /\ Trips(q)
      /\ q.state = "DISCONNECTED" => q.told = -1 /\ q.total = 0
  BY DEF FlowPeerOK, Handshake
<1>2. n \in 0 .. MaxTotal /\ (q.state = "DISCONNECTED" => n = CommandSize)
  BY <1>1, FlowConstants, FlowFields
<1> HIDE DEF n
<1>3. r \in FlowPeer
  BY <1>1, <1>2 DEF FlowPeer
<1>4. /\ r.state = s /\ r.total = n /\ r.in = i /\ r.told = q.told /\ r.window = w
      /\ r.throttle = q.throttle /\ r.limit = q.limit /\ r.hist = q.hist /\ r.rtt = q.rtt
      /\ r.var = q.var /\ r.lowest = q.lowest /\ r.highest = q.highest
  BY <1>1 DEF FlowPeer
<1> HIDE DEF r
<1>5. Trips(r)
  BY <1>1, <1>4, SameTrips
<1>6. Handshake(r)
  BY <1>1, <1>2, <1>4, FlowConstants DEF Handshake
<1>7. WindowOf(r)
  BY <1>4 DEF WindowOf
<1>8. FlowPeerOK(r)
  BY <1>1, <1>3, <1>4, <1>5, <1>6, <1>7 DEF FlowPeerOK
<1> QED BY <1>8 DEF r, n

LEMMA SubmittedOK ==
    ASSUME NEW q, FlowPeerOK(q), q.state = "CONNECTED", NEW n \in Nat, q.total + n <= MaxTotal
    PROVE  FlowPeerOK([q EXCEPT !.total = @ + n, !.counter = CounterAfter(@, 1)])
<1> DEFINE m == q.total + n
           c == CounterAfter(q.counter, 1)
           r == [q EXCEPT !.total = m, !.counter = c]
<1>1. q \in FlowPeer /\ q.throttle <= q.limit /\ Trips(q) /\ WindowOf(q)
  BY DEF FlowPeerOK
<1>2. m \in 0 .. MaxTotal
  BY <1>1, FlowConstants, FlowFields
<1>3. c \in 0 .. Scale - 1
  <2>1. q.counter + 1 * Counter \in Int /\ Scale \in Nat \ {0}
    BY <1>1, FlowConstants, FlowFields
  <2> QED BY <2>1, Division DEF CounterAfter
<1> HIDE DEF m, c
<1>4. r \in FlowPeer
  BY <1>1, <1>2, <1>3 DEF FlowPeer
<1>5. /\ r.state = q.state /\ r.in = q.in /\ r.told = q.told /\ r.window = q.window
      /\ r.throttle = q.throttle /\ r.limit = q.limit /\ r.hist = q.hist /\ r.rtt = q.rtt
      /\ r.var = q.var /\ r.lowest = q.lowest /\ r.highest = q.highest
  BY <1>1 DEF FlowPeer
<1> HIDE DEF r
<1>6. Trips(r)
  BY <1>1, <1>5, SameTrips
<1>7. FlowPeerOK(r)
  BY <1>1, <1>4, <1>5, <1>6 DEF FlowPeerOK, Handshake, WindowOf
<1> QED BY <1>7 DEF r, m, c

LEMMA LimitedOK ==
    ASSUME NEW q, FlowPeerOK(q), q.state = "CONNECTED", NEW l \in 0 .. Scale
    PROVE  LET r == Limited(q, l)
           IN  FlowPeerOK(r) /\ r.state = q.state /\ r.told = q.told /\ r.out = q.out
<1> DEFINE t == IF q.throttle > l THEN l ELSE q.throttle
           r == [q EXCEPT !.limit = l, !.throttle = t, !.total = 0]
<1>1. q \in FlowPeer /\ Trips(q) /\ WindowOf(q)
  BY DEF FlowPeerOK
<1>2. t \in 0 .. Scale /\ t <= l /\ 0 \in 0 .. MaxTotal
  BY <1>1, FlowConstants, FlowFields
<1> HIDE DEF t
<1>3. r \in FlowPeer
  BY <1>1, <1>2 DEF FlowPeer
<1>4. /\ r.state = q.state /\ r.in = q.in /\ r.told = q.told /\ r.window = q.window
      /\ r.throttle = t /\ r.limit = l /\ r.hist = q.hist /\ r.rtt = q.rtt /\ r.out = q.out
      /\ r.var = q.var /\ r.lowest = q.lowest /\ r.highest = q.highest
  BY <1>1 DEF FlowPeer
<1> HIDE DEF r
<1>5. Trips(r)
  BY <1>1, <1>4, SameTrips
<1>6. FlowPeerOK(r)
  BY <1>1, <1>2, <1>3, <1>4, <1>5 DEF FlowPeerOK, Handshake, WindowOf
<1>7. Limited(q, l) = r
  BY DEF Limited, r, t
<1> QED BY <1>4, <1>6, <1>7

LEMMA TellingOK ==
    ASSUME NEW q, FlowPeerOK(q), q.state = "CONNECTED", NEW x \in Nat
    PROVE  LET r == [q EXCEPT !.told = x, !.total = CommandSize]
           IN  FlowPeerOK(r) /\ r.state = q.state /\ r.told = x
<1> DEFINE r == [q EXCEPT !.told = x, !.total = CommandSize]
<1>1. q \in FlowPeer /\ Trips(q) /\ WindowOf(q) /\ q.throttle <= q.limit
  BY DEF FlowPeerOK
<1>2. CommandSize \in 0 .. MaxTotal /\ x \in Int
  BY FlowConstants
<1>3. r \in FlowPeer
  BY <1>1, <1>2 DEF FlowPeer
<1>4. /\ r.state = q.state /\ r.in = q.in /\ r.told = x /\ r.window = q.window
      /\ r.throttle = q.throttle /\ r.limit = q.limit /\ r.hist = q.hist /\ r.rtt = q.rtt
      /\ r.var = q.var /\ r.lowest = q.lowest /\ r.highest = q.highest
  BY <1>1 DEF FlowPeer
<1> HIDE DEF r
<1>5. Trips(r)
  BY <1>1, <1>4, SameTrips
<1>6. FlowPeerOK(r)
  BY <1>1, <1>3, <1>4, <1>5 DEF FlowPeerOK, Handshake, WindowOf
<1> QED BY <1>4, <1>6 DEF r

\* A round trip of s: the mean moves towards it, the variance by a quarter of
\* the difference, and neither beyond what was measured.
LEMMA Averages ==
    ASSUME NEW a \in Nat, NEW v \in Nat, NEW s \in Nat \ {0}, NEW lo \in Nat, NEW hi \in Nat,
           lo <= a, a <= hi, v <= hi, lo <= s, s <= hi
    PROVE  LET d == IF s >= a THEN s - a ELSE a - s
               m == IF s >= a THEN a + d \div 8 ELSE a - d \div 8
               u == v - v \div 4 + d \div 4
           IN  m \in Nat /\ u \in Nat /\ lo <= m /\ m <= hi /\ u <= hi
<1> DEFINE d == IF s >= a THEN s - a ELSE a - s
           e == d \div 8
           x == d \div 4
           y == v \div 4
<1>1. d \in Nat /\ d <= hi
  OBVIOUS
<1>2. e \in Nat /\ 8 * e <= d
  BY <1>1
<1>3. x \in Nat /\ 4 * x <= d /\ d < 4 * x + 4
  BY <1>1
<1>4. y \in Nat /\ 4 * y <= v /\ v < 4 * y + 4
  OBVIOUS
<1> DEFINE z == hi \div 4
<1>5. z \in Nat /\ 4 * z <= hi /\ hi < 4 * z + 4
  OBVIOUS
<1>6. x <= z /\ y <= z
  <2> HIDE DEF d, x, y, z
  <2> QED BY <1>1, <1>3, <1>4, <1>5
<1>7. v - y + x \in Nat /\ v - y + x <= hi
  <2> HIDE DEF d, x, y, z
  <2>1. v - y <= hi - z
    BY <1>4, <1>5, <1>6
  <2> QED BY <1>3, <1>4, <1>5, <1>6, <2>1
<1>8. (IF s >= a THEN a + e ELSE a - e) \in lo .. hi
  <2>1. CASE s >= a
    <3>1. d = s - a
      BY <2>1
    <3> HIDE DEF e, d
    <3> QED BY <1>2, <2>1, <3>1
  <2>2. CASE ~(s >= a)
    <3>1. d = a - s
      BY <2>2
    <3> HIDE DEF e, d
    <3> QED BY <1>2, <2>2, <3>1
  <2> QED BY <2>1, <2>2
<1> QED BY <1>7, <1>8

LEMMA RangeOfHistory ==
    ASSUME NEW s \in Seq(Nat), NEW x \in Nat
    PROVE  /\ Range(s) \subseteq Nat /\ Append(s, x) \in Seq(Nat) /\ Append(s, x) # <<>>
           /\ Range(Append(s, x)) = Range(s) \cup {x}
           /\ s = <<>> => Range(s) = {}
           /\ s # <<>> => Range(s) # {}
<1> DEFINE a == Append(s, x)
<1>1. /\ a \in Seq(Nat) /\ Len(a) = Len(s) + 1 /\ Len(s) \in Nat /\ a[Len(s) + 1] = x
      /\ \A k \in 1 .. Len(s) : a[k] = s[k]
  OBVIOUS
<1>2. a # <<>>
  BY <1>1
<1> HIDE DEF a
<1>3. \A t \in Seq(Nat) : \A y : y \in Range(t) <=> \E k \in 1 .. Len(t) : t[k] = y
  BY DEF Range
<1>4. Range(s) \subseteq Nat
  BY <1>3
<1>5. Range(a) \subseteq Range(s) \cup {x}
  <2> SUFFICES ASSUME NEW y \in Range(a), y # x PROVE y \in Range(s)
    OBVIOUS
  <2>1. PICK k \in 1 .. Len(a) : a[k] = y
    BY <1>1, <1>3
  <2>2. k \in 1 .. Len(s) /\ s[k] = y
    BY <1>1, <2>1
  <2> QED BY <1>3, <2>2
<1>6. x \in Range(a)
  <2>1. Len(s) + 1 \in 1 .. Len(a)
    BY <1>1
  <2> QED BY <1>1, <1>3, <2>1
<1>7. ASSUME NEW y \in Range(s) PROVE y \in Range(a)
  <2>1. PICK k \in 1 .. Len(s) : s[k] = y
    BY <1>3
  <2>2. k \in 1 .. Len(a) /\ a[k] = y
    BY <1>1, <2>1
  <2> QED BY <1>1, <1>3, <2>2
<1>8. s = <<>> => Range(s) = {}
  <2> SUFFICES ASSUME s = <<>>, NEW y \in Range(s) PROVE FALSE
    OBVIOUS
  <2>1. PICK k \in 1 .. Len(s) : s[k] = y
    BY <1>3
  <2> QED BY <2>1
<1>9. s # <<>> => Range(s) # {}
  <2> SUFFICES ASSUME s # <<>> PROVE s[1] \in Range(s)
    OBVIOUS
  <2>1. 1 \in 1 .. Len(s)
    OBVIOUS
  <2> QED BY <1>3, <2>1
<1> QED BY <1>1, <1>2, <1>4, <1>5, <1>6, <1>7, <1>8, <1>9 DEF a

\* The throttle follows but stays within its limit.
LEMMA ThrottleWithin ==
    ASSUME NEW q, FlowPeerOK(q), NEW s \in Nat
    PROVE  PeerThrottle(q, s) \in 0 .. q.limit
<1> DEFINE up == (q.throttle + Acceleration) % Word
<1>1. /\ q.throttle \in Nat /\ q.limit \in Nat /\ q.throttle <= q.limit
      /\ q.lastRtt \in Nat /\ q.lastVar \in Nat
  BY FlowFields, FlowConstants DEF FlowPeerOK
<1>2. up \in Nat
  BY <1>1, FlowConstants, Division
<1> HIDE DEF up
<1>3. PeerThrottle(q, s) =
        IF q.lastRtt <= q.lastVar THEN q.limit
        ELSE IF s <= q.lastRtt THEN IF up > q.limit THEN q.limit ELSE up
        ELSE IF s > q.lastRtt + 2 * q.lastVar
             THEN IF q.throttle > Deceleration THEN q.throttle - Deceleration ELSE 0
        ELSE q.throttle
  BY DEF PeerThrottle, up
<1>4. Deceleration \in Nat
  BY FlowConstants
<1> QED BY <1>1, <1>2, <1>3, <1>4

\* What Measure makes of a peer: the fields t, m and u are new.
LEMMA MeasureFields ==
    ASSUME NEW q, FlowPeerOK(q), NEW s \in Nat \ {0}
    PROVE  LET r == Measure(q, s)
           IN  /\ r \in FlowPeer /\ r.throttle <= r.limit
               /\ r.state = q.state /\ r.in = q.in /\ r.out = q.out /\ r.window = q.window
               /\ r.total = q.total /\ r.limit = q.limit /\ r.hist = q.hist /\ r.told = q.told
               /\ r.lowest = q.lowest /\ r.highest = q.highest
               /\ \E lo, hi \in Range(q.hist) \cup {s} :
                    /\ \A x \in Range(q.hist) \cup {s} : lo <= x /\ x <= hi
                    /\ lo <= r.rtt /\ r.rtt <= hi /\ r.var <= hi
<1>1. /\ q \in FlowPeer /\ q.hist \in Seq(Nat) /\ q.throttle <= q.limit /\ Range(q.hist) \subseteq Nat
      /\ q.rtt \in Nat /\ q.var \in Nat /\ q.limit \in 0 .. Scale /\ q.throttle \in 0 .. Scale
  BY FlowFields, RangeOfHistory DEF FlowPeerOK
<1>2. CASE q.hist = <<>>
  <2> DEFINE u == (s + 1) \div 2
             r == [q EXCEPT !.rtt = s, !.var = u]
  <2>1. u \in Nat /\ u <= s
    OBVIOUS
  <2> HIDE DEF u
  <2>2. r \in FlowPeer
    BY <1>1, <2>1 DEF FlowPeer
  <2>3. /\ r.state = q.state /\ r.in = q.in /\ r.out = q.out /\ r.window = q.window
        /\ r.total = q.total /\ r.limit = q.limit /\ r.hist = q.hist /\ r.told = q.told
        /\ r.lowest = q.lowest /\ r.highest = q.highest /\ r.throttle = q.throttle
        /\ r.rtt = s /\ r.var = u
    BY <1>1 DEF FlowPeer
  <2>4. Measure(q, s) = r
    BY <1>2 DEF Measure, u
  <2>5. Range(q.hist) \cup {s} = {s}
    BY <1>1, <1>2, RangeOfHistory
  <2> HIDE DEF r
  <2>6. \E lo, hi \in {s} : /\ \A x \in {s} : lo <= x /\ x <= hi
                            /\ lo <= r.rtt /\ r.rtt <= hi /\ r.var <= hi
    BY <2>1, <2>3
  <2> QED BY <1>1, <2>2, <2>3, <2>4, <2>5, <2>6
<1>3. CASE q.hist # <<>>
  <2> DEFINE d == IF s >= q.rtt THEN s - q.rtt ELSE q.rtt - s
             m == IF s >= q.rtt THEN q.rtt + d \div 8 ELSE q.rtt - d \div 8
             u == q.var - q.var \div 4 + d \div 4
             t == PeerThrottle(q, s)
             r == [q EXCEPT !.throttle = t, !.var = u, !.rtt = m]
  <2>1. PICK a \in Range(q.hist), b \in Range(q.hist) :
           /\ \A x \in Range(q.hist) : a <= x /\ x <= b
           /\ a <= q.rtt /\ q.rtt <= b /\ q.var <= b
    BY <1>3 DEF FlowPeerOK, Trips
  <2> DEFINE lo == IF s < a THEN s ELSE a
             hi == IF s > b THEN s ELSE b
  <2>2. /\ lo \in Nat /\ hi \in Nat /\ lo \in Range(q.hist) \cup {s} /\ hi \in Range(q.hist) \cup {s}
        /\ \A x \in Range(q.hist) \cup {s} : lo <= x /\ x <= hi
        /\ lo <= q.rtt /\ q.rtt <= hi /\ q.var <= hi /\ lo <= s /\ s <= hi
    <3>1. a \in Nat /\ b \in Nat
      BY <1>1
    <3> QED BY <1>1, <2>1, <3>1
  <2> HIDE DEF lo, hi
  <2>3. m \in Nat /\ u \in Nat /\ lo <= m /\ m <= hi /\ u <= hi
    BY <1>1, <2>2, Averages
  <2>4. t \in 0 .. q.limit /\ t \in 0 .. Scale
    <3>1. t \in 0 .. q.limit
      BY ThrottleWithin
    <3> QED BY <1>1, <3>1, FlowConstants
  <2>5. Measure(q, s) = r
    BY <1>3 DEF Measure
  <2> HIDE DEF m, u, t, d
  <2>6. r \in FlowPeer
    BY <1>1, <2>3, <2>4 DEF FlowPeer
  <2>7. /\ r.state = q.state /\ r.in = q.in /\ r.out = q.out /\ r.window = q.window
        /\ r.total = q.total /\ r.limit = q.limit /\ r.hist = q.hist /\ r.told = q.told
        /\ r.lowest = q.lowest /\ r.highest = q.highest /\ r.throttle = t
        /\ r.rtt = m /\ r.var = u
    BY <1>1 DEF FlowPeer
  <2> HIDE DEF r
  <2>8. r.throttle <= r.limit
    BY <1>1, <2>4, <2>7
  <2>9. /\ \A x \in Range(q.hist) \cup {s} : lo <= x /\ x <= hi
        /\ lo <= r.rtt /\ r.rtt <= hi /\ r.var <= hi
    BY <2>2, <2>3, <2>7
  <2>10. \E l, h \in Range(q.hist) \cup {s} :
            /\ \A x \in Range(q.hist) \cup {s} : l <= x /\ x <= h
            /\ l <= r.rtt /\ r.rtt <= h /\ r.var <= h
    BY <2>2, <2>9, Zenon
  <2> QED BY <2>5, <2>6, <2>7, <2>8, <2>10
<1> QED BY <1>2, <1>3

LEMMA AcknowledgedOK ==
    ASSUME NEW q, FlowPeerOK(q), NEW s \in Nat \ {0}, NEW over \in BOOLEAN,
           q.state # "DISCONNECTED", q.hist = <<>> => over
    PROVE  LET r == Acknowledged(q, s, over)
           IN  /\ FlowPeerOK(r) /\ r.told = q.told
               /\ r.state = IF q.state = "ACKNOWLEDGING_CONNECT" THEN "CONNECTED" ELSE q.state
<1> DEFINE m == Measure(q, s)
<1>1. /\ m \in FlowPeer /\ m.throttle <= m.limit
      /\ m.state = q.state /\ m.in = q.in /\ m.out = q.out /\ m.window = q.window
      /\ m.total = q.total /\ m.limit = q.limit /\ m.hist = q.hist /\ m.told = q.told
      /\ m.lowest = q.lowest /\ m.highest = q.highest
  BY MeasureFields
<1>2. PICK lo \in Range(q.hist) \cup {s}, hi \in Range(q.hist) \cup {s} :
         /\ \A x \in Range(q.hist) \cup {s} : lo <= x /\ x <= hi
         /\ lo <= m.rtt /\ m.rtt <= hi /\ m.var <= hi
  BY MeasureFields
<1> DEFINE low == IF m.rtt < m.lowest THEN m.rtt ELSE m.lowest
           high == IF m.var > m.highest THEN m.var ELSE m.highest
           ll == IF over THEN m.rtt ELSE low
           hh == IF over THEN m.var ELSE high
           lr == IF over THEN low ELSE m.lastRtt
           lv == IF over THEN IF high > 1 THEN high ELSE 1 ELSE m.lastVar
           st == IF m.state = "ACKNOWLEDGING_CONNECT" THEN "CONNECTED" ELSE m.state
           hs == Append(q.hist, s)
           r == [m EXCEPT !.lastRtt = lr, !.lastVar = lv, !.lowest = ll, !.highest = hh,
                          !.state = st, !.hist = hs]
<1>3. m.rtt \in Nat /\ m.var \in Nat /\ m.lowest \in Nat /\ m.highest \in Nat
      /\ m.lastRtt \in Nat /\ m.lastVar \in Nat /\ q.hist \in Seq(Nat)
  BY <1>1, FlowFields DEF FlowPeerOK
<1>4. /\ ll \in Nat /\ hh \in Nat /\ lr \in Nat /\ lv \in Nat /\ ll <= m.rtt /\ hh >= m.var
  BY <1>3
<1>5. /\ Range(hs) = Range(q.hist) \cup {s} /\ hs \in Seq(Nat)
  BY <1>3, RangeOfHistory
<1>6. st \in {"DISCONNECTED", "CONNECTING", "ACKNOWLEDGING_CONNECT", "CONNECTED"}
  BY <1>1 DEF FlowPeer
<1>7. Acknowledged(q, s, over) = r
  <2> DEFINE new == IF over
                    THEN [m EXCEPT !.lastRtt = low, !.lastVar = IF high > 1 THEN high ELSE 1,
                                   !.lowest = m.rtt, !.highest = m.var]
                    ELSE [m EXCEPT !.lowest = low, !.highest = high]
  <2>1. Acknowledged(q, s, over) =
          [new EXCEPT !.state = IF new.state = "ACKNOWLEDGING_CONNECT" THEN "CONNECTED" ELSE new.state,
                      !.hist = Append(new.hist, s)]
    BY DEF Acknowledged
  <2> HIDE DEF m, low, high
  <2>2. new.state = m.state /\ new.hist = q.hist
    BY <1>1 DEF FlowPeer
  <2>3. new = [m EXCEPT !.lastRtt = lr, !.lastVar = lv, !.lowest = ll, !.highest = hh]
    <3>1. CASE over
      BY <1>1, <3>1 DEF FlowPeer
    <3>2. CASE ~over
      BY <1>1, <3>2 DEF FlowPeer
    <3> QED BY <3>1, <3>2
  <2>4. Acknowledged(q, s, over) = [new EXCEPT !.state = st, !.hist = hs]
    BY <2>1, <2>2
  <2> HIDE DEF new, lr, lv, ll, hh, st, hs
  <2> QED BY <2>3, <2>4
<1> HIDE DEF m, low, high, ll, hh, lr, lv, hs
<1>8. r \in FlowPeer
  <2> HIDE DEF st
  <2> QED BY <1>1, <1>4, <1>5, <1>6 DEF FlowPeer
<1>9. /\ r.state = st /\ r.in = q.in /\ r.told = q.told /\ r.window = q.window /\ r.total = q.total
      /\ r.throttle = m.throttle /\ r.limit = m.limit /\ r.hist = hs /\ r.rtt = m.rtt
      /\ r.var = m.var /\ r.lowest = ll /\ r.highest = hh
  <2> HIDE DEF st
  <2> QED BY <1>1 DEF FlowPeer
<1> HIDE DEF r
<1>10. Trips(r)
  <2>1. lo \in Range(r.hist) /\ hi \in Range(r.hist)
        /\ \A x \in Range(r.hist) : lo <= x /\ x <= hi
    BY <1>2, <1>5, <1>9
  <2>2. lo <= r.rtt /\ r.rtt <= hi /\ r.var <= hi /\ r.lowest <= r.rtt /\ r.highest >= r.var
    BY <1>2, <1>4, <1>9
  <2> QED BY <2>1, <2>2, Zenon DEF Trips
<1>11. WindowOf(r)
  BY <1>9 DEF FlowPeerOK, WindowOf
<1>12. Handshake(r)
  <2>1. Handshake(q)
    BY DEF FlowPeerOK
  <2>2. r.state # "DISCONNECTED" /\ (r.state # "CONNECTED" => r.state = q.state)
    BY <1>1, <1>9
  <2> QED BY <1>9, <2>1, <2>2 DEF Handshake
<1>13. FlowPeerOK(r)
  BY <1>1, <1>8, <1>9, <1>10, <1>11, <1>12 DEF FlowPeerOK
<1> QED BY <1>1, <1>7, <1>9, <1>13
----------------------------------------------------------------------------
(* Limits of the throttle.                                                  *)

LEMMA EarnedType ==
    ASSUME NEW b \in Nat, NEW e \in Nat
    PROVE  Earned(b, e) \in 0 .. Word - 1
<1> DEFINE x == (b * e) % Word
<1>1. b * e \in Int /\ Word \in Nat \ {0} /\ Second \in Nat \ {0}
  BY FlowConstants
<1>2. x \in Nat /\ x <= Word - 1
  BY <1>1, Division
<1> HIDE DEF x
<1>3. x <= x * Second
  BY <1>1, <1>2
<1>4. x \div Second \in Nat /\ x \div Second <= x
  BY <1>1, <1>2, <1>3, QuotientBound
<1>5. Earned(b, e) = x \div Second
  BY DEF Earned, x
<1> QED BY <1>1, <1>2, <1>4, <1>5

LEMMA FittingType ==
    ASSUME NEW acc, acc.data \in Nat, acc.bandwidth \in Nat
    PROVE  Fitting(acc) \in 0 .. Scale
<1>1. CASE acc.data <= acc.bandwidth
  BY <1>1, FlowConstants DEF Fitting
<1>2. CASE ~(acc.data <= acc.bandwidth)
  <2> DEFINE b == acc.bandwidth
             d == acc.data
             x == (b * Scale) % Word
  <2>1. d \in Nat \ {0} /\ b < d /\ b \in Nat /\ Scale \in Nat /\ Word \in Nat \ {0}
    BY <1>2, FlowConstants
  <2>2. Fitting(acc) = x \div d
    BY <1>2 DEF Fitting
  <2> HIDE DEF b, d
  <2>3. b * Scale \in Nat /\ b * Scale <= Scale * d
    BY <2>1
  <2>4. x \in Nat /\ x <= b * Scale
    BY <2>1, <2>3, RemainderNat
  <2> HIDE DEF x
  <2>5. x <= Scale * d
    BY <2>1, <2>3, <2>4
  <2> QED BY <2>1, <2>2, <2>4, <2>5, QuotientBound
<1> QED BY <1>1, <1>2

\* A peer that cannot take what the throttle lets through gets a lower limit.
LEMMA LimitWithin ==
    ASSUME NEW t \in 0 .. Scale, NEW n \in Nat, NEW its \in Nat,
           ~(((t * n) % Word) \div Scale <= its)
    PROVE  LET l == ((its * Scale) % Word) \div n
           IN  (IF l = 0 THEN 1 ELSE l) \in 0 .. Scale
<1> DEFINE x == (t * n) % Word
           y == x \div Scale
           z == (its * Scale) % Word
<1>1. Scale \in Nat \ {0} /\ Scale >= 2 /\ Word \in Nat \ {0}
  BY FlowConstants
<1>2. t * n \in Nat /\ its * Scale \in Nat /\ t * n <= Scale * n
  BY <1>1
<1>3. x \in Nat /\ x <= t * n /\ z \in Nat /\ z <= its * Scale
  BY <1>1, <1>2, RemainderNat
<1>4. y \in Int /\ x = Scale * y + (x % Scale) /\ x % Scale \in 0 .. Scale - 1
  BY <1>1, <1>3, Division
<1>5. y > its
  BY <1>4
<1> HIDE DEF x, y, z
<1>6. Scale * y >= Scale * its /\ Scale * its = its * Scale
  BY <1>1, <1>4, <1>5
<1>7. Scale * y <= x
  BY <1>1, <1>3, <1>4
<1>8. z <= Scale * n
  BY <1>1, <1>2, <1>3, <1>4, <1>6, <1>7
<1>9. n # 0
  <2> SUFFICES ASSUME n = 0 PROVE FALSE
    OBVIOUS
  <2>1. x = 0
    BY <1>2, <1>3
  <2>2. Scale * y >= y /\ y \in Nat /\ y > 0
    BY <1>1, <1>4, <1>5
  <2>3. Scale * y \in Int
    BY <1>1, <2>2
  <2> QED BY <1>7, <2>1, <2>2, <2>3
<1>10. z \div n \in Nat /\ z \div n <= Scale
  BY <1>1, <1>3, <1>8, <1>9, QuotientBound
<1> QED BY <1>1, <1>10 DEF z

\* What a pass works on, and what it keeps of the peers.
LimitAcc ==
    [peer : [Peers -> FlowPeer], done : SUBSET Peers, throttle : 0 .. Scale, again : BOOLEAN,
     bandwidth : 0 .. Word - 1, data : 0 .. Word - 1]
Same(q, r) == FlowPeerOK(r) /\ r.state = q.state /\ r.told = q.told /\ r.out = q.out
Limiting(acc) == acc \in LimitAcc /\ \A p \in Peers : Same(peer[p], acc.peer[p])

LEMMA LimitFields ==
    ASSUME NEW acc \in LimitAcc
    PROVE  /\ acc.peer \in [Peers -> FlowPeer] /\ acc.done \in SUBSET Peers
           /\ acc.throttle \in 0 .. Scale /\ acc.again \in BOOLEAN
           /\ acc.bandwidth \in Nat /\ acc.data \in Nat
<1>1. /\ acc.peer \in [Peers -> FlowPeer] /\ acc.done \in SUBSET Peers
      /\ acc.throttle \in 0 .. Scale /\ acc.again \in BOOLEAN
      /\ acc.bandwidth \in 0 .. Word - 1 /\ acc.data \in 0 .. Word - 1
  BY DEF LimitAcc
<1> QED BY <1>1, FlowConstants

LEMMA LimitPeerKeeps ==
    ASSUME NEW p \in Peers, NEW acc, Limiting(acc), NEW period \in Nat
    PROVE  Limiting(LimitPeer(period, acc, p))
<1> DEFINE q == acc.peer[p]
           its == Earned(q.in, period)
           l == ((its * Scale) % Word) \div q.total
           limit == IF l = 0 THEN 1 ELSE l
           skip == \/ p \notin Connected(acc.peer) \/ q.in = 0 \/ p \in acc.done
                   \/ ((acc.throttle * q.total) % Word) \div Scale <= its
           r == Limited(q, limit)
           ps == [acc.peer EXCEPT ![p] = r]
           done == acc.done \cup {p}
           b == (acc.bandwidth - its) % Word
           d == (acc.data - its) % Word
           new == [acc EXCEPT !.peer[p] = r, !.done = @ \cup {p}, !.again = TRUE,
                              !.bandwidth = (@ - its) % Word, !.data = (@ - its) % Word]
<1>1. LimitPeer(period, acc, p) = IF skip THEN acc ELSE new
  BY DEF LimitPeer
<1> SUFFICES ASSUME ~skip PROVE Limiting(new)
  BY <1>1
<1>2. /\ acc \in LimitAcc /\ acc.peer \in [Peers -> FlowPeer] /\ acc.done \in SUBSET Peers
      /\ acc.throttle \in 0 .. Scale /\ acc.bandwidth \in Nat /\ acc.data \in Nat
      /\ q \in FlowPeer /\ FlowPeerOK(q)
  BY LimitFields DEF Limiting, Same, FlowPeerOK
<1>3. q.total \in Nat /\ q.in \in Nat /\ q.state = "CONNECTED"
  BY <1>2, FlowFields DEF Connected
<1>4. its \in 0 .. Word - 1 /\ its \in Nat
  <2>1. its \in 0 .. Word - 1
    BY <1>3, EarnedType
  <2> HIDE DEF its
  <2> QED BY <2>1
<1> HIDE DEF its
<1>5. limit \in 0 .. Scale
  <2>1. ~(((acc.throttle * q.total) % Word) \div Scale <= its)
    OBVIOUS
  <2> QED BY <1>2, <1>3, <1>4, <2>1, LimitWithin
<1> HIDE DEF limit
<1>6. FlowPeerOK(r) /\ r.state = q.state /\ r.told = q.told /\ r.out = q.out /\ r \in FlowPeer
  BY <1>2, <1>3, <1>5, LimitedOK DEF FlowPeerOK
<1> HIDE DEF r
<1>7. b \in 0 .. Word - 1 /\ d \in 0 .. Word - 1
  <2>1. acc.bandwidth - its \in Int /\ acc.data - its \in Int /\ Word \in Nat \ {0}
    BY <1>2, <1>4, FlowConstants
  <2> QED BY <2>1, Division
<1>8. new = [acc EXCEPT !.peer = ps, !.done = done, !.again = TRUE, !.bandwidth = b, !.data = d]
  OBVIOUS
<1>9. ps \in [Peers -> FlowPeer] /\ done \in SUBSET Peers
  BY <1>2, <1>6
<1>10. \A j \in Peers : ps[j] = IF j = p THEN r ELSE acc.peer[j]
  BY <1>2
<1> HIDE DEF new, ps, b, d, done, q
<1>11. new \in LimitAcc /\ new.peer = ps
  BY <1>2, <1>7, <1>8, <1>9 DEF LimitAcc
<1>12. ASSUME NEW j \in Peers PROVE Same(peer[j], new.peer[j])
  <2>1. Same(peer[j], acc.peer[j])
    BY DEF Limiting
  <2>2. CASE j = p
    BY <1>6, <1>10, <1>11, <2>1, <2>2 DEF Same, q
  <2>3. CASE j # p
    BY <1>10, <1>11, <2>1, <2>3
  <2> QED BY <2>2, <2>3
<1> QED BY <1>11, <1>12 DEF Limiting

LEMMA LimitPassWalks ==
    ASSUME NEW acc, NEW period, PeerCount \in Nat, acc.again /\ acc.done # Connected(peer)
    PROVE  \E w : FlowWalk(w, PeerCount, "limit", period,
                           [acc EXCEPT !.again = FALSE, !.throttle = Fitting(acc)])
                  /\ LimitPass(period, acc) = w[PeerCount]
<1> DEFINE A == [acc EXCEPT !.again = FALSE, !.throttle = Fitting(acc)]
           w == CHOOSE w : FlowWalk(w, PeerCount, "limit", period, A)
<1>1. FlowWalk(w, PeerCount, "limit", period, A)
  BY FlowWalkExists
<1>2. LimitPass(period, acc) = w[PeerCount]
  BY DEF LimitPass, FlowWalk, Visit
<1> QED BY <1>1, <1>2

LEMMA LimitPassKeeps ==
    ASSUME PeerCount \in Nat, NEW acc, Limiting(acc), NEW period \in Nat
    PROVE  Limiting(LimitPass(period, acc))
<1> DEFINE A == [acc EXCEPT !.again = FALSE, !.throttle = Fitting(acc)]
           n == PeerCount
<1>1. CASE ~(acc.again /\ acc.done # Connected(peer))
  <2>1. LimitPass(period, acc) = acc
    BY <1>1 DEF LimitPass
  <2> QED BY <2>1
<1>2. CASE acc.again /\ acc.done # Connected(peer)
  <2>1. PICK w : FlowWalk(w, n, "limit", period, A) /\ LimitPass(period, acc) = w[n]
    BY <1>2, LimitPassWalks
  <2>2. Limiting(A)
    <3>1. Fitting(acc) \in 0 .. Scale /\ acc \in LimitAcc
      BY LimitFields, FittingType DEF Limiting
    <3>2. A \in LimitAcc /\ A.peer = acc.peer
      BY <3>1 DEF LimitAcc
    <3> HIDE DEF A
    <3> QED BY <3>2 DEF Limiting
  <2> HIDE DEF A
  <2>3. w[0] = A /\ \A i \in 1 .. n : w[i] = Visit("limit", period, w[i - 1], i)
    BY <2>1, WalkSteps
  <2> DEFINE R == {m \in Nat : m <= n => Limiting(w[m])}
  <2>4. 0 \in R
    BY <2>2, <2>3
  <2>5. ASSUME NEW m \in Nat, m \in R PROVE m + 1 \in R
    <3> SUFFICES ASSUME m + 1 <= n PROVE Limiting(w[m + 1])
      OBVIOUS
    <3>1. m + 1 \in 1 .. n /\ (m + 1) - 1 = m /\ Limiting(w[m]) /\ m + 1 \in Peers
      BY <2>5 DEF Peers
    <3>2. w[m + 1] = LimitPeer(period, w[m], m + 1)
      <4>1. w[m + 1] = Visit("limit", period, w[m], m + 1)
        BY <2>3, <3>1
      <4> QED BY <4>1 DEF Visit
    <3> QED BY <3>1, <3>2, LimitPeerKeeps
  <2>6. Nat \subseteq R
    <3> HIDE DEF R
    <3> QED BY <2>4, <2>5, Induct
  <2> QED BY <2>1, <2>6
<1> QED BY <1>1, <1>2

\* The sum of the data of the connected peers.
LEMMA TotalIsSum ==
    ASSUME NEW f, NEW S
    PROVE  Total(f, S) = SumTo(f, S, PeerCount)
  BY DEF Total, SumTo

\* enet_host_bandwidth_throttle leaves every peer with a limit and a throttle
\* within the scale, and does not touch what it is told.
LEMMA LimitPeersKeep ==
    ASSUME FlowInv, NEW period \in Nat
    PROVE  /\ LimitPeers(period) = [p \in Peers |-> LimitPeers(period)[p]]
           /\ \A p \in Peers : Same(peer[p], LimitPeers(period)[p])
<1> DEFINE n == PeerCount + 1
           total == Total([p \in Peers |-> peer[p].total], Connected(peer))
           start == [peer |-> peer, done |-> {}, throttle |-> 0,
                     again |-> \E p \in Connected(peer) : peer[p].in # 0,
                     bandwidth |-> IF host.out = 0 THEN Word - 1 ELSE Earned(host.out, period),
                     data |-> IF host.out = 0 THEN Word - 1 ELSE total % Word]
           w == CHOOSE w : FlowWalk(w, n, "limits", period, start)
           end == w[n]
           ps == [p \in Peers |-> IF p \in Connected(peer) \ end.done
                                  THEN Limited(end.peer[p], Fitting(end)) ELSE end.peer[p]]
<1>1. /\ PeerCount \in Nat /\ n \in Nat /\ \A p \in Peers : FlowPeerOK(peer[p]) /\ peer[p] \in FlowPeer
      /\ peer \in [Peers -> FlowPeer] /\ host.out \in Nat
  <2>1. PeerCount \in Nat
    BY DEF FlowInv, PeerCount
  <2>2. host.out \in 0 .. Word - 1
    BY FlowConstants DEF FlowInv
  <2>3. \A p \in Peers : FlowPeerOK(peer[p]) /\ peer[p] \in FlowPeer
    BY DEF FlowInv, FlowPeerOK
  <2>4. peer \in [Peers -> FlowPeer]
    BY <2>3 DEF FlowInv
  <2> QED BY <2>1, <2>2, <2>3, <2>4
<1>2. FlowWalk(w, n, "limits", period, start)
  BY <1>1, FlowWalkExists
<1>3. LimitPeers(period) = ps
  BY SMTT(30) DEF LimitPeers, FlowWalk, Visit
<1>4. Limiting(start)
  <2>1. total \in Int
    <3> DEFINE f == [p \in Peers |-> peer[p].total]
    <3>1. \A p \in 1 .. PeerCount : Item(f, Connected(peer), p) \in Nat
      BY <1>1, FlowFields DEF Item, Peers
    <3> HIDE DEF f
    <3>2. SumTo(f, Connected(peer), PeerCount) \in Nat
      BY <1>1, <3>1, SumGrows
    <3> QED BY <3>2, TotalIsSum DEF f
  <2> DEFINE b == IF host.out = 0 THEN Word - 1 ELSE Earned(host.out, period)
             d == IF host.out = 0 THEN Word - 1 ELSE total % Word
             a == \E p \in Connected(peer) : peer[p].in # 0
  <2>2. Word \in Nat \ {0} /\ 0 \in 0 .. Scale
    BY FlowConstants
  <2>3. b \in 0 .. Word - 1
    <3>1. Earned(host.out, period) \in 0 .. Word - 1
      BY <1>1, EarnedType
    <3> QED BY <2>2, <3>1
  <2>4. d \in 0 .. Word - 1
    <3>1. total % Word \in 0 .. Word - 1
      BY <2>1, <2>2, Division
    <3> QED BY <2>2, <3>1
  <2>5. a \in BOOLEAN
    OBVIOUS
  <2> HIDE DEF b, d, a, total
  <2>6. start = [peer |-> peer, done |-> {}, throttle |-> 0, again |-> a, bandwidth |-> b, data |-> d]
    BY DEF a, b, d
  <2> HIDE DEF start
  <2>7. start \in LimitAcc /\ start.peer = peer
    BY <1>1, <2>2, <2>3, <2>4, <2>5, <2>6 DEF LimitAcc
  <2> QED BY <1>1, <2>7 DEF Limiting, Same
<1> HIDE DEF start, w
<1>5. w[0] = start /\ \A i \in 1 .. n : w[i] = Visit("limits", period, w[i - 1], i)
  BY <1>1, <1>2, WalkSteps
<1> DEFINE R == {m \in Nat : m <= n => Limiting(w[m])}
<1>6. 0 \in R
  BY <1>4, <1>5
<1>7. ASSUME NEW m \in Nat, m \in R PROVE m + 1 \in R
  <2> SUFFICES ASSUME m + 1 <= n PROVE Limiting(w[m + 1])
    OBVIOUS
  <2>1. m + 1 \in 1 .. n /\ (m + 1) - 1 = m /\ Limiting(w[m])
    BY <1>1, <1>7
  <2>2. w[m + 1] = LimitPass(period, w[m])
    <3>1. w[m + 1] = Visit("limits", period, w[m], m + 1)
      BY <1>5, <2>1
    <3> QED BY <3>1 DEF Visit
  <2> QED BY <1>1, <2>1, <2>2, LimitPassKeeps
<1>8. Limiting(end)
  <2>1. Nat \subseteq R
    <3> HIDE DEF R
    <3> QED BY <1>6, <1>7, Induct
  <2> QED BY <1>1, <2>1
<1> HIDE DEF end
<1>9. Fitting(end) \in 0 .. Scale
  BY <1>8, LimitFields, FittingType DEF Limiting
<1>10. ASSUME NEW p \in Peers PROVE Same(peer[p], ps[p])
  <2>1. Same(peer[p], end.peer[p])
    BY <1>8 DEF Limiting
  <2>2. CASE p \in Connected(peer) \ end.done
    <3>1. ps[p] = Limited(end.peer[p], Fitting(end))
      BY <2>2
    <3>2. FlowPeerOK(end.peer[p]) /\ end.peer[p].state = "CONNECTED"
      BY <2>1, <2>2 DEF Same, Connected
    <3> HIDE DEF ps
    <3> QED BY <1>9, <2>1, <3>1, <3>2, LimitedOK DEF Same
  <2>3. CASE p \notin Connected(peer) \ end.done
    BY <2>1, <2>3
  <2> QED BY <2>2, <2>3
<1>11. ps = [p \in Peers |-> ps[p]]
  OBVIOUS
<1> HIDE DEF ps
<1> QED BY <1>3, <1>10, <1>11

----------------------------------------------------------------------------
(* The incoming bandwidth that the host grants.                             *)

\* What the peers of ps would be told if those not granted got c.
ToldIf(ps, done, c) == [p \in Connected(ps) |-> IF p \in done THEN ps[p].out ELSE c]

\* Whatever the others get, what was granted and they add up to what was taken
\* from the bandwidth of the host and their number times that; and the share
\* can be given to all of them.
GrantAcc == [done : SUBSET Peers, again : BOOLEAN, bandwidth : Nat, share : Nat, left : Nat]
Granting(ps, acc) ==
    /\ acc \in GrantAcc /\ acc.bandwidth <= host.in
    /\ acc.left = Cardinality(Connected(ps) \ acc.done)
    /\ acc.share * acc.left <= acc.bandwidth
    /\ \A c \in Nat : SumTo(ToldIf(ps, acc.done, c), Connected(ps), PeerCount)
                        = (host.in - acc.bandwidth) + c * acc.left

\* The peers that take part, as these proofs need them.
Announced(ps) ==
    /\ PeerCount \in Nat /\ host.in \in 0 .. Word - 1
    /\ \A p \in Peers : ps[p].out \in Nat /\ ps[p].out < Word

LEMMA ConnectedFinite ==
    ASSUME PeerCount \in Nat, NEW ps, NEW D
    PROVE  /\ Connected(ps) \subseteq 1 .. PeerCount /\ IsFiniteSet(Connected(ps) \ D)
           /\ Cardinality(Connected(ps) \ D) \in Nat
<1>1. Connected(ps) \subseteq 1 .. PeerCount
  BY DEF Connected, Peers
<1>2. IsFiniteSet(1 .. PeerCount)
  BY FS_Interval
<1>3. IsFiniteSet(Connected(ps) \ D)
  BY <1>1, <1>2, FS_Subset
<1> QED BY <1>1, <1>3, FS_CardinalityType

LEMMA GrantKeeps ==
    ASSUME NEW ps, Announced(ps), NEW acc, Granting(ps, acc), NEW p \in Peers
    PROVE  Granting(ps, Grant(ps, acc, p))
<1> DEFINE C == Connected(ps)
           D == acc.done
           E == acc.done \cup {p}
           o == ps[p].out
           B == acc.bandwidth
           k == acc.left
           s == acc.share
           b == (B - o) % Word
           skip == p \notin C \/ p \in D \/ (o > 0 /\ o >= s)
           new == [acc EXCEPT !.done = E, !.again = TRUE, !.left = k - 1, !.bandwidth = b]
<1>1. Grant(ps, acc, p) = IF skip THEN acc ELSE new
  BY DEF Grant
<1> SUFFICES ASSUME ~skip PROVE Granting(ps, new)
  BY <1>1
<1>2. /\ acc \in GrantAcc /\ D \in SUBSET Peers /\ B \in Nat /\ s \in Nat /\ k \in Nat
      /\ B <= host.in /\ k = Cardinality(C \ D) /\ s * k <= B
  BY DEF Granting, GrantAcc
<1>3. /\ PeerCount \in Nat /\ host.in \in Nat /\ host.in < Word /\ Word \in Nat \ {0}
      /\ o \in Nat /\ o <= s /\ p \in C /\ p \notin D /\ p \in 1 .. PeerCount
  <2>1. host.in \in 0 .. Word - 1 /\ Word \in Nat \ {0} /\ PeerCount \in Nat /\ o \in Nat
    BY FlowConstants DEF Announced
  <2>2. p \in C /\ p \notin D /\ ~(o > 0 /\ o >= s) /\ p \in 1 .. PeerCount
    BY DEF Peers
  <2> QED BY <1>2, <2>1, <2>2
<1>4. /\ k >= 1 /\ Cardinality(C \ E) = k - 1
  <2>1. C \ E = (C \ D) \ {p} /\ p \in C \ D
    BY <1>3
  <2>2. IsFiniteSet(C \ D) /\ Cardinality(C \ D) \in Nat
    BY <1>3, ConnectedFinite
  <2>3. Cardinality((C \ D) \ {p}) = Cardinality(C \ D) - 1
    BY <2>1, <2>2, FS_RemoveElement
  <2>4. Cardinality(C \ D) # 0
    BY <2>1, <2>2, FS_EmptySet
  <2>5. Cardinality(C \ E) = Cardinality(C \ D) - 1
    BY <2>1, <2>3
  <2> HIDE DEF C, D, E, k
  <2> QED BY <1>2, <2>2, <2>4, <2>5
<1> HIDE DEF C, D, o, B, k, s
<1>5. s * k = s * (k - 1) + s /\ s * (k - 1) \in Nat
  BY <1>2, <1>4
<1>6. b = B - o /\ b \in Nat /\ b <= host.in /\ s * (k - 1) <= b
  <2>1. B - o \in Nat /\ B - o < Word /\ B - o <= host.in /\ s * (k - 1) <= B - o
    BY <1>2, <1>3, <1>5
  <2>2. (B - o) % Word = B - o
    BY <1>3, <2>1, RemainderNear
  <2> QED BY <2>1, <2>2
<1> HIDE DEF b
<1>7. ASSUME NEW c \in Nat
      PROVE  SumTo(ToldIf(ps, E, c), C, PeerCount) = (host.in - b) + c * (k - 1)
  <2> DEFINE f == ToldIf(ps, D, c)
             g == ToldIf(ps, E, c)
             d == o - c
  <2>1. \A j \in C : f[j] = (IF j \in D THEN ps[j].out ELSE c)
                     /\ g[j] = (IF j \in E THEN ps[j].out ELSE c)
    BY DEF ToldIf, C
  <2>2. \A j \in 1 .. PeerCount : ps[j].out \in Nat
    BY DEF Announced, Peers
  <2> HIDE DEF f, g
  <2>3. \A j \in 1 .. PeerCount : Item(f, C, j) \in Int
    BY <2>1, <2>2 DEF Item
  <2>4. \A j \in 1 .. PeerCount : Item(g, C, j) = IF j = p THEN Item(f, C, j) + d ELSE Item(f, C, j)
    <3> SUFFICES ASSUME NEW j \in 1 .. PeerCount
                 PROVE  Item(g, C, j) = IF j = p THEN Item(f, C, j) + d ELSE Item(f, C, j)
      OBVIOUS
    <3>1. CASE j = p
      <4>1. Item(g, C, j) = o /\ Item(f, C, j) = c
        BY <1>3, <2>1, <3>1 DEF Item, o, D
      <4> QED BY <1>3, <3>1, <4>1
    <3>2. CASE j # p
      <4>1. j \in E <=> j \in D
        BY <3>2 DEF D
      <4> QED BY <2>1, <3>2, <4>1 DEF Item
    <3> QED BY <3>1, <3>2
  <2>5. d \in Int
    BY <1>3
  <2> HIDE DEF d
  <2>6. SumTo(f, C, PeerCount) \in Int /\ SumTo(g, C, PeerCount) = SumTo(f, C, PeerCount) + d
    <3>1. PeerCount \in Nat /\ p \in 1 .. PeerCount
      BY <1>3
    <3>2. Differ(f, g, C, PeerCount, p, d)
      BY <2>3, <2>4, <2>5, <3>1 DEF Differ
    <3> QED BY <3>2, SumMoves
  <2>7. SumTo(f, C, PeerCount) = (host.in - B) + c * k
    BY DEF Granting, f, C, B, k, D
  <2>8. c * k = c * (k - 1) + c /\ c * (k - 1) \in Int
    BY <1>2, <1>4
  <2>9. SumTo(g, C, PeerCount) = (host.in - b) + c * (k - 1)
    BY <1>2, <1>3, <1>6, <2>6, <2>7, <2>8 DEF d
  <2> QED BY <2>9 DEF g
<1>8. E \in SUBSET Peers
  BY <1>2 DEF D
<1> HIDE DEF E
<1>9. /\ new \in GrantAcc /\ new.done = E /\ new.left = k - 1 /\ new.bandwidth = b /\ new.share = s
  <2> DEFINE m == k - 1
  <2>1. m \in Nat
    BY <1>2, <1>4
  <2> HIDE DEF m
  <2>2. [acc EXCEPT !.done = E, !.again = TRUE, !.left = m, !.bandwidth = b] \in GrantAcc
    BY <1>2, <1>6, <1>8, <2>1 DEF GrantAcc
  <2>3. /\ new.done = E /\ new.left = k - 1 /\ new.bandwidth = b /\ new.share = acc.share
    BY <1>2 DEF GrantAcc
  <2> QED BY <2>2, <2>3 DEF m, s
<1> HIDE DEF new
<1> QED BY <1>4, <1>6, <1>7, <1>9 DEF Granting, C

LEMMA GrantPassWalks ==
    ASSUME NEW ps, NEW acc, PeerCount \in Nat, acc.again /\ acc.left > 0
    PROVE  \E w : FlowWalk(w, PeerCount, "grant", ps,
                           [acc EXCEPT !.again = FALSE, !.share = acc.bandwidth \div acc.left])
                  /\ GrantPass(ps, acc) = w[PeerCount]
<1> DEFINE A == [acc EXCEPT !.again = FALSE, !.share = acc.bandwidth \div acc.left]
           w == CHOOSE w : FlowWalk(w, PeerCount, "grant", ps, A)
<1>1. FlowWalk(w, PeerCount, "grant", ps, A)
  BY FlowWalkExists
<1>2. GrantPass(ps, acc) = w[PeerCount]
  BY DEF GrantPass, FlowWalk, Visit
<1> QED BY <1>1, <1>2

LEMMA GrantPassKeeps ==
    ASSUME NEW ps, Announced(ps), NEW acc, Granting(ps, acc)
    PROVE  Granting(ps, GrantPass(ps, acc))
<1> DEFINE s == acc.bandwidth \div acc.left
           A == [acc EXCEPT !.again = FALSE, !.share = s]
           n == PeerCount
<1>1. CASE ~(acc.again /\ acc.left > 0)
  <2>1. GrantPass(ps, acc) = acc
    BY <1>1 DEF GrantPass
  <2> QED BY <2>1
<1>2. CASE acc.again /\ acc.left > 0
  <2>0. n \in Nat
    BY DEF Announced
  <2>1. PICK w : FlowWalk(w, n, "grant", ps, A) /\ GrantPass(ps, acc) = w[n]
    BY <1>2, <2>0, GrantPassWalks
  <2>2. Granting(ps, A)
    <3>1. acc \in GrantAcc /\ acc.bandwidth \in Nat /\ acc.left \in Nat \ {0}
      BY <1>2 DEF Granting, GrantAcc
    <3>2. s \in Nat /\ s * acc.left <= acc.bandwidth
      <4> DEFINE k == acc.left
                 B == acc.bandwidth
      <4>1. s \in Nat /\ B - (B % k) = k * s /\ B % k \in 0 .. k - 1
        <5>1. B \in Nat /\ k \in Nat \ {0} /\ s = B \div k
          BY <3>1
        <5> HIDE DEF B, k
        <5>2. B % k \in 0 .. k - 1
          BY <5>1, Division
        <5>3. B \div k \in Nat /\ B - (B % k) = k * (B \div k)
          BY <5>1, RemainderBelow
        <5> QED BY <5>1, <5>2, <5>3
      <4> HIDE DEF s, k, B
      <4>2. k * s <= B /\ k * s = s * k
        BY <3>1, <4>1 DEF k, B
      <4> QED BY <4>1, <4>2 DEF k, B
    <3> HIDE DEF s
    <3>3. A \in GrantAcc /\ A.done = acc.done /\ A.left = acc.left /\ A.bandwidth = acc.bandwidth
          /\ A.share = s
      BY <3>1, <3>2 DEF GrantAcc
    <3> HIDE DEF A
    <3> QED BY <3>2, <3>3 DEF Granting
  <2> HIDE DEF A
  <2>3. w[0] = A /\ \A i \in 1 .. n : w[i] = Visit("grant", ps, w[i - 1], i)
    BY <2>0, <2>1, WalkSteps
  <2> DEFINE R == {m \in Nat : m <= n => Granting(ps, w[m])}
  <2>4. 0 \in R
    BY <2>2, <2>3
  <2>5. ASSUME NEW m \in Nat, m \in R PROVE m + 1 \in R
    <3> SUFFICES ASSUME m + 1 <= n PROVE Granting(ps, w[m + 1])
      OBVIOUS
    <3>1. m + 1 \in 1 .. n /\ (m + 1) - 1 = m /\ Granting(ps, w[m]) /\ m + 1 \in Peers
      BY <2>0, <2>5 DEF Peers
    <3>2. w[m + 1] = Grant(ps, w[m], m + 1)
      <4>1. w[m + 1] = Visit("grant", ps, w[m], m + 1)
        BY <2>3, <3>1
      <4> QED BY <4>1 DEF Visit
    <3> QED BY <3>1, <3>2, GrantKeeps
  <2>6. Nat \subseteq R
    <3> HIDE DEF R
    <3> QED BY <2>4, <2>5, Induct
  <2> QED BY <2>0, <2>1, <2>6
<1> QED BY <1>1, <1>2

\* What the connected peers are told adds up to no more than the host has.
LEMMA GrantsAddUp ==
    ASSUME NEW ps, Announced(ps)
    PROVE  LET t == Grants(ps)
           IN  /\ t = [p \in Connected(ps) |-> t[p]]
               /\ \A p \in Connected(ps) : t[p] \in Nat
               /\ SumTo(t, Connected(ps), PeerCount) <= host.in
<1> DEFINE C == Connected(ps)
           n == PeerCount + 1
           start == [done |-> {}, again |-> host.in # 0, bandwidth |-> host.in, share |-> 0,
                     left |-> Cardinality(C)]
           w == CHOOSE w : FlowWalk(w, n, "grants", ps, start)
           end == w[n]
<1>1. PeerCount \in Nat /\ n \in Nat /\ host.in \in Nat
  BY FlowConstants DEF Announced
<1>2. FlowWalk(w, n, "grants", ps, start)
  BY <1>1, FlowWalkExists
<1>3. Grants(ps) = ToldIf(ps, end.done, end.share)
  BY DEF Grants, ToldIf, FlowWalk, Visit
<1>4. Granting(ps, start)
  <2> DEFINE k == Cardinality(C)
  <2>1. C \subseteq 1 .. PeerCount /\ C \ {} = C /\ k \in Nat
    BY <1>1, ConnectedFinite
  <2>2. start.done = {} /\ start.bandwidth = host.in /\ start.share = 0 /\ start.left = k
    OBVIOUS
  <2>3. start \in GrantAcc
    BY <1>1, <2>1 DEF GrantAcc
  <2>4. ASSUME NEW c \in Nat PROVE SumTo(ToldIf(ps, {}, c), C, PeerCount) = (host.in - host.in) + c * k
    <3> DEFINE f == ToldIf(ps, {}, c)
    <3>1. \A p \in C : f[p] = c
      BY DEF ToldIf
    <3> HIDE DEF f
    <3>2. SumTo(f, C, PeerCount) = c * k
      BY <1>1, <2>1, <3>1, SumOfEqual
    <3> HIDE DEF k
    <3>3. c * k \in Nat
      BY <2>1
    <3> QED BY <1>1, <3>2, <3>3 DEF f
  <2> HIDE DEF start, k
  <2>5. start.share * start.left <= start.bandwidth
    BY <1>1, <2>1, <2>2
  <2> QED BY <1>1, <2>1, <2>2, <2>3, <2>4, <2>5 DEF Granting, k
<1> HIDE DEF start, w
<1>5. w[0] = start /\ \A i \in 1 .. n : w[i] = Visit("grants", ps, w[i - 1], i)
  <2>1. n \in Nat /\ FlowWalk(w, n, "grants", ps, start)
    BY <1>1, <1>2
  <2> HIDE DEF n, C, end
  <2> QED BY ONLY <2>1, WalkSteps
<1> DEFINE R == {m \in Nat : m <= n => Granting(ps, w[m])}
<1>6. 0 \in R
  BY <1>4, <1>5
<1>7. ASSUME NEW m \in Nat, m \in R PROVE m + 1 \in R
  <2> SUFFICES ASSUME m + 1 <= n PROVE Granting(ps, w[m + 1])
    OBVIOUS
  <2>1. m + 1 \in 1 .. n /\ (m + 1) - 1 = m /\ Granting(ps, w[m])
    BY <1>1, <1>7
  <2>2. w[m + 1] = GrantPass(ps, w[m])
    <3>1. w[m + 1] = Visit("grants", ps, w[m], m + 1)
      BY <1>5, <2>1
    <3> QED BY <3>1 DEF Visit
  <2> QED BY <2>1, <2>2, GrantPassKeeps
<1>8. Granting(ps, end)
  <2>1. Nat \subseteq R
    <3> HIDE DEF R
    <3> QED BY <1>6, <1>7, Induct
  <2> QED BY <1>1, <2>1
<1> HIDE DEF end
<1> DEFINE t == ToldIf(ps, end.done, end.share)
<1>9. end.share \in Nat /\ end.left \in Nat /\ end.bandwidth \in Nat /\ end.bandwidth <= host.in
      /\ end.share * end.left <= end.bandwidth
  BY <1>8 DEF Granting, GrantAcc
<1>10. SumTo(t, C, PeerCount) = (host.in - end.bandwidth) + end.share * end.left
  BY <1>8, <1>9 DEF Granting
<1>11. SumTo(t, C, PeerCount) <= host.in
  <2> DEFINE x == end.share * end.left
  <2>1. x \in Nat /\ x <= end.bandwidth
    BY <1>9
  <2> HIDE DEF x
  <2>2. SumTo(t, C, PeerCount) = (host.in - end.bandwidth) + x
    BY <1>10 DEF x
  <2> QED BY <1>1, <1>9, <2>1, <2>2
<1>12. t = [p \in C |-> t[p]] /\ \A p \in C : t[p] \in Nat
  BY <1>9 DEF ToldIf, Announced, Connected
<1> HIDE DEF t
<1> QED BY <1>3, <1>11, <1>12 DEF t

----------------------------------------------------------------------------
(* Every step keeps the invariant.                                          *)

\* What the peers are told, all in all.
ToldOf(ps, n) == {p \in 1 .. n : ps[p].state = "CONNECTED" /\ ps[p].told >= 0}
ToldSum(ps, n) == SumTo([p \in ToldOf(ps, n) |-> ps[p].told], ToldOf(ps, n), n)

LEMMA FitIs ==
    /\ GrantsFit <=> (host.in # 0 /\ ~host.recalculate => ToldSum(peer, PeerCount) <= host.in)
    /\ GrantsFit' <=> (host'.in # 0 /\ ~host'.recalculate => ToldSum(peer', PeerCount') <= host'.in)
<1>1. /\ {p \in Connected(peer) : peer[p].told >= 0} = ToldOf(peer, PeerCount)
      /\ {p \in Connected(peer)' : peer'[p].told >= 0} = ToldOf(peer', PeerCount')
  BY DEF Connected, Peers, ToldOf
<1>2. ASSUME NEW f, NEW S
      PROVE  Total(f, S) = SumTo(f, S, PeerCount) /\ Total(f, S)' = SumTo(f, S, PeerCount')
  BY DEF Total, SumTo
<1> QED BY <1>1, <1>2 DEF GrantsFit, ToldSum

\* Peers that are told what they were told before are told no more.
LEMMA ToldNoMore ==
    ASSUME NEW n \in Nat, NEW ps, NEW t, NEW S,
           \A p \in ToldOf(ps, n) : p \in S /\ t[p] = ps[p].told,
           \A p \in 1 .. n : ps[p].told \in Int /\ (p \in S => t[p] \in Nat)
    PROVE  ToldSum(ps, n) \in Nat /\ ToldSum(ps, n) <= SumTo(t, S, n)
<1> DEFINE T == ToldOf(ps, n)
           f == [p \in T |-> ps[p].told]
<1>1. \A p \in 1 .. n : Item(f, T, p) \in Nat /\ Item(t, S, p) \in Nat /\ Item(f, T, p) <= Item(t, S, p)
  BY DEF Item, ToldOf
<1>2. ToldSum(ps, n) = SumTo(f, T, n)
  BY DEF ToldSum
<1> HIDE DEF f, T
<1>3. SumTo(f, T, n) \in Nat /\ SumTo(f, T, n) <= SumTo(t, S, n)
  BY <1>1, SumGrows
<1> QED BY <1>2, <1>3

LEMMA ToldBefore ==
    ASSUME NEW n \in Nat, NEW ps, NEW qs,
           \A p \in 1 .. n : ps[p].told \in Int /\ qs[p].told \in Int,
           \A p \in ToldOf(qs, n) : p \in ToldOf(ps, n) /\ ps[p].told = qs[p].told
    PROVE  /\ ToldSum(qs, n) \in Nat /\ ToldSum(ps, n) \in Nat
           /\ ToldSum(qs, n) <= ToldSum(ps, n)
<1> DEFINE S == ToldOf(ps, n)
           t == [p \in S |-> ps[p].told]
<1>1. /\ \A p \in ToldOf(qs, n) : p \in S /\ t[p] = qs[p].told
      /\ \A p \in ToldOf(ps, n) : p \in S /\ t[p] = ps[p].told
      /\ \A p \in 1 .. n : p \in S => t[p] \in Nat
  BY DEF ToldOf
<1>2. ToldSum(ps, n) = SumTo(t, S, n)
  BY DEF ToldSum
<1> HIDE DEF S, t
<1>3. ToldSum(qs, n) \in Nat /\ ToldSum(qs, n) <= SumTo(t, S, n)
  BY <1>1, ToldNoMore
<1>4. ToldSum(ps, n) \in Nat
  BY <1>1, ToldNoMore
<1> QED BY <1>2, <1>3, <1>4

\* The invariant, by its parts.
LEMMA FlowFacts ==
    ASSUME FlowInv
    PROVE  /\ host \in [in : HostIn, out : HostOut, recalculate : BOOLEAN]
           /\ host.in \in Nat /\ host.in < Word /\ host.out \in Nat /\ host.recalculate \in BOOLEAN
           /\ budget \in [peers : Nat \ {0}, calls : Nat, samples : Nat]
           /\ PeerCount \in Nat /\ Peers = 1 .. PeerCount
           /\ peer = [p \in Peers |-> peer[p]]
           /\ \A p \in Peers : FlowPeerOK(peer[p]) /\ peer[p] \in FlowPeer /\ peer[p].told \in Int
           /\ host.in # 0 /\ ~host.recalculate => ToldSum(peer, PeerCount) <= host.in
<1>1. host.in \in HostIn /\ host.out \in HostOut /\ host.recalculate \in BOOLEAN
  BY DEF FlowInv
<1>2. host.in \in Nat /\ host.in < Word /\ host.out \in Nat
  <2>1. Word \in Nat \ {0} /\ HostIn \subseteq 0 .. Word - 1 /\ HostOut \subseteq 0 .. Word - 1
    BY FlowConstants
  <2>2. host.in \in 0 .. Word - 1 /\ host.out \in 0 .. Word - 1
    BY <1>1, <2>1
  <2> QED BY <2>1, <2>2
<1>3. PeerCount \in Nat /\ Peers = 1 .. PeerCount
  BY DEF FlowInv, PeerCount, Peers
<1>4. ASSUME NEW p \in Peers
      PROVE  FlowPeerOK(peer[p]) /\ peer[p] \in FlowPeer /\ peer[p].told \in Int
  <2>1. FlowPeerOK(peer[p]) /\ peer[p] \in FlowPeer
    BY DEF FlowInv, FlowPeerOK
  <2> QED BY <2>1, FlowFields
<1>5. host.in # 0 /\ ~host.recalculate => ToldSum(peer, PeerCount) <= host.in
  BY FitIs DEF FlowInv
<1> QED BY <1>1, <1>2, <1>3, <1>4, <1>5 DEF FlowInv

\* Its parts after a step that leaves the number of peers alone.
LEMMA FlowAfter ==
    ASSUME FlowInv, host' \in [in : HostIn, out : HostOut, recalculate : BOOLEAN],
           budget' \in [peers : Nat \ {0}, calls : Nat, samples : Nat],
           budget'.peers = budget.peers,
           peer' = [p \in Peers |-> peer'[p]],
           \A p \in Peers : FlowPeerOK(peer'[p]),
           host'.in # 0 /\ ~host'.recalculate => ToldSum(peer', PeerCount) <= host'.in
    PROVE  FlowInv'
<1>1. PeerCount' = PeerCount /\ Peers' = Peers
  BY DEF PeerCount, Peers
<1>2. GrantsFit'
  BY <1>1, FitIs
<1>3. \A p \in Peers' : FlowPeerOK(peer[p])'
  BY <1>1 DEF FlowPeerOK, Handshake, WindowOf, Trips, FlowPeer, Clamp, Scaled
<1>4. peer' = [p \in Peers' |-> peer'[p]]
  BY <1>1
<1> QED BY <1>2, <1>3, <1>4 DEF FlowInv

LEMMA OnePeerChanges ==
    ASSUME FlowInv, NEW p \in Peers, NEW r, FlowPeerOK(r), peer' = [peer EXCEPT ![p] = r],
           host' \in [in : HostIn, out : HostOut, recalculate : BOOLEAN],
           budget' \in [peers : Nat \ {0}, calls : Nat, samples : Nat],
           budget'.peers = budget.peers,
           ~host'.recalculate =>
               /\ ~host.recalculate /\ host'.in = host.in
               /\ r.told = -1 \/ (r.told = peer[p].told /\ r.state = peer[p].state)
    PROVE  FlowInv'
<1>1. /\ PeerCount \in Nat /\ Peers = 1 .. PeerCount /\ peer = [i \in Peers |-> peer[i]]
      /\ host.in \in Nat
      /\ \A i \in Peers : FlowPeerOK(peer[i]) /\ peer[i].told \in Int
      /\ host.in # 0 /\ ~host.recalculate => ToldSum(peer, PeerCount) <= host.in
  BY FlowFacts
<1>2. r.told \in Int
  BY FlowFields DEF FlowPeerOK
<1>3. \A i \in Peers : peer'[i] = IF i = p THEN r ELSE peer[i]
  BY <1>1
<1>4. peer' = [i \in Peers |-> peer'[i]]
  BY <1>1
<1>5. \A i \in Peers : FlowPeerOK(peer'[i])
  BY <1>1, <1>3
<1>6. ASSUME host'.in # 0, ~host'.recalculate PROVE ToldSum(peer', PeerCount) <= host'.in
  <2>1. \A i \in 1 .. PeerCount : peer[i].told \in Int /\ peer'[i].told \in Int
    BY <1>1, <1>2, <1>3
  <2>2. \A i \in ToldOf(peer', PeerCount) : i \in ToldOf(peer, PeerCount) /\ peer[i].told = peer'[i].told
    BY <1>1, <1>2, <1>3, <1>6 DEF ToldOf
  <2>3. /\ ToldSum(peer', PeerCount) \in Nat /\ ToldSum(peer, PeerCount) \in Nat
        /\ ToldSum(peer', PeerCount) <= ToldSum(peer, PeerCount)
    BY <1>1, <2>1, <2>2, ToldBefore
  <2> QED BY <1>1, <1>6, <2>3
<1> QED BY <1>4, <1>5, <1>6, FlowAfter

LEMMA CallCounts ==
    ASSUME FlowInv, Call
    PROVE  budget' \in [peers : Nat \ {0}, calls : Nat, samples : Nat] /\ budget'.peers = budget.peers
<1>1. budget \in [peers : Nat \ {0}, calls : Nat, samples : Nat]
  BY FlowFacts
<1>2. budget.calls - 1 \in Nat /\ budget' = [budget EXCEPT !.calls = budget.calls - 1]
  BY <1>1 DEF Call
<1> QED BY <1>1, <1>2

LEMMA FlowConnectKeeps ==
    ASSUME FlowInv, NEW p \in Peers, Connect(p)
    PROVE  FlowInv'
<1> DEFINE w == Clamp(Scaled(host.out))
           r == [peer[p] EXCEPT !.state = "CONNECTING", !.window = w, !.total = @ + CommandSize]
<1>1. /\ FlowPeerOK(peer[p]) /\ host.out \in Nat /\ host.recalculate \in BOOLEAN
      /\ host \in [in : HostIn, out : HostOut, recalculate : BOOLEAN]
      /\ budget \in [peers : Nat \ {0}, calls : Nat, samples : Nat]
  BY FlowFacts
<1>2. peer[p].state = "DISCONNECTED" /\ host' = host /\ budget' = budget
  BY DEF Connect
<1>3. w \in MinWindow .. MaxWindow
  BY <1>1, ScaledFacts, ClampFacts
<1>4. peer' = [peer EXCEPT ![p] = r]
  BY <1>1, FlowFacts DEF Connect
<1> HIDE DEF w
<1>5. FlowPeerOK(r)
  BY <1>1, <1>2, <1>3, DialedOK
<1>6. r.told = -1
  <2>1. peer[p] \in FlowPeer /\ peer[p].told = -1
    BY <1>1, <1>2 DEF FlowPeerOK, Handshake
  <2> QED BY <2>1 DEF FlowPeer
<1> HIDE DEF r
<1> QED BY <1>1, <1>2, <1>4, <1>5, <1>6, OnePeerChanges

\* The bandwidths that the other ends announce, as numbers.
LEMMA AnnouncedNat ==
    PeerIn \subseteq Nat /\ PeerOut \subseteq Nat
  BY FlowConstants

LEMMA FlowVerifyKeeps ==
    ASSUME FlowInv, NEW p \in Peers, NEW incoming \in PeerIn, NEW outgoing \in PeerOut,
           HandleVerify(p, incoming, outgoing)
    PROVE  FlowInv'
<1> DEFINE q == peer[p]
           a == AnswerWindow(incoming, q.window)
           w == IF a < q.window THEN a ELSE q.window
           r == [q EXCEPT !.state = "CONNECTED", !.in = incoming, !.out = outgoing, !.window = w,
                          !.total = @ + CommandSize]
<1>1. /\ FlowPeerOK(q) /\ q \in FlowPeer
      /\ host \in [in : HostIn, out : HostOut, recalculate : BOOLEAN]
      /\ budget \in [peers : Nat \ {0}, calls : Nat, samples : Nat]
  BY FlowFacts
<1>2. /\ q.state = "CONNECTING" /\ budget' = budget /\ host' = [host EXCEPT !.recalculate = TRUE]
      /\ peer' = [peer EXCEPT ![p] = r]
  BY <1>1, FlowFacts DEF HandleVerify
<1>3. q.window \in MinWindow .. MaxWindow /\ q.total \in Nat /\ q.total <= CommandSize
  BY <1>1, <1>2, FlowFields DEF FlowPeerOK, Handshake
<1>4. incoming \in Nat
  BY AnnouncedNat
<1>5. a \in MinWindow .. MaxWindow /\ a <= Clamp(Scaled(incoming))
  BY <1>3, <1>4, AnswerFits
<1>6. w \in MinWindow .. MaxWindow /\ w <= Clamp(Scaled(incoming))
  <2>1. Clamp(Scaled(incoming)) \in Nat
    BY <1>4, ScaledFacts, ClampFacts, FlowConstants
  <2> HIDE DEF a
  <2> QED BY <1>3, <1>5, <2>1, FlowConstants
<1>7. q.total + CommandSize <= MaxTotal
  BY <1>3, FlowConstants
<1>8. FlowPeerOK(r)
  <2> HIDE DEF w
  <2> QED BY <1>1, <1>6, <1>7, LearnedOK
<1>9. host' \in [in : HostIn, out : HostOut, recalculate : BOOLEAN] /\ host'.recalculate
  BY <1>1, <1>2
<1> HIDE DEF r
<1> QED BY <1>1, <1>2, <1>8, <1>9, OnePeerChanges

LEMMA FlowHandleConnectKeeps ==
    ASSUME FlowInv, NEW p \in Peers, NEW incoming \in PeerIn, NEW outgoing \in PeerOut,
           HandleConnect(p, incoming, outgoing)
    PROVE  FlowInv'
<1> DEFINE q == peer[p]
           w == SharedWindow(host.out, incoming)
           r == [q EXCEPT !.state = "ACKNOWLEDGING_CONNECT", !.in = incoming, !.out = outgoing,
                          !.window = w, !.total = @ + CommandSize]
<1>1. /\ FlowPeerOK(q) /\ q \in FlowPeer /\ host.out \in Nat
      /\ host \in [in : HostIn, out : HostOut, recalculate : BOOLEAN]
      /\ budget \in [peers : Nat \ {0}, calls : Nat, samples : Nat]
  BY FlowFacts
<1>2. /\ q.state = "DISCONNECTED" /\ budget' = budget /\ host' = host
      /\ peer' = [peer EXCEPT ![p] = r]
  BY <1>1, FlowFacts DEF HandleConnect
<1>3. q.total = 0 /\ q.told = -1
  BY <1>1, <1>2 DEF FlowPeerOK, Handshake
<1>4. w \in MinWindow .. MaxWindow /\ (incoming # 0 => w <= Clamp(Scaled(incoming)))
  BY <1>1, AnnouncedNat, SharedFits
<1>5. q.total + CommandSize <= MaxTotal
  BY <1>3, FlowConstants
<1> HIDE DEF w
<1>6. FlowPeerOK(r)
  BY <1>1, <1>2, <1>4, <1>5, LearnedOK
<1>7. r.told = -1
  BY <1>1, <1>3 DEF FlowPeer
<1> HIDE DEF r
<1> QED BY <1>1, <1>2, <1>6, <1>7, OnePeerChanges

LEMMA FlowHandleLimitKeeps ==
    ASSUME FlowInv, NEW p \in Peers, NEW incoming \in PeerIn, NEW outgoing \in PeerOut,
           HandleBandwidthLimit(p, incoming, outgoing)
    PROVE  FlowInv'
<1> DEFINE q == peer[p]
           w == SharedWindow(host.out, incoming)
           r == [q EXCEPT !.in = incoming, !.out = outgoing, !.window = w,
                          !.total = @ + CommandSize]
           c == [q EXCEPT !.state = "CONNECTED", !.in = incoming, !.out = outgoing, !.window = w,
                          !.total = @ + CommandSize]
<1>1. /\ FlowPeerOK(q) /\ q \in FlowPeer /\ host.out \in Nat
      /\ host \in [in : HostIn, out : HostOut, recalculate : BOOLEAN]
  BY FlowFacts
<1>2. /\ Call /\ q.state = "CONNECTED" /\ host' = host
      /\ q.total + CommandSize <= MaxTotal /\ peer' = [peer EXCEPT ![p] = r]
  BY <1>1, FlowFacts DEF HandleBandwidthLimit, Connected
<1>3. /\ budget' \in [peers : Nat \ {0}, calls : Nat, samples : Nat] /\ budget'.peers = budget.peers
  BY <1>2, CallCounts
<1>4. w \in MinWindow .. MaxWindow /\ (incoming # 0 => w <= Clamp(Scaled(incoming)))
  BY <1>1, AnnouncedNat, SharedFits
<1> HIDE DEF w
<1>5. FlowPeerOK(c)
  BY <1>1, <1>2, <1>4, LearnedOK
<1>6. c = r /\ r.told = q.told /\ r.state = q.state
  BY <1>1, <1>2 DEF FlowPeer
<1>7. FlowPeerOK(r)
  BY <1>5, <1>6
<1> HIDE DEF r
<1> QED BY <1>1, <1>2, <1>3, <1>6, <1>7, OnePeerChanges

LEMMA FlowLeaveKeeps ==
    ASSUME FlowInv, NEW p \in Peers, NEW notify \in BOOLEAN, Leave(p, notify)
    PROVE  FlowInv'
<1>1. host \in [in : HostIn, out : HostOut, recalculate : BOOLEAN]
  BY FlowFacts
<1>2. /\ Call /\ peer' = [peer EXCEPT ![p] = Fresh]
      /\ host' = [host EXCEPT !.recalculate = @ \/ (notify /\ peer[p].state = "CONNECTED")]
  BY DEF Leave
<1>3. /\ budget' \in [peers : Nat \ {0}, calls : Nat, samples : Nat] /\ budget'.peers = budget.peers
  BY <1>2, CallCounts
<1>4. /\ host' \in [in : HostIn, out : HostOut, recalculate : BOOLEAN] /\ host'.in = host.in
      /\ ~host'.recalculate => ~host.recalculate
  BY <1>1, <1>2
<1>5. Fresh.told = -1
  BY DEF Fresh
<1> QED BY <1>2, <1>3, <1>4, <1>5, FreshOK, OnePeerChanges

LEMMA FlowSubmitKeeps ==
    ASSUME FlowInv, NEW p \in Peers, NEW n \in Amounts, Submit(p, n)
    PROVE  FlowInv'
<1> DEFINE q == peer[p]
           r == [q EXCEPT !.total = @ + n, !.counter = CounterAfter(@, 1)]
<1>1. /\ FlowPeerOK(q) /\ q \in FlowPeer
      /\ host \in [in : HostIn, out : HostOut, recalculate : BOOLEAN]
  BY FlowFacts
<1>2. /\ Call /\ q.state = "CONNECTED" /\ host' = host
      /\ q.total + n <= MaxTotal /\ peer' = [peer EXCEPT ![p] = r]
  BY <1>1, FlowFacts DEF Submit, Connected
<1>3. /\ budget' \in [peers : Nat \ {0}, calls : Nat, samples : Nat] /\ budget'.peers = budget.peers
  BY <1>2, CallCounts
<1>4. n \in Nat
  BY FlowConstants
<1>5. FlowPeerOK(r)
  BY <1>1, <1>2, <1>4, SubmittedOK
<1>6. r.told = q.told /\ r.state = q.state
  BY <1>1 DEF FlowPeer
<1> HIDE DEF r
<1> QED BY <1>1, <1>2, <1>3, <1>5, <1>6, OnePeerChanges

LEMMA FlowAcknowledgeKeeps ==
    ASSUME FlowInv, NEW p \in Peers, NEW s \in Samples, NEW over \in BOOLEAN,
           HandleAcknowledge(p, s, over)
    PROVE  FlowInv'
<1> DEFINE q == peer[p]
           r == Acknowledged(q, s, over)
<1>1. /\ FlowPeerOK(q) /\ q \in FlowPeer
      /\ host \in [in : HostIn, out : HostOut, recalculate : BOOLEAN]
      /\ budget \in [peers : Nat \ {0}, calls : Nat, samples : Nat]
  BY FlowFacts
<1>2. /\ q.state # "DISCONNECTED" /\ (q.hist = <<>> => over) /\ peer' = [peer EXCEPT ![p] = r]
      /\ budget.samples > 0 /\ budget' = [budget EXCEPT !.samples = @ - 1]
      /\ host' = [host EXCEPT !.recalculate = @ \/ q.state = "ACKNOWLEDGING_CONNECT"]
  BY <1>1, FlowFacts DEF HandleAcknowledge
<1>3. /\ budget' \in [peers : Nat \ {0}, calls : Nat, samples : Nat] /\ budget'.peers = budget.peers
  <2>1. budget.samples - 1 \in Nat
    BY <1>1, <1>2
  <2> QED BY <1>1, <1>2, <2>1
<1>4. /\ host' \in [in : HostIn, out : HostOut, recalculate : BOOLEAN] /\ host'.in = host.in
      /\ ~host'.recalculate => ~host.recalculate /\ q.state # "ACKNOWLEDGING_CONNECT"
  BY <1>1, <1>2
<1>5. s \in Nat \ {0}
  BY FlowConstants
<1>6. /\ FlowPeerOK(r) /\ r.told = q.told
      /\ r.state = IF q.state = "ACKNOWLEDGING_CONNECT" THEN "CONNECTED" ELSE q.state
  BY <1>1, <1>2, <1>5, AcknowledgedOK
<1> HIDE DEF r
<1> QED BY <1>2, <1>3, <1>4, <1>6, OnePeerChanges

LEMMA FlowLimitKeeps ==
    ASSUME FlowInv, NEW incoming \in HostIn, NEW outgoing \in HostOut,
           BandwidthLimit(incoming, outgoing)
    PROVE  FlowInv'
<1>1. Call /\ host' = [in |-> incoming, out |-> outgoing, recalculate |-> TRUE] /\ peer' = peer
  BY DEF BandwidthLimit
<1>2. /\ budget' \in [peers : Nat \ {0}, calls : Nat, samples : Nat] /\ budget'.peers = budget.peers
  BY <1>1, CallCounts
<1>3. /\ host' \in [in : HostIn, out : HostOut, recalculate : BOOLEAN] /\ host'.recalculate
  BY <1>1
<1>4. peer' = [p \in Peers |-> peer'[p]] /\ \A p \in Peers : FlowPeerOK(peer'[p])
  BY <1>1, FlowFacts
<1> QED BY <1>2, <1>3, <1>4, FlowAfter

LEMMA FlowThrottleKeeps ==
    ASSUME FlowInv, NEW period \in Periods, Throttle(period)
    PROVE  FlowInv'
<1>0. Call
  BY DEF Throttle
<1>1. /\ budget' \in [peers : Nat \ {0}, calls : Nat, samples : Nat] /\ budget'.peers = budget.peers
  BY <1>0, CallCounts
<1>2. /\ host \in [in : HostIn, out : HostOut, recalculate : BOOLEAN] /\ host.in \in Nat
      /\ host.in < Word /\ host.recalculate \in BOOLEAN
      /\ PeerCount \in Nat /\ Peers = 1 .. PeerCount /\ peer = [p \in Peers |-> peer[p]]
      /\ \A p \in Peers : FlowPeerOK(peer[p]) /\ peer[p].told \in Int
      /\ host.in # 0 /\ ~host.recalculate => ToldSum(peer, PeerCount) <= host.in
  BY FlowFacts
<1>3. CASE Connected(peer) = {}
  <2>1. host' = host /\ peer' = peer
    BY <1>3 DEF Throttle
  <2> QED BY <1>1, <1>2, <2>1, FlowAfter
<1>4. CASE Connected(peer) # {}
  <2> DEFINE ps == LimitPeers(period)
             t == Grants(ps)
  <2>1. /\ host' = [host EXCEPT !.recalculate = FALSE]
        /\ peer' = [p \in Peers |-> IF host.recalculate /\ p \in DOMAIN t
                                     THEN [ps[p] EXCEPT !.told = t[p], !.total = CommandSize]
                                     ELSE ps[p]]
    BY <1>4 DEF Throttle
  <2>2. \A p \in Peers : Same(peer[p], ps[p])
    <3>1. period \in Nat
      BY FlowConstants
    <3> QED BY <3>1, LimitPeersKeep
  <2> HIDE DEF ps
  <2>3. \A p \in Peers : /\ FlowPeerOK(ps[p]) /\ ps[p] \in FlowPeer /\ ps[p].state = peer[p].state
                         /\ ps[p].told = peer[p].told /\ ps[p].told \in Int
    BY <1>2, <2>2 DEF Same, FlowPeerOK
  <2>4. Announced(ps)
    <3>1. \A p \in Peers : ps[p].out \in Nat /\ ps[p].out < Word
      BY <2>3, FlowFields
    <3>2. host.in \in 0 .. Word - 1
      BY <1>2, FlowConstants
    <3> QED BY <1>2, <3>1, <3>2 DEF Announced
  <2>5. /\ t = [p \in Connected(ps) |-> t[p]] /\ \A p \in Connected(ps) : t[p] \in Nat
        /\ SumTo(t, Connected(ps), PeerCount) <= host.in
    BY <2>4, GrantsAddUp
  <2> HIDE DEF t
  <2>6. DOMAIN t = Connected(ps)
    BY <2>5
  <2>7. /\ host' \in [in : HostIn, out : HostOut, recalculate : BOOLEAN] /\ host'.in = host.in
    BY <1>2, <2>1
  <2>8. peer' = [p \in Peers |-> peer'[p]]
    BY <2>1
  <2>9. CASE host.recalculate
    <3>1. ASSUME NEW p \in Peers
          PROVE  /\ FlowPeerOK(peer'[p]) /\ peer'[p].state = ps[p].state /\ peer'[p].told \in Int
                 /\ p \in Connected(ps) => peer'[p].told = t[p]
      <4>1. CASE p \in Connected(ps)
        <5>1. peer'[p] = [ps[p] EXCEPT !.told = t[p], !.total = CommandSize]
          BY <2>1, <2>6, <2>9, <4>1
        <5>2. t[p] \in Nat /\ FlowPeerOK(ps[p]) /\ ps[p].state = "CONNECTED"
          BY <2>3, <2>5, <4>1 DEF Connected
        <5>3. FlowPeerOK(peer'[p]) /\ peer'[p].state = ps[p].state /\ peer'[p].told = t[p]
          <6> DEFINE q == ps[p]
                     x == t[p]
          <6>1. FlowPeerOK(q) /\ q.state = "CONNECTED" /\ x \in Nat
            BY <5>2
          <6> HIDE DEF q, x
          <6>2. LET r == [q EXCEPT !.told = x, !.total = CommandSize]
                IN  FlowPeerOK(r) /\ r.state = q.state /\ r.told = x
            BY <6>1, TellingOK
          <6> QED BY <5>1, <6>2 DEF q, x
        <5> QED BY <5>2, <5>3
      <4>2. CASE p \notin Connected(ps)
        <5>1. peer'[p] = ps[p]
          BY <2>1, <2>6, <4>2
        <5> QED BY <2>3, <4>2, <5>1
      <4> QED BY <4>1, <4>2
    <3>2. \A p \in ToldOf(peer', PeerCount) : p \in Connected(ps) /\ t[p] = peer'[p].told
      BY <1>2, <3>1 DEF ToldOf, Connected
    <3>3. \A p \in 1 .. PeerCount : peer'[p].told \in Int /\ (p \in Connected(ps) => t[p] \in Nat)
      BY <1>2, <2>5, <3>1
    <3>4. /\ ToldSum(peer', PeerCount) \in Nat
          /\ ToldSum(peer', PeerCount) <= SumTo(t, Connected(ps), PeerCount)
      BY <1>2, <3>2, <3>3, ToldNoMore
    <3>5. SumTo(t, Connected(ps), PeerCount) \in Nat
      <4>1. \A p \in 1 .. PeerCount : Item(t, Connected(ps), p) \in Nat
        BY <2>5 DEF Item
      <4>2. \A p \in 1 .. PeerCount : Item(t, Connected(ps), p) <= Item(t, Connected(ps), p)
        BY <4>1
      <4> QED BY <1>2, <4>1, <4>2, SumGrows
    <3>6. ToldSum(peer', PeerCount) <= host'.in
      BY <1>2, <2>5, <2>7, <3>4, <3>5
    <3> QED BY <1>1, <2>7, <2>8, <3>1, <3>6, FlowAfter
  <2>10. CASE ~host.recalculate
    <3>1. \A p \in Peers : peer'[p] = ps[p]
      BY <2>1, <2>10
    <3>2. \A p \in Peers : FlowPeerOK(peer'[p])
      BY <2>3, <3>1
    <3>3. \A p \in 1 .. PeerCount : peer[p].told \in Int /\ peer'[p].told \in Int
      BY <1>2, <2>3, <3>1
    <3>4. \A p \in ToldOf(peer', PeerCount) :
              p \in ToldOf(peer, PeerCount) /\ peer[p].told = peer'[p].told
      BY <1>2, <2>3, <3>1 DEF ToldOf
    <3>5. /\ ToldSum(peer', PeerCount) \in Nat /\ ToldSum(peer, PeerCount) \in Nat
          /\ ToldSum(peer', PeerCount) <= ToldSum(peer, PeerCount)
      BY <1>2, <3>3, <3>4, ToldBefore
    <3>6. host'.in # 0 => ToldSum(peer', PeerCount) <= host'.in
      BY <1>2, <2>7, <2>10, <3>5
    <3> QED BY <1>1, <2>7, <2>8, <3>2, <3>6, FlowAfter
  <2> QED BY <1>2, <2>9, <2>10
<1> QED BY <1>3, <1>4

LEMMA FlowStarts == FlowInit => FlowInv
<1> SUFFICES ASSUME FlowInit PROVE FlowInv
  OBVIOUS
<1>1. /\ host \in [in : HostIn, out : HostOut, recalculate : {FALSE}]
      /\ budget \in Budgets /\ peer = [p \in Peers |-> Fresh]
  BY DEF FlowInit
<1>2. budget \in [peers : Nat \ {0}, calls : Nat, samples : Nat]
  BY <1>1, FlowConstants
<1>3. PeerCount \in Nat /\ Peers = 1 .. PeerCount
  BY <1>2 DEF PeerCount, Peers
<1>4. host.in \in Nat
  <2>1. host.in \in HostIn
    BY <1>1
  <2>2. HostIn \subseteq 0 .. Word - 1 /\ Word \in Nat
    BY FlowConstants
  <2>3. host.in \in 0 .. Word - 1
    BY <2>1, <2>2
  <2> QED BY <2>2, <2>3
<1>5. \A p \in Peers : peer[p] = Fresh
  BY <1>1
<1>6. Fresh.told = -1 /\ Fresh.state = "DISCONNECTED"
  BY DEF Fresh
<1>7. ToldSum(peer, PeerCount) <= host.in
  <2> DEFINE t == [p \in {} |-> 0]
  <2>1. ToldOf(peer, PeerCount) = {}
    BY <1>3, <1>5, <1>6 DEF ToldOf
  <2>2. \A p \in 1 .. PeerCount : peer[p].told \in Int
    BY <1>3, <1>5, <1>6
  <2> HIDE DEF t
  <2>3. ToldSum(peer, PeerCount) \in Nat /\ ToldSum(peer, PeerCount) <= SumTo(t, {}, PeerCount)
    BY <1>3, <2>1, <2>2, ToldNoMore
  <2>4. SumTo(t, {}, PeerCount) = 0 * Cardinality({})
    BY <1>3, SumOfEqual
  <2>5. Cardinality({}) = 0
    BY FS_EmptySet
  <2> QED BY <1>4, <2>3, <2>4, <2>5
<1>8. GrantsFit
  BY <1>7, FitIs
<1>9. \A p \in Peers : FlowPeerOK(peer[p])
  BY <1>5, FreshOK
<1>10. host \in [in : HostIn, out : HostOut, recalculate : BOOLEAN]
  BY <1>1
<1>11. peer = [p \in Peers |-> peer[p]]
  BY <1>1
<1> QED BY <1>2, <1>8, <1>9, <1>10, <1>11 DEF FlowInv

LEMMA FlowStepKeeps == FlowInv /\ [FlowNext]_flowVars => FlowInv'
<1> SUFFICES ASSUME FlowInv, [FlowNext]_flowVars PROVE FlowInv'
  OBVIOUS
<1>1. ASSUME NEW p \in Peers, Connect(p) PROVE FlowInv'
  BY <1>1, FlowConnectKeeps
<1>2. ASSUME NEW p \in Peers, NEW incoming \in PeerIn, NEW outgoing \in PeerOut,
             \/ HandleVerify(p, incoming, outgoing) \/ HandleConnect(p, incoming, outgoing)
             \/ HandleBandwidthLimit(p, incoming, outgoing)
      PROVE  FlowInv'
  BY <1>2, FlowVerifyKeeps, FlowHandleConnectKeeps, FlowHandleLimitKeeps
<1>3. ASSUME NEW p \in Peers, NEW notify \in BOOLEAN, Leave(p, notify) PROVE FlowInv'
  BY <1>3, FlowLeaveKeeps
<1>4. ASSUME NEW p \in Peers, NEW n \in Amounts, Submit(p, n) PROVE FlowInv'
  BY <1>4, FlowSubmitKeeps
<1>5. ASSUME NEW p \in Peers, NEW s \in Samples, NEW over \in BOOLEAN, HandleAcknowledge(p, s, over)
      PROVE  FlowInv'
  BY <1>5, FlowAcknowledgeKeeps
<1>6. ASSUME NEW incoming \in HostIn, NEW outgoing \in HostOut, BandwidthLimit(incoming, outgoing)
      PROVE  FlowInv'
  BY <1>6, FlowLimitKeeps
<1>7. ASSUME NEW e \in Periods, Throttle(e) PROVE FlowInv'
  BY <1>7, FlowThrottleKeeps
<1>8. CASE UNCHANGED flowVars
  <2>1. host' = host /\ peer' = peer /\ budget' = budget
    BY <1>8 DEF flowVars
  <2> QED BY <2>1, FlowFacts, FlowAfter
<1> QED BY <1>1, <1>2, <1>3, <1>4, <1>5, <1>6, <1>7, <1>8 DEF FlowNext
----------------------------------------------------------------------------
(* Theorems.                                                                *)

\* The rates of a host of the original library stay sound, whatever its peers
\* announce and however often it recalculates (enet_host_bandwidth_throttle,
\* host.c; enet_protocol_handle_connect, _verify_connect, _bandwidth_limit and
\* _acknowledge, protocol.c): windows, throttles and data are within their
\* limits, and what the handshake, the round trips and the grants promise holds.
THEOREM FlowInvariant == FlowSpec => []FlowInv
<1>1. FlowInit => FlowInv
  BY FlowStarts
<1>2. FlowInv /\ [FlowNext]_flowVars => FlowInv'
  BY FlowStepKeeps
<1> QED BY <1>1, <1>2, PTL DEF FlowSpec

\* The incoming bandwidths that enet_host_bandwidth_throttle announces to the
\* peers add up to no more than the host has, for any number of peers and any
\* bandwidths, although the shares are rounded and the bandwidth left is an
\* unsigned number from which grants are taken; and no window towards a peer is
\* more than the bandwidth that the peer announced last allows.
THEOREM LimitsStayFitting == FlowSpec => []LimitsFit
<1>1. FlowInv => LimitsFit
  BY DEF FlowInv, LimitsFit, WindowFits, FlowPeerOK, WindowOf
<1> QED BY <1>1, FlowInvariant, PTL

\* The throttle of a peer stays within its limit and that within the scale, of
\* Scale unreliable packets just its share passes (enet_peer_throttle,
\* enet_protocol_check_outgoing_commands), and the round-trip estimate of
\* enet_protocol_handle_acknowledge lies between the shortest and the longest
\* round trip measured.
THEOREM ThrottleStaysExact == FlowSpec => []ThrottleExact
<1>1. ASSUME FlowInv PROVE ThrottleExact
  <2>1. FlowTypeOK
    <3>1. ASSUME NEW p \in Peers
          PROVE  /\ peer[p].window \in MinWindow .. MaxWindow
                 /\ peer[p].limit \in 0 .. Scale /\ peer[p].throttle \in 0 .. peer[p].limit
                 /\ peer[p].total \in 0 .. MaxTotal /\ peer[p].counter \in 0 .. Scale - 1
                 /\ peer[p].in \in PeerIn \cup {0} /\ peer[p].out \in PeerOut \cup {0}
      <4>1. peer[p] \in FlowPeer /\ peer[p].throttle <= peer[p].limit
        BY <1>1 DEF FlowInv, FlowPeerOK
      <4>2. MaxTotal \in Nat /\ Scale \in Nat
        BY FlowConstants
      <4> QED BY <4>1, <4>2, FlowFields
    <3> QED BY <1>1, <3>1 DEF FlowInv, FlowTypeOK
  <2>2. RttWithin
    <3> SUFFICES ASSUME NEW p \in Peers, peer[p].hist # <<>>
                 PROVE  LET q == peer[p] IN
                        /\ q.rtt \in Min(Range(q.hist)) .. Max(Range(q.hist))
                        /\ q.var \in 0 .. Max(Range(q.hist))
                        /\ q.lowest <= q.rtt /\ q.highest >= q.var
      BY DEF RttWithin
    <3> DEFINE q == peer[p]
               S == Range(q.hist)
    <3>1. q \in FlowPeer /\ Trips(q)
      BY <1>1 DEF FlowInv, FlowPeerOK
    <3>2. /\ q.rtt \in Nat /\ q.var \in Nat /\ q.lowest <= q.rtt /\ q.highest >= q.var
          /\ \E lo, hi \in S : /\ \A x \in S : lo <= x /\ x <= hi
                               /\ lo <= q.rtt /\ q.rtt <= hi /\ q.var <= hi
      BY <3>1, FlowFields DEF Trips
    <3>3. S \subseteq Nat
      BY <3>1, FlowFields DEF Range
    <3>4. PICK lo \in S, hi \in S : /\ \A x \in S : lo <= x /\ x <= hi
                                    /\ lo <= q.rtt /\ q.rtt <= hi /\ q.var <= hi
      BY <3>2
    <3> HIDE DEF S
    <3>5. Min(S) = lo
      BY <3>3, <3>4 DEF Min
    <3>6. Max(S) = hi
      <4>1. hi \in S /\ \A y \in S : hi >= y
        BY <3>3, <3>4
      <4>2. ASSUME NEW x \in S, \A y \in S : x >= y PROVE x = hi
        <5>1. x >= hi /\ hi >= x /\ x \in Nat /\ hi \in Nat
          BY <3>3, <4>1, <4>2
        <5> QED BY <5>1
      <4> QED BY <4>1, <4>2 DEF Max
    <3>7. q.rtt \in lo .. hi /\ q.var \in 0 .. hi
      BY <3>2, <3>3, <3>4
    <3> QED BY <3>2, <3>5, <3>6, <3>7 DEF S
  <2>3. DropShare
    <3> SUFFICES ASSUME NEW p \in Peers
                 PROVE  Pass(peer[p]) \in {peer[p].throttle, peer[p].throttle + 1}
      BY DEF DropShare
    <3>1. peer[p] \in FlowPeer
      BY <1>1 DEF FlowInv, FlowPeerOK
    <3>2. peer[p].counter \in 0 .. Scale - 1 /\ peer[p].throttle \in 0 .. Scale
      BY <3>1, FlowFields
    <3>3. Pass(peer[p]) = IF peer[p].throttle < Scale THEN peer[p].throttle + 1 ELSE Scale
      BY <3>2, CounterShare DEF Pass
    <3> QED BY <3>2, <3>3, FlowAssumption
  <2> QED BY <2>1, <2>2, <2>3 DEF ThrottleExact
<1> QED BY <1>1, FlowInvariant, PTL
=============================================================================
