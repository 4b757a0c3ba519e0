------------------------------ MODULE TimingProofs ---------------------------
(***************************************************************************)
(* The samples and the estimates of RttEstimator, for every width of the   *)
(* clock and of the echoed time, every clock and every age; and the window *)
(* of RetransmitTimer, which runs on the same clock.                       *)
(***************************************************************************)
EXTENDS RttEstimator, RetransmitTimer, SeqNumProofs, TLAPS

----------------------------------------------------------------------------
(* The reconstructed sent time.                                             *)

\* The low part of the clock and the echoed time, one from the other.
LEMMA Echo ==
  ASSUME NEW t \in Nat, NEW age \in 0 .. (LowMod - 1), age <= t
  PROVE  /\ (t % ClockMod) % LowMod = t % LowMod
         /\ t % LowMod \in 0 .. (LowMod - 1)
         /\ t % ClockMod \in Nat /\ t % ClockMod < ClockMod
         /\ t % LowMod <= t % ClockMod
         /\ (t - age) % LowMod = IF age <= t % LowMod THEN (t % LowMod) - age
                                 ELSE (t % LowMod) - age + LowMod
<1>0. LowMod \in Nat \ {0} /\ ClockMod \in Nat \ {0}
  BY RttAssumption
<1>1. PICK m \in 1 .. ClockMod : ClockMod = m * LowMod
  BY RttAssumption
<1> DEFINE n == t % ClockMod
           lo == t % LowMod
           q == t \div LowMod
<1>2. n \in 0 .. (ClockMod - 1)
  BY <1>0, Division
<1>3. n % LowMod = lo
  BY <1>0, <1>1, RemainderOfRemainder, m \in Nat \ {0}, t \in Int
<1>4. q \in Int /\ t = LowMod * q + lo /\ lo \in 0 .. (LowMod - 1)
  BY <1>0, Division
<1>5. lo <= n
  <2>1. n \in Nat
    BY <1>2, <1>0
  <2>2. n % LowMod <= n
    BY <1>0, <2>1, RemainderBelow
  <2> QED BY <2>2, <1>3
<1>6. (t - age) % LowMod = (lo - age) % LowMod
  <2>1. t - age = (lo - age) + LowMod * q /\ lo - age \in Int
    BY <1>4, <1>0
  <2>2. ((lo - age) + LowMod * q) % LowMod = (lo - age) % LowMod
    BY <1>0, <1>4, <2>1, RemainderShift
  <2> QED BY <2>1, <2>2
<1>7. (lo - age) % LowMod = IF lo - age >= 0 THEN lo - age ELSE lo - age + LowMod
  <2>1. lo - age \in Int /\ -LowMod <= lo - age /\ lo - age < LowMod
    BY <1>4, <1>0
  <2> QED BY <2>1, <1>0, RemainderNear
<1> HIDE DEF n, lo, q
<1>8. n \in Nat /\ n < ClockMod
  BY <1>2, <1>0
<1>9. (t - age) % LowMod = IF age <= lo THEN lo - age ELSE lo - age + LowMod
  BY <1>6, <1>7, <1>4
<1> QED BY <1>3, <1>4, <1>5, <1>8, <1>9 DEF n, lo
\* Completing the low part e of the sent time with the upper part n - lo of
\* the clock, and taking off a turn (w) for a carry, gives n - age or a time
\* after n; the latter not within half a turn H.
LEMMA Recover ==
  ASSUME NEW L \in Nat \ {0}, NEW H \in Nat, H + H = L, NEW C \in Nat, L <= C,
         NEW n \in Nat, n < C, NEW lo \in 0 .. (L - 1), lo <= n,
         NEW age \in 0 .. (L - 1), NEW e \in Int,
         e = IF age <= lo THEN lo - age ELSE lo - age + L,
         NEW t \in Int, t = e + (n - lo),
         NEW w \in Int, w = IF t - L >= 0 THEN t - L ELSE t - L + C,
         NEW s \in Int, s = IF e >= H /\ ~(lo >= H) THEN w ELSE t
  PROVE  /\ n >= s => n - s = age
         /\ age <= H /\ age <= n => n >= s
<1>1. CASE age <= lo
  <2>1. ~(e >= H /\ ~(lo >= H)) /\ t = n - age
    BY <1>1
  <2> QED BY <2>1
<1>2. CASE age > lo /\ e >= H /\ ~(lo >= H)
  <2>1. t - L = n - age /\ s = w
    BY <1>2
  <2>2. CASE n >= age
    BY <2>1, <2>2
  <2>3. CASE n < age
    BY <2>1, <2>3
  <2> QED BY <2>2, <2>3
<1>3. CASE age > lo /\ ~(e >= H /\ ~(lo >= H))
  <2>1. t = n - age + L /\ s = t
    BY <1>3
  <2>2. ~(age <= H)
    BY <1>3
  <2> QED BY <2>1, <2>2
<1> QED BY <1>1, <1>2, <1>3

\* A sample is the age of the datagram.
LEMMA Exact ==
  ASSUME now \in Nat, NEW age \in 0 .. (LowMod - 1), age <= now
  PROVE  /\ Sampled(age) => Sample(age) = (IF age = 0 THEN 1 ELSE age)
         /\ age <= LowMod \div 2 /\ age <= now_ms => Sampled(age)
<1> DEFINE n == now % ClockMod
           lo == now % LowMod
           e == (now - age) % LowMod
           H == LowMod \div 2
           t == e + (n - lo)
           w == (t - LowMod) % ClockMod
           s == IF t % LowMod >= H /\ ~(lo >= H) THEN w ELSE t
<1>0. LowMod \in Nat \ {0} /\ ClockMod \in Nat
  BY RttAssumption
<1>1. /\ n % LowMod = lo /\ lo \in 0 .. (LowMod - 1) /\ lo <= n
      /\ n \in Nat /\ n < ClockMod
      /\ e = IF age <= lo THEN lo - age ELSE lo - age + LowMod
  BY Echo
<1>2. H \in Nat /\ H + H = LowMod
  BY RttAssumption
<1>3. LowMod <= ClockMod
  <2>1. PICK m \in 1 .. ClockMod : ClockMod = m * LowMod
    BY RttAssumption
  <2> QED BY <2>1, <1>0
<1>4. now_ms = n /\ SentTime(age) = s
  BY <1>1 DEF now_ms, SentTime, EchoedTime, HighBit
<1> HIDE DEF n, lo, e, H
<1> DEFINE k == n \div LowMod
           r == n % LowMod
<1>5. k \in Nat /\ n - r = LowMod * k
  BY <1>0, <1>1, RemainderBelow
<1>6. r = lo
  BY <1>1
<1> HIDE DEF k, r
<1>6a. k \in Int /\ n - lo = LowMod * k
  BY <1>5, <1>6
<1>7. e \in Int /\ e \in 0 .. (LowMod - 1)
  BY <1>0, <1>1
<1>8. t \in Int /\ t = e + (n - lo) /\ t = e + LowMod * k
  BY <1>7, <1>1, <1>0, <1>6a
<1> HIDE DEF t
<1>9. t % LowMod = e
  <2>1. (e + LowMod * k) % LowMod = e % LowMod
    BY <1>0, <1>6a, <1>7, RemainderShift
  <2>2. e % LowMod = IF e >= 0 THEN e ELSE e + LowMod
    BY <1>0, <1>7, RemainderNear
  <2> QED BY <2>1, <2>2, <1>7, <1>8
<1>10. w = IF t - LowMod >= 0 THEN t - LowMod ELSE t - LowMod + ClockMod
  <2>1. /\ t - LowMod \in Int /\ -ClockMod <= t - LowMod /\ t - LowMod < ClockMod
        /\ ClockMod \in Nat \ {0}
    BY <1>0, <1>1, <1>3, <1>7, <1>8
  <2> QED BY <2>1, RemainderNear
<1> HIDE DEF w
<1>11. w \in Int
  BY <1>10, <1>8, <1>0
<1>12. s = (IF e >= H /\ ~(lo >= H) THEN w ELSE t) /\ s \in Int
  BY <1>9, <1>8, <1>11
<1> HIDE DEF s
<1>13. (n >= s => n - s = age) /\ (age <= H /\ age <= n => n >= s)
  BY <1>0, <1>1, <1>2, <1>3, <1>7, <1>8, <1>10, <1>11, <1>12, Recover
<1>14. Sampled(age) = (n >= s) /\ Sample(age) = (IF n = s THEN 1 ELSE n - s)
  BY <1>4 DEF Sampled, Sample
<1>15. n >= s => (IF n = s THEN 1 ELSE n - s) = (IF age = 0 THEN 1 ELSE age)
  BY <1>13, <1>1, <1>12
<1>16. now_ms = n /\ H = LowMod \div 2
  BY <1>4 DEF H
<1> QED BY <1>13, <1>14, <1>15, <1>16

\* Every acknowledgement that yields a sample yields the true age of the
\* datagram, and one that is not too old does (on_ack): SampleExact holds for
\* all clock widths, clocks and ages.
LEMMA ExactSamples ==
  ASSUME now \in Nat
  PROVE  SampleExact
  BY Exact DEF SampleExact

----------------------------------------------------------------------------
(* The estimates.                                                           *)

Inv == TypeOK /\ RttBounded

\* A sample is between 1 and the largest time 16 bits can tell.
LEMMA SampleRange ==
  ASSUME now \in Nat, NEW age \in Ages, age <= now, Sampled(age)
  PROVE  Sample(age) \in 1 .. (LowMod - 1)
<1>1. age \in 0 .. (LowMod - 1) /\ LowMod \in Nat /\ LowMod >= 2
  BY RttAssumption
<1>2. Sample(age) = (IF age = 0 THEN 1 ELSE age)
  BY <1>1, Exact
<1> QED BY <1>1, <1>2

\* update_rtt moves the estimate towards the sample and no further.
LEMMA UpdateBounded ==
  ASSUME Inv, NEW s \in 1 .. (LowMod - 1), UpdateRtt(s)
  PROVE  rtt' \in 0 .. LowMod /\ rtt_var' \in 0 .. LowMod /\ rtt_initialized' = TRUE
<1>0. /\ LowMod \in Nat /\ rtt \in 0 .. LowMod /\ rtt_var \in 0 .. LowMod
      /\ rtt \in Nat /\ rtt_var \in Nat
  BY RttAssumption DEF Inv, TypeOK, RttBounded, Limit
<1>1. rtt_initialized' = TRUE
  BY DEF UpdateRtt
<1>2. CASE ~rtt_initialized
  <2>1. rtt' = s /\ rtt_var' = (s + 1) \div 2
    BY <1>2 DEF UpdateRtt
  <2> QED BY <2>1, <1>0, <1>1
<1>3. CASE rtt_initialized /\ s >= rtt
  <2> DEFINE d == s - rtt
  <2>1. rtt' = rtt + d \div 8 /\ rtt_var' = rtt_var - rtt_var \div 4 + d \div 4
    BY <1>3 DEF UpdateRtt
  <2>2. d \in 0 .. (LowMod - rtt)
    BY <1>0, <1>3
  <2> HIDE DEF d
  <2>3. rtt + d \div 8 \in 0 .. LowMod
    BY <1>0, <2>2
  <2>4. rtt_var - rtt_var \div 4 + d \div 4 \in 0 .. LowMod
    BY <1>0, <2>2
  <2> QED BY <1>1, <2>1, <2>3, <2>4
<1>4. CASE rtt_initialized /\ ~(s >= rtt)
  <2> DEFINE d == rtt - s
  <2>1. rtt' = rtt - d \div 8 /\ rtt_var' = rtt_var - rtt_var \div 4 + d \div 4
    BY <1>4 DEF UpdateRtt
  <2>2. d \in 0 .. rtt
    BY <1>0, <1>4
  <2> HIDE DEF d
  <2>3. rtt - d \div 8 \in 0 .. LowMod
    BY <1>0, <2>2
  <2>4. rtt_var - rtt_var \div 4 + d \div 4 \in 0 .. LowMod
    BY <1>0, <2>2
  <2> QED BY <1>1, <2>1, <2>3, <2>4
<1> QED BY <1>2, <1>3, <1>4 DEF UpdateRtt

\* The throttle stays on its scale.
LEMMA AdjustedBounded ==
  ASSUME Inv
  PROVE  Adjusted \in 0 .. Scale
<1>1. /\ Scale \in Nat /\ Acceleration \in Nat /\ Deceleration \in Nat
      /\ packet_throttle \in 0 .. Scale
  BY RttAssumption DEF Inv, RttBounded
<1> QED BY <1>1 DEF Adjusted

\* The theorem about on_ack and update_rtt: samples are true ages across
\* carries and wrap-around, the estimates stay below 2^16 ms and the throttle
\* on its scale.
THEOREM RoundTrip == Spec => [](TypeOK /\ RttBounded /\ SampleExact)
<1>1. Init => Inv
  <2> SUFFICES ASSUME Init PROVE Inv
    OBVIOUS
  <2>1. DefaultRtt \in Nat /\ DefaultRtt \in 0 .. LowMod /\ Scale \in Nat /\ LowMod \in Nat
    BY RttAssumption
  <2>2. DefaultRtt \div 2 \in Nat /\ DefaultRtt \div 2 \in 0 .. LowMod
    BY <2>1
  <2>3. RttBounded
    BY <2>1, <2>2 DEF Init, RttBounded, Limit
  <2>4. rtt_initialized \in BOOLEAN
    BY DEF Init
  <2>5. TypeOK
    BY <2>1, <2>2, <2>4 DEF Init, TypeOK
  <2> QED BY <2>3, <2>5 DEF Inv
<1>2. Inv /\ [Next]_vars => Inv'
  <2> SUFFICES ASSUME Inv, [Next]_vars PROVE Inv'
    OBVIOUS
  <2>0. LowMod \in Nat /\ Scale \in Nat /\ ClockMod \in Nat
    BY RttAssumption
  <2>1. ASSUME NEW age \in Ages, OnAck(age) PROVE Inv'
    <3>1. now' = now /\ now \in Nat /\ age <= now
      BY <2>1 DEF OnAck, Inv, TypeOK
    <3>2. rtt' \in 0 .. LowMod /\ rtt_var' \in 0 .. LowMod /\ rtt_initialized' \in BOOLEAN
      <4>1. CASE Sampled(age) /\ UpdateRtt(Sample(age))
        <5>1. Sample(age) \in 1 .. (LowMod - 1)
          BY <3>1, <4>1, SampleRange
        <5> QED BY <4>1, <5>1, UpdateBounded
      <4>2. CASE UNCHANGED rttVars
        BY <4>2 DEF rttVars, Inv, TypeOK, RttBounded, Limit
      <4> QED BY <2>1, <4>1, <4>2 DEF OnAck
    <3>3. now_ms \in Nat
      <4>1. ClockMod \in Nat \ {0}
        BY RttAssumption
      <4> QED BY <3>1, <4>1 DEF now_ms
    <3>4. /\ packet_throttle' \in 0 .. Scale /\ packet_throttle_epoch' \in Nat
          /\ rtt_at_throttle_epoch' \in 0 .. LowMod
      <4>1. CASE UNCHANGED throttleVars
        BY <4>1 DEF throttleVars, Inv, TypeOK, RttBounded, Limit
      <4>2. CASE /\ packet_throttle_epoch' = now_ms
                 /\ rtt_at_throttle_epoch' = rtt'
                 /\ packet_throttle' =
                      IF rtt_at_throttle_epoch > 0 THEN Adjusted ELSE packet_throttle
        <5>1. packet_throttle \in 0 .. Scale /\ Adjusted \in 0 .. Scale
          BY AdjustedBounded DEF Inv, RttBounded
        <5>2. packet_throttle' \in 0 .. Scale
          BY <4>2, <5>1
        <5> QED BY <4>2, <5>2, <3>2, <3>3
      <4> QED BY <2>1, <4>1, <4>2 DEF OnAck
    <3>5. rtt' \in Nat /\ rtt_var' \in Nat /\ packet_throttle' \in Nat
          /\ rtt_at_throttle_epoch' \in Nat
      BY <3>2, <3>4, <2>0
    <3> QED BY <3>1, <3>2, <3>4, <3>5 DEF Inv, TypeOK, RttBounded, Limit
  <2>2. ASSUME NEW d \in Steps, Pass(d) PROVE Inv'
    <3>1. d \in Nat
      BY RttAssumption
    <3> QED BY <2>2, <3>1 DEF Pass, rttVars, throttleVars, Inv, TypeOK, RttBounded, Limit
  <2>3. CASE UNCHANGED vars
    BY <2>3 DEF vars, rttVars, throttleVars, Inv, TypeOK, RttBounded, Limit
  <2> QED BY <2>1, <2>2, <2>3 DEF Next
<1>3. Inv => TypeOK /\ RttBounded /\ SampleExact
  BY ExactSamples DEF Inv, TypeOK
<1> QED BY <1>1, <1>2, <1>3, PTL DEF Spec

\* The estimate, its variation and the throttle stay within their bounds,
\* whatever is sampled and whenever: update_rtt and the throttle never overflow.
THEOREM EstimatesBounded == Spec => []RttBounded
<1> QED BY RoundTrip, PTL
----------------------------------------------------------------------------
(* The retransmission timer, for every clock, every limit and every first   *)
(* timeout: a dead peer is found out in bounded time and no peer is given   *)
(* up too early, wherever the clock wraps.                                  *)

\* wrapping_sub of clock readings less than one turn apart.
LEMMA SmallMod ==
  ASSUME ClockRange \in Nat \ {0}, NEW x \in Int, -ClockRange < x, x < ClockRange
  PROVE  x % ClockRange = IF x >= 0 THEN x ELSE x + ClockRange
<1>1. -ClockRange <= x
  OBVIOUS
<1> QED BY <1>1, RemainderNear

\* The sum of two limits that bounds every age.
LEMMA HorizonFacts ==
  /\ Horizon \in Nat /\ 2 * Horizon < ClockRange /\ ClockRange \in Nat \ {0}
  /\ TimeoutMax \in Nat /\ TimeoutMin \in Nat /\ TimeoutMin <= TimeoutMax
  /\ MaxTick \in Nat \ {0} /\ MaxTimeout \in Nat
  /\ Horizon = 2 * TimeoutMax + MaxTimeout + MaxTick
  BY TimerAssumption DEF Horizon

\* Clock readings of the state.
Clock == 0 .. (ClockRange - 1)

\* One more unit of time adds one to every elapsed time that has not wrapped.
LEMMA ElapsedPass ==
  ASSUME ClockRange \in Nat \ {0}, NEW t \in Clock, NEW since \in Clock, NEW d \in Nat, d + 1 < ClockRange,
         (t - since) % ClockRange = d
  PROVE  /\ (t + 1) % ClockRange \in Clock
         /\ (((t + 1) % ClockRange) - since) % ClockRange = d + 1
<1>0. ClockRange \in Nat \ {0} /\ t \in Int /\ since \in Int
  BY DEF Clock
<1>1. t - since \in Int /\ -ClockRange < t - since /\ t - since < ClockRange
  BY <1>0 DEF Clock
<1>2. d = IF t - since >= 0 THEN t - since ELSE t - since + ClockRange
  BY <1>1, SmallMod
<1>3. CASE t + 1 < ClockRange
  <2>1. (t + 1) % ClockRange = t + 1
    BY <1>0, <1>3, SmallMod DEF Clock
  <2>2. (t + 1) - since \in Int /\ -ClockRange < (t + 1) - since /\ (t + 1) - since < ClockRange
    BY <1>0, <1>3 DEF Clock
  <2>3. ((t + 1) - since) % ClockRange =
          IF (t + 1) - since >= 0 THEN (t + 1) - since ELSE (t + 1) - since + ClockRange
    BY <2>2, SmallMod
  <2> QED BY <1>0, <1>2, <1>3, <2>1, <2>3 DEF Clock
<1>4. CASE t + 1 = ClockRange
  <2>1. (t + 1) % ClockRange = 0
    BY <1>0, <1>4
  <2>2. 0 - since \in Int /\ -ClockRange < 0 - since /\ 0 - since < ClockRange
    BY <1>0 DEF Clock
  <2>3. (0 - since) % ClockRange = IF 0 - since >= 0 THEN 0 - since ELSE 0 - since + ClockRange
    BY <2>2, SmallMod
  <2> QED BY <1>0, <1>2, <1>4, <2>1, <2>3 DEF Clock
<1> QED BY <1>0, <1>3, <1>4 DEF Clock

\* The invariant holds initially.
LEMMA TimerStarts == TimerInit => TimerTypeOK /\ TimerInv
<1> SUFFICES ASSUME TimerInit PROVE TimerTypeOK /\ TimerInv
  OBVIOUS
<1>1. clock \in Clock /\ first \in 1 .. MaxTimeout
  BY TimerAssumption DEF TimerInit, Clock
<1>2. (clock - clock) % ClockRange = 0
  BY <1>1, HorizonFacts, SmallMod DEF Clock
<1>3. first \in 1 .. (ClockRange - 1)
  BY <1>1, HorizonFacts
<1>4. TimerTypeOK
  <2>1. /\ cmd_age \in Nat /\ sent_age \in 0 .. cmd_age /\ idle \in 0 .. MaxTick
        /\ send_attempts \in Nat \ {0}
    BY HorizonFacts DEF TimerInit
  <2>2. removed \in BOOLEAN /\ first \in Timeouts
    BY DEF TimerInit
  <2>3. /\ original_sent_time \in 0 .. (ClockRange - 1) /\ sent_time \in 0 .. (ClockRange - 1)
        /\ clock \in 0 .. (ClockRange - 1) /\ rtt_timeout \in 1 .. (ClockRange - 1)
    BY <1>1, <1>3 DEF TimerInit, Clock
  <2> QED BY <2>1, <2>2, <2>3 DEF TimerTypeOK
<1> QED BY <1>1, <1>2, <1>4, HorizonFacts DEF TimerInit, TimerInv, Elapsed, NotTooEarly

\* Every step preserves it: a timeout is only doubled once it has elapsed, so
\* that it never exceeds the age of the last transmission by more than the
\* first timeout, and that age is below TIMEOUT_MAXIMUM_MS.
LEMMA TimerStep ==
  TimerTypeOK /\ TimerInv /\ [TimerNext]_timerVars => (TimerTypeOK /\ TimerInv)'
<1> SUFFICES ASSUME TimerTypeOK, TimerInv, [TimerNext]_timerVars PROVE (TimerTypeOK /\ TimerInv)'
  OBVIOUS
<1>1. /\ clock \in Clock /\ original_sent_time \in Clock /\ sent_time \in Clock
      /\ cmd_age \in Nat /\ sent_age \in Nat /\ sent_age <= cmd_age /\ idle \in Nat /\ idle <= MaxTick
      /\ rtt_timeout \in Nat /\ rtt_timeout >= 1 /\ send_attempts \in Nat
      /\ first \in 1 .. MaxTimeout
  BY TimerAssumption DEF TimerTypeOK, Clock
<1>2. /\ (clock - original_sent_time) % ClockRange = cmd_age
      /\ (clock - sent_time) % ClockRange = cmd_age - sent_age
      /\ cmd_age <= Horizon /\ rtt_timeout <= sent_age + first
      /\ sent_age <= TimeoutMax
  BY <1>1, HorizonFacts DEF TimerInv, Elapsed
<1>3. ASSUME PassTime PROVE (TimerTypeOK /\ TimerInv)'
  <2>1. ~removed /\ idle < MaxTick /\ cmd_age <= sent_age + rtt_timeout + idle
    BY <1>3 DEF PassTime, TimerInv
  <2>2. /\ cmd_age' = cmd_age + 1 /\ idle' = idle + 1 /\ clock' = (clock + 1) % ClockRange
        /\ UNCHANGED <<original_sent_time, sent_time, rtt_timeout, send_attempts,
                       removed, first, sent_age>>
    BY <1>3 DEF PassTime
  <2>3. cmd_age + 1 < ClockRange /\ (cmd_age - sent_age) + 1 < ClockRange /\ cmd_age - sent_age \in Nat
    BY <1>1, <1>2, HorizonFacts
  <2>4. clock' \in Clock /\ (clock' - original_sent_time) % ClockRange = cmd_age + 1
    BY <1>1, <1>2, <2>2, <2>3, HorizonFacts, ElapsedPass
  <2>5. (clock' - sent_time) % ClockRange = (cmd_age - sent_age) + 1
    BY <1>1, <1>2, <2>2, <2>3, HorizonFacts, ElapsedPass
  <2>6. cmd_age + 1 <= sent_age + rtt_timeout + (idle + 1)
    BY <1>1, <2>1
  <2>7. cmd_age + 1 <= Horizon
    BY <1>1, <1>2, <2>1, <2>6, HorizonFacts
  <2>8. idle + 1 \in 0 .. MaxTick /\ cmd_age + 1 \in Nat /\ sent_age \in 0 .. (cmd_age + 1)
        /\ (cmd_age + 1) - sent_age = (cmd_age - sent_age) + 1
    BY <1>1, <2>1, HorizonFacts
  <2>9. TimerTypeOK'
    BY <2>2, <2>4, <2>8 DEF TimerTypeOK, Clock
  <2>10. NotTooEarly'
    BY <2>1, <2>2 DEF NotTooEarly
  <2> QED BY <2>2, <2>4, <2>5, <2>6, <2>7, <2>8, <2>9, <2>10 DEF TimerInv, Elapsed
<1>4. ASSUME Service PROVE (TimerTypeOK /\ TimerInv)'
  <2>1. ~removed /\ idle' = 0 /\ UNCHANGED <<clock, original_sent_time, first, cmd_age>>
    BY <1>4 DEF Service
  <2>2. Due <=> cmd_age - sent_age >= rtt_timeout
    BY <1>2 DEF Due, Elapsed
  <2>3. CASE Wait
    <3>1. UNCHANGED <<sent_time, rtt_timeout, send_attempts, removed, sent_age>>
      BY <2>3 DEF Wait
    <3>2. cmd_age <= sent_age + rtt_timeout + 0
      BY <1>1, <2>2, <2>3 DEF Wait
    <3>3. TimerTypeOK'
      BY <2>1, <3>1, HorizonFacts DEF TimerTypeOK
    <3> QED BY <2>1, <3>1, <3>2, <3>3 DEF TimerInv, Elapsed, NotTooEarly
  <2>4. CASE GiveUp
    <3>1. removed' = TRUE /\ UNCHANGED <<sent_time, rtt_timeout, send_attempts, sent_age>>
      BY <2>4 DEF GiveUp
    <3>2. cmd_age >= TimeoutMin
      <4>1. cmd_age >= TimeoutMax \/ cmd_age >= TimeoutMin
        BY <1>2, <2>4 DEF GiveUp, Overdue, Elapsed
      <4> QED BY <1>1, <4>1, HorizonFacts
    <3>3. TimerTypeOK'
      BY <2>1, <3>1, HorizonFacts DEF TimerTypeOK
    <3> QED BY <2>1, <3>1, <3>2, <3>3 DEF TimerInv, Elapsed, NotTooEarly
  <2>5. CASE Retransmit
    <3>1. /\ send_attempts' = send_attempts + 1 /\ rtt_timeout' = Doubled(rtt_timeout)
          /\ sent_time' = clock /\ sent_age' = cmd_age /\ UNCHANGED removed
      BY <2>5 DEF Retransmit
    <3>2. cmd_age - sent_age >= rtt_timeout /\ cmd_age < TimeoutMax
      <4>1. ~(cmd_age >= TimeoutMax)
        BY <1>2, <2>5 DEF Retransmit, Overdue, Elapsed
      <4> QED BY <1>1, <2>2, <2>5, <4>1, HorizonFacts DEF Retransmit
    <3>3. Doubled(rtt_timeout) \in 1 .. (ClockRange - 1) /\ Doubled(rtt_timeout) <= 2 * rtt_timeout
      BY <1>1, HorizonFacts DEF Doubled
    <3>4. Doubled(rtt_timeout) <= cmd_age + first
      BY <1>1, <1>2, <3>2, <3>3, HorizonFacts
    <3>5. (clock - clock) % ClockRange = 0
      BY <1>1, HorizonFacts, SmallMod DEF Clock
    <3>6. cmd_age <= cmd_age + Doubled(rtt_timeout) + 0 /\ cmd_age \in 0 .. cmd_age /\ cmd_age - cmd_age = 0
      BY <1>1, <3>3, HorizonFacts
    <3>7. TimerTypeOK'
      BY <1>1, <2>1, <3>1, <3>3, <3>6, HorizonFacts DEF TimerTypeOK
    <3>8. NotTooEarly'
      BY <2>1, <3>1 DEF NotTooEarly
    <3>9. Elapsed(original_sent_time)' = cmd_age' /\ Elapsed(sent_time)' = cmd_age' - sent_age'
      BY <1>2, <2>1, <3>1, <3>5, <3>6 DEF Elapsed
    <3> QED BY <1>2, <2>1, <3>1, <3>2, <3>4, <3>6, <3>7, <3>8, <3>9 DEF TimerInv
  <2> QED BY <1>4, <2>3, <2>4, <2>5 DEF Service
<1>5. ASSUME UNCHANGED timerVars PROVE (TimerTypeOK /\ TimerInv)'
  BY <1>5 DEF timerVars, TimerTypeOK, TimerInv, Elapsed, NotTooEarly
<1> QED BY <1>3, <1>4, <1>5 DEF TimerNext

\* A peer that acknowledges nothing is given up at an age of at most Horizon,
\* and not before TIMEOUT_MINIMUM_MS (service_one).
THEOREM TimeoutWindow == TimerSpec => [](TimerInv /\ FoundOut /\ NotTooEarly)
<1>1. TimerTypeOK /\ TimerInv => TimerInv /\ FoundOut /\ NotTooEarly
  BY DEF TimerInv, FoundOut
<1> QED BY <1>1, TimerStarts, TimerStep, PTL DEF TimerSpec
==============================================================================
