----------------------------- MODULE RttEstimator -----------------------------
(***************************************************************************)
(* What on_ack (task.rs) learns from an acknowledgement: the full sent     *)
(* time from the 16 bits the ACK echoes, the round-trip estimate           *)
(* (update_rtt), and the packet throttle, adjusted once per interval.      *)
(* Every transmission carries its own sent time, so an ACK tells the age   *)
(* of the very datagram it answers.                                        *)
(***************************************************************************)
EXTENDS Integers

CONSTANTS
  LowMod,           \* 2^16: what the header carries of the clock
  ClockMod,         \* 2^32: the clock now_ms
  Ages,             \* ages of the datagrams that are acknowledged
  Steps,            \* time that passes between two acknowledgements
  MaxNow,           \* bound: time modelled
  DefaultRtt,       \* DEFAULT_RTT_MS
  Scale,            \* PACKET_THROTTLE_SCALE
  Interval, Acceleration, Deceleration

ASSUME RttAssumption ==
  /\ LowMod \in Nat /\ LowMod >= 2 /\ LowMod % 2 = 0
  /\ ClockMod \in Nat /\ \E m \in 1 .. ClockMod : ClockMod = m * LowMod
  /\ Ages \subseteq 0 .. (LowMod - 1) /\ Steps \subseteq Nat /\ MaxNow \in Nat
  /\ DefaultRtt \in 1 .. (LowMod - 1)
  /\ Scale \in Nat /\ Interval \in Nat /\ Acceleration \in Nat /\ Deceleration \in Nat

VARIABLES
  now,               \* time since the host started; now_ms is now % ClockMod
  rtt, rtt_var, rtt_initialized,
  packet_throttle, packet_throttle_epoch, rtt_at_throttle_epoch

rttVars == <<rtt, rtt_var, rtt_initialized>>
throttleVars == <<packet_throttle, packet_throttle_epoch, rtt_at_throttle_epoch>>
vars == <<now, rttVars, throttleVars>>

Init ==
  /\ now = 0
  /\ rtt = DefaultRtt /\ rtt_var = DefaultRtt \div 2 /\ rtt_initialized = FALSE
  /\ packet_throttle = Scale /\ packet_throttle_epoch = 0
  /\ rtt_at_throttle_epoch = DefaultRtt

----------------------------------------------------------------------------

now_ms == now % ClockMod

\* make_datagram, age units ago: the low half of the clock.
EchoedTime(age) == (now - age) % LowMod

\* The bit 0x8000 of a clock reading.
HighBit(t) == t % LowMod >= LowMod \div 2

\* Mutant: without the correction for a carry since.
SentTime_NoCarry(age) == EchoedTime(age) + (now_ms - (now_ms % LowMod))

\* on_ack: the echoed half completed with the upper half of the clock, which
\* is one too large if the lower half has wrapped since.
SentTime(age) ==
  LET t == EchoedTime(age) + (now_ms - (now_ms % LowMod))
  IN  IF HighBit(t) /\ ~HighBit(now_ms) THEN (t - LowMod) % ClockMod ELSE t

\* A sent time in the future gives no sample.
Sampled(age) == now_ms >= SentTime(age)

Sample(age) == IF now_ms = SentTime(age) THEN 1 ELSE now_ms - SentTime(age)

\* update_rtt.
UpdateRtt(s) ==
  LET diff == IF s >= rtt THEN s - rtt ELSE rtt - s
  IN  /\ rtt_initialized' = TRUE
      /\ \/ /\ ~rtt_initialized
            /\ rtt' = s /\ rtt_var' = (s + 1) \div 2
         \/ /\ rtt_initialized
            /\ rtt' = IF s >= rtt THEN rtt + diff \div 8 ELSE rtt - diff \div 8
            /\ rtt_var' = rtt_var - rtt_var \div 4 + diff \div 4

IntervalOver ==
  packet_throttle_epoch = 0 \/ (now_ms - packet_throttle_epoch) % ClockMod >= Interval

\* Mutant: no upper limit.
Adjusted_Unlimited ==
  IF rtt' < rtt_at_throttle_epoch THEN packet_throttle + Acceleration
  ELSE packet_throttle

\* Faster than at the last epoch: accelerate.  Slower by more than twice the
\* variance: decelerate.
Adjusted ==
  IF ~rtt_initialized' THEN packet_throttle
  ELSE IF rtt' < rtt_at_throttle_epoch
       THEN IF packet_throttle + Acceleration < Scale
            THEN packet_throttle + Acceleration ELSE Scale
  ELSE IF rtt' > rtt_at_throttle_epoch + 2 * rtt_var'
       THEN IF packet_throttle > Deceleration
            THEN packet_throttle - Deceleration ELSE 0
  ELSE packet_throttle

\* The RTT and throttle part of on_ack.
OnAck(age) ==
  /\ age <= now
  /\ \/ Sampled(age) /\ UpdateRtt(Sample(age))
     \/ ~Sampled(age) /\ UNCHANGED rttVars
  /\ \/ /\ IntervalOver
        /\ packet_throttle_epoch' = now_ms
        /\ rtt_at_throttle_epoch' = rtt'
        /\ packet_throttle' =
             IF rtt_at_throttle_epoch > 0 THEN Adjusted ELSE packet_throttle
     \/ ~IntervalOver /\ UNCHANGED throttleVars
  /\ UNCHANGED now

\* Time passes.
Pass(d) ==
  /\ now + d <= MaxNow
  /\ now' = now + d
  /\ UNCHANGED <<rttVars, throttleVars>>

Next == (\E age \in Ages : OnAck(age)) \/ (\E d \in Steps : Pass(d))

Spec == Init /\ [][Next]_vars

----------------------------------------------------------------------------
(* Properties.                                                              *)

\* The types of the fields; u32 needs no more, by RttBounded.
TypeOK ==
  /\ now \in Nat /\ rtt \in Nat /\ rtt_var \in Nat /\ rtt_initialized \in BOOLEAN
  /\ packet_throttle \in Nat /\ packet_throttle_epoch \in Nat
  /\ rtt_at_throttle_epoch \in Nat

Limit == LowMod   \* 65536 ms

\* The estimates stay below 2^16 ms, far from the limits of u32, and never
\* negative; the throttle stays on its scale.
RttBounded ==
  /\ rtt \in 0 .. Limit /\ rtt_var \in 0 .. Limit
  /\ rtt_at_throttle_epoch \in 0 .. Limit
  /\ packet_throttle \in 0 .. Scale

\* The sample taken from an ACK is the true age of the datagram, for every
\* age the 16 bits can tell, across carries and the wrap of the clock; and a
\* datagram of at most 2^15 ms yields one, unless the clock wrapped since.
SampleExact ==
  \A age \in 0 .. (LowMod - 1) :
    age <= now =>
      /\ Sampled(age) => Sample(age) = (IF age = 0 THEN 1 ELSE age)
      /\ age <= LowMod \div 2 /\ age <= now_ms => Sampled(age)
=============================================================================
