--------------------------- MODULE RetransmitTimer ---------------------------
(***************************************************************************)
(* The retransmission timer of one reliable command that is never          *)
(* acknowledged: make_reliable starts it, service_one retransmits with a   *)
(* doubled timeout and in the end gives up on the peer (task.rs).  The     *)
(* clock is now_ms, a wrapping u32; the ticker of run calls service_one at *)
(* least every MaxTick units.  Commands are independent of each other: the *)
(* peer is removed when the first of them is overdue.                      *)
(***************************************************************************)
EXTENDS Integers

CONSTANTS
  ClockRange,    \* 2^32
  Starts,        \* clock readings at which the command is first sent
  Timeouts,      \* values of initial_rtt_timeout
  MaxTimeout,    \* an upper bound of them
  TimeoutLimit,  \* TIMEOUT_LIMIT (32)
  TimeoutMin,    \* TIMEOUT_MINIMUM_MS
  TimeoutMax,    \* TIMEOUT_MAXIMUM_MS
  MaxTick        \* longest time between two service ticks

\* No command is older than Horizon: the last check before TimeoutMax leaves
\* a timeout of at most the age then reached and the first timeout together.
Horizon == 2 * TimeoutMax + MaxTimeout + MaxTick

ASSUME TimerAssumption ==
  /\ ClockRange \in Nat /\ TimeoutLimit \in Nat /\ TimeoutMin \in Nat
  /\ TimeoutMax \in Nat /\ TimeoutMin <= TimeoutMax
  /\ MaxTick \in Nat \ {0} /\ MaxTimeout \in Nat
  /\ Timeouts \subseteq 1 .. MaxTimeout
  /\ Starts \subseteq 0 .. (ClockRange - 1)
  /\ 2 * Horizon < ClockRange

VARIABLES
  clock,               \* now_ms
  original_sent_time,
  sent_time,
  rtt_timeout,
  send_attempts,
  removed,             \* service_one has given up on the peer
  first,               \* history: the first timeout
  cmd_age,             \* history: time since the first transmission
  sent_age,            \* history: age at the latest transmission
  idle                 \* time since the last service tick

timerVars == <<clock, original_sent_time, sent_time, rtt_timeout, send_attempts, removed,
               first, cmd_age, sent_age, idle>>

TimerInit ==
  /\ clock \in Starts /\ original_sent_time = clock /\ sent_time = clock
  /\ first \in Timeouts /\ rtt_timeout = first
  /\ send_attempts = 1 /\ removed = FALSE
  /\ cmd_age = 0 /\ sent_age = 0 /\ idle = 0

PassTime ==
  /\ ~removed /\ idle < MaxTick
  /\ clock' = (clock + 1) % ClockRange
  /\ cmd_age' = cmd_age + 1 /\ idle' = idle + 1
  /\ UNCHANGED <<original_sent_time, sent_time, rtt_timeout, send_attempts, removed,
                 first, sent_age>>

\* u32::wrapping_sub of clock readings.
Elapsed(since) == (clock - since) % ClockRange

\* u32::saturating_mul(2).
Doubled(t) == IF 2 * t < ClockRange THEN 2 * t ELSE ClockRange - 1

\* 1 << min(send_attempts - 1, 31), against TIMEOUT_LIMIT.
AttemptsOver ==
  2 ^ (IF send_attempts - 1 < 31 THEN send_attempts - 1 ELSE 31) >= TimeoutLimit

Due == Elapsed(sent_time) >= rtt_timeout

Overdue ==
  \/ Elapsed(original_sent_time) >= TimeoutMax
  \/ AttemptsOver /\ Elapsed(original_sent_time) >= TimeoutMin

Wait ==
  /\ ~Due
  /\ UNCHANGED <<sent_time, rtt_timeout, send_attempts, removed, sent_age>>

GiveUp ==
  /\ Due /\ Overdue
  /\ removed' = TRUE
  /\ UNCHANGED <<sent_time, rtt_timeout, send_attempts, sent_age>>

\* Mutant: the timeout grows threefold.
Retransmit_Tripled ==
  /\ Due /\ ~Overdue
  /\ send_attempts' = send_attempts + 1
  /\ rtt_timeout' = 3 * rtt_timeout
  /\ sent_time' = clock /\ sent_age' = cmd_age
  /\ UNCHANGED removed

Retransmit ==
  /\ Due /\ ~Overdue
  /\ send_attempts' = send_attempts + 1
  /\ rtt_timeout' = Doubled(rtt_timeout)
  /\ sent_time' = clock /\ sent_age' = cmd_age
  /\ UNCHANGED removed

\* The loop body of service_one for this command.
Service ==
  /\ ~removed
  /\ Wait \/ GiveUp \/ Retransmit
  /\ idle' = 0
  /\ UNCHANGED <<clock, original_sent_time, first, cmd_age>>

TimerNext == PassTime \/ Service

TimerSpec == TimerInit /\ [][TimerNext]_timerVars

----------------------------------------------------------------------------
(* Properties.                                                              *)

\* Times stay u32, and the last transmission is never younger than the clock.
TimerTypeOK ==
  /\ clock \in 0 .. (ClockRange - 1)
  /\ original_sent_time \in 0 .. (ClockRange - 1) /\ sent_time \in 0 .. (ClockRange - 1)
  /\ rtt_timeout \in 1 .. (ClockRange - 1) /\ send_attempts \in Nat \ {0}
  /\ removed \in BOOLEAN /\ first \in Timeouts
  /\ cmd_age \in Nat /\ sent_age \in 0 .. cmd_age /\ idle \in 0 .. MaxTick

\* A peer that acknowledges nothing is found out: the command is never older
\* than twice TIMEOUT_MAXIMUM_MS, a first timeout and a tick, wherever the
\* clock wraps.
FoundOut == ~removed => cmd_age <= Horizon

\* Nor is a peer given up early: the first transmission is at least
\* TIMEOUT_MINIMUM_MS ago, although attempts run out sooner.
NotTooEarly == removed => cmd_age >= TimeoutMin

\* service_one's comment: resetting sent_time on a retransmission does not
\* prevent the 30 s maximum timeout.
HardLimit == ~removed => cmd_age <= TimeoutMax + MaxTick

\* The inductive invariant: the clock readings are the wrapped ages, and the
\* current timeout is at most the age of the last transmission and the first
\* timeout together.
TimerInv ==
  /\ Elapsed(original_sent_time) = cmd_age
  /\ Elapsed(sent_time) = cmd_age - sent_age
  /\ cmd_age <= Horizon
  /\ rtt_timeout <= sent_age + first
  /\ sent_age > 0 => sent_age < TimeoutMax
  /\ ~removed => cmd_age <= sent_age + rtt_timeout + idle
  /\ NotTooEarly
=============================================================================
