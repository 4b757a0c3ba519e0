--------------------------- MODULE OriginalTimers ---------------------------
(***************************************************************************)
(* The clock of a connection of the original C library: when a reliable    *)
(* command is sent again, when the peer is given up, when it is pinged,    *)
(* and what a round trip is measured to take (protocol.c, peer.c, time.h). *)
(*                                                                         *)
(* Times are numbers of TimeRange (2^32) that wrap around; a datagram      *)
(* carries only the last LowRange (2^16) of one. The estimate that gives a *)
(* new command its timeout is any of RoundTripTimeouts (module             *)
(* OriginalFlow models the estimate). Every transmission may be            *)
(* acknowledged late, several times or never.                              *)
(***************************************************************************)
EXTENDS Integers, Sequences, FiniteSets, SequencesExt

CONSTANTS
    TimeRange, LowRange,
    TimeOverflow,        \* ENET_TIME_OVERFLOW
    RoundTripTimeouts,   \* roundTripTime + 4 * roundTripTimeVariance
    TimeoutLimit, TimeoutMinimum, TimeoutMaximum,
    PingInterval,
    Start,               \* time at which the connection is made
    MaxStep,             \* time between two calls of enet_host_service, at most
    MaxElapsed,          \* bound on the time that passes
    MaxCommands          \* bound on the commands queued, pings included

ASSUME TimeAssumption ==
    /\ LowRange \in Nat /\ LowRange > 1 /\ LowRange % 2 = 0
    /\ TimeRange \in Nat /\ TimeRange > LowRange /\ TimeRange % LowRange = 0
    /\ TimeOverflow \in Nat /\ LowRange <= TimeOverflow /\ TimeOverflow <= TimeRange - LowRange
    /\ Start \in 0 .. TimeRange - 1
    /\ MaxElapsed \in Nat /\ MaxStep \in Nat

\* An estimate is at least 1, and one of them is the longest.
ASSUME TimeoutAssumption ==
    /\ RoundTripTimeouts \subseteq Nat \ {0}
    /\ \E r \in RoundTripTimeouts : \A q \in RoundTripTimeouts : q <= r
    /\ TimeoutMinimum \in Nat /\ TimeoutMaximum \in Nat

VARIABLES
    elapsed,     \* time since the connection was made; the clock shows Now
    state,       \* "CONNECTED", or "DISCONNECTED" once the peer is given up
    out,         \* outgoingCommands, waiting to be sent (again)
    sent,        \* sentReliableCommands
    next,        \* nextTimeout
    earliest,    \* earliestTimeout
    received,    \* lastReceiveTime
    echoes,      \* the transmissions so far, each with what its ACK would carry
    commands     \* commands queued so far

vars == <<elapsed, state, out, sent, next, earliest, received, echoes, commands>>

Now == (Start + elapsed) % TimeRange

\* ENET_TIME_LESS, ENET_TIME_DIFFERENCE
TimeLess(a, b) == (a - b) % TimeRange >= TimeOverflow
TimeDifference(a, b) ==
    IF (a - b) % TimeRange >= TimeOverflow THEN (b - a) % TimeRange ELSE (a - b) % TimeRange

\* first and last are the times elapsed at the first and at the latest
\* transmission, for the properties.
Command(id) ==
    [id |-> id, attempts |-> 0, rto |-> 0, sentTime |-> 0, first |-> -1, last |-> -1]

Due(c) == (c.sentTime + c.rto) % TimeRange
-----------------------------------------------------------------------------
\* Mutant: a peer is given up by the number of attempts alone.
Expire_NoMinimum(t, s, acc, i) ==
    LET c == s[i]
        first == IF acc.earliest = 0 \/ TimeLess(c.sentTime, acc.earliest)
                 THEN c.sentTime ELSE acc.earliest
    IN  IF acc.gone \/ TimeDifference(t, c.sentTime) < c.rto
        THEN [acc EXCEPT !.kept = Append(@, c)]
        ELSE [acc EXCEPT
                !.earliest = first,
                !.gone = first # 0 /\ (\/ TimeDifference(t, first) >= TimeoutMaximum
                                       \/ 2 ^ (c.attempts - 1) >= TimeoutLimit),
                !.moved = Append(@, [c EXCEPT !.rto = 2 * @]),
                !.next = IF acc.kept = <<>> /\ i < Len(s) THEN Due(s[i + 1]) ELSE @]

\* One command of enet_protocol_check_timeouts at time t, i-th of the list s:
\* an expired one may end the connection, else its timeout doubles and it
\* moves to the commands to be sent; 0 stands for no earliest timeout.
Expire(t, s, acc, i) ==
    LET c == s[i]
        first == IF acc.earliest = 0 \/ TimeLess(c.sentTime, acc.earliest)
                 THEN c.sentTime ELSE acc.earliest
        age == TimeDifference(t, first)
    IN  IF acc.gone \/ TimeDifference(t, c.sentTime) < c.rto
        THEN [acc EXCEPT !.kept = Append(@, c)]
        ELSE [acc EXCEPT
                !.earliest = first,
                !.gone = first # 0 /\ (\/ age >= TimeoutMaximum
                                       \/ 2 ^ (c.attempts - 1) >= TimeoutLimit /\ age >= TimeoutMinimum),
                !.moved = Append(@, [c EXCEPT !.rto = 2 * @]),
                !.next = IF acc.kept = <<>> /\ i < Len(s) THEN Due(s[i + 1]) ELSE @]

\* The commands of sentReliableCommands one after the other
Scan(t, s, from) ==
    LET acc[i \in 0 .. Len(s)] == IF i = 0 THEN from ELSE Expire(t, s, acc[i - 1], i)
    IN  acc[Len(s)]

\* Mutant: times are compared as plain numbers.
CheckTimeouts_NoWrap(t) ==
    LET none == [earliest |-> earliest, gone |-> FALSE, moved |-> <<>>, kept |-> <<>>, next |-> next]
    IN  IF sent = <<>> \/ t < next THEN [none EXCEPT !.kept = sent] ELSE Scan(t, sent, none)

CheckTimeouts(t) ==
    LET none == [earliest |-> earliest, gone |-> FALSE, moved |-> <<>>, kept |-> <<>>, next |-> next]
    IN  IF sent = <<>> \/ TimeLess(t, next) THEN [none EXCEPT !.kept = sent] ELSE Scan(t, sent, none)

\* Every command that waits is sent: enet_protocol_check_outgoing_commands.
Transmit(t, at, rto, cs) ==
    [i \in DOMAIN cs |-> [cs[i] EXCEPT !.attempts = @ + 1, !.sentTime = t,
                                       !.rto = IF @ = 0 THEN rto ELSE @,
                                       !.first = IF @ < 0 THEN at ELSE @,
                                       !.last = at]]

\* enet_host_service after d: timeouts, then the commands that wait, or a ping
\* if nothing is under way and nothing came for a while.
Service(d, rto) ==
    LET at == elapsed + d
        t == (Start + at) % TimeRange
        x == CheckTimeouts(t)
        waiting == x.moved \o out
        ping == /\ waiting = <<>> /\ x.kept = <<>>
                /\ TimeDifference(t, received) >= PingInterval
                /\ commands < MaxCommands
        new == Transmit(t, at, rto, IF ping THEN <<Command(commands)>> ELSE waiting)
    IN  /\ state = "CONNECTED"
        /\ at <= MaxElapsed
        /\ elapsed' = at
        /\ IF x.gone
           THEN /\ state' = "DISCONNECTED"
                /\ UNCHANGED <<out, sent, next, earliest, received, echoes, commands>>
           ELSE /\ sent' = x.kept \o new
                /\ out' = <<>>
                /\ next' = IF x.kept = <<>> /\ new # <<>> THEN (t + new[1].rto) % TimeRange
                           ELSE x.next
                /\ earliest' = x.earliest
                /\ echoes' = echoes \cup {[id |-> new[i].id, low |-> t % LowRange, at |-> at]
                                            : i \in DOMAIN new}
                /\ commands' = IF ping THEN commands + 1 ELSE commands
                /\ UNCHANGED <<state, received>>

\* enet_peer_send and the like
Queue ==
    /\ state = "CONNECTED"
    /\ commands < MaxCommands
    /\ commands' = commands + 1
    /\ out' = Append(out, Command(commands))
    /\ UNCHANGED <<elapsed, state, sent, next, earliest, received, echoes>>

\* Mutant: the half in which the two times lie is not compared.
SentTime_NoHalf(now, low) == (now - (now % LowRange)) + low

\* The time of sending from the last digits that an ACK returns: those of now,
\* in the range of now or, if it is the upper half and now in the lower half
\* of a range, in the range before.
SentTime(now, low) ==
    LET t == (now - (now % LowRange)) + low
        upper(n) == n % LowRange >= LowRange \div 2
    IN  IF upper(low) /\ ~upper(now) THEN (t - LowRange) % TimeRange ELSE t

\* No two commands have one id.
Without(s, hits) == IF hits = {} THEN s ELSE RemoveAt(s, CHOOSE i \in hits : TRUE)

\* Mutant: the next timeout is that of the command just acknowledged.
Unsend_KeepsNext(id) ==
    LET under == {i \in DOMAIN sent : sent[i].id = id}
        again == {i \in DOMAIN out : out[i].id = id /\ out[i].attempts > 0}
    IN  /\ sent' = Without(sent, under)
        /\ out' = IF under = {} THEN Without(out, again) ELSE out
        /\ UNCHANGED next

\* enet_protocol_remove_sent_reliable_command
Unsend(id) ==
    LET under == {i \in DOMAIN sent : sent[i].id = id}
        again == {i \in DOMAIN out : out[i].id = id /\ out[i].attempts > 0}
    IN  /\ sent' = Without(sent, under)
        /\ out' = IF under = {} THEN Without(out, again) ELSE out
        /\ next' = IF under \cup again # {} /\ sent' # <<>> THEN Due(sent'[1]) ELSE next

\* enet_protocol_handle_acknowledge. A time that seems to lie in the future is
\* ignored; any other acknowledgement forgets the earliest timeout.
Acknowledge(x) ==
    /\ state = "CONNECTED"
    /\ x \in echoes
    /\ ~TimeLess(Now, SentTime(Now, x.low))
    /\ received' = IF Now > 1 THEN Now ELSE 1
    /\ earliest' = 0
    /\ Unsend(x.id)
    /\ UNCHANGED <<elapsed, state, echoes, commands>>

Init ==
    /\ elapsed = 0
    /\ state = "CONNECTED"
    /\ out = <<>> /\ sent = <<>>
    /\ next = 0 /\ earliest = 0
    /\ received = IF Start > 1 THEN Start ELSE 1
    /\ echoes = {}
    /\ commands = 0

Next ==
    \/ Queue
    \/ \E d \in 1 .. MaxStep, rto \in RoundTripTimeouts : Service(d, rto)
    \/ \E x \in echoes : Acknowledge(x)

Spec == Init /\ [][Next]_vars
-----------------------------------------------------------------------------
(* Properties.                                                             *)

Outstanding == Range(sent) \cup {c \in Range(out) : c.attempts > 0}

\* The time elapsed at the last acknowledgement, or 1 more: a clock that shows
\* 0 is stored as 1.
LastAck == elapsed + 1 - ((Now + 1 - received) % TimeRange)

TypeOK ==
    /\ elapsed \in 0 .. MaxElapsed
    /\ state \in {"CONNECTED", "DISCONNECTED"}
    /\ {next, earliest, received} \subseteq 0 .. TimeRange - 1
    /\ \A c \in Range(sent) : c.attempts > 0 /\ c.rto > 0 /\ c.sentTime \in 0 .. TimeRange - 1
    /\ \A x \in echoes : x.at \in 0 .. elapsed /\ x.low \in 0 .. LowRange - 1

\* nextTimeout, the one time the service looks at, is that of the command sent
\* longest ago, whatever was acknowledged, expired or sent again in between.
NextTimeoutExact == (state = "CONNECTED" /\ sent # <<>>) => next = Due(sent[1])

\* The cached times are within the clock's range, and nextTimeout is exact.
TimersExact == TypeOK /\ NextTimeoutExact

\* A time that an ACK returns within half a range is read back exactly, across
\* every wrap of the clock; an older one is ignored or read as too recent, so
\* a round trip is never measured longer than it was.
EchoExact ==
    \A x \in echoes :
        LET age == elapsed - x.at
            t == SentTime(Now, x.low)
        IN  /\ age < LowRange \div 2 => TimeDifference(Now, t) = age /\ ~TimeLess(Now, t)
            /\ ~TimeLess(Now, t) => TimeDifference(Now, t) <= age

\* A peer is given up only if a command that is not acknowledged was first
\* sent the minimum timeout ago, or longer.
NotTooEarly ==
    [][state' = "DISCONNECTED" =>
        \E c \in Outstanding : elapsed' - c.first >= TimeoutMinimum]_vars

LongestRto == CHOOSE r \in RoundTripTimeouts : \A q \in RoundTripTimeouts : q <= r

\* A timeout that runs out before the peer is given up is shorter than
\* TimeoutMaximum, and then doubles.
LongestTimeout == IF 2 * TimeoutMaximum > LongestRto THEN 2 * TimeoutMaximum ELSE LongestRto
Bound == TimeoutMaximum + LongestTimeout

\* earliestTimeout = 0 stands for none, so a command sent when the clock shows
\* 0, once in 2^32 ms, delays the end.
ZeroSkipped == \A x \in echoes : (Start + x.at) % TimeRange # 0

\* A peer that falls silent is given up: no command stays unacknowledged, with
\* no acknowledgement of any other since, for more than the maximum timeout and
\* the longest single one, for which the service may not look at the list.
SilenceEnds ==
    (state = "CONNECTED" /\ ZeroSkipped) =>
        \A c \in Outstanding : c.first >= LastAck => elapsed - c.first < Bound

\* What the comment on enet_peer_timeout says: reliable packets that are not
\* acknowledged for the maximum time end the connection. In the code any other
\* acknowledgement starts the count again.
UnackedEnds ==
    state = "CONNECTED" => \A c \in Outstanding : elapsed - c.first < Bound
=============================================================================
