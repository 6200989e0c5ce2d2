-------------------------- MODULE ReconnectBackoff --------------------------
(***************************************************************************)
(* The reconnect policy of collect_events: how long the main loop sleeps   *)
(* before it connects to the broker again, and what it counts.             *)
(*                                                                         *)
(* CountAttempt, Reset and Penalise are the three places where the loop    *)
(* touches this state; module Subscriber takes them as parts of its own    *)
(* steps.  Spec runs them alone, against a broker that may fail forever.   *)
(***************************************************************************)
EXTENDS Integers

CONSTANTS
    Intervals,          \* reconnect intervals a stanza may configure, in seconds
    BackoffMax,         \* _RECONNECT_BACKOFF_MAX_SECS
    CooldownThreshold,  \* _RECONNECT_COOLDOWN_FAILURE_THRESHOLD
    Cooldown,           \* _RECONNECT_COOLDOWN_SECS
    FloatMaxExponent,   \* 2^n has no float value above this n (1023 for IEEE doubles)
    MaxConnects         \* bound: how often a run connects

\* int() admits any interval; inputs.conf ships -1.
ASSUME PolicyAssumption ==
    /\ Intervals \subseteq Int
    /\ BackoffMax \in Nat /\ BackoffMax >= 1
    /\ CooldownThreshold \in Nat /\ CooldownThreshold >= 1
    /\ Cooldown \in Nat /\ Cooldown <= BackoffMax
    /\ FloatMaxExponent \in Nat
    /\ MaxConnects \in Nat

VARIABLES
    phase,      \* where the loop is: "connect", "running", "sleeping" or "exited"
    interval,   \* the configured interval
    attempted,  \* has_attempted_connection
    failures,   \* consecutive_failures
    delay,      \* reconnect_sleep_seconds
    attempts,   \* stat reconnect_attempts
    cooldowns,  \* stat reconnect_cooldowns
    connects    \* history: calls of client.connect

policyVars == <<interval, attempted, failures, delay, attempts, cooldowns, connects>>
vars       == <<phase, policyVars>>

Init ==
    /\ phase = "connect"
    /\ interval \in Intervals
    /\ attempted = FALSE
    /\ failures = 0
    /\ delay = interval
    /\ attempts = 0 /\ cooldowns = 0
    /\ connects = 0

AtLeast(x, y) == IF x >= y THEN x ELSE y
AtMost(x, y)  == IF x <= y THEN x ELSE y

\* _RECONNECT_BACKOFF_BASE_SECS * 2 ** n; a function, since the provers do not know ^.
PowerOfTwo[n \in Nat] == IF n = 0 THEN 1 ELSE 2 * PowerOfTwo[n - 1]

\* The power under the cap that follows, without computing one far above it.
CappedPower(n) ==
    IF \E k \in 0 .. n : PowerOfTwo[k] >= BackoffMax THEN BackoffMax ELSE PowerOfTwo[n]

\* Seeded fault: the cap is applied before the configured interval.
BackoffDelaySwapped(n) ==
    LET longest == AtLeast(interval, AtMost(BackoffMax, CappedPower(n - 1)))
    IN  IF n >= CooldownThreshold THEN AtLeast(longest, Cooldown) ELSE longest

\* The delay after the n-th failure in a row.
BackoffDelay(n) ==
    LET capped == AtMost(BackoffMax, AtLeast(interval, CappedPower(n - 1)))
    IN  IF n >= CooldownThreshold THEN AtLeast(capped, Cooldown) ELSE capped

\* 1.0 * (2 ** (n - 1)) raises OverflowError, inside the except handler.
Overflows(n) == n - 1 > FloatMaxExponent

\* Seeded fault: the first connect counts as a reconnect attempt.
CountEveryAttempt ==
    /\ attempts' = attempts + 1
    /\ attempted' = TRUE
    /\ connects' = connects + 1

\* Before client.connect: every call but the first is a reconnect attempt.
CountAttempt ==
    /\ attempts' = IF attempted THEN attempts + 1 ELSE attempts
    /\ attempted' = TRUE
    /\ connects' = connects + 1

\* Seeded fault: one success takes back one failure.
ResetOne ==
    /\ failures' = failures - 1
    /\ delay' = interval
    /\ UNCHANGED <<interval, cooldowns>>

\* Seeded fault: the delay of the last failure survives the success.
ResetKeepsDelay ==
    /\ failures' = 0
    /\ UNCHANGED <<interval, delay, cooldowns>>

\* client.connect has returned.
Reset ==
    /\ failures' = 0
    /\ delay' = interval
    /\ UNCHANGED <<interval, cooldowns>>

\* The except handler, up to the point where it would overflow.
Penalise ==
    /\ failures' = failures + 1
    /\ IF Overflows(failures + 1)
       THEN UNCHANGED <<delay, cooldowns>>
       ELSE /\ delay' = BackoffDelay(failures + 1)
            /\ cooldowns' = IF failures + 1 >= CooldownThreshold THEN cooldowns + 1
                                                                  ELSE cooldowns
    /\ UNCHANGED interval

\* The handler's outcome: the loop goes to sleep, or the exception leaves collect_events.
AfterError == phase' = IF Overflows(failures + 1) THEN "exited" ELSE "sleeping"

Connects ==
    /\ phase = "connect" /\ connects < MaxConnects
    /\ CountAttempt /\ Reset
    /\ phase' = "running"

ConnectFails ==
    /\ phase = "connect" /\ connects < MaxConnects
    /\ CountAttempt /\ Penalise
    /\ AfterError

\* An exception while events are drained and written.
LoopFails ==
    /\ phase = "running"
    /\ Penalise
    /\ AfterError
    /\ UNCHANGED <<attempted, attempts, connects>>

Wakes ==
    /\ phase = "sleeping"
    /\ phase' = "connect"
    /\ UNCHANGED policyVars

Next == Connects \/ ConnectFails \/ LoopFails \/ Wakes

Spec == Init /\ [][Next]_vars

\* A broker that never comes back, and a scheduler that lets the loop go on.
BrokerAwaySpec == Init /\ [][ConnectFails \/ Wakes]_vars /\ WF_vars(ConnectFails \/ Wakes)

-----------------------------------------------------------------------------
(* Correctness *)

\* Every variable has its type.
TypeOK ==
    /\ phase \in {"connect", "running", "sleeping", "exited"}
    /\ interval \in Intervals
    /\ attempted \in BOOLEAN
    /\ failures \in Nat /\ attempts \in Nat /\ cooldowns \in Nat /\ connects \in Nat
    /\ delay \in Int

\* time.sleep gets a delay between one second and the cap; it is the configured interval
\* at least, where the cap allows that, and a full cooldown once the failures in a row
\* have reached the threshold.  Holds for every interval int() accepts, -1 included.
SleepInBounds ==
    phase = "sleeping" =>
        /\ 1 <= delay /\ delay <= BackoffMax
        /\ delay >= AtMost(interval, BackoffMax)
        /\ failures >= CooldownThreshold => delay >= Cooldown

\* The operator's counters tell the truth about the loop: a reconnect attempt is a call
\* of connect after the first, and of a run of failures each one from the threshold on
\* was a cooldown.
CountersHonest ==
    /\ attempts = AtLeast(connects - 1, 0)
    /\ failures <= connects
    /\ cooldowns <= connects
    /\ phase # "exited" => cooldowns >= failures - (CooldownThreshold - 1)

\* While the broker stays away the loop never gets more eager: within a run of failures
\* the delay does not shrink, and only a successful connect starts it over.
DelayOnlyGrows ==
    [][ /\ failures > 0 /\ failures' > 0 => delay' >= delay
        /\ failures' < failures => delay' = interval /\ phase' = "running" ]_vars

\* tasks/lessons.md:L-006, "The collect_events() loop never returns under normal
\* operation": whatever the broker does, the loop is connecting, running or sleeping.
NeverExits == phase # "exited"
=============================================================================
