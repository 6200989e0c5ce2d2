----------------------------- MODULE RuntimeStats -----------------------------
(***************************************************************************)
(* runtime_stats of collect_events in                                      *)
(* package/bin/input_module/mqtt_subscriber.py: the counters, windows,     *)
(* high-water mark and drop warnings that the network thread and the main  *)
(* thread keep under stats_lock.  A step is what a thread does while it    *)
(* holds the lock, or one access to the queue or the clock outside it.     *)
(* The loop, its errors and the writer are modelled in Subscriber; here    *)
(* only what they do to the statistics.                                    *)
(***************************************************************************)
EXTENDS Integers, Sequences

CONSTANTS
    NumMessages,        \* bound: how many messages arrive
    StartTimes,         \* what time.monotonic() may show when the process starts
    MaxTime,            \* bound of the clock
    MaxReconnects,      \* bound: how often the loop connects again
    QueueCapacity,      \* queue_maxsize
    DrainBatch,         \* _QUEUE_DRAIN_BATCH_SIZE
    HealthLogInterval,  \* _HEALTH_LOG_INTERVAL_SECS
    DropWarningInterval \* _DROP_WARNING_INTERVAL_SECS

ASSUME StatsAssumption ==
    /\ NumMessages \in Nat /\ MaxTime \in Nat /\ StartTimes \subseteq 0 .. MaxTime
    /\ MaxReconnects \in Nat
    /\ QueueCapacity \in Nat \ {0} /\ DrainBatch \in Nat \ {0}
    /\ HealthLogInterval \in Nat \ {0} /\ DropWarningInterval \in Nat \ {0}

VARIABLES
    now,        \* time.monotonic()
    queue,      \* event_q: the times at which its messages were put there
    network,    \* where on_message is, and the depth or the time it has read
    main,       \* where the main loop is, and the depth and the time it has read
    pending,    \* pending_items: their times
    total,      \* messages_received, _written, _dropped and reconnect_attempts
    logged,     \* the last_logged_ fields: the same at the last health line
    lag,        \* the lag_window_ fields: count, sum and max
    highWater, lastHealthLog, lastDropWarning, suppressed,
    \* history, not in the code:
    arrived,    \* messages the broker has delivered
    deepest,    \* the greatest depth the queue has really had
    said,       \* what all health lines together have said, except their lags
    saidLag,    \* the same for the lags
    lags,       \* count, sum and max of the lags of all messages written
    warned,     \* drops that warnings have told of, suppressed ones included
    warnedAt    \* the time of the last warning, or Never

codeVars == <<queue, network, main, pending, total, logged, lag, highWater, lastHealthLog,
              lastDropWarning, suppressed>>
history  == <<arrived, deepest, said, saidLag, lags, warned, warnedAt>>
vars     == <<now, codeVars, history>>

Counters == {"received", "written", "dropped", "reconnects"}
Zero     == [c \in Counters |-> 0]
NoLag    == [count |-> 0, sum |-> 0, max |-> 0]
Never    == -1

Larger(a, b) == IF a >= b THEN a ELSE b

Init ==
    /\ now \in StartTimes
    /\ queue = <<>> /\ pending = <<>>
    /\ network = [at |-> "idle", depth |-> 0, time |-> 0]
    /\ main = [at |-> "get", depth |-> 0, time |-> 0]
    /\ total = Zero /\ logged = Zero /\ lag = NoLag
    /\ highWater = 0 /\ lastHealthLog = now /\ lastDropWarning = 0 /\ suppressed = 0
    /\ arrived = 0 /\ deepest = 0
    /\ said = Zero /\ saidLag = NoLag /\ lags = NoLag
    /\ warned = 0 /\ warnedAt = Never

\* A message with this lag is added to a window.
Counted(window, seconds) ==
    [count |-> window.count + 1, sum |-> window.sum + seconds,
     max |-> Larger(window.max, seconds)]

\* Two windows taken together.
Joined(v, w) == [count |-> v.count + w.count, sum |-> v.sum + w.sum, max |-> Larger(v.max, w.max)]

-------------------------------------------------------------------------------
(* Network thread *)

NetworkGoes(place, depth, time) == network' = [at |-> place, depth |-> depth, time |-> time]

Put ==
    /\ network.at = "idle" /\ arrived < NumMessages /\ Len(queue) < QueueCapacity
    /\ queue' = Append(queue, now)
    /\ NetworkGoes("stored", 0, 0)
    /\ arrived' = arrived + 1
    /\ deepest' = Larger(deepest, Len(queue'))
    /\ UNCHANGED <<now, main, pending, total, logged, lag, highWater, lastHealthLog,
                   lastDropWarning, suppressed, said, saidLag, lags, warned, warnedAt>>

\* Seeded fault: the queue is measured as it was before the message was put there.
DepthSeenBefore == Len(queue) - 1

\* _safe_qsize, outside the lock.
DepthSeen == Len(queue)

ReadDepth ==
    /\ network.at = "stored"
    /\ NetworkGoes("sized", DepthSeen, 0)
    /\ UNCHANGED <<now, queue, main, pending, total, logged, lag, highWater, lastHealthLog,
                   lastDropWarning, suppressed, history>>

CountReceived ==
    /\ network.at = "sized"
    /\ total' = [total EXCEPT !["received"] = @ + 1]
    /\ network' = [network EXCEPT !.at = "counted"]
    /\ UNCHANGED <<now, queue, main, pending, logged, lag, highWater, lastHealthLog,
                   lastDropWarning, suppressed, history>>

RaiseHighWater ==
    /\ network.at = "counted"
    /\ highWater' = Larger(highWater, network.depth)
    /\ NetworkGoes("idle", 0, 0)
    /\ UNCHANGED <<now, queue, main, pending, total, logged, lag, lastHealthLog,
                   lastDropWarning, suppressed, history>>

\* queue.Full; _log_drop_warning reads the clock before it takes the lock.
Full ==
    /\ network.at = "idle" /\ arrived < NumMessages /\ Len(queue) >= QueueCapacity
    /\ NetworkGoes("full", 0, now)
    /\ arrived' = arrived + 1
    /\ UNCHANGED <<now, queue, main, pending, total, logged, lag, highWater, lastHealthLog,
                   lastDropWarning, suppressed, deepest, said, saidLag, lags, warned, warnedAt>>

\* Seeded fault: the pause between warnings is a second too short.
ShouldWarnEarly == network.time - lastDropWarning >= DropWarningInterval - 1

ShouldWarn == network.time - lastDropWarning >= DropWarningInterval

\* Seeded fault: the count of suppressed warnings is not reset by a warning.
SuppressedAfterKept == IF ShouldWarn THEN suppressed ELSE suppressed + 1

SuppressedAfter == IF ShouldWarn THEN 0 ELSE suppressed + 1

\* _log_drop_warning under the lock; the warning tells of this drop and of those
\* suppressed since the last one.
LogDrop ==
    /\ network.at = "full"
    /\ total' = [total EXCEPT !["dropped"] = @ + 1]
    /\ lastDropWarning' = IF ShouldWarn THEN network.time ELSE lastDropWarning
    /\ suppressed' = SuppressedAfter
    /\ warned' = IF ShouldWarn THEN warned + 1 + suppressed ELSE warned
    /\ warnedAt' = IF ShouldWarn THEN network.time ELSE warnedAt
    /\ NetworkGoes("idle", 0, 0)
    /\ UNCHANGED <<now, queue, main, pending, logged, lag, highWater, lastHealthLog, arrived,
                   deepest, said, saidLag, lags>>

NetworkStep == Put \/ ReadDepth \/ CountReceived \/ RaiseHighWater \/ Full \/ LogDrop

-------------------------------------------------------------------------------
(* Main thread *)

MainGoes(place) == main' = [main EXCEPT !.at = place]

\* event_q.get and get_nowait.
Take ==
    /\ main.at \in {"get", "drain"} /\ queue # <<>> /\ Len(pending) < DrainBatch
    /\ pending' = Append(pending, Head(queue))
    /\ queue' = Tail(queue)
    /\ MainGoes("drain")
    /\ UNCHANGED <<now, network, total, logged, lag, highWater, lastHealthLog,
                   lastDropWarning, suppressed, history>>

DrainEnds ==
    /\ main.at = "drain" /\ (queue = <<>> \/ Len(pending) = DrainBatch)
    /\ MainGoes("write")
    /\ UNCHANGED <<now, queue, network, pending, total, logged, lag, highWater, lastHealthLog,
                   lastDropWarning, suppressed, history>>

\* write has returned; _record_write with the lag of the message.
RecordWrite ==
    /\ main.at = "write" /\ pending # <<>>
    /\ pending' = Tail(pending)
    /\ total' = [total EXCEPT !["written"] = @ + 1]
    /\ lag' = Counted(lag, Larger(0, now - Head(pending)))
    /\ lags' = Counted(lags, now - Head(pending))
    /\ UNCHANGED <<now, queue, network, main, logged, highWater, lastHealthLog,
                   lastDropWarning, suppressed, arrived, deepest, said, saidLag, warned, warnedAt>>

\* write raises; what is left of pending_items goes with it.
WriteFails ==
    /\ main.at = "write" /\ pending # <<>>
    /\ total["reconnects"] < MaxReconnects
    /\ pending' = <<>>
    /\ MainGoes("connect")
    /\ UNCHANGED <<now, queue, network, total, logged, lag, highWater, lastHealthLog,
                   lastDropWarning, suppressed, history>>

\* _record_reconnect_attempt; client.connect fails or returns.
Reconnect ==
    /\ main.at = "connect" /\ total["reconnects"] < MaxReconnects
    /\ total' = [total EXCEPT !["reconnects"] = @ + 1]
    /\ \/ MainGoes("get")
       \/ UNCHANGED main /\ total'["reconnects"] < MaxReconnects
    /\ UNCHANGED <<now, queue, network, pending, logged, lag, highWater, lastHealthLog,
                   lastDropWarning, suppressed, history>>

\* _maybe_log_health after a get that found nothing, or after a drain is written: it reads
\* the clock and the depth outside the lock ...
HealthBegins ==
    /\ \/ main.at = "get" /\ queue = <<>>
       \/ main.at = "write" /\ pending = <<>>
    /\ main' = [at |-> "health", depth |-> Len(queue), time |-> now]
    /\ UNCHANGED <<now, queue, network, pending, total, logged, lag, highWater, lastHealthLog,
                   lastDropWarning, suppressed, history>>

\* ... raises the high-water mark under it ...
HealthRaisesHighWater ==
    /\ main.at = "health"
    /\ highWater' = Larger(highWater, main.depth)
    /\ MainGoes("summary")
    /\ UNCHANGED <<now, queue, network, pending, total, logged, lag, lastHealthLog,
                   lastDropWarning, suppressed, history>>

HealthDue == main.time - lastHealthLog >= HealthLogInterval

\* Seeded fault: the delta is taken the wrong way round.
DeltaSwapped(c) == logged[c] - total[c]

Delta(c) == total[c] - logged[c]

\* Seeded fault: the sum of the lags goes on into the next window.
LagAfterLogKeeps == [NoLag EXCEPT !.sum = lag.sum]

LagAfterLog == NoLag

\* ... and, if a line is due, takes the deltas and resets the windows under it again.
LogHealth ==
    /\ main.at = "summary"
    /\ \/ /\ HealthDue
          /\ said' = [c \in Counters |-> said[c] + Delta(c)]
          /\ saidLag' = Joined(saidLag, lag)
          /\ lastHealthLog' = main.time
          /\ logged' = total
          /\ lag' = LagAfterLog
       \/ ~HealthDue /\ UNCHANGED <<said, saidLag, lastHealthLog, logged, lag>>
    /\ main' = [at |-> "get", depth |-> 0, time |-> 0]
    /\ UNCHANGED <<now, queue, network, pending, total, highWater, lastDropWarning, suppressed,
                   arrived, deepest, lags, warned, warnedAt>>

MainStep ==
    \/ Take \/ DrainEnds \/ RecordWrite \/ WriteFails \/ Reconnect
    \/ HealthBegins \/ HealthRaisesHighWater \/ LogHealth

Tick == now < MaxTime /\ now' = now + 1 /\ UNCHANGED <<codeVars, history>>

Next == NetworkStep \/ MainStep \/ Tick

Spec == Init /\ [][Next]_vars

-------------------------------------------------------------------------------
(* Correctness *)

Lags == [count : Nat, sum : Nat, max : Nat]

\* Every variable has its type; the depths are depths the queue can have.
TypeOK ==
    /\ now \in 0 .. MaxTime
    /\ queue \in Seq(0 .. MaxTime) /\ Len(queue) <= QueueCapacity
    /\ pending \in Seq(0 .. MaxTime) /\ Len(pending) <= DrainBatch
    /\ network \in [at : {"idle", "stored", "sized", "counted", "full"},
                    depth : 0 .. QueueCapacity, time : 0 .. MaxTime]
    /\ main \in [at : {"get", "drain", "write", "connect", "health", "summary"},
                 depth : 0 .. QueueCapacity, time : 0 .. MaxTime]
    /\ total \in [Counters -> Nat] /\ logged \in [Counters -> Nat] /\ lag \in Lags
    /\ highWater \in 0 .. QueueCapacity
    /\ lastHealthLog \in 0 .. MaxTime /\ lastDropWarning \in 0 .. MaxTime
    /\ suppressed \in Nat
    /\ arrived \in 0 .. NumMessages /\ deepest \in 0 .. QueueCapacity
    /\ said \in [Counters -> Nat] /\ saidLag \in Lags /\ lags \in Lags
    /\ warned \in Nat /\ warnedAt \in {Never} \cup 0 .. MaxTime

\* The high-water mark never claims a depth the queue has not had, and once on_message is
\* through, the queue is never deeper than the mark: although both threads measure the
\* depth outside the lock, after the queue has been changed by either.
HighWaterTrue ==
    /\ highWater <= deepest
    /\ network.at \in {"idle", "full"} => Len(queue) <= highWater

\* The windows are a partition: whatever is counted while the lines are written, all
\* health lines together with the current window add up to the counters and to the lags
\* of all messages written, and the lags of a window are those of its written messages.
WindowsAddUp ==
    /\ \A c \in Counters : said[c] + Delta(c) = total[c]
    /\ Joined(saidLag, lag) = lags
    /\ lag.count = Delta("written")

\* Every dropped message is told of by exactly one warning, or waits to be.
DropsReportedOnce == warned + suppressed = total["dropped"]

\* Two warnings are an interval apart; and a drop goes without one only if the last one,
\* or the boot of the machine, where time.monotonic starts, is less than that ago.
WarningsPaced ==
    [][ LogDrop =>
          IF warned' # warned
          THEN warnedAt = Never \/ warnedAt' - warnedAt >= DropWarningInterval
          ELSE network.time - Larger(warnedAt, 0) < DropWarningInterval ]_vars
===============================================================================
