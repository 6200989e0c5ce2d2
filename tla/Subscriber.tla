------------------------------ MODULE Subscriber ------------------------------
(***************************************************************************)
(* collect_events of package/bin/input_module/mqtt_subscriber.py: the      *)
(* main thread that connects to the broker, drains the event queue into    *)
(* the egress writer and backs off after an error, and paho's network      *)
(* thread that runs the MQTT callbacks and fills the queue.                *)
(*                                                                         *)
(* The writer is module HecBatchWriter and the reconnect policy module     *)
(* ReconnectBackoff: their actions are parts of the main thread's steps.   *)
(* While a call of the writer is in progress (call # "idle") the main      *)
(* thread is inside it and only the network thread moves.                  *)
(***************************************************************************)
EXTENDS Integers, Sequences, FiniteSets, Functions

CONSTANTS
    NumEvents,          \* bound: how many messages the broker delivers
    LineBytes, BatchMaxEvents, BatchMaxBytes, FlushInterval,
    RetryMaxAttempts, MaxCloseCalls,                 \* see HecBatchWriter
    Intervals, BackoffMax, CooldownThreshold, Cooldown,
    FloatMaxExponent,                                \* see ReconnectBackoff
    MaxConnects,        \* bound: calls of client.connect, the last of which succeeds
    QueueCapacity,      \* queue_maxsize
    DrainBatch          \* _QUEUE_DRAIN_BATCH_SIZE

ASSUME SubscriberAssumption ==
    /\ NumEvents \in Nat
    /\ BatchMaxEvents \in Nat /\ BatchMaxEvents >= 1
    /\ QueueCapacity \in Nat /\ QueueCapacity >= 1
    /\ DrainBatch \in Nat /\ DrainBatch >= 1
    /\ MaxConnects \in Nat /\ MaxConnects >= 1

VARIABLES
    pc,         \* where the main thread is
    batchMode,  \* batch_mode: _HecBatchWriter, else _ModInputSingleEventWriter
    pending,    \* pending_items not yet handed to the writer
    queue,      \* event_q
    link,       \* the network thread and its connection, see Links
    callback,   \* where on_message is: "idle", "stored" or "full"
    received, written, dropped,  \* messages_* of runtime_stats
    \* the writer's variables
    endpointOk, call, arg, buffer, bufferBytes, sinceFlush, batch, batchBytes, attempt,
    batchesSent, batchesFailed, eventsSent, eventsFailed, retries, closed, closeCalls,
    handed, settled, acked, indexed,
    \* the reconnect policy's variables
    interval, attempted, failures, delay, attempts, cooldowns, connects,
    \* history, not in the code:
    arrived,    \* messages on_message could read; they are numbered as they arrive
    newest,     \* number of the newest message that was put on the queue
    missed,     \* messages that found the queue full
    abandoned   \* messages thrown away with pending_items when a write raised

Events == 1 .. NumEvents

\* What HecBatchWriter and ReconnectBackoff assume of their settings.
ASSUME PartsAssumption ==
    /\ LineBytes \in [Events -> Nat]
    /\ \A e \in Events : LineBytes[e] >= 1
    /\ BatchMaxBytes \in Nat /\ BatchMaxBytes >= 1
    /\ FlushInterval \in Nat /\ FlushInterval >= 1
    /\ RetryMaxAttempts \in Nat /\ RetryMaxAttempts >= 1
    /\ MaxCloseCalls \in Nat
    /\ Intervals \subseteq Int
    /\ BackoffMax \in Nat /\ BackoffMax >= 1
    /\ CooldownThreshold \in Nat /\ CooldownThreshold >= 1
    /\ Cooldown \in Nat /\ Cooldown <= BackoffMax
    /\ FloatMaxExponent \in Nat

\* "none": no network thread.  "opening": CONNECT sent.  "subscribed": messages flow.
\* "deaf": connected, but subscribe failed.  "lost": disconnected, thread running.
\* "dead": an exception in a callback has ended the thread.
Links == {"none", "opening", "subscribed", "deaf", "lost", "dead"}

\* The reconnect policy's view of the main thread: the except handler decides between
\* sleeping and leaving, the finally block runs in either case.
Phase ==
    CASE pc = "connect" -> "connect"
      [] pc \in {"get", "drain", "write", "record", "flush"} -> "running"
      [] pc \in {"cleanup", "stop"} ->
            IF failures - 1 > FloatMaxExponent THEN "exited" ELSE "sleeping"
      [] pc = "sleep"  -> "sleeping"
      [] pc = "exited" -> "exited"

W == INSTANCE HecBatchWriter
R == INSTANCE ReconnectBackoff WITH phase <- Phase

networkVars == <<link, callback, received, dropped, arrived, newest, missed>>
mainVars    == <<pc, pending, written, abandoned>>
writerObject == <<endpointOk, call, arg, buffer, bufferBytes, sinceFlush, batch, batchBytes,
                  attempt, batchesSent, batchesFailed, eventsSent, eventsFailed, retries,
                  closed, closeCalls>>
writerVars  == <<writerObject, handed, settled, acked, indexed>>
policyVars  == <<interval, attempted, failures, delay, attempts, cooldowns, connects>>
vars        == <<mainVars, networkVars, batchMode, queue, writerVars, policyVars>>

Init ==
    /\ pc = "connect"
    /\ batchMode \in BOOLEAN
    /\ pending = <<>> /\ queue = <<>>
    /\ link = "none" /\ callback = "idle"
    /\ received = 0 /\ written = 0 /\ dropped = 0
    /\ arrived = 0 /\ newest = 0 /\ missed = {} /\ abandoned = {}
    /\ W!Init
    /\ batchMode \/ endpointOk   \* the single-event writer has no endpoint
    /\ R!Init

-------------------------------------------------------------------------------
(* Main thread *)

\* The main thread runs, it is not inside a call of the writer.
MainAt(place) == pc = place /\ call = "idle"

\* client.connect returns; loop_start starts the network thread.
Connect ==
    /\ MainAt("connect") /\ connects < MaxConnects
    /\ R!CountAttempt /\ R!Reset
    /\ pc' = "get"
    /\ link' = "opening"
    /\ UNCHANGED <<pending, written, abandoned, callback, received, dropped, arrived,
                   newest, missed, batchMode, queue, writerVars>>

\* client.connect raises.
ConnectFails ==
    /\ MainAt("connect") /\ connects + 1 < MaxConnects
    /\ R!CountAttempt /\ R!Penalise
    /\ pc' = "cleanup"
    /\ UNCHANGED <<pending, written, abandoned, networkVars, batchMode, queue, writerVars>>

\* event_q.get: the first message of a drain.  While the queue is empty the loop
\* only logs its health: it does not call flush.
Get ==
    /\ MainAt("get")
    /\ queue # <<>>
    /\ pending' = <<Head(queue)>>
    /\ queue' = Tail(queue)
    /\ pc' = "drain"
    /\ UNCHANGED <<written, abandoned, networkVars, batchMode, writerVars, policyVars>>

\* Seeded fault: a drain takes one message more than its batch size.
DrainGoesOnTooLong == queue # <<>> /\ Len(pending) <= DrainBatch

DrainGoesOn == queue # <<>> /\ Len(pending) < DrainBatch

\* event_q.get_nowait, until it has nothing or the drain is full.
Drain ==
    /\ MainAt("drain")
    /\ \/ /\ DrainGoesOn
          /\ pending' = Append(pending, Head(queue))
          /\ queue' = Tail(queue)
          /\ UNCHANGED pc
       \/ /\ ~DrainGoesOn
          /\ pc' = "write"
          /\ UNCHANGED <<pending, queue>>
    /\ UNCHANGED <<written, abandoned, networkVars, batchMode, writerVars, policyVars>>

\* _ModInputSingleEventWriter.write: splunkd has the event when the call returns.
WriteSingle(e) ==
    /\ handed' = Append(handed, e)
    /\ settled' = Append(settled, e)
    /\ acked' = acked \cup {e}
    /\ indexed' = [indexed EXCEPT ![e] = @ + 1]
    /\ UNCHANGED writerObject

Write ==
    /\ MainAt("write")
    /\ pending' = Tail(pending)
    /\ \/ batchMode  /\ W!Write(Head(pending))
       \/ ~batchMode /\ WriteSingle(Head(pending))
    /\ pc' = "record"
    /\ UNCHANGED <<written, abandoned, networkVars, batchMode, queue, policyVars>>

\* Seeded fault: what a failed write leaves behind goes to the end of the queue.
WriteFailsRequeues ==
    /\ MainAt("write") /\ connects < MaxConnects
    /\ R!Penalise
    /\ queue' = queue \o pending
    /\ pending' = <<>>
    /\ pc' = "cleanup"
    /\ UNCHANGED <<written, abandoned, networkVars, batchMode, writerVars,
                   attempted, attempts, connects>>

\* Seeded fault: a failed write is not a failure of the reconnect policy.
WriteFailsUnpunished ==
    /\ MainAt("write") /\ connects < MaxConnects
    /\ abandoned' = abandoned \cup Range(pending)
    /\ pending' = <<>>
    /\ pc' = "cleanup"
    /\ UNCHANGED <<written, networkVars, batchMode, queue, writerVars, policyVars>>

\* write raises before it has changed anything: the line cannot be encoded, or splunkd
\* has closed the pipe.  The rest of pending_items goes with it.
WriteFails ==
    /\ MainAt("write") /\ connects < MaxConnects
    /\ R!Penalise
    /\ abandoned' = abandoned \cup Range(pending)
    /\ pending' = <<>>
    /\ pc' = "cleanup"
    /\ UNCHANGED <<written, networkVars, batchMode, queue, writerVars,
                   attempted, attempts, connects>>

\* Seeded fault: the drain ends after its first write.
RecordWriteEnds ==
    /\ MainAt("record")
    /\ written' = written + 1
    /\ pc' = "flush"
    /\ UNCHANGED <<pending, abandoned, networkVars, batchMode, queue, writerVars, policyVars>>

\* write has returned: _record_write, then the next item or flush(force=False).
RecordWrite ==
    /\ MainAt("record")
    /\ written' = written + 1
    /\ pc' = IF pending = <<>> THEN "flush" ELSE "write"
    /\ UNCHANGED <<pending, abandoned, networkVars, batchMode, queue, writerVars, policyVars>>

\* A call of flush, which does nothing unless the writer batches and a flush is due.
CallFlush(force) ==
    \/ batchMode /\ W!Flush(force)
    \/ ~(batchMode /\ W!FlushDue(force)) /\ UNCHANGED writerVars

FlushIfDue ==
    /\ MainAt("flush")
    /\ CallFlush(FALSE)
    /\ pc' = "get"
    /\ UNCHANGED <<pending, written, abandoned, networkVars, batchMode, queue, policyVars>>

\* The finally block: flush(force=True) ...
Cleanup ==
    /\ MainAt("cleanup")
    /\ CallFlush(TRUE)
    /\ pc' = "stop"
    /\ UNCHANGED <<pending, written, abandoned, networkVars, batchMode, queue, policyVars>>

\* Seeded fault: the network thread is not joined.
StopNetworkUnjoined ==
    /\ MainAt("stop")
    /\ link' = "none"
    /\ pc' = IF Phase = "exited" THEN "exited" ELSE "sleep"
    /\ UNCHANGED <<pending, written, abandoned, callback, received, dropped, arrived,
                   newest, missed, batchMode, queue, writerVars, policyVars>>

\* ... then loop_stop, which joins the network thread, and disconnect.
StopNetwork ==
    /\ MainAt("stop")
    /\ callback = "idle"
    /\ link' = "none"
    /\ pc' = IF Phase = "exited" THEN "exited" ELSE "sleep"
    /\ UNCHANGED <<pending, written, abandoned, callback, received, dropped, arrived,
                   newest, missed, batchMode, queue, writerVars, policyVars>>

Wake ==
    /\ MainAt("sleep")
    /\ pc' = "connect"
    /\ UNCHANGED <<pending, written, abandoned, networkVars, batchMode, queue, writerVars,
                   policyVars>>

\* The writer goes on with a call the main thread waits for.
WriterStep ==
    /\ W!PostStep \/ W!WriteResumes
    /\ UNCHANGED <<mainVars, networkVars, batchMode, queue, policyVars>>

MainStep ==
    \/ Connect \/ ConnectFails \/ Get \/ Drain \/ Write \/ WriteFails \/ RecordWrite
    \/ FlushIfDue \/ Cleanup \/ StopNetwork \/ Wake \/ WriterStep

-------------------------------------------------------------------------------
(* Network thread *)

\* What every step of the network thread leaves alone.
NetworkFrame == UNCHANGED <<mainVars, batchMode, writerVars, policyVars>>

MessageVars == <<callback, queue, received, dropped, arrived, newest, missed>>

\* on_connect with a good reason code: subscribe, which succeeds, returns an error that
\* is only logged, or raises because the configured topic filter is malformed.
OnConnect ==
    /\ link = "opening"
    /\ link' \in {"subscribed", "deaf", "dead"}
    /\ UNCHANGED MessageVars /\ NetworkFrame

\* The connection is refused (on_connect logs) or lost (on_disconnect logs).
Disconnected ==
    /\ link \in {"opening", "subscribed", "deaf"} /\ callback = "idle"
    /\ link' = "lost"
    /\ UNCHANGED MessageVars /\ NetworkFrame

\* External: loop_forever of paho reconnects on its own as long as the thread runs.
PahoReconnects ==
    /\ link = "lost"
    /\ link' = "opening"
    /\ UNCHANGED MessageVars /\ NetworkFrame

\* on_message raises before its try statement, as msg.topic does for a name that is not
\* UTF-8: paho ends the thread.  Such a message never becomes an event and has no number.
OnMessageRaises ==
    /\ link = "subscribed" /\ callback = "idle"
    /\ link' = "dead"
    /\ UNCHANGED MessageVars /\ NetworkFrame

QueueFull == Len(queue) >= QueueCapacity

\* on_message up to put_nowait.
MessageArrives ==
    /\ link = "subscribed" /\ callback = "idle" /\ arrived < NumEvents
    /\ arrived' = arrived + 1
    /\ \/ /\ ~QueueFull
          /\ queue' = Append(queue, arrived')
          /\ newest' = arrived'
          /\ callback' = "stored"
          /\ UNCHANGED missed
       \/ /\ QueueFull
          /\ missed' = missed \cup {arrived'}
          /\ callback' = "full"
          /\ UNCHANGED <<queue, newest>>
    /\ UNCHANGED <<link, received, dropped>> /\ NetworkFrame

\* Seeded fault: a dropped message counts as received, too.
MessageCountedTwice ==
    /\ callback # "idle"
    /\ received' = received + 1
    /\ dropped' = IF callback = "full" THEN dropped + 1 ELSE dropped
    /\ callback' = "idle"
    /\ UNCHANGED <<link, queue, arrived, newest, missed>> /\ NetworkFrame

\* The rest of on_message: count the message as received, or as dropped.
MessageCounted ==
    /\ \/ callback = "stored" /\ received' = received + 1 /\ UNCHANGED dropped
       \/ callback = "full"   /\ dropped' = dropped + 1   /\ UNCHANGED received
    /\ callback' = "idle"
    /\ UNCHANGED <<link, queue, arrived, newest, missed>> /\ NetworkFrame

NetworkStep ==
    \/ OnConnect \/ Disconnected \/ PahoReconnects \/ OnMessageRaises
    \/ MessageArrives \/ MessageCounted

-------------------------------------------------------------------------------

Clock ==
    /\ batchMode /\ W!Tick
    /\ UNCHANGED <<mainVars, networkVars, batchMode, queue, policyVars>>

Next == MainStep \/ NetworkStep \/ Clock

\* The main thread is scheduled, its waits have timeouts; a callback runs to its end,
\* and paho keeps trying to reconnect.
Fairness == WF_vars(MainStep) /\ WF_vars(MessageCounted) /\ WF_vars(PahoReconnects)

Spec == Init /\ [][Next]_vars /\ Fairness

-------------------------------------------------------------------------------
(* Correctness *)

DataTypes ==
    /\ pc \in {"connect", "get", "drain", "write", "record", "flush", "cleanup", "stop",
               "sleep", "exited"}
    /\ pending \in Seq(Events) /\ queue \in Seq(Events)
    /\ link \in Links
    /\ callback \in {"idle", "stored", "full"}
    /\ received \in Nat /\ written \in Nat /\ dropped \in Nat
    /\ arrived \in 0 .. NumEvents /\ newest \in 0 .. NumEvents
    /\ missed \in SUBSET Events /\ abandoned \in SUBSET Events

\* Every variable has its type, the writer's and the reconnect policy's included.
TypeOK == batchMode \in BOOLEAN /\ DataTypes /\ W!TypeOK /\ R!TypeOK

\* The events inside the process, oldest first.
InFlight == batch \o buffer \o arg \o pending \o queue

\* Every message that on_message could read is accounted for in exactly one way: it was missed on
\* a full queue, abandoned after a failed write, settled by the writer, or is still in
\* flight; and the surviving ones are settled in the order of arrival, whatever the two
\* threads, the batches and the errors interleave.
NoneLostSilently ==
    LET path == settled \o InFlight
    IN  /\ \A i, j \in 1 .. Len(path) : i < j => path[i] < path[j]
        /\ Range(path) \cup missed \cup abandoned = 1 .. arrived
        /\ Range(path) \cap (missed \cup abandoned) = {}
        /\ missed \cap abandoned = {}

One(b) == IF b THEN 1 ELSE 0

\* The statistics of the health log are exact up to the step each thread has yet to
\* record: the dropped ones are those missed, the received ones all others, and of
\* those the written ones have reached the writer, whatever becomes of their batch.  A
\* message can be written before it is counted as received, but only the one whose
\* callback is still running.
StatsExact ==
    /\ dropped + One(callback = "full") = Cardinality(missed)
    /\ received + One(callback = "stored")
         = Len(handed) + Len(pending) + Len(queue) + Cardinality(abandoned)
    /\ written + One(pc = "record") = Len(handed)
    /\ written <= received + One(callback = "stored")

\* Memory is bounded: the queue by its capacity, a drain by its batch size, and a drain
\* and the writer together never hold more than a drain and a buffer just short of full,
\* because the main thread takes no new drain before the last one is written.
MemoryBounded ==
    /\ Len(queue) <= QueueCapacity
    /\ Len(pending) + Len(arg) + Len(buffer) + Len(batch) <= DrainBatch + BatchMaxEvents - 1

\* The network thread has been joined before the main thread sleeps or connects again:
\* no callback of an old connection touches the queue or the statistics meanwhile, and
\* nothing stays in a half-made batch.
QuietWhileAway ==
    pc \in {"sleep", "connect", "exited"} =>
        /\ link = "none" /\ callback = "idle"
        /\ pending = <<>> /\ InFlight = queue

\* A message on the queue is eventually handed to the writer or abandoned with a failed
\* write, across errors, reconnects and refused connections, unless the main loop exits.
QueueDrains ==
    \A e \in Events :
        e \in Range(queue) ~> e \in Range(handed) \cup abandoned \/ pc = "exited"

Pipe == INSTANCE EventPipe WITH pipe <- InFlight

\* The whole input implements the event pipe that may abandon events but never
\* reorders, repeats or resurrects one.
ImplementsPipe == Pipe!LossySpec

\* The main loop follows the reconnect policy that ReconnectBackoff checks on its own.
ImplementsPolicy == R!Spec

-------------------------------------------------------------------------------
(* What the documents say and the code does not do *)

\* docs/r1-batch-egress-implementation-plan-2026-03-14.md: "Flush when any condition is
\* met", one of which is that the flush interval has elapsed since the last flush.
FlushedInTime ==
    (buffer # <<>> /\ sinceFlush >= FlushInterval) ~> (buffer = <<>>)

\* tasks/lessons.md, L-006: "Reconnection on broker disconnect is handled by sleeping
\* interval seconds ... and calling client.connect() again."
ReconnectsThroughLoop == (link \in {"lost", "dead"}) ~> (pc = "sleep")
===============================================================================
