--------------------------- MODULE HecBatchWriter ---------------------------
(***************************************************************************)
(* _HecBatchWriter of package/bin/input_module/mqtt_subscriber.py: the     *)
(* egress writer that buffers event lines and POSTs them in batches to the *)
(* Splunk HTTP Event Collector (HEC), with retries.                        *)
(*                                                                         *)
(* One thread calls write, flush and close.  A call that has to POST is    *)
(* spread over several steps, one per attempt, because each attempt may be *)
(* applied by HEC and still look failed to the writer (lost response,      *)
(* timeout, HTTP or application error).                                    *)
(***************************************************************************)
EXTENDS Naturals, Sequences, FiniteSets, Functions

CONSTANTS
    NumEvents,          \* bound: how many events a run hands to the writer
    LineBytes,          \* encoded size of the line of each event, newline included
    BatchMaxEvents,     \* hec_batch_max_events
    BatchMaxBytes,      \* hec_batch_max_bytes
    FlushInterval,      \* hec_flush_interval_ms, in ticks of the model's clock
    RetryMaxAttempts,   \* hec_retry_max_attempts
    MaxCloseCalls       \* bound: how often a run calls close

Events == 1 .. NumEvents

\* A line has at least its newline.
ASSUME EventsAssumption ==
    /\ NumEvents \in Nat
    /\ LineBytes \in [Events -> Nat]
    /\ \A e \in Events : LineBytes[e] >= 1

\* _parse_positive_int admits only positive settings.
ASSUME SettingsAssumption ==
    /\ BatchMaxEvents \in Nat /\ BatchMaxEvents >= 1
    /\ BatchMaxBytes \in Nat /\ BatchMaxBytes >= 1
    /\ FlushInterval \in Nat /\ FlushInterval >= 1
    /\ RetryMaxAttempts \in Nat /\ RetryMaxAttempts >= 1
    /\ MaxCloseCalls \in Nat

VARIABLES
    endpointOk,   \* FALSE: urllib.request.Request rejects _endpoint (it has no scheme)
    call,         \* the call in progress: "idle", "write", "flush" or "close"
    arg,          \* <<e>> while write(e) waits for its pre-flush, else <<>>
    buffer,       \* _buffer_lines
    bufferBytes,  \* _buffer_bytes
    sinceFlush,   \* ticks since _last_flush_monotonic, saturating at FlushInterval
    batch,        \* the lines _send_payload is posting, <<>> outside of it
    batchBytes,   \* buffered_bytes of flush
    attempt,      \* attempts of the current POST that have failed
    batchesSent, batchesFailed, eventsSent, eventsFailed, retries,  \* _hec_* counters
    closed,       \* _closed
    closeCalls,   \* _close_calls
    \* history, not in the code:
    handed,       \* events given to write, in order
    settled,      \* events of batches sent or dropped, in order
    acked,        \* events of batches HEC acknowledged
    indexed       \* how many copies of each event HEC has indexed

hec         == <<batchesSent, batchesFailed, eventsSent, eventsFailed, retries>>
codeVars    == <<endpointOk, call, arg, buffer, bufferBytes, sinceFlush, batch, batchBytes,
                 attempt, hec, closed, closeCalls>>
historyVars == <<handed, settled, acked, indexed>>
vars        == <<codeVars, historyVars>>

Init ==
    /\ endpointOk \in BOOLEAN
    /\ call = "idle" /\ arg = <<>>
    /\ buffer = <<>> /\ bufferBytes = 0
    /\ sinceFlush = 0
    /\ batch = <<>> /\ batchBytes = 0 /\ attempt = 0
    /\ batchesSent = 0 /\ batchesFailed = 0
    /\ eventsSent = 0 /\ eventsFailed = 0 /\ retries = 0
    /\ closed = FALSE /\ closeCalls = 0
    /\ handed = <<>> /\ settled = <<>>
    /\ acked = {} /\ indexed = [e \in Events |-> 0]

----------------------------------------------------------------------------
(* flush *)

\* Seeded fault: flush forgets to reset _buffer_bytes.
StartPostKeepsBytes(lines, bytes, caller) ==
    /\ batch' = lines /\ batchBytes' = bytes /\ attempt' = 0
    /\ buffer' = <<>>
    /\ sinceFlush' = 0
    /\ call' = caller
    /\ UNCHANGED bufferBytes

\* Seeded fault: flush posts the buffer but does not empty it.
StartPostKeepsBuffer(lines, bytes, caller) ==
    /\ batch' = lines /\ batchBytes' = bytes /\ attempt' = 0
    /\ sinceFlush' = 0
    /\ call' = caller
    /\ UNCHANGED <<buffer, bufferBytes>>

\* flush(force=True) on `lines` holding `bytes`: empty the buffer, enter _send_payload.
StartPost(lines, bytes, caller) ==
    /\ batch' = lines
    /\ batchBytes' = bytes
    /\ attempt' = 0
    /\ buffer' = <<>>
    /\ bufferBytes' = 0
    /\ sinceFlush' = 0
    /\ call' = caller

\* The three conditions under which flush posts the buffer.
FlushDue(force) ==
    /\ buffer # <<>>
    /\ \/ force
       \/ Len(buffer) >= BatchMaxEvents
       \/ bufferBytes >= BatchMaxBytes
       \/ sinceFlush >= FlushInterval

\* A call of flush that posts.  A call that is not due changes nothing.
Flush(force) ==
    /\ call = "idle"
    /\ FlushDue(force)
    /\ StartPost(buffer, bufferBytes, "flush")
    /\ UNCHANGED <<endpointOk, arg, hec, closed, closeCalls, historyVars>>

----------------------------------------------------------------------------
(* write *)

Overflows(e) == buffer # <<>> /\ bufferBytes + LineBytes[e] > BatchMaxBytes

\* Seeded fault: the thresholds are exceeded before the buffer is posted.
FillsLate(e) ==
    \/ Len(buffer) + 1 > BatchMaxEvents
    \/ bufferBytes + LineBytes[e] > BatchMaxBytes

\* Does the buffer reach a threshold once e is in it?
Fills(e) ==
    \/ Len(buffer) + 1 >= BatchMaxEvents
    \/ bufferBytes + LineBytes[e] >= BatchMaxBytes

\* The second half of write: append the line, then post the buffer if it is full.
AppendLine(e) ==
    /\ arg' = <<>>
    /\ \/ /\ Fills(e)
          /\ StartPost(Append(buffer, e), bufferBytes + LineBytes[e], "write")
       \/ /\ ~Fills(e)
          /\ buffer' = Append(buffer, e)
          /\ bufferBytes' = bufferBytes + LineBytes[e]
          /\ call' = "idle"
          /\ UNCHANGED <<sinceFlush, batch, batchBytes, attempt>>

\* write(e): a line that does not fit beside the buffered ones makes them go first.
Write(e) ==
    /\ call = "idle"
    /\ handed' = Append(handed, e)
    /\ \/ /\ Overflows(e)
          /\ arg' = <<e>>
          /\ StartPost(buffer, bufferBytes, "write")
       \/ ~Overflows(e) /\ AppendLine(e)
    /\ UNCHANGED <<endpointOk, hec, closed, closeCalls, settled, acked, indexed>>

\* Seeded fault: write returns after its pre-flush, without appending the line.
WriteResumesEarly ==
    /\ call = "write" /\ batch = <<>>
    /\ arg' = <<>>
    /\ call' = "idle"
    /\ UNCHANGED <<endpointOk, buffer, bufferBytes, sinceFlush, batch, batchBytes, attempt,
                   hec, closed, closeCalls, historyVars>>

\* The pre-flush of write has returned.
WriteResumes ==
    /\ call = "write"
    /\ batch = <<>>
    /\ AppendLine(Head(arg))
    /\ UNCHANGED <<endpointOk, hec, closed, closeCalls, historyVars>>

----------------------------------------------------------------------------
(* _send_payload *)

\* flush returns to its caller: to the rest of write, or out of the writer.
BatchLeaves ==
    /\ batch' = <<>>
    /\ batchBytes' = 0
    /\ attempt' = 0
    /\ settled' = settled \o batch
    /\ call' = IF arg = <<>> THEN "idle" ELSE "write"
    /\ closed' = (closed \/ call = "close")
    /\ UNCHANGED <<endpointOk, arg, buffer, bufferBytes, sinceFlush, closeCalls, handed>>

\* HEC indexes every event of the posted batch, once more if it had before.
HecIndexes == indexed' = [e \in Events |-> indexed[e] + IF e \in Range(batch) THEN 1 ELSE 0]

\* Status 200 and code 0.
PostSucceeds ==
    /\ batch # <<>>
    /\ endpointOk
    /\ HecIndexes
    /\ batchesSent' = batchesSent + 1
    /\ eventsSent' = eventsSent + Len(batch)
    /\ UNCHANGED <<batchesFailed, eventsFailed, retries>>
    /\ acked' = acked \cup Range(batch)
    /\ BatchLeaves

\* Any exception of an attempt.  `reached`: HEC has indexed the batch, its answer
\* was lost, late or unusable.
AttemptFails(reached) ==
    /\ batch # <<>>
    /\ endpointOk
    /\ IF reached THEN HecIndexes ELSE UNCHANGED indexed
    /\ UNCHANGED acked

\* Seeded faults: one attempt too many; one too few.
AttemptsLeftLate  == attempt < RetryMaxAttempts
AttemptsLeftEarly == attempt + 2 < RetryMaxAttempts

AttemptsLeft == attempt + 1 < RetryMaxAttempts

\* ... with attempts left: sleep and post the same payload again.
PostRetries(reached) ==
    /\ AttemptFails(reached)
    /\ AttemptsLeft
    /\ attempt' = attempt + 1
    /\ retries' = retries + 1
    /\ UNCHANGED <<batchesSent, batchesFailed, eventsSent, eventsFailed>>
    /\ UNCHANGED <<endpointOk, call, arg, buffer, bufferBytes, sinceFlush, batch,
                   batchBytes, closed, closeCalls, handed, settled>>

\* Seeded fault: a dropped batch counts as one failed event.
CountDroppedOnce == batchesFailed' = batchesFailed + 1 /\ eventsFailed' = eventsFailed + 1

CountDropped == batchesFailed' = batchesFailed + 1 /\ eventsFailed' = eventsFailed + Len(batch)

\* ... on the last attempt: flush logs that the batch is dropped.
PostGivesUp(reached) ==
    /\ AttemptFails(reached)
    /\ ~AttemptsLeft
    /\ CountDropped
    /\ UNCHANGED <<batchesSent, eventsSent, retries>>
    /\ BatchLeaves

\* Seeded fault: a rejected endpoint is tried again and again.
RequestRejectedLoops ==
    /\ batch # <<>>
    /\ ~endpointOk
    /\ UNCHANGED vars

\* urllib.request.Request raises before the first attempt: flush drops the batch and
\* no counter of the close summary says so.
RequestRejected ==
    /\ batch # <<>>
    /\ ~endpointOk
    /\ UNCHANGED <<hec, acked, indexed>>
    /\ BatchLeaves

----------------------------------------------------------------------------
(* close *)

\* Seeded fault: close leaves the buffer alone.
CloseForgetsFlush ==
    /\ call = "idle"
    /\ closeCalls' = closeCalls + 1
    /\ closed' = TRUE
    /\ UNCHANGED <<endpointOk, call, arg, buffer, bufferBytes, sinceFlush, batch, batchBytes,
                   attempt, hec, historyVars>>

Close ==
    /\ call = "idle"
    /\ closeCalls' = closeCalls + 1
    /\ \/ /\ ~closed /\ buffer # <<>>
          /\ StartPost(buffer, bufferBytes, "close")
          /\ UNCHANGED closed
       \/ /\ closed \/ buffer = <<>>
          /\ closed' = TRUE
          /\ UNCHANGED <<call, buffer, bufferBytes, sinceFlush, batch, batchBytes, attempt>>
    /\ UNCHANGED <<endpointOk, arg, hec, historyVars>>

----------------------------------------------------------------------------

\* The clock, which also runs while a POST is in progress.
Tick ==
    /\ sinceFlush < FlushInterval
    /\ sinceFlush' = sinceFlush + 1
    /\ UNCHANGED <<endpointOk, call, arg, buffer, bufferBytes, batch, batchBytes,
                   attempt, hec, closed, closeCalls, historyVars>>

\* The steps of a call that has entered _send_payload.
PostStep ==
    \/ PostSucceeds
    \/ \E reached \in BOOLEAN : PostRetries(reached) \/ PostGivesUp(reached)
    \/ RequestRejected

\* The caller, collect_events, writes events as they arrive, and nothing after close.
CallerWrites == ~closed /\ Len(handed) < NumEvents /\ Write(Len(handed) + 1)
CallerFlushes == ~closed /\ \E force \in BOOLEAN : Flush(force)
CallerCloses == closeCalls < MaxCloseCalls /\ Close

Next ==
    \/ CallerWrites \/ CallerFlushes \/ CallerCloses
    \/ PostStep \/ WriteResumes
    \/ Tick

\* urlopen has a timeout, and after the sleep of a retry the thread goes on.
Fairness == WF_vars(PostStep) /\ WF_vars(WriteResumes)

Spec == Init /\ [][Next]_vars /\ Fairness

----------------------------------------------------------------------------
(* Correctness *)

DataTypes ==
    /\ call \in {"idle", "write", "flush", "close"}
    /\ arg \in Seq(Events)
    /\ buffer \in Seq(Events) /\ batch \in Seq(Events)
    /\ bufferBytes \in Nat /\ batchBytes \in Nat
    /\ sinceFlush \in 0 .. FlushInterval
    /\ attempt \in 0 .. RetryMaxAttempts - 1
    /\ batchesSent \in Nat /\ batchesFailed \in Nat
    /\ eventsSent \in Nat /\ eventsFailed \in Nat /\ retries \in Nat
    /\ closeCalls \in Nat
    /\ handed \in Seq(Events) /\ settled \in Seq(Events)
    /\ acked \in SUBSET Events
    /\ indexed \in [Events -> Nat]

\* Every variable has its type: a counter of the writer is a natural number, and the
\* buffer, the batch being posted and the histories hold events.
TypeOK == endpointOk \in BOOLEAN /\ closed \in BOOLEAN /\ DataTypes

\* A writer at rest never sits on a full buffer, and no POST is larger than the two
\* configured limits, except that one line alone may be larger than the byte limit:
\* what write's check before and its check after the append achieve together, also
\* when one write posts twice.
WithinLimits ==
    /\ call = "idle" => Len(buffer) < BatchMaxEvents /\ bufferBytes < BatchMaxBytes
    /\ Len(batch) <= BatchMaxEvents
    /\ Len(batch) > 1 => batchBytes <= BatchMaxBytes

Bytes(lines) == SumFunction([i \in DOMAIN lines |-> LineBytes[lines[i]]])

\* _buffer_bytes, kept incrementally over resets and re-entries, is the size of the
\* lines in the buffer, and buffered_bytes that of the payload being posted.
BytesExact == bufferBytes = Bytes(buffer) /\ batchBytes = Bytes(batch)

\* Every event handed to write is, in the order handed over, settled, being posted,
\* buffered, or waiting for its pre-flush: no interleaving of pre-flush, threshold
\* flush, retry and close loses, repeats or reorders one inside the writer.
InOrderOnce == handed = settled \o batch \o buffer \o arg

\* The close summary adds up: events_sent are exactly the acknowledged ones, and sent
\* and failed ones are all that have left the writer; unless the endpoint is one that
\* Request rejects, in which case nothing is counted and nothing sent.
SummaryAddsUp ==
    /\ eventsSent = Cardinality(acked)
    /\ eventsSent + eventsFailed = IF endpointOk THEN Len(settled) ELSE 0

\* At most one copy per attempt reaches the index, an acknowledged event has reached
\* it, and one the writer still buffers has not: retries of a POST whose answer was
\* lost duplicate events, but only within the batch being retried.
CopiesBounded ==
    \A e \in Events :
        /\ indexed[e] <= RetryMaxAttempts
        /\ e \in acked => indexed[e] >= 1
        /\ e \in Range(buffer \o arg) => indexed[e] = 0
        /\ e \in Range(batch) => indexed[e] <= attempt

\* A batch is given up only after hec_retry_max_attempts attempts, and none takes more:
\* the retries counter bounds the failed batches from both sides.
RetriesAccounted ==
    LET retriesPerBatch == RetryMaxAttempts - 1
    IN  /\ retries >= retriesPerBatch * batchesFailed + attempt
        /\ retries <= retriesPerBatch * (batchesSent + batchesFailed) + attempt

\* Once close has returned nothing is left in the writer and the totals of the close
\* summary are final, however often close is called again (CHANGELOG 2.1.1:
\* "idempotent close behavior and deterministic close-summary metrics").
SummaryFinal ==
    [][closed => /\ Len(settled) = Len(handed)
                 /\ UNCHANGED <<hec, settled, indexed>>]_vars

\* Every call comes back to collect_events: the number of attempts is bounded.
CallReturns == (call # "idle") ~> (call = "idle")

Pipe == INSTANCE EventPipe WITH newest <- Len(handed),
                                pipe   <- batch \o buffer \o arg

\* The writer implements the event pipe that loses nothing: events leave it in the
\* order accepted, once, and the outcome of an event never changes.
ImplementsPipe == Pipe!Spec
=============================================================================
