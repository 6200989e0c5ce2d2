# TA-MQTT in TLA+

Specifications of the Splunk add-on TA-MQTT: an MQTT subscriber that runs as a
modular input inside Splunk, takes messages from a broker and writes them as
events, one by one through splunkd or in batches through the HTTP Event
Collector (HEC). TLC explores small instances; TLAPS proves the main results
for every value of the constants. All line numbers refer to
`src/package/bin/input_module/mqtt_subscriber.py` unless another file is named.

## 1. The system

| Component | State it keeps | Operations | Interacts with |
| --- | --- | --- | --- |
| Batch egress writer, `_HecBatchWriter` (530-738) | buffer, its bytes, last flush, close flag, five counters | `write`, `flush`, `_send_payload`, `close` | called by the main loop; POSTs to HEC |
| Single-event writer, `_ModInputSingleEventWriter` (507-527) | none | `write` | called by the main loop; hands the event to splunkd |
| Main loop, `collect_events` (1241-1340) | where it is, `pending_items`, the reconnect policy | connect, drain, write, error handler, finally block, sleep | queue, writer, paho client, statistics |
| Reconnect policy (1241-1257, 1284-1339) | failures in a row, delay, counters | count, reset, back off, cool down | part of the main loop |
| MQTT callbacks (1131-1192) | the event queue | `on_connect`, `on_disconnect`, `on_message` | run in paho's network thread; share queue and statistics with the main loop |
| Runtime statistics and health log (968-1128) | counters, windows, high-water mark | record, drop warning, health line | written by both threads under a lock |
| HEC token provisioning (281-402) and REST handler (`TA_MQTT_rh_mqtt_subscriber.py`) | tokens in splunkd, token in the stanza | look up, create, persist; create, edit and delete hooks | several processes, splunkd REST |
| TLS setup, `_TLSSetup` (405-491) | temporary files | enter, exit | start-up and main loop |
| Input validation and settings (71-144, 240-278, 784-859; `globalConfig.json`) | none | validate, parse | form, REST handler, start-up |
| Entry point (`mqtt_subscriber.py` in `bin/`, `collect_events` 862-966) | where the start is | launch, read parameters, provision, load the broker record | splunkd, token provisioning, TLS setup |
| Payload functions (147-237) | none | decode, envelope | `on_message`, batch writer |
| Packaging hook (`additional_packaging.py`) | the generated dashboard files | patch them in place | run by `ucc-gen`, possibly several times over one output |
| Load test (`tools/mqtt_load_test.py`) | a counter record per publisher thread | publish, sum up, stop, join | a broker; outside the add-on at run time |
| Scripts, workflow, static configuration | none that lasts | see `PROJECT.json` | outside the add-on at run time |

What is hard in this code, and what would make it correct:

* two threads share the queue and the statistics without a common transaction:
  every message must be accounted for once, in order, with exact counters;
* a write may raise in the middle of a drain, a POST may fail after HEC has
  indexed it, a connect may fail for days: what is lost, repeated or delayed
  must be bounded and have a cause;
* the writer is re-entered by its own pre-flush and keeps its byte count
  incrementally: limits and count must hold at every boundary;
* the loop must go on: calls return, queued messages reach the writer, buffered
  ones leave it, a lost connection is repaired, the backoff never breaks;
* three places judge the same settings by different rules, and an override is
  withdrawn after the save: what one lets pass the next must be able to read;
* a process can be killed, or raise, between writing a private key to a file and
  removing it: what stays behind must have a cause;
* a build can be interrupted between the truncation of a file and its rewriting.

`PROJECT.json` lists these hazards line by line under `hazards`, with the
properties that cover each one.

## 2. Modules

**EventPipe** is the abstract promise of an egress path: events enter at one end
with growing numbers and leave at the other, in order and once, each settled as
delivered or given up, for good. `Spec` loses nothing it has accepted;
`LossySpec` may also abandon a contiguous run of events unsettled.

**HecBatchWriter** models `_HecBatchWriter` completely. One thread calls it, so a
call is a sequence of steps only where time passes inside: `Write` and `Flush`
put the batch into `batch`, each attempt of `_send_payload` is one step
(`PostSucceeds`, `PostRetries`, `PostGivesUp`, `RequestRejected`), and
`WriteResumes` is the rest of a `write` after its pre-flush. `call` and `arg` are
the call stack. An attempt that fails may or may not have been applied by HEC
(`reached`). Lines are events with a size. `handed`, `settled`, `acked` and
`indexed` are history variables: what was given to the writer, what left it, what
HEC acknowledged and how often HEC has indexed an event.

**ReconnectBackoff** models the reconnect policy. `CountAttempt`, `Reset` and
`Penalise` are the three places where the loop touches it; the specification of
the module runs them against a broker that may fail at every connect and a loop
that may fail while running.

**Subscriber** composes them: the main thread's program counter `pc`, the queue,
`pending_items`, the network thread with its connection (`link`) and its place in
`on_message` (`callback`), the message counters, and the instances
`W == INSTANCE HecBatchWriter` and `R == INSTANCE ReconnectBackoff`, whose actions
are conjuncts of the main thread's steps. Whatever the main thread does while it is
inside the writer, the network thread goes on filling the queue. Both output modes
are initial states. What paho does on its own (reconnecting after a lost link,
ending its thread when a callback raises) is external and modelled as the code
relies on it. `OnMessageRaises` is the exception `on_message` does not catch, in what
comes before its `try`; a message that cannot be read never becomes an event and has no
number.

**RuntimeStats** models what both threads do to `runtime_stats`. A step is what a thread
does while it holds `stats_lock`, or one access to the queue or the clock outside it:
`Put`, `ReadDepth`, `CountReceived` and `RaiseHighWater` are one `on_message`;
`HealthBegins`, `HealthRaisesHighWater` and `LogHealth` one `_maybe_log_health`. The four
counters are the function `total`, the `last_logged_` fields `logged`, the `lag_window_`
fields `lag`. `said`, `saidLag` and `warned` remember what health lines and drop warnings
have reported so far. Time passes at any moment (`Tick`), so a write may take any time.

**HecToken** models the life of one input's HEC token. The collection of tokens and the
stanza live in splunkd; every REST request (`request[r]`, with the place of its hook) and
every start of the input (`input`) is a process of its own, and each of its calls of
splunkd is one step, so that look-up and creation are apart. Calls fail with or without
effect (`RequestFails`, `InputFails`: a lost answer leaves a token behind), a name that is
taken is refused, the stanza is saved after the hook and may be refused, an administrator
may remove or renew the token. What splunkd and the REST framework do is external.
`tidy` and `undisturbed` are history variables: no overlap and no half-way failure so far,
and no change by others since the input started.

**InputConfig** holds the rules about settings as operators: the patterns of the REST
handler (`RestAccepts`), `validate_input` (`ValidateAccepts`), the parameters as
`collect_events` reads them (`ParametersParse`) and splunkd's rule for starting an input
again (`Recurs`). A value is an integer or one of five texts that the rules tell apart:
absent, empty, blank, a decimal or cron schedule, anything else. `limit` stands for all
the numbers that share their rules.

**TlsSetup** models `_TLSSetup` step by step: `Enter`, the writing of the certificate, of
the key, the loading of both, and `Exit`, which may fail to remove some files. `files` are
the temporary files that exist, `registered` is `_tmp_files`. Writing a file may fail at any
time (`WriteTmpFails`). What OpenSSL makes of the CA and of the client pair is decided by
the record alone (`CaRefused`, `PairRefused`): a defect of the record meets every start
anew, until the record is saved again.

**Startup** composes both: an input is launched by splunkd, reads its parameters,
provisions, loads the broker record, enters the TLS context and runs, while settings and
record are saved, the override `allow_insecure_tls` changes and the process may be killed
anywhere. `record` is what splunkd stores, `broker` the copy a process has read
(`LoadBroker`, which raises for a port that is no number): a process judges a copy that
may be out of date. Files that exist when a process ends stay for good. `spoiled`
remembers that a call on its files has failed. Token provisioning is one step here;
`HecToken` has its calls.

**Packaging** models the hook that patches the generated dashboards. A definition is
reduced to what the patch looks at: tokens, pickers, inputs, their slots, visualizations,
their places and data sources, the refresh. A file is truncated (`OpenFile`) and filled
(`WriteFile`) in separate steps, and a run may be interrupted before, between or after.

**LoadTest** models the load test: publisher threads that look at the stop event
(`GoesOn`), publish and count (`stats`), a main thread that sums the counts publisher by publisher (`Snapshot`), and the join that gives up after
five seconds (`Join`).

The **Proofs** modules (`HecBatchWriterProofs`, `ReconnectBackoffProofs`,
`RuntimeStatsProofs`, `HecTokenProofs`, `SubscriberProofs`, `StartupProofs`,
`PackagingProofs`, `LoadTestProofs`) extend the module they are named after; the **MC**
modules hold the constants for TLC.

Operators introduced by the comment *Seeded fault* are wrong variants of the
definition that follows them. No specification uses them: substituted for that
definition, each one makes the property named in `PROJECT.json` under `mutants`
fail, which shows that the property can tell the code from a plausible bug.

## 3. Runs

| Run | What it shows | Bounds |
| --- | --- | --- |
| `hec_writer` | ten properties of the writer, among them the refinement of `EventPipe!Spec` and that every call returns | 6 events, limits of 3 events and 4 bytes, 2 attempts, 2 calls of `close` |
| `backoff` | the sleep stays in its bounds, grows within a run of failures, and the counters are honest | the code's cap, threshold and cooldown; 5 intervals; 13 connects; a float range small enough to be exceeded |
| `subscriber` | order, conservation and counters over both threads and both writers, bounded memory, quiet sleep, queued messages eventually written or abandoned, and the refinements of `EventPipe!LossySpec` and of the reconnect policy | 4 messages, queue and drain of 2, batches of 2, one attempt, 4 connects |
| `runtime_stats` | true high-water mark, windows that partition counters and lags, drop warnings complete and paced | 4 messages, queue and drain of 2, a clock of 5 ticks starting at boot or later, one reconnect |
| `hec_token` | a started input has the accepted token; orderly hooks leave no orphan; failed starts are repaired | 2 requests at a time, 3 in all, 2 failures |
| `startup` | what was saved can be read, and comes up once the broker record is usable; a process that ends leaves certificate files only for one of three causes | the shipped settings and all that differ in one or two of seven, 9 broker records (three of them unusable), 2 faults, 2 edits |
| `packaging` | a complete run leaves one clock and no dangling reference, and nothing for a later run to rewrite | 3 files, 3 or 4 definitions each, 4 runs |
| `load_test` | printed numbers belong together, the exit code means what it says, the result is printed | 2 publishers of 2 messages, one lost connection each, 2 progress lines |
| `broker_away` (violation) | the loop exits by `OverflowError` at the 1025th failure in a row | the real float range |
| `idle_flush` (violation) | the flush interval is not honoured while the topic is silent | 3 messages, queue of 1, one attempt, 3 connects |
| `link_lost` (violation) | a lost link or a dead network thread does not reach the loop's reconnect path | 3 messages, queue of 1, one attempt, 3 connects |
| `refused_pair` (violation) | certificate and key outlive a process whose client pair OpenSSL refuses | as `startup`, without faults and edits |

*Why the bounds are enough.* In `hec_writer` the sizes 1, 3 and 5 against a limit of
4 give a batch that ends exactly at the limit, one below it, a line larger than a
batch, and a pre-flush followed by a flush in the same call; three one-byte lines
reach the limit of events alone; two attempts give a retry and a failure. In
`subscriber` four messages are more than queue, drain or batch hold, so that the
queue overflows while the main thread is in any of its places; the second one fills
a batch alone, so that a `write` posts twice; four connects allow a failure while
running, failures while connecting, a recovery after either, and (with
`FloatMaxExponent = 1`) two failures in a row with growing delay before a third one
ends the loop. `MaxConnects` stands for the eventual
return of the broker: the last connect succeeds and no write fails after it.

In `runtime_stats` the queue overflows twice, within and beyond the pause between
warnings, before and after the first `DropWarningInterval` since boot, and up to five
health lines cut the four messages into windows in every way. In `hec_token` three
requests suffice for an edit between a delete's hook and its save followed by a new
create, or for two hooks that race to create a token while the input starts; two failures
for a lost answer followed by a second one while it is being repaired.

In `startup` the settings contain values at which the three rules part, alone
and in pairs, and the records one defect of each kind; two edits give a save and a change
of the override in either order, a record that breaks and is corrected, or one that
changes under a start that has read it; two faults a kill during a start that follows a
failed one. In `packaging` the first three
runs may be interrupted at different files, or tear one, before the fourth is complete. In
`load_test` one publisher can be refused, hang or die while the other one goes on.

*Deadlock* is not looked for: a run ends when its bound of events, connects or closes
is used up, and the loop may exit.

*Fairness.* Only steps the code's scheduling justifies are fair. The writer's own
steps: `urlopen` has a timeout of ten seconds, and `time.sleep` returns. The main
thread's steps, taken together: all its waits have timeouts. A callback that has
begun, and paho's reconnect loop. The requests
and starts of `HecToken` go on for the same reason, and an input that has ended is
started again, which holds for every interval but -1. In `Startup` splunkd launches what
is due and a start goes on (`Launch`, `ProcessStep`); kills and failures are never fair. In
`LoadTest` the main thread goes on and the duration ends (`MainStep`, `EndTest`); nothing
is assumed of the publishers. `Packaging` promises safety only, because nobody runs a build
again. Nothing is assumed of the broker, of HEC, of messages arriving, or of the clock.

## 4. Findings

1. *Overflow of the backoff* (1291-1292; `broker_away`). `1.0 * 2**1024` raises
   inside the `except` handler, before `min` can cap it.
2. *No flush while idle* (1266-1268; `idle_flush`). `queue.Empty` leads to `continue`,
   not to `flush(force=False)`; the interval of the batch plan is evaluated only when
   a later message arrives.
3. *A lost connection never reaches the loop* (1154-1163; `link_lost`). The log line
   "Will retry in Ns" is not what happens: paho reconnects with its own delay and
   uncounted, or nothing does if its thread has died in `on_connect` or `on_message`.
4. *Certificate and key stay behind when `__enter__` raises* (483; `refused_pair`).
   `load_cert_chain` runs within `__enter__`, so that `__exit__` is never called when
   OpenSSL refuses the pair. `tasks/lessons.md:30-32` says of the removal that "The context
   manager pattern ensures cleanup even on exception". `docs/test-evidence-mqtt-tls-mtls.md`
   (C2) records such an input: saved with its pair, it exits with `ssl.SSLError` on start;
   two files stay with each start that splunkd repeats.

Three disagreements that are decided by reading and have no run: `written_delta` is, for
`docs/troubleshooting.md:110`, "messages successfully written to Splunk", while line 1279
counts what `write` has taken, in batch mode what was buffered, also when the batch is
dropped later (`StatsExact` says exactly what is counted); the form says "HEC Retry
Attempts must be a non-negative integer" (`globalConfig.json:576`), while `validate_input`
refuses 0; and an empty `batch_mode` means no batches to `validate_input` and batches to
`collect_events`, which `SavedInputComesUp` excludes by name.

## 5. Proofs

For every number and size of events and every setting (assumptions `EventsAssumption`
and `SettingsAssumption`: sizes and settings are positive, as
`_parse_positive_int` enforces):

* `TypeCorrect`, `LimitsHold`, `OrderKept`, `Refinement` for the writer. `TypeOK` is not
  inductive; it becomes so with `Control`, which says where a call can be: a line waits in
  `arg` only during a pre-flush, a call in progress has taken over the buffer.
  `WithinLimits` needs `Control` because the append after a pre-flush meets an empty buffer;
  the refinement maps each action to `Accept`, `Settle` or a stutter, with the invariant
  `InOrderOnce` to identify the settled group as the head of the pipe.

For every interval, cap, threshold and cooldown (`PolicyAssumption`: the constants are
positive and the cooldown is at most the cap):

* `PolicyTypeCorrect`, `SleepBounded`, `CountersAlwaysHonest`, `BackoffMonotone`. The
  invariant ties the delay to the number of failures (`DelayKnown`) and the cooldowns to the
  connects (`CountersKnown`). The arithmetic rests on the recursive function `PowerOfTwo`;
  that it satisfies its equation, is positive and monotone under the cap is proved by least
  counterexample (`LeastElement`), the form of induction the installed provers accept.

For every queue, drain, clock, number of messages and pause (`StatsAssumption`):

* `StatsTypeCorrect`, `EveryDropTold`, `WindowsPartitioned`, `MarkAlwaysTrue`,
  `WarningsAlwaysPaced`. The windows need `TimesPast`: a message on its way was queued in
  the past, so that the lag is never clipped. The high-water mark needs `DepthRead`: between
  its put and its update of the mark `on_message` is the only one that could put more, so
  the depth it has read is at least the present one. The pace of the warnings is an action
  property: `PaceKnown` ties `lastDropWarning` to the time of the last warning (0: none
  since boot), and `KeepsPace` is what every step does.

For every number of requests and failures (`TokenAssumption`):

* `TypesHold`, `AlwaysRunsOnAcceptedToken`, `TokenAlwaysLivesWithInput`. The invariant
  `KnownAtStart` says what a start in the middle of its calls knows while `undisturbed`;
  every step of the system is first shown to be one of six kinds (`StepKinds`), as far as
  the input is concerned. The types need the order of the calls within a hook (`HookOrder`,
  `HookStates`): it is why no hook saves the empty token. `TokenLivesWithInput` needs
  `TidyInvariant`, what holds while no two processes overlap and none fails half-way: a hook
  saves only what was accepted (`SavesAccepted`), the token has its input unless a hook is
  between the two (`Settled`), and a start finds its token, so that it has nothing to
  persist (`StartIsTidy`).

The accounts of the writer, for every setting:

* `RetriesAlwaysAccounted`, `CopiesAlwaysBounded`, `SummaryAlwaysAddsUp`. `Consecutive` says
  that the pipe holds consecutive numbers, so that a batch is an interval of events;
  `AttemptsKnown` ties `retries` to the attempts of the settled batches and of the present
  one, `CopiesKnown` the copies of every event to the place it is in, and `SummaryKnown` the
  event counters to the cardinality of `acked` and the length of `settled`.
* `BytesAlwaysExact`: the byte counter equals the sum of the sizes of what is buffered, for
  buffers of any length. The sum is a fold over the sequence, hence over the set of its
  positions. That sums exist for sets of any size (`SumsExistUpTo`), obey their equation
  (`SumsUnfold`), depend on nothing but the summands (`SumsAgree`) and may start with any of
  them (`SumsTakeAny`) is again proved by least counterexample. The invariant itself only
  needs `BytesEmpty` and `BytesAppend`.
* `SummaryAlwaysFinal`: once `close` has returned nothing is left and no total moves.
  `ClosedIsEmpty` is inductive; `InOrderOnce` then makes what is settled all that was handed
  over.

For both threads together, every queue, drain and batch (`SubscriberAssumption`, and
`PartsAssumption`, which repeats what the writer and the policy assume of their settings):

* `NeverLostSilently`, `StatsAlwaysExact`, `MemoryAlwaysBounded`, `AlwaysQuietWhileAway`.
  Every step is first shown to be one of five kinds for the writer (`WriterKinds`) and one
  of five for the threads (`ThreadKinds`); the invariants are proved over the kinds. `Core`
  says which steps may be under way together (`WriterControl`, `MainControl`,
  `SingleControl`). `WriterInOrder` says that what was handed over is what was settled
  followed by what the writer holds; `PathKnown`, that handed, pending and queued events
  form one increasing sequence that is disjoint from the missed and the abandoned ones.
  `CountsKnown` adds the counters, `RoomKnown` the bound: a drain is taken only when the
  writer holds less than a batch, and each write moves one event from the drain to the
  writer.
* `PipeRefinement`: the two threads together are still one pipe, from `on_message` to
  Splunk. An arrival that finds room is an `Accept`; the end of a POST or of a single write
  is a `Settle` of the head of `InFlight`; a write that fails is an `Abandon` of the run
  that lies between the writer's events and the queue; every other step leaves `InFlight` as
  it is.
* `PolicyRefinement`: within the loop the reconnect policy moves only by its own actions
  (`PolicyKinds`), so what is proved of it alone holds in the subscriber.
* `TypesHold`. Its bound on the delay needs the equation of `PowerOfTwo` once more, because
  a fact proved of a module is not available for an instance of it.

For all settings, broker records, faults and edits (`RawAssumption`, `StartupAssumption`):

* `StartupTypeCorrect`, `LeftoversAlwaysExplained`, `SavedSettingsAlwaysParse`.
  `LeftoversExplained` is an action property. `FilesKnown` says that what is registered is
  what exists until `__enter__` raises or `__exit__` has run; `LeftWithReason`, that a
  process which has got past either with files left has a reason, `Reason`, to keep them.
  Every step is one of nine kinds as far as the files are concerned, and only the kinds
  that end a process have to account for them.

For any list of files, any generated definitions and number of runs (`PackagingAssumption`):

* `RerunsAreHarmless`, `OnePickerDrivesAll`. They rest on `PatchedStays`: the patch of a
  patched definition changes nothing. `Progress` carries it over interrupted runs.

For every number of publishers (`LoadTestAssumption`):

* `ExitCodeAlwaysExplained`, `TotalsAlwaysAddUp`. `Counted` ties a refusal to its count,
  `Joined` says for whom the main thread has waited, `SumsKnown` what the sums say of the
  publishers summed up. `Balanced` says that a publisher's attempts are sent or failed, but
  for the one message under way while it publishes; `SumsOpen`, by how much the sums over
  the publishers read so far may be behind.

Every invariant, action property and refinement that a passing run checks is a theorem above.
Only liveness (`CallReturns`, `QueueDrains`, `FailedStartRepaired`, `SavedInputComesUp`,
`ResultPrinted`) is shown by the runs alone: it rests on fairness, and fairness on ENABLED,
which is out of the provers' reach.

## 6. Plan

1. done: all modules of section 2, and the proofs of section 5.
2. Proofs that are left: the steps from which `CallReturns` and `QueueDrains` follow, that
   is, which measure each step of a call lowers and that no other step raises it.
3. The payload functions as operators, with the question which messages can be encoded
   and what of their bytes can be recovered from an indexed event.

## 7. Not modelled

Wording and layout of log lines; the contents of messages and lines: decoding and envelope
are pure functions of one message, and the one thing the rest of the system sees of them, a
line that cannot be encoded, is `WriteFails`; the length of sleeps other than the reconnect
delay, in particular of the pauses between attempts, which have no bound; QoS redelivery by
the broker (a message that arrives again is a new message to the add-on); the loss of queue
and buffer when Splunk kills the process, which no code handles (`MemoryBounded` says how
much that can be; `Startup` models the kill itself); names, the topic and the format of the
token in `validate_input`; the packaging hook's removal of bytecode and its style patch,
which work on text; message rates and contents in the load test; generated UCC glue, static
configuration, shell scripts and the release workflow, which keep no state worth a
specification.
