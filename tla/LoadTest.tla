------------------------------- MODULE LoadTest -------------------------------
(***************************************************************************)
(* tools/mqtt_load_test.py: publisher threads that count what they do,     *)
(* each in a PublisherStats with a lock of its own, and the main thread    *)
(* that sums the counts up for its progress lines, stops the publishers,   *)
(* waits for each of them for at most five seconds and prints the result.  *)
(***************************************************************************)
EXTENDS Integers, FiniteSets, Functions

CONSTANTS
    Clients,        \* --clients
    MaxMessages,    \* bound: messages a publisher attempts
    MaxDisconnects, \* bound: connections a publisher loses
    MaxReports      \* bound: progress lines

ASSUME LoadTestAssumption == {Clients, MaxMessages, MaxDisconnects, MaxReports} \subseteq Nat

Publishers == 1 .. Clients
Counters == {"attempted", "published", "publish_errors", "connect_errors", "disconnects"}

VARIABLES
    pc,         \* where each publisher is: "new", "loop", "ready" (going to publish),
                \* "publishing", or it has ended: "done", "refused" (no connection) or
                \* "dead" (an exception)
    stats,      \* stats_list
    stopping,   \* stop_event
    main,       \* the main thread: "running", "summing", "joining", "exited"
    at,         \* the publisher it sums up or joins next
    totals,     \* aggregate_stats, so far
    reports,    \* progress lines printed
    \* history, not in the code:
    result,     \* the sums are those of the result, not of a progress line
    timedOut    \* publishers that had not ended when join gave up

vars == <<pc, stats, stopping, main, at, totals, reports, result, timedOut>>

Zero == [c \in Counters |-> 0]

Init ==
    /\ pc = [p \in Publishers |-> "new"]
    /\ stats = [p \in Publishers |-> Zero]
    /\ stopping = FALSE
    /\ main = "running" /\ at = 1 /\ totals = Zero /\ reports = 0
    /\ result = FALSE /\ timedOut = {}

-------------------------------------------------------------------------------
(* publisher_worker.  The threads are daemons: none outlives the main thread. *)

Incr(p, counter) == stats' = [stats EXCEPT ![p][counter] = @ + 1]

Moves(p, from, to) ==
    /\ main # "exited"
    /\ pc[p] = from
    /\ pc' = [pc EXCEPT ![p] = to]

MainVars == <<main, at, totals, reports, result, timedOut>>

\* configure_tls raises: nothing counts it.
TlsFails(p) == Moves(p, "new", "dead") /\ UNCHANGED <<stats, stopping, MainVars>>

Connects(p) == Moves(p, "new", "loop") /\ UNCHANGED <<stats, stopping, MainVars>>

\* Seeded fault: a refused publisher ends without a count.
ConnectFailsUncounted(p) ==
    Moves(p, "new", "refused") /\ UNCHANGED <<stats, stopping, MainVars>>

ConnectFails(p) ==
    /\ Moves(p, "new", "refused") /\ Incr(p, "connect_errors")
    /\ UNCHANGED <<stopping, MainVars>>

\* The test is not over: a message is made, even if the end comes meanwhile.
GoesOn(p) ==
    /\ ~stopping /\ stats[p].attempted < MaxMessages
    /\ Moves(p, "loop", "ready") /\ UNCHANGED <<stats, stopping, MainVars>>

Attempts(p) ==
    /\ Moves(p, "ready", "publishing") /\ Incr(p, "attempted")
    /\ UNCHANGED <<stopping, MainVars>>

\* Seeded fault: a publish that raises counts as published as well.
PublishedTwice(p) ==
    /\ Moves(p, "publishing", "loop")
    /\ stats' = [stats EXCEPT ![p].published = @ + 1, ![p].publish_errors = @ + 1]
    /\ UNCHANGED <<stopping, MainVars>>

\* client.publish succeeds, returns an error or raises.
Published(p) ==
    /\ Moves(p, "publishing", "loop")
    /\ Incr(p, "published") \/ Incr(p, "publish_errors")
    /\ UNCHANGED <<stopping, MainVars>>

\* on_disconnect, in the publisher's network thread.
Disconnected(p) ==
    /\ main # "exited" /\ pc[p] \in {"loop", "ready", "publishing"}
    /\ stats[p].disconnects < MaxDisconnects
    /\ Incr(p, "disconnects")
    /\ UNCHANGED <<pc, stopping, MainVars>>

Stops(p) == stopping /\ Moves(p, "loop", "done") /\ UNCHANGED <<stats, stopping, MainVars>>

-------------------------------------------------------------------------------
(* main *)

Ended(p) == pc[p] \in {"done", "refused", "dead"}

PublisherVars == <<pc, stats>>

SumUp == main' = "summing" /\ at' = 1 /\ totals' = Zero

\* A progress line is due.
Report ==
    /\ main = "running" /\ reports < MaxReports
    /\ SumUp
    /\ UNCHANGED <<PublisherVars, stopping, reports, result, timedOut>>

\* One snapshot of aggregate_stats, consistent by the publisher's own lock.
Snapshot ==
    /\ main = "summing" /\ at \in Publishers
    /\ totals' = [c \in Counters |-> totals[c] + stats[at][c]]
    /\ at' = at + 1
    /\ UNCHANGED <<PublisherVars, stopping, main, reports, result, timedOut>>

Summed == main = "summing" /\ at = Clients + 1

\* The sums are printed: go on, or exit with the result's code.
Prints ==
    /\ Summed
    /\ main' = IF result THEN "exited" ELSE "running"
    /\ reports' = IF result THEN reports ELSE reports + 1
    /\ UNCHANGED <<PublisherVars, stopping, at, totals, result, timedOut>>

ExitCode == IF totals.connect_errors = 0 THEN 0 ELSE 1

\* SIGINT or SIGTERM: handle_signal.
Signal ==
    /\ main # "exited" /\ ~stopping
    /\ stopping' = TRUE
    /\ UNCHANGED <<PublisherVars, MainVars>>

\* The duration is over, or a signal has come.
EndTest ==
    /\ main = "running"
    /\ stopping' = TRUE
    /\ main' = "joining" /\ at' = 1
    /\ UNCHANGED <<PublisherVars, totals, reports, result, timedOut>>

\* Seeded fault: join waits for as long as it takes.
JoinForever ==
    /\ main = "joining" /\ at \in Publishers /\ Ended(at)
    /\ at' = at + 1
    /\ UNCHANGED <<PublisherVars, stopping, main, totals, reports, result, timedOut>>

\* thread.join(timeout=5): the thread has ended, or the timeout is over.
Join ==
    /\ main = "joining" /\ at \in Publishers
    /\ at' = at + 1
    /\ timedOut' = IF Ended(at) THEN timedOut ELSE timedOut \cup {at}
    /\ UNCHANGED <<PublisherVars, stopping, main, totals, reports, result>>

LastSums ==
    /\ main = "joining" /\ at = Clients + 1
    /\ SumUp /\ result' = TRUE
    /\ UNCHANGED <<PublisherVars, stopping, reports, timedOut>>

MainStep == Report \/ Snapshot \/ Prints \/ EndTest \/ Join \/ LastSums

Next ==
    \/ \E p \in Publishers :
          \/ TlsFails(p) \/ Connects(p) \/ ConnectFails(p)
          \/ GoesOn(p) \/ Attempts(p) \/ Published(p) \/ Disconnected(p) \/ Stops(p)
    \/ MainStep \/ Signal

\* The main thread only waits with timeouts, and the duration comes to its end.
Fairness == WF_vars(MainStep) /\ WF_vars(EndTest)

Spec == Init /\ [][Next]_vars /\ Fairness

-------------------------------------------------------------------------------
(* Correctness *)

TypeOK ==
    /\ pc \in [Publishers -> {"new", "loop", "ready", "publishing", "done", "refused", "dead"}]
    /\ stats \in [Publishers -> [Counters -> Nat]] /\ totals \in [Counters -> Nat]
    /\ stopping \in BOOLEAN /\ result \in BOOLEAN
    /\ main \in {"running", "summing", "joining", "exited"}
    /\ at \in 1 .. Clients + 1 /\ reports \in 0 .. MaxReports
    /\ timedOut \in SUBSET Publishers

\* The numbers of a printed line belong together, although the publishers go on while
\* they are summed up: what was attempted was published or has failed, up to one message
\* per publisher that is connected; and the result is exact but for publishers that had
\* not ended after five seconds.
TotalsAddUp ==
    LET open == totals.attempted - totals.published - totals.publish_errors
    IN  Summed => /\ open \in 0 .. Cardinality({p \in Publishers : pc[p] \notin {"new", "refused", "dead"}})
                  /\ result => open <= Cardinality(timedOut)

\* Exit code 1 means that a publisher was refused.  Exit code 0 means that none was, of
\* those that had ended in time; not that all have connected: a publisher that died in
\* configure_tls, or was still waiting for its connection, does not show.
ExitCodeExplained ==
    main = "exited" =>
        IF ExitCode = 1 THEN \E p \in Publishers : pc[p] = "refused"
        ELSE \A p \in Publishers : pc[p] = "refused" => p \in timedOut

\* The result is printed whatever the publishers do: one that hangs in its connect or in
\* a publish delays it, no more.
ResultPrinted == <>(main = "exited")
===============================================================================
