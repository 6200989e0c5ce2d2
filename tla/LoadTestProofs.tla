---------------------------- MODULE LoadTestProofs ----------------------------
(***************************************************************************)
(* Proofs about LoadTest, for every number of publishers, messages, lost   *)
(* connections and progress lines: the exit code means what it says, and   *)
(* the numbers of a printed line belong together.                          *)
(***************************************************************************)
EXTENDS LoadTest, FiniteSetTheorems, TLAPS

\* A publisher counts its refusal when, and only when, it ends by it.
Counted ==
    \A p \in Publishers :
        stats[p].connect_errors = IF pc[p] = "refused" THEN 1 ELSE 0

\* The main thread has waited for p.
Awaited(p) == Ended(p) \/ p \in timedOut

Joined ==
    /\ main = "joining" => \A p \in 1 .. at - 1 : Awaited(p)
    /\ result => \A p \in Publishers : Awaited(p)

\* What the sums say of the publishers summed up so far.
SumsKnown ==
    main \in {"summing", "exited"} =>
        /\ totals.connect_errors # 0 => \E p \in Publishers : pc[p] = "refused"
        /\ result => \A p \in 1 .. at - 1 :
                        pc[p] = "refused" /\ p \notin timedOut => totals.connect_errors # 0

\* Nothing is printed, and no exit code returned, before the last publisher is summed up.
Completed == main = "exited" => result /\ at = Clients + 1

\* A line that is not the result is one of the progress lines.
LineDue == main = "summing" /\ ~result => reports < MaxReports

Inv == TypeOK /\ Counted /\ Joined /\ SumsKnown /\ Completed /\ LineDue

\* A step of publisher p or of its network thread.
Acts(p) ==
    \/ TlsFails(p) \/ Connects(p) \/ ConnectFails(p)
    \/ GoesOn(p) \/ Attempts(p) \/ Published(p) \/ Disconnected(p) \/ Stops(p)

\* What such a step can make of any publisher q, as far as refusals are concerned.
Keeps(q) == pc'[q] = pc[q] /\ stats'[q].connect_errors = stats[q].connect_errors

Advances(q) ==
    /\ ~Ended(q) /\ pc'[q] # "refused"
    /\ stats'[q].connect_errors = stats[q].connect_errors

Refused(q) ==
    /\ ~Ended(q) /\ pc'[q] = "refused"
    /\ stats'[q].connect_errors = stats[q].connect_errors + 1

-------------------------------------------------------------------------------
LEMMA ActsStep ==
    ASSUME TypeOK, NEW p \in Publishers, Acts(p)
    PROVE  /\ pc' \in [Publishers -> {"new", "loop", "ready", "publishing", "done", "refused", "dead"}]
           /\ stats' \in [Publishers -> [Counters -> Nat]]
           /\ UNCHANGED MainVars /\ main # "exited"
           /\ \A q \in Publishers : Keeps(q) \/ Advances(q) \/ Refused(q)
<1>0. /\ pc \in [Publishers -> {"new", "loop", "ready", "publishing", "done", "refused", "dead"}]
      /\ stats \in [Publishers -> [Counters -> Nat]]
  BY Zenon DEF TypeOK
<1>1. UNCHANGED MainVars /\ main # "exited"
  BY Zenon DEF Acts, TlsFails, Connects, ConnectFails, GoesOn, Attempts, Published,
               Disconnected, Stops, Moves
<1>2. ASSUME NEW from \in {"new", "loop", "publishing"},
             NEW to \in {"loop", "ready", "done", "dead"},
             Moves(p, from, to), UNCHANGED stats
      PROVE  /\ pc' \in [Publishers -> {"new", "loop", "ready", "publishing", "done", "refused", "dead"}]
             /\ stats' \in [Publishers -> [Counters -> Nat]]
             /\ \A q \in Publishers : Keeps(q) \/ Advances(q) \/ Refused(q)
  BY <1>0, <1>2 DEF Moves, Keeps, Advances, Ended
<1>3. ASSUME NEW from \in {"ready", "publishing"}, NEW to \in {"loop", "publishing"},
             NEW c \in {"attempted", "published", "publish_errors"},
             Moves(p, from, to), Incr(p, c)
      PROVE  /\ pc' \in [Publishers -> {"new", "loop", "ready", "publishing", "done", "refused", "dead"}]
             /\ stats' \in [Publishers -> [Counters -> Nat]]
             /\ \A q \in Publishers : Keeps(q) \/ Advances(q) \/ Refused(q)
  <2>1. c \in Counters /\ c # "connect_errors"
    BY <1>3 DEF Counters
  <2>2. /\ stats' \in [Publishers -> [Counters -> Nat]]
        /\ \A q \in Publishers : stats'[q].connect_errors = stats[q].connect_errors
    BY <1>0, <1>3, <2>1 DEF Incr, Counters
  <2> QED BY <1>0, <1>3, <2>2 DEF Moves, Keeps, Advances, Ended
<1>4. CASE TlsFails(p)
  BY <1>1, <1>2, <1>4, Zenon DEF TlsFails
<1>5. CASE Connects(p)
  BY <1>1, <1>2, <1>5, Zenon DEF Connects
<1>6. CASE ConnectFails(p)
  <2>1. Moves(p, "new", "refused") /\ Incr(p, "connect_errors")
    BY <1>6, Zenon DEF ConnectFails
  <2>2. /\ stats' \in [Publishers -> [Counters -> Nat]]
        /\ \A q \in Publishers :
              stats'[q].connect_errors
                = IF q = p THEN stats[q].connect_errors + 1 ELSE stats[q].connect_errors
    BY <1>0, <2>1 DEF Incr, Counters
  <2>3. /\ pc' \in [Publishers -> {"new", "loop", "ready", "publishing", "done", "refused", "dead"}]
        /\ \A q \in Publishers : Keeps(q) \/ Advances(q) \/ Refused(q)
    BY <1>0, <2>1, <2>2 DEF Moves, Keeps, Refused, Ended
  <2> QED BY <1>1, <2>2, <2>3, Zenon
<1>7. CASE Attempts(p)
  BY <1>1, <1>3, <1>7, Zenon DEF Attempts
<1>8. CASE Published(p)
  BY <1>1, <1>3, <1>8, Zenon DEF Published
<1>9. CASE Disconnected(p)
  <2>1. Incr(p, "disconnects") /\ pc' = pc
    BY <1>9, Zenon DEF Disconnected
  <2>2. /\ stats' \in [Publishers -> [Counters -> Nat]]
        /\ \A q \in Publishers : stats'[q].connect_errors = stats[q].connect_errors
    BY <1>0, <2>1 DEF Incr, Counters
  <2> QED BY <1>0, <1>1, <2>1, <2>2, Zenon DEF Keeps
<1>10. CASE Stops(p)
  BY <1>1, <1>2, <1>10, Zenon DEF Stops
<1>11. CASE GoesOn(p)
  BY <1>1, <1>2, <1>11, Zenon DEF GoesOn
<1> QED BY <1>4, <1>5, <1>6, <1>7, <1>8, <1>9, <1>10, <1>11, Zenon DEF Acts

LEMMA InvStep == Inv /\ [Next]_vars => Inv'
<1> SUFFICES ASSUME Inv, [Next]_vars PROVE Inv'
  OBVIOUS
<1>0. Clients \in Nat /\ at \in 1 .. Clients + 1 /\ Publishers = 1 .. Clients
  BY LoadTestAssumption DEF Inv, TypeOK, Publishers
<1>1. CASE \E p \in Publishers : Acts(p)
  <2>1. /\ pc' \in [Publishers -> {"new", "loop", "ready", "publishing", "done", "refused", "dead"}]
        /\ stats' \in [Publishers -> [Counters -> Nat]]
        /\ UNCHANGED MainVars /\ main # "exited"
        /\ \A q \in Publishers : Keeps(q) \/ Advances(q) \/ Refused(q)
    BY <1>1, ActsStep, Zenon DEF Inv
  <2>2. UNCHANGED stopping
    BY <1>1, Zenon DEF Acts, TlsFails, Connects, ConnectFails, GoesOn, Attempts, Published,
                       Disconnected, Stops
  <2>3. UNCHANGED <<main, at, totals, reports, result, timedOut>>
    BY <2>1, Zenon DEF MainVars
  <2>4. TypeOK'
    BY <2>1, <2>2, <2>3, Zenon DEF Inv, TypeOK
  <2>5. Counted'
    BY <2>1 DEF Inv, Counted, Keeps, Advances, Refused, Ended
  <2>6. ASSUME NEW q \in Publishers, Awaited(q) PROVE Awaited(q)'
    BY <2>1, <2>3, <2>6, Zenon DEF Awaited, Keeps, Advances, Refused, Ended
  <2>7. 1 .. at - 1 \subseteq Publishers
    BY <1>0
  <2>8. Joined'
    BY <2>3, <2>6, <2>7, Zenon DEF Inv, Joined
  <2>9. SumsKnown'
    <3>1. \A q \in Publishers : pc[q] = "refused" => pc'[q] = "refused"
      BY <2>1 DEF Keeps, Advances, Refused, Ended
    <3>2. \A q \in Publishers : Awaited(q) /\ pc'[q] = "refused" /\ q \notin timedOut
                                    => pc[q] = "refused"
      BY <2>1, Zenon DEF Keeps, Advances, Refused, Awaited
    <3>3. result => \A q \in Publishers : Awaited(q)
      BY Zenon DEF Inv, Joined
    <3> QED BY <2>3, <2>7, <3>1, <3>2, <3>3, Zenon DEF Inv, SumsKnown
  <2>10. Completed' /\ LineDue'
    BY <2>3, Zenon DEF Inv, Completed, LineDue
  <2> QED BY <2>4, <2>5, <2>8, <2>9, <2>10, Zenon DEF Inv
<1>2. ASSUME UNCHANGED pc PROVE \A q : Ended(q)' <=> Ended(q)
  BY <1>2, Zenon DEF Ended
<1>3. ASSUME UNCHANGED <<pc, stats>> PROVE Counted'
  BY <1>3, Zenon DEF Inv, Counted
<1>4. ASSUME UNCHANGED <<pc, stats, result, timedOut>>, main' # "joining" PROVE Joined'
  BY <1>4, <1>2, Zenon DEF Inv, Joined, Awaited
<1>5. CASE Report
  <2>1. /\ UNCHANGED <<pc, stats, stopping, reports, result, timedOut>>
        /\ main' = "summing" /\ at' = 1 /\ totals' = Zero
    BY <1>5, Zenon DEF Report, SumUp, PublisherVars
  <2>2. 1 \in 1 .. Clients + 1 /\ Zero \in [Counters -> Nat] /\ Zero.connect_errors = 0
    BY <1>0 DEF Zero, Counters
  <2>3. TypeOK'
    BY <2>1, <2>2, Zenon DEF Inv, TypeOK
  <2>4. 1 .. at' - 1 = {}
    BY <2>1
  <2>5. SumsKnown'
    BY <2>1, <2>2, <2>4, Zenon DEF SumsKnown
  <2>6. Completed' /\ LineDue'
    BY <1>5, <2>1, Zenon DEF Report, Completed, LineDue
  <2>7. Joined'
    BY <1>4, <2>1, Zenon
  <2> QED BY <1>3, <2>1, <2>3, <2>5, <2>6, <2>7, Zenon DEF Inv
<1>6. CASE LastSums
  <2>1. /\ UNCHANGED <<pc, stats, stopping, reports, timedOut>> /\ main = "joining"
        /\ at = Clients + 1 /\ main' = "summing" /\ at' = 1 /\ totals' = Zero /\ result' = TRUE
    BY <1>6, Zenon DEF LastSums, SumUp, PublisherVars
  <2>2. 1 \in 1 .. Clients + 1 /\ Zero \in [Counters -> Nat] /\ Zero.connect_errors = 0
    BY <1>0 DEF Zero, Counters
  <2>3. TypeOK'
    BY <2>1, <2>2, Zenon DEF Inv, TypeOK
  <2>4. 1 .. at' - 1 = {} /\ 1 .. at - 1 = Publishers
    BY <1>0, <2>1
  <2>5. SumsKnown'
    BY <2>1, <2>2, <2>4, Zenon DEF SumsKnown
  <2>6. Completed' /\ LineDue'
    BY <2>1, Zenon DEF Completed, LineDue
  <2>7. Joined'
    <3>1. \A p \in Publishers : Awaited(p)
      BY <2>1, <2>4, Zenon DEF Inv, Joined
    <3> QED BY <1>2, <2>1, <3>1, Zenon DEF Joined, Awaited
  <2> QED BY <1>3, <2>1, <2>3, <2>5, <2>6, <2>7, Zenon DEF Inv
<1>7. CASE Snapshot
  <2>1. /\ UNCHANGED <<pc, stats, stopping, main, reports, result, timedOut>>
        /\ main = "summing" /\ at \in Publishers /\ at' = at + 1
        /\ totals' = [c \in Counters |-> totals[c] + stats[at][c]]
    BY <1>7, Zenon DEF Snapshot, PublisherVars
  <2>2. totals \in [Counters -> Nat] /\ stats[at] \in [Counters -> Nat]
    BY <2>1, Zenon DEF Inv, TypeOK
  <2>3. at + 1 \in 1 .. Clients + 1 /\ totals' \in [Counters -> Nat]
    BY <1>0, <2>1, <2>2
  <2>4. TypeOK'
    BY <2>1, <2>3, Zenon DEF Inv, TypeOK
  <2>5. totals'.connect_errors = totals.connect_errors + stats[at].connect_errors
    BY <2>1 DEF Counters
  <2>6. stats[at].connect_errors = IF pc[at] = "refused" THEN 1 ELSE 0
    BY <2>1, Zenon DEF Inv, Counted
  <2>7. totals.connect_errors \in Nat
    BY <2>2 DEF Counters
  <2>8. /\ totals'.connect_errors # 0 => totals.connect_errors # 0 \/ pc[at] = "refused"
        /\ totals.connect_errors # 0 \/ pc[at] = "refused" => totals'.connect_errors # 0
    BY <2>5, <2>6, <2>7
  <2>9. \A p \in 1 .. at' - 1 : p \in 1 .. at - 1 \/ p = at
    BY <1>0, <2>1
  <2>10. SumsKnown'
    BY <2>1, <2>8, <2>9, Zenon DEF Inv, SumsKnown
  <2>11. Joined' /\ Completed' /\ LineDue'
    BY <1>4, <2>1, Zenon DEF Inv, Completed, LineDue
  <2> QED BY <1>3, <2>1, <2>4, <2>10, <2>11, Zenon DEF Inv
<1>8. CASE Prints
  <2>1. /\ UNCHANGED <<pc, stats, stopping, at, totals, result, timedOut>>
        /\ main = "summing" /\ at = Clients + 1
        /\ \/ result /\ main' = "exited" /\ reports' = reports
           \/ ~result /\ main' = "running" /\ reports' = reports + 1
    BY <1>8, Zenon DEF Prints, Summed, PublisherVars
  <2>2. reports' \in 0 .. MaxReports
    <3>1. CASE result /\ reports' = reports
      BY <3>1, Zenon DEF Inv, TypeOK
    <3>2. CASE ~result /\ reports' = reports + 1
      <4>1. reports \in 0 .. MaxReports /\ reports < MaxReports
        BY <2>1, <3>2, Zenon DEF Inv, TypeOK, LineDue
      <4> QED BY <3>2, <4>1, LoadTestAssumption
    <3> QED BY <2>1, <3>1, <3>2, Zenon
  <2>3. TypeOK'
    BY <2>1, <2>2, Zenon DEF Inv, TypeOK
  <2>4. SumsKnown' /\ Completed' /\ LineDue'
    BY <2>1, Zenon DEF Inv, SumsKnown, Completed, LineDue
  <2>5. Joined'
    BY <1>4, <2>1, Zenon
  <2> QED BY <1>3, <2>1, <2>3, <2>4, <2>5, Zenon DEF Inv
<1>9. CASE EndTest
  <2>1. /\ UNCHANGED <<pc, stats, totals, reports, result, timedOut>>
        /\ main' = "joining" /\ at' = 1 /\ stopping' = TRUE
    BY <1>9, Zenon DEF EndTest, PublisherVars
  <2>2. 1 \in 1 .. Clients + 1 /\ 1 .. at' - 1 = {}
    BY <1>0, <2>1
  <2>3. TypeOK'
    BY <2>1, <2>2, Zenon DEF Inv, TypeOK
  <2>4. Joined'
    BY <1>2, <2>1, <2>2, Zenon DEF Inv, Joined, Awaited
  <2>5. SumsKnown' /\ Completed' /\ LineDue'
    BY <2>1, Zenon DEF SumsKnown, Completed, LineDue
  <2> QED BY <1>3, <2>1, <2>3, <2>4, <2>5, Zenon DEF Inv
<1>10. CASE Join
  <2>1. /\ UNCHANGED <<pc, stats, stopping, main, totals, reports, result>>
        /\ main = "joining" /\ at \in Publishers /\ at' = at + 1
        /\ \/ Ended(at) /\ timedOut' = timedOut
           \/ timedOut' = timedOut \cup {at}
    BY <1>10, Zenon DEF Join, PublisherVars
  <2>2. PICK k \in Publishers : k = at
    BY <2>1, Zenon
  <2>3. /\ at + 1 \in 1 .. Clients + 1
        /\ \A p \in 1 .. at' - 1 : p \in 1 .. at - 1 \/ p = k
    BY <1>0, <2>1, <2>2
  <2>4. timedOut' \in SUBSET Publishers /\ timedOut \subseteq timedOut'
    <3>1. timedOut \in SUBSET Publishers
      BY Zenon DEF Inv, TypeOK
    <3> QED BY <2>1, <3>1
  <2>5. TypeOK'
    BY <2>1, <2>3, <2>4, Zenon DEF Inv, TypeOK
  <2>6. \A p : Awaited(p) => Awaited(p)'
    BY <1>2, <2>1, <2>4, Zenon DEF Awaited
  <2>7. Awaited(k)'
    <3>1. CASE Ended(k)
      BY <2>6, <3>1, Zenon DEF Awaited
    <3>2. CASE timedOut' = timedOut \cup {k}
      <4>1. k \in timedOut'
        BY <3>2
      <4> QED BY <4>1, Zenon DEF Awaited
    <3> QED BY <2>1, <2>2, <3>1, <3>2, Zenon
  <2>8. Joined'
    BY <2>1, <2>3, <2>6, <2>7, Zenon DEF Inv, Joined
  <2>9. SumsKnown' /\ Completed' /\ LineDue'
    BY <2>1, Zenon DEF SumsKnown, Completed, LineDue
  <2> QED BY <1>3, <2>1, <2>5, <2>8, <2>9, Zenon DEF Inv
<1>11. CASE Signal \/ UNCHANGED vars
  <2>1. /\ UNCHANGED <<pc, stats, main, at, totals, reports, result, timedOut>>
        /\ stopping' = TRUE \/ stopping' = stopping
    BY <1>11, Zenon DEF Signal, PublisherVars, MainVars, vars
  <2>2. TypeOK'
    BY <2>1, Zenon DEF Inv, TypeOK
  <2>3. Joined' /\ SumsKnown' /\ Completed' /\ LineDue'
    BY <1>2, <2>1, Zenon DEF Inv, Joined, Awaited, SumsKnown, Completed, LineDue
  <2> QED BY <1>3, <2>1, <2>2, <2>3, Zenon DEF Inv
<1> QED BY <1>1, <1>5, <1>6, <1>7, <1>8, <1>9, <1>10, <1>11, Zenon DEF Next, MainStep, Acts

LEMMA InvInit == Init => Inv
<1> SUFFICES ASSUME Init PROVE Inv
  OBVIOUS
<1>1. /\ pc = [p \in Publishers |-> "new"] /\ stats = [p \in Publishers |-> Zero]
      /\ stopping = FALSE /\ result = FALSE /\ timedOut = {} /\ totals = Zero
      /\ main = "running" /\ at = 1 /\ reports = 0
  BY Zenon DEF Init
<1>2. /\ 1 \in 1 .. Clients + 1 /\ 0 \in 0 .. MaxReports
      /\ Zero \in [Counters -> Nat] /\ Zero.connect_errors = 0
  BY LoadTestAssumption DEF Zero, Counters
<1>3. TypeOK
  <2>1. stats \in [Publishers -> [Counters -> Nat]]
    BY <1>1, <1>2
  <2>2. pc \in [Publishers -> {"new", "loop", "ready", "publishing", "done", "refused", "dead"}]
    BY <1>1
  <2> QED BY <1>1, <1>2, <2>1, <2>2, Zenon DEF TypeOK
<1>4. Counted
  BY <1>1, <1>2 DEF Counted
<1>5. Joined /\ SumsKnown /\ Completed /\ LineDue
  BY <1>1, Zenon DEF Joined, SumsKnown, Completed, LineDue
<1> QED BY <1>3, <1>4, <1>5, Zenon DEF Inv

\* The exit code means what it says, for every number of publishers: 1 that a publisher was
\* refused, 0 that none was that had ended in time.
THEOREM ExitCodeAlwaysExplained == Spec => []ExitCodeExplained
<1>1. Init => Inv
  BY InvInit
<1>2. Inv /\ [Next]_vars => Inv'
  BY InvStep
<1>3. Inv => ExitCodeExplained
  <2> SUFFICES ASSUME Inv, main = "exited" PROVE ExitCodeExplained
    BY DEF ExitCodeExplained
  <2>1. result /\ at = Clients + 1
    BY Zenon DEF Inv, Completed
  <2>2. 1 .. at - 1 = Publishers
    BY <2>1, LoadTestAssumption DEF Publishers
  <2>3. /\ totals.connect_errors # 0 => \E p \in Publishers : pc[p] = "refused"
        /\ \A p \in Publishers : pc[p] = "refused" /\ p \notin timedOut
                                    => totals.connect_errors # 0
    BY <2>1, <2>2, Zenon DEF Inv, SumsKnown
  <2>4. (ExitCode = 1 => totals.connect_errors # 0) /\ (ExitCode # 1 => totals.connect_errors = 0)
    BY DEF ExitCode
  <2> QED BY <2>3, <2>4, Zenon DEF ExitCodeExplained
<1> QED BY <1>1, <1>2, <1>3, PTL DEF Spec

-------------------------------------------------------------------------------
(* The sums *)

\* What was attempted and neither published nor counted as an error.
OpenOf(s) == s.attempted - s.published - s.publish_errors

Balanced ==
    \A p \in Publishers : OpenOf(stats[p]) = IF pc[p] = "publishing" THEN 1 ELSE 0

\* The publishers up to k that are or were connected.
ConnectedTo(k) == {p \in 1 .. k : pc[p] \notin {"new", "refused", "dead"}}

\* Between two snapshots: no more is open in the sums than one message per publisher
\* summed up so far that is connected; in the result, that join has given up.
SumsOpen ==
    main = "summing" =>
        /\ OpenOf(totals) \in 0 .. Cardinality(ConnectedTo(at - 1))
        /\ result => OpenOf(totals) <= Cardinality(timedOut \cap (1 .. at - 1))

SumsInv == Inv /\ Balanced /\ SumsOpen

LEMMA SumsAre == SumsInv => TotalsAddUp
<1> SUFFICES ASSUME SumsInv, Summed PROVE
        LET open == totals.attempted - totals.published - totals.publish_errors
        IN  /\ open \in 0 .. Cardinality({p \in Publishers : pc[p] \notin {"new", "refused", "dead"}})
            /\ result => open <= Cardinality(timedOut)
  BY DEF TotalsAddUp
<1>1. Clients \in Nat /\ at = Clients + 1 /\ main = "summing"
  BY LoadTestAssumption DEF Summed
<1>2. at - 1 = Clients
  BY <1>1
<1>3. 1 .. at - 1 = Publishers
  BY <1>2, Zenon DEF Publishers
<1>4. timedOut \cap Publishers = timedOut
  BY DEF SumsInv, Inv, TypeOK
<1>5. /\ OpenOf(totals) \in 0 .. Cardinality(ConnectedTo(at - 1))
      /\ result => OpenOf(totals) <= Cardinality(timedOut \cap (1 .. at - 1))
  BY <1>1, Zenon DEF SumsInv, SumsOpen
<1> QED BY <1>3, <1>4, <1>5, Zenon DEF ConnectedTo, OpenOf

\* What a step of a publisher makes of its balance.
LEMMA ActsBalance ==
    ASSUME TypeOK, Balanced, NEW p \in Publishers, Acts(p)
    PROVE  /\ Balanced'
           /\ \A q \in Publishers : pc[q] \notin {"new", "refused", "dead"}
                                        => pc'[q] \notin {"new", "refused", "dead"}
<1> DEFINE States == {"new", "loop", "ready", "publishing", "done", "refused", "dead"}
<1>0. /\ pc \in [Publishers -> States]
      /\ stats \in [Publishers -> [Counters -> Nat]]
  BY Zenon DEF TypeOK
<1>1. ASSUME NEW from \in States \ {"refused", "dead"}, NEW to \in States,
             Moves(p, from, to), to \in {"refused", "dead"} => from = "new", to # "new"
      PROVE  /\ \A q \in Publishers : pc'[q] = IF q = p THEN to ELSE pc[q]
             /\ pc[p] = from
             /\ \A q \in Publishers : pc[q] \notin {"new", "refused", "dead"}
                                          => pc'[q] \notin {"new", "refused", "dead"}
  BY <1>0, <1>1 DEF Moves
<1>2. ASSUME NEW c \in Counters, Incr(p, c)
      PROVE  \A q \in Publishers :
                /\ q # p => stats'[q] = stats[q]
                /\ \A d \in Counters : stats'[p][d] = stats[p][d] + IF d = c THEN 1 ELSE 0
  BY <1>0, <1>2 DEF Incr
<1>3. {"attempted", "published", "publish_errors", "connect_errors", "disconnects"} = Counters
  BY DEF Counters
<1>4. stats[p] \in [Counters -> Nat]
  BY <1>0
<1>5. stats[p].attempted \in Nat /\ stats[p].published \in Nat /\ stats[p].publish_errors \in Nat
  BY <1>3, <1>4
<1>6. ASSUME NEW c \in Counters, Incr(p, c)
      PROVE  OpenOf(stats'[p]) = OpenOf(stats[p]) + IF c = "attempted" THEN 1
                                    ELSE IF c \in {"published", "publish_errors"} THEN -1 ELSE 0
  <2>1. /\ stats'[p].attempted = stats[p].attempted + IF "attempted" = c THEN 1 ELSE 0
        /\ stats'[p].published = stats[p].published + IF "published" = c THEN 1 ELSE 0
        /\ stats'[p].publish_errors = stats[p].publish_errors + IF "publish_errors" = c THEN 1 ELSE 0
    BY <1>2, <1>3, <1>6
  <2> QED BY <1>3, <1>5, <2>1, <1>6 DEF OpenOf
<1>7. \A q \in Publishers : OpenOf(stats[q]) = IF pc[q] = "publishing" THEN 1 ELSE 0
  BY Zenon DEF Balanced
<1>8. ASSUME NEW from \in States \ {"refused", "dead", "publishing"},
             NEW to \in States \ {"new", "publishing"},
             Moves(p, from, to), to \in {"refused", "dead"} => from = "new", UNCHANGED stats
      PROVE  Balanced'
  BY <1>1, <1>7, <1>8 DEF Balanced
<1>9. ASSUME NEW c \in Counters, Incr(p, c), UNCHANGED pc,
             c \notin {"attempted", "published", "publish_errors"}
      PROVE  Balanced'
  <2>1. OpenOf(stats'[p]) = OpenOf(stats[p])
    <3>1. OpenOf(stats[p]) \in Int
      BY <1>5 DEF OpenOf
    <3> QED BY <1>6, <1>9, <3>1
  <2> QED BY <1>2, <1>7, <1>9, <2>1, Zenon DEF Balanced
<1>10. CASE TlsFails(p)
  BY <1>1, <1>8, <1>10 DEF TlsFails
<1>11. CASE Connects(p)
  BY <1>1, <1>8, <1>11 DEF Connects
<1>12. CASE Stops(p)
  BY <1>1, <1>8, <1>12 DEF Stops
<1>13. CASE Disconnected(p)
  <2>1. Incr(p, "disconnects") /\ UNCHANGED pc
    BY <1>13, Zenon DEF Disconnected
  <2>2. "disconnects" \in Counters \ {"attempted", "published", "publish_errors"}
    BY DEF Counters
  <2> QED BY <1>9, <2>1, <2>2
<1>14. CASE ConnectFails(p)
  <2>1. Moves(p, "new", "refused") /\ Incr(p, "connect_errors")
    BY <1>14, Zenon DEF ConnectFails
  <2>2. /\ \A q \in Publishers : pc'[q] = IF q = p THEN "refused" ELSE pc[q]
        /\ pc[p] = "new"
        /\ \A q \in Publishers : pc[q] \notin {"new", "refused", "dead"}
                                     => pc'[q] \notin {"new", "refused", "dead"}
    BY <1>1, <2>1
  <2>3. OpenOf(stats'[p]) = 0
    BY <1>3, <1>6, <1>7, <2>1, <2>2
  <2>4. \A q \in Publishers : q # p => stats'[q] = stats[q]
    BY <1>2, <1>3, <2>1, Zenon
  <2>5. Balanced'
    BY <1>7, <2>2, <2>3, <2>4 DEF Balanced
  <2> QED BY <2>2, <2>5, Zenon
<1>15. CASE Attempts(p)
  <2>1. Moves(p, "ready", "publishing") /\ Incr(p, "attempted")
    BY <1>15, Zenon DEF Attempts
  <2>2. /\ \A q \in Publishers : pc'[q] = IF q = p THEN "publishing" ELSE pc[q]
        /\ pc[p] = "ready"
        /\ \A q \in Publishers : pc[q] \notin {"new", "refused", "dead"}
                                     => pc'[q] \notin {"new", "refused", "dead"}
    BY <1>1, <2>1
  <2>3. OpenOf(stats'[p]) = 1
    BY <1>3, <1>6, <1>7, <2>1, <2>2
  <2>4. \A q \in Publishers : q # p => stats'[q] = stats[q]
    BY <1>2, <1>3, <2>1, Zenon
  <2>5. Balanced'
    BY <1>7, <2>2, <2>3, <2>4 DEF Balanced
  <2> QED BY <2>2, <2>5, Zenon
<1>16. CASE Published(p)
  <2>1. PICK c \in {"published", "publish_errors"} : Moves(p, "publishing", "loop") /\ Incr(p, c)
    BY <1>16, Zenon DEF Published
  <2>2. /\ \A q \in Publishers : pc'[q] = IF q = p THEN "loop" ELSE pc[q]
        /\ pc[p] = "publishing"
        /\ \A q \in Publishers : pc[q] \notin {"new", "refused", "dead"}
                                     => pc'[q] \notin {"new", "refused", "dead"}
    BY <1>1, <2>1
  <2>3. OpenOf(stats'[p]) = 0
    BY <1>3, <1>6, <1>7, <2>1, <2>2
  <2>4. \A q \in Publishers : q # p => stats'[q] = stats[q]
    BY <1>2, <1>3, <2>1, Zenon
  <2>5. Balanced'
    BY <1>7, <2>2, <2>3, <2>4 DEF Balanced
  <2> QED BY <2>2, <2>5, Zenon
<1>17. CASE GoesOn(p)
  BY <1>1, <1>8, <1>17 DEF GoesOn
<1> QED BY <1>10, <1>11, <1>12, <1>13, <1>14, <1>15, <1>16, <1>17, Zenon DEF Acts

\* One more number, one more element at most.
LEMMA UpToFinite ==
    ASSUME NEW k \in Nat, NEW S
    PROVE  /\ IsFiniteSet(S \cap (1 .. k)) /\ Cardinality(S \cap (1 .. k)) \in Nat
           /\ Cardinality(S \cap (1 .. k + 1)) = Cardinality(S \cap (1 .. k))
                                                  + IF k + 1 \in S THEN 1 ELSE 0
<1>1. IsFiniteSet(1 .. k)
  BY FS_Interval
<1>2. IsFiniteSet(S \cap (1 .. k))
  BY <1>1, FS_Subset
<1>3. Cardinality(S \cap (1 .. k)) \in Nat
  BY <1>2, FS_CardinalityType
<1>4. CASE k + 1 \in S
  <2>1. S \cap (1 .. k + 1) = (S \cap (1 .. k)) \cup {k + 1} /\ k + 1 \notin S \cap (1 .. k)
    BY <1>4
  <2> QED BY <1>2, <1>3, <1>4, <2>1, FS_AddElement
<1>5. CASE k + 1 \notin S
  <2>1. S \cap (1 .. k + 1) = S \cap (1 .. k)
    BY <1>5
  <2> QED BY <1>2, <1>3, <1>5, <2>1
<1> QED BY <1>4, <1>5

\* The cardinalities that bound the sums: finite, and never less when publishers go on.
LEMMA ConnectedGrows ==
    ASSUME NEW k \in Nat,
           \A q \in 1 .. k : pc[q] \notin {"new", "refused", "dead"}
                                => pc'[q] \notin {"new", "refused", "dead"}
    PROVE  /\ Cardinality(ConnectedTo(k)) \in Nat /\ Cardinality({q \in 1 .. k : pc'[q] \notin {"new", "refused", "dead"}}) \in Nat
           /\ Cardinality(ConnectedTo(k))
                 <= Cardinality({q \in 1 .. k : pc'[q] \notin {"new", "refused", "dead"}})
<1> DEFINE S == ConnectedTo(k)
           T == {q \in 1 .. k : pc'[q] \notin {"new", "refused", "dead"}}
<1>1. IsFiniteSet(1 .. k)
  BY FS_Interval
<1>2. S \subseteq T /\ T \subseteq 1 .. k
  BY DEF ConnectedTo
<1>3. IsFiniteSet(T)
  BY <1>1, <1>2, FS_Subset
<1>4. IsFiniteSet(S) /\ Cardinality(S) <= Cardinality(T)
  BY <1>2, <1>3, FS_Subset
<1>5. Cardinality(S) \in Nat /\ Cardinality(T) \in Nat
  BY <1>3, <1>4, FS_CardinalityType
<1> QED BY <1>4, <1>5

LEMMA OpenIsInt == TypeOK => OpenOf(totals) \in Int
<1> SUFFICES ASSUME TypeOK PROVE OpenOf(totals) \in Int
  OBVIOUS
<1>1. totals \in [Counters -> Nat]
  BY Zenon DEF TypeOK
<1> QED BY <1>1 DEF OpenOf, Counters

LEMMA SnapshotSums ==
    ASSUME SumsInv, Snapshot
    PROVE  SumsOpen'
<1>1. /\ UNCHANGED <<pc, stats, main, result, timedOut>>
      /\ main = "summing" /\ at \in Publishers /\ at' = at + 1
      /\ totals' = [c \in Counters |-> totals[c] + stats[at][c]]
  BY Zenon DEF Snapshot, PublisherVars
<1>2. at \in Nat \ {0} /\ at \in 1 .. Clients /\ Clients \in Nat
  BY <1>1, LoadTestAssumption DEF Publishers
<1>3. PICK k \in Nat : k = at - 1
  BY <1>2
<1>4. at = k + 1 /\ at' - 1 = k + 1
  BY <1>1, <1>2, <1>3
<1>5. totals \in [Counters -> Nat] /\ stats[at] \in [Counters -> Nat]
  BY <1>1, Zenon DEF SumsInv, Inv, TypeOK
<1>6. OpenOf(totals') = OpenOf(totals) + OpenOf(stats[at])
  BY <1>1, <1>5 DEF OpenOf, Counters
<1>7. OpenOf(stats[at]) = IF pc[at] = "publishing" THEN 1 ELSE 0
  BY <1>1, Zenon DEF SumsInv, Balanced
<1>8. OpenOf(totals) \in Int
  BY OpenIsInt, Zenon DEF SumsInv, Inv
<1>9. /\ OpenOf(totals) \in 0 .. Cardinality(ConnectedTo(k))
      /\ result => OpenOf(totals) <= Cardinality(timedOut \cap (1 .. k))
  BY <1>1, <1>3, Zenon DEF SumsInv, SumsOpen
<1> DEFINE Connected == {p \in 1 .. Clients : pc[p] \notin {"new", "refused", "dead"}}
<1>10. /\ ConnectedTo(k) = Connected \cap (1 .. k)
       /\ ConnectedTo(k + 1) = Connected \cap (1 .. k + 1)
  BY <1>2, <1>4 DEF ConnectedTo
<1>11. /\ Cardinality(ConnectedTo(k)) \in Nat
       /\ Cardinality(ConnectedTo(k + 1))
              = Cardinality(ConnectedTo(k)) + IF k + 1 \in Connected THEN 1 ELSE 0
  BY <1>10, UpToFinite, Zenon
<1>12. pc[at] = "publishing" => k + 1 \in Connected
  BY <1>2, <1>4
<1>13. OpenOf(totals') \in 0 .. Cardinality(ConnectedTo(k + 1))
  <2> HIDE DEF Connected
  <2> QED BY <1>6, <1>7, <1>8, <1>9, <1>11, <1>12
<1>14. result => (pc[at] = "publishing" => k + 1 \in timedOut)
  <2>1. result => Awaited(at)
    BY <1>1, Zenon DEF SumsInv, Inv, Joined
  <2>2. pc[at] = "publishing" => ~Ended(at)
    BY DEF Ended
  <2> QED BY <1>4, <2>1, <2>2, Zenon DEF Awaited
<1>15. /\ Cardinality(timedOut \cap (1 .. k)) \in Nat
       /\ Cardinality(timedOut \cap (1 .. k + 1))
              = Cardinality(timedOut \cap (1 .. k)) + IF k + 1 \in timedOut THEN 1 ELSE 0
  BY UpToFinite, Zenon
<1>16. ASSUME result PROVE OpenOf(totals') <= Cardinality(timedOut \cap (1 .. k + 1))
  <2>1. /\ OpenOf(totals) <= Cardinality(timedOut \cap (1 .. k))
        /\ pc[at] = "publishing" => k + 1 \in timedOut
    BY <1>9, <1>14, <1>16, Zenon
  <2> QED BY <1>6, <1>7, <1>8, <1>15, <2>1
<1>17. ConnectedTo(at - 1)' = ConnectedTo(k + 1)
  BY <1>1, <1>4, Zenon DEF ConnectedTo
<1> QED BY <1>1, <1>4, <1>13, <1>16, <1>17, Zenon DEF SumsOpen

LEMMA SumsStep == SumsInv /\ [Next]_vars => SumsInv'
<1> SUFFICES ASSUME SumsInv, [Next]_vars PROVE SumsInv'
  OBVIOUS
<1>0. Inv'
  BY InvStep, Zenon DEF SumsInv
<1>1. ASSUME UNCHANGED <<pc, stats>> PROVE Balanced'
  BY <1>1, Zenon DEF SumsInv, Balanced
<1>2. CASE \E p \in Publishers : Acts(p)
  <2>1. PICK p \in Publishers : Acts(p)
    BY <1>2, Zenon
  <2>2. UNCHANGED <<main, at, totals, result, timedOut>>
    BY <2>1, ActsStep, Zenon DEF SumsInv, Inv, MainVars
  <2>3. Balanced' /\ \A q \in Publishers : pc[q] \notin {"new", "refused", "dead"}
                                            => pc'[q] \notin {"new", "refused", "dead"}
    BY <2>1, ActsBalance, Zenon DEF SumsInv, Inv
  <2>4. at \in 1 .. Clients + 1 /\ Clients \in Nat
    BY LoadTestAssumption DEF SumsInv, Inv, TypeOK
  <2>5. PICK k \in Nat : k = at - 1 /\ 1 .. k \subseteq Publishers
    BY <2>4 DEF Publishers
  <2> DEFINE T == {q \in 1 .. k : pc'[q] \notin {"new", "refused", "dead"}}
  <2>6. /\ Cardinality(ConnectedTo(k)) \in Nat /\ Cardinality(T) \in Nat
        /\ Cardinality(ConnectedTo(k)) <= Cardinality(T)
    BY <2>3, <2>5, ConnectedGrows, Zenon
  <2>7. ConnectedTo(at - 1)' = T
    BY <2>2, <2>5, Zenon DEF ConnectedTo
  <2>8. main = "summing" =>
            /\ OpenOf(totals) \in 0 .. Cardinality(ConnectedTo(k))
            /\ result => OpenOf(totals) <= Cardinality(timedOut \cap (1 .. at - 1))
    BY <2>5, Zenon DEF SumsInv, SumsOpen
  <2>9. OpenOf(totals) \in 0 .. Cardinality(ConnectedTo(k)) => OpenOf(totals) \in 0 .. Cardinality(T)
    BY <2>6
  <2>10. SumsOpen'
    BY <2>2, <2>7, <2>8, <2>9, Zenon DEF SumsOpen
  <2> QED BY <1>0, <2>3, <2>10, Zenon DEF SumsInv
<1>3. CASE Snapshot
  <2>1. UNCHANGED <<pc, stats>>
    BY <1>3, Zenon DEF Snapshot, PublisherVars
  <2> QED BY <1>0, <1>1, <1>3, <2>1, SnapshotSums, Zenon DEF SumsInv
<1>4. CASE Report \/ LastSums
  <2>1. UNCHANGED <<pc, stats>> /\ at' = 1 /\ totals' = Zero
    BY <1>4, Zenon DEF Report, LastSums, SumUp, PublisherVars
  <2>2. OpenOf(Zero) = 0
    BY DEF OpenOf, Zero, Counters
  <2>3. at' - 1 = 0
    BY <2>1
  <2>4. ConnectedTo(at - 1)' = {} /\ (timedOut \cap (1 .. at - 1))' = {}
    BY <2>3 DEF ConnectedTo
  <2>5. Cardinality({}) = 0 /\ 0 \in 0 .. 0 /\ 0 <= 0
    BY FS_EmptySet
  <2>6. SumsOpen'
    BY <2>1, <2>2, <2>4, <2>5, Zenon DEF SumsOpen
  <2> QED BY <1>0, <1>1, <2>1, <2>6, Zenon DEF SumsInv
<1>5. CASE Prints \/ EndTest \/ Join
  <2>1. UNCHANGED <<pc, stats>> /\ main' # "summing"
    BY <1>5 DEF Prints, EndTest, Join, PublisherVars
  <2> QED BY <1>0, <1>1, <2>1, Zenon DEF SumsInv, SumsOpen
<1>6. CASE Signal \/ UNCHANGED vars
  <2>1. UNCHANGED <<pc, stats, main, at, totals, result, timedOut>>
    BY <1>6, Zenon DEF Signal, PublisherVars, MainVars, vars
  <2>2. SumsOpen'
    BY <2>1, Zenon DEF SumsInv, SumsOpen, ConnectedTo
  <2> QED BY <1>0, <1>1, <2>1, <2>2, Zenon DEF SumsInv
<1> QED BY <1>2, <1>3, <1>4, <1>5, <1>6, Zenon DEF Next, MainStep, Acts

\* The numbers of a printed line belong together for every number of publishers, although
\* they go on while they are summed up: what was attempted was published or has failed, up
\* to one message per connected publisher, and in the result per publisher that join has
\* not waited for.
THEOREM TotalsAlwaysAddUp == Spec => []TotalsAddUp
<1>1. Init => SumsInv
  <2> SUFFICES ASSUME Init PROVE SumsInv
    OBVIOUS
  <2>1. /\ pc = [p \in Publishers |-> "new"] /\ stats = [p \in Publishers |-> Zero]
        /\ main = "running"
    BY Zenon DEF Init
  <2>2. OpenOf(Zero) = 0
    BY DEF OpenOf, Zero, Counters
  <2>3. Balanced
    BY <2>1, <2>2 DEF Balanced
  <2> QED BY <2>1, <2>3, InvInit DEF SumsInv, SumsOpen
<1> QED BY <1>1, SumsStep, SumsAre, PTL DEF Spec

\* Every variable of the load test keeps its type.
THEOREM LoadTestTypesHold == Spec => []TypeOK
<1>1. Inv => TypeOK
  BY DEF Inv
<1> QED BY InvInit, InvStep, <1>1, PTL DEF Spec
===============================================================================
