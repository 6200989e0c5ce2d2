-------------------------- MODULE RuntimeStatsProofs --------------------------
(***************************************************************************)
(* Proofs that the invariants of RuntimeStats hold for every queue, drain, *)
(* clock and number of messages.                                           *)
(***************************************************************************)
EXTENDS RuntimeStats, SequenceTheorems, TLAPS

LEMMA ConstantFacts ==
    /\ NumMessages \in Nat /\ MaxTime \in Nat /\ MaxReconnects \in Nat
    /\ StartTimes \subseteq 0 .. MaxTime
    /\ QueueCapacity \in Nat /\ QueueCapacity >= 1
    /\ DrainBatch \in Nat /\ DrainBatch >= 1
    /\ HealthLogInterval \in Nat /\ DropWarningInterval \in Nat
BY StatsAssumption

-------------------------------------------------------------------------------
(* What a drop warning has told *)

DropTypes == warned \in Nat /\ suppressed \in Nat /\ total \in [Counters -> Nat]

\* Drops and warnings change in LogDrop only, which either tells of all suppressed drops
\* and its own, or suppresses its own.
DropsTold == DropTypes /\ DropsReportedOnce

LEMMA DropsToldInit == Init => DropsTold
BY ConstantFacts DEF Init, DropsTold, DropTypes, DropsReportedOnce, Zero, Counters

LEMMA DropsToldStep == DropsTold /\ [Next]_vars => DropsTold'
<1> SUFFICES ASSUME DropsTold, [Next]_vars PROVE DropsTold'
    OBVIOUS
<1> USE DEF DropsTold, DropTypes, DropsReportedOnce, Counters
<1>1. CASE Put
    BY <1>1 DEF Put
<1>2. CASE ReadDepth
    BY <1>2 DEF ReadDepth, history
<1>3. CASE CountReceived
    BY <1>3 DEF CountReceived, history
<1>4. CASE RaiseHighWater
    BY <1>4 DEF RaiseHighWater, history
<1>5. CASE Full
    BY <1>5 DEF Full
<1>6. CASE LogDrop
    BY <1>6 DEF LogDrop, SuppressedAfter
<1>7. CASE Take
    BY <1>7 DEF Take, history
<1>8. CASE DrainEnds
    BY <1>8 DEF DrainEnds, history
<1>9. CASE RecordWrite
    BY <1>9 DEF RecordWrite
<1>10. CASE WriteFails
    BY <1>10 DEF WriteFails, history
<1>11. CASE Reconnect
    BY <1>11 DEF Reconnect, history
<1>12. CASE HealthBegins
    BY <1>12 DEF HealthBegins, history
<1>13. CASE HealthRaisesHighWater
    BY <1>13 DEF HealthRaisesHighWater, history
<1>14. CASE LogHealth
    BY <1>14 DEF LogHealth
<1>15. CASE Tick
    BY <1>15 DEF Tick, codeVars, history
<1>16. CASE UNCHANGED vars
    BY <1>16 DEF vars, codeVars, history
<1> QED
    BY <1>1, <1>2, <1>3, <1>4, <1>5, <1>6, <1>7, <1>8, <1>9, <1>10, <1>11, <1>12, <1>13,
       <1>14, <1>15, <1>16 DEF Next, NetworkStep, MainStep

\* Every dropped message is told of by exactly one warning or waits to be, for any number
\* of messages and any pace of the clock.
THEOREM EveryDropTold == Spec => []DropsReportedOnce
<1>1. DropsTold => DropsReportedOnce
    BY DEF DropsTold
<1> QED
    BY DropsToldInit, DropsToldStep, <1>1, PTL DEF Spec

-------------------------------------------------------------------------------
(* The times of the messages *)

\* Every message on its way was put on the queue in the past: its lag is not negative.
TimesPast ==
    /\ now \in Nat
    /\ queue \in Seq(Nat) /\ \A i \in 1 .. Len(queue) : queue[i] <= now
    /\ pending \in Seq(Nat) /\ \A i \in 1 .. Len(pending) : pending[i] <= now

LEMMA AppendPast ==
    ASSUME NEW s \in Seq(Nat), NEW t \in Nat, \A i \in 1 .. Len(s) : s[i] <= t,
           NEW e \in Nat, e <= t
    PROVE  /\ Append(s, e) \in Seq(Nat)
           /\ \A i \in 1 .. Len(Append(s, e)) : Append(s, e)[i] <= t
OBVIOUS

LEMMA TailPast ==
    ASSUME NEW s \in Seq(Nat), NEW t \in Nat, \A i \in 1 .. Len(s) : s[i] <= t, s # <<>>
    PROVE  /\ Tail(s) \in Seq(Nat)
           /\ \A i \in 1 .. Len(Tail(s)) : Tail(s)[i] <= t
           /\ Head(s) \in Nat /\ Head(s) <= t
<1>1. /\ Len(s) \in Nat /\ Len(s) >= 1
    OBVIOUS
<1>2. Head(s) = s[1] /\ Head(s) \in Nat
    BY <1>1
<1>3. Tail(s) \in Seq(Nat) /\ Len(Tail(s)) = Len(s) - 1
    OBVIOUS
<1>4. \A i \in 1 .. Len(Tail(s)) : Tail(s)[i] = s[i + 1]
    OBVIOUS
<1> QED
    BY <1>1, <1>2, <1>3, <1>4

LEMMA TimesPastInit == Init => TimesPast
<1> SUFFICES ASSUME Init PROVE TimesPast
    OBVIOUS
<1>1. now \in Nat
    BY ConstantFacts DEF Init
<1>2. <<>> \in Seq(Nat) /\ Len(<<>>) = 0
    OBVIOUS
<1> QED
    BY <1>1, <1>2 DEF Init, TimesPast

\* What the steps of the two threads make of queue, drain and clock.
LEMMA QueueSteps ==
    ASSUME [Next]_vars
    PROVE  \/ UNCHANGED <<now, queue, pending>>
           \/ /\ Len(queue) < QueueCapacity
              /\ queue' = Append(queue, now) /\ UNCHANGED <<now, pending>>
           \/ /\ queue # <<>> /\ queue' = Tail(queue)
              /\ Len(pending) < DrainBatch
              /\ pending' = Append(pending, Head(queue)) /\ UNCHANGED now
           \/ pending # <<>> /\ pending' = Tail(pending) /\ UNCHANGED <<now, queue>>
           \/ pending' = <<>> /\ UNCHANGED <<now, queue>>
           \/ now < MaxTime /\ now' = now + 1 /\ UNCHANGED <<queue, pending>>
BY DEF Next, vars, codeVars, history, NetworkStep, MainStep, Put, ReadDepth, CountReceived,
       RaiseHighWater, Full, LogDrop, Take, DrainEnds, RecordWrite, WriteFails, Reconnect,
       HealthBegins, HealthRaisesHighWater, LogHealth, Tick

LEMMA TimesPastStep == TimesPast /\ [Next]_vars => TimesPast'
<1> SUFFICES ASSUME TimesPast, [Next]_vars PROVE TimesPast'
    OBVIOUS
<1> USE DEF TimesPast
<1>1. CASE UNCHANGED <<now, queue, pending>>
    BY <1>1
<1>2. CASE Len(queue) < QueueCapacity /\ queue' = Append(queue, now) /\ UNCHANGED <<now, pending>>
    BY <1>2, AppendPast
<1>3. CASE /\ queue # <<>> /\ queue' = Tail(queue)
           /\ pending' = Append(pending, Head(queue)) /\ UNCHANGED now
    BY <1>3, AppendPast, TailPast
<1>4. CASE pending # <<>> /\ pending' = Tail(pending) /\ UNCHANGED <<now, queue>>
    BY <1>4, TailPast
<1>5. CASE pending' = <<>> /\ UNCHANGED <<now, queue>>
    BY <1>5
<1>6. CASE now' = now + 1 /\ UNCHANGED <<queue, pending>>
    BY <1>6
<1> QED
    BY <1>1, <1>2, <1>3, <1>4, <1>5, <1>6, QueueSteps

-------------------------------------------------------------------------------
(* The windows of the health lines *)

LEMMA CountedIsLag ==
    ASSUME NEW w \in Lags, NEW t \in Nat
    PROVE  Counted(w, t) \in Lags /\ Counted(w, t).count = w.count + 1
BY DEF Lags, Counted, Larger

LEMMA JoinedIsLag ==
    ASSUME NEW v \in Lags, NEW w \in Lags
    PROVE  Joined(v, w) \in Lags
BY DEF Lags, Joined, Larger

\* A message counted in the current window counts in all windows together.
LEMMA JoinedCounted ==
    ASSUME NEW v \in Lags, NEW w \in Lags, NEW t \in Nat
    PROVE  Joined(v, Counted(w, t)) = Counted(Joined(v, w), t)
BY DEF Lags, Joined, Counted, Larger

\* An empty window adds nothing.
LEMMA JoinedNoLag ==
    ASSUME NEW v \in Lags
    PROVE  NoLag \in Lags /\ Joined(v, NoLag) = v
BY DEF Lags, Joined, NoLag, Larger

WindowTypes ==
    /\ total \in [Counters -> Nat] /\ logged \in [Counters -> Nat]
    /\ said \in [Counters -> Nat]
    /\ lag \in Lags /\ saidLag \in Lags /\ lags \in Lags

\* The counters and windows change in RecordWrite, which adds to the window, to the
\* counter and to the history alike, and in LogHealth, which moves the window over.
WindowsPartition == WindowTypes /\ WindowsAddUp

LEMMA WindowsInit == Init => WindowsPartition
<1> SUFFICES ASSUME Init PROVE WindowsPartition
    OBVIOUS
<1>1. WindowTypes
    BY JoinedNoLag DEF Init, WindowTypes, Zero, Lags, NoLag
<1>2. \A c \in Counters : said[c] + Delta(c) = total[c]
    BY DEF Init, Zero, Delta
<1>3. NoLag \in Lags
    BY DEF NoLag, Lags
<1>4. Joined(saidLag, lag) = lags
    BY <1>3, JoinedNoLag DEF Init
<1>5. lag.count = Delta("written")
    BY DEF Init, NoLag, Zero, Delta, Counters
<1> QED
    BY <1>1, <1>2, <1>4, <1>5 DEF WindowsPartition, WindowsAddUp

\* A counter other than messages_written goes up, or nothing of the windows changes.
OtherCount ==
    /\ \E c \in Counters \ {"written"} : total' \in {total, [total EXCEPT ![c] = @ + 1]}
    /\ UNCHANGED <<logged, lag, said, saidLag, lags>>

LEMMA WindowSteps ==
    ASSUME [Next]_vars
    PROVE  OtherCount \/ RecordWrite \/ LogHealth
<1> USE DEF OtherCount, Counters, history
<1>1. CASE Put
    BY <1>1 DEF Put
<1>2. CASE ReadDepth
    BY <1>2 DEF ReadDepth
<1>3. CASE CountReceived
    BY <1>3 DEF CountReceived
<1>4. CASE RaiseHighWater
    BY <1>4 DEF RaiseHighWater
<1>5. CASE Full
    BY <1>5 DEF Full
<1>6. CASE LogDrop
    BY <1>6 DEF LogDrop
<1>7. CASE Take
    BY <1>7 DEF Take
<1>8. CASE DrainEnds
    BY <1>8 DEF DrainEnds
<1>9. CASE WriteFails
    BY <1>9 DEF WriteFails
<1>10. CASE Reconnect
    BY <1>10 DEF Reconnect
<1>11. CASE HealthBegins
    BY <1>11 DEF HealthBegins
<1>12. CASE HealthRaisesHighWater
    BY <1>12 DEF HealthRaisesHighWater
<1>13. CASE Tick
    BY <1>13 DEF Tick, codeVars
<1>14. CASE UNCHANGED vars
    BY <1>14 DEF vars, codeVars
<1> QED
    BY <1>1, <1>2, <1>3, <1>4, <1>5, <1>6, <1>7, <1>8, <1>9, <1>10, <1>11, <1>12, <1>13,
       <1>14 DEF Next, NetworkStep, MainStep

LEMMA WindowsStep == TimesPast /\ WindowsPartition /\ [Next]_vars => WindowsPartition'
<1> SUFFICES ASSUME TimesPast, WindowsPartition, [Next]_vars PROVE WindowsPartition'
    OBVIOUS
<1> USE DEF WindowsPartition
<1>1. CASE OtherCount
  <2>1. PICK c \in Counters \ {"written"} :
            total' \in {total, [total EXCEPT ![c] = @ + 1]}
    BY <1>1 DEF OtherCount
  <2>2. UNCHANGED <<logged, lag, said, saidLag, lags>>
    BY <1>1 DEF OtherCount
  <2>3. WindowTypes'
    BY <2>1, <2>2 DEF WindowTypes
  <2>4. \A d \in Counters : said'[d] + (total'[d] - logged'[d]) = total'[d]
    BY <2>1, <2>2 DEF WindowTypes, WindowsAddUp, Delta
  <2>5. lag'.count = total'["written"] - logged'["written"]
    BY <2>1, <2>2 DEF WindowTypes, WindowsAddUp, Delta, Counters
  <2>6. Joined(saidLag, lag)' = lags'
    BY <2>2 DEF WindowsAddUp
  <2> QED
    BY <2>3, <2>4, <2>5, <2>6 DEF WindowsAddUp, Delta
<1>2. CASE RecordWrite
  <2> DEFINE t == now - Head(pending)
  <2>1. t \in Nat /\ Larger(0, t) = t
    <3>1. pending # <<>>
        BY <1>2 DEF RecordWrite
    <3>2. /\ now \in Nat /\ pending \in Seq(Nat)
          /\ \A i \in 1 .. Len(pending) : pending[i] <= now
        BY DEF TimesPast
    <3>3. Head(pending) \in Nat /\ Head(pending) <= now
        BY ONLY <3>1, <3>2, TailPast
    <3>4. t \in Nat
        BY <3>2, <3>3
    <3> QED
        BY <3>4 DEF Larger
  <2>2. /\ total' = [total EXCEPT !["written"] = @ + 1]
        /\ lag' = Counted(lag, t) /\ lags' = Counted(lags, t)
        /\ UNCHANGED <<logged, said, saidLag>>
    BY <1>2, <2>1 DEF RecordWrite
  <2> HIDE DEF t
  <2>3. lag' \in Lags /\ lags' \in Lags /\ lag'.count = lag.count + 1
    BY <2>1, <2>2, CountedIsLag DEF WindowTypes
  <2>4. WindowTypes'
    BY <2>2, <2>3 DEF WindowTypes, Counters
  <2>5. \A d \in Counters : said'[d] + (total'[d] - logged'[d]) = total'[d]
    BY <2>2 DEF WindowTypes, WindowsAddUp, Delta
  <2>6. Joined(saidLag, lag)' = lags'
    BY <2>1, <2>2, JoinedCounted DEF WindowTypes, WindowsAddUp
  <2>7. lag'.count = total'["written"] - logged'["written"]
    BY <2>2, <2>3 DEF WindowTypes, WindowsAddUp, Delta, Counters, Lags
  <2> QED
    BY <2>4, <2>5, <2>6, <2>7 DEF WindowsAddUp, Delta
<1>3. CASE LogHealth
  <2>0. UNCHANGED <<total, lags>>
    BY <1>3 DEF LogHealth
  <2>1. CASE UNCHANGED <<said, saidLag, logged, lag>>
    BY <2>0, <2>1 DEF WindowTypes, WindowsAddUp, Delta
  <2>2. CASE /\ said' = [c \in Counters |-> said[c] + Delta(c)]
             /\ saidLag' = Joined(saidLag, lag)
             /\ logged' = total /\ lag' = NoLag
    <3>1. \A c \in Counters : said'[c] = total[c]
        BY <2>2 DEF WindowsAddUp
    <3>2. said' = [c \in Counters |-> said'[c]]
        BY <2>2
    <3>3. saidLag' = lags /\ NoLag \in Lags
        BY <2>2, JoinedNoLag DEF WindowTypes, WindowsAddUp
    <3>4. WindowTypes'
        BY <2>0, <2>2, <3>1, <3>2, <3>3 DEF WindowTypes
    <3>5. \A d \in Counters : said'[d] + (total'[d] - logged'[d]) = total'[d]
        BY <2>0, <2>2, <3>1 DEF WindowTypes
    <3>6. Joined(saidLag, lag)' = lags'
        BY <2>0, <2>2, <3>3, JoinedNoLag DEF WindowTypes
    <3>7. lag'.count = total'["written"] - logged'["written"]
        BY <2>0, <2>2 DEF WindowTypes, NoLag, Counters
    <3> QED
        BY <3>4, <3>5, <3>6, <3>7 DEF WindowsAddUp, Delta
  <2> QED
    BY <1>3, <2>1, <2>2 DEF LogHealth, LagAfterLog
<1> QED
    BY <1>1, <1>2, <1>3, WindowSteps

\* Health lines and current window partition the counters and the lags of all messages
\* written, whatever the threads interleave and however often a line is logged.
THEOREM WindowsPartitioned == Spec => []WindowsAddUp
<1> DEFINE IInv == TimesPast /\ WindowsPartition
<1>1. Init => IInv
    BY TimesPastInit, WindowsInit
<1>2. IInv /\ [Next]_vars => IInv'
    BY TimesPastStep, WindowsStep
<1>3. IInv => WindowsAddUp
    BY DEF WindowsPartition
<1> QED
    BY <1>1, <1>2, <1>3, PTL DEF Spec

-------------------------------------------------------------------------------
(* The high-water mark *)

NetworkPlaces == {"idle", "stored", "sized", "counted", "full"}
MainPlaces    == {"get", "drain", "write", "connect", "health", "summary"}

\* Only on_message puts messages on the queue, and it does one at a time: between its put
\* and its update of the mark the queue only shrinks, so that the depth it has read is at
\* least the present one.
DepthTypes ==
    /\ Len(queue) \in Nat /\ queue \in Seq(Nat)
    /\ network \in [at : NetworkPlaces, depth : Nat, time : Nat]
    /\ main \in [at : MainPlaces, depth : Nat, time : Nat]
    /\ highWater \in Nat /\ deepest \in Nat

DepthRead ==
    /\ Len(queue) <= deepest
    /\ network.depth <= deepest
    /\ main.depth <= deepest
    /\ network.at \in {"sized", "counted"} => Len(queue) <= network.depth

MarkTrue == DepthTypes /\ DepthRead /\ HighWaterTrue

LEMMA MarkTrueInit == Init => MarkTrue
<1> SUFFICES ASSUME Init PROVE MarkTrue
    OBVIOUS
<1>1. queue = <<>> /\ Len(<<>>) = 0 /\ <<>> \in Seq(Nat)
    BY DEF Init
<1> QED
    BY <1>1, ConstantFacts DEF Init, MarkTrue, DepthTypes, DepthRead, HighWaterTrue, NetworkPlaces, MainPlaces

LEMMA MarkTrueStep == now \in Nat /\ MarkTrue /\ [Next]_vars => MarkTrue'
<1> SUFFICES ASSUME now \in Nat, MarkTrue, [Next]_vars PROVE MarkTrue'
    OBVIOUS
<1> USE DEF MarkTrue, DepthTypes, DepthRead, HighWaterTrue, NetworkPlaces, MainPlaces
<1>1. CASE Put
  <2>1. /\ Append(queue, now) \in Seq(Nat)
        /\ Len(Append(queue, now)) = Len(queue) + 1
    OBVIOUS
  <2> QED
    BY <1>1, <2>1 DEF Put, NetworkGoes, Larger
<1>2. CASE ReadDepth
    BY <1>2 DEF ReadDepth, NetworkGoes, DepthSeen, history
<1>3. CASE CountReceived
    BY <1>3 DEF CountReceived, history
<1>4. CASE RaiseHighWater
    BY <1>4 DEF RaiseHighWater, NetworkGoes, Larger, history
<1>5. CASE Full
    BY <1>5 DEF Full, NetworkGoes
<1>6. CASE LogDrop
    BY <1>6 DEF LogDrop, NetworkGoes
<1>7. CASE Take
  <2>1. Tail(queue) \in Seq(Nat) /\ Len(Tail(queue)) <= Len(queue) /\ Len(Tail(queue)) \in Nat
    BY <1>7 DEF Take
  <2>2. queue' = Tail(queue) /\ UNCHANGED <<network, highWater, deepest>>
    BY <1>7 DEF Take, history
  <2>3. main' = [main EXCEPT !.at = "drain"]
    BY <1>7 DEF Take, MainGoes
  <2>4. main' \in [at : MainPlaces, depth : Nat, time : Nat] /\ main'.depth = main.depth
    BY <2>3
  <2>5. queue' \in Seq(Nat) /\ Len(queue') <= Len(queue) /\ Len(queue') \in Nat
    BY <2>1, <2>2
  <2> HIDE DEF NetworkPlaces, MainPlaces
  <2>6. DepthTypes'
    BY <2>2, <2>4, <2>5
  <2>7. network.depth \in Nat /\ main.depth \in Nat
    OBVIOUS
  <2> QED
    BY <2>2, <2>4, <2>5, <2>6, <2>7
<1>8. CASE DrainEnds
    BY <1>8 DEF DrainEnds, MainGoes, history
<1>9. CASE RecordWrite
    BY <1>9 DEF RecordWrite
<1>10. CASE WriteFails
    BY <1>10 DEF WriteFails, MainGoes, history
<1>11. CASE Reconnect
    BY <1>11 DEF Reconnect, MainGoes, history
<1>12. CASE HealthBegins
    BY <1>12 DEF HealthBegins, history
<1>13. CASE HealthRaisesHighWater
    BY <1>13 DEF HealthRaisesHighWater, MainGoes, Larger, history
<1>14. CASE LogHealth
    BY <1>14 DEF LogHealth
<1>15. CASE Tick
    BY <1>15 DEF Tick, codeVars, history
<1>16. CASE UNCHANGED vars
    BY <1>16 DEF vars, codeVars, history
<1> QED
    BY <1>1, <1>2, <1>3, <1>4, <1>5, <1>6, <1>7, <1>8, <1>9, <1>10, <1>11, <1>12, <1>13,
       <1>14, <1>15, <1>16 DEF Next, NetworkStep, MainStep

\* The high-water mark is true for every capacity of the queue, although both threads
\* measure the depth without holding the lock.
THEOREM MarkAlwaysTrue == Spec => []HighWaterTrue
<1> DEFINE IInv == TimesPast /\ MarkTrue
<1>1. Init => IInv
    BY TimesPastInit, MarkTrueInit
<1>2. IInv /\ [Next]_vars => IInv'
    BY TimesPastStep, MarkTrueStep DEF TimesPast
<1>3. IInv => HighWaterTrue
    BY DEF MarkTrue
<1> QED
    BY <1>1, <1>2, <1>3, PTL DEF Spec

-------------------------------------------------------------------------------
(* Types *)

Times == 0 .. MaxTime

QueueTypes ==
    /\ now \in Times
    /\ queue \in Seq(Times) /\ Len(queue) <= QueueCapacity
    /\ pending \in Seq(Times) /\ Len(pending) <= DrainBatch

LEMMA AppendTail ==
    ASSUME NEW S, NEW s \in Seq(S)
    PROVE  /\ \A e \in S : Append(s, e) \in Seq(S) /\ Len(Append(s, e)) = Len(s) + 1
           /\ s # <<>> => Tail(s) \in Seq(S) /\ Len(Tail(s)) = Len(s) - 1 /\ Head(s) \in S
           /\ <<>> \in Seq(S) /\ Len(<<>>) = 0
           /\ Len(s) \in Nat
OBVIOUS

LEMMA QueueTypesStep == QueueTypes /\ [Next]_vars => QueueTypes'
<1> SUFFICES ASSUME QueueTypes, [Next]_vars PROVE QueueTypes'
    OBVIOUS
<1> USE DEF QueueTypes
<1>1. CASE UNCHANGED <<now, queue, pending>>
    BY <1>1
<1>2. CASE Len(queue) < QueueCapacity /\ queue' = Append(queue, now) /\ UNCHANGED <<now, pending>>
    BY <1>2, AppendTail, ConstantFacts
<1>3. CASE /\ queue # <<>> /\ queue' = Tail(queue) /\ Len(pending) < DrainBatch
           /\ pending' = Append(pending, Head(queue)) /\ UNCHANGED now
    BY <1>3, AppendTail, ConstantFacts
<1>4. CASE pending # <<>> /\ pending' = Tail(pending) /\ UNCHANGED <<now, queue>>
    BY <1>4, AppendTail, ConstantFacts
<1>5. CASE pending' = <<>> /\ UNCHANGED <<now, queue>>
    BY <1>5, AppendTail, ConstantFacts
<1>6. CASE now < MaxTime /\ now' = now + 1 /\ UNCHANGED <<queue, pending>>
    BY <1>6, ConstantFacts DEF Times
<1> QED
    BY <1>1, <1>2, <1>3, <1>4, <1>5, <1>6, QueueSteps

Depths == 0 .. QueueCapacity

PlaceTypes ==
    /\ network \in [at : NetworkPlaces, depth : Depths, time : Times]
    /\ main \in [at : MainPlaces, depth : Depths, time : Times]
    /\ highWater \in Depths /\ deepest \in Depths
    /\ lastHealthLog \in Times /\ lastDropWarning \in Times
    /\ warnedAt \in {Never} \cup Times
    /\ arrived \in 0 .. NumMessages

LEMMA PlaceTypesStep == QueueTypes /\ QueueTypes' /\ PlaceTypes /\ [Next]_vars => PlaceTypes'
<1> SUFFICES ASSUME QueueTypes, QueueTypes', PlaceTypes, [Next]_vars PROVE PlaceTypes'
    OBVIOUS
<1>0. /\ Len(queue) \in Depths /\ Len(queue') \in Depths /\ now \in Times
      /\ 0 \in Times /\ 0 \in Depths
    BY AppendTail, ConstantFacts DEF QueueTypes, Depths, Times
<1>a. \A a, b \in Depths : Larger(a, b) \in Depths
    BY DEF Larger
<1>b. NumMessages \in Nat
    BY ConstantFacts
<1> HIDE DEF Depths, Times
<1> USE DEF PlaceTypes, NetworkPlaces, MainPlaces, NetworkGoes, MainGoes, history
<1>1. CASE Put
    BY <1>0, <1>a, <1>b, <1>1 DEF Put
<1>2. CASE ReadDepth
    BY <1>0, <1>2 DEF ReadDepth, DepthSeen
<1>3. CASE CountReceived
    BY <1>3 DEF CountReceived
<1>4. CASE RaiseHighWater
    BY <1>0, <1>a, <1>4 DEF RaiseHighWater
<1>5. CASE Full
    BY <1>0, <1>b, <1>5 DEF Full
<1>6. CASE LogDrop
    BY <1>0, <1>6 DEF LogDrop
<1>7. CASE Take
    BY <1>7 DEF Take
<1>8. CASE DrainEnds
    BY <1>8 DEF DrainEnds
<1>9. CASE RecordWrite
    BY <1>9 DEF RecordWrite
<1>10. CASE WriteFails
    BY <1>10 DEF WriteFails
<1>11. CASE Reconnect
    BY <1>11 DEF Reconnect
<1>12. CASE HealthBegins
    BY <1>0, <1>12 DEF HealthBegins
<1>13. CASE HealthRaisesHighWater
    BY <1>a, <1>13 DEF HealthRaisesHighWater
<1>14. CASE LogHealth
    BY <1>0, <1>14 DEF LogHealth
<1>15. CASE Tick
    BY <1>15 DEF Tick, codeVars
<1>16. CASE UNCHANGED vars
    BY <1>16 DEF vars, codeVars
<1> QED
    BY <1>1, <1>2, <1>3, <1>4, <1>5, <1>6, <1>7, <1>8, <1>9, <1>10, <1>11, <1>12, <1>13,
       <1>14, <1>15, <1>16 DEF Next, NetworkStep, MainStep

LEMMA TypesInit == Init => QueueTypes /\ PlaceTypes
<1> SUFFICES ASSUME Init PROVE QueueTypes /\ PlaceTypes
    OBVIOUS
<1>1. QueueTypes
    BY AppendTail, ConstantFacts DEF Init, QueueTypes, Times
<1>2. PlaceTypes
    BY ConstantFacts DEF Init, PlaceTypes, NetworkPlaces, MainPlaces, Depths, Times
<1> QED
    BY <1>1, <1>2

\* Every variable of the statistics keeps its type, for all values of the constants.
THEOREM StatsTypeCorrect == Spec => []TypeOK
<1> DEFINE IInv == TimesPast /\ WindowsPartition /\ DropsTold /\ QueueTypes /\ PlaceTypes
<1>1. Init => IInv
    BY TimesPastInit, WindowsInit, DropsToldInit, TypesInit
<1>2. IInv /\ [Next]_vars => IInv'
    BY TimesPastStep, WindowsStep, DropsToldStep, QueueTypesStep, PlaceTypesStep
<1>3. IInv => TypeOK
    BY DEF TypeOK, WindowsPartition, WindowTypes, DropsTold, DropTypes, QueueTypes, PlaceTypes,
           Times, Depths, NetworkPlaces, MainPlaces
<1> QED
    BY <1>1, <1>2, <1>3, PTL DEF Spec

-------------------------------------------------------------------------------
(* The pace of the warnings *)

\* The code's time of the last warning is its real time, or the boot of the machine.
PaceKnown == lastDropWarning = IF warnedAt = Never THEN 0 ELSE warnedAt

LEMMA PaceKnownStep == PlaceTypes /\ PaceKnown /\ [Next]_vars => PaceKnown'
<1> SUFFICES ASSUME PlaceTypes, PaceKnown, [Next]_vars PROVE PaceKnown'
    OBVIOUS
<1>1. CASE UNCHANGED <<lastDropWarning, warnedAt>>
    BY <1>1 DEF PaceKnown
<1>2. CASE lastDropWarning' = network.time /\ warnedAt' = network.time
  <2>1. network.time \in Nat
    BY ConstantFacts DEF PlaceTypes, Times
  <2> QED
    BY <1>2, <2>1 DEF PaceKnown, Never
<1> QED
    BY <1>1, <1>2
       DEF Next, vars, codeVars, history, NetworkStep, MainStep, Put, ReadDepth, CountReceived,
           RaiseHighWater, Full, LogDrop, Take, DrainEnds, RecordWrite, WriteFails, Reconnect,
           HealthBegins, HealthRaisesHighWater, LogHealth, Tick

\* What WarningsPaced demands of a step.
KeepsPace ==
    LogDrop =>
        IF warned' # warned
        THEN warnedAt = Never \/ warnedAt' - warnedAt >= DropWarningInterval
        ELSE network.time - Larger(warnedAt, 0) < DropWarningInterval

LEMMA DropKeepsPace == PlaceTypes /\ DropsTold /\ PaceKnown => KeepsPace
<1> SUFFICES ASSUME PlaceTypes, DropsTold, PaceKnown, LogDrop PROVE KeepsPace
    BY DEF KeepsPace
<1>1. /\ warned \in Nat /\ suppressed \in Nat
      /\ warned' = IF ShouldWarn THEN warned + 1 + suppressed ELSE warned
      /\ warnedAt' = IF ShouldWarn THEN network.time ELSE warnedAt
    BY DEF LogDrop, DropsTold, DropTypes
<1>2. /\ network.time \in Nat /\ lastDropWarning \in Nat
      /\ warnedAt = Never \/ warnedAt \in Nat
    BY ConstantFacts DEF PlaceTypes, Times
<1>3. CASE ShouldWarn
  <2>1. warned' # warned /\ warnedAt' = network.time
    BY <1>1, <1>3
  <2>2. warnedAt = Never \/ lastDropWarning = warnedAt
    BY DEF PaceKnown
  <2>3. warnedAt = Never \/ warnedAt' - warnedAt >= DropWarningInterval
    BY <1>2, <1>3, <2>1, <2>2 DEF ShouldWarn
  <2> QED
    BY <2>1, <2>3, Zenon DEF KeepsPace
<1>4. CASE ~ShouldWarn
  <2>1. warned' = warned
    BY <1>1, <1>4
  <2>2. Larger(warnedAt, 0) = lastDropWarning
    BY <1>2 DEF PaceKnown, Larger, Never
  <2>3. network.time - lastDropWarning < DropWarningInterval
    BY <1>2, <1>4, ConstantFacts DEF ShouldWarn
  <2> QED
    BY <2>1, <2>2, <2>3, Zenon DEF KeepsPace
<1> QED
    BY <1>3, <1>4, Zenon

\* Two warnings are an interval apart, and a drop goes without one only if the last one or
\* the boot is less than that ago, for every interval and any pace of the clock.
THEOREM WarningsAlwaysPaced == Spec => WarningsPaced
<1> DEFINE IInv == QueueTypes /\ PlaceTypes /\ DropsTold /\ PaceKnown
<1>1. Init => IInv
    BY TypesInit, DropsToldInit DEF Init, PaceKnown, Never
<1>2. IInv /\ [Next]_vars => IInv'
    BY QueueTypesStep, PlaceTypesStep, DropsToldStep, PaceKnownStep
<1>3. IInv /\ [Next]_vars => [KeepsPace]_vars
    BY DropKeepsPace
<1> QED
    BY <1>1, <1>2, <1>3, PTL DEF Spec, WarningsPaced, KeepsPace
===============================================================================
