------------------------ MODULE HecBatchWriterProofs ------------------------
(***************************************************************************)
(* Proofs about HecBatchWriter, for every number and size of events and    *)
(* every setting of the writer.                                            *)
(***************************************************************************)
EXTENDS HecBatchWriter, SequenceTheorems, FiniteSetTheorems, NaturalsInduction, TLAPS

\* Where a call can be: a line waits in arg only while write pre-flushes, a call in
\* progress has a batch to post or a line to append, and it has taken the buffer over.
Control ==
    /\ arg = <<>> \/ (call = "write" /\ Len(arg) = 1)
    /\ call = "idle" => arg = <<>> /\ batch = <<>>
    /\ call # "idle" => buffer = <<>> /\ (batch # <<>> \/ arg # <<>>)
    /\ buffer = <<>> => bufferBytes = 0

TypeControl == TypeOK /\ Control

LEMMA TypeControlInit == Init => TypeControl
<1> SUFFICES ASSUME Init PROVE TypeControl
    OBVIOUS
<1>1. endpointOk \in BOOLEAN /\ closed \in BOOLEAN
  BY DEF Init
<1>2. DataTypes
  BY SettingsAssumption DEF Init, DataTypes
<1>3. Control
  BY DEF Init, Control
<1> QED BY <1>1, <1>2, <1>3 DEF TypeControl, TypeOK

\* The flags are Boolean after every step: only close and the end of a POST set one.
LEMMA FlagsStep == TypeOK /\ [Next]_vars => endpointOk' \in BOOLEAN /\ closed' \in BOOLEAN
BY Zenon DEF TypeOK, Next, CallerWrites, CallerFlushes, CallerCloses, Write, Flush, Close,
             PostStep, PostSucceeds, PostRetries, PostGivesUp, RequestRejected, BatchLeaves,
             WriteResumes, Tick, vars, codeVars

\* Appending a line, after the pre-flush or without one.
LEMMA AppendLineTypes ==
    ASSUME DataTypes, Control, batch = <<>>, NEW e \in Events, AppendLine(e),
           handed' \in Seq(Events),
           UNCHANGED <<hec, closeCalls, settled, acked, indexed>>
    PROVE  DataTypes' /\ Control'
<1>1. LineBytes[e] \in Nat /\ LineBytes[e] >= 1
  BY EventsAssumption
<1>2. Append(buffer, e) \in Seq(Events) /\ Append(buffer, e) # <<>>
  <2>1. buffer \in Seq(Events)
    BY DEF DataTypes
  <2> QED BY ONLY <2>1, e \in Events, AppendProperties
<1>3. CASE Fills(e)
  <2>1. arg' = <<>> /\ StartPost(Append(buffer, e), bufferBytes + LineBytes[e], "write")
    BY <1>3 DEF AppendLine
  <2>2. DataTypes'
    BY <1>1, <1>2, <2>1, SettingsAssumption DEF StartPost, hec, DataTypes
  <2>3. Control'
    BY <1>2, <2>1 DEF StartPost, Control
  <2> QED BY <2>2, <2>3
<1>4. CASE ~Fills(e)
  <2>1. /\ arg' = <<>> /\ call' = "idle"
        /\ buffer' = Append(buffer, e) /\ bufferBytes' = bufferBytes + LineBytes[e]
        /\ UNCHANGED <<sinceFlush, batch, batchBytes, attempt>>
    BY <1>4 DEF AppendLine
  <2>2. DataTypes'
    BY <1>1, <1>2, <2>1, SMTT(60) DEF hec, DataTypes
  <2>3. Control'
    BY <1>2, <2>1 DEF Control
  <2> QED BY <2>2, <2>3
<1> QED BY <1>3, <1>4

\* The end of a POST, whatever its outcome.
LEMMA BatchLeavesTypes ==
    ASSUME DataTypes, Control, batch # <<>>, BatchLeaves,
           batchesSent' \in Nat, batchesFailed' \in Nat,
           eventsSent' \in Nat, eventsFailed' \in Nat, retries' \in Nat,
           acked' \in SUBSET Events, indexed' \in [Events -> Nat]
    PROVE  DataTypes' /\ Control'
<1>1. /\ batch' = <<>> /\ batchBytes' = 0 /\ attempt' = 0
      /\ settled' = settled \o batch
      /\ call' = IF arg = <<>> THEN "idle" ELSE "write"
      /\ UNCHANGED <<arg, buffer, bufferBytes, sinceFlush, closeCalls, handed>>
  BY DEF BatchLeaves
<1>2. settled' \in Seq(Events)
  BY <1>1, ConcatProperties DEF DataTypes
<1>3. DataTypes'
  <2>1. call' \in {"idle", "write"}
    BY <1>1
  <2>2. batch' \in Seq(Events) /\ batchBytes' \in Nat /\ attempt' \in 0 .. RetryMaxAttempts - 1
    BY <1>1, SettingsAssumption
  <2>3. UNCHANGED <<arg, buffer, bufferBytes, sinceFlush, closeCalls, handed>>
    BY <1>1
  <2> QED BY <1>2, <2>1, <2>2, <2>3 DEF DataTypes
<1>4. Control'
  <2>1. call # "idle" /\ buffer = <<>> /\ bufferBytes = 0
    BY DEF Control
  <2> QED BY <1>1, <2>1 DEF Control
<1> QED BY <1>3, <1>4

LEMMA HecIndexesType == ASSUME DataTypes, HecIndexes PROVE indexed' \in [Events -> Nat]
BY DEF DataTypes, HecIndexes

\* A failed attempt leaves the writer's batch alone, and the index well-typed.
LEMMA AttemptFailsTypes ==
    ASSUME DataTypes, NEW reached \in BOOLEAN, AttemptFails(reached)
    PROVE  indexed' \in [Events -> Nat] /\ acked' \in SUBSET Events /\ batch # <<>>
<1>1. CASE reached
  BY <1>1, HecIndexesType DEF AttemptFails, DataTypes
<1>2. CASE ~reached
  BY <1>2 DEF AttemptFails, DataTypes
<1> QED BY <1>1, <1>2

LEMMA TypeControlStep == TypeControl /\ [Next]_vars => TypeControl'
<1> SUFFICES ASSUME TypeControl, [Next]_vars
             PROVE  DataTypes' /\ Control'
    BY FlagsStep DEF TypeControl, TypeOK
<1>0. DataTypes /\ Control
  BY DEF TypeControl, TypeOK
<1>1. ASSUME NEW e \in Events, Write(e) PROVE DataTypes' /\ Control'
  <2>1. CASE Overflows(e)
    <3>1. handed' \in Seq(Events) /\ <<e>> \in Seq(Events) /\ Len(<<e>>) = 1 /\ <<e>> # <<>>
      BY <1>0, <1>1 DEF Write, DataTypes
    <3>2. arg' = <<e>> /\ StartPost(buffer, bufferBytes, "write") /\ buffer # <<>>
      BY <1>1, <2>1 DEF Write, Overflows
    <3> QED BY <1>0, <1>1, <3>1, <3>2, SettingsAssumption
            DEF Write, StartPost, hec, DataTypes, Control
  <2>2. CASE ~Overflows(e)
    <3>1. batch = <<>> /\ handed' \in Seq(Events) /\ AppendLine(e)
      BY <1>0, <1>1, <2>2 DEF Write, DataTypes, Control
    <3> QED BY <1>0, <1>1, <3>1, AppendLineTypes DEF Write
  <2> QED BY <2>1, <2>2
<1>2. ASSUME NEW force \in BOOLEAN, Flush(force) PROVE DataTypes' /\ Control'
  BY <1>0, <1>2, SettingsAssumption
  DEF Flush, FlushDue, StartPost, historyVars, hec, DataTypes, Control
<1>3. CASE WriteResumes
  <2>1. Head(arg) \in Events
    BY <1>0, <1>3 DEF WriteResumes, DataTypes, Control
  <2> QED BY <1>0, <1>3, <2>1, AppendLineTypes DEF WriteResumes, historyVars, hec, DataTypes
<1>4. CASE PostSucceeds
  <2>1. eventsSent' \in Nat /\ batchesSent' \in Nat
    BY <1>0, <1>4 DEF PostSucceeds, DataTypes
  <2>2. acked' \in SUBSET Events
    BY <1>0, <1>4 DEF PostSucceeds, DataTypes, Range
  <2> QED BY <1>0, <1>4, <2>1, <2>2, HecIndexesType, BatchLeavesTypes
          DEF PostSucceeds, DataTypes
<1>5. ASSUME NEW reached \in BOOLEAN, PostRetries(reached) PROVE DataTypes' /\ Control'
  <2>1. indexed' \in [Events -> Nat] /\ acked' \in SUBSET Events /\ batch # <<>>
    BY <1>0, <1>5, AttemptFailsTypes DEF PostRetries
  <2>2. attempt' \in 0 .. RetryMaxAttempts - 1
    BY <1>0, <1>5, SettingsAssumption DEF PostRetries, AttemptsLeft, DataTypes
  <2> QED BY <1>0, <1>5, <2>1, <2>2, SMTT(60) DEF PostRetries, DataTypes, Control
<1>6. ASSUME NEW reached \in BOOLEAN, PostGivesUp(reached) PROVE DataTypes' /\ Control'
  <2>1. indexed' \in [Events -> Nat] /\ acked' \in SUBSET Events /\ batch # <<>>
    BY <1>0, <1>6, AttemptFailsTypes DEF PostGivesUp
  <2>2. eventsFailed' \in Nat /\ batchesFailed' \in Nat
    BY <1>0, <1>6 DEF PostGivesUp, CountDropped, DataTypes
  <2> QED BY <1>0, <1>6, <2>1, <2>2, BatchLeavesTypes DEF PostGivesUp, DataTypes
<1>7. CASE RequestRejected
  <2>1. batch # <<>> /\ BatchLeaves /\ UNCHANGED <<hec, acked, indexed>>
    BY <1>7 DEF RequestRejected
  <2> QED BY <1>0, <2>1, BatchLeavesTypes DEF hec, DataTypes
<1>8. CASE Close
  <2>1. /\ call = "idle" /\ closeCalls' = closeCalls + 1
        /\ UNCHANGED <<arg, hec, historyVars>>
        /\ \/ buffer # <<>> /\ StartPost(buffer, bufferBytes, "close")
           \/ UNCHANGED <<call, buffer, bufferBytes, sinceFlush, batch, batchBytes, attempt>>
    BY <1>8 DEF Close
  <2>2. DataTypes'
    <3>1. CASE StartPost(buffer, bufferBytes, "close")
      BY <1>0, <2>1, <3>1, SettingsAssumption DEF StartPost, historyVars, hec, DataTypes
    <3>2. CASE UNCHANGED <<call, buffer, bufferBytes, sinceFlush, batch, batchBytes, attempt>>
      BY <1>0, <2>1, <3>2 DEF historyVars, hec, DataTypes
    <3> QED BY <2>1, <3>1, <3>2
  <2>3. Control'
    <3>1. CASE buffer # <<>> /\ StartPost(buffer, bufferBytes, "close")
      BY <1>0, <2>1, <3>1 DEF StartPost, Control
    <3>2. CASE UNCHANGED <<call, buffer, bufferBytes, sinceFlush, batch, batchBytes, attempt>>
      BY <1>0, <2>1, <3>2 DEF Control
    <3> QED BY <2>1, <3>1, <3>2
  <2> QED BY <2>2, <2>3
<1>9. CASE Tick
  BY <1>0, <1>9, SettingsAssumption DEF Tick, historyVars, hec, DataTypes, Control
<1>10. CASE UNCHANGED vars
  BY <1>0, <1>10 DEF vars, codeVars, historyVars, hec, DataTypes, Control
<1>11. CASE CallerWrites
  <2>1. Len(handed) + 1 \in Events
    BY <1>0, <1>11, EventsAssumption DEF CallerWrites, DataTypes, Events
  <2> QED BY <2>1, <1>11, <1>1 DEF CallerWrites
<1> QED
  BY <1>2, <1>3, <1>4, <1>5, <1>6, <1>7, <1>8, <1>9, <1>10, <1>11
  DEF Next, PostStep, CallerFlushes, CallerCloses

LEMMA TypeControlAlways == Spec => []TypeControl
BY TypeControlInit, TypeControlStep, PTL DEF Spec

\* Every variable of the writer always has its type.
THEOREM TypeCorrect == Spec => []TypeOK
<1>1. TypeControl => TypeOK
  BY DEF TypeControl
<1> QED BY <1>1, TypeControlAlways, PTL

-----------------------------------------------------------------------------
(* The limits of a batch *)

LEMMA StepEvent == ASSUME TypeControl, CallerWrites PROVE Len(handed) + 1 \in Events
BY EventsAssumption DEF TypeControl, TypeOK, DataTypes, CallerWrites, Events

\* A line is only appended beside lines it fits with, so neither limit is passed.
LEMMA AppendLineLimits ==
    ASSUME DataTypes, batch = <<>>, NEW e \in Events, AppendLine(e),
           Len(buffer) < BatchMaxEvents,
           buffer # <<>> => bufferBytes + LineBytes[e] <= BatchMaxBytes
    PROVE  WithinLimits'
<1>1. Len(Append(buffer, e)) = Len(buffer) + 1 /\ Len(buffer) \in Nat
  BY DEF DataTypes
<1>2. Len(Append(buffer, e)) > 1 => buffer # <<>>
  BY <1>1
<1>3. CASE Fills(e)
  <2>1. batch' = Append(buffer, e) /\ batchBytes' = bufferBytes + LineBytes[e] /\ call' = "write"
    BY <1>3 DEF AppendLine, StartPost
  <2> QED BY <1>1, <1>2, <2>1, SettingsAssumption DEF WithinLimits
<1>4. CASE ~Fills(e)
  <2>1. /\ Len(buffer) + 1 < BatchMaxEvents
        /\ bufferBytes + LineBytes[e] < BatchMaxBytes
    BY <1>1, <1>4, EventsAssumption, SettingsAssumption DEF Fills, DataTypes
  <2>2. /\ buffer' = Append(buffer, e) /\ bufferBytes' = bufferBytes + LineBytes[e]
        /\ batch' = <<>>
    BY <1>4 DEF AppendLine
  <2> QED BY <1>1, <2>1, <2>2, SettingsAssumption DEF WithinLimits
<1> QED BY <1>3, <1>4

\* Handing the whole buffer over respects the limits, because at rest it is below them.
LEMMA StartPostLimits ==
    ASSUME DataTypes, WithinLimits, call = "idle", NEW caller \in {"write", "flush", "close"},
           StartPost(buffer, bufferBytes, caller)
    PROVE  WithinLimits'
BY SettingsAssumption DEF StartPost, WithinLimits, DataTypes

LEMMA BatchLeavesLimits ==
    ASSUME DataTypes, Control, batch # <<>>, BatchLeaves
    PROVE  WithinLimits'
<1>1. buffer' = <<>> /\ bufferBytes' = 0 /\ batch' = <<>>
  BY DEF BatchLeaves, Control
<1> QED BY <1>1, SettingsAssumption DEF WithinLimits

LEMMA LimitsStep == TypeControl /\ WithinLimits /\ [Next]_vars => WithinLimits'
<1> SUFFICES ASSUME TypeControl, WithinLimits, [Next]_vars
             PROVE  WithinLimits'
    OBVIOUS
<1>0. DataTypes /\ Control
  BY DEF TypeControl, TypeOK
<1>1. ASSUME NEW e \in Events, Write(e) PROVE WithinLimits'
  <2>0. call = "idle" /\ batch = <<>>
    BY <1>0, <1>1 DEF Write, Control
  <2>1. CASE Overflows(e)
    BY <1>0, <1>1, <2>0, <2>1, StartPostLimits DEF Write
  <2>2. CASE ~Overflows(e)
    <3>1. AppendLine(e)
      BY <1>1, <2>2 DEF Write
    <3>2. buffer # <<>> => bufferBytes + LineBytes[e] <= BatchMaxBytes
      BY <1>0, <2>2, EventsAssumption, SettingsAssumption DEF Overflows, DataTypes
    <3>3. Len(buffer) < BatchMaxEvents
      BY <2>0 DEF WithinLimits
    <3> QED BY <1>0, <2>0, <3>1, <3>2, <3>3, AppendLineLimits
  <2> QED BY <2>1, <2>2
<1>2. ASSUME NEW force \in BOOLEAN, Flush(force) PROVE WithinLimits'
  BY <1>0, <1>2, StartPostLimits DEF Flush
<1>3. CASE WriteResumes
  <2>1. batch = <<>> /\ buffer = <<>> /\ Head(arg) \in Events /\ AppendLine(Head(arg))
    BY <1>0, <1>3 DEF WriteResumes, DataTypes, Control
  <2> QED BY <1>0, <2>1, AppendLineLimits, SettingsAssumption
<1>4. CASE PostSucceeds
  BY <1>0, <1>4, BatchLeavesLimits DEF PostSucceeds
<1>5. ASSUME NEW reached \in BOOLEAN, PostRetries(reached) PROVE WithinLimits'
  BY <1>5 DEF PostRetries, WithinLimits
<1>6. ASSUME NEW reached \in BOOLEAN, PostGivesUp(reached) PROVE WithinLimits'
  BY <1>0, <1>6, BatchLeavesLimits DEF PostGivesUp, AttemptFails
<1>7. CASE RequestRejected
  BY <1>0, <1>7, BatchLeavesLimits DEF RequestRejected
<1>8. CASE Close
  <2>1. CASE buffer # <<>> /\ StartPost(buffer, bufferBytes, "close")
    BY <1>0, <1>8, <2>1, StartPostLimits DEF Close
  <2>2. CASE UNCHANGED <<call, buffer, bufferBytes, sinceFlush, batch, batchBytes, attempt>>
    BY <2>2 DEF WithinLimits
  <2> QED BY <1>8, <2>1, <2>2 DEF Close
<1>9. CASE Tick
  BY <1>9 DEF Tick, WithinLimits
<1>10. CASE UNCHANGED vars
  BY <1>10 DEF vars, codeVars, WithinLimits
<1>11. CASE CallerWrites
  BY <1>1, <1>11, StepEvent DEF CallerWrites
<1> QED
  BY <1>2, <1>3, <1>4, <1>5, <1>6, <1>7, <1>8, <1>9, <1>10, <1>11
  DEF Next, PostStep, CallerFlushes, CallerCloses

\* A writer at rest is below both thresholds, and no POST is larger than the limits
\* allow unless it is a single line: write and flush, with the pre-flush, keep both.
THEOREM LimitsHold == Spec => []WithinLimits
<1>1. Init => WithinLimits
  BY SettingsAssumption DEF Init, WithinLimits
<1> QED BY <1>1, LimitsStep, TypeControlAlways, PTL DEF Spec

-----------------------------------------------------------------------------
(* Order: no event is lost, repeated or overtaken inside the writer *)

\* The events accepted and not yet settled, oldest first.
InPipe == batch \o buffer \o arg

LEMMA InPipeType == ASSUME DataTypes PROVE InPipe \in Seq(Events)
BY ConcatProperties DEF DataTypes, InPipe

\* A sequence of length 1 is its head.
LEMMA Singleton ==
    ASSUME NEW S, NEW s \in Seq(S), Len(s) = 1
    PROVE  Head(s) \in S /\ s = <<Head(s)>>
<1>1. Head(s) = s[1] /\ s[1] \in S
  OBVIOUS
<1>2. <<s[1]>> \in Seq(S) /\ Len(<<s[1]>>) = 1 /\ <<s[1]>>[1] = s[1]
  BY <1>1
<1>3. s = <<s[1]>>
  BY <1>2, SeqEqual
<1> QED BY <1>1, <1>3

\* InOrderOnce is about the settled events and the pipe, however one brackets it.
LEMMA OrderOfPipe == DataTypes => (InOrderOnce <=> handed = settled \o InPipe)
<1> SUFFICES ASSUME DataTypes PROVE InOrderOnce <=> handed = settled \o InPipe
    OBVIOUS
<1>1. /\ settled \in Seq(Events) /\ batch \in Seq(Events)
      /\ buffer \in Seq(Events) /\ arg \in Seq(Events)
  BY DEF DataTypes
<1>2. batch \o buffer \in Seq(Events)
  BY ONLY <1>1, ConcatProperties
<1>3. (settled \o batch) \o buffer = settled \o (batch \o buffer)
  BY ONLY <1>1, ConcatAssociative
<1>4. \A s \in Seq(Events) : (settled \o s) \o arg = settled \o (s \o arg)
  BY ONLY <1>1, ConcatAssociative, SMTT(60)
<1>5. (settled \o (batch \o buffer)) \o arg = settled \o ((batch \o buffer) \o arg)
  BY ONLY <1>2, <1>4
<1> QED BY ONLY <1>3, <1>5 DEF InOrderOnce, InPipe

\* Where the appended line goes, once the events before it have left the buffer or not.
LEMMA AppendLinePipe ==
    ASSUME DataTypes, batch = <<>>, NEW e \in Events, AppendLine(e)
    PROVE  InPipe' = Append(buffer, e)
<1>1. Append(buffer, e) \in Seq(Events)
  BY DEF DataTypes
<1>2. /\ Append(buffer, e) \o <<>> = Append(buffer, e)
      /\ <<>> \o Append(buffer, e) = Append(buffer, e)
  BY ONLY <1>1, ConcatEmptySeq
<1>3. \/ batch' = Append(buffer, e) /\ buffer' = <<>> /\ arg' = <<>>
      \/ batch' = <<>> /\ buffer' = Append(buffer, e) /\ arg' = <<>>
  BY DEF AppendLine, StartPost
<1> QED BY <1>2, <1>3 DEF InPipe

\* Handing the buffer over leaves every event in the pipe, before the one in arg.
LEMMA StartPostPipe ==
    ASSUME DataTypes, batch = <<>>, NEW caller, StartPost(buffer, bufferBytes, caller)
    PROVE  InPipe' = buffer \o arg'
<1>1. buffer \o <<>> = buffer
  BY ConcatEmptySeq DEF DataTypes
<1> QED BY <1>1 DEF StartPost, InPipe

\* At rest only the buffer holds events, and during a call it holds none.
LEMMA PipeByCall ==
    ASSUME DataTypes, Control
    PROVE  /\ call = "idle" => InPipe = buffer
           /\ batch = <<>> /\ call # "idle" => InPipe = arg
           /\ batch # <<>> => InPipe = batch \o arg
<1>1. \A s \in Seq(Events) : s \o <<>> = s /\ <<>> \o s = s
  BY ONLY ConcatEmptySeq
<1> QED BY <1>1 DEF DataTypes, Control, InPipe

\* A batch leaves the head of the pipe, and what waited behind it stays.
LEMMA BatchLeavesPipe ==
    ASSUME DataTypes, Control, batch # <<>>, BatchLeaves
    PROVE  /\ InPipe = batch \o InPipe'
           /\ InPipe' = arg
           /\ settled' \o InPipe' = settled \o InPipe
<1>1. batch' = <<>> /\ buffer' = <<>> /\ arg' = arg /\ settled' = settled \o batch
  BY DEF BatchLeaves, Control
<1>2. settled \in Seq(Events) /\ batch \in Seq(Events) /\ arg \in Seq(Events)
  BY DEF DataTypes
<1>3. <<>> \o <<>> = <<>> /\ <<>> \o arg = arg
  BY ONLY <1>2, ConcatEmptySeq, <<>> \in Seq(Events)
<1>4. InPipe' = arg
  BY <1>1, <1>3 DEF InPipe
<1>5. InPipe = batch \o arg
  BY PipeByCall
<1>6. (settled \o batch) \o arg = settled \o (batch \o arg)
  BY ONLY <1>2, ConcatAssociative, SMTT(60)
<1> QED BY <1>1, <1>4, <1>5, <1>6

\* write puts its event at the end of the pipe, whether or not it has to flush first.
LEMMA WritePipe ==
    ASSUME DataTypes, Control, NEW e \in Events, Write(e)
    PROVE  InPipe' = Append(InPipe, e)
<1>1. call = "idle" /\ batch = <<>> /\ InPipe = buffer
  BY PipeByCall DEF Write, Control
<1>2. CASE Overflows(e)
  <2>1. InPipe' = buffer \o <<e>>
    BY <1>1, <1>2, StartPostPipe DEF Write
  <2>2. Append(buffer, e) = buffer \o <<e>>
    BY AppendIsConcat DEF DataTypes
  <2> QED BY <1>1, <2>1, <2>2
<1>3. CASE ~Overflows(e)
  BY <1>1, <1>3, AppendLinePipe DEF Write
<1> QED BY <1>2, <1>3

\* Every other step keeps the pipe as it is, or lets a batch leave it.
LEMMA ResumePipe == ASSUME DataTypes, Control, WriteResumes PROVE InPipe' = InPipe
<1>1. batch = <<>> /\ buffer = <<>> /\ Len(arg) = 1 /\ AppendLine(Head(arg))
  BY DEF WriteResumes, Control
<1>2. Head(arg) \in Events /\ arg = <<Head(arg)>>
  BY <1>1, Singleton DEF DataTypes
<1>3. Append(<<>>, Head(arg)) = <<Head(arg)>>
  <2>1. <<>> \o <<Head(arg)>> = <<Head(arg)>>
    BY ONLY <1>2, ConcatEmptySeq, <<Head(arg)>> \in Seq(Events)
  <2> QED BY ONLY <1>2, <2>1, AppendIsConcat, <<>> \in Seq(Events)
<1>4. InPipe = arg
  BY <1>1, PipeByCall DEF WriteResumes
<1> QED BY <1>1, <1>2, <1>3, <1>4, AppendLinePipe

\* The three ways a step of the writer can look to the pipe.
Enters == /\ handed' = Append(handed, Len(handed) + 1)
          /\ InPipe' = Append(InPipe, Len(handed) + 1)
          /\ Len(handed) + 1 \in Events
          /\ UNCHANGED <<settled, acked>>
Stays  == UNCHANGED <<handed, InPipe, settled, acked>>
Leaves == /\ batch # <<>>
          /\ InPipe = batch \o InPipe'
          /\ settled' = settled \o batch
          /\ settled' \o InPipe' = settled \o InPipe
          /\ acked' = acked \/ acked' = acked \cup Range(batch)
          /\ UNCHANGED handed

LEMMA LeavesWhenSettled ==
    ASSUME DataTypes, Control, batch # <<>>, BatchLeaves,
           acked' = acked \/ acked' = acked \cup Range(batch)
    PROVE  Leaves
BY BatchLeavesPipe DEF BatchLeaves, Leaves

\* Taking the buffer over for a POST outside of write moves no event in the pipe.
LEMMA StaysWhenPosted ==
    ASSUME DataTypes, Control, call = "idle", NEW caller, StartPost(buffer, bufferBytes, caller),
           UNCHANGED <<arg, historyVars>>
    PROVE  Stays
<1>1. batch = <<>> /\ arg' = <<>> /\ InPipe = buffer
  BY PipeByCall DEF Control
<1>2. buffer \o <<>> = buffer
  BY ConcatEmptySeq DEF DataTypes
<1> QED BY <1>1, <1>2, StartPostPipe DEF Stays, historyVars

LEMMA PipeStep == TypeControl /\ [Next]_vars => Enters \/ Stays \/ Leaves
<1> SUFFICES ASSUME TypeControl, [Next]_vars
             PROVE  Enters \/ Stays \/ Leaves
    OBVIOUS
<1>0. DataTypes /\ Control
  BY DEF TypeControl, TypeOK
<1>1. CASE CallerWrites
  <2>1. Len(handed) + 1 \in Events /\ Write(Len(handed) + 1)
    BY <1>1, StepEvent DEF CallerWrites
  <2>2. InPipe' = Append(InPipe, Len(handed) + 1)
    BY <1>0, <2>1, WritePipe
  <2> QED BY <2>1, <2>2 DEF Enters, Write
<1>2. ASSUME NEW force \in BOOLEAN, Flush(force) PROVE Stays
  BY <1>0, <1>2, StaysWhenPosted DEF Flush
<1>3. CASE WriteResumes
  BY <1>0, <1>3, ResumePipe DEF WriteResumes, Stays, historyVars
<1>4. CASE PostSucceeds
  BY <1>0, <1>4, LeavesWhenSettled DEF PostSucceeds
<1>5. ASSUME NEW reached \in BOOLEAN, PostRetries(reached) PROVE Stays
  BY <1>5 DEF PostRetries, AttemptFails, Stays, InPipe
<1>6. ASSUME NEW reached \in BOOLEAN, PostGivesUp(reached) PROVE Leaves
  BY <1>0, <1>6, LeavesWhenSettled DEF PostGivesUp, AttemptFails
<1>7. CASE RequestRejected
  BY <1>0, <1>7, LeavesWhenSettled DEF RequestRejected
<1>8. CASE Close
  <2>1. CASE StartPost(buffer, bufferBytes, "close")
    BY <1>0, <1>8, <2>1, StaysWhenPosted DEF Close, historyVars
  <2>2. CASE UNCHANGED <<call, buffer, bufferBytes, sinceFlush, batch, batchBytes, attempt>>
    BY <1>8, <2>2 DEF Close, historyVars, Stays, InPipe
  <2> QED BY <1>8, <2>1, <2>2 DEF Close
<1>9. CASE Tick
  BY <1>9 DEF Tick, historyVars, Stays, InPipe
<1>10. CASE UNCHANGED vars
  BY <1>10 DEF vars, codeVars, historyVars, Stays, InPipe
<1> QED
  BY <1>1, <1>2, <1>3, <1>4, <1>5, <1>6, <1>7, <1>8, <1>9, <1>10
  DEF Next, PostStep, CallerFlushes, CallerCloses

LEMMA OrderStep == TypeControl /\ TypeControl' /\ InOrderOnce /\ [Next]_vars => InOrderOnce'
<1> SUFFICES ASSUME TypeControl, TypeControl', InOrderOnce, [Next]_vars
             PROVE  InOrderOnce'
    OBVIOUS
<1>0. DataTypes /\ DataTypes'
  BY DEF TypeControl, TypeOK
<1>1. handed = settled \o InPipe /\ settled \in Seq(Events) /\ InPipe \in Seq(Events)
  BY <1>0, OrderOfPipe, InPipeType DEF DataTypes
<1>2. handed' = settled' \o InPipe' => InOrderOnce'
  <2>1. (DataTypes => (InOrderOnce <=> handed = settled \o InPipe))'
    BY OrderOfPipe, PTL
  <2> QED BY <1>0, <2>1
<1>3. CASE Enters
  <2> DEFINE e == Len(handed) + 1
  <2>1. Append(settled \o InPipe, e) = settled \o Append(InPipe, e)
    <3>1. e \in Events /\ <<e>> \in Seq(Events) /\ settled \o InPipe \in Seq(Events)
      BY <1>1, <1>3, ConcatProperties DEF Enters
    <3>2. Append(InPipe, e) = InPipe \o <<e>> /\ Append(settled \o InPipe, e) = (settled \o InPipe) \o <<e>>
      BY ONLY <1>1, <3>1, AppendIsConcat
    <3>3. (settled \o InPipe) \o <<e>> = settled \o (InPipe \o <<e>>)
      BY ONLY <1>1, <3>1, ConcatAssociative
    <3> QED BY ONLY <3>2, <3>3
  <2> QED BY <1>1, <1>2, <1>3, <2>1 DEF Enters
<1>4. CASE Stays
  BY <1>1, <1>2, <1>4 DEF Stays
<1>5. CASE Leaves
  BY <1>1, <1>2, <1>5 DEF Leaves
<1> QED BY <1>3, <1>4, <1>5, PipeStep

\* Every event handed to write is, in order and once, settled or still in the writer,
\* through pre-flushes, threshold flushes, retries and close.
THEOREM OrderKept == Spec => []InOrderOnce
<1>1. Init => InOrderOnce
  BY DEF Init, InOrderOnce
<1> QED BY <1>1, OrderStep, TypeControlAlways, PTL DEF Spec

-----------------------------------------------------------------------------
(* Refinement *)

LEMMA SplitConcat ==
    ASSUME NEW S, NEW s \in Seq(S), NEW t \in Seq(S), s # <<>>
    PROVE  /\ Len(s) \in 1 .. Len(s \o t)
           /\ SubSeq(s \o t, 1, Len(s)) = s
           /\ SubSeq(s \o t, Len(s) + 1, Len(s \o t)) = t
<1>1. Len(s) \in Nat \ {0} /\ Len(t) \in Nat /\ Len(s \o t) = Len(s) + Len(t)
  BY EmptySeq, ConcatProperties, LenProperties
<1>2. SubSeq(s \o t, 1, Len(s)) = s
  BY <1>1, SubSeqOfConcat1, SubSeqFull
<1>3. CASE t = <<>>
  BY <1>1, <1>3, SubSeqEmpty
<1>4. CASE t # <<>>
  <2>1. Len(t) >= 1
    BY <1>1, <1>4, EmptySeq
  <2>2. SubSeq(s \o t, Len(s) + 1, Len(s) + Len(t)) = SubSeq(t, 1, Len(t))
    BY <1>1, <2>1, SubSeqOfConcat2
  <2> QED BY <1>1, <1>2, <2>2, SubSeqFull
<1> QED BY <1>1, <1>2, <1>3, <1>4

\* Each step of the writer is a step of the pipe or leaves the pipe alone.
LEMMA StepRefines == TypeControl /\ TypeControl' /\ [Next]_vars => [Pipe!Accept \/ Pipe!Settle]_(Pipe!vars)
<1> SUFFICES ASSUME TypeControl, TypeControl', [Next]_vars
             PROVE  [Pipe!Accept \/ Pipe!Settle]_(Pipe!vars)
    OBVIOUS
<1>0. DataTypes /\ DataTypes'
  BY DEF TypeControl, TypeOK
<1>1. CASE Enters
  <2>1. Len(handed') = Len(handed) + 1 /\ Len(handed) \in Nat
    BY <1>0, <1>1 DEF Enters, DataTypes
  <2>2. Pipe!Accept
    BY <1>1, <2>1 DEF Enters, InPipe, Pipe!Accept
  <2> QED BY <2>2
<1>2. CASE Stays
  BY <1>2 DEF Stays, InPipe, Pipe!vars
<1>3. CASE Leaves
  <2>1. batch \in Seq(Events) /\ InPipe' \in Seq(Events)
    BY <1>0, ConcatProperties DEF DataTypes, InPipe
  <2>2. /\ Len(batch) \in 1 .. Len(InPipe)
        /\ SubSeq(InPipe, 1, Len(batch)) = batch
        /\ SubSeq(InPipe, Len(batch) + 1, Len(InPipe)) = InPipe'
    BY <1>3, <2>1, SplitConcat DEF Leaves
  <2>3. \E delivered \in BOOLEAN :
           acked' = IF delivered THEN acked \cup Range(batch) ELSE acked
    BY <1>3 DEF Leaves
  <2>4. settled' = settled \o batch /\ Len(handed') = Len(handed)
    BY <1>3 DEF Leaves
  <2>5. PICK delivered \in BOOLEAN :
           acked' = IF delivered THEN acked \cup Range(batch) ELSE acked
    BY <2>3
  <2> DEFINE group == SubSeq(InPipe, 1, Len(batch))
  <2>6. /\ InPipe' = SubSeq(InPipe, Len(batch) + 1, Len(InPipe))
        /\ settled' = settled \o group
        /\ acked' = IF delivered THEN acked \cup Pipe!Range(group) ELSE acked
    BY <2>2, <2>4, <2>5 DEF Range, Pipe!Range
  <2>7. \E n \in 1 .. Len(InPipe), d \in BOOLEAN :
           /\ InPipe' = SubSeq(InPipe, n + 1, Len(InPipe))
           /\ settled' = settled \o SubSeq(InPipe, 1, n)
           /\ acked' = IF d THEN acked \cup Pipe!Range(SubSeq(InPipe, 1, n)) ELSE acked
    <3> USE <2>2
    <3> WITNESS Len(batch) \in 1 .. Len(InPipe), delivered \in BOOLEAN
    <3> QED BY <2>6
  <2>8. Pipe!Settle
    BY <2>4, <2>7, Zenon DEF InPipe, Pipe!Settle
  <2> QED BY <2>8
<1> QED BY <1>1, <1>2, <1>3, PipeStep

\* The buffering, retrying writer implements the lossless event pipe.
THEOREM Refinement == Spec => ImplementsPipe
<1>1. Init => Pipe!Init
  BY DEF Init, Pipe!Init
<1> QED BY <1>1, StepRefines, TypeControlAlways, PTL DEF Spec, ImplementsPipe, Pipe!Spec

-----------------------------------------------------------------------------
(* Accounts: attempts, copies in the index, the close summary *)

\* The pipe holds the events that follow the settled ones, without a gap.
Consecutive ==
    /\ Len(handed) = Len(settled) + Len(InPipe)
    /\ \A i \in 1 .. Len(InPipe) : InPipe[i] = Len(settled) + i

LEMMA ConsecutiveStep == TypeControl /\ TypeControl' /\ Consecutive /\ [Next]_vars => Consecutive'
<1> SUFFICES ASSUME TypeControl, TypeControl', Consecutive, [Next]_vars
             PROVE  Consecutive'
    OBVIOUS
<1>0. DataTypes /\ DataTypes'
  BY DEF TypeControl, TypeOK
<1>1. /\ handed \in Seq(Events) /\ settled \in Seq(Events) /\ batch \in Seq(Events)
      /\ InPipe \in Seq(Events) /\ InPipe' \in Seq(Events)
  <2>1. (DataTypes => InPipe \in Seq(Events))'
    BY InPipeType, PTL
  <2> QED BY <1>0, <2>1, InPipeType DEF DataTypes
<1>2. CASE Enters
  <2>1. /\ handed' = Append(handed, Len(handed) + 1)
        /\ InPipe' = Append(InPipe, Len(handed) + 1) /\ settled' = settled
    BY <1>2 DEF Enters
  <2>2. Len(handed') = Len(handed) + 1 /\ Len(InPipe') = Len(InPipe) + 1
    BY ONLY <1>1, <2>1
  <2>3. \A i \in 1 .. Len(InPipe') :
           InPipe'[i] = IF i = Len(InPipe) + 1 THEN Len(handed) + 1 ELSE InPipe[i]
    BY ONLY <1>1, <2>1, <2>2
  <2>4. /\ Len(handed) \in Nat /\ Len(settled) \in Nat /\ Len(InPipe) \in Nat
        /\ Len(handed) = Len(settled) + Len(InPipe)
        /\ \A i \in 1 .. Len(InPipe) : InPipe[i] = Len(settled) + i
    BY <1>1, LenProperties DEF Consecutive
  <2>5. Len(handed') = Len(settled') + Len(InPipe')
    BY ONLY <2>1, <2>2, <2>4
  <2>6. ASSUME NEW i \in 1 .. Len(InPipe') PROVE InPipe'[i] = Len(settled') + i
    <3>1. CASE i = Len(InPipe) + 1
      <4>1. InPipe'[i] = Len(handed) + 1
        BY <2>3, <3>1
      <4> QED BY ONLY <2>1, <2>4, <3>1, <4>1
    <3>2. CASE i # Len(InPipe) + 1
      <4>1. i \in 1 .. Len(InPipe) /\ InPipe'[i] = InPipe[i]
        BY <2>2, <2>3, <2>4, <3>2
      <4> QED BY ONLY <2>1, <2>4, <4>1
    <3> QED BY <3>1, <3>2
  <2> QED BY <2>5, <2>6 DEF Consecutive
<1>3. CASE Stays
  BY <1>3 DEF Stays, Consecutive
<1>4. CASE Leaves
  <2>1. InPipe = batch \o InPipe' /\ settled' = settled \o batch /\ handed' = handed
    BY <1>4 DEF Leaves
  <2>2. /\ Len(InPipe) = Len(batch) + Len(InPipe') /\ Len(settled') = Len(settled) + Len(batch)
        /\ \A i \in 1 .. Len(InPipe') : InPipe'[i] = InPipe[Len(batch) + i]
    BY ONLY <1>1, <2>1
  <2>3. /\ Len(batch) \in Nat /\ Len(settled) \in Nat /\ Len(InPipe') \in Nat
        /\ Len(handed) = Len(settled) + Len(InPipe)
        /\ \A i \in 1 .. Len(InPipe) : InPipe[i] = Len(settled) + i
    BY <1>1, LenProperties DEF Consecutive
  <2>4. Len(handed') = Len(settled') + Len(InPipe')
    BY ONLY <2>1, <2>2, <2>3
  <2>5. \A i \in 1 .. Len(InPipe') : InPipe'[i] = Len(settled') + i
    BY ONLY <2>2, <2>3
  <2> QED BY <2>4, <2>5 DEF Consecutive
<1> QED BY <1>2, <1>3, <1>4, PipeStep

\* So the batch being posted is the next run of events, and the others are behind it.
LEMMA BatchIsNext ==
    ASSUME DataTypes, Consecutive
    PROVE  /\ Range(batch) = Len(settled) + 1 .. Len(settled) + Len(batch)
           /\ \A e \in Range(buffer \o arg) : e > Len(settled) + Len(batch)
<1>1. settled \in Seq(Events) /\ batch \in Seq(Events) /\ buffer \in Seq(Events) /\ arg \in Seq(Events)
  BY DEF DataTypes
<1>2. buffer \o arg \in Seq(Events)
  BY ONLY <1>1, ConcatProperties
<1>3. InPipe = batch \o (buffer \o arg)
  BY ONLY <1>1, ConcatAssociative, SMTT(60) DEF InPipe
<1>4. /\ Len(InPipe) = Len(batch) + Len(buffer \o arg)
      /\ \A i \in 1 .. Len(batch) : InPipe[i] = batch[i]
      /\ \A i \in 1 .. Len(buffer \o arg) : InPipe[Len(batch) + i] = (buffer \o arg)[i]
  BY ONLY <1>1, <1>2, <1>3
<1>5. \A i \in 1 .. Len(batch) : batch[i] = Len(settled) + i
  BY <1>1, <1>2, <1>4 DEF Consecutive
<1>6. Range(batch) = Len(settled) + 1 .. Len(settled) + Len(batch)
  <2>1. Range(batch) = {batch[i] : i \in 1 .. Len(batch)}
    BY <1>1 DEF Range
  <2>2. \A e \in Len(settled) + 1 .. Len(settled) + Len(batch) :
           e - Len(settled) \in 1 .. Len(batch) /\ batch[e - Len(settled)] = e
    BY <1>1, <1>5
  <2>3. \A i \in 1 .. Len(batch) : batch[i] \in Len(settled) + 1 .. Len(settled) + Len(batch)
    BY <1>1, <1>5
  <2> QED BY <2>1, <2>2, <2>3, Zenon
<1>7. \A i \in 1 .. Len(buffer \o arg) : (buffer \o arg)[i] > Len(settled) + Len(batch)
  BY <1>1, <1>2, <1>4 DEF Consecutive
<1>8. Range(buffer \o arg) = {(buffer \o arg)[i] : i \in 1 .. Len(buffer \o arg)}
  BY <1>2 DEF Range
<1> QED BY <1>6, <1>7, <1>8

\* A step that is no attempt leaves the accounts alone; if it starts a POST there was none.
Calm ==
    /\ UNCHANGED <<hec, endpointOk, settled, acked, indexed>>
    /\ \/ batch' = batch /\ attempt' = attempt
       \/ batch = <<>> /\ attempt' = 0

LEMMA CalmStep == TypeControl /\ [Next]_vars => Calm \/ PostStep
<1> SUFFICES ASSUME TypeControl, [Next]_vars PROVE Calm \/ PostStep
    OBVIOUS
<1>0. call = "idle" => batch = <<>>
  BY DEF TypeControl, Control
<1>1. ASSUME NEW e, Write(e) PROVE Calm
  <2>1. call = "idle" /\ UNCHANGED <<endpointOk, hec, settled, acked, indexed>>
    BY <1>1, Zenon DEF Write
  <2>2. attempt' = 0 \/ (attempt' = attempt /\ batch' = batch)
    BY <1>1, Zenon DEF Write, AppendLine, StartPost
  <2> QED BY <1>0, <2>1, <2>2, Zenon DEF Calm
<1>2. ASSUME NEW force, Flush(force) PROVE Calm
  BY <1>0, <1>2, Zenon DEF Flush, StartPost, historyVars, Calm
<1>3. CASE WriteResumes
  BY <1>3, Zenon DEF WriteResumes, AppendLine, StartPost, historyVars, Calm
<1>4. CASE Close
  BY <1>0, <1>4, Zenon DEF Close, StartPost, historyVars, Calm
<1>5. CASE Tick
  BY <1>5, Zenon DEF Tick, historyVars, Calm
<1>6. CASE UNCHANGED vars
  BY <1>6, Zenon DEF vars, codeVars, historyVars, Calm
<1> QED
  BY <1>1, <1>2, <1>3, <1>4, <1>5, <1>6, Zenon DEF Next, CallerWrites, CallerFlushes, CallerCloses

\* No attempt has failed where none is under way, and none ever is on an endpoint that
\* Request rejects.
AttemptsKnown ==
    /\ batch = <<>> => attempt = 0
    /\ ~endpointOk => attempt = 0

LEMMA AttemptsStep == AttemptsKnown /\ (Calm \/ PostStep) => AttemptsKnown'
<1> SUFFICES ASSUME AttemptsKnown, Calm \/ PostStep PROVE AttemptsKnown'
    OBVIOUS
<1>1. CASE Calm
  BY <1>1, Zenon DEF Calm, AttemptsKnown
<1>2. CASE PostSucceeds \/ RequestRejected \/ \E reached \in BOOLEAN : PostGivesUp(reached)
  BY <1>2, Zenon DEF PostSucceeds, RequestRejected, PostGivesUp, BatchLeaves, AttemptsKnown
<1>3. CASE \E reached \in BOOLEAN : PostRetries(reached)
  <2>1. batch # <<>> /\ endpointOk /\ batch' = batch /\ endpointOk' = endpointOk
    BY <1>3, Zenon DEF PostRetries, AttemptFails
  <2>2. batch' # <<>>
    BY <2>1, Zenon
  <2>3. endpointOk'
    BY <2>1, Zenon
  <2> QED BY <2>2, <2>3, Zenon DEF AttemptsKnown
<1> QED BY <1>1, <1>2, <1>3, Zenon DEF PostStep

LEMMA RetriesStep ==
    ASSUME TypeControl, AttemptsKnown, RetriesAccounted, Calm \/ PostStep
    PROVE  RetriesAccounted'
<1> DEFINE K == RetryMaxAttempts - 1
<1>0. /\ K \in Nat /\ attempt \in 0 .. K /\ RetryMaxAttempts = K + 1
      /\ batchesSent \in Nat /\ batchesFailed \in Nat /\ retries \in Nat
  BY SettingsAssumption DEF TypeControl, TypeOK, DataTypes
<1>1. retries >= K * batchesFailed + attempt /\ retries <= K * (batchesSent + batchesFailed) + attempt
  BY DEF RetriesAccounted
<1>2. /\ K * (batchesFailed + 1) = K * batchesFailed + K
      /\ K * (batchesSent + 1 + batchesFailed) = K * (batchesSent + batchesFailed) + K
      /\ K * (batchesSent + (batchesFailed + 1)) = K * (batchesSent + batchesFailed) + K
      /\ K * batchesFailed \in Nat /\ K * (batchesSent + batchesFailed) \in Nat
  BY <1>0
<1> HIDE DEF K
<1> SUFFICES retries' >= K * batchesFailed' + attempt' /\ retries' <= K * (batchesSent' + batchesFailed') + attempt'
    BY DEF RetriesAccounted, K
<1>3. CASE attempt' = attempt /\ UNCHANGED <<retries, batchesSent, batchesFailed>>
  BY <1>1, <1>3
<1>4. CASE attempt = 0 /\ attempt' = 0 /\ UNCHANGED <<retries, batchesSent, batchesFailed>>
  BY <1>1, <1>4
<1>5. CASE PostSucceeds
  <2>1. attempt' = 0 /\ batchesSent' = batchesSent + 1 /\ batchesFailed' = batchesFailed /\ retries' = retries
    BY <1>5, Zenon DEF PostSucceeds, BatchLeaves
  <2> QED BY <1>0, <1>1, <1>2, <2>1
<1>6. CASE \E reached \in BOOLEAN : PostGivesUp(reached)
  <2>1. /\ attempt' = 0 /\ batchesSent' = batchesSent /\ batchesFailed' = batchesFailed + 1
        /\ retries' = retries /\ ~AttemptsLeft
    BY <1>6, Zenon DEF PostGivesUp, CountDropped, BatchLeaves
  <2>2. attempt = K
    BY <1>0, <2>1 DEF AttemptsLeft
  <2> QED BY <1>0, <1>1, <1>2, <2>1, <2>2
<1>7. CASE \E reached \in BOOLEAN : PostRetries(reached)
  <2>1. /\ attempt' = attempt + 1 /\ retries' = retries + 1
        /\ batchesSent' = batchesSent /\ batchesFailed' = batchesFailed
    BY <1>7, Zenon DEF PostRetries
  <2> QED BY <1>0, <1>1, <1>2, <2>1
<1>8. RequestRejected => attempt = 0 /\ attempt' = 0 /\ UNCHANGED <<retries, batchesSent, batchesFailed>>
  BY Zenon DEF RequestRejected, BatchLeaves, AttemptsKnown, hec
<1>9. Calm => attempt' = attempt \/ (attempt = 0 /\ attempt' = 0)
  BY Zenon DEF Calm, AttemptsKnown
<1>10. Calm => UNCHANGED <<retries, batchesSent, batchesFailed>>
  BY Zenon DEF Calm, hec
<1> QED BY <1>3, <1>4, <1>5, <1>6, <1>7, <1>8, <1>9, <1>10, Zenon DEF PostStep

\* A batch is given up after exactly the configured number of attempts, none takes more.
THEOREM RetriesAlwaysAccounted == Spec => []RetriesAccounted
<1>1. Init => AttemptsKnown /\ RetriesAccounted
  <2> SUFFICES ASSUME Init PROVE AttemptsKnown /\ RetriesAccounted
    OBVIOUS
  <2>1. attempt = 0 /\ retries = 0 /\ batchesSent = 0 /\ batchesFailed = 0
    BY Zenon DEF Init
  <2> QED BY <2>1, SettingsAssumption DEF AttemptsKnown, RetriesAccounted
<1>2. TypeControl /\ AttemptsKnown /\ RetriesAccounted /\ [Next]_vars => AttemptsKnown' /\ RetriesAccounted'
  BY CalmStep, AttemptsStep, RetriesStep, Zenon
<1> QED BY <1>1, <1>2, TypeControlAlways, PTL DEF Spec

\* How many copies the index holds of an event that is settled, being posted, or behind.
CopiesKnown ==
    /\ acked \subseteq 1 .. Len(settled)
    /\ \A e \in Events :
          /\ indexed[e] <= RetryMaxAttempts
          /\ e \in acked => indexed[e] >= 1
          /\ e > Len(settled) + Len(batch) => indexed[e] = 0
          /\ e > Len(settled) => indexed[e] <= attempt

\* One attempt adds at most one copy of the events in the batch, and none of the others.
LEMMA IndexedOnce ==
    ASSUME DataTypes, Consecutive, HecIndexes \/ UNCHANGED indexed, NEW e \in Events
    PROVE  /\ indexed'[e] \in {indexed[e], indexed[e] + 1}
           /\ e \notin Len(settled) + 1 .. Len(settled) + Len(batch) => indexed'[e] = indexed[e]
           /\ HecIndexes /\ e \in Range(batch) => indexed'[e] = indexed[e] + 1
<1>1. indexed[e] \in Nat
  BY DEF DataTypes
<1>2. Range(batch) = Len(settled) + 1 .. Len(settled) + Len(batch)
  BY BatchIsNext
<1>3. CASE HecIndexes
  <2>1. indexed'[e] = indexed[e] + IF e \in Range(batch) THEN 1 ELSE 0
    BY <1>3, Zenon DEF HecIndexes
  <2> QED BY <1>1, <1>2, <2>1
<1>4. CASE UNCHANGED indexed /\ ~HecIndexes
  BY <1>2, <1>4
<1> QED BY <1>3, <1>4

LEMMA CopiesStep ==
    ASSUME TypeControl, TypeControl', Consecutive, AttemptsKnown, CopiesKnown, Calm \/ PostStep
    PROVE  CopiesKnown'
<1> DEFINE n == Len(settled)
           m == Len(batch)
<1>0. DataTypes /\ DataTypes'
  BY DEF TypeControl, TypeOK
<1>1. /\ n \in Nat /\ m \in Nat /\ Len(settled') \in Nat /\ Len(batch') \in Nat
      /\ attempt \in 0 .. RetryMaxAttempts - 1 /\ RetryMaxAttempts \in Nat
      /\ Events \subseteq Nat
      /\ \A e \in Events : indexed[e] \in Nat
  <2>0. /\ settled \in Seq(Events) /\ batch \in Seq(Events)
        /\ attempt \in 0 .. RetryMaxAttempts - 1
    BY <1>0, Zenon DEF DataTypes
  <2>1. n \in Nat /\ m \in Nat /\ attempt \in 0 .. RetryMaxAttempts - 1
    BY ONLY <2>0, LenProperties
  <2>2. settled' \in Seq(Events) /\ batch' \in Seq(Events)
    BY <1>0 DEF DataTypes
  <2>3. Len(settled') \in Nat /\ Len(batch') \in Nat
    BY ONLY <2>2, LenProperties
  <2>4. Events \subseteq Nat /\ RetryMaxAttempts \in Nat
    BY SettingsAssumption, EventsAssumption DEF Events
  <2>5. \A e \in Events : indexed[e] \in Nat
    BY <1>0 DEF DataTypes
  <2> QED BY <2>1, <2>3, <2>4, <2>5
<1>2. /\ acked \subseteq 1 .. n
      /\ \A e \in Events : /\ indexed[e] <= RetryMaxAttempts /\ (e \in acked => indexed[e] >= 1)
                           /\ e > n + m => indexed[e] = 0
                           /\ e > n => indexed[e] <= attempt
  BY DEF CopiesKnown
<1>3. batch = <<>> => attempt = 0 /\ m = 0
  BY DEF AttemptsKnown
<1>4. Range(batch) = n + 1 .. n + m
  BY <1>0, BatchIsNext
<1>5. CASE Calm
  <2>1. /\ settled' = settled /\ acked' = acked /\ indexed' = indexed
        /\ (batch' = batch /\ attempt' = attempt) \/ (batch = <<>> /\ attempt' = 0)
    BY <1>5, Zenon DEF Calm
  <2> QED BY <1>1, <1>2, <1>3, <2>1 DEF CopiesKnown
<1>6. ASSUME BatchLeaves
      PROVE  Len(settled') = n + m /\ attempt' = 0 /\ Len(batch') = 0
  <2>1. settled' = settled \o batch /\ attempt' = 0 /\ batch' = <<>>
    BY <1>6, Zenon DEF BatchLeaves
  <2>2. settled \in Seq(Events) /\ batch \in Seq(Events)
    BY <1>0 DEF DataTypes
  <2>3. Len(settled \o batch) = n + m
    BY ONLY <2>2
  <2> QED BY <2>1, <2>3
<1>7. CASE PostSucceeds
  <2>1. HecIndexes /\ BatchLeaves /\ acked' = acked \cup Range(batch)
    BY <1>7, Zenon DEF PostSucceeds
  <2>2. acked' \subseteq 1 .. n + m
    <3>1. 1 .. n \subseteq 1 .. n + m /\ n + 1 .. n + m \subseteq 1 .. n + m
      BY <1>1
    <3>2. acked \subseteq 1 .. n
      BY <1>2
    <3> QED BY <1>4, <2>1, <3>1, <3>2, Zenon
  <2>3. \A e \in Events :
           /\ indexed'[e] \in {indexed[e], indexed[e] + 1}
           /\ e \notin n + 1 .. n + m => indexed'[e] = indexed[e]
           /\ e \in Range(batch) => indexed'[e] = indexed[e] + 1
    BY <1>0, <2>1, IndexedOnce, Zenon
  <2>4. ASSUME NEW e \in Events
        PROVE  /\ indexed'[e] <= RetryMaxAttempts
               /\ e \in acked' => indexed'[e] >= 1
               /\ e > n + m => indexed'[e] = 0
    <3>1. /\ indexed'[e] \in {indexed[e], indexed[e] + 1} /\ e \in Nat /\ indexed[e] \in Nat
          /\ e \notin n + 1 .. n + m => indexed'[e] = indexed[e]
          /\ e \in n + 1 .. n + m => indexed'[e] = indexed[e] + 1
          /\ e \in acked' => e \in acked \/ e \in n + 1 .. n + m
      BY <1>1, <1>4, <2>1, <2>3
    <3>2. /\ indexed[e] <= RetryMaxAttempts /\ (e \in acked => indexed[e] >= 1)
          /\ (e > n + m => indexed[e] = 0) /\ (e > n => indexed[e] <= attempt)
      BY <1>2
    <3> QED BY <1>1, <3>1, <3>2
  <2> QED BY <1>1, <1>6, <2>1, <2>2, <2>4 DEF CopiesKnown
<1>8. ASSUME NEW reached \in BOOLEAN, AttemptFails(reached)
      PROVE  /\ acked' = acked
             /\ \A e \in Events :
                   /\ indexed'[e] <= RetryMaxAttempts
                   /\ e \in acked' => indexed'[e] >= 1
                   /\ e > n + m => indexed'[e] = 0
                   /\ e > n => indexed'[e] <= attempt + 1
  <2>1. acked' = acked /\ (HecIndexes \/ UNCHANGED indexed)
    BY <1>8, Zenon DEF AttemptFails
  <2>2. \A e \in Events :
           /\ indexed'[e] \in {indexed[e], indexed[e] + 1}
           /\ e \notin n + 1 .. n + m => indexed'[e] = indexed[e]
    BY <1>0, <2>1, IndexedOnce, Zenon
  <2>3. ASSUME NEW e \in Events
        PROVE  /\ indexed'[e] <= RetryMaxAttempts
               /\ e \in acked => indexed'[e] >= 1
               /\ e > n + m => indexed'[e] = 0
               /\ e > n => indexed'[e] <= attempt + 1
    <3>1. /\ indexed'[e] \in {indexed[e], indexed[e] + 1} /\ e \in Nat /\ indexed[e] \in Nat
          /\ e \notin n + 1 .. n + m => indexed'[e] = indexed[e]
      BY <1>1, <2>2
    <3>2. /\ indexed[e] <= RetryMaxAttempts /\ (e \in acked => indexed[e] >= 1)
          /\ (e > n + m => indexed[e] = 0) /\ (e > n => indexed[e] <= attempt)
      BY <1>2
    <3>3. CASE e \in n + 1 .. n + m
      <4>1. indexed[e] <= attempt
        BY <1>1, <3>2, <3>3
      <4> QED BY <1>1, <3>1, <3>2, <3>3, <4>1, SMTT(60)
    <3>4. CASE e \notin n + 1 .. n + m
      <4>1. indexed'[e] = indexed[e]
        BY <3>1, <3>4
      <4>2. e > n => indexed[e] <= attempt + 1
        BY <1>1, <3>1, <3>2
      <4> QED BY <3>2, <4>1, <4>2
    <3> QED BY <3>3, <3>4
  <2> QED BY <2>1, <2>3
<1>9. ASSUME NEW reached \in BOOLEAN, PostGivesUp(reached) PROVE CopiesKnown'
  <2>1. AttemptFails(reached) /\ BatchLeaves
    BY <1>9, Zenon DEF PostGivesUp
  <2>2. acked' \subseteq 1 .. Len(settled')
    <3>1. acked' = acked /\ acked \subseteq 1 .. n /\ Len(settled') = n + m
      BY <1>2, <1>6, <1>8, <2>1
    <3> QED BY <1>1, <3>1
  <2>3. \A e \in Events :
           /\ indexed'[e] <= RetryMaxAttempts
           /\ e \in acked' => indexed'[e] >= 1
           /\ e > n + m => indexed'[e] = 0
    BY <1>8, <2>1
  <2>4. Len(settled') = n + m /\ attempt' = 0 /\ Len(batch') = 0
    BY <1>6, <2>1
  <2> QED BY <1>1, <2>2, <2>3, <2>4 DEF CopiesKnown
<1>10. ASSUME NEW reached \in BOOLEAN, PostRetries(reached) PROVE CopiesKnown'
  <2>1. AttemptFails(reached) /\ attempt' = attempt + 1 /\ settled' = settled /\ batch' = batch
    BY <1>10, Zenon DEF PostRetries
  <2> QED BY <1>1, <1>2, <1>8, <2>1 DEF CopiesKnown
<1>11. CASE RequestRejected
  <2>1. BatchLeaves /\ acked' = acked /\ indexed' = indexed
    BY <1>11, Zenon DEF RequestRejected
  <2> QED BY <1>1, <1>2, <1>6, <2>1 DEF CopiesKnown
<1> QED BY <1>5, <1>7, <1>9, <1>10, <1>11, Zenon DEF PostStep

\* What the proofs so far know of the accounts.
AccountsKnown == TypeControl /\ Consecutive /\ AttemptsKnown /\ CopiesKnown

LEMMA AccountsAlways == Spec => []AccountsKnown
<1>1. Init => Consecutive /\ AttemptsKnown /\ CopiesKnown
  <2> SUFFICES ASSUME Init PROVE Consecutive /\ AttemptsKnown /\ CopiesKnown
    OBVIOUS
  <2>1. /\ batch = <<>> /\ buffer = <<>> /\ arg = <<>> /\ attempt = 0
        /\ handed = <<>> /\ settled = <<>> /\ acked = {} /\ indexed = [e \in Events |-> 0]
    BY Zenon DEF Init
  <2>2. Consecutive
    BY <2>1 DEF Consecutive, InPipe
  <2>3. CopiesKnown
    BY <2>1, SettingsAssumption DEF CopiesKnown
  <2> QED BY <2>1, <2>2, <2>3 DEF AttemptsKnown
<1>2. TypeControl /\ TypeControl' /\ Consecutive /\ AttemptsKnown /\ CopiesKnown /\ [Next]_vars
         => Consecutive' /\ AttemptsKnown' /\ CopiesKnown'
  BY CalmStep, ConsecutiveStep, AttemptsStep, CopiesStep, Zenon
<1> QED BY <1>1, <1>2, TypeControlAlways, PTL DEF Spec, AccountsKnown

\* At most one copy per attempt is indexed, only of events being posted or settled, and
\* each acknowledged event is: retries duplicate events only within their batch.
THEOREM CopiesAlwaysBounded == Spec => []CopiesBounded
<1>1. AccountsKnown => CopiesBounded
  <2> SUFFICES ASSUME AccountsKnown, NEW e \in Events
               PROVE  /\ indexed[e] <= RetryMaxAttempts
                      /\ e \in acked => indexed[e] >= 1
                      /\ e \in Range(buffer \o arg) => indexed[e] = 0
                      /\ e \in Range(batch) => indexed[e] <= attempt
    BY Zenon DEF CopiesBounded
  <2>0. DataTypes /\ Consecutive /\ CopiesKnown
    BY DEF AccountsKnown, TypeControl, TypeOK
  <2>1. /\ Range(batch) = Len(settled) + 1 .. Len(settled) + Len(batch)
        /\ \A x \in Range(buffer \o arg) : x > Len(settled) + Len(batch)
    BY <2>0, BatchIsNext
  <2>2. Len(settled) \in Nat /\ Len(batch) \in Nat
    BY <2>0, LenProperties DEF DataTypes
  <2>3. e \in Range(batch) => e > Len(settled)
    BY <2>1, <2>2
  <2> QED BY <2>0, <2>1, <2>3, Zenon DEF CopiesKnown
<1> QED BY <1>1, AccountsAlways, PTL

-----------------------------------------------------------------------------
(* The close summary *)

\* What SummaryAddsUp says, by cases: the endpoint never changes.
SummaryKnown ==
    /\ eventsSent = Cardinality(acked)
    /\ endpointOk => eventsSent + eventsFailed = Len(settled)
    /\ ~endpointOk => eventsSent = 0 /\ eventsFailed = 0

\* The acknowledged events grow by a whole batch of new ones.
LEMMA AckedGrow ==
    ASSUME AccountsKnown
    PROVE  Cardinality(acked \cup Range(batch)) = Cardinality(acked) + Len(batch)
<1>0. DataTypes /\ Consecutive /\ acked \subseteq 1 .. Len(settled)
  BY DEF AccountsKnown, TypeControl, TypeOK, CopiesKnown
<1>1. Len(settled) \in Nat /\ Len(batch) \in Nat
  BY <1>0, LenProperties DEF DataTypes
<1>2. Range(batch) = Len(settled) + 1 .. Len(settled) + Len(batch)
  BY <1>0, BatchIsNext
<1>3. IsFiniteSet(Range(batch)) /\ Cardinality(Range(batch)) = Len(batch)
  <2>1. PICK a \in Int, b \in Int : a = Len(settled) + 1 /\ b = Len(settled) + Len(batch)
    BY <1>1
  <2>2. IsFiniteSet(a .. b) /\ Cardinality(a .. b) = IF a > b THEN 0 ELSE b - a + 1
    BY FS_Interval, Zenon
  <2>3. (IF a > b THEN 0 ELSE b - a + 1) = Len(batch)
    BY <1>1, <2>1
  <2>4. Range(batch) = a .. b
    BY <1>2, <2>1, Zenon
  <2> QED BY <2>2, <2>3, <2>4, Zenon
<1>4. IsFiniteSet(acked)
  <2>1. IsFiniteSet(1 .. Len(settled))
    BY <1>1, FS_Interval
  <2> QED BY <1>0, <2>1, FS_Subset
<1>5. acked \cap Range(batch) = {}
  BY <1>0, <1>1, <1>2
<1>6. Cardinality(acked \cap Range(batch)) = 0
  BY <1>5, FS_EmptySet
<1>7. Cardinality(acked \cup Range(batch))
        = Cardinality(acked) + Cardinality(Range(batch)) - Cardinality(acked \cap Range(batch))
  BY <1>3, <1>4, FS_Union, Zenon
<1>8. Cardinality(acked) \in Nat
  BY <1>4, FS_CardinalityType
<1> QED BY <1>1, <1>3, <1>6, <1>7, <1>8

LEMMA SummaryStep ==
    ASSUME AccountsKnown, SummaryKnown, Calm \/ PostStep
    PROVE  SummaryKnown'
<1>0. /\ Len(batch) \in Nat /\ Len(settled) \in Nat /\ eventsSent \in Nat /\ eventsFailed \in Nat
      /\ eventsSent = Cardinality(acked)
  <2>1. DataTypes
    BY DEF AccountsKnown, TypeControl, TypeOK
  <2> QED BY <2>1, LenProperties DEF DataTypes, SummaryKnown
<1>1. BatchLeaves => Len(settled') = Len(settled) + Len(batch)
  <2>1. settled \in Seq(Events) /\ batch \in Seq(Events)
    BY DEF AccountsKnown, TypeControl, TypeOK, DataTypes
  <2>2. Len(settled \o batch) = Len(settled) + Len(batch)
    BY ONLY <2>1
  <2> QED BY <2>2, Zenon DEF BatchLeaves
<1>2. CASE Calm
  BY <1>2, Zenon DEF Calm, hec, SummaryKnown
<1>3. CASE PostSucceeds
  <2>1. /\ endpointOk /\ BatchLeaves /\ acked' = acked \cup Range(batch)
        /\ eventsSent' = eventsSent + Len(batch) /\ eventsFailed' = eventsFailed
    BY <1>3, Zenon DEF PostSucceeds
  <2>2. eventsSent + eventsFailed = Len(settled)
    BY <2>1, Zenon DEF SummaryKnown
  <2>3. eventsSent' = Cardinality(acked') /\ eventsSent' + eventsFailed' = Len(settled')
    BY <1>0, <1>1, <2>1, <2>2, AckedGrow, SMTT(60)
  <2>4. endpointOk' = endpointOk
    BY <2>1, Zenon DEF BatchLeaves
  <2> QED BY <2>1, <2>3, <2>4, Zenon DEF SummaryKnown
<1>4. CASE \E reached \in BOOLEAN : PostGivesUp(reached)
  <2>1. /\ endpointOk /\ BatchLeaves /\ acked' = acked
        /\ eventsSent' = eventsSent /\ eventsFailed' = eventsFailed + Len(batch)
    BY <1>4, Zenon DEF PostGivesUp, AttemptFails, CountDropped
  <2>2. eventsSent + eventsFailed = Len(settled)
    BY <2>1, Zenon DEF SummaryKnown
  <2>3. eventsSent' = Cardinality(acked') /\ eventsSent' + eventsFailed' = Len(settled')
    BY <1>0, <1>1, <2>1, <2>2
  <2>4. endpointOk' = endpointOk
    BY <2>1, Zenon DEF BatchLeaves
  <2> QED BY <2>1, <2>3, <2>4, Zenon DEF SummaryKnown
<1>5. CASE \E reached \in BOOLEAN : PostRetries(reached)
  <2>1. /\ eventsSent' = eventsSent /\ eventsFailed' = eventsFailed
        /\ acked' = acked /\ settled' = settled /\ endpointOk' = endpointOk
    BY <1>5, Zenon DEF PostRetries, AttemptFails
  <2> QED BY <2>1, Zenon DEF SummaryKnown
<1>6. CASE RequestRejected
  <2>1. ~endpointOk /\ endpointOk' = endpointOk /\ acked' = acked
        /\ eventsSent' = eventsSent /\ eventsFailed' = eventsFailed
    BY <1>6, Zenon DEF RequestRejected, BatchLeaves, hec
  <2> QED BY <2>1, Zenon DEF SummaryKnown
<1> QED BY <1>2, <1>3, <1>4, <1>5, <1>6, Zenon DEF PostStep

\* The close summary: events_sent are the acknowledged events, and with events_failed all
\* that have left the writer, on an endpoint that Request accepts.
THEOREM SummaryAlwaysAddsUp == Spec => []SummaryAddsUp
<1>1. Init => SummaryKnown
  <2> SUFFICES ASSUME Init PROVE SummaryKnown
    OBVIOUS
  <2>1. eventsSent = 0 /\ eventsFailed = 0 /\ settled = <<>> /\ acked = {}
    BY Zenon DEF Init
  <2>2. 0 = Cardinality({}) /\ 0 + 0 = Len(<<>>)
    BY FS_EmptySet
  <2> QED BY <2>1, <2>2, Zenon DEF SummaryKnown
<1>2. AccountsKnown /\ SummaryKnown /\ [Next]_vars => SummaryKnown'
  BY CalmStep, SummaryStep, Zenon DEF AccountsKnown
<1>3. AccountsKnown /\ SummaryKnown => SummaryAddsUp
  <2> SUFFICES ASSUME SummaryKnown PROVE SummaryAddsUp
    OBVIOUS
  <2>1. CASE endpointOk
    BY <2>1, Zenon DEF SummaryKnown, SummaryAddsUp
  <2>2. CASE ~endpointOk
    <3>1. eventsSent + eventsFailed = 0
      BY <2>2 DEF SummaryKnown
    <3> QED BY <2>2, <3>1, Zenon DEF SummaryKnown, SummaryAddsUp
  <2> QED BY <2>1, <2>2
<1> QED BY <1>1, <1>2, <1>3, AccountsAlways, PTL DEF Spec

-----------------------------------------------------------------------------
(* Sums: what SumFunction of the community modules computes *)

Any(s) == CHOOSE x \in s : TRUE

\* it sums f up over every set of at most k elements of S, in the order of Any.
SumsUpTo(f, S, k, it) ==
    LET small == {s \in SUBSET S : Cardinality(s) <= k}
    IN  it = [s \in small |-> IF s = {} THEN 0 ELSE f[Any(s)] + it[s \ {Any(s)}]]

SumsOver(f, S) ==
    CHOOSE it : it = [s \in SUBSET S |-> IF s = {} THEN 0 ELSE f[Any(s)] + it[s \ {Any(s)}]]

LEMMA SumFunctionIs == ASSUME NEW f PROVE SumFunction(f) = SumsOver(f, DOMAIN f)[DOMAIN f]
BY Zenon DEF SumsOver, Any, SumFunction, SumFunctionOnSet, FoldFunctionOnSet, MapThenFoldSet

\* A set of numbers that is not empty has a least element.
LEMMA LeastNumber ==
    ASSUME NEW T \in SUBSET Nat, T # {}
    PROVE  \E x \in T : \A y \in T : ~(y < x)
<1>1. PICK x \in T : \A y \in T : ~(<<y, x>> \in OpToRel(<, Nat))
  BY WFMin, NatLessThanWellFounded, Zenon
<1>2. \A y \in T : ~(y < x)
  BY <1>1, Zenon DEF OpToRel
<1> QED BY <1>2

\* A set without one of its elements is smaller.
LEMMA OneLess ==
    ASSUME NEW S, IsFiniteSet(S), NEW s \in SUBSET S, NEW x \in s
    PROVE  /\ s \ {x} \in SUBSET S
           /\ Cardinality(s) \in Nat /\ Cardinality(s) >= 1
           /\ Cardinality(s \ {x}) = Cardinality(s) - 1
<1>1. IsFiniteSet(s)
  BY FS_Subset
<1>2. Cardinality(s \ {x}) = Cardinality(s) - 1 /\ IsFiniteSet(s \ {x})
  BY <1>1, FS_RemoveElement
<1>3. Cardinality(s) \in Nat /\ Cardinality(s \ {x}) \in Nat
  BY <1>1, <1>2, FS_CardinalityType
<1> QED BY <1>2, <1>3

LEMMA AnyIsIn == ASSUME NEW s, s # {} PROVE Any(s) \in s
BY Zenon DEF Any

LEMMA SumsExistUpTo ==
    ASSUME NEW S, IsFiniteSet(S), NEW f \in [S -> Nat], NEW k \in Nat
    PROVE  \E it : SumsUpTo(f, S, k, it)
<1> DEFINE T == {n \in Nat : ~\E it : SumsUpTo(f, S, n, it)}
<1> SUFFICES ASSUME T # {} PROVE FALSE
  OBVIOUS
<1>1. PICK n \in T : \A m \in T : ~(m < n)
  BY LeastNumber
<1> DEFINE small == {s \in SUBSET S : Cardinality(s) <= n}
<1>2. CASE n = 0
  <2>1. \A s \in small : s = {}
    <3> SUFFICES ASSUME NEW s \in small, s # {} PROVE FALSE
      OBVIOUS
    <3>1. Any(s) \in s
      BY AnyIsIn
    <3>2. Cardinality(s) >= 1 /\ Cardinality(s) \in Nat
      BY <3>1, OneLess
    <3> QED BY <1>2, <3>2
  <2> DEFINE h == [s \in small |-> 0]
  <2>2. h = [s \in small |-> IF s = {} THEN 0 ELSE f[Any(s)] + h[s \ {Any(s)}]]
    BY <2>1
  <2>3. SumsUpTo(f, S, n, h)
    BY <2>2, Zenon DEF SumsUpTo
  <2> QED BY <2>3
<1>3. CASE n # 0
  <2>1. n \in Nat /\ n - 1 \in Nat /\ n - 1 \notin T
    BY <1>1, <1>3
  <2>2. PICK g : SumsUpTo(f, S, n - 1, g)
    BY <2>1
  <2> DEFINE less == {s \in SUBSET S : Cardinality(s) <= n - 1}
             h == [s \in small |-> IF s = {} THEN 0 ELSE f[Any(s)] + g[s \ {Any(s)}]]
  <2>3. g = [s \in less |-> IF s = {} THEN 0 ELSE f[Any(s)] + g[s \ {Any(s)}]]
    BY <2>2, Zenon DEF SumsUpTo
  <2>4. \A s \in less : g[s] = IF s = {} THEN 0 ELSE f[Any(s)] + g[s \ {Any(s)}]
    BY <2>3, Zenon
  <2>5. ASSUME NEW s \in small, s # {} PROVE s \ {Any(s)} \in less
    <3>1. Any(s) \in s
      BY <2>5, AnyIsIn
    <3>2. Cardinality(s \ {Any(s)}) = Cardinality(s) - 1 /\ s \ {Any(s)} \in SUBSET S
          /\ Cardinality(s) \in Nat
      BY <3>1, OneLess
    <3> QED BY <2>1, <3>2
  <2>6. less \subseteq small
    <3> SUFFICES ASSUME NEW s \in less PROVE s \in small
      OBVIOUS
    <3>1. IsFiniteSet(s)
      BY FS_Subset
    <3>2. Cardinality(s) \in Nat
      BY <3>1, FS_CardinalityType
    <3> QED BY <2>1, <3>2
  <2>7. \A s \in less : h[s] = g[s]
    BY <2>4, <2>6, Zenon
  <2>8. \A s \in small : s # {} => h[s \ {Any(s)}] = g[s \ {Any(s)}]
    BY <2>5, <2>7, Zenon
  <2>9. h = [s \in small |-> IF s = {} THEN 0 ELSE f[Any(s)] + h[s \ {Any(s)}]]
    BY <2>8, Zenon
  <2>10. SumsUpTo(f, S, n, h)
    BY <2>9, Zenon DEF SumsUpTo
  <2> QED BY <2>10
<1> QED BY <1>2, <1>3

\* The recursion that SumFunction runs on, for every finite set.
LEMMA SumsUnfold ==
    ASSUME NEW S, IsFiniteSet(S), NEW f \in [S -> Nat]
    PROVE  \A s \in SUBSET S : SumsOver(f, S)[s] =
                IF s = {} THEN 0 ELSE f[Any(s)] + SumsOver(f, S)[s \ {Any(s)}]
<1>1. Cardinality(S) \in Nat
  BY FS_CardinalityType
<1>2. PICK it : SumsUpTo(f, S, Cardinality(S), it)
  BY <1>1, SumsExistUpTo
<1>3. {s \in SUBSET S : Cardinality(s) <= Cardinality(S)} = SUBSET S
  BY FS_Subset
<1>4. it = [s \in SUBSET S |-> IF s = {} THEN 0 ELSE f[Any(s)] + it[s \ {Any(s)}]]
  BY <1>2, <1>3, Zenon DEF SumsUpTo
<1>5. SumsOver(f, S) = [s \in SUBSET S |-> IF s = {} THEN 0
                            ELSE f[Any(s)] + SumsOver(f, S)[s \ {Any(s)}]]
  BY <1>4, Zenon DEF SumsOver
<1> QED BY <1>5, Zenon

LEMMA SumsAreNumbers ==
    ASSUME NEW S, IsFiniteSet(S), NEW f \in [S -> Nat], NEW s \in SUBSET S
    PROVE  SumsOver(f, S)[s] \in Nat
<1> DEFINE T == {n \in Nat : \E t \in SUBSET S : Cardinality(t) = n /\ SumsOver(f, S)[t] \notin Nat}
<1>1. Cardinality(s) \in Nat
  BY FS_Subset, FS_CardinalityType
<1> SUFFICES ASSUME T # {} PROVE FALSE
  BY <1>1
<1>2. PICK n \in T : \A m \in T : ~(m < n)
  BY LeastNumber
<1>3. PICK t \in SUBSET S : Cardinality(t) = n /\ SumsOver(f, S)[t] \notin Nat
  BY <1>2
<1>4. t # {}
  BY <1>3, SumsUnfold
<1>5. Any(t) \in t
  BY <1>4, AnyIsIn
<1>6. t \ {Any(t)} \in SUBSET S /\ n \in Nat /\ n >= 1 /\ Cardinality(t \ {Any(t)}) = n - 1
  BY <1>3, <1>5, OneLess
<1>7. SumsOver(f, S)[t \ {Any(t)}] \in Nat
  BY <1>2, <1>6
<1>8. f[Any(t)] \in Nat
  BY <1>5
<1> QED BY <1>3, <1>4, <1>7, <1>8, SumsUnfold

\* Sums depend on nothing but the summands.
LEMMA SumsAgree ==
    ASSUME NEW S, IsFiniteSet(S), NEW f \in [S -> Nat],
           NEW R, IsFiniteSet(R), NEW g \in [R -> Nat],
           S \subseteq R, \A x \in S : f[x] = g[x]
    PROVE  \A s \in SUBSET S : SumsOver(f, S)[s] = SumsOver(g, R)[s]
<1> DEFINE T == {n \in Nat : \E t \in SUBSET S : Cardinality(t) = n
                                /\ SumsOver(f, S)[t] # SumsOver(g, R)[t]}
<1>1. \A s \in SUBSET S : Cardinality(s) \in Nat
  BY FS_Subset, FS_CardinalityType
<1> SUFFICES ASSUME T # {} PROVE FALSE
  BY <1>1
<1>2. PICK n \in T : \A m \in T : ~(m < n)
  BY LeastNumber
<1>3. PICK t \in SUBSET S : Cardinality(t) = n /\ SumsOver(f, S)[t] # SumsOver(g, R)[t]
  BY <1>2
<1>4. /\ SumsOver(f, S)[t] = IF t = {} THEN 0 ELSE f[Any(t)] + SumsOver(f, S)[t \ {Any(t)}]
      /\ SumsOver(g, R)[t] = IF t = {} THEN 0 ELSE g[Any(t)] + SumsOver(g, R)[t \ {Any(t)}]
  <2>1. t \in SUBSET R
    BY <1>3
  <2> QED BY <2>1, SumsUnfold
<1>5. t # {} /\ Any(t) \in t
  BY <1>3, <1>4, AnyIsIn
<1>6. t \ {Any(t)} \in SUBSET S /\ n \in Nat /\ n >= 1 /\ Cardinality(t \ {Any(t)}) = n - 1
  BY <1>3, <1>5, OneLess
<1>7. SumsOver(f, S)[t \ {Any(t)}] = SumsOver(g, R)[t \ {Any(t)}]
  BY <1>2, <1>6
<1>8. f[Any(t)] = g[Any(t)]
  BY <1>3, <1>5
<1> QED BY <1>3, <1>4, <1>5, <1>7, <1>8

\* ... and not on the order.
LEMMA SumsTakeAny ==
    ASSUME NEW S, IsFiniteSet(S), NEW f \in [S -> Nat]
    PROVE  \A s \in SUBSET S : \A x \in s :
                SumsOver(f, S)[s] = f[x] + SumsOver(f, S)[s \ {x}]
<1> DEFINE it == SumsOver(f, S)
           T == {n \in Nat : \E t \in SUBSET S : \E x \in t :
                                Cardinality(t) = n /\ it[t] # f[x] + it[t \ {x}]}
<1>1. \A s \in SUBSET S : Cardinality(s) \in Nat
  BY FS_Subset, FS_CardinalityType
<1>0. \A s \in SUBSET S : it[s] \in Nat
  BY SumsAreNumbers
<1>a. \A s \in SUBSET S : it[s] = IF s = {} THEN 0 ELSE f[Any(s)] + it[s \ {Any(s)}]
  BY SumsUnfold
<1> HIDE DEF it
<1> SUFFICES ASSUME T # {} PROVE FALSE
  BY <1>1 DEF it
<1>2. PICK n \in T : \A m \in T : ~(m < n)
  BY LeastNumber
<1>b. PICK t \in SUBSET S : \E x \in t : Cardinality(t) = n /\ it[t] # f[x] + it[t \ {x}]
  BY <1>2
<1>3. PICK x \in t : Cardinality(t) = n /\ it[t] # f[x] + it[t \ {x}]
  BY <1>b
<1> DEFINE y == Any(t)
<1>4. y \in t /\ it[t] = f[y] + it[t \ {y}]
  BY <1>3, <1>a, AnyIsIn
<1>5. x # y
  BY <1>3, <1>4, Zenon
<1>6. /\ t \ {y} \in SUBSET S /\ Cardinality(t \ {y}) = n - 1
      /\ t \ {x} \in SUBSET S /\ Cardinality(t \ {x}) = n - 1
      /\ n \in Nat /\ n >= 1
  <2>1. /\ t \ {y} \in SUBSET S /\ Cardinality(t \ {y}) = Cardinality(t) - 1
        /\ Cardinality(t) \in Nat /\ Cardinality(t) >= 1
    BY <1>4, OneLess
  <2>2. t \ {x} \in SUBSET S /\ Cardinality(t \ {x}) = Cardinality(t) - 1
    BY <1>3, OneLess
  <2> QED BY <1>3, <2>1, <2>2
<1>7. n - 1 \in Nat /\ n - 1 \notin T
  <2>1. n - 1 \in Nat /\ n - 1 < n
    BY <1>6
  <2>2. n - 1 \notin T
    BY <1>2, <2>1, Zenon
  <2> QED BY <2>1, <2>2, Zenon
<1>8. \A s \in SUBSET S : \A z \in s : Cardinality(s) = n - 1 => it[s] = f[z] + it[s \ {z}]
  <2> SUFFICES ASSUME NEW s \in SUBSET S, NEW z \in s, Cardinality(s) = n - 1,
                      it[s] # f[z] + it[s \ {z}]
               PROVE  FALSE
    OBVIOUS
  <2>1. n - 1 \in T
    BY <1>7, Zenon
  <2> QED BY <1>7, <2>1, Zenon
<1>9. x \in t \ {y} /\ y \in t \ {x}
  BY <1>3, <1>4, <1>5
<1>10. /\ it[t \ {y}] = f[x] + it[(t \ {y}) \ {x}]
       /\ it[t \ {x}] = f[y] + it[(t \ {x}) \ {y}]
  BY <1>6, <1>8, <1>9, Zenon
<1>11. (t \ {y}) \ {x} = (t \ {x}) \ {y}
  OBVIOUS
<1>12. PICK r \in Nat : r = it[(t \ {y}) \ {x}]
  <2>1. (t \ {y}) \ {x} \in SUBSET S
    BY <1>3
  <2> QED BY <1>0, <2>1
<1>13. f[x] \in Nat /\ f[y] \in Nat
  BY <1>3, <1>4
<1>14. it[t] = f[y] + (f[x] + r) /\ it[t \ {x}] = f[y] + r
  BY <1>4, <1>10, <1>11, <1>12, Zenon
<1>15. it[t] = f[x] + it[t \ {x}]
  BY <1>13, <1>14
<1> QED BY <1>3, <1>15

-----------------------------------------------------------------------------
(* The byte counters *)

\* The summands of Bytes.
LineSizes(lines) == [i \in DOMAIN lines |-> LineBytes[lines[i]]]

LEMMA BytesAreSums ==
    ASSUME NEW lines \in Seq(Events)
    PROVE  /\ IsFiniteSet(1 .. Len(lines)) /\ LineSizes(lines) \in [1 .. Len(lines) -> Nat]
           /\ Bytes(lines) = SumsOver(LineSizes(lines), 1 .. Len(lines))[1 .. Len(lines)]
<1>1. DOMAIN lines = 1 .. Len(lines) /\ Len(lines) \in Nat
  OBVIOUS
<1>2. IsFiniteSet(1 .. Len(lines))
  BY <1>1, FS_Interval
<1>3. \A i \in DOMAIN lines : lines[i] \in Events
  OBVIOUS
<1>4. LineSizes(lines) \in [1 .. Len(lines) -> Nat]
  BY <1>1, <1>3, EventsAssumption DEF LineSizes
<1>5. DOMAIN LineSizes(lines) = 1 .. Len(lines)
  BY <1>1 DEF LineSizes
<1>6. Bytes(lines) = SumFunction(LineSizes(lines))
  BY Zenon DEF Bytes, LineSizes
<1>7. \A f : SumFunction(f) = SumsOver(f, DOMAIN f)[DOMAIN f]
  BY SumFunctionIs, Zenon
<1>8. SumFunction(LineSizes(lines))
        = SumsOver(LineSizes(lines), DOMAIN LineSizes(lines))[DOMAIN LineSizes(lines)]
  BY <1>7, Zenon
<1> QED BY <1>2, <1>4, <1>5, <1>6, <1>8, Zenon

LEMMA BytesType == ASSUME NEW lines \in Seq(Events) PROVE Bytes(lines) \in Nat
<1>1. 1 .. Len(lines) \in SUBSET (1 .. Len(lines))
  OBVIOUS
<1>2. /\ IsFiniteSet(1 .. Len(lines)) /\ LineSizes(lines) \in [1 .. Len(lines) -> Nat]
      /\ Bytes(lines) = SumsOver(LineSizes(lines), 1 .. Len(lines))[1 .. Len(lines)]
  BY BytesAreSums, Zenon
<1>3. SumsOver(LineSizes(lines), 1 .. Len(lines))[1 .. Len(lines)] \in Nat
  BY <1>1, <1>2, SumsAreNumbers
<1> QED BY <1>2, <1>3, Zenon

LEMMA BytesEmpty == Bytes(<<>>) = 0
<1>1. <<>> \in Seq(Events) /\ 1 .. Len(<<>>) = {}
  OBVIOUS
<1>2. /\ IsFiniteSet({}) /\ LineSizes(<<>>) \in [{} -> Nat]
      /\ Bytes(<<>>) = SumsOver(LineSizes(<<>>), {})[{}]
  BY <1>1, BytesAreSums, Zenon
<1>3. {} \in SUBSET {}
  OBVIOUS
<1>4. SumsOver(LineSizes(<<>>), {})[{}] = 0
  BY <1>2, <1>3, SumsUnfold, Zenon
<1> QED BY <1>2, <1>4

\* A line appended adds its size.
LEMMA BytesAppend ==
    ASSUME NEW lines \in Seq(Events), NEW e \in Events
    PROVE  Bytes(Append(lines, e)) = Bytes(lines) + LineBytes[e]
<1> DEFINE n == Len(lines)
           longer == Append(lines, e)
           f == LineSizes(lines)
           g == LineSizes(longer)
           S == 1 .. n
           R == 1 .. n + 1
<1>1. n \in Nat /\ longer \in Seq(Events) /\ Len(longer) = n + 1
  OBVIOUS
<1>2. /\ IsFiniteSet(S) /\ f \in [S -> Nat] /\ Bytes(lines) = SumsOver(f, S)[S]
  BY BytesAreSums, Zenon
<1>3. /\ IsFiniteSet(R) /\ g \in [R -> Nat] /\ Bytes(longer) = SumsOver(g, R)[R]
  BY <1>1, BytesAreSums, Zenon
<1>4. /\ g[n + 1] = LineBytes[e]
      /\ \A i \in S : f[i] = g[i]
  <2>1. longer[n + 1] = e /\ \A i \in S : longer[i] = lines[i]
    BY <1>1
  <2>2. DOMAIN lines = S /\ DOMAIN longer = R
    BY <1>1
  <2>3. n + 1 \in R /\ \A i \in S : i \in R
    BY <1>1
  <2> QED BY <2>1, <2>2, <2>3 DEF LineSizes
<1>5. S \subseteq R /\ n + 1 \in R /\ R \ {n + 1} = S /\ R \in SUBSET R /\ S \in SUBSET S
  BY <1>1
<1> HIDE DEF n, longer, f, g, S, R
<1>6. SumsOver(g, R)[R] = g[n + 1] + SumsOver(g, R)[S]
  <2>1. \A s \in SUBSET R : \A x \in s :
            SumsOver(g, R)[s] = g[x] + SumsOver(g, R)[s \ {x}]
    BY <1>3, SumsTakeAny
  <2>2. SumsOver(g, R)[R] = g[n + 1] + SumsOver(g, R)[R \ {n + 1}]
    BY <1>5, <2>1, Zenon
  <2> QED BY <1>5, <2>2, Zenon
<1>7. SumsOver(g, R)[S] = SumsOver(f, S)[S]
  <2>1. \A s \in SUBSET S : SumsOver(f, S)[s] = SumsOver(g, R)[s]
    BY <1>2, <1>3, <1>4, <1>5, SumsAgree
  <2> QED BY <1>5, <2>1, Zenon
<1>8. Bytes(longer) = LineBytes[e] + Bytes(lines)
  BY <1>2, <1>3, <1>4, <1>6, <1>7, Zenon
<1>9. Bytes(lines) \in Nat /\ LineBytes[e] \in Nat
  BY BytesType, EventsAssumption
<1> QED BY <1>8, <1>9 DEF longer

\* Appending a line keeps the counters exact, whether or not it fills the buffer.
LEMMA AppendLineBytes ==
    ASSUME DataTypes, BytesExact, batch = <<>>, NEW e \in Events, AppendLine(e)
    PROVE  BytesExact'
<1>1. Bytes(Append(buffer, e)) = bufferBytes + LineBytes[e]
  BY BytesAppend, Zenon DEF DataTypes, BytesExact
<1>2. CASE Fills(e)
  <2>1. /\ batch' = Append(buffer, e) /\ batchBytes' = bufferBytes + LineBytes[e]
        /\ buffer' = <<>> /\ bufferBytes' = 0
    BY <1>2 DEF AppendLine, StartPost
  <2> QED BY <1>1, <2>1, BytesEmpty, Zenon DEF BytesExact
<1>3. CASE ~Fills(e)
  <2>1. /\ buffer' = Append(buffer, e) /\ bufferBytes' = bufferBytes + LineBytes[e]
        /\ UNCHANGED <<batch, batchBytes>>
    BY <1>3 DEF AppendLine
  <2> QED BY <1>1, <2>1, Zenon DEF BytesExact
<1> QED BY <1>2, <1>3

LEMMA StartPostBytes ==
    ASSUME BytesExact, NEW caller, StartPost(buffer, bufferBytes, caller)
    PROVE  BytesExact'
BY BytesEmpty, Zenon DEF BytesExact, StartPost

LEMMA BatchLeavesBytes == ASSUME BytesExact, BatchLeaves PROVE BytesExact'
BY BytesEmpty, Zenon DEF BytesExact, BatchLeaves

LEMMA BytesStep == TypeControl /\ BytesExact /\ [Next]_vars => BytesExact'
<1> SUFFICES ASSUME TypeControl, BytesExact, [Next]_vars
             PROVE  BytesExact'
    OBVIOUS
<1>0. DataTypes /\ Control
  BY DEF TypeControl, TypeOK
<1>1. ASSUME NEW e \in Events, Write(e) PROVE BytesExact'
  <2>1. batch = <<>>
    BY <1>0, <1>1 DEF Write, Control
  <2>2. CASE Overflows(e)
    BY <1>1, <2>2, StartPostBytes DEF Write
  <2>3. CASE ~Overflows(e)
    BY <1>0, <1>1, <2>1, <2>3, AppendLineBytes DEF Write
  <2> QED BY <2>2, <2>3
<1>2. ASSUME NEW force \in BOOLEAN, Flush(force) PROVE BytesExact'
  BY <1>2, StartPostBytes DEF Flush
<1>3. CASE WriteResumes
  <2>1. batch = <<>> /\ Head(arg) \in Events /\ AppendLine(Head(arg))
    BY <1>0, <1>3 DEF WriteResumes, DataTypes, Control
  <2> QED BY <1>0, <2>1, AppendLineBytes
<1>4. CASE PostSucceeds
  BY <1>4, BatchLeavesBytes DEF PostSucceeds
<1>5. ASSUME NEW reached \in BOOLEAN, PostRetries(reached) PROVE BytesExact'
  BY <1>5, Zenon DEF PostRetries, BytesExact
<1>6. ASSUME NEW reached \in BOOLEAN, PostGivesUp(reached) PROVE BytesExact'
  BY <1>6, BatchLeavesBytes DEF PostGivesUp
<1>7. CASE RequestRejected
  BY <1>7, BatchLeavesBytes DEF RequestRejected
<1>8. CASE Close
  <2>1. CASE StartPost(buffer, bufferBytes, "close")
    BY <2>1, StartPostBytes
  <2>2. CASE UNCHANGED <<call, buffer, bufferBytes, sinceFlush, batch, batchBytes, attempt>>
    BY <2>2, Zenon DEF BytesExact
  <2> QED BY <1>8, <2>1, <2>2 DEF Close
<1>9. CASE Tick
  BY <1>9, Zenon DEF Tick, BytesExact
<1>10. CASE UNCHANGED vars
  BY <1>10, Zenon DEF vars, codeVars, BytesExact
<1>11. CASE CallerWrites
  BY <1>1, <1>11, StepEvent DEF CallerWrites
<1> QED
  BY <1>2, <1>3, <1>4, <1>5, <1>6, <1>7, <1>8, <1>9, <1>10, <1>11
  DEF Next, PostStep, CallerFlushes, CallerCloses

\* The counters write, flush and close keep by addition and reset are always the sizes
\* of what they count: no path through the calls leaves a byte of a line behind.
THEOREM BytesAlwaysExact == Spec => []BytesExact
<1>1. Init => BytesExact
  BY BytesEmpty, Zenon DEF Init, BytesExact
<1> QED BY <1>1, BytesStep, TypeControlAlways, PTL DEF Spec

-----------------------------------------------------------------------------
(* A closed writer stays empty, and its summary final *)

\* What close leaves behind: no call in progress and no line anywhere.
ClosedIsEmpty == closed => call = "idle" /\ batch = <<>> /\ buffer = <<>> /\ arg = <<>>

LEMMA ClosedEmptyStep == TypeControl /\ ClosedIsEmpty /\ [Next]_vars => ClosedIsEmpty'
<1> SUFFICES ASSUME TypeControl, ClosedIsEmpty, [Next]_vars
             PROVE  ClosedIsEmpty'
    OBVIOUS
<1>0. /\ arg = <<>> \/ call = "write"
      /\ call = "idle" => arg = <<>> /\ batch = <<>>
      /\ call # "idle" => buffer = <<>>
  BY Zenon DEF TypeControl, Control
<1>1. ASSUME batch # <<>>, BatchLeaves PROVE ClosedIsEmpty'
  <2>1. ~closed /\ buffer = <<>>
    BY <1>0, <1>1, Zenon DEF ClosedIsEmpty
  <2>2. /\ batch' = <<>> /\ call' = (IF arg = <<>> THEN "idle" ELSE "write")
        /\ closed' <=> (closed \/ call = "close")
        /\ arg' = arg /\ buffer' = buffer
    BY <1>1, Zenon DEF BatchLeaves
  <2>3. CASE call = "close"
    <3>1. arg = <<>>
      BY <1>0, <2>3
    <3> QED BY <2>1, <2>2, <3>1, Zenon DEF ClosedIsEmpty
  <2>4. CASE call # "close"
    BY <2>1, <2>2, <2>4, Zenon DEF ClosedIsEmpty
  <2> QED BY <2>3, <2>4
<1>2. ASSUME ~closed, closed' = closed PROVE ClosedIsEmpty'
  BY <1>2, Zenon DEF ClosedIsEmpty
<1>3. CASE CallerWrites
  BY <1>2, <1>3, Zenon DEF CallerWrites, Write
<1>4. CASE CallerFlushes
  BY <1>2, <1>4, Zenon DEF CallerFlushes, Flush
<1>5. CASE WriteResumes
  <2>1. ~closed /\ closed' = closed
    <3>1. call = "write" /\ closed' = closed
      BY <1>5, Zenon DEF WriteResumes
    <3>2. call # "idle"
      BY <3>1
    <3> QED BY <3>1, <3>2, Zenon DEF ClosedIsEmpty
  <2> QED BY <1>2, <2>1
<1>6. CASE PostStep
  <2>1. CASE PostSucceeds
    BY <1>1, <2>1, Zenon DEF PostSucceeds
  <2>2. ASSUME NEW reached \in BOOLEAN, PostRetries(reached) PROVE ClosedIsEmpty'
    BY <1>2, <2>2, Zenon DEF PostRetries, AttemptFails, ClosedIsEmpty
  <2>3. ASSUME NEW reached \in BOOLEAN, PostGivesUp(reached) PROVE ClosedIsEmpty'
    BY <1>1, <2>3, Zenon DEF PostGivesUp, AttemptFails
  <2>4. CASE RequestRejected
    BY <1>1, <2>4, Zenon DEF RequestRejected
  <2> QED BY <1>6, <2>1, <2>2, <2>3, <2>4, Zenon DEF PostStep
<1>7. CASE CallerCloses
  <2>1. call = "idle"
    BY <1>7, Zenon DEF CallerCloses, Close
  <2>2. CASE ~closed /\ UNCHANGED closed
    BY <1>2, <2>2, Zenon
  <2>3. CASE /\ closed \/ buffer = <<>>
             /\ UNCHANGED <<call, arg, buffer, batch>>
    BY <1>0, <2>1, <2>3, Zenon DEF ClosedIsEmpty
  <2> QED BY <1>7, <2>2, <2>3, Zenon DEF CallerCloses, Close
<1>8. CASE Tick
  BY <1>8, Zenon DEF Tick, ClosedIsEmpty
<1>9. CASE UNCHANGED vars
  BY <1>9, Zenon DEF vars, codeVars, ClosedIsEmpty
<1> QED BY <1>3, <1>4, <1>5, <1>6, <1>7, <1>8, <1>9, Zenon DEF Next

\* What SummaryFinal allows to a step.
SummaryStays ==
    closed => /\ Len(settled) = Len(handed)
              /\ UNCHANGED <<hec, settled, indexed>>

LEMMA SummaryStaysStep ==
    TypeControl /\ InOrderOnce /\ ClosedIsEmpty /\ [Next]_vars => [SummaryStays]_vars
<1> SUFFICES ASSUME TypeControl, InOrderOnce, ClosedIsEmpty, closed, Next
             PROVE  Len(settled) = Len(handed) /\ UNCHANGED <<hec, settled, indexed>>
    BY Zenon DEF SummaryStays
<1>0. call = "idle" /\ batch = <<>> /\ buffer = <<>> /\ arg = <<>>
  BY Zenon DEF ClosedIsEmpty
<1>1. handed = settled
  <2>1. settled \in Seq(Events)
    BY Zenon DEF TypeControl, TypeOK, DataTypes
  <2>2. handed = ((settled \o <<>>) \o <<>>) \o <<>>
    BY <1>0, Zenon DEF InOrderOnce
  <2>3. settled \o <<>> = settled
    BY <2>1, ConcatEmptySeq, Zenon
  <2> QED BY <2>2, <2>3, Zenon
<1>2. ~CallerWrites /\ ~CallerFlushes /\ ~PostStep
  BY <1>0, Zenon
  DEF CallerWrites, CallerFlushes, PostStep, PostSucceeds, PostRetries, PostGivesUp,
      AttemptFails, RequestRejected
<1>3. ~WriteResumes
  <2>1. WriteResumes => call = "write"
    BY Zenon DEF WriteResumes
  <2> QED BY <1>0, <2>1
<1>4. CASE CallerCloses
  BY <1>1, <1>4, Zenon DEF CallerCloses, Close, historyVars, hec
<1>5. CASE Tick
  BY <1>1, <1>5, Zenon DEF Tick, historyVars, hec
<1> QED BY <1>2, <1>3, <1>4, <1>5, Zenon DEF Next

\* Once close has returned the writer holds nothing and no later step, a repeated close
\* included, changes a total of the close summary or what HEC has been sent.
THEOREM SummaryAlwaysFinal == Spec => SummaryFinal
<1>1. Init => ClosedIsEmpty
  BY Zenon DEF Init, ClosedIsEmpty
<1>2. Spec => []ClosedIsEmpty
  BY <1>1, ClosedEmptyStep, TypeControlAlways, PTL DEF Spec
<1>3. Spec => [][SummaryStays]_vars
  BY <1>2, SummaryStaysStep, OrderKept, TypeControlAlways, PTL DEF Spec
<1> QED BY <1>3, PTL DEF SummaryFinal, SummaryStays
=============================================================================
