--------------------------- MODULE SubscriberProofs ---------------------------
(***************************************************************************)
(* Proofs about Subscriber, for every number of messages, every queue and  *)
(* drain, and every setting of the writer: no message is lost silently or  *)
(* reordered, the statistics are exact, the memory is bounded, the network *)
(* thread is at rest while the main thread sleeps or connects, and the     *)
(* input implements the event pipe and follows the reconnect policy.       *)
(***************************************************************************)
EXTENDS Subscriber, SequenceTheorems, FiniteSetTheorems, NaturalsInduction, TLAPS

\* What the proofs need of the types.
Shape ==
    /\ arg \in Seq(Events) /\ buffer \in Seq(Events) /\ batch \in Seq(Events)
    /\ handed \in Seq(Events) /\ settled \in Seq(Events)
    /\ pending \in Seq(Events) /\ queue \in Seq(Events)
    /\ arrived \in 0 .. NumEvents

-------------------------------------------------------------------------------
(* What a step of the writer makes of its events and of the call in progress *)

\* write: the line waits for a pre-flush, fills a batch, or joins the buffer.
Hands(e) ==
    /\ call = "idle"
    /\ handed' = Append(handed, e) /\ settled' = settled
    /\ \/ arg' = <<e>> /\ batch' = buffer /\ buffer' = <<>> /\ call' = "write"
       \/ arg' = <<>> /\ batch' = Append(buffer, e) /\ buffer' = <<>> /\ call' = "write"
       \/ /\ arg' = <<>> /\ batch' = batch /\ buffer' = Append(buffer, e) /\ call' = "idle"
          /\ ~(Len(buffer) + 1 >= BatchMaxEvents)

\* ... of the single-event writer.
HandsOver(e) ==
    /\ handed' = Append(handed, e) /\ settled' = Append(settled, e)
    /\ UNCHANGED <<call, arg, buffer, batch>>

\* The rest of write after its pre-flush.
Resumes ==
    /\ call = "write" /\ batch = <<>> /\ arg' = <<>>
    /\ handed' = handed /\ settled' = settled
    /\ \/ batch' = Append(buffer, Head(arg)) /\ buffer' = <<>> /\ call' = "write"
       \/ /\ batch' = batch /\ buffer' = Append(buffer, Head(arg)) /\ call' = "idle"
          /\ ~(Len(buffer) + 1 >= BatchMaxEvents)

\* flush with something to post.
Posts ==
    /\ call = "idle" /\ buffer # <<>>
    /\ batch' = buffer /\ buffer' = <<>> /\ call' = "flush"
    /\ UNCHANGED <<arg, handed, settled>>

\* A batch is sent or dropped.
Settles ==
    /\ batch # <<>> /\ batch' = <<>>
    /\ settled' = settled \o batch
    /\ call' = IF arg = <<>> THEN "idle" ELSE "write"
    /\ UNCHANGED <<arg, buffer, handed>>

Still == UNCHANGED <<call, arg, buffer, batch, handed, settled>>

LEMMA WriteHands == ASSUME NEW e, W!Write(e) PROVE Hands(e)
BY Zenon DEF W!Write, W!AppendLine, W!StartPost, W!Fills, Hands

LEMMA FlushPosts == ASSUME NEW force, W!Flush(force) PROVE Posts
BY Zenon DEF W!Flush, W!FlushDue, W!StartPost, W!historyVars, Posts

LEMMA CallFlushKinds ==
    ASSUME NEW force, CallFlush(force)
    PROVE  Still \/ (batchMode /\ Posts)
BY FlushPosts, Zenon DEF CallFlush, writerVars, writerObject, Still

LEMMA WriterStepKinds == W!PostStep \/ W!WriteResumes => Settles \/ Resumes \/ Still
<1>1. W!WriteResumes => Resumes
  BY Zenon DEF W!WriteResumes, W!AppendLine, W!StartPost, W!Fills, W!historyVars, Resumes
<1>2. W!PostSucceeds => Settles
  BY Zenon DEF W!PostSucceeds, W!BatchLeaves, Settles
<1>3. ASSUME NEW reached, W!PostRetries(reached) PROVE Still
  BY <1>3, Zenon DEF W!PostRetries, Still
<1>4. ASSUME NEW reached, W!PostGivesUp(reached) PROVE Settles
  BY <1>4, Zenon DEF W!PostGivesUp, W!AttemptFails, W!BatchLeaves, Settles
<1>5. W!RequestRejected => Settles
  BY Zenon DEF W!RequestRejected, W!BatchLeaves, Settles
<1> QED BY <1>1, <1>2, <1>3, <1>4, <1>5, Zenon DEF W!PostStep

LEMMA SingleHandsOver == ASSUME NEW e, WriteSingle(e) PROVE HandsOver(e)
BY Zenon DEF WriteSingle, writerObject, HandsOver

-------------------------------------------------------------------------------
(* Where the main thread can be inside the writer *)

\* As in the writer itself: a line waits in arg only while write pre-flushes, a call in
\* progress has a batch to post or a line to append, and has taken the buffer over.
WriterControl ==
    /\ call \in {"idle", "write", "flush"}
    /\ arg = <<>> \/ (call = "write" /\ \E e \in Events : arg = <<e>>)
    /\ call = "idle" => arg = <<>> /\ batch = <<>>
    /\ call # "idle" => buffer = <<>> /\ (batch # <<>> \/ arg # <<>>)

\* Before the main thread sleeps, connects again or leaves, it has given up its drain,
\* emptied the writer's buffer and joined the network thread.
MainControl ==
    /\ pc \notin {"drain", "write", "record"} => pending = <<>>
    /\ pc \in {"drain", "write"} => pending # <<>>
    /\ pc \in {"stop", "sleep", "connect", "exited"} => buffer = <<>>
    /\ call # "idle" => pc \in {"record", "get", "stop"}
    /\ call = "write" => pc = "record"
    /\ pc \in {"sleep", "connect", "exited"} => link = "none" /\ callback = "idle"

\* The single-event writer has neither buffer nor calls in progress.
SingleControl == batchMode \/ (call = "idle" /\ buffer = <<>>)

Core == Shape /\ WriterControl /\ MainControl /\ SingleControl

WriterShape ==
    /\ arg \in Seq(Events) /\ buffer \in Seq(Events) /\ batch \in Seq(Events)
    /\ handed \in Seq(Events) /\ settled \in Seq(Events)

LEMMA HandsShape ==
    ASSUME WriterShape, WriterControl, NEW e \in Events, Hands(e)
    PROVE  WriterShape' /\ WriterControl' /\ call' \in {"idle", "write"}
<1>1. /\ Append(handed, e) \in Seq(Events)
      /\ Append(buffer, e) \in Seq(Events) /\ Append(buffer, e) # <<>>
  BY AppendProperties DEF WriterShape
<1>2. <<e>> \in Seq(Events) /\ <<e>> # <<>> /\ <<>> \in Seq(Events)
  OBVIOUS
<1>3. arg = <<>> /\ batch = <<>> /\ call = "idle"
  BY DEF Hands, WriterControl
<1>4. WriterShape'
  BY <1>1, <1>2, <1>3 DEF Hands, WriterShape
<1>5. WriterControl' /\ call' \in {"idle", "write"}
  BY <1>1, <1>2, <1>3 DEF Hands, WriterControl
<1> QED BY <1>4, <1>5

LEMMA HandsOverShape ==
    ASSUME WriterShape, WriterControl, NEW e \in Events, HandsOver(e)
    PROVE  WriterShape' /\ WriterControl'
<1>1. Append(handed, e) \in Seq(Events) /\ Append(settled, e) \in Seq(Events)
  BY AppendProperties DEF WriterShape
<1> QED BY <1>1 DEF HandsOver, WriterShape, WriterControl

LEMMA PostsShape ==
    ASSUME WriterShape, WriterControl, Posts
    PROVE  WriterShape' /\ WriterControl'
<1>1. <<>> \in Seq(Events)
  OBVIOUS
<1> QED BY <1>1 DEF Posts, WriterShape, WriterControl

LEMMA ResumesShape ==
    ASSUME WriterShape, WriterControl, Resumes
    PROVE  /\ WriterShape' /\ WriterControl'
           /\ \E e \in Events : arg = <<e>> /\ Head(arg) = e
<1>1. PICK e \in Events : arg = <<e>>
  BY DEF Resumes, WriterControl
<1>2. Head(arg) = e
  BY <1>1
<1>3. Append(buffer, e) \in Seq(Events) /\ Append(buffer, e) # <<>> /\ <<>> \in Seq(Events)
  BY AppendProperties DEF WriterShape
<1>4. WriterShape'
  BY <1>2, <1>3 DEF Resumes, WriterShape
<1>5. WriterControl'
  BY <1>2, <1>3 DEF Resumes, WriterControl
<1> QED BY <1>1, <1>2, <1>4, <1>5

LEMMA SettlesShape ==
    ASSUME WriterShape, WriterControl, Settles
    PROVE  WriterShape' /\ WriterControl'
<1>1. settled \o batch \in Seq(Events) /\ <<>> \in Seq(Events)
  BY ConcatProperties DEF WriterShape
<1> QED BY <1>1 DEF Settles, WriterShape, WriterControl

LEMMA StillShape == WriterShape /\ WriterControl /\ Still => WriterShape' /\ WriterControl'
BY Zenon DEF Still, WriterShape, WriterControl

LEMMA NoWriterStep == UNCHANGED writerVars => Still
BY Zenon DEF writerVars, writerObject, Still

\* A write, which the main thread calls only at its place for it.
Writes ==
    /\ pc = "write"
    /\ Hands(Head(pending)) \/ (~batchMode /\ HandsOver(Head(pending)))

LEMMA WriteKinds == Write => Writes
BY WriteHands, SingleHandsOver, Zenon DEF Write, MainAt, Writes

\* What a step of the system makes of the writer.
LEMMA WriterKinds ==
    ASSUME [Next]_vars
    PROVE  Still \/ Posts \/ Settles \/ Resumes \/ Writes
<1>1. CASE UNCHANGED vars \/ Clock
  BY <1>1, Zenon DEF vars, writerVars, writerObject, Clock, W!Tick, Still, W!historyVars
<1>2. CASE NetworkStep
  BY <1>2, NoWriterStep, Zenon DEF NetworkStep, NetworkFrame, OnConnect, OnMessageRaises, Disconnected,
     PahoReconnects, MessageArrives, MessageCounted
<1>3. CASE Connect \/ ConnectFails \/ Get \/ Drain \/ WriteFails \/ RecordWrite \/ StopNetwork \/ Wake
  BY <1>3, NoWriterStep, Zenon DEF Connect, ConnectFails, Get, Drain, WriteFails, RecordWrite,
     StopNetwork, Wake
<1>4. CASE FlushIfDue \/ Cleanup
  BY <1>4, CallFlushKinds, Zenon DEF FlushIfDue, Cleanup
<1>5. CASE Write
  BY <1>5, WriteKinds, Zenon
<1>6. CASE WriterStep
  BY <1>6, WriterStepKinds, Zenon DEF WriterStep
<1> QED BY <1>1, <1>2, <1>3, <1>4, <1>5, <1>6, Zenon DEF Next, MainStep

\* The messages on their way to the writer, and those that never get there, stay as
\* they are.
Steady == UNCHANGED <<handed, pending, queue, missed, abandoned, arrived>>

\* A drain takes the next message.
TakesFirst ==
    /\ call = "idle" /\ pending = <<>> /\ queue # <<>>
    /\ pending' = <<Head(queue)>> /\ queue' = Tail(queue)

TakesNext ==
    /\ call = "idle" /\ queue # <<>> /\ Len(pending) < DrainBatch
    /\ pending' = Append(pending, Head(queue)) /\ queue' = Tail(queue)

Arrives ==
    /\ arrived < NumEvents /\ arrived' = arrived + 1
    /\ pending' = pending /\ abandoned' = abandoned
    /\ \/ /\ Len(queue) < QueueCapacity
          /\ queue' = Append(queue, arrived + 1) /\ missed' = missed
       \/ queue' = queue /\ missed' = missed \cup {arrived + 1}

\* What a step of the system makes of the messages outside the writer.
LEMMA ThreadKinds ==
    ASSUME Core, [Next]_vars
    PROVE  \/ Steady
           \/ (TakesFirst \/ TakesNext) /\ Still /\ UNCHANGED <<missed, abandoned, arrived>>
           \/ /\ Write /\ Writes /\ pending # <<>> /\ pending' = Tail(pending)
              /\ UNCHANGED <<queue, missed, abandoned, arrived>>
           \/ /\ WriteFails /\ Still /\ pending' = <<>>
              /\ abandoned' = abandoned \cup Range(pending)
              /\ UNCHANGED <<queue, missed, arrived>>
           \/ Arrives /\ Still
<1>1. CASE UNCHANGED vars \/ Clock
  BY <1>1, Zenon DEF vars, mainVars, networkVars, writerVars, Clock, W!Tick, W!historyVars, Steady
<1>9. CASE WriterStep
  BY <1>9, WriterStepKinds, Zenon DEF WriterStep, mainVars, networkVars, Settles, Resumes, Still,
     Steady
<1>2. CASE OnConnect \/ OnMessageRaises \/ Disconnected \/ PahoReconnects \/ MessageCounted
  BY <1>2, Zenon DEF OnConnect, OnMessageRaises, Disconnected, PahoReconnects, MessageCounted, NetworkFrame,
     MessageVars, mainVars, writerVars, Steady
<1>3. CASE MessageArrives
  <2>1. Still
    BY <1>3, NoWriterStep, Zenon DEF MessageArrives, NetworkFrame
  <2>2. /\ arrived < NumEvents /\ arrived' = arrived + 1
        /\ pending' = pending /\ abandoned' = abandoned
        /\ \/ /\ ~(Len(queue) >= QueueCapacity)
              /\ queue' = Append(queue, arrived + 1) /\ missed' = missed
           \/ queue' = queue /\ missed' = missed \cup {arrived + 1}
    BY <1>3, Zenon DEF MessageArrives, NetworkFrame, mainVars, QueueFull
  <2>3. Len(queue) \in Nat
    BY LenProperties DEF Core, Shape
  <2>4. ~(Len(queue) >= QueueCapacity) => Len(queue) < QueueCapacity
    BY <2>3, SubscriberAssumption
  <2> QED BY <2>1, <2>2, <2>4, Zenon DEF Arrives
<1>4. CASE Connect \/ ConnectFails \/ RecordWrite \/ StopNetwork \/ Wake
  BY <1>4, Zenon DEF Connect, ConnectFails, RecordWrite, StopNetwork, Wake, networkVars, mainVars,
     writerVars, Steady
<1>10. CASE FlushIfDue \/ Cleanup
  BY <1>10, CallFlushKinds, Zenon DEF FlushIfDue, Cleanup, Posts, Still, networkVars, Steady
<1>5. CASE Get
  <2>1. pc = "get" /\ Still
    BY <1>5, NoWriterStep, Zenon DEF Get, MainAt
  <2>2. pending = <<>>
    BY <2>1 DEF Core, MainControl
  <2> QED BY <1>5, <2>1, <2>2, Zenon DEF Get, MainAt, networkVars, TakesFirst
<1>6. CASE Drain
  BY <1>6, NoWriterStep, Zenon DEF Drain, MainAt, DrainGoesOn, networkVars, Still, TakesNext,
     Steady
<1>7. CASE Write
  <2>1. pc = "write"
    BY <1>7, Zenon DEF Write, MainAt
  <2>2. pending # <<>>
    BY <2>1 DEF Core, MainControl
  <2>3. /\ pending' = Tail(pending) /\ UNCHANGED <<queue, missed, abandoned, arrived>>
    BY <1>7, Zenon DEF Write, networkVars
  <2> QED BY <1>7, <2>2, <2>3, WriteKinds, Zenon
<1>8. CASE WriteFails
  BY <1>8, NoWriterStep, Zenon DEF WriteFails, networkVars
<1> QED BY <1>1, <1>2, <1>3, <1>4, <1>5, <1>6, <1>7, <1>8, <1>9, <1>10, Zenon
           DEF Next, MainStep, NetworkStep

LEMMA ShapeStep ==
    ASSUME Core, [Next]_vars
    PROVE  Shape' /\ WriterControl'
<1>0. WriterShape /\ pending \in Seq(Events) /\ queue \in Seq(Events) /\ arrived \in 0 .. NumEvents
  BY DEF Core, Shape, WriterShape
<1>1. WriterShape' /\ WriterControl'
  <2>1. ASSUME Writes PROVE WriterShape' /\ WriterControl'
    <3>1. pending # <<>>
      BY <2>1 DEF Writes, Core, MainControl
    <3>2. Head(pending) \in Events
      BY <1>0, <3>1, HeadTailProperties, Zenon
    <3> QED BY <1>0, <2>1, <3>2, HandsShape, HandsOverShape, Zenon DEF Writes, Core
  <2> QED BY <1>0, <2>1, WriterKinds, StillShape, PostsShape, SettlesShape, ResumesShape, Zenon
          DEF Core
<1>2. pending' \in Seq(Events) /\ queue' \in Seq(Events) /\ arrived' \in 0 .. NumEvents
  <2>1. CASE Steady
    BY <1>0, <2>1 DEF Steady
  <2>2. CASE (TakesFirst \/ TakesNext) /\ arrived' = arrived
    <3>1. Head(queue) \in Events /\ Tail(queue) \in Seq(Events)
      BY <1>0, <2>2, HeadTailProperties, Zenon DEF TakesFirst, TakesNext
    <3>2. <<Head(queue)>> \in Seq(Events) /\ Append(pending, Head(queue)) \in Seq(Events)
      BY <1>0, <3>1, AppendProperties
    <3> QED BY <1>0, <2>2, <3>1, <3>2 DEF TakesFirst, TakesNext
  <2>3. CASE pending # <<>> /\ pending' = Tail(pending) /\ UNCHANGED <<queue, arrived>>
    <3>1. Tail(pending) \in Seq(Events)
      BY <1>0, <2>3, HeadTailProperties, Zenon
    <3> QED BY <1>0, <2>3, <3>1, Zenon
  <2>4. CASE pending' = <<>> /\ UNCHANGED <<queue, arrived>>
    BY <1>0, <2>4
  <2>5. CASE Arrives
    <3>1. arrived + 1 \in Events /\ arrived + 1 \in 0 .. NumEvents
      BY <1>0, <2>5, SubscriberAssumption DEF Arrives, Events
    <3>2. Append(queue, arrived + 1) \in Seq(Events)
      BY <1>0, <3>1, AppendProperties
    <3> QED BY <1>0, <2>5, <3>1, <3>2, Zenon DEF Arrives
  <2> QED BY <2>1, <2>2, <2>3, <2>4, <2>5, ThreadKinds, Zenon
<1> QED BY <1>1, <1>2, Zenon DEF WriterShape, Shape

LEMMA SingleStep ==
    ASSUME Core, [Next]_vars
    PROVE  SingleControl'
<1>1. batchMode' = batchMode
  BY Zenon DEF vars, Next, MainStep, Connect, ConnectFails, Get, Drain, Write, WriteFails,
     RecordWrite, FlushIfDue, Cleanup, StopNetwork, Wake, WriterStep, NetworkStep, OnConnect, OnMessageRaises,
     Disconnected, PahoReconnects, MessageArrives, MessageCounted, NetworkFrame, Clock
<1>2. CASE batchMode
  BY <1>1, <1>2, Zenon DEF SingleControl
<1>3. CASE ~batchMode
  <2>1. /\ call = "idle" /\ buffer = <<>> /\ arg = <<>> /\ batch = <<>>
    BY <1>3, Zenon DEF Core, SingleControl, WriterControl
  <2>2. CASE Write
    <3>1. WriteSingle(Head(pending))
      BY <1>3, <2>2, Zenon DEF Write
    <3> QED BY <2>1, <3>1, SingleHandsOver, Zenon DEF HandsOver, SingleControl
  <2>3. CASE FlushIfDue \/ Cleanup
    BY <1>3, <2>1, <2>3, CallFlushKinds, Zenon DEF FlushIfDue, Cleanup, Still, SingleControl
  <2>4. Still \/ Settles \/ Resumes \/ Write \/ FlushIfDue \/ Cleanup
    <3>1. CASE UNCHANGED vars \/ Clock
      BY <3>1, Zenon DEF vars, writerVars, writerObject, Clock, W!Tick, Still, W!historyVars
    <3>2. CASE NetworkStep
      BY <3>2, NoWriterStep, Zenon DEF NetworkStep, NetworkFrame, OnConnect, OnMessageRaises, Disconnected,
         PahoReconnects, MessageArrives, MessageCounted
    <3>3. CASE Connect \/ ConnectFails \/ Get \/ Drain \/ WriteFails \/ RecordWrite \/ StopNetwork
               \/ Wake
      BY <3>3, NoWriterStep, Zenon DEF Connect, ConnectFails, Get, Drain, WriteFails,
         RecordWrite, StopNetwork, Wake
    <3>4. CASE WriterStep
      BY <3>4, WriterStepKinds, Zenon DEF WriterStep
    <3> QED BY <3>1, <3>2, <3>3, <3>4, Zenon DEF Next, MainStep
  <2>5. ~Settles /\ ~Resumes
    BY <2>1 DEF Settles, Resumes
  <2> QED BY <2>1, <2>2, <2>3, <2>4, <2>5, Zenon DEF Still, SingleControl
<1> QED BY <1>2, <1>3

LEMMA ControlStep ==
    ASSUME Core, [Next]_vars
    PROVE  MainControl'
<1>0. MainControl /\ WriterControl /\ Shape
  BY DEF Core
<1>1. CASE UNCHANGED vars \/ Clock
  <2>1. /\ Still /\ UNCHANGED <<pc, pending, link, callback>>
    BY <1>1, Zenon DEF vars, writerVars, writerObject, Clock, W!Tick, W!historyVars, mainVars,
       networkVars, Still
  <2> QED BY <1>0, <2>1, Zenon DEF Still, MainControl
<1>2. CASE NetworkStep
  <2>1. Still /\ UNCHANGED <<pc, pending>> /\ (link # "none" \/ (callback # "idle" /\ link' = link))
    BY <1>2, NoWriterStep, Zenon DEF NetworkStep, NetworkFrame, mainVars, OnConnect, OnMessageRaises, Disconnected,
         PahoReconnects, MessageArrives, MessageCounted
  <2> QED BY <1>0, <2>1 DEF Still, MainControl
<1>3. CASE Connect
  <2>1. /\ Still /\ pending' = pending /\ pc = "connect" /\ pc' = "get" /\ call = "idle"
    BY <1>3, NoWriterStep, Zenon DEF Connect, MainAt
  <2> QED BY <1>0, <2>1 DEF Still, MainControl
<1>4. CASE ConnectFails
  <2>1. /\ Still /\ pending' = pending /\ pc = "connect" /\ pc' = "cleanup" /\ call = "idle"
    BY <1>4, NoWriterStep, Zenon DEF ConnectFails, MainAt
  <2> QED BY <1>0, <2>1 DEF Still, MainControl
<1>5. CASE Get
  <2>1. /\ Still /\ pending' = <<Head(queue)>> /\ pc' = "drain" /\ call = "idle"
    BY <1>5, NoWriterStep, Zenon DEF Get, MainAt
  <2> QED BY <1>0, <2>1 DEF Still, MainControl
<1>6. CASE Drain
  <2>1. /\ Still /\ call = "idle" /\ pc = "drain" /\ pc' \in {"drain", "write"}
        /\ \/ queue # <<>> /\ pending' = Append(pending, Head(queue))
           \/ pending' = pending
    BY <1>6, NoWriterStep, Zenon DEF Drain, DrainGoesOn, MainAt
  <2>2. queue # <<>> => Append(pending, Head(queue)) # <<>>
    BY <1>0, HeadTailProperties, AppendProperties, SMTT(60) DEF Shape
  <2> QED BY <1>0, <2>1, <2>2 DEF Still, MainControl
<1>7. CASE Write
  <2>1. Writes /\ pc' = "record"
    BY <1>7, WriteKinds, Zenon DEF Write
  <2>2. CASE Hands(Head(pending))
    BY <2>1, <2>2 DEF Hands, MainControl
  <2>3. CASE HandsOver(Head(pending))
    BY <1>0, <2>1, <2>3 DEF HandsOver, MainControl
  <2> QED BY <2>1, <2>2, <2>3, Zenon DEF Writes
<1>8. CASE WriteFails
  <2>1. Still /\ pending' = <<>> /\ pc' = "cleanup" /\ call = "idle"
    BY <1>8, NoWriterStep, Zenon DEF WriteFails, MainAt
  <2> QED BY <2>1 DEF Still, MainControl
<1>9. CASE RecordWrite
  <2>1. /\ Still /\ call = "idle" /\ pending' = pending
        /\ pc' = IF pending = <<>> THEN "flush" ELSE "write"
    BY <1>9, NoWriterStep, Zenon DEF RecordWrite, MainAt
  <2> QED BY <2>1 DEF Still, MainControl
<1>10. CASE FlushIfDue
  <2>1. Still \/ Posts
    BY <1>10, CallFlushKinds, Zenon DEF FlushIfDue
  <2>2. pc = "flush" /\ pc' = "get" /\ pending' = pending /\ call = "idle"
    BY <1>10, Zenon DEF FlushIfDue, MainAt
  <2> QED BY <1>0, <2>1, <2>2 DEF Still, Posts, MainControl
<1>11. CASE Cleanup
  <2>1. /\ pc = "cleanup" /\ pc' = "stop" /\ pending' = pending /\ call = "idle"
    BY <1>11, Zenon DEF Cleanup, MainAt
  <2>2. Posts \/ (Still /\ buffer = <<>>)
    <3>1. CASE batchMode
      BY <1>11, <3>1, FlushPosts, NoWriterStep, Zenon DEF Cleanup, CallFlush, W!FlushDue
    <3>2. CASE ~batchMode
      BY <1>11, <3>2, NoWriterStep, Zenon DEF Cleanup, CallFlush, Core, SingleControl
    <3> QED BY <3>1, <3>2
  <2> QED BY <1>0, <2>1, <2>2 DEF Still, Posts, MainControl
<1>12. CASE StopNetwork
  <2>1. /\ Still /\ pending' = pending /\ pc = "stop" /\ pc' \in {"exited", "sleep"}
        /\ call = "idle" /\ link' = "none" /\ callback' = callback /\ callback = "idle"
    BY <1>12, NoWriterStep, Zenon DEF StopNetwork, MainAt
  <2> QED BY <1>0, <2>1 DEF Still, MainControl
<1>13. CASE Wake
  <2>1. /\ Still /\ pending' = pending /\ pc = "sleep" /\ pc' = "connect" /\ call = "idle"
        /\ UNCHANGED <<link, callback>>
    BY <1>13, NoWriterStep, Zenon DEF Wake, MainAt, networkVars
  <2> QED BY <1>0, <2>1 DEF Still, MainControl
<1>14. CASE WriterStep
  <2>1. UNCHANGED <<pc, pending, link, callback>> /\ (Settles \/ Resumes \/ Still)
    BY <1>14, WriterStepKinds, Zenon DEF WriterStep, mainVars, networkVars
  <2>2. CASE Settles
    BY <1>0, <2>1, <2>2 DEF Settles, WriterControl, MainControl
  <2>3. CASE Resumes
    BY <1>0, <2>1, <2>3 DEF Resumes, MainControl
  <2>4. CASE Still
    BY <1>0, <2>1, <2>4, Zenon DEF Still, MainControl
  <2> QED BY <2>1, <2>2, <2>3, <2>4, Zenon
<1> QED BY <1>1, <1>2, <1>3, <1>4, <1>5, <1>6, <1>7, <1>8, <1>9, <1>10, <1>11, <1>12, <1>13, <1>14,
           Zenon DEF Next, MainStep

LEMMA CoreInit == Init => Core
<1> SUFFICES ASSUME Init PROVE Core
    OBVIOUS
<1>1. /\ pc = "connect" /\ pending = <<>> /\ queue = <<>> /\ link = "none" /\ callback = "idle"
      /\ arrived = 0
      /\ call = "idle" /\ arg = <<>> /\ buffer = <<>> /\ batch = <<>>
      /\ handed = <<>> /\ settled = <<>>
  BY Zenon DEF Init, W!Init
<1>2. <<>> \in Seq(Events) /\ 0 \in 0 .. NumEvents
  BY SubscriberAssumption
<1>3. Shape /\ WriterControl /\ MainControl
  BY <1>1, <1>2 DEF Shape, WriterControl, MainControl
<1> QED BY <1>1, <1>3, Zenon DEF Core, SingleControl

LEMMA CoreAlways == Spec => []Core
<1>1. Core /\ [Next]_vars => Core'
  BY ShapeStep, SingleStep, ControlStep, Zenon DEF Core
<1> QED BY CoreInit, <1>1, PTL DEF Spec

\* The network thread is joined and the pipe empty but for the queue while the main
\* thread sleeps, connects or has left its loop: the finally block on every path to them.
THEOREM AlwaysQuietWhileAway == Spec => []QuietWhileAway
<1>1. Core => QuietWhileAway
  <2> SUFFICES ASSUME Core, pc \in {"sleep", "connect", "exited"}
               PROVE  link = "none" /\ callback = "idle" /\ pending = <<>> /\ InFlight = queue
    BY Zenon DEF QuietWhileAway
  <2>1. link = "none" /\ callback = "idle" /\ pending = <<>> /\ buffer = <<>> /\ call = "idle"
    BY DEF Core, MainControl
  <2>2. batch = <<>> /\ arg = <<>>
    BY <2>1 DEF Core, WriterControl
  <2>3. <<>> \o <<>> = <<>> /\ <<>> \o queue = queue
    BY ConcatEmptySeq, EmptySeq DEF Core, Shape
  <2> QED BY <2>1, <2>2, <2>3, Zenon DEF InFlight
<1> QED BY <1>1, CoreAlways, PTL

-------------------------------------------------------------------------------
(* Order inside the writer *)

\* The events accepted by the writer and not yet settled, oldest first.
InPipe == batch \o buffer \o arg

WriterInOrder == handed = settled \o InPipe

\* At rest only the buffer holds events, and during a call it holds none.
LEMMA PipeByCall ==
    ASSUME WriterShape, WriterControl
    PROVE  /\ InPipe \in Seq(Events)
           /\ call = "idle" => InPipe = buffer
           /\ batch = <<>> /\ call # "idle" => InPipe = arg
           /\ batch # <<>> => InPipe = batch \o arg
<1>1. \A s \in Seq(Events) : s \o <<>> = s /\ <<>> \o s = s
  BY ONLY ConcatEmptySeq
<1>2. InPipe \in Seq(Events)
  BY ConcatProperties DEF WriterShape, InPipe
<1> QED BY <1>1, <1>2 DEF WriterShape, WriterControl, InPipe

LEMMA HandsPipe ==
    ASSUME WriterShape, WriterControl, NEW e \in Events, Hands(e)
    PROVE  InPipe' = Append(InPipe, e)
<1>1. InPipe = buffer /\ batch = <<>> /\ buffer \in Seq(Events)
  BY PipeByCall DEF Hands, WriterControl, WriterShape
<1>2. Append(buffer, e) \in Seq(Events) /\ Append(buffer, e) = buffer \o <<e>>
  BY <1>1, AppendProperties, AppendIsConcat
<1>3. /\ Append(buffer, e) \o <<>> = Append(buffer, e)
      /\ <<>> \o Append(buffer, e) = Append(buffer, e)
      /\ buffer \o <<>> = buffer
  BY ONLY <1>1, <1>2, ConcatEmptySeq
<1> QED BY <1>1, <1>2, <1>3 DEF Hands, InPipe

LEMMA PostsPipe == ASSUME WriterShape, WriterControl, Posts PROVE InPipe' = InPipe
<1>1. arg = <<>> /\ batch = <<>> /\ buffer \in Seq(Events)
  BY DEF Posts, WriterControl, WriterShape
<1>2. buffer \o <<>> = buffer /\ <<>> \o buffer = buffer
  BY ONLY <1>1, ConcatEmptySeq
<1> QED BY <1>1, <1>2 DEF Posts, InPipe

LEMMA ResumesPipe == ASSUME WriterShape, WriterControl, Resumes PROVE InPipe' = InPipe
<1>1. PICK e \in Events : arg = <<e>> /\ Head(arg) = e
  BY ResumesShape
<1>2. buffer = <<>> /\ batch = <<>> /\ arg' = <<>>
  BY DEF Resumes, WriterControl
<1>3. <<e>> \in Seq(Events) /\ Append(<<>>, e) = <<>> \o <<e>>
  BY AppendIsConcat
<1>4. <<>> \o <<e>> = <<e>> /\ <<e>> \o <<>> = <<e>> /\ <<>> \o <<>> = <<>>
  BY ONLY <1>3, ConcatEmptySeq, EmptySeq
<1> QED BY <1>1, <1>2, <1>3, <1>4 DEF Resumes, InPipe

LEMMA SettlesPipe ==
    ASSUME WriterShape, WriterControl, Settles
    PROVE  settled' \o InPipe' = settled \o InPipe
<1>1. batch' = <<>> /\ buffer' = <<>> /\ arg' = arg /\ settled' = settled \o batch /\ batch # <<>>
  BY DEF Settles, WriterControl
<1>2. settled \in Seq(Events) /\ batch \in Seq(Events) /\ arg \in Seq(Events)
  BY DEF WriterShape
<1>3. <<>> \o <<>> = <<>> /\ <<>> \o arg = arg
  BY ONLY <1>2, ConcatEmptySeq, EmptySeq
<1>4. InPipe = batch \o arg
  BY <1>1, PipeByCall
<1>5. (settled \o batch) \o arg = settled \o (batch \o arg)
  BY ONLY <1>2, ConcatAssociative, SMTT(60)
<1> QED BY <1>1, <1>3, <1>4, <1>5 DEF InPipe

LEMMA InOrderStep ==
    ASSUME Core, WriterInOrder, [Next]_vars
    PROVE  WriterInOrder'
<1>0. WriterShape /\ WriterControl /\ InPipe \in Seq(Events) /\ settled \in Seq(Events)
  BY PipeByCall DEF Core, Shape, WriterShape
<1>1. ASSUME NEW e \in Events
      PROVE  Append(settled \o InPipe, e) = settled \o Append(InPipe, e)
  <2>1. settled \o InPipe \in Seq(Events) /\ <<e>> \in Seq(Events)
    BY <1>0, ConcatProperties
  <2>2. /\ Append(settled \o InPipe, e) = (settled \o InPipe) \o <<e>>
        /\ Append(InPipe, e) = InPipe \o <<e>>
    BY ONLY <1>0, <1>1, <2>1, AppendIsConcat
  <2>3. (settled \o InPipe) \o <<e>> = settled \o (InPipe \o <<e>>)
    BY ONLY <1>0, <2>1, ConcatAssociative
  <2> QED BY <2>2, <2>3, Zenon
<1>2. CASE Still
  BY <1>2, Zenon DEF Still, WriterInOrder, InPipe
<1>3. CASE Posts
  BY <1>0, <1>3, PostsPipe, Zenon DEF Posts, WriterInOrder
<1>4. CASE Resumes
  BY <1>0, <1>4, ResumesPipe, Zenon DEF Resumes, WriterInOrder
<1>5. CASE Settles
  BY <1>0, <1>5, SettlesPipe, Zenon DEF Settles, WriterInOrder
<1>6. CASE Writes
  <2>1. PICK e \in Events : e = Head(pending)
    <3>1. pending # <<>> /\ pending \in Seq(Events)
      BY <1>6 DEF Writes, Core, MainControl, Shape
    <3> QED BY <3>1, HeadTailProperties, Zenon
  <2>2. CASE Hands(e)
    BY <1>0, <1>1, <2>2, HandsPipe, Zenon DEF Hands, WriterInOrder
  <2>3. CASE ~batchMode /\ HandsOver(e)
    <3>1. call = "idle" /\ buffer = <<>>
      BY <2>3, Zenon DEF Core, SingleControl
    <3>2. arg = <<>> /\ batch = <<>> /\ InPipe = <<>>
      BY <1>0, <3>1, PipeByCall DEF WriterControl
    <3>3. InPipe' = <<>>
      BY <2>3, <3>1, <3>2, Zenon DEF HandsOver, InPipe
    <3>4. Append(settled, e) \in Seq(Events)
      BY <1>0, AppendProperties
    <3>5. settled \o <<>> = settled /\ Append(settled, e) \o <<>> = Append(settled, e)
      BY ONLY <1>0, <3>4, ConcatEmptySeq
    <3> QED BY <2>3, <3>2, <3>3, <3>5, Zenon DEF HandsOver, WriterInOrder
  <2> QED BY <1>6, <2>1, <2>2, <2>3, Zenon DEF Writes
<1> QED BY <1>2, <1>3, <1>4, <1>5, <1>6, WriterKinds, Zenon

-------------------------------------------------------------------------------
(* Increasing sequences of event numbers *)

Increasing(s) == \A i, j \in 1 .. Len(s) : i < j => s[i] < s[j]

LEMMA HeadFirst ==
    ASSUME NEW S, NEW s \in Seq(S), s # <<>>
    PROVE  <<Head(s)>> \o Tail(s) = s
<1>1. /\ Head(s) \in S /\ Head(s) = s[1]
      /\ Tail(s) \in Seq(S) /\ Len(Tail(s)) = Len(s) - 1 /\ Len(s) \in Nat \ {0}
      /\ \A i \in 1 .. Len(Tail(s)) : Tail(s)[i] = s[i + 1]
  BY HeadTailProperties, EmptySeq
<1>2. <<Head(s)>> \in Seq(S) /\ Len(<<Head(s)>>) = 1 /\ <<Head(s)>>[1] = Head(s)
  BY <1>1
<1>3. /\ <<Head(s)>> \o Tail(s) \in Seq(S)
      /\ Len(<<Head(s)>> \o Tail(s)) = 1 + Len(Tail(s))
      /\ \A i \in 1 .. 1 + Len(Tail(s)) : (<<Head(s)>> \o Tail(s))[i] =
                     IF i <= 1 THEN <<Head(s)>>[i] ELSE Tail(s)[i - 1]
  BY <1>1, <1>2, ConcatProperties
<1>4. ASSUME NEW i \in 1 .. Len(s) PROVE (<<Head(s)>> \o Tail(s))[i] = s[i]
  <2>1. CASE i = 1
    BY <1>1, <1>2, <1>3, <2>1
  <2>2. CASE i # 1
    <3>1. i - 1 \in 1 .. Len(Tail(s)) /\ i \in 1 .. 1 + Len(Tail(s)) /\ ~(i <= 1) /\ (i - 1) + 1 = i
      BY <1>1, <2>2
    <3>2. (<<Head(s)>> \o Tail(s))[i] = Tail(s)[i - 1]
      BY <1>3, <3>1
    <3>3. Tail(s)[i - 1] = s[(i - 1) + 1]
      BY <1>1, <3>1
    <3> QED BY <3>1, <3>2, <3>3
  <2> QED BY <2>1, <2>2
<1> QED BY <1>1, <1>3, <1>4, SeqEqual

\* The first of one sequence goes to the end of another before it: the whole is the same.
LEMMA MovesOver ==
    ASSUME NEW S, NEW a \in Seq(S), NEW s \in Seq(S), s # <<>>
    PROVE  Append(a, Head(s)) \o Tail(s) = a \o s
<1>1. Head(s) \in S /\ Tail(s) \in Seq(S)
  BY HeadTailProperties
<1>2. <<Head(s)>> \in Seq(S) /\ Append(a, Head(s)) = a \o <<Head(s)>>
  BY <1>1, AppendIsConcat
<1>3. (a \o <<Head(s)>>) \o Tail(s) = a \o (<<Head(s)>> \o Tail(s))
  BY ONLY <1>1, <1>2, a \in Seq(S), ConcatAssociative
<1> QED BY <1>2, <1>3, HeadFirst, Zenon

LEMMA IncreasingConcat ==
    ASSUME NEW a \in Seq(Events), NEW b \in Seq(Events)
    PROVE  Increasing(a \o b) <=>
              /\ Increasing(a) /\ Increasing(b)
              /\ \A i \in 1 .. Len(a), j \in 1 .. Len(b) : a[i] < b[j]
<1> DEFINE n == Len(a)
           m == Len(b)
           ab == a \o b
<1>1. n \in Nat /\ m \in Nat /\ Len(ab) = n + m
  BY LenProperties, ConcatProperties
<1>2. /\ \A i \in 1 .. n : ab[i] = a[i] /\ i \in 1 .. n + m
      /\ \A j \in 1 .. m : ab[n + j] = b[j] /\ n + j \in 1 .. n + m
  <2>1. \A i \in 1 .. n + m : ab[i] = IF i <= n THEN a[i] ELSE b[i - n]
    BY ConcatProperties
  <2> QED BY <1>1, <2>1
<1>3. \A i \in 1 .. n + m : i \in 1 .. n \/ \E j \in 1 .. m : i = n + j
  <2> SUFFICES ASSUME NEW i \in 1 .. n + m, i \notin 1 .. n PROVE \E j \in 1 .. m : i = n + j
    OBVIOUS
  <2>1. i - n \in 1 .. m /\ i = n + (i - n)
    BY <1>1
  <2> QED BY <2>1
<1> HIDE DEF n, m, ab
<1>4. ASSUME Increasing(ab)
      PROVE  /\ \A i, j \in 1 .. n : i < j => a[i] < a[j]
             /\ \A i, j \in 1 .. m : i < j => b[i] < b[j]
             /\ \A i \in 1 .. n, j \in 1 .. m : a[i] < b[j]
  <2>1. \A i, j \in 1 .. n + m : i < j => ab[i] < ab[j]
    BY <1>1, <1>4 DEF Increasing
  <2>2. \A i, j \in 1 .. n : i < j => a[i] < a[j]
    BY <1>2, <2>1
  <2>3. ASSUME NEW i \in 1 .. m, NEW j \in 1 .. m, i < j PROVE b[i] < b[j]
    <3>1. n + i < n + j
      BY <1>1, <2>3
    <3> QED BY <1>2, <2>1, <3>1
  <2>4. ASSUME NEW i \in 1 .. n, NEW j \in 1 .. m PROVE a[i] < b[j]
    <3>1. i < n + j
      BY <1>1
    <3> QED BY <1>2, <2>1, <3>1
  <2> QED BY <2>2, <2>3, <2>4
<1>5. ASSUME \A i, j \in 1 .. n : i < j => a[i] < a[j],
             \A i, j \in 1 .. m : i < j => b[i] < b[j],
             \A i \in 1 .. n, j \in 1 .. m : a[i] < b[j],
             NEW k \in 1 .. n + m, NEW l \in 1 .. n + m, k < l
      PROVE  ab[k] < ab[l]
  <2>1. CASE k \in 1 .. n /\ l \in 1 .. n
    BY <1>2, <1>5, <2>1
  <2>2. ASSUME k \in 1 .. n, NEW j \in 1 .. m, l = n + j PROVE ab[k] < ab[l]
    BY <1>2, <1>5, <2>2
  <2>3. ASSUME NEW i \in 1 .. m, k = n + i, NEW j \in 1 .. m, l = n + j PROVE ab[k] < ab[l]
    <3>1. i < j
      BY <1>1, <1>5, <2>3
    <3> QED BY <1>2, <1>5, <2>3, <3>1
  <2>4. ASSUME NEW i \in 1 .. m, k = n + i PROVE l \notin 1 .. n
    BY <1>1, <1>5, <2>4
  <2> QED BY <1>3, <2>1, <2>2, <2>3, <2>4
<1> QED BY <1>1, <1>4, <1>5 DEF Increasing, n, m, ab

\* What is taken out of the middle shares no event with the rest, which stays in order.
LEMMA IncreasingWithout ==
    ASSUME NEW a \in Seq(Events), NEW b \in Seq(Events), NEW c \in Seq(Events),
           Increasing(a \o (b \o c))
    PROVE  Increasing(a \o c) /\ Increasing(b) /\ Range(b) \cap Range(a \o c) = {}
<1>1. b \o c \in Seq(Events) /\ Len(b \o c) = Len(b) + Len(c)
  BY ConcatProperties
<1>2. /\ Increasing(a) /\ Increasing(b \o c)
      /\ \A i \in 1 .. Len(a), j \in 1 .. Len(b \o c) : a[i] < (b \o c)[j]
  BY <1>1, IncreasingConcat
<1>3. /\ Increasing(b) /\ Increasing(c)
      /\ \A i \in 1 .. Len(b), j \in 1 .. Len(c) : b[i] < c[j]
  BY <1>2, IncreasingConcat
<1>4. Len(a) \in Nat /\ Len(b) \in Nat /\ Len(c) \in Nat
  BY LenProperties
<1>5. ASSUME NEW i \in 1 .. Len(a), NEW j \in 1 .. Len(b) PROVE a[i] < b[j]
  <2>1. j \in 1 .. Len(b) + Len(c) /\ (b \o c)[j] = b[j]
    BY <1>4, ConcatProperties
  <2> QED BY <1>1, <1>2, <2>1
<1>6. ASSUME NEW i \in 1 .. Len(a), NEW j \in 1 .. Len(c) PROVE a[i] < c[j]
  <2>1. Len(b) + j \in 1 .. Len(b) + Len(c) /\ (b \o c)[Len(b) + j] = c[j]
    <3>1. Len(b) + j \in 1 .. Len(b) + Len(c) /\ ~(Len(b) + j <= Len(b)) /\ (Len(b) + j) - Len(b) = j
      BY <1>4
    <3> QED BY <3>1, ConcatProperties
  <2> QED BY <1>1, <1>2, <2>1
<1>7. Increasing(a \o c)
  BY <1>2, <1>3, <1>6, IncreasingConcat
<1>8. Range(b) \cap Range(a \o c) = {}
  <2> SUFFICES ASSUME NEW x \in Range(b), x \in Range(a \o c) PROVE FALSE
    OBVIOUS
  <2>1. PICK j \in 1 .. Len(b) : b[j] = x
    BY RangeEquality
  <2>2. x \in Range(a) \/ x \in Range(c)
    BY RangeConcatenation
  <2>3. x \in Nat
    <3>1. b[j] \in Events
      BY <2>1, ElementOfSeq, Zenon
    <3> QED BY <2>1, <3>1, SubscriberAssumption DEF Events
  <2>4. CASE x \in Range(a)
    <3>1. PICK i \in 1 .. Len(a) : a[i] = x
      BY <2>4, RangeEquality
    <3> QED BY <1>5, <2>1, <2>3, <3>1
  <2>5. CASE x \in Range(c)
    <3>1. PICK k \in 1 .. Len(c) : c[k] = x
      BY <2>5, RangeEquality
    <3> QED BY <1>3, <2>1, <2>3, <3>1
  <2> QED BY <2>2, <2>4, <2>5
<1> QED BY <1>3, <1>7, <1>8

LEMMA IncreasingAppend ==
    ASSUME NEW s \in Seq(Events), NEW e \in Events, Increasing(s), \A x \in Range(s) : x < e
    PROVE  Increasing(Append(s, e)) /\ Range(Append(s, e)) = Range(s) \cup {e}
<1>1. <<e>> \in Seq(Events) /\ Len(<<e>>) = 1 /\ <<e>>[1] = e /\ Increasing(<<e>>)
  BY DEF Increasing
<1>2. Append(s, e) = s \o <<e>>
  BY AppendIsConcat
<1>3. \A i \in 1 .. Len(s) : s[i] < e
  <2>1. Range(s) = {s[i] : i \in 1 .. Len(s)}
    BY RangeEquality, Zenon
  <2>2. \A i \in 1 .. Len(s) : s[i] \in Range(s)
    BY <2>1, Zenon
  <2> QED BY <2>2, Zenon
<1>4. Increasing(s \o <<e>>)
  <2>1. \A i \in 1 .. Len(s), j \in 1 .. Len(<<e>>) : s[i] < <<e>>[j]
    BY <1>1, <1>3
  <2> QED BY <1>1, <2>1, IncreasingConcat, Zenon
<1>5. Range(s \o <<e>>) = Range(s) \cup Range(<<e>>)
  BY <1>1, RangeConcatenation, ZenonT(60)
<1>6. Range(<<e>>) = {e}
  <2>1. Range(<<e>>) = {<<e>>[i] : i \in 1 .. Len(<<e>>)}
    BY <1>1, RangeEquality, Zenon
  <2> QED BY <1>1, <2>1
<1> QED BY <1>2, <1>4, <1>5, <1>6

-------------------------------------------------------------------------------
(* Every message that has arrived, over both threads *)

\* The messages that have reached the writer and those on their way to it.
Path == handed \o (pending \o queue)

PathKnown ==
    /\ Increasing(Path)
    /\ Range(Path) \cup missed \cup abandoned = 1 .. arrived
    /\ Range(Path) \cap (missed \cup abandoned) = {}
    /\ missed \cap abandoned = {}

LEMMA Associative ==
    ASSUME NEW a \in Seq(Events), NEW b \in Seq(Events), NEW c \in Seq(Events)
    PROVE  a \o (b \o c) = (a \o b) \o c
BY ConcatAssociative, SMTT(60)

LEMMA RangeOfConcat ==
    ASSUME NEW a \in Seq(Events), NEW b \in Seq(Events)
    PROVE  Range(a \o b) = Range(a) \cup Range(b)
BY RangeConcatenation

LEMMA PathStep ==
    ASSUME Core, PathKnown, [Next]_vars
    PROVE  PathKnown'
<1>0. /\ handed \in Seq(Events) /\ pending \in Seq(Events) /\ queue \in Seq(Events)
      /\ pending \o queue \in Seq(Events) /\ Path \in Seq(Events)
      /\ arrived \in 0 .. NumEvents
  <2>1. handed \in Seq(Events) /\ pending \in Seq(Events) /\ queue \in Seq(Events)
    BY DEF Core, Shape
  <2> QED BY <2>1, ConcatProperties DEF Core, Shape, Path
<1>1. ASSUME Path' = Path, UNCHANGED <<missed, abandoned, arrived>>
      PROVE  PathKnown'
  BY <1>1, Zenon DEF PathKnown
<1>2. CASE Steady
  BY <1>1, <1>2, Zenon DEF Steady, Path
<1>3. CASE (TakesFirst \/ TakesNext) /\ Still /\ UNCHANGED <<missed, abandoned, arrived>>
  <2>1. CASE TakesFirst
    <3>1. <<Head(queue)>> \o Tail(queue) = queue /\ <<>> \o queue = queue
      BY <1>0, <2>1, HeadFirst, ConcatEmptySeq, Zenon DEF TakesFirst
    <3> QED BY <1>1, <1>3, <2>1, <3>1, Zenon DEF TakesFirst, Still, Path
  <2>2. CASE TakesNext
    <3>1. Append(pending, Head(queue)) \o Tail(queue) = pending \o queue
      BY <1>0, <2>2, MovesOver, Zenon DEF TakesNext
    <3> QED BY <1>1, <1>3, <2>2, <3>1, Zenon DEF TakesNext, Still, Path
  <2> QED BY <1>3, <2>1, <2>2
<1>4. CASE /\ Writes /\ pending # <<>> /\ pending' = Tail(pending)
           /\ UNCHANGED <<queue, missed, abandoned, arrived>>
  <2>1. handed' = Append(handed, Head(pending))
    BY <1>4, Zenon DEF Writes, Hands, HandsOver
  <2>2. /\ Append(handed, Head(pending)) \in Seq(Events) /\ Tail(pending) \in Seq(Events)
        /\ Append(handed, Head(pending)) \o Tail(pending) = handed \o pending
    <3>1. Head(pending) \in Events /\ Tail(pending) \in Seq(Events)
      BY <1>0, <1>4, HeadTailProperties, Zenon
    <3>2. Append(handed, Head(pending)) \in Seq(Events)
      BY <1>0, <3>1, AppendProperties
    <3>3. Append(handed, Head(pending)) \o Tail(pending) = handed \o pending
      BY <1>0, <1>4, MovesOver, Zenon
    <3> QED BY <3>1, <3>2, <3>3
  <2>3. Append(handed, Head(pending)) \o (Tail(pending) \o queue)
           = (Append(handed, Head(pending)) \o Tail(pending)) \o queue
    BY <1>0, <2>2, Associative, SMTT(30)
  <2>4. (handed \o pending) \o queue = handed \o (pending \o queue)
    BY <1>0, Associative, ZenonT(60)
  <2> QED BY <1>1, <1>4, <2>1, <2>2, <2>3, <2>4, Zenon DEF Path
<1>5. CASE /\ Still /\ pending' = <<>> /\ abandoned' = abandoned \cup Range(pending)
           /\ UNCHANGED <<queue, missed, arrived>>
  <2>1. Path' = handed \o queue
    BY <1>0, <1>5, ConcatEmptySeq DEF Still, Path
  <2>2. /\ Increasing(handed \o queue) /\ Range(pending) \cap Range(handed \o queue) = {}
        /\ Range(Path) = Range(handed \o queue) \cup Range(pending)
    <3>1. Increasing(handed \o queue) /\ Range(pending) \cap Range(handed \o queue) = {}
      BY <1>0, IncreasingWithout, Zenon DEF PathKnown, Path
    <3>2. Range(Path) = Range(handed) \cup (Range(pending) \cup Range(queue))
      <4>1. Range(Path) = Range(handed) \cup Range(pending \o queue)
        BY <1>0, RangeOfConcat, Zenon DEF Path
      <4>2. Range(pending \o queue) = Range(pending) \cup Range(queue)
        BY <1>0, RangeOfConcat, Zenon
      <4> QED BY <4>1, <4>2, Zenon
    <3>3. Range(handed \o queue) = Range(handed) \cup Range(queue)
      BY <1>0, RangeOfConcat, Zenon
    <3> QED BY <3>1, <3>2, <3>3
  <2>3. /\ Range(handed \o queue) \cup missed' \cup abandoned' = 1 .. arrived'
        /\ Range(handed \o queue) \cap (missed' \cup abandoned') = {}
        /\ missed' \cap abandoned' = {}
    BY <1>5, <2>2 DEF PathKnown
  <2> QED BY <2>1, <2>2, <2>3, Zenon DEF PathKnown
<1>6. CASE Arrives /\ Still
  <2>1. /\ arrived + 1 \in Events /\ arrived' = arrived + 1 /\ handed' = handed
        /\ pending' = pending /\ abandoned' = abandoned
        /\ 1 .. arrived + 1 = (1 .. arrived) \cup {arrived + 1} /\ arrived + 1 \notin 1 .. arrived
    BY <1>0, <1>6, SubscriberAssumption DEF Arrives, Still, Events
  <2>2. CASE queue' = Append(queue, arrived + 1) /\ missed' = missed
    <3>1. /\ Append(queue, arrived + 1) \in Seq(Events)
          /\ <<arrived + 1>> \in Seq(Events)
          /\ Append(queue, arrived + 1) = queue \o <<arrived + 1>>
          /\ Append(Path, arrived + 1) = Path \o <<arrived + 1>>
      <4>1. Append(queue, arrived + 1) \in Seq(Events) /\ <<arrived + 1>> \in Seq(Events)
        BY <1>0, <2>1, AppendProperties
      <4>2. Append(queue, arrived + 1) = queue \o <<arrived + 1>>
        BY <1>0, <2>1, AppendIsConcat, Zenon
      <4>3. Append(Path, arrived + 1) = Path \o <<arrived + 1>>
        BY <1>0, <2>1, AppendIsConcat, Zenon
      <4> QED BY <4>1, <4>2, <4>3
    <3>2. /\ pending \o (queue \o <<arrived + 1>>) = (pending \o queue) \o <<arrived + 1>>
          /\ handed \o ((pending \o queue) \o <<arrived + 1>>)
                = (handed \o (pending \o queue)) \o <<arrived + 1>>
      BY <1>0, <3>1, Associative, SMTT(60)
    <3>3. Path' = Append(Path, arrived + 1)
      BY <2>1, <2>2, <3>1, <3>2, Zenon DEF Path
    <3>4. \A x \in Range(Path) : x < arrived + 1
      BY <1>0 DEF PathKnown
    <3>5. Increasing(Path') /\ Range(Path') = Range(Path) \cup {arrived + 1}
      BY <1>0, <2>1, <3>3, <3>4, IncreasingAppend, Zenon DEF PathKnown
    <3>6. /\ Range(Path') \cup missed' \cup abandoned' = 1 .. arrived'
          /\ Range(Path') \cap (missed' \cup abandoned') = {}
          /\ missed' \cap abandoned' = {}
      BY <2>1, <2>2, <3>5 DEF PathKnown
    <3> QED BY <3>5, <3>6, Zenon DEF PathKnown
  <2>3. CASE queue' = queue /\ missed' = missed \cup {arrived + 1}
    <3>1. Path' = Path
      BY <2>1, <2>3, Zenon DEF Path
    <3>2. /\ Range(Path) \cup missed' \cup abandoned' = 1 .. arrived'
          /\ Range(Path) \cap (missed' \cup abandoned') = {}
          /\ missed' \cap abandoned' = {}
      BY <2>1, <2>3 DEF PathKnown
    <3> QED BY <3>1, <3>2, Zenon DEF PathKnown
  <2> QED BY <1>6, <2>2, <2>3, Zenon DEF Arrives
<1> QED BY <1>2, <1>3, <1>4, <1>5, <1>6, ThreadKinds, Zenon

\* All that the proofs know of the events.
EventsKnown == Core /\ WriterInOrder /\ PathKnown

LEMMA EventsAlways == Spec => []EventsKnown
<1>1. Init => WriterInOrder /\ PathKnown
  <2> SUFFICES ASSUME Init PROVE WriterInOrder /\ PathKnown
    OBVIOUS
  <2>1. /\ pending = <<>> /\ queue = <<>> /\ arrived = 0 /\ missed = {} /\ abandoned = {}
        /\ arg = <<>> /\ buffer = <<>> /\ batch = <<>> /\ handed = <<>> /\ settled = <<>>
    BY Zenon DEF Init, W!Init
  <2>2. <<>> \o <<>> = <<>> /\ Len(<<>>) = 0
    BY ConcatEmptySeq, EmptySeq
  <2>3. Range(<<>>) = {}
    BY DEF Range
  <2>4. WriterInOrder
    BY <2>1, <2>2, Zenon DEF WriterInOrder, InPipe
  <2>5. Path = <<>>
    BY <2>1, <2>2, Zenon DEF Path
  <2>6. Increasing(<<>>)
    BY <2>2 DEF Increasing
  <2>7. PathKnown
    BY <2>1, <2>3, <2>5, <2>6 DEF PathKnown
  <2> QED BY <2>4, <2>7
<1>2. Core /\ WriterInOrder /\ PathKnown /\ [Next]_vars => WriterInOrder' /\ PathKnown'
  BY InOrderStep, PathStep, Zenon
<1> QED BY <1>1, <1>2, CoreAlways, PTL DEF Spec, EventsKnown

LEMMA SettledFirst ==
    ASSUME settled \in Seq(Events), InPipe \in Seq(Events), NEW q \in Seq(Events)
    PROVE  settled \o (InPipe \o q) = (settled \o InPipe) \o q
BY Associative, Zenon

\* Settled and in flight are, in this order, what the writer was given and what is on its
\* way to it.
LEMMA FlightIsPath ==
    ASSUME Core, WriterInOrder
    PROVE  settled \o InFlight = Path
<1>0. /\ settled \in Seq(Events) /\ batch \in Seq(Events) /\ buffer \in Seq(Events)
      /\ arg \in Seq(Events) /\ pending \in Seq(Events) /\ queue \in Seq(Events)
  BY DEF Core, Shape
<1>1. InPipe \in Seq(Events)
  BY <1>0, ConcatProperties DEF InPipe
<1>2. pending \o queue \in Seq(Events)
  BY <1>0, ConcatProperties
<1>3. InPipe \o (pending \o queue) = (InPipe \o pending) \o queue
  BY <1>0, <1>1, Associative, ZenonT(60)
<1>4. InFlight = InPipe \o (pending \o queue)
  BY <1>3, Zenon DEF InFlight, InPipe
<1>5. settled \o (InPipe \o (pending \o queue)) = (settled \o InPipe) \o (pending \o queue)
  BY <1>0, <1>1, <1>2, SettledFirst, Zenon
<1> QED BY <1>4, <1>5, Zenon DEF Path, WriterInOrder

\* No message is lost silently: each one that has arrived was missed, abandoned, settled,
\* or is still in flight, and the surviving ones are settled in the order of arrival.
THEOREM NeverLostSilently == Spec => []NoneLostSilently
<1>1. EventsKnown => NoneLostSilently
  <2> SUFFICES ASSUME EventsKnown PROVE NoneLostSilently
    OBVIOUS
  <2>1. settled \o InFlight = Path
    BY FlightIsPath, Zenon DEF EventsKnown
  <2> QED BY <2>1, Zenon DEF EventsKnown, PathKnown, Increasing, NoneLostSilently
<1> QED BY <1>1, EventsAlways, PTL

-------------------------------------------------------------------------------
(* The statistics *)

\* The counters, up to the step each thread has yet to record.
CountsKnown ==
    /\ received \in Nat /\ written \in Nat /\ dropped \in Nat
    /\ callback \in {"idle", "stored", "full"}
    /\ dropped + (IF callback = "full" THEN 1 ELSE 0) = Cardinality(missed)
    /\ received + (IF callback = "stored" THEN 1 ELSE 0)
         = Len(handed) + Len(pending) + Len(queue) + Cardinality(abandoned)
    /\ written + (IF pc = "record" THEN 1 ELSE 0) = Len(handed)

\* The sets of lost events are finite; a sequence in order has as many events as places.
LEMMA LostFinite ==
    ASSUME EventsKnown
    PROVE  /\ IsFiniteSet(missed) /\ Cardinality(missed) \in Nat
           /\ IsFiniteSet(abandoned) /\ Cardinality(abandoned) \in Nat
<1>1. missed \subseteq 1 .. arrived /\ abandoned \subseteq 1 .. arrived
  BY DEF EventsKnown, PathKnown
<1>2. IsFiniteSet(1 .. arrived)
  <2>1. 1 \in Int /\ arrived \in Int
    BY DEF EventsKnown, Core, Shape
  <2> QED BY <2>1, FS_Interval, Zenon
<1>3. IsFiniteSet(missed) /\ IsFiniteSet(abandoned)
  BY <1>1, <1>2, FS_Subset, Zenon
<1> QED BY <1>3, FS_CardinalityType, Zenon

LEMMA IncreasingCardinality ==
    ASSUME NEW s \in Seq(Events), Increasing(s)
    PROVE  IsFiniteSet(Range(s)) /\ Cardinality(Range(s)) = Len(s)
<1>1. Len(s) \in Nat /\ DOMAIN s = 1 .. Len(s) /\ s \in [1 .. Len(s) -> Events]
  BY LenProperties
<1>2. Range(s) = {s[i] : i \in 1 .. Len(s)}
  BY RangeEquality, Zenon
<1>3. IsFiniteSet(1 .. Len(s)) /\ Cardinality(1 .. Len(s)) = Len(s)
  <2>1. PICK n \in Int : n = Len(s) /\ n >= 0
    <3>1. Len(s) \in Int /\ Len(s) >= 0
      BY <1>1
    <3> QED BY <3>1, Zenon
  <2>2. IsFiniteSet(1 .. n) /\ Cardinality(1 .. n) = IF 1 > n THEN 0 ELSE n - 1 + 1
    BY FS_Interval, 1 \in Int, Zenon
  <2>3. (IF 1 > n THEN 0 ELSE n - 1 + 1) = n
    BY <2>1
  <2> QED BY <2>1, <2>2, <2>3, Zenon
<1>4. s \in Bijection(1 .. Len(s), Range(s))
  <2>1. \A i \in 1 .. Len(s) : s[i] \in Int
    BY <1>1, SubscriberAssumption DEF Events
  <2>2. ASSUME NEW i \in 1 .. Len(s), NEW j \in 1 .. Len(s), s[i] = s[j] PROVE i = j
    <3>1. ~(s[i] < s[j]) /\ ~(s[j] < s[i])
      BY <2>1, <2>2
    <3>2. ~(i < j) /\ ~(j < i)
      BY <3>1 DEF Increasing
    <3> QED BY <1>1, <3>2
  <2>3. s \in [1 .. Len(s) -> Range(s)]
    BY <1>1, <1>2
  <2> QED BY <1>2, <2>2, <2>3 DEF Bijection, Injection, Surjection, IsInjective
<1>5. ExistsBijection(1 .. Len(s), Range(s))
  BY <1>4, Zenon DEF ExistsBijection
<1> QED BY <1>3, <1>5, FS_Bijection, Zenon

\* The two counters of a step: what the writer has got, and what both threads have counted.
LEMMA CountsStep ==
    ASSUME EventsKnown, CountsKnown, [Next]_vars
    PROVE  CountsKnown'
<1>0. /\ received \in Nat /\ written \in Nat /\ dropped \in Nat
      /\ callback \in {"idle", "stored", "full"}
      /\ Cardinality(missed) \in Nat /\ Cardinality(abandoned) \in Nat
      /\ handed \in Seq(Events) /\ pending \in Seq(Events) /\ queue \in Seq(Events)
      /\ Len(handed) \in Nat /\ Len(pending) \in Nat /\ Len(queue) \in Nat
  <2>1. handed \in Seq(Events) /\ pending \in Seq(Events) /\ queue \in Seq(Events)
    BY DEF EventsKnown, Core, Shape
  <2>2. Len(handed) \in Nat /\ Len(pending) \in Nat /\ Len(queue) \in Nat
    BY <2>1, LenProperties, Zenon
  <2> QED BY <2>1, <2>2, LostFinite DEF CountsKnown
<1>1. CASE UNCHANGED <<pc, handed, pending, queue, missed, abandoned, callback, received, written,
                       dropped>>
  BY <1>1, Zenon DEF CountsKnown
<1>2. ASSUME UNCHANGED <<handed, pending, queue, missed, abandoned, callback, received, written,
                         dropped>>,
             pc # "record", pc' # "record"
      PROVE  CountsKnown'
  BY <1>2 DEF CountsKnown
<1>3. CASE UNCHANGED vars \/ Clock
  BY <1>1, <1>3, Zenon DEF vars, mainVars, networkVars, writerVars, Clock, W!Tick, W!historyVars
<1>4. CASE OnConnect \/ OnMessageRaises \/ Disconnected \/ PahoReconnects
  BY <1>1, <1>4, Zenon DEF OnConnect, OnMessageRaises, Disconnected, PahoReconnects, MessageVars, NetworkFrame,
     mainVars, writerVars
<1>5. CASE WriterStep
  BY <1>1, <1>5, WriterStepKinds, Zenon DEF WriterStep, mainVars, networkVars, Settles, Resumes,
     Still
<1>6. CASE Connect \/ ConnectFails \/ StopNetwork \/ Wake
  <2>1. UNCHANGED <<handed, pending, queue, missed, abandoned, callback, received, written, dropped>>
    BY <1>6, Zenon DEF Connect, ConnectFails, StopNetwork, Wake, networkVars, writerVars
  <2>2. /\ pc \in {"connect", "stop", "sleep"}
        /\ pc' \in {"get", "cleanup", "exited", "sleep", "connect"}
    BY <1>6, Zenon DEF Connect, ConnectFails, StopNetwork, Wake, MainAt
  <2>3. pc # "record" /\ pc' # "record"
    BY <2>2
  <2> QED BY <1>2, <2>1, <2>3
<1>7. CASE FlushIfDue \/ Cleanup
  <2>1. UNCHANGED <<handed, pending, queue, missed, abandoned, callback, received, written, dropped>>
    BY <1>7, CallFlushKinds, Zenon DEF FlushIfDue, Cleanup, networkVars, Still, Posts
  <2>2. /\ pc \in {"flush", "cleanup"} /\ pc' \in {"get", "stop"}
    BY <1>7, Zenon DEF FlushIfDue, Cleanup, MainAt
  <2>3. pc # "record" /\ pc' # "record"
    BY <2>2
  <2> QED BY <1>2, <2>1, <2>3
<1>8. CASE Get \/ Drain
  <2>1. /\ UNCHANGED <<handed, missed, abandoned, callback, received, written, dropped>>
        /\ pc \in {"get", "drain"} /\ pc' \in {"drain", "write"} \cup {pc}
    BY <1>8, Zenon DEF Get, Drain, networkVars, writerVars, MainAt
  <2>2. \/ UNCHANGED <<pending, queue>>
        \/ queue # <<>> /\ queue' = Tail(queue)
           /\ (pending' = Append(pending, Head(queue)) \/ (pc = "get" /\ pending' = <<Head(queue)>>))
    BY <1>8, Zenon DEF Get, Drain, DrainGoesOn, MainAt
  <2>3. pc = "get" => Len(pending) = 0
    BY DEF EventsKnown, Core, MainControl
  <2>4. queue # <<>> => /\ Len(Tail(queue)) = Len(queue) - 1
                        /\ Len(Append(pending, Head(queue))) = Len(pending) + 1
                        /\ Len(<<Head(queue)>>) = 1
    BY <1>0, HeadTailProperties, AppendProperties
  <2>5. \/ Len(pending') = Len(pending) /\ Len(queue') = Len(queue)
        \/ Len(pending') = Len(pending) + 1 /\ Len(queue') = Len(queue) - 1
    <3>1. CASE UNCHANGED <<pending, queue>>
      BY <3>1, Zenon
    <3>2. CASE queue # <<>> /\ queue' = Tail(queue) /\ pending' = Append(pending, Head(queue))
      BY <2>4, <3>2, Zenon
    <3>3. CASE queue # <<>> /\ queue' = Tail(queue) /\ pc = "get" /\ pending' = <<Head(queue)>>
      <4>1. Len(pending') = 1 /\ Len(queue') = Len(queue) - 1 /\ Len(pending) = 0
        BY <2>3, <2>4, <3>3, Zenon
      <4> QED BY <4>1
    <3> QED BY <2>2, <3>1, <3>2, <3>3
  <2>6. /\ Len(handed') = Len(handed) /\ Cardinality(missed') = Cardinality(missed)
        /\ Cardinality(abandoned') = Cardinality(abandoned)
        /\ pc # "record" /\ pc' # "record"
        /\ UNCHANGED <<callback, received, written, dropped>>
    BY <2>1
  <2> QED BY <1>0, <2>5, <2>6, SMTT(30) DEF CountsKnown
<1>9. CASE Write
  <2>1. /\ UNCHANGED <<queue, missed, abandoned, callback, received, written, dropped>>
        /\ pc = "write" /\ pc' = "record" /\ pending' = Tail(pending)
    BY <1>9, Zenon DEF Write, networkVars, MainAt
  <2>2. handed' = Append(handed, Head(pending))
    BY <1>9, WriteKinds, Zenon DEF Writes, Hands, HandsOver
  <2>3. pending # <<>>
    BY <2>1 DEF EventsKnown, Core, MainControl
  <2>4. Len(pending') = Len(pending) - 1 /\ Len(handed') = Len(handed) + 1
    BY <1>0, <2>1, <2>2, <2>3, HeadTailProperties, AppendProperties
  <2>5. /\ Len(queue') = Len(queue) /\ Cardinality(missed') = Cardinality(missed)
        /\ Cardinality(abandoned') = Cardinality(abandoned)
        /\ pc = "write" /\ pc' = "record" /\ UNCHANGED <<callback, received, written, dropped>>
    BY <2>1, Zenon
  <2> QED BY <1>0, <2>4, <2>5 DEF CountsKnown
<1>10. CASE WriteFails
  <2>1. /\ UNCHANGED <<handed, queue, missed, callback, received, written, dropped>>
        /\ pc = "write" /\ pc' = "cleanup" /\ pending' = <<>>
        /\ abandoned' = abandoned \cup Range(pending)
    BY <1>10, Zenon DEF WriteFails, networkVars, writerVars, MainAt
  <2>2. Increasing(pending) /\ Range(pending) \cap abandoned = {}
    <3>1. Increasing(pending)
      BY <1>0, IncreasingWithout, Zenon DEF EventsKnown, PathKnown, Path
    <3>2. Range(Path) = Range(handed) \cup (Range(pending) \cup Range(queue))
      <4>1. pending \o queue \in Seq(Events)
        BY <1>0, ConcatProperties
      <4>2. Range(Path) = Range(handed) \cup Range(pending \o queue)
        BY <1>0, <4>1, RangeOfConcat, Zenon DEF Path
      <4>3. Range(pending \o queue) = Range(pending) \cup Range(queue)
        BY <1>0, RangeOfConcat, Zenon
      <4> QED BY <4>2, <4>3, Zenon
    <3> QED BY <3>1, <3>2 DEF EventsKnown, PathKnown
  <2>3. Cardinality(abandoned') = Cardinality(abandoned) + Len(pending)
    <3>1. IsFiniteSet(Range(pending)) /\ Cardinality(Range(pending)) = Len(pending)
      BY <1>0, <2>2, IncreasingCardinality, Zenon
    <3>2. Cardinality(abandoned \cup Range(pending))
             = Cardinality(abandoned) + Cardinality(Range(pending))
                 - Cardinality(abandoned \cap Range(pending))
      BY <3>1, LostFinite, FS_Union, Zenon
    <3>3. Cardinality(abandoned \cap Range(pending)) = 0
      BY <2>2, FS_EmptySet
    <3> QED BY <1>0, <2>1, <3>1, <3>2, <3>3
  <2>4. Len(pending') = 0
    BY <2>1
  <2> QED BY <1>0, <2>1, <2>3, <2>4 DEF CountsKnown
<1>11. CASE RecordWrite
  <2>1. /\ UNCHANGED <<handed, pending, queue, missed, abandoned, callback, received, dropped>>
        /\ pc = "record" /\ pc' \in {"flush", "write"} /\ written' = written + 1
    BY <1>11, Zenon DEF RecordWrite, networkVars, writerVars, MainAt
  <2> QED BY <1>0, <2>1 DEF CountsKnown
<1>12. CASE MessageArrives
  <2>1. /\ UNCHANGED <<handed, pending, abandoned, received, written, dropped, pc>>
        /\ callback = "idle"
        /\ \/ callback' = "stored" /\ missed' = missed /\ queue' = Append(queue, arrived + 1)
           \/ callback' = "full" /\ missed' = missed \cup {arrived + 1} /\ queue' = queue
    BY <1>12, Zenon DEF MessageArrives, NetworkFrame, mainVars, writerVars
  <2>2. arrived + 1 \in Events /\ arrived + 1 \notin missed
    <3>1. arrived < NumEvents /\ arrived \in 0 .. NumEvents /\ missed \subseteq 1 .. arrived
      BY <1>12 DEF MessageArrives, EventsKnown, Core, Shape, PathKnown
    <3> QED BY <3>1, SubscriberAssumption DEF Events
  <2>3. Len(Append(queue, arrived + 1)) = Len(queue) + 1
    BY <1>0, <2>2, AppendProperties
  <2>4. Cardinality(missed \cup {arrived + 1}) = Cardinality(missed) + 1
    BY <2>2, LostFinite, FS_AddElement, Zenon
  <2>5. /\ Len(handed') = Len(handed) /\ Len(pending') = Len(pending)
        /\ Cardinality(abandoned') = Cardinality(abandoned)
        /\ UNCHANGED <<pc, received, written, dropped>> /\ callback = "idle"
        /\ \/ /\ callback' = "stored" /\ Cardinality(missed') = Cardinality(missed)
              /\ Len(queue') = Len(queue) + 1
           \/ /\ callback' = "full" /\ Cardinality(missed') = Cardinality(missed) + 1
              /\ Len(queue') = Len(queue)
    BY <2>1, <2>3, <2>4, Zenon
  <2> QED BY <1>0, <2>5 DEF CountsKnown
<1>13. CASE MessageCounted
  <2>1. /\ UNCHANGED <<handed, pending, queue, missed, abandoned, written, pc>>
        /\ callback' = "idle"
        /\ \/ callback = "stored" /\ received' = received + 1 /\ dropped' = dropped
           \/ callback = "full" /\ dropped' = dropped + 1 /\ received' = received
    BY <1>13, Zenon DEF MessageCounted, NetworkFrame, mainVars, writerVars
  <2> QED BY <1>0, <2>1 DEF CountsKnown
<1> QED BY <1>3, <1>4, <1>5, <1>6, <1>7, <1>8, <1>9, <1>10, <1>11, <1>12, <1>13, Zenon
        DEF Next, MainStep, NetworkStep

LEMMA CountsAlways == Spec => []CountsKnown
<1>1. Init => CountsKnown
  <2> SUFFICES ASSUME Init PROVE CountsKnown
    OBVIOUS
  <2>1. /\ pc = "connect" /\ callback = "idle" /\ received = 0 /\ written = 0 /\ dropped = 0
        /\ handed = <<>> /\ pending = <<>> /\ queue = <<>> /\ missed = {} /\ abandoned = {}
    BY Zenon DEF Init, W!Init
  <2>2. Len(<<>>) = 0 /\ Cardinality({}) = 0
    BY FS_EmptySet
  <2> QED BY <2>1, <2>2 DEF CountsKnown
<1>2. EventsKnown /\ CountsKnown /\ [Next]_vars => CountsKnown'
  BY CountsStep
<1> QED BY <1>1, <1>2, EventsAlways, PTL DEF Spec

\* The statistics of the health log are exact, up to the step each thread has yet to record.
THEOREM StatsAlwaysExact == Spec => []StatsExact
<1>1. EventsKnown /\ CountsKnown => StatsExact
  <2> SUFFICES ASSUME EventsKnown, CountsKnown PROVE StatsExact
    OBVIOUS
  <2>1. /\ Len(handed) \in Nat /\ Len(pending) \in Nat /\ Len(queue) \in Nat
        /\ Cardinality(abandoned) \in Nat
    <3>1. handed \in Seq(Events) /\ pending \in Seq(Events) /\ queue \in Seq(Events)
      BY DEF EventsKnown, Core, Shape
    <3> QED BY <3>1, LostFinite, LenProperties, Zenon
  <2> QED BY <2>1 DEF CountsKnown, StatsExact, One
<1> QED BY <1>1, CountsAlways, EventsAlways, PTL

-------------------------------------------------------------------------------
(* Memory *)

Lengths ==
    /\ Len(arg) \in Nat /\ Len(buffer) \in Nat /\ Len(batch) \in Nat
    /\ Len(pending) \in Nat /\ Len(queue) \in Nat

\* How many events the writer holds.
Held == Len(arg) + Len(buffer) + Len(batch)

RoomKnown ==
    /\ Len(queue) <= QueueCapacity
    /\ Len(pending) <= DrainBatch
    /\ Len(buffer) < BatchMaxEvents
    /\ Len(pending) + Held <= DrainBatch + BatchMaxEvents - 1

LEMMA LengthsKnown == Shape => Lengths
BY LenProperties DEF Shape, Lengths

\* A write adds one event to the writer, every other step none.
LEMMA WriteHolds ==
    ASSUME Core, NEW e \in Events, Len(buffer) < BatchMaxEvents,
           Hands(e) \/ (~batchMode /\ HandsOver(e))
    PROVE  Held' <= Held + 1 /\ Len(buffer') < BatchMaxEvents
<1>0. Lengths /\ WriterShape /\ WriterControl
  BY LengthsKnown DEF Core, Shape, WriterShape
<1>1. CASE HandsOver(e)
  BY <1>0, <1>1 DEF HandsOver, Lengths, Held
<1>2. CASE Hands(e)
  <2>1. /\ Len(Append(buffer, e)) = Len(buffer) + 1 /\ Len(<<e>>) = 1 /\ Len(<<>>) = 0
        /\ arg = <<>> /\ batch = <<>>
    BY <1>0, <1>2, AppendProperties DEF WriterShape, WriterControl, Hands
  <2>2. \/ Len(arg') = 1 /\ Len(batch') = Len(buffer) /\ Len(buffer') = 0
        \/ Len(arg') = 0 /\ Len(batch') = Len(buffer) + 1 /\ Len(buffer') = 0
        \/ /\ Len(arg') = 0 /\ Len(batch') = 0 /\ Len(buffer') = Len(buffer) + 1
           /\ ~(Len(buffer) + 1 >= BatchMaxEvents)
    BY <1>2, <2>1, Zenon DEF Hands
  <2>3. Len(arg) = 0 /\ Len(batch) = 0
    BY <2>1
  <2>4. Len(buffer) \in Nat
    BY <1>0, Zenon DEF Lengths
  <2>5. BatchMaxEvents \in Nat /\ BatchMaxEvents >= 1
    BY SubscriberAssumption
  <2>6. Held' <= Len(buffer) + 1 /\ Len(buffer') < BatchMaxEvents
    <3>1. CASE Len(arg') = 1 /\ Len(batch') = Len(buffer) /\ Len(buffer') = 0
      BY <3>1, <2>4, <2>5 DEF Held
    <3>2. CASE Len(arg') = 0 /\ Len(batch') = Len(buffer) + 1 /\ Len(buffer') = 0
      BY <3>2, <2>4, <2>5 DEF Held
    <3>3. CASE /\ Len(arg') = 0 /\ Len(batch') = 0 /\ Len(buffer') = Len(buffer) + 1
               /\ ~(Len(buffer) + 1 >= BatchMaxEvents)
      BY <3>3, <2>4, <2>5 DEF Held
    <3> QED BY <2>2, <3>1, <3>2, <3>3, Zenon
  <2>7. Held = Len(buffer)
    BY <2>3, <2>4 DEF Held
  <2> QED BY <2>6, <2>7
<1> QED BY <1>1, <1>2

LEMMA OthersHold ==
    ASSUME Core, Len(buffer) < BatchMaxEvents, Still \/ Posts \/ Settles \/ Resumes
    PROVE  Held' <= Held /\ Len(buffer') < BatchMaxEvents
<1>0. Lengths /\ WriterShape /\ WriterControl
  BY LengthsKnown DEF Core, Shape, WriterShape
<1>1. CASE Still
  <2>1. Len(arg') = Len(arg) /\ Len(buffer') = Len(buffer) /\ Len(batch') = Len(batch)
    BY <1>1, Zenon DEF Still
  <2> QED BY <1>0, <2>1 DEF Lengths, Held
<1>2. CASE Posts
  <2>1. batch = <<>> /\ Len(<<>>) = 0
    BY <1>0, <1>2 DEF Posts, WriterControl
  <2>2. Len(arg') = Len(arg) /\ Len(buffer') = 0 /\ Len(batch') = Len(buffer) /\ Len(batch) = 0
    BY <1>2, <2>1, Zenon DEF Posts
  <2> QED BY <1>0, <2>2, SubscriberAssumption DEF Lengths, Held
<1>3. CASE Settles
  <2>1. Len(<<>>) = 0
    OBVIOUS
  <2>2. Len(arg') = Len(arg) /\ Len(buffer') = Len(buffer) /\ Len(batch') = 0
    BY <1>3, <2>1, Zenon DEF Settles
  <2> QED BY <1>0, <2>2 DEF Lengths, Held
<1>4. CASE Resumes
  <2>1. PICK e \in Events : arg = <<e>> /\ Head(arg) = e
    BY <1>0, <1>4, ResumesShape
  <2>2. /\ Len(Append(buffer, e)) = Len(buffer) + 1 /\ Len(arg) = 1 /\ Len(<<>>) = 0
        /\ batch = <<>>
    BY <1>0, <1>4, <2>1, AppendProperties DEF WriterShape, Resumes
  <2>3. /\ Len(arg') = 0 /\ Len(batch) = 0
        /\ \/ Len(batch') = Len(buffer) + 1 /\ Len(buffer') = 0
           \/ /\ Len(batch') = 0 /\ Len(buffer') = Len(buffer) + 1
              /\ ~(Len(buffer) + 1 >= BatchMaxEvents)
    BY <1>4, <2>1, <2>2, Zenon DEF Resumes
  <2> QED BY <1>0, <2>2, <2>3, SubscriberAssumption DEF Lengths, Held
<1> QED BY <1>1, <1>2, <1>3, <1>4

LEMMA RoomStep ==
    ASSUME Core, RoomKnown, [Next]_vars
    PROVE  RoomKnown'
<1>0. /\ pending \in Seq(Events) /\ queue \in Seq(Events) /\ handed \in Seq(Events)
      /\ Lengths /\ Lengths' /\ Held \in Nat /\ Held' \in Nat
  <2>1. Shape'
    BY ShapeStep
  <2>2. Lengths'
    BY <2>1, LenProperties DEF Shape, Lengths
  <2>3. Lengths
    BY LengthsKnown DEF Core
  <2> QED BY <2>2, <2>3 DEF Core, Shape, Lengths, Held
<1>1. ASSUME NEW e, Hands(e) \/ HandsOver(e) PROVE handed' # handed
  <2>1. handed' = Append(handed, e)
    BY <1>1, Zenon DEF Hands, HandsOver
  <2>2. Append(handed, e) # handed
    <3>1. Len(Append(handed, e)) = Len(handed) + 1 /\ Len(handed) \in Nat
      BY <1>0, LenProperties
    <3> QED BY <3>1
  <2> QED BY <2>1, <2>2, Zenon
<1>2. ASSUME Still \/ Posts \/ Settles \/ Resumes
      PROVE  Held' <= Held /\ Len(buffer') < BatchMaxEvents
  BY <1>2, OthersHold DEF RoomKnown
<1>3. CASE Steady
  <2>1. ~Writes
    BY <1>1, <1>3, Zenon DEF Writes, Steady
  <2>2. Held' <= Held /\ Len(buffer') < BatchMaxEvents
    BY <1>2, <2>1, WriterKinds, Zenon
  <2>3. Len(pending') = Len(pending) /\ Len(queue') = Len(queue)
    BY <1>3, Zenon DEF Steady
  <2> QED BY <1>0, <2>2, <2>3, SubscriberAssumption, SMTT(60) DEF RoomKnown, Lengths
<1>4. CASE (TakesFirst \/ TakesNext) /\ Still
  <2>1. arg = <<>> /\ batch = <<>> /\ Len(<<>>) = 0
    BY <1>4 DEF TakesFirst, TakesNext, Core, WriterControl
  <2>2. Held = Len(buffer)
    BY <1>0, <2>1 DEF Lengths, Held
  <2>3. Held' <= Held /\ Len(buffer') < BatchMaxEvents
    BY <1>2, <1>4, Zenon
  <2>4. Len(queue') <= Len(queue) /\ Len(pending') <= DrainBatch
    <3>1. queue # <<>> /\ queue' = Tail(queue)
      BY <1>4, Zenon DEF TakesFirst, TakesNext
    <3>2. Len(queue') <= Len(queue)
      BY <1>0, <3>1, HeadTailProperties DEF Lengths
    <3>3. CASE TakesFirst
      <4>1. Len(pending') = 1
        BY <3>3 DEF TakesFirst
      <4> QED BY <3>2, <4>1, SubscriberAssumption
    <3>4. CASE TakesNext
      <4>1. Head(queue) \in Events
        BY <1>0, <3>1, HeadTailProperties, Zenon
      <4>2. Len(pending') = Len(pending) + 1
        BY <1>0, <3>4, <4>1, AppendProperties DEF TakesNext
      <4>3. Len(pending) < DrainBatch
        BY <3>4, Zenon DEF TakesNext
      <4> QED BY <1>0, <3>2, <4>2, <4>3, SubscriberAssumption DEF Lengths
    <3> QED BY <1>4, <3>3, <3>4
  <2> QED BY <1>0, <2>2, <2>3, <2>4, SubscriberAssumption, SMTT(60) DEF RoomKnown, Lengths
<1>5. CASE Writes /\ pending # <<>> /\ pending' = Tail(pending) /\ UNCHANGED queue
  <2>1. PICK e \in Events : e = Head(pending)
    BY <1>0, <1>5, HeadTailProperties, Zenon
  <2>2. Hands(e) \/ (~batchMode /\ HandsOver(e))
    BY <1>5, <2>1, Zenon DEF Writes
  <2>3. Len(buffer) < BatchMaxEvents
    BY DEF RoomKnown
  <2>4. Held' <= Held + 1 /\ Len(buffer') < BatchMaxEvents
    BY <2>1, <2>2, <2>3, WriteHolds, Zenon
  <2>5. Len(pending') = Len(pending) - 1 /\ Len(queue') = Len(queue)
    BY <1>0, <1>5, HeadTailProperties
  <2>6. Len(pending) \in Nat /\ Held \in Nat /\ Held' \in Nat
    BY <1>0, Zenon DEF Lengths
  <2>7. DrainBatch \in Nat /\ BatchMaxEvents \in Nat
    BY SubscriberAssumption
  <2>8. /\ Len(queue) <= QueueCapacity /\ Len(pending) <= DrainBatch
        /\ Len(pending) + Held <= DrainBatch + BatchMaxEvents - 1
    BY Zenon DEF RoomKnown
  <2>9. Len(pending') <= DrainBatch /\ Len(pending') + Held' <= DrainBatch + BatchMaxEvents - 1
    BY <2>4, <2>5, <2>6, <2>7, <2>8
  <2> QED BY <2>4, <2>5, <2>8, <2>9, Zenon DEF RoomKnown
<1>6. CASE Still /\ pending' = <<>> /\ UNCHANGED queue
  <2>1. Len(pending') = 0 /\ Len(queue') = Len(queue)
    BY <1>6
  <2>2. Held' <= Held /\ Len(buffer') < BatchMaxEvents
    BY <1>2, <1>6, Zenon
  <2>3. Held \in Nat /\ Held' \in Nat /\ Len(pending) \in Nat
    BY <1>0, Zenon DEF Lengths
  <2>4. DrainBatch \in Nat /\ BatchMaxEvents \in Nat
    BY SubscriberAssumption
  <2>5. /\ Len(queue) <= QueueCapacity /\ Len(pending) <= DrainBatch
        /\ Len(pending) + Held <= DrainBatch + BatchMaxEvents - 1
    BY Zenon DEF RoomKnown
  <2>6. Len(queue') <= QueueCapacity
    BY <2>1, <2>5, Zenon
  <2>7. Len(pending') <= DrainBatch
    BY <2>1, <2>4
  <2>8. Held' <= DrainBatch + BatchMaxEvents - 1
    BY <2>2, <2>3, <2>4, <2>5
  <2>9. Len(pending') + Held' <= DrainBatch + BatchMaxEvents - 1
    BY <2>1, <2>3, <2>8
  <2> QED BY <2>2, <2>6, <2>7, <2>9, Zenon DEF RoomKnown
<1>7. CASE Arrives /\ Still
  <2>1. Held' <= Held /\ Len(buffer') < BatchMaxEvents
    BY <1>2, <1>7, Zenon
  <2>2. Len(pending') = Len(pending)
    BY <1>7, Zenon DEF Arrives
  <2>3. Len(queue') <= QueueCapacity
    <3>1. CASE Len(queue) < QueueCapacity /\ queue' = Append(queue, arrived + 1)
      <4>1. Len(queue') = Len(queue) + 1
        BY <1>0, <3>1
      <4> QED BY <1>0, <3>1, <4>1, SubscriberAssumption DEF Lengths
    <3>2. CASE queue' = queue
      BY <3>2 DEF RoomKnown
    <3> QED BY <1>7, <3>1, <3>2, Zenon DEF Arrives
  <2> QED BY <1>0, <2>1, <2>2, <2>3, SubscriberAssumption, SMTT(60) DEF RoomKnown, Lengths
<1> QED BY <1>3, <1>4, <1>5, <1>6, <1>7, ThreadKinds, Zenon

\* Memory is bounded by queue, drain and batch, although the main thread takes a drain
\* while the buffer is not empty.
THEOREM MemoryAlwaysBounded == Spec => []MemoryBounded
<1>1. Init => RoomKnown
  <2> SUFFICES ASSUME Init PROVE RoomKnown
    OBVIOUS
  <2>1. pending = <<>> /\ queue = <<>> /\ arg = <<>> /\ buffer = <<>> /\ batch = <<>>
    BY Zenon DEF Init, W!Init
  <2>2. Len(<<>>) = 0
    OBVIOUS
  <2> QED BY <2>1, <2>2, SubscriberAssumption DEF RoomKnown, Held
<1>2. Core /\ RoomKnown /\ [Next]_vars => RoomKnown'
  BY RoomStep
<1>3. Core /\ RoomKnown => MemoryBounded
  <2> SUFFICES ASSUME Core, RoomKnown PROVE MemoryBounded
    OBVIOUS
  <2>1. Lengths
    BY LengthsKnown DEF Core
  <2> QED BY <2>1 DEF RoomKnown, Held, Lengths, MemoryBounded
<1> QED BY <1>1, <1>2, <1>3, CoreAlways, PTL DEF Spec

-------------------------------------------------------------------------------
(* The reconnect policy *)

\* What a step of the system makes of the policy's view of it.
LEMMA PolicyKinds ==
    ASSUME [Next]_vars
    PROVE  \/ UNCHANGED <<Phase, policyVars>>
           \/ R!CountAttempt /\ R!Reset /\ connects < MaxConnects
              /\ Phase = "connect" /\ Phase' = "running"
           \/ R!CountAttempt /\ R!Penalise /\ connects + 1 < MaxConnects
              /\ Phase = "connect" /\ R!AfterError
           \/ R!Penalise /\ Phase = "running" /\ R!AfterError
              /\ UNCHANGED <<attempted, attempts, connects>>
           \/ Phase = "sleeping" /\ Phase' = "connect" /\ UNCHANGED policyVars
<1> DEFINE Goal == \/ UNCHANGED <<Phase, policyVars>>
                   \/ R!CountAttempt /\ R!Reset /\ connects < MaxConnects
                      /\ Phase = "connect" /\ Phase' = "running"
                   \/ R!CountAttempt /\ R!Penalise /\ connects + 1 < MaxConnects
                      /\ Phase = "connect" /\ R!AfterError
                   \/ R!Penalise /\ Phase = "running" /\ R!AfterError
                      /\ UNCHANGED <<attempted, attempts, connects>>
                   \/ Phase = "sleeping" /\ Phase' = "connect" /\ UNCHANGED policyVars
<1> SUFFICES Goal
  OBVIOUS
\* The places of the main thread, as the policy sees them.
<1>a. /\ pc = "connect" => Phase = "connect"
      /\ pc \in {"get", "drain", "write", "record", "flush"} => Phase = "running"
      /\ pc \in {"cleanup", "stop"} =>
            Phase = IF failures - 1 > FloatMaxExponent THEN "exited" ELSE "sleeping"
      /\ pc = "sleep" => Phase = "sleeping"
      /\ pc = "exited" => Phase = "exited"
  BY DEF Phase
<1>b. /\ pc' = "connect" => Phase' = "connect"
      /\ pc' \in {"get", "drain", "write", "record", "flush"} => Phase' = "running"
      /\ pc' \in {"cleanup", "stop"} =>
            Phase' = IF failures' - 1 > FloatMaxExponent THEN "exited" ELSE "sleeping"
      /\ pc' = "sleep" => Phase' = "sleeping"
      /\ pc' = "exited" => Phase' = "exited"
  BY DEF Phase
<1>c. ASSUME pc' = pc, failures' = failures PROVE Phase' = Phase
  BY <1>c, Zenon DEF Phase
<1>d. ASSUME R!Penalise, pc' = "cleanup" PROVE R!AfterError
  <2>1. failures' = failures + 1
    BY <1>d, Zenon DEF R!Penalise
  <2>2. Phase' = IF (failures + 1) - 1 > FloatMaxExponent THEN "exited" ELSE "sleeping"
    BY <1>b, <1>d, <2>1
  <2> QED BY <2>2, Zenon DEF R!AfterError, R!Overflows
<1>e. ASSUME UNCHANGED <<pc, policyVars>> PROVE Goal
  BY <1>c, <1>e, Zenon DEF policyVars
<1>f. ASSUME UNCHANGED policyVars, Phase' = Phase PROVE Goal
  BY <1>f, Zenon
<1> HIDE DEF Goal
<1>1. CASE UNCHANGED vars \/ Clock \/ WriterStep
  BY <1>1, <1>e, Zenon DEF vars, mainVars, Clock, WriterStep
<1>2. CASE NetworkStep
  BY <1>2, <1>e, Zenon DEF NetworkStep, NetworkFrame, mainVars, OnConnect, OnMessageRaises, Disconnected,
     PahoReconnects, MessageArrives, MessageCounted
<1>3. CASE Connect
  <2>1. pc = "connect" /\ pc' = "get" /\ R!CountAttempt /\ R!Reset /\ connects < MaxConnects
    BY <1>3, Zenon DEF Connect, MainAt
  <2>2. Phase = "connect" /\ Phase' = "running"
    BY <1>a, <1>b, <2>1
  <2> QED BY <2>1, <2>2, Zenon DEF Goal
<1>4. CASE ConnectFails
  <2>1. /\ pc = "connect" /\ pc' = "cleanup" /\ R!CountAttempt /\ R!Penalise
        /\ connects + 1 < MaxConnects
    BY <1>4, Zenon DEF ConnectFails, MainAt
  <2> QED BY <1>a, <1>d, <2>1, Zenon DEF Goal
<1>5. CASE WriteFails
  <2>1. /\ pc = "write" /\ pc' = "cleanup" /\ R!Penalise
        /\ UNCHANGED <<attempted, attempts, connects>>
    BY <1>5, Zenon DEF WriteFails, MainAt
  <2>2. Phase = "running"
    BY <1>a, <2>1
  <2> QED BY <1>d, <2>1, <2>2, Zenon DEF Goal
<1>6. CASE Get \/ Drain \/ Write \/ RecordWrite \/ FlushIfDue
  <2>1. UNCHANGED policyVars
    BY <1>6, Zenon DEF Get, Drain, Write, RecordWrite, FlushIfDue
  <2>2. /\ pc \in {"get", "drain", "write", "record", "flush"}
        /\ pc' \in {"get", "drain", "write", "record", "flush"}
    <3>1. \/ pc = "get" /\ pc' = "drain"
          \/ pc = "drain" /\ (pc' = pc \/ pc' = "write")
          \/ pc = "write" /\ pc' = "record"
          \/ pc = "record" /\ (pc' = "flush" \/ pc' = "write")
          \/ pc = "flush" /\ pc' = "get"
      BY <1>6, Zenon DEF Get, Drain, Write, RecordWrite, FlushIfDue, MainAt
    <3> QED BY <3>1
  <2>3. Phase' = Phase
    BY <1>a, <1>b, <2>2, Zenon
  <2> QED BY <1>f, <2>1, <2>3
<1>7. CASE Cleanup
  <2>1. UNCHANGED policyVars /\ pc = "cleanup" /\ pc' = "stop"
    BY <1>7, Zenon DEF Cleanup, MainAt
  <2>2. failures' = failures
    BY <2>1, Zenon DEF policyVars
  <2>3. Phase' = Phase
    BY <1>a, <1>b, <2>1, <2>2
  <2> QED BY <1>f, <2>1, <2>3
<1>8. CASE StopNetwork
  <2>1. /\ UNCHANGED policyVars /\ pc = "stop"
        /\ pc' = IF Phase = "exited" THEN "exited" ELSE "sleep"
    BY <1>8, Zenon DEF StopNetwork, MainAt
  <2>2. Phase \in {"exited", "sleeping"}
    BY <1>a, <2>1
  <2>3. Phase' = Phase
    BY <1>b, <2>1, <2>2
  <2> QED BY <1>f, <2>1, <2>3
<1>9. CASE Wake
  <2>1. UNCHANGED policyVars /\ pc = "sleep" /\ pc' = "connect"
    BY <1>9, Zenon DEF Wake, MainAt
  <2> QED BY <1>a, <1>b, <2>1, Zenon DEF Goal
<1> QED BY <1>1, <1>2, <1>3, <1>4, <1>5, <1>6, <1>7, <1>8, <1>9, Zenon DEF Next, MainStep

\* Every step of the system is a step of the policy, or leaves it alone.
ConnectsKnown == connects \in Nat

LEMMA PolicyStep == ConnectsKnown /\ [Next]_vars => ConnectsKnown' /\ [R!Next]_(R!vars)
<1> SUFFICES ASSUME connects \in Nat, [Next]_vars
             PROVE  connects' \in Nat /\ [R!Next]_(R!vars)
    BY Zenon DEF ConnectsKnown
<1>1. CASE UNCHANGED <<Phase, policyVars>>
  BY <1>1, Zenon DEF policyVars, R!vars, R!policyVars
<1>2. ASSUME R!CountAttempt PROVE connects' \in Nat
  BY <1>2 DEF R!CountAttempt
<1>3. CASE R!CountAttempt /\ R!Reset /\ connects < MaxConnects
           /\ Phase = "connect" /\ Phase' = "running"
  BY <1>2, <1>3, Zenon DEF R!Next, R!Connects
<1>4. CASE R!CountAttempt /\ R!Penalise /\ connects + 1 < MaxConnects
           /\ Phase = "connect" /\ R!AfterError
  <2>1. connects < MaxConnects
    <3>1. connects + 1 < MaxConnects
      BY <1>4, Zenon
    <3> QED BY <3>1, SubscriberAssumption
  <2> QED BY <1>2, <1>4, <2>1, Zenon DEF R!Next, R!ConnectFails
<1>5. CASE R!Penalise /\ Phase = "running" /\ R!AfterError
           /\ UNCHANGED <<attempted, attempts, connects>>
  BY <1>5, Zenon DEF R!Next, R!LoopFails
<1>6. CASE Phase = "sleeping" /\ Phase' = "connect" /\ UNCHANGED policyVars
  BY <1>6, Zenon DEF R!Next, R!Wakes, policyVars, R!policyVars
<1>7. \/ UNCHANGED <<Phase, policyVars>>
      \/ R!CountAttempt /\ R!Reset /\ connects < MaxConnects
         /\ Phase = "connect" /\ Phase' = "running"
      \/ R!CountAttempt /\ R!Penalise /\ connects + 1 < MaxConnects
         /\ Phase = "connect" /\ R!AfterError
      \/ R!Penalise /\ Phase = "running" /\ R!AfterError
         /\ UNCHANGED <<attempted, attempts, connects>>
      \/ Phase = "sleeping" /\ Phase' = "connect" /\ UNCHANGED policyVars
  BY PolicyKinds
<1> QED BY <1>1, <1>3, <1>4, <1>5, <1>6, <1>7

LEMMA PolicyInit == Init => R!Init /\ ConnectsKnown
<1> SUFFICES ASSUME Init PROVE R!Init /\ connects \in Nat
    BY Zenon DEF ConnectsKnown
<1>1. R!Init
  BY Zenon DEF Init
<1>2. connects = 0
  BY <1>1, Zenon DEF R!Init
<1> QED BY <1>1, <1>2

\* The main loop, its drains, writes, finally block and sleep included, follows the
\* reconnect policy step by step, so what is proved of the policy holds of the input.
THEOREM PolicyRefinement == Spec => ImplementsPolicy
BY PolicyInit, PolicyStep, PTL DEF Spec, ImplementsPolicy, R!Spec
-------------------------------------------------------------------------------
(* Types *)

\* A set of numbers that is not empty has a least element: induction, in the form the
\* provers can use.
LEMMA LeastElement ==
    ASSUME NEW T \in SUBSET Nat, T # {}
    PROVE  \E x \in T : \A y \in T : ~(y < x)
<1>1. PICK x \in T : \A y \in T : ~(<<y, x>> \in OpToRel(<, Nat))
  BY WFMin, NatLessThanWellFounded, Zenon
<1>2. \A y \in T : ~(y < x)
  BY <1>1, Zenon DEF OpToRel
<1> QED BY <1>2

\* g is an initial piece, up to n, of the powers of two.
Powers(n, g) ==
    /\ g \in [0 .. n -> Nat]
    /\ g[0] = 1
    /\ \A i \in 1 .. n : g[i] = 2 * g[i - 1]

LEMMA PowersExist == \A n \in Nat : \E g : Powers(n, g)
<1> DEFINE T == {n \in Nat : ~\E g : Powers(n, g)}
<1> SUFFICES ASSUME T # {} PROVE FALSE
    OBVIOUS
<1>1. PICK n \in T : \A m \in T : ~(m < n)
  BY LeastElement
<1>2. CASE n = 0
  <2>1. Powers(0, [i \in 0 .. 0 |-> 1])
    BY DEF Powers
  <2> QED BY <1>2, <2>1
<1>3. CASE n # 0
  <2>1. n \in Nat /\ n - 1 \in Nat /\ n - 1 \notin T
    BY <1>1, <1>3
  <2>2. PICK g : Powers(n - 1, g)
    BY <2>1
  <2> DEFINE h == [i \in 0 .. n |-> IF i = n THEN 2 * g[n - 1] ELSE g[i]]
  <2>3. Powers(n, h)
    BY <1>3, <2>1, <2>2 DEF Powers
  <2> QED BY <2>3
<1> QED BY <1>2, <1>3

\* Two initial pieces agree where both are defined.
LEMMA PowersAgree ==
    ASSUME NEW n \in Nat, NEW m \in Nat, NEW g, NEW h, Powers(n, g), Powers(m, h),
           NEW i \in Nat, i <= n, i <= m
    PROVE  g[i] = h[i]
<1> DEFINE T == {k \in Nat : k <= n /\ k <= m /\ g[k] # h[k]}
<1> SUFFICES ASSUME T # {} PROVE FALSE
    OBVIOUS
<1>1. PICK k \in T : \A j \in T : ~(j < k)
  BY LeastElement
<1>2. k # 0
  BY <1>1 DEF Powers
<1>3. g[k - 1] = h[k - 1]
  BY <1>1, <1>2
<1> QED BY <1>1, <1>2, <1>3 DEF Powers

\* The recursive function is what its definition says.
LEMMA PowerOfTwoUnfolds ==
    \A n \in Nat : R!PowerOfTwo[n] = IF n = 0 THEN 1 ELSE 2 * R!PowerOfTwo[n - 1]
<1> DEFINE G(n) == CHOOSE g : Powers(n, g)
           f == [n \in Nat |-> G(n)[n]]
<1>1. \A n \in Nat : Powers(n, G(n))
  BY PowersExist, Zenon
<1> HIDE DEF G
<1>2. ASSUME NEW n \in Nat PROVE f[n] = IF n = 0 THEN 1 ELSE 2 * f[n - 1]
  <2>1. CASE n = 0
    BY <1>1, <2>1 DEF Powers
  <2>2. CASE n # 0
    <3>1. n - 1 \in Nat /\ n - 1 <= n /\ Powers(n, G(n)) /\ Powers(n - 1, G(n - 1))
      BY <1>1, <2>2
    <3>2. G(n)[n - 1] = G(n - 1)[n - 1]
      BY <3>1, PowersAgree
    <3>3. G(n)[n] = 2 * G(n)[n - 1]
      BY <2>2, <3>1 DEF Powers
    <3> QED BY <2>2, <3>1, <3>2, <3>3
  <2> QED BY <2>1, <2>2
<1>3. f = [n \in Nat |-> IF n = 0 THEN 1 ELSE 2 * f[n - 1]]
  BY <1>2
<1>4. R!PowerOfTwo = [n \in Nat |-> IF n = 0 THEN 1 ELSE 2 * R!PowerOfTwo[n - 1]]
  <2> HIDE DEF f
  <2> QED BY <1>3, Zenon DEF R!PowerOfTwo
<1> QED BY <1>4

\* The delay after a failure is a number.
LEMMA DelayType == ASSUME NEW n \in Nat, n >= 1, interval \in Int PROVE R!BackoffDelay(n) \in Int
<1> DEFINE T == {m \in Nat : R!PowerOfTwo[m] \notin Nat}
<1>1. T = {}
  <2> SUFFICES ASSUME T # {} PROVE FALSE
      OBVIOUS
  <2>1. PICK m \in T : \A k \in T : ~(k < m)
    BY LeastElement
  <2>2. m # 0
    BY <2>1, PowerOfTwoUnfolds
  <2>3. m - 1 \in Nat /\ R!PowerOfTwo[m - 1] \in Nat
    BY <2>1, <2>2
  <2> QED BY <2>1, <2>2, <2>3, PowerOfTwoUnfolds
<1>2. n - 1 \in Nat /\ R!PowerOfTwo[n - 1] \in Nat
  BY <1>1
<1>3. R!CappedPower(n - 1) \in Int
  BY <1>2, PartsAssumption DEF R!CappedPower
<1> QED BY <1>3, PartsAssumption DEF R!BackoffDelay, R!AtLeast, R!AtMost

PolicyNumbers ==
    /\ interval \in Intervals /\ interval \in Int
    /\ failures \in Nat /\ attempts \in Nat /\ cooldowns \in Nat /\ connects \in Nat
    /\ delay \in Int

LEMMA CountAttemptTypes ==
    ASSUME PolicyNumbers, R!CountAttempt PROVE attempts' \in Nat /\ connects' \in Nat
<1>1. attempts' = attempts + 1 \/ attempts' = attempts
  BY Zenon DEF R!CountAttempt
<1>2. connects' = connects + 1
  BY Zenon DEF R!CountAttempt
<1> QED BY <1>1, <1>2 DEF PolicyNumbers

LEMMA PenaliseTypes ==
    ASSUME PolicyNumbers, R!Penalise
    PROVE  failures' \in Nat /\ delay' \in Int /\ cooldowns' \in Nat /\ interval' = interval
<1>1. failures + 1 \in Nat /\ failures + 1 >= 1 /\ interval \in Int
  BY DEF PolicyNumbers
<1>2. R!BackoffDelay(failures + 1) \in Int
  BY <1>1, DelayType
<1>3. /\ failures' = failures + 1 /\ interval' = interval
      /\ delay' = delay \/ delay' = R!BackoffDelay(failures + 1)
      /\ cooldowns' = cooldowns \/ cooldowns' = cooldowns + 1
  BY Zenon DEF R!Penalise
<1> QED BY <1>1, <1>2, <1>3 DEF PolicyNumbers

LEMMA PolicyNumbersStep ==
    ASSUME PolicyNumbers, [Next]_vars
    PROVE  PolicyNumbers'
<1>1. CASE UNCHANGED <<Phase, policyVars>>
  BY <1>1, Zenon DEF policyVars, PolicyNumbers
<1>2. CASE R!CountAttempt /\ R!Reset
  <2>1. /\ interval' = interval /\ failures' = 0 /\ delay' = interval /\ cooldowns' = cooldowns
    BY <1>2, Zenon DEF R!Reset
  <2> QED BY <1>2, <2>1, CountAttemptTypes DEF PolicyNumbers
<1>3. CASE R!CountAttempt /\ R!Penalise
  BY <1>3, CountAttemptTypes, PenaliseTypes DEF PolicyNumbers
<1>4. CASE R!Penalise /\ UNCHANGED <<attempted, attempts, connects>>
  BY <1>4, PenaliseTypes DEF PolicyNumbers
<1>5. CASE UNCHANGED policyVars
  BY <1>5, Zenon DEF policyVars, PolicyNumbers
<1> QED BY <1>1, <1>2, <1>3, <1>4, <1>5, PolicyKinds, Zenon

LEMMA AttemptedStep ==
    ASSUME attempted \in BOOLEAN, [Next]_vars
    PROVE  attempted' \in BOOLEAN
<1>1. attempted' = attempted \/ attempted' = TRUE
  BY PolicyKinds, Zenon DEF policyVars, R!CountAttempt
<1> QED BY <1>1, Zenon
\* The writer's numbers, counters and record of what HEC has got.
WriterNumbers ==
    /\ bufferBytes \in Nat /\ batchBytes \in Nat
    /\ sinceFlush \in 0 .. FlushInterval
    /\ attempt \in 0 .. RetryMaxAttempts - 1
    /\ batchesSent \in Nat /\ batchesFailed \in Nat
    /\ eventsSent \in Nat /\ eventsFailed \in Nat /\ retries \in Nat
    /\ closeCalls \in Nat
    /\ acked \in SUBSET Events
    /\ indexed \in [Events -> Nat]

\* What write and flush do to them: at most the bytes are counted, and clock and attempts
\* start over.
Buffers ==
    /\ bufferBytes' \in Nat /\ batchBytes' \in Nat
    /\ sinceFlush' = sinceFlush \/ sinceFlush' = 0
    /\ attempt' = attempt \/ attempt' = 0
    /\ UNCHANGED <<batchesSent, batchesFailed, eventsSent, eventsFailed, retries, closeCalls,
                   acked, indexed>>

LEMMA BuffersTypes == ASSUME WriterNumbers, Buffers PROVE WriterNumbers'
<1>1. 0 \in 0 .. FlushInterval /\ 0 \in 0 .. RetryMaxAttempts - 1
  BY PartsAssumption
<1> QED BY <1>1, Zenon DEF WriterNumbers, Buffers

LEMMA AppendLineBuffers ==
    ASSUME WriterNumbers, NEW e \in Events, W!AppendLine(e),
           UNCHANGED <<batchesSent, batchesFailed, eventsSent, eventsFailed, retries, closeCalls,
                       acked, indexed>>
    PROVE  Buffers
<1>1. bufferBytes \in Nat /\ batchBytes \in Nat /\ LineBytes[e] \in Nat
  BY PartsAssumption DEF WriterNumbers
<1>2. bufferBytes + LineBytes[e] \in Nat /\ 0 \in Nat
  BY <1>1
<1> QED BY <1>1, <1>2, Zenon DEF W!AppendLine, W!StartPost, Buffers

LEMMA WriteBuffers == ASSUME WriterNumbers, NEW e \in Events, W!Write(e) PROVE Buffers
<1>1. UNCHANGED <<batchesSent, batchesFailed, eventsSent, eventsFailed, retries, closeCalls,
                  acked, indexed>>
  BY Zenon DEF W!Write, W!hec
<1>2. CASE W!Overflows(e)
  <2>1. bufferBytes \in Nat /\ 0 \in Nat
    BY DEF WriterNumbers
  <2> QED BY <1>1, <1>2, <2>1, Zenon DEF W!Write, W!StartPost, Buffers
<1>3. CASE ~W!Overflows(e)
  BY <1>1, <1>3, AppendLineBuffers, Zenon DEF W!Write
<1> QED BY <1>2, <1>3

LEMMA FlushBuffers ==
    ASSUME WriterNumbers, NEW force, CallFlush(force) PROVE Buffers
<1>1. bufferBytes \in Nat /\ batchBytes \in Nat /\ 0 \in Nat
  BY DEF WriterNumbers
<1> QED BY <1>1, Zenon DEF CallFlush, W!Flush, W!StartPost, W!hec, W!historyVars, writerVars,
           writerObject, Buffers

LEMMA IndexTypes ==
    ASSUME WriterNumbers, W!HecIndexes \/ UNCHANGED indexed
    PROVE  indexed' \in [Events -> Nat]
<1>1. W!Events = Events
  BY DEF W!Events, Events
<1>2. CASE W!HecIndexes
  BY <1>1, <1>2 DEF W!HecIndexes, WriterNumbers
<1>3. CASE UNCHANGED indexed
  BY <1>3 DEF WriterNumbers
<1> QED BY <1>2, <1>3

\* The end of a POST, whatever its outcome.
LEMMA BatchLeavesNumbers ==
    ASSUME WriterNumbers, W!BatchLeaves,
           batchesSent' \in Nat, batchesFailed' \in Nat,
           eventsSent' \in Nat, eventsFailed' \in Nat, retries' = retries,
           acked' \in SUBSET Events, indexed' \in [Events -> Nat]
    PROVE  WriterNumbers'
<1>1. /\ batchBytes' = 0 /\ attempt' = 0
      /\ UNCHANGED <<bufferBytes, sinceFlush, closeCalls>>
  BY Zenon DEF W!BatchLeaves
<1>2. 0 \in Nat /\ 0 \in 0 .. RetryMaxAttempts - 1
  BY PartsAssumption
<1> QED BY <1>1, <1>2, Zenon DEF WriterNumbers

LEMMA PostNumbers ==
    ASSUME WriterShape, WriterNumbers, W!PostStep
    PROVE  WriterNumbers'
<1>0. /\ batchesSent \in Nat /\ batchesFailed \in Nat /\ eventsSent \in Nat
      /\ eventsFailed \in Nat /\ retries \in Nat /\ acked \in SUBSET Events
      /\ attempt \in 0 .. RetryMaxAttempts - 1 /\ indexed \in [Events -> Nat]
  BY DEF WriterNumbers
<1>1. Len(batch) \in Nat /\ W!Range(batch) \in SUBSET Events
  BY DEF WriterShape, W!Range
<1>2. CASE W!PostSucceeds
  <2>1. /\ batchesSent' = batchesSent + 1 /\ eventsSent' = eventsSent + Len(batch)
        /\ UNCHANGED <<batchesFailed, eventsFailed, retries>>
        /\ acked' = acked \cup W!Range(batch) /\ W!HecIndexes /\ W!BatchLeaves
    BY <1>2, Zenon DEF W!PostSucceeds
  <2>2. batchesSent' \in Nat /\ eventsSent' \in Nat /\ acked' \in SUBSET Events
    BY <1>0, <1>1, <2>1
  <2> QED BY <1>0, <2>1, <2>2, IndexTypes, BatchLeavesNumbers
<1>3. ASSUME NEW reached, W!PostRetries(reached) PROVE WriterNumbers'
  <2>1. /\ attempt' = attempt + 1 /\ retries' = retries + 1 /\ attempt + 1 < RetryMaxAttempts
        /\ UNCHANGED <<batchesSent, batchesFailed, eventsSent, eventsFailed, bufferBytes,
                       sinceFlush, batchBytes, closeCalls, acked>>
        /\ W!HecIndexes \/ UNCHANGED indexed
    BY <1>3, Zenon DEF W!PostRetries, W!AttemptFails, W!AttemptsLeft
  <2>2. indexed' \in [Events -> Nat]
    BY <2>1, IndexTypes
  <2>3. attempt' \in 0 .. RetryMaxAttempts - 1 /\ retries' \in Nat
    BY <1>0, <2>1, PartsAssumption
  <2> QED BY <2>1, <2>2, <2>3, Zenon DEF WriterNumbers
<1>4. ASSUME NEW reached, W!PostGivesUp(reached) PROVE WriterNumbers'
  <2>1. /\ batchesFailed' = batchesFailed + 1 /\ eventsFailed' = eventsFailed + Len(batch)
        /\ UNCHANGED <<batchesSent, eventsSent, retries, acked>>
        /\ W!HecIndexes \/ UNCHANGED indexed
        /\ W!BatchLeaves
    BY <1>4, Zenon DEF W!PostGivesUp, W!AttemptFails, W!CountDropped
  <2>2. batchesFailed' \in Nat /\ eventsFailed' \in Nat
    BY <1>0, <1>1, <2>1
  <2> QED BY <1>0, <2>1, <2>2, IndexTypes, BatchLeavesNumbers
<1>5. CASE W!RequestRejected
  <2>1. /\ UNCHANGED <<batchesSent, batchesFailed, eventsSent, eventsFailed, retries, acked,
                       indexed>>
        /\ W!BatchLeaves
    BY <1>5, Zenon DEF W!RequestRejected, W!hec
  <2> QED BY <1>0, <2>1, BatchLeavesNumbers
<1> QED BY <1>2, <1>3, <1>4, <1>5, Zenon DEF W!PostStep

LEMMA WriterNumbersStep ==
    ASSUME Core, WriterNumbers, [Next]_vars
    PROVE  WriterNumbers'
<1>0. WriterShape /\ WriterControl
  BY DEF Core, Shape, WriterShape
<1>1. ASSUME UNCHANGED writerVars PROVE WriterNumbers'
  BY <1>1, Zenon DEF writerVars, writerObject, WriterNumbers
<1>2. CASE Clock
  <2>1. /\ sinceFlush < FlushInterval /\ sinceFlush' = sinceFlush + 1
        /\ UNCHANGED <<bufferBytes, batchBytes, attempt, batchesSent, batchesFailed, eventsSent,
                       eventsFailed, retries, closeCalls, acked, indexed>>
    BY <1>2, Zenon DEF Clock, W!Tick, W!hec, W!historyVars
  <2>2. sinceFlush' \in 0 .. FlushInterval
    BY <2>1, PartsAssumption DEF WriterNumbers
  <2> QED BY <2>1, <2>2, Zenon DEF WriterNumbers
<1>3. CASE UNCHANGED vars
  BY <1>1, <1>3, Zenon DEF vars
<1>4. CASE NetworkStep
  BY <1>1, <1>4, Zenon DEF NetworkStep, NetworkFrame, OnConnect, OnMessageRaises, Disconnected,
     PahoReconnects, MessageArrives, MessageCounted
<1>5. CASE Connect \/ ConnectFails \/ Get \/ Drain \/ WriteFails \/ RecordWrite \/ StopNetwork \/ Wake
  BY <1>1, <1>5, Zenon DEF Connect, ConnectFails, Get, Drain, WriteFails, RecordWrite,
     StopNetwork, Wake
<1>6. CASE FlushIfDue \/ Cleanup
  BY <1>6, FlushBuffers, BuffersTypes, Zenon DEF FlushIfDue, Cleanup
<1>7. CASE Write
  <2>1. PICK e \in Events : e = Head(pending)
    <3>1. pending # <<>> /\ pending \in Seq(Events)
      <4>1. pc = "write"
        BY <1>7, Zenon DEF Write, MainAt
      <4> QED BY <4>1 DEF Core, MainControl, Shape
    <3> QED BY <3>1, HeadTailProperties, Zenon
  <2>2. CASE W!Write(e)
    BY <2>2, WriteBuffers, BuffersTypes, Zenon
  <2>3. CASE WriteSingle(e)
    <3>1. /\ acked' = acked \cup {e} /\ indexed' = [indexed EXCEPT ![e] = @ + 1]
          /\ UNCHANGED <<bufferBytes, batchBytes, sinceFlush, attempt, batchesSent,
                         batchesFailed, eventsSent, eventsFailed, retries, closeCalls>>
      BY <2>3, Zenon DEF WriteSingle, writerObject
    <3>2. acked' \in SUBSET Events /\ indexed' \in [Events -> Nat]
      BY <3>1 DEF WriterNumbers
    <3> QED BY <3>1, <3>2, Zenon DEF WriterNumbers
  <2> QED BY <1>7, <2>1, <2>2, <2>3, Zenon DEF Write
<1>8. CASE WriterStep
  <2>1. CASE W!PostStep
    BY <1>0, <2>1, PostNumbers
  <2>2. CASE W!WriteResumes
    <3>0. Resumes
      BY <2>2, Zenon
      DEF W!WriteResumes, W!AppendLine, W!StartPost, W!Fills, W!historyVars, Resumes
    <3>1. PICK e \in Events : Head(arg) = e
      BY <1>0, <3>0, ResumesShape
    <3>2. /\ W!AppendLine(e)
          /\ UNCHANGED <<batchesSent, batchesFailed, eventsSent, eventsFailed, retries,
                         closeCalls, acked, indexed>>
      BY <2>2, <3>1, Zenon DEF W!WriteResumes, W!hec, W!historyVars
    <3> QED BY <3>2, AppendLineBuffers, BuffersTypes, Zenon
  <2> QED BY <1>8, <2>1, <2>2, Zenon DEF WriterStep
<1> QED BY <1>2, <1>3, <1>4, <1>5, <1>6, <1>7, <1>8, Zenon DEF Next, MainStep
\* Everything else of the main thread and the network thread.
PlaceTypes ==
    /\ pc \in {"connect", "get", "drain", "write", "record", "flush", "cleanup", "stop",
               "sleep", "exited"}
    /\ link \in Links
    /\ newest \in 0 .. arrived

LEMMA PlaceStep ==
    ASSUME arrived \in 0 .. NumEvents, PlaceTypes, [Next]_vars
    PROVE  PlaceTypes'
<1>1. CASE NetworkStep
  <2>1. /\ pc' = pc
        /\ link' = link \/ link' \in {"subscribed", "deaf", "dead", "lost", "opening"}
        /\ \/ UNCHANGED <<newest, arrived>>
           \/ arrived' = arrived + 1 /\ (newest' = arrived' \/ newest' = newest)
    BY <1>1 DEF NetworkStep, NetworkFrame, mainVars, MessageVars, OnConnect, OnMessageRaises, Disconnected,
       PahoReconnects, MessageArrives, MessageCounted
  <2>2. newest' \in 0 .. arrived'
    BY <2>1 DEF PlaceTypes
  <2> QED BY <2>1, <2>2 DEF PlaceTypes, Links
<1>2. CASE UNCHANGED vars \/ Clock \/ WriterStep
  BY <1>2, Zenon DEF vars, mainVars, networkVars, Clock, WriterStep, PlaceTypes
<1>3. CASE Connect \/ ConnectFails \/ Get \/ Drain \/ Write \/ WriteFails \/ RecordWrite
           \/ FlushIfDue \/ Cleanup \/ StopNetwork \/ Wake
  <2>1. UNCHANGED <<newest, arrived>> /\ (link' = link \/ link' = "opening" \/ link' = "none")
    BY <1>3, Zenon DEF Connect, ConnectFails, Get, Drain, Write, WriteFails, RecordWrite,
       FlushIfDue, Cleanup, StopNetwork, Wake, networkVars
  <2>2. \/ pc' = pc \/ pc' = "get" \/ pc' = "cleanup" \/ pc' = "drain" \/ pc' = "write"
        \/ pc' = "record" \/ pc' = "flush" \/ pc' = "stop" \/ pc' = "exited" \/ pc' = "sleep"
        \/ pc' = "connect"
    BY <1>3, Zenon DEF Connect, ConnectFails, Get, Drain, Write, WriteFails, RecordWrite,
       FlushIfDue, Cleanup, StopNetwork, Wake
  <2> QED BY <2>1, <2>2 DEF PlaceTypes, Links
<1> QED BY <1>1, <1>2, <1>3, Zenon DEF Next, MainStep

\* The flags, which only the writer's calls set.
Flags ==
    /\ batchMode \in BOOLEAN /\ attempted \in BOOLEAN
    /\ endpointOk \in BOOLEAN /\ closed \in BOOLEAN

LEMMA FlagsStep == ASSUME Flags, [Next]_vars PROVE Flags'
<1>1. UNCHANGED <<batchMode, endpointOk>>
  <2>1. CASE UNCHANGED vars \/ Clock \/ NetworkStep
    BY <2>1, Zenon DEF vars, writerVars, writerObject, Clock, W!Tick, NetworkStep, NetworkFrame,
       OnConnect, OnMessageRaises, Disconnected, PahoReconnects, MessageArrives, MessageCounted
  <2>2. CASE Connect \/ ConnectFails \/ Get \/ Drain \/ WriteFails \/ RecordWrite \/ StopNetwork
             \/ Wake
    BY <2>2, Zenon DEF writerVars, writerObject, Connect, ConnectFails, Get, Drain, WriteFails,
       RecordWrite, StopNetwork, Wake
  <2>3. CASE Write \/ FlushIfDue \/ Cleanup
    BY <2>3, Zenon DEF writerVars, writerObject, Write, WriteSingle, W!Write, FlushIfDue,
       Cleanup, CallFlush, W!Flush
  <2>4. CASE WriterStep
    BY <2>4, Zenon DEF WriterStep, W!WriteResumes, W!PostStep, W!PostSucceeds, W!PostRetries,
       W!PostGivesUp, W!RequestRejected, W!BatchLeaves
  <2> QED BY <2>1, <2>2, <2>3, <2>4, Zenon DEF Next, MainStep
<1>2. closed' \in BOOLEAN
  <2>1. CASE UNCHANGED vars \/ Clock \/ NetworkStep
    BY <2>1, Zenon DEF vars, writerVars, writerObject, Clock, W!Tick, NetworkStep, NetworkFrame,
       OnConnect, OnMessageRaises, Disconnected, PahoReconnects, MessageArrives, MessageCounted, Flags
  <2>2. CASE Connect \/ ConnectFails \/ Get \/ Drain \/ WriteFails \/ RecordWrite \/ StopNetwork
             \/ Wake
    BY <2>2, Zenon DEF writerVars, writerObject, Connect, ConnectFails, Get, Drain, WriteFails,
       RecordWrite, StopNetwork, Wake, Flags
  <2>3. CASE Write \/ FlushIfDue \/ Cleanup
    BY <2>3, Zenon DEF writerVars, writerObject, Write, WriteSingle, W!Write, FlushIfDue,
       Cleanup, CallFlush, W!Flush, Flags
  <2>4. CASE WriterStep
    BY <2>4, Zenon DEF WriterStep, W!WriteResumes, W!PostStep, W!PostSucceeds, W!PostRetries,
       W!PostGivesUp, W!RequestRejected, W!BatchLeaves, Flags
  <2> QED BY <2>1, <2>2, <2>3, <2>4, Zenon DEF Next, MainStep
<1>3. attempted' \in BOOLEAN
  BY AttemptedStep, Zenon DEF Flags
<1> QED BY <1>1, <1>2, <1>3, Zenon DEF Flags

AllTypes == PolicyNumbers /\ WriterNumbers /\ PlaceTypes /\ Flags

LEMMA AllTypesStep == Core /\ AllTypes /\ [Next]_vars => AllTypes'
<1> SUFFICES ASSUME Core, AllTypes, [Next]_vars PROVE AllTypes'
    OBVIOUS
<1>1. arrived \in 0 .. NumEvents
  BY DEF Core, Shape
<1> QED BY <1>1, PolicyNumbersStep, WriterNumbersStep, PlaceStep, FlagsStep DEF AllTypes

LEMMA AllTypesInit == Init => AllTypes
<1> SUFFICES ASSUME Init PROVE AllTypes
    OBVIOUS
<1>1. /\ pc = "connect" /\ link = "none" /\ arrived = 0 /\ newest = 0
      /\ interval \in Intervals /\ failures = 0 /\ delay = interval
      /\ attempts = 0 /\ cooldowns = 0 /\ connects = 0
      /\ bufferBytes = 0 /\ batchBytes = 0 /\ sinceFlush = 0 /\ attempt = 0
      /\ batchesSent = 0 /\ batchesFailed = 0 /\ eventsSent = 0 /\ eventsFailed = 0
      /\ retries = 0 /\ closeCalls = 0 /\ acked = {} /\ indexed = [e \in W!Events |-> 0]
  BY Zenon DEF Init, W!Init, R!Init
<1>2. PolicyNumbers
  BY <1>1, PartsAssumption DEF PolicyNumbers
<1>3. WriterNumbers
  <2>1. indexed = [e \in Events |-> 0]
    BY <1>1 DEF W!Events, Events
  <2> QED BY <1>1, <2>1, PartsAssumption DEF WriterNumbers
<1>4. PlaceTypes
  BY <1>1 DEF PlaceTypes, Links
<1>5. Flags
  BY Zenon DEF Init, W!Init, R!Init, Flags
<1> QED BY <1>2, <1>3, <1>4, <1>5, Zenon DEF AllTypes

LEMMA AllTypesAlways == Spec => []AllTypes
BY AllTypesInit, AllTypesStep, CoreAlways, PTL DEF Spec

LEMMA TypesImplied == EventsKnown /\ CountsKnown /\ AllTypes => TypeOK
<1> SUFFICES ASSUME EventsKnown, CountsKnown, AllTypes PROVE TypeOK
    OBVIOUS
<1>1. DataTypes
  <2>1. missed \in SUBSET Events /\ abandoned \in SUBSET Events /\ newest \in 0 .. NumEvents
    <3>1. /\ missed \subseteq 1 .. arrived /\ abandoned \subseteq 1 .. arrived
          /\ arrived \in 0 .. NumEvents /\ newest \in 0 .. arrived
      BY DEF EventsKnown, PathKnown, Core, Shape, AllTypes, PlaceTypes
    <3> QED BY <3>1, SubscriberAssumption DEF Events
  <2>2. pending \in Seq(Events) /\ queue \in Seq(Events) /\ arrived \in 0 .. NumEvents
    BY DEF EventsKnown, Core, Shape
  <2> QED BY <2>1, <2>2, Zenon DEF CountsKnown, AllTypes, PlaceTypes, DataTypes
<1>2. W!DataTypes
  <2>1. W!Events = Events
    BY DEF W!Events, Events
  <2>2. call \in {"idle", "write", "flush", "close"}
    <3>1. call \in {"idle", "write", "flush"}
      BY Zenon DEF EventsKnown, Core, WriterControl
    <3> QED BY <3>1
  <2>3. /\ arg \in Seq(Events) /\ buffer \in Seq(Events) /\ batch \in Seq(Events)
        /\ handed \in Seq(Events) /\ settled \in Seq(Events)
    BY Zenon DEF EventsKnown, Core, Shape
  <2> QED BY <2>1, <2>2, <2>3, Zenon DEF AllTypes, WriterNumbers, W!DataTypes
<1>3. R!TypeOK
  <2>1. Phase \in {"connect", "running", "sleeping", "exited"}
    BY DEF AllTypes, PlaceTypes, Phase
  <2> QED BY <2>1, Zenon DEF AllTypes, PolicyNumbers, Flags, R!TypeOK
<1> QED BY <1>1, <1>2, <1>3, Zenon DEF AllTypes, Flags, TypeOK, W!TypeOK

\* Every variable has its type, those of the writer and of the reconnect policy included.
THEOREM TypesHold == Spec => []TypeOK
BY TypesImplied, AllTypesAlways, CountsAlways, EventsAlways, PTL

-------------------------------------------------------------------------------
(* The event pipe *)

LEMMA SplitConcat ==
    ASSUME NEW s \in Seq(Events), NEW t \in Seq(Events)
    PROVE  /\ SubSeq(s \o t, 1, Len(s)) = s
           /\ SubSeq(s \o t, Len(s) + 1, Len(s \o t)) = t
<1>1. Len(s) \in Nat /\ Len(t) \in Nat /\ Len(s \o t) = Len(s) + Len(t)
  BY ConcatProperties, LenProperties
<1>2. SubSeq(s \o t, 1, Len(s)) = s
  <2>1. CASE s = <<>>
    <3>1. Len(s) = 0
      BY <2>1
    <3>2. SubSeq(s \o t, 1, 0) = <<>>
      BY SubSeqEmpty
    <3> QED BY <2>1, <3>1, <3>2, Zenon
  <2>2. CASE s # <<>>
    <3>1. Len(s) >= 1
      BY <1>1, <2>2, EmptySeq
    <3>2. 1 \in 1 .. Len(s) /\ Len(s) \in 1 .. Len(s)
      BY <1>1, <3>1
    <3> QED BY <3>2, SubSeqOfConcat1, SubSeqFull
  <2> QED BY <2>1, <2>2
<1>3. SubSeq(s \o t, Len(s) + 1, Len(s) + Len(t)) = t
  <2>1. CASE t = <<>>
    <3>1. Len(t) = 0
      BY <2>1
    <3>2. SubSeq(s \o t, Len(s) + 1, Len(s) + 0) = <<>>
      BY <1>1, SubSeqEmpty
    <3> QED BY <2>1, <3>1, <3>2, Zenon
  <2>2. CASE t # <<>>
    <3>1. Len(t) >= 1
      BY <1>1, <2>2, EmptySeq
    <3>2. SubSeq(s \o t, Len(s) + 1, Len(s) + Len(t)) = SubSeq(t, 1, Len(t))
      BY <1>1, <3>1, SubSeqOfConcat2
    <3> QED BY <3>2, SubSeqFull
  <2> QED BY <2>1, <2>2
<1> QED BY <1>1, <1>2, <1>3, Zenon

LEMMA AppendToLast ==
    ASSUME NEW a \in Seq(Events), NEW b \in Seq(Events), NEW e \in Events
    PROVE  a \o Append(b, e) = Append(a \o b, e)
<1>1. <<e>> \in Seq(Events) /\ a \o b \in Seq(Events)
  BY ConcatProperties
<1>2. Append(b, e) = b \o <<e>>
  BY AppendIsConcat, Zenon
<1>3. Append(a \o b, e) = (a \o b) \o <<e>>
  BY <1>1, AppendIsConcat, Zenon
<1>4. a \o (b \o <<e>>) = (a \o b) \o <<e>>
  BY <1>1, Associative, ZenonT(60)
<1> QED BY <1>2, <1>3, <1>4, Zenon

\* The oldest events of the pipe leave it together.
LEMMA GroupSettles ==
    ASSUME NEW group \in Seq(Events), group # <<>>, InFlight' \in Seq(Events),
           InFlight = group \o InFlight', settled' = settled \o group,
           acked' = acked \/ acked' = acked \cup Range(group), newest' = newest
    PROVE  Pipe!Settle
<1> DEFINE n == Len(group)
<1>1. n \in 1 .. Len(InFlight)
  <2>1. n \in Nat /\ n # 0 /\ Len(InFlight') \in Nat
    BY EmptySeq, LenProperties
  <2>2. Len(InFlight) = n + Len(InFlight')
    BY ConcatProperties
  <2> QED BY <2>1, <2>2
<1>2. SubSeq(InFlight, 1, n) = group /\ SubSeq(InFlight, n + 1, Len(InFlight)) = InFlight'
  BY SplitConcat, Zenon
<1>3. PICK delivered \in BOOLEAN :
          acked' = IF delivered THEN acked \cup Range(group) ELSE acked
  <2>1. CASE acked' = acked
    BY <2>1, Zenon
  <2>2. CASE acked' = acked \cup Range(group)
    BY <2>2, Zenon
  <2> QED BY <2>1, <2>2
<1>4. Pipe!Range(group) = Range(group)
  BY Zenon DEF Pipe!Range, Range
<1> HIDE DEF n
<1>5. /\ InFlight' = SubSeq(InFlight, n + 1, Len(InFlight))
      /\ settled' = settled \o SubSeq(InFlight, 1, n)
      /\ acked' = IF delivered THEN acked \cup Pipe!Range(SubSeq(InFlight, 1, n)) ELSE acked
  BY <1>2, <1>3, <1>4, Zenon
<1> QED BY <1>1, <1>5, Zenon DEF Pipe!Settle

\* A run of events in the middle of the pipe is thrown away.
LEMMA RunAbandoned ==
    ASSUME NEW a \in Seq(Events), NEW b \in Seq(Events), NEW c \in Seq(Events), b # <<>>,
           InFlight = a \o (b \o c), InFlight' = a \o c,
           UNCHANGED <<newest, settled, acked>>
    PROVE  Pipe!Abandon
<1> DEFINE i == Len(a) + 1
           j == Len(a) + Len(b)
<1>0. b \o c \in Seq(Events) /\ a \o b \in Seq(Events)
  BY ConcatProperties
<1>1. i \in 1 .. Len(InFlight) /\ j \in i .. Len(InFlight) /\ i - 1 = Len(a)
  <2>1. Len(a) \in Nat /\ Len(b) \in Nat /\ Len(b) # 0 /\ Len(c) \in Nat
    BY EmptySeq, LenProperties
  <2>2. Len(InFlight) = Len(a) + Len(b \o c) /\ Len(b \o c) = Len(b) + Len(c)
    BY <1>0, ConcatProperties
  <2> QED BY <2>1, <2>2
<1>2. SubSeq(InFlight, 1, i - 1) = a
  BY <1>0, <1>1, SplitConcat, Zenon
<1>3. SubSeq(InFlight, j + 1, Len(InFlight)) = c
  <2>1. InFlight = (a \o b) \o c
    BY Associative, ZenonT(60)
  <2>2. Len(a \o b) = j
    BY ConcatProperties
  <2>3. SubSeq((a \o b) \o c, Len(a \o b) + 1, Len((a \o b) \o c)) = c
    BY <1>0, SplitConcat, Zenon
  <2> HIDE DEF j
  <2> QED BY <2>1, <2>2, <2>3, Zenon
<1> HIDE DEF i, j
<1>4. InFlight' = SubSeq(InFlight, 1, i - 1) \o SubSeq(InFlight, j + 1, Len(InFlight))
  BY <1>2, <1>3, Zenon
<1> QED BY <1>1, <1>4, Zenon DEF Pipe!Abandon

\* The pipe is that of the writer, and then what is on its way to it.
LEMMA FlightSplit ==
    Core => /\ InFlight = InPipe \o (pending \o queue)
            /\ InPipe \in Seq(Events) /\ pending \o queue \in Seq(Events)
            /\ InFlight \in Seq(Events)
<1> SUFFICES ASSUME Core
             PROVE  /\ InFlight = InPipe \o (pending \o queue)
                    /\ InPipe \in Seq(Events) /\ pending \o queue \in Seq(Events)
                    /\ InFlight \in Seq(Events)
    OBVIOUS
<1>1. /\ pending \in Seq(Events) /\ queue \in Seq(Events) /\ InPipe \in Seq(Events)
  BY PipeByCall DEF Core, Shape, WriterShape
<1>2. pending \o queue \in Seq(Events)
  BY <1>1, ConcatProperties
<1>3. InPipe \o (pending \o queue) = (InPipe \o pending) \o queue
  BY <1>1, Associative, ZenonT(60)
<1>4. InPipe \o (pending \o queue) \in Seq(Events)
  BY <1>1, <1>2, ConcatProperties
<1> QED BY <1>1, <1>2, <1>3, <1>4, Zenon DEF InFlight, InPipe
PipeNext == [Pipe!Accept \/ Pipe!Settle \/ Pipe!Abandon]_(Pipe!vars)

LEMMA WriteRefines == ASSUME Core, Core', Write PROVE PipeNext
<1> DEFINE e == Head(pending)
           rest == Tail(pending)
<1>0. WriterShape /\ WriterControl /\ pending \in Seq(Events) /\ queue \in Seq(Events)
  BY DEF Core, Shape, WriterShape
<1>1. pending # <<>>
  <2>1. pc = "write"
    BY Zenon DEF Write, MainAt
  <2> QED BY <2>1 DEF Core, MainControl
<1>2. e \in Events /\ rest \in Seq(Events)
  BY <1>0, <1>1, HeadTailProperties, Zenon
<1>3. /\ InFlight = InPipe \o (pending \o queue) /\ InPipe \in Seq(Events)
      /\ pending \o queue \in Seq(Events)
  BY FlightSplit
<1>4. InFlight' = InPipe' \o (pending' \o queue') /\ InFlight' \in Seq(Events)
  <2>1. (Core => InFlight = InPipe \o (pending \o queue) /\ InFlight \in Seq(Events))'
    BY FlightSplit, PTL
  <2> QED BY <2>1
<1>5. pending' = rest /\ queue' = queue /\ newest' = newest
  BY Zenon DEF Write, networkVars
<1>6. rest \o queue \in Seq(Events) /\ <<e>> \in Seq(Events) /\ <<e>> # <<>>
  BY <1>0, <1>2, ConcatProperties
<1>7. pending \o queue = <<e>> \o (rest \o queue)
  <2>1. <<e>> \o rest = pending
    BY <1>0, <1>1, HeadFirst, Zenon
  <2>2. <<e>> \o (rest \o queue) = (<<e>> \o rest) \o queue
    BY <1>0, <1>2, <1>6, Associative, ZenonT(60)
  <2> QED BY <2>1, <2>2, Zenon
<1>8. (batchMode /\ W!Write(e)) \/ (~batchMode /\ WriteSingle(e))
  BY Zenon DEF Write
<1> HIDE DEF e, rest
<1>9. CASE batchMode /\ W!Write(e)
  <2>1. Hands(e) /\ settled' = settled /\ acked' = acked
    BY <1>9, WriteHands, Zenon DEF W!Write, Hands
  <2>2. InPipe' = Append(InPipe, e)
    BY <1>0, <1>2, <2>1, HandsPipe
  <2>3. Append(InPipe, e) = InPipe \o <<e>>
    BY <1>2, <1>3, AppendIsConcat
  <2>4. InPipe \o (<<e>> \o (rest \o queue)) = (InPipe \o <<e>>) \o (rest \o queue)
    BY <1>3, <1>6, Associative, ZenonT(60)
  <2>5. InFlight' = InFlight
    BY <1>3, <1>4, <1>5, <1>7, <2>2, <2>3, <2>4, Zenon
  <2> QED BY <1>5, <2>1, <2>5, Zenon DEF PipeNext, Pipe!vars
<1>10. CASE ~batchMode /\ WriteSingle(e)
  <2>1. /\ call = "idle" /\ buffer = <<>>
        /\ settled' = Append(settled, e) /\ acked' = acked \cup {e}
        /\ UNCHANGED <<arg, buffer, batch>>
    BY <1>10, Zenon DEF Core, SingleControl, WriteSingle, writerObject
  <2>2. InPipe = <<>> /\ InPipe' = InPipe
    <3>1. InPipe = <<>>
      BY <1>0, <2>1, PipeByCall
    <3> QED BY <2>1, <3>1, Zenon DEF InPipe
  <2>3. <<>> \o (pending \o queue) = pending \o queue /\ <<>> \o (rest \o queue) = rest \o queue
    BY <1>3, <1>6, ConcatEmptySeq
  <2>4. InFlight = <<e>> \o InFlight'
    BY <1>3, <1>4, <1>5, <1>7, <2>2, <2>3, Zenon
  <2>5. settled' = settled \o <<e>>
    <3>1. settled \in Seq(Events)
      BY <1>0 DEF WriterShape
    <3> QED BY <1>2, <2>1, <3>1, AppendIsConcat
  <2>6. Range(<<e>>) = {e}
    BY DEF Range
  <2>7. acked' = acked \cup Range(<<e>>)
    BY <2>1, <2>6, Zenon
  <2>8. /\ <<e>> \in Seq(Events) /\ <<e>> # <<>> /\ InFlight' \in Seq(Events)
        /\ newest' = newest
    BY <1>4, <1>5, <1>6, Zenon
  <2>9. PICK group \in Seq(Events) : group = <<e>>
    BY <2>8
  <2>10. /\ group # <<>> /\ InFlight = group \o InFlight' /\ settled' = settled \o group
         /\ acked' = acked \/ acked' = acked \cup Range(group)
    BY <2>4, <2>5, <2>7, <2>8, <2>9
  <2>11. Pipe!Settle
    BY <2>8, <2>10, GroupSettles
  <2> QED BY <2>11, Zenon DEF PipeNext
<1> QED BY <1>8, <1>9, <1>10, Zenon

LEMMA WriterStepRefines == ASSUME Core, Core', WriterStep PROVE PipeNext
<1>0. WriterShape /\ WriterControl
  BY DEF Core, Shape, WriterShape
<1>1. /\ InFlight = InPipe \o (pending \o queue) /\ InPipe \in Seq(Events)
      /\ pending \o queue \in Seq(Events)
  BY FlightSplit
<1>2. /\ InFlight' = InPipe' \o (pending' \o queue') /\ InFlight' \in Seq(Events)
  <2>1. (Core => InFlight = InPipe \o (pending \o queue) /\ InFlight \in Seq(Events))'
    BY FlightSplit, PTL
  <2> QED BY <2>1
<1>3. UNCHANGED <<pending, queue, newest>> /\ (W!PostStep \/ W!WriteResumes)
  BY Zenon DEF WriterStep, mainVars, networkVars
<1>4. CASE W!WriteResumes
  <2>1. Resumes /\ settled' = settled /\ acked' = acked
    BY <1>4, Zenon
    DEF W!WriteResumes, W!AppendLine, W!StartPost, W!Fills, W!historyVars, Resumes
  <2>2. InPipe' = InPipe
    BY <1>0, <2>1, ResumesPipe
  <2>3. InFlight' = InFlight
    BY <1>1, <1>2, <1>3, <2>2, Zenon
  <2> QED BY <1>3, <2>1, <2>3, Zenon DEF PipeNext, Pipe!vars
<1>5. ASSUME Settles, acked' = acked \/ acked' = acked \cup Range(batch) PROVE PipeNext
  <2>1. /\ batch \in Seq(Events) /\ batch # <<>> /\ settled' = settled \o batch
        /\ arg \in Seq(Events) /\ InPipe = batch \o arg
    BY <1>0, <1>5, PipeByCall DEF Settles, WriterShape
  <2>2. InPipe' = arg
    <3>1. batch' = <<>> /\ buffer' = <<>> /\ arg' = arg
      BY <1>0, <1>5 DEF Settles, WriterControl
    <3>2. <<>> \o <<>> = <<>> /\ <<>> \o arg = arg
      BY <2>1, ConcatEmptySeq, EmptySeq
    <3> QED BY <3>1, <3>2, Zenon DEF InPipe
  <2>3. batch \o (arg \o (pending \o queue)) = (batch \o arg) \o (pending \o queue)
    BY <1>1, <2>1, Associative, ZenonT(60)
  <2>4. InFlight = batch \o InFlight'
    BY <1>1, <1>2, <1>3, <2>1, <2>2, <2>3, Zenon
  <2>5. Pipe!Settle
    BY <1>2, <1>3, <1>5, <2>1, <2>4, GroupSettles
  <2> QED BY <2>5, Zenon DEF PipeNext
<1>6. CASE W!PostSucceeds
  <2>1. W!Range(batch) = Range(batch)
    BY Zenon DEF W!Range, Range
  <2> QED BY <1>5, <1>6, <2>1, Zenon DEF W!PostSucceeds, W!BatchLeaves, Settles
<1>7. ASSUME NEW reached, W!PostRetries(reached) PROVE PipeNext
  <2>1. UNCHANGED <<arg, buffer, batch, settled, acked>>
    BY <1>7, Zenon DEF W!PostRetries, W!AttemptFails
  <2>2. InFlight' = InFlight
    BY <1>3, <2>1, Zenon DEF InFlight
  <2> QED BY <1>3, <2>1, <2>2, Zenon DEF PipeNext, Pipe!vars
<1>8. ASSUME NEW reached, W!PostGivesUp(reached) PROVE PipeNext
  BY <1>5, <1>8, Zenon DEF W!PostGivesUp, W!AttemptFails, W!BatchLeaves, Settles
<1>9. CASE W!RequestRejected
  BY <1>5, <1>9, Zenon DEF W!RequestRejected, W!BatchLeaves, Settles
<1> QED BY <1>3, <1>4, <1>6, <1>7, <1>8, <1>9, Zenon DEF W!PostStep

LEMMA ArrivalRefines ==
    ASSUME Core, PlaceTypes, MessageArrives
    PROVE  PipeNext
<1>0. /\ pending \in Seq(Events) /\ queue \in Seq(Events) /\ arrived \in 0 .. NumEvents
      /\ newest \in 0 .. arrived
  BY DEF Core, Shape, PlaceTypes
<1>1. /\ arrived < NumEvents /\ arrived' = arrived + 1
      /\ UNCHANGED <<pending, arg, buffer, batch, settled, acked>>
      /\ \/ queue' = Append(queue, arrived + 1) /\ newest' = arrived + 1
         \/ queue' = queue /\ newest' = newest
  BY Zenon DEF MessageArrives, NetworkFrame, mainVars, writerVars, writerObject
<1>2. CASE queue' = queue /\ newest' = newest
  <2>1. InFlight' = InFlight
    BY <1>1, <1>2, Zenon DEF InFlight
  <2> QED BY <1>1, <1>2, <2>1, Zenon DEF PipeNext, Pipe!vars
<1>3. CASE queue' = Append(queue, arrived + 1) /\ newest' = arrived + 1
  <2>1. arrived + 1 \in Events /\ newest' \in Nat /\ newest' > newest
    BY <1>0, <1>1, <1>3, SubscriberAssumption DEF Events
  <2>2. InPipe \o pending \in Seq(Events) /\ InFlight = (InPipe \o pending) \o queue
    <3>1. InPipe \in Seq(Events)
      BY FlightSplit
    <3>2. InPipe \o pending \in Seq(Events)
      BY <1>0, <3>1, ConcatProperties
    <3> QED BY <3>2, Zenon DEF InFlight, InPipe
  <2>3. InFlight' = (InPipe \o pending) \o Append(queue, arrived + 1)
    BY <1>1, <1>3, Zenon DEF InFlight, InPipe
  <2>4. InFlight' = Append(InFlight, newest')
    BY <1>0, <1>3, <2>1, <2>2, <2>3, AppendToLast, Zenon
  <2>5. Pipe!Accept
    BY <1>1, <2>1, <2>4, Zenon DEF Pipe!Accept
  <2> QED BY <2>5, Zenon DEF PipeNext
<1> QED BY <1>1, <1>2, <1>3, Zenon

LEMMA WriteFailsRefines == ASSUME Core, WriteFails PROVE PipeNext
<1>0. pending \in Seq(Events) /\ queue \in Seq(Events)
  BY DEF Core, Shape
<1>1. /\ pc = "write" /\ pending' = <<>>
      /\ UNCHANGED <<queue, newest, arg, buffer, batch, settled, acked>>
  BY Zenon DEF WriteFails, MainAt, networkVars, writerVars, writerObject
<1>2. pending # <<>>
  BY <1>1 DEF Core, MainControl
<1>3. InFlight = InPipe \o (pending \o queue) /\ InPipe \in Seq(Events)
  BY FlightSplit
<1>4. InFlight' = InPipe \o queue
  <2>1. InPipe \o <<>> = InPipe
    BY <1>3, ConcatEmptySeq
  <2>2. InFlight' = (InPipe \o <<>>) \o queue
    BY <1>1, Zenon DEF InFlight, InPipe
  <2> QED BY <2>1, <2>2, Zenon
<1>5. Pipe!Abandon
  BY <1>0, <1>1, <1>2, <1>3, <1>4, RunAbandoned
<1> QED BY <1>5, Zenon DEF PipeNext

LEMMA DrainRefines == ASSUME Core, Core', Get \/ Drain PROVE PipeNext
<1>0. pending \in Seq(Events) /\ queue \in Seq(Events) /\ InPipe \in Seq(Events)
  BY FlightSplit DEF Core, Shape
<1>1. InFlight = InPipe \o (pending \o queue)
  BY FlightSplit
<1>2. InFlight' = InPipe' \o (pending' \o queue')
  <2>1. (Core => InFlight = InPipe \o (pending \o queue))'
    BY FlightSplit, PTL
  <2> QED BY <2>1
<1>3. UNCHANGED <<newest, arg, buffer, batch, settled, acked>>
  BY Zenon DEF Get, Drain, networkVars, writerVars, writerObject
<1>4. pending' \o queue' = pending \o queue
  <2>1. CASE Get
    <3>1. pc = "get" /\ queue # <<>> /\ pending' = <<Head(queue)>> /\ queue' = Tail(queue)
      BY <2>1, Zenon DEF Get, MainAt
    <3>2. pending = <<>>
      BY <3>1 DEF Core, MainControl
    <3>3. <<Head(queue)>> \o Tail(queue) = queue /\ <<>> \o queue = queue
      BY <1>0, <3>1, HeadFirst, ConcatEmptySeq, Zenon
    <3> QED BY <3>1, <3>2, <3>3, Zenon
  <2>2. CASE Drain
    <3>1. \/ queue # <<>> /\ pending' = Append(pending, Head(queue)) /\ queue' = Tail(queue)
          \/ UNCHANGED <<pending, queue>>
      BY <2>2, Zenon DEF Drain, DrainGoesOn
    <3>2. queue # <<>> => Append(pending, Head(queue)) \o Tail(queue) = pending \o queue
      BY <1>0, MovesOver, Zenon
    <3> QED BY <3>1, <3>2, Zenon
  <2> QED BY <2>1, <2>2
<1>5. InFlight' = InFlight
  <2>1. InPipe' = InPipe
    BY <1>3, Zenon DEF InPipe
  <2> QED BY <1>1, <1>2, <1>4, <2>1, Zenon
<1> QED BY <1>3, <1>5, Zenon DEF PipeNext, Pipe!vars

LEMMA FlushRefines == ASSUME Core, FlushIfDue \/ Cleanup PROVE PipeNext
<1>0. WriterShape /\ WriterControl
  BY DEF Core, Shape, WriterShape
<1>1. UNCHANGED <<pending, queue, newest>> /\ \E force : CallFlush(force)
  BY Zenon DEF FlushIfDue, Cleanup, networkVars
<1>2. PICK force : CallFlush(force)
  BY <1>1
<1>3. settled' = settled /\ acked' = acked
  BY <1>2, Zenon DEF CallFlush, W!Flush, W!historyVars, writerVars
<1>4. InPipe' = InPipe
  <2>1. CASE Still
    BY <2>1, Zenon DEF Still, InPipe
  <2>2. CASE Posts
    BY <1>0, <2>2, PostsPipe
  <2> QED BY <1>2, <2>1, <2>2, CallFlushKinds, Zenon
<1>5. InFlight' = InFlight
  BY <1>1, <1>4, Zenon DEF InFlight, InPipe
<1> QED BY <1>1, <1>3, <1>5, Zenon DEF PipeNext, Pipe!vars

\* Every step of the system is a step of the pipe, or leaves the pipe alone.
LEMMA PipeStep == Core /\ Core' /\ PlaceTypes /\ [Next]_vars => PipeNext
<1> SUFFICES ASSUME Core, Core', PlaceTypes, [Next]_vars PROVE PipeNext
    OBVIOUS
<1>1. ASSUME UNCHANGED <<pending, queue, newest, writerVars>> PROVE PipeNext
  <2>1. UNCHANGED <<newest, settled, acked>> /\ InFlight' = InFlight
    BY <1>1, Zenon DEF writerVars, writerObject, InFlight
  <2> QED BY <2>1, Zenon DEF PipeNext, Pipe!vars
<1>2. CASE UNCHANGED vars
  BY <1>1, <1>2, Zenon DEF vars, mainVars, networkVars
<1>3. CASE Clock
  <2>1. UNCHANGED <<newest, settled, acked, pending, queue, arg, buffer, batch>>
    BY <1>3, Zenon DEF Clock, W!Tick, W!historyVars, mainVars, networkVars
  <2>2. InFlight' = InFlight
    BY <2>1, Zenon DEF InFlight
  <2> QED BY <2>1, <2>2, Zenon DEF PipeNext, Pipe!vars
<1>4. CASE OnConnect \/ OnMessageRaises \/ Disconnected \/ PahoReconnects \/ MessageCounted
  BY <1>1, <1>4, Zenon DEF OnConnect, OnMessageRaises, Disconnected, PahoReconnects, MessageCounted,
     NetworkFrame, MessageVars, mainVars
<1>5. CASE Connect \/ ConnectFails \/ RecordWrite \/ StopNetwork \/ Wake
  BY <1>1, <1>5, Zenon DEF Connect, ConnectFails, RecordWrite, StopNetwork, Wake, networkVars
<1> QED BY <1>2, <1>3, <1>4, <1>5, ArrivalRefines, WriteFailsRefines, DrainRefines, FlushRefines,
           WriteRefines, WriterStepRefines, Zenon DEF Next, MainStep, NetworkStep

\* The two threads, the queue, the drain, either writer and the finally block together
\* implement the event pipe that may abandon a run of events, with a failed write, but
\* never reorders, repeats or resurrects one.
THEOREM PipeRefinement == Spec => ImplementsPipe
<1>1. Init => Pipe!Init
  <2> SUFFICES ASSUME Init PROVE Pipe!Init
    OBVIOUS
  <2>1. /\ newest = 0 /\ settled = <<>> /\ acked = {} /\ pending = <<>> /\ queue = <<>>
        /\ arg = <<>> /\ buffer = <<>> /\ batch = <<>>
    BY Zenon DEF Init, W!Init
  <2>2. <<>> \o <<>> = <<>>
    BY ConcatEmptySeq, EmptySeq
  <2>3. InFlight = <<>>
    BY <2>1, <2>2, Zenon DEF InFlight
  <2> QED BY <2>1, <2>3, Zenon DEF Pipe!Init
<1>2. AllTypes => PlaceTypes
  BY DEF AllTypes
<1> QED BY <1>1, <1>2, PipeStep, AllTypesAlways, CoreAlways, PTL
        DEF Spec, PipeNext, ImplementsPipe, Pipe!LossySpec
===============================================================================
