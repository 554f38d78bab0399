-------------------------- MODULE EventLoopProofs --------------------------
(***************************************************************************)
(* Theorems about EventLoop, for any set of threads, tasks and channels.   *)
(***************************************************************************)
EXTENDS EventLoop, SequenceTheorems, TLAPS

\* Next, disjunct by disjunct: the shape every step proof below follows.
Steps ==
    \/ LoopThread
    \/ pollInterrupted
    \/ \E task \in Tasks : queueInLoopByLoop(task)
    \/ \E task \in Tasks : runInLoopByLoop(task)
    \/ MayQuit /\ quitByLoop
    \/ \E t \in Threads, task \in Tasks : queueInLoop(t, task)
    \/ \E t \in Threads : MayQuit /\ quit(t)
    \/ \E t \in Threads : wakeup(t)
    \/ ChannelReady

\* The steps of Next, one disjunct per operation.
LEMMA NextSteps == Next => Steps
  BY DEF Next, Steps, OwnCalls, ThreadCalls

\* Types are preserved: no action leaves doingPendingTasks_ or the batch of
\* doPendingTasks set outside that function.
LEMMA TypeStep == TypeOK /\ [Next]_vars => TypeOK'
<1> SUFFICES ASSUME TypeOK, Steps \/ UNCHANGED vars PROVE TypeOK'
    BY NextSteps
<1> USE DEF TypeOK, LoopLocations
<1>1. CASE LoopThread
  <2>1. CASE loop      BY <2>1 DEF loop
  <2>2. CASE testQuit  BY <2>2 DEF testQuit
  <2>3. CASE poll      BY <2>3 DEF poll, ReadyChannels
  <2>4. CASE handleRead      BY <2>4 DEF handleRead
  <2>5. CASE handleEvents    BY <2>5 DEF handleEvents
  <2>6. CASE doPendingTasks  BY <2>6 DEF doPendingTasks
  <2>7. CASE runTask
    <3>1. Head(tasks) \in Tasks /\ Tail(tasks) \in Seq(Tasks)
          BY <2>7, HeadTailProperties DEF runTask
    <3>2. Append(ran, Head(tasks)) \in Seq(Tasks)
          BY <3>1, AppendProperties
    <3> QED BY <2>7, <3>1, <3>2 DEF runTask
  <2>8. CASE tasksDone       BY <2>8 DEF tasksDone
  <2>9. CASE callbackReturns BY <2>9 DEF callbackReturns, InCallback
  <2> QED BY <1>1, <2>1, <2>2, <2>3, <2>4, <2>5, <2>6, <2>7, <2>8, <2>9 DEF LoopThread
<1>2. CASE pollInterrupted BY <1>2 DEF pollInterrupted
<1>3. ASSUME NEW task \in Tasks, queueInLoopByLoop(task) PROVE TypeOK'
  <2>1. Append(pendingTasks_, task) \in Seq(Tasks) BY AppendProperties
  <2> QED BY <1>3, <2>1 DEF queueInLoopByLoop, InOwnCode, InCallback
<1>4. ASSUME NEW task \in Tasks, runInLoopByLoop(task) PROVE TypeOK'
  <2>1. Append(ran, task) \in Seq(Tasks) BY AppendProperties
  <2> QED BY <1>4, <2>1 DEF runInLoopByLoop, InOwnCode, InCallback
<1>5. CASE MayQuit /\ quitByLoop BY <1>5 DEF MayQuit, quitByLoop
<1>6. ASSUME NEW t \in Threads, NEW task \in Tasks, queueInLoop(t, task) PROVE TypeOK'
  <2>1. Append(pendingTasks_, task) \in Seq(Tasks) BY AppendProperties
  <2> QED BY <1>6, <2>1 DEF queueInLoop
<1>7. ASSUME NEW t \in Threads, MayQuit, quit(t) PROVE TypeOK'
      BY <1>7 DEF MayQuit, quit
<1>8. ASSUME NEW t \in Threads, wakeup(t) PROVE TypeOK'
      BY <1>8 DEF wakeup
<1>9. CASE ChannelReady BY <1>9 DEF ChannelReady
<1>10. CASE UNCHANGED vars BY <1>10 DEF vars
<1> QED BY <1>1, <1>2, <1>3, <1>4, <1>5, <1>6, <1>7, <1>8, <1>9, <1>10 DEF Steps

\* The type invariant of the event loop holds in every reachable state.
THEOREM TypeCorrect == Spec => []TypeOK
<1>1. ASSUME Init PROVE TypeOK
  <2>1. pc = "constructed" /\ doingPendingTasks_ = FALSE BY <1>1 DEF Init
  <2>2. doingPendingTasks_ <=> pc \in {"run", "task"} BY <2>1
  <2> QED BY <1>1, <2>2, EmptySeq DEF Init, TypeOK, LoopLocations
<1> QED BY <1>1, TypeStep, PTL DEF Spec

\* A task appended to the pending ones is one more owed a wakeup, unless it is
\* an early one.
LEMMA AppendRange ==
  ASSUME NEW s \in Seq(Tasks), NEW task \in Tasks
  PROVE  Range(Append(s, task)) = Range(s) \cup {task}
<1>1. /\ Append(s, task) \in Seq(Tasks)
      /\ Len(Append(s, task)) = Len(s) + 1
      /\ Append(s, task)[Len(s) + 1] = task
      /\ \A i \in 1 .. Len(s) : Append(s, task)[i] = s[i]
      BY AppendProperties
<1>2. /\ DOMAIN s = 1 .. Len(s)
      /\ DOMAIN Append(s, task) = 1 .. Len(s) + 1
      /\ Len(s) \in Nat
      BY <1>1, LenProperties
<1>3. 1 .. Len(s) + 1 = (1 .. Len(s)) \cup {Len(s) + 1} BY <1>2
<1> QED BY <1>1, <1>2, <1>3 DEF Range

\* Nothing is owed while nothing is pending.
LEMMA EmptyRange == Range(<<>>) = {}
BY DEF Range

\* One step keeps a wakeup due wherever the loop could miss work.
LEMMA WakeupStep == TypeOK /\ WakeupInv /\ [Next]_vars => WakeupInv'
<1> SUFFICES ASSUME TypeOK, WakeupInv, Steps \/ UNCHANGED vars PROVE WakeupInv'
    BY NextSteps
<1> USE DEF WakeupInv, WakeupDue, Owed
<1>1. CASE LoopThread
  <2>1. CASE loop      BY <2>1 DEF loop
  <2>2. CASE testQuit  BY <2>2 DEF testQuit
  <2>3. CASE poll      BY <2>3 DEF poll
  <2>4. CASE handleRead      BY <2>4 DEF handleRead
  <2>5. CASE handleEvents    BY <2>5 DEF handleEvents
  <2>6. CASE doPendingTasks  BY <2>6, EmptyRange DEF doPendingTasks
  <2>7. CASE runTask         BY <2>7 DEF runTask
  <2>8. CASE tasksDone       BY <2>8 DEF tasksDone
  <2>9. CASE callbackReturns BY <2>9 DEF callbackReturns, InCallback
  <2> QED BY <1>1, <2>1, <2>2, <2>3, <2>4, <2>5, <2>6, <2>7, <2>8, <2>9 DEF LoopThread
<1>2. CASE pollInterrupted BY <1>2 DEF pollInterrupted
<1>3. ASSUME NEW task \in Tasks, queueInLoopByLoop(task) PROVE WakeupInv'
  \* In a task the flag is set, so the eventfd is written; in an I/O callback
  \* the swap of this round is still to come.
  <2>1. CASE pc = "task"
        BY <1>3, <2>1 DEF queueInLoopByLoop, TypeOK
  <2>2. CASE pc \in {"callback", "exited"}
        BY <1>3, <2>2 DEF queueInLoopByLoop
  \* Before loop() nothing is written, and nothing more is owed.
  <2>3. CASE pc = "constructed"
    <3>1. /\ pendingTasks_' = Append(pendingTasks_, task)
          /\ early' = early \cup {task}
          BY <1>3, <2>3 DEF queueInLoopByLoop
    <3>2. Range(pendingTasks_') = Range(pendingTasks_) \cup {task}
          BY <3>1, AppendRange DEF TypeOK
    <3>3. Owed' \subseteq Owed
          BY <3>1, <3>2
    <3> QED BY <1>3, <2>3, <3>3 DEF queueInLoopByLoop, TypeOK
  <2> QED BY <1>3, <2>1, <2>2, <2>3 DEF queueInLoopByLoop, InOwnCode, InCallback
<1>4. ASSUME NEW task \in Tasks, runInLoopByLoop(task) PROVE WakeupInv'
      BY <1>4 DEF runInLoopByLoop
<1>5. CASE MayQuit /\ quitByLoop BY <1>5 DEF MayQuit, quitByLoop, InCallback
<1>6. ASSUME NEW t \in Threads, NEW task \in Tasks, queueInLoop(t, task) PROVE WakeupInv'
  <2>1. caller'[t] = "wakeup" BY <1>6 DEF queueInLoop, TypeOK
  <2> QED BY <1>6, <2>1 DEF queueInLoop
<1>7. ASSUME NEW t \in Threads, MayQuit, quit(t) PROVE WakeupInv'
  <2>1. caller'[t] = "wakeup" BY <1>7 DEF quit, TypeOK
  <2> QED BY <1>7, <2>1 DEF MayQuit, quit
<1>8. ASSUME NEW t \in Threads, wakeup(t) PROVE WakeupInv'
  <2>1. wakeupFd' > 0 BY <1>8 DEF wakeup, TypeOK
  <2> QED BY <1>8, <2>1 DEF wakeup
<1>9. CASE ChannelReady BY <1>9 DEF ChannelReady
<1>10. CASE UNCHANGED vars BY <1>10 DEF vars
<1> QED BY <1>1, <1>2, <1>3, <1>4, <1>5, <1>6, <1>7, <1>8, <1>9, <1>10 DEF Steps

\* The strengthened invariant holds in every reachable state.
THEOREM WakeupInvariant == Spec => []WakeupInv
<1>1. Init => WakeupInv BY EmptyRange DEF Init, WakeupInv, Owed
<1> QED BY <1>1, TypeCorrect, WakeupStep, PTL DEF Spec

\* For any number of threads and tasks, the only tasks the loop sleeps over with
\* no wakeup to come are those its own thread queued before loop(); it never
\* sleeps over another pending task or over a quit request.
THEOREM NoWakeupIsLost == Spec => []NoMissedWakeup
<1>1. WakeupInv => NoMissedWakeup BY DEF WakeupInv, NoMissedWakeup
<1> QED BY <1>1, WakeupInvariant, PTL

\* loop() returns only between two batches, and no assert fails while callers
\* keep the contract of quit().
THEOREM LoopExitsBetweenBatches == Spec => []ExitsBetweenBatches
<1>1. TypeOK /\ WakeupInv => ExitsBetweenBatches
      BY DEF TypeOK, WakeupInv, ExitsBetweenBatches
<1> QED BY <1>1, TypeCorrect, WakeupInvariant, PTL

-----------------------------------------------------------------------------
(* The refinement. *)

\* Appending to the pending tasks appends to the abstract queue.
LEMMA PushMaps ==
  ASSUME NEW s \in Seq(Tasks), NEW p \in Seq(Tasks), NEW task \in Tasks
  PROVE  s \o Append(p, task) = Append(s \o p, task)
<1>1. <<task>> \in Seq(Tasks) OBVIOUS
<1>2. Append(p, task) = p \o <<task>> BY AppendIsConcat
<1>3. s \o p \in Seq(Tasks) BY ConcatProperties
<1>4. Append(s \o p, task) = (s \o p) \o <<task>> BY <1>3, AppendIsConcat
<1> QED BY <1>1, <1>2, <1>4, ConcatAssociative

\* Taking the first task of the batch takes the first of the abstract queue.
LEMMA PopMaps ==
  ASSUME NEW s \in Seq(Tasks), NEW p \in Seq(Tasks), s # <<>>
  PROVE  /\ s \o p # <<>>
         /\ Head(s \o p) = Head(s)
         /\ Tail(s \o p) = Tail(s) \o p
<1>1. /\ Tail(s) \in Seq(Tasks)
      /\ Len(Tail(s)) = Len(s) - 1
      /\ \A i \in 1 .. Len(Tail(s)) : Tail(s)[i] = s[i + 1]
      BY HeadTailProperties
<1>2. /\ s \o p \in Seq(Tasks)
      /\ Len(s \o p) = Len(s) + Len(p)
      /\ \A i \in 1 .. Len(s) + Len(p) :
            (s \o p)[i] = IF i <= Len(s) THEN s[i] ELSE p[i - Len(s)]
      BY ConcatProperties
<1>3. Len(s) \in Nat \ {0} /\ Len(p) \in Nat BY EmptySeq, LenProperties
<1>4. s \o p # <<>> BY <1>2, <1>3, EmptySeq
<1>5. /\ Tail(s \o p) \in Seq(Tasks)
      /\ Len(Tail(s \o p)) = Len(s) + Len(p) - 1
      /\ \A i \in 1 .. Len(Tail(s \o p)) : Tail(s \o p)[i] = (s \o p)[i + 1]
      BY <1>2, <1>4, HeadTailProperties
<1>6. /\ Tail(s) \o p \in Seq(Tasks)
      /\ Len(Tail(s) \o p) = Len(s) - 1 + Len(p)
      /\ \A i \in 1 .. Len(s) - 1 + Len(p) :
            (Tail(s) \o p)[i] =
               IF i <= Len(s) - 1 THEN Tail(s)[i] ELSE p[i - (Len(s) - 1)]
      BY <1>1, ConcatProperties
<1>7. ASSUME NEW i \in 1 .. Len(s) + Len(p) - 1
      PROVE  Tail(s \o p)[i] = (Tail(s) \o p)[i]
  <2>1. Tail(s \o p)[i] = (s \o p)[i + 1] BY <1>3, <1>5
  <2>2. CASE i <= Len(s) - 1
        BY <2>1, <2>2, <1>1, <1>2, <1>3, <1>6
  <2>3. CASE ~(i <= Len(s) - 1)
    <3>1. (s \o p)[i + 1] = p[i + 1 - Len(s)] BY <2>3, <1>2, <1>3
    <3>2. (Tail(s) \o p)[i] = p[i - (Len(s) - 1)] BY <2>3, <1>3, <1>6
    <3> QED BY <2>1, <3>1, <3>2, <1>3
  <2> QED BY <2>2, <2>3
<1>8. Tail(s \o p) = Tail(s) \o p BY <1>3, <1>5, <1>6, <1>7, SeqEqual
<1>9. Head(s \o p) = Head(s) BY <1>2, <1>3
<1> QED BY <1>4, <1>8, <1>9

\* Every step of the loop or of a caller is a step of the executor or leaves
\* the executor's state alone.
LEMMA StepMaps ==
  TypeOK /\ [Next]_vars => [Executor!Next]_(Executor!vars)
<1> SUFFICES ASSUME TypeOK, Steps \/ UNCHANGED vars
             PROVE  [Executor!Next]_(Executor!vars)
    BY NextSteps
<1> DEFINE queue == tasks \o pendingTasks_
<1>0. /\ tasks \in Seq(Tasks) /\ pendingTasks_ \in Seq(Tasks)
      /\ pc \notin {"run", "task"} => tasks = <<>>
      BY DEF TypeOK
<1>s. ASSUME queue' = queue, ran' = ran PROVE [Executor!Next]_(Executor!vars)
      BY <1>s DEF Executor!vars
<1>1. CASE LoopThread
  <2>1. CASE doPendingTasks
    <3>1. queue = pendingTasks_ BY <2>1, <1>0, ConcatEmptySeq DEF doPendingTasks
    <3>2. queue' = pendingTasks_ BY <2>1, <1>0, ConcatEmptySeq DEF doPendingTasks
    <3> QED BY <2>1, <3>1, <3>2, <1>s DEF doPendingTasks
  <2>2. CASE runTask
    <3>1. queue # <<>> /\ Head(queue) = Head(tasks) /\ Tail(queue) = Tail(tasks) \o pendingTasks_
          BY <2>2, <1>0, PopMaps DEF runTask
    <3>2. queue' = Tail(tasks) \o pendingTasks_ BY <2>2 DEF runTask
    <3>3. Executor!Run BY <2>2, <3>1, <3>2 DEF runTask, Executor!Run
    <3> QED BY <3>3 DEF Executor!Next
  <2>3. CASE ~doPendingTasks /\ ~runTask
    <3>1. UNCHANGED <<tasks, pendingTasks_, ran>>
          BY <1>1, <2>3 DEF LoopThread, loop, testQuit, poll, handleRead, handleEvents,
                            tasksDone, callbackReturns
    <3> QED BY <3>1, <1>s
  <2> QED BY <2>1, <2>2, <2>3
<1>2. CASE pollInterrupted BY <1>2, <1>s DEF pollInterrupted
<1>3. ASSUME NEW task \in Tasks, queueInLoopByLoop(task)
      PROVE  [Executor!Next]_(Executor!vars)
  <2>1. queue' = Append(queue, task) BY <1>3, <1>0, PushMaps DEF queueInLoopByLoop
  <2>2. Executor!Submit BY <1>3, <2>1 DEF queueInLoopByLoop, Executor!Submit
  <2> QED BY <2>2 DEF Executor!Next
<1>4. ASSUME NEW task \in Tasks, runInLoopByLoop(task)
      PROVE  [Executor!Next]_(Executor!vars)
      BY <1>4 DEF runInLoopByLoop, Executor!RunAtOnce, Executor!Next
<1>5. CASE MayQuit /\ quitByLoop BY <1>5, <1>s DEF quitByLoop
<1>6. ASSUME NEW t \in Threads, NEW task \in Tasks, queueInLoop(t, task)
      PROVE  [Executor!Next]_(Executor!vars)
  <2>1. queue' = Append(queue, task) BY <1>6, <1>0, PushMaps DEF queueInLoop
  <2>2. Executor!Submit BY <1>6, <2>1 DEF queueInLoop, Executor!Submit
  <2> QED BY <2>2 DEF Executor!Next
<1>7. ASSUME NEW t \in Threads, MayQuit, quit(t)
      PROVE  [Executor!Next]_(Executor!vars)
      BY <1>7, <1>s DEF quit
<1>8. ASSUME NEW t \in Threads, wakeup(t)
      PROVE  [Executor!Next]_(Executor!vars)
      BY <1>8, <1>s DEF wakeup
<1>9. CASE ChannelReady BY <1>9, <1>s DEF ChannelReady
<1>10. CASE UNCHANGED vars BY <1>10, <1>s DEF vars
<1> QED BY <1>1, <1>2, <1>3, <1>4, <1>5, <1>6, <1>7, <1>8, <1>9, <1>10 DEF Steps

\* The event loop implements the serial executor: every task handed over is
\* started once, in hand-over order.
THEOREM LoopImplementsExecutor == Spec => RefinesSerialExecutor
<1>1. Init => Executor!Init
  <2>1. ASSUME Init PROVE tasks \o pendingTasks_ = <<>> /\ ran = <<>>
        BY <2>1, ConcatEmptySeq, EmptySeq DEF Init
  <2> QED BY <2>1 DEF Executor!Init
<1> QED BY <1>1, TypeCorrect, StepMaps, PTL DEF Spec, RefinesSerialExecutor, Executor!Spec
=============================================================================
