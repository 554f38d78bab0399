------------------------------ MODULE EventLoop ------------------------------
(***************************************************************************)
(* net::EventLoop: one thread that waits in epoll, dispatches the ready    *)
(* channels and then runs the tasks other threads (or its own callbacks)   *)
(* handed over.                                                            *)
(*                                                                         *)
(* The pending tasks are guarded by mutex_; wakeupFd_ is an eventfd whose  *)
(* readiness makes epoll_wait return.  A thread that is not the loop       *)
(* thread pushes under the mutex and writes the eventfd after releasing    *)
(* it, so the loop can run between the two.  What a task or an I/O         *)
(* callback does is left open: while one runs, the loop thread may call    *)
(* queueInLoop, runInLoop and quit any number of times.  The thread that   *)
(* owns the loop may also hand tasks over outside loop(): before it enters *)
(* loop(), and after loop() returned.                                      *)
(***************************************************************************)
EXTENDS Naturals, Sequences, Functions

CONSTANTS Threads,    \* the threads other than the loop thread
          Tasks,      \* distinct closures, each handed over at most once
          Channels    \* the channels registered beside wakeupChannel_

WakeupChannel == "wakeupChannel_"

\* wakeupChannel_ is a channel of its own.
ASSUME ChannelsAssumption == WakeupChannel \notin Channels

VARIABLES
    pc,                   \* where the loop thread is, see LoopLocations
    quit_,
    activeChannels_,      \* the channels of this round not dispatched yet
    pendingTasks_,        \* guarded by mutex_
    tasks,                \* the vector swapped out by doPendingTasks, what is left
    doingPendingTasks_,   \* written and read by the loop thread only
    wakeupFd,             \* the eventfd's counter
    caller,               \* other threads: "idle", or "wakeup" before the write
    ready,                \* external: the channels epoll would report
    ran,                  \* history: the tasks started, oldest first
    early                 \* history: the tasks queued by the loop's thread before loop()

vars == <<pc, quit_, activeChannels_, pendingTasks_, tasks, doingPendingTasks_,
          wakeupFd, caller, ready, ran, early>>

\* "aborted" is a failed assert: the build keeps them (no NDEBUG).
LoopLocations == {"constructed", "test", "poll", "dispatch", "callback",
                  "run", "task", "exited", "aborted"}

\* The tasks that have been handed over, whatever became of them.
Known == Range(ran) \cup Range(tasks) \cup Range(pendingTasks_)

\* The loop thread runs a user callback: an I/O handler or a task.
InCallback == pc \in {"callback", "task"}

\* The loop thread runs code that is not the loop's: a callback, or what it
\* does before it calls loop() and after loop() returned.
InOwnCode == InCallback \/ pc \in {"constructed", "exited"}

-----------------------------------------------------------------------------
\* EventLoop::EventLoop(): the eventfd is empty, wakeupChannel_ registered.
Init ==
    /\ pc = "constructed"
    /\ quit_ = FALSE
    /\ activeChannels_ = {}
    /\ pendingTasks_ = <<>>
    /\ tasks = <<>>
    /\ doingPendingTasks_ = FALSE
    /\ wakeupFd = 0
    /\ caller = [t \in Threads |-> "idle"]
    /\ ready = {}
    /\ ran = <<>>
    /\ early = {}

-----------------------------------------------------------------------------
(* The loop thread. *)

\* loop(): assert(!quit_), then the first test of the while loop.
loop ==
    /\ pc = "constructed"
    /\ pc' = IF quit_ THEN "aborted" ELSE "test"
    /\ UNCHANGED <<quit_, activeChannels_, pendingTasks_, tasks,
                   doingPendingTasks_, wakeupFd, caller, ready, ran, early>>

\* while(!quit_), activeChannels_.clear()
testQuit ==
    /\ pc = "test"
    /\ pc' = IF quit_ THEN "exited" ELSE "poll"
    /\ activeChannels_' = {}
    /\ UNCHANGED <<quit_, pendingTasks_, tasks, doingPendingTasks_, wakeupFd,
                   caller, ready, ran, early>>

\* The channels epoll_wait has something to report for.
ReadyChannels == ready \cup (IF wakeupFd > 0 THEN {WakeupChannel} ELSE {})

\* EPoller::poll() returns the ready channels; its timeout is -1.
poll ==
    /\ pc = "poll"
    /\ ReadyChannels # {}
    /\ activeChannels_' = ReadyChannels
    /\ pc' = "dispatch"
    /\ UNCHANGED <<quit_, pendingTasks_, tasks, doingPendingTasks_, wakeupFd,
                   caller, ready, ran, early>>

\* epoll_wait fails (EINTR or a logged error): an empty round.
pollInterrupted ==
    /\ pc = "poll"
    /\ pc' = "dispatch"
    /\ UNCHANGED <<quit_, activeChannels_, pendingTasks_, tasks,
                   doingPendingTasks_, wakeupFd, caller, ready, ran, early>>

\* EventLoop::handleRead(), reached through wakeupChannel_: one read empties
\* the eventfd.
handleRead ==
    /\ pc = "dispatch"
    /\ WakeupChannel \in activeChannels_
    /\ activeChannels_' = activeChannels_ \ {WakeupChannel}
    /\ wakeupFd' = 0
    /\ UNCHANGED <<pc, quit_, pendingTasks_, tasks, doingPendingTasks_, caller,
                   ready, ran, early>>

\* channel->handleEvents() of any other channel starts its callback.
handleEvents ==
    /\ pc = "dispatch"
    /\ \E c \in activeChannels_ \ {WakeupChannel} :
          /\ activeChannels_' = activeChannels_ \ {c}
          /\ ready' = ready \ {c}
    /\ pc' = "callback"
    /\ UNCHANGED <<quit_, pendingTasks_, tasks, doingPendingTasks_, wakeupFd,
                   caller, ran, early>>

\* Mutant of doPendingTasks: a copy instead of the swap.
doPendingTasksCopy ==
    /\ pc = "dispatch"
    /\ activeChannels_ = {}
    /\ tasks' = pendingTasks_
    /\ doingPendingTasks_' = TRUE
    /\ pc' = "run"
    /\ UNCHANGED <<pendingTasks_, quit_, activeChannels_, wakeupFd, caller, ready, ran, early>>

\* doPendingTasks() up to the for loop: the swap under mutex_ and the flag
\* that only this thread reads.
doPendingTasks ==
    /\ pc = "dispatch"
    /\ activeChannels_ = {}
    /\ tasks' = pendingTasks_
    /\ pendingTasks_' = <<>>
    /\ doingPendingTasks_' = TRUE
    /\ pc' = "run"
    /\ UNCHANGED <<quit_, activeChannels_, wakeupFd, caller, ready, ran, early>>

\* Mutant of runTask: the batch is abandoned as soon as quit_ is set.
runTaskUnlessQuit ==
    /\ pc = "run"
    /\ tasks # <<>>
    /\ ran' = IF quit_ THEN ran ELSE Append(ran, Head(tasks))
    /\ tasks' = IF quit_ THEN tasks ELSE Tail(tasks)
    /\ pc' = IF quit_ THEN "exited" ELSE "task"
    /\ UNCHANGED <<quit_, activeChannels_, pendingTasks_, doingPendingTasks_,
                   wakeupFd, caller, ready, early>>

\* for(Task& task : tasks) task();
runTask ==
    /\ pc = "run"
    /\ tasks # <<>>
    /\ ran' = Append(ran, Head(tasks))
    /\ tasks' = Tail(tasks)
    /\ pc' = "task"
    /\ UNCHANGED <<quit_, activeChannels_, pendingTasks_, doingPendingTasks_,
                   wakeupFd, caller, ready, early>>

\* Mutant of tasksDone: the flag is never cleared.
tasksDoneKeepsFlag ==
    /\ pc = "run"
    /\ tasks = <<>>
    /\ pc' = "test"
    /\ UNCHANGED <<quit_, activeChannels_, pendingTasks_, tasks, wakeupFd,
                   doingPendingTasks_, caller, ready, ran, early>>

\* doingPendingTasks_ = false, back to the while test.
tasksDone ==
    /\ pc = "run"
    /\ tasks = <<>>
    /\ doingPendingTasks_' = FALSE
    /\ pc' = "test"
    /\ UNCHANGED <<quit_, activeChannels_, pendingTasks_, tasks, wakeupFd,
                   caller, ready, ran, early>>

\* The I/O callback or the task returns.
callbackReturns ==
    /\ InCallback
    /\ pc' = IF pc = "task" THEN "run" ELSE "dispatch"
    /\ UNCHANGED <<quit_, activeChannels_, pendingTasks_, tasks,
                   doingPendingTasks_, wakeupFd, caller, ready, ran, early>>

-----------------------------------------------------------------------------
(* queueInLoop and runInLoop, called by the loop thread itself; quit only in a *)
(* callback.                                                                  *)

\* Mutant of queueInLoopByLoop: only other threads wake the loop.
queueInLoopByLoopSilent(task) ==
    /\ InOwnCode
    /\ pendingTasks_' = Append(pendingTasks_, task)
    /\ early' = IF pc = "constructed" THEN early \cup {task} ELSE early
    /\ UNCHANGED <<pc, quit_, activeChannels_, tasks, doingPendingTasks_,
                   wakeupFd, caller, ready, ran>>

\* queueInLoop() in the loop thread: it wakes the loop only while tasks run,
\* so not before loop() either, when no swap is to come ahead of epoll_wait.
\* Nobody else empties the eventfd, so push and write are one step.
queueInLoopByLoop(task) ==
    /\ InOwnCode
    /\ pendingTasks_' = Append(pendingTasks_, task)
    /\ wakeupFd' = IF doingPendingTasks_ THEN wakeupFd + 1 ELSE wakeupFd
    /\ early' = IF pc = "constructed" THEN early \cup {task} ELSE early
    /\ UNCHANGED <<pc, quit_, activeChannels_, tasks, doingPendingTasks_,
                   caller, ready, ran>>

\* runInLoop() in the loop thread calls the task at once.
runInLoopByLoop(task) ==
    /\ InOwnCode
    /\ ran' = Append(ran, task)
    /\ UNCHANGED <<pc, quit_, activeChannels_, pendingTasks_, tasks,
                   doingPendingTasks_, wakeupFd, caller, ready, early>>

\* quit() in the loop thread: assert(!quit_), no wakeup.
quitByLoop ==
    /\ InCallback
    /\ pc' = IF quit_ THEN "aborted" ELSE pc
    /\ quit_' = TRUE
    /\ UNCHANGED <<activeChannels_, pendingTasks_, tasks, doingPendingTasks_,
                   wakeupFd, caller, ready, ran, early>>

-----------------------------------------------------------------------------
(* The same calls made by another thread t. *)

\* Mutant of queueInLoop: the condition of EventLoop.cpp:87 without its first
\* disjunct, with the racy read of doingPendingTasks_.
queueInLoopIfDoing(t, task) ==
    /\ caller[t] = "idle"
    /\ pendingTasks_' = Append(pendingTasks_, task)
    /\ caller' = [caller EXCEPT ![t] = IF doingPendingTasks_ THEN "wakeup" ELSE "idle"]
    /\ UNCHANGED <<pc, quit_, activeChannels_, tasks, doingPendingTasks_,
                   wakeupFd, ready, ran, early>>

\* queueInLoop() up to the unlock; runInLoop() only forwards to it.  The test
\* short-circuits on !isInLoopThread(), so wakeup() always follows.
queueInLoop(t, task) ==
    /\ caller[t] = "idle"
    /\ pendingTasks_' = Append(pendingTasks_, task)
    /\ caller' = [caller EXCEPT ![t] = "wakeup"]
    /\ UNCHANGED <<pc, quit_, activeChannels_, tasks, doingPendingTasks_,
                   wakeupFd, ready, ran, early>>

\* Mutant of quit: the flag is set and nobody wakes the loop.
quitSilently(t) ==
    /\ caller[t] = "idle"
    /\ pc' = IF quit_ THEN "aborted" ELSE pc
    /\ quit_' = TRUE
    /\ UNCHANGED <<activeChannels_, pendingTasks_, tasks, doingPendingTasks_,
                   wakeupFd, caller, ready, ran, early>>

\* quit(): assert(!quit_), quit_ = true, and wakeup() next.
quit(t) ==
    /\ caller[t] = "idle"
    /\ pc' = IF quit_ THEN "aborted" ELSE pc
    /\ quit_' = TRUE
    /\ caller' = [caller EXCEPT ![t] = "wakeup"]
    /\ UNCHANGED <<activeChannels_, pendingTasks_, tasks, doingPendingTasks_,
                   wakeupFd, ready, ran, early>>

\* wakeup(): write(wakeupFd_, 1).
wakeup(t) ==
    /\ caller[t] = "wakeup"
    /\ caller' = [caller EXCEPT ![t] = "idle"]
    /\ wakeupFd' = wakeupFd + 1
    /\ UNCHANGED <<pc, quit_, activeChannels_, pendingTasks_, tasks,
                   doingPendingTasks_, ready, ran, early>>

-----------------------------------------------------------------------------
\* External: the kernel reports a channel ready.
ChannelReady ==
    /\ \E c \in Channels \ ready : ready' = ready \cup {c}
    /\ UNCHANGED <<pc, quit_, activeChannels_, pendingTasks_, tasks,
                   doingPendingTasks_, wakeupFd, caller, ran, early>>

LoopThread ==
    \/ loop \/ testQuit \/ poll
    \/ handleRead \/ handleEvents \/ doPendingTasks \/ runTask \/ tasksDone
    \/ callbackReturns

\* What the loop thread's own code may do on the way.
OwnCalls(fresh, mayQuit) ==
    \/ \E task \in fresh : queueInLoopByLoop(task) \/ runInLoopByLoop(task)
    \/ mayQuit /\ quitByLoop

\* What another thread may do.
ThreadCalls(t, fresh, mayQuit) ==
    \/ \E task \in fresh : queueInLoop(t, task)
    \/ mayQuit /\ quit(t)
    \/ wakeup(t)

\* The asserts of loop() and quit() are the callers' obligations: quit() is
\* called once, and not before loop() was entered.
MayQuit == ~quit_ /\ pc # "constructed"

Next ==
    \/ LoopThread
    \/ pollInterrupted
    \/ OwnCalls(Tasks \ Known, MayQuit)
    \/ \E t \in Threads : ThreadCalls(t, Tasks \ Known, MayQuit)
    \/ ChannelReady

\* The loop thread is scheduled, and so is a thread inside wakeup().
Fairness ==
    /\ WF_vars(LoopThread)
    /\ \A t \in Threads : WF_vars(wakeup(t))

Spec == Init /\ [][Next]_vars

FairSpec == Spec /\ Fairness

-----------------------------------------------------------------------------
\* Types; doingPendingTasks_ is set exactly while doPendingTasks runs tasks,
\* and the swapped-out vector is empty everywhere else.
TypeOK ==
    /\ pc \in LoopLocations
    /\ quit_ \in BOOLEAN
    /\ activeChannels_ \subseteq Channels \cup {WakeupChannel}
    /\ pendingTasks_ \in Seq(Tasks)
    /\ tasks \in Seq(Tasks)
    /\ doingPendingTasks_ \in BOOLEAN
    /\ doingPendingTasks_ <=> pc \in {"run", "task"}
    /\ wakeupFd \in Nat
    /\ caller \in [Threads -> {"idle", "wakeup"}]
    /\ ready \subseteq Channels
    /\ ran \in Seq(Tasks)
    /\ tasks # <<>> => pc \in {"run", "task"}
    /\ early \subseteq Tasks

\* A wakeup is under way: the eventfd is readable, or some thread stands
\* between its push (or its quit_ = true) and its write.
WakeupDue == wakeupFd > 0 \/ \E t \in Threads : caller[t] = "wakeup"

\* What a wakeup was owed for: everything pending that the loop's thread did
\* not queue itself ahead of loop().
Owed == Range(pendingTasks_) \ early

\* A lost wakeup has one cause: the loop sleeps in epoll_wait on an empty
\* eventfd, with no write about to come, only over tasks its own thread queued
\* before loop() was entered.  The condition of EventLoop.cpp:87 writes none
\* for those (isInLoopThread(), and no batch runs); every other task, and quit
\* at 60, has its wakeup due, whoever pushes and whenever the batch is swapped.
NoMissedWakeup ==
    pc = "poll" /\ (Owed # {} \/ quit_) => WakeupDue

\* The strengthening that makes NoMissedWakeup inductive: a task keeps a
\* wakeup due everywhere except between poll's return and the swap, where the
\* eventfd may be emptied because the swap is still to come.
WakeupInv ==
    /\ Owed # {} /\ pc \in {"constructed", "test", "poll", "run", "task"}
          => WakeupDue
    /\ quit_ /\ pc = "poll" => WakeupDue
    /\ pc = "constructed" => ~quit_
    /\ pc = "exited" => quit_
    /\ pc # "aborted"

\* A loop whose callers keep the asserts' contract never aborts, and it leaves
\* loop() only after the batch it had swapped out was run to the end: what
\* remains at exit was pushed after that last swap.
ExitsBetweenBatches ==
    /\ pc # "aborted"
    /\ pc = "exited" => quit_ /\ tasks = <<>> /\ ~doingPendingTasks_

\* The loop implements the executor: exactly once, in hand-over order, over
\* every interleaving of pushes, swaps and tasks that push.
Executor == INSTANCE SerialExecutor
              WITH Task <- Tasks, queue <- tasks \o pendingTasks_, ran <- ran

RefinesSerialExecutor == Executor!Spec

\* Every task handed over is run, unless the loop is told to quit; one its own
\* thread queued before loop() waits for the first event of any other origin,
\* and for ever if none comes.
TasksEventuallyRun ==
    \A task \in Tasks :
        (task \in Known)
            ~> \/ task \in Range(ran)
               \/ quit_
               \/ task \in early /\ [](pc = "poll" /\ ReadyChannels = {})

\* Once loop() runs, quit() makes it return, whoever called it.
QuitEventuallyExits == quit_ ~> pc = "exited"
=============================================================================
