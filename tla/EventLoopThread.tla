--------------------------- MODULE EventLoopThread ---------------------------
(***************************************************************************)
(* net::EventLoopThread: an owner thread that starts a thread with an      *)
(* EventLoop on its stack, uses the loop, and in its destructor quits the  *)
(* loop and joins the thread.  CountDownLatch makes startLoop() wait until *)
(* the loop is constructed; nothing makes it wait until loop() is entered. *)
(***************************************************************************)
EXTENDS Naturals, Sequences

CONSTANTS Owner, Tasks, Channels

VARIABLES pc, quit_, activeChannels_, pendingTasks_, tasks, doingPendingTasks_,
          wakeupFd, caller, ready, ran, early,
          started_,
          loop_,      \* the pointer: "null" or "loop"
          object,     \* the EventLoop on the thread's stack: "none", "alive", "destroyed"
          latch_,     \* CountDownLatch::count_
          thread_,    \* the loop thread: "none", "runInThread", "latched", "loop", "over"
          owner,      \* where the owner is
          touchedDead \* the owner used the EventLoop after its destruction

Loop == INSTANCE EventLoop WITH Threads <- {Owner}

loopVars == <<pc, quit_, activeChannels_, pendingTasks_, tasks,
              doingPendingTasks_, wakeupFd, caller, ready, ran, early>>
threadVars == <<started_, loop_, object, latch_, thread_, owner, touchedDead>>
vars == <<loopVars, threadVars>>

Init ==
    /\ Loop!Init
    /\ started_ = FALSE
    /\ loop_ = "null"
    /\ object = "none"
    /\ latch_ = 1
    /\ thread_ = "none"
    /\ owner = "new"
    /\ touchedDead = FALSE

-----------------------------------------------------------------------------
\* startLoop() up to latch_.wait(): the thread is created.
startLoop ==
    /\ owner = "new"
    /\ started_' = TRUE
    /\ thread_' = "runInThread"
    /\ owner' = "waiting"
    /\ UNCHANGED <<loopVars, loop_, object, latch_, touchedDead>>

\* CountDownLatch::wait() returns once the count is not positive.
wait ==
    /\ owner = "waiting"
    /\ latch_ <= 0
    /\ owner' = "using"
    /\ UNCHANGED <<loopVars, started_, loop_, object, latch_, thread_, touchedDead>>

\* runInThread(): the loop is constructed and published.
runInThread ==
    /\ thread_ = "runInThread"
    /\ object' = "alive"
    /\ loop_' = "loop"
    /\ thread_' = "latched"
    /\ UNCHANGED <<loopVars, started_, latch_, owner, touchedDead>>

\* latch_.countDown(), then the call of loop().
countDown ==
    /\ thread_ = "latched"
    /\ latch_' = latch_ - 1
    /\ thread_' = "loop"
    /\ UNCHANGED <<loopVars, started_, loop_, object, owner, touchedDead>>

\* The loop thread inside loop(); runInThread() hands nothing over outside it.
loopSteps ==
    /\ thread_ = "loop"
    /\ \/ Loop!LoopThread
       \/ Loop!InCallback /\ Loop!OwnCalls(Tasks \ Loop!Known, FALSE)
    /\ UNCHANGED threadVars

\* loop() returned: loop_ = nullptr, and the EventLoop goes out of scope.
loopReturned ==
    /\ thread_ = "loop"
    /\ pc = "exited"
    /\ loop_' = "null"
    /\ object' = "destroyed"
    /\ thread_' = "over"
    /\ UNCHANGED <<loopVars, started_, latch_, owner, touchedDead>>

-----------------------------------------------------------------------------
\* The owner hands tasks to the loop startLoop() returned.
ownerUses ==
    /\ owner = "using"
    /\ \/ \E task \in Tasks \ Loop!Known : Loop!queueInLoop(Owner, task)
       \/ Loop!wakeup(Owner)
    /\ UNCHANGED threadVars

\* ~EventLoopThread(): if(started_), the unsynchronised read of loop_.
destructor ==
    /\ owner = "using"
    /\ caller[Owner] = "idle"
    /\ owner' = IF started_ /\ loop_ # "null" THEN "quit" ELSE "join"
    /\ UNCHANGED <<loopVars, started_, loop_, object, latch_, thread_, touchedDead>>

\* loop_->quit() through that pointer: quit_ = true first ...
destructorQuits ==
    /\ owner = "quit"
    /\ Loop!quit(Owner)
    /\ touchedDead' = (touchedDead \/ object = "destroyed")
    /\ owner' = "wakeup"
    /\ UNCHANGED <<started_, loop_, object, latch_, thread_>>

\* ... then isInLoopThread() and wakeup() on the same object.
destructorWakes ==
    /\ owner = "wakeup"
    /\ Loop!wakeup(Owner)
    /\ touchedDead' = (touchedDead \/ object = "destroyed")
    /\ owner' = "join"
    /\ UNCHANGED <<started_, loop_, object, latch_, thread_>>

\* thread_.join()
join ==
    /\ owner = "join"
    /\ thread_ = "over"
    /\ owner' = "gone"
    /\ UNCHANGED <<loopVars, started_, loop_, object, latch_, thread_, touchedDead>>

Next ==
    /\ pc # "aborted"
    /\ \/ startLoop \/ wait \/ runInThread \/ countDown \/ loopSteps \/ loopReturned
       \/ ownerUses \/ destructor \/ destructorQuits \/ destructorWakes \/ join

Spec == Init /\ [][Next]_vars

-----------------------------------------------------------------------------
\* EventLoop.h:29 calls quit() "thread safe": a single quit() from another
\* thread, after startLoop() handed out the loop, neither fails an assert nor
\* touches an EventLoop that is already destroyed.
QuitIsThreadSafe == pc # "aborted" /\ ~touchedDead
=============================================================================
