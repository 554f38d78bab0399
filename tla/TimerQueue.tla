------------------------------ MODULE TimerQueue ------------------------------
(***************************************************************************)
(* net::TimerQueue: the timers of one EventLoop, kept in a set ordered by  *)
(* expiry and address, with one timerfd armed for the earliest.            *)
(*                                                                         *)
(* Everything here runs in the loop thread: addTimer and cancelTimer from  *)
(* another thread arrive as tasks (module EventLoop), and from a callback  *)
(* they act at once, also in the middle of handleRead's walk over the      *)
(* expired timers.  A Timer is deleted by cancelTimer or by handleRead.    *)
(* Its canceled_ flag is not modelled: cancelTimer deletes the object in   *)
(* the same step, so nobody can read the flag as true in a live timer.     *)
(* A callback may cancel any live timer, its own or another of the batch   *)
(* that handleRead walks; the model ends where freed memory is then used.  *)
(***************************************************************************)
EXTENDS Naturals

CONSTANTS Timers,      \* the Timer objects; numbers, for the order of addresses
          Expiries,    \* points in time asked for, also past ones
          Intervals,   \* intervals asked for; 0 is a one-shot timer
          MinDelay,    \* the 100 microseconds of duractionFromNow, in ticks
          MaxTime      \* bound: the clock stops there

ASSUME TimesAssumption ==
    /\ Timers \subseteq Nat
    /\ Expiries \subseteq Nat
    /\ Intervals \subseteq Nat
    /\ MinDelay \in Nat
    /\ MaxTime \in Nat

VARIABLES
    clock,      \* now()
    timer,      \* timer[t]: its life "none", "live" or "freed", when_, interval_
    timers_,    \* the set of <<when, t>>
    timerfd_,   \* the point in time it is armed for: {} or {w}
    handling,   \* handleRead is in its loop
    at,         \* the time handleRead took
    entries,    \* the expired entries not finished yet
    running,    \* the callback under way: {} or {t}
    reported,   \* epoll_wait reported the timerfd, handleRead is still to come
    canceled,   \* history: the timers cancelled while they were in the batch
    usedFreed   \* a freed timer was read or deleted; nothing follows

vars == <<clock, timer, timers_, timerfd_, handling, at, entries, running,
          reported, canceled, usedFreed>>

Upper(x, y) == IF x > y THEN x ELSE y

\* The order of std::set<std::pair<Timestamp, Timer*>>.
Before(e, f) == e[1] < f[1] \/ (e[1] = f[1] /\ e[2] < f[2])

First(S) == CHOOSE e \in S : \A f \in S \ {e} : Before(e, f)

\* duractionFromNow(), as the point in time timerfd_settime is armed for.
duractionFromNow(when) == {Upper(when, clock + MinDelay)}

Live(t) == timer[t].life = "live"

Held == {e[2] : e \in entries}

\* The loop thread is outside handleRead, or inside a timer's callback.
CanCall == ~handling \/ running # {}

Init ==
    /\ clock = 0
    /\ timer = [t \in Timers |-> [life |-> "none", when_ |-> 0, interval_ |-> 0]]
    /\ timers_ = {} /\ timerfd_ = {}
    /\ handling = FALSE /\ at = 0 /\ entries = {} /\ running = {}
    /\ reported = FALSE /\ canceled = {} /\ usedFreed = FALSE

-----------------------------------------------------------------------------
\* Mutant of addTimer: the timerfd is armed only for the first timer of all.
addTimerArmsOnce(t) ==
    /\ CanCall /\ timer[t].life = "none"
    /\ \E when \in Expiries, i \in Intervals :
          /\ timer' = [timer EXCEPT ![t] = [life |-> "live", when_ |-> when, interval_ |-> i]]
          /\ timers_' = timers_ \cup {<<when, t>>}
          /\ timerfd_' = IF timers_ = {} THEN duractionFromNow(when) ELSE timerfd_
    /\ UNCHANGED <<clock, handling, at, entries, running, reported,
                   canceled, usedFreed>>

\* addTimer(): a new earliest timer re-arms the timerfd.
addTimer(t) ==
    /\ CanCall /\ timer[t].life = "none"
    /\ \E when \in Expiries, i \in Intervals :
          /\ timer' = [timer EXCEPT ![t] = [life |-> "live", when_ |-> when, interval_ |-> i]]
          /\ timers_' = timers_ \cup {<<when, t>>}
          /\ timerfd_' = IF First(timers_') = <<when, t>>
                         THEN duractionFromNow(when) ELSE timerfd_
    /\ UNCHANGED <<clock, handling, at, entries, running, reported,
                   canceled, usedFreed>>

\* cancelTimer(): erased by its when_, and deleted; the timerfd stays armed.
\* The set no longer holds a timer of the batch: only the delete is left.
cancelTimer(t) ==
    /\ CanCall /\ Live(t)
    /\ timers_' = timers_ \ {<<timer[t].when_, t>>}
    /\ timer' = [timer EXCEPT ![t].life = "freed"]
    /\ canceled' = IF t \in Held THEN canceled \cup {t} ELSE canceled
    /\ UNCHANGED <<clock, timerfd_, handling, at, entries, running, reported, usedFreed>>

\* epoll_wait returns with the timerfd readable: timerChannel_ is dispatched
\* later in the round, after callbacks that may arm the timerfd anew.
report ==
    /\ ~handling /\ ~reported
    /\ \E w \in timerfd_ : w <= clock
    /\ reported' = TRUE
    /\ UNCHANGED <<clock, timer, timers_, timerfd_, handling, at, entries, running,
                   canceled, usedFreed>>

\* Mutant of Expired: the strike is one tick late.
ExpiredTooMany == {e \in timers_ : e[1] <= clock + 1}

\* getExpired(): what is below <now + 1, nullptr> in the set's order.
Expired == {e \in timers_ : e[1] < clock + 1}

\* timerFdRead(): a read of an expired timerfd disarms it; one armed anew since
\* the report has nothing to read (EAGAIN, logged) and stays armed.
timerFdRead == IF \E w \in timerfd_ : w <= clock THEN {} ELSE timerfd_

\* Mutant of handleRead: the expired entries stay in the set.
handleReadKeepsExpired ==
    /\ reported /\ ~handling
    /\ reported' = FALSE
    /\ timerfd_' = timerFdRead
    /\ handling' = TRUE
    /\ at' = clock
    /\ entries' = Expired
    /\ timers_' = timers_
    /\ UNCHANGED <<clock, timer, running, canceled, usedFreed>>

\* handleRead() up to its loop: the timerfd is read, the expired entries leave
\* the set.
handleRead ==
    /\ reported /\ ~handling
    /\ reported' = FALSE
    /\ timerfd_' = timerFdRead
    /\ handling' = TRUE
    /\ at' = clock
    /\ entries' = Expired
    /\ timers_' = timers_ \ Expired
    /\ UNCHANGED <<clock, timer, running, canceled, usedFreed>>

\* assert(timer->expired(now)), canceled(), run(): the next callback starts.
runTimer ==
    /\ handling /\ running = {} /\ entries # {}
    /\ Live(First(entries)[2])
    /\ running' = {First(entries)[2]}
    /\ UNCHANGED <<clock, timer, timers_, timerfd_, handling, at, entries, reported,
                   canceled, usedFreed>>

\* The timer handleRead turns to next: the one whose callback returns, or the
\* next of the batch.
Turn == IF running # {} THEN running
        ELSE IF entries # {} THEN {First(entries)[2]} ELSE {}

\* The same reads, expired() and canceled() at 102-106, of a timer that a
\* callback has deleted: undefined, nothing after it is modelled.
useFreed ==
    /\ handling
    /\ \E t \in Turn : ~Live(t)
    /\ usedFreed' = TRUE
    /\ UNCHANGED <<clock, timer, timers_, timerfd_, handling, at, entries, running,
                   reported, canceled>>

\* Mutant of callbackReturns: a repeating timer goes back under its old expiry.
callbackReturnsStale ==
    \E e \in entries :
        LET t == e[2]
            again == timer[t].interval_ > 0
        IN  /\ running = {t} /\ Live(t)
            /\ timer' = [timer EXCEPT ![t].when_ = IF again THEN at + timer[t].interval_ ELSE @,
                                      ![t].life = IF again THEN @ ELSE "freed"]
            /\ timers_' = timers_ \cup (IF again THEN {e} ELSE {})
            /\ entries' = entries \ {e}
            /\ running' = {}
            /\ UNCHANGED <<clock, timerfd_, handling, at, reported, canceled, usedFreed>>

\* After the callback: canceled() again, then a repeating timer is restarted
\* and put back, a one-shot timer deleted.
callbackReturns ==
    \E e \in entries :
        LET t == e[2]
            again == timer[t].interval_ > 0
            when  == IF again THEN at + timer[t].interval_ ELSE timer[t].when_
        IN  /\ running = {t} /\ Live(t)
            /\ timer' = [timer EXCEPT ![t].when_ = when,
                                      ![t].life = IF again THEN @ ELSE "freed"]
            /\ timers_' = timers_ \cup (IF again THEN {<<when, t>>} ELSE {})
            /\ entries' = entries \ {e}
            /\ running' = {}
            /\ UNCHANGED <<clock, timerfd_, handling, at, reported, canceled, usedFreed>>

\* The loop is over: the timerfd is armed for what remains.
handled ==
    /\ handling /\ entries = {}
    /\ handling' = FALSE
    /\ timerfd_' = IF timers_ # {} THEN duractionFromNow(First(timers_)[1]) ELSE timerfd_
    /\ UNCHANGED <<clock, timer, timers_, at, entries, running, reported,
                   canceled, usedFreed>>

\* External: time passes, also while callbacks run.
tick ==
    /\ clock < MaxTime
    /\ clock' = clock + 1
    /\ UNCHANGED <<timer, timers_, timerfd_, handling, at, entries, running, reported,
                   canceled, usedFreed>>

Loop == report \/ handleRead \/ runTimer \/ useFreed \/ callbackReturns \/ handled \/ tick

\* Cancelling a timer that was deleted before is the callers' obligation; any
\* live one may be cancelled, wherever it is.
Next ==
    /\ ~usedFreed
    /\ \/ Loop
       \/ \E t \in Timers : addTimer(t) \/ cancelTimer(t)

Spec == Init /\ [][Next]_vars

-----------------------------------------------------------------------------
\* Types; timers are walked and run only inside handleRead, and an expired
\* entry is one that handleRead's time had reached.
TypeOK ==
    /\ clock \in 0 .. MaxTime /\ at \in 0 .. clock
    /\ timer \in [Timers -> [life : {"none", "live", "freed"},
                          when_ : Nat, interval_ : Nat]]
    /\ timers_ \subseteq Nat \X Timers
    /\ timerfd_ \subseteq Nat /\ \A v, w \in timerfd_ : v = w
    /\ entries \subseteq (0 .. at) \X Timers
    /\ running \subseteq Held
    /\ reported \in BOOLEAN /\ canceled \subseteq Timers /\ usedFreed \in BOOLEAN
    /\ ~handling => entries = {}

\* Every live timer is in exactly one place, the set or the batch, once and
\* under its own expiry: none leaks, none is freed twice, cancelTimer's erase
\* finds it.  A deleted timer is nowhere, unless it was cancelled in the batch:
\* then its entry stays, there and nowhere else.
HeldOnce ==
    \A t \in Timers :
        {e \in timers_ \cup entries : e[2] = t} =
            IF Live(t) \/ t \in canceled THEN {<<timer[t].when_, t>>} ELSE {}

InOnePlace == timers_ \cap entries = {}

EachTimerHeldOnce == HeldOnce /\ InOnePlace

\* No timer is slept past: outside handleRead the timerfd is armed for the
\* earliest timer, or sooner, or as soon as the minimum delay allows.
ArmedForEarliest ==
    timers_ # {} /\ ~handling =>
        \E w \in timerfd_ : w <= Upper(First(timers_)[1], clock + MinDelay)

\* TimerQueue.cpp:104 and 106 ask each expired timer whether a callback has
\* cancelled it meanwhile; cancelTimer (90) has deleted it by then.  The walk
\* uses freed memory after such a cancel and at no other time, and it gets past
\* no timer cancelled in the batch without using it.
FreedOnlyByCancel ==
    /\ canceled = {t \in Held : ~Live(t)}
    /\ usedFreed => Turn \cap canceled # {}
=============================================================================
