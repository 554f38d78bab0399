----------------------------- MODULE AsyncWriter -----------------------------
(***************************************************************************)
(* logserver::AsyncWriter: loggers push lines into a queue, a writer       *)
(* thread takes them out and writes them to the log file, and the          *)
(* destructor stops the thread.                                            *)
(*                                                                         *)
(* push() runs under mutex_ and notifies the condition variable only when  *)
(* the queue was empty.  The writer evaluates its predicate under mutex_   *)
(* and releases it only as it falls asleep; the destructor sets state_ and *)
(* notifies without the mutex, so both can fall between the predicate and  *)
(* the sleep.                                                              *)
(***************************************************************************)
EXTENDS Naturals, Sequences

CONSTANT Lines    \* distinct log lines, each pushed at most once

VARIABLES
    pc,         \* where the writer is, see WriterLocations
    buffer_,    \* guarded by mutex_, except in the drain loop
    state_,     \* the stop flag, written without mutex_
    notified,   \* the sleeping writer was notified
    line,       \* the line in the writer's hands: <<>> or <<l>>
    dtor,       \* the destructor: "no", "notify" (state_ is set), "join", "done"
    pushed,     \* history: lines pushed, oldest first
    written     \* history: lines handed to FileWriter::write, oldest first

vars == <<pc, buffer_, state_, notified, line, dtor, pushed, written>>

WriterLocations == {"test", "lock", "falling asleep", "asleep", "woken", "locked",
                    "write", "drain", "over"}

\* The writer holds mutex_ between its predicate and what follows.
mutex_ == pc \in {"falling asleep", "locked"}

Pushed == {pushed[i] : i \in DOMAIN pushed}

Init ==
    /\ pc = "test" /\ buffer_ = <<>> /\ state_ = FALSE /\ notified = FALSE
    /\ line = <<>> /\ dtor = "no" /\ pushed = <<>> /\ written = <<>>

\* cv_.notify_one() reaches the writer only if it sleeps.
notify_one == notified' = (notified \/ pc = "asleep")

-----------------------------------------------------------------------------
\* Mutant of push: the notification is sent when a second line arrives.
pushNotifiesLate(l) ==
    /\ ~mutex_ /\ dtor = "no"
    /\ buffer_' = Append(buffer_, l)
    /\ pushed' = Append(pushed, l)
    /\ IF Len(buffer_') = 2 THEN notify_one ELSE UNCHANGED notified
    /\ UNCHANGED <<pc, state_, line, dtor, written>>

\* push(): nobody logs any more once the destructor runs.
push(l) ==
    /\ ~mutex_ /\ dtor = "no"
    /\ buffer_' = Append(buffer_, l)
    /\ pushed' = Append(pushed, l)
    /\ IF Len(buffer_') = 1 THEN notify_one ELSE UNCHANGED notified
    /\ UNCHANGED <<pc, state_, line, dtor, written>>

-----------------------------------------------------------------------------
(* writer() *)

\* while(!state_)
testState ==
    /\ pc = "test"
    /\ pc' = IF state_ THEN "drain" ELSE "lock"
    /\ UNCHANGED <<buffer_, state_, notified, line, dtor, pushed, written>>

\* The predicate of cv_.wait, on taking mutex_ first and after each wakeup.
evaluate ==
    /\ pc \in {"lock", "woken"}
    /\ pc' = IF buffer_ = <<>> /\ ~state_ THEN "falling asleep" ELSE "locked"
    /\ UNCHANGED <<buffer_, state_, notified, line, dtor, pushed, written>>

\* cv_.wait releases mutex_ and sleeps in one step.
sleep ==
    /\ pc = "falling asleep"
    /\ pc' = "asleep"
    /\ notified' = FALSE
    /\ UNCHANGED <<buffer_, state_, line, dtor, pushed, written>>

wake ==
    /\ pc = "asleep" /\ notified
    /\ pc' = "woken"
    /\ notified' = FALSE
    /\ UNCHANGED <<buffer_, state_, line, dtor, pushed, written>>

\* The standard lets a wait end by itself; nothing promises that it does.
wakeSpuriously ==
    /\ pc = "asleep" /\ ~notified
    /\ pc' = "woken"
    /\ UNCHANGED <<buffer_, state_, notified, line, dtor, pushed, written>>

\* Mutant of take: the front is written but stays in the queue.
takeWithoutPop ==
    /\ pc = "locked"
    /\ pc' = IF state_ THEN "over" ELSE "write"
    /\ line' = IF state_ THEN line ELSE <<Head(buffer_)>>
    /\ UNCHANGED <<buffer_, state_, notified, dtor, pushed, written>>

\* if(state_) return; else the front is taken and mutex_ released.
take ==
    /\ pc = "locked"
    /\ IF state_
       THEN pc' = "over" /\ UNCHANGED <<line, buffer_>>
       ELSE pc' = "write" /\ line' = <<Head(buffer_)>> /\ buffer_' = Tail(buffer_)
    /\ UNCHANGED <<state_, notified, dtor, pushed, written>>

\* log_->write(line)
write ==
    /\ pc = "write"
    /\ pc' = "test"
    /\ written' = written \o line
    /\ line' = <<>>
    /\ UNCHANGED <<buffer_, state_, notified, dtor, pushed>>

\* The loop behind the first one writes what is left, without mutex_.
drain ==
    /\ pc = "drain"
    /\ IF buffer_ = <<>>
       THEN pc' = "over" /\ UNCHANGED <<written, buffer_>>
       ELSE /\ written' = Append(written, Head(buffer_))
            /\ buffer_' = Tail(buffer_)
            /\ UNCHANGED pc
    /\ UNCHANGED <<state_, notified, line, dtor, pushed>>

-----------------------------------------------------------------------------
(* ~AsyncWriter() *)

setState ==
    /\ dtor = "no"
    /\ state_' = TRUE
    /\ dtor' = "notify"
    /\ UNCHANGED <<pc, buffer_, notified, line, pushed, written>>

notifyWriter ==
    /\ dtor = "notify"
    /\ notify_one
    /\ dtor' = "join"
    /\ UNCHANGED <<pc, buffer_, state_, line, pushed, written>>

join ==
    /\ dtor = "join" /\ pc = "over"
    /\ dtor' = "done"
    /\ UNCHANGED <<pc, buffer_, state_, notified, line, pushed, written>>

-----------------------------------------------------------------------------
Writer == testState \/ evaluate \/ sleep \/ wake \/ take \/ write \/ drain

Destructor == notifyWriter \/ join

Next ==
    \/ \E l \in Lines \ Pushed : push(l)
    \/ Writer \/ wakeSpuriously
    \/ setState \/ Destructor

Spec == Init /\ [][Next]_vars

\* The writer is scheduled, and so is the destructor once it runs.  Nobody has
\* to log, to destroy, or to be woken without reason.
FairSpec == Spec /\ WF_vars(Writer) /\ WF_vars(Destructor)

-----------------------------------------------------------------------------
\* Types; the writer never takes from an empty queue, holds a line exactly
\* while it writes it, and ends only when told to.
TypeOK ==
    /\ pc \in WriterLocations
    /\ buffer_ \in Seq(Lines) /\ pushed \in Seq(Lines) /\ written \in Seq(Lines)
    /\ state_ \in BOOLEAN /\ notified \in BOOLEAN
    /\ dtor \in {"no", "notify", "join", "done"}
    /\ state_ <=> dtor # "no"
    /\ IF pc = "write" THEN line \in Seq(Lines) /\ Len(line) = 1 ELSE line = <<>>
    /\ pc = "locked" => buffer_ # <<>> \/ state_
    /\ pc \in {"drain", "over"} => state_

\* Every line pushed is written, in the writer's hands or in the queue: once
\* each and in the order of the pushes, drain loop included.
EachLineOnce == written \o line \o buffer_ = pushed

\* push() notifies only a queue that was empty: the writer still never sleeps
\* on a line without a wakeup on its way.
NoLineSleptOn == pc = "asleep" /\ buffer_ # <<>> => notified

\* The strengthening: no line comes between the predicate and the sleep.
SleepInv ==
    /\ pc = "falling asleep" => buffer_ = <<>>
    /\ NoLineSleptOn

\* A line pushed is written unless the writer is told to stop.
LinesGetWritten ==
    \A l \in Lines : l \in Pushed ~> state_ \/ \E i \in DOMAIN written : written[i] = l

\* The benchmark of LogServer/test ends (its main returns, and the static
\* AsyncWriter is destroyed): the destructor's join returns.
DestructorReturns == state_ ~> dtor = "done"
=============================================================================
