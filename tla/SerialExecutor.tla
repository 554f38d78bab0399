--------------------------- MODULE SerialExecutor ---------------------------
(***************************************************************************)
(* What EventLoop promises to the callers of queueInLoop and runInLoop:    *)
(* the tasks handed over are run one at a time, each exactly once, in the  *)
(* order in which they were handed over.  A task that the loop thread      *)
(* hands to runInLoop is run on the spot, ahead of the queue.              *)
(***************************************************************************)
EXTENDS Sequences

CONSTANT Task

VARIABLES queue,   \* tasks accepted and not yet started, oldest first
          ran      \* tasks started so far, oldest first

vars == <<queue, ran>>

Init == /\ queue = <<>>
        /\ ran = <<>>

Submit == \E t \in Task : /\ queue' = Append(queue, t)
                          /\ UNCHANGED ran

Run == /\ queue # <<>>
       /\ queue' = Tail(queue)
       /\ ran' = Append(ran, Head(queue))

RunAtOnce == \E t \in Task : /\ ran' = Append(ran, t)
                             /\ UNCHANGED queue

Next == Submit \/ Run \/ RunAtOnce

Spec == Init /\ [][Next]_vars
=============================================================================
