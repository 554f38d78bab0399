---------------------------- MODULE TcpConnection ----------------------------
(***************************************************************************)
(* net::TcpConnection on its I/O loop, with the channel and poller it is   *)
(* registered in, the kernel socket under it, the TcpServer that owns it,  *)
(* and threads of the application that hold a shared_ptr to it.            *)
(*                                                                         *)
(* Four kinds of actors interleave.  The I/O loop dispatches the events of *)
(* one poll and then runs the batch of tasks swapped out afterwards (what  *)
(* module EventLoop shows).  Application threads call send, shutdown and   *)
(* forceClose, whose reads and exchanges of state_ and pushes into the     *)
(* loop are separate steps.  The base loop of the server drops its         *)
(* reference after a close.  The peer and the kernel move data and end the *)
(* stream.  What the callbacks of the application do is left open.         *)
(***************************************************************************)
EXTENDS Naturals, Sequences

CONSTANTS Threads,        \* application threads, not the I/O loop
          Messages,       \* the messages handed to send(), each at most once
          MsgLen,         \* bytes per message
          SndBuf,         \* bytes the kernel's send buffer takes
          HighWaterMark   \* the mark of setHighWaterMarkCallback

ASSUME ConnectionAssumption ==
    /\ MsgLen \in Nat \ {0}
    /\ SndBuf \in Nat \ {0}
    /\ HighWaterMark \in Nat

VARIABLES
    conn,           \* state_, events_ (the channel's interest set), outputBuffer_
    fate,           \* "alive", "destroyed", or what ended the process: an assert, a
                    \* crash, the signal SIGPIPE
    loop,           \* the I/O loop: at "poll", "active" (the channel is in
                    \* activeChannels_), "events" (guarded by tie_) or "tasks";
                    \* inCallback, a callback of the application runs; revents, not
                    \* dispatched yet; batch, the tasks swapped out, still to run
    pendingTasks,   \* queued with queueInLoop
    server,         \* owned, connections_ holds it; tasks of the base loop for it;
                    \* closes, how often closeCallback_ was called
    holds,          \* holds[t]: thread t has a shared_ptr
    call,           \* call[t]: where t is inside a method
    sock,           \* external: rx, unread input; fin, the peer ended its stream; rst,
                    \* it reset the connection; err, the pending SO_ERROR; shut,
                    \* SHUT_WR was called; room, free bytes of the send buffer
    sent,           \* history: messages handed to send()
    hist            \* history: wire, bytes the kernel took; accepted, bytes sendInLoop took

vars == <<conn, fate, loop, pendingTasks, server, holds, call, sock, sent, hist>>

Up == fate = "alive"

\* A failed assert ends the process, whatever else the step did.
Assert(cond, place) == fate' = IF cond THEN fate ELSE place

Idle == [op |-> "idle"]

Bytes(m) == [i \in 1 .. MsgLen |-> <<m, i>>]

Lower(x, y) == IF x < y THEN x ELSE y

isWriting == "OUT" \in conn.events_
isReading == "IN" \in conn.events_

\* Channel::state_ is IN, the poller knows the channel: EPoller::updateChannel
\* adds it with its first interest and deletes it with its last.
registered == conn.events_ # {}

\* startRead() after the close has put the channel back into the poller.
Reopened == conn.state_ = "kDisconnected" /\ registered

\* Channel::enableRead() and disableRead(): the new interest set.
enableRead == conn.events_ \cup {"IN", "PRI"}
disableRead == conn.events_ \ {"IN"}

\* Mutant of enableWrite: the interest is never asked for.
enableWriteForgotten == conn.events_

\* Channel::enableWrite().
enableWrite == conn.events_ \cup {"OUT"}

\* Mutant of disableWrite: the channel keeps polling for EPOLLOUT.
disableWriteForgotten == conn.events_

\* Channel::disableWrite().
disableWrite == conn.events_ \ {"OUT"}

-----------------------------------------------------------------------------
\* TcpServer::newConnection: the connection is inserted into connections_ and
\* connectEstablished is handed to the I/O loop.
Init ==
    /\ conn = [state_ |-> "kConnecting", events_ |-> {}, outputBuffer_ |-> <<>>]
    /\ fate = "alive"
    /\ loop = [at |-> "poll", inCallback |-> FALSE, revents |-> {}, batch |-> <<>>]
    /\ pendingTasks = <<[op |-> "connectEstablished"]>>
    /\ server = [owned |-> TRUE, tasks |-> <<>>, closes |-> 0]
    /\ holds = [t \in Threads |-> FALSE]
    /\ call = [t \in Threads |-> Idle]
    /\ sock = [rx |-> FALSE, fin |-> FALSE, rst |-> FALSE, err |-> "none", shut |-> FALSE,
               room |-> SndBuf]
    /\ sent = {}
    /\ hist = [wire |-> <<>>, accepted |-> <<>>]

-----------------------------------------------------------------------------
(* Pieces of the methods. *)

\* The tasks the write paths queue: writeCompleteCallback_ when all was written,
\* highWaterMarkCallback_ when the backlog crosses the mark upwards.
WriteComplete == <<[op |-> "writeCompleteCallback"]>>
HighWater(old, new) ==
    IF old < HighWaterMark /\ new >= HighWaterMark
    THEN <<[op |-> "highWaterMarkCallback"]>> ELSE <<>>

\* Mutant of Remainder: data instead of data + n.
RemainderFromStart(m, n) == SubSeq(Bytes(m), 1, MsgLen - n)

\* data + n, what the direct write left.
Remainder(m, n) == SubSeq(Bytes(m), n + 1, MsgLen)

\* A write to the socket after SHUT_WR or a reset fails: with ECONNRESET if that
\* error is pending, otherwise (nothing pending, or EPIPE) by SIGPIPE, which
\* nothing in the process ignores.
WriteFails == sock.shut \/ sock.rst
WriteSignals == WriteFails /\ sock.err # "ECONNRESET"

\* sendInLoop(data): kDisconnecting is OK.  With nothing queued the data goes to
\* the socket first; EAGAIN writes nothing; ECONNRESET drops the data; what
\* remains is queued and the channel made to wait for EPOLLOUT.  Where the assert
\* before the write fails, or the write raises SIGPIPE, nothing else happens.
sendInLoop(m) ==
    LET open    == conn.state_ # "kDisconnected"
        direct  == open /\ ~isWriting
        broken  == direct /\ WriteFails
        n       == IF direct /\ ~broken THEN Lower(MsgLen, sock.room) ELSE 0
        rest    == IF broken THEN <<>> ELSE Remainder(m, n)
        old     == Len(conn.outputBuffer_)
        ends    == CASE direct /\ old # 0         -> "TcpConnection.cpp:121"
                     [] direct /\ old = 0 /\ WriteSignals -> "SIGPIPE"
                     [] OTHER                     -> fate
    IN  /\ fate' = ends
        /\ IF ~open \/ ends # fate
           THEN UNCHANGED <<conn, pendingTasks, sock, hist>>
           ELSE
             /\ conn' = [conn EXCEPT !.outputBuffer_ = @ \o rest,
                                     !.events_ = IF rest = <<>> THEN @ ELSE enableWrite]
             /\ pendingTasks' = pendingTasks \o
                    (CASE broken                   -> <<>>
                       [] ~broken /\ rest = <<>>   -> WriteComplete
                       [] ~broken /\ rest # <<>>   -> HighWater(old, old + Len(rest)))
             /\ IF broken
                THEN /\ sock' = [sock EXCEPT !.err = "none"]
                     /\ UNCHANGED hist
                ELSE /\ sock' = [sock EXCEPT !.room = @ - n]
                     /\ hist' = [hist EXCEPT !.wire = @ \o SubSeq(Bytes(m), 1, n),
                                             !.accepted = @ \o Bytes(m)]

\* Mutant of shutdownInLoop: output may still be pending.
shutdownInLoopAtOnce(st, ev) == sock.shut \/ st # "kDisconnected"

\* shutdownInLoop() in connection state st with interest set ev: whether SHUT_WR
\* has been called after it.
shutdownInLoop(st, ev) == sock.shut \/ (st # "kDisconnected" /\ "OUT" \notin ev)

\* state_ is exchanged for kDisconnecting.
stateAtomicGetAndSet == conn' = [conn EXCEPT !.state_ = "kDisconnecting"]

\* The asserts of handleClose and of the removal of the channel from the poller.
CloseAsserts ==
    fate' = IF conn.state_ \notin {"kConnected", "kDisconnecting"} THEN "TcpConnection.cpp:286"
            ELSE IF ~registered THEN "EPoller.cpp:55" ELSE fate

\* What handleClose does where its asserts hold: state and interest set become st
\* and ev, and told says whether closeCallback_ is called.
Closes(st, ev, told) ==
    /\ CloseAsserts
    /\ IF fate' # fate
       THEN UNCHANGED <<conn, server>>
       ELSE /\ conn' = [conn EXCEPT !.state_ = st, !.events_ = ev]
            /\ server' = IF told
                         THEN [server EXCEPT !.tasks = Append(@, "closeConnectionInLoop"),
                                             !.closes = @ + 1]
                         ELSE server

\* Mutants of handleClose: closeCallback_ is not called, the channel stays in the
\* poller, the state is not recorded.
handleCloseSilently == Closes("kDisconnected", {}, FALSE)
handleCloseKeepsChannel == Closes("kDisconnected", conn.events_, TRUE)
handleCloseKeepsState == Closes(conn.state_, {}, TRUE)

\* handleClose(): the channel is removed and closeCallback_ hands the
\* connection to TcpServer::closeConnection on the base loop.
handleClose == Closes("kDisconnected", {}, TRUE)

-----------------------------------------------------------------------------
(* The I/O loop: poll, dispatch, tasks. *)

\* What epoll reports: errors and hang-ups always, the rest if asked for.
ReadyEvents ==
    {e \in {"IN", "OUT", "HUP", "ERR"} :
        /\ registered
        /\ \/ e = "IN"  /\ isReading /\ (sock.rx \/ sock.fin \/ sock.rst)
           \/ e = "OUT" /\ isWriting /\ (sock.room > 0 \/ sock.shut \/ sock.rst)
           \/ e = "HUP" /\ (sock.rst \/ (sock.fin /\ sock.shut))
           \/ e = "ERR" /\ sock.err # "none"}

poll ==
    /\ Up /\ loop.at = "poll"
    /\ ReadyEvents # {} \/ pendingTasks # <<>>
    /\ loop' = [loop EXCEPT !.at = IF ReadyEvents = {} THEN "events" ELSE "active",
                            !.revents = ReadyEvents]
    /\ UNCHANGED <<conn, fate, pendingTasks, server, holds, call, sock, sent, hist>>

\* Channel::handleEvents(), after the channels dispatched before it: tie_.lock()
\* keeps the connection alive from here on.
handleEvents ==
    /\ Up /\ loop.at = "active"
    /\ loop' = [loop EXCEPT !.at = "events"]
    /\ UNCHANGED <<conn, fate, pendingTasks, server, holds, call, sock, sent, hist>>

\* Channel::handleEventsWithGuard: close, error, read, write, in this order.
Dispatching == Up /\ loop.at = "events" /\ ~loop.inCallback

\* EPOLLHUP without EPOLLIN
dispatchClose ==
    /\ Dispatching
    /\ "HUP" \in loop.revents /\ "IN" \notin loop.revents
    /\ loop' = [loop EXCEPT !.revents = @ \ {"HUP"}]
    /\ handleClose
    /\ UNCHANGED <<pendingTasks, holds, call, sock, sent, hist>>

\* handleError(): getsockopt(SO_ERROR) fetches and clears the error.
handleError ==
    /\ Dispatching
    /\ "HUP" \in loop.revents => "IN" \in loop.revents
    /\ "ERR" \in loop.revents
    /\ loop' = [loop EXCEPT !.revents = @ \ {"ERR"}]
    /\ sock' = [sock EXCEPT !.err = "none"]
    /\ UNCHANGED <<conn, fate, pendingTasks, server, holds, call, sent, hist>>

\* handleRead(): data goes to messageCallback_, end of stream closes, and an
\* error ends in Buffer::readFd (module Buffer, readFdFails).
handleRead ==
    /\ Dispatching
    /\ "IN" \in loop.revents /\ "ERR" \notin loop.revents
    /\ loop' = [loop EXCEPT !.revents = @ \ {"IN", "HUP"}, !.inCallback = sock.rx]
    /\ sock' = [sock EXCEPT !.rx = FALSE]
    /\ IF conn.state_ # "kDisconnected" /\ ~sock.rx /\ sock.err = "none"
       THEN handleClose
       ELSE /\ fate' = CASE conn.state_ = "kDisconnected" -> "TcpConnection.cpp:241"
                         [] conn.state_ # "kDisconnected" /\ ~sock.rx -> "Buffer::readFd"
                         [] OTHER                      -> fate
            /\ UNCHANGED <<conn, server>>
    /\ UNCHANGED <<pendingTasks, holds, call, sent, hist>>

\* handleWrite(): writes what the socket takes (a failing write is logged, unless
\* it raises SIGPIPE); when the buffer is empty, stop waiting for EPOLLOUT, finish
\* a shutdown() and report completion.
handleWrite ==
    LET out  == conn.outputBuffer_
        n    == Lower(Len(out), sock.room)
        rest == SubSeq(out, n + 1, Len(out))
        done == rest = <<>>
        open == conn.state_ # "kDisconnected"
        ends == CASE open /\ (out = <<>> \/ ~isWriting) -> "TcpConnection.cpp:263"
                  [] open /\ out # <<>> /\ isWriting /\ WriteSignals -> "SIGPIPE"
                  [] OTHER -> fate
    IN  /\ Dispatching
        /\ loop.revents = {"OUT"}
        /\ loop' = [loop EXCEPT !.revents = {}]
        /\ fate' = ends
        /\ CASE ~open \/ ends # fate -> UNCHANGED <<conn, pendingTasks, sock, hist>>
             [] open /\ ends = fate /\ WriteFails ->
                  /\ sock' = [sock EXCEPT !.err = "none"]
                  /\ UNCHANGED <<conn, pendingTasks, hist>>
             [] open /\ ends = fate /\ ~WriteFails ->
                  /\ conn' = [conn EXCEPT !.outputBuffer_ = rest,
                                          !.events_ = IF done THEN disableWrite ELSE @]
                  /\ sock' = [sock EXCEPT
                         !.room = @ - n,
                         !.shut = IF done /\ conn.state_ = "kDisconnecting"
                                  THEN shutdownInLoop(conn.state_, disableWrite) ELSE @]
                  /\ pendingTasks' = pendingTasks \o (IF done THEN WriteComplete ELSE <<>>)
                  /\ hist' = [hist EXCEPT !.wire = @ \o SubSeq(out, 1, n)]
        /\ UNCHANGED <<server, holds, call, sent>>

\* All events dispatched: doPendingTasks() swaps the tasks out.
doPendingTasks ==
    /\ Dispatching
    /\ loop.revents = {}
    /\ loop' = [loop EXCEPT !.at = "tasks", !.batch = pendingTasks]
    /\ pendingTasks' = <<>>
    /\ UNCHANGED <<conn, fate, server, holds, call, sock, sent, hist>>

tasksDone ==
    /\ Up /\ loop.at = "tasks" /\ ~loop.inCallback
    /\ loop.batch = <<>>
    /\ loop' = [loop EXCEPT !.at = "poll"]
    /\ UNCHANGED <<conn, fate, pendingTasks, server, holds, call, sock, sent, hist>>

\* The next task of the batch is op; it runs a user callback if calls holds.
Running(op, calls) ==
    /\ Up /\ loop.at = "tasks" /\ ~loop.inCallback
    /\ loop.batch # <<>> /\ Head(loop.batch).op = op
    /\ loop' = [loop EXCEPT !.batch = Tail(@), !.inCallback = calls]

\* connectEstablished(): connectionCallback_ runs and gives the connection to
\* the application.
connectEstablished ==
    /\ Running("connectEstablished", TRUE)
    /\ Assert(conn.state_ = "kConnecting", "TcpConnection.cpp:74")
    /\ conn' = [conn EXCEPT !.state_ = "kConnected", !.events_ = enableRead]
    /\ holds' = [t \in Threads |-> TRUE]
    /\ UNCHANGED <<pendingTasks, server, call, sock, sent, hist>>

runSendInLoop ==
    /\ Running("sendInLoop", FALSE)
    /\ sendInLoop(Head(loop.batch).msg)
    /\ UNCHANGED <<server, holds, call, sent>>

runShutdownInLoop ==
    /\ Running("shutdownInLoop", FALSE)
    /\ sock' = [sock EXCEPT !.shut = shutdownInLoop(conn.state_, conn.events_)]
    /\ UNCHANGED <<conn, fate, pendingTasks, server, holds, call, sent, hist>>

\* Mutant of forceCloseInLoop: no test that the close has not happened already.
forceCloseInLoopUnchecked ==
    /\ Running("forceCloseInLoop", FALSE)
    /\ handleClose
    /\ UNCHANGED <<pendingTasks, holds, call, sock, sent, hist>>

forceCloseInLoop ==
    /\ Running("forceCloseInLoop", FALSE)
    /\ IF conn.state_ # "kDisconnected" THEN handleClose ELSE UNCHANGED <<conn, fate, server>>
    /\ UNCHANGED <<pendingTasks, holds, call, sock, sent, hist>>

\* writeCompleteCallback_ or highWaterMarkCallback_ of the application.
runUserCallback ==
    /\ Running("writeCompleteCallback", TRUE) \/ Running("highWaterMarkCallback", TRUE)
    /\ UNCHANGED <<conn, fate, pendingTasks, server, holds, call, sock, sent, hist>>

-----------------------------------------------------------------------------
(* Calls of the application from a callback, in the loop thread. *)

InLoopCall ==
    Up /\ loop.inCallback /\ UNCHANGED <<server, holds, call>>

callbackReturns ==
    /\ InLoopCall
    /\ loop' = [loop EXCEPT !.inCallback = FALSE]
    /\ UNCHANGED <<conn, fate, pendingTasks, sock, sent, hist>>

\* send() in the loop thread writes at once.
sendByLoop ==
    /\ InLoopCall
    /\ \E m \in Messages \ sent :
          /\ sent' = sent \cup {m}
          /\ IF conn.state_ = "kConnected"
             THEN sendInLoop(m)
             ELSE UNCHANGED <<conn, fate, pendingTasks, sock, hist>>
    /\ UNCHANGED loop

\* shutdown() in the loop thread; the assert(state_ <= kDisconnecting) is the
\* caller's obligation here, it can look at the state first.
shutdownByLoop ==
    /\ InLoopCall
    /\ conn.state_ # "kDisconnected"
    /\ stateAtomicGetAndSet
    /\ sock' = [sock EXCEPT !.shut = IF conn.state_ = "kConnected"
                                     THEN shutdownInLoop("kDisconnecting", conn.events_) ELSE @]
    /\ UNCHANGED <<fate, loop, pendingTasks, sent, hist>>

\* forceClose() in the loop thread queues the close.
forceCloseByLoop ==
    /\ InLoopCall
    /\ conn.state_ # "kDisconnected"
    /\ \A i \in DOMAIN pendingTasks : pendingTasks[i].op # "forceCloseInLoop"  \* bound
    /\ stateAtomicGetAndSet
    /\ pendingTasks' = Append(pendingTasks, [op |-> "forceCloseInLoop"])
    /\ UNCHANGED <<fate, loop, sock, sent, hist>>

\* stopRead() and startRead() in the loop thread, whichever does something.  They
\* do not look at state_: startRead() after the close adds the channel again.
switchReading ==
    /\ InLoopCall
    /\ conn' = [conn EXCEPT !.events_ = IF isReading THEN disableRead ELSE enableRead]
    /\ UNCHANGED <<fate, loop, pendingTasks, sock, sent, hist>>

-----------------------------------------------------------------------------
(* Calls of the application from thread t. *)

At(t, place) == call' = [call EXCEPT ![t] = place]

\* t is past the tests of a method and will queue task.
Queueing(task) == [op |-> "queueInLoop", task |-> task]

ThreadStep(t) == Up /\ UNCHANGED <<loop, server, sock>>

Calls(t) == ThreadStep(t) /\ holds[t] /\ call[t] = Idle

\* send(): the test of state_; if it passes, sendInLoop will be queued.
send(t) ==
    /\ Calls(t)
    /\ \E m \in Messages \ sent :
          /\ sent' = sent \cup {m}
          /\ At(t, IF conn.state_ = "kConnected"
                   THEN Queueing([op |-> "sendInLoop", msg |-> m]) ELSE Idle)
    /\ UNCHANGED <<conn, fate, pendingTasks, holds, hist>>

\* shutdown(): its assert.
shutdown(t) ==
    /\ Calls(t)
    /\ Assert(conn.state_ # "kDisconnected", "TcpConnection.cpp:179")
    /\ At(t, [op |-> "shutdown"])
    /\ UNCHANGED <<conn, pendingTasks, holds, sent, hist>>

\* forceClose(): its test of state_.
forceClose(t) ==
    /\ Calls(t)
    /\ conn.state_ # "kDisconnected"
    /\ At(t, [op |-> "forceClose"])
    /\ UNCHANGED <<conn, fate, pendingTasks, holds, sent, hist>>

\* The exchange of state_ in shutdown() and forceClose(); what it returned
\* decides whether the second half is queued.
exchange(t) ==
    /\ ThreadStep(t)
    /\ call[t].op \in {"shutdown", "forceClose"}
    /\ stateAtomicGetAndSet
    /\ At(t, CASE call[t].op = "shutdown" /\ conn.state_ = "kConnected" ->
                    Queueing([op |-> "shutdownInLoop"])
               [] call[t].op = "forceClose" /\ conn.state_ # "kDisconnected" ->
                    Queueing([op |-> "forceCloseInLoop"])
               [] OTHER -> Idle)
    /\ UNCHANGED <<fate, pendingTasks, holds, sent, hist>>

\* queueInLoop() of the second half of send, shutdown or forceClose.
queueInLoop(t) ==
    /\ ThreadStep(t)
    /\ call[t].op = "queueInLoop"
    /\ pendingTasks' = Append(pendingTasks, call[t].task)
    /\ At(t, Idle)
    /\ UNCHANGED <<conn, fate, holds, sent, hist>>

\* t lets go of its shared_ptr.
dropReference(t) ==
    /\ Calls(t)
    /\ holds' = [holds EXCEPT ![t] = FALSE]
    /\ UNCHANGED <<conn, fate, pendingTasks, call, sent, hist>>

-----------------------------------------------------------------------------
(* The server's base loop and the end of the object. *)

BaseLoopRuns(task) ==
    /\ Up /\ server.tasks # <<>> /\ Head(server.tasks) = task
    /\ UNCHANGED <<conn, loop, pendingTasks, holds, call, sock, sent, hist>>

\* TcpServer::closeConnectionInLoop()
closeConnectionInLoop ==
    /\ BaseLoopRuns("closeConnectionInLoop")
    /\ Assert(server.owned, "TcpServer.cpp:76")
    /\ server' = [server EXCEPT !.tasks = Append(Tail(@), "connectDestroyed"), !.owned = FALSE]

\* TcpConnection::connectDestroyed() only reports to connectionCallback_.
connectDestroyed ==
    /\ BaseLoopRuns("connectDestroyed")
    /\ server' = [server EXCEPT !.tasks = Tail(@)]
    /\ UNCHANGED fate

\* Nothing refers to the connection any more: the set of the server, a task, the
\* guard of the event being dispatched, a thread.
Unreferenced ==
    /\ ~server.owned /\ server.tasks = <<>>
    /\ pendingTasks = <<>> /\ loop.batch = <<>> /\ ~loop.inCallback
    /\ loop.at = "events" => loop.revents = {}
    /\ \A t \in Threads : ~holds[t]

\* ~TcpConnection(): assert(state_ == kDisconnected).  activeChannels_ does not
\* keep the connection alive: handleEvents() of a freed channel follows.
destructor ==
    /\ Up /\ Unreferenced
    /\ fate' = CASE conn.state_ # "kDisconnected" -> "TcpConnection.cpp:66"
                 [] conn.state_ = "kDisconnected" /\ loop.at = "active" -> "freed channel"
                 [] OTHER -> "destroyed"
    /\ UNCHANGED <<conn, loop, pendingTasks, server, holds, call, sock, sent, hist>>

-----------------------------------------------------------------------------
(* External: the peer and the kernel. *)

Kernel == Up /\ UNCHANGED <<conn, fate, loop, pendingTasks, server, holds, call, sent, hist>>

peerSends ==
    /\ Kernel /\ ~sock.fin /\ ~sock.rst /\ ~sock.rx
    /\ sock' = [sock EXCEPT !.rx = TRUE]

peerCloses ==
    /\ Kernel /\ ~sock.fin /\ ~sock.rst
    /\ sock' = [sock EXCEPT !.fin = TRUE]

\* A reset after the end of the stream, while our side is open, reports EPIPE.
peerResets ==
    /\ Kernel /\ ~sock.rst
    /\ sock' = [sock EXCEPT !.rst = TRUE,
                            !.err = IF sock.fin /\ ~sock.shut THEN "EPIPE" ELSE "ECONNRESET"]

\* Acknowledged bytes free the send buffer.
peerReads ==
    /\ Kernel
    /\ \E r \in sock.room + 1 .. SndBuf : sock' = [sock EXCEPT !.room = r]

-----------------------------------------------------------------------------
LoopThread ==
    \/ poll \/ handleEvents \/ dispatchClose \/ handleError \/ handleRead \/ handleWrite
    \/ doPendingTasks \/ tasksDone
    \/ connectEstablished \/ runSendInLoop \/ forceCloseInLoop
    \/ runUserCallback \/ callbackReturns

CallbackCalls ==
    sendByLoop \/ shutdownByLoop \/ forceCloseByLoop \/ switchReading

BaseLoop == closeConnectionInLoop \/ connectDestroyed

Next ==
    \/ LoopThread
    \/ CallbackCalls
    \/ \E t \in Threads : send(t) \/ queueInLoop(t) \/ dropReference(t)
    \/ BaseLoop
    \/ destructor
    \/ peerSends \/ peerCloses \/ peerResets \/ peerReads

\* Other threads send; only callbacks, in the loop thread, close.
Spec == Init /\ [][Next]_vars

\* Other threads close as well.
ThreadCloses(t) == shutdown(t) \/ forceClose(t) \/ exchange(t)

SpecWithClosers ==
    Init /\ [][Next \/ runShutdownInLoop \/ \E t \in Threads : ThreadCloses(t)]_vars

\* Both loops and the threads inside a method are scheduled, references are
\* dropped in the end, and the last one runs the destructor.
Fairness ==
    /\ WF_vars(LoopThread)
    /\ WF_vars(BaseLoop)
    /\ \A t \in Threads : WF_vars(queueInLoop(t)) /\ SF_vars(dropReference(t))
    /\ WF_vars(destructor)

FairSpec == Spec /\ Fairness

-----------------------------------------------------------------------------
TaskOps == {"connectEstablished", "sendInLoop", "shutdownInLoop", "forceCloseInLoop",
            "writeCompleteCallback", "highWaterMarkCallback"}

\* Types, and the poller's view: the channel of an open connection is registered,
\* that of a new one is not, and that of a closed one at most for reading, by a
\* later startRead().
TypeOK ==
    /\ conn.state_ \in {"kConnecting", "kConnected", "kDisconnecting", "kDisconnected"}
    /\ conn.events_ \subseteq {"IN", "PRI", "OUT"}
    /\ conn.state_ = "kConnecting" => ~registered
    /\ conn.state_ \in {"kConnected", "kDisconnecting"} => registered
    /\ conn.state_ = "kDisconnected" => ~isWriting
    /\ loop.at \in {"poll", "active", "events", "tasks"}
    /\ loop.inCallback \in BOOLEAN
    /\ loop.revents \subseteq {"IN", "OUT", "HUP", "ERR"}
    /\ \A i \in DOMAIN pendingTasks : pendingTasks[i].op \in TaskOps
    /\ \A i \in DOMAIN loop.batch : loop.batch[i].op \in TaskOps
    /\ sock.room \in 0 .. SndBuf
    /\ sock.err \in {"none", "EPIPE", "ECONNRESET"}

\* What can end the process while the connection is closed only from its own
\* loop, and its cause.  A write to a socket that was shut or reset (lines 122
\* and 265) raises SIGPIPE, and a failing read ends in Buffer::readFd.  The
\* asserts hold but for one cause: a callback called startRead() after the close
\* (225-230), so that the poller reports a channel whose state_ handleRead (241)
\* and handleClose (286) assert against, or whose connection is gone.
AssertsHold ==
    /\ \/ fate \in {"alive", "destroyed", "SIGPIPE", "Buffer::readFd"}
       \/ /\ fate \in {"TcpConnection.cpp:241", "TcpConnection.cpp:286", "freed channel"}
          /\ Reopened
    /\ fate = "SIGPIPE" => sock.shut \/ sock.rst
    /\ fate = "Buffer::readFd" => sock.rst

\* The bytes on the wire followed by the output buffer are exactly the messages
\* sendInLoop took, whole and in order, whatever the mix of direct writes,
\* partial writes, EAGAIN, senders in other threads and callbacks that send.
StreamIsIntact == hist.wire \o conn.outputBuffer_ = hist.accepted

\* An open connection waits for EPOLLOUT exactly while it has output: neither a
\* backlog nobody will write nor a busy loop on a writable socket.
WriteInterest ==
    conn.state_ # "kDisconnected" => (isWriting <=> conn.outputBuffer_ # <<>>)

\* SHUT_WR comes only after everything accepted has been written, and nothing
\* is written after it.
ShutdownAfterDrain == sock.shut => conn.outputBuffer_ = <<>> /\ hist.wire = hist.accepted

\* closeCallback_ runs once, and the server lets go only of a closed connection.
ClosedOnce ==
    /\ server.closes = (IF conn.state_ = "kDisconnected" THEN 1 ELSE 0)
    /\ ~server.owned => conn.state_ = "kDisconnected"

\* The output is a byte stream: what was accepted or written stays so, a message
\* is accepted whole, and no step writes or accepts anything once SHUT_WR was called.
Output == INSTANCE ByteStream
            WITH Message <- {Bytes(m) : m \in Messages},
                 accepted <- hist.accepted, wire <- hist.wire, ended <- sock.shut

ImplementsByteStream == Output!Spec

\* A connection whose peer ended or reset the stream is closed and destroyed,
\* unless the application stopped reading (or one of the ends AssertsHold names
\* struck).
EndsAfterPeer ==
    sock.fin \/ sock.rst ~>
        ~Up \/ (~isReading /\ conn.state_ \in {"kConnected", "kDisconnecting"})

\* Accepted output reaches the wire if the peer keeps making room, or the
\* connection ends.
OutputDrains ==
    []<>(sock.room > 0) =>
        (conn.outputBuffer_ # <<>> ~>
             conn.outputBuffer_ = <<>> \/ sock.rst \/ ~Up \/ conn.state_ = "kDisconnected")

\* TcpConnection.h:49 says of send, shutdown and forceClose: "I/O operations are
\* thread safe".  Closing from another thread must not fail an assert that closing
\* in the loop keeps, whatever the loop and the peer do meanwhile.
ClosingIsThreadSafe == AssertsHold
=============================================================================
