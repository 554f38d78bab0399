------------------------------ MODULE TcpServer ------------------------------
(***************************************************************************)
(* TcpServer, Acceptor and EventLoopThreadPool: connections are accepted   *)
(* in the base loop, also at the limit of descriptors, handed to the loops *)
(* of the pool in turn, owned by connections_ and destroyed in the base    *)
(* loop.  What a connection does in between is module TcpConnection's.     *)
(***************************************************************************)
EXTENDS Integers, Sequences, FiniteSets

CONSTANTS
    Peers,          \* sockets that connect
    MaxThreads,     \* threads of the pool, if it has any
    Descriptors,    \* bound: descriptors for connections and others, and idleFd_
    MaxOther        \* bound: descriptors taken by other parts of the program

ASSUME DescriptorsAssumption == MaxThreads \in Nat /\ Descriptors \in Nat \ {0} /\ MaxOther \in Nat

VARIABLES
    numThreads_,    \* setNumThread
    listening_,
    backlog,        \* peers that wait to be accepted
    acceptor,       \* Acceptor::handleRead: "poll", or the line it is at
    idleFd_,        \* idleFd_ is open
    free,           \* descriptors the process may still open
    other,          \* descriptors held by other parts of the program
    raced,          \* history: one was taken while handleRead had given up idleFd_
    next_,          \* of the pool
    connections_,   \* the server's set of connections
    conn,           \* the connection accepted from a peer: [state, loop]
    tasks           \* the tasks of each loop, 0 is the base loop

serverVars == <<numThreads_, listening_, backlog, acceptor, idleFd_, free, other, raced, next_,
                connections_, conn, tasks>>

Loops == 0..MaxThreads

serverInit ==
    /\ numThreads_ \in {0, MaxThreads}
    /\ listening_ = FALSE /\ backlog = <<>> /\ acceptor = "poll" /\ idleFd_ = TRUE
    /\ free = Descriptors - 1 /\ other = 0 /\ raced = FALSE /\ next_ = 0
    /\ connections_ = {} /\ conn = [p \in Peers |-> [state |-> "none", loop |-> 0]]
    /\ tasks = [l \in Loops |-> <<>>]

\* TcpServer::start: the pool's threads are running, the acceptor listens.
serverStart ==
    /\ ~listening_
    /\ listening_' = TRUE
    /\ UNCHANGED <<numThreads_, backlog, acceptor, idleFd_, free, other, raced, next_,
                   connections_, conn, tasks>>

-----------------------------------------------------------------------------
(* Acceptor::handleRead *)

\* EventLoopThreadPool::getNextLoop: the loops in turn, or the base loop.
getNextLoop == IF numThreads_ = 0 THEN 0 ELSE next_ + 1

\* TcpServer::newConnection: connectEstablished runs in the connection's loop.
serverConnection(p) ==
    LET loop == getNextLoop IN
    /\ next_' = IF numThreads_ = 0 THEN next_ ELSE (next_ + 1) % numThreads_
    /\ connections_' = connections_ \union {p}
    /\ IF loop = 0
         THEN conn' = [conn EXCEPT ![p] = [state |-> "kConnected", loop |-> 0]] /\ UNCHANGED tasks
         ELSE /\ conn' = [conn EXCEPT ![p] = [state |-> "kConnecting", loop |-> loop]]
              /\ tasks' = [tasks EXCEPT ![loop] = Append(@, <<"established", p>>)]

accept ==
    /\ acceptor = "poll" /\ listening_ /\ backlog # <<>> /\ free > 0
    /\ free' = free - 1 /\ backlog' = Tail(backlog)
    /\ serverConnection(Head(backlog))
    /\ UNCHANGED <<numThreads_, listening_, acceptor, idleFd_, other, raced>>

\* accept4 fails with EMFILE: idleFd_ is closed ...
closeIdle ==
    /\ acceptor = "poll" /\ listening_ /\ backlog # <<>> /\ free = 0
    /\ acceptor' = "accept" /\ idleFd_' = FALSE
    /\ free' = IF idleFd_ THEN free + 1 ELSE free
    /\ UNCHANGED <<numThreads_, listening_, backlog, other, raced, next_, connections_, conn, tasks>>

\* ... takes the connection, which fails if another thread was faster ...
acceptIdle ==
    /\ acceptor = "accept"
    /\ IF free > 0 THEN /\ acceptor' = "close" /\ free' = free - 1 /\ backlog' = Tail(backlog)
                   ELSE /\ acceptor' = "open" /\ UNCHANGED <<free, backlog>>
    /\ UNCHANGED <<numThreads_, listening_, idleFd_, other, raced, next_, connections_, conn, tasks>>

\* ... is closed, which drops the connection ...
closeAccepted ==
    /\ acceptor = "close"
    /\ acceptor' = "open" /\ free' = free + 1
    /\ UNCHANGED <<numThreads_, listening_, backlog, idleFd_, other, raced, next_, connections_, conn, tasks>>

\* Mutant of reopenIdle: line 103 is missing.
reopenNothing ==
    /\ acceptor = "open"
    /\ acceptor' = "poll"
    /\ UNCHANGED <<numThreads_, listening_, backlog, idleFd_, free, other, raced, next_,
                   connections_, conn, tasks>>

\* ... and opened again.
reopenIdle ==
    /\ acceptor = "open"
    /\ acceptor' = "poll"
    /\ idleFd_' = (free > 0)
    /\ free' = IF free > 0 THEN free - 1 ELSE free
    /\ UNCHANGED <<numThreads_, listening_, backlog, other, raced, next_, connections_, conn, tasks>>

handleRead == accept \/ closeIdle \/ acceptIdle \/ closeAccepted \/ reopenIdle

\* Other parts of the program open and close descriptors.
OtherDescriptors ==
    /\ \/ other < MaxOther /\ free > 0 /\ other' = other + 1 /\ free' = free - 1
          /\ raced' = (raced \/ acceptor # "poll")
       \/ other > 0 /\ other' = other - 1 /\ free' = free + 1 /\ UNCHANGED raced
    /\ UNCHANGED <<numThreads_, listening_, backlog, acceptor, idleFd_, next_, connections_, conn, tasks>>
-----------------------------------------------------------------------------
(* The end of a connection, and the loops' tasks *)

\* A task of the base loop, or a call when the base loop is this thread.
closeConnectionInLoop(p, queues) ==
    /\ connections_' = connections_ \ {p}
    /\ tasks' = [queues EXCEPT ![0] = Append(@, <<"destroyed", p>>)]

\* TcpConnection::handleClose in the connection's loop, TcpServer::closeConnection.
handleClose(p) ==
    /\ conn[p].state = "kConnected"
    /\ conn' = [conn EXCEPT ![p].state = "kDisconnected"]
    /\ IF conn[p].loop = 0
         THEN acceptor = "poll" /\ closeConnectionInLoop(p, tasks)
         ELSE /\ tasks' = [tasks EXCEPT ![0] = Append(@, <<"close", p>>)]
              /\ UNCHANGED connections_
    /\ UNCHANGED <<numThreads_, listening_, backlog, acceptor, idleFd_, free, other, raced, next_>>

\* The next task of the loop l.  After connectDestroyed the task's pointer was
\* the last one unless connections_ holds another: the socket is closed.
runServerTask(l) ==
    /\ tasks[l] # <<>> /\ (l = 0 => acceptor = "poll")
    /\ LET name == Head(tasks[l])[1] p == Head(tasks[l])[2] rest == [tasks EXCEPT ![l] = Tail(@)] IN
       \/ /\ name = "established"
          /\ conn' = [conn EXCEPT ![p].state = "kConnected"]
          /\ tasks' = rest /\ UNCHANGED <<connections_, free>>
       \/ /\ name = "close"
          /\ closeConnectionInLoop(p, rest)
          /\ UNCHANGED <<conn, free>>
       \/ /\ name = "destroyed"
          /\ IF p \in connections_ THEN UNCHANGED <<conn, free>>
             ELSE conn' = [conn EXCEPT ![p].state = "gone"] /\ free' = free + 1
          /\ tasks' = rest /\ UNCHANGED connections_
    /\ UNCHANGED <<numThreads_, listening_, backlog, acceptor, idleFd_, other, raced, next_>>
=============================================================================
