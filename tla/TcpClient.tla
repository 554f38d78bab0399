------------------------------ MODULE TcpClient ------------------------------
(***************************************************************************)
(* TcpClient and Connector on their event loop: start() in the loop's      *)
(* thread or in another one, the retry timer, a Connector for each         *)
(* attempt, the connection and the destructor.                             *)
(*                                                                         *)
(* The loop is modelled by its rounds, the channels that are ready and     *)
(* then the tasks, because what one handler deletes another one of the     *)
(* same round, or a task, may still point to.                              *)
(***************************************************************************)
EXTENDS Integers, Sequences, SequencesExt

CONSTANT MaxConnectors      \* bound: attempts to connect
ASSUME MaxConnectorsAssumption == MaxConnectors \in Nat \ {0}

VARIABLES
    byLoop,         \* start() is called in the loop's thread
    starter,        \* the caller of start(): the line it is at
    round,          \* the loop's round: [at, active, batch]
    ctasks,         \* pendingTasks_ of the loop
    expired,        \* the timerfd is readable
    timer,          \* the Timer: "none", "new", "set" (in timers_), "freed", "stale"
    retryTimer_,    \* "null" or "timer"
    connector,      \* connector_: [n, at], n its socket
    sock,           \* the client's sockets
    connected_,
    connection_,    \* the socket of connection_, 0 if null
    cstate,         \* the state_ of the connection
    client,         \* "alive" or "destroyed"
    fatal,          \* what aborted the program or touched freed memory, if any
    met             \* history: the coincidences that are not looked after

clientVars == <<byLoop, starter, round, ctasks, expired, timer, retryTimer_, connector,
                sock, connected_, connection_, cstate, client, fatal, met>>

timerVars == <<timer, retryTimer_>>
connectorVars == <<connector, sock>>
connectionVars == <<connected_, connection_, cstate>>

clientInit ==
    /\ byLoop \in BOOLEAN /\ starter = "before"
    /\ round = [at |-> "poll", active |-> <<>>, batch |-> <<>>] /\ ctasks = <<>>
    /\ expired = FALSE /\ timer = "none" /\ retryTimer_ = "null"
    /\ connector = [n |-> 1, at |-> "idle"]
    /\ sock = [n \in 1..MaxConnectors |-> IF n = 1 THEN "new" ELSE "none"]
    /\ connected_ = FALSE /\ connection_ = 0 /\ cstate = "none"
    /\ client = "alive" /\ fatal = "none" /\ met = {}

Abort(why) == fatal' = why

-----------------------------------------------------------------------------
(* Connector *)

\* The sockets after ~Connector of the current one.
closeSocket == IF connector.at = "connected" THEN sock ELSE [sock EXCEPT ![connector.n] = "closed"]

\* Connector::start on the socket n: connect is in progress, or it ended at once
\* and handleWrite removes a channel that was never added.
connectorStart(n, sockets) ==
    \/ /\ sock' = [sockets EXCEPT ![n] = "connecting"]
       /\ connector' = [n |-> n, at |-> "waiting"]
       /\ UNCHANGED fatal
    \/ /\ sock' = sockets
       /\ connector' = [n |-> n, at |-> "idle"]
       /\ Abort("channel not added")

\* Mutant of newConnection: retryTimer_ keeps its value.
newConnectionKeepsTimer ==
    IF retryTimer_ = "null" THEN
      /\ Abort("null timer")
      /\ UNCHANGED <<round, timerVars, connectionVars>>
    ELSE
      /\ timer' = "freed" /\ connected_' = TRUE
      /\ connection_' = connector.n /\ cstate' = "kConnecting"
      /\ round' = [round EXCEPT !.at = "establishing", !.active = Tail(@)]
      /\ UNCHANGED <<retryTimer_, fatal>>

\* TcpClient::newConnection up to the latch; cancelTimer runs at once, also
\* ahead of the task that adds the timer.
newConnection ==
    IF retryTimer_ = "null" THEN
      /\ Abort("null timer")
      /\ UNCHANGED <<round, timerVars, connectionVars>>
    ELSE
      /\ timer' = "freed" /\ retryTimer_' = "null" /\ connected_' = TRUE
      /\ connection_' = connector.n /\ cstate' = "kConnecting"
      /\ round' = [round EXCEPT !.at = "establishing", !.active = Tail(@)]
      /\ UNCHANGED fatal

\* The timer is not yet in retryTimer_, or not yet in the timer queue.
StartUnderWay == starter # "done" \/ timer = "new"

\* Connector::handleWrite: the outcome of the connect.
handleWrite ==
    IF sock[connector.n] = "refused" THEN
      /\ connector' = [connector EXCEPT !.at = "failed"]
      /\ round' = [round EXCEPT !.active = Tail(@)]
      /\ UNCHANGED <<timerVars, connectionVars, fatal, met>>
    ELSE
      /\ connector' = [connector EXCEPT !.at = "connected"]
      /\ newConnection
      /\ met' = IF StartUnderWay THEN met \union {"early"} ELSE met

connectEstablished ==
    /\ round.at = "establishing"
    /\ round' = [round EXCEPT !.at = "events"]
    /\ cstate' = "kConnected"
    /\ UNCHANGED <<byLoop, starter, ctasks, expired, timerVars, connectorVars, connected_, connection_, client, fatal, met>>
-----------------------------------------------------------------------------
(* TcpClient *)

\* start() in another thread: line 36 queues the first connect, line 40 makes
\* the timer and queues its insertion, then assigns retryTimer_.
start ==
    /\ ~byLoop
    /\ \/ /\ starter = "before"
          /\ starter' = "line 36" /\ ctasks' = Append(ctasks, "connect")
          /\ UNCHANGED <<timerVars>>
       \/ /\ starter = "line 36"
          /\ starter' = "line 40" /\ ctasks' = Append(ctasks, "insert") /\ timer' = "new"
          /\ UNCHANGED retryTimer_
       \/ /\ starter = "line 40"
          /\ starter' = "done" /\ retryTimer_' = "timer"
          /\ UNCHANGED <<timer, ctasks>>
    /\ UNCHANGED <<byLoop, round, expired, connectorVars, connectionVars, client, fatal, met>>

\* start() in the loop's thread: nothing is queued.
startInLoop ==
    /\ byLoop /\ starter = "before" /\ round.at = "poll"
    /\ starter' = "done"
    /\ connectorStart(1, sock)
    /\ timer' = "set" /\ retryTimer_' = "timer"
    /\ UNCHANGED <<byLoop, round, ctasks, expired, connectionVars, client, met>>

\* A new Connector replaces one that has not connected; bounded by the sockets:
\* the model ends when the last attempt is given up.
replaceConnector(sockets) ==
    \/ connector.n < MaxConnectors /\ connectorStart(connector.n + 1, sockets)
    \/ /\ connector.n = MaxConnectors
       /\ sock' = sockets /\ UNCHANGED connector
       /\ Abort("out of attempts")

\* Mutant of retry: the old socket is not closed.
retryLeaks ==
    \/ connected_ /\ UNCHANGED <<connectorVars, fatal>>
    \/ ~connected_ /\ replaceConnector(sock)

\* Mutant of retry: the test of connected_ is inverted.
retryInverted ==
    \/ ~connected_ /\ UNCHANGED <<connectorVars, fatal>>
    \/ connected_ /\ replaceConnector(closeSocket)

\* A connect that has not ended, or has failed, is given up.
retry ==
    \/ connected_ /\ UNCHANGED <<connectorVars, fatal>>
    \/ ~connected_ /\ replaceConnector(closeSocket)

\* TcpConnection::handleClose and TcpClient::closeConnection.
closeConnection ==
    /\ cstate' = "kDisconnected"
    /\ IF client = "destroyed"
         THEN Abort("freed client") /\ UNCHANGED <<connection_, ctasks>>
         ELSE /\ connection_' = 0 /\ ctasks' = Append(ctasks, "destroyed")
              /\ UNCHANGED fatal

\* The retry timer is about to run, and other timers of its batch may run first.
RetryDue ==
    round.at = "events" /\ round.active # <<>> /\ Head(round.active).name = "timer" /\ timer = "set"

\* What may go wrong at once when the client is destroyed: its Connector's channel
\* is being handled, its timer was deleted before, or belongs to the batch whose
\* callback destroys it.
Faults ==
    CASE round.at = "establishing"                    -> {"handling channel"}
      [] retryTimer_ = "timer" /\ timer = "freed"     -> {"freed timer"}
      [] RetryDue                                     -> {"none", "freed timer"}
      [] OTHER                                        -> {"none"}

\* Where the end of the client leaves something that points to it or its parts.
Coincidences(why) ==
    {c \in {"held", "early", "reported", "callback", "batch"} :
        CASE c = "held"     -> connection_ # 0 \/ "connect" \in ToSet(round.batch \o ctasks)
          [] c = "early"    -> timer = "new"
          [] c = "reported" -> \E channel \in ToSet(round.active) : channel.name = "connector"
          [] c = "callback" -> round.at = "establishing"
          [] c = "batch"    -> RetryDue /\ why = "freed timer"}

\* ~TcpClient in the loop's thread, once start() has returned: before or after a
\* round, in a callback of one of its channels or timers, in a task, or in the
\* connectionCallback_ that newConnection calls.
destructor ==
    /\ client = "alive" /\ starter = "done"
    /\ client' = "destroyed"
    /\ IF connection_ # 0
         THEN cstate' = "kDisconnecting" /\ ctasks' = Append(ctasks, "forceClose")
         ELSE UNCHANGED <<cstate, ctasks>>
    /\ timer' = IF retryTimer_ = "timer" THEN "freed" ELSE timer
    /\ sock' = closeSocket
    /\ connection_' = 0
    /\ \E why \in Faults : fatal' = why /\ met' = met \union Coincidences(why)
    /\ UNCHANGED <<byLoop, starter, round, expired, retryTimer_, connector, connected_>>
-----------------------------------------------------------------------------
(* The loop *)

Channel(name, n) == [name |-> name, n |-> n]

Ready ==
    (IF expired THEN {Channel("timer", 0)} ELSE {})
    \union (IF client = "alive" /\ connector.at = "waiting" /\ sock[connector.n] \in {"refused", "up", "down"}
              THEN {Channel("connector", connector.n)} ELSE {})
    \union (IF cstate \in {"kConnected", "kDisconnecting"} /\ sock[connector.n] = "down"
              THEN {Channel("connection", connector.n)} ELSE {})

\* epoll_wait reports what is ready, in any order.
poll ==
    /\ round.at = "poll" /\ (Ready # {} \/ ctasks # <<>>)
    /\ \E order \in SetToSeqs(Ready) : round' = [round EXCEPT !.at = "events", !.active = order]
    /\ met' = IF {"timer", "connector"} \subseteq {c.name : c \in Ready} THEN met \union {"together"} ELSE met
    /\ UNCHANGED <<byLoop, starter, ctasks, expired, timerVars, connectorVars, connectionVars, client, fatal>>

\* The next active channel is handled.
handleEvents ==
    /\ round.at = "events" /\ round.active # <<>>
    /\ \/ /\ Head(round.active).name = "timer"
          /\ expired' = FALSE
          /\ CASE timer = "set"   -> retry
               [] timer = "stale" -> Abort("freed timer") /\ UNCHANGED <<connectorVars>>
               [] OTHER           -> UNCHANGED <<connectorVars, fatal>>
          /\ round' = [round EXCEPT !.active = Tail(@)]
          /\ UNCHANGED <<ctasks, timerVars, connectionVars, met>>
       \/ /\ Head(round.active).name = "connector"
          /\ IF client = "alive" /\ Head(round.active).n = connector.n THEN handleWrite
             ELSE /\ Abort("freed connector")
                  /\ UNCHANGED <<round, timerVars, connector, connectionVars, met>>
          /\ UNCHANGED <<ctasks, expired, sock>>
       \/ /\ Head(round.active).name = "connection"
          /\ closeConnection
          /\ round' = [round EXCEPT !.active = Tail(@)]
          /\ UNCHANGED <<expired, timerVars, connectorVars, connected_, met>>
    /\ UNCHANGED <<byLoop, starter, client>>

\* The queue is swapped with an empty one.
doPendingTasks ==
    /\ round.at = "events" /\ round.active = <<>>
    /\ round' = [at |-> IF ctasks = <<>> THEN "poll" ELSE "tasks", active |-> <<>>, batch |-> ctasks]
    /\ ctasks' = <<>>
    /\ UNCHANGED <<byLoop, starter, expired, timerVars, connectorVars, connectionVars, client, fatal, met>>

runTask ==
    /\ round.at = "tasks"
    /\ LET task == Head(round.batch) IN
       \/ /\ task = "connect"
          /\ IF client = "alive" THEN connectorStart(1, sock)
                                 ELSE Abort("freed client") /\ UNCHANGED <<connectorVars>>
          /\ UNCHANGED <<ctasks, timer, connection_, cstate>>
       \/ /\ task = "insert"
          /\ timer' = IF timer = "new" THEN "set" ELSE "stale"
          /\ UNCHANGED <<ctasks, connectorVars, connection_, cstate, fatal>>
       \/ /\ task = "forceClose" /\ cstate # "kDisconnected"
          /\ closeConnection
          /\ UNCHANGED <<timer, connectorVars>>
       \/ /\ task = "forceClose" /\ cstate = "kDisconnected"
          /\ UNCHANGED <<ctasks, timer, connectorVars, connection_, cstate, fatal>>
       \/ /\ task = "destroyed"
          /\ sock' = [sock EXCEPT ![connector.n] = "closed"] /\ cstate' = "none"
          /\ UNCHANGED <<ctasks, timer, connector, connection_, fatal>>
    /\ round' = [round EXCEPT !.at = IF Len(round.batch) = 1 THEN "poll" ELSE "tasks", !.batch = Tail(@)]
    /\ UNCHANGED <<byLoop, starter, expired, retryTimer_, connected_, client, met>>

\* Three seconds pass.
tick ==
    /\ timer \in {"set", "stale"} /\ ~expired
    /\ expired' = TRUE
    /\ UNCHANGED <<byLoop, starter, round, ctasks, timerVars, connectorVars, connectionVars, client, fatal, met>>

clientStep == start \/ startInLoop \/ poll \/ handleEvents \/ connectEstablished
              \/ doPendingTasks \/ runTask \/ tick
=============================================================================
