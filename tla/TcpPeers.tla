------------------------------ MODULE TcpPeers ------------------------------
(***************************************************************************)
(* A TcpServer, a TcpClient that connects to it, and raw peers, with the   *)
(* network between them: a connect is answered by the listen queue, before *)
(* the server accepts it, or refused, or not answered for a while.         *)
(***************************************************************************)
EXTENDS TcpServer, TcpClient

\* The client's sockets are among the peers of the server.
ASSUME PeersAssumption == 1..MaxConnectors \subseteq Peers

VARIABLE dialled        \* raw peers that have connected

vars == <<serverVars, clientVars, dialled>>

Raw == Peers \ (1..MaxConnectors)

Init == serverInit /\ clientInit /\ dialled = {}

-----------------------------------------------------------------------------
(* The network *)

SocketBecomes(n, status) ==
    /\ sock' = [sock EXCEPT ![n] = status]
    /\ UNCHANGED <<byLoop, starter, round, ctasks, expired, timerVars, connector, connectionVars, client, fatal, met>>

Enqueue(p) ==
    /\ backlog' = Append(backlog, p)
    /\ UNCHANGED <<numThreads_, listening_, acceptor, idleFd_, free, other, raced, next_, connections_, conn, tasks>>

\* A connect is answered; it may be refused for another reason than that nobody
\* listens.
Answer(n) ==
    /\ sock[n] = "connecting"
    /\ \/ SocketBecomes(n, "refused") /\ UNCHANGED serverVars
       \/ listening_ /\ SocketBecomes(n, "up") /\ Enqueue(n)
    /\ UNCHANGED dialled

Dial ==
    /\ listening_
    /\ \E p \in Raw \ dialled : dialled' = dialled \union {p} /\ Enqueue(p)
    /\ UNCHANGED clientVars

Accepted(n) == n \notin ToSet(backlog) /\ acceptor # "close"

\* The client's socket learns that the server closed its end.
ServerGone(n) ==
    /\ sock[n] = "up" /\ Accepted(n) /\ conn[n].state \in {"none", "gone"}
    /\ SocketBecomes(n, "down")
    /\ UNCHANGED <<serverVars, dialled>>

-----------------------------------------------------------------------------
ClientLoop == clientStep /\ UNCHANGED <<serverVars, dialled>>
Destructor == destructor /\ UNCHANGED <<serverVars, dialled>>

ServerLoops ==
    /\ \/ serverStart \/ handleRead
       \/ \E l \in Loops : runServerTask(l)
       \/ \E n \in 1..MaxConnectors : sock[n] = "closed" /\ handleClose(n)
    /\ UNCHANGED <<clientVars, dialled>>

\* The server's program closes a connection, or a raw peer hangs up.
Closes ==
    /\ \E p \in Peers : handleClose(p)
    /\ UNCHANGED <<clientVars, dialled>>

Others == OtherDescriptors /\ UNCHANGED <<clientVars, dialled>>

Next ==
    /\ fatal = "none"
    /\ \/ ClientLoop \/ Destructor \/ ServerLoops \/ Closes \/ Others \/ Dial
       \/ \E n \in 1..MaxConnectors : Answer(n) \/ ServerGone(n)

\* The loops run what is ready, start() goes on, time passes and the network
\* answers.  Nobody has to close, to dial or to destroy the client.
Spec ==
    /\ Init /\ [][Next]_vars
    /\ WF_vars(fatal = "none" /\ ClientLoop) /\ WF_vars(fatal = "none" /\ ServerLoops)
    /\ WF_vars(fatal = "none" /\ \E n \in 1..MaxConnectors : Answer(n) \/ ServerGone(n))

-----------------------------------------------------------------------------
(* Properties *)

\* The client uses a deleted Timer or Connector, or itself after its end, only
\* in the coincidences that nothing in the code looks after: its first connection
\* comes before start() is done in another thread (TcpClient.cpp:40, 63); a retry
\* comes in one round with the outcome of the connect it gives up
\* (TcpClient.cpp:55); it is destroyed with a connection or with its connect
\* still queued (TcpClient.cpp:27-28, 36), in a callback of the round that has
\* reported its Connector, in its own connectionCallback_ (TcpClient.cpp:74,
\* Channel.cpp:21), or by a timer that runs ahead of its retry timer in one batch
\* (TimerQueue.cpp:104).
ClientIsSafe ==
    /\ fatal = "null timer" => "early" \in met /\ ~byLoop
    /\ fatal = "freed timer" => ("early" \in met /\ ~byLoop) \/ "batch" \in met
    /\ fatal = "freed connector" => "together" \in met \/ "reported" \in met
    /\ fatal = "handling channel" => "callback" \in met
    /\ fatal = "freed client" => "held" \in met

Open == {"new", "connecting", "refused", "up", "down"}

\* Every open socket of the client belongs to its Connector or its connection
\* and to one of them only; every descriptor of the server to a connection,
\* idleFd_ or the one being dropped, and a connection to connections_ or to the
\* task that destroys it (Connector.cpp:33-37, TcpClient.cpp:49-58,
\* Acceptor.cpp:99-103, TcpServer.cpp:73-78).
DescriptorsOwned ==
    /\ fatal = "none" => \A n \in 1..MaxConnectors :
         sock[n] \in Open <=> /\ n = connector.n
                              /\ IF connector.at = "connected" THEN cstate # "none" ELSE client = "alive"
    /\ LET live == {p \in Peers : conn[p].state \notin {"none", "gone"}} IN
       /\ free + Cardinality(live) + other + (IF idleFd_ THEN 1 ELSE 0)
               + (IF acceptor = "close" THEN 1 ELSE 0) = Descriptors
       /\ connections_ \subseteq live
       /\ \A p \in live :
            /\ p \notin connections_ => <<"destroyed", p>> \in ToSet(tasks[0])
            /\ p \in connections_ =>
                 (conn[p].state = "kDisconnected" <=> <<"close", p>> \in ToSet(tasks[0]))

\* A client that has been started goes on trying: it connects in the end, or has
\* given up every attempt that the bound allows, refused or without an answer for
\* three seconds, unless it is destroyed or one of the coincidences ends it
\* (TcpClient.cpp:49-58).
ClientConnects ==
    starter = "done" ~> connected_ \/ client = "destroyed" \/ fatal # "none"

\* The listen queue is emptied: with no descriptor left a peer is accepted with
\* that of idleFd_ and dropped, unless another thread once took the descriptor
\* that handleRead had freed (Acceptor.cpp:99-103).
BacklogDrains ==
    backlog # <<>> ~> backlog = <<>> \/ raced \/ fatal # "none"
=============================================================================
