--------------------------- MODULE TcpPeersProofs ---------------------------
(***************************************************************************)
(* Theorems about TcpPeers, for any number of attempts to connect, peers,  *)
(* threads and descriptors: no descriptor of the server or of the client   *)
(* is lost or owned twice, and the client touches freed memory only in the *)
(* coincidences that nothing in the code looks after.                      *)
(***************************************************************************)
EXTENDS TcpPeers, FiniteSetTheorems, SequenceTheorems, TLAPS

(* The inductive invariant of the server *)

Task == {"established", "close", "destroyed"} \X Peers

ServerTypes ==
    /\ numThreads_ \in 0..MaxThreads /\ next_ \in Nat
    /\ numThreads_ > 0 => next_ < numThreads_
    /\ listening_ \in BOOLEAN /\ idleFd_ \in BOOLEAN
    /\ backlog \in Seq(Peers)
    /\ acceptor \in {"poll", "accept", "close", "open"}
    /\ free \in Nat /\ other \in 0..MaxOther
    /\ connections_ \subseteq Peers
    /\ conn \in [Peers -> [state : {"none", "kConnecting", "kConnected", "kDisconnected", "gone"}, loop : Loops]]
    /\ tasks \in [Loops -> Seq(Task)]

Live == {p \in Peers : conn[p].state \notin {"none", "gone"}}

\* Every descriptor is counted once.
CountInv ==
    /\ IsFiniteSet(Live)
    /\ free + Cardinality(Live) + other + (IF idleFd_ THEN 1 ELSE 0)
            + (IF acceptor = "close" THEN 1 ELSE 0) = Descriptors
    /\ acceptor # "poll" => ~idleFd_

Distinct(q) == \A i, j \in DOMAIN q : q[i] = q[j] => i = j

\* A peer waits once, and before it has a connection.
BacklogInv ==
    /\ Distinct(backlog)
    /\ \A p \in ToSet(backlog) : conn[p].state = "none"

\* The task t in the queue of the loop l fits the state and the owner of its
\* connection.
Fits(l, t) ==
    LET p == t[2] IN
    \/ t[1] = "established" /\ conn[p].state = "kConnecting" /\ conn[p].loop = l /\ p \in connections_
    \/ t[1] = "close" /\ l = 0 /\ conn[p].state = "kDisconnected" /\ p \in connections_
    \/ t[1] = "destroyed" /\ l = 0 /\ conn[p].state = "kDisconnected" /\ p \notin connections_

\* No task is queued twice, and a connection that is closed has the task that
\* goes on with its end.
TasksInv ==
    /\ connections_ \subseteq Live
    /\ \A l \in Loops : Distinct(tasks[l]) /\ \A t \in ToSet(tasks[l]) : Fits(l, t)
    /\ \A p \in Live :
         /\ p \notin connections_ => <<"destroyed", p>> \in ToSet(tasks[0])
         /\ p \in connections_ /\ conn[p].state = "kDisconnected" => <<"close", p>> \in ToSet(tasks[0])

ServerInv == ServerTypes /\ CountInv /\ BacklogInv /\ TasksInv

-----------------------------------------------------------------------------
(* The inductive invariant of the client *)

ClientTask == {"connect", "insert", "forceClose", "destroyed"}

ActiveChannel == [name : {"timer", "connector", "connection"}, n : Nat]

LoopTypes ==
    /\ byLoop \in BOOLEAN /\ starter \in {"before", "line 36", "line 40", "done"}
    /\ round \in [at : {"poll", "events", "establishing", "tasks"}, active : Seq(ActiveChannel),
                  batch : Seq(ClientTask)]
    /\ ctasks \in Seq(ClientTask)
    /\ expired \in BOOLEAN

StateTypes ==
    /\ timer \in {"none", "new", "set", "freed", "stale"} /\ retryTimer_ \in {"null", "timer"}
    /\ connector \in [n : 1..MaxConnectors, at : {"idle", "waiting", "failed", "connected"}]
    /\ sock \in [1..MaxConnectors -> {"none"} \cup Open \cup {"closed"}]
    /\ connected_ \in BOOLEAN /\ connection_ \in 0..MaxConnectors
    /\ cstate \in {"none", "kConnecting", "kConnected", "kDisconnecting", "kDisconnected"}
    /\ client \in {"alive", "destroyed"}

ClientTypes == LoopTypes /\ StateTypes

\* The tasks of the loop, in the order they will run, and as a set.
Queue == round.batch \o ctasks

Waiting == ToSet(Queue)

\* In the queue q no x comes before a y.
Never(q, x, y) == \A i, j \in DOMAIN q : i < j => ~(q[i] = x /\ q[j] = y)

\* The tasks of start() and the last one of a connection wait at most once, and
\* the connect comes before the timer is added.
InOrder(q) ==
    /\ Never(q, "connect", "connect") /\ Never(q, "insert", "insert") /\ Never(q, "destroyed", "destroyed")
    /\ Never(q, "insert", "connect")

Ordered == InOrder(Queue)

\* The channels of the round that are still to be handled.
Reported == ToSet(round.active)

\* The loop's rounds.
RoundInv ==
    /\ round.at \in {"poll", "tasks"} => round.active = <<>>
    /\ round.batch # <<>> <=> round.at = "tasks"
    /\ round.at = "establishing" <=> cstate = "kConnecting"

\* start(): its line, what it has queued and assigned.
StartInv ==
    /\ byLoop => starter \in {"before", "done"} /\ "connect" \notin Waiting /\ "insert" \notin Waiting
    /\ starter \in {"before", "line 36"} <=> timer = "none"
    /\ starter \in {"before", "line 36"} => "insert" \notin Waiting
    /\ starter # "done" => retryTimer_ = "null" /\ client = "alive" /\ ~connected_
    /\ starter = "before" => "connect" \notin Waiting

\* The timer: it is in retryTimer_ until the first connection or the end of the
\* client deletes it, and touched after that only if start() was under way.
TimerInv ==
    /\ starter = "done" /\ ~connected_ => retryTimer_ = "timer"
    /\ starter = "done" /\ client = "alive" => (retryTimer_ = "timer" <=> timer \in {"new", "set"})
    /\ client = "alive" /\ ~connected_ => timer \in {"none", "new", "set"}
    /\ connected_ => timer \in {"freed", "stale"} /\ retryTimer_ = "null"
    /\ client = "destroyed" => timer \in {"freed", "stale"}
    /\ timer = "stale" => "early" \in met /\ ~byLoop
    /\ "insert" \in Waiting => timer \in {"new", "freed"} /\ (timer = "freed" => "early" \in met)

\* The Connector that start() has not reached, or whose connect waits.
IdleInv ==
    /\ connector.at = "idle" <=> starter = "before" \/ "connect" \in Waiting
    /\ connector.at = "idle" =>
         /\ connector.n = 1 /\ timer # "set"
         /\ sock[1] = (IF client = "alive" THEN "new" ELSE "closed")
         /\ client = "destroyed" => "held" \in met

\* The last tasks of the connection.
LastInv ==
    /\ "forceClose" \in Waiting => client = "destroyed" /\ "held" \in met
    /\ "destroyed" \in Waiting => cstate = "kDisconnected"

\* The channel c that is reported: what was ready still is, or a retry of the
\* same round has replaced the Connector, or the client is gone with it.
StillReady(c) ==
    /\ c.name = "timer" => expired
    /\ c.name = "connector" =>
         /\ \/ /\ client = "alive" /\ c.n = connector.n /\ connector.at = "waiting"
               /\ sock[c.n] \in {"refused", "up", "down"}
            \/ c.n < connector.n /\ "together" \in met
            \/ client = "destroyed" /\ "reported" \in met
         /\ client = "alive" => "together" \in met \/ \A d \in Reported : d.name # "timer"
    /\ c.name = "connection" => cstate \in {"kConnected", "kDisconnecting"}

ActiveInv ==
    /\ Distinct(round.active)
    /\ \A c, d \in Reported : c.name = d.name => c = d
    /\ \A c \in Reported : StillReady(c)

\* The attempts: the sockets behind the current one are not open yet.
ConnectorInv ==
    /\ \A n \in 1..MaxConnectors : n > connector.n => sock[n] = "none"
    /\ connected_ <=> connector.at = "connected"

\* The sockets that are open are owned.
SocketInv ==
    \A n \in 1..MaxConnectors :
      sock[n] \in Open <=> /\ n = connector.n
                           /\ IF connector.at = "connected" THEN cstate # "none" ELSE client = "alive"

\* The connection and its state.
ConnectionInv ==
    /\ ~connected_ => cstate = "none"
    /\ connection_ # 0 <=> client = "alive" /\ cstate \in {"kConnecting", "kConnected"}
    /\ cstate = "kDisconnecting" => client = "destroyed"
    /\ client = "destroyed" /\ cstate \notin {"none", "kDisconnected"} => "held" \in met

ClientInv ==
    /\ ClientTypes /\ RoundInv /\ Ordered /\ StartInv /\ TimerInv /\ IdleInv /\ LastInv
    /\ ActiveInv /\ ConnectorInv /\ SocketInv /\ ConnectionInv

\* A socket of the client, or a raw peer, that has not connected is unknown to
\* the server.
Unknown(p) == conn[p].state = "none" /\ p \notin ToSet(backlog)

LinkInv ==
    /\ dialled \subseteq Raw
    /\ \A n \in 1..MaxConnectors : sock[n] \in {"none", "new", "connecting", "refused"} => Unknown(n)
    /\ \A p \in Raw \ dialled : Unknown(p)

PeersInv ==
    /\ ServerInv /\ ClientIsSafe
    /\ fatal = "none" => ClientInv /\ LinkInv

-----------------------------------------------------------------------------
(* Queues *)

\* A queue without its first element.
LEMMA QueueTail ==
  ASSUME NEW S, NEW q \in Seq(S), q # <<>>
  PROVE  /\ Tail(q) \in Seq(S) /\ Head(q) \in S /\ Head(q) \in ToSet(q)
         /\ Distinct(q) => Distinct(Tail(q)) /\ ToSet(Tail(q)) = ToSet(q) \ {Head(q)}
<1>1. /\ Tail(q) \in Seq(S) /\ Head(q) \in S /\ Len(Tail(q)) = Len(q) - 1
      /\ \A i \in 1..Len(Tail(q)) : Tail(q)[i] = q[i + 1]
      BY HeadTailProperties
<1>2. /\ Len(q) \in Nat \ {0} /\ DOMAIN q = 1..Len(q)
      /\ DOMAIN Tail(q) = 1..Len(Tail(q)) /\ Head(q) = q[1]
      BY <1>1, EmptySeq, LenProperties
<1>3. PICK r, n : r = Tail(q) /\ n = Len(q) OBVIOUS
<1>4. /\ n \in Nat \ {0} /\ DOMAIN q = 1..n /\ DOMAIN r = 1..(n - 1)
      /\ \A i \in 1..(n - 1) : r[i] = q[i + 1]
      BY <1>1, <1>2, <1>3
<1>5. \A i \in 1..(n - 1) : i + 1 \in 1..n /\ i + 1 # 1 BY <1>4
<1>6. \A j \in 1..n : j = 1 \/ (j - 1 \in 1..(n - 1) /\ j - 1 + 1 = j) BY <1>4
<1>7. ASSUME Distinct(q) PROVE Distinct(r) /\ ToSet(r) = ToSet(q) \ {q[1]}
  <2>1. Distinct(r)
    <3> SUFFICES ASSUME NEW i \in 1..(n - 1), NEW j \in 1..(n - 1), r[i] = r[j] PROVE i = j
        BY <1>4 DEF Distinct
    <3>1. q[i + 1] = q[j + 1] BY <1>4
    <3>2. i + 1 = j + 1 BY <3>1, <1>4, <1>5, <1>7 DEF Distinct
    <3> QED BY <3>2, <1>4
  <2>2. \A x \in ToSet(r) : x \in ToSet(q) /\ x # q[1]
    <3> SUFFICES ASSUME NEW i \in 1..(n - 1) PROVE r[i] \in ToSet(q) /\ r[i] # q[1]
        BY <1>4 DEF ToSet
    <3>1. 1 \in 1..n BY <1>4
    <3> QED BY <1>4, <1>5, <1>7, <3>1 DEF ToSet, Distinct
  <2>3. \A x \in ToSet(q) : x # q[1] => x \in ToSet(r)
    <3>a. SUFFICES ASSUME NEW j \in 1..n, q[j] # q[1] PROVE q[j] \in ToSet(r)
        BY <1>4 DEF ToSet
    <3>1. j - 1 \in 1..(n - 1) /\ j - 1 + 1 = j BY <1>6, <3>a
    <3>2. r[j - 1] = q[j] BY <1>4, <3>1
    <3> QED BY <1>4, <3>1, <3>2 DEF ToSet
  <2> QED BY <2>1, <2>2, <2>3
<1>8. 1 \in DOMAIN q BY <1>4
<1> QED BY <1>1, <1>2, <1>3, <1>7, <1>8 DEF ToSet

\* A queue with another element.
LEMMA QueueAppend ==
  ASSUME NEW S, NEW q \in Seq(S), NEW x \in S
  PROVE  /\ Append(q, x) \in Seq(S) /\ ToSet(Append(q, x)) = ToSet(q) \cup {x}
         /\ Distinct(q) /\ x \notin ToSet(q) => Distinct(Append(q, x))
<1>1. PICK r, n : r = Append(q, x) /\ n = Len(q) OBVIOUS
<1>2. /\ r \in Seq(S) /\ Len(r) = n + 1 /\ r[n + 1] = x /\ \A i \in 1..n : r[i] = q[i]
      BY <1>1, AppendProperties
<1>3. n \in Nat /\ DOMAIN q = 1..n /\ DOMAIN r = 1..(n + 1) BY <1>1, <1>2, LenProperties
<1>4. \A i \in 1..(n + 1) : i \in 1..n \/ i = n + 1 BY <1>3
<1>5. 1..n \subseteq 1..(n + 1) /\ n + 1 \in 1..(n + 1) BY <1>3
<1>6. ToSet(r) = ToSet(q) \cup {x}
  <2>1. \A y \in ToSet(r) : y \in ToSet(q) \/ y = x BY <1>2, <1>3, <1>4 DEF ToSet
  <2>2. \A y \in ToSet(q) : y \in ToSet(r) BY <1>2, <1>3, <1>5 DEF ToSet
  <2>3. x \in ToSet(r) BY <1>2, <1>3, <1>5 DEF ToSet
  <2> QED BY <2>1, <2>2, <2>3
<1>7. ASSUME Distinct(q), x \notin ToSet(q) PROVE Distinct(r)
  <2>1. \A i \in 1..n : q[i] # x BY <1>3, <1>7 DEF ToSet
  <2> QED BY <1>2, <1>3, <1>4, <1>7, <2>1 DEF Distinct
<1> QED BY <1>1, <1>2, <1>6, <1>7

-----------------------------------------------------------------------------
(* The steps of the server *)

\* Peers do not become known to the server but by their connecting.
NoneAppears == \A p : Unknown(p) => Unknown(p)'

\* The queue of the listening socket loses its first peer or nothing.
LEMMA BacklogShrinks ==
  ASSUME ServerInv, backlog # <<>>, backlog' = Tail(backlog)
  PROVE  /\ Head(backlog) \in Peers /\ conn[Head(backlog)].state = "none"
         /\ backlog' \in Seq(Peers) /\ Distinct(backlog)' /\ ToSet(backlog)' = ToSet(backlog) \ {Head(backlog)}
<1>1. backlog \in Seq(Peers) /\ BacklogInv BY DEF ServerInv, ServerTypes
<1>2. /\ Tail(backlog) \in Seq(Peers) /\ Head(backlog) \in Peers /\ Head(backlog) \in ToSet(backlog)
      /\ Distinct(Tail(backlog)) /\ ToSet(Tail(backlog)) = ToSet(backlog) \ {Head(backlog)}
      BY <1>1, QueueTail DEF BacklogInv
<1>3. Distinct(backlog)' /\ ToSet(backlog)' = ToSet(Tail(backlog)) BY <1>2 DEF Distinct, ToSet
<1> QED BY <1>1, <1>2, <1>3 DEF BacklogInv

\* Listening, and Acceptor::handleRead at the limit of descriptors: what is
\* given up is counted where it goes.
LEMMA AcceptorStep ==
  ASSUME ServerInv,
         \/ serverStart \/ closeIdle \/ acceptIdle \/ closeAccepted \/ reopenIdle
         \/ OtherDescriptors
  PROVE  ServerInv' /\ NoneAppears
<1>1. ServerTypes /\ CountInv /\ BacklogInv /\ TasksInv BY DEF ServerInv
<1>2. UNCHANGED <<numThreads_, next_, connections_, conn, tasks>>
      BY DEF serverStart, closeIdle, acceptIdle, closeAccepted, reopenIdle, OtherDescriptors
<1>3. Live' = Live /\ TasksInv'
  <2>1. Live' = Live BY <1>2 DEF Live
  <2> QED BY <1>1, <1>2, <2>1 DEF TasksInv, Fits
<1>4. /\ backlog' \in Seq(Peers) /\ Distinct(backlog)' /\ ToSet(backlog') \subseteq ToSet(backlog)
  <2>1. CASE UNCHANGED backlog BY <1>1, <2>1 DEF ServerTypes, BacklogInv, Distinct
  <2>2. CASE backlog' = Tail(backlog) /\ backlog # <<>>
    <3>1. /\ backlog' \in Seq(Peers) /\ Distinct(backlog)'
          /\ ToSet(backlog)' = ToSet(backlog) \ {Head(backlog)}
          BY <2>2, BacklogShrinks
    <3> QED BY <3>1
  <2>3. CASE backlog' = Tail(backlog) /\ backlog = <<>>
    <3>1. Tail(<<>>) = <<>> OBVIOUS
    <3> QED BY <1>1, <2>3, <3>1 DEF ServerTypes, BacklogInv, Distinct
  <2> QED BY <2>1, <2>2, <2>3
      DEF serverStart, closeIdle, acceptIdle, closeAccepted, reopenIdle, OtherDescriptors
<1>5. BacklogInv' BY <1>1, <1>2, <1>4 DEF BacklogInv
<1>6. NoneAppears BY <1>2, <1>4 DEF NoneAppears, Unknown
<1>7. Cardinality(Live) \in Nat BY <1>1, FS_CardinalityType DEF CountInv
<1>8. /\ free \in Nat /\ other \in Int /\ other >= 0 /\ other <= MaxOther /\ MaxOther \in Nat
      /\ Descriptors \in Nat /\ idleFd_ \in BOOLEAN /\ listening_ \in BOOLEAN
      /\ acceptor \in {"poll", "accept", "close", "open"}
      BY <1>1, DescriptorsAssumption DEF ServerTypes
<1>9. PICK lives : lives = Cardinality(Live) OBVIOUS
<1>10. /\ lives \in Nat
       /\ free + lives + other + (IF idleFd_ THEN 1 ELSE 0) + (IF acceptor = "close" THEN 1 ELSE 0) = Descriptors
       /\ acceptor # "poll" => ~idleFd_
       BY <1>1, <1>7, <1>9 DEF CountInv
<1>11. /\ free' \in Nat /\ other' \in Int /\ other' >= 0 /\ other' <= MaxOther
       /\ idleFd_' \in BOOLEAN /\ listening_' \in BOOLEAN
       /\ acceptor' \in {"poll", "accept", "close", "open"}
       /\ free' + lives + other' + (IF idleFd_' THEN 1 ELSE 0) + (IF acceptor' = "close" THEN 1 ELSE 0) = Descriptors
       /\ acceptor' # "poll" => ~idleFd_'
  <2>1. CASE serverStart BY <1>8, <1>10, <2>1 DEF serverStart
  <2>2. CASE closeIdle
    <3>1. /\ acceptor = "poll" /\ acceptor' = "accept" /\ idleFd_' = FALSE /\ UNCHANGED <<listening_, other>>
          /\ (idleFd_ /\ free' = free + 1) \/ (~idleFd_ /\ free' = free)
          BY <2>2 DEF closeIdle
    <3>2. free + lives + other + (IF idleFd_ THEN 1 ELSE 0) = Descriptors BY <1>8, <1>10, <3>1
    <3>3. free' \in Nat /\ free' + lives + other = Descriptors
      <4>1. CASE idleFd_ /\ free' = free + 1
        <5>1. free + lives + other + 1 = Descriptors BY <3>2, <4>1
        <5> QED BY <1>8, <1>10, <4>1, <5>1
      <4>2. CASE ~idleFd_ /\ free' = free
        <5>1. free + lives + other + 0 = Descriptors BY <3>2, <4>2
        <5> QED BY <1>8, <1>10, <4>2, <5>1
      <4> QED BY <3>1, <4>1, <4>2
    <3>4. ~idleFd_' /\ idleFd_' \in BOOLEAN BY <3>1
    <3>5. acceptor' = "accept" /\ listening_' \in BOOLEAN BY <1>8, <3>1
    <3>6. other' = other BY <3>1
    <3>7. (IF idleFd_' THEN 1 ELSE 0) = 0 /\ (IF acceptor' = "close" THEN 1 ELSE 0) = 0 BY <3>4, <3>5
    <3>8. lives \in Nat BY <1>10
    <3>9. free' + lives + other' + 0 + 0 = Descriptors
      <4>1. free' \in Int /\ lives \in Int /\ other' \in Int BY <1>8, <3>3, <3>6, <3>8
      <4>2. free' + lives + other' = Descriptors BY <3>3, <3>6
      <4>3. \A a, b, c \in Int : a + b + c + 0 + 0 = a + b + c OBVIOUS
      <4> QED BY <4>1, <4>2, <4>3
    <3>10. acceptor' # "poll" => ~idleFd_' BY <3>4
    <3> QED BY <1>8, <3>3, <3>4, <3>5, <3>6, <3>7, <3>9, <3>10
  <2>3. CASE acceptIdle
    <3>1. acceptor = "accept" /\ UNCHANGED <<listening_, idleFd_, other>> BY <2>3 DEF acceptIdle
    <3>2. \/ free > 0 /\ acceptor' = "close" /\ free' = free - 1
          \/ acceptor' = "open" /\ free' = free
          BY <2>3 DEF acceptIdle
    <3> QED BY <1>8, <1>10, <3>1, <3>2
  <2>4. CASE closeAccepted BY <1>8, <1>10, <2>4 DEF closeAccepted
  <2>5. CASE reopenIdle
    <3>1. /\ acceptor = "open" /\ acceptor' = "poll" /\ UNCHANGED <<listening_, other>>
          BY <2>5 DEF reopenIdle
    <3>2. ~idleFd_ /\ free + lives + other = Descriptors BY <1>8, <1>10, <3>1
    <3>3. CASE free > 0
      <4>1. idleFd_' = TRUE /\ free' = free - 1 BY <2>5, <3>3 DEF reopenIdle
      <4> QED BY <1>8, <1>10, <3>1, <3>2, <3>3, <4>1
    <3>4. CASE ~(free > 0)
      <4>1. free' = free BY <2>5, <3>4 DEF reopenIdle
      <4>2. idleFd_' = (free > 0) BY <2>5 DEF reopenIdle
      <4>a. (free > 0) = FALSE BY <1>8, <3>4
      <4>b. idleFd_' = FALSE BY <4>2, <4>a, Zenon
      <4>3. ~idleFd_' /\ idleFd_' \in BOOLEAN BY <4>b
      <4>4. (IF idleFd_' THEN 1 ELSE 0) = 0 /\ (IF acceptor' = "close" THEN 1 ELSE 0) = 0 BY <3>1, <4>3
      <4>5. free' + lives + other' + 0 + 0 = Descriptors BY <1>8, <1>10, <3>1, <3>2, <4>1
      <4> QED BY <1>8, <3>1, <4>1, <4>3, <4>4, <4>5
    <3> QED BY <3>3, <3>4
  <2>6. CASE OtherDescriptors
    <3>1. UNCHANGED <<listening_, idleFd_, acceptor>> BY <2>6 DEF OtherDescriptors
    <3>2. \/ other < MaxOther /\ free > 0 /\ other' = other + 1 /\ free' = free - 1
          \/ other > 0 /\ other' = other - 1 /\ free' = free + 1
          BY <2>6 DEF OtherDescriptors
    <3> QED BY <1>8, <1>10, <3>1, <3>2
  <2> QED BY <2>1, <2>2, <2>3, <2>4, <2>5, <2>6
<1>12. CountInv' BY <1>1, <1>3, <1>9, <1>11 DEF CountInv
<1>13. other' \in 0..MaxOther BY <1>8, <1>11
<1>14. ServerTypes' BY <1>1, <1>2, <1>4, <1>11, <1>13 DEF ServerTypes
<1> QED BY <1>3, <1>5, <1>6, <1>12, <1>14 DEF ServerInv

\* A peer connects and waits to be accepted.
LEMMA EnqueueStep ==
  ASSUME ServerInv, NEW p \in Peers, Unknown(p), Enqueue(p)
  PROVE  ServerInv' /\ \A q : q # p /\ Unknown(q) => Unknown(q)'
<1>1. ServerTypes /\ CountInv /\ BacklogInv /\ TasksInv BY DEF ServerInv
<1>2. /\ backlog' = Append(backlog, p)
      /\ UNCHANGED <<numThreads_, listening_, acceptor, idleFd_, free, other, raced, next_, connections_, conn, tasks>>
      BY DEF Enqueue
<1>3. Live' = Live /\ TasksInv'
  <2>1. Live' = Live BY <1>2 DEF Live
  <2> QED BY <1>1, <1>2, <2>1 DEF TasksInv, Fits
<1>4. backlog \in Seq(Peers) /\ Distinct(backlog) /\ p \notin ToSet(backlog) /\ conn[p].state = "none"
      BY <1>1 DEF ServerTypes, BacklogInv, Unknown
<1>5. /\ backlog' \in Seq(Peers) /\ ToSet(backlog') = ToSet(backlog) \cup {p} /\ Distinct(backlog')
      BY <1>2, <1>4, QueueAppend
<1>6. BacklogInv'
  <2>1. ToSet(backlog)' = ToSet(backlog) \cup {p} /\ Distinct(backlog)' BY <1>5 DEF Distinct
  <2> QED BY <1>1, <1>2, <1>4, <2>1 DEF BacklogInv
<1>7. CountInv' BY <1>1, <1>2, <1>3 DEF CountInv
<1>8. ServerTypes' BY <1>1, <1>2, <1>5 DEF ServerTypes
<1>9. \A q : q # p /\ Unknown(q) => Unknown(q)' BY <1>2, <1>5 DEF Unknown
<1> QED BY <1>3, <1>6, <1>7, <1>8, <1>9 DEF ServerInv

\* TcpServer::newConnection: a connection takes a free descriptor, an owner
\* and, in a loop of the pool, its first task.
LEMMA AcceptStep ==
  ASSUME ServerInv, accept
  PROVE  ServerInv' /\ NoneAppears
<1>1. ServerTypes /\ CountInv /\ BacklogInv /\ TasksInv BY DEF ServerInv
<1>2. PICK p : p = Head(backlog) OBVIOUS
<1>3. /\ acceptor = "poll" /\ free > 0 /\ free' = free - 1 /\ backlog # <<>> /\ backlog' = Tail(backlog)
      /\ connections_' = connections_ \cup {p}
      /\ next_' = (IF numThreads_ = 0 THEN next_ ELSE (next_ + 1) % numThreads_)
      /\ UNCHANGED <<numThreads_, listening_, acceptor, idleFd_, other>>
      BY <1>2 DEF accept, serverConnection
<1>4. /\ p \in Peers /\ conn[p].state = "none"
      /\ backlog' \in Seq(Peers) /\ Distinct(backlog)' /\ ToSet(backlog)' = ToSet(backlog) \ {p}
      BY <1>2, <1>3, BacklogShrinks
<1>5. PICK loop : loop = getNextLoop OBVIOUS
<1>6. loop \in Loops
  <2>1. numThreads_ \in Int /\ numThreads_ >= 0 /\ numThreads_ <= MaxThreads /\ MaxThreads \in Nat
        /\ next_ \in Nat /\ (numThreads_ > 0 => next_ < numThreads_)
        BY <1>1, DescriptorsAssumption DEF ServerTypes
  <2> QED BY <1>5, <2>1 DEF getNextLoop, Loops
<1>7. next_' \in Nat /\ (numThreads_ > 0 => next_' < numThreads_)
  <2>1. numThreads_ \in Nat /\ next_ \in Nat /\ (numThreads_ > 0 => next_ < numThreads_)
        BY <1>1, DescriptorsAssumption DEF ServerTypes
  <2>2. CASE numThreads_ = 0 BY <1>3, <2>1, <2>2
  <2>3. CASE numThreads_ # 0
    <3>1. next_' = (next_ + 1) % numThreads_ BY <1>3, <2>3
    <3>2. numThreads_ \in Nat \ {0} /\ next_ + 1 \in Nat BY <2>1, <2>3
    <3> QED BY <3>1, <3>2
  <2> QED BY <2>2, <2>3
<1>8. PICK state : /\ state \in {"kConnecting", "kConnected"}
                   /\ conn' = [conn EXCEPT ![p] = [state |-> state, loop |-> loop]]
                   /\ state = "kConnected" => UNCHANGED tasks
                   /\ state = "kConnecting" => tasks' = [tasks EXCEPT ![loop] = Append(@, <<"established", p>>)]
  <2>1. CASE loop = 0
    <3>1. conn' = [conn EXCEPT ![p] = [state |-> "kConnected", loop |-> loop]] /\ UNCHANGED tasks
          BY <1>2, <1>5, <2>1 DEF accept, serverConnection
    <3> QED BY <3>1
  <2>2. CASE loop # 0
    <3>1. /\ conn' = [conn EXCEPT ![p] = [state |-> "kConnecting", loop |-> loop]]
          /\ tasks' = [tasks EXCEPT ![loop] = Append(@, <<"established", p>>)]
          BY <1>2, <1>5, <2>2 DEF accept, serverConnection
    <3> QED BY <3>1
  <2> QED BY <2>1, <2>2
<1>9. /\ conn'[p] = [state |-> state, loop |-> loop] /\ \A q \in Peers : q # p => conn'[q] = conn[q]
      /\ conn' \in [Peers -> [state : {"none", "kConnecting", "kConnected", "kDisconnected", "gone"}, loop : Loops]]
      BY <1>1, <1>4, <1>6, <1>8 DEF ServerTypes
<1>10. p \notin Live /\ Live' = Live \cup {p}
  <2>1. conn'[p].state \notin {"none", "gone"} BY <1>8, <1>9
  <2> QED BY <1>4, <1>9, <2>1 DEF Live
<1>11. \A l \in Loops : \A t \in ToSet(tasks[l]) : t[2] # p
       BY <1>1, <1>4 DEF TasksInv, Fits
<1>12. /\ tasks' \in [Loops -> Seq(Task)]
       /\ \A l \in Loops : Distinct(tasks[l])'
       /\ \A l \in Loops : \A t \in ToSet(tasks'[l]) :
            t \in ToSet(tasks[l]) \/ (state = "kConnecting" /\ l = loop /\ t = <<"established", p>>)
       /\ \A l \in Loops : ToSet(tasks[l]) \subseteq ToSet(tasks'[l])
  <2>1. CASE UNCHANGED tasks BY <1>1, <2>1 DEF ServerTypes, TasksInv, Distinct
  <2>2. CASE ~UNCHANGED tasks
    <3>1. state = "kConnecting" /\ tasks' = [tasks EXCEPT ![loop] = Append(@, <<"established", p>>)]
          BY <1>8, <2>2
    <3>2. PICK t : t = <<"established", p>> OBVIOUS
    <3>3. t \in Task /\ t[2] = p BY <1>4, <3>2 DEF Task
    <3>4. PICK q : q = tasks[loop] OBVIOUS
    <3>5. q \in Seq(Task) /\ Distinct(q) /\ t \notin ToSet(q) BY <1>1, <1>6, <1>11, <3>3, <3>4 DEF ServerTypes, TasksInv
    <3>6. Append(q, t) \in Seq(Task) /\ ToSet(Append(q, t)) = ToSet(q) \cup {t} /\ Distinct(Append(q, t))
          BY <3>3, <3>5, QueueAppend
    <3>7. tasks'[loop] = Append(q, t) /\ \A l \in Loops : l # loop => tasks'[l] = tasks[l]
          BY <1>1, <1>6, <3>1, <3>2, <3>4 DEF ServerTypes
    <3>8. tasks' \in [Loops -> Seq(Task)] BY <1>1, <1>6, <3>1, <3>2, <3>4, <3>6 DEF ServerTypes
    <3>9. \A l \in Loops : Distinct(tasks'[l]) BY <1>1, <3>6, <3>7 DEF TasksInv
    <3>10. \A l \in Loops : Distinct(tasks[l])' BY <3>9 DEF Distinct
    <3> QED BY <3>1, <3>2, <3>4, <3>6, <3>7, <3>8, <3>10
  <2> QED BY <2>1, <2>2
<1>13. ServerTypes'
  <2>1. free' \in Nat /\ connections_' \subseteq Peers BY <1>1, <1>3, <1>4 DEF ServerTypes
  <2> QED BY <1>1, <1>3, <1>4, <1>7, <1>9, <1>12, <2>1 DEF ServerTypes
<1>14. CountInv'
  <2>1. IsFiniteSet(Live) /\ Cardinality(Live) \in Nat BY <1>1, FS_CardinalityType DEF CountInv
  <2>2. IsFiniteSet(Live') /\ Cardinality(Live') = Cardinality(Live) + 1
        BY <1>10, <2>1, FS_AddElement
  <2>3. free \in Nat /\ other \in Int BY <1>1, DescriptorsAssumption DEF ServerTypes
  <2> QED BY <1>1, <1>3, <2>1, <2>2, <2>3 DEF CountInv
<1>15. BacklogInv'
  <2>1. \A q \in ToSet(backlog)' : q \in Peers /\ q # p /\ conn[q].state = "none"
    <3>1. ToSet(backlog) \subseteq Peers
      <4>1. backlog \in Seq(Peers) BY <1>1 DEF ServerTypes
      <4> QED BY <4>1, ElementOfSeq, LenProperties DEF ToSet
    <3> QED BY <1>1, <1>4, <3>1 DEF BacklogInv
  <2> QED BY <1>4, <1>9, <2>1 DEF BacklogInv
<1>16. TasksInv'
  <2>1. connections_' \subseteq Live' BY <1>1, <1>3, <1>10 DEF TasksInv
  <2>2. ASSUME NEW l \in Loops, NEW t \in ToSet(tasks'[l]) PROVE Fits(l, t)'
    <3>1. CASE t \in ToSet(tasks[l])
      <4>1. t[2] # p /\ Fits(l, t) BY <1>1, <1>11, <3>1 DEF TasksInv
      <4>2. t[2] \in Peers
        <5>1. tasks[l] \in Seq(Task) BY <1>1 DEF ServerTypes
        <5>2. t \in Task BY <3>1, <5>1, ElementOfSeq, LenProperties DEF ToSet
        <5> QED BY <5>2 DEF Task
      <4>3. conn'[t[2]] = conn[t[2]] BY <1>9, <4>1, <4>2
      <4> QED BY <1>3, <4>1, <4>3 DEF Fits
    <3>2. CASE state = "kConnecting" /\ l = loop /\ t = <<"established", p>>
      <4>1. t[1] = "established" /\ t[2] = p BY <3>2
      <4> QED BY <1>3, <1>9, <3>2, <4>1 DEF Fits
    <3> QED BY <1>12, <3>1, <3>2
  <2>3. 0 \in Loops BY DescriptorsAssumption DEF Loops
  <2>4. ASSUME NEW q \in Live'
        PROVE  /\ q \notin connections_' => <<"destroyed", q>> \in ToSet(tasks'[0])
               /\ q \in connections_' /\ conn'[q].state = "kDisconnected" => <<"close", q>> \in ToSet(tasks'[0])
    <3>1. CASE q = p BY <1>3, <1>8, <1>9, <3>1
    <3>2. CASE q # p
      <4>1. q \in Live /\ q \in Peers BY <1>10, <3>2 DEF Live
      <4> QED BY <1>1, <1>3, <1>9, <1>12, <2>3, <3>2, <4>1 DEF TasksInv
    <3> QED BY <3>1, <3>2
  <2>5. \A l \in Loops : ToSet(tasks[l])' = ToSet(tasks'[l]) BY DEF ToSet
  <2>6. ToSet(tasks[0])' = ToSet(tasks'[0]) BY DEF ToSet
  <2> QED BY <1>12, <2>1, <2>2, <2>4, <2>5, <2>6 DEF TasksInv
<1>17. NoneAppears
  <2> SUFFICES ASSUME NEW q, Unknown(q) PROVE Unknown(q)'
      BY DEF NoneAppears
  <2>1. q # p
    <3>1. p \in ToSet(backlog)
      <4>1. backlog \in Seq(Peers) BY <1>1 DEF ServerTypes
      <4> QED BY <1>2, <1>3, <4>1, QueueTail
    <3> QED BY <3>1 DEF Unknown
  <2>2. conn'[q] = conn[q]
    <3>1. conn' = [conn EXCEPT ![p] = [state |-> state, loop |-> loop]] BY <1>8
    <3> QED BY <2>1, <3>1
  <2>3. q \notin ToSet(backlog)' BY <1>4 DEF Unknown
  <2> QED BY <2>2, <2>3 DEF Unknown
<1> QED BY <1>13, <1>14, <1>15, <1>16, <1>17 DEF ServerInv

\* A connection is closed: in the base loop its end is queued, elsewhere its
\* owner is told.
LEMMA HandleCloseStep ==
  ASSUME ServerInv, NEW p \in Peers, handleClose(p)
  PROVE  ServerInv' /\ NoneAppears
<1>1. ServerTypes /\ CountInv /\ BacklogInv /\ TasksInv BY DEF ServerInv
<1>2. /\ conn[p].state = "kConnected" /\ conn' = [conn EXCEPT ![p].state = "kDisconnected"]
      /\ UNCHANGED <<numThreads_, listening_, backlog, acceptor, idleFd_, free, other, next_>>
      BY DEF handleClose
<1>3. PICK t : /\ t \in {<<"destroyed", p>>, <<"close", p>>}
               /\ tasks' = [tasks EXCEPT ![0] = Append(@, t)]
               /\ connections_' = (IF t[1] = "destroyed" THEN connections_ \ {p} ELSE connections_)
  <2>1. CASE conn[p].loop = 0
    <3>1. /\ tasks' = [tasks EXCEPT ![0] = Append(@, <<"destroyed", p>>)]
          /\ connections_' = connections_ \ {p}
          BY <2>1 DEF handleClose, closeConnectionInLoop
    <3>2. <<"destroyed", p>>[1] = "destroyed" OBVIOUS
    <3> QED BY <3>1, <3>2
  <2>2. CASE conn[p].loop # 0
    <3>1. /\ tasks' = [tasks EXCEPT ![0] = Append(@, <<"close", p>>)]
          /\ connections_' = connections_
          BY <2>2 DEF handleClose
    <3>2. <<"close", p>>[1] # "destroyed" OBVIOUS
    <3> QED BY <3>1, <3>2
  <2> QED BY <2>1, <2>2
<1>4. t \in Task /\ t[2] = p /\ t = <<t[1], p>> /\ t[1] \in {"destroyed", "close"} BY <1>3 DEF Task
<1>5. /\ conn'[p].state = "kDisconnected" /\ \A q \in Peers : q # p => conn'[q] = conn[q]
      /\ \A q : conn'[q].state = "none" <=> conn[q].state = "none"
      /\ conn' \in [Peers -> [state : {"none", "kConnecting", "kConnected", "kDisconnected", "gone"}, loop : Loops]]
  <2>1. conn \in [Peers -> [state : {"none", "kConnecting", "kConnected", "kDisconnected", "gone"}, loop : Loops]]
        BY <1>1 DEF ServerTypes
  <2>2. conn[p] \in [state : {"none", "kConnecting", "kConnected", "kDisconnected", "gone"}, loop : Loops] BY <2>1
  <2>3. conn' = [conn EXCEPT ![p] = [conn[p] EXCEPT !.state = "kDisconnected"]] BY <1>2
  <2>4. PICK c : c = [conn[p] EXCEPT !.state = "kDisconnected"] OBVIOUS
  <2>5. c.state = "kDisconnected" /\ c \in [state : {"none", "kConnecting", "kConnected", "kDisconnected", "gone"}, loop : Loops]
        BY <2>2, <2>4
  <2>6. conn'[p] = c /\ \A q : q # p => conn'[q] = conn[q] BY <2>1, <2>3, <2>4
  <2> QED BY <1>2, <2>1, <2>3, <2>4, <2>5, <2>6
<1>6. p \in Live /\ Live' = Live
  <2>1. conn[p].state \notin {"none", "gone"} /\ conn'[p].state \notin {"none", "gone"} BY <1>2, <1>5
  <2> QED BY <1>5, <2>1 DEF Live
<1>7. 0 \in Loops BY DescriptorsAssumption DEF Loops
<1>8. \A l \in Loops : \A u \in ToSet(tasks[l]) : u[2] # p
      BY <1>1, <1>2 DEF TasksInv, Fits
<1>9. p \in connections_
  <2>1. <<"destroyed", p>>[2] = p OBVIOUS
  <2>2. <<"destroyed", p>> \notin ToSet(tasks[0]) BY <1>7, <1>8, <2>1
  <2> QED BY <1>1, <1>6, <2>2 DEF TasksInv
<1>10. /\ tasks' \in [Loops -> Seq(Task)]
       /\ \A l \in Loops : Distinct(tasks[l])'
       /\ ToSet(tasks'[0]) = ToSet(tasks[0]) \cup {t}
       /\ \A l \in Loops : l # 0 => tasks'[l] = tasks[l]
  <2>1. PICK q : q = tasks[0] OBVIOUS
  <2>2. q \in Seq(Task) /\ Distinct(q) /\ t \notin ToSet(q)
        BY <1>1, <1>4, <1>7, <1>8, <2>1 DEF ServerTypes, TasksInv
  <2>3. Append(q, t) \in Seq(Task) /\ ToSet(Append(q, t)) = ToSet(q) \cup {t} /\ Distinct(Append(q, t))
        BY <1>4, <2>2, QueueAppend
  <2>4. tasks'[0] = Append(q, t) /\ \A l \in Loops : l # 0 => tasks'[l] = tasks[l]
        BY <1>1, <1>3, <1>7, <2>1 DEF ServerTypes
  <2>5. tasks' \in [Loops -> Seq(Task)] BY <1>1, <1>3, <1>7, <2>1, <2>3 DEF ServerTypes
  <2>6. \A l \in Loops : Distinct(tasks'[l]) BY <1>1, <2>3, <2>4 DEF TasksInv
  <2>7. \A l \in Loops : Distinct(tasks[l])' BY <2>6 DEF Distinct
  <2> QED BY <2>1, <2>3, <2>4, <2>5, <2>7
<1>11. \A q : q # p => (q \in connections_' <=> q \in connections_) BY <1>3
<1>12. ServerTypes'
  <2>1. connections_' \subseteq Peers BY <1>1, <1>3 DEF ServerTypes
  <2> QED BY <1>1, <1>2, <1>5, <1>10, <2>1 DEF ServerTypes
<1>13. CountInv' BY <1>1, <1>2, <1>6 DEF CountInv
<1>14. BacklogInv' /\ NoneAppears
  <2>1. ToSet(backlog)' = ToSet(backlog) /\ (Distinct(backlog)' <=> Distinct(backlog))
        BY <1>2 DEF ToSet, Distinct
  <2> QED BY <1>1, <1>2, <1>5, <2>1 DEF BacklogInv, NoneAppears, Unknown
<1>15. TasksInv'
  <2>1. connections_' \subseteq Live' BY <1>1, <1>3, <1>6 DEF TasksInv
  <2>2. ASSUME NEW l \in Loops, NEW u \in ToSet(tasks'[l]) PROVE Fits(l, u)'
    <3>1. CASE u \in ToSet(tasks[l])
      <4>1. u[2] # p /\ Fits(l, u) BY <1>1, <1>8, <3>1 DEF TasksInv
      <4>2. u[2] \in Peers
        <5>1. tasks[l] \in Seq(Task) BY <1>1 DEF ServerTypes
        <5>2. u \in Task BY <3>1, <5>1, ElementOfSeq, LenProperties DEF ToSet
        <5> QED BY <5>2 DEF Task
      <4>3. conn'[u[2]] = conn[u[2]] BY <1>5, <4>1, <4>2
      <4> QED BY <1>11, <4>1, <4>3 DEF Fits
    <3>2. CASE l = 0 /\ u = t
      <4>1. t[1] = "destroyed" => p \notin connections_' BY <1>3
      <4>2. t[1] = "close" => p \in connections_' BY <1>3, <1>9
      <4> QED BY <1>4, <1>5, <3>2, <4>1, <4>2 DEF Fits
    <3> QED BY <1>10, <3>1, <3>2
  <2>3. ASSUME NEW q \in Live'
        PROVE  /\ q \notin connections_' => <<"destroyed", q>> \in ToSet(tasks'[0])
               /\ q \in connections_' /\ conn'[q].state = "kDisconnected" => <<"close", q>> \in ToSet(tasks'[0])
    <3>1. CASE q = p
      <4>1. t[1] = "destroyed" => p \notin connections_' BY <1>3
      <4>2. t[1] = "close" => p \in connections_' BY <1>3, <1>9
      <4>3. t \in ToSet(tasks'[0]) BY <1>10
      <4> QED BY <1>4, <3>1, <4>1, <4>2, <4>3
    <3>2. CASE q # p
      <4>1. q \in Live /\ q \in Peers BY <1>6 DEF Live
      <4> QED BY <1>1, <1>5, <1>10, <1>11, <3>2, <4>1 DEF TasksInv
    <3> QED BY <3>1, <3>2
  <2>4. \A l \in Loops : ToSet(tasks[l])' = ToSet(tasks'[l]) BY DEF ToSet
  <2>5. ToSet(tasks[0])' = ToSet(tasks'[0]) BY DEF ToSet
  <2> QED BY <1>10, <2>1, <2>2, <2>3, <2>4, <2>5 DEF TasksInv
<1> QED BY <1>12, <1>13, <1>14, <1>15 DEF ServerInv

\* A task of a loop runs: a connection is established, closed by its owner, or
\* destroyed, which gives back its descriptor.
LEMMA ServerTaskStep ==
  ASSUME ServerInv, NEW l \in Loops, runServerTask(l)
  PROVE  ServerInv' /\ NoneAppears
<1>1. ServerTypes /\ CountInv /\ BacklogInv /\ TasksInv BY DEF ServerInv
<1>2. PICK q, t, p : q = tasks[l] /\ t = Head(q) /\ p = Head(tasks[l])[2] OBVIOUS
<1>3. q # <<>> /\ q \in Seq(Task) /\ Distinct(q) BY <1>1, <1>2 DEF runServerTask, ServerTypes, TasksInv
<1>4. /\ Tail(q) \in Seq(Task) /\ t \in Task /\ t \in ToSet(q)
      /\ Distinct(Tail(q)) /\ ToSet(Tail(q)) = ToSet(q) \ {t}
      BY <1>2, <1>3, QueueTail
<1>5. p = t[2] /\ p \in Peers /\ t = <<t[1], p>> BY <1>2, <1>4 DEF Task
<1>6. Fits(l, t) BY <1>1, <1>2, <1>4 DEF TasksInv
<1>7. 0 \in Loops BY DescriptorsAssumption DEF Loops
<1>8. PICK rest : rest = [tasks EXCEPT ![l] = Tail(@)] OBVIOUS
<1>9. /\ rest \in [Loops -> Seq(Task)] /\ rest[l] = Tail(q) /\ \A m \in Loops : m # l => rest[m] = tasks[m]
      /\ \A m \in Loops : Distinct(rest[m])
  <2>1. /\ rest \in [Loops -> Seq(Task)] /\ rest[l] = Tail(q) /\ \A m \in Loops : m # l => rest[m] = tasks[m]
        BY <1>1, <1>2, <1>4, <1>8 DEF ServerTypes
  <2> QED BY <1>1, <1>4, <2>1 DEF TasksInv
<1>10. ASSUME NEW m \in Loops, NEW u \in ToSet(rest[m])
       PROVE  u \in ToSet(tasks[m]) /\ u \in Task /\ Fits(m, u) /\ u[2] # p
  <2>1. u \in ToSet(tasks[m]) /\ (m = l => u # t) BY <1>2, <1>4, <1>9
  <2>2. Fits(m, u) BY <1>1, <2>1 DEF TasksInv
  <2>3. u \in Task
    <3>1. tasks[m] \in Seq(Task) BY <1>1 DEF ServerTypes
    <3> QED BY <2>1, <3>1, ElementOfSeq, LenProperties DEF ToSet
  <2>4. u[2] # p
    <3> SUFFICES ASSUME u[2] = p PROVE FALSE
        OBVIOUS
    <3>1. u[1] = t[1] /\ m = l BY <1>5, <1>6, <2>2 DEF Fits
    <3>2. u = <<u[1], u[2]>> BY <2>3 DEF Task
    <3> QED BY <1>5, <2>1, <3>1, <3>2
  <2> QED BY <2>1, <2>2, <2>3, <2>4
<1>11. \A u \in ToSet(tasks[0]) : u[2] # p => u \in ToSet(rest[0])
  <2> SUFFICES ASSUME NEW u \in ToSet(tasks[0]), u[2] # p PROVE u \in ToSet(rest[0])
      OBVIOUS
  <2>1. u # t BY <1>5
  <2> QED BY <1>2, <1>4, <1>7, <1>9, <2>1
<1>12. /\ UNCHANGED <<numThreads_, listening_, backlog, acceptor, idleFd_, other, next_>>
       /\ \/ /\ t[1] = "established" /\ conn' = [conn EXCEPT ![p].state = "kConnected"]
             /\ tasks' = rest /\ UNCHANGED <<connections_, free>>
          \/ /\ t[1] = "close" /\ connections_' = connections_ \ {p}
             /\ tasks' = [rest EXCEPT ![0] = Append(@, <<"destroyed", p>>)]
             /\ UNCHANGED <<conn, free>>
          \/ /\ t[1] = "destroyed" /\ tasks' = rest /\ UNCHANGED connections_
             /\ IF p \in connections_ THEN UNCHANGED <<conn, free>>
                ELSE conn' = [conn EXCEPT ![p].state = "gone"] /\ free' = free + 1
       BY <1>2, <1>8 DEF runServerTask, closeConnectionInLoop
<1>13. ASSUME NEW state \in {"kConnected", "gone"}, conn' = [conn EXCEPT ![p].state = state]
       PROVE  /\ conn'[p].state = state /\ \A r \in Peers : r # p => conn'[r] = conn[r]
              /\ \A r : conn[r].state = "none" => r # p /\ conn'[r].state = "none"
              /\ conn' \in [Peers -> [state : {"none", "kConnecting", "kConnected", "kDisconnected", "gone"}, loop : Loops]]
  <2>1. conn \in [Peers -> [state : {"none", "kConnecting", "kConnected", "kDisconnected", "gone"}, loop : Loops]]
        BY <1>1 DEF ServerTypes
  <2>2. conn[p] \in [state : {"none", "kConnecting", "kConnected", "kDisconnected", "gone"}, loop : Loops]
        BY <1>5, <2>1
  <2>3. PICK c : c = [conn[p] EXCEPT !.state = state] OBVIOUS
  <2>4. c.state = state /\ c \in [state : {"none", "kConnecting", "kConnected", "kDisconnected", "gone"}, loop : Loops]
        BY <2>2, <2>3
  <2>5. conn' = [conn EXCEPT ![p] = c] BY <1>13, <2>3
  <2>6. conn'[p] = c /\ \A r : r # p => conn'[r] = conn[r] BY <1>5, <2>1, <2>5
  <2>7. conn[p].state # "none" BY <1>5, <1>6 DEF Fits
  <2> QED BY <2>1, <2>4, <2>5, <2>6, <2>7
<1>14. ToSet(backlog)' = ToSet(backlog) /\ (Distinct(backlog)' <=> Distinct(backlog))
       BY <1>12 DEF ToSet, Distinct
<1>15. /\ \A m \in Loops : ToSet(tasks[m])' = ToSet(tasks'[m]) /\ (Distinct(tasks[m])' <=> Distinct(tasks'[m]))
       /\ ToSet(tasks[0])' = ToSet(tasks'[0])
       BY DEF ToSet, Distinct
<1>16. CASE t[1] = "established"
  <2>1. conn' = [conn EXCEPT ![p].state = "kConnected"] /\ tasks' = rest /\ UNCHANGED <<connections_, free>>
        BY <1>12, <1>16
  <2>2. /\ conn'[p].state = "kConnected" /\ \A r \in Peers : r # p => conn'[r] = conn[r]
        /\ \A r : conn[r].state = "none" => r # p /\ conn'[r].state = "none"
        /\ conn' \in [Peers -> [state : {"none", "kConnecting", "kConnected", "kDisconnected", "gone"}, loop : Loops]]
        BY <1>13, <2>1
  <2>3. p \in connections_ /\ conn[p].state = "kConnecting" BY <1>5, <1>6, <1>16 DEF Fits
  <2>4. Live' = Live
    <3>1. conn[p].state \notin {"none", "gone"} /\ conn'[p].state \notin {"none", "gone"} BY <2>2, <2>3
    <3> QED BY <2>2, <3>1 DEF Live
  <2>5. ServerTypes' BY <1>1, <1>9, <1>12, <2>1, <2>2 DEF ServerTypes
  <2>6. CountInv' BY <1>1, <1>12, <2>1, <2>4 DEF CountInv
  <2>7. BacklogInv' /\ NoneAppears BY <1>1, <1>14, <2>2 DEF BacklogInv, NoneAppears, Unknown
  <2>8. ASSUME NEW m \in Loops, NEW u \in ToSet(rest[m]) PROVE Fits(m, u)'
    <3>1. u[2] \in Peers /\ u[2] # p /\ Fits(m, u) BY <1>10, <2>8 DEF Task
    <3>2. conn'[u[2]] = conn[u[2]] BY <2>2, <3>1
    <3> QED BY <2>1, <3>1, <3>2 DEF Fits
  <2>9. ASSUME NEW r \in Live
        PROVE  /\ r \notin connections_' => <<"destroyed", r>> \in ToSet(tasks'[0])
               /\ r \in connections_' /\ conn'[r].state = "kDisconnected" => <<"close", r>> \in ToSet(tasks'[0])
    <3>1. CASE r = p BY <2>1, <2>2, <2>3, <3>1
    <3>2. CASE r # p
      <4>1. r \in Peers BY DEF Live
      <4>2. <<"destroyed", r>>[2] # p /\ <<"close", r>>[2] # p BY <3>2
      <4> QED BY <1>1, <1>11, <2>1, <2>2, <3>2, <4>1, <4>2 DEF TasksInv
    <3> QED BY <3>1, <3>2
  <2>10. TasksInv' BY <1>1, <1>9, <1>15, <2>1, <2>4, <2>8, <2>9 DEF TasksInv
  <2> QED BY <2>5, <2>6, <2>7, <2>10 DEF ServerInv
<1>17. CASE t[1] = "close"
  <2>1. /\ connections_' = connections_ \ {p} /\ UNCHANGED <<conn, free>>
        /\ tasks' = [rest EXCEPT ![0] = Append(@, <<"destroyed", p>>)]
        BY <1>12, <1>17
  <2>2. p \in connections_ /\ conn[p].state = "kDisconnected" BY <1>5, <1>6, <1>17 DEF Fits
  <2>3. Live' = Live BY <2>1 DEF Live
  <2>4. PICK u : u = <<"destroyed", p>> OBVIOUS
  <2>5. u \in Task /\ u[1] = "destroyed" /\ u[2] = p BY <1>5, <2>4 DEF Task
  <2>6. PICK b : b = rest[0] OBVIOUS
  <2>7. b \in Seq(Task) /\ Distinct(b) /\ u \notin ToSet(b) BY <1>7, <1>9, <1>10, <2>5, <2>6
  <2>8. Append(b, u) \in Seq(Task) /\ ToSet(Append(b, u)) = ToSet(b) \cup {u} /\ Distinct(Append(b, u))
        BY <2>5, <2>7, QueueAppend
  <2>9. /\ tasks' \in [Loops -> Seq(Task)] /\ tasks'[0] = Append(b, u)
        /\ \A m \in Loops : m # 0 => tasks'[m] = rest[m]
        BY <1>7, <1>9, <2>1, <2>4, <2>6, <2>8
  <2>10. \A m \in Loops : Distinct(tasks'[m]) BY <1>9, <2>8, <2>9
  <2>11. ServerTypes'
    <3>1. connections_' \subseteq Peers BY <1>1, <2>1 DEF ServerTypes
    <3> QED BY <1>1, <1>12, <2>1, <2>9, <3>1 DEF ServerTypes
  <2>12. CountInv' BY <1>1, <1>12, <2>1, <2>3 DEF CountInv
  <2>13. BacklogInv' /\ NoneAppears BY <1>1, <1>14, <2>1 DEF BacklogInv, NoneAppears, Unknown
  <2>14. ASSUME NEW m \in Loops, NEW x \in ToSet(tasks'[m]) PROVE Fits(m, x)'
    <3>1. CASE x \in ToSet(rest[m])
      <4>1. x[2] # p /\ Fits(m, x) BY <1>10, <3>1
      <4> QED BY <2>1, <4>1 DEF Fits
    <3>2. CASE m = 0 /\ x = u BY <2>1, <2>2, <2>5, <3>2 DEF Fits
    <3> QED BY <2>6, <2>8, <2>9, <3>1, <3>2
  <2>15. ASSUME NEW r \in Live
         PROVE  /\ r \notin connections_' => <<"destroyed", r>> \in ToSet(tasks'[0])
                /\ r \in connections_' /\ conn'[r].state = "kDisconnected" => <<"close", r>> \in ToSet(tasks'[0])
    <3>1. CASE r = p BY <2>1, <2>4, <2>8, <2>9, <3>1
    <3>2. CASE r # p
      <4>1. <<"destroyed", r>>[2] # p /\ <<"close", r>>[2] # p BY <3>2
      <4>2. ToSet(rest[0]) \subseteq ToSet(tasks'[0]) BY <2>6, <2>8, <2>9
      <4> QED BY <1>1, <1>11, <2>1, <3>2, <4>1, <4>2 DEF TasksInv
    <3> QED BY <3>1, <3>2
  <2>16. TasksInv'
    <3>1. connections_' \subseteq Live' BY <1>1, <2>1, <2>3 DEF TasksInv
    <3> QED BY <1>15, <2>3, <2>10, <2>14, <2>15, <3>1 DEF TasksInv
  <2> QED BY <2>11, <2>12, <2>13, <2>16 DEF ServerInv
<1>18. CASE t[1] = "destroyed"
  <2>1. p \notin connections_ /\ conn[p].state = "kDisconnected" BY <1>5, <1>6, <1>18 DEF Fits
  <2>2. conn' = [conn EXCEPT ![p].state = "gone"] /\ free' = free + 1 /\ tasks' = rest /\ UNCHANGED connections_
        BY <1>12, <1>18, <2>1
  <2>3. /\ conn'[p].state = "gone" /\ \A r \in Peers : r # p => conn'[r] = conn[r]
        /\ \A r : conn[r].state = "none" => r # p /\ conn'[r].state = "none"
        /\ conn' \in [Peers -> [state : {"none", "kConnecting", "kConnected", "kDisconnected", "gone"}, loop : Loops]]
        BY <1>13, <2>2
  <2>4. p \in Live /\ Live' = Live \ {p}
    <3>1. p \in Live BY <1>5, <2>1 DEF Live
    <3>2. \A r \in Peers : r \in Live' <=> conn'[r].state \notin {"none", "gone"} BY DEF Live
    <3> QED BY <2>3, <3>1, <3>2 DEF Live
  <2>5. ServerTypes'
    <3>1. free' \in Nat BY <1>1, <2>2 DEF ServerTypes
    <3> QED BY <1>1, <1>9, <1>12, <2>2, <2>3, <3>1 DEF ServerTypes
  <2>6. CountInv'
    <3>1. IsFiniteSet(Live) /\ Cardinality(Live) \in Nat BY <1>1, FS_CardinalityType DEF CountInv
    <3>2. IsFiniteSet(Live') /\ Cardinality(Live') = Cardinality(Live) - 1
          BY <2>4, <3>1, FS_RemoveElement
    <3>3. free \in Nat /\ other \in Int BY <1>1, DescriptorsAssumption DEF ServerTypes
    <3> QED BY <1>1, <1>12, <2>2, <3>1, <3>2, <3>3 DEF CountInv
  <2>7. BacklogInv' /\ NoneAppears BY <1>1, <1>14, <2>3 DEF BacklogInv, NoneAppears, Unknown
  <2>8. ASSUME NEW m \in Loops, NEW u \in ToSet(rest[m]) PROVE Fits(m, u)'
    <3>1. u[2] \in Peers /\ u[2] # p /\ Fits(m, u) BY <1>10, <2>8 DEF Task
    <3>2. conn'[u[2]] = conn[u[2]] BY <2>3, <3>1
    <3> QED BY <2>2, <3>1, <3>2 DEF Fits
  <2>9. ASSUME NEW r \in Live'
        PROVE  /\ r \notin connections_' => <<"destroyed", r>> \in ToSet(tasks'[0])
               /\ r \in connections_' /\ conn'[r].state = "kDisconnected" => <<"close", r>> \in ToSet(tasks'[0])
    <3>1. r \in Live /\ r # p /\ r \in Peers BY <2>4 DEF Live
    <3>2. <<"destroyed", r>>[2] # p /\ <<"close", r>>[2] # p BY <3>1
    <3> QED BY <1>1, <1>11, <2>2, <2>3, <3>1, <3>2 DEF TasksInv
  <2>10. TasksInv'
    <3>1. connections_' \subseteq Live' BY <1>1, <2>1, <2>2, <2>4 DEF TasksInv
    <3> QED BY <1>9, <1>15, <2>2, <2>8, <2>9, <3>1 DEF TasksInv
  <2> QED BY <2>5, <2>6, <2>7, <2>10 DEF ServerInv
<1> QED BY <1>12, <1>16, <1>17, <1>18

-----------------------------------------------------------------------------
(* The tasks of the client's loop *)

\* The first element of two sequences one behind the other.
LEMMA HeadTailJoined ==
  ASSUME NEW S, NEW b \in Seq(S), NEW c \in Seq(S), b # <<>>
  PROVE  b \o c # <<>> /\ Head(b \o c) = Head(b) /\ Tail(b \o c) = Tail(b) \o c
<1>1. /\ b \o c \in Seq(S) /\ Len(b \o c) = Len(b) + Len(c)
      /\ \A i \in 1..(Len(b) + Len(c)) : (b \o c)[i] = IF i <= Len(b) THEN b[i] ELSE c[i - Len(b)]
      BY ConcatProperties
<1>2. Len(b) \in Nat \ {0} /\ Len(c) \in Nat BY EmptySeq, LenProperties
<1>3. b \o c # <<>> BY <1>1, <1>2, EmptySeq
<1>4. /\ Tail(b) \in Seq(S) /\ Len(Tail(b)) = Len(b) - 1
      /\ \A i \in 1..Len(Tail(b)) : Tail(b)[i] = b[i + 1]
      BY HeadTailProperties
<1>5. /\ Tail(b \o c) \in Seq(S) /\ Len(Tail(b \o c)) = Len(b \o c) - 1
      /\ \A i \in 1..Len(Tail(b \o c)) : Tail(b \o c)[i] = (b \o c)[i + 1]
      BY <1>1, <1>3, HeadTailProperties
<1>6. /\ Tail(b) \o c \in Seq(S) /\ Len(Tail(b) \o c) = Len(Tail(b)) + Len(c)
      /\ \A i \in 1..(Len(Tail(b)) + Len(c)) :
           (Tail(b) \o c)[i] = IF i <= Len(Tail(b)) THEN Tail(b)[i] ELSE c[i - Len(Tail(b))]
      BY <1>4, ConcatProperties
<1>7. Len(Tail(b \o c)) = Len(Tail(b) \o c) BY <1>1, <1>2, <1>4, <1>5, <1>6
<1>8. PICK m, n : m = Len(b) /\ n = Len(c) OBVIOUS
<1>9. ASSUME NEW i \in 1..Len(Tail(b \o c)) PROVE Tail(b \o c)[i] = (Tail(b) \o c)[i]
  <2>1. m \in Nat \ {0} /\ n \in Nat /\ i \in 1..(m + n - 1) BY <1>1, <1>2, <1>5, <1>8, <1>9
  <2>2. Tail(b \o c)[i] = (b \o c)[i + 1] BY <1>5
  <2>3. (b \o c)[i + 1] = IF i + 1 <= m THEN b[i + 1] ELSE c[i + 1 - m] BY <1>1, <1>8, <2>1
  <2>4. (Tail(b) \o c)[i] = IF i <= m - 1 THEN Tail(b)[i] ELSE c[i - (m - 1)] BY <1>4, <1>6, <1>8, <2>1
  <2>5. CASE i <= m - 1
    <3>1. Tail(b)[i] = b[i + 1] BY <1>4, <1>8, <2>1, <2>5
    <3>2. i + 1 <= m BY <2>1, <2>5
    <3> QED BY <2>2, <2>3, <2>4, <2>5, <3>1, <3>2
  <2>6. CASE ~(i <= m - 1)
    <3>1. ~(i + 1 <= m) /\ i + 1 - m = i - (m - 1) BY <2>1, <2>6
    <3> QED BY <2>2, <2>3, <2>4, <2>6, <3>1
  <2> QED BY <2>5, <2>6
<1>10. Tail(b \o c) = Tail(b) \o c BY <1>5, <1>6, <1>7, <1>9, SeqEqual
<1>11. (b \o c)[1] = b[1] BY <1>1, <1>2
<1>12. Head(b \o c) = Head(b) BY <1>11
<1> QED BY <1>3, <1>10, <1>12

\* The elements of a queue are its first one and those behind it.
LEMMA QueueSplits ==
  ASSUME NEW S, NEW q \in Seq(S), q # <<>>
  PROVE  /\ Tail(q) \in Seq(S) /\ Head(q) \in S /\ ToSet(q) = {Head(q)} \cup ToSet(Tail(q))
         /\ \A x, y : Never(q, x, y) => Never(Tail(q), x, y) /\ (Head(q) = x => y \notin ToSet(Tail(q)))
<1>1. /\ Tail(q) \in Seq(S) /\ Head(q) \in S /\ Len(Tail(q)) = Len(q) - 1
      /\ \A i \in 1..Len(Tail(q)) : Tail(q)[i] = q[i + 1]
      BY HeadTailProperties
<1>2. /\ Len(q) \in Nat \ {0} /\ DOMAIN q = 1..Len(q)
      /\ DOMAIN Tail(q) = 1..Len(Tail(q)) /\ Head(q) = q[1]
      BY <1>1, EmptySeq, LenProperties
<1>3. PICK r, n : r = Tail(q) /\ n = Len(q) OBVIOUS
<1>4. /\ n \in Nat \ {0} /\ DOMAIN q = 1..n /\ DOMAIN r = 1..(n - 1)
      /\ \A i \in 1..(n - 1) : r[i] = q[i + 1]
      BY <1>1, <1>2, <1>3
<1>5. /\ \A i \in 1..(n - 1) : i + 1 \in 1..n /\ 1 < i + 1
      /\ 1 \in 1..n
      /\ \A j \in 1..n : j = 1 \/ (j - 1 \in 1..(n - 1) /\ j - 1 + 1 = j)
      /\ \A i, j \in 1..(n - 1) : i < j => i + 1 < j + 1
      BY <1>4
<1>6. ToSet(q) = {q[1]} \cup ToSet(r)
  <2>1. \A y \in ToSet(r) : y \in ToSet(q) BY <1>4, <1>5 DEF ToSet
  <2>2. q[1] \in ToSet(q) BY <1>4, <1>5 DEF ToSet
  <2>3. ASSUME NEW j \in 1..n, j # 1 PROVE q[j] \in ToSet(r)
    <3>1. j - 1 \in 1..(n - 1) /\ j - 1 + 1 = j BY <1>5, <2>3
    <3>2. r[j - 1] = q[j] BY <1>4, <3>1
    <3> QED BY <1>4, <3>1, <3>2 DEF ToSet
  <2>4. \A y \in ToSet(q) : y = q[1] \/ y \in ToSet(r) BY <1>4, <2>3 DEF ToSet
  <2> QED BY <2>1, <2>2, <2>4
<1>7. ASSUME NEW x, NEW y, Never(q, x, y)
      PROVE  Never(r, x, y) /\ (q[1] = x => y \notin ToSet(r))
  <2>1. Never(r, x, y)
    <3> SUFFICES ASSUME NEW i \in 1..(n - 1), NEW j \in 1..(n - 1), i < j, r[i] = x, r[j] = y PROVE FALSE
        BY <1>4 DEF Never
    <3>1. i + 1 \in 1..n /\ j + 1 \in 1..n /\ i + 1 < j + 1 BY <1>5
    <3>2. q[i + 1] = x /\ q[j + 1] = y BY <1>4
    <3> QED BY <1>4, <1>7, <3>1, <3>2 DEF Never
  <2>2. ASSUME q[1] = x, NEW i \in 1..(n - 1) PROVE r[i] # y BY <1>4, <1>5, <1>7, <2>2 DEF Never
  <2> QED BY <1>4, <2>1, <2>2 DEF ToSet
<1> QED BY <1>1, <1>2, <1>3, <1>6, <1>7

\* An element behind a queue.
LEMMA QueueGrows ==
  ASSUME NEW S, NEW q \in Seq(S), NEW z \in S
  PROVE  \A x, y : Never(q, x, y) /\ (z = y => x \notin ToSet(q)) => Never(Append(q, z), x, y)
<1>1. PICK r, n : r = Append(q, z) /\ n = Len(q) OBVIOUS
<1>2. /\ r \in Seq(S) /\ Len(r) = n + 1 /\ r[n + 1] = z /\ \A i \in 1..n : r[i] = q[i]
      BY <1>1, AppendProperties
<1>3. n \in Nat /\ DOMAIN q = 1..n /\ DOMAIN r = 1..(n + 1) BY <1>1, <1>2, LenProperties
<1>4. \A i, j \in 1..(n + 1) : i < j => i \in 1..n /\ (j \in 1..n \/ j = n + 1) BY <1>3
<1>5. ASSUME NEW x, NEW y, Never(q, x, y), z = y => x \notin ToSet(q) PROVE Never(r, x, y)
  <2> SUFFICES ASSUME NEW i \in 1..(n + 1), NEW j \in 1..(n + 1), i < j, r[i] = x, r[j] = y PROVE FALSE
      BY <1>3 DEF Never
  <2>1. i \in 1..n /\ (j \in 1..n \/ j = n + 1) BY <1>4
  <2>2. q[i] = x BY <1>2, <2>1
  <2>3. x \in ToSet(q) BY <1>3, <2>1, <2>2 DEF ToSet
  <2>4. CASE j \in 1..n BY <1>2, <1>3, <1>5, <2>1, <2>2, <2>4 DEF Never
  <2>5. CASE j = n + 1 BY <1>2, <1>5, <2>3, <2>5
  <2> QED BY <2>1, <2>4, <2>5
<1> QED BY <1>1, <1>5

\* An element behind two sequences.
LEMMA AppendJoined ==
  ASSUME NEW S, NEW b \in Seq(S), NEW c \in Seq(S), NEW x \in S
  PROVE  b \o Append(c, x) = Append(b \o c, x)
<1>1. <<x>> \in Seq(S) OBVIOUS
<1>2. Append(c, x) = c \o <<x>> BY AppendIsConcat
<1>3. b \o c \in Seq(S) BY ConcatProperties
<1>4. Append(b \o c, x) = (b \o c) \o <<x>> BY <1>3, AppendIsConcat
<1> QED BY <1>1, <1>2, <1>4, ConcatAssociative

\* A task behind the others: it has not been queued before.
LEMMA TaskAdded ==
  ASSUME LoopTypes, Ordered, NEW x \in ClientTask,
         round'.batch = round.batch, ctasks' = Append(ctasks, x),
         x = "connect" => "connect" \notin Waiting /\ "insert" \notin Waiting,
         x \in {"insert", "destroyed"} => x \notin Waiting
  PROVE  ctasks' \in Seq(ClientTask) /\ Waiting' = Waiting \cup {x} /\ Ordered'
<1>1. PICK b, c, q : b = round.batch /\ c = ctasks /\ q = b \o c OBVIOUS
<1>2. b \in Seq(ClientTask) /\ c \in Seq(ClientTask) BY <1>1 DEF LoopTypes
<1>3. q \in Seq(ClientTask) BY <1>1, <1>2, ConcatProperties
<1>4. b \o Append(c, x) = Append(q, x)
  <2>1. b \o Append(c, x) = Append(b \o c, x) BY <1>2, AppendJoined
  <2>2. q = b \o c BY <1>1
  <2> QED BY <2>1, <2>2, Zenon
<1>5. Queue = q /\ Queue' = Append(q, x) BY <1>1, <1>4 DEF Queue
<1>6. Append(q, x) \in Seq(ClientTask) /\ ToSet(Append(q, x)) = ToSet(q) \cup {x} BY <1>3, QueueAppend
<1>7. Waiting = ToSet(q) /\ Waiting' = ToSet(Append(q, x)) BY <1>5 DEF Waiting, ToSet
<1>8. InOrder(q) BY <1>5 DEF Ordered, InOrder, Never
<1>9. \A y, z : Never(q, y, z) /\ (x = z => y \notin ToSet(q)) => Never(Append(q, x), y, z)
      BY <1>3, QueueGrows
<1>10. InOrder(Append(q, x)) BY <1>7, <1>8, <1>9 DEF InOrder
<1>11. Ordered' BY <1>5, <1>10 DEF Ordered, InOrder, Never
<1>12. ctasks' \in Seq(ClientTask) BY <1>1, <1>2, AppendProperties
<1> QED BY <1>6, <1>7, <1>11, <1>12

\* The next task of the batch: what waits behind it, and that the tasks which
\* come once do not come again.
LEMMA TaskTaken ==
  ASSUME LoopTypes, Ordered, round.batch # <<>>
  PROVE  \E t \in ClientTask, left \in SUBSET ClientTask :
           /\ t = Head(round.batch) /\ Waiting = {t} \cup left
           /\ t \in {"connect", "insert", "destroyed"} => t \notin left
           /\ t = "insert" => "connect" \notin left
           /\ Tail(round.batch) \in Seq(ClientTask) /\ (Len(round.batch) = 1 <=> Tail(round.batch) = <<>>)
           /\ round'.batch = Tail(round.batch) /\ UNCHANGED ctasks => Waiting' = left /\ Ordered'
           /\ round'.batch = Tail(round.batch) /\ ctasks' = Append(ctasks, "destroyed") /\ "destroyed" \notin left =>
                ctasks' \in Seq(ClientTask) /\ Waiting' = left \cup {"destroyed"} /\ Ordered'
<1>1. PICK b, c, q, x, r : b = round.batch /\ c = ctasks /\ q = b \o c /\ x = "destroyed" /\ r = Tail(q) OBVIOUS
<1>2. b \in Seq(ClientTask) /\ c \in Seq(ClientTask) /\ x \in ClientTask BY <1>1 DEF LoopTypes, ClientTask
<1>3. q \in Seq(ClientTask) BY <1>1, <1>2, ConcatProperties
<1>4. q # <<>> /\ Head(q) = Head(b) /\ r = Tail(b) \o c BY <1>1, <1>2, HeadTailJoined
<1>5. /\ r \in Seq(ClientTask) /\ Head(q) \in ClientTask /\ ToSet(q) = {Head(q)} \cup ToSet(r)
      /\ \A y, z : Never(q, y, z) => Never(r, y, z) /\ (Head(q) = y => z \notin ToSet(r))
  <2>1. /\ Tail(q) \in Seq(ClientTask) /\ Head(q) \in ClientTask /\ ToSet(q) = {Head(q)} \cup ToSet(Tail(q))
        /\ \A y, z : Never(q, y, z) => Never(Tail(q), y, z) /\ (Head(q) = y => z \notin ToSet(Tail(q)))
        BY <1>3, <1>4, QueueSplits
  <2>2. r = Tail(q) BY <1>1
  <2> HIDE <1>1
  <2> QED BY <2>1, <2>2
<1>6. Queue = q BY <1>1 DEF Queue
<1>7. InOrder(q) /\ Waiting = ToSet(q) BY <1>6 DEF Ordered, Waiting, InOrder, Never, ToSet
<1>8. PICK left : left = ToSet(r) OBVIOUS
<1>9. left \in SUBSET ClientTask
  <2>1. DOMAIN r = 1..Len(r) BY <1>5, LenProperties
  <2> QED BY <1>5, <1>8, <2>1, ElementOfSeq DEF ToSet
<1>10. InOrder(r) BY <1>5, <1>7 DEF InOrder
<1>11. /\ Tail(b) \in Seq(ClientTask) /\ Len(Tail(b)) = Len(b) - 1 /\ Len(b) \in Nat
       /\ Len(b) = 1 <=> Tail(b) = <<>>
  <2>1. Tail(b) \in Seq(ClientTask) /\ Len(Tail(b)) = Len(b) - 1 BY <1>1, <1>2, HeadTailProperties
  <2>2. Len(b) \in Nat /\ Len(Tail(b)) \in Nat BY <1>2, <2>1, LenProperties
  <2>3. Tail(b) = <<>> <=> Len(Tail(b)) = 0
    <3>1. /\ Len(<<>>) = 0 /\ <<>> \in Seq(ClientTask)
          /\ \A s \in Seq(ClientTask) : s # <<>> => Len(s) \in Nat \ {0}
          BY EmptySeq
    <3> QED BY <2>1, <3>1
  <2>4. Len(b) = 1 <=> Len(Tail(b)) = 0 BY <2>1, <2>2
  <2> QED BY <2>1, <2>2, <2>3, <2>4
<1>12. ASSUME round'.batch = Tail(round.batch), UNCHANGED ctasks PROVE Waiting' = left /\ Ordered'
  <2>1. Queue' = r BY <1>1, <1>4, <1>12 DEF Queue
  <2> QED BY <1>8, <1>10, <2>1 DEF Waiting, ToSet, Ordered, InOrder, Never
<1>13. ASSUME round'.batch = Tail(round.batch), ctasks' = Append(ctasks, "destroyed"), "destroyed" \notin left
       PROVE  ctasks' \in Seq(ClientTask) /\ Waiting' = left \cup {"destroyed"} /\ Ordered'
  <2>1. Tail(b) \o Append(c, x) = Append(r, x) BY <1>2, <1>4, <1>11, AppendJoined
  <2>2. Queue' = Append(r, x) BY <1>1, <1>13, <2>1 DEF Queue
  <2>3. Append(r, x) \in Seq(ClientTask) /\ ToSet(Append(r, x)) = ToSet(r) \cup {x} BY <1>2, <1>5, QueueAppend
  <2>4. Waiting' = left \cup {x} BY <1>8, <2>2, <2>3 DEF Waiting, ToSet
  <2>5. \A y, z : Never(r, y, z) /\ (x = z => y \notin ToSet(r)) => Never(Append(r, x), y, z)
        BY <1>2, <1>5, QueueGrows
  <2>6. InOrder(Append(r, x)) BY <1>1, <1>8, <1>10, <1>13, <2>5 DEF InOrder
  <2>7. Ordered' BY <2>2, <2>6 DEF Ordered, InOrder, Never
  <2>8. ctasks' \in Seq(ClientTask) BY <1>1, <1>2, <1>13, AppendProperties
  <2> QED BY <1>1, <2>4, <2>7, <2>8
<1>14. Head(q) \in {"connect", "insert", "destroyed"} => Head(q) \notin left BY <1>5, <1>7, <1>8 DEF InOrder
<1>15. Head(q) = "insert" => "connect" \notin left BY <1>5, <1>7, <1>8 DEF InOrder
<1>16. PICK t : t = Head(q) OBVIOUS
<1>17. t \in ClientTask /\ t = Head(round.batch) /\ Waiting = {t} \cup left BY <1>1, <1>4, <1>5, <1>7, <1>8, <1>16
<1> QED BY <1>1, <1>9, <1>11, <1>12, <1>13, <1>14, <1>15, <1>16, <1>17

\* A channel is handled.
LEMMA ChannelHandled ==
  ASSUME LoopTypes, ActiveInv, round.active # <<>>, round'.active = Tail(round.active)
  PROVE  /\ Head(round.active) \in ActiveChannel /\ Head(round.active) \in Reported
         /\ round'.active \in Seq(ActiveChannel) /\ Distinct(round.active)'
         /\ Reported' = Reported \ {Head(round.active)}
         /\ \A c \in Reported' : c \in Reported /\ c.name # Head(round.active).name
<1>1. PICK q : q = round.active OBVIOUS
<1>2. q \in Seq(ActiveChannel) /\ q # <<>> /\ Distinct(q) BY <1>1 DEF LoopTypes, ActiveInv
<1>3. /\ Tail(q) \in Seq(ActiveChannel) /\ Head(q) \in ActiveChannel /\ Head(q) \in ToSet(q)
      /\ Distinct(Tail(q)) /\ ToSet(Tail(q)) = ToSet(q) \ {Head(q)}
      BY <1>2, QueueTail
<1>4. Reported = ToSet(q) /\ Reported' = ToSet(Tail(q)) BY <1>1 DEF Reported, ToSet
<1>5. Distinct(round.active)' BY <1>1, <1>3 DEF Distinct
<1>6. \A c \in Reported' : c \in Reported /\ c.name # Head(q).name BY <1>3, <1>4 DEF ActiveInv
<1> QED BY <1>1, <1>3, <1>4, <1>5, <1>6

-----------------------------------------------------------------------------
(* The steps of the client *)

\* A socket is not open: it does not exist yet, has not connected or failed to.
Unopened == {"none", "new", "connecting", "refused"}

\* No socket gets there that has left it.
SocketsStay == \A n \in 1..MaxConnectors : sock[n] \notin Unopened => sock'[n] \notin Unopened

\* The queue is what it was.
LEMMA QueueKept ==
  ASSUME Queue' = Queue
  PROVE  Waiting' = Waiting /\ (Ordered => Ordered')
BY DEF Waiting, ToSet, Ordered, InOrder, Never

\* No channel is reported.
LEMMA NoneReported ==
  ASSUME round'.active = <<>>
  PROVE  ActiveInv'
<1>1. Reported' = {}
  <2>1. DOMAIN <<>> = {} OBVIOUS
  <2> QED BY <2>1 DEF Reported, ToSet
<1>2. Distinct(round.active)'
  <2>1. DOMAIN <<>> = {} OBVIOUS
  <2> QED BY <2>1 DEF Distinct
<1> QED BY <1>1, <1>2 DEF ActiveInv

\* start() in another thread: what it queues has not been queued before.
LEMMA StartStep ==
  ASSUME fatal = "none", ClientInv, start
  PROVE  fatal' = "none" /\ ClientInv' /\ SocketsStay
<1>1. /\ LoopTypes /\ StateTypes /\ RoundInv /\ Ordered /\ StartInv /\ TimerInv /\ IdleInv /\ LastInv
      /\ ActiveInv /\ ConnectorInv /\ SocketInv /\ ConnectionInv
      BY DEF ClientInv, ClientTypes
<1>2. /\ ~byLoop
      /\ UNCHANGED <<byLoop, round, expired, connector, sock, connected_, connection_, cstate, client, fatal, met>>
      BY DEF start, connectorVars, connectionVars
<1>3. RoundInv' /\ ConnectorInv' /\ SocketInv' /\ ConnectionInv' /\ SocketsStay /\ fatal' = "none"
      BY <1>1, <1>2 DEF RoundInv, ConnectorInv, SocketInv, ConnectionInv, SocketsStay
<1>4. ActiveInv'
  <2>1. Reported' = Reported /\ (Distinct(round.active)' <=> Distinct(round.active))
        BY <1>2 DEF Reported, ToSet, Distinct
  <2> QED BY <1>1, <1>2, <2>1 DEF ActiveInv, StillReady
<1>5. CASE starter = "before"
  <2>1. starter' = "line 36" /\ ctasks' = Append(ctasks, "connect") /\ UNCHANGED <<timer, retryTimer_>>
        BY <1>5 DEF start, timerVars
  <2>2. "connect" \notin Waiting /\ "insert" \notin Waiting /\ timer = "none" BY <1>1, <1>5 DEF StartInv
  <2>3. ctasks' \in Seq(ClientTask) /\ Waiting' = Waiting \cup {"connect"} /\ Ordered'
        BY <1>1, <1>2, <2>1, <2>2, TaskAdded DEF ClientTask
  <2>4. LoopTypes' /\ StateTypes'
    <3>1. LoopTypes' BY <1>1, <1>2, <2>1, <2>3 DEF LoopTypes
    <3>2. StateTypes' BY <1>1, <1>2, <2>1 DEF StateTypes
    <3> QED BY <3>1, <3>2
  <2>5. StartInv' /\ TimerInv' BY <1>1, <1>2, <1>5, <2>1, <2>2, <2>3 DEF StartInv, TimerInv
  <2>6. IdleInv' /\ LastInv' BY <1>1, <1>2, <1>5, <2>1, <2>2, <2>3 DEF IdleInv, LastInv
  <2> QED BY <1>3, <1>4, <2>3, <2>4, <2>5, <2>6 DEF ClientInv, ClientTypes
<1>6. CASE starter = "line 36"
  <2>1. /\ starter' = "line 40" /\ ctasks' = Append(ctasks, "insert") /\ timer' = "new"
        /\ UNCHANGED retryTimer_
        BY <1>6 DEF start
  <2>2. "insert" \notin Waiting /\ timer = "none" /\ client = "alive" /\ ~connected_ BY <1>1, <1>6 DEF StartInv
  <2>3. ctasks' \in Seq(ClientTask) /\ Waiting' = Waiting \cup {"insert"} /\ Ordered'
        BY <1>1, <1>2, <2>1, <2>2, TaskAdded DEF ClientTask
  <2>4. LoopTypes' /\ StateTypes'
    <3>1. LoopTypes' BY <1>1, <1>2, <2>1, <2>3 DEF LoopTypes
    <3>2. StateTypes' BY <1>1, <1>2, <2>1, <2>3 DEF StateTypes
    <3> QED BY <3>1, <3>2
  <2>5. StartInv' /\ TimerInv' BY <1>1, <1>2, <1>6, <2>1, <2>2, <2>3 DEF StartInv, TimerInv
  <2>6. IdleInv' /\ LastInv' BY <1>1, <1>2, <1>6, <2>1, <2>2, <2>3 DEF IdleInv, LastInv
  <2> QED BY <1>3, <1>4, <2>3, <2>4, <2>5, <2>6 DEF ClientInv, ClientTypes
<1>7. CASE starter = "line 40"
  <2>1. starter' = "done" /\ retryTimer_' = "timer" /\ UNCHANGED <<timer, ctasks>> BY <1>7 DEF start
  <2>2. timer # "none" /\ client = "alive" /\ ~connected_ BY <1>1, <1>7 DEF StartInv
  <2>3. Waiting' = Waiting /\ Ordered' BY <1>1, <1>2, <2>1, QueueKept DEF Queue
  <2>4. LoopTypes' /\ StateTypes'
    <3>1. LoopTypes' BY <1>1, <1>2, <2>1 DEF LoopTypes
    <3>2. StateTypes' BY <1>1, <1>2, <2>1 DEF StateTypes
    <3> QED BY <3>1, <3>2
  <2>5. StartInv' /\ TimerInv' BY <1>1, <1>2, <1>7, <2>1, <2>2, <2>3 DEF StartInv, TimerInv
  <2>6. IdleInv' /\ LastInv' BY <1>1, <1>2, <1>7, <2>1, <2>2, <2>3 DEF IdleInv, LastInv
  <2> QED BY <1>3, <1>4, <2>3, <2>4, <2>5, <2>6 DEF ClientInv, ClientTypes
<1> QED BY <1>5, <1>6, <1>7 DEF start

\* The connection is established once the server has taken it.
LEMMA EstablishedStep ==
  ASSUME fatal = "none", ClientInv, connectEstablished
  PROVE  fatal' = "none" /\ ClientInv' /\ SocketsStay
<1>1. /\ LoopTypes /\ StateTypes /\ RoundInv /\ Ordered /\ StartInv /\ TimerInv /\ IdleInv /\ LastInv
      /\ ActiveInv /\ ConnectorInv /\ SocketInv /\ ConnectionInv
      BY DEF ClientInv, ClientTypes
<1>2. /\ round.at = "establishing" /\ round' = [round EXCEPT !.at = "events"] /\ cstate' = "kConnected"
      /\ UNCHANGED <<byLoop, starter, ctasks, expired, timer, retryTimer_, connector, sock, connected_,
                     connection_, client, fatal, met>>
      BY DEF connectEstablished, timerVars, connectorVars
<1>3. /\ round'.at = "events" /\ round'.active = round.active /\ round'.batch = round.batch
      /\ round' \in [at : {"poll", "events", "establishing", "tasks"}, active : Seq(ActiveChannel),
                     batch : Seq(ClientTask)]
      BY <1>1, <1>2 DEF LoopTypes
<1>4. cstate = "kConnecting" BY <1>1, <1>2 DEF RoundInv
<1>5. LoopTypes' /\ StateTypes'
  <2>1. LoopTypes' BY <1>1, <1>2, <1>3 DEF LoopTypes
  <2>2. StateTypes' BY <1>1, <1>2, <1>3 DEF StateTypes
  <2> QED BY <2>1, <2>2
<1>6. Waiting' = Waiting /\ Ordered' BY <1>1, <1>2, <1>3, QueueKept DEF Queue
<1>7. RoundInv' BY <1>1, <1>2, <1>3 DEF RoundInv
<1>8. StartInv' /\ TimerInv' /\ IdleInv' /\ ConnectorInv'
      BY <1>1, <1>2, <1>6 DEF StartInv, TimerInv, IdleInv, ConnectorInv
<1>9. LastInv' BY <1>1, <1>2, <1>4, <1>6 DEF LastInv
<1>10. SocketInv' /\ ConnectionInv' /\ SocketsStay
       BY <1>1, <1>2, <1>4 DEF SocketInv, ConnectionInv, SocketsStay
<1>11. ActiveInv'
  <2>1. Reported' = Reported /\ (Distinct(round.active)' <=> Distinct(round.active))
        BY <1>3 DEF Reported, ToSet, Distinct
  <2> QED BY <1>1, <1>2, <1>4, <2>1 DEF ActiveInv, StillReady
<1> QED BY <1>2, <1>5, <1>6, <1>7, <1>8, <1>9, <1>10, <1>11 DEF ClientInv, ClientTypes

\* The loop takes the tasks that wait when the channels have been handled.
LEMMA TasksStep ==
  ASSUME fatal = "none", ClientInv, doPendingTasks
  PROVE  fatal' = "none" /\ ClientInv' /\ SocketsStay
<1>1. /\ LoopTypes /\ StateTypes /\ RoundInv /\ Ordered /\ StartInv /\ TimerInv /\ IdleInv /\ LastInv
      /\ ActiveInv /\ ConnectorInv /\ SocketInv /\ ConnectionInv
      BY DEF ClientInv, ClientTypes
<1>2. /\ round.at = "events" /\ round.active = <<>>
      /\ round' = [at |-> IF ctasks = <<>> THEN "poll" ELSE "tasks", active |-> <<>>, batch |-> ctasks]
      /\ ctasks' = <<>>
      /\ UNCHANGED <<byLoop, starter, expired, timer, retryTimer_, connector, sock, connected_,
                     connection_, cstate, client, fatal, met>>
      BY DEF doPendingTasks, timerVars, connectorVars, connectionVars
<1>3. /\ round'.at = (IF ctasks = <<>> THEN "poll" ELSE "tasks") /\ round'.active = <<>> /\ round'.batch = ctasks
      BY <1>2
<1>4. ctasks \in Seq(ClientTask) /\ round.batch = <<>> BY <1>1, <1>2 DEF LoopTypes, RoundInv
<1>5. LoopTypes' /\ StateTypes'
  <2>1. ctasks' \in Seq(ClientTask) /\ <<>> \in Seq(ActiveChannel) BY <1>2
  <2>2. round' \in [at : {"poll", "events", "establishing", "tasks"}, active : Seq(ActiveChannel),
                    batch : Seq(ClientTask)]
        BY <1>2, <1>4, <2>1
  <2>3. LoopTypes' BY <1>1, <1>2, <2>1, <2>2 DEF LoopTypes
  <2>4. StateTypes' BY <1>1, <1>2 DEF StateTypes
  <2> QED BY <2>3, <2>4
<1>6. Waiting' = Waiting /\ Ordered'
  <2>1. <<>> \o ctasks = ctasks /\ ctasks \o <<>> = ctasks BY <1>4, ConcatEmptySeq
  <2>2. Queue' = Queue BY <1>2, <1>3, <1>4, <2>1 DEF Queue
  <2> QED BY <1>1, <2>2, QueueKept
<1>7. RoundInv' BY <1>1, <1>2, <1>3 DEF RoundInv
<1>8. StartInv' /\ TimerInv' /\ IdleInv' /\ LastInv' /\ ConnectorInv'
      BY <1>1, <1>2, <1>6 DEF StartInv, TimerInv, IdleInv, LastInv, ConnectorInv
<1>9. SocketInv' /\ ConnectionInv' /\ SocketsStay
      BY <1>1, <1>2 DEF SocketInv, ConnectionInv, SocketsStay
<1>10. ActiveInv' BY <1>3, NoneReported
<1> QED BY <1>2, <1>5, <1>6, <1>7, <1>8, <1>9, <1>10 DEF ClientInv, ClientTypes

\* Time passes while there are attempts left.
LEMMA TickStep ==
  ASSUME fatal = "none", ClientInv, tick
  PROVE  fatal' = "none" /\ ClientInv' /\ SocketsStay
<1>1. /\ LoopTypes /\ StateTypes /\ RoundInv /\ Ordered /\ StartInv /\ TimerInv /\ IdleInv /\ LastInv
      /\ ActiveInv /\ ConnectorInv /\ SocketInv /\ ConnectionInv
      BY DEF ClientInv, ClientTypes
<1>2. /\ expired' = TRUE
      /\ UNCHANGED <<byLoop, starter, round, ctasks, timer, retryTimer_, connector, sock, connected_,
                     connection_, cstate, client, fatal, met>>
      BY DEF tick, timerVars, connectorVars, connectionVars
<1>3. LoopTypes' /\ StateTypes'
  <2>1. LoopTypes' BY <1>1, <1>2 DEF LoopTypes
  <2>2. StateTypes' BY <1>1, <1>2 DEF StateTypes
  <2> QED BY <2>1, <2>2
<1>4. Waiting' = Waiting /\ Ordered' BY <1>1, <1>2, QueueKept DEF Queue
<1>5. RoundInv' /\ StartInv' /\ TimerInv' /\ IdleInv' /\ LastInv' /\ ConnectorInv'
      BY <1>1, <1>2, <1>4 DEF RoundInv, StartInv, TimerInv, IdleInv, LastInv, ConnectorInv
<1>6. SocketInv' /\ ConnectionInv' /\ SocketsStay
      BY <1>1, <1>2 DEF SocketInv, ConnectionInv, SocketsStay
<1>7. ActiveInv'
  <2>1. Reported' = Reported /\ (Distinct(round.active)' <=> Distinct(round.active))
        BY <1>2 DEF Reported, ToSet, Distinct
  <2> QED BY <1>1, <1>2, <2>1 DEF ActiveInv, StillReady
<1> QED BY <1>2, <1>3, <1>4, <1>5, <1>6, <1>7 DEF ClientInv, ClientTypes

\* epoll_wait reports the channels that are ready, each of them once.
LEMMA PollStep ==
  ASSUME fatal = "none", ClientInv, poll
  PROVE  fatal' = "none" /\ ClientInv' /\ SocketsStay
<1>1. /\ LoopTypes /\ StateTypes /\ RoundInv /\ Ordered /\ StartInv /\ TimerInv /\ IdleInv /\ LastInv
      /\ ActiveInv /\ ConnectorInv /\ SocketInv /\ ConnectionInv
      BY DEF ClientInv, ClientTypes
<1>2. PICK order \in SetToSeqs(Ready) : round' = [round EXCEPT !.at = "events", !.active = order] BY DEF poll
<1>3. /\ round.at = "poll"
      /\ met' = (IF {"timer", "connector"} \subseteq {c.name : c \in Ready} THEN met \union {"together"} ELSE met)
      /\ UNCHANGED <<byLoop, starter, ctasks, expired, timer, retryTimer_, connector, sock, connected_,
                     connection_, cstate, client, fatal>>
      BY DEF poll, timerVars, connectorVars, connectionVars
<1>4. /\ IsFiniteSet(Ready)
      /\ \A c \in Ready :
           \/ c = [name |-> "timer", n |-> 0] /\ expired
           \/ /\ c = [name |-> "connector", n |-> connector.n] /\ client = "alive" /\ connector.at = "waiting"
              /\ sock[connector.n] \in {"refused", "up", "down"}
           \/ c = [name |-> "connection", n |-> connector.n] /\ cstate \in {"kConnected", "kDisconnecting"}
  <2>1. PICK A, B, C :
          /\ A = (IF expired THEN {Channel("timer", 0)} ELSE {})
          /\ B = (IF client = "alive" /\ connector.at = "waiting" /\ sock[connector.n] \in {"refused", "up", "down"}
                    THEN {Channel("connector", connector.n)} ELSE {})
          /\ C = (IF cstate \in {"kConnected", "kDisconnecting"} /\ sock[connector.n] = "down"
                    THEN {Channel("connection", connector.n)} ELSE {})
        OBVIOUS
  <2>2. Ready = A \cup B \cup C BY <2>1 DEF Ready
  <2>3. IsFiniteSet(A) /\ IsFiniteSet(B) /\ IsFiniteSet(C) BY <2>1, FS_EmptySet, FS_Singleton
  <2>4. IsFiniteSet(A \cup B) BY <2>3, FS_Union
  <2>5. IsFiniteSet((A \cup B) \cup C) BY <2>3, <2>4, FS_Union
  <2> QED BY <2>1, <2>2, <2>5 DEF Channel
<1>5. /\ order \in Seq(Ready) /\ Distinct(order) /\ ToSet(order) \subseteq Ready
  <2>1. PICK m : m = Cardinality(Ready) OBVIOUS
  <2>2. m \in Nat BY <1>4, <2>1, FS_CardinalityType
  <2>3. order \in [1..m -> Ready] /\ \A i, j \in 1..m : i # j => order[i] # order[j] BY <2>1 DEF SetToSeqs
  <2>4. order \in Seq(Ready) /\ DOMAIN order = 1..m BY <2>2, <2>3
  <2> QED BY <2>3, <2>4 DEF Distinct, ToSet
<1>6. Ready \subseteq ActiveChannel
  <2>1. connector.n \in 1..MaxConnectors BY <1>1 DEF StateTypes
  <2>a. connector.n \in Nat BY <2>1, MaxConnectorsAssumption
  <2> QED BY <1>4, <2>a DEF ActiveChannel
<1>7. order \in Seq(ActiveChannel) BY <1>5, <1>6, SeqMonotonic
<1>8. /\ round'.at = "events" /\ round'.active = order /\ round'.batch = round.batch
      /\ round' \in [at : {"poll", "events", "establishing", "tasks"}, active : Seq(ActiveChannel),
                     batch : Seq(ClientTask)]
      BY <1>1, <1>2, <1>7 DEF LoopTypes
<1>9. LoopTypes' /\ StateTypes'
  <2>1. LoopTypes' BY <1>1, <1>3, <1>8 DEF LoopTypes
  <2>2. StateTypes' BY <1>1, <1>3, <1>8 DEF StateTypes
  <2> QED BY <2>1, <2>2
<1>10. Waiting' = Waiting /\ Ordered' BY <1>1, <1>3, <1>8, QueueKept DEF Queue
<1>11. RoundInv' BY <1>1, <1>3, <1>8 DEF RoundInv
<1>12. met \subseteq met' BY <1>3
<1>13. StartInv' /\ ConnectorInv' BY <1>1, <1>3, <1>10 DEF StartInv, ConnectorInv
<1>14. TimerInv' /\ IdleInv' /\ LastInv' BY <1>1, <1>3, <1>10, <1>12 DEF TimerInv, IdleInv, LastInv
<1>15. SocketInv' /\ ConnectionInv' /\ SocketsStay
       BY <1>1, <1>3, <1>12 DEF SocketInv, ConnectionInv, SocketsStay
<1>16. ActiveInv'
  <2>1. Reported' \subseteq Ready /\ Distinct(round.active)' BY <1>5, <1>8 DEF Reported, ToSet, Distinct
  <2>2. \A c, d \in Reported' : c.name = d.name => c = d BY <1>4, <2>1
  <2>3. ASSUME NEW c \in Reported', NEW d \in Reported', c.name = "connector", d.name = "timer"
        PROVE  "together" \in met'
    <3>1. c \in Ready /\ d \in Ready BY <2>1
    <3> QED BY <1>3, <2>3, <3>1
  <2>4. ASSUME NEW c \in Reported' PROVE StillReady(c)'
    <3>1. \/ c = [name |-> "timer", n |-> 0] /\ expired
          \/ /\ c = [name |-> "connector", n |-> connector.n] /\ client = "alive" /\ connector.at = "waiting"
             /\ sock[connector.n] \in {"refused", "up", "down"}
          \/ c = [name |-> "connection", n |-> connector.n] /\ cstate \in {"kConnected", "kDisconnecting"}
          BY <1>4, <2>1
    <3>2. c.name = "connector" => "together" \in met' \/ \A d \in Reported' : d.name # "timer" BY <2>3
    <3> QED BY <1>3, <3>1, <3>2 DEF StillReady
  <2> QED BY <2>1, <2>2, <2>4 DEF ActiveInv
<1> QED BY <1>3, <1>9, <1>10, <1>11, <1>13, <1>14, <1>15, <1>16 DEF ClientInv, ClientTypes

\* A program that goes on has touched nothing that is freed.
LEMMA SafeWhileRunning ==
  ASSUME fatal' \in {"none", "channel not added", "out of attempts"}
  PROVE  ClientIsSafe'
BY DEF ClientIsSafe

\* start() in the loop's thread.
LEMMA StartInLoopStep ==
  ASSUME fatal = "none", ClientInv, startInLoop
  PROVE  ClientIsSafe' /\ (fatal' = "none" => ClientInv' /\ SocketsStay)
<1>1. /\ LoopTypes /\ StateTypes /\ RoundInv /\ Ordered /\ StartInv /\ TimerInv /\ IdleInv /\ LastInv
      /\ ActiveInv /\ ConnectorInv /\ SocketInv /\ ConnectionInv
      BY DEF ClientInv, ClientTypes
<1>2. /\ byLoop /\ starter = "before" /\ round.at = "poll" /\ starter' = "done"
      /\ timer' = "set" /\ retryTimer_' = "timer"
      /\ UNCHANGED <<byLoop, round, ctasks, expired, connected_, connection_, cstate, client, met>>
      BY DEF startInLoop, connectionVars
<1>3. connectorStart(1, sock) BY DEF startInLoop
<1>4. \/ /\ sock' = [sock EXCEPT ![1] = "connecting"] /\ connector' = [n |-> 1, at |-> "waiting"]
         /\ fatal' = "none"
      \/ fatal' = "channel not added"
      BY <1>3 DEF connectorStart, Abort
<1>5. ClientIsSafe' BY <1>4, SafeWhileRunning
<1>6. ASSUME fatal' = "none" PROVE ClientInv' /\ SocketsStay
  <2>1. sock' = [sock EXCEPT ![1] = "connecting"] /\ connector' = [n |-> 1, at |-> "waiting"]
        BY <1>4, <1>6
  <2>2. /\ connector.at = "idle" /\ connector.n = 1 /\ sock[1] = "new" /\ client = "alive"
        /\ "connect" \notin Waiting /\ "insert" \notin Waiting /\ ~connected_
        BY <1>1, <1>2 DEF IdleInv, StartInv
  <2>3. 1 \in 1..MaxConnectors BY MaxConnectorsAssumption
  <2>4. /\ sock' \in [1..MaxConnectors -> {"none"} \cup Open \cup {"closed"}]
        /\ sock'[1] = "connecting" /\ \A n \in 1..MaxConnectors : n # 1 => sock'[n] = sock[n]
        BY <1>1, <2>1, <2>3 DEF StateTypes, Open
  <2>5. connector' \in [n : 1..MaxConnectors, at : {"idle", "waiting", "failed", "connected"}]
        /\ connector'.n = 1 /\ connector'.at = "waiting"
        BY <2>1, <2>3
  <2>6. LoopTypes' BY <1>1, <1>2 DEF LoopTypes
  <2>7. StateTypes' BY <1>1, <1>2, <2>4, <2>5 DEF StateTypes
  <2>8. Waiting' = Waiting /\ Ordered' BY <1>1, <1>2, QueueKept DEF Queue
  <2>9. RoundInv' BY <1>1, <1>2 DEF RoundInv
  <2>10. StartInv' /\ TimerInv' BY <1>1, <1>2, <2>2, <2>8 DEF StartInv, TimerInv
  <2>11. IdleInv' /\ LastInv' BY <1>1, <1>2, <2>2, <2>5, <2>8 DEF IdleInv, LastInv
  <2>12. ConnectorInv'
    <3>2. \A n \in 1..MaxConnectors : n > 1 => n # 1 OBVIOUS
    <3>3. \A n \in 1..MaxConnectors : n > 1 => sock'[n] = "none" BY <1>1, <2>2, <2>4, <3>2 DEF ConnectorInv
    <3> QED BY <1>2, <2>2, <2>5, <3>3 DEF ConnectorInv
  <2>13. SocketInv'
    <3>1. \A n \in 1..MaxConnectors : sock[n] \in Open <=> n = 1
          BY <1>1, <2>2 DEF SocketInv
    <3> QED BY <1>2, <2>2, <2>4, <2>5, <3>1 DEF SocketInv, Open
  <2>14. ConnectionInv' BY <1>1, <1>2 DEF ConnectionInv
  <2>15. SocketsStay BY <2>2, <2>4 DEF SocketsStay, Unopened
  <2>16. ActiveInv'
    <3>1. round'.active = <<>> BY <1>1, <1>2 DEF RoundInv
    <3> QED BY <3>1, NoneReported
  <2> QED BY <2>6, <2>7, <2>8, <2>9, <2>10, <2>11, <2>12, <2>13, <2>14, <2>15, <2>16 DEF ClientInv, ClientTypes
<1> QED BY <1>5, <1>6

\* The timer: a Connector that has not connected is replaced.
LEMMA TimerStep ==
  ASSUME fatal = "none", ClientInv, handleEvents, Head(round.active).name = "timer"
  PROVE  ClientIsSafe' /\ (fatal' = "none" => ClientInv' /\ SocketsStay)
<1>1. /\ LoopTypes /\ StateTypes /\ RoundInv /\ Ordered /\ StartInv /\ TimerInv /\ IdleInv /\ LastInv
      /\ ActiveInv /\ ConnectorInv /\ SocketInv /\ ConnectionInv
      BY DEF ClientInv, ClientTypes
<1>2. /\ round.at = "events" /\ round.active # <<>> /\ expired' = FALSE
      /\ round' = [round EXCEPT !.active = Tail(@)]
      /\ UNCHANGED <<byLoop, starter, client, ctasks, timer, retryTimer_, connected_, connection_, cstate, met>>
      /\ CASE timer = "set"   -> retry
           [] timer = "stale" -> fatal' = "freed timer" /\ UNCHANGED <<connector, sock>>
           [] OTHER           -> UNCHANGED <<connector, sock, fatal>>
      BY DEF handleEvents, timerVars, connectionVars, connectorVars, Abort
<1>3. /\ round'.at = "events" /\ round'.active = Tail(round.active) /\ round'.batch = round.batch BY <1>1, <1>2 DEF LoopTypes
<1>4. /\ Head(round.active) \in Reported /\ round'.active \in Seq(ActiveChannel) /\ Distinct(round.active)'
      /\ \A c \in Reported' : c \in Reported /\ c.name # "timer"
      BY <1>1, <1>2, <1>3, ChannelHandled
<1>5. expired BY <1>1, <1>4 DEF ActiveInv, StillReady
<1>6. \/ /\ timer = "set" /\ ~connected_ /\ connector.n < MaxConnectors
         /\ connectorStart(connector.n + 1, closeSocket)
      \/ timer = "stale" /\ fatal' = "freed timer"
      \/ fatal' = "out of attempts"
      \/ fatal' = "none" /\ UNCHANGED <<connector, sock>>
      BY <1>2 DEF retry, replaceConnector, connectorVars, Abort
<1>7. LoopTypes'
  <2>1. round' \in [at : {"poll", "events", "establishing", "tasks"}, active : Seq(ActiveChannel),
                    batch : Seq(ClientTask)]
        BY <1>1, <1>2, <1>3, <1>4 DEF LoopTypes
  <2> QED BY <1>1, <1>2, <2>1 DEF LoopTypes
<1>8. Waiting' = Waiting /\ Ordered' BY <1>1, <1>2, <1>3, QueueKept DEF Queue
<1>9. RoundInv' /\ StartInv' /\ TimerInv' /\ LastInv' /\ ConnectionInv'
      BY <1>1, <1>2, <1>3, <1>8 DEF RoundInv, StartInv, TimerInv, LastInv, ConnectionInv
<1>10. CASE timer = "stale" /\ fatal' = "freed timer"
  <2>1. "early" \in met' /\ ~byLoop' BY <1>1, <1>2, <1>10 DEF TimerInv
  <2> QED BY <1>10, <2>1 DEF ClientIsSafe
<1>11. CASE fatal' = "none" /\ UNCHANGED <<connector, sock>>
  <2>1. ClientIsSafe' BY <1>11, SafeWhileRunning
  <2>2. StateTypes' BY <1>1, <1>2, <1>11 DEF StateTypes
  <2>3. IdleInv' /\ ConnectorInv' /\ SocketInv' /\ SocketsStay
        BY <1>1, <1>2, <1>8, <1>11 DEF IdleInv, ConnectorInv, SocketInv, SocketsStay
  <2>4. ActiveInv'
    <3>1. \A c, d \in Reported' : c.name = d.name => c = d BY <1>1, <1>4 DEF ActiveInv
    <3>2. \A c \in Reported' : StillReady(c)' BY <1>1, <1>2, <1>4, <1>11 DEF ActiveInv, StillReady
    <3> QED BY <1>4, <3>1, <3>2 DEF ActiveInv
  <2> QED BY <1>7, <1>8, <1>9, <2>1, <2>2, <2>3, <2>4 DEF ClientInv, ClientTypes
<1>12. CASE /\ timer = "set" /\ ~connected_ /\ connector.n < MaxConnectors
            /\ connectorStart(connector.n + 1, closeSocket)
  <2>1. client = "alive" /\ connector.at # "connected" /\ connector.at # "idle" 
        BY <1>1, <1>12 DEF StateTypes, TimerInv, ConnectorInv, IdleInv
  <2>2. connector.n \in 1..MaxConnectors /\ connector.n < MaxConnectors
        BY <1>1, <1>12 DEF StateTypes
  <2>3. PICK m : m = connector.n OBVIOUS
  <2>4. /\ m \in 1..MaxConnectors /\ m + 1 \in 1..MaxConnectors /\ m # m + 1
        /\ \A n \in 1..MaxConnectors : n > m + 1 => n > m /\ n # m /\ n # m + 1
        /\ m + 1 > m
        BY <2>2, <2>3, MaxConnectorsAssumption
  <2>5. \/ /\ sock' = [[sock EXCEPT ![m] = "closed"] EXCEPT ![m + 1] = "connecting"]
           /\ connector' = [n |-> m + 1, at |-> "waiting"] /\ fatal' = "none"
        \/ fatal' = "channel not added"
        BY <1>12, <2>1, <2>3 DEF connectorStart, closeSocket, Abort
  <2>6. ClientIsSafe' BY <2>5, SafeWhileRunning
  <2>7. ASSUME fatal' = "none" PROVE ClientInv' /\ SocketsStay
    <3>1. /\ sock' = [[sock EXCEPT ![m] = "closed"] EXCEPT ![m + 1] = "connecting"]
          /\ connector' = [n |-> m + 1, at |-> "waiting"]
          BY <2>5, <2>7
    <3>2. /\ sock' \in [1..MaxConnectors -> {"none"} \cup Open \cup {"closed"}]
          /\ sock'[m] = "closed" /\ sock'[m + 1] = "connecting"
          /\ \A n \in 1..MaxConnectors : n # m /\ n # m + 1 => sock'[n] = sock[n]
          BY <1>1, <2>4, <3>1 DEF StateTypes, Open
    <3>3. /\ connector' \in [n : 1..MaxConnectors, at : {"idle", "waiting", "failed", "connected"}]
          /\ connector'.n = m + 1 /\ connector'.at = "waiting"
          BY <2>4, <3>1
    <3>4. StateTypes' BY <1>1, <1>2, <3>2, <3>3 DEF StateTypes
    <3>5. sock[m + 1] = "none" BY <1>1, <2>3, <2>4 DEF ConnectorInv
    <3>6. ConnectorInv'
      <4>1. \A n \in 1..MaxConnectors : n > m + 1 => sock'[n] = "none" BY <1>1, <2>3, <2>4, <3>2 DEF ConnectorInv
      <4> QED BY <1>2, <1>12, <3>3, <4>1 DEF ConnectorInv
    <3>7. SocketInv'
      <4>1. \A n \in 1..MaxConnectors : sock[n] \in Open <=> n = m BY <1>1, <2>1, <2>3 DEF SocketInv
      <4> QED BY <1>2, <2>1, <2>4, <3>2, <3>3, <4>1 DEF SocketInv, Open
    <3>8. SocketsStay BY <2>4, <3>2, <3>5 DEF SocketsStay, Unopened
    <3>9. IdleInv'
      <4>1. starter # "before" /\ "connect" \notin Waiting BY <1>1, <2>1 DEF IdleInv
      <4> QED BY <1>2, <1>8, <3>3, <4>1 DEF IdleInv
    <3>10. ActiveInv'
      <4>1. \A c, d \in Reported' : c.name = d.name => c = d BY <1>1, <1>4 DEF ActiveInv
      <4>2. ASSUME NEW c \in Reported', c.name = "connector" PROVE c.n < m + 1 /\ "together" \in met
        <5>1. c \in Reported /\ StillReady(c) BY <1>1, <1>4 DEF ActiveInv
        <5>2. "together" \in met BY <1>4, <2>1, <4>2, <5>1 DEF StillReady
        <5>3. c.n = m \/ c.n < m BY <2>1, <2>3, <4>2, <5>1 DEF StillReady
        <5>4. c.n \in Nat
          <6>1. round.active \in Seq(ActiveChannel) BY <1>1 DEF LoopTypes
          <6>2. c \in ActiveChannel BY <5>1, <6>1, ElementOfSeq, LenProperties DEF Reported, ToSet
          <6> QED BY <6>2 DEF ActiveChannel
        <5>5. c.n < m + 1 BY <2>4, <5>3, <5>4, MaxConnectorsAssumption
        <5> QED BY <5>2, <5>5
      <4>3. ASSUME NEW c \in Reported' PROVE StillReady(c)'
        <5>1. c \in Reported /\ c.name # "timer" /\ StillReady(c) BY <1>1, <1>4 DEF ActiveInv
        <5> QED BY <1>2, <2>1, <3>3, <4>2, <5>1 DEF StillReady
      <4> QED BY <1>4, <4>1, <4>3 DEF ActiveInv
    <3> QED BY <1>7, <1>8, <1>9, <3>4, <3>6, <3>7, <3>8, <3>9, <3>10 DEF ClientInv, ClientTypes
  <2> QED BY <2>6, <2>7
<1>13. CASE fatal' = "out of attempts" BY <1>13, SafeWhileRunning
<1> QED BY <1>6, <1>10, <1>11, <1>12, <1>13

\* The outcome of the connect, of a Connector that is still there: refused, or
\* the first connection deletes the timer.
LEMMA ConnectStep ==
  ASSUME fatal = "none", ClientInv, handleEvents, Head(round.active).name = "connector"
  PROVE  ClientIsSafe' /\ (fatal' = "none" => ClientInv' /\ SocketsStay)
<1>1. /\ LoopTypes /\ StateTypes /\ RoundInv /\ Ordered /\ StartInv /\ TimerInv /\ IdleInv /\ LastInv
      /\ ActiveInv /\ ConnectorInv /\ SocketInv /\ ConnectionInv
      BY DEF ClientInv, ClientTypes
<1>2. PICK h : h = Head(round.active) OBVIOUS
<1>3. /\ round.at = "events" /\ round.active # <<>>
      /\ UNCHANGED <<byLoop, starter, client, ctasks, expired, sock>>
      BY DEF handleEvents
<1>4. \/ client = "alive" /\ h.n = connector.n /\ handleWrite
      \/ ~(client = "alive" /\ h.n = connector.n) /\ fatal' = "freed connector" /\ UNCHANGED met
      BY <1>2 DEF handleEvents, Abort
<1>5. h \in Reported /\ h.name = "connector" /\ StillReady(h)
  <2>1. round.active \in Seq(ActiveChannel) BY <1>1 DEF LoopTypes
  <2>2. h \in Reported BY <1>2, <1>3, <2>1, QueueTail DEF Reported
  <2> QED BY <1>1, <1>2, <2>2 DEF ActiveInv
<1>6. CASE ~(client = "alive" /\ h.n = connector.n) /\ fatal' = "freed connector" /\ UNCHANGED met
  <2>1. "together" \in met' \/ "reported" \in met' BY <1>5, <1>6 DEF StillReady
  <2> QED BY <1>6, <2>1 DEF ClientIsSafe
<1>7. CASE client = "alive" /\ h.n = connector.n /\ handleWrite
  <2>1. connector.n \in 1..MaxConnectors BY <1>1 DEF StateTypes
  <2>2. client = "alive" /\ connector.at = "waiting" /\ sock[connector.n] \in {"refused", "up", "down"}
    <3>1. ~(connector.n < connector.n) BY <2>1, MaxConnectorsAssumption
    <3> QED BY <1>5, <1>7, <3>1 DEF StillReady
  <2>3. ~connected_ /\ cstate = "none" /\ connection_ = 0
        BY <1>1, <2>2 DEF ConnectorInv, ConnectionInv
  <2>4. starter # "before" /\ "connect" \notin Waiting BY <1>1, <2>2 DEF IdleInv
  <2>5. CASE sock[connector.n] = "refused"
    <3>1. /\ connector' = [connector EXCEPT !.at = "failed"] /\ round' = [round EXCEPT !.active = Tail(@)]
          /\ UNCHANGED <<timer, retryTimer_, connected_, connection_, cstate, fatal, met>>
          BY <1>7, <2>5 DEF handleWrite, timerVars, connectionVars
    <3>2. /\ round'.at = "events" /\ round'.active = Tail(round.active) /\ round'.batch = round.batch
          BY <1>1, <1>3, <3>1 DEF LoopTypes
    <3>3. /\ round'.active \in Seq(ActiveChannel) /\ Distinct(round.active)'
          /\ \A c \in Reported' : c \in Reported /\ c.name # "connector"
          BY <1>1, <1>2, <1>3, <1>5, <3>2, ChannelHandled
    <3>4. connector' \in [n : 1..MaxConnectors, at : {"idle", "waiting", "failed", "connected"}]
          /\ connector'.n = connector.n /\ connector'.at = "failed"
          BY <1>1, <3>1 DEF StateTypes
    <3>5. LoopTypes'
      <4>1. round' \in [at : {"poll", "events", "establishing", "tasks"}, active : Seq(ActiveChannel),
                        batch : Seq(ClientTask)]
            BY <1>1, <3>1, <3>2, <3>3 DEF LoopTypes
      <4> QED BY <1>1, <1>3, <4>1 DEF LoopTypes
    <3>6. StateTypes' BY <1>1, <1>3, <3>1, <3>4 DEF StateTypes
    <3>7. Waiting' = Waiting /\ Ordered' BY <1>1, <1>3, <3>2, QueueKept DEF Queue
    <3>8. RoundInv' /\ StartInv' /\ TimerInv' /\ LastInv' /\ ConnectionInv'
          BY <1>1, <1>3, <3>1, <3>2, <3>7 DEF RoundInv, StartInv, TimerInv, LastInv, ConnectionInv
    <3>9. IdleInv' BY <1>3, <2>4, <3>4, <3>7 DEF IdleInv
    <3>10. ConnectorInv' BY <1>1, <1>3, <2>3, <3>1, <3>4 DEF ConnectorInv
    <3>11. SocketInv' BY <1>1, <1>3, <2>2, <3>1, <3>4 DEF SocketInv
    <3>12. SocketsStay BY <1>3 DEF SocketsStay
    <3>13. ActiveInv'
      <4>1. \A c, d \in Reported' : c.name = d.name => c = d BY <1>1, <3>3 DEF ActiveInv
      <4>2. \A c \in Reported' : StillReady(c)' BY <1>1, <1>3, <3>1, <3>3 DEF ActiveInv, StillReady
      <4> QED BY <3>3, <4>1, <4>2 DEF ActiveInv
    <3>14. ClientIsSafe' BY <3>1, SafeWhileRunning
    <3> QED BY <3>5, <3>6, <3>7, <3>8, <3>9, <3>10, <3>11, <3>12, <3>13, <3>14 DEF ClientInv, ClientTypes
  <2>6. CASE sock[connector.n] # "refused"
    <3>1. /\ connector' = [connector EXCEPT !.at = "connected"] /\ newConnection
          /\ met' = (IF StartUnderWay THEN met \union {"early"} ELSE met)
          BY <1>7, <2>6 DEF handleWrite
    <3>2. CASE retryTimer_ = "null"
      <4>1. fatal' = "null timer" BY <3>1, <3>2 DEF newConnection, Abort
      <4>2. starter # "done" BY <1>1, <2>3, <3>2 DEF TimerInv
      <4>3. "early" \in met' BY <3>1, <4>2 DEF StartUnderWay
      <4>4. ~byLoop' BY <1>1, <1>3, <2>4, <4>2 DEF StartInv, LoopTypes
      <4> QED BY <4>1, <4>3, <4>4 DEF ClientIsSafe
    <3>3. CASE retryTimer_ # "null"
      <4>1. /\ timer' = "freed" /\ retryTimer_' = "null" /\ connected_' = TRUE
            /\ connection_' = connector.n /\ cstate' = "kConnecting"
            /\ round' = [round EXCEPT !.at = "establishing", !.active = Tail(@)]
            /\ fatal' = "none"
            BY <3>1, <3>3 DEF newConnection
      <4>2. /\ round'.at = "establishing" /\ round'.active = Tail(round.active) /\ round'.batch = round.batch
            BY <1>1, <1>3, <4>1 DEF LoopTypes
      <4>3. /\ round'.active \in Seq(ActiveChannel) /\ Distinct(round.active)'
            /\ \A c \in Reported' : c \in Reported /\ c.name # "connector"
            BY <1>1, <1>2, <1>3, <1>5, <4>2, ChannelHandled
      <4>4. connector' \in [n : 1..MaxConnectors, at : {"idle", "waiting", "failed", "connected"}]
            /\ connector'.n = connector.n /\ connector'.at = "connected"
            BY <1>1, <3>1 DEF StateTypes
      <4>5. LoopTypes'
        <5>1. round' \in [at : {"poll", "events", "establishing", "tasks"}, active : Seq(ActiveChannel),
                          batch : Seq(ClientTask)]
              BY <1>1, <4>1, <4>2, <4>3 DEF LoopTypes
        <5> QED BY <1>1, <1>3, <5>1 DEF LoopTypes
      <4>6. StateTypes'
        <5>1. connection_' \in 0..MaxConnectors BY <2>1, <4>1, MaxConnectorsAssumption
        <5> QED BY <1>1, <1>3, <4>1, <4>4, <5>1 DEF StateTypes
      <4>7. Waiting' = Waiting /\ Ordered' BY <1>1, <1>3, <4>2, QueueKept DEF Queue
      <4>8. starter = "done" /\ timer \in {"new", "set"} /\ met \subseteq met'
            BY <1>1, <2>2, <3>1, <3>3 DEF StartInv, TimerInv, StateTypes
      <4>9. "insert" \in Waiting => "early" \in met'
        <5>1. "insert" \in Waiting => timer = "new" BY <1>1, <4>8 DEF TimerInv
        <5> QED BY <3>1, <5>1 DEF StartUnderWay
      <4>10. RoundInv' BY <1>1, <1>3, <4>1, <4>2 DEF RoundInv
      <4>11. StartInv' BY <1>1, <1>3, <2>4, <4>1, <4>7, <4>8 DEF StartInv
      <4>12. TimerInv' BY <1>3, <2>2, <4>1, <4>7, <4>8, <4>9 DEF TimerInv
      <4>13. IdleInv' BY <1>3, <2>4, <4>4, <4>7 DEF IdleInv
      <4>14. LastInv' BY <1>1, <1>3, <2>2, <2>3, <4>7 DEF LastInv
      <4>15. ConnectorInv' BY <1>1, <1>3, <4>1, <4>4 DEF ConnectorInv
      <4>16. SocketInv' BY <1>1, <1>3, <2>2, <4>1, <4>4 DEF SocketInv
      <4>17. ConnectionInv'
        <5>1. connection_' # 0 BY <2>1, <4>1, MaxConnectorsAssumption
        <5> QED BY <1>3, <2>2, <4>1, <5>1 DEF ConnectionInv
      <4>18. SocketsStay BY <1>3 DEF SocketsStay
      <4>19. ActiveInv'
        <5>1. \A c, d \in Reported' : c.name = d.name => c = d BY <1>1, <4>3 DEF ActiveInv
        <5>2. \A c \in Reported' : StillReady(c)'
              BY <1>1, <1>3, <2>3, <4>1, <4>3 DEF ActiveInv, StillReady
        <5> QED BY <4>3, <5>1, <5>2 DEF ActiveInv
      <4>20. ClientIsSafe' BY <4>1, SafeWhileRunning
      <4> QED BY <4>5, <4>6, <4>7, <4>10, <4>11, <4>12, <4>13, <4>14, <4>15, <4>16, <4>17, <4>18, <4>19, <4>20
          DEF ClientInv, ClientTypes
    <3> QED BY <3>2, <3>3
  <2> QED BY <2>5, <2>6
<1> QED BY <1>4, <1>6, <1>7

\* The connection ends: a client that is destroyed is touched only if it was
\* destroyed with its connection.
LEMMA CloseStep ==
  ASSUME fatal = "none", ClientInv, handleEvents, Head(round.active).name = "connection"
  PROVE  ClientIsSafe' /\ (fatal' = "none" => ClientInv' /\ SocketsStay)
<1>1. /\ LoopTypes /\ StateTypes /\ RoundInv /\ Ordered /\ StartInv /\ TimerInv /\ IdleInv /\ LastInv
      /\ ActiveInv /\ ConnectorInv /\ SocketInv /\ ConnectionInv
      BY DEF ClientInv, ClientTypes
<1>2. PICK h : h = Head(round.active) OBVIOUS
<1>3. /\ round.at = "events" /\ round.active # <<>>
      /\ round' = [round EXCEPT !.active = Tail(@)]
      /\ UNCHANGED <<byLoop, starter, client, expired, timer, retryTimer_, connector, sock, connected_, met>>
      /\ cstate' = "kDisconnected"
      /\ \/ client = "destroyed" /\ fatal' = "freed client"
         \/ client # "destroyed" /\ connection_' = 0 /\ ctasks' = Append(ctasks, "destroyed") /\ fatal' = "none"
      BY DEF handleEvents, closeConnection, Abort, timerVars, connectorVars
<1>4. /\ round'.at = "events" /\ round'.active = Tail(round.active) /\ round'.batch = round.batch
      BY <1>1, <1>3 DEF LoopTypes
<1>5. /\ h \in Reported /\ round'.active \in Seq(ActiveChannel) /\ Distinct(round.active)'
      /\ \A c \in Reported' : c \in Reported /\ c.name # "connection"
      BY <1>1, <1>2, <1>3, <1>4, ChannelHandled
<1>6. cstate \in {"kConnected", "kDisconnecting"} BY <1>1, <1>2, <1>5 DEF ActiveInv, StillReady
<1>7. CASE client = "destroyed" /\ fatal' = "freed client"
  <2>1. "held" \in met' BY <1>1, <1>3, <1>6, <1>7 DEF ConnectionInv
  <2> QED BY <1>7, <2>1 DEF ClientIsSafe
<1>8. CASE client # "destroyed" /\ connection_' = 0 /\ ctasks' = Append(ctasks, "destroyed") /\ fatal' = "none"
  <2>1. client = "alive" /\ connected_ /\ connector.at = "connected"
        BY <1>1, <1>6, <1>8 DEF StateTypes, ConnectionInv, ConnectorInv
  <2>2. "destroyed" \notin Waiting BY <1>1, <1>6 DEF LastInv
  <2>3. ctasks' \in Seq(ClientTask) /\ Waiting' = Waiting \cup {"destroyed"} /\ Ordered'
        BY <1>1, <1>4, <1>8, <2>2, TaskAdded DEF ClientTask
  <2>4. LoopTypes'
    <3>1. round' \in [at : {"poll", "events", "establishing", "tasks"}, active : Seq(ActiveChannel),
                      batch : Seq(ClientTask)]
          BY <1>1, <1>3, <1>4, <1>5 DEF LoopTypes
    <3> QED BY <1>1, <1>3, <2>3, <3>1 DEF LoopTypes
  <2>5. StateTypes' BY <1>1, <1>3, <1>8, MaxConnectorsAssumption DEF StateTypes
  <2>6. RoundInv' BY <1>1, <1>3, <1>4 DEF RoundInv
  <2>7. StartInv' /\ TimerInv' BY <1>1, <1>3, <2>3 DEF StartInv, TimerInv
  <2>8. IdleInv' /\ LastInv' BY <1>1, <1>3, <2>3 DEF IdleInv, LastInv
  <2>9. ConnectorInv' /\ SocketsStay BY <1>1, <1>3 DEF ConnectorInv, SocketsStay
  <2>10. SocketInv' BY <1>1, <1>3, <1>6, <2>1 DEF SocketInv
  <2>11. ConnectionInv' BY <1>3, <1>8, <2>1 DEF ConnectionInv
  <2>12. ActiveInv'
    <3>1. \A c, d \in Reported' : c.name = d.name => c = d BY <1>1, <1>5 DEF ActiveInv
    <3>2. \A c \in Reported' : StillReady(c)' BY <1>1, <1>3, <1>5 DEF ActiveInv, StillReady
    <3> QED BY <1>5, <3>1, <3>2 DEF ActiveInv
  <2>13. ClientIsSafe' BY <1>8, SafeWhileRunning
  <2> QED BY <2>3, <2>4, <2>5, <2>6, <2>7, <2>8, <2>9, <2>10, <2>11, <2>12, <2>13 DEF ClientInv, ClientTypes
<1> QED BY <1>3, <1>7, <1>8

\* A task of the loop runs: the connect or the insertion that start() queued,
\* or one of the tasks that end the connection.
LEMMA RunTaskStep ==
  ASSUME fatal = "none", ClientInv, runTask
  PROVE  ClientIsSafe' /\ (fatal' = "none" => ClientInv' /\ SocketsStay)
<1>1. /\ LoopTypes /\ StateTypes /\ RoundInv /\ Ordered /\ StartInv /\ TimerInv /\ IdleInv /\ LastInv
      /\ ActiveInv /\ ConnectorInv /\ SocketInv /\ ConnectionInv
      BY DEF ClientInv, ClientTypes
<1>2. /\ round.at = "tasks"
      /\ round' = [round EXCEPT !.at = IF Len(round.batch) = 1 THEN "poll" ELSE "tasks", !.batch = Tail(@)]
      /\ UNCHANGED <<byLoop, starter, expired, retryTimer_, connected_, client, met>>
      BY DEF runTask
<1>3. round.batch # <<>> /\ round.active = <<>> /\ cstate # "kConnecting" BY <1>1, <1>2 DEF RoundInv
<1>4. PICK t \in ClientTask, left \in SUBSET ClientTask :
        /\ t = Head(round.batch) /\ Waiting = {t} \cup left
        /\ t \in {"connect", "insert", "destroyed"} => t \notin left
        /\ t = "insert" => "connect" \notin left
        /\ Tail(round.batch) \in Seq(ClientTask) /\ (Len(round.batch) = 1 <=> Tail(round.batch) = <<>>)
        /\ round'.batch = Tail(round.batch) /\ UNCHANGED ctasks => Waiting' = left /\ Ordered'
        /\ round'.batch = Tail(round.batch) /\ ctasks' = Append(ctasks, "destroyed") /\ "destroyed" \notin left =>
             ctasks' \in Seq(ClientTask) /\ Waiting' = left \cup {"destroyed"} /\ Ordered'
      BY <1>1, <1>3, TaskTaken
<1>5. /\ round'.at = (IF Len(round.batch) = 1 THEN "poll" ELSE "tasks")
      /\ round'.active = <<>> /\ round'.batch = Tail(round.batch)
      /\ round' \in [at : {"poll", "events", "establishing", "tasks"}, active : Seq(ActiveChannel),
                     batch : Seq(ClientTask)]
      BY <1>1, <1>2, <1>3, <1>4 DEF LoopTypes
<1>6. round'.at \in {"poll", "tasks"} /\ (round'.batch # <<>> <=> round'.at = "tasks") BY <1>4, <1>5
<1>7. ActiveInv' BY <1>5, NoneReported
<1>8. \/ t = "connect" /\ client = "alive" /\ connectorStart(1, sock)
         /\ UNCHANGED <<ctasks, timer, connection_, cstate>>
      \/ t = "connect" /\ client # "alive" /\ fatal' = "freed client"
      \/ t = "insert" /\ timer' = (IF timer = "new" THEN "set" ELSE "stale")
         /\ UNCHANGED <<ctasks, connector, sock, connection_, cstate, fatal>>
      \/ t = "forceClose" /\ cstate # "kDisconnected" /\ closeConnection
      \/ t = "forceClose" /\ cstate = "kDisconnected"
         /\ UNCHANGED <<ctasks, timer, connector, sock, connection_, cstate, fatal>>
      \/ t = "destroyed" /\ sock' = [sock EXCEPT ![connector.n] = "closed"] /\ cstate' = "none"
         /\ UNCHANGED <<ctasks, timer, connector, connection_, fatal>>
      BY <1>4 DEF runTask, connectorVars, Abort
<1>9. t \in Waiting /\ left \subseteq Waiting /\ Waiting \subseteq left \cup {t} BY <1>4
<1>10. CASE t = "connect" /\ client # "alive" /\ fatal' = "freed client"
  <2>1. client = "destroyed" /\ "held" \in met' BY <1>1, <1>2, <1>9, <1>10 DEF IdleInv, StateTypes
  <2> QED BY <1>10, <2>1 DEF ClientIsSafe
<1>11. CASE t = "connect" /\ client = "alive" /\ connectorStart(1, sock) /\ UNCHANGED <<ctasks, timer, connection_, cstate>>
  <2>1. /\ connector.at = "idle" /\ connector.n = 1 /\ sock[1] = "new" /\ timer # "set" /\ ~connected_
        /\ "connect" \notin left
        BY <1>1, <1>4, <1>9, <1>11 DEF IdleInv, ConnectorInv
  <2>2. \/ sock' = [sock EXCEPT ![1] = "connecting"] /\ connector' = [n |-> 1, at |-> "waiting"] /\ fatal' = "none"
        \/ fatal' = "channel not added"
        BY <1>11 DEF connectorStart, Abort
  <2>3. ClientIsSafe' BY <2>2, SafeWhileRunning
  <2>4. ASSUME fatal' = "none" PROVE ClientInv' /\ SocketsStay
    <3>1. sock' = [sock EXCEPT ![1] = "connecting"] /\ connector' = [n |-> 1, at |-> "waiting"] BY <2>2, <2>4
    <3>2. 1 \in 1..MaxConnectors BY MaxConnectorsAssumption
    <3>3. /\ sock' \in [1..MaxConnectors -> {"none"} \cup Open \cup {"closed"}]
          /\ sock'[1] = "connecting" /\ \A n \in 1..MaxConnectors : n # 1 => sock'[n] = sock[n]
          BY <1>1, <3>1, <3>2 DEF StateTypes, Open
    <3>4. connector' \in [n : 1..MaxConnectors, at : {"idle", "waiting", "failed", "connected"}]
          /\ connector'.n = 1 /\ connector'.at = "waiting"
          BY <3>1, <3>2
    <3>5. UNCHANGED <<ctasks, timer, connection_, cstate>> BY <1>11
    <3>6. LoopTypes' BY <1>1, <1>2, <1>5, <3>5 DEF LoopTypes
    <3>7. StateTypes' BY <1>1, <1>2, <3>3, <3>4, <3>5 DEF StateTypes
    <3>8. Waiting' = left /\ Ordered' BY <1>4, <1>5, <3>5
    <3>9. RoundInv' BY <1>3, <1>5, <1>6, <3>5 DEF RoundInv
    <3>10. StartInv' /\ TimerInv' BY <1>1, <1>2, <1>9, <3>5, <3>8 DEF StartInv, TimerInv
    <3>11. IdleInv'
      <4>1. starter # "before" BY <1>1, <1>9, <1>11 DEF StartInv
      <4> QED BY <1>2, <2>1, <3>4, <3>8, <4>1 DEF IdleInv
    <3>12. LastInv' BY <1>1, <1>2, <1>9, <3>5, <3>8 DEF LastInv
    <3>13. ConnectorInv'
      <4>1. \A n \in 1..MaxConnectors : n > 1 => n # 1 OBVIOUS
      <4>2. \A n \in 1..MaxConnectors : n > 1 => sock'[n] = "none" BY <1>1, <2>1, <3>3, <4>1 DEF ConnectorInv
      <4> QED BY <1>2, <2>1, <3>4, <4>2 DEF ConnectorInv
    <3>14. SocketInv'
      <4>1. \A n \in 1..MaxConnectors : sock[n] \in Open <=> n = 1 BY <1>1, <1>11, <2>1 DEF SocketInv
      <4> QED BY <1>2, <1>11, <3>3, <3>4, <4>1 DEF SocketInv, Open
    <3>15. ConnectionInv' BY <1>1, <1>2, <3>5 DEF ConnectionInv
    <3>16. SocketsStay BY <2>1, <3>3 DEF SocketsStay, Unopened
    <3> QED BY <1>7, <3>6, <3>7, <3>8, <3>9, <3>10, <3>11, <3>12, <3>13, <3>14, <3>15, <3>16 DEF ClientInv, ClientTypes
  <2> QED BY <2>3, <2>4
<1>12. CASE /\ t = "insert" /\ timer' = (IF timer = "new" THEN "set" ELSE "stale")
            /\ UNCHANGED <<ctasks, connector, sock, connection_, cstate, fatal>>
  <2>1. Waiting' = left /\ Ordered' /\ "insert" \notin left /\ "connect" \notin left BY <1>4, <1>5, <1>12
  <2>2. /\ timer \in {"new", "freed"} /\ (timer = "freed" => "early" \in met) /\ ~byLoop
        /\ starter \notin {"before", "line 36"}
        BY <1>1, <1>9, <1>12 DEF TimerInv, StartInv
  <2>3. timer = "new" => client = "alive" /\ ~connected_ BY <1>1 DEF TimerInv, StateTypes
  <2>4. connector.at # "idle"
    <3>1. "connect" \notin Waiting BY <1>9, <1>12, <2>1
    <3> QED BY <1>1, <2>2, <3>1 DEF IdleInv
  <2>5. LoopTypes' BY <1>1, <1>2, <1>5, <1>12 DEF LoopTypes
  <2>6. StateTypes' BY <1>1, <1>2, <1>12 DEF StateTypes
  <2>7. RoundInv' BY <1>3, <1>5, <1>6, <1>12 DEF RoundInv
  <2>8. StartInv' BY <1>1, <1>2, <1>9, <1>12, <2>1, <2>2 DEF StartInv
  <2>9. TimerInv'
    <3>1. CASE timer = "new"
      <4>1. timer' = "set" BY <1>12, <3>1
      <4> QED BY <1>1, <1>2, <2>1, <2>3, <3>1, <4>1 DEF TimerInv
    <3>2. CASE timer = "freed"
      <4>1. timer' = "stale" BY <1>12, <3>2
      <4> QED BY <1>1, <1>2, <2>1, <2>2, <3>2, <4>1 DEF TimerInv
    <3> QED BY <2>2, <3>1, <3>2
  <2>10. IdleInv' BY <1>1, <1>2, <1>12, <2>1, <2>2, <2>4 DEF IdleInv
  <2>11. LastInv' BY <1>1, <1>2, <1>9, <1>12, <2>1 DEF LastInv
  <2>12. ConnectorInv' /\ SocketInv' /\ ConnectionInv' /\ SocketsStay
         BY <1>1, <1>2, <1>12 DEF ConnectorInv, SocketInv, ConnectionInv, SocketsStay
  <2>13. ClientIsSafe' BY <1>12, SafeWhileRunning
  <2> QED BY <1>7, <2>1, <2>5, <2>6, <2>7, <2>8, <2>9, <2>10, <2>11, <2>12, <2>13 DEF ClientInv, ClientTypes
<1>13. CASE t = "forceClose" /\ cstate # "kDisconnected" /\ closeConnection
  <2>1. client = "destroyed" /\ "held" \in met' BY <1>1, <1>2, <1>9, <1>13 DEF LastInv
  <2>2. fatal' = "freed client" BY <1>13, <2>1 DEF closeConnection, Abort
  <2> QED BY <2>1, <2>2 DEF ClientIsSafe
<1>14. CASE /\ t = "forceClose" /\ cstate = "kDisconnected"
            /\ UNCHANGED <<ctasks, timer, connector, sock, connection_, cstate, fatal>>
  <2>1. Waiting' = left /\ Ordered' BY <1>4, <1>5, <1>14
  <2>2. "connect" \in Waiting <=> "connect" \in left BY <1>9, <1>14
  <2>3. LoopTypes' BY <1>1, <1>2, <1>5, <1>14 DEF LoopTypes
  <2>4. StateTypes' BY <1>1, <1>2, <1>14 DEF StateTypes
  <2>5. RoundInv' BY <1>3, <1>5, <1>6, <1>14 DEF RoundInv
  <2>6. StartInv' /\ TimerInv' BY <1>1, <1>2, <1>9, <1>14, <2>1 DEF StartInv, TimerInv
  <2>7. IdleInv' BY <1>1, <1>2, <1>14, <2>1, <2>2 DEF IdleInv
  <2>8. LastInv' BY <1>1, <1>2, <1>9, <1>14, <2>1 DEF LastInv
  <2>9. ConnectorInv' /\ SocketInv' /\ ConnectionInv' /\ SocketsStay
        BY <1>1, <1>2, <1>14 DEF ConnectorInv, SocketInv, ConnectionInv, SocketsStay
  <2>10. ClientIsSafe' BY <1>14, SafeWhileRunning
  <2> QED BY <1>7, <2>1, <2>3, <2>4, <2>5, <2>6, <2>7, <2>8, <2>9, <2>10 DEF ClientInv, ClientTypes
<1>15. CASE /\ t = "destroyed" /\ sock' = [sock EXCEPT ![connector.n] = "closed"] /\ cstate' = "none"
            /\ UNCHANGED <<ctasks, timer, connector, connection_, fatal>>
  <2>1. Waiting' = left /\ Ordered' /\ "destroyed" \notin left BY <1>4, <1>5, <1>15
  <2>2. "connect" \in Waiting <=> "connect" \in left BY <1>9, <1>15
  <2>3. cstate = "kDisconnected" /\ connected_ /\ connector.at = "connected"
        BY <1>1, <1>9, <1>15 DEF LastInv, ConnectionInv, ConnectorInv
  <2>4. /\ sock' \in [1..MaxConnectors -> {"none"} \cup Open \cup {"closed"}]
        /\ sock'[connector.n] = "closed"
        /\ \A n \in 1..MaxConnectors : n # connector.n => sock'[n] = sock[n]
        BY <1>1, <1>15 DEF StateTypes, Open
  <2>5. LoopTypes' BY <1>1, <1>2, <1>5, <1>15 DEF LoopTypes
  <2>6. StateTypes' BY <1>1, <1>2, <1>15, <2>4 DEF StateTypes
  <2>7. RoundInv' BY <1>3, <1>5, <1>6, <1>15 DEF RoundInv
  <2>8. StartInv' /\ TimerInv' BY <1>1, <1>2, <1>9, <1>15, <2>1 DEF StartInv, TimerInv
  <2>9. IdleInv' BY <1>1, <1>2, <1>15, <2>1, <2>2, <2>3 DEF IdleInv
  <2>10. LastInv' BY <1>1, <1>2, <1>9, <2>1 DEF LastInv
  <2>11. ConnectorInv'
    <3>1. \A n \in 1..MaxConnectors : n > connector.n => n # connector.n
      <4>1. connector.n \in 1..MaxConnectors BY <1>1 DEF StateTypes
      <4> QED BY <4>1, MaxConnectorsAssumption
    <3> QED BY <1>1, <1>2, <1>15, <2>3, <2>4, <3>1 DEF ConnectorInv
  <2>12. SocketInv' BY <1>1, <1>15, <2>3, <2>4 DEF SocketInv, Open
  <2>13. ConnectionInv' BY <1>1, <1>2, <1>15, <2>3 DEF ConnectionInv
  <2>14. SocketsStay BY <2>4 DEF SocketsStay, Unopened
  <2>15. ClientIsSafe' BY <1>15, SafeWhileRunning
  <2> QED BY <1>7, <2>1, <2>5, <2>6, <2>7, <2>8, <2>9, <2>10, <2>11, <2>12, <2>13, <2>14, <2>15 DEF ClientInv, ClientTypes
<1> QED BY <1>8, <1>10, <1>11, <1>12, <1>13, <1>14, <1>15

\* What the end of the client meets: the faults of the destructor are the
\* coincidences that it notes.
LEMMA DestructorFaults ==
  ASSUME fatal = "none", ClientInv, destructor
  PROVE  ClientIsSafe' /\ (fatal' = "none" => round.at # "establishing")
<1>1. TimerInv /\ RoundInv /\ ConnectionInv BY DEF ClientInv
<1>2. client = "alive" /\ starter = "done" BY DEF destructor
<1>3. PICK why \in Faults : fatal' = why /\ met' = met \union Coincidences(why) BY DEF destructor
<1>4. retryTimer_ = "timer" => timer # "freed" BY <1>1, <1>2 DEF TimerInv
<1>5. CASE round.at = "establishing"
  <2>1. retryTimer_ = "null" BY <1>1, <1>5 DEF TimerInv, RoundInv, ConnectionInv
  <2>2. ~RetryDue BY <1>5 DEF RetryDue
  <2>3. why = "handling channel" BY <1>3, <1>5, <2>1, <2>2 DEF Faults
  <2>4. "callback" \in met' BY <1>3, <1>5 DEF Coincidences
  <2> QED BY <1>3, <2>3, <2>4 DEF ClientIsSafe
<1>6. CASE round.at # "establishing" /\ RetryDue
  <2>1. why \in {"none", "freed timer"} BY <1>3, <1>4, <1>6 DEF Faults
  <2>2. why = "freed timer" => "batch" \in met' BY <1>3, <1>6 DEF Coincidences
  <2> QED BY <1>3, <1>6, <2>1, <2>2 DEF ClientIsSafe
<1>7. CASE round.at # "establishing" /\ ~RetryDue
  <2>1. why = "none" BY <1>3, <1>4, <1>7 DEF Faults
  <2> QED BY <1>3, <1>7, <2>1, SafeWhileRunning
<1> QED BY <1>5, <1>6, <1>7

\* The client is destroyed: it closes the socket of a Connector that has not
\* connected, deletes its timer once and leaves the connection a forceClose.
LEMMA DestructorStep ==
  ASSUME fatal = "none", ClientInv, destructor
  PROVE  ClientIsSafe' /\ (fatal' = "none" => ClientInv' /\ SocketsStay)
<1>0. ClientIsSafe' /\ (fatal' = "none" => round.at # "establishing") BY DestructorFaults
<1> SUFFICES ASSUME fatal' = "none" PROVE ClientInv' /\ SocketsStay
    BY <1>0
<1>1. /\ LoopTypes /\ StateTypes /\ RoundInv /\ Ordered /\ StartInv /\ TimerInv /\ IdleInv /\ LastInv
      /\ ActiveInv /\ ConnectorInv /\ SocketInv /\ ConnectionInv
      BY DEF ClientInv, ClientTypes
<1>2. /\ client = "alive" /\ starter = "done" /\ round.at # "establishing" /\ client' = "destroyed"
      /\ sock' = closeSocket /\ connection_' = 0
      /\ timer' = (IF retryTimer_ = "timer" THEN "freed" ELSE timer)
      /\ UNCHANGED <<byLoop, starter, round, expired, retryTimer_, connector, connected_>>
      BY <1>0 DEF destructor
<1>3. \/ connection_ # 0 /\ cstate' = "kDisconnecting" /\ ctasks' = Append(ctasks, "forceClose")
      \/ connection_ = 0 /\ UNCHANGED <<cstate, ctasks>>
      BY DEF destructor
<1>4. PICK why : met' = met \union Coincidences(why) BY DEF destructor
<1>5. /\ retryTimer_ = "timer" <=> timer \in {"new", "set"}
      /\ timer # "none" /\ cstate # "kConnecting" /\ cstate # "kDisconnecting"
      /\ connection_ # 0 <=> cstate = "kConnected"
      BY <1>1, <1>2 DEF TimerInv, StartInv, RoundInv, ConnectionInv
<1>6. timer' \in {"freed", "stale"} /\ (timer' = "stale" => timer = "stale")
      BY <1>1, <1>2, <1>5 DEF StateTypes
<1>10. /\ met \subseteq met' /\ (connection_ # 0 \/ "connect" \in Waiting => "held" \in met')
       /\ timer = "new" => "early" \in met'
       /\ \A c \in Reported : c.name = "connector" => "reported" \in met'
       BY <1>4 DEF Coincidences, Waiting, Queue, Reported
<1>11. /\ ctasks' \in Seq(ClientTask) /\ Ordered' /\ Waiting \subseteq Waiting'
       /\ \A t \in Waiting' : t \in Waiting \/ t = "forceClose"
       /\ connection_ = 0 => Waiting' = Waiting
  <2>1. CASE connection_ # 0
    <3>1. ctasks' = Append(ctasks, "forceClose") BY <1>3, <2>1
    <3>2. ctasks' \in Seq(ClientTask) /\ Waiting' = Waiting \cup {"forceClose"} /\ Ordered'
          BY <1>1, <1>2, <3>1, TaskAdded DEF ClientTask
    <3> QED BY <2>1, <3>2
  <2>2. CASE connection_ = 0
    <3>1. UNCHANGED ctasks BY <1>3, <2>2
    <3>2. Waiting' = Waiting /\ Ordered' BY <1>1, <1>2, <3>1, QueueKept DEF Queue
    <3>3. ctasks' \in Seq(ClientTask) BY <1>1, <3>1 DEF LoopTypes
    <3> QED BY <3>2, <3>3
  <2> QED BY <2>1, <2>2
<1>12. cstate' = (IF connection_ # 0 THEN "kDisconnecting" ELSE cstate) BY <1>3
<1>13. connected_ <=> connector.at = "connected" BY <1>1 DEF ConnectorInv
<1>14. /\ connected_ => sock' = sock
       /\ ~connected_ => /\ sock' \in [1..MaxConnectors -> {"none"} \cup Open \cup {"closed"}]
                         /\ sock'[connector.n] = "closed"
                         /\ \A n \in 1..MaxConnectors : n # connector.n => sock'[n] = sock[n]
       BY <1>1, <1>2, <1>13 DEF closeSocket, StateTypes
<1>15. LoopTypes' BY <1>1, <1>2, <1>11 DEF LoopTypes
<1>16. StateTypes'
  <2>1. sock' \in [1..MaxConnectors -> {"none"} \cup Open \cup {"closed"}] BY <1>1, <1>14 DEF StateTypes
  <2>2. connection_' \in 0..MaxConnectors BY <1>2, MaxConnectorsAssumption
  <2>3. cstate' \in {"none", "kConnecting", "kConnected", "kDisconnecting", "kDisconnected"}
        BY <1>1, <1>12 DEF StateTypes
  <2> QED BY <1>1, <1>2, <1>6, <2>1, <2>2, <2>3 DEF StateTypes
<1>17. RoundInv' BY <1>1, <1>2, <1>5, <1>12 DEF RoundInv
<1>18. StartInv' BY <1>1, <1>2, <1>6, <1>11 DEF StartInv
<1>19. TimerInv'
  <2>1. "insert" \in Waiting' => timer \in {"new", "freed"} /\ (timer = "freed" => "early" \in met)
        BY <1>1, <1>11 DEF TimerInv
  <2>2. "insert" \in Waiting' => timer' = "freed" /\ "early" \in met' BY <1>5, <1>6, <1>10, <2>1
  <2>3. timer' = "stale" => "early" \in met' /\ ~byLoop' BY <1>1, <1>2, <1>6, <1>10 DEF TimerInv
  <2>4. connected_ => retryTimer_ = "null" BY <1>1 DEF TimerInv
  <2>5. ~connected_ => retryTimer_ = "timer" BY <1>1, <1>2 DEF TimerInv
  <2> QED BY <1>2, <1>6, <2>2, <2>3, <2>4, <2>5 DEF TimerInv
<1>20. IdleInv'
  <2>1. connector.at = "idle" <=> "connect" \in Waiting' BY <1>1, <1>2, <1>11 DEF IdleInv
  <2>2. connector.at = "idle" => connector.n = 1 /\ sock'[1] = "closed" /\ "held" \in met'
        BY <1>1, <1>2, <1>10, <1>13, <1>14 DEF IdleInv
  <2> QED BY <1>2, <1>6, <2>1, <2>2 DEF IdleInv
<1>21. LastInv'
  <2>1. "forceClose" \in Waiting' => "held" \in met'
    <3>1. CASE "forceClose" \in Waiting BY <1>1, <1>10, <3>1 DEF LastInv
    <3>2. CASE connection_ # 0 BY <1>10, <3>2
    <3> QED BY <1>11, <3>1, <3>2
  <2>2. "destroyed" \in Waiting' => cstate' = "kDisconnected" BY <1>1, <1>5, <1>11, <1>12 DEF LastInv
  <2> QED BY <1>2, <2>1, <2>2 DEF LastInv
<1>22. ConnectorInv'
  <2>1. \A n \in 1..MaxConnectors : n > connector.n => n # connector.n
    <3>1. connector.n \in 1..MaxConnectors BY <1>1 DEF StateTypes
    <3> QED BY <3>1, MaxConnectorsAssumption
  <2>2. \A n \in 1..MaxConnectors : n > connector.n => sock'[n] = "none" BY <1>1, <1>14, <2>1 DEF ConnectorInv
  <2> QED BY <1>2, <1>13, <2>2 DEF ConnectorInv
<1>23. SocketInv'
  <2>1. CASE connected_
    <3>1. \A n \in 1..MaxConnectors : sock'[n] \in Open <=> n = connector.n /\ cstate # "none"
          BY <1>1, <1>13, <1>14, <2>1 DEF SocketInv
    <3>2. cstate' # "none" <=> cstate # "none" BY <1>5, <1>12
    <3> QED BY <1>2, <1>13, <2>1, <3>1, <3>2 DEF SocketInv
  <2>2. CASE ~connected_
    <3>1. \A n \in 1..MaxConnectors : sock[n] \in Open <=> n = connector.n
          BY <1>1, <1>2, <1>13, <2>2 DEF SocketInv
    <3>2. \A n \in 1..MaxConnectors : sock'[n] \notin Open BY <1>14, <2>2, <3>1 DEF Open
    <3> QED BY <1>2, <1>13, <2>2, <3>2 DEF SocketInv
  <2> QED BY <1>1, <2>1, <2>2 DEF StateTypes
<1>24. ConnectionInv'
  <2>1. ~connected_ => cstate' = "none" BY <1>1, <1>5, <1>12 DEF ConnectionInv
  <2>2. cstate' \notin {"none", "kDisconnected"} => "held" \in met' BY <1>1, <1>5, <1>10, <1>12 DEF StateTypes
  <2> QED BY <1>2, <2>1, <2>2 DEF ConnectionInv
<1>25. ActiveInv'
  <2>1. Reported' = Reported /\ (Distinct(round.active)' <=> Distinct(round.active))
        BY <1>2 DEF Reported, ToSet, Distinct
  <2>2. ASSUME NEW c \in Reported PROVE StillReady(c)'
    <3>1. StillReady(c) /\ c.name = "connector" => "reported" \in met' BY <1>1, <1>10 DEF ActiveInv
    <3>2. StillReady(c) BY <1>1 DEF ActiveInv
    <3>3. cstate \in {"kConnected", "kDisconnecting"} => cstate' = "kDisconnecting" BY <1>5, <1>12
    <3> QED BY <1>2, <1>10, <3>1, <3>2, <3>3 DEF StillReady
  <2> QED BY <1>1, <2>1, <2>2 DEF ActiveInv
<1>26. SocketsStay BY <1>14 DEF SocketsStay, Unopened
<1> QED BY <1>11, <1>15, <1>16, <1>17, <1>18, <1>19, <1>20, <1>21, <1>22, <1>23, <1>24, <1>25, <1>26
    DEF ClientInv, ClientTypes

\* A step of the client's loop, of start() or of the destructor.
LEMMA ClientStep ==
  ASSUME fatal = "none", ClientInv, clientStep \/ destructor
  PROVE  ClientIsSafe' /\ (fatal' = "none" => ClientInv' /\ SocketsStay)
<1>1. CASE start BY <1>1, StartStep, SafeWhileRunning
<1>2. CASE startInLoop BY <1>2, StartInLoopStep
<1>3. CASE poll BY <1>3, PollStep, SafeWhileRunning
<1>4. CASE handleEvents
  <2>1. Head(round.active).name \in {"timer", "connector", "connection"} BY <1>4 DEF handleEvents
  <2> QED BY <1>4, <2>1, TimerStep, ConnectStep, CloseStep
<1>5. CASE connectEstablished BY <1>5, EstablishedStep, SafeWhileRunning
<1>6. CASE doPendingTasks BY <1>6, TasksStep, SafeWhileRunning
<1>7. CASE runTask BY <1>7, RunTaskStep
<1>8. CASE tick BY <1>8, TickStep, SafeWhileRunning
<1>9. CASE destructor BY <1>9, DestructorStep
<1> QED BY <1>1, <1>2, <1>3, <1>4, <1>5, <1>6, <1>7, <1>8, <1>9 DEF clientStep

-----------------------------------------------------------------------------
(* The network, and the theorems *)

\* The network changes the status of the socket that connects or is connected.
LEMMA SocketStep ==
  ASSUME fatal = "none", ClientInv, NEW n \in 1..MaxConnectors, NEW status \in {"refused", "up", "down"},
         sock[n] \in {"connecting", "up"}, SocketBecomes(n, status)
  PROVE  fatal' = "none" /\ ClientInv' /\ \A m \in 1..MaxConnectors : m # n => sock'[m] = sock[m]
<1>1. /\ LoopTypes /\ StateTypes /\ RoundInv /\ Ordered /\ StartInv /\ TimerInv /\ IdleInv /\ LastInv
      /\ ActiveInv /\ ConnectorInv /\ SocketInv /\ ConnectionInv
      BY DEF ClientInv, ClientTypes
<1>2. /\ sock' = [sock EXCEPT ![n] = status]
      /\ UNCHANGED <<byLoop, starter, round, ctasks, expired, timer, retryTimer_, connector, connected_,
                     connection_, cstate, client, fatal, met>>
      BY DEF SocketBecomes, timerVars, connectionVars
<1>3. /\ sock' \in [1..MaxConnectors -> {"none"} \cup Open \cup {"closed"}]
      /\ sock'[n] = status /\ \A m \in 1..MaxConnectors : m # n => sock'[m] = sock[m]
      BY <1>1, <1>2 DEF StateTypes, Open
<1>4. LoopTypes' BY <1>1, <1>2 DEF LoopTypes
<1>5. StateTypes' BY <1>1, <1>2, <1>3 DEF StateTypes
<1>6. Waiting' = Waiting /\ Ordered' BY <1>1, <1>2, QueueKept DEF Queue
<1>7. RoundInv' /\ StartInv' /\ TimerInv' /\ LastInv' /\ ConnectionInv'
      BY <1>1, <1>2, <1>6 DEF RoundInv, StartInv, TimerInv, LastInv, ConnectionInv
<1>8. IdleInv'
  <2>1. connector.at = "idle" => sock[1] \in {"new", "closed"} BY <1>1 DEF IdleInv
  <2>2. connector.at = "idle" => n # 1 BY <2>1
  <2>3. 1 \in 1..MaxConnectors BY MaxConnectorsAssumption
  <2> QED BY <1>1, <1>2, <1>3, <1>6, <2>2, <2>3 DEF IdleInv
<1>9. ConnectorInv'
  <2>1. \A m \in 1..MaxConnectors : m > connector.n => sock'[m] = "none" BY <1>1, <1>3 DEF ConnectorInv
  <2> QED BY <1>1, <1>2, <2>1 DEF ConnectorInv
<1>10. SocketInv'
  <2>1. sock[n] \in Open /\ sock'[n] \in Open BY <1>3 DEF Open
  <2>2. \A m \in 1..MaxConnectors : sock'[m] \in Open <=> sock[m] \in Open BY <1>3, <2>1
  <2> QED BY <1>1, <1>2, <2>2 DEF SocketInv
<1>11. ActiveInv'
  <2>1. Reported' = Reported /\ (Distinct(round.active)' <=> Distinct(round.active))
        BY <1>2 DEF Reported, ToSet, Distinct
  <2>2. connector.n \in 1..MaxConnectors BY <1>1 DEF StateTypes
  <2>3. sock[connector.n] \in {"refused", "up", "down"} => sock'[connector.n] \in {"refused", "up", "down"}
        BY <1>3, <2>2
  <2>4. \A c \in Reported : StillReady(c)'
    <3> SUFFICES ASSUME NEW c \in Reported PROVE StillReady(c)'
        OBVIOUS
    <3>1. StillReady(c) BY <1>1 DEF ActiveInv
    <3> QED BY <1>2, <2>1, <2>3, <3>1 DEF StillReady
  <2> QED BY <1>1, <2>1, <2>4 DEF ActiveInv
<1> QED BY <1>2, <1>3, <1>4, <1>5, <1>6, <1>7, <1>8, <1>9, <1>10, <1>11 DEF ClientInv, ClientTypes

\* A step of the server's leaves the client as it is.
LEMMA ClientKept ==
  ASSUME UNCHANGED clientVars
  PROVE  (ClientInv => ClientInv') /\ (ClientIsSafe => ClientIsSafe') /\ fatal' = fatal /\ sock' = sock
<1>1. UNCHANGED <<byLoop, starter, round, ctasks, expired, timer, retryTimer_, connector, sock, connected_,
                  connection_, cstate, client, fatal, met>>
      BY DEF clientVars
<1>2. ClientIsSafe => ClientIsSafe' BY <1>1 DEF ClientIsSafe
<1>3. ASSUME ClientInv PROVE ClientInv'
  <2>1. /\ LoopTypes /\ StateTypes /\ RoundInv /\ Ordered /\ StartInv /\ TimerInv /\ IdleInv /\ LastInv
        /\ ActiveInv /\ ConnectorInv /\ SocketInv /\ ConnectionInv
        BY <1>3 DEF ClientInv, ClientTypes
  <2>2. Waiting' = Waiting /\ Ordered' BY <1>1, <2>1, QueueKept DEF Queue
  <2>3. LoopTypes' /\ RoundInv' BY <1>1, <2>1 DEF LoopTypes, RoundInv
  <2>4. StateTypes' BY <1>1, <2>1 DEF StateTypes
  <2>5. StartInv' /\ TimerInv' /\ IdleInv' /\ LastInv'
        BY <1>1, <2>1, <2>2 DEF StartInv, TimerInv, IdleInv, LastInv
  <2>6. ConnectorInv' /\ SocketInv' /\ ConnectionInv' BY <1>1, <2>1 DEF ConnectorInv, SocketInv, ConnectionInv
  <2>7. ActiveInv'
    <3>1. Reported' = Reported /\ (Distinct(round.active)' <=> Distinct(round.active))
          BY <1>1 DEF Reported, ToSet, Distinct
    <3> QED BY <1>1, <2>1, <3>1 DEF ActiveInv, StillReady
  <2> QED BY <2>2, <2>3, <2>4, <2>5, <2>6, <2>7 DEF ClientInv, ClientTypes
<1> QED BY <1>1, <1>2, <1>3

\* The server is not touched.
LEMMA ServerKept ==
  ASSUME UNCHANGED serverVars
  PROVE  (ServerInv => ServerInv') /\ NoneAppears
<1>1. UNCHANGED <<numThreads_, listening_, backlog, acceptor, idleFd_, free, other, raced, next_,
                  connections_, conn, tasks>>
      BY DEF serverVars
<1>2. ServerTypes => ServerTypes' BY <1>1 DEF ServerTypes
<1>3. Live' = Live BY <1>1 DEF Live
<1>4. CountInv => CountInv' BY <1>1, <1>3 DEF CountInv
<1>5. BacklogInv => BacklogInv' BY <1>1 DEF BacklogInv, Distinct, ToSet
<1>6. TasksInv => TasksInv' BY <1>1, <1>3 DEF TasksInv, Fits
<1>7. NoneAppears BY <1>1 DEF NoneAppears, Unknown, ToSet
<1> QED BY <1>2, <1>4, <1>5, <1>6, <1>7 DEF ServerInv

\* A socket that stays where it is, and a peer that does not dial, stay unknown.
LEMMA LinkKept ==
  ASSUME LinkInv, NoneAppears, SocketsStay, UNCHANGED dialled
  PROVE  LinkInv'
<1>1. \A n \in 1..MaxConnectors : sock'[n] \in {"none", "new", "connecting", "refused"} => Unknown(n)'
  <2> SUFFICES ASSUME NEW n \in 1..MaxConnectors, sock'[n] \in {"none", "new", "connecting", "refused"}
               PROVE  Unknown(n)'
      OBVIOUS
  <2>1. sock[n] \in {"none", "new", "connecting", "refused"} BY DEF SocketsStay, Unopened
  <2>2. Unknown(n) BY <2>1 DEF LinkInv
  <2> QED BY <2>2 DEF NoneAppears
<1>2. \A p \in Raw \ dialled' : Unknown(p)' BY DEF LinkInv, NoneAppears
<1> QED BY <1>1, <1>2 DEF LinkInv, Raw

\* The server has not started and knows nobody, the client has one Connector.
LEMMA PeersInit == Init => PeersInv
<1> SUFFICES ASSUME Init PROVE PeersInv
    OBVIOUS
<1>1. /\ numThreads_ \in 0..MaxThreads
      /\ listening_ = FALSE /\ backlog = <<>> /\ acceptor = "poll" /\ idleFd_ = TRUE
      /\ free = Descriptors - 1 /\ other = 0 /\ next_ = 0
      /\ connections_ = {} /\ conn = [p \in Peers |-> [state |-> "none", loop |-> 0]]
      /\ tasks = [l \in Loops |-> <<>>]
      BY DescriptorsAssumption DEF Init, serverInit
<1>2. /\ byLoop \in BOOLEAN /\ starter = "before"
      /\ round = [at |-> "poll", active |-> <<>>, batch |-> <<>>] /\ ctasks = <<>>
      /\ expired = FALSE /\ timer = "none" /\ retryTimer_ = "null"
      /\ connector = [n |-> 1, at |-> "idle"]
      /\ sock = [n \in 1..MaxConnectors |-> IF n = 1 THEN "new" ELSE "none"]
      /\ connected_ = FALSE /\ connection_ = 0 /\ cstate = "none"
      /\ client = "alive" /\ fatal = "none" /\ met = {} /\ dialled = {}
      BY DEF Init, clientInit
<1>3. DOMAIN <<>> = {} OBVIOUS
<1>4. ToSet(backlog) = {} /\ Distinct(backlog) BY <1>1, <1>3 DEF ToSet, Distinct
<1>5. \A p \in Peers : conn[p].state = "none" BY <1>1
<1>6. ServerInv
  <2>1. 0 \in Loops BY DescriptorsAssumption DEF Loops
  <2>2. conn \in [Peers -> [state : {"none", "kConnecting", "kConnected", "kDisconnected", "gone"}, loop : Loops]]
        BY <1>1, <2>1
  <2>3. tasks \in [Loops -> Seq(Task)] BY <1>1
  <2>4. ServerTypes
    <3>1. free \in Nat /\ other \in 0..MaxOther BY <1>1, DescriptorsAssumption
    <3>2. numThreads_ > 0 => next_ < numThreads_ BY <1>1
    <3>3. backlog \in Seq(Peers) BY <1>1
    <3> QED BY <1>1, <2>2, <2>3, <3>1, <3>2, <3>3 DEF ServerTypes
  <2>5. Live = {} BY <1>5 DEF Live
  <2>6. CountInv
    <3>1. IsFiniteSet(Live) /\ Cardinality(Live) = 0 BY <2>5, FS_EmptySet
    <3>2. free + 0 + other + 1 + 0 = Descriptors BY <1>1, DescriptorsAssumption
    <3>3. (IF idleFd_ THEN 1 ELSE 0) = 1 /\ (IF acceptor = "close" THEN 1 ELSE 0) = 0 BY <1>1
    <3> QED BY <1>1, <3>1, <3>2, <3>3 DEF CountInv
  <2>7. BacklogInv BY <1>4 DEF BacklogInv
  <2>8. TasksInv
    <3>1. \A l \in Loops : ToSet(tasks[l]) = {} /\ Distinct(tasks[l]) BY <1>1, <1>3 DEF ToSet, Distinct
    <3> QED BY <1>1, <2>5, <3>1 DEF TasksInv
  <2> QED BY <2>4, <2>6, <2>7, <2>8 DEF ServerInv
<1>7. ClientInv
  <2>1. Queue = <<>> BY <1>2 DEF Queue
  <2>2. Waiting = {} BY <1>3, <2>1 DEF Waiting, ToSet
  <2>3. Ordered BY <1>3, <2>1 DEF Ordered, InOrder, Never
  <2>4. Reported = {} /\ Distinct(round.active) BY <1>2, <1>3 DEF Reported, ToSet, Distinct
  <2>5. 1 \in 1..MaxConnectors /\ \A n \in 1..MaxConnectors : n > 1 => n # 1 BY MaxConnectorsAssumption
  <2>6. sock[1] = "new" /\ \A n \in 1..MaxConnectors : n # 1 => sock[n] = "none" BY <1>2, <2>5
  <2>7. LoopTypes
    <3>1. <<>> \in Seq(ActiveChannel) /\ <<>> \in Seq(ClientTask) OBVIOUS
    <3>2. round \in [at : {"poll", "events", "establishing", "tasks"}, active : Seq(ActiveChannel),
                     batch : Seq(ClientTask)]
          BY <1>2, <3>1
    <3> QED BY <1>2, <3>1, <3>2 DEF LoopTypes
  <2>8. StateTypes
    <3>1. connector \in [n : 1..MaxConnectors, at : {"idle", "waiting", "failed", "connected"}] BY <1>2, <2>5
    <3>2. sock \in [1..MaxConnectors -> {"none"} \cup Open \cup {"closed"}] BY <1>2 DEF Open
    <3>3. connection_ \in 0..MaxConnectors BY <1>2, MaxConnectorsAssumption
    <3> QED BY <1>2, <3>1, <3>2, <3>3 DEF StateTypes
  <2>9. RoundInv /\ StartInv /\ TimerInv BY <1>2, <2>2 DEF RoundInv, StartInv, TimerInv
  <2>10. IdleInv /\ LastInv BY <1>2, <2>2, <2>6 DEF IdleInv, LastInv
  <2>11. ActiveInv BY <2>4 DEF ActiveInv
  <2>12. ConnectorInv BY <1>2, <2>5, <2>6 DEF ConnectorInv
  <2>13. SocketInv BY <1>2, <2>6 DEF SocketInv, Open
  <2>14. ConnectionInv BY <1>2 DEF ConnectionInv
  <2> QED BY <2>3, <2>7, <2>8, <2>9, <2>10, <2>11, <2>12, <2>13, <2>14 DEF ClientInv, ClientTypes
<1>8. LinkInv
  <2>1. \A p \in Peers : Unknown(p) BY <1>4, <1>5 DEF Unknown
  <2>2. Raw \subseteq Peers BY DEF Raw
  <2> QED BY <1>2, <2>1, <2>2, PeersAssumption DEF LinkInv
<1>9. ClientIsSafe BY <1>2 DEF ClientIsSafe
<1> QED BY <1>6, <1>7, <1>8, <1>9 DEF PeersInv

\* Every step, of whichever actor, keeps the invariant.
LEMMA PeersNext == PeersInv /\ [Next]_vars => PeersInv'
<1> SUFFICES ASSUME PeersInv, [Next]_vars PROVE PeersInv'
    OBVIOUS
<1>1. CASE UNCHANGED vars
  <2>1. UNCHANGED serverVars /\ UNCHANGED clientVars /\ UNCHANGED dialled BY <1>1 DEF vars
  <2>2. ServerInv' /\ NoneAppears BY <2>1, ServerKept DEF PeersInv
  <2>3. (ClientInv => ClientInv') /\ ClientIsSafe' /\ fatal' = fatal /\ sock' = sock
        BY <2>1, ClientKept DEF PeersInv
  <2>4. SocketsStay BY <2>3 DEF SocketsStay
  <2>5. LinkInv => LinkInv' BY <2>1, <2>2, <2>4, LinkKept
  <2> QED BY <2>2, <2>3, <2>5 DEF PeersInv
<1>2. CASE Next
  <2>1. fatal = "none" /\ ServerInv /\ ClientIsSafe /\ ClientInv /\ LinkInv BY <1>2 DEF Next, PeersInv
  <2>2. ASSUME clientStep \/ destructor, UNCHANGED serverVars, UNCHANGED dialled PROVE PeersInv'
    <3>1. ServerInv' /\ NoneAppears BY <2>1, <2>2, ServerKept
    <3>2. ClientIsSafe' /\ (fatal' = "none" => ClientInv' /\ SocketsStay) BY <2>1, <2>2, ClientStep
    <3>3. fatal' = "none" => LinkInv' BY <2>1, <2>2, <3>1, <3>2, LinkKept
    <3> QED BY <3>1, <3>2, <3>3 DEF PeersInv
  <2>3. ASSUME ServerInv', NoneAppears, UNCHANGED clientVars, UNCHANGED dialled PROVE PeersInv'
    <3>1. ClientInv' /\ ClientIsSafe' /\ fatal' = "none" /\ sock' = sock BY <2>1, <2>3, ClientKept
    <3>2. SocketsStay BY <3>1 DEF SocketsStay
    <3>3. LinkInv' BY <2>1, <2>3, <3>2, LinkKept
    <3> QED BY <2>3, <3>1, <3>3 DEF PeersInv
  <2>4. CASE ClientLoop BY <2>2, <2>4 DEF ClientLoop
  <2>5. CASE Destructor BY <2>2, <2>5 DEF Destructor
  <2>6. CASE ServerLoops
    <3>1. UNCHANGED clientVars /\ UNCHANGED dialled BY <2>6 DEF ServerLoops
    <3>2. ServerInv' /\ NoneAppears
      <4>1. CASE serverStart BY <2>1, <4>1, AcceptorStep
      <4>2. CASE handleRead BY <2>1, <4>2, AcceptStep, AcceptorStep DEF handleRead
      <4>3. CASE \E l \in Loops : runServerTask(l) BY <2>1, <4>3, ServerTaskStep
      <4>4. CASE \E n \in 1..MaxConnectors : handleClose(n)
        <5>1. PICK n \in 1..MaxConnectors : handleClose(n) BY <4>4
        <5>2. n \in Peers BY <5>1, PeersAssumption
        <5> QED BY <2>1, <5>1, <5>2, HandleCloseStep
      <4> QED BY <2>6, <4>1, <4>2, <4>3, <4>4 DEF ServerLoops
    <3> QED BY <2>3, <3>1, <3>2
  <2>7. CASE Closes
    <3>1. UNCHANGED clientVars /\ UNCHANGED dialled /\ \E p \in Peers : handleClose(p) BY <2>7 DEF Closes
    <3>2. ServerInv' /\ NoneAppears BY <2>1, <3>1, HandleCloseStep
    <3> QED BY <2>3, <3>1, <3>2
  <2>8. CASE Others
    <3>1. UNCHANGED clientVars /\ UNCHANGED dialled /\ OtherDescriptors BY <2>8 DEF Others
    <3>2. ServerInv' /\ NoneAppears BY <2>1, <3>1, AcceptorStep
    <3> QED BY <2>3, <3>1, <3>2
  <2>9. CASE Dial
    <3>1. PICK p \in Raw \ dialled : dialled' = dialled \union {p} /\ Enqueue(p) BY <2>9 DEF Dial
    <3>2. p \in Peers /\ p \notin 1..MaxConnectors /\ Unknown(p) BY <2>1, <3>1 DEF Raw, LinkInv
    <3>3. ServerInv' /\ \A q : q # p /\ Unknown(q) => Unknown(q)' BY <2>1, <3>1, <3>2, EnqueueStep
    <3>4. UNCHANGED clientVars BY <2>9 DEF Dial
    <3>5. ClientInv' /\ ClientIsSafe' /\ fatal' = "none" /\ sock' = sock BY <2>1, <3>4, ClientKept
    <3>6. LinkInv'
      <4>1. dialled' \subseteq Raw BY <2>1, <3>1 DEF LinkInv
      <4>2. \A n \in 1..MaxConnectors : sock'[n] \in {"none", "new", "connecting", "refused"} => Unknown(n)'
        <5> SUFFICES ASSUME NEW n \in 1..MaxConnectors, sock'[n] \in {"none", "new", "connecting", "refused"}
                     PROVE  Unknown(n)'
            OBVIOUS
        <5>1. n # p /\ Unknown(n) BY <2>1, <3>2, <3>5 DEF LinkInv
        <5> QED BY <3>3, <5>1
      <4>3. \A q \in Raw \ dialled' : Unknown(q)'
        <5> SUFFICES ASSUME NEW q \in Raw \ dialled' PROVE Unknown(q)'
            OBVIOUS
        <5>1. q # p /\ Unknown(q) BY <2>1, <3>1 DEF LinkInv
        <5> QED BY <3>3, <5>1
      <4> QED BY <4>1, <4>2, <4>3 DEF LinkInv, Raw
    <3> QED BY <3>3, <3>5, <3>6 DEF PeersInv
  <2>10. ASSUME NEW n \in 1..MaxConnectors, Answer(n) PROVE PeersInv'
    <3>1. sock[n] = "connecting" /\ UNCHANGED dialled BY <2>10 DEF Answer
    <3>2. CASE SocketBecomes(n, "refused") /\ UNCHANGED serverVars
      <4>1. fatal' = "none" /\ ClientInv' /\ \A m \in 1..MaxConnectors : m # n => sock'[m] = sock[m]
            BY <2>1, <3>1, <3>2, SocketStep
      <4>2. ServerInv' /\ NoneAppears BY <2>1, <3>2, ServerKept
      <4>3. SocketsStay BY <3>1, <4>1 DEF SocketsStay, Unopened
      <4>4. LinkInv' BY <2>1, <3>1, <4>2, <4>3, LinkKept
      <4> QED BY <4>1, <4>2, <4>4, SafeWhileRunning DEF PeersInv
    <3>3. CASE SocketBecomes(n, "up") /\ Enqueue(n)
      <4>1. fatal' = "none" /\ ClientInv' /\ \A m \in 1..MaxConnectors : m # n => sock'[m] = sock[m]
            BY <2>1, <3>1, <3>3, SocketStep
      <4>2. n \in Peers /\ n \notin Raw /\ Unknown(n) BY <2>1, <3>1, PeersAssumption DEF Raw, LinkInv
      <4>3. ServerInv' /\ \A q : q # n /\ Unknown(q) => Unknown(q)' BY <2>1, <3>3, <4>2, EnqueueStep
      <4>4. sock'[n] = "up" BY <2>1, <3>3 DEF SocketBecomes, ClientInv, ClientTypes, StateTypes
      <4>5. LinkInv'
        <5>1. \A m \in 1..MaxConnectors : sock'[m] \in {"none", "new", "connecting", "refused"} => Unknown(m)'
          <6> SUFFICES ASSUME NEW m \in 1..MaxConnectors, sock'[m] \in {"none", "new", "connecting", "refused"}
                       PROVE  Unknown(m)'
              OBVIOUS
          <6>1. m # n BY <4>4
          <6>2. Unknown(m) BY <2>1, <4>1, <6>1 DEF LinkInv
          <6> QED BY <4>3, <6>1, <6>2
        <5>2. \A q \in Raw \ dialled' : Unknown(q)' BY <2>1, <3>1, <4>2, <4>3 DEF LinkInv
        <5> QED BY <2>1, <3>1, <5>1, <5>2 DEF LinkInv, Raw
      <4> QED BY <4>1, <4>3, <4>5, SafeWhileRunning DEF PeersInv
    <3> QED BY <2>10, <3>2, <3>3 DEF Answer
  <2>11. ASSUME NEW n \in 1..MaxConnectors, ServerGone(n) PROVE PeersInv'
    <3>1. sock[n] = "up" /\ SocketBecomes(n, "down") /\ UNCHANGED serverVars /\ UNCHANGED dialled
          BY <2>11 DEF ServerGone
    <3>2. fatal' = "none" /\ ClientInv' /\ \A m \in 1..MaxConnectors : m # n => sock'[m] = sock[m]
          BY <2>1, <3>1, SocketStep
    <3>3. ServerInv' /\ NoneAppears BY <2>1, <3>1, ServerKept
    <3>4. sock'[n] = "down" BY <2>1, <3>1 DEF SocketBecomes, ClientInv, ClientTypes, StateTypes
    <3>5. SocketsStay BY <3>2, <3>4 DEF SocketsStay, Unopened
    <3>6. LinkInv' BY <2>1, <3>1, <3>3, <3>5, LinkKept
    <3> QED BY <3>2, <3>3, <3>6, SafeWhileRunning DEF PeersInv
  <2> QED BY <1>2, <2>4, <2>5, <2>6, <2>7, <2>8, <2>9, <2>10, <2>11 DEF Next
<1> QED BY <1>1, <1>2

\* The invariant of the server, the client and the link between them holds in
\* every state.
THEOREM PeersInvariant == Spec => []PeersInv
<1>1. Init => PeersInv BY PeersInit
<1>2. PeersInv /\ [Next]_vars => PeersInv' BY PeersNext
<1> QED BY <1>1, <1>2, PTL DEF Spec

\* However many attempts the client makes and whoever else connects, the client
\* uses a deleted Timer or Connector, or itself after its end, only in the
\* coincidences: a first connection ahead of the end of start() in another
\* thread (TcpClient.cpp:40, 63), a retry in one round with the outcome of the
\* connect it gives up (TcpClient.cpp:55), an end with a connection or a connect
\* that is queued (TcpClient.cpp:27-28, 36), in the round that reports its
\* Connector, in its own connectionCallback_ (Channel.cpp:21), or ahead of its
\* timer in one batch (TimerQueue.cpp:104).
THEOREM FreedOnlyInCoincidences == Spec => []ClientIsSafe
<1>1. PeersInv => ClientIsSafe BY DEF PeersInv
<1> QED BY <1>1, PeersInvariant, PTL

\* For any number of peers, threads and descriptors no descriptor is lost and
\* none has two owners: the client's sockets are those of its Connector or its
\* connection (Connector.cpp:33-37, TcpClient.cpp:49-58), the server's those of
\* its connections, idleFd_ and the one handleRead drops (Acceptor.cpp:99-103),
\* and a connection belongs to connections_ or to the task that destroys it
\* (TcpServer.cpp:73-78).
THEOREM EveryDescriptorOwned == Spec => []DescriptorsOwned
<1>1. PeersInv => DescriptorsOwned
  <2> SUFFICES ASSUME PeersInv PROVE DescriptorsOwned
      OBVIOUS
  <2>1. ServerTypes /\ CountInv /\ TasksInv BY DEF PeersInv, ServerInv
  <2>2. fatal = "none" => SocketInv BY DEF PeersInv, ClientInv
  <2>3. 0 \in Loops BY DescriptorsAssumption DEF Loops
  <2>4. ASSUME NEW p \in Live
        PROVE  /\ p \notin connections_ => <<"destroyed", p>> \in ToSet(tasks[0])
               /\ p \in connections_ => (conn[p].state = "kDisconnected" <=> <<"close", p>> \in ToSet(tasks[0]))
    <3>1. ASSUME <<"close", p>> \in ToSet(tasks[0]) PROVE conn[p].state = "kDisconnected"
      <4>1. PICK t : t = <<"close", p>> OBVIOUS
      <4>2. Fits(0, t) BY <2>1, <2>3, <3>1, <4>1 DEF TasksInv
      <4> QED BY <4>1, <4>2 DEF Fits
    <3> QED BY <2>1, <3>1 DEF TasksInv
  <2>5. /\ free + Cardinality(Live) + other + (IF idleFd_ THEN 1 ELSE 0)
                + (IF acceptor = "close" THEN 1 ELSE 0) = Descriptors
        /\ connections_ \subseteq Live
        BY <2>1 DEF CountInv, TasksInv
  <2>6. fatal = "none" => \A n \in 1..MaxConnectors :
          sock[n] \in Open <=> /\ n = connector.n
                               /\ IF connector.at = "connected" THEN cstate # "none" ELSE client = "alive"
        BY <2>2 DEF SocketInv
  <2> QED BY <2>4, <2>5, <2>6 DEF DescriptorsOwned, Live
<1> QED BY <1>1, PeersInvariant, PTL

=============================================================================
