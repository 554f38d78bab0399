------------------------- MODULE TcpConnectionProofs -------------------------
(***************************************************************************)
(* Theorems about TcpConnection, for any threads, messages, message        *)
(* lengths, send buffers and high-water marks: its bytes stay in order,    *)
(* it waits for EPOLLOUT exactly while it must, shuts down after the last  *)
(* byte, closes once, and ends the process only for named causes.          *)
(***************************************************************************)
EXTENDS TcpConnection, SequenceTheorems, TLAPS

Byte == Messages \X (1 .. MsgLen)

Conn == [state_ : {"kConnecting", "kConnected", "kDisconnecting", "kDisconnected"},
         events_ : SUBSET {"IN", "PRI", "OUT"},
         outputBuffer_ : Seq(Byte)]

\* An error is pending only after a reset.
Sock == {s \in [rx : BOOLEAN, fin : BOOLEAN, rst : BOOLEAN,
                err : {"none", "EPIPE", "ECONNRESET"}, shut : BOOLEAN, room : 0 .. SndBuf] :
            s.err # "none" => s.rst}

Hist == [wire : Seq(Byte), accepted : Seq(Byte)]

Establish == [op |-> "connectEstablished"]

\* The tasks that come after connectEstablished.
LaterTask ==
    [op : {"forceCloseInLoop", "writeCompleteCallback", "highWaterMarkCallback"}]
    \cup [op : {"sendInLoop"}, msg : Messages]

ServerTask == {"closeConnectionInLoop", "connectDestroyed"}

Types ==
    /\ conn \in Conn /\ sock \in Sock /\ hist \in Hist
    /\ loop \in [at : {"poll", "active", "events", "tasks"}, inCallback : BOOLEAN,
                 revents : SUBSET {"IN", "OUT", "HUP", "ERR"},
                 batch : Seq(LaterTask \cup {Establish})]
    /\ pendingTasks \in Seq(LaterTask \cup {Establish})
    /\ server \in [owned : BOOLEAN, tasks : Seq(ServerTask), closes : Nat]
    /\ holds \in [Threads -> BOOLEAN]
    /\ call \in [Threads -> {Idle} \cup [op : {"queueInLoop"}, task : LaterTask]]

\* Before connectEstablished has run nothing else can happen to the connection;
\* afterwards it is not queued again.
Phase ==
    IF conn.state_ = "kConnecting"
    THEN /\ \/ pendingTasks = <<Establish>> /\ loop.batch = <<>>
            \/ pendingTasks = <<>> /\ loop.batch = <<Establish>>
         /\ conn.outputBuffer_ = <<>> /\ ~sock.shut
         /\ loop.revents = {} /\ ~loop.inCallback
         /\ \A t \in Threads : ~holds[t] /\ call[t] = Idle
    ELSE pendingTasks \in Seq(LaterTask) /\ loop.batch \in Seq(LaterTask)

\* What the loop still has to do fits where it is.
Round ==
    /\ loop.revents # {} => loop.at \in {"active", "events"}
    /\ loop.inCallback => loop.at \in {"events", "tasks"}
    /\ loop.batch # <<>> => loop.at = "tasks"

\* An open connection is in the poller, a closed one may be back in it but never
\* for writing, and stopRead() always leaves EPOLLPRI.
Channel ==
    /\ conn.state_ = "kConnecting" => ~registered
    /\ conn.state_ \in {"kConnected", "kDisconnecting"} => registered
    /\ conn.state_ = "kDisconnected" => ~isWriting
    /\ registered => "PRI" \in conn.events_

\* Events yet to be dispatched find the connection as they need it: those that
\* may close it find its channel in the poller, EPOLLOUT finds output if it is open.
Events ==
    /\ loop.at = "active" => registered
    /\ loop.revents \cap {"IN", "HUP"} # {} => registered
    /\ "OUT" \in loop.revents /\ conn.state_ # "kDisconnected" => isWriting

\* The way of a close through the base loop.
Ownership ==
    IF conn.state_ # "kDisconnected"
    THEN server = [owned |-> TRUE, tasks |-> <<>>, closes |-> 0]
    ELSE /\ server.closes = 1
         /\ \/ server.owned /\ server.tasks = <<"closeConnectionInLoop">>
            \/ ~server.owned /\ server.tasks \in {<<"connectDestroyed">>, <<>>}

Stream == StreamIsIntact /\ WriteInterest /\ ShutdownAfterDrain

ConnectionInv ==
    /\ Types
    /\ Phase /\ Round /\ Channel /\ Events /\ Ownership
    /\ Stream

-----------------------------------------------------------------------------
\* A sequence is what was taken off its front followed by the rest.
LEMMA SplitAt ==
  ASSUME NEW S, NEW s \in Seq(S), NEW n \in Nat, n <= Len(s)
  PROVE  /\ SubSeq(s, 1, n) \in Seq(S) /\ SubSeq(s, n + 1, Len(s)) \in Seq(S)
         /\ SubSeq(s, 1, n) \o SubSeq(s, n + 1, Len(s)) = s
<1>1. Len(s) \in Nat BY LenProperties
<1>2. \A i \in 1 .. n : s[i] \in S BY <1>1, ElementOfSeq
<1>3. \A i \in n + 1 .. Len(s) : s[i] \in S BY <1>1, ElementOfSeq
<1>4. 1 \in Int /\ n \in Int /\ n + 1 \in Int /\ Len(s) \in Int BY <1>1
<1>5. SubSeq(s, 1, n) \in Seq(S) BY <1>2, <1>4, SubSeqProperties
<1>6. SubSeq(s, n + 1, Len(s)) \in Seq(S) BY <1>3, <1>4, SubSeqProperties
<1>7. SubSeq(s, 1, n) \o SubSeq(s, n + 1, Len(s)) = SubSeq(s, 1, Len(s))
  <2>1. 1 \in 1 .. Len(s) + 1 /\ n \in 1 - 1 .. Len(s) /\ Len(s) \in n .. Len(s) BY <1>1
  <2> QED BY <2>1, ConcatAdjacentSubSeq
<1> QED BY <1>5, <1>6, <1>7, SubSeqFull

\* Concatenation of byte sequences is associative.
LEMMA BytesAssociative ==
  \A a, b, c \in Seq(Byte) : (a \o b) \o c = a \o (b \o c)
BY ConcatAssociative

\* A message is a sequence of bytes, of which a direct write takes the first n.
LEMMA MessageSplits ==
  ASSUME NEW m \in Messages, NEW n \in Nat, n <= MsgLen
  PROVE  /\ Bytes(m) \in Seq(Byte)
         /\ SubSeq(Bytes(m), 1, n) \in Seq(Byte) /\ Remainder(m, n) \in Seq(Byte)
         /\ SubSeq(Bytes(m), 1, n) \o Remainder(m, n) = Bytes(m)
<1>1. Bytes(m) \in [1 .. MsgLen -> Byte] BY DEF Bytes, Byte
<1>2. Bytes(m) \in Seq(Byte) BY <1>1, SeqDef, ConnectionAssumption
<1>3. Len(Bytes(m)) = MsgLen
  <2>1. DOMAIN Bytes(m) = 1 .. MsgLen BY <1>1
  <2>2. DOMAIN Bytes(m) = 1 .. Len(Bytes(m)) /\ Len(Bytes(m)) \in Nat BY <1>2, LenProperties
  <2> QED BY <2>1, <2>2, ConnectionAssumption
<1> QED BY <1>2, <1>3, SplitAt DEF Remainder

\* The callbacks of the application that the write paths queue.
CallbackTask == [op : {"writeCompleteCallback", "highWaterMarkCallback"}]

\* sendInLoop keeps the stream whole, whatever state the connection is in and
\* whatever part of the message is written at once, queued or dropped.
LEMMA SendKeepsStream ==
  ASSUME Up, conn \in Conn, sock \in Sock, hist \in Hist, StreamIsIntact,
         NEW T, CallbackTask \subseteq T, pendingTasks \in Seq(T),
         NEW m \in Messages, sendInLoop(m)
  PROVE  /\ conn' \in Conn /\ sock' \in Sock /\ hist' \in Hist
         /\ pendingTasks' \in Seq(T)
         /\ conn'.state_ = conn.state_ /\ sock'.shut = sock.shut
         /\ conn'.events_ \in {conn.events_, conn.events_ \cup {"OUT"}}
         /\ conn.state_ = "kDisconnected" => conn' = conn
         /\ fate' \in {fate, "TcpConnection.cpp:121", "SIGPIPE"}
         /\ fate' = "SIGPIPE" => WriteFails'
         /\ StreamIsIntact'
<1> DEFINE open   == conn.state_ # "kDisconnected"
           direct == open /\ ~isWriting
           broken == direct /\ WriteFails
           n      == IF direct /\ ~broken THEN Lower(MsgLen, sock.room) ELSE 0
           rest   == IF broken THEN <<>> ELSE Remainder(m, n)
           old    == Len(conn.outputBuffer_)
           ends   == CASE direct /\ old # 0         -> "TcpConnection.cpp:121"
                       [] direct /\ old = 0 /\ WriteSignals -> "SIGPIPE"
                       [] OTHER                     -> fate
           more   == CASE broken                   -> <<>>
                       [] ~broken /\ rest = <<>>   -> WriteComplete
                       [] ~broken /\ rest # <<>>   -> HighWater(old, old + Len(rest))
<1>1. /\ fate' = ends /\ ends \in {fate, "TcpConnection.cpp:121", "SIGPIPE"}
      /\ fate' = "SIGPIPE" => WriteFails /\ UNCHANGED sock
      BY DEF sendInLoop, WriteSignals, Up
<1>2. CASE ~open \/ ends # fate
  <2>1. UNCHANGED <<conn, pendingTasks, sock, hist>> BY <1>2 DEF sendInLoop
  <2> QED BY <1>1, <2>1 DEF StreamIsIntact, WriteFails
<1>3. CASE open /\ ends = fate
  <2>1. /\ conn' = [conn EXCEPT !.outputBuffer_ = @ \o rest,
                                !.events_ = IF rest = <<>> THEN @ ELSE enableWrite]
        /\ pendingTasks' = pendingTasks \o more
        /\ IF broken
           THEN sock' = [sock EXCEPT !.err = "none"] /\ UNCHANGED hist
           ELSE /\ sock' = [sock EXCEPT !.room = @ - n]
                /\ hist' = [hist EXCEPT !.wire = @ \o SubSeq(Bytes(m), 1, n),
                                        !.accepted = @ \o Bytes(m)]
        BY <1>3 DEF sendInLoop
  <2>2. n \in Nat /\ n <= MsgLen /\ n <= sock.room
        BY ConnectionAssumption DEF Lower, Sock
  <2>3. /\ Bytes(m) \in Seq(Byte)
        /\ SubSeq(Bytes(m), 1, n) \in Seq(Byte) /\ Remainder(m, n) \in Seq(Byte)
        /\ SubSeq(Bytes(m), 1, n) \o Remainder(m, n) = Bytes(m)
        BY <2>2, MessageSplits
  <2>4. rest \in Seq(Byte) BY <2>3, EmptySeq
  <2>5. conn.outputBuffer_ \in Seq(Byte) /\ conn.events_ \subseteq {"IN", "PRI", "OUT"}
        BY DEF Conn
  <2>6. more \in Seq(T)
    <3>1. \A task \in CallbackTask : <<task>> \in Seq(T) OBVIOUS
    <3>2. WriteComplete \in Seq(T) BY <3>1 DEF WriteComplete, CallbackTask
    <3>3. <<[op |-> "highWaterMarkCallback"]>> \in Seq(T) BY <3>1 DEF CallbackTask
    <3>4. HighWater(old, old + Len(rest)) \in {<<>>, <<[op |-> "highWaterMarkCallback"]>>}
          BY DEF HighWater
    <3> QED BY <3>2, <3>3, <3>4, EmptySeq
  <2>7. pendingTasks' \in Seq(T) BY <2>1, <2>6, ConcatProperties
  <2>8. sock' \in Sock /\ sock'.shut = sock.shut
    <3>1. CASE broken BY <3>1, <2>1 DEF Sock
    <3>2. CASE ~broken
      <4>1. sock.room - n \in 0 .. SndBuf BY <2>2, ConnectionAssumption DEF Sock
      <4> QED BY <3>2, <4>1, <2>1 DEF Sock
    <3> QED BY <3>1, <3>2
  <2>9. hist' \in Hist
    <3>1. CASE broken BY <3>1, <2>1
    <3>2. CASE ~broken
      <4>1. /\ hist.wire \o SubSeq(Bytes(m), 1, n) \in Seq(Byte)
            /\ hist.accepted \o Bytes(m) \in Seq(Byte)
            BY <2>3, ConcatProperties DEF Hist
      <4> QED BY <3>2, <4>1, <2>1 DEF Hist
    <3> QED BY <3>1, <3>2
  <2>10. conn.outputBuffer_ \o rest \in Seq(Byte) BY <2>4, <2>5, ConcatProperties
  <2>11. /\ conn' \in Conn /\ conn'.state_ = conn.state_
         /\ conn'.outputBuffer_ = conn.outputBuffer_ \o rest
         /\ conn'.events_ \in {conn.events_, conn.events_ \cup {"OUT"}}
         BY <2>1, <2>5, <2>10 DEF Conn, enableWrite
  <2>12. direct => conn.outputBuffer_ = <<>> BY <1>3, <2>5, EmptySeq DEF Up
  <2>13. StreamIsIntact'
    <3>0. /\ hist.wire \in Seq(Byte) /\ hist.accepted \in Seq(Byte)
          /\ hist.wire \o conn.outputBuffer_ = hist.accepted
          BY DEF Hist, StreamIsIntact
    <3>1. CASE broken
      <4>1. rest = <<>> /\ hist' = hist BY <3>1, <2>1
      <4>2. conn'.outputBuffer_ = conn.outputBuffer_ BY <4>1, <2>5, <2>11, ConcatEmptySeq
      <4> QED BY <3>0, <4>1, <4>2 DEF StreamIsIntact
    <3>2. CASE ~broken /\ direct
      <4>1. conn.outputBuffer_ = <<>> BY <3>2, <2>12
      <4>2. conn'.outputBuffer_ = rest BY <4>1, <2>4, <2>11, ConcatEmptySeq
      <4>3. hist.accepted = hist.wire BY <4>1, <3>0, ConcatEmptySeq
      <4>4. /\ hist'.wire = hist.wire \o SubSeq(Bytes(m), 1, n)
            /\ hist'.accepted = hist.wire \o Bytes(m)
            BY <3>2, <4>3, <2>1 DEF Hist
      <4>5. (hist.wire \o SubSeq(Bytes(m), 1, n)) \o rest
            = hist.wire \o (SubSeq(Bytes(m), 1, n) \o rest)
        <5> HIDE DEF n, rest, open, direct, broken, old, more, ends
        <5> QED BY <3>0, <2>3, <2>4, BytesAssociative
      <4>6. rest = Remainder(m, n) BY <3>2
      <4> QED BY <4>2, <4>4, <4>5, <4>6, <2>3 DEF StreamIsIntact
    <3>3. CASE ~direct
      <4>1. n = 0 /\ ~broken /\ rest = Remainder(m, n) BY <3>3
      <4>2. SubSeq(Bytes(m), 1, n) = <<>> BY <4>1, SubSeqEmpty
      <4>3. rest = Bytes(m) BY <4>1, <4>2, <2>3, ConcatEmptySeq
      <4>4. hist'.wire = hist.wire /\ hist'.accepted = hist.accepted \o Bytes(m)
        <5>1. hist.wire \o SubSeq(Bytes(m), 1, n) = hist.wire BY <4>2, <3>0, ConcatEmptySeq
        <5>2. hist' = [hist EXCEPT !.wire = @ \o SubSeq(Bytes(m), 1, n),
                                   !.accepted = @ \o Bytes(m)]
              BY <4>1, <2>1
        <5> HIDE DEF n
        <5> QED BY <5>1, <5>2 DEF Hist
      <4>5. hist.wire \o (conn.outputBuffer_ \o rest) = hist.accepted \o rest
        <5> HIDE DEF n, rest, open, direct, broken, old, more, ends
        <5>1. (hist.wire \o conn.outputBuffer_) \o rest = hist.wire \o (conn.outputBuffer_ \o rest)
              BY <3>0, <2>4, <2>5, BytesAssociative
        <5> QED BY <3>0, <5>1
      <4> QED BY <4>3, <4>4, <4>5, <2>11 DEF StreamIsIntact
    <3> QED BY <3>1, <3>2, <3>3
  <2> QED BY <1>1, <1>3, <2>7, <2>8, <2>9, <2>11, <2>13 DEF WriteFails
<1> QED BY <1>2, <1>3

\* sendInLoop in an established connection that only its loop closes: the assert
\* holds, the write interest follows the buffer, and SIGPIPE is the one end.
LEMMA SendEffect ==
  ASSUME ConnectionInv, Up, conn.state_ # "kConnecting", NEW m \in Messages, sendInLoop(m)
  PROVE  /\ conn' \in Conn /\ sock' \in Sock /\ hist' \in Hist
         /\ pendingTasks' \in Seq(LaterTask)
         /\ conn'.state_ = conn.state_ /\ Channel'
         /\ isWriting => isWriting'
         /\ registered => registered'
         /\ Stream'
         /\ fate' = fate \/ (fate' = "SIGPIPE" /\ WriteFails')
<1> DEFINE open   == conn.state_ # "kDisconnected"
           direct == open /\ ~isWriting
           broken == direct /\ WriteFails
           n      == IF direct /\ ~broken THEN Lower(MsgLen, sock.room) ELSE 0
           rest   == IF broken THEN <<>> ELSE Remainder(m, n)
<1>1. /\ conn \in Conn /\ sock \in Sock /\ hist \in Hist /\ StreamIsIntact
      /\ pendingTasks \in Seq(LaterTask) /\ CallbackTask \subseteq LaterTask
      BY DEF ConnectionInv, Types, Phase, Stream, LaterTask, CallbackTask
<1>2. /\ conn' \in Conn /\ sock' \in Sock /\ hist' \in Hist
      /\ pendingTasks' \in Seq(LaterTask)
      /\ conn'.state_ = conn.state_ /\ sock'.shut = sock.shut
      /\ StreamIsIntact'
      BY <1>1, SendKeepsStream
<1>3. CASE UNCHANGED <<conn, sock, hist>> /\ fate' \in {fate, "SIGPIPE"}
  <2>1. fate' = fate \/ (fate' = "SIGPIPE" /\ WriteFails')
        BY <1>3 DEF sendInLoop, WriteSignals, WriteFails, Up
  <2> QED BY <1>2, <1>3, <2>1 DEF ConnectionInv, Channel, Stream, WriteInterest,
                            ShutdownAfterDrain, isWriting, registered
<1>4. CASE ~open
  <2>1. UNCHANGED <<conn, fate, sock, hist>> BY <1>4 DEF sendInLoop
  <2> QED BY <1>3, <2>1
<1>5. open => /\ isWriting <=> conn.outputBuffer_ # <<>>
              /\ direct => Len(conn.outputBuffer_) = 0
      BY EmptySeq DEF ConnectionInv, Stream, WriteInterest
<1>6. CASE open /\ fate' # fate
  <2>1. UNCHANGED <<conn, sock, hist>> /\ fate' = "SIGPIPE"
        BY <1>5, <1>6 DEF sendInLoop
  <2> QED BY <1>3, <2>1
<1>7. CASE open /\ fate' = fate
  <2>1. isWriting <=> conn.outputBuffer_ # <<>> BY <1>5, <1>7
  <2>2. /\ conn' = [conn EXCEPT !.outputBuffer_ = @ \o rest,
                                !.events_ = IF rest = <<>> THEN @ ELSE enableWrite]
        /\ broken => UNCHANGED hist
        BY <1>7 DEF sendInLoop
  <2>4. rest \in Seq(Byte)
    <3>1. n \in Nat /\ n <= MsgLen
          BY <1>1, ConnectionAssumption DEF Lower, Sock
    <3>2. Remainder(m, n) \in Seq(Byte) BY <3>1, MessageSplits
    <3> QED BY <3>2, EmptySeq
  <2>5. /\ conn.outputBuffer_ \in Seq(Byte)
        /\ conn'.outputBuffer_ = conn.outputBuffer_ \o rest
        /\ conn'.events_ = IF rest = <<>> THEN conn.events_ ELSE conn.events_ \cup {"OUT"}
        BY <1>1, <2>2 DEF Conn, enableWrite
  <2>6. registered /\ registered'
        BY <1>1, <1>7, <2>5 DEF ConnectionInv, Channel, Conn, registered
  <2>7. Channel'
        BY <1>1, <1>2, <1>7, <2>5, <2>6 DEF ConnectionInv, Channel, Conn, registered, isWriting
  <2>8. conn'.outputBuffer_ # <<>> <=> conn.outputBuffer_ # <<>> \/ rest # <<>>
        BY <2>4, <2>5, ConcatEqualIffEmpty, EmptySeq
  <2>9. WriteInterest' /\ (isWriting => isWriting')
        BY <2>1, <2>5, <2>8 DEF WriteInterest, isWriting
  <2>10. ShutdownAfterDrain'
    \* Once SHUT_WR has been called the write fails and nothing is taken.
    <3>1. ASSUME sock'.shut PROVE conn'.outputBuffer_ = <<>> /\ hist'.wire = hist'.accepted
      <4>1. sock.shut /\ conn.outputBuffer_ = <<>> /\ hist.wire = hist.accepted
            BY <3>1, <1>2 DEF ConnectionInv, Stream, ShutdownAfterDrain
      <4>2. broken BY <4>1, <1>7, <2>1 DEF WriteFails
      <4>3. rest = <<>> /\ hist' = hist BY <4>2, <2>2
      <4> QED BY <4>1, <4>3, <2>8
    <3> QED BY <3>1 DEF ShutdownAfterDrain
  <2> QED BY <1>2, <1>7, <2>6, <2>7, <2>9, <2>10 DEF Stream
<1> QED BY <1>4, <1>6, <1>7

\* handleClose on an open connection: no assert fails, the channel leaves the
\* poller and the base loop is told once.
LEMMA CloseEffect ==
  ASSUME ConnectionInv, conn.state_ \in {"kConnected", "kDisconnecting"}, handleClose
  PROVE  /\ conn' \in Conn /\ conn'.state_ = "kDisconnected"
         /\ conn'.outputBuffer_ = conn.outputBuffer_
         /\ server' \in [owned : BOOLEAN, tasks : Seq(ServerTask), closes : Nat]
         /\ fate' = fate /\ Channel' /\ Ownership'
<1>1. /\ conn \in Conn /\ registered
      /\ server = [owned |-> TRUE, tasks |-> <<>>, closes |-> 0]
      BY DEF ConnectionInv, Types, Channel, Ownership
<1>2. fate' = fate BY <1>1 DEF handleClose, Closes, CloseAsserts
<1>3. /\ conn' \in Conn /\ conn'.state_ = "kDisconnected" /\ conn'.events_ = {}
      /\ conn'.outputBuffer_ = conn.outputBuffer_
      BY <1>1, <1>2 DEF handleClose, Closes, Conn
<1>4. server' = [owned |-> TRUE, tasks |-> <<"closeConnectionInLoop">>, closes |-> 1]
  <2>1. Append(<<>>, "closeConnectionInLoop") = <<"closeConnectionInLoop">> OBVIOUS
  <2>2. server' = [server EXCEPT !.tasks = Append(<<>>, "closeConnectionInLoop"), !.closes = 1]
        BY <1>1, <1>2 DEF handleClose, Closes
  <2> QED BY <1>1, <2>1, <2>2
<1>5. server' \in [owned : BOOLEAN, tasks : Seq(ServerTask), closes : Nat]
      BY <1>4 DEF ServerTask
<1>6. Channel' /\ Ownership' BY <1>3, <1>4 DEF Channel, Ownership, registered, isWriting
<1> QED BY <1>2, <1>3, <1>5, <1>6

\* handleClose on a connection closed before, whose channel a callback put back:
\* its assert fails and ends the process.
LEMMA CloseFails ==
  ASSUME Up, conn.state_ = "kDisconnected", handleClose
  PROVE  UNCHANGED <<conn, server>> /\ fate' = "TcpConnection.cpp:286"
BY DEF Up, handleClose, Closes, CloseAsserts

-----------------------------------------------------------------------------
\* Next, action by action.
LEMMA NextActions == Next =>
    \/ poll \/ handleEvents \/ dispatchClose \/ handleError \/ handleRead \/ handleWrite
    \/ doPendingTasks \/ tasksDone
    \/ connectEstablished \/ runSendInLoop \/ forceCloseInLoop
    \/ runUserCallback \/ callbackReturns
    \/ sendByLoop \/ shutdownByLoop \/ forceCloseByLoop \/ switchReading
    \/ \E t \in Threads : send(t) \/ queueInLoop(t) \/ dropReference(t)
    \/ closeConnectionInLoop \/ connectDestroyed \/ destructor
    \/ peerSends \/ peerCloses \/ peerResets \/ peerReads
BY DEF Next, LoopThread, CallbackCalls, BaseLoop

\* poll: what epoll reports fits the connection's state and interest.
LEMMA PollStep == ConnectionInv /\ poll => ConnectionInv'
<1> SUFFICES ASSUME ConnectionInv, poll PROVE ConnectionInv'
    OBVIOUS
<1>1. /\ loop.at = "poll"
      /\ loop' = [loop EXCEPT !.at = IF ReadyEvents = {} THEN "events" ELSE "active",
                              !.revents = ReadyEvents]
      /\ UNCHANGED <<conn, fate, pendingTasks, server, holds, call, sock, sent, hist>>
      BY DEF poll
<1>2. /\ ReadyEvents \subseteq {"IN", "OUT", "HUP", "ERR"}
      /\ ReadyEvents # {} => registered
      /\ "OUT" \in ReadyEvents => isWriting
      BY DEF ReadyEvents
<1>3. Types' BY <1>1, <1>2 DEF ConnectionInv, Types
<1>4. /\ loop'.at = (IF ReadyEvents = {} THEN "events" ELSE "active")
      /\ loop'.revents = ReadyEvents /\ loop'.batch = loop.batch
      /\ loop'.inCallback = loop.inCallback /\ loop.batch = <<>> /\ ~loop.inCallback
      BY <1>1 DEF ConnectionInv, Types, Round
<1>5. Round' BY <1>4 DEF Round
<1>6. Events' BY <1>1, <1>2, <1>4 DEF Events, registered, isWriting
<1>7. Phase' BY <1>1, <1>2, <1>4 DEF ConnectionInv, Phase, Channel, registered, isWriting
<1>8. Channel' /\ Ownership' BY <1>1 DEF ConnectionInv, Channel, Ownership, registered, isWriting
<1>9. Stream'
      BY <1>1 DEF ConnectionInv,
         Stream, StreamIsIntact, WriteInterest, ShutdownAfterDrain, isWriting
<1> QED BY <1>3, <1>5, <1>6, <1>7, <1>8, <1>9 DEF ConnectionInv

\* handleEvents starts the dispatch.
LEMMA HandleEventsStep == ConnectionInv /\ handleEvents => ConnectionInv'
<1> SUFFICES ASSUME ConnectionInv, handleEvents PROVE ConnectionInv'
    OBVIOUS
<1>1. /\ loop.at = "active" /\ loop' = [loop EXCEPT !.at = "events"]
      /\ UNCHANGED <<conn, fate, pendingTasks, server, holds, call, sock, sent, hist>>
      BY DEF handleEvents
<1>2. Types' BY <1>1 DEF ConnectionInv, Types
<1>3. /\ loop'.at = "events" /\ loop'.revents = loop.revents /\ loop'.batch = loop.batch
      /\ loop'.inCallback = loop.inCallback
      BY <1>1 DEF ConnectionInv, Types
<1>4. Phase' /\ Round' /\ Events' /\ Channel' /\ Ownership'
      BY <1>1, <1>3 DEF ConnectionInv, Phase, Round, Events, Channel, Ownership,
         registered, isWriting
<1>5. Stream'
      BY <1>1 DEF ConnectionInv,
         Stream, StreamIsIntact, WriteInterest, ShutdownAfterDrain, isWriting
<1> QED BY <1>2, <1>4, <1>5 DEF ConnectionInv

\* The handlers of one event.
LEMMA DispatchCloseStep == ConnectionInv /\ dispatchClose => ConnectionInv'
<1> SUFFICES ASSUME ConnectionInv, dispatchClose PROVE ConnectionInv'
    OBVIOUS
<1>1. /\ Up /\ loop.at = "events" /\ "HUP" \in loop.revents /\ "IN" \notin loop.revents
      /\ loop' = [loop EXCEPT !.revents = @ \ {"HUP"}]
      /\ handleClose
      /\ UNCHANGED <<pendingTasks, holds, call, sock, sent, hist>>
      BY DEF dispatchClose, Dispatching
<1>2. conn.state_ # "kConnecting" BY <1>1 DEF ConnectionInv, Phase
<1>3. /\ loop'.at = "events" /\ loop'.revents = loop.revents \ {"HUP"}
      /\ loop'.batch = loop.batch /\ loop'.inCallback = loop.inCallback
      BY <1>1 DEF ConnectionInv, Types
<1>4. Round' BY <1>1, <1>3 DEF ConnectionInv, Round
<1>5. CASE conn.state_ # "kDisconnected"
  <2>1. /\ conn' \in Conn /\ conn'.state_ = "kDisconnected"
        /\ conn'.outputBuffer_ = conn.outputBuffer_
        /\ server' \in [owned : BOOLEAN, tasks : Seq(ServerTask), closes : Nat]
        /\ Channel' /\ Ownership'
    <3>1. conn.state_ \in {"kConnected", "kDisconnecting"}
          BY <1>2, <1>5 DEF ConnectionInv, Types, Conn
    <3> QED BY <1>1, <3>1, CloseEffect
  <2>2. Types' BY <1>1, <2>1 DEF ConnectionInv, Types
  <2>3. Phase' /\ Events' BY <1>1, <1>2, <1>3, <2>1 DEF ConnectionInv, Phase, Events,
         registered, isWriting
  <2>4. Stream'
        BY <1>1, <2>1 DEF ConnectionInv,
           Stream, StreamIsIntact, WriteInterest, ShutdownAfterDrain
  <2> QED BY <1>4, <2>1, <2>2, <2>3, <2>4 DEF ConnectionInv
<1>6. CASE conn.state_ = "kDisconnected"
  <2>1. UNCHANGED <<conn, server>> BY <1>1, <1>6, CloseFails
  <2>2. Types' BY <1>1, <2>1 DEF ConnectionInv, Types
  <2>3. Phase' /\ Events' /\ Channel' /\ Ownership'
        BY <1>1, <1>2, <1>3, <2>1 DEF ConnectionInv, Phase, Events, Channel, Ownership,
         registered, isWriting
  <2>4. Stream'
        BY <1>1, <2>1 DEF ConnectionInv,
           Stream, StreamIsIntact, WriteInterest, ShutdownAfterDrain, isWriting
  <2> QED BY <1>4, <2>2, <2>3, <2>4 DEF ConnectionInv
<1> QED BY <1>5, <1>6

\* handleError fetches the error and leaves the events that remain.
LEMMA HandleErrorStep == ConnectionInv /\ handleError => ConnectionInv'
<1> SUFFICES ASSUME ConnectionInv, handleError PROVE ConnectionInv'
    OBVIOUS
<1>1. /\ loop.at = "events"
      /\ loop' = [loop EXCEPT !.revents = @ \ {"ERR"}]
      /\ sock' = [sock EXCEPT !.err = "none"]
      /\ UNCHANGED <<conn, fate, pendingTasks, server, holds, call, sent, hist>>
      BY DEF handleError, Dispatching
<1>2. sock' \in Sock /\ sock'.shut = sock.shut BY <1>1 DEF ConnectionInv, Types, Sock
<1>3. Types' BY <1>1, <1>2 DEF ConnectionInv, Types
<1>4. loop'.at = "events" /\ loop'.revents = loop.revents \ {"ERR"} /\ loop'.batch = loop.batch
      /\ loop'.inCallback = loop.inCallback
      BY <1>1 DEF ConnectionInv, Types
<1>5. Phase' /\ Round' /\ Events' /\ Channel' /\ Ownership'
      BY <1>1, <1>2, <1>4 DEF ConnectionInv, Phase, Round, Events, Channel, Ownership, isWriting,
         registered
<1>6. Stream'
      BY <1>1, <1>2 DEF ConnectionInv,
         Stream, StreamIsIntact, WriteInterest, ShutdownAfterDrain, isWriting
<1> QED BY <1>3, <1>5, <1>6 DEF ConnectionInv

\* handleRead: data, the end of the stream, which closes an open connection, the
\* read error that ends in Buffer::readFd, or the failing assert on a closed one.
LEMMA HandleReadStep == ConnectionInv /\ handleRead => ConnectionInv'
<1> SUFFICES ASSUME ConnectionInv, handleRead PROVE ConnectionInv'
    OBVIOUS
<1>1. /\ loop.at = "events" /\ "IN" \in loop.revents
      /\ loop' = [loop EXCEPT !.revents = @ \ {"IN", "HUP"}, !.inCallback = sock.rx]
      /\ sock' = [sock EXCEPT !.rx = FALSE]
      /\ UNCHANGED <<pendingTasks, holds, call, sent, hist>>
      BY DEF handleRead, Dispatching
<1>2. conn.state_ # "kConnecting" BY <1>1 DEF ConnectionInv, Phase
<1>3. sock' \in Sock /\ sock'.shut = sock.shut /\ sock.rx \in BOOLEAN
      BY <1>1 DEF ConnectionInv, Types, Sock
<1>4. /\ loop'.at = "events" /\ loop'.revents = loop.revents \ {"IN", "HUP"}
      /\ loop'.batch = loop.batch
      /\ loop' \in [at : {"poll", "active", "events", "tasks"}, inCallback : BOOLEAN,
                    revents : SUBSET {"IN", "OUT", "HUP", "ERR"},
                    batch : Seq(LaterTask \cup {Establish})]
      BY <1>1, <1>3 DEF ConnectionInv, Types
<1>5. Round' BY <1>1, <1>4 DEF ConnectionInv, Round
<1>6. CASE conn.state_ # "kDisconnected" /\ ~sock.rx /\ sock.err = "none"
  <2>1. handleClose BY <1>6 DEF handleRead
  <2>2. /\ conn' \in Conn /\ conn'.state_ = "kDisconnected"
        /\ conn'.outputBuffer_ = conn.outputBuffer_
        /\ server' \in [owned : BOOLEAN, tasks : Seq(ServerTask), closes : Nat]
        /\ Channel' /\ Ownership'
    <3>1. conn.state_ \in {"kConnected", "kDisconnecting"}
          BY <1>2, <1>6 DEF ConnectionInv, Types, Conn
    <3> QED BY <2>1, <3>1, CloseEffect
  <2>3. Types' BY <1>1, <1>3, <1>4, <2>2 DEF ConnectionInv, Types
  <2>4. Phase' /\ Events' BY <1>1, <1>2, <1>4, <2>2 DEF ConnectionInv, Phase, Events,
         registered, isWriting
  <2>5. Stream'
        BY <1>1, <1>3, <2>2 DEF ConnectionInv,
           Stream, StreamIsIntact, WriteInterest, ShutdownAfterDrain
  <2> QED BY <1>5, <2>2, <2>3, <2>4, <2>5 DEF ConnectionInv
<1>7. CASE ~(conn.state_ # "kDisconnected" /\ ~sock.rx /\ sock.err = "none")
  <2>1. UNCHANGED <<conn, server>> BY <1>7 DEF handleRead
  <2>2. Types' BY <1>1, <1>3, <1>4, <2>1 DEF ConnectionInv, Types
  <2>3. Phase' /\ Events' /\ Channel' /\ Ownership'
        BY <1>1, <1>2, <1>4, <2>1 DEF ConnectionInv, Phase, Events, Channel, Ownership,
         registered, isWriting
  <2>4. Stream'
        BY <1>1, <1>3, <2>1 DEF ConnectionInv,
           Stream, StreamIsIntact, WriteInterest, ShutdownAfterDrain, isWriting
  <2> QED BY <1>5, <2>2, <2>3, <2>4 DEF ConnectionInv
<1> QED BY <1>6, <1>7

\* handleWrite keeps the stream whole: what it writes moves from the front of the
\* buffer to the end of the wire.
LEMMA WriteKeepsStream ==
  ASSUME conn \in Conn, sock \in Sock, hist \in Hist, StreamIsIntact,
         NEW T, CallbackTask \subseteq T, pendingTasks \in Seq(T), handleWrite
  PROVE  /\ conn' \in Conn /\ sock' \in Sock /\ hist' \in Hist
         /\ pendingTasks' \in Seq(T)
         /\ conn'.state_ = conn.state_
         /\ conn'.events_ \in {conn.events_, conn.events_ \ {"OUT"}}
         /\ fate' \in {fate, "TcpConnection.cpp:263", "SIGPIPE"}
         /\ fate' = "SIGPIPE" => WriteFails'
         /\ StreamIsIntact'
<1> DEFINE out  == conn.outputBuffer_
           n    == Lower(Len(out), sock.room)
           rest == SubSeq(out, n + 1, Len(out))
           done == rest = <<>>
<1>1. /\ fate' \in {fate, "TcpConnection.cpp:263", "SIGPIPE"}
      /\ fate' = "SIGPIPE" => WriteFails /\ UNCHANGED sock
      BY DEF handleWrite, WriteSignals, Dispatching, Up
<1>2. CASE conn.state_ = "kDisconnected" \/ fate' # fate \/ WriteFails
  <2>1. /\ sock' = sock \/ sock' = [sock EXCEPT !.err = "none"]
        /\ UNCHANGED <<conn, pendingTasks, hist>>
        BY <1>2 DEF handleWrite
  <2>2. sock' \in Sock BY <2>1 DEF Sock
  <2> QED BY <1>1, <2>1, <2>2 DEF StreamIsIntact, WriteFails
<1>3. CASE conn.state_ # "kDisconnected" /\ fate' = fate /\ ~WriteFails
  <2>1. /\ conn' = [conn EXCEPT !.outputBuffer_ = rest,
                                !.events_ = IF done THEN disableWrite ELSE @]
        /\ sock' = [sock EXCEPT
               !.room = @ - n,
               !.shut = IF done /\ conn.state_ = "kDisconnecting"
                        THEN shutdownInLoop(conn.state_, disableWrite) ELSE @]
        /\ pendingTasks' = pendingTasks \o (IF done THEN WriteComplete ELSE <<>>)
        /\ hist' = [hist EXCEPT !.wire = @ \o SubSeq(out, 1, n)]
        BY <1>3 DEF handleWrite
  <2>2. out \in Seq(Byte) /\ Len(out) \in Nat /\ sock.room \in Nat
        BY LenProperties, ConnectionAssumption DEF Conn, Sock
  <2>3. n \in Nat /\ n <= Len(out) /\ n <= sock.room BY <2>2 DEF Lower
  <2>4. /\ SubSeq(out, 1, n) \in Seq(Byte) /\ rest \in Seq(Byte)
        /\ SubSeq(out, 1, n) \o rest = out
        BY <2>2, <2>3, SplitAt
  <2>5. /\ conn' \in Conn /\ conn'.state_ = conn.state_ /\ conn'.outputBuffer_ = rest
        /\ conn'.events_ \in {conn.events_, conn.events_ \ {"OUT"}}
        BY <2>1, <2>4 DEF Conn, disableWrite
  <2>6. hist.wire \in Seq(Byte) /\ hist.accepted \in Seq(Byte) BY DEF Hist
  <2>7. /\ hist' \in Hist /\ hist'.accepted = hist.accepted
        /\ hist'.wire = hist.wire \o SubSeq(out, 1, n)
    <3>1. hist.wire \o SubSeq(out, 1, n) \in Seq(Byte) BY <2>4, <2>6, ConcatProperties
    <3> QED BY <3>1, <2>1 DEF Hist
  <2>8. hist'.wire \o rest = hist.accepted
    <3>1. hist.wire \o out = hist.accepted BY DEF StreamIsIntact
    <3> HIDE DEF n, rest, out
    <3>2. (hist.wire \o SubSeq(out, 1, n)) \o rest = hist.wire \o (SubSeq(out, 1, n) \o rest)
          BY <2>4, <2>6, BytesAssociative
    <3> QED BY <3>1, <3>2, <2>4, <2>7
  <2>9. StreamIsIntact' BY <2>5, <2>7, <2>8 DEF StreamIsIntact
  <2>10. sock' \in Sock
    <3>1. sock.room - n \in 0 .. SndBuf BY <2>3, ConnectionAssumption DEF Sock
    <3>2. shutdownInLoop(conn.state_, disableWrite) \in BOOLEAN BY DEF shutdownInLoop, Sock
    <3> QED BY <2>1, <3>1, <3>2 DEF Sock
  <2>11. pendingTasks' \in Seq(T)
    <3>1. WriteComplete \in Seq(T) BY DEF WriteComplete, CallbackTask
    <3> QED BY <2>1, <3>1, EmptySeq, ConcatProperties
  <2> QED BY <1>1, <1>3, <2>5, <2>7, <2>9, <2>10, <2>11
<1> QED BY <1>2, <1>3

\* handleWrite where the write succeeds: with the last byte it stops waiting and makes up
\* for a shutdown().
LEMMA WriteEffect ==
  ASSUME ConnectionInv, handleWrite, conn.state_ # "kDisconnected", fate' = fate, ~WriteFails
  PROVE  /\ conn' \in Conn /\ sock' \in Sock /\ hist' \in Hist
         /\ pendingTasks' \in Seq(LaterTask)
         /\ conn'.state_ = conn.state_ /\ Channel' /\ Stream'
<1> DEFINE out  == conn.outputBuffer_
           n    == Lower(Len(out), sock.room)
           rest == SubSeq(out, n + 1, Len(out))
           done == rest = <<>>
<1>1. /\ conn' = [conn EXCEPT !.outputBuffer_ = rest,
                              !.events_ = IF done THEN disableWrite ELSE @]
      /\ sock' = [sock EXCEPT
             !.room = @ - n,
             !.shut = IF done /\ conn.state_ = "kDisconnecting"
                      THEN shutdownInLoop(conn.state_, disableWrite) ELSE @]
      /\ loop.revents = {"OUT"} /\ ~sock.shut
      BY DEF handleWrite, WriteFails
<1>2. /\ conn \in Conn /\ sock \in Sock /\ hist \in Hist /\ StreamIsIntact
      /\ conn.state_ \in {"kConnected", "kDisconnecting"}
      /\ pendingTasks \in Seq(LaterTask) /\ CallbackTask \subseteq LaterTask
      BY <1>1 DEF ConnectionInv, Types, Phase, Conn, Stream, LaterTask, CallbackTask
<1>3. /\ conn' \in Conn /\ sock' \in Sock /\ hist' \in Hist
      /\ pendingTasks' \in Seq(LaterTask) /\ conn'.state_ = conn.state_
      /\ StreamIsIntact'
      BY <1>2, WriteKeepsStream
<1>4. /\ conn'.outputBuffer_ = rest
      /\ conn'.events_ = IF done THEN conn.events_ \ {"OUT"} ELSE conn.events_
      BY <1>1, <1>2 DEF Conn, disableWrite
<1>5. Channel' BY <1>2, <1>3, <1>4 DEF ConnectionInv, Channel, registered, isWriting
<1>6. isWriting BY <1>1, <1>2 DEF ConnectionInv, Events, registered, isWriting
<1>7. WriteInterest' BY <1>4, <1>6 DEF WriteInterest, isWriting
<1>8. sock'.shut => done BY <1>1, <1>2 DEF Sock
<1>9. ShutdownAfterDrain'
  <2>1. ASSUME sock'.shut PROVE conn'.outputBuffer_ = <<>> /\ hist'.wire = hist'.accepted
    <3>1. conn'.outputBuffer_ = <<>> BY <2>1, <1>4, <1>8
    <3>2. hist'.wire \in Seq(Byte) BY <1>3 DEF Hist
    <3>3. hist'.wire \o <<>> = hist'.wire BY <3>2, ConcatEmptySeq
    <3> QED BY <3>1, <3>3, <1>3 DEF StreamIsIntact
  <2> QED BY <2>1 DEF ShutdownAfterDrain
<1> QED BY <1>3, <1>5, <1>7, <1>9 DEF Stream

\* handleWrite: what it writes moves from the buffer to the wire; a failing write
\* takes nothing.
LEMMA HandleWriteStep == ConnectionInv /\ handleWrite => ConnectionInv'
<1> SUFFICES ASSUME ConnectionInv, handleWrite PROVE ConnectionInv'
    OBVIOUS
<1>1. /\ loop.at = "events" /\ loop.revents = {"OUT"}
      /\ loop' = [loop EXCEPT !.revents = {}]
      /\ UNCHANGED <<server, holds, call, sent>>
      BY DEF handleWrite, Dispatching
<1>2. /\ loop'.revents = {} /\ loop'.batch = loop.batch /\ loop'.at = "events"
      /\ loop' \in [at : {"poll", "active", "events", "tasks"}, inCallback : BOOLEAN,
                    revents : SUBSET {"IN", "OUT", "HUP", "ERR"},
                    batch : Seq(LaterTask \cup {Establish})]
      BY <1>1 DEF ConnectionInv, Types
<1>3. conn.state_ # "kConnecting" BY <1>1 DEF ConnectionInv, Phase
<1>4. CASE conn.state_ = "kDisconnected" \/ fate' # fate \/ WriteFails
  <2>1. /\ sock' = sock \/ sock' = [sock EXCEPT !.err = "none"]
        /\ UNCHANGED <<conn, pendingTasks, hist>>
        BY <1>4 DEF handleWrite
  <2>2. sock' \in Sock /\ sock'.shut = sock.shut BY <2>1 DEF ConnectionInv, Types, Sock
  <2>3. Types' BY <1>1, <1>2, <2>1, <2>2 DEF ConnectionInv, Types
  <2>4. Phase' /\ Round' /\ Events' /\ Channel' /\ Ownership'
        BY <1>1, <1>2, <1>3, <2>1
        DEF ConnectionInv, Phase, Round, Events, Channel, Ownership, registered, isWriting
  <2>5. Stream'
        BY <2>1, <2>2 DEF ConnectionInv,
           Stream, StreamIsIntact, WriteInterest, ShutdownAfterDrain, isWriting
  <2> QED BY <2>3, <2>4, <2>5 DEF ConnectionInv
<1>5. CASE conn.state_ # "kDisconnected" /\ fate' = fate /\ ~WriteFails
  <2>1. /\ conn' \in Conn /\ sock' \in Sock /\ hist' \in Hist
        /\ pendingTasks' \in Seq(LaterTask)
        /\ conn'.state_ = conn.state_ /\ Channel' /\ Stream'
        BY <1>5, WriteEffect
  <2>2. pendingTasks' \in Seq(LaterTask \cup {Establish}) BY <2>1, SeqMonotonic
  <2>3. Types' BY <1>1, <1>2, <2>1, <2>2 DEF ConnectionInv, Types
  <2>4. Phase' /\ Round' /\ Events' /\ Ownership'
        BY <1>1, <1>2, <1>3, <2>1 DEF ConnectionInv, Phase, Round, Events, Ownership,
         registered, isWriting
  <2> QED BY <2>1, <2>3, <2>4 DEF ConnectionInv
<1> QED BY <1>4, <1>5

-----------------------------------------------------------------------------
(* The batch of tasks *)

LoopType == [at : {"poll", "active", "events", "tasks"}, inCallback : BOOLEAN,
             revents : SUBSET {"IN", "OUT", "HUP", "ERR"},
             batch : Seq(LaterTask \cup {Establish})]

\* doPendingTasks moves the queue, which keeps its kind, into the batch.
LEMMA DoPendingTasksStep == ConnectionInv /\ doPendingTasks => ConnectionInv'
<1> SUFFICES ASSUME ConnectionInv, doPendingTasks PROVE ConnectionInv'
    OBVIOUS
<1>1. /\ loop.at = "events" /\ loop.revents = {}
      /\ loop' = [loop EXCEPT !.at = "tasks", !.batch = pendingTasks]
      /\ pendingTasks' = <<>>
      /\ UNCHANGED <<conn, fate, server, holds, call, sock, sent, hist>>
      BY DEF doPendingTasks, Dispatching
<1>2. <<>> \in Seq(LaterTask) /\ <<>> \in Seq(LaterTask \cup {Establish}) BY EmptySeq
<1>3. /\ loop' \in LoopType /\ loop'.at = "tasks" /\ loop'.revents = {}
      /\ loop'.batch = pendingTasks /\ loop'.inCallback = loop.inCallback
      BY <1>1 DEF ConnectionInv, Types, LoopType
<1>4. Types' BY <1>1, <1>2, <1>3 DEF ConnectionInv, Types, LoopType
<1>5. loop.batch = <<>> BY <1>1 DEF ConnectionInv, Round
<1>6. Phase' /\ Round' /\ Events' /\ Channel' /\ Ownership'
      BY <1>1, <1>2, <1>3, <1>5 DEF ConnectionInv, Phase, Round, Events, Channel, Ownership,
         registered, isWriting
<1>7. Stream'
      BY <1>1 DEF ConnectionInv,
         Stream, StreamIsIntact, WriteInterest, ShutdownAfterDrain, isWriting
<1> QED BY <1>4, <1>6, <1>7 DEF ConnectionInv

\* The loop polls again when the batch is empty.
LEMMA TasksDoneStep == ConnectionInv /\ tasksDone => ConnectionInv'
<1> SUFFICES ASSUME ConnectionInv, tasksDone PROVE ConnectionInv'
    OBVIOUS
<1>1. /\ loop.at = "tasks" /\ loop.batch = <<>> /\ ~loop.inCallback
      /\ loop' = [loop EXCEPT !.at = "poll"]
      /\ UNCHANGED <<conn, fate, pendingTasks, server, holds, call, sock, sent, hist>>
      BY DEF tasksDone
<1>2. /\ loop' \in LoopType /\ loop'.at = "poll" /\ loop'.revents = loop.revents
      /\ loop'.batch = <<>> /\ loop'.inCallback = loop.inCallback
      BY <1>1 DEF ConnectionInv, Types, LoopType
<1>3. Types' BY <1>1, <1>2 DEF ConnectionInv, Types, LoopType
<1>4. Phase' /\ Round' /\ Events' /\ Channel' /\ Ownership'
      BY <1>1, <1>2 DEF ConnectionInv, Phase, Round, Events, Channel, Ownership,
         registered, isWriting
<1>5. Stream'
      BY <1>1 DEF ConnectionInv,
         Stream, StreamIsIntact, WriteInterest, ShutdownAfterDrain, isWriting
<1> QED BY <1>3, <1>4, <1>5 DEF ConnectionInv

\* A task of the batch other than connectEstablished runs in an established
\* connection, with no event left to dispatch.
LEMMA RunningEffect ==
  ASSUME ConnectionInv, NEW op \in {"forceCloseInLoop", "writeCompleteCallback",
                                    "highWaterMarkCallback", "sendInLoop"},
         NEW calls \in BOOLEAN, Running(op, calls)
  PROVE  /\ conn.state_ # "kConnecting"
         /\ Head(loop.batch) \in LaterTask /\ Head(loop.batch).op = op
         /\ loop' \in LoopType /\ loop'.batch \in Seq(LaterTask)
         /\ loop'.revents = {} /\ loop'.at = "tasks" /\ Round'
<1>1. /\ loop.at = "tasks" /\ loop.batch # <<>> /\ Head(loop.batch).op = op
      /\ loop' = [loop EXCEPT !.batch = Tail(@), !.inCallback = calls]
      BY DEF Running
<1>2. conn.state_ # "kConnecting"
  <2>1. Head(<<Establish>>).op = "connectEstablished" BY DEF Establish
  <2> QED BY <2>1, <1>1 DEF ConnectionInv, Phase
<1>3. loop.batch \in Seq(LaterTask) BY <1>2 DEF ConnectionInv, Phase
<1>4. Head(loop.batch) \in LaterTask /\ Tail(loop.batch) \in Seq(LaterTask)
      BY <1>1, <1>3, HeadTailProperties
<1>5. Tail(loop.batch) \in Seq(LaterTask \cup {Establish}) BY <1>4, SeqMonotonic
<1>6. loop' \in LoopType /\ loop'.batch = Tail(loop.batch) /\ loop'.at = "tasks"
      /\ loop'.revents = loop.revents
      BY <1>1, <1>5 DEF ConnectionInv, Types, LoopType
<1>7. loop.revents = {} BY <1>1 DEF ConnectionInv, Round
<1> QED BY <1>1, <1>2, <1>4, <1>6, <1>7 DEF Round

\* connectEstablished is the first task, so its assert finds kConnecting.
LEMMA EstablishedFirst ==
  ASSUME ConnectionInv, connectEstablished
  PROVE  conn.state_ = "kConnecting" /\ fate' = fate
<1>1. /\ loop.batch # <<>> /\ Head(loop.batch).op = "connectEstablished"
      /\ Assert(conn.state_ = "kConnecting", "TcpConnection.cpp:74")
      BY DEF connectEstablished, Running
<1>2. conn.state_ = "kConnecting"
  <2>1. SUFFICES ASSUME loop.batch \in Seq(LaterTask) PROVE FALSE
        BY DEF ConnectionInv, Phase
  <2>2. Head(loop.batch) \in LaterTask BY <2>1, <1>1, HeadTailProperties
  <2> QED BY <2>2, <1>1 DEF LaterTask
<1> QED BY <1>1, <1>2 DEF Assert

\* It puts the channel into the poller for reading.
LEMMA ConnectEstablishedStep == ConnectionInv /\ connectEstablished => ConnectionInv'
<1> SUFFICES ASSUME ConnectionInv, connectEstablished PROVE ConnectionInv'
    OBVIOUS
<1>1. /\ loop.at = "tasks" /\ loop.batch # <<>> /\ Head(loop.batch).op = "connectEstablished"
      /\ loop' = [loop EXCEPT !.batch = Tail(@), !.inCallback = TRUE]
      /\ conn' = [conn EXCEPT !.state_ = "kConnected", !.events_ = enableRead]
      /\ holds' = [t \in Threads |-> TRUE]
      /\ UNCHANGED <<pendingTasks, server, call, sock, sent, hist>>
      BY DEF connectEstablished, Running
<1>2. conn.state_ = "kConnecting" BY EstablishedFirst
<1>3. loop.batch = <<Establish>> /\ pendingTasks = <<>> /\ loop.revents = {}
      /\ conn.outputBuffer_ = <<>> /\ ~sock.shut
      BY <1>1, <1>2 DEF ConnectionInv, Phase
<1>4. <<>> \in Seq(LaterTask) /\ <<>> \in Seq(LaterTask \cup {Establish}) BY EmptySeq
<1>5. Tail(loop.batch) = <<>> BY <1>3
<1>6. /\ loop' \in LoopType /\ loop'.batch = <<>> /\ loop'.revents = {} /\ loop'.at = "tasks"
      BY <1>1, <1>3, <1>4, <1>5 DEF ConnectionInv, Types, LoopType
<1>7. /\ conn' \in Conn /\ conn'.state_ = "kConnected" /\ conn'.outputBuffer_ = <<>>
      /\ conn'.events_ = conn.events_ \cup {"IN", "PRI"}
      BY <1>1, <1>3 DEF ConnectionInv, Types, Conn, enableRead
<1>8. conn.events_ = {} BY <1>2 DEF ConnectionInv, Channel, registered, isWriting
<1>9. Types' BY <1>1, <1>6, <1>7 DEF ConnectionInv, Types, LoopType
<1>10. Phase' /\ Round' /\ Events' /\ Channel' /\ Ownership'
      BY <1>1, <1>2, <1>3, <1>4, <1>6, <1>7
      DEF ConnectionInv, Phase, Round, Events, Channel, Ownership, registered, isWriting
<1>11. Stream'
      BY <1>1, <1>3, <1>7, <1>8 DEF ConnectionInv,
         Stream, StreamIsIntact, WriteInterest, ShutdownAfterDrain, isWriting
<1> QED BY <1>9, <1>10, <1>11 DEF ConnectionInv

\* sendInLoop as a task of another thread, whatever state_ is by then.
LEMMA RunSendInLoopStep == ConnectionInv /\ runSendInLoop => ConnectionInv'
<1> SUFFICES ASSUME ConnectionInv, runSendInLoop PROVE ConnectionInv'
    OBVIOUS
<1>1. /\ Running("sendInLoop", FALSE) /\ sendInLoop(Head(loop.batch).msg)
      /\ UNCHANGED <<server, holds, call, sent>>
      BY DEF runSendInLoop
<1>2. /\ conn.state_ # "kConnecting"
      /\ Head(loop.batch) \in LaterTask /\ Head(loop.batch).op = "sendInLoop"
      /\ loop' \in LoopType /\ loop'.batch \in Seq(LaterTask)
      /\ loop'.revents = {} /\ loop'.at = "tasks" /\ Round'
      BY <1>1, RunningEffect
<1>3. Head(loop.batch).msg \in Messages BY <1>2 DEF LaterTask
<1>4. /\ conn' \in Conn /\ sock' \in Sock /\ hist' \in Hist
      /\ pendingTasks' \in Seq(LaterTask)
      /\ conn'.state_ = conn.state_ /\ Channel' /\ Stream'
      BY <1>1, <1>2, <1>3, SendEffect DEF Running
<1>5. pendingTasks' \in Seq(LaterTask \cup {Establish}) BY <1>4, SeqMonotonic
<1>6. Types' BY <1>1, <1>2, <1>4, <1>5 DEF ConnectionInv, Types, LoopType
<1>7. Phase' /\ Events' /\ Ownership'
      BY <1>1, <1>2, <1>4 DEF ConnectionInv, Phase, Events, Ownership, registered, isWriting
<1> QED BY <1>2, <1>4, <1>6, <1>7 DEF ConnectionInv

\* forceCloseInLoop closes only what is not closed.
LEMMA ForceCloseInLoopStep == ConnectionInv /\ forceCloseInLoop => ConnectionInv'
<1> SUFFICES ASSUME ConnectionInv, forceCloseInLoop PROVE ConnectionInv'
    OBVIOUS
<1>1. /\ Running("forceCloseInLoop", FALSE)
      /\ IF conn.state_ # "kDisconnected" THEN handleClose ELSE UNCHANGED <<conn, fate, server>>
      /\ UNCHANGED <<pendingTasks, holds, call, sock, sent, hist>>
      BY DEF forceCloseInLoop
<1>2. /\ conn.state_ # "kConnecting"
      /\ loop' \in LoopType /\ loop'.batch \in Seq(LaterTask)
      /\ loop'.revents = {} /\ loop'.at = "tasks" /\ Round'
      BY <1>1, RunningEffect
<1>3. CASE conn.state_ # "kDisconnected"
  <2>1. conn.state_ \in {"kConnected", "kDisconnecting"}
        BY <1>2, <1>3 DEF ConnectionInv, Types, Conn
  <2>2. /\ conn' \in Conn /\ conn'.state_ = "kDisconnected"
        /\ conn'.outputBuffer_ = conn.outputBuffer_
        /\ server' \in [owned : BOOLEAN, tasks : Seq(ServerTask), closes : Nat]
        /\ fate' = fate /\ Channel' /\ Ownership'
        BY <1>1, <1>3, <2>1, CloseEffect
  <2>3. Types' BY <1>1, <1>2, <2>2 DEF ConnectionInv, Types, LoopType
  <2>4. Phase' /\ Events' BY <1>1, <1>2, <2>2 DEF ConnectionInv, Phase, Events,
         registered, isWriting
  <2>5. Stream'
        BY <1>1, <2>2 DEF ConnectionInv,
           Stream, StreamIsIntact, WriteInterest, ShutdownAfterDrain
  <2> QED BY <1>2, <2>2, <2>3, <2>4, <2>5 DEF ConnectionInv
<1>4. CASE conn.state_ = "kDisconnected"
  <2>1. UNCHANGED <<conn, fate, server>> BY <1>1, <1>4
  <2>2. Types' BY <1>1, <1>2, <2>1 DEF ConnectionInv, Types, LoopType
  <2>3. Phase' /\ Events' /\ Channel' /\ Ownership'
        BY <1>1, <1>2, <2>1 DEF ConnectionInv, Phase, Events, Channel, Ownership,
         registered, isWriting
  <2>4. Stream'
        BY <1>1, <2>1 DEF ConnectionInv,
           Stream, StreamIsIntact, WriteInterest, ShutdownAfterDrain, isWriting
  <2> QED BY <1>2, <2>2, <2>3, <2>4 DEF ConnectionInv
<1> QED BY <1>3, <1>4

\* A write-complete or high-water-mark callback starts.
LEMMA RunUserCallbackStep == ConnectionInv /\ runUserCallback => ConnectionInv'
<1> SUFFICES ASSUME ConnectionInv, runUserCallback PROVE ConnectionInv'
    OBVIOUS
<1>1. /\ Running("writeCompleteCallback", TRUE) \/ Running("highWaterMarkCallback", TRUE)
      /\ UNCHANGED <<conn, fate, pendingTasks, server, holds, call, sock, sent, hist>>
      BY DEF runUserCallback
<1>2. /\ conn.state_ # "kConnecting"
      /\ loop' \in LoopType /\ loop'.batch \in Seq(LaterTask)
      /\ loop'.revents = {} /\ loop'.at = "tasks" /\ Round'
      BY <1>1, RunningEffect
<1>3. Types' BY <1>1, <1>2 DEF ConnectionInv, Types, LoopType
<1>4. Phase' /\ Events' /\ Channel' /\ Ownership'
      BY <1>1, <1>2 DEF ConnectionInv, Phase, Events, Channel, Ownership, registered, isWriting
<1>5. Stream'
      BY <1>1 DEF ConnectionInv,
         Stream, StreamIsIntact, WriteInterest, ShutdownAfterDrain, isWriting
<1> QED BY <1>2, <1>3, <1>4, <1>5 DEF ConnectionInv

-----------------------------------------------------------------------------
(* Calls from a callback and from other threads *)

\* In a callback the connection has been established.
LEMMA CallbackReturnsStep == ConnectionInv /\ callbackReturns => ConnectionInv'
<1> SUFFICES ASSUME ConnectionInv, callbackReturns PROVE ConnectionInv'
    OBVIOUS
<1>1. /\ loop.inCallback /\ loop' = [loop EXCEPT !.inCallback = FALSE]
      /\ UNCHANGED <<conn, fate, pendingTasks, server, holds, call, sock, sent, hist>>
      BY DEF callbackReturns, InLoopCall
<1>2. /\ loop' \in LoopType /\ loop'.revents = loop.revents
      /\ loop'.batch = loop.batch /\ loop'.at = loop.at
      BY <1>1 DEF ConnectionInv, Types, LoopType
<1>3. Types' BY <1>1, <1>2 DEF ConnectionInv, Types, LoopType
<1>4. Phase' /\ Round' /\ Events' /\ Channel' /\ Ownership'
      BY <1>1, <1>2 DEF ConnectionInv, Phase, Round, Events, Channel, Ownership, isWriting,
         registered
<1>5. Stream'
      BY <1>1 DEF ConnectionInv,
         Stream, StreamIsIntact, WriteInterest, ShutdownAfterDrain, isWriting
<1> QED BY <1>3, <1>4, <1>5 DEF ConnectionInv

\* send() in a callback writes at once.
LEMMA SendByLoopStep == ConnectionInv /\ sendByLoop => ConnectionInv'
<1> SUFFICES ASSUME ConnectionInv, sendByLoop PROVE ConnectionInv'
    OBVIOUS
<1>1. /\ Up /\ loop.inCallback /\ UNCHANGED <<loop, server, holds, call>>
      BY DEF sendByLoop, InLoopCall
<1>2. conn.state_ # "kConnecting" BY <1>1 DEF ConnectionInv, Phase
<1>3. PICK m \in Messages :
         IF conn.state_ = "kConnected" THEN sendInLoop(m)
         ELSE UNCHANGED <<conn, fate, pendingTasks, sock, hist>>
      BY DEF sendByLoop
<1>4. CASE conn.state_ = "kConnected"
  <2>1. /\ conn' \in Conn /\ sock' \in Sock /\ hist' \in Hist
        /\ pendingTasks' \in Seq(LaterTask)
        /\ conn'.state_ = conn.state_ /\ Channel'
        /\ isWriting => isWriting'
        /\ registered => registered'
        /\ Stream'
        BY <1>1, <1>2, <1>3, <1>4, SendEffect
  <2>2. pendingTasks' \in Seq(LaterTask \cup {Establish}) BY <2>1, SeqMonotonic
  <2>3. Types' BY <1>1, <2>1, <2>2 DEF ConnectionInv, Types
  <2>4. Phase' /\ Round' /\ Events' /\ Ownership'
        BY <1>1, <1>2, <2>1 DEF ConnectionInv, Phase, Round, Events, Ownership,
         registered, isWriting
  <2> QED BY <2>1, <2>3, <2>4 DEF ConnectionInv
<1>5. CASE conn.state_ # "kConnected"
  <2>1. UNCHANGED <<conn, fate, pendingTasks, sock, hist>> BY <1>3, <1>5
  <2>2. Types' BY <1>1, <2>1 DEF ConnectionInv, Types
  <2>3. Phase' /\ Round' /\ Events' /\ Channel' /\ Ownership'
        BY <1>1, <2>1 DEF ConnectionInv, Phase, Round, Events, Channel, Ownership, isWriting,
         registered
  <2>4. Stream'
        BY <2>1 DEF ConnectionInv,
           Stream, StreamIsIntact, WriteInterest, ShutdownAfterDrain, isWriting
  <2> QED BY <2>2, <2>3, <2>4 DEF ConnectionInv
<1> QED BY <1>4, <1>5

\* The exchange of state_ leaves an open connection open.
LEMMA ExchangeEffect ==
  ASSUME ConnectionInv, conn.state_ \in {"kConnected", "kDisconnecting"}, stateAtomicGetAndSet
  PROVE  /\ conn' \in Conn /\ conn'.state_ = "kDisconnecting"
         /\ conn'.events_ = conn.events_ /\ conn'.outputBuffer_ = conn.outputBuffer_
BY DEF ConnectionInv, Types, Conn, stateAtomicGetAndSet

\* shutdown() in a callback calls SHUT_WR only if no output is left.
LEMMA ShutdownByLoopStep == ConnectionInv /\ shutdownByLoop => ConnectionInv'
<1> SUFFICES ASSUME ConnectionInv, shutdownByLoop PROVE ConnectionInv'
    OBVIOUS
<1>1. /\ loop.inCallback /\ conn.state_ # "kDisconnected" /\ stateAtomicGetAndSet
      /\ sock' = [sock EXCEPT !.shut = IF conn.state_ = "kConnected"
                                       THEN shutdownInLoop("kDisconnecting", conn.events_) ELSE @]
      /\ UNCHANGED <<fate, loop, pendingTasks, server, holds, call, sent, hist>>
      BY DEF shutdownByLoop, InLoopCall
<1>2. conn.state_ \in {"kConnected", "kDisconnecting"}
      BY <1>1 DEF ConnectionInv, Phase, Types, Conn
<1>3. /\ conn' \in Conn /\ conn'.state_ = "kDisconnecting"
      /\ conn'.events_ = conn.events_ /\ conn'.outputBuffer_ = conn.outputBuffer_
      BY <1>1, <1>2, ExchangeEffect
<1>4. sock' \in Sock /\ (sock'.shut => sock.shut \/ ~isWriting)
  <2>1. shutdownInLoop("kDisconnecting", conn.events_) \in BOOLEAN
        BY DEF ConnectionInv, Types, Sock, shutdownInLoop
  <2>2. shutdownInLoop("kDisconnecting", conn.events_) => sock.shut \/ ~isWriting
        BY DEF shutdownInLoop, isWriting
  <2> QED BY <1>1, <2>1, <2>2 DEF ConnectionInv, Types, Sock
<1>5. Types' BY <1>1, <1>3, <1>4 DEF ConnectionInv, Types
<1>6. Phase' /\ Round' /\ Events' /\ Channel' /\ Ownership'
      BY <1>1, <1>2, <1>3
      DEF ConnectionInv, Phase, Round, Events, Channel, Ownership, isWriting,
         registered
<1>7. StreamIsIntact' /\ WriteInterest'
      BY <1>1, <1>2, <1>3 DEF ConnectionInv, Stream, StreamIsIntact, WriteInterest, isWriting
<1>8. ShutdownAfterDrain'
  <2>1. ASSUME sock'.shut, ~isWriting PROVE conn.outputBuffer_ = <<>> /\ hist.wire = hist.accepted
    <3>1. conn.outputBuffer_ = <<>>
          BY <2>1, <1>2 DEF ConnectionInv, Stream, WriteInterest
    <3>2. hist.wire \in Seq(Byte) BY DEF ConnectionInv, Types, Hist
    <3>3. hist.wire \o <<>> = hist.wire BY <3>2, ConcatEmptySeq
    <3> QED BY <3>1, <3>3 DEF ConnectionInv, Stream, StreamIsIntact
  <2> QED BY <2>1, <1>1, <1>3, <1>4 DEF ConnectionInv, Stream, ShutdownAfterDrain
<1> QED BY <1>5, <1>6, <1>7, <1>8 DEF ConnectionInv, Stream

\* forceClose() in a callback queues a task that comes after connectEstablished.
LEMMA ForceCloseByLoopStep == ConnectionInv /\ forceCloseByLoop => ConnectionInv'
<1> SUFFICES ASSUME ConnectionInv, forceCloseByLoop PROVE ConnectionInv'
    OBVIOUS
<1>1. /\ loop.inCallback /\ conn.state_ # "kDisconnected" /\ stateAtomicGetAndSet
      /\ pendingTasks' = Append(pendingTasks, [op |-> "forceCloseInLoop"])
      /\ UNCHANGED <<fate, loop, server, holds, call, sock, sent, hist>>
      BY DEF forceCloseByLoop, InLoopCall
<1>2. conn.state_ \in {"kConnected", "kDisconnecting"}
      BY <1>1 DEF ConnectionInv, Phase, Types, Conn
<1>3. /\ conn' \in Conn /\ conn'.state_ = "kDisconnecting"
      /\ conn'.events_ = conn.events_ /\ conn'.outputBuffer_ = conn.outputBuffer_
      BY <1>1, <1>2, ExchangeEffect
<1>4. pendingTasks' \in Seq(LaterTask) /\ pendingTasks' \in Seq(LaterTask \cup {Establish})
  <2>1. [op |-> "forceCloseInLoop"] \in LaterTask BY DEF LaterTask
  <2>2. pendingTasks \in Seq(LaterTask) BY <1>2 DEF ConnectionInv, Phase
  <2>3. pendingTasks' \in Seq(LaterTask) BY <1>1, <2>1, <2>2, AppendProperties
  <2> QED BY <2>3, SeqMonotonic
<1>5. Types' BY <1>1, <1>3, <1>4 DEF ConnectionInv, Types
<1>6. Phase' /\ Round' /\ Events' /\ Channel' /\ Ownership'
      BY <1>1, <1>2, <1>3, <1>4
      DEF ConnectionInv, Phase, Round, Events, Channel, Ownership, isWriting,
         registered
<1>7. Stream'
      BY <1>1, <1>2, <1>3 DEF ConnectionInv,
         Stream, StreamIsIntact, WriteInterest, ShutdownAfterDrain, isWriting
<1> QED BY <1>5, <1>6, <1>7 DEF ConnectionInv

\* stopRead() leaves EPOLLPRI, so the channel stays in the poller, and startRead()
\* puts it there, closed or not.
LEMMA SwitchReadingStep == ConnectionInv /\ switchReading => ConnectionInv'
<1> SUFFICES ASSUME ConnectionInv, switchReading PROVE ConnectionInv'
    OBVIOUS
<1>1. /\ loop.inCallback
      /\ conn' = [conn EXCEPT !.events_ = IF isReading THEN disableRead ELSE enableRead]
      /\ UNCHANGED <<fate, loop, pendingTasks, server, holds, call, sock, sent, hist>>
      BY DEF switchReading, InLoopCall
<1>2. conn.state_ # "kConnecting" BY <1>1 DEF ConnectionInv, Phase
<1>3. /\ conn' \in Conn /\ conn'.state_ = conn.state_ /\ conn'.outputBuffer_ = conn.outputBuffer_
      /\ isWriting' <=> isWriting
      /\ "PRI" \in conn'.events_
      BY <1>1 DEF ConnectionInv, Types, Conn, Channel, isWriting, isReading, registered,
                 enableRead, disableRead
<1>4. Types' BY <1>1, <1>3 DEF ConnectionInv, Types
<1>5. Phase' /\ Round' /\ Events' /\ Channel' /\ Ownership'
      BY <1>1, <1>2, <1>3
      DEF ConnectionInv, Phase, Round, Events, Channel, Ownership, registered, isWriting
<1>6. Stream'
      BY <1>1, <1>3 DEF ConnectionInv, Stream, StreamIsIntact, WriteInterest, ShutdownAfterDrain
<1> QED BY <1>4, <1>5, <1>6 DEF ConnectionInv

\* What a thread does changes the tasks, its own place and its reference only.
LEMMA ThreadSteps ==
  ASSUME ConnectionInv, NEW t \in Threads, send(t) \/ queueInLoop(t) \/ dropReference(t)
  PROVE  ConnectionInv'
<1>1. UNCHANGED <<conn, fate, loop, server, sock, hist>>
      BY DEF send, queueInLoop, dropReference, Calls, ThreadStep
<1>2. conn.state_ # "kConnecting"
      BY DEF send, queueInLoop, dropReference, Calls, ConnectionInv, Phase, Idle
<1>3. /\ pendingTasks \in Seq(LaterTask) /\ holds \in [Threads -> BOOLEAN]
      /\ call \in [Threads -> {Idle} \cup [op : {"queueInLoop"}, task : LaterTask]]
      BY <1>2 DEF ConnectionInv, Phase, Types
<1>4. /\ pendingTasks' \in Seq(LaterTask) /\ holds' \in [Threads -> BOOLEAN]
      /\ call' \in [Threads -> {Idle} \cup [op : {"queueInLoop"}, task : LaterTask]]
  <2>1. CASE send(t)
    <3>1. PICK m \in Messages :
             At(t, IF conn.state_ = "kConnected"
                   THEN Queueing([op |-> "sendInLoop", msg |-> m]) ELSE Idle)
          BY <2>1 DEF send
    <3>2. Queueing([op |-> "sendInLoop", msg |-> m]) \in [op : {"queueInLoop"}, task : LaterTask]
          BY DEF Queueing, LaterTask
    <3> QED BY <2>1, <3>1, <3>2, <1>3 DEF send, At
  <2>2. CASE queueInLoop(t)
    <3>1. call[t] # Idle BY <2>2 DEF queueInLoop, Idle
    <3>2. call[t].task \in LaterTask BY <3>1, <1>3
    <3>3. Append(pendingTasks, call[t].task) \in Seq(LaterTask)
          BY <3>2, <1>3, AppendProperties
    <3> QED BY <2>2, <3>3, <1>3 DEF queueInLoop, At
  <2>3. CASE dropReference(t) BY <2>3, <1>3 DEF dropReference
  <2> QED BY <2>1, <2>2, <2>3
<1>5. pendingTasks' \in Seq(LaterTask \cup {Establish}) BY <1>4, SeqMonotonic
<1>6. Types' BY <1>1, <1>4, <1>5 DEF ConnectionInv, Types
<1>7. Phase' /\ Round' /\ Events' /\ Channel' /\ Ownership'
      BY <1>1, <1>2, <1>4
      DEF ConnectionInv, Phase, Round, Events, Channel, Ownership, isWriting,
         registered
<1>8. Stream'
      BY <1>1 DEF ConnectionInv,
         Stream, StreamIsIntact, WriteInterest, ShutdownAfterDrain, isWriting
<1> QED BY <1>6, <1>7, <1>8 DEF ConnectionInv

-----------------------------------------------------------------------------
(* The base loop, the destructor, the peer and the kernel *)

\* The base loop finds the connection owned when it removes it, once.
LEMMA StillOwned ==
  ASSUME ConnectionInv, closeConnectionInLoop
  PROVE  /\ conn.state_ = "kDisconnected" /\ server.closes = 1
         /\ server.owned /\ server.tasks = <<"closeConnectionInLoop">>
         /\ fate' = fate
<1>1. /\ server.tasks # <<>> /\ Head(server.tasks) = "closeConnectionInLoop"
      /\ Assert(server.owned, "TcpServer.cpp:76")
      BY DEF closeConnectionInLoop, BaseLoopRuns
<1>2. Head(<<"connectDestroyed">>) # "closeConnectionInLoop" OBVIOUS
<1> QED BY <1>1, <1>2 DEF ConnectionInv, Ownership, Assert

\* It passes it on to connectDestroyed.
LEMMA CloseConnectionInLoopStep == ConnectionInv /\ closeConnectionInLoop => ConnectionInv'
<1> SUFFICES ASSUME ConnectionInv, closeConnectionInLoop PROVE ConnectionInv'
    OBVIOUS
<1>1. /\ server' = [server EXCEPT !.tasks = Append(Tail(@), "connectDestroyed"), !.owned = FALSE]
      /\ UNCHANGED <<conn, loop, pendingTasks, holds, call, sock, sent, hist>>
      BY DEF closeConnectionInLoop, BaseLoopRuns
<1>2. /\ conn.state_ = "kDisconnected" /\ server.closes = 1
      /\ server.owned /\ server.tasks = <<"closeConnectionInLoop">>
      BY StillOwned
<1>3. server' = [server EXCEPT !.tasks = <<"connectDestroyed">>, !.owned = FALSE]
  <2>1. Append(Tail(<<"closeConnectionInLoop">>), "connectDestroyed") = <<"connectDestroyed">>
        OBVIOUS
  <2> QED BY <1>1, <1>2, <2>1
<1>4. /\ server' \in [owned : BOOLEAN, tasks : Seq(ServerTask), closes : Nat]
      /\ server'.closes = 1 /\ ~server'.owned /\ server'.tasks = <<"connectDestroyed">>
  <2>1. <<"connectDestroyed">> \in Seq(ServerTask) BY DEF ServerTask
  <2> QED BY <1>2, <1>3, <2>1 DEF ConnectionInv, Types
<1>5. Types' BY <1>1, <1>4 DEF ConnectionInv, Types
<1>6. Phase' /\ Round' /\ Events' /\ Channel' /\ Ownership'
      BY <1>1, <1>2, <1>4
      DEF ConnectionInv, Phase, Round, Events, Channel, Ownership, isWriting,
         registered
<1>7. Stream'
      BY <1>1 DEF ConnectionInv,
         Stream, StreamIsIntact, WriteInterest, ShutdownAfterDrain, isWriting
<1> QED BY <1>5, <1>6, <1>7 DEF ConnectionInv

\* connectDestroyed is the last task of the base loop.
LEMMA ConnectDestroyedStep == ConnectionInv /\ connectDestroyed => ConnectionInv'
<1> SUFFICES ASSUME ConnectionInv, connectDestroyed PROVE ConnectionInv'
    OBVIOUS
<1>1. /\ server.tasks # <<>> /\ Head(server.tasks) = "connectDestroyed"
      /\ server' = [server EXCEPT !.tasks = Tail(@)]
      /\ UNCHANGED <<conn, fate, loop, pendingTasks, holds, call, sock, sent, hist>>
      BY DEF connectDestroyed, BaseLoopRuns
<1>2. /\ conn.state_ = "kDisconnected" /\ server.closes = 1
      /\ ~server.owned /\ server.tasks = <<"connectDestroyed">>
  <2>1. Head(<<"closeConnectionInLoop">>) # "connectDestroyed" OBVIOUS
  <2> QED BY <1>1, <2>1 DEF ConnectionInv, Ownership
<1>3. /\ server' \in [owned : BOOLEAN, tasks : Seq(ServerTask), closes : Nat]
      /\ server'.closes = 1 /\ ~server'.owned /\ server'.tasks = <<>>
  <2>1. Tail(<<"connectDestroyed">>) = <<>> /\ <<>> \in Seq(ServerTask) OBVIOUS
  <2> QED BY <1>1, <1>2, <2>1 DEF ConnectionInv, Types
<1>4. Types' BY <1>1, <1>3 DEF ConnectionInv, Types
<1>5. Phase' /\ Round' /\ Events' /\ Channel' /\ Ownership'
      BY <1>1, <1>2, <1>3
      DEF ConnectionInv, Phase, Round, Events, Channel, Ownership, isWriting,
         registered
<1>6. Stream'
      BY <1>1 DEF ConnectionInv,
         Stream, StreamIsIntact, WriteInterest, ShutdownAfterDrain, isWriting
<1> QED BY <1>4, <1>5, <1>6 DEF ConnectionInv

\* ~TcpConnection changes nothing but how the object ended.
LEMMA DestructorStep == ConnectionInv /\ destructor => ConnectionInv'
<1> SUFFICES ASSUME ConnectionInv, destructor PROVE ConnectionInv'
    OBVIOUS
<1>1. UNCHANGED <<conn, loop, pendingTasks, server, holds, call, sock, sent, hist>>
      BY DEF destructor
<1>2. Types' BY <1>1 DEF ConnectionInv, Types
<1>3. Phase' /\ Round' /\ Events' /\ Channel' /\ Ownership'
      BY <1>1
      DEF ConnectionInv, Phase, Round, Events, Channel, Ownership, isWriting,
         registered
<1>4. Stream'
      BY <1>1 DEF ConnectionInv,
         Stream, StreamIsIntact, WriteInterest, ShutdownAfterDrain, isWriting
<1> QED BY <1>2, <1>3, <1>4 DEF ConnectionInv

\* The peer and the kernel change the socket, but not what was shut down.
LEMMA KernelSteps ==
  ConnectionInv /\ (peerSends \/ peerCloses \/ peerResets \/ peerReads) => ConnectionInv'
<1> SUFFICES ASSUME ConnectionInv, peerSends \/ peerCloses \/ peerResets \/ peerReads
             PROVE  ConnectionInv'
    OBVIOUS
<1>1. UNCHANGED <<conn, fate, loop, pendingTasks, server, holds, call, sent, hist>>
      BY DEF peerSends, peerCloses, peerResets, peerReads, Kernel
<1>2. sock' \in Sock /\ sock'.shut = sock.shut
  <2>1. sock \in Sock BY DEF ConnectionInv, Types
  <2>2. CASE peerSends BY <2>1, <2>2 DEF peerSends, Sock
  <2>3. CASE peerCloses BY <2>1, <2>3 DEF peerCloses, Sock
  <2>4. CASE peerResets BY <2>1, <2>4 DEF peerResets, Sock
  <2>5. CASE peerReads
    <3>1. PICK r \in sock.room + 1 .. SndBuf : sock' = [sock EXCEPT !.room = r]
          BY <2>5 DEF peerReads
    <3>2. r \in 0 .. SndBuf BY <2>1, ConnectionAssumption DEF Sock
    <3> QED BY <2>1, <3>1, <3>2 DEF Sock
  <2> QED BY <2>2, <2>3, <2>4, <2>5
<1>3. Types' BY <1>1, <1>2 DEF ConnectionInv, Types
<1>4. Phase' /\ Round' /\ Events' /\ Channel' /\ Ownership'
      BY <1>1, <1>2
      DEF ConnectionInv, Phase, Round, Events, Channel, Ownership, isWriting,
         registered
<1>5. Stream'
      BY <1>1, <1>2 DEF ConnectionInv,
         Stream, StreamIsIntact, WriteInterest, ShutdownAfterDrain, isWriting
<1> QED BY <1>3, <1>4, <1>5 DEF ConnectionInv

-----------------------------------------------------------------------------
\* TcpServer::newConnection leaves the connection owned, unregistered, with
\* connectEstablished as its only task.
LEMMA InitInv == Init => ConnectionInv
<1> SUFFICES ASSUME Init PROVE ConnectionInv
    OBVIOUS
<1> USE DEF Init
<1>1. Types
  <2>1. conn \in Conn /\ hist \in Hist
    <3>1. <<>> \in Seq(Byte) OBVIOUS
    <3> QED BY <3>1 DEF Conn, Hist
  <2>2. sock \in Sock BY ConnectionAssumption DEF Sock
  <2>3. <<>> \in Seq(LaterTask \cup {Establish}) /\ <<Establish>> \in Seq(LaterTask \cup {Establish})
        OBVIOUS
  <2>4. pendingTasks = <<Establish>> BY DEF Establish
  <2>5. loop \in [at : {"poll", "active", "events", "tasks"}, inCallback : BOOLEAN,
                  revents : SUBSET {"IN", "OUT", "HUP", "ERR"},
                  batch : Seq(LaterTask \cup {Establish})]
        BY <2>3
  <2>6. server \in [owned : BOOLEAN, tasks : Seq(ServerTask), closes : Nat]
    <3>1. <<>> \in Seq(ServerTask) OBVIOUS
    <3> QED BY <3>1
  <2> QED BY <2>1, <2>2, <2>3, <2>4, <2>5, <2>6 DEF Types
<1>2. Phase BY DEF Phase, Establish
<1>3. Round /\ Channel /\ Events /\ Ownership
      BY DEF Round, Channel, Events, Ownership, registered, isWriting
<1>4. Stream
  <2>1. <<>> \o <<>> = <<>> OBVIOUS
  <2> QED BY <2>1 DEF Stream, StreamIsIntact, WriteInterest, ShutdownAfterDrain, isWriting
<1> QED BY <1>1, <1>2, <1>3, <1>4 DEF ConnectionInv

\* Every step of the loops, the threads, the peer and the kernel keeps it.
LEMMA ConnectionStep == ConnectionInv /\ [Next]_vars => ConnectionInv'
<1> SUFFICES ASSUME ConnectionInv, [Next]_vars PROVE ConnectionInv'
    OBVIOUS
<1>1. CASE UNCHANGED vars
  <2>1. UNCHANGED <<conn, fate, loop, pendingTasks, server, holds, call, sock, sent, hist>>
        BY <1>1 DEF vars
  <2>2. Types' BY <2>1 DEF ConnectionInv, Types
  <2>3. Phase' /\ Round' /\ Events' /\ Channel' /\ Ownership'
        BY <2>1
        DEF ConnectionInv, Phase, Round, Events, Channel, Ownership, isWriting,
         registered
  <2>4. Stream'
        BY <2>1 DEF ConnectionInv,
           Stream, StreamIsIntact, WriteInterest, ShutdownAfterDrain, isWriting
  <2> QED BY <2>2, <2>3, <2>4 DEF ConnectionInv
<1>2. CASE Next
  <2>1. CASE \/ poll \/ handleEvents \/ dispatchClose \/ handleError \/ handleRead
             \/ handleWrite \/ doPendingTasks \/ tasksDone
        BY <2>1, PollStep, HandleEventsStep, DispatchCloseStep, HandleErrorStep,
           HandleReadStep, HandleWriteStep, DoPendingTasksStep, TasksDoneStep
  <2>2. CASE \/ connectEstablished \/ runSendInLoop \/ forceCloseInLoop
             \/ runUserCallback \/ callbackReturns
        BY <2>2, ConnectEstablishedStep, RunSendInLoopStep, ForceCloseInLoopStep,
           RunUserCallbackStep, CallbackReturnsStep
  <2>3. CASE sendByLoop \/ shutdownByLoop \/ forceCloseByLoop \/ switchReading
        BY <2>3, SendByLoopStep, ShutdownByLoopStep, ForceCloseByLoopStep, SwitchReadingStep
  <2>4. CASE \E t \in Threads : send(t) \/ queueInLoop(t) \/ dropReference(t)
        BY <2>4, ThreadSteps
  <2>5. CASE closeConnectionInLoop \/ connectDestroyed \/ destructor
        BY <2>5, CloseConnectionInLoopStep, ConnectDestroyedStep, DestructorStep
  <2>6. CASE peerSends \/ peerCloses \/ peerResets \/ peerReads
        BY <2>6, KernelSteps
  <2> QED BY <1>2, <2>1, <2>2, <2>3, <2>4, <2>5, <2>6, NextActions
<1> QED BY <1>1, <1>2

\* The inductive invariant of a connection that is closed from its own loop.
THEOREM ConnectionInvariant == Spec => []ConnectionInv
BY InitInv, ConnectionStep, PTL DEF Spec

\* The types, and what the poller knows: the channel of an open connection, and of
\* a closed one at most what startRead() put back.
THEOREM TypesHold == Spec => []TypeOK
<1>1. ConnectionInv => TypeOK
  <2> SUFFICES ASSUME ConnectionInv PROVE TypeOK
      OBVIOUS
  <2>1. /\ conn.state_ \in {"kConnecting", "kConnected", "kDisconnecting", "kDisconnected"}
        /\ conn.events_ \subseteq {"IN", "PRI", "OUT"}
        /\ loop.at \in {"poll", "active", "events", "tasks"} /\ loop.inCallback \in BOOLEAN
        /\ loop.revents \subseteq {"IN", "OUT", "HUP", "ERR"}
        /\ sock.room \in 0 .. SndBuf /\ sock.err \in {"none", "EPIPE", "ECONNRESET"}
        BY DEF ConnectionInv, Types, Conn, Sock
  <2>2. /\ conn.state_ = "kConnecting" => ~registered
        /\ conn.state_ \in {"kConnected", "kDisconnecting"} => registered
        /\ conn.state_ = "kDisconnected" => ~isWriting
        BY DEF ConnectionInv, Channel
  <2>3. \A task \in LaterTask \cup {Establish} : task.op \in TaskOps
        BY DEF LaterTask, Establish, TaskOps
  <2>4. \A i \in DOMAIN pendingTasks : pendingTasks[i] \in LaterTask \cup {Establish}
        BY DEF ConnectionInv, Types
  <2>5. \A i \in DOMAIN loop.batch : loop.batch[i] \in LaterTask \cup {Establish}
        BY DEF ConnectionInv, Types
  <2> QED BY <2>1, <2>2, <2>3, <2>4, <2>5 DEF TypeOK
<1> QED BY <1>1, ConnectionInvariant, PTL

\* What a step ends the process with, and the cause of it.
LEMMA AssertsStep ==
  ASSUME ConnectionInv, AssertsHold, [Next]_vars PROVE AssertsHold'
<1>1. CASE UNCHANGED vars BY <1>1 DEF vars, AssertsHold, Reopened, registered
<1>2. ASSUME Up, fate' = fate PROVE AssertsHold' BY <1>2 DEF AssertsHold, Up
<1>3. ASSUME Up, fate' = fate \/ (fate' = "SIGPIPE" /\ WriteFails') PROVE AssertsHold'
      BY <1>3 DEF AssertsHold, Up, WriteFails
<1>4. CASE \/ poll \/ handleEvents \/ handleError \/ doPendingTasks \/ tasksDone
           \/ runUserCallback \/ callbackReturns
      BY <1>2, <1>4 DEF poll, handleEvents, handleError, doPendingTasks, tasksDone, Dispatching,
         runUserCallback, Running, callbackReturns, InLoopCall
<1>5. CASE shutdownByLoop \/ forceCloseByLoop \/ switchReading
      BY <1>2, <1>5 DEF shutdownByLoop, forceCloseByLoop, switchReading, InLoopCall
<1>6. CASE \E t \in Threads : send(t) \/ queueInLoop(t) \/ dropReference(t)
      BY <1>2, <1>6 DEF send, queueInLoop, dropReference, Calls, ThreadStep
<1>7. CASE connectDestroyed \/ peerSends \/ peerCloses \/ peerResets \/ peerReads
      BY <1>2, <1>7 DEF connectDestroyed, BaseLoopRuns, peerSends, peerCloses, peerResets,
         peerReads, Kernel
<1>8. CASE connectEstablished BY <1>2, <1>8, EstablishedFirst DEF connectEstablished, Running
<1>9. CASE closeConnectionInLoop
      BY <1>2, <1>9, StillOwned DEF closeConnectionInLoop, BaseLoopRuns
<1>10. CASE runSendInLoop
  <2>1. Running("sendInLoop", FALSE) /\ sendInLoop(Head(loop.batch).msg) /\ Up
        BY <1>10 DEF runSendInLoop, Running
  <2>2. /\ conn.state_ # "kConnecting"
        /\ Head(loop.batch) \in LaterTask /\ Head(loop.batch).op = "sendInLoop"
        BY <2>1, RunningEffect
  <2>3. Head(loop.batch).msg \in Messages BY <2>2 DEF LaterTask
  <2> QED BY <1>3, <2>1, <2>2, <2>3, SendEffect
<1>11. CASE sendByLoop
  <2>1. Up /\ conn.state_ # "kConnecting"
        BY <1>11 DEF sendByLoop, InLoopCall, ConnectionInv, Phase
  <2>2. PICK m \in Messages :
           IF conn.state_ = "kConnected" THEN sendInLoop(m)
           ELSE UNCHANGED <<conn, fate, pendingTasks, sock, hist>>
        BY <1>11 DEF sendByLoop
  <2>3. CASE conn.state_ = "kConnected" BY <1>3, <2>1, <2>2, <2>3, SendEffect
  <2>4. CASE conn.state_ # "kConnected" BY <1>2, <2>1, <2>2, <2>4
  <2> QED BY <2>3, <2>4
<1>12. CASE handleWrite
  \* The buffer of an open connection that waits for EPOLLOUT is not empty.
  <2>1. Up /\ loop.revents = {"OUT"} BY <1>12 DEF handleWrite, Dispatching
  <2>2. conn.state_ # "kDisconnected" => conn.outputBuffer_ # <<>> /\ isWriting
        BY <2>1 DEF ConnectionInv, Events, Stream, WriteInterest
  <2>3. CASE fate' = fate BY <1>2, <2>1, <2>3
  <2>4. CASE fate' # fate
    <3>1. fate' = "SIGPIPE" /\ WriteFails /\ UNCHANGED sock
          BY <1>12, <2>2, <2>4 DEF handleWrite, WriteSignals
    <3> QED BY <1>3, <2>1, <3>1 DEF WriteFails
  <2> QED BY <2>3, <2>4
<1>13. CASE forceCloseInLoop
  <2>1. Running("forceCloseInLoop", FALSE) /\ Up BY <1>13 DEF forceCloseInLoop, Running
  <2>2. conn.state_ # "kConnecting" BY <2>1, RunningEffect
  <2>3. CASE conn.state_ # "kDisconnected"
    <3>1. conn.state_ \in {"kConnected", "kDisconnecting"} /\ handleClose
          BY <1>13, <2>2, <2>3 DEF ConnectionInv, Types, Conn, forceCloseInLoop
    <3> QED BY <1>2, <2>1, <3>1, CloseEffect
  <2>4. CASE conn.state_ = "kDisconnected" BY <1>2, <1>13, <2>1, <2>4 DEF forceCloseInLoop
  <2> QED BY <2>3, <2>4
<1>14. CASE dispatchClose
  <2>1. Up /\ "HUP" \in loop.revents /\ handleClose BY <1>14 DEF dispatchClose, Dispatching
  <2>2. registered /\ conn.state_ # "kConnecting"
        BY <2>1 DEF ConnectionInv, Events, Channel
  <2>3. CASE conn.state_ # "kDisconnected"
    <3>1. conn.state_ \in {"kConnected", "kDisconnecting"}
          BY <2>2, <2>3 DEF ConnectionInv, Types, Conn
    <3> QED BY <1>2, <2>1, <3>1, CloseEffect
  <2>4. CASE conn.state_ = "kDisconnected"
    <3>1. conn' = conn /\ fate' = "TcpConnection.cpp:286" BY <2>1, <2>4, CloseFails
    <3> QED BY <2>2, <2>4, <3>1 DEF AssertsHold, Reopened, registered
  <2> QED BY <2>3, <2>4
<1>15. CASE handleRead
  <2>1. Up /\ "IN" \in loop.revents /\ sock' = [sock EXCEPT !.rx = FALSE]
        BY <1>15 DEF handleRead, Dispatching
  <2>2. registered /\ conn.state_ # "kConnecting"
        BY <2>1 DEF ConnectionInv, Events, Channel
  <2>3. CASE conn.state_ = "kDisconnected"
    <3>1. conn' = conn /\ fate' = "TcpConnection.cpp:241" BY <1>15, <2>3 DEF handleRead
    <3> QED BY <2>2, <2>3, <3>1 DEF AssertsHold, Reopened, registered
  <2>4. CASE conn.state_ # "kDisconnected" /\ ~sock.rx /\ sock.err = "none"
    <3>1. conn.state_ \in {"kConnected", "kDisconnecting"} /\ handleClose
          BY <1>15, <2>2, <2>4 DEF ConnectionInv, Types, Conn, handleRead
    <3> QED BY <1>2, <2>1, <3>1, CloseEffect
  <2>5. CASE conn.state_ # "kDisconnected" /\ ~sock.rx /\ sock.err # "none"
    <3>1. fate' = "Buffer::readFd" BY <1>15, <2>5 DEF handleRead
    <3>2. sock'.rst BY <2>1, <2>5 DEF ConnectionInv, Types, Sock
    <3> QED BY <3>1, <3>2 DEF AssertsHold
  <2>6. CASE conn.state_ # "kDisconnected" /\ sock.rx
    <3>1. fate' = fate BY <1>15, <2>6 DEF handleRead
    <3> QED BY <1>2, <2>1, <3>1
  <2> QED BY <2>3, <2>4, <2>5, <2>6
<1>16. CASE destructor
  <2>1. Up /\ ~server.owned /\ conn' = conn BY <1>16 DEF destructor, Unreferenced
  <2>2. conn.state_ = "kDisconnected" BY <2>1 DEF ConnectionInv, Ownership
  <2>3. loop.at = "active" => Reopened BY <2>2 DEF ConnectionInv, Events, Reopened
  <2>4. fate' = IF loop.at = "active" THEN "freed channel" ELSE "destroyed"
        BY <1>16, <2>2 DEF destructor
  <2> QED BY <2>1, <2>3, <2>4 DEF AssertsHold, Reopened, registered
<1> QED BY <1>1, <1>4, <1>5, <1>6, <1>7, <1>8, <1>9, <1>10, <1>11, <1>12, <1>13, <1>14, <1>15,
           <1>16, NextActions

\* While only the loop's own callbacks close, the process ends by a write or a read
\* of a socket that was shut or reset, or by an event for a channel that startRead()
\* put back after the close: no other assert of TcpConnection, EPoller or TcpServer
\* fails, nor does any without such a startRead().
THEOREM NoAssertFails == Spec => []AssertsHold
<1>1. Init => AssertsHold BY DEF Init, AssertsHold
<1> QED BY <1>1, ConnectionInvariant, AssertsStep, PTL DEF Spec

\* sendInLoop and handleWrite neither lose, repeat nor reorder a byte.
THEOREM BytesInOrder == Spec => []StreamIsIntact
<1>1. ConnectionInv => StreamIsIntact BY DEF ConnectionInv, Stream
<1> QED BY <1>1, ConnectionInvariant, PTL

\* enableWrite and disableWrite follow the output buffer.
THEOREM WaitsWhileOutput == Spec => []WriteInterest
<1>1. ConnectionInv => WriteInterest BY DEF ConnectionInv, Stream
<1> QED BY <1>1, ConnectionInvariant, PTL

\* shutdownInLoop ends the stream after the last byte accepted.
THEOREM ShutdownComesLast == Spec => []ShutdownAfterDrain
<1>1. ConnectionInv => ShutdownAfterDrain BY DEF ConnectionInv, Stream
<1> QED BY <1>1, ConnectionInvariant, PTL

\* handleClose runs once, whichever of handleRead, a hang-up and forceClose come
\* together, and TcpServer erases only a closed connection.
THEOREM ClosesOnce == Spec => []ClosedOnce
<1>1. ConnectionInv => ClosedOnce
      BY DEF ConnectionInv, Ownership, ClosedOnce
<1> QED BY <1>1, ConnectionInvariant, PTL

-----------------------------------------------------------------------------
(* The connection implements the byte stream *)

\* A sequence is a beginning of itself continued.
LEMMA PrefixBegins ==
  ASSUME NEW s \in Seq(Byte), NEW r \in Seq(Byte)
  PROVE  Output!Begins(s, s \o r)
<1>1. Len(s \o r) = Len(s) + Len(r) /\ Len(s) \in Nat /\ Len(r) \in Nat
      BY ConcatProperties, LenProperties
<1>2. SubSeq(s \o r, 1, Len(s)) = s
  <2>1. SubSeq(s \o r, 1, Len(s)) = SubSeq(s, 1, Len(s)) BY <1>1, SubSeqOfConcat1
  <2> QED BY <2>1, SubSeqFull
<1> QED BY <1>1, <1>2 DEF Output!Begins

\* In a type-correct state the wire is a beginning of what was accepted.
LEMMA WireBegins ==
  ASSUME conn \in Conn, hist \in Hist, StreamIsIntact
  PROVE  Output!Begins(hist.wire, hist.accepted)
BY PrefixBegins DEF Conn, Hist, StreamIsIntact

\* A step that writes and accepts nothing and leaves SHUT_WR alone stutters.
LEMMA Stutters ==
  ASSUME hist' = hist, sock'.shut = sock.shut
  PROVE  [Output!Next]_(Output!vars)
BY DEF Output!vars

\* sendInLoop accepts the message and writes part of it, or does neither.
LEMMA SendStreams ==
  ASSUME ConnectionInv, Up, conn.state_ # "kConnecting", NEW m \in Messages, sendInLoop(m)
  PROVE  [Output!Next]_(Output!vars)
<1>1. conn' \in Conn /\ sock' \in Sock /\ hist' \in Hist /\ Stream' BY SendEffect
<1>2. conn \in Conn /\ sock \in Sock /\ hist \in Hist BY DEF ConnectionInv, Types
<1> DEFINE n == IF ~isWriting THEN Lower(MsgLen, sock.room) ELSE 0
<1>3. CASE hist' = hist
  <2>1. sock'.shut = sock.shut BY <1>2, <1>3 DEF sendInLoop, Sock
  <2> QED BY <1>3, <2>1, Stutters
<1>4. CASE hist' # hist
  <2>1. /\ conn.state_ # "kDisconnected" /\ ~(~isWriting /\ WriteFails)
        /\ sock' = [sock EXCEPT !.room = @ - n]
        /\ hist' = [hist EXCEPT !.wire = @ \o SubSeq(Bytes(m), 1, n),
                                !.accepted = @ \o Bytes(m)]
        BY <1>4 DEF sendInLoop
  <2>2. ~sock.shut /\ ~sock'.shut
    \* After SHUT_WR no output waits, so the write would be direct and fail.
    <3>1. sock.shut => ~isWriting
          BY <2>1 DEF ConnectionInv, Stream, ShutdownAfterDrain, WriteInterest
    <3> QED BY <3>1, <2>1, <1>2 DEF Sock, WriteFails
  <2>3. /\ hist'.accepted = hist.accepted \o Bytes(m)
        /\ hist'.wire = hist.wire \o SubSeq(Bytes(m), 1, n)
        BY <2>1, <1>2 DEF Hist
  <2>4. n \in Nat /\ n <= MsgLen BY <1>2, ConnectionAssumption DEF Lower, Sock
  <2>5. SubSeq(Bytes(m), 1, n) \in Seq(Byte) BY <2>4, MessageSplits
  <2>6. Output!Begins(hist.wire, hist'.wire)
    <3> HIDE DEF n
    <3> QED BY <2>3, <2>5, <1>2, PrefixBegins DEF Hist
  <2>7. Output!Begins(hist'.wire, hist'.accepted)
    <3>1. hist'.wire \in Seq(Byte) /\ conn'.outputBuffer_ \in Seq(Byte) BY <1>1 DEF Hist, Conn
    <3>2. hist'.wire \o conn'.outputBuffer_ = hist'.accepted
          BY <1>1 DEF Stream, StreamIsIntact
    <3> QED BY <3>1, <3>2, PrefixBegins
  <2>8. sock'.shut \in BOOLEAN BY <1>1 DEF Sock
  <2>9. Output!Next BY <2>2, <2>3, <2>6, <2>7, <2>8 DEF Output!Next
  <2> QED BY <2>9
<1> QED BY <1>3, <1>4

\* handleWrite writes what was accepted before, and ends the stream with the last
\* byte of it.
LEMMA WriteStreams ==
  ASSUME ConnectionInv, handleWrite
  PROVE  [Output!Next]_(Output!vars)
<1>1. conn \in Conn /\ sock \in Sock /\ hist \in Hist BY DEF ConnectionInv, Types
<1>2. CASE conn.state_ = "kDisconnected" \/ fate' # fate \/ WriteFails
  <2>1. hist' = hist /\ sock'.shut = sock.shut BY <1>1, <1>2 DEF handleWrite, Sock
  <2> QED BY <2>1, Stutters
<1>3. CASE conn.state_ # "kDisconnected" /\ fate' = fate /\ ~WriteFails
  <2> DEFINE out == conn.outputBuffer_
             n   == Lower(Len(out), sock.room)
  <2>1. conn' \in Conn /\ sock' \in Sock /\ hist' \in Hist /\ Stream' BY <1>3, WriteEffect
  <2>2. hist' = [hist EXCEPT !.wire = @ \o SubSeq(out, 1, n)] BY <1>3 DEF handleWrite
  <2>3. hist'.accepted = hist.accepted /\ hist'.wire = hist.wire \o SubSeq(out, 1, n)
        BY <2>2, <1>1 DEF Hist
  <2>4. out \in Seq(Byte) /\ n \in Nat /\ n <= Len(out)
    <3>1. out \in Seq(Byte) /\ Len(out) \in Nat /\ sock.room \in Nat
          BY <1>1, LenProperties, ConnectionAssumption DEF Conn, Sock
    <3> QED BY <3>1 DEF Lower
  <2>5. SubSeq(out, 1, n) \in Seq(Byte) BY <2>4, SplitAt
  <2>6. Output!Begins(hist.wire, hist'.wire)
    <3> HIDE DEF n, out
    <3> QED BY <2>3, <2>5, <1>1, PrefixBegins DEF Hist
  <2>7. Output!Begins(hist'.wire, hist'.accepted)
    <3>1. hist'.wire \in Seq(Byte) /\ conn'.outputBuffer_ \in Seq(Byte) BY <2>1 DEF Hist, Conn
    <3>2. hist'.wire \o conn'.outputBuffer_ = hist'.accepted
          BY <2>1 DEF Stream, StreamIsIntact
    <3> QED BY <3>1, <3>2, PrefixBegins
  <2>8. sock'.shut \in BOOLEAN /\ (sock'.shut => hist'.wire = hist'.accepted)
        BY <2>1 DEF Sock, Stream, ShutdownAfterDrain
  <2>9. Output!Next BY <1>3, <2>3, <2>6, <2>7, <2>8 DEF Output!Next, WriteFails
  <2> QED BY <2>9
<1> QED BY <1>2, <1>3

\* shutdown() in a callback ends the stream at most, when no output is left.
LEMMA ShutdownStreams ==
  ASSUME ConnectionInv, shutdownByLoop
  PROVE  [Output!Next]_(Output!vars)
<1>1. /\ hist' = hist
      /\ sock' = [sock EXCEPT !.shut = IF conn.state_ = "kConnected"
                                       THEN shutdownInLoop("kDisconnecting", conn.events_) ELSE @]
      BY DEF shutdownByLoop
<1>2. conn \in Conn /\ sock \in Sock /\ hist \in Hist /\ StreamIsIntact
      BY DEF ConnectionInv, Types, Stream
<1>3. CASE sock'.shut = sock.shut BY <1>1, <1>3, Stutters
<1>4. CASE sock'.shut # sock.shut
  <2>1. ~sock.shut BY <1>1, <1>2, <1>4 DEF Sock, shutdownInLoop
  <2>2. sock' \in Sock /\ (sock'.shut => hist'.wire = hist'.accepted)
    <3>1. ConnectionInv' BY ShutdownByLoopStep
    <3> QED BY <3>1 DEF ConnectionInv, Types, Stream, ShutdownAfterDrain
  <2>3. Output!Begins(hist.wire, hist.accepted) BY <1>2, WireBegins
  <2>4. Output!Begins(hist.wire, hist.wire)
    <3>1. hist.wire \in Seq(Byte) /\ <<>> \in Seq(Byte) /\ hist.wire \o <<>> = hist.wire
          BY <1>2, ConcatEmptySeq, EmptySeq DEF Hist
    <3> QED BY <3>1, PrefixBegins
  <2>5. Output!Next BY <1>1, <2>1, <2>2, <2>3, <2>4 DEF Output!Next, Sock
  <2> QED BY <2>5
<1> QED BY <1>3, <1>4

\* Every step is a step of the byte stream or does not touch it: only sendInLoop,
\* handleWrite and shutdown reach the wire.
LEMMA StepStreams == ConnectionInv /\ [Next]_vars => [Output!Next]_(Output!vars)
<1> SUFFICES ASSUME ConnectionInv, [Next]_vars PROVE [Output!Next]_(Output!vars)
    OBVIOUS
<1>1. sock \in Sock BY DEF ConnectionInv, Types
<1>2. CASE runSendInLoop
  <2>1. Running("sendInLoop", FALSE) /\ sendInLoop(Head(loop.batch).msg) /\ Up
        BY <1>2 DEF runSendInLoop, Running
  <2>2. /\ conn.state_ # "kConnecting"
        /\ Head(loop.batch) \in LaterTask /\ Head(loop.batch).op = "sendInLoop"
        BY <2>1, RunningEffect
  <2>3. Head(loop.batch).msg \in Messages BY <2>2 DEF LaterTask
  <2> QED BY <2>1, <2>2, <2>3, SendStreams
<1>3. CASE sendByLoop
  <2>1. Up /\ conn.state_ # "kConnecting"
        BY <1>3 DEF sendByLoop, InLoopCall, ConnectionInv, Phase
  <2>2. PICK m \in Messages :
           IF conn.state_ = "kConnected" THEN sendInLoop(m)
           ELSE UNCHANGED <<conn, fate, pendingTasks, sock, hist>>
        BY <1>3 DEF sendByLoop
  <2>3. CASE conn.state_ = "kConnected" BY <2>1, <2>2, <2>3, SendStreams
  <2>4. CASE conn.state_ # "kConnected" BY <2>2, <2>4, Stutters
  <2> QED BY <2>3, <2>4
<1>4. CASE handleWrite BY <1>4, WriteStreams
<1>5. CASE shutdownByLoop BY <1>5, ShutdownStreams
<1>6. CASE UNCHANGED vars BY <1>6, Stutters DEF vars
<1>7. CASE handleError \/ handleRead
      BY <1>1, <1>7, Stutters DEF handleError, handleRead, Sock
<1>8. CASE \/ poll \/ handleEvents \/ dispatchClose \/ doPendingTasks \/ tasksDone
           \/ connectEstablished \/ forceCloseInLoop \/ runUserCallback
      BY <1>8, Stutters DEF poll, handleEvents, dispatchClose, doPendingTasks, tasksDone,
         connectEstablished, forceCloseInLoop, runUserCallback
<1>9. CASE callbackReturns \/ forceCloseByLoop \/ switchReading
      BY <1>9, Stutters DEF callbackReturns, forceCloseByLoop, switchReading
<1>10. CASE \E t \in Threads : send(t) \/ queueInLoop(t) \/ dropReference(t)
       BY <1>10, Stutters DEF send, queueInLoop, dropReference, Calls, ThreadStep
<1>11. CASE closeConnectionInLoop \/ connectDestroyed \/ destructor
       BY <1>11, Stutters DEF closeConnectionInLoop, connectDestroyed, destructor, BaseLoopRuns
<1>12. CASE peerSends \/ peerCloses \/ peerResets \/ peerReads
  <2>1. hist' = hist BY <1>12 DEF peerSends, peerCloses, peerResets, peerReads, Kernel
  <2>2. sock'.shut = sock.shut
        BY <1>1, <1>12 DEF peerSends, peerCloses, peerResets, peerReads, Sock
  <2> QED BY <2>1, <2>2, Stutters
<1> QED BY <1>2, <1>3, <1>4, <1>5, <1>6, <1>7, <1>8, <1>9, <1>10, <1>11, <1>12, NextActions

\* The output of a connection is a byte stream: whole messages in the order of
\* acceptance, nothing accepted or written after SHUT_WR, SHUT_WR after all of it.
THEOREM ConnectionImplementsStream == Spec => ImplementsByteStream
<1>1. Init => Output!Init BY DEF Init, Output!Init
<1> QED BY <1>1, ConnectionInvariant, StepStreams, PTL DEF Spec, ImplementsByteStream, Output!Spec

-----------------------------------------------------------------------------
(* Closing from other threads *)

AnyTask == LaterTask \cup [op : {"shutdownInLoop"}]

ClosersLoop == [at : {"poll", "active", "events", "tasks"}, inCallback : BOOLEAN,
                revents : SUBSET {"IN", "OUT", "HUP", "ERR"},
                batch : Seq(AnyTask \cup {Establish})]

ClosersCall == {Idle} \cup [op : {"shutdown", "forceClose"}]
               \cup [op : {"queueInLoop"}, task : AnyTask]

ClosersTypes ==
    /\ conn \in Conn /\ sock \in Sock /\ hist \in Hist
    /\ loop \in ClosersLoop
    /\ pendingTasks \in Seq(AnyTask \cup {Establish})
    /\ call \in [Threads -> ClosersCall]

\* connectEstablished still comes before everything else.
ClosersPhase ==
    IF conn.state_ = "kConnecting"
    THEN /\ \/ pendingTasks = <<Establish>> /\ loop.batch = <<>>
            \/ pendingTasks = <<>> /\ loop.batch = <<Establish>>
         /\ loop.revents = {} /\ ~loop.inCallback
         /\ \A t \in Threads : ~holds[t] /\ call[t] = Idle
    ELSE pendingTasks \in Seq(AnyTask) /\ loop.batch \in Seq(AnyTask)

\* A new connection is not in the poller; stopRead() does not take one out of it;
\* and events that may close a connection find it there.
ClosersEvents ==
    /\ conn.state_ = "kConnecting" => ~registered
    /\ isReading => "PRI" \in conn.events_
    /\ loop.at = "active" => registered
    /\ loop.revents \cap {"IN", "HUP"} # {} => registered

ClosersInv ==
    /\ ClosersTypes /\ ClosersPhase /\ Round /\ ClosersEvents
    /\ StreamIsIntact

\* The callbacks are among the tasks after connectEstablished.
LEMMA CallbacksAreTasks == CallbackTask \subseteq AnyTask
BY DEF CallbackTask, AnyTask, LaterTask

\* handleClose closes the connection or fails an assert.
LEMMA ClosersClose ==
  ASSUME ClosersInv, conn.state_ # "kConnecting", handleClose
  PROVE  /\ conn' \in Conn /\ conn'.state_ # "kConnecting"
         /\ conn'.outputBuffer_ = conn.outputBuffer_ /\ conn'.events_ \in {conn.events_, {}}
         /\ fate' # fate => UNCHANGED conn
BY DEF ClosersInv, ClosersTypes, Conn, handleClose, Closes, CloseAsserts

\* poll: an unregistered channel has no events.
LEMMA ClosersPoll ==
  ASSUME ClosersInv, poll PROVE ClosersInv'
<1>1. /\ loop.at = "poll"
      /\ loop' = [loop EXCEPT !.at = IF ReadyEvents = {} THEN "events" ELSE "active",
                              !.revents = ReadyEvents]
      /\ UNCHANGED <<conn, fate, pendingTasks, holds, call, sock, hist>>
      BY DEF poll
<1>2. /\ ReadyEvents \subseteq {"IN", "OUT", "HUP", "ERR"}
      /\ ReadyEvents # {} => registered
      BY DEF ReadyEvents
<1>3. /\ loop' \in ClosersLoop
      /\ loop'.at = (IF ReadyEvents = {} THEN "events" ELSE "active")
      /\ loop'.revents = ReadyEvents /\ loop'.batch = loop.batch
      /\ loop'.inCallback = loop.inCallback /\ loop.batch = <<>> /\ ~loop.inCallback
      BY <1>1, <1>2 DEF ClosersInv, ClosersTypes, ClosersLoop, Round
<1>4. ReadyEvents # {} => conn.state_ # "kConnecting"
      BY <1>2 DEF ClosersInv, ClosersEvents
<1>5. ClosersTypes' /\ ClosersPhase' /\ Round'
      BY <1>1, <1>3, <1>4 DEF ClosersInv, ClosersTypes, ClosersPhase, Round
<1>6. ClosersEvents'
  <2>1. conn' = conn /\ registered' = registered /\ isReading' = isReading
        BY <1>1 DEF registered, isReading
  <2> QED BY <1>2, <1>3, <2>1 DEF ClosersInv, ClosersEvents
<1>7. StreamIsIntact' BY <1>1 DEF ClosersInv, StreamIsIntact
<1> QED BY <1>5, <1>6, <1>7 DEF ClosersInv

\* The handlers of events but EPOLLOUT.
LEMMA ClosersDispatch ==
  ASSUME ClosersInv, dispatchClose \/ handleError \/ handleRead PROVE ClosersInv'
<1>1. /\ loop.at = "events"
      /\ UNCHANGED <<pendingTasks, holds, call, hist>>
      BY DEF dispatchClose, handleError, handleRead, Dispatching
<1>2. /\ loop' \in ClosersLoop /\ loop'.at = "events" /\ loop'.batch = loop.batch
  <2>1. loop \in ClosersLoop /\ sock.rx \in BOOLEAN BY DEF ClosersInv, ClosersTypes, Sock
  <2>2. CASE dispatchClose BY <1>1, <2>1, <2>2 DEF dispatchClose, ClosersLoop
  <2>3. CASE handleError BY <1>1, <2>1, <2>3 DEF handleError, ClosersLoop
  <2>4. CASE handleRead BY <1>1, <2>1, <2>4 DEF handleRead, ClosersLoop
  <2> QED BY <2>2, <2>3, <2>4
<1>3. sock' \in Sock
      BY DEF dispatchClose, handleError, handleRead, ClosersInv, ClosersTypes, Sock
<1>4. conn.state_ # "kConnecting" /\ pendingTasks \in Seq(AnyTask) /\ loop.batch \in Seq(AnyTask)
      BY DEF dispatchClose, handleError, handleRead, ClosersInv, ClosersPhase
<1>5. /\ conn' \in Conn /\ conn'.state_ # "kConnecting"
      /\ conn'.outputBuffer_ = conn.outputBuffer_ /\ conn'.events_ \in {conn.events_, {}}
      /\ conn'.events_ # conn.events_ => loop'.revents \cap {"IN", "HUP"} = {}
      /\ loop'.revents \subseteq loop.revents
  <2>1. conn \in Conn /\ loop \in ClosersLoop /\ sock.rx \in BOOLEAN
        BY DEF ClosersInv, ClosersTypes, Sock
  <2>2. CASE dispatchClose
    <3>1. /\ handleClose /\ "IN" \notin loop.revents
          /\ loop' = [loop EXCEPT !.revents = @ \ {"HUP"}]
          BY <2>2 DEF dispatchClose
    <3>2. loop'.revents = loop.revents \ {"HUP"} BY <2>1, <3>1 DEF ClosersLoop
    <3> QED BY <1>4, <3>1, <3>2, ClosersClose
  <2>3. CASE handleError
    <3>1. conn' = conn /\ loop' = [loop EXCEPT !.revents = @ \ {"ERR"}]
          BY <2>3 DEF handleError
    <3>2. loop'.revents = loop.revents \ {"ERR"} BY <2>1, <3>1 DEF ClosersLoop
    <3> QED BY <1>4, <2>1, <3>1, <3>2
  <2>4. CASE handleRead
    <3>1. loop' = [loop EXCEPT !.revents = @ \ {"IN", "HUP"}, !.inCallback = sock.rx]
          BY <2>4 DEF handleRead
    <3>2. loop'.revents = loop.revents \ {"IN", "HUP"} BY <2>1, <3>1 DEF ClosersLoop
    <3>3. CASE handleClose BY <1>4, <3>2, <3>3, ClosersClose
    <3>4. CASE conn' = conn BY <1>4, <2>1, <3>2, <3>4
    <3> QED BY <2>4, <3>3, <3>4 DEF handleRead
  <2> QED BY <2>2, <2>3, <2>4
<1>6. ClosersTypes' /\ ClosersPhase' /\ Round'
      BY <1>1, <1>2, <1>3, <1>4, <1>5 DEF ClosersInv, ClosersTypes, ClosersPhase, Round
<1>7. ClosersEvents' /\ StreamIsIntact'
      BY <1>1, <1>2, <1>5
      DEF ClosersInv, ClosersEvents, registered, isReading, StreamIsIntact
<1> QED BY <1>5, <1>6, <1>7 DEF ClosersInv

\* handleWrite may find nothing to write, and then its assert fails.
LEMMA ClosersWrite ==
  ASSUME ClosersInv, handleWrite PROVE ClosersInv'
<1>1. /\ loop.at = "events" /\ loop.revents = {"OUT"}
      /\ loop' = [loop EXCEPT !.revents = {}]
      /\ UNCHANGED <<holds, call>>
      BY DEF handleWrite, Dispatching
<1>2. conn.state_ # "kConnecting" /\ pendingTasks \in Seq(AnyTask) /\ loop.batch \in Seq(AnyTask)
      BY <1>1 DEF ClosersInv, ClosersPhase
<1>3. conn \in Conn /\ sock \in Sock /\ hist \in Hist /\ StreamIsIntact
      BY DEF ClosersInv, ClosersTypes
<1>4. /\ conn' \in Conn /\ sock' \in Sock /\ hist' \in Hist
      /\ pendingTasks' \in Seq(AnyTask)
      /\ conn'.state_ = conn.state_
      /\ conn'.events_ \in {conn.events_, conn.events_ \ {"OUT"}}
      /\ StreamIsIntact'
      BY <1>2, <1>3, CallbacksAreTasks, WriteKeepsStream
<1>5. pendingTasks' \in Seq(AnyTask \cup {Establish}) BY <1>4, SeqMonotonic
<1>6. loop' \in ClosersLoop /\ loop'.at = "events" /\ loop'.revents = {} /\ loop'.batch = loop.batch
      BY <1>1 DEF ClosersInv, ClosersTypes, ClosersLoop
<1>7. ClosersTypes' /\ ClosersPhase' /\ Round'
      BY <1>1, <1>2, <1>4, <1>5, <1>6 DEF ClosersInv, ClosersTypes, ClosersPhase, Round
<1>8. ClosersEvents'
      BY <1>2, <1>4, <1>6 DEF ClosersInv, ClosersEvents, registered, isReading
<1> QED BY <1>4, <1>7, <1>8 DEF ClosersInv

\* Swapping the tasks, polling again and returning from a callback change the loop only.
LEMMA ClosersRound ==
  ASSUME ClosersInv, handleEvents \/ doPendingTasks \/ tasksDone \/ callbackReturns
  PROVE  ClosersInv'
<1>1. UNCHANGED <<conn, fate, holds, call, sock, hist>>
      BY DEF handleEvents, doPendingTasks, tasksDone, callbackReturns, InLoopCall
<1>2. StreamIsIntact' BY <1>1 DEF ClosersInv, StreamIsIntact
<1>3. CASE doPendingTasks
  <2>1. /\ loop.at = "events" /\ loop.revents = {} /\ pendingTasks' = <<>>
        /\ loop' = [loop EXCEPT !.at = "tasks", !.batch = pendingTasks]
        BY <1>3 DEF doPendingTasks, Dispatching
  <2>2. <<>> \in Seq(AnyTask) /\ <<>> \in Seq(AnyTask \cup {Establish}) BY EmptySeq
  <2>3. /\ loop' \in ClosersLoop /\ loop'.at = "tasks" /\ loop'.revents = {}
        /\ loop'.batch = pendingTasks /\ loop'.inCallback = loop.inCallback /\ loop.batch = <<>>
        BY <2>1 DEF ClosersInv, ClosersTypes, ClosersLoop, Round
  <2>4. ClosersTypes' /\ ClosersPhase' /\ Round' /\ ClosersEvents'
        BY <1>1, <2>1, <2>2, <2>3
        DEF ClosersInv, ClosersTypes, ClosersPhase, Round, ClosersEvents, registered, isReading
  <2> QED BY <1>2, <2>4 DEF ClosersInv
<1>4. CASE handleEvents \/ tasksDone \/ callbackReturns
  <2>1. /\ loop' \in ClosersLoop /\ loop'.revents = loop.revents /\ loop'.batch = loop.batch
        /\ loop'.inCallback => loop.inCallback
        /\ \/ loop'.at = loop.at
           \/ loop.at = "active" /\ loop'.at = "events"
           \/ /\ loop.at = "tasks" /\ loop'.at = "poll"
              /\ loop.batch = <<>> /\ ~loop.inCallback
        /\ UNCHANGED pendingTasks
        BY <1>4 DEF handleEvents, tasksDone, callbackReturns, ClosersInv, ClosersTypes,
           ClosersLoop
  <2>2. ClosersTypes' /\ ClosersPhase' /\ ClosersEvents'
        BY <1>1, <2>1
        DEF ClosersInv, ClosersTypes, ClosersPhase, ClosersEvents, registered, isReading
  <2>3. Round' BY <2>1 DEF ClosersInv, Round
  <2> QED BY <1>2, <2>2, <2>3 DEF ClosersInv
<1> QED BY <1>3, <1>4

\* A task after connectEstablished runs in an established connection.
LEMMA ClosersRunning ==
  ASSUME ClosersInv, NEW op \in {"sendInLoop", "shutdownInLoop", "forceCloseInLoop",
                                 "writeCompleteCallback", "highWaterMarkCallback"},
         NEW calls \in BOOLEAN, Running(op, calls)
  PROVE  /\ conn.state_ # "kConnecting" /\ pendingTasks \in Seq(AnyTask)
         /\ Head(loop.batch) \in AnyTask /\ Head(loop.batch).op = op
         /\ loop' \in ClosersLoop /\ loop'.batch \in Seq(AnyTask)
         /\ loop'.revents = {} /\ loop'.at = "tasks" /\ Round'
<1>1. /\ loop.at = "tasks" /\ loop.batch # <<>> /\ Head(loop.batch).op = op
      /\ loop' = [loop EXCEPT !.batch = Tail(@), !.inCallback = calls]
      BY DEF Running
<1>2. conn.state_ # "kConnecting"
  <2>1. Head(<<Establish>>).op = "connectEstablished" BY DEF Establish
  <2> QED BY <2>1, <1>1 DEF ClosersInv, ClosersPhase
<1>3. loop.batch \in Seq(AnyTask) /\ pendingTasks \in Seq(AnyTask)
      BY <1>2 DEF ClosersInv, ClosersPhase
<1>4. Head(loop.batch) \in AnyTask /\ Tail(loop.batch) \in Seq(AnyTask)
      BY <1>1, <1>3, HeadTailProperties
<1>5. Tail(loop.batch) \in Seq(AnyTask \cup {Establish}) BY <1>4, SeqMonotonic
<1>6. loop' \in ClosersLoop /\ loop'.batch = Tail(loop.batch) /\ loop'.at = "tasks"
      /\ loop'.revents = loop.revents
      BY <1>1, <1>5 DEF ClosersInv, ClosersTypes, ClosersLoop
<1>7. loop.revents = {} BY <1>1 DEF ClosersInv, Round
<1> QED BY <1>1, <1>2, <1>3, <1>4, <1>6, <1>7 DEF Round

\* The tasks of the batch.
LEMMA ClosersTasks ==
  ASSUME ClosersInv,
         \/ connectEstablished \/ runSendInLoop \/ runShutdownInLoop
         \/ forceCloseInLoop \/ runUserCallback
  PROVE  ClosersInv'
<1>1. CASE connectEstablished
  <2>1. /\ loop.at = "tasks" /\ loop.batch # <<>> /\ Head(loop.batch).op = "connectEstablished"
        /\ loop' = [loop EXCEPT !.batch = Tail(@), !.inCallback = TRUE]
        /\ conn' = [conn EXCEPT !.state_ = "kConnected", !.events_ = enableRead]
        /\ UNCHANGED <<pendingTasks, call, sock, hist>>
        BY <1>1 DEF connectEstablished, Running
  <2>2. conn.state_ = "kConnecting"
    <3>1. SUFFICES ASSUME loop.batch \in Seq(AnyTask) PROVE FALSE
          BY DEF ClosersInv, ClosersPhase
    <3>2. Head(loop.batch) \in AnyTask BY <3>1, <2>1, HeadTailProperties
    <3> QED BY <3>2, <2>1 DEF AnyTask, LaterTask
  <2>3. loop.batch = <<Establish>> /\ pendingTasks = <<>> /\ loop.revents = {}
        BY <2>1, <2>2 DEF ClosersInv, ClosersPhase
  <2>4. <<>> \in Seq(AnyTask) /\ <<>> \in Seq(AnyTask \cup {Establish}) BY EmptySeq
  <2>5. Tail(loop.batch) = <<>> BY <2>3
  <2>6. loop' \in ClosersLoop /\ loop'.batch = <<>> /\ loop'.revents = {}
        BY <2>1, <2>3, <2>4, <2>5 DEF ClosersInv, ClosersTypes, ClosersLoop
  <2>7. /\ conn' \in Conn /\ conn'.state_ = "kConnected" /\ loop'.at = "tasks"
        /\ conn'.outputBuffer_ = conn.outputBuffer_ /\ "PRI" \in conn'.events_
        BY <2>1 DEF ClosersInv, ClosersTypes, ClosersLoop, Conn, enableRead
  <2>8. ClosersTypes' /\ ClosersPhase' /\ Round'
        BY <2>1, <2>3, <2>4, <2>6, <2>7 DEF ClosersInv, ClosersTypes, ClosersPhase, Round
  <2>9. ClosersEvents' /\ StreamIsIntact'
        BY <2>1, <2>6, <2>7 DEF ClosersInv, ClosersEvents, StreamIsIntact
  <2> QED BY <2>8, <2>9 DEF ClosersInv
<1>2. CASE runSendInLoop
  <2>1. /\ Running("sendInLoop", FALSE) /\ sendInLoop(Head(loop.batch).msg) /\ Up
        /\ UNCHANGED <<holds, call>>
        BY <1>2 DEF runSendInLoop, Running
  <2>2. /\ conn.state_ # "kConnecting" /\ pendingTasks \in Seq(AnyTask)
        /\ Head(loop.batch) \in AnyTask /\ Head(loop.batch).op = "sendInLoop"
        /\ loop' \in ClosersLoop /\ loop'.batch \in Seq(AnyTask)
        /\ loop'.revents = {} /\ loop'.at = "tasks" /\ Round'
        BY <2>1, ClosersRunning
  <2>3. Head(loop.batch).msg \in Messages BY <2>2 DEF AnyTask, LaterTask
  <2>4. conn \in Conn /\ sock \in Sock /\ hist \in Hist /\ StreamIsIntact
        BY DEF ClosersInv, ClosersTypes
  <2>5. /\ conn' \in Conn /\ sock' \in Sock /\ hist' \in Hist
        /\ pendingTasks' \in Seq(AnyTask)
        /\ conn'.state_ = conn.state_
        /\ conn'.events_ \in {conn.events_, conn.events_ \cup {"OUT"}}
        /\ StreamIsIntact'
        BY <2>1, <2>2, <2>3, <2>4, CallbacksAreTasks, SendKeepsStream
  <2>6. pendingTasks' \in Seq(AnyTask \cup {Establish}) BY <2>5, SeqMonotonic
  <2>7. ClosersTypes' /\ ClosersPhase'
        BY <2>1, <2>2, <2>5, <2>6 DEF ClosersInv, ClosersTypes, ClosersPhase
  <2>8. ClosersEvents'
        BY <2>2, <2>5 DEF ClosersInv, ClosersEvents, registered, isReading
  <2> QED BY <2>2, <2>5, <2>7, <2>8 DEF ClosersInv
<1>3. CASE runShutdownInLoop
  <2>1. /\ Running("shutdownInLoop", FALSE)
        /\ sock' = [sock EXCEPT !.shut = shutdownInLoop(conn.state_, conn.events_)]
        /\ UNCHANGED <<conn, fate, pendingTasks, holds, call, hist>>
        BY <1>3 DEF runShutdownInLoop
  <2>2. /\ conn.state_ # "kConnecting" /\ pendingTasks \in Seq(AnyTask)
        /\ loop' \in ClosersLoop /\ loop'.batch \in Seq(AnyTask)
        /\ loop'.revents = {} /\ loop'.at = "tasks" /\ Round'
        BY <2>1, ClosersRunning
  <2>3. sock' \in Sock BY <2>1 DEF ClosersInv, ClosersTypes, Sock, shutdownInLoop
  <2>4. ClosersTypes' /\ ClosersPhase'
        BY <2>1, <2>2, <2>3 DEF ClosersInv, ClosersTypes, ClosersPhase
  <2>5. ClosersEvents' /\ StreamIsIntact'
        BY <2>1, <2>2
        DEF ClosersInv, ClosersEvents, registered, isReading, StreamIsIntact
  <2> QED BY <2>2, <2>4, <2>5 DEF ClosersInv
<1>4. CASE forceCloseInLoop
  <2>1. /\ Running("forceCloseInLoop", FALSE)
        /\ IF conn.state_ # "kDisconnected" THEN handleClose ELSE UNCHANGED <<conn, fate>>
        /\ UNCHANGED <<pendingTasks, holds, call, sock, hist>>
        BY <1>4 DEF forceCloseInLoop
  <2>2. /\ conn.state_ # "kConnecting" /\ pendingTasks \in Seq(AnyTask)
        /\ loop' \in ClosersLoop /\ loop'.batch \in Seq(AnyTask)
        /\ loop'.revents = {} /\ loop'.at = "tasks" /\ Round'
        BY <2>1, ClosersRunning
  <2>3. /\ conn' \in Conn /\ conn'.state_ # "kConnecting"
        /\ conn'.outputBuffer_ = conn.outputBuffer_ /\ conn'.events_ \in {conn.events_, {}}
    <3>1. CASE conn.state_ # "kDisconnected" BY <2>1, <2>2, <3>1, ClosersClose
    <3>2. CASE conn.state_ = "kDisconnected"
          BY <2>1, <3>2 DEF ClosersInv, ClosersTypes
    <3> QED BY <3>1, <3>2
  <2>4. ClosersTypes' /\ ClosersPhase'
        BY <2>1, <2>2, <2>3 DEF ClosersInv, ClosersTypes, ClosersPhase
  <2>5. ClosersEvents' /\ StreamIsIntact'
        BY <2>1, <2>2, <2>3
        DEF ClosersInv, ClosersEvents, registered, isReading, StreamIsIntact
  <2> QED BY <2>2, <2>3, <2>4, <2>5 DEF ClosersInv
<1>5. CASE runUserCallback
  <2>1. /\ Running("writeCompleteCallback", TRUE) \/ Running("highWaterMarkCallback", TRUE)
        /\ UNCHANGED <<conn, fate, pendingTasks, holds, call, sock, hist>>
        BY <1>5 DEF runUserCallback
  <2>2. /\ conn.state_ # "kConnecting" /\ pendingTasks \in Seq(AnyTask)
        /\ loop' \in ClosersLoop /\ loop'.batch \in Seq(AnyTask)
        /\ loop'.revents = {} /\ loop'.at = "tasks" /\ Round'
        BY <2>1, ClosersRunning
  <2>3. ClosersTypes' /\ ClosersPhase'
        BY <2>1, <2>2 DEF ClosersInv, ClosersTypes, ClosersPhase
  <2>4. ClosersEvents' /\ StreamIsIntact'
        BY <2>1, <2>2
        DEF ClosersInv, ClosersEvents, registered, isReading, StreamIsIntact
  <2> QED BY <2>2, <2>3, <2>4 DEF ClosersInv
<1> QED BY <1>1, <1>2, <1>3, <1>4, <1>5

\* Calls in a callback: the connection is established, and what they queue comes after.
LEMMA ClosersInLoopCalls ==
  ASSUME ClosersInv, sendByLoop \/ shutdownByLoop \/ forceCloseByLoop \/ switchReading
  PROVE  ClosersInv'
<1>1. Up /\ loop.inCallback /\ UNCHANGED <<loop, holds, call>>
      BY DEF sendByLoop, shutdownByLoop, forceCloseByLoop, switchReading, InLoopCall
<1>2. conn.state_ # "kConnecting" /\ pendingTasks \in Seq(AnyTask) /\ loop.batch \in Seq(AnyTask)
      BY <1>1 DEF ClosersInv, ClosersPhase
<1>3. /\ conn \in Conn /\ sock \in Sock /\ hist \in Hist /\ StreamIsIntact
      /\ isReading => "PRI" \in conn.events_
      BY DEF ClosersInv, ClosersTypes, ClosersEvents
<1>4. /\ conn' \in Conn /\ sock' \in Sock /\ hist' \in Hist
      /\ pendingTasks' \in Seq(AnyTask)
      /\ conn'.state_ # "kConnecting"
      /\ registered => registered'
      /\ isReading' => "PRI" \in conn'.events_
      /\ StreamIsIntact'
  <2>1. CASE sendByLoop
    <3>1. PICK m \in Messages :
             IF conn.state_ = "kConnected" THEN sendInLoop(m)
             ELSE UNCHANGED <<conn, fate, pendingTasks, sock, hist>>
          BY <2>1 DEF sendByLoop
    <3>2. CASE conn.state_ = "kConnected"
      <4>1. /\ conn' \in Conn /\ sock' \in Sock /\ hist' \in Hist
            /\ pendingTasks' \in Seq(AnyTask) /\ conn'.state_ = conn.state_
            /\ conn'.events_ \in {conn.events_, conn.events_ \cup {"OUT"}} /\ StreamIsIntact'
            BY <1>1, <1>2, <1>3, <3>1, <3>2, CallbacksAreTasks, SendKeepsStream
      <4> QED BY <1>3, <3>2, <4>1 DEF registered, isReading
    <3>3. CASE conn.state_ # "kConnected"
          BY <1>2, <1>3, <3>1, <3>3 DEF registered, isReading, StreamIsIntact
    <3> QED BY <3>2, <3>3
  <2>2. CASE shutdownByLoop
    <3>1. /\ conn' = [conn EXCEPT !.state_ = "kDisconnecting"]
          /\ UNCHANGED <<fate, pendingTasks, hist>>
          BY <2>2 DEF shutdownByLoop, InLoopCall, stateAtomicGetAndSet
    <3>2. sock' \in Sock BY <1>3, <2>2 DEF shutdownByLoop, Sock, shutdownInLoop
    <3> QED BY <1>2, <1>3, <3>1, <3>2
            DEF Conn, registered, isReading, StreamIsIntact
  <2>3. CASE forceCloseByLoop
    <3>1. /\ conn' = [conn EXCEPT !.state_ = "kDisconnecting"]
          /\ pendingTasks' = Append(pendingTasks, [op |-> "forceCloseInLoop"])
          /\ UNCHANGED <<fate, sock, hist>>
          BY <2>3 DEF forceCloseByLoop, stateAtomicGetAndSet
    <3>2. pendingTasks' \in Seq(AnyTask)
      <4>1. [op |-> "forceCloseInLoop"] \in AnyTask BY DEF AnyTask, LaterTask
      <4> QED BY <1>2, <3>1, <4>1, AppendProperties
    <3> QED BY <1>3, <3>1, <3>2 DEF Conn, registered, isReading, StreamIsIntact
  <2>4. CASE switchReading
    <3>1. /\ conn' = [conn EXCEPT !.events_ = IF isReading THEN disableRead ELSE enableRead]
          /\ UNCHANGED <<fate, pendingTasks, sock, hist>>
          BY <2>4 DEF switchReading
    <3> QED BY <1>2, <1>3, <3>1
            DEF Conn, registered, isReading, StreamIsIntact, disableRead, enableRead
  <2> QED BY <2>1, <2>2, <2>3, <2>4
<1>5. pendingTasks' \in Seq(AnyTask \cup {Establish}) BY <1>4, SeqMonotonic
<1>6. ClosersTypes' /\ ClosersPhase' /\ Round'
      BY <1>1, <1>2, <1>4, <1>5 DEF ClosersInv, ClosersTypes, ClosersPhase, Round
<1>7. ClosersEvents'
      BY <1>1, <1>4 DEF ClosersInv, ClosersEvents, registered, isReading
<1> QED BY <1>4, <1>6, <1>7 DEF ClosersInv

\* What threads do, with the exchange of state_.
LEMMA ClosersThreads ==
  ASSUME ClosersInv, NEW t \in Threads,
         send(t) \/ queueInLoop(t) \/ dropReference(t) \/ ThreadCloses(t)
  PROVE  ClosersInv'
<1> USE DEF ThreadCloses
<1>1. UNCHANGED <<loop, sock, hist>>
      BY DEF send, queueInLoop, dropReference, shutdown, forceClose, exchange, Calls, ThreadStep
<1>2. conn.state_ # "kConnecting"
      BY DEF send, queueInLoop, dropReference, shutdown, forceClose, exchange, Calls,
             ClosersInv, ClosersPhase, Idle
<1>3. /\ pendingTasks \in Seq(AnyTask) /\ loop.batch \in Seq(AnyTask)
      /\ call \in [Threads -> ClosersCall] /\ conn \in Conn
      BY <1>2 DEF ClosersInv, ClosersPhase, ClosersTypes
<1>4. /\ conn' \in Conn /\ conn'.outputBuffer_ = conn.outputBuffer_
      /\ conn'.events_ = conn.events_ /\ conn'.state_ # "kConnecting"
  <2>1. CASE exchange(t) BY <1>3, <2>1 DEF exchange, stateAtomicGetAndSet, Conn
  <2>2. CASE UNCHANGED conn BY <1>2, <1>3, <2>2
  <2> QED BY <2>1, <2>2 DEF send, queueInLoop, dropReference, shutdown, forceClose
<1>5. pendingTasks' \in Seq(AnyTask)
  <2>1. CASE queueInLoop(t)
    <3>1. call[t] \in ClosersCall /\ call[t].op = "queueInLoop" BY <1>3, <2>1 DEF queueInLoop
    <3>2. call[t].task \in AnyTask BY <3>1 DEF ClosersCall, Idle
    <3> QED BY <1>3, <2>1, <3>2, AppendProperties DEF queueInLoop
  <2>2. CASE UNCHANGED pendingTasks BY <1>3, <2>2
  <2> QED BY <2>1, <2>2 DEF send, dropReference, shutdown, forceClose, exchange
<1>6. call' \in [Threads -> ClosersCall]
  <2>1. \A place \in ClosersCall : At(t, place) => call' \in [Threads -> ClosersCall]
        BY <1>3 DEF At
  <2>2. \A task \in AnyTask : Queueing(task) \in ClosersCall BY DEF Queueing, ClosersCall
  <2>3. Idle \in ClosersCall BY DEF ClosersCall
  <2>4. CASE send(t)
    <3>1. PICK m \in Messages :
             At(t, IF conn.state_ = "kConnected"
                   THEN Queueing([op |-> "sendInLoop", msg |-> m]) ELSE Idle)
          BY <2>4 DEF send
    <3>2. [op |-> "sendInLoop", msg |-> m] \in AnyTask BY DEF AnyTask, LaterTask
    <3> QED BY <2>1, <2>2, <2>3, <3>1, <3>2
  <2>5. CASE queueInLoop(t) BY <2>1, <2>3, <2>5 DEF queueInLoop
  <2>6. CASE shutdown(t)
    <3>1. [op |-> "shutdown"] \in ClosersCall BY DEF ClosersCall
    <3> QED BY <2>1, <2>6, <3>1 DEF shutdown
  <2>7. CASE forceClose(t)
    <3>1. [op |-> "forceClose"] \in ClosersCall BY DEF ClosersCall
    <3> QED BY <2>1, <2>7, <3>1 DEF forceClose
  <2>8. CASE exchange(t)
    <3>1. [op |-> "shutdownInLoop"] \in AnyTask /\ [op |-> "forceCloseInLoop"] \in AnyTask
          BY DEF AnyTask, LaterTask
    <3>2. \/ At(t, Queueing([op |-> "shutdownInLoop"]))
          \/ At(t, Queueing([op |-> "forceCloseInLoop"]))
          \/ At(t, Idle)
          BY <2>8 DEF exchange
    <3> QED BY <2>1, <2>2, <2>3, <3>1, <3>2
  <2>9. CASE dropReference(t) BY <1>3, <2>9 DEF dropReference
  <2> QED BY <2>4, <2>5, <2>6, <2>7, <2>8, <2>9
<1>7. pendingTasks' \in Seq(AnyTask \cup {Establish}) BY <1>5, SeqMonotonic
<1>8. ClosersTypes' /\ ClosersPhase' /\ Round'
      BY <1>1, <1>3, <1>4, <1>5, <1>6, <1>7
      DEF ClosersInv, ClosersTypes, ClosersPhase, Round
<1>9. ClosersEvents' /\ StreamIsIntact'
      BY <1>1, <1>4 DEF ClosersInv, ClosersEvents, registered, isReading, StreamIsIntact
<1> QED BY <1>8, <1>9 DEF ClosersInv

\* The base loop, the destructor, the peer and the kernel leave the connection to its
\* loop.
LEMMA ClosersOthers ==
  ASSUME ClosersInv,
         \/ closeConnectionInLoop \/ connectDestroyed \/ destructor
         \/ peerSends \/ peerCloses \/ peerResets \/ peerReads
  PROVE  ClosersInv'
<1>1. UNCHANGED <<conn, loop, pendingTasks, holds, call, hist>>
      BY DEF closeConnectionInLoop, connectDestroyed, destructor, BaseLoopRuns,
             peerSends, peerCloses, peerResets, peerReads, Kernel
<1>2. sock' \in Sock
  <2>1. sock \in Sock BY DEF ClosersInv, ClosersTypes
  <2>2. CASE peerReads
    <3>1. PICK r \in sock.room + 1 .. SndBuf : sock' = [sock EXCEPT !.room = r]
          BY <2>2 DEF peerReads
    <3>2. r \in 0 .. SndBuf BY <2>1, ConnectionAssumption DEF Sock
    <3> QED BY <2>1, <3>1, <3>2 DEF Sock
  <2>3. CASE peerSends \/ peerCloses \/ peerResets
        BY <2>1, <2>3 DEF peerSends, peerCloses, peerResets, Sock
  <2>4. CASE closeConnectionInLoop \/ connectDestroyed \/ destructor
        BY <2>1, <2>4 DEF closeConnectionInLoop, connectDestroyed, destructor, BaseLoopRuns
  <2> QED BY <2>2, <2>3, <2>4
<1>3. ClosersTypes' /\ ClosersPhase' /\ Round' /\ ClosersEvents' /\ StreamIsIntact'
      BY <1>1, <1>2 DEF ClosersInv, ClosersTypes, ClosersPhase, Round, ClosersEvents,
         registered, isReading, StreamIsIntact
<1> QED BY <1>3 DEF ClosersInv

NextWithClosers == Next \/ runShutdownInLoop \/ \E t \in Threads : ThreadCloses(t)

\* Every step keeps the invariant, the closes of other threads included.
LEMMA ClosersStep == ClosersInv /\ [NextWithClosers]_vars => ClosersInv'
<1> SUFFICES ASSUME ClosersInv, [NextWithClosers]_vars PROVE ClosersInv'
    OBVIOUS
<1>1. CASE UNCHANGED vars
  <2>1. UNCHANGED <<conn, fate, loop, pendingTasks, holds, call, sock, hist>>
        BY <1>1 DEF vars
  <2> QED BY <2>1 DEF ClosersInv, ClosersTypes, ClosersPhase, Round, ClosersEvents,
                      registered, isReading, StreamIsIntact
<1>2. CASE poll \/ dispatchClose \/ handleError \/ handleRead \/ handleWrite
      BY <1>2, ClosersPoll, ClosersDispatch, ClosersWrite
<1>3. CASE handleEvents \/ doPendingTasks \/ tasksDone \/ callbackReturns
      BY <1>3, ClosersRound
<1>4. CASE \/ connectEstablished \/ runSendInLoop \/ runShutdownInLoop
           \/ forceCloseInLoop \/ runUserCallback
      BY <1>4, ClosersTasks
<1>5. CASE sendByLoop \/ shutdownByLoop \/ forceCloseByLoop \/ switchReading
      BY <1>5, ClosersInLoopCalls
<1>6. CASE \E t \in Threads : send(t) \/ queueInLoop(t) \/ dropReference(t) \/ ThreadCloses(t)
      BY <1>6, ClosersThreads
<1>7. CASE \/ closeConnectionInLoop \/ connectDestroyed \/ destructor
           \/ peerSends \/ peerCloses \/ peerResets \/ peerReads
      BY <1>7, ClosersOthers
<1> QED BY <1>1, <1>2, <1>3, <1>4, <1>5, <1>6, <1>7, NextActions DEF NextWithClosers

\* The invariant of a connection that any thread may close.
LEMMA ClosersInvariant == SpecWithClosers => []ClosersInv
<1>1. Init => ClosersInv
  <2> SUFFICES ASSUME Init PROVE ClosersInv
      OBVIOUS
  <2>1. ConnectionInv BY InitInv
  <2>2. <<>> \in Seq(AnyTask \cup {Establish}) /\ <<Establish>> \in Seq(AnyTask \cup {Establish})
        OBVIOUS
  <2>3. ClosersTypes
        BY <2>1, <2>2 DEF Init, ConnectionInv, Types, ClosersTypes, ClosersLoop, ClosersCall,
                          Establish
  <2>4. ClosersPhase /\ Round /\ ClosersEvents /\ StreamIsIntact
        BY <2>1 DEF Init, ConnectionInv, Phase, ClosersPhase, ClosersEvents, registered,
                    isReading, Stream
  <2> QED BY <2>3, <2>4 DEF ClosersInv
<1> QED BY <1>1, ClosersStep, PTL DEF SpecWithClosers, NextWithClosers

\* Closing from other threads, which fails asserts and may close twice, still cannot
\* break the stream: sendInLoop and handleWrite run in the loop thread whoever closes.
THEOREM BytesInOrderWithClosers == SpecWithClosers => []StreamIsIntact
<1>1. ClosersInv => StreamIsIntact BY DEF ClosersInv
<1> QED BY <1>1, ClosersInvariant, PTL

\* The ends of a connection when other threads close it too: those of AssertsHold,
\* and six asserts more.
CloserFates ==
    AssertsHold \/ fate \in {"EPoller.cpp:55", "TcpServer.cpp:76", "TcpConnection.cpp:66",
                              "TcpConnection.cpp:121", "TcpConnection.cpp:179",
                              "TcpConnection.cpp:263"}

\* handleClose fails at 286 only on a closed connection, or at the poller on one
\* whose state_ another thread had exchanged.
LEMMA ClosersCloseFates ==
  ASSUME ClosersInv, Up, registered, handleClose
  PROVE  CloserFates'
<1>1. conn.state_ # "kConnecting" /\ conn \in Conn
      BY DEF ClosersInv, ClosersEvents, ClosersTypes
<1>2. CASE conn.state_ = "kDisconnected"
  <2>1. conn' = conn /\ fate' = "TcpConnection.cpp:286" BY <1>2, CloseFails
  <2> QED BY <1>2, <2>1 DEF CloserFates, AssertsHold, Reopened, registered
<1>3. CASE conn.state_ # "kDisconnected"
  <2>1. fate' = "alive" BY <1>1, <1>3 DEF handleClose, Closes, CloseAsserts, Conn, Up
  <2> QED BY <2>1 DEF CloserFates, AssertsHold
<1> QED BY <1>2, <1>3

\* What a step ends the process with when any thread closes.
LEMMA ClosersFatesStep ==
  ASSUME ClosersInv, CloserFates, [NextWithClosers]_vars PROVE CloserFates'
<1>1. CASE UNCHANGED vars BY <1>1 DEF vars, CloserFates, AssertsHold, Reopened, registered
<1>2. ASSUME Up, fate' \in {fate, "EPoller.cpp:55", "TcpServer.cpp:76", "TcpConnection.cpp:66",
                            "TcpConnection.cpp:121", "TcpConnection.cpp:179",
                            "TcpConnection.cpp:263"}
      PROVE  CloserFates'
      BY <1>2 DEF CloserFates, AssertsHold, Up
<1>3. ASSUME fate' = "SIGPIPE", WriteFails' PROVE CloserFates'
      BY <1>3 DEF CloserFates, AssertsHold, WriteFails
<1>4. CASE \/ poll \/ handleEvents \/ handleError \/ doPendingTasks \/ tasksDone
           \/ runUserCallback \/ runShutdownInLoop \/ callbackReturns
      BY <1>2, <1>4 DEF poll, handleEvents, handleError, doPendingTasks, tasksDone, Dispatching,
         runUserCallback, runShutdownInLoop, Running, callbackReturns, InLoopCall
<1>5. CASE shutdownByLoop \/ forceCloseByLoop \/ switchReading
      BY <1>2, <1>5 DEF shutdownByLoop, forceCloseByLoop, switchReading, InLoopCall
<1>6. CASE \E t \in Threads : \/ send(t) \/ queueInLoop(t) \/ dropReference(t)
                              \/ ThreadCloses(t)
      BY <1>2, <1>6 DEF send, queueInLoop, dropReference, ThreadCloses, shutdown, forceClose,
         exchange, Calls, ThreadStep, Assert
<1>7. CASE \/ connectDestroyed \/ closeConnectionInLoop
           \/ peerSends \/ peerCloses \/ peerResets \/ peerReads
      BY <1>2, <1>7 DEF connectDestroyed, closeConnectionInLoop, BaseLoopRuns, Assert,
         peerSends, peerCloses, peerResets, peerReads, Kernel
<1>8. CASE connectEstablished
  <2>1. Up /\ Head(loop.batch).op = "connectEstablished" /\ loop.batch # <<>>
        BY <1>8 DEF connectEstablished, Running
  <2>2. conn.state_ = "kConnecting"
    <3>1. SUFFICES ASSUME loop.batch \in Seq(AnyTask) PROVE FALSE
          BY DEF ClosersInv, ClosersPhase
    <3>2. Head(loop.batch) \in AnyTask BY <3>1, <2>1, HeadTailProperties
    <3> QED BY <3>2, <2>1 DEF AnyTask, LaterTask
  <2> QED BY <1>2, <1>8, <2>1, <2>2 DEF connectEstablished, Assert
<1>9. ASSUME Up, conn.state_ # "kConnecting", pendingTasks \in Seq(AnyTask),
             NEW m \in Messages, sendInLoop(m)
      PROVE  CloserFates'
  <2>1. /\ fate' \in {fate, "TcpConnection.cpp:121", "SIGPIPE"}
        /\ fate' = "SIGPIPE" => WriteFails'
        BY <1>9, CallbacksAreTasks, SendKeepsStream DEF ClosersInv, ClosersTypes
  <2> QED BY <1>2, <1>3, <1>9, <2>1
<1>10. CASE runSendInLoop
  <2>1. Running("sendInLoop", FALSE) /\ sendInLoop(Head(loop.batch).msg) /\ Up
        BY <1>10 DEF runSendInLoop, Running
  <2>2. /\ conn.state_ # "kConnecting" /\ pendingTasks \in Seq(AnyTask)
        /\ Head(loop.batch) \in AnyTask /\ Head(loop.batch).op = "sendInLoop"
        BY <2>1, ClosersRunning
  <2>3. Head(loop.batch).msg \in Messages BY <2>2 DEF AnyTask, LaterTask
  <2> QED BY <1>9, <2>1, <2>2, <2>3
<1>11. CASE sendByLoop
  <2>1. Up /\ conn.state_ # "kConnecting" /\ pendingTasks \in Seq(AnyTask)
        BY <1>11 DEF sendByLoop, InLoopCall, ClosersInv, ClosersPhase
  <2>2. PICK m \in Messages :
           IF conn.state_ = "kConnected" THEN sendInLoop(m)
           ELSE UNCHANGED <<conn, fate, pendingTasks, sock, hist>>
        BY <1>11 DEF sendByLoop
  <2> QED BY <1>2, <1>9, <2>1, <2>2
<1>12. CASE handleWrite
  <2>1. Up /\ loop.revents = {"OUT"} BY <1>12 DEF handleWrite, Dispatching
  <2>2. pendingTasks \in Seq(AnyTask) BY <2>1 DEF ClosersInv, ClosersPhase
  <2>3. /\ fate' \in {fate, "TcpConnection.cpp:263", "SIGPIPE"}
        /\ fate' = "SIGPIPE" => WriteFails'
        BY <1>12, <2>2, CallbacksAreTasks, WriteKeepsStream DEF ClosersInv, ClosersTypes
  <2> QED BY <1>2, <1>3, <2>1, <2>3
<1>13. CASE forceCloseInLoop
  <2>1. Running("forceCloseInLoop", FALSE) /\ Up BY <1>13 DEF forceCloseInLoop, Running
  <2>2. conn.state_ # "kConnecting" BY <2>1, ClosersRunning
  <2>3. fate' \in {fate, "EPoller.cpp:55"}
        BY <1>13, <2>2 DEF forceCloseInLoop, handleClose, Closes, CloseAsserts, ClosersInv,
           ClosersTypes, Conn
  <2> QED BY <1>2, <2>1, <2>3
<1>14. CASE dispatchClose
  <2>1. Up /\ "HUP" \in loop.revents /\ handleClose BY <1>14 DEF dispatchClose, Dispatching
  <2>2. registered BY <2>1 DEF ClosersInv, ClosersEvents
  <2> QED BY <2>1, <2>2, ClosersCloseFates
<1>15. CASE handleRead
  <2>1. Up /\ "IN" \in loop.revents /\ sock' = [sock EXCEPT !.rx = FALSE]
        BY <1>15 DEF handleRead, Dispatching
  <2>2. registered /\ sock \in Sock BY <2>1 DEF ClosersInv, ClosersEvents, ClosersTypes
  <2>3. CASE conn.state_ = "kDisconnected"
    <3>1. conn' = conn /\ fate' = "TcpConnection.cpp:241" BY <1>15, <2>3 DEF handleRead
    <3> QED BY <2>2, <2>3, <3>1 DEF CloserFates, AssertsHold, Reopened, registered
  <2>4. CASE conn.state_ # "kDisconnected" /\ ~sock.rx /\ sock.err = "none"
    <3>1. handleClose BY <1>15, <2>4 DEF handleRead
    <3> QED BY <2>1, <2>2, <3>1, ClosersCloseFates
  <2>5. CASE conn.state_ # "kDisconnected" /\ ~sock.rx /\ sock.err # "none"
    <3>1. fate' = "Buffer::readFd" BY <1>15, <2>5 DEF handleRead
    <3>2. sock'.rst BY <2>1, <2>2, <2>5 DEF Sock
    <3> QED BY <3>1, <3>2 DEF CloserFates, AssertsHold
  <2>6. CASE conn.state_ # "kDisconnected" /\ sock.rx
    <3>1. fate' = fate BY <1>15, <2>6 DEF handleRead
    <3> QED BY <1>2, <2>1, <3>1
  <2> QED BY <2>3, <2>4, <2>5, <2>6
<1>16. CASE destructor
  <2>1. Up /\ conn' = conn BY <1>16 DEF destructor
  <2>2. CASE conn.state_ # "kDisconnected" BY <1>2, <1>16, <2>1, <2>2 DEF destructor
  <2>3. CASE conn.state_ = "kDisconnected"
    <3>1. loop.at = "active" => Reopened BY <2>3 DEF ClosersInv, ClosersEvents, Reopened
    <3>2. fate' = IF loop.at = "active" THEN "freed channel" ELSE "destroyed"
          BY <1>16, <2>3 DEF destructor
    <3> QED BY <2>1, <3>1, <3>2 DEF CloserFates, AssertsHold, Reopened, registered
  <2> QED BY <2>2, <2>3
<1> QED BY <1>1, <1>4, <1>5, <1>6, <1>7, <1>8, <1>10, <1>11, <1>12, <1>13, <1>14, <1>15,
           <1>16, NextActions DEF NextWithClosers

\* Whatever closing from other threads brings is confined to CloserFates: of all the
\* asserts of these files it adds six places, and connectEstablished
\* (TcpConnection.cpp:74) runs once and first whoever closes.
THEOREM FatesWithClosers == SpecWithClosers => []CloserFates
<1>1. Init => CloserFates BY DEF Init, CloserFates, AssertsHold
<1> QED BY <1>1, ClosersInvariant, ClosersFatesStep, PTL DEF SpecWithClosers, NextWithClosers
=============================================================================
