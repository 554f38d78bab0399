------------------------------ MODULE RpcServer ------------------------------
(***************************************************************************)
(* BaseServer, RpcServer, Service and Procedure on one connection: the     *)
(* loop thread takes length-prefixed messages out of the input buffer and  *)
(* dispatches them to procedures of the user, which answer at once or      *)
(* later, from a thread of their own.                                      *)
(*                                                                         *)
(* The input buffer is a sequence of units: a length line or a body, which *)
(* ends with CRLF and so is a line too when a length is expected.  A       *)
(* request document is what the parser and the validation tell apart.  Of  *)
(* the output buffer only matters whether it holds up a shutdown.          *)
(***************************************************************************)
EXTENDS Integers, Sequences, FiniteSets

CONSTANT
    params_     \* the parameters of the procedures: [paramName_, paramType_], in order

\* They are those of a C++ function (ServerStubGen::genMethodArg), with a name each.
ASSUME ParamsAssumption ==
    /\ params_ \in Seq([paramName_ : STRING, paramType_ : STRING])
    /\ \A i, j \in DOMAIN params_ : params_[i].paramName_ = params_[j].paramName_ => i = j

VARIABLES
    inbuf,      \* the units of the input buffer
    handler,    \* the loop thread: polling, in handleMessage, or in a batch
    pending,    \* UserDoneCallbacks in the hands of the user's threads
    batches,    \* the ThreadSafeData of each batch, by frame
    conn,       \* the connection: "connected", "closing" (a shutdown waits for the
                \* output buffer), "shut" for writing, "broken"
    sends,      \* frames other threads queued for the loop to send
    wire        \* the frames written to the output, oldest first

serverVars == <<inbuf, handler, pending, batches, conn, sends, wire>>

NoId  == -1     \* a request without the member "id"
BadId == -2     \* an id that is not an INT32

serverInit ==
    /\ inbuf = <<>> /\ handler = [at |-> "poll"] /\ pending = {} /\ batches = <<>>
    /\ conn = "connected" /\ sends = <<>> /\ wire = <<>>

-----------------------------------------------------------------------------
(* Validation: a list of tests in the order of the code, the first that    *)
(* fails throws.                                                           *)

\* A test of the validation: if it fails, who is the exception for.
Test(fails, exception, code) ==
    [fails |-> fails, exception |-> exception, code |-> code]

\* The exception thrown by a list of tests: that of the first one that fails.
Thrown(tests) ==
    LET failing == {i \in DOMAIN tests : tests[i].fails}
    IN IF failing = {} THEN "none"
       ELSE tests[CHOOSE i \in failing : \A j \in failing : i <= j].exception

ThrownCode(tests) ==
    tests[CHOOSE i \in DOMAIN tests :
            tests[i].fails /\ \A j \in DOMAIN tests : tests[j].fails => i <= j].code

isNotify(r) == r.id = NoId

validateRequest(r) ==
    << Test(r.id = BadId,                  "request", "INVALID_REQUEST"),
       Test(r.jsonrpc # "2.0",             "request", "INVALID_REQUEST"),
       Test(r.method.service = "missing",  "request", "INVALID_REQUEST"),
       Test(r.method.service = "rpc" /\ r.method.name = "",
                                           "request", "METHOD_NOT_FOUND"),
       Test(r.extra,                       "request", "INVALID_REQUEST") >>

\* findValue throws a RequestException for a notification too.
validateNotify(r) ==
    << Test(r.jsonrpc = "missing",         "request", "INVALID_REQUEST"),
       Test(r.jsonrpc # "2.0",             "notify",  "INVALID_REQUEST"),
       Test(r.method.service = "missing",  "request", "INVALID_REQUEST"),
       Test(r.method.service = "rpc" /\ r.method.name = "",
                                           "notify",  "METHOD_NOT_FOUND"),
       Test(r.extra,                       "notify",  "INVALID_REQUEST") >>

\* Value::getSize of the params: a scalar counts as one.
getSize(p) == IF p.kind = "scalar" THEN 1
              ELSE IF p.kind = "array" THEN Len(p.types) ELSE Cardinality(DOMAIN p.types)

\* Mutant of validateGeneric: names are looked up without their types.
validateNames(p) ==
    IF p.kind = "absent" THEN params_ = <<>>
    ELSE /\ getSize(p) = Len(params_)
         /\ \/ /\ p.kind = "array"
               /\ \A i \in DOMAIN params_ : p.types[i] = params_[i].paramType_
            \/ /\ p.kind = "object"
               /\ \A i \in DOMAIN params_ : params_[i].paramName_ \in DOMAIN p.types

\* Procedure::validateGeneric: by position in an array, by name in an object.
validateGeneric(p) ==
    IF p.kind = "absent" THEN params_ = <<>>
    ELSE /\ getSize(p) = Len(params_)
         /\ \/ /\ p.kind = "array"
               /\ \A i \in DOMAIN params_ : p.types[i] = params_[i].paramType_
            \/ /\ p.kind = "object"
               /\ \A i \in DOMAIN params_ :
                    /\ params_[i].paramName_ \in DOMAIN p.types
                    /\ p.types[params_[i].paramName_] = params_[i].paramType_

callProcedureReturn(r) ==
    << Test(r.method.name # "call",        "request", "METHOD_NOT_FOUND"),
       Test(~validateGeneric(r.params),    "request", "INVALID_PARAMS") >>

callProcedureNotify(r) ==
    << Test(r.method.name # "notify",      "notify",  "METHOD_NOT_FOUND"),
       Test(~validateGeneric(r.params),    "notify",  "INVALID_PARAMS") >>

handleRequestSingle(r) ==
    validateRequest(r) \o
    << Test(r.method.service = "",         "request", "INVALID_REQUEST"),
       Test(r.method.service # "svc",      "request", "METHOD_NOT_FOUND"),
       Test(r.method.name = "",            "request", "INVALID_REQUEST") >>
    \o callProcedureReturn(r)

handleNotifySingle(r) ==
    validateNotify(r) \o
    << Test(r.method.service = "",         "notify",  "INVALID_REQUEST"),
       Test(r.method.service # "svc",      "request", "METHOD_NOT_FOUND"),
       Test(r.method.name = "",            "notify",  "INVALID_REQUEST") >>
    \o callProcedureNotify(r)

\* What becomes of one request object.
handleOne(r) == IF isNotify(r) THEN handleNotifySingle(r) ELSE handleRequestSingle(r)

-----------------------------------------------------------------------------
(* Responses *)

\* UserDoneCallback::operator(): the response carries the id of its request.
resultOf(tag, id) == [kind |-> "result", of |-> tag, id |-> id, code |-> "none"]

\* BaseServer::wrapException: no member "id".
wrapException(tag, code) == [kind |-> "error", of |-> tag, id |-> NoId, code |-> code]

\* The frames of the answer to frame n.
Single(response) == [n |-> response.of[1], batch |-> FALSE, responses |-> <<response>>]
Array(n, responses) == [n |-> n, batch |-> TRUE, responses |-> responses]

\* sendJson in the loop thread: TcpConnection::send gives up unless connected.
sendJson(frame) == wire' = IF conn = "connected" THEN Append(wire, frame) ELSE wire

\* sendJson in another thread: the frame is queued for the loop.
sendJsonLater(frame) == sends' = IF conn = "connected" THEN Append(sends, frame) ELSE sends

\* Mutant of throwRequest: the connection is left open.
throwAndStay(tag, code) ==
    /\ sendJson(Single(wrapException(tag, code)))
    /\ handler' = [at |-> "poll"]
    /\ UNCHANGED <<pending, batches, conn, sends>>

\* BaseServer::onMessage on a RequestException: an error response, then
\* shutdown.  The messages left in the buffer wait for the next read.
throwRequest(tag, code) ==
    /\ sendJson(Single(wrapException(tag, code)))
    /\ IF conn = "connected" THEN conn' \in {"closing", "shut"} ELSE UNCHANGED conn
    /\ handler' = [at |-> "poll"]
    /\ UNCHANGED <<pending, batches, sends>>

\* BaseServer::onMessage on a NotifyException: a warning.
throwNotify ==
    /\ handler' = [at |-> "poll"]
    /\ UNCHANGED <<pending, batches, conn, sends, wire>>
-----------------------------------------------------------------------------
(* handleMessage and handleRequest, one message a step *)

\* An accepted call: the user's procedure answers before it returns, or keeps
\* its UserDoneCallback for later.
invokeSingle(tag, r) ==
    /\ \/ sendJson(Single(resultOf(tag, r.id))) /\ UNCHANGED pending
       \/ /\ pending' = pending \union {[of |-> tag, id |-> r.id, batch |-> FALSE, step |-> "held"]}
          /\ UNCHANGED wire
    /\ UNCHANGED <<handler, batches, conn, sends>>

\* RpcServer::handleRequest of the frame n.
handleRequest(n, doc) ==
    \/ doc.kind = "garbage" /\ throwRequest(<<n, 1>>, "PARSE_ERROR")
    \/ doc.kind = "scalar" /\ throwRequest(<<n, 1>>, "INVALID_REQUEST")
    \/ /\ doc.kind = "single"
       /\ LET tests == handleOne(doc.item) IN
          \/ Thrown(tests) = "request" /\ throwRequest(<<n, 1>>, ThrownCode(tests))
          \/ Thrown(tests) = "notify" /\ throwNotify
          \/ /\ Thrown(tests) = "none" /\ ~isNotify(doc.item)
             /\ invokeSingle(<<n, 1>>, doc.item)
          \/ /\ Thrown(tests) = "none" /\ isNotify(doc.item)
             /\ UNCHANGED <<handler, pending, batches, conn, sends, wire>>
    \/ doc.kind = "batch" /\ doc.items = <<>> /\ throwRequest(<<n, 1>>, "INVALID_REQUEST")
    \/ /\ doc.kind = "batch" /\ doc.items # <<>>
       /\ handler' = [at |-> "batch", n |-> n, i |-> 1, items |-> doc.items]
       /\ batches' = [k \in DOMAIN batches \union {n} |->
                        IF k = n THEN [refs |-> 1, responses |-> <<>>] ELSE batches[k]]
       /\ UNCHANGED <<pending, conn, sends, wire>>

\* The socket is readable: the units us arrive, handleMessage starts.
onMessage(us) ==
    /\ handler.at = "poll" /\ us # <<>>
    /\ inbuf' = inbuf \o us
    /\ handler' = [at |-> "messages"]
    /\ UNCHANGED <<pending, batches, conn, sends, wire>>

\* One turn of the loop of handleMessage.
handleMessage ==
    /\ handler.at = "messages"
    /\ \/ /\ inbuf = <<>> \/ (Len(inbuf) = 1 /\ Head(inbuf).length = "good")
          /\ handler' = [at |-> "poll"]
          /\ UNCHANGED <<inbuf, pending, batches, conn, sends, wire>>
       \/ /\ inbuf # <<>> /\ Head(inbuf).length \in {"none", "bad"}
          /\ inbuf' = Tail(inbuf)
          /\ throwRequest(<<Head(inbuf).n, 1>>, "INVALID_REQUEST")
       \/ /\ inbuf # <<>> /\ Head(inbuf).length = "huge"
          /\ throwRequest(<<Head(inbuf).n, 1>>, "INVALID_REQUEST")
          /\ UNCHANGED inbuf
       \/ /\ Len(inbuf) > 1 /\ Head(inbuf).length = "good"
          /\ inbuf' = Tail(Tail(inbuf))
          /\ handleRequest(inbuf[2].n, inbuf[2].doc)
-----------------------------------------------------------------------------
(* handleRequestBatch, one request object a step *)

\* The loop of the batch is left, the loop thread's reference is still held.
leaveBatch == handler' = [handler EXCEPT !.at = "batch end"]

nextItem == handler' = [handler EXCEPT !.i = @ + 1]

addResponse(n, response) ==
    batches' = [batches EXCEPT ![n].responses = Append(@, response)]

\* An accepted call of a batch: answered at once, or later by a copy of the
\* lambda that holds a reference to the responses.
invokeInBatch(tag, r) ==
    \/ addResponse(tag[1], resultOf(tag, r.id)) /\ UNCHANGED pending
    \/ /\ pending' = pending \union {[of |-> tag, id |-> r.id, batch |-> TRUE, step |-> "held"]}
       /\ batches' = [batches EXCEPT ![tag[1]].refs = @ + 1]

\* Mutant of handleBatchItem: a rejected request is skipped without a response.
handleBatchItemSilently ==
    /\ handler.at = "batch" /\ handler.i <= Len(handler.items)
    /\ LET r     == handler.items[handler.i]
           tag   == <<handler.n, handler.i>>
           tests == <<Test(~r.object, "request", "INVALID_REQUEST")>> \o handleOne(r)
       IN \/ Thrown(tests) # "none" /\ leaveBatch /\ UNCHANGED <<batches, pending>>
          \/ Thrown(tests) = "none" /\ isNotify(r) /\ nextItem /\ UNCHANGED <<batches, pending>>
          \/ Thrown(tests) = "none" /\ ~isNotify(r) /\ nextItem /\ invokeInBatch(tag, r)
    /\ UNCHANGED <<inbuf, conn, sends, wire>>

\* The first exception ends the batch; a RequestException is answered.
handleBatchItem ==
    /\ handler.at = "batch" /\ handler.i <= Len(handler.items)
    /\ LET r     == handler.items[handler.i]
           tag   == <<handler.n, handler.i>>
           tests == <<Test(~r.object, "request", "INVALID_REQUEST")>> \o handleOne(r)
       IN \/ /\ Thrown(tests) = "request" /\ leaveBatch
             /\ addResponse(handler.n, wrapException(tag, ThrownCode(tests)))
             /\ UNCHANGED pending
          \/ Thrown(tests) = "notify" /\ leaveBatch /\ UNCHANGED <<batches, pending>>
          \/ Thrown(tests) = "none" /\ isNotify(r) /\ nextItem /\ UNCHANGED <<batches, pending>>
          \/ Thrown(tests) = "none" /\ ~isNotify(r) /\ nextItem /\ invokeInBatch(tag, r)
    /\ UNCHANGED <<inbuf, conn, sends, wire>>

\* Mutant of releaseBatch: the array is sent by the user's threads only.
releaseBatchSilently ==
    /\ handler.at = "batch end" \/ (handler.at = "batch" /\ handler.i > Len(handler.items))
    /\ batches' = [batches EXCEPT ![handler.n].refs = @ - 1]
    /\ handler' = [at |-> "messages"]
    /\ UNCHANGED <<inbuf, pending, conn, sends, wire>>

\* Return from handleRequestBatch: a reference is dropped, the last one sends
\* the array (~ThreadSafeData).
releaseBatch ==
    /\ handler.at = "batch end" \/ (handler.at = "batch" /\ handler.i > Len(handler.items))
    /\ batches' = [batches EXCEPT ![handler.n].refs = @ - 1]
    /\ IF batches[handler.n].refs = 1
         THEN sendJson(Array(handler.n, batches[handler.n].responses))
         ELSE UNCHANGED wire
    /\ handler' = [at |-> "messages"]
    /\ UNCHANGED <<inbuf, pending, conn, sends>>
-----------------------------------------------------------------------------
(* The user's threads, and the loop's tasks *)

\* A user's thread calls its UserDoneCallback: once.
complete(p) ==
    /\ p \in pending /\ p.step = "held"
    /\ IF p.batch
         THEN /\ addResponse(p.of[1], resultOf(p.of, p.id))
              /\ pending' = (pending \ {p}) \union {[p EXCEPT !.step = "called"]}
              /\ UNCHANGED sends
         ELSE /\ sendJsonLater(Single(resultOf(p.of, p.id)))
              /\ pending' = pending \ {p}
              /\ UNCHANGED batches
    /\ UNCHANGED <<inbuf, handler, conn, wire>>

\* Mutant of release: the array is sent when the loop's reference is the last.
releaseEarly(p) ==
    /\ p \in pending /\ p.step = "called"
    /\ pending' = pending \ {p}
    /\ batches' = [batches EXCEPT ![p.of[1]].refs = @ - 1]
    /\ IF batches[p.of[1]].refs <= 2
         THEN sendJsonLater(Array(p.of[1], batches[p.of[1]].responses))
         ELSE UNCHANGED sends
    /\ UNCHANGED <<inbuf, handler, conn, wire>>

\* ... and destroys it: the last reference to a batch sends the array.
release(p) ==
    /\ p \in pending /\ p.step = "called"
    /\ pending' = pending \ {p}
    /\ batches' = [batches EXCEPT ![p.of[1]].refs = @ - 1]
    /\ IF batches[p.of[1]].refs = 1
         THEN sendJsonLater(Array(p.of[1], batches[p.of[1]].responses))
         ELSE UNCHANGED sends
    /\ UNCHANGED <<inbuf, handler, conn, wire>>

\* A queued send runs as a task of the loop; it still goes out when a shutdown
\* waits, after it the socket answers EPIPE.
sendInLoop ==
    /\ handler.at = "poll" /\ sends # <<>>
    /\ wire' = IF conn \in {"connected", "closing"} THEN Append(wire, Head(sends)) ELSE wire
    /\ sends' = Tail(sends)
    /\ UNCHANGED <<inbuf, handler, pending, batches, conn>>

\* The output buffer has drained (TcpConnection::handleWrite).
drained ==
    /\ handler.at = "poll" /\ conn = "closing"
    /\ conn' = "shut"
    /\ UNCHANGED <<inbuf, handler, pending, batches, sends, wire>>

\* The peer closes or the network fails.
break ==
    /\ conn' = "broken"
    /\ UNCHANGED <<inbuf, handler, pending, batches, sends, wire>>

loopStep == handleMessage \/ handleBatchItem \/ releaseBatch \/ sendInLoop \/ drained
userStep == \E p \in pending : complete(p) \/ release(p)
=============================================================================
