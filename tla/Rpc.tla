--------------------------------- MODULE Rpc ---------------------------------
(***************************************************************************)
(* An RPC server and the peer of one of its connections: a BaseClient      *)
(* ("stub"), or any program that sends JSON-RPC documents ("raw"), so that *)
(* the server meets every kind of request, batch and bad length.           *)
(*                                                                         *)
(* Each direction is a stream of units, a length line and a body for each  *)
(* frame, and a read takes any number of them: a frame may arrive in two   *)
(* reads, several frames in one.                                           *)
(***************************************************************************)
EXTENDS RpcServer, RpcClient

VARIABLES
    script,     \* the frames a raw peer sends: [length, doc]
    posted,     \* how many of them it has sent
    toServer,   \* units on the way to the server
    got,        \* how many units of wire reached the client
    mixed       \* history: frames that met another frame in the client's buffer

vars == <<serverVars, clientVars, script, posted, toServer, got, mixed>>

\* For the runs: procedures of two parameters of different types.
Params == << [paramName_ |-> "a", paramType_ |-> "int"], [paramName_ |-> "b", paramType_ |-> "string"] >>

-----------------------------------------------------------------------------
(* What a peer may send *)

Object(id, version, service, name, params, extra) ==
    [object |-> TRUE, id |-> id, jsonrpc |-> version,
     method |-> [service |-> service, name |-> name], params |-> params, extra |-> extra]

Absent     == [kind |-> "absent"]
ArrayOf(t) == [kind |-> "array", types |-> t]
RightParams == ArrayOf([i \in DOMAIN params_ |-> params_[i].paramType_])

Call   == Object(0, "2.0", "svc", "call", RightParams, FALSE)
Notify == Object(NoId, "2.0", "svc", "notify", RightParams, FALSE)

\* Every way of getting the members of a request wrong.
Methods ==
    {<<"missing", "">>, <<"", "">>, <<"rpc", "">>, <<"other", "">>, <<"other", "call">>,
     <<"svc", "">>, <<"svc", "call">>, <<"svc", "notify">>, <<"svc", "none">>}

Requests ==
    { Object(id, version, method[1], method[2], params, extra) :
        id \in {0, BadId, NoId}, version \in {"2.0", "other", "missing"},
        method \in Methods, params \in {Absent, RightParams}, extra \in BOOLEAN }

\* Every way of getting the params wrong.
ParamSeqs == UNION {[1..k -> {"int", "string"}] : k \in 0..Len(params_)}
ParamMaps == UNION {[names -> {"int", "string"}] : names \in SUBSET {"a", "b", "c"}}

Calls ==
    { [Call EXCEPT !.params = p] :
        p \in {[kind |-> "scalar"], Absent} \union {ArrayOf(t) : t \in ParamSeqs}
              \union {[kind |-> "object", types |-> t] : t \in ParamMaps} }

\* The elements of batches: good ones, and one for each way of failing.
Elements ==
    {Call, Notify, [Call EXCEPT !.jsonrpc = "other"], [Notify EXCEPT !.extra = TRUE],
     [Notify EXCEPT !.method.service = "other"], [Call EXCEPT !.object = FALSE]}

CONSTANT MaxBatch     \* bound: requests in one batch
ASSUME BatchAssumption == MaxBatch \in Nat

Docs ==
    {[kind |-> "garbage"], [kind |-> "scalar"]}
    \union {[kind |-> "single", item |-> r] : r \in Requests \union Calls}
    \union {[kind |-> "batch", items |-> rs] : rs \in UNION {[1..k -> Elements] : k \in 0..MaxBatch}}

CallDoc == [kind |-> "single", item |-> Call]

Good(doc) == [length |-> "good", doc |-> doc]

\* A frame, alone, after a call and before a call.
Scripts ==
    LET frames == {Good(doc) : doc \in Docs} \union {[length |-> l, doc |-> CallDoc] : l \in {"bad", "huge"}}
    IN {<<f>> : f \in frames} \union {<<Good(CallDoc), f>> : f \in frames}
       \union {<<f, Good(CallDoc)>> : f \in frames}

Units(n, frame) ==
    << [length |-> frame.length, n |-> n], [length |-> "none", n |-> n, doc |-> frame.doc] >>

\* The document of frame n; a stub sends calls of a procedure the server has or not.
DocOf(n) ==
    IF script # <<>> THEN script[n].doc
    ELSE [kind |-> "single", item |-> [Call EXCEPT !.id = calls[n].id, !.method.name = calls[n].method]]
-----------------------------------------------------------------------------
Init ==
    /\ serverInit /\ clientInit
    /\ script \in Scripts \union {<<>>}
    /\ posted = 0 /\ toServer = <<>> /\ got = 0 /\ mixed = {}

peerVars == <<script, posted, toServer, got, mixed>>

\* A raw peer sends its next frame.
Post ==
    /\ posted < Len(script) /\ conn # "broken"
    /\ posted' = posted + 1
    /\ toServer' = toServer \o Units(posted', script[posted'])
    /\ UNCHANGED <<serverVars, clientVars, script, got, mixed>>

\* A thread of the stub enters sendCall ...
EnterSendCall ==
    /\ script = <<>>
    /\ \E c \in Callers, method \in {"call", "none"} : addId(c, method)
    /\ UNCHANGED <<serverVars, peerVars>>

\* ... and goes through it; the frame of a connection that is not connected
\* any more is not sent.
SendCall ==
    /\ \E n \in DOMAIN calls :
         \/ (takeKey(n) \/ store(n)) /\ UNCHANGED toServer
         \/ /\ transmit(n)
            /\ toServer' = IF conn = "connected" THEN toServer \o Units(n, Good(DocOf(n)))
                                                 ELSE toServer
    /\ UNCHANGED <<serverVars, script, posted, got, mixed>>

\* The server's socket is readable.
ServerReads ==
    /\ conn # "broken"
    /\ \E k \in 1..Len(toServer) :
         /\ onMessage(SubSeq(toServer, 1, k))
         /\ toServer' = SubSeq(toServer, k + 1, Len(toServer))
    /\ UNCHANGED <<clientVars, script, posted, got, mixed>>

\* The units of the server's frames, as the client sees them.
Answers ==
    [u \in 1..2 * Len(wire) |->
       [frame |-> (u + 1) \div 2, length |-> u % 2 = 1, response |-> wire[(u + 1) \div 2].responses[1]]]

FramesIn(us) == {us[i].frame : i \in DOMAIN us}

\* The client's socket is readable.
ClientReads ==
    /\ script = <<>>
    /\ \E k \in 1..(Len(Answers) - got) :
         LET us == SubSeq(Answers, got + 1, got + k) IN
         /\ onResponse(us)
         /\ got' = got + k
         /\ mixed' = IF Cardinality(FramesIn(cinbuf \o us)) > 1
                       THEN mixed \union FramesIn(cinbuf \o us) ELSE mixed
    /\ UNCHANGED <<serverVars, script, posted, toServer>>

Break ==
    /\ conn # "broken" /\ break
    /\ UNCHANGED <<clientVars, peerVars>>

Serve == (loopStep \/ userStep) /\ UNCHANGED <<clientVars, peerVars>>

Progress == SendCall \/ ServerReads \/ ClientReads \/ Serve

Next == Post \/ EnterSendCall \/ Break \/ Progress

\* Loops run what is ready, the network delivers, a thread inside sendCall goes
\* on and the user's procedures answer: together these steps are finite, so that
\* one of them being taken whenever one can is enough.
Spec == Init /\ [][Next]_vars /\ WF_vars(Progress)

-----------------------------------------------------------------------------
(* Properties *)

\* A message is answered by one frame at most, an array exactly if it is a
\* batch, however the loop and the user's threads share the work
\* (RpcServer.cpp:43-79, BaseServer.cpp:72-87).
AnswersOnce ==
    /\ \A f, g \in DOMAIN wire : wire[f].n = wire[g].n => f = g
    /\ \A f \in DOMAIN wire :
         wire[f].batch <=> DocOf(wire[f].n).kind = "batch" /\ DocOf(wire[f].n).items # <<>>
                           /\ (script # <<>> => script[wire[f].n].length = "good")

\* The array that answers a batch holds one result for each call before the
\* first request that fails, the error of that one if its exception is a
\* RequestException, and nothing for those behind it (RpcServer.cpp:114-149).
BatchAnswers ==
    \A f \in DOMAIN wire : wire[f].batch =>
        LET items   == DocOf(wire[f].n).items
            Fate(i) == IF items[i].object THEN Thrown(handleOne(items[i])) ELSE "request"
            Ends(i) == \A j \in 1..(i - 1) : Fate(j) = "none"
            due     == {i \in DOMAIN items : /\ Ends(i) /\ Fate(i) # "notify"
                                             /\ Fate(i) = "none" => ~isNotify(items[i])}
        IN /\ {wire[f].responses[k].of[2] : k \in DOMAIN wire[f].responses} = due
           /\ Len(wire[f].responses) = Cardinality(due)
           /\ \A k \in DOMAIN wire[f].responses :
                (wire[f].responses[k].kind = "error") <=> (Fate(wire[f].responses[k].of[2]) = "request")

\* What is wrong with a request, by the table of BaseServer.cpp:38-42.
Faults(r) ==
    LET service == r.method.service
        methods == IF isNotify(r) THEN {"notify"} ELSE {"call"}
        named   == [name \in {params_[i].paramName_ : i \in DOMAIN params_} |->
                      params_[CHOOSE i \in DOMAIN params_ : params_[i].paramName_ = name].paramType_]
        fits    == CASE r.params.kind = "absent" -> params_ = <<>>
                     [] r.params.kind = "array"  -> r.params = RightParams
                     [] r.params.kind = "object" -> r.params.types = named
                     [] OTHER                    -> FALSE
    IN   {"INVALID_REQUEST" : x \in {y \in {1} : \/ ~r.object \/ r.id = BadId \/ r.jsonrpc # "2.0"
                                                \/ service \in {"missing", ""} \/ r.method.name = ""
                                                \/ r.extra}}
    \union {"METHOD_NOT_FOUND" : x \in {y \in {1} : service # "svc" \/ r.method.name \notin methods}}
    \union {"INVALID_PARAMS" : x \in {y \in {1} : ~fits}}

\* A result answers a call with no fault, an error names a fault of its
\* request (validateRequest, validateNotify, Procedure::validateGeneric).
CodesAreRight ==
    \A f \in DOMAIN wire : \A k \in DOMAIN wire[f].responses :
        LET r == wire[f].responses[k]
            doc == DocOf(r.of[1])
            item == IF doc.kind = "single" THEN doc.item ELSE doc.items[r.of[2]]
        IN  IF (script # <<>> /\ script[r.of[1]].length # "good") \/ doc.kind \in {"garbage", "scalar"}
               \/ (doc.kind = "batch" /\ ~wire[f].batch)
            THEN r.code = IF doc.kind = "garbage" THEN "PARSE_ERROR" ELSE "INVALID_REQUEST"
            ELSE IF r.kind = "result" THEN Faults(item) = {} /\ ~isNotify(item)
                 ELSE r.code \in Faults(item)

\* The error response to a message is the last the connection answers: what
\* follows it on the wire answers messages that came before it, although the
\* handler goes on reading and the user's threads go on answering.  (The calls
\* of a stub's threads need not be sent in the order of their numbers.)
\* (BaseServer.cpp:76-79)
ErrorEndsService ==
    script # <<>> => \A f, g \in DOMAIN wire :
        (f < g /\ ~wire[f].batch /\ wire[f].responses[1].kind = "error") => wire[g].n < wire[f].n

\* No thread was inside sendCall together with another up to the call n.
Alone(n) == \A m \in DOMAIN calls : m <= n => ~calls[m].overlapped

\* A callback runs at most once and is given the response to its own call,
\* unless calls of two threads overlapped (BaseClient.cpp:57-58, 147-160).
OwnResponse ==
    \A i \in DOMAIN ran : Alone(ran[i].call) =>
        /\ ran[i].response.of = <<ran[i].call, 1>>
        /\ \A j \in DOMAIN ran : ran[j].call = ran[i].call => i = j

\* A batch that was begun is answered in the end, whichever of the loop and the
\* user's threads drops the last reference to its responses, unless the
\* connection goes (RpcServer.cpp:66-70).
BatchesAreAnswered ==
    \A n \in 1..2 : n \in DOMAIN batches ~>
        \/ conn # "connected"
        \/ \E f \in DOMAIN wire : wire[f].batch /\ wire[f].n = n

Met(n) == \E f \in mixed : wire[f].n = n
Ran(n) == \E i \in DOMAIN ran : ran[i].call = n

\* The server does not have the method of the call n.
Rejected(n) == calls[n].method = "none"

\* The server answered a call with an error, and so shut the connection.
ErrorSent == \E f \in DOMAIN wire : ~wire[f].batch /\ wire[f].responses[1].kind = "error"

\* The callback of a call that was sent runs if the server has its method,
\* unless the connection breaks, the error response to another call ended the
\* service, two threads overlapped in sendCall, or the response met another one
\* in the client's buffer (BaseClient.cpp:115).  The callback of a call that the
\* server rejects never runs: the error response has no id
\* (BaseServer.cpp:47-58), which BaseClient.cpp:168 asks for, and isError, which
\* EchoClient.cpp:95-98 is ready for, is never true.
CallsComplete ==
    \A n \in 1..MaxCalls :
        /\ (n \in DOMAIN calls /\ calls[n].step = "sent" /\ ~Rejected(n)) ~>
               (Ran(n) \/ conn = "broken" \/ ErrorSent \/ ~Alone(n) \/ Met(n))
        /\ [](n \in DOMAIN calls /\ Rejected(n) /\ Alone(n) => ~Ran(n))
=============================================================================
