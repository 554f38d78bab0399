------------------------------ MODULE RpcProofs ------------------------------
(***************************************************************************)
(* Theorems about Rpc, for procedures with any parameters, batches of any  *)
(* length and any number of the stub's threads and calls: a message is     *)
(* answered once, with the right results and errors, an error ends the     *)
(* service, and a callback is given the response to its call.              *)
(***************************************************************************)
EXTENDS Rpc, FiniteSetTheorems, SequenceTheorems, WellFoundedInduction, TLAPS

(* What may arrive, and what is answered *)

StubDoc(id, name) == [kind |-> "single", item |-> [Call EXCEPT !.id = id, !.method.name = name]]

AnyDoc == Docs \cup {StubDoc(id, name) : id \in Nat, name \in {"call", "none"}}

Unit == [length : {"good", "bad", "huge"}, n : Nat] \cup [length : {"none"}, n : Nat, doc : AnyDoc]

Code == {"none", "PARSE_ERROR", "INVALID_REQUEST", "METHOD_NOT_FOUND", "INVALID_PARAMS"}

Response == [kind : {"result", "error"}, of : Nat \X Nat, id : Int, code : Code]

Frame == [n : Nat, batch : BOOLEAN, responses : Seq(Response)]

\* The frames that have been sent to the server, and the length line of one.
Sent == IF script # <<>> THEN 1..posted ELSE {n \in DOMAIN calls : calls[n].step = "sent"}

LengthOf(n) == IF script # <<>> THEN script[n].length ELSE "good"

\* What becomes of the request r of a batch, which the loop reaches if nothing
\* before it is thrown, and the requests that are due an answer.
Fate(r) == IF r.object THEN Thrown(handleOne(r)) ELSE "request"

Reached(items, i) == \A j \in 1..(i - 1) : Fate(items[j]) = "none"

Due(items) ==
    {i \in DOMAIN items : /\ Reached(items, i)
                          /\ Fate(items[i]) # "notify"
                          /\ Fate(items[i]) = "none" => ~isNotify(items[i])}

\* The response is right for the request r.
RightFor(response, r) ==
    IF response.kind = "result"
    THEN Fate(r) = "none" /\ Faults(r) = {} /\ ~isNotify(r)
    ELSE Fate(r) = "request" /\ response.code \in Faults(r)

\* The responses answer the requests T of the batch n, each once.
Answer(responses, n, items, T) ==
    /\ \A k \in DOMAIN responses :
         /\ responses[k].of \in {n} \X T
         /\ RightFor(responses[k], items[responses[k].of[2]])
    /\ \A k, l \in DOMAIN responses : responses[k].of = responses[l].of => k = l
    /\ \A i \in T : \E k \in DOMAIN responses : responses[k].of = <<n, i>>

IsBatch(doc, length) == length = "good" /\ doc.kind = "batch" /\ doc.items # <<>>

IsSingle(doc, length) == length = "good" /\ doc.kind = "single"

\* The frame answers the document it is an answer to.
RightFrame(frame, doc, length) ==
    LET r == frame.responses[1] IN
    /\ frame.batch <=> IsBatch(doc, length)
    /\ frame.batch => Answer(frame.responses, frame.n, doc.items, Due(doc.items))
    /\ ~frame.batch =>
         /\ Len(frame.responses) = 1 /\ r.of = <<frame.n, 1>>
         /\ IsSingle(doc, length) =>
              /\ doc.item.object /\ RightFor(r, doc.item)
              /\ r.kind = "result" => r.id = doc.item.id
         /\ ~IsSingle(doc, length) =>
              /\ r.kind = "error"
              /\ r.code = IF doc.kind = "garbage" THEN "PARSE_ERROR" ELSE "INVALID_REQUEST"
         /\ r.kind = "error" => r.id = NoId

-----------------------------------------------------------------------------
(* The inductive invariant of the server *)

ServerTypes ==
    /\ inbuf \in Seq(Unit) /\ toServer \in Seq(Unit)
    /\ \/ handler \in [at : {"poll", "messages"}]
       \/ /\ handler.at \in {"batch", "batch end"}
          /\ handler = [at |-> handler.at, n |-> handler.n, i |-> handler.i, items |-> handler.items]
    /\ pending \in SUBSET [of : Nat \X Nat, id : Int, batch : BOOLEAN, step : {"held", "called"}]
    /\ IsFiniteSet(pending)
    /\ batches \in [DOMAIN batches -> [refs : Int, responses : Seq(Response)]]
    /\ conn \in {"connected", "closing", "shut", "broken"}
    /\ sends \in Seq(Frame) /\ wire \in Seq(Frame)

\* What is on its way to the server or in its buffer.
Stream == inbuf \o toServer

\* A length line is followed by its body; a body stands alone only after the
\* server has given up on the connection.  Frames come once, those of a raw
\* peer in order.
StreamInv ==
    /\ \A i \in DOMAIN Stream :
         /\ Stream[i].n \in Sent
         /\ Stream[i].length \in {"none", LengthOf(Stream[i].n)}
         /\ Stream[i].length = "none" => Stream[i].doc = DocOf(Stream[i].n)
         /\ Stream[i].length # "none" =>
              i + 1 \in DOMAIN Stream /\ Stream[i + 1].length = "none" /\ Stream[i + 1].n = Stream[i].n
         /\ Stream[i].length = "none" /\ conn = "connected" =>
              i > 1 /\ Stream[i - 1].length # "none"
    /\ \A i, j \in DOMAIN Stream : i < j =>
         /\ Stream[i].n = Stream[j].n => j = i + 1 /\ Stream[i].length # "none"
         /\ script # <<>> => Stream[i].n <= Stream[j].n

\* The loop is in the batch n; the requests it has been through, with the last
\* one if that ended the batch; the calls the user's threads have not answered.
InHand(n) == handler.at \in {"batch", "batch end"} /\ handler.n = n

Passed(n) == IF InHand(n) /\ handler.at = "batch" THEN 1..(handler.i - 1) ELSE DOMAIN DocOf(n).items

Holders(n) == {p \in pending : p.batch /\ p.of[1] = n}

Held(n) == {p.of[2] : p \in {q \in Holders(n) : q.step = "held"}}

\* The loop's place in a batch.
HandlerInv ==
    handler.at \in {"batch", "batch end"} =>
        /\ handler.n \in DOMAIN batches /\ handler.items = DocOf(handler.n).items
        /\ handler.i \in 1..(Len(handler.items) + 1)
        /\ handler.at = "batch" => Reached(handler.items, handler.i)

\* Every reference of a batch is the loop's or that of a call not answered, or
\* answered but not let go of; and what is due is answered or held.
BatchesInv ==
    \A n \in DOMAIN batches :
        /\ n \in Sent /\ IsBatch(DocOf(n), LengthOf(n))
        /\ batches[n].refs = Cardinality(Holders(n)) + (IF InHand(n) THEN 1 ELSE 0)
        /\ Held(n) \subseteq Due(DocOf(n).items) \cap Passed(n)
        /\ Answer(batches[n].responses, n, DocOf(n).items,
                  (Due(DocOf(n).items) \cap Passed(n)) \ Held(n))

\* A callback is that of one accepted call.
PendingInv ==
    /\ \A p, q \in pending : p.of = q.of => p = q
    /\ \A p \in pending :
         LET n == p.of[1] IN
         IF p.batch
         THEN /\ n \in DOMAIN batches
              /\ p.of[2] \in Due(DocOf(n).items) \cap Passed(n)
              /\ p.id = DocOf(n).items[p.of[2]].id
              /\ Fate(DocOf(n).items[p.of[2]]) = "none"
         ELSE /\ n \in Sent /\ IsSingle(DocOf(n), LengthOf(n)) /\ p.of[2] = 1 /\ p.step = "held"
              /\ DocOf(n).item.object /\ Fate(DocOf(n).item) = "none" /\ ~isNotify(DocOf(n).item)
              /\ p.id = DocOf(n).item.id

\* The frames that the server has taken up, and those it has answered.
Taken == {p.of[1] : p \in pending} \cup DOMAIN batches

Answered == {wire[f].n : f \in DOMAIN wire} \cup {sends[f].n : f \in DOMAIN sends}

\* n comes before m, in the order of a raw peer.
Earlier(n, m) == n # m /\ (script # <<>> => n < m)

FramesInv ==
    /\ \A f \in DOMAIN wire :
         wire[f].n \in Sent /\ RightFrame(wire[f], DocOf(wire[f].n), LengthOf(wire[f].n))
    /\ \A f \in DOMAIN sends :
         /\ sends[f].n \in Sent /\ RightFrame(sends[f], DocOf(sends[f].n), LengthOf(sends[f].n))
         /\ ~sends[f].batch => sends[f].responses[1].kind = "result"

\* No frame is answered twice.
FramesOnce ==
    /\ \A f, g \in DOMAIN wire : wire[f].n = wire[g].n => f = g
    /\ \A f, g \in DOMAIN sends : sends[f].n = sends[g].n => f = g
    /\ \A f \in DOMAIN wire, g \in DOMAIN sends : wire[f].n # sends[g].n

\* What is left to answer has not been answered, and comes behind what was taken up.
LeftInv ==
    /\ \A i \in DOMAIN Stream : \A n \in Taken : Earlier(n, Stream[i].n)
    /\ conn = "connected" =>
         /\ \A i \in DOMAIN Stream : \A n \in Answered : Earlier(n, Stream[i].n)
         /\ \A p \in pending : ~p.batch => p.of[1] \notin Answered
         /\ \A n \in DOMAIN batches : batches[n].refs > 0 => n \notin Answered

\* After an error the loop takes up nothing, and what is queued is older.
ErrorInv ==
    \A f \in DOMAIN wire : ~wire[f].batch /\ wire[f].responses[1].kind = "error" =>
        /\ conn # "connected"
        /\ script # <<>> =>
             /\ \A g \in DOMAIN wire : f < g => wire[g].n < wire[f].n
             /\ \A g \in DOMAIN sends : sends[g].n < wire[f].n

-----------------------------------------------------------------------------
(* The inductive invariant of the client *)

CallRecord == [caller : Callers, method : {"call", "none"}, step : {"added", "taken", "stored", "sent"},
               id : Nat, key : Nat, overlapped : BOOLEAN]

ClientTypes ==
    /\ id_ \in Nat /\ calls \in Seq(CallRecord)
    /\ script \in Scripts \cup {<<>>} /\ posted \in 0..Len(script)
    /\ script # <<>> => calls = <<>> /\ ran = <<>>

\* The call n has been entered in idToResponse_.
Stored(n) == calls[n].step \in {"stored", "sent"}

\* Until two threads meet in sendCall, the call n is sent before the next one is
\* begun and has the id n - 1 that the increment has reached; later ids are greater.
IdsInv ==
    /\ calls = <<>> => id_ = 0
    /\ \A n \in DOMAIN calls : Alone(n) =>
         /\ calls[n].id = n - 1 /\ calls[n].key = n - 1
         /\ Stored(n) => id_ >= n
         /\ n = Len(calls) => id_ = (IF Stored(n) THEN n ELSE n - 1)
         /\ \A m \in DOMAIN calls : n < m =>
              calls[n].step = "sent" /\ calls[m].id >= n /\ calls[m].key >= n

\* An entry of idToResponse_ is of a call that registered itself under its key
\* and whose callback has not run.
EntriesInv ==
    /\ \A k \in DOMAIN idToResponse_ :
         /\ idToResponse_[k] \in DOMAIN calls
         /\ Stored(idToResponse_[k]) /\ calls[idToResponse_[k]].key = k
    /\ \A i \in DOMAIN ran :
         /\ ran[i].call \in DOMAIN calls /\ Stored(ran[i].call)
         /\ \A k \in DOMAIN idToResponse_ : idToResponse_[k] # ran[i].call

\* A response is that of a call that was sent, and a result carries its id.
Genuine(r) ==
    /\ r.of = <<r.of[1], 1>> /\ r.of[1] \in Sent
    /\ IF r.kind = "result" THEN r.id = calls[r.of[1]].id ELSE r.id = NoId

Received == {u \in [frame : Nat, length : BOOLEAN, response : Response] : Genuine(u.response)}

\* A callback has been given a result with the key of its call.
RanInv ==
    /\ ran \in Seq([call : Nat, response : Response])
    /\ \A i \in DOMAIN ran :
         /\ Genuine(ran[i].response) /\ ran[i].response.kind = "result"
         /\ ran[i].response.id = calls[ran[i].call].key
    /\ \A i, j \in DOMAIN ran : ran[i].call = ran[j].call => i = j

ClientInv ==
    script = <<>> =>
        /\ IdsInv /\ EntriesInv /\ RanInv
        /\ cinbuf \in Seq(Received) /\ got \in Nat

ServerInv ==
    /\ ServerTypes /\ StreamInv /\ HandlerInv /\ BatchesInv /\ PendingInv
    /\ FramesInv /\ FramesOnce /\ LeftInv /\ ErrorInv

RpcInv == ServerInv /\ ClientTypes /\ ClientInv

-----------------------------------------------------------------------------
(* Documents *)

ParamType == {"int", "string"} \cup {params_[i].paramType_ : i \in DOMAIN params_}

Given ==
    {Absent, [kind |-> "scalar"]} \cup [kind : {"array"}, types : Seq(ParamType)]
    \cup {[kind |-> "object", types |-> f] :
             f \in UNION {[names -> ParamType] : names \in SUBSET {"a", "b", "c"}}}

Method == [service : {"missing", "", "rpc", "other", "svc"}, name : {"", "call", "notify", "none"}]

AnyItem == [object : BOOLEAN, id : Int, jsonrpc : {"2.0", "other", "missing"}, method : Method,
            params : Given, extra : BOOLEAN]

\* The good params are given by position.
LEMMA RightParamsGiven ==
  /\ [i \in DOMAIN params_ |-> params_[i].paramType_] \in Seq(ParamType)
  /\ Len([i \in DOMAIN params_ |-> params_[i].paramType_]) = Len(params_)
  /\ RightParams \in Given
<1>1. /\ Len(params_) \in Nat /\ DOMAIN params_ = 1..Len(params_)
      /\ \A i \in 1..Len(params_) : params_[i].paramType_ \in ParamType
      BY ParamsAssumption, LenProperties DEF ParamType
<1>2. [i \in 1..Len(params_) |-> params_[i].paramType_] \in Seq(ParamType)
      BY <1>1, SeqDef
<1>3. Len([i \in 1..Len(params_) |-> params_[i].paramType_]) = Len(params_)
      BY <1>1, <1>2, LenProperties
<1> QED BY <1>1, <1>2, <1>3 DEF RightParams, ArrayOf, Given

\* What a raw peer or a stub sends is a document whose requests have these parts.
LEMMA CallsAreItems == Calls \subseteq AnyItem /\ Call \in AnyItem /\ Notify \in AnyItem
<1>1. Call \in AnyItem /\ Notify \in AnyItem
      BY RightParamsGiven DEF Call, Notify, Object, AnyItem, Method, NoId
<1>2. ASSUME NEW p \in {[kind |-> "scalar"], Absent} \union {ArrayOf(t) : t \in ParamSeqs}
                       \union {[kind |-> "object", types |-> t] : t \in ParamMaps}
      PROVE  p \in Given
  <2>1. CASE p \in {ArrayOf(t) : t \in ParamSeqs}
    <3>1. PICK k \in 0..Len(params_) : \E t \in [1..k -> {"int", "string"}] : p = ArrayOf(t)
          BY <2>1 DEF ParamSeqs
    <3>2. PICK t \in [1..k -> {"int", "string"}] : p = ArrayOf(t) BY <3>1
    <3>3. k \in Nat BY ParamsAssumption, LenProperties
    <3>4. t \in [1..k -> ParamType] BY <3>2 DEF ParamType
    <3>5. t \in Seq(ParamType) BY <3>3, <3>4, SeqDef
    <3> QED BY <3>2, <3>5 DEF ArrayOf, Given
  <2>2. CASE p \in {[kind |-> "object", types |-> t] : t \in ParamMaps}
    <3>1. PICK t \in ParamMaps : p = [kind |-> "object", types |-> t] BY <2>2
    <3>2. PICK names \in SUBSET {"a", "b", "c"} : t \in [names -> {"int", "string"}]
          BY <3>1 DEF ParamMaps
    <3>3. t \in [names -> ParamType] BY <3>2 DEF ParamType
    <3> QED BY <3>1, <3>3 DEF Given
  <2> QED BY <2>1, <2>2 DEF Given
<1>3. \A p \in Given : [Call EXCEPT !.params = p] \in AnyItem
      BY <1>1 DEF AnyItem
<1> QED BY <1>1, <1>2, <1>3 DEF Calls

\* The parts of a document that may be sent.
LEMMA DocParts ==
  ASSUME NEW doc \in AnyDoc
  PROVE  /\ doc.kind \in {"garbage", "scalar", "single", "batch"}
         /\ doc.kind = "single" => doc.item \in AnyItem /\ doc.item.object
         /\ doc.kind = "batch" => doc.items \in Seq(AnyItem)
<1>1. Elements \subseteq AnyItem
  <2>1. \A r \in AnyItem : [r EXCEPT !.jsonrpc = "other"] \in AnyItem BY DEF AnyItem
  <2>2. \A r \in AnyItem : [r EXCEPT !.extra = TRUE] \in AnyItem BY DEF AnyItem
  <2>3. \A r \in AnyItem : [r EXCEPT !.object = FALSE] \in AnyItem BY DEF AnyItem
  <2>4. \A r \in AnyItem : [r EXCEPT !.method.service = "other"] \in AnyItem
    <3>1. \A m \in Method : [m EXCEPT !.service = "other"] \in Method BY DEF Method
    <3> QED BY <3>1 DEF AnyItem
  <2> QED BY <2>1, <2>2, <2>3, <2>4, CallsAreItems DEF Elements
<1>2. Requests \subseteq AnyItem
  <2> SUFFICES ASSUME NEW r \in Requests PROVE r \in AnyItem
      OBVIOUS
  <2>1. PICK id \in {0, BadId, NoId}, version \in {"2.0", "other", "missing"}, method \in Methods,
             params \in {Absent, RightParams}, extra \in BOOLEAN :
          r = Object(id, version, method[1], method[2], params, extra)
        BY DEF Requests
  <2>2. [service |-> method[1], name |-> method[2]] \in Method
    <3>1. PICK service \in {"missing", "", "rpc", "other", "svc"},
               called \in {"", "call", "notify", "none"} :
             method = <<service, called>>
          BY Zenon DEF Methods
    <3>2. method[1] = service /\ method[2] = called BY <3>1
    <3> QED BY <3>2 DEF Method
  <2>3. params \in Given BY RightParamsGiven DEF Given
  <2>4. id \in Int BY DEF BadId, NoId
  <2> QED BY <2>1, <2>2, <2>3, <2>4 DEF Object, AnyItem
<1>3. \A r \in Requests \cup Calls : r.object
      BY DEF Requests, Calls, Object, Call
<1>4. CASE doc \in Docs
  <2>1. CASE doc \in {[kind |-> "garbage"], [kind |-> "scalar"]} BY <2>1
  <2>2. CASE doc \in {[kind |-> "single", item |-> r] : r \in Requests \union Calls}
        BY <2>2, <1>2, <1>3, CallsAreItems
  <2>3. CASE doc \in {[kind |-> "batch", items |-> rs] : rs \in UNION {[1..k -> Elements] : k \in 0..MaxBatch}}
    <3>1. PICK k \in 0..MaxBatch : \E rs \in [1..k -> Elements] : doc = [kind |-> "batch", items |-> rs]
          BY <2>3
    <3>2. PICK rs \in [1..k -> Elements] : doc = [kind |-> "batch", items |-> rs] BY <3>1
    <3>3. k \in Nat BY BatchAssumption
    <3>4. rs \in [1..k -> AnyItem] BY <3>2, <1>1
    <3>5. rs \in Seq(AnyItem) BY <3>3, <3>4, SeqDef
    <3> QED BY <3>2, <3>5
  <2> QED BY <1>4, <2>1, <2>2, <2>3 DEF Docs
<1>5. CASE doc \in {StubDoc(id, name) : id \in Nat, name \in {"call", "none"}}
  <2>1. PICK id \in Nat, name \in {"call", "none"} : doc = StubDoc(id, name) BY <1>5
  <2>2. \A m \in Method : [m EXCEPT !.name = name] \in Method BY DEF Method
  <2>3. ASSUME NEW r \in AnyItem
        PROVE  /\ [r EXCEPT !.id = id, !.method.name = name] \in AnyItem
               /\ [r EXCEPT !.id = id, !.method.name = name].object = r.object
    <3>1. [r EXCEPT !.id = id] \in AnyItem /\ [r EXCEPT !.id = id].object = r.object BY DEF AnyItem
    <3>2. \A x \in AnyItem : /\ [x EXCEPT !.method.name = name] \in AnyItem
                             /\ [x EXCEPT !.method.name = name].object = x.object
          BY <2>2 DEF AnyItem
    <3>3. [r EXCEPT !.id = id, !.method.name = name] = [[r EXCEPT !.id = id] EXCEPT !.method.name = name]
          OBVIOUS
    <3> QED BY <3>1, <3>2, <3>3
  <2>4. Call.object BY DEF Call, Object
  <2> QED BY <2>1, <2>3, <2>4, CallsAreItems DEF StubDoc
<1> QED BY <1>4, <1>5 DEF AnyDoc

-----------------------------------------------------------------------------
(* Validation *)

TestRecord == [fails : BOOLEAN, exception : {"request", "notify"}, code : Code]

\* Every set of natural numbers that is not empty has a least element.
LEMMA LeastNatural ==
  ASSUME NEW T, T \subseteq Nat, T # {}
  PROVE  \E x \in T : \A y \in T : x <= y
<1>1. \E x \in T : \A y \in T : <<y, x>> \notin OpToRel(<, Nat)
      BY WFMin, NatLessThanWellFounded, Zenon
<1>2. PICK x \in T : \A y \in T : <<y, x>> \notin OpToRel(<, Nat) BY <1>1
<1>3. ASSUME NEW y \in T PROVE x <= y
  <2>1. x \in Nat /\ y \in Nat BY <1>2, <1>3
  <2>2. y < x => <<y, x>> \in OpToRel(<, Nat) BY <2>1 DEF OpToRel
  <2>3. ~(y < x) BY <2>2, <1>2, <1>3
  <2> QED BY <2>1, <2>3
<1> QED BY <1>2, <1>3

\* The test that throws is the first one that fails.
LEMMA FirstThrows ==
  ASSUME NEW tests \in Seq(TestRecord), NEW i \in DOMAIN tests, tests[i].fails,
         \A j \in DOMAIN tests : tests[j].fails => i <= j
  PROVE  Thrown(tests) = tests[i].exception /\ ThrownCode(tests) = tests[i].code
<1>1. DOMAIN tests \subseteq Nat BY LenProperties
<1> DEFINE failing == {k \in DOMAIN tests : tests[k].fails}
           F(k) == \A j \in failing : k <= j
           G(k) == tests[k].fails /\ \A j \in DOMAIN tests : tests[j].fails => k <= j
<1>2. i \in failing /\ F(i) OBVIOUS
<1>3. \A k \in failing : F(k) => k = i BY <1>1, <1>2
<1>4. (CHOOSE k \in failing : F(k)) = i BY <1>2, <1>3
<1>5. \A k \in DOMAIN tests : G(k) => k = i BY <1>1
<1>6. (CHOOSE k \in DOMAIN tests : G(k)) = i BY <1>5
<1>7. failing # {} BY <1>2
<1> QED BY <1>4, <1>6, <1>7 DEF Thrown, ThrownCode

\* Nothing is thrown exactly if no test fails, and what is thrown is one that does.
LEMMA ThrownMeans ==
  ASSUME NEW tests \in Seq(TestRecord)
  PROVE  /\ Thrown(tests) = "none" <=> \A t \in Range(tests) : ~t.fails
         /\ \/ Thrown(tests) = "none"
            \/ \E i \in DOMAIN tests :
                 /\ tests[i].fails /\ \A j \in DOMAIN tests : tests[j].fails => i <= j
                 /\ Thrown(tests) = tests[i].exception /\ ThrownCode(tests) = tests[i].code
                 /\ tests[i] \in Range(tests) /\ tests[i] \in TestRecord
<1> DEFINE failing == {k \in DOMAIN tests : tests[k].fails}
<1>1. /\ DOMAIN tests \subseteq Nat /\ \A k \in DOMAIN tests : tests[k] \in TestRecord
      /\ \A k \in DOMAIN tests : tests[k] \in Range(tests)
      /\ \A t \in Range(tests) : \E k \in DOMAIN tests : t = tests[k]
      BY LenProperties DEF Range
<1>2. CASE failing = {} BY <1>1, <1>2 DEF Thrown
<1>3. CASE failing # {}
  <2>1. failing \subseteq Nat BY <1>1
  <2>2. PICK i \in failing : \A j \in failing : i <= j BY <2>1, <1>3, LeastNatural
  <2>3. Thrown(tests) = tests[i].exception /\ ThrownCode(tests) = tests[i].code
        BY <2>2, FirstThrows
  <2>4. tests[i].exception # "none" BY <1>1 DEF TestRecord
  <2> QED BY <1>1, <2>2, <2>3, <2>4
<1> QED BY <1>2, <1>3

\* A batch first tests that the request is an object.
LEMMA BatchTests ==
  ASSUME NEW tests \in Seq(TestRecord), NEW fails \in BOOLEAN
  PROVE  LET all == <<Test(fails, "request", "INVALID_REQUEST")>> \o tests IN
         /\ fails => Thrown(all) = "request" /\ ThrownCode(all) = "INVALID_REQUEST"
         /\ ~fails => Thrown(all) = Thrown(tests)
         /\ ~fails /\ Thrown(tests) # "none" => ThrownCode(all) = ThrownCode(tests)
<1> DEFINE t == Test(fails, "request", "INVALID_REQUEST")
           all == <<t>> \o tests
<1>1. t \in TestRecord /\ t.fails = fails /\ t.exception = "request" /\ t.code = "INVALID_REQUEST"
      BY DEF Test, TestRecord, Code
<1>2. <<t>> \in Seq(TestRecord) /\ Len(<<t>>) = 1 /\ <<t>>[1] = t BY <1>1
<1> HIDE DEF t
<1>3. /\ all \in Seq(TestRecord) /\ Len(all) = 1 + Len(tests)
      /\ \A i \in 1..(1 + Len(tests)) : all[i] = IF i <= 1 THEN <<t>>[i] ELSE tests[i - 1]
      BY <1>2, ConcatProperties
<1>4. Len(tests) \in Nat /\ DOMAIN tests = 1..Len(tests) /\ DOMAIN all = 1..(1 + Len(tests))
      BY <1>3, LenProperties
<1>5. all[1] = t /\ \A i \in DOMAIN tests : i + 1 \in DOMAIN all /\ all[i + 1] = tests[i]
      BY <1>2, <1>3, <1>4
<1>6. \A k \in DOMAIN all : k = 1 \/ (k - 1 \in DOMAIN tests /\ all[k] = tests[k - 1])
      BY <1>3, <1>4
<1> HIDE DEF all
<1>7. CASE fails
  <2>1. 1 \in DOMAIN all /\ \A j \in DOMAIN all : all[j].fails => 1 <= j BY <1>4
  <2>2. Thrown(all) = all[1].exception /\ ThrownCode(all) = all[1].code
        BY <1>1, <1>3, <1>5, <1>7, <2>1, FirstThrows
  <2> QED BY <1>1, <1>5, <1>7, <2>2 DEF all, t
<1>8. CASE ~fails /\ Thrown(tests) = "none"
  <2>1. \A i \in DOMAIN tests : ~tests[i].fails BY <1>8, ThrownMeans DEF Range
  <2>2. \A k \in DOMAIN all : ~all[k].fails BY <1>1, <1>5, <1>6, <1>8, <2>1
  <2>3. \A x \in Range(all) : ~x.fails BY <2>2 DEF Range
  <2>4. Thrown(all) = "none" BY <2>3, <1>3, ThrownMeans
  <2> QED BY <1>8, <2>4 DEF all, t
<1>9. CASE ~fails /\ Thrown(tests) # "none"
  <2>1. PICK i \in DOMAIN tests :
          /\ tests[i].fails /\ \A j \in DOMAIN tests : tests[j].fails => i <= j
          /\ Thrown(tests) = tests[i].exception /\ ThrownCode(tests) = tests[i].code
        BY <1>9, ThrownMeans
  <2>2. \A j \in DOMAIN all : all[j].fails => i + 1 <= j
        BY <1>1, <1>4, <1>5, <1>6, <1>9, <2>1
  <2>3. Thrown(all) = all[i + 1].exception /\ ThrownCode(all) = all[i + 1].code
        BY <1>3, <1>5, <2>1, <2>2, FirstThrows
  <2> QED BY <1>5, <1>9, <2>1, <2>3 DEF all, t
<1> QED BY <1>7, <1>8, <1>9

\* What the faults of a request are.
FitsParams(p) ==
    CASE p.kind = "absent" -> params_ = <<>>
      [] p.kind = "array"  -> p = RightParams
      [] p.kind = "object" -> p.types = [name \in {params_[i].paramName_ : i \in DOMAIN params_} |->
                                params_[CHOOSE i \in DOMAIN params_ : params_[i].paramName_ = name].paramType_]
      [] OTHER             -> FALSE

\* What each fault of a request is.
LEMMA FaultsMeans ==
  ASSUME NEW r
  PROVE  \A code : code \in Faults(r) <=>
           \/ /\ code = "INVALID_REQUEST"
              /\ \/ ~r.object \/ r.id = BadId \/ r.jsonrpc # "2.0"
                 \/ r.method.service \in {"missing", ""} \/ r.method.name = "" \/ r.extra
           \/ /\ code = "METHOD_NOT_FOUND"
              /\ r.method.service # "svc" \/ r.method.name \notin IF isNotify(r) THEN {"notify"} ELSE {"call"}
           \/ code = "INVALID_PARAMS" /\ ~FitsParams(r.params)
BY DEF Faults, FitsParams

\* The order of validateGeneric's comparisons does not matter: params fit if an
\* array has the right types, or an object the right names with their types.
LEMMA ParamsFit ==
  ASSUME NEW p \in Given
  PROVE  validateGeneric(p) <=> FitsParams(p)
<1>1. /\ Len(params_) \in Nat /\ DOMAIN params_ = 1..Len(params_)
      BY ParamsAssumption, LenProperties
<1>2. CASE p \in {Absent, [kind |-> "scalar"]}
      BY <1>2 DEF Absent, validateGeneric, FitsParams
<1>3. CASE p \in [kind : {"array"}, types : Seq(ParamType)]
  <2>1. p.kind = "array" /\ p.types \in Seq(ParamType) /\ p = [kind |-> "array", types |-> p.types]
        BY <1>3
  <2> DEFINE right == [i \in DOMAIN params_ |-> params_[i].paramType_]
  <2>2. right \in Seq(ParamType) /\ Len(right) = Len(params_) BY RightParamsGiven
  <2>3. \A i \in DOMAIN params_ : right[i] = params_[i].paramType_ OBVIOUS
  <2>4. RightParams = [kind |-> "array", types |-> right] BY DEF RightParams, ArrayOf
  <2> HIDE DEF right
  <2>5. FitsParams(p) <=> p.types = right
        BY <2>1, <2>4 DEF FitsParams
  <2>6. validateGeneric(p) <=> Len(p.types) = Len(params_) /\ \A i \in DOMAIN params_ : p.types[i] = right[i]
        BY <2>1, <2>3 DEF validateGeneric, getSize
  <2>7. Len(p.types) = Len(right) /\ (\A i \in 1..Len(p.types) : p.types[i] = right[i]) => p.types = right
        BY <2>1, <2>2, SeqEqual
  <2> QED BY <1>1, <2>2, <2>5, <2>6, <2>7
<1>4. CASE p \in {[kind |-> "object", types |-> f] :
                    f \in UNION {[names -> ParamType] : names \in SUBSET {"a", "b", "c"}}}
  <2>1. PICK names \in SUBSET {"a", "b", "c"} : \E f \in [names -> ParamType] : p = [kind |-> "object", types |-> f]
        BY <1>4
  <2>2. PICK f \in [names -> ParamType] : p = [kind |-> "object", types |-> f] BY <2>1
  <2> DEFINE own == {params_[i].paramName_ : i \in DOMAIN params_}
             named == [name \in own |->
                         params_[CHOOSE i \in DOMAIN params_ : params_[i].paramName_ = name].paramType_]
  <2>3. /\ FitsParams(p) <=> f = named
        /\ validateGeneric(p) <=>
             /\ Cardinality(names) = Len(params_)
             /\ \A i \in DOMAIN params_ : /\ params_[i].paramName_ \in names
                                          /\ f[params_[i].paramName_] = params_[i].paramType_
        BY <2>2 DEF FitsParams, validateGeneric, getSize
  <2>4. \A i \in DOMAIN params_ : /\ params_[i].paramName_ \in own
                                  /\ named[params_[i].paramName_] = params_[i].paramType_
    <3> SUFFICES ASSUME NEW i \in DOMAIN params_
                 PROVE  named[params_[i].paramName_] = params_[i].paramType_
        OBVIOUS
    <3>1. \A j \in DOMAIN params_ : params_[j].paramName_ = params_[i].paramName_ => j = i
          BY ParamsAssumption
    <3>2. (CHOOSE j \in DOMAIN params_ : params_[j].paramName_ = params_[i].paramName_) = i
          BY <3>1
    <3> QED BY <3>2
  <2>5. IsFiniteSet(own) /\ Cardinality(own) = Len(params_)
    <3> DEFINE g == [i \in 1..Len(params_) |-> params_[i].paramName_]
    <3>1. \A i, j \in 1..Len(params_) : g[i] = g[j] => i = j BY <1>1, ParamsAssumption
    <3>2. g \in [1..Len(params_) -> own] /\ \A x \in own : \E i \in 1..Len(params_) : g[i] = x BY <1>1
    <3> HIDE DEF g, own
    <3>3. g \in Surjection(1..Len(params_), own) /\ g \in Injection(1..Len(params_), own)
          BY <3>1, <3>2 DEF Surjection, Injection, IsInjective
    <3>4. IsFiniteSet(1..Len(params_)) /\ Cardinality(1..Len(params_)) = Len(params_)
          BY <1>1, FS_Interval
    <3> QED BY <3>3, <3>4, FS_Surjection
  <2>6. IsFiniteSet(names)
    <3>1. IsFiniteSet({"a", "b", "c"})
      <4>1. IsFiniteSet({}) BY FS_EmptySet
      <4>2. IsFiniteSet({} \cup {"a"}) BY <4>1, FS_AddElement
      <4>3. IsFiniteSet(({} \cup {"a"}) \cup {"b"}) BY <4>2, FS_AddElement
      <4>4. IsFiniteSet((({} \cup {"a"}) \cup {"b"}) \cup {"c"}) BY <4>3, FS_AddElement
      <4>5. {"a", "b", "c"} = (({} \cup {"a"}) \cup {"b"}) \cup {"c"} OBVIOUS
      <4> QED BY <4>4, <4>5
    <3> QED BY <3>1, FS_Subset
  <2>7. named \in [own -> {named[x] : x \in own}] OBVIOUS
  <2> HIDE DEF named
  <2>8. ASSUME f = named PROVE validateGeneric(p)
    <3>1. names = own BY <2>2, <2>7, <2>8
    <3> QED BY <2>3, <2>4, <2>5, <2>8, <3>1
  <2>9. ASSUME validateGeneric(p) PROVE f = named
    <3>1. own \subseteq names BY <2>3, <2>9
    <3>2. Cardinality(names) = Cardinality(own) BY <2>3, <2>5, <2>9
    <3>3. names = own BY <2>6, <3>1, <3>2, FS_Subset
    <3>4. \A x \in own : f[x] = named[x] BY <2>3, <2>4, <2>9
    <3> QED BY <2>2, <2>7, <3>3, <3>4
  <2> QED BY <2>3, <2>8, <2>9
<1> QED BY <1>2, <1>3, <1>4 DEF Given

\* The members of a list of tests.
LEMMA ListsOfTests ==
  /\ \A t, u \in TestRecord : <<t, u>> \in Seq(TestRecord) /\ Range(<<t, u>>) = {t, u}
  /\ \A t, u, v \in TestRecord : <<t, u, v>> \in Seq(TestRecord) /\ Range(<<t, u, v>>) = {t, u, v}
  /\ \A t, u, v, w, x \in TestRecord :
       <<t, u, v, w, x>> \in Seq(TestRecord) /\ Range(<<t, u, v, w, x>>) = {t, u, v, w, x}
<1>1. \A t, u \in TestRecord : Range(<<t, u>>) = {t, u} BY DEF Range
<1>2. \A t, u, v \in TestRecord : Range(<<t, u, v>>) = {t, u, v} BY DEF Range
<1>3. \A t, u, v, w, x \in TestRecord : Range(<<t, u, v, w, x>>) = {t, u, v, w, x} BY DEF Range
<1> QED BY <1>1, <1>2, <1>3

\* Three lists of tests after one another.
LEMMA ThreeLists ==
  ASSUME NEW a \in Seq(TestRecord), NEW b \in Seq(TestRecord), NEW c \in Seq(TestRecord)
  PROVE  a \o b \o c \in Seq(TestRecord) /\ Range(a \o b \o c) = Range(a) \cup Range(b) \cup Range(c)
<1>1. a \o b \in Seq(TestRecord) /\ Range(a \o b) = Range(a) \cup Range(b)
      BY ConcatProperties, RangeConcatenation
<1> DEFINE d == a \o b
<1>2. d \in Seq(TestRecord) BY <1>1
<1> HIDE DEF d
<1>3. d \o c \in Seq(TestRecord) /\ Range(d \o c) = Range(d) \cup Range(c)
      BY <1>2, ConcatProperties, RangeConcatenation
<1> QED BY <1>1, <1>3 DEF d

\* A request without an id is none with a bad one.
LEMMA NoIdIsNotBad == NoId # BadId
BY DEF NoId, BadId

\* A request that throws has the fault of the exception; one that does not has none.
LEMMA Verdict ==
  ASSUME NEW r \in AnyItem
  PROVE  LET tests == handleOne(r) IN
         /\ tests \in Seq(TestRecord)
         /\ Thrown(tests) \in {"none", "request", "notify"}
         /\ Thrown(tests) = "none" /\ r.object => Faults(r) = {}
         /\ Thrown(tests) # "none" => ThrownCode(tests) \in Faults(r) /\ ThrownCode(tests) \in Code
<1> DEFINE tests == handleOne(r)
<1>1. \A fails \in BOOLEAN, exception \in {"request", "notify"}, code \in Code :
        /\ Test(fails, exception, code) \in TestRecord
        /\ Test(fails, exception, code).fails = fails
        /\ Test(fails, exception, code).code = code
      BY DEF Test, TestRecord
<1>2. validateGeneric(r.params) \in BOOLEAN /\ (validateGeneric(r.params) <=> FitsParams(r.params))
      BY ParamsFit DEF AnyItem, validateGeneric
<1>3. /\ r.extra \in BOOLEAN /\ r.object \in BOOLEAN
      /\ r.method.service \in {"missing", "", "rpc", "other", "svc"}
      /\ r.method.name \in {"", "call", "notify", "none"}
      BY DEF AnyItem, Method
<1>4. CASE isNotify(r)
  <2> DEFINE n1 == Test(r.jsonrpc = "missing", "request", "INVALID_REQUEST")
             n2 == Test(r.jsonrpc # "2.0", "notify", "INVALID_REQUEST")
             n3 == Test(r.method.service = "missing", "request", "INVALID_REQUEST")
             n4 == Test(r.method.service = "rpc" /\ r.method.name = "", "notify", "METHOD_NOT_FOUND")
             n5 == Test(r.extra, "notify", "INVALID_REQUEST")
             n6 == Test(r.method.service = "", "notify", "INVALID_REQUEST")
             n7 == Test(r.method.service # "svc", "request", "METHOD_NOT_FOUND")
             n8 == Test(r.method.name = "", "notify", "INVALID_REQUEST")
             n9 == Test(r.method.name # "notify", "notify", "METHOD_NOT_FOUND")
             n10 == Test(~validateGeneric(r.params), "notify", "INVALID_PARAMS")
  <2>1. /\ n1 \in TestRecord /\ n2 \in TestRecord /\ n3 \in TestRecord /\ n4 \in TestRecord
        /\ n5 \in TestRecord /\ n6 \in TestRecord /\ n7 \in TestRecord /\ n8 \in TestRecord
        /\ n9 \in TestRecord /\ n10 \in TestRecord
        BY <1>1, <1>2, <1>3 DEF Code
  <2>2. tests = <<n1, n2, n3, n4, n5>> \o <<n6, n7, n8>> \o <<n9, n10>>
        BY <1>4 DEF handleOne, handleNotifySingle, validateNotify, callProcedureNotify
  <2>a. /\ (n1.fails <=> r.jsonrpc = "missing") /\ n1.code = "INVALID_REQUEST"
        /\ (n2.fails <=> r.jsonrpc # "2.0") /\ n2.code = "INVALID_REQUEST"
        /\ (n3.fails <=> r.method.service = "missing") /\ n3.code = "INVALID_REQUEST"
        /\ (n4.fails <=> (r.method.service = "rpc" /\ r.method.name = "")) /\ n4.code = "METHOD_NOT_FOUND"
        /\ (n5.fails <=> r.extra) /\ n5.code = "INVALID_REQUEST"
        /\ (n6.fails <=> r.method.service = "") /\ n6.code = "INVALID_REQUEST"
        /\ (n7.fails <=> r.method.service # "svc") /\ n7.code = "METHOD_NOT_FOUND"
        /\ (n8.fails <=> r.method.name = "") /\ n8.code = "INVALID_REQUEST"
        /\ (n9.fails <=> r.method.name # "notify") /\ n9.code = "METHOD_NOT_FOUND"
        /\ (n10.fails <=> (~validateGeneric(r.params))) /\ n10.code = "INVALID_PARAMS"
    <3>1. (n1.fails <=> r.jsonrpc = "missing") /\ n1.code = "INVALID_REQUEST"
          BY DEF Test
    <3>2. (n2.fails <=> r.jsonrpc # "2.0") /\ n2.code = "INVALID_REQUEST"
          BY DEF Test
    <3>3. (n3.fails <=> r.method.service = "missing") /\ n3.code = "INVALID_REQUEST"
          BY DEF Test
    <3>4. (n4.fails <=> (r.method.service = "rpc" /\ r.method.name = "")) /\ n4.code = "METHOD_NOT_FOUND"
          BY DEF Test
    <3>5. (n5.fails <=> r.extra) /\ n5.code = "INVALID_REQUEST"
          BY DEF Test
    <3>6. (n6.fails <=> r.method.service = "") /\ n6.code = "INVALID_REQUEST"
          BY DEF Test
    <3>7. (n7.fails <=> r.method.service # "svc") /\ n7.code = "METHOD_NOT_FOUND"
          BY DEF Test
    <3>8. (n8.fails <=> r.method.name = "") /\ n8.code = "INVALID_REQUEST"
          BY DEF Test
    <3>9. (n9.fails <=> r.method.name # "notify") /\ n9.code = "METHOD_NOT_FOUND"
          BY DEF Test
    <3>10. (n10.fails <=> (~validateGeneric(r.params))) /\ n10.code = "INVALID_PARAMS"
          BY DEF Test
    <3> HIDE DEF n1, n2, n3, n4, n5, n6, n7, n8, n9, n10
    <3> QED BY <3>1, <3>2, <3>3, <3>4, <3>5, <3>6, <3>7, <3>8, <3>9, <3>10
  <2> HIDE DEF n1, n2, n3, n4, n5, n6, n7, n8, n9, n10, tests
  <2>3. \A t \in {n1, n2, n3, n4, n5} \cup {n6, n7, n8} \cup {n9, n10} :
           t.fails => t.code \in Faults(r)
        BY <2>a, <1>2, <1>3, <1>4, FaultsMeans
  <2>4. (\A t \in {n1, n2, n3, n4, n5} \cup {n6, n7, n8} \cup {n9, n10} : ~t.fails) /\ r.object
           => Faults(r) = {}
    <3> SUFFICES ASSUME \A t \in {n1, n2, n3, n4, n5} \cup {n6, n7, n8} \cup {n9, n10} : ~t.fails,
                        r.object, NEW code \in Faults(r)
                 PROVE  FALSE
        OBVIOUS
    <3>1. ~n2.fails /\ ~n3.fails /\ ~n5.fails /\ ~n6.fails /\ ~n7.fails /\ ~n8.fails /\ ~n9.fails /\ ~n10.fails
          OBVIOUS
    <3>2. /\ r.jsonrpc = "2.0" /\ r.method.service # "missing" /\ ~r.extra /\ r.method.service # ""
          /\ r.method.service = "svc" /\ r.method.name # "" /\ r.method.name = "notify"
          /\ validateGeneric(r.params)
          BY <3>1, <2>a, <1>3
    <3> QED BY <3>2, NoIdIsNotBad, <1>2, <1>4, FaultsMeans DEF isNotify
  <2> DEFINE a == <<n1, n2, n3, n4, n5>>
             b == <<n6, n7, n8>>
             c == <<n9, n10>>
  <2>5. /\ tests \in Seq(TestRecord)
        /\ Range(tests) = {n1, n2, n3, n4, n5} \cup {n6, n7, n8} \cup {n9, n10}
    <3>1. a \in Seq(TestRecord) /\ Range(a) = {n1, n2, n3, n4, n5} BY <2>1, ListsOfTests
    <3>2. b \in Seq(TestRecord) /\ Range(b) = {n6, n7, n8} BY <2>1, ListsOfTests
    <3>3. c \in Seq(TestRecord) /\ Range(c) = {n9, n10} BY <2>1, ListsOfTests
    <3>4. tests = a \o b \o c BY <2>2
    <3> HIDE DEF a, b, c
    <3>5. a \in Seq(TestRecord) /\ b \in Seq(TestRecord) /\ c \in Seq(TestRecord) BY <3>1, <3>2, <3>3
    <3>6. /\ a \o b \o c \in Seq(TestRecord)
          /\ Range(a \o b \o c) = Range(a) \cup Range(b) \cup Range(c)
          BY <3>5, ThreeLists
    <3> QED BY <3>1, <3>2, <3>3, <3>4, <3>6
  <2>6. Thrown(tests) = "none" <=> \A t \in Range(tests) : ~t.fails BY <2>5, ThrownMeans
  <2>7. \/ Thrown(tests) = "none"
        \/ \E t \in Range(tests) : /\ t.fails /\ t \in TestRecord
                                   /\ Thrown(tests) = t.exception /\ ThrownCode(tests) = t.code
    <3> DEFINE P(i) == /\ tests[i].fails /\ \A j \in DOMAIN tests : tests[j].fails => i <= j
                       /\ Thrown(tests) = tests[i].exception /\ ThrownCode(tests) = tests[i].code
                       /\ tests[i] \in Range(tests) /\ tests[i] \in TestRecord
    <3>1. Thrown(tests) = "none" \/ \E i \in DOMAIN tests : P(i) BY <2>5, ThrownMeans
    <3> QED BY <3>1
  <2> QED BY <2>3, <2>4, <2>5, <2>6, <2>7 DEF TestRecord, tests
<1>5. CASE ~isNotify(r)
  <2> DEFINE n1 == Test(r.id = BadId, "request", "INVALID_REQUEST")
             n2 == Test(r.jsonrpc # "2.0", "request", "INVALID_REQUEST")
             n3 == Test(r.method.service = "missing", "request", "INVALID_REQUEST")
             n4 == Test(r.method.service = "rpc" /\ r.method.name = "", "request", "METHOD_NOT_FOUND")
             n5 == Test(r.extra, "request", "INVALID_REQUEST")
             n6 == Test(r.method.service = "", "request", "INVALID_REQUEST")
             n7 == Test(r.method.service # "svc", "request", "METHOD_NOT_FOUND")
             n8 == Test(r.method.name = "", "request", "INVALID_REQUEST")
             n9 == Test(r.method.name # "call", "request", "METHOD_NOT_FOUND")
             n10 == Test(~validateGeneric(r.params), "request", "INVALID_PARAMS")
  <2>1. /\ n1 \in TestRecord /\ n2 \in TestRecord /\ n3 \in TestRecord /\ n4 \in TestRecord
        /\ n5 \in TestRecord /\ n6 \in TestRecord /\ n7 \in TestRecord /\ n8 \in TestRecord
        /\ n9 \in TestRecord /\ n10 \in TestRecord
        BY <1>1, <1>2, <1>3 DEF Code
  <2>2. tests = <<n1, n2, n3, n4, n5>> \o <<n6, n7, n8>> \o <<n9, n10>>
        BY <1>5 DEF handleOne, handleRequestSingle, validateRequest, callProcedureReturn
  <2>a. /\ (n1.fails <=> r.id = BadId) /\ n1.code = "INVALID_REQUEST"
        /\ (n2.fails <=> r.jsonrpc # "2.0") /\ n2.code = "INVALID_REQUEST"
        /\ (n3.fails <=> r.method.service = "missing") /\ n3.code = "INVALID_REQUEST"
        /\ (n4.fails <=> (r.method.service = "rpc" /\ r.method.name = "")) /\ n4.code = "METHOD_NOT_FOUND"
        /\ (n5.fails <=> r.extra) /\ n5.code = "INVALID_REQUEST"
        /\ (n6.fails <=> r.method.service = "") /\ n6.code = "INVALID_REQUEST"
        /\ (n7.fails <=> r.method.service # "svc") /\ n7.code = "METHOD_NOT_FOUND"
        /\ (n8.fails <=> r.method.name = "") /\ n8.code = "INVALID_REQUEST"
        /\ (n9.fails <=> r.method.name # "call") /\ n9.code = "METHOD_NOT_FOUND"
        /\ (n10.fails <=> (~validateGeneric(r.params))) /\ n10.code = "INVALID_PARAMS"
    <3>1. (n1.fails <=> r.id = BadId) /\ n1.code = "INVALID_REQUEST"
          BY DEF Test
    <3>2. (n2.fails <=> r.jsonrpc # "2.0") /\ n2.code = "INVALID_REQUEST"
          BY DEF Test
    <3>3. (n3.fails <=> r.method.service = "missing") /\ n3.code = "INVALID_REQUEST"
          BY DEF Test
    <3>4. (n4.fails <=> (r.method.service = "rpc" /\ r.method.name = "")) /\ n4.code = "METHOD_NOT_FOUND"
          BY DEF Test
    <3>5. (n5.fails <=> r.extra) /\ n5.code = "INVALID_REQUEST"
          BY DEF Test
    <3>6. (n6.fails <=> r.method.service = "") /\ n6.code = "INVALID_REQUEST"
          BY DEF Test
    <3>7. (n7.fails <=> r.method.service # "svc") /\ n7.code = "METHOD_NOT_FOUND"
          BY DEF Test
    <3>8. (n8.fails <=> r.method.name = "") /\ n8.code = "INVALID_REQUEST"
          BY DEF Test
    <3>9. (n9.fails <=> r.method.name # "call") /\ n9.code = "METHOD_NOT_FOUND"
          BY DEF Test
    <3>10. (n10.fails <=> (~validateGeneric(r.params))) /\ n10.code = "INVALID_PARAMS"
          BY DEF Test
    <3> HIDE DEF n1, n2, n3, n4, n5, n6, n7, n8, n9, n10
    <3> QED BY <3>1, <3>2, <3>3, <3>4, <3>5, <3>6, <3>7, <3>8, <3>9, <3>10
  <2> HIDE DEF n1, n2, n3, n4, n5, n6, n7, n8, n9, n10, tests
  <2>3. \A t \in {n1, n2, n3, n4, n5} \cup {n6, n7, n8} \cup {n9, n10} :
           t.fails => t.code \in Faults(r)
        BY <2>a, <1>2, <1>3, <1>5, FaultsMeans
  <2>4. (\A t \in {n1, n2, n3, n4, n5} \cup {n6, n7, n8} \cup {n9, n10} : ~t.fails) /\ r.object
           => Faults(r) = {}
    <3> SUFFICES ASSUME \A t \in {n1, n2, n3, n4, n5} \cup {n6, n7, n8} \cup {n9, n10} : ~t.fails,
                        r.object, NEW code \in Faults(r)
                 PROVE  FALSE
        OBVIOUS
    <3>1. ~n1.fails /\ ~n2.fails /\ ~n3.fails /\ ~n5.fails /\ ~n6.fails /\ ~n7.fails /\ ~n8.fails /\ ~n9.fails /\ ~n10.fails
          OBVIOUS
    <3>2. /\ r.id # BadId
          /\ r.jsonrpc = "2.0" /\ r.method.service # "missing" /\ ~r.extra /\ r.method.service # ""
          /\ r.method.service = "svc" /\ r.method.name # "" /\ r.method.name = "call"
          /\ validateGeneric(r.params)
          BY <3>1, <2>a, <1>3
    <3> QED BY <3>2, <1>2, <1>5, FaultsMeans
  <2> DEFINE a == <<n1, n2, n3, n4, n5>>
             b == <<n6, n7, n8>>
             c == <<n9, n10>>
  <2>5. /\ tests \in Seq(TestRecord)
        /\ Range(tests) = {n1, n2, n3, n4, n5} \cup {n6, n7, n8} \cup {n9, n10}
    <3>1. a \in Seq(TestRecord) /\ Range(a) = {n1, n2, n3, n4, n5} BY <2>1, ListsOfTests
    <3>2. b \in Seq(TestRecord) /\ Range(b) = {n6, n7, n8} BY <2>1, ListsOfTests
    <3>3. c \in Seq(TestRecord) /\ Range(c) = {n9, n10} BY <2>1, ListsOfTests
    <3>4. tests = a \o b \o c BY <2>2
    <3> HIDE DEF a, b, c
    <3>5. a \in Seq(TestRecord) /\ b \in Seq(TestRecord) /\ c \in Seq(TestRecord) BY <3>1, <3>2, <3>3
    <3>6. /\ a \o b \o c \in Seq(TestRecord)
          /\ Range(a \o b \o c) = Range(a) \cup Range(b) \cup Range(c)
          BY <3>5, ThreeLists
    <3> QED BY <3>1, <3>2, <3>3, <3>4, <3>6
  <2>6. Thrown(tests) = "none" <=> \A t \in Range(tests) : ~t.fails BY <2>5, ThrownMeans
  <2>7. \/ Thrown(tests) = "none"
        \/ \E t \in Range(tests) : /\ t.fails /\ t \in TestRecord
                                   /\ Thrown(tests) = t.exception /\ ThrownCode(tests) = t.code
    <3> DEFINE P(i) == /\ tests[i].fails /\ \A j \in DOMAIN tests : tests[j].fails => i <= j
                       /\ Thrown(tests) = tests[i].exception /\ ThrownCode(tests) = tests[i].code
                       /\ tests[i] \in Range(tests) /\ tests[i] \in TestRecord
    <3>1. Thrown(tests) = "none" \/ \E i \in DOMAIN tests : P(i) BY <2>5, ThrownMeans
    <3> QED BY <3>1
  <2> QED BY <2>3, <2>4, <2>5, <2>6, <2>7 DEF TestRecord, tests
<1> QED BY <1>4, <1>5

-----------------------------------------------------------------------------
(* The frames that were sent *)

\* The frames of a script are documents with a length line.
LEMMA ScriptFrames ==
  ASSUME script \in Scripts \cup {<<>>}
  PROVE  /\ Len(script) \in Nat /\ DOMAIN script = 1..Len(script)
         /\ \A n \in 1..Len(script) :
              /\ script[n].doc \in Docs /\ script[n].length \in {"good", "bad", "huge"}
              /\ script[n].length # "good" => script[n].doc.kind = "single"
<1> DEFINE frames == {Good(doc) : doc \in Docs} \cup {[length |-> l, doc |-> CallDoc] : l \in {"bad", "huge"}}
<1>1. CallDoc \in Docs
  <2>1. Call \in Requests
    <3> DEFINE m == <<"svc", "call">>
    <3>1. m \in Methods /\ m[1] = "svc" /\ m[2] = "call" BY DEF Methods
    <3>2. Call = Object(0, "2.0", m[1], m[2], RightParams, FALSE) BY DEF Call
    <3> HIDE DEF m
    <3>3. m \in Methods BY <3>1
    <3>4. \E id \in {0, BadId, NoId}, version \in {"2.0", "other", "missing"}, method \in Methods,
             params \in {Absent, RightParams}, extra \in BOOLEAN :
               Call = Object(id, version, method[1], method[2], params, extra)
      <4> WITNESS 0 \in {0, BadId, NoId}, "2.0" \in {"2.0", "other", "missing"}, m \in Methods,
                  RightParams \in {Absent, RightParams}, FALSE \in BOOLEAN
      <4> QED BY <3>1, <3>2
    <3> QED BY <3>4 DEF Requests
  <2> QED BY <2>1 DEF Docs, CallDoc
<1>2. \A f \in frames : /\ f.doc \in Docs /\ f.length \in {"good", "bad", "huge"}
                        /\ f.length # "good" => f.doc.kind = "single"
      BY <1>1 DEF Good, CallDoc
<1>3. Good(CallDoc) \in frames BY <1>1
<1> HIDE DEF frames
<1>4. script = <<>> \/ \E f \in frames, g \in frames : script = <<f>> \/ script = <<f, g>>
      BY <1>3 DEF Scripts, frames
<1> QED BY <1>2, <1>4

\* The frames that were sent are documents with a length line before them.
LEMMA FrameParts ==
  ASSUME ClientTypes
  PROVE  /\ Sent \subseteq Nat
         /\ \A n \in Sent : DocOf(n) \in AnyDoc /\ LengthOf(n) \in {"good", "bad", "huge"}
<1>1. CASE script # <<>>
  <2>1. \A n \in Sent : n \in 1..Len(script) BY <1>1, ScriptFrames DEF ClientTypes, Sent
  <2> QED BY <1>1, <2>1, ScriptFrames DEF ClientTypes, DocOf, LengthOf, AnyDoc
<1>2. CASE script = <<>>
  <2> SUFFICES ASSUME NEW n \in Sent PROVE n \in Nat /\ DocOf(n) \in AnyDoc
      BY <1>2 DEF LengthOf
  <2>1. n \in DOMAIN calls /\ calls[n] \in CallRecord /\ n \in Nat
        BY <1>2, LenProperties DEF Sent, ClientTypes
  <2>2. DocOf(n) = StubDoc(calls[n].id, calls[n].method) BY <1>2 DEF DocOf, StubDoc
  <2>3. calls[n].id \in Nat /\ calls[n].method \in {"call", "none"} BY <2>1 DEF CallRecord
  <2> QED BY <2>1, <2>2, <2>3 DEF AnyDoc
<1> QED BY <1>1, <1>2

\* A frame whose length is wrong has the document of a call.
LEMMA BadFrames ==
  ASSUME ClientTypes, NEW n \in Sent, LengthOf(n) # "good"
  PROVE  DocOf(n).kind = "single"
<1>1. script # <<>> /\ n \in 1..posted BY DEF LengthOf, Sent
<1>2. n \in 1..Len(script) BY <1>1, ScriptFrames DEF ClientTypes
<1> QED BY <1>1, <1>2, ScriptFrames DEF ClientTypes, DocOf, LengthOf

\* A step that sends nothing changes no frame that was sent.
LEMMA SameFrames ==
  ASSUME UNCHANGED <<script, posted, calls>>
  PROVE  Sent' = Sent /\ \A n : DocOf(n)' = DocOf(n) /\ LengthOf(n)' = LengthOf(n)
BY DEF Sent, DocOf, LengthOf

-----------------------------------------------------------------------------
(* The stream of units *)

\* The first d units of the stream are taken.
Drops(d) ==
    /\ Stream' \in Seq(Unit) /\ Len(Stream') = Len(Stream) - d
    /\ \A i \in 1..Len(Stream') : Stream'[i] = Stream[i + d]

\* The units of the input buffer come first in the stream, those on their way next.
LEMMA StreamParts ==
  ASSUME inbuf \in Seq(Unit), toServer \in Seq(Unit)
  PROVE  /\ Stream \in Seq(Unit) /\ Len(Stream) = Len(inbuf) + Len(toServer)
         /\ Len(Stream) \in Nat /\ DOMAIN Stream = 1..Len(Stream)
         /\ \A i \in 1..Len(inbuf) : Stream[i] = inbuf[i]
<1>1. Stream \in Seq(Unit) /\ Len(Stream) = Len(inbuf) + Len(toServer)
      BY ConcatProperties DEF Stream
<1>2. \A i \in 1..Len(inbuf) : Stream[i] = inbuf[i]
      BY ConcatProperties, LenProperties DEF Stream
<1> QED BY <1>1, <1>2, LenProperties

\* Taking a line, or a length line with its body, out of the input buffer.
LEMMA TailsDrop ==
  ASSUME inbuf \in Seq(Unit), toServer \in Seq(Unit), UNCHANGED toServer
  PROVE  /\ inbuf # <<>> /\ inbuf' = Tail(inbuf) => Drops(1) /\ inbuf' \in Seq(Unit)
         /\ Len(inbuf) > 1 /\ inbuf' = Tail(Tail(inbuf)) => Drops(2) /\ inbuf' \in Seq(Unit)
<1>1. ASSUME NEW b \in Seq(Unit), b # <<>>
      PROVE  /\ Tail(b) \in Seq(Unit) /\ Tail(b) \o toServer \in Seq(Unit)
             /\ Len(Tail(b)) = Len(b) - 1
             /\ Len(Tail(b) \o toServer) = Len(b \o toServer) - 1
             /\ \A i \in 1..Len(Tail(b) \o toServer) : (Tail(b) \o toServer)[i] = (b \o toServer)[i + 1]
  <2>1. /\ Tail(b) \in Seq(Unit) /\ Len(Tail(b)) = Len(b) - 1
        /\ \A i \in 1..(Len(b) - 1) : Tail(b)[i] = b[i + 1]
        BY <1>1, HeadTailProperties
  <2>2. Len(b) \in Nat /\ Len(b) > 0 /\ Len(toServer) \in Nat
        BY <1>1, EmptySeq, LenProperties
  <2> DEFINE t == Tail(b)
  <2>3. t \in Seq(Unit) /\ Len(t) = Len(b) - 1 /\ \A i \in 1..(Len(b) - 1) : t[i] = b[i + 1] BY <2>1
  <2> HIDE DEF t
  <2>4. /\ t \o toServer \in Seq(Unit) /\ Len(t \o toServer) = Len(t) + Len(toServer)
        /\ \A i \in 1..(Len(t) + Len(toServer)) :
             (t \o toServer)[i] = IF i <= Len(t) THEN t[i] ELSE toServer[i - Len(t)]
        BY <2>3, ConcatProperties
  <2>5. /\ Len(b \o toServer) = Len(b) + Len(toServer)
        /\ \A i \in 1..(Len(b) + Len(toServer)) :
             (b \o toServer)[i] = IF i <= Len(b) THEN b[i] ELSE toServer[i - Len(b)]
        BY ConcatProperties
  <2>6. /\ Len(t \o toServer) = Len(b \o toServer) - 1
        /\ \A i \in 1..Len(t \o toServer) : (t \o toServer)[i] = (b \o toServer)[i + 1]
        BY <2>2, <2>3, <2>4, <2>5
  <2> QED BY <2>3, <2>4, <2>6 DEF t
<1>2. ASSUME inbuf # <<>>, inbuf' = Tail(inbuf) PROVE Drops(1) /\ inbuf' \in Seq(Unit)
  <2>1. Stream' = Tail(inbuf) \o toServer BY <1>2 DEF Stream
  <2> QED BY <1>1, <1>2, <2>1 DEF Drops, Stream
<1>3. ASSUME Len(inbuf) > 1, inbuf' = Tail(Tail(inbuf)) PROVE Drops(2) /\ inbuf' \in Seq(Unit)
  <2>1. Stream' = Tail(Tail(inbuf)) \o toServer BY <1>3 DEF Stream
  <2>2. inbuf # <<>> BY <1>3, EmptySeq
  <2> DEFINE t == Tail(inbuf)
  <2>3. /\ t \in Seq(Unit) /\ Len(t) = Len(inbuf) - 1 /\ t \o toServer \in Seq(Unit)
        /\ Len(t \o toServer) = Len(Stream) - 1
        /\ \A i \in 1..Len(t \o toServer) : (t \o toServer)[i] = Stream[i + 1]
        BY <1>1, <2>2 DEF Stream
  <2>4. Stream' = Tail(t) \o toServer /\ inbuf' = Tail(t) BY <1>3, <2>1
  <2>5. Len(inbuf) \in Nat /\ Len(Stream) \in Nat BY LenProperties, StreamParts
  <2> HIDE DEF t
  <2>6. t # <<>> BY <1>3, <2>3, <2>5, EmptySeq
  <2>7. /\ Tail(t) \in Seq(Unit) /\ Tail(t) \o toServer \in Seq(Unit)
        /\ Len(Tail(t) \o toServer) = Len(t \o toServer) - 1
        /\ \A i \in 1..Len(Tail(t) \o toServer) : (Tail(t) \o toServer)[i] = (t \o toServer)[i + 1]
        BY <1>1, <2>3, <2>6
  <2>8. Len(Stream') = Len(Stream) - 2 /\ Stream' \in Seq(Unit) BY <2>3, <2>4, <2>5, <2>7
  <2>9. ASSUME NEW i \in 1..Len(Stream') PROVE Stream'[i] = Stream[i + 2]
    <3>1. i + 1 \in 1..Len(t \o toServer) /\ (i + 1) + 1 = i + 2 BY <2>3, <2>5, <2>8
    <3>2. (t \o toServer)[i + 1] = Stream[(i + 1) + 1] BY <2>3, <3>1
    <3>3. Stream'[i] = (t \o toServer)[i + 1] BY <2>4, <2>7
    <3> QED BY <3>1, <3>2, <3>3
  <2> QED BY <2>4, <2>7, <2>8, <2>9 DEF Drops
<1> QED BY <1>2, <1>3

\* What is left of the stream is in order; a body is left without its length
\* line only when the server gives up.
LEMMA StreamDrops ==
  ASSUME inbuf \in Seq(Unit), toServer \in Seq(Unit), StreamInv,
         NEW d \in {0, 1, 2}, Drops(d), UNCHANGED <<script, posted, calls>>,
         \/ conn' # "connected"
         \/ conn' = conn /\ d = 0
         \/ conn' = conn /\ d = 2 /\ Stream[1].length # "none"
  PROVE  StreamInv'
<1>1. Sent' = Sent /\ \A n : DocOf(n)' = DocOf(n) /\ LengthOf(n)' = LengthOf(n) BY SameFrames
<1>2. /\ Len(Stream) \in Nat /\ DOMAIN Stream = 1..Len(Stream)
      /\ Len(Stream') \in Nat /\ DOMAIN Stream' = 1..Len(Stream')
      /\ Len(Stream') = Len(Stream) - d
      /\ \A i \in 1..Len(Stream') : Stream'[i] = Stream[i + d]
      BY StreamParts, LenProperties DEF Drops
<1>3. \A i \in DOMAIN Stream' : i + d \in DOMAIN Stream /\ i \in Nat BY <1>2
<1>4. ASSUME NEW i \in DOMAIN Stream'
      PROVE  /\ Stream'[i].n \in Sent /\ Stream'[i].length \in {"none", LengthOf(Stream'[i].n)}
             /\ Stream'[i].length = "none" => Stream'[i].doc = DocOf(Stream'[i].n)
             /\ Stream'[i].length # "none" =>
                  i + 1 \in DOMAIN Stream' /\ Stream'[i + 1].length = "none" /\ Stream'[i + 1].n = Stream'[i].n
             /\ Stream'[i].length = "none" /\ conn' = "connected" =>
                  i > 1 /\ Stream'[i - 1].length # "none"
  <2>1. Stream'[i] = Stream[i + d] /\ i + d \in DOMAIN Stream BY <1>2, <1>3
  <2>2. /\ Stream'[i].n \in Sent /\ Stream'[i].length \in {"none", LengthOf(Stream'[i].n)}
        /\ Stream'[i].length = "none" => Stream'[i].doc = DocOf(Stream'[i].n)
        BY <2>1 DEF StreamInv
  <2>3. ASSUME Stream'[i].length # "none"
        PROVE  i + 1 \in DOMAIN Stream' /\ Stream'[i + 1].length = "none" /\ Stream'[i + 1].n = Stream'[i].n
    <3>1. (i + d) + 1 \in DOMAIN Stream /\ Stream[(i + d) + 1].length = "none"
          /\ Stream[(i + d) + 1].n = Stream[i + d].n
          BY <2>1, <2>3 DEF StreamInv
    <3>2. i + 1 \in DOMAIN Stream' BY <3>1, <1>2
    <3>3. Stream'[i + 1] = Stream[(i + d) + 1] BY <3>2, <1>2
    <3> QED BY <2>1, <3>1, <3>2, <3>3
  <2>4. ASSUME Stream'[i].length = "none", conn' = "connected"
        PROVE  i > 1 /\ Stream'[i - 1].length # "none"
    <3>1. conn = "connected" BY <2>4
    <3>2. i + d > 1 /\ Stream[(i + d) - 1].length # "none" BY <2>1, <2>4, <3>1 DEF StreamInv
    <3>3. CASE d = 0 BY <1>2, <1>3, <3>2, <3>3
    <3>4. CASE d = 2
      <4>1. Stream[1].length # "none" BY <2>4, <3>4
      <4>2. 1 \in DOMAIN Stream BY <1>2, <3>4
      <4>3. Stream[1 + 1].length = "none" BY <4>1, <4>2 DEF StreamInv
      <4>4. i # 1 BY <3>2, <3>4, <4>3
      <4>5. i - 1 \in 1..Len(Stream') /\ (i - 1) + 2 = (i + d) - 1 BY <1>2, <1>3, <3>4, <4>4
      <4> QED BY <1>2, <1>3, <3>2, <3>4, <4>5
    <3> QED BY <2>4, <3>3, <3>4
  <2> QED BY <2>2, <2>3, <2>4
<1>5. ASSUME NEW i \in DOMAIN Stream', NEW j \in DOMAIN Stream', i < j
      PROVE  /\ Stream'[i].n = Stream'[j].n => j = i + 1 /\ Stream'[i].length # "none"
             /\ script # <<>> => Stream'[i].n <= Stream'[j].n
  <2>1. /\ Stream'[i] = Stream[i + d] /\ i + d \in DOMAIN Stream
        /\ Stream'[j] = Stream[j + d] /\ j + d \in DOMAIN Stream /\ i + d < j + d
        BY <1>2, <1>3, <1>5
  <2>2. /\ Stream[i + d].n = Stream[j + d].n => j + d = (i + d) + 1 /\ Stream[i + d].length # "none"
        /\ script # <<>> => Stream[i + d].n <= Stream[j + d].n
        BY <2>1 DEF StreamInv
  <2> QED BY <1>3, <2>1, <2>2
<1> QED BY <1>1, <1>4, <1>5 DEF StreamInv

\* A step that leaves the stream alone drops no unit of it.
LEMMA DropsNothing ==
  ASSUME inbuf \in Seq(Unit), toServer \in Seq(Unit), Stream' = Stream
  PROVE  Drops(0)
BY StreamParts DEF Drops

\* A length line and its body are all there is of the frame at the head of the
\* stream: the rest belongs to later ones.
LEMMA HeadFrame ==
  ASSUME inbuf \in Seq(Unit), toServer \in Seq(Unit), StreamInv,
         Stream # <<>>, Stream[1].length # "none"
  PROVE  /\ Len(Stream) > 1 /\ Stream[1].n \in Sent /\ Stream[1].length = LengthOf(Stream[1].n)
         /\ Stream[2].length = "none" /\ Stream[2].n = Stream[1].n /\ Stream[2].doc = DocOf(Stream[1].n)
         /\ Drops(2) => \A i \in DOMAIN Stream' :
                          /\ Stream[1].n # Stream'[i].n
                          /\ script # <<>> => Stream[1].n < Stream'[i].n
<1>1. Len(Stream) \in Nat /\ DOMAIN Stream = 1..Len(Stream) /\ Stream \in Seq(Unit)
      BY StreamParts
<1>2. 1 \in DOMAIN Stream BY <1>1, EmptySeq
<1>3. 1 + 1 \in DOMAIN Stream /\ Stream[1 + 1].length = "none" /\ Stream[1 + 1].n = Stream[1].n
      BY <1>2 DEF StreamInv
<1>4. /\ Len(Stream) > 1 /\ Stream[1].n \in Sent /\ Stream[1].length = LengthOf(Stream[1].n)
      /\ Stream[2].length = "none" /\ Stream[2].n = Stream[1].n /\ Stream[2].doc = DocOf(Stream[1].n)
      BY <1>1, <1>2, <1>3 DEF StreamInv
<1>5. ASSUME Drops(2), NEW i \in DOMAIN Stream'
      PROVE  Stream[1].n # Stream'[i].n /\ (script # <<>> => Stream[1].n < Stream'[i].n)
  <2>1. Len(Stream') = Len(Stream) - 2 /\ Stream'[i] = Stream[i + 2] /\ i \in 1..Len(Stream')
        BY <1>1, <1>5, LenProperties DEF Drops
  <2>2. i + 2 \in DOMAIN Stream /\ 1 < i + 2 /\ i + 2 # 1 + 1 BY <1>1, <2>1
  <2>3. Stream[1].n # Stream[i + 2].n BY <1>2, <2>2 DEF StreamInv
  <2>4. script # <<>> => Stream[1].n <= Stream[i + 2].n BY <1>2, <2>2 DEF StreamInv
  <2>5. Stream[1].n \in Nat /\ Stream[i + 2].n \in Nat
    <3>1. Stream[1] \in Unit /\ Stream[i + 2] \in Unit BY <1>1, <1>2, <2>2, ElementOfSeq
    <3> QED BY <3>1 DEF Unit
  <2> QED BY <2>1, <2>3, <2>4, <2>5
<1> QED BY <1>4, <1>5

\* What stays in the stream comes behind what the step takes up or answers.
LEMMA LeftBehind ==
  ASSUME inbuf \in Seq(Unit), toServer \in Seq(Unit), LeftInv,
         NEW d \in {0, 1, 2}, Drops(d), UNCHANGED script,
         NEW N, \A n \in N : \A i \in DOMAIN Stream' :
                   n # Stream'[i].n /\ (script # <<>> => n < Stream'[i].n),
         Taken' \subseteq Taken \cup N,
         conn' = "connected" => conn = "connected" /\ Answered' \subseteq Answered \cup N
  PROVE  /\ \A i \in DOMAIN Stream' : \A n \in Taken' : n # Stream'[i].n /\ (script' # <<>> => n < Stream'[i].n)
         /\ conn' = "connected" =>
              \A i \in DOMAIN Stream' : \A n \in Answered' : n # Stream'[i].n /\ (script' # <<>> => n < Stream'[i].n)
<1>a. /\ Len(Stream) \in Nat /\ DOMAIN Stream = 1..Len(Stream)
      /\ Len(Stream') \in Nat /\ DOMAIN Stream' = 1..Len(Stream')
      /\ Len(Stream') = Len(Stream) - d
      /\ \A i \in 1..Len(Stream') : Stream'[i] = Stream[i + d]
      BY StreamParts, LenProperties DEF Drops
<1>b. \A i \in DOMAIN Stream' : i + d \in DOMAIN Stream /\ i \in 1..Len(Stream') BY <1>a
<1>1. \A i \in DOMAIN Stream' : i + d \in DOMAIN Stream /\ Stream'[i] = Stream[i + d] BY <1>a, <1>b
<1>2. \A i \in DOMAIN Stream' : \A n \in Taken : n # Stream'[i].n /\ (script # <<>> => n < Stream'[i].n)
      BY <1>1 DEF LeftInv, Earlier
<1>3. conn = "connected" =>
        \A i \in DOMAIN Stream' : \A n \in Answered : n # Stream'[i].n /\ (script # <<>> => n < Stream'[i].n)
      BY <1>1 DEF LeftInv, Earlier
<1> QED BY <1>2, <1>3

-----------------------------------------------------------------------------
(* Frames *)

\* An error is the right answer to a message that is no batch.
LEMMA RightError ==
  ASSUME NEW n \in Nat, NEW doc \in AnyDoc, NEW length, NEW code \in Code, ~IsBatch(doc, length),
         IsSingle(doc, length) => Fate(doc.item) = "request" /\ code \in Faults(doc.item),
         ~IsSingle(doc, length) => code = IF doc.kind = "garbage" THEN "PARSE_ERROR" ELSE "INVALID_REQUEST"
  PROVE  LET frame == Single(wrapException(<<n, 1>>, code)) IN
         /\ frame \in Frame /\ RightFrame(frame, doc, length) /\ frame.n = n /\ ~frame.batch
         /\ frame.responses[1].kind = "error"
<1> DEFINE r == wrapException(<<n, 1>>, code)
<1>1. /\ r \in Response /\ r.kind = "error" /\ r.of = <<n, 1>> /\ r.id = NoId /\ r.code = code
      BY DEF wrapException, Response, NoId
<1>2. IsSingle(doc, length) => doc.item.object BY DocParts DEF IsSingle
<1>3. r.of[1] = n BY <1>1
<1> HIDE DEF r
<1>4. /\ Single(r) \in Frame /\ Single(r).n = n /\ Single(r).batch = FALSE
      /\ Single(r).responses = <<r>> /\ Len(<<r>>) = 1 /\ <<r>>[1] = r
      BY <1>1, <1>3 DEF Single, Frame
<1>5. RightFrame(Single(r), doc, length)
      BY <1>1, <1>2, <1>4 DEF RightFrame, RightFor
<1> QED BY <1>1, <1>4, <1>5 DEF r

\* A result is the right answer to a call that is accepted.
LEMMA RightResult ==
  ASSUME NEW n \in Nat, NEW doc \in AnyDoc, NEW length, IsSingle(doc, length),
         Fate(doc.item) = "none", ~isNotify(doc.item)
  PROVE  LET frame == Single(resultOf(<<n, 1>>, doc.item.id)) IN
         /\ frame \in Frame /\ RightFrame(frame, doc, length) /\ frame.n = n /\ ~frame.batch
         /\ frame.responses[1].kind = "result"
<1> DEFINE r == resultOf(<<n, 1>>, doc.item.id)
<1>1. doc.item \in AnyItem /\ doc.item.object BY DocParts DEF IsSingle
<1>2. doc.item.id \in Int BY <1>1 DEF AnyItem
<1>3. /\ r \in Response /\ r.kind = "result" /\ r.of = <<n, 1>> /\ r.id = doc.item.id
      BY <1>2 DEF resultOf, Response, Code
<1>4. Faults(doc.item) = {} BY <1>1, Verdict DEF Fate
<1>5. r.of[1] = n BY <1>3
<1>6. ~IsBatch(doc, length) BY DEF IsBatch, IsSingle
<1> HIDE DEF r
<1>7. /\ Single(r) \in Frame /\ Single(r).n = n /\ Single(r).batch = FALSE
      /\ Single(r).responses = <<r>> /\ Len(<<r>>) = 1 /\ <<r>>[1] = r
      BY <1>3, <1>5 DEF Single, Frame
<1>8. RightFrame(Single(r), doc, length)
      BY <1>1, <1>3, <1>4, <1>6, <1>7 DEF RightFrame, RightFor
<1> QED BY <1>3, <1>7, <1>8 DEF r

\* An array with what is due is the right answer to a batch.
LEMMA RightArray ==
  ASSUME NEW n \in Nat, NEW doc, NEW length, IsBatch(doc, length),
         NEW responses \in Seq(Response), Answer(responses, n, doc.items, Due(doc.items))
  PROVE  LET frame == Array(n, responses) IN
         frame \in Frame /\ RightFrame(frame, doc, length) /\ frame.n = n /\ frame.batch
<1>1. /\ Array(n, responses) \in Frame /\ Array(n, responses).n = n /\ Array(n, responses).batch = TRUE
      /\ Array(n, responses).responses = responses
      BY DEF Array, Frame
<1> QED BY <1>1 DEF RightFrame

\* The loop thread sends a frame: if the connection takes it, it answers a
\* message that has not been answered, and an error is the end of the service.
LEMMA LoopSends ==
  ASSUME wire \in Seq(Frame), sends \in Seq(Frame), FramesInv, FramesOnce, ErrorInv,
         NEW frame \in Frame, frame.n \in Sent, RightFrame(frame, DocOf(frame.n), LengthOf(frame.n)),
         sendJson(frame), UNCHANGED <<sends, script, posted, calls>>,
         conn = "connected" => frame.n \notin Answered,
         conn # "connected" => conn' # "connected",
         ~frame.batch /\ frame.responses[1].kind = "error" /\ conn = "connected" =>
            conn' # "connected" /\ (script # <<>> => \A g \in DOMAIN sends : sends[g].n < frame.n)
  PROVE  /\ wire' \in Seq(Frame) /\ FramesInv' /\ FramesOnce' /\ ErrorInv'
         /\ Answered' \subseteq Answered \cup {frame.n}
<1>1. Sent' = Sent /\ \A n : DocOf(n)' = DocOf(n) /\ LengthOf(n)' = LengthOf(n) BY SameFrames
<1>2. CASE conn # "connected"
  <2>1. wire' = wire /\ sends' = sends /\ conn' # "connected" /\ script' = script
        BY <1>2 DEF sendJson
  <2>2. Answered' = Answered BY <2>1 DEF Answered
  <2>3. FramesInv' BY <1>1, <2>1 DEF FramesInv
  <2>4. FramesOnce' BY <2>1 DEF FramesOnce
  <2>5. ErrorInv' BY <2>1 DEF ErrorInv
  <2> QED BY <2>1, <2>2, <2>3, <2>4, <2>5
<1>3. CASE conn = "connected"
  <2>1. wire' = Append(wire, frame) /\ sends' = sends /\ script' = script BY <1>3 DEF sendJson
  <2>2. /\ wire' \in Seq(Frame) /\ Len(wire) \in Nat /\ DOMAIN wire = 1..Len(wire)
        /\ DOMAIN wire' = 1..(Len(wire) + 1) /\ wire'[Len(wire) + 1] = frame
        /\ \A f \in DOMAIN wire : wire'[f] = wire[f]
        BY <2>1, AppendProperties, LenProperties
  <2>3. \A f \in DOMAIN wire' : wire'[f] = frame \/ (f \in DOMAIN wire /\ wire'[f] = wire[f]) BY <2>2
  <2>4. Answered' \subseteq Answered \cup {frame.n} BY <2>1, <2>3 DEF Answered
  <2>5. FramesInv' BY <1>1, <2>1, <2>3 DEF FramesInv
  <2>6. /\ \A f \in DOMAIN wire : wire[f].n # frame.n
        /\ \A g \in DOMAIN sends : sends[g].n # frame.n
        BY <1>3 DEF Answered
  <2>7. FramesOnce' BY <2>1, <2>2, <2>6 DEF FramesOnce
  <2>8. \A f \in DOMAIN wire : ~(~wire[f].batch /\ wire[f].responses[1].kind = "error")
        BY <1>3 DEF ErrorInv
  <2>9. ErrorInv' BY <1>3, <2>1, <2>2, <2>8 DEF ErrorInv
  <2> QED BY <2>2, <2>4, <2>5, <2>7, <2>9
<1> QED BY <1>2, <1>3

\* A user's thread has a frame sent: it is never an error that ends the service.
LEMMA UserSends ==
  ASSUME wire \in Seq(Frame), sends \in Seq(Frame), FramesInv, FramesOnce, ErrorInv,
         NEW frame \in Frame, frame.n \in Sent, RightFrame(frame, DocOf(frame.n), LengthOf(frame.n)),
         ~frame.batch => frame.responses[1].kind = "result",
         sendJsonLater(frame), UNCHANGED <<wire, conn, script, posted, calls>>,
         conn = "connected" => frame.n \notin Answered
  PROVE  /\ sends' \in Seq(Frame) /\ FramesInv' /\ FramesOnce' /\ ErrorInv'
         /\ Answered' \subseteq Answered \cup {frame.n}
<1>1. Sent' = Sent /\ \A n : DocOf(n)' = DocOf(n) /\ LengthOf(n)' = LengthOf(n) BY SameFrames
<1>2. CASE conn # "connected"
  <2>1. wire' = wire /\ sends' = sends /\ conn' = conn /\ script' = script
        BY <1>2 DEF sendJsonLater
  <2>2. Answered' = Answered BY <2>1 DEF Answered
  <2>3. FramesInv' BY <1>1, <2>1 DEF FramesInv
  <2>4. FramesOnce' BY <2>1 DEF FramesOnce
  <2>5. ErrorInv' BY <2>1 DEF ErrorInv
  <2> QED BY <2>1, <2>2, <2>3, <2>4, <2>5
<1>3. CASE conn = "connected"
  <2>1. sends' = Append(sends, frame) /\ wire' = wire BY <1>3 DEF sendJsonLater
  <2>2. /\ sends' \in Seq(Frame) /\ Len(sends) \in Nat /\ DOMAIN sends = 1..Len(sends)
        /\ DOMAIN sends' = 1..(Len(sends) + 1) /\ sends'[Len(sends) + 1] = frame
        /\ \A f \in DOMAIN sends : sends'[f] = sends[f]
        BY <2>1, AppendProperties, LenProperties
  <2>3. \A f \in DOMAIN sends' : sends'[f] = frame \/ (f \in DOMAIN sends /\ sends'[f] = sends[f]) BY <2>2
  <2>4. Answered' \subseteq Answered \cup {frame.n} BY <2>1, <2>3 DEF Answered
  <2>5. FramesInv' BY <1>1, <2>1, <2>3 DEF FramesInv
  <2>6. /\ \A f \in DOMAIN wire : wire[f].n # frame.n
        /\ \A g \in DOMAIN sends : sends[g].n # frame.n
        BY <1>3 DEF Answered
  <2>7. FramesOnce' BY <2>1, <2>2, <2>6 DEF FramesOnce
  <2>8. \A f \in DOMAIN wire : ~(~wire[f].batch /\ wire[f].responses[1].kind = "error")
        BY <1>3 DEF ErrorInv
  <2>9. ErrorInv' BY <2>1, <2>8 DEF ErrorInv
  <2> QED BY <2>2, <2>4, <2>5, <2>7, <2>9
<1> QED BY <1>2, <1>3

\* A step that sends nothing.
LEMMA NothingSent ==
  ASSUME FramesInv, FramesOnce, ErrorInv, UNCHANGED <<wire, sends, script, posted, calls>>,
         conn # "connected" => conn' # "connected"
  PROVE  FramesInv' /\ FramesOnce' /\ ErrorInv' /\ Answered' = Answered
<1>1. Sent' = Sent /\ \A n : DocOf(n)' = DocOf(n) /\ LengthOf(n)' = LengthOf(n) BY SameFrames
<1>2. FramesInv' BY <1>1 DEF FramesInv
<1>3. FramesOnce' BY DEF FramesOnce
<1>4. ErrorInv' BY DEF ErrorInv
<1>5. Answered' = Answered BY DEF Answered
<1> QED BY <1>2, <1>3, <1>4, <1>5

-----------------------------------------------------------------------------
(* The steps of the loop thread between the messages *)

\* Frames that were sent stay what they are.
FramesKept ==
    Sent \subseteq Sent' /\ \A n \in Sent : DocOf(n)' = DocOf(n) /\ LengthOf(n)' = LengthOf(n)

\* A step of neither the batches nor the user's threads.
LEMMA BatchesStay ==
  ASSUME HandlerInv, BatchesInv, PendingInv, FramesKept, UNCHANGED <<batches, pending>>,
         \/ handler' = handler
         \/ handler.at \in {"poll", "messages"} /\ handler'.at \in {"poll", "messages"}
  PROVE  HandlerInv' /\ BatchesInv' /\ PendingInv' /\ Taken' = Taken
<1>1. \A n : InHand(n)' <=> InHand(n) BY DEF InHand
<1>2. \A n \in Sent : Passed(n)' = Passed(n) BY <1>1 DEF Passed, FramesKept, InHand
<1>3. \A n : Holders(n)' = Holders(n) /\ Held(n)' = Held(n) BY DEF Holders, Held
<1>4. Taken' = Taken BY DEF Taken
<1>5. \A n \in DOMAIN batches : n \in Sent BY DEF BatchesInv
<1>6. HandlerInv' BY <1>5 DEF HandlerInv, FramesKept
<1>7. BatchesInv'
  <2> SUFFICES ASSUME NEW n \in DOMAIN batches
               PROVE  /\ n \in Sent' /\ IsBatch(DocOf(n)', LengthOf(n)')
                      /\ batches[n].refs = Cardinality(Holders(n)') + (IF InHand(n)' THEN 1 ELSE 0)
                      /\ Held(n)' \subseteq Due(DocOf(n)'.items) \cap Passed(n)'
                      /\ Answer(batches[n].responses, n, DocOf(n)'.items,
                                (Due(DocOf(n)'.items) \cap Passed(n)') \ Held(n)')
      BY DEF BatchesInv
  <2>1. n \in Sent /\ n \in Sent' /\ DocOf(n)' = DocOf(n) /\ LengthOf(n)' = LengthOf(n)
        BY <1>5 DEF FramesKept
  <2> QED BY <1>1, <1>2, <1>3, <2>1 DEF BatchesInv
<1>8. PendingInv'
  <2> SUFFICES ASSUME NEW p \in pending
               PROVE  LET n == p.of[1] IN
                      IF p.batch
                      THEN /\ n \in DOMAIN batches
                           /\ p.of[2] \in Due(DocOf(n)'.items) \cap Passed(n)'
                           /\ p.id = DocOf(n)'.items[p.of[2]].id
                           /\ Fate(DocOf(n)'.items[p.of[2]]) = "none"
                      ELSE /\ n \in Sent' /\ IsSingle(DocOf(n)', LengthOf(n)') /\ p.of[2] = 1 /\ p.step = "held"
                           /\ DocOf(n)'.item.object /\ Fate(DocOf(n)'.item) = "none"
                           /\ ~isNotify(DocOf(n)'.item) /\ p.id = DocOf(n)'.item.id
      BY DEF PendingInv
  <2>1. p.of[1] \in Sent BY <1>5 DEF PendingInv
  <2>2. /\ p.of[1] \in Sent' /\ DocOf(p.of[1])' = DocOf(p.of[1]) /\ LengthOf(p.of[1])' = LengthOf(p.of[1])
        /\ Passed(p.of[1])' = Passed(p.of[1])
        BY <1>2, <2>1 DEF FramesKept
  <2> QED BY <2>2 DEF PendingInv
<1> QED BY <1>4, <1>6, <1>7, <1>8

\* A message with no answer, or an error: nothing is begun.
LEMMA RejectStep ==
  ASSUME ServerInv, ClientTypes, handler.at = "messages", Stream # <<>>,
         NEW code \in Code, throwRequest(<<Stream[1].n, 1>>, code),
         ~IsBatch(DocOf(Stream[1].n), LengthOf(Stream[1].n)),
         IsSingle(DocOf(Stream[1].n), LengthOf(Stream[1].n)) =>
            Fate(DocOf(Stream[1].n).item) = "request" /\ code \in Faults(DocOf(Stream[1].n).item),
         ~IsSingle(DocOf(Stream[1].n), LengthOf(Stream[1].n)) =>
            code = IF DocOf(Stream[1].n).kind = "garbage" THEN "PARSE_ERROR" ELSE "INVALID_REQUEST",
         NEW d \in {0, 1, 2}, Drops(d), inbuf' \in Seq(Unit),
         UNCHANGED <<toServer, script, posted, calls>>
  PROVE  ServerInv'
<1> DEFINE n == Stream[1].n
           frame == Single(wrapException(<<n, 1>>, code))
<1>1. /\ ServerTypes /\ StreamInv /\ HandlerInv /\ BatchesInv /\ PendingInv
      /\ FramesInv /\ FramesOnce /\ LeftInv /\ ErrorInv
      BY DEF ServerInv
<1>2. inbuf \in Seq(Unit) /\ toServer \in Seq(Unit) /\ wire \in Seq(Frame) /\ sends \in Seq(Frame)
      BY <1>1 DEF ServerTypes
<1>3. 1 \in DOMAIN Stream /\ n \in Sent /\ n \in Nat /\ DocOf(n) \in AnyDoc
  <2>1. 1 \in DOMAIN Stream BY <1>2, StreamParts, EmptySeq
  <2> QED BY <1>1, <2>1, FrameParts DEF StreamInv
<1>4. conn' # "connected" /\ conn' \in {"closing", "shut", "broken"}
      BY <1>1 DEF throwRequest, ServerTypes
<1>5. sendJson(frame) /\ handler' = [at |-> "poll"] /\ UNCHANGED <<pending, batches, sends>>
      BY DEF throwRequest
<1>6. /\ frame \in Frame /\ RightFrame(frame, DocOf(n), LengthOf(n)) /\ frame.n = n /\ ~frame.batch
      /\ frame.responses[1].kind = "error"
  <2> DEFINE doc == DocOf(n)
             length == LengthOf(n)
  <2>1. /\ n \in Nat /\ doc \in AnyDoc /\ ~IsBatch(doc, length)
        /\ IsSingle(doc, length) => Fate(doc.item) = "request" /\ code \in Faults(doc.item)
        /\ ~IsSingle(doc, length) => code = IF doc.kind = "garbage" THEN "PARSE_ERROR" ELSE "INVALID_REQUEST"
        BY <1>3
  <2> HIDE DEF doc, length, n
  <2>2. /\ Single(wrapException(<<n, 1>>, code)) \in Frame
        /\ RightFrame(Single(wrapException(<<n, 1>>, code)), doc, length)
        /\ Single(wrapException(<<n, 1>>, code)).n = n
        /\ ~Single(wrapException(<<n, 1>>, code)).batch
        /\ Single(wrapException(<<n, 1>>, code)).responses[1].kind = "error"
        BY <2>1, RightError
  <2> QED BY <2>2 DEF doc, length
<1>7. conn = "connected" => \A m \in Answered : Earlier(m, n) BY <1>1, <1>3 DEF LeftInv
<1>8. conn = "connected" => n \notin Answered /\ (script # <<>> => \A g \in DOMAIN sends : sends[g].n < n)
      BY <1>7 DEF Earlier, Answered
<1> HIDE DEF frame
<1>9. /\ wire' \in Seq(Frame) /\ FramesInv' /\ FramesOnce' /\ ErrorInv'
      BY <1>1, <1>2, <1>3, <1>4, <1>5, <1>6, <1>8, LoopSends
<1> HIDE DEF n
<1>10. FramesKept BY SameFrames DEF FramesKept
<1>11. HandlerInv' /\ BatchesInv' /\ PendingInv' /\ Taken' = Taken
       BY <1>1, <1>5, <1>10, BatchesStay
<1>12. StreamInv' BY <1>1, <1>2, <1>4, StreamDrops
<1>13. LeftInv'
  <2>1. \A i \in DOMAIN Stream' : \A m \in Taken' : m # Stream'[i].n /\ (script' # <<>> => m < Stream'[i].n)
    <3> DEFINE N == {}
    <3>1. Taken' \subseteq Taken \cup N BY <1>11
    <3>2. \A m \in N : \A i \in DOMAIN Stream' : m # Stream'[i].n /\ (script # <<>> => m < Stream'[i].n)
          OBVIOUS
    <3> HIDE DEF N
    <3> QED BY <1>1, <1>2, <1>4, <3>1, <3>2, LeftBehind
  <2> QED BY <1>4, <2>1 DEF LeftInv, Earlier
<1>14. ServerTypes' BY <1>1, <1>2, <1>4, <1>5, <1>9 DEF ServerTypes
<1> QED BY <1>9, <1>11, <1>12, <1>13, <1>14 DEF ServerInv

\* A step that answers nothing and begins nothing: units are read or dropped,
\* the loop goes on, the connection is lost.
LEMMA SilentStep ==
  ASSUME ServerInv, ClientTypes,
         \/ handler' = handler
         \/ handler.at \in {"poll", "messages"} /\ handler' \in [at : {"poll", "messages"}],
         NEW d \in {0, 1, 2}, Drops(d), inbuf' \in Seq(Unit), toServer' \in Seq(Unit),
         conn' \in {"connected", "closing", "shut", "broken"}, conn # "connected" => conn' # "connected",
         \/ conn' # "connected"
         \/ conn' = conn /\ d = 0
         \/ conn' = conn /\ d = 2 /\ Stream[1].length # "none",
         UNCHANGED <<pending, batches, sends, wire, script, posted, calls>>
  PROVE  ServerInv'
<1>1. /\ ServerTypes /\ StreamInv /\ HandlerInv /\ BatchesInv /\ PendingInv
      /\ FramesInv /\ FramesOnce /\ LeftInv /\ ErrorInv
      BY DEF ServerInv
<1>2. inbuf \in Seq(Unit) /\ toServer \in Seq(Unit) BY <1>1 DEF ServerTypes
<1>3. FramesInv' /\ FramesOnce' /\ ErrorInv' /\ Answered' = Answered BY <1>1, NothingSent
<1>4. FramesKept BY SameFrames DEF FramesKept
<1>5. HandlerInv' /\ BatchesInv' /\ PendingInv' /\ Taken' = Taken
  <2>1. \/ handler' = handler
        \/ handler.at \in {"poll", "messages"} /\ handler'.at \in {"poll", "messages"}
        OBVIOUS
  <2> QED BY <1>1, <1>4, <2>1, BatchesStay
<1>6. StreamInv' BY <1>1, <1>2, StreamDrops
<1>7. LeftInv'
  <2> DEFINE N == {}
  <2>1. /\ Taken' \subseteq Taken \cup N
        /\ conn' = "connected" => conn = "connected" /\ Answered' \subseteq Answered \cup N
        /\ \A m \in N : \A i \in DOMAIN Stream' : m # Stream'[i].n /\ (script # <<>> => m < Stream'[i].n)
        BY <1>3, <1>5
  <2> HIDE DEF N
  <2>2. /\ \A i \in DOMAIN Stream' : \A m \in Taken' : m # Stream'[i].n /\ (script' # <<>> => m < Stream'[i].n)
        /\ conn' = "connected" =>
             \A i \in DOMAIN Stream' : \A m \in Answered' : m # Stream'[i].n /\ (script' # <<>> => m < Stream'[i].n)
        BY <1>1, <1>2, <2>1, LeftBehind
  <2> QED BY <1>1, <1>3, <2>2 DEF LeftInv, Earlier
<1>8. ServerTypes'
  <2>1. \/ handler' \in [at : {"poll", "messages"}]
        \/ /\ handler'.at \in {"batch", "batch end"}
           /\ handler' = [at |-> handler'.at, n |-> handler'.n, i |-> handler'.i, items |-> handler'.items]
        BY <1>1 DEF ServerTypes
  <2> QED BY <1>1, <2>1 DEF ServerTypes
<1> QED BY <1>3, <1>5, <1>6, <1>7, <1>8 DEF ServerInv

\* The frame at the head of the stream has not been taken up, nor answered.
LEMMA HeadIsNew ==
  ASSUME ServerInv, ClientTypes, Stream # <<>>, Stream[1].length # "none"
  PROVE  LET n == Stream[1].n IN
         /\ n \in Sent /\ n \in Nat /\ DocOf(n) \in AnyDoc /\ n \notin Taken /\ n \notin DOMAIN batches
         /\ \A p \in pending : p.of[1] # n
         /\ conn = "connected" => n \notin Answered
         /\ Drops(2) => \A i \in DOMAIN Stream' : n # Stream'[i].n /\ (script # <<>> => n < Stream'[i].n)
<1> DEFINE n == Stream[1].n
<1>1. /\ ServerTypes /\ StreamInv /\ LeftInv BY DEF ServerInv
<1>2. inbuf \in Seq(Unit) /\ toServer \in Seq(Unit) BY <1>1 DEF ServerTypes
<1>3. 1 \in DOMAIN Stream BY <1>2, StreamParts, EmptySeq
<1>4. \A m \in Taken : m # n BY <1>1, <1>3 DEF LeftInv, Earlier
<1>5. conn = "connected" => \A m \in Answered : m # n BY <1>1, <1>3 DEF LeftInv, Earlier
<1>6. n \in Sent /\ (Drops(2) => \A i \in DOMAIN Stream' : n # Stream'[i].n /\ (script # <<>> => n < Stream'[i].n))
      BY <1>1, <1>2, HeadFrame
<1>7. n \in Nat /\ DocOf(n) \in AnyDoc BY <1>6, FrameParts
<1> QED BY <1>4, <1>5, <1>6, <1>7 DEF Taken

\* A call is accepted: it is answered at once, or later by a user's thread.
LEMMA AcceptStep ==
  ASSUME ServerInv, ClientTypes, handler.at = "messages", Stream # <<>>, Stream[1].length # "none",
         IsSingle(DocOf(Stream[1].n), LengthOf(Stream[1].n)),
         Fate(DocOf(Stream[1].n).item) = "none", ~isNotify(DocOf(Stream[1].n).item),
         invokeSingle(<<Stream[1].n, 1>>, DocOf(Stream[1].n).item),
         Drops(2), inbuf' \in Seq(Unit), UNCHANGED <<toServer, script, posted, calls>>
  PROVE  ServerInv'
<1> DEFINE n == Stream[1].n
           id == DocOf(n).item.id
           frame == Single(resultOf(<<n, 1>>, id))
           p == [of |-> <<n, 1>>, id |-> id, batch |-> FALSE, step |-> "held"]
<1>1. /\ ServerTypes /\ StreamInv /\ HandlerInv /\ BatchesInv /\ PendingInv
      /\ FramesInv /\ FramesOnce /\ LeftInv /\ ErrorInv
      BY DEF ServerInv
<1>2. inbuf \in Seq(Unit) /\ toServer \in Seq(Unit) /\ wire \in Seq(Frame) /\ sends \in Seq(Frame)
      BY <1>1 DEF ServerTypes
<1>3. /\ n \in Sent /\ n \in Nat /\ DocOf(n) \in AnyDoc /\ n \notin Taken /\ n \notin DOMAIN batches
      /\ \A q \in pending : q.of[1] # n
      /\ conn = "connected" => n \notin Answered
      /\ \A i \in DOMAIN Stream' : n # Stream'[i].n /\ (script # <<>> => n < Stream'[i].n)
      BY HeadIsNew
<1>4. DocOf(n).item.object /\ id \in Int
      BY <1>3, DocParts DEF IsSingle, AnyItem
<1>5. StreamInv' BY <1>1, <1>2, StreamDrops DEF invokeSingle
<1>6. UNCHANGED <<handler, batches, conn, sends>> BY DEF invokeSingle
<1>7. FramesKept /\ Sent' = Sent /\ \A k : DocOf(k)' = DocOf(k) /\ LengthOf(k)' = LengthOf(k)
      BY SameFrames DEF FramesKept
<1>8. CASE sendJson(frame) /\ UNCHANGED pending
  <2>1. /\ frame \in Frame /\ RightFrame(frame, DocOf(n), LengthOf(n)) /\ frame.n = n /\ ~frame.batch
        /\ frame.responses[1].kind = "result"
    <3> DEFINE doc == DocOf(n)
               length == LengthOf(n)
    <3>1. n \in Nat /\ doc \in AnyDoc /\ IsSingle(doc, length) /\ Fate(doc.item) = "none" /\ ~isNotify(doc.item)
          BY <1>3
    <3> HIDE DEF doc, length, n
    <3>2. /\ Single(resultOf(<<n, 1>>, doc.item.id)) \in Frame
          /\ RightFrame(Single(resultOf(<<n, 1>>, doc.item.id)), doc, length)
          /\ Single(resultOf(<<n, 1>>, doc.item.id)).n = n
          /\ ~Single(resultOf(<<n, 1>>, doc.item.id)).batch
          /\ Single(resultOf(<<n, 1>>, doc.item.id)).responses[1].kind = "result"
          BY <3>1, RightResult
    <3> QED BY <3>2 DEF doc, length
  <2> HIDE DEF frame
  <2>2. /\ wire' \in Seq(Frame) /\ FramesInv' /\ FramesOnce' /\ ErrorInv'
        /\ Answered' \subseteq Answered \cup {n}
        BY <1>1, <1>2, <1>3, <1>6, <1>8, <2>1, LoopSends
  <2> HIDE DEF n
  <2>3. HandlerInv' /\ BatchesInv' /\ PendingInv' /\ Taken' = Taken
        BY <1>1, <1>6, <1>7, <1>8, BatchesStay
  <2>4. LeftInv'
    <3> DEFINE N == {n}
    <3>1. /\ Taken' \subseteq Taken \cup N
          /\ conn' = "connected" => conn = "connected" /\ Answered' \subseteq Answered \cup N
          /\ \A m \in N : \A i \in DOMAIN Stream' : m # Stream'[i].n /\ (script # <<>> => m < Stream'[i].n)
          BY <1>3, <1>6, <2>2, <2>3
    <3> HIDE DEF N
    <3>2. /\ \A i \in DOMAIN Stream' : \A m \in Taken' : m # Stream'[i].n /\ (script' # <<>> => m < Stream'[i].n)
          /\ conn' = "connected" =>
               \A i \in DOMAIN Stream' : \A m \in Answered' : m # Stream'[i].n /\ (script' # <<>> => m < Stream'[i].n)
          BY <1>1, <1>2, <3>1, LeftBehind
    <3> QED BY <1>1, <1>3, <1>6, <1>8, <2>2, <3>2 DEF LeftInv, Earlier
  <2>5. ServerTypes' BY <1>1, <1>6, <1>8, <2>2 DEF ServerTypes
  <2> QED BY <1>5, <2>2, <2>3, <2>4, <2>5 DEF ServerInv
<1>9. CASE pending' = pending \cup {p} /\ UNCHANGED wire
  <2>1. /\ p.of = <<n, 1>> /\ p.of[1] = n /\ p.of[2] = 1 /\ p.id = id /\ p.batch = FALSE /\ p.step = "held"
        /\ p \in [of : Nat \X Nat, id : Int, batch : BOOLEAN, step : {"held", "called"}]
        BY <1>3, <1>4
  <2> HIDE DEF p
  <2>2. FramesInv' /\ FramesOnce' /\ ErrorInv' /\ Answered' = Answered BY <1>1, <1>6, <1>9, NothingSent
  <2>3. Taken' \subseteq Taken \cup {n} BY <1>6, <1>9, <2>1 DEF Taken
  <2>4. /\ \A k : Holders(k)' = Holders(k) /\ Held(k)' = Held(k)
        /\ \A k : InHand(k)' <=> InHand(k)
        BY <1>6, <1>9, <2>1 DEF Holders, Held, InHand
  <2>5. \A k : Passed(k)' = Passed(k) BY <1>6, <1>7 DEF Passed, InHand
  <2>6. HandlerInv' BY <1>1, <1>6, <1>7 DEF HandlerInv
  <2>7. BatchesInv' BY <1>1, <1>6, <1>7, <2>4, <2>5 DEF BatchesInv
  <2>8. PendingInv'
    <3>1. \A q, r \in pending' : q.of = r.of => q = r
          BY <1>1, <1>3, <1>9, <2>1 DEF PendingInv
    <3>2. ASSUME NEW q \in pending'
          PROVE  LET k == q.of[1] IN
                 IF q.batch
                 THEN /\ k \in DOMAIN batches'
                      /\ q.of[2] \in Due(DocOf(k)'.items) \cap Passed(k)'
                      /\ q.id = DocOf(k)'.items[q.of[2]].id
                      /\ Fate(DocOf(k)'.items[q.of[2]]) = "none"
                 ELSE /\ k \in Sent' /\ IsSingle(DocOf(k)', LengthOf(k)') /\ q.of[2] = 1 /\ q.step = "held"
                      /\ DocOf(k)'.item.object /\ Fate(DocOf(k)'.item) = "none"
                      /\ ~isNotify(DocOf(k)'.item) /\ q.id = DocOf(k)'.item.id
      <4>1. CASE q = p BY <1>3, <1>4, <1>7, <2>1, <4>1
      <4>2. CASE q \in pending BY <1>1, <1>6, <1>7, <2>5, <4>2 DEF PendingInv
      <4> QED BY <1>9, <4>1, <4>2
    <3> QED BY <3>1, <3>2 DEF PendingInv
  <2>9. LeftInv'
    <3> DEFINE N == {n}
    <3>1. /\ Taken' \subseteq Taken \cup N
          /\ conn' = "connected" => conn = "connected" /\ Answered' \subseteq Answered \cup N
          /\ \A m \in N : \A i \in DOMAIN Stream' : m # Stream'[i].n /\ (script # <<>> => m < Stream'[i].n)
          BY <1>3, <1>6, <2>2, <2>3
    <3> HIDE DEF N
    <3>2. /\ \A i \in DOMAIN Stream' : \A m \in Taken' : m # Stream'[i].n /\ (script' # <<>> => m < Stream'[i].n)
          /\ conn' = "connected" =>
               \A i \in DOMAIN Stream' : \A m \in Answered' : m # Stream'[i].n /\ (script' # <<>> => m < Stream'[i].n)
          BY <1>1, <1>2, <3>1, LeftBehind
    <3> QED BY <1>1, <1>3, <1>6, <1>9, <2>1, <2>2, <3>2 DEF LeftInv, Earlier
  <2>10. ServerTypes'
    <3>1. IsFiniteSet(pending') BY <1>1, <1>9, FS_AddElement DEF ServerTypes
    <3>2. pending' \in SUBSET [of : Nat \X Nat, id : Int, batch : BOOLEAN, step : {"held", "called"}]
          BY <1>1, <1>9, <2>1 DEF ServerTypes
    <3> QED BY <1>1, <1>6, <1>9, <3>1, <3>2 DEF ServerTypes
  <2> QED BY <1>5, <2>2, <2>6, <2>7, <2>8, <2>9, <2>10 DEF ServerInv
<1> QED BY <1>8, <1>9 DEF invokeSingle

-----------------------------------------------------------------------------
(* Batches *)

\* The fate of a request of a batch is what its validation throws.
LEMMA FateOfItem ==
  ASSUME NEW r \in AnyItem
  PROVE  LET tests == <<Test(~r.object, "request", "INVALID_REQUEST")>> \o handleOne(r) IN
         /\ Thrown(tests) = Fate(r) /\ Fate(r) \in {"none", "request", "notify"}
         /\ Fate(r) = "request" => ThrownCode(tests) \in Faults(r) /\ ThrownCode(tests) \in Code
         /\ Fate(r) = "none" => Faults(r) = {}
<1> DEFINE tests == handleOne(r)
           all == <<Test(~r.object, "request", "INVALID_REQUEST")>> \o tests
<1>1. /\ tests \in Seq(TestRecord) /\ Thrown(tests) \in {"none", "request", "notify"}
      /\ Thrown(tests) = "none" /\ r.object => Faults(r) = {}
      /\ Thrown(tests) # "none" => ThrownCode(tests) \in Faults(r) /\ ThrownCode(tests) \in Code
      BY Verdict
<1>2. r.object \in BOOLEAN /\ (~r.object) \in BOOLEAN BY DEF AnyItem
<1> HIDE DEF tests
<1>3. /\ ~r.object => Thrown(all) = "request" /\ ThrownCode(all) = "INVALID_REQUEST"
      /\ r.object => Thrown(all) = Thrown(tests)
      /\ r.object /\ Thrown(tests) # "none" => ThrownCode(all) = ThrownCode(tests)
      BY <1>1, <1>2, BatchTests
<1> HIDE DEF all
<1>4. ~r.object => "INVALID_REQUEST" \in Faults(r) BY FaultsMeans
<1>5. Fate(r) = IF r.object THEN Thrown(tests) ELSE "request" BY DEF Fate, tests
<1>6. "INVALID_REQUEST" \in Code BY DEF Code
<1>7. /\ Thrown(all) = Fate(r) /\ Fate(r) \in {"none", "request", "notify"}
      /\ Fate(r) = "request" => ThrownCode(all) \in Faults(r) /\ ThrownCode(all) \in Code
      /\ Fate(r) = "none" => Faults(r) = {}
      BY <1>1, <1>2, <1>3, <1>4, <1>5, <1>6
<1> QED BY <1>7 DEF all, tests

\* What is due of a batch, as far as its i-th request.
LEMMA DueUpTo ==
  ASSUME NEW items \in Seq(AnyItem), NEW i \in 1..Len(items), Reached(items, i)
  PROVE  /\ Fate(items[i]) = "none" => Reached(items, i + 1)
         /\ i \in Due(items) <=> Fate(items[i]) # "notify" /\ (Fate(items[i]) = "none" => ~isNotify(items[i]))
         /\ Fate(items[i]) # "none" => Due(items) \subseteq 1..i
         /\ 1..i = (1..(i - 1)) \cup {i}
         /\ i \notin 1..(i - 1)
<1>1. Len(items) \in Nat /\ DOMAIN items = 1..Len(items) BY LenProperties
<1>2. i \in Nat /\ 1..i = (1..(i - 1)) \cup {i} /\ i \notin 1..(i - 1) /\ i = (i + 1) - 1 BY <1>1
<1>3. Fate(items[i]) = "none" => Reached(items, i + 1) BY <1>2 DEF Reached
<1>4. i \in Due(items) <=> Fate(items[i]) # "notify" /\ (Fate(items[i]) = "none" => ~isNotify(items[i]))
      BY <1>1 DEF Due
<1>5. ASSUME Fate(items[i]) # "none", NEW j \in Due(items) PROVE j \in 1..i
  <2>1. j \in 1..Len(items) /\ \A k \in 1..(j - 1) : Fate(items[k]) = "none" BY <1>1 DEF Due, Reached
  <2>2. ~(i \in 1..(j - 1)) BY <1>5, <2>1
  <2> QED BY <1>1, <2>1, <2>2
<1> QED BY <1>2, <1>3, <1>4, <1>5

\* One more request of a batch is answered.
LEMMA AnswerMore ==
  ASSUME NEW responses \in Seq(Response), NEW response \in Response, NEW n, NEW items, NEW T, NEW i,
         i \notin T, Answer(responses, n, items, T), response.of = <<n, i>>, RightFor(response, items[i])
  PROVE  Append(responses, response) \in Seq(Response) /\ Answer(Append(responses, response), n, items, T \cup {i})
<1> DEFINE more == Append(responses, response)
           S == T \cup {i}
<1>1. /\ more \in Seq(Response) /\ Len(responses) \in Nat /\ DOMAIN responses = 1..Len(responses)
      /\ DOMAIN more = 1..(Len(responses) + 1) /\ more[Len(responses) + 1] = response
      /\ \A k \in DOMAIN responses : more[k] = responses[k]
      BY AppendProperties, LenProperties
<1> HIDE DEF more
<1>2. \A k \in DOMAIN more : k \in DOMAIN responses \/ k = Len(responses) + 1 BY <1>1
<1>3. ASSUME NEW k \in DOMAIN more PROVE more[k].of \in {n} \X S /\ RightFor(more[k], items[more[k].of[2]])
  <2>1. CASE k \in DOMAIN responses BY <1>1, <2>1 DEF Answer
  <2>2. CASE k = Len(responses) + 1
    <3>1. more[k] = response BY <1>1, <2>2
    <3>2. <<n, i>> \in {n} \X S /\ <<n, i>>[2] = i OBVIOUS
    <3> QED BY <3>1, <3>2
  <2> QED BY <1>2, <2>1, <2>2
<1>4. \A k \in DOMAIN responses : more[k].of # response.of
      BY <1>1 DEF Answer
<1>5. \A k, l \in DOMAIN more : more[k].of = more[l].of => k = l
      BY <1>1, <1>2, <1>4 DEF Answer
<1>6. ASSUME NEW j \in S PROVE \E k \in DOMAIN more : more[k].of = <<n, j>>
  <2>1. CASE j = i BY <1>1, <2>1
  <2>2. CASE j \in T
    <3>1. PICK k \in DOMAIN responses : responses[k].of = <<n, j>> BY <2>2 DEF Answer
    <3> QED BY <1>1, <3>1
  <2> QED BY <2>1, <2>2
<1> QED BY <1>1, <1>3, <1>5, <1>6 DEF Answer, more

\* Finitely many calls of a batch are in the hands of the user's threads.
LEMMA HoldersFinite ==
  ASSUME IsFiniteSet(pending), NEW n
  PROVE  IsFiniteSet(Holders(n)) /\ Cardinality(Holders(n)) \in Nat
<1>1. Holders(n) \in SUBSET pending BY DEF Holders
<1> QED BY <1>1, FS_Subset, FS_CardinalityType

\* The loop begins a batch: it holds the only reference, nothing is answered.
LEMMA BeginStep ==
  ASSUME ServerInv, ClientTypes, handler.at = "messages", Stream # <<>>, Stream[1].length # "none",
         IsBatch(DocOf(Stream[1].n), LengthOf(Stream[1].n)),
         handler' = [at |-> "batch", n |-> Stream[1].n, i |-> 1, items |-> DocOf(Stream[1].n).items],
         batches' = [k \in DOMAIN batches \cup {Stream[1].n} |->
                       IF k = Stream[1].n THEN [refs |-> 1, responses |-> <<>>] ELSE batches[k]],
         Drops(2), inbuf' \in Seq(Unit),
         UNCHANGED <<pending, conn, sends, wire, toServer, script, posted, calls>>
  PROVE  ServerInv'
<1>n. PICK n : n = Stream[1].n OBVIOUS
<1> DEFINE items == DocOf(n).items
<1>1. /\ ServerTypes /\ StreamInv /\ HandlerInv /\ BatchesInv /\ PendingInv
      /\ FramesInv /\ FramesOnce /\ LeftInv /\ ErrorInv
      BY DEF ServerInv
<1>2. inbuf \in Seq(Unit) /\ toServer \in Seq(Unit) BY <1>1 DEF ServerTypes
<1>3. /\ n \in Sent /\ n \in Nat /\ DocOf(n) \in AnyDoc /\ n \notin Taken /\ n \notin DOMAIN batches
      /\ \A q \in pending : q.of[1] # n
      /\ conn = "connected" => n \notin Answered
      /\ \A i \in DOMAIN Stream' : n # Stream'[i].n /\ (script # <<>> => n < Stream'[i].n)
      BY <1>n, HeadIsNew
<1>4. items \in Seq(AnyItem) /\ Len(items) \in Nat
      BY <1>n, <1>3, DocParts, LenProperties DEF IsBatch
<1>5. StreamInv' BY <1>1, <1>2, StreamDrops
<1>6. FramesKept /\ Sent' = Sent /\ \A k : DocOf(k)' = DocOf(k) /\ LengthOf(k)' = LengthOf(k)
      BY SameFrames DEF FramesKept
<1>7. FramesInv' /\ FramesOnce' /\ ErrorInv' /\ Answered' = Answered BY <1>1, NothingSent
<1>8. /\ handler'.at = "batch" /\ handler'.n = n /\ handler'.i = 1 /\ handler'.items = items
      /\ DOMAIN batches' = DOMAIN batches \cup {n}
      /\ batches'[n].refs = 1 /\ batches'[n].responses = <<>>
      /\ \A k \in DOMAIN batches : k # n => batches'[k] = batches[k]
      BY <1>n
<1>9. IsBatch(DocOf(n), LengthOf(n)) BY <1>n
<1>10. /\ <<>> \in Seq(Response) /\ \A x : x \notin DOMAIN <<>>
       BY EmptySeq, LenProperties
<1> HIDE DEF items
<1>11. Taken' \subseteq Taken \cup {n} BY <1>8 DEF Taken
<1>12. /\ \A k : Holders(k)' = Holders(k) /\ Held(k)' = Held(k)
       /\ \A k : k # n => ~InHand(k)' /\ ~InHand(k)
       /\ InHand(n)' /\ Holders(n)' = {} /\ Held(n)' = {}
  <2>1. \A k : Holders(k)' = Holders(k) /\ Held(k)' = Held(k) BY DEF Holders, Held
  <2>2. \A k : ~InHand(k) BY DEF InHand
  <2>3. InHand(n)' /\ \A k : k # n => ~InHand(k)' BY <1>8 DEF InHand
  <2>4. Holders(n) = {} BY <1>3 DEF Holders
  <2>5. Held(n) = {} BY <2>4 DEF Held
  <2> QED BY <2>1, <2>2, <2>3, <2>4, <2>5
<1>13. /\ \A k : k # n => Passed(k)' = Passed(k)
       /\ Passed(n)' = {}
  <2>1. \A k : k # n => Passed(k)' = DOMAIN DocOf(k).items BY <1>6, <1>12 DEF Passed
  <2>2. \A k : k # n => Passed(k) = DOMAIN DocOf(k).items BY <1>12 DEF Passed
  <2>3. Passed(n)' = 1..(1 - 1) BY <1>8, <1>12 DEF Passed
  <2> QED BY <2>1, <2>2, <2>3
<1>14. HandlerInv' BY <1>4, <1>6, <1>8 DEF HandlerInv, Reached, items
<1>15. BatchesInv'
  <2> SUFFICES ASSUME NEW k \in DOMAIN batches'
               PROVE  /\ k \in Sent' /\ IsBatch(DocOf(k)', LengthOf(k)')
                      /\ batches'[k].refs = Cardinality(Holders(k)') + (IF InHand(k)' THEN 1 ELSE 0)
                      /\ Held(k)' \subseteq Due(DocOf(k)'.items) \cap Passed(k)'
                      /\ Answer(batches'[k].responses, k, DocOf(k)'.items,
                                (Due(DocOf(k)'.items) \cap Passed(k)') \ Held(k)')
      BY DEF BatchesInv
  <2>1. CASE k = n
    <3>1. Cardinality({}) = 0 BY FS_EmptySet
    <3>2. batches'[n].refs = Cardinality(Holders(n)') + (IF InHand(n)' THEN 1 ELSE 0)
          BY <1>8, <1>12, <3>1
    <3>3. Answer(<<>>, n, items, {}) BY <1>10 DEF Answer
    <3>4. (Due(items) \cap Passed(n)') \ Held(n)' = {} BY <1>13
    <3> QED BY <1>3, <1>6, <1>8, <1>9, <1>12, <2>1, <3>2, <3>3, <3>4 DEF items
  <2>2. CASE k # n
    <3>1. k \in DOMAIN batches /\ batches'[k] = batches[k] BY <1>8, <2>2
    <3>2. /\ InHand(k)' <=> InHand(k)
          /\ Holders(k)' = Holders(k) /\ Held(k)' = Held(k) /\ Passed(k)' = Passed(k)
          BY <1>12, <1>13, <2>2
    <3> QED BY <1>1, <1>6, <3>1, <3>2 DEF BatchesInv
  <2> QED BY <2>1, <2>2
<1>16. PendingInv' BY <1>1, <1>3, <1>6, <1>8, <1>13 DEF PendingInv
<1>17. LeftInv'
  <2> DEFINE N == {n}
  <2>1. /\ Taken' \subseteq Taken \cup N
        /\ conn' = "connected" => conn = "connected" /\ Answered' \subseteq Answered \cup N
        /\ \A m \in N : \A i \in DOMAIN Stream' : m # Stream'[i].n /\ (script # <<>> => m < Stream'[i].n)
        BY <1>3, <1>7, <1>11
  <2> HIDE DEF N
  <2>2. /\ \A i \in DOMAIN Stream' : \A m \in Taken' : m # Stream'[i].n /\ (script' # <<>> => m < Stream'[i].n)
        /\ conn' = "connected" =>
             \A i \in DOMAIN Stream' : \A m \in Answered' : m # Stream'[i].n /\ (script' # <<>> => m < Stream'[i].n)
        BY <1>1, <1>2, <2>1, LeftBehind
  <2>3. ASSUME conn = "connected", NEW k \in DOMAIN batches', batches'[k].refs > 0 PROVE k \notin Answered
        BY <1>1, <1>3, <1>8, <2>3 DEF LeftInv
  <2> QED BY <1>1, <1>7, <2>2, <2>3 DEF LeftInv, Earlier
<1>18. ServerTypes'
  <2>1. batches' \in [DOMAIN batches' -> [refs : Int, responses : Seq(Response)]]
        BY <1>n, <1>1, <1>10 DEF ServerTypes
  <2>2. handler' = [at |-> handler'.at, n |-> handler'.n, i |-> handler'.i, items |-> handler'.items]
        BY <1>8
  <2> QED BY <1>1, <1>8, <2>1, <2>2 DEF ServerTypes
<1> QED BY <1>5, <1>7, <1>14, <1>15, <1>16, <1>17, <1>18 DEF ServerInv

\* A step that changes one batch, in the hands of the loop or of a user's
\* thread: the others stay as they are.
LEMMA OneBatch ==
  ASSUME BatchesInv, UNCHANGED <<script, posted, calls>>,
         NEW n \in DOMAIN batches, DOMAIN batches' = DOMAIN batches,
         \A k \in DOMAIN batches : k # n =>
            /\ batches'[k] = batches[k] /\ Holders(k)' = Holders(k) /\ Held(k)' = Held(k)
            /\ InHand(k)' <=> InHand(k)
            /\ Passed(k)' = Passed(k),
         batches'[n].refs = Cardinality(Holders(n)') + (IF InHand(n)' THEN 1 ELSE 0),
         Held(n)' \subseteq Due(DocOf(n).items) \cap Passed(n)',
         Answer(batches'[n].responses, n, DocOf(n).items, (Due(DocOf(n).items) \cap Passed(n)') \ Held(n)')
  PROVE  BatchesInv'
<1>1. Sent' = Sent /\ \A k : DocOf(k)' = DocOf(k) /\ LengthOf(k)' = LengthOf(k) BY SameFrames
<1> SUFFICES ASSUME NEW k \in DOMAIN batches'
             PROVE  /\ k \in Sent' /\ IsBatch(DocOf(k)', LengthOf(k)')
                    /\ batches'[k].refs = Cardinality(Holders(k)') + (IF InHand(k)' THEN 1 ELSE 0)
                    /\ Held(k)' \subseteq Due(DocOf(k)'.items) \cap Passed(k)'
                    /\ Answer(batches'[k].responses, k, DocOf(k)'.items,
                              (Due(DocOf(k)'.items) \cap Passed(k)') \ Held(k)')
    BY DEF BatchesInv
<1>2. k \in DOMAIN batches OBVIOUS
<1>3. CASE k = n BY <1>1, <1>2, <1>3 DEF BatchesInv
<1>4. CASE k # n
  <2>1. /\ batches'[k] = batches[k] /\ Holders(k)' = Holders(k) /\ Held(k)' = Held(k)
        /\ InHand(k)' <=> InHand(k)
        /\ Passed(k)' = Passed(k)
        BY <1>2, <1>4
  <2>2. /\ k \in Sent /\ IsBatch(DocOf(k), LengthOf(k))
        /\ batches[k].refs = Cardinality(Holders(k)) + (IF InHand(k) THEN 1 ELSE 0)
        /\ Held(k) \subseteq Due(DocOf(k).items) \cap Passed(k)
        /\ Answer(batches[k].responses, k, DocOf(k).items, (Due(DocOf(k).items) \cap Passed(k)) \ Held(k))
        BY <1>2 DEF BatchesInv
  <2>3. k \in Sent' /\ DocOf(k)' = DocOf(k) /\ LengthOf(k)' = LengthOf(k) BY <1>1, <2>2
  <2>4. k \in Sent' /\ IsBatch(DocOf(k)', LengthOf(k)') BY <2>2, <2>3
  <2>5. batches'[k].refs = Cardinality(Holders(k)') + (IF InHand(k)' THEN 1 ELSE 0) BY <2>1, <2>2
  <2>6. Held(k)' \subseteq Due(DocOf(k)'.items) \cap Passed(k)' BY <2>1, <2>2, <2>3
  <2>7. Answer(batches'[k].responses, k, DocOf(k)'.items,
               (Due(DocOf(k)'.items) \cap Passed(k)') \ Held(k)')
        BY <2>1, <2>2, <2>3
  <2> QED BY <2>4, <2>5, <2>6, <2>7
<1> QED BY <1>3, <1>4

\* The parts of a batch, after a response was added.
LEMMA ResponseAdded ==
  ASSUME batches \in [DOMAIN batches -> [refs : Int, responses : Seq(Response)]],
         NEW n \in DOMAIN batches, NEW response \in Response, addResponse(n, response)
  PROVE  /\ batches' \in [DOMAIN batches' -> [refs : Int, responses : Seq(Response)]]
         /\ DOMAIN batches' = DOMAIN batches
         /\ \A k \in DOMAIN batches : k # n => batches'[k] = batches[k]
         /\ batches'[n].refs = batches[n].refs
         /\ batches'[n].responses = Append(batches[n].responses, response)
<1>1. \A b \in [refs : Int, responses : Seq(Response)] :
        /\ [b EXCEPT !.responses = Append(@, response)] \in [refs : Int, responses : Seq(Response)]
        /\ [b EXCEPT !.responses = Append(@, response)].refs = b.refs
        /\ [b EXCEPT !.responses = Append(@, response)].responses = Append(b.responses, response)
      BY AppendProperties
<1>2. batches[n] \in [refs : Int, responses : Seq(Response)] OBVIOUS
<1>3. batches' = [batches EXCEPT ![n] = [batches[n] EXCEPT !.responses = Append(@, response)]]
      BY DEF addResponse
<1> DEFINE b == [batches[n] EXCEPT !.responses = Append(@, response)]
<1>4. /\ b \in [refs : Int, responses : Seq(Response)] /\ b.refs = batches[n].refs
      /\ b.responses = Append(batches[n].responses, response)
      BY <1>1, <1>2
<1> HIDE DEF b
<1>5. batches' = [batches EXCEPT ![n] = b] BY <1>3 DEF b
<1> QED BY <1>4, <1>5

\* The parts of a batch, after its references were counted up or down.
LEMMA RefsCounted ==
  ASSUME batches \in [DOMAIN batches -> [refs : Int, responses : Seq(Response)]],
         NEW n \in DOMAIN batches, NEW x \in Int, batches' = [batches EXCEPT ![n].refs = x]
  PROVE  /\ batches' \in [DOMAIN batches' -> [refs : Int, responses : Seq(Response)]]
         /\ DOMAIN batches' = DOMAIN batches
         /\ \A k \in DOMAIN batches : k # n => batches'[k] = batches[k]
         /\ batches'[n].refs = x
         /\ batches'[n].responses = batches[n].responses
<1>1. \A b \in [refs : Int, responses : Seq(Response)] :
        /\ [b EXCEPT !.refs = x] \in [refs : Int, responses : Seq(Response)]
        /\ [b EXCEPT !.refs = x].refs = x
        /\ [b EXCEPT !.refs = x].responses = b.responses
      OBVIOUS
<1>2. batches[n] \in [refs : Int, responses : Seq(Response)] OBVIOUS
<1> DEFINE b == [batches[n] EXCEPT !.refs = x]
<1>3. b \in [refs : Int, responses : Seq(Response)] /\ b.refs = x /\ b.responses = batches[n].responses
      BY <1>1, <1>2
<1>4. batches' = [batches EXCEPT ![n] = b] OBVIOUS
<1> HIDE DEF b
<1> QED BY <1>3, <1>4

\* A request of a batch: its fate ends the batch or not, and it is answered,
\* given to a user's thread, or due no answer.
LEMMA BatchItemStep ==
  ASSUME ServerInv, ClientTypes, handleBatchItem, UNCHANGED <<toServer, script, posted, calls>>
  PROVE  ServerInv'
<1>a. PICK n : n = handler.n OBVIOUS
<1>b. PICK i : i = handler.i OBVIOUS
<1>c. PICK items : items = handler.items OBVIOUS
<1> DEFINE r == items[i]
           tag == <<n, i>>
           tests == <<Test(~r.object, "request", "INVALID_REQUEST")>> \o handleOne(r)
           code == ThrownCode(tests)
           D == Due(items)
<1>1. /\ ServerTypes /\ StreamInv /\ HandlerInv /\ BatchesInv /\ PendingInv
      /\ FramesInv /\ FramesOnce /\ LeftInv /\ ErrorInv
      BY DEF ServerInv
<1>2. inbuf \in Seq(Unit) /\ toServer \in Seq(Unit) BY <1>1 DEF ServerTypes
<1>3. /\ handler.at = "batch" /\ i <= Len(items)
      /\ \/ /\ Thrown(tests) = "request" /\ leaveBatch
            /\ addResponse(n, wrapException(tag, code)) /\ UNCHANGED pending
         \/ Thrown(tests) = "notify" /\ leaveBatch /\ UNCHANGED <<batches, pending>>
         \/ Thrown(tests) = "none" /\ isNotify(r) /\ nextItem /\ UNCHANGED <<batches, pending>>
         \/ Thrown(tests) = "none" /\ ~isNotify(r) /\ nextItem /\ invokeInBatch(tag, r)
      /\ UNCHANGED <<inbuf, conn, sends, wire>>
      BY <1>a, <1>b, <1>c DEF handleBatchItem
<1>4. /\ n \in DOMAIN batches /\ items = DocOf(n).items /\ i \in 1..(Len(items) + 1)
      /\ Reached(items, i)
      /\ handler = [at |-> "batch", n |-> n, i |-> i, items |-> items]
      BY <1>1, <1>3, <1>a, <1>b, <1>c DEF HandlerInv, ServerTypes
<1>5. n \in Sent /\ IsBatch(DocOf(n), LengthOf(n)) /\ n \in Nat /\ DocOf(n) \in AnyDoc
      BY <1>1, <1>4, FrameParts DEF BatchesInv
<1>6. items \in Seq(AnyItem) /\ Len(items) \in Nat /\ DOMAIN items = 1..Len(items)
      BY <1>4, <1>5, DocParts, LenProperties DEF IsBatch
<1>7. i \in 1..Len(items) /\ i \in Nat /\ r \in AnyItem BY <1>3, <1>4, <1>6
<1>8. /\ Thrown(tests) = Fate(r) /\ Fate(r) \in {"none", "request", "notify"}
      /\ Fate(r) = "request" => code \in Faults(r) /\ code \in Code
      /\ Fate(r) = "none" => Faults(r) = {}
      BY <1>7, FateOfItem
<1>9. /\ Fate(r) = "none" => Reached(items, i + 1)
      /\ i \in D <=> Fate(r) # "notify" /\ (Fate(r) = "none" => ~isNotify(r))
      /\ Fate(r) # "none" => D \subseteq 1..i
      /\ 1..i = (1..(i - 1)) \cup {i}
      /\ i \notin 1..(i - 1)
      BY <1>4, <1>6, <1>7, DueUpTo
<1> HIDE DEF tests, code, r, D
<1>10. FramesKept /\ Sent' = Sent /\ \A k : DocOf(k)' = DocOf(k) /\ LengthOf(k)' = LengthOf(k)
       BY SameFrames DEF FramesKept
<1>11. FramesInv' /\ FramesOnce' /\ ErrorInv' /\ Answered' = Answered BY <1>1, <1>3, NothingSent
<1>12. Drops(0) /\ Stream' = Stream /\ inbuf' = inbuf /\ conn' = conn
       BY <1>2, <1>3, DropsNothing DEF Stream
<1>13. StreamInv' BY <1>1, <1>2, <1>12, StreamDrops
<1>14. Passed(n) = 1..(i - 1) /\ InHand(n) /\ \A k : k # n => ~InHand(k)
       BY <1>a, <1>b, <1>3 DEF Passed, InHand
<1>15. IsFiniteSet(Holders(n)) /\ Cardinality(Holders(n)) \in Nat BY <1>1, HoldersFinite DEF ServerTypes
<1>16. /\ batches[n].refs = Cardinality(Holders(n)) + 1 /\ batches[n].refs > 0
       /\ Held(n) \subseteq D \cap (1..(i - 1))
       /\ Answer(batches[n].responses, n, items, (D \cap (1..(i - 1))) \ Held(n))
  <2>1. /\ batches[n].refs = Cardinality(Holders(n)) + (IF InHand(n) THEN 1 ELSE 0)
        /\ Held(n) \subseteq Due(DocOf(n).items) \cap Passed(n)
        /\ Answer(batches[n].responses, n, DocOf(n).items, (Due(DocOf(n).items) \cap Passed(n)) \ Held(n))
        BY <1>1, <1>4 DEF BatchesInv
  <2> QED BY <1>4, <1>14, <1>15, <2>1 DEF D
<1>17. batches \in [DOMAIN batches -> [refs : Int, responses : Seq(Response)]]
       /\ batches[n].responses \in Seq(Response)
       BY <1>1, <1>4 DEF ServerTypes
<1>18. \A p \in pending : p.of # tag /\ (p.of[1] = n /\ p.batch => p.of[2] \in 1..(i - 1))
  <2> SUFFICES ASSUME NEW p \in pending PROVE p.of # tag /\ (p.of[1] = n /\ p.batch => p.of[2] \in 1..(i - 1))
      OBVIOUS
  <2>1. p.batch => p.of[2] \in Passed(p.of[1]) BY <1>1 DEF PendingInv
  <2>2. ~p.batch => IsSingle(DocOf(p.of[1]), LengthOf(p.of[1])) BY <1>1 DEF PendingInv
  <2>3. ~IsSingle(DocOf(n), LengthOf(n)) BY <1>5 DEF IsBatch, IsSingle
  <2>4. p.batch \in BOOLEAN BY <1>1 DEF ServerTypes
  <2>5. tag[1] = n /\ tag[2] = i OBVIOUS
  <2> HIDE DEF tag
  <2> QED BY <1>9, <1>14, <2>1, <2>2, <2>3, <2>4, <2>5
\* What every case leaves to show.
<1> DEFINE Types ==
              /\ handler'.at \in {"batch", "batch end"}
              /\ handler' = [at |-> handler'.at, n |-> n, i |-> handler'.i, items |-> items]
              /\ handler'.n = n /\ handler'.items = items
              /\ pending' \in SUBSET [of : Nat \X Nat, id : Int, batch : BOOLEAN, step : {"held", "called"}]
              /\ IsFiniteSet(pending')
              /\ batches' \in [DOMAIN batches' -> [refs : Int, responses : Seq(Response)]]
              /\ DOMAIN batches' = DOMAIN batches
           Place ==
              /\ handler'.i \in 1..(Len(items) + 1)
              /\ handler'.at = "batch" => Reached(items, handler'.i)
           Batch ==
              /\ \A k \in DOMAIN batches : k # n =>
                   batches'[k] = batches[k] /\ Holders(k)' = Holders(k) /\ Held(k)' = Held(k)
              /\ batches'[n].refs = Cardinality(Holders(n)') + 1
              /\ 1..(i - 1) \subseteq Passed(n)'
              /\ Held(n)' \subseteq D \cap Passed(n)'
              /\ Answer(batches'[n].responses, n, items, (D \cap Passed(n)') \ Held(n)')
           Calling ==
              /\ \A p, q \in pending' : p.of = q.of => p = q
              /\ \A p \in pending' : p \in pending \/
                   /\ p.batch = TRUE /\ p.of = tag /\ p.id = r.id /\ Fate(r) = "none" /\ i \in D \cap Passed(n)'
<1>19. ASSUME Types, Place, Batch, Calling PROVE ServerInv'
  <2>1. HandlerInv' BY <1>4, <1>10, <1>19 DEF HandlerInv
  <2>2. InHand(n)' /\ \A k : k # n => ~InHand(k)' BY <1>19 DEF InHand
  <2>3. \A k : k # n => Passed(k)' = Passed(k)
    <3>1. \A k : k # n => Passed(k)' = DOMAIN DocOf(k).items BY <1>10, <2>2 DEF Passed
    <3>2. \A k : k # n => Passed(k) = DOMAIN DocOf(k).items BY <1>14 DEF Passed
    <3> QED BY <3>1, <3>2
  <2>4. BatchesInv'
    <3>1. ASSUME NEW k \in DOMAIN batches, k # n
          PROVE  /\ batches'[k] = batches[k] /\ Holders(k)' = Holders(k) /\ Held(k)' = Held(k)
                 /\ InHand(k)' <=> InHand(k)
                 /\ Passed(k)' = Passed(k)
          BY <1>14, <1>19, <2>2, <2>3, <3>1
    <3>2. /\ batches'[n].refs = Cardinality(Holders(n)') + (IF InHand(n)' THEN 1 ELSE 0)
          /\ Held(n)' \subseteq Due(DocOf(n).items) \cap Passed(n)'
          /\ Answer(batches'[n].responses, n, DocOf(n).items, (Due(DocOf(n).items) \cap Passed(n)') \ Held(n)')
          BY <1>4, <1>19, <2>2 DEF D
    <3> HIDE DEF Types, Place, Batch, Calling
    <3>3. DOMAIN batches' = DOMAIN batches BY <1>19 DEF Types
    <3> QED BY <1>1, <1>4, <3>1, <3>2, <3>3, OneBatch
  <2>5. PendingInv'
    <3> SUFFICES ASSUME NEW p \in pending'
                 PROVE  LET k == p.of[1] IN
                        IF p.batch
                        THEN /\ k \in DOMAIN batches
                             /\ p.of[2] \in Due(DocOf(k).items) \cap Passed(k)'
                             /\ p.id = DocOf(k).items[p.of[2]].id
                             /\ Fate(DocOf(k).items[p.of[2]]) = "none"
                        ELSE /\ k \in Sent /\ IsSingle(DocOf(k), LengthOf(k)) /\ p.of[2] = 1 /\ p.step = "held"
                             /\ DocOf(k).item.object /\ Fate(DocOf(k).item) = "none"
                             /\ ~isNotify(DocOf(k).item) /\ p.id = DocOf(k).item.id
        BY <1>10, <1>19 DEF PendingInv
    <3>1. CASE p \in pending
      <4>1. p.of[1] = n /\ p.batch => p.of[2] \in Passed(n)' BY <1>18, <1>19, <3>1
      <4> QED BY <1>1, <2>3, <3>1, <4>1 DEF PendingInv
    <3>2. CASE p \notin pending
      <4>1. p.batch = TRUE /\ p.of = tag /\ p.id = r.id /\ Fate(r) = "none" /\ i \in D \cap Passed(n)'
            BY <1>19, <3>2
      <4>2. p.of[1] = n /\ p.of[2] = i BY <4>1
      <4> QED BY <1>4, <4>1, <4>2 DEF D, r
    <3> QED BY <3>1, <3>2
  <2>6. Taken' = Taken
    <3>1. ASSUME NEW p \in pending' PROVE p \in pending \/ p.of[1] = n
      <4>1. p.of = tag => p.of[1] = n OBVIOUS
      <4> QED BY <1>19, <4>1
    <3>2. \A p \in pending : p \in pending' \/ p.of[1] \in DOMAIN batches'
          BY <1>1, <1>3, <1>19 DEF invokeInBatch
    <3>3. DOMAIN batches' = DOMAIN batches BY <1>19
    <3> HIDE DEF Types, Place, Batch, Calling
    <3> QED BY <1>4, <3>1, <3>2, <3>3 DEF Taken
  <2>7. LeftInv'
    <3>1. conn = "connected" => n \notin Answered BY <1>1, <1>4, <1>16 DEF LeftInv
    <3>2. ASSUME conn = "connected", NEW p \in pending', ~p.batch PROVE p.of[1] \notin Answered
          BY <1>1, <1>19, <3>2 DEF LeftInv
    <3>3. ASSUME conn = "connected", NEW k \in DOMAIN batches', batches'[k].refs > 0 PROVE k \notin Answered
          BY <1>1, <1>19, <3>1, <3>3 DEF LeftInv
    <3> QED BY <1>1, <1>11, <1>12, <2>6, <3>2, <3>3 DEF LeftInv, Earlier
  <2>8. ServerTypes' BY <1>1, <1>3, <1>19 DEF ServerTypes
  <2> QED BY <1>11, <1>13, <2>1, <2>4, <2>5, <2>7, <2>8 DEF ServerInv
<1>20. CASE Thrown(tests) = "request" /\ leaveBatch /\ addResponse(n, wrapException(tag, code)) /\ UNCHANGED pending
  <2>1. handler' = [at |-> "batch end", n |-> n, i |-> i, items |-> items] BY <1>4, <1>20 DEF leaveBatch
  <2>2. Passed(n)' = 1..Len(items) BY <1>4, <1>6, <1>10, <2>1 DEF Passed, InHand
  <2>3. \A k : Holders(k)' = Holders(k) /\ Held(k)' = Held(k) BY <1>20 DEF Holders, Held
  <2> DEFINE response == wrapException(tag, code)
  <2>4. response \in Response /\ response.of = tag /\ RightFor(response, r)
    <3>1. tag \in Nat \X Nat BY <1>5, <1>7
    <3> QED BY <1>8, <1>20, <3>1 DEF wrapException, Response, RightFor, NoId
  <2>5. i \in D /\ D \subseteq 1..i BY <1>8, <1>9, <1>20
  <2> HIDE DEF response
  <2>6. /\ batches' \in [DOMAIN batches' -> [refs : Int, responses : Seq(Response)]]
        /\ DOMAIN batches' = DOMAIN batches
        /\ \A k \in DOMAIN batches : k # n => batches'[k] = batches[k]
        /\ batches'[n].refs = batches[n].refs
        /\ batches'[n].responses = Append(batches[n].responses, response)
        BY <1>4, <1>17, <1>20, <2>4, ResponseAdded DEF response
  <2> DEFINE T == (D \cap (1..(i - 1))) \ Held(n)
  <2>7. (D \cap Passed(n)') \ Held(n)' = T \cup {i} /\ i \notin T
        BY <1>7, <1>9, <1>16, <2>2, <2>3, <2>5
  <2>8. Answer(batches[n].responses, n, items, T) BY <1>16
  <2> HIDE DEF T
  <2>9. Answer(batches'[n].responses, n, items, T \cup {i})
    <3> DEFINE old == batches[n].responses
    <3>1. /\ old \in Seq(Response) /\ Answer(old, n, items, T) /\ response \in Response /\ i \notin T
          /\ response.of = <<n, i>> /\ RightFor(response, items[i])
          BY <1>17, <2>4, <2>7, <2>8 DEF r
    <3> HIDE DEF old
    <3>2. Answer(Append(old, response), n, items, T \cup {i}) BY <3>1, AnswerMore
    <3> QED BY <2>6, <3>2 DEF old
  <2>10. Types BY <1>1, <1>20, <2>1, <2>6 DEF ServerTypes
  <2>11. Place BY <1>4, <2>1
  <2>12. 1..(i - 1) \subseteq Passed(n)' /\ Held(n)' \subseteq D \cap Passed(n)'
         BY <1>6, <1>7, <1>16, <2>2, <2>3
  <2>13. Batch BY <1>16, <2>3, <2>6, <2>7, <2>9, <2>12
  <2>14. Calling BY <1>1, <1>20 DEF PendingInv
  <2> HIDE DEF Types, Place, Batch, Calling
  <2> QED BY <1>19, <2>10, <2>11, <2>13, <2>14
<1>21. CASE Thrown(tests) = "notify" /\ leaveBatch /\ UNCHANGED <<batches, pending>>
  <2>1. handler' = [at |-> "batch end", n |-> n, i |-> i, items |-> items] BY <1>4, <1>21 DEF leaveBatch
  <2>2. Passed(n)' = 1..Len(items) BY <1>4, <1>6, <1>10, <2>1 DEF Passed, InHand
  <2>3. \A k : Holders(k)' = Holders(k) /\ Held(k)' = Held(k) BY <1>21 DEF Holders, Held
  <2>4. i \notin D /\ D \subseteq 1..i BY <1>8, <1>9, <1>21
  <2>5. 1..(i - 1) \subseteq Passed(n)' /\ D \cap Passed(n)' = D \cap (1..(i - 1))
        BY <1>6, <1>7, <1>9, <2>2, <2>4
  <2>6. Types BY <1>1, <1>17, <1>21, <2>1 DEF ServerTypes
  <2>7. Place BY <1>4, <2>1
  <2>8. Batch BY <1>16, <1>21, <2>3, <2>5
  <2>9. Calling BY <1>1, <1>21 DEF PendingInv
  <2> HIDE DEF Types, Place, Batch, Calling
  <2> QED BY <1>19, <2>6, <2>7, <2>8, <2>9
<1>n. ASSUME Thrown(tests) = "none", nextItem
      PROVE  /\ handler' = [at |-> "batch", n |-> n, i |-> i + 1, items |-> items]
             /\ Passed(n)' = (1..(i - 1)) \cup {i} /\ Place
  <2>1. handler' = [at |-> "batch", n |-> n, i |-> i + 1, items |-> items] BY <1>4, <1>n DEF nextItem
  <2>2. Passed(n)' = 1..((i + 1) - 1) BY <2>1 DEF Passed, InHand
  <2>3. (i + 1) - 1 = i /\ i + 1 \in 1..(Len(items) + 1) BY <1>6, <1>7
  <2> QED BY <1>8, <1>9, <1>n, <2>1, <2>2, <2>3
<1>22. CASE Thrown(tests) = "none" /\ isNotify(r) /\ nextItem /\ UNCHANGED <<batches, pending>>
  <2>1. /\ handler' = [at |-> "batch", n |-> n, i |-> i + 1, items |-> items]
        /\ Passed(n)' = (1..(i - 1)) \cup {i} /\ Place
        BY <1>22, <1>n
  <2>2. \A k : Holders(k)' = Holders(k) /\ Held(k)' = Held(k) BY <1>22 DEF Holders, Held
  <2>3. i \notin D BY <1>8, <1>9, <1>22
  <2>4. 1..(i - 1) \subseteq Passed(n)' /\ D \cap Passed(n)' = D \cap (1..(i - 1)) BY <2>1, <2>3
  <2>5. Types BY <1>1, <1>17, <1>22, <2>1 DEF ServerTypes
  <2>6. Batch BY <1>16, <1>22, <2>2, <2>4
  <2>7. Calling BY <1>1, <1>22 DEF PendingInv
  <2> HIDE DEF Types, Place, Batch, Calling
  <2> QED BY <1>19, <2>1, <2>5, <2>6, <2>7
<1>23. CASE Thrown(tests) = "none" /\ ~isNotify(r) /\ nextItem /\ addResponse(tag[1], resultOf(tag, r.id)) /\ UNCHANGED pending
  <2>1. /\ handler' = [at |-> "batch", n |-> n, i |-> i + 1, items |-> items]
        /\ Passed(n)' = (1..(i - 1)) \cup {i} /\ Place
        BY <1>23, <1>n
  <2>2. \A k : Holders(k)' = Holders(k) /\ Held(k)' = Held(k) BY <1>23 DEF Holders, Held
  <2> DEFINE response == resultOf(tag, r.id)
  <2>3. response \in Response /\ response.of = tag /\ RightFor(response, r)
    <3>1. tag \in Nat \X Nat BY <1>5, <1>7
    <3>2. r.id \in Int BY <1>7 DEF AnyItem
    <3> QED BY <1>8, <1>23, <3>1, <3>2 DEF resultOf, Response, RightFor, Code
  <2>4. i \in D BY <1>8, <1>9, <1>23
  <2>5. addResponse(n, response) BY <1>23
  <2> HIDE DEF response
  <2>6. /\ batches' \in [DOMAIN batches' -> [refs : Int, responses : Seq(Response)]]
        /\ DOMAIN batches' = DOMAIN batches
        /\ \A k \in DOMAIN batches : k # n => batches'[k] = batches[k]
        /\ batches'[n].refs = batches[n].refs
        /\ batches'[n].responses = Append(batches[n].responses, response)
        BY <1>4, <1>17, <2>3, <2>5, ResponseAdded
  <2> DEFINE T == (D \cap (1..(i - 1))) \ Held(n)
  <2>7. (D \cap Passed(n)') \ Held(n)' = T \cup {i} /\ i \notin T
        BY <1>9, <1>16, <2>1, <2>2, <2>4
  <2>8. Answer(batches[n].responses, n, items, T) BY <1>16
  <2> HIDE DEF T
  <2>9. Answer(batches'[n].responses, n, items, T \cup {i})
    <3> DEFINE old == batches[n].responses
    <3>1. /\ old \in Seq(Response) /\ Answer(old, n, items, T) /\ response \in Response /\ i \notin T
          /\ response.of = <<n, i>> /\ RightFor(response, items[i])
          BY <1>17, <2>3, <2>7, <2>8 DEF r
    <3> HIDE DEF old
    <3>2. Answer(Append(old, response), n, items, T \cup {i}) BY <3>1, AnswerMore
    <3> QED BY <2>6, <3>2 DEF old
  <2>10. Types BY <1>1, <1>23, <2>1, <2>6 DEF ServerTypes
  <2>11. 1..(i - 1) \subseteq Passed(n)' /\ Held(n)' \subseteq D \cap Passed(n)'
         BY <1>16, <2>1, <2>2
  <2>12. Batch BY <1>16, <2>2, <2>6, <2>7, <2>9, <2>11
  <2>13. Calling BY <1>1, <1>23 DEF PendingInv
  <2> HIDE DEF Types, Place, Batch, Calling
  <2> QED BY <1>19, <2>1, <2>10, <2>12, <2>13
<1>24. CASE /\ Thrown(tests) = "none" /\ ~isNotify(r) /\ nextItem
            /\ pending' = pending \union {[of |-> tag, id |-> r.id, batch |-> TRUE, step |-> "held"]}
            /\ batches' = [batches EXCEPT ![tag[1]].refs = @ + 1]
  <2>1. /\ handler' = [at |-> "batch", n |-> n, i |-> i + 1, items |-> items]
        /\ Passed(n)' = (1..(i - 1)) \cup {i} /\ Place
        BY <1>24, <1>n
  <2> DEFINE p == [of |-> tag, id |-> r.id, batch |-> TRUE, step |-> "held"]
             x == batches[n].refs + 1
  <2>2. /\ p.of = tag /\ p.of[1] = n /\ p.of[2] = i /\ p.id = r.id /\ p.batch = TRUE /\ p.step = "held"
        /\ p \in [of : Nat \X Nat, id : Int, batch : BOOLEAN, step : {"held", "called"}]
        BY <1>5, <1>7 DEF AnyItem
  <2>3. i \in D BY <1>8, <1>9, <1>24
  <2>4. pending' = pending \cup {p} /\ p \notin pending BY <1>18, <1>24, <2>2
  <2>5. x \in Int /\ batches' = [batches EXCEPT ![n].refs = x]
    <3>1. tag[1] = n OBVIOUS
    <3>2. batches' = [batches EXCEPT ![n].refs = @ + 1] BY <1>24, <3>1
    <3> QED BY <1>15, <1>16, <3>2
  <2> HIDE DEF p, x
  <2>6. /\ batches' \in [DOMAIN batches' -> [refs : Int, responses : Seq(Response)]]
        /\ DOMAIN batches' = DOMAIN batches
        /\ \A k \in DOMAIN batches : k # n => batches'[k] = batches[k]
        /\ batches'[n].refs = x
        /\ batches'[n].responses = batches[n].responses
        BY <1>4, <1>17, <2>5, RefsCounted
  <2>7. /\ Holders(n)' = Holders(n) \cup {p} /\ p \notin Holders(n)
        /\ \A k : k # n => Holders(k)' = Holders(k)
        BY <2>2, <2>4 DEF Holders
  <2>8. Held(n)' = Held(n) \cup {i} /\ \A k : k # n => Held(k)' = Held(k)
        BY <2>2, <2>7 DEF Held
  <2>9. Cardinality(Holders(n)') = Cardinality(Holders(n)) + 1 BY <1>15, <2>7, FS_AddElement
  <2>10. (D \cap Passed(n)') \ Held(n)' = (D \cap (1..(i - 1))) \ Held(n)
         BY <1>9, <2>1, <2>8
  <2>11. 1..(i - 1) \subseteq Passed(n)' /\ Held(n)' \subseteq D \cap Passed(n)'
         BY <1>16, <2>1, <2>3, <2>8
  <2>12. Batch BY <1>15, <1>16, <2>6, <2>7, <2>8, <2>9, <2>10, <2>11 DEF x
  <2>13. Types
    <3>1. IsFiniteSet(pending') BY <1>1, <2>4, FS_AddElement DEF ServerTypes
    <3> QED BY <1>1, <2>1, <2>2, <2>4, <2>6, <3>1 DEF ServerTypes
  <2>14. Calling BY <1>1, <1>8, <1>18, <1>24, <2>1, <2>2, <2>3, <2>4 DEF PendingInv
  <2> HIDE DEF Types, Place, Batch, Calling
  <2> QED BY <1>19, <2>1, <2>12, <2>13, <2>14
<1> QED BY <1>3, <1>20, <1>21, <1>22, <1>23, <1>24 DEF invokeInBatch

\* The array of the last reference has what is due.
LEMMA LastAnswer ==
  ASSUME ServerInv, ClientTypes, NEW n \in DOMAIN batches, Held(n) = {}, Passed(n) = DOMAIN DocOf(n).items
  PROVE  LET frame == Array(n, batches[n].responses) IN
         frame \in Frame /\ RightFrame(frame, DocOf(n), LengthOf(n)) /\ frame.n = n /\ frame.batch
<1> DEFINE doc == DocOf(n)
           length == LengthOf(n)
           responses == batches[n].responses
<1>1. n \in Sent /\ IsBatch(doc, length) BY DEF ServerInv, BatchesInv
<1>2. n \in Nat BY <1>1, FrameParts
<1>3. responses \in Seq(Response) BY DEF ServerInv, ServerTypes
<1>4. Answer(responses, n, doc.items, (Due(doc.items) \cap Passed(n)) \ Held(n)) BY DEF ServerInv, BatchesInv
<1>5. (Due(doc.items) \cap Passed(n)) \ Held(n) = Due(doc.items) BY DEF Due
<1>6. Answer(responses, n, doc.items, Due(doc.items)) BY <1>4, <1>5
<1> HIDE DEF doc, length, responses
<1>7. /\ Array(n, responses) \in Frame /\ RightFrame(Array(n, responses), doc, length)
      /\ Array(n, responses).n = n /\ Array(n, responses).batch
      BY <1>1, <1>2, <1>3, <1>6, RightArray
<1> QED BY <1>7 DEF doc, length, responses

\* A batch is answered when its last reference goes, so that it stays answered.
LEMMA LeftAfterRelease ==
  ASSUME ServerInv, NEW n \in DOMAIN batches, batches[n].refs > 0, DOMAIN batches' = DOMAIN batches,
         \A k \in DOMAIN batches : k # n => batches'[k] = batches[k],
         batches'[n].refs = batches[n].refs - 1, pending' \subseteq pending,
         Answered' \subseteq Answered \cup {n}, batches[n].refs # 1 => Answered' = Answered,
         UNCHANGED <<inbuf, toServer, conn, script>>
  PROVE  LeftInv'
<1>1. ServerTypes /\ LeftInv /\ PendingInv /\ BatchesInv BY DEF ServerInv
<1>2. batches[n].refs \in Int BY <1>1 DEF ServerTypes
<1>3. Stream' = Stream BY DEF Stream
<1>4. Taken' \subseteq Taken /\ n \in Taken BY DEF Taken
<1>5. \A p \in pending : ~p.batch => p.of[1] # n
      BY <1>1 DEF PendingInv, BatchesInv, IsBatch, IsSingle
<1>6. \A i \in DOMAIN Stream : Earlier(n, Stream[i].n) BY <1>1, <1>4 DEF LeftInv
<1>7. ASSUME conn = "connected", NEW p \in pending', ~p.batch PROVE p.of[1] \notin Answered'
      BY <1>1, <1>5, <1>7 DEF LeftInv
<1>8. ASSUME conn = "connected", NEW k \in DOMAIN batches', batches'[k].refs > 0 PROVE k \notin Answered'
  <2>1. CASE k = n BY <1>1, <1>2, <1>8, <2>1 DEF LeftInv
  <2>2. CASE k # n BY <1>1, <1>8, <2>2 DEF LeftInv
  <2> QED BY <2>1, <2>2
<1> QED BY <1>1, <1>3, <1>4, <1>6, <1>7, <1>8 DEF LeftInv, Earlier

\* The loop leaves a batch, and answers it if no user's thread is left with it.
LEMMA ReleaseBatchStep ==
  ASSUME ServerInv, ClientTypes, releaseBatch, UNCHANGED <<toServer, script, posted, calls>>
  PROVE  ServerInv'
<1>a. PICK n : n = handler.n OBVIOUS
<1> DEFINE items == DocOf(n).items
           frame == Array(n, batches[n].responses)
           x == batches[n].refs - 1
<1>1. /\ ServerTypes /\ StreamInv /\ HandlerInv /\ BatchesInv /\ PendingInv
      /\ FramesInv /\ FramesOnce /\ LeftInv /\ ErrorInv
      BY DEF ServerInv
<1>2. inbuf \in Seq(Unit) /\ toServer \in Seq(Unit) /\ wire \in Seq(Frame) /\ sends \in Seq(Frame)
      BY <1>1 DEF ServerTypes
<1>3. /\ handler.at = "batch end" \/ (handler.at = "batch" /\ handler.i > Len(handler.items))
      /\ batches' = [batches EXCEPT ![n].refs = @ - 1]
      /\ IF batches[n].refs = 1 THEN sendJson(frame) ELSE UNCHANGED wire
      /\ handler' = [at |-> "messages"]
      /\ UNCHANGED <<inbuf, pending, conn, sends>>
      BY <1>a DEF releaseBatch
<1>4. /\ n \in DOMAIN batches /\ handler.items = items /\ handler.i \in 1..(Len(items) + 1)
      /\ InHand(n) /\ \A k : k # n => ~InHand(k)
      BY <1>1, <1>3, <1>a DEF HandlerInv, InHand
<1>5. n \in Sent /\ DocOf(n) \in AnyDoc /\ IsBatch(DocOf(n), LengthOf(n))
      BY <1>1, <1>4, FrameParts DEF BatchesInv
<1>6. Len(items) \in Nat /\ DOMAIN items = 1..Len(items)
      BY <1>5, DocParts, LenProperties DEF IsBatch
<1>7. Passed(n) = DOMAIN items
  <2>1. CASE handler.at = "batch end" BY <2>1 DEF Passed
  <2>2. CASE handler.at = "batch" /\ handler.i > Len(handler.items)
    <3>1. handler.i - 1 = Len(items) BY <1>4, <1>6, <2>2
    <3> QED BY <1>4, <1>6, <2>2, <3>1 DEF Passed
  <2> QED BY <1>3, <2>1, <2>2
<1>8. FramesKept /\ Sent' = Sent /\ \A k : DocOf(k)' = DocOf(k) /\ LengthOf(k)' = LengthOf(k)
      BY SameFrames DEF FramesKept
<1>9. /\ \A k : Holders(k)' = Holders(k) /\ Held(k)' = Held(k)
      /\ \A k : ~InHand(k)'
      BY <1>3 DEF Holders, Held, InHand
<1>10. \A k : Passed(k)' = DOMAIN DocOf(k).items BY <1>8, <1>9 DEF Passed
<1>11. IsFiniteSet(Holders(n)) /\ Cardinality(Holders(n)) \in Nat BY <1>1, HoldersFinite DEF ServerTypes
<1>12. /\ batches[n].refs = Cardinality(Holders(n)) + 1 /\ batches[n].refs > 0
       /\ Held(n) \subseteq Due(items) \cap Passed(n)
       /\ Answer(batches[n].responses, n, items, (Due(items) \cap Passed(n)) \ Held(n))
  <2>1. /\ batches[n].refs = Cardinality(Holders(n)) + (IF InHand(n) THEN 1 ELSE 0)
        /\ Held(n) \subseteq Due(DocOf(n).items) \cap Passed(n)
        /\ Answer(batches[n].responses, n, DocOf(n).items, (Due(DocOf(n).items) \cap Passed(n)) \ Held(n))
        BY <1>1, <1>4 DEF BatchesInv
  <2> QED BY <1>4, <1>11, <2>1
<1>13. batches \in [DOMAIN batches -> [refs : Int, responses : Seq(Response)]] BY <1>1 DEF ServerTypes
<1>14. x \in Int /\ batches' = [batches EXCEPT ![n].refs = x]
  <2>1. x \in Int BY <1>11, <1>12
  <2>2. batches' = [batches EXCEPT ![n].refs = @ - 1] BY <1>3
  <2> QED BY <2>1, <2>2
<1> HIDE DEF x
<1>15. /\ batches' \in [DOMAIN batches' -> [refs : Int, responses : Seq(Response)]]
       /\ DOMAIN batches' = DOMAIN batches
       /\ \A k \in DOMAIN batches : k # n => batches'[k] = batches[k]
       /\ batches'[n].refs = x
       /\ batches'[n].responses = batches[n].responses
       BY <1>4, <1>13, <1>14, RefsCounted
<1>16. BatchesInv'
  <2>1. ASSUME NEW k \in DOMAIN batches, k # n
        PROVE  /\ batches'[k] = batches[k] /\ Holders(k)' = Holders(k) /\ Held(k)' = Held(k)
               /\ InHand(k)' <=> InHand(k)
               /\ Passed(k)' = Passed(k)
    <3>1. Passed(k) = DOMAIN DocOf(k).items BY <1>4, <2>1 DEF Passed
    <3> QED BY <1>4, <1>9, <1>10, <1>15, <2>1, <3>1
  <2>2. /\ batches'[n].refs = Cardinality(Holders(n)') + (IF InHand(n)' THEN 1 ELSE 0)
        /\ Held(n)' \subseteq Due(DocOf(n).items) \cap Passed(n)'
        /\ Answer(batches'[n].responses, n, DocOf(n).items, (Due(DocOf(n).items) \cap Passed(n)') \ Held(n)')
    <3>1. Passed(n)' = Passed(n) /\ Holders(n)' = Holders(n) /\ Held(n)' = Held(n) /\ ~InHand(n)'
          BY <1>7, <1>9, <1>10
    <3>2. batches'[n].refs = Cardinality(Holders(n)) BY <1>11, <1>12, <1>15 DEF x
    <3>3. Cardinality(Holders(n)) + 0 = Cardinality(Holders(n)) BY <1>11
    <3> QED BY <1>12, <1>15, <3>1, <3>2, <3>3
  <2> QED BY <1>1, <1>4, <1>15, <2>1, <2>2, OneBatch
<1>17. PendingInv'
  <2>1. \A p \in pending : p.batch => p.of[2] \in Passed(p.of[1])'
    <3> SUFFICES ASSUME NEW p \in pending, p.batch PROVE p.of[2] \in DOMAIN DocOf(p.of[1]).items
        BY <1>10
    <3>1. p.of[2] \in Due(DocOf(p.of[1]).items) BY <1>1 DEF PendingInv
    <3> QED BY <3>1 DEF Due
  <2> QED BY <1>1, <1>3, <1>8, <1>15, <2>1 DEF PendingInv
<1>18. HandlerInv' BY <1>3 DEF HandlerInv
<1>19. /\ wire' \in Seq(Frame) /\ FramesInv' /\ FramesOnce' /\ ErrorInv'
       /\ Answered' \subseteq Answered \cup {n} /\ (batches[n].refs # 1 => Answered' = Answered)
  <2>1. CASE batches[n].refs # 1
    <3>1. UNCHANGED <<wire, sends, script, posted, calls>> BY <1>3, <2>1
    <3>2. FramesInv' /\ FramesOnce' /\ ErrorInv' /\ Answered' = Answered BY <1>1, <1>3, <3>1, NothingSent
    <3> QED BY <1>2, <3>1, <3>2
  <2>2. CASE batches[n].refs = 1
    <3>1. Holders(n) = {} BY <1>11, <1>12, <2>2, FS_EmptySet
    <3>2. Held(n) = {} BY <3>1 DEF Held
    <3>3. frame \in Frame /\ RightFrame(frame, DocOf(n), LengthOf(n)) /\ frame.n = n /\ frame.batch
          BY <1>4, <1>7, <3>2, LastAnswer
    <3>4. sendJson(frame) BY <1>3, <2>2
    <3>5. conn = "connected" => n \notin Answered BY <1>1, <1>4, <1>12 DEF LeftInv
    <3> HIDE DEF frame
    <3>6. /\ wire' \in Seq(Frame) /\ FramesInv' /\ FramesOnce' /\ ErrorInv'
          /\ Answered' \subseteq Answered \cup {n}
          BY <1>1, <1>2, <1>3, <1>5, <3>3, <3>4, <3>5, LoopSends
    <3> QED BY <2>2, <3>6
  <2> QED BY <2>1, <2>2
<1>20. StreamInv'
  <2>1. Drops(0) /\ conn' = conn BY <1>2, <1>3, DropsNothing DEF Stream
  <2> QED BY <1>1, <1>2, <2>1, StreamDrops
<1>21. LeftInv' BY <1>3, <1>4, <1>12, <1>15, <1>19, LeftAfterRelease DEF x
<1>22. ServerTypes' BY <1>1, <1>3, <1>15, <1>19 DEF ServerTypes
<1> QED BY <1>16, <1>17, <1>18, <1>19, <1>20, <1>21, <1>22 DEF ServerInv

-----------------------------------------------------------------------------
(* The user's threads, and the queue of the loop *)

\* A callback in the hands of a user's thread has these parts.
LEMMA PendingParts ==
  ASSUME ServerTypes, NEW p \in pending
  PROVE  /\ p \in [of : Nat \X Nat, id : Int, batch : BOOLEAN, step : {"held", "called"}]
         /\ p.of = <<p.of[1], p.of[2]>> /\ p.of[1] \in Nat /\ p.of[2] \in Nat
<1>1. p \in [of : Nat \X Nat, id : Int, batch : BOOLEAN, step : {"held", "called"}]
      BY DEF ServerTypes
<1>2. p.of \in Nat \X Nat BY <1>1
<1>3. \A x \in Nat \X Nat : x = <<x[1], x[2]>> /\ x[1] \in Nat /\ x[2] \in Nat OBVIOUS
<1> QED BY <1>1, <1>2, <1>3

\* A user's thread answers a call of a batch.
LEMMA CompleteBatchStep ==
  ASSUME ServerInv, ClientTypes, NEW p \in pending, p.batch, complete(p),
         UNCHANGED <<toServer, script, posted, calls>>
  PROVE  ServerInv'
<1>a. PICK n : n = p.of[1] OBVIOUS
<1>b. PICK i : i = p.of[2] OBVIOUS
<1> DEFINE items == DocOf(n).items
           response == resultOf(p.of, p.id)
           q == [p EXCEPT !.step = "called"]
           D == Due(items)
           Call_ == [of : Nat \X Nat, id : Int, batch : BOOLEAN, step : {"held", "called"}]
<1>1. /\ ServerTypes /\ StreamInv /\ HandlerInv /\ BatchesInv /\ PendingInv
      /\ FramesInv /\ FramesOnce /\ LeftInv /\ ErrorInv
      BY DEF ServerInv
<1>2. inbuf \in Seq(Unit) /\ toServer \in Seq(Unit) BY <1>1 DEF ServerTypes
<1>3. /\ p.step = "held" /\ addResponse(n, response)
      /\ pending' = (pending \ {p}) \cup {q}
      /\ UNCHANGED <<inbuf, handler, conn, wire, sends>>
      BY <1>a DEF complete
<1>4. p \in Call_ /\ p.of = <<n, i>> /\ n \in Nat /\ i \in Nat /\ p.batch = TRUE
  <2>1. /\ p \in Call_ /\ p.of = <<p.of[1], p.of[2]>> /\ p.of[1] \in Nat /\ p.of[2] \in Nat
        BY <1>1, PendingParts
  <2>2. p.batch = TRUE BY <2>1
  <2> QED BY <1>a, <1>b, <2>1, <2>2
<1>5. /\ n \in DOMAIN batches /\ i \in D \cap Passed(n) /\ p.id = items[i].id /\ Fate(items[i]) = "none"
      /\ \A r, s \in pending : r.of = s.of => r = s
      BY <1>1, <1>a, <1>b DEF PendingInv
<1>6. n \in Sent /\ DocOf(n) \in AnyDoc /\ IsBatch(DocOf(n), LengthOf(n))
      BY <1>1, <1>5, FrameParts DEF BatchesInv
<1>7. items \in Seq(AnyItem) /\ i \in DOMAIN items /\ items[i] \in AnyItem
  <2>1. items \in Seq(AnyItem) BY <1>6, DocParts DEF IsBatch
  <2>2. i \in DOMAIN items BY <1>5 DEF Due
  <2> QED BY <2>1, <2>2, LenProperties
<1>8. q \in Call_ /\ q.of = p.of /\ q.id = p.id /\ q.batch = TRUE /\ q.step = "called" /\ q \notin pending
  <2>1. q \in Call_ /\ q.of = p.of /\ q.id = p.id /\ q.batch = TRUE /\ q.step = "called" BY <1>4
  <2>2. q # p BY <1>3, <2>1
  <2> QED BY <1>5, <2>1, <2>2
<1>9. response \in Response /\ response.of = <<n, i>> /\ RightFor(response, items[i])
  <2>1. Faults(items[i]) = {} BY <1>5, <1>7, FateOfItem
  <2>2. ~isNotify(items[i]) BY <1>5 DEF Due
  <2>3. response \in Response /\ response.of = <<n, i>> /\ response.kind = "result"
        BY <1>4 DEF resultOf, Response, Code
  <2> QED BY <1>5, <2>1, <2>2, <2>3 DEF RightFor
<1> HIDE DEF q, response, D
<1>10. batches \in [DOMAIN batches -> [refs : Int, responses : Seq(Response)]] /\ batches[n].responses \in Seq(Response)
       BY <1>1, <1>5 DEF ServerTypes
<1>11. /\ batches' \in [DOMAIN batches' -> [refs : Int, responses : Seq(Response)]]
       /\ DOMAIN batches' = DOMAIN batches
       /\ \A k \in DOMAIN batches : k # n => batches'[k] = batches[k]
       /\ batches'[n].refs = batches[n].refs
       /\ batches'[n].responses = Append(batches[n].responses, response)
       BY <1>3, <1>5, <1>9, <1>10, ResponseAdded
<1>12. FramesKept /\ Sent' = Sent /\ \A k : DocOf(k)' = DocOf(k) /\ LengthOf(k)' = LengthOf(k)
       BY SameFrames DEF FramesKept
<1>13. FramesInv' /\ FramesOnce' /\ ErrorInv' /\ Answered' = Answered BY <1>1, <1>3, NothingSent
<1>14. StreamInv' /\ Stream' = Stream
  <2>1. Drops(0) /\ conn' = conn /\ Stream' = Stream BY <1>2, <1>3, DropsNothing DEF Stream
  <2> QED BY <1>1, <1>2, <2>1, StreamDrops
<1>15. /\ \A k : InHand(k)' <=> InHand(k)
       /\ \A k : Passed(k)' = Passed(k)
  <2>1. \A k : InHand(k)' <=> InHand(k) BY <1>3 DEF InHand
  <2> QED BY <1>3, <1>12, <2>1 DEF Passed
<1>16. /\ Holders(n)' = (Holders(n) \ {p}) \cup {q} /\ p \in Holders(n) /\ q \notin Holders(n)
       /\ \A k : k # n => Holders(k)' = Holders(k)
       BY <1>3, <1>4, <1>8, <1>a DEF Holders
<1>17. /\ Held(n)' = Held(n) \ {i} /\ i \in Held(n)
       /\ \A k : k # n => Held(k)' = Held(k)
  <2>1. \A k : k # n => Held(k)' = Held(k) BY <1>16 DEF Held
  <2>2. i \in Held(n) BY <1>3, <1>4, <1>16, <1>b DEF Held
  <2>3. ASSUME NEW j \in Held(n)' PROVE j \in Held(n) /\ j # i
    <3>1. PICK r \in Holders(n)' : r.step = "held" /\ r.of[2] = j BY DEF Held
    <3>2. r \in Holders(n) \ {p} BY <1>8, <1>16, <3>1
    <3>3. r \in pending /\ r.of[1] = n BY <3>2 DEF Holders
    <3>4. r.of = <<n, j>> BY <1>1, <3>1, <3>3, PendingParts
    <3>5. j # i BY <1>4, <1>5, <3>2, <3>3, <3>4
    <3> QED BY <3>1, <3>2, <3>5 DEF Held
  <2>4. ASSUME NEW j \in Held(n) \ {i} PROVE j \in Held(n)'
    <3>1. PICK r \in Holders(n) : r.step = "held" /\ r.of[2] = j BY DEF Held
    <3>2. r # p BY <1>b, <3>1
    <3> QED BY <1>16, <3>1, <3>2 DEF Held
  <2> QED BY <2>1, <2>2, <2>3, <2>4
<1>18. IsFiniteSet(Holders(n)) /\ Cardinality(Holders(n)') = Cardinality(Holders(n))
  <2>1. IsFiniteSet(Holders(n)) /\ Cardinality(Holders(n)) \in Nat BY <1>1, HoldersFinite DEF ServerTypes
  <2>2. IsFiniteSet(Holders(n) \ {p}) /\ Cardinality(Holders(n) \ {p}) = Cardinality(Holders(n)) - 1
        BY <1>16, <2>1, FS_RemoveElement
  <2> DEFINE R == Holders(n) \ {p}
  <2>3. q \notin R BY <1>16
  <2>4. IsFiniteSet(R) /\ Cardinality(R) = Cardinality(Holders(n)) - 1 BY <2>2
  <2>5. Holders(n)' = R \cup {q} BY <1>16
  <2> HIDE DEF R
  <2>6. Cardinality(R \cup {q}) = Cardinality(R) + 1 BY <2>3, <2>4, FS_AddElement
  <2> QED BY <2>1, <2>4, <2>5, <2>6
<1>19. /\ batches[n].refs = Cardinality(Holders(n)) + (IF InHand(n) THEN 1 ELSE 0)
       /\ Held(n) \subseteq D \cap Passed(n)
       /\ Answer(batches[n].responses, n, items, (D \cap Passed(n)) \ Held(n))
       BY <1>1, <1>5 DEF BatchesInv, D
<1>20. BatchesInv'
  <2>1. ASSUME NEW k \in DOMAIN batches, k # n
        PROVE  /\ batches'[k] = batches[k] /\ Holders(k)' = Holders(k) /\ Held(k)' = Held(k)
               /\ InHand(k)' <=> InHand(k)
               /\ Passed(k)' = Passed(k)
        BY <1>11, <1>15, <1>16, <1>17, <2>1
  <2>2. batches'[n].refs = Cardinality(Holders(n)') + (IF InHand(n)' THEN 1 ELSE 0)
        BY <1>11, <1>15, <1>18, <1>19
  <2>3. Held(n)' \subseteq Due(DocOf(n).items) \cap Passed(n)' BY <1>15, <1>17, <1>19 DEF D
  <2>4. Answer(batches'[n].responses, n, DocOf(n).items, (Due(DocOf(n).items) \cap Passed(n)') \ Held(n)')
    <3> DEFINE T == (D \cap Passed(n)) \ Held(n)
               old == batches[n].responses
    <3>1. (D \cap Passed(n)') \ Held(n)' = T \cup {i} /\ i \notin T BY <1>5, <1>15, <1>17
    <3>2. old \in Seq(Response) /\ Answer(old, n, items, T) /\ response \in Response
          /\ response.of = <<n, i>> /\ RightFor(response, items[i])
          BY <1>9, <1>10, <1>19
    <3> HIDE DEF T, old, items
    <3>3. Answer(Append(old, response), n, items, T \cup {i}) BY <3>1, <3>2, AnswerMore
    <3> QED BY <1>11, <3>1, <3>3 DEF D, old, items
  <2> QED BY <1>1, <1>5, <1>11, <2>1, <2>2, <2>3, <2>4, OneBatch
<1>21. PendingInv'
  <2>1. \A r, s \in pending' : r.of = s.of => r = s BY <1>3, <1>5, <1>8
  <2>2. ASSUME NEW r \in pending'
        PROVE  LET k == r.of[1] IN
               IF r.batch
               THEN /\ k \in DOMAIN batches'
                    /\ r.of[2] \in Due(DocOf(k)'.items) \cap Passed(k)'
                    /\ r.id = DocOf(k)'.items[r.of[2]].id
                    /\ Fate(DocOf(k)'.items[r.of[2]]) = "none"
               ELSE /\ k \in Sent' /\ IsSingle(DocOf(k)', LengthOf(k)') /\ r.of[2] = 1 /\ r.step = "held"
                    /\ DocOf(k)'.item.object /\ Fate(DocOf(k)'.item) = "none"
                    /\ ~isNotify(DocOf(k)'.item) /\ r.id = DocOf(k)'.item.id
    <3>1. CASE r = q
      <4>1. r.batch = TRUE /\ r.of[1] = n /\ r.of[2] = i /\ r.id = p.id BY <1>8, <1>a, <1>b, <3>1
      <4> QED BY <1>5, <1>11, <1>12, <1>15, <4>1 DEF D
    <3>2. CASE r \in pending BY <1>1, <1>11, <1>12, <1>15, <3>2 DEF PendingInv
    <3> QED BY <1>3, <3>1, <3>2
  <2> QED BY <2>1, <2>2 DEF PendingInv
<1>22. HandlerInv' BY <1>1, <1>3, <1>11, <1>12 DEF HandlerInv
<1>23. Taken' = Taken
  <2>1. \A r \in pending' : r.of[1] \in Taken BY <1>3, <1>5, <1>8, <1>a DEF Taken
  <2>2. \A r \in pending : r.of[1] \in Taken' BY <1>3, <1>5, <1>11, <1>a DEF Taken
  <2>3. \A k : k \in DOMAIN batches <=> k \in DOMAIN batches' BY <1>11
  <2> QED BY <2>1, <2>2, <2>3 DEF Taken
<1>24. LeftInv'
  <2>1. ASSUME conn = "connected", NEW r \in pending', ~r.batch PROVE r.of[1] \notin Answered
        BY <1>1, <1>3, <1>8, <2>1 DEF LeftInv
  <2>2. ASSUME conn = "connected", NEW k \in DOMAIN batches', batches'[k].refs > 0 PROVE k \notin Answered
        BY <1>1, <1>11, <2>2 DEF LeftInv
  <2> QED BY <1>1, <1>3, <1>13, <1>14, <1>23, <2>1, <2>2 DEF LeftInv, Earlier
<1>25. ServerTypes'
  <2>1. IsFiniteSet(pending')
    <3>1. IsFiniteSet(pending \ {p}) BY <1>1, FS_RemoveElement DEF ServerTypes
    <3> QED BY <1>3, <3>1, FS_AddElement
  <2>2. pending' \in SUBSET Call_ BY <1>1, <1>3, <1>8 DEF ServerTypes
  <2> QED BY <1>1, <1>3, <1>11, <2>1, <2>2 DEF ServerTypes
<1> QED BY <1>13, <1>14, <1>20, <1>21, <1>22, <1>24, <1>25 DEF ServerInv

\* A user's thread answers a call that was no batch.
LEMMA CompleteSingleStep ==
  ASSUME ServerInv, ClientTypes, NEW p \in pending, ~p.batch, complete(p),
         UNCHANGED <<toServer, script, posted, calls>>
  PROVE  ServerInv'
<1>a. PICK n : n = p.of[1] OBVIOUS
<1> DEFINE frame == Single(resultOf(p.of, p.id))
<1>1. /\ ServerTypes /\ StreamInv /\ HandlerInv /\ BatchesInv /\ PendingInv
      /\ FramesInv /\ FramesOnce /\ LeftInv /\ ErrorInv
      BY DEF ServerInv
<1>2. inbuf \in Seq(Unit) /\ toServer \in Seq(Unit) /\ wire \in Seq(Frame) /\ sends \in Seq(Frame)
      BY <1>1 DEF ServerTypes
<1>3. /\ sendJsonLater(frame) /\ pending' = pending \ {p}
      /\ UNCHANGED <<inbuf, handler, conn, wire, batches>>
      BY DEF complete
<1>4. /\ n \in Sent /\ IsSingle(DocOf(n), LengthOf(n)) /\ p.of[2] = 1
      /\ Fate(DocOf(n).item) = "none" /\ ~isNotify(DocOf(n).item) /\ p.id = DocOf(n).item.id
      /\ \A r, s \in pending : r.of = s.of => r = s
      BY <1>1, <1>a DEF PendingInv
<1>5. n \in Nat /\ DocOf(n) \in AnyDoc BY <1>4, FrameParts
<1>6. p.of = <<n, 1>> BY <1>1, <1>4, <1>a, PendingParts
<1>7. /\ frame \in Frame /\ RightFrame(frame, DocOf(n), LengthOf(n)) /\ frame.n = n /\ ~frame.batch
      /\ frame.responses[1].kind = "result"
  <2> DEFINE doc == DocOf(n)
             length == LengthOf(n)
  <2>1. n \in Nat /\ doc \in AnyDoc /\ IsSingle(doc, length) /\ Fate(doc.item) = "none" /\ ~isNotify(doc.item)
        BY <1>4, <1>5
  <2>2. frame = Single(resultOf(<<n, 1>>, doc.item.id)) BY <1>4, <1>6
  <2> HIDE DEF doc, length
  <2>3. /\ Single(resultOf(<<n, 1>>, doc.item.id)) \in Frame
        /\ RightFrame(Single(resultOf(<<n, 1>>, doc.item.id)), doc, length)
        /\ Single(resultOf(<<n, 1>>, doc.item.id)).n = n
        /\ ~Single(resultOf(<<n, 1>>, doc.item.id)).batch
        /\ Single(resultOf(<<n, 1>>, doc.item.id)).responses[1].kind = "result"
        BY <2>1, RightResult
  <2> HIDE DEF frame
  <2> QED BY <2>2, <2>3 DEF doc, length
<1> HIDE DEF frame
<1>8. conn = "connected" => n \notin Answered BY <1>1, <1>a DEF LeftInv
<1>9. /\ sends' \in Seq(Frame) /\ FramesInv' /\ FramesOnce' /\ ErrorInv'
      /\ Answered' \subseteq Answered \cup {n}
      BY <1>1, <1>2, <1>3, <1>4, <1>7, <1>8, UserSends
<1>10. Sent' = Sent /\ \A k : DocOf(k)' = DocOf(k) /\ LengthOf(k)' = LengthOf(k) BY SameFrames
<1>11. StreamInv' /\ Stream' = Stream
  <2>1. Drops(0) /\ conn' = conn /\ Stream' = Stream BY <1>2, <1>3, DropsNothing DEF Stream
  <2> QED BY <1>1, <1>2, <2>1, StreamDrops
<1>12. /\ \A k : Holders(k)' = Holders(k) /\ Held(k)' = Held(k)
       /\ \A k : InHand(k)' <=> InHand(k)
       /\ \A k : Passed(k)' = Passed(k)
  <2>1. \A k : Holders(k)' = Holders(k) BY <1>3 DEF Holders
  <2>2. \A k : Held(k)' = Held(k) BY <2>1 DEF Held
  <2>3. \A k : InHand(k)' <=> InHand(k) BY <1>3 DEF InHand
  <2> QED BY <1>3, <1>10, <2>1, <2>2, <2>3 DEF Passed
<1>13. HandlerInv' BY <1>1, <1>3, <1>10 DEF HandlerInv
<1>14. BatchesInv' BY <1>1, <1>3, <1>10, <1>12 DEF BatchesInv
<1>15. PendingInv' BY <1>1, <1>3, <1>10, <1>12 DEF PendingInv
<1>16. Taken' \subseteq Taken /\ n \in Taken BY <1>3, <1>a DEF Taken
<1>17. LeftInv'
  <2>1. ASSUME conn = "connected", NEW r \in pending', ~r.batch PROVE r.of[1] \notin Answered'
    <3>1. r.of[1] \notin Answered /\ r.of[2] = 1 /\ r \in pending /\ r # p
          BY <1>1, <1>3, <2>1 DEF LeftInv, PendingInv
    <3>2. r.of = <<r.of[1], 1>> BY <1>1, <3>1, PendingParts
    <3>3. r.of[1] # n BY <1>4, <1>6, <3>1, <3>2
    <3> QED BY <1>9, <3>1, <3>3
  <2>2. ASSUME conn = "connected", NEW k \in DOMAIN batches', batches'[k].refs > 0 PROVE k \notin Answered'
    <3>1. k \notin Answered BY <1>1, <1>3, <2>2 DEF LeftInv
    <3>2. IsBatch(DocOf(k), LengthOf(k)) BY <1>1, <1>3 DEF BatchesInv
    <3>3. k # n BY <1>4, <3>2 DEF IsBatch, IsSingle
    <3> QED BY <1>9, <3>1, <3>3
  <2>3. \A j \in DOMAIN Stream : Earlier(n, Stream[j].n) BY <1>1, <1>16 DEF LeftInv
  <2> QED BY <1>1, <1>3, <1>9, <1>11, <1>16, <2>1, <2>2, <2>3 DEF LeftInv, Earlier
<1>18. ServerTypes'
  <2>1. IsFiniteSet(pending') BY <1>1, <1>3, FS_RemoveElement DEF ServerTypes
  <2> QED BY <1>1, <1>3, <1>9, <2>1 DEF ServerTypes
<1> QED BY <1>9, <1>11, <1>13, <1>14, <1>15, <1>17, <1>18 DEF ServerInv

\* A user's thread lets go of a call of a batch that it has answered, and
\* answers the batch if no one else is left with it.
LEMMA ReleaseStep ==
  ASSUME ServerInv, ClientTypes, NEW p \in pending, release(p), UNCHANGED <<toServer, script, posted, calls>>
  PROVE  ServerInv'
<1>a. PICK n : n = p.of[1] OBVIOUS
<1> DEFINE items == DocOf(n).items
           frame == Array(n, batches[n].responses)
           x == batches[n].refs - 1
<1>1. /\ ServerTypes /\ StreamInv /\ HandlerInv /\ BatchesInv /\ PendingInv
      /\ FramesInv /\ FramesOnce /\ LeftInv /\ ErrorInv
      BY DEF ServerInv
<1>2. inbuf \in Seq(Unit) /\ toServer \in Seq(Unit) /\ wire \in Seq(Frame) /\ sends \in Seq(Frame)
      BY <1>1 DEF ServerTypes
<1>3. /\ p.step = "called" /\ pending' = pending \ {p}
      /\ batches' = [batches EXCEPT ![n].refs = @ - 1]
      /\ IF batches[n].refs = 1 THEN sendJsonLater(frame) ELSE UNCHANGED sends
      /\ UNCHANGED <<inbuf, handler, conn, wire>>
      BY <1>a DEF release
<1>4. p.batch /\ n \in DOMAIN batches BY <1>1, <1>3, <1>a DEF PendingInv
<1>5. n \in Sent /\ IsBatch(DocOf(n), LengthOf(n)) BY <1>1, <1>4 DEF BatchesInv
<1>6. Sent' = Sent /\ \A k : DocOf(k)' = DocOf(k) /\ LengthOf(k)' = LengthOf(k) BY SameFrames
<1>7. /\ \A k : InHand(k)' <=> InHand(k)
      /\ \A k : Passed(k)' = Passed(k)
  <2>1. \A k : InHand(k)' <=> InHand(k) BY <1>3 DEF InHand
  <2> QED BY <1>3, <1>6, <2>1 DEF Passed
<1>8. /\ Holders(n)' = Holders(n) \ {p} /\ p \in Holders(n)
      /\ \A k : k # n => Holders(k)' = Holders(k)
      BY <1>3, <1>4, <1>a DEF Holders
<1>9. \A k : Held(k)' = Held(k)
  <2>1. Held(n)' = Held(n) BY <1>3, <1>8 DEF Held
  <2>2. \A k : k # n => Held(k)' = Held(k) BY <1>8 DEF Held
  <2> QED BY <2>1, <2>2
<1>10. /\ IsFiniteSet(Holders(n)) /\ Cardinality(Holders(n)) \in Nat
       /\ Cardinality(Holders(n)') = Cardinality(Holders(n)) - 1
       /\ Cardinality(Holders(n)) > 0
       /\ Cardinality(Holders(n)) = 1 => Holders(n) = {p}
  <2>1. IsFiniteSet(Holders(n)) /\ Cardinality(Holders(n)) \in Nat BY <1>1, HoldersFinite DEF ServerTypes
  <2>2. IsFiniteSet(Holders(n) \ {p}) /\ Cardinality(Holders(n) \ {p}) = Cardinality(Holders(n)) - 1
        BY <1>8, <2>1, FS_RemoveElement
  <2> DEFINE R == Holders(n) \ {p}
             c == Cardinality(Holders(n))
  <2>3. Holders(n) = R \cup {p} BY <1>8
  <2>4. IsFiniteSet(R) /\ Cardinality(R) = c - 1 /\ c \in Nat BY <2>1, <2>2
  <2> HIDE DEF R, c
  <2>5. Cardinality(R) \in Nat /\ (Cardinality(R) = 0 <=> R = {}) BY <2>4, FS_EmptySet, FS_CardinalityType
  <2>6. c > 0 /\ (c = 1 => R = {}) BY <2>4, <2>5
  <2> QED BY <1>8, <2>1, <2>2, <2>3, <2>6 DEF c
<1>11. /\ batches[n].refs = Cardinality(Holders(n)) + (IF InHand(n) THEN 1 ELSE 0)
       /\ Held(n) \subseteq Due(items) \cap Passed(n)
       /\ Answer(batches[n].responses, n, items, (Due(items) \cap Passed(n)) \ Held(n))
       BY <1>1, <1>4 DEF BatchesInv
<1>12. batches[n].refs > 0 BY <1>10, <1>11
<1>13. batches \in [DOMAIN batches -> [refs : Int, responses : Seq(Response)]] BY <1>1 DEF ServerTypes
<1>14. x \in Int /\ batches' = [batches EXCEPT ![n].refs = x]
  <2>1. x \in Int BY <1>10, <1>11
  <2>2. batches' = [batches EXCEPT ![n].refs = @ - 1] BY <1>3
  <2> QED BY <2>1, <2>2
<1> HIDE DEF x
<1>15. /\ batches' \in [DOMAIN batches' -> [refs : Int, responses : Seq(Response)]]
       /\ DOMAIN batches' = DOMAIN batches
       /\ \A k \in DOMAIN batches : k # n => batches'[k] = batches[k]
       /\ batches'[n].refs = x
       /\ batches'[n].responses = batches[n].responses
       BY <1>4, <1>13, <1>14, RefsCounted
<1>16. BatchesInv'
  <2>1. ASSUME NEW k \in DOMAIN batches, k # n
        PROVE  /\ batches'[k] = batches[k] /\ Holders(k)' = Holders(k) /\ Held(k)' = Held(k)
               /\ InHand(k)' <=> InHand(k)
               /\ Passed(k)' = Passed(k)
        BY <1>7, <1>8, <1>9, <1>15, <2>1
  <2>2. batches'[n].refs = Cardinality(Holders(n)') + (IF InHand(n)' THEN 1 ELSE 0)
        BY <1>7, <1>10, <1>11, <1>15 DEF x
  <2>3. /\ Held(n)' \subseteq Due(DocOf(n).items) \cap Passed(n)'
        /\ Answer(batches'[n].responses, n, DocOf(n).items, (Due(DocOf(n).items) \cap Passed(n)') \ Held(n)')
        BY <1>7, <1>9, <1>11, <1>15
  <2> QED BY <1>1, <1>4, <1>15, <2>1, <2>2, <2>3, OneBatch
<1>17. PendingInv'
  <2>1. \A r, s \in pending' : r.of = s.of => r = s BY <1>1, <1>3 DEF PendingInv
  <2>2. \A r \in pending' : r \in pending BY <1>3
  <2> QED BY <1>1, <1>6, <1>7, <1>15, <2>1, <2>2 DEF PendingInv
<1>18. HandlerInv' BY <1>1, <1>3, <1>6, <1>15 DEF HandlerInv
<1>19. /\ sends' \in Seq(Frame) /\ FramesInv' /\ FramesOnce' /\ ErrorInv'
       /\ Answered' \subseteq Answered \cup {n} /\ (batches[n].refs # 1 => Answered' = Answered)
  <2>1. CASE batches[n].refs # 1
    <3>1. UNCHANGED <<wire, sends, script, posted, calls>> BY <1>3, <2>1
    <3>2. FramesInv' /\ FramesOnce' /\ ErrorInv' /\ Answered' = Answered BY <1>1, <1>3, <3>1, NothingSent
    <3> QED BY <1>2, <3>1, <3>2
  <2>2. CASE batches[n].refs = 1
    <3>1. Holders(n) = {p} /\ ~InHand(n) BY <1>10, <1>11, <2>2
    <3>2. Held(n) = {} /\ Passed(n) = DOMAIN DocOf(n).items BY <1>3, <3>1 DEF Held, Passed
    <3>3. frame \in Frame /\ RightFrame(frame, DocOf(n), LengthOf(n)) /\ frame.n = n /\ frame.batch
          BY <1>4, <3>2, LastAnswer
    <3>4. sendJsonLater(frame) BY <1>3, <2>2
    <3>5. conn = "connected" => n \notin Answered BY <1>1, <1>4, <1>12 DEF LeftInv
    <3>6. UNCHANGED <<wire, conn, script, posted, calls>> BY <1>3
    <3> HIDE DEF frame
    <3>7. /\ sends' \in Seq(Frame) /\ FramesInv' /\ FramesOnce' /\ ErrorInv'
          /\ Answered' \subseteq Answered \cup {n}
          BY <1>1, <1>2, <1>5, <3>3, <3>4, <3>5, <3>6, UserSends
    <3> QED BY <2>2, <3>7
  <2> QED BY <2>1, <2>2
<1>20. StreamInv'
  <2>1. Drops(0) /\ conn' = conn BY <1>2, <1>3, DropsNothing DEF Stream
  <2> QED BY <1>1, <1>2, <2>1, StreamDrops
<1>21. LeftInv'
  <2>1. pending' \subseteq pending /\ UNCHANGED <<inbuf, toServer, conn, script>> BY <1>3
  <2>2. batches'[n].refs = batches[n].refs - 1 BY <1>15 DEF x
  <2> QED BY <1>4, <1>12, <1>15, <1>19, <2>1, <2>2, LeftAfterRelease
<1>22. ServerTypes'
  <2>1. IsFiniteSet(pending') BY <1>1, <1>3, FS_RemoveElement DEF ServerTypes
  <2>2. /\ pending' \in SUBSET [of : Nat \X Nat, id : Int, batch : BOOLEAN, step : {"held", "called"}]
        /\ wire' \in Seq(Frame)
        BY <1>1, <1>3 DEF ServerTypes
  <2> QED BY <1>1, <1>3, <1>15, <1>19, <2>1, <2>2 DEF ServerTypes
<1> QED BY <1>16, <1>17, <1>18, <1>19, <1>20, <1>21, <1>22 DEF ServerInv

\* A queued frame is sent: it moves to the wire, or is lost with the connection.
LEMMA SendInLoopStep ==
  ASSUME ServerInv, ClientTypes, sendInLoop, UNCHANGED <<toServer, script, posted, calls>>
  PROVE  ServerInv'
<1> DEFINE frame == Head(sends)
<1>1. /\ ServerTypes /\ StreamInv /\ HandlerInv /\ BatchesInv /\ PendingInv
      /\ FramesInv /\ FramesOnce /\ LeftInv /\ ErrorInv
      BY DEF ServerInv
<1>2. inbuf \in Seq(Unit) /\ toServer \in Seq(Unit) /\ wire \in Seq(Frame) /\ sends \in Seq(Frame)
      BY <1>1 DEF ServerTypes
<1>3. /\ sends # <<>> /\ sends' = Tail(sends)
      /\ wire' = Append(wire, frame) \/ wire' = wire
      /\ UNCHANGED <<inbuf, handler, pending, batches, conn>>
      BY DEF sendInLoop
<1>4. Sent' = Sent /\ \A k : DocOf(k)' = DocOf(k) /\ LengthOf(k)' = LengthOf(k) BY SameFrames
<1>5. /\ Len(sends) \in Nat /\ DOMAIN sends = 1..Len(sends) /\ 1 \in DOMAIN sends /\ frame = sends[1]
      /\ sends' \in Seq(Frame) /\ DOMAIN sends' = 1..(Len(sends) - 1)
      /\ \A g \in DOMAIN sends' : g + 1 \in DOMAIN sends /\ g + 1 # 1 /\ g \in Nat /\ sends'[g] = sends[g + 1]
  <2>1. Len(sends) \in Nat /\ DOMAIN sends = 1..Len(sends) /\ Len(sends) > 0
        BY <1>2, <1>3, EmptySeq, LenProperties
  <2>2. /\ frame = sends[1] /\ sends' \in Seq(Frame) /\ Len(sends') = Len(sends) - 1
        /\ \A g \in 1..(Len(sends) - 1) : sends'[g] = sends[g + 1]
        BY <1>2, <1>3, <2>1, HeadTailProperties
  <2> QED BY <2>1, <2>2, LenProperties
<1> HIDE DEF frame
<1>6. frame \in Frame /\ frame.n \in Sent /\ RightFrame(frame, DocOf(frame.n), LengthOf(frame.n))
      /\ (~frame.batch => frame.responses[1].kind = "result")
      BY <1>1, <1>2, <1>5, ElementOfSeq DEF FramesInv
<1>7. /\ wire' \in Seq(Frame) /\ Len(wire) \in Nat /\ DOMAIN wire = 1..Len(wire)
      /\ \A f \in DOMAIN wire : f \in DOMAIN wire' /\ wire'[f] = wire[f] /\ f < Len(wire) + 1
      /\ \A f \in DOMAIN wire' : \/ f \in DOMAIN wire
                                 \/ f = Len(wire) + 1 /\ wire'[f] = frame
  <2>1. Len(wire) \in Nat /\ DOMAIN wire = 1..Len(wire) BY <1>2, LenProperties
  <2>2. CASE wire' = wire BY <1>2, <2>1, <2>2
  <2>3. CASE wire' = Append(wire, frame) BY <1>2, <1>6, <2>1, <2>3, AppendProperties
  <2> QED BY <1>3, <2>1, <2>2, <2>3
<1>8. FramesInv'
  <2>1. ASSUME NEW f \in DOMAIN wire'
        PROVE  wire'[f].n \in Sent /\ RightFrame(wire'[f], DocOf(wire'[f].n), LengthOf(wire'[f].n))
        BY <1>1, <1>6, <1>7 DEF FramesInv
  <2>2. ASSUME NEW g \in DOMAIN sends'
        PROVE  /\ sends'[g].n \in Sent /\ RightFrame(sends'[g], DocOf(sends'[g].n), LengthOf(sends'[g].n))
               /\ ~sends'[g].batch => sends'[g].responses[1].kind = "result"
        BY <1>1, <1>5 DEF FramesInv
  <2> QED BY <1>4, <2>1, <2>2 DEF FramesInv
<1>9. FramesOnce'
  <2>1. \A f \in DOMAIN wire : wire[f].n # frame.n BY <1>1, <1>5 DEF FramesOnce
  <2>2. \A g \in DOMAIN sends' : sends'[g].n # frame.n BY <1>1, <1>5 DEF FramesOnce
  <2>3. \A f, g \in DOMAIN wire' : wire'[f].n = wire'[g].n => f = g BY <1>1, <1>7, <2>1 DEF FramesOnce
  <2>4. \A f, g \in DOMAIN sends' : sends'[f].n = sends'[g].n => f = g
    <3> TAKE f, g \in DOMAIN sends'
    <3>1. sends'[f].n = sends'[g].n => f + 1 = g + 1 BY <1>1, <1>5 DEF FramesOnce
    <3> QED BY <1>5, <3>1
  <2>5. \A f \in DOMAIN wire', g \in DOMAIN sends' : wire'[f].n # sends'[g].n
        BY <1>1, <1>5, <1>7, <2>2 DEF FramesOnce
  <2> QED BY <2>3, <2>4, <2>5 DEF FramesOnce
<1>10. ErrorInv'
  <2> SUFFICES ASSUME NEW f \in DOMAIN wire', ~wire'[f].batch, wire'[f].responses[1].kind = "error"
               PROVE  /\ conn # "connected"
                      /\ script # <<>> =>
                           /\ \A g \in DOMAIN wire' : f < g => wire'[g].n < wire'[f].n
                           /\ \A g \in DOMAIN sends' : sends'[g].n < wire'[f].n
      BY <1>3 DEF ErrorInv
  <2>1. f \in DOMAIN wire /\ wire'[f] = wire[f] BY <1>6, <1>7
  <2>2. /\ conn # "connected"
        /\ script # <<>> =>
             /\ \A g \in DOMAIN wire : f < g => wire[g].n < wire[f].n
             /\ \A g \in DOMAIN sends : sends[g].n < wire[f].n
        BY <1>1, <2>1 DEF ErrorInv
  <2> QED BY <1>5, <1>7, <2>1, <2>2
<1>11. Answered' \subseteq Answered
  <2>1. \A f \in DOMAIN wire' : wire'[f].n \in Answered BY <1>5, <1>7 DEF Answered
  <2>2. \A g \in DOMAIN sends' : sends'[g].n \in Answered BY <1>5 DEF Answered
  <2> QED BY <2>1, <2>2 DEF Answered
<1>12. StreamInv' /\ Stream' = Stream
  <2>1. Drops(0) /\ conn' = conn /\ Stream' = Stream BY <1>2, <1>3, DropsNothing DEF Stream
  <2> QED BY <1>1, <1>2, <2>1, StreamDrops
<1>13. FramesKept BY <1>4 DEF FramesKept
<1>14. HandlerInv' /\ BatchesInv' /\ PendingInv' /\ Taken' = Taken BY <1>1, <1>3, <1>13, BatchesStay
<1>15. LeftInv' BY <1>1, <1>3, <1>11, <1>12, <1>14 DEF LeftInv, Earlier
<1>16. ServerTypes' BY <1>1, <1>3, <1>5, <1>7 DEF ServerTypes
<1> QED BY <1>8, <1>9, <1>10, <1>12, <1>14, <1>15, <1>16 DEF ServerInv

-----------------------------------------------------------------------------
(* The loop takes a message out of the input buffer *)

\* An exception on a connection that is gone: nothing is sent.
LEMMA ThrowUnheard ==
  ASSUME ServerInv, ClientTypes, handler.at = "messages", conn # "connected",
         NEW tag, NEW code, throwRequest(tag, code),
         NEW d \in {0, 1, 2}, Drops(d), inbuf' \in Seq(Unit),
         UNCHANGED <<toServer, script, posted, calls>>
  PROVE  ServerInv'
<1>1. toServer \in Seq(Unit) /\ conn \in {"connected", "closing", "shut", "broken"}
      BY DEF ServerInv, ServerTypes
<1>2. conn' = conn /\ wire' = wire /\ handler' = [at |-> "poll"] /\ UNCHANGED <<pending, batches, sends>>
      BY DEF throwRequest, sendJson
<1>3. handler.at \in {"poll", "messages"} /\ handler' \in [at : {"poll", "messages"}] BY <1>2
<1>4. toServer' \in Seq(Unit) /\ conn' \in {"connected", "closing", "shut", "broken"} /\ conn' # "connected"
      BY <1>1, <1>2
<1> QED BY <1>2, <1>3, <1>4, SilentStep

\* A body where a length is expected, or a length that is no number or too
\* great: the server answers with an error and takes no further message.
LEMMA BadLengthStep ==
  ASSUME ServerInv, ClientTypes, handler.at = "messages", inbuf # <<>>, Head(inbuf).length # "good",
         throwRequest(<<Head(inbuf).n, 1>>, "INVALID_REQUEST"),
         inbuf' = Tail(inbuf) \/ inbuf' = inbuf,
         UNCHANGED <<toServer, script, posted, calls>>
  PROVE  ServerInv'
<1>1. inbuf \in Seq(Unit) /\ toServer \in Seq(Unit) /\ StreamInv BY DEF ServerInv, ServerTypes
<1>2. /\ Len(inbuf) \in Nat /\ Len(inbuf) > 0 /\ Head(inbuf) = inbuf[1] /\ Stream[1] = inbuf[1]
      /\ 1 \in DOMAIN Stream /\ Stream # <<>>
  <2>1. Len(inbuf) \in Nat /\ Len(inbuf) > 0 /\ Head(inbuf) = inbuf[1]
        BY <1>1, EmptySeq, LenProperties, HeadTailProperties
  <2>2. 1 \in DOMAIN Stream /\ Stream[1] = inbuf[1] /\ Len(Stream) > 0
        BY <1>1, <2>1, StreamParts, LenProperties
  <2> QED BY <2>1, <2>2, EmptySeq
<1>3. inbuf' \in Seq(Unit) /\ \E d \in {0, 1} : Drops(d)
  <2>1. CASE inbuf' = inbuf
    <3>1. Stream' = Stream BY <2>1 DEF Stream
    <3> QED BY <1>1, <2>1, <3>1, DropsNothing
  <2>2. CASE inbuf' = Tail(inbuf) BY <1>1, <2>2, TailsDrop
  <2> QED BY <2>1, <2>2
<1>4. PICK d \in {0, 1, 2} : Drops(d) BY <1>3
<1>5. CASE conn # "connected" BY <1>3, <1>4, <1>5, ThrowUnheard
<1>6. CASE conn = "connected"
  <2>1. Stream[1].length # "none" BY <1>1, <1>2, <1>6 DEF StreamInv
  <2>2. Stream[1].n \in Sent /\ LengthOf(Stream[1].n) # "good" BY <1>1, <1>2, <2>1, HeadFrame
  <2>3. DocOf(Stream[1].n).kind = "single" BY <2>2, BadFrames
  <2>4. PICK code : code = "INVALID_REQUEST" OBVIOUS
  <2>5. code \in Code BY <2>4 DEF Code
  <2>6. ~IsBatch(DocOf(Stream[1].n), LengthOf(Stream[1].n)) /\ ~IsSingle(DocOf(Stream[1].n), LengthOf(Stream[1].n))
        BY <2>2 DEF IsBatch, IsSingle
  <2>7. throwRequest(<<Stream[1].n, 1>>, code) BY <1>2, <2>4
  <2>8. code = IF DocOf(Stream[1].n).kind = "garbage" THEN "PARSE_ERROR" ELSE "INVALID_REQUEST"
        BY <2>3, <2>4
  <2> QED BY <1>2, <1>3, <1>4, <2>5, <2>6, <2>7, <2>8, RejectStep
<1> QED BY <1>5, <1>6

\* A message with its length: it is refused, ignored, called or begun as a batch.
LEMMA MessageStep ==
  ASSUME ServerInv, ClientTypes, handler.at = "messages", Len(inbuf) > 1, Head(inbuf).length = "good",
         inbuf' = Tail(Tail(inbuf)), handleRequest(inbuf[2].n, inbuf[2].doc),
         UNCHANGED <<toServer, script, posted, calls>>
  PROVE  ServerInv'
<1>1. /\ inbuf \in Seq(Unit) /\ toServer \in Seq(Unit) /\ StreamInv
      /\ conn \in {"connected", "closing", "shut", "broken"}
      BY DEF ServerInv, ServerTypes
<1>2. /\ Head(inbuf) = inbuf[1] /\ Stream[1] = inbuf[1] /\ Stream[2] = inbuf[2] /\ Stream # <<>>
  <2>1. Len(inbuf) \in Nat /\ inbuf # <<>> BY <1>1, EmptySeq, LenProperties
  <2>2. Head(inbuf) = inbuf[1] BY <1>1, <2>1, HeadTailProperties
  <2>3. 1 \in 1..Len(inbuf) /\ 2 \in 1..Len(inbuf) BY <2>1
  <2>4. Stream[1] = inbuf[1] /\ Stream[2] = inbuf[2] /\ Len(Stream) > 0
        BY <1>1, <2>1, <2>3, StreamParts, LenProperties
  <2> QED BY <2>2, <2>4, EmptySeq
<1>3. PICK n : n = Stream[1].n OBVIOUS
<1>4. PICK doc : doc = DocOf(n) OBVIOUS
<1>5. /\ n \in Sent /\ LengthOf(n) = "good" /\ inbuf[2].n = n /\ inbuf[2].doc = doc
      /\ Stream[1].length # "none"
      BY <1>1, <1>2, <1>3, <1>4, HeadFrame
<1>6. doc \in AnyDoc BY <1>4, <1>5, FrameParts
<1>7. Drops(2) /\ inbuf' \in Seq(Unit) BY <1>1, TailsDrop
<1>8. handleRequest(n, doc) BY <1>5
<1>9. doc.kind = "single" =>
        /\ doc.item \in AnyItem /\ Fate(doc.item) = Thrown(handleOne(doc.item))
        /\ Fate(doc.item) # "none" =>
             ThrownCode(handleOne(doc.item)) \in Faults(doc.item) /\ ThrownCode(handleOne(doc.item)) \in Code
  <2> SUFFICES ASSUME doc.kind = "single"
               PROVE  /\ doc.item \in AnyItem /\ Fate(doc.item) = Thrown(handleOne(doc.item))
                      /\ Fate(doc.item) # "none" =>
                           /\ ThrownCode(handleOne(doc.item)) \in Faults(doc.item)
                           /\ ThrownCode(handleOne(doc.item)) \in Code
      OBVIOUS
  <2>1. doc.item \in AnyItem /\ doc.item.object BY <1>6, DocParts
  <2>2. Fate(doc.item) = Thrown(handleOne(doc.item)) BY <2>1 DEF Fate
  <2> QED BY <2>1, <2>2, Verdict
<1>10. (IsSingle(doc, LengthOf(n)) <=> doc.kind = "single")
       BY <1>5 DEF IsSingle
<1>11. (IsBatch(doc, LengthOf(n)) <=> (doc.kind = "batch" /\ doc.items # <<>>))
       BY <1>5 DEF IsBatch
<1>12. ASSUME NEW code, throwRequest(<<n, 1>>, code), code \in Code, ~IsBatch(doc, LengthOf(n)),
              doc.kind = "single" => Fate(doc.item) = "request" /\ code \in Faults(doc.item),
              doc.kind # "single" => code = IF doc.kind = "garbage" THEN "PARSE_ERROR" ELSE "INVALID_REQUEST"
       PROVE  ServerInv'
  <2>1. code \in Code /\ throwRequest(<<Stream[1].n, 1>>, code) BY <1>3, <1>12
  <2>2. /\ ~IsBatch(DocOf(Stream[1].n), LengthOf(Stream[1].n))
        /\ IsSingle(DocOf(Stream[1].n), LengthOf(Stream[1].n)) =>
             Fate(DocOf(Stream[1].n).item) = "request" /\ code \in Faults(DocOf(Stream[1].n).item)
        /\ ~IsSingle(DocOf(Stream[1].n), LengthOf(Stream[1].n)) =>
             code = IF DocOf(Stream[1].n).kind = "garbage" THEN "PARSE_ERROR" ELSE "INVALID_REQUEST"
        BY <1>3, <1>4, <1>10, <1>12
  <2> QED BY <1>2, <1>7, <2>1, <2>2, RejectStep
<1>13. ASSUME handler' = handler \/ handler' = [at |-> "poll"],
              UNCHANGED <<pending, batches, conn, sends, wire>>
       PROVE  ServerInv'
  <2>1. handler.at \in {"poll", "messages"} OBVIOUS
  <2>2. handler' = handler \/ handler' \in [at : {"poll", "messages"}] BY <1>13
  <2>3. toServer' \in Seq(Unit) /\ conn' \in {"connected", "closing", "shut", "broken"} /\ conn' = conn
        BY <1>1, <1>13
  <2> QED BY <1>5, <1>7, <1>13, <2>1, <2>2, <2>3, SilentStep
<1>14. CASE doc.kind = "garbage" /\ throwRequest(<<n, 1>>, "PARSE_ERROR")
  <2>1. PICK code : code = "PARSE_ERROR" OBVIOUS
  <2> QED BY <1>11, <1>12, <1>14, <2>1 DEF Code
<1>15. CASE \/ doc.kind = "scalar" /\ throwRequest(<<n, 1>>, "INVALID_REQUEST")
            \/ doc.kind = "batch" /\ doc.items = <<>> /\ throwRequest(<<n, 1>>, "INVALID_REQUEST")
  <2>1. PICK code : code = "INVALID_REQUEST" OBVIOUS
  <2> QED BY <1>11, <1>12, <1>15, <2>1 DEF Code
<1>16. CASE doc.kind = "single"
  <2>1. CASE Thrown(handleOne(doc.item)) = "request" /\ throwRequest(<<n, 1>>, ThrownCode(handleOne(doc.item)))
    <3>1. PICK code : code = ThrownCode(handleOne(doc.item)) OBVIOUS
    <3>2. Fate(doc.item) = "request" /\ code \in Faults(doc.item) /\ code \in Code
          BY <1>9, <1>16, <2>1, <3>1
    <3> QED BY <1>11, <1>12, <1>16, <2>1, <3>1, <3>2
  <2>2. CASE throwNotify BY <1>13, <2>2 DEF throwNotify
  <2>3. CASE Thrown(handleOne(doc.item)) = "none" /\ ~isNotify(doc.item) /\ invokeSingle(<<n, 1>>, doc.item)
    <3>1. /\ IsSingle(DocOf(Stream[1].n), LengthOf(Stream[1].n))
          /\ Fate(DocOf(Stream[1].n).item) = "none" /\ ~isNotify(DocOf(Stream[1].n).item)
          /\ invokeSingle(<<Stream[1].n, 1>>, DocOf(Stream[1].n).item)
          BY <1>3, <1>4, <1>9, <1>10, <1>16, <2>3
    <3> QED BY <1>2, <1>5, <1>7, <3>1, AcceptStep
  <2>4. CASE UNCHANGED <<handler, pending, batches, conn, sends, wire>> BY <1>13, <2>4
  <2> QED BY <1>8, <1>16, <2>1, <2>2, <2>3, <2>4 DEF handleRequest
<1>17. CASE /\ doc.kind = "batch" /\ doc.items # <<>>
            /\ handler' = [at |-> "batch", n |-> n, i |-> 1, items |-> doc.items]
            /\ batches' = [k \in DOMAIN batches \union {n} |->
                             IF k = n THEN [refs |-> 1, responses |-> <<>>] ELSE batches[k]]
            /\ UNCHANGED <<pending, conn, sends, wire>>
  <2>1. /\ IsBatch(DocOf(Stream[1].n), LengthOf(Stream[1].n))
        /\ handler' = [at |-> "batch", n |-> Stream[1].n, i |-> 1, items |-> DocOf(Stream[1].n).items]
        /\ batches' = [k \in DOMAIN batches \cup {Stream[1].n} |->
                         IF k = Stream[1].n THEN [refs |-> 1, responses |-> <<>>] ELSE batches[k]]
        BY <1>3, <1>4, <1>11, <1>17
  <2> QED BY <1>2, <1>5, <1>7, <1>17, <2>1, BeginStep
<1> QED BY <1>8, <1>14, <1>15, <1>16, <1>17 DEF handleRequest

\* One turn of the loop of handleMessage.
LEMMA HandleMessageStep ==
  ASSUME ServerInv, ClientTypes, handleMessage, UNCHANGED <<toServer, script, posted, calls>>
  PROVE  ServerInv'
<1>1. /\ inbuf \in Seq(Unit) /\ toServer \in Seq(Unit) /\ handler.at = "messages"
      /\ conn \in {"connected", "closing", "shut", "broken"}
      BY DEF handleMessage, ServerInv, ServerTypes
<1>2. CASE handler' = [at |-> "poll"] /\ UNCHANGED <<inbuf, pending, batches, conn, sends, wire>>
  <2>1. Drops(0) /\ inbuf' \in Seq(Unit) /\ toServer' \in Seq(Unit)
        /\ conn' \in {"connected", "closing", "shut", "broken"} /\ conn' = conn
        BY <1>1, <1>2, DropsNothing DEF Stream
  <2>2. handler.at \in {"poll", "messages"} /\ handler' \in [at : {"poll", "messages"}] BY <1>1, <1>2
  <2> QED BY <1>2, <2>1, <2>2, SilentStep
<1>3. CASE /\ inbuf # <<>> /\ Head(inbuf).length \in {"none", "bad"}
           /\ inbuf' = Tail(inbuf)
           /\ throwRequest(<<Head(inbuf).n, 1>>, "INVALID_REQUEST")
      BY <1>1, <1>3, BadLengthStep
<1>4. CASE /\ inbuf # <<>> /\ Head(inbuf).length = "huge"
           /\ throwRequest(<<Head(inbuf).n, 1>>, "INVALID_REQUEST")
           /\ UNCHANGED inbuf
      BY <1>1, <1>4, BadLengthStep
<1>5. CASE /\ Len(inbuf) > 1 /\ Head(inbuf).length = "good"
           /\ inbuf' = Tail(Tail(inbuf))
           /\ handleRequest(inbuf[2].n, inbuf[2].doc)
      BY <1>1, <1>5, MessageStep
<1> QED BY <1>2, <1>3, <1>4, <1>5 DEF handleMessage

-----------------------------------------------------------------------------
(* Every step of the server, its peer and the network *)

\* The steps of the loop and of the user's threads.
LEMMA ServeStep ==
  ASSUME ServerInv, ClientTypes, loopStep \/ userStep, UNCHANGED <<toServer, script, posted, calls>>
  PROVE  ServerInv'
<1>1. CASE drained
  <2>1. inbuf \in Seq(Unit) /\ toServer \in Seq(Unit) BY DEF ServerInv, ServerTypes
  <2>2. conn' = "shut" /\ UNCHANGED <<inbuf, handler, pending, batches, sends, wire>> BY <1>1 DEF drained
  <2>3. Drops(0) BY <2>1, <2>2, DropsNothing DEF Stream
  <2>4. inbuf' \in Seq(Unit) /\ toServer' \in Seq(Unit) /\ conn' # "connected"
        /\ conn' \in {"connected", "closing", "shut", "broken"}
        BY <2>1, <2>2
  <2> QED BY <2>2, <2>3, <2>4, SilentStep
<1>2. CASE userStep
  <2>1. PICK p \in pending : complete(p) \/ release(p) BY <1>2 DEF userStep
  <2>2. CASE complete(p)
    <3>1. CASE p.batch BY <2>2, <3>1, CompleteBatchStep
    <3>2. CASE ~p.batch BY <2>2, <3>2, CompleteSingleStep
    <3> QED BY <3>1, <3>2
  <2>3. CASE release(p) BY <2>3, ReleaseStep
  <2> QED BY <2>1, <2>2, <2>3
<1> QED BY <1>1, <1>2, HandleMessageStep, BatchItemStep, ReleaseBatchStep, SendInLoopStep DEF loopStep

\* The connection is lost.
LEMMA BreakStep ==
  ASSUME ServerInv, ClientTypes, break, UNCHANGED <<toServer, script, posted, calls>>
  PROVE  ServerInv'
<1>1. inbuf \in Seq(Unit) /\ toServer \in Seq(Unit) BY DEF ServerInv, ServerTypes
<1>2. conn' = "broken" /\ UNCHANGED <<inbuf, handler, pending, batches, sends, wire>> BY DEF break
<1>3. Drops(0) BY <1>1, <1>2, DropsNothing DEF Stream
<1>4. inbuf' \in Seq(Unit) /\ toServer' \in Seq(Unit) /\ conn' # "connected"
      /\ conn' \in {"connected", "closing", "shut", "broken"}
      BY <1>1, <1>2
<1> QED BY <1>2, <1>3, <1>4, SilentStep

\* A read moves units from the network into the input buffer.
LEMMA ReadStep ==
  ASSUME ServerInv, ClientTypes, NEW k \in 1..Len(toServer), onMessage(SubSeq(toServer, 1, k)),
         toServer' = SubSeq(toServer, k + 1, Len(toServer)), UNCHANGED <<script, posted, calls>>
  PROVE  ServerInv'
<1> DEFINE a == SubSeq(toServer, 1, k)
           b == SubSeq(toServer, k + 1, Len(toServer))
<1>1. /\ inbuf \in Seq(Unit) /\ toServer \in Seq(Unit) /\ conn \in {"connected", "closing", "shut", "broken"}
      BY DEF ServerInv, ServerTypes
<1>2. /\ handler.at = "poll" /\ inbuf' = inbuf \o a /\ handler' = [at |-> "messages"] /\ toServer' = b
      /\ UNCHANGED <<pending, batches, conn, sends, wire>>
      BY DEF onMessage
<1>3. Len(toServer) \in Nat /\ k \in Nat /\ k <= Len(toServer) BY <1>1, LenProperties
<1>4. a \in Seq(Unit) /\ b \in Seq(Unit) /\ toServer = a \o b
  <2>1. /\ a \in Seq(Unit) /\ Len(a) = k /\ \A i \in 1..k : a[i] = toServer[i]
    <3>1. /\ a \in Seq(Unit) /\ Len(a) = (IF 1 <= k THEN k - 1 + 1 ELSE 0)
          /\ \A i \in 1..(k - 1 + 1) : a[i] = toServer[1 + i - 1]
          BY <1>1, <1>3, SubSeqProperties
    <3> HIDE DEF a
    <3>2. \A i \in 1..k : i \in 1..(k - 1 + 1) /\ 1 + i - 1 = i BY <1>3
    <3> QED BY <1>3, <3>1, <3>2
  <2>2. /\ b \in Seq(Unit) /\ Len(b) = Len(toServer) - k /\ \A i \in 1..Len(b) : b[i] = toServer[k + i]
    <3>1. /\ b \in Seq(Unit)
          /\ Len(b) = (IF k + 1 <= Len(toServer) THEN Len(toServer) - (k + 1) + 1 ELSE 0)
          /\ \A i \in 1..(Len(toServer) - (k + 1) + 1) : b[i] = toServer[(k + 1) + i - 1]
          BY <1>1, <1>3, SubSeqProperties
    <3> HIDE DEF b
    <3>2. Len(b) = Len(toServer) - k BY <1>3, <3>1
    <3>3. \A i \in 1..Len(b) : i \in 1..(Len(toServer) - (k + 1) + 1) /\ (k + 1) + i - 1 = k + i BY <1>3, <3>2
    <3> QED BY <3>1, <3>2, <3>3
  <2> HIDE DEF a, b
  <2>3. /\ a \o b \in Seq(Unit) /\ Len(a \o b) = Len(toServer)
        /\ \A i \in 1..Len(toServer) : (a \o b)[i] = IF i <= Len(a) THEN a[i] ELSE b[i - Len(a)]
        BY <1>3, <2>1, <2>2, ConcatProperties
  <2>4. \A i \in 1..Len(toServer) : (a \o b)[i] = toServer[i]
    <3> TAKE i \in 1..Len(toServer)
    <3>0. i <= k \/ i > k BY <1>3
    <3>1. CASE i <= k BY <1>3, <2>1, <2>3, <3>1
    <3>2. CASE i > k
      <4>1. i - k \in 1..Len(b) /\ k + (i - k) = i BY <1>3, <2>2, <3>2
      <4>2. (a \o b)[i] = b[i - k] BY <1>3, <2>1, <2>3, <3>2
      <4> QED BY <2>2, <4>1, <4>2
    <3> QED BY <3>0, <3>1, <3>2
  <2> QED BY <1>1, <2>1, <2>2, <2>3, <2>4, SeqEqual
<1> HIDE DEF a, b
<1>5. inbuf' \in Seq(Unit) BY <1>1, <1>2, <1>4, ConcatProperties
<1>6. Stream' = Stream
  <2>1. (inbuf \o a) \o b = inbuf \o (a \o b) BY <1>1, <1>4, ConcatAssociative
  <2> QED BY <1>2, <1>4, <2>1 DEF Stream
<1>7. Drops(0) BY <1>1, <1>6, DropsNothing
<1>8. handler.at \in {"poll", "messages"} /\ handler' \in [at : {"poll", "messages"}]
      /\ toServer' \in Seq(Unit) /\ conn' \in {"connected", "closing", "shut", "broken"} /\ conn' = conn
      BY <1>1, <1>2, <1>4
<1> QED BY <1>2, <1>5, <1>7, <1>8, SilentStep

\* A step of the peer that puts nothing on its way to the server.
LEMMA ServerStays ==
  ASSUME ServerInv, FramesKept, UNCHANGED <<serverVars, toServer, script>>
  PROVE  ServerInv'
<1>1. /\ ServerTypes /\ StreamInv /\ HandlerInv /\ BatchesInv /\ PendingInv
      /\ FramesInv /\ FramesOnce /\ LeftInv /\ ErrorInv
      BY DEF ServerInv
<1>2. UNCHANGED <<inbuf, handler, pending, batches, conn, sends, wire>> BY DEF serverVars
<1>3. Stream' = Stream BY <1>2 DEF Stream
<1>4. HandlerInv' /\ BatchesInv' /\ PendingInv' /\ Taken' = Taken BY <1>1, <1>2, BatchesStay
<1>5. FramesInv' BY <1>1, <1>2 DEF FramesInv, FramesKept
<1>6. FramesOnce' /\ ErrorInv' BY <1>1, <1>2 DEF FramesOnce, ErrorInv
<1>7. Answered' = Answered BY <1>2 DEF Answered
<1>8. LeftInv' BY <1>1, <1>2, <1>3, <1>4, <1>7 DEF LeftInv, Earlier
<1>9. StreamInv'
  <2>1. \A i \in DOMAIN Stream : \A m : m = Stream[i].n =>
          m \in Sent' /\ DocOf(m)' = DocOf(m) /\ LengthOf(m)' = LengthOf(m)
        BY <1>1 DEF StreamInv, FramesKept
  <2> QED BY <1>1, <1>2, <1>3, <2>1 DEF StreamInv
<1>10. ServerTypes' BY <1>1, <1>2 DEF ServerTypes
<1> QED BY <1>4, <1>5, <1>6, <1>8, <1>9, <1>10 DEF ServerInv

\* What the server has taken up or answered was sent.
LEMMA ServerKnowsSent ==
  ASSUME ServerInv
  PROVE  Taken \subseteq Sent /\ Answered \subseteq Sent
<1>1. DOMAIN batches \subseteq Sent BY DEF ServerInv, BatchesInv
<1>2. \A p \in pending : p.of[1] \in Sent BY <1>1 DEF ServerInv, PendingInv
<1> QED BY <1>1, <1>2 DEF ServerInv, FramesInv, Taken, Answered

\* The elements of a stream that has become longer by two units.
LEMMA TwoMore ==
  ASSUME NEW S, NEW a \in Seq(S), NEW b \in Seq(S), NEW x \in S, NEW y \in S
  PROVE  LET old == a \o b
             new == a \o (b \o <<x, y>>)
         IN /\ b \o <<x, y>> \in Seq(S) /\ Len(old) \in Nat /\ DOMAIN old = 1..Len(old)
            /\ DOMAIN new = 1..(Len(old) + 2)
            /\ \A i \in 1..Len(old) : new[i] = old[i]
            /\ new[Len(old) + 1] = x /\ new[Len(old) + 2] = y
<1> DEFINE old == a \o b
           new == a \o (b \o <<x, y>>)
           more == <<x, y>>
           L == Len(old)
<1>1. more \in Seq(S) /\ Len(more) = 2 /\ more[1] = x /\ more[2] = y OBVIOUS
<1> HIDE DEF more
<1>2. b \o more \in Seq(S) /\ (a \o b) \o more = a \o (b \o more)
      BY <1>1, ConcatProperties, ConcatAssociative
<1>3. old \in Seq(S) /\ new = old \o more BY <1>2, ConcatProperties DEF more
<1> HIDE DEF old, new
<1>4. L \in Nat /\ DOMAIN old = 1..L BY <1>3, LenProperties
<1>5. /\ new \in Seq(S) /\ Len(new) = L + 2
      /\ \A i \in 1..(L + 2) : new[i] = IF i <= L THEN old[i] ELSE more[i - L]
  <2> HIDE DEF L
  <2>1. /\ old \o more \in Seq(S) /\ Len(old \o more) = Len(old) + Len(more)
        /\ \A i \in 1..(Len(old) + Len(more)) :
             (old \o more)[i] = IF i <= Len(old) THEN old[i] ELSE more[i - Len(old)]
        BY <1>1, <1>3, ConcatProperties
  <2>2. Len(old) = L BY DEF L
  <2> QED BY <1>1, <1>3, <2>1, <2>2
<1>6. DOMAIN new = 1..(L + 2) BY <1>5, LenProperties
<1> HIDE DEF L
<1>7. /\ L + 1 \in 1..(L + 2) /\ L + 2 \in 1..(L + 2) /\ (L + 1) - L = 1 /\ (L + 2) - L = 2
      /\ ~(L + 1 <= L) /\ ~(L + 2 <= L) /\ \A i \in 1..L : i \in 1..(L + 2) /\ i <= L
      BY <1>4
<1>8. (\A i \in 1..L : new[i] = old[i]) /\ new[L + 1] = more[1] /\ new[L + 2] = more[2]
      BY <1>5, <1>7
<1> QED BY <1>1, <1>2, <1>4, <1>6, <1>8 DEF old, new, L, more

\* The peer sends a new frame, behind all that it has sent.
LEMMA PeerSends ==
  ASSUME ServerInv, FramesKept, UNCHANGED <<serverVars, script>>,
         NEW n \in Nat, NEW frame, n \notin Sent, n \in Sent',
         script # <<>> => \A m \in Sent : m < n,
         frame.length = LengthOf(n)', frame.length \in {"good", "bad", "huge"},
         frame.doc = DocOf(n)', frame.doc \in AnyDoc,
         toServer' = toServer \o Units(n, frame)
  PROVE  ServerInv'
<1>1. /\ ServerTypes /\ StreamInv /\ HandlerInv /\ BatchesInv /\ PendingInv
      /\ FramesInv /\ FramesOnce /\ LeftInv /\ ErrorInv
      BY DEF ServerInv
<1>2. UNCHANGED <<inbuf, handler, pending, batches, conn, sends, wire>> BY DEF serverVars
<1>3. inbuf \in Seq(Unit) /\ toServer \in Seq(Unit) BY <1>1 DEF ServerTypes
<1>4. HandlerInv' /\ BatchesInv' /\ PendingInv' /\ Taken' = Taken BY <1>1, <1>2, BatchesStay
<1>5. FramesInv' BY <1>1, <1>2 DEF FramesInv, FramesKept
<1>6. FramesOnce' /\ ErrorInv' BY <1>1, <1>2 DEF FramesOnce, ErrorInv
<1>7. Answered' = Answered BY <1>2 DEF Answered
<1> DEFINE line == [length |-> frame.length, n |-> n]
           body == [length |-> "none", n |-> n, doc |-> frame.doc]
<1>8. /\ line \in Unit /\ line.length = LengthOf(n)' /\ line.length # "none" /\ line.n = n
      /\ body \in Unit /\ body.length = "none" /\ body.n = n /\ body.doc = DocOf(n)'
      BY DEF Unit
<1>9. toServer' = toServer \o <<line, body>> BY DEF Units
<1> HIDE DEF line, body
<1>10. Stream' = inbuf \o (toServer \o <<line, body>>) BY <1>2, <1>9 DEF Stream
<1> DEFINE L == Len(Stream)
<1>11. /\ toServer' \in Seq(Unit) /\ Stream \in Seq(Unit) /\ L \in Nat /\ DOMAIN Stream = 1..L
       /\ DOMAIN Stream' = 1..(L + 2)
       /\ \A i \in 1..L : Stream'[i] = Stream[i]
       /\ Stream'[L + 1] = line /\ Stream'[L + 2] = body
  <2>1. line \in Unit /\ body \in Unit BY <1>8
  <2>2. Stream = inbuf \o toServer /\ Stream \in Seq(Unit) BY <1>3, StreamParts DEF Stream
  <2>3. /\ toServer \o <<line, body>> \in Seq(Unit) /\ Len(Stream) \in Nat /\ DOMAIN Stream = 1..Len(Stream)
        /\ DOMAIN Stream' = 1..(Len(Stream) + 2)
        /\ \A i \in 1..Len(Stream) : Stream'[i] = Stream[i]
        /\ Stream'[Len(Stream) + 1] = line /\ Stream'[Len(Stream) + 2] = body
    <3> DEFINE old == inbuf \o toServer
               new == inbuf \o (toServer \o <<line, body>>)
    <3>1. /\ toServer \o <<line, body>> \in Seq(Unit) /\ Len(old) \in Nat /\ DOMAIN old = 1..Len(old)
          /\ DOMAIN new = 1..(Len(old) + 2)
          /\ \A i \in 1..Len(old) : new[i] = old[i]
          /\ new[Len(old) + 1] = line /\ new[Len(old) + 2] = body
          BY <1>3, <2>1, TwoMore
    <3>2. old = Stream /\ new = Stream' BY <1>10, <2>2
    <3> HIDE DEF old, new
    <3> QED BY <3>1, <3>2
  <2> QED BY <1>9, <2>2, <2>3
<1> HIDE DEF L
<1>12. \A i \in DOMAIN Stream' : i \in 1..L \/ i = L + 1 \/ i = L + 2 BY <1>11
<1>13. ASSUME NEW i \in 1..L, NEW m, m = Stream[i].n
       PROVE  /\ m \in Sent /\ m \in Sent' /\ m # n
              /\ script # <<>> => m < n
              /\ DocOf(m)' = DocOf(m) /\ LengthOf(m)' = LengthOf(m)
  <2>1. m \in Sent BY <1>1, <1>11, <1>13 DEF StreamInv
  <2>2. m \in Sent' /\ DocOf(m)' = DocOf(m) /\ LengthOf(m)' = LengthOf(m) BY <2>1 DEF FramesKept
  <2> QED BY <2>1, <2>2
<1>14. StreamInv'
  <2>1. ASSUME NEW i \in DOMAIN Stream', NEW m, m = Stream'[i].n
        PROVE  /\ m \in Sent' /\ Stream'[i].length \in {"none", LengthOf(m)'}
               /\ Stream'[i].length = "none" => Stream'[i].doc = DocOf(m)'
               /\ Stream'[i].length # "none" =>
                    i + 1 \in DOMAIN Stream' /\ Stream'[i + 1].length = "none" /\ Stream'[i + 1].n = Stream'[i].n
               /\ Stream'[i].length = "none" /\ conn' = "connected" =>
                    i > 1 /\ Stream'[i - 1].length # "none"
    <3>1. CASE i \in 1..L
      <4>1. /\ Stream[i].length \in {"none", LengthOf(Stream[i].n)}
            /\ Stream[i].length = "none" => Stream[i].doc = DocOf(Stream[i].n)
            /\ Stream[i].length # "none" =>
                 i + 1 \in DOMAIN Stream /\ Stream[i + 1].length = "none" /\ Stream[i + 1].n = Stream[i].n
            /\ Stream[i].length = "none" /\ conn = "connected" =>
                 i > 1 /\ Stream[i - 1].length # "none"
            BY <1>1, <1>11, <3>1 DEF StreamInv
      <4>n. m = Stream[i].n BY <1>11, <2>1, <3>1
      <4>2. i > 1 => i - 1 \in 1..L BY <1>11, <3>1
      <4>3. \A j \in 1..L : j \in DOMAIN Stream' /\ Stream'[j] = Stream[j] BY <1>11
      <4> QED BY <1>2, <1>11, <1>13, <3>1, <4>n, <4>1, <4>2, <4>3
    <3>2. CASE i = L + 1
      <4>1. i + 1 = L + 2 /\ i + 1 \in DOMAIN Stream' BY <1>11, <3>2
      <4> QED BY <1>8, <1>11, <2>1, <3>2, <4>1
    <3>3. CASE i = L + 2
      <4>1. i > 1 /\ i - 1 = L + 1 BY <1>11, <3>3
      <4> QED BY <1>8, <1>11, <2>1, <3>3, <4>1
    <3> QED BY <1>12, <3>1, <3>2, <3>3
  <2>2. ASSUME NEW i \in DOMAIN Stream', NEW j \in DOMAIN Stream', i < j
        PROVE  /\ Stream'[i].n = Stream'[j].n => j = i + 1 /\ Stream'[i].length # "none"
               /\ script # <<>> => Stream'[i].n <= Stream'[j].n
    <3>1. CASE j \in 1..L
      <4>1. i \in 1..L BY <1>11, <2>2, <3>1
      <4> QED BY <1>1, <1>11, <2>2, <3>1, <4>1 DEF StreamInv
    <3>2. CASE i \in 1..L /\ j \notin 1..L
      <4>1. Stream'[j].n = n /\ Stream'[i] = Stream[i] BY <1>8, <1>11, <1>12, <3>2
      <4>2. Stream[i] \in Unit BY <1>11, <3>2, ElementOfSeq
      <4>3. Stream[i].n \in Nat BY <4>2 DEF Unit
      <4> QED BY <1>13, <3>2, <4>1, <4>3
    <3>3. CASE i \notin 1..L
      <4>1. i = L + 1 /\ j = L + 2 BY <1>11, <1>12, <2>2, <3>3
      <4> QED BY <1>8, <1>11, <4>1
    <3> QED BY <3>1, <3>2, <3>3
  <2> QED BY <2>1, <2>2 DEF StreamInv
<1>15. LeftInv'
  <2>1. ASSUME NEW i \in DOMAIN Stream', NEW m \in Taken PROVE Earlier(m, Stream'[i].n)
    <3>1. CASE i \in 1..L BY <1>1, <1>11, <3>1 DEF LeftInv
    <3>2. CASE i \notin 1..L
      <4>1. Stream'[i].n = n BY <1>8, <1>11, <1>12, <3>2
      <4>2. m \in Sent BY ServerKnowsSent
      <4> QED BY <4>1, <4>2 DEF Earlier
    <3> QED BY <3>1, <3>2
  <2>2. ASSUME conn = "connected", NEW i \in DOMAIN Stream', NEW m \in Answered PROVE Earlier(m, Stream'[i].n)
    <3>1. CASE i \in 1..L BY <1>1, <1>11, <2>2, <3>1 DEF LeftInv
    <3>2. CASE i \notin 1..L
      <4>1. Stream'[i].n = n BY <1>8, <1>11, <1>12, <3>2
      <4>2. m \in Sent BY ServerKnowsSent
      <4> QED BY <4>1, <4>2 DEF Earlier
    <3> QED BY <3>1, <3>2
  <2> QED BY <1>1, <1>2, <1>4, <1>7, <2>1, <2>2 DEF LeftInv, Earlier
<1>16. ServerTypes' BY <1>1, <1>2, <1>11 DEF ServerTypes
<1> QED BY <1>4, <1>5, <1>6, <1>14, <1>15, <1>16 DEF ServerInv

\* A raw peer sends the next frame of its script.
LEMMA PostStep ==
  ASSUME RpcInv, Post
  PROVE  RpcInv'
<1>a. PICK n : n = posted + 1 OBVIOUS
<1>b. PICK frame : frame = script[n] OBVIOUS
<1>1. ServerInv /\ ClientTypes BY DEF RpcInv
<1>2. /\ posted < Len(script) /\ posted' = n /\ toServer' = toServer \o Units(n, frame)
      /\ UNCHANGED <<serverVars, clientVars, script>>
      BY <1>a, <1>b DEF Post
<1>3. Len(script) \in Nat /\ posted \in Nat /\ posted <= Len(script)
      BY <1>1, ScriptFrames DEF ClientTypes
<1>4. script # <<>> /\ n \in Nat /\ n \in 1..Len(script) BY <1>2, <1>3, <1>a
<1>5. Sent = 1..posted /\ Sent' = 1..n BY <1>2, <1>4 DEF Sent
<1>6. \A m : DocOf(m)' = DocOf(m) /\ LengthOf(m)' = LengthOf(m) BY <1>2, <1>4 DEF DocOf, LengthOf
<1>7. FramesKept BY <1>3, <1>5, <1>6, <1>a DEF FramesKept
<1>8. n \notin Sent /\ n \in Sent' /\ \A m \in Sent : m < n BY <1>3, <1>4, <1>5, <1>a
<1>9. frame.doc \in AnyDoc /\ frame.length \in {"good", "bad", "huge"}
      BY <1>1, <1>4, <1>b, ScriptFrames DEF ClientTypes, AnyDoc
<1>10. frame.length = LengthOf(n)' /\ frame.doc = DocOf(n)'
       BY <1>4, <1>6, <1>b DEF DocOf, LengthOf
<1>11. ServerInv' BY <1>1, <1>2, <1>4, <1>7, <1>8, <1>9, <1>10, PeerSends
<1>12. ClientTypes' BY <1>1, <1>2, <1>3, <1>4 DEF ClientTypes, clientVars
<1>13. ClientInv' BY <1>2, <1>4 DEF ClientInv
<1> QED BY <1>11, <1>12, <1>13 DEF RpcInv

-----------------------------------------------------------------------------
(* The steps of a stub *)

\* A step of the server or the network changes nothing of the client.
LEMMA ClientStays ==
  ASSUME ClientTypes, ClientInv, UNCHANGED <<clientVars, script, posted, got>>
  PROVE  ClientTypes' /\ ClientInv'
<1>1. UNCHANGED <<id_, idToResponse_, calls, cinbuf, ran>> BY DEF clientVars
<1>2. Sent' = Sent BY <1>1 DEF Sent
<1>3. ClientTypes' BY <1>1 DEF ClientTypes
<1>4. Received' = Received /\ \A r : Genuine(r)' <=> Genuine(r) BY <1>1, <1>2 DEF Received, Genuine
<1>5. IdsInv => IdsInv' BY <1>1 DEF IdsInv, Alone, Stored
<1>6. EntriesInv => EntriesInv' BY <1>1 DEF EntriesInv, Stored
<1>7. RanInv => RanInv' BY <1>1, <1>4 DEF RanInv
<1> QED BY <1>1, <1>3, <1>4, <1>5, <1>6, <1>7 DEF ClientInv

\* Calls go on, and what was sent stays sent with its id and its method.
LEMMA CallsKept ==
  ASSUME ClientTypes, script = <<>>, UNCHANGED script, DOMAIN calls \subseteq DOMAIN calls',
         \A m \in DOMAIN calls :
            /\ calls'[m].id = calls[m].id /\ calls'[m].method = calls[m].method
            /\ calls[m].step = "sent" => calls'[m].step = "sent"
  PROVE  /\ FramesKept /\ Received \subseteq Received'
         /\ \A r : Genuine(r) => Genuine(r)'
<1>1. /\ Sent = {n \in DOMAIN calls : calls[n].step = "sent"}
      /\ Sent' = {n \in DOMAIN calls' : calls'[n].step = "sent"}
      BY DEF Sent
<1>2. Sent \subseteq Sent' BY <1>1
<1>3. \A n \in Sent : DocOf(n)' = DocOf(n) /\ LengthOf(n)' = LengthOf(n)
  <2> TAKE n \in Sent
  <2>1. n \in DOMAIN calls BY <1>1
  <2>2. LengthOf(n)' = LengthOf(n) BY DEF LengthOf
  <2>3. DocOf(n) = StubDoc(calls[n].id, calls[n].method) /\ DocOf(n)' = StubDoc(calls'[n].id, calls'[n].method)
        BY DEF DocOf, StubDoc
  <2> QED BY <2>1, <2>2, <2>3
<1>4. ASSUME NEW r, Genuine(r) PROVE Genuine(r)'
  <2>1. r.of[1] \in Sent /\ r.of[1] \in DOMAIN calls BY <1>1, <1>4 DEF Genuine
  <2> QED BY <1>2, <1>4, <2>1 DEF Genuine
<1>5. Received \subseteq Received' BY <1>4 DEF Received
<1> QED BY <1>2, <1>3, <1>4, <1>5 DEF FramesKept

\* A thread goes on inside sendCall with its call n, which becomes c.
LEMMA CallGoesOn ==
  ASSUME ClientTypes, IdsInv, EntriesInv, RanInv, cinbuf \in Seq(Received), script = <<>>,
         NEW n \in DOMAIN calls, NEW c \in CallRecord, calls' = [calls EXCEPT ![n] = c],
         calls[n].step # "sent", c.id = calls[n].id, c.method = calls[n].method,
         c.overlapped = calls[n].overlapped, Stored(n) => c.key = calls[n].key,
         UNCHANGED <<script, posted, cinbuf, ran>>, id_' \in Nat
  PROVE  /\ ClientTypes' /\ FramesKept /\ RanInv' /\ cinbuf' \in Seq(Received')
         /\ Len(calls) \in Nat /\ DOMAIN calls = 1..Len(calls)
         /\ Len(calls') = Len(calls) /\ DOMAIN calls' = DOMAIN calls /\ calls'[n] = c
         /\ \A m \in DOMAIN calls : m # n => calls'[m] = calls[m]
         /\ \A m : Alone(m)' <=> Alone(m)
         /\ \A m \in DOMAIN calls : Alone(m) => m < n \/ (m = n /\ n = Len(calls))
         /\ \A m \in DOMAIN calls : Alone(m) /\ m < n => calls[m].step = "sent" /\ calls[n].key >= m
<1>1. calls \in Seq(CallRecord) BY DEF ClientTypes
<1>2. Len(calls) \in Nat /\ DOMAIN calls = 1..Len(calls) BY <1>1, LenProperties
<1>3. /\ calls' \in Seq(CallRecord) /\ DOMAIN calls' = DOMAIN calls /\ calls'[n] = c
      /\ \A m \in DOMAIN calls : m # n => calls'[m] = calls[m]
  <2>1. calls \in [1..Len(calls) -> CallRecord] BY <1>1, LenProperties
  <2>2. calls' \in [1..Len(calls) -> CallRecord] BY <1>2, <2>1
  <2>3. calls' \in Seq(CallRecord) BY <1>2, <2>2, SeqDef
  <2> QED BY <1>2, <2>1, <2>3
<1>4. Len(calls') = Len(calls)
  <2>1. Len(calls') \in Nat /\ DOMAIN calls' = 1..Len(calls') BY <1>3, LenProperties
  <2> QED BY <1>2, <1>3, <2>1
<1>5. ClientTypes' BY <1>3 DEF ClientTypes
<1>6. /\ FramesKept /\ Received \subseteq Received'
      /\ \A r : Genuine(r) => Genuine(r)'
  <2>1. \A m \in DOMAIN calls :
          /\ calls'[m].id = calls[m].id /\ calls'[m].method = calls[m].method
          /\ calls[m].step = "sent" => calls'[m].step = "sent"
        BY <1>3
  <2>2. DOMAIN calls \subseteq DOMAIN calls' BY <1>3
  <2> QED BY <2>1, <2>2, CallsKept
<1>7. cinbuf' \in Seq(Received')
  <2>1. PICK S : S = Received' OBVIOUS
  <2> QED BY <1>6, <2>1, SeqMonotonic
<1>8. RanInv'
  <2>1. ASSUME NEW i \in DOMAIN ran PROVE calls'[ran[i].call].key = calls[ran[i].call].key
        BY <1>3 DEF EntriesInv
  <2> QED BY <1>6, <2>1 DEF RanInv
<1>9. \A m : Alone(m)' <=> Alone(m)
  <2>1. \A m \in DOMAIN calls : calls'[m].overlapped = calls[m].overlapped BY <1>3
  <2> QED BY <1>3, <2>1 DEF Alone
<1>10. ASSUME NEW m \in DOMAIN calls, Alone(m) PROVE m < n \/ (m = n /\ n = Len(calls))
  <2>1. CASE m >= n
    <3>1. Alone(n) BY <1>2, <1>10, <2>1 DEF Alone
    <3>2. \A k \in DOMAIN calls : ~(n < k) BY <3>1 DEF IdsInv
    <3>3. Len(calls) \in DOMAIN calls BY <1>2
    <3> QED BY <1>2, <2>1, <3>2, <3>3
  <2> QED BY <1>2, <2>1
<1>11. \A m \in DOMAIN calls : Alone(m) /\ m < n => calls[m].step = "sent" /\ calls[n].key >= m
       BY DEF IdsInv
<1> QED BY <1>2, <1>3, <1>4, <1>5, <1>6, <1>7, <1>8, <1>9, <1>10, <1>11

\* A thread reads id_ as the key of its call.
LEMMA TakeKeyStep ==
  ASSUME ClientTypes, ClientInv, script = <<>>, NEW n \in DOMAIN calls, takeKey(n),
         UNCHANGED <<script, posted, got>>
  PROVE  ClientTypes' /\ ClientInv' /\ FramesKept
<1> DEFINE c == [calls[n] EXCEPT !.step = "taken", !.key = id_]
<1>1. /\ IdsInv /\ EntriesInv /\ RanInv /\ cinbuf \in Seq(Received) /\ got \in Nat
      /\ id_ \in Nat /\ calls \in Seq(CallRecord)
      BY DEF ClientInv, ClientTypes
<1>2. calls[n].step = "added" /\ UNCHANGED <<id_, idToResponse_, cinbuf, ran>> BY DEF takeKey
<1>3. /\ c \in CallRecord /\ c.id = calls[n].id /\ c.method = calls[n].method
      /\ c.overlapped = calls[n].overlapped /\ c.step = "taken" /\ c.key = id_
  <2>1. calls[n] \in CallRecord BY <1>1, ElementOfSeq
  <2> QED BY <1>1, <2>1 DEF CallRecord
<1>4. calls' = [calls EXCEPT ![n] = c] BY DEF takeKey
<1> HIDE DEF c
<1>5. /\ ClientTypes' /\ FramesKept /\ RanInv' /\ cinbuf' \in Seq(Received')
      /\ Len(calls) \in Nat /\ DOMAIN calls = 1..Len(calls)
      /\ Len(calls') = Len(calls) /\ DOMAIN calls' = DOMAIN calls /\ calls'[n] = c
      /\ \A m \in DOMAIN calls : m # n => calls'[m] = calls[m]
      /\ \A m : Alone(m)' <=> Alone(m)
      /\ \A m \in DOMAIN calls : Alone(m) => m < n \/ (m = n /\ n = Len(calls))
      /\ \A m \in DOMAIN calls : Alone(m) /\ m < n => calls[m].step = "sent" /\ calls[n].key >= m
  <2>1. calls[n].step # "sent" /\ id_' \in Nat /\ ~Stored(n) BY <1>1, <1>2 DEF Stored
  <2> QED BY <1>1, <1>2, <1>3, <1>4, <2>1, CallGoesOn
<1>6. IdsInv'
  <2> SUFFICES ASSUME NEW m \in DOMAIN calls, Alone(m)
               PROVE  /\ calls'[m].id = m - 1 /\ calls'[m].key = m - 1
                      /\ Stored(m)' => id_' >= m
                      /\ m = Len(calls') => id_' = (IF Stored(m)' THEN m ELSE m - 1)
                      /\ \A k \in DOMAIN calls' : m < k =>
                           calls'[m].step = "sent" /\ calls'[k].id >= m /\ calls'[k].key >= m
      BY <1>5 DEF IdsInv
  <2>1. CASE m = n
    <3>1. n = Len(calls) /\ id_ = n - 1 /\ calls[n].id = n - 1
          BY <1>1, <1>2, <1>5, <2>1 DEF IdsInv, Stored
    <3>2. ~Stored(n)' BY <1>3, <1>5 DEF Stored
    <3> QED BY <1>2, <1>3, <1>5, <2>1, <3>1, <3>2
  <2>2. CASE m # n
    <3>1. m < n /\ calls[m].step = "sent" /\ m # Len(calls) BY <1>5, <2>2
    <3>2. Stored(m) /\ Stored(m)' BY <1>5, <2>2, <3>1 DEF Stored
    <3>3. /\ calls[m].id = m - 1 /\ calls[m].key = m - 1 /\ id_ >= m
          /\ \A k \in DOMAIN calls : m < k => calls[k].id >= m /\ calls[k].key >= m
          BY <1>1, <3>2 DEF IdsInv
    <3> QED BY <1>2, <1>3, <1>5, <2>2, <3>1, <3>2, <3>3
  <2> QED BY <2>1, <2>2
<1>7. EntriesInv'
  <2>1. \A m \in DOMAIN calls : Stored(m) => m # n /\ Stored(m)' /\ calls'[m].key = calls[m].key
        BY <1>2, <1>5 DEF Stored
  <2> QED BY <1>1, <1>2, <1>5, <2>1 DEF EntriesInv
<1> QED BY <1>1, <1>5, <1>6, <1>7 DEF ClientInv

\* A thread enters its call in idToResponse_, and id_ goes on.
LEMMA StoreStep ==
  ASSUME ClientTypes, ClientInv, script = <<>>, NEW n \in DOMAIN calls, store(n),
         UNCHANGED <<script, posted, got>>
  PROVE  ClientTypes' /\ ClientInv' /\ FramesKept
<1> DEFINE c == [calls[n] EXCEPT !.step = "stored"]
<1>a. PICK key : key = calls[n].key OBVIOUS
<1>1. /\ IdsInv /\ EntriesInv /\ RanInv /\ cinbuf \in Seq(Received) /\ got \in Nat
      /\ id_ \in Nat /\ calls \in Seq(CallRecord)
      BY DEF ClientInv, ClientTypes
<1>2. /\ calls[n].step = "taken" /\ id_' = key + 1 /\ UNCHANGED <<cinbuf, ran>>
      /\ idToResponse_' = [k \in DOMAIN idToResponse_ \cup {key} |-> IF k = key THEN n ELSE idToResponse_[k]]
      BY <1>a DEF store
<1>3. /\ c \in CallRecord /\ c.id = calls[n].id /\ c.method = calls[n].method
      /\ c.overlapped = calls[n].overlapped /\ c.step = "stored" /\ c.key = key /\ key \in Nat
  <2>1. calls[n] \in CallRecord BY <1>1, ElementOfSeq
  <2> QED BY <1>a, <2>1 DEF CallRecord
<1>4. calls' = [calls EXCEPT ![n] = c] BY DEF store
<1> HIDE DEF c
<1>5. /\ ClientTypes' /\ FramesKept /\ RanInv' /\ cinbuf' \in Seq(Received')
      /\ Len(calls) \in Nat /\ DOMAIN calls = 1..Len(calls)
      /\ Len(calls') = Len(calls) /\ DOMAIN calls' = DOMAIN calls /\ calls'[n] = c
      /\ \A m \in DOMAIN calls : m # n => calls'[m] = calls[m]
      /\ \A m : Alone(m)' <=> Alone(m)
      /\ \A m \in DOMAIN calls : Alone(m) => m < n \/ (m = n /\ n = Len(calls))
      /\ \A m \in DOMAIN calls : Alone(m) /\ m < n => calls[m].step = "sent" /\ calls[n].key >= m
  <2>1. calls[n].step # "sent" /\ id_' \in Nat /\ c.key = calls[n].key BY <1>2, <1>3, <1>a
  <2> QED BY <1>1, <1>2, <1>3, <1>4, <2>1, CallGoesOn
<1>6. IdsInv'
  <2> SUFFICES ASSUME NEW m \in DOMAIN calls, Alone(m)
               PROVE  /\ calls'[m].id = m - 1 /\ calls'[m].key = m - 1
                      /\ Stored(m)' => id_' >= m
                      /\ m = Len(calls') => id_' = (IF Stored(m)' THEN m ELSE m - 1)
                      /\ \A k \in DOMAIN calls' : m < k =>
                           calls'[m].step = "sent" /\ calls'[k].id >= m /\ calls'[k].key >= m
      BY <1>5 DEF IdsInv
  <2>1. CASE m = n
    <3>1. n = Len(calls) /\ key = n - 1 /\ calls[n].id = n - 1
          BY <1>1, <1>5, <1>a, <2>1 DEF IdsInv
    <3>2. Stored(n)' BY <1>3, <1>5 DEF Stored
    <3> QED BY <1>2, <1>3, <1>5, <2>1, <3>1, <3>2
  <2>2. CASE m # n
    <3>1. m < n /\ calls[m].step = "sent" /\ m # Len(calls) /\ key >= m BY <1>5, <1>a, <2>2
    <3>2. Stored(m) /\ Stored(m)' BY <1>5, <2>2, <3>1 DEF Stored
    <3>3. /\ calls[m].id = m - 1 /\ calls[m].key = m - 1
          /\ \A k \in DOMAIN calls : m < k => calls[k].id >= m /\ calls[k].key >= m
          BY <1>1, <3>2 DEF IdsInv
    <3> QED BY <1>2, <1>3, <1>5, <2>2, <3>1, <3>2, <3>3
  <2> QED BY <2>1, <2>2
<1>7. EntriesInv'
  <2>1. \A m \in DOMAIN calls : Stored(m) => m # n /\ Stored(m)' /\ calls'[m].key = calls[m].key
        BY <1>2, <1>5 DEF Stored
  <2>2. Stored(n)' /\ calls'[n].key = key BY <1>3, <1>5 DEF Stored
  <2>3. ASSUME NEW k \in DOMAIN idToResponse_'
        PROVE  /\ idToResponse_'[k] \in DOMAIN calls' /\ calls'[idToResponse_'[k]].key = k
               /\ calls'[idToResponse_'[k]].step \in {"stored", "sent"}
               /\ idToResponse_'[k] = n \/ (k \in DOMAIN idToResponse_ /\ idToResponse_'[k] = idToResponse_[k])
    <3>1. CASE k = key BY <1>2, <1>5, <2>2, <3>1 DEF Stored
    <3>2. CASE k # key
      <4>1. k \in DOMAIN idToResponse_ /\ idToResponse_'[k] = idToResponse_[k] BY <1>2, <3>2
      <4> QED BY <1>1, <1>5, <2>1, <4>1 DEF EntriesInv, Stored
    <3> QED BY <3>1, <3>2
  <2>4. ASSUME NEW i \in DOMAIN ran'
        PROVE  /\ ran'[i].call \in DOMAIN calls' /\ calls'[ran'[i].call].step \in {"stored", "sent"}
               /\ \A k \in DOMAIN idToResponse_' : idToResponse_'[k] # ran'[i].call
    <3>1. ran'[i].call = ran[i].call /\ i \in DOMAIN ran BY <1>2
    <3>2. ran[i].call \in DOMAIN calls /\ ran[i].call # n /\ calls'[ran[i].call].step \in {"stored", "sent"}
          BY <1>1, <2>1, <3>1 DEF EntriesInv, Stored
    <3> QED BY <1>1, <1>5, <2>3, <3>1, <3>2 DEF EntriesInv
  <2> QED BY <2>3, <2>4 DEF EntriesInv, Stored
<1> QED BY <1>1, <1>5, <1>6, <1>7 DEF ClientInv

\* A thread's frame is on its way: it is new, and what was sent stays.
LEMMA TransmitStep ==
  ASSUME ClientTypes, ClientInv, script = <<>>, NEW n \in DOMAIN calls, transmit(n),
         UNCHANGED <<script, posted, got>>
  PROVE  /\ ClientTypes' /\ ClientInv' /\ FramesKept
         /\ n \in Nat /\ n \notin Sent /\ n \in Sent' /\ DocOf(n)' = DocOf(n) /\ DocOf(n) \in AnyDoc
<1> DEFINE c == [calls[n] EXCEPT !.step = "sent"]
<1>1. /\ IdsInv /\ EntriesInv /\ RanInv /\ cinbuf \in Seq(Received) /\ got \in Nat
      /\ id_ \in Nat /\ calls \in Seq(CallRecord)
      BY DEF ClientInv, ClientTypes
<1>2. calls[n].step = "stored" /\ UNCHANGED <<id_, idToResponse_, cinbuf, ran>> BY DEF transmit
<1>3. /\ c \in CallRecord /\ c.id = calls[n].id /\ c.method = calls[n].method /\ c.key = calls[n].key
      /\ c.overlapped = calls[n].overlapped /\ c.step = "sent" /\ c.id \in Nat /\ c.method \in {"call", "none"}
  <2>1. calls[n] \in CallRecord BY <1>1, ElementOfSeq
  <2> QED BY <2>1 DEF CallRecord
<1>4. calls' = [calls EXCEPT ![n] = c] BY DEF transmit
<1> HIDE DEF c
<1>5. /\ ClientTypes' /\ FramesKept /\ RanInv' /\ cinbuf' \in Seq(Received')
      /\ Len(calls) \in Nat /\ DOMAIN calls = 1..Len(calls)
      /\ Len(calls') = Len(calls) /\ DOMAIN calls' = DOMAIN calls /\ calls'[n] = c
      /\ \A m \in DOMAIN calls : m # n => calls'[m] = calls[m]
      /\ \A m : Alone(m)' <=> Alone(m)
      /\ \A m \in DOMAIN calls : Alone(m) => m < n \/ (m = n /\ n = Len(calls))
      /\ \A m \in DOMAIN calls : Alone(m) /\ m < n => calls[m].step = "sent" /\ calls[n].key >= m
  <2>1. calls[n].step # "sent" /\ id_' \in Nat BY <1>1, <1>2
  <2> QED BY <1>1, <1>2, <1>3, <1>4, <2>1, CallGoesOn
<1>6. /\ \A m \in DOMAIN calls : calls'[m].id = calls[m].id /\ calls'[m].key = calls[m].key
      /\ \A m \in DOMAIN calls : Stored(m)' <=> Stored(m)
      /\ \A m \in DOMAIN calls : calls[m].step = "sent" => calls'[m].step = "sent"
      BY <1>2, <1>3, <1>5 DEF Stored
<1>7. IdsInv' BY <1>1, <1>2, <1>5, <1>6 DEF IdsInv
<1>8. EntriesInv' BY <1>1, <1>2, <1>5, <1>6 DEF EntriesInv
<1>9. n \in Nat /\ n \notin Sent /\ n \in Sent' BY <1>2, <1>3, <1>5 DEF Sent
<1>10. DocOf(n)' = DocOf(n) /\ DocOf(n) \in AnyDoc
  <2>1. DocOf(n) = StubDoc(c.id, c.method) /\ DocOf(n)' = StubDoc(c.id, c.method)
        BY <1>3, <1>5 DEF DocOf, StubDoc
  <2> QED BY <1>3, <2>1 DEF AnyDoc
<1> QED BY <1>1, <1>5, <1>7, <1>8, <1>9, <1>10 DEF ClientInv

\* A step of a thread inside sendCall.
LEMMA SendCallStep ==
  ASSUME RpcInv, SendCall
  PROVE  RpcInv'
<1>1. ServerInv /\ ClientTypes /\ ClientInv BY DEF RpcInv
<1>2. PICK n \in DOMAIN calls :
         \/ (takeKey(n) \/ store(n)) /\ UNCHANGED toServer
         \/ /\ transmit(n)
            /\ toServer' = IF conn = "connected" THEN toServer \o Units(n, Good(DocOf(n)))
                                                 ELSE toServer
      BY DEF SendCall
<1>3. UNCHANGED <<serverVars, script, posted, got, mixed>> BY DEF SendCall
<1>4. script = <<>>
  <2>1. n \in DOMAIN calls OBVIOUS
  <2>2. calls # <<>> BY <2>1
  <2> QED BY <1>1, <2>2 DEF ClientTypes
<1>5. CASE (takeKey(n) \/ store(n)) /\ UNCHANGED toServer
  <2>1. ClientTypes' /\ ClientInv' /\ FramesKept BY <1>1, <1>3, <1>4, <1>5, TakeKeyStep, StoreStep
  <2>2. ServerInv' BY <1>1, <1>3, <1>5, <2>1, ServerStays
  <2> QED BY <2>1, <2>2 DEF RpcInv
<1>6. CASE /\ transmit(n)
           /\ toServer' = IF conn = "connected" THEN toServer \o Units(n, Good(DocOf(n))) ELSE toServer
  <2>1. /\ ClientTypes' /\ ClientInv' /\ FramesKept
        /\ n \in Nat /\ n \notin Sent /\ n \in Sent' /\ DocOf(n)' = DocOf(n) /\ DocOf(n) \in AnyDoc
        BY <1>1, <1>3, <1>4, <1>6, TransmitStep
  <2>2. CASE conn # "connected"
    <3>1. ServerInv' BY <1>1, <1>3, <1>6, <2>1, <2>2, ServerStays
    <3> QED BY <2>1, <3>1 DEF RpcInv
  <2>3. CASE conn = "connected"
    <3>1. PICK frame : frame = Good(DocOf(n)) OBVIOUS
    <3>2. frame.length = "good" /\ frame.doc = DocOf(n) BY <3>1 DEF Good
    <3>3. toServer' = toServer \o Units(n, frame) BY <1>6, <2>3, <3>1
    <3>4. frame.length = LengthOf(n)' /\ frame.doc = DocOf(n)' BY <1>3, <1>4, <2>1, <3>2 DEF LengthOf
    <3>5. ServerInv' BY <1>1, <1>3, <1>4, <2>1, <3>2, <3>3, <3>4, PeerSends
    <3> QED BY <2>1, <3>5 DEF RpcInv
  <2> QED BY <2>2, <2>3
<1> QED BY <1>2, <1>5, <1>6

\* A thread enters sendCall: its call has the id that is next, and whoever is
\* inside overlaps with it.
LEMMA EnterStep ==
  ASSUME RpcInv, EnterSendCall
  PROVE  RpcInv'
<1>1. ServerInv /\ ClientTypes /\ ClientInv /\ script = <<>> BY DEF RpcInv, EnterSendCall
<1>2. PICK caller \in Callers, method \in {"call", "none"} : addId(caller, method) BY DEF EnterSendCall
<1>3. UNCHANGED <<serverVars, script, posted, toServer, got>> BY DEF EnterSendCall, peerVars
<1>4. /\ IdsInv /\ EntriesInv /\ RanInv /\ cinbuf \in Seq(Received) /\ got \in Nat
      /\ id_ \in Nat /\ calls \in Seq(CallRecord)
      BY <1>1 DEF ClientInv, ClientTypes
<1>5. PICK inside : inside = {n \in DOMAIN calls : InSendCall(n)} OBVIOUS
<1> DEFINE old == [n \in DOMAIN calls |-> [calls[n] EXCEPT !.overlapped = @ \/ n \in inside]]
           c == [caller |-> caller, method |-> method, step |-> "added", id |-> id_,
                 key |-> id_, overlapped |-> inside # {}]
           L == Len(calls)
<1>6. calls' = Append(old, c) /\ UNCHANGED <<id_, idToResponse_, cinbuf, ran>>
      BY <1>2, <1>5 DEF addId
<1>7. L \in Nat /\ DOMAIN calls = 1..L BY <1>4, LenProperties
<1>8. ASSUME NEW n \in DOMAIN calls
      PROVE  /\ old[n] \in CallRecord /\ old[n].id = calls[n].id /\ old[n].key = calls[n].key
             /\ old[n].method = calls[n].method /\ old[n].step = calls[n].step
             /\ (old[n].overlapped <=> (calls[n].overlapped \/ n \in inside))
  <2>1. calls[n] \in CallRecord BY <1>4, ElementOfSeq
  <2>2. old[n] = [calls[n] EXCEPT !.overlapped = @ \/ n \in inside] OBVIOUS
  <2>3. PICK b \in BOOLEAN : b = (calls[n].overlapped \/ n \in inside) OBVIOUS
  <2>4. old[n] = [calls[n] EXCEPT !.overlapped = b] BY <2>2, <2>3
  <2>5. \A r \in CallRecord :
          /\ [r EXCEPT !.overlapped = b] \in CallRecord
          /\ [r EXCEPT !.overlapped = b].id = r.id /\ [r EXCEPT !.overlapped = b].key = r.key
          /\ [r EXCEPT !.overlapped = b].method = r.method /\ [r EXCEPT !.overlapped = b].step = r.step
          /\ [r EXCEPT !.overlapped = b].overlapped = b
        BY DEF CallRecord
  <2> HIDE DEF old
  <2>6. /\ old[n] \in CallRecord /\ old[n].id = calls[n].id /\ old[n].key = calls[n].key
        /\ old[n].method = calls[n].method /\ old[n].step = calls[n].step
        /\ old[n].overlapped = b
        BY <2>1, <2>4, <2>5
  <2> QED BY <2>3, <2>6
<1>9. c \in CallRecord /\ c.id = id_ /\ c.key = id_ /\ c.step = "added" /\ (c.overlapped <=> inside # {})
      BY <1>4 DEF CallRecord
<1>10. old \in Seq(CallRecord) /\ Len(old) = L
  <2>1. DOMAIN old = 1..L BY <1>7
  <2>2. old \in [1..L -> CallRecord] BY <1>7, <1>8
  <2> HIDE DEF old, L
  <2>3. old \in Seq(CallRecord) BY <1>7, <2>2, SeqDef
  <2>4. Len(old) \in Nat /\ DOMAIN old = 1..Len(old) BY <2>3, LenProperties
  <2> QED BY <1>7, <2>1, <2>3, <2>4
<1> HIDE DEF old, c, L
<1>11. /\ calls' \in Seq(CallRecord) /\ Len(calls') = L + 1 /\ DOMAIN calls' = 1..(L + 1)
       /\ calls'[L + 1] = c /\ \A n \in DOMAIN calls : calls'[n] = old[n]
  <2>1. /\ Append(old, c) \in Seq(CallRecord) /\ Len(Append(old, c)) = L + 1
        /\ \A n \in 1..L : Append(old, c)[n] = old[n]
        /\ Append(old, c)[L + 1] = c
        BY <1>7, <1>9, <1>10, AppendProperties
  <2> QED BY <1>6, <1>7, <2>1, LenProperties
<1>12. \A n \in DOMAIN calls' : n \in DOMAIN calls \/ n = L + 1 BY <1>7, <1>11
<1>13. /\ FramesKept /\ Received \subseteq Received'
       /\ \A r : Genuine(r) => Genuine(r)'
  <2>1. \A m \in DOMAIN calls :
          /\ calls'[m].id = calls[m].id /\ calls'[m].method = calls[m].method
          /\ calls[m].step = "sent" => calls'[m].step = "sent"
        BY <1>8, <1>11
  <2>2. DOMAIN calls \subseteq DOMAIN calls' BY <1>7, <1>11
  <2> QED BY <1>1, <1>3, <2>1, <2>2, CallsKept
<1>14. ServerInv' BY <1>1, <1>3, <1>13, ServerStays
<1>15. ClientTypes' BY <1>1, <1>3, <1>6, <1>11 DEF ClientTypes
<1>16. cinbuf' \in Seq(Received')
  <2>1. PICK S : S = Received' OBVIOUS
  <2> QED BY <1>4, <1>6, <1>13, <2>1, SeqMonotonic
<1>17. RanInv'
  <2>1. ASSUME NEW i \in DOMAIN ran PROVE calls'[ran[i].call].key = calls[ran[i].call].key
        BY <1>4, <1>8, <1>11 DEF EntriesInv
  <2> QED BY <1>4, <1>6, <1>13, <2>1 DEF RanInv
<1>18. EntriesInv'
  <2>1. \A n \in DOMAIN calls : /\ n \in DOMAIN calls' /\ calls'[n].key = calls[n].key
                                /\ calls'[n].step = calls[n].step
        BY <1>7, <1>8, <1>11
  <2> QED BY <1>4, <1>6, <2>1 DEF EntriesInv, Stored
<1>19. IdsInv'
  <2>1. ASSUME NEW n \in DOMAIN calls, Alone(n)' PROVE Alone(n) /\ calls[n].step = "sent"
    <3>1. \A m \in DOMAIN calls : m <= n => ~calls'[m].overlapped BY <1>7, <1>11, <2>1 DEF Alone
    <3>2. \A m \in DOMAIN calls : m <= n => ~calls[m].overlapped /\ m \notin inside BY <1>8, <1>11, <3>1
    <3>3. n \notin inside BY <1>7, <3>2
    <3>4. calls[n].step \in {"added", "taken", "stored", "sent"}
      <4>1. calls[n] \in CallRecord BY <1>4, ElementOfSeq
      <4> QED BY <4>1 DEF CallRecord
    <3> QED BY <1>5, <3>2, <3>3, <3>4 DEF Alone, InSendCall
  <2>a. PICK N : N = L + 1 OBVIOUS
  <2>2. Alone(N)' => \A n \in DOMAIN calls : Alone(n)'
    <3> SUFFICES ASSUME Alone(N)', NEW n \in DOMAIN calls, NEW m \in DOMAIN calls', m <= n
                 PROVE  ~calls'[m].overlapped
        BY DEF Alone
    <3>1. m <= N BY <1>7, <1>11, <2>a
    <3>2. \A k \in DOMAIN calls' : k <= N => ~calls'[k].overlapped BY DEF Alone
    <3> QED BY <3>1, <3>2
  <2>3. ASSUME NEW n \in DOMAIN calls, Alone(n)'
        PROVE  /\ calls'[n].id = n - 1 /\ calls'[n].key = n - 1
               /\ id_ >= n /\ n # Len(calls')
               /\ \A k \in DOMAIN calls' : n < k =>
                    calls'[n].step = "sent" /\ calls'[k].id >= n /\ calls'[k].key >= n
    <3>1. Alone(n) /\ calls[n].step = "sent" /\ Stored(n) BY <2>1, <2>3 DEF Stored
    <3>2. /\ calls[n].id = n - 1 /\ calls[n].key = n - 1 /\ id_ >= n
          /\ \A k \in DOMAIN calls : n < k => calls[k].id >= n /\ calls[k].key >= n
          BY <1>4, <3>1 DEF IdsInv
    <3>3. n # Len(calls') BY <1>7, <1>11
    <3>4. calls'[n].id = n - 1 /\ calls'[n].key = n - 1 /\ calls'[n].step = "sent"
          BY <1>8, <1>11, <3>1, <3>2
    <3>5. ASSUME NEW k \in DOMAIN calls', n < k PROVE calls'[k].id >= n /\ calls'[k].key >= n
      <4>1. CASE k \in DOMAIN calls BY <1>8, <1>11, <3>2, <3>5, <4>1
      <4>2. CASE k = L + 1 BY <1>9, <1>11, <3>2, <4>2
      <4> QED BY <1>12, <4>1, <4>2
    <3> QED BY <3>2, <3>3, <3>4, <3>5
  <2>4. ASSUME Alone(N)' PROVE id_ = L
    <3>1. CASE L = 0
      <4>1. calls = <<>> BY <1>4, <3>1, EmptySeq DEF L
      <4> QED BY <1>4, <3>1, <4>1 DEF IdsInv
    <3>2. CASE L # 0
      <4>1. L \in DOMAIN calls BY <1>7, <3>2
      <4>2. PICK M : M = L OBVIOUS
      <4>3. Alone(M)' BY <2>2, <2>4, <4>1, <4>2
      <4>4. Alone(M) /\ calls[M].step = "sent" BY <2>1, <4>1, <4>2, <4>3
      <4>5. M = Len(calls) /\ Stored(M) BY <4>2, <4>4 DEF L, Stored
      <4> QED BY <1>4, <4>1, <4>2, <4>4, <4>5 DEF IdsInv
    <3> QED BY <3>1, <3>2
  <2>5. Alone(N)' => id_ = N - 1 BY <1>7, <2>4, <2>a
  <2>6. ASSUME NEW n \in DOMAIN calls', Alone(n)'
        PROVE  /\ calls'[n].id = n - 1 /\ calls'[n].key = n - 1
               /\ calls'[n].step \in {"stored", "sent"} => id_ >= n
               /\ n = Len(calls') => id_ = (IF calls'[n].step \in {"stored", "sent"} THEN n ELSE n - 1)
               /\ \A k \in DOMAIN calls' : n < k =>
                    calls'[n].step = "sent" /\ calls'[k].id >= n /\ calls'[k].key >= n
    <3>1. CASE n \in DOMAIN calls BY <2>3, <2>6, <3>1
    <3>2. CASE n = N
      <4>1. id_ = n - 1 BY <2>5, <2>6, <3>2
      <4>2. calls'[n] = c /\ \A k \in DOMAIN calls' : ~(n < k) BY <1>7, <1>11, <2>a, <3>2
      <4> QED BY <1>9, <4>1, <4>2
    <3> QED BY <1>12, <2>a, <3>1, <3>2
  <2>7. calls' # <<>> BY <1>7, <1>11
  <2> QED BY <1>6, <2>6, <2>7 DEF IdsInv, Stored
<1> QED BY <1>3, <1>4, <1>14, <1>15, <1>16, <1>17, <1>18, <1>19 DEF RpcInv, ClientInv


\* The client answers a stub's calls one by one, so what it reads are genuine
\* responses.
LEMMA AnswersAreGenuine ==
  ASSUME ServerInv, ClientTypes, script = <<>>
  PROVE  Answers \in Seq(Received) /\ Len(Answers) \in Nat
<1>1. /\ wire \in Seq(Frame) /\ Len(wire) \in Nat /\ DOMAIN wire = 1..Len(wire)
      BY LenProperties DEF ServerInv, ServerTypes
<1>2. ASSUME NEW f \in 1..Len(wire)
      PROVE  wire[f].responses[1] \in Response /\ Genuine(wire[f].responses[1])
  <2>1. /\ wire[f] \in Frame /\ wire[f].n \in Sent
        /\ RightFrame(wire[f], DocOf(wire[f].n), LengthOf(wire[f].n))
        BY <1>1 DEF ServerInv, FramesInv
  <2>2. PICK n : n = wire[f].n OBVIOUS
  <2>3. /\ n \in Sent /\ LengthOf(n) = "good" /\ DocOf(n).kind = "single"
        /\ DocOf(n).item.id = calls[n].id
        BY <2>1, <2>2 DEF LengthOf, DocOf, Call, Object
  <2>4. IsSingle(DocOf(n), LengthOf(n)) /\ ~IsBatch(DocOf(n), LengthOf(n))
        BY <2>3 DEF IsSingle, IsBatch
  <2>5. wire[f].batch \in BOOLEAN /\ wire[f].responses \in Seq(Response) BY <2>1 DEF Frame
  <2>6. PICK r : r = wire[f].responses[1] OBVIOUS
  <2>7. /\ Len(wire[f].responses) = 1 /\ r.of = <<n, 1>>
        /\ r.kind = "result" => r.id = calls[n].id
        /\ r.kind = "error" => r.id = NoId
        BY <2>1, <2>2, <2>3, <2>4, <2>5, <2>6 DEF RightFrame
  <2>8. r \in Response BY <2>5, <2>6, <2>7, ElementOfSeq
  <2>9. r.kind \in {"result", "error"} BY <2>8 DEF Response
  <2>10. r.of[1] = n BY <2>7
  <2>11. Genuine(r) BY <2>3, <2>7, <2>9, <2>10 DEF Genuine
  <2> QED BY <2>6, <2>8, <2>11
<1>3. 2 * Len(wire) \in Nat BY <1>1
<1>4. ASSUME NEW u \in 1..2 * Len(wire) PROVE Answers[u] \in Received
  <2>1. (u + 1) \div 2 \in 1..Len(wire) BY <1>1
  <2>2. PICK f \in 1..Len(wire) : f = (u + 1) \div 2 BY <2>1
  <2>3. Answers[u] = [frame |-> f, length |-> u % 2 = 1, response |-> wire[f].responses[1]]
        BY <2>2 DEF Answers
  <2>4. f \in Nat /\ (u % 2 = 1) \in BOOLEAN BY <1>1
  <2>5. PICK u1 : u1 = Answers[u] OBVIOUS
  <2>6. u1.response = wire[f].responses[1] BY <2>3, <2>5
  <2>7. u1 \in [frame : Nat, length : BOOLEAN, response : Response] BY <1>2, <2>3, <2>4, <2>5
  <2> QED BY <1>2, <2>5, <2>6, <2>7 DEF Received
<1>5. DOMAIN Answers = 1..2 * Len(wire) /\ Answers = [u \in 1..2 * Len(wire) |-> Answers[u]]
      BY DEF Answers
<1>6. Answers \in [1..2 * Len(wire) -> Received] BY <1>4, <1>5
<1>7. Answers \in Seq(Received) BY <1>3, <1>6, SeqDef
<1> QED BY <1>7, LenProperties

\* The loop thread of the stub handles the responses it has read.
LEMMA ClientReadsStep ==
  ASSUME RpcInv, ClientReads
  PROVE  RpcInv'
<1>1. ServerInv /\ ClientTypes /\ ClientInv /\ script = <<>> BY DEF RpcInv, ClientReads
<1>2. PICK k \in 1..(Len(Answers) - got) :
        onResponse(SubSeq(Answers, got + 1, got + k)) /\ got' = got + k
      BY DEF ClientReads
<1>3. UNCHANGED <<serverVars, script, posted, toServer>> BY DEF ClientReads
<1>4. /\ IdsInv /\ EntriesInv /\ RanInv /\ cinbuf \in Seq(Received) /\ got \in Nat
      BY <1>1 DEF ClientInv
<1> DEFINE us  == SubSeq(Answers, got + 1, got + k)
           buf == cinbuf \o us
<1>5. UNCHANGED <<id_, calls>> /\ handleMessages(buf) BY <1>2 DEF onResponse
<1>6. us \in Seq(Received)
  <2>1. Answers \in Seq(Received) /\ Len(Answers) \in Nat BY <1>1, AnswersAreGenuine
  <2>2. k \in Nat /\ got + k <= Len(Answers) BY <1>2, <1>4, <2>1
  <2>3. \A i \in (got + 1)..(got + k) : i \in 1..Len(Answers) BY <1>4, <2>1, <2>2
  <2>4. \A i \in (got + 1)..(got + k) : Answers[i] \in Received BY <2>1, <2>3, ElementOfSeq
  <2>5. got + 1 \in Int /\ got + k \in Int BY <1>4, <2>2
  <2> QED BY <2>4, <2>5, SubSeqProperties
<1>7. buf \in Seq(Received) BY <1>4, <1>6, ConcatProperties
<1>8. got' \in Nat BY <1>2, <1>4
<1> HIDE DEF buf, us
<1>9. Sent' = Sent /\ FramesKept
  <2>1. Sent' = Sent /\ \A n : DocOf(n)' = DocOf(n) /\ LengthOf(n)' = LengthOf(n)
        BY <1>3, <1>5, SameFrames
  <2> QED BY <2>1 DEF FramesKept
<1>10. ServerInv' BY <1>1, <1>3, <1>9, ServerStays
<1>11. ClientTypes' BY <1>1, <1>3, <1>5 DEF ClientTypes
<1>12. Received' = Received /\ \A r : Genuine(r)' <=> Genuine(r) BY <1>5, <1>9 DEF Received, Genuine
<1>13. IdsInv' BY <1>4, <1>5 DEF IdsInv, Alone, Stored
<1>14. cinbuf' \in Seq(Received)
  <2>1. <<>> \in Seq(Received) BY EmptySeq
  <2>2. buf # <<>> => Tail(buf) \in Seq(Received) BY <1>7, HeadTailProperties
  <2> QED BY <1>5, <1>7, <2>1, <2>2 DEF handleMessages
<1>15. CASE UNCHANGED <<ran, idToResponse_>>
  <2>1. EntriesInv' BY <1>4, <1>5, <1>15 DEF EntriesInv, Stored
  <2>2. RanInv' BY <1>4, <1>5, <1>12, <1>15 DEF RanInv
  <2> QED BY <1>8, <1>10, <1>11, <1>12, <1>13, <1>14, <2>1, <2>2 DEF RpcInv, ClientInv
<1>16. CASE ~UNCHANGED <<ran, idToResponse_>>
  <2>1. Len(buf) = 2 /\ handleResponseSingle(buf[2].response) BY <1>5, <1>16 DEF handleMessages
  <2>2. PICK r : r = buf[2].response OBVIOUS
  <2>3. r \in Response /\ Genuine(r)
    <3>1. 2 \in 1..Len(buf) BY <2>1
    <3>2. buf[2] \in Received BY <1>7, <3>1, ElementOfSeq
    <3> QED BY <2>2, <3>2 DEF Received
  <2>4. /\ validateResponse(r) /\ r.id \in DOMAIN idToResponse_
        /\ ran' = Append(ran, [call |-> idToResponse_[r.id], response |-> r])
        /\ idToResponse_' = [k1 \in DOMAIN idToResponse_ \ {r.id} |-> idToResponse_[k1]]
        BY <1>16, <2>1, <2>2 DEF handleResponseSingle
  <2>5. r.kind = "result"
    <3>1. r.kind \in {"result", "error"} BY <2>3 DEF Response
    <3> QED BY <2>3, <2>4, <3>1 DEF Genuine, validateResponse, NoId
  <2>6. PICK m : m = idToResponse_[r.id] OBVIOUS
  <2>7. /\ m \in DOMAIN calls /\ Stored(m) /\ calls[m].key = r.id
        /\ \A i \in DOMAIN ran : ran[i].call # m
        BY <1>4, <2>4, <2>6 DEF EntriesInv
  <2>8. m \in Nat
    <3>1. calls \in Seq(CallRecord) BY <1>1 DEF ClientTypes
    <3>2. DOMAIN calls = 1..Len(calls) /\ Len(calls) \in Nat BY <3>1, LenProperties
    <3> QED BY <2>7, <3>2
  <2>9. PICK e : e = [call |-> m, response |-> r] OBVIOUS
  <2>10. e \in [call : Nat, response : Response] /\ e.call = m /\ e.response = r
         BY <2>3, <2>8, <2>9
  <2>11. ran \in Seq([call : Nat, response : Response]) /\ Len(ran) \in Nat /\ DOMAIN ran = 1..Len(ran)
         BY <1>4, LenProperties DEF RanInv
  <2>12. /\ ran' \in Seq([call : Nat, response : Response])
         /\ DOMAIN ran' = 1..(Len(ran) + 1)
         /\ ran'[Len(ran) + 1] = e /\ \A i \in DOMAIN ran : ran'[i] = ran[i]
    <3>1. ran' = Append(ran, e) BY <2>4, <2>6, <2>9
    <3>2. /\ Append(ran, e) \in Seq([call : Nat, response : Response])
          /\ Len(Append(ran, e)) = Len(ran) + 1
          /\ Append(ran, e)[Len(ran) + 1] = e
          /\ \A i \in 1..Len(ran) : Append(ran, e)[i] = ran[i]
          BY <2>10, <2>11, AppendProperties
    <3> QED BY <2>11, <3>1, <3>2, LenProperties
  <2>13. \A i \in DOMAIN ran' : (i \in DOMAIN ran /\ ran'[i] = ran[i]) \/ (i = Len(ran) + 1 /\ ran'[i] = e)
         BY <2>11, <2>12
  <2>14. \A k1 \in DOMAIN idToResponse_' :
           /\ k1 \in DOMAIN idToResponse_ /\ k1 # r.id
           /\ idToResponse_'[k1] = idToResponse_[k1]
         BY <2>4
  <2>15. \A k1 \in DOMAIN idToResponse_' : idToResponse_'[k1] # m
         BY <1>4, <2>7, <2>14 DEF EntriesInv
  <2>16. EntriesInv'
    <3>1. \A k1 \in DOMAIN idToResponse_' :
            /\ idToResponse_'[k1] \in DOMAIN calls
            /\ Stored(idToResponse_'[k1]) /\ calls[idToResponse_'[k1]].key = k1
          BY <1>4, <2>14 DEF EntriesInv
    <3>2. \A i \in DOMAIN ran' :
            /\ ran'[i].call \in DOMAIN calls /\ Stored(ran'[i].call)
            /\ \A k1 \in DOMAIN idToResponse_' : idToResponse_'[k1] # ran'[i].call
          BY <1>4, <2>7, <2>10, <2>13, <2>14, <2>15 DEF EntriesInv
    <3> QED BY <1>5, <3>1, <3>2 DEF EntriesInv, Stored
  <2>17. RanInv'
    <3>1. \A i \in DOMAIN ran' :
            /\ Genuine(ran'[i].response) /\ ran'[i].response.kind = "result"
            /\ ran'[i].response.id = calls[ran'[i].call].key
          BY <1>4, <2>3, <2>5, <2>7, <2>10, <2>13 DEF RanInv
    <3>2. \A i, j \in DOMAIN ran' : ran'[i].call = ran'[j].call => i = j
          BY <1>4, <2>7, <2>10, <2>13 DEF RanInv
    <3> QED BY <1>5, <1>12, <2>12, <3>1, <3>2 DEF RanInv
  <2> QED BY <1>8, <1>10, <1>11, <1>12, <1>13, <1>14, <2>16, <2>17 DEF RpcInv, ClientInv
<1> QED BY <1>15, <1>16

-----------------------------------------------------------------------------
(* The inductive invariant *)

\* Nothing has been sent at the beginning.
LEMMA InitInv ==
  ASSUME Init
  PROVE  RpcInv
<1>1. /\ inbuf = <<>> /\ handler = [at |-> "poll"] /\ pending = {} /\ batches = <<>>
      /\ conn = "connected" /\ sends = <<>> /\ wire = <<>> /\ toServer = <<>>
      BY DEF Init, serverInit
<1>2. /\ id_ = 0 /\ idToResponse_ = <<>> /\ calls = <<>> /\ cinbuf = <<>> /\ ran = <<>>
      /\ script \in Scripts \cup {<<>>} /\ posted = 0 /\ got = 0
      BY DEF Init, clientInit
<1>3. /\ DOMAIN inbuf = {} /\ DOMAIN batches = {} /\ DOMAIN sends = {} /\ DOMAIN wire = {}
      /\ DOMAIN idToResponse_ = {} /\ DOMAIN calls = {} /\ DOMAIN ran = {}
  <2>1. DOMAIN <<>> = {} OBVIOUS
  <2> QED BY <1>1, <1>2, <2>1
<1>4. \A S : <<>> \in Seq(S) BY EmptySeq
<1>5. Stream = <<>> /\ DOMAIN Stream = {}
  <2>1. <<>> \o <<>> = <<>> BY <1>4, ConcatEmptySeq
  <2>2. Stream = <<>> BY <1>1, <2>1 DEF Stream
  <2> QED BY <1>1, <1>3, <2>2
<1>6. ServerTypes
  <2>1. IsFiniteSet(pending) BY <1>1, FS_EmptySet
  <2>2. handler \in [at : {"poll", "messages"}] BY <1>1
  <2>3. batches \in [DOMAIN batches -> [refs : Int, responses : Seq(Response)]]
    <3>1. batches = [n \in {} |-> 0] BY <1>1
    <3> QED BY <1>3, <3>1
  <2> QED BY <1>1, <1>4, <2>1, <2>2, <2>3 DEF ServerTypes
<1>7. StreamInv BY <1>5 DEF StreamInv
<1>8. HandlerInv BY <1>1 DEF HandlerInv
<1>9. BatchesInv BY <1>3 DEF BatchesInv
<1>10. PendingInv BY <1>1 DEF PendingInv
<1>11. FramesInv /\ FramesOnce /\ ErrorInv BY <1>3 DEF FramesInv, FramesOnce, ErrorInv
<1>12. LeftInv BY <1>1, <1>3, <1>5 DEF LeftInv
<1>13. ClientTypes
  <2>1. Len(script) \in Nat BY <1>2, ScriptFrames
  <2> QED BY <1>2, <1>4, <2>1 DEF ClientTypes
<1>14. ClientInv
  <2>1. IdsInv BY <1>2, <1>3 DEF IdsInv
  <2>2. EntriesInv BY <1>3 DEF EntriesInv
  <2>3. RanInv BY <1>2, <1>3, <1>4 DEF RanInv
  <2> QED BY <1>2, <1>4, <2>1, <2>2, <2>3 DEF ClientInv
<1> QED BY <1>6, <1>7, <1>8, <1>9, <1>10, <1>11, <1>12, <1>13, <1>14 DEF RpcInv, ServerInv

\* No step of the server, its peer or the network breaks the invariant.
LEMMA NextInv ==
  ASSUME RpcInv, [Next]_vars
  PROVE  RpcInv'
<1>1. ServerInv /\ ClientTypes /\ ClientInv BY DEF RpcInv
<1>2. CASE Post BY <1>2, PostStep
<1>3. CASE EnterSendCall BY <1>3, EnterStep
<1>4. CASE SendCall BY <1>4, SendCallStep
<1>5. CASE ClientReads BY <1>5, ClientReadsStep
<1>6. ASSUME UNCHANGED <<clientVars, script, posted, got>>, ServerInv' PROVE RpcInv'
      BY <1>1, <1>6, ClientStays DEF RpcInv
<1>7. CASE ServerReads
  <2>1. PICK k \in 1..Len(toServer) : /\ onMessage(SubSeq(toServer, 1, k))
                                      /\ toServer' = SubSeq(toServer, k + 1, Len(toServer))
        BY <1>7 DEF ServerReads
  <2>2. UNCHANGED <<clientVars, script, posted, got>> BY <1>7 DEF ServerReads
  <2>3. UNCHANGED calls BY <2>2 DEF clientVars
  <2> QED BY <1>1, <1>6, <2>1, <2>2, <2>3, ReadStep
<1>8. CASE Serve
  <2>1. UNCHANGED <<clientVars, script, posted, got, toServer>> BY <1>8 DEF Serve, peerVars
  <2>2. UNCHANGED calls BY <2>1 DEF clientVars
  <2>3. loopStep \/ userStep BY <1>8 DEF Serve
  <2> QED BY <1>1, <1>6, <2>1, <2>2, <2>3, ServeStep
<1>9. CASE Break
  <2>1. UNCHANGED <<clientVars, script, posted, got, toServer>> BY <1>9 DEF Break, peerVars
  <2>2. UNCHANGED calls BY <2>1 DEF clientVars
  <2>3. break BY <1>9 DEF Break
  <2> QED BY <1>1, <1>6, <2>1, <2>2, <2>3, BreakStep
<1>10. CASE UNCHANGED vars
  <2>1. UNCHANGED <<serverVars, clientVars, script, posted, toServer, got>> BY <1>10 DEF vars
  <2>2. UNCHANGED calls BY <2>1 DEF clientVars
  <2>3. FramesKept BY <2>1, <2>2, SameFrames DEF FramesKept
  <2> QED BY <1>1, <1>6, <2>1, <2>3, ServerStays
<1> QED BY <1>2, <1>3, <1>4, <1>5, <1>7, <1>8, <1>9, <1>10 DEF Next, Progress

\* The server's bookkeeping and the client's hold in every state
\* (RpcServer.cpp:43-170, BaseServer.cpp:60-140, BaseClient.cpp:46-160).
THEOREM RpcInvariant == Spec => []RpcInv
<1>1. Init => RpcInv BY InitInv
<1>2. RpcInv /\ [Next]_vars => RpcInv' BY NextInv
<1> QED BY <1>1, <1>2, PTL DEF Spec

-----------------------------------------------------------------------------
(* What follows from it *)

\* A message is answered by one frame at most, an array exactly if it is a
\* batch (RpcServer.cpp:43-79, BaseServer.cpp:72-87).
THEOREM AnsweredOnce == Spec => []AnswersOnce
<1>1. RpcInv => AnswersOnce
  <2> SUFFICES ASSUME RpcInv PROVE AnswersOnce
      OBVIOUS
  <2>1. FramesInv /\ FramesOnce BY DEF RpcInv, ServerInv
  <2>2. \A f \in DOMAIN wire : wire[f].batch <=> IsBatch(DocOf(wire[f].n), LengthOf(wire[f].n))
        BY <2>1 DEF FramesInv, RightFrame
  <2> QED BY <2>1, <2>2 DEF AnswersOnce, FramesOnce, IsBatch, LengthOf
<1> QED BY <1>1, RpcInvariant, PTL

\* An array holds one response for each request of the batch that is due one,
\* up to the first that fails (RpcServer.cpp:114-149).
THEOREM BatchesComplete == Spec => []BatchAnswers
<1>1. RpcInv => BatchAnswers
  <2> SUFFICES ASSUME RpcInv, NEW f \in DOMAIN wire, wire[f].batch
               PROVE  LET items   == DocOf(wire[f].n).items
                          fate(i) == IF items[i].object THEN Thrown(handleOne(items[i])) ELSE "request"
                          Ends(i) == \A j \in 1..(i - 1) : fate(j) = "none"
                          due     == {i \in DOMAIN items : /\ Ends(i) /\ fate(i) # "notify"
                                                           /\ fate(i) = "none" => ~isNotify(items[i])}
                      IN /\ {wire[f].responses[k].of[2] : k \in DOMAIN wire[f].responses} = due
                         /\ Len(wire[f].responses) = Cardinality(due)
                         /\ \A k \in DOMAIN wire[f].responses :
                              (wire[f].responses[k].kind = "error")
                                <=> (fate(wire[f].responses[k].of[2]) = "request")
      BY DEF BatchAnswers
  <2>1. ServerTypes /\ FramesInv BY DEF RpcInv, ServerInv
  <2>2. PICK n, items, rs : n = wire[f].n /\ items = DocOf(wire[f].n).items /\ rs = wire[f].responses
        OBVIOUS
  <2>3. rs \in Seq(Response)
    <3>1. wire[f] \in Frame BY <2>1, ElementOfSeq, LenProperties DEF ServerTypes
    <3> QED BY <2>2, <3>1 DEF Frame
  <2>4. Answer(rs, n, items, Due(items)) BY <2>1, <2>2 DEF FramesInv, RightFrame
  <2>5. Len(rs) \in Nat /\ DOMAIN rs = 1..Len(rs) BY <2>3, LenProperties
  <2>6. \A k \in DOMAIN rs : /\ rs[k].of[1] = n /\ rs[k].of[2] \in Due(items)
                             /\ rs[k].of = <<n, rs[k].of[2]>>
                             /\ RightFor(rs[k], items[rs[k].of[2]])
        BY <2>4 DEF Answer
  <2>7. \A i \in Due(items) : \E k \in DOMAIN rs : rs[k].of[2] = i
    <3>1. \A i \in Due(items) : \E k \in DOMAIN rs : rs[k].of = <<n, i>> BY <2>4 DEF Answer
    <3> QED BY <3>1
  <2>8. \A k, l \in DOMAIN rs : rs[k].of[2] = rs[l].of[2] => k = l
    <3>1. \A k, l \in DOMAIN rs : rs[k].of = rs[l].of => k = l BY <2>4 DEF Answer
    <3> QED BY <2>6, <3>1
  <2>9. Len(rs) = Cardinality(Due(items))
    <3> DEFINE T == Due(items)
               place == [k \in 1..Len(rs) |-> rs[k].of[2]]
    <3>1. place \in Bijection(1..Len(rs), T)
      <4>1. place \in [1..Len(rs) -> T] BY <2>5, <2>6
      <4>2. \A k, l \in 1..Len(rs) : place[k] = place[l] => k = l BY <2>5, <2>8
      <4>3. \A i \in T : \E k \in 1..Len(rs) : place[k] = i BY <2>5, <2>7
      <4> HIDE DEF place, T
      <4> QED BY <4>1, <4>2, <4>3 DEF Bijection, Injection, Surjection, IsInjective
    <3>2. ExistsBijection(1..Len(rs), T) BY <3>1 DEF ExistsBijection
    <3>3. IsFiniteSet(1..Len(rs)) /\ Cardinality(1..Len(rs)) = Len(rs)
          BY <2>5, FS_Interval
    <3> HIDE DEF T
    <3>4. Cardinality(T) = Cardinality(1..Len(rs)) BY <3>2, <3>3, FS_Bijection
    <3> QED BY <3>3, <3>4 DEF T
  <2>10. \A k \in DOMAIN rs : (rs[k].kind = "error") <=> (Fate(items[rs[k].of[2]]) = "request")
    <3> TAKE k \in DOMAIN rs
    <3>1. rs[k] \in Response BY <2>3, <2>5, ElementOfSeq
    <3>2. rs[k].kind \in {"result", "error"} BY <3>1 DEF Response
    <3>3. RightFor(rs[k], items[rs[k].of[2]]) BY <2>6
    <3> QED BY <3>2, <3>3 DEF RightFor
  <2>11. {rs[k].of[2] : k \in DOMAIN rs} = Due(items) BY <2>6, <2>7
  <2>12. {wire[f].responses[k].of[2] : k \in DOMAIN wire[f].responses} = Due(DocOf(wire[f].n).items)
         BY <2>2, <2>11
  <2>13. Len(wire[f].responses) = Cardinality(Due(DocOf(wire[f].n).items)) BY <2>2, <2>9
  <2>14. \A k \in DOMAIN wire[f].responses :
           (wire[f].responses[k].kind = "error")
             <=> (Fate(DocOf(wire[f].n).items[wire[f].responses[k].of[2]]) = "request")
         BY <2>2, <2>10
  <2> QED BY <2>12, <2>13, <2>14 DEF Due, Reached, Fate
<1> QED BY <1>1, RpcInvariant, PTL

\* A result answers a call with no fault, an error names a fault of its request
\* (RpcServer.cpp:151-230, Service.cpp, Procedure.cpp).
THEOREM CodesRight == Spec => []CodesAreRight
<1>1. RpcInv => CodesAreRight
  <2> SUFFICES ASSUME RpcInv, NEW f \in DOMAIN wire, NEW k \in DOMAIN wire[f].responses
               PROVE  LET r == wire[f].responses[k]
                          doc == DocOf(r.of[1])
                          item == IF doc.kind = "single" THEN doc.item ELSE doc.items[r.of[2]]
                      IN  IF \/ script # <<>> /\ script[r.of[1]].length # "good"
                             \/ doc.kind \in {"garbage", "scalar"}
                             \/ doc.kind = "batch" /\ ~wire[f].batch
                          THEN r.code = IF doc.kind = "garbage" THEN "PARSE_ERROR" ELSE "INVALID_REQUEST"
                          ELSE IF r.kind = "result" THEN Faults(item) = {} /\ ~isNotify(item)
                               ELSE r.code \in Faults(item)
      BY DEF CodesAreRight
  <2>1. ServerTypes /\ FramesInv /\ ClientTypes BY DEF RpcInv, ServerInv
  <2>2. PICK n, r, doc, length : /\ n = wire[f].n /\ r = wire[f].responses[k]
                                 /\ doc = DocOf(wire[f].n) /\ length = LengthOf(wire[f].n)
        OBVIOUS
  <2>3. wire[f] \in Frame BY <2>1, ElementOfSeq, LenProperties DEF ServerTypes
  <2>4. /\ wire[f].responses \in Seq(Response) /\ wire[f].batch \in BOOLEAN
        /\ DOMAIN wire[f].responses = 1..Len(wire[f].responses)
        BY <2>3, LenProperties DEF Frame
  <2>5. n \in Sent /\ RightFrame(wire[f], doc, length) BY <2>1, <2>2 DEF FramesInv
  <2>6. doc.kind \in {"garbage", "scalar", "single", "batch"}
    <3>1. doc \in AnyDoc BY <2>1, <2>2, <2>5, FrameParts
    <3> QED BY <3>1, DocParts
  <2>7. CASE wire[f].batch
    <3>1. IsBatch(doc, length) /\ Answer(wire[f].responses, n, doc.items, Due(doc.items))
          BY <2>2, <2>5, <2>7 DEF RightFrame
    <3>2. r.of[1] = n /\ RightFor(r, doc.items[r.of[2]]) BY <2>2, <3>1 DEF Answer
    <3>3. doc = DocOf(r.of[1]) /\ doc.kind = "batch" /\ ~(script # <<>> /\ script[r.of[1]].length # "good")
          BY <2>2, <3>1, <3>2 DEF IsBatch, LengthOf
    <3> QED BY <2>2, <2>7, <3>2, <3>3 DEF RightFor
  <2>8. CASE ~wire[f].batch
    <3>1. k = 1 /\ r.of = <<n, 1>>
          /\ (IsSingle(doc, length) => RightFor(r, doc.item))
          /\ (~IsSingle(doc, length) =>
                r.code = IF doc.kind = "garbage" THEN "PARSE_ERROR" ELSE "INVALID_REQUEST")
          BY <2>2, <2>4, <2>5, <2>8 DEF RightFrame
    <3>2. r.of[1] = n /\ doc = DocOf(r.of[1]) BY <2>2, <3>1
    <3>3. IsSingle(doc, length) <=> ~( \/ script # <<>> /\ script[r.of[1]].length # "good"
                                       \/ doc.kind \in {"garbage", "scalar"}
                                       \/ doc.kind = "batch" /\ ~wire[f].batch )
          BY <2>2, <2>6, <2>8, <3>2 DEF IsSingle, LengthOf
    <3> QED BY <2>2, <3>1, <3>2, <3>3 DEF RightFor, IsSingle
  <2> QED BY <2>7, <2>8
<1> QED BY <1>1, RpcInvariant, PTL

\* What follows an error on the wire answers messages that came before the one
\* the error is about (BaseServer.cpp:76-79).
THEOREM ErrorIsLast == Spec => []ErrorEndsService
<1>1. RpcInv => ErrorEndsService BY DEF RpcInv, ServerInv, ErrorInv, ErrorEndsService
<1> QED BY <1>1, RpcInvariant, PTL

\* A callback runs once, with the response to its own call, unless calls of two
\* threads overlapped (BaseClient.cpp:57-58, 147-160).
THEOREM CallbackGetsOwn == Spec => []OwnResponse
<1>1. RpcInv => OwnResponse
  <2> SUFFICES ASSUME RpcInv, NEW i \in DOMAIN ran, Alone(ran[i].call)
               PROVE  /\ ran[i].response.of = <<ran[i].call, 1>>
                      /\ \A j \in DOMAIN ran : ran[j].call = ran[i].call => i = j
      BY DEF OwnResponse
  <2>1. ClientTypes /\ ClientInv BY DEF RpcInv
  <2>2. script = <<>>
    <3>1. ran # <<>> OBVIOUS
    <3> QED BY <2>1, <3>1 DEF ClientTypes
  <2>3. IdsInv /\ EntriesInv /\ RanInv BY <2>1, <2>2 DEF ClientInv
  <2>4. PICK c, r : c = ran[i].call /\ r = ran[i].response OBVIOUS
  <2>5. PICK s : s = r.of[1] OBVIOUS
  <2>6. r.of = <<s, 1>> /\ s \in DOMAIN calls /\ r.id = calls[s].id /\ r.id = calls[c].key
    <3>1. Genuine(r) /\ r.kind = "result" /\ r.id = calls[c].key BY <2>3, <2>4 DEF RanInv
    <3>2. r.of = <<s, 1>> /\ s \in Sent /\ r.id = calls[s].id BY <2>5, <3>1 DEF Genuine
    <3> QED BY <2>2, <3>1, <3>2 DEF Sent
  <2>7. c \in DOMAIN calls /\ Alone(c) /\ c \in Int /\ s \in Int
    <3>1. \A n \in DOMAIN calls : n \in Int BY <2>1, LenProperties DEF ClientTypes
    <3> QED BY <2>3, <2>4, <2>6, <3>1 DEF EntriesInv
  <2>8. calls[c].key = c - 1 /\ (c < s => calls[s].id >= c) BY <2>3, <2>6, <2>7 DEF IdsInv
  <2>9. s = c
    <3>1. ~(c < s) BY <2>6, <2>7, <2>8
    <3>2. ASSUME s < c PROVE FALSE
      <4>1. Alone(s)
        <5>1. \A n \in DOMAIN calls : n \in Int BY <2>1, LenProperties DEF ClientTypes
        <5> QED BY <2>7, <3>2, <5>1 DEF Alone
      <4>2. calls[s].id = s - 1 BY <2>3, <2>6, <4>1 DEF IdsInv
      <4>3. calls[s].id = calls[c].key BY <2>6
      <4>4. s \in Int /\ c \in Int /\ calls[c].key = c - 1 BY <2>7, <2>8
      <4>5. s - 1 = c - 1 BY <4>2, <4>3, <4>4
      <4> QED BY <3>2, <4>4, <4>5
    <3> QED BY <2>7, <3>1, <3>2
  <2> QED BY <2>3, <2>4, <2>6, <2>9 DEF RanInv
<1> QED BY <1>1, RpcInvariant, PTL
=============================================================================
