------------------------------ MODULE RpcClient ------------------------------
(***************************************************************************)
(* BaseClient: threads make calls on one connection, the loop thread hands *)
(* each response to the callback registered under its id.                  *)
(*                                                                         *)
(* Neither id_ nor idToResponse_ is guarded by a lock, so sendCall is      *)
(* modelled by its reads and writes of them.  What a std::map does when    *)
(* two threads are inside it at once is not modelled.                      *)
(***************************************************************************)
EXTENDS Integers, Sequences, FiniteSets

CONSTANTS
    Callers,    \* threads that make calls
    MaxCalls    \* bound: calls made in all

VARIABLES
    id_,            \* the next id
    idToResponse_,  \* the call whose callback is registered under an id
    calls,          \* the calls, in the order sendCall was entered
    cinbuf,         \* the units of the client's input buffer
    ran             \* history: the callbacks run, with the response each was given

clientVars == <<id_, idToResponse_, calls, cinbuf, ran>>

clientInit ==
    /\ id_ = 0 /\ idToResponse_ = <<>> /\ calls = <<>> /\ cinbuf = <<>> /\ ran = <<>>

InSendCall(n) == calls[n].step \in {"added", "taken", "stored"}

\* sendCall: call.addMember("id", id_).  The history variable overlapped says
\* that another thread was inside sendCall at the same time.
addId(c, method) ==
    LET inside == {n \in DOMAIN calls : InSendCall(n)} IN
    /\ Len(calls) < MaxCalls
    /\ \A n \in inside : calls[n].caller # c
    /\ calls' = Append([n \in DOMAIN calls |->
                          [calls[n] EXCEPT !.overlapped = @ \/ n \in inside]],
                       [caller |-> c, method |-> method, step |-> "added", id |-> id_,
                        key |-> id_, overlapped |-> inside # {}])
    /\ UNCHANGED <<id_, idToResponse_, cinbuf, ran>>

\* idToResponse_[id_++] = cb: the read of id_ ...
takeKey(n) ==
    /\ calls[n].step = "added"
    /\ calls' = [calls EXCEPT ![n].step = "taken", ![n].key = id_]
    /\ UNCHANGED <<id_, idToResponse_, cinbuf, ran>>

\* Mutant of store: the id is not advanced.
storeOnly(n) ==
    /\ calls[n].step = "taken"
    /\ idToResponse_' = [k \in DOMAIN idToResponse_ \union {calls[n].key} |->
                           IF k = calls[n].key THEN n ELSE idToResponse_[k]]
    /\ calls' = [calls EXCEPT ![n].step = "stored"]
    /\ UNCHANGED <<id_, cinbuf, ran>>

\* ... its increment and the entry in the map.
store(n) ==
    /\ calls[n].step = "taken"
    /\ id_' = calls[n].key + 1
    /\ idToResponse_' = [k \in DOMAIN idToResponse_ \union {calls[n].key} |->
                           IF k = calls[n].key THEN n ELSE idToResponse_[k]]
    /\ calls' = [calls EXCEPT ![n].step = "stored"]
    /\ UNCHANGED <<cinbuf, ran>>

\* sendJson: the frame is on its way (the composition puts it there).
transmit(n) ==
    /\ calls[n].step = "stored"
    /\ calls' = [calls EXCEPT ![n].step = "sent"]
    /\ UNCHANGED <<id_, idToResponse_, cinbuf, ran>>

-----------------------------------------------------------------------------
(* The loop thread *)

\* validateResponse: exactly three members, so an error without its id is
\* refused, by an exception that has no id to erase either.
validateResponse(r) == r.kind = "result" \/ r.id >= 0

\* handleResonseSingle: the callback registered under the id runs, then its
\* entry is erased; an unknown id is only logged.
handleResponseSingle(r) ==
    IF validateResponse(r) /\ r.id \in DOMAIN idToResponse_
      THEN /\ ran' = Append(ran, [call |-> idToResponse_[r.id], response |-> r])
           /\ idToResponse_' = [k \in DOMAIN idToResponse_ \ {r.id} |-> idToResponse_[k]]
      ELSE UNCHANGED <<ran, idToResponse_>>

\* Mutant of handleMessages: a length line without its body is thrown away.
handleMessagesEarly(buf) ==
    \/ buf = <<>> /\ cinbuf' = buf /\ UNCHANGED <<ran, idToResponse_>>
    \/ /\ buf # <<>> /\ (~Head(buf).length \/ Len(buf) = 1)
       /\ cinbuf' = Tail(buf) /\ UNCHANGED <<ran, idToResponse_>>
    \/ /\ Len(buf) = 2 /\ Head(buf).length
       /\ cinbuf' = <<>> /\ handleResponseSingle(buf[2].response)
    \/ /\ Len(buf) > 2 /\ Head(buf).length
       /\ cinbuf' = <<>> /\ UNCHANGED <<ran, idToResponse_>>

\* handleMessage: the first message is taken together with everything behind
\* it, and a body with something behind it does not parse.  A line that is no
\* length is thrown away and ends the loop.
handleMessages(buf) ==
    \/ /\ buf = <<>> \/ (Len(buf) = 1 /\ Head(buf).length)
       /\ cinbuf' = buf /\ UNCHANGED <<ran, idToResponse_>>
    \/ /\ buf # <<>> /\ ~Head(buf).length
       /\ cinbuf' = Tail(buf) /\ UNCHANGED <<ran, idToResponse_>>
    \/ /\ Len(buf) = 2 /\ Head(buf).length
       /\ cinbuf' = <<>> /\ handleResponseSingle(buf[2].response)
    \/ /\ Len(buf) > 2 /\ Head(buf).length
       /\ cinbuf' = <<>> /\ UNCHANGED <<ran, idToResponse_>>

\* The units us arrive in one read.
onResponse(us) ==
    /\ us # <<>>
    /\ handleMessages(cinbuf \o us)
    /\ UNCHANGED <<id_, calls>>
=============================================================================
