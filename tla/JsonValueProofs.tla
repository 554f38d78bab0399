--------------------------- MODULE JsonValueProofs ---------------------------
(***************************************************************************)
(* For any numbers of threads, variables, containers and elements: the     *)
(* counts of the shared containers are right, an assignment loses its      *)
(* source only when it lay inside the old value of the destination, and    *)
(* nothing leaks but cycles.                                               *)
(***************************************************************************)
EXTENDS JsonValue, FiniteSetTheorems, WellFoundedInduction, TLAPS

\* The slots an operation is to read and write, and that nobody else fills the
\* slot that it has emptied.
Working ==
    \A t \in Threads : op[t].at # "idle" =>
        /\ op[t].dst \in ({t} \X Variables) \union (Containers \X Indices)
        /\ op[t].src \in Slots
        /\ op[t].at # "build" => op[t].src # op[t].dst
        /\ val[op[t].dst] = Null
        /\ \A u \in Threads \ {t} : op[u].at # "idle" => op[u].dst # op[t].dst

HeapInv == TypeOK /\ CountsAreOwners /\ Working

-----------------------------------------------------------------------------
\* There are finitely many slots, and so finitely many owners of a container.
LEMMA OwnersFinite == IsFiniteSet(Slots) /\ \A c \in Containers : IsFiniteSet(Owners(c))
<1>1. IsFiniteSet(Threads \X Variables) /\ IsFiniteSet(Containers \X Indices)
      BY SlotsAssumption, FS_Product
<1>2. IsFiniteSet(Slots) BY <1>1, FS_Union DEF Slots
<1>3. ASSUME NEW c \in Containers PROVE IsFiniteSet(Owners(c))
  <2>1. Owners(c) \in SUBSET Slots BY DEF Owners
  <2> QED BY <2>1, <1>2, FS_Subset
<1> QED BY <1>2, <1>3

\* A release leaves the counts right: it takes away one owner and one of the
\* count, and the count it dooms a container at is that of no owner.
LEMMA ReleaseCounts ==
  ASSUME TypeOK, CountsAreOwners, NEW t \in Threads, NEW s \in Slots, release(t, s)
  PROVE  /\ val' \in [Slots -> Containers \union {Null}]
         /\ refCount' \in [Containers -> Int]
         /\ doomed' \in [Containers -> Threads \union {Null}]
         /\ val'[s] = Null
         /\ \A x \in Slots : val'[x] = val[x] \/ val'[x] = Null
         /\ CountsAreOwners'
<1>1. CASE val[s] = Null
  <2>1. val' = val /\ refCount' = refCount /\ doomed' = doomed BY <1>1 DEF release
  <2>2. \A c \in Containers : Owners(c)' = Owners(c) BY <2>1 DEF Owners
  <2> QED BY <1>1, <2>1, <2>2 DEF TypeOK, CountsAreOwners
<1>2. CASE val[s] # Null
  <2> DEFINE d == val[s]
  <2>1. d \in Containers /\ s \in Owners(d) BY <1>2 DEF TypeOK, Owners
  <2>2. /\ val' = [val EXCEPT ![s] = Null]
        /\ refCount' = [refCount EXCEPT ![d] = @ - 1]
        /\ doomed' = [doomed EXCEPT ![d] = IF refCount[d] = 1 THEN t ELSE @]
        BY <1>2 DEF release
  <2>3. /\ val' \in [Slots -> Containers \union {Null}]
        /\ refCount' \in [Containers -> Int]
        /\ doomed' \in [Containers -> Threads \union {Null}]
        /\ val'[s] = Null
        /\ \A x \in Slots \ {s} : val'[x] = val[x]
        BY <2>1, <2>2 DEF TypeOK
  <2>4. ASSUME NEW c \in Containers
        PROVE  refCount'[c] = Cardinality(Owners(c)') /\ (doomed'[c] # Null => Owners(c)' = {})
    <3>1. CASE c = d
      <4>1. Owners(c)' = Owners(c) \ {s}
            BY <2>3, <3>1, <2>1, SlotsAssumption DEF Owners
      <4>2. IsFiniteSet(Owners(c)') /\ Cardinality(Owners(c)') = Cardinality(Owners(c)) - 1
            BY <4>1, <3>1, <2>1, OwnersFinite, FS_RemoveElement
      <4>3. refCount'[c] = refCount[c] - 1 BY <2>1, <2>2, <3>1 DEF TypeOK
      <4>4. refCount[c] = Cardinality(Owners(c)) /\ doomed[c] = Null
            BY <2>1, <3>1 DEF CountsAreOwners
      <4>5. refCount[c] \in Int BY DEF TypeOK
      <4>6. doomed'[c] # Null => refCount[c] = 1 BY <4>4, <2>1, <2>2, <3>1 DEF TypeOK
      <4>7. doomed'[c] # Null => Cardinality(Owners(c)') = 0 BY <4>2, <4>4, <4>5, <4>6
      <4> QED BY <4>2, <4>3, <4>4, <4>7, FS_EmptySet
    <3>2. CASE c # d
      <4>1. Owners(c)' = Owners(c) BY <2>3, <3>2, SlotsAssumption DEF Owners
      <4>2. refCount'[c] = refCount[c] /\ doomed'[c] = doomed[c]
            BY <2>1, <2>2, <3>2 DEF TypeOK
      <4> QED BY <4>1, <4>2 DEF CountsAreOwners
    <3> QED BY <3>1, <3>2
  <2> QED BY <2>3, <2>4 DEF CountsAreOwners
<1> QED BY <1>1, <1>2

\* An empty slot that comes to refer to a container adds one owner to it.
LEMMA ReferCounts ==
  ASSUME TypeOK, CountsAreOwners, NEW s \in Slots, val[s] = Null,
         NEW c \in Containers \union {Null}, c # Null => doomed[c] = Null,
         refer(s, c), doomed' = doomed
  PROVE  /\ val' = [val EXCEPT ![s] = c]
         /\ val' \in [Slots -> Containers \union {Null}]
         /\ refCount' \in [Containers -> Int]
         /\ CountsAreOwners'
<1>1. val' = [val EXCEPT ![s] = c] /\ val' \in [Slots -> Containers \union {Null}]
      BY DEF refer, TypeOK
<1>2. val'[s] = c /\ \A x \in Slots \ {s} : val'[x] = val[x] BY <1>1 DEF TypeOK
<1>3. refCount' \in [Containers -> Int] BY DEF refer, TypeOK
<1>4. ASSUME NEW b \in Containers
      PROVE  refCount'[b] = Cardinality(Owners(b)') /\ (doomed'[b] # Null => Owners(b)' = {})
  <2>1. CASE b = c
    <3>1. c # Null BY <2>1, SlotsAssumption
    <3>2. Owners(b)' = Owners(b) \union {s} BY <1>2, <2>1 DEF Owners
    <3>3. s \notin Owners(b) BY <2>1, <3>1 DEF Owners
    <3>4. Cardinality(Owners(b)') = Cardinality(Owners(b)) + 1
          BY <3>2, <3>3, OwnersFinite, FS_AddElement
    <3>5. refCount'[b] = refCount[b] + 1 BY <2>1, <3>1 DEF refer, TypeOK
    <3>6. doomed'[b] = Null BY <2>1, <3>1
    <3> QED BY <3>4, <3>5, <3>6 DEF CountsAreOwners
  <2>2. CASE b # c
    <3>1. Owners(b)' = Owners(b) BY <1>2, <2>2, SlotsAssumption DEF Owners
    <3>2. refCount'[b] = refCount[b] BY <2>2 DEF refer, TypeOK
    <3> QED BY <3>1, <3>2 DEF CountsAreOwners
  <2> QED BY <2>1, <2>2
<1> QED BY <1>1, <1>3, <1>4 DEF CountsAreOwners

\* No other thread writes to the destination of an operation.
LEMMA OthersSlot ==
  ASSUME TypeOK, Working, NEW t \in Threads, NEW u \in Threads \ {t},
         op[t].at # "idle", NEW x \in Writable(u)
  PROVE  x # op[t].dst
<1> SUFFICES ASSUME x = op[t].dst PROVE FALSE OBVIOUS
<1>1. x \in ({t} \X Variables) \union (Containers \X Indices) BY DEF Working
<1>2. x \in ({u} \X Variables) \union (Reach(u) \X Indices) BY DEF Writable, Readable
<1>3. Reach(u) \subseteq Containers BY DEF Reach, Closure
<1>4. CASE x \in {t} \X Variables
  <2>1. x \in Threads \X Variables /\ x \notin {u} \X Variables BY <1>4
  <2>2. x \notin Containers \X Indices BY <2>1, SlotsAssumption
  <2> QED BY <2>1, <2>2, <1>2, <1>3
<1>5. CASE x \in Containers \X Indices
  <2>1. PICK c \in Containers, i \in Indices : x = <<c, i>> BY <1>5
  <2>2. x # Null BY <1>5, SlotsAssumption DEF Slots
  <2>3. c \in Reach(t) BY <2>1, <2>2 DEF Reach, Closure
  <2>4. x \in (UNION {Reach(w) : w \in Threads \ {u}}) \X Indices BY <2>1, <2>3
  <2> QED BY <2>4 DEF Writable
<1> QED BY <1>1, <1>4, <1>5

-----------------------------------------------------------------------------
(* The steps *)

\* A step that leaves the operations as they are and fills no slot an operation
\* has emptied leaves the operations in order.
LEMMA WorkingKept ==
  ASSUME TypeOK, Working, op' = op,
         \A t \in Threads : op[t].at # "idle" => val'[op[t].dst] \in {val[op[t].dst], Null}
  PROVE  Working'
BY DEF Working, TypeOK

\* At first no slot refers to a container and no thread works.
LEMMA InitInv == heapInit => HeapInv
<1> SUFFICES ASSUME heapInit PROVE HeapInv OBVIOUS
<1>1. TypeOK /\ Working BY DEF heapInit, TypeOK, Working, Idle
<1>2. \A c \in Containers : Owners(c) = {} BY SlotsAssumption DEF heapInit, Owners
<1>3. CountsAreOwners BY <1>2, FS_EmptySet DEF CountsAreOwners, heapInit
<1> QED BY <1>1, <1>3 DEF HeapInv

\* ~Value of a variable or an element.
LEMMA DestroyInv ==
  ASSUME HeapInv, NEW t \in Threads, NEW dst \in Slots, destroy(t, dst)
  PROVE  HeapInv'
<1>1. release(t, dst) /\ op' = op BY DEF destroy
<1>2. TypeOK' /\ CountsAreOwners' BY <1>1, ReleaseCounts DEF HeapInv, TypeOK
<1>3. \A u \in Threads : op[u].at # "idle" => op[u].dst \in Slots
      BY DEF HeapInv, Working, Slots
<1>4. Working' BY <1>1, <1>3, ReleaseCounts, WorkingKept DEF HeapInv
<1> QED BY <1>2, <1>4 DEF HeapInv

\* ~Json releases one element of a container that is being deleted.
LEMMA DestroyElementInv ==
  ASSUME HeapInv, NEW t \in Threads, NEW c \in Containers, destroyElement(t, c)
  PROVE  HeapInv'
<1>1. PICK i \in Indices : release(t, <<c, i>>) BY DEF destroyElement
<1>2. <<c, i>> \in Slots /\ op' = op BY DEF Slots, destroyElement
<1>3. TypeOK' /\ CountsAreOwners' BY <1>1, <1>2, ReleaseCounts DEF HeapInv, TypeOK
<1>4. \A u \in Threads : op[u].at # "idle" => op[u].dst \in Slots
      BY DEF HeapInv, Working, Slots
<1>5. Working' BY <1>1, <1>2, <1>4, ReleaseCounts, WorkingKept DEF HeapInv
<1> QED BY <1>3, <1>5 DEF HeapInv

\* The memory of a container is given back: no slot referred to it any more.
LEMMA DeleteInv ==
  ASSUME HeapInv, NEW t \in Threads, NEW c \in Containers, delete(t, c)
  PROVE  HeapInv'
<1>1. /\ doomed' = [doomed EXCEPT ![c] = Null] /\ val' = val /\ refCount' = refCount
      /\ op' = [u \in Threads |->
                  [op[u] EXCEPT !.lost = @ \/ {op[u].dst, op[u].src} \intersect ({c} \X Indices) # {}]]
      BY DEF delete
<1>2. TypeOK'
  <2> DEFINE Gone(u) == op[u].lost \/ {op[u].dst, op[u].src} \intersect ({c} \X Indices) # {}
  <2>1. op' = [u \in Threads |-> [op[u] EXCEPT !.lost = Gone(u)]] BY <1>1
  <2>2. \A u \in Threads : op[u].lost \in BOOLEAN BY DEF HeapInv, TypeOK
  <2>3. \A u \in Threads : Gone(u) \in BOOLEAN BY <2>2
  <2> HIDE DEF Gone
  <2> DEFINE Ops == [at : {"idle", "build", "copy", "move"}, dst : Slots \union {Null},
                     src : Slots \union {Null}, inside : BOOLEAN, lost : BOOLEAN]
  <2>4. op \in [Threads -> Ops] BY DEF HeapInv, TypeOK
  <2>5. \A u \in Threads : [op[u] EXCEPT !.lost = Gone(u)] \in Ops BY <2>3, <2>4
  <2>6. op' \in [Threads -> Ops] BY <2>1, <2>5
  <2>7. doomed' \in [Containers -> Threads \union {Null}] BY <1>1 DEF HeapInv, TypeOK
  <2> QED BY <1>1, <2>6, <2>7 DEF HeapInv, TypeOK
<1>3. \A b \in Containers : Owners(b)' = Owners(b) BY <1>1 DEF Owners
<1>4. CountsAreOwners' BY <1>1, <1>3 DEF HeapInv, CountsAreOwners, TypeOK
<1>5. \A u \in Threads : /\ op'[u].at = op[u].at
                         /\ op'[u].dst = op[u].dst /\ op'[u].src = op[u].src
      BY <1>1 DEF HeapInv, TypeOK
<1>6. Working' BY <1>1, <1>5 DEF HeapInv, Working
<1> QED BY <1>2, <1>4, <1>6 DEF HeapInv

\* A slot that a value may be constructed in is the destination of no operation.
LEMMA FreshSlot ==
  ASSUME HeapInv, NEW t \in Threads, NEW dst \in Slots, Ready(t), Fresh(t, dst),
         NEW u \in Threads, op[u].at # "idle"
  PROVE  dst # op[u].dst
<1>1. u # t BY DEF Ready
<1>2. CASE dst \in Writable(t) BY <1>1, <1>2, OthersSlot DEF HeapInv
<1>3. CASE \E w \in Threads \ {t} : op[w].at = "idle" /\ dst \in {w} \X Variables
  <2>1. PICK w \in Threads \ {t} : op[w].at = "idle" /\ dst \in {w} \X Variables BY <1>3
  <2>2. w # u BY <2>1
  <2>3. op[u].dst \in ({u} \X Variables) \union (Containers \X Indices) BY DEF HeapInv, Working
  <2>4. dst \in Threads \X Variables /\ dst \notin {u} \X Variables BY <2>1, <2>2
  <2>5. dst \notin Containers \X Indices BY <2>4, SlotsAssumption
  <2> QED BY <2>3, <2>4, <2>5
<1> QED BY <1>2, <1>3 DEF Fresh

\* Value(const Value&) gives a container one more owner.
LEMMA CopyInv ==
  ASSUME HeapInv, NEW t \in Threads, NEW dst \in Slots, NEW src \in Slots, copy(t, dst, src)
  PROVE  HeapInv'
<1>1. /\ Ready(t) /\ Fresh(t, dst) /\ val[dst] = Null
      /\ refer(dst, val[src]) /\ doomed' = doomed /\ op' = op
      BY DEF copy, Fresh
<1>2. /\ val[src] \in Containers \union {Null}
      /\ val[src] # Null => doomed[val[src]] = Null
  <2>1. val[src] \in Containers \union {Null} BY DEF HeapInv, TypeOK
  <2>2. val[src] # Null => src \in Owners(val[src]) BY DEF Owners
  <2> QED BY <2>1, <2>2 DEF HeapInv, CountsAreOwners
<1>3. /\ val' = [val EXCEPT ![dst] = val[src]] /\ val' \in [Slots -> Containers \union {Null}]
      /\ refCount' \in [Containers -> Int] /\ CountsAreOwners'
      BY <1>1, <1>2, ReferCounts DEF HeapInv
<1>4. TypeOK' BY <1>1, <1>3 DEF HeapInv, TypeOK
<1>5. ASSUME NEW u \in Threads, op[u].at # "idle" PROVE val'[op[u].dst] = val[op[u].dst]
  <2>1. op[u].dst \in Slots BY <1>5 DEF HeapInv, Working, Slots
  <2>2. dst # op[u].dst BY <1>1, <1>5, FreshSlot
  <2> QED BY <2>1, <2>2, <1>3 DEF HeapInv, TypeOK
<1>6. Working' BY <1>1, <1>5, WorkingKept DEF HeapInv
<1> QED BY <1>3, <1>4, <1>6 DEF HeapInv

\* An assignment or a setter releases the old value of its destination.
LEMMA BeginInv ==
  ASSUME HeapInv, NEW t \in Threads, NEW at \in {"build", "copy", "move"},
         NEW dst \in Slots, NEW src \in Slots, begin(t, at, dst, src)
  PROVE  HeapInv'
<1>1. /\ Ready(t) /\ dst \in Writable(t) /\ release(t, dst) /\ (at # "build" => src # dst)
      /\ op' = [op EXCEPT ![t] = [at |-> at, dst |-> dst, src |-> src, lost |-> FALSE,
                                  inside |-> src \in (Within(val[dst]) \X Indices)]]
      BY DEF begin
<1>2. CountsAreOwners' /\ val'[dst] = Null /\ \A x \in Slots : val'[x] = val[x] \/ val'[x] = Null
      BY <1>1, ReleaseCounts DEF HeapInv
<1>3. TypeOK' BY <1>1, ReleaseCounts DEF HeapInv, TypeOK
<1>4. dst \in ({t} \X Variables) \union (Containers \X Indices)
      BY <1>1 DEF Writable, Readable, Reach, Closure
<1>5. \A u \in Threads \ {t} : op[u].at # "idle" => dst # op[u].dst
      BY <1>1, OthersSlot DEF HeapInv
<1>6. /\ op'[t].at = at /\ op'[t].dst = dst /\ op'[t].src = src
      /\ \A u \in Threads \ {t} : op'[u] = op[u]
      BY <1>1 DEF HeapInv, TypeOK
<1>7. ASSUME NEW u \in Threads, op'[u].at # "idle"
      PROVE  /\ op'[u].dst \in ({u} \X Variables) \union (Containers \X Indices)
             /\ op'[u].src \in Slots
             /\ op'[u].at # "build" => op'[u].src # op'[u].dst
             /\ val'[op'[u].dst] = Null
             /\ \A w \in Threads \ {u} : op'[w].at # "idle" => op'[w].dst # op'[u].dst
  <2>1. CASE u = t BY <2>1, <1>1, <1>2, <1>4, <1>5, <1>6
  <2>2. CASE u # t
    <3>1. op'[u] = op[u] /\ op[u].at # "idle" BY <2>2, <1>6, <1>7
    <3>2. op[u].dst \in Slots /\ val[op[u].dst] = Null
          BY <3>1 DEF HeapInv, Working, Slots
    <3>3. val'[op[u].dst] = Null BY <3>2, <1>2
    <3> QED BY <2>2, <3>1, <3>3, <1>5, <1>6 DEF HeapInv, Working
  <2> QED BY <2>1, <2>2
<1>8. Working' BY <1>7 DEF Working
<1> QED BY <1>2, <1>3, <1>8 DEF HeapInv

\* A moved value changes its place, and no count.
LEMMA MoveCounts ==
  ASSUME TypeOK, CountsAreOwners, NEW d \in Slots, NEW s \in Slots, s # d, val[d] = Null,
         val' = [val EXCEPT ![d] = val[s], ![s] = Null], UNCHANGED <<refCount, doomed>>
  PROVE  val' \in [Slots -> Containers \union {Null}] /\ CountsAreOwners'
<1>1. /\ val' \in [Slots -> Containers \union {Null}]
      /\ val'[d] = val[s] /\ val'[s] = Null /\ \A x \in Slots \ {d, s} : val'[x] = val[x]
      BY DEF TypeOK
<1>2. ASSUME NEW c \in Containers
      PROVE  Cardinality(Owners(c)') = Cardinality(Owners(c)) /\ (Owners(c) = {} => Owners(c)' = {})
  <2>1. CASE val[s] = c
    <3>1. Owners(c)' = (Owners(c) \ {s}) \union {d} BY <1>1, <2>1, SlotsAssumption DEF Owners
    <3>2. s \in Owners(c) /\ d \notin Owners(c) BY <2>1, SlotsAssumption DEF Owners
    <3>3. /\ IsFiniteSet(Owners(c)) /\ IsFiniteSet(Owners(c) \ {s})
          /\ Cardinality(Owners(c) \ {s}) = Cardinality(Owners(c)) - 1
          /\ Cardinality(Owners(c)) \in Nat
          BY <3>2, OwnersFinite, FS_RemoveElement, FS_CardinalityType
    <3>4. Cardinality(Owners(c)') = Cardinality(Owners(c) \ {s}) + 1
          BY <3>1, <3>2, <3>3, FS_AddElement
    <3> QED BY <3>2, <3>3, <3>4
  <2>2. CASE val[s] # c
    <3>1. Owners(c)' = Owners(c) BY <1>1, <2>2, SlotsAssumption DEF Owners
    <3> QED BY <3>1
  <2> QED BY <2>1, <2>2
<1> QED BY <1>1, <1>2 DEF CountsAreOwners

\* Value(Value&&) moves an owner, and leaves their number.
LEMMA TakeInv ==
  ASSUME HeapInv, NEW t \in Threads, NEW dst \in Slots, NEW src \in Slots, take(t, dst, src)
  PROVE  HeapInv'
<1>1. /\ Ready(t) /\ Fresh(t, dst) /\ val[dst] = Null /\ src # dst
      /\ val' = [val EXCEPT ![dst] = val[src], ![src] = Null]
      /\ refCount' = refCount /\ doomed' = doomed /\ op' = op
      BY DEF take, Fresh
<1>2. val' \in [Slots -> Containers \union {Null}] /\ CountsAreOwners'
      BY <1>1, MoveCounts DEF HeapInv
<1>3. TypeOK' BY <1>1, <1>2 DEF HeapInv, TypeOK
<1>4. ASSUME NEW u \in Threads, op[u].at # "idle"
      PROVE  val'[op[u].dst] \in {val[op[u].dst], Null}
  <2>1. op[u].dst \in Slots BY <1>4 DEF HeapInv, Working, Slots
  <2>2. dst # op[u].dst BY <1>1, <1>4, FreshSlot
  <2> QED BY <2>1, <2>2, <1>1 DEF HeapInv, TypeOK
<1>5. Working' BY <1>1, <1>4, WorkingKept DEF HeapInv
<1> QED BY <1>2, <1>3, <1>5 DEF HeapInv

\* The end of an assignment or a setter fills the destination, which is still empty.
LEMMA FinishInv ==
  ASSUME HeapInv, NEW t \in Threads, finish(t)
  PROVE  HeapInv'
<1> DEFINE d == op[t].dst
           s == op[t].src
<1>1. /\ op[t].at # "idle" /\ op' = [op EXCEPT ![t] = Idle] /\ doomed' = doomed
      BY DEF finish
<1>2. /\ d \in Slots /\ s \in Slots /\ val[d] = Null
      /\ (op[t].at # "build" => s # d)
      BY <1>1 DEF HeapInv, Working, Slots
<1>3. /\ val' \in [Slots -> Containers \union {Null}] /\ refCount' \in [Containers -> Int]
      /\ CountsAreOwners'
      /\ \A x \in Slots \ {d} : val'[x] = val[x] \/ val'[x] = Null
  <2>1. CASE op[t].at = "build"
    <3>1. PICK c \in Containers : doomed[c] = Null /\ refer(d, c) BY <2>1 DEF finish
    <3> QED BY <3>1, <1>1, <1>2, ReferCounts DEF HeapInv, TypeOK
  <2>2. CASE op[t].at = "copy"
    <3>1. refer(d, val[s]) BY <2>2 DEF finish
    <3>2. val[s] \in Containers \union {Null} BY <1>2 DEF HeapInv, TypeOK
    <3>3. val[s] # Null => s \in Owners(val[s]) BY <1>2 DEF Owners
    <3>4. val[s] # Null => doomed[val[s]] = Null
          BY <3>2, <3>3 DEF HeapInv, CountsAreOwners
    <3> QED BY <3>1, <3>2, <3>4, <1>1, <1>2, ReferCounts DEF HeapInv, TypeOK
  <2>3. CASE op[t].at = "move"
    <3>1. val' = [val EXCEPT ![d] = val[s], ![s] = Null] /\ refCount' = refCount
          BY <2>3 DEF finish
    <3>2. \A x \in Slots \ {d} : val'[x] = val[x] \/ val'[x] = Null
          BY <3>1, <1>2 DEF HeapInv, TypeOK
    <3> QED BY <2>3, <3>1, <3>2, <1>1, <1>2, MoveCounts DEF HeapInv, TypeOK
  <2> QED BY <2>1, <2>2, <2>3 DEF finish
<1>4. op'[t].at = "idle" /\ \A u \in Threads \ {t} : op'[u] = op[u]
      BY <1>1 DEF HeapInv, TypeOK, Idle
<1>5. TypeOK' BY <1>1, <1>3 DEF HeapInv, TypeOK, Idle
<1>6. ASSUME NEW u \in Threads \ {t}, op[u].at # "idle" PROVE val'[op[u].dst] = Null
  <2>1. op[u].dst \in Slots \ {d} /\ val[op[u].dst] = Null
        BY <1>1, <1>6 DEF HeapInv, Working, Slots
  <2> QED BY <2>1, <1>3
<1>7. Working' BY <1>4, <1>6 DEF HeapInv, Working
<1> QED BY <1>3, <1>5, <1>7 DEF HeapInv

\* Every step keeps types, counts and the operations under way.
LEMMA HeapInvStep ==
  ASSUME HeapInv, heapStep
  PROVE  HeapInv'
<1>1. PICK t \in Threads :
        \/ finish(t)
        \/ \E c \in Containers : destroyElement(t, c) \/ delete(t, c)
        \/ \E dst \in Slots : destroy(t, dst) \/ begin(t, "build", dst, dst)
        \/ \E dst, src \in Slots :
             copy(t, dst, src) \/ take(t, dst, src)
             \/ begin(t, "copy", dst, src) \/ begin(t, "move", dst, src)
      BY DEF heapStep
<1>2. CASE finish(t) BY <1>2, FinishInv
<1>3. ASSUME NEW c \in Containers, destroyElement(t, c) \/ delete(t, c) PROVE HeapInv'
      BY <1>3, DestroyElementInv, DeleteInv
<1>4. ASSUME NEW dst \in Slots, destroy(t, dst) \/ begin(t, "build", dst, dst) PROVE HeapInv'
      BY <1>4, DestroyInv, BeginInv
<1>5. ASSUME NEW dst \in Slots, NEW src \in Slots,
             copy(t, dst, src) \/ take(t, dst, src)
             \/ begin(t, "copy", dst, src) \/ begin(t, "move", dst, src)
      PROVE  HeapInv'
      BY <1>5, CopyInv, TakeInv, BeginInv
<1> QED BY <1>1, <1>2, <1>3, <1>4, <1>5

\* Nothing changes, so the invariant stays.
LEMMA HeapInvStutter ==
  ASSUME HeapInv, UNCHANGED heapVars
  PROVE  HeapInv'
<1>1. val' = val /\ refCount' = refCount /\ doomed' = doomed /\ op' = op BY DEF heapVars
<1>2. TypeOK' /\ Working' BY <1>1 DEF HeapInv, TypeOK, Working
<1>3. \A c \in Containers : Owners(c)' = Owners(c) BY <1>1 DEF Owners
<1>4. CountsAreOwners' BY <1>1, <1>3 DEF HeapInv, CountsAreOwners
<1> QED BY <1>2, <1>4 DEF HeapInv

\* Whatever several threads do with their values (Value.h:86-174), the reference
\* counts stay the numbers of owners and no container in use is deleted.
THEOREM CountsAreOwnersHolds == HeapSpec => []CountsAreOwners
<1>1. heapInit => HeapInv BY InitInv
<1>2. HeapInv /\ [heapStep]_heapVars => HeapInv' BY HeapInvStep, HeapInvStutter
<1>3. HeapInv => CountsAreOwners BY DEF HeapInv
<1> QED BY <1>1, <1>2, <1>3, PTL DEF HeapSpec

-----------------------------------------------------------------------------
(* What a thread can reach, as a function of the heap and the operations *)

OpType == [at : {"idle", "build", "copy", "move"}, dst : Slots \union {Null},
           src : Slots \union {Null}, inside : BOOLEAN, lost : BOOLEAN]

ClosedIn(v, S) == \A c \in S, i \in Indices : v[<<c, i>>] \in S \union {Null}

ClosureIn(v, S) ==
    {c \in Containers : \A T \in SUBSET Containers : S \subseteq T /\ ClosedIn(v, T) => c \in T}

\* The slots an operation under way works on.
NamedIn(o, t) == {o[t].dst, o[t].src} \ {Null}

RootsIn(v, o, t) ==
    {c \in Containers : \E i \in Indices : <<c, i>> \in NamedIn(o, t)}
    \union ({v[s] : s \in NamedIn(o, t) \union ({t} \X Variables)} \ {Null})

HeldIn(v, t) == {v[s] : s \in {t} \X Variables} \ {Null}

Named(t) == NamedIn(op, t)

\* The containers a thread reaches from its variables.
Own(t) == ClosureIn(val, HeldIn(val, t))

\* The closure of a set is the least closed set around it.
LEMMA ClosureLeast ==
  ASSUME NEW v \in [Slots -> Containers \union {Null}], NEW S \in SUBSET Containers
  PROVE  /\ ClosureIn(v, S) \in SUBSET Containers
         /\ S \subseteq ClosureIn(v, S)
         /\ ClosedIn(v, ClosureIn(v, S))
         /\ \A T \in SUBSET Containers :
               S \subseteq T /\ ClosedIn(v, T) => ClosureIn(v, S) \subseteq T
<1>1. ClosureIn(v, S) \in SUBSET Containers /\ S \subseteq ClosureIn(v, S) BY DEF ClosureIn
<1>2. ASSUME NEW c \in ClosureIn(v, S), NEW i \in Indices, v[<<c, i>>] # Null
      PROVE  v[<<c, i>>] \in ClosureIn(v, S)
  <2>1. c \in Containers /\ <<c, i>> \in Slots BY DEF ClosureIn, Slots
  <2>2. v[<<c, i>>] \in Containers BY <2>1, <1>2
  <2>3. ASSUME NEW T \in SUBSET Containers, S \subseteq T, ClosedIn(v, T)
        PROVE  v[<<c, i>>] \in T
    <3>1. c \in T BY <2>3 DEF ClosureIn
    <3> QED BY <3>1, <2>3, <1>2 DEF ClosedIn
  <2> QED BY <2>2, <2>3 DEF ClosureIn
<1>3. ClosedIn(v, ClosureIn(v, S)) BY <1>2 DEF ClosedIn
<1>4. \A T \in SUBSET Containers :
         S \subseteq T /\ ClosedIn(v, T) => ClosureIn(v, S) \subseteq T
      BY DEF ClosureIn
<1> QED BY <1>1, <1>3, <1>4

\* Reach, before a step and after it.
LEMMA ReachIs ==
  ASSUME NEW t \in Threads
  PROVE  /\ Reach(t) = ClosureIn(val, RootsIn(val, op, t))
         /\ Reach(t)' = ClosureIn(val', RootsIn(val', op', t))
BY DEF Reach, Closure, Closed, ClosureIn, ClosedIn, RootsIn, NamedIn

\* What a thread reaches holds the slots it works on, is closed, and is the least
\* such set.
LEMMA ReachInLeast ==
  ASSUME NEW v \in [Slots -> Containers \union {Null}], NEW o \in [Threads -> OpType],
         NEW t \in Threads, NEW R, R = ClosureIn(v, RootsIn(v, o, t))
  PROVE  /\ R \in SUBSET Containers /\ ClosedIn(v, R)
         /\ \A c \in Containers, i \in Indices : <<c, i>> \in NamedIn(o, t) => c \in R
         /\ \A s \in NamedIn(o, t) \union ({t} \X Variables) : v[s] \in R \union {Null}
         /\ \A T \in SUBSET Containers :
              /\ ClosedIn(v, T)
              /\ \A c \in Containers, i \in Indices : <<c, i>> \in NamedIn(o, t) => c \in T
              /\ \A s \in NamedIn(o, t) \union ({t} \X Variables) : v[s] \in T \union {Null}
              => R \subseteq T
<1> DEFINE S == RootsIn(v, o, t)
           N == NamedIn(o, t) \union ({t} \X Variables)
<1>1. N \subseteq Slots BY DEF NamedIn, OpType, Slots
<1>2. \A s \in N : v[s] \in Containers \union {Null} BY <1>1
<1>3. S = {c \in Containers : \E i \in Indices : <<c, i>> \in NamedIn(o, t)}
          \union ({v[s] : s \in N} \ {Null})
      BY DEF RootsIn
<1> HIDE DEF S, N
<1>4. S \in SUBSET Containers BY <1>2, <1>3
<1>5. /\ R \in SUBSET Containers /\ S \subseteq R /\ ClosedIn(v, R)
      /\ \A T \in SUBSET Containers : S \subseteq T /\ ClosedIn(v, T) => R \subseteq T
      BY <1>4, ClosureLeast DEF S
<1>6. \A T : /\ \A c \in Containers, i \in Indices : <<c, i>> \in NamedIn(o, t) => c \in T
             /\ \A s \in N : v[s] \in T \union {Null}
             => S \subseteq T
      BY <1>3
<1>7. \A c \in Containers, i \in Indices : <<c, i>> \in NamedIn(o, t) => c \in S BY <1>3
<1>8. \A s \in N : v[s] \in S \union {Null} BY <1>3
<1> QED BY <1>5, <1>6, <1>7, <1>8 DEF N

\* Reach of the present state.
LEMMA ReachNow ==
  ASSUME TypeOK, NEW t \in Threads
  PROVE  /\ Reach(t) \in SUBSET Containers /\ ClosedIn(val, Reach(t))
         /\ \A c \in Containers, i \in Indices : <<c, i>> \in Named(t) => c \in Reach(t)
         /\ \A s \in Named(t) \union ({t} \X Variables) : val[s] \in Reach(t) \union {Null}
         /\ \A s \in Readable(t) : val[s] \in Reach(t) \union {Null}
<1>1. val \in [Slots -> Containers \union {Null}] /\ op \in [Threads -> OpType]
      BY DEF TypeOK, OpType
<1>2. Reach(t) = ClosureIn(val, RootsIn(val, op, t)) BY ReachIs
<1> DEFINE R == Reach(t)
<1>3. R = ClosureIn(val, RootsIn(val, op, t)) BY <1>2
<1> HIDE DEF R
<1>4. /\ R \in SUBSET Containers /\ ClosedIn(val, R)
      /\ \A c \in Containers, i \in Indices : <<c, i>> \in Named(t) => c \in R
      /\ \A s \in Named(t) \union ({t} \X Variables) : val[s] \in R \union {Null}
      BY <1>1, <1>3, ReachInLeast DEF Named
<1>5. \A s \in ({t} \X Variables) \union (R \X Indices) : val[s] \in R \union {Null}
      BY <1>4 DEF ClosedIn
<1> QED BY <1>4, <1>5 DEF R, Readable

\* A closed set around the slots a thread works on next, and their values, holds
\* what it then reaches.
LEMMA ReachNext ==
  ASSUME TypeOK', NEW t \in Threads, NEW T \in SUBSET Containers, ClosedIn(val', T),
         \A c \in Containers, i \in Indices : <<c, i>> \in Named(t)' => c \in T,
         \A s \in Named(t)' \union ({t} \X Variables) : val'[s] \in T \union {Null}
  PROVE  Reach(t)' \subseteq T
<1>1. val' \in [Slots -> Containers \union {Null}] /\ op' \in [Threads -> OpType]
      BY DEF TypeOK, OpType
<1>2. PICK R : R = Reach(t)' OBVIOUS
<1>3. R = ClosureIn(val', RootsIn(val', op', t)) BY <1>2, ReachIs
<1>4. Named(t)' = NamedIn(op', t) BY DEF Named
<1>5. \A U \in SUBSET Containers :
          /\ ClosedIn(val', U)
          /\ \A c \in Containers, i \in Indices : <<c, i>> \in NamedIn(op', t) => c \in U
          /\ \A s \in NamedIn(op', t) \union ({t} \X Variables) : val'[s] \in U \union {Null}
          => R \subseteq U
      BY <1>1, <1>3, ReachInLeast
<1>6. R \subseteq T BY <1>4, <1>5
<1> QED BY <1>2, <1>6

\* The slots threads work on are those they did, or could name.
NamesReadable ==
    \A t \in Threads : Named(t)' \subseteq Named(t) \union Readable(t)

\* A step that only empties slots lets no thread reach more.
LEMMA ReachShrinks ==
  ASSUME TypeOK, TypeOK', NamesReadable, NEW t \in Threads,
         \A s \in Slots : val'[s] \in {val[s], Null}
  PROVE  Reach(t)' \subseteq Reach(t)
<1>1. PICK R : R = Reach(t) OBVIOUS
<1>2. /\ R \in SUBSET Containers /\ ClosedIn(val, R)
      /\ \A c \in Containers, i \in Indices : <<c, i>> \in Named(t) => c \in R
      /\ \A s \in Named(t) \union Readable(t) : val[s] \in R \union {Null}
      BY <1>1, ReachNow
<1>3. Readable(t) = ({t} \X Variables) \union (R \X Indices) BY <1>1 DEF Readable
<1>4. PICK N : N = Named(t)' OBVIOUS
<1>5. N \subseteq Named(t) \union Readable(t) BY <1>4 DEF NamesReadable
<1>6. N \subseteq Slots BY <1>4 DEF Named, NamedIn, TypeOK
<1>7. ClosedIn(val', R)
  <2> SUFFICES ASSUME NEW c \in R, NEW i \in Indices PROVE val'[<<c, i>>] \in R \union {Null}
      BY DEF ClosedIn
  <2>1. <<c, i>> \in Slots BY <1>2 DEF Slots
  <2> QED BY <2>1, <1>2 DEF ClosedIn
<1>8. ASSUME NEW c \in Containers, NEW i \in Indices, <<c, i>> \in N PROVE c \in R
  <2>1. <<c, i>> \notin {t} \X Variables
    <3>1. <<c, i>> \in Containers \X Indices OBVIOUS
    <3>2. {t} \X Variables \subseteq Threads \X Variables OBVIOUS
    <3> QED BY <3>1, <3>2, SlotsAssumption
  <2> QED BY <2>1, <1>2, <1>3, <1>5, <1>8
<1>9. ASSUME NEW s \in N \union ({t} \X Variables) PROVE val'[s] \in R \union {Null}
  <2>1. s \in Slots BY <1>6 DEF Slots
  <2>2. s \in Named(t) \union Readable(t) BY <1>3, <1>5
  <2> QED BY <2>1, <2>2, <1>2
<1>10. Reach(t)' \subseteq R BY <1>2, <1>4, <1>7, <1>8, <1>9, ReachNext
<1> QED BY <1>1, <1>10

\* A step that stores in slots what x reaches, or new containers, lets the threads
\* other than u reach no more than together they did, and the new containers.
LEMMA ReachSpreads ==
  ASSUME TypeOK, TypeOK', NamesReadable,
         NEW x \in Threads, NEW F \in SUBSET Containers,
         \A c \in F, i \in Indices : val[<<c, i>>] = Null,
         \A s \in Slots : val'[s] \in {val[s], Null} \union Reach(x) \union F,
         NEW u \in Threads \ {x}, NEW t \in Threads \ {u}
  PROVE  Reach(t)' \subseteq (UNION {Reach(y) : y \in Threads \ {u}}) \union F
<1> DEFINE A == UNION {Reach(y) : y \in Threads \ {u}}
           T == A \union F
<1>1. A \in SUBSET Containers /\ Reach(x) \subseteq A /\ Reach(t) \subseteq A BY ReachNow
<1>2. ClosedIn(val, A)
  <2>1. \A y \in Threads : ClosedIn(val, Reach(y)) BY ReachNow
  <2> QED BY <2>1 DEF ClosedIn
<1>3. PICK R : R = Reach(t) OBVIOUS
<1>4. /\ R \subseteq A
      /\ \A c \in Containers, i \in Indices : <<c, i>> \in Named(t) => c \in R
      /\ \A s \in Named(t) \union Readable(t) : val[s] \in R \union {Null}
      BY <1>1, <1>3, ReachNow
<1>5. Readable(t) = ({t} \X Variables) \union (R \X Indices) BY <1>3 DEF Readable
<1>6. PICK N : N = Named(t)' OBVIOUS
<1>7. N \subseteq Named(t) \union Readable(t) BY <1>6 DEF NamesReadable
<1>8. N \subseteq Slots BY <1>6 DEF Named, NamedIn, TypeOK
<1>9. \A s \in Slots : val'[s] \in {val[s], Null} \union T BY <1>1
<1> HIDE DEF A
<1>10. T \in SUBSET Containers BY <1>1
<1>11. ASSUME NEW c \in T, NEW i \in Indices PROVE val'[<<c, i>>] \in T \union {Null}
  <2>1. <<c, i>> \in Slots BY <1>10 DEF Slots
  <2>2. val[<<c, i>>] \in T \union {Null} BY <1>2 DEF ClosedIn
  <2> QED BY <2>1, <2>2, <1>9
<1>12. ASSUME NEW c \in Containers, NEW i \in Indices, <<c, i>> \in N PROVE c \in T
  <2>1. <<c, i>> \notin {t} \X Variables
    <3>1. <<c, i>> \in Containers \X Indices OBVIOUS
    <3>2. {t} \X Variables \subseteq Threads \X Variables OBVIOUS
    <3> QED BY <3>1, <3>2, SlotsAssumption
  <2> QED BY <2>1, <1>4, <1>5, <1>7, <1>12
<1>13. ASSUME NEW s \in N \union ({t} \X Variables) PROVE val'[s] \in T \union {Null}
  <2>1. s \in Slots BY <1>8 DEF Slots
  <2>2. s \in Named(t) \union Readable(t) BY <1>5, <1>7
  <2>3. val[s] \in T \union {Null} BY <2>2, <1>4
  <2> QED BY <2>1, <2>3, <1>9
<1> HIDE DEF T
<1>14. ClosedIn(val', T) BY <1>11 DEF ClosedIn
<1>15. Reach(t)' \subseteq T BY <1>6, <1>10, <1>12, <1>13, <1>14, ReachNext
<1> QED BY <1>15 DEF T, A

\* What a thread holds in its variables stays in its reach when a step leaves its
\* variables and the containers within.
LEMMA OwnKept ==
  ASSUME TypeOK, TypeOK', NEW t \in Threads,
         \A s \in ({t} \X Variables) \union (Own(t) \X Indices) : val'[s] = val[s]
  PROVE  Own(t) \subseteq Own(t)'
<1>1. PICK A : A = Own(t) OBVIOUS
<1>2. PICK B : B = Own(t)' OBVIOUS
<1>3. PICK H : H = HeldIn(val, t) OBVIOUS
<1>4. {t} \X Variables \subseteq Slots BY DEF Slots
<1>5. H \in SUBSET Containers BY <1>3, <1>4 DEF HeldIn, TypeOK
<1>6. HeldIn(val', t) = H BY <1>3 DEF HeldIn
<1>7. A = ClosureIn(val, H) BY <1>1, <1>3 DEF Own
<1>8. val \in [Slots -> Containers \union {Null}] BY DEF TypeOK
<1>9. /\ A \in SUBSET Containers /\ H \subseteq A /\ ClosedIn(val, A)
      /\ \A T \in SUBSET Containers : H \subseteq T /\ ClosedIn(val, T) => A \subseteq T
      BY <1>5, <1>7, <1>8, ClosureLeast
<1>10. B = ClosureIn(val', H) BY <1>2, <1>6 DEF Own
<1>11. H \subseteq B /\ ClosedIn(val', B) BY <1>5, <1>10, ClosureLeast DEF TypeOK
<1>12. ASSUME NEW c \in A \intersect B, NEW i \in Indices
       PROVE  val[<<c, i>>] \in (A \intersect B) \union {Null}
  <2>1. val'[<<c, i>>] = val[<<c, i>>] BY <1>1
  <2> QED BY <2>1, <1>9, <1>11 DEF ClosedIn
<1>13. ClosedIn(val, A \intersect B) BY <1>12 DEF ClosedIn
<1>14. A \subseteq A \intersect B BY <1>9, <1>11, <1>13
<1> QED BY <1>1, <1>2, <1>14

\* A container that nothing holds and nobody is deleting.
Free(c) == refCount[c] = 0 /\ doomed[c] = Null

\* What a thread reaches from its variables is in its reach, and has an owner: it is
\* neither free nor being deleted.
LEMMA OwnOwned ==
  ASSUME TypeOK, CountsAreOwners, NEW t \in Threads
  PROVE  /\ Own(t) \subseteq Reach(t)
         /\ Named(t) = {} => Reach(t) = Own(t)
         /\ \A c \in Own(t) : doomed[c] = Null /\ ~Free(c)
<1>1. PICK A : A = Own(t) OBVIOUS
<1>2. PICK H : H = HeldIn(val, t) OBVIOUS
<1>3. {t} \X Variables \subseteq Slots BY DEF Slots
<1>4. H \in SUBSET Containers BY <1>2, <1>3 DEF HeldIn, TypeOK
<1>5. /\ A \in SUBSET Containers
      /\ \A T \in SUBSET Containers : H \subseteq T /\ ClosedIn(val, T) => A \subseteq T
      BY <1>1, <1>2, <1>4, ClosureLeast DEF TypeOK, Own
<1>6. Own(t) \subseteq Reach(t)
  <2>1. PICK R : R = Reach(t) OBVIOUS
  <2>2. /\ R \in SUBSET Containers /\ ClosedIn(val, R)
        /\ \A s \in Named(t) \union ({t} \X Variables) : val[s] \in R \union {Null}
        BY <2>1, ReachNow
  <2>3. H \subseteq R BY <2>2, <1>2 DEF HeldIn
  <2> QED BY <2>1, <2>2, <2>3, <1>1, <1>5
<1>7. ASSUME Named(t) = {} PROVE Reach(t) = Own(t)
  <2>1. RootsIn(val, op, t) = HeldIn(val, t) BY <1>7 DEF RootsIn, HeldIn, Named
  <2> QED BY <2>1, ReachIs DEF Own
<1>8. ASSUME NEW c \in Own(t) PROVE doomed[c] = Null /\ ~Free(c)
  <2> DEFINE T == {b \in Containers : Owners(b) # {}}
  <2>1. \A s \in Slots : val[s] \in T \union {Null} BY DEF TypeOK, Owners
  <2>2. H \subseteq T BY <2>1, <1>2, <1>3 DEF HeldIn
  <2>3. ClosedIn(val, T) BY <2>1 DEF ClosedIn, Slots
  <2>4. T \in SUBSET Containers OBVIOUS
  <2>5. c \in T BY <2>2, <2>3, <2>4, <1>1, <1>5, <1>8
  <2>6. doomed[c] = Null /\ refCount[c] = Cardinality(Owners(c))
        BY <2>5 DEF CountsAreOwners
  <2>7. Cardinality(Owners(c)) # 0 BY <2>5, OwnersFinite, FS_EmptySet
  <2> QED BY <2>6, <2>7 DEF Free
<1> QED BY <1>6, <1>7, <1>8

-----------------------------------------------------------------------------
(* Whose source may be lost *)

\* The slots an operation under way is to change.
Changes(t) ==
    IF op[t].at = "idle" THEN {}
    ELSE {op[t].dst} \union (IF op[t].at = "move" THEN {op[t].src} ELSE {})

\* Nothing is in a container that is not in use.
FreeIsEmpty == \A c \in Containers : Free(c) => \A i \in Indices : val[<<c, i>>] = Null

\* A thread that does nothing names nothing.
Quiet(t) == op[t].at = "idle" => op[t] = Idle

\* The slots a thread works on lie in containers that are held, or being deleted.
InUse(t) ==
    ~op[t].lost =>
        \A c \in Containers, i \in Indices : Free(c) => <<c, i>> \notin Named(t)

\* No other thread reaches a slot that a thread is to change.
Isolated(t) ==
    \A u \in Threads \ {t} :
        Changes(t) \intersect (({u} \X Variables) \union (Reach(u) \X Indices)) = {}

\* Unless the source lies inside the old value of the destination, the thread goes
\* on reaching both from its variables.
StillHeld(t) ==
    ~op[t].inside =>
        \A c \in Containers, i \in Indices : <<c, i>> \in Named(t) => c \in Own(t)

OnlyInside(t) == op[t].lost => op[t].inside

Sound(t) == Quiet(t) /\ InUse(t) /\ Isolated(t) /\ StillHeld(t) /\ OnlyInside(t)

SourcesInv == HeapInv /\ FreeIsEmpty /\ \A t \in Threads : Sound(t)

\* No container becomes free: all that are free were so before.
NoneFreed == \A c \in Containers : Free(c)' => Free(c)

\* A thread that does nothing is in order.
LEMMA IdleSound ==
  ASSUME NEW t \in Threads, op'[t] = Idle
  PROVE  Sound(t)'
<1>1. NamedIn(op', t) = {} BY DEF NamedIn, Idle
<1>2. Changes(t)' = {} BY DEF Changes, Idle
<1>3. Quiet(t)' /\ OnlyInside(t)' BY DEF Quiet, OnlyInside, Idle
<1>4. InUse(t)' /\ StillHeld(t)' BY <1>1 DEF InUse, StillHeld, Named
<1>5. Isolated(t)' BY <1>2 DEF Isolated
<1> QED BY <1>3, <1>4, <1>5 DEF Sound

\* A thread names nothing while it does nothing.
LEMMA IdleNames ==
  ASSUME SourcesInv, NEW t \in Threads, op[t].at = "idle"
  PROVE  /\ op[t] = Idle /\ Named(t) = {} /\ Reach(t) = Own(t)
         /\ \A c \in Reach(t) : ~Free(c)
<1>1. op[t] = Idle BY DEF SourcesInv, Sound, Quiet
<1>2. Named(t) = {} BY <1>1 DEF Named, NamedIn, Idle
<1> QED BY <1>1, <1>2, OwnOwned DEF SourcesInv, HeapInv

\* A step that another thread takes, or the thread itself in the middle of its work,
\* leaves it in order when it keeps to what the thread does not hold.
LEMMA SoundKept ==
  ASSUME SourcesInv, TypeOK', NoneFreed, NEW F \in SUBSET Containers, \A c \in F : Free(c),
         NEW t \in Threads, op'[t] = op[t], ~op[t].lost,
         op[t].at # "idle" =>
            \A s \in ({t} \X Variables) \union (Own(t) \X Indices) : val'[s] = val[s],
         \A u \in Threads \ {t} :
            Reach(u)' \subseteq (UNION {Reach(y) : y \in Threads \ {t}}) \union F
  PROVE  Sound(t)'
<1>0. TypeOK /\ Sound(t) BY DEF SourcesInv, HeapInv
<1>1. CASE op[t].at = "idle"
  <2>1. op'[t] = Idle BY <1>1, IdleNames
  <2> QED BY <2>1, IdleSound
<1>2. CASE op[t].at # "idle"
  <2>1. NamedIn(op', t) = Named(t) /\ Changes(t)' = Changes(t)
        BY DEF NamedIn, Named, Changes
  <2>2. Quiet(t)' /\ OnlyInside(t)' BY <1>0 DEF Sound, Quiet, OnlyInside
  <2>3. InUse(t)' BY <1>0, <2>1 DEF Sound, InUse, Named, NoneFreed
  <2>4. Own(t) \subseteq Own(t)' BY <1>0, <1>2, OwnKept
  <2>5. StillHeld(t)' BY <1>0, <2>1, <2>4 DEF Sound, StillHeld, Named
  <2>6. ASSUME NEW u \in Threads \ {t}, NEW s \in Changes(t),
               s \in ({u} \X Variables) \union (Reach(u)' \X Indices)
        PROVE  FALSE
    <3>1. Changes(t) \intersect ({u} \X Variables) = {} BY <1>0 DEF Sound, Isolated
    <3>2. PICK c \in Reach(u)', i \in Indices : s = <<c, i>> BY <2>6, <3>1
    <3>3. CASE c \in UNION {Reach(y) : y \in Threads \ {t}}
      <4>1. PICK y \in Threads \ {t} : c \in Reach(y) BY <3>3
      <4> QED BY <4>1, <3>2, <1>0, <2>6 DEF Sound, Isolated
    <3>4. CASE c \in F
      <4>1. s \in Slots BY <3>2, <3>4 DEF Slots
      <4>2. s # Null BY <4>1, SlotsAssumption
      <4>3. s \in Named(t) BY <4>2, <2>6 DEF Changes, Named, NamedIn
      <4> QED BY <4>3, <3>2, <3>4, <1>0 DEF Sound, InUse
    <3> QED BY <3>2, <3>3, <3>4
  <2>7. Isolated(t)' BY <2>1, <2>6 DEF Isolated
  <2> QED BY <2>2, <2>3, <2>5, <2>7 DEF Sound
<1> QED BY <1>1, <1>2

\* Free containers stay empty when the one slot that is filled lies in none of them.
LEMMA EmptyKept ==
  ASSUME SourcesInv, NoneFreed, NEW d \in Slots,
         \A s \in Slots \ {d} : val'[s] \in {val[s], Null},
         \A c \in Containers, i \in Indices : d = <<c, i>> /\ Free(c) => val'[d] \in {val[d], Null}
  PROVE  FreeIsEmpty'
<1> SUFFICES ASSUME NEW c \in Containers, Free(c)', NEW i \in Indices PROVE val'[<<c, i>>] = Null
    BY DEF FreeIsEmpty
<1>1. Free(c) BY DEF NoneFreed
<1>2. val[<<c, i>>] = Null BY <1>1 DEF SourcesInv, FreeIsEmpty
<1>3. <<c, i>> \in Slots BY DEF Slots
<1> QED BY <1>1, <1>2, <1>3

\* The slots a thread may change are in nobody else's hands.
LEMMA WritableApart ==
  ASSUME TypeOK, CountsAreOwners, NEW x \in Threads, NEW t \in Threads \ {x},
         NEW s \in Writable(x)
  PROVE  s \notin ({t} \X Variables) \union (Reach(t) \X Indices) \union (Own(t) \X Indices)
<1>1. s \in ({x} \X Variables) \union (Reach(x) \X Indices) BY DEF Writable, Readable
<1>2. s \notin Reach(t) \X Indices BY DEF Writable
<1>3. Own(t) \subseteq Reach(t) BY OwnOwned
<1>4. Reach(x) \subseteq Containers BY ReachNow
<1>5. s \notin {t} \X Variables
  <2> SUFFICES ASSUME s \in {t} \X Variables PROVE FALSE OBVIOUS
  <2>1. s \in Threads \X Variables /\ s \notin {x} \X Variables OBVIOUS
  <2>2. s \in Containers \X Indices BY <2>1, <1>1, <1>4
  <2> QED BY <2>1, <2>2, SlotsAssumption
<1> QED BY <1>2, <1>3, <1>5

\* A release empties one slot, and frees nothing.
LEMMA ReleaseEmpties ==
  ASSUME TypeOK, NEW t \in Threads, NEW s \in Slots, release(t, s)
  PROVE  /\ val'[s] = Null /\ \A x \in Slots \ {s} : val'[x] = val[x]
         /\ NoneFreed
<1>1. CASE val[s] = Null
  <2>1. val' = val /\ refCount' = refCount /\ doomed' = doomed BY <1>1 DEF release
  <2> QED BY <1>1, <2>1 DEF NoneFreed, Free
<1>2. CASE val[s] # Null
  <2> DEFINE d == val[s]
  <2>1. d \in Containers BY <1>2 DEF TypeOK
  <2>2. /\ val' = [val EXCEPT ![s] = Null]
        /\ refCount' = [refCount EXCEPT ![d] = refCount[d] - 1]
        /\ doomed' = [doomed EXCEPT ![d] = IF refCount[d] = 1 THEN t ELSE doomed[d]]
        BY <1>2 DEF release
  <2>3. val'[s] = Null /\ \A x \in Slots \ {s} : val'[x] = val[x] BY <2>2 DEF TypeOK
  <2>4. ASSUME NEW c \in Containers, refCount'[c] = 0, doomed'[c] = Null
        PROVE  refCount[c] = 0 /\ doomed[c] = Null
    <3>1. CASE c # d BY <3>1, <2>1, <2>2, <2>4 DEF TypeOK
    <3>2. CASE c = d
      <4>1. refCount'[c] = refCount[c] - 1 /\ refCount[c] \in Int
            BY <3>2, <2>1, <2>2 DEF TypeOK
      <4>2. refCount[c] = 1 BY <4>1, <2>4
      <4>3. doomed'[c] = t BY <4>2, <3>2, <2>1, <2>2 DEF TypeOK
      <4>4. t # Null BY SlotsAssumption
      <4> QED BY <4>3, <4>4, <2>4
    <3> QED BY <3>1, <3>2
  <2> QED BY <2>3, <2>4 DEF NoneFreed, Free
<1> QED BY <1>1, <1>2

\* A new reference fills one slot, and frees nothing.
LEMMA ReferFills ==
  ASSUME TypeOK, CountsAreOwners, NEW s \in Slots, NEW c \in Containers \union {Null},
         refer(s, c), doomed' = doomed
  PROVE  /\ val'[s] = c /\ \A x \in Slots \ {s} : val'[x] = val[x]
         /\ NoneFreed
<1>1. val'[s] = c /\ \A x \in Slots \ {s} : val'[x] = val[x] BY DEF refer, TypeOK
<1>2. ASSUME NEW b \in Containers, refCount'[b] = 0 PROVE refCount[b] = 0
  <2>1. refCount[b] \in Nat BY OwnersFinite, FS_CardinalityType DEF CountsAreOwners
  <2>2. refCount'[b] = refCount[b] \/ refCount'[b] = refCount[b] + 1 BY DEF refer, TypeOK
  <2> QED BY <2>1, <2>2, <1>2
<1>3. NoneFreed BY <1>2 DEF NoneFreed, Free
<1> QED BY <1>1, <1>3

-----------------------------------------------------------------------------
(* The steps *)

\* ~Value in any thread leaves those in order that keep their operation and do not
\* hold the slot that is emptied.
LEMMA ReleaseSound ==
  ASSUME SourcesInv, TypeOK', NamesReadable, NEW x \in Threads, NEW s \in Slots, release(x, s),
         NEW t \in Threads, op'[t] = op[t], ~op[t].lost,
         op[t].at # "idle" => s \notin ({t} \X Variables) \union (Own(t) \X Indices)
  PROVE  Sound(t)'
<1>0. TypeOK BY DEF SourcesInv, HeapInv
<1>1. val'[s] = Null /\ (\A y \in Slots \ {s} : val'[y] = val[y]) /\ NoneFreed
      BY <1>0, ReleaseEmpties
<1>2. \A y \in Slots : val'[y] \in {val[y], Null} BY <1>1
<1>3. \A u \in Threads : Reach(u)' \subseteq Reach(u) BY <1>0, <1>2, ReachShrinks
<1> DEFINE A == UNION {Reach(y) : y \in Threads \ {t}}
<1>4. \A u \in Threads \ {t} : Reach(u)' \subseteq A BY <1>3
<1>5. Own(t) \subseteq Containers BY DEF Own, ClosureIn
<1>6. ({t} \X Variables) \union (Own(t) \X Indices) \subseteq Slots BY <1>5 DEF Slots
<1>7. op[t].at # "idle" =>
        \A y \in ({t} \X Variables) \union (Own(t) \X Indices) : val'[y] = val[y]
      BY <1>1, <1>6
<1> HIDE DEF A
<1>8. PICK F \in SUBSET Containers : F = {} OBVIOUS
<1>9. (\A c \in F : Free(c)) /\ \A u \in Threads \ {t} : Reach(u)' \subseteq A \union F
      BY <1>4, <1>8
<1> QED BY <1>1, <1>7, <1>9, SoundKept DEF A

\* ~Value leaves free containers empty.
LEMMA ReleaseKeepsEmpty ==
  ASSUME SourcesInv, NEW x \in Threads, NEW s \in Slots, release(x, s)
  PROVE  FreeIsEmpty'
<1>1. val'[s] = Null /\ (\A y \in Slots \ {s} : val'[y] = val[y]) /\ NoneFreed
      BY ReleaseEmpties DEF SourcesInv, HeapInv
<1> QED BY <1>1, EmptyKept

\* Operations that stay name the slots they did.
LEMMA SameNames ==
  ASSUME op' = op
  PROVE  NamesReadable
BY DEF NamesReadable, Named, NamedIn

\* ~Value and the setters of scalars.
LEMMA DestroySources ==
  ASSUME SourcesInv, \A u \in Threads : ~op[u].lost,
         NEW t \in Threads, NEW dst \in Slots, destroy(t, dst)
  PROVE  SourcesInv'
<1>1. Ready(t) /\ dst \in Writable(t) /\ release(t, dst) /\ op' = op BY DEF destroy
<1>2. TypeOK /\ CountsAreOwners BY DEF SourcesInv, HeapInv
<1>3. HeapInv' /\ TypeOK' BY DestroyInv DEF SourcesInv, HeapInv
<1>4. FreeIsEmpty' BY <1>1, ReleaseKeepsEmpty
<1>5. NamesReadable BY <1>1, SameNames
<1>6. ASSUME NEW u \in Threads PROVE Sound(u)'
  <2>1. op[u].at # "idle" => dst \notin ({u} \X Variables) \union (Own(u) \X Indices)
    <3> SUFFICES ASSUME op[u].at # "idle"
                 PROVE  dst \notin ({u} \X Variables) \union (Own(u) \X Indices)
        OBVIOUS
    <3>1. u # t BY <1>1 DEF Ready
    <3> QED BY <3>1, <1>1, <1>2, WritableApart
  <2> QED BY <2>1, <1>1, <1>3, <1>5, ReleaseSound
<1> QED BY <1>3, <1>4, <1>6 DEF SourcesInv

\* ~Json releases an element: nobody holds the container it deletes.
LEMMA DestroyElementSources ==
  ASSUME SourcesInv, \A u \in Threads : ~op[u].lost,
         NEW t \in Threads, NEW c \in Containers, destroyElement(t, c)
  PROVE  SourcesInv'
<1>1. PICK i \in Indices : release(t, <<c, i>>) BY DEF destroyElement
<1>2. <<c, i>> \in Slots /\ op' = op /\ doomed[c] = t BY DEF Slots, destroyElement
<1>3. TypeOK /\ CountsAreOwners BY DEF SourcesInv, HeapInv
<1>4. HeapInv' /\ TypeOK' BY DestroyElementInv DEF SourcesInv, HeapInv
<1>5. FreeIsEmpty' BY <1>1, <1>2, ReleaseKeepsEmpty
<1>6. NamesReadable BY <1>2, SameNames
<1>7. ASSUME NEW u \in Threads PROVE Sound(u)'
  <2>1. t # Null BY SlotsAssumption
  <2>2. c \notin Own(u) BY <2>1, <1>2, <1>3, OwnOwned
  <2>3. <<c, i>> \notin {u} \X Variables
    <3>1. <<c, i>> \in Containers \X Indices OBVIOUS
    <3>2. {u} \X Variables \subseteq Threads \X Variables OBVIOUS
    <3> QED BY <3>1, <3>2, SlotsAssumption
  <2>4. <<c, i>> \notin ({u} \X Variables) \union (Own(u) \X Indices) BY <2>2, <2>3
  <2> QED BY <2>4, <1>1, <1>2, <1>4, <1>6, ReleaseSound
<1> QED BY <1>4, <1>5, <1>7 DEF SourcesInv

\* The memory of a container is given back.  A source that lay in it was one inside
\* the old value of the destination: the thread does not hold what is deleted.
LEMMA DeleteSources ==
  ASSUME SourcesInv, \A u \in Threads : ~op[u].lost,
         NEW t \in Threads, NEW c \in Containers, delete(t, c)
  PROVE  SourcesInv'
<1>0. TypeOK /\ CountsAreOwners BY DEF SourcesInv, HeapInv
<1>1. /\ doomed[c] = t /\ \A i \in Indices : val[<<c, i>>] = Null
      /\ doomed' = [doomed EXCEPT ![c] = Null] /\ val' = val /\ refCount' = refCount
      /\ op' = [u \in Threads |->
                  [op[u] EXCEPT !.lost = @ \/ {op[u].dst, op[u].src} \intersect ({c} \X Indices) # {}]]
      BY DEF delete
<1>2. HeapInv' BY DeleteInv DEF SourcesInv
<1>3. \A b \in Containers : Free(b)' => Free(b) \/ b = c BY <1>0, <1>1 DEF Free, TypeOK
<1>4. FreeIsEmpty' BY <1>1, <1>3 DEF SourcesInv, FreeIsEmpty
<1>5. ASSUME NEW u \in Threads
      PROVE  /\ op'[u].at = op[u].at /\ op'[u].dst = op[u].dst /\ op'[u].src = op[u].src
             /\ op'[u].inside = op[u].inside
             /\ op'[u].lost <=> {op[u].dst, op[u].src} \intersect ({c} \X Indices) # {}
  <2>1. op[u] \in OpType BY <1>0 DEF TypeOK, OpType
  <2>2. op'[u] = [op[u] EXCEPT !.lost = op[u].lost \/ {op[u].dst, op[u].src} \intersect ({c} \X Indices) # {}]
        BY <1>1
  <2>3. /\ op'[u].at = op[u].at /\ op'[u].dst = op[u].dst /\ op'[u].src = op[u].src
        /\ op'[u].inside = op[u].inside
        BY <2>1, <2>2 DEF OpType
  <2>4. op'[u].lost = (op[u].lost \/ {op[u].dst, op[u].src} \intersect ({c} \X Indices) # {})
        BY <2>1, <2>2 DEF OpType
  <2> QED BY <2>3, <2>4
<1>6. ASSUME NEW u \in Threads
      PROVE  Named(u)' = Named(u) /\ Changes(u)' = Changes(u) /\ Reach(u)' = Reach(u) /\ Own(u)' = Own(u)
  <2>1. NamedIn(op', u) = NamedIn(op, u) BY <1>5 DEF NamedIn
  <2>2. Changes(u)' = Changes(u) BY <1>5 DEF Changes
  <2>3. RootsIn(val', op', u) = RootsIn(val, op, u) BY <2>1, <1>1 DEF RootsIn
  <2>4. Reach(u)' = Reach(u) BY <2>3, <1>1, ReachIs
  <2>5. Own(u)' = Own(u) BY <1>1 DEF Own
  <2> QED BY <2>1, <2>2, <2>4, <2>5 DEF Named
<1>7. ASSUME NEW u \in Threads PROVE Sound(u)'
  <2>0. Sound(u) BY DEF SourcesInv
  <2>1. Isolated(u)' BY <2>0, <1>6 DEF Sound, Isolated
  <2>2. StillHeld(u)' BY <2>0, <1>5, <1>6 DEF Sound, StillHeld
  <2>3. InUse(u)'
    <3> SUFFICES ASSUME ~op'[u].lost, NEW b \in Containers, NEW i \in Indices, Free(b)'
                 PROVE  <<b, i>> \notin Named(u)'
        BY DEF InUse
    <3>1. CASE b = c
      <4>0. {op[u].dst, op[u].src} \intersect ({c} \X Indices) = {} BY <1>5
      <4>1. <<c, i>> \in {c} \X Indices OBVIOUS
      <4>2. <<c, i>> \notin {op[u].dst, op[u].src} BY <4>0, <4>1
      <4> QED BY <4>2, <3>1, <1>6 DEF Named, NamedIn
    <3>2. CASE b # c BY <3>2, <2>0, <1>3, <1>6 DEF Sound, InUse
    <3> QED BY <3>1, <3>2
  <2>4. OnlyInside(u)'
    <3> SUFFICES ASSUME op'[u].lost, ~op[u].inside PROVE FALSE BY <1>5 DEF OnlyInside
    <3>1. PICK s \in {op[u].dst, op[u].src}, i \in Indices : s = <<c, i>> BY <1>5
    <3>2. <<c, i>> \in Slots BY DEF Slots
    <3>3. <<c, i>> \in Named(u) BY <3>1, <3>2, SlotsAssumption DEF Named, NamedIn
    <3>4. c \in Own(u) BY <3>3, <2>0 DEF Sound, StillHeld
    <3>5. doomed[c] = Null BY <3>4, <1>0, OwnOwned
    <3> QED BY <3>5, <1>1, SlotsAssumption
  <2>5. Quiet(u)'
    <3> SUFFICES ASSUME op[u].at = "idle" PROVE op'[u] = Idle BY <1>5 DEF Quiet
    <3>1. op[u] = Idle BY <2>0 DEF Sound, Quiet
    <3>2. Null \notin {c} \X Indices
      <4>1. {c} \X Indices \subseteq Slots BY DEF Slots
      <4> QED BY <4>1, SlotsAssumption
    <3>3. {op[u].dst, op[u].src} \intersect ({c} \X Indices) = {} BY <3>1, <3>2 DEF Idle
    <3>4. op'[u].lost = FALSE BY <3>1, <3>3, <1>0, <1>2, <1>5 DEF HeapInv, TypeOK
    <3>5. op'[u] \in OpType BY <1>2 DEF HeapInv, TypeOK, OpType
    <3>6. /\ op'[u].at = "idle" /\ op'[u].dst = Null /\ op'[u].src = Null
          /\ op'[u].inside = FALSE
          BY <3>1, <1>5 DEF Idle
    <3> QED BY <3>4, <3>5, <3>6 DEF OpType, Idle
  <2> QED BY <2>1, <2>2, <2>3, <2>4, <2>5 DEF Sound
<1> QED BY <1>2, <1>4, <1>7 DEF SourcesInv

\* What a thread holds outside the old value of a slot it still holds when the slot
\* is emptied; and it still holds the container the slot lies in.
LEMMA CutKeeps ==
  ASSUME TypeOK, TypeOK', NEW t \in Threads, NEW dst \in Slots,
         val'[dst] = Null, \A s \in Slots \ {dst} : val'[s] = val[s],
         NEW c \in Own(t), NEW i \in Indices,
         c \notin Within(val[dst]) \/ dst = <<c, i>>
  PROVE  c \in Own(t)'
<1>1. PICK A : A = Own(t) OBVIOUS
<1>2. PICK B : B = Own(t)' OBVIOUS
<1>3. PICK H : H = HeldIn(val, t) OBVIOUS
<1>4. PICK G : G = HeldIn(val', t) OBVIOUS
<1>5. {t} \X Variables \subseteq Slots BY DEF Slots
<1>6. H \in SUBSET Containers /\ G \in SUBSET Containers
      BY <1>3, <1>4, <1>5 DEF HeldIn, TypeOK
<1>7. val \in [Slots -> Containers \union {Null}] /\ val' \in [Slots -> Containers \union {Null}]
      BY DEF TypeOK
<1>8. A = ClosureIn(val, H) /\ B = ClosureIn(val', G) BY <1>1, <1>2, <1>3, <1>4 DEF Own
<1>9. \A T \in SUBSET Containers : H \subseteq T /\ ClosedIn(val, T) => A \subseteq T
      BY <1>6, <1>7, <1>8, ClosureLeast
<1>10. B \in SUBSET Containers /\ G \subseteq B /\ ClosedIn(val', B)
       BY <1>6, <1>7, <1>8, ClosureLeast
<1>11. CASE dst = <<c, i>>
  <2> SUFFICES ASSUME c \notin B PROVE FALSE BY <1>2
  <2>1. \A s \in {t} \X Variables : val'[s] = val[s]
    <3>1. c \in Containers BY DEF Own, ClosureIn
    <3>2. dst \in Containers \X Indices BY <3>1, <1>11
    <3>3. dst \notin {t} \X Variables BY <3>2, SlotsAssumption
    <3> QED BY <3>3, <1>5
  <2>2. H \subseteq B BY <2>1, <1>3, <1>4, <1>10 DEF HeldIn
  <2>3. ASSUME NEW b \in B, NEW j \in Indices PROVE val[<<b, j>>] \in B \union {Null}
    <3>1. <<b, j>> # dst /\ <<b, j>> \in Slots BY <1>10, <1>11 DEF Slots
    <3> QED BY <3>1, <1>10 DEF ClosedIn
  <2>4. ClosedIn(val, B) BY <2>3 DEF ClosedIn
  <2>5. A \subseteq B BY <2>2, <2>4, <1>9, <1>10
  <2> QED BY <2>5, <1>1
<1>12. CASE c \notin Within(val[dst])
  <2>1. PICK W : W = Within(val[dst]) OBVIOUS
  <2>2. W \in SUBSET Containers /\ ClosedIn(val, W) /\ val[dst] \in W \union {Null}
    <3>1. CASE val[dst] = Null
      <4>1. W = {} BY <3>1, <2>1 DEF Within
      <4> QED BY <4>1, <3>1 DEF ClosedIn
    <3>2. CASE val[dst] # Null
      <4>1. {val[dst]} \in SUBSET Containers BY <3>2 DEF TypeOK
      <4>2. W = ClosureIn(val, {val[dst]})
            BY <3>2, <2>1 DEF Within, Closure, Closed, ClosureIn, ClosedIn
      <4> QED BY <4>1, <4>2, <1>7, ClosureLeast
    <3> QED BY <3>1, <3>2
  <2>3. \A s \in Slots : val'[s] \in B \union {Null} => val[s] \in (B \union W) \union {Null}
        BY <2>2
  <2>4. H \subseteq B \union W
    <3>1. \A s \in {t} \X Variables : val'[s] \in B \union {Null} BY <1>4, <1>10 DEF HeldIn
    <3> QED BY <3>1, <2>3, <1>3, <1>5 DEF HeldIn
  <2>5. ASSUME NEW b \in B \union W, NEW j \in Indices
        PROVE  val[<<b, j>>] \in (B \union W) \union {Null}
    <3>1. CASE b \in B
      <4>1. <<b, j>> \in Slots /\ val'[<<b, j>>] \in B \union {Null}
            BY <3>1, <1>10 DEF Slots, ClosedIn
      <4> QED BY <4>1, <2>3
    <3>2. CASE b \in W BY <3>2, <2>2 DEF ClosedIn
    <3> QED BY <3>1, <3>2
  <2>6. ClosedIn(val, B \union W) BY <2>5 DEF ClosedIn
  <2>7. A \subseteq B \union W BY <2>2, <2>4, <2>6, <1>9, <1>10
  <2> QED BY <2>1, <2>7, <1>1, <1>2, <1>12
<1> QED BY <1>11, <1>12

\* An assignment or a setter begins: it names what its thread holds, and changes what
\* no other reaches.  With a source outside the old value the thread goes on holding it.
LEMMA BeginSources ==
  ASSUME SourcesInv, \A u \in Threads : ~op[u].lost,
         NEW t \in Threads, NEW at \in {"build", "copy", "move"},
         NEW dst \in Slots, NEW src \in Slots, begin(t, at, dst, src)
  PROVE  SourcesInv'
<1>0. TypeOK /\ CountsAreOwners BY DEF SourcesInv, HeapInv
<1>1. /\ Ready(t) /\ dst \in Writable(t) /\ release(t, dst)
      /\ at = "build" => src = dst
      /\ at # "build" => src \in IF at = "move" THEN Writable(t) ELSE Readable(t)
      /\ op' = [op EXCEPT ![t] = [at |-> at, dst |-> dst, src |-> src, lost |-> FALSE,
                                  inside |-> src \in (Within(val[dst]) \X Indices)]]
      BY DEF begin
<1>2. HeapInv' /\ TypeOK' BY BeginInv DEF SourcesInv, HeapInv
<1>3. FreeIsEmpty' BY <1>1, ReleaseKeepsEmpty
<1>4. /\ op'[t].at = at /\ op'[t].dst = dst /\ op'[t].src = src /\ op'[t].lost = FALSE
      /\ op'[t].inside = (src \in (Within(val[dst]) \X Indices))
      /\ \A u \in Threads \ {t} : op'[u] = op[u]
      BY <1>0, <1>1 DEF TypeOK
<1>5. dst \in Readable(t) /\ src \in Readable(t) BY <1>1 DEF Writable
<1>6. dst # Null /\ src # Null BY SlotsAssumption
<1>7. Named(t)' = {dst, src}
  <2>1. NamedIn(op', t) = {dst, src} BY <1>4, <1>6 DEF NamedIn
  <2> QED BY <2>1 DEF Named
<1>8. NamesReadable
  <2>1. \A u \in Threads \ {t} : NamedIn(op', u) = NamedIn(op, u) BY <1>4 DEF NamedIn
  <2>2. Named(t)' \subseteq Readable(t) BY <1>5, <1>7
  <2>3. \A u \in Threads \ {t} : Named(u)' = Named(u) BY <2>1 DEF Named
  <2> QED BY <2>2, <2>3 DEF NamesReadable
<1>9. ASSUME NEW u \in Threads \ {t} PROVE Sound(u)'
  <2>1. dst \notin ({u} \X Variables) \union (Own(u) \X Indices) BY <1>0, <1>1, WritableApart
  <2> QED BY <2>1, <1>1, <1>2, <1>4, <1>8, ReleaseSound
<1>10. val'[dst] = Null /\ (\A y \in Slots \ {dst} : val'[y] = val[y]) /\ NoneFreed
       BY <1>0, <1>1, ReleaseEmpties
<1>11. Reach(t) = Own(t) /\ \A c \in Reach(t) : ~Free(c) BY <1>1, IdleNames DEF Ready
<1>12. ASSUME NEW c \in Containers, NEW i \in Indices, <<c, i>> \in {dst, src}
       PROVE  c \in Own(t)
  <2>1. <<c, i>> \notin {t} \X Variables
    <3>1. <<c, i>> \in Containers \X Indices OBVIOUS
    <3>2. {t} \X Variables \subseteq Threads \X Variables OBVIOUS
    <3> QED BY <3>1, <3>2, SlotsAssumption
  <2>2. <<c, i>> \in Readable(t) BY <1>5, <1>12
  <2> QED BY <2>1, <2>2, <1>11 DEF Readable
<1>13. Sound(t)'
  <2>1. Quiet(t)' BY <1>4 DEF Quiet
  <2>2. OnlyInside(t)' BY <1>4 DEF OnlyInside
  <2>3. InUse(t)'
    <3>1. \A c \in Containers, i \in Indices : Free(c)' => <<c, i>> \notin {dst, src}
          BY <1>10, <1>11, <1>12 DEF NoneFreed
    <3> QED BY <3>1, <1>7 DEF InUse
  <2>4. Isolated(t)'
    <3>1. Changes(t)' = {dst} \union (IF at = "move" THEN {src} ELSE {})
          BY <1>4 DEF Changes
    <3>2. \A s \in Changes(t)' : s \in Writable(t) BY <3>1, <1>1
    <3>3. \A y \in Slots : val'[y] \in {val[y], Null} BY <1>10
    <3>4. ASSUME NEW u \in Threads \ {t}, NEW s \in Changes(t)'
          PROVE  s \notin ({u} \X Variables) \union (Reach(u)' \X Indices)
      <4>1. Reach(u)' \subseteq Reach(u) BY <1>0, <1>2, <1>8, <3>3, ReachShrinks
      <4>2. s \notin ({u} \X Variables) \union (Reach(u) \X Indices)
            BY <3>2, <1>0, WritableApart
      <4> QED BY <4>1, <4>2
    <3> QED BY <3>4 DEF Isolated
  <2>5. StillHeld(t)'
    <3> SUFFICES ASSUME ~op'[t].inside, NEW c \in Containers, NEW i \in Indices,
                        <<c, i>> \in Named(t)'
                 PROVE  c \in Own(t)'
        BY DEF StillHeld
    <3>1. c \in Own(t) BY <1>7, <1>12
    <3>2. c \notin Within(val[dst]) \/ dst = <<c, i>>
      <4>1. CASE <<c, i>> = dst BY <4>1
      <4>2. CASE <<c, i>> = src
        <5>1. src \notin (Within(val[dst]) \X Indices) BY <1>4
        <5> QED BY <5>1, <4>2
      <4> QED BY <4>1, <4>2, <1>7
    <3> QED BY <3>1, <3>2, <1>0, <1>2, <1>10, CutKeeps
  <2> QED BY <2>1, <2>2, <2>3, <2>4, <2>5 DEF Sound
<1> QED BY <1>2, <1>3, <1>9, <1>13 DEF SourcesInv

\* A step of x that stores what x reaches, or a new container, leaves in order the
\* threads that keep their operation and do not hold the slots that change.
LEMMA StoreSound ==
  ASSUME SourcesInv, TypeOK', NamesReadable, NoneFreed,
         NEW x \in Threads, NEW F \in SUBSET Containers, \A c \in F : Free(c),
         \A s \in Slots : val'[s] \in {val[s], Null} \union Reach(x) \union F,
         NEW W, \A s \in Slots \ W : val'[s] = val[s],
         NEW t \in Threads \ {x}, op'[t] = op[t], ~op[t].lost,
         op[t].at # "idle" =>
            \A s \in W : s \notin ({t} \X Variables) \union (Own(t) \X Indices)
  PROVE  Sound(t)'
<1>0. TypeOK BY DEF SourcesInv, HeapInv
<1>1. \A c \in F, i \in Indices : val[<<c, i>>] = Null BY DEF SourcesInv, FreeIsEmpty
<1>2. \A u \in Threads \ {t} :
          Reach(u)' \subseteq (UNION {Reach(y) : y \in Threads \ {t}}) \union F
      BY <1>0, <1>1, ReachSpreads
<1>3. Own(t) \subseteq Containers BY DEF Own, ClosureIn
<1>4. ({t} \X Variables) \union (Own(t) \X Indices) \subseteq Slots BY <1>3 DEF Slots
<1>5. op[t].at # "idle" =>
        \A y \in ({t} \X Variables) \union (Own(t) \X Indices) : val'[y] = val[y]
      BY <1>4
<1> QED BY <1>2, <1>5, SoundKept

\* A slot that a value may be constructed in is held by no thread at work, and lies in
\* no free container.
LEMMA FreshApart ==
  ASSUME SourcesInv, NEW x \in Threads, NEW dst \in Slots, Ready(x), Fresh(x, dst)
  PROVE  /\ \A t \in Threads : op[t].at # "idle" =>
               dst \notin ({t} \X Variables) \union (Own(t) \X Indices)
         /\ \A c \in Containers, i \in Indices : dst = <<c, i>> => ~Free(c)
<1>0. TypeOK /\ CountsAreOwners BY DEF SourcesInv, HeapInv
<1>1. op[x].at = "idle" BY DEF Ready
<1>2. CASE dst \in Writable(x)
  <2>1. \A t \in Threads \ {x} : dst \notin ({t} \X Variables) \union (Own(t) \X Indices)
        BY <1>0, <1>2, WritableApart
  <2>2. ASSUME NEW c \in Containers, NEW i \in Indices, dst = <<c, i>> PROVE ~Free(c)
    <3>1. dst \notin {x} \X Variables
      <4>1. dst \in Containers \X Indices BY <2>2
      <4>2. {x} \X Variables \subseteq Threads \X Variables OBVIOUS
      <4> QED BY <4>1, <4>2, SlotsAssumption
    <3>2. dst \in Reach(x) \X Indices BY <3>1, <1>2 DEF Writable, Readable
    <3>3. c \in Reach(x) BY <3>2, <2>2
    <3> QED BY <3>3, <1>1, IdleNames
  <2> QED BY <2>1, <2>2, <1>1
<1>3. CASE \E w \in Threads \ {x} : op[w].at = "idle" /\ dst \in {w} \X Variables
  <2>1. PICK w \in Threads \ {x} : op[w].at = "idle" /\ dst \in {w} \X Variables BY <1>3
  <2>2. dst \in Threads \X Variables BY <2>1
  <2>3. dst \notin Containers \X Indices BY <2>2, SlotsAssumption
  <2>4. ASSUME NEW t \in Threads, op[t].at # "idle"
        PROVE  dst \notin ({t} \X Variables) \union (Own(t) \X Indices)
    <3>1. t # w BY <2>1, <2>4
    <3>2. dst \notin {t} \X Variables BY <2>1, <3>1
    <3>3. Own(t) \subseteq Containers BY DEF Own, ClosureIn
    <3> QED BY <2>3, <3>2, <3>3
  <2> QED BY <2>3, <2>4
<1> QED BY <1>2, <1>3 DEF Fresh

\* Value(const Value&) stores what the thread reaches.
LEMMA CopySources ==
  ASSUME SourcesInv, \A u \in Threads : ~op[u].lost,
         NEW t \in Threads, NEW dst \in Slots, NEW src \in Slots, copy(t, dst, src)
  PROVE  SourcesInv'
<1>0. TypeOK /\ CountsAreOwners BY DEF SourcesInv, HeapInv
<1>1. /\ Ready(t) /\ Fresh(t, dst) /\ src \in Readable(t) /\ refer(dst, val[src])
      /\ doomed' = doomed /\ op' = op
      BY DEF copy
<1>2. HeapInv' /\ TypeOK' BY CopyInv DEF SourcesInv, HeapInv
<1>3. val[src] \in Containers \union {Null} BY <1>0 DEF TypeOK
<1>4. val'[dst] = val[src] /\ (\A y \in Slots \ {dst} : val'[y] = val[y]) /\ NoneFreed
      BY <1>0, <1>1, <1>3, ReferFills
<1>5. val[src] \in Reach(t) \union {Null} BY <1>0, <1>1, ReachNow
<1>6. NamesReadable BY <1>1, SameNames
<1>7. \A s \in Slots : val'[s] \in {val[s], Null} \union Reach(t) BY <1>4, <1>5
<1>8. FreeIsEmpty'
  <2>1. \A c \in Containers, i \in Indices : dst = <<c, i>> => ~Free(c) BY <1>1, FreshApart
  <2> QED BY <2>1, <1>4, EmptyKept
<1>9. ASSUME NEW u \in Threads PROVE Sound(u)'
  <2>1. CASE u = t
    <3>1. op'[u] = Idle BY <2>1, <1>1, IdleNames DEF Ready
    <3> QED BY <3>1, IdleSound
  <2>2. CASE u # t
    <3>1. PICK F \in SUBSET Containers : F = {} OBVIOUS
    <3>2. PICK W : W = {dst} OBVIOUS
    <3>3. /\ \A c \in F : Free(c)
          /\ \A s \in Slots : val'[s] \in {val[s], Null} \union Reach(t) \union F
          /\ \A s \in Slots \ W : val'[s] = val[s]
          /\ op[u].at # "idle" =>
                \A s \in W : s \notin ({u} \X Variables) \union (Own(u) \X Indices)
          BY <3>1, <3>2, <1>1, <1>4, <1>7, FreshApart
    <3> QED BY <3>3, <2>2, <1>1, <1>2, <1>4, <1>6, StoreSound
  <2> QED BY <2>1, <2>2
<1> QED BY <1>2, <1>8, <1>9 DEF SourcesInv

\* Value(Value&&) stores what the thread reaches, and empties a slot only it may change.
LEMMA TakeSources ==
  ASSUME SourcesInv, \A u \in Threads : ~op[u].lost,
         NEW t \in Threads, NEW dst \in Slots, NEW src \in Slots, take(t, dst, src)
  PROVE  SourcesInv'
<1>0. TypeOK /\ CountsAreOwners BY DEF SourcesInv, HeapInv
<1>1. /\ Ready(t) /\ Fresh(t, dst) /\ src \in Writable(t) /\ src # dst
      /\ val' = [val EXCEPT ![dst] = val[src], ![src] = Null]
      /\ refCount' = refCount /\ doomed' = doomed /\ op' = op
      BY DEF take
<1>2. HeapInv' /\ TypeOK' BY TakeInv DEF SourcesInv, HeapInv
<1>3. /\ val'[dst] = val[src] /\ val'[src] = Null
      /\ \A y \in Slots \ {dst, src} : val'[y] = val[y]
      BY <1>0, <1>1 DEF TypeOK
<1>4. NoneFreed BY <1>1 DEF NoneFreed, Free
<1>5. src \in Readable(t) BY <1>1 DEF Writable
<1>6. val[src] \in Reach(t) \union {Null} BY <1>0, <1>5, ReachNow
<1>7. NamesReadable BY <1>1, SameNames
<1>8. \A s \in Slots : val'[s] \in {val[s], Null} \union Reach(t) BY <1>3, <1>6
<1>9. FreeIsEmpty'
  <2>1. \A c \in Containers, i \in Indices : dst = <<c, i>> => ~Free(c) BY <1>1, FreshApart
  <2>2. \A s \in Slots \ {dst} : val'[s] \in {val[s], Null} BY <1>3
  <2> QED BY <2>1, <2>2, <1>4, EmptyKept
<1>10. ASSUME NEW u \in Threads PROVE Sound(u)'
  <2>1. CASE u = t
    <3>1. op'[u] = Idle BY <2>1, <1>1, IdleNames DEF Ready
    <3> QED BY <3>1, IdleSound
  <2>2. CASE u # t
    <3>1. PICK F \in SUBSET Containers : F = {} OBVIOUS
    <3>2. PICK W : W = {dst, src} OBVIOUS
    <3>3. src \notin ({u} \X Variables) \union (Own(u) \X Indices)
          BY <2>2, <1>0, <1>1, WritableApart
    <3>4. op[u].at # "idle" => dst \notin ({u} \X Variables) \union (Own(u) \X Indices)
          BY <1>1, FreshApart
    <3>5. /\ \A c \in F : Free(c)
          /\ \A s \in Slots : val'[s] \in {val[s], Null} \union Reach(t) \union F
          /\ \A s \in Slots \ W : val'[s] = val[s]
          /\ op[u].at # "idle" =>
                \A s \in W : s \notin ({u} \X Variables) \union (Own(u) \X Indices)
          BY <3>1, <3>2, <3>3, <3>4, <1>3, <1>8
    <3> QED BY <3>5, <2>2, <1>1, <1>2, <1>4, <1>7, StoreSound
  <2> QED BY <2>1, <2>2
<1> QED BY <1>2, <1>9, <1>10 DEF SourcesInv

\* An assignment or a setter ends: it stores a new container, or what its thread
\* reaches, in a slot that no other thread reaches.
LEMMA FinishSources ==
  ASSUME SourcesInv, \A u \in Threads : ~op[u].lost, NEW t \in Threads, finish(t)
  PROVE  SourcesInv'
<1> DEFINE d == op[t].dst
           s == op[t].src
<1>0. TypeOK /\ CountsAreOwners /\ Sound(t) BY DEF SourcesInv, HeapInv
<1>1. op[t].at # "idle" /\ op' = [op EXCEPT ![t] = Idle] /\ doomed' = doomed BY DEF finish
<1>2. HeapInv' /\ TypeOK' BY FinishInv DEF SourcesInv, HeapInv
<1>3. op'[t] = Idle /\ \A u \in Threads \ {t} : op'[u] = op[u] BY <1>0, <1>1 DEF TypeOK
<1>4. d \in Slots /\ s \in Slots /\ (op[t].at # "build" => s # d)
      BY <1>1 DEF SourcesInv, HeapInv, Working, Slots
<1>5. d \in Named(t) /\ s \in Named(t) BY <1>4, SlotsAssumption DEF Named, NamedIn
<1>6. d \in Changes(t) /\ (op[t].at = "move" => s \in Changes(t)) BY <1>1 DEF Changes
<1>7. PICK W : W = Changes(t) OBVIOUS
<1>8. val[s] \in Reach(t) \union {Null} BY <1>0, <1>5, ReachNow
<1>9. \E F \in SUBSET Containers :
         /\ \A c \in F : Free(c)
         /\ \A y \in Slots : val'[y] \in {val[y], Null} \union Reach(t) \union F
         /\ \A y \in Slots \ W : val'[y] = val[y]
         /\ \A y \in Slots \ {d} : val'[y] \in {val[y], Null}
         /\ NoneFreed
  <2>1. CASE op[t].at = "build"
    <3>1. PICK c \in Containers : refCount[c] = 0 /\ doomed[c] = Null /\ refer(d, c)
          BY <2>1 DEF finish
    <3>2. Free(c) BY <3>1 DEF Free
    <3>3. val'[d] = c /\ (\A y \in Slots \ {d} : val'[y] = val[y]) /\ NoneFreed
          BY <3>1, <1>0, <1>1, <1>4, ReferFills
    <3>4. \A y \in Slots : val'[y] \in {val[y], Null} \union Reach(t) \union {c} BY <3>3
    <3> QED BY <3>2, <3>3, <3>4, <1>6, <1>7
  <2>2. CASE op[t].at = "copy"
    <3>1. refer(d, val[s]) BY <2>2 DEF finish
    <3>2. val[s] \in Containers \union {Null} BY <1>0, <1>4 DEF TypeOK
    <3>3. val'[d] = val[s] /\ (\A y \in Slots \ {d} : val'[y] = val[y]) /\ NoneFreed
          BY <3>1, <3>2, <1>0, <1>1, <1>4, ReferFills
    <3>4. PICK F \in SUBSET Containers : F = {} OBVIOUS
    <3>5. /\ \A c \in F : Free(c)
          /\ \A y \in Slots : val'[y] \in {val[y], Null} \union Reach(t) \union F
          BY <3>3, <3>4, <1>8
    <3> QED BY <3>3, <3>5, <1>6, <1>7
  <2>3. CASE op[t].at = "move"
    <3>1. val' = [val EXCEPT ![d] = val[s], ![s] = Null] /\ refCount' = refCount
          BY <2>3 DEF finish
    <3>2. /\ val'[d] = val[s] /\ val'[s] = Null
          /\ \A y \in Slots \ {d, s} : val'[y] = val[y]
          BY <3>1, <2>3, <1>0, <1>4 DEF TypeOK
    <3>3. NoneFreed BY <3>1, <1>1 DEF NoneFreed, Free
    <3>4. PICK F \in SUBSET Containers : F = {} OBVIOUS
    <3>5. /\ \A c \in F : Free(c)
          /\ \A y \in Slots : val'[y] \in {val[y], Null} \union Reach(t) \union F
          BY <3>2, <3>4, <1>8
    <3>6. /\ \A y \in Slots \ W : val'[y] = val[y]
          /\ \A y \in Slots \ {d} : val'[y] \in {val[y], Null}
          BY <3>2, <2>3, <1>6, <1>7
    <3> QED BY <3>3, <3>5, <3>6
  <2> QED BY <1>0, <1>1, <2>1, <2>2, <2>3 DEF finish
<1>10. PICK F \in SUBSET Containers :
         /\ \A c \in F : Free(c)
         /\ \A y \in Slots : val'[y] \in {val[y], Null} \union Reach(t) \union F
         /\ \A y \in Slots \ W : val'[y] = val[y]
         /\ \A y \in Slots \ {d} : val'[y] \in {val[y], Null}
         /\ NoneFreed
       BY <1>9
<1>11. FreeIsEmpty'
  <2>1. \A c \in Containers, i \in Indices : d = <<c, i>> => ~Free(c)
        BY <1>0, <1>5 DEF Sound, InUse
  <2> QED BY <2>1, <1>4, <1>10, EmptyKept
<1>12. NamesReadable
  <2>1. NamedIn(op', t) = {} BY <1>3 DEF NamedIn, Idle
  <2>2. \A u \in Threads \ {t} : NamedIn(op', u) = NamedIn(op, u) BY <1>3 DEF NamedIn
  <2> QED BY <2>1, <2>2 DEF NamesReadable, Named
<1>13. ASSUME NEW u \in Threads PROVE Sound(u)'
  <2>1. CASE u = t BY <2>1, <1>3, IdleSound
  <2>2. CASE u # t
    <3>1. Own(u) \subseteq Reach(u) BY <1>0, OwnOwned
    <3>2. Changes(t) \intersect (({u} \X Variables) \union (Reach(u) \X Indices)) = {}
          BY <2>2, <1>0 DEF Sound, Isolated
    <3>3. \A y \in W : y \notin ({u} \X Variables) \union (Own(u) \X Indices)
          BY <3>1, <3>2, <1>7
    <3> QED BY <3>3, <2>2, <1>2, <1>3, <1>10, <1>12, StoreSound
  <2> QED BY <2>1, <2>2
<1> QED BY <1>2, <1>11, <1>13 DEF SourcesInv

\* Every step keeps sources in order.
LEMMA SourcesStep ==
  ASSUME SourcesInv, heapStep
  PROVE  SourcesInv'
<1>0. \A u \in Threads : ~op[u].lost BY DEF heapStep
<1>1. PICK t \in Threads :
        \/ finish(t)
        \/ \E c \in Containers : destroyElement(t, c) \/ delete(t, c)
        \/ \E dst \in Slots : destroy(t, dst) \/ begin(t, "build", dst, dst)
        \/ \E dst, src \in Slots :
             copy(t, dst, src) \/ take(t, dst, src)
             \/ begin(t, "copy", dst, src) \/ begin(t, "move", dst, src)
      BY DEF heapStep
<1>2. CASE finish(t) BY <1>0, <1>2, FinishSources
<1>3. ASSUME NEW c \in Containers, destroyElement(t, c) \/ delete(t, c) PROVE SourcesInv'
      BY <1>0, <1>3, DestroyElementSources, DeleteSources
<1>4. ASSUME NEW dst \in Slots, destroy(t, dst) \/ begin(t, "build", dst, dst)
      PROVE  SourcesInv'
      BY <1>0, <1>4, DestroySources, BeginSources
<1>5. ASSUME NEW dst \in Slots, NEW src \in Slots,
             copy(t, dst, src) \/ take(t, dst, src)
             \/ begin(t, "copy", dst, src) \/ begin(t, "move", dst, src)
      PROVE  SourcesInv'
      BY <1>0, <1>5, CopySources, TakeSources, BeginSources
<1> QED BY <1>1, <1>2, <1>3, <1>4, <1>5

\* At first nothing is held and nobody works.
LEMMA SourcesInit == heapInit => SourcesInv
<1> SUFFICES ASSUME heapInit PROVE SourcesInv OBVIOUS
<1>1. HeapInv BY InitInv
<1>2. FreeIsEmpty
  <2>1. \A c \in Containers, i \in Indices : <<c, i>> \in Slots BY DEF Slots
  <2> QED BY <2>1 DEF heapInit, FreeIsEmpty
<1>3. ASSUME NEW t \in Threads PROVE Sound(t)
  <2>1. op[t] = Idle BY DEF heapInit
  <2>2. NamedIn(op, t) = {} /\ Changes(t) = {} BY <2>1 DEF NamedIn, Changes, Idle
  <2>3. op[t].at = "idle" /\ ~op[t].lost BY <2>1 DEF Idle
  <2> QED BY <2>1, <2>2, <2>3
      DEF Sound, Quiet, InUse, Isolated, StillHeld, OnlyInside, Named
<1> QED BY <1>1, <1>2, <1>3 DEF SourcesInv

\* Nothing changes, so sources stay in order.
LEMMA SourcesStutter ==
  ASSUME SourcesInv, UNCHANGED heapVars
  PROVE  SourcesInv'
<1>1. val' = val /\ refCount' = refCount /\ doomed' = doomed /\ op' = op BY DEF heapVars
<1>2. HeapInv' BY HeapInvStutter DEF SourcesInv
<1>3. FreeIsEmpty' BY <1>1 DEF SourcesInv, FreeIsEmpty, Free
<1>4. \A t \in Threads : Reach(t)' = Reach(t) /\ Own(t)' = Own(t) BY <1>1, ReachIs DEF Own
<1>5. \A t \in Threads : Named(t)' = Named(t) /\ Changes(t)' = Changes(t)
      BY <1>1 DEF Named, NamedIn, Changes
<1>6. ASSUME NEW t \in Threads PROVE Sound(t)'
  <2>1. Sound(t) BY DEF SourcesInv
  <2>2. Quiet(t)' /\ OnlyInside(t)' BY <2>1, <1>1 DEF Sound, Quiet, OnlyInside
  <2>3. InUse(t)' BY <2>1, <1>1, <1>5 DEF Sound, InUse, Free
  <2>4. Isolated(t)' BY <2>1, <1>4, <1>5 DEF Sound, Isolated
  <2>5. StillHeld(t)' BY <2>1, <1>1, <1>4, <1>5 DEF Sound, StillHeld
  <2> QED BY <2>2, <2>3, <2>4, <2>5 DEF Sound
<1> QED BY <1>2, <1>3, <1>6 DEF SourcesInv

\* The heap's invariant with what makes sources safe: free containers are empty, and
\* what a thread works on is its own, in use and, unless inside, still held.
THEOREM SourcesInvariant == HeapSpec => []SourcesInv
<1>1. SourcesInv /\ [heapStep]_heapVars => SourcesInv' BY SourcesStep, SourcesStutter
<1> QED BY <1>1, SourcesInit, PTL DEF HeapSpec

\* An assignment that finds its source gone (operator=, Value.h:115-147, destroys the
\* old value first) is one whose source lay inside that old value; no other thread,
\* whatever it copies, moves or destroys meanwhile, can take a source away.
THEOREM SourcesLostInside == HeapSpec => []LostInside
<1>1. SourcesInv => LostInside BY DEF SourcesInv, Sound, OnlyInside, LostInside
<1> QED BY <1>1, SourcesInvariant, PTL

-----------------------------------------------------------------------------
(* What leaks *)

\* The closure of a set of containers holds it, is closed, and is the least such.
LEMMA ClosureIs ==
  ASSUME TypeOK, NEW S \in SUBSET Containers
  PROVE  /\ Closure(S) \in SUBSET Containers /\ S \subseteq Closure(S)
         /\ \A c \in Closure(S), i \in Indices : val[<<c, i>>] # Null => val[<<c, i>>] \in Closure(S)
         /\ \A T \in SUBSET Containers :
               /\ S \subseteq T
               /\ \A c \in T, i \in Indices : val[<<c, i>>] # Null => val[<<c, i>>] \in T
               => Closure(S) \subseteq T
<1>1. Closure(S) = ClosureIn(val, S)
      BY DEF Closure, Closed, ClosureIn, ClosedIn
<1>2. val \in [Slots -> Containers \union {Null}] BY DEF TypeOK
<1>3. /\ ClosureIn(val, S) \in SUBSET Containers /\ S \subseteq ClosureIn(val, S)
      /\ ClosedIn(val, ClosureIn(val, S))
      /\ \A T \in SUBSET Containers :
            S \subseteq T /\ ClosedIn(val, T) => ClosureIn(val, S) \subseteq T
      BY <1>2, ClosureLeast
<1> QED BY <1>1, <1>3 DEF ClosedIn

\* The closure of a larger set, or of a set within the closure of another.
LEMMA ClosureWithin ==
  ASSUME TypeOK, NEW S \in SUBSET Containers, NEW R \in SUBSET Containers,
         S \subseteq Closure(R)
  PROVE  Closure(S) \subseteq Closure(R)
<1>1. /\ Closure(R) \in SUBSET Containers
      /\ \A c \in Closure(R), i \in Indices : val[<<c, i>>] # Null => val[<<c, i>>] \in Closure(R)
      BY ClosureIs
<1> QED BY <1>1, ClosureIs

\* What is within a container is the container or within its elements.
LEMMA ClosureOfOne ==
  ASSUME TypeOK, NEW d \in Containers
  PROVE  /\ Elements(d) \in SUBSET Containers
         /\ Closure({d}) \subseteq {d} \union Closure(Elements(d))
<1>1. Elements(d) \in SUBSET Containers
  <2>1. \A i \in Indices : <<d, i>> \in Slots BY DEF Slots
  <2> QED BY <2>1 DEF Elements, TypeOK
<1> DEFINE T == {d} \union Closure(Elements(d))
<1>2. /\ Closure(Elements(d)) \in SUBSET Containers /\ Elements(d) \subseteq Closure(Elements(d))
      /\ \A c \in Closure(Elements(d)), i \in Indices :
            val[<<c, i>>] # Null => val[<<c, i>>] \in Closure(Elements(d))
      BY <1>1, ClosureIs
<1>3. T \in SUBSET Containers /\ {d} \subseteq T BY <1>2
<1>4. ASSUME NEW c \in T, NEW i \in Indices, val[<<c, i>>] # Null PROVE val[<<c, i>>] \in T
  <2>1. CASE c = d
    <3>1. val[<<c, i>>] \in Elements(d) BY <1>4, <2>1 DEF Elements
    <3> QED BY <3>1, <1>2
  <2>2. CASE c # d BY <1>2, <1>4, <2>2
  <2> QED BY <2>1, <2>2
<1>5. Closure({d}) \subseteq T
  <2> HIDE DEF T
  <2> QED BY <1>3, <1>4, ClosureIs
<1> QED BY <1>1, <1>5

\* A leaked container is an element of a leaked container: what a variable or a
\* container being deleted refers to is not leaked, and free memory refers to nothing.
LEMMA LeakedHasLeakedOwner ==
  ASSUME SourcesInv, NEW c \in Leaked
  PROVE  \E d \in Leaked : c \in Elements(d)
<1>0. TypeOK /\ CountsAreOwners /\ FreeIsEmpty BY DEF SourcesInv, HeapInv
<1>1. c \in Containers /\ refCount[c] # 0 /\ c \notin Closure(Held) BY DEF Leaked
<1>2. Held \in SUBSET Containers
  <2>1. \A s \in Threads \X Variables : s \in Slots BY DEF Slots
  <2> QED BY <1>0, <2>1 DEF Held, TypeOK
<1>3. /\ Held \subseteq Closure(Held)
      /\ \A d \in Closure(Held), i \in Indices :
            val[<<d, i>>] # Null => val[<<d, i>>] \in Closure(Held)
      BY <1>0, <1>2, ClosureIs
<1>4. Owners(c) # {}
  <2>1. refCount[c] = Cardinality(Owners(c)) BY <1>0, <1>1 DEF CountsAreOwners
  <2>2. Cardinality({}) = 0 BY FS_EmptySet
  <2> QED BY <2>1, <2>2, <1>1
<1>5. PICK s \in Slots : val[s] = c BY <1>4 DEF Owners
<1>6. c # Null BY <1>1, SlotsAssumption
<1>7. s \notin Threads \X Variables
      BY <1>1, <1>3, <1>5, <1>6 DEF Held
<1>8. PICK d \in Containers, i \in Indices : s = <<d, i>> BY <1>5, <1>7 DEF Slots
<1>9. c \in Elements(d) BY <1>5, <1>6, <1>8 DEF Elements
<1>10. d \notin Closure(Held) BY <1>1, <1>3, <1>5, <1>6, <1>8
<1>11. doomed[d] = Null BY <1>3, <1>10 DEF Held
<1>12. refCount[d] # 0 BY <1>0, <1>5, <1>6, <1>8, <1>11 DEF FreeIsEmpty, Free
<1> QED BY <1>9, <1>10, <1>12 DEF Leaked

\* Of a set of natural numbers that is bounded one is the greatest.
LEMMA GreatestNatural ==
  ASSUME NEW N \in Nat, NEW T, T \subseteq 0 .. N, T # {}
  PROVE  \E x \in T : \A y \in T : y <= x
<1> DEFINE U == {N - x : x \in T}
<1>1. U \subseteq Nat /\ U # {}
  <2>1. \A x \in T : x \in 0 .. N OBVIOUS
  <2>2. \A x \in 0 .. N : N - x \in Nat OBVIOUS
  <2>3. \A x \in T : N - x \in Nat BY <2>1, <2>2
  <2>4. PICK x \in T : TRUE OBVIOUS
  <2>5. N - x \in U BY <2>4
  <2> QED BY <2>3, <2>5
<1>2. \E u \in U : \A y \in U : <<y, u>> \notin OpToRel(<, Nat)
  <2> HIDE DEF U
  <2> QED BY <1>1, WFMin, NatLessThanWellFounded, Zenon
<1>3. PICK u \in U : \A y \in U : <<y, u>> \notin OpToRel(<, Nat) BY <1>2
<1>4. PICK x \in T : u = N - x BY <1>3
<1>5. ASSUME NEW y \in T PROVE y <= x
  <2>1. x \in 0 .. N /\ y \in 0 .. N /\ N - y \in U BY <1>4, <1>5
  <2>2. N - y < u => <<N - y, u>> \in OpToRel(<, Nat) BY <1>1, <2>1, <1>3 DEF OpToRel
  <2>3. ~(N - y < u) BY <2>1, <2>2, <1>3
  <2> QED BY <2>1, <2>3, <1>4
<1> QED BY <1>5

\* Among the leaked containers around a leaked one, one that reaches most contains
\* itself: its owner reaches it and no more than it does, so it reaches its owner.
LEMMA LeaksAreCycles == SourcesInv => OnlyCyclesLeak
<1> SUFFICES ASSUME SourcesInv, NEW c \in Leaked
             PROVE  \E d \in Leaked : d \in Closure(Elements(d)) /\ c \in Closure({d})
    BY DEF OnlyCyclesLeak
<1>0. TypeOK BY DEF SourcesInv, HeapInv
<1> DEFINE Around == {d \in Leaked : c \in Closure({d})}
           Reached(d) == Cardinality(Closure({d}))
           N == Cardinality(Containers)
           Sizes == {Reached(d) : d \in Around}
<1>1. \A d \in Leaked : d \in Containers BY DEF Leaked
<1>2. \A d \in Containers : d \in Closure({d}) /\ Closure({d}) \in SUBSET Containers
      BY <1>0, ClosureIs
<1>3. \A d \in Containers : IsFiniteSet(Closure({d})) /\ Reached(d) \in Nat /\ Reached(d) <= N
      BY <1>2, SlotsAssumption, FS_Subset, FS_CardinalityType
<1>4. N \in Nat BY SlotsAssumption, FS_CardinalityType
<1>5. c \in Around BY <1>1, <1>2
<1>6. PICK d \in Around : \A e \in Around : Reached(e) <= Reached(d)
  <2>1. Sizes \subseteq 0 .. N /\ Sizes # {}
    <3>1. \A b \in Around : Reached(b) \in 0 .. N
      <4> HIDE DEF N
      <4> QED BY <1>1, <1>3, <1>4
    <3>2. Reached(c) \in Sizes BY <1>5
    <3> HIDE DEF Reached
    <3> QED BY <3>1, <3>2
  <2>2. \E x \in Sizes : \A y \in Sizes : y <= x
    <3> HIDE DEF Sizes, N
    <3> QED BY <1>4, <2>1, GreatestNatural
  <2> QED BY <2>2
<1>7. PICK e \in Leaked : d \in Elements(e) BY <1>6, LeakedHasLeakedOwner
<1>8. d \in Containers /\ e \in Containers /\ {d} \in SUBSET Containers /\ {e} \in SUBSET Containers
      BY <1>1, <1>6, <1>7
<1>9. Elements(e) \in SUBSET Containers /\ Elements(e) \subseteq Closure({e})
  <2>1. \A i \in Indices : val[<<e, i>>] # Null => val[<<e, i>>] \in Closure({e})
        BY <1>0, <1>8, ClosureIs
  <2> QED BY <2>1, <1>0, <1>8, ClosureOfOne DEF Elements
<1>10. Closure({d}) \subseteq Closure({e})
       BY <1>0, <1>7, <1>8, <1>9, ClosureWithin
<1>11. e \in Around BY <1>6, <1>7, <1>10
<1>12. Closure({d}) = Closure({e})
       \* Else the owner would reach more.
  <2>1. Reached(e) <= Reached(d) BY <1>6, <1>11
  <2>2. Reached(d) <= Reached(e) BY <1>3, <1>8, <1>10, FS_Subset
  <2>3. Cardinality(Closure({d})) = Cardinality(Closure({e})) BY <2>1, <2>2, <1>3, <1>8
  <2> QED BY <2>3, <1>3, <1>8, <1>10, FS_Subset
<1>13. e \in Closure({d}) BY <1>2, <1>8, <1>12
<1>14. Elements(d) \in SUBSET Containers /\ Closure({d}) \subseteq {d} \union Closure(Elements(d))
       BY <1>0, <1>8, ClosureOfOne
<1>15. CASE e = d
  <2>1. d \in Closure(Elements(d)) BY <1>0, <1>7, <1>14, <1>15, ClosureIs
  <2> QED BY <2>1, <1>6
<1>16. CASE e # d
  <2>1. e \in Closure(Elements(d)) BY <1>13, <1>14, <1>16
  <2>2. PICK i \in Indices : val[<<e, i>>] = d /\ d # Null
        BY <1>7 DEF Elements
  <2>3. d \in Closure(Elements(d)) BY <2>1, <2>2, <1>0, <1>14, ClosureIs
  <2> QED BY <2>3, <1>6
<1> QED BY <1>15, <1>16

\* The reference counts of json::Value leak nothing but cycles: whatever threads copy,
\* move, assign and destroy, a container that is counted and in no reach of a variable
\* lies within a leaked container that contains itself.
THEOREM CountingLeaksOnlyCycles == HeapSpec => []OnlyCyclesLeak
BY SourcesInvariant, LeaksAreCycles, PTL
=============================================================================
