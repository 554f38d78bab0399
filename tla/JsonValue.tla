------------------------------ MODULE JsonValue ------------------------------
(***************************************************************************)
(* json::Value: values of several threads share containers (arrays,        *)
(* objects, strings) by an atomic reference count.  Assignment destroys    *)
(* the old value before it reads the new one, and the last release deletes *)
(* the container and with it the values inside.                            *)
(*                                                                         *)
(* A slot is a place in memory that holds a Value: a variable of a thread  *)
(* or an element of a container.  Scalars are all Null.  Threads are taken *)
(* not to change a container that another thread can reach.                *)
(***************************************************************************)
EXTENDS Integers, FiniteSets

CONSTANTS Threads, Variables, Containers, Indices, Null

Slots == (Threads \X Variables) \union (Containers \X Indices)

ASSUME SlotsAssumption ==
    /\ Null \notin Containers \union Threads \union Slots
    /\ IsFiniteSet(Threads) /\ IsFiniteSet(Variables)
    /\ IsFiniteSet(Containers) /\ IsFiniteSet(Indices)
    /\ (Threads \X Variables) \intersect (Containers \X Indices) = {}

VARIABLES
    val,        \* the container a slot refers to, or Null
    refCount,   \* of a container
    doomed,     \* the thread that is deleting a container, or Null
    op          \* what a thread is doing: [at, dst, src, inside, lost]

heapVars == <<val, refCount, doomed, op>>

Idle == [at |-> "idle", dst |-> Null, src |-> Null, inside |-> FALSE, lost |-> FALSE]

heapInit ==
    /\ val = [s \in Slots |-> Null]
    /\ refCount = [c \in Containers |-> 0]
    /\ doomed = [c \in Containers |-> Null]
    /\ op = [t \in Threads |-> Idle]

-----------------------------------------------------------------------------
(* What a thread can reach *)

\* The containers of the set S and those within them.
Closed(S) == \A c \in S, i \in Indices : val[<<c, i>>] \in S \union {Null}
Closure(S) == {c \in Containers : \A T \in SUBSET Containers : S \subseteq T /\ Closed(T) => c \in T}

Within(c) == IF c = Null THEN {} ELSE Closure({c})

\* The slots an operation under way works on are in reach like the variables.
Reach(t) ==
    LET named == {op[t].dst, op[t].src} \ {Null}
        holders == {c \in Containers : \E i \in Indices : <<c, i>> \in named}
    IN Closure(holders \union ({val[s] : s \in named \union ({t} \X Variables)} \ {Null}))

\* The slots a thread may name, and those it may change.
Readable(t) == ({t} \X Variables) \union (Reach(t) \X Indices)
Writable(t) ==
    Readable(t) \ ((UNION {Reach(u) : u \in Threads \ {t}}) \X Indices)

Ready(t) == op[t].at = "idle" /\ \A c \in Containers : doomed[c] # t

-----------------------------------------------------------------------------
(* The steps of the operations *)

\* Mutant of release: the count is read again after it was decremented.
releaseTwice(t, s) ==
    IF val[s] = Null THEN UNCHANGED <<val, refCount, doomed>>
    ELSE /\ val' = [val EXCEPT ![s] = Null]
         /\ refCount' = [refCount EXCEPT ![val[s]] = @ - 1]
         /\ doomed' = [doomed EXCEPT ![val[s]] = IF refCount[val[s]] \in 1 .. 2 THEN t ELSE @]

\* ~Value: the thread that takes the count to zero deletes the container.
release(t, s) ==
    IF val[s] = Null THEN UNCHANGED <<val, refCount, doomed>>
    ELSE /\ val' = [val EXCEPT ![s] = Null]
         /\ refCount' = [refCount EXCEPT ![val[s]] = @ - 1]
         /\ doomed' = [doomed EXCEPT ![val[s]] = IF refCount[val[s]] = 1 THEN t ELSE @]

\* The slot s comes to refer to the container c, which gains an owner.
refer(s, c) ==
    /\ val' = [val EXCEPT ![s] = c]
    /\ refCount' = IF c = Null THEN refCount ELSE [refCount EXCEPT ![c] = @ + 1]

\* ~Json: the elements of a container are destroyed one after the other, which
\* may doom other containers; then its memory is given back, with it the slots
\* that an assignment under way was to read or write.
destroyElement(t, c) ==
    /\ doomed[c] = t
    /\ \E i \in Indices : val[<<c, i>>] # Null /\ release(t, <<c, i>>)
    /\ UNCHANGED op

\* Mutant of delete: the memory is given back with the elements in it.
deleteEarly(t, c) ==
    /\ doomed[c] = t
    /\ doomed' = [doomed EXCEPT ![c] = Null]
    /\ UNCHANGED <<val, refCount, op>>

delete(t, c) ==
    /\ doomed[c] = t /\ \A i \in Indices : val[<<c, i>>] = Null
    /\ doomed' = [doomed EXCEPT ![c] = Null]
    /\ op' = [u \in Threads |->
                [op[u] EXCEPT !.lost = @ \/ {op[u].dst, op[u].src} \intersect ({c} \X Indices) # {}]]
    /\ UNCHANGED <<val, refCount>>

\* Where a value may be constructed: a new variable, here or one that another
\* thread is given with a task, or a new element (addValue, addMember).
Fresh(t, dst) ==
    /\ val[dst] = Null
    /\ \/ dst \in Writable(t)
       \/ \E u \in Threads \ {t} : op[u].at = "idle" /\ dst \in {u} \X Variables

\* Value(const Value&)
copy(t, dst, src) ==
    /\ Ready(t) /\ Fresh(t, dst) /\ src \in Readable(t)
    /\ refer(dst, val[src])
    /\ UNCHANGED <<doomed, op>>

\* Value(Value&&)
take(t, dst, src) ==
    /\ Ready(t) /\ Fresh(t, dst) /\ src \in Writable(t) \ {dst}
    /\ val' = [val EXCEPT ![dst] = val[src], ![src] = Null]
    /\ UNCHANGED <<refCount, doomed, op>>

\* ~Value, setNull and the other setters of scalars.
destroy(t, dst) ==
    /\ Ready(t) /\ dst \in Writable(t)
    /\ release(t, dst)
    /\ UNCHANGED op

\* setArray, setObject, setString and both assignments begin with ~Value.  The
\* flag inside says that the source lies in what the destination held.
begin(t, at, dst, src) ==
    /\ Ready(t) /\ dst \in Writable(t)
    /\ at = "build" => src = dst
    /\ at # "build" => src # dst /\ src \in IF at = "move" THEN Writable(t) ELSE Readable(t)
    /\ op' = [op EXCEPT ![t] = [at |-> at, dst |-> dst, src |-> src, lost |-> FALSE,
                                inside |-> src \in (Within(val[dst]) \X Indices)]]
    /\ release(t, dst)

\* Mutant of finish: a moved value is left in place.
finishKeeps(t) ==
    /\ op[t].at # "idle" /\ \A c \in Containers : doomed[c] # t
    /\ \/ /\ op[t].at = "build"
          /\ \E c \in Containers : refCount[c] = 0 /\ doomed[c] = Null /\ refer(op[t].dst, c)
       \/ op[t].at = "copy" /\ refer(op[t].dst, val[op[t].src])
       \/ /\ op[t].at = "move"
          /\ val' = [val EXCEPT ![op[t].dst] = val[op[t].src]]
          /\ UNCHANGED refCount
    /\ op' = [op EXCEPT ![t] = Idle]
    /\ UNCHANGED doomed

\* ... and then make a container, or read the source.  What a thread whose source is
\* lost reads is freed memory: the model ends there.
finish(t) ==
    /\ op[t].at # "idle" /\ \A c \in Containers : doomed[c] # t
    /\ \/ /\ op[t].at = "build"
          /\ \E c \in Containers : refCount[c] = 0 /\ doomed[c] = Null /\ refer(op[t].dst, c)
       \/ op[t].at = "copy" /\ refer(op[t].dst, val[op[t].src])
       \/ /\ op[t].at = "move"
          /\ val' = [val EXCEPT ![op[t].dst] = val[op[t].src], ![op[t].src] = Null]
          /\ UNCHANGED refCount
    /\ op' = [op EXCEPT ![t] = Idle]
    /\ UNCHANGED doomed

heapStep ==
    /\ \A t \in Threads : ~op[t].lost
    /\ \E t \in Threads :
        \/ finish(t)
        \/ \E c \in Containers : destroyElement(t, c) \/ delete(t, c)
        \/ \E dst \in Slots : destroy(t, dst) \/ begin(t, "build", dst, dst)
        \/ \E dst, src \in Slots :
             copy(t, dst, src) \/ take(t, dst, src)
             \/ begin(t, "copy", dst, src) \/ begin(t, "move", dst, src)

HeapSpec == heapInit /\ [][heapStep]_heapVars

-----------------------------------------------------------------------------
TypeOK ==
    /\ val \in [Slots -> Containers \union {Null}]
    /\ refCount \in [Containers -> Int]
    /\ doomed \in [Containers -> Threads \union {Null}]
    /\ op \in [Threads -> [at : {"idle", "build", "copy", "move"}, dst : Slots \union {Null},
                           src : Slots \union {Null}, inside : BOOLEAN, lost : BOOLEAN]]

Owners(c) == {s \in Slots : val[s] = c}

\* The count of a container is the number of the values that refer to it, also
\* while several threads copy, move and release them, and a container that is
\* being deleted is one that no value refers to.
CountsAreOwners ==
    \A c \in Containers :
        /\ refCount[c] = Cardinality(Owners(c))
        /\ doomed[c] # Null => Owners(c) = {}

\* An assignment whose source is gone when it is read is one from inside the
\* destination's old value; nothing else can take the source away.
LostInside == \A t \in Threads : op[t].lost => op[t].inside

\* What the variables hold and what is being deleted; a container in use that is in
\* no reach of these is leaked.
Held == ({val[s] : s \in Threads \X Variables} \ {Null})
        \union {c \in Containers : doomed[c] # Null}
Leaked == {c \in Containers : refCount[c] # 0} \ Closure(Held)

Elements(c) == {val[<<c, i>>] : i \in Indices} \ {Null}

\* Counting leaks nothing but cycles: a container that is still counted when no
\* variable leads to it lies within a leaked container that contains itself, as
\* addValue and addMember let it.
OnlyCyclesLeak ==
    \A c \in Leaked :
        \E d \in Leaked : d \in Closure(Elements(d)) /\ c \in Closure({d})
=============================================================================
