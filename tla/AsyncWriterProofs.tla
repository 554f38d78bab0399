-------------------------- MODULE AsyncWriterProofs --------------------------
(***************************************************************************)
(* Theorems about AsyncWriter, for any set of log lines.                   *)
(***************************************************************************)
EXTENDS AsyncWriter, SequenceTheorems, TLAPS

\* Types are preserved; the interesting part is that the writer finds a line
\* whenever it is past its predicate.
LEMMA TypeStep == TypeOK /\ [Next]_vars => TypeOK'
<1> SUFFICES ASSUME TypeOK, [Next]_vars PROVE TypeOK'
    OBVIOUS
<1> USE DEF TypeOK, WriterLocations, notify_one
<1>1. ASSUME NEW l \in Lines, push(l) PROVE TypeOK'
  <2>1. /\ Append(buffer_, l) \in Seq(Lines) /\ Append(pushed, l) \in Seq(Lines)
        /\ Append(buffer_, l) # <<>>
    <3>1. buffer_ \in Seq(Lines) /\ pushed \in Seq(Lines) BY DEF TypeOK
    <3> HIDE DEF TypeOK
    <3> QED BY <3>1, AppendProperties
  <2>2. /\ buffer_' \in Seq(Lines) /\ pushed' \in Seq(Lines) /\ notified' \in BOOLEAN
        /\ buffer_' # <<>>
        BY <1>1, <2>1 DEF push
  <2>3. UNCHANGED <<pc, state_, line, dtor, written>> BY <1>1 DEF push
  <2> QED BY <2>2, <2>3
<1>2. CASE testState BY <1>2 DEF testState
<1>3. CASE evaluate BY <1>3 DEF evaluate
<1>4. CASE sleep BY <1>4 DEF sleep
<1>5. CASE wake BY <1>5 DEF wake
<1>6. CASE take
  <2>1. CASE state_ BY <1>6, <2>1 DEF take
  <2>2. CASE ~state_
    <3>1. Head(buffer_) \in Lines /\ Tail(buffer_) \in Seq(Lines)
          BY <1>6, <2>2, HeadTailProperties DEF take
    <3> HIDE DEF TypeOK
    <3>2. <<Head(buffer_)>> \in Seq(Lines) /\ Len(<<Head(buffer_)>>) = 1
          BY <3>1, SMT
    <3> QED BY <1>6, <2>2, <3>1, <3>2 DEF take, TypeOK
  <2> QED BY <2>1, <2>2
<1>7. CASE write
  <2>1. written \o line \in Seq(Lines) BY <1>7, ConcatProperties DEF write
  <2> QED BY <1>7, <2>1 DEF write
<1>8. CASE drain
  <2>1. CASE buffer_ = <<>> BY <1>8, <2>1 DEF drain
  <2>2. CASE buffer_ # <<>>
    <3>1. Head(buffer_) \in Lines /\ Tail(buffer_) \in Seq(Lines)
          BY <2>2, HeadTailProperties
    <3>2. Append(written, Head(buffer_)) \in Seq(Lines) BY <3>1, AppendProperties
    <3> QED BY <1>8, <2>2, <3>1, <3>2 DEF drain
  <2> QED BY <2>1, <2>2
<1>9. CASE wakeSpuriously BY <1>9 DEF wakeSpuriously
<1>10. CASE setState BY <1>10 DEF setState
<1>11. CASE notifyWriter BY <1>11 DEF notifyWriter
<1>12. CASE join BY <1>12 DEF join
<1>13. CASE UNCHANGED vars BY <1>13 DEF vars
<1> QED BY <1>1, <1>2, <1>3, <1>4, <1>5, <1>6, <1>7, <1>8, <1>9, <1>10, <1>11, <1>12, <1>13
        DEF Next, Writer, Destructor

\* The type invariant of AsyncWriter holds in every reachable state.
THEOREM WriterTypeCorrect == Spec => []TypeOK
<1>1. Init => TypeOK BY EmptySeq DEF Init, TypeOK, WriterLocations
<1> QED BY <1>1, TypeStep, PTL DEF Spec

-----------------------------------------------------------------------------
\* Taking the head of a queue and writing it moves one line over a join of
\* sequences without changing it.
LEMMA MoveHead ==
    ASSUME NEW S, NEW w \in Seq(S), NEW q \in Seq(S), q # <<>>
    PROVE  /\ w \o <<Head(q)>> \o Tail(q) = w \o q
           /\ Append(w, Head(q)) \o Tail(q) = w \o q
<1>1. Len(q) > 0 BY EmptySeq
<1>2. <<Head(q)>> \o Tail(q) = q BY <1>1
<1>3. Append(w, Head(q)) = w \o <<Head(q)>> BY <1>1
<1>4. <<Head(q)>> \in Seq(S) /\ Tail(q) \in Seq(S) BY <1>1, HeadTailProperties
<1> QED BY <1>2, <1>3, <1>4, ConcatAssociative

\* Pushing appends to both sides; the writer and the drain loop only move
\* lines from the queue to the file.
LEMMA LineStep == TypeOK /\ EachLineOnce /\ [Next]_vars => EachLineOnce'
<1> SUFFICES ASSUME TypeOK, EachLineOnce, [Next]_vars PROVE EachLineOnce'
    OBVIOUS
<1>0. /\ written \in Seq(Lines) /\ line \in Seq(Lines) /\ buffer_ \in Seq(Lines)
      /\ written \o line \in Seq(Lines) /\ <<>> \in Seq(Lines)
      BY EmptySeq, ConcatProperties DEF TypeOK
<1> USE DEF EachLineOnce
<1>1. ASSUME NEW l \in Lines, push(l) PROVE EachLineOnce'
  <2>1. (written \o line) \o Append(buffer_, l) = Append((written \o line) \o buffer_, l)
        BY <1>0
  <2> QED BY <1>1, <2>1 DEF push
<1>2. CASE testState \/ evaluate \/ sleep \/ wake \/ wakeSpuriously
      BY <1>2 DEF testState, evaluate, sleep, wake, wakeSpuriously
<1>3. CASE take
  <2>1. CASE state_ BY <1>3, <2>1 DEF take
  <2>2. CASE ~state_
    <3>1. buffer_ # <<>> /\ line = <<>> BY <1>3, <2>2 DEF take, TypeOK
    <3>2. written \o line = written BY <1>0, <3>1
    <3>3. written \o <<Head(buffer_)>> \o Tail(buffer_) = written \o buffer_
          BY <1>0, <3>1, MoveHead
    <3> QED BY <1>3, <2>2, <3>2, <3>3 DEF take
  <2> QED BY <2>1, <2>2
<1>4. CASE write
  <2>1. (written \o line) \o <<>> = written \o line BY <1>0
  <2> QED BY <1>4, <2>1 DEF write
<1>5. CASE drain
  <2>1. CASE buffer_ = <<>> BY <1>5, <2>1 DEF drain
  <2>2. CASE buffer_ # <<>>
    <3>1. line = <<>> BY <1>5 DEF drain, TypeOK
    <3>2. Head(buffer_) \in Lines BY <1>0, <2>2, HeadTailProperties
    <3>3. Append(written, Head(buffer_)) \in Seq(Lines) BY <1>0, <3>2, AppendProperties
    <3>4. /\ written \o line = written
          /\ Append(written, Head(buffer_)) \o line = Append(written, Head(buffer_))
          BY <1>0, <3>1, <3>3
    <3>5. Append(written, Head(buffer_)) \o Tail(buffer_) = written \o buffer_
          BY <1>0, <2>2, MoveHead
    <3> QED BY <1>5, <2>2, <3>4, <3>5 DEF drain
  <2> QED BY <2>1, <2>2
<1>6. CASE setState \/ Destructor
      BY <1>6 DEF setState, Destructor, notifyWriter, join
<1>7. CASE UNCHANGED vars BY <1>7 DEF vars
<1> QED BY <1>1, <1>2, <1>3, <1>4, <1>5, <1>6, <1>7 DEF Next, Writer

\* Every line pushed is written once and in order, for any number of lines and
\* wherever the destructor strikes (what it leaves is left in the queue).
THEOREM WritesInOrder == Spec => []EachLineOnce
<1>1. Init => EachLineOnce BY DEF Init, EachLineOnce
<1> QED BY <1>1, LineStep, WriterTypeCorrect, PTL DEF Spec

-----------------------------------------------------------------------------
\* A queue that was not empty is longer than one after a push.
LEMMA MoreThanOne == \A n \in Nat : n # 0 => n + 1 # 1
  BY SMT

\* mutex_ keeps pushes out of the gap between predicate and sleep, and a queue
\* that is not empty while the writer sleeps was empty when it fell asleep.
LEMMA SleepStep == TypeOK /\ SleepInv /\ [Next]_vars => SleepInv'
<1> SUFFICES ASSUME TypeOK, SleepInv, [Next]_vars PROVE SleepInv'
    OBVIOUS
<1> USE DEF SleepInv, NoLineSleptOn
<1>1. ASSUME NEW l \in Lines, push(l) PROVE SleepInv'
  <2>1. CASE buffer_ = <<>>
    <3>1. Len(Append(buffer_, l)) = 1 BY <2>1
    <3> QED BY <1>1, <3>1 DEF push, mutex_, notify_one
  <2>2. CASE buffer_ # <<>>
    <3>1. Len(buffer_) # 0 /\ buffer_ \in Seq(Lines) BY <2>2, EmptySeq DEF TypeOK
    <3>2. Len(Append(buffer_, l)) = Len(buffer_) + 1 /\ Len(buffer_) \in Nat
          BY <3>1, AppendProperties, LenProperties
    <3>3. Len(Append(buffer_, l)) # 1 BY <3>1, <3>2, MoreThanOne, Zenon
    <3> QED BY <1>1, <2>2, <3>3 DEF push, mutex_
  <2> QED BY <2>1, <2>2
<1>2. CASE Writer
      BY <1>2 DEF Writer, testState, evaluate, sleep, wake, take, write, drain
<1>3. CASE wakeSpuriously BY <1>3 DEF wakeSpuriously
<1>4. CASE setState BY <1>4 DEF setState
<1>5. CASE Destructor BY <1>5 DEF Destructor, notifyWriter, join, notify_one
<1>6. CASE UNCHANGED vars BY <1>6 DEF vars
<1> QED BY <1>1, <1>2, <1>3, <1>4, <1>5, <1>6 DEF Next

\* Notifying only on the first line loses no wakeup of the writer.
THEOREM NoLostNotification == Spec => []NoLineSleptOn
<1>1. Init => SleepInv BY DEF Init, SleepInv, NoLineSleptOn
<1>2. SleepInv => NoLineSleptOn BY DEF SleepInv
<1> QED BY <1>1, <1>2, SleepStep, WriterTypeCorrect, PTL DEF Spec
=============================================================================
