--------------------------- MODULE TimerQueueProofs ---------------------------
(***************************************************************************)
(* Theorems about TimerQueue, for any timers, expiries and intervals, and  *)
(* callers that may cancel any live timer, those of the batch included.    *)
(***************************************************************************)
EXTENDS TimerQueue, WellFoundedInduction, TLAPS

\* Every set of natural numbers that is not empty has a least element.
LEMMA LeastNatural ==
  ASSUME NEW T, T \subseteq Nat, T # {}
  PROVE  \E x \in T : \A y \in T : x <= y
<1>1. \E x \in T : \A y \in T : <<y, x>> \notin OpToRel(<, Nat)
      BY WFMin, NatLessThanWellFounded, Zenon
<1>2. PICK x \in T : \A y \in T : <<y, x>> \notin OpToRel(<, Nat)
      BY <1>1
<1>3. ASSUME NEW y \in T PROVE x <= y
  <2>1. x \in Nat /\ y \in Nat BY <1>2, <1>3
  <2>2. y < x => <<y, x>> \in OpToRel(<, Nat) BY <2>1 DEF OpToRel
  <2>3. ~(y < x) BY <2>2, <1>2, <1>3
  <2> QED BY <2>1, <2>3
<1> QED BY <1>2, <1>3

\* A set of entries that is not empty has a first one in the order of std::set.
LEMMA FirstProperties ==
  ASSUME NEW S, S \subseteq Nat \X Timers, S # {}
  PROVE  First(S) \in S /\ \A f \in S : First(S)[1] <= f[1]
<1>1. PICK e1 \in S : \A f \in S : e1[1] <= f[1]
  <2> DEFINE T == {f[1] : f \in S}
  <2>1. T \subseteq Nat /\ T # {} OBVIOUS
  <2>2. PICK x \in T : \A y \in T : x <= y BY <2>1, LeastNatural
  <2> QED BY <2>2
<1>2. PICK e \in S : e[1] = e1[1] /\ \A f \in S : f[1] = e1[1] => e[2] <= f[2]
  <2> DEFINE U == {f \in S : f[1] = e1[1]}
             T == {f[2] : f \in U}
  <2>1. T \subseteq Nat /\ T # {} BY TimesAssumption
  <2>2. PICK x \in T : \A y \in T : x <= y BY <2>1, LeastNatural
  <2>3. PICK u \in U : u[2] = x BY <2>2
  <2> QED BY <2>2, <2>3
<1>3. \A f \in S \ {e} : Before(e, f)
  <2> SUFFICES ASSUME NEW f \in S \ {e} PROVE Before(e, f) OBVIOUS
  <2>1. /\ e[1] \in Nat /\ f[1] \in Nat /\ e[2] \in Nat /\ f[2] \in Nat
        /\ e = <<e[1], e[2]>> /\ f = <<f[1], f[2]>>
    <3>1. e \in S /\ f \in S BY <1>2
    <3>2. e \in Nat \X Timers /\ f \in Nat \X Timers BY <3>1
    <3>3. e = <<e[1], e[2]>> /\ f = <<f[1], f[2]>> BY <3>2
    <3>4. e[1] \in Nat /\ f[1] \in Nat /\ e[2] \in Timers /\ f[2] \in Timers BY <3>2
    <3>5. Timers \subseteq Nat BY TimesAssumption
    <3> QED BY <3>3, <3>4, <3>5
  <2>2. e[1] <= f[1] /\ (f[1] = e[1] => e[2] <= f[2]) BY <1>1, <1>2
  <2>3. f[1] = e[1] => e[2] # f[2] BY <2>1
  <2> QED BY <2>1, <2>2, <2>3 DEF Before
<1>4. First(S) \in S /\ \A f \in S \ {First(S)} : Before(First(S), f)
  <2> DEFINE P(g) == \A f \in S \ {g} : Before(g, f)
  <2>1. \E g \in S : P(g) BY <1>3
  <2> HIDE DEF P
  <2>2. (CHOOSE g \in S : P(g)) \in S /\ P(CHOOSE g \in S : P(g)) BY <2>1, Zenon
  <2> QED BY <2>2 DEF First, P
<1>5. ASSUME NEW f \in S PROVE First(S)[1] <= f[1]
  <2>1. First(S)[1] \in Nat /\ f[1] \in Nat BY <1>4
  <2>2. CASE f = First(S) BY <2>1, <2>2
  <2>3. CASE f # First(S) BY <2>1, <2>3, <1>4 DEF Before
  <2> QED BY <2>2, <2>3
<1> QED BY <1>4, <1>5

-----------------------------------------------------------------------------
\* The strengthening: one invariant, since a timer of the batch is live or was
\* cancelled there only while every timer is in one place.
CanceledFreed == \A t \in canceled : timer[t].life = "freed"

QueueInv == TypeOK /\ EachTimerHeldOnce /\ FreedOnlyByCancel /\ CanceledFreed

\* What EachTimerHeldOnce says of one entry and of one timer.
LEMMA EntriesAlive ==
  ASSUME HeldOnce, NEW e \in timers_ \cup entries, e[2] \in Timers
  PROVE  (Live(e[2]) \/ e[2] \in canceled) /\ e = <<timer[e[2]].when_, e[2]>>
<1> DEFINE mine == {f \in timers_ \cup entries : f[2] = e[2]}
<1>1. e \in mine OBVIOUS
<1>2. mine = IF Live(e[2]) \/ e[2] \in canceled THEN {<<timer[e[2]].when_, e[2]>>} ELSE {}
      BY DEF HeldOnce
<1> QED BY <1>1, <1>2

\* The first entry of the batch is one of its entries.
LEMMA FirstEntry ==
  ASSUME TypeOK, entries # {}
  PROVE  First(entries) \in entries
<1>1. entries \subseteq Nat \X Timers BY DEF TypeOK
<1> QED BY <1>1, FirstProperties

\* No step takes a timer, an expiry or the clock out of its type.
LEMMA TypeStep == QueueInv /\ [Next]_vars => TypeOK'
<1> SUFFICES ASSUME QueueInv, [Next]_vars PROVE TypeOK'
    OBVIOUS
<1>0. TypeOK BY DEF QueueInv
<1>1. ASSUME NEW t \in Timers, addTimer(t) PROVE TypeOK'
  <2>1. PICK when \in Expiries, i \in Intervals :
          /\ timer' = [timer EXCEPT ![t] = [life |-> "live", when_ |-> when, interval_ |-> i]]
          /\ timers_' = timers_ \cup {<<when, t>>}
          /\ timerfd_' = IF First(timers_') = <<when, t>>
                         THEN duractionFromNow(when) ELSE timerfd_
        BY <1>1 DEF addTimer
  <2>2. when \in Nat /\ i \in Nat /\ MinDelay \in Nat /\ clock \in Nat
        BY <1>0, TimesAssumption DEF TypeOK
  <2>3. duractionFromNow(when) \subseteq Nat /\ \A v, w \in duractionFromNow(when) : v = w
        BY <2>2 DEF duractionFromNow, Upper
  <2>4. timerfd_' \subseteq Nat /\ \A v, w \in timerfd_' : v = w
        BY <1>0, <2>1, <2>3 DEF TypeOK
  <2>5. timer' \in [Timers -> [life : {"none", "live", "freed"},
                               when_ : Nat, interval_ : Nat]]
        BY <1>0, <2>1, <2>2 DEF TypeOK
  <2>6. UNCHANGED <<clock, handling, at, entries, running, reported, canceled, usedFreed>>
        BY <1>1 DEF addTimer
  <2>7. timers_' \subseteq Nat \X Timers BY <1>0, <2>1, <2>2 DEF TypeOK
  <2>8. running' \subseteq Held' BY <1>0, <2>6 DEF TypeOK, Held
  <2> QED BY <1>0, <2>4, <2>5, <2>6, <2>7, <2>8 DEF TypeOK
<1>2. ASSUME NEW t \in Timers, cancelTimer(t) PROVE TypeOK'
  <2>1. timer' \in [Timers -> [life : {"none", "live", "freed"},
                               when_ : Nat, interval_ : Nat]]
        BY <1>0, <1>2 DEF TypeOK, cancelTimer
  <2> QED BY <1>0, <1>2, <2>1 DEF TypeOK, Held, cancelTimer
<1>3. CASE handleRead
  <2>1. entries' \subseteq (0 .. at') \X Timers
    <3>1. clock \in Nat /\ at' = clock BY <1>0, <1>3, TimesAssumption DEF TypeOK, handleRead
    <3>2. ASSUME NEW e \in entries' PROVE e \in (0 .. clock) \X Timers
      <4>1. e \in timers_ /\ e[1] < clock + 1 BY <1>3 DEF handleRead, Expired
      <4>2. e \in Nat \X Timers BY <4>1, <1>0 DEF TypeOK
      <4>3. e[1] \in 0 .. clock BY <4>1, <4>2, <3>1
      <4> QED BY <4>2, <4>3
    <3> QED BY <3>1, <3>2
  <2>2. running = {} BY <1>0, <1>3 DEF TypeOK, Held, handleRead
  <2>3. /\ timers_' \subseteq Nat \X Timers /\ handling' = TRUE
        /\ timerfd_' \subseteq Nat /\ \A v, w \in timerfd_' : v = w
        BY <1>0, <1>3 DEF TypeOK, handleRead, timerFdRead
  <2>4. reported' \in BOOLEAN /\ UNCHANGED <<canceled, usedFreed>>
        BY <1>3 DEF handleRead
  <2>5. at' \in 0 .. clock' /\ clock' \in 0 .. MaxTime /\ UNCHANGED <<timer, running>>
        BY <1>0, <1>3 DEF TypeOK, handleRead
  <2> QED BY <1>0, <2>1, <2>2, <2>3, <2>4, <2>5 DEF TypeOK
<1>4. CASE runTimer
  <2>1. First(entries) \in entries BY <1>0, <1>4, FirstEntry DEF runTimer
  <2>2. running' \subseteq Held' BY <1>4, <2>1 DEF runTimer, Held
  <2> QED BY <1>0, <1>4, <2>2 DEF TypeOK, runTimer
<1>5. CASE callbackReturns
  <2>1. PICK e \in entries :
          LET t == e[2]
              again == timer[t].interval_ > 0
              when  == IF again THEN at + timer[t].interval_ ELSE timer[t].when_
          IN  /\ timer' = [timer EXCEPT ![t].when_ = when,
                                        ![t].life = IF again THEN @ ELSE "freed"]
              /\ timers_' = timers_ \cup (IF again THEN {<<when, t>>} ELSE {})
              /\ entries' = entries \ {e}
              /\ running' = {}
              /\ UNCHANGED <<clock, timerfd_, handling, at, reported, canceled, usedFreed>>
        BY <1>5 DEF callbackReturns
  <2> DEFINE t == e[2]
             again == timer[t].interval_ > 0
             when  == IF again THEN at + timer[t].interval_ ELSE timer[t].when_
  <2>2. t \in Timers BY <1>0 DEF TypeOK
  <2>3. at \in Nat /\ timer[t].interval_ \in Nat /\ timer[t].when_ \in Nat
        BY <1>0, <2>2 DEF TypeOK
  <2>4. when \in Nat BY <2>3
  <2>5. timer' = [timer EXCEPT ![t].when_ = when, ![t].life = IF again THEN @ ELSE "freed"]
        BY <2>1
  <2>6. timers_' \subseteq timers_ \cup {<<when, t>>} BY <2>1
  <2>7. /\ entries' \subseteq entries /\ running' = {}
        /\ UNCHANGED <<clock, timerfd_, handling, at, reported, canceled, usedFreed>>
        BY <2>1
  <2> HIDE DEF when, again, t
  <2>8. timer' \in [Timers -> [life : {"none", "live", "freed"},
                               when_ : Nat, interval_ : Nat]]
        BY <1>0, <2>2, <2>4, <2>5 DEF TypeOK
  <2>9. timers_' \subseteq Nat \X Timers BY <1>0, <2>2, <2>4, <2>6 DEF TypeOK
  <2> QED BY <1>0, <2>7, <2>8, <2>9 DEF TypeOK
<1>6. CASE handled
  <2>1. timers_ # {} => First(timers_)[1] \in Nat
        BY <1>0, FirstProperties DEF TypeOK
  <2>2. timers_ # {} => /\ duractionFromNow(First(timers_)[1]) \subseteq Nat
                        /\ \A v, w \in duractionFromNow(First(timers_)[1]) : v = w
        BY <1>0, <2>1, TimesAssumption DEF TypeOK, duractionFromNow, Upper
  <2>3. timerfd_' \subseteq Nat /\ \A v, w \in timerfd_' : v = w
        BY <1>0, <1>6, <2>2 DEF TypeOK, handled
  <2> QED BY <1>0, <1>6, <2>3 DEF TypeOK, handled, Held
<1>7. CASE tick
  <2>1. clock' \in 0 .. MaxTime /\ at' \in 0 .. clock'
        BY <1>0, <1>7, TimesAssumption DEF TypeOK, tick
  <2> QED BY <1>0, <1>7, <2>1 DEF TypeOK, tick, Held
<1>8. CASE report \/ useFreed BY <1>0, <1>8 DEF TypeOK, report, useFreed, Held
<1>9. CASE UNCHANGED vars BY <1>0, <1>9 DEF TypeOK, vars, Held
<1> QED BY <1>1, <1>2, <1>3, <1>4, <1>5, <1>6, <1>7, <1>8, <1>9 DEF Next, Loop

\* Every step keeps a live timer in one place: addTimer and callbackReturns put
\* it back under the when_ they store, handleRead moves it into the batch.
LEMMA HeldStep == QueueInv /\ [Next]_vars => EachTimerHeldOnce'
<1> SUFFICES ASSUME QueueInv, [Next]_vars PROVE EachTimerHeldOnce'
    OBVIOUS
<1> DEFINE Mine(t) == {e \in timers_ \cup entries : e[2] = t}
<1>0. TypeOK /\ HeldOnce /\ InOnePlace /\ canceled = {t \in Held : ~Live(t)}
      BY DEF QueueInv, EachTimerHeldOnce, FreedOnlyByCancel
<1>a. \A t \in Timers :
          Mine(t) = IF Live(t) \/ t \in canceled THEN {<<timer[t].when_, t>>} ELSE {}
      BY <1>0 DEF HeldOnce
<1>b. \A t \in Timers : timer[t] \in [life : {"none", "live", "freed"},
                                      when_ : Nat, interval_ : Nat]
      BY <1>0 DEF TypeOK
<1>c. ASSUME UNCHANGED <<timer, timers_, entries, canceled>> PROVE EachTimerHeldOnce'
      BY <1>0, <1>c DEF EachTimerHeldOnce, HeldOnce, InOnePlace, Live
<1>1. ASSUME NEW t \in Timers, addTimer(t) PROVE EachTimerHeldOnce'
  <2>1. PICK when \in Expiries, i \in Intervals :
          /\ timer' = [timer EXCEPT ![t] = [life |-> "live", when_ |-> when, interval_ |-> i]]
          /\ timers_' = timers_ \cup {<<when, t>>}
        BY <1>1 DEF addTimer
  <2>2. /\ entries' = entries /\ canceled' = canceled
        /\ timer[t].life = "none"
        BY <1>1 DEF addTimer
  <2>3. t \notin canceled /\ \A e \in timers_ \cup entries : e[2] # t
    <3>1. \A e \in timers_ \cup entries : e[2] = t => t \in canceled
          BY <2>2, <1>a DEF Live
    <3>2. t \notin canceled
      <4> SUFFICES ASSUME t \in canceled PROVE FALSE OBVIOUS
      <4>1. timer[t].life = "freed" BY DEF QueueInv, CanceledFreed
      <4> QED BY <4>1, <2>2
    <3> QED BY <3>1, <3>2
  <2>4. timer'[t] = [life |-> "live", when_ |-> when, interval_ |-> i]
        BY <2>1, <1>0 DEF TypeOK
  <2>5. \A u \in Timers \ {t} : timer'[u] = timer[u] BY <2>1, <1>0 DEF TypeOK
  <2>6. ASSUME NEW u \in Timers
        PROVE  Mine(u)' = IF Live(u)' \/ u \in canceled' THEN {<<timer'[u].when_, u>>} ELSE {}
    <3>1. CASE u = t BY <3>1, <2>1, <2>2, <2>3, <2>4 DEF Live
    <3>2. CASE u # t
      <4>1. Mine(u)' = Mine(u) BY <3>2, <2>1, <2>2
      <4>2. timer'[u] = timer[u] /\ canceled' = canceled BY <3>2, <2>2, <2>5
      <4> HIDE DEF Mine
      <4> QED BY <4>1, <4>2, <1>a DEF Live
    <3> QED BY <3>1, <3>2
  <2>7. HeldOnce' BY <2>6 DEF HeldOnce
  <2>8. InOnePlace' BY <1>0, <2>1, <2>2, <2>3 DEF InOnePlace
  <2> QED BY <2>7, <2>8 DEF EachTimerHeldOnce
<1>2. ASSUME NEW t \in Timers, cancelTimer(t) PROVE EachTimerHeldOnce'
  <2>1. /\ timers_' = timers_ \ {<<timer[t].when_, t>>} /\ entries' = entries
        /\ timer' = [timer EXCEPT ![t].life = "freed"] /\ Live(t)
        /\ canceled' = IF t \in Held THEN canceled \cup {t} ELSE canceled
        BY <1>2 DEF cancelTimer
  <2>2. Mine(t) = {<<timer[t].when_, t>>} BY <1>a, <2>1
  <2>3. ~Live(t)' /\ timer'[t].when_ = timer[t].when_
        BY <2>1, <1>0 DEF Live, TypeOK
  <2>4. \A u \in Timers \ {t} : timer'[u] = timer[u] BY <2>1, <1>0 DEF TypeOK
  \* In the batch its entry stays; in the set the entry goes.
  <2>5. Mine(t)' = IF t \in canceled' THEN {<<timer'[t].when_, t>>} ELSE {}
    <3>1. CASE t \in Held
      <4>1. PICK e \in entries : e[2] = t BY <3>1 DEF Held
      <4>2. e = <<timer[t].when_, t>> BY <2>2, <4>1
      <4>3. timers_' = timers_ BY <2>1, <4>1, <4>2, <1>0 DEF InOnePlace
      <4>4. Mine(t)' = Mine(t) BY <2>1, <4>3
      <4>5. t \in canceled' BY <2>1, <3>1
      <4> HIDE DEF Mine
      <4> QED BY <2>2, <2>3, <4>4, <4>5
    <3>2. CASE t \notin Held
      <4>1. \A e \in entries : e[2] # t BY <3>2 DEF Held
      <4>2. Mine(t)' = {} BY <2>1, <2>2, <4>1
      <4>3. t \notin canceled' BY <3>2, <2>1, <1>0
      <4> HIDE DEF Mine
      <4> QED BY <4>2, <4>3
    <3> QED BY <3>1, <3>2
  <2>6. ASSUME NEW u \in Timers
        PROVE  Mine(u)' = IF Live(u)' \/ u \in canceled' THEN {<<timer'[u].when_, u>>} ELSE {}
    <3>1. CASE u = t BY <3>1, <2>3, <2>5
    <3>2. CASE u # t
      <4>1. Mine(u)' = Mine(u) BY <3>2, <2>1
      <4>2. timer'[u] = timer[u] /\ (u \in canceled' <=> u \in canceled)
            BY <3>2, <2>1, <2>4
      <4> HIDE DEF Mine
      <4> QED BY <4>1, <4>2, <1>a DEF Live
    <3> QED BY <3>1, <3>2
  <2>7. HeldOnce' BY <2>6 DEF HeldOnce
  <2>8. InOnePlace' BY <1>0, <2>1 DEF InOnePlace
  <2> QED BY <2>7, <2>8 DEF EachTimerHeldOnce
<1>3. CASE handleRead
  <2>1. /\ entries' = Expired /\ timers_' = timers_ \ Expired /\ timer' = timer
        /\ canceled' = canceled /\ Expired \subseteq timers_
        BY <1>3 DEF handleRead, Expired
  <2>2. entries = {} BY <1>3, <1>0 DEF handleRead, TypeOK
  <2>3. timers_' \cup entries' = timers_ \cup entries BY <2>1, <2>2
  <2>4. HeldOnce' BY <1>0, <2>1, <2>3 DEF HeldOnce, Live
  <2>5. InOnePlace' BY <2>1 DEF InOnePlace
  <2> QED BY <2>4, <2>5 DEF EachTimerHeldOnce
<1>4. CASE runTimer \/ report \/ useFreed BY <1>4, <1>c DEF runTimer, report, useFreed
<1>5. CASE callbackReturns
  <2>1. PICK e \in entries :
          LET t == e[2]
              again == timer[t].interval_ > 0
              when  == IF again THEN at + timer[t].interval_ ELSE timer[t].when_
          IN  /\ timer' = [timer EXCEPT ![t].when_ = when,
                                        ![t].life = IF again THEN @ ELSE "freed"]
              /\ timers_' = timers_ \cup (IF again THEN {<<when, t>>} ELSE {})
              /\ entries' = entries \ {e}
              /\ canceled' = canceled /\ Live(t)
        BY <1>5 DEF callbackReturns
  <2> DEFINE t == e[2]
             again == timer[t].interval_ > 0
             when  == IF again THEN at + timer[t].interval_ ELSE timer[t].when_
  <2>2. t \in Timers BY <1>0 DEF TypeOK
  <2>3. /\ Live(t) /\ canceled' = canceled /\ t \notin canceled
        /\ e = <<timer[t].when_, t>>
        BY <1>0, <2>1, <2>2, EntriesAlive
  <2>4. Mine(t) = {e} /\ e \notin timers_
        BY <1>0, <1>a, <2>2, <2>3 DEF InOnePlace
  <2>5. timer' = [timer EXCEPT ![t].when_ = when, ![t].life = IF again THEN @ ELSE "freed"]
        BY <2>1
  <2>6. timers_' = timers_ \cup (IF again THEN {<<when, t>>} ELSE {}) BY <2>1
  <2>7. entries' = entries \ {e} BY <2>1
  <2>8. Live(t) BY <2>3
  <2> HIDE DEF when, again, t
  <2>9. /\ timer'[t].when_ = when /\ (Live(t)' <=> again)
        /\ \A u \in Timers \ {t} : timer'[u] = timer[u]
        BY <1>0, <2>2, <2>5, <2>8 DEF TypeOK, Live
  <2>10. \A f \in timers_ \cup entries : f[2] = t => f = e BY <2>4
  <2>11. ASSUME NEW u \in Timers
         PROVE  Mine(u)' = IF Live(u)' \/ u \in canceled' THEN {<<timer'[u].when_, u>>} ELSE {}
    <3>1. CASE u = t
      <4>1. Mine(t)' = IF again THEN {<<when, t>>} ELSE {}
            BY <2>4, <2>6, <2>7, <2>10
      <4> QED BY <3>1, <4>1, <2>3, <2>9
    <3>2. CASE u # t
      <4>1. e[2] = t BY DEF t
      <4>2. Mine(u)' = Mine(u) BY <3>2, <4>1, <2>6, <2>7
      <4>3. timer'[u] = timer[u] BY <3>2, <2>9
      <4> HIDE DEF Mine
      <4> QED BY <4>2, <4>3, <2>3, <1>a DEF Live
    <3> QED BY <3>1, <3>2
  <2>12. HeldOnce' BY <2>11 DEF HeldOnce
  <2>13. InOnePlace'
    <3>1. \A f \in entries' : f[2] # t BY <2>7, <2>10
    <3> QED BY <1>0, <2>6, <2>7, <3>1 DEF InOnePlace
  <2> QED BY <2>12, <2>13 DEF EachTimerHeldOnce
<1>6. CASE handled BY <1>6, <1>c DEF handled
<1>7. CASE tick BY <1>7, <1>c DEF tick
<1>8. CASE UNCHANGED vars BY <1>8, <1>c DEF vars
<1> QED BY <1>1, <1>2, <1>3, <1>4, <1>5, <1>6, <1>7, <1>8 DEF Next, Loop

\* A callback is the only one to delete a timer of the batch before its turn, and
\* the walk ends at the first such timer it comes to.
LEMMA FreedStep == QueueInv /\ [Next]_vars => FreedOnlyByCancel' /\ CanceledFreed'
<1> SUFFICES ASSUME QueueInv, [Next]_vars PROVE FreedOnlyByCancel' /\ CanceledFreed'
    OBVIOUS
<1> USE DEF FreedOnlyByCancel, CanceledFreed
<1>0. /\ TypeOK /\ HeldOnce /\ InOnePlace /\ CanceledFreed
      /\ canceled = {t \in Held : ~Live(t)}
      /\ entries \subseteq (0 .. at) \X Timers
      BY DEF QueueInv, EachTimerHeldOnce, TypeOK
<1>a. ASSUME UNCHANGED <<timer, entries, running, canceled, usedFreed>>
      PROVE  FreedOnlyByCancel' /\ CanceledFreed'
      BY <1>a DEF QueueInv, Held, Live, Turn
<1>1. CASE UNCHANGED vars BY <1>1, <1>a DEF vars
<1> SUFFICES ASSUME Next PROVE FreedOnlyByCancel' /\ CanceledFreed'
    BY <1>1
<1>b. ~usedFreed BY DEF Next
<1>c. ASSUME usedFreed' = usedFreed, canceled' = {t \in Held' : ~Live(t)'},
             \A t \in canceled' : timer'[t].life = "freed"
      PROVE  FreedOnlyByCancel' /\ CanceledFreed'
      BY <1>b, <1>c
<1>2. ASSUME NEW t \in Timers, addTimer(t) PROVE FreedOnlyByCancel' /\ CanceledFreed'
  <2>1. /\ UNCHANGED <<entries, canceled, usedFreed>> /\ timer[t].life = "none"
        /\ \A u \in Timers \ {t} : timer'[u] = timer[u]
        BY <1>2, <1>0 DEF addTimer, TypeOK
  <2>2. t \notin Held
    <3> SUFFICES ASSUME t \in Held PROVE FALSE OBVIOUS
    <3>1. t \in canceled BY <1>0, <2>1 DEF Live
    <3>2. timer[t].life = "freed" BY <1>0, <3>1
    <3> QED BY <2>1, <3>2
  <2>3. Held' = Held /\ Held \subseteq Timers BY <2>1, <1>0 DEF Held
  <2>4. \A u \in Held : timer'[u] = timer[u] BY <2>1, <2>2, <2>3
  <2> QED BY <1>0, <1>c, <2>1, <2>3, <2>4 DEF Live
<1>3. ASSUME NEW t \in Timers, cancelTimer(t) PROVE FreedOnlyByCancel' /\ CanceledFreed'
  <2>1. /\ UNCHANGED <<entries, usedFreed>> /\ timer'[t].life = "freed"
        /\ canceled' = IF t \in Held THEN canceled \cup {t} ELSE canceled
        /\ \A u \in Timers \ {t} : timer'[u] = timer[u]
        BY <1>3, <1>0 DEF cancelTimer, TypeOK
  <2>2. Held' = Held /\ Held \subseteq Timers BY <2>1, <1>0 DEF Held
  <2> QED BY <1>0, <1>c, <2>1, <2>2 DEF Live
<1>4. CASE handleRead
  <2>1. /\ UNCHANGED <<timer, canceled, usedFreed>> /\ entries = {}
        /\ entries' = Expired /\ Expired \subseteq timers_
        BY <1>4, <1>0 DEF handleRead, Expired, TypeOK
  <2>2. canceled = {} BY <1>0, <2>1 DEF Held
  <2>3. ASSUME NEW e \in Expired PROVE Live(e[2])
    <3>1. e[2] \in Timers /\ e \in timers_ \cup entries BY <2>1, <1>0 DEF TypeOK
    <3> QED BY <3>1, <1>0, <2>2, EntriesAlive
  <2>4. \A t \in Held' : Live(t)' BY <2>1, <2>3 DEF Held, Live
  <2> QED BY <1>c, <2>1, <2>2, <2>4
<1>5. CASE runTimer
  <2>1. UNCHANGED <<timer, entries, canceled, usedFreed>> BY <1>5 DEF runTimer
  <2> QED BY <1>0, <1>c, <2>1 DEF Held, Live
<1>6. CASE useFreed
  <2>1. /\ UNCHANGED <<timer, entries, canceled>> /\ Turn' = Turn
        BY <1>6 DEF useFreed, Turn
  <2>2. PICK t \in Turn : ~Live(t) BY <1>6 DEF useFreed
  <2>3. Turn \subseteq Held
    <3>1. running \subseteq Held BY <1>0 DEF TypeOK
    <3>2. entries # {} => First(entries)[2] \in Held BY <1>0, FirstEntry DEF Held
    <3> QED BY <3>1, <3>2 DEF Turn
  <2>4. t \in canceled BY <1>0, <2>2, <2>3
  <2> QED BY <1>0, <2>1, <2>2, <2>4 DEF Held, Live
<1>7. CASE callbackReturns
  <2>1. PICK e \in entries :
          /\ running = {e[2]} /\ Live(e[2]) /\ entries' = entries \ {e}
          /\ UNCHANGED <<canceled, usedFreed>>
          /\ \A u \in Timers \ {e[2]} : timer'[u] = timer[u]
        BY <1>7, <1>0 DEF callbackReturns, TypeOK
  <2>2. e[2] \in Timers /\ e[2] \notin canceled BY <1>0, <2>1
  <2>3. \A f \in entries \ {e} : f[2] # e[2]
    <3>1. ASSUME NEW f \in entries, f[2] = e[2] PROVE f = e
          BY <3>1, <1>0, <2>2, EntriesAlive
    <3> QED BY <3>1
  <2>4. Held' = Held \ {e[2]} BY <2>1, <2>3 DEF Held
  <2>5. Held \subseteq Timers BY <1>0 DEF Held
  <2>6. \A u \in Held' : timer'[u] = timer[u] BY <2>1, <2>4, <2>5
  <2> QED BY <1>0, <1>c, <2>1, <2>2, <2>4, <2>6 DEF Live
<1>8. CASE report \/ handled \/ tick
      BY <1>8, <1>a DEF report, handled, tick
<1> QED BY <1>2, <1>3, <1>4, <1>5, <1>6, <1>7, <1>8 DEF Next, Loop

\* At first no timer lives and the set of timers is empty.
LEMMA QueueInit == Init => QueueInv
<1> SUFFICES ASSUME Init PROVE QueueInv OBVIOUS
<1>1. TypeOK
  <2>1. reported \in BOOLEAN /\ usedFreed \in BOOLEAN /\ (~handling => entries = {})
        BY DEF Init
  <2> QED BY <2>1, TimesAssumption DEF Init, TypeOK, Held
<1>2. HeldOnce /\ InOnePlace BY DEF Init, HeldOnce, InOnePlace, Live
<1>3. FreedOnlyByCancel /\ CanceledFreed
      BY DEF Init, FreedOnlyByCancel, CanceledFreed, Held
<1> QED BY <1>1, <1>2, <1>3 DEF QueueInv, EachTimerHeldOnce

\* The inductive invariant of the queue: types, and each timer in one place
\* of entries_, the expired batch or the callback that runs (TimerQueue.cpp:78-115).
THEOREM QueueInvariant == Spec => []QueueInv
<1>1. QueueInv /\ [Next]_vars => QueueInv'
      BY TypeStep, HeldStep, FreedStep DEF QueueInv
<1> QED BY QueueInit, <1>1, PTL DEF Spec

\* The types of the timer queue, and that timers run only inside handleRead.
THEOREM TimerTypeCorrect == Spec => []TypeOK
<1>1. QueueInv => TypeOK BY DEF QueueInv
<1> QED BY <1>1, QueueInvariant, PTL

\* cancelTimer and handleRead always find a live timer under its own expiry.
THEOREM TimersHeldOnce == Spec => []EachTimerHeldOnce
<1>1. QueueInv => EachTimerHeldOnce BY DEF QueueInv
<1> QED BY <1>1, QueueInvariant, PTL

\* Whatever the callbacks cancel, handleRead uses freed memory only for a timer
\* that one of them cancelled in the batch, and it gets past none of those.
THEOREM BatchFreedByCancel == Spec => []FreedOnlyByCancel
<1>1. QueueInv => FreedOnlyByCancel BY DEF QueueInv
<1> QED BY <1>1, QueueInvariant, PTL

-----------------------------------------------------------------------------
\* A timerfd armed for S at one time is armed for T at a later one, if T has no
\* earlier entry than S.
LEMMA StaysArmed ==
  ASSUME NEW S, S \subseteq Nat \X Timers, S # {},
         NEW T, T \subseteq Nat \X Timers, T # {}, First(T)[1] >= First(S)[1],
         NEW now \in Nat, NEW later \in Nat, now <= later,
         NEW fd, fd \subseteq Nat, \E w \in fd : w <= Upper(First(S)[1], now + MinDelay)
  PROVE  \E w \in fd : w <= Upper(First(T)[1], later + MinDelay)
<1> DEFINE x == First(S)[1]
           y == First(T)[1]
           a == now + MinDelay
           c == later + MinDelay
<1>1. x \in Nat /\ y \in Nat
  <2>1. First(S) \in S /\ First(T) \in T BY FirstProperties
  <2> QED BY <2>1
<1>2. a \in Nat /\ c \in Nat /\ a <= c /\ x <= y BY TimesAssumption, <1>1
<1>3. PICK w \in fd : w <= Upper(x, a) BY DEF x, a
<1> HIDE DEF x, y, a, c
<1>4. Upper(x, a) \in Nat /\ Upper(y, c) \in Nat /\ Upper(x, a) <= Upper(y, c)
      BY <1>1, <1>2 DEF Upper
<1>5. w <= Upper(y, c) BY <1>3, <1>4
<1> QED BY <1>5 DEF y, c

\* addTimer arms the timerfd for a new earliest timer, handled for what remains;
\* cancelling and waiting leave it early enough.
LEMMA ArmedStep == TypeOK /\ TypeOK' /\ ArmedForEarliest /\ [Next]_vars => ArmedForEarliest'
<1> SUFFICES ASSUME TypeOK, TypeOK', ArmedForEarliest, [Next]_vars,
                    timers_' # {}, ~handling'
             PROVE  \E w \in timerfd_' : w <= Upper(First(timers_')[1], clock' + MinDelay)
    BY DEF ArmedForEarliest
<1>0. /\ timers_ \subseteq Nat \X Timers /\ timers_' \subseteq Nat \X Timers
      /\ timerfd_ \subseteq Nat /\ timerfd_' \subseteq Nat
      /\ clock \in Nat /\ clock' \in Nat /\ MinDelay \in Nat
      BY TimesAssumption DEF TypeOK
<1>a. First(timers_') \in timers_' /\ First(timers_')[1] \in Nat
      BY <1>0, FirstProperties
<1>b. ASSUME ~handling, First(timers_') \in timers_, timerfd_' = timerfd_, clock <= clock'
      PROVE  \E w \in timerfd_' : w <= Upper(First(timers_')[1], clock' + MinDelay)
  <2>1. timers_ # {} BY <1>b
  <2>2. \E w \in timerfd_ : w <= Upper(First(timers_)[1], clock + MinDelay)
        BY <1>b, <2>1 DEF ArmedForEarliest
  <2>3. First(timers_)[1] <= First(timers_')[1] BY <1>0, <1>b, <2>1, FirstProperties
  <2>4. First(timers_)[1] \in Nat BY <1>0, <2>1, FirstProperties
  <2>5. First(timers_')[1] >= First(timers_)[1] BY <2>3, <2>4, <1>a
  <2> QED BY <1>0, <1>b, <2>1, <2>2, <2>5, StaysArmed
<1>c. ASSUME NEW x \in Nat, timerfd_' = duractionFromNow(x), First(timers_')[1] = x, clock' = clock
      PROVE  \E w \in timerfd_' : w <= Upper(First(timers_')[1], clock' + MinDelay)
  <2>1. Upper(x, clock + MinDelay) \in Nat BY <1>0 DEF Upper
  <2>2. timerfd_' = {Upper(x, clock + MinDelay)} BY <1>c DEF duractionFromNow
  <2> QED BY <1>c, <2>1, <2>2
<1>1. ASSUME NEW t \in Timers, addTimer(t)
      PROVE  \E w \in timerfd_' : w <= Upper(First(timers_')[1], clock' + MinDelay)
  <2>1. PICK when \in Expiries :
          /\ timers_' = timers_ \cup {<<when, t>>}
          /\ timerfd_' = IF First(timers_') = <<when, t>>
                         THEN duractionFromNow(when) ELSE timerfd_
        BY <1>1 DEF addTimer
  <2>2. clock' = clock /\ handling' = handling BY <1>1 DEF addTimer
  <2>3. CASE First(timers_') = <<when, t>>
    <3>1. when \in Nat BY TimesAssumption
    <3> QED BY <1>c, <2>1, <2>2, <2>3, <3>1
  <2>4. CASE First(timers_') # <<when, t>>
    <3>1. First(timers_') \in timers_ BY <2>1, <2>4, <1>a
    <3>2. clock <= clock' BY <2>2, <1>0
    <3> QED BY <1>b, <2>1, <2>2, <2>4, <3>1, <3>2
  <2> QED BY <2>3, <2>4
<1>2. ASSUME NEW t \in Timers, cancelTimer(t)
      PROVE  \E w \in timerfd_' : w <= Upper(First(timers_')[1], clock' + MinDelay)
  <2>1. /\ First(timers_') \in timers_ /\ timerfd_' = timerfd_
        /\ clock' = clock /\ ~handling
        BY <1>2, <1>a DEF cancelTimer
  <2>2. clock <= clock' BY <2>1, <1>0
  <2> QED BY <1>b, <2>1, <2>2
<1>3. CASE handleRead \/ runTimer \/ useFreed
  <2>1. handling' BY <1>3 DEF handleRead, runTimer, useFreed
  <2> QED BY <2>1
<1>4. CASE callbackReturns
  <2>1. entries # {} /\ handling' = handling BY <1>4 DEF callbackReturns
  <2> QED BY <2>1 DEF TypeOK
<1>5. CASE handled
  <2>1. timerfd_' = duractionFromNow(First(timers_')[1]) /\ clock' = clock
        BY <1>5 DEF handled
  <2> QED BY <2>1, <1>a, <1>c
<1>6. CASE tick
  <2>1. /\ timers_' = timers_ /\ timerfd_' = timerfd_ /\ ~handling /\ clock' = clock + 1
        BY <1>6 DEF tick
  <2>2. clock <= clock' BY <2>1, <1>0
  <2>3. First(timers_') \in timers_ BY <2>1, <1>a
  <2> QED BY <1>b, <2>1, <2>2, <2>3
<1>7. CASE report \/ UNCHANGED vars
  <2>1. /\ timers_' = timers_ /\ timerfd_' = timerfd_ /\ ~handling /\ clock' = clock
        BY <1>7 DEF report, vars
  <2>2. clock <= clock' BY <2>1, <1>0
  <2>3. First(timers_') \in timers_ BY <2>1, <1>a
  <2> QED BY <1>b, <2>1, <2>2, <2>3
<1> QED BY <1>1, <1>2, <1>3, <1>4, <1>5, <1>6, <1>7 DEF Next, Loop

\* The one timerfd is never armed too late for the earliest timer.
THEOREM ArmedInTime == Spec => []ArmedForEarliest
<1>1. Init => ArmedForEarliest BY DEF Init, ArmedForEarliest
<1> QED BY <1>1, TimerTypeCorrect, ArmedStep, PTL DEF Spec
=============================================================================
