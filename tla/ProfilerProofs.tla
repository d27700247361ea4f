------------------------------ MODULE ProfilerProofs ------------------------------
(***************************************************************************)
(* Proofs about Profiler and the clock under it, for every number of       *)
(* threads and of ids and whatever unit Time__now answers in.              *)
(***************************************************************************)
EXTENDS Profiler, TLAPS

-----------------------------------------------------------------------------
(* Arithmetic *)

\* Inside the width of the integer, a remainder is the number itself.
LEMMA Fits ==
  ASSUME NEW w \in Nat \ {0}, NEW x \in Nat, x < w
  PROVE  x % w = x
BY SMT

\* One turn too many.
LEMMA FitsOver ==
  ASSUME NEW w \in Nat \ {0}, NEW x \in Nat, w <= x, x < w + w
  PROVE  x % w = x - w
BY SMT

\* A number below zero comes back from the top.
LEMMA FitsUnder ==
  ASSUME NEW w \in Nat \ {0}, NEW x \in Nat \ {0}, x < w
  PROVE  (0 - x) % w = w - x
BY SMT

LEMMA RemainderIsNat == ASSUME NEW w \in Nat \ {0}, NEW x \in Int PROVE x % w \in Nat
BY SMT

LEMMA DivMonotone ==
  ASSUME NEW m \in Nat \ {0}, NEW x \in Nat, NEW y \in Nat, x <= y
  PROVE  x \div m \in Nat /\ x \div m <= y \div m
BY SMT

LEMMA DivZero == ASSUME NEW m \in Nat \ {0} PROVE 0 \div m = 0
BY SMT

-----------------------------------------------------------------------------
(* The clock *)

ClockInv == clock \in Nat /\ Boot <= clock /\ clock <= MaxClock

LEMMA ClockInit == Init => ClockInv
BY ClockAssumption DEF Init, TimeInit, ClockInv

LEMMA ClockStep ==
  ASSUME ClockInv, [Next]_vars
  PROVE  ClockInv' /\ clock <= clock'
<1>1. clock' = clock \/ (clock < MaxClock /\ clock' = clock + 1)
  BY DEF Next, vars, TimeNext, Tick, NowTests, NowReads, NowStarts, NowAnswers,
         Profiler__reset, Profiler__beginTrace, Profiler__endTrace, Opens, Closes
<1> QED
  BY <1>1, ClockAssumption DEF ClockInv

\* A reading is the time it is, unless it failed.
LEMMA Reading ==
  ASSUME NEW ns \in Time__perf_now
  PROVE  ns = clock \/ (ns = 0 /\ ~ClockWorks)
BY DEF Time__perf_now

-----------------------------------------------------------------------------
(* Time__now *)

\* Milliseconds between two readings.
Since(from, to) == (to - from) \div Ms

TimeFields ==
  /\ start_ns \in Nat /\ (start_ns = 0 \/ (Boot <= start_ns /\ start_ns <= clock))
  /\ at \in [Threads -> {"idle", "first", "set", "now", "answer"}]
  /\ seen \in [Threads -> Nat] /\ answer \in [Threads -> Nat]
  /\ hit \in SUBSET Threads /\ worth \in [Threads -> {"good", "stale", "bad"}]

\* A call that nothing has touched subtracts, from a reading of its own, one that is in
\* the static variable and not later.
CallHolds(t) ==
  /\ at[t] = "set" => \/ seen[t] = 0 /\ t \in hit
                      \/ Boot <= seen[t] /\ seen[t] <= clock
  /\ t \notin hit =>
       /\ at[t] = "now"    => start_ns # 0
       /\ at[t] = "answer" => start_ns # 0 /\ start_ns <= seen[t] /\ seen[t] <= clock

\* What a thread was told is not more than what is true now, nor, if the variable is
\* still the one it was told from, more than the reading it holds would tell it.
AnswerHolds(t) ==
  /\ worth[t] # "bad" => answer[t] <= Since(Boot, clock)
  /\ worth[t] = "good" =>
       /\ start_ns = 0 => answer[t] = 0
       /\ start_ns # 0 => answer[t] <= Since(start_ns, clock)
       /\ at[t] = "answer" /\ t \notin hit => answer[t] <= Since(start_ns, seen[t])

\* The inductive invariant.
NowInv == ClockInv /\ TimeFields /\ \A t \in Threads : CallHolds(t) /\ AnswerHolds(t)

LEMMA SinceMonotone ==
  ASSUME NEW from \in Nat, NEW to \in Nat, NEW later \in Nat, from <= to, to <= later
  PROVE  Since(from, to) \in Nat /\ Since(from, to) <= Since(from, later)
<1>1. to - from \in Nat /\ later - from \in Nat /\ to - from <= later - from
  OBVIOUS
<1> QED
  BY <1>1, DivMonotone, UnitAssumption DEF Since

LEMMA SinceZero == ASSUME NEW from \in Nat PROVE Since(from, from) = 0
<1>1. from - from = 0
  OBVIOUS
<1> QED
  BY <1>1, DivZero, UnitAssumption DEF Since

\* From an earlier reading more has passed.
LEMMA SinceEarlier ==
  ASSUME NEW from \in Nat, NEW to \in Nat, NEW earlier \in Nat, earlier <= from, from <= to
  PROVE  Since(from, to) \in Nat /\ Since(earlier, to) \in Nat
         /\ Since(from, to) <= Since(earlier, to)
<1>1. to - from \in Nat /\ to - earlier \in Nat /\ to - from <= to - earlier
  OBVIOUS
<1> QED
  BY <1>1, DivMonotone, UnitAssumption DEF Since

LEMMA NowInit == Init => NowInv
<1> SUFFICES ASSUME Init PROVE NowInv
  OBVIOUS
<1>1. start_ns = 0 /\ ClockInv /\ clock = Boot /\ Boot \in Nat
  BY ClockInit, ClockAssumption DEF Init, TimeInit
<1>2. TimeFields
  BY <1>1 DEF Init, TimeInit, TimeFields
<1>3. ASSUME NEW t \in Threads PROVE CallHolds(t) /\ AnswerHolds(t)
  <2>1. at[t] = "idle" /\ answer[t] = 0
    BY DEF Init, TimeInit
  <2>2. Since(Boot, clock) = 0
    BY <1>1, SinceZero
  <2> QED
    BY <1>1, <2>1, <2>2 DEF CallHolds, AnswerHolds
<1> QED
  BY <1>1, <1>2, <1>3 DEF NowInv

LEMMA NowStep ==
  ASSUME NowInv, [Next]_vars
  PROVE  NowInv'
<1> USE DEF NowInv
<1>0. /\ clock \in Nat /\ clock' \in Nat /\ clock <= clock' /\ ClockInv'
      /\ start_ns \in Nat /\ Boot \in Nat \ {0} /\ Boot <= clock
  BY ClockStep, ClockAssumption DEF ClockInv, TimeFields
<1>1. CASE UNCHANGED timeVars
  <2>1. TimeFields'
    BY <1>0, <1>1 DEF TimeFields, timeVars
  <2>2. ASSUME NEW t \in Threads PROVE CallHolds(t)'
    <3>1. seen[t] \in Nat
      BY DEF TimeFields
    <3> QED
      BY <1>0, <1>1, <3>1 DEF CallHolds, timeVars
  <2>3. ASSUME NEW t \in Threads PROVE AnswerHolds(t)'
    <3>1. answer[t] \in Nat /\ seen[t] \in Nat
      BY DEF TimeFields
    <3>2. /\ Since(Boot, clock) \in Nat /\ Since(Boot, clock') \in Nat
          /\ Since(Boot, clock) <= Since(Boot, clock')
      BY <1>0, SinceMonotone
    <3>3. start_ns # 0 => /\ Since(start_ns, clock) \in Nat /\ Since(start_ns, clock') \in Nat
                          /\ Since(start_ns, clock) <= Since(start_ns, clock')
      BY <1>0, SinceMonotone DEF TimeFields
    <3>4. /\ Since(Boot, clock)' = Since(Boot, clock')
          /\ Since(start_ns, clock)' = Since(start_ns, clock')
          /\ Since(start_ns, seen[t])' = Since(start_ns, seen[t])
      BY <1>1 DEF timeVars, Since
    <3> QED
      BY <1>1, <3>1, <3>2, <3>3, <3>4 DEF AnswerHolds, timeVars
  <2> QED
    BY <1>0, <2>1, <2>2, <2>3
<1>2. ASSUME NEW t \in Threads, NowTests(t) PROVE NowInv'
  <2>1. /\ UNCHANGED <<clock, start_ns, seen, answer, worth>> /\ hit' = hit \ {t}
        /\ at' = [at EXCEPT ![t] = IF start_ns = 0 THEN "first" ELSE "now"]
    BY <1>2 DEF NowTests, Goes
  <2>2. TimeFields'
    BY <1>0, <2>1 DEF TimeFields
  <2>3. \A u \in Threads : CallHolds(u)'
    BY <1>0, <2>1 DEF TimeFields, CallHolds
  <2>4. \A u \in Threads : AnswerHolds(u)'
    BY <2>1 DEF TimeFields, AnswerHolds, Since
  <2> QED
    BY <1>0, <2>2, <2>3, <2>4
<1>3. ASSUME NEW t \in Threads, NowReads(t) PROVE NowInv'
  <2>1. PICK ns \in Time__perf_now :
          /\ seen' = [seen EXCEPT ![t] = ns]
          /\ hit' = IF ns = 0 THEN hit \cup {t} ELSE hit
    BY <1>3 DEF NowReads
  <2>2. UNCHANGED <<clock, start_ns, answer, worth>> /\ (ns = clock \/ ns = 0)
    BY <1>3, Reading DEF NowReads
  <2>3. \/ at[t] = "first" /\ at' = [at EXCEPT ![t] = "set"]
        \/ at[t] = "now" /\ at' = [at EXCEPT ![t] = "answer"]
    BY <1>3 DEF NowReads, Goes
  <2>4. TimeFields'
    BY <1>0, <2>1, <2>2, <2>3 DEF TimeFields
  <2>5. /\ at'[t] \in {"set", "answer"} /\ (at'[t] = "set" <=> at[t] = "first")
        /\ at'[t] = "answer" => at[t] = "now"
        /\ seen'[t] = ns /\ (t \notin hit' => t \notin hit /\ ns = clock)
        /\ ns = 0 => t \in hit'
    BY <1>0, <2>1, <2>2, <2>3 DEF TimeFields
  <2>6. ASSUME NEW u \in Threads, u # t
        PROVE  at'[u] = at[u] /\ seen'[u] = seen[u] /\ (u \in hit' <=> u \in hit)
    BY <2>1, <2>3, <2>6 DEF TimeFields
  <2>7. CallHolds(t)' /\ AnswerHolds(t)'
    <3>1. CallHolds(t)'
      BY <1>0, <2>2, <2>5 DEF CallHolds, TimeFields
    <3>2. at'[t] = "answer" /\ t \notin hit' => start_ns # 0 /\ seen'[t] = clock
      BY <2>5 DEF CallHolds
    <3>3. /\ Since(Boot, clock)' = Since(Boot, clock)
          /\ Since(start_ns, clock)' = Since(start_ns, clock)
          /\ Since(start_ns, seen[t])' = Since(start_ns, seen'[t])
      BY <2>2 DEF Since
    <3>4. AnswerHolds(t)'
      BY <2>2, <3>2, <3>3 DEF AnswerHolds
    <3> QED
      BY <3>1, <3>4
  <2>8. ASSUME NEW u \in Threads, u # t PROVE CallHolds(u)' /\ AnswerHolds(u)'
    <3>1. CallHolds(u)'
      BY <2>2, <2>6, <2>8 DEF CallHolds
    <3>2. AnswerHolds(u)'
      BY <2>2, <2>6, <2>8 DEF AnswerHolds, Since
    <3> QED
      BY <3>1, <3>2
  <2> QED
    BY <1>0, <2>4, <2>7, <2>8
<1>4. ASSUME NEW t \in Threads, NowStarts(t) PROVE NowInv'
  <2>1. /\ UNCHANGED <<clock, answer>> /\ start_ns' = seen[t]
        /\ seen' = [seen EXCEPT ![t] = 0] /\ hit' = hit \cup Touched(t)
        /\ at[t] = "set" /\ at' = [at EXCEPT ![t] = "now"]
        /\ worth' = IF start_ns = 0 THEN worth ELSE [u \in Threads |-> Older(worth[u])]
    BY <1>4 DEF NowStarts, Goes
  <2>2. /\ seen[t] \in Nat /\ (seen[t] = 0 => t \in hit)
        /\ seen[t] = 0 \/ (Boot <= seen[t] /\ seen[t] <= clock)
    BY <1>0, <2>1 DEF CallHolds, TimeFields
  <2>3. TimeFields'
    <3>1. hit' \in SUBSET Threads
      BY <2>1 DEF Touched, TimeFields
    <3>2. worth' \in [Threads -> {"good", "stale", "bad"}]
      BY <2>1 DEF Older, TimeFields
    <3> QED
      BY <1>0, <2>1, <2>2, <3>1, <3>2 DEF TimeFields
  <2>4. ASSUME NEW u \in Threads PROVE CallHolds(u)'
    <3>1. CASE u = t
      <4>1. at'[t] = "now" /\ (t \notin hit' => start_ns' # 0)
        BY <2>1, <2>2 DEF TimeFields
      <4> QED
        BY <3>1, <4>1 DEF CallHolds
    <3>2. CASE u # t
      <4>1. at'[u] = at[u] /\ seen'[u] = seen[u]
        BY <2>1, <3>2 DEF TimeFields
      <4>2. u \notin hit' => /\ u \notin hit /\ at[u] # "answer"
                             /\ at[u] = "now" => seen[t] # 0
        BY <2>1 DEF Touched
      <4> QED
        BY <2>1, <4>1, <4>2 DEF CallHolds
    <3> QED
      BY <3>1, <3>2
  <2>5. ASSUME NEW u \in Threads PROVE AnswerHolds(u)'
    <3>1. answer'[u] = answer[u] /\ answer[u] \in Nat
      BY <2>1 DEF TimeFields
    <3>2. /\ worth'[u] # "bad" => worth[u] # "bad"
          /\ worth'[u] = "good" => worth[u] = "good" /\ start_ns = 0
      BY <2>1 DEF Older, TimeFields
    <3>3. at'[u] = "answer" => u \in hit'
      BY <2>1 DEF Touched, TimeFields
    <3>4. seen[t] # 0 => Since(seen[t], clock) \in Nat
      BY <1>0, <2>2, SinceMonotone
    <3>5. /\ Since(Boot, clock)' = Since(Boot, clock)
          /\ Since(start_ns, clock)' = Since(seen[t], clock)
      BY <2>1 DEF Since
    <3>6. worth'[u] # "bad" => answer'[u] <= Since(Boot, clock)'
      BY <3>1, <3>2, <3>5 DEF AnswerHolds
    <3>7. worth'[u] = "good" => answer'[u] = 0
      BY <3>1, <3>2 DEF AnswerHolds
    <3>8. start_ns' # 0 /\ worth'[u] = "good" => answer'[u] <= Since(start_ns, clock)'
      BY <2>1, <3>4, <3>5, <3>7
    <3> QED
      BY <3>3, <3>6, <3>7, <3>8 DEF AnswerHolds
  <2> QED
    BY <1>0, <2>3, <2>4, <2>5
<1>5. ASSUME NEW t \in Threads, NowAnswers(t) PROVE NowInv'
  <2>1. /\ UNCHANGED <<clock, start_ns, hit>>
        /\ answer' = [answer EXCEPT ![t] = Minus(seen[t], start_ns) \div Ms]
        /\ seen' = [seen EXCEPT ![t] = 0]
        /\ worth' = [worth EXCEPT ![t] = IF t \in hit THEN "bad" ELSE "good"]
        /\ at[t] = "answer" /\ at' = [at EXCEPT ![t] = "idle"]
    BY <1>5 DEF NowAnswers, Goes, Judged
  <2>2. seen[t] \in Nat /\ W64 \in Nat \ {0}
    BY <1>0, ClockAssumption DEF TimeFields
  <2>3. Minus(seen[t], start_ns) \in Nat
    <3>1. seen[t] - start_ns \in Int
      BY <1>0, <2>2
    <3> QED
      BY <2>2, <3>1, RemainderIsNat DEF Minus
  <2>4. Minus(seen[t], start_ns) \div Ms \in Nat
    BY <2>3, DivMonotone, UnitAssumption
  <2>5. TimeFields'
    BY <1>0, <2>1, <2>4 DEF TimeFields
  <2>6. at'[t] = "idle" /\ worth'[t] = (IF t \in hit THEN "bad" ELSE "good")
        /\ answer'[t] = Minus(seen[t], start_ns) \div Ms
    BY <2>1 DEF TimeFields
  <2>7. CallHolds(t)'
    BY <2>6 DEF CallHolds
  <2>8. AnswerHolds(t)'
    <3>1. CASE t \in hit
      BY <2>6, <3>1 DEF AnswerHolds
    <3>2. CASE t \notin hit
      <4>1. start_ns # 0 /\ start_ns <= seen[t] /\ seen[t] <= clock /\ Boot <= start_ns
        BY <2>1, <3>2 DEF CallHolds, TimeFields
      <4>2. Minus(seen[t], start_ns) \div Ms = Since(start_ns, seen[t])
        <5>1. seen[t] - start_ns \in Nat /\ seen[t] - start_ns < W64
          BY <1>0, <2>2, <4>1, ClockAssumption DEF ClockInv
        <5> QED
          BY <2>2, <5>1, Fits DEF Minus, Since
      <4>3. /\ Since(start_ns, seen[t]) \in Nat /\ Since(start_ns, clock) \in Nat
            /\ Since(start_ns, seen[t]) <= Since(start_ns, clock)
        BY <1>0, <2>2, <4>1, SinceMonotone
      <4>4. Since(Boot, clock) \in Nat /\ Since(start_ns, clock) <= Since(Boot, clock)
        <5>1. start_ns <= clock
          BY <1>0, <2>2, <4>1
        <5> QED
          BY <1>0, <4>1, <5>1, SinceEarlier
      <4>5. /\ Since(Boot, clock)' = Since(Boot, clock)
            /\ Since(start_ns, clock)' = Since(start_ns, clock)
        BY <2>1 DEF Since
      <4>6. answer'[t] <= Since(Boot, clock)' /\ answer'[t] <= Since(start_ns, clock)'
        BY <2>6, <4>2, <4>3, <4>4, <4>5
      <4> QED
        BY <2>1, <2>6, <4>1, <4>6 DEF AnswerHolds
    <3> QED
      BY <3>1, <3>2
  <2>9. ASSUME NEW u \in Threads, u # t PROVE CallHolds(u)' /\ AnswerHolds(u)'
    <3>1. at'[u] = at[u] /\ seen'[u] = seen[u] /\ answer'[u] = answer[u] /\ worth'[u] = worth[u]
      BY <2>1, <2>9 DEF TimeFields
    <3>2. CallHolds(u)'
      BY <2>1, <3>1 DEF CallHolds
    <3>3. AnswerHolds(u)'
      BY <2>1, <3>1 DEF AnswerHolds, Since
    <3> QED
      BY <3>2, <3>3
  <2> QED
    BY <1>0, <2>5, <2>7, <2>8, <2>9
<1>6. \/ UNCHANGED timeVars
      \/ \E t \in Threads : NowTests(t) \/ NowReads(t) \/ NowStarts(t) \/ NowAnswers(t)
  BY DEF Next, vars, TimeNext, Tick, Profiler__reset, Profiler__beginTrace,
         Profiler__endTrace, Opens, Closes
<1> QED
  BY <1>1, <1>2, <1>3, <1>4, <1>5, <1>6

\* No thread is ever told of more time than has passed since the process started, but by
\* a call in which a reading failed or under which another first call set or lost the
\* static variable: whatever such calls do, the calls after them are right again.
THEOREM Uptime == Spec => []NowWithinUptime
<1>1. ASSUME NowInv PROVE NowWithinUptime
  BY <1>1 DEF NowInv, AnswerHolds, NowWithinUptime, Since
<1>2. NowInv /\ [Next]_vars => NowInv'
  BY NowStep
<1> QED
  BY <1>1, <1>2, NowInit, PTL DEF Spec

\* And for none of them does time go back from one call of Time__now to the next, but
\* from or to such a call and across the moment the static variable is set again.
THEOREM Forward == Spec => NowNeverGoesBack
<1>1. ASSUME NowInv, [Next]_vars
      PROVE  [\A t \in Threads : answer'[t] < answer[t] =>
                worth[t] # "good" \/ worth'[t] = "bad"]_answer
  <2>1. answer \in [Threads -> Nat] /\ answer' \in [Threads -> Nat]
    BY <1>1, NowStep DEF NowInv, TimeFields
  <2>2. ASSUME NEW t \in Threads, NowAnswers(t), NEW u \in Threads, answer'[u] < answer[u]
        PROVE  worth[u] # "good" \/ worth'[u] = "bad"
    <3>1. /\ answer' = [answer EXCEPT ![t] = Minus(seen[t], start_ns) \div Ms]
          /\ worth' = [worth EXCEPT ![t] = IF t \in hit THEN "bad" ELSE "good"]
          /\ at[t] = "answer"
      BY <2>2 DEF NowAnswers, Goes, Judged
    <3>2. u = t
      BY <2>1, <2>2, <3>1
    <3>3. CASE t \in hit
      BY <1>1, <3>1, <3>2, <3>3 DEF NowInv, TimeFields
    <3>4. CASE t \notin hit
      <4>1. /\ start_ns \in Nat /\ start_ns <= seen[t] /\ seen[t] \in Nat
            /\ seen[t] - start_ns \in Nat /\ seen[t] - start_ns < W64 /\ W64 \in Nat \ {0}
        BY <1>1, <3>1, <3>4, ClockAssumption DEF NowInv, ClockInv, TimeFields, CallHolds
      <4>2. answer'[t] = Since(start_ns, seen[t])
        BY <2>1, <3>1, <4>1, Fits DEF Minus, Since
      <4>3. worth[t] = "good" => answer[t] <= Since(start_ns, seen[t])
        BY <1>1, <3>1, <3>4 DEF NowInv, AnswerHolds
      <4>4. answer'[t] \in Nat /\ answer[t] \in Nat /\ answer'[t] < answer[t]
        BY <2>1, <2>2, <3>2
      <4> QED
        BY <3>2, <4>2, <4>3, <4>4
    <3> QED
      BY <3>3, <3>4
  <2>3. answer' = answer \/ \E t \in Threads : NowAnswers(t)
    BY <1>1 DEF Next, vars, TimeNext, timeVars, Tick, NowTests, NowReads, NowStarts,
                Profiler__reset, Profiler__beginTrace, Profiler__endTrace, Opens, Closes
  <2> QED
    BY <2>2, <2>3
<1>2. NowInv /\ [Next]_vars => NowInv'
  BY NowStep
<1> QED
  BY <1>1, <1>2, NowInit, PTL DEF Spec, NowNeverGoesBack

\* Nothing touches the calls of a program of one thread whose clock works.
LEMMA OneThread ==
  ASSUME ClockWorks, \A t \in Threads, u \in Threads : t = u,
         NowInv, hit = {}, \A t \in Threads : worth[t] # "bad", [Next]_vars
  PROVE  hit' = {} /\ \A t \in Threads : worth'[t] # "bad"
<1>1. CASE UNCHANGED timeVars
  BY <1>1 DEF timeVars
<1>2. ASSUME NEW t \in Threads, NowTests(t) \/ NowReads(t)
      PROVE  hit' = {} /\ worth' = worth
  <2>1. 0 \notin Time__perf_now
    BY ClockAssumption DEF Time__perf_now, NowInv, ClockInv
  <2> QED
    BY <1>2, <2>1 DEF NowTests, NowReads
<1>3. ASSUME NEW t \in Threads, NowStarts(t)
      PROVE  hit' = {} /\ \A u \in Threads : worth'[u] # "bad"
  <2>1. Touched(t) = {}
    BY <1>3 DEF Touched, NowStarts, Goes
  <2> QED
    BY <1>3, <2>1 DEF NowStarts, Older, NowInv, TimeFields
<1>4. ASSUME NEW t \in Threads, NowAnswers(t)
      PROVE  hit' = {} /\ \A u \in Threads : worth'[u] # "bad"
  BY <1>4 DEF NowAnswers, Judged, NowInv, TimeFields
<1>5. \/ UNCHANGED timeVars
      \/ \E t \in Threads : NowTests(t) \/ NowReads(t) \/ NowStarts(t) \/ NowAnswers(t)
  BY DEF Next, vars, TimeNext, Tick, Profiler__reset, Profiler__beginTrace,
         Profiler__endTrace, Opens, Closes
<1> QED
  BY <1>1, <1>2, <1>3, <1>4, <1>5

\* So there every answer is what Time.c:44 says: the milliseconds elapsed, never more.
THEOREM Elapsed ==
  ASSUME ClockWorks, \A t \in Threads, u \in Threads : t = u
  PROVE  Spec => []EveryAnswerIsElapsed
<1> DEFINE Untouched == hit = {} /\ \A t \in Threads : worth[t] # "bad"
<1>1. Init => NowInv /\ Untouched
  BY NowInit DEF Init, TimeInit
<1>2. NowInv /\ Untouched /\ [Next]_vars => (NowInv /\ Untouched)'
  BY NowStep, OneThread
<1>3. NowInv /\ Untouched => EveryAnswerIsElapsed
  BY DEF NowInv, AnswerHolds, EveryAnswerIsElapsed, Since
<1> HIDE DEF Untouched
<1> QED
  BY <1>1, <1>2, <1>3, PTL DEF Spec

-----------------------------------------------------------------------------
(* The traces *)

TraceFields ==
  /\ last_time \in [Ids -> Nat] /\ total_time \in [Ids -> Nat]
  /\ call_count \in [Ids -> Nat] /\ calls \in [Ids -> Nat]
  /\ depth \in [Ids -> Nat] /\ since \in [Ids -> Nat] /\ spent \in [Ids -> Nat]
  /\ \A id \in Ids : since[id] <= clock
  /\ spoilt \in SUBSET Ids

\* While a call runs its trace holds the negated reading, and what was spent before it
\* is not more than the time before it: that is why the sum never wraps for good.
Sums(id) ==
  /\ depth[id] \in {0, 1}
  /\ total_time[id] = spent[id]
  /\ depth[id] = 0 => spent[id] <= clock - Boot
  /\ depth[id] = 1 => /\ Boot <= since[id] /\ since[id] <= clock
                      /\ last_time[id] = W64 - since[id]
                      /\ spent[id] <= since[id] - Boot

TraceHolds(id) ==
  /\ calls[id] < W32 => call_count[id] = calls[id]
  /\ id \notin spoilt => Sums(id)

\* The inductive invariant.
TraceInv == ClockInv /\ TraceFields /\ \A id \in Ids : TraceHolds(id)

LEMMA TraceInit == Init => TraceInv
<1> SUFFICES ASSUME Init PROVE TraceInv
  OBVIOUS
<1>1. ClockInv /\ clock = Boot /\ Boot \in Nat
  BY ClockInit, ClockAssumption DEF Init, TimeInit
<1>2. TraceFields
  BY <1>1 DEF Init, Zero, TraceFields
<1>3. \A id \in Ids : TraceHolds(id)
  BY <1>1 DEF Init, Zero, TraceHolds, Sums
<1> QED
  BY <1>1, <1>2, <1>3 DEF TraceInv

LEMMA TraceStep ==
  ASSUME TraceInv, [Next]_vars
  PROVE  TraceInv'
<1> USE DEF TraceInv
<1>0. /\ clock \in Nat /\ clock' \in Nat /\ clock <= clock' /\ ClockInv'
      /\ Boot \in Nat \ {0} /\ Boot <= clock /\ clock < W64 /\ W64 \in Nat \ {0}
      /\ W32 \in Nat \ {0}
  BY ClockStep, ClockAssumption, CountAssumption DEF ClockInv
<1>1. CASE UNCHANGED <<traces, truth>>
  <2>1. TraceFields'
    BY <1>0, <1>1 DEF TraceFields, traces, truth
  <2>2. ASSUME NEW id \in Ids PROVE TraceHolds(id)'
    BY <1>0, <1>1 DEF TraceFields, TraceHolds, Sums, traces, truth
  <2> QED
    BY <1>0, <2>1, <2>2
<1>2. CASE Profiler__reset
  <2>1. /\ clock' = clock /\ depth' = Zero /\ since' = since
        /\ last_time' = Zero /\ total_time' = Zero /\ call_count' = Zero
        /\ spent' = Zero /\ calls' = Zero /\ spoilt' = {}
    BY <1>2 DEF Profiler__reset, Between
  <2>2. TraceFields'
    BY <2>1 DEF TraceFields, Zero
  <2>3. \A id \in Ids : TraceHolds(id)'
    BY <1>0, <2>1 DEF TraceHolds, Sums, Zero
  <2> QED
    BY <1>0, <2>2, <2>3
<1>3. ASSUME NEW id \in Ids, Profiler__beginTrace(id) PROVE TraceInv'
  <2>0. PICK unow \in Time__perf_now :
          Opens(id, unow) /\ last_time' = [last_time EXCEPT ![id] = Minus(0, unow)]
    BY <1>3 DEF Profiler__beginTrace
  <2>1. /\ depth' = [depth EXCEPT ![id] = @ + 1]
        /\ since' = IF depth[id] = 0 THEN [since EXCEPT ![id] = clock] ELSE since
        /\ calls' = [calls EXCEPT ![id] = @ + 1]
        /\ call_count' = [call_count EXCEPT ![id] = (@ + 1) % W32]
        /\ spoilt' = IF unow = 0 \/ depth[id] > 0 THEN spoilt \cup {id} ELSE spoilt
        /\ UNCHANGED <<clock, spent, total_time>>
    BY <1>3, <2>0 DEF Profiler__beginTrace, Opens
  <2>2. unow \in Nat /\ (unow = 0 \/ unow = clock)
    BY <1>0, Reading
  <2>3. Minus(0, unow) \in Nat /\ (call_count[id] + 1) % W32 \in Nat
    <3>1. 0 - unow \in Int /\ call_count[id] + 1 \in Int
      BY <2>2 DEF TraceFields
    <3> QED
      BY <1>0, <3>1, RemainderIsNat DEF Minus
  <2>4. TraceFields'
    BY <1>0, <2>0, <2>1, <2>3 DEF TraceFields
  <2>5. calls'[id] < W32 => call_count'[id] = calls'[id]
    <3>1. calls'[id] = calls[id] + 1 /\ calls[id] \in Nat /\ call_count[id] \in Nat
      BY <2>1 DEF TraceFields
    <3> SUFFICES ASSUME calls[id] + 1 < W32 PROVE call_count'[id] = calls[id] + 1
      BY <3>1
    <3>2. call_count[id] = calls[id]
      BY <1>0, <3>1 DEF TraceHolds
    <3>3. (calls[id] + 1) % W32 = calls[id] + 1
      BY <1>0, <3>1, Fits
    <3> QED
      BY <2>1, <3>2, <3>3 DEF TraceFields
  <2>6. ASSUME id \notin spoilt' PROVE Sums(id)'
    <3>1. id \notin spoilt /\ unow = clock /\ depth[id] = 0
      BY <2>1, <2>2, <2>6 DEF TraceFields
    <3>2. Minus(0, clock) = W64 - clock
      <4>1. clock \in Nat \ {0} /\ W64 \in Nat \ {0} /\ clock < W64
        BY <1>0
      <4>2. (0 - clock) % W64 = W64 - clock
        BY <4>1, FitsUnder
      <4> QED
        BY <4>2 DEF Minus
    <3>3. /\ depth'[id] = 1 /\ since'[id] = clock /\ last_time'[id] = W64 - clock
          /\ spent'[id] = spent[id] /\ total_time'[id] = total_time[id]
      BY <2>0, <2>1, <3>1, <3>2 DEF TraceFields
    <3>4. Sums(id)
      BY <3>1 DEF TraceHolds
    <3> QED
      BY <1>0, <2>1, <3>1, <3>3, <3>4 DEF Sums
  <2>7. ASSUME NEW i \in Ids \ {id} PROVE TraceHolds(i)'
    <3>1. /\ depth'[i] = depth[i] /\ since'[i] = since[i] /\ calls'[i] = calls[i]
          /\ call_count'[i] = call_count[i] /\ last_time'[i] = last_time[i]
          /\ (i \in spoilt' <=> i \in spoilt)
      BY <2>0, <2>1 DEF TraceFields
    <3> QED
      BY <2>1, <3>1 DEF TraceHolds, Sums
  <2>8. TraceHolds(id)'
    BY <2>5, <2>6 DEF TraceHolds
  <2> QED
    BY <1>0, <2>4, <2>7, <2>8
<1>4. ASSUME NEW id \in Ids, Profiler__endTrace(id) PROVE TraceInv'
  <2>0. PICK unow \in Time__perf_now :
          Closes(id, unow) /\ last_time' = [last_time EXCEPT ![id] = Plus(@, unow)]
    BY <1>4 DEF Profiler__endTrace
  <2>1. /\ depth[id] > 0 /\ depth' = [depth EXCEPT ![id] = @ - 1]
        /\ IF depth[id] = 1
           THEN /\ spent' = [spent EXCEPT ![id] = @ + clock - since[id]]
                /\ since' = [since EXCEPT ![id] = 0]
           ELSE UNCHANGED <<spent, since>>
        /\ spoilt' = IF unow = 0 THEN spoilt \cup {id} ELSE spoilt
        /\ total_time' = [total_time EXCEPT ![id] = Plus(@, last_time'[id])]
        /\ UNCHANGED <<clock, calls, call_count>>
    BY <1>4, <2>0 DEF Profiler__endTrace, Closes
  <2>2. unow \in Nat /\ (unow = 0 \/ unow = clock)
    BY <1>0, Reading
  <2>3. last_time' \in [Ids -> Nat]
    <3>1. last_time[id] + unow \in Int
      BY <2>2 DEF TraceFields
    <3>2. Plus(last_time[id], unow) \in Nat
      BY <1>0, <3>1, RemainderIsNat DEF Plus
    <3> QED
      BY <2>0, <3>2 DEF TraceFields
  <2>4. total_time' \in [Ids -> Nat]
    <3>1. total_time[id] + last_time'[id] \in Int
      BY <2>3 DEF TraceFields
    <3>2. Plus(total_time[id], last_time'[id]) \in Nat
      BY <1>0, <3>1, RemainderIsNat DEF Plus
    <3> QED
      BY <2>1, <3>2 DEF TraceFields
  <2>5. spent[id] \in Nat /\ since[id] \in Nat /\ since[id] <= clock
        /\ spent[id] + clock - since[id] \in Nat
    BY <1>0 DEF TraceFields
  <2>6. TraceFields'
    <3>1. depth' \in [Ids -> Nat] /\ calls' \in [Ids -> Nat] /\ call_count' \in [Ids -> Nat]
          /\ spoilt' \in SUBSET Ids
      BY <2>1 DEF TraceFields
    <3>2. spent' \in [Ids -> Nat] /\ since' \in [Ids -> Nat]
      BY <2>1, <2>5 DEF TraceFields
    <3>3. \A i \in Ids : since'[i] <= clock'
      BY <1>0, <2>1 DEF TraceFields
    <3> QED
      BY <2>3, <2>4, <3>1, <3>2, <3>3 DEF TraceFields
  <2>7. ASSUME id \notin spoilt' PROVE Sums(id)'
    <3>1. id \notin spoilt /\ unow = clock
      BY <2>1, <2>2, <2>7 DEF TraceFields
    <3>2. /\ depth[id] = 1 /\ Boot <= since[id]
          /\ last_time[id] = W64 - since[id]
          /\ spent[id] <= since[id] - Boot /\ total_time[id] = spent[id]
      BY <2>1, <3>1 DEF TraceHolds, Sums
    <3>3. last_time'[id] = clock - since[id]
      <4> DEFINE sum == W64 - since[id] + clock
      <4>1. sum \in Nat /\ W64 <= sum /\ sum < W64 + W64 /\ sum - W64 = clock - since[id]
        BY <1>0, <2>5, <3>2
      <4>2. last_time'[id] = sum % W64
        BY <2>0, <3>1, <3>2 DEF TraceFields, Plus
      <4> HIDE DEF sum
      <4>3. sum % W64 = sum - W64
        BY <1>0, <4>1, FitsOver
      <4> QED
        BY <4>1, <4>2, <4>3
    <3>4. total_time'[id] = spent[id] + clock - since[id]
      <4>1. /\ spent[id] + (clock - since[id]) \in Nat /\ spent[id] + (clock - since[id]) < W64
            /\ spent[id] + (clock - since[id]) = spent[id] + clock - since[id]
        BY <1>0, <2>5, <3>2
      <4>2. Plus(spent[id], clock - since[id]) = spent[id] + clock - since[id]
        BY <1>0, <4>1, Fits DEF Plus
      <4> QED
        BY <2>1, <3>2, <3>3, <4>2 DEF TraceFields
    <3>5. depth'[id] = 0 /\ spent'[id] = spent[id] + clock - since[id]
      BY <2>1, <3>2 DEF TraceFields
    <3>6. spent'[id] <= clock - Boot
      BY <1>0, <2>5, <3>2, <3>5
    <3> QED
      BY <2>1, <3>4, <3>5, <3>6 DEF Sums
  <2>8. ASSUME NEW i \in Ids \ {id} PROVE TraceHolds(i)'
    <3>1. /\ depth'[i] = depth[i] /\ since'[i] = since[i] /\ spent'[i] = spent[i]
          /\ total_time'[i] = total_time[i] /\ last_time'[i] = last_time[i]
          /\ (i \in spoilt' <=> i \in spoilt)
      BY <2>0, <2>1 DEF TraceFields
    <3> QED
      BY <2>1, <3>1 DEF TraceHolds, Sums
  <2>9. TraceHolds(id)'
    BY <2>1, <2>7 DEF TraceHolds
  <2> QED
    BY <1>0, <2>6, <2>8, <2>9
<1>5. \/ UNCHANGED <<traces, truth>> \/ Profiler__reset
      \/ \E id \in Ids : Profiler__beginTrace(id) \/ Profiler__endTrace(id)
  BY DEF Next, vars
<1> QED
  BY <1>1, <1>2, <1>3, <1>4, <1>5

\* Every trace that is not running holds the time its calls took, and what is printed is
\* their average, but for the ids that had a failed reading or a call inside a call: no
\* other id, and no thread in Time__now, can spoil it.
THEOREM Traces == Spec => []TracesAreTrue
<1>1. ASSUME TraceInv PROVE TracesAreTrue
  <2> SUFFICES ASSUME NEW id \in Ids \ spoilt, depth[id] = 0
               PROVE  /\ total_time[id] = spent[id]
                      /\ calls[id] \in 1 .. W32 - 1 => Average(id) = spent[id] \div calls[id]
    BY DEF TracesAreTrue, TraceIsTrue
  <2>1. /\ total_time[id] = spent[id] /\ W32 \in Nat
        /\ calls[id] < W32 => call_count[id] = calls[id]
    BY <1>1, CountAssumption DEF TraceInv, TraceHolds, Sums
  <2> QED
    BY <2>1 DEF Average
<1>2. TraceInv /\ [Next]_vars => TraceInv'
  BY TraceStep
<1> QED
  BY <1>1, <1>2, TraceInit, PTL DEF Spec
================================================================================
