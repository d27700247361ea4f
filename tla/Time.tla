---------------------------------- MODULE Time ----------------------------------
(***************************************************************************)
(* The clock of src/common/Time.c: Time__perf_now reads the kernel's       *)
(* monotonic clock, Time__now subtracts the reading it keeps in a static   *)
(* variable, which its first call sets.  Threads call Time__now; its       *)
(* accesses to that variable are steps of their own, so two first calls    *)
(* may overlap, and any reading may fail.                                  *)
(*                                                                         *)
(* Two variables are history: they record which calls a failed reading or  *)
(* an overlapping first call has touched, and no guard reads them.         *)
(***************************************************************************)
EXTENDS Integers

CONSTANTS
  Threads,         (* who calls Time__now                                 *)
  Boot, MaxClock,  (* the clock when the process starts, and at most      *)
  W64,             (* 2^64                                                *)
  Ms,              (* nanoseconds in a millisecond                        *)
  ClockWorks       (* TRUE: clock_gettime never fails                     *)

ASSUME ClockAssumption ==
  Boot \in Nat \ {0} /\ MaxClock \in Nat /\ W64 \in Nat /\ Boot <= MaxClock /\ MaxClock < W64
ASSUME UnitAssumption  == Ms \in Nat \ {0}
ASSUME FailureAssumption == ClockWorks \in BOOLEAN

VARIABLES
  clock,     \* the kernel's, in nanoseconds
  start_ns,  \* the static variable
  at,        \* where each thread is in Time__now
  seen,      \* the reading it is about to use, or zero
  answer,    \* what Time__now last answered
  hit,       \* history: who is in a call in which a reading failed, or start_ns was
             \* set under a reading or lost
  worth      \* history: bad, the answer of such a call; stale, given before
             \* start_ns was set again; good, any other

timeVars == <<start_ns, at, seen, answer, hit, worth>>

TimeType ==
  /\ clock \in 0 .. MaxClock
  /\ start_ns \in 0 .. MaxClock
  /\ at \in [Threads -> {"idle", "first", "set", "now", "answer"}]
  /\ seen \in [Threads -> 0 .. MaxClock]
  /\ answer \in [Threads -> 0 .. W64 - 1]
  /\ hit \in SUBSET Threads
  /\ worth \in [Threads -> {"good", "stale", "bad"}]

TimeInit ==
  /\ clock = Boot /\ start_ns = 0
  /\ at = [t \in Threads |-> "idle"]
  /\ seen = [t \in Threads |-> 0]
  /\ answer = [t \in Threads |-> 0]
  /\ hit = {} /\ worth = [t \in Threads |-> "good"]

\* What Time__perf_now can answer: zero when clock_gettime fails.
Time__perf_now == {clock} \cup IF ClockWorks THEN {} ELSE {0}

Minus(a, b) == (a - b) % W64

-----------------------------------------------------------------------------
(* Time__now *)

Goes(t, this, next) == at[t] = this /\ at' = [at EXCEPT ![t] = next]

NowTests(t) ==
  /\ Goes(t, "idle", IF start_ns = 0 THEN "first" ELSE "now")
  /\ hit' = hit \ {t}
  /\ UNCHANGED <<clock, start_ns, seen, answer, worth>>

NowReads(t) ==
  /\ Goes(t, "first", "set") \/ Goes(t, "now", "answer")
  /\ \E ns \in Time__perf_now :
       /\ seen' = [seen EXCEPT ![t] = ns]
       /\ hit' = IF ns = 0 THEN hit \cup {t} ELSE hit
  /\ UNCHANGED <<clock, start_ns, answer, worth>>

\* The callers that are about to subtract from a reading, or are sure that there is
\* a start_ns, when t stores its own.
Touched(t) == {u \in Threads : at[u] = "answer" \/ (at[u] = "now" /\ seen[t] = 0)}
Older(w)   == IF w = "good" THEN "stale" ELSE w

NowStarts(t) ==
  /\ Goes(t, "set", "now")
  /\ start_ns' = seen[t] /\ seen' = [seen EXCEPT ![t] = 0]
  /\ hit' = hit \cup Touched(t)
  /\ worth' = IF start_ns = 0 THEN worth ELSE [u \in Threads |-> Older(worth[u])]
  /\ UNCHANGED <<clock, answer>>

Judged(t) == worth' = [worth EXCEPT ![t] = IF t \in hit THEN "bad" ELSE "good"]

\* Mistakes: the difference the wrong way round; the time since the call before.
AnswersReversed(t) ==
  /\ Goes(t, "answer", "idle")
  /\ answer' = [answer EXCEPT ![t] = Minus(start_ns, seen[t]) \div Ms]
  /\ seen' = [seen EXCEPT ![t] = 0] /\ Judged(t)
  /\ UNCHANGED <<clock, start_ns, hit>>
AnswersSinceLast(t) ==
  /\ Goes(t, "answer", "idle")
  /\ answer' = [answer EXCEPT ![t] = Minus(seen[t], start_ns) \div Ms]
  /\ start_ns' = seen[t]
  /\ seen' = [seen EXCEPT ![t] = 0] /\ Judged(t)
  /\ UNCHANGED <<clock, hit>>

NowAnswers(t) ==
  /\ Goes(t, "answer", "idle")
  /\ answer' = [answer EXCEPT ![t] = Minus(seen[t], start_ns) \div Ms]
  /\ seen' = [seen EXCEPT ![t] = 0] /\ Judged(t)
  /\ UNCHANGED <<clock, start_ns, hit>>

Tick == clock < MaxClock /\ clock' = clock + 1 /\ UNCHANGED timeVars

TimeNext ==
  \/ Tick
  \/ \E t \in Threads : NowTests(t) \/ NowReads(t) \/ NowStarts(t) \/ NowAnswers(t)

-----------------------------------------------------------------------------
(* Properties *)

\* No thread is told of more time than has passed since the process started,
\* whichever first calls of Time__now overlap and whichever readings fail
\* (Time.c:39, :44-52): what they spoil is the answers of the calls they touch, and
\* every later one is right again.
NowWithinUptime ==
  \A t \in Threads : worth[t] # "bad" => answer[t] <= (clock - Boot) \div Ms

\* For every thread time goes forward from one call of Time__now to the next, except
\* from or to a call that was touched and across the moment start_ns is set again.
NowNeverGoesBack ==
  [][\A t \in Threads :
       answer'[t] < answer[t] => worth[t] # "good" \/ worth'[t] = "bad"]_answer

-----------------------------------------------------------------------------
(* What a comment of Time.c promises, and the code does not do *)

\* Time.c:44, "Get milliseconds elapsed since process start".
EveryAnswerIsElapsed == \A t \in Threads : answer[t] <= (clock - Boot) \div Ms
================================================================================
