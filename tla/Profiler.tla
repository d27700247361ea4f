-------------------------------- MODULE Profiler --------------------------------
(***************************************************************************)
(* The profiler of src/common/Profiler.c over the clock of Time.  It keeps *)
(* one Trace per profiled function, whose calls are bracketed by           *)
(* PROFILE__BEGIN and PROFILE__END.  Functions of different ids may run in *)
(* different threads, or one inside the other; the application resets and  *)
(* prints when none runs.                                                  *)
(***************************************************************************)
EXTENDS Time

CONSTANTS
  Ids,       (* the ids in use, of the MAX_PROFILE_FNS                       *)
  None,      (* nothing                                                      *)
  MaxDepth,  (* how deep a function calls itself                             *)
  MaxCalls,  (* calls per id                                                 *)
  W32        (* 2^32                                                         *)

ASSUME CountAssumption == MaxDepth \in Nat /\ MaxCalls \in Nat /\ W32 \in Nat \ {0}

VARIABLES
  last_time, total_time, call_count,  \* the fields of Trace
  depth,     \* how many brackets of an id are open
  since,     \* when the outermost of them was opened
  spent,     \* how long all that were closed took
  calls,     \* how many were opened
  spoilt     \* history: the ids that had a failed reading, or a bracket inside a
             \* bracket, since the last reset

traces == <<last_time, total_time, call_count>>
truth  == <<depth, since, spent, calls, spoilt>>
vars   == <<clock, timeVars, traces, truth>>

Zero == [id \in Ids |-> 0]

TypeOK ==
  /\ TimeType
  /\ last_time \in [Ids -> 0 .. W64 - 1] /\ total_time \in [Ids -> 0 .. W64 - 1]
  /\ call_count \in [Ids -> 0 .. W32 - 1]
  /\ depth \in [Ids -> 0 .. MaxDepth]
  /\ since \in [Ids -> 0 .. MaxClock]
  /\ spent \in [Ids -> Nat] /\ calls \in [Ids -> 0 .. MaxCalls]
  /\ spoilt \in SUBSET Ids

Init ==
  /\ TimeInit
  /\ last_time = Zero /\ total_time = Zero /\ call_count = Zero
  /\ depth = Zero /\ since = Zero /\ spent = Zero /\ calls = Zero
  /\ spoilt = {}

Plus(a, b) == (a + b) % W64

\* No profiled function runs.
Between == depth = Zero

\* A bound of the runs: either the traces are in use or Time__now is.  They share the
\* clock alone, which neither of them changes.
Apart == calls = Zero \/ (start_ns = 0 /\ \A t \in Threads : at[t] = "idle")

-----------------------------------------------------------------------------
(* What the application does around a call, in which the clock answers unow *)

Opens(id, unow) ==
  /\ depth[id] < MaxDepth /\ calls[id] < MaxCalls
  /\ depth' = [depth EXCEPT ![id] = @ + 1]
  /\ since' = IF depth[id] = 0 THEN [since EXCEPT ![id] = clock] ELSE since
  /\ calls' = [calls EXCEPT ![id] = @ + 1]
  /\ spoilt' = IF unow = 0 \/ depth[id] > 0 THEN spoilt \cup {id} ELSE spoilt
  /\ UNCHANGED <<clock, timeVars, spent>>

Closes(id, unow) ==
  /\ depth[id] > 0
  /\ depth' = [depth EXCEPT ![id] = @ - 1]
  /\ IF depth[id] = 1
     THEN /\ spent' = [spent EXCEPT ![id] = @ + clock - since[id]]
          /\ since' = [since EXCEPT ![id] = 0]
     ELSE UNCHANGED <<spent, since>>
  /\ spoilt' = IF unow = 0 THEN spoilt \cup {id} ELSE spoilt
  /\ UNCHANGED <<clock, timeVars, calls>>

-----------------------------------------------------------------------------
(* The calls *)

Profiler__reset ==
  /\ Between
  /\ last_time' = Zero /\ total_time' = Zero /\ call_count' = Zero
  /\ spent' = Zero /\ calls' = Zero /\ spoilt' = {}
  /\ UNCHANGED <<clock, timeVars, depth, since>>

\* Mistake: the reading is not negated.
BeginUnsigned(id) ==
  /\ \E unow \in Time__perf_now : /\ Opens(id, unow)
                                 /\ last_time' = [last_time EXCEPT ![id] = unow]
  /\ call_count' = [call_count EXCEPT ![id] = (@ + 1) % W32]
  /\ UNCHANGED total_time

Profiler__beginTrace(id) ==
  /\ \E unow \in Time__perf_now :
       /\ Opens(id, unow)
       /\ last_time' = [last_time EXCEPT ![id] = Minus(0, unow)]
  /\ call_count' = [call_count EXCEPT ![id] = (@ + 1) % W32]
  /\ UNCHANGED total_time

Profiler__endTrace(id) ==
  /\ \E unow \in Time__perf_now :
       /\ Closes(id, unow)
       /\ last_time' = [last_time EXCEPT ![id] = Plus(@, unow)]
  /\ total_time' = [total_time EXCEPT ![id] = Plus(@, last_time'[id])]
  /\ UNCHANGED call_count

\* What Profiler__printf prints for an id: the ticks of an average call.
Average(id) == IF call_count[id] = 0 THEN None ELSE total_time[id] \div call_count[id]

Next ==
  \/ TimeNext /\ UNCHANGED <<traces, truth>>
  \/ Profiler__reset
  \/ \E id \in Ids : Profiler__beginTrace(id) \/ Profiler__endTrace(id)

Spec == Init /\ [][Next]_vars

-----------------------------------------------------------------------------
(* Properties *)

TraceIsTrue(id) ==
  /\ total_time[id] = spent[id]
  /\ calls[id] \in 1 .. W32 - 1 => Average(id) = spent[id] \div calls[id]

\* When no call of an id runs, its trace holds the time its calls took, though the sum
\* goes through a negated 64-bit reading, and what is printed is the average of that, as
\* long as the calls fit their counter (Profiler.c:11-35).  A failed reading or a
\* function that calls itself spoils the trace of its own id, up to the next reset.
TracesAreTrue == \A id \in Ids \ spoilt : depth[id] = 0 => TraceIsTrue(id)

\* Profiler.c:27 prints every id that was called as "fn %2u took": what its calls took.
EveryTraceIsTrue == \A id \in Ids : depth[id] = 0 => TraceIsTrue(id)
================================================================================
