--------------------------------- MODULE Thread ---------------------------------
(***************************************************************************)
(* Threads and mutexes of src/common/Thread.c on Linux, used as the worker *)
(* pool of src/test/unit/common/Thread.c uses them: main creates the       *)
(* workers, joins them and returns.  The work of an item, which the test   *)
(* only simulates, is here an Arena__push on the one arena of _G, under a  *)
(* mutex that main makes before and destroys after; the push is taken      *)
(* apart into its accesses to pos, between which other threads may run.    *)
(***************************************************************************)
EXTENDS Integers, Sequences

CONSTANTS
  MAX_THREADS,    (* length of the array of threads                          *)
  MaxLen,         (* most workers asked for; may be more than the array has  *)
  NumItems,       (* items each worker has to do                             *)
  MaxSize,        (* longest arena                                           *)
  DEBUG_SLOW,     (* assertions are compiled in                              *)
  TrueMeansMade   (* how main reads the answer of Thread__Mutex_create       *)

ASSUME LoopAssumption == MAX_THREADS \in Nat /\ MaxLen \in Nat
ASSUME WorkAssumption == NumItems \in Nat /\ MaxSize \in Nat
ASSUME FlagAssumption == DEBUG_SLOW \in BOOLEAN /\ TrueMeansMade \in BOOLEAN

VARIABLES
  len,      \* numThreads
  i,        \* the loop counter of main
  main,     \* where main is
  thread,   \* each entry of threads[]: no thread, one that runs, ended, was joined
  mutex,    \* whether the mutex was made, or destroyed
  holder,   \* the worker that holds it, or NoOne
  step,     \* where each worker is
  result,   \* each worker's `result` in Arena__push
  sum,      \* what it is about to store in a->pos
  pos, end, \* the arena's
  got,      \* the block each worker got for each of its items so far
  proc      \* the process runs, returned, was aborted, or its behaviour is undefined

pool   == <<len, i, main, thread>>
lock   == <<mutex, holder>>
arena  == <<pos, end>>
worker == <<step, result, sum, got>>
vars   == <<pool, lock, arena, worker, proc>>

Slots == 0 .. MAX_THREADS - 1
NoOne == -1

TypeOK ==
  /\ len \in 0 .. MaxLen /\ i \in 0 .. MAX_THREADS
  /\ main \in {"mutex", "create", "join", "clean", "done"}
  /\ thread \in [Slots -> {"none", "running", "ended", "joined"}]
  /\ mutex \in {"none", "made", "destroyed"} /\ holder \in Slots \cup {NoOne}
  /\ step \in [Slots -> {"lock", "check", "take", "load", "store", "unlock"}]
  /\ pos \in Nat /\ end \in 0 .. MaxSize
  /\ result \in [Slots -> Nat] /\ sum \in [Slots -> Nat]
  /\ got \in [Slots -> Seq(Nat)]
  /\ \A w \in Slots : Len(got[w]) <= NumItems
  /\ proc \in {"running", "returned", "aborted", "undefined"}

Init ==
  /\ len \in 0 .. MaxLen /\ i = 0 /\ main = "mutex"
  /\ thread = [w \in Slots |-> "none"]
  /\ mutex = "none" /\ holder = NoOne
  /\ step = [w \in Slots |-> "lock"]
  /\ result = [w \in Slots |-> 0] /\ sum = [w \in Slots |-> 0]
  /\ pos = 0 /\ end \in 0 .. MaxSize
  /\ got = [w \in Slots |-> <<>>]
  /\ proc = "running"

-----------------------------------------------------------------------------
(* Thread.c: mutexes *)

Undefined == proc' = "undefined"
MainTo(place) == main' = place

\* pthread_mutex_init may fail; the answer is TRUE when it did.
Thread__Mutex_create(fails) == fails

\* Mistake: the lock does not wait (what the branch for Emscripten does).
LockAtOnce(w) == holder' = w /\ UNCHANGED <<mutex, proc>>

\* A mutex that was not made, or was destroyed, has no behaviour.  Otherwise wait.
Thread__Mutex_lock(w) ==
  IF mutex = "made"
  THEN holder = NoOne /\ holder' = w /\ UNCHANGED <<mutex, proc>>
  ELSE Undefined /\ UNCHANGED lock

\* Mistake: the mutex is never given back (the branch for Emscripten).
UnlockNothing(w) == UNCHANGED <<lock, proc>>

Thread__Mutex_unlock(w) ==
  IF mutex = "made"
  THEN holder' = NoOne /\ UNCHANGED <<mutex, proc>>
  ELSE Undefined /\ UNCHANGED lock

Thread__Mutex_destroy ==
  IF mutex = "made" /\ holder = NoOne
  THEN mutex' = "destroyed" /\ UNCHANGED <<holder, proc>>
  ELSE Undefined /\ UNCHANGED lock

-----------------------------------------------------------------------------
(* Thread.c: threads *)

\* The condition of the loops over threads[].
More == i < len /\ i < MAX_THREADS

\* pthread_create may fail, and leaves the entry as it was, which is uninitialised.
Thread__create(fails) ==
  thread' = IF fails THEN thread ELSE [thread EXCEPT ![i] = "running"]

\* One round of the loop: wait for a thread that was created.  An entry that was
\* never written, or joined before, has no behaviour.
Thread__join ==
  /\ main = "join" /\ More
  /\ IF thread[i] \in {"running", "ended"}
     THEN /\ thread[i] = "ended"
          /\ thread' = [thread EXCEPT ![i] = "joined"]
          /\ i' = i + 1
          /\ UNCHANGED proc
     ELSE Undefined /\ UNCHANGED <<thread, i>>
  /\ UNCHANGED <<len, main>>

\* Mistake: the last thread is not waited for.
JoinedButOne ==
  /\ main = "join" /\ ~(i + 1 < len /\ i < MAX_THREADS)
  /\ MainTo("clean")
  /\ UNCHANGED <<len, i, thread, proc>>

Joined ==
  /\ main = "join" /\ ~More
  /\ MainTo("clean")
  /\ UNCHANGED <<len, i, thread, proc>>

-----------------------------------------------------------------------------
(* main of the test *)

\* It gives up when it takes the answer to say that there is no mutex.
MakeMutex(fails) ==
  /\ main = "mutex"
  /\ mutex' = IF fails THEN "none" ELSE "made"
  /\ IF Thread__Mutex_create(fails) = TrueMeansMade
     THEN MainTo("create") /\ UNCHANGED proc
     ELSE proc' = "returned" /\ UNCHANGED main
  /\ UNCHANGED <<len, i, thread, holder>>

\* Mistake: nobody looks whether the thread was created.
CreateUnchecked(fails) ==
  /\ main = "create" /\ More
  /\ Thread__create(fails)
  /\ i' = i + 1
  /\ UNCHANGED <<len, main, lock, proc>>

\* A thread that could not be created is an assertion.
CreateOne(fails) ==
  /\ main = "create" /\ More
  /\ Thread__create(fails)
  /\ IF fails /\ DEBUG_SLOW
     THEN proc' = "aborted" /\ UNCHANGED i
     ELSE i' = i + 1 /\ UNCHANGED proc
  /\ UNCHANGED <<len, main, lock>>

CreatedAll ==
  /\ main = "create" /\ ~More
  /\ MainTo("join") /\ i' = 0
  /\ UNCHANGED <<len, thread, lock, proc>>

\* The application is done with the mutex.  Thread__destroy (Thread.c:94-104) has
\* nothing to do on Linux.
Clean ==
  /\ main = "clean"
  /\ Thread__Mutex_destroy
  /\ MainTo("done")
  /\ UNCHANGED <<len, i, thread>>

\* Returning from main ends every thread.
Return ==
  /\ main = "done"
  /\ proc' = "returned"
  /\ UNCHANGED <<pool, lock>>

Main ==
  /\ proc = "running"
  /\ \/ \E fails \in BOOLEAN : MakeMutex(fails) \/ CreateOne(fails)
     \/ CreatedAll
     \/ (Thread__join \/ Joined) /\ UNCHANGED lock
     \/ Clean \/ Return
  /\ UNCHANGED <<arena, worker>>

-----------------------------------------------------------------------------
(* A worker *)

Does(w, this, next) ==
  /\ thread[w] = "running" /\ step[w] = this
  /\ step' = [step EXCEPT ![w] = next]

Acquire(w) ==
  /\ Len(got[w]) < NumItems
  /\ Does(w, "lock", "check")
  /\ Thread__Mutex_lock(w)
  /\ UNCHANGED <<pool, arena, result, sum, got>>

\* Arena__push, one access to the arena's fields after the other.
PushChecks(w) ==
  /\ Does(w, "check", "take")
  /\ IF pos + 1 <= end \/ ~DEBUG_SLOW THEN UNCHANGED proc ELSE proc' = "aborted"
  /\ UNCHANGED <<pool, lock, arena, result, sum, got>>

PushTakes(w) ==
  /\ Does(w, "take", "load")
  /\ result' = [result EXCEPT ![w] = pos]
  /\ UNCHANGED <<pool, lock, arena, sum, got, proc>>

PushLoads(w) ==
  /\ Does(w, "load", "store")
  /\ sum' = [sum EXCEPT ![w] = pos + 1]
  /\ UNCHANGED <<pool, lock, arena, result, got, proc>>

PushStores(w) ==
  /\ Does(w, "store", "unlock")
  /\ pos' = sum[w]
  /\ got' = [got EXCEPT ![w] = Append(@, result[w])]
  /\ UNCHANGED <<pool, lock, end, result, sum, proc>>

Release(w) ==
  /\ Does(w, "unlock", "lock")
  /\ Thread__Mutex_unlock(w)
  /\ UNCHANGED <<pool, arena, result, sum, got>>

\* All items are done: the function returns.
Ends(w) ==
  /\ thread[w] = "running" /\ step[w] = "lock" /\ Len(got[w]) = NumItems
  /\ thread' = [thread EXCEPT ![w] = "ended"]
  /\ UNCHANGED <<len, i, main, lock, arena, worker, proc>>

Worker(w) ==
  /\ proc = "running"
  /\ \/ Acquire(w) \/ PushChecks(w) \/ PushTakes(w) \/ PushLoads(w)
     \/ PushStores(w) \/ Release(w) \/ Ends(w)

Next == Main \/ \E w \in Slots : Worker(w)

\* The scheduler runs every thread that can run.  Nothing is assumed about who gets
\* the mutex.
Fairness == WF_vars(Main) /\ \A w \in Slots : WF_vars(Worker(w))

Spec == Init /\ [][Next]_vars /\ Fairness

-----------------------------------------------------------------------------
(* Properties *)

Asked == {w \in Slots : w < len}

\* No two items, of one worker or of two, were given the same place in the arena: under
\* the mutex, Arena__push's check, read and write of pos are one step (Thread.c:35-54).
BlocksDisjoint ==
  \A v, w \in Slots : \A a \in DOMAIN got[v], b \in DOMAIN got[w] :
    <<v, a>> # <<w, b>> => got[v][a] # got[w][b]

\* Once main is past Thread__join, every worker that was asked for has done all its items
\* and no thread runs any more: main may destroy what they share (Thread.c:81-91).
JoinedMeansDone ==
  main \in {"clean", "done"} =>
    \A w \in Slots : IF w \in Asked THEN thread[w] = "joined" /\ Len(got[w]) = NumItems
                                   ELSE thread[w] = "none"

\* No thread is joined that was not created, and no mutex is used that was not made, is
\* destroyed, or is destroyed while it is held (Thread.c:23-91).
NeverUndefined == proc # "undefined"

\* main always comes to an end: no worker waits for ever, and no join does.
MainEnds == <>(proc # "running")
================================================================================
