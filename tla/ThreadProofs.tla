------------------------------- MODULE ThreadProofs -------------------------------
(***************************************************************************)
(* Proofs about Thread, for any number of workers, of items, and any       *)
(* lengths of the array and the arena.                                     *)
(***************************************************************************)
EXTENDS Thread, SequenceTheorems, TLAPS

\* The build and the reading of Thread__Mutex_create's answer that work.
AsTested == DEBUG_SLOW = TRUE /\ TrueMeansMade = FALSE

\* Who is past the lock holds it; one that is not running does not.
LockHeld == \A w \in Slots : /\ step[w] # "lock" <=> holder = w
                             /\ step[w] # "lock" => thread[w] = "running"

\* What was given lies below pos; the holder's own copies of pos are not stale.
BelowPos == \A w \in Slots : /\ \A a \in 1 .. Len(got[w]) : got[w][a] < pos
                             /\ step[w] \in {"load", "store"} => result[w] = pos
                             /\ step[w] = "store" => sum[w] = pos + 1

Apart == \A v, w \in Slots : \A a \in 1 .. Len(got[v]), b \in 1 .. Len(got[w]) :
           <<v, a>> # <<w, b>> => got[v][a] # got[w][b]

\* Which threads there are while main is where it is.
Present ==
  /\ main = "mutex"  => i = 0 /\ \A w \in Slots : thread[w] = "none"
  /\ main = "create" => /\ i <= len
                        /\ \A w \in Slots : IF w < i THEN thread[w] \in {"running", "ended"}
                                                     ELSE thread[w] = "none"
  /\ main = "join"   => /\ i <= len
                        /\ \A w \in Slots : IF w >= len THEN thread[w] = "none"
                                            ELSE IF w < i THEN thread[w] = "joined"
                                            ELSE thread[w] \in {"running", "ended"}
  /\ main \in {"clean", "done"} =>
       \A w \in Slots : IF w < len THEN thread[w] = "joined" ELSE thread[w] = "none"

\* A worker is past the lock for an item it has to do, and ends when there is none.
Finished ==
  \A w \in Slots :
    /\ step[w] \in {"check", "take", "load", "store"} => Len(got[w]) < NumItems
    /\ thread[w] \in {"ended", "joined"} => Len(got[w]) = NumItems

PoolInv ==
  /\ TypeOK /\ LockHeld /\ BelowPos /\ Apart /\ Present /\ Finished
  /\ main \in {"create", "join", "clean"} => mutex = "made"
  /\ NeverUndefined

LEMMA SlotsAreNat == Slots \subseteq Nat /\ NoOne \notin Slots
                     /\ \A w \in Slots : w < MAX_THREADS
BY LoopAssumption DEF Slots, NoOne

LEMMA InvImplies == PoolInv => TypeOK /\ BlocksDisjoint /\ JoinedMeansDone /\ NeverUndefined
<1> SUFFICES ASSUME PoolInv PROVE BlocksDisjoint /\ JoinedMeansDone
  BY DEF PoolInv
<1>1. \A w \in Slots : DOMAIN got[w] = 1 .. Len(got[w])
  BY DEF PoolInv, TypeOK
<1>2. BlocksDisjoint
  BY <1>1 DEF PoolInv, Apart, BlocksDisjoint
<1>3. JoinedMeansDone
  BY DEF PoolInv, Present, Finished, JoinedMeansDone, Asked
<1> QED
  BY <1>2, <1>3

LEMMA PoolInit == Init => PoolInv
<1> SUFFICES ASSUME Init PROVE PoolInv
  OBVIOUS
<1>1. TypeOK
  <2>1. <<>> \in Seq(Nat) /\ Len(<<>>) = 0
    OBVIOUS
  <2> QED
    BY <2>1, LoopAssumption, WorkAssumption DEF Init, TypeOK
<1>2. \A w \in Slots : Len(got[w]) = 0
  BY DEF Init
<1> QED
  BY <1>1, <1>2, SlotsAreNat
  DEF Init, PoolInv, LockHeld, BelowPos, Apart, Present, Finished, NeverUndefined

-----------------------------------------------------------------------------
(* The steps of main *)

LEMMA MainSafe == ASSUME AsTested, PoolInv, Main PROVE PoolInv'
<1> USE SlotsAreNat
<1>0. TypeOK /\ UNCHANGED <<arena, worker>> /\ proc = "running"
  BY DEF PoolInv, Main
<1>1. /\ UNCHANGED <<step, result, sum, pos, end, got>>
  BY <1>0 DEF arena, worker
<1>k. BelowPos' /\ Apart'
  <2>1. BelowPos /\ Apart
    BY DEF PoolInv
  <2>2. BelowPos'
    BY <1>1, <2>1 DEF BelowPos
  <2>3. Apart'
    BY <1>1, <2>1 DEF Apart
  <2> QED
    BY <2>2, <2>3
<1>2. ASSUME NEW fails \in BOOLEAN, MakeMutex(fails) PROVE PoolInv'
  <2>1. /\ main = "mutex" /\ UNCHANGED <<len, i, thread, holder>>
        /\ mutex' \in {"none", "made"} /\ proc' \in {"running", "returned"}
        /\ \/ main' = "create" /\ mutex' = "made"
           \/ main' = "mutex"
    BY <1>0, <1>2 DEF MakeMutex, Thread__Mutex_create, MainTo, AsTested
  <2>2. \A w \in Slots : thread[w] = "none"
    BY <2>1 DEF PoolInv, Present
  <2>3. i \in Nat /\ len \in Nat /\ i = 0
    BY <1>0, <2>1, LoopAssumption DEF TypeOK, PoolInv, Present
  <2>4. Present'
    BY <2>1, <2>2, <2>3 DEF Present
  <2>5. TypeOK'
    BY <1>0, <1>1, <2>1 DEF TypeOK
  <2> QED
    BY <1>1, <1>k, <2>1, <2>4, <2>5 DEF PoolInv, LockHeld, Finished, NeverUndefined
<1>3. ASSUME NEW fails \in BOOLEAN, CreateOne(fails) PROVE PoolInv'
  <2>1. i \in Slots /\ i < len /\ i \in Nat /\ len \in Nat /\ main = "create"
    BY <1>0, <1>3, LoopAssumption DEF CreateOne, More, TypeOK, Slots
  <2>2. CASE fails
    BY <1>0, <1>1, <1>3, <1>k, <2>1, <2>2
    DEF CreateOne, Thread__create, AsTested, lock, PoolInv, TypeOK, LockHeld, Present,
        Finished, NeverUndefined
  <2>3. CASE ~fails
    <3>1. /\ thread' = [thread EXCEPT ![i] = "running"] /\ i' = i + 1
          /\ UNCHANGED <<len, main, mutex, holder, proc>>
      BY <1>3, <2>3 DEF CreateOne, Thread__create, lock
    <3>2. thread[i] = "none"
      BY <2>1 DEF PoolInv, Present
    <3>3. TypeOK'
      BY <1>0, <1>1, <2>1, <3>1, LoopAssumption DEF TypeOK, Slots
    <3>4. LockHeld' /\ Finished'
      BY <1>0, <1>1, <2>1, <3>1, <3>2 DEF PoolInv, TypeOK, LockHeld, Finished
    <3>5. Present'
      BY <1>0, <2>1, <3>1 DEF PoolInv, TypeOK, Present
    <3> QED
      BY <1>k, <3>1, <3>3, <3>4, <3>5 DEF PoolInv, NeverUndefined
  <2> QED
    BY <2>2, <2>3
<1>4. CASE CreatedAll
  <2>1. i \in Nat /\ len \in Nat /\ i <= len /\ (i >= len \/ i >= MAX_THREADS)
    BY <1>0, <1>4, LoopAssumption DEF CreatedAll, More, TypeOK, PoolInv, Present
  <2>0. /\ main = "create" /\ main' = "join" /\ i' = 0 /\ UNCHANGED <<len, thread>>
    BY <1>4 DEF CreatedAll, MainTo
  <2>a. \A w \in Slots : w \in Nat /\ (w < i <=> w < len)
    BY <2>1, LoopAssumption DEF Slots
  <2>b. \A w \in Slots : IF w < len THEN thread[w] \in {"running", "ended"}
                                    ELSE thread[w] = "none"
    BY <2>0, <2>a DEF PoolInv, Present
  <2>2. Present'
    BY <2>0, <2>1, <2>a, <2>b DEF Present
  <2> QED
    BY <1>0, <1>1, <1>4, <1>k, <2>2, LoopAssumption
    DEF CreatedAll, MainTo, lock, PoolInv, TypeOK, LockHeld, Finished, NeverUndefined
<1>5. CASE Thread__join /\ UNCHANGED lock
  <2>1. i \in Slots /\ i < len /\ i \in Nat /\ len \in Nat /\ main = "join"
    BY <1>0, <1>5, LoopAssumption DEF Thread__join, More, TypeOK, Slots
  <2>2. thread[i] \in {"running", "ended"}
    BY <2>1 DEF PoolInv, Present
  <2>3. /\ thread[i] = "ended" /\ thread' = [thread EXCEPT ![i] = "joined"] /\ i' = i + 1
        /\ UNCHANGED <<len, main, mutex, holder, proc>>
    BY <1>5, <2>2 DEF Thread__join, lock
  <2>4. TypeOK'
    BY <1>0, <1>1, <2>1, <2>3, LoopAssumption DEF TypeOK, Slots
  <2>5. LockHeld' /\ Finished'
    BY <1>0, <1>1, <2>1, <2>3 DEF PoolInv, TypeOK, LockHeld, Finished
  <2>6. Present'
    BY <1>0, <2>1, <2>3 DEF PoolInv, TypeOK, Present
  <2> QED
    BY <1>k, <2>3, <2>4, <2>5, <2>6 DEF PoolInv, NeverUndefined
<1>6. CASE Joined /\ UNCHANGED lock
  <2>1. i \in Nat /\ len \in Nat /\ i <= len /\ (i >= len \/ i >= MAX_THREADS)
    BY <1>0, <1>6, LoopAssumption DEF Joined, More, TypeOK, PoolInv, Present
  <2>0. /\ main = "join" /\ main' = "clean" /\ UNCHANGED <<i, len, thread>>
    BY <1>6 DEF Joined, MainTo
  <2>a. \A w \in Slots : w \in Nat /\ (w < i <=> w < len)
    BY <2>1, LoopAssumption DEF Slots
  <2>b. \A w \in Slots : IF w < len THEN thread[w] = "joined" ELSE thread[w] = "none"
    BY <2>0, <2>1, <2>a DEF PoolInv, Present
  <2>2. Present'
    BY <2>0, <2>b DEF Present
  <2> QED
    BY <1>0, <1>1, <1>6, <1>k, <2>2
    DEF Joined, MainTo, lock, PoolInv, TypeOK, LockHeld, Finished, NeverUndefined
<1>7. CASE Clean
  <2>1. \A w \in Slots : thread[w] # "running"
    BY <1>7 DEF Clean, PoolInv, Present
  <2>2. mutex = "made" /\ holder = NoOne
    BY <1>0, <1>7, <2>1 DEF Clean, PoolInv, TypeOK, LockHeld
  <2> QED
    BY <1>0, <1>1, <1>7, <1>k, <2>2
    DEF Clean, Thread__Mutex_destroy, MainTo, PoolInv, TypeOK, LockHeld, Present, Finished,
        NeverUndefined
<1>8. CASE Return
  BY <1>0, <1>1, <1>8, <1>k
  DEF Return, pool, lock, PoolInv, TypeOK, LockHeld, Present, Finished, NeverUndefined
<1> QED
  BY <1>2, <1>3, <1>4, <1>5, <1>6, <1>7, <1>8 DEF Main

-----------------------------------------------------------------------------
(* The steps of a worker *)

\* Nothing that main looks at is changed by a worker that does not end.
LEMMA SamePlace ==
  ASSUME PoolInv, UNCHANGED pool
  PROVE  Present'
BY DEF PoolInv, Present, pool

\* A step of the one that holds the lock: no other one is past the lock.
LEMMA Alone ==
  ASSUME PoolInv, NEW w \in Slots, step[w] # "lock"
  PROVE  holder = w /\ \A v \in Slots : v # w => step[v] = "lock"
BY DEF PoolInv, LockHeld

LEMMA AcquireSafe ==
  ASSUME PoolInv, NEW w \in Slots, Acquire(w), proc = "running"
  PROVE  PoolInv'
<1>0. TypeOK
  BY DEF PoolInv
<1>1. thread[w] = "running" /\ step[w] = "lock" /\ step' = [step EXCEPT ![w] = "check"]
      /\ Len(got[w]) < NumItems
      /\ UNCHANGED <<pool, pos, end, result, sum, got>>
  BY DEF Acquire, Does, arena
<1>2. mutex = "made"
  <2>1. main \in {"create", "join"}
    BY <1>0, <1>1, SlotsAreNat DEF PoolInv, TypeOK, Present
  <2> QED
    BY <2>1 DEF PoolInv
<1>3. holder = NoOne /\ holder' = w /\ UNCHANGED <<mutex, proc>>
  BY <1>2 DEF Acquire, Thread__Mutex_lock
<1>4. TypeOK'
  BY <1>0, <1>1, <1>3 DEF TypeOK, pool
<1>5. LockHeld'
  BY <1>0, <1>1, <1>3, SlotsAreNat DEF PoolInv, TypeOK, LockHeld, pool
<1>6. /\ step'[w] = "check"
      /\ \A v \in Slots : v # w => step'[v] = step[v]
  BY <1>0, <1>1 DEF TypeOK
<1>7. BelowPos' /\ Apart'
  BY <1>1, <1>6 DEF PoolInv, BelowPos, Apart
<1>8. Finished'
  BY <1>1, <1>6 DEF PoolInv, Finished, pool
<1> QED
  BY <1>1, <1>3, <1>4, <1>5, <1>7, <1>8, SamePlace DEF PoolInv, NeverUndefined, pool

\* The steps of Arena__push that give nothing out yet.
LEMMA PushSafe ==
  ASSUME PoolInv, NEW w \in Slots, proc = "running",
         PushChecks(w) \/ PushTakes(w) \/ PushLoads(w)
  PROVE  PoolInv'
<1>0. TypeOK
  BY DEF PoolInv
<1>1. /\ thread[w] = "running" /\ step[w] \in {"check", "take", "load"}
      /\ step' = [step EXCEPT ![w] = CASE step[w] = "check" -> "take"
                                       [] step[w] = "take"  -> "load"
                                       [] OTHER -> "store"]
      /\ UNCHANGED <<pool, lock, pos, end, got>>
      /\ proc' \in {"running", "aborted"}
  BY DEF PushChecks, PushTakes, PushLoads, Does, arena
<1>2. /\ result' = IF step[w] = "take" THEN [result EXCEPT ![w] = pos] ELSE result
      /\ sum' = IF step[w] = "load" THEN [sum EXCEPT ![w] = pos + 1] ELSE sum
  BY DEF PushChecks, PushTakes, PushLoads, Does
<1>3. step'[w] # "lock" /\ \A v \in Slots : v # w => step'[v] = step[v]
  BY <1>0, <1>1 DEF TypeOK
<1>4. TypeOK'
  BY <1>0, <1>1, <1>2 DEF TypeOK, pool, lock
<1>5. LockHeld'
  BY <1>1, <1>3 DEF PoolInv, LockHeld, pool, lock
<1>6. BelowPos'
  <2> SUFFICES ASSUME NEW v \in Slots
               PROVE  /\ \A a \in 1 .. Len(got'[v]) : got'[v][a] < pos'
                      /\ step'[v] \in {"load", "store"} => result'[v] = pos'
                      /\ step'[v] = "store" => sum'[v] = pos' + 1
    BY DEF BelowPos
  <2>1. CASE v # w
    BY <1>0, <1>1, <1>2, <1>3, <2>1 DEF PoolInv, BelowPos, TypeOK
  <2>2. CASE v = w
    BY <1>0, <1>1, <1>2, <2>2 DEF PoolInv, BelowPos, TypeOK
  <2> QED
    BY <2>1, <2>2
<1>7. Apart' /\ Finished'
  BY <1>1 DEF PoolInv, Apart, Finished, pool
<1> QED
  BY <1>1, <1>4, <1>5, <1>6, <1>7, SamePlace DEF PoolInv, NeverUndefined, pool, lock

LEMMA StoreSafe ==
  ASSUME PoolInv, NEW w \in Slots, PushStores(w), proc = "running"
  PROVE  PoolInv'
<1>0. TypeOK
  BY DEF PoolInv
<1>1. /\ thread[w] = "running" /\ step[w] = "store"
      /\ step' = [step EXCEPT ![w] = "unlock"]
      /\ UNCHANGED <<pool, lock, end, result, sum, proc>>
      /\ pos' = sum[w] /\ got' = [got EXCEPT ![w] = Append(got[w], result[w])]
  BY DEF PushStores, Does
<1>2. result[w] = pos /\ sum[w] = pos + 1 /\ pos \in Nat
  BY <1>0, <1>1 DEF PoolInv, BelowPos, TypeOK
<1>3. /\ got[w] \in Seq(Nat) /\ got'[w] = Append(got[w], pos)
      /\ Len(got[w]) \in Nat /\ Len(got[w]) < NumItems
      /\ \A v \in Slots : v # w => got'[v] = got[v]
  <2>1. got \in [Slots -> Seq(Nat)]
    BY <1>0 DEF TypeOK
  <2>2. /\ got[w] \in Seq(Nat) /\ got'[w] = Append(got[w], result[w])
        /\ \A v \in Slots : v # w => got'[v] = got[v]
    BY <1>1, <2>1
  <2> QED
    BY <1>1, <1>2, <2>2, WorkAssumption DEF PoolInv, Finished
<1>4. /\ Append(got[w], pos) \in Seq(Nat) /\ Len(Append(got[w], pos)) = Len(got[w]) + 1
      /\ \A a \in 1 .. Len(got[w]) : Append(got[w], pos)[a] = got[w][a]
      /\ Append(got[w], pos)[Len(got[w]) + 1] = pos
  BY <1>2, <1>3, AppendProperties
<1>a. /\ Len(got'[w]) = Len(got[w]) + 1 /\ got'[w][Len(got[w]) + 1] = pos
      /\ \A a \in 1 .. Len(got[w]) : got'[w][a] = got[w][a]
      /\ \A a \in 1 .. Len(got'[w]) : a \in 1 .. Len(got[w]) \/ a = Len(got[w]) + 1
  <2>1. /\ Len(got'[w]) = Len(got[w]) + 1 /\ got'[w][Len(got[w]) + 1] = pos
        /\ \A a \in 1 .. Len(got[w]) : got'[w][a] = got[w][a]
    BY <1>3, <1>4, Zenon
  <2>2. Len(got[w]) \in Nat
    BY <1>3
  <2> DEFINE n == Len(got[w])
             m == Len(got'[w])
  <2>3. m = n + 1 /\ n \in Nat
    BY <2>1, <2>2
  <2> HIDE DEF n, m
  <2>4. \A a \in 1 .. m : a \in 1 .. n \/ a = n + 1
    BY <2>3
  <2> QED
    BY <2>1, <2>4 DEF n, m
<1>5. \A v \in Slots : v # w => step[v] = "lock" /\ step'[v] = "lock"
  <2>1. step \in [Slots -> {"lock", "check", "take", "load", "store", "unlock"}]
    BY <1>0 DEF TypeOK
  <2> QED
    BY <1>1, <2>1, Alone
<1>6. step'[w] = "unlock"
  BY <1>0, <1>1 DEF TypeOK
<1>7. TypeOK'
  <2>1. got' \in [Slots -> Seq(Nat)]
    BY <1>0, <1>1, <1>2, <1>3, <1>4 DEF TypeOK
  <2>2. \A v \in Slots : Len(got'[v]) <= NumItems
    <3>1. Len(got[w]) + 1 <= NumItems
      BY <1>3, WorkAssumption
    <3> QED
      BY <1>0, <1>3, <1>a, <3>1 DEF TypeOK
  <2>3. pos' \in Nat
    BY <1>1, <1>2
  <2> QED
    BY <1>0, <1>1, <2>1, <2>2, <2>3 DEF TypeOK, pool, lock
<1>8. LockHeld'
  BY <1>1, <1>5, <1>6 DEF PoolInv, LockHeld, pool, lock
<1>9. BelowPos'
  <2> SUFFICES ASSUME NEW v \in Slots
               PROVE  /\ \A a \in 1 .. Len(got'[v]) : got'[v][a] < pos'
                      /\ step'[v] \notin {"load", "store"}
    BY DEF BelowPos
  <2>1. \A a \in 1 .. Len(got[v]) : got[v][a] < pos /\ got[v][a] \in Nat
    BY <1>0 DEF PoolInv, BelowPos, TypeOK
  <2>2. pos' = pos + 1
    BY <1>1, <1>2
  <2>3. CASE v # w
    BY <1>2, <1>3, <1>5, <2>1, <2>2, <2>3
  <2>4. CASE v = w
    <3>1. \A a \in 1 .. Len(got'[w]) : got'[w][a] < pos'
      BY <1>2, <1>a, <2>1, <2>2, <2>4
    <3> QED
      BY <1>6, <2>4, <3>1
  <2> QED
    BY <2>3, <2>4
<1>10. Apart'
  <2>1. ASSUME NEW v \in Slots, NEW a \in 1 .. Len(got'[v])
        PROVE  \/ v = w /\ a = Len(got[w]) + 1 /\ got'[v][a] = pos
               \/ a \in 1 .. Len(got[v]) /\ got'[v][a] = got[v][a] /\ got[v][a] < pos
    <3>1. \A u \in Slots : \A b \in 1 .. Len(got[u]) : got[u][b] < pos
      BY DEF PoolInv, BelowPos
    <3>2. CASE v = w
      BY <1>a, <3>1, <3>2
    <3>3. CASE v # w
      BY <1>3, <3>1, <3>3
    <3> QED
      BY <3>2, <3>3
  <2>2. ASSUME NEW v \in Slots, NEW u \in Slots, NEW a \in 1 .. Len(got'[v]),
               NEW b \in 1 .. Len(got'[u]), <<v, a>> # <<u, b>>
        PROVE  got'[v][a] # got'[u][b]
    <3>1. CASE v = w /\ a = Len(got[w]) + 1 /\ got'[v][a] = pos
      BY <1>2, <2>1, <2>2, <3>1
    <3>2. CASE a \in 1 .. Len(got[v]) /\ got'[v][a] = got[v][a] /\ got[v][a] < pos
      BY <1>2, <2>1, <2>2, <3>2 DEF PoolInv, Apart
    <3> QED
      BY <2>1, <3>1, <3>2
  <2> QED
    BY <2>2 DEF Apart
<1>11. Finished'
  BY <1>1, <1>3, <1>5, <1>6 DEF PoolInv, Finished, pool
<1> QED
  BY <1>1, <1>7, <1>8, <1>9, <1>10, <1>11, SamePlace DEF PoolInv, NeverUndefined, pool, lock

LEMMA ReleaseSafe ==
  ASSUME PoolInv, NEW w \in Slots, Release(w), proc = "running"
  PROVE  PoolInv'
<1>0. TypeOK
  BY DEF PoolInv
<1>1. thread[w] = "running" /\ step[w] = "unlock" /\ step' = [step EXCEPT ![w] = "lock"]
      /\ UNCHANGED <<pool, pos, end, result, sum, got>>
  BY DEF Release, Does, arena
<1>2. mutex = "made"
  <2>1. main \in {"create", "join"}
    BY <1>0, <1>1, SlotsAreNat DEF PoolInv, TypeOK, Present
  <2> QED
    BY <2>1 DEF PoolInv
<1>3. holder' = NoOne /\ UNCHANGED <<mutex, proc>>
  BY <1>2 DEF Release, Thread__Mutex_unlock
<1>4. TypeOK'
  BY <1>0, <1>1, <1>3 DEF TypeOK, pool
<1>5. \A v \in Slots : step'[v] = "lock"
  <2>1. step \in [Slots -> {"lock", "check", "take", "load", "store", "unlock"}]
    BY <1>0 DEF TypeOK
  <2> QED
    BY <1>1, <2>1, Alone
<1>6. LockHeld' /\ BelowPos' /\ Finished'
  BY <1>1, <1>3, <1>5, SlotsAreNat DEF PoolInv, LockHeld, BelowPos, Finished, pool
<1>7. Apart'
  BY <1>1 DEF PoolInv, Apart
<1> QED
  BY <1>1, <1>3, <1>4, <1>6, <1>7, SamePlace DEF PoolInv, NeverUndefined, pool

LEMMA EndsSafe ==
  ASSUME PoolInv, NEW w \in Slots, Ends(w), proc = "running"
  PROVE  PoolInv'
<1>0. TypeOK
  BY DEF PoolInv
<1>1. /\ thread[w] = "running" /\ step[w] = "lock" /\ Len(got[w]) = NumItems
      /\ thread' = [thread EXCEPT ![w] = "ended"]
      /\ UNCHANGED <<len, i, main, mutex, holder, pos, end, step, result, sum, got, proc>>
  BY DEF Ends, lock, arena, worker
<1>2. thread'[w] = "ended" /\ \A v \in Slots : v # w => thread'[v] = thread[v]
  BY <1>0, <1>1 DEF TypeOK
<1>3. TypeOK'
  BY <1>0, <1>1 DEF TypeOK
<1>4. LockHeld' /\ Finished'
  BY <1>1, <1>2 DEF PoolInv, LockHeld, Finished
<1>5. BelowPos' /\ Apart'
  BY <1>1 DEF PoolInv, BelowPos, Apart
<1>6. Present'
  BY <1>1, <1>2 DEF PoolInv, Present
<1> QED
  BY <1>1, <1>3, <1>4, <1>5, <1>6 DEF PoolInv, NeverUndefined

LEMMA PoolStep == ASSUME AsTested, PoolInv, [Next]_vars PROVE PoolInv'
<1>1. CASE Main
  BY <1>1, MainSafe
<1>2. ASSUME NEW w \in Slots, Worker(w) PROVE PoolInv'
  BY <1>2, AcquireSafe, PushSafe, StoreSafe, ReleaseSafe, EndsSafe DEF Worker
<1>3. CASE UNCHANGED vars
  <2>1. /\ UNCHANGED <<len, i, main, thread, mutex, holder>>
        /\ UNCHANGED <<pos, end, step, result, sum, got, proc>>
    BY <1>3 DEF vars, pool, lock, arena, worker
  <2>2. TypeOK' /\ LockHeld' /\ Present' /\ Finished'
    BY <2>1 DEF PoolInv, TypeOK, LockHeld, Present, Finished
  <2>3. BelowPos' /\ Apart'
    BY <2>1 DEF PoolInv, BelowPos, Apart
  <2> QED
    BY <2>1, <2>2, <2>3 DEF PoolInv, NeverUndefined
<1> QED
  BY <1>1, <1>2, <1>3 DEF Next

\* Under the mutex of Thread.c no two items get the same place, joined means done, and
\* nothing undefined happens: for any number of workers and items.
THEOREM PoolSafety ==
  ASSUME AsTested
  PROVE  Spec => [](TypeOK /\ BlocksDisjoint /\ JoinedMeansDone /\ NeverUndefined)
<1>1. PoolInv /\ [Next]_vars => PoolInv'
  BY PoolStep
<1> QED
  BY <1>1, PoolInit, InvImplies, PTL DEF Spec
===================================================================================
