------------------------------- MODULE ArenaProofs -------------------------------
(***************************************************************************)
(* Proofs about Arena, for any number of arenas of any size, in both       *)
(* builds.                                                                 *)
(***************************************************************************)
EXTENDS Arena, TLAPS

\* The inductive invariant, for one arena: blocks end at or below the position, so
\* what is pushed next lies above them all; then the two properties.
BlocksBelow(a) == \A b \in blocks[a] : b.lo <= b.hi /\ b.hi <= pos[a]
Apart(a) ==
  \A b, c \in blocks[a] : b # c => \A i \in b.lo .. b.hi - 1 : i \notin c.lo .. c.hi - 1
Unused(a) == a \in fresh => \A i \in pos[a] .. end[a] - 1 : i \in zero[a]

Good(a)  == BlocksBelow(a) /\ Apart(a) /\ Unused(a)
ArenaInv == TypeOK /\ \A a \in Arenas : Good(a)

LEMMA InvImplies == ArenaInv => BlocksDisjoint /\ UnusedIsZero
<1> SUFFICES ASSUME ArenaInv PROVE BlocksDisjoint /\ UnusedIsZero
  OBVIOUS
<1>1. \A a \in Arenas : Apart(a) /\ Unused(a)
  BY DEF ArenaInv, Good
<1>2. BlocksDisjoint
  BY <1>1 DEF Apart, BlocksDisjoint
<1>3. \A a \in fresh : a \in Arenas
  BY DEF ArenaInv, TypeOK
<1>4. UnusedIsZero
  BY <1>1, <1>3 DEF Unused, UnusedIsZero
<1> QED
  BY <1>2, <1>4

LEMMA ArenaInit == Init => ArenaInv
<1> SUFFICES ASSUME Init PROVE ArenaInv
  OBVIOUS
<1>1. TypeOK
  <2>1. 0 \in Offsets /\ 0 \in 0 .. MaxSize
    BY ArenaBounds DEF Offsets
  <2>2. pos \in [Arenas -> Offsets] /\ end \in [Arenas -> 0 .. MaxSize]
    BY <2>1 DEF Init
  <2>3. blocks \in [Arenas -> SUBSET Block] /\ zero \in [Arenas -> SUBSET Offsets]
    BY DEF Init
  <2> QED
    BY <2>2, <2>3 DEF Init, TypeOK
<1>2. ASSUME NEW a \in Arenas PROVE Good(a)
  BY DEF Init, Good, BlocksBelow, Apart, Unused
<1> QED
  BY <1>1, <1>2 DEF ArenaInv

Same(a) == /\ pos'[a] = pos[a] /\ end'[a] = end[a] /\ blocks'[a] = blocks[a]
           /\ zero'[a] = zero[a] /\ (a \in fresh') = (a \in fresh)

LEMMA SameIsGood == ASSUME NEW a \in Arenas, Good(a), Same(a) PROVE Good(a)'
BY DEF Good, BlocksBelow, Apart, Unused, Same

LEMMA StillGood ==
  ASSUME ArenaInv, UNCHANGED arena,
         expect' \in BOOLEAN, asserted' \in BOOLEAN,
         proc' \in {"running", "aborted", "crashed"}
  PROVE  ArenaInv'
BY DEF ArenaInv, TypeOK, Good, BlocksBelow, Apart, Unused, arena

LEMMA NoArenaGood == ASSUME ArenaInv, NEW a \in Arenas, NoArena(a) PROVE ArenaInv'
<1>1. expect' \in BOOLEAN /\ asserted' \in BOOLEAN
  BY DEF NoArena, ASSERT_CONTEXT, Console__abort, trap, ArenaInv, TypeOK
<1>2. proc' \in {"running", "aborted", "crashed"}
  BY DEF NoArena, ASSERT_CONTEXT, Console__abort, trap, ArenaInv, TypeOK
<1> QED
  BY <1>1, <1>2, StillGood DEF NoArena

LEMMA BufferGood ==
  ASSUME ArenaInv, NEW a \in Arenas, NEW sz \in 0 .. MaxSize, NEW z \in BOOLEAN,
         Buffer(a, sz, z), UNCHANGED <<trap, proc>>
  PROVE  ArenaInv'
<1>1. 0 .. sz - 1 \subseteq Offsets /\ 0 \in Offsets
  BY ArenaBounds DEF Offsets
<1>2. TypeOK'
  BY <1>1 DEF Buffer, ArenaInv, TypeOK, trap
<1>3. ASSUME NEW c \in Arenas PROVE Good(c)'
  <2>1. CASE c # a
    BY <2>1, SameIsGood DEF Buffer, Same, ArenaInv, TypeOK
  <2>2. CASE c = a
    BY <2>2 DEF Buffer, Good, BlocksBelow, Apart, Unused, ArenaInv, TypeOK
  <2> QED
    BY <2>1, <2>2
<1> QED
  BY <1>2, <1>3 DEF ArenaInv

LEMMA PushGood ==
  ASSUME ArenaInv, NEW a \in Arenas, NEW sz \in 0 .. MaxReq, Arena__push(a, sz)
  PROVE  ArenaInv'
<1>1. CASE NoArena(a)
  BY <1>1, NoArenaGood
<1>2. CASE ~NoArena(a)
  <2> DEFINE new == [lo |-> pos[a], hi |-> pos[a] + sz]
  <2>1. /\ pos[a] + sz <= MaxPos /\ ASSERT_CONTEXT(Fits(a, sz))
        /\ UNCHANGED <<exists, end, zero, fresh>>
    BY <1>2 DEF Arena__push
  <2>2. expect' \in BOOLEAN /\ asserted' \in BOOLEAN
        /\ proc' \in {"running", "aborted", "crashed"}
    BY <2>1 DEF ASSERT_CONTEXT, Console__abort, trap, ArenaInv, TypeOK
  <2>3. CASE ~GoesOn(Fits(a, sz))
    <3>1. UNCHANGED arena
      BY <1>2, <2>1, <2>3 DEF Arena__push, arena
    <3> QED
      BY <2>2, <3>1, StillGood
  <2>4. CASE GoesOn(Fits(a, sz))
    <3>1. /\ pos' = [pos EXCEPT ![a] = @ + sz]
          /\ blocks' = [blocks EXCEPT ![a] = @ \cup {new}]
      BY <1>2, <2>4 DEF Arena__push
    <3>2. pos[a] \in Nat /\ sz \in Nat /\ pos[a] + sz \in Offsets /\ new \in Block
      BY <2>1, ArenaBounds DEF ArenaInv, TypeOK, Offsets, Block
    <3>3. TypeOK'
      BY <2>1, <2>2, <3>1, <3>2 DEF ArenaInv, TypeOK
    <3>4. ASSUME NEW c \in Arenas PROVE Good(c)'
      <4>1. CASE c # a
        BY <2>1, <3>1, <4>1, SameIsGood DEF Same, ArenaInv, TypeOK
      <4>2. CASE c = a
        <5>1. /\ pos'[a] = pos[a] + sz /\ end'[a] = end[a] /\ zero'[a] = zero[a]
              /\ blocks'[a] = blocks[a] \cup {new} /\ fresh' = fresh
          BY <2>1, <3>1 DEF ArenaInv, TypeOK
        <5>2. \A b \in blocks[a] : b.lo \in Nat /\ b.hi \in Nat
          BY ArenaBounds DEF ArenaInv, TypeOK, Block, Offsets
        <5>3. Good(a) /\ end[a] \in Nat
          BY ArenaBounds DEF ArenaInv, TypeOK
        <5>4. BlocksBelow(a)'
          BY <3>2, <5>1, <5>2, <5>3 DEF Good, BlocksBelow
        <5>5. Apart(a)'
          BY <3>2, <5>1, <5>2, <5>3 DEF Good, BlocksBelow, Apart
        <5>6. Unused(a)'
          BY <3>2, <5>1, <5>3 DEF Good, Unused
        <5> QED
          BY <4>2, <5>4, <5>5, <5>6 DEF Good
      <4> QED
        BY <4>1, <4>2
    <3> QED
      BY <3>3, <3>4 DEF ArenaInv
  <2> QED
    BY <2>3, <2>4
<1> QED
  BY <1>1, <1>2

\* Steps that leave the positions and the blocks alone and change what is zero.
LEMMA MemoryGood ==
  ASSUME ArenaInv, NEW a \in Arenas, NEW z \in SUBSET Offsets,
         zero' = [zero EXCEPT ![a] = z],
         \A i \in pos[a] .. end[a] - 1 : a \in fresh' => i \in z,
         fresh' \in SUBSET Arenas, \A c \in Arenas : c # a => (c \in fresh' <=> c \in fresh),
         UNCHANGED <<exists, pos, end, blocks, trap, proc>>
  PROVE  ArenaInv'
<1>1. TypeOK'
  BY DEF ArenaInv, TypeOK, trap
<1>2. ASSUME NEW c \in Arenas PROVE Good(c)'
  BY DEF Good, BlocksBelow, Apart, Unused, ArenaInv, TypeOK
<1> QED
  BY <1>1, <1>2 DEF ArenaInv

\* Steps after which nothing of an arena is in use and no byte is known to be zero.
LEMMA EmptyGood ==
  ASSUME ArenaInv, NEW a \in Arenas, TypeOK', blocks'[a] = {}, a \notin fresh',
         \A c \in Arenas : c # a => Same(c)
  PROVE  ArenaInv'
<1>1. ASSUME NEW c \in Arenas PROVE Good(c)'
  BY SameIsGood DEF ArenaInv, Good, BlocksBelow, Apart, Unused
<1> QED
  BY <1>1 DEF ArenaInv

LEMMA FreeGood == ASSUME ArenaInv, NEW a \in Arenas, Arena__free(a) PROVE ArenaInv'
<1>1. 0 \in Offsets /\ 0 \in 0 .. MaxSize
  BY ArenaBounds DEF Offsets
<1>2. TypeOK'
  BY <1>1 DEF Arena__free, ArenaInv, TypeOK, trap
<1> QED
  BY <1>2, EmptyGood DEF Arena__free, ArenaInv, TypeOK, Same

LEMMA ResetGood == ASSUME ArenaInv, NEW a \in Arenas, Arena__reset(a) PROVE ArenaInv'
<1>1. CASE NoArena(a)
  BY <1>1, NoArenaGood
<1>2. CASE ~NoArena(a)
  <2>1. 0 \in Offsets
    BY ArenaBounds DEF Offsets
  <2>2. TypeOK'
    BY <1>2, <2>1 DEF Arena__reset, ArenaInv, TypeOK, trap
  <2> QED
    BY <1>2, <2>2, EmptyGood DEF Arena__reset, ArenaInv, TypeOK, Same
<1> QED
  BY <1>1, <1>2

LEMMA ZeroGood == ASSUME ArenaInv, NEW a \in Arenas, Arena__zero(a) PROVE ArenaInv'
<1>1. CASE NoArena(a)
  BY <1>1, NoArenaGood
<1>2. CASE ~NoArena(a)
  <2> DEFINE z == zero[a] \cup 0 .. end[a] - 1
  <2>1. 0 .. end[a] - 1 \subseteq Offsets
    BY ArenaBounds DEF ArenaInv, TypeOK, Offsets
  <2>2. z \in SUBSET Offsets /\ \A i \in pos[a] .. end[a] - 1 : i \in z
    BY <2>1, ArenaBounds DEF ArenaInv, TypeOK, Offsets
  <2>3. fresh' = fresh \cup {a} /\ fresh' \in SUBSET Arenas /\ zero' = [zero EXCEPT ![a] = z]
        /\ UNCHANGED <<exists, pos, end, blocks, trap, proc>>
    BY <1>2 DEF Arena__zero, ArenaInv, TypeOK
  <2> HIDE DEF z
  <2> QED
    BY <2>2, <2>3, MemoryGood
<1> QED
  BY <1>1, <1>2

LEMMA ZeroRangeGood ==
  ASSUME ArenaInv, NEW a \in Arenas, NEW b \in blocks[a], Arena__zeroRange(a, b)
  PROVE  ArenaInv'
<1> DEFINE z == zero[a] \cup b.lo .. b.hi - 1
<1>1. b.lo .. b.hi - 1 \subseteq Offsets
  BY ArenaBounds DEF ArenaInv, TypeOK, Offsets, Block
<1>2. z \in SUBSET Offsets /\ \A i \in pos[a] .. end[a] - 1 : a \in fresh => i \in z
  BY <1>1 DEF ArenaInv, TypeOK, Good, Unused
<1>3. zero' = [zero EXCEPT ![a] = z] /\ UNCHANGED <<exists, pos, end, blocks, fresh, trap, proc>>
  BY DEF Arena__zeroRange
<1>4. fresh \in SUBSET Arenas
  BY DEF ArenaInv, TypeOK
<1> HIDE DEF z
<1> QED
  BY <1>2, <1>3, <1>4, MemoryGood

\* What is written lies in a block, and so below the position.
LEMMA WriteGood ==
  ASSUME ArenaInv, NEW a \in Arenas, NEW b \in blocks[a], NEW i \in Offsets, Write(a, b, i)
  PROVE  ArenaInv'
<1> DEFINE z == zero[a] \ {i}
<1>1. i < pos[a]
  <2>1. b.hi <= pos[a] /\ b.hi \in Nat /\ b.lo \in Nat /\ pos[a] \in Nat
    BY ArenaBounds DEF ArenaInv, TypeOK, Good, BlocksBelow, Block, Offsets
  <2> QED
    BY <2>1 DEF Write, Offsets
<1>2. z \in SUBSET Offsets
  BY DEF ArenaInv, TypeOK
<1>3. \A j \in pos[a] .. end[a] - 1 : a \in fresh => j \in z
  <2>1. \A j \in pos[a] .. end[a] - 1 : j # i
    BY <1>1, ArenaBounds DEF ArenaInv, TypeOK, Offsets
  <2> QED
    BY <2>1 DEF ArenaInv, Good, Unused
<1>4. zero' = [zero EXCEPT ![a] = z] /\ UNCHANGED <<exists, pos, end, blocks, fresh, trap, proc>>
  BY DEF Write
<1>5. fresh \in SUBSET Arenas
  BY DEF ArenaInv, TypeOK
<1> HIDE DEF z
<1> QED
  BY <1>2, <1>3, <1>4, <1>5, MemoryGood

LEMMA ArenaStep == ArenaInv /\ [Next]_vars => ArenaInv'
<1> SUFFICES ASSUME ArenaInv, [Next]_vars PROVE ArenaInv'
  OBVIOUS
<1>1. CASE UNCHANGED vars
  BY <1>1, StillGood DEF vars, arena, trap, ArenaInv, TypeOK
<1>2. CASE Console__trapAssert \/ Console__resetAssert
  BY <1>2, StillGood DEF Console__trapAssert, Console__resetAssert, ArenaInv, TypeOK
<1>3. ASSUME NEW a \in Arenas, NEW sz \in 0 .. MaxSize,
             Arena__alloc(a, sz) \/ Arena__allocZ(a, sz)
      PROVE  ArenaInv'
  <2>1. CASE UNCHANGED arena
    BY <1>3, <2>1, StillGood DEF Arena__alloc, Arena__allocZ, trap, ArenaInv, TypeOK
  <2>2. CASE ~UNCHANGED arena
    BY <1>3, <2>2, BufferGood DEF Arena__alloc, Arena__allocZ
  <2> QED
    BY <2>1, <2>2
<1>4. ASSUME NEW a \in Arenas, Arena__free(a) \/ Arena__zero(a) \/ Arena__reset(a)
      PROVE  ArenaInv'
  BY <1>4, FreeGood, ZeroGood, ResetGood
<1>5. ASSUME NEW a \in Arenas, NEW sz \in 0 .. MaxReq, Arena__push(a, sz)
      PROVE  ArenaInv'
  BY <1>5, PushGood
<1>6. ASSUME NEW a \in Arenas, NEW b \in blocks[a],
             Arena__zeroRange(a, b) \/ \E i \in Offsets : Write(a, b, i)
      PROVE  ArenaInv'
  BY <1>6, ZeroRangeGood, WriteGood
<1> QED
  BY <1>1, <1>2, <1>3, <1>4, <1>5, <1>6 DEF Next

\* Whatever the program allocates, resets, frees, traps and writes, in both builds,
\* no two blocks it still uses overlap, and what a zeroed arena has not handed out
\* since is zero.
THEOREM ArenaSafety == Spec => [](TypeOK /\ BlocksDisjoint /\ UnusedIsZero)
<1>1. ArenaInv /\ [Next]_vars => ArenaInv'
  BY ArenaStep
<1>2. ArenaInv => TypeOK /\ BlocksDisjoint /\ UnusedIsZero
  BY InvImplies DEF ArenaInv
<1> QED
  BY <1>1, <1>2, ArenaInit, PTL DEF Spec

\* In the DEBUG_SLOW build no block past an arena's end is handed out, unless a
\* trapped assertion has been recorded in that very step.
THEOREM PushChecked == DEBUG_SLOW = TRUE /\ Spec => PushIsChecked
<1> DEFINE Checked == \A a \in Arenas : \A b \in blocks'[a] \ blocks[a] :
                        b.hi <= end[a] \/ asserted'
<1> SUFFICES ASSUME DEBUG_SLOW = TRUE PROVE Spec => PushIsChecked
  OBVIOUS
<1>1. ASSUME ArenaInv, [Next]_vars PROVE [Checked]_vars
  <2> SUFFICES ASSUME NEW a \in Arenas, NEW b \in blocks'[a] \ blocks[a]
               PROVE  b.hi <= end[a] \/ asserted'
    OBVIOUS
  <2>1. \E c \in Arenas, sz \in 0 .. MaxReq : Arena__push(c, sz)
    BY <1>1 DEF Next, vars, arena, Console__trapAssert, Console__resetAssert, Arena__alloc,
                Arena__allocZ, Buffer, Arena__free, Arena__zero, Arena__zeroRange,
                Arena__reset, NoArena, Write, ArenaInv, TypeOK
  <2>2. PICK sz \in 0 .. MaxReq : Arena__push(a, sz) /\ ~NoArena(a)
    BY <1>1, <2>1 DEF Arena__push, NoArena, arena, ArenaInv, TypeOK
  <2>3. b = [lo |-> pos[a], hi |-> pos[a] + sz] /\ GoesOn(Fits(a, sz))
    BY <1>1, <2>2 DEF Arena__push, ArenaInv, TypeOK
  <2>4. ASSERT_CONTEXT(Fits(a, sz))
    BY <2>2 DEF Arena__push
  <2>5. CASE Fits(a, sz)
    BY <2>3, <2>5 DEF Fits
  <2>6. CASE ~Fits(a, sz)
    BY <2>3, <2>4, <2>6 DEF GoesOn, ASSERT_CONTEXT, Console__abort
  <2> QED
    BY <2>5, <2>6
<1>2. ArenaInv /\ [Next]_vars => ArenaInv'
  BY ArenaStep
<1>3. Spec => [][Checked]_vars
  BY <1>1, <1>2, ArenaInit, PTL DEF Spec
<1> QED
  BY <1>3 DEF PushIsChecked
=================================================================================
