---------------------------------- MODULE Arena ----------------------------------
(***************************************************************************)
(* The bump allocator of src/common/Arena.c, with the assertions of        *)
(* unity.h and the trap of src/common/Log.c that lets a unit test run past *)
(* a failed one.                                                           *)
(*                                                                         *)
(* An Arena is its memory, a position and an end; both are offsets from    *)
(* buf here.  The blocks handed out since the last reset are what the rest *)
(* of the program still points into; a byte of memory is zero or it is     *)
(* not.                                                                    *)
(***************************************************************************)
EXTENDS Integers

CONSTANTS
  Arenas,      (* the arenas of Engine__State: arena and frameArena        *)
  MaxSize,     (* largest sz of Arena__alloc                               *)
  MaxReq,      (* largest sz of Arena__push                                *)
  MaxPos,      (* bound: no push is made that would end beyond this offset *)
  DEBUG_SLOW   (* TRUE: the build has the assertions                       *)

ASSUME ArenaBounds ==
  MaxSize \in Nat /\ MaxReq \in Nat /\ MaxPos \in Nat /\ MaxSize <= MaxPos
ASSUME ArenaSwitch == DEBUG_SLOW \in BOOLEAN

Offsets == 0 .. MaxPos
Block   == [lo : Offsets, hi : Offsets]    \* the bytes lo .. hi - 1

VARIABLES
  exists,   \* which arenas have been allocated
  pos,      \* pos - buf
  end,      \* end - buf
  blocks,   \* what Arena__push has handed out since the arena was reset
  zero,     \* the offsets at which memory holds 0
  fresh,    \* arenas from Arena__allocZ or zeroed, and not reset since
  expect,   \* __expect_assert
  asserted, \* __asserted
  proc

arena == <<exists, pos, end, blocks, zero, fresh>>
trap  == <<expect, asserted>>
vars  == <<arena, trap, proc>>

TypeOK ==
  /\ exists \in SUBSET Arenas
  /\ pos \in [Arenas -> Offsets]
  /\ end \in [Arenas -> 0 .. MaxSize]
  /\ blocks \in [Arenas -> SUBSET Block]
  /\ zero \in [Arenas -> SUBSET Offsets]
  /\ fresh \in SUBSET Arenas
  /\ expect \in BOOLEAN /\ asserted \in BOOLEAN
  /\ proc \in {"running", "aborted", "crashed"}

Init ==
  /\ exists = {}
  /\ pos = [a \in Arenas |-> 0]
  /\ end = [a \in Arenas |-> 0]
  /\ blocks = [a \in Arenas |-> {}]
  /\ zero = [a \in Arenas |-> {}]
  /\ fresh = {}
  /\ expect = FALSE /\ asserted = FALSE
  /\ proc = "running"

-----------------------------------------------------------------------------
(* The console's trap, and what an assertion does *)

Console__trapAssert ==
  /\ proc = "running"
  /\ expect' = TRUE
  /\ UNCHANGED <<arena, asserted, proc>>

Console__resetAssert ==
  /\ proc = "running"
  /\ expect' = FALSE /\ asserted' = FALSE
  /\ UNCHANGED <<arena, proc>>

\* Console__abort comes back to the caller when a unit test expects it.
Console__abort ==
  IF expect THEN asserted' = TRUE /\ UNCHANGED <<expect, proc>>
            ELSE proc' = "aborted" /\ UNCHANGED trap

\* ASSERT_CONTEXT(ok, ...), and whether the function goes on behind it
ASSERT_CONTEXT(ok) ==
  IF DEBUG_SLOW /\ ~ok THEN Console__abort ELSE UNCHANGED <<trap, proc>>
GoesOn(ok) == ok \/ ~DEBUG_SLOW \/ expect

\* Every function but alloc and free starts with the assertion that the arena is
\* there, and reads through the pointer all the same when that was let through.
NoArena(a) ==
  /\ a \notin exists
  /\ IF GoesOn(FALSE)
     THEN proc' = "crashed" /\ asserted' = (asserted \/ DEBUG_SLOW) /\ UNCHANGED expect
     ELSE ASSERT_CONTEXT(FALSE)
  /\ UNCHANGED arena

-----------------------------------------------------------------------------
(* An arena's life *)

\* Mistake: end is one byte too far.
BufferOneMore(a, sz, z) ==
  /\ exists' = exists \cup {a}
  /\ pos' = [pos EXCEPT ![a] = 0]
  /\ end' = [end EXCEPT ![a] = sz + 1]
  /\ blocks' = [blocks EXCEPT ![a] = {}]
  /\ zero' = [zero EXCEPT ![a] = IF z THEN 0 .. sz - 1 ELSE {}]
  /\ fresh' = IF z THEN fresh \cup {a} ELSE fresh \ {a}

Buffer(a, sz, z) ==
  /\ exists' = exists \cup {a}
  /\ pos' = [pos EXCEPT ![a] = 0]
  /\ end' = [end EXCEPT ![a] = sz]
  /\ blocks' = [blocks EXCEPT ![a] = {}]
  /\ zero' = [zero EXCEPT ![a] = IF z THEN 0 .. sz - 1 ELSE {}]
  /\ fresh' = IF z THEN fresh \cup {a} ELSE fresh \ {a}

\* Either malloc may fail; the caller gets NULL and there is no arena.
Arena__alloc(a, sz) ==
  /\ proc = "running" /\ a \notin exists
  /\ Buffer(a, sz, FALSE) \/ UNCHANGED arena
  /\ UNCHANGED <<trap, proc>>

Arena__allocZ(a, sz) ==
  /\ proc = "running" /\ a \notin exists
  /\ Buffer(a, sz, TRUE) \/ UNCHANGED arena
  /\ UNCHANGED <<trap, proc>>

\* The struct and its memory are gone, and the program uses neither again.
Arena__free(a) ==
  /\ proc = "running" /\ a \in exists
  /\ exists' = exists \ {a}
  /\ pos' = [pos EXCEPT ![a] = 0]
  /\ end' = [end EXCEPT ![a] = 0]
  /\ blocks' = [blocks EXCEPT ![a] = {}]
  /\ zero' = [zero EXCEPT ![a] = {}]
  /\ fresh' = fresh \ {a}
  /\ UNCHANGED <<trap, proc>>

\* Mistakes: zeroing starts the arena over, or stops at the position.
ZeroRewinds(a) ==
  /\ proc = "running" /\ a \in exists
  /\ pos' = [pos EXCEPT ![a] = 0]
  /\ zero' = [zero EXCEPT ![a] = @ \cup 0 .. end[a] - 1]
  /\ fresh' = fresh \cup {a}
  /\ UNCHANGED <<exists, end, blocks, trap, proc>>
ZeroUsedOnly(a) ==
  /\ proc = "running" /\ a \in exists
  /\ zero' = [zero EXCEPT ![a] = @ \cup 0 .. pos[a] - 1]
  /\ fresh' = fresh \cup {a}
  /\ UNCHANGED <<exists, pos, end, blocks, trap, proc>>

\* All of the buffer; the position and the blocks stay.
Arena__zero(a) ==
  /\ proc = "running"
  /\ \/ NoArena(a)
     \/ /\ a \in exists
        /\ zero' = [zero EXCEPT ![a] = @ \cup 0 .. end[a] - 1]
        /\ fresh' = fresh \cup {a}
        /\ UNCHANGED <<exists, pos, end, blocks, trap, proc>>

\* The program names a block it was given.  A block past the end, which only a
\* trapped assertion lets it have, it does not touch.
Arena__zeroRange(a, b) ==
  /\ proc = "running" /\ b \in blocks[a] /\ b.hi <= end[a]
  /\ zero' = [zero EXCEPT ![a] = @ \cup b.lo .. b.hi - 1]
  /\ UNCHANGED <<exists, pos, end, blocks, fresh, trap, proc>>

\* The blocks handed out are the caller's until now; memory keeps what is in it.
Arena__reset(a) ==
  /\ proc = "running"
  /\ \/ NoArena(a)
     \/ /\ a \in exists
        /\ pos' = [pos EXCEPT ![a] = 0]
        /\ blocks' = [blocks EXCEPT ![a] = {}]
        /\ fresh' = fresh \ {a}
        /\ UNCHANGED <<exists, end, zero, trap, proc>>

-----------------------------------------------------------------------------
(* Arena__push, and the program writing to what it was given *)

\* Mistake: the position is checked, not where the block would end.
FitsBefore(a, sz) == pos[a] <= end[a]

Fits(a, sz) == pos[a] + sz <= end[a]

Arena__push(a, sz) ==
  /\ proc = "running"
  /\ \/ NoArena(a)
     \/ /\ a \in exists
        /\ pos[a] + sz <= MaxPos
        /\ ASSERT_CONTEXT(Fits(a, sz))
        /\ IF GoesOn(Fits(a, sz))
           THEN /\ pos' = [pos EXCEPT ![a] = @ + sz]
                /\ blocks' = [blocks EXCEPT
                     ![a] = @ \cup {[lo |-> pos[a], hi |-> pos[a] + sz]}]
           ELSE UNCHANGED <<pos, blocks>>
        /\ UNCHANGED <<exists, end, zero, fresh>>

\* One byte of a block becomes something else than 0.
Write(a, b, i) ==
  /\ proc = "running" /\ b \in blocks[a] /\ b.hi <= end[a]
  /\ i \in b.lo .. b.hi - 1
  /\ zero' = [zero EXCEPT ![a] = @ \ {i}]
  /\ UNCHANGED <<exists, pos, end, blocks, fresh, trap, proc>>

Next ==
  \/ Console__trapAssert \/ Console__resetAssert
  \/ \E a \in Arenas :
       \/ \E sz \in 0 .. MaxSize : Arena__alloc(a, sz) \/ Arena__allocZ(a, sz)
       \/ Arena__free(a) \/ Arena__zero(a) \/ Arena__reset(a)
       \/ \E sz \in 0 .. MaxReq : Arena__push(a, sz)
       \/ \E b \in blocks[a] : \/ Arena__zeroRange(a, b)
                               \/ \E i \in Offsets : Write(a, b, i)

Spec == Init /\ [][Next]_vars

-----------------------------------------------------------------------------
(* Properties *)

\* Two blocks of one arena that are both still in use share no byte, whatever was
\* reset, freed, trapped or refused in between.
BlocksDisjoint ==
  \A a \in Arenas : \A b, c \in blocks[a] :
    b # c => \A i \in b.lo .. b.hi - 1 : i \notin c.lo .. c.hi - 1

\* my-code-style.md:209, "Always bounds-check arena allocation": a block that
\* would end behind the arena's end is not handed out, unless a unit test has
\* trapped the assertion that says so, and then __asserted shows it.
PushIsChecked ==
  [][\A a \in Arenas : \A b \in blocks'[a] \ blocks[a] :
       b.hi <= end[a] \/ asserted']_vars

\* What an arena of Arena__allocZ hands out is zero until it is first reset: the
\* bytes not handed out yet are zero, whatever the program has written to its
\* blocks.
UnusedIsZero ==
  \A a \in fresh : \A i \in pos[a] .. end[a] - 1 : i \in zero[a]
=============================================================================
