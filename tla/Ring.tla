---------------------------------- MODULE Ring ----------------------------------
(***************************************************************************)
(* The ring buffer of src/common/Ring.c.  A RingBuf is two u16 indices;    *)
(* the items are in an array of the application, whose length cap it       *)
(* passes to every call.  It stores an item at head ("next write           *)
(* position") and then calls Ring__push, and reads the one at tail         *)
(* ("oldest item") when Ring__pop answers true.                            *)
(***************************************************************************)
EXTENDS Integers, Sequences

CONSTANTS
  Items,   (* what the application keeps in the array              *)
  None,    (* no item                                              *)
  MaxCap   (* longest array; at most 65535, the range of the u16s  *)

ASSUME CapAssumption  == MaxCap \in 1 .. 65535
ASSUME ItemAssumption == None \notin Items

VARIABLES
  cap,     \* the length of the array
  head,    \* RingBuf.head
  tail,    \* RingBuf.tail
  slot,    \* the array
  ready,   \* the item stored at head and not pushed yet, or None
  answer,  \* what the last call answered
  got      \* the item the last call was about, or None

indices == <<head, tail>>
vars    == <<cap, indices, slot, ready, answer, got>>

Index == 0 .. cap - 1

TypeOK ==
  /\ cap \in 1 .. MaxCap
  /\ head \in Index /\ tail \in Index
  /\ slot \in [Index -> Items \cup {None}]
  /\ ready \in Items \cup {None}
  /\ answer \in BOOLEAN
  /\ got \in Items \cup {None}

\* RingBuf rb = {0}, and an array nothing was written to
Init ==
  /\ cap \in 1 .. MaxCap
  /\ head = 0 /\ tail = 0
  /\ slot = [i \in Index |-> None]
  /\ ready = None
  /\ answer = TRUE /\ got = None

Answer(ok, item) == answer' = ok /\ got' = item

-----------------------------------------------------------------------------
(* The calls of Ring.c *)

Ring__empty == head = tail

\* Mistake: the place after the last slot is not taken to be the first.
FullUnwrapped == head + 1 = tail

\* The head never catches up with the tail: one slot always stays unused.
Ring__full == (head + 1) % cap = tail

Ring__at(offset) == (tail + offset) % cap

Ring__clear ==
  /\ head' = tail
  /\ ready' = None                   \* what was stored at the old head is lost
  /\ Answer(TRUE, None)
  /\ UNCHANGED <<cap, tail, slot>>

\* Mistake: the index runs past the end of the array.
PushPastEnd ==
  /\ ready # None
  /\ IF Ring__full
     THEN Answer(FALSE, None) /\ UNCHANGED <<head, ready>>
     ELSE head' = head + 1 /\ ready' = None /\ Answer(TRUE, ready)
  /\ UNCHANGED <<cap, tail, slot>>

Ring__push ==
  /\ ready # None
  /\ IF Ring__full
     THEN Answer(FALSE, None) /\ UNCHANGED <<head, ready>>
     ELSE head' = (head + 1) % cap /\ ready' = None /\ Answer(TRUE, ready)
  /\ UNCHANGED <<cap, tail, slot>>

Ring__pop ==
  /\ IF Ring__empty
     THEN Answer(FALSE, None) /\ UNCHANGED tail
     ELSE tail' = (tail + 1) % cap /\ Answer(TRUE, slot[tail])
  /\ UNCHANGED <<cap, head, slot, ready>>

-----------------------------------------------------------------------------
(* The application *)

\* It does not look whether the ring is full before it stores.
Store(d) ==
  /\ slot' = [slot EXCEPT ![head] = d]
  /\ ready' = d
  /\ Answer(TRUE, None)
  /\ UNCHANGED <<cap, indices>>

\* How many items there are between tail and head.
Count == IF tail <= head THEN head - tail ELSE head - tail + cap

\* It looks at an item that is there.
Look(offset) ==
  /\ offset < Count
  /\ Answer(TRUE, slot[Ring__at(offset)])
  /\ UNCHANGED <<cap, indices, slot, ready>>

Next ==
  \/ Ring__clear \/ Ring__push \/ Ring__pop
  \/ \E d \in Items : Store(d)
  \/ \E offset \in Index : Look(offset)

Spec == Init /\ [][Next]_vars

-----------------------------------------------------------------------------
(* Properties *)

\* The item at each place from tail on.
Place(i) == IF tail + i - 1 < cap THEN tail + i - 1 ELSE tail + i - 1 - cap

\* A ring over cap slots is a queue with room for cap - 1 items, wherever head and
\* tail have wrapped to: items come out once, in the order they went in, a push is
\* refused by a full queue only, and storing before the push overwrites no item.
Queue == INSTANCE BoundedQueue WITH
  queue <- [i \in 1 .. Count |-> slot[Place(i)]], room <- cap - 1
IsBoundedQueue == Queue!Spec
=================================================================================
