------------------------------- MODULE BoundedQueue -------------------------------
(***************************************************************************)
(* What a ring buffer promises, without indices: a queue with room for a   *)
(* number of items, and a place beside it where the next item is made      *)
(* ready before it is pushed.                                              *)
(***************************************************************************)
EXTENDS Integers, Sequences

CONSTANTS Items, None

VARIABLES
  queue,   \* the items that were pushed and not popped, oldest first
  room,    \* how many the queue can hold
  ready,   \* the item made ready for the next push, or None
  answer,  \* what the last call answered
  got      \* the item the last call was about, or None

Answer(ok, item) == answer' = ok /\ got' = item

Init ==
  /\ queue = <<>> /\ room \in Nat
  /\ ready = None
  /\ answer = TRUE /\ got = None

\* Making an item ready disturbs none that is in the queue, a full one included.
Prepare(d) ==
  /\ ready' = d
  /\ Answer(TRUE, None)
  /\ UNCHANGED <<queue, room>>

\* Refused when the queue is full only, and then the item stays ready.
Push ==
  /\ ready # None
  /\ IF Len(queue) < room
     THEN queue' = Append(queue, ready) /\ ready' = None /\ Answer(TRUE, ready)
     ELSE Answer(FALSE, None) /\ UNCHANGED <<queue, ready>>
  /\ UNCHANGED room

Pop ==
  /\ IF queue # <<>>
     THEN queue' = Tail(queue) /\ Answer(TRUE, Head(queue))
     ELSE Answer(FALSE, None) /\ UNCHANGED queue
  /\ UNCHANGED <<room, ready>>

\* The item that was made ready goes too.
Clear ==
  /\ queue' = <<>> /\ ready' = None
  /\ Answer(TRUE, None)
  /\ UNCHANGED room

Peek(i) ==
  /\ i \in 1 .. Len(queue)
  /\ Answer(TRUE, queue[i])
  /\ UNCHANGED <<queue, room, ready>>

Next == \/ Push \/ Pop \/ Clear
        \/ \E d \in Items : Prepare(d)
        \/ \E i \in 1 .. Len(queue) : Peek(i)

Spec == Init /\ [][Next]_<<queue, room, ready, answer, got>>
==================================================================================
