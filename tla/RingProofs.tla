-------------------------------- MODULE RingProofs --------------------------------
(***************************************************************************)
(* Proofs about Ring, for every length of the array a u16 can hold.        *)
(***************************************************************************)
EXTENDS Ring, SequenceTheorems, TLAPS

\* What was made ready lies at head: a push takes it in, and nothing else moves head.
RingInv == TypeOK /\ (ready # None => slot[head] = ready)

\* Less than one turn round the array.
LEMMA Wrap ==
  ASSUME NEW c \in Nat \ {0}, NEW x \in Nat, NEW y \in Nat, x < c, y <= c
  PROVE  (x + y) % c = IF x + y < c THEN x + y ELSE x + y - c
BY SMT

LEMMA IndexFacts ==
  ASSUME TypeOK
  PROVE  /\ cap \in Nat \ {0}
         /\ head \in Nat /\ head < cap /\ tail \in Nat /\ tail < cap
         /\ Index = 0 .. cap - 1
         /\ Count \in Nat /\ Count < cap
<1>1. /\ cap \in Nat \ {0}
      /\ head \in Nat /\ head < cap /\ tail \in Nat /\ tail < cap
  <2>1. cap \in 1 .. MaxCap /\ head \in Index /\ tail \in Index
    BY DEF TypeOK
  <2>2. cap \in Nat \ {0}
    BY <2>1, CapAssumption, SMTT(30)
  <2> QED
    BY <2>1, <2>2 DEF Index
<1> QED
  BY <1>1 DEF Index, Count

LEMMA NextIndex ==
  ASSUME TypeOK, NEW x \in Nat, x < cap
  PROVE  (x + 1) % cap = IF x + 1 < cap THEN x + 1 ELSE 0
<1>1. cap \in Nat \ {0} /\ 1 <= cap
  BY IndexFacts
<1>2. (x + 1) % cap = IF x + 1 < cap THEN x + 1 ELSE x + 1 - cap
  BY <1>1, Wrap
<1> QED
  BY <1>1, <1>2

LEMMA HeadAndTail ==
  ASSUME TypeOK
  PROVE  /\ (head + 1) % cap = IF head + 1 < cap THEN head + 1 ELSE 0
         /\ (tail + 1) % cap = IF tail + 1 < cap THEN tail + 1 ELSE 0
BY IndexFacts, NextIndex

LEMMA AtFacts ==
  ASSUME TypeOK, NEW offset \in Index
  PROVE  /\ Ring__at(offset) = IF tail + offset < cap THEN tail + offset ELSE tail + offset - cap
         /\ Ring__at(offset) \in Index
<1>1. /\ cap \in Nat \ {0} /\ tail \in Nat /\ tail < cap
      /\ offset \in Nat /\ offset < cap /\ offset <= cap
  BY IndexFacts
<1>2. (tail + offset) % cap = IF tail + offset < cap THEN tail + offset ELSE tail + offset - cap
  BY <1>1, Wrap
<1>3. Ring__at(offset) \in Nat /\ Ring__at(offset) < cap
  <2>1. /\ tail \in Nat /\ offset \in Nat /\ cap \in Nat /\ tail < cap /\ offset < cap
    BY <1>1, IndexFacts
  <2> QED
    BY <1>2, <2>1 DEF Ring__at
<1> QED
  BY <1>2, <1>3, IndexFacts DEF Ring__at

LEMMA RingInit == Init => RingInv
<1> SUFFICES ASSUME Init PROVE RingInv
  OBVIOUS
<1>1. 0 \in Index
  <2>1. cap \in 1 .. MaxCap
    BY DEF Init
  <2>2. cap \in Nat /\ 1 <= cap
    BY <2>1, CapAssumption
  <2> QED
    BY <2>2 DEF Index
<1> QED
  BY <1>1, ItemAssumption DEF Init, RingInv, TypeOK

LEMMA RingStep == RingInv /\ [Next]_vars => RingInv'
<1> SUFFICES ASSUME RingInv, [Next]_vars PROVE RingInv'
  OBVIOUS
<1> USE ItemAssumption
<1>0. TypeOK
  BY DEF RingInv
<1>i. Index' = Index
  BY DEF Next, vars, indices, Ring__clear, Ring__push, Ring__pop, Store, Look, Index
<1>1. CASE Ring__clear
  BY <1>0, <1>1, <1>i DEF Ring__clear, Answer, RingInv, TypeOK
<1>2. CASE Ring__push
  <2>1. (head + 1) % cap \in Index
    BY <1>0, IndexFacts, HeadAndTail
  <2> QED
    BY <1>0, <1>2, <1>i, <2>1 DEF Ring__push, Answer, RingInv, TypeOK
<1>3. CASE Ring__pop
  <2>1. (tail + 1) % cap \in Index
    BY <1>0, IndexFacts, HeadAndTail
  <2> QED
    BY <1>0, <1>3, <1>i, <2>1 DEF Ring__pop, Answer, RingInv, TypeOK
<1>4. ASSUME NEW d \in Items, Store(d) PROVE RingInv'
  BY <1>0, <1>4, <1>i DEF Store, Answer, indices, RingInv, TypeOK
<1>5. ASSUME NEW offset \in Index, Look(offset) PROVE RingInv'
  <2>1. Ring__at(offset) \in Index
    BY <1>0, AtFacts
  <2> QED
    BY <1>0, <1>5, <1>i, <2>1 DEF Look, Answer, indices, RingInv, TypeOK
<1>6. CASE UNCHANGED vars
  BY <1>0, <1>6, <1>i DEF vars, indices, RingInv, TypeOK
<1> QED
  BY <1>1, <1>2, <1>3, <1>4, <1>5, <1>6 DEF Next

\* Both indices stay in the array, whatever the length of the array, and every answer
\* is about an item that was stored (Ring__push, Ring__pop, Ring__clear, Ring__at).
THEOREM RingType == Spec => []TypeOK
<1>1. RingInv => TypeOK
  BY DEF RingInv
<1> QED
  BY <1>1, RingInit, RingStep, PTL DEF Spec

-----------------------------------------------------------------------------
(* The refinement *)

queue == [i \in 1 .. Count |-> slot[Place(i)]]

LEMMA PlaceFacts ==
  ASSUME TypeOK
  PROVE  \A i \in 1 .. Count : Place(i) \in Index /\ Place(i) # head
<1> SUFFICES ASSUME NEW i \in 1 .. Count PROVE Place(i) \in Index /\ Place(i) # head
  OBVIOUS
<1>1. /\ cap \in Nat /\ head \in Nat /\ head < cap /\ tail \in Nat /\ tail < cap
      /\ i \in Nat /\ 1 <= i /\ i <= IF tail <= head THEN head - tail ELSE head - tail + cap
  BY IndexFacts DEF Count
<1>2. Place(i) \in Nat /\ Place(i) < cap /\ Place(i) # head
  BY <1>1 DEF Place
<1> QED
  BY <1>2, IndexFacts

LEMMA QueueIsSeq ==
  ASSUME TypeOK
  PROVE  queue \in Seq(Items \cup {None}) /\ Len(queue) = Count
<1>1. \A i \in 1 .. Count : slot[Place(i)] \in Items \cup {None}
  BY PlaceFacts DEF TypeOK
<1> QED
  BY <1>1, IndexFacts DEF queue

\* Full and empty, said of the queue.
LEMMA FullMeans == ASSUME TypeOK PROVE Ring__full <=> ~(Count < cap - 1)
BY IndexFacts, HeadAndTail DEF Ring__full, Count

LEMMA EmptyMeans == ASSUME TypeOK PROVE Ring__empty <=> queue = <<>>
<1>1. Ring__empty <=> Count = 0
  BY IndexFacts DEF Ring__empty, Count
<1>2. queue = <<>> <=> Len(queue) = 0
  BY QueueIsSeq
<1> QED
  BY <1>1, <1>2, QueueIsSeq

LEMMA AppendAsFunction ==
  ASSUME NEW S, NEW q \in Seq(S), NEW d \in S
  PROVE  Append(q, d) = [i \in 1 .. Len(q) + 1 |-> IF i = Len(q) + 1 THEN d ELSE q[i]]
<1> DEFINE f == [i \in 1 .. Len(q) + 1 |-> IF i = Len(q) + 1 THEN d ELSE q[i]]
<1>1. /\ Append(q, d) \in Seq(S) /\ Len(Append(q, d)) = Len(q) + 1
      /\ \A i \in 1 .. Len(q) : Append(q, d)[i] = q[i]
      /\ Append(q, d)[Len(q) + 1] = d
  BY AppendProperties
<1>2. f \in Seq(S) /\ Len(f) = Len(q) + 1
  OBVIOUS
<1>3. \A i \in 1 .. Len(f) : f[i] = Append(q, d)[i]
  BY <1>1, <1>2
<1> HIDE DEF f
<1>4. f = Append(q, d)
  BY <1>1, <1>2, <1>3, SeqEqual
<1> QED
  BY <1>4 DEF f

LEMMA TailAsFunction ==
  ASSUME NEW S, NEW q \in Seq(S), q # <<>>
  PROVE  Tail(q) = [i \in 1 .. Len(q) - 1 |-> q[i + 1]]
<1> DEFINE f == [i \in 1 .. Len(q) - 1 |-> q[i + 1]]
<1>1. /\ Tail(q) \in Seq(S) /\ Len(Tail(q)) = Len(q) - 1
      /\ \A i \in 1 .. Len(Tail(q)) : Tail(q)[i] = q[i + 1]
  BY HeadTailProperties
<1>2. Len(q) \in Nat /\ Len(q) >= 1
  OBVIOUS
<1>3. f \in Seq(S) /\ Len(f) = Len(q) - 1
  BY <1>2
<1>4. \A i \in 1 .. Len(f) : f[i] = Tail(q)[i]
  BY <1>1, <1>3
<1> HIDE DEF f
<1>5. f = Tail(q)
  BY <1>1, <1>3, <1>4, SeqEqual
<1> QED
  BY <1>5 DEF f

LEMMA PushAppends ==
  ASSUME RingInv, Ring__push, ~Ring__full
  PROVE  queue' = Append(queue, ready)
<1>0. TypeOK /\ slot[head] = ready
  BY DEF RingInv, Ring__push
<1>1. /\ cap' = cap /\ tail' = tail /\ slot' = slot
      /\ head' = IF head + 1 < cap THEN head + 1 ELSE 0
  BY <1>0, HeadAndTail DEF Ring__push
<1>2. Count' = Count + 1
  <2>1. Count < cap - 1
    BY <1>0, FullMeans
  <2>2. /\ cap \in Nat /\ head \in Nat /\ head < cap /\ tail \in Nat /\ tail < cap
    BY <1>0, IndexFacts
  <2> QED
    BY <1>1, <2>1, <2>2 DEF Count
<1>3. Place(Count + 1) = head
  BY <1>0, IndexFacts DEF Place, Count
<1>4. \A i \in 1 .. Count + 1 : Place(i)' = Place(i)
  BY <1>1 DEF Place
<1>5. queue' = [i \in 1 .. Count + 1 |-> slot[Place(i)]]
  BY <1>1, <1>2, <1>4 DEF queue
<1>6. Append(queue, ready) = [i \in 1 .. Count + 1 |-> IF i = Count + 1 THEN ready ELSE queue[i]]
  <2>1. queue \in Seq(Items \cup {None}) /\ Len(queue) = Count /\ ready \in Items \cup {None}
    BY <1>0, QueueIsSeq DEF TypeOK
  <2> QED
    BY <2>1, AppendAsFunction
<1>7. \A i \in 1 .. Count + 1 : slot[Place(i)] = IF i = Count + 1 THEN ready ELSE queue[i]
  BY <1>0, <1>3, IndexFacts DEF queue
<1> QED
  BY <1>5, <1>6, <1>7

LEMMA PopTakesHead ==
  ASSUME RingInv, Ring__pop, ~Ring__empty
  PROVE  queue' = Tail(queue) /\ slot[tail] = Head(queue)
<1>0. TypeOK
  BY DEF RingInv
<1>1. /\ cap' = cap /\ head' = head /\ slot' = slot
      /\ tail' = IF tail + 1 < cap THEN tail + 1 ELSE 0
  BY <1>0, HeadAndTail DEF Ring__pop
<1>2. Count \in Nat /\ Count >= 1 /\ Count' = Count - 1
  <2>1. /\ cap \in Nat /\ head \in Nat /\ head < cap /\ tail \in Nat /\ tail < cap
        /\ head # tail
    BY <1>0, IndexFacts DEF Ring__empty
  <2> QED
    BY <1>1, <2>1 DEF Count
<1>3. \A i \in 1 .. Count - 1 : Place(i)' = Place(i + 1)
  BY <1>0, <1>1, <1>2, IndexFacts DEF Place
<1>4. queue' = [i \in 1 .. Count - 1 |-> slot[Place(i + 1)]]
  BY <1>1, <1>2, <1>3 DEF queue
<1>5. Tail(queue) = [i \in 1 .. Count - 1 |-> queue[i + 1]]
  <2>1. queue \in Seq(Items \cup {None}) /\ Len(queue) = Count /\ queue # <<>>
    BY <1>0, <1>2, QueueIsSeq
  <2> QED
    BY <2>1, TailAsFunction
<1>6. \A i \in 1 .. Count - 1 : queue[i + 1] = slot[Place(i + 1)]
  BY <1>2 DEF queue
<1>7. Place(1) = tail
  BY <1>0, IndexFacts DEF Place
<1>8. queue[1] = slot[tail]
  BY <1>2, <1>7 DEF queue
<1>9. Head(queue) = queue[1]
  BY <1>0, <1>2, QueueIsSeq
<1> QED
  BY <1>4, <1>5, <1>6, <1>8, <1>9

LEMMA QueueInit == Init => Queue!Init
<1> SUFFICES ASSUME Init PROVE Queue!Init
  OBVIOUS
<1>1. TypeOK /\ Ring__empty
  BY RingInit DEF RingInv, Init, Ring__empty
<1>2. cap - 1 \in Nat
  BY <1>1, IndexFacts
<1> QED
  BY <1>1, <1>2, EmptyMeans DEF Init, Queue!Init, queue

LEMMA QueueStep ==
  RingInv /\ [Next]_vars =>
    [Queue!Next]_<<queue, cap - 1, ready, answer, got>>
<1> SUFFICES ASSUME RingInv, [Next]_vars
             PROVE  [Queue!Next]_<<queue, cap - 1, ready, answer, got>>
  OBVIOUS
<1>0. TypeOK
  BY DEF RingInv
<1>1. CASE Ring__clear
  <2>1. TypeOK' /\ Ring__empty'
    BY <1>1, RingStep DEF Ring__clear, Ring__empty, RingInv
  <2>2. queue' = <<>>
    <3>1. Count' = 0
      BY <2>1, <1>1, IndexFacts, <1>0 DEF Count, Ring__clear
    <3> QED
      BY <3>1 DEF queue
  <2> QED
    BY <1>1, <2>2 DEF Ring__clear, Answer, Queue!Clear, Queue!Answer, Queue!Next, queue
<1>2. CASE Ring__push
  <2>1. CASE Ring__full
    <3>1. queue' = queue
      BY <1>2, <2>1 DEF Ring__push, queue, Count, Place
    <3> QED
      BY <1>0, <1>2, <2>1, <3>1, FullMeans, QueueIsSeq
      DEF Ring__push, Answer, Queue!Push, Queue!Answer, Queue!Next, queue
  <2>2. CASE ~Ring__full
    <3>1. queue' = Append(queue, ready) /\ Len(queue) < cap - 1
      BY <1>0, <1>2, <2>2, FullMeans, QueueIsSeq, PushAppends
    <3> QED
      BY <1>2, <2>2, <3>1
      DEF Ring__push, Answer, Queue!Push, Queue!Answer, Queue!Next, queue
  <2> QED
    BY <2>1, <2>2
<1>3. CASE Ring__pop
  <2>1. CASE Ring__empty
    <3>1. queue' = queue
      BY <1>3, <2>1 DEF Ring__pop, queue, Count, Place
    <3> QED
      BY <1>0, <1>3, <2>1, <3>1, EmptyMeans
      DEF Ring__pop, Answer, Queue!Pop, Queue!Answer, Queue!Next, queue
  <2>2. CASE ~Ring__empty
    <3>1. queue' = Tail(queue) /\ slot[tail] = Head(queue) /\ queue # <<>>
      BY <1>0, <1>3, <2>2, EmptyMeans, PopTakesHead
    <3> QED
      BY <1>3, <2>2, <3>1
      DEF Ring__pop, Answer, Queue!Pop, Queue!Answer, Queue!Next, queue
  <2> QED
    BY <2>1, <2>2
<1>4. ASSUME NEW d \in Items, Store(d) PROVE Queue!Next
  <2>1. \A i \in 1 .. Count : slot'[Place(i)] = slot[Place(i)]
    BY <1>0, <1>4, PlaceFacts DEF Store, TypeOK
  <2>2. queue' = queue
    BY <1>4, <2>1 DEF Store, indices, queue, Count, Place
  <2> QED
    BY <1>4, <2>2 DEF Store, Answer, indices, Queue!Prepare, Queue!Answer, Queue!Next, queue
<1>5. ASSUME NEW offset \in Index, Look(offset) PROVE Queue!Next
  <2>1. offset \in Nat /\ offset < Count /\ offset + 1 \in 1 .. Count
    BY <1>0, <1>5, IndexFacts DEF Look
  <2>3. Ring__at(offset) = Place(offset + 1)
    BY <1>0, <2>1, IndexFacts, AtFacts DEF Place
  <2>4. queue[offset + 1] = slot[Ring__at(offset)]
    BY <2>1, <2>3 DEF queue
  <2>5. queue' = queue
    BY <1>5 DEF Look, indices, queue, Count, Place
  <2>6. Queue!Peek(offset + 1)
    BY <1>0, <1>5, <2>1, <2>4, <2>5, QueueIsSeq
    DEF Look, Answer, indices, Queue!Peek, Queue!Answer, queue
  <2>7. offset + 1 \in 1 .. Len(queue)
    BY <1>0, <2>1, QueueIsSeq
  <2> QED
    BY <2>6, <2>7 DEF Queue!Next, queue
<1>6. CASE UNCHANGED vars
  BY <1>6 DEF vars, indices, queue, Count, Place
<1> QED
  BY <1>1, <1>2, <1>3, <1>4, <1>5, <1>6 DEF Next

\* A ring over an array of any length is a queue with room for one item fewer: first in,
\* first out, refused only when full (Ring.c).
THEOREM RingIsQueue == Spec => IsBoundedQueue
<1>1. Queue!Spec <=> Queue!Init /\ [][Queue!Next]_<<queue, cap - 1, ready, answer, got>>
  BY DEF Queue!Spec, queue
<1> QED
  BY <1>1, RingInit, RingStep, QueueInit, QueueStep, PTL DEF Spec, IsBoundedQueue
===================================================================================
