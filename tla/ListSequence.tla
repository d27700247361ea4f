------------------------------ MODULE ListSequence ------------------------------
(***************************************************************************)
(* What a List promises, without nodes or pointers: each list is a         *)
(* sequence of items, and every call answers about, or makes one change    *)
(* to, the sequence of its own list.                                       *)
(***************************************************************************)
EXTENDS Integers, Sequences, SequencesExt

CONSTANTS Lists, Items, None

VARIABLES seq,   \* the items of each list
          ret    \* the last call, and what it returned

lsvars == <<seq, ret>>

Init == seq = [l \in Lists |-> <<>>] /\ ret = [call |-> "none", value |-> None]

Return(call, v) == ret' = [call |-> call, value |-> v]
Becomes(l, s)   == seq' = [seq EXCEPT ![l] = s]
Bool(b) == IF b THEN 1 ELSE 0

Reset(l)      == Becomes(l, <<>>) /\ Return("reset", None)
Prepend(l, d) == Becomes(l, <<d>> \o seq[l]) /\ Return("prepend", None)
Extend(l, d)  == Becomes(l, Append(seq[l], d)) /\ Return("append", None)

\* Sorted, larger items first: d goes in front of the first item that is not larger,
\* which may be the first one of all.
Insort(l, d) ==
  /\ \E k \in 0 .. Len(seq[l]) :
       /\ \A j \in 1 .. k : d < seq[l][j]
       /\ k < Len(seq[l]) => ~(d < seq[l][k + 1])
       /\ Becomes(l, InsertAt(seq[l], k + 1, d))
  /\ Return("insort", None)

Merge(l, m, n) == Becomes(l, seq[m] \o seq[n]) /\ Return("merge", None)

Shift(l) ==
  IF seq[l] = <<>> THEN UNCHANGED seq /\ Return("shift", None)
  ELSE Becomes(l, Tail(seq[l])) /\ Return("shift", Head(seq[l]))
Pop(l) ==
  IF seq[l] = <<>> THEN UNCHANGED seq /\ Return("pop", None)
  ELSE Becomes(l, Front(seq[l])) /\ Return("pop", Last(seq[l]))

Get(l, index) ==
  /\ Return("get", IF index < Len(seq[l]) THEN seq[l][index + 1] ELSE None)
  /\ UNCHANGED seq

\* the first d of the list, if it has one
Place(l, d) == CHOOSE k \in 1 .. Len(seq[l]) :
  seq[l][k] = d /\ \A j \in 1 .. k - 1 : seq[l][j] # d
Has(l, d) == Contains(seq[l], d)

HasItem(l, d) == Return("has_item", Bool(Has(l, d))) /\ UNCHANGED seq

RemoveItem(l, d) ==
  /\ IF Has(l, d) THEN Becomes(l, RemoveAt(seq[l], Place(l, d)))
                  ELSE UNCHANGED seq
  /\ Return("remove_item", Bool(Has(l, d)))

ReplaceIdx(l, idx, d) ==
  /\ IF idx < Len(seq[l]) THEN Becomes(l, [seq[l] EXCEPT ![idx + 1] = d])
                          ELSE UNCHANGED seq
  /\ Return("replace_idx", Bool(idx < Len(seq[l])))
ReplaceItem(l, d, e) ==
  /\ IF Has(l, d) THEN Becomes(l, [seq[l] EXCEPT ![Place(l, d)] = e])
                  ELSE UNCHANGED seq
  /\ Return("replace_item", Bool(Has(l, d)))

Next ==
  \E l \in Lists :
    \/ Reset(l) \/ Shift(l) \/ Pop(l)
    \/ \E m, n \in Lists : Merge(l, m, n)
    \/ \E k \in 0 .. Len(seq[l]) : Get(l, k) \/ \E d \in Items : ReplaceIdx(l, k, d)
    \/ \E d \in Items :
         \/ Prepend(l, d) \/ Extend(l, d) \/ Insort(l, d)
         \/ HasItem(l, d) \/ RemoveItem(l, d)
         \/ \E e \in Items : ReplaceItem(l, d, e)

Spec == Init /\ [][Next]_lsvars
=================================================================================
