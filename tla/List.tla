----------------------------------- MODULE List -----------------------------------
(***************************************************************************)
(* The linked list of src/common/List.c.  A node is an address: the nodes  *)
(* an arena has given out are 1 .. used, their fields are data and next,   *)
(* and 0 is NULL.  Nothing is ever given back, so a node that has left its *)
(* list keeps its fields.                                                  *)
(*                                                                         *)
(* Items are compared as the sorter of List__insort would compare them: -1 *)
(* stands for a < b.                                                       *)
(***************************************************************************)
EXTENDS Integers, Sequences, FiniteSets

CONSTANTS
  Lists,        (* the List structs                                        *)
  MaxItem,      (* items are 1 .. MaxItem                                  *)
  MaxNodes,     (* bound: nodes pushed on the arena                        *)
  CallerChecks  (* TRUE: List__remove_item is only called for an item the
                   list has, ListIt__each only for a list that is not NULL *)

ASSUME ListBounds == MaxItem \in Nat /\ MaxNodes \in Nat
ASSUME ListSwitch == CallerChecks \in BOOLEAN

Null  == 0
Items == 1 .. MaxItem
Nodes == 1 .. MaxNodes
Calls == {"none", "reset", "get", "has_item", "prepend", "append", "insort", "merge",
          "shift", "pop", "remove_item", "replace_idx", "replace_item"}

VARIABLES
  used,   \* nodes pushed so far
  data,   \* List__Node.data
  next,   \* List__Node.next
  len,    \* List.len
  head,   \* List.head
  tail,   \* List.tail, which is only read while len is not 0
  ret,    \* the last call, and what it returned: an item or NULL, 1 or 0
  proc    \* whether the process runs, or has read through NULL and where

heap    == <<used, data, next>>
structs == <<len, head, tail>>
vars    == <<heap, structs, ret, proc>>

TypeOK ==
  /\ used \in 0 .. MaxNodes
  /\ data \in [Nodes -> Items \cup {Null}]
  /\ next \in [Nodes -> Nodes \cup {Null}]
  /\ len \in [Lists -> 0 .. MaxNodes]
  /\ head \in [Lists -> Nodes \cup {Null}]
  /\ tail \in [Lists -> Nodes \cup {Null}]
  /\ ret \in [call : Calls, value : Items \cup {Null, 1}]
  /\ proc \in {"running", "List__remove_item", "ListIt__each"}

Init ==
  /\ used = 0
  /\ data = [n \in Nodes |-> Null]
  /\ next = [n \in Nodes |-> Null]
  /\ len = [l \in Lists |-> 0]
  /\ head = [l \in Lists |-> Null]
  /\ tail = [l \in Lists |-> Null]
  /\ ret = [call |-> "none", value |-> Null]
  /\ proc = "running"

-----------------------------------------------------------------------------
(* Following the pointers *)

\* The nodes reached from head: the loops that run i < len follow next so often.
Path(l) ==
  LET p[i \in 1 .. len[l]] ==
        IF i = 1 THEN head[l] ELSE IF p[i - 1] = Null THEN Null ELSE next[p[i - 1]]
  IN p

ItemAt(n)   == IF n = Null THEN Null ELSE data[n]
Contents(l) == [i \in 1 .. len[l] |-> ItemAt(Path(l)[i])]

\* List__each with *node = n: whether there is a node, and the one that *node is
List__each(l, n) ==
  IF n = Null THEN [ok |-> head[l] # Null, node |-> head[l]]
  ELSE IF next[n] = Null THEN [ok |-> FALSE, node |-> n]
  ELSE [ok |-> TRUE, node |-> next[n]]

\* it is a ListIt on l and whether the last call found a node
\* Mistake: the index starts at one.
EachFromOne(l, it) ==
  LET r == List__each(l, it.node)
  IN [ok |-> r.ok, node |-> r.node, i |-> it.i + 1]

ListIt__each(l, it) ==
  LET r == List__each(l, it.node)
  IN [ok |-> r.ok, node |-> r.node, i |-> IF r.node = head[l] THEN 0 ELSE it.i + 1]

\* while (ListIt__each(&it)), for as long as there are nodes to find
Loop(l) ==
  LET t[k \in 0 .. MaxNodes + 1] ==
        IF k = 0 THEN [ok |-> TRUE, node |-> Null, i |-> 0]
        ELSE IF t[k - 1].ok THEN ListIt__each(l, t[k - 1]) ELSE t[k - 1]
  IN t
Rounds(l) == Cardinality({k \in 1 .. MaxNodes + 1 : Loop(l)[k].ok})

-----------------------------------------------------------------------------
(* Calls that only look *)

Return(call, v) == ret' = [call |-> call, value |-> v] /\ UNCHANGED proc
Bool(b)   == IF b THEN 1 ELSE 0

List__get(l, index) ==
  /\ Return("get", IF index >= len[l] THEN Null ELSE ItemAt(Path(l)[index + 1]))
  /\ UNCHANGED <<heap, structs>>

Finds(l, d) == \E k \in 1 .. Rounds(l) : data[Loop(l)[k].node] = d

List__has_item(l, d) ==
  Return("has_item", Bool(Finds(l, d))) /\ UNCHANGED <<heap, structs>>

-----------------------------------------------------------------------------
(* Calls that add *)

List__reset(l) ==
  /\ len' = [len EXCEPT ![l] = 0]
  /\ head' = [head EXCEPT ![l] = Null]
  /\ UNCHANGED <<heap, tail>> /\ Return("reset", Null)

\* Arena__push(sizeof(List__Node)) and the node's fields
NewNode(d, nx) ==
  /\ used < MaxNodes
  /\ used' = used + 1
  /\ data' = [data EXCEPT ![used + 1] = d]
  /\ next' = [nx EXCEPT ![used + 1] = @]

Longer(l, call) == len' = [len EXCEPT ![l] = @ + 1] /\ Return(call, Null)

List__prepend(l, d) ==
  /\ NewNode(d, [next EXCEPT ![used + 1] = IF len[l] = 0 THEN Null ELSE head[l]])
  /\ head' = [head EXCEPT ![l] = used + 1]
  /\ tail' = IF len[l] = 0 THEN [tail EXCEPT ![l] = used + 1] ELSE tail
  /\ Longer(l, "prepend")

List__append(l, d) ==
  /\ IF len[l] = 0
     THEN /\ NewNode(d, [next EXCEPT ![used + 1] = Null])
          /\ head' = [head EXCEPT ![l] = used + 1]
     ELSE /\ NewNode(d, [next EXCEPT ![used + 1] = Null, ![tail[l]] = used + 1])
          /\ UNCHANGED head
  /\ tail' = [tail EXCEPT ![l] = used + 1]
  /\ Longer(l, "append")

\* The node the loop of List__insort stops at: it starts at the head and goes on
\* while what comes next is larger than d.
StopsAt(l, d) ==
  CHOOSE k \in 1 .. len[l] :
    /\ k = len[l] \/ ~(d < Contents(l)[k + 1])
    /\ \A j \in 2 .. k : d < Contents(l)[j]

\* Mistake: what came behind the point of insertion is dropped.
InsortCuts(l, d) ==
  /\ IF head[l] = Null
     THEN /\ NewNode(d, [next EXCEPT ![used + 1] = Null])
          /\ head' = [head EXCEPT ![l] = used + 1]
          /\ tail' = [tail EXCEPT ![l] = used + 1]
     ELSE LET c == Path(l)[StopsAt(l, d)]
          IN /\ NewNode(d, [next EXCEPT ![used + 1] = Null, ![c] = used + 1])
             /\ tail' = [tail EXCEPT ![l] = used + 1]
             /\ UNCHANGED head
  /\ Longer(l, "insort")

List__insort(l, d) ==
  /\ IF head[l] = Null
     THEN /\ NewNode(d, [next EXCEPT ![used + 1] = Null])
          /\ head' = [head EXCEPT ![l] = used + 1]
          /\ tail' = [tail EXCEPT ![l] = used + 1]
     ELSE LET c == Path(l)[StopsAt(l, d)]
          IN /\ NewNode(d, [next EXCEPT ![used + 1] = next[c], ![c] = used + 1])
             /\ tail' = IF tail[l] = c THEN [tail EXCEPT ![l] = used + 1] ELSE tail
             /\ UNCHANGED head
  /\ Longer(l, "insort")

\* dst is the struct List__alloc gives out: a copy of a's items and then b's.
List__merge(dst, a, b) ==
  LET s == Contents(a) \o Contents(b)
      n == Len(s)
  IN /\ dst \notin {a, b}
     /\ used + n <= MaxNodes
     /\ used' = used + n
     /\ data' = [k \in Nodes |-> IF k - used \in 1 .. n THEN s[k - used] ELSE data[k]]
     /\ next' = [k \in Nodes |-> IF k - used \in 1 .. n - 1 THEN k + 1
                                 ELSE IF n > 0 /\ k - used = n THEN Null ELSE next[k]]
     /\ len' = [len EXCEPT ![dst] = n]
     /\ head' = [head EXCEPT ![dst] = IF n = 0 THEN Null ELSE used + 1]
     /\ tail' = IF n = 0 THEN tail ELSE [tail EXCEPT ![dst] = used + n]
     /\ Return("merge", Null)

-----------------------------------------------------------------------------
(* Calls that take out or replace *)

Shorter(l) == len' = [len EXCEPT ![l] = @ - 1]

\* What List__shift and List__pop do with no item, and with one.
Emptied(l, call) ==
  \/ len[l] = 0 /\ Return(call, Null) /\ UNCHANGED structs
  \/ /\ len[l] = 1
     /\ head' = [head EXCEPT ![l] = Null]
     /\ tail' = [tail EXCEPT ![l] = Null]
     /\ Shorter(l)
     /\ Return(call, data[head[l]])

\* Mistake: the empty list is not looked for.
ShiftEmpty(l) ==
  /\ IF head[l] = Null THEN UNCHANGED head /\ Return("shift", Null)
     ELSE head' = [head EXCEPT ![l] = next[head[l]]] /\ Return("shift", data[head[l]])
  /\ Shorter(l)
  /\ UNCHANGED <<heap, tail>>

List__shift(l) ==
  /\ \/ Emptied(l, "shift")
     \/ /\ len[l] > 1
        /\ head' = [head EXCEPT ![l] = next[head[l]]]
        /\ Shorter(l)
        /\ Return("shift", data[head[l]])
        /\ UNCHANGED tail
  /\ UNCHANGED heap

List__pop(l) ==
  \/ Emptied(l, "pop") /\ UNCHANGED heap
  \/ LET prev == Path(l)[len[l] - 1]
     IN /\ len[l] > 1
        /\ tail' = [tail EXCEPT ![l] = prev]
        /\ next' = [next EXCEPT ![prev] = Null]
        /\ Shorter(l)
        /\ Return("pop", data[Path(l)[len[l]]])
        /\ UNCHANGED <<used, data, head>>

\* Behind the last node, or in a list without one, data is read through NULL.
RemoveFromNull(l, d) ==
  /\ ~CallerChecks
  /\ \A k \in 1 .. len[l] : Contents(l)[k] # d
  /\ proc' = "List__remove_item"
  /\ UNCHANGED <<heap, structs, ret>>

\* Mistake: the tail stays where it was.
RemoveKeepsTail(l, d) ==
  \/ /\ len[l] > 0 /\ data[head[l]] = d
     /\ head' = [head EXCEPT ![l] = next[head[l]]]
     /\ Shorter(l) /\ Return("remove_item", 1)
     /\ UNCHANGED <<heap, tail>>
  \/ \E k \in 2 .. len[l] :
       LET c == Path(l)[k - 1]
       IN /\ Contents(l)[k] = d /\ \A j \in 1 .. k - 1 : Contents(l)[j] # d
          /\ next' = [next EXCEPT ![c] = next[next[c]]]
          /\ Shorter(l) /\ Return("remove_item", 1)
          /\ UNCHANGED <<used, data, head, tail>>

List__remove_item(l, d) ==
  \/ RemoveFromNull(l, d)
  \/ /\ len[l] > 0 /\ data[head[l]] = d
     /\ head' = [head EXCEPT ![l] = next[head[l]]]
     /\ Shorter(l) /\ Return("remove_item", 1)
     /\ UNCHANGED <<heap, tail>>
  \/ \E k \in 2 .. len[l] :
       LET c == Path(l)[k - 1]
       IN /\ Contents(l)[k] = d /\ \A j \in 1 .. k - 1 : Contents(l)[j] # d
          /\ next' = [next EXCEPT ![c] = next[next[c]]]
          /\ tail' = IF next[next[c]] = Null THEN [tail EXCEPT ![l] = c] ELSE tail
          /\ Shorter(l) /\ Return("remove_item", 1)
          /\ UNCHANGED <<used, data, head>>

Replaced(l, k, d, call) ==
  /\ data' = [data EXCEPT ![Loop(l)[k].node] = d]
  /\ Return(call, 1)
  /\ UNCHANGED <<used, next, structs>>

List__replace_idx(l, idx, d) ==
  IF idx < Rounds(l) THEN Replaced(l, idx + 1, d, "replace_idx")
  ELSE Return("replace_idx", 0) /\ UNCHANGED <<heap, structs>>

List__replace_item(l, d, e) ==
  \/ ~Finds(l, d) /\ Return("replace_item", 0) /\ UNCHANGED <<heap, structs>>
  \/ \E k \in 1 .. Rounds(l) :
       /\ data[Loop(l)[k].node] = d
       /\ \A j \in 1 .. k - 1 : data[Loop(l)[j].node] # d
       /\ Replaced(l, k, e, "replace_item")

\* List__each answers false for a NULL list; ListIt__each reads its head.
ListIt__eachOfNull ==
  /\ ~CallerChecks
  /\ proc' = "ListIt__each"
  /\ UNCHANGED <<heap, structs, ret>>

-----------------------------------------------------------------------------
Call(l) ==
  \/ List__reset(l) \/ List__shift(l) \/ List__pop(l)
  \/ \E a, b \in Lists : List__merge(l, a, b)
  \/ \E index \in 0 .. MaxNodes : List__get(l, index)
  \/ \E d \in Items :
       \/ List__prepend(l, d) \/ List__append(l, d) \/ List__insort(l, d)
       \/ List__remove_item(l, d) \/ List__has_item(l, d)
       \/ \E idx \in 0 .. MaxNodes : List__replace_idx(l, idx, d)
       \/ \E e \in Items : List__replace_item(l, d, e)

Next == proc = "running" /\ (ListIt__eachOfNull \/ \E l \in Lists : Call(l))

Spec == Init /\ [][Next]_vars

-----------------------------------------------------------------------------
(* Properties *)

\* The pointers of a list and its len agree after any sequence of calls: len nodes
\* in a row that end at tail with NULL, none of them twice and none of another list.
WellFormed ==
  \A l \in Lists :
    LET p == Path(l) IN
    /\ len[l] = 0 => head[l] = Null
    /\ len[l] > 0 => p[len[l]] = tail[l] /\ tail[l] # Null /\ next[tail[l]] = Null
    /\ \A i, j \in 1 .. len[l] : p[i] = p[j] => i = j
    /\ \A m \in Lists \ {l} : \A i \in 1 .. len[l], j \in 1 .. len[m] : p[i] # Path(m)[j]

\* A while (ListIt__each(&it)) loop ends, and sees every item of the list once, in
\* order, at the index it.i says: also for one item and for none, and whatever
\* stale pointers removed nodes and earlier tails have left behind.
LoopSeesContents ==
  \A l \in Lists :
    /\ Rounds(l) = len[l]
    /\ \A k \in 1 .. len[l] : /\ data[Loop(l)[k].node] = Contents(l)[k]
                              /\ Loop(l)[k].i = k - 1

Seqs == INSTANCE ListSequence WITH
  None <- Null, seq <- [l \in Lists |-> Contents(l)]

\* The step that is no sorted insertion: the loop of List__insort begins behind the
\* head (List.c:166-169), so an item that belongs in front of the head goes to
\* where it belongs among the others.
InsortPassesHead ==
  \E l \in Lists, d \in Items :
    LET c == Contents(l)
    IN /\ c # <<>> /\ ~(d < c[1])
       /\ \E k \in 1 .. Len(c) : /\ \A j \in 2 .. k : d < c[j]
                                 /\ k < Len(c) => ~(d < c[k + 1])
                                 /\ Seqs!Becomes(l, Seqs!InsertAt(c, k + 1, d))
       /\ Seqs!Return("insort", Null)

\* Apart from that step the nodes and pointers behave as one sequence of items per
\* list: no call loses, repeats or reorders an item, or changes a list it was not
\* given, and a new item is put where the sequence is sorted with it.
IsSequence == Seqs!Init /\ [][Seqs!Next \/ InsortPassesHead]_(Seqs!lsvars)

\* List.c:152, "insert in sorted position": a list that is in the order its sorter
\* looks for, larger items first, is so after List__insort too.
Sorted(s) == \A i \in 1 .. Len(s) - 1 : s[i] >= s[i + 1]
InsortKeepsOrder ==
  [][\A l \in Lists, d \in Items :
       Sorted(Contents(l)) /\ List__insort(l, d) => Sorted(Contents(l)')]_vars

\* List.c:22-23 answers false for a NULL list, "invalid list!": a loop over one
\* that goes through ListIt__each ends before its first round.
NullListEndsLoop == proc # "ListIt__each"
===================================================================================
