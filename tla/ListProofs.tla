-------------------------------- MODULE ListProofs --------------------------------
(***************************************************************************)
(* Proofs about List, for every number of lists, items and nodes.          *)
(*                                                                         *)
(* Path and Loop are recursive functions: what they are is proved by       *)
(* induction, from the fact that every set of natural numbers that is not  *)
(* empty has a least element.                                              *)
(***************************************************************************)
EXTENDS List, FiniteSetTheorems, SequenceTheorems, TLAPS

-----------------------------------------------------------------------------
(* Induction *)

\* The intervals 0 .. x are ordered by inclusion as their ends are, and inclusion of
\* finite sets is well-founded.
LEMMA LeastNatural ==
  ASSUME NEW T, T \subseteq Nat, T # {}
  PROVE  \E x \in T : \A y \in T : x <= y
<1> DEFINE F == {0 .. x : x \in T}
<1>1. F \subseteq FiniteSubsetsOf(Nat)
  <2>1. \A x \in T : IsFiniteSet(0 .. x) /\ 0 .. x \subseteq Nat
    BY FS_Interval
  <2> QED
    BY <2>1 DEF FiniteSubsetsOf
<1>2. PICK A \in F : \A B \in F : ~(<<B, A>> \in StrictSubsetOrdering(Nat))
  <2>1. F # {}
    OBVIOUS
  <2> HIDE DEF F
  <2> QED
    BY <1>1, <2>1, FS_StrictSubsetOrderingWellFounded, WFMin
<1>3. PICK x \in T : A = 0 .. x
  OBVIOUS
<1>4. ASSUME NEW y \in T, y < x PROVE FALSE
  <2>1. x \in 0 .. x /\ x \notin 0 .. y
    BY <1>4
  <2>2. 0 .. y \subseteq 0 .. x /\ 0 .. y # 0 .. x
    BY <1>4, <2>1
  <2>3. 0 .. y \in F
    OBVIOUS
  <2> QED
    BY <1>1, <1>2, <1>3, <2>2, <2>3 DEF StrictSubsetOrdering, FiniteSubsetsOf
<1> QED
  BY <1>4

\* Two functions that agree at a, and at i if they do at i - 1, agree on a .. b.
LEMMA AgreeOn ==
  ASSUME NEW a \in Nat, NEW b \in Nat, NEW f, NEW g,
         a <= b => f[a] = g[a],
         \A i \in a .. b : a < i /\ f[i - 1] = g[i - 1] => f[i] = g[i]
  PROVE  \A i \in a .. b : f[i] = g[i]
<1> DEFINE D == {i \in a .. b : f[i] # g[i]}
<1>1. SUFFICES ASSUME D # {} PROVE FALSE
  OBVIOUS
<1>2. PICK x \in D : \A y \in D : x <= y
  <2>1. D \subseteq Nat
    OBVIOUS
  <2> HIDE DEF D
  <2> QED
    BY <1>1, <2>1, LeastNatural
<1>3. x \in a .. b /\ a < x /\ f[x] # g[x] /\ x - 1 \in a .. b /\ x - 1 \notin D
  <2>1. x \in a .. b /\ f[x] # g[x]
    OBVIOUS
  <2>2. x # a
    BY <2>1
  <2>3. x - 1 \notin D
    BY <1>2, <2>1
  <2> QED
    BY <2>1, <2>2, <2>3
<1>4. f[x - 1] = g[x - 1]
  BY <1>3
<1> QED
  BY <1>3, <1>4

-----------------------------------------------------------------------------
(* Following the pointers *)

PathOf(h, nx, n) ==
  LET p[i \in 1 .. n] ==
        IF i = 1 THEN h ELSE IF p[i - 1] = Null THEN Null ELSE nx[p[i - 1]]
  IN  p

LEMMA PathIsPathOf ==
  ASSUME NEW l
  PROVE  Path(l) = PathOf(head[l], next, len[l]) /\ Path(l)' = PathOf(head'[l], next', len'[l])
BY DEF Path, PathOf

\* q is what one passes from h on, n nodes long.
Chain(q, h, nx, n) ==
  /\ q \in [1 .. n -> Nodes]
  /\ n > 0 => q[1] = h
  /\ \A i \in 1 .. n - 1 : nx[q[i]] = q[i + 1]

LEMMA ChainIsPath ==
  ASSUME NEW h, NEW nx, NEW n \in Nat, NEW q, Chain(q, h, nx, n)
  PROVE  PathOf(h, nx, n) = q
<1> DEFINE Rec(p) == [i \in 1 .. n |->
              IF i = 1 THEN h ELSE IF p[i - 1] = Null THEN Null ELSE nx[p[i - 1]]]
           p == PathOf(h, nx, n)
<1>1. q = Rec(q)
  <2>1. q = [i \in 1 .. n |-> q[i]]
    BY DEF Chain
  <2>2. ASSUME NEW i \in 1 .. n
        PROVE  q[i] = IF i = 1 THEN h ELSE IF q[i - 1] = Null THEN Null ELSE nx[q[i - 1]]
    <3>1. CASE i = 1
      BY <3>1 DEF Chain
    <3>2. CASE i # 1
      <4>1. i - 1 \in 1 .. n - 1 /\ i - 1 \in 1 .. n /\ i - 1 + 1 = i
        BY <3>2
      <4>2. q[i - 1] # Null
        BY <4>1 DEF Chain, Nodes, Null
      <4> QED
        BY <3>2, <4>1, <4>2 DEF Chain
    <3> QED
      BY <3>1, <3>2
  <2> QED
    BY <2>1, <2>2
<1>2. p = CHOOSE r : r = Rec(r)
  BY DEF PathOf
<1>3. p = Rec(p)
  <2> HIDE DEF Rec, p
  <2> QED
    BY <1>1, <1>2
<1>4. ASSUME NEW i \in 1 .. n, 1 < i, p[i - 1] = q[i - 1]
      PROVE  p[i] = q[i]
  <2>1. /\ p[i] = IF p[i - 1] = Null THEN Null ELSE nx[p[i - 1]]
        /\ q[i] = IF q[i - 1] = Null THEN Null ELSE nx[q[i - 1]]
    <3> HIDE DEF p
    <3> QED
      BY <1>1, <1>3, <1>4
  <2> HIDE DEF p
  <2> QED
    BY <1>4, <2>1
<1>5. 1 <= n => p[1] = q[1]
  <2> HIDE DEF p
  <2> QED
    BY <1>1, <1>3
<1>6. p = [i \in 1 .. n |-> p[i]] /\ q = [i \in 1 .. n |-> q[i]]
  <2> HIDE DEF p
  <2> QED
    BY <1>3 DEF Chain
<1> QED
  <2> HIDE DEF p
  <2>1. \A i \in 1 .. n : p[i] = q[i]
    BY <1>4, <1>5, AgreeOn
  <2>2. p = q
    BY <1>6, <2>1
  <2> QED
    BY <2>2 DEF p

-----------------------------------------------------------------------------
(* The inductive invariant *)

\* q is a list's nodes: n of the u that were pushed, none twice, from h to tl.
IsListing(q, h, tl, nx, n, u) ==
  /\ q \in [1 .. n -> 1 .. u] /\ n <= u
  /\ n = 0 => h = Null
  /\ n > 0 => q[1] = h /\ q[n] = tl /\ nx[tl] = Null
  /\ \A i \in 1 .. n - 1 : nx[q[i]] = q[i + 1]
  /\ \A i, j \in 1 .. n : q[i] = q[j] => i = j

Listed(l)   == IsListing(Path(l), head[l], tail[l], next, len[l], used)
Apart(l, m) == \A i \in 1 .. len[l], j \in 1 .. len[m] : Path(l)[i] # Path(m)[j]

\* Besides WellFormed: the nodes of a list have been pushed, so a new node is none of
\* them and the list is not longer than there are nodes.
ListInv ==
  /\ TypeOK
  /\ \A l \in Lists : Listed(l)
  /\ \A l, m \in Lists : l # m => Apart(l, m)

LEMMA ListingIsPath ==
  ASSUME NEW q, NEW h, NEW tl, NEW nx, NEW n \in Nat, NEW u \in 0 .. MaxNodes,
         IsListing(q, h, tl, nx, n, u)
  PROVE  PathOf(h, nx, n) = q
<1>1. 1 .. u \subseteq Nodes
  BY ListBounds DEF Nodes
<1>2. Chain(q, h, nx, n)
  BY <1>1 DEF IsListing, Chain
<1> QED
  BY <1>2, ChainIsPath

\* What the paths of a list are good for.
LEMMA PathFacts ==
  ASSUME ListInv, NEW l \in Lists
  PROVE  /\ len[l] \in Nat /\ used \in Nat /\ len[l] <= used /\ used <= MaxNodes
         /\ MaxNodes \in Nat
         /\ Path(l) \in [1 .. len[l] -> 1 .. used]
         /\ \A i \in 1 .. len[l] : Path(l)[i] \in Nodes /\ Path(l)[i] # Null
         /\ len[l] = 0 => head[l] = Null
         /\ len[l] > 0 => /\ Path(l)[1] = head[l] /\ Path(l)[len[l]] = tail[l]
                          /\ next[tail[l]] = Null /\ head[l] # Null /\ head[l] \in Nodes
                          /\ tail[l] # Null /\ tail[l] \in Nodes
         /\ \A i \in 1 .. len[l] - 1 : next[Path(l)[i]] = Path(l)[i + 1]
         /\ \A i, j \in 1 .. len[l] : Path(l)[i] = Path(l)[j] => i = j
<1>1. Listed(l) /\ TypeOK
  BY DEF ListInv
<1>2. \A i \in 1 .. len[l] : Path(l)[i] \in Nodes /\ Path(l)[i] # Null
  <2> TAKE i \in 1 .. len[l]
  <2>1. Path(l)[i] \in 1 .. used /\ used \in 0 .. MaxNodes
    BY <1>1 DEF Listed, IsListing, TypeOK
  <2> QED
    BY <2>1, ListBounds DEF Nodes, Null
<1>3. len[l] > 0 => 1 \in 1 .. len[l] /\ len[l] \in 1 .. len[l]
  BY <1>1 DEF TypeOK
<1> QED
  BY <1>1, <1>2, <1>3, ListBounds DEF Listed, IsListing, TypeOK

LEMMA ContentsFacts ==
  ASSUME ListInv, NEW l \in Lists
  PROVE  /\ Contents(l) = [i \in 1 .. len[l] |-> data[Path(l)[i]]]
         /\ Contents(l) \in Seq(Items \cup {Null}) /\ Len(Contents(l)) = len[l]
<1>1. Contents(l) = [i \in 1 .. len[l] |-> data[Path(l)[i]]]
  BY PathFacts DEF Contents, ItemAt
<1>2. [i \in 1 .. len[l] |-> data[Path(l)[i]]] \in [1 .. len[l] -> Items \cup {Null}]
  BY PathFacts DEF ListInv, TypeOK
<1>3. len[l] \in Nat
  BY PathFacts
<1> QED
  BY <1>1, <1>2, <1>3

\* A call on l that leaves it the nodes q: it reaches what it changes from l, and takes
\* new nodes for the rest.
OthersSame(l) ==
  \A m \in Lists \ {l} : head'[m] = head[m] /\ tail'[m] = tail[m] /\ len'[m] = len[m]
Changes(l, q) ==
  /\ TypeOK' /\ used <= used'
  /\ IsListing(q, head'[l], tail'[l], next', len'[l], used')
  /\ OthersSame(l)
  /\ \A i \in 1 .. len'[l] : q[i] > used \/ \E j \in 1 .. len[l] : q[i] = Path(l)[j]
  /\ \A n \in Nodes : \/ next'[n] = next[n] /\ data'[n] = data[n]
                      \/ n > used \/ \E j \in 1 .. len[l] : n = Path(l)[j]

\* Such a call leaves the other lists what they are.
LEMMA OneListChanges ==
  ASSUME ListInv, NEW l \in Lists, NEW q, Changes(l, q)
  PROVE  /\ ListInv' /\ Path(l)' = q
         /\ \A m \in Lists \ {l} : Path(m)' = Path(m) /\ Contents(m)' = Contents(m)
<1> USE DEF Changes, OthersSame
<1>1. used' \in 0 .. MaxNodes /\ \A m \in Lists : len'[m] \in Nat
  BY DEF TypeOK
<1>2. Path(l)' = q
  BY <1>1, PathIsPathOf, ListingIsPath
<1>3. ASSUME NEW m \in Lists \ {l}
      PROVE  /\ Path(m)' = Path(m) /\ Listed(m)'
             /\ \A i \in 1 .. len[m] : data'[Path(m)[i]] = data[Path(m)[i]]
  <2>1. /\ Path(m) \in [1 .. len[m] -> 1 .. used] /\ len[m] \in Nat
        /\ \A i \in 1 .. len[m] : Path(m)[i] \in Nodes
        /\ used \in Nat /\ used' \in Nat
    BY <1>1, PathFacts
  <2>2. \A i \in 1 .. len[m] : /\ next'[Path(m)[i]] = next[Path(m)[i]]
                               /\ data'[Path(m)[i]] = data[Path(m)[i]]
    <3> TAKE i \in 1 .. len[m]
    <3>1. Path(m)[i] \in Nodes /\ ~(Path(m)[i] > used)
      BY <2>1
    <3>2. \A j \in 1 .. len[l] : Path(m)[i] # Path(l)[j]
      BY DEF ListInv, Apart
    <3> QED
      BY <3>1, <3>2
  <2>3. len[m] > 0 => next'[tail[m]] = Null
    <3>1. len[m] > 0 => len[m] \in 1 .. len[m] /\ Path(m)[len[m]] = tail[m] /\ next[tail[m]] = Null
      BY <2>1, PathFacts
    <3> QED
      BY <2>2, <3>1
  <2>4. \A i \in 1 .. len[m] - 1 : next'[Path(m)[i]] = Path(m)[i + 1]
    <3> TAKE i \in 1 .. len[m] - 1
    <3>1. i \in 1 .. len[m]
      BY <2>1
    <3>2. next[Path(m)[i]] = Path(m)[i + 1]
      BY PathFacts
    <3> QED
      BY <2>2, <3>1, <3>2
  <2>5. IsListing(Path(m), head'[m], tail'[m], next', len'[m], used')
    <3>1. Path(m) \in [1 .. len[m] -> 1 .. used'] /\ len[m] <= used'
      BY <2>1, PathFacts
    <3>2. head'[m] = head[m] /\ tail'[m] = tail[m] /\ len'[m] = len[m]
      OBVIOUS
    <3>3. /\ len[m] = 0 => head[m] = Null
          /\ len[m] > 0 => Path(m)[1] = head[m] /\ Path(m)[len[m]] = tail[m]
          /\ \A i, j \in 1 .. len[m] : Path(m)[i] = Path(m)[j] => i = j
      BY PathFacts
    <3> QED
      BY <2>3, <2>4, <3>1, <3>2, <3>3 DEF IsListing
  <2>6. Path(m)' = Path(m)
    BY <1>1, <2>5, PathIsPathOf, ListingIsPath
  <2> QED
    BY <2>2, <2>5, <2>6 DEF Listed
<1>4. \A m \in Lists : Listed(m)'
  BY <1>2, <1>3 DEF Listed
<1>5. ASSUME NEW m \in Lists \ {l}, NEW i \in 1 .. len'[l], NEW j \in 1 .. len[m]
      PROVE  q[i] # Path(m)[j]
  <2>1. Path(m)[j] \in 1 .. used /\ used \in Nat
    BY PathFacts
  <2>2. \A k \in 1 .. len[l] : Path(m)[j] # Path(l)[k]
    BY DEF ListInv, Apart
  <2> QED
    BY <2>1, <2>2
<1>6. \A k, m \in Lists : k # m => Apart(k, m)'
  <2> SUFFICES ASSUME NEW k \in Lists, NEW m \in Lists, k # m,
                      NEW i \in 1 .. len'[k], NEW j \in 1 .. len'[m]
               PROVE  Path(k)'[i] # Path(m)'[j]
    BY DEF Apart
  <2>1. CASE k = l
    BY <1>2, <1>3, <1>5, <2>1
  <2>2. CASE m = l
    BY <1>2, <1>3, <1>5, <2>2
  <2>3. CASE k # l /\ m # l
    BY <1>3, <2>3 DEF ListInv, Apart
  <2> QED
    BY <2>1, <2>2, <2>3
<1>7. ListInv'
  BY <1>4, <1>6 DEF ListInv
<1>8. ASSUME NEW m \in Lists \ {l} PROVE Contents(m)' = Contents(m)
  <2>1. Contents(m) = [i \in 1 .. len[m] |-> data[Path(m)[i]]]
    BY ContentsFacts
  <2>2. Contents(m)' = [i \in 1 .. len'[m] |-> data'[Path(m)'[i]]]
    <3>1. \A i \in 1 .. len[m] : Path(m)[i] # Null
      BY PathFacts
    <3> QED
      BY <1>3, <3>1 DEF Contents, ItemAt
  <2> QED
    BY <1>3, <2>1, <2>2
<1> QED
  BY <1>2, <1>3, <1>7, <1>8

LEMMA ListInit == Init => ListInv
<1> SUFFICES ASSUME Init PROVE ListInv
  OBVIOUS
<1>1. TypeOK
  BY ListBounds DEF Init, TypeOK, Nodes, Items, Null, Calls
<1>2. ASSUME NEW l \in Lists PROVE Listed(l)
  <2>1. len[l] = 0 /\ head[l] = Null /\ used = 0
    BY DEF Init
  <2> DEFINE q == [i \in 1 .. 0 |-> i]
  <2>2. q \in [1 .. 0 -> 1 .. 0] /\ 1 .. 0 = {} /\ 1 .. 0 - 1 = {}
    OBVIOUS
  <2>3. IsListing(q, head[l], tail[l], next, 0, used)
    BY <2>1, <2>2 DEF IsListing
  <2>4. Path(l) = q
    BY <2>1, <2>3, ListingIsPath, PathIsPathOf, ListBounds
  <2> QED
    BY <2>1, <2>3, <2>4 DEF Listed
<1>3. \A l, m \in Lists : Apart(l, m)
  BY DEF Init, Apart
<1> QED
  BY <1>1, <1>2, <1>3 DEF ListInv

\* s are the items of l afterwards.
LEMMA OneListBecomes ==
  ASSUME ListInv, NEW l \in Lists, NEW q, Changes(l, q),
         NEW s \in Seq(Items \cup {Null}), Len(s) = len'[l],
         \A i \in 1 .. len'[l] : s[i] = data'[q[i]]
  PROVE  ListInv' /\ Seqs!Becomes(l, s)
<1>1. /\ ListInv' /\ Path(l)' = q
      /\ \A m \in Lists \ {l} : Contents(m)' = Contents(m)
  BY OneListChanges
<1>2. Contents(l)' = s
  <2>1. \A i \in 1 .. len'[l] : q[i] # Null
    <3> TAKE i \in 1 .. len'[l]
    <3>1. q[i] \in 1 .. used'
      BY DEF Changes, IsListing
    <3> QED
      BY <3>1 DEF Null
  <2>2. Contents(l)' = [i \in 1 .. len'[l] |-> data'[q[i]]]
    BY <1>1, <2>1 DEF Contents, ItemAt
  <2>3. s = [i \in 1 .. len'[l] |-> s[i]]
    OBVIOUS
  <2> QED
    BY <2>2, <2>3
<1> DEFINE S == [m \in Lists |-> Contents(m)]
<1>3. [m \in Lists |-> Contents(m)'] = [S EXCEPT ![l] = s]
  <2> DEFINE T == [m \in Lists |-> Contents(m)']
  <2>1. \A m \in Lists : T[m] = IF m = l THEN s ELSE S[m]
    BY <1>1, <1>2
  <2>2. [S EXCEPT ![l] = s] = [m \in Lists |-> IF m = l THEN s ELSE S[m]]
    OBVIOUS
  <2>3. T = [m \in Lists |-> T[m]]
    OBVIOUS
  <2>4. [m \in Lists |-> T[m]] = [m \in Lists |-> IF m = l THEN s ELSE S[m]]
    <3> HIDE DEF T, S
    <3> QED
      BY <2>1
  <2> HIDE DEF T, S
  <2>5. T = [S EXCEPT ![l] = s]
    BY <2>2, <2>3, <2>4
  <2> QED
    BY <2>5 DEF T
<1> QED
  BY <1>1, <1>3 DEF Seqs!Becomes

-----------------------------------------------------------------------------
(* Sequences *)

LEMMA InsertAtIs ==
  ASSUME NEW c, NEW i, NEW d
  PROVE  Seqs!InsertAt(c, i, d) = SubSeq(c, 1, i - 1) \o <<d>> \o SubSeq(c, i, Len(c))
BY DEF Seqs!InsertAt

\* d goes behind the k-th element.
LEMMA InsertAtFacts ==
  ASSUME NEW T, NEW c \in Seq(T), NEW d \in T, NEW k \in 0 .. Len(c),
         NEW r, r = Seqs!InsertAt(c, k + 1, d)
  PROVE  /\ r \in Seq(T) /\ Len(r) = Len(c) + 1
         /\ \A i \in 1 .. k : r[i] = c[i]
         /\ r[k + 1] = d
         /\ \A i \in k + 2 .. Len(c) + 1 : r[i] = c[i - 1]
<1> DEFINE a == SubSeq(c, 1, (k + 1) - 1)
           b == SubSeq(c, k + 1, Len(c))
           s == (a \o <<d>>) \o b
<1>1. Len(c) \in Nat
  OBVIOUS
<1>2. a \in Seq(T) /\ Len(a) = k /\ \A i \in 1 .. k : a[i] = c[i]
  <2>1. (k + 1) - 1 = k /\ \A i \in 1 .. k : c[i] \in T /\ 1 + i - 1 = i
    OBVIOUS
  <2> QED
    BY <2>1, SubSeqProperties
<1>3. /\ b \in Seq(T) /\ Len(b) = Len(c) - k
      /\ \A i \in 1 .. Len(c) - k : b[i] = c[k + i]
  <2>1. \A i \in k + 1 .. Len(c) : c[i] \in T
    OBVIOUS
  <2>2. \A i \in 1 .. Len(c) - (k + 1) + 1 : b[i] = c[(k + 1) + i - 1]
    BY <2>1, SubSeqProperties
  <2> QED
    BY <2>1, <2>2, SubSeqProperties
<1> HIDE DEF a, b
<1>4. /\ a \o <<d>> \in Seq(T) /\ Len(a \o <<d>>) = k + 1
      /\ \A i \in 1 .. k : (a \o <<d>>)[i] = c[i]
      /\ (a \o <<d>>)[k + 1] = d
  BY <1>2
<1>5. /\ s \in Seq(T) /\ Len(s) = Len(c) + 1
      /\ \A i \in 1 .. k + 1 : s[i] = (a \o <<d>>)[i]
      /\ \A i \in k + 2 .. Len(c) + 1 : s[i] = b[i - (k + 1)] /\ i - (k + 1) \in 1 .. Len(c) - k
  BY <1>1, <1>3, <1>4, ConcatProperties
<1>6. \A i \in k + 2 .. Len(c) + 1 : k + (i - (k + 1)) = i - 1
  BY <1>1
<1>7. s = Seqs!InsertAt(c, k + 1, d)
  BY InsertAtIs DEF a, b
<1>8. /\ s \in Seq(T) /\ Len(s) = Len(c) + 1
      /\ \A i \in 1 .. k : s[i] = c[i]
      /\ s[k + 1] = d
      /\ \A i \in k + 2 .. Len(c) + 1 : s[i] = c[i - 1]
  <2>1. k + 1 \in 1 .. k + 1 /\ \A i \in 1 .. k : i \in 1 .. k + 1
    OBVIOUS
  <2> HIDE DEF s
  <2>2. \A i \in k + 2 .. Len(c) + 1 : s[i] = c[i - 1]
    BY <1>3, <1>5, <1>6
  <2> QED
    BY <1>4, <1>5, <2>1, <2>2
<1> HIDE DEF s
<1> QED
  BY <1>7, <1>8

\* The k-th element goes.
LEMMA RemoveAtFacts ==
  ASSUME NEW T, NEW c \in Seq(T), NEW k \in 1 .. Len(c),
         NEW r, r = Seqs!RemoveAt(c, k)
  PROVE  /\ r \in Seq(T) /\ Len(r) = Len(c) - 1
         /\ \A i \in 1 .. k - 1 : r[i] = c[i]
         /\ \A i \in k .. Len(c) - 1 : r[i] = c[i + 1]
<1> DEFINE a == SubSeq(c, 1, k - 1)
           b == SubSeq(c, k + 1, Len(c))
<1>1. Len(c) \in Nat
  OBVIOUS
<1>2. a \in Seq(T) /\ Len(a) = k - 1 /\ \A i \in 1 .. k - 1 : a[i] = c[i]
  <2>1. \A i \in 1 .. k - 1 : c[i] \in T /\ 1 + i - 1 = i
    OBVIOUS
  <2> QED
    BY <2>1, SubSeqProperties
<1>3. /\ b \in Seq(T) /\ Len(b) = Len(c) - k
      /\ \A i \in 1 .. Len(c) - k : b[i] = c[k + i]
  <2>1. \A i \in k + 1 .. Len(c) : c[i] \in T
    OBVIOUS
  <2>2. \A i \in 1 .. Len(c) - (k + 1) + 1 : b[i] = c[(k + 1) + i - 1]
    BY <2>1, SubSeqProperties
  <2> QED
    BY <2>1, <2>2, SubSeqProperties
<1>4. r = a \o b
  BY DEF Seqs!RemoveAt
<1> HIDE DEF a, b
<1>5. /\ r \in Seq(T) /\ Len(r) = Len(c) - 1
      /\ \A i \in 1 .. k - 1 : r[i] = a[i]
      /\ \A i \in k .. Len(c) - 1 : r[i] = b[i - (k - 1)] /\ i - (k - 1) \in 1 .. Len(c) - k
  <2>1. a \in Seq(T) /\ b \in Seq(T) /\ Len(a) = k - 1 /\ Len(a) + Len(b) = Len(c) - 1
    BY <1>1, <1>2, <1>3
  <2>2. r \in Seq(T) /\ Len(r) = Len(a) + Len(b)
    BY <1>4, <2>1, ConcatProperties
  <2>3. \A i \in 1 .. Len(a) + Len(b) : r[i] = IF i <= Len(a) THEN a[i] ELSE b[i - Len(a)]
    BY <1>4, <2>1, ConcatProperties
  <2>4. \A i \in 1 .. Len(c) - 1 : r[i] = IF i <= k - 1 THEN a[i] ELSE b[i - (k - 1)]
    BY <2>1, <2>3
  <2>5. \A i \in 1 .. k - 1 : i \in 1 .. Len(c) - 1 /\ i <= k - 1
    BY <1>1
  <2>6. \A i \in k .. Len(c) - 1 : /\ i \in 1 .. Len(c) - 1 /\ ~(i <= k - 1)
                                   /\ i - (k - 1) \in 1 .. Len(c) - k
    BY <1>1
  <2> QED
    BY <2>1, <2>2, <2>4, <2>5, <2>6
<1>6. \A i \in k .. Len(c) - 1 : k + (i - (k - 1)) = i + 1
  BY <1>1
<1>7. \A i \in k .. Len(c) - 1 : r[i] = c[i + 1]
  BY <1>3, <1>5, <1>6
<1> QED
  BY <1>2, <1>5, <1>7

-----------------------------------------------------------------------------
(* What a call does to the nodes of its list *)

\* A new node with d goes behind the k-th of l, or before the first.
Inserted(l, k, d) ==
  /\ used < MaxNodes /\ used' = used + 1
  /\ data' = [data EXCEPT ![used + 1] = d]
  /\ next'[used + 1] = IF k = len[l] THEN Null ELSE Path(l)[k + 1]
  /\ k > 0 => next'[Path(l)[k]] = used + 1
  /\ \A n \in Nodes : n = used + 1 \/ (k > 0 /\ n = Path(l)[k]) \/ next'[n] = next[n]
  /\ head'[l] = IF k = 0 THEN used + 1 ELSE head[l]
  /\ tail'[l] = IF k = len[l] THEN used + 1 ELSE tail[l]
  /\ len'[l] = len[l] + 1
  /\ OthersSame(l)

LEMMA InsertStep ==
  ASSUME ListInv, TypeOK', NEW l \in Lists, NEW d \in Items, NEW k \in 0 .. len[l],
         Inserted(l, k, d)
  PROVE  ListInv' /\ Seqs!Becomes(l, Seqs!InsertAt(Contents(l), k + 1, d))
<1> DEFINE p == Path(l)
           n == len[l]
           u == used
           q == [i \in 1 .. n + 1 |->
                   IF i <= k THEN p[i] ELSE IF i = k + 1 THEN u + 1 ELSE p[i - 1]]
           s == Seqs!InsertAt(Contents(l), k + 1, d)
<1>1. /\ n \in Nat /\ u \in Nat /\ n <= u /\ k \in 0 .. n /\ u + 1 \in Nodes
      /\ p \in [1 .. n -> 1 .. u] /\ 1 .. u \subseteq Nodes
      /\ \A i \in 1 .. n - 1 : next[p[i]] = p[i + 1]
      /\ \A i, j \in 1 .. n : p[i] = p[j] => i = j
      /\ n > 0 => p[1] = head[l] /\ p[n] = tail[l] /\ next[tail[l]] = Null
  BY PathFacts DEF Inserted, Nodes
<1>2. /\ used' = u + 1 /\ len'[l] = n + 1 /\ OthersSame(l)
      /\ next'[u + 1] = IF k = n THEN Null ELSE p[k + 1]
      /\ k > 0 => next'[p[k]] = u + 1
      /\ \A m \in 1 .. u : (k > 0 /\ m = p[k]) \/ next'[m] = next[m]
      /\ head'[l] = IF k = 0 THEN u + 1 ELSE head[l]
      /\ tail'[l] = IF k = n THEN u + 1 ELSE tail[l]
  BY <1>1 DEF Inserted
<1>3. data'[u + 1] = d /\ \A m \in 1 .. u : data'[m] = data[m]
  BY <1>1 DEF Inserted, ListInv, TypeOK
<1>4. /\ q \in [1 .. n + 1 -> 1 .. u + 1] /\ q[k + 1] = u + 1
      /\ \A i \in 1 .. k : q[i] = p[i] /\ i \in 1 .. n
      /\ \A i \in k + 2 .. n + 1 : q[i] = p[i - 1] /\ i - 1 \in 1 .. n
  <2>1. ASSUME NEW i \in 1 .. n + 1 PROVE q[i] \in 1 .. u + 1
    <3>1. i <= k => i \in 1 .. n
      BY <1>1
    <3>2. i > k + 1 => i - 1 \in 1 .. n
      BY <1>1
    <3>3. i \in Nat
      BY <1>1
    <3> HIDE DEF p, n, u
    <3> QED
      BY <1>1, <3>1, <3>2, <3>3
  <2>2. \A i \in 1 .. k : i \in 1 .. n /\ i \in 1 .. n + 1
    BY <1>1
  <2>3. \A i \in k + 2 .. n + 1 : i \in 1 .. n + 1 /\ i - 1 \in 1 .. n /\ ~(i <= k) /\ i # k + 1
    BY <1>1
  <2>4. k + 1 \in 1 .. n + 1 /\ ~(k + 1 <= k)
    BY <1>1
  <2> HIDE DEF p, n, u
  <2>5. q \in [1 .. n + 1 -> 1 .. u + 1]
    BY <2>1
  <2>6. q[k + 1] = u + 1
    BY <2>4
  <2>7. \A i \in 1 .. k : q[i] = p[i]
    BY <1>1, <2>2
  <2>8. \A i \in k + 2 .. n + 1 : q[i] = p[i - 1]
    BY <2>3
  <2> QED
    BY <2>2, <2>3, <2>5, <2>6, <2>7, <2>8
<1> HIDE DEF p, n, u, q
<1>5. \A i \in 1 .. n : next'[q[i]] = q[i + 1]
  <2> TAKE i \in 1 .. n
  <2>1. CASE i < k
    <3>1. i \in 1 .. n - 1 /\ i # k /\ k \in 1 .. n /\ k > 0 /\ i \in 1 .. k /\ i + 1 \in 1 .. k
      BY <1>1, <2>1
    <3>2. q[i] = p[i] /\ q[i + 1] = p[i + 1]
      BY <1>4, <3>1
    <3>3. p[i] \in 1 .. u /\ p[i] # p[k]
      BY <1>1, <3>1
    <3> QED
      BY <1>1, <1>2, <3>1, <3>2, <3>3
  <2>2. CASE i = k
    <3>1. k > 0 /\ k \in 1 .. k
      BY <1>1, <2>2
    <3>2. q[k] = p[k] /\ q[k + 1] = u + 1
      BY <1>4, <3>1
    <3> QED
      BY <1>2, <2>2, <3>1, <3>2
  <2>3. CASE i = k + 1
    <3>1. i + 1 \in k + 2 .. n + 1 /\ k # n /\ i + 1 - 1 = k + 1
      BY <1>1, <2>3
    <3> QED
      BY <1>2, <1>4, <2>3, <3>1
  <2>4. CASE i > k + 1
    <3>1. /\ q[i] = p[i - 1] /\ q[i + 1] = p[i] /\ i - 1 \in 1 .. n - 1 /\ i - 1 # k
          /\ i - 1 \in 1 .. n /\ i - 1 + 1 = i
      <4>1. i \in k + 2 .. n + 1 /\ i + 1 \in k + 2 .. n + 1 /\ i + 1 - 1 = i
        BY <1>1, <2>4
      <4> QED
        BY <1>1, <1>4, <2>4, <4>1
    <3>2. p[i - 1] \in 1 .. u /\ (k > 0 => p[i - 1] # p[k])
      BY <1>1, <3>1
    <3>3. next'[p[i - 1]] = next[p[i - 1]]
      BY <1>2, <3>2
    <3>4. next[p[i - 1]] = p[i - 1 + 1]
      BY <1>1, <3>1
    <3> QED
      BY <3>1, <3>3, <3>4
  <2>5. i < k \/ i = k \/ i = k + 1 \/ i > k + 1
    BY <1>1
  <2> QED
    BY <2>1, <2>2, <2>3, <2>4, <2>5
<1>6. \A i, j \in 1 .. n + 1 : q[i] = q[j] => i = j
  <2> DEFINE m(i) == IF i <= k THEN i ELSE i - 1
  <2>1. \A i \in 1 .. n + 1 : i # k + 1 => m(i) \in 1 .. n /\ q[i] = p[m(i)]
    <3> TAKE i \in 1 .. n + 1
    <3> HAVE i # k + 1
    <3>1. i \in 1 .. k \/ i \in k + 2 .. n + 1
      BY <1>1
    <3> QED
      BY <1>1, <1>4, <3>1
  <2>2. \A j \in 1 .. n : p[j] # u + 1
    <3> TAKE j \in 1 .. n
    <3>1. p[j] \in 1 .. u
      BY <1>1
    <3> QED
      BY <1>1, <3>1
  <2> TAKE i \in 1 .. n + 1, j \in 1 .. n + 1
  <2> HAVE q[i] = q[j]
  <2>3. i = k + 1 <=> j = k + 1
    <3> HIDE DEF m
    <3> QED
      BY <1>4, <2>1, <2>2
  <2>4. i # k + 1 => m(i) = m(j)
    <3> HIDE DEF m
    <3> QED
      BY <1>1, <2>1, <2>3
  <2> QED
    BY <1>1, <2>3, <2>4
<1>7. q[1] = head'[l] /\ q[n + 1] = tail'[l] /\ next'[tail'[l]] = Null
  <2>1. q[1] = head'[l]
    BY <1>1, <1>2, <1>4
  <2>2. CASE k = n
    BY <1>1, <1>2, <1>4, <2>2
  <2>3. CASE k # n
    <3>1. n + 1 \in k + 2 .. n + 1 /\ n + 1 - 1 = n /\ n \in 1 .. n /\ n > 0 /\ (k > 0 => k \in 1 .. n)
      BY <1>1, <2>3
    <3>2. q[n + 1] = p[n] /\ p[n] \in 1 .. u /\ (k > 0 => p[n] # p[k])
      BY <1>1, <1>4, <2>3, <3>1
    <3> QED
      BY <1>1, <1>2, <2>1, <2>3, <3>1, <3>2
  <2> QED
    BY <2>1, <2>2, <2>3
<1>8. Changes(l, q)
  <2>1. IsListing(q, head'[l], tail'[l], next', len'[l], used')
    BY <1>1, <1>2, <1>4, <1>5, <1>6, <1>7 DEF IsListing
  <2>2. \A i \in 1 .. len'[l] : q[i] > u \/ \E j \in 1 .. n : q[i] = p[j]
    <3> TAKE i \in 1 .. len'[l]
    <3>1. i = k + 1 \/ i \in 1 .. k \/ i \in k + 2 .. n + 1
      BY <1>1, <1>2
    <3> QED
      BY <1>1, <1>4, <3>1
  <2>3. \A m \in Nodes : \/ next'[m] = next[m] /\ data'[m] = data[m]
                         \/ m > u \/ \E j \in 1 .. n : m = p[j]
    <3> TAKE m \in Nodes
    <3>1. m > u \/ m \in 1 .. u
      BY <1>1 DEF Nodes
    <3> QED
      BY <1>1, <1>2, <1>3, <3>1
  <2> QED
    BY <1>1, <1>2, <2>1, <2>2, <2>3 DEF Changes, u, n, p
<1>9. /\ s \in Seq(Items \cup {Null}) /\ Len(s) = n + 1
      /\ \A i \in 1 .. n + 1 : s[i] = data'[q[i]]
  <2> DEFINE c == Contents(l)
  <2>1. /\ c \in Seq(Items \cup {Null}) /\ Len(c) = n
        /\ \A i \in 1 .. n : c[i] = data[p[i]]
    BY ContentsFacts DEF n, p
  <2>2. \A i \in 1 .. n : data'[p[i]] = c[i]
    BY <1>1, <1>3, <2>1
  <2> HIDE DEF c
  <2>3. /\ s \in Seq(Items \cup {Null}) /\ Len(s) = n + 1
        /\ \A i \in 1 .. k : s[i] = c[i]
        /\ s[k + 1] = d
        /\ \A i \in k + 2 .. n + 1 : s[i] = c[i - 1]
    <3>1. c \in Seq(Items \cup {Null}) /\ d \in Items \cup {Null} /\ k \in 0 .. Len(c)
      BY <1>1, <2>1
    <3>2. s = Seqs!InsertAt(c, k + 1, d)
      BY DEF c
    <3> DEFINE T == Items \cup {Null}
    <3>3. c \in Seq(T) /\ d \in T /\ s \in {s}
      BY <3>1
    <3> HIDE DEF s, T
    <3>4. s \in Seq(T) /\ Len(s) = Len(c) + 1
      BY <3>1, <3>2, <3>3, InsertAtFacts
    <3>5. s[k + 1] = d
      BY <3>1, <3>2, <3>3, InsertAtFacts
    <3>6. \A i \in 1 .. k : s[i] = c[i]
      BY <3>1, <3>2, <3>3, InsertAtFacts
    <3>7. \A i \in k + 2 .. Len(c) + 1 : s[i] = c[i - 1]
      BY <3>1, <3>2, <3>3, InsertAtFacts
    <3> QED
      BY <2>1, <3>4, <3>5, <3>6, <3>7 DEF T
  <2>4. ASSUME NEW i \in 1 .. n + 1 PROVE s[i] = data'[q[i]]
    <3>1. i = k + 1 \/ i \in 1 .. k \/ i \in k + 2 .. n + 1
      BY <1>1
    <3> HIDE DEF s
    <3> QED
      BY <1>3, <1>4, <2>2, <2>3, <3>1
  <2> QED
    BY <2>3, <2>4
<1> QED
  BY <1>2, <1>8, <1>9, OneListBecomes

\* The k-th node of l goes.
Removed(l, k) ==
  /\ UNCHANGED <<used, data>>
  /\ len'[l] = len[l] - 1
  /\ head'[l] = IF k > 1 THEN head[l] ELSE IF len[l] = 1 THEN Null ELSE Path(l)[2]
  /\ len[l] > 1 => tail'[l] = IF k = len[l] THEN Path(l)[k - 1] ELSE tail[l]
  /\ k > 1 => next'[Path(l)[k - 1]] = IF k = len[l] THEN Null ELSE Path(l)[k + 1]
  /\ \A m \in Nodes : (k > 1 /\ m = Path(l)[k - 1]) \/ next'[m] = next[m]
  /\ OthersSame(l)

LEMMA RemoveStep ==
  ASSUME ListInv, TypeOK', NEW l \in Lists, NEW k \in 1 .. len[l], Removed(l, k)
  PROVE  ListInv' /\ Seqs!Becomes(l, Seqs!RemoveAt(Contents(l), k))
<1> DEFINE p == Path(l)
           n == len[l]
           u == used
           q == [i \in 1 .. n - 1 |-> IF i < k THEN p[i] ELSE p[i + 1]]
           s == Seqs!RemoveAt(Contents(l), k)
<1>1. /\ n \in Nat /\ u \in Nat /\ n <= u /\ k \in 1 .. n
      /\ p \in [1 .. n -> 1 .. u] /\ 1 .. u \subseteq Nodes
      /\ \A i \in 1 .. n - 1 : next[p[i]] = p[i + 1]
      /\ \A i, j \in 1 .. n : p[i] = p[j] => i = j
      /\ n > 0 => p[1] = head[l] /\ p[n] = tail[l] /\ next[tail[l]] = Null
  <2>1. u \in Nat /\ u <= MaxNodes /\ MaxNodes \in Nat
    BY PathFacts
  <2>2. 1 .. u \subseteq Nodes
    BY <2>1 DEF Nodes
  <2> QED
    BY <2>2, PathFacts
<1>2. /\ used' = u /\ data' = data /\ len'[l] = n - 1 /\ OthersSame(l)
      /\ head'[l] = IF k > 1 THEN head[l] ELSE IF n = 1 THEN Null ELSE p[2]
      /\ n > 1 => tail'[l] = IF k = n THEN p[k - 1] ELSE tail[l]
      /\ k > 1 => next'[p[k - 1]] = IF k = n THEN Null ELSE p[k + 1]
      /\ \A m \in 1 .. u : (k > 1 /\ m = p[k - 1]) \/ next'[m] = next[m]
  BY <1>1 DEF Removed
<1>3. /\ q \in [1 .. n - 1 -> 1 .. u]
      /\ \A i \in 1 .. k - 1 : q[i] = p[i] /\ i \in 1 .. n
      /\ \A i \in k .. n - 1 : q[i] = p[i + 1] /\ i + 1 \in 1 .. n
  <2>1. ASSUME NEW i \in 1 .. n - 1 PROVE q[i] \in 1 .. u
    <3>1. i \in 1 .. n /\ i + 1 \in 1 .. n
      BY <1>1
    <3> HIDE DEF p, n, u
    <3> QED
      BY <1>1, <3>1
  <2>2. \A i \in 1 .. k - 1 : i \in 1 .. n /\ i \in 1 .. n - 1 /\ i < k
    BY <1>1
  <2>3. \A i \in k .. n - 1 : i \in 1 .. n - 1 /\ i + 1 \in 1 .. n /\ ~(i < k)
    BY <1>1
  <2> HIDE DEF p, n, u
  <2>4. q \in [1 .. n - 1 -> 1 .. u]
    BY <2>1
  <2>5. \A i \in 1 .. k - 1 : q[i] = p[i]
    BY <2>2
  <2>6. \A i \in k .. n - 1 : q[i] = p[i + 1]
    BY <2>3
  <2> QED
    BY <2>2, <2>3, <2>4, <2>5, <2>6
<1> HIDE DEF p, n, u, q
<1>4. \A i \in 1 .. n - 2 : next'[q[i]] = q[i + 1]
  <2> TAKE i \in 1 .. n - 2
  <2>1. CASE i < k - 1
    <3>1. /\ i \in 1 .. n - 1 /\ i # k - 1 /\ k - 1 \in 1 .. n /\ i \in 1 .. k - 1
          /\ i + 1 \in 1 .. k - 1 /\ i \in 1 .. n
      BY <1>1, <2>1
    <3>2. q[i] = p[i] /\ q[i + 1] = p[i + 1]
      BY <1>3, <3>1
    <3>3. p[i] \in 1 .. u /\ p[i] # p[k - 1]
      BY <1>1, <3>1
    <3>4. next'[p[i]] = next[p[i]] /\ next[p[i]] = p[i + 1]
      BY <1>1, <1>2, <3>1, <3>3
    <3> QED
      BY <3>2, <3>4
  <2>2. CASE i = k - 1
    <3>1. i \in 1 .. k - 1 /\ i + 1 \in k .. n - 1 /\ k > 1 /\ k # n /\ (i + 1) + 1 = k + 1
      BY <1>1, <2>2
    <3>2. q[i] = p[k - 1] /\ q[i + 1] = p[k + 1]
      BY <1>3, <2>2, <3>1
    <3> QED
      BY <1>2, <3>1, <3>2
  <2>3. CASE i > k - 1
    <3>1. /\ i \in k .. n - 1 /\ i + 1 \in k .. n - 1 /\ i + 1 \in 1 .. n - 1 /\ i + 1 \in 1 .. n
          /\ i + 1 # k - 1 /\ (k > 1 => k - 1 \in 1 .. n)
      BY <1>1, <2>3
    <3>2. q[i] = p[i + 1] /\ q[i + 1] = p[(i + 1) + 1]
      BY <1>3, <3>1
    <3>3. p[i + 1] \in 1 .. u /\ (k > 1 => p[i + 1] # p[k - 1])
      BY <1>1, <3>1
    <3>4. next'[p[i + 1]] = next[p[i + 1]] /\ next[p[i + 1]] = p[(i + 1) + 1]
      BY <1>1, <1>2, <3>1, <3>3
    <3> QED
      BY <3>2, <3>4
  <2> QED
    BY <1>1, <2>1, <2>2, <2>3
<1>5. \A i, j \in 1 .. n - 1 : q[i] = q[j] => i = j
  <2> DEFINE m(i) == IF i < k THEN i ELSE i + 1
  <2>1. \A i \in 1 .. n - 1 : m(i) \in 1 .. n /\ q[i] = p[m(i)]
    <3> TAKE i \in 1 .. n - 1
    <3>1. i \in 1 .. k - 1 \/ i \in k .. n - 1
      BY <1>1
    <3> QED
      BY <1>1, <1>3, <3>1
  <2> TAKE i \in 1 .. n - 1, j \in 1 .. n - 1
  <2> HAVE q[i] = q[j]
  <2>2. m(i) = m(j)
    <3> HIDE DEF m
    <3> QED
      BY <1>1, <2>1
  <2> QED
    BY <1>1, <2>2
<1>6. /\ n = 1 => head'[l] = Null
      /\ n > 1 => q[1] = head'[l] /\ q[n - 1] = tail'[l] /\ next'[tail'[l]] = Null
  <2>1. n = 1 => head'[l] = Null
    BY <1>1, <1>2
  <2>2. ASSUME n > 1
        PROVE  q[1] = head'[l] /\ q[n - 1] = tail'[l] /\ next'[tail'[l]] = Null
    <3>1. q[1] = head'[l]
      <4>1. k > 1 => 1 \in 1 .. k - 1
        BY <1>1
      <4>2. k = 1 => 1 \in k .. n - 1
        BY <1>1, <2>2
      <4> QED
        BY <1>1, <1>2, <1>3, <2>2, <4>1, <4>2
    <3>2. CASE k = n
      <4>1. n - 1 \in 1 .. k - 1 /\ k > 1
        BY <1>1, <2>2, <3>2
      <4> QED
        BY <1>2, <1>3, <2>2, <3>1, <3>2, <4>1
    <3>3. CASE k # n
      <4>1. /\ n - 1 \in k .. n - 1 /\ (n - 1) + 1 = n /\ n \in 1 .. n /\ n > 0
            /\ (k > 1 => k - 1 \in 1 .. n /\ k - 1 # n)
        BY <1>1, <2>2, <3>3
      <4>2. q[n - 1] = p[n] /\ p[n] \in 1 .. u /\ (k > 1 => p[n] # p[k - 1])
        BY <1>1, <1>3, <4>1
      <4>3. tail'[l] = p[n] /\ next[p[n]] = Null
        BY <1>1, <1>2, <2>2, <3>3, <4>1
      <4> QED
        BY <1>2, <3>1, <4>2, <4>3
    <3> QED
      BY <2>2, <3>1, <3>2, <3>3
  <2> QED
    BY <2>1, <2>2
<1>7. Changes(l, q)
  <2>1. IsListing(q, head'[l], tail'[l], next', len'[l], used')
    <3>1. n - 1 - 1 = n - 2 /\ n - 1 <= u
      BY <1>1
    <3> QED
      BY <1>1, <1>2, <1>3, <1>4, <1>5, <1>6, <3>1 DEF IsListing
  <2>2. \A i \in 1 .. len'[l] : q[i] > u \/ \E j \in 1 .. n : q[i] = p[j]
    <3> TAKE i \in 1 .. len'[l]
    <3>1. i \in 1 .. k - 1 \/ i \in k .. n - 1
      BY <1>1, <1>2
    <3> QED
      BY <1>3, <3>1
  <2>3. \A m \in Nodes : \/ next'[m] = next[m] /\ data'[m] = data[m]
                         \/ m > u \/ \E j \in 1 .. n : m = p[j]
    <3> TAKE m \in Nodes
    <3>1. m > u \/ m \in 1 .. u
      BY <1>1 DEF Nodes
    <3>2. k > 1 => k - 1 \in 1 .. n
      BY <1>1
    <3> QED
      BY <1>2, <3>1, <3>2
  <2> QED
    BY <1>1, <1>2, <2>1, <2>2, <2>3 DEF Changes, u, n, p
<1>8. /\ s \in Seq(Items \cup {Null}) /\ Len(s) = n - 1
      /\ \A i \in 1 .. n - 1 : s[i] = data'[q[i]]
  <2> DEFINE c == Contents(l)
             T == Items \cup {Null}
  <2>1. /\ c \in Seq(T) /\ Len(c) = n
        /\ \A i \in 1 .. n : c[i] = data[p[i]]
    BY ContentsFacts DEF n, p
  <2>2. s = Seqs!RemoveAt(c, k) /\ k \in 1 .. Len(c)
    BY <1>1, <2>1
  <2> HIDE DEF c, s, T
  <2>3. s \in Seq(T) /\ Len(s) = n - 1
    BY <2>1, <2>2, RemoveAtFacts
  <2>4. \A i \in 1 .. k - 1 : s[i] = c[i]
    BY <2>1, <2>2, RemoveAtFacts
  <2>5. \A i \in k .. n - 1 : s[i] = c[i + 1]
    BY <2>1, <2>2, RemoveAtFacts
  <2>6. ASSUME NEW i \in 1 .. n - 1 PROVE s[i] = data'[q[i]]
    <3>1. i \in 1 .. k - 1 \/ i \in k .. n - 1
      BY <1>1
    <3> QED
      BY <1>2, <1>3, <2>1, <2>4, <2>5, <3>1
  <2> QED
    BY <2>3, <2>6 DEF T
<1> QED
  BY <1>2, <1>7, <1>8, OneListBecomes

\* The k-th item of l is replaced where it is.
LEMMA ReplaceStep ==
  ASSUME ListInv, TypeOK', NEW l \in Lists, NEW d \in Items, NEW k \in 1 .. len[l],
         data' = [data EXCEPT ![Path(l)[k]] = d], UNCHANGED <<used, next, structs>>
  PROVE  ListInv' /\ Seqs!Becomes(l, [Contents(l) EXCEPT ![k] = d])
<1> DEFINE p == Path(l)
           n == len[l]
           c == Contents(l)
           s == [c EXCEPT ![k] = d]
<1>1. /\ n \in Nat /\ used \in Nat /\ k \in 1 .. n
      /\ \A i \in 1 .. n : p[i] \in Nodes
      /\ \A i, j \in 1 .. n : p[i] = p[j] => i = j
  BY PathFacts
<1>2. \A m \in Nodes : data'[m] = IF m = p[k] THEN d ELSE data[m]
  BY DEF ListInv, TypeOK
<1>3. /\ used' = used /\ next' = next /\ head' = head /\ tail' = tail /\ len' = len
  BY DEF structs
<1>4. Changes(l, p)
  <2>1. IsListing(p, head'[l], tail'[l], next', len'[l], used')
    BY <1>3 DEF ListInv, Listed
  <2>2. \A i \in 1 .. len'[l] : \E j \in 1 .. len[l] : p[i] = p[j]
    BY <1>3
  <2>3. \A m \in Nodes : \/ next'[m] = next[m] /\ data'[m] = data[m]
                         \/ m > used \/ \E j \in 1 .. len[l] : m = p[j]
    BY <1>2, <1>3
  <2> HIDE DEF p
  <2>4. used <= used' /\ OthersSame(l)
    BY <1>1, <1>3 DEF OthersSame
  <2> QED
    BY <2>1, <2>2, <2>3, <2>4 DEF Changes, p
<1>5. c \in Seq(Items \cup {Null}) /\ Len(c) = n /\ \A i \in 1 .. n : c[i] = data[p[i]]
  BY ContentsFacts
<1> HIDE DEF p, n, c
<1>6. /\ s \in Seq(Items \cup {Null}) /\ Len(s) = n
      /\ \A i \in 1 .. n : s[i] = IF i = k THEN d ELSE c[i]
  BY <1>1, <1>5
<1>7. \A i \in 1 .. n : s[i] = data'[p[i]]
  BY <1>1, <1>2, <1>5, <1>6
<1>8. len'[l] = n
  BY <1>3 DEF n
<1> HIDE DEF s
<1>9. ListInv' /\ Seqs!Becomes(l, s)
  BY <1>4, <1>6, <1>7, <1>8, OneListBecomes
<1> QED
  BY <1>9 DEF s, c

\* The list is emptied.
LEMMA ResetStep ==
  ASSUME ListInv, TypeOK', NEW l \in Lists, UNCHANGED <<used, data, next>>,
         len'[l] = 0, head'[l] = Null, OthersSame(l)
  PROVE  ListInv' /\ Seqs!Becomes(l, << >>)
<1> DEFINE q == [i \in 1 .. 0 |-> i]
<1>1. q \in [1 .. 0 -> 1 .. used'] /\ 1 .. 0 = {} /\ 1 .. 0 - 1 = {} /\ used \in Nat /\ used' = used
  BY DEF ListInv, TypeOK
<1>2. IsListing(q, head'[l], tail'[l], next', len'[l], used')
  BY <1>1 DEF IsListing
<1>3. Changes(l, q)
  BY <1>1, <1>2 DEF Changes
<1>4. << >> \in Seq(Items \cup {Null}) /\ Len(<< >>) = 0
  OBVIOUS
<1> HIDE DEF q
<1> QED
  BY <1>1, <1>3, <1>4, OneListBecomes

\* Nothing changes.
LEMMA LookStep ==
  ASSUME ListInv, TypeOK', UNCHANGED <<used, data, next, len, head, tail>>
  PROVE  ListInv' /\ UNCHANGED [l \in Lists |-> Contents(l)]
<1>1. \A l : Path(l)' = Path(l)
  BY DEF Path
<1> QED
  BY <1>1 DEF ListInv, Listed, Apart, Contents, ItemAt

\* A list is made of new nodes, one for each item of two others.
LEMMA MergeStep ==
  ASSUME ListInv, NEW l \in Lists, NEW a \in Lists, NEW b \in Lists, List__merge(l, a, b)
  PROVE  ListInv' /\ Seqs!Merge(l, a, b)
<1> DEFINE T == Items \cup {Null}
           s == Contents(a) \o Contents(b)
           n == Len(s)
           u == used
           q == [i \in 1 .. n |-> u + i]
<1>1. s \in Seq(T) /\ n \in Nat /\ \A i \in 1 .. n : s[i] \in T
  <2>1. Contents(a) \in Seq(T) /\ Contents(b) \in Seq(T)
    BY ContentsFacts
  <2> HIDE DEF T
  <2>2. s \in Seq(T)
    BY <2>1
  <2> HIDE DEF s
  <2> QED
    BY <2>2
<1>2. /\ u + n <= MaxNodes /\ used' = u + n
      /\ data' = [k \in Nodes |-> IF k - u \in 1 .. n THEN s[k - u] ELSE data[k]]
      /\ next' = [k \in Nodes |-> IF k - u \in 1 .. n - 1 THEN k + 1
                                  ELSE IF n > 0 /\ k - u = n THEN Null ELSE next[k]]
      /\ len' = [len EXCEPT ![l] = n]
      /\ head' = [head EXCEPT ![l] = IF n = 0 THEN Null ELSE u + 1]
      /\ tail' = IF n = 0 THEN tail ELSE [tail EXCEPT ![l] = u + n]
      /\ ret' = [call |-> "merge", value |-> Null] /\ proc' = proc
  BY DEF List__merge, Return
<1> HIDE DEF s, n, T
<1>3. TypeOK /\ u \in Nat /\ MaxNodes \in Nat
  BY ListBounds DEF ListInv, TypeOK
<1>4. \A i \in 1 .. n : u + i \in Nodes /\ (u + i) - u = i
  BY <1>1, <1>2, <1>3 DEF Nodes
<1>5. TypeOK'
  <2>1. data' \in [Nodes -> Items \cup {Null}]
    BY <1>1, <1>2, <1>3 DEF TypeOK, T
  <2>2. next' \in [Nodes -> Nodes \cup {Null}]
    <3>1. ASSUME NEW k \in Nodes PROVE next'[k] \in Nodes \cup {Null}
      <4>1. k - u \in 1 .. n - 1 => k + 1 \in Nodes
        BY <1>1, <1>2, <1>3 DEF Nodes
      <4> QED
        BY <1>2, <1>3, <4>1 DEF TypeOK
    <3> QED
      BY <1>2, <3>1
  <2>3. /\ used' \in 0 .. MaxNodes /\ n \in 0 .. MaxNodes
        /\ n # 0 => u + 1 \in Nodes /\ u + n \in Nodes
    BY <1>1, <1>2, <1>3 DEF Nodes
  <2>4. len' \in [Lists -> 0 .. MaxNodes]
    BY <1>2, <1>3, <2>3 DEF TypeOK
  <2>5. head' \in [Lists -> Nodes \cup {Null}]
    BY <1>2, <1>3, <2>3 DEF TypeOK
  <2>6. tail' \in [Lists -> Nodes \cup {Null}]
    BY <1>2, <1>3, <2>3 DEF TypeOK
  <2>7. ret' \in [call : Calls, value : Items \cup {Null, 1}] /\ proc' = proc
    BY <1>2 DEF Calls
  <2> QED
    BY <1>3, <2>1, <2>2, <2>3, <2>4, <2>5, <2>6, <2>7 DEF TypeOK
<1>6. /\ \A i \in 1 .. n : data'[u + i] = s[i]
      /\ \A i \in 1 .. n - 1 : next'[u + i] = u + (i + 1)
      /\ n > 0 => next'[u + n] = Null
      /\ \A k \in Nodes : k > u \/ (next'[k] = next[k] /\ data'[k] = data[k])
  <2>1. \A i \in 1 .. n : data'[u + i] = s[i]
    BY <1>2, <1>4
  <2>2. \A i \in 1 .. n - 1 : next'[u + i] = u + (i + 1)
    <3> TAKE i \in 1 .. n - 1
    <3>1. i \in 1 .. n /\ (u + i) + 1 = u + (i + 1)
      BY <1>1, <1>3
    <3> QED
      BY <1>2, <1>4, <3>1
  <2>3. n > 0 => next'[u + n] = Null
    <3> HAVE n > 0
    <3>1. n \in 1 .. n /\ n \notin 1 .. n - 1
      BY <1>1
    <3> QED
      BY <1>2, <1>4, <3>1
  <2>4. ASSUME NEW k \in Nodes, ~(k > u)
        PROVE  next'[k] = next[k] /\ data'[k] = data[k]
    <3>1. k - u \notin 1 .. n /\ k - u \notin 1 .. n - 1 /\ ~(n > 0 /\ k - u = n)
      BY <1>1, <1>3, <2>4 DEF Nodes
    <3> QED
      BY <1>2, <3>1
  <2> QED
    BY <2>1, <2>2, <2>3, <2>4
<1>7. /\ len'[l] = n
      /\ n = 0 => head'[l] = Null
      /\ n > 0 => head'[l] = u + 1 /\ tail'[l] = u + n
      /\ OthersSame(l)
  BY <1>1, <1>2, <1>3 DEF TypeOK, OthersSame
<1>8. q \in [1 .. n -> 1 .. u + n] /\ \A i \in 1 .. n : q[i] = u + i
  BY <1>1, <1>3
<1> HIDE DEF q
<1>9. Changes(l, q)
  <2>1. \A i \in 1 .. n - 1 : next'[q[i]] = q[i + 1]
    <3> TAKE i \in 1 .. n - 1
    <3>1. i \in 1 .. n /\ i + 1 \in 1 .. n
      BY <1>1
    <3> QED
      BY <1>6, <1>8, <3>1
  <2>2. n > 0 => q[1] = head'[l] /\ q[n] = tail'[l] /\ next'[tail'[l]] = Null
    BY <1>1, <1>6, <1>7, <1>8
  <2>3. \A i, j \in 1 .. n : q[i] = q[j] => i = j
    BY <1>1, <1>3, <1>8
  <2>4. IsListing(q, head'[l], tail'[l], next', len'[l], used')
    BY <1>1, <1>2, <1>3, <1>7, <1>8, <2>1, <2>2, <2>3 DEF IsListing
  <2>5. \A i \in 1 .. len'[l] : q[i] > u
    BY <1>1, <1>3, <1>7, <1>8
  <2> QED
    BY <1>1, <1>2, <1>3, <1>5, <1>6, <1>7, <2>4, <2>5 DEF Changes
<1>10. ListInv' /\ Seqs!Becomes(l, s)
  <2>1. s \in Seq(Items \cup {Null}) /\ Len(s) = len'[l]
    BY <1>1, <1>7 DEF T, n
  <2>2. \A i \in 1 .. len'[l] : s[i] = data'[q[i]]
    BY <1>6, <1>7, <1>8
  <2> QED
    BY <1>9, <2>1, <2>2, OneListBecomes
<1> QED
  BY <1>2, <1>10 DEF s, Seqs!Merge, Seqs!Return

-----------------------------------------------------------------------------
(* The rounds of a loop *)

\* What ListIt__each has answered by the k-th call.
Round(l, k) ==
  IF k = 0 THEN [ok |-> TRUE, node |-> Null, i |-> 0]
  ELSE IF k <= len[l] THEN [ok |-> TRUE, node |-> Path(l)[k], i |-> k - 1]
  ELSE [ok |-> FALSE, node |-> IF len[l] = 0 THEN Null ELSE tail[l],
        i |-> IF len[l] <= 1 THEN 0 ELSE len[l]]

LEMMA NextRound ==
  ASSUME ListInv, NEW l \in Lists, NEW k \in Nat \ {0}
  PROVE  Round(l, k) = IF Round(l, k - 1).ok THEN ListIt__each(l, Round(l, k - 1))
                       ELSE Round(l, k - 1)
<1> DEFINE n == len[l]
           p == Path(l)
           r == Round(l, k - 1)
<1>1. /\ n \in Nat
      /\ n = 0 => head[l] = Null
      /\ n > 0 => p[1] = head[l] /\ p[n] = tail[l] /\ next[tail[l]] = Null /\ head[l] # Null
      /\ \A i \in 1 .. n : p[i] # Null
      /\ \A i \in 1 .. n - 1 : next[p[i]] = p[i + 1]
      /\ \A i, j \in 1 .. n : p[i] = p[j] => i = j
  BY PathFacts
<1> HIDE DEF n, p
<1>2. CASE k = 1
  <2>1. r.ok /\ r.node = Null /\ r.i = 0
    BY <1>2 DEF Round
  <2>2. CASE n = 0
    <3>1. Round(l, k) = [ok |-> FALSE, node |-> Null, i |-> 0]
      BY <1>2, <2>2 DEF Round, n
    <3>2. head[l] = Null
      BY <1>1, <2>2
    <3>3. List__each(l, Null).ok = FALSE /\ List__each(l, Null).node = Null
      BY <3>2 DEF List__each
    <3> HIDE DEF r
    <3>4. ListIt__each(l, r) = [ok |-> FALSE, node |-> Null, i |-> 0]
      BY <2>1, <3>2, <3>3 DEF ListIt__each
    <3> QED
      BY <2>1, <3>1, <3>4 DEF r
  <2>3. CASE n # 0
    <3>1. Round(l, k) = [ok |-> TRUE, node |-> p[1], i |-> 0]
      <4>1. 1 <= n
        BY <1>1, <2>3
      <4> QED
        BY <1>2, <4>1 DEF Round, n, p
    <3>2. p[1] = head[l] /\ head[l] # Null
      BY <1>1, <2>3
    <3>3. List__each(l, Null).ok = TRUE /\ List__each(l, Null).node = p[1]
      BY <3>2 DEF List__each
    <3> HIDE DEF r
    <3>4. ListIt__each(l, r) = [ok |-> TRUE, node |-> p[1], i |-> 0]
      BY <2>1, <3>2, <3>3 DEF ListIt__each
    <3> QED
      BY <2>1, <3>1, <3>4 DEF r
  <2> QED
    BY <2>2, <2>3
<1>3. CASE k > 1 /\ k <= n
  <2>1. /\ k - 1 \in 1 .. n - 1 /\ k - 1 \in 1 .. n /\ k \in 1 .. n /\ 1 \in 1 .. n
        /\ (k - 1) + 1 = k /\ k # 1 /\ n > 0 /\ k # 0 /\ k - 1 # 0 /\ k - 1 <= n
        /\ ((k - 1) - 1) + 1 = k - 1
    BY <1>1, <1>3
  <2>2. r.ok /\ r.node = p[k - 1] /\ r.i = (k - 1) - 1
    BY <2>1 DEF Round, n, p
  <2>3. p[k - 1] # Null /\ next[p[k - 1]] = p[k] /\ p[k] # Null /\ p[k] # head[l]
    BY <1>1, <2>1
  <2>4. List__each(l, p[k - 1]).ok = TRUE /\ List__each(l, p[k - 1]).node = p[k]
    BY <2>3 DEF List__each
  <2>5. Round(l, k) = [ok |-> TRUE, node |-> p[k], i |-> k - 1]
    BY <1>3, <2>1 DEF Round, n, p
  <2> HIDE DEF r
  <2>6. ListIt__each(l, r) = [ok |-> TRUE, node |-> p[k], i |-> ((k - 1) - 1) + 1]
    BY <2>2, <2>3, <2>4 DEF ListIt__each
  <2> QED
    BY <2>1, <2>2, <2>5, <2>6 DEF r
<1>4. CASE k > 1 /\ k = n + 1
  <2>1. /\ n > 0 /\ n \in 1 .. n /\ 1 \in 1 .. n /\ k - 1 = n /\ n # 0 /\ k # 0 /\ ~(k <= n)
        /\ n <= n /\ (n = 1 <=> n <= 1) /\ (n - 1) + 1 = n
    BY <1>1, <1>4
  <2>2. r.ok /\ r.node = tail[l] /\ r.i = n - 1
    <3>1. Round(l, n) = [ok |-> TRUE, node |-> p[n], i |-> n - 1]
      BY <2>1 DEF Round, n, p
    <3> QED
      BY <1>1, <2>1, <3>1
  <2>3. tail[l] # Null /\ next[tail[l]] = Null /\ (tail[l] = head[l] <=> n <= 1)
    BY <1>1, <2>1
  <2>4. List__each(l, tail[l]).ok = FALSE /\ List__each(l, tail[l]).node = tail[l]
    BY <2>3 DEF List__each
  <2>5. Round(l, k) = [ok |-> FALSE, node |-> tail[l], i |-> IF n <= 1 THEN 0 ELSE n]
    BY <2>1 DEF Round, n
  <2> HIDE DEF r
  <2>6. ListIt__each(l, r) = [ok |-> FALSE, node |-> tail[l], i |-> IF n <= 1 THEN 0 ELSE n]
    BY <2>1, <2>2, <2>3, <2>4 DEF ListIt__each
  <2> QED
    BY <2>2, <2>5, <2>6 DEF r
<1>5. CASE k > 1 /\ k > n + 1
  <2>1. ~(k <= n) /\ ~(k - 1 <= n) /\ k # 0 /\ k - 1 # 0
    BY <1>1, <1>5
  <2> QED
    BY <2>1 DEF Round, n
<1>6. k = 1 \/ (k > 1 /\ (k <= n \/ k = n + 1 \/ k > n + 1))
  BY <1>1
<1> QED
  BY <1>2, <1>3, <1>4, <1>5, <1>6

LEMMA LoopIsRounds ==
  ASSUME ListInv, NEW l \in Lists
  PROVE  \A k \in 0 .. MaxNodes + 1 : Loop(l)[k] = Round(l, k)
<1> DEFINE Rec(t) == [k \in 0 .. MaxNodes + 1 |->
              IF k = 0 THEN [ok |-> TRUE, node |-> Null, i |-> 0]
              ELSE IF t[k - 1].ok THEN ListIt__each(l, t[k - 1]) ELSE t[k - 1]]
           f == Loop(l)
           g == [k \in 0 .. MaxNodes + 1 |-> Round(l, k)]
<1>1. g = Rec(g)
  <2>1. ASSUME NEW k \in 0 .. MaxNodes + 1
        PROVE  g[k] = IF k = 0 THEN [ok |-> TRUE, node |-> Null, i |-> 0]
                      ELSE IF g[k - 1].ok THEN ListIt__each(l, g[k - 1]) ELSE g[k - 1]
    <3>1. CASE k = 0
      BY <3>1 DEF Round
    <3>2. CASE k # 0
      <4>1. k - 1 \in 0 .. MaxNodes + 1 /\ k \in Nat \ {0}
        BY <3>2, ListBounds
      <4>2. g[k] = Round(l, k) /\ g[k - 1] = Round(l, k - 1)
        BY <4>1
      <4> HIDE DEF g
      <4> QED
        BY <3>2, <4>1, <4>2, NextRound
    <3> QED
      BY <3>1, <3>2
  <2>2. g = [k \in 0 .. MaxNodes + 1 |-> g[k]]
    OBVIOUS
  <2> HIDE DEF g
  <2> QED
    BY <2>1, <2>2
<1>2. f = CHOOSE t : t = Rec(t)
  BY DEF Loop
<1>3. f = Rec(f)
  <2> HIDE DEF Rec, f, g
  <2> QED
    BY <1>1, <1>2
<1>4. \A i \in 0 .. MaxNodes + 1 :
        /\ f[i] = IF i = 0 THEN [ok |-> TRUE, node |-> Null, i |-> 0]
                  ELSE IF f[i - 1].ok THEN ListIt__each(l, f[i - 1]) ELSE f[i - 1]
        /\ g[i] = IF i = 0 THEN [ok |-> TRUE, node |-> Null, i |-> 0]
                  ELSE IF g[i - 1].ok THEN ListIt__each(l, g[i - 1]) ELSE g[i - 1]
  <2> HIDE DEF f, g
  <2> QED
    BY <1>1, <1>3
<1>5. MaxNodes + 1 \in Nat /\ 0 \in 0 .. MaxNodes + 1
  BY ListBounds
<1>6. \A i \in 0 .. MaxNodes + 1 : f[i] = g[i]
  <2> HIDE DEF f, g
  <2>1. f[0] = g[0]
    BY <1>4, <1>5
  <2>2. \A i \in 0 .. MaxNodes + 1 : 0 < i /\ f[i - 1] = g[i - 1] => f[i] = g[i]
    BY <1>4, <1>5
  <2> DEFINE b == MaxNodes + 1
  <2>3. 0 \in Nat /\ b \in Nat
    BY <1>5
  <2>4. \A i \in 0 .. b : 0 < i /\ f[i - 1] = g[i - 1] => f[i] = g[i]
    BY <2>2
  <2> HIDE DEF b
  <2>5. \A i \in 0 .. b : f[i] = g[i]
    BY <2>1, <2>3, <2>4, AgreeOn
  <2> QED
    BY <2>5 DEF b
<1> QED
  BY <1>6

LEMMA LoopFacts ==
  ASSUME ListInv, NEW l \in Lists
  PROVE  /\ Rounds(l) = len[l]
         /\ \A k \in 1 .. len[l] : Loop(l)[k].node = Path(l)[k] /\ Loop(l)[k].i = k - 1
<1>1. len[l] \in Nat /\ len[l] <= MaxNodes /\ MaxNodes \in Nat
  BY PathFacts
<1>2. \A k \in 1 .. MaxNodes + 1 : Loop(l)[k] = Round(l, k)
  BY <1>1, LoopIsRounds
<1>3. \A k \in 1 .. MaxNodes + 1 : Round(l, k).ok <=> k <= len[l]
  BY <1>1 DEF Round
<1>4. {k \in 1 .. MaxNodes + 1 : Loop(l)[k].ok} = 1 .. len[l]
  BY <1>1, <1>2, <1>3
<1>5. Cardinality(1 .. len[l]) = len[l]
  BY <1>1, FS_Interval
<1>6. \A k \in 1 .. len[l] : k \in 1 .. MaxNodes + 1 /\ k # 0 /\ k <= len[l]
  BY <1>1
<1>7. Rounds(l) = len[l]
  BY <1>4, <1>5 DEF Rounds
<1>8. ASSUME NEW k \in 1 .. len[l]
      PROVE  Loop(l)[k].node = Path(l)[k] /\ Loop(l)[k].i = k - 1
  <2>1. Round(l, k) = [ok |-> TRUE, node |-> Path(l)[k], i |-> k - 1]
    BY <1>6 DEF Round
  <2>2. Loop(l)[k] = Round(l, k)
    BY <1>2, <1>6
  <2> QED
    BY <2>1, <2>2
<1> QED
  BY <1>7, <1>8

-----------------------------------------------------------------------------
(* Calls that add *)

LEMMA NewNodeFacts ==
  ASSUME ListInv, NEW l \in Lists, NEW d \in Items, NEW nx \in [Nodes -> Nodes \cup {Null}],
         NewNode(d, nx), NEW call \in Calls, Longer(l, call),
         head' \in [Lists -> Nodes \cup {Null}], tail' \in [Lists -> Nodes \cup {Null}]
  PROVE  /\ TypeOK'
         /\ used < MaxNodes /\ used + 1 \in Nodes /\ used' = used + 1 /\ next' = nx
         /\ data' = [data EXCEPT ![used + 1] = d]
         /\ len'[l] = len[l] + 1 /\ \A m \in Lists \ {l} : len'[m] = len[m]
         /\ ret' = [call |-> call, value |-> Null]
<1>1. TypeOK /\ len[l] \in Nat /\ len[l] <= used /\ used \in Nat /\ MaxNodes \in Nat
  BY PathFacts DEF ListInv
<1>2. used < MaxNodes /\ used + 1 \in Nodes /\ used' = used + 1 /\ used' \in 0 .. MaxNodes
  BY <1>1 DEF NewNode, Nodes
<1>3. data' = [data EXCEPT ![used + 1] = d] /\ data' \in [Nodes -> Items \cup {Null}]
  BY <1>1, <1>2 DEF NewNode, TypeOK
<1>4. next' = nx
  BY <1>2 DEF NewNode
<1>5. /\ len' \in [Lists -> 0 .. MaxNodes] /\ len'[l] = len[l] + 1
      /\ \A m \in Lists \ {l} : len'[m] = len[m]
  BY <1>1, <1>2 DEF Longer, TypeOK
<1>6. /\ ret' = [call |-> call, value |-> Null] /\ proc' = proc
      /\ ret' \in [call : Calls, value : Items \cup {Null, 1}]
  BY DEF Longer, Return
<1>7. TypeOK'
  BY <1>1, <1>2, <1>3, <1>4, <1>5, <1>6 DEF TypeOK
<1> QED
  BY <1>2, <1>3, <1>4, <1>5, <1>6, <1>7

LEMMA ResetCall ==
  ASSUME ListInv, NEW l \in Lists, List__reset(l)
  PROVE  ListInv' /\ Seqs!Reset(l)
<1>1. /\ UNCHANGED <<used, data, next, tail>> /\ len' = [len EXCEPT ![l] = 0]
      /\ head' = [head EXCEPT ![l] = Null] /\ ret' = [call |-> "reset", value |-> Null]
      /\ proc' = proc
  BY DEF List__reset, heap, Return
<1>2. TypeOK /\ MaxNodes \in Nat
  BY ListBounds DEF ListInv
<1>3. TypeOK'
  BY <1>1, <1>2 DEF TypeOK, Calls
<1>4. len'[l] = 0 /\ head'[l] = Null /\ OthersSame(l)
  BY <1>1, <1>2 DEF TypeOK, OthersSame
<1> QED
  BY <1>1, <1>3, <1>4, ResetStep DEF Seqs!Reset, Seqs!Return

LEMMA PrependCall ==
  ASSUME ListInv, NEW l \in Lists, NEW d \in Items, List__prepend(l, d)
  PROVE  ListInv' /\ Seqs!Prepend(l, d)
<1> DEFINE n == len[l]
           u == used
           nx == [next EXCEPT ![u + 1] = IF n = 0 THEN Null ELSE head[l]]
           c == Contents(l)
<1>1. /\ TypeOK /\ n \in Nat /\ u \in Nat
      /\ n > 0 => Path(l)[1] = head[l] /\ Path(l)[n] = tail[l]
  BY PathFacts DEF ListInv
<1>2. nx \in [Nodes -> Nodes \cup {Null}] /\ "prepend" \in Calls
  BY <1>1 DEF TypeOK, Calls
<1>3. /\ NewNode(d, nx) /\ Longer(l, "prepend") /\ head' = [head EXCEPT ![l] = u + 1]
      /\ tail' = IF n = 0 THEN [tail EXCEPT ![l] = u + 1] ELSE tail
  BY DEF List__prepend
<1>4. u + 1 \in Nodes
  BY <1>1, <1>3, ListBounds DEF NewNode, Nodes
<1>5. /\ head' \in [Lists -> Nodes \cup {Null}] /\ tail' \in [Lists -> Nodes \cup {Null}]
      /\ head'[l] = u + 1 /\ tail'[l] = IF n = 0 THEN u + 1 ELSE tail[l]
      /\ \A m \in Lists \ {l} : head'[m] = head[m] /\ tail'[m] = tail[m]
  BY <1>1, <1>3, <1>4 DEF TypeOK
<1>6. /\ TypeOK' /\ u < MaxNodes /\ used' = u + 1 /\ data' = [data EXCEPT ![u + 1] = d]
      /\ next' = nx /\ len'[l] = n + 1 /\ OthersSame(l)
      /\ ret' = [call |-> "prepend", value |-> Null]
  <2> HIDE DEF nx
  <2> QED
    BY <1>2, <1>3, <1>5, NewNodeFacts DEF OthersSame
<1>7. /\ next'[u + 1] = IF n = 0 THEN Null ELSE head[l]
      /\ \A m \in Nodes : m = u + 1 \/ next'[m] = next[m]
  BY <1>1, <1>4, <1>6 DEF TypeOK
<1>8. Inserted(l, 0, d) /\ 0 \in 0 .. len[l] /\ 0 + 1 = 1
  <2>1. 0 \in 0 .. n /\ (0 = n <=> n = 0) /\ 0 + 1 = 1 /\ (n # 0 => Path(l)[1] = head[l])
    BY <1>1
  <2> QED
    BY <1>5, <1>6, <1>7, <2>1 DEF Inserted
<1>9. ListInv' /\ Seqs!Becomes(l, Seqs!InsertAt(c, 1, d))
  BY <1>6, <1>8, InsertStep
<1>10. Seqs!InsertAt(c, 1, d) = <<d>> \o c
  <2> DEFINE T == Items \cup {Null}
  <2>1. c \in Seq(T) /\ d \in T /\ <<d>> \in Seq(T) /\ Len(c) \in Nat /\ 0 \in 0 .. Len(c)
    BY ContentsFacts
  <2> HIDE DEF c, T
  <2> DEFINE r == Seqs!InsertAt(c, 0 + 1, d)
             s == <<d>> \o c
  <2>2. /\ s \in Seq(T) /\ Len(s) = Len(c) + 1
        /\ s[1] = d /\ \A i \in 2 .. Len(c) + 1 : s[i] = c[i - 1]
    BY <2>1
  <2>3. r = Seqs!InsertAt(c, 0 + 1, d)
    OBVIOUS
  <2> HIDE DEF r, s
  <2>4. r \in Seq(T) /\ Len(r) = Len(c) + 1
    BY <2>1, <2>3, InsertAtFacts
  <2>5. r[0 + 1] = d
    BY <2>1, <2>3, InsertAtFacts
  <2>6. \A i \in 0 + 2 .. Len(c) + 1 : r[i] = c[i - 1]
    BY <2>1, <2>3, InsertAtFacts
  <2>7. \A i \in 1 .. Len(c) + 1 : r[i] = s[i]
    BY <2>1, <2>2, <2>5, <2>6
  <2>8. r = s
    BY <2>2, <2>4, <2>7, SeqEqual
  <2> QED
    BY <2>8 DEF r, s
<1> QED
  BY <1>6, <1>9, <1>10 DEF Seqs!Prepend, Seqs!Return

LEMMA AppendCall ==
  ASSUME ListInv, NEW l \in Lists, NEW d \in Items, List__append(l, d)
  PROVE  ListInv' /\ Seqs!Extend(l, d)
<1> DEFINE n == len[l]
           u == used
           nx == IF n = 0 THEN [next EXCEPT ![u + 1] = Null]
                 ELSE [next EXCEPT ![u + 1] = Null, ![tail[l]] = u + 1]
           c == Contents(l)
<1>1. /\ TypeOK /\ n \in Nat /\ u \in Nat
      /\ n > 0 => /\ Path(l)[1] = head[l] /\ Path(l)[n] = tail[l] /\ tail[l] \in Nodes
                  /\ Path(l)[n] \in 1 .. u
  <2>1. n > 0 => n \in 1 .. n
    BY PathFacts
  <2> QED
    BY <2>1, PathFacts DEF ListInv
<1>2. /\ NewNode(d, nx) /\ Longer(l, "append") /\ tail' = [tail EXCEPT ![l] = u + 1]
      /\ head' = IF n = 0 THEN [head EXCEPT ![l] = u + 1] ELSE head
  BY DEF List__append
<1>3. u + 1 \in Nodes
  BY <1>1, <1>2, ListBounds DEF NewNode, Nodes
<1>4. nx \in [Nodes -> Nodes \cup {Null}] /\ "append" \in Calls
  BY <1>1, <1>3 DEF TypeOK, Calls
<1>5. /\ head' \in [Lists -> Nodes \cup {Null}] /\ tail' \in [Lists -> Nodes \cup {Null}]
      /\ tail'[l] = u + 1 /\ head'[l] = IF n = 0 THEN u + 1 ELSE head[l]
      /\ \A m \in Lists \ {l} : head'[m] = head[m] /\ tail'[m] = tail[m]
  BY <1>1, <1>2, <1>3 DEF TypeOK
<1>6. /\ TypeOK' /\ u < MaxNodes /\ used' = u + 1 /\ data' = [data EXCEPT ![u + 1] = d]
      /\ next' = nx /\ len'[l] = n + 1 /\ OthersSame(l)
      /\ ret' = [call |-> "append", value |-> Null]
  <2> HIDE DEF nx
  <2> QED
    BY <1>2, <1>4, <1>5, NewNodeFacts DEF OthersSame
<1>7. /\ next'[u + 1] = Null
      /\ n > 0 => next'[Path(l)[n]] = u + 1
      /\ \A m \in Nodes : m = u + 1 \/ (n > 0 /\ m = Path(l)[n]) \/ next'[m] = next[m]
  <2>1. CASE n = 0
    BY <1>1, <1>3, <1>6, <2>1 DEF TypeOK
  <2>2. CASE n # 0
    <3>1. n > 0 /\ tail[l] = Path(l)[n] /\ tail[l] \in Nodes /\ tail[l] # u + 1
      BY <1>1, <2>2
    <3> QED
      BY <1>1, <1>3, <1>6, <2>2, <3>1 DEF TypeOK
  <2> QED
    BY <2>1, <2>2
<1>8. Inserted(l, n, d) /\ n \in 0 .. len[l]
  <2>1. n \in 0 .. n
    BY <1>1
  <2> QED
    BY <1>5, <1>6, <1>7, <2>1 DEF Inserted
<1>9. ListInv' /\ Seqs!Becomes(l, Seqs!InsertAt(c, n + 1, d))
  BY <1>6, <1>8, InsertStep
<1>10. Seqs!InsertAt(c, n + 1, d) = Append(c, d)
  <2> DEFINE T == Items \cup {Null}
  <2>1. c \in Seq(T) /\ d \in T /\ Len(c) = n /\ n \in Nat /\ n \in 0 .. Len(c)
    BY <1>1, ContentsFacts
  <2> HIDE DEF c, T, n
  <2> DEFINE r == Seqs!InsertAt(c, n + 1, d)
             s == Append(c, d)
  <2>2. /\ s \in Seq(T) /\ Len(s) = n + 1
        /\ s[n + 1] = d /\ \A i \in 1 .. n : s[i] = c[i]
    BY <2>1
  <2>3. r = Seqs!InsertAt(c, n + 1, d)
    OBVIOUS
  <2> HIDE DEF r, s
  <2>4. r \in Seq(T) /\ Len(r) = n + 1
    BY <2>1, <2>3, InsertAtFacts
  <2>5. r[n + 1] = d
    BY <2>1, <2>3, InsertAtFacts
  <2>6. \A i \in 1 .. n : r[i] = c[i]
    <3>1. d \in T /\ c \in Seq(T) /\ n \in 0 .. Len(c)
      BY <2>1
    <3> QED
      BY <2>3, <3>1, InsertAtFacts
  <2>7. \A i \in 1 .. n + 1 : r[i] = s[i]
    BY <2>1, <2>2, <2>5, <2>6
  <2>8. r = s
    BY <2>2, <2>4, <2>7, SeqEqual
  <2> QED
    BY <2>8 DEF r, s
<1> QED
  BY <1>6, <1>9, <1>10 DEF Seqs!Extend, Seqs!Return

\* The loop of List__insort stops: at the last node if nowhere before it.
LEMMA StopsSomewhere ==
  ASSUME NEW n \in Nat \ {0}, NEW c, NEW d
  PROVE  \E k \in 1 .. n : /\ k = n \/ ~(d < c[k + 1])
                           /\ \A j \in 2 .. k : d < c[j]
<1> DEFINE S == {k \in 1 .. n : k = n \/ ~(d < c[k + 1])}
<1>1. S \subseteq Nat /\ n \in S
  OBVIOUS
<1>2. PICK k \in S : \A j \in S : k <= j
  <2> HIDE DEF S
  <2> QED
    BY <1>1, LeastNatural
<1>3. ASSUME NEW j \in 2 .. k PROVE d < c[j]
  <2>1. j - 1 \in 1 .. n /\ j - 1 < k /\ j - 1 # n /\ (j - 1) + 1 = j
    OBVIOUS
  <2>2. j - 1 \notin S
    BY <1>2, <2>1
  <2> QED
    BY <2>1, <2>2
<1> QED
  BY <1>3

LEMMA InsortCall ==
  ASSUME ListInv, NEW l \in Lists, NEW d \in Items, List__insort(l, d)
  PROVE  ListInv' /\ (Seqs!Insort(l, d) \/ InsortPassesHead)
<1> DEFINE n == len[l]
           u == used
           c == Contents(l)
           k == IF head[l] = Null THEN 0 ELSE StopsAt(l, d)
           b == Path(l)[k]
           nx == IF head[l] = Null THEN [next EXCEPT ![u + 1] = Null]
                 ELSE [next EXCEPT ![u + 1] = next[b], ![b] = u + 1]
<1>1. /\ TypeOK /\ n \in Nat /\ u \in Nat
      /\ head[l] = Null <=> n = 0
      /\ n > 0 => Path(l)[n] = tail[l] /\ next[tail[l]] = Null
      /\ \A i \in 1 .. n : Path(l)[i] \in 1 .. u /\ Path(l)[i] \in Nodes
      /\ \A i \in 1 .. n - 1 : next[Path(l)[i]] = Path(l)[i + 1]
      /\ \A i, j \in 1 .. n : Path(l)[i] = Path(l)[j] => i = j
  <2>1. n \in Nat /\ (n = 0 => head[l] = Null) /\ (n > 0 => head[l] # Null)
    BY PathFacts
  <2> QED
    BY <2>1, PathFacts DEF ListInv
<1>2. /\ k \in 0 .. n /\ (k = 0 <=> n = 0)
      /\ k < n => ~(d < c[k + 1])
      /\ \A j \in 2 .. k : d < c[j]
  <2>1. CASE n = 0
    BY <1>1, <2>1
  <2>2. CASE n # 0
    <3>1. \E i \in 1 .. n : /\ i = n \/ ~(d < c[i + 1])
                            /\ \A j \in 2 .. i : d < c[j]
      BY <1>1, <2>2, StopsSomewhere
    <3>2. /\ StopsAt(l, d) \in 1 .. n
          /\ StopsAt(l, d) = n \/ ~(d < c[StopsAt(l, d) + 1])
          /\ \A j \in 2 .. StopsAt(l, d) : d < c[j]
      BY <3>1 DEF StopsAt
    <3>3. k = StopsAt(l, d)
      BY <1>1, <2>2
    <3> HIDE DEF k
    <3> QED
      BY <1>1, <2>2, <3>2, <3>3
  <2> QED
    BY <2>1, <2>2
<1>3. /\ NewNode(d, nx) /\ Longer(l, "insort")
      /\ head' = IF n = 0 THEN [head EXCEPT ![l] = u + 1] ELSE head
      /\ tail' = IF n = 0 \/ tail[l] = b THEN [tail EXCEPT ![l] = u + 1] ELSE tail
  BY <1>1 DEF List__insort
<1> HIDE DEF k
<1>4. u + 1 \in Nodes
  BY <1>1, <1>3, ListBounds DEF NewNode, Nodes
<1>5. n # 0 => /\ b \in 1 .. u /\ b \in Nodes /\ b # u + 1 /\ (tail[l] = b <=> k = n)
               /\ next[b] = IF k = n THEN Null ELSE Path(l)[k + 1]
  <2> HAVE n # 0
  <2>1. k \in 1 .. n /\ n \in 1 .. n /\ (k # n => k \in 1 .. n - 1) /\ n > 0
    BY <1>1, <1>2
  <2>2. b \in 1 .. u /\ b \in Nodes /\ (tail[l] = b <=> k = n)
    BY <1>1, <2>1
  <2>3. next[b] = IF k = n THEN Null ELSE Path(l)[k + 1]
    BY <1>1, <2>1
  <2> HIDE DEF b
  <2> QED
    BY <1>1, <2>2, <2>3
<1>6. nx \in [Nodes -> Nodes \cup {Null}] /\ "insort" \in Calls
  <2> HIDE DEF b
  <2> QED
    BY <1>1, <1>4, <1>5 DEF TypeOK, Calls
<1>7. /\ head' \in [Lists -> Nodes \cup {Null}] /\ tail' \in [Lists -> Nodes \cup {Null}]
      /\ head'[l] = IF k = 0 THEN u + 1 ELSE head[l]
      /\ tail'[l] = IF k = n THEN u + 1 ELSE tail[l]
      /\ \A m \in Lists \ {l} : head'[m] = head[m] /\ tail'[m] = tail[m]
  <2> HIDE DEF b
  <2> QED
    BY <1>1, <1>2, <1>3, <1>4, <1>5 DEF TypeOK
<1>8. /\ TypeOK' /\ u < MaxNodes /\ used' = u + 1 /\ data' = [data EXCEPT ![u + 1] = d]
      /\ next' = nx /\ len'[l] = n + 1 /\ OthersSame(l)
      /\ ret' = [call |-> "insort", value |-> Null]
  <2> HIDE DEF nx
  <2> QED
    BY <1>3, <1>6, <1>7, NewNodeFacts DEF OthersSame
<1>9. /\ next'[u + 1] = IF k = n THEN Null ELSE Path(l)[k + 1]
      /\ k > 0 => next'[b] = u + 1
      /\ \A m \in Nodes : m = u + 1 \/ (k > 0 /\ m = b) \/ next'[m] = next[m]
  <2> HIDE DEF b
  <2>1. CASE n = 0
    BY <1>1, <1>2, <1>4, <1>8, <2>1 DEF TypeOK
  <2>2. CASE n # 0
    BY <1>1, <1>2, <1>4, <1>5, <1>8, <2>2 DEF TypeOK
  <2> QED
    BY <2>1, <2>2
<1>10. Inserted(l, k, d)
  BY <1>7, <1>8, <1>9 DEF Inserted
<1>11. ListInv' /\ Seqs!Becomes(l, Seqs!InsertAt(c, k + 1, d))
  BY <1>2, <1>8, <1>10, InsertStep
<1>12. c \in Seq(Items \cup {Null}) /\ Len(c) = n /\ (k = 0 => c = << >>)
  <2>1. c \in Seq(Items \cup {Null}) /\ Len(c) = n
    BY ContentsFacts
  <2> HIDE DEF c, n
  <2> QED
    BY <1>2, <2>1
<1>13. [m \in Lists |-> Contents(m)][l] = c
  OBVIOUS
<1>14. CASE n = 0 \/ d < c[1]
  <2> HIDE DEF c, n, b, nx
  <2>1. /\ k \in 0 .. Len(c) /\ \A j \in 1 .. k : d < c[j]
        /\ k < Len(c) => ~(d < c[k + 1])
    BY <1>1, <1>2, <1>12, <1>14
  <2> QED
    BY <1>8, <1>11, <1>13, <2>1 DEF Seqs!Insort, Seqs!Return
<1>15. CASE n # 0 /\ ~(d < c[1])
  <2>1. c # << >> /\ k \in 1 .. Len(c) /\ (k < Len(c) => ~(d < c[k + 1]))
    <3> HIDE DEF c, n, b, nx
    <3> QED
      BY <1>1, <1>2, <1>12, <1>15
  <2> QED
    BY <1>2, <1>8, <1>11, <1>15, <2>1 DEF InsortPassesHead, Seqs!Return
<1> QED
  BY <1>11, <1>14, <1>15

-----------------------------------------------------------------------------
(* Calls that take out *)

\* What Tail and Front leave is what RemoveAt does at the ends.
LEMMA EndsAreRemoved ==
  ASSUME NEW T, NEW c \in Seq(T), c # << >>
  PROVE  /\ Seqs!RemoveAt(c, 1) = Tail(c) /\ Head(c) = c[1]
         /\ Seqs!RemoveAt(c, Len(c)) = Seqs!Front(c) /\ Seqs!Last(c) = c[Len(c)]
<1> DEFINE n == Len(c)
           r == Seqs!RemoveAt(c, 1)
           t == Tail(c)
           e == Seqs!RemoveAt(c, n)
           f == Seqs!Front(c)
<1>1. n \in Nat /\ n > 0 /\ 1 \in 1 .. n /\ n \in 1 .. n
  BY EmptySeq
<1>2. t \in Seq(T) /\ Len(t) = n - 1 /\ \A i \in 1 .. n - 1 : t[i] = c[i + 1]
  BY HeadTailProperties
<1>3. f \in Seq(T) /\ Len(f) = n - 1 /\ \A i \in 1 .. n - 1 : f[i] = c[i]
  <2> DEFINE m == n - 1
  <2>1. f = SubSeq(c, 1, m)
    BY DEF Seqs!Front
  <2>2. m \in Nat /\ \A i \in 1 .. m : c[i] \in T /\ 1 + i - 1 = i
    BY <1>1
  <2> HIDE DEF f, m
  <2>3. f \in Seq(T) /\ Len(f) = m /\ \A i \in 1 .. m : f[i] = c[i]
    BY <2>1, <2>2, SubSeqProperties
  <2> QED
    BY <2>3 DEF m
<1>4. r = Seqs!RemoveAt(c, 1) /\ e = Seqs!RemoveAt(c, n)
  OBVIOUS
<1> HIDE DEF r, t, e, f
<1>5. r = t
  <2>1. r \in Seq(T) /\ Len(r) = n - 1
    BY <1>1, <1>4, RemoveAtFacts
  <2>2. ASSUME NEW i \in 1 .. n - 1 PROVE r[i] = c[i + 1]
    BY <1>1, <1>4, RemoveAtFacts
  <2> QED
    BY <1>2, <2>1, <2>2, SeqEqual
<1>6. e = f
  <2>1. e \in Seq(T) /\ Len(e) = n - 1
    BY <1>1, <1>4, RemoveAtFacts
  <2>2. ASSUME NEW i \in 1 .. n - 1 PROVE e[i] = c[i]
    <3>1. n \in 1 .. Len(c)
      BY <1>1
    <3> HIDE DEF n
    <3> QED
      BY <1>4, <3>1, RemoveAtFacts
  <2> QED
    BY <1>3, <2>1, <2>2, SeqEqual
<1> QED
  BY <1>5, <1>6 DEF r, t, e, f, Seqs!Last

LEMMA ShorterFacts ==
  ASSUME ListInv, NEW l \in Lists, len[l] > 0, Shorter(l), UNCHANGED <<used, data>>,
         next' \in [Nodes -> Nodes \cup {Null}],
         head' \in [Lists -> Nodes \cup {Null}], tail' \in [Lists -> Nodes \cup {Null}],
         NEW call \in Calls, NEW v \in Items \cup {Null, 1}, Return(call, v)
  PROVE  TypeOK' /\ len'[l] = len[l] - 1 /\ \A m \in Lists \ {l} : len'[m] = len[m]
<1>1. TypeOK /\ MaxNodes \in Nat
  BY ListBounds DEF ListInv
<1>2. len' \in [Lists -> 0 .. MaxNodes] /\ len'[l] = len[l] - 1
  BY <1>1 DEF Shorter, TypeOK
<1>3. \A m \in Lists \ {l} : len'[m] = len[m]
  BY <1>1 DEF Shorter, TypeOK
<1>4. ret' \in [call : Calls, value : Items \cup {Null, 1}] /\ proc' = proc
  BY DEF Return
<1>5. TypeOK'
  BY <1>1, <1>2, <1>4 DEF TypeOK
<1> QED
  BY <1>2, <1>3, <1>5

\* The first node of l goes, its tail and the nodes' pointers stay.
LEMMA HeadGoes ==
  ASSUME ListInv, NEW l \in Lists, len[l] > 0, Shorter(l), UNCHANGED <<used, data, next, tail>>,
         head' = [head EXCEPT ![l] = next[head[l]]],
         NEW call \in Calls, NEW v \in Items \cup {Null, 1}, Return(call, v)
  PROVE  TypeOK' /\ Removed(l, 1) /\ 1 \in 1 .. len[l]
<1>1. /\ TypeOK /\ len[l] \in Nat /\ 1 \in 1 .. len[l]
      /\ Path(l)[1] = head[l] /\ head[l] \in Nodes
      /\ Path(l)[len[l]] = tail[l] /\ next[tail[l]] = Null
      /\ \A i \in 1 .. len[l] - 1 : next[Path(l)[i]] = Path(l)[i + 1]
  BY PathFacts DEF ListInv
<1>2. next[head[l]] = IF len[l] = 1 THEN Null ELSE Path(l)[2]
  <2>1. len[l] # 1 => 1 \in 1 .. len[l] - 1
    BY <1>1
  <2> QED
    BY <1>1, <2>1
<1>3. /\ head' \in [Lists -> Nodes \cup {Null}] /\ head'[l] = next[head[l]]
      /\ \A m \in Lists \ {l} : head'[m] = head[m]
  BY <1>1 DEF TypeOK
<1>4. TypeOK' /\ len'[l] = len[l] - 1 /\ \A m \in Lists \ {l} : len'[m] = len[m]
  BY <1>1, <1>3, ShorterFacts DEF TypeOK
<1>5. len[l] > 1 => 1 # len[l]
  BY <1>1
<1> QED
  BY <1>1, <1>2, <1>3, <1>4, <1>5 DEF Removed, OthersSame

\* The only node of l goes, and both pointers of the struct are cleared.
LEMMA OnlyGoes ==
  ASSUME ListInv, NEW l \in Lists, len[l] = 1, Shorter(l), UNCHANGED <<used, data, next>>,
         head' = [head EXCEPT ![l] = Null], tail' = [tail EXCEPT ![l] = Null],
         NEW call \in Calls, NEW v \in Items \cup {Null, 1}, Return(call, v)
  PROVE  TypeOK' /\ Removed(l, 1) /\ 1 \in 1 .. len[l]
<1>1. TypeOK
  BY DEF ListInv
<1>2. /\ head' \in [Lists -> Nodes \cup {Null}] /\ tail' \in [Lists -> Nodes \cup {Null}]
      /\ head'[l] = Null /\ \A m \in Lists \ {l} : head'[m] = head[m] /\ tail'[m] = tail[m]
  BY <1>1 DEF TypeOK
<1>3. TypeOK' /\ len'[l] = len[l] - 1 /\ \A m \in Lists \ {l} : len'[m] = len[m]
  BY <1>1, <1>2, ShorterFacts DEF TypeOK
<1> QED
  BY <1>2, <1>3 DEF Removed, OthersSame

LEMMA EmptiedFacts ==
  ASSUME ListInv, NEW l \in Lists, NEW call \in Calls, Emptied(l, call), UNCHANGED heap
  PROVE  /\ ListInv'
         /\ \/ /\ Contents(l) = << >> /\ UNCHANGED [m \in Lists |-> Contents(m)]
               /\ ret' = [call |-> call, value |-> Null]
            \/ /\ Len(Contents(l)) = 1
               /\ Seqs!Becomes(l, Seqs!RemoveAt(Contents(l), 1))
               /\ ret' = [call |-> call, value |-> Contents(l)[1]]
<1>1. TypeOK /\ Contents(l) \in Seq(Items \cup {Null}) /\ Len(Contents(l)) = len[l]
  BY ContentsFacts DEF ListInv
<1>2. CASE len[l] = 0 /\ Return(call, Null) /\ UNCHANGED structs
  <2>1. TypeOK' /\ UNCHANGED <<used, data, next, len, head, tail>>
    BY <1>1, <1>2 DEF TypeOK, Return, heap, structs
  <2>2. Contents(l) = << >>
    <3> DEFINE c == Contents(l)
    <3> HIDE DEF c
    <3>1. c = << >>
      BY <1>1, <1>2, EmptySeq DEF c
    <3> QED
      BY <3>1 DEF c
  <2> QED
    BY <1>2, <2>1, <2>2, LookStep DEF Return
<1>3. CASE /\ len[l] = 1
           /\ head' = [head EXCEPT ![l] = Null]
           /\ tail' = [tail EXCEPT ![l] = Null]
           /\ Shorter(l)
           /\ Return(call, data[head[l]])
  <2>1. 1 \in 1 .. len[l] /\ Path(l)[1] = head[l] /\ head[l] \in Nodes
    BY <1>3, PathFacts
  <2>2. data[head[l]] \in Items \cup {Null, 1} /\ Contents(l)[1] = data[head[l]]
    BY <1>1, <2>1, ContentsFacts DEF TypeOK
  <2>3. TypeOK' /\ Removed(l, 1) /\ 1 \in 1 .. len[l]
    BY <1>3, <2>2, OnlyGoes DEF heap
  <2> QED
    BY <1>1, <1>3, <2>2, <2>3, RemoveStep DEF Return
<1> QED
  BY <1>2, <1>3 DEF Emptied

LEMMA ShiftCall ==
  ASSUME ListInv, NEW l \in Lists, List__shift(l)
  PROVE  ListInv' /\ Seqs!Shift(l)
<1> DEFINE c == Contents(l)
<1>1. /\ TypeOK /\ c \in Seq(Items \cup {Null}) /\ Len(c) = len[l] /\ "shift" \in Calls
      /\ len[l] \in Nat
  BY ContentsFacts, PathFacts DEF ListInv, Calls
<1>2. c # << >> => Seqs!RemoveAt(c, 1) = Tail(c) /\ Head(c) = c[1]
  BY <1>1, EndsAreRemoved
<1>3. ListInv' /\ \/ /\ c = << >> /\ UNCHANGED [m \in Lists |-> Contents(m)]
                     /\ ret' = [call |-> "shift", value |-> Null]
                  \/ /\ c # << >>
                     /\ Seqs!Becomes(l, Seqs!RemoveAt(c, 1))
                     /\ ret' = [call |-> "shift", value |-> c[1]]
  <2>1. CASE Emptied(l, "shift") /\ UNCHANGED heap
    <3>1. Len(c) = 1 => c # << >>
      OBVIOUS
    <3> HIDE DEF c
    <3> QED
      BY <1>1, <2>1, <3>1, EmptiedFacts DEF c
  <2>2. CASE /\ len[l] > 1
             /\ head' = [head EXCEPT ![l] = next[head[l]]]
             /\ Shorter(l)
             /\ Return("shift", data[head[l]])
             /\ UNCHANGED tail /\ UNCHANGED heap
    <3>1. 1 \in 1 .. len[l] /\ Path(l)[1] = head[l] /\ head[l] \in Nodes /\ len[l] > 0
      BY <1>1, <2>2, PathFacts
    <3>2. data[head[l]] \in Items \cup {Null, 1} /\ c[1] = data[head[l]]
      BY <1>1, <3>1, ContentsFacts DEF TypeOK
    <3>3. TypeOK' /\ Removed(l, 1)
      BY <1>1, <2>2, <3>1, <3>2, HeadGoes DEF heap
    <3>4. c # << >>
      BY <1>1, <2>2
    <3> QED
      BY <2>2, <3>1, <3>2, <3>3, <3>4, RemoveStep DEF Return
  <2> QED
    BY <2>1, <2>2 DEF List__shift
<1> HIDE DEF c
<1> QED
  BY <1>2, <1>3 DEF Seqs!Shift, Seqs!Return, c

LEMMA PopCall ==
  ASSUME ListInv, NEW l \in Lists, List__pop(l)
  PROVE  ListInv' /\ Seqs!Pop(l)
<1> DEFINE c == Contents(l)
           n == len[l]
           p == Path(l)
           prev == p[n - 1]
<1>1. /\ TypeOK /\ c \in Seq(Items \cup {Null}) /\ Len(c) = n /\ "pop" \in Calls
      /\ n \in Nat
  BY ContentsFacts, PathFacts DEF ListInv, Calls
<1>2. c # << >> => Seqs!RemoveAt(c, n) = Seqs!Front(c) /\ Seqs!Last(c) = c[n]
  BY <1>1, EndsAreRemoved
<1>3. ListInv' /\ \/ /\ c = << >> /\ UNCHANGED [m \in Lists |-> Contents(m)]
                     /\ ret' = [call |-> "pop", value |-> Null]
                  \/ /\ c # << >>
                     /\ Seqs!Becomes(l, Seqs!RemoveAt(c, n))
                     /\ ret' = [call |-> "pop", value |-> c[n]]
  <2>1. CASE Emptied(l, "pop") /\ UNCHANGED heap
    <3>1. Len(c) = 1 => c # << >>
      OBVIOUS
    <3> HIDE DEF c, n
    <3> QED
      BY <1>1, <2>1, <3>1, EmptiedFacts DEF c
  <2>2. CASE /\ n > 1
             /\ tail' = [tail EXCEPT ![l] = prev]
             /\ next' = [next EXCEPT ![prev] = Null]
             /\ Shorter(l)
             /\ Return("pop", data[p[n]])
             /\ UNCHANGED <<used, data, head>>
    <3>1. n \in 1 .. n /\ n - 1 \in 1 .. n /\ n > 0 /\ n # 1
      BY <1>1, <2>2
    <3>2. p[n] \in Nodes /\ prev \in Nodes
      BY <3>1, PathFacts
    <3>3. data[p[n]] \in Items \cup {Null, 1} /\ c[n] = data[p[n]]
      BY <1>1, <3>1, <3>2, ContentsFacts DEF TypeOK
    <3> HIDE DEF prev, c
    <3>4. /\ next' \in [Nodes -> Nodes \cup {Null}] /\ next'[prev] = Null
          /\ \A m \in Nodes : m = prev \/ next'[m] = next[m]
          /\ tail' \in [Lists -> Nodes \cup {Null}] /\ tail'[l] = prev
          /\ \A m \in Lists \ {l} : tail'[m] = tail[m]
      BY <1>1, <2>2, <3>2 DEF TypeOK
    <3>5. TypeOK' /\ len'[l] = n - 1 /\ \A m \in Lists \ {l} : len'[m] = len[m]
      BY <1>1, <2>2, <3>1, <3>3, <3>4, ShorterFacts DEF TypeOK
    <3>6. Removed(l, n)
      BY <2>2, <3>1, <3>4, <3>5 DEF Removed, OthersSame, prev
    <3>7. c # << >>
      BY <1>1, <2>2
    <3> QED
      BY <2>2, <3>1, <3>3, <3>5, <3>6, <3>7, RemoveStep DEF Return, c
  <2> QED
    BY <2>1, <2>2 DEF List__pop
<1> HIDE DEF c
<1> QED
  BY <1>1, <1>2, <1>3 DEF Seqs!Pop, Seqs!Return, c

\* What makes a place the first one of an item names it.
LEMMA PlaceIs ==
  ASSUME ListInv, NEW l \in Lists, NEW d, NEW k \in 1 .. len[l], Contents(l)[k] = d,
         \A j \in 1 .. k - 1 : Contents(l)[j] # d
  PROVE  Seqs!Place(l, d) = k /\ Seqs!Has(l, d)
<1> DEFINE c == Contents(l)
           First(i) == c[i] = d /\ \A j \in 1 .. i - 1 : c[j] # d
<1>1. len[l] \in Nat /\ Len(c) = len[l]
  BY ContentsFacts, PathFacts
<1>2. Seqs!Place(l, d) = CHOOSE i \in 1 .. Len(c) : First(i)
  BY DEF Seqs!Place
<1>3. First(k)
  OBVIOUS
<1>4. ASSUME NEW i \in 1 .. len[l], First(i) PROVE i = k
  <2>1. ~(i < k) /\ ~(k < i)
    <3>1. i < k => i \in 1 .. k - 1
      BY <1>1
    <3>2. k < i => k \in 1 .. i - 1
      BY <1>1
    <3> QED
      BY <1>3, <1>4, <3>1, <3>2
  <2> QED
    BY <1>1, <2>1
<1>5. (CHOOSE i \in 1 .. len[l] : First(i)) = k
  <2> HIDE DEF First
  <2> QED
    BY <1>3, <1>4
<1>6. Seqs!Has(l, d)
  BY <1>1, <1>3 DEF Seqs!Has, Seqs!Contains
<1> QED
  BY <1>1, <1>2, <1>5, <1>6

LEMMA RemoveItemCall ==
  ASSUME ListInv, NEW l \in Lists, NEW d \in Items, List__remove_item(l, d)
  PROVE  ListInv' /\ (Seqs!RemoveItem(l, d) \/ UNCHANGED Seqs!lsvars)
<1> DEFINE c == Contents(l)
           n == len[l]
           p == Path(l)
<1>1. /\ TypeOK /\ c \in Seq(Items \cup {Null}) /\ Len(c) = n /\ "remove_item" \in Calls
      /\ n \in Nat
      /\ n > 0 => p[1] = head[l] /\ p[n] = tail[l] /\ next[tail[l]] = Null
      /\ \A i \in 1 .. n : p[i] \in Nodes /\ p[i] # Null /\ c[i] = data[p[i]]
      /\ \A i \in 1 .. n - 1 : next[p[i]] = p[i + 1]
      /\ \A i, j \in 1 .. n : p[i] = p[j] => i = j
  BY ContentsFacts, PathFacts DEF ListInv, Calls
<1>2. ASSUME NEW k \in 1 .. n, TypeOK', Removed(l, k), Return("remove_item", 1),
             c[k] = d, \A j \in 1 .. k - 1 : c[j] # d
      PROVE  ListInv' /\ Seqs!RemoveItem(l, d)
  <2>1. Seqs!Place(l, d) = k /\ Seqs!Has(l, d)
    BY <1>2, PlaceIs
  <2>2. ListInv' /\ Seqs!Becomes(l, Seqs!RemoveAt(c, k))
    BY <1>2, RemoveStep
  <2>3. [m \in Lists |-> Contents(m)][l] = c
    OBVIOUS
  <2> HIDE DEF c
  <2> QED
    BY <1>2, <2>1, <2>2, <2>3 DEF Seqs!RemoveItem, Seqs!Return, Seqs!Bool, Return
<1>3. CASE RemoveFromNull(l, d)
  <2>1. TypeOK' /\ UNCHANGED <<used, data, next, len, head, tail>> /\ ret' = ret
    BY <1>1, <1>3 DEF RemoveFromNull, TypeOK, heap, structs
  <2> QED
    BY <2>1, LookStep DEF Seqs!lsvars
<1>4. CASE /\ n > 0 /\ data[head[l]] = d
           /\ head' = [head EXCEPT ![l] = next[head[l]]]
           /\ Shorter(l) /\ Return("remove_item", 1)
           /\ UNCHANGED <<heap, tail>>
  <2>1. TypeOK' /\ Removed(l, 1) /\ 1 \in 1 .. n
    BY <1>1, <1>4, HeadGoes DEF heap
  <2>2. c[1] = d /\ \A j \in 1 .. 1 - 1 : c[j] # d
    BY <1>1, <1>4, <2>1
  <2> QED
    BY <1>2, <1>4, <2>1, <2>2
<1>5. ASSUME NEW k \in 2 .. n,
             LET b == p[k - 1]
             IN  /\ c[k] = d /\ \A j \in 1 .. k - 1 : c[j] # d
                 /\ next' = [next EXCEPT ![b] = next[next[b]]]
                 /\ tail' = IF next[next[b]] = Null THEN [tail EXCEPT ![l] = b] ELSE tail
                 /\ Shorter(l) /\ Return("remove_item", 1)
                 /\ UNCHANGED <<used, data, head>>
      PROVE  ListInv' /\ Seqs!RemoveItem(l, d)
  <2> DEFINE b == p[k - 1]
             x == IF k = n THEN Null ELSE p[k + 1]
  <2>1. /\ k \in 1 .. n /\ k - 1 \in 1 .. n - 1 /\ k - 1 \in 1 .. n /\ (k - 1) + 1 = k
        /\ n > 1 /\ k > 1 /\ n > 0 /\ (k # n => k \in 1 .. n - 1 /\ k + 1 \in 1 .. n)
    BY <1>1
  <2>2. b \in Nodes /\ next[b] = p[k] /\ next[p[k]] = x /\ x \in Nodes \cup {Null}
    BY <1>1, <2>1
  <2>3. x = Null <=> k = n
    BY <1>1, <2>1
  <2> HIDE DEF b, x
  <2>4. /\ next' = [next EXCEPT ![b] = x]
        /\ tail' = IF k = n THEN [tail EXCEPT ![l] = b] ELSE tail
        /\ Shorter(l) /\ Return("remove_item", 1) /\ UNCHANGED <<used, data, head>>
    BY <1>5, <2>2, <2>3 DEF b
  <2>5. /\ next' \in [Nodes -> Nodes \cup {Null}] /\ next'[b] = x
        /\ \A m \in Nodes : m = b \/ next'[m] = next[m]
        /\ tail' \in [Lists -> Nodes \cup {Null}] /\ tail'[l] = IF k = n THEN b ELSE tail[l]
        /\ \A m \in Lists \ {l} : tail'[m] = tail[m]
    BY <1>1, <2>2, <2>4 DEF TypeOK
  <2>6. TypeOK' /\ len'[l] = n - 1 /\ \A m \in Lists \ {l} : len'[m] = len[m]
    BY <1>1, <2>1, <2>4, <2>5, ShorterFacts DEF TypeOK
  <2>7. Removed(l, k)
    BY <2>1, <2>4, <2>5, <2>6 DEF Removed, OthersSame, b, x
  <2> QED
    BY <1>2, <1>5, <2>1, <2>4, <2>6, <2>7
<1> QED
  BY <1>3, <1>4, <1>5 DEF List__remove_item

-----------------------------------------------------------------------------
(* Calls that look and replace *)

\* What the loops of has_item, replace_idx and replace_item compare and write.
LEMMA LoopItems ==
  ASSUME ListInv, NEW l \in Lists
  PROVE  /\ Rounds(l) = len[l] /\ len[l] \in Nat /\ Len(Contents(l)) = len[l]
         /\ Contents(l) \in Seq(Items \cup {Null})
         /\ \A k \in 1 .. len[l] : /\ Loop(l)[k].node = Path(l)[k]
                                   /\ data[Loop(l)[k].node] = Contents(l)[k]
<1>1. \A k \in 1 .. len[l] : Contents(l)[k] = data[Path(l)[k]]
  BY ContentsFacts
<1>2. \A k \in 1 .. len[l] : Loop(l)[k].node = Path(l)[k]
  BY LoopFacts
<1> QED
  BY <1>1, <1>2, LoopFacts, ContentsFacts, PathFacts

LEMMA FindsIsHas ==
  ASSUME ListInv, NEW l \in Lists, NEW d
  PROVE  Finds(l, d) <=> Seqs!Has(l, d)
<1>1. Finds(l, d) <=> \E k \in 1 .. len[l] : Contents(l)[k] = d
  <2>1. Finds(l, d) <=> \E k \in 1 .. len[l] : data[Loop(l)[k].node] = d
    BY LoopItems DEF Finds
  <2> QED
    BY <2>1, LoopItems
<1>2. Seqs!Has(l, d) <=> \E k \in 1 .. len[l] : Contents(l)[k] = d
  BY LoopItems DEF Seqs!Has, Seqs!Contains
<1> QED
  BY <1>1, <1>2

\* A call that only answers.
LEMMA AnswerTyped ==
  ASSUME ListInv, NEW call \in Calls, NEW v \in Items \cup {Null, 1}, Return(call, v),
         UNCHANGED <<heap, structs>>
  PROVE  /\ ListInv' /\ UNCHANGED [m \in Lists |-> Contents(m)]
         /\ ret' = [call |-> call, value |-> v]
<1>1. TypeOK' /\ UNCHANGED <<used, data, next, len, head, tail>>
  BY DEF ListInv, TypeOK, Return, heap, structs
<1> QED
  BY <1>1, LookStep DEF Return

LEMMA GetCall ==
  ASSUME ListInv, NEW l \in Lists, NEW index \in 0 .. MaxNodes, List__get(l, index)
  PROVE  ListInv' /\ \E k \in 0 .. Len(Contents(l)) : Seqs!Get(l, k)
<1> DEFINE c == Contents(l)
           v == IF index >= len[l] THEN Null ELSE c[index + 1]
           k == IF index >= len[l] THEN len[l] ELSE index
<1>1. /\ len[l] \in Nat /\ Len(c) = len[l] /\ c \in Seq(Items \cup {Null})
      /\ index \in Nat
  BY LoopItems, ListBounds
<1>2. /\ k \in 0 .. Len(c) /\ (k < Len(c) <=> ~(index >= len[l]))
      /\ v = IF k < Len(c) THEN c[k + 1] ELSE Null
  BY <1>1
<1>3. v \in Items \cup {Null, 1}
  <2>1. ~(index >= len[l]) => index + 1 \in 1 .. Len(c)
    BY <1>1
  <2> HIDE DEF c
  <2> QED
    BY <1>1, <2>1
<1>4. Return("get", v) /\ UNCHANGED <<heap, structs>>
  <2>1. ~(index >= len[l]) => ItemAt(Path(l)[index + 1]) = c[index + 1]
    <3>1. ~(index >= len[l]) => index + 1 \in 1 .. len[l]
      BY <1>1
    <3> QED
      BY <3>1 DEF Contents
  <2> QED
    BY <2>1 DEF List__get
<1> HIDE DEF v, k, c
<1>5. /\ ListInv' /\ UNCHANGED [m \in Lists |-> Contents(m)]
      /\ ret' = [call |-> "get", value |-> v]
  BY <1>3, <1>4, AnswerTyped DEF Calls
<1>6. Seqs!Get(l, k)
  BY <1>2, <1>5 DEF Seqs!Get, Seqs!Return, c
<1> QED
  BY <1>2, <1>5, <1>6 DEF c

LEMMA HasItemCall ==
  ASSUME ListInv, NEW l \in Lists, NEW d \in Items, List__has_item(l, d)
  PROVE  ListInv' /\ Seqs!HasItem(l, d)
<1>1. Bool(Finds(l, d)) = Seqs!Bool(Seqs!Has(l, d)) /\ Bool(Finds(l, d)) \in {Null, 1}
  BY FindsIsHas DEF Bool, Seqs!Bool, Null
<1>2. /\ Return("has_item", Bool(Finds(l, d))) /\ UNCHANGED <<heap, structs>>
      /\ "has_item" \in Calls
  BY DEF List__has_item, Calls
<1>3. /\ ListInv' /\ UNCHANGED [m \in Lists |-> Contents(m)]
      /\ ret' = [call |-> "has_item", value |-> Bool(Finds(l, d))]
  <2> DEFINE v == Bool(Finds(l, d))
  <2>1. v \in Items \cup {Null, 1}
    BY <1>1
  <2> HIDE DEF v
  <2>2. Return("has_item", v)
    BY <1>2 DEF v
  <2>3. /\ ListInv' /\ UNCHANGED [m \in Lists |-> Contents(m)]
        /\ ret' = [call |-> "has_item", value |-> v]
    BY <1>2, <2>1, <2>2, AnswerTyped
  <2> QED
    BY <2>3 DEF v
<1> QED
  BY <1>1, <1>3 DEF Seqs!HasItem, Seqs!Return

LEMMA ReplacedStep ==
  ASSUME ListInv, NEW l \in Lists, NEW k \in 1 .. len[l], NEW d \in Items,
         NEW call \in Calls, Replaced(l, k, d, call)
  PROVE  /\ ListInv' /\ Seqs!Becomes(l, [Contents(l) EXCEPT ![k] = d])
         /\ ret' = [call |-> call, value |-> 1]
<1>1. /\ data' = [data EXCEPT ![Path(l)[k]] = d] /\ UNCHANGED <<used, next, structs>>
      /\ ret' = [call |-> call, value |-> 1] /\ proc' = proc
  BY LoopItems DEF Replaced, Return
<1>2. TypeOK'
  BY <1>1 DEF ListInv, TypeOK, structs
<1> QED
  BY <1>1, <1>2, ReplaceStep

LEMMA ReplaceIdxCall ==
  ASSUME ListInv, NEW l \in Lists, NEW d \in Items, NEW idx \in 0 .. MaxNodes,
         List__replace_idx(l, idx, d)
  PROVE  ListInv' /\ \E k \in 0 .. Len(Contents(l)) : Seqs!ReplaceIdx(l, k, d)
<1> DEFINE c == Contents(l)
<1>1. /\ len[l] \in Nat /\ Len(c) = len[l] /\ Rounds(l) = len[l] /\ idx \in Nat
      /\ "replace_idx" \in Calls /\ [m \in Lists |-> Contents(m)][l] = c
  BY LoopItems, ListBounds DEF Calls
<1> HIDE DEF c
<1>2. CASE idx < len[l]
  <2>1. idx + 1 \in 1 .. len[l] /\ idx \in 0 .. Len(c) /\ idx < Len(c)
    BY <1>1, <1>2
  <2>2. Replaced(l, idx + 1, d, "replace_idx")
    BY <1>1, <1>2 DEF List__replace_idx
  <2>3. /\ ListInv' /\ Seqs!Becomes(l, [c EXCEPT ![idx + 1] = d])
        /\ ret' = [call |-> "replace_idx", value |-> 1]
    BY <1>1, <2>1, <2>2, ReplacedStep DEF c
  <2>4. Seqs!ReplaceIdx(l, idx, d)
    BY <1>1, <2>1, <2>3 DEF Seqs!ReplaceIdx, Seqs!Return, Seqs!Bool
  <2> QED
    BY <2>1, <2>3, <2>4 DEF c
<1>3. CASE ~(idx < len[l])
  <2>1. Return("replace_idx", 0) /\ UNCHANGED <<heap, structs>>
    BY <1>1, <1>3 DEF List__replace_idx
  <2>2. /\ ListInv' /\ UNCHANGED [m \in Lists |-> Contents(m)]
        /\ ret' = [call |-> "replace_idx", value |-> 0]
    BY <1>1, <2>1, AnswerTyped DEF Null
  <2>3. Len(c) \in 0 .. Len(c) /\ ~(Len(c) < Len(c))
    BY <1>1
  <2>4. Seqs!ReplaceIdx(l, Len(c), d)
    BY <1>1, <2>2, <2>3 DEF Seqs!ReplaceIdx, Seqs!Return, Seqs!Bool
  <2> QED
    BY <2>2, <2>3, <2>4 DEF c
<1> QED
  BY <1>2, <1>3

LEMMA ReplaceItemCall ==
  ASSUME ListInv, NEW l \in Lists, NEW d \in Items, NEW e \in Items,
         List__replace_item(l, d, e)
  PROVE  ListInv' /\ Seqs!ReplaceItem(l, d, e)
<1> DEFINE c == Contents(l)
<1>1. /\ Rounds(l) = len[l] /\ [m \in Lists |-> Contents(m)][l] = c
      /\ "replace_item" \in Calls
      /\ \A k \in 1 .. len[l] : data[Loop(l)[k].node] = c[k]
      /\ len[l] \in Nat
  BY LoopItems DEF Calls
<1> HIDE DEF c
<1>2. CASE ~Finds(l, d) /\ Return("replace_item", 0) /\ UNCHANGED <<heap, structs>>
  <2>1. ~Seqs!Has(l, d)
    BY <1>2, FindsIsHas
  <2>2. /\ ListInv' /\ UNCHANGED [m \in Lists |-> Contents(m)]
        /\ ret' = [call |-> "replace_item", value |-> 0]
    BY <1>1, <1>2, AnswerTyped DEF Null
  <2> QED
    BY <2>1, <2>2 DEF Seqs!ReplaceItem, Seqs!Return, Seqs!Bool
<1>3. ASSUME NEW k \in 1 .. Rounds(l), data[Loop(l)[k].node] = d,
             \A j \in 1 .. k - 1 : data[Loop(l)[j].node] # d,
             Replaced(l, k, e, "replace_item")
      PROVE  ListInv' /\ Seqs!ReplaceItem(l, d, e)
  <2>1. k \in 1 .. len[l] /\ \A j \in 1 .. k - 1 : j \in 1 .. len[l]
    BY <1>1
  <2>2. c[k] = d /\ \A j \in 1 .. k - 1 : c[j] # d
    BY <1>1, <1>3, <2>1
  <2>3. Seqs!Place(l, d) = k /\ Seqs!Has(l, d)
    BY <2>1, <2>2, PlaceIs DEF c
  <2>4. /\ ListInv' /\ Seqs!Becomes(l, [c EXCEPT ![k] = e])
        /\ ret' = [call |-> "replace_item", value |-> 1]
    BY <1>1, <1>3, <2>1, ReplacedStep DEF c
  <2> QED
    BY <1>1, <2>3, <2>4 DEF Seqs!ReplaceItem, Seqs!Return, Seqs!Bool
<1> QED
  BY <1>2, <1>3 DEF List__replace_item

-----------------------------------------------------------------------------
(* The theorems *)

LEMMA ListStep ==
  ASSUME ListInv, [Next]_vars
  PROVE  ListInv' /\ [Seqs!Next \/ InsortPassesHead]_(Seqs!lsvars)
<1>1. CASE UNCHANGED vars
  <2>1. TypeOK' /\ UNCHANGED <<used, data, next, len, head, tail>> /\ ret' = ret
    BY <1>1 DEF vars, heap, structs, ListInv, TypeOK
  <2> QED
    BY <2>1, LookStep DEF Seqs!lsvars
<1>2. CASE ListIt__eachOfNull
  <2>1. TypeOK' /\ UNCHANGED <<used, data, next, len, head, tail>> /\ ret' = ret
    BY <1>2 DEF ListIt__eachOfNull, heap, structs, ListInv, TypeOK
  <2> QED
    BY <2>1, LookStep DEF Seqs!lsvars
<1>3. ASSUME NEW l \in Lists, Call(l) PROVE ListInv' /\ [Seqs!Next \/ InsortPassesHead]_(Seqs!lsvars)
  <2>1. Len([m \in Lists |-> Contents(m)][l]) = Len(Contents(l))
    OBVIOUS
  <2>2. CASE List__reset(l)
    BY <2>2, ResetCall DEF Seqs!Next
  <2>3. CASE List__shift(l)
    BY <2>3, ShiftCall DEF Seqs!Next
  <2>4. CASE List__pop(l)
    BY <2>4, PopCall DEF Seqs!Next
  <2>5. ASSUME NEW a \in Lists, NEW b \in Lists, List__merge(l, a, b)
        PROVE  ListInv' /\ [Seqs!Next \/ InsortPassesHead]_(Seqs!lsvars)
    BY <2>5, MergeStep DEF Seqs!Next
  <2>6. ASSUME NEW index \in 0 .. MaxNodes, List__get(l, index)
        PROVE  ListInv' /\ [Seqs!Next \/ InsortPassesHead]_(Seqs!lsvars)
    BY <2>1, <2>6, GetCall DEF Seqs!Next
  <2>7. ASSUME NEW d \in Items, List__prepend(l, d)
        PROVE  ListInv' /\ [Seqs!Next \/ InsortPassesHead]_(Seqs!lsvars)
    BY <2>7, PrependCall DEF Seqs!Next
  <2>8. ASSUME NEW d \in Items, List__append(l, d)
        PROVE  ListInv' /\ [Seqs!Next \/ InsortPassesHead]_(Seqs!lsvars)
    BY <2>8, AppendCall DEF Seqs!Next
  <2>9. ASSUME NEW d \in Items, List__insort(l, d)
        PROVE  ListInv' /\ [Seqs!Next \/ InsortPassesHead]_(Seqs!lsvars)
    BY <2>9, InsortCall DEF Seqs!Next
  <2>10. ASSUME NEW d \in Items, List__remove_item(l, d)
         PROVE  ListInv' /\ [Seqs!Next \/ InsortPassesHead]_(Seqs!lsvars)
    BY <2>10, RemoveItemCall DEF Seqs!Next
  <2>11. ASSUME NEW d \in Items, List__has_item(l, d)
         PROVE  ListInv' /\ [Seqs!Next \/ InsortPassesHead]_(Seqs!lsvars)
    BY <2>11, HasItemCall DEF Seqs!Next
  <2>12. ASSUME NEW d \in Items, NEW idx \in 0 .. MaxNodes, List__replace_idx(l, idx, d)
         PROVE  ListInv' /\ [Seqs!Next \/ InsortPassesHead]_(Seqs!lsvars)
    BY <2>1, <2>12, ReplaceIdxCall DEF Seqs!Next
  <2>13. ASSUME NEW d \in Items, NEW e \in Items, List__replace_item(l, d, e)
         PROVE  ListInv' /\ [Seqs!Next \/ InsortPassesHead]_(Seqs!lsvars)
    BY <2>13, ReplaceItemCall DEF Seqs!Next
  <2> QED
    BY <1>3, <2>2, <2>3, <2>4, <2>5, <2>6, <2>7, <2>8, <2>9, <2>10, <2>11, <2>12, <2>13
    DEF Call
<1> QED
  BY <1>1, <1>2, <1>3 DEF Next

\* The lists the pointers stand for begin empty.
LEMMA SeqsInit == Init => Seqs!Init
<1> SUFFICES ASSUME Init PROVE Seqs!Init
  OBVIOUS
<1>1. ListInv
  BY ListInit
<1>2. ASSUME NEW l \in Lists PROVE Contents(l) = << >>
  <2>1. Contents(l) \in Seq(Items \cup {Null}) /\ Len(Contents(l)) = 0
    BY <1>1, ContentsFacts DEF Init
  <2> DEFINE c == Contents(l)
  <2> HIDE DEF c
  <2>2. c = << >>
    BY <2>1, EmptySeq DEF c
  <2> QED
    BY <2>2 DEF c
<1> QED
  BY <1>2 DEF Seqs!Init, Init

\* What the invariant says of the pointers and of the loops.
LEMMA InvMeans == ListInv => TypeOK /\ WellFormed /\ LoopSeesContents
<1> SUFFICES ASSUME ListInv PROVE TypeOK /\ WellFormed /\ LoopSeesContents
  OBVIOUS
<1>1. WellFormed
  BY PathFacts DEF WellFormed, ListInv, Apart
<1>2. LoopSeesContents
  <2> SUFFICES ASSUME NEW l \in Lists
               PROVE  /\ Rounds(l) = len[l]
                      /\ \A k \in 1 .. len[l] : /\ data[Loop(l)[k].node] = Contents(l)[k]
                                                /\ Loop(l)[k].i = k - 1
    BY DEF LoopSeesContents
  <2> QED
    BY LoopFacts, LoopItems
<1> QED
  BY <1>1, <1>2 DEF ListInv

\* After any sequence of calls on any number of lists, the pointers of each list and its
\* len agree, no node is in two places, and a loop over a list sees its items once and in
\* order (List.c).
THEOREM ListSafety == Spec => [](TypeOK /\ WellFormed /\ LoopSeesContents)
<1>1. ListInv /\ [Next]_vars => ListInv'
  BY ListStep
<1> QED
  BY <1>1, ListInit, InvMeans, PTL DEF Spec

\* The nodes behave as one sequence of items for each list: every call answers about, or
\* changes, the sequence of its own list and no other (List.c); only List__insort, of an
\* item that belongs in front of the head, puts it elsewhere.
THEOREM ListIsSequence == Spec => IsSequence
<1>1. ListInv /\ [Next]_vars => ListInv' /\ [Seqs!Next \/ InsortPassesHead]_(Seqs!lsvars)
  BY ListStep
<1> QED
  BY <1>1, ListInit, SeqsInit, PTL DEF Spec, IsSequence
===================================================================================
