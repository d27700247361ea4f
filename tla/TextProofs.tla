------------------------------- MODULE TextProofs -------------------------------
(***************************************************************************)
(* Proofs about String, for every text, format, size of the arena and      *)
(* number of Str8: what its views and copies say, and what a scan takes.   *)
(* At the end, about Json: that it stays inside any document at all, and   *)
(* reads one of known lexemes token by token.                              *)
(***************************************************************************)
EXTENDS String, Json, FiniteSetTheorems, SequenceTheorems, TLAPS

-----------------------------------------------------------------------------
(* Least and greatest numbers *)

\* The intervals 0 .. x are ordered by inclusion as their ends are, and inclusion of
\* finite sets is well-founded.
LEMMA LeastNatural ==
  ASSUME NEW T, T \subseteq Nat, T # {}
  PROVE  \E x \in T : \A y \in T : x <= y
<1> DEFINE F == {0 .. x : x \in T}
<1>1. F \subseteq FiniteSubsetsOf(Nat)
  <2>1. \A x \in T : IsFiniteSet(0 .. x) /\ 0 .. x \subseteq Nat
    BY FS_Interval
  <2> QED
    BY <2>1 DEF FiniteSubsetsOf
<1>2. PICK A \in F : \A B \in F : ~(<<B, A>> \in StrictSubsetOrdering(Nat))
  <2>1. F # {}
    OBVIOUS
  <2> HIDE DEF F
  <2> QED
    BY <1>1, <2>1, FS_StrictSubsetOrderingWellFounded, WFMin
<1>3. PICK x \in T : A = 0 .. x
  OBVIOUS
<1>4. ASSUME NEW y \in T, y < x PROVE FALSE
  <2>1. x \in 0 .. x /\ x \notin 0 .. y
    BY <1>4
  <2>2. 0 .. y \subseteq 0 .. x /\ 0 .. y # 0 .. x
    BY <1>4, <2>1
  <2>3. 0 .. y \in F
    OBVIOUS
  <2> QED
    BY <1>1, <1>2, <1>3, <2>2, <2>3 DEF StrictSubsetOrdering, FiniteSubsetsOf
<1> QED
  BY <1>4

LEMMA MinFacts ==
  ASSUME NEW T, T \subseteq Nat, T # {}
  PROVE  Min(T) \in T /\ \A y \in T : Min(T) <= y
BY LeastNatural DEF Min

LEMMA MaxFacts ==
  ASSUME NEW b \in Nat, NEW T, T \subseteq 0 .. b, T # {}
  PROVE  Max(T) \in T /\ \A y \in T : Max(T) >= y
<1> DEFINE D == {b - x : x \in T}
<1>1. PICK d \in D : \A y \in D : d <= y
  <2>1. \A x \in T : x \in 0 .. b /\ b - x \in Nat
    OBVIOUS
  <2>2. D \subseteq Nat /\ D # {}
    BY <2>1
  <2> HIDE DEF D
  <2> QED
    BY <2>2, LeastNatural
<1>2. b - d \in T /\ \A y \in T : b - d >= y
  <2>1. PICK x \in T : d = b - x
    OBVIOUS
  <2>2. b - d = x
    BY <2>1
  <2>3. ASSUME NEW y \in T PROVE d <= b - y
    BY <1>1
  <2> QED
    BY <2>2, <2>3
<1> QED
  BY <1>2 DEF Max

\* The text lies below Base.
LEMMA BaseFacts ==
  Base \in Nat /\ Top \in Nat /\ Base <= Top /\ \A t \in Texts : Len(t) \in Nat /\ Len(t) < Base
<1> DEFINE L == {Len(t) : t \in Texts}
<1>1. L \subseteq 0 .. U16 /\ L # {} /\ U16 \in Nat
  <2>1. ASSUME NEW t \in Texts PROVE Len(t) \in 0 .. U16
    <3>1. t \in Seq(STRING) /\ Len(t) < U16
      BY StringTexts
    <3> QED
      BY <3>1, StringBounds
  <2> QED
    BY <2>1, StringBounds, StringTexts
<1>2. Max(L) \in L /\ \A y \in L : Max(L) >= y
  <2> HIDE DEF L
  <2> QED
    BY <1>1, MaxFacts
<1> HIDE DEF L
<1>5. Max(L) \in Nat
  <2>1. Max(L) \in 0 .. U16
    BY <1>1, <1>2
  <2>2. \A x \in 0 .. U16 : x \in Nat
    BY <1>1
  <2> QED
    BY <2>1, <2>2
<1>3. ASSUME NEW t \in Texts PROVE Len(t) \in Nat /\ Len(t) < Base
  <2>1. Len(t) \in L
    BY DEF L
  <2>2. Len(t) \in Nat
    BY StringTexts
  <2>3. Base = 1 + Max(L)
    BY DEF Base, L
  <2> QED
    BY <1>2, <1>5, <2>1, <2>2, <2>3
<1>4. Base \in Nat
  <2>1. Base = 1 + Max(L)
    BY DEF Base, L
  <2> QED
    BY <1>5, <2>1
<1> QED
  BY <1>3, <1>4, StringBounds DEF Top

-----------------------------------------------------------------------------
(* The length of what has none yet *)

CstrlenIn(m, at) == Min({i \in 0 .. Top - at : m[at + i] = "NUL" \/ at + i = Top})

LEMMA CstrlenIsIn ==
  ASSUME NEW at
  PROVE  Str8__cstrlen(at) = CstrlenIn(mem, at) /\ Str8__cstrlen(at)' = CstrlenIn(mem', at)
BY DEF Str8__cstrlen, CstrlenIn

\* The first NUL from at on is k characters away.
LEMMA FirstNul ==
  ASSUME NEW m, NEW at \in 0 .. Top, NEW k \in Nat, at + k <= Top, m[at + k] = "NUL",
         \A i \in at .. at + k - 1 : m[i] # "NUL"
  PROVE  CstrlenIn(m, at) = k
<1> DEFINE T == {i \in 0 .. Top - at : m[at + i] = "NUL" \/ at + i = Top}
<1>1. k \in T /\ T \subseteq Nat
  BY BaseFacts
<1>2. ASSUME NEW i \in T, i < k PROVE FALSE
  <2>1. at + i \in at .. at + k - 1 /\ at + i # Top
    BY <1>2, BaseFacts
  <2> QED
    BY <2>1
<1>3. Min(T) \in T /\ Min(T) <= k
  BY <1>1, MinFacts
<1>4. Min(T) = k
  <2> HIDE DEF T
  <2>1. Min(T) \in Nat /\ ~ (Min(T) < k)
    BY <1>1, <1>2, <1>3
  <2> QED
    BY <1>3, <2>1
<1> QED
  BY <1>4 DEF CstrlenIn

LEMMA CstrlenFacts ==
  ASSUME NEW at \in 0 .. Top
  PROVE  /\ Str8__cstrlen(at) \in 0 .. Top - at
         /\ \A i \in at .. at + Str8__cstrlen(at) - 1 : mem[i] # "NUL"
<1> DEFINE T == {i \in 0 .. Top - at : mem[at + i] = "NUL" \/ at + i = Top}
<1>1. Top - at \in T /\ T \subseteq Nat
  BY BaseFacts
<1>2. Min(T) \in T /\ \A y \in T : Min(T) <= y
  <2> HIDE DEF T
  <2> QED
    BY <1>1, MinFacts
<1>3. ASSUME NEW i \in at .. at + Min(T) - 1 PROVE mem[i] # "NUL"
  <2>1. i - at \in 0 .. Top - at /\ at + (i - at) = i /\ i - at < Min(T) /\ Min(T) \in Nat
    BY <1>1, <1>2, BaseFacts
  <2>2. i - at \notin T
    <3> HIDE DEF T
    <3> QED
      BY <1>2, <2>1
  <2> QED
    BY <2>1, <2>2
<1> QED
  BY <1>2, <1>3 DEF Str8__cstrlen

LEMMA ModFacts ==
  ASSUME NEW k \in Nat, NEW n \in Nat \ {0}
  PROVE  k % n \in 0 .. n - 1 /\ (k < n => k % n = k)
OBVIOUS

LEMMA U16Facts == U16 \in Nat \ {0}
<1>1. PICK t \in Texts : t \in Seq(STRING) /\ Len(t) < U16
  BY StringTexts
<1> QED
  BY <1>1, StringBounds

\* Str8__init changes a length that is not known, once.
LEMMA InitFacts ==
  ASSUME NEW s \in Views, s.at # NULL
  PROVE  /\ Str8__init(s) \in Views /\ Str8__init(s).at = s.at /\ s.at \in 0 .. Top
         /\ Str8__init(s).slice = s.slice /\ Str8__init(s).life = s.life
         /\ (s.len = 0 /\ ~s.slice) \/ Str8__init(s) = s
         /\ s.len = 0 /\ ~s.slice => Str8__init(s).len = Str8__cstrlen(s.at) % U16
         /\ Str8__init(Str8__init(s)) = Str8__init(s)
<1>1. /\ s.at \in 0 .. Top /\ s.len \in 0 .. U16 - 1 /\ s.slice \in BOOLEAN
      /\ s.life \in Lifetime
      /\ s = [at |-> s.at, len |-> s.len, slice |-> s.slice, life |-> s.life]
  BY DEF Views
<1>2. CASE s.len = 0 /\ ~s.slice
  <2> DEFINE k == Str8__cstrlen(s.at)
             r == [s EXCEPT !.len = k % U16]
  <2>1. k % U16 \in 0 .. U16 - 1
    BY <1>1, CstrlenFacts, BaseFacts, U16Facts, ModFacts
  <2>2. Str8__init(s) = r
    BY <1>2 DEF Str8__init
  <2>3. /\ r \in Views /\ r.at = s.at /\ r.slice = s.slice /\ r.life = s.life
        /\ r.len = k % U16
    <3> HIDE DEF k
    <3> QED
      BY <1>1, <2>1 DEF Views
  <2>4. Str8__init(r) = r
    <3>1. CASE r.len = 0
      <4>1. r = s
        <5>1. r = [at |-> s.at, len |-> r.len, slice |-> s.slice, life |-> s.life]
          <6> HIDE DEF k
          <6> QED
            BY <1>1
        <5> QED
          BY <1>1, <1>2, <3>1, <5>1
      <4> QED
        BY <2>2, <4>1
    <3>2. CASE r.len # 0
      BY <3>2 DEF Str8__init
    <3> QED
      BY <3>1, <3>2
  <2>5. Str8__init(Str8__init(s)) = Str8__init(s)
    <3> HIDE DEF r
    <3> QED
      BY <2>2, <2>4
  <2> HIDE DEF k, r
  <2> QED
    BY <1>1, <1>2, <2>2, <2>3, <2>5 DEF k
<1>3. CASE ~ (s.len = 0 /\ ~s.slice)
  <2>1. Str8__init(s) = s
    BY <1>3 DEF Str8__init
  <2>2. Str8__init(Str8__init(s)) = Str8__init(s)
    BY <2>1
  <2>3. Str8__init(s) \in Views
    BY <2>1
  <2>4. /\ Str8__init(s).at = s.at /\ Str8__init(s).slice = s.slice
        /\ Str8__init(s).life = s.life
    BY <2>1
  <2>5. s.len = 0 /\ ~s.slice => Str8__init(s).len = Str8__cstrlen(s.at) % U16
    BY <1>3
  <2>6. s.at \in 0 .. Top
    BY <1>1
  <2> QED
    BY <2>1, <2>2, <2>3, <2>4, <2>5, <2>6
<1> QED
  BY <1>2, <1>3

-----------------------------------------------------------------------------
(* The invariant *)

\* The SMT backend does not take a string of one space: Space stays unexpanded.
Space == " "

LEMMA SpaceIs == "-" # Space /\ "." # Space /\ "/" # Space /\ "1" # Space
BY Zenon DEF Space

\* The provers do not know that a literal is a member of STRING.
Characters == STRING \cup {"NUL"}

LEMMA CharacterFacts == "NUL" \in Characters /\ \A t \in Seq(STRING) : t \in Seq(Characters)
<1>1. STRING \subseteq Characters /\ "NUL" \in Characters
  BY DEF Characters
<1>2. ASSUME NEW t \in Seq(STRING) PROVE t \in Seq(Characters)
  <2>1. Len(t) \in Nat /\ t \in [1 .. Len(t) -> STRING]
    OBVIOUS
  <2>2. t \in [1 .. Len(t) -> Characters]
    BY <1>1, <2>1
  <2> QED
    BY <2>1, <2>2
<1> QED
  BY <1>1, <1>2

\* What ends with a space is not followed by a '-', which "%d" would take without being
\* part of what it reads.
Parted(at, len) == len > 0 /\ mem[at + len - 1] = Space => mem[at + len] # "-"

\* A Str8 whose length is known lies in one buffer, holds no NUL, and has one behind it
\* unless it is a slice.
InMemory(s) ==
  /\ \E b \in buffers : b.lo <= s.at /\ s.at + s.len <= b.hi
  /\ \A i \in s.at .. s.at + s.len - 1 : mem[i] # "NUL"
  /\ s.slice \/ mem[s.at + s.len] = "NUL"
  /\ Parted(s.at, s.len)

\* What lies at lo .. hi is part of the text, or of what was pushed.
Placeable(lo, hi) == lo \in Nat /\ hi \in Nat /\ (hi < Base \/ (Base <= lo /\ hi < pos))

Says(g) ==
  /\ g.at \in Nat /\ g.text \in Seq(Characters)
  /\ \A i \in DOMAIN g.text : g.text[i] # "NUL" /\ mem[g.at + i - 1] = g.text[i]
  /\ mem[g.at + Len(g.text)] = "NUL"
  /\ Placeable(g.at, g.at + Len(g.text))

Held(s) ==
  /\ InMemory(Str8__init(s))
  /\ s.life = "ARENA1" <=> Base <= s.at

\* What was not pushed is NUL, and so is the byte behind the arena.
MemoryInv ==
  /\ pos \in Base .. Top /\ ~wild
  /\ mem \in [0 .. Top -> Characters] /\ \A i \in pos .. Top : mem[i] = "NUL"
  /\ \A b \in buffers : Placeable(b.lo, b.hi)
  /\ \E t \in Texts : [at |-> 0, text |-> t] \in given /\ [lo |-> 0, hi |-> Len(t)] \in buffers

StringInv ==
  /\ MemoryInv
  /\ view \in [Names -> Views]
  /\ \A g \in given : Says(g)
  /\ \A n \in Names : view[n].at # NULL => Held(view[n])

LEMMA InMemoryFacts ==
  ASSUME MemoryInv, NEW s \in Views, s.at # NULL, InMemory(s)
  PROVE  /\ s.at \in Nat /\ s.len \in Nat /\ s.at + s.len \in 0 .. Top
         /\ Placeable(s.at, s.at + s.len)
<1>1. s.at \in Nat /\ s.len \in Nat /\ s.at <= Top
  BY BaseFacts, U16Facts DEF Views
<1>2. PICK b \in buffers : b.lo <= s.at /\ s.at + s.len <= b.hi
  BY DEF InMemory
<1>3. Placeable(b.lo, b.hi)
  BY DEF MemoryInv
<1>4. pos \in Base .. Top
  BY DEF MemoryInv
<1> QED
  BY <1>1, <1>2, <1>3, <1>4, BaseFacts DEF Placeable

\* What lies where nothing was written is what it was.
LEMMA FrameMemory ==
  ASSUME MemoryInv, NEW s \in Views, s.at # NULL, InMemory(Str8__init(s)),
         \A b \in buffers : b.lo <= s.at => b \in buffers',
         \A i \in 0 .. pos - 1 : (s.at < Base => i < Base) => mem'[i] = mem[i]
  PROVE  Str8__init(s)' = Str8__init(s) /\ InMemory(Str8__init(s))'
<1>1. PICK r : r = Str8__init(s)
  OBVIOUS
<1>2. /\ r \in Views /\ r.at = s.at /\ r.slice = s.slice
      /\ (s.len = 0 /\ ~s.slice) \/ r = s
      /\ s.at \in 0 .. Top
  BY <1>1, InitFacts
<1>3. InMemory(r)
  BY <1>1
<1>4. r.len \in Nat /\ r.len < U16 /\ r.at + r.len \in 0 .. Top /\ Placeable(r.at, r.at + r.len)
  BY <1>2, <1>3, InMemoryFacts, U16Facts DEF Views
<1>5. ASSUME NEW i \in r.at .. r.at + r.len PROVE mem'[i] = mem[i]
  <2>1. i \in 0 .. pos - 1 /\ (s.at < Base => i < Base)
    BY <1>2, <1>4, BaseFacts DEF Placeable, MemoryInv
  <2> QED
    BY <2>1
<1>6. ASSUME NEW i \in r.at .. r.at + r.len - 1 PROVE mem[i] # "NUL" /\ mem'[i] # "NUL"
  <2>1. i \in r.at .. r.at + r.len
    BY <1>2, <1>4
  <2> QED
    BY <1>3, <1>5, <2>1 DEF InMemory
<1>7. r.slice \/ (mem[r.at + r.len] = "NUL" /\ mem'[r.at + r.len] = "NUL")
  <2>1. r.at + r.len \in r.at .. r.at + r.len
    BY <1>2, <1>4
  <2> QED
    BY <1>3, <1>5, <2>1 DEF InMemory
<1>8. Str8__init(s)' = r
  <2>1. CASE s.len = 0 /\ ~s.slice
    <3>1. CstrlenIn(mem, s.at) = r.len
      BY <1>2, <1>4, <1>6, <1>7, <2>1, FirstNul
    <3>2. CstrlenIn(mem', s.at) = r.len
      BY <1>2, <1>4, <1>6, <1>7, <2>1, FirstNul
    <3>3. Str8__cstrlen(s.at) = Str8__cstrlen(s.at)'
      BY <3>1, <3>2, CstrlenIsIn
    <3> QED
      BY <1>1, <2>1, <3>3 DEF Str8__init
  <2>2. CASE ~ (s.len = 0 /\ ~s.slice)
    BY <1>1, <2>2 DEF Str8__init
  <2> QED
    BY <2>1, <2>2
<1>9. \E b \in buffers' : b.lo <= r.at /\ r.at + r.len <= b.hi
  BY <1>2, <1>3 DEF InMemory
<1>90. Parted(r.at, r.len)'
  <2>1. CASE r.len > 0
    <3>1. r.at + r.len - 1 \in r.at .. r.at + r.len /\ r.at + r.len \in r.at .. r.at + r.len
      BY <1>2, <1>4, <2>1
    <3>2. Parted(r.at, r.len)
      BY <1>3 DEF InMemory
    <3> QED
      BY <1>5, <3>1, <3>2 DEF Parted
  <2>2. CASE ~ (r.len > 0)
    BY <2>2 DEF Parted
  <2> QED
    BY <2>1, <2>2
<1>10. InMemory(r)'
  BY <1>6, <1>7, <1>9, <1>90 DEF InMemory
<1>11. InMemory(Str8__init(s))' = InMemory(r)'
  BY <1>8 DEF InMemory
<1> QED
  BY <1>1, <1>8, <1>10, <1>11

-----------------------------------------------------------------------------
(* What a step that writes only to the arena's free bytes leaves as it is *)

Keeps ==
  /\ buffers \subseteq buffers' /\ given \subseteq given'
  /\ pos <= pos'
  /\ \A i \in 0 .. pos - 1 : mem'[i] = mem[i]

LEMMA SayingStays ==
  ASSUME MemoryInv, Keeps, pos' \in Nat, NEW g, Says(g)
  PROVE  Says(g)'
<1>1. /\ g.at \in Nat /\ g.text \in Seq(Characters) /\ Len(g.text) \in Nat
      /\ Placeable(g.at, g.at + Len(g.text)) /\ Placeable(g.at, g.at + Len(g.text))'
  BY BaseFacts DEF Says, Keeps, Placeable, MemoryInv
<1>2. \A i \in g.at .. g.at + Len(g.text) : i \in 0 .. pos - 1 /\ mem'[i] = mem[i]
  BY <1>1, BaseFacts DEF Placeable, MemoryInv, Keeps
<1>3. ASSUME NEW i \in DOMAIN g.text
      PROVE  g.text[i] # "NUL" /\ mem'[g.at + i - 1] = g.text[i]
  <2>1. g.at + i - 1 \in g.at .. g.at + Len(g.text)
    BY <1>1
  <2> QED
    BY <1>2, <2>1 DEF Says
<1>4. mem'[g.at + Len(g.text)] = "NUL"
  <2>1. g.at + Len(g.text) \in g.at .. g.at + Len(g.text)
    BY <1>1
  <2> QED
    BY <1>2, <2>1 DEF Says
<1> QED
  BY <1>1, <1>3, <1>4 DEF Says

\* Whether its length is worked out or not
LEMMA HeldStays ==
  ASSUME MemoryInv, Keeps, NEW s \in Views, s.at # NULL, Held(s),
         NEW r, r = s \/ r = Str8__init(s)
  PROVE  r \in Views /\ r.at # NULL /\ Held(r)'
<1>1. /\ r \in Views /\ r.at = s.at /\ r.life = s.life
      /\ Str8__init(r) = Str8__init(s)
  BY InitFacts
<1>2. InMemory(Str8__init(r))
  BY <1>1 DEF Held
<1>3. InMemory(Str8__init(r))'
  BY <1>1, <1>2, FrameMemory DEF Keeps
<1> QED
  BY <1>1, <1>3 DEF Held

LEMMA InitedIs == \A r \in Views : r.at # NULL /\ InMemory(r) => Str8__init(r) = r
<1> SUFFICES ASSUME NEW r \in Views, r.at # NULL, InMemory(r) PROVE Str8__init(r) = r
  OBVIOUS
<1>1. r.at \in 0 .. Top
  BY InitFacts
<1>2. CASE r.len = 0 /\ ~r.slice
  <2>1. mem[r.at] = "NUL"
    BY <1>1, <1>2, BaseFacts DEF InMemory
  <2>2. CstrlenIn(mem, r.at) = 0
    BY <1>1, <2>1, BaseFacts, FirstNul
  <2>3. Str8__init(r).len = 0 % U16
    BY <1>2, <2>2, CstrlenIsIn, InitFacts
  <2>4. Str8__init(r) = [r EXCEPT !.len = 0]
    BY <1>2, <2>2, CstrlenIsIn, U16Facts, ModFacts DEF Str8__init
  <2> QED
    BY <1>2, <2>4 DEF Views
<1>3. CASE ~ (r.len = 0 /\ ~r.slice)
  BY <1>3 DEF Str8__init
<1> QED
  BY <1>2, <1>3

LEMMA InitedIsNext == (\A r \in Views : r.at # NULL /\ InMemory(r) => Str8__init(r) = r)'
BY InitedIs, PTL

LEMMA HeldFrom ==
  ASSUME NEW r \in Views, r.at # NULL, r.life = "ARENA1" <=> Base <= r.at
  PROVE  (InMemory(r) => Held(r)) /\ (InMemory(r)' => Held(r)')
BY InitedIs, InitedIsNext DEF Held

\* An end of a piece of a Str8 is a place in it, or the NUL behind it.
LEMMA PieceHeld ==
  ASSUME MemoryInv, NEW s \in Views, s.at # NULL, InMemory(s),
         s.life = "ARENA1" <=> Base <= s.at,
         NEW b \in Nat, NEW e \in Nat, b <= e, e <= s.len,
         NEW r \in Views, r.at = s.at + b, r.len = e - b, r.life = s.life,
         r.slice \/ mem[s.at + e] = "NUL",
         e = s.len \/ Parted(s.at + b, e - b)
  PROVE  r.at # NULL /\ Held(r)
<1>1. /\ s.at \in Nat /\ s.len \in Nat /\ s.at + s.len \in 0 .. Top
      /\ Placeable(s.at, s.at + s.len)
  BY InMemoryFacts
<1>2. r.at # NULL /\ r.at + r.len = s.at + e
  BY <1>1 DEF NULL
<1>3. \E c \in buffers : c.lo <= r.at /\ r.at + r.len <= c.hi
  <2>1. PICK c \in buffers : c.lo <= s.at /\ s.at + s.len <= c.hi
    BY DEF InMemory
  <2>2. c.lo \in Nat /\ c.hi \in Nat
    BY DEF MemoryInv, Placeable
  <2> QED
    BY <1>1, <1>2, <2>1, <2>2
<1>4. ASSUME NEW i \in r.at .. r.at + r.len - 1 PROVE mem[i] # "NUL"
  <2>1. i \in s.at .. s.at + s.len - 1
    BY <1>1, <1>2
  <2> QED
    BY <2>1 DEF InMemory
<1>7. Parted(r.at, r.len)
  <2>1. CASE e = s.len
    <3>1. /\ r.at + r.len - 1 = s.at + s.len - 1 /\ r.at + r.len = s.at + s.len
          /\ r.len > 0 => s.len > 0
      BY <1>1, <2>1
    <3>2. Parted(s.at, s.len)
      BY DEF InMemory
    <3> QED
      BY <3>1, <3>2 DEF Parted
  <2> QED
    BY <2>1
<1>5. InMemory(r)
  BY <1>2, <1>3, <1>4, <1>7 DEF InMemory
<1>6. r.life = "ARENA1" <=> Base <= r.at
  BY <1>1, BaseFacts DEF Placeable
<1> QED
  BY <1>2, <1>5, <1>6, HeldFrom

LEMMA QuietStep ==
  ASSUME MemoryInv, UNCHANGED <<mem, buffers, pos>>, ~wild', given \subseteq given'
  PROVE  Keeps /\ MemoryInv'
<1>1. Keeps
  BY BaseFacts DEF Keeps, MemoryInv
<1>2. MemoryInv'
  BY DEF MemoryInv, Placeable
<1> QED
  BY <1>1, <1>2

\* A block is filled, as far as the text goes.
LEMMA PlacedStep ==
  ASSUME MemoryInv, NEW text \in Seq(Characters), NEW size \in Nat \ {0}, Len(text) <= size,
         Placed(text, size), given \subseteq given'
  PROVE  /\ Keeps /\ MemoryInv'
         /\ pos + size <= pos' /\ [lo |-> pos, hi |-> pos + size - 1] \in buffers'
         /\ \A i \in 1 .. Len(text) : mem'[pos + i - 1] = text[i]
         /\ \A i \in pos + Len(text) .. Top : mem'[i] = "NUL"
<1>1. /\ pos \in Nat /\ Base <= pos /\ pos + size <= Top /\ pos' = pos + size
      /\ buffers' = buffers \cup {[lo |-> pos, hi |-> pos + size - 1]} /\ ~wild'
      /\ mem' = [i \in 0 .. Top |->
                   IF i \in pos .. pos + Len(text) - 1 THEN text[i - pos + 1] ELSE mem[i]]
      /\ Len(text) \in Nat /\ mem \in [0 .. Top -> Characters]
  <2>1. Len(text) \in Nat /\ mem \in [0 .. Top -> Characters] /\ pos \in Nat /\ Base <= pos
    BY BaseFacts DEF MemoryInv
  <2>2. ~wild'
    <3>1. ~ (Len(text) > size)
      BY <2>1
    <3> QED
      BY <3>1, Zenon DEF MemoryInv, Placed
  <2> QED
    BY <2>1, <2>2 DEF Placed
<1>2. Keeps
  BY <1>1, BaseFacts DEF Keeps
<1>3. ASSUME NEW i \in 1 .. Len(text) PROVE mem'[pos + i - 1] = text[i]
  <2>1. pos + i - 1 \in pos .. pos + Len(text) - 1 /\ pos + i - 1 \in 0 .. Top
        /\ (pos + i - 1) - pos + 1 = i
    BY <1>1, BaseFacts
  <2> QED
    BY <1>1, <2>1
<1>4. ASSUME NEW i \in pos + Len(text) .. Top PROVE mem'[i] = "NUL"
  <2>1. i \in pos .. Top /\ i \in 0 .. Top /\ i \notin pos .. pos + Len(text) - 1
    BY <1>1, BaseFacts
  <2> QED
    BY <1>1, <2>1 DEF MemoryInv
<1>5. mem' \in [0 .. Top -> Characters]
  <2>1. ASSUME NEW i \in 0 .. Top, i \in pos .. pos + Len(text) - 1
        PROVE  text[i - pos + 1] \in Characters
    <3>1. i - pos + 1 \in 1 .. Len(text)
      BY <1>1, <2>1, BaseFacts
    <3> QED
      BY <3>1, ElementOfSeq
  <2> QED
    BY <1>1, <2>1
<1>6. ASSUME NEW b \in buffers' PROVE Placeable(b.lo, b.hi)'
  <2>1. CASE b \in buffers
    BY <1>1, <2>1, BaseFacts DEF MemoryInv, Placeable
  <2>2. CASE b = [lo |-> pos, hi |-> pos + size - 1]
    BY <1>1, <2>2, BaseFacts DEF Placeable
  <2> QED
    BY <1>1, <2>1, <2>2
<1>7. ASSUME NEW i \in pos' .. Top PROVE mem'[i] = "NUL"
  <2>1. i \in pos + Len(text) .. Top
    BY <1>1, BaseFacts
  <2> QED
    BY <1>4, <2>1
<1>8. \E t \in Texts : [at |-> 0, text |-> t] \in given' /\ [lo |-> 0, hi |-> Len(t)] \in buffers'
  BY <1>1 DEF MemoryInv
<1>9. MemoryInv'
  BY <1>1, <1>5, <1>6, <1>7, <1>8, BaseFacts DEF MemoryInv
<1>10. pos + size <= pos' /\ [lo |-> pos, hi |-> pos + size - 1] \in buffers'
  BY <1>1
<1> QED
  BY <1>2, <1>3, <1>4, <1>9, <1>10

InitIn(m, s) ==
  IF s.len = 0 /\ ~s.slice THEN [s EXCEPT !.len = CstrlenIn(m, s.at) % U16] ELSE s
HeldIn(m, bufs, s) ==
  /\ \E b \in bufs : b.lo <= InitIn(m, s).at /\ InitIn(m, s).at + InitIn(m, s).len <= b.hi
  /\ \A i \in InitIn(m, s).at .. InitIn(m, s).at + InitIn(m, s).len - 1 : m[i] # "NUL"
  /\ InitIn(m, s).slice \/ m[InitIn(m, s).at + InitIn(m, s).len] = "NUL"
  /\ InitIn(m, s).len > 0 /\ m[InitIn(m, s).at + InitIn(m, s).len - 1] = Space
       => m[InitIn(m, s).at + InitIn(m, s).len] # "-"
  /\ s.life = "ARENA1" <=> Base <= s.at

LEMMA HeldIsIn ==
  ASSUME NEW n, NEW s
  PROVE  /\ Held(s)' <=> HeldIn(mem', buffers', s)
         /\ Held(view[n])' <=> HeldIn(mem', buffers', view'[n])
<1>1. Held(s)' <=> HeldIn(mem', buffers', s)
  BY DEF Held, InMemory, Parted, Str8__init, Str8__cstrlen, HeldIn, InitIn, CstrlenIn
<1>2. Held(view[n])' <=> HeldIn(mem', buffers', view'[n])
  BY DEF Held, InMemory, Parted, Str8__init, Str8__cstrlen, HeldIn, InitIn, CstrlenIn
<1> QED
  BY <1>1, <1>2

\* What is new is right, and the rest stays.
LEMMA StepHolds ==
  ASSUME StringInv, MemoryInv', Keeps,
         view' \in [Names -> Views],
         \A g \in given' \ given : Says(g)',
         \A n \in Names : view'[n].at # NULL =>
           \/ view[n].at # NULL /\ (view'[n] = view[n] \/ view'[n] = Str8__init(view[n]))
           \/ \E s \in Views : s = view'[n] /\ Held(s)'
  PROVE  StringInv'
<1>1. ASSUME NEW g \in given' PROVE Says(g)'
  <2>1. pos' \in Nat
    BY BaseFacts DEF MemoryInv
  <2> QED
    BY <2>1, SayingStays DEF StringInv
<1>2. ASSUME NEW n \in Names, view'[n].at # NULL PROVE Held(view[n])'
  <2>1. PICK r \in Views : r = view'[n]
    OBVIOUS
  <2>2. Held(r)'
    <3>1. CASE view[n].at # NULL /\ (view'[n] = view[n] \/ view'[n] = Str8__init(view[n]))
      <4>1. view[n] \in Views /\ Held(view[n])
        BY <3>1 DEF StringInv
      <4>2. PICK s : s = view[n]
        OBVIOUS
      <4> QED
        BY <2>1, <3>1, <4>1, <4>2, HeldStays DEF StringInv
    <3> QED
      BY <1>2, <2>1, <3>1
  <2> QED
    BY <2>1, <2>2, HeldIsIn
<1> QED
  BY <1>1, <1>2 DEF StringInv

-----------------------------------------------------------------------------
(* The calls *)

Careful == Careless \subseteq {"deferred"} /\ EOVERFLOW /\ DUMP = 4096

\* What the program and the functions look after
LEMMA Minded ==
  ASSUME Careful, NEW what, NEW holds, Minds(what, holds), what # "deferred"
  PROVE  holds
BY DEF Careful, Minds

\* The text that is there
LEMMA TextFacts ==
  ASSUME MemoryInv, \A g \in given : Says(g)
  PROVE  \E t \in Texts :
           /\ [lo |-> 0, hi |-> Len(t)] \in buffers /\ Len(t) \in Nat /\ Len(t) < U16
           /\ Len(t) < Base /\ Str8__cstrlen(0) = Len(t)
           /\ \A i \in 0 .. Len(t) - 1 : mem[i] # "NUL"
           /\ mem[Len(t)] = "NUL"
<1>1. PICK t \in Texts : [at |-> 0, text |-> t] \in given /\ [lo |-> 0, hi |-> Len(t)] \in buffers
  BY DEF MemoryInv
<1>2. Len(t) \in Nat /\ Len(t) < U16 /\ Len(t) < Base /\ Base <= Top /\ Top \in Nat
      /\ t \in Seq(Characters)
  BY BaseFacts, StringTexts, CharacterFacts
<1>3. PICK g \in given : g.at = 0 /\ g.text = t
  BY <1>1
<1>4. Says(g)
  OBVIOUS
<1>5. mem[Len(t)] = "NUL"
  BY <1>2, <1>3, <1>4 DEF Says
<1>6. ASSUME NEW i \in 0 .. Len(t) - 1 PROVE mem[i] # "NUL"
  <2>1. i + 1 \in DOMAIN t /\ 0 + (i + 1) - 1 = i
    BY <1>2
  <2> QED
    BY <1>3, <1>4, <2>1 DEF Says
<1>7. CstrlenIn(mem, 0) = Len(t)
  <2>1. \A k \in Nat : k < Base => 0 \in 0 .. Top /\ 0 + k <= Top /\ 0 + k = k
    BY BaseFacts
  <2> QED
    BY <1>2, <1>5, <1>6, <2>1, FirstNul
<1> QED
  BY <1>1, <1>2, <1>5, <1>6, <1>7, CstrlenIsIn

LEMMA LiteralCall ==
  ASSUME StringInv, NEW n \in Names, Literal(n)
  PROVE  StringInv'
<1>1. MemoryInv' /\ Keeps
  BY QuietStep DEF Literal, StringInv, MemoryInv
<1>2. PICK t \in Texts :
        /\ [lo |-> 0, hi |-> Len(t)] \in buffers /\ Len(t) \in Nat /\ Len(t) < U16
        /\ Len(t) < Base /\ Str8__cstrlen(0) = Len(t)
        /\ \A i \in 0 .. Len(t) - 1 : mem[i] # "NUL"
        /\ mem[Len(t)] = "NUL"
  BY TextFacts DEF StringInv
<1>3. PICK s : /\ \E len \in {0, Len(t)} :
                    s = [at |-> 0, len |-> len, slice |-> FALSE, life |-> "STATIC"]
               /\ view' = [view EXCEPT ![n] = s]
  BY <1>2 DEF Literal
<1>4. /\ s \in Views /\ s.at = 0 /\ s.at # NULL /\ ~s.slice /\ s.life = "STATIC"
      /\ (s.len = 0 \/ s.len = Len(t))
  BY <1>2, <1>3, BaseFacts, U16Facts DEF Views, Lifetime, NULL
<1>5. Held(s)
  <2>1. Str8__init(s).at = 0 /\ Str8__init(s).len = Len(t) /\ Str8__init(s).slice = FALSE
    BY <1>2, <1>4, InitFacts, ModFacts, U16Facts
  <2>2. PICK r : r = Str8__init(s)
    OBVIOUS
  <2>3. r.at = 0 /\ r.len = Len(t) /\ r.slice = FALSE /\ r.at + r.len = Len(t)
    BY <1>2, <2>1, <2>2
  <2>4. Parted(r.at, r.len)
    BY <1>2, <2>3 DEF Parted
  <2>5. InMemory(r)
    BY <1>2, <2>3, <2>4 DEF InMemory
  <2> QED
    BY <1>2, <1>4, <2>2, <2>5, BaseFacts DEF Held
<1>6. Held(s)'
  BY <1>1, <1>4, <1>5, HeldStays DEF StringInv
<1>7. given' = given /\ view \in [Names -> Views]
  BY DEF Literal, StringInv
<1> QED
  BY <1>1, <1>3, <1>4, <1>6, <1>7, StepHolds

LEMMA StackCall ==
  ASSUME StringInv, NEW n \in Names, Str8__stack(n)
  PROVE  StringInv'
<1>1. MemoryInv' /\ Keeps
  BY QuietStep DEF Str8__stack, StringInv, MemoryInv
<1>2. given' = given /\ view' = [view EXCEPT ![n] = Stack] /\ view \in [Names -> Views]
  BY DEF Str8__stack, StringInv
<1>3. Stack \in Views /\ Stack.at = NULL
  BY U16Facts DEF Stack, Views, Lifetime
<1> QED
  BY <1>1, <1>2, <1>3, StepHolds

\* What is below Base stays, and nothing else is used any more.
LEMMA ResetCall ==
  ASSUME Careful, StringInv, Reset
  PROVE  StringInv'
<1>1. /\ pos' = Base /\ buffers' = {b \in buffers : b.hi < Base}
      /\ given' = {g \in given : g.at < Base}
      /\ view' = [n \in Names |-> IF view[n].life = "ARENA1" THEN Stack ELSE view[n]]
  BY DEF Reset
<1>2. mem' = [i \in 0 .. Top |-> IF i \in Base .. Top - 1 THEN "NUL" ELSE mem[i]]
  <2>1. PICK zero \in BOOLEAN :
          /\ Minds("zero", zero)
          /\ mem' = [i \in 0 .. Top |-> IF zero /\ i \in Base .. Top - 1 THEN "NUL" ELSE mem[i]]
    BY DEF Reset
  <2>2. zero
    BY <2>1, Minded
  <2> QED
    BY <2>1, <2>2
<1>3. MemoryInv
  BY DEF StringInv
<1>4. ~wild'
  BY <1>3, Zenon DEF Reset, MemoryInv
<1>5. \A i \in 0 .. Base - 1 : mem'[i] = mem[i]
  BY <1>2, BaseFacts
<1>6. pos' \in Base .. Top /\ mem' \in [0 .. Top -> Characters]
  BY <1>1, <1>2, <1>3, BaseFacts DEF MemoryInv
<1>7. ASSUME NEW i \in pos' .. Top PROVE mem'[i] = "NUL"
  <2>1. Top \in pos .. Top /\ i \in 0 .. Top
    BY <1>1, <1>3, BaseFacts DEF MemoryInv
  <2>2. mem[Top] = "NUL"
    BY <1>3, <2>1 DEF MemoryInv
  <2>3. i \in Base .. Top - 1 \/ i = Top
    BY <1>1, BaseFacts
  <2> QED
    BY <1>2, <2>1, <2>2, <2>3
<1>8. ASSUME NEW b \in buffers' PROVE Placeable(b.lo, b.hi)'
  BY <1>1, <1>3 DEF MemoryInv, Placeable
<1>9. \E t \in Texts : [at |-> 0, text |-> t] \in given' /\ [lo |-> 0, hi |-> Len(t)] \in buffers'
  <2>1. PICK t \in Texts : [at |-> 0, text |-> t] \in given /\ [lo |-> 0, hi |-> Len(t)] \in buffers
    BY <1>3 DEF MemoryInv
  <2>2. Len(t) < Base /\ 0 < Base /\ Base \in Nat
    BY BaseFacts
  <2>3. [at |-> 0, text |-> t] \in given'
    BY <1>1, <2>1, <2>2
  <2>4. [lo |-> 0, hi |-> Len(t)] \in buffers'
    BY <1>1, <2>1, <2>2
  <2> QED
    BY <2>3, <2>4
<1>10. MemoryInv'
  BY <1>4, <1>6, <1>7, <1>8, <1>9 DEF MemoryInv
<1>11. ASSUME NEW g \in given' PROVE Says(g)'
  <2>1. Says(g) /\ g.at < Base
    BY <1>1 DEF StringInv
  <2>2. /\ g.at \in Nat /\ g.text \in Seq(Characters) /\ Len(g.text) \in Nat
        /\ g.at + Len(g.text) < Base
    BY <2>1, BaseFacts DEF Says, Placeable
  <2>3. \A i \in g.at .. g.at + Len(g.text) : mem'[i] = mem[i]
    BY <1>5, <2>2, BaseFacts
  <2>4. ASSUME NEW i \in DOMAIN g.text
        PROVE  g.text[i] # "NUL" /\ mem'[g.at + i - 1] = g.text[i]
    <3>1. g.at + i - 1 \in g.at .. g.at + Len(g.text)
      BY <2>2
    <3> QED
      BY <2>1, <2>3, <3>1 DEF Says
  <2>5. mem'[g.at + Len(g.text)] = "NUL"
    <3>1. g.at + Len(g.text) \in g.at .. g.at + Len(g.text)
      BY <2>2
    <3> QED
      BY <2>1, <2>3, <3>1 DEF Says
  <2>6. Placeable(g.at, g.at + Len(g.text))'
    BY <2>2 DEF Placeable
  <2> QED
    BY <2>2, <2>4, <2>5, <2>6 DEF Says
<1>12. view' \in [Names -> Views]
  BY <1>1, U16Facts DEF StringInv, Stack, Views, Lifetime
<1>13. ASSUME NEW n \in Names, view'[n].at # NULL PROVE Held(view[n])'
  <2>1. PICK s \in Views : s = view'[n]
    BY <1>12
  <2>2. view[n] = s /\ s.at # NULL /\ s.life # "ARENA1"
    BY <1>1, <1>13, <2>1 DEF Stack
  <2>3. Held(s)
    BY <2>2 DEF StringInv
  <2>4. s.at \in Nat /\ s.at < Base
    BY <2>2, <2>3, InitFacts, BaseFacts DEF Held
  <2>5. \A b \in buffers : b.lo <= s.at => b \in buffers'
    BY <1>1, <1>3, <2>4, BaseFacts DEF MemoryInv, Placeable
  <2>6. \A i \in 0 .. pos - 1 : (s.at < Base => i < Base) => mem'[i] = mem[i]
    BY <1>3, <1>5, <2>4, BaseFacts DEF MemoryInv
  <2>7. InMemory(Str8__init(s))'
    BY <1>3, <2>2, <2>3, <2>5, <2>6, FrameMemory DEF Held
  <2>8. Held(s)'
    BY <2>3, <2>7 DEF Held
  <2> QED
    BY <2>1, <2>8, HeldIsIn
<1> QED
  BY <1>10, <1>11, <1>12, <1>13 DEF StringInv

LEMMA ComparesCall ==
  ASSUME StringInv, NEW n \in Names, NEW m \in Names, Compares(n, m)
  PROVE  StringInv'
<1>1. MemoryInv' /\ Keeps
  BY QuietStep DEF Compares, StringInv, MemoryInv
<1>2. given' = given /\ view[n].at # NULL /\ view[m].at # NULL /\ view \in [Names -> Views]
      /\ view' = [k \in Names |-> IF k \in {n, m} THEN Str8__init(view[k]) ELSE view[k]]
  BY DEF Compares, Initial, StringInv
<1>3. view' \in [Names -> Views]
  BY <1>2, InitFacts
<1> QED
  BY <1>1, <1>2, <1>3, StepHolds

-----------------------------------------------------------------------------
(* Paths *)

LEMMA Last1Facts ==
  ASSUME NEW s, s.len \in Nat, NEW kind
  PROVE  /\ Last1(s, kind) \in 0 .. s.len
         /\ Last1(s, kind) # 0 => mem[s.at + Last1(s, kind)] \in kind
         /\ \A i \in 1 .. s.len : mem[s.at + i] \in kind => i <= Last1(s, kind)
<1> DEFINE T == {0} \cup {i \in 1 .. s.len : mem[s.at + i] \in kind}
<1>1. T \subseteq 0 .. s.len /\ T # {}
  OBVIOUS
<1>2. Max(T) \in T /\ \A y \in T : Max(T) >= y
  <2> HIDE DEF T
  <2> QED
    BY <1>1, MaxFacts
<1>3. Last1(s, kind) = Max(T)
  BY DEF Last1
<1>4. \A i \in 1 .. s.len : mem[s.at + i] \in kind => i \in T
  OBVIOUS
<1>5. \A i \in T : i \in 0 .. s.len /\ (i # 0 => mem[s.at + i] \in kind)
  OBVIOUS
<1> HIDE DEF T
<1> QED
  BY <1>2, <1>3, <1>4, <1>5

LEMMA BehindLastFacts ==
  ASSUME NEW s, s.len \in Nat, NEW kind, mem[s.at + s.len] \notin kind
  PROVE  BehindLast(s, kind) \in 0 .. s.len /\ (Last1(s, kind) # 0 => Last1(s, kind) + 1 \in 0 .. s.len)
BY Last1Facts DEF BehindLast

\* A part of a path is a piece of it.
LEMMA PartFacts ==
  ASSUME NEW s, s.at \in Nat, s.len \in Nat, mem[s.at + s.len] \notin Slash \cup {"."},
         NEW part \in PathParts(s)
  PROVE  /\ part.begin \in Nat /\ part.end \in Nat
         /\ part.begin <= part.end /\ part.end <= s.len
         /\ part.end = s.len \/ Parted(s.at + part.begin, part.end - part.begin)
<1>1. \A kind \in {Slash, {"."}, Slash \cup {"."}} : mem[s.at + s.len] \notin kind
  OBVIOUS
<1>2. CASE part = Str8__basename(s)
  <2> DEFINE b == BehindLast(s, Slash)
             T == {s.len} \cup {i \in b .. s.len : i > 0 /\ mem[s.at + i] = "."}
  <2>1. b \in 0 .. s.len
    BY <1>1, BehindLastFacts
  <2>2. T \subseteq b .. s.len /\ T \subseteq Nat /\ T # {}
    <3> HIDE DEF b
    <3> QED
      BY <2>1
  <2>3. Min(T) \in T
    <3> HIDE DEF T
    <3> QED
      BY <2>2, MinFacts
  <2>4. part.begin = b /\ part.end = Min(T)
    BY <1>2 DEF Str8__basename
  <2> HIDE DEF T, b
  <2>5. Min(T) \in b .. s.len
    BY <2>2, <2>3
  <2>6. Min(T) # s.len => mem[s.at + Min(T)] = "."
    BY <2>3 DEF T
  <2>7. s.at + b + (Min(T) - b) = s.at + Min(T)
    BY <2>1, <2>5
  <2>8. Min(T) = s.len \/ Parted(s.at + b, Min(T) - b)
    BY <2>6, <2>7 DEF Parted
  <2> QED
    BY <2>1, <2>4, <2>5, <2>8
<1>3. CASE part = Str8__fileext(s)
  BY <1>1, <1>3, BehindLastFacts DEF Str8__fileext
<1>4. CASE part = Str8__filename(s)
  BY <1>1, <1>4, BehindLastFacts DEF Str8__filename
<1>5. CASE part = Str8__dirname(s)
  <2> DEFINE k == Last1(s, Slash)
  <2>1. k \in 0 .. s.len /\ (k # 0 => k + 1 \in 0 .. s.len /\ mem[s.at + k] = "/")
    BY <1>1, Last1Facts, BehindLastFacts DEF Slash
  <2>2. part.begin = 0 /\ part.end = IF k = 0 THEN s.len ELSE k + 1
    BY <1>5 DEF Str8__dirname
  <2> HIDE DEF k
  <2>3. k # 0 => s.at + 0 + ((k + 1) - 0) - 1 = s.at + k
    BY <2>1
  <2>4. part.end = s.len \/ Parted(s.at + part.begin, part.end - part.begin)
    <3>1. CASE k = 0
      BY <2>2, <3>1
    <3>2. CASE k # 0
      <4>1. Parted(s.at + 0, (k + 1) - 0)
        BY <2>1, <2>3, <3>2, SpaceIs DEF Parted
      <4> QED
        BY <2>2, <3>2, <4>1
    <3> QED
      BY <3>1, <3>2
  <2> QED
    BY <2>1, <2>2, <2>4
<1> QED
  BY <1>2, <1>3, <1>4, <1>5 DEF PathParts

LEMMA PathCall ==
  ASSUME Careful, StringInv, NEW dst \in Names, NEW src \in Names, Path(dst, src)
  PROVE  StringInv'
<1>1. MemoryInv' /\ Keeps
  BY QuietStep DEF Path, StringInv, MemoryInv
<1>2. PICK s : s = Str8__init(view[src])
  OBVIOUS
<1>3. view[src] \in Views /\ view[src].at # NULL /\ Held(view[src])
  BY DEF StringInv, Path
<1>4. s \in Views /\ s.at # NULL /\ InMemory(s) /\ (s.life = "ARENA1" <=> Base <= s.at)
  BY <1>2, <1>3, InitFacts DEF Held
<1>5. mem[s.at + s.len] \notin Slash \cup {"."}
  <2>1. Behind(view[src]) \notin Slash \cup {"."}
    BY Minded DEF Path
  <2> QED
    BY <1>2, <2>1 DEF Behind
<1>6. PICK part \in PathParts(s) :
        view' = [Initial({src}) EXCEPT ![dst] = Sliced(s, part, dst # src)]
  BY <1>2 DEF Path
<1>7. PICK r : r = Sliced(s, part, dst # src)
  OBVIOUS
<1>8. s.at \in Nat /\ s.len \in Nat /\ s.at + s.len \in 0 .. Top /\ s.len < U16
  BY <1>4, InMemoryFacts, U16Facts DEF StringInv, Views
<1>9. /\ part.begin \in Nat /\ part.end \in Nat
      /\ part.begin <= part.end /\ part.end <= s.len
      /\ part.end = s.len \/ Parted(s.at + part.begin, part.end - part.begin)
  BY <1>5, <1>8, PartFacts
<1>10. (part.end - part.begin) % U16 = part.end - part.begin
  <2>1. part.end - part.begin \in Nat /\ part.end - part.begin < U16
    BY <1>8, <1>9, U16Facts
  <2> QED
    BY <2>1, U16Facts, ModFacts
<1>11. /\ r.at = s.at + part.begin /\ r.len = part.end - part.begin /\ r.life = s.life
       /\ r.slice \/ mem[s.at + part.end] = "NUL"
  BY <1>7, <1>10 DEF Sliced, STR8_INHERIT_NULL
<1>12. r \in Views
  <2>1. r.slice \in BOOLEAN
    BY <1>7 DEF Sliced, STR8_INHERIT_NULL
  <2>2. r.at \in 0 .. Top /\ r.len \in 0 .. U16 - 1 /\ r.life \in Lifetime
    BY <1>4, <1>8, <1>9, <1>11, BaseFacts, U16Facts DEF Views
  <2>3. r = [at |-> r.at, len |-> r.len, slice |-> r.slice, life |-> r.life]
    BY <1>7 DEF Sliced
  <2> QED
    BY <2>1, <2>2, <2>3 DEF Views
<1>13. r.at # NULL /\ Held(r)
  BY <1>4, <1>9, <1>11, <1>12, PieceHeld DEF StringInv
<1>14. Held(r)'
  BY <1>1, <1>12, <1>13, HeldStays DEF StringInv
<1>15. /\ given' = given /\ view \in [Names -> Views]
       /\ Initial({src}) = [n \in Names |-> IF n = src THEN s ELSE view[n]]
  BY <1>2 DEF Path, StringInv, Initial
<1>16. view' = [n \in Names |-> IF n = dst THEN r ELSE IF n = src THEN s ELSE view[n]]
  BY <1>6, <1>7, <1>15
<1>17. view' \in [Names -> Views]
  BY <1>4, <1>12, <1>15, <1>16
<1>18. ASSUME NEW n \in Names, view'[n].at # NULL
       PROVE  \/ view[n].at # NULL /\ (view'[n] = view[n] \/ view'[n] = Str8__init(view[n]))
              \/ \E v \in Views : v = view'[n] /\ Held(v)'
  BY <1>2, <1>3, <1>12, <1>14, <1>16, <1>18
<1> QED
  BY <1>1, <1>15, <1>17, <1>18, StepHolds

-----------------------------------------------------------------------------
(* Copies *)

LEMMA SpelledFacts ==
  ASSUME MemoryInv, NEW s \in Views, s.at # NULL, InMemory(s), NEW t, t = Spelled(s.at, s.len)
  PROVE  /\ t \in Seq(Characters) /\ Len(t) = s.len /\ Len(t) < U16
         /\ \A i \in DOMAIN t : t[i] # "NUL"
<1>1. s.at \in Nat /\ s.len \in Nat /\ s.at + s.len \in 0 .. Top /\ s.len < U16
  BY InMemoryFacts, U16Facts DEF Views
<1>2. ASSUME NEW i \in 1 .. s.len
      PROVE  s.at + i - 1 \in s.at .. s.at + s.len - 1 /\ s.at + i - 1 \in 0 .. Top
  BY <1>1, BaseFacts
<1>3. mem \in [0 .. Top -> Characters]
  BY DEF MemoryInv
<1>4. t \in [1 .. s.len -> Characters]
  BY <1>2, <1>3 DEF Spelled
<1>5. t \in Seq(Characters) /\ Len(t) = s.len /\ DOMAIN t = 1 .. s.len
  BY <1>1, <1>4
<1>6. ASSUME NEW i \in 1 .. s.len PROVE t[i] # "NUL"
  BY <1>2 DEF Spelled, InMemory
<1> QED
  BY <1>1, <1>5, <1>6

\* A text in a block of its own, with the NUL that is copied or is there
LEMMA CopyStep ==
  ASSUME MemoryInv, NEW text \in Seq(Characters), \A i \in DOMAIN text : text[i] # "NUL",
         NEW whole, whole = text \/ whole = Append(text, "NUL"),
         Placed(whole, Len(text) + 1), given \subseteq given'
  PROVE  /\ Keeps /\ MemoryInv'
         /\ \A g : g.at = pos /\ g.text = text => Says(g)'
         /\ \A r \in Views : r.at = pos /\ r.len = Len(text) /\ r.life = "ARENA1" => Held(r)'
<1>1. Len(text) \in Nat /\ pos \in Nat /\ Base <= pos /\ pos <= Top
  BY BaseFacts DEF MemoryInv
<1>2. /\ whole \in Seq(Characters) /\ Len(whole) \in Nat /\ Len(whole) <= Len(text) + 1
      /\ Len(text) <= Len(whole)
      /\ \A i \in 1 .. Len(text) : whole[i] = text[i]
      /\ whole = text \/ (Len(whole) = Len(text) + 1 /\ whole[Len(text) + 1] = "NUL")
  <2>1. CASE whole = text
    BY <1>1, <2>1
  <2>2. CASE whole = Append(text, "NUL")
    <3>1. /\ whole \in Seq(Characters) /\ Len(whole) = Len(text) + 1
          /\ \A i \in 1 .. Len(text) : whole[i] = text[i]
          /\ whole[Len(text) + 1] = "NUL"
      <4>1. "NUL" \in Characters
        BY CharacterFacts
      <4> QED
        BY <2>2, <4>1, AppendProperties, ZenonT(30)
    <3> QED
      BY <1>1, <3>1
  <2> QED
    BY <2>1, <2>2
<1>3. /\ Keeps /\ MemoryInv'
      /\ pos + (Len(text) + 1) <= pos'
      /\ [lo |-> pos, hi |-> pos + (Len(text) + 1) - 1] \in buffers'
      /\ \A i \in 1 .. Len(whole) : mem'[pos + i - 1] = whole[i]
      /\ \A i \in pos + Len(whole) .. Top : mem'[i] = "NUL"
  <2>1. Len(text) + 1 \in Nat \ {0}
    BY <1>1
  <2> QED
    BY <1>2, <2>1, PlacedStep
<1>4. pos' \in Nat /\ pos' <= Top /\ pos + Len(text) < pos'
  BY <1>1, <1>3, BaseFacts DEF MemoryInv
<1>5. \A i \in 1 .. Len(text) : mem'[pos + i - 1] = text[i]
  BY <1>1, <1>2, <1>3
<1>6. mem'[pos + Len(text)] = "NUL"
  <2>1. CASE whole = text
    <3>1. pos + Len(text) \in pos + Len(whole) .. Top
      BY <1>1, <1>4, <2>1, BaseFacts
    <3> QED
      BY <1>3, <3>1
  <2>2. CASE Len(whole) = Len(text) + 1 /\ whole[Len(text) + 1] = "NUL"
    <3>1. Len(text) + 1 \in 1 .. Len(whole) /\ pos + (Len(text) + 1) - 1 = pos + Len(text)
      BY <1>1, <2>2
    <3> QED
      BY <1>3, <2>2, <3>1
  <2> QED
    BY <1>2, <2>1, <2>2
<1>7. ASSUME NEW g, g.at = pos, g.text = text PROVE Says(g)'
  <2>1. Placeable(g.at, g.at + Len(g.text))'
    BY <1>1, <1>4, <1>7, BaseFacts DEF Placeable
  <2> QED
    BY <1>1, <1>5, <1>6, <1>7, <2>1 DEF Says
<1>8. ASSUME NEW r \in Views, r.at = pos, r.len = Len(text), r.life = "ARENA1"
      PROVE  Held(r)'
  <2>1. r.at # NULL /\ (r.life = "ARENA1" <=> Base <= r.at)
    BY <1>1, <1>8, BaseFacts DEF NULL
  <2>2. \E b \in buffers' : b.lo <= r.at /\ r.at + r.len <= b.hi
    <3>1. PICK b : b = [lo |-> pos, hi |-> pos + (Len(text) + 1) - 1]
      OBVIOUS
    <3>2. b \in buffers' /\ b.lo <= r.at /\ r.at + r.len <= b.hi
      BY <1>1, <1>3, <1>8, <3>1
    <3> QED
      BY <3>2
  <2>3. ASSUME NEW i \in r.at .. r.at + r.len - 1 PROVE mem'[i] # "NUL"
    <3>1. i - pos + 1 \in 1 .. Len(text) /\ pos + (i - pos + 1) - 1 = i
      BY <1>1, <1>8
    <3>2. mem'[i] = text[i - pos + 1]
      BY <1>5, <3>1
    <3> QED
      BY <3>1, <3>2
  <2>4. InMemory(r)'
    BY <1>6, <1>8, <2>2, <2>3 DEF InMemory, Parted
  <2> QED
    BY <2>1, <2>4, HeldFrom
<1> QED
  BY <1>3, <1>7, <1>8

LEMMA CopyCall ==
  ASSUME StringInv, NEW g \in given, cstr_arena1(g)
  PROVE  StringInv'
<1>1. /\ g.text \in Seq(Characters) /\ \A i \in DOMAIN g.text : g.text[i] # "NUL"
  BY DEF StringInv, Says
<1>2. PICK new : new = [at |-> pos, text |-> g.text]
  OBVIOUS
<1>3. Placed(g.text, Len(g.text) + 1) /\ given' = given \cup {new} /\ view' = view
  BY <1>2 DEF cstr_arena1
<1>4. Keeps /\ MemoryInv' /\ Says(new)'
  BY <1>1, <1>2, <1>3, CopyStep DEF StringInv
<1> QED
  BY <1>3, <1>4, StepHolds DEF StringInv

\* Within maxlen and not at the arena's edge, what is formatted is a copy, too: the bytes
\* it sets to 0 are the NUL of the block and one that is 0 already.
LEMMA FormatIsCopy ==
  ASSUME Careful, StringInv, NEW g \in given, cstr__vformat(g)
  PROVE  cstr_arena1(g)
<1> DEFINE l == Len(g.text) + 1
<1>1. MemoryInv /\ g.text \in Seq(Characters) /\ Len(g.text) \in Nat
  BY DEF StringInv, Says
<1>2. pos \in Nat /\ Base <= pos /\ mem \in [0 .. Top -> Characters] /\ ~wild
  BY <1>1, BaseFacts DEF MemoryInv
<1>3. l <= MAXLEN
  <2>1. Minds("maxlen", l <= MAXLEN)
    BY DEF cstr__vformat
  <2> QED
    BY <2>1, Zenon DEF Careful, Minds
<1>4. pos + l < Top
  <2>1. Minds("edge", pos + l < Top)
    BY DEF cstr__vformat
  <2> QED
    BY <2>1, Zenon DEF Careful, Minds
<1>5. Min({l, MAXLEN}) = l
  <2> DEFINE T == {l, MAXLEN}
  <2>1. T \subseteq Nat /\ T # {} /\ l \in T
    BY <1>1, StringBounds
  <2>2. Min(T) \in T /\ Min(T) <= l
    <3> HIDE DEF T, l
    <3> QED
      BY <2>1, MinFacts
  <2> QED
    BY <1>1, <1>3, <2>2, StringBounds
<1>6. mem' = [i \in 0 .. Top |->
               IF i \in pos .. pos + Len(g.text) - 1 THEN g.text[i - pos + 1] ELSE mem[i]]
  <2>1. mem' = [i \in 0 .. Top |->
              CASE i \in pos .. pos + l - 2 -> g.text[i - pos + 1]
                [] i = pos + l - 1 \/ i = pos + l -> "NUL"
                [] OTHER -> mem[i]]
    BY <1>5 DEF cstr__vformat
  <2>2. ASSUME NEW i \in 0 .. Top
        PROVE  mem'[i] = IF i \in pos .. pos + Len(g.text) - 1 THEN g.text[i - pos + 1] ELSE mem[i]
    <3>1. CASE i \in pos .. pos + Len(g.text) - 1
      <4>1. i \in pos .. pos + l - 2
        BY <1>1, <1>2, <3>1
      <4>2. i # pos + l - 1 /\ i # pos + l
        BY <1>1, <1>2, <3>1
      <4> QED
        BY <2>1, <3>1, <4>1, <4>2
    <3>2. CASE i = pos + l - 1 \/ i = pos + l
      <4>1. i \in pos .. Top /\ i \notin pos .. pos + Len(g.text) - 1 /\ i \notin pos .. pos + l - 2
        BY <1>1, <1>2, <3>2, BaseFacts
      <4>2. mem[i] = "NUL"
        BY <1>1, <4>1 DEF MemoryInv
      <4> QED
        BY <2>1, <3>2, <4>1, <4>2
    <3>3. CASE i \notin pos .. pos + Len(g.text) - 1 /\ i # pos + l - 1 /\ i # pos + l
      <4>1. i \notin pos .. pos + l - 2
        BY <1>1, <1>2, <3>3
      <4> QED
        BY <2>1, <3>3, <4>1
    <3> QED
      BY <3>1, <3>2, <3>3
  <2>3. mem' = [i \in 0 .. Top |-> mem'[i]]
    BY <2>1
  <2> QED
    BY <2>2, <2>3
<1>7. wild' = (wild \/ Len(g.text) > l)
  <2>1. ~ (l > MAXLEN) /\ ~ (pos + l = Top) /\ ~ (Len(g.text) > l)
    BY <1>1, <1>2, <1>3, <1>4, BaseFacts, StringBounds
  <2>2. wild' = (wild \/ l > MAXLEN \/ pos + l = Top)
    BY DEF cstr__vformat
  <2>3. ~wild' /\ ~wild
    BY <1>2, <2>1, <2>2, Zenon
  <2>4. wild' \in BOOLEAN
    BY <2>2, Zenon
  <2> QED
    BY <2>1, <2>3, <2>4, Zenon
<1> QED
  BY <1>6, <1>7 DEF cstr__vformat, cstr_arena1, Placed

LEMMA CstrCall ==
  ASSUME StringInv, NEW n \in Names, Str8__cstr(n)
  PROVE  StringInv'
<1>1. PICK s : s = Str8__init(view[n])
  OBVIOUS
<1>2. view[n] \in Views /\ view[n].at # NULL /\ Held(view[n]) /\ MemoryInv
  BY DEF StringInv, Str8__cstr
<1>3. s \in Views /\ s.at # NULL /\ InMemory(s)
  BY <1>1, <1>2, InitFacts DEF Held
<1>4. PICK text : text = Spelled(s.at, s.len)
  OBVIOUS
<1>5. text \in Seq(Characters) /\ Len(text) = s.len /\ \A i \in DOMAIN text : text[i] # "NUL"
  BY <1>2, <1>3, <1>4, SpelledFacts
<1>6. /\ view' = Initial({n})
      /\ IF Terminated(s) THEN UNCHANGED <<mem, buffers, pos, wild>>
                          ELSE Placed(Append(text, "NUL"), s.len + 1)
      /\ given' = given \cup {[at |-> IF Terminated(s) THEN s.at ELSE pos, text |-> text]}
  BY <1>1, <1>4 DEF Str8__cstr
<1>7. view' = [k \in Names |-> IF k = n THEN s ELSE view[k]] /\ view \in [Names -> Views]
  BY <1>1, <1>6 DEF Initial, StringInv
<1>8. view' \in [Names -> Views]
  BY <1>3, <1>7
<1>9. \A k \in Names : view'[k].at # NULL =>
        view[k].at # NULL /\ (view'[k] = view[k] \/ view'[k] = Str8__init(view[k]))
  BY <1>1, <1>2, <1>7
<1>10. PICK g : g.text = text /\ g.at = (IF Terminated(s) THEN s.at ELSE pos)
                /\ given' = given \cup {g}
  BY <1>6
<1>11. CASE Terminated(s)
  <2>1. UNCHANGED <<mem, buffers, pos>> /\ ~wild'
    BY <1>2, <1>6, <1>11, Zenon DEF MemoryInv
  <2>2. Keeps /\ MemoryInv'
    BY <1>2, <1>10, <2>1, QuietStep
  <2>3. /\ s.at \in Nat /\ Len(text) \in Nat /\ Placeable(s.at, s.at + s.len)
        /\ mem[s.at + s.len] = "NUL"
    BY <1>2, <1>3, <1>5, <1>11, InMemoryFacts DEF Terminated
  <2>4. \A i \in DOMAIN text : text[i] = mem[s.at + i - 1]
    BY <1>4 DEF Spelled
  <2>5. Says(g)
    BY <1>5, <1>10, <1>11, <2>3, <2>4 DEF Says
  <2>6. Says(g)'
    <3>1. pos' \in Nat
      BY <2>2, BaseFacts DEF MemoryInv
    <3> QED
      BY <1>2, <2>2, <2>5, <3>1, SayingStays
  <2> QED
    BY <1>8, <1>9, <1>10, <2>2, <2>6, StepHolds
<1>12. CASE ~Terminated(s)
  <2>1. Placed(Append(text, "NUL"), Len(text) + 1)
    BY <1>5, <1>6, <1>12
  <2>2. Keeps /\ MemoryInv' /\ Says(g)'
    BY <1>2, <1>5, <1>10, <1>12, <2>1, CopyStep
  <2> QED
    BY <1>8, <1>9, <1>10, <2>2, StepHolds
<1> QED
  BY <1>11, <1>12

LEMMA FlattenFacts ==
  ASSUME NEW a, NEW b
  PROVE  FlattenSeq(<<a>>) = a /\ FlattenSeq(<<a, b>>) = a \o b
<1>1. FlattenSeq(<<a>>) = a
  BY DEF FlattenSeq
<1>2. FlattenSeq(<<a, b>>) = a \o b
  <2> DEFINE F(f) == [i \in 1 .. 2 |-> IF i = 1 THEN <<a, b>>[i] ELSE f[i - 1] \o <<a, b>>[i]]
             w == [i \in 1 .. 2 |-> IF i = 1 THEN a ELSE a \o b]
             f == CHOOSE g : g = F(g)
  <2>1. w = F(w)
    OBVIOUS
  <2>2. f = F(f)
    <3> HIDE DEF w, F
    <3> QED
      BY <2>1
  <2>3. f[1] = a /\ f[2] = f[1] \o b
    <3> HIDE DEF f
    <3>1. PICK g : g = f
      OBVIOUS
    <3>2. g = F(g)
      BY <2>2, <3>1, Zenon
    <3>3. g[1] = F(g)[1] /\ g[2] = F(g)[2]
      <4> HIDE DEF F
      <4> QED
        BY <3>2
    <3>4. F(g)[1] = a /\ F(g)[2] = g[1] \o b
      OBVIOUS
    <3> QED
      BY <3>1, <3>3, <3>4, Zenon
  <2>4. FlattenSeq(<<a, b>>) = f[2]
    BY DEF FlattenSeq
  <2> HIDE DEF f
  <2> QED
    BY <2>3, <2>4
<1> QED
  BY <1>1, <1>2

LEMMA CatCall ==
  ASSUME Careful, StringInv, NEW dst \in Names, NEW src \in Names,
         NEW srcs, srcs = <<src>> \/ srcs = <<src, src>>, Str8__cat(dst, srcs)
  PROVE  StringInv'
<1>1. PICK s : s = Str8__init(view[src])
  OBVIOUS
<1>2. dst # src /\ view[src].at # NULL
  BY DEF Str8__cat, ToSet
<1>3. view[src] \in Views /\ Held(view[src]) /\ MemoryInv
  BY <1>2 DEF StringInv
<1>4. s \in Views /\ s.at # NULL /\ InMemory(s)
  BY <1>1, <1>2, <1>3, InitFacts DEF Held
<1>5. PICK one : one = Text(view[src])
  OBVIOUS
<1>6. one \in Seq(Characters) /\ \A i \in DOMAIN one : one[i] # "NUL"
  BY <1>1, <1>3, <1>4, <1>5, SpelledFacts DEF Text
<1>7. PICK text : text = FlattenSeq([i \in DOMAIN srcs |-> Text(view[srcs[i]])])
  OBVIOUS
<1>8. text = one \/ text = one \o one
  <2>1. CASE srcs = <<src>>
    <3>1. [i \in DOMAIN srcs |-> Text(view[srcs[i]])] = <<one>>
      BY <1>5, <2>1
    <3> QED
      BY <1>7, <3>1, FlattenFacts
  <2>2. CASE srcs = <<src, src>>
    <3>1. [i \in DOMAIN srcs |-> Text(view[srcs[i]])] = <<one, one>>
      BY <1>5, <2>2
    <3> QED
      BY <1>7, <3>1, FlattenFacts
  <2> QED
    BY <2>1, <2>2
<1>9. text \in Seq(Characters) /\ \A i \in DOMAIN text : text[i] # "NUL"
  <2>1. CASE text = one
    BY <1>6, <2>1
  <2>2. CASE text = one \o one
    <3>1. one \o one \in Seq(Characters) /\ Len(one \o one) = Len(one) + Len(one) /\ Len(one) \in Nat
      BY <1>6, ConcatProperties
    <3>2. ASSUME NEW i \in 1 .. Len(one) + Len(one) PROVE (one \o one)[i] # "NUL"
      <4>1. (one \o one)[i] = IF i <= Len(one) THEN one[i] ELSE one[i - Len(one)]
        BY <1>6, <3>1, <3>2, ConcatProperties
      <4>2. CASE i <= Len(one)
        BY <1>6, <3>1, <4>1, <4>2
      <4>3. CASE ~ (i <= Len(one))
        <5>1. i - Len(one) \in DOMAIN one
          BY <1>6, <3>1, <4>3
        <5> QED
          BY <1>6, <4>1, <4>3, <5>1
      <4> QED
        BY <4>2, <4>3
    <3> QED
      BY <2>2, <3>1, <3>2
  <2> QED
    BY <1>8, <2>1, <2>2
<1>10. Len(text) \in Nat /\ Len(text) < U16 /\ Len(text) % U16 = Len(text)
  <2>1. Minds("sum", Len(text) < U16)
    BY <1>7 DEF Str8__cat
  <2>2. Len(text) < U16
    BY <2>1, Zenon DEF Careful, Minds
  <2>3. Len(text) \in Nat
    BY <1>9
  <2> QED
    BY <2>2, <2>3, U16Facts, ModFacts
<1>11. PICK r : r = [at |-> pos, len |-> Len(text), slice |-> FALSE, life |-> "ARENA1"]
  OBVIOUS
<1>12. /\ Placed(Append(text, "NUL"), Len(text) + 1) /\ given' = given
       /\ view' = [Initial(ToSet(srcs)) EXCEPT ![dst] = r]
  BY <1>7, <1>10, <1>11 DEF Str8__cat
<1>13. view' = [k \in Names |-> IF k = dst THEN r ELSE IF k = src THEN s ELSE view[k]]
       /\ view \in [Names -> Views]
  <2>1. ToSet(srcs) = {src}
    BY DEF ToSet
  <2> QED
    BY <1>1, <1>12, <2>1 DEF Initial, StringInv
<1>14. r \in Views
  <2>1. pos \in 0 .. Top /\ Len(text) \in 0 .. U16 - 1
    BY <1>3, <1>10, BaseFacts, U16Facts DEF MemoryInv
  <2> QED
    BY <1>11, <2>1 DEF Views, Lifetime
<1>15. Keeps /\ MemoryInv' /\ Held(r)'
  <2>1. r.at = pos /\ r.len = Len(text) /\ r.life = "ARENA1"
    BY <1>11
  <2> QED
    BY <1>3, <1>9, <1>12, <1>14, <2>1, CopyStep
<1>16. view' \in [Names -> Views]
  BY <1>4, <1>13, <1>14
<1>17. ASSUME NEW n \in Names, view'[n].at # NULL
       PROVE  \/ view[n].at # NULL /\ (view'[n] = view[n] \/ view'[n] = Str8__init(view[n]))
              \/ \E v \in Views : v = view'[n] /\ Held(v)'
  BY <1>1, <1>2, <1>13, <1>14, <1>15, <1>17
<1> QED
  BY <1>12, <1>15, <1>16, <1>17, StepHolds

-----------------------------------------------------------------------------
(* What a scan reads *)

\* An input, whose last character is the one behind it.
IsInput(t) ==
  /\ t \in Seq(Characters) /\ Len(t) > 0
  /\ End(t) > 0 /\ t[End(t)] = Space => t[End(t) + 1] # "-"

\* A piece of the input, not ending with a space
IsPiece(t, m) ==
  /\ m.from \in Nat /\ m.to \in Nat /\ m.from <= m.to /\ m.to <= End(t)
  /\ m.from < m.to => t[m.to] # Space

LEMMA MatchedAre ==
  ASSUME NEW t, NEW p, NEW item
  PROVE  /\ LET b == Past(t, p, {Space})
                i == PastSign(t, b, item)
                e == IF i < End(t) THEN PastDigits(t, i, item) ELSE i
            IN  MatchedNumber(t, p, item) = [from |-> b, to |-> e, ok |-> e > i]
         /\ LET b == Past(t, p, {Space})
            IN  MatchedWord(t, p) =
                  [from |-> b, ok |-> TRUE,
                   to |-> Min({q \in b .. End(t) : q = End(t) \/ Char(t, q) \in {Space, "NUL"}})]
BY Zenon DEF MatchedNumber, MatchedWord, Space

LEMMA EndFacts ==
  ASSUME NEW t, IsInput(t)
  PROVE  End(t) \in Nat
<1>1. t \in Seq(Characters) /\ Len(t) > 0
  BY DEF IsInput
<1>2. Len(t) \in Nat
  BY <1>1
<1> QED
  BY <1>1, <1>2 DEF End

LEMMA PastFacts ==
  ASSUME NEW t, IsInput(t), NEW p \in 0 .. End(t), NEW kind
  PROVE  /\ Past(t, p, kind) \in p .. End(t)
         /\ p < Past(t, p, kind) => t[Past(t, p, kind)] \in kind
<1> DEFINE T == {q \in p .. End(t) : q = End(t) \/ Char(t, q) \notin kind}
<1>1. End(t) \in Nat
  BY EndFacts
<1>2. T \subseteq Nat /\ End(t) \in T
  BY <1>1
<1>3. Min(T) \in T /\ \A y \in T : Min(T) <= y
  <2> HIDE DEF T
  <2> QED
    BY <1>2, MinFacts
<1>4. Past(t, p, kind) = Min(T)
  BY DEF Past
<1>5. Min(T) \in p .. End(t)
  BY <1>3
<1>6. ASSUME p < Min(T) PROVE t[Min(T)] \in kind
  <2>1. Min(T) - 1 \in p .. End(t) /\ Min(T) - 1 < Min(T) /\ (Min(T) - 1) + 1 = Min(T)
    <3> HIDE DEF T
    <3> QED
      BY <1>1, <1>5, <1>6
  <2>2. Min(T) - 1 \notin T
    <3> HIDE DEF T
    <3> QED
      BY <1>3, <1>5, <1>1, <2>1
  <2> QED
    BY <2>1, <2>2 DEF Char
<1> QED
  BY <1>4, <1>5, <1>6

LEMMA DigitsFacts ==
  ASSUME NEW t, IsInput(t), NEW p \in 0 .. End(t), NEW item
  PROVE  /\ PastDigits(t, p, item) \in p .. End(t)
         /\ p < PastDigits(t, p, item) => t[PastDigits(t, p, item)] # Space
<1>1. PICK l \in Nat : l = End(t)
  BY EndFacts
<1>2. PICK q \in Nat : q = Past(t, p, Digits)
  BY <1>1, PastFacts
<1>3. p \in Nat /\ p <= q /\ q <= l /\ (p < q => t[q] \in Digits)
  BY <1>1, <1>2, PastFacts
<1>4. CASE item = "%f" /\ p < q /\ q < l /\ Char(t, q) = "."
  <2>1. q + 1 \in 0 .. l /\ t[q + 1] = "."
    BY <1>4 DEF Char
  <2>2. PICK e : e = Past(t, q + 1, Digits)
    OBVIOUS
  <2>3. e \in q + 1 .. l /\ (q + 1 < e => t[e] \in Digits)
    BY <1>1, <2>1, <2>2, PastFacts
  <2>4. e \in Nat /\ p <= e /\ e <= l /\ q + 1 <= e
    BY <1>3, <2>3
  <2>5. t[e] # Space
    <3>1. CASE e = q + 1
      BY <2>1, <3>1, SpaceIs
    <3>2. CASE q + 1 < e
      BY <2>3, <3>2, SpaceIs DEF Digits
    <3> QED
      BY <2>4, <3>1, <3>2
  <2>6. PastDigits(t, p, item) = e
    BY <1>1, <1>2, <1>4, <2>2 DEF PastDigits
  <2> QED
    BY <1>1, <1>3, <2>4, <2>5, <2>6
<1>5. CASE ~ (item = "%f" /\ p < q /\ q < l /\ Char(t, q) = ".")
  <2>1. PastDigits(t, p, item) = q
    BY <1>1, <1>2, <1>5 DEF PastDigits
  <2>2. p < q => t[q] # Space
    BY <1>3, SpaceIs DEF Digits
  <2> QED
    BY <1>1, <1>3, <2>1, <2>2
<1> QED
  BY <1>4, <1>5

LEMMA NumberFacts ==
  ASSUME NEW t, IsInput(t), NEW p \in 0 .. End(t), p # End(t), NEW item
  PROVE  IsPiece(t, MatchedNumber(t, p, item))
<1>1. PICK l \in Nat : l = End(t)
  BY EndFacts
<1>2. PICK b \in Nat : b = Past(t, p, {Space})
  BY <1>1, PastFacts
<1>3. p \in Nat /\ p < l /\ p <= b /\ b <= l /\ (p < b => t[b] = Space)
  BY <1>1, <1>2, PastFacts
<1>4. PICK i \in Nat : i = PastSign(t, b, item) /\ (i = b \/ (i = b + 1 /\ t[b + 1] = "-"))
  BY DEF PastSign, Char
<1>5. i <= l
  <2>1. CASE b = l
    <3>1. t[b + 1] # "-"
      BY <1>1, <1>3, <2>1 DEF IsInput
    <3> QED
      BY <1>3, <1>4, <3>1
  <2>2. CASE b # l
    BY <1>3, <1>4, <2>2
  <2> QED
    BY <2>1, <2>2
<1>6. PICK e : e = IF i < End(t) THEN PastDigits(t, i, item) ELSE i
  OBVIOUS
<1>7. e \in Nat /\ i <= e /\ e <= l /\ (i < e => t[e] # Space)
  <2>1. CASE i < l
    <3>1. e = PastDigits(t, i, item) /\ i \in 0 .. End(t)
      BY <1>1, <1>5, <1>6, <2>1
    <3>2. e \in i .. End(t) /\ (i < e => t[e] # Space)
      BY <3>1, DigitsFacts
    <3> QED
      BY <1>1, <3>2
  <2>2. CASE i = l
    BY <1>1, <1>6, <2>2
  <2> QED
    BY <1>5, <2>1, <2>2
<1>8. MatchedNumber(t, p, item).from = b /\ MatchedNumber(t, p, item).to = e
  <2>1. MatchedNumber(t, p, item) = [from |-> b, to |-> e, ok |-> e > i]
    BY <1>2, <1>4, <1>6, MatchedAre, Zenon
  <2> QED
    BY <2>1
<1>9. b <= e /\ (b < e => t[e] # Space)
  <2>1. CASE i = b
    BY <1>7, <2>1
  <2>2. CASE i = b + 1 /\ t[b + 1] = "-"
    <3>1. CASE i = e
      BY <2>2, <3>1, SpaceIs
    <3>2. CASE i < e
      BY <1>7, <2>2, <3>2
    <3> QED
      BY <1>7, <3>1, <3>2
  <2> QED
    BY <1>4, <2>1, <2>2
<1> QED
  BY <1>1, <1>7, <1>8, <1>9 DEF IsPiece

LEMMA WordFacts ==
  ASSUME NEW t, IsInput(t), NEW p \in 0 .. End(t)
  PROVE  IsPiece(t, MatchedWord(t, p))
<1>1. PICK l \in Nat : l = End(t)
  BY EndFacts
<1>2. PICK b \in Nat : b = Past(t, p, {Space})
  BY <1>1, PastFacts
<1>3. b <= l
  BY <1>1, <1>2, PastFacts
<1> DEFINE T == {q \in b .. l : q = l \/ Char(t, q) \in {Space, "NUL"}}
<1>4. T \subseteq Nat /\ l \in T
  BY <1>3
<1>5. PICK e \in T : e = Min(T) /\ \A y \in T : e <= y
  <2> HIDE DEF T
  <2> QED
    BY <1>4, MinFacts
<1>6. e \in Nat /\ b <= e /\ e <= l
  OBVIOUS
<1>7. ASSUME b < e PROVE t[e] # Space
  <2>1. e - 1 \in b .. l /\ e - 1 \in Nat /\ ~ (e <= e - 1) /\ (e - 1) + 1 = e
    BY <1>3, <1>6, <1>7
  <2>2. e - 1 \notin T
    BY <1>5, <2>1
  <2> QED
    BY <2>1, <2>2 DEF Char
<1>8. MatchedWord(t, p).from = b /\ MatchedWord(t, p).to = e
  BY <1>1, <1>2, <1>5, MatchedAre
<1> QED
  BY <1>1, <1>6, <1>7, <1>8 DEF IsPiece

-----------------------------------------------------------------------------
(* The loop of a scan *)

Begun == [p |-> 0, left |-> FALSE, read |-> <<>>]

\* The turns over the items of format whose numbers are in S, in order
Turns(t, format, h, S) ==
  IF S = {} THEN Begun ELSE Turn(t, h[S \ {Max(S)}], format[Max(S)])

LEMMA MaxOfUpTo ==
  ASSUME NEW k \in Nat, NEW S, S \subseteq 1 .. k
  PROVE  /\ k \in S => Max(S) = k
         /\ S # {} => Max(S) \in S
<1>1. S # {} => Max(S) \in S /\ \A y \in S : Max(S) >= y
  <2>1. S \subseteq 0 .. k
    OBVIOUS
  <2> QED
    BY <2>1, MaxFacts
<1>2. ASSUME k \in S PROVE Max(S) = k
  <2>1. Max(S) \in 1 .. k /\ Max(S) >= k
    BY <1>1, <1>2
  <2> QED
    BY <2>1
<1> QED
  BY <1>1, <1>2

\* What the fold over format goes by is there: for one item more, from what is there for
\* the items before it.
LEMMA TurnsExist ==
  ASSUME NEW t, NEW format, NEW n \in Nat
  PROVE  \E h : h = [S \in SUBSET (1 .. n) |-> Turns(t, format, h, S)]
<1> DEFINE F(k, h) == [S \in SUBSET (1 .. k) |-> Turns(t, format, h, S)]
           D == {k \in Nat : ~ \E h : h = F(k, h)}
<1>1. SUFFICES ASSUME D # {} PROVE FALSE
  OBVIOUS
<1>2. PICK k \in D : \A y \in D : k <= y
  <2>1. D \subseteq Nat
    OBVIOUS
  <2> HIDE DEF D
  <2> QED
    BY <1>1, <2>1, LeastNatural
<1>3. k \in Nat /\ ~ \E h : h = F(k, h)
  OBVIOUS
<1>4. k # 0
  <2> DEFINE h == [S \in SUBSET (1 .. 0) |-> Begun]
  <2>1. h = F(0, h)
    BY DEF Turns
  <2> QED
    BY <1>3, <2>1
<1>5. PICK g : g = F(k - 1, g)
  <2>1. k - 1 \in Nat /\ ~ (k <= k - 1)
    BY <1>3, <1>4
  <2>2. k - 1 \notin D
    <3> HIDE DEF D
    <3> QED
      BY <1>2, <2>1
  <2> QED
    BY <2>1, <2>2
<1> DEFINE h == [S \in SUBSET (1 .. k) |->
                   IF k \in S THEN Turn(t, g[S \ {k}], format[k]) ELSE g[S]]
<1>6. ASSUME NEW S \in SUBSET (1 .. k) PROVE h[S] = Turns(t, format, h, S)
  <2>1. CASE k \in S
    <3>1. Max(S) = k /\ S # {}
      BY <1>3, <2>1, MaxOfUpTo
    <3>2. S \ {k} \in SUBSET (1 .. k) /\ k \notin S \ {k}
      OBVIOUS
    <3>3. h[S \ {k}] = g[S \ {k}]
      BY <3>2
    <3>4. h[S] = Turn(t, g[S \ {k}], format[k])
      BY <2>1
    <3> HIDE DEF h
    <3> QED
      BY <3>1, <3>3, <3>4 DEF Turns
  <2>2. CASE k \notin S
    <3>1. S \in SUBSET (1 .. k - 1)
      BY <1>3, <1>4, <2>2
    <3>2. h[S] = g[S]
      BY <2>2
    <3>3. g[S] = Turns(t, format, g, S)
      BY <1>5, <3>1
    <3>4. CASE S = {}
      BY <3>2, <3>3, <3>4 DEF Turns
    <3>5. CASE S # {}
      <4>1. S \ {Max(S)} \in SUBSET (1 .. k) /\ k \notin S \ {Max(S)}
        BY <2>2
      <4>2. h[S \ {Max(S)}] = g[S \ {Max(S)}]
        BY <4>1
      <4> HIDE DEF h
      <4> QED
        BY <3>2, <3>3, <3>5, <4>2 DEF Turns
    <3> QED
      BY <3>4, <3>5
  <2> QED
    BY <2>1, <2>2
<1>7. h = F(k, h)
  <2>1. h = [S \in SUBSET (1 .. k) |-> h[S]]
    OBVIOUS
  <2> HIDE DEF h
  <2> QED
    BY <1>6, <2>1
<1> QED
  BY <1>3, <1>7

\* A scan goes from one turn to the next.
LEMMA ScanIsTurns ==
  ASSUME NEW t, NEW format \in Seq(STRING)
  PROVE  \E st : /\ st[0] = Begun
                 /\ \A k \in 1 .. Len(format) : st[k] = Turn(t, st[k - 1], format[k])
                 /\ Str8__scan(t, format) = st[Len(format)]
<1> DEFINE n == Len(format)
           F(h) == [S \in SUBSET (1 .. n) |-> Turns(t, format, h, S)]
           iter == CHOOSE h : h = F(h)
<1>1. n \in Nat /\ DOMAIN format = 1 .. n
  OBVIOUS
<1>2. Str8__scan(t, format) = iter[1 .. n]
  BY <1>1 DEF Str8__scan, FoldLeft, MapThenFoldSet, Turns, Begun
<1>3. iter = F(iter)
  <2>1. \E h : h = F(h)
    BY <1>1, TurnsExist
  <2> HIDE DEF F
  <2> QED
    BY <2>1
<1>4. PICK h : h = iter /\ h = F(h)
  BY <1>3, Zenon
<1> DEFINE st == [k \in 0 .. n |-> h[1 .. k]]
<1>5. st[0] = Begun
  <2>1. 1 .. 0 = {} /\ {} \in SUBSET (1 .. n)
    OBVIOUS
  <2>2. h[{}] = Begun
    BY <1>4, <2>1 DEF Turns
  <2> QED
    BY <1>1, <2>1, <2>2
<1>6. ASSUME NEW k \in 1 .. n PROVE st[k] = Turn(t, st[k - 1], format[k])
  <2>1. /\ 1 .. k \in SUBSET (1 .. n) /\ k \in 1 .. k /\ k \in Nat /\ k - 1 \in 0 .. n
        /\ (1 .. k) \ {k} = 1 .. k - 1 /\ k \in 0 .. n
    BY <1>1
  <2>2. Max(1 .. k) = k
    BY <2>1, MaxOfUpTo
  <2>3. h[1 .. k] = Turns(t, format, h, 1 .. k)
    BY <1>4, <2>1
  <2>4. h[1 .. k] = Turn(t, h[1 .. k - 1], format[k])
    BY <2>1, <2>2, <2>3 DEF Turns
  <2> QED
    BY <2>1, <2>4
<1>7. st[n] = iter[1 .. n]
  BY <1>1, <1>4
<1> HIDE DEF st, iter
<1> QED
  BY <1>2, <1>5, <1>6, <1>7

LEMMA MatchedIs ==
  ASSUME NEW t, NEW p, NEW item
  PROVE  /\ item \in Numbers => Matched(t, p, item) = MatchedNumber(t, p, item)
         /\ item = "%s" => Matched(t, p, item) = MatchedWord(t, p)
         /\ item = Space => Matched(t, p, item) = [from |-> p, to |-> Past(t, p, {Space}), ok |-> TRUE]
         /\ item \notin Numbers /\ item # "%s" /\ item # Space =>
              Matched(t, p, item) = [from |-> p, to |-> IF Char(t, p) = item THEN p + 1 ELSE p,
                                     ok |-> Char(t, p) = item]
<1>1. item \in Numbers => Matched(t, p, item) = MatchedNumber(t, p, item)
  BY Zenon DEF Matched, Numbers
<1>2. item = "%s" => Matched(t, p, item) = MatchedWord(t, p)
  BY Zenon DEF Matched, Numbers
<1>3. item = Space => Matched(t, p, item) = [from |-> p, to |-> Past(t, p, {Space}), ok |-> TRUE]
  BY Zenon DEF Matched, Numbers, Space
<1>4. item \notin Numbers /\ item # "%s" /\ item # Space =>
              Matched(t, p, item) = [from |-> p, to |-> IF Char(t, p) = item THEN p + 1 ELSE p,
                                     ok |-> Char(t, p) = item]
  BY Zenon DEF Matched, Space
<1> QED
  BY <1>1, <1>2, <1>3, <1>4, Zenon

LEMMA MatchedFacts ==
  ASSUME NEW t, IsInput(t), NEW p \in 0 .. End(t), p # End(t), NEW item
  PROVE  /\ Matched(t, p, item).to \in 0 .. End(t)
         /\ item \in Specifiers => IsPiece(t, Matched(t, p, item))
<1>1. End(t) \in Nat
  BY EndFacts
<1>2. CASE item \in Numbers \cup {"%s"}
  <2>1. IsPiece(t, Matched(t, p, item))
    BY <1>2, MatchedIs, NumberFacts, WordFacts
  <2> QED
    BY <1>1, <2>1 DEF IsPiece
<1>3. CASE item \notin Numbers \cup {"%s"}
  <2>1. item \notin Specifiers
    BY <1>3 DEF Specifiers, Numbers
  <2>2. CASE item = Space
    <3>1. Matched(t, p, item).to = Past(t, p, {Space})
      BY <2>2, MatchedIs
    <3>2. Past(t, p, {Space}) \in p .. End(t)
      BY PastFacts
    <3> QED
      BY <1>1, <2>1, <3>1, <3>2
  <2>3. CASE item # Space
    <3>1. Matched(t, p, item).to = IF Char(t, p) = item THEN p + 1 ELSE p
      BY <1>3, <2>3, MatchedIs
    <3> QED
      BY <1>1, <2>1, <3>1
  <2> QED
    BY <2>2, <2>3
<1> QED
  BY <1>2, <1>3

\* What a match may be
Matches(t) == {m \in [from : 0 .. End(t), to : 0 .. End(t), ok : BOOLEAN] : IsPiece(t, m)}

LEMMA MatchIsOne ==
  ASSUME NEW t, IsInput(t), NEW p \in 0 .. End(t), p # End(t), NEW item \in Specifiers
  PROVE  Matched(t, p, item) \in Matches(t)
<1>1. PICK m : m = Matched(t, p, item)
  OBVIOUS
<1>2. IsPiece(t, m) /\ End(t) \in Nat
  BY <1>1, MatchedFacts, EndFacts
<1>3. m = [from |-> m.from, to |-> m.to, ok |-> m.ok] /\ m.ok \in BOOLEAN
  <2>1. CASE item \in Numbers
    <3>1. m = MatchedNumber(t, p, item)
      BY <1>1, <2>1, MatchedIs
    <3>2. PICK b, i, e : m = [from |-> b, to |-> e, ok |-> e > i]
      BY <3>1, MatchedAre, Zenon
    <3>3. (e > i) \in BOOLEAN
      OBVIOUS
    <3> QED
      BY <3>2, <3>3
  <2>2. CASE item = "%s"
    <3>1. m = MatchedWord(t, p)
      BY <1>1, <2>2, MatchedIs
    <3>2. PICK b, e : m = [from |-> b, to |-> e, ok |-> TRUE]
      BY <3>1, MatchedAre
    <3> QED
      BY <3>2
  <2> QED
    BY <2>1, <2>2 DEF Specifiers, Numbers
<1>4. m.from \in 0 .. End(t) /\ m.to \in 0 .. End(t)
  BY <1>2 DEF IsPiece
<1> QED
  BY <1>1, <1>2, <1>3, <1>4 DEF Matches

IsScan(t, s) == s.p \in 0 .. End(t) /\ s.read \in Seq(Matches(t))

LEMMA TurnFacts ==
  ASSUME NEW t, IsInput(t), NEW s, IsScan(t, s), NEW item, NEW u, u = Turn(t, s, item),
         DOMAIN s = {"p", "left", "read"}
  PROVE  IsScan(t, u) /\ DOMAIN u = {"p", "left", "read"}
<1>1. PICK m : m = Matched(t, s.p, item)
  OBVIOUS
<1>2. CASE s.left \/ s.p >= End(t) \/ Char(t, s.p) = "NUL"
  <2>1. u = [s EXCEPT !.left = TRUE]
    BY <1>2 DEF Turn
  <2>2. u.p = s.p /\ u.read = s.read /\ DOMAIN u = DOMAIN s
    BY <2>1
  <2> QED
    BY <2>2 DEF IsScan
<1>3. CASE ~ (s.left \/ s.p >= End(t) \/ Char(t, s.p) = "NUL")
  <2>1. u = [p |-> m.to, left |-> ~m.ok,
             read |-> IF item \in Specifiers THEN Append(s.read, m) ELSE s.read]
    BY <1>1, <1>3 DEF Turn
  <2>2. s.p \in 0 .. End(t) /\ s.p # End(t)
    BY <1>3, EndFacts DEF IsScan
  <2>3. m.to \in 0 .. End(t) /\ (item \in Specifiers => m \in Matches(t))
    BY <1>1, <2>2, MatchedFacts, MatchIsOne
  <2>4. u.read \in Seq(Matches(t))
    <3>1. CASE item \in Specifiers
      BY <2>1, <2>3, <3>1, AppendProperties DEF IsScan
    <3>2. CASE item \notin Specifiers
      BY <2>1, <3>2 DEF IsScan
    <3> QED
      BY <3>1, <3>2
  <2> QED
    BY <2>1, <2>3, <2>4 DEF IsScan
<1> QED
  BY <1>2, <1>3

LEMMA ScanFacts ==
  ASSUME NEW t, IsInput(t), NEW format \in Seq(STRING)
  PROVE  Str8__scan(t, format).read \in Seq(Matches(t))
<1>1. PICK st : /\ st[0] = Begun
                /\ \A k \in 1 .. Len(format) : st[k] = Turn(t, st[k - 1], format[k])
                /\ Str8__scan(t, format) = st[Len(format)]
  BY ScanIsTurns
<1> DEFINE Right(k) == IsScan(t, st[k]) /\ DOMAIN st[k] = {"p", "left", "read"}
           D == {k \in 0 .. Len(format) : ~Right(k)}
<1>2. Len(format) \in Nat
  OBVIOUS
<1>3. SUFFICES ASSUME D # {} PROVE FALSE
  BY <1>1, <1>2 DEF IsScan
<1>4. PICK k \in D : \A y \in D : k <= y
  <2>1. D \subseteq Nat
    OBVIOUS
  <2> HIDE DEF D
  <2> QED
    BY <1>3, <2>1, LeastNatural
<1>5. k \in 0 .. Len(format) /\ ~Right(k)
  OBVIOUS
<1>6. Right(0)
  <2>1. Begun.p = 0 /\ Begun.read = <<>> /\ DOMAIN Begun = {"p", "left", "read"}
    BY DEF Begun
  <2>2. 0 \in 0 .. End(t) /\ <<>> \in Seq(Matches(t))
    BY EndFacts
  <2> QED
    BY <1>1, <2>1, <2>2 DEF IsScan
<1>7. k \in 1 .. Len(format) /\ k - 1 \in 0 .. Len(format) /\ ~ (k <= k - 1)
  <2> HIDE DEF Right
  <2> QED
    BY <1>2, <1>5, <1>6
<1>8. Right(k - 1)
  <2>1. k - 1 \notin D
    <3> HIDE DEF D
    <3> QED
      BY <1>4, <1>7
  <2> QED
    BY <1>7, <2>1
<1> QED
  <2>1. PICK s, u, item : s = st[k - 1] /\ u = st[k] /\ item = format[k]
    OBVIOUS
  <2>2. u = Turn(t, s, item) /\ IsScan(t, s) /\ DOMAIN s = {"p", "left", "read"}
    BY <1>1, <1>7, <1>8, <2>1
  <2>3. IsScan(t, u) /\ DOMAIN u = {"p", "left", "read"}
    BY <2>2, TurnFacts
  <2> QED
    BY <1>5, <2>1, <2>3

\* The text of a Str8 with the character behind it
LEMMA InputFacts ==
  ASSUME MemoryInv, NEW s \in Views, s.at # NULL, InMemory(s),
         NEW t, t = Append(Spelled(s.at, s.len), mem[s.at + s.len])
  PROVE  /\ IsInput(t) /\ End(t) = s.len
         /\ \A i \in 1 .. s.len : t[i] = mem[s.at + i - 1]
<1>1. PICK text : text = Spelled(s.at, s.len)
  OBVIOUS
<1>2. text \in Seq(Characters) /\ Len(text) = s.len
  BY <1>1, SpelledFacts
<1>3. s.at \in Nat /\ s.len \in Nat /\ s.at + s.len \in 0 .. Top
  BY InMemoryFacts
<1>4. mem[s.at + s.len] \in Characters
  BY <1>3 DEF MemoryInv
<1>5. /\ t \in Seq(Characters) /\ Len(t) = s.len + 1
      /\ \A i \in 1 .. s.len : t[i] = text[i]
      /\ t[s.len + 1] = mem[s.at + s.len]
  BY <1>1, <1>2, <1>4, AppendProperties
<1>6. End(t) = s.len
  BY <1>3, <1>5 DEF End
<1>7. ASSUME NEW i \in 1 .. s.len PROVE t[i] = mem[s.at + i - 1]
  BY <1>1, <1>5 DEF Spelled
<1>8. s.len > 0 /\ t[s.len] = Space => t[s.len + 1] # "-"
  <2>1. CASE s.len > 0
    <3>1. s.len \in 1 .. s.len
      BY <1>3, <2>1
    <3>2. t[s.len] = mem[s.at + s.len - 1]
      BY <1>7, <3>1
    <3> QED
      BY <1>5, <2>1, <3>2 DEF InMemory, Parted
  <2>2. CASE ~ (s.len > 0)
    BY <2>2
  <2> QED
    BY <2>1, <2>2
<1> QED
  BY <1>3, <1>5, <1>6, <1>7, <1>8 DEF IsInput

LEMMA ScansCall ==
  ASSUME Careful, StringInv, NEW n \in Names, NEW src \in Names, NEW format \in Formats,
         Scans(n, src, format)
  PROVE  StringInv'
<1>1. MemoryInv' /\ Keeps
  BY QuietStep DEF Scans, StringInv, MemoryInv
<1>2. PICK s : s = Str8__init(view[src])
  OBVIOUS
<1>3. view[src] \in Views /\ view[src].at # NULL /\ Held(view[src]) /\ MemoryInv /\ n # src
  BY DEF StringInv, Scans
<1>4. s \in Views /\ s.at # NULL /\ InMemory(s) /\ (s.life = "ARENA1" <=> Base <= s.at)
  BY <1>2, <1>3, InitFacts DEF Held
<1>5. PICK t : t = Input(s)
  OBVIOUS
<1>6. t = Append(Spelled(s.at, s.len), mem[s.at + s.len])
  <2>1. Str8__init(s) = s
    BY <1>2, <1>3, InitFacts
  <2> QED
    BY <1>5, <2>1 DEF Input, Text, Behind
<1>7. /\ IsInput(t) /\ End(t) = s.len
      /\ \A i \in 1 .. s.len : t[i] = mem[s.at + i - 1]
  BY <1>3, <1>4, <1>6, InputFacts
<1>8. PICK read : read = Str8__scan(t, format).read
  OBVIOUS
<1>9. read \in Seq(Matches(t))
  BY <1>7, <1>8, ScanFacts, StringFormats
<1>10. view' = [Initial({src}) EXCEPT ![n] =
                  IF read = <<>> THEN Zeroed ELSE Read(Zeroed, s, read[1])]
  <2>1. PICK arg \in {Zeroed, view[n]} :
          /\ Minds("fresh", arg = Zeroed)
          /\ view' = [Initial({src}) EXCEPT ![n] =
                        IF read = <<>> THEN arg ELSE Read(arg, s, read[1])]
    BY <1>2, <1>5, <1>8 DEF Scans
  <2>2. arg = Zeroed
    BY <2>1, Zenon DEF Careful, Minds
  <2> QED
    BY <2>1, <2>2
<1>11. PICK r : r = IF read = <<>> THEN Zeroed ELSE Read(Zeroed, s, read[1])
  OBVIOUS
<1>12. s.at \in Nat /\ s.len \in Nat /\ s.at + s.len \in 0 .. Top /\ s.len < U16
  BY <1>3, <1>4, InMemoryFacts, U16Facts DEF Views
<1>13. Zeroed \in Views /\ Zeroed.at = NULL /\ Zeroed.len = 0
  BY U16Facts DEF Zeroed, Views, Lifetime
<1>14. r \in Views /\ (r.at # NULL => Held(r))
  <2>1. CASE read = <<>>
    BY <1>11, <1>13, <2>1
  <2>2. CASE read # <<>>
    <3>1. PICK m : m = read[1] /\ m \in Matches(t)
      BY <1>9, <2>2
    <3>2. /\ m.from \in Nat /\ m.to \in Nat /\ m.from <= m.to /\ m.to <= s.len
          /\ m.from < m.to => t[m.to] # Space
      BY <1>7, <3>1 DEF Matches, IsPiece
    <3>3. /\ r.at = (IF m.to > m.from THEN s.at + m.from ELSE NULL)
          /\ r.len = (0 + m.to - m.from) % U16
          /\ r.slice = TRUE /\ r.life = s.life
          /\ r = [at |-> r.at, len |-> r.len, slice |-> r.slice, life |-> r.life]
      BY <1>11, <1>13, <2>2, <3>1 DEF Read
    <3>4. r.len = m.to - m.from /\ r.len \in 0 .. U16 - 1
      <4>1. PICK a \in Nat, b \in Nat : a = m.from /\ b = m.to /\ a <= b /\ b <= s.len
        BY <3>2
      <4>2. b - a \in Nat /\ b - a < U16 /\ 0 + b - a = b - a
        BY <1>12, <4>1, U16Facts
      <4>3. r.len = b - a
        BY <3>3, <4>1, <4>2, U16Facts, ModFacts
      <4> QED
        BY <4>1, <4>2, <4>3, U16Facts
    <3>5. r \in Views
      <4>1. r.at \in {NULL} \cup 0 .. Top /\ r.len \in 0 .. U16 - 1 /\ r.life \in Lifetime
        <5>1. r.at \in {NULL} \cup 0 .. Top
          <6>1. PICK a \in Nat : a = m.from /\ a <= s.len
            BY <1>12, <3>2
          <6>2. s.at + a \in 0 .. Top
            BY <1>12, <6>1, BaseFacts
          <6> QED
            BY <3>3, <6>1, <6>2
        <5>2. r.life \in Lifetime
          BY <1>4, <3>3 DEF Views
        <5> QED
          BY <3>4, <5>1, <5>2
      <4> QED
        BY <3>3, <4>1 DEF Views
    <3>6. ASSUME r.at # NULL PROVE Held(r)
      <4>1. m.from < m.to /\ r.at = s.at + m.from
        BY <3>2, <3>3, <3>6
      <4>2. Parted(s.at + m.from, m.to - m.from)
        <5>1. m.to \in 1 .. s.len /\ s.at + m.from + (m.to - m.from) - 1 = s.at + m.to - 1
          BY <1>12, <3>2, <4>1
        <5>2. mem[s.at + m.from + (m.to - m.from) - 1] # Space
          BY <1>7, <3>2, <4>1, <5>1
        <5> QED
          BY <5>2 DEF Parted
      <4> QED
        BY <1>3, <1>4, <3>2, <3>3, <3>4, <3>5, <4>1, <4>2, PieceHeld
    <3> QED
      BY <3>5, <3>6
  <2> QED
    BY <2>1, <2>2
<1>15. r.at # NULL => Held(r)'
  BY <1>1, <1>3, <1>14, HeldStays
<1>16. /\ given' = given /\ view \in [Names -> Views]
       /\ Initial({src}) = [k \in Names |-> IF k = src THEN s ELSE view[k]]
  BY <1>2 DEF Scans, StringInv, Initial
<1>17. view' = [k \in Names |-> IF k = n THEN r ELSE IF k = src THEN s ELSE view[k]]
  BY <1>10, <1>11, <1>16
<1>18. view' \in [Names -> Views]
  BY <1>4, <1>14, <1>16, <1>17
<1>19. ASSUME NEW k \in Names, view'[k].at # NULL
       PROVE  \/ view[k].at # NULL /\ (view'[k] = view[k] \/ view'[k] = Str8__init(view[k]))
              \/ \E v \in Views : v = view'[k] /\ Held(v)'
  BY <1>2, <1>3, <1>14, <1>15, <1>17, <1>19
<1> QED
  BY <1>1, <1>16, <1>18, <1>19, StepHolds

-----------------------------------------------------------------------------
(* hexdump *)

LEMMA MinOfTwo ==
  ASSUME NEW a \in Nat, NEW b \in Nat
  PROVE  Min({a, b}) = IF a <= b THEN a ELSE b
<1> DEFINE T == {a, b}
<1>1. T \subseteq Nat /\ a \in T /\ b \in T
  OBVIOUS
<1>2. Min(T) \in T /\ Min(T) <= a /\ Min(T) <= b
  <2> HIDE DEF T
  <2> QED
    BY <1>1, MinFacts
<1> QED
  BY <1>2

\* The cursor of hexdump, still in its array
At(p) == [p |-> p, wild |-> FALSE]

LEMMA AtFacts == \A p, q : At(p).p = p /\ ~At(p).wild /\ [At(p) EXCEPT !.p = q] = At(q)
<1>1. \A p : At(p).p = p
  BY DEF At
<1>2. \A p : ~At(p).wild
  BY Zenon DEF At
<1>3. ASSUME NEW p, NEW q PROVE [At(p) EXCEPT !.p = q] = At(q)
  <2>1. \A c : [[p |-> p, wild |-> c] EXCEPT !.p = q] = [p |-> q, wild |-> c]
    OBVIOUS
  <2> QED
    BY <2>1, Zenon DEF At
<1> QED
  BY <1>1, <1>2, <1>3, Zenon

LEMMA PrintedFacts ==
  ASSUME Careful, NEW p \in Nat, NEW w \in Nat
  PROVE  /\ p < 4096 => Printed(At(p), w) = At(p + w)
         /\ p >= 4096 => Printed(At(p), w) = At(p - 1)
<1>1. DUMP = 4096
  BY DEF Careful
<1>2. ASSUME p < 4096 PROVE Printed(At(p), w) = At(p + w)
  <2>1. At(p).p < DUMP
    BY <1>1, <1>2, AtFacts
  <2>2. Printed(At(p), w) = [At(p) EXCEPT !.p = At(p).p + w]
    BY <2>1, Zenon DEF Printed
  <2> QED
    BY <2>2, AtFacts, Zenon
<1>3. ASSUME p >= 4096 PROVE Printed(At(p), w) = At(p - 1)
  <2>1. ~(At(p).p < DUMP)
    BY <1>1, <1>3, AtFacts
  <2>2. Printed(At(p), w) = [At(p) EXCEPT !.p = At(p).p - 1]
    <3>1. EOVERFLOW
      BY DEF Careful
    <3> QED
      BY <2>1, <3>1, Zenon DEF Printed
  <2> QED
    BY <2>2, AtFacts, Zenon
<1> QED
  BY <1>2, <1>3

LEMMA ColumnsFacts ==
  ASSUME Careful, NEW p \in Nat, NEW w \in {1, 3}
  PROVE  /\ p >= 4095 => Columns(At(p), w) = At(p)
         /\ \A m \in Nat :
              p < 4095 /\ m = (IF 16 <= (4094 - p) \div w + 1 THEN 16 ELSE (4094 - p) \div w + 1)
                => Columns(At(p), w) = At(p + w * m)
<1>1. DUMP = 4096
  BY DEF Careful
<1>2. ASSUME p >= 4095 PROVE Columns(At(p), w) = At(p)
  <2>1. At(p).p >= DUMP - 1
    BY <1>1, <1>2, AtFacts
  <2> QED
    BY <2>1, Zenon DEF Columns
<1>3. ASSUME NEW m \in Nat, p < 4095,
             m = (IF 16 <= (4094 - p) \div w + 1 THEN 16 ELSE (4094 - p) \div w + 1)
      PROVE  Columns(At(p), w) = At(p + w * m)
  <2>1. (4094 - p) \div w + 1 \in Nat
    <3>1. CASE w = 1
      BY <1>3, <3>1
    <3>2. CASE w = 3
      BY <1>3, <3>2
    <3> QED
      BY <3>1, <3>2
  <2>2. Min({16, (4094 - p) \div w + 1}) = m
    BY <1>3, <2>1, MinOfTwo
  <2>3. ~(At(p).p >= DUMP - 1)
    BY <1>1, <1>3, AtFacts
  <2>4. DUMP - 2 - At(p).p = 4094 - p
    BY <1>1, AtFacts
  <2>5. Columns(At(p), w)
          = [At(p) EXCEPT !.p = At(p).p + w * Min({16, (DUMP - 2 - At(p).p) \div w + 1})]
    BY <2>3, Zenon DEF Columns
  <2>6. Columns(At(p), w) = [At(p) EXCEPT !.p = At(p).p + w * m]
    <3>1. Min({16, (DUMP - 2 - At(p).p) \div w + 1}) = m
      BY <2>2, <2>4
    <3> QED
      BY <2>5, <3>1, Zenon
  <2> QED
    BY <2>6, AtFacts, Zenon
<1> QED
  BY <1>2, <1>3

\* Up to 53 lines of 77 characters fit into 4096 bytes; the next is cut short twice, and
\* what snprintf returns then takes p back into the array.
LEMMA LineFits ==
  ASSUME Careful, NEW k \in 0 .. 53
  PROVE  ~Line(77 * k).wild /\ Line(77 * k).p < DUMP
<1>1. 77 * k \in Nat /\ Printed(At(77 * k), 10) = At(77 * k + 10)
  <2>1. 77 * k \in Nat /\ 77 * k < 4096
    OBVIOUS
  <2> QED
    BY <2>1, PrintedFacts
<1>2. Line(77 * k) = Printed(Columns(Printed(Columns(At(77 * k + 10), 3), 1), 1), 2)
  <2>1. [p |-> 77 * k, wild |-> FALSE] = At(77 * k)
    BY DEF At
  <2> QED
    BY <1>1, <2>1, Zenon DEF Line
<1>3. CASE k <= 52
  <2>1. PICK p \in Nat : p = 77 * k + 10 /\ p <= 4014
    BY <1>1, <1>3
  <2>2. Columns(At(p), 3) = At(p + 48)
    <3>1. p < 4095 /\ 16 <= (4094 - p) \div 3 + 1
      BY <2>1
    <3>2. p + 3 * 16 = p + 48
      BY <2>1
    <3> QED
      BY <3>1, <3>2, ColumnsFacts
  <2>3. Printed(At(p + 48), 1) = At(p + 49)
    <3>1. p + 48 \in Nat /\ p + 48 < 4096 /\ (p + 48) + 1 = p + 49
      BY <2>1
    <3> QED
      BY <3>1, PrintedFacts
  <2>4. Columns(At(p + 49), 1) = At(p + 65)
    <3>1. p + 49 \in Nat /\ p + 49 < 4095 /\ 16 <= (4094 - (p + 49)) \div 1 + 1
      BY <2>1
    <3>2. (p + 49) + 1 * 16 = p + 65
      BY <2>1
    <3> QED
      BY <3>1, <3>2, ColumnsFacts
  <2>5. Printed(At(p + 65), 2) = At(p + 67)
    <3>1. p + 65 \in Nat /\ p + 65 < 4096 /\ (p + 65) + 2 = p + 67
      BY <2>1
    <3> QED
      BY <3>1, PrintedFacts
  <2>6. Line(77 * k) = At(p + 67) /\ p + 67 < 4096
    BY <1>2, <2>1, <2>2, <2>3, <2>4, <2>5
  <2> QED
    BY <2>6, AtFacts DEF Careful
<1>4. CASE k = 53
  <2>1. 77 * k + 10 = 4091
    BY <1>4
  <2>2. Columns(At(4091), 3) = At(4097)
    <3>1. (4094 - 4091) \div 3 + 1 = 2 /\ 4091 + 3 * 2 = 4097
      OBVIOUS
    <3> QED
      BY <3>1, ColumnsFacts
  <2>3. Printed(At(4097), 1) = At(4096)
    BY PrintedFacts
  <2>4. Columns(At(4096), 1) = At(4096)
    BY ColumnsFacts
  <2>5. Printed(At(4096), 2) = At(4095)
    BY PrintedFacts
  <2>6. Columns(At(77 * k + 10), 3) = At(4097)
    BY <2>1, <2>2
  <2>7. Line(77 * k) = At(4095)
    BY <1>2, <2>3, <2>4, <2>5, <2>6
  <2> QED
    BY <2>7, AtFacts DEF Careful
<1> QED
  BY <1>3, <1>4

LEMMA HexdumpFits ==
  ASSUME Careful, NEW len \in Dumps
  PROVE  hexdump(len)
<1> DEFINE a == (len - 1) \div 16
<1>1. len \in Nat \ {0}
  BY StringBounds
<1>2. a \in Nat
  BY <1>1
<1>3. Width = 77
  BY DEF Width
<1>4. (DUMP - 2) \div Width = 53
  BY <1>3 DEF Careful
<1>5. PICK k \in 0 .. 53 : k = Min({a, 53})
  <2> HIDE DEF a
  <2> QED
    BY <1>2, MinOfTwo
<1>6. hexdump(len) = (~Line(77 * k).wild /\ Line(77 * k).p < DUMP)
  BY <1>3, <1>4, <1>5 DEF hexdump
<1> QED
  BY <1>6, LineFits

LEMMA PrintCall ==
  ASSUME Careful, StringInv, SZ_print
  PROVE  StringInv'
<1>1. PICK len \in Dumps : wild' = (wild \/ ~hexdump(len))
  BY DEF SZ_print
<1>2. hexdump(len) /\ ~wild
  BY HexdumpFits DEF StringInv, MemoryInv
<1>3. ~wild'
  BY <1>1, <1>2, Zenon
<1>4. MemoryInv' /\ Keeps
  BY <1>3, QuietStep DEF SZ_print, StringInv
<1> QED
  BY <1>4, StepHolds DEF SZ_print, StringInv

-----------------------------------------------------------------------------
(* Every state *)

LEMMA StringInit == Init => StringInv
<1> SUFFICES ASSUME Init PROVE StringInv
  OBVIOUS
<1>1. PICK t \in Texts :
        /\ mem = [i \in 0 .. Top |-> IF i < Len(t) THEN t[i + 1] ELSE "NUL"]
        /\ buffers = {[lo |-> 0, hi |-> Len(t)]} /\ pos = Base
        /\ view = [n \in Names |-> Stack] /\ given = {[at |-> 0, text |-> t]} /\ wild = FALSE
  BY Zenon DEF Init
<1>2. /\ t \in Seq(Characters) /\ Len(t) \in Nat /\ Len(t) < Base /\ DOMAIN t = 1 .. Len(t)
      /\ \A i \in DOMAIN t : t[i] # "NUL"
  BY BaseFacts, StringTexts, CharacterFacts
<1>3. \A i \in Base .. Top : mem[i] = "NUL"
  BY <1>1, <1>2, BaseFacts
<1>4. mem \in [0 .. Top -> Characters]
  <2>1. ASSUME NEW i \in 0 .. Top
        PROVE  (IF i < Len(t) THEN t[i + 1] ELSE "NUL") \in Characters
    BY <1>2, CharacterFacts
  <2> QED
    BY <1>1, <2>1
<1>5. ~wild
  BY <1>1, Zenon
<1>6. ASSUME NEW b \in buffers PROVE Placeable(b.lo, b.hi)
  BY <1>1, <1>2 DEF Placeable
<1>7. MemoryInv
  BY <1>1, <1>3, <1>4, <1>5, <1>6, BaseFacts DEF MemoryInv
<1>8. ASSUME NEW g \in given PROVE Says(g)
  <2>1. g.at = 0 /\ g.text = t
    BY <1>1
  <2>2. ASSUME NEW i \in DOMAIN t PROVE mem[0 + i - 1] = t[i]
    BY <1>1, <1>2, BaseFacts
  <2>3. mem[0 + Len(t)] = "NUL"
    BY <1>1, <1>2, BaseFacts
  <2>4. Placeable(0, 0 + Len(t))
    BY <1>2 DEF Placeable
  <2> QED
    BY <1>2, <2>1, <2>2, <2>3, <2>4 DEF Says
<1>9. Stack \in Views /\ Stack.at = NULL
  BY U16Facts DEF Stack, Views, Lifetime
<1>10. view \in [Names -> Views] /\ \A n \in Names : view[n].at = NULL
  BY <1>1, <1>9
<1> QED
  BY <1>7, <1>8, <1>10 DEF StringInv

LEMMA StringStep == Careful /\ StringInv /\ [Next]_vars => StringInv'
<1> SUFFICES ASSUME Careful, StringInv, [Next]_vars PROVE StringInv'
  OBVIOUS
<1>1. CASE Reset
  BY <1>1, ResetCall
<1>2. CASE SZ_print
  BY <1>2, PrintCall
<1>3. CASE \E n \in Names : Literal(n) \/ Str8__stack(n) \/ Str8__cstr(n)
  BY <1>3, LiteralCall, StackCall, CstrCall
<1>4. CASE \E n, src \in Names : Path(n, src) \/ \E format \in Formats : Scans(n, src, format)
  BY <1>4, PathCall, ScansCall
<1>5. CASE \E n, src \in Names : Compares(n, src)
  BY <1>5, ComparesCall
<1>6. CASE \E n, src \in Names : Str8__cat(n, <<src>>) \/ Str8__cat(n, <<src, src>>)
  BY <1>6, CatCall
<1>7. CASE \E g \in given : cstr_arena1(g) \/ cstr__vformat(g)
  BY <1>7, CopyCall, FormatIsCopy
<1>8. CASE UNCHANGED vars
  <2>1. view' = view /\ given' = given /\ view \in [Names -> Views] /\ MemoryInv
    BY <1>8 DEF vars, StringInv
  <2>2. ~wild'
    BY <1>8, <2>1, Zenon DEF vars, MemoryInv
  <2>3. MemoryInv' /\ Keeps
    BY <1>8, <2>1, <2>2, QuietStep DEF vars
  <2> QED
    BY <2>1, <2>3, StepHolds
<1> QED
  BY <1>1, <1>2, <1>3, <1>4, <1>5, <1>6, <1>7, <1>8 DEF Next

LEMMA StringMeans == StringInv => ViewsHold /\ CstrsHold
<1> SUFFICES ASSUME StringInv PROVE ViewsHold /\ CstrsHold
  OBVIOUS
<1>1. MemoryInv
  BY DEF StringInv
<1>2. ASSUME NEW n \in Used, NEW s, s = Str8__init(view[n])
      PROVE  /\ \E b \in buffers : b.lo <= s.at /\ s.at + s.len <= b.hi
             /\ "NUL" \notin ToSet(Spelled(s.at, s.len))
             /\ s.slice \/ Behind(s) = "NUL"
  <2>1. n \in Names /\ view[n] \in Views /\ view[n].at # NULL /\ Held(view[n])
    BY DEF Used, StringInv
  <2>2. s \in Views /\ s.at # NULL /\ InMemory(s) /\ Str8__init(s) = s
    BY <1>2, <2>1, InitFacts DEF Held
  <2>3. "NUL" \notin ToSet(Spelled(s.at, s.len))
    <3>1. PICK t : t = Spelled(s.at, s.len)
      OBVIOUS
    <3>2. \A i \in DOMAIN t : t[i] # "NUL"
      BY <1>1, <2>2, <3>1, SpelledFacts
    <3> QED
      BY <3>1, <3>2 DEF ToSet
  <2>4. s.slice \/ Behind(s) = "NUL"
    BY <2>2 DEF InMemory, Behind
  <2> QED
    BY <2>2, <2>3, <2>4 DEF InMemory
<1>3. ViewsHold
  <2>1. view \in [Names -> Views] /\ pos \in Base .. Top
    BY <1>1 DEF StringInv, MemoryInv
  <2>2. ~wild
    BY <1>1 DEF MemoryInv
  <2> QED
    BY <1>2, <2>1, <2>2, Zenon DEF ViewsHold
<1>4. ASSUME NEW g \in given
      PROVE  Spelled(g.at, Len(g.text)) = g.text /\ mem[g.at + Len(g.text)] = "NUL"
  <2>1. Says(g)
    BY DEF StringInv
  <2>2. /\ g.text \in Seq(Characters) /\ DOMAIN g.text = 1 .. Len(g.text)
        /\ g.text = [i \in 1 .. Len(g.text) |-> g.text[i]]
    BY <2>1 DEF Says
  <2>3. \A i \in 1 .. Len(g.text) : mem[g.at + i - 1] = g.text[i]
    BY <2>1, <2>2 DEF Says
  <2>4. Spelled(g.at, Len(g.text)) = g.text
    BY <2>2, <2>3 DEF Spelled
  <2> QED
    BY <2>1, <2>4 DEF Says
<1> QED
  BY <1>3, <1>4 DEF CstrsHold

\* Whatever the program does that looks after what it must, a Str8 stays within one buffer
\* and says the same as long as that lives, no C string that was handed out changes, and
\* no function writes outside of its block.
THEOREM StringSafety ==
  ASSUME Careful
  PROVE  Spec => [](ViewsHold /\ CstrsHold)
<1>1. StringInv /\ [Next]_vars => StringInv'
  BY StringStep
<1> QED
  BY <1>1, StringInit, StringMeans, PTL DEF Spec

-----------------------------------------------------------------------------
(* What the parts of a path say *)

LEMMA MinIs ==
  ASSUME NEW T, T \subseteq Nat, NEW x \in T, \A y \in T : x <= y
  PROVE  Min(T) = x
<1>1. Min(T) \in T /\ Min(T) <= x /\ x <= Min(T)
  BY MinFacts
<1>2. Min(T) \in Nat /\ x \in Nat
  BY <1>1
<1> QED
  BY <1>1, <1>2

LEMMA MaxIs ==
  ASSUME NEW b \in Nat, NEW T, T \subseteq 0 .. b, NEW x \in T, \A y \in T : y <= x
  PROVE  Max(T) = x
<1>1. Max(T) \in T /\ Max(T) >= x /\ Max(T) <= x
  BY MaxFacts
<1>2. Max(T) \in Nat /\ x \in Nat
  <2>1. Max(T) \in 0 .. b /\ x \in 0 .. b
    BY <1>1
  <2> QED
    BY <2>1
<1> QED
  BY <1>1, <1>2

LEMMA SpelledIs ==
  ASSUME MemoryInv, NEW at \in Nat, NEW n \in Nat, at + n <= Top + 1
  PROVE  /\ Spelled(at, n) \in Seq(Characters) /\ Len(Spelled(at, n)) = n
         /\ DOMAIN Spelled(at, n) = 1 .. n
         /\ \A i \in 1 .. n : Spelled(at, n)[i] = mem[at + i - 1]
<1>1. ASSUME NEW i \in 1 .. n PROVE mem[at + i - 1] \in Characters
  BY BaseFacts DEF MemoryInv
<1>2. Spelled(at, n) \in [1 .. n -> Characters]
  BY <1>1 DEF Spelled
<1>3. \A i \in 1 .. n : Spelled(at, n)[i] = mem[at + i - 1]
  BY DEF Spelled
<1> HIDE DEF Spelled
<1>4. Spelled(at, n) \in Seq(Characters) /\ Len(Spelled(at, n)) = n
  BY <1>2
<1> QED
  BY <1>2, <1>3, <1>4

LEMMA SpelledTogether ==
  ASSUME MemoryInv, NEW at \in Nat, NEW n \in Nat, at + n <= Top + 1, NEW b \in 0 .. n
  PROVE  Spelled(at, b) \o Spelled(at + b, n - b) = Spelled(at, n)
<1>1. PICK x, y, t : x = Spelled(at, b) /\ y = Spelled(at + b, n - b) /\ t = Spelled(at, n)
  OBVIOUS
<1>2. /\ x \in Seq(Characters) /\ Len(x) = b
      /\ \A i \in 1 .. b : x[i] = mem[at + i - 1]
  BY <1>1, SpelledIs, BaseFacts
<1>3. /\ y \in Seq(Characters) /\ Len(y) = n - b
      /\ \A i \in 1 .. n - b : y[i] = mem[(at + b) + i - 1]
  <2>1. at + b \in Nat /\ n - b \in Nat /\ (at + b) + (n - b) <= Top + 1
    BY BaseFacts
  <2> QED
    BY <1>1, <2>1, SpelledIs
<1>4. /\ t \in Seq(Characters) /\ Len(t) = n
      /\ \A i \in 1 .. n : t[i] = mem[at + i - 1]
  BY <1>1, SpelledIs, BaseFacts
<1>5. /\ x \o y \in Seq(Characters) /\ Len(x \o y) = n
      /\ \A i \in 1 .. n : (x \o y)[i] = IF i <= b THEN x[i] ELSE y[i - b]
  <2>1. /\ x \o y \in Seq(Characters) /\ Len(x \o y) = Len(x) + Len(y)
        /\ \A i \in 1 .. Len(x) + Len(y) : (x \o y)[i] = IF i <= Len(x) THEN x[i] ELSE y[i - Len(x)]
    BY <1>2, <1>3, ConcatProperties
  <2>2. Len(x) + Len(y) = n
    BY <1>2, <1>3
  <2>3. \A i \in 1 .. n : (x \o y)[i] = IF i <= b THEN x[i] ELSE y[i - b]
    BY <1>2, <2>1, <2>2, Zenon
  <2> QED
    BY <2>1, <2>2, <2>3
<1>6. ASSUME NEW i \in 1 .. n PROVE (x \o y)[i] = t[i]
  <2>1. (x \o y)[i] = (IF i <= b THEN x[i] ELSE y[i - b]) /\ t[i] = mem[at + i - 1]
    BY <1>4, <1>5, Zenon
  <2>2. CASE i <= b
    <3>1. x[i] = mem[at + i - 1]
      BY <1>2, <2>2
    <3> QED
      BY <2>1, <2>2, <3>1, Zenon
  <2>3. CASE ~(i <= b)
    <3>1. i - b \in 1 .. n - b /\ (at + b) + (i - b) - 1 = at + i - 1
      BY <2>3
    <3>2. y[i - b] = mem[at + i - 1]
      BY <1>3, <3>1
    <3> QED
      BY <2>1, <2>3, <3>2, Zenon
  <2> QED
    BY <2>2, <2>3
<1>7. x \o y = t
  BY <1>4, <1>5, <1>6, SeqEqual
<1> QED
  BY <1>1, <1>7

LEMMA SpelledWithin ==
  ASSUME MemoryInv, NEW at \in Nat, NEW n \in Nat, at + n <= Top + 1,
         NEW b \in 1 .. n + 1, NEW e \in b - 1 .. n
  PROVE  SubSeq(Spelled(at, n), b, e) = Spelled(at + (b - 1), e - (b - 1))
<1>1. PICK t, x : t = Spelled(at, n) /\ x = Spelled(at + (b - 1), e - (b - 1))
  OBVIOUS
<1>2. /\ t \in Seq(Characters) /\ Len(t) = n
      /\ \A i \in 1 .. n : t[i] = mem[at + i - 1] /\ t[i] \in Characters
  BY <1>1, SpelledIs
<1>3. at + (b - 1) \in Nat /\ e - (b - 1) \in Nat /\ (at + (b - 1)) + (e - (b - 1)) <= Top + 1
  BY BaseFacts
<1>4. /\ x \in Seq(Characters) /\ Len(x) = e - (b - 1)
      /\ \A i \in 1 .. e - (b - 1) : x[i] = mem[(at + (b - 1)) + i - 1]
  BY <1>1, <1>3, SpelledIs
<1>5. /\ SubSeq(t, b, e) \in Seq(Characters)
      /\ Len(SubSeq(t, b, e)) = IF b <= e THEN e - b + 1 ELSE 0
      /\ \A i \in 1 .. e - b + 1 : SubSeq(t, b, e)[i] = t[b + i - 1]
  <2>1. \A i \in b .. e : t[i] \in Characters
    BY <1>2
  <2>2. b \in Int /\ e \in Int
    OBVIOUS
  <2> QED
    BY <2>1, <2>2, SubSeqProperties
<1>6. Len(SubSeq(t, b, e)) = Len(x)
  BY <1>4, <1>5
<1>7. ASSUME NEW i \in 1 .. Len(SubSeq(t, b, e)) PROVE SubSeq(t, b, e)[i] = x[i]
  <2>1. i \in 1 .. e - (b - 1) /\ i \in 1 .. e - b + 1
    BY <1>4, <1>6, <1>7
  <2>2. b + i - 1 \in 1 .. n /\ at + (b + i - 1) - 1 = (at + (b - 1)) + i - 1
    BY <2>1
  <2> QED
    BY <1>2, <1>4, <1>5, <2>1, <2>2
<1>8. SubSeq(t, b, e) = x
  BY <1>4, <1>5, <1>6, <1>7, SeqEqual
<1> QED
  BY <1>1, <1>8

\* The separators of a word of the path t
Inner(t, w, kind) == {i \in DOMAIN w : w[i] \in kind /\ (i > 1 \/ w # t)}

\* Where a string has its last character of the kind, but for the first one and the one
\* behind it
IsLast(at, l, kind, x) ==
  /\ x \in 0 .. l /\ (x # 0 => x < l /\ mem[at + x] \in kind)
  /\ \A i \in 1 .. l : mem[at + i] \in kind => i <= x

LEMMA Last1Is ==
  ASSUME NEW s, s.len \in Nat, NEW kind, mem[s.at + s.len] \notin kind
  PROVE  IsLast(s.at, s.len, kind, Last1(s, kind))
BY Last1Facts DEF IsLast

Behind1(x) == IF x = 0 THEN 0 ELSE x + 1

TwoParts(t, dir, file) ==
  IF Inner(t, t, Slash) = {} THEN dir = t /\ file = t
  ELSE dir \o file = t /\ Last(dir) \in Slash /\ Inner(t, file, Slash) = {}

LEMMA DirAndFile ==
  ASSUME MemoryInv, NEW at \in Nat, NEW l \in Nat, at + l <= Top,
         NEW x, IsLast(at, l, Slash, x),
         NEW t, t = Spelled(at, l),
         NEW dir, dir = Spelled(at, IF x = 0 THEN l ELSE x + 1),
         NEW file, file = Spelled(at + Behind1(x), l - Behind1(x))
  PROVE  TwoParts(t, dir, file)
<1> SUFFICES IF Inner(t, t, Slash) = {} THEN dir = t /\ file = t
             ELSE dir \o file = t /\ Last(dir) \in Slash /\ Inner(t, file, Slash) = {}
  BY DEF TwoParts
<1>1. Top \in Nat /\ at + l <= Top + 1
  BY BaseFacts
<1>2. Len(t) = l /\ DOMAIN t = 1 .. l /\ \A i \in 1 .. l : t[i] = mem[at + i - 1]
  BY <1>1, SpelledIs
<1>3. x \in 0 .. l /\ (x # 0 => x < l /\ mem[at + x] \in Slash)
      /\ \A i \in 1 .. l : mem[at + i] \in Slash => i <= x
  BY DEF IsLast
<1>4. CASE x = 0
  <2>1. dir = t /\ file = t
    BY <1>4 DEF Behind1
  <2>2. ASSUME NEW i \in Inner(t, t, Slash) PROVE FALSE
    <3>1. i \in 1 .. l /\ i > 1 /\ t[i] \in Slash
      BY <1>2, <2>2 DEF Inner
    <3>2. i - 1 \in 1 .. l /\ at + (i - 1) = at + i - 1 /\ ~(i - 1 <= 0)
      BY <3>1
    <3> QED
      BY <1>2, <1>3, <1>4, <3>1, <3>2
  <2> QED
    BY <2>1, <2>2
<1>5. CASE x # 0
  <2>1. x \in 1 .. l - 1 /\ x + 1 \in 1 .. l /\ at + (x + 1) - 1 = at + x /\ mem[at + x] \in Slash
    BY <1>3, <1>5
  <2>2. dir = Spelled(at, x + 1) /\ file = Spelled(at + (x + 1), l - (x + 1))
    BY <1>5 DEF Behind1
  <2>3. dir \o file = t
    <3>1. x + 1 \in 0 .. l
      BY <2>1
    <3> QED
      BY <1>1, <2>2, <3>1, SpelledTogether
  <2>4. /\ Len(dir) = x + 1 /\ dir[x + 1] = mem[at + (x + 1) - 1]
    <3>1. x + 1 \in Nat /\ at + (x + 1) <= Top + 1 /\ x + 1 \in 1 .. x + 1
      BY <1>1, <2>1
    <3> QED
      BY <2>2, <3>1, SpelledIs
  <2>5. Last(dir) \in Slash
    BY <2>1, <2>4 DEF Last
  <2>6. /\ DOMAIN file = 1 .. l - (x + 1)
        /\ \A i \in 1 .. l - (x + 1) : file[i] = mem[(at + (x + 1)) + i - 1]
    <3>1. PICK a \in Nat, n \in Nat : a = at + (x + 1) /\ n = l - (x + 1) /\ a + n <= Top + 1
      BY <1>1, <2>1
    <3>2. DOMAIN file = 1 .. n /\ \A i \in 1 .. n : file[i] = mem[a + i - 1]
      <4>1. file = Spelled(a, n)
        BY <2>2, <3>1
      <4>2. DOMAIN Spelled(a, n) = 1 .. n /\ \A i \in 1 .. n : Spelled(a, n)[i] = mem[a + i - 1]
        BY <3>1, SpelledIs
      <4> QED
        BY <4>1, <4>2, Zenon
    <3> QED
      BY <3>1, <3>2
  <2>7. ASSUME NEW i \in Inner(t, file, Slash) PROVE FALSE
    <3>1. i \in 1 .. l - (x + 1) /\ file[i] \in Slash
      BY <2>6, <2>7 DEF Inner
    <3>2. x + i \in 1 .. l /\ (at + (x + 1)) + i - 1 = at + (x + i) /\ ~(x + i <= x)
      BY <2>1, <3>1
    <3> QED
      BY <1>3, <2>6, <3>1, <3>2
  <2>8. x + 1 \in Inner(t, t, Slash)
    <3>1. x + 1 > 1 /\ t[x + 1] = mem[at + (x + 1) - 1]
      BY <1>2, <2>1
    <3> QED
      BY <1>2, <2>1, <3>1 DEF Inner
  <2> QED
    BY <2>3, <2>5, <2>7, <2>8
<1> QED
  BY <1>4, <1>5

\* Where the words of a file's name are parted
Dots(at, l, k) == {i \in k .. l : i > 0 /\ mem[at + i] = "."}

NameParts(dots, file, base, ext) ==
  IF dots = {} THEN base = file /\ ext = file
  ELSE /\ base = SubSeq(file, 1, Min(dots) - 1)
       /\ ext = SubSeq(file, Max(dots) + 1, Len(file))

LEMMA BaseAndExt ==
  ASSUME MemoryInv, NEW at \in Nat, NEW l \in Nat, at + l <= Top, mem[at + l] # ".",
         NEW x, IsLast(at, l, Slash, x), NEW z, IsLast(at, l, Slash \cup {"."}, z),
         NEW k \in Nat, k = Behind1(x),
         NEW m, m = Min({l} \cup Dots(at, l, k)),
         NEW t, t = Spelled(at, l),
         NEW file, file = Spelled(at + k, l - k),
         NEW base, base = Spelled(at + k, m - k),
         NEW ext, ext = Spelled(at + Behind1(z), l - Behind1(z)),
         NEW dots, dots = Inner(t, file, {"."})
  PROVE  NameParts(dots, file, base, ext)
<1> SUFFICES IF dots = {} THEN base = file /\ ext = file
             ELSE /\ base = SubSeq(file, 1, Min(dots) - 1)
                  /\ ext = SubSeq(file, Max(dots) + 1, Len(file))
  BY Zenon DEF NameParts
<1>1. Top \in Nat /\ at + l <= Top + 1 /\ k <= l
      /\ x \in 0 .. l /\ (x # 0 => x < l) /\ \A i \in 1 .. l : mem[at + i] \in Slash => i <= x
  BY BaseFacts DEF IsLast, Behind1
<1>2. Len(t) = l
  BY <1>1, SpelledIs
<1>3. PICK a \in Nat, n \in Nat : a = at + k /\ n = l - k /\ a + n <= Top + 1
  BY <1>1
<1>4. Len(file) = n /\ DOMAIN file = 1 .. n /\ \A i \in 1 .. n : file[i] = mem[a + i - 1]
  <2>1. file = Spelled(a, n)
    BY <1>3
  <2>2. /\ Len(Spelled(a, n)) = n /\ DOMAIN Spelled(a, n) = 1 .. n
        /\ \A i \in 1 .. n : Spelled(a, n)[i] = mem[a + i - 1]
    BY <1>3, SpelledIs
  <2> QED
    BY <2>1, <2>2, Zenon
<1>5. file # t <=> k > 0
  <2>1. CASE k = 0
    BY <1>3, <2>1
  <2>2. CASE k > 0
    BY <1>2, <1>3, <1>4, <2>2
  <2> QED
    BY <2>1, <2>2
<1>6. ASSUME NEW i \in 1 .. n PROVE i \in dots <=> k + (i - 1) \in Dots(at, l, k)
  <2>1. a + i - 1 = at + (k + (i - 1)) /\ k + (i - 1) \in k .. l
    BY <1>3
  <2>2. i > 1 \/ file # t <=> k + (i - 1) > 0
    BY <1>5
  <2>3. file[i] \in {"."} <=> mem[at + (k + (i - 1))] = "."
    BY <1>4, <2>1
  <2> QED
    BY <1>4, <2>1, <2>2, <2>3, Zenon DEF Inner, Dots
<1>7. \A i \in dots : i \in 1 .. n
  BY <1>4 DEF Inner
<1>8. ASSUME NEW i \in Dots(at, l, k) PROVE i \in k .. l - 1 /\ i > 0 /\ mem[at + i] = "." /\ (i - k) + 1 \in dots
  <2>1. i \in k .. l /\ i > 0 /\ mem[at + i] = "." /\ i # l
    BY DEF Dots
  <2>2. (i - k) + 1 \in 1 .. n /\ k + (((i - k) + 1) - 1) = i
    BY <1>3, <2>1
  <2> QED
    BY <1>6, <2>1, <2>2
<1>9. /\ z \in 0 .. l /\ (z # 0 => z < l /\ mem[at + z] \in Slash \cup {"."})
      /\ \A i \in 1 .. l : mem[at + i] \in Slash \cup {"."} => i <= z
  BY DEF IsLast
<1>10. CASE dots = {}
  <2>1. Dots(at, l, k) = {}
    BY <1>8, <1>10
  <2>2. m = l
    <3>1. {l} \cup Dots(at, l, k) = {l} /\ {l} \subseteq Nat /\ l \in {l} /\ \A y \in {l} : l <= y
      BY <2>1
    <3>2. Min({l}) = l
      BY <3>1, MinIs, Zenon
    <3> QED
      BY <3>1, <3>2
  <2>3. z = x
    <3>1. x <= z
      <4>1. x # 0 => x \in 1 .. l /\ mem[at + x] \in Slash
        BY <1>1 DEF IsLast
      <4> QED
        BY <1>1, <1>9, <4>1
    <3>2. z <= x
      <4>1. CASE z = 0
        BY <1>1, <4>1
      <4>2. CASE z # 0
        <5>1. z \in 1 .. l /\ (mem[at + z] \in Slash \/ mem[at + z] = ".")
          BY <1>9, <4>2
        <5>2. z \notin Dots(at, l, k)
          BY <2>1
        <5>3. z >= k => mem[at + z] # "."
          BY <5>1, <5>2 DEF Dots
        <5>4. z < k => z <= x
          BY <1>1, <1>9 DEF Behind1
        <5> QED
          BY <1>1, <5>1, <5>3, <5>4
      <4> QED
        BY <4>1, <4>2
    <3> QED
      BY <1>1, <1>9, <3>1, <3>2
  <2> QED
    BY <1>10, <2>2, <2>3
<1>11. CASE dots # {}
  <2>1. PICK i0 \in dots : TRUE
    BY <1>11
  <2>2. k + (i0 - 1) \in Dots(at, l, k)
    BY <1>6, <1>7, <2>1
  <2>3. m \in Dots(at, l, k) /\ \A i \in Dots(at, l, k) : m <= i
    <3> DEFINE D == {l} \cup Dots(at, l, k)
    <3>1. D \subseteq Nat
      BY <1>8
    <3>2. m \in D /\ \A i \in D : m <= i
      <4> HIDE DEF D
      <4>1. D # {}
        BY DEF D
      <4> QED
        BY <3>1, <4>1, MinFacts DEF D
    <3>3. m # l
      BY <1>8, <2>2, <3>2
    <3> QED
      BY <3>2, <3>3
  <2>4. Min(dots) = (m - k) + 1
    <3>1. (m - k) + 1 \in dots /\ dots \subseteq Nat /\ m \in Nat
      BY <1>7, <1>8, <2>3
    <3>2. ASSUME NEW i \in dots PROVE (m - k) + 1 <= i
      <4>1. i \in 1 .. n /\ k + (i - 1) \in Dots(at, l, k)
        BY <1>6, <1>7
      <4>2. m <= k + (i - 1)
        BY <2>3, <4>1
      <4> QED
        BY <3>1, <4>1, <4>2
    <3> QED
      BY <3>1, <3>2, MinIs
  <2>5. z \in Dots(at, l, k) /\ \A i \in Dots(at, l, k) : i <= z
    <3>1. ASSUME NEW i \in Dots(at, l, k) PROVE i <= z
      <4>1. i \in 1 .. l /\ mem[at + i] \in Slash \cup {"."}
        BY <1>8
      <4> QED
        BY <1>9, <4>1
    <3>2. m <= z /\ m \in k .. l - 1 /\ m > 0
      BY <1>8, <2>3, <3>1
    <3>3. z \in k .. l /\ z > 0 /\ (mem[at + z] \in Slash \/ mem[at + z] = ".")
      BY <1>9, <3>2
    <3>4. mem[at + z] \notin Slash
      <4>1. x < z
        BY <1>1, <3>2, <3>3 DEF Behind1
      <4> QED
        BY <1>1, <3>3, <4>1
    <3> QED
      BY <3>1, <3>3, <3>4 DEF Dots
  <2>6. Max(dots) = (z - k) + 1
    <3>1. (z - k) + 1 \in dots /\ dots \subseteq 0 .. n /\ z \in Nat
      BY <1>7, <1>8, <2>5
    <3>2. ASSUME NEW i \in dots PROVE i <= (z - k) + 1
      <4>1. i \in 1 .. n /\ k + (i - 1) \in Dots(at, l, k)
        BY <1>6, <1>7
      <4>2. k + (i - 1) <= z
        BY <2>5, <4>1
      <4> QED
        BY <3>1, <4>1, <4>2
    <3> QED
      BY <3>1, <3>2, MaxIs
  <2>7. base = SubSeq(file, 1, Min(dots) - 1)
    <3>1. PICK e \in Nat : e = m - k /\ e <= n
      BY <1>3, <1>8, <2>3
    <3>2. SubSeq(Spelled(a, n), 1, e) = Spelled(a, e)
      <4>1. PICK b \in Nat : b = 1 /\ b \in 1 .. n + 1 /\ e \in b - 1 .. n /\ a + n <= Top + 1
        BY <1>3, <3>1
      <4>2. SubSeq(Spelled(a, n), b, e) = Spelled(a + (b - 1), e - (b - 1))
        BY <4>1, SpelledWithin
      <4>3. a + (b - 1) = a /\ e - (b - 1) = e
        BY <4>1
      <4> QED
        BY <4>1, <4>2, <4>3, Zenon
    <3>3. Min(dots) - 1 = e
      BY <2>4, <3>1
    <3> QED
      BY <1>3, <3>1, <3>2, <3>3
  <2>8. ext = SubSeq(file, Max(dots) + 1, Len(file))
    <3>1. z \in k .. l - 1 /\ z > 0
      BY <1>8, <2>5
    <3>2. PICK b \in Nat : b = ((z - k) + 1) + 1 /\ b \in 1 .. n + 1 /\ n \in (b - 1) .. n
      BY <1>3, <3>1
    <3>3. SubSeq(Spelled(a, n), b, n) = Spelled(a + (b - 1), n - (b - 1))
      <4>1. b \in 1 .. n + 1 /\ n \in b - 1 .. n /\ a + n <= Top + 1
        BY <1>3, <3>2
      <4> QED
        BY <4>1, SpelledWithin
    <3>4. a + (b - 1) = at + (z + 1) /\ n - (b - 1) = l - (z + 1)
      BY <1>3, <3>1, <3>2
    <3>5. ext = Spelled(at + (z + 1), l - (z + 1))
      BY <3>1 DEF Behind1
    <3>6. Max(dots) + 1 = b /\ Len(file) = n /\ file = Spelled(a, n)
      BY <1>3, <1>4, <2>6, <3>2
    <3> QED
      BY <3>3, <3>4, <3>5, <3>6
  <2> QED
    BY <1>11, <2>7, <2>8
<1> QED
  BY <1>10, <1>11

LEMMA PathMeans == Careful /\ StringInv => PathLaws
<1> SUFFICES ASSUME Careful, StringInv, NEW n \in Used, NEW s, s = Str8__init(view[n]),
                    Minds("separator", Behind(s) \notin Slash \cup {"."})
             PROVE  PathOf(Text(s),
                      Spelled(s.at + Str8__dirname(s).begin, Str8__dirname(s).end - Str8__dirname(s).begin),
                      Spelled(s.at + Str8__filename(s).begin, Str8__filename(s).end - Str8__filename(s).begin),
                      Spelled(s.at + Str8__basename(s).begin, Str8__basename(s).end - Str8__basename(s).begin),
                      Spelled(s.at + Str8__fileext(s).begin, Str8__fileext(s).end - Str8__fileext(s).begin))
  BY Zenon DEF PathLaws
<1>1. view[n] \in Views /\ view[n].at # NULL /\ Held(view[n]) /\ MemoryInv
  BY DEF Used, StringInv
<1>2. s \in Views /\ s.at # NULL /\ InMemory(s) /\ Str8__init(s) = s
  BY <1>1, InitFacts DEF Held
<1>3. PICK at \in Nat, l \in Nat : at = s.at /\ l = s.len /\ at + l <= Top
  BY <1>1, <1>2, InMemoryFacts, BaseFacts
<1>4. Behind(s) = mem[at + l] /\ Text(s) = Spelled(at, l)
  BY <1>2, <1>3 DEF Behind, Text
<1>5. mem[at + l] \notin Slash \cup {"."}
  BY <1>4, Minded
<1>6. PICK x : x = Last1(s, Slash)
  OBVIOUS
<1>7. PICK z : z = Last1(s, Slash \cup {"."})
  OBVIOUS
<1>8. IsLast(at, l, Slash, x) /\ IsLast(at, l, Slash \cup {"."}, z)
  BY <1>3, <1>5, <1>6, <1>7, Last1Is
<1>9. x \in Nat /\ Behind1(x) \in Nat
  BY <1>8 DEF IsLast, Behind1
<1>10. /\ BehindLast(s, Slash) = Behind1(x)
       /\ BehindLast(s, Slash \cup {"."}) = Behind1(z)
  BY <1>6, <1>7 DEF BehindLast, Behind1
<1>11. /\ Str8__dirname(s).begin = 0
       /\ Str8__dirname(s).end = IF x = 0 THEN l ELSE x + 1
       /\ Str8__filename(s).begin = Behind1(x) /\ Str8__filename(s).end = l
       /\ Str8__fileext(s).begin = Behind1(z) /\ Str8__fileext(s).end = l
       /\ Str8__basename(s).begin = Behind1(x)
  BY <1>3, <1>6, <1>10 DEF Str8__dirname, Str8__filename, Str8__fileext, Str8__basename
<1>12. Str8__basename(s).end = Min({l} \cup Dots(at, l, Behind1(x)))
  BY <1>3, <1>10 DEF Str8__basename, Dots
<1>13. PICK t, dir, file, base, ext :
         /\ t = Spelled(at, l)
         /\ dir = Spelled(at, IF x = 0 THEN l ELSE x + 1)
         /\ file = Spelled(at + Behind1(x), l - Behind1(x))
         /\ base = Spelled(at + Behind1(x), Min({l} \cup Dots(at, l, Behind1(x))) - Behind1(x))
         /\ ext = Spelled(at + Behind1(z), l - Behind1(z))
  BY Zenon
<1>14. TwoParts(t, dir, file)
  <2>1. at \in Nat /\ l \in Nat /\ at + l <= Top
    BY <1>3
  <2> QED
    BY <1>1, <1>8, <1>13, <2>1, DirAndFile, Zenon
<1>15. PICK dots : dots = Inner(t, file, {"."})
  OBVIOUS
<1>16. NameParts(dots, file, base, ext)
  <2>1. at \in Nat /\ l \in Nat /\ at + l <= Top /\ mem[at + l] # "."
    BY <1>3, <1>5
  <2>2. PICK k \in Nat : k = Behind1(x)
    BY <1>9
  <2>3. PICK m : m = Min({l} \cup Dots(at, l, k))
    OBVIOUS
  <2>4. file = Spelled(at + k, l - k) /\ base = Spelled(at + k, m - k)
    BY <1>13, <2>2, <2>3
  <2> QED
    BY <1>1, <1>8, <1>13, <1>15, <2>1, <2>2, <2>3, <2>4, BaseAndExt, ZenonT(30)
<1>17. PathOf(t, dir, file, base, ext)
  BY <1>14, <1>15, <1>16, Zenon DEF PathOf, Inner, TwoParts, NameParts
<1>18. s.at + 0 = at /\ (IF x = 0 THEN l ELSE x + 1) - 0 = IF x = 0 THEN l ELSE x + 1
  BY <1>3, <1>9
<1> QED
  BY <1>3, <1>4, <1>11, <1>12, <1>13, <1>17, <1>18

Fold(x) == [i \in DOMAIN x |-> Folded(x[i])]
Alike(a, k, b, l) == k = l /\ \A i \in 0 .. k - 1 : mem[a + i] = mem[b + i]
FoldedAlike(a, k, b, l) == k = l /\ \A i \in 0 .. k - 1 : Folded(mem[a + i]) = Folded(mem[b + i])

LEMMA SpelledAlike ==
  ASSUME MemoryInv, NEW a \in Nat, NEW k \in Nat, a + k <= Top,
         NEW b \in Nat, NEW l \in Nat, b + l <= Top,
         NEW x, x = Spelled(a, k), NEW y, y = Spelled(b, l)
  PROVE  (x = y <=> Alike(a, k, b, l)) /\ (Fold(x) = Fold(y) <=> FoldedAlike(a, k, b, l))
<1>1. Top \in Nat /\ a + k <= Top + 1 /\ b + l <= Top + 1
  BY BaseFacts
<1>2. /\ x \in Seq(Characters) /\ Len(x) = k /\ DOMAIN x = 1 .. k
      /\ \A i \in 1 .. k : x[i] = mem[a + i - 1]
  BY <1>1, SpelledIs
<1>3. /\ y \in Seq(Characters) /\ Len(y) = l /\ DOMAIN y = 1 .. l
      /\ \A i \in 1 .. l : y[i] = mem[b + i - 1]
  BY <1>1, SpelledIs
<1>4. ASSUME NEW i \in 0 .. k - 1, k = l
      PROVE  i + 1 \in 1 .. k /\ x[i + 1] = mem[a + i] /\ y[i + 1] = mem[b + i]
  <2>1. i + 1 \in 1 .. k /\ a + (i + 1) - 1 = a + i /\ b + (i + 1) - 1 = b + i
    OBVIOUS
  <2> QED
    BY <1>2, <1>3, <1>4, <2>1
<1>5. \A i \in 1 .. k : i - 1 \in 0 .. k - 1 /\ (i - 1) + 1 = i
  OBVIOUS
<1>6. x = y <=> k = l /\ \A i \in 0 .. k - 1 : mem[a + i] = mem[b + i]
  <2>1. ASSUME x = y PROVE k = l /\ \A i \in 0 .. k - 1 : mem[a + i] = mem[b + i]
    <3>1. k = l
      BY <1>2, <1>3, <2>1
    <3> QED
      BY <1>4, <2>1, <3>1
  <2>2. ASSUME k = l, \A i \in 0 .. k - 1 : mem[a + i] = mem[b + i] PROVE x = y
    <3>1. ASSUME NEW i \in 1 .. Len(x) PROVE x[i] = y[i]
      <4>1. i \in 1 .. k
        BY <1>2
      <4>2. x[(i - 1) + 1] = y[(i - 1) + 1]
        BY <1>4, <1>5, <2>2, <4>1
      <4> QED
        BY <1>5, <4>1, <4>2
    <3> QED
      BY <1>2, <1>3, <2>2, <3>1, SeqEqual
  <2> QED
    BY <2>1, <2>2
<1>7. PICK f, g : /\ f = [i \in 1 .. k |-> Folded(x[i])] /\ g = [i \in 1 .. l |-> Folded(y[i])]
                  /\ f = [i \in DOMAIN x |-> Folded(x[i])] /\ g = [i \in DOMAIN y |-> Folded(y[i])]
  BY <1>2, <1>3
<1>8. f = g <=> k = l /\ \A i \in 0 .. k - 1 : Folded(mem[a + i]) = Folded(mem[b + i])
  <2>1. ASSUME f = g PROVE k = l /\ \A i \in 0 .. k - 1 : Folded(mem[a + i]) = Folded(mem[b + i])
    <3>1. DOMAIN f = 1 .. k /\ DOMAIN g = 1 .. l
      BY <1>7
    <3>2. k = l
      BY <2>1, <3>1
    <3>3. ASSUME NEW i \in 0 .. k - 1 PROVE Folded(mem[a + i]) = Folded(mem[b + i])
      <4>1. i + 1 \in 1 .. k /\ x[i + 1] = mem[a + i] /\ y[i + 1] = mem[b + i]
        BY <1>4, <3>2
      <4>2. f[i + 1] = Folded(mem[a + i]) /\ g[i + 1] = Folded(mem[b + i])
        BY <1>7, <3>2, <4>1
      <4> QED
        BY <2>1, <4>2
    <3> QED
      BY <3>2, <3>3
  <2>2. ASSUME k = l, \A i \in 0 .. k - 1 : Folded(mem[a + i]) = Folded(mem[b + i]) PROVE f = g
    <3>1. ASSUME NEW i \in 1 .. k PROVE Folded(x[i]) = Folded(y[i])
      <4>1. /\ x[(i - 1) + 1] = mem[a + (i - 1)] /\ y[(i - 1) + 1] = mem[b + (i - 1)]
            /\ Folded(mem[a + (i - 1)]) = Folded(mem[b + (i - 1)])
        BY <1>4, <1>5, <2>2
      <4> QED
        BY <1>5, <4>1
    <3> QED
      BY <1>7, <2>2, <3>1
  <2> QED
    BY <2>1, <2>2
<1> QED
  BY <1>6, <1>7, <1>8, Zenon DEF Fold, Alike, FoldedAlike

LEMMA CompareMeans == "deferred" \notin Careless /\ StringInv => ComparesText
<1> SUFFICES ASSUME "deferred" \notin Careless, StringInv, NEW n \in Used, NEW m \in Used
             PROVE  /\ Str8__icmp(view[n], view[m]) <=>
                         [i \in DOMAIN Text(view[n]) |-> Folded(Text(view[n])[i])]
                           = [i \in DOMAIN Text(view[m]) |-> Folded(Text(view[m])[i])]
                    /\ "deferred" \in Careless
                         \/ (view[n] = Str8__init(view[n]) /\ view[m] = Str8__init(view[m])) =>
                           (Str8__cmp(view[n], view[m]) <=> Text(view[n]) = Text(view[m]))
  BY Zenon DEF ComparesText
<1>0. PICK v, w : v = view[n] /\ w = view[m]
  OBVIOUS
<1>1. MemoryInv /\ v \in Views /\ w \in Views /\ v.at # NULL /\ w.at # NULL /\ Held(v) /\ Held(w)
  BY <1>0 DEF Used, StringInv
<1>2. PICK a : a = Str8__init(v)
  OBVIOUS
<1>3. PICK b : b = Str8__init(w)
  OBVIOUS
<1>4. /\ a \in Views /\ a.at # NULL /\ InMemory(a)
      /\ b \in Views /\ b.at # NULL /\ InMemory(b)
  BY <1>1, <1>2, <1>3, InitFacts DEF Held
<1>5. a.at \in Nat /\ a.len \in Nat /\ a.at + a.len <= Top /\ b.at \in Nat /\ b.len \in Nat /\ b.at + b.len <= Top
  BY <1>1, <1>4, InMemoryFacts, BaseFacts
<1>6. PICK x : x = Spelled(a.at, a.len)
  OBVIOUS
<1>7. PICK y : y = Spelled(b.at, b.len)
  OBVIOUS
<1>8. Text(v) = x /\ Text(w) = y
  BY <1>2, <1>3, <1>6, <1>7, Zenon DEF Text
<1>9. /\ x = y <=> a.len = b.len /\ \A i \in 0 .. a.len - 1 : mem[a.at + i] = mem[b.at + i]
      /\ [i \in DOMAIN x |-> Folded(x[i])] = [i \in DOMAIN y |-> Folded(y[i])]
           <=> a.len = b.len /\ \A i \in 0 .. a.len - 1 : Folded(mem[a.at + i]) = Folded(mem[b.at + i])
  <2>1. PICK p \in Nat, k \in Nat, q \in Nat, l \in Nat :
          p = a.at /\ k = a.len /\ q = b.at /\ l = b.len /\ p + k <= Top /\ q + l <= Top
    BY <1>5
  <2>2. x = Spelled(p, k) /\ y = Spelled(q, l)
    BY <1>6, <1>7, <2>1
  <2>3. (x = y <=> Alike(p, k, q, l)) /\ (Fold(x) = Fold(y) <=> FoldedAlike(p, k, q, l))
    <3>1. /\ p \in Nat /\ k \in Nat /\ p + k <= Top /\ q \in Nat /\ l \in Nat /\ q + l <= Top
          /\ MemoryInv
      BY <1>1, <2>1
    <3> QED
      BY <2>2, <3>1, SpelledAlike
  <2> QED
    BY <2>1, <2>3, Zenon DEF Fold, Alike, FoldedAlike
<1>10. Str8__icmp(v, w) <=>
         a.len = b.len /\ \A i \in 0 .. a.len - 1 : Folded(mem[a.at + i]) = Folded(mem[b.at + i])
  BY <1>2, <1>3, Zenon DEF Str8__icmp
<1>11. v = Str8__init(v) /\ w = Str8__init(w) =>
         (Str8__cmp(v, w) <=> a.len = b.len /\ \A i \in 0 .. a.len - 1 : mem[a.at + i] = mem[b.at + i])
  BY <1>2, <1>3, Zenon DEF Str8__cmp
<1> QED
  BY <1>0, <1>8, <1>9, <1>10, <1>11, Zenon

\* In every state, dirname and filename of a path put together are the path again,
\* basename and fileext are what lies before the first and behind the last '.' of the
\* filename, and two Str8 are equal exactly when they say the same, to Str8__cmp if their
\* lengths are known.
THEOREM StringLaws ==
  ASSUME Careful, "deferred" \notin Careless
  PROVE  Spec => []TextLaws
<1>1. StringInv /\ [Next]_vars => StringInv'
  BY StringStep
<1>2. StringInv => TextLaws
  BY PathMeans, CompareMeans DEF TextLaws
<1> QED
  BY <1>1, <1>2, StringInit, PTL DEF Spec

-----------------------------------------------------------------------------
(* Pieces of an input *)

\* What is read from b to e
PieceOf(t, b, e) == SubSeq(t, b + 1, e)

LEMMA PieceOfFacts ==
  ASSUME NEW t \in Seq(Characters), NEW b \in Nat, NEW e \in Nat, b <= e, e <= Len(t)
  PROVE  /\ PieceOf(t, b, e) \in Seq(Characters) /\ Len(PieceOf(t, b, e)) = e - b
         /\ DOMAIN PieceOf(t, b, e) = 1 .. e - b
         /\ \A i \in 1 .. e - b : PieceOf(t, b, e)[i] = t[b + i]
<1>1. b + 1 \in 1 .. Len(t) + 1 /\ e \in b + 1 - 1 .. Len(t)
  OBVIOUS
<1>2. /\ PieceOf(t, b, e) \in Seq(Characters) /\ Len(PieceOf(t, b, e)) = e - (b + 1) + 1
      /\ \A i \in 1 .. e - (b + 1) + 1 : PieceOf(t, b, e)[i] = t[b + 1 + i - 1]
  BY <1>1, SubSeqProperties DEF PieceOf
<1>3. e - (b + 1) + 1 = e - b /\ \A i \in 1 .. e - b : b + 1 + i - 1 = b + i
  OBVIOUS
<1>4. DOMAIN PieceOf(t, b, e) = 1 .. Len(PieceOf(t, b, e))
  BY <1>2
<1> QED
  BY <1>2, <1>3, <1>4

\* The end of a piece is a piece.
LEMMA PieceOfPiece ==
  ASSUME NEW t \in Seq(Characters), NEW b \in Nat, NEW z \in Nat, NEW e \in Nat,
         b <= z, z <= e, e <= Len(t)
  PROVE  SubSeq(PieceOf(t, b, e), z - b + 1, e - b) = PieceOf(t, z, e)
<1>1. PICK w : w = PieceOf(t, b, e)
  OBVIOUS
<1>2. w \in Seq(Characters) /\ Len(w) = e - b /\ \A i \in 1 .. e - b : w[i] = t[b + i]
  <2>1. b <= e
    OBVIOUS
  <2> QED
    BY <1>1, <2>1, PieceOfFacts
<1>3. PICK x \in Nat, y \in Nat : x = z - b /\ y = e - b /\ x <= y
  OBVIOUS
<1>4. PICK v : v = PieceOf(w, x, y)
  OBVIOUS
<1>5. v \in Seq(Characters) /\ Len(v) = y - x /\ \A i \in 1 .. y - x : v[i] = w[x + i]
  <2>1. w \in Seq(Characters) /\ x <= y /\ y <= Len(w)
    BY <1>2, <1>3
  <2> QED
    BY <1>4, <2>1, PieceOfFacts
<1>6. PICK u : u = PieceOf(t, z, e)
  OBVIOUS
<1>7. u \in Seq(Characters) /\ Len(u) = e - z /\ \A i \in 1 .. e - z : u[i] = t[z + i]
  BY <1>6, PieceOfFacts
<1>8. y - x = e - z
  BY <1>3
<1>9. ASSUME NEW i \in 1 .. Len(v) PROVE v[i] = u[i]
  <2>1. i \in 1 .. y - x /\ i \in 1 .. e - z /\ x + i \in 1 .. e - b /\ b + (x + i) = z + i
    BY <1>3, <1>5, <1>8, <1>9
  <2>2. v[i] = w[x + i] /\ w[x + i] = t[b + (x + i)] /\ u[i] = t[z + i]
    BY <1>2, <1>5, <1>7, <2>1
  <2> QED
    BY <2>1, <2>2
<1>10. v = u
  BY <1>5, <1>7, <1>8, <1>9, SeqEqual
<1>11. v = SubSeq(w, z - b + 1, e - b)
  BY <1>3, <1>4 DEF PieceOf
<1> QED
  BY <1>1, <1>6, <1>10, <1>11

\* All that Past goes past is of the kind, and what stops it is not.
LEMMA PastIs ==
  ASSUME NEW t, IsInput(t), NEW p \in 0 .. End(t), NEW kind
  PROVE  /\ \A j \in p + 1 .. Past(t, p, kind) : t[j] \in kind
         /\ Past(t, p, kind) < End(t) => t[Past(t, p, kind) + 1] \notin kind
<1> DEFINE T == {q \in p .. End(t) : q = End(t) \/ Char(t, q) \notin kind}
<1>1. End(t) \in Nat
  BY EndFacts
<1>2. T \subseteq Nat /\ End(t) \in T
  BY <1>1
<1>3. PICK m : m = Min(T)
  OBVIOUS
<1>4. m \in T /\ \A y \in T : m <= y
  <2> HIDE DEF T
  <2> QED
    BY <1>2, <1>3, MinFacts
<1>5. Past(t, p, kind) = m
  BY <1>3 DEF Past
<1>6. ASSUME NEW j \in p + 1 .. m PROVE t[j] \in kind
  <2>1. PICK i \in Nat : i + 1 = j
    <3>1. j - 1 \in Nat /\ j - 1 + 1 = j
      BY <1>1
    <3> QED
      BY <3>1
  <2>2. i \in p .. End(t) /\ i < m /\ i # End(t)
    BY <1>1, <1>4, <2>1
  <2>3. i \notin T
    <3> HIDE DEF T
    <3> QED
      BY <1>2, <1>4, <2>1, <2>2
  <2> QED
    BY <2>1, <2>2, <2>3 DEF Char
<1>7. ASSUME m < End(t) PROVE t[m + 1] \notin kind
  BY <1>1, <1>4, <1>7 DEF Char
<1> QED
  BY <1>5, <1>6, <1>7

LEMMA TrimmedDef ==
  ASSUME NEW w
  PROVE  Trimmed(w) = SubSeq(w, Min({i \in 1 .. Len(w) + 1 : i > Len(w) \/ w[i] # Space}), Len(w))
BY Zenon DEF Trimmed, Space

\* A piece without the spaces before it
LEMMA TrimmedIs ==
  ASSUME NEW t, IsInput(t), NEW p \in 0 .. End(t), NEW e \in p .. End(t), NEW z \in p .. e,
         z = e \/ z = Past(t, p, {Space}), z <= Past(t, p, {Space})
  PROVE  Trimmed(PieceOf(t, p, e)) = PieceOf(t, z, e)
<1>1. PICK l \in Nat : l = End(t) /\ l <= Len(t) /\ t \in Seq(Characters) /\ Len(t) \in Nat
  <2>1. t \in Seq(Characters) /\ End(t) \in Nat
    BY EndFacts DEF IsInput
  <2>2. Len(t) \in Nat /\ End(t) = Len(t) - 1
    BY <2>1 DEF End
  <2>3. End(t) <= Len(t)
    BY <2>2
  <2> QED
    BY <2>1, <2>2, <2>3
<1>2. p \in Nat /\ e \in Nat /\ z \in Nat /\ p <= z /\ z <= e /\ e <= l /\ p <= e /\ e <= Len(t)
  BY <1>1
<1>3. PICK w : w = PieceOf(t, p, e)
  OBVIOUS
<1>4. Len(w) = e - p /\ \A i \in 1 .. e - p : w[i] = t[p + i]
  BY <1>1, <1>2, <1>3, PieceOfFacts
<1>5. PICK b : b = Past(t, p, {Space})
  OBVIOUS
<1>6. /\ b \in p .. l /\ \A j \in p + 1 .. b : t[j] = Space
      /\ b < l => t[b + 1] # Space
  BY <1>1, <1>5, PastFacts, PastIs
<1>7. PICK k \in Nat : k = e - p
  BY <1>2
<1>8. PICK x \in Nat : x = z - p
  BY <1>2
<1> DEFINE T == {i \in 1 .. k + 1 : i > k \/ w[i] # Space}
<1>9. x + 1 \in T
  <2>1. x + 1 \in 1 .. k + 1
    BY <1>2, <1>7, <1>8
  <2>2. CASE z = e
    BY <1>7, <1>8, <2>1, <2>2
  <2>3. CASE z # e
    <3>1. z = b /\ b < l /\ x + 1 \in 1 .. e - p /\ p + (x + 1) = b + 1
      BY <1>2, <1>5, <1>8, <2>3
    <3>2. w[x + 1] # Space
      BY <1>4, <1>6, <3>1
    <3> QED
      BY <2>1, <3>2
  <2> QED
    BY <2>2, <2>3
<1>10. ASSUME NEW i \in T PROVE x + 1 <= i
  <2>1. SUFFICES ASSUME i <= x PROVE FALSE
    BY <1>7, <1>8
  <2>2. i \in 1 .. e - p /\ p + i \in p + 1 .. b /\ ~ (i > k)
    BY <1>2, <1>5, <1>6, <1>7, <1>8, <2>1
  <2>3. w[i] = Space
    BY <1>4, <1>6, <2>2
  <2> QED
    BY <2>2, <2>3
<1>11. Min(T) = x + 1
  <2>1. T \subseteq Nat
    BY <1>7
  <2> HIDE DEF T
  <2> QED
    BY <1>9, <1>10, <2>1, MinIs
<1>12. Trimmed(w) = SubSeq(w, Min(T), Len(w))
  BY <1>4, <1>7, TrimmedDef
<1>13. Trimmed(w) = SubSeq(w, z - p + 1, e - p)
  <2> HIDE DEF T
  <2> QED
    BY <1>4, <1>8, <1>11, <1>12
<1>14. SubSeq(PieceOf(t, p, e), z - p + 1, e - p) = PieceOf(t, z, e)
  BY <1>1, <1>2, PieceOfPiece
<1> QED
  BY <1>3, <1>13, <1>14

\* A text that ends at its end
IsLine(t) == IsInput(t) /\ \A i \in 1 .. End(t) : t[i] # "NUL"

LEMMA LineFacts ==
  ASSUME NEW t, IsLine(t)
  PROVE  IsInput(t) /\ End(t) \in Nat /\ t \in Seq(Characters) /\ End(t) <= Len(t)
<1>1. t \in Seq(Characters) /\ IsInput(t) /\ End(t) \in Nat
  BY EndFacts DEF IsLine, IsInput
<1>2. Len(t) \in Nat /\ End(t) = Len(t) - 1
  BY <1>1 DEF End
<1>3. End(t) <= Len(t)
  BY <1>2
<1> QED
  BY <1>1, <1>3

LEMMA WordsAre ==
  ASSUME NEW w, NEW item
  PROVE  /\ item = "%d" => (IsWordOf(w, item) <=> IsInt(Unsigned(Trimmed(w))))
         /\ item = "%f" => (IsWordOf(w, item) <=> IsFloat(Unsigned(Trimmed(w))))
         /\ item = "%s" => (IsWordOf(w, item) <=> \A i \in DOMAIN Trimmed(w) : Trimmed(w)[i] # Space)
         /\ item = Space => (IsWordOf(w, item) <=> Trimmed(w) = <<>>)
         /\ item \notin Numbers /\ item # "%s" /\ item # Space =>
              (IsWordOf(w, item) <=> w = <<item>>)
<1>1. item = "%d" => (IsWordOf(w, item) <=> IsInt(Unsigned(Trimmed(w))))
  BY Zenon DEF IsWordOf
<1>2. item = "%f" => (IsWordOf(w, item) <=> IsFloat(Unsigned(Trimmed(w))))
  BY Zenon DEF IsWordOf
<1>3. item = "%s" => (IsWordOf(w, item) <=> \A i \in DOMAIN Trimmed(w) : Trimmed(w)[i] # Space)
  BY Zenon DEF IsWordOf, Space
<1>4. item = Space => (IsWordOf(w, item) <=> Trimmed(w) = <<>>)
  BY Zenon DEF IsWordOf, Space
<1>5. item \notin Numbers /\ item # "%s" /\ item # Space => (IsWordOf(w, item) <=> w = <<item>>)
  BY Zenon DEF IsWordOf, Space, Numbers
<1> QED
  BY <1>1, <1>2, <1>3, <1>4, <1>5, Zenon

LEMMA EndsAre ==
  ASSUME NEW t, NEW p, NEW item
  PROVE  Ends(t, p, item) = {e \in p .. End(t) : IsWordOf(PieceOf(t, p, e), item)}
BY DEF Ends, PieceOf

\* What m says of item is right: it takes the longest of the pieces it could, and none
\* if there is none.
Right(t, p, item, m) ==
  /\ m.to \in p .. End(t) /\ m.ok \in BOOLEAN
  /\ m.ok => /\ m.to \in Ends(t, p, item) /\ \A e \in Ends(t, p, item) : e <= m.to
             /\ item \in Specifiers =>
                  PieceOf(t, m.from, m.to) = Trimmed(PieceOf(t, p, m.to))
  /\ ~m.ok => /\ Ends(t, p, item) = {}
              /\ Trimmed(PieceOf(t, p, m.to)) \in {<<>>, <<"-">>}
              /\ m.to > p => item \in Numbers

LEMMA EmptyPiece ==
  ASSUME NEW t, IsLine(t), NEW e \in 0 .. End(t)
  PROVE  PieceOf(t, e, e) = <<>>
<1>1. /\ t \in Seq(Characters) /\ e \in Nat /\ e <= Len(t) /\ e <= e
  BY LineFacts DEF IsLine, IsInput, End
<1>2. Len(PieceOf(t, e, e)) = e - e /\ PieceOf(t, e, e) \in Seq(Characters)
  BY <1>1, PieceOfFacts
<1>3. e - e = 0
  BY <1>1
<1> QED
  BY <1>2, <1>3

LEMMA NothingTrimmed ==
  ASSUME NEW t, IsLine(t), NEW e \in 0 .. End(t)
  PROVE  Trimmed(PieceOf(t, e, e)) = <<>>
<1>1. Past(t, e, {Space}) \in e .. End(t) /\ IsInput(t) /\ End(t) \in Nat
  BY PastFacts, LineFacts
<1>2. e \in e .. End(t) /\ e \in e .. e /\ e <= Past(t, e, {Space})
  BY <1>1
<1>3. Trimmed(PieceOf(t, e, e)) = PieceOf(t, e, e)
  BY <1>1, <1>2, TrimmedIs
<1> QED
  BY <1>3, EmptyPiece

\* Spaces
LEMMA SpacesRead ==
  ASSUME NEW t, IsLine(t), NEW p \in 0 .. End(t), NEW m,
         m = [from |-> p, to |-> Past(t, p, {Space}), ok |-> TRUE]
  PROVE  Right(t, p, Space, m)
<1>1. PICK l \in Nat : l = End(t) /\ l <= Len(t)
  BY LineFacts
<1>2. PICK b \in Nat : b = Past(t, p, {Space})
  BY <1>1, PastFacts DEF IsLine
<1>3. b \in p .. l /\ p \in Nat /\ t \in Seq(Characters) /\ IsInput(t)
  BY <1>1, <1>2, PastFacts DEF IsLine, IsInput
<1>4. ASSUME NEW e \in p .. l
      PROVE  IsWordOf(PieceOf(t, p, e), Space) <=> e <= b
  <2>1. CASE e <= b
    <3>1. Trimmed(PieceOf(t, p, e)) = PieceOf(t, e, e)
      <4>1. e \in p .. e
        BY <1>3
      <4> QED
        BY <1>1, <1>2, <1>3, <2>1, <4>1, TrimmedIs
    <3>2. PieceOf(t, e, e) = <<>>
      BY <1>1, <1>3, EmptyPiece
    <3> QED
      BY <2>1, <3>1, <3>2, WordsAre
  <2>2. CASE b < e
    <3>1. Trimmed(PieceOf(t, p, e)) = PieceOf(t, b, e)
      <4>1. b \in p .. e /\ b <= b
        BY <1>3, <2>2
      <4> QED
        BY <1>1, <1>2, <1>3, <4>1, TrimmedIs
    <3>2. Len(PieceOf(t, b, e)) = e - b
      <4>1. b <= e /\ e <= Len(t) /\ e \in Nat
        BY <1>1, <1>3, <2>2, LineFacts DEF IsInput
      <4> QED
        BY <1>3, <4>1, PieceOfFacts
    <3>3. e - b # 0
      BY <1>3, <2>2
    <3>4. PieceOf(t, b, e) # <<>>
      BY <3>2, <3>3
    <3>5. ~ (e <= b)
      BY <1>3, <2>2
    <3> QED
      BY <3>1, <3>4, <3>5, WordsAre
  <2> QED
    BY <1>3, <2>1, <2>2
<1>5. /\ Ends(t, p, Space) = {e \in p .. l : IsWordOf(PieceOf(t, p, e), Space)}
      /\ m.to = b /\ m.ok = TRUE
  BY <1>1, <1>2, EndsAre
<1>6. b \in Ends(t, p, Space) /\ \A e \in Ends(t, p, Space) : e <= b
  <2>1. b <= b
    BY <1>3
  <2> QED
    BY <1>3, <1>4, <1>5, <2>1
<1>7. Space \notin Specifiers
  BY Zenon DEF Space, Specifiers
<1> QED
  BY <1>1, <1>3, <1>5, <1>6, <1>7 DEF Right

\* A character that stands for itself
LEMMA LiteralRead ==
  ASSUME NEW t, IsLine(t), NEW p \in 0 .. End(t), p # End(t), NEW item, NEW m,
         item \notin Numbers, item # "%s", item # Space,
         m = [from |-> p, to |-> IF Char(t, p) = item THEN p + 1 ELSE p, ok |-> Char(t, p) = item]
  PROVE  Right(t, p, item, m)
<1>1. PICK l \in Nat : l = End(t)
  BY LineFacts
<1>2. /\ p \in Nat /\ p < l /\ t \in Seq(Characters) /\ l <= Len(t)
      /\ item \notin Specifiers
  BY <1>1, LineFacts DEF IsLine, IsInput, Specifiers, Numbers
<1>3. ASSUME NEW e \in p .. l
      PROVE  PieceOf(t, p, e) = <<item>> <=> e = p + 1 /\ t[p + 1] = item
  <2>1. PICK w : w = PieceOf(t, p, e)
    OBVIOUS
  <2>2. p <= e /\ e <= Len(t) /\ e \in Nat
    BY <1>1, <1>2, LineFacts DEF IsLine, IsInput
  <2>3. w \in Seq(Characters) /\ Len(w) = e - p /\ \A i \in 1 .. e - p : w[i] = t[p + i]
    BY <1>2, <2>1, <2>2, PieceOfFacts
  <2>4. ASSUME w = <<item>> PROVE e = p + 1 /\ t[p + 1] = item
    <3>1. Len(w) = 1 /\ w[1] = item
      BY <2>4
    <3>2. e - p = 1
      BY <2>3, <3>1
    <3> QED
      BY <1>2, <2>2, <2>3, <3>1, <3>2
  <2>5. ASSUME e = p + 1, t[p + 1] = item PROVE w = <<item>>
    <3>1. e - p = 1
      BY <1>2, <2>5
    <3>2. Len(w) = 1 /\ w[1] = item
      BY <2>3, <2>5, <3>1
    <3> QED
      BY <2>3, <3>2
  <2> QED
    BY <2>1, <2>4, <2>5
<1>4. Ends(t, p, item) = {e \in p .. l : e = p + 1 /\ t[p + 1] = item}
  <2>1. Ends(t, p, item) = {e \in p .. l : IsWordOf(PieceOf(t, p, e), item)}
    BY <1>1, EndsAre
  <2>2. \A e \in p .. l : IsWordOf(PieceOf(t, p, e), item) <=> PieceOf(t, p, e) = <<item>>
    BY WordsAre, Zenon
  <2> QED
    BY <1>3, <2>1, <2>2
<1>5. CASE t[p + 1] = item
  <2>1. m.to = p + 1 /\ m.ok = TRUE
    BY <1>5 DEF Char
  <2>2. p + 1 \in p .. l
    BY <1>2
  <2> QED
    BY <1>1, <1>2, <1>4, <1>5, <2>1, <2>2 DEF Right
<1>6. CASE t[p + 1] # item
  <2>1. m.to = p /\ m.ok = FALSE
    BY <1>6 DEF Char
  <2>2. Trimmed(PieceOf(t, p, p)) = <<>>
    BY NothingTrimmed
  <2>3. Ends(t, p, item) = {} /\ p \in p .. l /\ ~ (p > p)
    BY <1>2, <1>4, <1>6
  <2> QED
    BY <1>1, <2>1, <2>2, <2>3 DEF Right
<1> QED
  BY <1>5, <1>6

\* The piece from p to e without its spaces, which end at b
LEMMA TrimmedAre ==
  ASSUME NEW t, IsLine(t), NEW p \in 0 .. End(t), NEW e \in p .. End(t),
         NEW b, b = Past(t, p, {Space})
  PROVE  /\ e <= b => Trimmed(PieceOf(t, p, e)) = <<>>
         /\ b <= e => Trimmed(PieceOf(t, p, e)) = PieceOf(t, b, e)
<1>1. /\ IsInput(t) /\ End(t) \in Nat /\ p \in Nat /\ e \in 0 .. End(t)
      /\ b \in p .. End(t) /\ b \in Nat /\ e \in Nat
  BY LineFacts, PastFacts
<1>2. ASSUME e <= b PROVE Trimmed(PieceOf(t, p, e)) = <<>>
  <2>1. e \in p .. e
    BY <1>1
  <2>2. Trimmed(PieceOf(t, p, e)) = PieceOf(t, e, e)
    BY <1>1, <1>2, <2>1, TrimmedIs
  <2> QED
    BY <1>1, <2>2, EmptyPiece
<1>3. ASSUME b <= e PROVE Trimmed(PieceOf(t, p, e)) = PieceOf(t, b, e)
  <2>1. b \in p .. e /\ b <= b
    BY <1>1, <1>3
  <2> QED
    BY <1>1, <2>1, TrimmedIs
<1> QED
  BY <1>2, <1>3

\* What "%s" reads
LEMMA WordRead ==
  ASSUME NEW t, IsLine(t), NEW p \in 0 .. End(t), NEW m, m = MatchedWord(t, p)
  PROVE  Right(t, p, "%s", m)
<1>1. PICK l \in Nat : l = End(t) /\ l <= Len(t) /\ t \in Seq(Characters) /\ IsInput(t)
  BY LineFacts
<1>2. PICK b \in Nat : b = Past(t, p, {Space})
  BY <1>1, PastFacts
<1>3. p \in Nat /\ p <= b /\ b <= l /\ (b < l => t[b + 1] # Space)
  BY <1>1, <1>2, PastFacts, PastIs
<1> DEFINE T == {q \in b .. l : q = l \/ Char(t, q) \in {Space, "NUL"}}
<1>4. T \subseteq Nat /\ l \in T
  BY <1>3
<1>5. PICK e \in T : e = Min(T) /\ \A y \in T : e <= y
  <2> HIDE DEF T
  <2> QED
    BY <1>4, MinFacts
<1>6. e \in Nat /\ b <= e /\ e <= l /\ p <= e
  BY <1>3
<1>7. m.from = b /\ m.to = e /\ m.ok = TRUE
  <2>1. m = [from |-> b, ok |-> TRUE, to |-> e]
    BY <1>1, <1>2, <1>5, MatchedAre
  <2> QED
    BY <2>1
<1>8. ASSUME NEW i \in b + 1 .. e PROVE t[i] # Space
  <2>1. PICK q \in Nat : q + 1 = i
    <3>1. i - 1 \in Nat /\ i - 1 + 1 = i
      BY <1>6
    <3> QED
      BY <3>1
  <2>2. q \in b .. l /\ q < e
    BY <1>6, <2>1
  <2>3. q \notin T
    <3> HIDE DEF T
    <3> QED
      BY <1>5, <1>6, <2>2
  <2> QED
    BY <2>1, <2>2, <2>3 DEF Char
<1>9. e < l => t[e + 1] = Space /\ b < e
  <2> SUFFICES ASSUME e < l PROVE t[e + 1] = Space /\ b < e
    OBVIOUS
  <2>1. t[e + 1] = Space \/ t[e + 1] = "NUL"
    BY <1>5, <1>6 DEF Char
  <2>2. e + 1 \in 1 .. l
    BY <1>6
  <2>3. t[e + 1] # "NUL"
    BY <1>1, <2>2 DEF IsLine
  <2>4. b # e
    BY <1>3, <1>6, <2>1, <2>3
  <2> QED
    BY <1>6, <2>1, <2>3, <2>4
<1> HIDE DEF T
<1>10. Ends(t, p, "%s") = {x \in p .. l : \A i \in DOMAIN Trimmed(PieceOf(t, p, x)) :
                                             Trimmed(PieceOf(t, p, x))[i] # Space}
  BY <1>1, EndsAre, WordsAre
<1>11. /\ Trimmed(PieceOf(t, p, e)) = PieceOf(t, b, e)
       /\ DOMAIN PieceOf(t, b, e) = 1 .. e - b
       /\ \A i \in 1 .. e - b : PieceOf(t, b, e)[i] = t[b + i]
  <2>1. e \in p .. End(t) /\ e <= Len(t)
    BY <1>1, <1>6
  <2>2. Trimmed(PieceOf(t, p, e)) = PieceOf(t, b, e)
    BY <1>2, <1>6, <2>1, TrimmedAre
  <2> QED
    BY <1>1, <1>6, <2>1, <2>2, PieceOfFacts
<1>12. e \in Ends(t, p, "%s")
  <2>1. ASSUME NEW i \in 1 .. e - b PROVE PieceOf(t, b, e)[i] # Space
    <3>1. b + i \in b + 1 .. e
      BY <1>6
    <3> QED
      BY <1>8, <1>11, <3>1
  <2>2. e \in p .. l
    BY <1>6, <1>3
  <2> QED
    BY <1>10, <1>11, <2>1, <2>2
<1>13. ASSUME NEW x \in Ends(t, p, "%s") PROVE x <= e
  <2>1. x \in p .. l /\ \A i \in DOMAIN Trimmed(PieceOf(t, p, x)) :
                          Trimmed(PieceOf(t, p, x))[i] # Space
    BY <1>10
  <2>2. SUFFICES ASSUME e < x PROVE FALSE
    BY <1>3, <1>6, <2>1
  <2>3. e < l /\ t[e + 1] = Space /\ b < e /\ b <= x /\ x <= Len(t) /\ x \in Nat
    BY <1>1, <1>3, <1>6, <1>9, <2>1, <2>2
  <2>4. Trimmed(PieceOf(t, p, x)) = PieceOf(t, b, x)
    BY <1>1, <1>2, <2>1, <2>3, TrimmedAre
  <2>5. /\ DOMAIN PieceOf(t, b, x) = 1 .. x - b
        /\ \A i \in 1 .. x - b : PieceOf(t, b, x)[i] = t[b + i]
    BY <1>1, <2>3, PieceOfFacts
  <2>6. PICK i \in Nat : i = e + 1 - b
    BY <1>6
  <2>7. i \in 1 .. x - b /\ b + i = e + 1
    BY <1>6, <2>2, <2>3, <2>6
  <2> QED
    BY <2>1, <2>3, <2>4, <2>5, <2>7
<1>14. e \in p .. l /\ PieceOf(t, m.from, m.to) = Trimmed(PieceOf(t, p, m.to))
  BY <1>3, <1>6, <1>7, <1>11
<1> QED
  BY <1>1, <1>7, <1>12, <1>13, <1>14 DEF Right

-----------------------------------------------------------------------------
(* Numbers *)

\* Behind the spaces, and behind the sign
FromAt(t, p) == Past(t, p, {Space})
SignEnd(t, p, item) == PastSign(t, FromAt(t, p), item)

LEMMA UnsignedIs ==
  ASSUME NEW t, IsLine(t), NEW p \in 0 .. End(t), p # End(t), NEW item \in Numbers
  PROVE  /\ FromAt(t, p) \in p .. End(t)
         /\ SignEnd(t, p, item) \in FromAt(t, p) .. End(t)
         /\ \/ SignEnd(t, p, item) = FromAt(t, p)
            \/ SignEnd(t, p, item) = FromAt(t, p) + 1 /\ t[FromAt(t, p) + 1] = "-"
         /\ \A e \in p .. End(t) :
              Unsigned(Trimmed(PieceOf(t, p, e))) =
                IF e < SignEnd(t, p, item) THEN <<>> ELSE PieceOf(t, SignEnd(t, p, item), e)
<1>01. PICK b : b = FromAt(t, p)
  OBVIOUS
<1>02. PICK i : i = SignEnd(t, p, item)
  OBVIOUS
<1>03. b = Past(t, p, {Space}) /\ i = PastSign(t, b, item)
  BY <1>01, <1>02 DEF FromAt, SignEnd
<1>1. PICK l \in Nat : l = End(t) /\ l <= Len(t) /\ t \in Seq(Characters) /\ IsInput(t)
  BY LineFacts
<1>2. p \in Nat /\ b \in Nat /\ p <= b /\ b <= l /\ (p < b => t[b] = Space)
  BY <1>1, <1>03, PastFacts
<1>3. i = IF t[b + 1] = "-" /\ (item = "%d" \/ b < l) THEN b + 1 ELSE b
  BY <1>1, <1>03 DEF PastSign, Char
<1>4. i \in Nat /\ b <= i /\ (i = b \/ (i = b + 1 /\ t[b + 1] = "-"))
  BY <1>2, <1>3
<1>5. i <= l
  <2>1. CASE b = l
    <3>1. p < b
      BY <1>1, <1>2, <2>1
    <3>2. t[b + 1] # "-"
      BY <1>1, <1>2, <2>1, <3>1 DEF IsInput
    <3> QED
      BY <1>3, <2>1, <3>2
  <2>2. CASE b # l
    BY <1>2, <1>4, <2>2
  <2> QED
    BY <2>1, <2>2
<1>6. ASSUME NEW e \in p .. l
      PROVE  Unsigned(Trimmed(PieceOf(t, p, e))) = IF e < i THEN <<>> ELSE PieceOf(t, i, e)
  <2>1. e \in Nat /\ e <= Len(t) /\ e \in p .. End(t)
    BY <1>1, <1>2
  <2>2. CASE e < i
    <3>1. e <= b
      BY <1>2, <1>4, <2>1, <2>2
    <3>2. Trimmed(PieceOf(t, p, e)) = <<>>
      BY <1>03, <2>1, <3>1, TrimmedAre
    <3>3. Unsigned(<<>>) = <<>>
      BY DEF Unsigned
    <3> QED
      BY <2>2, <3>2, <3>3
  <2>3. CASE ~ (e < i)
    <3>1. b <= e /\ i <= e
      BY <1>2, <1>4, <2>1, <2>3
    <3>2. PICK w : w = PieceOf(t, b, e)
      OBVIOUS
    <3>3. Trimmed(PieceOf(t, p, e)) = w
      BY <1>03, <2>1, <3>1, <3>2, TrimmedAre
    <3>4. w \in Seq(Characters) /\ Len(w) = e - b /\ \A j \in 1 .. e - b : w[j] = t[b + j]
      BY <1>1, <1>2, <2>1, <3>1, <3>2, PieceOfFacts
    <3>5. Unsigned(w) = PieceOf(t, i, e)
      <4>1. CASE i = b
        <5>1. w = <<>> \/ Head(w) # "-"
          <6>1. CASE e = b
            <7>1. Len(w) = 0
              BY <1>2, <3>4, <6>1
            <7> QED
              BY <3>4, <7>1
          <6>2. CASE e # b
            <7>1. 1 \in 1 .. e - b /\ b < l
              BY <1>2, <2>1, <3>1, <6>2
            <7>2. t[b + 1] # "-"
              BY <1>2, <1>3, <4>1, <7>1
            <7>3. w[1] = t[b + 1]
              BY <3>4, <7>1
            <7> QED
              BY <7>2, <7>3
          <6> QED
            BY <6>1, <6>2
        <5> QED
          BY <3>2, <4>1, <5>1 DEF Unsigned
      <4>2. CASE i = b + 1 /\ t[b + 1] = "-"
        <5>1. Len(w) # 0 /\ 1 \in 1 .. e - b
          BY <1>2, <2>1, <3>1, <3>4, <4>2
        <5>2. w # <<>> /\ w[1] = "-"
          BY <3>4, <4>2, <5>1
        <5>3. Unsigned(w) = Tail(w)
          BY <5>2 DEF Unsigned
        <5>4. PICK v : v = Tail(w)
          OBVIOUS
        <5>5. v \in Seq(Characters) /\ Len(v) = e - b - 1 /\ \A j \in 1 .. Len(v) : v[j] = w[j + 1]
          BY <3>4, <5>2, <5>4, HeadTailProperties
        <5>6. PICK u : u = PieceOf(t, i, e)
          OBVIOUS
        <5>7. u \in Seq(Characters) /\ Len(u) = e - i /\ \A j \in 1 .. e - i : u[j] = t[i + j]
          BY <1>1, <1>4, <2>1, <3>1, <5>6, PieceOfFacts
        <5>8. e - b - 1 = e - i
          BY <1>2, <2>1, <4>2
        <5>9. ASSUME NEW j \in 1 .. Len(v) PROVE v[j] = u[j]
          <6>1. j + 1 \in 1 .. e - b /\ b + (j + 1) = i + j /\ j \in 1 .. e - i
            <7>1. j \in 1 .. e - b - 1
              BY <5>5
            <7> QED
              BY <1>2, <2>1, <4>2, <7>1
          <6> QED
            BY <3>4, <5>5, <5>7, <6>1
        <5>10. v = u
          BY <5>5, <5>7, <5>8, <5>9, SeqEqual
        <5> QED
          BY <5>3, <5>4, <5>6, <5>10
      <4> QED
        BY <1>4, <4>1, <4>2
    <3> QED
      BY <2>3, <3>3, <3>5
  <2> QED
    BY <2>2, <2>3
<1>7. b \in p .. End(t) /\ i \in b .. End(t)
  BY <1>1, <1>2, <1>4, <1>5
<1> QED
  BY <1>1, <1>4, <1>6, <1>7, <1>01, <1>02

\* What is read from i to e, if anything is, is a numeral of an item
IsDigits(t, i, e) == \A j \in i + 1 .. e : t[j] \in Digits
HasFraction(t, i, e) ==
  /\ t[i + 1] \in Digits /\ \A j \in i + 1 .. e : t[j] \in Digits \cup {"."}
  /\ \A j, k \in i + 1 .. e : t[j] = "." /\ t[k] = "." => j = k
Spelt(t, i, e, item) == IF item = "%d" THEN IsDigits(t, i, e) ELSE HasFraction(t, i, e)

LEMMA NumeralIs ==
  ASSUME NEW t, IsLine(t), NEW i \in 0 .. End(t), NEW e \in i .. End(t)
  PROVE  /\ IsInt(PieceOf(t, i, e)) <=> i < e /\ IsDigits(t, i, e)
         /\ IsFloat(PieceOf(t, i, e)) <=> i < e /\ HasFraction(t, i, e)
<1>1. PICK w : w = PieceOf(t, i, e)
  OBVIOUS
<1>2. i \in Nat /\ e \in Nat /\ i <= e /\ e <= Len(t) /\ t \in Seq(Characters)
  BY LineFacts
<1>3. /\ w \in Seq(Characters) /\ Len(w) = e - i /\ DOMAIN w = 1 .. e - i
      /\ \A j \in 1 .. e - i : w[j] = t[i + j]
  BY <1>1, <1>2, PieceOfFacts
<1>4. w = <<>> <=> i = e
  <2>1. ASSUME i = e PROVE w = <<>>
    <3>1. Len(w) = 0
      BY <1>2, <1>3, <2>1
    <3> QED
      BY <1>3, <3>1
  <2>2. ASSUME i # e PROVE w # <<>>
    <3>1. Len(w) # 0
      BY <1>2, <1>3, <2>2
    <3> QED
      BY <3>1
  <2> QED
    BY <2>1, <2>2
<1>5. ASSUME NEW j \in i + 1 .. e PROVE \E k \in 1 .. e - i : i + k = j /\ w[k] = t[j]
  <2>1. j - i \in 1 .. e - i /\ i + (j - i) = j
    BY <1>2
  <2> QED
    BY <1>3, <2>1
<1>6. ASSUME NEW k \in 1 .. e - i PROVE i + k \in i + 1 .. e /\ w[k] = t[i + k]
  BY <1>2, <1>3
<1>7. \A kind : OnlyOf(w, kind) <=> \A j \in i + 1 .. e : t[j] \in kind
  BY <1>3, <1>5, <1>6 DEF OnlyOf
<1>8. IsInt(w) <=> i < e /\ IsDigits(t, i, e)
  <2>1. OnlyOf(w, Digits) <=> IsDigits(t, i, e)
    BY <1>7 DEF IsDigits
  <2> QED
    BY <1>2, <1>4, <2>1 DEF IsInt
<1>9. CASE i = e
  <2>1. ~ IsFloat(w) /\ ~ (i < e)
    BY <1>2, <1>4, <1>9 DEF IsFloat
  <2> QED
    BY <1>1, <1>8, <2>1
<1>10. CASE i # e
  <2>1. w # <<>> /\ i < e /\ w[1] = t[i + 1]
    <3>1. 1 \in 1 .. e - i
      BY <1>2, <1>10
    <3> QED
      BY <1>2, <1>4, <1>6, <1>10, <3>1
  <2>2. OnlyOf(w, Digits \cup {"."}) <=> \A j \in i + 1 .. e : t[j] \in Digits \cup {"."}
    BY <1>7
  <2>3. (\A x, y \in DOMAIN w : w[x] = "." /\ w[y] = "." => x = y)
          <=> \A j, k \in i + 1 .. e : t[j] = "." /\ t[k] = "." => j = k
    <3>1. ASSUME \A x, y \in DOMAIN w : w[x] = "." /\ w[y] = "." => x = y,
                 NEW j \in i + 1 .. e, NEW k \in i + 1 .. e, t[j] = ".", t[k] = "."
          PROVE  j = k
      <4>1. PICK x \in 1 .. e - i : i + x = j /\ w[x] = t[j]
        BY <1>5
      <4>2. PICK y \in 1 .. e - i : i + y = k /\ w[y] = t[k]
        BY <1>5
      <4>3. x = y
        BY <1>3, <3>1, <4>1, <4>2
      <4> QED
        BY <4>1, <4>2, <4>3
    <3>2. ASSUME \A j, k \in i + 1 .. e : t[j] = "." /\ t[k] = "." => j = k,
                 NEW x \in DOMAIN w, NEW y \in DOMAIN w, w[x] = ".", w[y] = "."
          PROVE  x = y
      <4>1. /\ i + x \in i + 1 .. e /\ w[x] = t[i + x]
            /\ i + y \in i + 1 .. e /\ w[y] = t[i + y]
        BY <1>3, <1>6
      <4>2. i + x = i + y
        BY <3>2, <4>1
      <4>3. x \in 1 .. e - i /\ y \in 1 .. e - i
        BY <1>3
      <4> QED
        BY <1>2, <4>2, <4>3
    <3> QED
      BY <3>1, <3>2
  <2>4. IsFloat(w) <=> HasFraction(t, i, e)
    BY <2>1, <2>2, <2>3, Zenon DEF IsFloat, HasFraction
  <2> QED
    BY <1>1, <1>8, <2>1, <2>4
<1> QED
  BY <1>9, <1>10

\* What can end a number
LEMMA NumberEnds ==
  ASSUME NEW t, IsLine(t), NEW p \in 0 .. End(t), p # End(t), NEW item \in Numbers
  PROVE  Ends(t, p, item) =
           {e \in p .. End(t) :
              SignEnd(t, p, item) < e /\ Spelt(t, SignEnd(t, p, item), e, item)}
<1>0. PICK b, i : b = FromAt(t, p) /\ i = SignEnd(t, p, item)
  OBVIOUS
<1>1. /\ p \in Nat /\ End(t) \in Nat /\ b \in p .. End(t) /\ i \in b .. End(t)
      /\ \A e \in p .. End(t) :
           Unsigned(Trimmed(PieceOf(t, p, e))) = IF e < i THEN <<>> ELSE PieceOf(t, i, e)
  BY <1>0, LineFacts, UnsignedIs
<1>2. ASSUME NEW e \in p .. End(t)
      PROVE  IsWordOf(PieceOf(t, p, e), item) <=>
               i < e /\ Spelt(t, i, e, item)
  <2>1. PICK u : u = Unsigned(Trimmed(PieceOf(t, p, e)))
    OBVIOUS
  <2>2. u = IF e < i THEN <<>> ELSE PieceOf(t, i, e)
    BY <1>1, <2>1
  <2>3. IsWordOf(PieceOf(t, p, e), item) <=> IF item = "%d" THEN IsInt(u) ELSE IsFloat(u)
    <3>1. item = "%d" \/ (item = "%f" /\ item # "%d")
      BY DEF Numbers
    <3> QED
      BY <2>1, <3>1, WordsAre, Zenon
  <2>4. CASE e < i
    <3>1. u = <<>> /\ ~ (i < e)
      BY <1>1, <2>2, <2>4
    <3>2. ~ IsInt(u) /\ ~ IsFloat(u)
      BY <3>1 DEF IsInt, IsFloat
    <3> QED
      BY <2>3, <3>1, <3>2
  <2>5. CASE ~ (e < i)
    <3>1. u = PieceOf(t, i, e) /\ i \in 0 .. End(t) /\ e \in i .. End(t)
      BY <1>1, <2>2, <2>5
    <3>2. /\ IsInt(u) <=> i < e /\ IsDigits(t, i, e)
          /\ IsFloat(u) <=> i < e /\ HasFraction(t, i, e)
      BY <3>1, NumeralIs
    <3> QED
      BY <2>3, <3>2 DEF Spelt
  <2> QED
    BY <2>4, <2>5
<1>3. Ends(t, p, item) = {e \in p .. End(t) : IsWordOf(PieceOf(t, p, e), item)}
  BY EndsAre
<1> QED
  BY <1>0, <1>2, <1>3

\* Digits and a fraction are read as far as they go.
LEMMA DigitsRead ==
  ASSUME NEW t, IsLine(t), NEW i \in 0 .. End(t), i # End(t), NEW item \in Numbers,
         NEW e, e = PastDigits(t, i, item)
  PROVE  /\ e \in i .. End(t)
         /\ i < e => Spelt(t, i, e, item)
         /\ \A x \in i + 1 .. End(t) : Spelt(t, i, x, item) => x <= e
<1>1. PICK l \in Nat : l = End(t) /\ IsInput(t)
  BY LineFacts
<1>2. PICK q \in Nat : q = Past(t, i, Digits)
  BY <1>1, PastFacts
<1>3. /\ i \in Nat /\ i < l /\ i <= q /\ q <= l
      /\ \A j \in i + 1 .. q : t[j] \in Digits
      /\ q < l => t[q + 1] \notin Digits
  BY <1>1, <1>2, PastFacts, PastIs
<1>4. \A c \in Digits : c # "."
  BY DEF Digits
<1>5. CASE item = "%d"
  <2>1. e = q
    BY <1>2, <1>5 DEF PastDigits
  <2>2. IsDigits(t, i, q)
    BY <1>3 DEF IsDigits
  <2>3. ASSUME NEW x \in i + 1 .. l, IsDigits(t, i, x) PROVE x <= q
    <3>1. SUFFICES ASSUME q < x PROVE FALSE
      BY <1>3
    <3>2. q + 1 \in i + 1 .. x /\ q < l
      BY <1>3, <3>1
    <3> QED
      BY <1>3, <2>3, <3>2 DEF IsDigits
  <2> QED
    BY <1>1, <1>3, <1>5, <2>1, <2>2, <2>3 DEF Spelt
<1>6. CASE item # "%d"
  <2>1. item = "%f"
    BY <1>6 DEF Numbers
  <2>2. CASE i < q /\ q < l /\ t[q + 1] = "."
    <3>1. PICK r : r = q + 1 /\ r \in 0 .. l /\ r \in Nat
      BY <1>3, <2>2
    <3>2. e = Past(t, r, Digits)
      BY <1>1, <1>2, <2>1, <2>2, <3>1 DEF PastDigits, Char
    <3>3. /\ e \in r .. l /\ \A j \in r + 1 .. e : t[j] \in Digits
          /\ e < l => t[e + 1] \notin Digits
      BY <1>1, <3>1, <3>2, PastFacts, PastIs
    <3>4. ASSUME NEW j \in i + 1 .. e PROVE (t[j] \in Digits /\ j # r) \/ (t[j] = "." /\ j = r)
      <4>1. j \in i + 1 .. q \/ j = r \/ j \in r + 1 .. e
        BY <1>3, <3>1, <3>3
      <4>2. j \in i + 1 .. q => j # r
        BY <3>1
      <4>3. j \in r + 1 .. e => j # r
        BY <3>1
      <4> QED
        BY <1>3, <2>2, <3>1, <3>3, <4>1, <4>2, <4>3
    <3>5. HasFraction(t, i, e)
      <4>1. t[i + 1] \in Digits
        <5>1. i + 1 \in i + 1 .. q
          BY <1>3, <2>2
        <5> QED
          BY <1>3, <5>1
      <4>2. \A j \in i + 1 .. e : t[j] \in Digits \cup {"."}
        BY <3>4
      <4>3. ASSUME NEW j \in i + 1 .. e, NEW k \in i + 1 .. e, t[j] = ".", t[k] = "."
            PROVE  j = k
        <5>1. j = r /\ k = r
          BY <1>4, <3>4, <4>3
        <5> QED
          BY <5>1
      <4> QED
        BY <4>1, <4>2, <4>3 DEF HasFraction
    <3>6. ASSUME NEW x \in i + 1 .. l, HasFraction(t, i, x) PROVE x <= e
      <4>1. SUFFICES ASSUME e < x PROVE FALSE
        BY <1>3, <3>1, <3>3
      <4>2. e + 1 \in i + 1 .. x /\ r \in i + 1 .. x /\ e < l /\ e + 1 # r
        BY <1>3, <3>1, <3>3, <4>1
      <4>3. t[e + 1] = "."
        BY <3>3, <3>6, <4>2 DEF HasFraction
      <4>4. t[r] = "."
        BY <2>2, <3>1
      <4> QED
        BY <3>6, <4>2, <4>3, <4>4 DEF HasFraction
    <3>7. e \in i .. l
      BY <1>3, <3>1, <3>3
    <3> QED
      BY <1>1, <1>6, <3>5, <3>6, <3>7 DEF Spelt
  <2>3. CASE ~ (i < q /\ q < l /\ t[q + 1] = ".")
    <3>1. e = q
      BY <1>1, <1>2, <2>3 DEF PastDigits, Char
    <3>2. ASSUME i < q PROVE HasFraction(t, i, q)
      <4>1. i + 1 \in i + 1 .. q
        BY <1>3, <3>2
      <4>2. t[i + 1] \in Digits /\ \A j \in i + 1 .. q : t[j] \in Digits \cup {"."}
        BY <1>3, <4>1
      <4>3. \A j \in i + 1 .. q : t[j] # "."
        BY <1>3, <1>4
      <4> QED
        BY <4>2, <4>3 DEF HasFraction
    <3>3. ASSUME NEW x \in i + 1 .. l, HasFraction(t, i, x) PROVE x <= q
      <4>1. SUFFICES ASSUME q < x PROVE FALSE
        BY <1>3
      <4>2. q + 1 \in i + 1 .. x /\ q < l
        BY <1>3, <4>1
      <4>3. CASE q = i
        BY <1>3, <3>3, <4>2, <4>3 DEF HasFraction
      <4>4. CASE i < q
        <5>1. t[q + 1] # "." /\ t[q + 1] \notin Digits
          BY <1>3, <2>3, <4>2, <4>4
        <5> QED
          BY <3>3, <4>2, <5>1 DEF HasFraction
      <4> QED
        BY <1>3, <4>3, <4>4
    <3>4. q \in i .. l
      BY <1>3
    <3> QED
      BY <1>1, <1>6, <3>1, <3>2, <3>3, <3>4 DEF Spelt
  <2> QED
    BY <2>2, <2>3
<1> QED
  BY <1>5, <1>6

LEMMA SingleIs ==
  ASSUME NEW w \in Seq(Characters), NEW c, Len(w) = 1, w[1] = c
  PROVE  w = <<c>>
OBVIOUS

\* What "%d" and "%f" read
LEMMA NumberRead ==
  ASSUME NEW t, IsLine(t), NEW p \in 0 .. End(t), p # End(t), NEW item \in Numbers,
         NEW m, m = MatchedNumber(t, p, item)
  PROVE  Right(t, p, item, m)
<1>1. PICK b : b = FromAt(t, p)
  OBVIOUS
<1>2. PICK i : i = SignEnd(t, p, item)
  OBVIOUS
<1>3. /\ p \in Nat /\ End(t) \in Nat /\ t \in Seq(Characters) /\ End(t) <= Len(t)
      /\ b \in p .. End(t) /\ i \in b .. End(t)
      /\ i = b \/ (i = b + 1 /\ t[b + 1] = "-")
  BY <1>1, <1>2, LineFacts, UnsignedIs
<1>4. PICK e : e = IF i < End(t) THEN PastDigits(t, i, item) ELSE i
  OBVIOUS
<1>5. m.from = b /\ m.to = e /\ (m.ok <=> e > i) /\ m.ok \in BOOLEAN
  <2>1. m = [from |-> b, to |-> e, ok |-> e > i]
    BY <1>1, <1>2, <1>4, MatchedAre, Zenon DEF FromAt, SignEnd
  <2>2. (e > i) \in BOOLEAN
    OBVIOUS
  <2>3. PICK o : o = (e > i)
    OBVIOUS
  <2>4. m = [from |-> b, to |-> e, ok |-> o]
    BY <2>1, <2>3, Zenon
  <2>5. m.from = b /\ m.to = e /\ m.ok = o
    BY <2>4
  <2> QED
    BY <2>2, <2>3, <2>5
<1>6. /\ e \in i .. End(t)
      /\ i < e => Spelt(t, i, e, item)
      /\ \A x \in i + 1 .. End(t) : Spelt(t, i, x, item) => x <= e
  <2>1. CASE i < End(t)
    <3>1. i \in 0 .. End(t) /\ i # End(t) /\ e = PastDigits(t, i, item)
      BY <1>3, <1>4, <2>1
    <3> QED
      BY <3>1, DigitsRead, Zenon
  <2>2. CASE ~ (i < End(t))
    <3>1. e = i /\ i = End(t) /\ i \in Nat
      BY <1>3, <1>4, <2>2
    <3>2. i + 1 .. End(t) = {} /\ ~ (i < e)
      BY <1>3, <3>1
    <3> QED
      BY <1>3, <3>1, <3>2
  <2> QED
    BY <2>1, <2>2
<1>7. Ends(t, p, item) = {x \in p .. End(t) : i < x /\ Spelt(t, i, x, item)}
  BY <1>1, <1>2, NumberEnds, Zenon
<1>8. e \in p .. End(t) /\ e \in Nat /\ b <= e /\ b \in Nat /\ e <= Len(t)
  BY <1>3, <1>6
<1>9. Trimmed(PieceOf(t, p, e)) = PieceOf(t, b, e)
  BY <1>1, <1>8, TrimmedAre DEF FromAt
<1>10. CASE e > i
  <2>1. e \in Ends(t, p, item) /\ \A x \in Ends(t, p, item) : x <= e
    <3>1. \A x \in p .. End(t) : i < x => x \in i + 1 .. End(t)
      BY <1>3
    <3>2. i < e
      BY <1>3, <1>6, <1>10
    <3> QED
      BY <1>6, <1>7, <1>8, <3>1, <3>2
  <2> QED
    BY <1>5, <1>8, <1>9, <1>10, <2>1 DEF Right
<1>11. CASE ~ (e > i)
  <2>1. e = i
    BY <1>3, <1>6, <1>11
  <2>2. Ends(t, p, item) = {}
    <3>1. SUFFICES ASSUME NEW x \in Ends(t, p, item) PROVE FALSE
      OBVIOUS
    <3>2. x \in i + 1 .. End(t) /\ Spelt(t, i, x, item) /\ ~ (x <= i)
      BY <1>3, <1>7
    <3> QED
      BY <1>6, <2>1, <3>2
  <2>3. PieceOf(t, b, e) \in {<<>>, <<"-">>}
    <3>1. PICK w : w = PieceOf(t, b, e)
      OBVIOUS
    <3>2. w \in Seq(Characters) /\ Len(w) = e - b /\ \A j \in 1 .. e - b : w[j] = t[b + j]
      BY <1>3, <1>8, <3>1, PieceOfFacts
    <3>3. CASE i = b
      <4>1. Len(w) = 0
        BY <1>8, <2>1, <3>2, <3>3
      <4> QED
        BY <3>1, <3>2, <4>1
    <3>4. CASE i = b + 1 /\ t[b + 1] = "-"
      <4>1. e - b = 1 /\ 1 \in 1 .. e - b
        BY <1>8, <2>1, <3>4
      <4>2. Len(w) = 1 /\ w[1] = "-"
        BY <3>2, <3>4, <4>1
      <4>3. w = <<"-">>
        BY <3>2, <4>2, SingleIs
      <4> QED
        BY <3>1, <4>3
    <3> QED
      BY <1>3, <3>3, <3>4
  <2> QED
    BY <1>5, <1>8, <1>9, <1>11, <2>2, <2>3 DEF Right
<1> QED
  BY <1>10, <1>11

\* Every item reads what is right.
LEMMA ItemRead ==
  ASSUME NEW t, IsLine(t), NEW p \in 0 .. End(t), p # End(t), NEW item
  PROVE  Right(t, p, item, Matched(t, p, item))
<1>1. CASE item \in Numbers
  BY <1>1, MatchedIs, NumberRead
<1>2. CASE item = "%s"
  BY <1>2, MatchedIs, WordRead
<1>3. CASE item = Space
  BY <1>3, MatchedIs, SpacesRead
<1>4. CASE item \notin Numbers /\ item # "%s" /\ item # Space
  BY <1>4, MatchedIs, LiteralRead
<1> QED
  BY <1>1, <1>2, <1>3, <1>4

\* Behind the last character there is the empty piece, if any.
LEMMA EndsAtEnd ==
  ASSUME NEW t, IsLine(t), NEW item
  PROVE  Ends(t, End(t), item) \subseteq {End(t)}
BY LineFacts DEF Ends

\* Where the piece of item ends, if it begins at b
Cut(t, b, item) ==
  IF b = NoPiece \/ Ends(t, b, item) = {} THEN NoPiece ELSE Max(Ends(t, b, item))

CutAt(t, format, h, i) == IF i = 0 THEN 0 ELSE Cut(t, h[i - 1], format[i])

\* The recursion of Cuts has a solution.
LEMMA CutsExist ==
  ASSUME NEW t, NEW format, NEW n \in Nat
  PROVE  \E h : h = [i \in 0 .. n |-> CutAt(t, format, h, i)]
<1> DEFINE F(k, h) == [i \in 0 .. k |-> CutAt(t, format, h, i)]
           D == {k \in Nat : ~ \E h : h = F(k, h)}
<1>1. SUFFICES ASSUME D # {} PROVE FALSE
  OBVIOUS
<1>2. PICK k \in D : \A y \in D : k <= y
  <2>1. D \subseteq Nat
    OBVIOUS
  <2> HIDE DEF D
  <2> QED
    BY <1>1, <2>1, LeastNatural
<1>3. k \in Nat /\ ~ \E h : h = F(k, h)
  OBVIOUS
<1>4. k # 0
  <2> DEFINE h == [i \in 0 .. 0 |-> 0]
  <2>1. h = F(0, h)
    BY DEF CutAt
  <2> QED
    BY <1>3, <2>1
<1>5. PICK g : g = F(k - 1, g)
  <2>1. k - 1 \in Nat /\ ~ (k <= k - 1)
    BY <1>3, <1>4
  <2>2. k - 1 \notin D
    <3> HIDE DEF D
    <3> QED
      BY <1>2, <2>1
  <2> QED
    BY <2>1, <2>2
<1> DEFINE h == [i \in 0 .. k |-> IF i = 0 THEN 0 ELSE Cut(t, g[i - 1], format[i])]
<1>6. ASSUME NEW i \in 0 .. k, i # 0 PROVE h[i - 1] = g[i - 1]
  <2>1. i - 1 \in 0 .. k - 1 /\ i - 1 \in 0 .. k
    BY <1>3, <1>6
  <2>2. g[i - 1] = IF i - 1 = 0 THEN 0 ELSE Cut(t, g[i - 1 - 1], format[i - 1])
    BY <1>5, <2>1 DEF CutAt
  <2> QED
    BY <2>1, <2>2
<1>7. h = F(k, h)
  <2>1. \A i \in 0 .. k : (IF i = 0 THEN 0 ELSE Cut(t, g[i - 1], format[i]))
                            = CutAt(t, format, h, i)
    <3> HIDE DEF h
    <3> QED
      BY <1>6 DEF CutAt
  <2> QED
    BY <2>1
<1> QED
  BY <1>3, <1>7

LEMMA CutsAre ==
  ASSUME NEW t, NEW format \in Seq(STRING)
  PROVE  \E c : /\ Cuts(t, format) = c /\ DOMAIN c = 0 .. Len(format) /\ c[0] = 0
                /\ \A i \in 1 .. Len(format) : c[i] = Cut(t, c[i - 1], format[i])
<1> DEFINE n == Len(format)
           F(h) == [i \in 0 .. n |-> CutAt(t, format, h, i)]
           f == CHOOSE h : h = F(h)
<1>1. n \in Nat
  OBVIOUS
<1>2. \E h : h = F(h)
  BY <1>1, CutsExist
<1>3. f = F(f)
  <2> HIDE DEF F
  <2> QED
    BY <1>2
<1>4. Cuts(t, format) = f
  BY Zenon DEF Cuts, Cut, CutAt
<1>5. PICK c : c = f
  OBVIOUS
<1>6. c = F(c)
  BY <1>3, <1>5, Zenon
<1> HIDE DEF f
<1>7. DOMAIN c = 0 .. n /\ c[0] = 0 /\ \A i \in 1 .. n : c[i] = Cut(t, c[i - 1], format[i])
  BY <1>1, <1>6 DEF CutAt
<1> QED
  BY <1>4, <1>5, <1>7

LEMMA SeenIs ==
  ASSUME NEW format, NEW n \in Nat
  PROVE  /\ \A j \in 0 .. n : Seen(format, j) \in Nat
         /\ Seen(format, 0) = 0
         /\ \A j \in 1 .. n : Seen(format, j) = IF format[j] \in Specifiers
                                                THEN Seen(format, j - 1) + 1
                                                ELSE Seen(format, j - 1)
         /\ \A i, j \in 0 .. n : i <= j => Seen(format, i) <= Seen(format, j)
<1> DEFINE H(j) == {h \in 1 .. j : format[h] \in Specifiers}
<1>1. ASSUME NEW j \in 0 .. n PROVE IsFiniteSet(H(j)) /\ Cardinality(H(j)) \in Nat
  <2>1. IsFiniteSet(1 .. j)
    BY FS_Interval
  <2>2. H(j) \subseteq 1 .. j
    OBVIOUS
  <2> HIDE DEF H
  <2>3. IsFiniteSet(H(j))
    BY <2>1, <2>2, FS_Subset
  <2> QED
    BY <2>3, FS_CardinalityType
<1>2. H(0) = {}
  OBVIOUS
<1>3. ASSUME NEW j \in 1 .. n
      PROVE  Cardinality(H(j)) = IF format[j] \in Specifiers THEN Cardinality(H(j - 1)) + 1
                                                              ELSE Cardinality(H(j - 1))
  <2>1. j - 1 \in 0 .. n /\ 1 .. j = (1 .. j - 1) \cup {j} /\ j \notin 1 .. j - 1
    OBVIOUS
  <2>2. CASE format[j] \in Specifiers
    <3>1. H(j) = H(j - 1) \cup {j} /\ j \notin H(j - 1)
      BY <2>1, <2>2
    <3>2. IsFiniteSet(H(j - 1))
      BY <1>1, <2>1
    <3> HIDE DEF H
    <3> QED
      BY <2>2, <3>1, <3>2, FS_AddElement
  <2>3. CASE format[j] \notin Specifiers
    <3>1. H(j) = H(j - 1)
      BY <2>1, <2>3
    <3> HIDE DEF H
    <3> QED
      BY <2>3, <3>1
  <2> QED
    BY <2>2, <2>3
<1>4. ASSUME NEW i \in 0 .. n, NEW j \in 0 .. n, i <= j
      PROVE  Cardinality(H(i)) <= Cardinality(H(j))
  <2>1. H(i) \subseteq H(j)
    BY <1>4
  <2> HIDE DEF H
  <2> QED
    BY <1>1, <2>1, FS_Subset
<1>5. \A j : Seen(format, j) = Cardinality(H(j))
  BY DEF Seen
<1> HIDE DEF H
<1> QED
  BY <1>1, <1>2, <1>3, <1>4, <1>5, FS_EmptySet

-----------------------------------------------------------------------------
(* How a scan goes with the cuts *)

\* What is read for item h is right.
ReadIs(t, format, c, read, h) ==
  format[h] \in Specifiers =>
    IF Seen(format, h) <= Len(read)
    THEN /\ read[Seen(format, h)].ok
         /\ PieceOf(t, read[Seen(format, h)].from, read[Seen(format, h)].to) =
              Trimmed(PieceOf(t, c[h - 1], c[h]))
    ELSE c[h - 1] = c[h]

LEMMA ReadsAreIs ==
  ASSUME NEW t, NEW format, NEW c, NEW k, NEW read
  PROVE  ReadsAre(t, format, c, k, read) <=> \A h \in 1 .. k : ReadIs(t, format, c, read, h)
BY Zenon DEF ReadsAre, ReadIs, PieceOf

\* All items up to j have matched.
Running(t, format, c, j, s) ==
  /\ ~s.left /\ c[j] = s.p /\ Len(s.read) = Seen(format, j)
  /\ \A h \in 1 .. j : ReadIs(t, format, c, s.read, h)

\* The input has ended, and what has not been looked at matches what is empty.
AtEnd(t, format, c, j, s) ==
  /\ s.p = End(t) /\ c[j] = End(t) /\ Len(s.read) <= Seen(format, j)
  /\ \A h \in 1 .. j : ReadIs(t, format, c, s.read, h)

\* Item k + 1 has not matched.
Failed(t, format, c, j, s, k) ==
  /\ k \in 0 .. j - 1 /\ c[k] \in 0 .. End(t) /\ \A i \in k + 1 .. j : c[i] = NoPiece
  /\ c[k] <= s.p /\ Trimmed(PieceOf(t, c[k], s.p)) \in {<<>>, <<"-">>}
  /\ s.p > c[k] => format[k + 1] \in Numbers
  /\ \A h \in 1 .. k : ReadIs(t, format, c, s.read, h)
  /\ \A i \in Seen(format, k) + 1 .. Len(s.read) : ~s.read[i].ok

Goes(t, format, c, j, s) ==
  \/ Running(t, format, c, j, s)
  \/ s.left /\ AtEnd(t, format, c, j, s)
  \/ s.left /\ \E k \in 0 .. j - 1 : Failed(t, format, c, j, s, k)

\* What one turn is about
TurnOf(t, format, c, j, s, u) ==
  /\ IsLine(t) /\ format \in Seq(STRING) /\ j \in 1 .. Len(format)
  /\ IsScan(t, s) /\ u = Turn(t, s, format[j])
  /\ c[j] = Cut(t, c[j - 1], format[j])

LEMMA TurnOfFacts ==
  ASSUME NEW t, NEW format, NEW c, NEW j, NEW s, NEW u, TurnOf(t, format, c, j, s, u)
  PROVE  /\ j \in Nat \ {0} /\ j - 1 \in Nat /\ End(t) \in Nat
         /\ s.p \in 0 .. End(t) /\ s.read \in Seq(Matches(t)) /\ Len(s.read) \in Nat
         /\ Seen(format, j) \in Nat /\ Seen(format, j - 1) \in Nat
         /\ Seen(format, j) = IF format[j] \in Specifiers THEN Seen(format, j - 1) + 1
                                                           ELSE Seen(format, j - 1)
         /\ \A h \in 1 .. j - 1 : format[h] \in Specifiers =>
              Seen(format, h) \in 1 .. Seen(format, j - 1)
<1>1. j \in Nat \ {0} /\ j - 1 \in Nat /\ j - 1 \in 0 .. j /\ j \in 0 .. j /\ j \in 1 .. j
  BY DEF TurnOf
<1>2. End(t) \in Nat /\ s.p \in 0 .. End(t) /\ s.read \in Seq(Matches(t)) /\ Len(s.read) \in Nat
  BY LineFacts DEF TurnOf, IsScan
<1>3. /\ \A i \in 0 .. j : Seen(format, i) \in Nat
      /\ Seen(format, j) = IF format[j] \in Specifiers THEN Seen(format, j - 1) + 1
                                                        ELSE Seen(format, j - 1)
      /\ \A i, h \in 0 .. j : i <= h => Seen(format, i) <= Seen(format, h)
  BY <1>1, SeenIs
<1>4. ASSUME NEW h \in 1 .. j - 1, format[h] \in Specifiers
      PROVE  Seen(format, h) \in 1 .. Seen(format, j - 1)
  <2>1. h \in 1 .. j /\ h \in 0 .. j /\ h <= j - 1 /\ h - 1 \in 0 .. j
    BY <1>1
  <2>2. Seen(format, h) = Seen(format, h - 1) + 1
    BY <1>1, <1>4, <2>1, SeenIs
  <2>3. Seen(format, h) <= Seen(format, j - 1)
    BY <1>1, <1>3, <2>1
  <2> QED
    BY <1>1, <1>3, <2>1, <2>2, <2>3
<1> QED
  BY <1>1, <1>2, <1>3, <1>4

\* Reading on leaves what was read.
LEMMA ReadStays ==
  ASSUME NEW t, NEW format, NEW c, NEW h, NEW read \in Seq(Matches(t)), NEW m \in Matches(t),
         format[h] \in Specifiers => Seen(format, h) \in 1 .. Len(read),
         ReadIs(t, format, c, read, h)
  PROVE  ReadIs(t, format, c, Append(read, m), h)
<1>1. PICK more : more = Append(read, m)
  OBVIOUS
<1>2. Len(more) = Len(read) + 1 /\ Len(read) \in Nat /\ \A i \in 1 .. Len(read) : more[i] = read[i]
  BY <1>1, AppendProperties
<1>3. CASE format[h] \in Specifiers
  <2>1. PICK i \in Nat : i = Seen(format, h) /\ i \in 1 .. Len(read)
    BY <1>2, <1>3
  <2>2. more[i] = read[i] /\ i <= Len(more) /\ i <= Len(read)
    BY <1>2, <2>1
  <2> QED
    BY <1>1, <2>1, <2>2 DEF ReadIs
<1>4. CASE format[h] \notin Specifiers
  BY <1>4 DEF ReadIs
<1> QED
  BY <1>3, <1>4

\* At the end of the input the next item matches what is empty, or fails.
LEMMA TurnAtEnd ==
  ASSUME NEW t, NEW format, NEW c, NEW j, NEW s, NEW u, TurnOf(t, format, c, j, s, u),
         AtEnd(t, format, c, j - 1, s), u.left, u.p = s.p, u.read = s.read
  PROVE  Goes(t, format, c, j, u)
<1>1. /\ j \in Nat \ {0} /\ j - 1 \in Nat /\ End(t) \in Nat /\ Len(s.read) \in Nat
      /\ Seen(format, j) \in Nat /\ Seen(format, j - 1) \in Nat
      /\ Seen(format, j) = IF format[j] \in Specifiers THEN Seen(format, j - 1) + 1
                                                        ELSE Seen(format, j - 1)
  BY TurnOfFacts
<1>2. /\ s.p = End(t) /\ c[j - 1] = End(t) /\ Len(s.read) <= Seen(format, j - 1)
      /\ \A h \in 1 .. j - 1 : ReadIs(t, format, c, s.read, h)
  BY DEF AtEnd
<1>3. PICK l \in Nat : l = End(t)
  BY <1>1
<1>4. PICK E : E = Ends(t, l, format[j])
  OBVIOUS
<1>5. E \subseteq {l} /\ c[j] = IF E = {} THEN NoPiece ELSE Max(E)
  <2>1. E \subseteq {l}
    BY <1>3, <1>4, EndsAtEnd DEF TurnOf
  <2>2. c[j] = Cut(t, l, format[j]) /\ l # NoPiece
    BY <1>2, <1>3 DEF TurnOf, NoPiece
  <2> QED
    BY <1>4, <2>1, <2>2 DEF Cut
<1>6. CASE E # {}
  <2>1. E \subseteq 0 .. l /\ l \in E /\ \A y \in E : y <= l
    BY <1>3, <1>5, <1>6
  <2>2. c[j] = l
    BY <1>5, <1>6, <2>1, MaxIs
  <2>3. ASSUME NEW h \in 1 .. j PROVE ReadIs(t, format, c, u.read, h)
    <3>1. CASE h \in 1 .. j - 1
      BY <1>2, <3>1
    <3>2. CASE h = j
      <4>1. c[j - 1] = c[j]
        BY <1>2, <1>3, <2>2
      <4>2. format[j] \in Specifiers => ~ (Seen(format, j) <= Len(u.read))
        BY <1>1, <1>2
      <4> QED
        BY <3>2, <4>1, <4>2 DEF ReadIs
    <3> QED
      BY <1>1, <3>1, <3>2
  <2>4. Len(u.read) <= Seen(format, j)
    BY <1>1, <1>2
  <2> QED
    BY <1>2, <1>3, <2>2, <2>3, <2>4 DEF Goes, AtEnd
<1>7. CASE E = {}
  <2>1. PICK k \in Nat : k = j - 1
    BY <1>1
  <2>2. c[j] = NoPiece /\ k \in 0 .. j - 1 /\ \A i \in k + 1 .. j : i = j
    BY <1>1, <1>5, <1>7, <2>1
  <2>3. Trimmed(PieceOf(t, l, l)) = <<>>
    BY <1>3, NothingTrimmed DEF TurnOf
  <2>4. Seen(format, k) + 1 .. Len(u.read) = {}
    BY <1>1, <1>2, <2>1
  <2>5. Failed(t, format, c, j, u, k)
    BY <1>2, <1>3, <2>1, <2>2, <2>3, <2>4 DEF Failed
  <2> QED
    BY <2>2, <2>5 DEF Goes
<1> QED
  BY <1>6, <1>7

\* Once an item has failed, nothing changes.
LEMMA TurnAfterFailure ==
  ASSUME NEW t, NEW format, NEW c, NEW j, NEW s, NEW u, TurnOf(t, format, c, j, s, u),
         NEW k \in 0 .. j - 1 - 1, Failed(t, format, c, j - 1, s, k),
         u.left, u.p = s.p, u.read = s.read
  PROVE  Goes(t, format, c, j, u)
<1>1. j \in Nat \ {0} /\ j - 1 \in Nat
  BY TurnOfFacts
<1>2. k \in 0 .. j - 1 /\ j - 1 \in k + 1 .. j - 1 /\ \A i \in k + 1 .. j : i \in k + 1 .. j - 1 \/ i = j
  BY <1>1
<1>3. c[j - 1] = NoPiece
  BY <1>2 DEF Failed
<1>4. c[j] = NoPiece
  BY <1>3 DEF TurnOf, Cut
<1>5. \A i \in k + 1 .. j : c[i] = NoPiece
  BY <1>2, <1>4 DEF Failed
<1>6. Failed(t, format, c, j, u, k)
  BY <1>2, <1>5 DEF Failed
<1> QED
  BY <1>2, <1>6 DEF Goes

\* A turn that looks at its item
LEMMA TurnMatches ==
  ASSUME NEW t, NEW format, NEW c, NEW j, NEW s, NEW u, TurnOf(t, format, c, j, s, u),
         Running(t, format, c, j - 1, s), s.p # End(t),
         NEW m, m = Matched(t, s.p, format[j]), u.p = m.to, u.left = ~m.ok,
         u.read = IF format[j] \in Specifiers THEN Append(s.read, m) ELSE s.read
  PROVE  Goes(t, format, c, j, u)
<1>1. /\ j \in Nat \ {0} /\ j - 1 \in Nat /\ End(t) \in Nat /\ s.p \in 0 .. End(t) /\ s.p \in Nat
      /\ s.read \in Seq(Matches(t)) /\ Len(s.read) \in Nat
      /\ Seen(format, j) \in Nat /\ Seen(format, j - 1) \in Nat
      /\ Seen(format, j) = IF format[j] \in Specifiers THEN Seen(format, j - 1) + 1
                                                        ELSE Seen(format, j - 1)
      /\ \A h \in 1 .. j - 1 : format[h] \in Specifiers =>
           Seen(format, h) \in 1 .. Seen(format, j - 1)
  BY TurnOfFacts
<1>2. PICK p \in Nat : p = s.p /\ p \in 0 .. End(t) /\ p # End(t)
  BY <1>1
<1>3. PICK item : item = format[j]
  OBVIOUS
<1>4. /\ c[j - 1] = p /\ Len(s.read) = Seen(format, j - 1)
      /\ \A h \in 1 .. j - 1 : ReadIs(t, format, c, s.read, h)
  BY <1>2 DEF Running
<1>5. Right(t, p, item, m) /\ IsLine(t) /\ IsInput(t)
  BY <1>2, <1>3, ItemRead DEF TurnOf, IsLine
<1>6. item \in Specifiers => m \in Matches(t)
  BY <1>2, <1>3, <1>5, MatchIsOne
<1>7. ASSUME NEW h \in 1 .. j - 1 PROVE ReadIs(t, format, c, u.read, h)
  <2>1. CASE item \in Specifiers
    <3>1. format[h] \in Specifiers => Seen(format, h) \in 1 .. Len(s.read)
      BY <1>1, <1>4
    <3> QED
      BY <1>1, <1>3, <1>4, <1>6, <2>1, <3>1, ReadStays
  <2>2. CASE item \notin Specifiers
    BY <1>3, <1>4, <2>2
  <2> QED
    BY <2>1, <2>2
<1>8. Len(u.read) = Seen(format, j)
  <2>1. CASE item \in Specifiers
    BY <1>1, <1>3, <1>4, <1>6, <2>1, AppendProperties
  <2>2. CASE item \notin Specifiers
    BY <1>1, <1>3, <1>4, <2>2
  <2> QED
    BY <2>1, <2>2
<1>9. item \in Specifiers => u.read[Seen(format, j)] = m
  <2> SUFFICES ASSUME item \in Specifiers PROVE u.read[Seen(format, j)] = m
    OBVIOUS
  <2>1. Append(s.read, m)[Len(s.read) + 1] = m
    BY <1>1, <1>6, AppendProperties
  <2> QED
    BY <1>1, <1>3, <1>4, <2>1
<1>10. c[j] = IF Ends(t, p, item) = {} THEN NoPiece ELSE Max(Ends(t, p, item))
  BY <1>2, <1>3, <1>4 DEF TurnOf, Cut, NoPiece
<1>11. CASE m.ok
  <2>1. /\ m.to \in p .. End(t) /\ m.to \in Ends(t, p, item) /\ \A e \in Ends(t, p, item) : e <= m.to
        /\ item \in Specifiers => PieceOf(t, m.from, m.to) = Trimmed(PieceOf(t, p, m.to))
    BY <1>5, <1>11 DEF Right
  <2>2. Ends(t, p, item) \subseteq 0 .. End(t)
    BY <1>2 DEF Ends
  <2>3. c[j] = m.to
    <3>1. Max(Ends(t, p, item)) = m.to
      BY <1>1, <2>1, <2>2, MaxIs
    <3> QED
      BY <1>10, <2>1, <3>1
  <2>4. ReadIs(t, format, c, u.read, j)
    <3>1. Seen(format, j) <= Len(u.read)
      BY <1>1, <1>8
    <3> QED
      BY <1>3, <1>4, <1>9, <1>11, <2>1, <2>3, <3>1 DEF ReadIs
  <2>5. \A h \in 1 .. j : ReadIs(t, format, c, u.read, h)
    <3>1. \A h \in 1 .. j : h \in 1 .. j - 1 \/ h = j
      BY <1>1
    <3> QED
      BY <1>7, <2>4, <3>1
  <2>6. ~u.left
    BY <1>11
  <2> QED
    BY <1>8, <2>3, <2>5, <2>6 DEF Goes, Running
<1>12. CASE ~m.ok
  <2>1. /\ m.to \in p .. End(t) /\ Ends(t, p, item) = {}
        /\ Trimmed(PieceOf(t, p, m.to)) \in {<<>>, <<"-">>}
        /\ m.to > p => item \in Numbers
    BY <1>5, <1>12 DEF Right
  <2>2. PICK k \in Nat : k = j - 1
    BY <1>1
  <2>3. c[j] = NoPiece /\ k \in 0 .. j - 1 /\ k + 1 = j /\ \A i \in k + 1 .. j : i = j
    BY <1>1, <1>10, <2>1, <2>2
  <2>4. ASSUME NEW i \in Seen(format, k) + 1 .. Len(u.read) PROVE ~u.read[i].ok
    <3>1. item \in Specifiers /\ i = Seen(format, j)
      BY <1>1, <1>3, <1>8, <2>2
    <3> QED
      BY <1>9, <1>12, <3>1
  <2>5. c[k] = p /\ p <= m.to /\ c[k] \in 0 .. End(t)
    BY <1>2, <1>4, <2>1, <2>2
  <2>6. Failed(t, format, c, j, u, k)
    BY <1>3, <1>7, <2>1, <2>2, <2>3, <2>4, <2>5 DEF Failed
  <2>7. u.left
    BY <1>12
  <2> QED
    BY <2>3, <2>6, <2>7 DEF Goes
<1> QED
  BY <1>11, <1>12

LEMMA TurnGoes ==
  ASSUME NEW t, NEW format, NEW c, NEW j, NEW s, NEW u, TurnOf(t, format, c, j, s, u),
         Goes(t, format, c, j - 1, s), DOMAIN s = {"p", "left", "read"}
  PROVE  Goes(t, format, c, j, u)
<1>1. /\ s.p \in 0 .. End(t) /\ End(t) \in Nat /\ j - 1 \in Nat /\ Seen(format, j - 1) \in Nat
      /\ u = Turn(t, s, format[j]) /\ IsLine(t)
  BY TurnOfFacts DEF TurnOf
<1>2. Char(t, s.p) = "NUL" => s.p = End(t)
  <2>1. s.p # End(t) => s.p + 1 \in 1 .. End(t)
    BY <1>1
  <2> QED
    BY <1>1, <2>1 DEF Char, IsLine
<1>3. CASE s.left \/ s.p >= End(t) \/ Char(t, s.p) = "NUL"
  <2>1. u = [s EXCEPT !.left = TRUE]
    BY <1>1, <1>3 DEF Turn
  <2>2. u.left /\ u.p = s.p /\ u.read = s.read
    BY <2>1
  <2>3. CASE Running(t, format, c, j - 1, s)
    <3>1. s.p = End(t)
      BY <1>1, <1>2, <1>3, <2>3 DEF Running
    <3>2. AtEnd(t, format, c, j - 1, s)
      BY <1>1, <2>3, <3>1 DEF Running, AtEnd
    <3> QED
      BY <2>2, <3>2, TurnAtEnd
  <2>4. CASE AtEnd(t, format, c, j - 1, s)
    BY <2>2, <2>4, TurnAtEnd
  <2>5. CASE \E k \in 0 .. j - 1 - 1 : Failed(t, format, c, j - 1, s, k)
    BY <2>2, <2>5, TurnAfterFailure
  <2> QED
    BY <2>3, <2>4, <2>5 DEF Goes
<1>4. CASE ~ (s.left \/ s.p >= End(t) \/ Char(t, s.p) = "NUL")
  <2>1. PICK m : m = Matched(t, s.p, format[j])
    OBVIOUS
  <2>2. u = [p |-> m.to, left |-> ~m.ok,
             read |-> IF format[j] \in Specifiers THEN Append(s.read, m) ELSE s.read]
    BY <1>1, <1>4, <2>1 DEF Turn
  <2>3. /\ u.p = m.to /\ u.left = ~m.ok
        /\ u.read = IF format[j] \in Specifiers THEN Append(s.read, m) ELSE s.read
    BY <2>2
  <2>4. Running(t, format, c, j - 1, s) /\ s.p # End(t)
    BY <1>1, <1>4 DEF Goes
  <2> QED
    BY <2>1, <2>3, <2>4, TurnMatches
<1> QED
  BY <1>3, <1>4

\* A whole scan goes with the cuts.
LEMMA ScanGoes ==
  ASSUME NEW t, IsLine(t), NEW format \in Seq(STRING), NEW c, c[0] = 0,
         \A i \in 1 .. Len(format) : c[i] = Cut(t, c[i - 1], format[i])
  PROVE  /\ IsScan(t, Str8__scan(t, format))
         /\ Goes(t, format, c, Len(format), Str8__scan(t, format))
<1>1. PICK st : /\ st[0] = Begun
                /\ \A k \in 1 .. Len(format) : st[k] = Turn(t, st[k - 1], format[k])
                /\ Str8__scan(t, format) = st[Len(format)]
  BY ScanIsTurns
<1> DEFINE Well(k) == /\ IsScan(t, st[k]) /\ DOMAIN st[k] = {"p", "left", "read"}
                      /\ Goes(t, format, c, k, st[k])
           D == {k \in 0 .. Len(format) : ~Well(k)}
<1>2. Len(format) \in Nat /\ IsInput(t) /\ End(t) \in Nat
  BY LineFacts
<1>3. SUFFICES ASSUME D # {} PROVE FALSE
  BY <1>1, <1>2
<1>4. PICK k \in D : \A y \in D : k <= y
  <2>1. D \subseteq Nat
    OBVIOUS
  <2> HIDE DEF D
  <2> QED
    BY <1>3, <2>1, LeastNatural
<1>5. k \in 0 .. Len(format) /\ ~Well(k)
  OBVIOUS
<1>6. Well(0)
  <2>1. PICK b : b = Begun
    OBVIOUS
  <2>2. b.p = 0 /\ b.read = <<>> /\ ~b.left /\ DOMAIN b = {"p", "left", "read"}
    BY <2>1 DEF Begun
  <2>3. 0 \in 0 .. End(t) /\ <<>> \in Seq(Matches(t)) /\ Len(<<>>) = 0 /\ 1 .. 0 = {}
    BY <1>2
  <2>4. IsScan(t, b)
    BY <2>2, <2>3 DEF IsScan
  <2>5. Seen(format, 0) = 0
    BY <1>2, SeenIs
  <2>6. Running(t, format, c, 0, b)
    BY <2>2, <2>3, <2>5 DEF Running
  <2> QED
    BY <1>1, <2>1, <2>2, <2>4, <2>6 DEF Goes
<1>7. k \in 1 .. Len(format) /\ k - 1 \in 0 .. Len(format) /\ ~ (k <= k - 1)
  <2> HIDE DEF Well
  <2> QED
    BY <1>2, <1>5, <1>6
<1>8. Well(k - 1)
  <2>1. k - 1 \notin D
    <3> HIDE DEF D
    <3> QED
      BY <1>4, <1>7
  <2> QED
    BY <1>7, <2>1
<1> QED
  <2>1. PICK s, u : s = st[k - 1] /\ u = st[k]
    OBVIOUS
  <2>2. /\ IsScan(t, s) /\ DOMAIN s = {"p", "left", "read"} /\ Goes(t, format, c, k - 1, s)
        /\ u = Turn(t, s, format[k])
    BY <1>1, <1>7, <1>8, <2>1
  <2>3. IsScan(t, u) /\ DOMAIN u = {"p", "left", "read"}
    BY <1>2, <2>2, TurnFacts
  <2>4. TurnOf(t, format, c, k, s, u)
    BY <1>7, <2>2 DEF TurnOf
  <2>5. Goes(t, format, c, k, u)
    BY <2>2, <2>4, TurnGoes
  <2> QED
    BY <1>5, <2>1, <2>3, <2>5

\* ScanIsRight from what it says of the last item that matches
LEMMA RightFrom ==
  ASSUME NEW t, NEW format \in Seq(STRING), NEW c, NEW s, NEW k \in 0 .. Len(format),
         Cuts(t, format) = c, Str8__scan(t, format) = s, DOMAIN c = 0 .. Len(format),
         c[k] # NoPiece, \A i \in k + 1 .. Len(format) : c[i] = NoPiece,
         c[k] <= s.p, s.p <= End(t),
         Trimmed(PieceOf(t, c[k], s.p)) \in {<<>>, <<"-">>},
         s.p > c[k] => k < Len(format) /\ format[k + 1] \in Numbers,
         \A h \in 1 .. k : ReadIs(t, format, c, s.read, h),
         \A i \in Seen(format, k) + 1 .. Len(s.read) : ~s.read[i].ok
  PROVE  ScanIsRight(t, format)
<1>1. Len(format) \in Nat /\ k \in Nat
  OBVIOUS
<1>2. Max({i \in DOMAIN c : c[i] # NoPiece}) = k
  <2> DEFINE T == {i \in DOMAIN c : c[i] # NoPiece}
  <2>1. T \subseteq 0 .. Len(format) /\ k \in T
    OBVIOUS
  <2>2. ASSUME NEW y \in T PROVE y <= k
    <3>1. y \notin k + 1 .. Len(format)
      OBVIOUS
    <3> QED
      BY <1>1, <2>1, <3>1
  <2> HIDE DEF T
  <2>3. Max(T) = k
    BY <1>1, <2>1, <2>2, MaxIs
  <2> QED
    BY <2>3 DEF T
<1>3. ReadsAre(t, format, c, k, s.read)
  BY ReadsAreIs
<1> QED
  BY <1>2, <1>3, Zenon DEF ScanIsRight, PieceOf

LEMMA ScanReads ==
  ASSUME NEW t, IsLine(t), NEW format \in Seq(STRING)
  PROVE  ScanIsRight(t, format)
<1>1. PICK c : /\ Cuts(t, format) = c /\ DOMAIN c = 0 .. Len(format) /\ c[0] = 0
               /\ \A i \in 1 .. Len(format) : c[i] = Cut(t, c[i - 1], format[i])
  BY CutsAre
<1>2. PICK s : s = Str8__scan(t, format)
  OBVIOUS
<1>3. IsScan(t, s) /\ Goes(t, format, c, Len(format), s)
  BY <1>1, <1>2, ScanGoes
<1>4. /\ End(t) \in Nat /\ s.p \in 0 .. End(t) /\ s.p \in Nat /\ s.p <= End(t) /\ Len(format) \in Nat
      /\ s.read \in Seq(Matches(t)) /\ Len(s.read) \in Nat /\ Seen(format, Len(format)) \in Nat
  <2>1. /\ Len(format) \in Nat /\ s.p \in 0 .. End(t) /\ s.read \in Seq(Matches(t))
    BY <1>3 DEF IsScan
  <2>2. End(t) \in Nat
    BY LineFacts
  <2>3. Len(s.read) \in Nat
    BY <2>1
  <2>4. \A j \in 0 .. Len(format) : Seen(format, j) \in Nat
    BY <2>1, SeenIs
  <2>5. Len(format) \in 0 .. Len(format)
    BY <2>1
  <2>6. Seen(format, Len(format)) \in Nat
    BY <2>4, <2>5
  <2>7. s.p \in Nat /\ s.p <= End(t)
    BY <2>1, <2>2
  <2> QED
    BY <2>1, <2>2, <2>3, <2>6, <2>7
<1>5. CASE Running(t, format, c, Len(format), s) \/ AtEnd(t, format, c, Len(format), s)
  <2>1. /\ c[Len(format)] = s.p /\ Len(s.read) <= Seen(format, Len(format))
        /\ \A h \in 1 .. Len(format) : ReadIs(t, format, c, s.read, h)
    BY <1>4, <1>5 DEF Running, AtEnd
  <2>2. PICK k \in Nat : k = Len(format) /\ k \in 0 .. Len(format)
    BY <1>4
  <2>3. /\ c[k] # NoPiece /\ \A i \in k + 1 .. Len(format) : c[i] = NoPiece
        /\ c[k] <= s.p /\ ~ (s.p > c[k])
    BY <1>4, <2>1, <2>2 DEF NoPiece
  <2>4. Trimmed(PieceOf(t, c[k], s.p)) = <<>>
    BY <1>4, <2>1, <2>2, NothingTrimmed
  <2>5. Seen(format, k) + 1 .. Len(s.read) = {}
    BY <1>4, <2>1, <2>2
  <2>6. /\ Cuts(t, format) = c /\ Str8__scan(t, format) = s /\ s.p <= End(t)
        /\ Trimmed(PieceOf(t, c[k], s.p)) \in {<<>>, <<"-">>}
        /\ s.p > c[k] => k < Len(format) /\ format[k + 1] \in Numbers
        /\ \A h \in 1 .. k : ReadIs(t, format, c, s.read, h)
        /\ \A i \in Seen(format, k) + 1 .. Len(s.read) : ~s.read[i].ok
    BY <1>1, <1>2, <1>4, <2>1, <2>2, <2>3, <2>4, <2>5
  <2> QED
    BY <1>1, <2>2, <2>3, <2>6, RightFrom, Zenon
<1>6. CASE \E k \in 0 .. Len(format) - 1 : Failed(t, format, c, Len(format), s, k)
  <2>1. PICK k \in 0 .. Len(format) - 1 : Failed(t, format, c, Len(format), s, k)
    BY <1>6
  <2>2. k \in 0 .. Len(format) /\ k < Len(format)
    BY <1>4
  <2>3. /\ c[k] # NoPiece /\ \A i \in k + 1 .. Len(format) : c[i] = NoPiece
        /\ c[k] <= s.p /\ Trimmed(PieceOf(t, c[k], s.p)) \in {<<>>, <<"-">>}
        /\ s.p > c[k] => format[k + 1] \in Numbers
        /\ \A h \in 1 .. k : ReadIs(t, format, c, s.read, h)
        /\ \A i \in Seen(format, k) + 1 .. Len(s.read) : ~s.read[i].ok
    BY <1>4, <2>1 DEF Failed, NoPiece
  <2>4. /\ Cuts(t, format) = c /\ Str8__scan(t, format) = s /\ s.p <= End(t)
        /\ s.p > c[k] => k < Len(format) /\ format[k + 1] \in Numbers
    BY <1>1, <1>2, <1>4, <2>2, <2>3
  <2> QED
    BY <1>1, <2>2, <2>3, <2>4, RightFrom, Zenon
<1> QED
  BY <1>3, <1>5, <1>6 DEF Goes

-----------------------------------------------------------------------------
(* Scans of the program's strings *)

LEMMA ScanMeans == StringInv => ScanMatches
<1> SUFFICES ASSUME StringInv, NEW n \in Used, NEW format \in Formats
             PROVE  ScanIsRight(Input(view[n]), format)
  BY Zenon DEF ScanMatches
<1>1. n \in Names /\ view[n] \in Views /\ view[n].at # NULL /\ Held(view[n]) /\ MemoryInv
  BY DEF Used, StringInv
<1>2. PICK s : s = Str8__init(view[n])
  OBVIOUS
<1>3. s \in Views /\ s.at # NULL /\ InMemory(s)
  BY <1>1, <1>2, InitFacts DEF Held
<1>4. PICK t : t = Input(view[n])
  OBVIOUS
<1>5. t = Append(Spelled(s.at, s.len), mem[s.at + s.len])
  BY <1>2, <1>4 DEF Input, Text, Behind
<1>6. /\ IsInput(t) /\ End(t) = s.len
      /\ \A i \in 1 .. s.len : t[i] = mem[s.at + i - 1]
  BY <1>1, <1>3, <1>5, InputFacts
<1>7. IsLine(t)
  <2>1. ASSUME NEW i \in 1 .. s.len PROVE t[i] # "NUL"
    <3>1. s.at \in Nat /\ s.len \in Nat
      BY <1>1, <1>3, InMemoryFacts
    <3>2. s.at + i - 1 \in s.at .. s.at + s.len - 1
      BY <3>1
    <3> QED
      BY <1>3, <1>6, <3>2 DEF InMemory
  <2> QED
    BY <1>6, <2>1 DEF IsLine
<1> QED
  BY <1>4, <1>7, ScanReads, StringFormats

\* A scan of any Str8 that a careful program can come to takes, for every item of any
\* format, the longest piece there is for it, and gives out views of those pieces.
THEOREM StringScans ==
  ASSUME Careful
  PROVE  Spec => []ScanMatches
<1>1. StringInv /\ [Next]_vars => StringInv'
  BY StringStep
<1> QED
  BY <1>1, StringInit, ScanMeans, PTL DEF Spec

-----------------------------------------------------------------------------
(* The parser of Json *)

\* The loop that joins sequences of characters yields one.  It is a recursive function,
\* so that it exists is shown first, by the least length for which none does; then the
\* least place where it yields something else.
LEMMA FlattenDef ==
  ASSUME NEW S, NEW q \in Seq(Seq(S))
  PROVE  \E f : /\ \A i \in 1 .. Len(q) :
                      /\ f[i] \in Seq(S)
                      /\ f[i] = IF i = 1 THEN q[i] ELSE f[i - 1] \o q[i]
               /\ FlattenSeq(q) = IF Len(q) = 0 THEN <<>> ELSE f[Len(q)]
<1> DEFINE n == Len(q)
           F(k, h) == [i \in 1 .. k |-> IF i = 1 THEN q[i] ELSE h[i - 1] \o q[i]]
           D == {k \in Nat : ~ \E h : h = F(k, h)}
           f == CHOOSE h : h = F(n, h)
           E == {i \in 1 .. n : f[i] \notin Seq(S)}
<1>1. n \in Nat /\ \A i \in 1 .. n : q[i] \in Seq(S)
  OBVIOUS
<1>2. \E h : h = F(n, h)
  <2>1. SUFFICES ASSUME D # {} PROVE FALSE
    BY <1>1
  <2>2. PICK k \in D : \A y \in D : k <= y
    <3>1. D \subseteq Nat
      OBVIOUS
    <3> HIDE DEF D
    <3> QED
      BY <2>1, <3>1, LeastNatural
  <2>3. k \in Nat /\ ~ \E h : h = F(k, h)
    OBVIOUS
  <2>4. k # 0
    <3> DEFINE h == [i \in 1 .. 0 |-> q[i]]
    <3>1. h = F(0, h)
      OBVIOUS
    <3> QED
      BY <2>3, <3>1
  <2>5. PICK g : g = F(k - 1, g)
    <3>1. k - 1 \in Nat /\ ~ (k <= k - 1)
      BY <2>3, <2>4
    <3>2. k - 1 \notin D
      <4> HIDE DEF D
      <4> QED
        BY <2>2, <3>1
    <3> QED
      BY <3>1, <3>2
  <2> DEFINE h == [i \in 1 .. k |-> IF i = 1 THEN q[i] ELSE g[i - 1] \o q[i]]
  <2>6. ASSUME NEW i \in 1 .. k, i # 1 PROVE h[i - 1] = g[i - 1]
    <3>1. i - 1 \in 1 .. k - 1 /\ i - 1 \in 1 .. k
      BY <2>3, <2>6
    <3>2. g[i - 1] = IF i - 1 = 1 THEN q[i - 1] ELSE g[i - 1 - 1] \o q[i - 1]
      BY <2>5, <3>1
    <3> QED
      BY <3>1, <3>2
  <2>7. h = F(k, h)
    <3>1. \A i \in 1 .. k : (IF i = 1 THEN q[i] ELSE g[i - 1] \o q[i])
                              = IF i = 1 THEN q[i] ELSE h[i - 1] \o q[i]
      <4> HIDE DEF h
      <4> QED
        BY <2>6
    <3>2. h = [i \in 1 .. k |-> IF i = 1 THEN q[i] ELSE h[i - 1] \o q[i]]
      BY <3>1
    <3> QED
      BY <3>2
  <2> QED
    BY <2>3, <2>7
<1>3. f = F(n, f)
  <2> HIDE DEF F
  <2> QED
    BY <1>2
<1>4. \A i \in 1 .. n : f[i] = IF i = 1 THEN q[i] ELSE f[i - 1] \o q[i]
  <2> HIDE DEF f
  <2>1. PICK g : g = f
    OBVIOUS
  <2>2. g = F(n, g)
    BY <1>3, <2>1, Zenon
  <2>3. \A i \in 1 .. n : g[i] = IF i = 1 THEN q[i] ELSE g[i - 1] \o q[i]
    BY <2>2
  <2> QED
    BY <2>1, <2>3
<1>5. E = {}
  <2>1. SUFFICES ASSUME E # {} PROVE FALSE
    OBVIOUS
  <2>2. PICK i \in E : \A y \in E : i <= y
    <3>1. E \subseteq 1 .. n
      <4> HIDE DEF f
      <4> QED
        OBVIOUS
    <3>2. 1 .. n \subseteq Nat
      BY <1>1
    <3> HIDE DEF E
    <3> QED
      BY <2>1, <3>1, <3>2, LeastNatural
  <2>3. i \in 1 .. n /\ f[i] \notin Seq(S)
    OBVIOUS
  <2>4. i # 1
    <3> HIDE DEF f
    <3> QED
      BY <1>1, <1>4, <2>3
  <2>5. i - 1 \in 1 .. n /\ ~ (i <= i - 1)
    BY <1>1, <2>3, <2>4
  <2>6. f[i - 1] \in Seq(S)
    <3>1. i - 1 \notin E
      <4> HIDE DEF E
      <4> QED
        BY <2>2, <2>5
    <3> HIDE DEF f
    <3> QED
      BY <2>5, <3>1
  <2>7. f[i] = f[i - 1] \o q[i] /\ q[i] \in Seq(S)
    <3> HIDE DEF f
    <3> QED
      BY <1>1, <1>4, <2>3, <2>4
  <2>8. f[i - 1] \o q[i] \in Seq(S)
    <3> HIDE DEF f
    <3> QED
      BY <2>6, <2>7, ConcatProperties
  <2> HIDE DEF f
  <2> QED
    BY <2>3, <2>7, <2>8
<1>6. FlattenSeq(q) = IF n = 0 THEN <<>> ELSE f[n]
  <2>1. CASE n = 0
    <3>1. FlattenSeq(q) = q /\ q = <<>>
      BY <2>1 DEF FlattenSeq
    <3> HIDE DEF f
    <3> QED
      BY <2>1, <3>1
  <2>2. CASE n # 0
    <3>1. FlattenSeq(q) = f[n]
      BY <2>2, Zenon DEF FlattenSeq
    <3> HIDE DEF f, n
    <3> QED
      BY <2>2, <3>1
  <2> QED
    BY <2>1, <2>2
<1>7. \A i \in 1 .. n : f[i] \in Seq(S)
  <2> HIDE DEF f
  <2> QED
    BY <1>5
<1> HIDE DEF f
<1> QED
  BY <1>4, <1>6, <1>7

\* What the loop has joined behind the first m of them
Joined(q, m) == FlattenSeq([i \in 1 .. m |-> q[i]])

LEMMA JoinedFacts ==
  ASSUME NEW S, NEW q \in Seq(Seq(S))
  PROVE  /\ Joined(q, 0) = <<>>
         /\ \A m \in 1 .. Len(q) : Joined(q, m) = Joined(q, m - 1) \o q[m]
         /\ \A m \in 0 .. Len(q) : Joined(q, m) \in Seq(S)
         /\ Joined(q, Len(q)) = FlattenSeq(q)
<1> DEFINE Taken(m) == [i \in 1 .. m |-> q[i]]
           Is(f, m) == \A i \in 1 .. m : /\ f[i] \in Seq(S)
                                         /\ f[i] = IF i = 1 THEN q[i] ELSE f[i - 1] \o q[i]
           Gives(f, m) == Joined(q, m) = IF m = 0 THEN <<>> ELSE f[m]
<1>1. ASSUME NEW m \in 0 .. Len(q)
      PROVE  \E f : Is(f, m) /\ Gives(f, m)
  <2>1. Len(q) \in Nat /\ \A i \in 1 .. Len(q) : q[i] \in Seq(S)
    BY ElementOfSeq
  <2>2. Taken(m) \in Seq(Seq(S)) /\ Len(Taken(m)) = m
    <3>1. \A i \in 1 .. m : Taken(m)[i] \in Seq(S)
      BY <2>1
    <3>2. m \in Nat
      BY <2>1
    <3> QED
      BY <3>1, <3>2, IsASeq
  <2>3. \A i \in 1 .. m : Taken(m)[i] = q[i]
    OBVIOUS
  <2>4. Joined(q, m) = FlattenSeq(Taken(m))
    BY DEF Joined
  <2> HIDE DEF Taken
  <2>5. PICK f : /\ \A i \in 1 .. Len(Taken(m)) :
                     /\ f[i] \in Seq(S)
                     /\ f[i] = IF i = 1 THEN Taken(m)[i] ELSE f[i - 1] \o Taken(m)[i]
                 /\ FlattenSeq(Taken(m)) = IF Len(Taken(m)) = 0 THEN <<>> ELSE f[Len(Taken(m))]
    BY <2>2, FlattenDef
  <2>6. Is(f, m)
    BY <2>2, <2>3, <2>5
  <2>7. Gives(f, m)
    BY <2>2, <2>4, <2>5
  <2> QED
    BY <2>6, <2>7
<1>2. ASSUME NEW m \in 0 .. Len(q), NEW n \in 0 .. Len(q), m <= n,
             NEW f, NEW g, Is(f, m), Is(g, n)
      PROVE  \A i \in 1 .. m : f[i] = g[i]
  <2> DEFINE E == {i \in 1 .. m : f[i] # g[i]}
  <2>1. SUFFICES ASSUME E # {} PROVE FALSE
    OBVIOUS
  <2>2. E \subseteq Nat
    OBVIOUS
  <2>3. PICK i \in E : \A y \in E : i <= y
    <3> HIDE DEF E
    <3> QED
      BY <2>1, <2>2, LeastNatural
  <2>4. i \in 1 .. m /\ i \in 1 .. n /\ f[i] # g[i]
    BY <1>2
  <2>5. i # 1
    BY <1>2, <2>4
  <2>6. i - 1 \in 1 .. m /\ ~ (i <= i - 1)
    BY <2>4, <2>5
  <2>7. f[i - 1] = g[i - 1]
    <3>1. i - 1 \notin E
      <4> HIDE DEF E
      <4> QED
        BY <2>3, <2>6
    <3> QED
      BY <2>6, <3>1
  <2> QED
    BY <1>2, <2>4, <2>5, <2>7
<1>3. Len(q) \in Nat
  OBVIOUS
<1>4. Joined(q, 0) = <<>>
  BY <1>1, <1>3
<1>5. ASSUME NEW m \in 0 .. Len(q) PROVE Joined(q, m) \in Seq(S)
  <2>1. PICK f : Is(f, m) /\ Gives(f, m)
    BY <1>1
  <2>2. CASE m = 0
    <3>1. <<>> \in Seq(S)
      OBVIOUS
    <3> QED
      BY <1>4, <2>2, <3>1, Zenon
  <2>3. CASE m # 0
    <3>1. m \in 1 .. m
      BY <1>3, <2>3
    <3> QED
      BY <2>1, <2>3, <3>1
  <2> QED
    BY <2>2, <2>3
<1>6. ASSUME NEW m \in 1 .. Len(q) PROVE Joined(q, m) = Joined(q, m - 1) \o q[m]
  <2>1. m \in 0 .. Len(q) /\ m - 1 \in 0 .. Len(q) /\ m \in 1 .. m /\ m # 0 /\ m - 1 <= m
    BY <1>3
  <2>2. PICK g : Is(g, m) /\ Gives(g, m)
    BY <1>1, <2>1
  <2>3. PICK f : Is(f, m - 1) /\ Gives(f, m - 1)
    BY <1>1, <2>1
  <2>4. \A i \in 1 .. m - 1 : f[i] = g[i]
    <3> DEFINE l == m - 1
    <3>1. l \in 0 .. Len(q) /\ m \in 0 .. Len(q) /\ l <= m /\ Is(f, l) /\ Is(g, m)
      BY <2>1, <2>2, <2>3
    <3> HIDE DEF Is, l
    <3>2. \A i \in 1 .. l : f[i] = g[i]
      BY <1>2, <3>1
    <3> QED
      BY <3>2 DEF l
  <2>5. CASE m = 1
    <3>1. g[m] = q[m] /\ Joined(q, m) = g[m]
      BY <2>1, <2>2, <2>5
    <3>2. Joined(q, m - 1) = <<>>
      BY <1>4, <2>5
    <3>3. q[m] \in Seq(S)
      BY ElementOfSeq
    <3>4. <<>> \o q[m] = q[m]
      BY <3>3, ConcatEmptySeq
    <3> QED
      BY <3>1, <3>2, <3>4
  <2>6. CASE m # 1
    <3>1. g[m] = g[m - 1] \o q[m] /\ Joined(q, m) = g[m]
      BY <2>1, <2>2, <2>6
    <3>2. m - 1 \in 1 .. m - 1 /\ m - 1 # 0
      BY <1>3, <2>6
    <3>3. Joined(q, m - 1) = f[m - 1] /\ f[m - 1] = g[m - 1]
      BY <2>3, <2>4, <3>2
    <3> QED
      BY <3>1, <3>3
  <2> QED
    BY <2>5, <2>6
<1>7. Joined(q, Len(q)) = FlattenSeq(q)
  <2>1. Taken(Len(q)) = q
    OBVIOUS
  <2> QED
    BY <2>1 DEF Joined
<1> HIDE DEF Is, Gives, Taken
<1> QED
  BY <1>4, <1>5, <1>6, <1>7

LEMMA FlattenIsSeq ==
  ASSUME NEW S, NEW q \in Seq(Seq(S))
  PROVE  FlattenSeq(q) \in Seq(S)
<1>1. Len(q) \in 0 .. Len(q)
  OBVIOUS
<1> QED
  BY <1>1, JoinedFacts

-----------------------------------------------------------------------------
(* Places of the text *)

\* There is a first place from c on that is not in Z, or z.
LEMMA FirstPlace ==
  ASSUME NEW c \in Nat, NEW z \in Nat, c <= z, NEW Z
  PROVE  \E k \in c .. z : (k = z \/ k \notin Z) /\ \A i \in c .. k - 1 : i \in Z
<1> DEFINE T == {k \in c .. z : k = z \/ k \notin Z}
<1>1. T \subseteq Nat /\ z \in T
  OBVIOUS
<1>2. PICK k \in T : \A y \in T : k <= y
  <2> HIDE DEF T
  <2> QED
    BY <1>1, LeastNatural
<1>3. ASSUME NEW i \in c .. k - 1 PROVE i \in Z
  <2>1. i \in c .. z /\ ~ (k <= i)
    BY <1>2
  <2>2. i \notin T
    <3> HIDE DEF T
    <3> QED
      BY <1>2, <2>1
  <2> QED
    BY <2>1, <2>2
<1> QED
  BY <1>2, <1>3

\* The text of a document is a sequence of characters.
TextOK == DocText \in Seq(STRING) /\ Size \in Nat /\ Size = Len(DocText)

LEMMA TextIsText ==
  ASSUME doc \in Docs
  PROVE  TextOK
<1> DEFINE q == [i \in DOMAIN doc |-> doc[i].text]
<1>1. doc \in Seq([kind : STRING, text : Seq(STRING), value : Seq(STRING)])
  BY JsonDocs
<1>2. q \in Seq(Seq(STRING))
  <2>1. DOMAIN doc = 1 .. Len(doc) /\ Len(doc) \in Nat
    BY <1>1
  <2>2. \A i \in 1 .. Len(doc) : doc[i].text \in Seq(STRING)
    <3>1. \A i \in 1 .. Len(doc) :
            doc[i] \in [kind : STRING, text : Seq(STRING), value : Seq(STRING)]
      BY <1>1, ElementOfSeq
    <3> QED
      BY <3>1
  <2>3. q = [i \in 1 .. Len(doc) |-> doc[i].text]
    BY <2>1
  <2>4. \A i \in 1 .. Len(doc) : q[i] \in Seq(STRING)
    BY <2>2, <2>3
  <2> HIDE DEF q
  <2> QED
    BY <2>1, <2>3, <2>4, IsASeq
<1>3. DocText = FlattenSeq(q)
  BY DEF DocText
<1>4. FlattenSeq(q) \in Seq(STRING)
  <2> HIDE DEF q
  <2> QED
    BY <1>2, FlattenIsSeq
<1> HIDE DEF q
<1> QED
  BY <1>3, <1>4 DEF TextOK, Size

\* The places a token ends at: none is before the place the search begins at, and none
\* behind the end of the text.
LEMMA SkipFacts ==
  ASSUME TextOK, NEW c \in Nat, c <= Size
  PROVE  /\ _Json__skip_whitespace(c) \in c .. Size
         /\ \/ _Json__skip_whitespace(c) = Size
            \/ ~(CharAt(_Json__skip_whitespace(c)) = Blank)
         /\ \A i \in c .. _Json__skip_whitespace(c) - 1 : CharAt(i) = Blank
<1> DEFINE Z == {i \in Nat : CharAt(i) = Blank}
           P(k) == (k = Size \/ ~(CharAt(k) = Blank)) /\ \A i \in c .. k - 1 : CharAt(i) = Blank
<1>1. \E k \in c .. Size : P(k)
  <2>1. PICK k \in c .. Size : (k = Size \/ k \notin Z) /\ \A i \in c .. k - 1 : i \in Z
    <3> HIDE DEF Z
    <3> QED
      BY FirstPlace DEF TextOK
  <2>2. k \in Nat
    BY <2>1 DEF TextOK
  <2> QED
    BY <2>1, <2>2
<1>2. _Json__skip_whitespace(c) = CHOOSE k \in c .. Size : P(k)
  BY DEF _Json__skip_whitespace, Until
<1>3. _Json__skip_whitespace(c) \in c .. Size /\ P(_Json__skip_whitespace(c))
  <2> HIDE DEF P
  <2> QED
    BY <1>1, <1>2
<1> QED
  BY <1>3

\* The longest number at c is one, and inside the text.
LEMMA NumeralFacts ==
  ASSUME TextOK, NEW c \in Nat, c <= Size
  PROVE  /\ NumeralAt(DocText, c) \in 0 .. Size - c
         /\ NumeralAt(DocText, c) # 0 => IsNumeral(Part(c, NumeralAt(DocText, c)))
<1> DEFINE T == {0} \cup {n \in 1 .. Size - c : IsNumeral(Part(c, n))}
<1>1. Size - c \in Nat /\ T \subseteq 0 .. Size - c /\ T # {}
  BY DEF TextOK
<1>2. Max(T) \in T
  <2> HIDE DEF T
  <2> QED
    BY <1>1, MaxFacts
<1>3. NumeralAt(DocText, c) = Max(T)
  BY Zenon DEF NumeralAt, Part, Size
<1>4. Max(T) \in 0 .. Size - c /\ (Max(T) # 0 => IsNumeral(Part(c, Max(T))))
  <2>1. \A n \in T : n \in 0 .. Size - c /\ (n # 0 => IsNumeral(Part(c, n)))
    BY <1>1
  <2> HIDE DEF T
  <2> QED
    BY <1>2, <2>1
<1> HIDE DEF T
<1> QED
  BY <1>3, <1>4

LEMMA StrtodFacts ==
  ASSUME TextOK, NEW c \in Nat, c < Size
  PROVE  strtod(c) \in c .. Size
<1>1. NumeralAt(DocText, c) \in 0 .. Size - c
  BY NumeralFacts DEF TextOK
<1> QED
  BY <1>1 DEF strtod, TextOK

LEMMA SymbolStops ==
  ASSUME TextOK, NEW c \in Nat, c <= Size, NEW symbol
  PROVE  \E k \in c .. Size :
           /\ k = Size \/ ~(k - c < Len(symbol) /\ CharAt(k) = symbol[k - c + 1])
           /\ \A i \in c .. k - 1 : i - c < Len(symbol) /\ CharAt(i) = symbol[i - c + 1]
           /\ SymbolRead(c, symbol) = IF k < Size /\ k - c < Len(symbol) THEN k - c + 1 ELSE k - c
<1> DEFINE Z == {i \in Nat : i - c < Len(symbol) /\ CharAt(i) = symbol[i - c + 1]}
           P(k) == (k = Size \/ ~(k - c < Len(symbol) /\ CharAt(k) = symbol[k - c + 1]))
                   /\ \A i \in c .. k - 1 : i - c < Len(symbol) /\ CharAt(i) = symbol[i - c + 1]
<1>1. \E k \in c .. Size : P(k)
  <2>1. PICK k \in c .. Size : (k = Size \/ k \notin Z) /\ \A i \in c .. k - 1 : i \in Z
    <3> HIDE DEF Z
    <3> QED
      BY FirstPlace DEF TextOK
  <2>2. k \in Nat
    BY <2>1 DEF TextOK
  <2> QED
    BY <2>1, <2>2
<1> DEFINE k == CHOOSE k \in c .. Size : P(k)
<1>2. SymbolRead(c, symbol) = IF k < Size /\ k - c < Len(symbol) THEN k - c + 1 ELSE k - c
  BY DEF SymbolRead, Until
<1>3. k \in c .. Size /\ P(k)
  <2> HIDE DEF P
  <2> QED
    BY <1>1
<1> HIDE DEF k
<1> QED
  BY <1>2, <1>3

LEMMA SymbolFacts ==
  ASSUME TextOK, NEW c \in Nat, c <= Size, NEW symbol
  PROVE  c + SymbolRead(c, symbol) \in c .. Size
<1>1. PICK k \in c .. Size :
        SymbolRead(c, symbol) = IF k < Size /\ k - c < Len(symbol) THEN k - c + 1 ELSE k - c
  BY SymbolStops
<1> QED
  BY <1>1 DEF TextOK

\* Where the lexer finds the closing quote
StringEnd(c) ==
  LET InString(i) == CharAt(i) # Quote IN Until(c, InString)

\* There is no quote before the end of a string.
LEMMA StringEndFacts ==
  ASSUME TextOK, NEW c \in Nat, c <= Size
  PROVE  /\ StringEnd(c) \in c .. Size
         /\ StringEnd(c) = Size \/ CharAt(StringEnd(c)) = Quote
         /\ \A i \in c .. StringEnd(c) - 1 : CharAt(i) # Quote
<1> DEFINE Z == {i \in Nat : CharAt(i) # Quote}
           P(k) == (k = Size \/ ~(CharAt(k) # Quote)) /\ \A i \in c .. k - 1 : CharAt(i) # Quote
<1>1. \E k \in c .. Size : P(k)
  <2>1. PICK k \in c .. Size : (k = Size \/ k \notin Z) /\ \A i \in c .. k - 1 : i \in Z
    <3> HIDE DEF Z
    <3> QED
      BY FirstPlace DEF TextOK
  <2>2. k \in Nat
    BY <2>1 DEF TextOK
  <2> QED
    BY <2>1, <2>2
<1>2. StringEnd(c) = CHOOSE k \in c .. Size : P(k)
  BY DEF StringEnd, Until
<1>3. StringEnd(c) \in c .. Size /\ P(StringEnd(c))
  <2> HIDE DEF P
  <2> QED
    BY <1>1, <1>2
<1> QED
  BY <1>3

-----------------------------------------------------------------------------
(* One token *)

\* What a read token promises; StaysInText says it of the last one.
StrOK(s) == s \in [at : Nat, len : Nat] /\ s.at + s.len <= Size

NoQuote(s) == Quote \notin Range(Part(s.at, s.len))

TokenOK(t) ==
  /\ t.cur \in 0 .. Size /\ t.start \in 0 .. Size
  /\ t.token \in Tokens
  /\ t.ok \in BOOLEAN
  /\ StrOK(t.str)
  /\ t.token = "STRING" => NoQuote(t.str)

\* Got of _Json__next_token
Lexed(tok, b, e, v) == [ok |-> tok \notin {"EOF", "INVALID"}, token |-> tok,
                        start |-> b, cur |-> e, str |-> v]

LEMMA LexedFacts ==
  ASSUME TextOK, NEW tok \in Tokens, NEW b \in 0 .. Size, NEW e \in 0 .. Size,
         NEW v, StrOK(v), tok = "STRING" => NoQuote(v)
  PROVE  TokenOK(Lexed(tok, b, e, v))
<1> DEFINE t == Lexed(tok, b, e, v)
<1>1. t.token = tok /\ t.start = b /\ t.cur = e /\ t.str = v
  BY DEF Lexed
<1>2. t.ok \in BOOLEAN
  BY Zenon DEF Lexed
<1> HIDE DEF t
<1>3. TokenOK(t)
  BY <1>1, <1>2 DEF TokenOK
<1> QED
  BY <1>3 DEF t

LEMMA NoQuoteFacts ==
  ASSUME TextOK, NEW b \in Nat, NEW e \in b .. Size,
         \A i \in b .. e - 1 : CharAt(i) # Quote
  PROVE  NoQuote([at |-> b, len |-> e - b])
<1>1. Part(b, e - b) = [i \in 1 .. e - b |-> DocText[b + i]]
  <2>1. Part(b, e - b) = SubSeq(DocText, b + 1, b + (e - b))
    BY DEF Part
  <2>2. b + 1 \in Nat /\ b + (e - b) = e /\ e \in Nat /\ e - (b + 1) + 1 = e - b
    BY DEF TextOK
  <2>3. SubSeq(DocText, b + 1, e) = [i \in 1 .. e - b |-> DocText[b + i]]
    <3>1. SubSeq(DocText, b + 1, e)
            = [i \in 1 .. (1 + e - (b + 1)) |-> DocText[i + (b + 1) - 1]]
      BY <2>2
    <3>2. 1 + e - (b + 1) = e - b
      BY <2>2
    <3>3. \A i \in 1 .. e - b : i + (b + 1) - 1 = b + i
      BY <2>2
    <3> QED
      BY <3>1, <3>2, <3>3
  <2> QED
    BY <2>1, <2>2, <2>3
<1>2. ASSUME NEW i \in 1 .. e - b PROVE DocText[b + i] # Quote
  <2>1. b + i - 1 \in b .. e - 1 /\ b + i - 1 < Size /\ b + i - 1 + 1 = b + i
    BY DEF TextOK
  <2>2. CharAt(b + i - 1) = DocText[b + i - 1 + 1]
    BY <2>1 DEF CharAt
  <2> QED
    BY <2>1, <2>2
<1>3. Quote \notin Range(Part(b, e - b))
  BY <1>1, <1>2 DEF Range
<1> QED
  BY <1>3 DEF NoQuote

\* Wherever in the text it begins, the lexer stays inside it, one case per kind of token.
LEMMA NextTokenFacts ==
  ASSUME TextOK, NEW c \in 0 .. Size, NEW s, StrOK(s)
  PROVE  TokenOK(_Json__next_token(c, s))
<1> DEFINE t == _Json__next_token(c, s)
           b == _Json__skip_whitespace(c)
           x == CharAt(b)
           named == {a \in DOMAIN _JSON__SYMBOLS_IN : _JSON__SYMBOLS_IN[a][1] = x}
           a == CHOOSE a \in named : TRUE
           n == SymbolRead(b, _JSON__SYMBOLS_IN[a])
           e == StringEnd(b + 1)
           v == [at |-> b + 1, len |-> e - b - 1]
<1>1. b \in 0 .. Size
  <2>1. b \in c .. Size
    BY SkipFacts DEF TextOK
  <2> QED
    BY <2>1 DEF TextOK
<1>2. t = IF b >= Size THEN Lexed("EOF", b, b, s)
          ELSE IF x \in Puncts THEN Lexed(x, b, b + 1, s)
          ELSE IF named # {}
          THEN Lexed(IF n = Len(_JSON__SYMBOLS_IN[a]) THEN a ELSE "INVALID", b, b + n, s)
          ELSE IF strtod(b) # b THEN Lexed("NUMBER", b, strtod(b), s)
          ELSE IF x # Quote THEN Lexed("INVALID", b, b, s)
          ELSE IF e < Size THEN Lexed("STRING", b, e + 1, v) ELSE Lexed("INVALID", b, e, v)
  BY Zenon DEF _Json__next_token, Lexed, StringEnd
<1> SUFFICES TokenOK(t)
  OBVIOUS
<1> HIDE DEF t, b
<1>3. CASE b >= Size
  <2>1. TokenOK(Lexed("EOF", b, b, s))
    <3>1. "EOF" \in Tokens /\ "EOF" # "STRING"
      BY DEF Tokens
    <3> QED
      BY <1>1, <3>1, LexedFacts
  <2> QED
    BY <1>2, <1>3, <2>1
<1>4. CASE b < Size /\ x \in Puncts
  <2>1. TokenOK(Lexed(x, b, b + 1, s))
    <3>1. x \in Tokens /\ x # "STRING"
      BY <1>4 DEF Tokens, Puncts
    <3>2. b + 1 \in 0 .. Size
      BY <1>1, <1>4 DEF TextOK
    <3> QED
      BY <1>1, <3>1, <3>2, LexedFacts
  <2> QED
    BY <1>1, <1>2, <1>4, <2>1 DEF TextOK
<1>5. CASE b < Size /\ x \notin Puncts /\ named # {}
  <2> DEFINE k == IF n = Len(_JSON__SYMBOLS_IN[a]) THEN a ELSE "INVALID"
  <2>1. a \in named
    BY <1>5
  <2>2. a \in {"TRUE", "FALSE", "NULL"}
    BY <2>1 DEF _JSON__SYMBOLS_IN
  <2>3. k \in Tokens /\ k # "STRING"
    <3> HIDE DEF a, n
    <3> QED
      BY <2>2 DEF Tokens
  <2>4. b + n \in 0 .. Size
    <3>1. b + n \in b .. Size
      <4> HIDE DEF a
      <4> QED
        BY <1>1, <1>5, SymbolFacts DEF TextOK
    <3> HIDE DEF n
    <3> QED
      BY <1>1, <3>1 DEF TextOK
  <2>5. TokenOK(Lexed(k, b, b + n, s))
    <3> HIDE DEF k, n
    <3> QED
      BY <1>1, <2>3, <2>4, LexedFacts
  <2>6. t = Lexed(k, b, b + n, s)
    <3>1. ~ (b >= Size)
      BY <1>1, <1>5 DEF TextOK
    <3> HIDE DEF n, a, named
    <3> QED
      BY <1>2, <1>5, <3>1
  <2> QED
    BY <2>5, <2>6
<1>6. CASE b < Size /\ x \notin Puncts /\ named = {} /\ strtod(b) # b
  <2>1. TokenOK(Lexed("NUMBER", b, strtod(b), s))
    <3>1. "NUMBER" \in Tokens /\ "NUMBER" # "STRING"
      BY DEF Tokens
    <3>2. strtod(b) \in b .. Size
      BY <1>1, <1>6, StrtodFacts
    <3>3. strtod(b) \in 0 .. Size
      BY <1>1, <3>2 DEF TextOK
    <3> QED
      BY <1>1, <3>1, <3>3, LexedFacts
  <2>2. t = Lexed("NUMBER", b, strtod(b), s)
    <3>1. ~ (b >= Size)
      BY <1>1, <1>6 DEF TextOK
    <3> HIDE DEF named
    <3> QED
      BY <1>2, <1>6, <3>1
  <2> QED
    BY <2>1, <2>2
<1>7. CASE b < Size /\ x \notin Puncts /\ named = {} /\ strtod(b) = b /\ x # Quote
  <2>1. TokenOK(Lexed("INVALID", b, b, s))
    <3>1. "INVALID" \in Tokens /\ "INVALID" # "STRING"
      BY DEF Tokens
    <3> QED
      BY <1>1, <3>1, LexedFacts
  <2>2. t = Lexed("INVALID", b, b, s)
    <3>1. ~ (b >= Size)
      BY <1>1, <1>7 DEF TextOK
    <3> HIDE DEF named
    <3> QED
      BY <1>2, <1>7, <3>1
  <2> QED
    BY <2>1, <2>2
<1>8. CASE b < Size /\ x \notin Puncts /\ named = {} /\ strtod(b) = b /\ x = Quote
  <2>1. b + 1 \in Nat /\ b + 1 <= Size /\ ~ (b >= Size)
    BY <1>1, <1>8 DEF TextOK
  <2>2. e \in b + 1 .. Size /\ \A i \in b + 1 .. e - 1 : CharAt(i) # Quote
    BY <2>1, StringEndFacts
  <2> HIDE DEF e
  <2>3. NoQuote(v)
    <3>1. e - (b + 1) = e - b - 1
      BY <1>1, <2>2 DEF TextOK
    <3>2. NoQuote([at |-> b + 1, len |-> e - (b + 1)])
      BY <2>1, <2>2, NoQuoteFacts
    <3> QED
      BY <3>1, <3>2
  <2>4. StrOK(v)
    BY <1>1, <2>2 DEF StrOK, TextOK
  <2>5. "STRING" \in Tokens /\ "INVALID" \in Tokens /\ e \in 0 .. Size
    BY <2>1, <2>2 DEF Tokens, TextOK
  <2>6. t = IF e < Size THEN Lexed("STRING", b, e + 1, v) ELSE Lexed("INVALID", b, e, v)
    <3> HIDE DEF named, v
    <3> QED
      BY <1>2, <1>8, <2>1
  <2> HIDE DEF v
  <2>7. CASE e < Size
    <3>1. e + 1 \in 0 .. Size
      BY <2>5, <2>7 DEF TextOK
    <3> QED
      BY <1>1, <2>3, <2>4, <2>5, <2>6, <2>7, <3>1, LexedFacts
  <2>8. CASE ~ (e < Size)
    BY <1>1, <2>3, <2>4, <2>5, <2>6, <2>8, LexedFacts
  <2> QED
    BY <2>7, <2>8
<1>9. b < Size \/ b >= Size
  BY <1>1 DEF TextOK
<1> HIDE DEF named, x
<1> QED
  BY <1>3, <1>4, <1>5, <1>6, <1>7, <1>8, <1>9

-----------------------------------------------------------------------------
(* The calls *)

\* StaysInText is inductive with the types.
JsonInv == TypeOK /\ StaysInText

LEMMA JsonInitInv ==
  ASSUME JsonInit
  PROVE  JsonInv
<1>1. TextOK
  BY TextIsText DEF JsonInit
<1>2. TypeOK
  <2>1. ret.ok \in BOOLEAN /\ token \in Tokens
    BY DEF JsonInit, Tokens
  <2> QED
    BY <2>1 DEF JsonInit, TypeOK
<1>3. cur <= Size /\ start <= Size /\ str.at + str.len <= Size /\ token # "STRING"
  BY <1>1 DEF JsonInit, TextOK
<1> QED
  BY <1>2, <1>3 DEF JsonInv, StaysInText

LEMMA FirstFacts ==
  ASSUME JsonInv
  PROVE  TextOK /\ cur \in 0 .. Size /\ TokenOK(First)
<1>1. TextOK
  BY TextIsText DEF JsonInv, TypeOK
<1>2. cur \in 0 .. Size /\ StrOK(str)
  BY <1>1 DEF JsonInv, TypeOK, StaysInText, StrOK, TextOK
<1> QED
  BY <1>1, <1>2, NextTokenFacts DEF First

\* A key is up to three tokens.
LEMMA KeyFacts ==
  ASSUME JsonInv
  PROVE  TokenOK(Key.at) /\ Key.ok \in BOOLEAN
<1>1. ASSUME NEW t, TokenOK(t) PROVE TokenOK(After(t))
  <2>1. t.cur \in 0 .. Size /\ StrOK(t.str)
    BY <1>1 DEF TokenOK
  <2> QED
    BY <2>1, FirstFacts, NextTokenFacts DEF After
<1>2. ASSUME NEW t, TokenOK(t)
      PROVE  TokenOK(KeyFrom(t).at) /\ KeyFrom(t).ok \in BOOLEAN
  <2>1. CASE t.token # "STRING"
    BY <1>2, <2>1 DEF KeyFrom
  <2>2. CASE t.token = "STRING"
    <3> DEFINE k == [at |-> After(t), ok |-> After(t).token = ":", out |-> String(t)]
    <3>1. KeyFrom(t) = k
      BY <2>2 DEF KeyFrom
    <3>2. k.at = After(t)
      OBVIOUS
    <3>3. k.ok \in BOOLEAN
      BY Zenon
    <3> HIDE DEF k
    <3> QED
      BY <1>1, <1>2, <3>1, <3>2, <3>3
  <2> QED
    BY <2>1, <2>2
<1> QED
  BY <1>1, <1>2, FirstFacts DEF Key

\* A call leaves the parser behind a token it has read, or back where it was.
LEMMA LeftKeeps ==
  ASSUME JsonInv, NEW t, TokenOK(t), NEW c \in 0 .. Size,
         LeftAt(t, c), ret'.ok \in BOOLEAN
  PROVE  JsonInv'
<1>1. TextOK
  BY FirstFacts
<1>2. cur' = c /\ token' = t.token /\ start' = t.start /\ str' = t.str /\ doc' = doc
  BY DEF LeftAt
<1>3. DocText' = DocText
  BY <1>2 DEF DocText
<1>4. Size' = Size
  BY <1>3 DEF Size
<1>5. /\ c \in Nat /\ c <= Size
      /\ t.start \in Nat /\ t.start <= Size
      /\ t.token \in Tokens
      /\ t.str \in [at : Nat, len : Nat] /\ t.str.at + t.str.len <= Size
  BY <1>1 DEF TextOK, TokenOK, StrOK
<1>6. TypeOK'
  BY <1>2, <1>5 DEF JsonInv, TypeOK
<1>7. Part(str.at, str.len)' = Part(t.str.at, t.str.len)
  BY <1>2, <1>3 DEF Part
<1>8. (token = "STRING" => Quote \notin Range(Part(str.at, str.len)))'
  BY <1>2, <1>7 DEF TokenOK, NoQuote
<1>9. StaysInText'
  BY <1>2, <1>4, <1>5, <1>8 DEF StaysInText
<1> QED
  BY <1>6, <1>9 DEF JsonInv

LEMMA LeftBehind ==
  ASSUME JsonInv, NEW t, TokenOK(t), Left(t), ret'.ok \in BOOLEAN
  PROVE  JsonInv'
BY LeftKeeps DEF Left, TokenOK

LEMMA Returned ==
  ASSUME NEW call, NEW ok \in BOOLEAN, NEW out, Return(call, ok, out)
  PROVE  ret'.ok \in BOOLEAN
BY DEF Return

LEMMA ExpectKeeps ==
  ASSUME JsonInv, NEW call, NEW tok, NEW out, Expect(call, tok, out)
  PROVE  JsonInv'
<1>1. ret'.ok \in BOOLEAN
  <2> DEFINE ok == First.token = tok
  <2>1. ok \in BOOLEAN
    BY Zenon
  <2>2. \E o : Return(call, ok, o)
    BY Zenon DEF Expect
  <2> HIDE DEF ok
  <2> QED
    BY <2>1, <2>2, Returned
<1> QED
  BY <1>1, FirstFacts, LeftBehind DEF Expect

LEMMA JsonNextInv ==
  ASSUME JsonInv, [JsonNext]_jsonVars
  PROVE  JsonInv'
<1> USE FirstFacts
<1>1. CASE Json__bool
  <2> DEFINE S  == {"TRUE", "FALSE"}
             ok == First.token \in S
  <2>1. ok \in BOOLEAN
    <3> HIDE DEF S
    <3>1. (First.token \in S) = TRUE \/ (First.token \in S) = FALSE
      OBVIOUS
    <3> QED
      BY <3>1
  <2>2. Left(First) /\ \E o : Return("bool", ok, o)
    BY <1>1, Zenon DEF Json__bool
  <2> HIDE DEF ok
  <2> QED
    BY <2>1, <2>2, Returned, LeftBehind
<1>2. CASE Json__number
  BY <1>2, ExpectKeeps DEF Json__number
<1>3. CASE Json__string
  BY <1>3, ExpectKeeps DEF Json__string
<1>4. CASE Json__array_begin
  BY <1>4, ExpectKeeps DEF Json__array_begin
<1>5. CASE Json__array_item
  <2> DEFINE ok == First.ok /\ First.token # "]"
             c  == IF First.ok /\ First.token # "," THEN cur ELSE First.cur
  <2>1. ok \in BOOLEAN
    BY Zenon
  <2>2. LeftAt(First, c) /\ Return("array_item", ok, <<>>)
    BY <1>5 DEF Json__array_item
  <2>3. c \in 0 .. Size
    BY DEF TokenOK
  <2> HIDE DEF ok, c
  <2> QED
    BY <2>1, <2>2, <2>3, Returned, LeftKeeps
<1>6. CASE Json__array_end
  BY <1>6, ExpectKeeps DEF Json__array_end
<1>7. CASE Json__object_begin
  BY <1>7, ExpectKeeps DEF Json__object_begin
<1>8. CASE Json__object_key
  <2>1. CASE First.token = "}"
    BY <1>8, <2>1, Returned, LeftKeeps DEF Json__object_key
  <2>2. CASE First.token # "}"
    BY <1>8, <2>2, KeyFacts, Returned, LeftBehind DEF Json__object_key
  <2> QED
    BY <2>1, <2>2
<1>9. CASE Json__object_end
  BY <1>9, ExpectKeeps DEF Json__object_end
<1>10. ASSUME NEW expected \in Keys, Json__object_key_is(expected) PROVE JsonInv'
  <2> DEFINE key == [i \in 1 .. Len(expected) |-> CharAt(Key.at.str.at + i - 1)]
             ok  == Key.ok /\ key = expected
  <2>1. CASE First.token = "}"
    <3>1. LeftAt(First, cur) /\ Return("object_key_is", FALSE, expected)
      BY <1>10, <2>1 DEF Json__object_key_is
    <3> QED
      BY <3>1, Returned, LeftKeeps
  <2>2. CASE First.token # "}"
    <3>1. ok \in BOOLEAN
      BY Zenon
    <3>2. Left(Key.at) /\ Return("object_key_is", ok, expected)
      BY <1>10, <2>2 DEF Json__object_key_is
    <3> HIDE DEF ok
    <3> QED
      BY <3>1, <3>2, KeyFacts, Returned, LeftBehind
  <2> QED
    BY <2>1, <2>2
<1>11. CASE Json__any
  <2>1. First.ok \in BOOLEAN
    BY DEF TokenOK
  <2> QED
    BY <1>11, <2>1, Returned, LeftBehind DEF Json__any
<1>12. CASE UNCHANGED jsonVars
  <2>1. /\ doc' = doc /\ cur' = cur /\ token' = token /\ start' = start
        /\ str' = str /\ ret' = ret
    BY <1>12 DEF jsonVars
  <2>2. DocText' = DocText
    BY <2>1 DEF DocText
  <2>3. Size' = Size /\ Part(str.at, str.len)' = Part(str.at, str.len)
    BY <2>1, <2>2 DEF Size, Part
  <2> QED
    BY <2>1, <2>3 DEF JsonInv, TypeOK, StaysInText
<1> QED
  BY <1>1, <1>2, <1>3, <1>4, <1>5, <1>6, <1>7, <1>8, <1>9, <1>10, <1>11, <1>12, Zenon
  DEF JsonNext

\* Whatever calls are made in whatever order, on whatever text, the cursor, the start of
\* the token and the slice given out stay inside the document (Json.c:124-211), and no
\* string given out runs over its closing quote (Json.c:183-205).
THEOREM JsonSafety ==
  JsonSpec => [](TypeOK /\ StaysInText)
<1>1. JsonInit => JsonInv
  BY JsonInitInv
<1>2. JsonInv /\ [JsonNext]_jsonVars => JsonInv'
  BY JsonNextInv
<1>3. JsonInv => TypeOK /\ StaysInText
  BY DEF JsonInv
<1> QED
  BY <1>1, <1>2, <1>3, PTL DEF JsonSpec

-----------------------------------------------------------------------------
(* Lexemes and the text they join to *)

\* Kept closed where a, b and c are long terms.
Regrouped(a, b, c) == (a \o b) \o c = a \o (b \o c)

LEMMA Regroup ==
  ASSUME NEW S, NEW a \in Seq(S), NEW b \in Seq(S), NEW c \in Seq(S)
  PROVE  Regrouped(a, b, c)
BY DEF Regrouped

\* Taking out the first part that is not empty leaves what the others join to.
LEMMA JoinedWithout ==
  ASSUME NEW S, NEW p \in Seq(Seq(S)), NEW q \in Seq(Seq(S)), Len(p) = Len(q),
         NEW k \in 1 .. Len(q), q[k] = <<>>,
         \A i \in 1 .. Len(q) : i < k => p[i] = <<>> /\ q[i] = <<>>,
         \A i \in 1 .. Len(q) : i > k => p[i] = q[i]
  PROVE  FlattenSeq(p) = p[k] \o FlattenSeq(q)
<1> DEFINE n == Len(q)
           Good(m) == IF m < k THEN Joined(p, m) = <<>> /\ Joined(q, m) = <<>>
                      ELSE Joined(p, m) = p[k] \o Joined(q, m)
           D == {m \in 0 .. n : ~Good(m)}
<1>1. n \in Nat /\ (\A i \in 1 .. n : p[i] \in Seq(S) /\ q[i] \in Seq(S)) /\ <<>> \in Seq(S)
  BY ElementOfSeq
<1>2. /\ Joined(p, 0) = <<>> /\ Joined(q, 0) = <<>>
      /\ \A m \in 1 .. n : Joined(p, m) = Joined(p, m - 1) \o p[m]
      /\ \A m \in 1 .. n : Joined(q, m) = Joined(q, m - 1) \o q[m]
      /\ \A m \in 0 .. n : Joined(p, m) \in Seq(S) /\ Joined(q, m) \in Seq(S)
      /\ Joined(p, n) = FlattenSeq(p) /\ Joined(q, n) = FlattenSeq(q)
  BY JoinedFacts
<1>3. D = {}
  <2>1. SUFFICES ASSUME D # {} PROVE FALSE
    OBVIOUS
  <2>2. PICK m \in D : \A y \in D : m <= y
    <3>1. D \subseteq Nat
      OBVIOUS
    <3> HIDE DEF D
    <3> QED
      BY <2>1, <3>1, LeastNatural
  <2>3. m \in 0 .. n /\ ~Good(m)
    OBVIOUS
  <2>4. m # 0
    BY <1>2, <2>3
  <2>5. m - 1 \in 0 .. n /\ ~ (m <= m - 1) /\ m \in 1 .. n
    BY <1>1, <2>3, <2>4
  <2>6. Good(m - 1)
    <3>1. m - 1 \notin D
      <4> HIDE DEF D
      <4> QED
        BY <2>2, <2>5
    <3> QED
      BY <2>5, <3>1
  <2>7. Joined(p, m) = Joined(p, m - 1) \o p[m] /\ Joined(q, m) = Joined(q, m - 1) \o q[m]
    BY <1>2, <2>5
  <2>8. CASE m < k
    <3>1. Joined(p, m - 1) = <<>> /\ Joined(q, m - 1) = <<>>
      <4>1. m - 1 < k
        BY <1>1, <2>5, <2>8
      <4> QED
        BY <2>6, <4>1
    <3>2. p[m] = <<>> /\ q[m] = <<>>
      BY <2>5, <2>8
    <3>3. Joined(p, m) = <<>> /\ Joined(q, m) = <<>>
      BY <1>1, <2>7, <3>1, <3>2, ConcatEmptySeq
    <3> QED
      BY <2>3, <2>8, <3>3
  <2>9. CASE m = k
    <3>1. Joined(p, m - 1) = <<>> /\ Joined(q, m - 1) = <<>>
      <4>1. m - 1 < k
        BY <1>1, <2>5, <2>9
      <4> QED
        BY <2>6, <4>1
    <3>2. Joined(p, m) = p[k] /\ Joined(q, m) = <<>>
      BY <1>1, <2>5, <2>7, <2>9, <3>1, ConcatEmptySeq
    <3>3. p[k] = p[k] \o <<>>
      BY <1>1, ConcatEmptySeq
    <3> QED
      BY <1>1, <2>3, <2>9, <3>2, <3>3
  <2>10. CASE m > k
    <3>1. Joined(p, m - 1) = p[k] \o Joined(q, m - 1)
      <4>1. ~ (m - 1 < k)
        BY <1>1, <2>5, <2>10
      <4> QED
        BY <2>6, <4>1
    <3>2. p[m] = q[m]
      BY <2>5, <2>10
    <3>3. (p[k] \o Joined(q, m - 1)) \o q[m] = p[k] \o (Joined(q, m - 1) \o q[m])
      <4>1. Joined(q, m - 1) \in Seq(S) /\ q[m] \in Seq(S) /\ p[k] \in Seq(S)
        BY <1>1, <1>2, <2>5
      <4>2. Regrouped(p[k], Joined(q, m - 1), q[m])
        BY <4>1, Regroup
      <4> QED
        BY <4>2, Zenon DEF Regrouped
    <3>4. Joined(p, m) = p[k] \o Joined(q, m)
      BY <2>7, <3>1, <3>2, <3>3
    <3> QED
      BY <1>1, <2>3, <2>5, <2>10, <3>4
  <2> QED
    BY <1>1, <2>5, <2>8, <2>9, <2>10
<1>4. Good(n)
  <2>1. n \in 0 .. n /\ n \notin D
    <3> HIDE DEF D
    <3> QED
      BY <1>1, <1>3
  <2> QED
    BY <2>1
<1>5. ~ (n < k)
  BY <1>1
<1>6. Joined(p, n) = p[k] \o Joined(q, n)
  BY <1>4, <1>5
<1> HIDE DEF D, Good, n
<1> QED
  BY <1>2, <1>6

Parts == [i \in DOMAIN doc |-> doc[i].text]

\* What JsonDocs says of a document, and of the texts of its lexemes.
LEMMA DocFacts ==
  ASSUME doc \in Docs
  PROVE  /\ Len(doc) \in Nat /\ DOMAIN doc = 1 .. Len(doc)
         /\ \A i \in 1 .. Len(doc) : /\ doc[i].text \in Seq(STRING) /\ doc[i].value \in Seq(STRING)
                                     /\ doc[i].kind \in STRING
         /\ doc \in Seq([kind : STRING, text : Seq(STRING), value : Seq(STRING)])
         /\ Parts \in Seq(Seq(STRING)) /\ Len(Parts) = Len(doc)
         /\ \A i \in 1 .. Len(doc) : Parts[i] = doc[i].text
<1>1. doc \in Seq([kind : STRING, text : Seq(STRING), value : Seq(STRING)])
  BY JsonDocs
<1>2. Len(doc) \in Nat /\ DOMAIN doc = 1 .. Len(doc)
  BY <1>1
<1>3. \A i \in 1 .. Len(doc) :
        doc[i] \in [kind : STRING, text : Seq(STRING), value : Seq(STRING)]
  BY <1>1, ElementOfSeq
<1>4. \A i \in 1 .. Len(doc) : /\ doc[i].text \in Seq(STRING) /\ doc[i].value \in Seq(STRING)
                               /\ doc[i].kind \in STRING
  BY <1>3
<1>5. Parts = [i \in 1 .. Len(doc) |-> doc[i].text]
  BY <1>2 DEF Parts
<1>6. \A i \in 1 .. Len(doc) : Parts[i] = doc[i].text
  BY <1>5
<1>7. Parts \in Seq(Seq(STRING)) /\ Len(Parts) = Len(doc)
  <2>1. \A i \in 1 .. Len(doc) : Parts[i] \in Seq(STRING)
    BY <1>4, <1>6
  <2> QED
    BY <1>2, <1>5, <2>1, IsASeq
<1> QED
  BY <1>1, <1>2, <1>4, <1>6, <1>7

LEMMA BeginsIs ==
  ASSUME doc \in Docs, NEW i \in 1 .. Len(doc) + 1
  PROVE  Begins(i) = Len(Joined(Parts, i - 1))
<1>1. \A j \in 1 .. i - 1 : Parts[j] = doc[j].text
  BY DocFacts
<1>2. [j \in 1 .. i - 1 |-> Parts[j]] = [j \in 1 .. i - 1 |-> doc[j].text]
  BY <1>1
<1> QED
  BY <1>2 DEF Begins, Joined

\* Where a lexeme lies in the text.
LEMMA BeginsFacts ==
  ASSUME doc \in Docs
  PROVE  /\ Begins(1) = 0 /\ Begins(Len(doc) + 1) = Size
         /\ \A i \in 1 .. Len(doc) + 1 : Begins(i) \in 0 .. Size
         /\ \A i \in 1 .. Len(doc) : Begins(i + 1) = Begins(i) + Len(doc[i].text)
         /\ \A i \in 1 .. Len(doc) : \A j \in 1 .. Len(doc[i].text) :
              CharAt(Begins(i) + j - 1) = doc[i].text[j]
<1> DEFINE n == Len(doc)
           Good(m) == \A i \in 1 .. m :
                        /\ Begins(i) + Len(doc[i].text) <= Len(Joined(Parts, m))
                        /\ \A j \in 1 .. Len(doc[i].text) :
                             Joined(Parts, m)[Begins(i) + j] = doc[i].text[j]
           D == {m \in 0 .. n : ~Good(m)}
<1>1. /\ n \in Nat /\ Len(Parts) = n /\ Parts \in Seq(Seq(STRING))
      /\ \A i \in 1 .. n : doc[i].text \in Seq(STRING) /\ Parts[i] = doc[i].text
  BY DocFacts
<1>2. /\ Joined(Parts, 0) = <<>>
      /\ \A m \in 1 .. n : Joined(Parts, m) = Joined(Parts, m - 1) \o doc[m].text
      /\ \A m \in 0 .. n : Joined(Parts, m) \in Seq(STRING)
      /\ Joined(Parts, n) = DocText
  <2>1. DocText = FlattenSeq(Parts)
    BY DEF DocText, Parts
  <2>2. /\ Joined(Parts, 0) = <<>>
        /\ \A m \in 1 .. n : Joined(Parts, m) = Joined(Parts, m - 1) \o Parts[m]
        /\ \A m \in 0 .. n : Joined(Parts, m) \in Seq(STRING)
        /\ Joined(Parts, n) = FlattenSeq(Parts)
    <3> HIDE DEF n
    <3> QED
      BY <1>1, JoinedFacts
  <2>3. \A m \in 1 .. n : Parts[m] = doc[m].text
    BY <1>1
  <2> HIDE DEF n
  <2> QED
    BY <2>1, <2>2, <2>3
<1>3. \A i \in 1 .. n + 1 : Begins(i) \in Nat /\ Begins(i) = Len(Joined(Parts, i - 1))
  <2>1. TAKE i \in 1 .. n + 1
  <2>2. i - 1 \in 0 .. n
    BY <1>1
  <2>3. Begins(i) = Len(Joined(Parts, i - 1))
    BY BeginsIs
  <2>4. Len(Joined(Parts, i - 1)) \in Nat
    BY <1>2, <2>2, LenProperties
  <2> QED
    BY <2>3, <2>4
<1>4. \A i \in 1 .. n : Begins(i + 1) = Begins(i) + Len(doc[i].text)
  <2>1. TAKE i \in 1 .. n
  <2>2. i \in 1 .. n + 1 /\ i + 1 \in 1 .. n + 1 /\ i + 1 - 1 = i /\ i - 1 \in 0 .. n
    BY <1>1
  <2>3. Begins(i + 1) = Len(Joined(Parts, i))
    BY <1>3, <2>2
  <2>4. Len(Joined(Parts, i)) = Len(Joined(Parts, i - 1)) + Len(doc[i].text)
    <3>1. Joined(Parts, i - 1) \in Seq(STRING) /\ doc[i].text \in Seq(STRING)
      BY <1>1, <1>2, <2>2
    <3>2. Joined(Parts, i) = Joined(Parts, i - 1) \o doc[i].text
      BY <1>2
    <3>3. Len(Joined(Parts, i - 1) \o doc[i].text)
            = Len(Joined(Parts, i - 1)) + Len(doc[i].text)
      BY <3>1, ConcatProperties
    <3> QED
      BY <3>2, <3>3
  <2> QED
    BY <1>3, <2>2, <2>3, <2>4
<1>5. Size = Begins(n + 1)
  <2>1. n + 1 \in 1 .. n + 1 /\ n + 1 - 1 = n
    BY <1>1
  <2> QED
    BY <1>2, <1>3, <2>1 DEF Size
<1>6. Begins(1) = 0
  <2>1. 1 \in 1 .. n + 1 /\ 1 - 1 = 0
    BY <1>1
  <2> QED
    BY <1>2, <1>3, <2>1
<1>7. D = {}
  <2>1. SUFFICES ASSUME D # {} PROVE FALSE
    OBVIOUS
  <2>2. PICK m \in D : \A y \in D : m <= y
    <3>1. D \subseteq Nat
      OBVIOUS
    <3> HIDE DEF D
    <3> QED
      BY <2>1, <3>1, LeastNatural
  <2>3. m \in 0 .. n /\ ~Good(m)
    OBVIOUS
  <2>4. m # 0
    BY <2>3
  <2>5. m - 1 \in 0 .. n /\ ~ (m <= m - 1) /\ m \in 1 .. n /\ m \in 1 .. n + 1
    BY <1>1, <2>3, <2>4
  <2>6. Good(m - 1)
    <3>1. m - 1 \notin D
      <4> HIDE DEF D
      <4> QED
        BY <2>2, <2>5
    <3> QED
      BY <2>5, <3>1
  <2> DEFINE a == Joined(Parts, m - 1)
             b == doc[m].text
  <2>7. a \in Seq(STRING) /\ b \in Seq(STRING) /\ Joined(Parts, m) = a \o b /\ Begins(m) = Len(a)
    BY <1>1, <1>2, <1>3, <2>5
  <2>8. /\ Len(a) \in Nat /\ Len(b) \in Nat
        /\ Len(a \o b) = Len(a) + Len(b)
        /\ \A j \in 1 .. Len(a) + Len(b) : (a \o b)[j] = IF j <= Len(a) THEN a[j] ELSE b[j - Len(a)]
    <3> HIDE DEF a, b
    <3> QED
      BY <2>7, ConcatProperties, LenProperties
  <2>9. ASSUME NEW i \in 1 .. m
        PROVE  /\ Begins(i) + Len(doc[i].text) <= Len(Joined(Parts, m))
               /\ \A j \in 1 .. Len(doc[i].text) :
                    Joined(Parts, m)[Begins(i) + j] = doc[i].text[j]
    <3>1. i \in 1 .. n /\ i \in 1 .. n + 1 /\ Len(doc[i].text) \in Nat /\ Begins(i) \in Nat
      <4>1. i \in 1 .. n /\ i \in 1 .. n + 1
        <5> HIDE DEF n
        <5> QED
          BY <1>1, <2>5
      <4>2. doc[i].text \in Seq(STRING) /\ Begins(i) \in Nat
        BY <1>1, <1>3, <4>1
      <4> QED
        BY <4>1, <4>2, LenProperties
    <3>2. CASE i = m
      <4>1. doc[i].text = b /\ Begins(i) = Len(a)
        BY <2>7, <3>2
      <4>2. \A j \in 1 .. Len(b) : Len(a) + j \in 1 .. Len(a) + Len(b) /\ ~ (Len(a) + j <= Len(a))
                                   /\ Len(a) + j - Len(a) = j
        <5> HIDE DEF a, b
        <5> QED
          BY <2>8
      <4> HIDE DEF a, b
      <4> QED
        BY <2>7, <2>8, <4>1, <4>2
    <3>3. CASE i # m
      <4>1. i \in 1 .. m - 1
        BY <2>5, <3>3
      <4>2. Begins(i) + Len(doc[i].text) <= Len(a)
            /\ \A j \in 1 .. Len(doc[i].text) : a[Begins(i) + j] = doc[i].text[j]
        BY <2>6, <4>1
      <4>3. \A j \in 1 .. Len(doc[i].text) : /\ Begins(i) + j \in 1 .. Len(a) + Len(b)
                                             /\ Begins(i) + j <= Len(a)
        <5> DEFINE u == Len(doc[i].text)
                   z == Len(a)
                   y == Len(b)
        <5>1. z \in Nat /\ y \in Nat /\ u \in Nat /\ Begins(i) \in Nat /\ Begins(i) + u <= z
          BY <2>8, <3>1, <4>2
        <5> HIDE DEF a, b, u, z, y
        <5>2. \A j \in 1 .. u : Begins(i) + j \in 1 .. z + y /\ Begins(i) + j <= z
          BY <5>1
        <5> QED
          BY <5>2 DEF u, z, y
      <4> HIDE DEF a, b
      <4> QED
        BY <2>7, <2>8, <3>1, <4>2, <4>3
    <3> QED
      BY <3>2, <3>3
  <2> QED
    BY <2>3, <2>9
<1>8. Good(n)
  <2>1. n \in 0 .. n /\ n \notin D
    <3> HIDE DEF D
    <3> QED
      BY <1>1, <1>7
  <2> QED
    BY <2>1
<1>9. \A i \in 1 .. n : Begins(i) + Len(doc[i].text) <= Size
  BY <1>2, <1>8 DEF Size
<1>10. ASSUME NEW i \in 1 .. n + 1 PROVE Begins(i) \in 0 .. Size
  <2>1. Begins(i) \in Nat /\ Size \in Nat
    <3>1. n + 1 \in 1 .. n + 1
      BY <1>1
    <3> QED
      BY <1>3, <1>5, <3>1
  <2>2. CASE i = n + 1
    BY <1>5, <2>1, <2>2
  <2>3. CASE i # n + 1
    <3>1. i \in 1 .. n
      BY <1>1, <2>3
    <3>2. Len(doc[i].text) \in Nat
      BY <1>1, <3>1
    <3> QED
      BY <1>9, <2>1, <3>1, <3>2
  <2> QED
    BY <2>2, <2>3
<1>11. ASSUME NEW i \in 1 .. n, NEW j \in 1 .. Len(doc[i].text)
       PROVE  CharAt(Begins(i) + j - 1) = doc[i].text[j]
  <2>1. Begins(i) + j - 1 + 1 = Begins(i) + j /\ Begins(i) + j - 1 < Size
    <3>1. i \in 1 .. n + 1 /\ n + 1 \in 1 .. n + 1
      BY <1>1
    <3>2. Begins(i) \in Nat /\ Size \in Nat /\ Len(doc[i].text) \in Nat
      BY <1>1, <1>3, <1>5, <3>1
    <3> QED
      BY <1>9, <3>2
  <2>2. DocText[Begins(i) + j] = doc[i].text[j]
    BY <1>2, <1>8
  <2> QED
    BY <2>1, <2>2 DEF CharAt
<1> QED
  BY <1>4, <1>5, <1>6, <1>10, <1>11

-----------------------------------------------------------------------------
(* Where the searches of the lexer end *)

\* Where each of the searches stops, given the place it must be.
LEMMA SkipIs ==
  ASSUME TextOK, NEW c \in Nat, NEW k \in c .. Size,
         k = Size \/ CharAt(k) # Blank, \A i \in c .. k - 1 : CharAt(i) = Blank
  PROVE  _Json__skip_whitespace(c) = k
<1> DEFINE l == _Json__skip_whitespace(c)
<1>1. c <= Size /\ Size \in Nat
  BY DEF TextOK
<1>2. l \in c .. Size /\ (l = Size \/ CharAt(l) # Blank) /\ \A i \in c .. l - 1 : CharAt(i) = Blank
  BY <1>1, SkipFacts
<1> HIDE DEF l
<1>3. ~ (l < k) /\ ~ (k < l)
  BY <1>1, <1>2
<1>4. l = k
  BY <1>1, <1>2, <1>3
<1> QED
  BY <1>4 DEF l

LEMMA StringEndIs ==
  ASSUME TextOK, NEW c \in Nat, NEW k \in c .. Size,
         k = Size \/ CharAt(k) = Quote, \A i \in c .. k - 1 : CharAt(i) # Quote
  PROVE  StringEnd(c) = k
<1> DEFINE l == StringEnd(c)
<1>1. c <= Size /\ Size \in Nat
  BY DEF TextOK
<1>2. l \in c .. Size /\ (l = Size \/ CharAt(l) = Quote) /\ \A i \in c .. l - 1 : CharAt(i) # Quote
  BY <1>1, StringEndFacts
<1> HIDE DEF l
<1>3. ~ (l < k) /\ ~ (k < l)
  BY <1>1, <1>2
<1>4. l = k
  BY <1>1, <1>2, <1>3
<1> QED
  BY <1>4 DEF l

LEMMA SymbolReadIs ==
  ASSUME TextOK, NEW c \in Nat, NEW symbol, NEW k \in c .. Size, Len(symbol) \in Nat,
         k = Size \/ ~(k - c < Len(symbol) /\ CharAt(k) = symbol[k - c + 1]),
         \A i \in c .. k - 1 : i - c < Len(symbol) /\ CharAt(i) = symbol[i - c + 1]
  PROVE  SymbolRead(c, symbol) = IF k < Size /\ k - c < Len(symbol) THEN k - c + 1 ELSE k - c
<1>1. c <= Size /\ Size \in Nat
  BY DEF TextOK
<1>2. PICK l \in c .. Size :
        /\ l = Size \/ ~(l - c < Len(symbol) /\ CharAt(l) = symbol[l - c + 1])
        /\ \A i \in c .. l - 1 : i - c < Len(symbol) /\ CharAt(i) = symbol[i - c + 1]
        /\ SymbolRead(c, symbol) = IF l < Size /\ l - c < Len(symbol) THEN l - c + 1 ELSE l - c
  BY <1>1, SymbolStops
<1>3. ~ (l < k)
  <2>1. SUFFICES ASSUME l < k PROVE FALSE
    OBVIOUS
  <2>2. l \in c .. k - 1 /\ l # Size
    BY <1>1, <1>2, <2>1
  <2> QED
    BY <1>2, <2>2
<1>4. ~ (k < l)
  <2>1. SUFFICES ASSUME k < l PROVE FALSE
    OBVIOUS
  <2>2. k \in c .. l - 1 /\ k # Size
    BY <1>1, <1>2, <2>1
  <2> QED
    BY <1>2, <2>2
<1>5. l = k
  BY <1>1, <1>2, <1>3, <1>4
<1> QED
  BY <1>2, <1>5

-----------------------------------------------------------------------------
(* What is ahead of the cursor *)

\* No lexeme is empty, so each begins behind the one before.
LEMMA BeginsGrow ==
  ASSUME doc \in Docs, IsDocument(doc),
         NEW i \in 1 .. Len(doc) + 1, NEW k \in 1 .. Len(doc) + 1, i < k
  PROVE  Begins(i) < Begins(k)
<1> DEFINE D == {m \in i + 1 .. Len(doc) + 1 : ~ (Begins(i) < Begins(m))}
<1>1. /\ Len(doc) \in Nat
      /\ \A m \in 1 .. Len(doc) + 1 : Begins(m) \in Nat
      /\ \A m \in 1 .. Len(doc) : Begins(m + 1) = Begins(m) + Len(doc[m].text)
      /\ \A m \in 1 .. Len(doc) : Len(doc[m].text) \in Nat /\ Len(doc[m].text) > 0
  <2>1. Len(doc) \in Nat /\ Size \in Nat
    BY DocFacts, TextIsText DEF TextOK
  <2>2. \A m \in 1 .. Len(doc) : Len(doc[m].text) \in Nat /\ Len(doc[m].text) > 0
    <3>1. TAKE m \in 1 .. Len(doc)
    <3>2. doc[m].text \in Seq(STRING) /\ doc[m].text # <<>>
      BY DocFacts DEF IsDocument, IsLexeme
    <3> QED
      BY <3>2, EmptySeq, LenProperties
  <2> QED
    BY <2>1, <2>2, BeginsFacts
<1>2. D = {}
  <2>1. SUFFICES ASSUME D # {} PROVE FALSE
    OBVIOUS
  <2>2. PICK m \in D : \A y \in D : m <= y
    <3>1. D \subseteq Nat
      BY <1>1
    <3> HIDE DEF D
    <3> QED
      BY <2>1, <3>1, LeastNatural
  <2>3. m \in i + 1 .. Len(doc) + 1 /\ ~ (Begins(i) < Begins(m))
    OBVIOUS
  <2>4. m - 1 \in 1 .. Len(doc) /\ m - 1 \in 1 .. Len(doc) + 1 /\ m - 1 + 1 = m /\ ~ (m <= m - 1)
    BY <1>1, <2>3
  <2>5. Begins(m) > Begins(m - 1) /\ Begins(m) \in Nat /\ Begins(m - 1) \in Nat /\ Begins(i) \in Nat
    <3>1. /\ Begins(m) = Begins(m - 1) + Len(doc[m - 1].text)
          /\ Len(doc[m - 1].text) \in Nat /\ Len(doc[m - 1].text) > 0
      BY <1>1, <2>4
    <3>2. Begins(m) \in Nat /\ Begins(m - 1) \in Nat /\ Begins(i) \in Nat
      BY <1>1, <2>3, <2>4
    <3> QED
      BY <3>1, <3>2
  <2>6. m - 1 \notin D
    <3> HIDE DEF D
    <3> QED
      BY <2>2, <2>4
  <2>7. m - 1 = i \/ Begins(i) < Begins(m - 1)
    BY <1>1, <2>3, <2>4, <2>6
  <2> QED
    BY <2>3, <2>5, <2>7
<1> QED
  BY <1>1, <1>2

\* What lexeme i adds to what is ahead of lexeme k, and of a place c.
Given(k, i) == IF i < k \/ doc[i].kind = "SPACE" THEN <<>> ELSE <<doc[i]>>
AheadFrom(k) == FlattenSeq([i \in DOMAIN doc |-> Given(k, i)])
AheadAt(c) == FlattenSeq([i \in DOMAIN doc |->
                IF Begins(i) < c \/ doc[i].kind = "SPACE" THEN <<>> ELSE <<doc[i]>>])

LexemeSet == [kind : STRING, text : Seq(STRING), value : Seq(STRING)]

\* Ahead of the place a lexeme begins at is that lexeme and what follows.
LEMMA AheadIs ==
  ASSUME doc \in Docs, IsDocument(doc), NEW k \in 1 .. Len(doc) + 1
  PROVE  AheadAt(Begins(k)) = AheadFrom(k)
<1>1. ASSUME NEW i \in DOMAIN doc
      PROVE  (IF Begins(i) < Begins(k) \/ doc[i].kind = "SPACE" THEN <<>> ELSE <<doc[i]>>)
               = Given(k, i)
  <2>1. i \in 1 .. Len(doc) + 1 /\ i \in Int /\ k \in Int
    BY DocFacts
  <2>2. Begins(i) \in Int /\ Begins(k) \in Int
    BY <2>1, BeginsFacts
  <2>3. Begins(i) < Begins(k) <=> i < k
    <3>1. CASE i < k
      BY <2>1, <3>1, BeginsGrow
    <3>2. CASE k < i
      <4>1. Begins(k) < Begins(i)
        BY <2>1, <3>2, BeginsGrow
      <4> QED
        BY <2>1, <2>2, <3>2, <4>1
    <3>3. CASE k = i
      BY <2>1, <2>2, <3>3
    <3> QED
      BY <2>1, <3>1, <3>2, <3>3
  <2> QED
    BY <2>3 DEF Given
<1>2. [i \in DOMAIN doc |->
        IF Begins(i) < Begins(k) \/ doc[i].kind = "SPACE" THEN <<>> ELSE <<doc[i]>>]
        = [i \in DOMAIN doc |-> Given(k, i)]
  BY <1>1, Zenon
<1> QED
  BY <1>2, Zenon DEF AheadAt, AheadFrom

LEMMA GivenFacts ==
  ASSUME doc \in Docs, NEW k \in 1 .. Len(doc) + 1
  PROVE  /\ [i \in DOMAIN doc |-> Given(k, i)] \in Seq(Seq(LexemeSet))
         /\ Len([i \in DOMAIN doc |-> Given(k, i)]) = Len(doc)
<1> DEFINE q == [i \in DOMAIN doc |-> Given(k, i)]
<1>1. Len(doc) \in Nat /\ DOMAIN doc = 1 .. Len(doc)
  BY DocFacts
<1>2. \A i \in 1 .. Len(doc) : doc[i] \in LexemeSet
  <2>1. doc \in Seq(LexemeSet)
    BY DocFacts DEF LexemeSet
  <2> QED
    BY <2>1, ElementOfSeq
<1>3. \A i \in 1 .. Len(doc) : Given(k, i) \in Seq(LexemeSet)
  <2>1. TAKE i \in 1 .. Len(doc)
  <2>2. <<doc[i]>> \in Seq(LexemeSet) /\ <<>> \in Seq(LexemeSet)
    BY <1>2
  <2> QED
    BY <2>2 DEF Given
<1>4. q = [i \in 1 .. Len(doc) |-> Given(k, i)]
  BY <1>1
<1>5. \A i \in 1 .. Len(doc) : q[i] \in Seq(LexemeSet)
  BY <1>3, <1>4
<1> HIDE DEF q
<1>6. q \in Seq(Seq(LexemeSet)) /\ Len(q) = Len(doc)
  BY <1>1, <1>4, <1>5, IsASeq
<1> QED
  BY <1>6 DEF q

\* It is taken off lexeme by lexeme, from the front.
LEMMA AheadFromFacts ==
  ASSUME doc \in Docs
  PROVE  /\ AheadFrom(Len(doc) + 1) = <<>>
         /\ \A k \in 1 .. Len(doc) + 1 : AheadFrom(k) \in Seq(LexemeSet)
         /\ \A k \in 1 .. Len(doc) : AheadFrom(k) =
              IF doc[k].kind = "SPACE" THEN AheadFrom(k + 1) ELSE <<doc[k]>> \o AheadFrom(k + 1)
<1> DEFINE q(k) == [i \in DOMAIN doc |-> Given(k, i)]
           n == Len(doc)
<1>1. n \in Nat /\ DOMAIN doc = 1 .. n
  BY DocFacts
<1>2. \A k \in 1 .. n + 1 : q(k) \in Seq(Seq(LexemeSet)) /\ Len(q(k)) = n
  BY GivenFacts
<1>3. \A k \in 1 .. n + 1 : AheadFrom(k) = FlattenSeq(q(k))
  BY DEF AheadFrom
<1>4. \A k \in 1 .. n + 1 : \A i \in 1 .. n : q(k)[i] = Given(k, i)
  BY <1>1
<1> HIDE DEF q
<1>5. \A k \in 1 .. n + 1 : AheadFrom(k) \in Seq(LexemeSet)
  BY <1>2, <1>3, FlattenIsSeq
<1>6. AheadFrom(n + 1) = <<>>
  <2> DEFINE D == {m \in 0 .. n : Joined(q(n + 1), m) # <<>>}
  <2>1. n + 1 \in 1 .. n + 1
    BY <1>1
  <2>2. /\ Joined(q(n + 1), 0) = <<>>
        /\ \A m \in 1 .. n : Joined(q(n + 1), m) = Joined(q(n + 1), m - 1) \o q(n + 1)[m]
        /\ Joined(q(n + 1), n) = FlattenSeq(q(n + 1))
    BY <1>2, <2>1, JoinedFacts
  <2>3. \A m \in 1 .. n : q(n + 1)[m] = <<>>
    <3>1. TAKE m \in 1 .. n
    <3>2. q(n + 1)[m] = Given(n + 1, m)
      BY <1>4, <2>1
    <3>3. m < n + 1
      BY <1>1
    <3> QED
      BY <3>2, <3>3 DEF Given
  <2>4. <<>> \o <<>> = <<>>
    OBVIOUS
  <2>5. D = {}
    <3>1. SUFFICES ASSUME D # {} PROVE FALSE
      OBVIOUS
    <3>2. PICK m \in D : \A y \in D : m <= y
      <4>1. D \subseteq Nat
        BY <1>1
      <4> HIDE DEF D
      <4> QED
        BY <3>1, <4>1, LeastNatural
    <3>3. m \in 0 .. n /\ Joined(q(n + 1), m) # <<>>
      OBVIOUS
    <3>4. m - 1 \in 0 .. n /\ m \in 1 .. n /\ ~ (m <= m - 1)
      <4>1. m # 0
        BY <2>2, <3>3
      <4> QED
        BY <1>1, <3>3, <4>1
    <3>5. m - 1 \notin D
      <4> HIDE DEF D
      <4> QED
        BY <3>2, <3>4
    <3>6. Joined(q(n + 1), m - 1) = <<>>
      BY <3>4, <3>5
    <3> QED
      BY <2>2, <2>3, <2>4, <3>3, <3>4, <3>6
  <2>6. n \in 0 .. n /\ n \notin D
    <3> HIDE DEF D
    <3> QED
      BY <1>1, <2>5
  <2> QED
    BY <1>3, <2>1, <2>2, <2>6
<1>7. ASSUME NEW k \in 1 .. n
      PROVE  AheadFrom(k) =
               IF doc[k].kind = "SPACE" THEN AheadFrom(k + 1) ELSE <<doc[k]>> \o AheadFrom(k + 1)
  <2>1. k \in 1 .. n + 1 /\ k + 1 \in 1 .. n + 1 /\ k \in Int
    BY <1>1
  <2>2. \A i \in 1 .. n : q(k)[i] = Given(k, i) /\ q(k + 1)[i] = Given(k + 1, i)
    BY <1>4, <2>1
  <2>3. \A i \in 1 .. n : i < k => q(k)[i] = <<>> /\ q(k + 1)[i] = <<>>
    <3>1. TAKE i \in 1 .. n
    <3>2. i < k => i < k + 1
      BY <1>1, <2>1
    <3> QED
      BY <2>2, <3>2 DEF Given
  <2>4. \A i \in 1 .. n : i > k => q(k)[i] = q(k + 1)[i]
    <3>1. TAKE i \in 1 .. n
    <3>2. i > k => ~(i < k) /\ ~(i < k + 1)
      BY <1>1, <2>1
    <3> QED
      BY <2>2, <3>2 DEF Given
  <2>5. q(k + 1)[k] = <<>>
    <3>1. k < k + 1
      BY <2>1
    <3> QED
      BY <2>2, <3>1 DEF Given
  <2>6. AheadFrom(k) = q(k)[k] \o AheadFrom(k + 1)
    <3>1. /\ q(k) \in Seq(Seq(LexemeSet)) /\ Len(q(k)) = n
          /\ q(k + 1) \in Seq(Seq(LexemeSet)) /\ Len(q(k + 1)) = n
      BY <1>2, <2>1
    <3>2. FlattenSeq(q(k)) = q(k)[k] \o FlattenSeq(q(k + 1))
      BY <2>3, <2>4, <2>5, <3>1, JoinedWithout
    <3> QED
      BY <1>3, <2>1, <3>2
  <2>7. ~ (k < k)
    BY <2>1
  <2>8. CASE doc[k].kind = "SPACE"
    <3>1. q(k)[k] = <<>>
      BY <2>2, <2>8 DEF Given
    <3>2. AheadFrom(k + 1) \in Seq(LexemeSet)
      BY <1>5, <2>1
    <3>3. <<>> \o AheadFrom(k + 1) = AheadFrom(k + 1)
      BY <3>2, ConcatEmptySeq
    <3> QED
      BY <2>6, <2>8, <3>1, <3>3
  <2>9. CASE doc[k].kind # "SPACE"
    <3>1. q(k)[k] = <<doc[k]>>
      BY <2>2, <2>7, <2>9 DEF Given
    <3> QED
      BY <2>6, <2>9, <3>1
  <2> QED
    BY <2>8, <2>9
<1> QED
  BY <1>5, <1>6, <1>7

-----------------------------------------------------------------------------
(* One lexeme *)

\* The symbols a character begins
Named(x) == {t \in DOMAIN _JSON__SYMBOLS_IN : _JSON__SYMBOLS_IN[t][1] = x}

\* The token at b, where no space is
TokenAt(b, s) ==
  LET x == CharAt(b)
      t == CHOOSE t \in Named(x) : TRUE
      n == SymbolRead(b, _JSON__SYMBOLS_IN[t])
      e == StringEnd(b + 1)
      v == [at |-> b + 1, len |-> e - b - 1]
  IN IF b >= Size THEN Lexed("EOF", b, b, s)
     ELSE IF x \in Puncts THEN Lexed(x, b, b + 1, s)
     ELSE IF Named(x) # {}
     THEN Lexed(IF n = Len(_JSON__SYMBOLS_IN[t]) THEN t ELSE "INVALID", b, b + n, s)
     ELSE IF strtod(b) # b THEN Lexed("NUMBER", b, strtod(b), s)
     ELSE IF x # Quote THEN Lexed("INVALID", b, b, s)
     ELSE IF e < Size THEN Lexed("STRING", b, e + 1, v) ELSE Lexed("INVALID", b, e, v)

LEMMA TokenIsAt == \A c, s : _Json__next_token(c, s) = TokenAt(_Json__skip_whitespace(c), s)
BY Zenon DEF _Json__next_token, TokenAt, Named, Lexed, StringEnd

LEMMA SymbolNames ==
  /\ DOMAIN _JSON__SYMBOLS_IN = {"TRUE", "FALSE", "NULL"}
  /\ _JSON__SYMBOLS_IN["TRUE"] = <<"t", "r", "u", "e">>
  /\ _JSON__SYMBOLS_IN["FALSE"] = <<"f", "a", "l", "s", "e">>
  /\ _JSON__SYMBOLS_IN["NULL"] = <<"n", "u", "l", "l">>
BY DEF _JSON__SYMBOLS_IN

\* No two symbols begin alike.
LEMMA InitialsAre ==
  /\ Initials = {"t", "f", "n"}
  /\ \A t \in DOMAIN _JSON__SYMBOLS_IN :
       /\ _JSON__SYMBOLS_IN[t][1] \in Initials /\ Named(_JSON__SYMBOLS_IN[t][1]) = {t}
       /\ Len(_JSON__SYMBOLS_IN[t]) \in {4, 5}
  /\ \A x : x \notin Initials => Named(x) = {}
<1>1. Initials = {"t", "f", "n"}
  BY SymbolNames DEF Initials
<1>2. \A t \in DOMAIN _JSON__SYMBOLS_IN : Named(_JSON__SYMBOLS_IN[t][1]) = {t}
  BY SymbolNames DEF Named
<1>3. \A t \in DOMAIN _JSON__SYMBOLS_IN :
         /\ Len(_JSON__SYMBOLS_IN[t]) \in {4, 5}
  <2>1. Len(_JSON__SYMBOLS_IN["TRUE"]) = 4
    BY SymbolNames
  <2>2. Len(_JSON__SYMBOLS_IN["FALSE"]) = 5
    BY SymbolNames
  <2>3. Len(_JSON__SYMBOLS_IN["NULL"]) = 4
    BY SymbolNames
  <2> QED
    BY <2>1, <2>2, <2>3, SymbolNames, Zenon
<1>4. \A t \in DOMAIN _JSON__SYMBOLS_IN : _JSON__SYMBOLS_IN[t][1] \in Initials
  BY DEF Initials
<1>5. \A x : x \notin Initials => Named(x) = {}
  BY DEF Named, Initials
<1> QED
  BY <1>1, <1>2, <1>3, <1>4, <1>5

\* The first character tells what kind of token it is.
LEMMA KindsOfCharacters ==
  /\ Blank \notin Puncts \cup Initials /\ Blank # Quote
  /\ Quote \notin Puncts \cup Initials /\ Quote \notin NumeralCharacters
  /\ \A x \in Puncts : x \notin Initials
<1>1. Blank \notin Puncts \cup {"t", "f", "n"} /\ Blank # Quote
  BY Zenon DEF Blank, Quote, Puncts
<1>2. Quote \notin Puncts \cup {"t", "f", "n"}
  BY Zenon DEF Quote, Puncts
<1>3. Quote \notin NumeralCharacters
  <2>1. Quote \notin JsonDigits
    BY Zenon DEF Quote, JsonDigits
  <2>2. Quote \notin HexDigits
    BY <2>1, Zenon DEF Quote, HexDigits
  <2>3. Quote \notin WordCharacters
    BY <2>2, Zenon DEF Quote, WordCharacters
  <2> QED
    BY <2>3, Zenon DEF Quote, NumeralCharacters
<1>4. \A x \in Puncts : x \notin {"t", "f", "n"}
  BY Zenon DEF Puncts
<1> QED
  BY <1>1, <1>2, <1>3, <1>4, InitialsAre

\* The characters of lexeme k are those from Begins(k) on.
LEMMA LexemeFacts ==
  ASSUME doc \in Docs, IsDocument(doc), NEW k \in 1 .. Len(doc)
  PROVE  /\ TextOK /\ IsLexeme(doc, k)
         /\ doc[k].text \in Seq(STRING) /\ Len(doc[k].text) \in Nat /\ Len(doc[k].text) >= 1
         /\ k + 1 \in 1 .. Len(doc) + 1 /\ k \in 1 .. Len(doc) + 1
         /\ Begins(k) \in Nat /\ Begins(k) < Size
         /\ Begins(k + 1) = Begins(k) + Len(doc[k].text) /\ Begins(k + 1) <= Size
         /\ \A p \in Begins(k) .. Begins(k + 1) - 1 : CharAt(p) = doc[k].text[p - Begins(k) + 1]
         /\ CharAt(Begins(k)) = doc[k].text[1]
<1>1. TextOK /\ IsLexeme(doc, k)
  BY TextIsText DEF IsDocument
<1>2. doc[k].text \in Seq(STRING) /\ Len(doc[k].text) \in Nat /\ Len(doc[k].text) >= 1
  <2>1. doc[k].text \in Seq(STRING) /\ doc[k].text # <<>>
    BY <1>1, DocFacts DEF IsLexeme
  <2> QED
    BY <2>1, EmptySeq, LenProperties
<1>3. k + 1 \in 1 .. Len(doc) + 1 /\ k \in 1 .. Len(doc) + 1
  BY DocFacts
<1>4. /\ Begins(k) \in Nat /\ Begins(k + 1) <= Size /\ Size \in Nat /\ Begins(k + 1) \in Nat
      /\ Begins(k + 1) = Begins(k) + Len(doc[k].text)
      /\ \A j \in 1 .. Len(doc[k].text) : CharAt(Begins(k) + j - 1) = doc[k].text[j]
  BY <1>1, <1>3, BeginsFacts DEF TextOK
<1>5. ASSUME NEW p \in Begins(k) .. Begins(k + 1) - 1
      PROVE  CharAt(p) = doc[k].text[p - Begins(k) + 1]
  <2>1. p - Begins(k) + 1 \in 1 .. Len(doc[k].text) /\ Begins(k) + (p - Begins(k) + 1) - 1 = p
    BY <1>2, <1>4
  <2> QED
    BY <1>4, <2>1
<1>6. CharAt(Begins(k)) = doc[k].text[1]
  <2>1. 1 \in 1 .. Len(doc[k].text) /\ Begins(k) + 1 - 1 = Begins(k)
    BY <1>2, <1>4
  <2> QED
    BY <1>4, <2>1
<1> QED
  BY <1>1, <1>2, <1>3, <1>4, <1>5, <1>6

\* One lemma for each kind of lexeme: what is read where it begins.
LEMMA PunctuationRead ==
  ASSUME doc \in Docs, IsDocument(doc), NEW k \in 1 .. Len(doc), NEW s,
         doc[k].kind \in Puncts, doc[k].text = <<doc[k].kind>>
  PROVE  TokenAt(Begins(k), s) = Lexed(doc[k].kind, Begins(k), Begins(k + 1), s)
<1> DEFINE b == Begins(k)
<1>1. b \in Nat /\ b < Size /\ Begins(k + 1) = b + 1 /\ CharAt(b) = doc[k].kind /\ Size \in Nat
  <2>1. Len(doc[k].text) = 1 /\ doc[k].text[1] = doc[k].kind
    OBVIOUS
  <2> QED
    BY <2>1, LexemeFacts DEF TextOK
<1>2. ~ (b >= Size)
  BY <1>1
<1> HIDE DEF b
<1>3. TokenAt(b, s) = Lexed(doc[k].kind, b, b + 1, s)
  BY <1>1, <1>2, Zenon DEF TokenAt
<1> QED
  BY <1>1, <1>3 DEF b

\* What is read where a symbol begins
SymbolLexed(t, b, s) ==
  Lexed(IF SymbolRead(b, _JSON__SYMBOLS_IN[t]) = Len(_JSON__SYMBOLS_IN[t]) THEN t ELSE "INVALID",
        b, b + SymbolRead(b, _JSON__SYMBOLS_IN[t]), s)

LEMMA SymbolBegins ==
  ASSUME TextOK, NEW b \in Nat, b < Size, NEW s, NEW t \in DOMAIN _JSON__SYMBOLS_IN,
         CharAt(b) = _JSON__SYMBOLS_IN[t][1]
  PROVE  TokenAt(b, s) = SymbolLexed(t, b, s)
<1>1. ~ (b >= Size)
  BY DEF TextOK
<1>2. CharAt(b) \notin Puncts /\ Named(CharAt(b)) = {t}
  BY InitialsAre, KindsOfCharacters
<1>3. (CHOOSE u \in Named(CharAt(b)) : TRUE) = t /\ Named(CharAt(b)) # {}
  BY <1>2
<1> QED
  BY <1>1, <1>2, <1>3, Zenon DEF TokenAt, SymbolLexed

\* j of its characters are there, and then either another one or none.
LEMMA SymbolPart ==
  ASSUME doc \in Docs, IsDocument(doc), NEW k \in 1 .. Len(doc), NEW s,
         NEW t \in DOMAIN _JSON__SYMBOLS_IN, NEW j \in Nat, j >= 1,
         j <= Len(doc[k].text), j <= Len(_JSON__SYMBOLS_IN[t]),
         \A i \in 1 .. j : doc[k].text[i] = _JSON__SYMBOLS_IN[t][i],
         \/ j = Len(_JSON__SYMBOLS_IN[t])
         \/ Begins(k) + j = Size
         \/ j < Len(doc[k].text) /\ doc[k].text[j + 1] # _JSON__SYMBOLS_IN[t][j + 1]
  PROVE  /\ TokenAt(Begins(k), s) = SymbolLexed(t, Begins(k), s)
         /\ SymbolRead(Begins(k), _JSON__SYMBOLS_IN[t]) =
              IF Begins(k) + j < Size /\ j < Len(_JSON__SYMBOLS_IN[t]) THEN j + 1 ELSE j
<1> DEFINE b == Begins(k)
           w == doc[k].text
           symbol == _JSON__SYMBOLS_IN[t]
<1>1. /\ b \in Nat /\ b < Size /\ Len(w) \in Nat /\ TextOK /\ Size \in Nat
      /\ Begins(k + 1) = b + Len(w) /\ Begins(k + 1) <= Size
      /\ \A p \in b .. Begins(k + 1) - 1 : CharAt(p) = w[p - b + 1]
      /\ CharAt(b) = w[1]
  BY LexemeFacts DEF TextOK
<1>2. Len(symbol) \in Nat
  BY InitialsAre
<1>3. /\ \A i \in 1 .. j : w[i] = symbol[i]
      /\ j = Len(symbol) \/ b + j = Size \/ (j < Len(w) /\ w[j + 1] # symbol[j + 1])
      /\ j <= Len(w) /\ j <= Len(symbol)
  OBVIOUS
<1> DEFINE z == b + j
<1>4. z = b + j /\ z \in b .. Size /\ z - b = j
  BY <1>1, <1>3
<1> HIDE DEF b, w, symbol, z
<1>5. \A i \in b .. z - 1 : i - b < Len(symbol) /\ CharAt(i) = symbol[i - b + 1]
  <2>1. TAKE i \in b .. z - 1
  <2>2. b \in Nat /\ j \in Nat /\ Len(w) \in Nat /\ Begins(k + 1) = b + Len(w)
        /\ j <= Len(w) /\ j <= Len(symbol) /\ Len(symbol) \in Nat
    BY <1>1, <1>2, <1>3
  <2>3. i \in b .. Begins(k + 1) - 1 /\ i - b + 1 \in 1 .. j
    BY <1>4, <2>2
  <2>4. i - b < Len(symbol)
    BY <1>4, <2>2
  <2> QED
    BY <1>1, <1>3, <2>3, <2>4
<1>6. z = Size \/ ~(z - b < Len(symbol) /\ CharAt(z) = symbol[z - b + 1])
  <2>1. CASE j < Len(w) /\ w[j + 1] # symbol[j + 1]
    <3>1. z \in b .. Begins(k + 1) - 1
      BY <1>1, <1>4, <2>1
    <3>2. CharAt(z) = w[j + 1]
      BY <1>1, <1>4, <3>1
    <3> QED
      BY <1>4, <2>1, <3>2
  <2>2. CASE j = Len(symbol)
    BY <1>2, <1>4, <2>2
  <2> QED
    BY <1>3, <1>4, <2>1, <2>2
<1>7. SymbolRead(b, symbol) = IF z < Size /\ z - b < Len(symbol) THEN z - b + 1 ELSE z - b
  <2>1. TextOK /\ b \in Nat /\ z \in b .. Size
    BY <1>1, <1>4
  <2> QED
    BY <1>2, <1>5, <1>6, <2>1, SymbolReadIs
<1>8. SymbolRead(b, symbol) = IF b + j < Size /\ j < Len(symbol) THEN j + 1 ELSE j
  BY <1>4, <1>7
<1>9. TokenAt(b, s) = SymbolLexed(t, b, s)
  <2>1. CharAt(b) = symbol[1]
    <3>1. 1 \in 1 .. j
      OBVIOUS
    <3> QED
      BY <1>1, <1>3, <3>1
  <2> QED
    BY <1>1, <2>1, SymbolBegins DEF symbol
<1> QED
  BY <1>8, <1>9 DEF b, symbol

LEMMA SymbolIsRead ==
  ASSUME doc \in Docs, IsDocument(doc), NEW k \in 1 .. Len(doc), NEW s,
         doc[k].kind \in DOMAIN _JSON__SYMBOLS_IN, doc[k].text = _JSON__SYMBOLS_IN[doc[k].kind]
  PROVE  TokenAt(Begins(k), s) = Lexed(doc[k].kind, Begins(k), Begins(k + 1), s)
<1> DEFINE t == doc[k].kind
           symbol == _JSON__SYMBOLS_IN[t]
           j == Len(symbol)
<1>1. t \in DOMAIN _JSON__SYMBOLS_IN /\ j \in Nat /\ j >= 1
  BY InitialsAre
<1>2. doc[k].text = symbol /\ Begins(k + 1) = Begins(k) + j
  BY LexemeFacts
<1>3. j <= Len(doc[k].text) /\ j <= Len(symbol) /\ \A i \in 1 .. j : doc[k].text[i] = symbol[i]
  <2> HIDE DEF t
  <2> QED
    BY <1>1, <1>2
<1> HIDE DEF t
<1>4. /\ TokenAt(Begins(k), s) = SymbolLexed(t, Begins(k), s)
      /\ SymbolRead(Begins(k), symbol) = IF Begins(k) + j < Size /\ j < j THEN j + 1 ELSE j
  BY <1>1, <1>3, SymbolPart
<1>5. SymbolRead(Begins(k), symbol) = j
  BY <1>1, <1>4
<1>6. SymbolLexed(t, Begins(k), s) = Lexed(t, Begins(k), Begins(k + 1), s)
  BY <1>2, <1>5 DEF SymbolLexed
<1> QED
  BY <1>4, <1>6 DEF t

\* A word that is wrong somewhere is read up to the wrong character; if that is the
\* last one, it passes for the symbol.
LEMMA MisspeltIsRead ==
  ASSUME doc \in Docs, IsDocument(doc), NEW k \in 1 .. Len(doc), NEW s,
         NEW t \in DOMAIN _JSON__SYMBOLS_IN, Misspells(doc[k].text, t)
  PROVE  TokenAt(Begins(k), s) =
           Lexed(IF Len(doc[k].text) = Len(_JSON__SYMBOLS_IN[t]) THEN t ELSE "INVALID",
                 Begins(k), Begins(k + 1), s)
<1> DEFINE w == doc[k].text
           b == Begins(k)
           j == Len(w) - 1
<1> DEFINE symbol == _JSON__SYMBOLS_IN[t]
<1>1. /\ Len(w) \in 2 .. Len(symbol)
      /\ \A i \in 1 .. Len(w) : w[i] = symbol[i] <=> i < Len(w)
  BY Zenon DEF Misspells
<1>2. /\ b \in Nat /\ Size \in Nat /\ Len(symbol) \in Nat /\ Len(w) \in Nat
      /\ Begins(k + 1) = b + Len(w) /\ Begins(k + 1) <= Size
  BY InitialsAre, LexemeFacts DEF TextOK
<1>3. Len(w) >= 2 /\ Len(w) <= Len(symbol)
  <2> HIDE DEF w, symbol
  <2> QED
    BY <1>1, <1>2
<1>4. j \in Nat /\ j >= 1 /\ j < Len(w) /\ j < Len(symbol) /\ j + 1 = Len(w) /\ b + j < Size
  <2> HIDE DEF w, b, symbol
  <2> QED
    BY <1>2, <1>3
<1>5. \A i \in 1 .. j : w[i] = symbol[i]
  <2>1. \A i \in 1 .. j : i \in 1 .. Len(w) /\ i < Len(w)
    <3> HIDE DEF w, symbol
    <3> QED
      BY <1>2, <1>3
  <2> QED
    BY <1>1, <2>1, Zenon
<1>6. w[j + 1] # symbol[j + 1]
  <2>1. Len(w) \in 1 .. Len(w) /\ ~ (Len(w) < Len(w))
    <3> HIDE DEF w, symbol
    <3> QED
      BY <1>2, <1>3
  <2>2. w[Len(w)] # symbol[Len(w)]
    BY <1>1, <2>1, Zenon
  <2> HIDE DEF w, j, symbol
  <2> QED
    BY <1>4, <2>2
<1> HIDE DEF j
<1>7. /\ TokenAt(b, s) = SymbolLexed(t, b, s)
      /\ SymbolRead(b, symbol) = IF b + j < Size /\ j < Len(symbol) THEN j + 1 ELSE j
  <2>1. j <= Len(w) /\ j <= Len(symbol)
    BY <1>2, <1>4
  <2> QED
    BY <1>4, <1>5, <1>6, <2>1, SymbolPart
<1>8. SymbolRead(b, symbol) = Len(w)
  <2> HIDE DEF w, b, symbol
  <2> QED
    BY <1>2, <1>3, <1>4, <1>7
<1>9. SymbolLexed(t, b, s)
        = Lexed(IF Len(w) = Len(symbol) THEN t ELSE "INVALID", b, Begins(k + 1), s)
  BY <1>2, <1>8, Zenon DEF SymbolLexed
<1> QED
  BY <1>7, <1>9

LEMMA CutSymbolIsRead ==
  ASSUME doc \in Docs, IsDocument(doc), NEW k \in 1 .. Len(doc), k = Len(doc), NEW s,
         NEW t \in DOMAIN _JSON__SYMBOLS_IN,
         Len(doc[k].text) \in 1 .. Len(_JSON__SYMBOLS_IN[t]) - 1,
         \A i \in 1 .. Len(doc[k].text) : doc[k].text[i] = _JSON__SYMBOLS_IN[t][i]
  PROVE  TokenAt(Begins(k), s) = Lexed("INVALID", Begins(k), Begins(k + 1), s)
<1> DEFINE w == doc[k].text
           b == Begins(k)
           j == Len(w)
           symbol == _JSON__SYMBOLS_IN[t]
<1>1. /\ b \in Nat /\ Size \in Nat /\ Len(symbol) \in Nat /\ j \in Nat
      /\ Begins(k + 1) = b + j /\ Begins(k + 1) = Size
  BY BeginsFacts, InitialsAre, LexemeFacts DEF TextOK
<1>2. j \in 1 .. Len(symbol) - 1 /\ \A i \in 1 .. j : w[i] = symbol[i]
  OBVIOUS
<1>3. j >= 1 /\ j < Len(symbol) /\ j <= Len(symbol) /\ j <= Len(w)
  <2> HIDE DEF w, symbol
  <2> QED
    BY <1>1, <1>2
<1>4. b + j = Size
  BY <1>1
<1>5. /\ TokenAt(b, s) = SymbolLexed(t, b, s)
      /\ SymbolRead(b, symbol) = IF b + j < Size /\ j < Len(symbol) THEN j + 1 ELSE j
  BY <1>1, <1>2, <1>3, <1>4, SymbolPart
<1>6. SymbolRead(b, symbol) = j /\ j # Len(symbol)
  <2> HIDE DEF w, b, symbol
  <2> QED
    BY <1>1, <1>3, <1>4, <1>5
<1>7. SymbolLexed(t, b, s) = Lexed("INVALID", b, Begins(k + 1), s)
  BY <1>1, <1>6, Zenon DEF SymbolLexed
<1> QED
  BY <1>5, <1>7

LEMMA NumberIsRead ==
  ASSUME doc \in Docs, IsDocument(doc), NEW k \in 1 .. Len(doc), NEW s,
         Plain(doc[k].text[1]), Len(doc[k].text) = NumeralAt(DocText, Begins(k))
  PROVE  TokenAt(Begins(k), s) = Lexed("NUMBER", Begins(k), Begins(k + 1), s)
<1> DEFINE b == Begins(k)
           e == Begins(k + 1)
           x == CharAt(b)
<1>1. /\ b \in Nat /\ b < Size /\ Size \in Nat /\ Len(doc[k].text) \in Nat
      /\ Len(doc[k].text) >= 1 /\ e = b + Len(doc[k].text) /\ x = doc[k].text[1]
  BY LexemeFacts DEF TextOK
<1>2. x \notin Puncts /\ Named(x) = {}
  BY <1>1, InitialsAre DEF Plain
<1>3. strtod(b) = e
  BY <1>1 DEF strtod
<1>4. ~ (b >= Size) /\ e # b
  <2> HIDE DEF b, e
  <2> QED
    BY <1>1
<1> HIDE DEF b, e
<1> QED
  BY <1>2, <1>3, <1>4, Zenon DEF TokenAt, b, e

LEMMA StrayIsRead ==
  ASSUME doc \in Docs, IsDocument(doc), NEW k \in 1 .. Len(doc), NEW s,
         Plain(doc[k].text[1]), NumeralAt(DocText, Begins(k)) = 0
  PROVE  TokenAt(Begins(k), s) = Lexed("INVALID", Begins(k), Begins(k), s)
<1> DEFINE b == Begins(k)
           x == CharAt(b)
<1>1. b \in Nat /\ b < Size /\ Size \in Nat /\ x = doc[k].text[1]
  BY LexemeFacts DEF TextOK
<1>2. x \notin Puncts /\ x # Quote /\ Named(x) = {}
  BY <1>1, InitialsAre DEF Plain
<1>3. strtod(b) = b
  BY <1>1 DEF strtod
<1>4. ~ (b >= Size)
  BY <1>1
<1> HIDE DEF b
<1> QED
  BY <1>2, <1>3, <1>4, Zenon DEF TokenAt, b

\* Where no number begins
LEMMA NoNumber ==
  ASSUME TextOK, NEW b \in Nat, b < Size, CharAt(b) \notin NumeralCharacters
  PROVE  strtod(b) = b
<1> DEFINE n == NumeralAt(DocText, b)
<1>1. n \in 0 .. Size - b /\ (n # 0 => IsNumeral(Part(b, n))) /\ Size \in Nat
  BY NumeralFacts DEF TextOK
<1>2. ASSUME n # 0 PROVE FALSE
  <2>1. Part(b, n) = [i \in 1 .. n |-> DocText[b + i]]
    <3>1. Part(b, n) = SubSeq(DocText, b + 1, b + n)
      BY DEF Part
    <3> HIDE DEF n
    <3>2. SubSeq(DocText, b + 1, b + n) = [i \in 1 .. n |-> DocText[b + i]]
      <4>1. SubSeq(DocText, b + 1, b + n)
              = [i \in 1 .. (1 + (b + n) - (b + 1)) |-> DocText[i + (b + 1) - 1]]
        BY <1>1
      <4>2. 1 + (b + n) - (b + 1) = n /\ \A i \in 1 .. n : i + (b + 1) - 1 = b + i
        BY <1>1
      <4> QED
        BY <4>1, <4>2
    <3> QED
      BY <3>1, <3>2
  <2>2. Range(Part(b, n)) \subseteq NumeralCharacters
    BY <1>1, <1>2, Zenon DEF IsNumeral
  <2> HIDE DEF n
  <2>3. 1 \in 1 .. n
    BY <1>1, <1>2
  <2>4. DocText[b + 1] \in Range(Part(b, n))
    BY <2>1, <2>3 DEF Range
  <2>5. CharAt(b) = DocText[b + 1]
    BY DEF CharAt
  <2> QED
    BY <2>2, <2>4, <2>5
<1> QED
  BY <1>1, <1>2 DEF strtod

\* What is read behind a quote
LEMMA QuoteIsRead ==
  ASSUME TextOK, NEW b \in Nat, b < Size, NEW s, NEW e, CharAt(b) = Quote, StringEnd(b + 1) = e
  PROVE  TokenAt(b, s) = IF e < Size THEN Lexed("STRING", b, e + 1, [at |-> b + 1, len |-> e - b - 1])
                         ELSE Lexed("INVALID", b, e, [at |-> b + 1, len |-> e - b - 1])
<1>1. CharAt(b) \notin Puncts /\ CharAt(b) \notin Initials /\ CharAt(b) \notin NumeralCharacters
  BY KindsOfCharacters
<1>2. strtod(b) = b /\ Named(CharAt(b)) = {}
  BY <1>1, InitialsAre, NoNumber
<1>3. ~ (b >= Size)
  BY DEF TextOK
<1> QED
  BY <1>1, <1>2, <1>3, Zenon DEF TokenAt

LEMMA CutStringIsRead ==
  ASSUME doc \in Docs, IsDocument(doc), NEW k \in 1 .. Len(doc), k = Len(doc), NEW s,
         \A i \in 1 .. Len(doc[k].text) : doc[k].text[i] = Quote <=> i = 1
  PROVE  TokenAt(Begins(k), s) =
           Lexed("INVALID", Begins(k), Begins(k + 1),
                 [at |-> Begins(k) + 1, len |-> Begins(k + 1) - Begins(k) - 1])
<1> DEFINE w == doc[k].text
           b == Begins(k)
           e == Begins(k + 1)
<1>1. /\ b \in Nat /\ b < Size /\ Size \in Nat /\ TextOK /\ e = Size
      /\ Len(w) \in Nat /\ Len(w) >= 1 /\ e = b + Len(w)
      /\ \A p \in b .. e - 1 : CharAt(p) = w[p - b + 1]
      /\ CharAt(b) = w[1]
  BY BeginsFacts, LexemeFacts DEF TextOK
<1>2. \A i \in 1 .. Len(w) : w[i] = Quote <=> i = 1
  OBVIOUS
<1> HIDE DEF w, b, e
<1>3. CharAt(b) = Quote
  <2>1. 1 \in 1 .. Len(w)
    BY <1>1
  <2> QED
    BY <1>1, <1>2, <2>1
<1>4. \A p \in b + 1 .. e - 1 : CharAt(p) # Quote
  <2>1. TAKE p \in b + 1 .. e - 1
  <2>2. p \in b .. e - 1 /\ p - b + 1 \in 1 .. Len(w) /\ p - b + 1 # 1
    BY <1>1
  <2> QED
    BY <1>1, <1>2, <2>2
<1>5. StringEnd(b + 1) = e
  <2>1. b + 1 \in Nat /\ e \in b + 1 .. Size
    BY <1>1
  <2> QED
    BY <1>1, <1>4, <2>1, StringEndIs
<1>6. ~ (e < Size)
  BY <1>1
<1> QED
  BY <1>1, <1>3, <1>5, <1>6, QuoteIsRead DEF b, e

LEMMA StringIsRead ==
  ASSUME doc \in Docs, IsDocument(doc), NEW k \in 1 .. Len(doc), NEW s,
         doc[k].text = <<Quote>> \o doc[k].value \o <<Quote>>,
         \A j \in 1 .. Len(doc[k].value) : doc[k].value[j] # Quote
  PROVE  /\ TokenAt(Begins(k), s) =
              Lexed("STRING", Begins(k), Begins(k + 1),
                    [at |-> Begins(k) + 1, len |-> Len(doc[k].value)])
         /\ Len(doc[k].text) = Len(doc[k].value) + 2 /\ doc[k].text[1] = Quote
         /\ \A j \in 1 .. Len(doc[k].value) : doc[k].text[j + 1] = doc[k].value[j]
         /\ doc[k].text[Len(doc[k].value) + 2] = Quote
<1> DEFINE w == doc[k].text
           v == doc[k].value
           b == Begins(k)
           e == Begins(k + 1)
<1>1. /\ b \in Nat /\ b < Size /\ Size \in Nat /\ TextOK /\ e <= Size
      /\ e = b + Len(w)
      /\ \A p \in b .. e - 1 : CharAt(p) = w[p - b + 1]
      /\ CharAt(b) = w[1]
  BY LexemeFacts DEF TextOK
<1>2. v \in Seq(STRING) /\ Len(v) \in Nat
  BY DocFacts, LenProperties
<1>3. w = <<Quote>> \o v \o <<Quote>> /\ \A j \in 1 .. Len(v) : v[j] # Quote
  OBVIOUS
<1> HIDE DEF w, v, b, e
<1>5. /\ Len(w) = Len(v) + 2 /\ w[1] = Quote /\ w[Len(v) + 2] = Quote
      /\ \A j \in 1 .. Len(v) : w[j + 1] = v[j]
  <2> DEFINE Q == Quote
             S == STRING \cup {Q}
  <2>1. w = <<Q>> \o v \o <<Q>>
    BY <1>3
  <2> HIDE DEF Q
  <2>5. Q \in S /\ v \in Seq(S)
    <3>1. STRING \subseteq S /\ Q \in S
      OBVIOUS
    <3> HIDE DEF S
    <3> QED
      BY <1>2, <3>1, SeqMonotonic
  <2> HIDE DEF S
  <2>2. Len(w) = Len(v) + 2
    BY <2>5, <1>2, <2>1
  <2>3. w[1] = Q /\ w[Len(v) + 2] = Q
    BY <2>5, <1>2, <2>1
  <2>4. \A j \in 1 .. Len(v) : w[j + 1] = v[j]
    BY <2>5, <1>2, <2>1
  <2> QED
    BY <2>2, <2>3, <2>4 DEF Q
<1>6. \A p \in b + 1 .. b + Len(v) : CharAt(p) # Quote
  <2>1. TAKE p \in b + 1 .. b + Len(v)
  <2>2. p \in b .. e - 1 /\ p - b \in 1 .. Len(v)
    BY <1>1, <1>2, <1>5
  <2>3. CharAt(p) = v[p - b]
    BY <1>1, <1>5, <2>2
  <2> QED
    BY <1>3, <2>2, <2>3
<1> DEFINE z == b + 1 + Len(v)
<1>7. z \in b + 1 .. Size /\ z - 1 = b + Len(v) /\ z + 1 = e /\ z < Size /\ z - b - 1 = Len(v)
      /\ z \in b .. e - 1 /\ z - b + 1 = Len(v) + 2
  <2>1. b \in Nat /\ Len(v) \in Nat /\ e = b + (Len(v) + 2) /\ e <= Size /\ Size \in Nat
    BY <1>1, <1>2, <1>5
  <2> HIDE DEF v
  <2> QED
    BY <2>1
<1> HIDE DEF z
<1>8. CharAt(z) = Quote
  BY <1>1, <1>5, <1>7
<1>9. StringEnd(b + 1) = z
  <2>1. b + 1 \in Nat /\ \A p \in b + 1 .. z - 1 : CharAt(p) # Quote
    <3>1. z - 1 = b + Len(v) /\ b + 1 \in Nat
      BY <1>1, <1>7
    <3> QED
      BY <1>6, <3>1
  <2> QED
    BY <1>1, <1>7, <1>8, <2>1, StringEndIs
<1>10. TokenAt(b, s) = Lexed("STRING", b, z + 1, [at |-> b + 1, len |-> z - b - 1])
  BY <1>1, <1>5, <1>7, <1>9, QuoteIsRead
<1>11. TokenAt(b, s) = Lexed("STRING", b, e, [at |-> b + 1, len |-> Len(v)])
  BY <1>7, <1>10
<1> QED
  BY <1>5, <1>11 DEF w, v, b, e

\* What a lexeme is read as: its kind, and the cursor behind it, or before a mistake.
Took(t, s, k) ==
  \E e, v :
    /\ t = Lexed(doc[k].kind, Begins(k), e, v)
    /\ e = Begins(k + 1) \/ (doc[k].kind = "INVALID" /\ e = Begins(k))
    /\ doc[k].kind = "STRING" => v = [at |-> Begins(k) + 1, len |-> Len(doc[k].value)]
    /\ doc[k].kind = ":" => v = s

\* A mistake that passes for a symbol
Mistook(t, k) ==
  \E u \in DOMAIN _JSON__SYMBOLS_IN : \E v :
    /\ doc[k].kind = "INVALID" /\ NearlySpells(doc[k].text, u)
    /\ t = Lexed(u, Begins(k), Begins(k + 1), v)

LEMMA KindsApart ==
  /\ \A x \in Puncts : x \notin {"STRING", "INVALID", "NUMBER", "EOF", "SPACE"}
  /\ \A x \in DOMAIN _JSON__SYMBOLS_IN : x \notin {"STRING", "INVALID", "NUMBER", "EOF", "SPACE", ":"}
<1>1. \A x \in Puncts : x \notin {"STRING", "INVALID", "NUMBER", "EOF", "SPACE"}
  BY DEF Puncts
<1>2. \A x \in {"TRUE", "FALSE", "NULL"} :
         x \notin {"STRING", "INVALID", "NUMBER", "EOF", "SPACE", ":"}
  OBVIOUS
<1> QED
  BY <1>1, <1>2, SymbolNames

\* All of them together
LEMMA TokenTook ==
  ASSUME doc \in Docs, IsDocument(doc), NEW k \in 1 .. Len(doc), doc[k].kind # "SPACE", NEW s
  PROVE  Took(TokenAt(Begins(k), s), s, k) \/ Mistook(TokenAt(Begins(k), s), k)
<1> DEFINE x == doc[k]
           t == TokenAt(Begins(k), s)
           n == NumeralAt(DocText, Begins(k))
<1>1. \/ x.kind \in Puncts /\ x.text = <<x.kind>>
      \/ x.kind \in DOMAIN _JSON__SYMBOLS_IN /\ x.text = _JSON__SYMBOLS_IN[x.kind]
      \/ x.kind = "NUMBER" /\ Plain(x.text[1]) /\ Len(x.text) = n
      \/ /\ x.kind = "STRING" /\ x.text = <<Quote>> \o x.value \o <<Quote>>
         /\ \A j \in 1 .. Len(x.value) : x.value[j] # Quote
      \/ /\ x.kind = "INVALID"
         /\ \/ Plain(x.text[1]) /\ n = 0
            \/ (\E u \in DOMAIN _JSON__SYMBOLS_IN : Misspells(x.text, u))
            \/ IsCut(x.text) /\ k = Len(doc)
  <2>1. IsLexeme(doc, k)
    BY LexemeFacts
  <2> QED
    BY <2>1, Zenon DEF IsLexeme, DocText, Begins
<1>2. CASE x.kind \in Puncts /\ x.text = <<x.kind>>
  <2>1. t = Lexed(x.kind, Begins(k), Begins(k + 1), s)
    BY <1>2, PunctuationRead
  <2>2. x.kind # "STRING"
    BY <1>2, KindsApart
  <2> QED
    BY <2>1, <2>2, Zenon DEF Took
<1>3. CASE x.kind \in DOMAIN _JSON__SYMBOLS_IN /\ x.text = _JSON__SYMBOLS_IN[x.kind]
  <2>1. t = Lexed(x.kind, Begins(k), Begins(k + 1), s)
    BY <1>3, SymbolIsRead
  <2>2. x.kind # "STRING"
    BY <1>3, KindsApart
  <2> QED
    BY <2>1, <2>2, Zenon DEF Took
<1>4. CASE x.kind = "NUMBER" /\ Plain(x.text[1]) /\ Len(x.text) = n
  <2>1. t = Lexed(x.kind, Begins(k), Begins(k + 1), s)
    BY <1>4, NumberIsRead
  <2>2. x.kind # "STRING"
    BY <1>4
  <2> QED
    BY <2>1, <2>2, Zenon DEF Took
<1>5. CASE /\ x.kind = "STRING" /\ x.text = <<Quote>> \o x.value \o <<Quote>>
           /\ \A j \in 1 .. Len(x.value) : x.value[j] # Quote
  <2>1. t = Lexed(x.kind, Begins(k), Begins(k + 1),
                  [at |-> Begins(k) + 1, len |-> Len(x.value)])
    BY <1>5, StringIsRead
  <2>2. x.kind # ":"
    BY <1>5
  <2> QED
    BY <2>1, <2>2, Zenon DEF Took
<1>6. CASE /\ x.kind = "INVALID"
           /\ \/ Plain(x.text[1]) /\ n = 0
              \/ (\E u \in DOMAIN _JSON__SYMBOLS_IN : Misspells(x.text, u))
              \/ IsCut(x.text) /\ k = Len(doc)
  <2>1. x.kind # "STRING" /\ x.kind # ":" /\ x.kind = "INVALID"
    BY <1>6
  <2>2. CASE Plain(x.text[1]) /\ n = 0
    <3>1. t = Lexed("INVALID", Begins(k), Begins(k), s)
      BY <2>2, StrayIsRead
    <3> QED
      BY <2>1, <3>1, Zenon DEF Took
  <2>3. CASE \E u \in DOMAIN _JSON__SYMBOLS_IN : Misspells(x.text, u)
    <3>1. PICK u \in DOMAIN _JSON__SYMBOLS_IN : Misspells(x.text, u)
      BY <2>3
    <3>2. t = Lexed(IF Len(x.text) = Len(_JSON__SYMBOLS_IN[u]) THEN u ELSE "INVALID",
                    Begins(k), Begins(k + 1), s)
      BY <3>1, MisspeltIsRead
    <3>3. CASE Len(x.text) = Len(_JSON__SYMBOLS_IN[u])
      <4>1. t = Lexed(u, Begins(k), Begins(k + 1), s) /\ NearlySpells(x.text, u)
        BY <3>1, <3>2, <3>3, Zenon DEF NearlySpells
      <4> QED
        BY <2>1, <4>1, Zenon DEF Mistook
    <3>4. CASE Len(x.text) # Len(_JSON__SYMBOLS_IN[u])
      <4>1. t = Lexed("INVALID", Begins(k), Begins(k + 1), s)
        BY <3>2, <3>4, Zenon
      <4> QED
        BY <2>1, <4>1, Zenon DEF Took
    <3> QED
      BY <3>3, <3>4
  <2>4. CASE IsCut(x.text) /\ k = Len(doc)
    <3>1. \/ \E u \in DOMAIN _JSON__SYMBOLS_IN :
               /\ Len(x.text) \in 1 .. Len(_JSON__SYMBOLS_IN[u]) - 1
               /\ \A i \in 1 .. Len(x.text) : x.text[i] = _JSON__SYMBOLS_IN[u][i]
          \/ \A i \in 1 .. Len(x.text) : x.text[i] = Quote <=> i = 1
      BY <2>4, Zenon DEF IsCut
    <3>2. CASE \E u \in DOMAIN _JSON__SYMBOLS_IN :
               /\ Len(x.text) \in 1 .. Len(_JSON__SYMBOLS_IN[u]) - 1
               /\ \A i \in 1 .. Len(x.text) : x.text[i] = _JSON__SYMBOLS_IN[u][i]
      <4>1. t = Lexed("INVALID", Begins(k), Begins(k + 1), s)
        BY <2>4, <3>2, CutSymbolIsRead
      <4> QED
        BY <2>1, <4>1, Zenon DEF Took
    <3>3. CASE \A i \in 1 .. Len(x.text) : x.text[i] = Quote <=> i = 1
      <4>1. t = Lexed("INVALID", Begins(k), Begins(k + 1),
                      [at |-> Begins(k) + 1, len |-> Begins(k + 1) - Begins(k) - 1])
        BY <2>4, <3>3, CutStringIsRead
      <4> QED
        BY <2>1, <4>1, Zenon DEF Took
    <3> QED
      BY <3>1, <3>2, <3>3
  <2> QED
    BY <1>6, <2>2, <2>3, <2>4
<1> QED
  BY <1>1, <1>2, <1>3, <1>4, <1>5, <1>6

\* Only a space begins with one.
LEMMA NotBlank ==
  ASSUME doc \in Docs, IsDocument(doc), NEW k \in 1 .. Len(doc), doc[k].kind # "SPACE"
  PROVE  CharAt(Begins(k)) # Blank
<1> DEFINE x == doc[k]
           w == x.text
<1>1. IsLexeme(doc, k) /\ CharAt(Begins(k)) = w[1] /\ Len(w) \in Nat /\ Len(w) >= 1
      /\ w \in Seq(STRING)
  BY LexemeFacts
<1>2. Blank \notin Puncts \cup Initials /\ Blank # Quote
  BY KindsOfCharacters
<1>3. SUFFICES w[1] # Blank
  BY <1>1
<1>4. ASSUME x.kind \in Puncts, w = <<x.kind>> PROVE w[1] # Blank
  <2>1. w[1] \in Puncts
    BY <1>4
  <2> HIDE DEF w
  <2> QED
    BY <1>2, <2>1
<1>5. ASSUME NEW u \in DOMAIN _JSON__SYMBOLS_IN, w[1] = _JSON__SYMBOLS_IN[u][1]
      PROVE  w[1] # Blank
  <2>1. w[1] \in Initials
    BY <1>5, InitialsAre
  <2> HIDE DEF w
  <2> QED
    BY <1>2, <2>1
<1>6. ASSUME Plain(w[1]) PROVE w[1] # Blank
  BY <1>6, Zenon DEF Plain
<1>7. ASSUME NEW u \in DOMAIN _JSON__SYMBOLS_IN, Misspells(w, u) PROVE w[1] # Blank
  <2>1. /\ Len(w) \in 2 .. Len(_JSON__SYMBOLS_IN[u])
        /\ \A i \in 1 .. Len(w) : w[i] = _JSON__SYMBOLS_IN[u][i] <=> i < Len(w)
    BY <1>7, Zenon DEF Misspells
  <2>2. 1 \in 1 .. Len(w) /\ 1 < Len(w)
    <3>1. Len(_JSON__SYMBOLS_IN[u]) \in Nat
      BY InitialsAre
    <3> HIDE DEF w
    <3> QED
      BY <1>1, <2>1, <3>1
  <2>3. w[1] = _JSON__SYMBOLS_IN[u][1]
    BY <2>1, <2>2, Zenon
  <2> QED
    BY <1>5, <2>3
<1>8. ASSUME IsCut(w) PROVE w[1] # Blank
  <2>1. 1 \in 1 .. Len(w)
    <3> HIDE DEF w
    <3> QED
      BY <1>1
  <2>2. (\E u \in DOMAIN _JSON__SYMBOLS_IN : w[1] = _JSON__SYMBOLS_IN[u][1]) \/ w[1] = Quote
    BY <1>8, <2>1, Zenon DEF IsCut
  <2> QED
    BY <1>2, <1>5, <2>2
<1>9. ASSUME x.kind = "STRING", w = <<Quote>> \o x.value \o <<Quote>>,
             \A j \in 1 .. Len(x.value) : x.value[j] # Quote
      PROVE  w[1] # Blank
  <2>1. w[1] = Quote
    BY <1>9, StringIsRead
  <2> QED
    BY <1>2, <2>1
<1>10. ASSUME x.kind \in DOMAIN _JSON__SYMBOLS_IN, w = _JSON__SYMBOLS_IN[x.kind]
       PROVE  w[1] # Blank
  BY <1>5, <1>10
<1> QED
  BY <1>1, <1>4, <1>6, <1>7, <1>8, <1>9, <1>10, Zenon DEF IsLexeme

\* The next token from the beginning of a lexeme is the next lexeme that is no space.
NextLexeme(i) ==
  \/ _Json__skip_whitespace(Begins(i)) = Size /\ AheadFrom(i) = <<>>
  \/ \E k \in 1 .. Len(doc) :
       /\ doc[k].kind # "SPACE" /\ _Json__skip_whitespace(Begins(i)) = Begins(k)
       /\ AheadFrom(i) = AheadFrom(k)

\* Skipping from a space ends where skipping from behind it does.
LEMMA SpaceSkipped ==
  ASSUME doc \in Docs, IsDocument(doc), NEW i \in 1 .. Len(doc), doc[i].kind = "SPACE"
  PROVE  _Json__skip_whitespace(Begins(i)) = _Json__skip_whitespace(Begins(i + 1))
<1> DEFINE b == Begins(i)
           e == Begins(i + 1)
           z == _Json__skip_whitespace(e)
           w == doc[i].text
<1>1. /\ b \in Nat /\ Size \in Nat /\ TextOK /\ e <= Size /\ e = b + Len(w) /\ Len(w) \in Nat
      /\ \A p \in b .. e - 1 : CharAt(p) = w[p - b + 1]
  BY LexemeFacts DEF TextOK
<1>2. \A j \in 1 .. Len(w) : w[j] = Blank
  <2>1. IsLexeme(doc, i) /\ doc[i].kind \notin Puncts
        /\ doc[i].kind \notin DOMAIN _JSON__SYMBOLS_IN
        /\ doc[i].kind \notin {"NUMBER", "STRING", "INVALID"}
    BY LexemeFacts, KindsApart
  <2> QED
    BY <2>1, Zenon DEF IsLexeme
<1>3. z \in e .. Size /\ (z = Size \/ CharAt(z) # Blank) /\ \A p \in e .. z - 1 : CharAt(p) = Blank
  <2>1. e \in Nat
    BY <1>1
  <2> HIDE DEF e
  <2> QED
    BY <1>1, <2>1, SkipFacts
<1> HIDE DEF b, e, z, w
<1>4. \A p \in b .. z - 1 : CharAt(p) = Blank
  <2>1. TAKE p \in b .. z - 1
  <2>2. CASE p < e
    <3>1. p \in b .. e - 1 /\ p - b + 1 \in 1 .. Len(w)
      BY <1>1, <1>3, <2>2
    <3> QED
      BY <1>1, <1>2, <3>1
  <2>3. CASE ~ (p < e)
    <3>1. p \in e .. z - 1
      BY <1>1, <1>3, <2>3
    <3> QED
      BY <1>3, <3>1
  <2> QED
    BY <2>2, <2>3
<1>5. z \in b .. Size
  BY <1>1, <1>3
<1>6. _Json__skip_whitespace(b) = z
  BY <1>1, <1>3, <1>4, <1>5, SkipIs
<1> QED
  BY <1>6 DEF b, e, z

LEMMA SpacesSkipped ==
  ASSUME doc \in Docs, IsDocument(doc)
  PROVE  \A i \in 1 .. Len(doc) + 1 : NextLexeme(i)
<1> DEFINE n == Len(doc)
           D == {m \in 0 .. n : ~ NextLexeme(n + 1 - m)}
<1>1. n \in Nat /\ Size \in Nat /\ TextOK
  BY DocFacts, TextIsText DEF TextOK
<1>2. NextLexeme(n + 1)
  <2>1. Begins(n + 1) = Size /\ AheadFrom(n + 1) = <<>>
    BY AheadFromFacts, BeginsFacts
  <2>2. \A p \in Size .. Size - 1 : CharAt(p) = Blank
    BY <1>1
  <2>3. Size \in Size .. Size
    BY <1>1
  <2>4. _Json__skip_whitespace(Size) = Size
    BY <1>1, <2>2, <2>3, SkipIs
  <2> QED
    BY <2>1, <2>4 DEF NextLexeme
<1>3. ASSUME NEW i \in 1 .. n, NextLexeme(i + 1) PROVE NextLexeme(i)
  <2>1. CASE doc[i].kind = "SPACE"
    <3>1. _Json__skip_whitespace(Begins(i)) = _Json__skip_whitespace(Begins(i + 1))
      BY <2>1, SpaceSkipped
    <3>2. AheadFrom(i) = AheadFrom(i + 1)
      BY <2>1, AheadFromFacts
    <3> QED
      BY <1>3, <3>1, <3>2, Zenon DEF NextLexeme
  <2>2. CASE doc[i].kind # "SPACE"
    <3>1. CharAt(Begins(i)) # Blank /\ Begins(i) \in Nat /\ Begins(i) < Size
      BY <2>2, LexemeFacts, NotBlank
    <3>2. Begins(i) \in Begins(i) .. Size /\ \A p \in Begins(i) .. Begins(i) - 1 : CharAt(p) = Blank
      BY <1>1, <3>1
    <3>3. _Json__skip_whitespace(Begins(i)) = Begins(i)
      BY <1>1, <3>1, <3>2, SkipIs
    <3> QED
      BY <2>2, <3>3 DEF NextLexeme
  <2> QED
    BY <2>1, <2>2
<1>4. D = {}
  <2>1. SUFFICES ASSUME D # {} PROVE FALSE
    OBVIOUS
  <2>2. PICK m \in D : \A y \in D : m <= y
    <3>1. D \subseteq Nat
      BY <1>1
    <3> HIDE DEF D
    <3> QED
      BY <2>1, <3>1, LeastNatural
  <2>3. m \in 0 .. n /\ ~ NextLexeme(n + 1 - m)
    OBVIOUS
  <2>4. m # 0
    <3>1. n + 1 - 0 = n + 1
      BY <1>1
    <3> QED
      BY <1>2, <2>3, <3>1
  <2>5. m - 1 \in 0 .. n /\ ~ (m <= m - 1) /\ n + 1 - m \in 1 .. n
        /\ n + 1 - (m - 1) = (n + 1 - m) + 1
    BY <1>1, <2>3, <2>4
  <2>6. m - 1 \notin D
    <3> HIDE DEF D
    <3> QED
      BY <2>2, <2>5
  <2>7. NextLexeme((n + 1 - m) + 1)
    BY <2>5, <2>6
  <2> QED
    BY <1>3, <2>3, <2>5, <2>7
<1>5. ASSUME NEW i \in 1 .. n + 1 PROVE NextLexeme(i)
  <2>1. n + 1 - i \in 0 .. n /\ n + 1 - (n + 1 - i) = i
    BY <1>1
  <2>2. n + 1 - i \notin D
    <3> HIDE DEF D
    <3> QED
      BY <1>4
  <2> QED
    BY <2>1, <2>2
<1> QED
  BY <1>5

-----------------------------------------------------------------------------
(* One call of the abstract reader; r is what is left to be read, q afterwards *)

KindOf(r, i)  == IF i <= Len(r) THEN r[i].kind ELSE "EOF"
ValueOf(r, i) == IF i <= Len(r) THEN r[i].value ELSE <<>>
Beyond(r, i)  == SubSeq(r, i + 1, Len(r))

TakesOf(r, i, q) ==
  \/ KindOf(r, i) # "EOF" /\ q = Beyond(r, i)
  \/ KindOf(r, i) = "INVALID" /\ q = Beyond(r, i - 1)
  \/ KindOf(r, i) = "EOF" /\ q = <<>>

LEMMA BeyondFacts ==
  ASSUME NEW r \in Seq(LexemeSet), NEW i \in Nat, i <= Len(r)
  PROVE  /\ Beyond(r, 0) = r
         /\ Beyond(r, i) \in Seq(LexemeSet)
         /\ Beyond(r, i) = <<>> => i = Len(r) /\ KindOf(r, i + 1) = "EOF"
         /\ Len(Beyond(r, i)) = Len(r) - i
         /\ \A j \in 1 .. Len(r) - i : Beyond(r, i)[j] = r[i + j]
<1>1. Len(r) \in Nat
  OBVIOUS
<1>2. Beyond(r, 0) = r
  <2>1. Beyond(r, 0) = SubSeq(r, 1, Len(r))
    BY DEF Beyond
  <2> QED
    BY <1>1, <2>1
<1>3. Beyond(r, i) \in Seq(LexemeSet) /\ Len(Beyond(r, i)) = Len(r) - i
      /\ \A j \in 1 .. Len(r) - i : Beyond(r, i)[j] = r[i + j]
  <2> HIDE DEF LexemeSet
  <2> QED
    BY <1>1 DEF Beyond
<1>4. Beyond(r, i) = <<>> => i = Len(r) /\ KindOf(r, i + 1) = "EOF"
  <2>1. SUFFICES ASSUME Beyond(r, i) = <<>> PROVE i = Len(r) /\ KindOf(r, i + 1) = "EOF"
    OBVIOUS
  <2>2. Len(r) - i = 0
    BY <1>3, <2>1
  <2>3. i = Len(r) /\ ~ (i + 1 <= Len(r))
    BY <1>1, <2>2
  <2> QED
    BY <2>3 DEF KindOf
<1> QED
  BY <1>2, <1>3, <1>4

\* If x and q are left behind i tokens, x is the next and q is left behind it.
LEMMA BeyondOne ==
  ASSUME NEW r \in Seq(LexemeSet), NEW i \in Nat, i <= Len(r),
         NEW x \in LexemeSet, NEW q \in Seq(LexemeSet), Beyond(r, i) = <<x>> \o q
  PROVE  i + 1 <= Len(r) /\ r[i + 1] = x /\ q = Beyond(r, i + 1)
<1>1. /\ Len(r) \in Nat /\ Len(Beyond(r, i)) = Len(r) - i
      /\ \A j \in 1 .. Len(r) - i : Beyond(r, i)[j] = r[i + j]
  BY BeyondFacts, LenProperties
<1>2. Len(Beyond(r, i)) = 1 + Len(q) /\ Beyond(r, i)[1] = x /\ Len(q) \in Nat
      /\ \A j \in 1 .. Len(q) : Beyond(r, i)[j + 1] = q[j]
  OBVIOUS
<1>3. Len(q) = Len(r) - (i + 1) /\ i + 1 <= Len(r) /\ 1 \in 1 .. Len(r) - i
  BY <1>1, <1>2
<1>4. r[i + 1] = x
  BY <1>1, <1>2, <1>3
<1>5. \A j \in 1 .. Len(q) : q[j] = r[i + 1 + j]
  <2>1. TAKE j \in 1 .. Len(q)
  <2>2. j + 1 \in 1 .. Len(r) - i /\ i + (j + 1) = i + 1 + j
    BY <1>2, <1>3
  <2> QED
    BY <1>1, <1>2, <2>2
<1>6. /\ Beyond(r, i + 1) \in Seq(LexemeSet) /\ Len(Beyond(r, i + 1)) = Len(q)
      /\ \A j \in 1 .. Len(q) : Beyond(r, i + 1)[j] = r[i + 1 + j]
  <2>1. i + 1 \in Nat /\ i + 1 <= Len(r)
    BY <1>3
  <2>2. /\ Beyond(r, i + 1) \in Seq(LexemeSet) /\ Len(Beyond(r, i + 1)) = Len(r) - (i + 1)
        /\ \A j \in 1 .. Len(r) - (i + 1) : Beyond(r, i + 1)[j] = r[i + 1 + j]
    BY <2>1, BeyondFacts
  <2> QED
    BY <1>3, <2>2
<1>7. q = Beyond(r, i + 1)
  BY <1>2, <1>5, <1>6, SeqEqual
<1> QED
  BY <1>3, <1>4, <1>7

LEMMA PartIs ==
  ASSUME TextOK, NEW b \in Nat, NEW w \in Seq(STRING), b + Len(w) <= Size,
         \A j \in 1 .. Len(w) : CharAt(b + j - 1) = w[j]
  PROVE  Part(b, Len(w)) = w
<1>1. DocText \in Seq(STRING) /\ Len(DocText) = Size /\ Size \in Nat /\ Len(w) \in Nat
  BY DEF TextOK
<1>2. \A j \in 1 .. Len(w) : DocText[b + j] = w[j]
  <2>1. TAKE j \in 1 .. Len(w)
  <2>2. b + j - 1 < Size /\ b + j - 1 + 1 = b + j
    BY <1>1
  <2>3. CharAt(b + j - 1) = w[j]
    OBVIOUS
  <2> QED
    BY <2>2, <2>3 DEF CharAt
<1>3. /\ Part(b, Len(w)) \in Seq(STRING) /\ Len(Part(b, Len(w))) = Len(w)
      /\ \A j \in 1 .. Len(w) : Part(b, Len(w))[j] = DocText[b + j]
  <2>1. b + 1 \in 1 .. Len(DocText) + 1 /\ b + Len(w) \in b + 1 - 1 .. Len(DocText)
    BY <1>1
  <2>2. /\ Part(b, Len(w)) \in Seq(STRING)
        /\ Len(Part(b, Len(w))) = b + Len(w) - (b + 1) + 1
        /\ \A j \in 1 .. b + Len(w) - (b + 1) + 1 : Part(b, Len(w))[j] = DocText[b + 1 + j - 1]
    BY <1>1, <2>1, SubSeqProperties DEF Part
  <2>3. b + Len(w) - (b + 1) + 1 = Len(w) /\ \A j \in 1 .. Len(w) : b + 1 + j - 1 = b + j
    BY <1>1
  <2> QED
    BY <2>2, <2>3
<1>4. \A j \in 1 .. Len(Part(b, Len(w))) : Part(b, Len(w))[j] = w[j]
  BY <1>2, <1>3
<1> QED
  BY <1>3, <1>4, SeqEqual

\* s is where v is written, with a quote behind it.
Spells(s, v) ==
  /\ Part(s.at, s.len) = v /\ s.at \in Nat
  /\ \A j \in 1 .. Len(v) : CharAt(s.at + j - 1) = v[j]
  /\ CharAt(s.at + Len(v)) = Quote

\* What the calls copy out is the value of the lexeme.
LEMMA NumberSpelt ==
  ASSUME doc \in Docs, IsDocument(doc), NEW k \in 1 .. Len(doc), doc[k].kind = "NUMBER"
  PROVE  Part(Begins(k), Begins(k + 1) - Begins(k)) = doc[k].value
<1> DEFINE b == Begins(k)
           e == Begins(k + 1)
           w == doc[k].text
<1>1. /\ b \in Nat /\ Size \in Nat /\ TextOK /\ e <= Size /\ e = b + Len(w) /\ Len(w) \in Nat
      /\ w \in Seq(STRING)
      /\ \A p \in b .. e - 1 : CharAt(p) = w[p - b + 1]
  BY LexemeFacts DEF TextOK
<1>2. doc[k].value = w
  <2>1. IsLexeme(doc, k) /\ doc[k].kind \notin Puncts
        /\ doc[k].kind \notin DOMAIN _JSON__SYMBOLS_IN
        /\ doc[k].kind \notin {"SPACE", "STRING", "INVALID"}
    BY LexemeFacts, KindsApart
  <2> QED
    BY <2>1, Zenon DEF IsLexeme
<1> HIDE DEF b, e, w
<1>3. \A j \in 1 .. Len(w) : CharAt(b + j - 1) = w[j]
  <2>1. TAKE j \in 1 .. Len(w)
  <2>2. b + j - 1 \in b .. e - 1 /\ (b + j - 1) - b + 1 = j
    BY <1>1
  <2> QED
    BY <1>1, <2>2
<1>4. Part(b, Len(w)) = w
  BY <1>1, <1>3, PartIs
<1>5. e - b = Len(w)
  BY <1>1
<1> QED
  BY <1>2, <1>4, <1>5 DEF b, e

LEMMA StringSpelt ==
  ASSUME doc \in Docs, IsDocument(doc), NEW k \in 1 .. Len(doc), doc[k].kind = "STRING"
  PROVE  Spells([at |-> Begins(k) + 1, len |-> Len(doc[k].value)], doc[k].value)
<1> DEFINE b == Begins(k)
           e == Begins(k + 1)
           w == doc[k].text
           v == doc[k].value
<1>1. /\ b \in Nat /\ Size \in Nat /\ TextOK /\ e <= Size /\ e = b + Len(w) /\ Len(w) \in Nat
      /\ v \in Seq(STRING) /\ Len(v) \in Nat
      /\ \A p \in b .. e - 1 : CharAt(p) = w[p - b + 1]
  BY DocFacts, LexemeFacts, LenProperties DEF TextOK
<1>2. /\ w = <<Quote>> \o v \o <<Quote>>
      /\ \A j \in 1 .. Len(v) : v[j] # Quote
  <2>1. IsLexeme(doc, k) /\ doc[k].kind \notin Puncts
        /\ doc[k].kind \notin DOMAIN _JSON__SYMBOLS_IN
        /\ doc[k].kind \notin {"SPACE", "NUMBER", "INVALID"}
    BY LexemeFacts, KindsApart
  <2> QED
    BY <2>1, Zenon DEF IsLexeme
<1>3. /\ Len(w) = Len(v) + 2 /\ w[Len(v) + 2] = Quote
      /\ \A j \in 1 .. Len(v) : w[j + 1] = v[j]
  BY <1>2, StringIsRead
<1> HIDE DEF b, e, w, v
<1>4. \A j \in 1 .. Len(v) : CharAt(b + 1 + j - 1) = v[j]
  <2>1. TAKE j \in 1 .. Len(v)
  <2>2. b + 1 + j - 1 \in b .. e - 1 /\ (b + 1 + j - 1) - b + 1 = j + 1
    BY <1>1, <1>3
  <2> QED
    BY <1>1, <1>3, <2>2
<1>5. CharAt(b + 1 + Len(v)) = Quote
  <2>1. b + 1 + Len(v) \in b .. e - 1 /\ (b + 1 + Len(v)) - b + 1 = Len(v) + 2
    BY <1>1, <1>3
  <2> QED
    BY <1>1, <1>3, <2>1
<1>6. b + 1 \in Nat /\ b + 1 + Len(v) <= Size
  BY <1>1, <1>3
<1>7. Part(b + 1, Len(v)) = v
  BY <1>1, <1>4, <1>6, PartIs
<1>8. Spells([at |-> b + 1, len |-> Len(v)], v)
  BY <1>4, <1>5, <1>6, <1>7 DEF Spells
<1> QED
  BY <1>8 DEF b, v

\* The cursor is where a lexeme begins, or at the end of the text.
Aligned(c) == \E i \in 1 .. Len(doc) + 1 : c = Begins(i)

\* t is token i of r.
Reads(r, i, t, s) ==
  /\ t.token = KindOf(r, i)
  /\ t.ok = (KindOf(r, i) \notin {"EOF", "INVALID"})
  /\ Aligned(t.cur) /\ TakesOf(r, i, AheadAt(t.cur))
  /\ KindOf(r, i) \notin {"EOF", "INVALID"} => i <= Len(r) /\ AheadAt(t.cur) = Beyond(r, i)
  /\ KindOf(r, i) = "NUMBER" => Part(t.start, t.cur - t.start) = ValueOf(r, i)
  /\ KindOf(r, i) = "STRING" => Spells(t.str, ValueOf(r, i))
  /\ KindOf(r, i) = ":" => t.str = s

\* Token i of r is wrong in its last character, and t is the symbol it passes for.
Misreads(r, i, t) ==
  /\ KindOf(r, i) = "INVALID" /\ NearlySpells(r[i].text, t.token)
  /\ t.token \in DOMAIN _JSON__SYMBOLS_IN /\ t.ok = TRUE
  /\ Aligned(t.cur) /\ AheadAt(t.cur) = Beyond(r, i)
Meets(r, i, t, s) == Reads(r, i, t, s) \/ Misreads(r, i, t)

LEMMA LexedIs ==
  ASSUME NEW tok, NEW b, NEW e, NEW v
  PROVE  /\ Lexed(tok, b, e, v).token = tok
         /\ Lexed(tok, b, e, v).ok = (tok \notin {"EOF", "INVALID"})
         /\ Lexed(tok, b, e, v).start = b /\ Lexed(tok, b, e, v).cur = e
         /\ Lexed(tok, b, e, v).str = v
<1> DEFINE t == Lexed(tok, b, e, v)
<1>1. t.token = tok /\ t.start = b /\ t.cur = e /\ t.str = v
  BY DEF Lexed
<1>2. t.ok = (tok \notin {"EOF", "INVALID"})
  BY Zenon DEF Lexed
<1> QED
  BY <1>1, <1>2, Zenon

LEMMA KindIsNoEnd ==
  ASSUME doc \in Docs, IsDocument(doc), NEW k \in 1 .. Len(doc)
  PROVE  doc[k].kind # "EOF"
<1>1. IsLexeme(doc, k)
  BY LexemeFacts
<1>2. doc[k].kind \in Puncts \/ doc[k].kind \in DOMAIN _JSON__SYMBOLS_IN
      \/ doc[k].kind \in {"SPACE", "NUMBER", "STRING", "INVALID"}
  BY <1>1, Zenon DEF IsLexeme
<1> QED
  BY <1>2, KindsApart

\* A token read where i tokens of r are gone is token i + 1 of r.
LEMMA TokenReads ==
  ASSUME doc \in Docs, IsDocument(doc), NEW c, Aligned(c), NEW s,
         NEW r \in Seq(LexemeSet), NEW i \in Nat, i <= Len(r), AheadAt(c) = Beyond(r, i)
  PROVE  Meets(r, i + 1, _Json__next_token(c, s), s)
<1> DEFINE t == _Json__next_token(c, s)
           b == _Json__skip_whitespace(c)
<1> SUFFICES Meets(r, i + 1, t, s)
  OBVIOUS
<1>1. PICK j \in 1 .. Len(doc) + 1 : c = Begins(j)
  BY Zenon DEF Aligned
<1>2. NextLexeme(j) /\ Beyond(r, i) = AheadFrom(j)
  BY <1>1, AheadIs, SpacesSkipped
<1>3. t = TokenAt(b, s)
  BY TokenIsAt
<1>4. Len(doc) \in Nat /\ Size \in Nat /\ TextOK
  BY DocFacts, TextIsText DEF TextOK
<1>5. CASE b = Size /\ AheadFrom(j) = <<>>
  <2>1. t = Lexed("EOF", b, b, s)
    <3>1. b >= Size
      BY <1>4, <1>5
    <3> HIDE DEF b
    <3> QED
      BY <1>3, <3>1, Zenon DEF TokenAt
  <2>2. KindOf(r, i + 1) = "EOF"
    BY <1>2, <1>5, BeyondFacts
  <2>3. /\ t.token = KindOf(r, i + 1) /\ t.ok = (KindOf(r, i + 1) \notin {"EOF", "INVALID"})
        /\ t.cur = Size
    <3> DEFINE K == KindOf(r, i + 1)
    <3>1. t = Lexed(K, b, b, s)
      BY <2>1, <2>2
    <3> HIDE DEF t, b, K
    <3>2. t.token = K /\ t.cur = b
      BY <3>1, LexedIs
    <3>3. Lexed(K, b, b, s).ok = (K \notin {"EOF", "INVALID"})
      BY LexedIs
    <3>4. t.ok = (K \notin {"EOF", "INVALID"})
      BY <3>1, <3>3, Zenon
    <3> QED
      BY <1>5, <3>2, <3>4, Zenon DEF K
  <2>4. Aligned(Size) /\ AheadAt(Size) = <<>>
    <3>1. Len(doc) + 1 \in 1 .. Len(doc) + 1 /\ Begins(Len(doc) + 1) = Size
      BY <1>4, BeginsFacts
    <3>2. AheadAt(Begins(Len(doc) + 1)) = <<>>
      BY <3>1, AheadFromFacts, AheadIs
    <3> QED
      BY <3>1, <3>2, Zenon DEF Aligned
  <2> HIDE DEF t
  <2>5. "EOF" # "NUMBER" /\ "EOF" # "STRING" /\ "EOF" # ":" /\ "EOF" \in {"EOF", "INVALID"}
    OBVIOUS
  <2>6. Reads(r, i + 1, t, s)
    BY <2>2, <2>3, <2>4, <2>5, Zenon DEF Reads, TakesOf
  <2> QED
    BY <2>6, Zenon DEF Meets
<1>6. ASSUME NEW k \in 1 .. Len(doc), doc[k].kind # "SPACE", b = Begins(k),
             AheadFrom(j) = AheadFrom(k), Took(t, s, k)
      PROVE  Reads(r, i + 1, t, s)
  <2> DEFINE x == doc[k]
  <2>2. PICK e, v :
          /\ t = Lexed(x.kind, Begins(k), e, v)
          /\ e = Begins(k + 1) \/ (x.kind = "INVALID" /\ e = Begins(k))
          /\ x.kind = "STRING" => v = [at |-> Begins(k) + 1, len |-> Len(x.value)]
          /\ x.kind = ":" => v = s
    BY <1>6, Zenon DEF Took
  <2>3. /\ t.token = x.kind /\ t.ok = (x.kind \notin {"EOF", "INVALID"})
        /\ t.start = Begins(k) /\ t.cur = e /\ t.str = v
    <3> HIDE DEF t, x
    <3>1. t.token = x.kind /\ t.start = Begins(k) /\ t.cur = e /\ t.str = v
      BY <2>2, LexedIs
    <3>2. t.ok = (x.kind \notin {"EOF", "INVALID"})
      BY <2>2, LexedIs, Zenon
    <3> QED
      BY <3>1, <3>2, Zenon
  <2>4. /\ i + 1 <= Len(r) /\ r[i + 1] = x /\ AheadFrom(k + 1) = Beyond(r, i + 1)
    <3>1. x \in LexemeSet
      <4>1. doc \in Seq(LexemeSet)
        BY DocFacts DEF LexemeSet
      <4> QED
        BY <4>1, ElementOfSeq
    <3>2. AheadFrom(k + 1) \in Seq(LexemeSet) /\ AheadFrom(k) = <<x>> \o AheadFrom(k + 1)
      <4>1. k + 1 \in 1 .. Len(doc) + 1
        BY <1>4
      <4> QED
        BY <1>6, <4>1, AheadFromFacts
    <3>3. Beyond(r, i) = <<x>> \o AheadFrom(k + 1)
      BY <1>2, <1>6, <3>2
    <3> QED
      BY <3>1, <3>2, <3>3, BeyondOne
  <2>5. KindOf(r, i + 1) = x.kind /\ ValueOf(r, i + 1) = x.value
    BY <2>4, Zenon DEF KindOf, ValueOf
  <2>6. Aligned(e)
    <3>1. k \in 1 .. Len(doc) + 1 /\ k + 1 \in 1 .. Len(doc) + 1
      BY <1>4
    <3> QED
      BY <2>2, <3>1, Zenon DEF Aligned
  <2>7. e = Begins(k + 1) => AheadAt(e) = Beyond(r, i + 1)
    <3>1. k + 1 \in 1 .. Len(doc) + 1
      BY <1>4
    <3> QED
      BY <2>4, <3>1, AheadIs
  <2>8. e = Begins(k) => AheadAt(e) = Beyond(r, i + 1 - 1)
    <3>1. k \in 1 .. Len(doc) + 1 /\ i + 1 - 1 = i
      BY <1>4
    <3> QED
      BY <1>2, <1>6, <3>1, AheadIs
  <2>9. x.kind # "EOF"
    BY KindIsNoEnd
  <2>10. TakesOf(r, i + 1, AheadAt(e))
    <3>1. CASE e = Begins(k + 1)
      BY <2>5, <2>7, <2>9, <3>1, Zenon DEF TakesOf
    <3>2. CASE x.kind = "INVALID" /\ e = Begins(k)
      <4>1. KindOf(r, i + 1) = "INVALID"
        BY <2>5, <3>2
      <4>2. AheadAt(e) = Beyond(r, i + 1 - 1)
        BY <2>8, <3>2
      <4> HIDE DEF x
      <4> QED
        BY <4>1, <4>2 DEF TakesOf
    <3>3. e = Begins(k + 1) \/ (x.kind = "INVALID" /\ e = Begins(k))
      BY <2>2
    <3> HIDE DEF x
    <3> QED
      BY <3>1, <3>2, <3>3
  <2>11. x.kind \notin {"EOF", "INVALID"} => i + 1 <= Len(r) /\ AheadAt(e) = Beyond(r, i + 1)
    BY <2>2, <2>4, <2>7
  <2>12. x.kind = "NUMBER" => Part(t.start, t.cur - t.start) = x.value
    <3>1. SUFFICES ASSUME x.kind = "NUMBER" PROVE Part(t.start, t.cur - t.start) = x.value
      OBVIOUS
    <3>2. x.kind # "INVALID"
      BY <3>1
    <3>3. e = Begins(k + 1)
      BY <2>2, <3>2, Zenon
    <3> QED
      BY <2>3, <3>1, <3>3, NumberSpelt
  <2>13. x.kind = "STRING" => Spells(t.str, x.value)
    BY <2>2, <2>3, StringSpelt
  <2>14. x.kind = ":" => t.str = s
    BY <2>2, <2>3
  <2> HIDE DEF t, x
  <2> QED
    BY <2>3, <2>5, <2>6, <2>10, <2>11, <2>12, <2>13, <2>14, Zenon DEF Reads
<1>7. (b = Size /\ AheadFrom(j) = <<>>)
      \/ \E k \in 1 .. Len(doc) :
           doc[k].kind # "SPACE" /\ b = Begins(k) /\ AheadFrom(j) = AheadFrom(k)
  BY <1>1, <1>2, Zenon DEF NextLexeme
<1>8. ASSUME NEW k \in 1 .. Len(doc), doc[k].kind # "SPACE", b = Begins(k),
             AheadFrom(j) = AheadFrom(k), Mistook(t, k)
      PROVE  Misreads(r, i + 1, t)
  <2> DEFINE x == doc[k]
  <2>0. PICK u \in DOMAIN _JSON__SYMBOLS_IN :
          /\ x.kind = "INVALID" /\ NearlySpells(x.text, u)
          /\ \E v : t = Lexed(u, Begins(k), Begins(k + 1), v)
    BY <1>8, Zenon DEF Mistook
  <2>1. PICK v : /\ x.kind = "INVALID" /\ NearlySpells(x.text, u)
                 /\ t = Lexed(u, Begins(k), Begins(k + 1), v)
    BY <2>0
  <2>2. t.token = u /\ t.cur = Begins(k + 1) /\ t.ok = TRUE
    <3> HIDE DEF t, x
    <3>1. t.token = u /\ t.cur = Begins(k + 1) /\ t.ok = (u \notin {"EOF", "INVALID"})
      BY <2>1, LexedIs
    <3>2. u \notin {"EOF", "INVALID"}
      BY KindsApart
    <3> QED
      BY <3>1, <3>2
  <2>3. /\ i + 1 <= Len(r) /\ r[i + 1] = x /\ AheadFrom(k + 1) = Beyond(r, i + 1)
    <3>1. x \in LexemeSet
      <4>1. doc \in Seq(LexemeSet)
        BY DocFacts DEF LexemeSet
      <4> QED
        BY <4>1, ElementOfSeq
    <3>2. AheadFrom(k + 1) \in Seq(LexemeSet) /\ AheadFrom(k) = <<x>> \o AheadFrom(k + 1)
      <4>1. k + 1 \in 1 .. Len(doc) + 1
        BY <1>4
      <4> QED
        BY <1>8, <4>1, AheadFromFacts
    <3>3. Beyond(r, i) = <<x>> \o AheadFrom(k + 1)
      BY <1>2, <1>8, <3>2
    <3> QED
      BY <3>1, <3>2, <3>3, BeyondOne
  <2>4. KindOf(r, i + 1) = "INVALID"
    BY <2>1, <2>3, Zenon DEF KindOf
  <2>5. k + 1 \in 1 .. Len(doc) + 1
    BY <1>4
  <2>6. Aligned(Begins(k + 1)) /\ AheadAt(Begins(k + 1)) = Beyond(r, i + 1)
    BY <2>3, <2>5, AheadIs DEF Aligned
  <2> HIDE DEF t, x
  <2> QED
    BY <2>1, <2>2, <2>3, <2>4, <2>6, Zenon DEF Misreads
<1> QED
  <2>1. \A k \in 1 .. Len(doc) : doc[k].kind # "SPACE" /\ b = Begins(k)
          => Took(t, s, k) \/ Mistook(t, k)
    BY <1>3, TokenTook
  <2> HIDE DEF t, b
  <2> QED
    BY <1>5, <1>6, <1>7, <1>8, <2>1, Zenon DEF Meets

-----------------------------------------------------------------------------
(* The calls and those of the abstract reader *)

\* The words of the abstract reader, for what is ahead
LEMMA ReaderWords ==
  /\ \A i : Reader!Kind(i) = KindOf(Ahead, i) /\ Reader!Value(i) = ValueOf(Ahead, i)
  /\ \A i : Reader!Drop(i) = Beyond(Ahead, i)
BY DEF Reader!Kind, Reader!Value, Reader!Drop, KindOf, ValueOf, Beyond

\* Where the cursor is put is what is left of the document.
LEMMA LeftTakes ==
  ASSUME doc' = doc, NEW i, TakesOf(Ahead, i, AheadAt(cur'))
  PROVE  Reader!TakesUpTo(i)
<1>1. Ahead' = AheadAt(cur')
  BY DEF Ahead, AheadAt, Begins
<1>2. Reader!Kind(i) = KindOf(Ahead, i) /\ Reader!Drop(i) = Beyond(Ahead, i)
      /\ Reader!Drop(i - 1) = Beyond(Ahead, i - 1)
  BY ReaderWords
<1>3. \/ KindOf(Ahead, i) # "EOF" /\ Ahead' = Beyond(Ahead, i)
      \/ KindOf(Ahead, i) = "INVALID" /\ Ahead' = Beyond(Ahead, i - 1)
      \/ KindOf(Ahead, i) = "EOF" /\ Ahead' = <<>>
  BY <1>1 DEF TakesOf
<1> QED
  BY <1>2, <1>3 DEF Reader!TakesUpTo

LEMMA LeftAlone ==
  ASSUME doc' = doc, cur' = cur
  PROVE  Ahead' = Ahead
<1>1. Ahead' = AheadAt(cur')
  BY DEF Ahead, AheadAt, Begins
<1>2. Ahead = AheadAt(cur)
  BY DEF Ahead, AheadAt
<1> QED
  BY <1>1, <1>2

\* The cursor of a document, as opposed to a text, is never inside a lexeme.
ReadInv == JsonInv /\ IsDocument(doc) /\ Aligned(cur)

LEMMA AheadIsSeq ==
  ASSUME ReadInv
  PROVE  doc \in Docs /\ Ahead = AheadAt(cur) /\ Ahead \in Seq(LexemeSet) /\ Len(Ahead) \in Nat
<1>1. doc \in Docs /\ IsDocument(doc)
  BY DEF ReadInv, JsonInv, TypeOK
<1>2. Ahead = AheadAt(cur)
  BY DEF Ahead, AheadAt
<1>3. PICK j \in 1 .. Len(doc) + 1 : cur = Begins(j)
  BY Zenon DEF ReadInv, Aligned
<1>4. AheadAt(cur) = AheadFrom(j) /\ AheadFrom(j) \in Seq(LexemeSet)
  BY <1>1, <1>3, AheadFromFacts, AheadIs
<1> QED
  BY <1>1, <1>2, <1>4, LenProperties

IsToken(i) == KindOf(Ahead, i) \notin {"EOF", "INVALID"}

\* The tokens a call reads are the first ones of what is ahead.
LEMMA FirstReads ==
  ASSUME ReadInv
  PROVE  Meets(Ahead, 1, First, str)
<1>1. IsDocument(doc) /\ Aligned(cur) /\ doc \in Docs /\ Ahead = AheadAt(cur)
      /\ Ahead \in Seq(LexemeSet) /\ Len(Ahead) \in Nat
  BY AheadIsSeq DEF ReadInv
<1>2. 0 \in Nat /\ 0 <= Len(Ahead) /\ 0 + 1 = 1
  BY <1>1
<1>3. Beyond(Ahead, 0) = Ahead
  BY <1>1, <1>2, BeyondFacts
<1>4. Meets(Ahead, 0 + 1, _Json__next_token(cur, str), str)
  BY <1>1, <1>2, <1>3, TokenReads
<1> QED
  BY <1>2, <1>4 DEF First

LEMMA AfterReads ==
  ASSUME ReadInv, NEW i \in Nat, NEW t, NEW s, Reads(Ahead, i, t, s), IsToken(i)
  PROVE  Meets(Ahead, i + 1, After(t), t.str)
<1>1. IsDocument(doc) /\ doc \in Docs /\ Ahead \in Seq(LexemeSet)
  BY AheadIsSeq DEF ReadInv
<1>2. Aligned(t.cur) /\ i <= Len(Ahead) /\ AheadAt(t.cur) = Beyond(Ahead, i)
  BY Zenon DEF Reads, IsToken
<1>3. Meets(Ahead, i + 1, _Json__next_token(t.cur, t.str), t.str)
  BY <1>1, <1>2, TokenReads
<1> QED
  BY <1>3 DEF After

\* What both have in common: a symbol that was misread is a mistake that was taken.
Symbols == DOMAIN _JSON__SYMBOLS_IN

LEMMA MeetsFacts ==
  ASSUME NEW r, NEW i, NEW t, NEW s, Meets(r, i, t, s)
  PROVE  /\ Aligned(t.cur) /\ TakesOf(r, i, AheadAt(t.cur))
         /\ \A x : x \notin Symbols \cup {"INVALID"} => (t.token = x <=> KindOf(r, i) = x)
         /\ t.token \notin Symbols => Reads(r, i, t, s)
<1>1. CASE Reads(r, i, t, s)
  BY <1>1, Zenon DEF Reads
<1>2. CASE Misreads(r, i, t)
  <2>1. KindOf(r, i) = "INVALID" /\ "INVALID" # "EOF" /\ t.token \in Symbols
        /\ Aligned(t.cur) /\ AheadAt(t.cur) = Beyond(r, i)
    BY <1>2, Zenon DEF Misreads, Symbols
  <2> QED
    BY <2>1, Zenon DEF TakesOf
<1> QED
  BY <1>1, <1>2, Zenon DEF Meets

-----------------------------------------------------------------------------
(* The calls that read one token *)

\* What a call may do: what the abstract reader does, or one of the two exceptions.
Promised == Reader!Next \/ KeyPassesPrefix \/ SymbolPasses

\* A call that passes a misspelt symbol
LEMMA SymbolPassed ==
  ASSUME ReadInv, Misreads(Ahead, 1, First), doc' = doc,
         \/ /\ cur' = First.cur
            /\ \/ First.token # "NULL" /\ Reader!Return("bool", TRUE, <<First.token>>)
               \/ Reader!Return("any", TRUE, <<>>)
         \/ cur' = cur /\ Reader!Return("array_item", TRUE, <<>>)
  PROVE  Promised
<1>1. /\ Reader!Kind(1) = "INVALID" /\ NearlySpells(Ahead[1].text, First.token)
      /\ First.token \in DOMAIN _JSON__SYMBOLS_IN
      /\ AheadAt(First.cur) = Reader!Drop(1)
  BY ReaderWords, Zenon DEF Misreads
<1>2. cur' = First.cur => Ahead' = Reader!Drop(1)
  <2>1. Ahead' = AheadAt(cur')
    BY DEF Ahead, AheadAt, Begins
  <2> QED
    BY <1>1, <2>1
<1>3. cur' = cur => Ahead' = Ahead
  BY LeftAlone
<1>4. SymbolPasses
  BY <1>1, <1>2, <1>3, Zenon DEF SymbolPasses
<1> QED
  BY <1>4, Zenon DEF Promised

\* A call that reads one token is one of the abstract reader.
LEMMA OneIs ==
  ASSUME ReadInv, NEW call, NEW kinds, NEW out, NEW gives \in BOOLEAN, Left(First),
         First.token \in kinds <=> KindOf(Ahead, 1) \in kinds,
         Return(call, First.token \in kinds, IF First.token \in kinds THEN out ELSE <<>>),
         First.token \in kinds =>
           out = IF ~gives THEN <<>>
                 ELSE IF call = "bool" THEN <<KindOf(Ahead, 1)>> ELSE ValueOf(Ahead, 1)
  PROVE  Reader!One(call, kinds, gives)
<1> DEFINE k == KindOf(Ahead, 1)
           v == ValueOf(Ahead, 1)
<1>1. TakesOf(Ahead, 1, AheadAt(First.cur))
  BY FirstReads, MeetsFacts
<1>2. doc' = doc /\ cur' = First.cur
  BY DEF Left, LeftAt
<1>3. Reader!TakesUpTo(1)
  BY <1>1, <1>2, LeftTakes
<1>4. Reader!Kind(1) = k /\ Reader!Value(1) = v
  BY ReaderWords
<1>5. ret' = [call |-> call, ok |-> k \in kinds, out |-> IF k \in kinds THEN out ELSE <<>>]
  <2>1. (First.token \in kinds) = (k \in kinds)
    OBVIOUS
  <2> QED
    BY <2>1, Zenon DEF Return
<1>6. (IF k \in kinds THEN out ELSE <<>>)
        = IF ~gives \/ k \notin kinds THEN <<>> ELSE IF call = "bool" THEN <<k>> ELSE v
  <2> HIDE DEF k, v
  <2>1. k \in kinds => out = IF ~gives THEN <<>> ELSE IF call = "bool" THEN <<k>> ELSE v
    BY DEF k, v
  <2>2. CASE k \in kinds
    BY <2>1, <2>2
  <2>3. CASE k \notin kinds
    BY <2>3
  <2> QED
    BY <2>2, <2>3
<1> HIDE DEF k, v
<1>7. ret' = [call |-> call, ok |-> k \in kinds,
              out |-> IF ~gives \/ k \notin kinds THEN <<>>
                      ELSE IF call = "bool" THEN <<k>> ELSE v]
  BY <1>5, <1>6, Zenon
<1> QED
  BY <1>3, <1>4, <1>7, Zenon DEF Reader!One, Reader!Return

LEMMA ExpectIs ==
  ASSUME ReadInv, NEW call, NEW tok, NEW out, NEW gives \in BOOLEAN, call # "bool",
         tok \notin Symbols \cup {"INVALID"},
         Expect(call, tok, out),
         First.token = tok => out = IF ~gives THEN <<>> ELSE ValueOf(Ahead, 1)
  PROVE  Reader!One(call, {tok}, gives)
<1>1. Left(First)
  BY DEF Expect
<1>2. Return(call, First.token = tok, IF First.token = tok THEN out ELSE <<>>)
  BY DEF Expect
<1>3. (First.token = tok) = (First.token \in {tok})
  OBVIOUS
<1>4. (IF First.token = tok THEN out ELSE <<>>)
        = IF First.token \in {tok} THEN out ELSE <<>>
  OBVIOUS
<1>5. Return(call, First.token \in {tok}, IF First.token \in {tok} THEN out ELSE <<>>)
  BY <1>2, <1>3, <1>4, Zenon
<1>6. First.token \in {tok} =>
        out = IF ~gives THEN <<>>
              ELSE IF call = "bool" THEN <<KindOf(Ahead, 1)>> ELSE ValueOf(Ahead, 1)
  OBVIOUS
<1>7. First.token \in {tok} <=> KindOf(Ahead, 1) \in {tok}
  BY FirstReads, MeetsFacts
<1> QED
  BY <1>1, <1>5, <1>6, <1>7, OneIs

\* What a string token is copied from
LEMMA StringIs ==
  ASSUME NEW r, NEW i, NEW t, NEW s, Reads(r, i, t, s), KindOf(r, i) = "STRING"
  PROVE  String(t) = ValueOf(r, i)
BY DEF Reads, Spells, String

LEMMA ReadersOne ==
  ASSUME ReadInv,
         \/ Json__bool \/ Json__number \/ Json__string \/ Json__array_begin \/ Json__array_end
         \/ Json__object_begin \/ Json__object_end
  PROVE  Promised
<1>0. /\ Meets(Ahead, 1, First, str)
      /\ \A x \in {"NUMBER", "STRING", "[", "]", "{", "}"} : x \notin Symbols \cup {"INVALID"}
  BY FirstReads, SymbolNames DEF Symbols
<1>1. CASE Json__bool
  <2> DEFINE kinds == {"TRUE", "FALSE"}
             out == <<First.token>>
  <2>1. Left(First) /\ Return("bool", First.token \in kinds,
                              IF First.token \in kinds THEN out ELSE <<>>)
    BY <1>1, Zenon DEF Json__bool
  <2>2. CASE \/ Reads(Ahead, 1, First, str)
             \/ Misreads(Ahead, 1, First) /\ First.token = "NULL"
    <3>1. First.token \in kinds => First.token = KindOf(Ahead, 1)
      BY <2>2, Zenon DEF Reads
    <3>2. First.token \in kinds <=> KindOf(Ahead, 1) \in kinds
      <4>1. CASE Reads(Ahead, 1, First, str)
        BY <4>1, Zenon DEF Reads
      <4>2. CASE Misreads(Ahead, 1, First) /\ First.token = "NULL"
        <5>1. KindOf(Ahead, 1) = "INVALID"
          BY <4>2, Zenon DEF Misreads
        <5> QED
          BY <4>2, <5>1
      <4> QED
        BY <2>2, <4>1, <4>2
    <3>3. First.token \in kinds =>
            out = IF ~TRUE THEN <<>>
                  ELSE IF "bool" = "bool" THEN <<KindOf(Ahead, 1)>> ELSE ValueOf(Ahead, 1)
      BY <3>1
    <3> HIDE DEF kinds, out
    <3>4. TRUE \in BOOLEAN
      OBVIOUS
    <3>5. Reader!One("bool", kinds, TRUE)
      BY <2>1, <3>2, <3>3, <3>4, OneIs
    <3> QED
      BY <3>5 DEF kinds, Reader!Next, Promised
  <2>3. CASE Misreads(Ahead, 1, First) /\ First.token # "NULL"
    <3>1. First.token \in kinds
      BY <2>3, SymbolNames DEF Misreads
    <3>2. Reader!Return("bool", TRUE, <<First.token>>)
      <4>1. (First.token \in kinds) = TRUE
        BY <3>1
      <4>2. (IF First.token \in kinds THEN out ELSE <<>>) = out
        BY <3>1
      <4> HIDE DEF kinds
      <4> QED
        BY <2>1, <4>1, <4>2, Zenon DEF Return, Reader!Return
    <3>3. doc' = doc /\ cur' = First.cur
      BY <2>1, Zenon DEF Left, LeftAt
    <3> QED
      BY <2>3, <3>2, <3>3, SymbolPassed
  <2> QED
    BY <1>0, <2>2, <2>3, Zenon DEF Meets
<1>2. CASE Json__number
  <2>1. First.token = "NUMBER" =>
          Part(First.start, First.cur - First.start) = IF ~TRUE THEN <<>> ELSE ValueOf(Ahead, 1)
    <3>1. First.token = "NUMBER" => Reads(Ahead, 1, First, str)
      BY <1>0, MeetsFacts
    <3> QED
      BY <3>1 DEF Reads
  <2>2. Reader!One("number", {"NUMBER"}, TRUE)
    BY <1>0, <1>2, <2>1, ExpectIs DEF Json__number
  <2> QED
    BY <2>2 DEF Reader!Next, Promised
<1>3. CASE Json__string
  <2>1. First.token = "STRING" => Reads(Ahead, 1, First, str) /\ KindOf(Ahead, 1) = "STRING"
    BY <1>0, MeetsFacts
  <2>2. First.token = "STRING" => String(First) = IF ~TRUE THEN <<>> ELSE ValueOf(Ahead, 1)
    BY <2>1, StringIs
  <2>3. Reader!One("string", {"STRING"}, TRUE)
    BY <1>0, <1>3, <2>2, ExpectIs DEF Json__string
  <2> QED
    BY <2>3 DEF Reader!Next, Promised
<1>4. CASE Json__array_begin
  <2>1. Reader!One("array_begin", {"["}, FALSE)
    BY <1>0, <1>4, ExpectIs DEF Json__array_begin
  <2> QED
    BY <2>1 DEF Reader!Next, Promised
<1>5. CASE Json__array_end
  <2>1. Reader!One("array_end", {"]"}, FALSE)
    BY <1>0, <1>5, ExpectIs DEF Json__array_end
  <2> QED
    BY <2>1 DEF Reader!Next, Promised
<1>6. CASE Json__object_begin
  <2>1. Reader!One("object_begin", {"{"}, FALSE)
    BY <1>0, <1>6, ExpectIs DEF Json__object_begin
  <2> QED
    BY <2>1 DEF Reader!Next, Promised
<1>7. CASE Json__object_end
  <2>1. Reader!One("object_end", {"}"}, FALSE)
    BY <1>0, <1>7, ExpectIs DEF Json__object_end
  <2> QED
    BY <2>1 DEF Reader!Next, Promised
<1> QED
  BY <1>1, <1>2, <1>3, <1>4, <1>5, <1>6, <1>7

LEMMA ReadersItem ==
  ASSUME ReadInv, Json__array_item
  PROVE  Promised
<1> DEFINE k == KindOf(Ahead, 1)
           c == IF First.ok /\ First.token # "," THEN cur ELSE First.cur
<1>1. Meets(Ahead, 1, First, str) /\ TakesOf(Ahead, 1, AheadAt(First.cur))
  BY FirstReads, MeetsFacts
<1>2. doc' = doc /\ cur' = c
  BY DEF Json__array_item, LeftAt
<1>3. Reader!Kind(1) = k
  BY ReaderWords
<1>4. ret' = [call |-> "array_item", ok |-> First.ok /\ First.token # "]", out |-> <<>>]
  BY Zenon DEF Json__array_item, Return
<1>5. CASE Reads(Ahead, 1, First, str)
  <2>0. First.token = k /\ First.ok = (k \notin {"EOF", "INVALID"})
    BY <1>5, Zenon DEF Reads
  <2> HIDE DEF k
  <2>1. (First.ok /\ First.token # "]") = (k \notin {"]", "EOF", "INVALID"})
    BY <2>0
  <2>2. Reader!Return("array_item", k \notin {"]", "EOF", "INVALID"}, <<>>)
    BY <1>4, <2>1, Zenon DEF Reader!Return
  <2>3. IF k \in {",", "EOF", "INVALID"} THEN Reader!TakesUpTo(1) ELSE UNCHANGED Ahead
    <3>1. CASE k \in {",", "EOF", "INVALID"}
      <4>1. c = First.cur
        BY <2>0, <3>1
      <4>2. Reader!TakesUpTo(1)
        BY <1>1, <1>2, <4>1, LeftTakes
      <4> QED
        BY <3>1, <4>2
    <3>2. CASE k \notin {",", "EOF", "INVALID"}
      <4>1. c = cur
        BY <2>0, <3>2
      <4>2. Ahead' = Ahead
        BY <1>2, <4>1, LeftAlone
      <4> QED
        BY <3>2, <4>2
    <3> QED
      BY <3>1, <3>2
  <2>4. Reader!ArrayItem
    BY <1>3, <2>2, <2>3, Zenon DEF Reader!ArrayItem
  <2> QED
    BY <2>4, Zenon DEF Promised, Reader!Next
<1>6. CASE Misreads(Ahead, 1, First)
  <2>1. First.ok = TRUE /\ First.token # "," /\ First.token # "]"
    BY <1>6, SymbolNames DEF Misreads
  <2>2. cur' = cur
    BY <1>2, <2>1
  <2>3. Reader!Return("array_item", TRUE, <<>>)
    <3>1. (First.ok /\ First.token # "]") = TRUE
      BY <2>1
    <3> QED
      BY <1>4, <3>1, Zenon DEF Reader!Return
  <2> QED
    BY <1>2, <1>6, <2>2, <2>3, SymbolPassed
<1> QED
  BY <1>1, <1>5, <1>6, Zenon DEF Meets

LEMMA ReadersAny ==
  ASSUME ReadInv, Json__any
  PROVE  Promised
<1> DEFINE k == KindOf(Ahead, 1)
<1>1. Meets(Ahead, 1, First, str) /\ TakesOf(Ahead, 1, AheadAt(First.cur))
  BY FirstReads, MeetsFacts
<1>2. doc' = doc /\ cur' = First.cur
  BY DEF Json__any, Left, LeftAt
<1>3. Reader!Kind(1) = k /\ Reader!TakesUpTo(1)
  BY <1>1, <1>2, LeftTakes, ReaderWords
<1>4. ret' = [call |-> "any", ok |-> First.ok, out |-> <<>>]
  BY Zenon DEF Json__any, Return
<1>5. CASE Reads(Ahead, 1, First, str)
  <2>0. First.ok = (k \notin {"EOF", "INVALID"})
    BY <1>5, Zenon DEF Reads
  <2> HIDE DEF k
  <2>1. CASE k \in {"EOF", "INVALID"}
    <3>1. First.ok = FALSE
      BY <2>0, <2>1
    <3>2. Reader!Return("any", FALSE, <<>>)
      BY <1>4, <3>1, Zenon DEF Reader!Return
    <3> QED
      BY <1>3, <2>1, <3>2 DEF Reader!Next, Promised
  <2>2. CASE k \notin {"EOF", "INVALID"}
    <3>1. First.ok = TRUE
      BY <2>0, <2>2
    <3>2. Reader!Return("any", TRUE, <<>>)
      BY <1>4, <3>1, Zenon DEF Reader!Return
    <3> QED
      BY <1>3, <2>2, <3>2 DEF Reader!Next, Promised
  <2> QED
    BY <2>1, <2>2
<1>6. CASE Misreads(Ahead, 1, First)
  <2>1. Reader!Return("any", TRUE, <<>>)
    BY <1>4, <1>6, Zenon DEF Misreads, Reader!Return
  <2> QED
    BY <1>2, <1>6, <2>1, SymbolPassed
<1> QED
  BY <1>1, <1>5, <1>6, Zenon DEF Meets

-----------------------------------------------------------------------------
(* The calls that read a key *)

\* The key that begins with token i of what is ahead.
KeyReads(i, k) ==
  LET kind == KindOf(Ahead, i)
      n == IF kind = "STRING" THEN i + 1 ELSE i
  IN  /\ Aligned(k.at.cur) /\ TakesOf(Ahead, n, AheadAt(k.at.cur))
      /\ k.ok = (kind = "STRING" /\ KindOf(Ahead, i + 1) = ":")
      /\ k.out = IF kind = "STRING" THEN ValueOf(Ahead, i) ELSE <<>>
      /\ k.ok => Spells(k.at.str, ValueOf(Ahead, i))

\* A string and a colon are a key, anything else is none.
LEMMA KeyFromReads ==
  ASSUME ReadInv, NEW i \in Nat, NEW t, NEW s, Meets(Ahead, i, t, s)
  PROVE  KeyReads(i, KeyFrom(t))
<1> DEFINE kind == KindOf(Ahead, i)
<1>0. "STRING" \notin Symbols \cup {"INVALID"} /\ ":" \notin Symbols \cup {"INVALID"}
  BY SymbolNames DEF Symbols
<1>1. /\ t.token = "STRING" <=> kind = "STRING"
      /\ Aligned(t.cur) /\ TakesOf(Ahead, i, AheadAt(t.cur))
  BY <1>0, MeetsFacts
<1>2. CASE kind # "STRING"
  <2> DEFINE k == [at |-> t, ok |-> FALSE, out |-> <<>>]
  <2>1. KeyFrom(t) = k
    BY <1>1, <1>2, Zenon DEF KeyFrom
  <2>2. k.at = t /\ k.ok = FALSE /\ k.out = <<>>
    OBVIOUS
  <2>3. FALSE = (kind = "STRING" /\ KindOf(Ahead, i + 1) = ":")
    BY <1>2
  <2> HIDE DEF k
  <2>4. KeyReads(i, k)
    BY <1>1, <1>2, <2>2, <2>3 DEF KeyReads
  <2> QED
    BY <2>1, <2>4
<1>3. CASE kind = "STRING"
  <2> DEFINE c == After(t)
             k == [at |-> c, ok |-> c.token = ":", out |-> String(t)]
  <2>1. KeyFrom(t) = k
    BY <1>1, <1>3, Zenon DEF KeyFrom
  <2>2. k.at = c /\ k.out = String(t)
    OBVIOUS
  <2>3. k.ok = (c.token = ":")
    BY Zenon
  <2>4. IsToken(i)
    BY <1>3 DEF IsToken
  <2>11. Reads(Ahead, i, t, s)
    BY <1>0, <1>1, <1>3, MeetsFacts
  <2>5. Meets(Ahead, i + 1, c, t.str)
    BY <2>4, <2>11, AfterReads
  <2>6. /\ c.token = ":" <=> KindOf(Ahead, i + 1) = ":"
        /\ Aligned(c.cur) /\ TakesOf(Ahead, i + 1, AheadAt(c.cur))
        /\ (KindOf(Ahead, i + 1) = ":" => c.str = t.str)
    <3> HIDE DEF c
    <3>1. /\ c.token = ":" <=> KindOf(Ahead, i + 1) = ":"
          /\ Aligned(c.cur) /\ TakesOf(Ahead, i + 1, AheadAt(c.cur))
          /\ c.token = ":" => Reads(Ahead, i + 1, c, t.str)
      BY <1>0, <2>5, MeetsFacts
    <3>2. c.token = ":" => (KindOf(Ahead, i + 1) = ":" => c.str = t.str)
      BY <3>1, Zenon DEF Reads
    <3> QED
      BY <3>1, <3>2
  <2>7. String(t) = ValueOf(Ahead, i) /\ Spells(t.str, ValueOf(Ahead, i))
    BY <1>3, <2>11, StringIs DEF Reads
  <2> HIDE DEF c, k
  <2>8. k.ok => Spells(k.at.str, ValueOf(Ahead, i))
    BY <2>2, <2>3, <2>6, <2>7
  <2>9. k.ok = (kind = "STRING" /\ KindOf(Ahead, i + 1) = ":")
    BY <1>3, <2>3, <2>6
  <2>10. KeyReads(i, k)
    BY <1>3, <2>2, <2>6, <2>7, <2>8, <2>9, Zenon DEF KeyReads
  <2> QED
    BY <2>1, <2>10
<1> QED
  BY <1>2, <1>3

\* A comma before the key is passed over.
LEMMA KeyIsRead ==
  ASSUME ReadInv
  PROVE  KeyReads(Reader!KeyAt, Key)
<1>1. Meets(Ahead, 1, First, str) /\ (First.token = "," <=> KindOf(Ahead, 1) = ",")
      /\ (First.token = "," => Reads(Ahead, 1, First, str))
  <2>1. "," \notin Symbols \cup {"INVALID"}
    BY SymbolNames DEF Symbols
  <2> QED
    BY <2>1, FirstReads, MeetsFacts
<1>2. Reader!KeyAt = IF KindOf(Ahead, 1) = "," THEN 2 ELSE 1
  BY ReaderWords DEF Reader!KeyAt
<1>3. CASE First.token = ","
  <2>1. IsToken(1)
    BY <1>1, <1>3 DEF IsToken
  <2>2. Meets(Ahead, 1 + 1, After(First), First.str)
    BY <1>1, <1>3, <2>1, AfterReads
  <2>3. 1 + 1 = 2 /\ 2 \in Nat
    OBVIOUS
  <2>4. KeyReads(2, KeyFrom(After(First)))
    BY <2>2, <2>3, KeyFromReads
  <2> QED
    BY <1>1, <1>2, <1>3, <2>4 DEF Key
<1>4. CASE First.token # ","
  <2>1. KeyReads(1, KeyFrom(First))
    BY <1>1, KeyFromReads
  <2> QED
    BY <1>1, <1>2, <1>4, <2>1 DEF Key
<1> QED
  BY <1>3, <1>4

\* A call for a key leaves what the abstract one does.
LEMMA ReadersReadKey ==
  ASSUME ReadInv, First.token # "}", Left(Key.at)
  PROVE  Reader!ReadKey
<1> DEFINE i == Reader!KeyAt
           n == IF KindOf(Ahead, i) = "STRING" THEN i + 1 ELSE i
<1>1. TakesOf(Ahead, n, AheadAt(Key.at.cur))
  BY KeyIsRead, Zenon DEF KeyReads
<1>2. doc' = doc /\ cur' = Key.at.cur
  BY DEF Left, LeftAt
<1>3. Reader!TakesUpTo(n)
  BY <1>1, <1>2, LeftTakes
<1>4. Reader!Kind(1) # "}" /\ Reader!Kind(i) = KindOf(Ahead, i)
  <2>1. "}" \notin Symbols \cup {"INVALID"}
    BY SymbolNames DEF Symbols
  <2> QED
    BY <2>1, FirstReads, MeetsFacts, ReaderWords
<1> QED
  BY <1>3, <1>4, Zenon DEF Reader!ReadKey

\* The end of an object is only looked at.
LEMMA ReadersNoKey ==
  ASSUME ReadInv, First.token = "}", LeftAt(First, cur)
  PROVE  /\ Reader!ReadKey /\ Reader!HasKey = FALSE
         /\ Reader!Kind(Reader!KeyAt) # "STRING"
<1>1. Ahead' = Ahead
  BY LeftAlone DEF LeftAt
<1>2. Reader!Kind(1) = "}"
  <2>1. "}" \notin Symbols \cup {"INVALID"}
    BY SymbolNames DEF Symbols
  <2> QED
    BY <2>1, FirstReads, MeetsFacts, ReaderWords
<1>3. Reader!ReadKey
  BY <1>1, <1>2 DEF Reader!ReadKey
<1>4. Reader!KeyAt = 1
  BY <1>2 DEF Reader!KeyAt
<1> QED
  BY <1>2, <1>3, <1>4 DEF Reader!HasKey

LEMMA ReadersKey ==
  ASSUME ReadInv, Json__object_key
  PROVE  Reader!ObjectKey
<1> DEFINE i == Reader!KeyAt
<1>1. CASE First.token = "}"
  <2>1. LeftAt(First, cur) /\ Return("object_key", FALSE, <<>>)
    BY <1>1, Zenon DEF Json__object_key
  <2>2. /\ Reader!ReadKey /\ Reader!HasKey = FALSE /\ Reader!Kind(i) # "STRING"
    BY <1>1, <2>1, ReadersNoKey
  <2>3. ret' = [call |-> "object_key", ok |-> FALSE, out |-> <<>>]
    BY <2>1, Zenon DEF Return
  <2> QED
    BY <2>2, <2>3, Zenon DEF Reader!ObjectKey, Reader!Return
<1>2. CASE First.token # "}"
  <2>1. Left(Key.at) /\ Return("object_key", Key.ok, Key.out)
    BY <1>2, Zenon DEF Json__object_key
  <2>2. Reader!ReadKey
    BY <1>2, <2>1, ReadersReadKey
  <2>3. Key.ok = (Reader!Kind(i) = "STRING" /\ Reader!Kind(i + 1) = ":")
        /\ Key.out = IF Reader!Kind(i) = "STRING" THEN Reader!Value(i) ELSE <<>>
    BY KeyIsRead, ReaderWords, Zenon DEF KeyReads
  <2>4. ret' = [call |-> "object_key", ok |-> Key.ok, out |-> Key.out]
    BY <2>1, Zenon DEF Return
  <2> QED
    BY <2>2, <2>3, <2>4, Zenon DEF Reader!ObjectKey, Reader!Return, Reader!HasKey
<1> QED
  BY <1>1, <1>2

\* strncmp stops at the quote behind the key if not before.
LEMMA PrefixIs ==
  ASSUME NEW s, NEW v \in Seq(STRING), Spells(s, v), NEW expected, IsName(expected)
  PROVE  ([j \in 1 .. Len(expected) |-> CharAt(s.at + j - 1)] = expected)
           = IsPrefix(expected, v)
<1> DEFINE m == Len(expected)
           n == Len(v)
           key == [j \in 1 .. m |-> CharAt(s.at + j - 1)]
<1>1. expected \in Seq(STRING) /\ m \in Nat /\ n \in Nat
      /\ \A j \in 1 .. m : expected[j] # Quote
  BY LenProperties DEF IsName
<1>2. s.at \in Nat /\ (\A j \in 1 .. n : CharAt(s.at + j - 1) = v[j]) /\ CharAt(s.at + n) = Quote
  BY DEF Spells
<1>3. IsPrefix(expected, v) <=> m <= n /\ SubSeq(expected, 1, m) = SubSeq(v, 1, m)
  BY DEF IsPrefix
<1>4. ASSUME key = expected PROVE m <= n /\ SubSeq(expected, 1, m) = SubSeq(v, 1, m)
  <2>1. \A j \in 1 .. m : CharAt(s.at + j - 1) = expected[j]
    <3>1. \A j \in 1 .. m : key[j] = CharAt(s.at + j - 1)
      OBVIOUS
    <3> HIDE DEF key, m
    <3> QED
      BY <1>4, <3>1
  <2>2. m <= n
    <3>1. SUFFICES ASSUME ~ (m <= n) PROVE FALSE
      OBVIOUS
    <3>2. n + 1 \in 1 .. m /\ s.at + (n + 1) - 1 = s.at + n
      <4> HIDE DEF m, n
      <4> QED
        BY <1>1, <1>2, <3>1
    <3> QED
      BY <1>1, <1>2, <2>1, <3>2
  <2>3. \A j \in 1 .. m : expected[j] = v[j]
    <3>1. \A j \in 1 .. m : j \in 1 .. n
      <4> HIDE DEF m, n
      <4> QED
        BY <1>1, <2>2
    <3> QED
      BY <1>2, <2>1, <3>1
  <2>4. SubSeq(expected, 1, m) = SubSeq(v, 1, m)
    <3>1. /\ SubSeq(expected, 1, m) \in Seq(STRING) /\ Len(SubSeq(expected, 1, m)) = m
          /\ \A j \in 1 .. m : SubSeq(expected, 1, m)[j] = expected[j]
      BY <1>1
    <3>2. /\ SubSeq(v, 1, m) \in Seq(STRING) /\ Len(SubSeq(v, 1, m)) = m
          /\ \A j \in 1 .. m : SubSeq(v, 1, m)[j] = v[j]
      <4> HIDE DEF m
      <4> QED
        BY <1>1, <2>2
    <3> HIDE DEF m
    <3> QED
      BY <2>3, <3>1, <3>2, SeqEqual
  <2> QED
    BY <2>2, <2>4
<1>5. ASSUME m <= n, SubSeq(expected, 1, m) = SubSeq(v, 1, m) PROVE key = expected
  <2>1. \A j \in 1 .. m : expected[j] = v[j] /\ j \in 1 .. n
    <3>1. \A j \in 1 .. m : SubSeq(expected, 1, m)[j] = expected[j]
      BY <1>1
    <3>2. \A j \in 1 .. m : SubSeq(v, 1, m)[j] = v[j] /\ j \in 1 .. n
      <4> HIDE DEF m
      <4> QED
        BY <1>1, <1>5
    <3> HIDE DEF m
    <3> QED
      BY <1>5, <3>1, <3>2
  <2>2. \A j \in 1 .. m : CharAt(s.at + j - 1) = expected[j]
    BY <1>2, <2>1
  <2>3. key = [j \in 1 .. m |-> expected[j]]
    BY <2>2
  <2>4. expected = [j \in 1 .. m |-> expected[j]]
    BY <1>1
  <2> QED
    BY <2>3, <2>4
<1> HIDE DEF key, m, n
<1>6. (key = expected) \in BOOLEAN /\ IsPrefix(expected, v) \in BOOLEAN
  BY Zenon DEF IsPrefix
<1>7. (key = expected) <=> IsPrefix(expected, v)
  BY <1>3, <1>4, <1>5
<1>8. (key = expected) = IsPrefix(expected, v)
  BY <1>6, <1>7
<1> QED
  BY <1>8 DEF key, m

LEMMA PrefixOfItself ==
  ASSUME NEW v \in Seq(STRING)
  PROVE  IsPrefix(v, v)
<1>1. Len(v) \in Nat
  BY LenProperties
<1> QED
  BY <1>1 DEF IsPrefix

LEMMA ReadersKeyIs ==
  ASSUME ReadInv, NEW expected \in Keys, IsName(expected), Json__object_key_is(expected)
  PROVE  Promised
<1> DEFINE i == Reader!KeyAt
           v == ValueOf(Ahead, i)
           key == [j \in 1 .. Len(expected) |-> CharAt(Key.at.str.at + j - 1)]
<1>1. CASE First.token = "}"
  <2>1. LeftAt(First, cur) /\ Return("object_key_is", FALSE, expected)
    BY <1>1, Zenon DEF Json__object_key_is
  <2>2. Reader!ReadKey /\ Reader!HasKey = FALSE
    BY <1>1, <2>1, ReadersNoKey
  <2>3. ret' = [call |-> "object_key_is", ok |-> FALSE, out |-> expected]
    BY <2>1, Zenon DEF Return
  <2>4. (Reader!HasKey /\ Reader!Value(i) = expected) = FALSE
    BY <2>2, Zenon
  <2>5. Reader!ObjectKeyIs(expected)
    BY <2>2, <2>3, <2>4, Zenon DEF Reader!ObjectKeyIs, Reader!Return
  <2> QED
    BY <2>5, Zenon DEF Promised, Reader!Next
<1>2. CASE First.token # "}"
  <2>1. Left(Key.at) /\ Return("object_key_is", Key.ok /\ key = expected, expected)
    BY <1>2, Zenon DEF Json__object_key_is
  <2>2. Reader!ReadKey
    BY <1>2, <2>1, ReadersReadKey
  <2>3. Key.ok = Reader!HasKey
    BY KeyIsRead, ReaderWords, Zenon DEF KeyReads, Reader!HasKey
  <2>4. (Key.ok /\ key = expected) = (Reader!HasKey /\ IsPrefix(expected, v))
        /\ v \in Seq(STRING)
    <3>3. v \in Seq(STRING)
      <4>1. Ahead \in Seq(LexemeSet) /\ Len(Ahead) \in Nat /\ i \in {1, 2}
        BY AheadIsSeq DEF Reader!KeyAt
      <4>2. CASE i <= Len(Ahead)
        <5>1. i \in 1 .. Len(Ahead)
          BY <4>1, <4>2
        <5>2. Ahead[i] \in LexemeSet
          BY <4>1, <5>1, ElementOfSeq
        <5>3. Ahead[i].value \in Seq(STRING)
          BY <5>2 DEF LexemeSet
        <5> QED
          BY <4>2, <5>3 DEF ValueOf
      <4>3. CASE ~ (i <= Len(Ahead))
        BY <4>3 DEF ValueOf
      <4> QED
        BY <4>2, <4>3
    <3>1. CASE Key.ok
      <4>1. Spells(Key.at.str, v)
        BY <3>1, KeyIsRead, Zenon DEF KeyReads
      <4>2. (key = expected) = IsPrefix(expected, v)
        BY <3>3, <4>1, PrefixIs
      <4> HIDE DEF key, v
      <4> QED
        BY <2>3, <3>1, <3>3, <4>2, Zenon
    <3>2. CASE ~ Key.ok
      <4> HIDE DEF key, v
      <4> QED
        BY <2>3, <3>2, <3>3, Zenon
    <3> QED
      BY <3>1, <3>2
  <2>5. ret' = [call |-> "object_key_is", ok |-> Key.ok /\ key = expected, out |-> expected]
    BY <2>1, Zenon DEF Return
  <2>6. Reader!Value(i) = v
    BY ReaderWords
  <2> HIDE DEF key, v, i
  <2>7. Reader!Return("object_key_is", Reader!HasKey /\ IsPrefix(expected, v), expected)
    BY <2>4, <2>5, Zenon DEF Reader!Return
  <2>8. CASE Reader!HasKey /\ IsPrefix(expected, v) /\ expected # v
    <3>1. (Reader!HasKey /\ IsPrefix(expected, v)) = TRUE
      BY <2>8, Zenon DEF IsPrefix
    <3>2. Reader!Return("object_key_is", TRUE, expected)
      BY <2>7, <3>1, Zenon
    <3>3. KeyPassesPrefix
      BY <2>2, <2>6, <2>8, <3>2, Zenon DEF KeyPassesPrefix, i
    <3> QED
      BY <3>3, Zenon DEF Promised
  <2>9. CASE ~ (Reader!HasKey /\ IsPrefix(expected, v) /\ expected # v)
    <3>1. (Reader!HasKey /\ IsPrefix(expected, v)) = (Reader!HasKey /\ v = expected)
      <4>1. v = expected => IsPrefix(expected, v)
        BY <2>4, PrefixOfItself
      <4>2. Reader!HasKey \in BOOLEAN /\ IsPrefix(expected, v) \in BOOLEAN
        BY Zenon DEF Reader!HasKey, IsPrefix
      <4> QED
        BY <2>9, <4>1, <4>2
    <3>2. Reader!ObjectKeyIs(expected)
      BY <2>2, <2>6, <2>7, <3>1, Zenon DEF Reader!ObjectKeyIs, i
    <3> QED
      BY <3>2, Zenon DEF Promised, Reader!Next
  <2> QED
    BY <2>8, <2>9
<1> QED
  BY <1>1, <1>2

-----------------------------------------------------------------------------
(* The refinement *)

\* A new parser has the whole document ahead.
LEMMA ReadInit ==
  ASSUME AreReadable, JsonInit
  PROVE  ReadInv /\ Reader!Init
<1>1. JsonInv /\ doc \in Docs
  BY JsonInitInv DEF JsonInit
<1>2. IsDocument(doc)
  BY <1>1, Zenon DEF AreReadable
<1>3. 1 \in 1 .. Len(doc) + 1 /\ cur = Begins(1)
  BY <1>1, BeginsFacts, DocFacts DEF JsonInit
<1>4. Aligned(cur)
  BY <1>3, Zenon DEF Aligned
<1>5. Ahead = Reader!Meaning(doc)
  <2>1. Ahead = AheadFrom(1)
    BY <1>1, <1>2, <1>3, AheadIs DEF Ahead, AheadAt
  <2>2. [i \in DOMAIN doc |-> Given(1, i)]
          = [i \in DOMAIN doc |-> IF doc[i].kind = "SPACE" THEN <<>> ELSE <<doc[i]>>]
    <3>1. \A i \in DOMAIN doc : ~ (i < 1)
      BY <1>1, DocFacts
    <3>2. \A i \in DOMAIN doc : Given(1, i) = IF doc[i].kind = "SPACE" THEN <<>> ELSE <<doc[i]>>
      BY <3>1, Zenon DEF Given
    <3> QED
      BY <3>2, Zenon
  <2>3. \A q : Reader!FlattenSeq(q) = FlattenSeq(q)
    BY Zenon DEF Reader!FlattenSeq, FlattenSeq
  <2> QED
    BY <2>1, <2>2, <2>3, Zenon DEF AheadFrom, Reader!Meaning
<1>6. Ahead \in {Reader!Meaning(d) : d \in Docs}
  BY <1>1, <1>5
<1>7. ret = [call |-> "none", ok |-> FALSE, out |-> <<>>]
  BY DEF JsonInit
<1> QED
  BY <1>1, <1>2, <1>4, <1>6, <1>7, Zenon DEF ReadInv, Reader!Init

\* The cursor stays where a lexeme begins.
LEMMA StaysAligned ==
  ASSUME ReadInv, JsonNext
  PROVE  doc' = doc /\ Aligned(cur')
<1>1. Aligned(cur) /\ Aligned(First.cur)
  BY FirstReads, MeetsFacts DEF ReadInv
<1>2. Aligned(Key.at.cur)
  BY KeyIsRead, Zenon DEF KeyReads
<1>3. \/ \E t : Left(t) /\ Aligned(t.cur)
      \/ \E t, c : LeftAt(t, c) /\ Aligned(c)
  <2>1. CASE \/ Json__bool \/ Json__number \/ Json__string \/ Json__array_begin
             \/ Json__array_end \/ Json__object_begin \/ Json__object_end \/ Json__any
    <3>1. Left(First)
      BY <2>1, Zenon DEF Json__bool, Json__number, Json__string, Json__array_begin,
         Json__array_end, Json__object_begin, Json__object_end, Json__any, Expect
    <3> QED
      BY <1>1, <3>1
  <2>2. CASE Json__array_item
    <3> DEFINE c == IF First.ok /\ First.token # "," THEN cur ELSE First.cur
    <3>1. LeftAt(First, c)
      BY <2>2, Zenon DEF Json__array_item
    <3>2. Aligned(c)
      BY <1>1
    <3> QED
      BY <3>1, <3>2, Zenon
  <2>3. ASSUME NEW call, NEW ok, NEW out,
               \/ LeftAt(First, cur) \/ Left(Key.at)
        PROVE  \/ \E t : Left(t) /\ Aligned(t.cur)
               \/ \E t, c : LeftAt(t, c) /\ Aligned(c)
    BY <1>1, <1>2, <2>3
  <2>4. CASE Json__object_key
    BY <2>3, <2>4, Zenon DEF Json__object_key
  <2>5. CASE \E expected \in Keys : Json__object_key_is(expected)
    BY <2>3, <2>5, Zenon DEF Json__object_key_is
  <2> QED
    BY <2>1, <2>2, <2>4, <2>5, Zenon DEF JsonNext
<1> QED
  BY <1>3, Zenon DEF Left, LeftAt

\* Every call is one of the abstract reader's, or one of the exceptions.
LEMMA ReadStep ==
  ASSUME AreReadable, ReadInv, [JsonNext]_jsonVars
  PROVE  ReadInv' /\ [Promised]_<<Ahead, ret>>
<1>1. JsonInv'
  BY JsonNextInv DEF ReadInv
<1>2. ASSUME doc' = doc, Aligned(cur') PROVE ReadInv'
  <2>1. IsDocument(doc') <=> IsDocument(doc)
    BY <1>2
  <2>2. Aligned(cur)'
    BY <1>2 DEF Aligned, Begins
  <2> QED
    BY <1>1, <2>1, <2>2 DEF ReadInv
<1>3. CASE JsonNext
  <2>1. ReadInv'
    BY <1>2, <1>3, StaysAligned
  <2>2. CASE \/ Json__bool \/ Json__number \/ Json__string \/ Json__array_begin
             \/ Json__array_end \/ Json__object_begin \/ Json__object_end
    BY <2>1, <2>2, ReadersOne
  <2>3. CASE Json__any
    BY <2>1, <2>3, ReadersAny
  <2>4. CASE Json__array_item
    BY <2>1, <2>4, ReadersItem
  <2>5. CASE Json__object_key
    BY <2>1, <2>5, ReadersKey DEF Promised, Reader!Next
  <2>6. CASE \E expected \in Keys : Json__object_key_is(expected)
    <3>1. PICK expected \in Keys : Json__object_key_is(expected)
      BY <2>6
    <3>2. IsName(expected)
      BY Zenon DEF AreReadable
    <3>3. Promised
      BY <3>1, <3>2, ReadersKeyIs
    <3> QED
      BY <2>1, <3>3
  <2> QED
    BY <1>3, <2>2, <2>3, <2>4, <2>5, <2>6, Zenon DEF JsonNext
<1>4. CASE UNCHANGED jsonVars
  <2>1. doc' = doc /\ cur' = cur /\ ret' = ret
    BY <1>4 DEF jsonVars
  <2>2. Aligned(cur')
    BY <2>1 DEF ReadInv
  <2>3. ReadInv'
    BY <1>2, <2>1, <2>2
  <2>4. Ahead' = Ahead
    BY <2>1, LeftAlone
  <2> QED
    BY <2>1, <2>3, <2>4
<1> QED
  BY <1>3, <1>4

\* Whatever calls are made in whatever order on a document that keeps to the grammar of
\* AreReadable, Json__* read its lexemes one after another, as TokenReader does: the
\* cursor (Json.cur) never stops inside a lexeme, none is skipped or read twice, and
\* what a call answers and copies out is the kind and the value of the one it read, but
\* for a key that only begins with the name asked for (Json.c:353) and a word that is
\* wrong in its last character (Json.c:159).
THEOREM JsonReadsTokens ==
  ASSUME AreReadable
  PROVE  JsonSpec => ReadsTokens
<1>1. JsonInit => ReadInv /\ Reader!Init
  BY ReadInit
<1>2. ReadInv /\ [JsonNext]_jsonVars => ReadInv' /\ [Promised]_<<Ahead, ret>>
  BY ReadStep
<1>3. [Promised]_<<Ahead, ret>>
        => [Reader!Next \/ KeyPassesPrefix \/ SymbolPasses]_(Reader!trvars)
  BY Zenon DEF Promised, Reader!trvars
<1> QED
  BY <1>1, <1>2, <1>3, PTL DEF JsonSpec, ReadsTokens
=================================================================================
