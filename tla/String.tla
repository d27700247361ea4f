--------------------------------- MODULE String ---------------------------------
(***************************************************************************)
(* The strings of src/common/String.c: views of a text in static memory    *)
(* and of copies in an arena.                                              *)
(*                                                                         *)
(* A Str8 is where its first character is, a length of 16 bits, whether it *)
(* is a slice (a string that is none ends with NUL), and what it lives as  *)
(* long as.  Memory is one character per address: the text, from Base on   *)
(* the arena, and at Top what is behind the arena.  The program has a few  *)
(* Str8, and keeps the C strings it was given.                             *)
(*                                                                         *)
(* Careless names what the program does not look after; the functions do   *)
(* not look after it, either.                                              *)
(***************************************************************************)
EXTENDS Integers, Sequences, FiniteSets, FiniteSetsExt, Scan

CONSTANTS
  Names,     (* the program's Str8                                          *)
  Texts,     (* the texts static memory may hold                            *)
  Formats,   (* formats of Str8__scan                                       *)
  Room,      (* size of the arena                                           *)
  U16,       (* stands for 2^16                                             *)
  MAXLEN,    (* maxlen of cstr__vformat                                     *)
  Dumps,     (* lengths SZ_print prints                                     *)
  DUMP,      (* the size of its debug array                                 *)
  EOVERFLOW, (* TRUE: snprintf refuses a size above INT_MAX                 *)
  Careless

ASSUME StringBounds ==
  /\ Room \in Nat /\ U16 \in Nat /\ MAXLEN \in Nat \ {0}
  /\ DUMP \in Nat /\ Dumps \subseteq Nat \ {0}
ASSUME StringTexts ==     \* C strings
  /\ Texts # {}
  /\ \A t \in Texts : t \in Seq(STRING) /\ Len(t) < U16 /\ \A i \in DOMAIN t : t[i] # "NUL"
ASSUME StringFormats == \A format \in Formats : format \in Seq(STRING)
ASSUME StringSwitches ==
  /\ Careless \subseteq {"separator", "sum", "fresh", "deferred", "maxlen", "edge", "zero"}
  /\ EOVERFLOW \in BOOLEAN

NULL   == -1
Lifetime == {"STATIC", "STACK", "ARENA1"}
Base   == 1 + Max({Len(t) : t \in Texts})
Top    == Base + Room
Lower  == ("A" :> "a")
Folded(c) == IF c \in DOMAIN Lower THEN Lower[c] ELSE c      \* Str8__toUpperC
Slash  == {"/"}                                     \* Str8__isSlashC: '/' and '\\'

VARIABLES
  mem,      \* what memory holds
  buffers,  \* [lo, hi]: the text and the arena's blocks, their last byte at hi
  pos,      \* the arena's position
  view,     \* the program's Str8
  given,    \* C strings handed out: where, and what they said then
  wild      \* a byte was read or written that is no function's to use

vars == <<mem, buffers, pos, view, given, wild>>

\* What Str8__stack() returns.
Stack == [at |-> NULL, len |-> 0, slice |-> FALSE, life |-> "STACK"]
Views == [at : {NULL} \cup 0 .. Top, len : 0 .. U16 - 1, slice : BOOLEAN, life : Lifetime]

Init ==
  \E t \in Texts :
    /\ mem = [i \in 0 .. Top |-> IF i < Len(t) THEN t[i + 1] ELSE "NUL"]
    /\ buffers = {[lo |-> 0, hi |-> Len(t)]}
    /\ pos = Base
    /\ view = [n \in Names |-> Stack]
    /\ given = {[at |-> 0, text |-> t]}
    /\ wild = FALSE

Minds(what, holds) == what \in Careless \/ holds

Spelled(at, len) == [i \in 1 .. len |-> mem[at + i - 1]]
Str8__cstrlen(at) == Min({i \in 0 .. Top - at : mem[at + i] = "NUL" \/ at + i = Top})

\* Str8__init: the length of a literal is worked out when it is first needed.
Str8__init(s) ==
  IF s.len = 0 /\ ~s.slice THEN [s EXCEPT !.len = Str8__cstrlen(s.at) % U16] ELSE s
Initial(srcs) == [n \in Names |-> IF n \in srcs THEN Str8__init(view[n]) ELSE view[n]]
Text(s)   == Spelled(Str8__init(s).at, Str8__init(s).len)
Behind(s) == mem[Str8__init(s).at + Str8__init(s).len]

\* memcpy of text to the block of size bytes that Arena__push gives; more than that goes
\* behind it.  Arena has what a push does that the arena has no room for.
Placed(text, size) ==
  /\ pos + size <= Top
  /\ pos' = pos + size
  /\ buffers' = buffers \cup {[lo |-> pos, hi |-> pos + size - 1]}
  /\ mem' = [i \in 0 .. Top |->
               IF i \in pos .. pos + Len(text) - 1 THEN text[i - pos + 1] ELSE mem[i]]
  /\ wild' = (wild \/ Len(text) > size)

-----------------------------------------------------------------------------
(* Strings of the program's own *)

\* &(Str8){"text"}, with its length or without
Literal(n) ==
  /\ \E len \in {0, Str8__cstrlen(0)} :
       view' = [view EXCEPT ![n] = [at |-> 0, len |-> len, slice |-> FALSE, life |-> "STATIC"]]
  /\ UNCHANGED <<mem, buffers, pos, given, wild>>

\* dst = Str8__stack(): what it was is forgotten.
Str8__stack(n) ==
  /\ view' = [view EXCEPT ![n] = Stack]
  /\ UNCHANGED <<mem, buffers, pos, given, wild>>

\* Arena__reset, with Arena__zero: what lived in the arena is not used any more.
Reset ==
  /\ pos' = Base
  /\ \E zero \in BOOLEAN :
       /\ Minds("zero", zero)
       /\ mem' = [i \in 0 .. Top |-> IF zero /\ i \in Base .. Top - 1 THEN "NUL" ELSE mem[i]]
  /\ buffers' = {b \in buffers : b.hi < Base}
  /\ view' = [n \in Names |-> IF view[n].life = "ARENA1" THEN Stack ELSE view[n]]
  /\ given' = {g \in given : g.at < Base}
  /\ UNCHANGED wild

-----------------------------------------------------------------------------
(* Paths: views of a view *)

\* for (u16 i = s->len; i > 0; i--): the last of the kind, or 0; the character behind
\* the view is looked at, the first one is not.
Last1(s, kind) == Max({0} \cup {i \in 1 .. s.len : mem[s.at + i] \in kind})
BehindLast(s, kind) == IF Last1(s, kind) = 0 THEN 0 ELSE Last1(s, kind) + 1

\* Mistake: the extension is what is behind the last '.', wherever that is.
FileextOfPath(s) == [begin |-> BehindLast(s, {"."}), end |-> s.len]

Str8__basename(s) ==
  [begin |-> BehindLast(s, Slash),
   end |-> Min({s.len} \cup {i \in BehindLast(s, Slash) .. s.len : i > 0 /\ mem[s.at + i] = "."})]
Str8__fileext(s)  == [begin |-> BehindLast(s, Slash \cup {"."}), end |-> s.len]
Str8__filename(s) == [begin |-> BehindLast(s, Slash), end |-> s.len]
Str8__dirname(s)  ==
  [begin |-> 0, end |-> IF Last1(s, Slash) = 0 THEN s.len ELSE Last1(s, Slash) + 1]

\* Mistake: whatever reaches to the end of its string is as whole as that.
InheritsAny(s, end) == end # s.len

\* STR8_INHERIT_NULL: what reaches to the NUL of a whole string is whole.
STR8_INHERIT_NULL(s, end) == ~(~s.slice /\ end = s.len /\ mem[s.at + s.len] = "NUL")

\* Mistake: a slice of a string in the arena is said to live for ever.
SlicedForEver(s, part, whole) ==
  [at |-> s.at + part.begin, len |-> (part.end - part.begin) % U16,
   slice |-> IF whole THEN STR8_INHERIT_NULL(s, part.end) ELSE TRUE, life |-> "STATIC"]

\* Str8__sliceOf, and the end of the four functions.  A Str8 that is its own destination
\* has become a slice by then.
Sliced(s, part, whole) ==
  [at |-> s.at + part.begin, len |-> (part.end - part.begin) % U16,
   slice |-> IF whole THEN STR8_INHERIT_NULL(s, part.end) ELSE TRUE, life |-> s.life]

PathParts(s) == {Str8__basename(s), Str8__fileext(s), Str8__filename(s), Str8__dirname(s)}

Path(dst, src) ==
  /\ view[src].at # NULL
  /\ Minds("separator", Behind(view[src]) \notin Slash \cup {"."})
  /\ LET s == Str8__init(view[src])
     IN  \E part \in PathParts(s) :
           view' = [Initial({src}) EXCEPT ![dst] = Sliced(s, part, dst # src)]
  /\ UNCHANGED <<mem, buffers, pos, given, wild>>

-----------------------------------------------------------------------------
(* Copies in the arena *)

\* The lengths are added up in 16 bits, the characters are copied one and all.  dst is
\* emptied first: it is none of the sources.
Str8__cat(dst, srcs) ==
  /\ dst \notin ToSet(srcs) /\ \A i \in DOMAIN srcs : view[srcs[i]].at # NULL
  /\ LET text == FlattenSeq([i \in DOMAIN srcs |-> Text(view[srcs[i]])])
         len  == Len(text) % U16
     IN  /\ Minds("sum", Len(text) < U16)
         /\ Placed(Append(text, "NUL"), len + 1)
         /\ view' = [Initial(ToSet(srcs)) EXCEPT ![dst] =
                       [at |-> pos, len |-> len, slice |-> FALSE, life |-> "ARENA1"]]
  /\ UNCHANGED given

Terminated(s) == ~s.slice /\ mem[s.at + s.len] = "NUL"

\* The string itself if it is terminated, else a copy that is.
Str8__cstr(n) ==
  /\ view[n].at # NULL
  /\ LET s == Str8__init(view[n])
         text == Spelled(s.at, s.len)
     IN  /\ IF Terminated(s) THEN UNCHANGED <<mem, buffers, pos, wild>>
                             ELSE Placed(Append(text, "NUL"), s.len + 1)
         /\ given' = given \cup {[at |-> IF Terminated(s) THEN s.at ELSE pos, text |-> text]}
         /\ view' = Initial({n})

\* Mistake: no room for the NUL.
CopyCutShort(g) ==
  /\ Placed(g.text, Len(g.text))
  /\ given' = given \cup {[at |-> pos, text |-> g.text]}
  /\ UNCHANGED view

\* A copy; its last byte is not written.
cstr_arena1(g) ==
  /\ Placed(g.text, Len(g.text) + 1)
  /\ given' = given \cup {[at |-> pos, text |-> g.text]}
  /\ UNCHANGED view

\* cstr__format(arena, maxlen, "%s", g): memcpy takes as many bytes as there would be
\* without maxlen, and 0 is written to the byte behind the block.
cstr__vformat(g) ==
  /\ LET l == Len(g.text) + 1
     IN  /\ Minds("maxlen", l <= MAXLEN)
         /\ Minds("edge", pos + l < Top)
         /\ pos + l <= Top
         /\ pos' = pos + l
         /\ buffers' = buffers \cup {[lo |-> pos, hi |-> pos + l - 1]}
         /\ mem' = [i \in 0 .. Top |->
              CASE i \in pos .. pos + Min({l, MAXLEN}) - 2 -> g.text[i - pos + 1]
                [] i = pos + Min({l, MAXLEN}) - 1 \/ i = pos + l -> "NUL"
                [] OTHER -> mem[i]]
         /\ wild' = (wild \/ l > MAXLEN \/ pos + l = Top)
  /\ given' = given \cup {[at |-> pos, text |-> g.text]}
  /\ UNCHANGED view

-----------------------------------------------------------------------------
(* Str8__scan into one Str8 *)

Zeroed == [at |-> NULL, len |-> 0, slice |-> FALSE, life |-> "STATIC"]    \* (Str8){0}
Input(s) == Append(Text(s), Behind(s))

\* An argument whose str is not NULL yet begins at the first character it takes; len is
\* counted up.
Read(arg, s, m) ==
  [at |-> IF arg.at = NULL /\ m.to > m.from THEN s.at + m.from ELSE arg.at,
   len |-> (arg.len + m.to - m.from) % U16, slice |-> TRUE, life |-> s.life]

Scans(n, src, format) ==
  /\ n # src /\ view[src].at # NULL
  /\ Cardinality({i \in DOMAIN format : format[i] \in Specifiers}) = 1
  /\ LET s == Str8__init(view[src])
         read == Str8__scan(Input(s), format).read
     IN  \E arg \in {Zeroed, view[n]} :
           /\ Minds("fresh", arg = Zeroed)
           /\ view' = [Initial({src}) EXCEPT ![n] =
                         IF read = <<>> THEN arg ELSE Read(arg, s, read[1])]
  /\ UNCHANGED <<mem, buffers, pos, given, wild>>

-----------------------------------------------------------------------------
(* Comparing, with and without regard to case *)

\* Str8__cmp takes the lengths as they are.
Str8__cmp(a, b) ==
  a.len = b.len /\ \A i \in 0 .. a.len - 1 : mem[a.at + i] = mem[b.at + i]

Str8__icmp(a0, b0) ==
  LET a == Str8__init(a0)
      b == Str8__init(b0)
  IN  a.len = b.len /\ \A i \in 0 .. a.len - 1 : Folded(mem[a.at + i]) = Folded(mem[b.at + i])

Compares(n, m) ==
  /\ view[n].at # NULL /\ view[m].at # NULL
  /\ view' = Initial({n, m})
  /\ UNCHANGED <<mem, buffers, pos, given, wild>>

-----------------------------------------------------------------------------
(* SZ_print: hexdump into an array of its own *)

\* p += snprintf(p, end - p, ...) of w characters.  A size that would be negative is huge.
Printed(c, w) ==
  IF c.p < DUMP THEN [c EXCEPT !.p = @ + w]
  ELSE IF EOVERFLOW THEN [c EXCEPT !.p = @ - 1]
  ELSE [p |-> c.p + w, wild |-> TRUE]

\* Sixteen times w characters, as long as p < end.
Columns(c, w) ==
  IF c.p >= DUMP - 1 THEN c
  ELSE [c EXCEPT !.p = @ + w * Min({16, (DUMP - 2 - @) \div w + 1})]
Line(p) == Printed(Columns(Printed(Columns(Printed([p |-> p, wild |-> FALSE], 10), 3), 1), 1), 2)
Width == 10 + 3 * 16 + 1 + 16 + 2

\* Whether all that is written is in the array, the last NUL too.  Every line but the
\* last one that is begun is whole.
hexdump(len) ==
  LET c == Line(Width * Min({(len - 1) \div 16, (DUMP - 2) \div Width}))
  IN  ~c.wild /\ c.p < DUMP

SZ_print ==
  /\ \E len \in Dumps : wild' = (wild \/ ~hexdump(len))
  /\ UNCHANGED <<mem, buffers, pos, view, given>>

Next ==
  \/ Reset \/ SZ_print
  \/ \E n \in Names : Literal(n) \/ Str8__stack(n) \/ Str8__cstr(n)
  \/ \E n, src \in Names : Path(n, src) \/ \E format \in Formats : Scans(n, src, format)
  \/ \E n, src \in Names : Compares(n, src)
  \/ \E n, src \in Names : Str8__cat(n, <<src>>) \/ Str8__cat(n, <<src, src>>)
  \/ \E g \in given : cstr_arena1(g) \/ cstr__vformat(g)

Spec == Init /\ [][Next]_vars

-----------------------------------------------------------------------------
(* Properties *)

Used == {n \in Names : view[n].at # NULL}

\* A Str8 lies within one buffer, the text or a block of the arena that was not reset,
\* its length in 16 bits; one that is no slice ends with the NUL of its buffer; and
\* nothing is written outside of a function's own block.
ViewsHold ==
  /\ view \in [Names -> Views] /\ pos \in Base .. Top
  /\ ~wild
  /\ \A n \in Used :
       LET s == Str8__init(view[n])
       IN  /\ \E b \in buffers : b.lo <= s.at /\ s.at + s.len <= b.hi
           /\ "NUL" \notin ToSet(Spelled(s.at, s.len))
           /\ s.slice \/ Behind(s) = "NUL"

\* A C string that was handed out says what it said, to its NUL, until the arena it is in
\* is reset: whatever is copied, formatted and compared in between.
CstrsHold ==
  \A g \in given :
    /\ Spelled(g.at, Len(g.text)) = g.text
    /\ mem[g.at + Len(g.text)] = "NUL"

\* What the four parts of a path are, from its text: dirname and filename put together are
\* the path again, and basename and fileext are what is before the first and behind the
\* last '.' of the filename.  A path's first character does not count as a separator; a
\* path without one is every part of itself.
PathOf(t, dir, file, base, ext) ==
  LET inner(w, kind) == {i \in DOMAIN w : w[i] \in kind /\ (i > 1 \/ w # t)}
      dots == inner(file, {"."})
  IN  /\ IF inner(t, Slash) = {} THEN dir = t /\ file = t
         ELSE dir \o file = t /\ Last(dir) \in Slash /\ inner(file, Slash) = {}
      /\ IF dots = {} THEN base = file /\ ext = file
         ELSE /\ base = SubSeq(file, 1, Min(dots) - 1)
              /\ ext = SubSeq(file, Max(dots) + 1, Len(file))
PathLaws ==
  \A n \in Used :
    LET s == Str8__init(view[n])
        Part(p) == Spelled(s.at + p.begin, p.end - p.begin)
    IN  Minds("separator", Behind(s) \notin Slash \cup {"."}) =>
          PathOf(Text(s), Part(Str8__dirname(s)), Part(Str8__filename(s)),
                 Part(Str8__basename(s)), Part(Str8__fileext(s)))

\* Two Str8 are equal when they say the same, wherever they are and however they came
\* about; to Str8__cmp only when the length of each is known.
ComparesText ==
  \A n, m \in Used :
    LET a == view[n]
        b == view[m]
        Fold(t) == [i \in DOMAIN t |-> Folded(t[i])]
    IN  /\ Str8__icmp(a, b) <=> Fold(Text(a)) = Fold(Text(b))
        /\ "deferred" \in Careless \/ (a = Str8__init(a) /\ b = Str8__init(b)) =>
             (Str8__cmp(a, b) <=> Text(a) = Text(b))

\* Paths come apart and together again, and strings compare as their text does
TextLaws == PathLaws /\ ComparesText

\* A scan of any Str8, also of one that a scan or a path function gave out, takes the
\* longest piece that is a word of each item of the format (Scan!ScanIsRight), and stays
\* in it.  Looked at while it is the only Str8: another one can be forgotten first.
ScanMatches ==
  \A n \in Used, format \in Formats :
    Used = {n} => ScanIsRight(Input(view[n]), format)
================================================================================
