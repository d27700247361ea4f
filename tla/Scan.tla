---------------------------------- MODULE Scan ----------------------------------
(***************************************************************************)
(* Str8__scan of src/common/String.c: an input is read against a format,   *)
(* and every specifier gives out a view of what it read.                   *)
(*                                                                         *)
(* An input is the sequence of its characters and of one more, the one     *)
(* that follows it in memory; a cursor is a number of characters read.  A  *)
(* format is a sequence of "%d", "%f", "%s", "%?" (any other specifier),   *)
(* " " (a run of spaces) and characters that stand for themselves.         *)
(***************************************************************************)
EXTENDS Integers, Sequences, SequencesExt, FiniteSetsExt

Digits     == {"1"}
Specifiers == {"%d", "%f", "%s"}
Numbers    == {"%d", "%f"}

End(t)     == Len(t) - 1          \* p_end
Char(t, p) == t[p + 1]

\* while (<a character of kind> && p < p_end) p++;
Past(t, p, kind) == Min({q \in p .. End(t) : q = End(t) \/ Char(t, q) \notin kind})

\* An optional '-'.  "%d" also takes one that stands where the input has ended.
PastSign(t, p, item) ==
  IF Char(t, p) = "-" /\ (item = "%d" \/ p < End(t)) THEN p + 1 ELSE p

\* Mistake: a '.' without a digit before it is a fraction, too.
PastAnyFraction(t, p, item) ==
  LET q == Past(t, p, Digits)
  IN  IF item = "%f" /\ q < End(t) /\ Char(t, q) = "." THEN Past(t, q + 1, Digits) ELSE q

\* Digits, and behind one a "%f" may have a '.' and more of them.
PastDigits(t, p, item) ==
  LET q == Past(t, p, Digits)
  IN  IF item = "%f" /\ p < q /\ q < End(t) /\ Char(t, q) = "."
      THEN Past(t, q + 1, Digits) ELSE q

\* What "%d" and "%f" read from p: an argument's view reaches from .. to, and without a
\* digit the scan stops there.
MatchedNumber(t, p, item) ==
  LET b == Past(t, p, {" "})
      i == PastSign(t, b, item)
      e == IF i < End(t) THEN PastDigits(t, i, item) ELSE i
  IN  [from |-> b, to |-> e, ok |-> e > i]

\* "%s": what is neither a space nor NUL.
MatchedWord(t, p) ==
  LET b == Past(t, p, {" "})
  IN  [from |-> b, ok |-> TRUE,
       to |-> Min({q \in b .. End(t) : q = End(t) \/ Char(t, q) \in {" ", "NUL"}})]

Matched(t, p, item) ==
  CASE item \in Numbers -> MatchedNumber(t, p, item)
    [] item = "%s" -> MatchedWord(t, p)
    [] item = " "  -> [from |-> p, to |-> Past(t, p, {" "}), ok |-> TRUE]
    [] OTHER -> [from |-> p, to |-> IF Char(t, p) = item THEN p + 1 ELSE p,
                 ok |-> Char(t, p) = item]

\* One turn of the loop: it is left at the end of the input and at the first item that
\* does not match.  read is what the specifiers have read so far.
Turn(t, s, item) ==
  LET m == Matched(t, s.p, item)
  IN  IF s.left \/ s.p >= End(t) \/ Char(t, s.p) = "NUL" THEN [s EXCEPT !.left = TRUE]
      ELSE [p |-> m.to, left |-> ~m.ok,
            read |-> IF item \in Specifiers THEN Append(s.read, m) ELSE s.read]

Str8__scan(t, format) ==
  FoldLeft(LAMBDA s, item : Turn(t, s, item), [p |-> 0, left |-> FALSE, read |-> <<>>], format)

-----------------------------------------------------------------------------
(* The same from the words each item stands for: every item takes the longest   *)
(* piece of the input that is one of its words                                  *)

OnlyOf(w, kind) == \A i \in DOMAIN w : w[i] \in kind
Trimmed(w) == SubSeq(w, Min({i \in 1 .. Len(w) + 1 : i > Len(w) \/ w[i] # " "}), Len(w))
Unsigned(w) == IF w # <<>> /\ Head(w) = "-" THEN Tail(w) ELSE w
IsInt(w)   == w # <<>> /\ OnlyOf(w, Digits)
IsFloat(w) == /\ w # <<>> /\ w[1] \in Digits /\ OnlyOf(w, Digits \cup {"."})
              /\ \A i, j \in DOMAIN w : w[i] = "." /\ w[j] = "." => i = j

IsWordOf(w, item) ==
  CASE item = "%d" -> IsInt(Unsigned(Trimmed(w)))
    [] item = "%f" -> IsFloat(Unsigned(Trimmed(w)))
    [] item = "%s" -> \A i \in DOMAIN Trimmed(w) : Trimmed(w)[i] # " "
    [] item = " "  -> Trimmed(w) = <<>>
    [] OTHER -> w = <<item>>

\* Where the pieces that the items take end, one after the other, and NoPiece from the
\* first item on that there is none for.
NoPiece == -1
Ends(t, b, item) == {e \in b .. End(t) : IsWordOf(SubSeq(t, b + 1, e), item)}
Cuts(t, format) ==
  LET c[i \in 0 .. Len(format)] ==
        IF i = 0 THEN 0
        ELSE IF c[i - 1] = NoPiece \/ Ends(t, c[i - 1], format[i]) = {} THEN NoPiece
        ELSE Max(Ends(t, c[i - 1], format[i]))
  IN  c

\* The specifiers among the first items
Seen(format, j) == Cardinality({h \in 1 .. j : format[h] \in Specifiers})

\* The views of the specifiers among the items up to k are their pieces without the
\* spaces before them.  The scan does not look at specifiers for which no input is left.
ReadsAre(t, format, c, k, read) ==
  \A j \in 1 .. k : format[j] \in Specifiers =>
    LET i == Seen(format, j)
    IN  IF i <= Len(read)
        THEN /\ read[i].ok
             /\ SubSeq(t, read[i].from + 1, read[i].to) = Trimmed(SubSeq(t, c[j - 1] + 1, c[j]))
        ELSE c[j - 1] = c[j]

\* As many items match as can, and no other is said to match; what a number took before
\* it failed is spaces and at most a sign, and no character behind the end.
ScanIsRight(t, format) ==
  LET s == Str8__scan(t, format)
      c == Cuts(t, format)
      k == Max({i \in DOMAIN c : c[i] # NoPiece})
  IN  /\ c[k] <= s.p /\ s.p <= End(t)
      /\ Trimmed(SubSeq(t, c[k] + 1, s.p)) \in {<<>>, <<"-">>}
      /\ s.p > c[k] => k < Len(format) /\ format[k + 1] \in Numbers
      /\ ReadsAre(t, format, c, k, s.read)
      /\ \A i \in Seen(format, k) + 1 .. Len(s.read) : ~s.read[i].ok
================================================================================
