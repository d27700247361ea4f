---------------------------------- MODULE Json ----------------------------------
(***************************************************************************)
(* The pull parser of src/common/Json.c.  The application walks a document *)
(* with one call per value it expects; every call reads one to three       *)
(* tokens from the cursor on, and some give the last one back.             *)
(*                                                                         *)
(* A document is given by its lexemes: runs of characters that a reader of *)
(* JSON would call one token, a space, or a mistake.  The parser sees only *)
(* their characters.  The document ends with the NUL strtod relies on.     *)
(*                                                                         *)
(* The definitions have names that String and Scan do not use, so that     *)
(* TextProofs can extend this module with them.                            *)
(***************************************************************************)
EXTENDS Integers, Sequences, FiniteSets, SequencesExt

CONSTANTS
  Docs,   (* documents: sequences of lexemes [kind, text, value]       *)
  Keys    (* the names the application asks Json__object_key_is about  *)

\* Their lexemes are runs of characters.
ASSUME JsonDocs ==
  \A d \in Docs : d \in Seq([kind : STRING, text : Seq(STRING), value : Seq(STRING)])

Blank  == " "
Quote  == "\""
Puncts == {"{", "}", "[", "]", ",", ":"}

\* JsonTok; a token of punctuation is named by its character here
Tokens == Puncts \cup
  {"INVALID", "EOF", "TRUE", "FALSE", "NULL", "STRING", "NUMBER"}

_JSON__SYMBOLS_IN == [TRUE  |-> <<"t", "r", "u", "e">>,
                      FALSE |-> <<"f", "a", "l", "s", "e">>,
                      NULL  |-> <<"n", "u", "l", "l">>]

VARIABLES
  doc,    \* the document
  cur,    \* Json.cur
  token,  \* Json.token
  start,  \* Json.token_start
  str,    \* Json.token_value.str: where it begins, and its length
  ret     \* the last call: whether it answered true, and what it gave out

jsonVars == <<doc, cur, token, start, str, ret>>

DocText   == FlattenSeq([i \in DOMAIN doc |-> doc[i].text])
Size      == Len(DocText)
CharAt(i) == IF i < Size THEN DocText[i + 1] ELSE "NUL"
Part(b, n) == SubSeq(DocText, b + 1, b + n)

TypeOK ==
  /\ doc \in Docs
  /\ cur \in Nat /\ start \in Nat
  /\ token \in Tokens
  /\ str \in [at : Nat, len : Nat]
  /\ ret.ok \in BOOLEAN

\* {.data = ..., .file_path = ...}: everything else is zero
JsonInit ==
  /\ doc \in Docs
  /\ cur = 0 /\ start = 0
  /\ token = "INVALID"
  /\ str = [at |-> 0, len |-> 0]
  /\ ret = [call |-> "none", ok |-> FALSE, out |-> <<>>]

-----------------------------------------------------------------------------
(* One token *)

\* the first place from c on that is behind the end or where P fails
Until(c, P(_)) == CHOOSE k \in c .. Size :
  (k = Size \/ ~P(k)) /\ \A i \in c .. k - 1 : P(i)

_Json__skip_whitespace(c) == LET IsSpace(i) == CharAt(i) = Blank IN Until(c, IsSpace)

\* The numbers of C: decimal or hexadecimal, with a sign, a point, an exponent or
\* without, an infinity, or a NaN that may have a name of its own behind it.
JsonDigits == {"0", "1", "2", "3", "4", "5", "6", "7", "8", "9"}
HexDigits  == JsonDigits \cup {"a", "b", "c", "d", "e", "f", "A", "B", "C", "D", "E", "F"}
WordCharacters == HexDigits \cup
  {"_", "g", "h", "i", "j", "k", "l", "m", "n", "o", "p", "q", "r", "s", "t", "u", "v", "w",
   "x", "y", "z", "G", "H", "I", "J", "K", "L", "M", "N", "O", "P", "Q", "R", "S", "T", "U",
   "V", "W", "X", "Y", "Z"}
NumeralCharacters == WordCharacters \cup {"+", "-", ".", "(", ")"}

Inf == <<{"i", "I"}, {"n", "N"}, {"f", "F"}>>
Infinity == Inf \o <<{"i", "I"}, {"n", "N"}, {"i", "I"}, {"t", "T"}, {"y", "Y"}>>
NaN == <<{"n", "N"}, {"a", "A"}, {"n", "N"}>>
Fits(w, letters) == Len(w) = Len(letters) /\ \A i \in 1 .. Len(w) : w[i] \in letters[i]

WithoutSign(w) == IF w # <<>> /\ w[1] \in {"+", "-"} THEN Tail(w) ELSE w
IsExponent(w, marks) ==
  /\ w # <<>> /\ w[1] \in marks
  /\ LET n == WithoutSign(Tail(w)) IN n # <<>> /\ Range(n) \subseteq JsonDigits
\* digits with a point among them or not, and an exponent or none
IsFraction(w, digits, marks) == \E k \in 1 .. Len(w) :
  LET m == SubSeq(w, 1, k)
      x == SubSeq(w, k + 1, Len(w))
  IN  /\ Range(m) \subseteq digits \cup {"."} /\ Range(m) \cap digits # {}
      /\ Cardinality({i \in 1 .. k : m[i] = "."}) <= 1
      /\ x = <<>> \/ IsExponent(x, marks)

IsNumeral(text) ==
  LET w == WithoutSign(text)
  IN  /\ Range(text) \subseteq NumeralCharacters
      /\ \/ IsFraction(w, JsonDigits, {"e", "E"})
         \/ /\ Len(w) > 2 /\ w[1] = "0" /\ w[2] \in {"x", "X"}
            /\ IsFraction(SubSeq(w, 3, Len(w)), HexDigits, {"p", "P"})
         \/ Fits(w, Inf) \/ Fits(w, Infinity) \/ Fits(w, NaN)
         \/ /\ Len(w) > 4 /\ Fits(SubSeq(w, 1, 3), NaN) /\ w[4] = "(" /\ w[Len(w)] = ")"
            /\ Range(SubSeq(w, 5, Len(w) - 1)) \subseteq WordCharacters

\* The length of the longest one that begins behind the first b characters of a text.
NumeralAt(text, b) ==
  Max({0} \cup {n \in 1 .. Len(text) - b : IsNumeral(SubSeq(text, b + 1, b + n))})

\* Mistake: one character too far.
StrtodPast(c) == LET n == NumeralAt(DocText, c) IN IF n = 0 THEN c ELSE c + n + 1

\* The place strtod stops at: behind the number, or where it began if there is none.
strtod(c) == c + NumeralAt(DocText, c)

\* How far the loop over a symbol gets: it compares what both pointers point at and
\* moves both, also when the characters differ.
SymbolRead(c, symbol) ==
  LET Same(i) == i - c < Len(symbol) /\ CharAt(i) = symbol[i - c + 1]
      k == Until(c, Same)
  IN IF k < Size /\ k - c < Len(symbol) THEN k - c + 1 ELSE k - c

\* Json.cur and the fields of the token read from c on; s is token_value.str.
_Json__next_token(c, s) ==
  LET b == _Json__skip_whitespace(c)
      x == CharAt(b)
      Got(tok, e, v) == [ok |-> tok \notin {"EOF", "INVALID"}, token |-> tok,
                         start |-> b, cur |-> e, str |-> v]
      named == {t \in DOMAIN _JSON__SYMBOLS_IN : _JSON__SYMBOLS_IN[t][1] = x}
      InString(i) == CharAt(i) # Quote
      e == Until(b + 1, InString)
  IN IF b >= Size THEN Got("EOF", b, s)
     ELSE IF x \in Puncts THEN Got(x, b + 1, s)
     ELSE IF named # {}
     THEN LET t == CHOOSE t \in named : TRUE
              n == SymbolRead(b, _JSON__SYMBOLS_IN[t])
          IN Got(IF n = Len(_JSON__SYMBOLS_IN[t]) THEN t ELSE "INVALID", b + n, s)
     ELSE IF strtod(b) # b THEN Got("NUMBER", strtod(b), s)
     ELSE IF x # Quote THEN Got("INVALID", b, s)
     ELSE LET v == [at |-> b + 1, len |-> e - b - 1]
          IN IF e < Size THEN Got("STRING", e + 1, v) ELSE Got("INVALID", e, v)

-----------------------------------------------------------------------------
(* The calls *)

First == _Json__next_token(cur, str)
After(t) == _Json__next_token(t.cur, t.str)

\* The parser is left as it is behind t, with the cursor at c.
LeftAt(t, c) ==
  /\ cur' = c /\ token' = t.token /\ start' = t.start /\ str' = t.str
  /\ UNCHANGED doc
Left(t) == LeftAt(t, t.cur)

Return(call, ok, out) == ret' = [call |-> call, ok |-> ok, out |-> out]
String(t) == Part(t.str.at, t.str.len)

\* _Json__expect_next_token on the next token, with what the call copies out
Expect(call, tok, out) ==
  /\ Left(First)
  /\ Return(call, First.token = tok, IF First.token = tok THEN out ELSE <<>>)

\* Mistake: the type of the value, JSON_BOOL, is left in the place of its token.
BoolByType ==
  /\ Left([First EXCEPT !.token = IF @ \in {"TRUE", "FALSE"} THEN "BOOL" ELSE @])
  /\ Return("bool", First.token \in {"TRUE", "FALSE"},
            IF First.token \in {"TRUE", "FALSE"} THEN <<First.token>> ELSE <<>>)

Json__bool ==
  /\ Left(First)
  /\ Return("bool", First.token \in {"TRUE", "FALSE"},
            IF First.token \in {"TRUE", "FALSE"} THEN <<First.token>> ELSE <<>>)

\* Json__number, Json__f32, Json__u32 and Json__u16 differ in a cast.
Json__number ==
  Expect("number", "NUMBER", Part(First.start, First.cur - First.start))
Json__string       == Expect("string", "STRING", String(First))
Json__array_begin  == Expect("array_begin", "[", <<>>)
Json__array_end    == Expect("array_end", "]", <<>>)
Json__object_begin == Expect("object_begin", "{", <<>>)
Json__object_end   == Expect("object_end", "}", <<>>)

\* Mistake: the closing bracket is taken as well.
ArrayItemTakesEnd ==
  /\ LeftAt(First, IF First.ok /\ First.token \notin {",", "]"} THEN cur ELSE First.cur)
  /\ Return("array_item", First.ok /\ First.token # "]", <<>>)

\* A comma is taken, any other token is only looked at.
Json__array_item ==
  /\ LeftAt(First, IF First.ok /\ First.token # "," THEN cur ELSE First.cur)
  /\ Return("array_item", First.ok /\ First.token # "]", <<>>)

\* Where a key ends: a string, and a colon behind it if the string was there.
KeyFrom(s) ==
  LET c == After(s)
  IN IF s.token # "STRING" THEN [at |-> s, ok |-> FALSE, out |-> <<>>]
     ELSE [at |-> c, ok |-> c.token = ":", out |-> String(s)]
Key == IF First.token = "," THEN KeyFrom(After(First)) ELSE KeyFrom(First)

Json__object_key ==
  IF First.token = "}"
  THEN LeftAt(First, cur) /\ Return("object_key", FALSE, <<>>)
  ELSE Left(Key.at) /\ Return("object_key", Key.ok, Key.out)

\* strncmp(expected, key.str, len) runs over the text, not over the key.
Json__object_key_is(expected) ==
  LET key   == [i \in 1 .. Len(expected) |-> CharAt(Key.at.str.at + i - 1)]
  IN IF First.token = "}"
     THEN LeftAt(First, cur) /\ Return("object_key_is", FALSE, expected)
     ELSE Left(Key.at) /\ Return("object_key_is", Key.ok /\ key = expected, expected)

Json__any == Left(First) /\ Return("any", First.ok, <<>>)

JsonNext ==
  \/ Json__bool \/ Json__number \/ Json__string
  \/ Json__array_begin \/ Json__array_item \/ Json__array_end
  \/ Json__object_begin \/ Json__object_key \/ Json__object_end
  \/ \E expected \in Keys : Json__object_key_is(expected)
  \/ Json__any

JsonSpec == JsonInit /\ [][JsonNext]_jsonVars

-----------------------------------------------------------------------------
(* The words of a document *)

Initials == {_JSON__SYMBOLS_IN[t][1] : t \in DOMAIN _JSON__SYMBOLS_IN}

\* A character that numbers and mistakes may begin with
Plain(x) == x \notin Puncts \cup Initials \cup {Blank, Quote}

\* A symbol's beginning with a wrong character behind it; all but the last is right.
Misspells(w, t) ==
  LET symbol == _JSON__SYMBOLS_IN[t]
  IN  Len(w) \in 2 .. Len(symbol) /\ \A i \in 1 .. Len(w) : w[i] = symbol[i] <=> i < Len(w)
NearlySpells(w, t) == Misspells(w, t) /\ Len(w) = Len(_JSON__SYMBOLS_IN[t])

-----------------------------------------------------------------------------
(* Properties *)

\* The cursor, the token and the slice given out stay inside the document, and no
\* string given out runs over its closing quote.
StaysInText ==
  /\ cur <= Size /\ start <= Size /\ str.at + str.len <= Size
  /\ token = "STRING" => Quote \notin Range(Part(str.at, str.len))

\* Whatever calls are made in whatever order, they read the document's tokens one
\* after another: none is skipped, split, joined or read twice, and what is only
\* looked at, before the end of an array or an object, is still there afterwards.
\* The promise of TokenReader is broken in two ways only, and nothing is lost then
\* either: Json__object_key_is answers for a key that begins with the name asked for
\* (Json.c:353, see KeyMatches), and a word that is wrong in its last character is
\* taken for the symbol (Json.c:159, see SymbolsMatch).
Begins(i) == Len(FlattenSeq([j \in 1 .. i - 1 |-> doc[j].text]))
Ahead == FlattenSeq([i \in DOMAIN doc |->
           IF Begins(i) < cur \/ doc[i].kind = "SPACE" THEN <<>> ELSE <<doc[i]>>])
Reader == INSTANCE TokenReader WITH rest <- Ahead

KeyPassesPrefix == \E expected \in Keys :
  LET key == Reader!Value(Reader!KeyAt)
  IN  /\ Reader!ReadKey /\ Reader!HasKey
      /\ IsPrefix(expected, key) /\ expected # key
      /\ Reader!Return("object_key_is", TRUE, expected)

SymbolPasses == \E t \in DOMAIN _JSON__SYMBOLS_IN :
  /\ Reader!Kind(1) = "INVALID" /\ NearlySpells(Ahead[1].text, t)
  /\ \/ t # "NULL" /\ Ahead' = Reader!Drop(1) /\ Reader!Return("bool", TRUE, <<t>>)
     \/ Ahead' = Reader!Drop(1) /\ Reader!Return("any", TRUE, <<>>)
     \/ Ahead' = Ahead /\ Reader!Return("array_item", TRUE, <<>>)

ReadsTokens ==
  Reader!Init /\ [][Reader!Next \/ KeyPassesPrefix \/ SymbolPasses]_(Reader!trvars)

\* Json.c:165, "all chars in both strings are a match": what is taken for true,
\* false or null is that word in the document.
SymbolsMatch ==
  token \in DOMAIN _JSON__SYMBOLS_IN =>
    LET w == _JSON__SYMBOLS_IN[token] IN Part(start, Len(w)) = w

\* Json.c:22, "Check if key matches expected string".
KeyMatches ==
  ret.call = "object_key_is" /\ ret.ok => Part(str.at, str.len) = ret.out

-----------------------------------------------------------------------------
(* The documents and keys ReadsTokens is proved for *)

\* What the end of the document may cut short: a symbol or a string.
IsCut(w) ==
  \/ \E t \in DOMAIN _JSON__SYMBOLS_IN :
       LET symbol == _JSON__SYMBOLS_IN[t]
       IN  Len(w) \in 1 .. Len(symbol) - 1 /\ \A i \in 1 .. Len(w) : w[i] = symbol[i]
  \/ Len(w) > 0 /\ \A i \in 1 .. Len(w) : w[i] = Quote <=> i = 1

\* The i-th lexeme of d is what its kind says. A number is as long as it can be where
\* it begins, and where a stray character is, no number begins.
IsLexeme(d, i) ==
  LET x == d[i]
      numeral == NumeralAt(FlattenSeq([j \in DOMAIN d |-> d[j].text]),
                           Len(FlattenSeq([j \in 1 .. i - 1 |-> d[j].text])))
  IN  /\ x.text # <<>>
      /\ \/ x.kind = "SPACE" /\ \A j \in 1 .. Len(x.text) : x.text[j] = Blank
         \/ x.kind \in Puncts /\ x.text = <<x.kind>>
         \/ x.kind \in DOMAIN _JSON__SYMBOLS_IN /\ x.text = _JSON__SYMBOLS_IN[x.kind]
         \/ /\ x.kind = "NUMBER" /\ Plain(x.text[1])
            /\ Len(x.text) = numeral /\ x.value = x.text
         \/ /\ x.kind = "STRING" /\ x.text = <<Quote>> \o x.value \o <<Quote>>
            /\ \A j \in 1 .. Len(x.value) : x.value[j] # Quote
         \/ /\ x.kind = "INVALID"
            /\ \/ Len(x.text) = 1 /\ Plain(x.text[1]) /\ numeral = 0
               \/ \E t \in DOMAIN _JSON__SYMBOLS_IN : Misspells(x.text, t)
               \/ IsCut(x.text) /\ i = Len(d)

IsDocument(d) == \A i \in 1 .. Len(d) : IsLexeme(d, i)
IsName(key) == key \in Seq(STRING) /\ \A i \in 1 .. Len(key) : key[i] # Quote

AreReadable == (\A d \in Docs : IsDocument(d)) /\ \A key \in Keys : IsName(key)
=================================================================================
