------------------------------- MODULE TokenReader -------------------------------
(***************************************************************************)
(* What the pull parser promises, without characters: it reads a sequence  *)
(* of tokens from the front.  A call that meets the tokens it expects      *)
(* takes them and answers true; otherwise it takes those that fit and the  *)
(* first that does not, and answers false.                                 *)
(***************************************************************************)
EXTENDS Sequences, Integers, SequencesExt

CONSTANTS Docs, Keys

VARIABLES rest,   \* the tokens still to be read
          ret     \* the last call: whether it answered true, and what it gave out

trvars == <<rest, ret>>

\* Spaces are not tokens.
Meaning(d) ==
  FlattenSeq([i \in DOMAIN d |-> IF d[i].kind = "SPACE" THEN <<>> ELSE <<d[i]>>])

Init ==
  /\ rest \in {Meaning(d) : d \in Docs}
  /\ ret = [call |-> "none", ok |-> FALSE, out |-> <<>>]

Kind(i)  == IF i <= Len(rest) THEN rest[i].kind ELSE "EOF"
Value(i) == IF i <= Len(rest) THEN rest[i].value ELSE <<>>
Drop(n)  == SubSeq(rest, n + 1, Len(rest))

Return(call, ok, out) == ret' = [call |-> call, ok |-> ok, out |-> out]

\* The end is not passed, and a mistake may be passed or not.
TakesUpTo(n) ==
  \/ Kind(n) # "EOF" /\ rest' = Drop(n)
  \/ Kind(n) = "INVALID" /\ rest' = Drop(n - 1)
  \/ Kind(n) = "EOF" /\ rest' = <<>>

One(call, kinds, gives) ==
  /\ TakesUpTo(1)
  /\ Return(call, Kind(1) \in kinds,
            IF ~gives \/ Kind(1) \notin kinds THEN <<>>
            ELSE IF call = "bool" THEN <<Kind(1)>> ELSE Value(1))

ArrayItem ==
  /\ IF Kind(1) \in {",", "EOF", "INVALID"} THEN TakesUpTo(1) ELSE UNCHANGED rest
  /\ Return("array_item", Kind(1) \notin {"]", "EOF", "INVALID"}, <<>>)

\* A key is a string and a colon, behind a comma or not.
KeyAt  == IF Kind(1) = "," THEN 2 ELSE 1
HasKey == Kind(KeyAt) = "STRING" /\ Kind(KeyAt + 1) = ":"
ReadKey ==
  IF Kind(1) = "}" THEN UNCHANGED rest
  ELSE TakesUpTo(IF Kind(KeyAt) = "STRING" THEN KeyAt + 1 ELSE KeyAt)

ObjectKey ==
  /\ ReadKey
  /\ Return("object_key", HasKey, IF Kind(KeyAt) = "STRING" THEN Value(KeyAt) ELSE <<>>)

\* "Check if key matches expected string"
ObjectKeyIs(expected) ==
  /\ ReadKey
  /\ Return("object_key_is", HasKey /\ Value(KeyAt) = expected, expected)

Next ==
  \/ One("bool", {"TRUE", "FALSE"}, TRUE)
  \/ One("number", {"NUMBER"}, TRUE) \/ One("string", {"STRING"}, TRUE)
  \/ One("array_begin", {"["}, FALSE) \/ One("array_end", {"]"}, FALSE)
  \/ One("object_begin", {"{"}, FALSE) \/ One("object_end", {"}"}, FALSE)
  \/ \E kind \in {"EOF", "INVALID"} :
       Kind(1) = kind /\ TakesUpTo(1) /\ Return("any", FALSE, <<>>)
  \/ Kind(1) \notin {"EOF", "INVALID"} /\ TakesUpTo(1) /\ Return("any", TRUE, <<>>)
  \/ ArrayItem \/ ObjectKey
  \/ \E expected \in Keys : ObjectKeyIs(expected)

Spec == Init /\ [][Next]_trvars
==================================================================================
