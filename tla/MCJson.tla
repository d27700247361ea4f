--------------------------------- MODULE MCJson ---------------------------------
(* Json on small documents *)
EXTENDS Json

Lexeme(kind, text, value) == [kind |-> kind, text |-> text, value |-> value]
Punct   == {Lexeme(p, <<p>>, <<>>) : p \in Puncts}
Spelling == [TRUE |-> <<"t", "r", "u", "e">>, FALSE |-> <<"f", "a", "l", "s", "e">>,
            NULL |-> <<"n", "u", "l", "l">>]
Symbol  == {Lexeme(t, Spelling[t], <<>>) : t \in DOMAIN Spelling}
\* -71  .7  1e+7  0xa  Inf, and what is a number only in part
Numerals == {<<"-", "7", "1">>, <<".", "7">>, <<"1", "e", "+", "7">>, <<"0", "x", "a">>,
             <<"I", "n", "f">>, <<"1">>}
Number  == {Lexeme("NUMBER", n, n) : n \in Numerals}
Named   == {Lexeme("STRING", <<Quote>> \o s \o <<Quote>>, s) :
              s \in {<<>>, <<"a">>, <<"a", "]">>}}
Mistake == {Lexeme("INVALID", w, <<>>) :
              w \in {<<"-">>, <<"e">>, <<"n", "1">>, <<"t", "r", "u", "1">>, <<"n", "u", "l", "1">>}}
Gap     == {Lexeme("SPACE", <<Blank>>, <<>>)}
Cut     == {Lexeme("INVALID", <<Quote, "a">>, <<>>),
            Lexeme("INVALID", <<"t", "r", "u">>, <<>>)}

\* Not all words can stand side by side: 1 and e+7 are one number.
Words == Punct \cup Symbol \cup Number \cup Named \cup Mistake \cup Gap
Documents(D) == {d \in D : IsDocument(d)}
UpTo(n) == Documents(UNION {[1 .. k -> Words] : k \in 0 .. n})
Few == {x \in Words : x.kind = "NUMBER" => x.text[1] = "-"}
         \ {x \in Words : x.kind \in {"NULL", "FALSE"} \/ x.text \in {<<"e">>, <<"n", "u", "l", "1">>}}

\* {"a": [1, -71], "a]": true} and what is missing a comma or a bracket of it
P(c) == Lexeme(c, <<c>>, <<>>)
S(s) == Lexeme("STRING", <<Quote>> \o s \o <<Quote>>, s)
N(n) == Lexeme("NUMBER", n, n)
MCLong ==
  {<<P("{"), S(<<"a">>), P(":"), P("["), N(<<"1">>)>> \o m \o <<N(<<"-", "7", "1">>)>> \o e
     \o <<S(<<"a", "]">>), P(":"), Lexeme("TRUE", <<"t", "r", "u", "e">>, <<>>), P("}")>> :
     m \in {<<P(",")>>, <<Lexeme("SPACE", <<Blank>>, <<>>)>>},
     e \in {<<P("]"), P(",")>>, <<P(",")>>, <<P("]")>>}}

MCDocs == UpTo(2) \cup Documents({d \o <<c>> : d \in UpTo(1), c \in Cut}
  \cup {<<g>> \o d : g \in {P(","), S(<<"a">>)},
                     d \in [1 .. 2 -> Few]})
  \cup MCLong
MCKeys == {<<"a">>, <<"a", "b">>}
ASSUME MCDocsAreReadable == (\A d \in MCDocs : IsDocument(d)) /\ \A key \in MCKeys : IsName(key)

\* Words that are nearly a symbol.
MCNearly == {<<Lexeme("INVALID", w \o <<"1">>, <<>>)>> : w \in
               {SubSeq(Spelling[t], 1, n) : t \in {"TRUE", "NULL"}, n \in 1 .. 3}}

\* An object with one member.
MCObjects == {<<Lexeme("{", <<"{">>, <<>>), s, Lexeme(":", <<":">>, <<>>)>> : s \in Named}
=================================================================================
