-------------------------------- MODULE MCString --------------------------------
(* String on short paths and lines *)
EXTENDS String

MCSymmetry == Permutations(Names)

MCPaths   == {<<"a", "a", "/", "A", "a", ".", "a", "a">>, <<"/", "a", ".", ".", "A">>, <<".", "a">>,
              <<"a", "/", "/">>, <<>>}
MCLines   == {<<"a", " ", "-", "1">>, <<"1", ".", "1", "-", "a">>, <<"-", "1", "/", "1">>}
MCTexts   == MCPaths \cup MCLines
MCFormats == {<<"a", " ", "%d">>, <<"%d">>, <<"%f">>, <<"%s">>, <<"%f", "-", "%s">>,
              <<"%s", "%s">>, <<"%d", "/", "%d">>, <<"%f", "%?">>}
================================================================================
