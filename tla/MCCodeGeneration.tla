-------------------------- MODULE MCCodeGeneration --------------------------
(* Packages for TLC: the root, packages one above, below and beside one    *)
(* another to three levels, some with the same last word, one in camel     *)
(* case.  The other sets hold the names of the known divergences.          *)
EXTENDS CodeGeneration

a == <<"a">>
b == <<"b">>
aB == <<"a", "B">>
a_b == <<"a", "_", "b">>
aristaproto == <<"aristaproto">>

TreePackages == {<<>>, <<a>>, <<a, b>>, <<a, b, a>>, <<a, b, b>>, <<b>>, <<b, aB>>}
UnderscorePackages == {<<>>, <<a>>, <<a, b>>, <<a_b>>}
ShadowPackages == {<<>>, <<a>>, <<a, aristaproto>>}

MCObjects == {<<<<"B">>>>, <<<<"B">>, <<"A">>>>}
MCLower == [x \in {"A", "B"} |-> IF x = "A" THEN "a" ELSE "b"]
MCKeywords == {a}
MCHeaderNames == {aristaproto}

EveryClient == {<<TRUE, TRUE>>, <<TRUE, FALSE>>, <<FALSE, FALSE>>}
ServerOnly == {<<FALSE, TRUE>>}

(* The names of the run are as the theorem about references assumes.       *)
ASSUME TreeApart ==
  Packages = TreePackages /\ Settings \subseteq EveryClient => NamesApart
=============================================================================
