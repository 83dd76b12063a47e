------------------------------ MODULE MCRouter ------------------------------
EXTENDS Router

(* Enough to fill a small array, to write behind a shared one, and to get  *)
(* an array that is rounded up.                                            *)
Many        == [i \in 1..17 |-> "timeout"]
MCArguments == {<<"cors">>, <<"logging", "recovery">>, Many}
MCPrefixes  == {<<"v1">>}
MCPaths     == {<<"x">>}
=============================================================================
