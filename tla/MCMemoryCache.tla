--------------------------- MODULE MCMemoryCache ---------------------------
(* A small instance of MemoryCache for TLC, with option arguments and keys *)
(* at their boundaries.                                                    *)
EXTENDS MemoryCache

(* Room for one entry, with and without statistics.                        *)
MCChoices ==
  {Configured(<<WithMaxSize(1), WithEnableStats(stats)>>) : stats \in BOOLEAN}

Around    == {-1, 0, 1}
SomeTTLs  == Around \cup {MinTTL - 1, MinTTL, MaxTTL, MaxTTL + 1}
SomeNames == {"", "a", "b", "ns", "config", "meta"}

(* Short texts, among them those that look like built keys, and the        *)
(* longest a key may be, with one that is too long.                        *)
SomeTexts ==
  {<<w>> : w \in SomeNames} \cup {<<v, w>> : v, w \in SomeNames} \cup
  {[i \in 1..n |-> "a"] : n \in {252, 253}}
=============================================================================
