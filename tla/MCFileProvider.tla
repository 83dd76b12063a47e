-------------------------- MODULE MCFileProvider --------------------------
(* Small instances of FileProvider for TLC: the shape of the keys, the     *)
(* namespaces and the watchers.                                            *)
EXTENDS FileProvider, TLC

CONSTANTS f1, f2, app, prod, x, w1, w2

(* f1 is app.json, with {} or {"prod": {"x": ...}}, and f2 is              *)
(* app.prod.json, with {} or {"x": ...}: both may define app.prod.x, and   *)
(* app.prod, a subtree of the one, is the namespace of the other.  Where   *)
(* there are two, only the second may lose the key.                        *)
Paths      == {app, prod, x}
NameOf     == [f \in Files |-> IF f = f1 THEN app ELSE prod]
StartWith  == [f \in Files |-> IF f = f1 THEN Paths ELSE {prod, x}]
MayDefine  == [f \in Files |-> IF f = f1 THEN {{}, {prod, x}} ELSE {{}, {x}}]
Shared     == [f \in Files |-> IF f = f1 THEN {{prod, x}} ELSE {{}, {x}}]
Undotted   == {f1}
NoName     == {}

(* w1 watches the shared key, w2 everything below app.                     *)
LeafTarget == [w \in ExactWatchers |-> x]
ByPrefix   == [w \in PrefixWatchers |-> Paths]

(* app.json may change twice, app.prod.json once.                          *)
TwiceOnce == [f \in Files |-> IF f = f1 THEN 3 ELSE 2]
Once      == [f \in Files |-> 2]

(* Callers and pollers are interchangeable for the safety runs.            *)
Symmetry == Permutations(Clients) \cup Permutations(Pollers)
===========================================================================
