---------------------------- MODULE MCRedisLock ----------------------------
(* Small instances of RedisLock for TLC.                                   *)
EXTENDS RedisLock, TLC

(* The readers of the lock send one request, the others two.               *)
ReadersOnce == [c \in Clients |-> IF c \in Readers THEN 1 ELSE 2]
Once        == [c \in Clients |-> 1]

(* Goroutines are interchangeable for the safety runs.                     *)
Symmetry == Permutations(Clients)
===========================================================================
