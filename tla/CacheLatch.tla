----------------------------- MODULE CacheLatch -----------------------------
(***************************************************************************)
(* What the memory cache of pkg/config promises about the calls that need  *)
(* its mutex: they wait, and get through until one of them takes the       *)
(* mutex for good.  MemoryCache implements this specification and          *)
(* ConfigClient is written over it.                                        *)
(***************************************************************************)
CONSTANT Users  \* whoever calls the cache

VARIABLES
  taken,   \* somebody has the mutex and will never give it back
  waiting  \* the users inside a call that still needs the mutex

Init ==
  /\ taken = FALSE
  /\ waiting = {}

Enter(u) ==
  /\ u \in Users \ waiting
  /\ waiting' = waiting \cup {u}
  /\ UNCHANGED taken

Pass(u) ==
  /\ ~taken
  /\ u \in waiting
  /\ waiting' = waiting \ {u}
  /\ UNCHANGED taken

(* The user keeps the mutex and asks for it again: it never returns.       *)
Take(u) ==
  /\ ~taken
  /\ u \in waiting
  /\ taken' = TRUE
  /\ UNCHANGED waiting

Next == \E u \in Users : Enter(u) \/ Pass(u) \/ Take(u)

Spec == Init /\ [][Next]_<<taken, waiting>>
=============================================================================
