------------------------------- MODULE Lease -------------------------------
(***************************************************************************)
(* What the Redis lock promises of the key: a request that finds it free   *)
(* takes it, at most once, and keeps it until its own owner asks for the   *)
(* release or the lease lapses.  Nobody else ever frees it or takes it     *)
(* over.                                                                   *)
(***************************************************************************)
CONSTANTS Tokens,  \* one for each request to take the lease
          Free,
          MayLapse \* FALSE for a lease without a time to live

VARIABLES holder,  \* the token that has the lease
          used,    \* tokens that have had it
          asked,   \* tokens whose owner has asked to give it back
          lapsed   \* tokens that have lost it unasked

Init == holder = Free /\ used = {} /\ asked = {} /\ lapsed = {}

Acquire(t) ==
  /\ holder = Free
  /\ t \notin used
  /\ holder' = t
  /\ used' = used \cup {t}
  /\ UNCHANGED <<asked, lapsed>>

(* An owner asks to give it back; a request may be lost.                   *)
Ask(t) ==
  /\ asked' \in {asked \cup {t}, asked \ {t}}
  /\ UNCHANGED <<holder, used, lapsed>>

Release(t) ==
  /\ holder = t
  /\ t \in asked
  /\ holder' = Free
  /\ asked' \in {asked, asked \ {t}}
  /\ UNCHANGED <<used, lapsed>>

Lapse(t) ==
  /\ MayLapse
  /\ holder = t
  /\ holder' = Free
  /\ lapsed' = lapsed \cup {t}
  /\ UNCHANGED <<used, asked>>

Next == \E t \in Tokens : Acquire(t) \/ Ask(t) \/ Release(t) \/ Lapse(t)

Spec == Init /\ [][Next]_<<holder, used, asked, lapsed>>
===========================================================================
