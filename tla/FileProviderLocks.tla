------------------------- MODULE FileProviderLocks -------------------------
(***************************************************************************)
(* The two sync.RWMutex of the file provider (pkg/provider/file/file.go),  *)
(* p.mu and p.watcherMutex, and the order in which its operations take     *)
(* them.  FileProvider treats a critical section as one step; here a step  *)
(* is one operation on a mutex, and data is left out altogether.           *)
(*                                                                         *)
(* An operation is the sequence of lock operations it performs.  What it   *)
(* does with them depends on how many files it loads and on how many       *)
(* registered callbacks a change concerns; those are chosen freely.        *)
(***************************************************************************)
EXTENDS Naturals, Sequences, SequencesExt

CONSTANTS
  Clients,  \* goroutines that call the provider's API
  Pollers,  \* identities for polling goroutines; bounds how many run at once
  Nobody,
  Calls,    \* the API calls the clients make
  MaxHits   \* bound on the files of a load and on the callbacks of a change

Threads == Clients \cup Pollers
Locks   == {"mu", "watcherMutex"}

ASSUME LockAssumption ==
  /\ Clients \cap Pollers = {}
  /\ Pollers # {}
  /\ Nobody \notin Threads
  /\ Calls \subseteq {"Get", "Watch", "Cancel", "Reload", "Close"}
  /\ MaxHits \in Nat

VARIABLES
  todo,    \* thread |-> lock operations left of what it is doing
  call,    \* client |-> the call it is in
  writer,  \* lock |-> the goroutine whose Lock readers have to wait for
  reads,   \* lock |-> thread |-> read locks it holds
  queued,  \* lock |-> readers that wait for the writer to leave
  closing, \* the state word is "closed"
  stopped, \* p.stopWatcher is closed
  live     \* polling goroutines that run

vars == <<todo, call, writer, reads, queued, closing, stopped, live>>

---------------------------------------------------------------------------
(* The operations as sequences of lock operations.                         *)

Do(act, lock) == <<[act |-> act, lock |-> lock]>>
Times(n, s)   == FlattenSeq([i \in 1..n |-> s])
Locked(lock)  == Do("Lock", lock) \o Do("Unlock", lock)
RLocked(lock, body) == Do("RLock", lock) \o body \o Do("RUnlock", lock)

(* Mutant: triggerWatchers unlocks on its early return, after it has       *)
(* unlocked already.                                                       *)
TriggerMiss_UnlockTwice == RLocked("watcherMutex", <<>>) \o Do("RUnlock", "watcherMutex")

(* triggerWatchers for a key with callbacks, and for one without.          *)
TriggerHit  == RLocked("watcherMutex", <<>>) \o RLocked("mu", <<>>)
TriggerMiss == RLocked("watcherMutex", <<>>)
triggerPrefixWatchers(hits) == RLocked("watcherMutex", Times(hits, RLocked("mu", <<>>)))

notifyKeyChanged(hits, prefixHits) ==
  RLocked("mu", TriggerMiss \o Times(hits, TriggerHit) \o triggerPrefixWatchers(prefixHits))
notifyKeyDeleted(prefixHits) == RLocked("mu", triggerPrefixWatchers(prefixHits))

loadFiles(n) == Times(n, Locked("mu"))

Hits == 0..MaxHits

(* Mutant: Watch looks the key up after it has locked watcherMutex.        *)
Program_WatchNested(name) ==
  CASE name = "Get"    -> {RLocked("mu", <<>>)}
    [] name = "Watch"  -> {Do("Lock", "watcherMutex") \o RLocked("mu", <<>>) \o
                             Do("ensure", "none") \o Do("Unlock", "watcherMutex")}
    [] name = "Cancel" -> {Locked("watcherMutex")}
    [] name = "Reload" -> {Locked("mu") \o loadFiles(n) : n \in Hits}
    [] name = "Close"  -> {Do("stop", "none") \o Do("wait", "none") \o
                             Locked("watcherMutex") \o Locked("mu")}

(* What a call does with the locks, and the steps that touch the channel   *)
(* and the pollers: ensureWatcherStarted, Close's close and Close's wait.  *)
Program(name) ==
  CASE name = "Get"    -> {RLocked("mu", <<>>)}
    [] name = "Watch"  -> {RLocked("mu", <<>>) \o Do("Lock", "watcherMutex") \o
                             Do("ensure", "none") \o Do("Unlock", "watcherMutex")}
    [] name = "Cancel" -> {Locked("watcherMutex")}
    [] name = "Reload" -> {Locked("mu") \o loadFiles(n) : n \in Hits}
    [] name = "Close"  -> {Do("stop", "none") \o Do("wait", "none") \o
                             Locked("watcherMutex") \o Locked("mu")}

Polling ==
  {loadFiles(1) \o notifyKeyChanged(h, x) : h, x \in Hits} \cup {notifyKeyDeleted(x) : x \in Hits}

---------------------------------------------------------------------------
Init ==
  /\ todo = [t \in Threads |-> <<>>]
  /\ call = [c \in Clients |-> "none"]
  /\ writer = [l \in Locks |-> Nobody]
  /\ reads = [l \in Locks |-> [t \in Threads |-> 0]]
  /\ queued = [l \in Locks |-> {}]
  /\ closing = FALSE
  /\ stopped = FALSE
  /\ \E p \in Pollers : live = {p}

Next0(t, act, l) ==
  /\ todo[t] # <<>>
  /\ Head(todo[t]) = [act |-> act, lock |-> l]

Advance(T) == todo' = [t \in Threads |-> IF t \in T THEN Tail(todo[t]) ELSE todo[t]]

(* RWMutex.RLock: a writer that holds the lock or waits for it goes first. *)
RLock(t, l) ==
  /\ Next0(t, "RLock", l)
  /\ t \notin queued[l]
  /\ IF writer[l] = Nobody
     THEN /\ reads' = [reads EXCEPT ![l][t] = @ + 1]
          /\ Advance({t})
          /\ UNCHANGED queued
     ELSE /\ queued' = [queued EXCEPT ![l] = @ \cup {t}]
          /\ UNCHANGED <<reads, todo>>
  /\ UNCHANGED <<call, writer, closing, stopped, live>>

RUnlock(t, l) ==
  /\ Next0(t, "RUnlock", l)
  /\ reads' = [reads EXCEPT ![l][t] = @ - 1]
  /\ Advance({t})
  /\ UNCHANGED <<call, writer, queued, closing, stopped, live>>

(* RWMutex.Lock, first half: exclude other writers and new readers.        *)
Announce(t, l) ==
  /\ Next0(t, "Lock", l)
  /\ writer[l] = Nobody
  /\ writer' = [writer EXCEPT ![l] = t]
  /\ UNCHANGED <<todo, call, reads, queued, closing, stopped, live>>

(* Second half: wait for the readers inside to leave.                      *)
Lock(t, l) ==
  /\ Next0(t, "Lock", l)
  /\ writer[l] = t
  /\ \A r \in Threads : reads[l][r] = 0
  /\ Advance({t})
  /\ UNCHANGED <<call, writer, reads, queued, closing, stopped, live>>

(* RWMutex.Unlock lets every queued reader in, before any other writer.    *)
Unlock(t, l) ==
  /\ Next0(t, "Unlock", l)
  /\ writer' = [writer EXCEPT ![l] = Nobody]
  /\ reads' = [reads EXCEPT ![l] =
                 [r \in Threads |-> IF r \in queued[l] THEN @[r] + 1 ELSE @[r]]]
  /\ queued' = [queued EXCEPT ![l] = {}]
  /\ Advance({t} \cup queued[l])
  /\ UNCHANGED <<call, closing, stopped, live>>

StopPolling(c) ==
  /\ Next0(c, "stop", "none")
  /\ stopped' = TRUE
  /\ Advance({c})
  /\ UNCHANGED <<call, writer, reads, queued, closing, live>>

(* The poller has returned, or the five seconds are over.                  *)
Wait(c) ==
  /\ Next0(c, "wait", "none")
  /\ Advance({c})
  /\ UNCHANGED <<call, writer, reads, queued, closing, stopped, live>>

(* ensureWatcherStarted: a closed channel is replaced, a poller started.   *)
(* It may also fail, having replaced the channel.                          *)
Ensure(c) ==
  /\ Next0(c, "ensure", "none")
  /\ stopped' = FALSE
  /\ Advance({c})
  /\ \/ UNCHANGED live
     \/ stopped /\ \E p \in Pollers \ live : live' = live \cup {p}
  /\ UNCHANGED <<call, writer, reads, queued, closing>>

---------------------------------------------------------------------------
Call(c, name) ==
  /\ name \in Calls
  /\ call[c] = "none"
  /\ name # "Cancel" => ~closing
  /\ call' = [call EXCEPT ![c] = name]
  /\ \E p \in Program(name) : todo' = [todo EXCEPT ![c] = p]
  /\ closing' = (closing \/ name = "Close")
  /\ UNCHANGED <<writer, reads, queued, stopped, live>>

Return(c) ==
  /\ call[c] # "none"
  /\ todo[c] = <<>>
  /\ call' = [call EXCEPT ![c] = "none"]
  /\ UNCHANGED <<todo, writer, reads, queued, closing, stopped, live>>

(* A tick with a changed or a deleted file; a closed channel need not be   *)
(* noticed at once.                                                        *)
Tick(p) ==
  /\ p \in live
  /\ todo[p] = <<>>
  /\ \E q \in Polling : todo' = [todo EXCEPT ![p] = q]
  /\ UNCHANGED <<call, writer, reads, queued, closing, stopped, live>>

Exit(p) ==
  /\ stopped
  /\ p \in live
  /\ todo[p] = <<>>
  /\ live' = live \ {p}
  /\ UNCHANGED <<todo, call, writer, reads, queued, closing, stopped>>

LockStep(t) ==
  \E l \in Locks : RLock(t, l) \/ RUnlock(t, l) \/ Announce(t, l) \/ Lock(t, l) \/ Unlock(t, l)

ClientStep(c) == LockStep(c) \/ StopPolling(c) \/ Wait(c) \/ Ensure(c) \/ Return(c)

Next ==
  \/ \E c \in Clients : (\E name \in Calls : Call(c, name)) \/ ClientStep(c)
  \/ \E p \in Pollers : LockStep(p) \/ Tick(p) \/ Exit(p)

Spec == Init /\ [][Next]_vars

(* Goroutines run.  The runtime hands a mutex to the writer that has       *)
(* waited longest (sync.Mutex turns to a queue after 1 ms), so a writer    *)
(* that finds the lock free again and again gets it: strong fairness.      *)
Fairness ==
  /\ \A c \in Clients : /\ WF_vars(ClientStep(c))
                        /\ \A l \in Locks : SF_vars(Announce(c, l))
  /\ \A p \in Pollers : WF_vars(LockStep(p)) /\ SF_vars(Announce(p, "mu"))

FairSpec == Spec /\ Fairness

---------------------------------------------------------------------------
(* Properties.                                                             *)

(* The variables' shapes, and the protocol of the mutexes themselves: a    *)
(* thread about to unlock holds what it unlocks.                           *)
TypeOK ==
  /\ DOMAIN todo = Threads
  /\ writer \in [Locks -> Threads \cup {Nobody}]
  /\ reads \in [Locks -> [Threads -> 0..2]]
  /\ queued \in [Locks -> SUBSET Threads]
  /\ live \subseteq Pollers
  /\ \A t \in Threads : \A l \in Locks :
       /\ Next0(t, "Unlock", l) => writer[l] = t
       /\ Next0(t, "RUnlock", l) => reads[l][t] > 0

(* A goroutine that asks again for a read lock it holds, behind a writer   *)
(* that waits for the lock to be given back: it will never get it.         *)
Reentering(t) == \E l \in Locks : t \in queued[l] /\ reads[l][t] > 0

Reentry == \E p \in Pollers : Reentering(p)

Blocked(t) ==
  \E l \in Locks :
    \/ t \in queued[l]
    \/ Next0(t, "Lock", l) /\ writer[l] \notin {Nobody, t}
    \/ Next0(t, "Lock", l) /\ writer[l] = t /\ \E r \in Threads : reads[l][r] > 0

(* The only way for the goroutines inside the provider to be stuck is a    *)
(* poller's re-entry: the order in which the two mutexes are taken         *)
(* (notify: mu, then watcherMutex; Close: one after the other) never       *)
(* closes a cycle by itself.                                               *)
StuckOnlyByReentry ==
  LET inside == {t \in Threads : todo[t] # <<>>}
  IN  inside # {} /\ (\A t \in inside : Blocked(t)) => Reentry

(* Every call returns, Close included, unless a poller re-enters.          *)
CallsReturn ==
  \A c \in Clients : (call[c] # "none") ~> (call[c] = "none" \/ Reentry)

(* Close does not wait forever ("a timeout is set so as not to wait        *)
(* indefinitely").                                                         *)
CloseReturns == \A c \in Clients : (call[c] = "Close") ~> (call[c] = "none")
===========================================================================
