---------------------------- MODULE MemoryCache ----------------------------
(***************************************************************************)
(* The memory cache of the configuration client (pkg/config/               *)
(* memory_cache.go): the map of entries under mu, the statistics under     *)
(* statsMu, the cleanup goroutine and Close.                               *)
(*                                                                         *)
(* A call is the sequence of steps it has left: operations on the two      *)
(* mutexes, and what it does to the data in between.  Set locks mu again   *)
(* where it should unlock it (line 112), so its sequence ends in a Lock    *)
(* that is never granted; DeleteNamespace does the same with statsMu.      *)
(* What the code says after those points never runs and is left out.       *)
(***************************************************************************)
EXTENDS Integers, Sequences, FiniteSets, SequencesExt, CacheRules

CONSTANTS
  Clients,  \* goroutines that call the cache
  Cleaner,  \* the goroutine that startCleanup starts
  Nobody,
  Keys,     \* non-empty cache keys
  NoKey,    \* the empty key, which VaildateCacheKey refuses
  OptionSets   \* the options the cache may be created with

Threads == Clients \cup {Cleaner}
Locks   == {"mu", "statsMu"}

ASSUME CacheAssumption ==
  /\ Cleaner \notin Clients
  /\ Nobody \notin Threads
  /\ NoKey \notin Keys
  /\ \A o \in OptionSets : /\ o.maxSize \in Int /\ o.stats \in BOOLEAN
                          /\ o.interval > 0  \* or the cleanup panics as it starts

VARIABLES
  opts,     \* the options in force
  entries,  \* key |-> "live", "expired", or "kept" when it has no expiry
  todo,     \* goroutine |-> the steps left of its call
  writer,   \* lock |-> the goroutine whose Lock excludes the others
  held,     \* lock |-> that goroutine has got in
  readers,  \* lock |-> the goroutines with a read lock
  closed,   \* c.closed
  stopped,  \* stopChan is closed
  live,     \* the cleanup goroutine runs
  fatal     \* the runtime has ended the process

vars == <<opts, entries, todo, writer, held, readers, closed, stopped, live, fatal>>

---------------------------------------------------------------------------
(* The operations.                                                         *)

Step(act, on)    == <<[act |-> act, on |-> on]>>
Locked(l, body)  == Step("Lock", l) \o body \o Step("Unlock", l)
RLocked(l, body) == Step("RLock", l) \o body \o Step("RUnlock", l)

(* recordHit ... recordLastCleanup: a counter under statsMu.               *)
record == IF opts.stats THEN Locked("statsMu", <<>>) ELSE <<>>

Exists(k) == IF k = NoKey THEN <<>> ELSE Locked("mu", <<>>)

(* The test of VaildateCacheKey is inverted (line 63): a proper key is not *)
(* found without a look, and the empty one is looked up but never stored.  *)
Get(k) == IF k = NoKey THEN RLocked("mu", <<>>) \o record ELSE <<>>

(* The first key already fails.                                            *)
MGet(ks) == IF ks = <<>> THEN <<>> ELSE Get(Head(ks))

(* An insertion writes to c.data for as long as its next step is "stored". *)
Store(k, ttlValid) ==
  IF ttlValid THEN Step("store", "data") \o Step("stored", k) \o record ELSE <<>>

(* Both locks of mu: the second is deferred and has no chance.             *)
Set(k, ttlValid) ==
  IF k = NoKey THEN <<>>
  ELSE Step("Lock", "mu") \o Step("evict", k) \o Store(k, ttlValid) \o Step("Lock", "mu")

(* The first key either is refused or never returns.                       *)
MSet(ks) == IF ks = <<>> THEN <<>> ELSE Set(Head(ks), TRUE)

(* Mutant: Delete does not lock mu.                                        *)
Delete_Unlocked(k) == IF k = NoKey THEN <<>> ELSE Step("remove", k)

Delete(k) == IF k = NoKey THEN <<>> ELSE Locked("mu", Step("remove", k))

(* Stops at the first key that is missing; the step "remove" sees to it.   *)
MDelete(ks) == FlattenSeq([i \in DOMAIN ks |-> Delete(ks[i])])

(* A range over c.data without a lock.  It reads c.data for as long as its *)
(* next step is "scanned".                                                 *)
Scan == Step("scan", "data") \o Step("scanned", "data")

GetWithNamespace == Scan
GetNamespaces    == Scan

SetWithNamespace(ks, ttlValid) == IF ttlValid THEN MSet(ks) ELSE <<>>
DeleteWithNamespace(ks) == MDelete(ks)

GetAllNamespaces == RLocked("statsMu", <<>>)
CreateNamespace  == Locked("statsMu", <<>>)

(* No entry carries a namespace, so the range selects nothing; then        *)
(* statsMu is locked a second time.                                        *)
DeleteNamespace == Step("Lock", "statsMu") \o Scan \o Step("Lock", "statsMu")

GetTTL == Locked("mu", <<>>)
SetTTL(k, ttlValid) ==
  IF k = NoKey \/ ~ttlValid THEN <<>> ELSE Locked("mu", Step("renew", k))
DeleteTTL(k) == IF k = NoKey THEN <<>> ELSE Locked("mu", Step("keep", k))
Size  == Locked("mu", <<>>)
Clear == Locked("mu", Step("clear", "data"))

Stats == RLocked("statsMu", RLocked("mu", <<>>))

Close == Locked("mu", Step("closing", "mu")) \o Step("stop", "stopChan") \o Step("wait", "wg")

(* Mutant: cleanup records its time under both locks.                      *)
cleanup_Nested == Locked("mu", Step("sweep", "data") \o record)

(* cleanup, and the record of its time.                                    *)
cleanup == Locked("mu", Step("sweep", "data")) \o record

Batches == {<<k>> : k \in Keys} \cup {<<k, l>> : k, l \in Keys}

Calls ==
  {Exists(k) : k \in Keys} \cup {Get(k) : k \in Keys \cup {NoKey}} \cup
  {MGet(ks) : ks \in Batches} \cup
  {Set(k, v) : k \in Keys \cup {NoKey}, v \in BOOLEAN} \cup {MSet(ks) : ks \in Batches} \cup
  {Delete(k) : k \in Keys \cup {NoKey}} \cup {MDelete(ks) : ks \in Batches} \cup
  {GetWithNamespace, GetNamespaces, GetAllNamespaces, CreateNamespace, DeleteNamespace} \cup
  {SetWithNamespace(ks, v) : ks \in Batches, v \in BOOLEAN} \cup
  {DeleteWithNamespace(ks) : ks \in Batches} \cup
  {SetTTL(k, v) : k \in Keys, v \in BOOLEAN} \cup {DeleteTTL(k) : k \in Keys} \cup
  {GetTTL, Size, Clear, Stats, Close}

---------------------------------------------------------------------------
Init ==
  /\ opts \in OptionSets
  /\ entries = [k \in {} |-> "live"]
  /\ todo = [t \in Threads |-> <<>>]
  /\ writer = [l \in Locks |-> Nobody]
  /\ held = [l \in Locks |-> FALSE]
  /\ readers = [l \in Locks |-> {}]
  /\ closed = FALSE
  /\ stopped = FALSE
  /\ live = TRUE
  /\ fatal = FALSE

locks  == <<writer, held, readers>>
ending == <<closed, stopped, live, fatal>>

About(t, act) == todo[t] # <<>> /\ Head(todo[t]).act = act
Object(t)     == Head(todo[t]).on
Continue(t, rest) == todo' = [todo EXCEPT ![t] = rest]
Advance(t)    == Continue(t, Tail(todo[t]))

RLock(t) ==
  /\ ~fatal
  /\ About(t, "RLock")
  /\ writer[Object(t)] = Nobody
  /\ readers' = [readers EXCEPT ![Object(t)] = @ \cup {t}]
  /\ Advance(t)
  /\ UNCHANGED <<opts, entries, writer, held, ending>>

RUnlock(t) ==
  /\ About(t, "RUnlock")
  /\ readers' = [readers EXCEPT ![Object(t)] = @ \ {t}]
  /\ Advance(t)
  /\ UNCHANGED <<opts, entries, writer, held, ending>>

(* RWMutex.Lock: first keep out everybody else, then wait for the readers. *)
Announce(t) ==
  /\ ~fatal
  /\ About(t, "Lock")
  /\ writer[Object(t)] = Nobody
  /\ writer' = [writer EXCEPT ![Object(t)] = t]
  /\ UNCHANGED <<opts, entries, todo, held, readers, ending>>

Lock(t) ==
  /\ About(t, "Lock")
  /\ writer[Object(t)] = t
  /\ ~held[Object(t)]
  /\ readers[Object(t)] = {}
  /\ held' = [held EXCEPT ![Object(t)] = TRUE]
  /\ Advance(t)
  /\ UNCHANGED <<opts, entries, writer, readers, ending>>

Unlock(t) ==
  /\ About(t, "Unlock")
  /\ writer' = [writer EXCEPT ![Object(t)] = Nobody]
  /\ held' = [held EXCEPT ![Object(t)] = FALSE]
  /\ Advance(t)
  /\ UNCHANGED <<opts, entries, readers, ending>>

---------------------------------------------------------------------------
Without(ks) == [k \in DOMAIN entries \ ks |-> entries[k]]

(* evictOne drops an entry when the map is full and the key is present.    *)
(* Which one, the access times decide; the policy is never consulted.      *)
Victims(k) ==
  IF Cardinality(DOMAIN entries) >= opts.maxSize /\ k \in DOMAIN entries
  THEN {{v} : v \in DOMAIN entries} ELSE {{}}

Evict(t) ==
  /\ About(t, "evict")
  /\ \E vs \in Victims(Object(t)) :
       /\ entries' = Without(vs)
       /\ Continue(t, (IF vs = {} THEN <<>> ELSE record) \o Tail(todo[t]))
  /\ UNCHANGED <<opts, locks, ending>>

BeginWrite(t) ==
  /\ About(t, "store")
  /\ Advance(t)
  /\ UNCHANGED <<opts, entries, locks, ending>>

(* The write is over, and the entry is there.                              *)
Keep(t) ==
  /\ About(t, "stored")
  /\ entries' = [k \in DOMAIN entries \cup {Object(t)} |->
                   IF k = Object(t) THEN "live" ELSE entries[k]]
  /\ Advance(t)
  /\ UNCHANGED <<opts, locks, ending>>

(* Mutant: the early return leaves mu locked.                              *)
Erase_NoUnlock(t) ==
  /\ About(t, "remove")
  /\ entries' = Without({Object(t)})
  /\ Continue(t, IF Object(t) \in DOMAIN entries
                 THEN Locked("statsMu", <<>>) \o record \o Tail(todo[t])
                 ELSE <<>>)
  /\ UNCHANGED <<opts, locks, ending>>

(* A missing key ends the call, a batch included.                          *)
Erase(t) ==
  /\ About(t, "remove")
  /\ entries' = Without({Object(t)})
  /\ Continue(t, IF Object(t) \in DOMAIN entries
                 THEN Locked("statsMu", <<>>) \o record \o Tail(todo[t])
                 ELSE Step("Unlock", "mu"))
  /\ UNCHANGED <<opts, locks, ending>>

(* SetTTL gives an entry a new expiry, DeleteTTL takes it away.            *)
ChangeTTL(t) ==
  /\ About(t, "renew") \/ About(t, "keep")
  /\ entries' = [k \in DOMAIN entries |->
                   IF k # Object(t) THEN entries[k]
                   ELSE IF About(t, "keep") THEN "kept" ELSE "live"]
  /\ Advance(t)
  /\ UNCHANGED <<opts, locks, ending>>

Empty(t) ==
  /\ About(t, "clear")
  /\ entries' = [k \in {} |-> "live"]
  /\ Advance(t)
  /\ UNCHANGED <<opts, locks, ending>>

RangeData(t) ==
  /\ About(t, "scan") \/ About(t, "scanned")
  /\ Advance(t)
  /\ UNCHANGED <<opts, entries, locks, ending>>

Expired == {k \in DOMAIN entries : entries[k] = "expired"}

(* Each removed entry is counted, and the time recorded, under both locks. *)
Sweep(t) ==
  /\ About(t, "sweep")
  /\ entries' = Without(Expired)
  /\ Continue(t, FlattenSeq([i \in 1..Cardinality(Expired) |-> record \o record])
                 \o Tail(todo[t]))
  /\ UNCHANGED <<opts, locks, ending>>

(* Mutant: Close does not look at c.closed.                                *)
Closing_Unchecked(t) ==
  /\ About(t, "closing")
  /\ closed' = TRUE
  /\ Advance(t)
  /\ UNCHANGED <<opts, entries, locks, stopped, live, fatal>>

(* Mutant: a closed cache unlocks mu twice, as with a defer on top.         *)
Closing_UnlockTwice(t) ==
  /\ About(t, "closing")
  /\ closed' = TRUE
  /\ IF closed THEN Continue(t, Step("Unlock", "mu") \o Step("Unlock", "mu")) ELSE Advance(t)
  /\ UNCHANGED <<opts, entries, locks, stopped, live, fatal>>

Closing(t) ==
  /\ About(t, "closing")
  /\ closed' = TRUE
  /\ IF closed THEN Continue(t, Step("Unlock", "mu")) ELSE Advance(t)
  /\ UNCHANGED <<opts, entries, locks, stopped, live, fatal>>

Stop(t) ==
  /\ About(t, "stop")
  /\ stopped' = TRUE
  /\ Advance(t)
  /\ UNCHANGED <<opts, entries, locks, closed, live, fatal>>

(* Mutant: Close returns without waiting for the group.                    *)
Wait_Not(t) ==
  /\ About(t, "wait")
  /\ Advance(t)
  /\ UNCHANGED <<opts, entries, locks, ending>>

(* wg.Wait                                                                 *)
Wait(t) ==
  /\ About(t, "wait")
  /\ ~live
  /\ Advance(t)
  /\ UNCHANGED <<opts, entries, locks, ending>>

(* What writes to the map as its next step, or is in the middle of it.     *)
Writing(t) ==
  \/ About(t, "stored")
  \/ About(t, "remove") /\ Object(t) \in DOMAIN entries
  \/ About(t, "sweep") /\ Expired # {}
  \/ About(t, "evict") /\ Victims(Object(t)) # {{}}

(* "fatal error: concurrent map iteration and map write" ends the process. *)
(* The runtime need not notice: either goroutine may go on instead.        *)
Collide ==
  /\ ~fatal
  /\ \E t, u \in Threads : About(t, "scanned") /\ Writing(u)
  /\ fatal' = TRUE
  /\ UNCHANGED <<opts, entries, todo, locks, closed, stopped, live>>

---------------------------------------------------------------------------
Call(c) ==
  /\ ~fatal
  /\ todo[c] = <<>>
  /\ \E p \in Calls : Continue(c, p)
  /\ UNCHANGED <<opts, entries, locks, ending>>

(* The ticker ticks; Go's select may prefer it to a closed stopChan.       *)
Tick ==
  /\ ~fatal
  /\ live
  /\ todo[Cleaner] = <<>>
  /\ Continue(Cleaner, cleanup)
  /\ UNCHANGED <<opts, entries, locks, ending>>

Exit ==
  /\ ~fatal
  /\ live
  /\ stopped
  /\ todo[Cleaner] = <<>>
  /\ live' = FALSE
  /\ UNCHANGED <<opts, entries, todo, locks, closed, stopped, fatal>>

(* Time passes.                                                            *)
Expire(k) ==
  /\ ~fatal
  /\ k \in DOMAIN entries
  /\ entries[k] = "live"
  /\ entries' = [entries EXCEPT ![k] = "expired"]
  /\ UNCHANGED <<opts, todo, locks, ending>>

Work(t) ==
  /\ ~fatal
  /\ \/ RUnlock(t) \/ Lock(t) \/ Unlock(t)
     \/ Evict(t) \/ BeginWrite(t) \/ Keep(t) \/ Erase(t) \/ ChangeTTL(t) \/ Empty(t)
     \/ RangeData(t) \/ Sweep(t)
     \/ Closing(t) \/ Stop(t) \/ Wait(t)

Next ==
  \/ \E t \in Threads : RLock(t) \/ Announce(t) \/ Work(t)
  \/ \E c \in Clients : Call(c)
  \/ Tick
  \/ Exit
  \/ \E k \in Keys : Expire(k)
  \/ Collide

Spec == Init /\ [][Next]_vars

(* A goroutine that can run does; sync.RWMutex serves its waiters in turn; *)
(* select picks at random among the ready cases.                           *)
Fairness ==
  /\ \A t \in Threads : WF_vars(Work(t)) /\ SF_vars(RLock(t)) /\ SF_vars(Announce(t))
  /\ SF_vars(Exit)

FairSpec == Spec /\ Fairness

---------------------------------------------------------------------------
(* The next lock operation of t is an Unlock of l: t is in a critical      *)
(* section.                                                                *)
Inside(t, l) ==
  \E i \in DOMAIN todo[t] :
    /\ todo[t][i] = [act |-> "Unlock", on |-> l]
    /\ \A j \in 1..(i - 1) : todo[t][j].act \notin {"Lock", "Unlock", "RLock", "RUnlock"}

(* The types, and who is in a critical section has its mutex to himself;   *)
(* unlocking a mutex that is not locked would end the process.             *)
TypeOK ==
  /\ opts \in OptionSets
  /\ \E ks \in SUBSET Keys : entries \in [ks -> {"live", "expired", "kept"}]
  /\ \A t \in Threads : \A i \in DOMAIN todo[t] : todo[t][i].on \in
       Keys \cup Locks \cup {"data", "stopChan", "wg"}
  /\ writer \in [Locks -> Threads \cup {Nobody}]
  /\ held \in [Locks -> BOOLEAN]
  /\ readers \in [Locks -> SUBSET Threads]
  /\ closed \in BOOLEAN /\ stopped \in BOOLEAN /\ live \in BOOLEAN /\ fatal \in BOOLEAN
  /\ \A l \in Locks : held[l] => readers[l] = {} /\ writer[l] # Nobody
  /\ \A t \in Threads, l \in Locks : Inside(t, l) => writer[l] = t /\ held[l]

(* t is inside a call whose last step is a Lock: Set or DeleteNamespace.   *)
SelfLocking(t) == todo[t] # <<>> /\ Last(todo[t]).act = "Lock"

(* t asks for a mutex, and u is why it does not get it.                    *)
WaitsFor(t, u) ==
  /\ About(t, "Lock") \/ About(t, "RLock")
  /\ LET l == Object(t) IN
       \/ u = writer[l] /\ (u # t \/ held[l])
       \/ writer[l] = t /\ ~held[l] /\ u \in readers[l]

(* Stats takes statsMu and then mu; Delete, cleanup and Set take mu and    *)
(* then statsMu (lines 520, 176, 474).  The inversion bites only together  *)
(* with a Set: Delete and cleanup reach for statsMu only when there is an  *)
(* entry, and whoever has made one keeps mu.                               *)
DeadlockNeedsSelfLock ==
  \A D \in (SUBSET Threads) \ {{}} :
    (\A t \in D : \E u \in D : WaitsFor(t, u)) => \E t \in D : SelfLocking(t)

(* Unlocked ranges over c.data (lines 211, 276, 326) may end the process,  *)
(* but only while a Set writes the first entry (line 137): a cache that    *)
(* has got its first entry never dies of a range again, whatever deletes,  *)
(* expires or clears entries.                                              *)
OnlyFirstWriteKills ==
  fatal => entries = <<>> /\ \E t \in Threads : About(t, "stored")

(* Concurrent Closes close stopChan once (a second close would panic).     *)
CloseOnce ==
  \A t, u \in Threads : About(t, "stop") => ~stopped /\ (About(u, "stop") => u = t)

(* When the Close that stopped the cleanup returns, the goroutine is gone. *)
CloseQuiesces == (stopped /\ ~\E t \in Threads : About(t, "wait")) => ~live

(* NewMemoryCache has just returned: where the properties of options and   *)
(* keys are looked at, which no call of the cache changes.                 *)
Fresh == entries = <<>> /\ live /\ \A t \in Threads : todo[t] = <<>>

(* Whatever the options and their order, no later option undoes the check  *)
(* of an earlier one; and time.NewTicker gets a positive interval (it      *)
(* panics on any other, memory_cache.go:426), unless the duration behind   *)
(* the pointer of WithCleanupInterval changes between its check            *)
(* (cache.go:220) and its use (227).                                       *)
OptionsSound ==
  Fresh => \A o, p \in Options :
    LET made == Configured(<<o, p>>) IN
      /\ {o, p} \subseteq SteadyOptions => made.interval > 0
      /\ made.maxSize # 0
      /\ made.policy \in EvictionPolicies
      /\ VaildateTTL(made.ttl)

(* Two namespaces without a separator in their names never share a cache   *)
(* key, whatever separators the keys contain, configuration and metadata   *)
(* keys differ, and a key that is built is refused only for its length.    *)
KeysApart ==
  Fresh => \A n, m \in Names, k, l \in KeyTexts :
    /\ BuildConfigKey(<<n>>, k) = BuildConfigKey(<<m>>, l) => n = m /\ k = l
    /\ BuildConfigKey(<<n>>, k) # BuildMetadataKey(<<m>>, l)
    /\ VaildateCacheKey(BuildConfigKey(<<n>>, k)) <=> Len(k) <= 252

(* A mutex is lost for good.                                               *)
Jammed == \E l \in Locks : writer[l] # Nobody /\ SelfLocking(writer[l])

(* Without a Set and a DeleteNamespace every call returns, Close included, *)
(* whatever the cleanup goroutine does meanwhile.  (A process that dies of *)
(* a range has a Set in it.)                                               *)
CallsReturn == \A c \in Clients : (todo[c] # <<>>) ~> (todo[c] = <<>> \/ Jammed)

---------------------------------------------------------------------------
Needs(t) == \E i \in DOMAIN todo[t] : todo[t][i].on = "mu" /\ todo[t][i].act \in {"Lock", "RLock"}
Taken == \E t \in Threads : writer["mu"] = t /\ held["mu"] /\ Needs(t) /\ SelfLocking(t)

Latch == INSTANCE CacheLatch WITH
           Users <- Threads, taken <- Taken, waiting <- {t \in Threads : Needs(t)}

(* As far as mu is concerned the cache is a latch.                         *)
MuIsLatch == Latch!Spec
=============================================================================
