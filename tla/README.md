# A TLA+ model of AI_class

AI_class is a Go code base for a teaching platform. Most of its own logic is
infrastructure: a configuration centre (a file provider with hot reload, a
client with namespaces and a cache), clients for Redis, MySQL and MinIO with a
distributed lock and rate limiters on top of Redis, an HTTP server builder and a
graceful shutdown. This directory models the parts of it where goroutines,
files, servers and timeouts interleave. Paths below are relative to the
repository root; `file.go` is `pkg/provider/file/file.go`.

## Inventory

| component | source | state | operations | what is hard | what makes it correct |
|---|---|---|---|---|---|
| file provider | `file.go` | state word, nested and flattened maps, watcher maps, stop channel, poller | Init, Reload, Close, Watch, WatchWithPrefix, cancel; the polling goroutine; callback goroutines | files change while they are read; loads, polls, registrations and Close interleave; errors halfway; Close's timeout | no change and no notification is lost; the maps agree; one loader at a time; Close leaves nothing behind; nothing blocks for ever |
| its locks | `file.go` | `mu`, `watcherMutex` | the lock operations of all of the above | two locks, nested and re-entered read locks | no deadlock, every call returns |
| Redis lock | `infrastructure/redis/redisLock/redisLock.go` | the key on the server; `script`, `unlockOnce` in the process | TryLockOnce, ReadLock, the RetryLocks, Unlock | lost replies, expiry, script cache flushes, unsynchronised package variables | mutual exclusion, the lock passes on only by release or expiry, Unlock releases |
| config client | `pkg/config/config.go`, `watcher.go`, `registry.go`, `bootstrap.go` | namespaces, callbacks, cancel functions, `initOnce` | Init, ReloadNamespace, Watch/UnwatchNamespace, WatchAllNamespaces, StopAllWatch, change handling, Shutdown | check-then-act registration, concurrent change events, the cache's mutex | no registration is lost, a callback hears of a change as often as it was registered, only parsed content is stored, calls return |
| memory cache | `pkg/config/memory_cache.go`, `cache.go` | entries, statistics, stop channel | Get, Set, Delete, batches, namespaces, TTLs, eviction, cleanup, Stats, Close; options and keys | two locks in both orders, a mutex that is kept, unlocked ranges, options | no deadlock of its own, a range ends the process only in the middle of the first insertion, one close of the channel, sound options, keys of different namespaces differ |
| rate limiters | `infrastructure/redis/ratelimiter/` | alive flag, monitor flag, local bucket | Allow, the monitor | fallback and recovery race | falls back and comes back, one monitor |
| graceful shutdown | `pkg/graceful/handler.go` | handler list | RegisterAllFunc, ClearAllFunc | waiting with a timeout | all handlers run, the wait ends |
| HTTP router | `pkg/http/server/`, `cmd/example-service/main.go` | middleware slices and the arrays behind them, routes, server middlewares | Group, Register, the registrars, WithMiddleware, answering a request | slices share memory; layers nest | each route runs its declared middlewares in order, preflights are answered, panics end at a recovery |
| Redis client, MySQL, MinIO | `infrastructure/` | connection pools | one library call each | check-then-create of buckets; a producer goroutine | (thin wrappers) |
| logger, codecs, namespace records, tools | `pkg/logger`, `def`, `pkg/utils`, `pkg/config/namespace`, `cmd`, `tool` | none of interest | formatting, validation, start-up, code generation | nothing concurrent | (not modelled) |

How they interact: `config.Bootstrap` creates a file provider, the config client
loads namespaces through the cache or `GetRaw` and watches them through `Watch`;
the provider calls back from goroutines of its own; `graceful` runs the client's
`Shutdown`. The Redis lock and the limiters call the Redis client, one command
per connection. `PROJECT.json` lists every component with its status, and under
`hazards` what can go wrong at which line.

## Plan

1. Done: `FileProvider` (the core: hot reload), `FileProviderLocks`, `RedisLock`
   refining `Lease`, and their proofs.
2. Done: `MemoryCache` refining `CacheLatch`, with `CacheRules` for options and
   keys; `ConfigClient` composed with `CacheLatch` and the graceful shutdown;
   `Router`.
3. Done: proofs of every safety property the passing runs check, and of both
   refinements of an abstract specification.
4. Left as candidates: the Redis pipeline (queue, execute once, close) and the
   object storage's check-then-create of a bucket.

## The modules

| module | role |
|---|---|
| `FileProvider` | the provider; a critical section is a step, whatever happens outside a lock is a step of its own |
| `FileProviderLocks` | the same operations seen as sequences of lock operations, without data |
| `RedisLock` | the distributed lock, the server, the connections, the shared package variables |
| `Lease` | abstract specification that `RedisLock` implements |
| `MemoryCache` | the configuration cache, one step for each lock operation and each access to its data |
| `CacheRules` | its options and keys, as pure operators |
| `CacheLatch` | abstract specification of the cache's mutex: `MemoryCache` implements it, `ConfigClient` is composed with it |
| `ConfigClient` | the configuration client, the provider it watches, the shutdown handlers |
| `Router` | groups, routes, the slices they share, and the answer to a request |
| `MC...` | instances for TLC, with one `.cfg` for each run |
| `FileProviderProofs`, `FileProviderFreshness`, `FileProviderLocksProofs`, `RedisLockProofs`, `MemoryCacheProofs`, `ConfigClientProofs`, `RouterProofs` | theorems and proofs |
| `Paths` | lemmas the proofs share: programs as paths through situations, induction, flattened sequences |

### FileProvider

State. `state` is the atomic state word; `data` and `flat` are `p.data` and
`p.flatData` (`mapsNil` when Close has set them to nil); `watchers` are the
registered callbacks of both kinds; `stopWatcher` and `closed` are generations of
the stop channel, because `ensureWatcherStarted` replaces a closed one.
`pc`, `op`, `todo`, `at`, `buf`, `cur` are the program counters and locals of
goroutines, `snap` and `sel` those of a poller that outlive one poll. `inflight`
is the set of `go callback(event)` goroutines that have not run yet. `covered`,
`sent`, `seen` and `cancelled` are history variables for the properties; no guard
of a step of the provider depends on them (`Cancel` uses `cancelled` only so that
each CancelFunc is called once).

Actions. Init is `InitCall` (the CAS), `Walk`, `LoadNext`/`StoreFile` for each
file, `LoadDone`, then `ListFiles`, `SnapshotFile`, `StartPoller`; a failure is
`WalkFails`, `LoadFails` or `NoPolling`. Reload is `ReloadCall`, `ReloadClear` and
the same load. Close is `CloseCall`, `CloseStop`, `CloseWait`,
`CloseDropWatchers`, `CloseDropData`. Watch is `WatchCall` (the check and the
lookup) and `Register` (the critical section); when it finds the channel closed it
goes through `ListFiles` … `StartPoller` with `watcherMutex` held. A poll is
`PollLoop`, `PollTick`, `PollScan` for each file, `PollCompare`, then `HandleFile`,
`ReloadFile`, `StoreFile`, `NotifyChanged` (or `SkipFile`, or `NotifyDeleted`) for
each change, and `PollUpdate`. `Edit` is the outside world. A nil map write, a
second close of a channel and a registration in a nil map are `Panic`, which
ends the process.

Abstractions.
- A file's content is a version, the flattened keys it defines and whether it parses. The
  version stands for the (ModTime, Size, MD5) triple; `Stat` and `ReadFile` of one
  snapshot are one step (the comment at `PollScan` says why this loses nothing).
- Only files with a supported extension exist; one that `loadFile` rejects is a
  "broken" one. Files are loaded in any order, the code's order is lexical.
- `flat` is one map for all files, as in the code. A key is a string of the code (a leaf, a subtree
  or a namespace) as a model value; what matters of the text is given by constants: which
  keys start with a file's namespace (`Matches`), which sets of keys a content may
  flatten to, subtrees included (`Documents`), which files' namespaces have no dot
  (`Named`; only those are found in the nested map). So files can define the same
  key, a subtree of one can have the name of another file's namespace, and the last store wins; a value
  remembers the file and the version it comes from. In a single file's mode the
  namespace is empty.
- If one document spells a key in two ways (`"a.b"` and `a` with `b` in it), Go's map order
  decides which value stays; a value stands for either.
- Identical events in flight are one; one context is shared by all calls; a
  callback is registered by one Watch at a time.
- HealthCheck, Get, GetRaw, Exists, Keys, GetMetadata read under a lock and change
  nothing: they are no actions. Their lookups appear in `WatchCall`.

### FileProviderLocks

`Program(name)` and `Polling` give the sequence of lock operations of each call and
of each kind of change, with as many loads and callbacks as `MaxHits` allows.
`RLock`, `Announce`/`Lock` and `Unlock` are Go's `sync.RWMutex`: a waiting writer
keeps new readers out, also one that already holds the lock; `Unlock` lets all
waiting readers in. `Wait` may end at any time, because of the timer. Pollers are
reused after they exit.

### RedisLock and Lease

A call is a sequence of steps of one client, with the server's execution of a
command apart from its reply: `Set`, `SetLost` (not executed, or not before the client gives
up), `ReplyLost` (executed, answer lost). `LockReturns` decides about
`Success` as the code does. In Unlock, `UnlockCall` is `unlockOnce.Do` (load, pass, or
wait), `ScriptLoad`/`ScriptLoadFails` finish the load, `Branch` reads `script`,
`Eval`, `EvalSha` and `NoScript` release. `Expire` and `Flush` are the server's. A
connection error in Unlock (`EvalLost`) is swallowed, as in the code. A command
that was given up goes to `late` (`GiveUpOn`), from where the server may take it at any
time: `LateSet`, `LateLoad`, `LateEval`, `LateEvalSha`. The last two release the key after the Unlock
that sent them has returned; they carry the token of their request, so they
release nobody else's lock. A client
unlocks only what it was told it holds, and once. Assignments of the unsynchronised
variables are single steps: torn reads of the string are left out.

`Lease` has four variables: who holds the lease, who has had it, who is giving it
back, who has lost it by expiry. The refinement maps the holder to the key's value and those giving back (`Asked`)
to the requests inside Unlock and those whose release is still on its way to the server.

### MemoryCache, CacheRules and CacheLatch

State. `opts` are the options in force, `entries` is `c.data` reduced to whether an
entry has expired or never will, `writer`, `held` and `readers` are the two
`sync.RWMutex`es (`c.mu`, `c.statsMu`) as in `FileProviderLocks`, `closed`, `stopped` and
`live` are `c.closed`, `stopChan` and the cleanup goroutine. `todo` is what is left of
each goroutine's call. `fatal` says that the runtime has ended the process.

Actions. Each method is an operator that gives the sequence of steps of a call
(`Set`, `Delete`, `cleanup`, `Stats`, `Close`, …); `Call` and `Tick` start one. The steps are
the lock operations, `Evict`, `BeginWrite` and `Keep`, `Erase`, `ChangeTTL`, `Empty`, `RangeData`, `Sweep`,
and `Closing`, `Stop`, `Wait`, `Exit` for the end. `Expire` is time. An insertion has a beginning
and an end, and so has a range over the entries; `Collide` is the runtime that finds a
range and a write of the map at the same time and ends the process. It need not notice,
so the goroutines may also go on.

Three things in the code decide everything here. `Set` defers `c.mu.Lock()` where it
means Unlock (line 112): it stores its value and then waits for itself.
`DeleteNamespace` does the same with `statsMu`. And `Get` inverts the test of its key
(line 63), so that a proper key is never found. The model has them as they are;
what the code says behind them is unreachable and left out (the nil callback of a
deletion, a second element of a batch). Nor does anything get evicted: the test of
line 115 asks for a key that is already there, where it should ask for one that is not, but no
second Set ever gets past line 111. `Evict` is in the model; nothing is claimed of a capacity.

Abstractions. Values and access times are left out, so any entry may be the
victim of an eviction; counters are reduced to their locks. `Clear` and `cleanup`
write a counter that others read under another lock: data races on numbers
nothing depends on. `evictLFU` and `evictOldest` are never called. In `CacheRules` a text is
the sequence of its parts between separators, since separators are what building and
taking apart a key is about. `WithCleanupInterval` takes a pointer; the model gives it two values,
the one it finds when the option is built and checked (line 220) and the one it finds
when the option is applied (227). `SteadyOptions` are those where they agree: only for them
the interval is sure to be positive. Two remarks on the source: `WithMaxSize` lets a negative
size through, and `ParseCacheKey` never finds the namespace of a key, since it looks
for "ns:" in parts that have been split at ":".

`CacheLatch` is all a caller can rely on: a call that needs the mutex waits, and
gets through until somebody has taken the mutex for good.

### ConfigClient

State. `once` and `ready` are `initOnce` and its result, `handlers` the list of
`graceful`; `namespaces`, `watcher` and `cancelFuncs` are the client's three maps. `content`,
`bad`, `subject`, `issued`, `attached`, `cancelled` are the provider: versions, those that do
not parse, and registrations. `handler` and `callbacks` are the goroutines of
`handleConfigChange`, one for each event. `taken` and `waiting` belong to
`CacheLatch`, instantiated as `Cache`; clients, shutdown goroutines and event handlers
are its users. `delivered`, `registered` and `clashed` are history.

A slice of callbacks is the number of times each client's callback is in it (`watcher`, and
`callbacks` for the copy a handler makes): registered twice, it is called twice. The order of the
slice is left out, since callbacks run in goroutines of their own unless an option says
otherwise.

Actions. Init is `InitCall`, then `LoadRead`, `LoadStore` or `LoadFails` for each
namespace; other callers wait in `InitAwaited`. `Reload` goes through the same
loading. WatchNamespace and WatchAllNamespaces are `WatchCall`, and for each namespace
`WatchCheck` (first critical section), `Subscribe` or `SubscribeFails` (the provider's
Watch), `WatchStore` (second). `Unwatch`, `StopAllWatch` and `Shutdown` are one critical section each,
and `Shutdown` goes on to `ClearCache` if there is one. `Publish` is a change in the provider; the
handler is `HandleRefuse` or `HandleParse`, `HandleCache`, `HandleStore`, `HandleCopy`,
`HandleCall`. `ClearAllFunc` starts a goroutine for each handler and waits for its
timeout, or for good without one, because nobody calls Done.

Abstractions.
- `pkg/config` does not compile as committed: `config.Get` returns two values where
  one is expected. It is modelled with the evident meaning of that line.
- The provider is what `pkg/provider` asks of one: a Watch either fails or gives a
  registration, and a change is announced once to each. It may keep a cancelled
  registration, as the file provider does. The file provider itself does not
  satisfy the interface (it has `WatchWithPrefix` for `WatchPrefix`), and announces a
  namespace as a whole only when it reads a single file.
- With a cache every load fails, since `Get` finds nothing and its error is returned;
  `LoadRead` is for a client without one. `CacheModes` has both. `Bootstrap` never calls Init.
- Each client brings one callback, as often as it likes (`MaxCalls` and `MaxTogether` bound it). What a
  callback is given besides the new content is left out.
- Callbacks run in turn or in goroutines, a panic in one is caught: `HandleCall` takes
  any that is left.
- `createdebounceCallback` is never called, and `ReloadAllNamespaces` cannot be from
  outside the package; both are left out. The read-only getters change nothing.

### Router

State. `heap` holds the arrays behind the middleware slices; `groups` has prefix,
slice, and as history what was declared; `routes` maps a path to the chain it was
registered with; `globals` are the server's middlewares; `failed` says that
registration panicked, after which nothing more is declared.

Actions. `Group`, `Register`, `RegisterHealth`, `RegisterAPI`, `WithMiddleware`: start-up
is sequential, so each call is one step. `Extend` is Go's `append`, with the capacities `NewCaps`
allows: a middleware takes 16 bytes (64-bit platforms), and up to 16 of them the size classes of the runtime
are exact (`Exact`); a longer array may be rounded up by up to `MaxSpare` cells, and from
256 on it need not double.
`Serve` is a pure operator: the answer to a method and a kind of handler, computed
through the server's middlewares, the method check and the route's chain.

What it shows beyond the properties: a group three levels down can have its
middlewares overwritten by a sibling, so the properties stop at two (`Shallow`). With more than
16 middlewares they stop at one: a first-level group with 17 gets an array of 18,
and two groups made from it with one middleware each share the last cell (TLC finds this when
the condition on the length is taken out of `Shallow`). `RegisterAPI` always
panics, because it registers one path twice; a timeout as a route's own middleware
panics at registration; a GET route answers every method; a panic after an answer
is logged with a status that was never sent.

## The runs

| run | instance and bounds | shows |
|---|---|---|
| `file_watch` | `app.json` and `app.prod.json`, both defining the watched key `app.prod.x`; the first written twice, the second once; 1 client, snapshot errors | `Freshness`, `NotifiedUpToDate`, `FlatFollowsData`, `DataAdvances` |
| `file_races` | 1 file written once, 2 clients, 2 pollers, Init/Reload/Close/Watch, failing Stat, Close's wait may run out | `FlatFollowsData`, `OneLoader`, `PanicNeedsClose`, `EventsTrue` |
| `file_close` | 1 file written twice, exact and prefix watcher, 1 client, fair, single-file mode, the context may end | `HotReload`, `CloseCompletes`, `CloseQuiesces` |
| `file_cancel` | 1 file, 1 watcher | violation: a cancelled callback still gets events |
| `locks_all` | 2 clients with all calls, 1 poller at a time, up to 1 load and 1 callback of each kind | `StuckOnlyByReentry`, `CallsReturn` |
| `locks_close` | the same | violation: Close never returns |
| `lock_lease` | a retrying client with 2 requests and 1 retry, a reader with 1 request, 2 commands late at a time, expiry, failures, flushes | `KeyIsLease`, `HeldUntilUnlocked`, `CallsReturn` |
| `lock_mutex` | 2 clients, 1 request, a perfect server | violation: both have the lock |
| `cache_calls` | 2 clients with every call, 2 keys and the empty one, room for 1 entry, statistics on and off, fair | `DeadlockNeedsSelfLock`, `OnlyFirstWriteKills`, `CloseOnce`, `CloseQuiesces`, `CallsReturn`, `MuIsLatch`; `OptionsSound` and `KeysApart` over bounded inputs |
| `config_watch` | 2 clients, 1 shutdown goroutine, 1 namespace, 2 registrations, 2 callbacks (no WatchNamespace starts when they are there or on their way), 1 change, with and without cache, symmetric clients | `Tracked`, `OncePerChange`, `Configured` |
| `config_calls` | the same with 1 registration, no WatchNamespace when a callback is there, fair | `ChangesArriveOrJam`, `CallsReturn` |
| `router_chains` | up to 4 groups, 1 route and the registrars, lists of 1, 2 and 17 middlewares, up to 2 spare cells, 1 server middleware | `ShallowGroupsIntact`, `RoutesAsDeclared`, `PreflightAnswered`, `PanicsContained`, `LogsTellTheTruth` |

Why these bounds are enough to meet the interesting cases: two edits let one fall
between snapshot, read and store of another; a second file lets a change list hold
two changes and an edit of one fall while the other is handled; two clients and
two pollers let a Watch overtake a Close and a failed Init overlap a retry; one
callback of each kind already makes the poller take each lock in each order; two files that
define one key, one of them as part of a subtree, are what it takes to overwrite each
other's entries, in the order of a load or of a poll, and to announce what the other wrote;
two requests let a late SET of the first meet the second, a late script of the first the
lock of the second or of the other client, and two late commands let a SET and the
release that belongs to it arrive in either order. Two calls and the cleanup are
what it takes to meet both lock orders of the cache, and a range and an insertion at the same
time. Two callbacks for one client are a callback registered twice. Two clients and two registrations are the clash in WatchNamespace, one change
delivered twice needs no second change; with several namespaces only the order in
which a loop takes them is new. Four groups are a parent, two children that share an
array and one below; a list of two fills an array that append has grown, and one of 17 gets an
array with a spare cell. The theorems remove the
bounds for the safety properties they cover. CHECK_DEADLOCK is off throughout:
clients may stop calling and files may stop changing; blocking is what
`CallsReturn`, `CloseCompletes` and `StuckOnlyByReentry` are about.

Fairness. Steps of a call and of the poller are weakly fair: goroutines that can run
do run, commands are answered or fail, tickers tick. `PollStop` is strongly fair,
because Go's select picks at random among ready cases, and so is `Exit` of the cache. `Announce` in the lock
models is strongly fair, because a starving `sync.Mutex` queues its waiters. In `ConfigClient` a call
of the provider returns, time passes, and an event's goroutine runs. Calls,
edits, cancellation of the context, expiry and failures are never obliged to happen.

## What the violations say

- `unregisterWatcher` (file.go:1163) compares addresses of two local variables, so
  no callback is ever removed: `NoEventAfterCancel`.
- `triggerWatchers` (file.go:1054) takes a read lock its caller holds. If Close's
  wait runs out while a poller notifies, or a Reload asks for the lock in
  between, both wait for ever: `CloseReturns`.
- `TryLockOnce` (redisLock.go:52) ignores the boolean of `SetNxEx`: a refused lock is
  a success: `MutualExclusion`. That the key itself is a proper lease is
  what `KeyIsLease` shows; the fault is in the result alone: two clients whose SET the
  server accepted never hold the lock at once (theorem `GrantsExclude`).

The model also shows behaviours no text of the repository excludes, listed as
hazards: Reload and poller storing an older content last, a failed Reload leaving the
configuration empty, keys that vanish from a file staying in the flattened map,
an edit between load and first snapshot being missed, a change lost to one
transient read error, a Watch racing Close that starts a poller nobody stops, two files
whose keys flatten to one string overwriting each other, so that a subscriber is told of one
file's value when the other has changed, and a watcher of a file's namespace that is told of
nothing, or of another file's subtree of that name;
in the configuration client, the handler of an older change storing last, a second
Init that returns nil although the first failed, and a client with a cache none
of whose loads succeeds, so that it never calls anybody back (theorem `CacheSilences`); in the
cache, a process that dies because a range without a lock meets the first insertion, an interval
that is changed behind its pointer and makes the cleanup panic, and an eviction test that is
wrong but never reached; in the router, groups below the second level, or below the first
with more than 16 middlewares, that overwrite each other's.

## What is proved

All theorems hold for any sets of files, keys, clients, pollers and watchers (or
clients and requests; clients, namespaces, registrations and versions; goroutines, keys and options;
middleware lists, groups and routes), under the ASSUMEs of the modules and, where the
code needs it, hypotheses that the theorem states and that are explained here.

`FileProviderProofs`:
- `TypeCorrect`: `Spec => []TypeOK`, one lemma for each action that writes
  structured data (`StoreCase`, `RegisterCase`, `PrefixEventsType`, …).
- `FlatData`: `Spec => []FlatFollowsData`: a key of a file's content is in the flattened map
  with the value of that content, or with the value of another file that may define it. The
  statement cannot be stronger, since the last store wins. It is inductive with the
  types and `HeldIsPast`, which says that what is held was in a file that may define
  it: `StoreFile` is the only step that adds to either map and writes both from one
  buffer (`MapsWritten`), over the file's own older values as over those of others;
  `ReloadClear` and `CloseDropData` reset both.
- `SingleLoader` and `PanicFree`: neither property is inductive. `LockInv` adds
  `InitOwnsState` (whoever runs Init found the state "uninit", which makes a second
  CAS fail until the rollback), `StartersKnown` (only Init, or a Watch that has
  replaced a closed channel, is about to start a poller), `ClosedTraces` (the state
  "closed", nil maps and a replaced channel all witness a Close that has begun) and
  `OnePoller`. TLC has checked `LockInv` as an invariant of the races instance too.

- `CloseLeavesNothing` (`CloseQuiesces`), `NoPanic` and `EveryChangeIsTold`
  (`NotifiedUpToDate`) are about behaviours in which no two API calls overlap
  (`[]OneAtATime`; with one client, as in the runs `file_watch` and `file_close`, that is
  every behaviour) and Close's wait does not run out (`~WaitExpires`). Pollers, callbacks,
  edits and cancellation interleave with the calls as they like. Without the
  hypotheses the code breaks the properties: a Watch that overlaps with Close starts a
  poller nobody stops, a second Close that overlaps finds its channel closed, a poller
  that outlives the wait stores in a nil map. `Quiet` says how far a Close has come and
  that from the end of its wait on there is no poller behind its back.
- `EveryChangeIsTold` also excludes Reload, which stores without telling anybody.
  `Notified` is the invariant: a subscriber that does not know the value of its key has
  an announcement coming, of a file whose namespace the key starts with. `InCall` provides that the only other way to
  store, an Init, meets no subscribers. TLC has checked both on an instance with two
  clients.
- `EventsAreTrue` (`EventsTrue`): whatever overlaps, an event on its way names a key its
  callback asked for and a value that was in a file which may define the key. The invariant `HeldIsPast` carries this back to where
  content is read: nothing in the flattened map, nor in a buffer about to be stored, is
  ahead of its file. `DiskGrows`, `StoresRead`, `EventsSent` and `WatchersStay` say what a
  step does to each of the four.

`FileProviderFreshness`, under `Undisturbed` (no Reload and no Close: with either of them
the code breaks the properties):
- `PollingIsFresh`: `Spec => []Freshness`, which needs `ReadsSucceed` as well, because a
  transient read error loses a change. Between a comparison and the end of a poll
  the snapshot being built is newer than the one kept; `PollFresh` says for each
  file of the change list whether it is still to be handled or has been loaded with
  at least the version of the new snapshot, and `StoreFresh` that a buffer about to
  be stored is not older than the snapshot or the stored content. `SingleLoader` is
  what makes this work: no other goroutine stores behind the poller's back.
- `ContentAdvances`: `Spec => DataAdvances`, whatever reads fail: its invariant is about
  loads alone (`LoadInv`: a buffer about to be stored is not older than what is stored).

`FileProviderLocksProofs`:
- `TypeCorrect` and `Stuck` (`StuckOnlyByReentry`). Every goroutine is in one of a few
  situations, given by the locks it holds. Rules say which lock operation leads from which
  situation to which, and the invariant that what is left of each program leads from
  the goroutine's situation back to holding nothing (`Leads`, module `Paths`). A blocked
  goroutine then holds nothing, or is a poller that notifies, holds `mu` for reading
  and waits for `watcherMutex` (`BlockedAsks`). So nobody blocked has `watcherMutex`, hence
  nobody waits for it, hence nobody waits for `mu`.

`RedisLockProofs`:
- `TypeCorrect`, `HeldAndReleased` (`HeldUntilUnlocked`), `GrantsExclude` (at
  most one client has an accepted SET that is neither released nor expired) and
  `Implements` (`Spec => KeyIsLease`, a refinement). The invariant says that a token not yet sent is
  nowhere (`Unsent`, `Future`), that the client of a SET on its way has seen an error
  (`LateIsError`), that a late release belongs to a request that is over (`LateIsOver`), that the key is a stored token (`KeyStored`) and that a Once in
  use has a loading goroutine (`OnceLoading`). Each action is then an `Acquire`, `Ask`,
  `Release` or `Lapse` of the lease, or a stutter.

`MemoryCacheProofs`:
- The same method as for the locks: `Placed` gives each goroutine a situation that the
  rest of its program leads out of, to its end or to the Lock that is never granted.
  From it follow `TypeCorrect`, `ClosesOnce` (`CloseOnce`), `Quiesces` (`CloseQuiesces`) and
  `DeadlockBySelfLock` (`DeadlockNeedsSelfLock`: a set of goroutines that wait for each other
  contains one that waits for itself).
- `RangesSafe` (`OnlyFirstWriteKills`): the code may end the process, but only while a Set writes the
  first entry. Whoever writes to the map holds `mu`, and whoever finds an entry to
  delete, expire or evict would need the mutex that the Set of that entry keeps (`Contents`).
- `CacheIsLatch` (`Spec => MuIsLatch`, a refinement): each step of a goroutine is a step
  of `CacheLatch` or a stutter. `ConfigClient` is composed with that latch.
- `OptionsStaySound` says that option lists of any length lead to sound options, by
  induction over the list (`OptionFits`: an option only sets a field to a value it may have):
  the interval is positive if no duration behind a pointer changes between check and
  use (`SteadyOptions`), the other fields are sound in any case; `OptionsAlwaysSound` (`OptionsSound`) and `KeysStayApart`
  (`KeysApart`) are what the run checks, for every value of the constants.

`ConfigClientProofs`:
- `TypeCorrect`. The invariant `TInv` adds to the types what a client holds between
  two critical sections (`Holds`), that registrations are of a namespace and dropped
  only when cancelled (`Given`), and that handlers run for events that were sent (`Sent`).
- `NothingLost` (`Tracked`). WatchNamespace checks and stores in two critical sections.
  `Clashes` says that whoever is between them is alone there and its namespace is
  unwatched, or the overlap is recorded in `clashed`; so a store overwrites a
  registration only after an overlap. `Kept` says that a kept registration is of the
  namespace it is kept for.
- `HeardOnce` (`OncePerChange`). `Counted`: the slice of a namespace, and what an event has called
  together with what it has still to call, hold a callback no more often than it was ever
  registered; this needs no exception. `OneRegistration`: without an overlap a namespace has
  at most one registration that was not cancelled, at any moment, so only one event of a
  change calls anybody. Excepted are a registration the client cancelled and the provider
  kept, and an overlap: in both the code does call twice.
- `CacheSilences`: with a cache no Init succeeds, no content is stored, no callback called. `JamIsASet`: the
  cache's mutex is kept only by an event handler that has called its `Set`. Both rest on
  `Silent`, which says how far anybody gets whose load goes through the cache.
- `InitIsOnce`: at most one goroutine runs Init, and whoever waits for it has one to wait
  for or need not wait any longer (invariant `OneInit`).
- `ConfigurationStands` (`Configured`). `Filled`: content that is stored exists and
  parses, and the loop of Init has stored that of every namespace it has left behind.

`RouterProofs`:
- `ExtendCells` says cell by cell what append does to the arrays, in place or by
  copying; everything else rests on it.
- `TypeCorrect`, `GroupsKeepTheirs` (`ShallowGroupsIntact`) and `RoutesKeepTheirs`
  (`RoutesAsDeclared`), for lists of any length, with at most 16 middlewares at the second
  level (`Shallow`). The invariant `Levels` is what makes them inductive: the root
  and the groups of the first level with at most 16 middlewares fill their arrays, so nothing is
  appended in place there, and whoever shares an array with a group of the first two levels sees at least
  as much of it, so what it appends lands behind what that group sees.

- `PreflightsAnswered`, `PanicsStop` and `LogsTrue` (`PreflightAnswered`, `PanicsContained`,
  `LogsTellTheTruth`) for chains of any length. `ThroughSteps` unfolds the fold over the
  layers of a chain into one answer for each layer; `ThroughInto` is the induction: what
  every layer preserves holds at the end, and a layer that establishes it anywhere is
  enough.

Induction over the length of a list, as in the last three and in `OptionsStaySound`, is
done on numbers: `Induction` (in `Paths`) takes the set of numbers for which the claim
holds and follows from the well-foundedness of the order on Nat.

Only model-checked: the liveness properties (`HotReload`, `CloseCompletes`,
`CallsReturn`, `ChangesArriveOrJam`), which need fairness and ENABLED, beyond the reach
of the prover; the counterexamples of the three runs that expect one; `ParseCacheKey`, of
which nothing is claimed.

## What is not modelled

- Rate limiters: the alive flag starts at 0 and only the path through Redis would
  set it, so that path is never taken and what runs is the token bucket of a library.
- Redis client and pipeline, MySQL, MinIO: one library call for each method.
- Namespace records, logger, codecs, utilities, the code generator: records,
  formatting, files; no state that two steps could disagree about.
- The start-up of example-service apart from its router: wiring.
- Of the file provider: the read-only operations, file system behaviour beyond
  whole-file versions (partial writes count as broken contents), clock resolution
  of ModTime and MD5 collisions.
