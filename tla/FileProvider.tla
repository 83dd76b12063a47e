--------------------------- MODULE FileProvider ---------------------------
(***************************************************************************)
(* The file configuration provider (pkg/provider/file/file.go): the files  *)
(* under configPath, the content loaded from them, the polling goroutine   *)
(* that reloads what changed, the registered watchers and the callback     *)
(* goroutines that carry events to them, together with the API calls that  *)
(* several goroutines make at once.                                        *)
(*                                                                         *)
(* A critical section of p.mu or p.watcherMutex is one action; everything  *)
(* the code does outside a lock (file reads, the state word, channel       *)
(* operations) is an action of its own, so a value read outside a lock can *)
(* be stale when it is stored.  Module FileProviderLocks looks inside the  *)
(* critical sections.                                                      *)
(*                                                                         *)
(* A file's content is reduced to a version number, the flattened keys it  *)
(* defines and whether it parses.  Every write gives the file a new        *)
(* version; a version stands for the (ModTime, Size, MD5) triple of that   *)
(* content, and a value for the file and the version it comes from.        *)
(***************************************************************************)
EXTENDS Naturals, FiniteSets

CONSTANTS
  Files,          \* paths of supported files under configPath
  Keys,           \* the strings that name a value, a subtree or a whole file
  Clients,        \* goroutines that call the provider's API
  Pollers,        \* identities for polling goroutines; bounds how many are ever started
  ExactWatchers,  \* callbacks passed to Watch
  PrefixWatchers, \* callbacks passed to WatchWithPrefix
  ExactTarget,    \* the key an exact watcher names
  PrefixTarget,   \* the keys that start with the prefix a prefix watcher names
  Namespace,      \* file |-> its namespace
  Named,          \* files whose namespace is neither empty nor has a dot in it
  Matches,        \* file |-> the keys that start with its namespace
  Documents,      \* file |-> the sets of flattened keys its content may have
  NoFile, NoWatcher,
  Calls,          \* the API calls the clients make
  WatchMode,      \* provider.WatchMode: "push", "poll" or "hybrid"
  SingleFile,     \* configPath is a file, not a directory
  Faults,         \* the system calls that may fail although the file is fine
  WaitExpires,    \* Close's five-second wait may run out
  CtxMayEnd,      \* the context passed to the calls may be cancelled
  MaxVersion      \* file |-> bound on its versions

Threads  == Clients \cup Pollers
Watchers == ExactWatchers \cup PrefixWatchers
AllCalls == {"Init", "Reload", "Close", "Watch", "Cancel"}

ASSUME ThreadsAssumption ==
  /\ Clients \cap Pollers = {}
  /\ NoFile \notin Files
ASSUME WatcherAssumption ==
  /\ ExactWatchers \cap PrefixWatchers = {}
  /\ NoWatcher \notin Watchers
  /\ ExactTarget \in [ExactWatchers -> Keys]
  /\ PrefixTarget \in [PrefixWatchers -> SUBSET Keys]
ASSUME KeyAssumption ==
  /\ Namespace \in [Files -> Keys]
  /\ Named \subseteq Files /\ (SingleFile => Named = {})   \* a single file's namespace is empty
  /\ Matches \in [Files -> SUBSET Keys]
  /\ \A f \in Files : Documents[f] \subseteq SUBSET Matches[f]
ASSUME SettingAssumption ==
  /\ Calls \subseteq AllCalls
  /\ Faults \subseteq {"stat", "snapshot", "read"}
  /\ WatchMode \in {"push", "poll", "hybrid"}
  /\ {SingleFile, WaitExpires, CtxMayEnd} \subseteq BOOLEAN
  /\ MaxVersion \in [Files -> Nat \ {0}]

VARIABLES
  disk,        \* file |-> its version, status and flattened keys
  ctxDone,     \* the calls' context is cancelled
  state,       \* p.state
  data,        \* p.data: file |-> version and keys last stored, version 0 if none
  flat,        \* p.flatData: key |-> the value, Void if no entry
  mapsNil,     \* p.data and p.flatData are nil
  watchers,    \* callbacks in p.watchers and p.prefixWatchers
  watchersNil, \* both watcher maps are nil
  stopWatcher, \* generation of the channel in p.stopWatcher
  closed,      \* generations that have been closed
  pc,          \* where each goroutine is; "dead" once a panic ended the process
  op,          \* the call a client is executing
  wreq,        \* the callback of a running Watch
  todo,        \* files still to visit in a thread's current loop
  at,          \* the file a thread is loading or announcing
  buf,         \* file content a thread has read and not yet stored
  cur,         \* the snapshot map a thread is building: file |-> version, 0 if no entry
  snap,        \* poller's lastSnapshots
  sel,         \* the channel generation a poller's select waits on
  inflight,    \* events whose callback goroutine has not run yet
  (* history *)
  covered,     \* files a poller's snapshot has described faithfully since it began
  sent,        \* value last dispatched to an exact watcher, or current when it registered
  seen,        \* value in the event a callback ran with last
  cancelled    \* callbacks whose CancelFunc has returned

provider  == <<state, data, flat, mapsNil>>
watching  == <<watchers, watchersNil>>
channel   == <<stopWatcher, closed>>
frame     == <<op, wreq, todo, at, buf, cur>>
poller    == <<snap, sel, covered>>
events    == <<inflight, sent, seen, cancelled>>
env       == <<disk, ctxDone>>
vars      == <<env, provider, watching, channel, pc, frame, poller, events>>

Void      == [file |-> NoFile, ver |-> 0]
NoData    == [f \in Files |-> [ver |-> 0, keys |-> {}]]
NoFlat    == [k \in Keys |-> Void]
NoSnap    == [f \in Files |-> 0]
NoBuf     == [ver |-> 0, keys |-> {}]

(* What a file can hold: a supported file that parses, one that does not   *)
(* (a half-written file, or a .yaml or .toml, which loadFile rejects), or  *)
(* no file at all.                                                         *)
Contents(f) ==
  [st : {"ok"}, keys : Documents[f]] \cup [st : {"absent", "broken"}, keys : {{}}]

Written(n, c) == [ver |-> n, st |-> c.st, keys |-> c.keys]

Init ==
  /\ disk \in {d \in [Files -> UNION {{Written(1, c) : c \in Contents(f)} : f \in Files}] :
               \A f \in Files : d[f] \in {Written(1, c) : c \in Contents(f)}}
  /\ ctxDone = FALSE
  /\ state = "uninit"
  /\ data = NoData
  /\ flat = NoFlat
  /\ mapsNil = FALSE
  /\ watchers = {}
  /\ watchersNil = FALSE
  /\ stopWatcher = 0
  /\ closed = {}
  /\ pc = [t \in Threads |-> IF t \in Clients THEN "idle" ELSE "none"]
  /\ op = [c \in Clients |-> "none"]
  /\ wreq = [c \in Clients |-> NoWatcher]
  /\ todo = [t \in Threads |-> {}]
  /\ at = [t \in Threads |-> NoFile]
  /\ buf = [t \in Threads |-> NoBuf]
  /\ cur = [t \in Threads |-> NoSnap]
  /\ snap = [p \in Pollers |-> NoSnap]
  /\ sel = [p \in Pollers |-> 0]
  /\ covered = [p \in Pollers |-> {}]
  /\ inflight = {}
  /\ sent = [w \in ExactWatchers |-> Void]
  /\ seen = [w \in Watchers |-> Void]
  /\ cancelled = {}

---------------------------------------------------------------------------
(* Reading the file system and the loaded configuration.                   *)

Present     == {f \in Files : disk[f].st # "absent"}
Readable(f) == disk[f].st = "ok"
RootMissing == SingleFile /\ Present = {}
WalkCancelled == ctxDone /\ ~SingleFile   \* only loadDirectory looks at the context

(* Exists: a flatData entry, or in the nested data.  What is below a file  *)
(* is in flatData too, so the nested data adds the files themselves, those *)
(* that GetNestedValue finds by a name it splits at the dots.              *)
Exists(k) == flat[k] # Void \/ \E f \in Named : Namespace[f] = k /\ data[f].ver # 0

(* Mutant: the keys of a file are collected without a look at flatData.    *)
Affected_All(f) == Matches[f]

(* The keys notifyKeyChanged and notifyKeyDeleted collect for a file:      *)
(* whoever wrote them, those that start with its namespace.                *)
Affected(f) == {k \in Matches[f] : flat[k] # Void}

HasPrefix(w, k) == k \in PrefixTarget[w]

Live(p) == pc[p] \notin {"none", "exited", "dead"}
AnyLive == \E p \in Pollers : Live(p)

(* ensureWatcherStarted runs under watcherMutex, file access included.     *)
WatcherMutexFree ==
  \A c \in Clients : ~(op[c] = "Watch" /\ pc[c] \in {"list", "snapshot"})

Goto(t, l) == pc' = [pc EXCEPT ![t] = l]

Enter(c, name, l) ==
  /\ name \in Calls
  /\ pc[c] = "idle"
  /\ op' = [op EXCEPT ![c] = name]
  /\ Goto(c, l)

LeaveFrame(c) ==
  /\ op' = [op EXCEPT ![c] = "none"]
  /\ wreq' = [wreq EXCEPT ![c] = NoWatcher]
  /\ todo' = [todo EXCEPT ![c] = {}]
  /\ cur' = [cur EXCEPT ![c] = NoSnap]
  /\ UNCHANGED <<at, buf>>

Return(c) == Goto(c, "idle") /\ LeaveFrame(c)

(* An unrecovered panic ends the process, every goroutine of it.           *)
Panic ==
  /\ pc' = [t \in Threads |-> "dead"]
  /\ inflight' = {}
  /\ UNCHANGED <<env, provider, watching, channel, frame, poller, sent, seen, cancelled>>

Crashed == \E t \in Threads : pc[t] = "dead"

---------------------------------------------------------------------------
(* The environment: files are written, broken, deleted; the context ends.  *)

Edit(f) ==
  /\ disk[f].ver < MaxVersion[f]
  /\ \E c \in Contents(f) :
       /\ c.st = "absent" => disk[f].st # "absent"
       /\ disk' = [disk EXCEPT ![f] = Written(@.ver + 1, c)]
  /\ UNCHANGED <<ctxDone, provider, watching, channel, pc, frame, poller, events>>

CancelContext ==
  /\ CtxMayEnd
  /\ ctxDone' = TRUE
  /\ UNCHANGED <<disk, provider, watching, channel, pc, frame, poller, events>>

---------------------------------------------------------------------------
(* Init and Reload.                                                        *)

(* Mutant: Init does not look at the state word before it takes it.        *)
InitCall_NoCheck(c) ==
  /\ state # "closed"
  /\ Enter(c, "Init", "walk")
  /\ state' = "init"
  /\ UNCHANGED <<env, data, flat, mapsNil, watching, channel, wreq, todo, at, buf, cur,
                 poller, events>>

(* The CAS comes first: from here on every other call sees an initialized  *)
(* provider, although nothing is loaded.                                   *)
InitCall(c) ==
  /\ state = "uninit"
  /\ Enter(c, "Init", "walk")
  /\ state' = "init"
  /\ UNCHANGED <<env, data, flat, mapsNil, watching, channel, wreq, todo, at, buf, cur,
                 poller, events>>

ReloadCall(c) ==
  /\ state = "init"
  /\ Enter(c, "Reload", "clear")
  /\ UNCHANGED <<env, provider, watching, channel, wreq, todo, at, buf, cur, poller,
                 events>>

(* Mutant: Reload clears the flattened map only.                           *)
ReloadClear_FlatOnly(c) ==
  /\ pc[c] = "clear"
  /\ Goto(c, "walk")
  /\ flat' = NoFlat
  /\ UNCHANGED <<env, state, data, mapsNil, watching, channel, frame, poller, events>>

(* Fresh maps, also when a Close has set them to nil since the check.      *)
ReloadClear(c) ==
  /\ pc[c] = "clear"
  /\ Goto(c, "walk")
  /\ data' = NoData
  /\ flat' = NoFlat
  /\ mapsNil' = FALSE
  /\ UNCHANGED <<env, state, watching, channel, frame, poller, events>>

(* Mutant: the rollback of a failed Init also drops the maps.              *)
FailLoad_DropMaps(c) ==
  /\ Return(c)
  /\ state' = IF op[c] = "Init" THEN "uninit" ELSE state
  /\ mapsNil' = TRUE
  /\ UNCHANGED <<env, data, flat, watching, channel, poller, events>>

(* A failed Init rolls the state word back, whatever it holds by now; what *)
(* was loaded stays.  A failed Reload just returns.                        *)
FailLoad(c) ==
  /\ Return(c)
  /\ state' = IF op[c] = "Init" THEN "uninit" ELSE state
  /\ UNCHANGED <<env, data, flat, mapsNil, watching, channel, poller, events>>

(* os.Stat of configPath and the listing filepath.Walk takes.              *)
Walk(c) ==
  /\ pc[c] = "walk"
  /\ ~RootMissing
  /\ ~WalkCancelled
  /\ Goto(c, "load")
  /\ todo' = [todo EXCEPT ![c] = Present]
  /\ UNCHANGED <<env, provider, watching, channel, op, wreq, at, buf, cur, poller, events>>

WalkFails(c) ==
  /\ pc[c] = "walk"
  /\ RootMissing \/ WalkCancelled \/ "stat" \in Faults
  /\ FailLoad(c)

(* loadFile up to its lock: the content is read and parsed.                *)
ReadContent(t, f) ==
  /\ Readable(f)
  /\ Goto(t, "store")
  /\ at' = [at EXCEPT ![t] = f]
  /\ buf' = [buf EXCEPT ![t] = [ver |-> disk[f].ver, keys |-> disk[f].keys]]

LoadNext(c) ==
  /\ pc[c] = "load"
  /\ ~WalkCancelled
  /\ \E f \in todo[c] :
       /\ ReadContent(c, f)
       /\ todo' = [todo EXCEPT ![c] = @ \ {f}]
  /\ UNCHANGED <<env, provider, watching, channel, op, wreq, cur, poller, events>>

LoadFails(c) ==
  /\ pc[c] = "load"
  /\ todo[c] # {}
  /\ WalkCancelled \/ "read" \in Faults \/ \E f \in todo[c] : ~Readable(f)
  /\ FailLoad(c)

(* The walk is over: Reload returns, Init goes on to startPollingWatcher.  *)
LoadDone(c) ==
  /\ pc[c] = "load"
  /\ todo[c] = {}
  /\ IF op[c] = "Init" THEN Goto(c, "list") /\ UNCHANGED frame ELSE Return(c)
  /\ UNCHANGED <<env, provider, watching, channel, poller, events>>

(* Mutant: a key that is there already keeps its value.                    *)
flattenMap_KeepOld(t) ==
  [k \in Keys |-> IF k \in buf[t].keys /\ flat[k] = Void
                  THEN [file |-> at[t], ver |-> buf[t].ver] ELSE flat[k]]

(* flattenMap: leaves and the subtrees above them go into one map, over    *)
(* what this file or another has put there.  It only adds entries: a key   *)
(* the new content lacks keeps the value an older content gave it.  Which  *)
(* of two spellings of one key in a document wins is not told apart.       *)
flattenMap(t) ==
  [k \in Keys |-> IF k \in buf[t].keys THEN [file |-> at[t], ver |-> buf[t].ver] ELSE flat[k]]

(* Mutant: a poller announces a file only when its set of keys changed.    *)
StoreFile_QuietValues(t) ==
  /\ pc[t] = "store"
  /\ ~mapsNil
  /\ data' = [data EXCEPT ![at[t]] = buf[t]]
  /\ flat' = flattenMap(t)
  /\ Goto(t, IF t \in Clients THEN "load"
             ELSE IF data[at[t]].keys = buf[t].keys THEN "handle" ELSE "notify")
  /\ at' = IF t \in Clients THEN [at EXCEPT ![t] = NoFile] ELSE at
  /\ buf' = [buf EXCEPT ![t] = NoBuf]
  /\ UNCHANGED <<env, state, mapsNil, watching, channel, op, wreq, todo, cur, poller, events>>

(* loadFile's critical section, for an API call and for a poller alike.    *)
StoreFile(t) ==
  /\ pc[t] = "store"
  /\ IF mapsNil THEN Panic
     ELSE /\ data' = [data EXCEPT ![at[t]] = buf[t]]
          /\ flat' = flattenMap(t)
          /\ Goto(t, IF t \in Clients THEN "load" ELSE "notify")
          /\ at' = IF t \in Clients THEN [at EXCEPT ![t] = NoFile] ELSE at
          /\ buf' = [buf EXCEPT ![t] = NoBuf]
          /\ UNCHANGED <<env, state, mapsNil, watching, channel, op, wreq, todo, cur, poller, events>>

---------------------------------------------------------------------------
(* startPollingWatcher, called by Init and by ensureWatcherStarted.        *)

ListFiles(c) ==
  /\ pc[c] = "list"
  /\ WatchMode = "poll"
  /\ ~RootMissing
  /\ Goto(c, "snapshot")
  /\ todo' = [todo EXCEPT ![c] = Present]
  /\ UNCHANGED <<env, provider, watching, channel, op, wreq, at, buf, cur, poller, events>>

SnapshotFile(c) ==
  /\ pc[c] = "snapshot"
  /\ \E f \in todo[c] \cap Present :
       /\ cur' = [cur EXCEPT ![c][f] = disk[f].ver]
       /\ todo' = [todo EXCEPT ![c] = @ \ {f}]
  /\ UNCHANGED <<env, provider, watching, channel, pc, op, wreq, at, buf, poller, events>>

(* Not polling mode, or an error while listing or taking a snapshot: both  *)
(* callers drop the error and return without a poller.                     *)
NoPolling(c) ==
  /\ \/ pc[c] = "list" /\ (WatchMode # "poll" \/ RootMissing \/ "stat" \in Faults)
     \/ pc[c] = "snapshot" /\ todo[c] # {} /\ ("snapshot" \in Faults \/ ~(todo[c] \subseteq Present))
  /\ Return(c)
  /\ UNCHANGED <<env, provider, watching, channel, poller, events>>

StartPoller(c) ==
  /\ pc[c] = "snapshot"
  /\ todo[c] = {}
  /\ \E p \in Pollers :
       /\ pc[p] = "none"
       /\ pc' = [pc EXCEPT ![c] = "idle", ![p] = "loop"]
       /\ snap' = [snap EXCEPT ![p] = cur[c]]
       /\ covered' = [covered EXCEPT ![p] = {f \in Files : cur[c][f] = data[f].ver}]
  /\ LeaveFrame(c)
  /\ UNCHANGED <<env, provider, watching, channel, sel, events>>

---------------------------------------------------------------------------
(* Close.                                                                  *)

CloseCall(c) ==
  /\ state = "init"
  /\ Enter(c, "Close", "stop")
  /\ state' = "closed"
  /\ UNCHANGED <<env, data, flat, mapsNil, watching, channel, wreq, todo, at, buf, cur,
                 poller, events>>

(* Closing a closed channel panics.                                        *)
CloseStop(c) ==
  /\ pc[c] = "stop"
  /\ IF stopWatcher \in closed THEN Panic
     ELSE /\ closed' = closed \cup {stopWatcher}
          /\ Goto(c, "wait")
          /\ UNCHANGED <<env, provider, watching, stopWatcher, frame, poller, events>>

(* Mutant: Close does not wait for the polling goroutines.                 *)
CloseWait_Skip(c) ==
  /\ pc[c] = "wait"
  /\ Goto(c, "dropWatchers")
  /\ UNCHANGED <<env, provider, watching, channel, frame, poller, events>>

CloseWait(c) ==
  /\ pc[c] = "wait"
  /\ ~AnyLive \/ WaitExpires
  /\ Goto(c, "dropWatchers")
  /\ UNCHANGED <<env, provider, watching, channel, frame, poller, events>>

CloseDropWatchers(c) ==
  /\ pc[c] = "dropWatchers"
  /\ WatcherMutexFree
  /\ Goto(c, "dropData")
  /\ watchers' = {}
  /\ watchersNil' = TRUE
  /\ UNCHANGED <<env, provider, channel, frame, poller, events>>

CloseDropData(c) ==
  /\ pc[c] = "dropData"
  /\ Return(c)
  /\ data' = NoData
  /\ flat' = NoFlat
  /\ mapsNil' = TRUE
  /\ UNCHANGED <<env, state, watching, channel, poller, events>>

---------------------------------------------------------------------------
(* Watch, WatchWithPrefix and the CancelFunc they return.                  *)

(* ensureInitialized and the lookup: Exists for Watch, Keys for            *)
(* WatchWithPrefix.  A callback is registered once at a time.              *)
WatchCall(c, w) ==
  /\ state = "init"
  /\ w \notin watchers
  /\ \A d \in Clients : wreq[d] # w
  /\ IF w \in ExactWatchers
     THEN Exists(ExactTarget[w])
     ELSE \E k \in Keys : HasPrefix(w, k) /\ flat[k] # Void
  /\ Enter(c, "Watch", "register")
  /\ wreq' = [wreq EXCEPT ![c] = w]
  /\ UNCHANGED <<env, provider, watching, channel, todo, at, buf, cur, poller, events>>

(* The critical section of the registration.  A closed stop channel is     *)
(* replaced and a new poller started, still under watcherMutex.            *)
Register(c) ==
  /\ pc[c] = "register"
  /\ WatcherMutexFree
  /\ IF watchersNil THEN Panic
     ELSE /\ watchers' = watchers \cup {wreq[c]}
          /\ sent' = IF wreq[c] \in ExactWatchers
                     THEN [sent EXCEPT ![wreq[c]] = flat[ExactTarget[wreq[c]]]] ELSE sent
          /\ IF stopWatcher \in closed
             THEN stopWatcher' = stopWatcher + 1 /\ Goto(c, "list") /\ UNCHANGED frame
             ELSE Return(c) /\ UNCHANGED stopWatcher
          /\ UNCHANGED <<env, provider, watchersNil, closed, poller, inflight, seen,
                         cancelled>>

(* unregisterWatcher compares the address of its own parameter with the    *)
(* address of the loop variable; the two are never the same object.        *)
SameObject(w) == {}

Cancel(w) ==
  /\ "Cancel" \in Calls
  /\ ~Crashed
  /\ w \in watchers \ cancelled
  /\ WatcherMutexFree
  /\ watchers' = watchers \ SameObject(w)
  /\ cancelled' = cancelled \cup {w}
  /\ UNCHANGED <<env, provider, watchersNil, channel, pc, frame, poller, inflight, sent,
                 seen>>

---------------------------------------------------------------------------
(* The polling goroutine.                                                  *)

(* Each turn of the loop evaluates p.stopWatcher anew.                     *)
PollLoop(p) ==
  /\ pc[p] = "loop"
  /\ Goto(p, "select")
  /\ sel' = [sel EXCEPT ![p] = stopWatcher]
  /\ UNCHANGED <<env, provider, watching, channel, frame, snap, covered, events>>

(* Mutant: the loop listens to its context only.                           *)
PollStop_CtxOnly(p) ==
  /\ pc[p] = "select"
  /\ ctxDone
  /\ Goto(p, "exited")
  /\ UNCHANGED <<env, provider, watching, channel, frame, poller, events>>

PollStop(p) ==
  /\ pc[p] = "select"
  /\ sel[p] \in closed \/ ctxDone
  /\ Goto(p, "exited")
  /\ UNCHANGED <<env, provider, watching, channel, frame, poller, events>>

(* The ticker fires; a select with several ready cases may take any.       *)
PollTick(p) ==
  /\ pc[p] = "select"
  /\ \/ /\ RootMissing \/ "stat" \in Faults
        /\ Goto(p, "loop")
        /\ UNCHANGED <<todo, cur>>
     \/ /\ ~RootMissing
        /\ Goto(p, "scan")
        /\ todo' = [todo EXCEPT ![p] = Present]
        /\ cur' = [cur EXCEPT ![p] = NoSnap]
  /\ UNCHANGED <<env, provider, watching, channel, op, wreq, at, buf, poller, events>>

(* One file's snapshot.  A file that cannot be read gets no entry.  The    *)
(* Stat and the ReadFile of getFileSnapshot count as one step: a write     *)
(* between them yields a triple no later snapshot repeats, so the next     *)
(* poll reloads the file, as it does when the write comes after.           *)
PollScan(p) ==
  /\ pc[p] = "scan"
  /\ \E f \in todo[p] :
       /\ todo' = [todo EXCEPT ![p] = @ \ {f}]
       /\ \/ f \in Present /\ cur' = [cur EXCEPT ![p][f] = disk[f].ver]
          \/ (f \notin Present \/ "snapshot" \in Faults) /\ UNCHANGED cur
  /\ UNCHANGED <<env, provider, watching, channel, pc, op, wreq, at, buf, poller, events>>

(* Mutant: a file without an entry in the last snapshot is not compared.   *)
compareSnapshots_OldOnly(last, current) ==
  {f \in Files : last[f] # 0 /\ last[f] # current[f]}

(* compareSnapshots: new, different and vanished entries.                  *)
compareSnapshots(last, current) == {f \in Files : last[f] # current[f]}

PollCompare(p) ==
  /\ pc[p] = "scan"
  /\ todo[p] = {}
  /\ LET changes == compareSnapshots(snap[p], cur[p])
     IN  /\ Goto(p, IF changes = {} THEN "loop" ELSE "handle")
         /\ todo' = [todo EXCEPT ![p] = changes]
         /\ cur' = IF changes = {} THEN [cur EXCEPT ![p] = NoSnap] ELSE cur
  /\ UNCHANGED <<env, provider, watching, channel, op, wreq, at, buf, poller, events>>

(* Mutant: the changed file is not passed on.                              *)
HandleFile_Unnamed(p) ==
  /\ pc[p] = "handle"
  /\ \E f \in todo[p] :
       /\ todo' = [todo EXCEPT ![p] = @ \ {f}]
       /\ Goto(p, IF f \in Present THEN "read" ELSE "deleted")
  /\ UNCHANGED <<env, provider, watching, channel, op, wreq, at, buf, cur, poller, events>>

(* handleChangeLists, in the order the change list happens to have: Stat   *)
(* tells a deleted file from one to reload.                                *)
HandleFile(p) ==
  /\ pc[p] = "handle"
  /\ \E f \in todo[p] :
       /\ todo' = [todo EXCEPT ![p] = @ \ {f}]
       /\ at' = [at EXCEPT ![p] = f]
       /\ Goto(p, IF f \in Present THEN "read" ELSE "deleted")
  /\ UNCHANGED <<env, provider, watching, channel, op, wreq, buf, cur, poller, events>>

ReloadFile(p) ==
  /\ pc[p] = "read"
  /\ ReadContent(p, at[p])
  /\ UNCHANGED <<env, provider, watching, channel, op, wreq, todo, cur, poller, events>>

(* A file that cannot be loaded is skipped; its new snapshot is kept.      *)
SkipFile(p) ==
  /\ pc[p] = "read"
  /\ "read" \in Faults \/ ~Readable(at[p])
  /\ Goto(p, "handle")
  /\ at' = [at EXCEPT ![p] = NoFile]
  /\ UNCHANGED <<env, provider, watching, channel, op, wreq, todo, buf, cur, poller,
                 events>>

Event(w, k) == [watcher |-> w, key |-> k, val |-> flat[k], type |-> "put"]

(* One event for each prefix with an affected key, about any one of them.  *)
PrefixEvents(f) ==
  LET hit(w) == {k \in Affected(f) : HasPrefix(w, k)}
      told   == {w \in watchers \cap PrefixWatchers : hit(w) # {}}
  IN  {{Event(w, pick[w]) : w \in told} :
         pick \in {g \in [told -> Affected(f)] : \A w \in told : g[w] \in hit(w)}}

(* notifyKeyChanged holds p.mu.RLock throughout, so all its events carry   *)
(* the values of one state of flatData.                                    *)
NotifyChanged(p) ==
  /\ pc[p] = "notify"
  /\ WatcherMutexFree
  /\ LET told == {w \in watchers \cap ExactWatchers : ExactTarget[w] \in Affected(at[p])}
     IN  /\ \E more \in PrefixEvents(at[p]) :
              inflight' = inflight \cup {Event(w, ExactTarget[w]) : w \in told} \cup more
         /\ sent' = [w \in ExactWatchers |-> IF w \in told THEN flat[ExactTarget[w]] ELSE sent[w]]
  /\ Goto(p, "handle")
  /\ at' = [at EXCEPT ![p] = NoFile]
  /\ UNCHANGED <<env, provider, watching, channel, op, wreq, todo, buf, cur, poller, seen,
                 cancelled>>

(* notifyKeyDeleted: prefix watchers only, told of a put; nothing of the   *)
(* file is removed from the maps.                                          *)
NotifyDeleted(p) ==
  /\ pc[p] = "deleted"
  /\ WatcherMutexFree
  /\ \E told \in PrefixEvents(at[p]) : inflight' = inflight \cup told
  /\ Goto(p, "handle")
  /\ at' = [at EXCEPT ![p] = NoFile]
  /\ UNCHANGED <<env, provider, watching, channel, op, wreq, todo, buf, cur, poller, sent,
                 seen, cancelled>>

(* Mutant: the snapshots kept are taken after the changes were handled.    *)
PollUpdate_Late(p) ==
  /\ pc[p] = "handle"
  /\ todo[p] = {}
  /\ Goto(p, "loop")
  /\ snap' = [snap EXCEPT ![p] = [f \in Files |-> IF f \in Present THEN disk[f].ver ELSE 0]]
  /\ covered' = [covered EXCEPT ![p] = @ \cup compareSnapshots(snap[p], cur[p])]
  /\ cur' = [cur EXCEPT ![p] = NoSnap]
  /\ UNCHANGED <<env, provider, watching, channel, op, wreq, todo, at, buf, sel, events>>

PollUpdate(p) ==
  /\ pc[p] = "handle"
  /\ todo[p] = {}
  /\ Goto(p, "loop")
  /\ snap' = [snap EXCEPT ![p] = cur[p]]
  /\ covered' = [covered EXCEPT ![p] = @ \cup compareSnapshots(snap[p], cur[p])]
  /\ cur' = [cur EXCEPT ![p] = NoSnap]
  /\ UNCHANGED <<env, provider, watching, channel, op, wreq, todo, at, buf, sel, events>>

(* A callback goroutine runs; the scheduler picks the order.               *)
Deliver(e) ==
  /\ inflight' = inflight \ {e}
  /\ seen' = [seen EXCEPT ![e.watcher] = e.val]
  /\ UNCHANGED <<env, provider, watching, channel, pc, frame, poller, sent, cancelled>>

---------------------------------------------------------------------------
ClientCall(c) ==
  \/ InitCall(c) \/ ReloadCall(c) \/ CloseCall(c)
  \/ \E w \in Watchers : WatchCall(c, w)

ClientStep(c) ==
  \/ ReloadClear(c) \/ Walk(c) \/ WalkFails(c)
  \/ LoadNext(c) \/ LoadFails(c) \/ StoreFile(c) \/ LoadDone(c)
  \/ ListFiles(c) \/ SnapshotFile(c) \/ NoPolling(c) \/ StartPoller(c)
  \/ CloseStop(c) \/ CloseWait(c) \/ CloseDropWatchers(c) \/ CloseDropData(c)
  \/ Register(c)

PollWork(p) ==
  \/ PollLoop(p) \/ PollTick(p) \/ PollScan(p) \/ PollCompare(p)
  \/ HandleFile(p) \/ ReloadFile(p) \/ SkipFile(p) \/ StoreFile(p)
  \/ NotifyChanged(p) \/ NotifyDeleted(p) \/ PollUpdate(p)

Next ==
  \/ \E f \in Files : Edit(f)
  \/ CancelContext
  \/ \E c \in Clients : ClientCall(c) \/ ClientStep(c)
  \/ \E w \in Watchers : Cancel(w)
  \/ \E p \in Pollers : PollWork(p) \/ PollStop(p)
  \/ \E e \in inflight : Deliver(e)

Spec == Init /\ [][Next]_vars

(* Goroutines that can run do run.  The select of a poller picks among     *)
(* ready cases at random, so a closed channel is noticed in the end even   *)
(* when the ticker is always ready too: strong fairness.  Nothing obliges  *)
(* clients to make calls or anybody to write files.                        *)
Fairness ==
  /\ \A c \in Clients : WF_vars(ClientStep(c))
  /\ \A p \in Pollers : WF_vars(PollWork(p)) /\ SF_vars(PollStop(p))
  /\ WF_vars(\E e \in inflight : Deliver(e))

FairSpec == Spec /\ Fairness

---------------------------------------------------------------------------
(* Properties.                                                             *)

ClientLabels == {"idle", "clear", "walk", "load", "store", "list", "snapshot", "stop",
                 "wait", "dropWatchers", "dropData", "register", "dead"}
PollerLabels == {"none", "loop", "select", "scan", "handle", "read", "store", "notify",
                 "deleted", "exited", "dead"}
Held      == [ver : Nat, keys : SUBSET Keys]
Values    == [file : Files \cup {NoFile}, ver : Nat]
EventSet  == [watcher : Watchers, key : Keys, val : Values, type : {"put"}]

(* Every variable has the shape its comment says: in particular a thread   *)
(* that stores or announces a file holds one, and a registering client     *)
(* holds a callback.                                                       *)
TypeOK ==
  /\ disk \in [Files -> [ver : Nat \ {0}, st : {"ok", "absent", "broken"}, keys : SUBSET Keys]]
  /\ ctxDone \in BOOLEAN
  /\ state \in {"uninit", "init", "closed"}
  /\ data \in [Files -> Held]
  /\ flat \in [Keys -> Values]
  /\ mapsNil \in BOOLEAN
  /\ watchers \subseteq Watchers
  /\ watchersNil \in BOOLEAN
  /\ stopWatcher \in Nat
  /\ closed \subseteq Nat
  /\ pc \in [Threads -> ClientLabels \cup PollerLabels]
  /\ \A c \in Clients : pc[c] \in ClientLabels
  /\ \A p \in Pollers : pc[p] \in PollerLabels
  /\ op \in [Clients -> {"none", "Init", "Reload", "Close", "Watch"}]
  /\ wreq \in [Clients -> Watchers \cup {NoWatcher}]
  /\ todo \in [Threads -> SUBSET Files]
  /\ at \in [Threads -> Files \cup {NoFile}]
  /\ buf \in [Threads -> Held]
  /\ cur \in [Threads -> [Files -> Nat]]
  /\ snap \in [Pollers -> [Files -> Nat]]
  /\ sel \in [Pollers -> Nat]
  /\ covered \in [Pollers -> SUBSET Files]
  /\ inflight \subseteq EventSet
  /\ sent \in [ExactWatchers -> Values]
  /\ seen \in [Watchers -> Values]
  /\ cancelled \subseteq Watchers
  /\ \A t \in Threads : pc[t] \in {"store", "read", "notify", "deleted"} => at[t] \in Files
  /\ \A c \in Clients : pc[c] = "register" => wreq[c] \in Watchers

(* Once a poller's snapshot of a file has described what was loaded, the   *)
(* snapshot never again vouches for content the provider does not hold: if *)
(* it equals a file on disk that parses, that version is the loaded one,   *)
(* even in the middle of a poll and whatever edits fall between snapshot,  *)
(* read and store.  Otherwise compareSnapshots would find nothing to do    *)
(* and the stale content would stay.                                       *)
Freshness ==
  \A p \in Pollers : \A f \in covered[p] :
    snap[p][f] = disk[f].ver /\ Readable(f) => data[f].ver = disk[f].ver

(* Whenever no poller stands between a store and its announcement, every   *)
(* exact watcher has been sent the value flatData holds for its key,       *)
(* whichever of the files that define the key wrote it: a poll loses no    *)
(* notification, whatever registrations, edits and deletions it            *)
(* interleaves with.                                                       *)
NotifiedUpToDate ==
  \A w \in watchers \cap ExactWatchers :
    (\A p \in Pollers : pc[p] # "notify") => sent[w] = flat[ExactTarget[w]]

(* Loaded content only moves forward: no store puts back an older version  *)
(* of a file than the one it replaces.                                     *)
DataAdvances ==
  [][\A f \in Files : data'[f].ver >= data[f].ver]_vars

(* Hot reload reaches the subscriber: when a file that defines a watched   *)
(* key holds a version that neither the poller's snapshot nor the          *)
(* subscriber knows, the callback eventually runs with the value of that   *)
(* version, unless the file changes again or polling ends.                 *)
Reaches(w, f, v) ==
  LET k   == ExactTarget[w]
      val == [file |-> f, ver |-> v]
  IN  ( /\ w \in watchers /\ AnyLive /\ sent[w] # val
        /\ disk[f].ver = v /\ Readable(f) /\ k \in disk[f].keys
        /\ \A p \in Pollers : Live(p) => snap[p][f] # v )
      ~> ( seen[w] = val \/ disk[f].ver # v \/ ~AnyLive )
HotReload ==
  \A w \in ExactWatchers : \A f \in Files : \A v \in 1..MaxVersion[f] : Reaches(w, f, v)

(* The two views of the configuration agree, as far as one map for all     *)
(* files lets them: whatever Reloads, Inits, polls and Closes interleave,  *)
(* a key of the content held in p.data is found in p.flatData with the     *)
(* value of that same content, never with an older one, unless another     *)
(* file that may define the key has put its own value there.               *)
FlatFollowsData ==
  \A f \in Files : \A k \in data[f].keys :
    \/ flat[k] = [file |-> f, ver |-> data[f].ver]
    \/ flat[k].file \in Files \ {f} /\ k \in UNION Documents[flat[k].file]

(* A callback is never told something that was not so: whatever Reloads,   *)
(* Closes and edits fall between a store, its announcement and the run of  *)
(* the callback goroutine, the event goes to a registered watcher (unless  *)
(* a Close has dropped them all), names a key that watcher asked for, and  *)
(* carries a value that a file which may define the key really had; never  *)
(* the void a Reload leaves in flatData.                                   *)
EventsTrue ==
  \A e \in inflight :
    /\ e.val.file \in Files /\ e.key \in UNION Documents[e.val.file]
    /\ e.val.ver \in 1..disk[e.val.file].ver
    /\ e.watcher \in ExactWatchers => e.key = ExactTarget[e.watcher]
    /\ e.watcher \in PrefixWatchers => HasPrefix(e.watcher, e.key)
    /\ e.watcher \in watchers \/ watchersNil

(* The state word works as a lock: two Inits never run at once, although   *)
(* the rollback writes it unconditionally, and until the first Close the   *)
(* running Init and the polling goroutines number one at most.  Only a     *)
(* Reload loads files beside them.                                         *)
Initializing == {c \in Clients : op[c] = "Init"}
Polling      == {p \in Pollers : Live(p)}
OneLoader ==
  /\ \A c, d \in Initializing : c = d
  /\ closed = {} => \A s, t \in Initializing \cup Polling : s = t

(* Before anybody has closed the provider, no interleaving of Init (failed *)
(* and retried), Reload, Watch and polling panics.                         *)
PanicNeedsClose == Crashed => closed # {}

(* A client that has finished a Close whose wait did not run out leaves    *)
(* nothing behind: no poller, no watcher, no configuration.                *)
CloseQuiesces ==
  state = "closed" /\ (\A c \in Clients : pc[c] = "idle")
    => ~AnyLive /\ watchers = {} /\ data = NoData

(* Close gets every poller to exit and returns.                            *)
CloseCompletes ==
  \A c \in Clients : (pc[c] = "stop") ~> (pc[c] = "idle" /\ ~AnyLive)

(* CancelFunc ("cancels the watch", provider.go) stops the notifications:  *)
(* no event is dispatched to a callback after its CancelFunc returned.     *)
NoEventAfterCancel ==
  [][\A e \in inflight' \ inflight : e.watcher \notin cancelled]_vars
===========================================================================
