---------------------- MODULE FileProviderFreshness ----------------------
(***************************************************************************)
(* Theorems: while nobody closes or reloads the provider, content only     *)
(* moves forward (DataAdvances), and if a file that can be snapshotted can *)
(* be read, polling never settles on stale content (Freshness).            *)
(*                                                                         *)
(* The argument.  FileProviderProofs shows that without a Close at most    *)
(* one goroutine loads files.  Hence what it has read and not yet stored   *)
(* lies between the loaded version and the one on disk (StoreAdvances), so *)
(* a store never makes a fresh file stale (FreshStable).  The poller keeps *)
(* the snapshots it took BEFORE it read the files: a file whose new        *)
(* snapshot still equals the disk was not edited since, so what was read   *)
(* after the snapshot is that version (StoreFresh, PollFresh).             *)
(***************************************************************************)
EXTENDS FileProviderProofs

USE DEF vars, env, provider, watching, channel, frame, poller, events

(* What the theorems assume of the callers, and PollingIsFresh of the file *)
(* system too.                                                             *)
Undisturbed == Calls \subseteq {"Init", "Watch", "Cancel"}
ReadsSucceed == "read" \notin Faults

(* Without Close and Reload only an Init loads, and nothing is closed.     *)
CloseFree ==
  /\ closed = {}
  /\ \A c \in Clients :
       /\ op[c] \in {"none", "Init", "Watch"}
       /\ pc[c] \notin {"clear", "stop", "wait", "dropWatchers", "dropData"}
       /\ pc[c] \in {"walk", "load", "store"} => op[c] = "Init"

(* Nothing is newer than the disk.                                         *)
VersionsBounded ==
  \A f \in Files :
    /\ data[f].ver <= disk[f].ver
    /\ \A t \in Threads : cur[t][f] <= disk[f].ver
    /\ \A p \in Pollers : snap[p][f] <= disk[f].ver

(* A store puts back nothing older than what it replaces.                  *)
StoreAdvances ==
  \A t \in Threads : pc[t] = "store" =>
    data[at[t]].ver <= buf[t].ver /\ buf[t].ver <= disk[at[t]].ver

(* A snapshot entry v may be kept for f: it does not hide stale content.   *)
Fresh(v, f) == v = disk[f].ver /\ Readable(f) => data[f].ver = v

(* While a poller handles its changes, the new snapshots of those already  *)
(* handled may be kept ...                                                 *)
Handling(p) == pc[p] \in {"handle", "read", "store", "notify", "deleted"}
Handled(p)  ==
  {f \in Files : /\ cur[p][f] # snap[p][f]
                 /\ f \notin todo[p]
                 /\ ~(at[p] = f /\ pc[p] \in {"read", "store"})}
PollFresh ==
  \A p \in Pollers : Handling(p) => \A f \in Handled(p) : Fresh(cur[p][f], f)

(* ... and so may that of the file about to be stored.                     *)
StoreFresh ==
  \A p \in Pollers : pc[p] = "store" =>
    (cur[p][at[p]] = disk[at[p]].ver /\ Readable(at[p]) => buf[p].ver = disk[at[p]].ver)

LoadInv == TypeOK /\ LockInv /\ CloseFree /\ VersionsBounded /\ StoreAdvances
FreshInv == LoadInv /\ PollFresh /\ StoreFresh /\ Freshness

---------------------------------------------------------------------------
(* No Close, no Reload.                                                    *)

LEMMA CloseFreeNext ==
  ASSUME Undisturbed, TypeOK, LockInv, CloseFree, [Next]_vars PROVE CloseFree'
<1> USE ThreadsAssumption DEF CloseFree, Goto, Threads
<1>0. /\ pc \in [Threads -> ClientLabels \cup PollerLabels]
      /\ op \in [Clients -> {"none", "Init", "Reload", "Close", "Watch"}]
      /\ ~mapsNil /\ ~watchersNil
  BY DEF TypeOK, LockInv, ClosedTraces
<1>1. ASSUME NEW c \in Clients, ClientCall(c) PROVE CloseFree'
  BY <1>0, <1>1 DEF Undisturbed, ClientCall, InitCall, ReloadCall, CloseCall, WatchCall, Enter
<1>2. ASSUME NEW c \in Clients, ClientStep(c) PROVE CloseFree'
  <2>1. ASSUME Return(c), closed' = closed PROVE CloseFree'
    BY <1>0, <2>1 DEF Return, LeaveFrame
  <2>2. CASE WalkFails(c) \/ LoadFails(c) \/ NoPolling(c)
    BY <2>1, <2>2 DEF WalkFails, LoadFails, FailLoad, NoPolling
  <2>3. CASE LoadDone(c)
    <3>1. CASE op[c] = "Init"
      BY <1>0, <2>3, <3>1 DEF LoadDone
    <3>2. CASE op[c] # "Init"
      BY <2>1, <2>3, <3>2 DEF LoadDone
    <3> QED
      BY <3>1, <3>2
  <2>4. CASE StoreFile(c)
    <3>1. /\ pc' = [pc EXCEPT ![c] = "load"]
          /\ pc[c] = "store"
          /\ UNCHANGED <<op, closed>>
      BY <1>0, <2>4, StoreCase
    <3> QED
      BY <1>0, <3>1
  <2>5. CASE StartPoller(c)
    <3>1. PICK p \in Pollers : pc' = [pc EXCEPT ![c] = "idle", ![p] = "loop"]
      BY <2>5 DEF StartPoller
    <3> QED
      BY <1>0, <2>5, <3>1 DEF StartPoller, LeaveFrame
  <2>6. CASE Register(c)
    <3>1. stopWatcher \notin closed
      OBVIOUS
    <3>2. Return(c) /\ closed' = closed
      BY <1>0, <2>6, <3>1, RegisterCase
    <3> QED
      BY <2>1, <3>2
  <2>7. CASE \/ ReloadClear(c) \/ CloseStop(c) \/ CloseWait(c)
             \/ CloseDropWatchers(c) \/ CloseDropData(c)
    BY <2>7 DEF ReloadClear, CloseStop, CloseWait, CloseDropWatchers, CloseDropData
  <2>8. CASE Walk(c) \/ LoadNext(c) \/ ListFiles(c) \/ SnapshotFile(c)
    BY <1>0, <2>8 DEF Walk, LoadNext, ReadContent, ListFiles, SnapshotFile
  <2> QED
    BY <1>2, <2>2, <2>3, <2>4, <2>5, <2>6, <2>7, <2>8 DEF ClientStep
<1>3. ASSUME NEW p \in Pollers, PollWork(p) \/ PollStop(p) PROVE CloseFree'
  <2>1. UNCHANGED <<op, closed>> /\ \E l \in PollerLabels : pc' = [pc EXCEPT ![p] = l]
    <3>1. CASE StoreFile(p)
      BY <1>0, <3>1, StoreCase DEF PollerLabels
    <3>2. CASE ~StoreFile(p)
      BY <1>3, <3>2
      DEF PollWork, PollStop, PollLoop, PollTick, PollScan, PollCompare, HandleFile,
          ReloadFile, ReadContent, SkipFile, NotifyChanged, NotifyDeleted, PollUpdate,
          PollerLabels, TypeOK
    <3> QED
      BY <3>1, <3>2
  <2> QED
    BY <1>0, <2>1
<1>4. ASSUME \/ \E f \in Files : Edit(f)
             \/ CancelContext
             \/ \E w \in Watchers : Cancel(w)
             \/ \E e \in inflight : Deliver(e)
             \/ UNCHANGED vars
      PROVE  CloseFree'
  BY <1>4 DEF Edit, CancelContext, Cancel, Deliver
<1> QED
  BY <1>1, <1>2, <1>3, <1>4 DEF Next

---------------------------------------------------------------------------
(* What a step leaves alone.                                               *)

(* The step leaves thread t where it is.                                   *)
Still(t) ==
  /\ pc'[t] = pc[t] /\ todo'[t] = todo[t] /\ at'[t] = at[t]
  /\ buf'[t] = buf[t] /\ cur'[t] = cur[t]
  /\ t \in Pollers => snap'[t] = snap[t] /\ covered'[t] = covered[t]

EnvStep ==
  \/ \E f \in Files : Edit(f)
  \/ CancelContext
  \/ \E w \in Watchers : Cancel(w)
  \/ \E e \in inflight : Deliver(e)
  \/ UNCHANGED vars

LEMMA EnvMoves == ASSUME EnvStep, NEW t \in Threads PROVE Still(t)
BY DEF EnvStep, Edit, CancelContext, Cancel, Deliver, Still

(* A client step disturbs that client, and the poller it starts.           *)
LEMMA ClientMoves ==
  ASSUME TypeOK, LockInv, CloseFree, NEW c \in Clients, ClientCall(c) \/ ClientStep(c),
         ~StartPoller(c), NEW t \in Threads, t # c
  PROVE  Still(t)
<1> USE ThreadsAssumption DEF Still, Goto, Threads
<1>0. /\ pc \in [Threads -> ClientLabels \cup PollerLabels]
      /\ todo \in [Threads -> SUBSET Files]
      /\ at \in [Threads -> Files \cup {NoFile}]
      /\ buf \in [Threads -> Held]
      /\ cur \in [Threads -> [Files -> Nat]]
      /\ ~mapsNil /\ ~watchersNil /\ stopWatcher \notin closed
  BY DEF TypeOK, LockInv, ClosedTraces, CloseFree
<1>1. CASE ClientCall(c)
  BY <1>0, <1>1 DEF ClientCall, InitCall, ReloadCall, CloseCall, WatchCall, Enter
<1>2. ASSUME Return(c), UNCHANGED poller PROVE Still(t)
  BY <1>0, <1>2 DEF Return, LeaveFrame
<1>3. CASE WalkFails(c) \/ LoadFails(c) \/ NoPolling(c)
  BY <1>2, <1>3 DEF WalkFails, LoadFails, FailLoad, NoPolling
<1>4. CASE LoadDone(c)
  <2>1. CASE op[c] = "Init"
    BY <1>0, <1>4, <2>1 DEF LoadDone
  <2>2. CASE op[c] # "Init"
    BY <1>2, <1>4, <2>2 DEF LoadDone
  <2> QED
    BY <2>1, <2>2
<1>5. CASE StoreFile(c)
  <2>1. /\ pc' = [pc EXCEPT ![c] = "load"]
        /\ at' = [at EXCEPT ![c] = NoFile]
        /\ buf' = [buf EXCEPT ![c] = NoBuf]
        /\ UNCHANGED <<todo, cur, poller>>
    BY <1>0, <1>5, StoreCase
  <2> QED
    BY <1>0, <2>1
<1>6. CASE Register(c)
  <2>1. Return(c) /\ UNCHANGED poller
    BY <1>0, <1>6, RegisterCase
  <2> QED
    BY <1>2, <2>1
<1>7. CASE \/ ReloadClear(c) \/ CloseStop(c) \/ CloseWait(c)
           \/ CloseDropWatchers(c) \/ CloseDropData(c)
  BY <1>7 DEF ReloadClear, CloseStop, CloseWait, CloseDropWatchers, CloseDropData, CloseFree
<1>8. CASE Walk(c) \/ LoadNext(c) \/ ListFiles(c) \/ SnapshotFile(c)
  BY <1>0, <1>8 DEF Walk, LoadNext, ReadContent, ListFiles, SnapshotFile
<1> QED
  BY <1>1, <1>3, <1>4, <1>5, <1>6, <1>7, <1>8 DEF ClientStep

(* A poller's step disturbs that poller only.                              *)
LEMMA PollerMoves ==
  ASSUME TypeOK, LockInv, CloseFree, NEW p \in Pollers, PollWork(p) \/ PollStop(p),
         NEW t \in Threads, t # p
  PROVE  Still(t)
<1> USE ThreadsAssumption DEF Still, Goto, Threads
<1>0. /\ pc \in [Threads -> ClientLabels \cup PollerLabels]
      /\ todo \in [Threads -> SUBSET Files]
      /\ at \in [Threads -> Files \cup {NoFile}]
      /\ buf \in [Threads -> Held]
      /\ cur \in [Threads -> [Files -> Nat]]
      /\ snap \in [Pollers -> [Files -> Nat]]
      /\ covered \in [Pollers -> SUBSET Files]
      /\ ~mapsNil
  BY DEF TypeOK, LockInv, ClosedTraces, CloseFree
<1>1. CASE StoreFile(p)
  <2>1. /\ pc' = [pc EXCEPT ![p] = "notify"]
        /\ at' = at
        /\ buf' = [buf EXCEPT ![p] = NoBuf]
        /\ UNCHANGED <<todo, cur, poller>>
    BY <1>0, <1>1, StoreCase
  <2> QED
    BY <1>0, <2>1
<1>2. CASE PollStop(p) \/ PollLoop(p) \/ PollTick(p)
  BY <1>0, <1>2 DEF PollStop, PollLoop, PollTick
<1>3. CASE PollScan(p)
  <2>1. /\ \E f \in todo[p] : UNCHANGED cur \/ cur' = [cur EXCEPT ![p][f] = disk[f].ver]
        /\ \E x : todo' = [todo EXCEPT ![p] = x]
        /\ UNCHANGED <<pc, at, buf, poller>>
    BY <1>3 DEF PollScan
  <2> QED
    BY <1>0, <2>1
<1>4. CASE PollCompare(p)
  BY <1>0, <1>4 DEF PollCompare
<1>5. CASE HandleFile(p) \/ ReloadFile(p) \/ SkipFile(p)
  BY <1>0, <1>5 DEF HandleFile, ReloadFile, ReadContent, SkipFile
<1>6. CASE NotifyChanged(p) \/ NotifyDeleted(p) \/ PollUpdate(p)
  BY <1>0, <1>6 DEF NotifyChanged, NotifyDeleted, PollUpdate
<1> QED
  BY <1>1, <1>2, <1>3, <1>4, <1>5, <1>6 DEF PollWork

---------------------------------------------------------------------------
(* Loading moves forward.                                                  *)

(* At most one goroutine stands before a store: the running Init or the    *)
(* poller.                                                                 *)
LEMMA OneStore ==
  ASSUME LockInv, CloseFree, NEW s \in Threads, NEW t \in Threads,
         pc[s] = "store", pc[t] = "store"
  PROVE  s = t
BY DEF LockInv, InitOwnsState, OnePoller, Started, Initializing, CloseFree, Threads

(* A step leaves a file's loaded version or raises it to what the storing  *)
(* goroutine has read.                                                     *)
LEMMA DataStep ==
  ASSUME LoadInv, [Next]_vars, NEW f \in Files
  PROVE  /\ data'[f].ver >= data[f].ver
         /\ data'[f].ver <= disk[f].ver
<1>0. data[f].ver \in Nat /\ disk[f].ver \in Nat /\ data[f].ver <= disk[f].ver
  BY DEF LoadInv, TypeOK, Held, VersionsBounded
<1>1. CASE UNCHANGED <<data, flat, mapsNil>>
  BY <1>0, <1>1
<1>2. ASSUME NEW c \in Clients, ReloadClear(c) \/ CloseDropData(c) PROVE FALSE
  BY <1>2 DEF LoadInv, CloseFree, ReloadClear, CloseDropData
<1>3. ASSUME NEW t \in Threads, StoreFile(t)
      PROVE  data'[f].ver >= data[f].ver /\ data'[f].ver <= disk[f].ver
  <2>1. ~mapsNil
    BY DEF LoadInv, LockInv, ClosedTraces, CloseFree
  <2>2. pc[t] = "store" /\ data' = [data EXCEPT ![at[t]] = buf[t]]
    BY <1>3, <2>1, StoreCase
  <2>3. data[at[t]].ver <= buf[t].ver /\ buf[t].ver <= disk[at[t]].ver
    BY <2>2 DEF LoadInv, StoreAdvances
  <2>4. data \in [Files -> Held]
    BY DEF LoadInv, TypeOK
  <2> QED
    BY <1>0, <2>2, <2>3, <2>4
<1> QED
  BY <1>1, <1>2, <1>3, MapsWritten

(* What a thread standing before a store holds after a step: the content   *)
(* it has just read, or what it held before.                               *)
LEMMA BeforeStore ==
  ASSUME LoadInv, [Next]_vars, NEW t \in Threads, pc'[t] = "store"
  PROVE  \/ /\ at'[t] \in Files /\ buf'[t].ver = disk[at'[t]].ver
            /\ UNCHANGED <<disk, data>>
         \/ /\ pc[t] = "store" /\ at'[t] = at[t] /\ buf'[t] = buf[t] /\ cur'[t] = cur[t]
            /\ ~StoreFile(t)
<1> USE ThreadsAssumption DEF LoadInv, Goto, Threads
<1>0. /\ pc \in [Threads -> ClientLabels \cup PollerLabels]
      /\ at \in [Threads -> Files \cup {NoFile}]
      /\ buf \in [Threads -> Held]
      /\ cur \in [Threads -> [Files -> Nat]]
      /\ todo \in [Threads -> SUBSET Files]
      /\ ~mapsNil /\ ~watchersNil /\ stopWatcher \notin closed
      /\ pc[t] \in {"store", "read"} => at[t] \in Files
  BY DEF TypeOK, LockInv, ClosedTraces, CloseFree
<1>1. ~StoreFile(t)
  <2>1. StoreFile(t) => pc' = [pc EXCEPT ![t] = "load"] \/ pc' = [pc EXCEPT ![t] = "notify"]
    BY <1>0, StoreCase
  <2> QED
    BY <1>0, <2>1
<1> DEFINE HasRead == at'[t] \in Files /\ buf'[t].ver = disk[at'[t]].ver /\ UNCHANGED <<disk, data>>
           Holds == pc[t] = "store" /\ at'[t] = at[t] /\ buf'[t] = buf[t] /\ cur'[t] = cur[t]
<1>2. Still(t) => Holds
  BY DEF Still
<1>3. CASE EnvStep
  BY <1>1, <1>2, <1>3, EnvMoves DEF Holds
<1>4. ASSUME NEW c \in Clients, ClientCall(c) \/ ClientStep(c), c # t PROVE Holds
  <2>1. CASE ~StartPoller(c)
    BY <1>2, <1>4, <2>1, ClientMoves
  <2>2. CASE StartPoller(c)
    <3>1. PICK p \in Pollers : pc' = [pc EXCEPT ![c] = "idle", ![p] = "loop"]
      BY <2>2 DEF StartPoller
    <3> QED
      BY <1>0, <1>4, <2>2, <3>1 DEF StartPoller, LeaveFrame
  <2> QED
    BY <2>1, <2>2
<1>5. ASSUME t \in Clients, ClientCall(t) \/ ClientStep(t) PROVE HasRead
  <2>1. ClientStep(t)
    BY <1>0, <1>5 DEF ClientCall, InitCall, ReloadCall, CloseCall, WatchCall, Enter
  <2>2. ~Return(t)
    BY <1>0 DEF Return
  <2>3. ~LoadDone(t) /\ ~Register(t)
    <3>1. LoadDone(t) => Return(t) \/ pc' = [pc EXCEPT ![t] = "list"]
      BY DEF LoadDone
    <3>2. Register(t) => Return(t)
      BY <1>0, <1>5, RegisterCase
    <3> QED
      BY <1>0, <2>2, <3>1, <3>2
  <2>4. CASE LoadNext(t)
    <3>1. PICK f \in todo[t] : ReadContent(t, f)
      BY <2>4 DEF LoadNext
    <3>2. f \in Files
      BY <1>0, <3>1
    <3>3. at'[t] = f /\ buf'[t].ver = disk[f].ver
      BY <1>0, <3>1 DEF ReadContent
    <3> QED
      BY <2>4, <3>2, <3>3 DEF LoadNext
  <2> QED
    BY <1>0, <1>1, <2>1, <2>2, <2>3, <2>4
    DEF ClientStep, ReloadClear, Walk, WalkFails, FailLoad, LoadFails, ListFiles,
        SnapshotFile, NoPolling, StartPoller, CloseStop, CloseWait, CloseDropWatchers,
        CloseDropData, CloseFree
<1>6. ASSUME NEW p \in Pollers, PollWork(p) \/ PollStop(p) PROVE Holds \/ HasRead
  <2>1. CASE p # t
    BY <1>2, <1>6, <2>1, PollerMoves
  <2>2. CASE p = t /\ ReloadFile(p)
    BY <1>0, <2>2 DEF ReloadFile, ReadContent
  <2>3. CASE p = t /\ ~ReloadFile(p)
    BY <1>0, <1>1, <1>6, <2>3
    DEF PollWork, PollStop, PollLoop, PollTick, PollScan, PollCompare, HandleFile, SkipFile,
        NotifyChanged, NotifyDeleted, PollUpdate, Holds
  <2> QED
    BY <2>1, <2>2, <2>3
<1> QED
  BY <1>1, <1>3, <1>4, <1>5, <1>6 DEF Next, EnvStep, Holds, HasRead

LEMMA StoreAdvancesNext == ASSUME LoadInv, [Next]_vars PROVE StoreAdvances'
<1> SUFFICES ASSUME NEW t \in Threads, pc'[t] = "store"
             PROVE  data'[at'[t]].ver <= buf'[t].ver /\ buf'[t].ver <= disk'[at'[t]].ver
  BY DEF StoreAdvances
<1>0. \A f \in Files : data[f].ver \in Nat /\ disk[f].ver \in Nat /\ data[f].ver <= disk[f].ver
  BY DEF LoadInv, TypeOK, Held, VersionsBounded
<1>1. CASE at'[t] \in Files /\ buf'[t].ver = disk[at'[t]].ver /\ UNCHANGED <<disk, data>>
  BY <1>0, <1>1
<1>2. CASE pc[t] = "store" /\ at'[t] = at[t] /\ buf'[t] = buf[t] /\ ~StoreFile(t)
  <2>1. /\ at[t] \in Files /\ buf[t].ver \in Nat
        /\ data[at[t]].ver <= buf[t].ver /\ buf[t].ver <= disk[at[t]].ver
    BY <1>2 DEF LoadInv, TypeOK, Held, StoreAdvances
  <2>2. data' = data
    <3>1. ~mapsNil
      BY DEF LoadInv, LockInv, ClosedTraces, CloseFree
    <3>2. ASSUME NEW s \in Threads, StoreFile(s) PROVE FALSE
      <4>1. pc[s] = "store"
        BY <3>1, <3>2, StoreCase
      <4> QED
        BY <1>2, <3>2, <4>1, OneStore DEF LoadInv
    <3>3. ASSUME NEW c \in Clients, ReloadClear(c) \/ CloseDropData(c) PROVE FALSE
      BY <3>3 DEF LoadInv, CloseFree, ReloadClear, CloseDropData
    <3> QED
      BY <3>2, <3>3, MapsWritten
  <2>3. disk'[at[t]] = disk[at[t]] \/ disk'[at[t]].ver > disk[at[t]].ver
    BY <2>1, DiskGrows DEF LoadInv
  <2>4. disk'[at[t]].ver \in Nat \/ disk'[at[t]] = disk[at[t]]
    <3>1. TypeOK'
      BY TypeNext DEF LoadInv
    <3> QED
      BY <2>1, <3>1 DEF TypeOK
  <2> QED
    BY <1>0, <1>2, <2>1, <2>2, <2>3, <2>4
<1> QED
  BY <1>1, <1>2, BeforeStore

(* Snapshots under construction are taken from the disk, and kept ones     *)
(* from those.                                                             *)
LEMMA SnapshotStep ==
  ASSUME LoadInv, [Next]_vars, NEW f \in Files
  PROVE  /\ \A t \in Threads : cur'[t][f] <= disk[f].ver
         /\ \A p \in Pollers : snap'[p][f] <= disk[f].ver
<1> USE ThreadsAssumption DEF LoadInv, Goto, Threads
<1>0. /\ cur \in [Threads -> [Files -> Nat]]
      /\ snap \in [Pollers -> [Files -> Nat]]
      /\ todo \in [Threads -> SUBSET Files]
      /\ \A g \in Files : disk[g].ver \in Nat
      /\ \A t \in Threads : \A g \in Files : cur[t][g] <= disk[g].ver
      /\ \A p \in Pollers : \A g \in Files : snap[p][g] <= disk[g].ver
      /\ ~mapsNil /\ ~watchersNil /\ stopWatcher \notin closed
  BY DEF TypeOK, VersionsBounded, LockInv, ClosedTraces, CloseFree
<1> DEFINE Bounded == /\ \A t \in Threads : cur'[t][f] <= disk[f].ver
                      /\ \A p \in Pollers : snap'[p][f] <= disk[f].ver
<1>1. ASSUME UNCHANGED <<cur, snap>> PROVE Bounded
  BY <1>0, <1>1
<1>2. ASSUME NEW t \in Threads, cur' = [cur EXCEPT ![t] = NoSnap], UNCHANGED snap PROVE Bounded
  BY <1>0, <1>2 DEF NoSnap
<1>3. ASSUME NEW t \in Threads, NEW g \in Files, cur' = [cur EXCEPT ![t][g] = disk[g].ver],
             UNCHANGED snap
      PROVE  Bounded
  <2>1. \A h \in Files : disk[h].ver <= disk[h].ver
    BY <1>0
  <2> QED
    BY <1>0, <1>3, <2>1
<1>4. ASSUME EnvStep PROVE Bounded
  BY <1>1, <1>4 DEF EnvStep, Edit, CancelContext, Cancel, Deliver
<1>5. ASSUME NEW c \in Clients, ClientCall(c) PROVE Bounded
  BY <1>1, <1>5 DEF ClientCall, InitCall, ReloadCall, CloseCall, WatchCall
<1>6. ASSUME NEW c \in Clients, ClientStep(c) PROVE Bounded
  <2>1. ASSUME Return(c), UNCHANGED snap PROVE Bounded
    BY <1>2, <2>1 DEF Return, LeaveFrame
  <2>2. CASE WalkFails(c) \/ LoadFails(c) \/ NoPolling(c) \/ CloseDropData(c)
    BY <2>1, <2>2 DEF WalkFails, LoadFails, FailLoad, NoPolling, CloseDropData
  <2>3. CASE LoadDone(c)
    <3>1. UNCHANGED snap /\ (Return(c) \/ UNCHANGED cur)
      BY <2>3 DEF LoadDone
    <3> QED
      BY <1>1, <2>1, <3>1
  <2>4. CASE StoreFile(c)
    BY <1>0, <1>1, <2>4, StoreCase
  <2>5. CASE Register(c)
    <3>1. Return(c) /\ UNCHANGED snap
      BY <1>0, <2>5, RegisterCase
    <3> QED
      BY <2>1, <3>1
  <2>6. CASE \/ ReloadClear(c) \/ Walk(c) \/ LoadNext(c) \/ ListFiles(c)
             \/ CloseWait(c) \/ CloseDropWatchers(c)
    BY <1>1, <2>6
    DEF ReloadClear, Walk, LoadNext, ListFiles, CloseWait, CloseDropWatchers
  <2>7. CASE CloseStop(c)
    BY <1>0, <1>1, <2>7 DEF CloseStop
  <2>8. CASE SnapshotFile(c)
    BY <1>0, <1>3, <2>8 DEF SnapshotFile
  <2>9. CASE StartPoller(c)
    <3>1. PICK p \in Pollers : snap' = [snap EXCEPT ![p] = cur[c]]
      BY <2>9 DEF StartPoller
    <3>2. cur' = [cur EXCEPT ![c] = NoSnap]
      BY <2>9 DEF StartPoller, LeaveFrame
    <3> QED
      BY <1>0, <3>1, <3>2 DEF NoSnap
  <2> QED
    BY <1>6, <2>2, <2>3, <2>4, <2>5, <2>6, <2>7, <2>8, <2>9 DEF ClientStep
<1>7. ASSUME NEW p \in Pollers, PollWork(p) \/ PollStop(p) PROVE Bounded
  <2>1. CASE StoreFile(p)
    BY <1>0, <1>1, <2>1, StoreCase
  <2>2. CASE \/ PollStop(p) \/ PollLoop(p) \/ HandleFile(p) \/ ReloadFile(p) \/ SkipFile(p)
             \/ NotifyChanged(p) \/ NotifyDeleted(p)
    BY <1>1, <2>2
    DEF PollStop, PollLoop, HandleFile, ReloadFile, SkipFile, NotifyChanged, NotifyDeleted
  <2>3. CASE PollTick(p) \/ PollCompare(p)
    <3>1. UNCHANGED snap /\ (UNCHANGED cur \/ cur' = [cur EXCEPT ![p] = NoSnap])
      BY <2>3 DEF PollTick, PollCompare
    <3> QED
      BY <1>1, <1>2, <3>1
  <2>4. CASE PollScan(p)
    <3>1. UNCHANGED snap
          /\ \E g \in todo[p] : UNCHANGED cur \/ cur' = [cur EXCEPT ![p][g] = disk[g].ver]
      BY <2>4 DEF PollScan
    <3>2. todo[p] \subseteq Files
      BY <1>0
    <3> QED
      BY <1>1, <1>3, <3>1, <3>2
  <2>5. CASE PollUpdate(p)
    BY <1>0, <2>5 DEF PollUpdate, NoSnap
  <2> QED
    BY <1>7, <2>1, <2>2, <2>3, <2>4, <2>5 DEF PollWork
<1> QED
  BY <1>4, <1>5, <1>6, <1>7 DEF Next, EnvStep, Bounded

LEMMA VersionsBoundedNext == ASSUME LoadInv, [Next]_vars PROVE VersionsBounded'
<1> SUFFICES ASSUME NEW f \in Files
             PROVE  /\ data'[f].ver <= disk'[f].ver
                    /\ \A t \in Threads : cur'[t][f] <= disk'[f].ver
                    /\ \A p \in Pollers : snap'[p][f] <= disk'[f].ver
  BY DEF VersionsBounded
<1>1. TypeOK /\ TypeOK'
  BY TypeNext DEF LoadInv
<1>2. /\ data'[f].ver \in Nat /\ disk[f].ver \in Nat /\ disk'[f].ver \in Nat
      /\ \A t \in Threads : cur'[t][f] \in Nat
      /\ \A p \in Pollers : snap'[p][f] \in Nat
  BY <1>1 DEF TypeOK, Held
<1>3. disk'[f].ver >= disk[f].ver
  BY <1>1, <1>2, DiskGrows
<1> QED
  BY <1>2, <1>3, DataStep, SnapshotStep

LEMMA LoadInvNext ==
  ASSUME Undisturbed, LoadInv, [Next]_vars PROVE LoadInv'
BY TypeNext, LockInvNext, CloseFreeNext, VersionsBoundedNext, StoreAdvancesNext DEF LoadInv

---------------------------------------------------------------------------
(* What is fresh stays fresh.                                              *)

(* No step makes an entry v hide stale content: an edit moves the disk     *)
(* past v, and a store puts a version between v and the disk.              *)
LEMMA FreshStable ==
  ASSUME LoadInv, [Next]_vars, NEW f \in Files
  PROVE  \A v \in Nat : v <= disk[f].ver /\ Fresh(v, f) =>
           (v = disk'[f].ver /\ disk'[f].st = "ok" => data'[f].ver = v)
<1>1. TypeOK /\ TypeOK'
  BY TypeNext DEF LoadInv
<1>2. data'[f].ver \in Nat /\ disk[f].ver \in Nat /\ disk'[f].ver \in Nat
  BY <1>1 DEF TypeOK, Held
<1> QED
  BY <1>1, <1>2, DiskGrows, DataStep DEF Fresh, Readable

LEMMA StoreFreshNext ==
  ASSUME LoadInv, StoreFresh, [Next]_vars PROVE StoreFresh'
<1> SUFFICES ASSUME NEW p \in Pollers, pc'[p] = "store",
                    cur'[p][at'[p]] = disk'[at'[p]].ver, disk'[at'[p]].st = "ok"
             PROVE  buf'[p].ver = disk'[at'[p]].ver
  BY DEF StoreFresh, Readable
<1>1. p \in Threads
  BY DEF Threads
<1>2. CASE at'[p] \in Files /\ buf'[p].ver = disk[at'[p]].ver /\ UNCHANGED <<disk, data>>
  BY <1>2
<1>3. CASE pc[p] = "store" /\ at'[p] = at[p] /\ buf'[p] = buf[p] /\ cur'[p] = cur[p]
  <2>1. at[p] \in Files
    BY <1>1, <1>3 DEF LoadInv, TypeOK
  <2>2. /\ cur[p][at[p]] <= disk[at[p]].ver
        /\ cur[p][at[p]] \in Nat /\ disk[at[p]].ver \in Nat
    BY <1>1, <2>1 DEF LoadInv, TypeOK, VersionsBounded
  <2>3. disk'[at[p]] = disk[at[p]]
    BY <1>3, <2>1, <2>2, DiskGrows DEF LoadInv
  <2> QED
    BY <1>3, <2>3 DEF StoreFresh, Readable
<1> QED
  BY <1>1, <1>2, <1>3, BeforeStore

(* A file whose handling is over, one way or the other.                    *)
LEMMA PollFreshNext ==
  ASSUME Undisturbed, ReadsSucceed, LoadInv, PollFresh, StoreFresh, [Next]_vars
  PROVE  PollFresh'
<1> SUFFICES ASSUME NEW p \in Pollers, Handling(p)', NEW f \in Files, f \in Handled(p)',
                    cur'[p][f] = disk'[f].ver, disk'[f].st = "ok"
             PROVE  data'[f].ver = cur'[p][f]
  BY DEF PollFresh, Fresh, Readable, Handled
<1> USE ThreadsAssumption DEF Handling, Handled, Goto, Threads
<1>0. /\ TypeOK /\ LockInv /\ CloseFree /\ ~mapsNil
      /\ pc \in [Threads -> ClientLabels \cup PollerLabels]
      /\ at \in [Threads -> Files \cup {NoFile}]
      /\ todo \in [Threads -> SUBSET Files]
      /\ cur[p][f] \in Nat /\ cur[p][f] <= disk[f].ver
  BY DEF LoadInv, TypeOK, LockInv, ClosedTraces, CloseFree, VersionsBounded
<1>1. ASSUME Handling(p), f \in Handled(p), cur'[p] = cur[p]
      PROVE  data'[f].ver = cur'[p][f]
  <2>1. Fresh(cur[p][f], f)
    BY <1>1 DEF PollFresh
  <2> QED
    BY <1>0, <1>1, <2>1, FreshStable
<1>2. ASSUME Still(p) PROVE data'[f].ver = cur'[p][f]
  BY <1>1, <1>2 DEF Still
<1>3. ASSUME EnvStep PROVE data'[f].ver = cur'[p][f]
  BY <1>2, <1>3, EnvMoves
<1>4. ASSUME NEW c \in Clients, ClientCall(c) \/ ClientStep(c) PROVE data'[f].ver = cur'[p][f]
  <2>1. CASE ~StartPoller(c)
    BY <1>0, <1>2, <1>4, <2>1, ClientMoves
  <2>2. CASE StartPoller(c)
    <3>1. PICK q \in Pollers : /\ pc' = [pc EXCEPT ![c] = "idle", ![q] = "loop"]
                               /\ snap' = [snap EXCEPT ![q] = cur[c]]
                               /\ covered' = [covered EXCEPT ![q] = {g \in Files : cur[c][g] = data[g].ver}]
      BY <2>2 DEF StartPoller
    <3>2. p # q
      BY <1>0, <3>1
    <3>3. UNCHANGED <<at, buf>> /\ todo' = [todo EXCEPT ![c] = {}] /\ cur' = [cur EXCEPT ![c] = NoSnap]
      BY <2>2 DEF StartPoller, LeaveFrame
    <3>4. cur \in [Threads -> [Files -> Nat]] /\ snap \in [Pollers -> [Files -> Nat]]
          /\ covered \in [Pollers -> SUBSET Files]
      BY <1>0 DEF TypeOK
    <3>5. Still(p)
      BY <1>0, <3>1, <3>2, <3>3, <3>4 DEF Still
    <3> QED
      BY <1>2, <3>5
  <2> QED
    BY <2>1, <2>2
<1>5. ASSUME NEW q \in Pollers, PollWork(q) \/ PollStop(q), q # p PROVE data'[f].ver = cur'[p][f]
  BY <1>0, <1>2, <1>5, PollerMoves
<1>6. ASSUME PollCompare(p) PROVE data'[f].ver = cur'[p][f]
  <2>1. CASE compareSnapshots(snap[p], cur[p]) = {}
    BY <1>0, <1>6, <2>1 DEF PollCompare
  <2>2. CASE compareSnapshots(snap[p], cur[p]) # {}
    <3>1. cur' = cur /\ snap' = snap /\ todo'[p] = compareSnapshots(snap[p], cur[p])
      BY <1>0, <1>6, <2>2 DEF PollCompare
    <3> QED
      BY <3>1 DEF compareSnapshots
  <2> QED
    BY <2>1, <2>2
<1>7. ASSUME HandleFile(p) PROVE data'[f].ver = cur'[p][f]
  <2>1. PICK g \in todo[p] :
          /\ todo' = [todo EXCEPT ![p] = @ \ {g}]
          /\ at' = [at EXCEPT ![p] = g]
          /\ pc' = [pc EXCEPT ![p] = IF g \in Present THEN "read" ELSE "deleted"]
    BY <1>7 DEF HandleFile
  <2>2. pc[p] = "handle" /\ UNCHANGED <<disk, data, cur, snap>>
    BY <1>7 DEF HandleFile
  <2>3. CASE f = g
    <3>1. g \in Present
      BY <2>2, <2>3 DEF Present
    <3> QED
      BY <1>0, <2>1, <2>3, <3>1
  <2>4. CASE f # g
    BY <1>0, <1>1, <2>1, <2>2, <2>4
  <2> QED
    BY <2>3, <2>4
<1>8. ASSUME ReloadFile(p) PROVE data'[f].ver = cur'[p][f]
  <2>1. pc[p] = "read" /\ pc'[p] = "store" /\ at'[p] = at[p] /\ UNCHANGED <<todo, cur, snap>>
    BY <1>0, <1>8 DEF ReloadFile, ReadContent
  <2> QED
    BY <1>1, <2>1
<1>9. ASSUME SkipFile(p) PROVE data'[f].ver = cur'[p][f]
  <2>1. pc[p] = "read" /\ ~Readable(at[p]) /\ UNCHANGED <<disk, todo, cur, snap>>
    BY <1>9 DEF SkipFile, ReadsSucceed
  <2>2. f # at[p]
    BY <2>1 DEF Readable
  <2> QED
    BY <1>1, <2>1, <2>2
<1>10. ASSUME StoreFile(p) PROVE data'[f].ver = cur'[p][f]
  <2>1. pc[p] = "store" /\ data' = [data EXCEPT ![at[p]] = buf[p]] /\ UNCHANGED <<disk, todo, cur, snap>>
    BY <1>0, <1>10, StoreCase
  <2>2. CASE f = at[p]
    <3>1. buf[p].ver = disk[f].ver
      BY <2>1, <2>2 DEF StoreFresh, Readable
    <3>2. data \in [Files -> Held]
      BY <1>0 DEF TypeOK
    <3> QED
      BY <2>1, <2>2, <3>1, <3>2
  <2>3. CASE f # at[p]
    BY <1>1, <2>1, <2>3
  <2> QED
    BY <2>2, <2>3
<1>11. ASSUME NotifyChanged(p) \/ NotifyDeleted(p) PROVE data'[f].ver = cur'[p][f]
  <2>1. pc[p] \in {"notify", "deleted"} /\ UNCHANGED <<todo, cur, snap>>
    BY <1>11 DEF NotifyChanged, NotifyDeleted
  <2> QED
    BY <1>1, <2>1
<1>12. ASSUME PollStop(p) \/ PollLoop(p) \/ PollTick(p) \/ PollScan(p) \/ PollUpdate(p) PROVE FALSE
  BY <1>0, <1>12 DEF PollStop, PollLoop, PollTick, PollScan, PollUpdate
<1> QED
  BY <1>3, <1>4, <1>5, <1>6, <1>7, <1>8, <1>9, <1>10, <1>11, <1>12 DEF Next, EnvStep, PollWork

LEMMA FreshnessNext ==
  ASSUME LoadInv, PollFresh, Freshness, [Next]_vars PROVE Freshness'
<1> SUFFICES ASSUME NEW p \in Pollers, NEW f \in covered'[p],
                    snap'[p][f] = disk'[f].ver, disk'[f].st = "ok"
             PROVE  data'[f].ver = disk'[f].ver
  BY DEF Freshness, Readable
<1> USE ThreadsAssumption DEF Goto, Threads
<1>0. /\ TypeOK /\ LockInv /\ CloseFree
      /\ covered \in [Pollers -> SUBSET Files]
      /\ snap \in [Pollers -> [Files -> Nat]]
      /\ cur \in [Threads -> [Files -> Nat]]
  BY DEF LoadInv, TypeOK
<1>1. f \in Files
  BY <1>0, TypeNext DEF TypeOK
<1>2. /\ snap[p][f] \in Nat /\ snap[p][f] <= disk[f].ver
      /\ cur[p][f] \in Nat /\ cur[p][f] <= disk[f].ver
  BY <1>0, <1>1 DEF LoadInv, VersionsBounded
<1>3. ASSUME f \in covered[p], snap'[p][f] = snap[p][f] PROVE data'[f].ver = disk'[f].ver
  <2>1. Fresh(snap[p][f], f)
    BY <1>3 DEF Freshness, Fresh
  <2> QED
    BY <1>1, <1>2, <1>3, <2>1, FreshStable
<1>4. ASSUME Still(p) PROVE data'[f].ver = disk'[f].ver
  BY <1>3, <1>4 DEF Still
<1>5. ASSUME EnvStep PROVE data'[f].ver = disk'[f].ver
  BY <1>4, <1>5, EnvMoves
<1>6. ASSUME NEW c \in Clients, ClientCall(c) \/ ClientStep(c) PROVE data'[f].ver = disk'[f].ver
  <2>1. CASE ~StartPoller(c)
    BY <1>0, <1>4, <1>6, <2>1, ClientMoves
  <2>2. CASE StartPoller(c)
    <3>1. PICK q \in Pollers : /\ snap' = [snap EXCEPT ![q] = cur[c]]
                               /\ covered' = [covered EXCEPT ![q] = {g \in Files : cur[c][g] = data[g].ver}]
      BY <2>2 DEF StartPoller
    <3>2. UNCHANGED <<disk, data>>
      BY <2>2 DEF StartPoller
    <3>3. CASE p = q
      BY <1>0, <3>1, <3>2, <3>3
    <3>4. CASE p # q
      BY <1>0, <1>3, <3>1, <3>4
    <3> QED
      BY <3>3, <3>4
  <2> QED
    BY <2>1, <2>2
<1>7. ASSUME NEW q \in Pollers, PollWork(q) \/ PollStop(q), q # p PROVE data'[f].ver = disk'[f].ver
  BY <1>0, <1>4, <1>7, PollerMoves
<1>8. ASSUME PollUpdate(p) PROVE data'[f].ver = disk'[f].ver
  <2>1. /\ pc[p] = "handle" /\ todo[p] = {}
        /\ snap'[p] = cur[p]
        /\ covered'[p] = covered[p] \cup compareSnapshots(snap[p], cur[p])
    BY <1>0, <1>8 DEF PollUpdate
  <2>2. CASE cur[p][f] # snap[p][f]
    <3>1. f \in Handled(p) /\ Handling(p)
      BY <1>1, <2>1, <2>2 DEF Handled, Handling
    <3>2. Fresh(cur[p][f], f)
      BY <3>1 DEF PollFresh
    <3> QED
      BY <1>1, <1>2, <2>1, <3>2, FreshStable
  <2>3. CASE cur[p][f] = snap[p][f]
    BY <1>3, <2>1, <2>3 DEF compareSnapshots
  <2> QED
    BY <2>2, <2>3
<1>9. ASSUME PollWork(p) \/ PollStop(p), ~PollUpdate(p) PROVE data'[f].ver = disk'[f].ver
  <2>1. UNCHANGED <<snap, covered>>
    <3>1. CASE StoreFile(p)
      <4>1. ~mapsNil
        BY DEF LoadInv, LockInv, ClosedTraces, CloseFree
      <4> QED
        BY <3>1, <4>1, StoreCase
    <3>2. CASE ~StoreFile(p)
      BY <1>9, <3>2
      DEF PollWork, PollStop, PollLoop, PollTick, PollScan, PollCompare, HandleFile, ReloadFile,
          SkipFile, NotifyChanged, NotifyDeleted
    <3> QED
      BY <3>1, <3>2
  <2> QED
    BY <1>3, <2>1
<1> QED
  BY <1>5, <1>6, <1>7, <1>8, <1>9 DEF Next, EnvStep

---------------------------------------------------------------------------
LEMMA FreshInvInit == Init => FreshInv
<1> SUFFICES ASSUME Init PROVE FreshInv
  OBVIOUS
<1>1. TypeOK /\ LockInv
  BY TypeInit, LockInvInit
<1>2. CloseFree /\ StoreAdvances /\ PollFresh /\ StoreFresh /\ Freshness
  BY ThreadsAssumption
  DEF Init, Threads, CloseFree, StoreAdvances, PollFresh, Handling, StoreFresh, Freshness
<1>3. VersionsBounded
  <2>1. \A f \in Files : disk[f].ver \in Nat
    BY <1>1 DEF TypeOK
  <2> QED
    BY <2>1 DEF Init, VersionsBounded, NoData, NoSnap
<1> QED
  BY <1>1, <1>2, <1>3 DEF FreshInv, LoadInv

(* Polling never settles on stale content, for any number of files, of     *)
(* callers of Init and Watch, of edits, and of failing Stats.              *)
THEOREM PollingIsFresh ==
  ASSUME Undisturbed, ReadsSucceed PROVE Spec => []Freshness
<1>1. FreshInv /\ [Next]_vars => FreshInv'
  BY LoadInvNext, StoreFreshNext, PollFreshNext, FreshnessNext DEF FreshInv
<1>2. FreshInv => Freshness
  BY DEF FreshInv
<1> QED
  BY <1>1, <1>2, FreshInvInit, PTL DEF Spec

(* Loaded content never moves back to an older version of a file, whatever *)
(* system calls fail.                                                      *)
THEOREM ContentAdvances ==
  ASSUME Undisturbed PROVE Spec => DataAdvances
<1>1. Init => LoadInv
  BY FreshInvInit DEF FreshInv
<1>2. LoadInv /\ [Next]_vars => [\A f \in Files : data'[f].ver >= data[f].ver]_vars
  BY DataStep
<1> QED
  BY <1>1, <1>2, LoadInvNext, PTL DEF Spec, DataAdvances
===========================================================================
