------------------------ MODULE FileProviderProofs ------------------------
(***************************************************************************)
(* Theorems about FileProvider, for every number of files, keys, callers,  *)
(* pollers and watchers.                                                   *)
(***************************************************************************)
EXTENDS FileProvider, TLAPS

USE DEF vars, env, provider, watching, channel, frame, poller, events

(* Every content an environment step or the initial state gives a file has *)
(* the shape TypeOK asks of disk.                                          *)
LEMMA WrittenType ==
  ASSUME NEW n \in Nat \ {0}, NEW f \in Files, NEW c \in Contents(f)
  PROVE  /\ Written(n, c) \in [ver : Nat \ {0}, st : {"ok", "absent", "broken"}, keys : SUBSET Keys]
         /\ Written(n, c).ver = n
         /\ Written(n, c).keys \subseteq UNION Documents[f]
<1>1. c.st \in {"ok", "absent", "broken"} /\ (c.keys = {} \/ c.keys \in Documents[f])
  BY DEF Contents
<1>2. c.keys \subseteq Keys
  BY <1>1, KeyAssumption
<1> QED
  BY <1>1, <1>2 DEF Written

(* An event about a key is an element of EventSet.                         *)
LEMMA EventType ==
  ASSUME TypeOK, NEW w \in Watchers, NEW k \in Keys
  PROVE  Event(w, k) \in EventSet
BY DEF Event, EventSet, TypeOK

(* The events for prefix watchers are events.                              *)
LEMMA PrefixEventsType ==
  ASSUME TypeOK, NEW f \in Files, NEW told \in PrefixEvents(f)
  PROVE  told \subseteq EventSet
<1> DEFINE hit(w) == {k \in Affected(f) : HasPrefix(w, k)}
           who == {w \in watchers \cap PrefixWatchers : hit(w) # {}}
<1>1. PICK g \in [who -> Affected(f)] : told = {Event(w, g[w]) : w \in who}
  BY DEF PrefixEvents
<1>2. Affected(f) \subseteq Keys
  BY KeyAssumption DEF Affected
<1>3. who \subseteq Watchers
  BY DEF Watchers
<1> QED
  BY <1>1, <1>2, <1>3, EventType

(* A panic keeps the types.                                                *)
LEMMA PanicType ==
  ASSUME TypeOK, Panic PROVE TypeOK'
BY ThreadsAssumption DEF TypeOK, Panic, ClientLabels, PollerLabels, Held, Threads, EventSet

(* Returning from a call keeps the types of the goroutines' local state.   *)
LEMMA ReturnType ==
  ASSUME TypeOK, NEW c \in Clients, Return(c),
         UNCHANGED <<env, state, data, flat, mapsNil, watchersNil, closed, poller>>,
         stopWatcher' = stopWatcher, watchers' \subseteq Watchers,
         sent' \in [ExactWatchers -> Values], UNCHANGED <<inflight, seen, cancelled>>
  PROVE  TypeOK'
BY ThreadsAssumption
DEF TypeOK, Return, LeaveFrame, Goto, ClientLabels, PollerLabels, Held, Threads, NoSnap

(* What storing a file amounts to when the maps are there.                 *)
LEMMA StoreCase ==
  ASSUME NEW t \in Threads, StoreFile(t), ~mapsNil
  PROVE  /\ pc[t] = "store"
         /\ data' = [data EXCEPT ![at[t]] = buf[t]]
         /\ flat' = flattenMap(t)
         /\ t \in Clients => /\ pc' = [pc EXCEPT ![t] = "load"]
                             /\ at' = [at EXCEPT ![t] = NoFile]
         /\ t \notin Clients => /\ pc' = [pc EXCEPT ![t] = "notify"]
                                /\ at' = at
         /\ buf' = [buf EXCEPT ![t] = NoBuf]
         /\ UNCHANGED <<env, state, mapsNil, watching, channel, op, wreq, todo, cur,
                         poller, events>>
BY DEF StoreFile, Goto

(* What a registration amounts to when it does not panic.                  *)
LEMMA RegisterCase ==
  ASSUME NEW c \in Clients, Register(c), ~watchersNil
  PROVE  /\ pc[c] = "register"
         /\ watchers' = watchers \cup {wreq[c]}
         /\ sent' = IF wreq[c] \in ExactWatchers
                    THEN [sent EXCEPT ![wreq[c]] = flat[ExactTarget[wreq[c]]]] ELSE sent
         /\ stopWatcher \in closed => /\ stopWatcher' = stopWatcher + 1
                                      /\ pc' = [pc EXCEPT ![c] = "list"]
                                      /\ UNCHANGED frame
         /\ stopWatcher \notin closed => Return(c) /\ UNCHANGED stopWatcher
         /\ UNCHANGED <<env, provider, watchersNil, closed, poller, inflight, seen, cancelled>>
BY DEF Register, Goto

(* The initial states have the right types ...                             *)
LEMMA TypeInit == Init => TypeOK
<1> SUFFICES ASSUME Init PROVE TypeOK
  OBVIOUS
<1>1. disk \in [Files -> [ver : Nat \ {0}, st : {"ok", "absent", "broken"}, keys : SUBSET Keys]]
  <2>1. \A f \in Files : \E c \in Contents(f) : disk[f] = Written(1, c)
    BY DEF Init
  <2>2. \A f \in Files : disk[f] \in
          [ver : Nat \ {0}, st : {"ok", "absent", "broken"}, keys : SUBSET Keys]
    BY <2>1, WrittenType
  <2>3. \E S : disk \in [Files -> S]
    BY DEF Init
  <2> QED
    BY <2>2, <2>3
<1>2. Void \in Values
  BY DEF Void, Values
<1> QED
  BY <1>1, <1>2, ThreadsAssumption, WatcherAssumption
  DEF Init, TypeOK, Threads, Watchers, ClientLabels, PollerLabels, Held, EventSet,
      NoData, NoFlat, NoSnap, NoBuf

(* ... and every step keeps them.                                          *)
LEMMA TypeNext == TypeOK /\ [Next]_vars => TypeOK'
<1> SUFFICES ASSUME TypeOK, [Next]_vars PROVE TypeOK'
  OBVIOUS
<1> USE DEF TypeOK, ClientLabels, PollerLabels, Held, Goto, Threads
<1>1. ASSUME NEW f \in Files, Edit(f) PROVE TypeOK'
  <2>1. PICK c \in Contents(f) : disk' = [disk EXCEPT ![f] = Written(@.ver + 1, c)]
    BY <1>1 DEF Edit
  <2>2. Written(disk[f].ver + 1, c) \in
          [ver : Nat \ {0}, st : {"ok", "absent", "broken"}, keys : SUBSET Keys]
    <3>1. disk[f].ver + 1 \in Nat \ {0}
      OBVIOUS
    <3> QED
      BY <3>1, WrittenType
  <2> QED
    BY <1>1, <2>1, <2>2 DEF Edit
<1>2. CASE CancelContext
  BY <1>2 DEF CancelContext
<1>3. ASSUME NEW c \in Clients, InitCall(c) PROVE TypeOK'
  BY <1>3, ThreadsAssumption DEF InitCall, Enter
<1>4. ASSUME NEW c \in Clients, ReloadCall(c) PROVE TypeOK'
  BY <1>4, ThreadsAssumption DEF ReloadCall, Enter
<1>5. ASSUME NEW c \in Clients, CloseCall(c) PROVE TypeOK'
  BY <1>5, ThreadsAssumption DEF CloseCall, Enter
<1>6. ASSUME NEW c \in Clients, NEW w \in Watchers, WatchCall(c, w) PROVE TypeOK'
  BY <1>6, ThreadsAssumption DEF WatchCall, Enter
<1>7. ASSUME NEW c \in Clients, ReloadClear(c) PROVE TypeOK'
  <2>1. NoFlat \in [Keys -> Values]
    BY DEF NoFlat, Void, Values
  <2> QED
    BY <1>7, <2>1, ThreadsAssumption DEF ReloadClear, NoData
<1>8. ASSUME NEW c \in Clients, Walk(c) PROVE TypeOK'
  BY <1>8, ThreadsAssumption DEF Walk, Present
<1>9. ASSUME NEW c \in Clients, WalkFails(c) \/ LoadFails(c) PROVE TypeOK'
  <2>1. FailLoad(c)
    BY <1>9 DEF WalkFails, LoadFails
  <2>2. state' \in {"uninit", "init", "closed"}
    BY <2>1 DEF FailLoad
  <2> QED
    BY <2>1, <2>2, ThreadsAssumption DEF FailLoad, Return, LeaveFrame, NoSnap
<1>10. ASSUME NEW c \in Clients, LoadNext(c) PROVE TypeOK'
  BY <1>10, ThreadsAssumption DEF LoadNext, ReadContent
<1>11. ASSUME NEW t \in Threads, StoreFile(t) PROVE TypeOK'
  <2>1. CASE mapsNil
    <3>1. Panic
      BY <1>11, <2>1 DEF StoreFile
    <3> QED
      BY <3>1, PanicType
  <2>2. CASE ~mapsNil
    <3>1. pc[t] = "store" /\ at[t] \in Files /\ buf[t] \in Held
      BY <1>11, <2>2, StoreCase
    <3>2. data' \in [Files -> Held]
      <4>1. data' = [data EXCEPT ![at[t]] = buf[t]]
        BY <1>11, <2>2, StoreCase
      <4> QED
        BY <3>1, <4>1
    <3>3. flat' \in [Keys -> Values]
      <4>1. flat' = flattenMap(t) /\ [file |-> at[t], ver |-> buf[t].ver] \in Values
        BY <1>11, <2>2, <3>1, StoreCase DEF Values
      <4> QED
        BY <4>1 DEF flattenMap
    <3>4. buf' \in [Threads -> Held]
      <4>1. buf' = [buf EXCEPT ![t] = NoBuf]
        BY <1>11, <2>2, StoreCase
      <4>2. NoBuf \in Held
        BY DEF NoBuf
      <4> QED
        BY <4>1, <4>2
    <3>5. CASE t \in Clients
      <4>1. pc' = [pc EXCEPT ![t] = "load"] /\ at' = [at EXCEPT ![t] = NoFile]
        BY <1>11, <2>2, <3>5, StoreCase
      <4>2. UNCHANGED <<env, state, mapsNil, watching, channel, op, wreq, todo, cur, poller, events>>
        BY <1>11, <2>2, StoreCase
      <4> QED
        BY <3>2, <3>3, <3>4, <3>5, <4>1, <4>2, ThreadsAssumption
    <3>6. CASE t \in Pollers
      <4>1. pc' = [pc EXCEPT ![t] = "notify"] /\ at' = at
        BY <1>11, <2>2, <3>6, StoreCase, ThreadsAssumption
      <4>2. UNCHANGED <<env, state, mapsNil, watching, channel, op, wreq, todo, cur, poller, events>>
        BY <1>11, <2>2, StoreCase
      <4> QED
        BY <3>1, <3>2, <3>3, <3>4, <3>6, <4>1, <4>2, ThreadsAssumption
    <3> QED
      BY <3>5, <3>6
  <2> QED
    BY <2>1, <2>2
<1>12. ASSUME NEW c \in Clients, LoadDone(c) PROVE TypeOK'
  <2>1. CASE op[c] = "Init"
    <3>1. /\ pc' = [pc EXCEPT ![c] = "list"]
          /\ UNCHANGED <<env, provider, watching, channel, frame, poller, events>>
      BY <1>12, <2>1 DEF LoadDone
    <3> QED
      BY <3>1, ThreadsAssumption
  <2>2. CASE op[c] # "Init"
    <3>1. Return(c) /\ UNCHANGED <<env, provider, watching, channel, poller, events>>
      BY <1>12, <2>2 DEF LoadDone
    <3> QED
      BY <3>1, ReturnType
  <2> QED
    BY <2>1, <2>2
<1>13. ASSUME NEW c \in Clients, ListFiles(c) PROVE TypeOK'
  BY <1>13, ThreadsAssumption DEF ListFiles, Present
<1>14. ASSUME NEW c \in Clients, SnapshotFile(c) PROVE TypeOK'
  BY <1>14, ThreadsAssumption DEF SnapshotFile, Present
<1>15. ASSUME NEW c \in Clients, NoPolling(c) PROVE TypeOK'
  BY <1>15, ThreadsAssumption DEF NoPolling, Return, LeaveFrame, NoSnap
<1>16. ASSUME NEW c \in Clients, StartPoller(c) PROVE TypeOK'
  <2>1. PICK p \in Pollers :
          /\ pc' = [pc EXCEPT ![c] = "idle", ![p] = "loop"]
          /\ snap' = [snap EXCEPT ![p] = cur[c]]
          /\ covered' = [covered EXCEPT ![p] = {f \in Files : cur[c][f] = data[f].ver}]
    BY <1>16 DEF StartPoller
  <2> QED
    <3>1. /\ op' = [op EXCEPT ![c] = "none"]
          /\ wreq' = [wreq EXCEPT ![c] = NoWatcher]
          /\ todo' = [todo EXCEPT ![c] = {}]
          /\ cur' = [cur EXCEPT ![c] = [f \in Files |-> 0]]
          /\ UNCHANGED <<env, provider, watching, channel, at, buf, sel, events>>
      BY <1>16 DEF StartPoller, LeaveFrame, NoSnap
    <3>2. pc' \in [Threads -> ClientLabels \cup PollerLabels]
      BY <2>1
    <3>3. \A t \in Threads : pc'[t] = pc[t] \/ pc'[t] \in {"idle", "loop"}
      BY <2>1
    <3>4. /\ \A d \in Clients : pc'[d] \in ClientLabels
          /\ \A q \in Pollers : pc'[q] \in PollerLabels
      BY <2>1, ThreadsAssumption
    <3>5. /\ snap' \in [Pollers -> [Files -> Nat]] /\ covered' \in [Pollers -> SUBSET Files]
          /\ cur' \in [Threads -> [Files -> Nat]]
      BY <2>1, <3>1
    <3>6. \A t \in Threads :
            pc'[t] \in {"store", "read", "notify", "deleted"} => at'[t] \in Files
      BY <3>1, <3>3
    <3>7. \A d \in Clients : pc'[d] = "register" => wreq'[d] \in Watchers
      <4>1. \A d \in Clients : pc'[d] = "register" => d # c
        BY <2>1, ThreadsAssumption
      <4> QED
        BY <3>1, <3>3, <4>1
    <3>8. /\ op' \in [Clients -> {"none", "Init", "Reload", "Close", "Watch"}]
          /\ wreq' \in [Clients -> Watchers \cup {NoWatcher}]
          /\ todo' \in [Threads -> SUBSET Files]
      BY <3>1
    <3> QED
      BY <3>1, <3>2, <3>4, <3>5, <3>6, <3>7, <3>8
<1>17. ASSUME NEW c \in Clients, CloseStop(c) PROVE TypeOK'
  <2>1. CASE stopWatcher \in closed
    <3>1. Panic
      BY <1>17, <2>1 DEF CloseStop
    <3> QED
      BY <3>1, PanicType
  <2>2. CASE stopWatcher \notin closed
    <3>1. /\ closed' = closed \cup {stopWatcher}
          /\ Goto(c, "wait")
          /\ UNCHANGED <<env, provider, watching, stopWatcher, frame, poller, events>>
      BY <1>17, <2>2 DEF CloseStop
    <3> QED
      BY <3>1, ThreadsAssumption
  <2> QED
    BY <2>1, <2>2
<1>18. ASSUME NEW c \in Clients, CloseWait(c) PROVE TypeOK'
  BY <1>18, ThreadsAssumption DEF CloseWait
<1>19. ASSUME NEW c \in Clients, CloseDropWatchers(c) PROVE TypeOK'
  BY <1>19, ThreadsAssumption DEF CloseDropWatchers
<1>20. ASSUME NEW c \in Clients, CloseDropData(c) PROVE TypeOK'
  <2>1. NoFlat \in [Keys -> Values]
    BY DEF NoFlat, Void, Values
  <2> QED
    BY <1>20, <2>1, ThreadsAssumption DEF CloseDropData, Return, LeaveFrame, NoSnap, NoData
<1>21. ASSUME NEW c \in Clients, Register(c) PROVE TypeOK'
  <2>1. wreq[c] \in Watchers
    BY <1>21 DEF Register
  <2>2. \A w \in ExactWatchers : flat[ExactTarget[w]] \in Values
    BY WatcherAssumption
  <2>3. CASE watchersNil
    <3>1. Panic
      BY <1>21, <2>3 DEF Register
    <3> QED
      BY <3>1, PanicType
  <2>4. CASE ~watchersNil
    <3>1. sent' \in [ExactWatchers -> Values]
      <4>1. sent' = IF wreq[c] \in ExactWatchers
                    THEN [sent EXCEPT ![wreq[c]] = flat[ExactTarget[wreq[c]]]] ELSE sent
        BY <1>21, <2>4, RegisterCase
      <4>2. wreq[c] \in ExactWatchers => flat[ExactTarget[wreq[c]]] \in Values
        BY <2>2
      <4> HIDE DEF TypeOK
      <4>3. sent \in [ExactWatchers -> Values]
        BY DEF TypeOK
      <4> QED
        BY <4>1, <4>2, <4>3
    <3>2. watchers' \subseteq Watchers
      BY <1>21, <2>1, <2>4, RegisterCase
    <3>3. UNCHANGED <<env, provider, watchersNil, closed, poller, inflight, seen, cancelled>>
      BY <1>21, <2>4, RegisterCase
    <3>4. CASE stopWatcher \in closed
      <4>1. /\ stopWatcher' = stopWatcher + 1
            /\ pc' = [pc EXCEPT ![c] = "list"]
            /\ UNCHANGED frame
        BY <1>21, <2>4, <3>4, RegisterCase
      <4> QED
        BY <3>1, <3>2, <3>3, <4>1, ThreadsAssumption
    <3>5. CASE stopWatcher \notin closed
      <4>1. Return(c) /\ UNCHANGED stopWatcher
        BY <1>21, <2>4, <3>5, RegisterCase
      <4> QED
        BY <3>1, <3>2, <3>3, <4>1, ReturnType
    <3> QED
      BY <3>4, <3>5
  <2> QED
    BY <2>3, <2>4
<1>22. ASSUME NEW w \in Watchers, Cancel(w) PROVE TypeOK'
  BY <1>22 DEF Cancel
<1>23. ASSUME NEW p \in Pollers, PollLoop(p) PROVE TypeOK'
  BY <1>23, ThreadsAssumption DEF PollLoop
<1>24. ASSUME NEW p \in Pollers, PollStop(p) PROVE TypeOK'
  BY <1>24, ThreadsAssumption DEF PollStop
<1>25. ASSUME NEW p \in Pollers, PollTick(p) PROVE TypeOK'
  <2>1. CASE Goto(p, "loop") /\ UNCHANGED <<todo, cur>>
    BY <1>25, <2>1, ThreadsAssumption DEF PollTick
  <2>2. CASE /\ Goto(p, "scan")
             /\ todo' = [todo EXCEPT ![p] = Present]
             /\ cur' = [cur EXCEPT ![p] = NoSnap]
    BY <1>25, <2>2, ThreadsAssumption DEF PollTick, Present, NoSnap
  <2> QED
    BY <1>25, <2>1, <2>2 DEF PollTick
<1>26. ASSUME NEW p \in Pollers, PollScan(p) PROVE TypeOK'
  <2>1. PICK f \in todo[p] :
          /\ todo' = [todo EXCEPT ![p] = @ \ {f}]
          /\ UNCHANGED cur \/ cur' = [cur EXCEPT ![p][f] = disk[f].ver]
    BY <1>26 DEF PollScan
  <2>2. f \in Files
    BY <2>1
  <2>3. cur' \in [Threads -> [Files -> Nat]]
    <3>1. CASE UNCHANGED cur
      BY <3>1
    <3>2. CASE cur' = [cur EXCEPT ![p][f] = disk[f].ver]
      BY <2>2, <3>2
    <3> QED
      BY <2>1, <3>1, <3>2
  <2> QED
    BY <1>26, <2>1, <2>3, ThreadsAssumption DEF PollScan
<1>27. ASSUME NEW p \in Pollers, PollCompare(p) PROVE TypeOK'
  BY <1>27, ThreadsAssumption DEF PollCompare, compareSnapshots, NoSnap
<1>28. ASSUME NEW p \in Pollers, HandleFile(p) PROVE TypeOK'
  BY <1>28, ThreadsAssumption DEF HandleFile
<1>29. ASSUME NEW p \in Pollers, ReloadFile(p) PROVE TypeOK'
  BY <1>29, ThreadsAssumption DEF ReloadFile, ReadContent
<1>30. ASSUME NEW p \in Pollers, SkipFile(p) PROVE TypeOK'
  BY <1>30, ThreadsAssumption DEF SkipFile
<1>31. ASSUME NEW p \in Pollers, NotifyChanged(p) PROVE TypeOK'
  <2>1. at[p] \in Files
    BY <1>31, ThreadsAssumption DEF NotifyChanged
  <2> DEFINE told == {w \in watchers \cap ExactWatchers : ExactTarget[w] \in Affected(at[p])}
  <2>2. PICK more \in PrefixEvents(at[p]) :
          inflight' = inflight \cup {Event(w, ExactTarget[w]) : w \in told} \cup more
    BY <1>31 DEF NotifyChanged
  <2>3. Affected(at[p]) \subseteq Keys
    BY <2>1, KeyAssumption DEF Affected
  <2>4. \A w \in told : w \in Watchers /\ Event(w, ExactTarget[w]) \in EventSet
    BY <2>3, EventType DEF Watchers
  <2>5. inflight' \subseteq EventSet
    BY <2>1, <2>2, <2>4, PrefixEventsType
  <2>6. \A w \in ExactWatchers : flat[ExactTarget[w]] \in Values
    BY WatcherAssumption
  <2> QED
    BY <1>31, <2>5, <2>6, ThreadsAssumption DEF NotifyChanged
<1>32. ASSUME NEW p \in Pollers, NotifyDeleted(p) PROVE TypeOK'
  <2>1. at[p] \in Files
    BY <1>32, ThreadsAssumption DEF NotifyDeleted
  <2>2. inflight' \subseteq EventSet
    BY <1>32, <2>1, PrefixEventsType DEF NotifyDeleted
  <2> QED
    BY <1>32, <2>2, ThreadsAssumption DEF NotifyDeleted
<1>33. ASSUME NEW p \in Pollers, PollUpdate(p) PROVE TypeOK'
  BY <1>33, ThreadsAssumption DEF PollUpdate, compareSnapshots, NoSnap
<1>34. ASSUME NEW e \in inflight, Deliver(e) PROVE TypeOK'
  BY <1>34 DEF Deliver, EventSet
<1>35. CASE UNCHANGED vars
  BY <1>35
<1> QED
  BY <1>1, <1>2, <1>3, <1>4, <1>5, <1>6, <1>7, <1>8, <1>9, <1>10, <1>11, <1>12, <1>13,
     <1>14, <1>15, <1>16, <1>17, <1>18, <1>19, <1>20, <1>21, <1>22, <1>23, <1>24, <1>25,
     <1>26, <1>27, <1>28, <1>29, <1>30, <1>31, <1>32, <1>33, <1>34, <1>35
  DEF Next, ClientCall, ClientStep, PollWork

(* Type correctness: the shape of every variable, for all constants.       *)
THEOREM TypeCorrect == Spec => []TypeOK
BY TypeInit, TypeNext, PTL DEF Spec

---------------------------------------------------------------------------
(* p.data and p.flatData.                                                  *)

(* Only three operations write the maps: the store that ends loadFile,     *)
(* Reload's clearing and Close's.                                          *)
LEMMA MapsWritten ==
  ASSUME [Next]_vars
  PROVE  \/ UNCHANGED <<data, flat, mapsNil>>
         \/ \E c \in Clients : ReloadClear(c) \/ CloseDropData(c)
         \/ \E t \in Threads : StoreFile(t)
<1>1. ASSUME NEW c \in Clients, ClientCall(c) PROVE UNCHANGED <<data, flat, mapsNil>>
  BY <1>1 DEF ClientCall, InitCall, ReloadCall, CloseCall, WatchCall
<1>2. ASSUME NEW c \in Clients, ClientStep(c), ~ReloadClear(c), ~CloseDropData(c), ~StoreFile(c)
      PROVE  UNCHANGED <<data, flat, mapsNil>>
  BY <1>2 DEF ClientStep, Walk, WalkFails, FailLoad, LoadNext, LoadFails, LoadDone, ListFiles,
              SnapshotFile, NoPolling, StartPoller, CloseStop, CloseWait, CloseDropWatchers,
              Register, Panic
<1>3. ASSUME NEW p \in Pollers, PollWork(p) \/ PollStop(p), ~StoreFile(p)
      PROVE  UNCHANGED <<data, flat, mapsNil>>
  BY <1>3 DEF PollWork, PollStop, PollLoop, PollTick, PollScan, PollCompare, HandleFile,
              ReloadFile, SkipFile, NotifyChanged, NotifyDeleted, PollUpdate
<1>4. ASSUME \/ \E f \in Files : Edit(f)
             \/ CancelContext
             \/ \E w \in Watchers : Cancel(w)
             \/ \E e \in inflight : Deliver(e)
             \/ UNCHANGED vars
      PROVE  UNCHANGED <<data, flat, mapsNil>>
  BY <1>4 DEF Edit, CancelContext, Cancel, Deliver
<1> QED
  BY <1>1, <1>2, <1>3, <1>4 DEF Next, Threads

(* Only an edit changes a file ...                                         *)
LEMMA DiskEdited == ASSUME [Next]_vars PROVE disk' = disk \/ \E g \in Files : Edit(g)
<1>1. ASSUME NEW c \in Clients, ClientCall(c) \/ ClientStep(c) PROVE UNCHANGED disk
  BY <1>1
  DEF ClientCall, InitCall, ReloadCall, CloseCall, WatchCall, ClientStep, ReloadClear, Walk,
      WalkFails, FailLoad, LoadNext, LoadFails, LoadDone, StoreFile, ListFiles, SnapshotFile,
      NoPolling, StartPoller, CloseStop, CloseWait, CloseDropWatchers, CloseDropData,
      Register, Panic
<1>2. ASSUME NEW p \in Pollers, PollWork(p) \/ PollStop(p) PROVE UNCHANGED disk
  BY <1>2
  DEF PollWork, PollStop, PollLoop, PollTick, PollScan, PollCompare, HandleFile, ReloadFile,
      SkipFile, StoreFile, NotifyChanged, NotifyDeleted, PollUpdate, Panic
<1>3. CASE CancelContext \/ (\E w \in Watchers : Cancel(w)) \/ (\E e \in inflight : Deliver(e))
  BY <1>3 DEF CancelContext, Cancel, Deliver
<1> QED
  BY <1>1, <1>2, <1>3 DEF Next

(* ... and it counts the version up.                                       *)
LEMMA DiskGrows ==
  ASSUME TypeOK, [Next]_vars, NEW f \in Files
  PROVE  disk'[f] = disk[f] \/ disk'[f].ver > disk[f].ver
<1>1. ASSUME NEW g \in Files, Edit(g) PROVE disk'[f] = disk[f] \/ disk'[f].ver > disk[f].ver
  <2>1. PICK c \in Contents(g) : disk' = [disk EXCEPT ![g] = Written(@.ver + 1, c)]
    BY <1>1 DEF Edit
  <2>2. Written(disk[g].ver + 1, c).ver = disk[g].ver + 1
    BY DEF Written
  <2>3. disk[g].ver \in Nat /\ disk \in [Files -> [ver : Nat \ {0}, st : {"ok", "absent", "broken"},
                                                    keys : SUBSET Keys]]
    BY DEF TypeOK
  <2> QED
    BY <2>1, <2>2, <2>3
<1> QED
  BY <1>1, DiskEdited

(* A goroutine about to store has either just read the file it names, or   *)
(* was about to store the same content before.                             *)
LEMMA StoresRead ==
  ASSUME TypeOK, [Next]_vars, NEW t \in Threads, pc'[t] = "store"
  PROVE  \/ pc[t] = "store" /\ buf'[t] = buf[t] /\ at'[t] = at[t]
         \/ \E f \in Files : ReadContent(t, f) /\ disk' = disk
<1> USE DEF Goto
<1>0. /\ pc \in [Threads -> ClientLabels \cup PollerLabels]
      /\ at \in [Threads -> Files \cup {NoFile}]
      /\ buf \in [Threads -> Held]
      /\ todo \in [Threads -> SUBSET Files]
      /\ Clients \subseteq Threads /\ Pollers \subseteq Threads
      /\ \A p \in Pollers : pc[p] = "read" => at[p] \in Files
  BY DEF TypeOK, Threads
<1>1. ASSUME NEW u \in Threads, NEW l, pc' = [pc EXCEPT ![u] = l], l # "store",
             \A v \in Threads : v # u => buf'[v] = buf[v] /\ at'[v] = at[v]
      PROVE  pc[t] = "store" /\ buf'[t] = buf[t] /\ at'[t] = at[t]
  BY <1>0, <1>1
<1>2. ASSUME NEW u \in Threads, NEW f \in Files, ReadContent(u, f), disk' = disk
      PROVE  \/ pc[t] = "store" /\ buf'[t] = buf[t] /\ at'[t] = at[t]
             \/ \E g \in Files : ReadContent(t, g) /\ disk' = disk
  <2>1. CASE t = u
    BY <1>2, <2>1
  <2>2. CASE t # u
    BY <1>0, <1>2, <2>2 DEF ReadContent
  <2> QED
    BY <2>1, <2>2
<1>3. ASSUME UNCHANGED <<pc, buf, at>>
      PROVE  pc[t] = "store" /\ buf'[t] = buf[t] /\ at'[t] = at[t]
  BY <1>3
<1>4. ASSUME NEW u \in Threads, StoreFile(u)
      PROVE  pc[t] = "store" /\ buf'[t] = buf[t] /\ at'[t] = at[t]
  <2>1. ~mapsNil
    BY <1>4 DEF StoreFile, Panic
  <2>2. /\ \E l \in {"load", "notify"} : pc' = [pc EXCEPT ![u] = l]
        /\ buf' = [buf EXCEPT ![u] = NoBuf]
        /\ at' = at \/ at' = [at EXCEPT ![u] = NoFile]
    BY <1>4, <2>1, StoreCase
  <2> QED
    BY <1>0, <1>1, <2>2
<1>5. ASSUME NEW p \in Pollers, PollWork(p) \/ PollStop(p)
      PROVE  \/ pc[t] = "store" /\ buf'[t] = buf[t] /\ at'[t] = at[t]
             \/ \E f \in Files : ReadContent(t, f) /\ disk' = disk
  <2>1. CASE ReloadFile(p)
    BY <1>0, <1>2, <2>1 DEF ReloadFile
  <2>2. CASE PollScan(p)
    BY <1>3, <2>2 DEF PollScan
  <2>3. CASE ~ReloadFile(p) /\ ~PollScan(p) /\ ~StoreFile(p)
    <3>1. /\ \E l \in PollerLabels \ {"store"} : pc' = [pc EXCEPT ![p] = l]
          /\ buf' = buf
          /\ at' = at \/ \E g : at' = [at EXCEPT ![p] = g]
      BY <1>5, <2>3
      DEF PollWork, PollStop, PollLoop, PollTick, PollCompare, HandleFile, SkipFile,
          NotifyChanged, NotifyDeleted, PollUpdate, PollerLabels
    <3> QED
      BY <1>0, <1>1, <3>1
  <2> QED
    BY <1>0, <1>4, <2>1, <2>2, <2>3
<1>6. ASSUME NEW c \in Clients, ClientStep(c)
      PROVE  \/ pc[t] = "store" /\ buf'[t] = buf[t] /\ at'[t] = at[t]
             \/ \E f \in Files : ReadContent(t, f) /\ disk' = disk
  <2>1. CASE LoadNext(c)
    <3>1. PICK f \in todo[c] : ReadContent(c, f)
      BY <2>1 DEF LoadNext
    <3>2. f \in Files /\ disk' = disk
      BY <1>0, <2>1 DEF LoadNext
    <3> QED
      BY <1>0, <1>2, <3>1, <3>2
  <2>2. CASE StartPoller(c)
    <3>1. PICK p \in Pollers : pc' = [pc EXCEPT ![c] = "idle", ![p] = "loop"]
      BY <2>2 DEF StartPoller
    <3>2. UNCHANGED <<at, buf>>
      BY <2>2 DEF StartPoller, LeaveFrame
    <3> QED
      BY <1>0, <3>1, <3>2
  <2>3. CASE SnapshotFile(c)
    BY <1>3, <2>3 DEF SnapshotFile
  <2>4. CASE \/ ReloadClear(c) \/ Walk(c) \/ WalkFails(c) \/ LoadFails(c) \/ LoadDone(c)
             \/ ListFiles(c) \/ NoPolling(c) \/ CloseWait(c) \/ CloseDropWatchers(c)
             \/ CloseDropData(c)
    <3>1. /\ \E l \in ClientLabels \ {"store"} : pc' = [pc EXCEPT ![c] = l]
          /\ UNCHANGED <<buf, at>>
      BY <2>4
      DEF ReloadClear, Walk, WalkFails, LoadFails, FailLoad, LoadDone, ListFiles, NoPolling,
          CloseWait, CloseDropWatchers, CloseDropData, Return, LeaveFrame, ClientLabels
    <3> QED
      BY <1>0, <1>1, <3>1
  <2>5. CASE CloseStop(c) \/ Register(c)
    <3>1. ~Panic
      BY DEF Panic
    <3>2. /\ \E l \in ClientLabels \ {"store"} : pc' = [pc EXCEPT ![c] = l]
          /\ UNCHANGED <<buf, at>>
      BY <2>5, <3>1 DEF CloseStop, Register, Return, LeaveFrame, ClientLabels
    <3> QED
      BY <1>0, <1>1, <3>2
  <2> QED
    BY <1>0, <1>4, <1>6, <2>1, <2>2, <2>3, <2>4, <2>5 DEF ClientStep
<1>7. ASSUME NEW c \in Clients, ClientCall(c)
      PROVE  pc[t] = "store" /\ buf'[t] = buf[t] /\ at'[t] = at[t]
  <2>1. /\ \E l \in ClientLabels \ {"store"} : pc' = [pc EXCEPT ![c] = l]
        /\ UNCHANGED <<buf, at>>
    BY <1>7 DEF ClientCall, InitCall, ReloadCall, CloseCall, WatchCall, Enter, ClientLabels
  <2> QED
    BY <1>0, <1>1, <2>1
<1>8. ASSUME \/ \E f \in Files : Edit(f)
             \/ CancelContext
             \/ \E w \in Watchers : Cancel(w)
             \/ \E e \in inflight : Deliver(e)
             \/ UNCHANGED vars
      PROVE  UNCHANGED <<pc, buf, at>>
  BY <1>8 DEF Edit, CancelContext, Cancel, Deliver
<1> QED
  BY <1>3, <1>5, <1>6, <1>7, <1>8 DEF Next

(* What the provider holds, loaded or about to be, comes from a document   *)
(* that defines it, and from the past of its file.                         *)
HeldIsPast ==
  /\ \A f \in Files : disk[f].keys \subseteq UNION Documents[f]
  /\ \A t \in Threads : pc[t] = "store" =>
       /\ buf[t].keys \subseteq UNION Documents[at[t]]
       /\ buf[t].ver \in 1..disk[at[t]].ver
  /\ \A k \in Keys : flat[k] # Void =>
       /\ flat[k].file \in Files /\ k \in UNION Documents[flat[k].file]
       /\ flat[k].ver \in 1..disk[flat[k].file].ver

LEMMA HeldIsPastNext ==
  ASSUME TypeOK, TypeOK', HeldIsPast, [Next]_vars PROVE HeldIsPast'
<1>0. /\ \A f \in Files : disk[f].ver \in Nat \ {0} /\ disk'[f].ver \in Nat /\ disk'[f].ver >= disk[f].ver
      /\ \A t \in Threads : pc[t] = "store" => at[t] \in Files
  <2>1. ASSUME NEW f \in Files
        PROVE  disk[f].ver \in Nat \ {0} /\ disk'[f].ver \in Nat /\ disk'[f].ver >= disk[f].ver
    <3>1. disk[f].ver \in Nat \ {0} /\ disk'[f].ver \in Nat
      BY DEF TypeOK
    <3>2. disk'[f] = disk[f] \/ disk'[f].ver > disk[f].ver
      BY DiskGrows
    <3> QED
      BY <3>1, <3>2
  <2>2. \A t \in Threads : pc[t] = "store" => at[t] \in Files
    BY DEF TypeOK
  <2> QED
    BY <2>1, <2>2
<1>1. ASSUME NEW f \in Files PROVE disk'[f].keys \subseteq UNION Documents[f]
  <2>1. disk'[f] = disk[f] \/ \E g \in Files : Edit(g)
    BY DiskEdited
  <2>2. ASSUME NEW g \in Files, Edit(g) PROVE disk'[f].keys \subseteq UNION Documents[f]
    <3>1. PICK c \in Contents(g) : disk' = [disk EXCEPT ![g] = Written(disk[g].ver + 1, c)]
      BY <2>2 DEF Edit
    <3>2. disk[g].ver + 1 \in Nat \ {0}
      BY <1>0
    <3>3. Written(disk[g].ver + 1, c).keys \subseteq UNION Documents[g]
      BY <3>2, WrittenType
    <3>4. disk'[f] = disk[f] \/ (f = g /\ disk'[f] = Written(disk[g].ver + 1, c))
      BY <3>1 DEF TypeOK
    <3> QED
      BY <3>3, <3>4 DEF HeldIsPast
  <2> QED
    BY <2>1, <2>2 DEF HeldIsPast
<1>2. ASSUME NEW t \in Threads, pc'[t] = "store"
      PROVE  /\ buf'[t].keys \subseteq UNION Documents[at'[t]]
             /\ buf'[t].ver \in 1..disk'[at'[t]].ver
  <2>1. CASE pc[t] = "store" /\ buf'[t] = buf[t] /\ at'[t] = at[t]
    <3>1. buf[t].keys \subseteq UNION Documents[at[t]] /\ buf[t].ver \in 1..disk[at[t]].ver
      BY <2>1 DEF HeldIsPast
    <3> QED
      BY <1>0, <2>1, <3>1
  <2>2. ASSUME NEW f \in Files, ReadContent(t, f), disk' = disk
        PROVE  /\ buf'[t].keys \subseteq UNION Documents[at'[t]]
               /\ buf'[t].ver \in 1..disk'[at'[t]].ver
    <3>1. at'[t] = f /\ buf'[t].ver = disk[f].ver /\ buf'[t].keys = disk[f].keys
      BY <2>2 DEF ReadContent, TypeOK
    <3> QED
      BY <1>0, <2>2, <3>1 DEF HeldIsPast
  <2> QED
    BY <1>2, <2>1, <2>2, StoresRead
<1>3. ASSUME NEW k \in Keys, flat'[k] # Void
      PROVE  /\ flat'[k].file \in Files /\ k \in UNION Documents[flat'[k].file]
             /\ flat'[k].ver \in 1..disk'[flat'[k].file].ver
  <2>1. CASE flat'[k] = flat[k]
    <3>1. /\ flat[k].file \in Files /\ k \in UNION Documents[flat[k].file]
          /\ flat[k].ver \in 1..disk[flat[k].file].ver
      BY <1>3, <2>1 DEF HeldIsPast
    <3> QED
      BY <1>0, <2>1, <3>1
  <2>2. ASSUME NEW c \in Clients, ReloadClear(c) \/ CloseDropData(c) PROVE FALSE
    BY <1>3, <2>2 DEF ReloadClear, CloseDropData, NoFlat
  <2>3. ASSUME NEW t \in Threads, StoreFile(t), flat'[k] # flat[k]
        PROVE  /\ flat'[k].file \in Files /\ k \in UNION Documents[flat'[k].file]
               /\ flat'[k].ver \in 1..disk'[flat'[k].file].ver
    <3>1. ~mapsNil
      BY <2>3 DEF StoreFile, Panic
    <3>2. pc[t] = "store" /\ k \in buf[t].keys /\ flat'[k] = [file |-> at[t], ver |-> buf[t].ver]
      BY <2>3, <3>1, StoreCase DEF flattenMap
    <3>3. at[t] \in Files /\ k \in UNION Documents[at[t]] /\ buf[t].ver \in 1..disk[at[t]].ver
      BY <1>0, <3>2 DEF HeldIsPast
    <3>4. buf[t].ver \in 1..disk'[at[t]].ver
      BY <1>0, <3>3
    <3> QED
      BY <3>2, <3>3, <3>4
  <2> QED
    BY <2>1, <2>2, <2>3, MapsWritten
<1> QED
  BY <1>1, <1>2, <1>3 DEF HeldIsPast

LEMMA HeldPast == Spec => []HeldIsPast
<1>1. Init => HeldIsPast
  <2> SUFFICES ASSUME Init PROVE HeldIsPast
    OBVIOUS
  <2>1. \A f \in Files : \E c \in Contents(f) : disk[f] = Written(1, c)
    BY DEF Init
  <2>2. \A f \in Files : disk[f].keys \subseteq UNION Documents[f]
    <3>1. 1 \in Nat \ {0}
      OBVIOUS
    <3> QED
      BY <2>1, <3>1, WrittenType
  <2>3. \A t \in Threads : pc[t] # "store"
    BY DEF Init, Threads
  <2>4. \A k \in Keys : flat[k] = Void
    BY DEF Init, NoFlat
  <2> QED
    BY <2>2, <2>3, <2>4 DEF HeldIsPast
<1> QED
  BY <1>1, HeldIsPastNext, TypeCorrect, PTL DEF Spec

(* A stored file's keys are in the flattened view, with the value of that  *)
(* content or with that of another file which may define them: an older    *)
(* content of the same file never hides there, whatever Reloads, failed    *)
(* Inits, polls and Closes interleave.                                     *)
THEOREM FlatData == Spec => []FlatFollowsData
<1>1. Init => FlatFollowsData
  BY DEF Init, FlatFollowsData, NoData
<1>2. TypeOK /\ HeldIsPast /\ FlatFollowsData /\ [Next]_vars => FlatFollowsData'
  <2> SUFFICES ASSUME TypeOK, HeldIsPast, FlatFollowsData, [Next]_vars PROVE FlatFollowsData'
    OBVIOUS
  <2>1. ASSUME NEW c \in Clients, ReloadClear(c) \/ CloseDropData(c) PROVE FlatFollowsData'
    BY <2>1 DEF ReloadClear, CloseDropData, FlatFollowsData, NoData
  <2>2. ASSUME NEW t \in Threads, StoreFile(t), ~mapsNil PROVE FlatFollowsData'
    <3>1. /\ pc[t] = "store" /\ at[t] \in Files
          /\ data' = [data EXCEPT ![at[t]] = buf[t]]
          /\ flat' = flattenMap(t)
      BY <2>2, StoreCase DEF TypeOK
    <3>2. \A k \in buf[t].keys : k \in UNION Documents[at[t]]
      BY <3>1 DEF HeldIsPast
    <3>3. ASSUME NEW f \in Files, NEW k \in data'[f].keys
          PROVE  \/ flat'[k] = [file |-> f, ver |-> data'[f].ver]
                 \/ flat'[k].file \in Files \ {f} /\ k \in UNION Documents[flat'[k].file]
      <4>1. data' \in [Files -> Held] /\ k \in Keys
        <5>1. data' \in [Files -> Held]
          BY <2>2, TypeNext DEF TypeOK
        <5> QED
          BY <3>3, <5>1 DEF Held
      <4>2. CASE k \in buf[t].keys
        <5>1. flat'[k] = [file |-> at[t], ver |-> buf[t].ver]
          BY <3>1, <4>1, <4>2 DEF flattenMap
        <5>2. f = at[t] => data'[f] = buf[t]
          BY <3>1 DEF TypeOK
        <5> QED
          BY <3>1, <3>2, <4>2, <5>1, <5>2
      <4>3. CASE k \notin buf[t].keys
        <5>1. flat'[k] = flat[k]
          BY <3>1, <4>1, <4>3 DEF flattenMap
        <5>2. data'[f] = data[f]
          BY <3>1, <3>3, <4>3 DEF TypeOK
        <5> QED
          BY <3>3, <5>1, <5>2 DEF FlatFollowsData
      <4> QED
        BY <4>2, <4>3
    <3> QED
      BY <3>3 DEF FlatFollowsData
  <2>3. CASE UNCHANGED <<data, flat>>
    BY <2>3 DEF FlatFollowsData
  <2>4. ASSUME NEW t \in Threads, StoreFile(t), mapsNil PROVE UNCHANGED <<data, flat>>
    BY <2>4 DEF StoreFile, Panic
  <2> QED
    BY <2>1, <2>2, <2>3, <2>4, MapsWritten
<1> QED
  BY <1>1, <1>2, TypeCorrect, HeldPast, PTL DEF Spec

---------------------------------------------------------------------------
(* The state word as a lock.                                               *)

Started(p) == pc[p] \notin {"none", "dead"}

(* An Init owns the state word: nobody else runs Init, and the word has    *)
(* left "uninit".                                                          *)
InitOwnsState ==
  /\ \A c, d \in Initializing : c = d
  /\ \A c \in Initializing : state # "uninit"

(* Only Init, and a Watch that found the stop channel closed, start        *)
(* pollers.                                                                *)
StartersKnown ==
  \A c \in Clients :
    /\ pc[c] \in {"list", "snapshot"} => op[c] = "Init" \/ (op[c] = "Watch" /\ closed # {})
    /\ pc[c] = "register" => op[c] = "Watch"

(* Whatever can make a step panic is the work of a Close.                  *)
ClosedTraces ==
  mapsNil \/ watchersNil \/ Crashed \/ (\E c \in Clients : pc[c] \in {"wait", "dropWatchers", "dropData"})
    => closed # {}

(* Until a Close, one Init at most has started one poller, and its success *)
(* keeps later Inits out.                                                  *)
OnePoller ==
  closed = {} =>
    \A p \in Pollers : Started(p) =>
      /\ state # "uninit"
      /\ Initializing = {}
      /\ \A q \in Pollers : Started(q) => p = q

LockInv == InitOwnsState /\ StartersKnown /\ ClosedTraces /\ OnePoller

LEMMA LockInvInit == Init => LockInv
BY ThreadsAssumption
DEF Init, LockInv, InitOwnsState, StartersKnown, ClosedTraces, OnePoller, Started,
    Initializing, Crashed, Threads

LEMMA LockInvNext == TypeOK /\ LockInv /\ [Next]_vars => LockInv'
<1> SUFFICES ASSUME TypeOK, LockInv, [Next]_vars PROVE LockInv'
  OBVIOUS
<1> USE ThreadsAssumption
    DEF LockInv, InitOwnsState, StartersKnown, ClosedTraces, OnePoller, Started,
        Initializing, Crashed, Goto, Threads
<1>0. /\ pc \in [Threads -> ClientLabels \cup PollerLabels]
      /\ op \in [Clients -> {"none", "Init", "Reload", "Close", "Watch"}]
  BY DEF TypeOK
<1>1. ASSUME \/ \E f \in Files : Edit(f)
             \/ CancelContext
             \/ \E w \in Watchers : Cancel(w)
             \/ \E e \in inflight : Deliver(e)
             \/ UNCHANGED vars
      PROVE  LockInv'
  BY <1>0, <1>1 DEF Edit, CancelContext, Cancel, Deliver
<1>2. ASSUME Panic, closed # {} PROVE LockInv'
  BY <1>0, <1>2 DEF Panic
<1>3. ASSUME NEW c \in Clients, Return(c), closed' = closed, mapsNil' \/ mapsNil => closed # {},
             watchersNil' = watchersNil,
             state' = state \/ op[c] = "Init"
      PROVE  LockInv'
  BY <1>0, <1>3 DEF Return, LeaveFrame
<1>4. ASSUME NEW c \in Clients, InitCall(c) PROVE LockInv'
  BY <1>0, <1>4 DEF InitCall, Enter
<1>5. ASSUME NEW c \in Clients, ReloadCall(c) PROVE LockInv'
  BY <1>0, <1>5 DEF ReloadCall, Enter
<1>6. ASSUME NEW c \in Clients, CloseCall(c) PROVE LockInv'
  BY <1>0, <1>6 DEF CloseCall, Enter
<1>7. ASSUME NEW c \in Clients, NEW w \in Watchers, WatchCall(c, w) PROVE LockInv'
  BY <1>0, <1>7 DEF WatchCall, Enter
<1>8. ASSUME NEW c \in Clients, ReloadClear(c) PROVE LockInv'
  BY <1>0, <1>8 DEF ReloadClear
<1>9. ASSUME NEW c \in Clients, Walk(c) PROVE LockInv'
  BY <1>0, <1>9 DEF Walk
<1>10. ASSUME NEW c \in Clients, WalkFails(c) \/ LoadFails(c) PROVE LockInv'
  BY <1>3, <1>10 DEF WalkFails, LoadFails, FailLoad
<1>11. ASSUME NEW c \in Clients, LoadNext(c) PROVE LockInv'
  BY <1>0, <1>11 DEF LoadNext, ReadContent
<1>12. ASSUME NEW t \in Threads, StoreFile(t) PROVE LockInv'
  <2>1. CASE mapsNil
    BY <1>2, <1>12, <2>1 DEF StoreFile
  <2>2. CASE ~mapsNil
    <3>1. pc[t] = "store" /\ UNCHANGED <<state, op, closed, mapsNil, watchersNil>>
      BY <1>12, <2>2, StoreCase
    <3>2. CASE t \in Clients
      <4>1. pc' = [pc EXCEPT ![t] = "load"]
        BY <1>12, <2>2, <3>2, StoreCase
      <4> QED
        BY <1>0, <3>1, <3>2, <4>1
    <3>3. CASE t \notin Clients
      <4>1. pc' = [pc EXCEPT ![t] = "notify"]
        BY <1>12, <2>2, <3>3, StoreCase
      <4> QED
        BY <1>0, <3>1, <3>3, <4>1
    <3> QED
      BY <3>2, <3>3
  <2> QED
    BY <2>1, <2>2
<1>13. ASSUME NEW c \in Clients, LoadDone(c) PROVE LockInv'
  <2>1. CASE op[c] = "Init"
    <3>1. /\ pc' = [pc EXCEPT ![c] = "list"]
          /\ UNCHANGED <<state, op, closed, mapsNil, watchersNil>>
      BY <1>13, <2>1 DEF LoadDone
    <3> QED
      BY <1>0, <2>1, <3>1
  <2>2. CASE op[c] # "Init"
    BY <1>3, <1>13, <2>2 DEF LoadDone
  <2> QED
    BY <2>1, <2>2
<1>14. ASSUME NEW c \in Clients, ListFiles(c) PROVE LockInv'
  BY <1>0, <1>14 DEF ListFiles
<1>15. ASSUME NEW c \in Clients, SnapshotFile(c) PROVE LockInv'
  BY <1>0, <1>15 DEF SnapshotFile
<1>16. ASSUME NEW c \in Clients, NoPolling(c) PROVE LockInv'
  BY <1>3, <1>16 DEF NoPolling
<1>17. ASSUME NEW c \in Clients, StartPoller(c) PROVE LockInv'
  <2>1. PICK p \in Pollers :
          /\ pc[p] = "none"
          /\ pc' = [pc EXCEPT ![c] = "idle", ![p] = "loop"]
    BY <1>17 DEF StartPoller
  <2>2. /\ pc[c] = "snapshot"
        /\ op' = [op EXCEPT ![c] = "none"]
        /\ UNCHANGED <<state, mapsNil, watchersNil, closed>>
    BY <1>17 DEF StartPoller, LeaveFrame
  <2>3. InitOwnsState' /\ StartersKnown' /\ ClosedTraces'
    BY <1>0, <2>1, <2>2
  <2>4. OnePoller'
    <3>1. CASE closed = {}
      <4>1. op[c] = "Init" /\ state # "uninit"
        BY <2>2, <3>1
      <4>2. \A q \in Pollers : ~Started(q)
        BY <3>1, <4>1
      <4> QED
        BY <1>0, <2>1, <2>2, <4>1, <4>2
    <3>2. CASE closed # {}
      BY <2>2, <3>2
    <3> QED
      BY <3>1, <3>2
  <2> QED
    BY <2>3, <2>4
<1>18. ASSUME NEW c \in Clients, CloseStop(c) PROVE LockInv'
  <2>1. CASE stopWatcher \in closed
    BY <1>2, <1>18, <2>1 DEF CloseStop
  <2>2. CASE stopWatcher \notin closed
    BY <1>0, <1>18, <2>2 DEF CloseStop
  <2> QED
    BY <2>1, <2>2
<1>19. ASSUME NEW c \in Clients, CloseWait(c) PROVE LockInv'
  BY <1>0, <1>19 DEF CloseWait
<1>20. ASSUME NEW c \in Clients, CloseDropWatchers(c) PROVE LockInv'
  BY <1>0, <1>20 DEF CloseDropWatchers
<1>21. ASSUME NEW c \in Clients, CloseDropData(c) PROVE LockInv'
  BY <1>3, <1>21 DEF CloseDropData
<1>22. ASSUME NEW c \in Clients, Register(c) PROVE LockInv'
  <2>1. CASE watchersNil
    BY <1>2, <1>22, <2>1 DEF Register
  <2>2. CASE ~watchersNil /\ stopWatcher \in closed
    <3>1. /\ pc[c] = "register"
          /\ pc' = [pc EXCEPT ![c] = "list"]
          /\ closed # {}
          /\ UNCHANGED <<state, op, closed, mapsNil, watchersNil>>
      BY <1>22, <2>2, RegisterCase
    <3> QED
      BY <1>0, <3>1
  <2>3. CASE ~watchersNil /\ stopWatcher \notin closed
    BY <1>3, <1>22, <2>3, RegisterCase
  <2> QED
    BY <2>1, <2>2, <2>3
<1>23. ASSUME NEW p \in Pollers, PollWork(p) \/ PollStop(p), ~StoreFile(p) PROVE LockInv'
  <2>1. /\ Started(p)
        /\ \E l \in {"loop", "select", "exited", "scan", "handle", "read", "deleted", "store"} :
             pc' = [pc EXCEPT ![p] = l]
        /\ UNCHANGED <<state, op, closed, mapsNil, watchersNil>>
    BY <1>0, <1>23
    DEF PollWork, PollStop, PollLoop, PollTick, PollScan, PollCompare, HandleFile,
        ReloadFile, ReadContent, SkipFile, NotifyChanged, NotifyDeleted, PollUpdate
  <2> QED
    BY <1>0, <2>1
<1> QED
  BY <1>1, <1>4, <1>5, <1>6, <1>7, <1>8, <1>9, <1>10, <1>11, <1>12, <1>13, <1>14, <1>15,
     <1>16, <1>17, <1>18, <1>19, <1>20, <1>21, <1>22, <1>23
  DEF Next, ClientCall, ClientStep

(* Any number of callers and pollers: at most one Init runs, and before a  *)
(* Close at most one Init or poller loads files.                           *)
THEOREM SingleLoader == Spec => []OneLoader
<1>1. LockInv => OneLoader
  BY ThreadsAssumption
  DEF LockInv, InitOwnsState, OnePoller, OneLoader, Started, Initializing, Polling, Live
<1> QED
  BY <1>1, LockInvInit, LockInvNext, TypeCorrect, PTL DEF Spec

(* Any interleaving of Inits, Reloads, Watches and polls that no Close has *)
(* joined is free of panics.                                               *)
THEOREM PanicFree == Spec => []PanicNeedsClose
<1>1. LockInv => PanicNeedsClose
  BY DEF LockInv, ClosedTraces, PanicNeedsClose
<1> QED
  BY <1>1, LockInvInit, LockInvNext, TypeCorrect, PTL DEF Spec

---------------------------------------------------------------------------
(* Calls that do not overlap.  Pollers, callbacks, edits and the context   *)
(* go their own way, but a client makes a call only when no other is       *)
(* inside one, and Close waits for the pollers.                            *)

Busy(c) == pc[c] \notin {"idle", "dead"}
OneAtATime == \A c, d \in Clients : Busy(c) /\ Busy(d) => c = d

ClosePhases == {"stop", "wait", "dropWatchers", "dropData"}

(* Nothing panics; nothing is closed or dropped before a Close; what a     *)
(* Close has done so far, and that nobody works behind its back.           *)
Quiet ==
  /\ ~Crashed
  /\ state # "closed" =>
       /\ closed = {} /\ ~mapsNil /\ ~watchersNil
       /\ \A c \in Clients : pc[c] \notin ClosePhases
  /\ state = "closed" =>
       \/ \E c \in Clients : /\ pc[c] \in {"stop", "wait"}
                             /\ ~mapsNil /\ ~watchersNil
                             /\ pc[c] = "stop" => closed = {}
       \/ \E c \in Clients : pc[c] = "dropWatchers" /\ ~AnyLive /\ ~mapsNil /\ ~watchersNil
       \/ \E c \in Clients : pc[c] = "dropData" /\ ~AnyLive /\ watchers = {}
       \/ (\A c \in Clients : pc[c] = "idle") /\ ~AnyLive /\ watchers = {} /\ data = NoData

LEMMA QuietInit == Init => Quiet
BY ThreadsAssumption DEF Init, Quiet, Crashed, ClosePhases, Threads

(* While a call other than Close runs, the provider is open.               *)
LEMMA OpenDuringCalls ==
  ASSUME Quiet, OneAtATime, NEW c \in Clients, Busy(c), pc[c] \notin ClosePhases
  PROVE  state # "closed" /\ closed = {} /\ ~mapsNil /\ ~watchersNil
BY DEF Quiet, OneAtATime, Busy, ClosePhases

(* A goroutine other than a client moves: a Close waits for it.            *)
LEMMA PollerQuiet ==
  ASSUME TypeOK, Quiet, NEW p \in Pollers, Live(p), NEW l, l # "dead",
         pc' = [pc EXCEPT ![p] = l],
         UNCHANGED <<state, closed, mapsNil, watchersNil, watchers>>
  PROVE  Quiet'
<1>1. pc \in [Threads -> ClientLabels \cup PollerLabels] /\ p \in Threads /\ p \notin Clients
  BY ThreadsAssumption DEF TypeOK, Threads
<1>2. AnyLive
  BY DEF AnyLive
<1>3. ~Crashed'
  BY <1>1 DEF Quiet, Crashed
<1>4. \A c \in Clients : c \in Threads /\ pc'[c] = pc[c]
  BY <1>1 DEF Threads
<1> QED
  BY <1>2, <1>3, <1>4 DEF Quiet, ClosePhases

(* A call other than Close goes on or returns.                             *)
LEMMA CallQuiet ==
  ASSUME TypeOK, Quiet, OneAtATime, NEW c \in Clients, Busy(c), pc[c] \notin ClosePhases,
         NEW l, l \notin ClosePhases \cup {"dead"}, pc' = [pc EXCEPT ![c] = l],
         state' = state \/ state' = "uninit", UNCHANGED closed, ~mapsNil', ~watchersNil'
  PROVE  Quiet'
<1>1. pc \in [Threads -> ClientLabels \cup PollerLabels] /\ c \in Threads
  BY DEF TypeOK, Threads
<1>2. state # "closed" /\ closed = {}
  BY OpenDuringCalls
<1>3. ~Crashed'
  BY <1>1 DEF Quiet, Crashed
<1>4. \A d \in Clients : pc'[d] \notin ClosePhases
  BY <1>1, <1>2 DEF Quiet, Threads
<1> QED
  BY <1>2, <1>3, <1>4 DEF Quiet

LEMMA QuietNext ==
  ASSUME ~WaitExpires, TypeOK, Quiet, OneAtATime, OneAtATime', [Next]_vars
  PROVE  Quiet'
<1> USE DEF Goto
<1>0. /\ pc \in [Threads -> ClientLabels \cup PollerLabels]
      /\ \A t \in Threads : pc[t] # "dead"
      /\ Clients \subseteq Threads /\ Pollers \subseteq Threads
  BY DEF TypeOK, Quiet, Crashed, Threads
<1>1. ASSUME \/ \E f \in Files : Edit(f)
             \/ CancelContext
             \/ \E w \in Watchers : Cancel(w)
             \/ \E e \in inflight : Deliver(e)
             \/ UNCHANGED vars
      PROVE  Quiet'
  <2>1. UNCHANGED <<pc, state, data, closed, mapsNil, watchersNil, watchers>>
    BY <1>1 DEF Edit, CancelContext, Cancel, Deliver, SameObject
  <2> QED
    BY <2>1 DEF Quiet, Crashed, AnyLive, Live
<1>2. ASSUME NEW p \in Pollers, PollWork(p) \/ PollStop(p), ~StoreFile(p) PROVE Quiet'
  <2>1. /\ Live(p)
        /\ \E l \in PollerLabels \ {"dead"} : pc' = [pc EXCEPT ![p] = l]
        /\ UNCHANGED <<state, closed, mapsNil, watchersNil, watchers>>
    <3>1. CASE PollScan(p)
      <4>1. pc' = [pc EXCEPT ![p] = "scan"]
        BY <1>0, <3>1 DEF PollScan
      <4> QED
        BY <3>1, <4>1 DEF PollScan, Live, PollerLabels
    <3>2. CASE PollStop(p) \/ PollLoop(p) \/ PollTick(p) \/ PollCompare(p)
      BY <3>2 DEF PollStop, PollLoop, PollTick, PollCompare, Live, PollerLabels
    <3>3. CASE HandleFile(p) \/ ReloadFile(p) \/ SkipFile(p)
      BY <3>3 DEF HandleFile, ReloadFile, ReadContent, SkipFile, Live, PollerLabels
    <3>4. CASE NotifyChanged(p) \/ NotifyDeleted(p) \/ PollUpdate(p)
      BY <3>4 DEF NotifyChanged, NotifyDeleted, PollUpdate, Live, PollerLabels
    <3> QED
      BY <1>2, <3>1, <3>2, <3>3, <3>4 DEF PollWork
  <2> QED
    BY <2>1, PollerQuiet
<1>3. ASSUME NEW p \in Pollers, StoreFile(p) PROVE Quiet'
  <2>1. Live(p) /\ p \notin Clients
    BY <1>3, ThreadsAssumption DEF StoreFile, Live
  <2>2. ~mapsNil
    BY <2>1 DEF Quiet, AnyLive
  <2>3. /\ pc' = [pc EXCEPT ![p] = "notify"]
        /\ UNCHANGED <<state, closed, mapsNil, watchersNil, watchers>>
    BY <1>0, <1>3, <2>1, <2>2, StoreCase
  <2> QED
    BY <2>1, <2>3, PollerQuiet
<1>4. ASSUME NEW c \in Clients, ClientCall(c) PROVE Quiet'
  <2>1. /\ pc[c] = "idle" /\ UNCHANGED <<closed, mapsNil, watchersNil, watchers>>
        /\ \E l \in {"walk", "clear", "stop", "register"} :
             /\ pc' = [pc EXCEPT ![c] = l]
             /\ l = "stop" => state' = "closed"
             /\ l # "stop" => state' # "closed"
        /\ state # "closed"
    BY <1>4 DEF ClientCall, InitCall, ReloadCall, CloseCall, WatchCall, Enter
  <2>2. PICK l \in {"walk", "clear", "stop", "register"} :
             /\ pc' = [pc EXCEPT ![c] = l]
             /\ l = "stop" => state' = "closed"
             /\ l # "stop" => state' # "closed"
    BY <2>1
  <2>3. pc'[c] = l /\ \A d \in Clients : d # c => pc'[d] = pc[d]
    BY <1>0, <2>2
  <2>4. ~Crashed'
    BY <1>0, <2>2 DEF Crashed
  <2> QED
    BY <2>1, <2>2, <2>3, <2>4 DEF Quiet, ClosePhases
<1>5. ASSUME NEW c \in Clients, ClientStep(c), pc[c] \notin ClosePhases PROVE Quiet'
  <2>1. Busy(c)
    BY <1>5, <1>0
    DEF Busy, ClientStep, ReloadClear, Walk, WalkFails, LoadNext, LoadFails, StoreFile, LoadDone,
        ListFiles, SnapshotFile, NoPolling, StartPoller, CloseStop, CloseWait, CloseDropWatchers,
        CloseDropData, Register
  <2>2. state # "closed" /\ closed = {} /\ ~mapsNil /\ ~watchersNil
    BY <1>5, <2>1, OpenDuringCalls
  <2>3. ASSUME Return(c), state' = state \/ state' = "uninit", UNCHANGED <<closed, mapsNil, watchersNil>>
        PROVE  Quiet'
    <3>1. pc' = [pc EXCEPT ![c] = "idle"] /\ "idle" \notin ClosePhases \cup {"dead"}
      BY <2>3 DEF Return, ClosePhases
    <3> QED
      BY <1>5, <2>1, <2>2, <2>3, <3>1, CallQuiet
  <2>4. ASSUME NEW l \in {"walk", "load", "store", "list", "snapshot"}, pc' = [pc EXCEPT ![c] = l],
               state' = state, UNCHANGED <<closed, watchersNil>>, ~mapsNil'
        PROVE  Quiet'
    <3>1. l \notin ClosePhases \cup {"dead"}
      BY DEF ClosePhases
    <3> QED
      BY <1>5, <2>1, <2>2, <2>4, <3>1, CallQuiet
  <2>5. CASE ReloadClear(c)
    BY <2>2, <2>4, <2>5 DEF ReloadClear
  <2>6. CASE Walk(c) \/ LoadNext(c) \/ ListFiles(c)
    BY <2>2, <2>4, <2>6 DEF Walk, LoadNext, ReadContent, ListFiles
  <2>7. CASE WalkFails(c) \/ LoadFails(c) \/ NoPolling(c)
    BY <2>3, <2>7 DEF WalkFails, LoadFails, FailLoad, NoPolling
  <2>8. CASE StoreFile(c)
    <3>1. pc' = [pc EXCEPT ![c] = "load"] /\ UNCHANGED <<state, closed, watchersNil, mapsNil>>
      BY <1>0, <2>2, <2>8, StoreCase
    <3> QED
      BY <2>2, <2>4, <3>1
  <2>9. CASE LoadDone(c)
    <3>1. CASE op[c] = "Init"
      BY <2>2, <2>4, <2>9, <3>1 DEF LoadDone
    <3>2. CASE op[c] # "Init"
      BY <2>3, <2>9, <3>2 DEF LoadDone
    <3> QED
      BY <3>1, <3>2
  <2>10. CASE SnapshotFile(c)
    <3>1. pc[c] = "snapshot" /\ pc' = pc /\ UNCHANGED <<state, closed, watchersNil, mapsNil>>
      BY <2>10 DEF SnapshotFile
    <3>2. pc' = [pc EXCEPT ![c] = "snapshot"]
      BY <1>0, <3>1
    <3> QED
      BY <2>2, <2>4, <3>1, <3>2
  <2>11. CASE StartPoller(c)
    <3>1. PICK p \in Pollers : pc' = [pc EXCEPT ![c] = "idle", ![p] = "loop"]
      BY <2>11 DEF StartPoller
    <3>2. UNCHANGED <<state, closed, watchersNil, mapsNil>>
      BY <2>11 DEF StartPoller
    <3>3. ~Crashed'
      BY <1>0, <3>1 DEF Crashed
    <3>4. \A d \in Clients : pc'[d] \notin ClosePhases
      BY <1>0, <2>2, <3>1 DEF Quiet, ClosePhases
    <3> QED
      BY <2>2, <3>2, <3>3, <3>4 DEF Quiet
  <2>12. CASE Register(c)
    <3>1. Return(c) /\ UNCHANGED <<state, closed, watchersNil, mapsNil>>
      BY <2>2, <2>12, RegisterCase
    <3> QED
      BY <2>3, <3>1
  <2>13. CASE CloseStop(c) \/ CloseWait(c) \/ CloseDropWatchers(c) \/ CloseDropData(c)
    BY <1>5, <2>13 DEF CloseStop, CloseWait, CloseDropWatchers, CloseDropData, ClosePhases
  <2> QED
    BY <1>5, <2>5, <2>6, <2>7, <2>8, <2>9, <2>10, <2>11, <2>12, <2>13 DEF ClientStep
<1>6. ASSUME NEW c \in Clients, ClientStep(c), pc[c] \in ClosePhases PROVE Quiet'
  <2>1. state = "closed"
    BY <1>6 DEF Quiet
  <2>2. \A d \in Clients : pc[d] # "idle" => d = c
    BY <1>0, <1>6 DEF OneAtATime, Busy, ClosePhases
  <2>3. /\ pc[c] \in {"stop", "wait"} => ~mapsNil /\ ~watchersNil
        /\ pc[c] = "stop" => closed = {}
        /\ pc[c] = "dropWatchers" => ~AnyLive /\ ~mapsNil /\ ~watchersNil
        /\ pc[c] = "dropData" => ~AnyLive /\ watchers = {}
    BY <1>6, <2>1, <2>2 DEF Quiet, ClosePhases
  <2>4. ASSUME NEW l \in ClientLabels \ {"dead"}, pc' = [pc EXCEPT ![c] = l]
        PROVE  /\ pc'[c] = l /\ ~Crashed' /\ (AnyLive' <=> AnyLive)
               /\ \A d \in Clients : d # c => pc'[d] = pc[d]
    BY <1>0, <2>4, ThreadsAssumption DEF Crashed, AnyLive, Live
  <2>5. CASE CloseStop(c)
    <3>1. pc[c] = "stop" /\ stopWatcher \notin closed
      BY <2>3, <2>5 DEF CloseStop
    <3>2. pc' = [pc EXCEPT ![c] = "wait"] /\ UNCHANGED <<state, mapsNil, watchersNil>>
      BY <2>5, <3>1 DEF CloseStop
    <3>3. "wait" \in ClientLabels \ {"dead"}
      BY DEF ClientLabels
    <3> QED
      BY <2>1, <2>3, <2>4, <3>1, <3>2, <3>3 DEF Quiet
  <2>6. CASE CloseWait(c)
    <3>1. pc[c] = "wait" /\ ~AnyLive
      BY <2>6 DEF CloseWait
    <3>2. pc' = [pc EXCEPT ![c] = "dropWatchers"] /\ UNCHANGED <<state, mapsNil, watchersNil>>
      BY <2>6 DEF CloseWait
    <3>3. "dropWatchers" \in ClientLabels \ {"dead"}
      BY DEF ClientLabels
    <3> QED
      BY <2>1, <2>3, <2>4, <3>1, <3>2, <3>3 DEF Quiet
  <2>7. CASE CloseDropWatchers(c)
    <3>1. /\ pc[c] = "dropWatchers" /\ watchers' = {}
          /\ pc' = [pc EXCEPT ![c] = "dropData"] /\ UNCHANGED state
      BY <2>7 DEF CloseDropWatchers
    <3>2. "dropData" \in ClientLabels \ {"dead"}
      BY DEF ClientLabels
    <3> QED
      BY <2>1, <2>3, <2>4, <3>1, <3>2 DEF Quiet
  <2>8. CASE CloseDropData(c)
    <3>1. /\ pc[c] = "dropData" /\ data' = NoData /\ UNCHANGED <<state, watchers>>
          /\ pc' = [pc EXCEPT ![c] = "idle"]
      BY <2>8 DEF CloseDropData, Return
    <3>2. "idle" \in ClientLabels \ {"dead"}
      BY DEF ClientLabels
    <3>3. \A d \in Clients : pc'[d] = "idle"
      BY <2>2, <2>4, <3>1, <3>2
    <3> QED
      BY <2>1, <2>3, <2>4, <3>1, <3>2, <3>3 DEF Quiet
  <2> QED
    BY <1>6, <2>5, <2>6, <2>7, <2>8
    DEF ClientStep, ClosePhases, ReloadClear, Walk, WalkFails, LoadNext, LoadFails, StoreFile,
        LoadDone, ListFiles, SnapshotFile, NoPolling, StartPoller, Register
<1> QED
  BY <1>1, <1>2, <1>3, <1>4, <1>5, <1>6 DEF Next

(* A Close that waited for the pollers leaves nothing behind, if no call   *)
(* overlaps with another ...                                               *)
THEOREM CloseLeavesNothing ==
  ASSUME ~WaitExpires PROVE Spec /\ []OneAtATime => []CloseQuiesces
<1>1. TypeOK /\ Quiet /\ OneAtATime /\ OneAtATime' /\ [Next]_vars => Quiet'
  BY QuietNext
<1>2. Quiet => CloseQuiesces
  BY DEF Quiet, CloseQuiesces
<1> QED
  BY <1>1, <1>2, QuietInit, TypeCorrect, PTL DEF Spec

(* ... and nothing ever panics.                                            *)
THEOREM NoPanic ==
  ASSUME ~WaitExpires PROVE Spec /\ []OneAtATime => []~Crashed
<1>1. TypeOK /\ Quiet /\ OneAtATime /\ OneAtATime' /\ [Next]_vars => Quiet'
  BY QuietNext
<1>2. Quiet => ~Crashed
  BY DEF Quiet
<1> QED
  BY <1>1, <1>2, QuietInit, TypeCorrect, PTL DEF Spec

(* Where the calls are, and that only an Init without watchers loads.      *)
InCall ==
  /\ \A c \in Clients :
       /\ op[c] # "none" => pc[c] # "idle"
       /\ pc[c] # "clear"
       /\ pc[c] \in {"walk", "load", "store"} => op[c] = "Init"
       /\ op[c] = "Init" => watchers = {}
       /\ pc[c] = "register" => state = "init"
  /\ state = "uninit" => watchers = {}
  /\ \A t \in Threads : pc[t] = "store" => buf[t].ver # 0

(* A subscriber whose value is out of date has it coming: a poller is      *)
(* about to announce a file whose namespace its key starts with.           *)
Notified ==
  \A w \in watchers \cap ExactWatchers :
    sent[w] # flat[ExactTarget[w]] =>
      /\ flat[ExactTarget[w]] # Void
      /\ \E p \in Pollers : pc[p] = "notify" /\ ExactTarget[w] \in Matches[at[p]]

(* A client's step is by the one client inside a call.                     *)
LEMMA InCallNext ==
  ASSUME "Reload" \notin Calls, TypeOK, LockInv, Quiet, Quiet', OneAtATime, OneAtATime',
         InCall, [Next]_vars
  PROVE  InCall'
<1> USE DEF Goto
<1>0. /\ pc \in [Threads -> ClientLabels \cup PollerLabels]
      /\ op \in [Clients -> {"none", "Init", "Reload", "Close", "Watch"}]
      /\ buf \in [Threads -> Held]
      /\ \A t \in Threads : pc[t] # "dead" /\ pc'[t] # "dead"
      /\ Clients \subseteq Threads /\ Pollers \subseteq Threads
      /\ Clients \cap Pollers = {}
  BY ThreadsAssumption DEF TypeOK, Quiet, Crashed, Threads
<1>1. ASSUME \/ \E f \in Files : Edit(f)
             \/ CancelContext
             \/ \E w \in Watchers : Cancel(w)
             \/ \E e \in inflight : Deliver(e)
             \/ UNCHANGED vars
      PROVE  InCall'
  <2>1. UNCHANGED <<pc, op, state, buf, watchers>>
    BY <1>1 DEF Edit, CancelContext, Cancel, Deliver, SameObject
  <2> QED
    BY <2>1 DEF InCall
<1>2. ASSUME NEW t \in Threads, NEW l, pc' = [pc EXCEPT ![t] = l], l # "store",
             buf' = buf \/ buf' = [buf EXCEPT ![t] = NoBuf]
      PROVE  \A u \in Threads : pc'[u] = "store" => buf'[u].ver # 0
  BY <1>0, <1>2 DEF InCall
<1>3. ASSUME NEW t \in Threads, NEW f \in Files, ReadContent(t, f), TypeOK
      PROVE  \A u \in Threads : pc'[u] = "store" => buf'[u].ver # 0
  <2>1. /\ pc' = [pc EXCEPT ![t] = "store"]
        /\ buf' = [buf EXCEPT ![t] = [ver |-> disk[f].ver, keys |-> disk[f].keys]]
        /\ disk[f].ver # 0
    BY <1>3 DEF ReadContent, TypeOK
  <2> QED
    BY <1>0, <2>1 DEF InCall
<1>4. ASSUME NEW p \in Pollers, PollWork(p) \/ PollStop(p) PROVE InCall'
  <2>1. /\ UNCHANGED <<op, state, watchers>>
        /\ \A c \in Clients : pc'[c] = pc[c]
        /\ \A u \in Threads : pc'[u] = "store" => buf'[u].ver # 0
    <3>1. CASE StoreFile(p)
      <4>1. ~mapsNil
        BY <1>0, <3>1 DEF StoreFile, Panic
      <4>2. /\ pc' = [pc EXCEPT ![p] = "notify"]
            /\ buf' = [buf EXCEPT ![p] = NoBuf]
            /\ UNCHANGED <<op, state, watchers>>
        BY <1>0, <3>1, <4>1, StoreCase
      <4> QED
        BY <1>0, <1>2, <4>2
    <3>2. CASE ReloadFile(p)
      <4>1. at[p] \in Files
        BY <1>0, <3>2 DEF TypeOK, ReloadFile
      <4> QED
        BY <1>0, <1>3, <3>2, <4>1 DEF ReloadFile, ReadContent
    <3>3. CASE PollScan(p)
      <4>1. UNCHANGED <<pc, buf, op, state, watchers>>
        BY <3>3 DEF PollScan
      <4> QED
        BY <4>1 DEF InCall
    <3>4. CASE ~StoreFile(p) /\ ~ReloadFile(p) /\ ~PollScan(p)
      <4>1. /\ UNCHANGED <<buf, op, state, watchers>>
            /\ \E l \in PollerLabels \ {"store"} : pc' = [pc EXCEPT ![p] = l]
        BY <1>4, <3>4
        DEF PollWork, PollStop, PollLoop, PollTick, PollCompare, HandleFile, SkipFile,
            NotifyChanged, NotifyDeleted, PollUpdate, PollerLabels
      <4> QED
        BY <1>0, <1>2, <4>1
    <3> QED
      BY <3>1, <3>2, <3>3, <3>4
  <2> QED
    BY <2>1 DEF InCall
<1>5. ASSUME NEW c \in Clients, ClientCall(c) PROVE InCall'
  <2>1. /\ pc[c] = "idle" /\ UNCHANGED <<watchers, buf>>
        /\ \E l \in {"walk", "stop", "register"} :
             /\ pc' = [pc EXCEPT ![c] = l]
             /\ \/ l = "walk" /\ op' = [op EXCEPT ![c] = "Init"] /\ state = "uninit" /\ state' = "init"
                \/ l = "stop" /\ op' = [op EXCEPT ![c] = "Close"] /\ state' = "closed"
                \/ l = "register" /\ op' = [op EXCEPT ![c] = "Watch"] /\ state = "init" /\ state' = state
    BY <1>5 DEF ClientCall, InitCall, ReloadCall, CloseCall, WatchCall, Enter
  <2>2. \A u \in Threads : pc'[u] = "store" => buf'[u].ver # 0
    <3>1. \A u \in Threads : pc'[u] = "store" => pc[u] = "store"
      BY <1>0, <2>1
    <3> QED
      BY <2>1, <3>1 DEF InCall
  <2>3. \A d \in Clients : d # c => pc'[d] = "idle"
    BY <1>0, <2>1 DEF OneAtATime, Busy
  <2> QED
    BY <1>0, <2>1, <2>2, <2>3 DEF InCall
<1>6. ASSUME NEW c \in Clients, ClientStep(c) PROVE InCall'
  <2>1. pc[c] # "idle" /\ \A d \in Clients : d # c => pc[d] = "idle" /\ op[d] = "none"
    <3>1. pc[c] # "idle"
      BY <1>6
      DEF ClientStep, ReloadClear, Walk, WalkFails, LoadNext, LoadFails, StoreFile, LoadDone,
          ListFiles, SnapshotFile, NoPolling, StartPoller, CloseStop, CloseWait,
          CloseDropWatchers, CloseDropData, Register
    <3> QED
      BY <1>0, <3>1 DEF OneAtATime, Busy, InCall
  <2>2. ASSUME Return(c), watchers' = watchers \/ op[c] # "Init", buf' = buf,
               state' = state \/ watchers' = {}, state' = "uninit" => watchers' = {}
        PROVE  InCall'
    <3>1. pc' = [pc EXCEPT ![c] = "idle"] /\ op' = [op EXCEPT ![c] = "none"]
      BY <2>2 DEF Return, LeaveFrame
    <3>2. \A u \in Threads : pc'[u] = "store" => buf'[u].ver # 0
      BY <1>0, <1>2, <2>2, <3>1
    <3>3. \A d \in Clients : pc'[d] = "idle" /\ op'[d] = "none"
      BY <1>0, <2>1, <3>1
    <3> QED
      BY <2>2, <3>2, <3>3 DEF InCall
  <2>3. ASSUME NEW l \in {"walk", "load", "list", "snapshot", "wait", "dropWatchers", "dropData"},
               pc' = [pc EXCEPT ![c] = l], buf' = buf \/ buf' = [buf EXCEPT ![c] = NoBuf],
               l \in {"walk", "load"} => op[c] = "Init",
               watchers' = watchers \/ watchers' = {}, UNCHANGED <<op, state>>
        PROVE  InCall'
    <3>1. \A u \in Threads : pc'[u] = "store" => buf'[u].ver # 0
      BY <1>0, <1>2, <2>3
    <3>2. pc'[c] = l /\ \A d \in Clients : d # c => pc'[d] = "idle" /\ op'[d] = "none"
      BY <1>0, <2>1, <2>3
    <3> QED
      BY <2>3, <3>1, <3>2 DEF InCall
  <2>4. CASE ReloadClear(c)
    BY <2>4 DEF ReloadClear, InCall
  <2>5. CASE Walk(c)
    BY <2>3, <2>5 DEF Walk, InCall
  <2>6. CASE WalkFails(c) \/ LoadFails(c)
    <3>1. FailLoad(c) /\ op[c] = "Init"
      BY <2>6 DEF WalkFails, LoadFails, InCall
    <3> QED
      BY <2>2, <3>1 DEF FailLoad, Return, LeaveFrame, InCall
  <2>7. CASE LoadNext(c)
    <3>1. PICK f \in todo[c] : ReadContent(c, f)
      BY <2>7 DEF LoadNext
    <3>2. f \in Files /\ pc[c] = "load" /\ UNCHANGED <<op, state, watchers>>
      BY <1>0, <2>7 DEF LoadNext, TypeOK
    <3>3. pc' = [pc EXCEPT ![c] = "store"]
      BY <3>1 DEF ReadContent
    <3>4. \A u \in Threads : pc'[u] = "store" => buf'[u].ver # 0
      BY <1>0, <1>3, <3>1, <3>2
    <3> QED
      BY <1>0, <3>2, <3>3, <3>4 DEF InCall
  <2>8. CASE StoreFile(c)
    <3>1. ~mapsNil
      BY <1>0, <2>8 DEF StoreFile, Panic
    <3>2. /\ pc[c] = "store" /\ pc' = [pc EXCEPT ![c] = "load"]
          /\ buf' = [buf EXCEPT ![c] = NoBuf]
          /\ UNCHANGED <<op, state, watchers>>
      BY <1>0, <2>8, <3>1, StoreCase
    <3> QED
      BY <2>3, <3>2 DEF InCall
  <2>9. CASE LoadDone(c)
    <3>1. op[c] = "Init"
      BY <2>9 DEF LoadDone, InCall
    <3> QED
      BY <2>3, <2>9, <3>1 DEF LoadDone
  <2>10. CASE ListFiles(c)
    BY <2>3, <2>10 DEF ListFiles
  <2>11. CASE SnapshotFile(c)
    <3>1. UNCHANGED <<pc, op, state, watchers, buf>>
      BY <2>11 DEF SnapshotFile
    <3> QED
      BY <3>1 DEF InCall
  <2>12. CASE NoPolling(c)
    BY <2>2, <2>12 DEF NoPolling, Return, LeaveFrame, InCall
  <2>13. CASE StartPoller(c)
    <3>1. PICK p \in Pollers : pc' = [pc EXCEPT ![c] = "idle", ![p] = "loop"]
      BY <2>13 DEF StartPoller
    <3>2. op' = [op EXCEPT ![c] = "none"] /\ UNCHANGED <<buf, state, watchers>>
      BY <2>13 DEF StartPoller, LeaveFrame
    <3>3. \A u \in Threads : pc'[u] = "store" => pc[u] = "store"
      BY <1>0, <3>1
    <3>4. \A d \in Clients : pc'[d] = "idle" /\ op'[d] = "none"
      BY <1>0, <2>1, <3>1, <3>2
    <3> QED
      BY <3>2, <3>3, <3>4 DEF InCall
  <2>14. CASE CloseStop(c)
    <3>1. pc' = [pc EXCEPT ![c] = "wait"] /\ UNCHANGED <<op, state, buf, watchers>>
      BY <1>0, <2>14 DEF CloseStop, Panic
    <3> QED
      BY <2>3, <3>1
  <2>15. CASE CloseWait(c) \/ CloseDropWatchers(c)
    BY <2>3, <2>15 DEF CloseWait, CloseDropWatchers
  <2>16. CASE CloseDropData(c)
    BY <2>2, <2>16 DEF CloseDropData, Return, LeaveFrame, InCall
  <2>17. CASE Register(c)
    <3>1. pc[c] = "register" /\ op[c] = "Watch" /\ Busy(c)
      BY <2>17 DEF Register, LockInv, StartersKnown, Busy
    <3>2. ~watchersNil /\ closed = {} /\ state = "init"
      BY <3>1, OpenDuringCalls DEF ClosePhases, InCall
    <3>3. Return(c) /\ UNCHANGED state
      BY <2>17, <3>2, RegisterCase
    <3> QED
      BY <2>2, <3>1, <3>2, <3>3 DEF Return, LeaveFrame
  <2> QED
    BY <1>6, <2>4, <2>5, <2>6, <2>7, <2>8, <2>9, <2>10, <2>11, <2>12, <2>13, <2>14, <2>15,
       <2>16, <2>17 DEF ClientStep
<1> QED
  BY <1>1, <1>4, <1>5, <1>6 DEF Next

(* An announcement reaches the subscribers of the file's keys.             *)
LEMMA Announced ==
  ASSUME TypeOK, NEW p \in Pollers, NotifyChanged(p), NEW w \in watchers \cap ExactWatchers,
         ExactTarget[w] \in Matches[at[p]], flat[ExactTarget[w]] # Void
  PROVE  sent'[w] = flat[ExactTarget[w]]
<1> DEFINE told == {v \in watchers \cap ExactWatchers : ExactTarget[v] \in Affected(at[p])}
<1>1. w \in told
  BY DEF Affected
<1>2. sent' = [v \in ExactWatchers |-> IF v \in told THEN flat[ExactTarget[v]] ELSE sent[v]]
  BY DEF NotifyChanged
<1> HIDE DEF told
<1> QED
  BY <1>1, <1>2

(* Nothing is stored, announced or registered.                             *)
LEMMA NotifiedStable ==
  ASSUME Notified, UNCHANGED <<flat, sent>>, watchers' \subseteq watchers,
         \A p \in Pollers : pc[p] = "notify" => pc'[p] = "notify" /\ at'[p] = at[p]
  PROVE  Notified'
BY DEF Notified

LEMMA NotifiedNext ==
  ASSUME TypeOK, LockInv, Quiet, Quiet', OneAtATime, InCall, InCall', HeldIsPast, Notified,
         [Next]_vars
  PROVE  Notified'
<1> USE DEF Goto
<1>0. /\ pc \in [Threads -> ClientLabels \cup PollerLabels]
      /\ at \in [Threads -> Files \cup {NoFile}]
      /\ \A t \in Threads : pc[t] # "dead" /\ pc'[t] # "dead"
      /\ Clients \subseteq Threads /\ Pollers \subseteq Threads
      /\ Clients \cap Pollers = {}
  BY ThreadsAssumption DEF TypeOK, Quiet, Crashed, Threads
<1>1. CASE watchers' = {}
  BY <1>1 DEF Notified
<1>2. ASSUME \/ \E f \in Files : Edit(f)
             \/ CancelContext
             \/ \E w \in Watchers : Cancel(w)
             \/ \E e \in inflight : Deliver(e)
             \/ UNCHANGED vars
      PROVE  Notified'
  <2>1. UNCHANGED <<flat, sent, pc, at>> /\ watchers' \subseteq watchers
    BY <1>2 DEF Edit, CancelContext, Cancel, Deliver
  <2> QED
    BY <2>1, NotifiedStable
<1>3. ASSUME NEW c \in Clients, ClientCall(c) PROVE Notified'
  <2>1. UNCHANGED <<flat, sent, at, watchers>> /\ \E l : pc' = [pc EXCEPT ![c] = l]
    BY <1>3 DEF ClientCall, InitCall, ReloadCall, CloseCall, WatchCall, Enter
  <2>2. \A p \in Pollers : pc'[p] = pc[p]
    BY <1>0, <2>1
  <2> QED
    BY <2>1, <2>2, NotifiedStable
<1>4. ASSUME NEW c \in Clients, ClientStep(c), watchers' # {} PROVE Notified'
  <2>1. CASE Register(c)
    <3>1. pc[c] = "register" /\ Busy(c)
      BY <2>1 DEF Register, Busy
    <3>2. ~watchersNil /\ stopWatcher \notin closed
      BY <3>1, OpenDuringCalls DEF ClosePhases
    <3>3. /\ watchers' = watchers \cup {wreq[c]}
          /\ sent' = IF wreq[c] \in ExactWatchers
                     THEN [sent EXCEPT ![wreq[c]] = flat[ExactTarget[wreq[c]]]] ELSE sent
          /\ flat' = flat /\ pc' = [pc EXCEPT ![c] = "idle"] /\ at' = at
      BY <2>1, <3>2, RegisterCase DEF Return, LeaveFrame
    <3>4. \A p \in Pollers : pc'[p] = pc[p] /\ at'[p] = at[p]
      BY <1>0, <3>3
    <3>5. ASSUME NEW w \in watchers' \cap ExactWatchers, sent'[w] # flat'[ExactTarget[w]]
          PROVE  /\ flat'[ExactTarget[w]] # Void
                 /\ \E p \in Pollers : pc'[p] = "notify" /\ ExactTarget[w] \in Matches[at'[p]]
      <4>1. sent \in [ExactWatchers -> Values]
        BY DEF TypeOK
      <4>2. w # wreq[c]
        BY <3>3, <3>5, <4>1
      <4>3. w \in watchers \cap ExactWatchers /\ sent'[w] = sent[w]
        BY <3>3, <4>1, <4>2
      <4> QED
        BY <3>3, <3>4, <3>5, <4>3 DEF Notified
    <3> QED
      BY <3>5 DEF Notified
  <2>2. CASE StoreFile(c)
    <3>1. ~mapsNil /\ op[c] = "Init" /\ watchers = {}
      BY <1>0, <2>2 DEF StoreFile, Panic, InCall
    <3>2. watchers' = watchers
      BY <1>0, <2>2, <3>1, StoreCase
    <3> QED
      BY <1>1, <3>1, <3>2
  <2>3. CASE ReloadClear(c)
    BY <2>3 DEF ReloadClear, InCall
  <2>4. CASE CloseDropData(c)
    <3>1. state = "closed" /\ Busy(c) /\ watchers' = watchers
      BY <2>4 DEF CloseDropData, Busy, Quiet, ClosePhases
    <3>2. \A d \in Clients : pc[d] \notin {"idle", "dead"} => d = c
      BY <3>1 DEF OneAtATime, Busy
    <3>3. pc[c] = "dropData"
      BY <2>4 DEF CloseDropData
    <3>4. watchers = {}
      BY <3>1, <3>2, <3>3 DEF Quiet
    <3> QED
      BY <1>1, <3>1, <3>4
  <2>5. CASE StartPoller(c)
    <3>1. PICK p \in Pollers : pc[p] = "none" /\ pc' = [pc EXCEPT ![c] = "idle", ![p] = "loop"]
      BY <2>5 DEF StartPoller
    <3>2. UNCHANGED <<flat, sent, watchers, at>>
      BY <2>5 DEF StartPoller, LeaveFrame
    <3>3. \A q \in Pollers : pc[q] = "notify" => pc'[q] = "notify"
      BY <1>0, <3>1
    <3> QED
      BY <3>2, <3>3, NotifiedStable
  <2>6. CASE Walk(c) \/ LoadNext(c) \/ ListFiles(c) \/ SnapshotFile(c)
    <3>1. /\ UNCHANGED <<flat, sent, watchers>>
          /\ pc' = pc \/ \E l : pc' = [pc EXCEPT ![c] = l]
          /\ at' = at \/ \E l : at' = [at EXCEPT ![c] = l]
      BY <2>6 DEF Walk, LoadNext, ReadContent, ListFiles, SnapshotFile
    <3>2. \A p \in Pollers : pc'[p] = pc[p] /\ at'[p] = at[p]
      BY <1>0, <3>1
    <3> QED
      BY <3>1, <3>2, NotifiedStable
  <2>7. CASE WalkFails(c) \/ LoadFails(c) \/ NoPolling(c) \/ LoadDone(c)
    <3>1. UNCHANGED <<flat, sent, watchers, at>> /\ \E l : pc' = [pc EXCEPT ![c] = l]
      BY <2>7 DEF WalkFails, LoadFails, FailLoad, NoPolling, LoadDone, Return, LeaveFrame
    <3>2. \A p \in Pollers : pc'[p] = pc[p]
      BY <1>0, <3>1
    <3> QED
      BY <3>1, <3>2, NotifiedStable
  <2>8. CASE CloseStop(c) \/ CloseWait(c)
    <3>1. UNCHANGED <<flat, sent, watchers, at>> /\ \E l : pc' = [pc EXCEPT ![c] = l]
      BY <1>0, <2>8 DEF CloseStop, CloseWait, Panic
    <3>2. \A p \in Pollers : pc'[p] = pc[p]
      BY <1>0, <3>1
    <3> QED
      BY <3>1, <3>2, NotifiedStable
  <2>9. CASE CloseDropWatchers(c)
    BY <1>4, <2>9 DEF CloseDropWatchers
  <2> QED
    BY <1>4, <2>1, <2>2, <2>3, <2>4, <2>5, <2>6, <2>7, <2>8, <2>9 DEF ClientStep
<1>5. ASSUME NEW p \in Pollers, StoreFile(p) PROVE Notified'
  <2>1. pc[p] = "store" /\ ~mapsNil /\ p \notin Clients
    BY <1>0, <1>5 DEF StoreFile, Panic
  <2>2. /\ at[p] \in Files /\ buf[p].ver # 0
        /\ flat' = flattenMap(p)
        /\ pc' = [pc EXCEPT ![p] = "notify"] /\ at' = at
        /\ UNCHANGED <<sent, watchers>>
    BY <1>0, <1>5, <2>1, StoreCase DEF TypeOK, InCall
  <2>3. pc'[p] = "notify" /\ \A q \in Pollers : pc[q] = "notify" => pc'[q] = "notify"
    BY <1>0, <2>2
  <2>4. buf[p].keys \subseteq Matches[at[p]]
    BY <1>0, <2>1, <2>2, KeyAssumption DEF HeldIsPast
  <2>5. ASSUME NEW w \in watchers \cap ExactWatchers, sent[w] # flat'[ExactTarget[w]]
        PROVE  /\ flat'[ExactTarget[w]] # Void
               /\ \E q \in Pollers : pc'[q] = "notify" /\ ExactTarget[w] \in Matches[at'[q]]
    <3>1. ExactTarget[w] \in Keys
      BY WatcherAssumption
    <3>2. CASE ExactTarget[w] \notin buf[p].keys
      <4>1. flat'[ExactTarget[w]] = flat[ExactTarget[w]]
        BY <2>2, <3>1, <3>2 DEF flattenMap
      <4> QED
        BY <2>2, <2>3, <2>5, <4>1 DEF Notified
    <3>3. CASE ExactTarget[w] \in buf[p].keys
      <4>1. flat'[ExactTarget[w]] = [file |-> at[p], ver |-> buf[p].ver]
        BY <2>2, <3>1, <3>3 DEF flattenMap
      <4>2. flat'[ExactTarget[w]] # Void
        BY <2>2, <4>1 DEF Void
      <4> QED
        BY <2>2, <2>3, <2>4, <3>3, <4>2
    <3> QED
      BY <3>2, <3>3
  <2> QED
    BY <2>2, <2>5 DEF Notified
<1>6. ASSUME NEW p \in Pollers, NotifyChanged(p) PROVE Notified'
  <2> DEFINE told == {v \in watchers \cap ExactWatchers : ExactTarget[v] \in Affected(at[p])}
  <2>1. /\ pc' = [pc EXCEPT ![p] = "handle"] /\ at' = [at EXCEPT ![p] = NoFile]
        /\ UNCHANGED <<flat, watchers>>
        /\ sent' = [v \in ExactWatchers |-> IF v \in told THEN flat[ExactTarget[v]] ELSE sent[v]]
    BY <1>6 DEF NotifyChanged
  <2>2. \A q \in Pollers : q # p => pc'[q] = pc[q] /\ at'[q] = at[q]
    BY <1>0, <2>1
  <2>3. \A v \in ExactWatchers : sent'[v] = flat[ExactTarget[v]] \/ sent'[v] = sent[v]
    BY <2>1
  <2> HIDE DEF told
  <2>4. ASSUME NEW w \in watchers \cap ExactWatchers, sent'[w] # flat[ExactTarget[w]]
        PROVE  /\ flat[ExactTarget[w]] # Void
               /\ \E q \in Pollers : pc'[q] = "notify" /\ ExactTarget[w] \in Matches[at'[q]]
    <3>1. sent'[w] = sent[w]
      BY <2>3, <2>4
    <3>2. flat[ExactTarget[w]] # Void
      BY <2>4, <3>1 DEF Notified
    <3>3. PICK q \in Pollers : pc[q] = "notify" /\ ExactTarget[w] \in Matches[at[q]]
      BY <2>4, <3>1 DEF Notified
    <3>4. q # p
      BY <1>6, <2>4, <3>2, <3>3, Announced
    <3> QED
      BY <2>2, <3>2, <3>3, <3>4
  <2> QED
    BY <2>1, <2>4 DEF Notified
<1>7. ASSUME NEW p \in Pollers, PollWork(p) \/ PollStop(p), ~StoreFile(p), ~NotifyChanged(p)
      PROVE  Notified'
  <2>1. /\ UNCHANGED <<flat, sent, watchers>>
        /\ pc[p] # "notify"
        /\ pc' = pc \/ \E l : pc' = [pc EXCEPT ![p] = l]
        /\ at' = at \/ \E l : at' = [at EXCEPT ![p] = l]
    BY <1>7
    DEF PollWork, PollStop, PollLoop, PollTick, PollScan, PollCompare, HandleFile,
        ReloadFile, ReadContent, SkipFile, NotifyDeleted, PollUpdate
  <2>2. \A q \in Pollers : q # p => pc'[q] = pc[q] /\ at'[q] = at[q]
    BY <1>0, <2>1
  <2> QED
    BY <2>1, <2>2, NotifiedStable
<1> QED
  BY <1>1, <1>2, <1>3, <1>4, <1>5, <1>6, <1>7 DEF Next, PollWork

(* Without Reloads and overlapping calls, a poll loses no notification:    *)
(* between announcements every subscriber knows the value of its key.      *)
THEOREM EveryChangeIsTold ==
  ASSUME ~WaitExpires, "Reload" \notin Calls
  PROVE  Spec /\ []OneAtATime => []NotifiedUpToDate
<1> DEFINE Inv == Quiet /\ InCall /\ Notified
<1>1. Init => Inv
  <2>1. Init => InCall /\ Notified
    BY ThreadsAssumption DEF Init, InCall, Notified, Threads
  <2> QED
    BY <2>1, QuietInit
<1>2. TypeOK /\ LockInv /\ HeldIsPast /\ Inv /\ OneAtATime /\ OneAtATime' /\ [Next]_vars => Inv'
  <2> SUFFICES ASSUME TypeOK, LockInv, HeldIsPast, Inv, OneAtATime, OneAtATime', [Next]_vars PROVE Inv'
    OBVIOUS
  <2>1. Quiet'
    BY QuietNext
  <2>2. InCall'
    BY <2>1, InCallNext
  <2>3. Notified'
    BY <2>1, <2>2, NotifiedNext
  <2> QED
    BY <2>1, <2>2, <2>3
<1>3. Inv => NotifiedUpToDate
  BY DEF Notified, NotifiedUpToDate
<1> HIDE DEF Inv
<1> QED
  BY <1>1, <1>2, <1>3, TypeCorrect, HeldPast, LockInvInit, LockInvNext, PTL DEF Spec
---------------------------------------------------------------------------
(* What the callbacks are told.                                            *)

(* A step leaves the events alone but for deliveries, unless a poller      *)
(* announces a file.                                                       *)
LEMMA EventsSent ==
  ASSUME [Next]_vars
  PROVE  \/ inflight' \subseteq inflight
         \/ \E p \in Pollers : NotifyChanged(p) \/ NotifyDeleted(p)
<1>1. ASSUME NEW c \in Clients, ClientCall(c) \/ ClientStep(c) PROVE inflight' \subseteq inflight
  BY <1>1
  DEF ClientCall, InitCall, ReloadCall, CloseCall, WatchCall, ClientStep, ReloadClear, Walk,
      WalkFails, LoadFails, FailLoad, LoadNext, StoreFile, LoadDone, ListFiles, SnapshotFile,
      NoPolling, StartPoller, CloseStop, CloseWait, CloseDropWatchers, CloseDropData, Register,
      Panic
<1>2. ASSUME NEW p \in Pollers, PollWork(p) \/ PollStop(p), ~NotifyChanged(p), ~NotifyDeleted(p)
      PROVE  inflight' \subseteq inflight
  BY <1>2
  DEF PollWork, PollStop, PollLoop, PollTick, PollScan, PollCompare, HandleFile, ReloadFile,
      SkipFile, StoreFile, PollUpdate, Panic
<1>3. ASSUME \/ \E f \in Files : Edit(f)
             \/ CancelContext
             \/ \E w \in Watchers : Cancel(w)
             \/ \E e \in inflight : Deliver(e)
             \/ UNCHANGED vars
      PROVE  inflight' \subseteq inflight
  BY <1>3 DEF Edit, CancelContext, Cancel, Deliver
<1> QED
  BY <1>1, <1>2, <1>3 DEF Next

(* A callback stays registered until a Close drops them all; its           *)
(* CancelFunc does not remove it.                                          *)
LEMMA WatchersStay ==
  ASSUME [Next]_vars
  PROVE  watchersNil' \/ (watchers \subseteq watchers' /\ watchersNil' = watchersNil)
<1>1. ASSUME NEW c \in Clients, ClientCall(c) \/ ClientStep(c)
      PROVE  watchersNil' \/ (watchers \subseteq watchers' /\ watchersNil' = watchersNil)
  BY <1>1
  DEF ClientCall, InitCall, ReloadCall, CloseCall, WatchCall, ClientStep, ReloadClear, Walk,
      WalkFails, LoadFails, FailLoad, LoadNext, StoreFile, LoadDone, ListFiles, SnapshotFile,
      NoPolling, StartPoller, CloseStop, CloseWait, CloseDropWatchers, CloseDropData, Register,
      Panic
<1>2. ASSUME NEW p \in Pollers, PollWork(p) \/ PollStop(p) PROVE UNCHANGED watching
  BY <1>2
  DEF PollWork, PollStop, PollLoop, PollTick, PollScan, PollCompare, HandleFile, ReloadFile,
      SkipFile, StoreFile, NotifyChanged, NotifyDeleted, PollUpdate, Panic
<1>3. ASSUME \/ \E f \in Files : Edit(f)
             \/ CancelContext
             \/ \E w \in Watchers : Cancel(w)
             \/ \E e \in inflight : Deliver(e)
             \/ UNCHANGED vars
      PROVE  watchers' = watchers /\ watchersNil' = watchersNil
  BY <1>3 DEF Edit, CancelContext, Cancel, Deliver, SameObject
<1> QED
  BY <1>1, <1>2, <1>3 DEF Next

(* What EventsTrue asks of one event.                                      *)
Sound(e) ==
  /\ e.val.file \in Files /\ e.key \in UNION Documents[e.val.file]
  /\ e.val.ver \in 1..disk[e.val.file].ver
  /\ e.watcher \in ExactWatchers => e.key = ExactTarget[e.watcher]
  /\ e.watcher \in PrefixWatchers => HasPrefix(e.watcher, e.key)
  /\ e.watcher \in watchers \/ watchersNil

(* An event about an affected key carries a value its file has had.        *)
LEMMA AffectedHeld ==
  ASSUME TypeOK, HeldIsPast, NEW f \in Files, NEW w \in watchers, NEW k \in Affected(f),
         w \in ExactWatchers => k = ExactTarget[w],
         w \in PrefixWatchers => HasPrefix(w, k)
  PROVE  Sound(Event(w, k))
<1>1. k \in Keys /\ flat[k] # Void
  BY KeyAssumption DEF Affected
<1>2. /\ flat[k].file \in Files /\ k \in UNION Documents[flat[k].file]
      /\ flat[k].ver \in 1..disk[flat[k].file].ver
  BY <1>1 DEF HeldIsPast
<1>3. Event(w, k).watcher = w /\ Event(w, k).key = k /\ Event(w, k).val = flat[k]
  BY DEF Event
<1> QED
  BY <1>2, <1>3 DEF Sound

(* So are the events for prefix watchers.                                  *)
LEMMA PrefixEventsSound ==
  ASSUME TypeOK, HeldIsPast, NEW f \in Files, NEW more \in PrefixEvents(f), NEW e \in more
  PROVE  Sound(e)
<1> DEFINE hit(w) == {k \in Affected(f) : HasPrefix(w, k)}
           told == {w \in watchers \cap PrefixWatchers : hit(w) # {}}
<1>1. PICK g \in [told -> Affected(f)] :
        more = {Event(w, g[w]) : w \in told} /\ \A w \in told : g[w] \in hit(w)
  BY DEF PrefixEvents
<1>2. PICK w \in told : e = Event(w, g[w])
  BY <1>1
<1>3. w \in watchers /\ w \notin ExactWatchers /\ g[w] \in Affected(f) /\ HasPrefix(w, g[w])
  BY <1>1, WatcherAssumption
<1> QED
  BY <1>2, <1>3, AffectedHeld

LEMMA EventsTrueNext ==
  ASSUME TypeOK, HeldIsPast, EventsTrue, [Next]_vars PROVE EventsTrue'
<1>0. inflight \subseteq EventSet /\ EventsTrue = \A e \in inflight : Sound(e)
  BY DEF TypeOK, EventsTrue, Sound
<1>1. ASSUME NEW e \in EventSet, Sound(e) PROVE Sound(e)'
  <2>1. e.val.file \in Files
    BY <1>1 DEF Sound
  <2>2. /\ disk[e.val.file].ver \in Nat
        /\ disk'[e.val.file] = disk[e.val.file] \/ disk'[e.val.file].ver > disk[e.val.file].ver
    BY <2>1, DiskGrows DEF TypeOK
  <2>3. disk'[e.val.file].ver \in Nat
    BY <2>1, <2>2, TypeNext DEF TypeOK
  <2>4. e.watcher \in watchers' \/ watchersNil'
    BY <1>1, WatchersStay DEF Sound
  <2>5. HasPrefix(e.watcher, e.key)' = HasPrefix(e.watcher, e.key)
    BY DEF HasPrefix
  <2>6. e.val.ver \in 1..disk'[e.val.file].ver
    BY <1>1, <2>2, <2>3 DEF Sound
  <2> QED
    BY <1>1, <2>4, <2>5, <2>6 DEF Sound
<1>2. ASSUME NEW e \in inflight', e \notin inflight PROVE e \in EventSet /\ Sound(e)
  <2>1. PICK p \in Pollers : NotifyChanged(p) \/ NotifyDeleted(p)
    BY <1>2, EventsSent
  <2>2. at[p] \in Files
    BY <2>1 DEF TypeOK, NotifyChanged, NotifyDeleted, Threads
  <2>3. CASE e \in UNION PrefixEvents(at[p])
    BY <2>2, <2>3, PrefixEventsSound, PrefixEventsType
  <2>4. CASE \E w \in watchers \cap ExactWatchers :
               ExactTarget[w] \in Affected(at[p]) /\ e = Event(w, ExactTarget[w])
    <3>1. PICK w \in watchers \cap ExactWatchers :
            ExactTarget[w] \in Affected(at[p]) /\ e = Event(w, ExactTarget[w])
      BY <2>4
    <3>2. w \in Watchers /\ w \notin PrefixWatchers /\ ExactTarget[w] \in Keys
      BY <3>1, WatcherAssumption DEF Watchers
    <3> QED
      BY <2>2, <3>1, <3>2, AffectedHeld, EventType
  <2>5. \/ e \in UNION PrefixEvents(at[p])
        \/ \E w \in watchers \cap ExactWatchers :
             ExactTarget[w] \in Affected(at[p]) /\ e = Event(w, ExactTarget[w])
    BY <1>2, <2>1 DEF NotifyChanged, NotifyDeleted
  <2> QED
    BY <2>3, <2>4, <2>5
<1>3. \A e \in inflight' : Sound(e)'
  BY <1>0, <1>1, <1>2
<1> QED
  BY <1>3 DEF EventsTrue, Sound

(* Every event on its way names a key its callback asked for and carries a *)
(* value that a file which may define the key really had, whatever         *)
(* Reloads, Closes, edits and failed Inits interleave with the pollers.    *)
THEOREM EventsAreTrue == Spec => []EventsTrue
<1>1. Init => EventsTrue
  BY DEF Init, EventsTrue
<1> QED
  BY <1>1, EventsTrueNext, TypeCorrect, HeldPast, PTL DEF Spec
===========================================================================
