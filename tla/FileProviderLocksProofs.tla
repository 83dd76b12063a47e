---------------------- MODULE FileProviderLocksProofs ----------------------
(***************************************************************************)
(* What FileProviderLocks promises for any number of clients, pollers,     *)
(* files and callbacks.  A situation is what a goroutine holds; the rules  *)
(* say which lock operation leads from which situation to which, for the   *)
(* calls of the clients and for the pollers, and what is left of an        *)
(* operation always leads to where nothing is held.                        *)
(***************************************************************************)
EXTENDS FileProviderLocks, Paths

Op(act, lock) == [act |-> act, lock |-> lock]

(* Nothing is held; a call reads mu; a lock is held to write; a poller     *)
(* notifies, with mu read once or twice, with and without watcherMutex.    *)
Situations == {"out", "get", "writeMu", "writeW", "note", "note2", "noteW", "noteW2"}

Writes(l) == IF l = "mu" THEN "writeMu" ELSE "writeW"

Reads(l, a) ==
  IF l = "mu"
  THEN IF a \in {"get", "note", "noteW"} THEN 1 ELSE IF a \in {"note2", "noteW2"} THEN 2 ELSE 0
  ELSE IF a \in {"noteW", "noteW2"} THEN 1 ELSE 0

ClientRules ==
  {<<"out", Op("RLock", "mu"), "get">>, <<"get", Op("RUnlock", "mu"), "out">>,
   <<"out", Op("Lock", "mu"), "writeMu">>, <<"writeMu", Op("Unlock", "mu"), "out">>,
   <<"out", Op("Lock", "watcherMutex"), "writeW">>,
   <<"writeW", Op("ensure", "none"), "writeW">>,
   <<"writeW", Op("Unlock", "watcherMutex"), "out">>,
   <<"out", Op("stop", "none"), "out">>, <<"out", Op("wait", "none"), "out">>}

PollerRules ==
  {<<"out", Op("Lock", "mu"), "writeMu">>, <<"writeMu", Op("Unlock", "mu"), "out">>,
   <<"out", Op("RLock", "mu"), "note">>, <<"note", Op("RUnlock", "mu"), "out">>,
   <<"note", Op("RLock", "mu"), "note2">>, <<"note2", Op("RUnlock", "mu"), "note">>,
   <<"note", Op("RLock", "watcherMutex"), "noteW">>,
   <<"noteW", Op("RUnlock", "watcherMutex"), "note">>,
   <<"noteW", Op("RLock", "mu"), "noteW2">>, <<"noteW2", Op("RUnlock", "mu"), "noteW">>}

Rules(t) == IF t \in Clients THEN ClientRules ELSE PollerRules

---------------------------------------------------------------------------
(* What the rules say, operation by operation.                             *)
LEMMA ClientRule ==
  ASSUME NEW a, NEW act, NEW l, NEW b, <<a, Op(act, l), b>> \in ClientRules
  PROVE  \/ act = "RLock" /\ l = "mu" /\ a = "out" /\ b = "get"
         \/ act = "RUnlock" /\ l = "mu" /\ a = "get" /\ b = "out"
         \/ act = "Lock" /\ l \in Locks /\ a = "out" /\ b = Writes(l)
         \/ act = "Unlock" /\ l \in Locks /\ a = Writes(l) /\ b = "out"
         \/ act = "ensure" /\ a = "writeW" /\ b = "writeW"
         \/ act \in {"stop", "wait"} /\ a = "out" /\ b = "out"
BY DEF ClientRules, Op, Locks, Writes

LEMMA PollerRule ==
  ASSUME NEW a, NEW act, NEW l, NEW b, <<a, Op(act, l), b>> \in PollerRules
  PROVE  \/ act = "Lock" /\ l = "mu" /\ a = "out" /\ b = "writeMu"
         \/ act = "Unlock" /\ l = "mu" /\ a = "writeMu" /\ b = "out"
         \/ act = "RLock" /\ l = "mu" /\ a = "out" /\ b = "note"
         \/ act = "RLock" /\ l = "mu" /\ a = "note" /\ b = "note2"
         \/ act = "RLock" /\ l = "mu" /\ a = "noteW" /\ b = "noteW2"
         \/ act = "RLock" /\ l = "watcherMutex" /\ a = "note" /\ b = "noteW"
         \/ act = "RUnlock" /\ l = "mu" /\ a = "note" /\ b = "out"
         \/ act = "RUnlock" /\ l = "mu" /\ a = "note2" /\ b = "note"
         \/ act = "RUnlock" /\ l = "mu" /\ a = "noteW2" /\ b = "noteW"
         \/ act = "RUnlock" /\ l = "watcherMutex" /\ a = "noteW" /\ b = "note"
BY DEF PollerRules, Op

(* Every operation keeps account of what is held.                          *)
LEMMA RuleOf ==
  ASSUME NEW t \in Threads, NEW a, NEW act, NEW l, NEW b, <<a, Op(act, l), b>> \in Rules(t)
  PROVE  /\ a \in Situations /\ b \in Situations
         /\ act \in {"Lock", "Unlock", "RLock", "RUnlock"} => l \in Locks
         /\ act = "Lock" => a = "out" /\ b = Writes(l)
         /\ act = "Unlock" => a = Writes(l) /\ b = "out"
         /\ act = "RLock" => /\ a \notin {"writeMu", "writeW", "get"} /\ b \notin {"writeMu", "writeW"}
                             /\ \A m \in Locks : Reads(m, b) = Reads(m, a) + IF m = l THEN 1 ELSE 0
         /\ act = "RUnlock" => /\ b \notin {"writeMu", "writeW"}
                               /\ a \notin {"writeMu", "writeW"}
                               /\ \A m \in Locks : Reads(m, a) = Reads(m, b) + IF m = l THEN 1 ELSE 0
         /\ act \in {"stop", "wait", "ensure"} => a = b /\ a \in {"out", "writeW"}
<1>1. CASE t \in Clients
  BY <1>1, ClientRule DEF Rules, Situations, Locks, Reads, Writes
<1>2. CASE t \notin Clients
  BY <1>2, PollerRule DEF Rules, Situations, Locks, Reads, Writes
<1> QED
  BY <1>1, <1>2

---------------------------------------------------------------------------
(* Every operation leads from nothing to nothing.                          *)
LEMMA DoLeads ==
  ASSUME NEW R, NEW a, NEW act, NEW l, NEW b, <<a, Op(act, l), b>> \in R
  PROVE  Leads(R, Do(act, l), a, b)
<1>1. Do(act, l) = <<Op(act, l)>>
  BY DEF Do, Op
<1> QED
  BY <1>1, LeadsStep

LEMMA LockedLeads ==
  ASSUME NEW R, NEW a, NEW l, NEW b, NEW c, <<a, Op("Lock", l), b>> \in R, <<b, Op("Unlock", l), c>> \in R
  PROVE  Leads(R, Locked(l), a, c)
BY DoLeads, LeadsOn DEF Locked

LEMMA RLockedLeads ==
  ASSUME NEW R, NEW a, NEW l, NEW body, NEW b, NEW c, NEW d,
         <<a, Op("RLock", l), b>> \in R, Leads(R, body, b, c), <<c, Op("RUnlock", l), d>> \in R
  PROVE  Leads(R, RLocked(l, body), a, d)
<1>1. Leads(R, Do("RLock", l), a, b) /\ Leads(R, Do("RUnlock", l), c, d)
  BY DoLeads
<1>2. Leads(R, Do("RLock", l) \o body, a, c)
  BY <1>1, LeadsOn
<1> QED
  BY <1>1, <1>2, LeadsOn DEF RLocked

LEMMA TimesLeads ==
  ASSUME NEW R, NEW s, NEW a, Leads(R, s, a, a), NEW n \in Nat
  PROVE  Leads(R, Times(n, s), a, a)
<1> DEFINE seqs == [i \in 1..n |-> s]
<1>1. s \in Seq(Steps(R))
  BY DEF Leads
<1>2. seqs \in Seq(Seq(Steps(R))) /\ Len(seqs) = n /\ \A i \in 1..Len(seqs) : seqs[i] = s
  BY <1>1
<1> HIDE DEF seqs
<1>3. Leads(R, FlattenSeq(seqs), a, a)
  BY <1>2, LeadsRepeat
<1> QED
  BY <1>3 DEF Times, seqs

LEMMA LoadLeads ==
  ASSUME NEW R \in {ClientRules, PollerRules}, NEW n \in Nat
  PROVE  Leads(R, Locked("mu"), "out", "out") /\ Leads(R, loadFiles(n), "out", "out")
<1>1. <<"out", Op("Lock", "mu"), "writeMu">> \in R /\ <<"writeMu", Op("Unlock", "mu"), "out">> \in R
  BY DEF ClientRules, PollerRules
<1>2. Leads(R, Locked("mu"), "out", "out")
  BY <1>1, LockedLeads
<1> QED
  BY <1>2, TimesLeads DEF loadFiles

LEMMA ProgramLeads ==
  ASSUME NEW name \in Calls, NEW p \in Program(name)
  PROVE  Leads(ClientRules, p, "out", "out")
<1> USE DEF ClientRules
<1>1. name \in {"Get", "Watch", "Cancel", "Reload", "Close"}
  BY LockAssumption
<1>2. Leads(ClientRules, RLocked("mu", <<>>), "out", "out")
  <2>1. Leads(ClientRules, <<>>, "get", "get")
    BY LeadsEmpty
  <2>2. /\ <<"out", Op("RLock", "mu"), "get">> \in ClientRules
        /\ <<"get", Op("RUnlock", "mu"), "out">> \in ClientRules
    OBVIOUS
  <2> HIDE DEF ClientRules
  <2> QED
    BY <2>1, <2>2, RLockedLeads
<1>3. /\ <<"out", Op("Lock", "watcherMutex"), "writeW">> \in ClientRules
      /\ <<"writeW", Op("ensure", "none"), "writeW">> \in ClientRules
      /\ <<"writeW", Op("Unlock", "watcherMutex"), "out">> \in ClientRules
      /\ <<"out", Op("stop", "none"), "out">> \in ClientRules
      /\ <<"out", Op("wait", "none"), "out">> \in ClientRules
  OBVIOUS
<1> HIDE DEF ClientRules
<1>4. Leads(ClientRules, Locked("watcherMutex"), "out", "out")
  BY <1>3, LockedLeads
<1>5. CASE name = "Get"
  BY <1>2, <1>5 DEF Program
<1>6. CASE name = "Watch"
  <2>1. p = RLocked("mu", <<>>) \o Do("Lock", "watcherMutex") \o
              Do("ensure", "none") \o Do("Unlock", "watcherMutex")
    BY <1>6 DEF Program
  <2>2. /\ Leads(ClientRules, Do("Lock", "watcherMutex"), "out", "writeW")
        /\ Leads(ClientRules, Do("ensure", "none"), "writeW", "writeW")
        /\ Leads(ClientRules, Do("Unlock", "watcherMutex"), "writeW", "out")
    BY <1>3, DoLeads
  <2>3. Leads(ClientRules, RLocked("mu", <<>>) \o Do("Lock", "watcherMutex"), "out", "writeW")
    BY <1>2, <2>2, LeadsOn
  <2>4. Leads(ClientRules, RLocked("mu", <<>>) \o Do("Lock", "watcherMutex") \o Do("ensure", "none"),
              "out", "writeW")
    BY <2>2, <2>3, LeadsOn
  <2> QED
    BY <2>1, <2>2, <2>4, LeadsOn
<1>7. CASE name = "Cancel"
  BY <1>4, <1>7 DEF Program
<1>8. CASE name = "Reload"
  <2>1. PICK n \in Hits : p = Locked("mu") \o loadFiles(n)
    BY <1>8 DEF Program
  <2>2. n \in Nat
    BY LockAssumption DEF Hits
  <2> QED
    BY <2>1, <2>2, LoadLeads, LeadsOn
<1>9. CASE name = "Close"
  <2>1. p = Do("stop", "none") \o Do("wait", "none") \o Locked("watcherMutex") \o Locked("mu")
    BY <1>9 DEF Program
  <2>2. Leads(ClientRules, Do("stop", "none") \o Do("wait", "none"), "out", "out")
    BY <1>3, DoLeads, LeadsOn
  <2>3. Leads(ClientRules, Do("stop", "none") \o Do("wait", "none") \o Locked("watcherMutex"), "out", "out")
    BY <1>4, <2>2, LeadsOn
  <2>4. Leads(ClientRules, Locked("mu"), "out", "out")
    BY LoadLeads
  <2> QED
    BY <2>1, <2>3, <2>4, LeadsOn
<1> QED
  BY <1>1, <1>5, <1>6, <1>7, <1>8, <1>9

LEMMA PollingLeads == \A q \in Polling : Leads(PollerRules, q, "out", "out")
<1>1. /\ <<"note", Op("RLock", "watcherMutex"), "noteW">> \in PollerRules
      /\ <<"noteW", Op("RUnlock", "watcherMutex"), "note">> \in PollerRules
      /\ <<"noteW", Op("RLock", "mu"), "noteW2">> \in PollerRules
      /\ <<"noteW2", Op("RUnlock", "mu"), "noteW">> \in PollerRules
      /\ <<"note", Op("RLock", "mu"), "note2">> \in PollerRules
      /\ <<"note2", Op("RUnlock", "mu"), "note">> \in PollerRules
      /\ <<"out", Op("RLock", "mu"), "note">> \in PollerRules
      /\ <<"note", Op("RUnlock", "mu"), "out">> \in PollerRules
  BY DEF PollerRules
<1>2. \A a : Leads(PollerRules, <<>>, a, a)
  BY LeadsEmpty
<1>3. /\ Leads(PollerRules, RLocked("mu", <<>>), "note", "note")
      /\ Leads(PollerRules, RLocked("mu", <<>>), "noteW", "noteW")
      /\ Leads(PollerRules, TriggerMiss, "note", "note")
  BY <1>1, <1>2, RLockedLeads DEF TriggerMiss
<1>4. Leads(PollerRules, TriggerHit, "note", "note")
  BY <1>3, LeadsOn DEF TriggerHit, TriggerMiss
<1>5. \A x \in Nat : Leads(PollerRules, triggerPrefixWatchers(x), "note", "note")
  BY <1>1, <1>3, TimesLeads, RLockedLeads DEF triggerPrefixWatchers
<1>6. ASSUME NEW h \in Nat, NEW x \in Nat PROVE Leads(PollerRules, notifyKeyChanged(h, x), "out", "out")
  <2>1. Leads(PollerRules, Times(h, TriggerHit), "note", "note")
    BY <1>4, TimesLeads
  <2>2. Leads(PollerRules, TriggerMiss \o Times(h, TriggerHit), "note", "note")
    BY <1>3, <2>1, LeadsOn
  <2>3. Leads(PollerRules, TriggerMiss \o Times(h, TriggerHit) \o triggerPrefixWatchers(x), "note", "note")
    BY <1>5, <2>2, LeadsOn
  <2> QED
    BY <1>1, <2>3, RLockedLeads DEF notifyKeyChanged
<1>7. ASSUME NEW x \in Nat PROVE Leads(PollerRules, notifyKeyDeleted(x), "out", "out")
  BY <1>1, <1>5, RLockedLeads DEF notifyKeyDeleted
<1>8. \A h \in Hits : h \in Nat
  BY LockAssumption DEF Hits
<1>9. Leads(PollerRules, loadFiles(1), "out", "out")
  BY LoadLeads
<1>10. \A h, x \in Hits : Leads(PollerRules, loadFiles(1) \o notifyKeyChanged(h, x), "out", "out")
  BY <1>6, <1>8, <1>9, LeadsOn
<1>11. \A x \in Hits : Leads(PollerRules, notifyKeyDeleted(x), "out", "out")
  BY <1>7, <1>8
<1> SUFFICES ASSUME NEW q \in Polling PROVE Leads(PollerRules, q, "out", "out")
  OBVIOUS
<1>12. CASE q \in {loadFiles(1) \o notifyKeyChanged(h, x) : h, x \in Hits}
  <2>1. PICK h \in Hits, x \in Hits : q = loadFiles(1) \o notifyKeyChanged(h, x)
    BY <1>12
  <2> QED
    BY <1>10, <2>1
<1>13. CASE q \in {notifyKeyDeleted(x) : x \in Hits}
  BY <1>11, <1>13
<1> QED
  BY <1>12, <1>13 DEF Polling

---------------------------------------------------------------------------
(* The inductive invariant.  What is left of an operation leads on from    *)
(* where the goroutine is.                                                 *)
Programs(at) ==
  /\ DOMAIN todo = Threads
  /\ \A t \in Threads : Leads(Rules(t), todo[t], at[t], "out")

(* The situations say who holds which lock; a writer that does not hold it *)
(* yet, and a reader in the queue, ask for it.                             *)
Mutexes(at) ==
  /\ writer \in [Locks -> Threads \cup {Nobody}]
  /\ queued \in [Locks -> SUBSET Threads]
  /\ reads = [l \in Locks |-> [t \in Threads |-> Reads(l, at[t])]]
  /\ \A l \in Locks, t \in Threads :
       at[t] = Writes(l) => writer[l] = t /\ \A r \in Threads : Reads(l, at[r]) = 0
  /\ \A l \in Locks, t \in Threads : writer[l] = t => at[t] = Writes(l) \/ Next0(t, "Lock", l)
  /\ \A l \in Locks, t \in Threads :
       t \in queued[l] => Next0(t, "RLock", l) /\ writer[l] # Nobody

Idle == \A c \in Clients : call[c] = "none" => todo[c] = <<>>

Placed(at) ==
  /\ at \in [Threads -> Situations]
  /\ Programs(at) /\ Mutexes(at) /\ Idle /\ DOMAIN call = Clients /\ live \subseteq Pollers

Inv == \E at : Placed(at)

LEMMA InvInit == Init => Inv
<1> SUFFICES ASSUME Init PROVE Inv
  OBVIOUS
<1> DEFINE at == [t \in Threads |-> "out"]
<1> USE LockAssumption DEF Init
<1>1. at \in [Threads -> Situations]
  BY DEF Situations
<1>2. Programs(at)
  BY LeadsEmpty DEF Programs
<1>3. Mutexes(at)
  BY DEF Mutexes, Reads, Writes, Locks
<1>4. Idle /\ live \subseteq Pollers /\ DOMAIN call = Clients
  BY DEF Idle, Threads
<1> QED
  BY <1>1, <1>2, <1>3, <1>4 DEF Inv, Placed

(* What the goroutines T are about to do, and where it takes them.         *)
AllMoved(at, T, new) ==
  /\ new \in [Threads -> Situations]
  /\ Programs(new)'
  /\ \A u \in Threads : IF u \in T THEN <<at[u], Head(todo[u]), new[u]>> \in Rules(u)
                        ELSE new[u] = at[u] /\ todo'[u] = todo[u]

LEMMA Onward ==
  ASSUME NEW at, Placed(at), NEW T \in SUBSET Threads, \A u \in T : todo[u] # <<>>, Advance(T)
  PROVE  \E new : AllMoved(at, T, new)
<1> DEFINE P(u, b) == /\ Leads(Rules(u), todo'[u], b, "out")
                      /\ b \in Situations
                      /\ IF u \in T THEN <<at[u], Head(todo[u]), b>> \in Rules(u)
                         ELSE b = at[u] /\ todo'[u] = todo[u]
<1>1. ASSUME NEW u \in Threads PROVE \E b : P(u, b)
  <2>1. Leads(Rules(u), todo[u], at[u], "out") /\ at[u] \in Situations
    BY DEF Placed, Programs
  <2>2. CASE u \in T
    <3>1. todo'[u] = Tail(todo[u])
      BY <2>2 DEF Advance
    <3>2. PICK b : <<at[u], Head(todo[u]), b>> \in Rules(u) /\ Leads(Rules(u), Tail(todo[u]), b, "out")
      BY <2>1, <2>2, LeadsTail
    <3>3. b \in Situations
      BY <3>2 DEF Rules, ClientRules, PollerRules, Situations
    <3> QED
      BY <2>2, <3>1, <3>2, <3>3
  <2>3. CASE u \notin T
    BY <2>1, <2>3 DEF Advance
  <2> QED
    BY <2>2, <2>3
<1> HIDE DEF P
<1>2. \E new \in [Threads -> Situations] : \A u \in Threads : P(u, new[u])
  <2> DEFINE f == [u \in Threads |-> CHOOSE b : P(u, b)]
  <2>1. \A u \in Threads : P(u, f[u])
    BY <1>1
  <2>2. f \in [Threads -> Situations]
    BY <2>1 DEF P
  <2> QED
    BY <2>1, <2>2
<1>3. PICK new : new \in [Threads -> Situations] /\ \A u \in Threads : P(u, new[u])
  BY <1>2
<1>4. DOMAIN todo' = Threads
  BY DEF Advance
<1>5. Programs(new)'
  BY <1>3, <1>4 DEF Programs, P, Rules
<1> QED
  BY <1>3, <1>5 DEF P, AllMoved

(* A goroutine with nothing left to do holds nothing.                      *)
LEMMA EndsOut ==
  ASSUME NEW at, Placed(at), NEW t \in Threads, todo[t] = <<>>
  PROVE  at[t] = "out"
BY LeadsNowhere DEF Placed, Programs

(* What t is about to do, by the rules.                                    *)
LEMMA AboutRule ==
  ASSUME NEW at, Placed(at), NEW t \in Threads, NEW act, NEW l, Next0(t, act, l)
  PROVE  \E b : <<at[t], Op(act, l), b>> \in Rules(t)
<1>1. todo[t] # <<>> /\ Head(todo[t]) = Op(act, l)
  BY DEF Next0, Op
<1> QED
  BY <1>1, LeadsTail DEF Placed, Programs

(* A single goroutine goes on.                                             *)
Moved(at, t, x, new) ==
  /\ new \in [Threads -> Situations]
  /\ Programs(new)'
  /\ <<at[t], x, new[t]>> \in Rules(t)
  /\ \A u \in Threads \ {t} : new[u] = at[u] /\ todo'[u] = todo[u]

LEMMA OneMoves ==
  ASSUME NEW at, Placed(at), NEW t \in Threads, NEW act, NEW l, Next0(t, act, l), Advance({t})
  PROVE  \E new : Moved(at, t, Op(act, l), new)
<1>1. todo[t] # <<>> /\ Head(todo[t]) = Op(act, l)
  BY DEF Next0, Op
<1>2. {t} \in SUBSET Threads /\ \A u \in {t} : todo[u] # <<>>
  BY <1>1
<1>3. PICK new : AllMoved(at, {t}, new)
  BY <1>2, Onward
<1> QED
  BY <1>1, <1>3 DEF AllMoved, Moved

(* The read locks, when t has taken or given back one of l.                *)
Reread(at, t, l, new) ==
  /\ reads' = [reads EXCEPT ![l][t] = Reads(l, new[t])]
  /\ \A u \in Threads \ {t} : new[u] = at[u]
  /\ \A m \in Locks \ {l} : Reads(m, new[t]) = Reads(m, at[t])

LEMMA ReadsNext ==
  ASSUME NEW at, Placed(at), NEW t \in Threads, NEW l \in Locks, NEW new, Reread(at, t, l, new)
  PROVE  reads' = [m \in Locks |-> [u \in Threads |-> Reads(m, new[u])]]
<1> USE DEF Reread
<1>1. reads = [m \in Locks |-> [u \in Threads |-> Reads(m, at[u])]]
  BY DEF Placed, Mutexes
<1>2. ASSUME NEW m \in Locks PROVE reads'[m] = [u \in Threads |-> Reads(m, new[u])]
  <2>1. CASE m = l
    BY <1>1, <2>1
  <2>2. CASE m # l
    BY <1>1, <2>2
  <2> QED
    BY <2>1, <2>2
<1>3. reads' = [m \in Locks |-> reads'[m]]
  BY <1>1
<1> QED
  BY <1>2, <1>3

(* The queues and the announced writers, when only t has moved.            *)
LEMMA OthersAsk ==
  ASSUME NEW t \in Threads, \A u \in Threads \ {t} : todo'[u] = todo[u]
  PROVE  \A u \in Threads \ {t} : \A act, l : Next0(u, act, l)' <=> Next0(u, act, l)
BY DEF Next0

LEMMA IdleNext ==
  ASSUME NEW at, Placed(at), NEW T \in SUBSET Threads, \A u \in T : todo[u] # <<>>, Advance(T),
         UNCHANGED call
  PROVE  Idle'
BY DEF Placed, Idle, Advance, Threads

---------------------------------------------------------------------------
(* The steps.                                                              *)
LEMMA RLockStep ==
  ASSUME NEW at, Placed(at), NEW t \in Threads, NEW l \in Locks, RLock(t, l)
  PROVE  \E new : Placed(new)'
<1> USE DEF RLock
<1>1. CASE writer[l] = Nobody
  <2>1. /\ Next0(t, "RLock", l) /\ Advance({t}) /\ UNCHANGED <<queued, writer, call, live>>
        /\ reads' = [reads EXCEPT ![l][t] = reads[l][t] + 1]
    BY <1>1
  <2> HIDE DEF RLock
  <2>0. PICK new : Moved(at, t, Op("RLock", l), new)
    BY <2>1, OneMoves
  <2>2. /\ new \in [Threads -> Situations]
        /\ Programs(new)'
        /\ <<at[t], Op("RLock", l), new[t]>> \in Rules(t)
        /\ \A u \in Threads \ {t} : new[u] = at[u] /\ todo'[u] = todo[u]
    BY <2>0 DEF Moved
  <2>3. /\ at[t] \notin {"writeMu", "writeW"} /\ new[t] \notin {"writeMu", "writeW"}
        /\ \A m \in Locks : Reads(m, new[t]) = Reads(m, at[t]) + IF m = l THEN 1 ELSE 0
    BY <2>2, RuleOf
  <2>4. reads' = [m \in Locks |-> [u \in Threads |-> Reads(m, new[u])]]
    <3>1. reads[l][t] = Reads(l, at[t])
      BY DEF Placed, Mutexes
    <3>2. /\ \A m \in Locks : Reads(m, at[t]) \in 0..2
          /\ reads[l][t] + 1 = Reads(l, new[t])
          /\ \A m \in Locks \ {l} : Reads(m, new[t]) = Reads(m, at[t])
      BY <2>3, <3>1 DEF Reads
    <3>3. reads' = [reads EXCEPT ![l][t] = Reads(l, new[t])]
      BY <2>1, <3>2
    <3>4. \A u \in Threads \ {t} : new[u] = at[u]
      BY <2>2
    <3>5. \A m \in Locks \ {l} : Reads(m, new[t]) = Reads(m, at[t])
      BY <3>2
    <3>6. Reread(at, t, l, new)
      BY <3>3, <3>4, <3>5 DEF Reread
    <3> QED
      BY <3>6, ReadsNext
  <2>5. ASSUME NEW m \in Locks, NEW u \in Threads, new[u] = Writes(m)
        PROVE  writer[m] = u /\ \A r \in Threads : Reads(m, new[r]) = 0
    <3>1. u # t /\ at[u] = Writes(m)
      BY <2>2, <2>3, <2>5 DEF Writes
    <3>2. writer[m] = u /\ \A r \in Threads : Reads(m, at[r]) = 0
      BY <3>1 DEF Placed, Mutexes
    <3>3. m # l
      BY <1>1, <3>2, LockAssumption
    <3> QED
      BY <2>2, <2>3, <3>2, <3>3 DEF Reads
  <2>6. ASSUME NEW m \in Locks, NEW u \in Threads, writer[m] = u
        PROVE  new[u] = Writes(m) \/ Next0(u, "Lock", m)'
    <3>1. u # t
      <4>1. at[u] = Writes(m) \/ Next0(u, "Lock", m)
        BY <2>6 DEF Placed, Mutexes
      <4> QED
        BY <2>1, <2>3, <4>1 DEF Next0, Writes
    <3> QED
      BY <2>2, <2>6, <3>1, OthersAsk DEF Placed, Mutexes
  <2>7. ASSUME NEW m \in Locks, NEW u \in Threads, u \in queued[m]
        PROVE  Next0(u, "RLock", m)' /\ writer[m] # Nobody
    <3>1. Next0(u, "RLock", m) /\ writer[m] # Nobody
      BY <2>7 DEF Placed, Mutexes
    <3>2. u # t
      <4>1. CASE m = l
        BY <1>1, <3>1, <4>1
      <4>2. CASE m # l
        BY <2>1, <3>1, <4>2 DEF Next0
      <4> QED
        BY <4>1, <4>2
    <3> QED
      BY <2>2, <3>1, <3>2, OthersAsk
  <2>8. Mutexes(new)'
    <3>1. writer' = writer /\ queued' = queued
      BY <2>1
    <3> QED
      BY <2>4, <2>5, <2>6, <2>7, <3>1 DEF Placed, Mutexes
  <2>9. Idle'
    BY <2>1, IdleNext DEF Next0
  <2> QED
    BY <2>1, <2>2, <2>8, <2>9 DEF Placed
<1>2. CASE writer[l] # Nobody
  <2>1. /\ queued' = [queued EXCEPT ![l] = @ \cup {t}]
        /\ UNCHANGED <<reads, todo, call, writer, live>>
    BY <1>2
  <2>2. Programs(at)' /\ Idle' /\ DOMAIN call' = Clients /\ live' \subseteq Pollers
    BY <2>1 DEF Placed, Programs, Idle
  <2>3. \A u, act, m : Next0(u, act, m)' <=> Next0(u, act, m)
    BY <2>1 DEF Next0
  <2>4. Mutexes(at)'
    BY <1>2, <2>1, <2>3 DEF Placed, Mutexes
  <2> QED
    BY <2>2, <2>4 DEF Placed
<1> QED
  BY <1>1, <1>2

LEMMA RUnlockStep ==
  ASSUME NEW at, Placed(at), NEW t \in Threads, NEW l \in Locks, RUnlock(t, l)
  PROVE  \E new : Placed(new)'
<1> USE DEF RUnlock
<1>1. /\ Next0(t, "RUnlock", l) /\ Advance({t}) /\ UNCHANGED <<queued, writer, call, live>>
      /\ reads' = [reads EXCEPT ![l][t] = reads[l][t] - 1]
  OBVIOUS
<1> HIDE DEF RUnlock
<1>0. PICK new : Moved(at, t, Op("RUnlock", l), new)
  BY <1>1, OneMoves
<1>2. /\ new \in [Threads -> Situations]
      /\ Programs(new)'
      /\ <<at[t], Op("RUnlock", l), new[t]>> \in Rules(t)
      /\ \A u \in Threads \ {t} : new[u] = at[u] /\ todo'[u] = todo[u]
  BY <1>0 DEF Moved
<1>3. /\ at[t] \notin {"writeMu", "writeW"} /\ new[t] \notin {"writeMu", "writeW"}
      /\ \A m \in Locks : Reads(m, at[t]) = Reads(m, new[t]) + IF m = l THEN 1 ELSE 0
  BY <1>2, RuleOf
<1>4. \A m \in Locks : \A a : Reads(m, a) \in 0..2
  BY DEF Reads
<1>5. reads' = [m \in Locks |-> [u \in Threads |-> Reads(m, new[u])]]
  <2>1. reads[l][t] = Reads(l, at[t])
    BY DEF Placed, Mutexes
  <2>2. /\ reads[l][t] - 1 = Reads(l, new[t])
        /\ \A m \in Locks \ {l} : Reads(m, new[t]) = Reads(m, at[t])
    BY <1>3, <1>4, <2>1
  <2>3. reads' = [reads EXCEPT ![l][t] = Reads(l, new[t])]
    BY <1>1, <2>2
  <2>4. \A u \in Threads \ {t} : new[u] = at[u]
    BY <1>2
  <2>5. \A m \in Locks \ {l} : Reads(m, new[t]) = Reads(m, at[t])
    BY <2>2
  <2>6. Reread(at, t, l, new)
    BY <2>3, <2>4, <2>5 DEF Reread
  <2> QED
    BY <2>6, ReadsNext
<1>6. ASSUME NEW m \in Locks, NEW u \in Threads, new[u] = Writes(m)
      PROVE  writer[m] = u /\ \A r \in Threads : Reads(m, new[r]) = 0
  <2>1. u # t /\ at[u] = Writes(m)
    BY <1>2, <1>3, <1>6 DEF Writes
  <2>2. writer[m] = u /\ \A r \in Threads : Reads(m, at[r]) = 0
    BY <2>1 DEF Placed, Mutexes
  <2>3. Reads(m, new[t]) = 0
    BY <1>3, <1>4, <2>2
  <2> QED
    BY <1>2, <2>2, <2>3
<1>7. ASSUME NEW m \in Locks, NEW u \in Threads, writer[m] = u
      PROVE  new[u] = Writes(m) \/ Next0(u, "Lock", m)'
  <2>1. u # t
    <3>1. at[u] = Writes(m) \/ Next0(u, "Lock", m)
      BY <1>7 DEF Placed, Mutexes
    <3> QED
      BY <1>1, <1>3, <3>1 DEF Next0, Writes
  <2> QED
    BY <1>2, <1>7, <2>1, OthersAsk DEF Placed, Mutexes
<1>8. ASSUME NEW m \in Locks, NEW u \in Threads, u \in queued[m]
      PROVE  Next0(u, "RLock", m)' /\ writer[m] # Nobody
  <2>1. Next0(u, "RLock", m) /\ writer[m] # Nobody
    BY <1>8 DEF Placed, Mutexes
  <2>2. u # t
    BY <1>1, <2>1 DEF Next0
  <2> QED
    BY <1>2, <2>1, <2>2, OthersAsk
<1>9. Mutexes(new)'
  BY <1>1, <1>5, <1>6, <1>7, <1>8 DEF Placed, Mutexes
<1>10. Idle'
  BY <1>1, IdleNext DEF Next0
<1> QED
  BY <1>1, <1>2, <1>9, <1>10 DEF Placed

LEMMA AnnounceStep ==
  ASSUME NEW at, Placed(at), NEW t \in Threads, NEW l \in Locks, Announce(t, l)
  PROVE  Placed(at)'
<1>1. /\ Next0(t, "Lock", l) /\ writer[l] = Nobody /\ writer' = [writer EXCEPT ![l] = t]
      /\ UNCHANGED <<todo, call, reads, queued, live>>
  BY DEF Announce
<1>2. Programs(at)' /\ Idle' /\ DOMAIN call' = Clients /\ live' \subseteq Pollers
  BY <1>1 DEF Placed, Programs, Idle
<1>3. \A u, act, m : Next0(u, act, m)' <=> Next0(u, act, m)
  BY <1>1 DEF Next0
<1>4. \A m \in Locks, u \in Threads :
        at[u] = Writes(m) => writer'[m] = u /\ \A r \in Threads : Reads(m, at[r]) = 0
  BY <1>1, LockAssumption DEF Placed, Mutexes
<1>5. \A m \in Locks, u \in Threads : writer'[m] = u => at[u] = Writes(m) \/ Next0(u, "Lock", m)'
  BY <1>1, <1>3 DEF Placed, Mutexes
<1>6. \A m \in Locks, u \in Threads : u \in queued'[m] => Next0(u, "RLock", m)' /\ writer'[m] # Nobody
  BY <1>1, <1>3 DEF Placed, Mutexes
<1>7. Mutexes(at)'
  BY <1>1, <1>4, <1>5, <1>6 DEF Placed, Mutexes
<1> QED
  BY <1>1, <1>2, <1>7 DEF Placed

LEMMA WriteLockStep ==
  ASSUME NEW at, Placed(at), NEW t \in Threads, NEW l \in Locks, Lock(t, l)
  PROVE  \E new : Placed(new)'
<1>1. /\ Next0(t, "Lock", l) /\ writer[l] = t /\ Advance({t})
      /\ \A r \in Threads : reads[l][r] = 0
      /\ UNCHANGED <<call, writer, reads, queued, live>>
  BY DEF Lock
<1>0. PICK new : Moved(at, t, Op("Lock", l), new)
  BY <1>1, OneMoves
<1>2. /\ new \in [Threads -> Situations]
      /\ Programs(new)'
      /\ <<at[t], Op("Lock", l), new[t]>> \in Rules(t)
      /\ \A u \in Threads \ {t} : new[u] = at[u] /\ todo'[u] = todo[u]
  BY <1>0 DEF Moved
<1>3. at[t] = "out" /\ new[t] = Writes(l)
  BY <1>2, RuleOf
<1>4. \A m \in Locks, u \in Threads : Reads(m, new[u]) = Reads(m, at[u])
  BY <1>2, <1>3 DEF Reads, Writes
<1>5. reads' = [m \in Locks |-> [u \in Threads |-> Reads(m, new[u])]]
  BY <1>1, <1>4 DEF Placed, Mutexes
<1>6. ASSUME NEW m \in Locks, NEW u \in Threads, new[u] = Writes(m)
      PROVE  writer[m] = u /\ \A r \in Threads : Reads(m, new[r]) = 0
  <2>1. CASE u = t
    <3>1. m = l
      BY <1>3, <1>6, <2>1 DEF Writes, Locks
    <3>2. \A r \in Threads : Reads(l, at[r]) = 0
      BY <1>1 DEF Placed, Mutexes
    <3> QED
      BY <1>1, <1>4, <2>1, <3>1, <3>2
  <2>2. CASE u # t
    <3>1. at[u] = Writes(m)
      BY <1>2, <1>6, <2>2
    <3> QED
      BY <1>4, <3>1 DEF Placed, Mutexes
  <2> QED
    BY <2>1, <2>2
<1>7. ASSUME NEW m \in Locks, NEW u \in Threads, writer[m] = u
      PROVE  new[u] = Writes(m) \/ Next0(u, "Lock", m)'
  <2>1. at[u] = Writes(m) \/ Next0(u, "Lock", m)
    BY <1>7 DEF Placed, Mutexes
  <2>2. CASE u = t
    <3>1. Next0(t, "Lock", m)
      BY <1>3, <2>1, <2>2 DEF Writes
    <3> QED
      BY <1>1, <1>3, <2>2, <3>1 DEF Next0
  <2>3. CASE u # t
    BY <1>2, <2>1, <2>3, OthersAsk
  <2> QED
    BY <2>2, <2>3
<1>8. ASSUME NEW m \in Locks, NEW u \in Threads, u \in queued[m]
      PROVE  Next0(u, "RLock", m)' /\ writer[m] # Nobody
  <2>1. Next0(u, "RLock", m) /\ writer[m] # Nobody
    BY <1>8 DEF Placed, Mutexes
  <2>2. u # t
    BY <1>1, <2>1 DEF Next0
  <2> QED
    BY <1>2, <2>1, <2>2, OthersAsk
<1>9. Mutexes(new)'
  BY <1>1, <1>5, <1>6, <1>7, <1>8 DEF Placed, Mutexes
<1>10. Idle'
  BY <1>1, IdleNext DEF Next0
<1> QED
  BY <1>1, <1>2, <1>9, <1>10 DEF Placed

(* The readers that wait for the writer go on with it.                     *)
LEMMA UnlockStep ==
  ASSUME NEW at, Placed(at), NEW t \in Threads, NEW l \in Locks, Unlock(t, l)
  PROVE  \E new : Placed(new)'
<1> DEFINE T == {t} \cup queued[l]
<1>1. /\ Next0(t, "Unlock", l)
      /\ writer' = [writer EXCEPT ![l] = Nobody]
      /\ queued' = [queued EXCEPT ![l] = {}]
      /\ reads' = [reads EXCEPT ![l] =
                     [r \in Threads |-> IF r \in queued[l] THEN reads[l][r] + 1 ELSE reads[l][r]]]
      /\ Advance(T)
      /\ UNCHANGED <<call, live>>
  BY DEF Unlock
<1>2. queued[l] \subseteq Threads /\ \A u \in queued[l] : Next0(u, "RLock", l)
  BY DEF Placed, Mutexes
<1>3. T \in SUBSET Threads /\ \A u \in T : todo[u] # <<>>
  BY <1>1, <1>2 DEF Next0
<1>4. /\ Head(todo[t]) = Op("Unlock", l)
      /\ \A u \in queued[l] : Head(todo[u]) = Op("RLock", l)
      /\ t \notin queued[l]
  BY <1>1, <1>2 DEF Next0, Op
<1> HIDE DEF T
<1>0. PICK new : AllMoved(at, T, new)
  BY <1>1, <1>3, Onward
<1>5. /\ new \in [Threads -> Situations]
      /\ Programs(new)'
      /\ \A u \in Threads : IF u \in T THEN <<at[u], Head(todo[u]), new[u]>> \in Rules(u)
                            ELSE new[u] = at[u] /\ todo'[u] = todo[u]
  BY <1>0 DEF AllMoved
<1>6. at[t] = Writes(l) /\ new[t] = "out"
  <2>1. <<at[t], Op("Unlock", l), new[t]>> \in Rules(t)
    BY <1>4, <1>5 DEF T
  <2> QED
    BY <2>1, RuleOf
<1>7. ASSUME NEW u \in queued[l]
      PROVE  /\ at[u] \notin {"writeMu", "writeW"} /\ new[u] \notin {"writeMu", "writeW"}
             /\ \A m \in Locks : Reads(m, new[u]) = Reads(m, at[u]) + IF m = l THEN 1 ELSE 0
  <2>1. u \in Threads /\ <<at[u], Op("RLock", l), new[u]>> \in Rules(u)
    BY <1>2, <1>4, <1>5 DEF T
  <2> QED
    BY <2>1, RuleOf
<1>8. ASSUME NEW u \in Threads, u \notin T
      PROVE  new[u] = at[u] /\ todo'[u] = todo[u] /\ u # t /\ u \notin queued[l]
  BY <1>5, <1>8 DEF T
<1>9. \A m \in Locks : \A a : Reads(m, a) \in 0..2
  BY DEF Reads
<1>10. \A m \in Locks : Reads(m, "out") = 0 /\ Reads(m, Writes(l)) = 0
  BY DEF Reads, Writes
<1>11. \A m \in Locks, u \in Threads :
         Reads(m, new[u]) = IF m = l /\ u \in queued[l] THEN Reads(m, at[u]) + 1 ELSE Reads(m, at[u])
  <2> SUFFICES ASSUME NEW m \in Locks, NEW u \in Threads
               PROVE  Reads(m, new[u]) = IF m = l /\ u \in queued[l] THEN Reads(m, at[u]) + 1
                                         ELSE Reads(m, at[u])
    OBVIOUS
  <2>1. CASE u = t
    BY <1>4, <1>6, <1>10, <2>1
  <2>2. CASE u \in queued[l]
    BY <1>7, <1>9, <2>2
  <2>3. CASE u \notin T
    BY <1>8, <2>3
  <2> QED
    BY <2>1, <2>2, <2>3 DEF T
<1>12. reads' = [m \in Locks |-> [u \in Threads |-> Reads(m, new[u])]]
  <2>1. reads = [m \in Locks |-> [u \in Threads |-> Reads(m, at[u])]]
    BY DEF Placed, Mutexes
  <2>2. ASSUME NEW m \in Locks PROVE reads'[m] = [u \in Threads |-> Reads(m, new[u])]
    <3>1. CASE m = l
      BY <1>1, <1>11, <2>1, <3>1
    <3>2. CASE m # l
      BY <1>1, <1>11, <2>1, <3>2
    <3> QED
      BY <3>1, <3>2
  <2>3. reads' = [m \in Locks |-> reads'[m]]
    BY <1>1, <2>1
  <2> QED
    BY <2>2, <2>3
<1>13. ASSUME NEW m \in Locks, NEW u \in Threads, new[u] = Writes(m)
       PROVE  writer'[m] = u /\ \A r \in Threads : Reads(m, new[r]) = 0
  <2>1. u \notin T
    <3>1. u # t
      BY <1>6, <1>13 DEF Writes
    <3>2. u \notin queued[l]
      BY <1>7, <1>13 DEF Writes
    <3> QED
      BY <3>1, <3>2 DEF T
  <2>2. at[u] = Writes(m)
    BY <1>8, <1>13, <2>1
  <2>3. writer[m] = u /\ writer[l] = t /\ \A r \in Threads : Reads(m, at[r]) = 0
    BY <1>6, <2>2 DEF Placed, Mutexes
  <2>4. m # l
    BY <1>8, <2>1, <2>3
  <2>5. writer'[m] = u
    BY <1>1, <2>3, <2>4 DEF Placed, Mutexes
  <2> QED
    BY <1>11, <2>3, <2>4, <2>5
<1>14. ASSUME NEW m \in Locks, NEW u \in Threads, writer'[m] = u
       PROVE  new[u] = Writes(m) \/ Next0(u, "Lock", m)'
  <2>1. m # l /\ writer[m] = u
    BY <1>1, <1>14, LockAssumption DEF Placed, Mutexes
  <2>2. at[u] = Writes(m) \/ Next0(u, "Lock", m)
    BY <2>1 DEF Placed, Mutexes
  <2>3. u # t
    BY <1>1, <1>6, <2>1, <2>2 DEF Next0, Writes, Locks
  <2>4. u \notin queued[l]
    BY <1>2, <1>7, <2>2 DEF Next0, Writes
  <2>5. u \notin T
    BY <2>3, <2>4 DEF T
  <2> QED
    BY <1>8, <2>2, <2>5 DEF Next0
<1>15. ASSUME NEW m \in Locks, NEW u \in Threads, u \in queued'[m]
       PROVE  Next0(u, "RLock", m)' /\ writer'[m] # Nobody
  <2>1. m # l /\ u \in queued[m]
    BY <1>1, <1>15 DEF Placed, Mutexes
  <2>2. Next0(u, "RLock", m) /\ writer[m] # Nobody
    BY <2>1 DEF Placed, Mutexes
  <2>3. u \notin T
    BY <1>1, <1>2, <2>1, <2>2 DEF T, Next0
  <2>4. writer'[m] # Nobody
    BY <1>1, <2>1, <2>2 DEF Placed, Mutexes
  <2> QED
    BY <1>8, <2>2, <2>3, <2>4 DEF Next0
<1>16. writer' \in [Locks -> Threads \cup {Nobody}] /\ queued' \in [Locks -> SUBSET Threads]
  BY <1>1 DEF Placed, Mutexes
<1>17. Mutexes(new)'
  BY <1>12, <1>13, <1>14, <1>15, <1>16 DEF Mutexes
<1>18. Idle'
  BY <1>1, <1>3, IdleNext
<1> QED
  BY <1>1, <1>5, <1>17, <1>18 DEF Placed

(* What touches no lock: the channel, Close's wait, a new poller.          *)
LEMMA AsideStep ==
  ASSUME NEW at, Placed(at), NEW t \in Threads, NEW act \in {"stop", "wait", "ensure"},
         Next0(t, act, "none"), Advance({t}), UNCHANGED <<call, writer, reads, queued>>,
         live' \subseteq Pollers
  PROVE  Placed(at)'
<1>1. PICK new : Moved(at, t, Op(act, "none"), new)
  BY OneMoves
<1>2. /\ new \in [Threads -> Situations]
      /\ Programs(new)'
      /\ <<at[t], Op(act, "none"), new[t]>> \in Rules(t)
      /\ \A u \in Threads \ {t} : new[u] = at[u] /\ todo'[u] = todo[u]
  BY <1>1 DEF Moved
<1>3. new[t] = at[t]
  BY <1>2, RuleOf
<1>4. new = at
  BY <1>2, <1>3 DEF Placed
<1>5. Programs(at)'
  BY <1>2, <1>4
<1>6. \A m \in Locks, u \in Threads : writer[m] = u => at[u] = Writes(m) \/ Next0(u, "Lock", m)'
  <2> SUFFICES ASSUME NEW m \in Locks, NEW u \in Threads, writer[m] = u, at[u] # Writes(m)
               PROVE  Next0(u, "Lock", m)'
    OBVIOUS
  <2>1. Next0(u, "Lock", m)
    BY DEF Placed, Mutexes
  <2>2. u # t
    BY <2>1 DEF Next0
  <2> QED
    BY <1>2, <2>1, <2>2, OthersAsk
<1>7. \A m \in Locks, u \in Threads : u \in queued[m] => Next0(u, "RLock", m)' /\ writer[m] # Nobody
  <2> SUFFICES ASSUME NEW m \in Locks, NEW u \in Threads, u \in queued[m]
               PROVE  Next0(u, "RLock", m)' /\ writer[m] # Nobody
    OBVIOUS
  <2>1. Next0(u, "RLock", m) /\ writer[m] # Nobody
    BY DEF Placed, Mutexes
  <2>2. u # t
    BY <2>1 DEF Next0
  <2> QED
    BY <1>2, <2>1, <2>2, OthersAsk
<1>8. Mutexes(at)'
  BY <1>6, <1>7 DEF Placed, Mutexes
<1>9. Idle'
  BY IdleNext DEF Next0
<1> QED
  BY <1>5, <1>8, <1>9 DEF Placed

(* A goroutine that holds nothing takes up an operation.                   *)
LEMMA Begins ==
  ASSUME NEW at, Placed(at), NEW t \in Threads, todo[t] = <<>>,
         NEW p, Leads(Rules(t), p, "out", "out"), todo' = [todo EXCEPT ![t] = p],
         UNCHANGED <<writer, reads, queued>>
  PROVE  Programs(at)' /\ Mutexes(at)'
<1>1. at[t] = "out"
  BY EndsOut
<1>2. Programs(at)'
  BY <1>1 DEF Placed, Programs, Rules
<1>3. \A u \in Threads \ {t} : todo'[u] = todo[u]
  BY DEF Placed, Programs
<1>4. \A act, l : ~ Next0(t, act, l)
  BY DEF Next0
<1>5. \A m \in Locks, u \in Threads : writer[m] = u => at[u] = Writes(m) \/ Next0(u, "Lock", m)'
  <2> SUFFICES ASSUME NEW m \in Locks, NEW u \in Threads, writer[m] = u, at[u] # Writes(m)
               PROVE  Next0(u, "Lock", m)'
    OBVIOUS
  <2>1. Next0(u, "Lock", m)
    BY DEF Placed, Mutexes
  <2> QED
    BY <1>3, <1>4, <2>1, OthersAsk
<1>6. \A m \in Locks, u \in Threads : u \in queued[m] => Next0(u, "RLock", m)' /\ writer[m] # Nobody
  <2> SUFFICES ASSUME NEW m \in Locks, NEW u \in Threads, u \in queued[m]
               PROVE  Next0(u, "RLock", m)' /\ writer[m] # Nobody
    OBVIOUS
  <2>1. Next0(u, "RLock", m) /\ writer[m] # Nobody
    BY DEF Placed, Mutexes
  <2> QED
    BY <1>3, <1>4, <2>1, OthersAsk
<1>7. Mutexes(at)'
  BY <1>5, <1>6 DEF Placed, Mutexes
<1> QED
  BY <1>2, <1>7

LEMMA CallStep ==
  ASSUME NEW at, Placed(at), NEW c \in Clients, NEW name \in Calls, Call(c, name)
  PROVE  Placed(at)'
<1>1. /\ call[c] = "none" /\ call' = [call EXCEPT ![c] = name]
      /\ UNCHANGED <<writer, reads, queued, live>>
  BY DEF Call
<1>2. PICK p \in Program(name) : todo' = [todo EXCEPT ![c] = p]
  BY DEF Call
<1>3. c \in Threads /\ todo[c] = <<>>
  BY <1>1 DEF Placed, Idle, Threads
<1>4. Leads(Rules(c), p, "out", "out")
  BY ProgramLeads DEF Rules
<1>5. Programs(at)' /\ Mutexes(at)'
  BY <1>1, <1>2, <1>3, <1>4, Begins
<1>6. name # "none"
  BY LockAssumption
<1>7. Idle'
  BY <1>1, <1>2, <1>6 DEF Placed, Idle, Programs, Threads
<1> QED
  BY <1>1, <1>5, <1>7 DEF Placed

LEMMA TickStep ==
  ASSUME NEW at, Placed(at), NEW p \in Pollers, Tick(p)
  PROVE  Placed(at)'
<1>1. todo[p] = <<>> /\ UNCHANGED <<call, writer, reads, queued, live>>
  BY DEF Tick
<1>2. PICK q \in Polling : todo' = [todo EXCEPT ![p] = q]
  BY DEF Tick
<1>3. p \in Threads /\ p \notin Clients
  BY LockAssumption DEF Threads
<1>4. Leads(Rules(p), q, "out", "out")
  BY <1>3, PollingLeads DEF Rules
<1>5. Programs(at)' /\ Mutexes(at)'
  BY <1>1, <1>2, <1>3, <1>4, Begins
<1>6. Idle'
  BY <1>1, <1>2, <1>3 DEF Placed, Idle, Programs, Threads
<1> QED
  BY <1>1, <1>5, <1>6 DEF Placed

(* A goroutine returns from its call, or a poller ends.                    *)
LEMMA EndStep ==
  ASSUME NEW at, Placed(at), UNCHANGED <<todo, writer, reads, queued>>, live' \subseteq Pollers,
         Idle', DOMAIN call' = Clients
  PROVE  Placed(at)'
<1>1. Programs(at)'
  BY DEF Placed, Programs
<1>2. \A u, act, m : Next0(u, act, m)' <=> Next0(u, act, m)
  BY DEF Next0
<1>3. Mutexes(at)'
  BY <1>2 DEF Placed, Mutexes
<1> QED
  BY <1>1, <1>3 DEF Placed

LEMMA LockStepStep ==
  ASSUME Inv, NEW t \in Threads, LockStep(t)
  PROVE  Inv'
<1>1. PICK at : Placed(at)
  BY DEF Inv
<1>2. PICK l \in Locks : RLock(t, l) \/ RUnlock(t, l) \/ Announce(t, l) \/ Lock(t, l) \/ Unlock(t, l)
  BY DEF LockStep
<1>3. \E new : Placed(new)'
  BY <1>1, <1>2, RLockStep, RUnlockStep, AnnounceStep, WriteLockStep, UnlockStep
<1> QED
  BY <1>3 DEF Inv

LEMMA InvNext == Inv /\ [Next]_vars => Inv'
<1> SUFFICES ASSUME Inv, [Next]_vars PROVE Inv'
  OBVIOUS
<1>1. PICK at : Placed(at)
  BY DEF Inv
<1>2. Clients \subseteq Threads /\ Pollers \subseteq Threads
  BY DEF Threads
<1>3. ASSUME NEW c \in Clients, NEW name \in Calls, Call(c, name) PROVE Inv'
  BY <1>1, <1>3, CallStep DEF Inv
<1>4. ASSUME NEW t \in Threads, LockStep(t) PROVE Inv'
  BY <1>4, LockStepStep
<1>5. ASSUME NEW c \in Clients, StopPolling(c) \/ Wait(c) PROVE Inv'
  <2>1. PICK act \in {"stop", "wait", "ensure"} : Next0(c, act, "none")
    BY <1>5 DEF StopPolling, Wait
  <2>2. Advance({c}) /\ UNCHANGED <<call, writer, reads, queued>> /\ live' \subseteq Pollers
    BY <1>1, <1>5 DEF StopPolling, Wait, Placed
  <2> QED
    BY <1>1, <1>2, <2>1, <2>2, AsideStep DEF Inv
<1>6. ASSUME NEW c \in Clients, Ensure(c) PROVE Inv'
  <2>1. PICK act \in {"stop", "wait", "ensure"} : Next0(c, act, "none")
    BY <1>6 DEF Ensure
  <2>2. Advance({c}) /\ UNCHANGED <<call, writer, reads, queued>> /\ live' \subseteq Pollers
    BY <1>1, <1>6 DEF Ensure, Placed
  <2> QED
    BY <1>1, <1>2, <2>1, <2>2, AsideStep DEF Inv
<1>7. ASSUME NEW c \in Clients, Return(c) PROVE Inv'
  <2>1. /\ UNCHANGED <<todo, writer, reads, queued, live>> /\ live' \subseteq Pollers
        /\ Idle' /\ DOMAIN call' = Clients
    BY <1>1, <1>7 DEF Return, Placed, Idle
  <2> QED
    BY <1>1, <2>1, EndStep DEF Inv
<1>8. ASSUME NEW p \in Pollers, Tick(p) PROVE Inv'
  BY <1>1, <1>8, TickStep DEF Inv
<1>9. ASSUME NEW p \in Pollers, Exit(p) PROVE Inv'
  <2>1. /\ UNCHANGED <<todo, writer, reads, queued>> /\ live' \subseteq Pollers
        /\ Idle' /\ DOMAIN call' = Clients
    BY <1>1, <1>9 DEF Exit, Placed, Idle
  <2> QED
    BY <1>1, <2>1, EndStep DEF Inv
<1>10. CASE UNCHANGED vars
  <2>1. /\ UNCHANGED <<todo, writer, reads, queued>> /\ live' \subseteq Pollers
        /\ Idle' /\ DOMAIN call' = Clients
    BY <1>1, <1>10 DEF vars, Placed, Idle
  <2> QED
    BY <1>1, <2>1, EndStep DEF Inv
<1>11. CASE Next
  BY <1>2, <1>3, <1>4, <1>5, <1>6, <1>7, <1>8, <1>9, <1>11 DEF Next, ClientStep
<1> QED
  BY <1>10, <1>11

LEMMA Invariance == Spec => []Inv
<1>1. Init => Inv
  BY InvInit
<1>2. Inv /\ [Next]_vars => Inv'
  BY InvNext
<1> QED
  BY <1>1, <1>2, PTL DEF Spec

---------------------------------------------------------------------------
(* No operation of the provider unlocks what it does not hold, and none    *)
(* reads mu more than twice at a time: the variables keep their shapes.    *)
LEMMA InvTyped == Inv => TypeOK
<1> SUFFICES ASSUME NEW at, Placed(at) PROVE TypeOK
  BY DEF Inv
<1>1. /\ DOMAIN todo = Threads /\ live \subseteq Pollers
      /\ writer \in [Locks -> Threads \cup {Nobody}]
      /\ queued \in [Locks -> SUBSET Threads]
      /\ reads = [l \in Locks |-> [t \in Threads |-> Reads(l, at[t])]]
  BY DEF Placed, Programs, Mutexes
<1>2. \A l \in Locks : \A a : Reads(l, a) \in 0..2
  BY DEF Reads
<1>3. reads \in [Locks -> [Threads -> 0..2]]
  BY <1>1, <1>2
<1>4. ASSUME NEW t \in Threads, NEW l \in Locks, Next0(t, "Unlock", l) PROVE writer[l] = t
  <2>1. PICK b : <<at[t], Op("Unlock", l), b>> \in Rules(t)
    BY <1>4, AboutRule
  <2>2. at[t] = Writes(l)
    BY <2>1, RuleOf
  <2> QED
    BY <2>2 DEF Placed, Mutexes
<1>5. ASSUME NEW t \in Threads, NEW l \in Locks, Next0(t, "RUnlock", l) PROVE reads[l][t] > 0
  <2>1. PICK b : <<at[t], Op("RUnlock", l), b>> \in Rules(t)
    BY <1>5, AboutRule
  <2>2. Reads(l, at[t]) = Reads(l, b) + 1
    BY <2>1, RuleOf
  <2> QED
    BY <1>1, <1>2, <2>2
<1> QED
  BY <1>1, <1>3, <1>4, <1>5 DEF TypeOK

THEOREM TypeCorrect == Spec => []TypeOK
BY Invariance, InvTyped, PTL

---------------------------------------------------------------------------
(* A goroutine that is blocked has nothing locked to write: it asks for a  *)
(* write lock with empty hands, or waits in a queue, a poller perhaps with *)
(* read locks of other mutexes.                                            *)
LEMMA BlockedAsks ==
  ASSUME NEW at, Placed(at), NEW t \in Threads, Blocked(t), ~ Reentry
  PROVE  \/ \E l \in Locks : /\ Next0(t, "Lock", l) /\ at[t] = "out"
                             /\ \A m \in Locks : m # l => ~ Next0(t, "Lock", m)
                             /\ writer[l] = t => \E r \in Threads : reads[l][r] > 0
                             /\ writer[l] # Nobody
         \/ \E l \in Locks : /\ t \in queued[l] /\ at[t] \in {"out", "note"}
                             /\ writer[l] # Nobody
                             /\ at[t] = "note" => l = "watcherMutex"
<1>1. ASSUME NEW l \in Locks, Next0(t, "Lock", l)
      PROVE  at[t] = "out" /\ \A m \in Locks : m # l => ~ Next0(t, "Lock", m)
  <2>1. PICK b : <<at[t], Op("Lock", l), b>> \in Rules(t)
    BY <1>1, AboutRule
  <2> QED
    BY <1>1, <2>1, RuleOf DEF Next0
<1>2. ASSUME NEW l \in Locks, t \in queued[l]
      PROVE  /\ writer[l] # Nobody
             /\ at[t] \in {"out", "note"} /\ (at[t] = "note" => l = "watcherMutex")
  <2>1. Next0(t, "RLock", l) /\ writer[l] # Nobody
    BY <1>2 DEF Placed, Mutexes
  <2>2. PICK b : <<at[t], Op("RLock", l), b>> \in Rules(t)
    BY <2>1, AboutRule
  <2>3. reads[l][t] = Reads(l, at[t])
    BY DEF Placed, Mutexes
  <2>4. CASE t \in Clients
    <3>1. at[t] = "out"
      BY <2>2, <2>4, ClientRule DEF Rules
    <3> QED
      BY <2>1, <3>1
  <2>5. CASE t \notin Clients
    <3>1. t \in Pollers
      BY <2>5 DEF Threads
    <3>2. ~ (Reads(l, at[t]) > 0)
      BY <1>2, <2>3, <3>1 DEF Reentry, Reentering
    <3>3. \/ at[t] = "out"
          \/ at[t] = "note" /\ l \in {"mu", "watcherMutex"}
          \/ at[t] = "noteW" /\ l = "mu"
      BY <2>2, <2>5, PollerRule DEF Rules
    <3> QED
      BY <2>1, <3>2, <3>3 DEF Reads
  <2> QED
    BY <2>4, <2>5
<1>3. CASE \E l \in Locks : t \in queued[l]
  BY <1>2, <1>3
<1>4. CASE \E l \in Locks : Next0(t, "Lock", l) /\ writer[l] \notin {Nobody, t}
  BY <1>1, <1>4
<1>5. CASE \E l \in Locks : /\ Next0(t, "Lock", l) /\ writer[l] = t
                            /\ \E r \in Threads : reads[l][r] > 0
  <2>1. t # Nobody
    BY LockAssumption
  <2> QED
    BY <1>1, <1>5, <2>1
<1> QED
  BY <1>3, <1>4, <1>5 DEF Blocked

LEMMA InvStuck == Inv => StuckOnlyByReentry
<1> SUFFICES ASSUME NEW at, Placed(at),
                    NEW s \in Threads, todo[s] # <<>>,
                    \A t \in Threads : todo[t] # <<>> => Blocked(t),
                    ~ Reentry
             PROVE  FALSE
  BY DEF Inv, StuckOnlyByReentry
<1>1. \A t \in Threads : at[t] # "out" => Blocked(t)
  BY EndsOut
<1>2. ASSUME NEW t \in Threads PROVE at[t] \in {"out", "note"}
  BY <1>1, BlockedAsks
<1>3. \A l \in Locks, r \in Threads : reads[l][r] = Reads(l, at[r])
  BY DEF Placed, Mutexes
(* Who has announced itself for l waits for a reader of l.                 *)
<1>4. ASSUME NEW l \in Locks, NEW w \in Threads, writer[l] = w
      PROVE  \E r \in Threads : at[r] = "note" /\ Reads(l, "note") > 0
  <2>1. Next0(w, "Lock", l)
    BY <1>2, <1>4 DEF Placed, Mutexes, Writes
  <2>2. Blocked(w)
    BY <2>1 DEF Next0
  <2>3. \A m \in Locks : w \notin queued[m]
    <3>1. \A m \in Locks : ~ Next0(w, "RLock", m)
      BY <2>1 DEF Next0
    <3> QED
      BY <3>1 DEF Placed, Mutexes
  <2>4. \E r \in Threads : reads[l][r] > 0
    BY <1>4, <2>1, <2>2, <2>3, BlockedAsks
  <2>5. PICK r \in Threads : Reads(l, at[r]) > 0
    BY <1>3, <2>4
  <2>6. at[r] # "out"
    BY <2>5 DEF Reads
  <2> QED
    BY <1>2, <2>5, <2>6
<1>5. writer["watcherMutex"] = Nobody
  BY <1>4 DEF Placed, Mutexes, Reads, Locks
<1>6. writer["mu"] = Nobody
  <2> SUFFICES ASSUME writer["mu"] # Nobody PROVE FALSE
    OBVIOUS
  <2>1. PICK r \in Threads : at[r] = "note"
    BY <1>4 DEF Placed, Mutexes, Locks
  <2>2. Blocked(r)
    BY <1>1, <2>1
  <2> QED
    BY <1>5, <2>1, <2>2, BlockedAsks
<1>7. Blocked(s)
  OBVIOUS
<1>8. \E l \in Locks : writer[l] # Nobody
  BY <1>7, BlockedAsks
<1> QED
  BY <1>5, <1>6, <1>8 DEF Locks

(* However many goroutines use the provider, the only way for all that are *)
(* inside it to wait for one another is a poller that asks again for mu    *)
(* while it reads it, behind a writer.                                     *)
THEOREM Stuck == Spec => []StuckOnlyByReentry
BY Invariance, InvStuck, PTL
=============================================================================
