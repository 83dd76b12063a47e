------------------------- MODULE MemoryCacheProofs -------------------------
(***************************************************************************)
(* What MemoryCache promises for any number of goroutines, keys and        *)
(* option sets.  The argument places every goroutine in a situation, given *)
(* by the mutexes it holds and what it is about; the rules say which step  *)
(* leads from where to where, and what is left of a call always leads to   *)
(* its end, or to the Lock that is never granted.  The last part is about  *)
(* the cache's options and keys.                                           *)
(***************************************************************************)
EXTENDS MemoryCache, Paths, FiniteSetTheorems

Op(a, o) == [act |-> a, on |-> o]

(* Outside every critical section ("free"); in one of mu or of statsMu, to *)
(* read or to write; in Close.                                             *)
Passing ==
  {"free", "mu", "st", "rmu", "rst", "rstmu", "closing", "closed", "stopping", "waiting"}

(* In a Set, which does not leave mu again: before, in and after its write. *)
Forever == {"setting", "storing", "writing", "kept", "keptSt"}

(* Before or in a Set, or a DeleteNamespace.                               *)
Situations == Passing \cup Forever \cup {"toSet", "toDrop", "dropping"}

WriteHeld(l) ==
  IF l = "mu" THEN {"mu", "closing", "closed", "setting", "storing", "writing", "kept", "keptSt"}
  ELSE {"st", "keptSt", "dropping"}

ReadHeld(l) == IF l = "mu" THEN {"rmu", "rstmu"} ELSE {"rst", "rstmu"}

(* A program that ends in "never" ends in a Lock of what it holds.         *)
LockRules ==
  {<<"free", Op("Lock", "mu"), a>> : a \in {"mu", "closing"}} \cup
  {<<"free", Op("Lock", "statsMu"), "st">>,
   <<"toSet", Op("Lock", "mu"), "setting">>, <<"toDrop", Op("Lock", "statsMu"), "dropping">>,
   <<"kept", Op("Lock", "statsMu"), "keptSt">>,
   <<"storing", Op("Lock", "mu"), "never">>, <<"kept", Op("Lock", "mu"), "never">>,
   <<"dropping", Op("Lock", "statsMu"), "never">>}

UnlockRules ==
  {<<"mu", Op("Unlock", "mu"), "free">>, <<"closed", Op("Unlock", "mu"), "stopping">>,
   <<"st", Op("Unlock", "statsMu"), "free">>, <<"keptSt", Op("Unlock", "statsMu"), "kept">>}

ReadRules ==
  {<<"free", Op("RLock", "mu"), "rmu">>, <<"rmu", Op("RUnlock", "mu"), "free">>,
   <<"free", Op("RLock", "statsMu"), "rst">>, <<"rst", Op("RUnlock", "statsMu"), "free">>,
   <<"rst", Op("RLock", "mu"), "rstmu">>, <<"rstmu", Op("RUnlock", "mu"), "rst">>}

DataRules ==
  {<<"mu", Op(a, k), "mu">> : a \in {"remove", "renew", "keep"}, k \in Keys} \cup
  {<<"mu", Op(a, "data"), "mu">> : a \in {"clear", "sweep"}} \cup
  {<<"setting", Op("evict", k), "storing">> : k \in Keys} \cup
  {<<"storing", Op("store", "data"), "writing">>} \cup
  {<<"writing", Op("stored", k), "kept">> : k \in Keys} \cup
  {<<s, Op(a, "data"), s>> : s \in {"free", "dropping"}, a \in {"scan", "scanned"}}

CloseRules ==
  {<<"closing", Op("closing", "mu"), "closed">>,
   <<"stopping", Op("stop", "stopChan"), "waiting">>, <<"waiting", Op("wait", "wg"), "free">>}

Rules == LockRules \cup UnlockRules \cup ReadRules \cup DataRules \cup CloseRules

Program == Seq(Steps(Rules))

Returns(s, a) == Leads(Rules, s, a, "free")
Jams(s, a)    == Leads(Rules, s, a, "never")

---------------------------------------------------------------------------
(* What the rules say, step by step.                                       *)
LEMMA LockRule ==
  ASSUME NEW a, NEW x, NEW b, <<a, x, b>> \in Rules, x.act = "Lock"
  PROVE  \/ a = "free" /\ x.on = "mu" /\ b \in {"mu", "closing"}
         \/ a = "free" /\ x.on = "statsMu" /\ b = "st"
         \/ a = "toSet" /\ x.on = "mu" /\ b = "setting"
         \/ a = "toDrop" /\ x.on = "statsMu" /\ b = "dropping"
         \/ a = "kept" /\ x.on = "statsMu" /\ b = "keptSt"
         \/ a \in {"storing", "kept"} /\ x.on = "mu" /\ b = "never"
         \/ a = "dropping" /\ x.on = "statsMu" /\ b = "never"
BY DEF Rules, LockRules, UnlockRules, ReadRules, DataRules, CloseRules, Op

LEMMA UnlockRule ==
  ASSUME NEW a, NEW x, NEW b, <<a, x, b>> \in Rules, x.act = "Unlock"
  PROVE  \/ a = "mu" /\ x.on = "mu" /\ b = "free"
         \/ a = "closed" /\ x.on = "mu" /\ b = "stopping"
         \/ a = "st" /\ x.on = "statsMu" /\ b = "free"
         \/ a = "keptSt" /\ x.on = "statsMu" /\ b = "kept"
BY DEF Rules, LockRules, UnlockRules, ReadRules, DataRules, CloseRules, Op

LEMMA ReadRule ==
  ASSUME NEW a, NEW x, NEW b, <<a, x, b>> \in Rules, x.act \in {"RLock", "RUnlock"}
  PROVE  \/ x.act = "RLock" /\ x.on = "mu" /\ a = "free" /\ b = "rmu"
         \/ x.act = "RLock" /\ x.on = "mu" /\ a = "rst" /\ b = "rstmu"
         \/ x.act = "RLock" /\ x.on = "statsMu" /\ a = "free" /\ b = "rst"
         \/ x.act = "RUnlock" /\ x.on = "mu" /\ a = "rmu" /\ b = "free"
         \/ x.act = "RUnlock" /\ x.on = "mu" /\ a = "rstmu" /\ b = "rst"
         \/ x.act = "RUnlock" /\ x.on = "statsMu" /\ a = "rst" /\ b = "free"
BY DEF Rules, LockRules, UnlockRules, ReadRules, DataRules, CloseRules, Op

LEMMA DataRule ==
  ASSUME NEW a, NEW x, NEW b, <<a, x, b>> \in Rules,
         x.act \notin {"Lock", "Unlock", "RLock", "RUnlock"}
  PROVE  \/ x.act \in {"remove", "renew", "keep"} /\ x.on \in Keys /\ a = "mu" /\ b = "mu"
         \/ x.act \in {"clear", "sweep"} /\ x.on = "data" /\ a = "mu" /\ b = "mu"
         \/ x.act = "evict" /\ x.on \in Keys /\ a = "setting" /\ b = "storing"
         \/ x.act = "store" /\ x.on = "data" /\ a = "storing" /\ b = "writing"
         \/ x.act = "stored" /\ x.on \in Keys /\ a = "writing" /\ b = "kept"
         \/ x.act \in {"scan", "scanned"} /\ x.on = "data" /\ a \in {"free", "dropping"} /\ b = a
         \/ x.act = "closing" /\ x.on = "mu" /\ a = "closing" /\ b = "closed"
         \/ x.act = "stop" /\ x.on = "stopChan" /\ a = "stopping" /\ b = "waiting"
         \/ x.act = "wait" /\ x.on = "wg" /\ a = "waiting" /\ b = "free"
BY DEF Rules, LockRules, UnlockRules, ReadRules, DataRules, CloseRules, Op

LEMMA RuleSituations ==
  ASSUME NEW a, NEW x, NEW b, <<a, x, b>> \in Rules
  PROVE  a \in Situations /\ b \in Situations \cup {"never"}
BY LockRule, UnlockRule, ReadRule, DataRule DEF Situations, Passing, Forever

LEMMA StepsTyped ==
  ASSUME NEW x \in Steps(Rules)
  PROVE  x.on \in Keys \cup Locks \cup {"data", "stopChan", "wg"}
<1>1. PICK r \in Rules : x = r[2]
  BY DEF Steps
<1> QED
  BY <1>1 DEF Rules, LockRules, UnlockRules, ReadRules, DataRules, CloseRules, Op, Locks

---------------------------------------------------------------------------
(* Every call returns or jams.                                             *)
LEMMA StepOp == \A a, o : Step(a, o) = <<Op(a, o)>>
BY DEF Step, Op

LEMMA LockedLeads ==
  ASSUME NEW l, NEW body, NEW a, NEW b, NEW c, NEW d,
         <<a, Op("Lock", l), b>> \in Rules, Leads(Rules, body, b, c),
         <<c, Op("Unlock", l), d>> \in Rules
  PROVE  Leads(Rules, Locked(l, body), a, d)
<1>1. Leads(Rules, Step("Lock", l), a, b)
  BY LeadsStep, StepOp
<1>2. Leads(Rules, Step("Unlock", l), c, d)
  BY LeadsStep, StepOp
<1>3. Leads(Rules, Step("Lock", l) \o body, a, c)
  BY <1>1, LeadsOn
<1> QED
  BY <1>2, <1>3, LeadsOn DEF Locked

LEMMA RLockedLeads ==
  ASSUME NEW l, NEW body, NEW a, NEW b, NEW c, NEW d,
         <<a, Op("RLock", l), b>> \in Rules, Leads(Rules, body, b, c),
         <<c, Op("RUnlock", l), d>> \in Rules
  PROVE  Leads(Rules, RLocked(l, body), a, d)
<1>1. Leads(Rules, Step("RLock", l), a, b)
  BY LeadsStep, StepOp
<1>2. Leads(Rules, Step("RUnlock", l), c, d)
  BY LeadsStep, StepOp
<1>3. Leads(Rules, Step("RLock", l) \o body, a, c)
  BY <1>1, LeadsOn
<1> QED
  BY <1>2, <1>3, LeadsOn DEF RLocked

LEMMA EmptyReturns == Returns(<<>>, "free")
BY LeadsEmpty DEF Returns

(* A critical section of mu with one step, or none.                        *)
LEMMA MuReturns ==
  /\ Returns(Locked("mu", <<>>), "free")
  /\ \A a \in {"remove", "renew", "keep"}, k \in Keys : Returns(Locked("mu", Step(a, k)), "free")
  /\ \A a \in {"clear", "sweep"} : Returns(Locked("mu", Step(a, "data")), "free")
<1>1. /\ <<"free", Op("Lock", "mu"), "mu">> \in Rules
      /\ <<"mu", Op("Unlock", "mu"), "free">> \in Rules
  BY DEF Rules, LockRules, UnlockRules
<1>2. Leads(Rules, <<>>, "mu", "mu")
  BY LeadsEmpty
<1>3. ASSUME NEW a \in {"remove", "renew", "keep"}, NEW k \in Keys
      PROVE  Leads(Rules, Step(a, k), "mu", "mu")
  <2>1. <<"mu", Op(a, k), "mu">> \in Rules
    BY DEF Rules, DataRules
  <2> QED
    BY <2>1, LeadsStep, StepOp
<1>4. ASSUME NEW a \in {"clear", "sweep"} PROVE Leads(Rules, Step(a, "data"), "mu", "mu")
  <2>1. <<"mu", Op(a, "data"), "mu">> \in Rules
    BY DEF Rules, DataRules
  <2> QED
    BY <2>1, LeadsStep, StepOp
<1> QED
  BY <1>1, <1>2, <1>3, <1>4, LockedLeads DEF Returns

LEMMA RecordLeads == Returns(record, "free") /\ Leads(Rules, record, "kept", "kept")
<1>1. /\ <<"free", Op("Lock", "statsMu"), "st">> \in Rules
      /\ <<"st", Op("Unlock", "statsMu"), "free">> \in Rules
      /\ <<"kept", Op("Lock", "statsMu"), "keptSt">> \in Rules
      /\ <<"keptSt", Op("Unlock", "statsMu"), "kept">> \in Rules
  BY DEF Rules, LockRules, UnlockRules
<1>2. Leads(Rules, <<>>, "st", "st") /\ Leads(Rules, <<>>, "keptSt", "keptSt")
  BY LeadsEmpty
<1>3. Leads(Rules, Locked("statsMu", <<>>), "free", "free")
  BY <1>1, <1>2, LockedLeads
<1>4. Leads(Rules, Locked("statsMu", <<>>), "kept", "kept")
  BY <1>1, <1>2, LockedLeads
<1> QED
  BY <1>3, <1>4, LeadsEmpty DEF record, Returns

LEMMA ReturnsOn ==
  ASSUME NEW s, NEW t, Returns(s, "free"), Returns(t, "free")
  PROVE  Returns(s \o t, "free")
BY LeadsOn DEF Returns

LEMMA ReadsReturn ==
  /\ Returns(RLocked("mu", <<>>), "free")
  /\ Returns(RLocked("statsMu", <<>>), "free")
  /\ Returns(Stats, "free")
<1>1. /\ <<"free", Op("RLock", "mu"), "rmu">> \in Rules /\ <<"rmu", Op("RUnlock", "mu"), "free">> \in Rules
      /\ <<"free", Op("RLock", "statsMu"), "rst">> \in Rules
      /\ <<"rst", Op("RUnlock", "statsMu"), "free">> \in Rules
      /\ <<"rst", Op("RLock", "mu"), "rstmu">> \in Rules /\ <<"rstmu", Op("RUnlock", "mu"), "rst">> \in Rules
  BY DEF Rules, ReadRules
<1>2. /\ Leads(Rules, <<>>, "rmu", "rmu") /\ Leads(Rules, <<>>, "rst", "rst")
      /\ Leads(Rules, <<>>, "rstmu", "rstmu")
  BY LeadsEmpty
<1>3. Leads(Rules, RLocked("mu", <<>>), "rst", "rst")
  BY <1>1, <1>2, RLockedLeads
<1> QED
  BY <1>1, <1>2, <1>3, RLockedLeads DEF Returns, Stats

LEMMA GetReturns == \A k : Returns(Get(k), "free")
BY ReadsReturn, RecordLeads, ReturnsOn, EmptyReturns DEF Get

LEMMA DeleteReturns == \A k \in Keys \cup {NoKey} : Returns(Delete(k), "free")
BY MuReturns, EmptyReturns DEF Delete

LEMMA ScanLeads == Returns(Scan, "free") /\ Leads(Rules, Scan, "dropping", "dropping")
<1> SUFFICES ASSUME NEW s \in {"free", "dropping"} PROVE Leads(Rules, Scan, s, s)
  BY DEF Returns
<1>1. <<s, Op("scan", "data"), s>> \in Rules /\ <<s, Op("scanned", "data"), s>> \in Rules
  BY DEF Rules, DataRules
<1>2. Leads(Rules, Step("scan", "data"), s, s) /\ Leads(Rules, Step("scanned", "data"), s, s)
  BY <1>1, LeadsStep, StepOp
<1> QED
  BY <1>2, LeadsOn DEF Scan

LEMMA DeleteNamespaceJams == Jams(DeleteNamespace, "toDrop")
<1>1. /\ <<"toDrop", Op("Lock", "statsMu"), "dropping">> \in Rules
      /\ <<"dropping", Op("Lock", "statsMu"), "never">> \in Rules
  BY DEF Rules, LockRules
<1>2. /\ Leads(Rules, Step("Lock", "statsMu"), "toDrop", "dropping")
      /\ Leads(Rules, Step("Lock", "statsMu"), "dropping", "never")
  BY <1>1, LeadsStep, StepOp
<1>3. Leads(Rules, Step("Lock", "statsMu") \o Scan, "toDrop", "dropping")
  BY <1>2, ScanLeads, LeadsOn
<1> QED
  BY <1>2, <1>3, LeadsOn DEF DeleteNamespace, Jams

LEMMA SetJams == \A k \in Keys, v \in BOOLEAN : Jams(Set(k, v), "toSet")
<1> SUFFICES ASSUME NEW k \in Keys, NEW v \in BOOLEAN PROVE Jams(Set(k, v), "toSet")
  OBVIOUS
<1>1. /\ <<"toSet", Op("Lock", "mu"), "setting">> \in Rules
      /\ <<"storing", Op("Lock", "mu"), "never">> \in Rules
      /\ <<"kept", Op("Lock", "mu"), "never">> \in Rules
  BY DEF Rules, LockRules
<1>2. /\ <<"setting", Op("evict", k), "storing">> \in Rules
      /\ <<"storing", Op("store", "data"), "writing">> \in Rules
      /\ <<"writing", Op("stored", k), "kept">> \in Rules
  BY DEF Rules, DataRules
<1>3. /\ Leads(Rules, Step("Lock", "mu"), "toSet", "setting")
      /\ Leads(Rules, Step("evict", k), "setting", "storing")
      /\ Leads(Rules, Step("store", "data"), "storing", "writing")
      /\ Leads(Rules, Step("stored", k), "writing", "kept")
      /\ \A a \in {"storing", "kept"} : Leads(Rules, Step("Lock", "mu"), a, "never")
  BY <1>1, <1>2, LeadsStep, StepOp
<1>4. \E a \in {"storing", "kept"} : Leads(Rules, Store(k, v), "storing", a)
  <2>1. Leads(Rules, Step("store", "data") \o Step("stored", k), "storing", "kept")
    BY <1>3, LeadsOn
  <2>2. Leads(Rules, Step("store", "data") \o Step("stored", k) \o record, "storing", "kept")
    BY <2>1, RecordLeads, LeadsOn
  <2> QED
    BY <2>2, LeadsEmpty DEF Store
<1>5. Leads(Rules, Step("Lock", "mu") \o Step("evict", k), "toSet", "storing")
  BY <1>3, LeadsOn
<1>6. \E a \in {"storing", "kept"} :
        Leads(Rules, Step("Lock", "mu") \o Step("evict", k) \o Store(k, v), "toSet", a)
  BY <1>4, <1>5, LeadsOn
<1>7. Set(k, v) = Step("Lock", "mu") \o Step("evict", k) \o Store(k, v) \o Step("Lock", "mu")
  BY CacheAssumption DEF Set
<1> QED
  BY <1>3, <1>6, <1>7, LeadsOn DEF Jams

LEMMA CloseReturns == Returns(Close, "free")
<1>1. /\ <<"free", Op("Lock", "mu"), "closing">> \in Rules
      /\ <<"closed", Op("Unlock", "mu"), "stopping">> \in Rules
      /\ <<"closing", Op("closing", "mu"), "closed">> \in Rules
      /\ <<"stopping", Op("stop", "stopChan"), "waiting">> \in Rules
      /\ <<"waiting", Op("wait", "wg"), "free">> \in Rules
  BY DEF Rules, LockRules, UnlockRules, CloseRules
<1>2. /\ Leads(Rules, Step("closing", "mu"), "closing", "closed")
      /\ Leads(Rules, Step("stop", "stopChan"), "stopping", "waiting")
      /\ Leads(Rules, Step("wait", "wg"), "waiting", "free")
  BY <1>1, LeadsStep, StepOp
<1>3. Leads(Rules, Locked("mu", Step("closing", "mu")), "free", "stopping")
  BY <1>1, <1>2, LockedLeads
<1>4. Leads(Rules, Locked("mu", Step("closing", "mu")) \o Step("stop", "stopChan"), "free", "waiting")
  BY <1>2, <1>3, LeadsOn
<1> QED
  BY <1>2, <1>4, LeadsOn DEF Close, Returns

(* A batch deletes its keys one after the other.                           *)
LEMMA MDeleteReturns == \A ks \in Batches : Returns(MDelete(ks), "free")
<1> SUFFICES ASSUME NEW ks \in Batches PROVE Returns(MDelete(ks), "free")
  OBVIOUS
<1> DEFINE seqs == [i \in DOMAIN ks |-> Delete(ks[i])]
<1>1. /\ DOMAIN ks = 1..Len(ks) /\ Len(ks) \in Nat
      /\ \A i \in DOMAIN ks : ks[i] \in Keys
  BY DEF Batches
<1>2. \A i \in DOMAIN ks : Returns(Delete(ks[i]), "free") /\ Delete(ks[i]) \in Program
  BY <1>1, DeleteReturns DEF Returns, Leads, Program
<1>3. seqs \in Seq(Program) /\ Len(seqs) = Len(ks)
  BY <1>1, <1>2
<1>4. \A i \in 1..Len(seqs) : Leads(Rules, seqs[i], "free", "free")
  BY <1>1, <1>2, <1>3 DEF Returns
<1> HIDE DEF seqs
<1>5. Leads(Rules, FlattenSeq(seqs), "free", "free")
  BY <1>3, <1>4, LeadsRepeat DEF Program
<1> QED
  BY <1>5 DEF MDelete, Returns, seqs

LEMMA CleanupReturns == Returns(cleanup, "free")
BY MuReturns, RecordLeads, ReturnsOn DEF cleanup

LEMMA CallsLead == \A p \in Calls : Returns(p, "free") \/ \E b \in {"toSet", "toDrop"} : Jams(p, b)
<1> SUFFICES ASSUME NEW p \in Calls PROVE Returns(p, "free") \/ \E b \in {"toSet", "toDrop"} : Jams(p, b)
  OBVIOUS
<1>0. \A ks \in Batches : Head(ks) \in Keys /\ ks # <<>>
  BY DEF Batches
<1>a. \A ks \in Batches : Jams(MSet(ks), "toSet")
  BY <1>0, SetJams DEF MSet
<1>1. CASE p \in {Exists(k) : k \in Keys} \cup {Get(k) : k \in Keys \cup {NoKey}} \cup
                 {MGet(ks) : ks \in Batches}
  BY <1>1, <1>0, MuReturns, GetReturns, EmptyReturns DEF Exists, MGet
<1>2. CASE p \in {Set(k, v) : k \in Keys \cup {NoKey}, v \in BOOLEAN} \cup {MSet(ks) : ks \in Batches}
  <2>1. \A v \in BOOLEAN : Returns(Set(NoKey, v), "free")
    BY EmptyReturns DEF Set
  <2> QED
    BY <1>2, <1>a, <2>1, SetJams
<1>3. CASE p \in {Delete(k) : k \in Keys \cup {NoKey}} \cup {MDelete(ks) : ks \in Batches}
  BY <1>3, DeleteReturns, MDeleteReturns
<1>4. CASE p \in {GetWithNamespace, GetNamespaces, GetAllNamespaces, CreateNamespace, DeleteNamespace}
  <2>1. Returns(CreateNamespace, "free")
    <3>1. /\ <<"free", Op("Lock", "statsMu"), "st">> \in Rules
          /\ <<"st", Op("Unlock", "statsMu"), "free">> \in Rules
      BY DEF Rules, LockRules, UnlockRules
    <3> QED
      BY <3>1, LeadsEmpty, LockedLeads DEF CreateNamespace, Returns
  <2> QED
    BY <1>4, <2>1, ScanLeads, ReadsReturn, DeleteNamespaceJams
       DEF GetWithNamespace, GetNamespaces, GetAllNamespaces
<1>5. CASE p \in {SetWithNamespace(ks, v) : ks \in Batches, v \in BOOLEAN} \cup
                 {DeleteWithNamespace(ks) : ks \in Batches}
  BY <1>5, <1>a, EmptyReturns, MDeleteReturns DEF SetWithNamespace, DeleteWithNamespace
<1>6. CASE p \in {SetTTL(k, v) : k \in Keys, v \in BOOLEAN} \cup {DeleteTTL(k) : k \in Keys}
  BY <1>6, MuReturns, EmptyReturns DEF SetTTL, DeleteTTL
<1>7. CASE p \in {GetTTL, Size, Clear, Stats, Close}
  BY <1>7, MuReturns, ReadsReturn, CloseReturns DEF GetTTL, Size, Clear
<1> QED
  BY <1>1, <1>2, <1>3, <1>4, <1>5, <1>6, <1>7 DEF Calls

---------------------------------------------------------------------------
(* The inductive invariant.  What is left of a call leads on from where    *)
(* the goroutine is.                                                       *)
Programs(at) ==
  /\ todo \in [Threads -> Program]
  /\ \A t \in Threads : Returns(todo[t], at[t]) \/ Jams(todo[t], at[t])

(* The situations say who holds what; a Lock that is announced and not     *)
(* granted is what its goroutine is about.                                 *)
Mutexes(at) ==
  /\ writer \in [Locks -> Threads \cup {Nobody}]
  /\ held \in [Locks -> BOOLEAN]
  /\ readers \in [Locks -> SUBSET Threads]
  /\ \A l \in Locks, t \in Threads : (writer[l] = t /\ held[l]) <=> at[t] \in WriteHeld(l)
  /\ \A l \in Locks, t \in Threads : t \in readers[l] <=> at[t] \in ReadHeld(l)
  /\ \A l \in Locks : held[l] => writer[l] # Nobody /\ readers[l] = {}
  /\ \A l \in Locks, t \in Threads :
       writer[l] = t /\ ~held[l] => About(t, "Lock") /\ Object(t) = l

(* Only a Set fills the map, with one entry, and then keeps mu.  Only its  *)
(* write lets a range end the process.                                     *)
Contents(at) ==
  /\ entries \in [DOMAIN entries -> {"live", "expired", "kept"}]
  /\ DOMAIN entries # {} =>
       /\ \E k \in Keys : DOMAIN entries = {k}
       /\ \E t \in Threads : at[t] \in {"kept", "keptSt"}

Deaths == OnlyFirstWriteKills /\ fatal \in BOOLEAN

(* Only one Close stops the cleanup, and it waits for the cleanup to end.  *)
Ending(at) ==
  /\ closed \in BOOLEAN /\ stopped \in BOOLEAN /\ live \in BOOLEAN
  /\ \A t \in Threads : at[t] \in {"closed", "stopping"} => closed /\ ~stopped
  /\ \A t \in Threads : at[t] = "waiting" => stopped
  /\ \A t, u \in Threads :
       at[t] \in {"closed", "stopping", "waiting"} /\ at[u] \in {"closed", "stopping", "waiting"}
       => t = u
  /\ stopped => closed
  /\ stopped => ~live \/ \E t \in Threads : at[t] = "waiting"

Placed(at) ==
  /\ at \in [Threads -> Situations]
  /\ Programs(at) /\ Mutexes(at) /\ Contents(at) /\ Ending(at)

Inv == opts \in OptionSets /\ Deaths /\ \E at : Placed(at)

---------------------------------------------------------------------------
LEMMA InvInit == Init => Inv
<1> SUFFICES ASSUME Init PROVE Inv
  OBVIOUS
<1> DEFINE at == [t \in Threads |-> "free"]
<1> USE DEF Init
<1>1. at \in [Threads -> Situations]
  BY DEF Situations, Passing
<1>2. Programs(at)
  <2>1. <<>> \in Program
    BY DEF Program
  <2> QED
    BY <2>1, EmptyReturns DEF Programs
<1>3. Mutexes(at)
  BY CacheAssumption DEF Mutexes, Locks, WriteHeld, ReadHeld
<1>4. Contents(at) /\ Ending(at)
  BY DEF Contents, Ending
<1>5. Deaths
  BY DEF Deaths, OnlyFirstWriteKills
<1> QED
  BY <1>1, <1>2, <1>3, <1>4, <1>5 DEF Inv, Placed

(* t goes on with the rest of its program.                                 *)
LEMMA Onward ==
  ASSUME NEW at \in [Threads -> Situations], Programs(at), NEW t \in Threads, todo[t] # <<>>,
         Advance(t)
  PROVE  \E b : /\ <<at[t], Head(todo[t]), b>> \in Rules
                /\ Programs([at EXCEPT ![t] = b])'
<1>1. Returns(todo[t], at[t]) \/ Jams(todo[t], at[t])
  BY DEF Programs
<1>2. PICK b : /\ <<at[t], Head(todo[t]), b>> \in Rules
               /\ Returns(Tail(todo[t]), b) \/ Jams(Tail(todo[t]), b)
  BY <1>1, LeadsTail DEF Returns, Jams
<1>3. Tail(todo[t]) \in Program
  BY DEF Programs, Program
<1>4. todo' = [todo EXCEPT ![t] = Tail(todo[t])]
  BY DEF Advance, Continue
<1>5. Programs([at EXCEPT ![t] = b])'
  BY <1>2, <1>3, <1>4 DEF Programs
<1> QED
  BY <1>2, <1>5

(* t goes on with another program, from another situation.                 *)
LEMMA Elsewhere ==
  ASSUME NEW at \in [Threads -> Situations], Programs(at), NEW t \in Threads, NEW s, NEW b,
         Continue(t, s), Returns(s, b) \/ Jams(s, b)
  PROVE  Programs([at EXCEPT ![t] = b])'
<1>1. s \in Program
  BY DEF Returns, Jams, Leads, Program
<1> QED
  BY <1>1 DEF Continue, Programs

(* A step that touches no mutex.                                           *)
LEMMA SameMutexes ==
  ASSUME NEW at \in [Threads -> Situations], Mutexes(at), NEW t \in Threads, NEW b, NEW s,
         todo \in [Threads -> Program],
         UNCHANGED locks, Continue(t, s), ~About(t, "Lock"),
         \A l \in Locks : /\ at[t] \in WriteHeld(l) <=> b \in WriteHeld(l)
                          /\ at[t] \in ReadHeld(l) <=> b \in ReadHeld(l)
  PROVE  Mutexes([at EXCEPT ![t] = b])'
<1> DEFINE new == [at EXCEPT ![t] = b]
<1>1. \A l \in Locks, u \in Threads : /\ at[u] \in WriteHeld(l) <=> new[u] \in WriteHeld(l)
                                      /\ at[u] \in ReadHeld(l) <=> new[u] \in ReadHeld(l)
  OBVIOUS
<1>2. ASSUME NEW l \in Locks, NEW u \in Threads, writer[l] = u, ~held[l]
      PROVE  About(u, "Lock")' /\ Object(u)' = l
  <2>1. u # t /\ About(u, "Lock") /\ Object(u) = l
    BY <1>2 DEF Mutexes
  <2>2. todo'[u] = todo[u]
    BY <2>1 DEF Continue
  <2> QED
    BY <2>1, <2>2 DEF About, Object
<1>3. writer' = writer /\ held' = held /\ readers' = readers
  BY DEF locks
<1> HIDE DEF new
<1>4. Mutexes(new)'
  BY <1>1, <1>2, <1>3 DEF Mutexes
<1> QED
  BY <1>4 DEF new

(* A step away from the entries.                                           *)
LEMMA SameContents ==
  ASSUME NEW at \in [Threads -> Situations], Contents(at), NEW t \in Threads, NEW b,
         DOMAIN entries' = DOMAIN entries,
         entries' \in [DOMAIN entries' -> {"live", "expired", "kept"}],
         at[t] \in {"kept", "keptSt"} => b \in {"kept", "keptSt"}
  PROVE  Contents([at EXCEPT ![t] = b])'
<1>1. ASSUME DOMAIN entries # {}
      PROVE  \E u \in Threads : [at EXCEPT ![t] = b][u] \in {"kept", "keptSt"}
  <2>1. PICK u \in Threads : at[u] \in {"kept", "keptSt"}
    BY <1>1 DEF Contents
  <2>2. [at EXCEPT ![t] = b][u] \in {"kept", "keptSt"}
    BY <2>1
  <2> QED
    BY <2>2
<1> QED
  BY <1>1 DEF Contents

(* A step away from Close.                                                 *)
LEMMA SameEnding ==
  ASSUME NEW at \in [Threads -> Situations], Ending(at), NEW t \in Threads, NEW b,
         UNCHANGED ending,
         at[t] \notin {"closed", "stopping", "waiting"}, b \notin {"closed", "stopping", "waiting"}
  PROVE  Ending([at EXCEPT ![t] = b])'
<1> DEFINE new == [at EXCEPT ![t] = b]
<1>1. \A u \in Threads : \A s \in {"closed", "stopping", "waiting"} : new[u] = s <=> at[u] = s
  OBVIOUS
<1> HIDE DEF new
<1>2. Ending(new)'
  BY <1>1 DEF Ending, ending
<1> QED
  BY <1>2 DEF new

(* Whoever has written an entry keeps mu, so that nobody else in a         *)
(* critical section of mu finds one.                                       *)
LEMMA NoEntries ==
  ASSUME NEW at \in [Threads -> Situations], Mutexes(at), Contents(at), NEW t \in Threads,
         at[t] \in {"mu", "setting", "storing", "writing"}
  PROVE  DOMAIN entries = {}
<1> SUFFICES ASSUME DOMAIN entries # {} PROVE FALSE
  OBVIOUS
<1>1. PICK u \in Threads : at[u] \in {"kept", "keptSt"}
  BY DEF Contents
<1>2. writer["mu"] = t /\ writer["mu"] = u
  BY <1>1 DEF Mutexes, Locks, WriteHeld
<1> QED
  BY <1>1, <1>2

---------------------------------------------------------------------------
(* The steps.                                                              *)
Moves(at, t, b) ==
  /\ todo[t] # <<>> /\ Advance(t)
  /\ <<at[t], Head(todo[t]), b>> \in Rules
  /\ Placed([at EXCEPT ![t] = b])'

(* The two early returns: only the Unlock of mu remains.                   *)
Leaves(at, t) ==
  /\ at[t] \in {"mu", "closing"}
  /\ Continue(t, Step("Unlock", "mu"))
  /\ Placed([at EXCEPT ![t] = "mu"])'

LEMMA RLockStep ==
  ASSUME NEW at, Placed(at), NEW t \in Threads, RLock(t)
  PROVE  \E b : Moves(at, t, b)
<1> USE DEF Placed
<1>1. todo[t] # <<>> /\ Head(todo[t]).act = "RLock"
  BY DEF RLock, About
<1>2. PICK b : <<at[t], Head(todo[t]), b>> \in Rules /\ Programs([at EXCEPT ![t] = b])'
  BY <1>1, Onward DEF RLock
<1> DEFINE l == Object(t)
           new == [at EXCEPT ![t] = b]
<1>3. \/ l = "mu" /\ at[t] = "free" /\ b = "rmu"
      \/ l = "mu" /\ at[t] = "rst" /\ b = "rstmu"
      \/ l = "statsMu" /\ at[t] = "free" /\ b = "rst"
  BY <1>1, <1>2, ReadRule DEF Object
<1>4. Mutexes(new)'
  <2>1. l \in Locks /\ writer[l] = Nobody /\ ~held[l]
    BY <1>3 DEF RLock, Locks, Mutexes
  <2>2. /\ writer' = writer /\ held' = held
        /\ readers' = [readers EXCEPT ![l] = @ \cup {t}]
    BY DEF RLock
  <2>3. \A m \in Locks : \A u \in Threads :
          /\ new[u] \in WriteHeld(m) <=> at[u] \in WriteHeld(m)
          /\ new[u] \in ReadHeld(m) <=> (at[u] \in ReadHeld(m) \/ (u = t /\ m = l))
    <3>1. \A m \in Locks : /\ b \in WriteHeld(m) <=> at[t] \in WriteHeld(m)
                           /\ b \in ReadHeld(m) <=> (at[t] \in ReadHeld(m) \/ (m = l))
      BY <1>3 DEF Locks, WriteHeld, ReadHeld
    <3>2. \A u \in Threads : new[u] = IF u = t THEN b ELSE at[u]
      OBVIOUS
    <3> HIDE DEF new, l
    <3> QED
      BY <3>1, <3>2
  <2>4. ASSUME NEW m \in Locks, NEW u \in Threads, writer[m] = u, ~held[m]
        PROVE  About(u, "Lock")' /\ Object(u)' = m
    <3>1. u # t /\ About(u, "Lock") /\ Object(u) = m
      BY <1>1, <2>4 DEF Mutexes, About
    <3>2. todo'[u] = todo[u]
      BY <3>1 DEF RLock, Advance, Continue, Programs
    <3> QED
      BY <3>1, <3>2 DEF About, Object
  <2> HIDE DEF new, l
  <2> QED
    BY <2>1, <2>2, <2>3, <2>4 DEF Mutexes
<1>5. Contents(new)' /\ Ending(new)'
  BY <1>3, SameContents, SameEnding DEF RLock, Contents
<1>6. new \in [Threads -> Situations]
  BY <1>3 DEF Situations, Passing, Forever
<1> QED
  BY <1>1, <1>2, <1>4, <1>5, <1>6 DEF Moves, RLock

LEMMA RUnlockStep ==
  ASSUME NEW at, Placed(at), NEW t \in Threads, RUnlock(t)
  PROVE  \E b : Moves(at, t, b)
<1> USE DEF Placed
<1>1. todo[t] # <<>> /\ Head(todo[t]).act = "RUnlock"
  BY DEF RUnlock, About
<1>2. PICK b : <<at[t], Head(todo[t]), b>> \in Rules /\ Programs([at EXCEPT ![t] = b])'
  BY <1>1, Onward DEF RUnlock
<1> DEFINE l == Object(t)
           new == [at EXCEPT ![t] = b]
<1>3. \/ l = "mu" /\ at[t] = "rmu" /\ b = "free"
      \/ l = "mu" /\ at[t] = "rstmu" /\ b = "rst"
      \/ l = "statsMu" /\ at[t] = "rst" /\ b = "free"
  BY <1>1, <1>2, ReadRule DEF Object
<1>4. Mutexes(new)'
  <2>1. l \in Locks
    BY <1>3 DEF Locks
  <2>2. /\ writer' = writer /\ held' = held
        /\ readers' = [readers EXCEPT ![l] = @ \ {t}]
    BY DEF RUnlock
  <2>3. \A m \in Locks : \A u \in Threads :
          /\ new[u] \in WriteHeld(m) <=> at[u] \in WriteHeld(m)
          /\ new[u] \in ReadHeld(m) <=> (at[u] \in ReadHeld(m) /\ ~(u = t /\ m = l))
    <3>1. \A m \in Locks : /\ b \in WriteHeld(m) <=> at[t] \in WriteHeld(m)
                           /\ b \in ReadHeld(m) <=> (at[t] \in ReadHeld(m) /\ ~(m = l))
      BY <1>3 DEF Locks, WriteHeld, ReadHeld
    <3>2. \A u \in Threads : new[u] = IF u = t THEN b ELSE at[u]
      OBVIOUS
    <3> HIDE DEF new, l
    <3> QED
      BY <3>1, <3>2
  <2>4. ASSUME NEW m \in Locks, NEW u \in Threads, writer[m] = u, ~held[m]
        PROVE  About(u, "Lock")' /\ Object(u)' = m
    <3>1. u # t /\ About(u, "Lock") /\ Object(u) = m
      BY <1>1, <2>4 DEF Mutexes, About
    <3>2. todo'[u] = todo[u]
      BY <3>1 DEF RUnlock, Advance, Continue, Programs
    <3> QED
      BY <3>1, <3>2 DEF About, Object
  <2> HIDE DEF new, l
  <2> QED
    BY <2>1, <2>2, <2>3, <2>4 DEF Mutexes
<1>5. Contents(new)' /\ Ending(new)'
  BY <1>3, SameContents, SameEnding DEF RUnlock, Contents
<1>6. new \in [Threads -> Situations]
  BY <1>3 DEF Situations, Passing, Forever
<1> QED
  BY <1>1, <1>2, <1>4, <1>5, <1>6 DEF Moves, RUnlock

LEMMA AnnounceStep ==
  ASSUME NEW at, Placed(at), NEW t \in Threads, Announce(t)
  PROVE  Placed(at)'
<1> USE DEF Placed
<1>1. todo[t] # <<>> /\ Head(todo[t]).act = "Lock" /\ todo' = todo
  BY DEF Announce, About
<1> DEFINE l == Object(t)
<1>2. l \in Locks
  <2>1. \E a, b : <<a, Head(todo[t]), b>> \in Rules
    BY <1>1, LeadsTail DEF Programs, Returns, Jams
  <2> QED
    BY <1>1, <2>1, LockRule DEF Locks, Object
<1>3. Programs(at)' /\ Contents(at)' /\ Ending(at)'
  BY DEF Announce, Programs, Contents, Ending, ending
<1>4. Mutexes(at)'
  <2>1. writer[l] = Nobody /\ ~held[l] /\ writer' = [writer EXCEPT ![l] = t]
    BY <1>2 DEF Announce, Mutexes
  <2>2. held' = held /\ readers' = readers
    BY DEF Announce
  <2>3. \A u \in Threads : at[u] \notin WriteHeld(l)
    BY <1>2, <2>1 DEF Mutexes
  <2>4. About(t, "Lock")' /\ Object(t)' = l
    BY <1>1 DEF About, Object
  <2>5. \A u \in Threads : About(u, "Lock")' = About(u, "Lock") /\ Object(u)' = Object(u)
    BY <1>1 DEF About, Object
  <2> HIDE DEF l
  <2> QED
    BY <1>2, <2>1, <2>2, <2>3, <2>4, <2>5, CacheAssumption DEF Mutexes
<1> QED
  BY <1>3, <1>4

LEMMA LockStep ==
  ASSUME NEW at, Placed(at), NEW t \in Threads, Lock(t)
  PROVE  \E b : Moves(at, t, b)
<1> USE DEF Placed
<1>1. todo[t] # <<>> /\ Head(todo[t]).act = "Lock"
  BY DEF Lock, About
<1>2. PICK b : <<at[t], Head(todo[t]), b>> \in Rules /\ Programs([at EXCEPT ![t] = b])'
  BY <1>1, Onward DEF Lock
<1> DEFINE l == Object(t)
           new == [at EXCEPT ![t] = b]
<1>3. writer[l] = t /\ ~held[l] /\ readers[l] = {}
  BY DEF Lock
<1>4. \/ l = "mu" /\ at[t] = "free" /\ b \in {"mu", "closing"}
      \/ l = "statsMu" /\ at[t] = "free" /\ b = "st"
      \/ l = "mu" /\ at[t] = "toSet" /\ b = "setting"
      \/ l = "statsMu" /\ at[t] = "toDrop" /\ b = "dropping"
      \/ l = "statsMu" /\ at[t] = "kept" /\ b = "keptSt"
  <2>1. /\ at[t] \in {"storing", "kept"} => held["mu"]
        /\ at[t] = "dropping" => held["statsMu"]
    BY DEF Mutexes, Locks, WriteHeld
  <2> QED
    BY <1>1, <1>2, <1>3, <2>1, LockRule DEF Object
<1>5. Mutexes(new)'
  <2>1. l \in Locks
    BY <1>4 DEF Locks
  <2>2. writer' = writer /\ readers' = readers /\ held' = [held EXCEPT ![l] = TRUE]
    BY DEF Lock
  <2>3. \A m \in Locks : \A u \in Threads :
          /\ new[u] \in WriteHeld(m) <=> (at[u] \in WriteHeld(m) \/ (u = t /\ m = l))
          /\ new[u] \in ReadHeld(m) <=> at[u] \in ReadHeld(m)
    <3>1. \A m \in Locks : /\ b \in WriteHeld(m) <=> (at[t] \in WriteHeld(m) \/ m = l)
                           /\ b \in ReadHeld(m) <=> at[t] \in ReadHeld(m)
      BY <1>4 DEF Locks, WriteHeld, ReadHeld
    <3>2. \A u \in Threads : new[u] = IF u = t THEN b ELSE at[u]
      OBVIOUS
    <3> HIDE DEF new, l
    <3> QED
      BY <3>1, <3>2
  <2>4. ASSUME NEW m \in Locks, NEW u \in Threads, writer[m] = u, ~held'[m]
        PROVE  About(u, "Lock")' /\ Object(u)' = m
    <3>1. m # l /\ ~held[m]
      BY <2>1, <2>2, <2>4 DEF Mutexes
    <3>2. About(u, "Lock") /\ Object(u) = m
      BY <2>4, <3>1 DEF Mutexes
    <3>3. u # t
      BY <3>1, <3>2
    <3>4. todo'[u] = todo[u]
      BY <3>3 DEF Lock, Advance, Continue, Programs
    <3> QED
      BY <3>2, <3>4 DEF About, Object
  <2> HIDE DEF new, l
  <2>5. held' \in [Locks -> BOOLEAN] /\ \A m \in Locks : held'[m] = IF m = l THEN TRUE ELSE held[m]
    BY <2>1, <2>2 DEF Mutexes
  <2>6. \A m \in Locks, u \in Threads : (writer'[m] = u /\ held'[m]) <=> new[u] \in WriteHeld(m)
    <3> SUFFICES ASSUME NEW m \in Locks, NEW u \in Threads
                 PROVE  (writer'[m] = u /\ held'[m]) <=> new[u] \in WriteHeld(m)
      OBVIOUS
    <3>1. CASE m = l
      <4>1. writer'[m] = t /\ held'[m] /\ \A v \in Threads : at[v] \notin WriteHeld(m)
        BY <1>3, <2>1, <2>2, <2>5, <3>1 DEF Mutexes
      <4> QED
        BY <2>3, <3>1, <4>1
    <3>2. CASE m # l
      BY <2>2, <2>3, <2>5, <3>2 DEF Mutexes
    <3> QED
      BY <3>1, <3>2
  <2>7. \A m \in Locks : held'[m] => writer'[m] # Nobody /\ readers'[m] = {}
    BY <1>3, <2>2, <2>5, CacheAssumption DEF Mutexes
  <2>8. writer' \in [Locks -> Threads \cup {Nobody}] /\ readers' \in [Locks -> SUBSET Threads]
    BY <2>2 DEF Mutexes
  <2>9. \A m \in Locks, u \in Threads : u \in readers'[m] <=> new[u] \in ReadHeld(m)
    BY <2>2, <2>3 DEF Mutexes
  <2>10. \A m \in Locks, u \in Threads :
           writer'[m] = u /\ ~held'[m] => About(u, "Lock")' /\ Object(u)' = m
    BY <2>2, <2>4
  <2>11. held' \in [Locks -> BOOLEAN]
    BY <2>5
  <2> QED
    BY <2>6, <2>7, <2>8, <2>9, <2>10, <2>11, SMTT(30) DEF Mutexes
<1>6. Contents(new)' /\ Ending(new)'
  BY <1>4, SameContents, SameEnding DEF Lock, Contents
<1>7. new \in [Threads -> Situations]
  BY <1>4 DEF Situations, Passing, Forever
<1> QED
  BY <1>1, <1>2, <1>5, <1>6, <1>7 DEF Moves, Lock

LEMMA UnlockStep ==
  ASSUME NEW at, Placed(at), NEW t \in Threads, Unlock(t)
  PROVE  \E b : Moves(at, t, b)
<1> USE DEF Placed
<1>1. todo[t] # <<>> /\ Head(todo[t]).act = "Unlock"
  BY DEF Unlock, About
<1>2. PICK b : <<at[t], Head(todo[t]), b>> \in Rules /\ Programs([at EXCEPT ![t] = b])'
  BY <1>1, Onward DEF Unlock
<1> DEFINE l == Object(t)
           new == [at EXCEPT ![t] = b]
<1>3. \/ l = "mu" /\ at[t] = "mu" /\ b = "free"
      \/ l = "mu" /\ at[t] = "closed" /\ b = "stopping"
      \/ l = "statsMu" /\ at[t] = "st" /\ b = "free"
      \/ l = "statsMu" /\ at[t] = "keptSt" /\ b = "kept"
  BY <1>1, <1>2, UnlockRule DEF Object
<1>4. l \in Locks /\ at[t] \in WriteHeld(l)
  BY <1>3 DEF Locks, WriteHeld
<1>5. Mutexes(new)'
  <2>1. writer[l] = t /\ held[l] /\ readers[l] = {}
    BY <1>4 DEF Mutexes
  <2>2. /\ writer' = [writer EXCEPT ![l] = Nobody] /\ held' = [held EXCEPT ![l] = FALSE]
        /\ readers' = readers
    BY DEF Unlock
  <2>3. \A m \in Locks : \A u \in Threads :
          /\ new[u] \in WriteHeld(m) <=> (at[u] \in WriteHeld(m) /\ ~(u = t /\ m = l))
          /\ new[u] \in ReadHeld(m) <=> at[u] \in ReadHeld(m)
    <3>1. \A m \in Locks : /\ b \in WriteHeld(m) <=> (at[t] \in WriteHeld(m) /\ m # l)
                           /\ b \in ReadHeld(m) <=> at[t] \in ReadHeld(m)
      BY <1>3 DEF Locks, WriteHeld, ReadHeld
    <3>2. \A u \in Threads : new[u] = IF u = t THEN b ELSE at[u]
      OBVIOUS
    <3> HIDE DEF new, l
    <3> QED
      BY <3>1, <3>2
  <2>4. ASSUME NEW m \in Locks, NEW u \in Threads, writer'[m] = u, ~held'[m]
        PROVE  About(u, "Lock")' /\ Object(u)' = m
    <3>1. m # l /\ writer[m] = u /\ ~held[m]
      BY <1>4, <2>2, <2>4, CacheAssumption DEF Mutexes
    <3>2. u # t /\ About(u, "Lock") /\ Object(u) = m
      BY <1>1, <3>1 DEF Mutexes, About
    <3>3. todo'[u] = todo[u]
      BY <3>2 DEF Unlock, Advance, Continue, Programs
    <3> QED
      BY <3>2, <3>3 DEF About, Object
  <2>5. \A u \in Threads : at[u] \in WriteHeld(l) => u = t
    BY <1>4, <2>1 DEF Mutexes
  <2> HIDE DEF new, l
  <2>6. \A m \in Locks, u \in Threads : (writer'[m] = u /\ held'[m]) <=> new[u] \in WriteHeld(m)
    <3> SUFFICES ASSUME NEW m \in Locks, NEW u \in Threads
                 PROVE  (writer'[m] = u /\ held'[m]) <=> new[u] \in WriteHeld(m)
      OBVIOUS
    <3>1. CASE m = l
      BY <1>4, <2>2, <2>3, <2>5, <3>1 DEF Mutexes
    <3>2. CASE m # l
      BY <2>2, <2>3, <3>2, <1>4 DEF Mutexes
    <3> QED
      BY <3>1, <3>2
  <2>7. \A m \in Locks : held'[m] => writer'[m] # Nobody /\ readers'[m] = {}
    BY <1>4, <2>2 DEF Mutexes
  <2>8. writer' \in [Locks -> Threads \cup {Nobody}] /\ held' \in [Locks -> BOOLEAN]
    BY <2>2 DEF Mutexes
  <2> QED
    BY <2>2, <2>3, <2>4, <2>6, <2>7, <2>8 DEF Mutexes
<1>6. Contents(new)'
  BY <1>3, SameContents DEF Unlock, Contents
<1>7. Ending(new)'
  <2>1. CASE at[t] # "closed"
    BY <1>3, <2>1, SameEnding DEF Unlock
  <2>2. CASE at[t] = "closed"
    <3>1. b = "stopping" /\ closed /\ ~stopped
      BY <1>3, <2>2 DEF Ending
    <3>2. \A u \in Threads : new[u] = IF u = t THEN "stopping" ELSE at[u]
      BY <3>1
    <3> HIDE DEF new
    <3> QED
      BY <2>2, <3>1, <3>2 DEF Ending, Unlock, ending
  <2> QED
    BY <2>1, <2>2
<1>8. new \in [Threads -> Situations]
  BY <1>3 DEF Situations, Passing, Forever
<1> QED
  BY <1>1, <1>2, <1>5, <1>6, <1>7, <1>8 DEF Moves, Unlock

(* The steps on the data within a critical section of mu, and outside.     *)
LEMMA EvictStep ==
  ASSUME NEW at, Placed(at), NEW t \in Threads, Evict(t)
  PROVE  \E b : Moves(at, t, b)
<1> USE DEF Placed
<1>1. todo[t] # <<>> /\ Head(todo[t]).act = "evict"
  BY DEF Evict, About
<1>2. at[t] = "setting"
  <2>1. \E b : <<at[t], Head(todo[t]), b>> \in Rules
    BY <1>1, LeadsTail DEF Programs, Returns, Jams
  <2> QED
    BY <1>1, <2>1, DataRule
<1>3. DOMAIN entries = {}
  BY <1>2, NoEntries
<1>4. Victims(Object(t)) = {{}}
  BY <1>3 DEF Victims
<1>5. entries' = Without({}) /\ Continue(t, <<>> \o Tail(todo[t]))
  BY <1>4 DEF Evict
<1>6. DOMAIN entries' = {}
  BY <1>3, <1>5 DEF Without
<1>7. Advance(t)
  BY <1>1, <1>5 DEF Advance, Programs, Program
<1>8. PICK b : <<at[t], Head(todo[t]), b>> \in Rules /\ Programs([at EXCEPT ![t] = b])'
  BY <1>1, <1>7, Onward
<1>9. b = "storing"
  BY <1>1, <1>8, DataRule
<1>10. Mutexes([at EXCEPT ![t] = b])'
  BY <1>1, <1>2, <1>7, <1>9, SameMutexes
     DEF Evict, Advance, Programs, About, WriteHeld, ReadHeld
<1>11. Contents([at EXCEPT ![t] = b])'
  BY <1>2, <1>3, <1>5, <1>6, SameContents DEF Without
<1>12. Ending([at EXCEPT ![t] = b])'
  BY <1>2, <1>9, SameEnding DEF Evict
<1> QED
  BY <1>1, <1>7, <1>8, <1>9, <1>10, <1>11, <1>12 DEF Moves, Situations, Forever

LEMMA BeginWriteStep ==
  ASSUME NEW at, Placed(at), NEW t \in Threads, BeginWrite(t)
  PROVE  \E b : Moves(at, t, b)
<1> USE DEF Placed
<1>1. todo[t] # <<>> /\ Head(todo[t]).act = "store"
  BY DEF BeginWrite, About
<1>2. PICK b : <<at[t], Head(todo[t]), b>> \in Rules /\ Programs([at EXCEPT ![t] = b])'
  BY <1>1, Onward DEF BeginWrite
<1>3. at[t] = "storing" /\ b = "writing"
  BY <1>1, <1>2, DataRule
<1>4. Mutexes([at EXCEPT ![t] = b])'
  BY <1>1, <1>3, SameMutexes DEF BeginWrite, Advance, Programs, About, WriteHeld, ReadHeld
<1>5. Contents([at EXCEPT ![t] = b])'
  BY <1>3, SameContents DEF BeginWrite, Contents
<1>6. Ending([at EXCEPT ![t] = b])'
  BY <1>3, SameEnding DEF BeginWrite
<1> QED
  BY <1>1, <1>2, <1>3, <1>4, <1>5, <1>6 DEF Moves, BeginWrite, Situations, Forever

LEMMA KeepStep ==
  ASSUME NEW at, Placed(at), NEW t \in Threads, Keep(t)
  PROVE  \E b : Moves(at, t, b)
<1> USE DEF Placed
<1>1. todo[t] # <<>> /\ Head(todo[t]).act = "stored"
  BY DEF Keep, About
<1>2. PICK b : <<at[t], Head(todo[t]), b>> \in Rules /\ Programs([at EXCEPT ![t] = b])'
  BY <1>1, Onward DEF Keep
<1>3. at[t] = "writing" /\ b = "kept" /\ Object(t) \in Keys
  BY <1>1, <1>2, DataRule DEF Object
<1>4. DOMAIN entries = {}
  BY <1>3, NoEntries
<1>5. Mutexes([at EXCEPT ![t] = b])'
  BY <1>1, <1>3, SameMutexes DEF Keep, Advance, Programs, About, WriteHeld, ReadHeld
<1>6. Contents([at EXCEPT ![t] = b])'
  <2>1. entries' = [k \in {Object(t)} |-> "live"]
    BY <1>4 DEF Keep
  <2>2. [at EXCEPT ![t] = b][t] = "kept"
    BY <1>3
  <2> QED
    BY <1>3, <2>1, <2>2 DEF Contents
<1>7. Ending([at EXCEPT ![t] = b])'
  BY <1>3, SameEnding DEF Keep
<1> QED
  BY <1>1, <1>2, <1>3, <1>5, <1>6, <1>7 DEF Moves, Keep, Situations, Forever

(* No key is found: the call ends with the Unlock.                         *)
LEMMA EraseStep ==
  ASSUME NEW at, Placed(at), NEW t \in Threads, Erase(t)
  PROVE  Leaves(at, t)
<1> USE DEF Placed
<1>1. todo[t] # <<>> /\ Head(todo[t]).act = "remove"
  BY DEF Erase, About
<1>2. at[t] = "mu"
  <2>1. \E b : <<at[t], Head(todo[t]), b>> \in Rules
    BY <1>1, LeadsTail DEF Programs, Returns, Jams
  <2> QED
    BY <1>1, <2>1, DataRule
<1>3. DOMAIN entries = {}
  BY <1>2, NoEntries
<1>4. Continue(t, Step("Unlock", "mu")) /\ DOMAIN entries' = {} /\ entries' = Without({Object(t)})
  BY <1>3 DEF Erase, Without
<1>5. Returns(Step("Unlock", "mu"), "mu")
  <2>1. <<"mu", Op("Unlock", "mu"), "free">> \in Rules
    BY DEF Rules, UnlockRules
  <2> QED
    BY <2>1, LeadsStep, StepOp DEF Returns
<1>6. Programs([at EXCEPT ![t] = "mu"])'
  BY <1>4, <1>5, Elsewhere
<1>7. Mutexes([at EXCEPT ![t] = "mu"])'
  BY <1>1, <1>2, <1>4, SameMutexes DEF Erase, Programs, About
<1>8. Contents([at EXCEPT ![t] = "mu"])'
  BY <1>2, <1>3, <1>4, SameContents DEF Without
<1>9. Ending([at EXCEPT ![t] = "mu"])'
  BY <1>2, SameEnding DEF Erase
<1> QED
  BY <1>2, <1>4, <1>6, <1>7, <1>8, <1>9 DEF Leaves, Situations, Passing

LEMMA InMuStep ==
  ASSUME NEW at, Placed(at), NEW t \in Threads, ChangeTTL(t) \/ Empty(t) \/ RangeData(t) \/ Sweep(t)
  PROVE  \E b : Moves(at, t, b)
<1> USE DEF Placed
<1>1. /\ todo[t] # <<>>
      /\ Head(todo[t]).act \in {"renew", "keep", "clear", "scan", "scanned", "sweep"}
  BY DEF ChangeTTL, Empty, RangeData, Sweep, About
<1>2. PICK a : <<at[t], Head(todo[t]), a>> \in Rules
  BY <1>1, LeadsTail DEF Programs, Returns, Jams
<1>3. a = at[t] /\ (~RangeData(t) => a = "mu") /\ a \in {"free", "dropping", "mu"}
  <2>1. ~RangeData(t) => Head(todo[t]).act \notin {"scan", "scanned"}
    BY DEF ChangeTTL, Empty, Sweep, About
  <2> QED
    BY <1>1, <1>2, <2>1, DataRule
<1>4. ~RangeData(t) => DOMAIN entries = {}
  BY <1>3, NoEntries
<1>5. Advance(t)
  <2>1. CASE Sweep(t)
    <3>1. Expired = {}
      <4>1. CASE RangeData(t)
        BY <2>1, <4>1 DEF Sweep, RangeData, About
      <4> QED
        BY <1>4, <4>1 DEF Expired
    <3>2. FlattenSeq([i \in 1..Cardinality(Expired) |-> record \o record]) = <<>>
      <4>1. Cardinality(Expired) = 0
        BY <3>1, FS_EmptySet
      <4>2. [i \in 1..Cardinality(Expired) |-> record \o record] = <<>>
        BY <4>1
      <4> QED
        BY <4>2 DEF FlattenSeq
    <3> QED
      BY <1>1, <2>1, <3>2 DEF Sweep, Advance, Programs, Program
  <2> QED
    BY <2>1 DEF ChangeTTL, Empty, RangeData
<1>6. PICK b : <<at[t], Head(todo[t]), b>> \in Rules /\ Programs([at EXCEPT ![t] = b])'
  BY <1>1, <1>5, Onward
<1>7. b = at[t]
  BY <1>1, <1>6, DataRule
<1>8. [at EXCEPT ![t] = b] = at
  BY <1>7
<1>9. UNCHANGED <<opts, locks, ending>>
  BY DEF ChangeTTL, Empty, RangeData, Sweep
<1>10. Mutexes([at EXCEPT ![t] = b])'
  BY <1>1, <1>5, <1>7, <1>9, SameMutexes DEF Advance, Programs, About
<1>11. Contents([at EXCEPT ![t] = b])'
  <2>1. /\ DOMAIN entries' = DOMAIN entries
        /\ entries' \in [DOMAIN entries' -> {"live", "expired", "kept"}]
    BY <1>4 DEF ChangeTTL, Empty, RangeData, Sweep, Contents, Without
  <2> QED
    BY <1>7, <2>1, SameContents
<1>12. Ending([at EXCEPT ![t] = b])'
  BY <1>3, <1>7, <1>9, SameEnding
<1> QED
  BY <1>1, <1>5, <1>6, <1>8, <1>10, <1>11, <1>12 DEF Moves

(* A second Close only unlocks mu; the first one goes on to stop.          *)
LEMMA ClosingStep ==
  ASSUME NEW at, Placed(at), NEW t \in Threads, Closing(t)
  PROVE  Leaves(at, t) \/ \E b : Moves(at, t, b)
<1> USE DEF Placed
<1>1. todo[t] # <<>> /\ Head(todo[t]).act = "closing"
  BY DEF Closing, About
<1>2. PICK a : <<at[t], Head(todo[t]), a>> \in Rules
  BY <1>1, LeadsTail DEF Programs, Returns, Jams
<1>3. at[t] = "closing" /\ a = "closed"
  BY <1>1, <1>2, DataRule
<1>4. CASE closed
  <2>1. Continue(t, Step("Unlock", "mu"))
    BY <1>4 DEF Closing
  <2>2. Returns(Step("Unlock", "mu"), "mu")
    <3>1. <<"mu", Op("Unlock", "mu"), "free">> \in Rules
      BY DEF Rules, UnlockRules
    <3> QED
      BY <3>1, LeadsStep, StepOp DEF Returns
  <2>3. Programs([at EXCEPT ![t] = "mu"])'
    BY <2>1, <2>2, Elsewhere
  <2>4. Mutexes([at EXCEPT ![t] = "mu"])'
    BY <1>1, <1>3, <2>1, SameMutexes DEF Closing, Programs, About, WriteHeld, ReadHeld
  <2>5. Contents([at EXCEPT ![t] = "mu"])'
    BY <1>3, SameContents DEF Closing, Contents
  <2>6. Ending([at EXCEPT ![t] = "mu"])'
    BY <1>3, <1>4, SameEnding DEF Closing, ending, Ending
  <2> QED
    BY <1>3, <2>1, <2>3, <2>4, <2>5, <2>6 DEF Leaves, Situations, Passing
<1>5. CASE ~closed
  <2>1. Advance(t)
    BY <1>5 DEF Closing
  <2>2. PICK b : <<at[t], Head(todo[t]), b>> \in Rules /\ Programs([at EXCEPT ![t] = b])'
    BY <1>1, <2>1, Onward
  <2>3. b = "closed"
    BY <1>1, <2>2, DataRule
  <2>4. Mutexes([at EXCEPT ![t] = b])'
    BY <1>1, <1>3, <2>1, <2>3, SameMutexes
       DEF Closing, Advance, Programs, About, WriteHeld, ReadHeld
  <2>5. Contents([at EXCEPT ![t] = b])'
    BY <1>3, SameContents DEF Closing, Contents
  <2>6. Ending([at EXCEPT ![t] = b])'
    <3>1. ~stopped /\ \A u \in Threads : at[u] \notin {"closed", "stopping", "waiting"}
      BY <1>5 DEF Ending
    <3> DEFINE new == [at EXCEPT ![t] = b]
    <3>2. \A u \in Threads : new[u] = IF u = t THEN "closed" ELSE at[u]
      BY <2>3
    <3> HIDE DEF new
    <3>3. Ending(new)'
      BY <3>1, <3>2 DEF Ending, Closing
    <3> QED
      BY <3>3 DEF new
  <2> QED
    BY <1>1, <2>1, <2>2, <2>3, <2>4, <2>5, <2>6 DEF Moves, Situations, Passing
<1> QED
  BY <1>3, <1>4, <1>5

LEMMA StopStep ==
  ASSUME NEW at, Placed(at), NEW t \in Threads, Stop(t)
  PROVE  \E b : Moves(at, t, b)
<1> USE DEF Placed
<1>1. todo[t] # <<>> /\ Head(todo[t]).act = "stop"
  BY DEF Stop, About
<1>2. PICK b : <<at[t], Head(todo[t]), b>> \in Rules /\ Programs([at EXCEPT ![t] = b])'
  BY <1>1, Onward DEF Stop
<1>3. at[t] = "stopping" /\ b = "waiting"
  BY <1>1, <1>2, DataRule
<1>4. Mutexes([at EXCEPT ![t] = b])'
  BY <1>1, <1>3, SameMutexes DEF Stop, Advance, Programs, About, WriteHeld, ReadHeld
<1>5. Contents([at EXCEPT ![t] = b])'
  BY <1>3, SameContents DEF Stop, Contents
<1>6. Ending([at EXCEPT ![t] = b])'
  <2> DEFINE new == [at EXCEPT ![t] = b]
  <2>1. closed /\ \A u \in Threads \ {t} : at[u] \notin {"closed", "stopping", "waiting"}
    BY <1>3 DEF Ending
  <2>2. \A u \in Threads : new[u] = IF u = t THEN "waiting" ELSE at[u]
    BY <1>3
  <2> HIDE DEF new
  <2>3. Ending(new)'
    BY <2>1, <2>2 DEF Ending, Stop
  <2> QED
    BY <2>3 DEF new
<1> QED
  BY <1>1, <1>2, <1>3, <1>4, <1>5, <1>6 DEF Moves, Stop, Situations, Passing

LEMMA WaitStep ==
  ASSUME NEW at, Placed(at), NEW t \in Threads, Wait(t)
  PROVE  \E b : Moves(at, t, b)
<1> USE DEF Placed
<1>1. todo[t] # <<>> /\ Head(todo[t]).act = "wait"
  BY DEF Wait, About
<1>2. PICK b : <<at[t], Head(todo[t]), b>> \in Rules /\ Programs([at EXCEPT ![t] = b])'
  BY <1>1, Onward DEF Wait
<1>3. at[t] = "waiting" /\ b = "free"
  BY <1>1, <1>2, DataRule
<1>4. Mutexes([at EXCEPT ![t] = b])'
  BY <1>1, <1>3, SameMutexes DEF Wait, Advance, Programs, About, WriteHeld, ReadHeld
<1>5. Contents([at EXCEPT ![t] = b])'
  BY <1>3, SameContents DEF Wait, Contents
<1>6. Ending([at EXCEPT ![t] = b])'
  <2> DEFINE new == [at EXCEPT ![t] = b]
  <2>1. \A u \in Threads : new[u] = IF u = t THEN "free" ELSE at[u]
    BY <1>3
  <2> HIDE DEF new
  <2>2. Ending(new)'
    BY <2>1 DEF Ending, Wait, ending
  <2> QED
    BY <2>2 DEF new
<1> QED
  BY <1>1, <1>2, <1>3, <1>4, <1>5, <1>6 DEF Moves, Wait, Situations, Passing

(* A goroutine with no step left is outside every critical section.        *)
LEMMA EndsFree ==
  ASSUME NEW at, Placed(at), NEW t \in Threads, todo[t] = <<>>
  PROVE  at[t] = "free"
<1>1. at[t] = "free" \/ at[t] = "never"
  BY LeadsNowhere DEF Placed, Programs, Returns, Jams
<1> QED
  BY <1>1 DEF Placed, Situations, Passing, Forever

LEMMA CallStep ==
  ASSUME NEW at, Placed(at), NEW t \in Threads, todo[t] = <<>>,
         NEW p, Returns(p, "free") \/ \E b \in {"toSet", "toDrop"} : Jams(p, b), Continue(t, p),
         UNCHANGED <<opts, entries, locks, ending>>
  PROVE  \E b \in {"free", "toSet", "toDrop"} : Placed([at EXCEPT ![t] = b])'
<1> USE DEF Placed
<1>1. at[t] = "free"
  BY EndsFree
<1>2. PICK b \in {"free", "toSet", "toDrop"} : Returns(p, b) \/ Jams(p, b)
  OBVIOUS
<1>3. Programs([at EXCEPT ![t] = b])'
  BY <1>2, Elsewhere
<1>4. Mutexes([at EXCEPT ![t] = b])'
  BY <1>1, <1>2, SameMutexes DEF Programs, About, WriteHeld, ReadHeld
<1>5. Contents([at EXCEPT ![t] = b])'
  BY <1>1, SameContents DEF Contents
<1>6. Ending([at EXCEPT ![t] = b])'
  BY <1>1, <1>2, SameEnding
<1> QED
  BY <1>2, <1>3, <1>4, <1>5, <1>6 DEF Situations, Passing

LEMMA Unmoved ==
  ASSUME NEW at, Programs(at), Mutexes(at), UNCHANGED <<todo, locks>>
  PROVE  Programs(at)' /\ Mutexes(at)'
<1>1. Programs(at)'
  BY DEF Programs
<1>2. /\ writer' = writer /\ held' = held /\ readers' = readers
      /\ \A t : About(t, "Lock")' = About(t, "Lock") /\ Object(t)' = Object(t)
  BY DEF locks, About, Object
<1> QED
  BY <1>1, <1>2 DEF Mutexes

LEMMA ExitStep ==
  ASSUME NEW at, Placed(at), Exit
  PROVE  Placed(at)'
<1>1. Programs(at)' /\ Mutexes(at)'
  BY Unmoved DEF Placed, Exit
<1>2. Contents(at)' /\ Ending(at)'
  BY DEF Placed, Exit, Contents, Ending
<1> QED
  BY <1>1, <1>2 DEF Placed

LEMMA ExpireStep ==
  ASSUME NEW at, Placed(at), NEW k \in Keys, Expire(k)
  PROVE  Placed(at)'
<1>1. Programs(at)' /\ Mutexes(at)'
  BY Unmoved DEF Placed, Expire
<1>2. Contents(at)' /\ Ending(at)'
  BY DEF Placed, Expire, Contents, Ending, ending
<1> QED
  BY <1>1, <1>2 DEF Placed

LEMMA WorkStep ==
  ASSUME NEW at, Placed(at), NEW t \in Threads, Work(t)
  PROVE  Leaves(at, t) \/ \E b : Moves(at, t, b)
BY RUnlockStep, LockStep, UnlockStep, EvictStep, BeginWriteStep, KeepStep, EraseStep, InMuStep, ClosingStep,
   StopStep, WaitStep DEF Work

(* What writes to the map finds no entry, and so inserts one.              *)
LEMMA WriterInserts ==
  ASSUME NEW at, Placed(at), NEW t \in Threads, Writing(t)
  PROVE  entries = <<>> /\ About(t, "stored")
<1> USE DEF Placed
<1>1. PICK act \in {"stored", "remove", "sweep", "evict"} : About(t, act)
  BY DEF Writing
<1>2. PICK b : <<at[t], Head(todo[t]), b>> \in Rules /\ Head(todo[t]).act = act
  BY <1>1, LeadsTail DEF Programs, Returns, Jams, About
<1>3. at[t] \in {"mu", "setting", "writing"}
  BY <1>1, <1>2, DataRule
<1>4. DOMAIN entries = {}
  BY <1>3, NoEntries
<1>5. Expired = {} /\ \A k : Victims(k) = {{}}
  BY <1>4 DEF Expired, Victims
<1>6. About(t, "stored")
  BY <1>4, <1>5 DEF Writing
<1>7. entries = <<>>
  BY <1>4 DEF Contents
<1> QED
  BY <1>6, <1>7

LEMMA DeathsNext ==
  ASSUME NEW at, Placed(at), Deaths, [Next]_vars
  PROVE  Deaths'
<1>1. CASE Collide
  <2>1. PICK t \in Threads : Writing(t)
    BY <1>1 DEF Collide
  <2>2. entries = <<>> /\ About(t, "stored")
    BY <2>1, WriterInserts
  <2>3. fatal' = TRUE /\ entries' = entries /\ todo' = todo
    BY <1>1 DEF Collide
  <2> QED
    BY <2>2, <2>3 DEF Deaths, OnlyFirstWriteKills, About
<1>2. CASE UNCHANGED vars
  <2>1. fatal' = fatal /\ entries' = entries /\ todo' = todo
    BY <1>2 DEF vars
  <2> QED
    BY <2>1 DEF Deaths, OnlyFirstWriteKills, About
<1>3. CASE ~Collide /\ ~UNCHANGED vars
  <2>1. ~fatal /\ fatal' = fatal
    BY <1>3 DEF Next, RLock, Announce, Work, RUnlock, Lock, Unlock, Evict, BeginWrite, Keep,
       Erase, ChangeTTL, Empty, RangeData, Sweep, Closing, Stop, Wait, Call, Tick, Exit, Expire,
       ending
  <2> QED
    BY <2>1 DEF Deaths, OnlyFirstWriteKills
<1> QED
  BY <1>1, <1>2, <1>3

LEMMA CollideStep ==
  ASSUME NEW at, Placed(at), Collide
  PROVE  Placed(at)'
<1>1. Programs(at)' /\ Mutexes(at)'
  BY Unmoved DEF Placed, Collide
<1>2. Contents(at)' /\ Ending(at)'
  BY DEF Placed, Collide, Contents, Ending
<1> QED
  BY <1>1, <1>2 DEF Placed

LEMMA InvNext == Inv /\ [Next]_vars => Inv'
<1> SUFFICES ASSUME Inv, [Next]_vars PROVE Inv'
  OBVIOUS
<1>1. PICK at : Placed(at)
  BY DEF Inv
<1>2. opts' = opts
  BY DEF Next, vars, RLock, Announce, Work, RUnlock, Lock, Unlock, Evict, BeginWrite, Keep,
         Erase, ChangeTTL, Empty, RangeData, Sweep, Closing, Stop, Wait, Call, Tick, Exit, Expire,
         Collide
<1>d. Deaths'
  BY <1>1, DeathsNext DEF Inv
<1> SUFFICES \E new : Placed(new)'
  BY <1>2, <1>d DEF Inv
<1>3. ASSUME NEW t \in Threads, RLock(t) \/ Announce(t) \/ Work(t) PROVE \E new : Placed(new)'
  BY <1>1, <1>3, RLockStep, AnnounceStep, WorkStep DEF Moves, Leaves
<1>4. ASSUME NEW c \in Clients, Call(c) PROVE \E new : Placed(new)'
  <2>1. PICK p \in Calls : Continue(c, p)
    BY <1>4 DEF Call
  <2> QED
    BY <1>1, <1>4, <2>1, CallsLead, CallStep DEF Call, Threads
<1>5. CASE Tick
  BY <1>1, <1>5, CleanupReturns, CallStep DEF Tick, Threads
<1>6. CASE Exit
  BY <1>1, <1>6, ExitStep
<1>7. ASSUME NEW k \in Keys, Expire(k) PROVE \E new : Placed(new)'
  BY <1>1, <1>7, ExpireStep
<1>9. CASE Collide
  BY <1>1, <1>9, CollideStep
<1>8. CASE UNCHANGED vars
  <2>1. UNCHANGED <<todo, locks, entries, ending>>
    BY <1>8 DEF vars, locks, ending
  <2>2. Programs(at)' /\ Mutexes(at)'
    BY <1>1, <2>1, Unmoved DEF Placed
  <2>3. Contents(at)' /\ Ending(at)'
    BY <1>1, <2>1 DEF Placed, Contents, Ending, ending
  <2> QED
    BY <1>1, <2>2, <2>3 DEF Placed
<1> QED
  BY <1>3, <1>4, <1>5, <1>6, <1>7, <1>8, <1>9 DEF Next

LEMMA Invariance == Spec => []Inv
BY InvInit, InvNext, PTL DEF Spec

---------------------------------------------------------------------------
(* Nothing but the Unlock of l, and locks of others, lies between the      *)
(* situations in which l is held and the others.                           *)
LEMMA InsideHolds ==
  ASSUME NEW at, Placed(at), NEW t \in Threads, NEW l \in Locks, Inside(t, l)
  PROVE  at[t] \in WriteHeld(l)
<1>1. PICK i \in DOMAIN todo[t] :
        /\ todo[t][i] = [act |-> "Unlock", on |-> l]
        /\ \A j \in 1..(i - 1) : todo[t][j].act \notin {"Lock", "Unlock", "RLock", "RUnlock"}
  BY DEF Inside
<1>2. PICK z : Leads(Rules, todo[t], at[t], z)
  BY DEF Placed, Programs, Returns, Jams
<1>3. i \in 1..Len(todo[t])
  BY <1>2 DEF Leads
<1>4. \A a, b : <<a, todo[t][i], b>> \in Rules => a \in WriteHeld(l)
  <2> SUFFICES ASSUME NEW a, NEW b, <<a, todo[t][i], b>> \in Rules PROVE a \in WriteHeld(l)
    OBVIOUS
  <2>1. todo[t][i].act = "Unlock" /\ todo[t][i].on = l
    BY <1>1
  <2> QED
    BY <2>1, UnlockRule DEF WriteHeld
<1>5. \A j \in 1..(i - 1) : \A a, b :
        <<a, todo[t][j], b>> \in Rules /\ b \in WriteHeld(l) => a \in WriteHeld(l)
  BY <1>1, DataRule DEF WriteHeld, Locks
<1> QED
  BY <1>2, <1>3, <1>4, <1>5, LeadsBack

(* The types, and the critical sections of each mutex exclude each other:  *)
(* no Unlock ever meets a mutex that is not locked (memory_cache.go).      *)
THEOREM TypeCorrect == Spec => []TypeOK
<1>1. Inv => TypeOK
  <2> SUFFICES ASSUME Inv PROVE TypeOK
    OBVIOUS
  <2>1. PICK at : Placed(at)
    BY DEF Inv
  <2>2. opts \in OptionSets
    BY DEF Inv
  <2>3. \E ks \in SUBSET Keys : entries \in [ks -> {"live", "expired", "kept"}]
    <3>1. DOMAIN entries \in SUBSET Keys
      BY <2>1 DEF Placed, Contents
    <3> QED
      BY <2>1, <3>1 DEF Placed, Contents
  <2>4. ASSUME NEW t \in Threads, NEW i \in DOMAIN todo[t]
        PROVE  todo[t][i].on \in Keys \cup Locks \cup {"data", "stopChan", "wg"}
    <3>1. todo[t] \in Seq(Steps(Rules))
      BY <2>1 DEF Placed, Programs, Program
    <3>2. todo[t][i] \in Steps(Rules)
      BY <3>1, <2>4
    <3> QED
      BY <3>2, StepsTyped
  <2>5. \A t \in Threads, l \in Locks : Inside(t, l) => writer[l] = t /\ held[l]
    BY <2>1, InsideHolds DEF Placed, Mutexes
  <2>6. \A l \in Locks : held[l] => readers[l] = {} /\ writer[l] # Nobody
    BY <2>1 DEF Placed, Mutexes
  <2>7. /\ writer \in [Locks -> Threads \cup {Nobody}]
        /\ held \in [Locks -> BOOLEAN]
        /\ readers \in [Locks -> SUBSET Threads]
        /\ closed \in BOOLEAN /\ stopped \in BOOLEAN /\ live \in BOOLEAN /\ fatal \in BOOLEAN
    BY <2>1 DEF Inv, Deaths, Placed, Mutexes, Ending
  <2> QED
    BY <2>2, <2>3, <2>4, <2>5, <2>6, <2>7 DEF TypeOK
<1> QED
  BY <1>1, Invariance, PTL

(* The rule of the step a goroutine is about.                              *)
LEMMA AboutRule ==
  ASSUME NEW at, Placed(at), NEW t \in Threads, NEW act, About(t, act)
  PROVE  \E b : <<at[t], Head(todo[t]), b>> \in Rules /\ Head(todo[t]).act = act
BY LeadsTail DEF Placed, Programs, Returns, Jams, About

(* A range over c.data without a lock (memory_cache.go:211, 276, 326) ends *)
(* the process only while a Set writes the first entry (137).              *)
THEOREM RangesSafe == Spec => []OnlyFirstWriteKills
<1>1. Inv => OnlyFirstWriteKills
  BY DEF Inv, Deaths
<1> QED
  BY <1>1, Invariance, PTL

(* However many goroutines call Close, stopChan is closed once; the second *)
(* time would panic.                                                       *)
THEOREM ClosesOnce == Spec => []CloseOnce
<1>1. Inv => CloseOnce
  <2> SUFFICES ASSUME Inv PROVE CloseOnce
    OBVIOUS
  <2>1. PICK at : Placed(at)
    BY DEF Inv
  <2>2. ASSUME NEW t \in Threads, About(t, "stop") PROVE at[t] = "stopping"
    <3>1. PICK b : <<at[t], Head(todo[t]), b>> \in Rules /\ Head(todo[t]).act = "stop"
      BY <2>1, <2>2, AboutRule
    <3> QED
      BY <3>1, DataRule
  <2> QED
    BY <2>1, <2>2 DEF CloseOnce, Placed, Ending
<1> QED
  BY <1>1, Invariance, PTL

(* When the Close that stopped the cleanup has returned, the goroutine of  *)
(* startCleanup is gone.                                                   *)
THEOREM Quiesces == Spec => []CloseQuiesces
<1>1. Inv => CloseQuiesces
  <2> SUFFICES ASSUME Inv, stopped, live PROVE \E t \in Threads : About(t, "wait")
    BY DEF CloseQuiesces
  <2>1. PICK at : Placed(at)
    BY DEF Inv
  <2>2. PICK t \in Threads : at[t] = "waiting"
    BY <2>1 DEF Placed, Ending
  <2>3. todo[t] # <<>>
    BY <2>1, <2>2, EndsFree
  <2>4. \E b : <<at[t], Head(todo[t]), b>> \in Rules
    BY <2>1, <2>3, LeadsTail DEF Placed, Programs, Returns, Jams
  <2>5. Head(todo[t]).act = "wait"
    BY <2>2, <2>4, LockRule, UnlockRule, ReadRule, DataRule
  <2> QED
    BY <2>3, <2>5 DEF About
<1> QED
  BY <1>1, Invariance, PTL

---------------------------------------------------------------------------
(* Whether a call returns can be seen from where its goroutine is, and     *)
(* from its last step.                                                     *)
LEMMA PassingReturns ==
  ASSUME NEW at, Placed(at), NEW t \in Threads
  PROVE  /\ Returns(todo[t], at[t]) <=> at[t] \in Passing
         /\ SelfLocking(t) <=> at[t] \notin Passing
<1> DEFINE Stuck == (Situations \ Passing) \cup {"never"}
<1>1. at[t] \in Situations /\ (Returns(todo[t], at[t]) \/ Jams(todo[t], at[t]))
  BY DEF Placed, Programs
<1>2. ASSUME NEW a, NEW x, NEW b, <<a, x, b>> \in Rules PROVE a \in Passing <=> b \in Passing
  BY <1>2, LockRule, UnlockRule, ReadRule, DataRule DEF Passing
<1>3. ASSUME Returns(todo[t], at[t]) PROVE at[t] \in Passing
  <2> SUFFICES ASSUME at[t] \in Stuck PROVE FALSE
    BY <1>1
  <2>1. "free" \notin Stuck /\ Stuck \cap Passing = {}
    BY DEF Situations, Passing, Forever
  <2> HIDE DEF Stuck
  <2>2. PICK i \in 1..Len(todo[t]) : \E c, d : c \in Stuck /\ d \notin Stuck /\ <<c, todo[t][i], d>> \in Rules
    BY <1>3, <2>1, LeadsOut DEF Returns
  <2>3. PICK c, d : c \in Stuck /\ d \notin Stuck /\ <<c, todo[t][i], d>> \in Rules
    BY <2>2
  <2>4. d \in Passing
    BY <2>3, RuleSituations DEF Stuck
  <2> QED
    BY <1>2, <2>1, <2>3, <2>4
<1>4. ASSUME Jams(todo[t], at[t]) PROVE at[t] \notin Passing
  <2> SUFFICES ASSUME at[t] \in Passing PROVE FALSE
    OBVIOUS
  <2>1. "never" \notin Passing
    BY DEF Passing
  <2>2. PICK i \in 1..Len(todo[t]) : \E c, d : c \in Passing /\ d \notin Passing /\ <<c, todo[t][i], d>> \in Rules
    BY <1>4, <2>1, LeadsOut DEF Jams
  <2> QED
    BY <1>2, <2>2
<1>5. ASSUME Jams(todo[t], at[t]) PROVE SelfLocking(t)
  <2>1. todo[t] # <<>>
    <3> SUFFICES ASSUME todo[t] = <<>> PROVE FALSE
      OBVIOUS
    <3>1. at[t] = "never"
      BY <1>5, LeadsNowhere DEF Jams
    <3> QED
      BY <1>1, <3>1 DEF Situations, Passing, Forever
  <2>2. PICK c : <<c, Last(todo[t]), "never">> \in Rules
    BY <1>5, <2>1, LeadsLast DEF Jams
  <2>3. Last(todo[t]).act = "Lock"
    BY <2>2, UnlockRule, ReadRule, DataRule
  <2> QED
    BY <2>1, <2>3 DEF SelfLocking
<1>6. ASSUME Returns(todo[t], at[t]) PROVE ~SelfLocking(t)
  <2> SUFFICES ASSUME SelfLocking(t) PROVE FALSE
    OBVIOUS
  <2>1. PICK c : <<c, Last(todo[t]), "free">> \in Rules
    BY <1>6, LeadsLast DEF Returns, SelfLocking
  <2> QED
    BY <2>1, LockRule DEF SelfLocking
<1> QED
  BY <1>1, <1>3, <1>4, <1>5, <1>6

(* Goroutines of which each waits for another one of them, none in a call  *)
(* that jams: impossible.                                                  *)
LEMMA NoCircle ==
  ASSUME NEW at, Placed(at), NEW D \in SUBSET Threads, D # {},
         \A t \in D : \E u \in D : WaitsFor(t, u),
         \A t \in D : ~SelfLocking(t)
  PROVE  FALSE
<1>1. ASSUME NEW t \in D
      PROVE  /\ at[t] \in {"free", "rst"} /\ Object(t) \in Locks
             /\ at[t] = "rst" => About(t, "RLock") /\ Object(t) = "mu"
  <2>1. PICK act \in {"Lock", "RLock"} : About(t, act)
    BY DEF WaitsFor
  <2>2. PICK b : <<at[t], Head(todo[t]), b>> \in Rules /\ Head(todo[t]).act = act
    BY <2>1, AboutRule
  <2>3. at[t] \in Passing
    BY PassingReturns
  <2>4. CASE act = "Lock"
    BY <2>2, <2>3, <2>4, LockRule DEF Object, Passing, Locks
  <2>5. CASE act = "RLock"
    BY <2>1, <2>2, <2>5, ReadRule DEF Object, Locks
  <2> QED
    BY <2>4, <2>5
<1>2. \A t \in D, l \in Locks : ~(writer[l] = t /\ held[l]) /\ (t \in readers[l] => l = "statsMu" /\ at[t] = "rst")
  BY <1>1 DEF Placed, Mutexes, WriteHeld, ReadHeld, Locks
<1>3. ASSUME NEW u \in D, NEW l \in Locks, writer[l] = u
      PROVE  \E v \in D : v \in readers[l]
  <2>1. About(u, "Lock") /\ Object(u) = l /\ ~held[l]
    BY <1>2, <1>3 DEF Placed, Mutexes
  <2>2. PICK v \in D : WaitsFor(u, v)
    OBVIOUS
  <2> QED
    BY <1>3, <2>1, <2>2 DEF WaitsFor
<1>4. \A t \in D : writer["mu"] # t
  BY <1>2, <1>3 DEF Locks
<1>5. ASSUME NEW t \in D PROVE writer[Object(t)] \in D
  <2>1. PICK u \in D : WaitsFor(t, u)
    OBVIOUS
  <2> QED
    BY <2>1 DEF WaitsFor
<1>6. \A t \in D : Object(t) = "statsMu"
  BY <1>1, <1>4, <1>5 DEF Locks
<1>7. PICK t \in D : TRUE
  OBVIOUS
<1>8. PICK v \in D : v \in readers["statsMu"]
  BY <1>3, <1>5, <1>6 DEF Locks
<1> QED
  BY <1>1, <1>2, <1>6, <1>8 DEF Locks

(* Whatever the order in which statsMu and mu are taken (memory_cache.go:  *)
(* 520, 176, 474), goroutines stop each other only with the help of a Set  *)
(* or a DeleteNamespace, which stop themselves.                            *)
THEOREM DeadlockBySelfLock == Spec => []DeadlockNeedsSelfLock
<1>1. Inv => DeadlockNeedsSelfLock
  <2> SUFFICES ASSUME Inv, NEW D \in (SUBSET Threads) \ {{}}, \A t \in D : \E u \in D : WaitsFor(t, u)
               PROVE  \E t \in D : SelfLocking(t)
    BY DEF DeadlockNeedsSelfLock
  <2>1. PICK at : Placed(at)
    BY DEF Inv
  <2>2. D \in SUBSET Threads /\ D # {}
    OBVIOUS
  <2>3. ASSUME \A t \in D : ~SelfLocking(t) PROVE FALSE
    BY <2>1, <2>2, <2>3, NoCircle
  <2> QED
    BY <2>3
<1> QED
  BY <1>1, Invariance, PTL

---------------------------------------------------------------------------
(* The cache implements CacheLatch.                                        *)
Acquires(x) == x.on = "mu" /\ x.act \in {"Lock", "RLock"}
NeedsMu(s)  == \E i \in DOMAIN s : Acquires(s[i])

LEMMA NeedsOf == \A t : Needs(t) <=> NeedsMu(todo[t])
BY DEF Needs, NeedsMu, Acquires

LEMMA NeedsTail ==
  ASSUME NEW S, NEW s \in Seq(S), s # <<>>
  PROVE  NeedsMu(s) <=> Acquires(Head(s)) \/ NeedsMu(Tail(s))
<1>1. /\ Len(s) \in Nat \ {0} /\ Head(s) = s[1] /\ DOMAIN s = 1..Len(s)
      /\ DOMAIN Tail(s) = 1..(Len(s) - 1)
      /\ \A i \in 1..(Len(s) - 1) : Tail(s)[i] = s[i + 1]
  OBVIOUS
<1>2. ASSUME NEW i \in 1..Len(s), Acquires(s[i]) PROVE Acquires(Head(s)) \/ NeedsMu(Tail(s))
  <2>1. CASE i = 1
    BY <1>1, <1>2, <2>1
  <2>2. CASE i # 1
    <3>1. i - 1 \in 1..(Len(s) - 1) /\ (i - 1) + 1 = i
      BY <1>1, <2>2
    <3>2. Tail(s)[i - 1] = s[i]
      BY <1>1, <3>1
    <3> QED
      BY <1>1, <1>2, <3>1, <3>2 DEF NeedsMu
  <2> QED
    BY <2>1, <2>2
<1>3. ASSUME NEW i \in 1..(Len(s) - 1), Acquires(Tail(s)[i]) PROVE NeedsMu(s)
  <2>1. i + 1 \in 1..Len(s) /\ Acquires(s[i + 1])
    BY <1>1, <1>3
  <2> QED
    BY <1>1, <2>1 DEF NeedsMu
<1>4. Acquires(Head(s)) => NeedsMu(s)
  <2>1. 1 \in DOMAIN s
    BY <1>1
  <2> QED
    BY <1>1, <2>1 DEF NeedsMu
<1> QED
  BY <1>1, <1>2, <1>3, <1>4 DEF NeedsMu

(* The mutex is taken for good when a goroutine is in a Set.               *)
LEMMA TakenIsForever ==
  ASSUME NEW at, Placed(at)
  PROVE  /\ Taken <=> \E t \in Threads : at[t] \in Forever
         /\ \A t \in Threads : at[t] \in Forever => Needs(t) /\ writer["mu"] = t /\ held["mu"]
<1>1. ASSUME NEW t \in Threads, at[t] \in Forever
      PROVE  Needs(t) /\ SelfLocking(t) /\ writer["mu"] = t /\ held["mu"]
  <2>1. SelfLocking(t) /\ ~Returns(todo[t], at[t])
    BY <1>1, PassingReturns DEF Passing, Forever
  <2>2. Jams(todo[t], at[t])
    BY <2>1 DEF Placed, Programs
  <2>3. "never" \notin Forever
    BY DEF Forever
  <2>4. PICK i \in 1..Len(todo[t]) : \E c, d : c \in Forever /\ d \notin Forever /\ <<c, todo[t][i], d>> \in Rules
    BY <1>1, <2>2, <2>3, LeadsOut DEF Jams
  <2>5. Acquires(todo[t][i])
    BY <2>4, LockRule, UnlockRule, ReadRule, DataRule DEF Forever, Acquires
  <2>6. i \in DOMAIN todo[t]
    BY <2>2 DEF Jams, Leads
  <2>7. Needs(t)
    BY <2>5, <2>6 DEF Needs, Acquires
  <2>8. writer["mu"] = t /\ held["mu"]
    BY <1>1 DEF Placed, Mutexes, Forever, WriteHeld, Locks
  <2> QED
    BY <2>1, <2>7, <2>8
<1>2. ASSUME NEW t \in Threads, writer["mu"] = t, held["mu"], SelfLocking(t) PROVE at[t] \in Forever
  <2>1. at[t] \in WriteHeld("mu") /\ at[t] \notin Passing
    BY <1>2, PassingReturns DEF Placed, Mutexes, Locks
  <2> QED
    BY <2>1 DEF WriteHeld, Passing, Forever
<1> QED
  BY <1>1, <1>2 DEF Taken

TakenAt(at) ==
  /\ Taken <=> \E t \in Threads : at[t] \in Forever
  /\ \A t \in Threads : at[t] \in Forever => Needs(t)

TakenWherever == \A at : Placed(at) => TakenAt(at)

LEMMA TakenAlways == TakenWherever
BY TakenIsForever DEF TakenWherever, TakenAt

LEMMA TakenNext ==
  ASSUME NEW at, Placed(at)'
  PROVE  TakenAt(at)'
<1>1. TakenWherever'
  BY TakenAlways, PTL
<1> QED
  BY <1>1 DEF TakenWherever

(* Who needs mu after t has gone on with the program s.                    *)
LEMMA NeedsNext ==
  ASSUME NEW at, Placed(at), NEW t \in Threads, NEW s, Continue(t, s)
  PROVE  /\ Needs(t)' <=> NeedsMu(s)
         /\ \A u \in Threads \ {t} : Needs(u)' <=> Needs(u)
<1>1. todo \in [Threads -> Program] /\ todo' = [todo EXCEPT ![t] = s]
  BY DEF Placed, Programs, Continue
<1>2. todo'[t] = s /\ \A u \in Threads \ {t} : todo'[u] = todo[u]
  BY <1>1
<1> QED
  BY <1>2 DEF Needs, NeedsMu, Acquires

Waiting == {t \in Threads : Needs(t)}

LEMMA LatchStep ==
  ASSUME NEW at, Placed(at), NEW t \in Threads, NEW b, Moves(at, t, b),
         RLock(t) \/ Work(t)
  PROVE  Latch!Next \/ UNCHANGED <<Taken, Waiting>>
<1> DEFINE new == [at EXCEPT ![t] = b]
<1>1. Placed(new)' /\ <<at[t], Head(todo[t]), b>> \in Rules /\ todo[t] # <<>>
  BY DEF Moves
<1>2. todo[t] \in Seq(Steps(Rules)) /\ Continue(t, Tail(todo[t]))
  BY DEF Moves, Advance, Placed, Programs, Program
<1>3. /\ Needs(t) <=> Acquires(Head(todo[t])) \/ Needs(t)'
      /\ \A u \in Threads \ {t} : Needs(u)' <=> Needs(u)
  BY <1>1, <1>2, NeedsOf, NeedsTail, NeedsNext
<1>4. \A u \in Threads : new[u] = IF u = t THEN b ELSE at[u]
  BY DEF Placed
<1> HIDE DEF new
<1>5. /\ Taken <=> \E u \in Threads : at[u] \in Forever
      /\ Taken' <=> \E u \in Threads : new[u] \in Forever
      /\ b \in Forever => Needs(t)'
  BY <1>1, <1>4, TakenIsForever, TakenNext DEF TakenAt
<1>6. CASE ~Acquires(Head(todo[t]))
  <2>1. at[t] \in Forever <=> b \in Forever
    BY <1>1, <1>6, LockRule, UnlockRule, ReadRule, DataRule DEF Forever, Acquires
  <2>2. Taken' = Taken
    BY <1>4, <1>5, <2>1 DEF Taken
  <2>3. Waiting' = Waiting
    BY <1>3, <1>6 DEF Waiting
  <2> QED
    BY <2>2, <2>3
<1>7. CASE Acquires(Head(todo[t]))
  <2>1. ~Taken
    <3>1. CASE Head(todo[t]).act = "RLock"
      <4>1. writer["mu"] = Nobody
        BY <1>1, <1>7, <3>1 DEF Acquires, RLock, Work, RUnlock, Lock, Unlock, Evict, BeginWrite,
           Keep, Erase, ChangeTTL, Empty, RangeData, Sweep, Closing, Stop, Wait, About, Object
      <4> QED
        BY <4>1, CacheAssumption DEF Taken
    <3>2. CASE Head(todo[t]).act = "Lock"
      <4>1. ~held["mu"]
        BY <1>1, <1>7, <3>2 DEF Acquires, RLock, Work, RUnlock, Lock, Unlock, Evict, BeginWrite,
           Keep, Erase, ChangeTTL, Empty, RangeData, Sweep, Closing, Stop, Wait, About, Object
      <4> QED
        BY <4>1 DEF Taken
    <3> QED
      BY <1>7, <3>1, <3>2 DEF Acquires
  <2>2. Taken' <=> b \in Forever
    BY <1>4, <1>5, <2>1
  <2>3. t \in Waiting
    BY <1>3, <1>7 DEF Waiting
  <2>4. CASE b \in Forever
    <3>1. Taken' = TRUE
      BY <2>2, <2>4 DEF Taken
    <3>2. Waiting' = Waiting
      BY <1>3, <1>5, <1>7, <2>4 DEF Waiting
    <3>3. Latch!Take(t)
      BY <2>1, <2>3, <3>1, <3>2 DEF Latch!Take, Waiting
    <3> QED
      BY <3>3 DEF Latch!Next
  <2>5. CASE b \notin Forever
    <3>1. Taken' = Taken
      BY <2>1, <2>2, <2>5 DEF Taken
    <3>2. Waiting' = Waiting \/ Waiting' = Waiting \ {t}
      BY <1>3 DEF Waiting
    <3>3. Waiting' = Waiting \ {t} => Latch!Pass(t)
      BY <2>1, <2>3, <3>1 DEF Latch!Pass, Waiting
    <3> QED
      BY <3>1, <3>2, <3>3 DEF Latch!Next
  <2> QED
    BY <2>4, <2>5
<1> QED
  BY <1>6, <1>7

(* The rest of the call is cut off, Locks of mu included.                  *)
LEMMA LatchLeave ==
  ASSUME NEW at, Placed(at), NEW t \in Threads, Leaves(at, t)
  PROVE  Latch!Next \/ UNCHANGED <<Taken, Waiting>>
<1> DEFINE new == [at EXCEPT ![t] = "mu"]
<1>1. Placed(new)' /\ at[t] \in {"mu", "closing"} /\ Continue(t, Step("Unlock", "mu"))
  BY DEF Leaves
<1>2. \A u \in Threads : new[u] = IF u = t THEN "mu" ELSE at[u]
  BY DEF Placed
<1>3. ~NeedsMu(Step("Unlock", "mu"))
  BY DEF NeedsMu, Step, Acquires
<1>4. ~Needs(t)' /\ \A u \in Threads \ {t} : Needs(u)' <=> Needs(u)
  BY <1>1, <1>3, NeedsNext
<1> HIDE DEF new
<1>5. \A u \in Threads : at[u] \notin Forever
  <2>1. writer["mu"] = t
    BY <1>1 DEF Placed, Mutexes, WriteHeld, Locks
  <2>2. at[t] \notin Forever
    BY <1>1 DEF Forever
  <2> QED
    BY <2>1, <2>2, TakenIsForever
<1>6. ~Taken
  BY <1>5, TakenIsForever
<1>7. ~Taken'
  <2>1. \A u \in Threads : new[u] \notin Forever
    BY <1>2, <1>5 DEF Forever
  <2> QED
    BY <1>1, <2>1, TakenNext DEF TakenAt
<1>8. Waiting' = Waiting \ {t}
  BY <1>4 DEF Waiting
<1>9. t \in Waiting => Latch!Pass(t)
  BY <1>6, <1>7, <1>8 DEF Latch!Pass, Waiting, Taken
<1> QED
  BY <1>6, <1>7, <1>8, <1>9 DEF Latch!Next, Taken, Waiting

LEMMA LatchUnmoved ==
  ASSUME NEW at, Placed(at), Placed(at)', UNCHANGED todo
  PROVE  UNCHANGED <<Taken, Waiting>>
<1>1. Taken' = Taken
  BY TakenIsForever, TakenNext DEF TakenAt, Taken
<1>2. Waiting' = Waiting
  BY DEF Waiting, Needs
<1> QED
  BY <1>1, <1>2

LEMMA LatchCall ==
  ASSUME NEW at, Placed(at), NEW t \in Threads, todo[t] = <<>>,
         NEW p, Returns(p, "free") \/ \E b \in {"toSet", "toDrop"} : Jams(p, b), Continue(t, p),
         UNCHANGED <<opts, entries, locks, ending>>
  PROVE  Latch!Next \/ UNCHANGED <<Taken, Waiting>>
<1>1. PICK b \in {"free", "toSet", "toDrop"} : Placed([at EXCEPT ![t] = b])'
  BY CallStep
<1> DEFINE new == [at EXCEPT ![t] = b]
<1>2. /\ at[t] \notin Forever /\ new[t] \notin Forever
      /\ \A u \in Threads \ {t} : new[u] = at[u]
  BY EndsFree DEF Forever, Placed
<1> HIDE DEF new
<1>3. Taken' = Taken
  <2>1. TakenAt(at) /\ TakenAt(new)'
    BY <1>1, TakenAlways, TakenNext DEF new, TakenWherever
  <2> QED
    BY <1>2, <2>1 DEF TakenAt, Taken
<1>4. ~Needs(t) /\ \A u \in Threads \ {t} : Needs(u)' <=> Needs(u)
  <2>1. ~Needs(t)
    BY DEF Needs
  <2> QED
    BY <2>1, NeedsNext
<1>5. Waiting' = Waiting \/ Waiting' = Waiting \cup {t}
  BY <1>4 DEF Waiting
<1>6. Waiting' = Waiting \cup {t} => Latch!Enter(t)
  BY <1>3, <1>4 DEF Latch!Enter, Waiting
<1> QED
  BY <1>3, <1>5, <1>6 DEF Latch!Next

LEMMA LatchNext == Inv /\ [Next]_vars => [Latch!Next]_<<Taken, Waiting>>
<1> SUFFICES ASSUME Inv, [Next]_vars PROVE Latch!Next \/ UNCHANGED <<Taken, Waiting>>
  OBVIOUS
<1>1. PICK at : Placed(at)
  BY DEF Inv
<1>2. ASSUME NEW t \in Threads, RLock(t) \/ Work(t) PROVE Latch!Next \/ UNCHANGED <<Taken, Waiting>>
  <2>1. Leaves(at, t) \/ \E b : Moves(at, t, b)
    BY <1>1, <1>2, RLockStep, WorkStep
  <2> QED
    BY <1>1, <1>2, <2>1, LatchStep, LatchLeave
<1>3. ASSUME NEW t \in Threads, Announce(t) PROVE UNCHANGED <<Taken, Waiting>>
  BY <1>1, <1>3, AnnounceStep, LatchUnmoved DEF Announce
<1>4. ASSUME NEW c \in Clients, Call(c) PROVE Latch!Next \/ UNCHANGED <<Taken, Waiting>>
  <2>1. PICK p \in Calls : Continue(c, p)
    BY <1>4 DEF Call
  <2> QED
    BY <1>1, <1>4, <2>1, CallsLead, LatchCall DEF Call, Threads
<1>5. ASSUME Tick PROVE Latch!Next \/ UNCHANGED <<Taken, Waiting>>
  BY <1>1, <1>5, CleanupReturns, LatchCall DEF Tick, Threads
<1>6. ASSUME Exit PROVE UNCHANGED <<Taken, Waiting>>
  BY <1>1, <1>6, ExitStep, LatchUnmoved DEF Exit
<1>7. ASSUME NEW k \in Keys, Expire(k) PROVE UNCHANGED <<Taken, Waiting>>
  BY <1>1, <1>7, ExpireStep, LatchUnmoved DEF Expire
<1>8. ASSUME Collide PROVE UNCHANGED <<Taken, Waiting>>
  BY <1>1, <1>8, CollideStep, LatchUnmoved DEF Collide
<1>9. CASE UNCHANGED vars
  BY <1>9 DEF vars, Taken, Waiting, Needs, SelfLocking
<1> QED
  BY <1>2, <1>3, <1>4, <1>5, <1>6, <1>7, <1>8, <1>9 DEF Next

(* As far as mu is concerned the cache is a latch, whoever calls it: the   *)
(* calls that need mu get through until a Set keeps it (line 112).         *)
THEOREM CacheIsLatch == Spec => MuIsLatch
<1>1. Init => Latch!Init
  <2> SUFFICES ASSUME Init PROVE Latch!Init
    OBVIOUS
  <2>1. ~Taken
    BY DEF Init, Taken, Locks
  <2>2. Waiting = {}
    BY DEF Init, Waiting, Needs
  <2> QED
    BY <2>1, <2>2 DEF Latch!Init, Taken, Waiting
<1> QED
  BY <1>1, Invariance, LatchNext, PTL DEF Spec, MuIsLatch, Latch!Spec, Waiting

---------------------------------------------------------------------------
(* Options and keys (CacheRules), for every text, number and order.        *)

SoundOptions(intervals) ==
  [maxSize : Int \ {0}, policy : EvictionPolicies, interval : intervals,
   ttl : {t \in Int : VaildateTTL(t)}, stats : BOOLEAN]

(* The field an option sets gets a value that SoundOptions allows.         *)
Sets(o, field, values) == o.field = field /\ o.value \in values

LEMMA DefaultTTLValid == DefaultTTL \in Int /\ VaildateTTL(DefaultTTL)
<1>1. MinTTL <= DefaultTTL /\ DefaultTTL <= MaxTTL /\ {MinTTL, DefaultTTL, MaxTTL} \subseteq Int
  BY SMT DEF MinTTL, MaxTTL, DefaultTTL
<1> QED
  BY <1>1 DEF VaildateTTL

Fits(o, intervals) ==
  \/ Sets(o, "maxSize", Int \ {0})
  \/ Sets(o, "policy", EvictionPolicies)
  \/ Sets(o, "interval", intervals)
  \/ Sets(o, "ttl", {t \in Int : VaildateTTL(t)})
  \/ Sets(o, "stats", BOOLEAN)

(* A duration that nobody changes is positive when it is used.             *)
LEMMA OptionFits ==
  /\ \A o \in Options : Fits(o, Int)
  /\ \A o \in SteadyOptions : Fits(o, Nat \ {0})
<1> SUFFICES ASSUME NEW I PROVE \A o \in ValueOptions : Fits(o, I)
  <2> SUFFICES /\ \A i, j \in Intervals : Fits(WithCleanupInterval(i, j), Int)
               /\ \A i \in Intervals : Fits(WithCleanupInterval(i, i), Nat \ {0})
    BY DEF Options, SteadyOptions
  <2>1. \A i, j \in Intervals : WithCleanupInterval(i, j).value \in Int
    BY RulesAssumption DEF WithCleanupInterval, Option, DefaultCleanupTicker
  <2>2. \A i \in Intervals : WithCleanupInterval(i, i).value \in Nat \ {0}
    BY RulesAssumption DEF WithCleanupInterval, Option, DefaultCleanupTicker
  <2>3. \A i, j : WithCleanupInterval(i, j).field = "interval"
    BY DEF WithCleanupInterval, Option
  <2> QED
    BY <2>1, <2>2, <2>3 DEF Fits, Sets
<1> TAKE o \in ValueOptions
<1>1. ASSUME NEW n \in Sizes, o = WithMaxSize(n) PROVE Sets(o, "maxSize", Int \ {0})
  BY <1>1, RulesAssumption DEF WithMaxSize, Option, Sets, DefaultMaxSize
<1>2. ASSUME NEW p \in Policies, o = WithEvictionPolicy(p) PROVE Sets(o, "policy", EvictionPolicies)
  BY <1>2 DEF WithEvictionPolicy, Option, Sets, EvictionPolicies
<1>3. ASSUME NEW t \in TTLs, o = WithDefaultTTL(t)
      PROVE  Sets(o, "ttl", {u \in Int : VaildateTTL(u)})
  <2>1. o.field = "ttl" /\ o.value = IF VaildateTTL(t) THEN t ELSE DefaultTTL
    BY <1>3 DEF WithDefaultTTL, Option
  <2> QED
    BY <2>1, DefaultTTLValid, RulesAssumption DEF Sets
<1>4. ASSUME NEW b \in BOOLEAN, o = WithEnableStats(b) PROVE Sets(o, "stats", BOOLEAN)
  BY <1>4 DEF WithEnableStats, Option, Sets
<1> QED
  BY <1>1, <1>2, <1>3, <1>4 DEF ValueOptions, Fits

(* An option keeps sound options sound.                                    *)
LEMMA OptionKeeps ==
  ASSUME NEW I, NEW given \in SoundOptions(I), NEW o, Fits(o, I)
  PROVE  [given EXCEPT ![o.field] = o.value] \in SoundOptions(I)
<1> DEFINE f == o.field
           v == o.value
           next == [given EXCEPT ![f] = v]
<1>1. \/ f = "maxSize" /\ v \in Int \ {0}
      \/ f = "policy" /\ v \in EvictionPolicies
      \/ f = "interval" /\ v \in I
      \/ f = "ttl" /\ v \in {t \in Int : VaildateTTL(t)}
      \/ f = "stats" /\ v \in BOOLEAN
  BY DEF Fits, Sets
<1> HIDE DEF f, v
<1>2. next \in SoundOptions(I)
  <2>1. CASE f = "maxSize"
    BY <1>1, <2>1 DEF SoundOptions
  <2>2. CASE f = "policy"
    BY <1>1, <2>2 DEF SoundOptions
  <2>3. CASE f = "interval"
    BY <1>1, <2>3 DEF SoundOptions
  <2>4. CASE f = "ttl"
    BY <1>1, <2>4 DEF SoundOptions
  <2>5. CASE f = "stats"
    BY <1>1, <2>5 DEF SoundOptions
  <2> QED
    BY <1>1, <2>1, <2>2, <2>3, <2>4, <2>5
<1> QED
  BY <1>2 DEF f, v

(* The largest element of an initial segment of the numbers.               *)
LEMMA Largest ==
  ASSUME NEW m \in Nat, NEW s \in SUBSET (1..m), m \in s
  PROVE  Max(s) = m
<1>1. \E x \in s : \A y \in s : x >= y
  OBVIOUS
<1>2. Max(s) \in s /\ \A y \in s : Max(s) >= y
  BY <1>1 DEF Max
<1> DEFINE x == Max(s)
<1> HIDE DEF x
<1>3. x \in 1..m /\ x >= m
  BY <1>2 DEF x
<1> QED
  BY <1>3 DEF x

(* FoldLeft's recursion over the options with the indices 1 to m.          *)
Apply(given, o) == [given EXCEPT ![o.field] = o.value]

Applying(m, options, f) ==
  f = [s \in SUBSET (1..m) |->
         IF s = {} THEN DefaultCacheOptions
         ELSE Apply(f[s \ {Max(s)}], options[Max(s)])]

LEMMA ApplyingExists ==
  ASSUME NEW n \in Nat, NEW options
  PROVE  \E f : Applying(n, options, f)
<1> DEFINE M == {m \in Nat : \E f : Applying(m, options, f)}
<1>1. 0 \in M
  <2> DEFINE f == [s \in SUBSET (1..0) |-> DefaultCacheOptions]
  <2>1. \A s \in SUBSET (1..0) : s = {}
    OBVIOUS
  <2>2. Applying(0, options, f)
    BY <2>1 DEF Applying
  <2> HIDE DEF f
  <2> QED
    BY <2>2
<1>2. ASSUME NEW m \in Nat, m \in M PROVE m + 1 \in M
  <2>1. PICK g : Applying(m, options, g)
    BY <1>2
  <2> DEFINE f == [s \in SUBSET (1..(m + 1)) |->
                     IF s = {} THEN DefaultCacheOptions
                     ELSE Apply(g[s \ {Max(s)}], options[Max(s)])]
  <2>2. ASSUME NEW s \in SUBSET (1..(m + 1)) PROVE s \ {Max(s)} \in SUBSET (1..m)
    <3>1. CASE m + 1 \in s
      <4>1. Max(s) = m + 1
        BY <3>1, Largest
      <4> QED
        BY <4>1
    <3>2. CASE m + 1 \notin s
      <4>1. \A i \in s : i \in 1..m
        BY <3>2
      <4> QED
        BY <4>1
    <3> QED
      BY <3>1, <3>2
  <2>3. \A s \in SUBSET (1..m) : f[s] = g[s]
    <3>1. \A s \in SUBSET (1..m) : s \in SUBSET (1..(m + 1))
      OBVIOUS
    <3>2. \A s \in SUBSET (1..m) :
            g[s] = IF s = {} THEN DefaultCacheOptions
                   ELSE Apply(g[s \ {Max(s)}], options[Max(s)])
      BY <2>1 DEF Applying
    <3> QED
      BY <3>1, <3>2
  <2>4. ASSUME NEW s \in SUBSET (1..(m + 1))
        PROVE  f[s] = IF s = {} THEN DefaultCacheOptions
                      ELSE Apply(f[s \ {Max(s)}], options[Max(s)])
    <3>1. f[s] = IF s = {} THEN DefaultCacheOptions
                 ELSE Apply(g[s \ {Max(s)}], options[Max(s)])
      OBVIOUS
    <3> HIDE DEF f
    <3>2. f[s \ {Max(s)}] = g[s \ {Max(s)}]
      BY <2>2, <2>3
    <3> QED
      BY <3>1, <3>2
  <2>5. f = [s \in SUBSET (1..(m + 1)) |-> f[s]]
    OBVIOUS
  <2> HIDE DEF f
  <2>6. Applying(m + 1, options, f)
    BY <2>4, <2>5 DEF Applying
  <2> QED
    BY <2>6
<1>3. \A m \in Nat : m \in M => m + 1 \in M
  BY <1>2
<1> HIDE DEF M
<1>4. n \in M
  BY <1>1, <1>3, Induction
<1> QED
  BY <1>4 DEF M

LEMMA ListKeeps ==
  ASSUME NEW I, DefaultCleanupTicker \in I, NEW O, \A o \in O : Fits(o, I),
         NEW options \in Seq(O)
  PROVE  Configured(options) \in SoundOptions(I)
<1> DEFINE n == Len(options)
           F == CHOOSE f : Applying(n, options, f)
<1>1. Applying(n, options, F)
  BY ApplyingExists
<1>2. Configured(options) = F[1..n]
  <2>1. DOMAIN options = 1..n
    OBVIOUS
  <2> QED
    BY <2>1 DEF Configured, FoldLeft, MapThenFoldSet, Applying, Apply
<1> HIDE DEF F
<1> DEFINE M == {m \in Nat : m <= n => F[1..m] \in SoundOptions(I)}
<1>3. 0 \in M
  <2>1. 1..0 = {} /\ {} \in SUBSET (1..n)
    OBVIOUS
  <2>2. F[{}] = DefaultCacheOptions
    BY <1>1, <2>1 DEF Applying
  <2>3. DefaultCacheOptions \in SoundOptions(I)
    BY DefaultTTLValid DEF DefaultCacheOptions, SoundOptions, EvictionPolicies, DefaultMaxSize
  <2> QED
    BY <2>1, <2>2, <2>3
<1>4. ASSUME NEW m \in Nat, m \in M PROVE m + 1 \in M
  <2> SUFFICES ASSUME m + 1 <= n PROVE F[1..(m + 1)] \in SoundOptions(I)
    OBVIOUS
  <2>1. Max(1..(m + 1)) = m + 1
    BY Largest
  <2>2. /\ 1..(m + 1) \in SUBSET (1..n) /\ 1..(m + 1) # {}
        /\ (1..(m + 1)) \ {m + 1} = 1..m
    <3>1. n \in Nat
      OBVIOUS
    <3> HIDE DEF n
    <3> QED
      BY <3>1
  <2>3. F[1..(m + 1)] = Apply(F[1..m], options[m + 1])
    BY <1>1, <2>1, <2>2 DEF Applying
  <2>4. F[1..m] \in SoundOptions(I) /\ Fits(options[m + 1], I)
    BY <1>4
  <2>5. Apply(F[1..m], options[m + 1]) \in SoundOptions(I)
    BY <2>4, OptionKeeps DEF Apply
  <2> QED
    BY <2>3, <2>5, Zenon
<1>5. \A m \in Nat : m \in M => m + 1 \in M
  BY <1>4
<1> HIDE DEF M
<1>6. n \in M
  BY <1>3, <1>5, Induction
<1> QED
  BY <1>2, <1>6 DEF M

(* Whatever options NewMemoryCache is given, how often and in which order, *)
(* the cache gets a size, a policy it knows and a valid TTL: no later      *)
(* option undoes the check of an earlier one.  It gets an interval that    *)
(* time.NewTicker accepts as well, if nobody changes the duration that     *)
(* WithCleanupInterval points to (cache.go:219-227).                       *)
THEOREM OptionsStaySound ==
  ASSUME NEW options \in Seq(Options)
  PROVE  /\ Configured(options) \in SoundOptions(Int)
         /\ options \in Seq(SteadyOptions) => Configured(options) \in SoundOptions(Nat \ {0})
<1>1. DefaultCleanupTicker \in Int /\ DefaultCleanupTicker \in Nat \ {0}
  BY DEF DefaultCleanupTicker
<1> QED
  BY <1>1, OptionFits, ListKeeps

(* In particular every pair of options, as the run checks it.              *)
THEOREM OptionsAlwaysSound == Spec => []OptionsSound
<1>1. ASSUME NEW o \in Options, NEW p \in Options
      PROVE  LET made == Configured(<<o, p>>) IN
               /\ {o, p} \subseteq SteadyOptions => made.interval > 0
               /\ made.maxSize # 0
               /\ made.policy \in EvictionPolicies
               /\ VaildateTTL(made.ttl)
  <2> DEFINE made == Configured(<<o, p>>)
  <2>1. <<o, p>> \in Seq(Options)
    OBVIOUS
  <2>2. made \in SoundOptions(Int)
    BY <2>1, OptionsStaySound
  <2>3. ASSUME {o, p} \subseteq SteadyOptions PROVE made \in SoundOptions(Nat \ {0})
    <3>1. <<o, p>> \in Seq(SteadyOptions)
      BY <2>3
    <3> QED
      BY <2>1, <3>1, OptionsStaySound
  <2> HIDE DEF made
  <2>4. /\ made.maxSize \in Int \ {0} /\ made.policy \in EvictionPolicies
        /\ made.ttl \in {t \in Int : VaildateTTL(t)}
    BY <2>2 DEF SoundOptions
  <2>5. {o, p} \subseteq SteadyOptions => made.interval \in Nat \ {0}
    BY <2>3 DEF SoundOptions
  <2>6. {o, p} \subseteq SteadyOptions => made.interval > 0
    BY <2>5
  <2>7. VaildateTTL(made.ttl)
    BY <2>4
  <2> QED
    BY <2>4, <2>6, <2>7 DEF made
<1>2. OptionsSound
  BY <1>1 DEF OptionsSound
<1> QED
  BY <1>2, PTL

(* Facts about sequences.                                                *)

IsJoin(S, a, b, c) ==
  /\ c \in Seq(S) /\ Len(a) \in Nat /\ Len(b) \in Nat
  /\ Len(c) = Len(a) + Len(b)
  /\ \A i \in 1..Len(a) : c[i] = a[i]
  /\ \A i \in 1..Len(b) : c[Len(a) + i] = b[i]

LEMMA Joined ==
  ASSUME NEW S, NEW a \in Seq(S), NEW b \in Seq(S)
  PROVE  IsJoin(S, a, b, a \o b)
BY DEF IsJoin

LEMMA One ==
  ASSUME NEW S, NEW x \in S
  PROVE  <<x>> \in Seq(S) /\ Len(<<x>>) = 1 /\ <<x>>[1] = x
OBVIOUS

LEMMA Pair ==
  ASSUME NEW S, NEW x \in S, NEW y \in S
  PROVE  <<x, y>> \in Seq(S) /\ Len(<<x, y>>) = 2 /\ <<x, y>>[1] = x
OBVIOUS

LEMMA Shortened ==
  ASSUME NEW S, NEW s \in Seq(S), Len(s) = 2
  PROVE  SubSeq(s, 1, 1) \in Seq(S) /\ Len(SubSeq(s, 1, 1)) = 1
OBVIOUS

LEMMA Same ==
  ASSUME NEW S, NEW s \in Seq(S), NEW t \in Seq(S), Len(s) = Len(t),
         \A i \in 1..Len(s) : s[i] = t[i]
  PROVE  s = t
OBVIOUS

Words == {"config", "meta", "ns", ""}

(* Where a built key has its namespace and the text of its key.            *)
LEMMA BuiltKey ==
  ASSUME NEW Parts, Words \subseteq Parts, NEW w \in Parts, NEW t \in Seq(Parts),
         NEW p \in Seq(Parts), Len(p) = 2
  PROVE  /\ Len(BuildKey(p, <<w>>, t)) = 4 + Len(t)
         /\ BuildKey(p, <<w>>, t)[1] = p[1] /\ BuildKey(p, <<w>>, t)[4] = w
         /\ \A i \in 1..Len(t) : BuildKey(p, <<w>>, t)[4 + i] = t[i]
<1> DEFINE ns == Front(KeyPrefixNamespace)
           one == <<w>>
           two == ns \o one
           four == p \o two
<1>1. ns \in Seq(Parts) /\ Len(ns) = 1
  <2>1. KeyPrefixNamespace \in Seq(Parts) /\ Len(KeyPrefixNamespace) = 2
    BY Pair DEF KeyPrefixNamespace, Words
  <2>2. ns = SubSeq(KeyPrefixNamespace, 1, 1)
    BY <2>1 DEF Front
  <2> HIDE DEF ns
  <2> QED
    BY <2>1, <2>2, Shortened
<1>2. one \in Seq(Parts) /\ Len(one) = 1 /\ one[1] = w
  BY One
<1>3. BuildKey(p, one, t) = four \o t
  BY DEF BuildKey, Prefixed
<1> HIDE DEF ns, one
<1>4. two \in Seq(Parts) /\ Len(two) = 2 /\ two[2] = w
  <2>1. 1 \in 1..Len(one) /\ Len(ns) + 1 = 2
    BY <1>1, <1>2
  <2>2. IsJoin(Parts, ns, one, two)
    BY <1>1, <1>2, Joined
  <2> HIDE DEF two
  <2> QED
    BY <1>1, <1>2, <2>1, <2>2 DEF IsJoin
<1> HIDE DEF two
<1>5. four \in Seq(Parts) /\ Len(four) = 4 /\ four[1] = p[1] /\ four[4] = w
  <2>1. 1 \in 1..Len(p) /\ 2 \in 1..Len(two) /\ Len(p) + 2 = 4
    BY <1>4
  <2>2. IsJoin(Parts, p, two, four)
    BY <1>4, Joined
  <2> HIDE DEF four
  <2> QED
    BY <1>4, <2>1, <2>2 DEF IsJoin
<1> HIDE DEF four
<1>6. /\ Len(four \o t) = 4 + Len(t) /\ (four \o t)[1] = p[1] /\ (four \o t)[4] = w
      /\ \A i \in 1..Len(t) : (four \o t)[4 + i] = t[i]
  <2>1. 1 \in 1..Len(four) /\ 4 \in 1..Len(four)
    BY <1>5
  <2> DEFINE all == four \o t
  <2>2. IsJoin(Parts, four, t, all)
    BY <1>5, Joined
  <2> HIDE DEF all
  <2>3. /\ Len(all) = 4 + Len(t) /\ all[1] = p[1] /\ all[4] = w
        /\ \A i \in 1..Len(t) : all[4 + i] = t[i]
    BY <1>5, <2>1, <2>2 DEF IsJoin
  <2> QED
    BY <2>3 DEF all
<1> QED
  BY <1>3, <1>6 DEF one

(* Built keys, for texts of any parts.                                     *)
LEMMA KeysDiffer ==
  ASSUME NEW Parts, Words \subseteq Parts, NEW n \in Parts, NEW m \in Parts,
         NEW k \in Seq(Parts), NEW l \in Seq(Parts)
  PROVE  /\ BuildConfigKey(<<n>>, k) = BuildConfigKey(<<m>>, l) => n = m /\ k = l
         /\ BuildConfigKey(<<n>>, k) # BuildMetadataKey(<<m>>, l)
         /\ VaildateCacheKey(BuildConfigKey(<<n>>, k)) <=> Len(k) <= 252
<1>1. /\ KeyPrefixConfig \in Seq(Parts) /\ Len(KeyPrefixConfig) = 2
      /\ KeyPrefixMetadata \in Seq(Parts) /\ Len(KeyPrefixMetadata) = 2
      /\ KeyPrefixConfig[1] = "config" /\ KeyPrefixMetadata[1] = "meta"
  BY Pair DEF KeyPrefixConfig, KeyPrefixMetadata, Words
<1> DEFINE a == BuildKey(KeyPrefixConfig, <<n>>, k)
           b == BuildKey(KeyPrefixConfig, <<m>>, l)
           c == BuildKey(KeyPrefixMetadata, <<m>>, l)
<1>2. /\ Len(a) = 4 + Len(k) /\ a[1] = "config" /\ a[4] = n
      /\ \A i \in 1..Len(k) : a[4 + i] = k[i]
  BY <1>1, BuiltKey
<1>3. /\ Len(b) = 4 + Len(l) /\ b[4] = m
      /\ \A i \in 1..Len(l) : b[4 + i] = l[i]
  BY <1>1, BuiltKey
<1>4. c[1] = "meta"
  BY <1>1, BuiltKey
<1>5. a = BuildConfigKey(<<n>>, k) /\ b = BuildConfigKey(<<m>>, l) /\ c = BuildMetadataKey(<<m>>, l)
  BY DEF BuildConfigKey, BuildMetadataKey
<1> HIDE DEF a, b, c
<1>6. ASSUME a = b PROVE n = m /\ k = l
  <2>1. Len(k) = Len(l)
    <3>1. Len(k) \in Nat /\ Len(l) \in Nat
      OBVIOUS
    <3> QED
      BY <1>2, <1>3, <1>6, <3>1
  <2>2. \A i \in 1..Len(k) : k[i] = l[i]
    BY <1>2, <1>3, <1>6, <2>1
  <2>3. k = l
    BY <2>1, <2>2, Same
  <2> QED
    BY <1>2, <1>3, <1>6, <2>3
<1>7. a # c
  BY <1>2, <1>4
<1>8. VaildateCacheKey(a) <=> Len(k) <= 252
  <2>1. Len(k) \in Nat /\ Len(<<"">>) = 1
    OBVIOUS
  <2>2. Len(a) # 1 /\ (Len(a) <= 256 <=> Len(k) <= 252)
    BY <1>2, <2>1
  <2>3. a # <<"">>
    BY <2>1, <2>2, Zenon
  <2> QED
    BY <2>2, <2>3 DEF VaildateCacheKey
<1> QED
  BY <1>5, <1>6, <1>7, <1>8

(* Two namespaces without a separator in their names never share a cache   *)
(* key, whatever separators the keys contain, configuration and metadata   *)
(* keys differ, and a key that is built is refused only for its length     *)
(* (cache.go, BuildConfigKey, BuildMetadataKey and VaildateCacheKey).      *)
THEOREM KeysStayApart == Spec => []KeysApart
<1> DEFINE Parts == STRING \cup Words
<1>1. ASSUME NEW n \in Names, NEW m \in Names, NEW k \in KeyTexts, NEW l \in KeyTexts
      PROVE  /\ BuildConfigKey(<<n>>, k) = BuildConfigKey(<<m>>, l) => n = m /\ k = l
             /\ BuildConfigKey(<<n>>, k) # BuildMetadataKey(<<m>>, l)
             /\ VaildateCacheKey(BuildConfigKey(<<n>>, k)) <=> Len(k) <= 252
  <2>1. n \in Parts /\ m \in Parts /\ Words \subseteq Parts
    BY RulesAssumption
  <2>2. k \in Seq(STRING) /\ l \in Seq(STRING)
    BY RulesAssumption
  <2>3. k \in Seq(Parts) /\ l \in Seq(Parts)
    BY <2>2
  <2> HIDE DEF Parts
  <2> QED
    BY <2>1, <2>3, KeysDiffer
<1>2. KeysApart
  BY <1>1 DEF KeysApart
<1> QED
  BY <1>2, PTL
=============================================================================
