---------------------------- MODULE ConfigClient ----------------------------
(***************************************************************************)
(* The configuration client (pkg/config/config.go, watcher.go, registry.go,*)
(* bootstrap.go) and the graceful shutdown it registers with               *)
(* (pkg/graceful/handler.go), over a provider that announces changes and a *)
(* memory cache of which only the mutex matters: CacheLatch, which         *)
(* MemoryCache implements.                                                 *)
(*                                                                         *)
(* Critical sections of c.mu are atomic.  The content of a namespace is    *)
(* its version; handleConfigChange is a goroutine per event.  A slice of   *)
(* callbacks is the number of times each callback is in it: their order is *)
(* of no account, they run in goroutines of their own unless WithAsync     *)
(* says otherwise.                                                         *)
(***************************************************************************)
EXTENDS Integers, Sequences, FiniteSets

LOCAL INSTANCE Functions

CONSTANTS
  Clients,     \* goroutines that call the package; each has one callback
  Closers,     \* goroutines that ClearAllFunc may start
  Namespaces,  \* the registered namespaces
  NoNamespace,
  CacheModes,  \* whether the client has a cache
  MaxRegs,     \* bound: registrations with the provider
  MaxCalls,    \* bound: callbacks registered for a namespace before another call
  MaxTogether, \* bound: those and the calls under way that register another
  MaxVersion   \* bound: newest version of a namespace

ASSUME ConfigAssumption ==
  /\ CacheModes \subseteq BOOLEAN
  /\ NoNamespace \notin Namespaces
  /\ {MaxRegs, MaxCalls, MaxTogether} \subseteq Nat
  /\ MaxVersion \in Nat \ {0}
  /\ Clients \cap Closers = {}
  /\ (Clients \cup Closers) \cap (Nat \X Nat) = {}

NoReg     == 0
NoVersion == 0
Regs      == 1..MaxRegs
Versions  == 1..MaxVersion     \* a namespace starts with version 1
Events    == Regs \X Versions  \* the event of a version, for a registration
Announced == Regs \X (2..MaxVersion)  \* version 1 is there from the start
Nobody    == [c \in Clients |-> 0]  \* no callbacks

VARIABLES
  cacheOn,     \* c.cache # nil
  once,        \* initOnce: "fresh", "running" or "done"
  ready,       \* the Init that did the work returned nil
  handlers,    \* the shutdown handlers registered with graceful
  namespaces,  \* c.namespaces: namespace |-> version
  watcher,     \* c.watcher: namespace |-> client |-> how often its callback is in the slice
  cancelFuncs, \* c.cancelFuncs: namespace |-> registration it cancels
  pc,          \* where a client or closer is
  todo,        \* the namespaces its loop has left
  now,         \* the namespace it is at
  raw,         \* the version it has read, or the registration it was given
  content,     \* the provider: namespace |-> version
  bad,         \* the provider: <<namespace, version>> that do not parse
  subject,     \* registration |-> its namespace
  issued,      \* registrations the provider has given out
  attached,    \* registrations the provider calls back
  cancelled,   \* registrations whose CancelFunc was called
  handler,     \* event |-> where its handleConfigChange is
  callbacks,   \* event |-> the callbacks it still has to call, as in watcher
  delivered,   \* history: event |-> client |-> how often it was called back
  registered,  \* history: namespace |-> client |-> how often it was put in the slice
  clashed,     \* history: namespaces two WatchNamespace subscribed at once
  taken,       \* the cache's mutex is lost
  waiting      \* who needs the cache's mutex

client   == <<once, ready, handlers>>
tables   == <<namespaces, watcher, registered, cancelFuncs>>
callers  == <<pc, todo, now, raw>>
provider == <<content, bad, subject, issued, attached, cancelled>>
changes  == <<handler, callbacks, delivered>>
latch    == <<taken, waiting>>
vars     == <<cacheOn, client, tables, callers, provider, changes, clashed, latch>>

Actors == Clients \cup Closers
Cache  == INSTANCE CacheLatch WITH Users <- Actors \cup Events

Init ==
  /\ cacheOn \in CacheModes
  /\ once = "fresh"
  /\ ready = FALSE
  /\ handlers = 0
  /\ namespaces = [ns \in Namespaces |-> NoVersion]
  /\ watcher = [ns \in Namespaces |-> Nobody]
  /\ registered = [ns \in Namespaces |-> Nobody]
  /\ cancelFuncs = [ns \in Namespaces |-> NoReg]
  /\ pc = [a \in Actors |-> IF a \in Clients THEN "idle" ELSE "unborn"]
  /\ todo = [a \in Actors |-> {}]
  /\ now = [a \in Actors |-> NoNamespace]
  /\ raw = [a \in Actors |-> 0]
  /\ content = [ns \in Namespaces |-> 1]
  /\ bad = {}
  /\ subject = [r \in Regs |-> NoNamespace]
  /\ issued = 0
  /\ attached = {}
  /\ cancelled = {}
  /\ handler = [e \in Events |-> "none"]
  /\ callbacks = [e \in Events |-> Nobody]
  /\ delivered = [e \in Events |-> Nobody]
  /\ clashed = {}
  /\ Cache!Init

---------------------------------------------------------------------------
(* Init: the first caller does the work, the others wait for it.           *)

Go(a, where) == pc' = [pc EXCEPT ![a] = where]
HasClient    == once # "fresh"

(* Bootstrap registers Shutdown without an Init; BootstrapWithProvider     *)
(* does it after an Init that returned nil, as it does once the work is    *)
(* done, even if it failed.                                                *)
Bootstrap(c) ==
  /\ pc[c] = "idle"
  /\ handlers < Cardinality(Closers)
  /\ handlers' = handlers + 1
  /\ UNCHANGED <<cacheOn, once, ready, tables, callers, provider, changes, clashed, latch>>

InitCall(c) ==
  /\ pc[c] = "idle"
  /\ \/ /\ once = "fresh"
        /\ once' = "running"
        /\ todo' = [todo EXCEPT ![c] = Namespaces]
        /\ Go(c, "loading")
     \/ /\ once = "running"
        /\ Go(c, "awaiting")
        /\ UNCHANGED <<once, todo>>
  /\ UNCHANGED <<cacheOn, ready, handlers, tables, now, raw, provider, changes, clashed, latch>>

InitAwaited(c) ==
  /\ pc[c] = "awaiting"
  /\ once = "done"
  /\ Go(c, "idle")
  /\ UNCHANGED <<cacheOn, client, tables, todo, now, raw, provider, changes, clashed, latch>>

Reload(c) ==
  /\ pc[c] = "idle"
  /\ HasClient
  /\ \E ns \in Namespaces : todo' = [todo EXCEPT ![c] = {ns}]
  /\ Go(c, "reloading")
  /\ UNCHANGED <<cacheOn, client, tables, now, raw, provider, changes, clashed, latch>>

Loading(c) == pc[c] \in {"loading", "reloading"}

(* loadNamespace up to the parsed content.  With a cache it does not get   *)
(* here: Get never finds anything, and its error is returned (line 109).   *)
LoadRead(c) ==
  /\ Loading(c)
  /\ raw[c] = NoVersion
  /\ ~cacheOn
  /\ \E ns \in todo[c] :
       /\ <<ns, content[ns]>> \notin bad
       /\ now' = [now EXCEPT ![c] = ns]
       /\ raw' = [raw EXCEPT ![c] = content[ns]]
  /\ UNCHANGED <<cacheOn, client, tables, pc, todo, provider, changes, clashed, latch>>

Loaded(c, ok) ==
  /\ Go(c, "idle")
  /\ IF pc[c] = "loading" THEN once' = "done" /\ ready' = ok ELSE UNCHANGED <<once, ready>>
  /\ UNCHANGED handlers

LoadStore(c) ==
  /\ Loading(c)
  /\ raw[c] # NoVersion
  /\ namespaces' = [namespaces EXCEPT ![now[c]] = raw[c]]
  /\ raw' = [raw EXCEPT ![c] = NoVersion]
  /\ now' = [now EXCEPT ![c] = NoNamespace]
  /\ todo' = [todo EXCEPT ![c] = @ \ {now[c]}]
  /\ IF todo[c] = {now[c]} THEN Loaded(c, TRUE) ELSE UNCHANGED <<pc, client>>
  /\ UNCHANGED <<cacheOn, watcher, registered, cancelFuncs, provider, changes, clashed, latch>>

(* Mutant: an error is logged and the loop goes on.                        *)
LoadFails_Ignored(c) ==
  /\ Loading(c)
  /\ raw[c] = NoVersion
  /\ \E ns \in todo[c] :
       /\ todo' = [todo EXCEPT ![c] = @ \ {ns}]
       /\ IF todo[c] = {ns} THEN Loaded(c, TRUE) ELSE UNCHANGED <<pc, client>>
  /\ UNCHANGED <<cacheOn, tables, now, raw, provider, changes, clashed, latch>>

(* The cache misses, GetRaw fails, or the content does not parse: the loop *)
(* ends, and what it has stored stays.                                     *)
LoadFails(c) ==
  /\ Loading(c)
  /\ raw[c] = NoVersion
  /\ todo' = [todo EXCEPT ![c] = {}]
  /\ Loaded(c, FALSE)
  /\ UNCHANGED <<cacheOn, tables, now, raw, provider, changes, clashed, latch>>

---------------------------------------------------------------------------
(* WatchNamespace and WatchAllNamespaces.                                  *)

Watching(ns) ==
  {c \in Clients : pc[c] \in {"watching", "subscribing", "subscribed"} /\ ns \in todo[c]}

WatchCall(c) ==
  /\ pc[c] = "idle"
  /\ HasClient
  /\ \E nss \in {{ns} : ns \in Namespaces} \cup {Namespaces} :
       /\ \A ns \in nss :
            LET there == FoldFunction(+, 0, registered[ns])
            IN  there < MaxCalls /\ there + Cardinality(Watching(ns)) < MaxTogether
       /\ todo' = [todo EXCEPT ![c] = nss]
  /\ Go(c, "watching")
  /\ UNCHANGED <<cacheOn, client, tables, now, raw, provider, changes, clashed, latch>>

(* c goes on with the namespaces but ns.                                   *)
NextWatch(c, ns) ==
  /\ todo' = [todo EXCEPT ![c] = @ \ {ns}]
  /\ Go(c, IF todo[c] = {ns} THEN "idle" ELSE "watching")

(* The callback of c is appended to the slice of ns.                       *)
Register(c, ns) ==
  /\ watcher' = [watcher EXCEPT ![ns][c] = @ + 1]
  /\ registered' = [registered EXCEPT ![ns][c] = @ + 1]

Subscribing(c, ns) == pc[c] \in {"subscribing", "subscribed"} /\ now[c] = ns

(* Mutant: the lookup of the namespace in cancelFuncs is missing.          *)
WatchCheck_Unchecked(c) ==
  /\ pc[c] = "watching"
  /\ \E ns \in todo[c] :
       /\ now' = [now EXCEPT ![c] = ns]
       /\ Go(c, "subscribing")
       /\ clashed' = clashed \cup {n \in {ns} : \E d \in Clients : Subscribing(d, ns)}
       /\ UNCHANGED <<watcher, registered, todo>>
  /\ UNCHANGED <<cacheOn, client, namespaces, cancelFuncs, raw, provider, changes, latch>>

(* The first critical section (lines 122-136).                             *)
WatchCheck(c) ==
  /\ pc[c] = "watching"
  /\ \E ns \in todo[c] :
       \/ /\ cancelFuncs[ns] # NoReg
          /\ Register(c, ns)
          /\ NextWatch(c, ns)
          /\ UNCHANGED <<now, clashed>>
       \/ /\ cancelFuncs[ns] = NoReg
          /\ now' = [now EXCEPT ![c] = ns]
          /\ Go(c, "subscribing")
          /\ clashed' = clashed \cup {n \in {ns} : \E d \in Clients : Subscribing(d, ns)}
          /\ UNCHANGED <<watcher, registered, todo>>
  /\ UNCHANGED <<cacheOn, client, namespaces, cancelFuncs, raw, provider, changes, latch>>

(* The provider's Watch.                                                   *)
Subscribe(c) ==
  /\ pc[c] = "subscribing"
  /\ issued < MaxRegs
  /\ issued' = issued + 1
  /\ subject' = [subject EXCEPT ![issued'] = now[c]]
  /\ attached' = attached \cup {issued'}
  /\ raw' = [raw EXCEPT ![c] = issued']
  /\ Go(c, "subscribed")
  /\ UNCHANGED <<cacheOn, client, tables, todo, now, content, bad, cancelled,
                 changes, clashed, latch>>

SubscribeFails(c) ==
  /\ pc[c] = "subscribing"
  /\ now' = [now EXCEPT ![c] = NoNamespace]
  /\ NextWatch(c, now[c])
  /\ UNCHANGED <<cacheOn, client, tables, raw, provider, changes, clashed, latch>>

(* The second critical section (lines 149-152).                            *)
WatchStore(c) ==
  /\ pc[c] = "subscribed"
  /\ Register(c, now[c])
  /\ cancelFuncs' = [cancelFuncs EXCEPT ![now[c]] = raw[c]]
  /\ now' = [now EXCEPT ![c] = NoNamespace]
  /\ raw' = [raw EXCEPT ![c] = NoReg]
  /\ NextWatch(c, now[c])
  /\ UNCHANGED <<cacheOn, client, namespaces, provider, changes, clashed, latch>>

---------------------------------------------------------------------------
(* Stopping.  The provider may or may not drop a registration when its     *)
(* CancelFunc is called; the file provider never does.                     *)

CancelAll(rs) ==
  /\ cancelled' = cancelled \cup rs
  /\ \E dropped \in SUBSET (rs \cap attached) : attached' = attached \ dropped
  /\ UNCHANGED <<content, bad, subject, issued>>

(* Mutant: the cancel function is forgotten instead of called.             *)
Unwatch_Forgets(c) ==
  /\ pc[c] = "idle"
  /\ \E ns \in Namespaces :
       /\ cancelFuncs[ns] # NoReg
       /\ CancelAll({})
       /\ cancelFuncs' = [cancelFuncs EXCEPT ![ns] = NoReg]
       /\ watcher' = [watcher EXCEPT ![ns] = Nobody]
  /\ UNCHANGED <<cacheOn, client, namespaces, registered, callers, changes, clashed, latch>>

(* Mutant: the table is cleared first, and a nil function is called.       *)
Unwatch_Cleared(c) ==
  /\ pc[c] = "idle"
  /\ \E ns \in Namespaces :
       /\ cancelFuncs[ns] # NoReg
       /\ cancelFuncs' = [cancelFuncs EXCEPT ![ns] = NoReg]
       /\ CancelAll({cancelFuncs'[ns]})
       /\ watcher' = [watcher EXCEPT ![ns] = Nobody]
  /\ UNCHANGED <<cacheOn, client, namespaces, registered, callers, changes, clashed, latch>>

Unwatch(c) ==
  /\ pc[c] = "idle"
  /\ \E ns \in Namespaces :
       /\ cancelFuncs[ns] # NoReg
       /\ CancelAll({cancelFuncs[ns]})
       /\ cancelFuncs' = [cancelFuncs EXCEPT ![ns] = NoReg]
       /\ watcher' = [watcher EXCEPT ![ns] = Nobody]
  /\ UNCHANGED <<cacheOn, client, namespaces, registered, callers, changes, clashed, latch>>

(* StopAllWatchers                                                         *)
StopAllWatchers ==
  /\ CancelAll({cancelFuncs[ns] : ns \in Namespaces} \ {NoReg})
  /\ cancelFuncs' = [ns \in Namespaces |-> NoReg]
  /\ watcher' = [ns \in Namespaces |-> Nobody]
  /\ UNCHANGED <<namespaces, registered>>

StopAllWatch(c) ==
  /\ pc[c] = "idle"
  /\ HasClient
  /\ StopAllWatchers
  /\ UNCHANGED <<cacheOn, client, callers, changes, clashed, latch>>

End(a) == Go(a, IF a \in Clients THEN "idle" ELSE "finished")

(* A goroutine of ClearAllFunc before there is a client.                   *)
ShutdownEmpty(a) ==
  /\ pc[a] = "started"
  /\ ~HasClient
  /\ End(a)
  /\ UNCHANGED <<cacheOn, client, tables, todo, now, raw, provider, changes, clashed, latch>>

(* Mutant: Shutdown clears a cache that it does not have.                  *)
Shutdown_NoNilCheck(a) ==
  /\ pc[a] \in {"idle", "started"}
  /\ HasClient
  /\ StopAllWatchers
  /\ Go(a, "clearing")
  /\ IF cacheOn THEN Cache!Enter(a) ELSE UNCHANGED latch
  /\ UNCHANGED <<cacheOn, client, todo, now, raw, changes, clashed>>

(* Shutdown, called by a client or run by ClearAllFunc.  The provider is   *)
(* never closed: its Close takes a context, the interface asked for        *)
(* (line 192) has none.                                                    *)
Shutdown(a) ==
  /\ pc[a] \in {"idle", "started"}
  /\ HasClient
  /\ StopAllWatchers
  /\ IF cacheOn THEN Cache!Enter(a) /\ Go(a, "clearing") ELSE End(a) /\ UNCHANGED latch
  /\ UNCHANGED <<cacheOn, client, todo, now, raw, changes, clashed>>

(* cache.Clear, which takes no notice of the timeout in its context.       *)
ClearCache(a) ==
  /\ pc[a] = "clearing"
  /\ Cache!Pass(a)
  /\ End(a)
  /\ UNCHANGED <<cacheOn, client, tables, todo, now, raw, provider, changes, clashed>>

(* ClearAllFunc runs every handler in a goroutine of its own.  Nobody      *)
(* calls waitGroup.Done, so it ends by its timeout, or not at all if that  *)
(* is 0; with no handlers it returns at once.                              *)
ClearAllFunc(c) ==
  /\ pc[c] = "idle"
  /\ handlers > 0
  /\ \E born \in SUBSET {a \in Closers : pc[a] = "unborn"}, limit \in BOOLEAN :
       /\ Cardinality(born) = handlers
       /\ pc' = [a \in Actors |-> IF a \in born THEN "started"
                                 ELSE IF a # c THEN pc[a]
                                 ELSE IF limit THEN "timed" ELSE "stuck"]
  /\ UNCHANGED <<cacheOn, client, tables, todo, now, raw, provider, changes, clashed, latch>>

TimeOut(c) ==
  /\ pc[c] = "timed"
  /\ Go(c, "idle")
  /\ UNCHANGED <<cacheOn, client, tables, todo, now, raw, provider, changes, clashed, latch>>

---------------------------------------------------------------------------
(* The provider announces a change: a goroutine for each registration.     *)

Publish(ns, parses) ==
  /\ content[ns] < MaxVersion
  /\ content' = [content EXCEPT ![ns] = @ + 1]
  /\ bad' = bad \cup {x \in {<<ns, content'[ns]>>} : ~parses}
  /\ handler' = [e \in Events |->
       IF e[1] \in attached /\ subject[e[1]] = ns /\ e[2] = content'[ns]
       THEN "sent" ELSE handler[e]]
  /\ UNCHANGED <<cacheOn, client, tables, callers, subject, issued, attached, cancelled,
                 callbacks, delivered, clashed, latch>>

Subject(e) == subject[e[1]]
Step(e, from, to) == handler[e] = from /\ handler' = [handler EXCEPT ![e] = to]

HandleRefuse(e) ==
  /\ <<Subject(e), e[2]>> \in bad
  /\ Step(e, "sent", "refused")
  /\ UNCHANGED <<cacheOn, client, tables, callers, provider, callbacks, delivered, clashed, latch>>

HandleParse(e) ==
  /\ <<Subject(e), e[2]>> \notin bad
  /\ IF cacheOn THEN Step(e, "sent", "caching") /\ Cache!Enter(e)
                ELSE Step(e, "sent", "storing") /\ UNCHANGED latch
  /\ UNCHANGED <<cacheOn, client, tables, callers, provider, callbacks, delivered, clashed>>

(* cache.Set stores the value and never returns (MemoryCache).             *)
HandleCache(e) ==
  /\ handler[e] = "caching"
  /\ Cache!Take(e)
  /\ UNCHANGED <<cacheOn, client, tables, callers, provider, changes, clashed>>

(* Lines 221-223: the newest event need not be the last to store.          *)
HandleStore(e) ==
  /\ Step(e, "storing", "stored")
  /\ namespaces' = [namespaces EXCEPT ![Subject(e)] = e[2]]
  /\ UNCHANGED <<cacheOn, client, watcher, registered, cancelFuncs, callers, provider,
                 callbacks, delivered, clashed, latch>>

(* Mutant: the slice copied into has no length, and nothing is copied.     *)
HandleCopy_Empty(e) ==
  /\ Step(e, "stored", "calling")
  /\ UNCHANGED <<cacheOn, client, tables, callers, provider,
                 callbacks, delivered, clashed, latch>>

(* Lines 226-229                                                           *)
HandleCopy(e) ==
  /\ Step(e, "stored", "calling")
  /\ callbacks' = [callbacks EXCEPT ![e] = watcher[Subject(e)]]
  /\ UNCHANGED <<cacheOn, client, tables, callers, provider, delivered, clashed, latch>>

(* In turn or in goroutines: safeCallCallback survives a panic.            *)
HandleCall(e) ==
  /\ \E c \in Clients :
       /\ callbacks[e][c] > 0
       /\ callbacks' = [callbacks EXCEPT ![e][c] = @ - 1]
       /\ delivered' = [delivered EXCEPT ![e][c] = @ + 1]
  /\ UNCHANGED <<cacheOn, client, tables, callers, provider, handler, clashed, latch>>

---------------------------------------------------------------------------
Continues(a) ==
  \/ ShutdownEmpty(a)
  \/ pc[a] = "started" /\ Shutdown(a)
  \/ ClearCache(a)

Continue(c) ==
  \/ InitAwaited(c) \/ LoadRead(c) \/ LoadStore(c) \/ LoadFails(c)
  \/ WatchCheck(c) \/ Subscribe(c) \/ SubscribeFails(c) \/ WatchStore(c)
  \/ TimeOut(c)

Call(c) ==
  \/ Bootstrap(c) \/ InitCall(c) \/ Reload(c) \/ WatchCall(c) \/ Unwatch(c)
  \/ StopAllWatch(c) \/ (pc[c] = "idle" /\ Shutdown(c)) \/ ClearAllFunc(c)

Handle(e) ==
  \/ HandleRefuse(e) \/ HandleParse(e) \/ HandleCache(e)
  \/ HandleStore(e) \/ HandleCopy(e) \/ HandleCall(e)

Next ==
  \/ \E c \in Clients : Call(c) \/ Continue(c)
  \/ \E a \in Actors : Continues(a)
  \/ \E e \in Events : Handle(e)
  \/ \E ns \in Namespaces, parses \in BOOLEAN : Publish(ns, parses)

Spec == Init /\ [][Next]_vars

(* Goroutines are scheduled, a call of the provider returns, and time      *)
(* passes; nobody is obliged to call the package or to change a file.      *)
Fairness ==
  /\ \A c \in Clients : WF_vars(Continue(c))
  /\ \A a \in Actors : WF_vars(Continues(a))
  /\ \A e \in Events : WF_vars(Handle(e))

FairSpec == Spec /\ Fairness

---------------------------------------------------------------------------
PCs == {"idle", "awaiting", "loading", "reloading", "watching", "subscribing", "subscribed",
        "clearing", "timed", "stuck", "unborn", "started", "finished"}

(* The types; only registrations that were issued are attached, cancelled  *)
(* or kept in c.cancelFuncs (calling a nil CancelFunc would panic).        *)
TypeOK ==
  /\ cacheOn \in BOOLEAN
  /\ once \in {"fresh", "running", "done"}
  /\ ready \in BOOLEAN
  /\ handlers \in Nat
  /\ namespaces \in [Namespaces -> Versions \cup {NoVersion}]
  /\ watcher \in [Namespaces -> [Clients -> Nat]]
  /\ registered \in [Namespaces -> [Clients -> Nat]]
  /\ cancelFuncs \in [Namespaces -> 0..issued]
  /\ pc \in [Actors -> PCs]
  /\ todo \in [Actors -> SUBSET Namespaces]
  /\ now \in [Actors -> Namespaces \cup {NoNamespace}]
  /\ raw \in [Actors -> Nat]
  /\ content \in [Namespaces -> Versions]
  /\ bad \subseteq Namespaces \X Versions
  /\ subject \in [Regs -> Namespaces \cup {NoNamespace}]
  /\ issued \in 0..MaxRegs
  /\ attached \subseteq 1..issued /\ cancelled \subseteq 1..issued
  /\ handler \in [Events -> {"none", "sent", "refused", "caching", "storing", "stored", "calling"}]
  /\ callbacks \in [Events -> [Clients -> Nat]]
  /\ delivered \in [Events -> [Clients -> Nat]]
  /\ clashed \subseteq Namespaces
  /\ taken \in BOOLEAN
  /\ waiting \subseteq Actors \cup Events

(* No registration gets lost: the provider calls back one that the client  *)
(* can still cancel, has cancelled, or is about to store - unless two      *)
(* WatchNamespace of that namespace passed the check of line 130 before    *)
(* either stored its CancelFunc.  A namespace with callbacks can be        *)
(* unwatched.                                                              *)
Tracked ==
  /\ \A r \in attached :
       \/ \E ns \in Namespaces : cancelFuncs[ns] = r
       \/ r \in cancelled
       \/ \E c \in Clients : pc[c] = "subscribed" /\ raw[c] = r
       \/ subject[r] \in clashed
  /\ \A ns \in Namespaces : watcher[ns] # Nobody => cancelFuncs[ns] # NoReg

(* An event calls a callback at most as often as it was registered with    *)
(* the namespace, however often the namespace was watched meanwhile; and   *)
(* only one event of a change calls it, unless one of them is from a       *)
(* registration that the client has cancelled and the provider kept, or    *)
(* after a clash.                                                          *)
OncePerChange ==
  \A e \in Events, c \in Clients : delivered[e][c] > 0 =>
    /\ delivered[e][c] <= registered[Subject(e)][c]
    /\ \A d \in Events \ {e} :
         delivered[d][c] > 0 /\ d[2] = e[2] /\ Subject(d) = Subject(e)
           => {d[1], e[1]} \cap cancelled # {} \/ Subject(e) \in clashed

(* Once Init has returned nil for its own work, every namespace has a      *)
(* configuration, and one that parsed, whatever reloads and events do.     *)
Configured ==
  \A ns \in Namespaces :
    /\ ready => namespaces[ns] # NoVersion
    /\ <<ns, namespaces[ns]>> \notin bad

(* A change that parses reaches the callbacks there are, unless they are   *)
(* unwatched meanwhile, or one Set of the cache ends it all.               *)
Due(e, c, ns) ==
  /\ handler[e] = "sent"
  /\ Subject(e) = ns
  /\ <<ns, e[2]>> \notin bad
  /\ watcher[ns][c] > 0

Heard(e, c, ns) == delivered[e][c] > 0 \/ watcher[ns][c] = 0

ChangesArriveOrJam ==
  \A e \in Announced, c \in Clients, ns \in Namespaces :
    Due(e, c, ns) ~> (Heard(e, c, ns) \/ taken)

(* A call returns and a shutdown handler ends, unless it waits for the     *)
(* cache behind a Set, or in ClearAllFunc without a timeout.               *)
CallsReturn ==
  \A a \in Actors :
    pc[a] \notin {"idle", "unborn", "stuck"} ~>
      (pc[a] \in {"idle", "finished"} \/ (pc[a] = "clearing" /\ taken))
=============================================================================
