------------------------- MODULE ConfigClientProofs -------------------------
(***************************************************************************)
(* What ConfigClient promises for any number of clients, namespaces,       *)
(* registrations and versions, with and without a cache.                   *)
(***************************************************************************)
EXTENDS ConfigClient, TLAPS

(* Registrations are of a namespace, and dropped only when cancelled.      *)
Given == \A r \in 1..issued : subject[r] \in Namespaces /\ r \in attached \cup cancelled

(* What a client holds outside the lock: the namespace and the             *)
(* registration it will store, or the namespace and the content.           *)
Holds ==
  /\ \A c \in Clients :
       /\ pc[c] \in {"subscribing", "subscribed"} => now[c] \in Namespaces
       /\ pc[c] = "subscribed" => raw[c] \in 1..issued /\ subject[raw[c]] = now[c]
       /\ pc[c] \in {"loading", "reloading"} /\ raw[c] # NoVersion =>
            /\ now[c] \in todo[c]
            /\ raw[c] \in 1..content[now[c]]
            /\ <<now[c], raw[c]>> \notin bad
       /\ pc[c] \notin {"loading", "reloading", "subscribed"} => raw[c] = 0
       /\ pc[c] # "unborn"
  /\ \A s \in Closers : pc[s] \in {"unborn", "started", "clearing", "finished"}

(* An event in a handler is one that was sent.                             *)
Sent ==
  /\ \A e \in Events :
       /\ handler[e] # "none" => e[1] <= issued /\ e[2] <= content[subject[e[1]]]
       /\ handler[e] \in {"caching", "storing"} => <<subject[e[1]], e[2]>> \notin bad
       /\ callbacks[e] # Nobody \/ delivered[e] # Nobody => handler[e] = "calling"

TInv == TypeOK /\ Given /\ Holds /\ Sent

(* The actions that change only where somebody is and what it has to do,   *)
(* and the list of handlers.                                               *)
Moves(a) ==
  \/ Bootstrap(a) \/ InitCall(a) \/ InitAwaited(a) \/ Reload(a) \/ LoadRead(a) \/ LoadFails(a)
  \/ WatchCall(a) \/ SubscribeFails(a) \/ ClearAllFunc(a) \/ TimeOut(a)

(* All actions, one by one.                                                *)
LEMMA Cases ==
  ASSUME [Next]_vars
  PROVE  \/ \E c \in Clients : \/ Moves(c) \/ LoadStore(c) \/ WatchCheck(c) \/ Subscribe(c)
                               \/ WatchStore(c) \/ Unwatch(c) \/ StopAllWatch(c)
         \/ \E a \in Actors : ShutdownEmpty(a) \/ ClearCache(a)
         \/ \E c \in Clients : pc[c] = "idle" /\ Shutdown(c)
         \/ \E a \in Actors : pc[a] = "started" /\ Shutdown(a)
         \/ \E e \in Events : Handle(e)
         \/ \E ns \in Namespaces, parses \in BOOLEAN : Publish(ns, parses)
         \/ UNCHANGED vars
BY DEF Next, Call, Continue, Continues, Moves

(* WatchNamespace moves its caller.                                        *)
LEMMA WatchCalls ==
  ASSUME NEW c, WatchCall(c)
  PROVE  /\ pc[c] = "idle" /\ pc' = [pc EXCEPT ![c] = "watching"]
         /\ \E nss \in SUBSET Namespaces : todo' = [todo EXCEPT ![c] = nss]
         /\ UNCHANGED <<cacheOn, client, tables, now, raw, provider, changes, clashed, latch>>
<1>1. PICK nss \in {{ns} : ns \in Namespaces} \cup {Namespaces} : todo' = [todo EXCEPT ![c] = nss]
  BY Zenon DEF WatchCall
<1>2. nss \in SUBSET Namespaces
  OBVIOUS
<1> QED
  BY Zenon, <1>1, <1>2 DEF WatchCall, Go

(* An event that calls a callback has one to call.                         *)
LEMMA CallsSomebody ==
  ASSUME NEW e \in Events, HandleCall(e)
  PROVE  callbacks[e] # Nobody
<1>1. \A c \in Clients : Nobody[c] = 0
  BY DEF Nobody
<1>2. \E c \in Clients : callbacks[e][c] > 0
  BY DEF HandleCall
<1> QED
  BY <1>1, <1>2

(* One more or one less of a client in a table of callbacks.               *)
LEMMA Counts ==
  ASSUME NEW S, NEW t \in [S -> [Clients -> Nat]], NEW x \in S, NEW c \in Clients
  PROVE  /\ [t EXCEPT ![x][c] = @ + 1] \in [S -> [Clients -> Nat]]
         /\ [t EXCEPT ![x] = Nobody] \in [S -> [Clients -> Nat]]
         /\ t[x][c] > 0 => [t EXCEPT ![x][c] = @ - 1] \in [S -> [Clients -> Nat]]
         /\ [t EXCEPT ![x][c] = @ + 1][x][c] = t[x][c] + 1
         /\ [t EXCEPT ![x][c] = @ - 1][x][c] = t[x][c] - 1
         /\ \A y \in S, d \in Clients : <<y, d>> # <<x, c>> =>
              /\ [t EXCEPT ![x][c] = @ + 1][y][d] = t[y][d]
              /\ [t EXCEPT ![x][c] = @ - 1][y][d] = t[y][d]
<1>1. Nobody \in [Clients -> Nat] /\ t[x] \in [Clients -> Nat] /\ t[x][c] \in Nat
  BY DEF Nobody
<1>2. \A n \in Nat : [t[x] EXCEPT ![c] = n] \in [Clients -> Nat]
  BY <1>1
<1>3. t[x][c] + 1 \in Nat /\ (t[x][c] > 0 => t[x][c] - 1 \in Nat)
  BY <1>1
<1> QED
  BY <1>1, <1>2, <1>3

(* It holds at the start.                                                  *)
LEMMA TInvInit == Init => TInv
<1> SUFFICES ASSUME Init PROVE TInv
  OBVIOUS
<1> USE ConfigAssumption DEF Init
<1>1. TypeOK
  <2>1. 1 \in Versions /\ 0 \in 0..0 /\ 0 \in Nat /\ 0 \in 0..MaxRegs
    BY DEF Versions
  <2> QED
    BY <2>1 DEF TypeOK, Cache!Init, NoVersion, NoReg, PCs, Actors, Nobody
<1>2. Given /\ Holds /\ Sent
  BY DEF Given, Holds, Sent, Actors
<1> QED
  BY <1>1, <1>2 DEF TInv

(* What a client that is about to store holds.                             *)
LEMMA LoadHolds ==
  ASSUME TInv, NEW c \in Clients, Loading(c), raw[c] # NoVersion
  PROVE  /\ now[c] \in todo[c] /\ now[c] \in Namespaces /\ raw[c] \in Versions
         /\ raw[c] <= content[now[c]] /\ <<now[c], raw[c]>> \notin bad
<1>1. now[c] \in todo[c] /\ raw[c] \in 1..content[now[c]] /\ <<now[c], raw[c]>> \notin bad
  BY DEF TInv, Holds, Loading
<1>2. now[c] \in Namespaces /\ content[now[c]] \in 1..MaxVersion
  BY <1>1 DEF TInv, TypeOK, Actors, Versions
<1> QED
  BY <1>1, <1>2, ConfigAssumption DEF Versions

(* What a client that is about to keep a registration holds.               *)
LEMMA WatchHolds ==
  ASSUME TInv, NEW c \in Clients, pc[c] = "subscribed"
  PROVE  /\ now[c] \in Namespaces /\ raw[c] \in 1..issued /\ subject[raw[c]] = now[c]
         /\ raw[c] # NoReg /\ raw[c] \in 0..issued
<1>1. now[c] \in Namespaces /\ raw[c] \in 1..issued /\ subject[raw[c]] = now[c]
  BY DEF TInv, Holds
<1>2. issued \in Nat
  BY ConfigAssumption DEF TInv, TypeOK
<1> QED
  BY <1>1, <1>2 DEF NoReg

(* An event is a registration and a version.                               *)
LEMMA Event ==
  ASSUME NEW e \in Events
  PROVE  e[1] \in 1..MaxRegs /\ e[2] \in 1..MaxVersion
BY DEF Events, Regs, Versions

(* An event in a handler is of a registration, and so of a namespace.      *)
LEMMA SentOf ==
  ASSUME TInv, NEW e \in Events, handler[e] # "none"
  PROVE  /\ e[1] \in 1..issued /\ subject[e[1]] \in Namespaces
         /\ e[2] \in 1..content[subject[e[1]]]
<1>1. e[1] <= issued /\ e[2] <= content[subject[e[1]]]
  BY DEF TInv, Sent
<1>2. issued \in Nat
  BY ConfigAssumption DEF TInv, TypeOK
<1>3. e[1] \in 1..issued /\ subject[e[1]] \in Namespaces
  BY <1>1, <1>2, Event, ConfigAssumption DEF TInv, Given
<1>4. content[subject[e[1]]] \in 1..MaxVersion
  BY <1>3 DEF TInv, TypeOK, Versions
<1> QED
  BY <1>1, <1>3, <1>4, Event, ConfigAssumption

(* A cancel changes two sets.                                              *)
LEMMA Cancels ==
  ASSUME NEW rs, CancelAll(rs)
  PROVE  /\ cancelled' = cancelled \cup rs
         /\ attached' \subseteq attached /\ attached \subseteq attached' \cup rs
         /\ UNCHANGED <<content, bad, subject, issued>>
BY DEF CancelAll

(* StopAllWatchers cancels what the client has kept.                       *)
LEMMA Stops ==
  ASSUME TypeOK, StopAllWatchers
  PROVE  /\ cancelled' = cancelled \cup ({cancelFuncs[ns] : ns \in Namespaces} \ {NoReg})
         /\ attached' \subseteq attached
         /\ \A r \in attached \ attached' : r \in cancelled'
         /\ cancelled' \subseteq 1..issued
         /\ watcher' = [ns \in Namespaces |-> Nobody]
         /\ cancelFuncs' = [ns \in Namespaces |-> NoReg]
         /\ UNCHANGED <<namespaces, registered, content, bad, subject, issued>>
<1> DEFINE rs == {cancelFuncs[ns] : ns \in Namespaces} \ {NoReg}
<1>1. CancelAll(rs) /\ UNCHANGED <<namespaces, registered>>
  BY DEF StopAllWatchers
<1>2. /\ cancelled' = cancelled \cup rs
      /\ attached' \subseteq attached /\ attached \subseteq attached' \cup rs
      /\ UNCHANGED <<content, bad, subject, issued>>
  <2> HIDE DEF rs
  <2> QED
    BY <1>1, Cancels
<1>3. rs \subseteq 1..issued /\ cancelled \subseteq 1..issued
  BY ConfigAssumption DEF TypeOK, NoReg
<1> QED
  BY <1>1, <1>2, <1>3 DEF StopAllWatchers

(* What the callers keep.                                                  *)
Callers ==
  /\ pc \in [Actors -> PCs]
  /\ todo \in [Actors -> SUBSET Namespaces]
  /\ now \in [Actors -> Namespaces \cup {NoNamespace}]
  /\ raw \in [Actors -> Nat]
  /\ once \in {"fresh", "running", "done"} /\ ready \in BOOLEAN /\ handlers \in Nat

(* The moves of a client keep their types and leave the rest alone.        *)
LEMMA MovesTypes ==
  ASSUME TypeOK, NEW c \in Clients, Moves(c)
  PROVE  Callers' /\ UNCHANGED <<cacheOn, tables, provider, changes, clashed, latch>>
<1> USE DEF Go, client, tables, callers
<1>1. Callers /\ c \in Actors
  BY DEF TypeOK, Callers, Actors
<1>2. content \in [Namespaces -> Nat]
  BY ConfigAssumption DEF TypeOK, Versions
<1>3. UNCHANGED <<cacheOn, tables, provider, changes, clashed, latch>>
  <2>1. CASE WatchCall(c)
    BY <2>1, WatchCalls
  <2>2. CASE ~WatchCall(c)
    BY <2>2 DEF Moves, Bootstrap, InitCall, InitAwaited, Reload, LoadRead, LoadFails,
                SubscribeFails, ClearAllFunc, TimeOut
  <2> QED
    BY <2>1, <2>2
<1>4. Callers'
  <2> USE <1>1, <1>2 DEF Callers
  <2>1. CASE Bootstrap(c) \/ InitAwaited(c) \/ TimeOut(c)
    BY <2>1 DEF Bootstrap, InitAwaited, TimeOut, PCs
  <2>2. CASE InitCall(c) \/ Reload(c)
    BY <2>2 DEF InitCall, Reload, PCs
  <2>3. CASE WatchCall(c)
    BY <2>3, WatchCalls DEF PCs
  <2>4. CASE LoadRead(c)
    BY <2>4 DEF LoadRead
  <2>5. CASE LoadFails(c)
    BY <2>5 DEF LoadFails, Loaded, PCs
  <2>6. CASE SubscribeFails(c)
    BY <2>6 DEF SubscribeFails, NextWatch, PCs
  <2>7. CASE ClearAllFunc(c)
    BY <2>7 DEF ClearAllFunc, PCs
  <2> QED
    BY <2>1, <2>2, <2>3, <2>4, <2>5, <2>6, <2>7 DEF Moves
<1> QED
  BY <1>3, <1>4

(* The types are preserved.                                                *)
LEMMA TypeNext == TInv /\ [Next]_vars => TypeOK'
<1> SUFFICES ASSUME TInv, [Next]_vars PROVE TypeOK'
  OBVIOUS
<1> USE ConfigAssumption
    DEF TInv, TypeOK, PCs, Actors, Versions, NoVersion, NoReg, Go, client, tables, callers,
        provider, changes, latch, HasClient
<1>1. ASSUME NEW c \in Clients, Moves(c) PROVE TypeOK'
  BY <1>1, MovesTypes DEF Callers
<1>2. ASSUME NEW c \in Clients, LoadStore(c) PROVE TypeOK'
  <2>1. raw[c] \in Versions /\ now[c] \in Namespaces
    BY <1>2, LoadHolds DEF LoadStore, NoVersion
  <2>2. namespaces' \in [Namespaces -> Versions \cup {NoVersion}]
    BY <1>2, <2>1 DEF LoadStore
  <2>3. /\ pc' \in [Actors -> PCs] /\ once' \in {"fresh", "running", "done"} /\ ready' \in BOOLEAN
        /\ handlers' = handlers
    BY <1>2 DEF LoadStore, Loaded
  <2>4. /\ raw' \in [Actors -> Nat] /\ now' \in [Actors -> Namespaces \cup {NoNamespace}]
        /\ todo' \in [Actors -> SUBSET Namespaces]
    BY <1>2 DEF LoadStore
  <2> QED
    BY <1>2, <2>2, <2>3, <2>4 DEF LoadStore
<1>3. ASSUME NEW c \in Clients, WatchCheck(c) PROVE TypeOK'
  <2>1. PICK ns \in todo[c] :
          \/ /\ Register(c, ns) /\ UNCHANGED <<now, clashed>>
             /\ \E l \in {"idle", "watching"} : pc' = [pc EXCEPT ![c] = l]
             /\ todo' = [todo EXCEPT ![c] = @ \ {ns}]
          \/ /\ now' = [now EXCEPT ![c] = ns]
             /\ pc' = [pc EXCEPT ![c] = "subscribing"]
             /\ \E n \in SUBSET {ns} : clashed' = clashed \cup n
             /\ UNCHANGED <<watcher, registered, todo>>
    BY <1>3 DEF WatchCheck, NextWatch
  <2>2. ns \in Namespaces
    OBVIOUS
  <2>3. /\ watcher' \in [Namespaces -> [Clients -> Nat]]
        /\ registered' \in [Namespaces -> [Clients -> Nat]]
    <3>1. CASE Register(c, ns)
      BY <2>2, <3>1, Counts DEF Register
    <3>2. CASE UNCHANGED <<watcher, registered>>
      BY <3>2
    <3> QED
      BY <2>1, <3>1, <3>2
  <2>4. pc' \in [Actors -> PCs]
    BY <2>1
  <2>7. /\ todo \in [Actors -> SUBSET Namespaces] /\ clashed \subseteq Namespaces
        /\ now \in [Actors -> Namespaces \cup {NoNamespace}]
    OBVIOUS
  <2> HIDE DEF TInv, TypeOK
  <2>5. todo' \in [Actors -> SUBSET Namespaces]
    BY <2>1, <2>7
  <2>6. now' \in [Actors -> Namespaces \cup {NoNamespace}] /\ clashed' \subseteq Namespaces
    BY <2>1, <2>2, <2>7
  <2> USE DEF TInv, TypeOK
  <2> QED
    BY <1>3, <2>3, <2>4, <2>5, <2>6 DEF WatchCheck
<1>4. ASSUME NEW c \in Clients, Subscribe(c) PROVE TypeOK'
  BY <1>4 DEF Subscribe, Holds, Regs
<1>5. ASSUME NEW c \in Clients, WatchStore(c) PROVE TypeOK'
  <2>1. now[c] \in Namespaces /\ raw[c] \in 0..issued
    BY <1>5, WatchHolds DEF WatchStore
  <2>2. /\ watcher' \in [Namespaces -> [Clients -> Nat]]
        /\ registered' \in [Namespaces -> [Clients -> Nat]]
        /\ cancelFuncs' \in [Namespaces -> 0..issued]
    BY <1>5, <2>1, Counts DEF WatchStore, Register
  <2>3. /\ raw' \in [Actors -> Nat] /\ now' \in [Actors -> Namespaces \cup {NoNamespace}]
    BY <1>5 DEF WatchStore
  <2>4. pc' \in [Actors -> PCs] /\ todo' \in [Actors -> SUBSET Namespaces]
    BY <1>5 DEF WatchStore, NextWatch
  <2> QED
    BY <1>5, <2>2, <2>3, <2>4 DEF WatchStore
<1>14. Nobody \in [Clients -> Nat]
  BY DEF Nobody
<1>6. ASSUME NEW c \in Clients, Unwatch(c) PROVE TypeOK'
  <2>1. PICK ns \in Namespaces : /\ CancelAll({cancelFuncs[ns]}) /\ cancelFuncs[ns] # NoReg
                                 /\ cancelFuncs' = [cancelFuncs EXCEPT ![ns] = NoReg]
                                 /\ watcher' = [watcher EXCEPT ![ns] = Nobody]
    BY <1>6 DEF Unwatch
  <2>2. /\ cancelled' = cancelled \cup {cancelFuncs[ns]} /\ attached' \subseteq attached
        /\ UNCHANGED <<content, bad, subject, issued>>
    BY <2>1, Cancels
  <2>4. cancelFuncs[ns] \in 1..issued
    BY <2>1
  <2>5. attached' \subseteq 1..issued /\ cancelled' \subseteq 1..issued
    BY <2>2, <2>4
  <2>3. cancelFuncs' \in [Namespaces -> 0..issued] /\ watcher' \in [Namespaces -> [Clients -> Nat]]
    BY <2>1, <1>14
  <2> QED
    BY <1>6, <2>2, <2>3, <2>5 DEF Unwatch
<1>0. TypeOK
  OBVIOUS
<1>7. ASSUME StopAllWatchers
      PROVE  /\ UNCHANGED <<namespaces, registered, content, bad, subject, issued>>
             /\ watcher' \in [Namespaces -> [Clients -> Nat]]
             /\ cancelFuncs' \in [Namespaces -> 0..issued]
             /\ attached' \subseteq 1..issued /\ cancelled' \subseteq 1..issued
  <2>1. /\ attached' \subseteq attached /\ cancelled' \subseteq 1..issued
        /\ watcher' = [ns \in Namespaces |-> Nobody]
        /\ cancelFuncs' = [ns \in Namespaces |-> NoReg]
        /\ UNCHANGED <<namespaces, registered, content, bad, subject, issued>>
    BY <1>0, <1>7, Stops
  <2> QED
    BY <2>1, <1>14
<1>8. ASSUME NEW c \in Clients, StopAllWatch(c) PROVE TypeOK'
  BY <1>7, <1>8 DEF StopAllWatch
<1>9. ASSUME NEW a \in Actors, ShutdownEmpty(a) \/ ClearCache(a) PROVE TypeOK'
  BY <1>9 DEF ShutdownEmpty, ClearCache, End, Cache!Pass
<1>10. ASSUME NEW a \in Actors, Shutdown(a) PROVE TypeOK'
  <2>1. /\ UNCHANGED <<cacheOn, client, todo, now, raw, changes, clashed, taken>>
        /\ \E l \in {"idle", "finished", "clearing"} : pc' = [pc EXCEPT ![a] = l]
        /\ waiting' \subseteq waiting \cup {a}
    BY <1>10 DEF Shutdown, End, Cache!Enter
  <2>2. StopAllWatchers
    BY <1>10 DEF Shutdown
  <2> QED
    BY <1>7, <2>1, <2>2
<1>11. ASSUME NEW e \in Events, Handle(e) PROVE TypeOK'
  <2> USE DEF Step
  <2>1. CASE HandleRefuse(e)
    BY <2>1 DEF HandleRefuse
  <2>2. CASE HandleParse(e) \/ HandleCache(e)
    BY ZenonT(40), <2>2 DEF HandleParse, HandleCache, Cache!Enter, Cache!Take
  <2>3. CASE HandleStore(e)
    <3>1. e[2] \in Versions
      BY DEF Events
    <3> QED
      BY <2>3, <3>1 DEF HandleStore
  <2>4. CASE HandleCopy(e)
    <3>1. handler[e] # "none"
      BY <2>4 DEF HandleCopy
    <3>2. subject[e[1]] \in Namespaces
      BY <3>1, SentOf
    <3> QED
      BY <2>4, <3>2 DEF HandleCopy, Subject
  <2>5. CASE HandleCall(e)
    <3>1. PICK c \in Clients : /\ callbacks[e][c] > 0
                               /\ callbacks' = [callbacks EXCEPT ![e][c] = @ - 1]
                               /\ delivered' = [delivered EXCEPT ![e][c] = @ + 1]
      BY <2>5 DEF HandleCall
    <3>2. callbacks' \in [Events -> [Clients -> Nat]] /\ delivered' \in [Events -> [Clients -> Nat]]
      BY <3>1, Counts
    <3> QED
      BY <2>5, <3>2 DEF HandleCall
  <2> QED
    BY <1>11, <2>1, <2>2, <2>3, <2>4, <2>5 DEF Handle
<1>12. ASSUME NEW ns \in Namespaces, NEW parses \in BOOLEAN, Publish(ns, parses) PROVE TypeOK'
  BY <1>12 DEF Publish
<1>13. ASSUME UNCHANGED vars PROVE TypeOK'
  BY <1>13 DEF vars
<1> HIDE DEF TInv, TypeOK
<1> QED
  BY SMTT(30), <1>1, <1>2, <1>3, <1>4, <1>5, <1>6, <1>8, <1>9, <1>10, <1>11, <1>12, <1>13, Cases DEF Actors

(* A registration keeps its namespace; it is dropped by a cancel alone.    *)
LEMMA GivenNext == TInv /\ [Next]_vars => Given'
<1> SUFFICES ASSUME TInv, [Next]_vars PROVE Given'
  OBVIOUS
<1> USE DEF Given, provider, client, tables, callers, changes
<1>0. Given /\ TypeOK /\ issued \in Nat
  BY ConfigAssumption DEF TInv, TypeOK
<1>1. CASE UNCHANGED provider
  BY <1>0, <1>1
<1>2. ASSUME NEW c \in Clients, Subscribe(c) PROVE Given'
  <2>1. now[c] \in Namespaces /\ issued + 1 \in Regs
    <3>1. pc[c] = "subscribing" /\ issued < MaxRegs
      BY <1>2 DEF Subscribe
    <3>2. now[c] \in Namespaces
      BY <3>1 DEF TInv, Holds
    <3> QED
      BY <1>0, <3>1, <3>2, ConfigAssumption DEF Regs
  <2>2. /\ issued' = issued + 1 /\ attached' = attached \cup {issued + 1} /\ cancelled' = cancelled
        /\ subject' = [subject EXCEPT ![issued + 1] = now[c]]
    BY <1>2 DEF Subscribe
  <2>3. ASSUME NEW r \in 1..issued'
        PROVE  subject'[r] \in Namespaces /\ r \in attached' \cup cancelled'
    <3>1. CASE r = issued + 1
      BY <1>0, <2>1, <2>2, <3>1 DEF TypeOK
    <3>2. CASE r # issued + 1
      <4>1. r \in 1..issued
        BY <1>0, <2>2, <3>2
      <4> QED
        BY <1>0, <2>2, <3>2, <4>1 DEF TypeOK
    <3> QED
      BY <3>1, <3>2
  <2> QED
    BY <2>3
<1>3. ASSUME NEW c \in Clients, Unwatch(c) PROVE Given'
  <2>1. PICK ns \in Namespaces : CancelAll({cancelFuncs[ns]})
    BY <1>3 DEF Unwatch
  <2>2. /\ cancelled' = cancelled \cup {cancelFuncs[ns]}
        /\ attached \subseteq attached' \cup {cancelFuncs[ns]} /\ UNCHANGED <<subject, issued>>
    BY <2>1, Cancels
  <2> QED
    BY <1>0, <2>2
<1>4. ASSUME StopAllWatchers PROVE Given'
  BY <1>0, <1>4, Stops, ConfigAssumption DEF TypeOK
<1>5. ASSUME NEW ns \in Namespaces, NEW parses \in BOOLEAN, Publish(ns, parses) PROVE Given'
  BY <1>0, <1>5 DEF Publish
<1>6. ASSUME NEW c \in Clients, Moves(c) PROVE UNCHANGED provider
  BY <1>6 DEF Moves, Bootstrap, InitCall, InitAwaited, Reload, LoadRead, LoadFails, WatchCall,
              SubscribeFails, ClearAllFunc, TimeOut
<1>7. ASSUME NEW e \in Events, Handle(e) PROVE UNCHANGED provider
  BY <1>7 DEF Handle, HandleRefuse, HandleParse, HandleCache, HandleStore, HandleCopy, HandleCall
<1>8. ASSUME NEW a \in Actors, ShutdownEmpty(a) \/ ClearCache(a) PROVE UNCHANGED provider
  BY <1>8 DEF ShutdownEmpty, ClearCache
<1>9. ASSUME NEW c \in Clients, LoadStore(c) \/ WatchCheck(c) \/ WatchStore(c)
      PROVE  UNCHANGED provider
  BY <1>9 DEF LoadStore, WatchCheck, WatchStore
<1>10. ASSUME NEW a \in Actors, StopAllWatch(a) \/ Shutdown(a) PROVE StopAllWatchers
  BY <1>10 DEF StopAllWatch, Shutdown
<1>11. CASE UNCHANGED vars
  BY <1>1, <1>11 DEF vars
<1> QED
  BY <1>1, <1>2, <1>3, <1>4, <1>5, <1>6, <1>7, <1>8, <1>9, <1>10, <1>11, Cases DEF Actors

(* Handlers run for registrations and versions there are, and content that *)
(* is being stored has parsed.                                             *)
LEMMA SentNext == TInv /\ [Next]_vars => Sent'
<1> SUFFICES ASSUME TInv, [Next]_vars PROVE Sent'
  OBVIOUS
<1> USE DEF client, tables, callers, changes, provider
<1>0. Sent /\ TypeOK /\ Given /\ issued \in Nat
  BY ConfigAssumption DEF TInv, TypeOK
<1>1. ASSUME UNCHANGED <<changes, bad, issued, subject, content>> PROVE Sent'
  BY <1>0, <1>1 DEF Sent
<1>2. ASSUME NEW c \in Clients, Subscribe(c) PROVE Sent'
  <2>1. /\ issued' = issued + 1 /\ subject' = [subject EXCEPT ![issued + 1] = now[c]]
        /\ UNCHANGED <<changes, bad, content>>
    BY <1>2 DEF Subscribe
  <2>3. \A r \in Regs : r <= issued => subject'[r] = subject[r]
    BY <1>0, <2>1, ConfigAssumption DEF TypeOK, Regs
  <2>4. \A e \in Events : handler[e] # "none" => subject'[e[1]] = subject[e[1]]
    BY <1>0, <2>3, Event DEF Sent, Regs
  <2>6. ASSUME NEW e \in Events
        PROVE  /\ handler[e] # "none" => e[1] <= issued + 1 /\ e[2] <= content[subject'[e[1]]]
               /\ handler[e] \in {"caching", "storing"} => <<subject'[e[1]], e[2]>> \notin bad
               /\ callbacks[e] # Nobody \/ delivered[e] # Nobody => handler[e] = "calling"
    <3>1. CASE handler[e] = "none"
      BY <1>0, <3>1 DEF Sent
    <3>2. CASE handler[e] # "none"
      <4>1. e[1] <= issued + 1 /\ subject'[e[1]] = subject[e[1]]
        <5>1. e[1] \in 1..issued /\ e[1] <= issued
          BY <3>2, SentOf
        <5> QED
          BY <1>0, <2>4, <3>2, <5>1
      <4> QED
        BY <1>0, <4>1 DEF Sent
    <3> QED
      BY <3>1, <3>2
  <2> QED
    BY <2>1, <2>6 DEF Sent
<1>3. ASSUME NEW ns \in Namespaces, NEW parses \in BOOLEAN, Publish(ns, parses) PROVE Sent'
  <2>1. /\ content[ns] \in 1..MaxVersion /\ content'[ns] = content[ns] + 1
        /\ \A m \in Namespaces : m # ns => content'[m] = content[m]
        /\ bad' \subseteq bad \cup {<<ns, content'[ns]>>}
        /\ UNCHANGED <<issued, subject, callbacks, delivered>>
    BY <1>0, <1>3 DEF Publish, TypeOK, Versions
  <2>2. \A e \in Events : handler'[e] =
          IF e[1] \in attached /\ subject[e[1]] = ns /\ e[2] = content'[ns] THEN "sent" ELSE handler[e]
    BY <1>0, <1>3 DEF Publish, TypeOK
  <2>3. ASSUME NEW e \in Events
        PROVE  /\ handler'[e] # "none" => e[1] <= issued /\ e[2] <= content'[subject[e[1]]]
               /\ handler'[e] \in {"caching", "storing"} => <<subject[e[1]], e[2]>> \notin bad'
               /\ callbacks[e] # Nobody \/ delivered[e] # Nobody => handler'[e] = "calling"
    <3>1. CASE e[1] \in attached /\ subject[e[1]] = ns /\ e[2] = content'[ns]
      <4>1. handler[e] = "none"
        <5> SUFFICES ASSUME handler[e] # "none" PROVE FALSE
          OBVIOUS
        <5>1. e[2] \in 1..content[subject[e[1]]]
          BY SentOf
        <5> QED
          BY <2>1, <3>1, <5>1, ConfigAssumption
      <4>2. e[1] <= issued /\ handler'[e] = "sent"
        <5>1. e[1] \in 1..issued
          BY <1>0, <3>1 DEF TypeOK
        <5> QED
          BY <1>0, <2>2, <3>1, <5>1
      <4>3. e[2] <= content'[subject[e[1]]]
        BY <2>1, <3>1, Event, ConfigAssumption
      <4>4. callbacks[e] = Nobody /\ delivered[e] = Nobody
        BY <1>0, <4>1 DEF Sent
      <4> QED
        BY <4>2, <4>3, <4>4
    <3>2. CASE ~(e[1] \in attached /\ subject[e[1]] = ns /\ e[2] = content'[ns])
      <4>1. handler'[e] = handler[e]
        BY <2>2, <3>2
      <4>2. CASE handler[e] = "none"
        BY <1>0, <4>1, <4>2 DEF Sent
      <4>3. CASE handler[e] # "none"
        <5>1. /\ e[1] \in 1..issued /\ subject[e[1]] \in Namespaces
              /\ e[2] \in 1..content[subject[e[1]]]
          BY <4>3, SentOf
        <5>2. e[2] <= content'[subject[e[1]]] /\ <<subject[e[1]], e[2]>> # <<ns, content'[ns]>>
          BY <2>1, <5>1, ConfigAssumption DEF TypeOK
        <5> QED
          BY <1>0, <2>1, <4>1, <5>1, <5>2 DEF Sent
      <4> QED
        BY <4>2, <4>3
    <3> QED
      BY <3>1, <3>2
  <2> QED
    BY <1>0, <2>1, <2>3 DEF Sent
<1>4. ASSUME NEW e \in Events, Handle(e) PROVE Sent'
  <2> USE <1>0 DEF Step, Subject
  <2>1. CASE HandleRefuse(e)
    BY <2>1 DEF HandleRefuse, Sent, TypeOK
  <2>2. CASE HandleParse(e)
    BY <2>2 DEF HandleParse, Sent, TypeOK
  <2>3. CASE HandleCache(e)
    BY <1>1, <2>3 DEF HandleCache
  <2>4. CASE HandleStore(e)
    BY <2>4 DEF HandleStore, Sent, TypeOK
  <2>5. CASE HandleCopy(e)
    BY <2>5 DEF HandleCopy, Sent, TypeOK
  <2>6. CASE HandleCall(e)
    <3>1. handler[e] = "calling"
      BY <2>6, CallsSomebody DEF Sent
    <3>3. UNCHANGED <<handler, issued, subject, content, bad>>
      BY <2>6 DEF HandleCall
    <3>4. \A f \in Events : f # e => callbacks'[f] = callbacks[f] /\ delivered'[f] = delivered[f]
      BY <2>6 DEF HandleCall, TypeOK
    <3> QED
      BY <3>1, <3>3, <3>4 DEF Sent
  <2> QED
    BY <1>4, <2>1, <2>2, <2>3, <2>4, <2>5, <2>6 DEF Handle
<1>5. ASSUME NEW c \in Clients, Moves(c)
      PROVE  UNCHANGED <<changes, bad, issued, subject, content>>
  BY <1>5 DEF Moves, Bootstrap, InitCall, InitAwaited, Reload, LoadRead, LoadFails, WatchCall,
              SubscribeFails, ClearAllFunc, TimeOut
<1>6. ASSUME NEW c \in Clients, LoadStore(c) \/ WatchCheck(c) \/ WatchStore(c)
      PROVE  UNCHANGED <<changes, bad, issued, subject, content>>
  BY <1>6 DEF LoadStore, WatchCheck, WatchStore
<1>7. ASSUME NEW c \in Clients, Unwatch(c)
      PROVE  UNCHANGED <<changes, bad, issued, subject, content>>
  BY <1>7 DEF Unwatch, CancelAll
<1>8. ASSUME NEW a \in Actors, StopAllWatch(a) \/ Shutdown(a)
      PROVE  UNCHANGED <<changes, bad, issued, subject, content>>
  BY <1>8 DEF StopAllWatch, Shutdown, StopAllWatchers, CancelAll
<1>9. ASSUME NEW a \in Actors, ShutdownEmpty(a) \/ ClearCache(a)
      PROVE  UNCHANGED <<changes, bad, issued, subject, content>>
  BY <1>9 DEF ShutdownEmpty, ClearCache
<1>10. CASE UNCHANGED vars
  BY <1>1, <1>10 DEF vars
<1> QED
  BY <1>1, <1>2, <1>3, <1>4, <1>5, <1>6, <1>7, <1>8, <1>9, <1>10, Cases DEF Actors

(* What Holds says of one client; it only gets easier to hold as long as   *)
(* the client stays where it is and the provider moves on.                 *)
HoldsFor(c) ==
  /\ pc[c] \in {"subscribing", "subscribed"} => now[c] \in Namespaces
  /\ pc[c] = "subscribed" => raw[c] \in 1..issued /\ subject[raw[c]] = now[c]
  /\ pc[c] \in {"loading", "reloading"} /\ raw[c] # NoVersion =>
       /\ now[c] \in todo[c]
       /\ raw[c] \in 1..content[now[c]]
       /\ <<now[c], raw[c]>> \notin bad
  /\ pc[c] \notin {"loading", "reloading", "subscribed"} => raw[c] = 0
  /\ pc[c] # "unborn"

(* What a client holds is not affected by the steps of others.             *)
LEMMA HoldsKept ==
  ASSUME TInv, NEW c \in Clients,
         /\ pc'[c] = pc[c] /\ now'[c] = now[c] /\ raw'[c] = raw[c] /\ todo'[c] = todo[c],
         UNCHANGED <<content, bad, subject, issued>>
  PROVE  HoldsFor(c)'
<1>1. HoldsFor(c)
  BY DEF TInv, Holds, HoldsFor
<1> QED
  BY <1>1 DEF HoldsFor

(* A step of c alone.                                                      *)
LEMMA HoldsOther ==
  ASSUME TInv, NEW c \in Actors,
         /\ \A d \in Actors : d # c => /\ pc'[d] = pc[d] /\ now'[d] = now[d]
                                       /\ raw'[d] = raw[d] /\ todo'[d] = todo[d],
         UNCHANGED <<content, bad, subject, issued>>,
         c \in Clients => HoldsFor(c)',
         c \in Closers => pc'[c] \in {"unborn", "started", "clearing", "finished"}
  PROVE  Holds'
<1>1. \A d \in Clients : HoldsFor(d)'
  BY HoldsKept DEF Actors
<1>2. \A s \in Closers : pc'[s] \in {"unborn", "started", "clearing", "finished"}
  BY DEF Actors, TInv, Holds
<1> QED
  BY <1>1, <1>2 DEF Holds, HoldsFor

(* What clients hold stays true while they are outside the lock.           *)
LEMMA HoldsNext == TInv /\ [Next]_vars => Holds'
<1> SUFFICES ASSUME TInv, [Next]_vars PROVE Holds'
  OBVIOUS
<1> USE DEF client, tables, callers, changes, provider
<1>0. /\ TypeOK /\ Holds
      /\ Clients \subseteq Actors /\ Closers \subseteq Actors /\ Clients \cap Closers = {}
      /\ pc \in [Actors -> PCs] /\ now \in [Actors -> Namespaces \cup {NoNamespace}]
      /\ raw \in [Actors -> Nat] /\ todo \in [Actors -> SUBSET Namespaces]
  BY ConfigAssumption DEF TInv, TypeOK, Actors
<1>1. ASSUME NEW c \in Clients, Moves(c) PROVE Holds'
  <2>1. UNCHANGED <<content, bad, subject, issued>>
    BY <1>1 DEF Moves, Bootstrap, InitCall, InitAwaited, Reload, LoadRead, LoadFails, WatchCall,
                SubscribeFails, ClearAllFunc, TimeOut
  <2>2. CASE Bootstrap(c) \/ InitCall(c) \/ InitAwaited(c) \/ Reload(c) \/ WatchCall(c)
             \/ TimeOut(c)
    <3>1. /\ pc[c] \in {"idle", "awaiting", "timed"}
          /\ pc'[c] \in {"idle", "awaiting", "loading", "reloading", "watching"}
          /\ now' = now /\ raw' = raw
          /\ \A d \in Actors : d # c => pc'[d] = pc[d] /\ todo'[d] = todo[d]
      BY <1>0, <2>2 DEF Bootstrap, InitCall, InitAwaited, Reload, WatchCall, TimeOut, Go
    <3>2. HoldsFor(c)'
      BY <1>0, <3>1 DEF HoldsFor, Holds, NoVersion
    <3> QED
      BY <1>0, <2>1, <3>1, <3>2, HoldsOther
  <2>3. CASE LoadRead(c)
    <3>1. PICK ns \in todo[c] : /\ <<ns, content[ns]>> \notin bad
                                /\ now' = [now EXCEPT ![c] = ns]
                                /\ raw' = [raw EXCEPT ![c] = content[ns]]
      BY <2>3 DEF LoadRead
    <3>2. /\ now'[c] = ns /\ raw'[c] = content[ns] /\ pc' = pc /\ todo' = todo
          /\ pc[c] \in {"loading", "reloading"}
          /\ \A d \in Actors : d # c => now'[d] = now[d] /\ raw'[d] = raw[d]
      BY <1>0, <2>3, <3>1 DEF LoadRead, Loading
    <3>3. ns \in Namespaces /\ content[ns] \in 1..MaxVersion
      BY <1>0, <3>1 DEF TypeOK, Versions
    <3>4. HoldsFor(c)'
      BY <1>0, <2>1, <3>1, <3>2, <3>3, ConfigAssumption DEF HoldsFor
    <3> QED
      BY <1>0, <2>1, <3>2, <3>4, HoldsOther
  <2>4. CASE LoadFails(c)
    <3>1. /\ pc'[c] = "idle" /\ raw[c] = 0 /\ now' = now /\ raw' = raw
          /\ \A d \in Actors : d # c => pc'[d] = pc[d] /\ todo'[d] = todo[d]
      BY <1>0, <2>4 DEF LoadFails, Loaded, Go, NoVersion
    <3>2. HoldsFor(c)'
      BY <1>0, <3>1 DEF HoldsFor
    <3> QED
      BY <1>0, <2>1, <3>1, <3>2, HoldsOther
  <2>5. CASE SubscribeFails(c)
    <3>1. /\ pc[c] = "subscribing" /\ pc'[c] \in {"idle", "watching"} /\ raw' = raw
          /\ \A d \in Actors : d # c => pc'[d] = pc[d] /\ todo'[d] = todo[d] /\ now'[d] = now[d]
      BY <1>0, <2>5 DEF SubscribeFails, NextWatch, Go
    <3>2. HoldsFor(c)'
      BY <1>0, <3>1 DEF HoldsFor, Holds
    <3> QED
      BY <1>0, <2>1, <3>1, <3>2, HoldsOther
  <2>6. CASE ClearAllFunc(c)
    <3>1. PICK born \in SUBSET {a \in Closers : pc[a] = "unborn"}, limit \in BOOLEAN :
            pc' = [a \in Actors |-> IF a \in born THEN "started"
                                   ELSE IF a # c THEN pc[a]
                                   ELSE IF limit THEN "timed" ELSE "stuck"]
      BY <2>6 DEF ClearAllFunc
    <3>2. pc[c] = "idle" /\ UNCHANGED <<todo, now, raw>>
      BY <2>6 DEF ClearAllFunc
    <3>3. pc'[c] \in {"timed", "stuck"} /\ \A d \in Clients : d # c => pc'[d] = pc[d]
      BY <1>0, <3>1
    <3>4. HoldsFor(c)'
      BY <1>0, <3>2, <3>3 DEF HoldsFor, Holds
    <3>5. \A d \in Clients : HoldsFor(d)'
      BY <2>1, <3>2, <3>3, <3>4, HoldsKept
    <3>6. \A s \in Closers : pc'[s] \in {"unborn", "started", "clearing", "finished"}
      BY <1>0, <3>1 DEF Holds
    <3> QED
      BY <3>5, <3>6 DEF Holds, HoldsFor
  <2> QED
    BY <1>1, <2>2, <2>3, <2>4, <2>5, <2>6 DEF Moves
<1>2. ASSUME NEW c \in Clients, LoadStore(c) PROVE Holds'
  <2>1. /\ raw'[c] = 0 /\ pc'[c] \in {pc[c], "idle"} /\ pc[c] \in {"loading", "reloading"}
        /\ UNCHANGED <<content, bad, subject, issued>>
        /\ \A d \in Actors : d # c => /\ pc'[d] = pc[d] /\ now'[d] = now[d]
                                      /\ raw'[d] = raw[d] /\ todo'[d] = todo[d]
    BY <1>0, <1>2 DEF LoadStore, Loading, Loaded, Go, NoVersion
  <2>2. HoldsFor(c)'
    BY <2>1 DEF HoldsFor, NoVersion
  <2> QED
    BY <1>0, <2>1, <2>2, HoldsOther
<1>3. ASSUME NEW c \in Clients, WatchCheck(c) PROVE Holds'
  <2>1. /\ pc[c] = "watching" /\ pc'[c] \in {"watching", "idle", "subscribing"}
        /\ UNCHANGED <<content, bad, subject, issued, raw>>
        /\ pc'[c] = "subscribing" => now'[c] \in Namespaces
        /\ \A d \in Actors : d # c => pc'[d] = pc[d] /\ now'[d] = now[d] /\ todo'[d] = todo[d]
    BY <1>0, <1>3 DEF WatchCheck, NextWatch, Go
  <2>2. HoldsFor(c)'
    BY <1>0, <2>1 DEF HoldsFor, Holds
  <2> QED
    BY <1>0, <2>1, <2>2, HoldsOther
<1>4. ASSUME NEW c \in Clients, Subscribe(c) PROVE Holds'
  <2>1. /\ pc[c] = "subscribing" /\ issued < MaxRegs /\ issued' = issued + 1
        /\ subject' = [subject EXCEPT ![issued + 1] = now[c]]
        /\ raw' = [raw EXCEPT ![c] = issued + 1] /\ pc' = [pc EXCEPT ![c] = "subscribed"]
        /\ UNCHANGED <<now, todo, content, bad>>
    BY <1>4 DEF Subscribe, Go
  <2>2. issued \in 0..MaxRegs /\ subject \in [1..MaxRegs -> Namespaces \cup {NoNamespace}]
    BY <1>0 DEF TypeOK, Regs
  <2>3. \A r \in 1..issued : r \in 1..issued' /\ subject'[r] = subject[r]
    BY <2>1, <2>2, ConfigAssumption
  <2>4. issued + 1 \in 1..issued' /\ subject'[issued + 1] = now[c]
    BY <2>1, <2>2, ConfigAssumption
  <2>5. HoldsFor(c)'
    BY <1>0, <2>1, <2>4 DEF HoldsFor, Holds
  <2>6. ASSUME NEW d \in Clients, d # c PROVE HoldsFor(d)'
    <3>1. HoldsFor(d) /\ pc'[d] = pc[d] /\ raw'[d] = raw[d]
      BY <1>0, <2>1, <2>6 DEF Holds, HoldsFor
    <3> QED
      BY <2>1, <2>3, <3>1 DEF HoldsFor
  <2>7. \A s \in Closers : pc'[s] \in {"unborn", "started", "clearing", "finished"}
    BY <1>0, <2>1 DEF Holds
  <2> QED
    BY <2>5, <2>6, <2>7 DEF Holds, HoldsFor
<1>5. ASSUME NEW c \in Clients, WatchStore(c) PROVE Holds'
  <2>1. /\ raw'[c] = 0 /\ pc'[c] \in {"watching", "idle"}
        /\ UNCHANGED <<content, bad, subject, issued>>
        /\ \A d \in Actors : d # c => /\ pc'[d] = pc[d] /\ now'[d] = now[d]
                                      /\ raw'[d] = raw[d] /\ todo'[d] = todo[d]
    BY <1>0, <1>5 DEF WatchStore, NextWatch, Go, NoReg
  <2>2. HoldsFor(c)'
    BY <2>1 DEF HoldsFor
  <2> QED
    BY <1>0, <2>1, <2>2, HoldsOther
<1>6. ASSUME UNCHANGED <<callers, content, bad, subject, issued>> PROVE Holds'
  BY <1>0, <1>6 DEF Holds
<1>7. ASSUME NEW c \in Clients, Unwatch(c) \/ StopAllWatch(c) PROVE Holds'
  BY <1>6, <1>7 DEF Unwatch, StopAllWatch, StopAllWatchers, CancelAll
<1>8. ASSUME NEW e \in Events, Handle(e) PROVE Holds'
  BY <1>6, <1>8 DEF Handle, HandleRefuse, HandleParse, HandleCache, HandleStore, HandleCopy,
                    HandleCall
<1>9. ASSUME UNCHANGED vars PROVE Holds'
  BY <1>6, <1>9 DEF vars
<1>10. ASSUME NEW a \in Actors, ShutdownEmpty(a) \/ Shutdown(a) \/ ClearCache(a) PROVE Holds'
  <2>1. /\ pc[a] \in {"idle", "started", "clearing"}
        /\ pc'[a] \in IF a \in Clients THEN {"idle", "clearing"} ELSE {"clearing", "finished"}
        /\ UNCHANGED <<todo, now, raw, content, bad, subject, issued>>
        /\ \A d \in Actors : d # a => pc'[d] = pc[d]
    BY <1>0, <1>10 DEF ShutdownEmpty, Shutdown, ClearCache, End, Go, StopAllWatchers, CancelAll
  <2>2. a \in Clients => HoldsFor(a)'
    BY <1>0, <2>1 DEF HoldsFor, Holds
  <2> QED
    BY <1>0, <2>1, <2>2, HoldsOther
<1>11. ASSUME NEW ns \in Namespaces, NEW parses \in BOOLEAN, Publish(ns, parses) PROVE Holds'
  <2>1. /\ content[ns] \in 1..MaxVersion /\ content'[ns] = content[ns] + 1
        /\ \A m \in Namespaces : m # ns => content'[m] = content[m]
        /\ bad' \subseteq bad \cup {<<ns, content'[ns]>>}
        /\ UNCHANGED <<issued, subject, callers>>
    BY <1>0, <1>11 DEF Publish, TypeOK, Versions
  <2>2. ASSUME NEW c \in Clients, pc[c] \in {"loading", "reloading"}, raw[c] # NoVersion
        PROVE  raw[c] \in 1..content'[now[c]] /\ <<now[c], raw[c]>> \notin bad'
    <3>1. now[c] \in todo[c] /\ raw[c] \in 1..content[now[c]] /\ <<now[c], raw[c]>> \notin bad
      BY <1>0, <2>2 DEF Holds
    <3>2. now[c] \in Namespaces /\ content[now[c]] \in 1..MaxVersion
      BY <1>0, <3>1 DEF TypeOK, Versions
    <3>3. raw[c] \in 1..content'[now[c]] /\ <<now[c], raw[c]>> # <<ns, content'[ns]>>
      BY <2>1, <3>1, <3>2, ConfigAssumption
    <3> QED
      BY <2>1, <3>1, <3>3
  <2> QED
    BY <1>0, <2>1, <2>2 DEF Holds
<1> QED
  BY <1>1, <1>2, <1>3, <1>4, <1>5, <1>7, <1>8, <1>9, <1>10, <1>11, Cases DEF Actors

(* The invariant that carries the types is inductive.                      *)
LEMMA TInvNext == TInv /\ [Next]_vars => TInv'
BY TypeNext, GivenNext, SentNext, HoldsNext DEF TInv

(* Every variable keeps its type; only registrations that were issued are  *)
(* attached, cancelled or kept.                                            *)
THEOREM TypeCorrect == Spec => []TypeOK
<1>1. Spec => []TInv
  BY TInvInit, TInvNext, PTL DEF Spec
<1> QED
  BY <1>1, PTL DEF TInv

---------------------------------------------------------------------------
(* A kept registration is one of the namespace it is kept for.             *)
Kept == \A ns \in Namespaces : cancelFuncs[ns] # NoReg => subject[cancelFuncs[ns]] = ns

(* Where the check and the store of WatchNamespace are apart, a second     *)
(* client, or a registration that is kept by now, is a clash.              *)
Clashes ==
  \A ns \in Namespaces : \A c \in Clients : Subscribing(c, ns) =>
    /\ cancelFuncs[ns] # NoReg => ns \in clashed
    /\ \A d \in Clients : d # c /\ Subscribing(d, ns) => ns \in clashed

WInv == TInv /\ Kept /\ Clashes /\ Tracked

(* The part of a state that WInv speaks of.                                *)
Same ==
  /\ UNCHANGED <<watcher, cancelFuncs, subject, issued, attached, cancelled, clashed>>
  /\ \A c \in Clients :
       \/ pc'[c] = pc[c] /\ now'[c] = now[c] /\ raw'[c] = raw[c]
       \/ pc[c] \notin {"subscribing", "subscribed"} /\ pc'[c] \notin {"subscribing", "subscribed"}

(* A step elsewhere disturbs nothing.                                      *)
LEMMA SameKeeps ==
  ASSUME WInv, Same
  PROVE  Kept' /\ Clashes' /\ Tracked'
<1>1. Kept'
  BY DEF WInv, Kept, Same
<1>2. \A c \in Clients, ns \in Namespaces : Subscribing(c, ns)' <=> Subscribing(c, ns)
  BY DEF Same, Subscribing
<1>3. Clashes'
  BY <1>2 DEF WInv, Clashes, Same
<1>4. \A c \in Clients : pc[c] = "subscribed" => pc'[c] = "subscribed" /\ raw'[c] = raw[c]
  BY DEF Same
<1>5. Tracked'
  BY <1>4 DEF WInv, Tracked, Same
<1> QED
  BY <1>1, <1>3, <1>5

(* A cancel of what the tables no longer keep.                             *)
LEMMA DropKeeps ==
  ASSUME WInv,
         UNCHANGED <<subject, issued, clashed>>,
         attached' \subseteq attached,
         cancelled \subseteq cancelled',
         \A ns \in Namespaces :
           \/ cancelFuncs'[ns] = cancelFuncs[ns] /\ watcher'[ns] = watcher[ns]
           \/ cancelFuncs'[ns] = NoReg /\ watcher'[ns] = Nobody /\
              (cancelFuncs[ns] # NoReg => cancelFuncs[ns] \in cancelled'),
         \A c \in Clients :
           \/ pc'[c] = pc[c] /\ now'[c] = now[c] /\ raw'[c] = raw[c]
           \/ pc[c] \notin {"subscribing", "subscribed"} /\ pc'[c] \notin {"subscribing", "subscribed"}
  PROVE  Kept' /\ Clashes' /\ Tracked'
<1>1. Kept'
  BY DEF WInv, Kept
<1>2. \A c \in Clients, ns \in Namespaces : Subscribing(c, ns)' <=> Subscribing(c, ns)
  BY DEF Subscribing
<1>3. Clashes'
  BY <1>2 DEF WInv, Clashes
<1>4. \A c \in Clients : pc[c] = "subscribed" => pc'[c] = "subscribed" /\ raw'[c] = raw[c]
  OBVIOUS
<1>5. ASSUME NEW r \in attached'
      PROVE  \/ \E ns \in Namespaces : cancelFuncs'[ns] = r
             \/ r \in cancelled'
             \/ \E c \in Clients : pc'[c] = "subscribed" /\ raw'[c] = r
             \/ subject'[r] \in clashed'
  <2>1. r \in attached /\ r # NoReg
    BY DEF WInv, TInv, TypeOK, NoReg
  <2>2. CASE \E ns \in Namespaces : cancelFuncs[ns] = r
    BY <2>1, <2>2
  <2>3. CASE ~\E ns \in Namespaces : cancelFuncs[ns] = r
    BY <1>4, <2>1, <2>3 DEF WInv, Tracked
  <2> QED
    BY <2>2, <2>3
<1>6. \A ns \in Namespaces : watcher'[ns] # Nobody => cancelFuncs'[ns] # NoReg
  BY DEF WInv, Tracked
<1>7. Tracked'
  BY <1>5, <1>6 DEF Tracked
<1> QED
  BY <1>1, <1>3, <1>7

(* WInv is inductive: the check of WatchNamespace records every overlap, so *)
(* that its store overwrites a registration only after one.                *)
LEMMA WInvNext == WInv /\ [Next]_vars => WInv'
<1> SUFFICES ASSUME WInv, [Next]_vars PROVE Kept' /\ Clashes' /\ Tracked'
  BY TInvNext DEF WInv
<1> USE DEF client, tables, callers, changes, provider
<1>0. /\ TInv /\ TypeOK /\ Holds /\ Kept /\ Clashes /\ Tracked
      /\ Clients \subseteq Actors
      /\ pc \in [Actors -> PCs] /\ now \in [Actors -> Namespaces \cup {NoNamespace}]
      /\ raw \in [Actors -> Nat] /\ cancelFuncs \in [Namespaces -> 0..issued]
      /\ watcher \in [Namespaces -> [Clients -> Nat]] /\ issued \in 0..MaxRegs
      /\ subject \in [1..MaxRegs -> Namespaces \cup {NoNamespace}]
      /\ attached \subseteq 1..issued
  BY DEF WInv, TInv, TypeOK, Actors, Regs
<1>1. ASSUME NEW c \in Clients, Moves(c) PROVE Kept' /\ Clashes' /\ Tracked'
  <2>1. CASE SubscribeFails(c)
    <3>1. /\ UNCHANGED <<watcher, cancelFuncs, subject, issued, attached, cancelled, clashed, raw>>
          /\ pc[c] = "subscribing" /\ pc'[c] \in {"idle", "watching"}
          /\ \A d \in Actors : d # c => pc'[d] = pc[d] /\ now'[d] = now[d]
      BY <1>0, <2>1 DEF SubscribeFails, NextWatch, Go
    <3>2. \A d \in Clients, ns \in Namespaces : Subscribing(d, ns)' => Subscribing(d, ns)
      BY <1>0, <3>1 DEF Subscribing
    <3>3. \A d \in Clients : pc[d] = "subscribed" => pc'[d] = "subscribed"
      BY <1>0, <3>1
    <3>4. Kept' /\ Clashes'
      BY <1>0, <3>1, <3>2 DEF Kept, Clashes
    <3>5. Tracked'
      BY <1>0, <3>1, <3>3 DEF Tracked
    <3> QED
      BY <3>4, <3>5
  <2>2. CASE \/ Bootstrap(c) \/ InitCall(c) \/ InitAwaited(c) \/ Reload(c) \/ WatchCall(c)
             \/ TimeOut(c)
    BY <1>0, <2>2, SameKeeps
    DEF Bootstrap, InitCall, InitAwaited, Reload, WatchCall, TimeOut, Go, Same
  <2>3. CASE LoadRead(c) \/ LoadFails(c)
    BY <1>0, <2>3, SameKeeps DEF LoadRead, LoadFails, Loading, Loaded, Go, Same
  <2>4. CASE ClearAllFunc(c)
    <3>1. UNCHANGED <<watcher, cancelFuncs, subject, issued, attached, cancelled, clashed, now, raw>>
      BY <2>4 DEF ClearAllFunc
    <3>2. PICK born \in SUBSET {a \in Closers : pc[a] = "unborn"}, limit \in BOOLEAN :
            pc' = [a \in Actors |-> IF a \in born THEN "started"
                                   ELSE IF a # c THEN pc[a]
                                   ELSE IF limit THEN "timed" ELSE "stuck"]
      BY <2>4 DEF ClearAllFunc
    <3>3. pc[c] = "idle" /\ pc'[c] \in {"timed", "stuck"} /\ \A d \in Clients : d # c => pc'[d] = pc[d]
      BY <1>0, <2>4, <3>2, ConfigAssumption DEF ClearAllFunc
    <3>4. Same
      BY <3>1, <3>3 DEF Same
    <3> QED
      BY <3>4, SameKeeps
  <2> QED
    BY <1>1, <2>1, <2>2, <2>3, <2>4 DEF Moves
<1>2. ASSUME NEW c \in Clients, LoadStore(c) PROVE Same
  BY <1>0, <1>2 DEF LoadStore, Loading, Loaded, Go, Same
<1>3. ASSUME NEW c \in Clients, WatchCheck(c) PROVE Kept' /\ Clashes' /\ Tracked'
  <2>1. UNCHANGED <<cancelFuncs, subject, issued, attached, cancelled, raw>> /\ pc[c] = "watching"
    BY <1>3 DEF WatchCheck
  <2>2. PICK ns \in todo[c] :
          \/ /\ cancelFuncs[ns] # NoReg
             /\ watcher' = [watcher EXCEPT ![ns][c] = @ + 1]
             /\ NextWatch(c, ns) /\ UNCHANGED <<now, clashed>>
          \/ /\ cancelFuncs[ns] = NoReg
             /\ now' = [now EXCEPT ![c] = ns]
             /\ Go(c, "subscribing")
             /\ clashed' = clashed \cup {n \in {ns} : \E d \in Clients : Subscribing(d, ns)}
             /\ watcher' = watcher
    BY <1>3 DEF WatchCheck, Register
  <2>3. ns \in Namespaces
    BY <1>0 DEF TypeOK
  <2>4. CASE cancelFuncs[ns] # NoReg
    <3>1. /\ watcher' = [watcher EXCEPT ![ns][c] = @ + 1] /\ UNCHANGED <<now, clashed>>
          /\ pc'[c] \in {"idle", "watching"} /\ \A d \in Actors : d # c => pc'[d] = pc[d]
      BY <1>0, <2>2, <2>4 DEF NextWatch, Go
    <3>2. \A d \in Clients, m \in Namespaces : Subscribing(d, m)' <=> Subscribing(d, m)
      BY <1>0, <2>1, <3>1 DEF Subscribing
    <3>3. \A d \in Clients : pc[d] = "subscribed" => pc'[d] = "subscribed"
      BY <1>0, <2>1, <3>1
    <3>4. \A m \in Namespaces : watcher'[m] # Nobody => cancelFuncs[m] # NoReg
      BY <1>0, <2>4, <3>1 DEF Tracked
    <3>5. Kept' /\ Clashes'
      BY <1>0, <2>1, <3>1, <3>2 DEF Kept, Clashes
    <3>6. Tracked'
      BY <1>0, <2>1, <3>1, <3>3, <3>4 DEF Tracked
    <3> QED
      BY <3>5, <3>6
  <2>5. CASE cancelFuncs[ns] = NoReg
    <3>1. /\ now'[c] = ns /\ pc'[c] = "subscribing" /\ watcher' = watcher
          /\ \A d \in Actors : d # c => pc'[d] = pc[d] /\ now'[d] = now[d]
          /\ clashed' = clashed \cup {n \in {ns} : \E d \in Clients : Subscribing(d, ns)}
      BY <1>0, <2>2, <2>5 DEF Go
    <3>2. \A d \in Clients : d # c => \A m \in Namespaces : Subscribing(d, m)' <=> Subscribing(d, m)
      BY <1>0, <3>1 DEF Subscribing
    <3>3. \A m \in Namespaces : Subscribing(c, m)' <=> m = ns
      BY <3>1 DEF Subscribing
    <3>4. \A d \in Clients : d # c /\ Subscribing(d, ns) => ns \in clashed'
      BY <3>1
    <3>5. \A d \in Clients : pc[d] = "subscribed" => pc'[d] = "subscribed"
      BY <1>0, <2>1, <3>1
    <3>6. Kept'
      BY <1>0, <2>1 DEF Kept
    <3>7. Clashes'
      <4>1. clashed \subseteq clashed'
        BY <3>1
      <4>2. ASSUME NEW m \in Namespaces, NEW d \in Clients, Subscribing(d, m)'
            PROVE  /\ cancelFuncs'[m] # NoReg => m \in clashed'
                   /\ \A e \in Clients : e # d /\ Subscribing(e, m)' => m \in clashed'
        <5>1. CASE d = c
          BY <2>1, <2>5, <3>2, <3>3, <3>4, <4>2, <5>1
        <5>2. CASE d # c
          <6>1. Subscribing(d, m)
            BY <3>2, <4>2, <5>2
          <6>2. cancelFuncs'[m] # NoReg => m \in clashed'
            BY <1>0, <2>1, <4>1, <6>1 DEF Clashes
          <6>3. ASSUME NEW e \in Clients, e # d, Subscribing(e, m)' PROVE m \in clashed'
            <7>1. CASE e = c
              BY <3>3, <3>4, <5>2, <6>1, <6>3, <7>1
            <7>2. CASE e # c
              <8>1. Subscribing(e, m)
                BY <3>2, <6>3, <7>2
              <8>2. m \in clashed
                BY <1>0, <6>1, <6>3, <8>1 DEF Clashes
              <8> QED
                BY <4>1, <8>2
            <7> QED
              BY <7>1, <7>2
          <6> QED
            BY <6>2, <6>3
        <5> QED
          BY <5>1, <5>2
      <4> QED
        BY <4>2 DEF Clashes
    <3>8. Tracked'
      BY <1>0, <2>1, <3>1, <3>5 DEF Tracked
    <3> QED
      BY <3>6, <3>7, <3>8
  <2> QED
    BY <2>4, <2>5
<1>4. ASSUME NEW c \in Clients, Subscribe(c) PROVE Kept' /\ Clashes' /\ Tracked'
  <2>1. /\ pc[c] = "subscribing" /\ issued < MaxRegs /\ issued' = issued + 1
        /\ subject' = [subject EXCEPT ![issued + 1] = now[c]]
        /\ raw'[c] = issued + 1 /\ pc'[c] = "subscribed"
        /\ attached' = attached \cup {issued + 1}
        /\ \A d \in Actors : d # c => pc'[d] = pc[d] /\ raw'[d] = raw[d]
        /\ UNCHANGED <<now, watcher, cancelFuncs, cancelled, clashed>>
    BY <1>0, <1>4 DEF Subscribe, Go
  <2>2. \A r \in 1..issued : subject'[r] = subject[r]
    BY <1>0, <2>1, ConfigAssumption
  <2>3. \A d \in Clients, m \in Namespaces : Subscribing(d, m)' <=> Subscribing(d, m)
    BY <1>0, <2>1 DEF Subscribing
  <2>4. Kept'
    <3>1. \A m \in Namespaces : cancelFuncs[m] # NoReg => cancelFuncs[m] \in 1..issued
      BY <1>0, ConfigAssumption DEF NoReg
    <3> QED
      BY <1>0, <2>1, <2>2, <3>1 DEF Kept
  <2>5. Clashes'
    BY <1>0, <2>1, <2>3 DEF Clashes
  <2>6. \A d \in Clients : pc[d] = "subscribed" => pc'[d] = "subscribed" /\ raw'[d] = raw[d]
    BY <1>0, <2>1
  <2>7. ASSUME NEW r \in attached'
        PROVE  \/ \E m \in Namespaces : cancelFuncs'[m] = r
               \/ r \in cancelled'
               \/ \E d \in Clients : pc'[d] = "subscribed" /\ raw'[d] = r
               \/ subject'[r] \in clashed'
    <3>1. CASE r = issued + 1
      BY <2>1, <3>1
    <3>2. CASE r # issued + 1
      <4>1. r \in attached /\ subject'[r] = subject[r]
        BY <1>0, <2>1, <2>2, <3>2
      <4>2. CASE \E d \in Clients : pc[d] = "subscribed" /\ raw[d] = r
        BY <2>6, <4>2
      <4>3. CASE ~\E d \in Clients : pc[d] = "subscribed" /\ raw[d] = r
        <5>1. /\ cancelFuncs' = cancelFuncs /\ cancelled' = cancelled /\ clashed' = clashed
              /\ subject'[r] = subject[r]
          BY <2>1, <4>1
        <5>2. \/ \E m \in Namespaces : cancelFuncs[m] = r
              \/ r \in cancelled
              \/ subject[r] \in clashed
          BY <1>0, <4>1, <4>3 DEF Tracked
        <5> QED
          BY <5>1, <5>2
      <4> QED
        BY <4>2, <4>3
    <3> QED
      BY <3>1, <3>2
  <2>8. Tracked'
    BY <1>0, <2>1, <2>7 DEF Tracked
  <2> QED
    BY <2>4, <2>5, <2>8
<1>5. ASSUME NEW c \in Clients, WatchStore(c) PROVE Kept' /\ Clashes' /\ Tracked'
  <2> DEFINE ns == now[c]
  <2>1. /\ pc[c] = "subscribed" /\ pc'[c] \in {"idle", "watching"}
        /\ watcher' = [watcher EXCEPT ![ns][c] = @ + 1]
        /\ cancelFuncs' = [cancelFuncs EXCEPT ![ns] = raw[c]]
        /\ UNCHANGED <<subject, issued, attached, cancelled, clashed>>
        /\ \A d \in Actors : d # c => pc'[d] = pc[d] /\ now'[d] = now[d] /\ raw'[d] = raw[d]
    BY <1>0, <1>5 DEF WatchStore, Register, NextWatch, Go
  <2>2. ns \in Namespaces /\ raw[c] \in 1..issued /\ subject[raw[c]] = ns /\ raw[c] # NoReg
    BY <1>0, <2>1, WatchHolds
  <2>3. /\ cancelFuncs'[ns] = raw[c] /\ \A m \in Namespaces : m # ns => cancelFuncs'[m] = cancelFuncs[m]
        /\ \A m \in Namespaces : m # ns => watcher'[m] = watcher[m]
    BY <1>0, <2>1, <2>2
  <2> HIDE DEF ns
  <2>4. Kept'
    BY <1>0, <2>1, <2>2, <2>3 DEF Kept
  <2>5. Subscribing(c, ns)
    BY <2>1 DEF Subscribing, ns
  <2>6. ASSUME NEW d \in Clients, NEW m \in Namespaces, Subscribing(d, m)'
        PROVE  d # c /\ Subscribing(d, m)
    BY <1>0, <2>1, <2>6 DEF Subscribing
  <2>7. Clashes'
    BY <1>0, <2>1, <2>3, <2>5, <2>6 DEF Clashes
  <2>8. ASSUME NEW r \in attached'
        PROVE  \/ \E m \in Namespaces : cancelFuncs'[m] = r
               \/ r \in cancelled'
               \/ \E d \in Clients : pc'[d] = "subscribed" /\ raw'[d] = r
               \/ subject'[r] \in clashed'
    <3>1. r \in attached /\ r # NoReg
      BY <1>0, <2>1, <2>8 DEF NoReg
    <3>2. CASE \E m \in Namespaces : cancelFuncs[m] = r
      <4>1. PICK m \in Namespaces : cancelFuncs[m] = r
        BY <3>2
      <4>2. CASE m = ns
        BY <1>0, <2>1, <2>5, <3>1, <4>1, <4>2 DEF Kept, Clashes
      <4>3. CASE m # ns
        BY <2>3, <4>1, <4>3
      <4> QED
        BY <4>2, <4>3
    <3>3. CASE \E d \in Clients : pc[d] = "subscribed" /\ raw[d] = r
      <4>1. PICK d \in Clients : pc[d] = "subscribed" /\ raw[d] = r
        BY <3>3
      <4>2. CASE d = c
        BY <2>2, <2>3, <4>1, <4>2
      <4>3. CASE d # c
        BY <1>0, <2>1, <4>1, <4>3
      <4> QED
        BY <4>2, <4>3
    <3> QED
      BY <1>0, <2>1, <3>1, <3>2, <3>3 DEF Tracked
  <2>9. \A m \in Namespaces : watcher'[m] # Nobody => cancelFuncs'[m] # NoReg
    BY <1>0, <2>2, <2>3 DEF Tracked
  <2> QED
    BY <2>4, <2>7, <2>8, <2>9 DEF Tracked
<1>6. ASSUME NEW c \in Clients, Unwatch(c) PROVE Kept' /\ Clashes' /\ Tracked'
  <2>1. UNCHANGED <<callers, clashed>>
    BY <1>6 DEF Unwatch
  <2>2. PICK ns \in Namespaces : /\ CancelAll({cancelFuncs[ns]})
                                 /\ cancelFuncs' = [cancelFuncs EXCEPT ![ns] = NoReg]
                                 /\ watcher' = [watcher EXCEPT ![ns] = Nobody]
    BY <1>6 DEF Unwatch
  <2>3. /\ cancelled' = cancelled \cup {cancelFuncs[ns]} /\ attached' \subseteq attached
        /\ UNCHANGED <<subject, issued>>
    BY <2>2, Cancels
  <2>4. \A m \in Namespaces :
           \/ cancelFuncs'[m] = cancelFuncs[m] /\ watcher'[m] = watcher[m]
           \/ cancelFuncs'[m] = NoReg /\ watcher'[m] = Nobody /\
              (cancelFuncs[m] # NoReg => cancelFuncs[m] \in cancelled')
    BY <1>0, <2>2, <2>3
  <2> QED
    BY <2>1, <2>3, <2>4, DropKeeps
<1>7. ASSUME NEW a \in Actors, StopAllWatch(a) \/ Shutdown(a), pc[a] \in {"idle", "started"}
      PROVE  Kept' /\ Clashes' /\ Tracked'
  <2>1. StopAllWatchers /\ clashed' = clashed
    BY <1>7 DEF StopAllWatch, Shutdown
  <2>2. /\ cancelled' = cancelled \cup ({cancelFuncs[ns] : ns \in Namespaces} \ {NoReg})
        /\ attached' \subseteq attached
        /\ watcher' = [ns \in Namespaces |-> Nobody] /\ cancelFuncs' = [ns \in Namespaces |-> NoReg]
        /\ UNCHANGED <<subject, issued>>
    BY <1>0, <2>1, Stops
  <2>3. \A m \in Namespaces : cancelFuncs'[m] = NoReg /\ watcher'[m] = Nobody /\
              (cancelFuncs[m] # NoReg => cancelFuncs[m] \in cancelled')
    BY <2>2
  <2>4. \A c \in Clients :
           \/ pc'[c] = pc[c] /\ now'[c] = now[c] /\ raw'[c] = raw[c]
           \/ pc[c] \notin {"subscribing", "subscribed"} /\ pc'[c] \notin {"subscribing", "subscribed"}
    BY <1>0, <1>7 DEF StopAllWatch, Shutdown, End, Go
  <2> QED
    BY <2>1, <2>2, <2>3, <2>4, DropKeeps
<1>8. ASSUME NEW a \in Actors, ShutdownEmpty(a) \/ ClearCache(a) PROVE Same
  BY <1>0, <1>8 DEF ShutdownEmpty, ClearCache, End, Go, Same
<1>9. ASSUME NEW e \in Events, Handle(e) PROVE Same
  BY <1>9 DEF Handle, HandleRefuse, HandleParse, HandleCache, HandleStore, HandleCopy, HandleCall,
              Same
<1>10. ASSUME NEW ns \in Namespaces, NEW parses \in BOOLEAN, Publish(ns, parses) PROVE Same
  BY <1>10 DEF Publish, Same
<1>11. ASSUME UNCHANGED vars PROVE Same
  BY <1>11 DEF vars, Same
<1>12. ASSUME NEW c \in Clients, StopAllWatch(c) PROVE Kept' /\ Clashes' /\ Tracked'
  BY <1>0, <1>7, <1>12 DEF StopAllWatch
<1> QED
  BY <1>0, <1>1, <1>2, <1>3, <1>4, <1>5, <1>6, <1>7, <1>8, <1>9, <1>10, <1>11, <1>12,
     Cases, SameKeeps

(* ... and holds throughout.                                               *)
LEMMA WInvAlways == Spec => []WInv
<1>1. Init => WInv
  <2>1. Init => Kept /\ Clashes /\ Tracked
    BY DEF Init, Kept, Clashes, Tracked, Subscribing, Actors
  <2> QED
    BY <2>1, TInvInit DEF WInv
<1> QED
  BY <1>1, WInvNext, PTL DEF Spec

(* A registration that the provider calls back can be cancelled, unless    *)
(* two WatchNamespace of its namespace overlapped; and a namespace with    *)
(* callbacks can be unwatched.                                             *)
THEOREM NothingLost == Spec => []Tracked
BY WInvAlways, PTL DEF WInv

(* Without such an overlap a namespace has one registration at a time.     *)
LEMMA OneRegistration ==
  ASSUME WInv, NEW r \in 1..issued, NEW q \in 1..issued,
         r \notin cancelled, q \notin cancelled,
         subject[r] = subject[q], subject[r] \notin clashed
  PROVE  r = q
<1> DEFINE ns == subject[r]
<1>1. r \in attached /\ q \in attached /\ ns \in Namespaces /\ issued \in Nat
  BY ConfigAssumption DEF WInv, TInv, TypeOK, Given
<1>2. r # NoReg /\ q # NoReg
  BY <1>1 DEF NoReg
<1>3. \A x \in {r, q} : \/ cancelFuncs[ns] = x
                        \/ \E c \in Clients : pc[c] = "subscribed" /\ raw[c] = x
  BY <1>1, <1>2 DEF WInv, Tracked, Kept
<1>4. \A c \in Clients : pc[c] = "subscribed" /\ raw[c] \in {r, q} => Subscribing(c, ns)
  BY DEF WInv, TInv, Holds, Subscribing
<1>5. \A c \in Clients : Subscribing(c, ns) => cancelFuncs[ns] = NoReg
  BY <1>1 DEF WInv, Clashes
<1>6. \A c, d \in Clients : Subscribing(c, ns) /\ Subscribing(d, ns) => c = d
  BY <1>1 DEF WInv, Clashes
<1> HIDE DEF ns
<1> QED
  BY <1>2, <1>3, <1>4, <1>5, <1>6

(* A slice of callbacks, and what an event has called and has still to     *)
(* call, are no more than was ever registered.                             *)
Counted ==
  \A c \in Clients :
    /\ \A ns \in Namespaces : watcher[ns][c] <= registered[ns][c]
    /\ \A e \in Events : handler[e] = "calling" =>
         callbacks[e][c] + delivered[e][c] <= registered[subject[e[1]]][c]

(* It stays so while the slices only get shorter.                          *)
LEMMA CountedKept ==
  ASSUME TInv, Counted,
         UNCHANGED <<registered, callbacks, delivered>>,
         \A ns \in Namespaces : watcher'[ns] = watcher[ns] \/ watcher'[ns] = Nobody,
         \A e \in Events : handler'[e] = "calling" =>
           handler[e] = "calling" /\ subject'[e[1]] = subject[e[1]]
  PROVE  Counted'
<1>1. registered \in [Namespaces -> [Clients -> Nat]]
  BY DEF TInv, TypeOK
<1>2. \A c \in Clients : Nobody[c] = 0
  BY DEF Nobody
<1> QED
  BY <1>1, <1>2 DEF Counted

(* A callback that is put in a slice is counted.                           *)
LEMMA CountedMore ==
  ASSUME TInv, Counted, NEW c \in Clients, NEW ns \in Namespaces, Register(c, ns),
         UNCHANGED <<handler, callbacks, delivered, subject>>
  PROVE  Counted'
<1>1. /\ registered \in [Namespaces -> [Clients -> Nat]]
      /\ watcher \in [Namespaces -> [Clients -> Nat]]
      /\ callbacks \in [Events -> [Clients -> Nat]] /\ delivered \in [Events -> [Clients -> Nat]]
  BY DEF TInv, TypeOK
<1>2. \A m \in Namespaces, d \in Clients :
        /\ registered[m][d] \in Nat /\ registered'[m][d] >= registered[m][d]
        /\ watcher'[m][d] <= registered'[m][d]
  <2> TAKE m \in Namespaces, d \in Clients
  <2>1. /\ registered' = [registered EXCEPT ![ns][c] = @ + 1]
        /\ watcher' = [watcher EXCEPT ![ns][c] = @ + 1]
    BY DEF Register
  <2>2. /\ registered[m][d] \in Nat /\ watcher[m][d] \in Nat
        /\ watcher[m][d] <= registered[m][d]
    BY <1>1 DEF Counted
  <2>3. CASE m = ns /\ d = c
    BY <1>1, <2>1, <2>2, <2>3, Counts
  <2>4. CASE <<m, d>> # <<ns, c>>
    <3>1. registered'[m][d] = registered[m][d]
      BY <1>1, <2>1, <2>4, Counts
    <3>2. watcher'[m][d] = watcher[m][d]
      BY <1>1, <2>1, <2>4, Counts
    <3> QED
      BY <2>2, <3>1, <3>2
  <2> QED
    BY <2>3, <2>4
<1>3. ASSUME NEW e \in Events, NEW d \in Clients, handler'[e] = "calling"
      PROVE  callbacks'[e][d] + delivered'[e][d] <= registered'[subject'[e[1]]][d]
  <2>1. subject[e[1]] \in Namespaces /\ subject' = subject
    BY <1>3, SentOf
  <2>2. callbacks[e][d] \in Nat /\ delivered[e][d] \in Nat
    BY <1>1
  <2>3. callbacks[e][d] + delivered[e][d] <= registered[subject[e[1]]][d]
    BY <1>3 DEF Counted
  <2>4. /\ registered[subject[e[1]]][d] \in Nat
        /\ registered'[subject[e[1]]][d] >= registered[subject[e[1]]][d]
        /\ registered'[subject[e[1]]][d] \in Nat
    BY <1>1, <1>2, <2>1, Counts DEF Register
  <2> QED
    BY <2>1, <2>2, <2>3, <2>4
<1> QED
  BY <1>2, <1>3 DEF Counted

(* Every step keeps the count.                                             *)
LEMMA CountedNext == TInv /\ Counted /\ [Next]_vars => Counted'
<1> SUFFICES ASSUME TInv, Counted, [Next]_vars PROVE Counted'
  OBVIOUS
<1> USE DEF client, tables, callers, changes, provider
<1>0. /\ TypeOK /\ Sent
      /\ registered \in [Namespaces -> [Clients -> Nat]]
      /\ watcher \in [Namespaces -> [Clients -> Nat]]
      /\ callbacks \in [Events -> [Clients -> Nat]] /\ delivered \in [Events -> [Clients -> Nat]]
      /\ handler \in [Events -> {"none", "sent", "refused", "caching", "storing", "stored", "calling"}]
  BY DEF TInv, TypeOK
<1>1. CASE UNCHANGED <<watcher, registered, changes, subject>>
  BY <1>1, CountedKept
<1>2. ASSUME NEW c \in Clients, WatchCheck(c) PROVE Counted'
  <2>1. \E ns \in todo[c] : Register(c, ns) \/ UNCHANGED <<watcher, registered>>
    BY <1>2 DEF WatchCheck
  <2>2. todo[c] \subseteq Namespaces /\ UNCHANGED <<changes, subject>>
    BY <1>0, <1>2 DEF WatchCheck, TypeOK, Actors
  <2> QED
    BY <1>1, <2>1, <2>2, CountedMore
<1>3. ASSUME NEW c \in Clients, WatchStore(c) PROVE Counted'
  <2>1. now[c] \in Namespaces
    BY <1>3, WatchHolds DEF WatchStore
  <2> QED
    BY <1>3, <2>1, CountedMore DEF WatchStore
<1>4. ASSUME NEW c \in Clients, Subscribe(c) PROVE Counted'
  <2>1. UNCHANGED <<watcher, registered, changes>> /\ subject' = [subject EXCEPT ![issued + 1] = now[c]]
    BY <1>4 DEF Subscribe
  <2>2. ASSUME NEW e \in Events, handler[e] = "calling" PROVE subject'[e[1]] = subject[e[1]]
    <3>1. e[1] \in 1..issued /\ issued \in 0..MaxRegs /\ MaxRegs \in Nat
      BY <1>0, <2>2, SentOf, ConfigAssumption DEF TypeOK
    <3> QED
      BY <1>0, <2>1, <3>1 DEF TypeOK, Regs
  <2> QED
    BY <2>1, <2>2, CountedKept
<1>5. ASSUME NEW c \in Clients, Unwatch(c) PROVE Counted'
  <2>1. /\ UNCHANGED <<registered, changes>>
        /\ \E ns \in Namespaces : CancelAll({cancelFuncs[ns]}) /\ watcher' = [watcher EXCEPT ![ns] = Nobody]
    BY <1>5 DEF Unwatch
  <2>2. UNCHANGED subject
    BY <2>1, Cancels
  <2> QED
    BY <1>0, <2>1, <2>2, CountedKept
<1>6. ASSUME NEW a \in Actors, StopAllWatch(a) \/ Shutdown(a) PROVE Counted'
  <2>1. StopAllWatchers /\ UNCHANGED changes
    BY <1>6 DEF StopAllWatch, Shutdown
  <2>2. watcher' = [ns \in Namespaces |-> Nobody] /\ UNCHANGED <<registered, subject>>
    BY <1>0, <2>1, Stops
  <2> QED
    BY <2>1, <2>2, CountedKept
<1>7. ASSUME NEW e \in Events, Handle(e) PROVE Counted'
  <2>1. UNCHANGED <<watcher, registered, subject>>
    BY <1>7 DEF Handle, HandleRefuse, HandleParse, HandleCache, HandleStore, HandleCopy, HandleCall
  <2>2. CASE HandleRefuse(e) \/ HandleParse(e) \/ HandleCache(e) \/ HandleStore(e)
    <3>1. /\ UNCHANGED <<callbacks, delivered>>
          /\ handler' = handler \/ \E to \in {"refused", "caching", "storing", "stored"} :
                                   handler' = [handler EXCEPT ![e] = to]
      BY <2>2 DEF HandleRefuse, HandleParse, HandleCache, HandleStore, Step
    <3> QED
      BY <1>0, <2>1, <3>1, CountedKept
  <2>3. CASE HandleCopy(e)
    <3>1. /\ handler[e] = "stored" /\ delivered' = delivered
          /\ handler' = [handler EXCEPT ![e] = "calling"]
          /\ callbacks' = [callbacks EXCEPT ![e] = watcher[subject[e[1]]]]
      BY <2>3 DEF HandleCopy, Step, Subject
    <3>2. delivered[e] = Nobody /\ subject[e[1]] \in Namespaces
      BY <1>0, <3>1, SentOf DEF Sent
    <3>3. ASSUME NEW c \in Clients, NEW f \in Events, handler'[f] = "calling"
          PROVE  callbacks'[f][c] + delivered'[f][c] <= registered'[subject'[f[1]]][c]
      <4>1. CASE f = e
        <5>1. /\ watcher[subject[e[1]]][c] \in Nat /\ registered[subject[e[1]]][c] \in Nat
              /\ watcher[subject[e[1]]][c] <= registered[subject[e[1]]][c]
          BY <1>0, <3>2 DEF Counted
        <5>2. callbacks'[e][c] = watcher[subject[e[1]]][c] /\ delivered'[e][c] = 0
          BY <1>0, <3>1, <3>2 DEF Nobody
        <5> QED
          BY <2>1, <4>1, <5>1, <5>2
      <4>2. CASE f # e
        <5>1. handler[f] = "calling" /\ callbacks'[f] = callbacks[f]
          BY <1>0, <3>1, <3>3, <4>2
        <5> QED
          BY <2>1, <3>1, <5>1 DEF Counted
      <4> QED
        BY <4>1, <4>2
    <3> QED
      BY <2>1, <3>3 DEF Counted
  <2>4. CASE HandleCall(e)
    <3>1. PICK c \in Clients : /\ callbacks[e][c] > 0
                               /\ callbacks' = [callbacks EXCEPT ![e][c] = @ - 1]
                               /\ delivered' = [delivered EXCEPT ![e][c] = @ + 1]
                               /\ UNCHANGED handler
      BY <2>4 DEF HandleCall
    <3>2. ASSUME NEW d \in Clients, NEW f \in Events
          PROVE  callbacks'[f][d] + delivered'[f][d] = callbacks[f][d] + delivered[f][d]
      <4>1. /\ callbacks[f][d] \in Nat /\ delivered[f][d] \in Nat
            /\ callbacks[e][c] \in Nat /\ delivered[e][c] \in Nat
        BY <1>0
      <4>2. CASE f = e /\ d = c
        <5>1. callbacks'[e][c] = callbacks[e][c] - 1
          BY <1>0, <3>1, Counts
        <5>2. delivered'[e][c] = delivered[e][c] + 1
          BY <1>0, <3>1, Counts
        <5> QED
          BY <4>1, <4>2, <5>1, <5>2
      <4>3. CASE <<f, d>> # <<e, c>>
        <5>1. callbacks'[f][d] = callbacks[f][d]
          BY <1>0, <3>1, <4>3, Counts
        <5>2. delivered'[f][d] = delivered[f][d]
          BY <1>0, <3>1, <4>3, Counts
        <5> QED
          BY <5>1, <5>2
      <4> QED
        BY <4>2, <4>3
    <3> QED
      BY <2>1, <3>1, <3>2 DEF Counted
  <2> QED
    BY <1>7, <2>2, <2>3, <2>4 DEF Handle
<1>8. ASSUME NEW ns \in Namespaces, NEW parses \in BOOLEAN, Publish(ns, parses) PROVE Counted'
  <2>1. UNCHANGED <<watcher, registered, callbacks, delivered, subject>>
    BY <1>8 DEF Publish
  <2>2. \A e \in Events : handler'[e] = "calling" => handler[e] = "calling"
    BY <1>0, <1>8 DEF Publish
  <2> QED
    BY <2>1, <2>2, CountedKept
<1>9. ASSUME NEW c \in Clients, Moves(c) PROVE UNCHANGED <<watcher, registered, changes, subject>>
  BY <1>9 DEF Moves, Bootstrap, InitCall, InitAwaited, Reload, LoadRead, LoadFails, WatchCall,
              SubscribeFails, ClearAllFunc, TimeOut
<1>10. ASSUME NEW a \in Actors, ShutdownEmpty(a) \/ ClearCache(a) \/ LoadStore(a)
       PROVE  UNCHANGED <<watcher, registered, changes, subject>>
  BY <1>10 DEF ShutdownEmpty, ClearCache, LoadStore
<1>11. CASE UNCHANGED vars
  BY <1>1, <1>11 DEF vars
<1> QED
  BY <1>1, <1>2, <1>3, <1>4, <1>5, <1>6, <1>7, <1>8, <1>9, <1>10, <1>11, Cases DEF Actors

(* An event calls a callback at most as often as it was registered; and    *)
(* one event of a change alone calls it, unless through a registration     *)
(* that was cancelled and kept by the provider, or after an overlap.       *)
THEOREM HeardOnce == Spec => []OncePerChange
<1>1. WInv /\ Counted => OncePerChange
  <2> SUFFICES ASSUME WInv, Counted, NEW e \in Events, NEW c \in Clients, delivered[e][c] > 0
               PROVE  /\ delivered[e][c] <= registered[Subject(e)][c]
                      /\ \A d \in Events \ {e} :
                           delivered[d][c] > 0 /\ d[2] = e[2] /\ Subject(d) = Subject(e)
                             => {d[1], e[1]} \cap cancelled # {} \/ Subject(e) \in clashed
    BY DEF OncePerChange
  <2>1. \A d \in Events : delivered[d][c] > 0 => handler[d] = "calling" /\ d[1] \in 1..issued
    <3> SUFFICES ASSUME NEW d \in Events, delivered[d][c] > 0
                 PROVE  handler[d] = "calling" /\ d[1] \in 1..issued
      OBVIOUS
    <3>1. delivered[d] # Nobody
      BY DEF Nobody
    <3>2. handler[d] = "calling"
      BY <3>1 DEF WInv, TInv, Sent
    <3> QED
      BY <3>2, SentOf DEF WInv
  <2>2. delivered[e][c] <= registered[Subject(e)][c]
    <3>1. Subject(e) \in Namespaces /\ handler[e] = "calling"
      BY <2>1, SentOf DEF WInv, Subject
    <3>2. /\ registered[Subject(e)][c] \in Nat
          /\ callbacks[e][c] \in Nat /\ delivered[e][c] \in Nat
      BY <3>1 DEF WInv, TInv, TypeOK
    <3>3. callbacks[e][c] + delivered[e][c] <= registered[Subject(e)][c]
      BY <3>1 DEF Counted, Subject
    <3> QED
      BY <3>2, <3>3
  <2>3. ASSUME NEW d \in Events \ {e}, delivered[d][c] > 0, d[2] = e[2], Subject(d) = Subject(e),
               {d[1], e[1]} \cap cancelled = {}, Subject(e) \notin clashed
        PROVE  FALSE
    <3>1. d[1] \in 1..issued /\ e[1] \in 1..issued
      BY <2>1, <2>3
    <3>2. d[1] = e[1]
      BY <2>3, <3>1, OneRegistration DEF Subject
    <3>3. d = <<d[1], d[2]>> /\ e = <<e[1], e[2]>>
      BY DEF Events
    <3> QED
      BY <2>3, <3>2, <3>3
  <2> QED
    BY <2>2, <2>3
<1>2. Init => Counted
  BY DEF Init, Counted, Nobody
<1>3. Spec => []Counted
  <2>1. Spec => []TInv
    BY WInvAlways, PTL DEF WInv
  <2> QED
    BY <1>2, <2>1, CountedNext, PTL DEF Spec
<1> QED
  BY <1>1, <1>3, WInvAlways, PTL

---------------------------------------------------------------------------
(* Content that is stored exists and parses, and the loop of Init has      *)
(* stored that of every namespace it has left behind.                      *)
Filled ==
  \A ns \in Namespaces :
    /\ namespaces[ns] <= content[ns]
    /\ <<ns, namespaces[ns]>> \notin bad
    /\ ready => namespaces[ns] # NoVersion
    /\ \A c \in Clients : pc[c] = "loading" /\ ns \notin todo[c] => namespaces[ns] # NoVersion

(* A step that stores nothing, and at most starts a loop.                  *)
LEMMA FilledKept ==
  ASSUME TInv, Filled,
         UNCHANGED <<namespaces, content, bad, ready>>,
         \A c \in Clients : pc'[c] = "loading" =>
           \/ pc[c] = "loading" /\ todo'[c] = todo[c]
           \/ todo'[c] = Namespaces
  PROVE  Filled'
BY DEF Filled

(* Storing content that parses.                                            *)
LEMMA FilledStore ==
  ASSUME TInv, Filled, NEW ns \in Namespaces, NEW v \in 1..content[ns],
         <<ns, v>> \notin bad,
         namespaces' = [namespaces EXCEPT ![ns] = v],
         UNCHANGED <<content, bad>>,
         ready' => ready \/ \A m \in Namespaces : m # ns => namespaces[m] # NoVersion,
         \A c \in Clients : pc'[c] = "loading" =>
           pc[c] = "loading" /\ todo[c] \subseteq todo'[c] \cup {ns}
  PROVE  Filled'
<1>1. /\ namespaces'[ns] = v /\ v # NoVersion
      /\ \A m \in Namespaces : m # ns => namespaces'[m] = namespaces[m]
  BY ConfigAssumption DEF TInv, TypeOK, NoVersion, Versions
<1>2. content[ns] \in 1..MaxVersion /\ v <= content[ns]
  BY ConfigAssumption DEF TInv, TypeOK, Versions
<1> QED
  BY <1>1, <1>2 DEF Filled

(* Filled is preserved by every step.                                      *)
LEMMA FilledNext == TInv /\ Filled /\ [Next]_vars => Filled'
<1> SUFFICES ASSUME TInv, Filled, [Next]_vars PROVE Filled'
  OBVIOUS
<1> USE DEF client, tables, callers, changes, provider
<1>0. /\ TypeOK /\ Holds /\ Clients \subseteq Actors
      /\ pc \in [Actors -> PCs] /\ todo \in [Actors -> SUBSET Namespaces]
  BY DEF TInv, TypeOK, Actors
<1>1. ASSUME NEW c \in Clients, Moves(c) PROVE Filled'
  <2>1. CASE \/ Bootstrap(c) \/ InitCall(c) \/ InitAwaited(c) \/ Reload(c) \/ WatchCall(c)
             \/ TimeOut(c)
    BY <1>0, <2>1, FilledKept DEF Bootstrap, InitCall, InitAwaited, Reload, WatchCall, TimeOut, Go
  <2>2. CASE LoadRead(c)
    BY <1>0, <2>2, FilledKept DEF LoadRead
  <2>3. CASE LoadFails(c)
    <3>1. /\ UNCHANGED <<namespaces, content, bad>> /\ (ready' => ready)
          /\ \A d \in Clients : pc'[d] = "loading" => pc[d] = "loading" /\ todo'[d] = todo[d]
      BY <1>0, <2>3 DEF LoadFails, Loaded, Go
    <3> QED
      BY <3>1 DEF Filled
  <2>4. CASE SubscribeFails(c)
    BY <1>0, <2>4, FilledKept DEF SubscribeFails, NextWatch, Go
  <2>5. CASE ClearAllFunc(c)
    <3>1. \A d \in Clients : pc'[d] = "loading" => pc[d] = "loading"
      BY <1>0, <2>5 DEF ClearAllFunc
    <3> QED
      BY <2>5, <3>1, FilledKept DEF ClearAllFunc
  <2> QED
    BY <1>1, <2>1, <2>2, <2>3, <2>4, <2>5 DEF Moves
<1>2. ASSUME NEW c \in Clients, LoadStore(c) PROVE Filled'
  <2> DEFINE ns == now[c]
  <2>1. /\ Loading(c) /\ namespaces' = [namespaces EXCEPT ![ns] = raw[c]]
        /\ todo' = [todo EXCEPT ![c] = @ \ {ns}] /\ UNCHANGED <<content, bad>>
        /\ raw[c] # NoVersion
    BY <1>2 DEF LoadStore
  <2>2. ns \in Namespaces /\ raw[c] \in 1..content[ns] /\ <<ns, raw[c]>> \notin bad
    <3>1. /\ now[c] \in Namespaces /\ raw[c] \in Versions
          /\ raw[c] <= content[now[c]] /\ <<now[c], raw[c]>> \notin bad
      BY <2>1, LoadHolds
    <3> QED
      BY <1>0, <3>1, ConfigAssumption DEF TypeOK, Versions
  <2>3. ready' => ready \/ (pc[c] = "loading" /\ todo[c] = {ns})
    BY <1>2 DEF LoadStore, Loaded
  <2>4. \A d \in Clients : pc'[d] = "loading" => pc[d] = "loading"
    BY <1>0, <1>2 DEF LoadStore, Loaded, Go
  <2>5. \A d \in Clients : todo[d] \subseteq todo'[d] \cup {ns}
    BY <1>0, <2>1
  <2> HIDE DEF ns
  <2>6. ready' => ready \/ \A m \in Namespaces : m # ns => namespaces[m] # NoVersion
    BY <2>3 DEF Filled
  <2> QED
    BY <2>1, <2>2, <2>4, <2>5, <2>6, FilledStore
<1>3. ASSUME NEW c \in Clients, WatchCheck(c) \/ WatchStore(c) PROVE Filled'
  BY <1>0, <1>3, FilledKept DEF WatchCheck, WatchStore, NextWatch, Go
<1>4. ASSUME NEW c \in Clients, Subscribe(c) PROVE Filled'
  BY <1>0, <1>4, FilledKept DEF Subscribe, Go
<1>5. ASSUME NEW c \in Clients, Unwatch(c) \/ StopAllWatch(c) PROVE Filled'
  BY <1>0, <1>5, FilledKept DEF Unwatch, StopAllWatch, StopAllWatchers, CancelAll
<1>6. ASSUME NEW a \in Actors, ShutdownEmpty(a) \/ Shutdown(a) \/ ClearCache(a) PROVE Filled'
  BY <1>0, <1>6, FilledKept DEF ShutdownEmpty, Shutdown, ClearCache, End, Go, StopAllWatchers,
                                CancelAll
<1>7. ASSUME NEW e \in Events, Handle(e) PROVE Filled'
  <2>1. CASE HandleStore(e)
    <3>1. /\ handler[e] = "storing" /\ namespaces' = [namespaces EXCEPT ![subject[e[1]]] = e[2]]
          /\ UNCHANGED <<content, bad, ready, pc, todo>>
      BY <2>1 DEF HandleStore, Step, Subject
    <3>2. /\ subject[e[1]] \in Namespaces /\ e[2] \in 1..content[subject[e[1]]]
          /\ <<subject[e[1]], e[2]>> \notin bad
      BY <3>1, SentOf DEF TInv, Sent
    <3> QED
      BY <3>1, <3>2, FilledStore
  <2>2. CASE HandleRefuse(e) \/ HandleParse(e) \/ HandleCache(e) \/ HandleCopy(e) \/ HandleCall(e)
    BY <2>2, FilledKept DEF HandleRefuse, HandleParse, HandleCache, HandleCopy, HandleCall
  <2> QED
    BY <1>7, <2>1, <2>2 DEF Handle
<1>8. ASSUME NEW ns \in Namespaces, NEW parses \in BOOLEAN, Publish(ns, parses) PROVE Filled'
  <2>1. /\ content[ns] \in 1..MaxVersion /\ content'[ns] = content[ns] + 1
        /\ \A m \in Namespaces : m # ns => content'[m] = content[m]
        /\ bad' \subseteq bad \cup {<<ns, content'[ns]>>}
        /\ UNCHANGED <<namespaces, ready, pc, todo>>
    BY <1>0, <1>8 DEF Publish, TypeOK, Versions
  <2>2. ASSUME NEW m \in Namespaces
        PROVE  namespaces[m] <= content'[m] /\ <<m, namespaces[m]>> \notin bad'
    <3>1. namespaces[m] \in Nat /\ namespaces[m] <= content[m] /\ <<m, namespaces[m]>> \notin bad
      BY <1>0, ConfigAssumption DEF TypeOK, Versions, NoVersion, Filled
    <3> QED
      BY <2>1, <3>1, ConfigAssumption
  <2> QED
    BY <2>1, <2>2 DEF Filled
<1>9. CASE UNCHANGED vars
  BY <1>9, FilledKept DEF vars
<1> QED
  BY <1>1, <1>2, <1>3, <1>4, <1>5, <1>6, <1>7, <1>8, <1>9, Cases DEF Actors

(* Once Init has done its work without an error, every namespace has a     *)
(* configuration, and never one that did not parse.                        *)
THEOREM ConfigurationStands == Spec => []Configured
<1>1. Init => TInv /\ Filled
  <2>1. Init => Filled
    BY ConfigAssumption DEF Init, Filled, NoVersion, Actors
  <2> QED
    BY <2>1, TInvInit
<1>2. Spec => [](TInv /\ Filled)
  BY <1>1, TInvNext, FilledNext, PTL DEF Spec
<1>3. TInv /\ Filled => Configured
  BY DEF Filled, Configured
<1> QED
  BY <1>2, <1>3, PTL
---------------------------------------------------------------------------
(* A client with a cache.  Its loads miss, so it never holds content; a    *)
(* handler of its goes no further than the Set.                            *)
Silent ==
  /\ cacheOn =>
       /\ ~ready /\ delivered = [e \in Events |-> Nobody]
       /\ \A ns \in Namespaces : namespaces[ns] = NoVersion
       /\ \A c \in Clients : Loading(c) => raw[c] = NoVersion
       /\ \A e \in Events : handler[e] \notin {"storing", "stored", "calling"}
  /\ \A e \in Events : handler[e] = "caching" => cacheOn
  /\ taken => \E e \in Events : handler[e] = "caching"

(* A step that adds nothing.                                               *)
LEMMA SilentKept ==
  ASSUME Silent, UNCHANGED <<cacheOn, namespaces, delivered, handler>>,
         taken' => taken, ready' => ready,
         \A c \in Clients : Loading(c)' => (Loading(c) /\ raw'[c] = raw[c]) \/ raw'[c] = NoVersion
  PROVE  Silent'
BY DEF Silent, NoVersion

(* A handler takes one step, not back to the Set.                          *)
LEMMA SilentHandled ==
  ASSUME TInv, Silent, NEW e \in Events,
         handler[e] # "caching",
         \E to \in {"refused", "storing", "stored", "calling"} :
           /\ to # "refused" => ~cacheOn
           /\ handler' = [handler EXCEPT ![e] = to],
         cacheOn => UNCHANGED namespaces,
         UNCHANGED <<cacheOn, ready, delivered, raw, pc, taken>>
  PROVE  Silent'
<1>1. handler \in [Events -> {"none", "sent", "refused", "caching", "storing", "stored", "calling"}]
  BY DEF TInv, TypeOK
<1>2. \A x \in Events : handler'[x] = "caching" <=> handler[x] = "caching"
  BY <1>1
<1>3. cacheOn => \A x \in Events : handler'[x] \notin {"storing", "stored", "calling"}
  BY <1>1 DEF Silent
<1> QED
  BY <1>2, <1>3 DEF Silent, Loading

LEMMA SilentNext == TInv /\ Silent /\ [Next]_vars => Silent'
<1> SUFFICES ASSUME TInv, Silent, [Next]_vars PROVE Silent'
  OBVIOUS
<1> USE DEF client, tables, callers, changes, provider, latch, Go, Loading
<1>0. /\ TypeOK /\ Holds /\ Sent /\ Clients \subseteq Actors
      /\ pc \in [Actors -> PCs] /\ raw \in [Actors -> Nat]
      /\ handler \in [Events -> {"none", "sent", "refused", "caching", "storing", "stored", "calling"}]
  BY DEF TInv, TypeOK, Actors
<1>1. ASSUME NEW c \in Clients, Moves(c) PROVE Silent'
  <2>1. CASE \/ Bootstrap(c) \/ InitAwaited(c) \/ TimeOut(c)
    BY <1>0, <2>1, SilentKept DEF Bootstrap, InitAwaited, TimeOut
  <2>7. CASE WatchCall(c)
    BY <1>0, <2>7, WatchCalls, SilentKept
  <2>2. CASE InitCall(c) \/ Reload(c)
    <3>1. raw[c] = NoVersion
      BY <1>0, <2>2 DEF InitCall, Reload, Holds, NoVersion
    <3>2. UNCHANGED <<cacheOn, namespaces, delivered, handler, taken, ready, raw>>
      BY <2>2 DEF InitCall, Reload
    <3>3. \A d \in Clients : d # c => pc'[d] = pc[d]
      BY <1>0, <2>2 DEF InitCall, Reload
    <3> QED
      BY <3>1, <3>2, <3>3, SilentKept
  <2>3. CASE LoadRead(c)
    BY <2>3 DEF LoadRead, Silent
  <2>4. CASE LoadFails(c)
    <3>1. /\ UNCHANGED <<cacheOn, namespaces, delivered, handler, taken, raw>> /\ (ready' => ready)
          /\ pc' = [pc EXCEPT ![c] = "idle"]
      BY <2>4 DEF LoadFails, Loaded
    <3> QED
      BY <1>0, <3>1, SilentKept
  <2>5. CASE SubscribeFails(c)
    BY <1>0, <2>5, SilentKept DEF SubscribeFails, NextWatch
  <2>6. CASE ClearAllFunc(c)
    <3>1. \A d \in Clients : Loading(d)' => Loading(d)
      BY <1>0, <2>6 DEF ClearAllFunc
    <3> QED
      BY <2>6, <3>1, SilentKept DEF ClearAllFunc
  <2> QED
    BY <1>1, <2>1, <2>2, <2>3, <2>4, <2>5, <2>6, <2>7 DEF Moves
<1>2. ASSUME NEW c \in Clients, LoadStore(c) PROVE Silent'
  <2>1. ~cacheOn
    BY <1>2 DEF LoadStore, Silent
  <2> QED
    BY <1>2, <2>1 DEF LoadStore, Silent
<1>3. ASSUME NEW c \in Clients, WatchCheck(c) \/ Unwatch(c) \/ StopAllWatch(c) PROVE Silent'
  <2>1. /\ UNCHANGED <<cacheOn, namespaces, delivered, handler, taken, ready, raw>>
        /\ pc' = pc \/ \E l \in {"idle", "watching", "subscribing"} : pc' = [pc EXCEPT ![c] = l]
    BY <1>3 DEF WatchCheck, NextWatch, Unwatch, StopAllWatch, StopAllWatchers
  <2> QED
    BY <1>0, <2>1, SilentKept
<1>4. ASSUME NEW c \in Clients, Subscribe(c) \/ WatchStore(c) PROVE Silent'
  <2>1. /\ UNCHANGED <<cacheOn, namespaces, delivered, handler, taken, ready>>
        /\ \E l \in {"idle", "watching", "subscribed"} : pc' = [pc EXCEPT ![c] = l]
        /\ \E r : raw' = [raw EXCEPT ![c] = r]
    BY <1>4 DEF Subscribe, WatchStore, NextWatch
  <2> QED
    BY <1>0, <2>1, SilentKept
<1>5. ASSUME NEW a \in Actors, ShutdownEmpty(a) \/ Shutdown(a) \/ ClearCache(a) PROVE Silent'
  <2>1. /\ UNCHANGED <<cacheOn, namespaces, delivered, handler, ready, raw>> /\ (taken' => taken)
        /\ \E l \in {"idle", "finished", "clearing"} : pc' = [pc EXCEPT ![a] = l]
    BY <1>5 DEF ShutdownEmpty, Shutdown, ClearCache, End, StopAllWatchers, Cache!Enter, Cache!Pass
  <2> QED
    BY <1>0, <2>1, SilentKept
<1>6. ASSUME NEW e \in Events, Handle(e) PROVE Silent'
  <2>1. CASE HandleRefuse(e)
    BY <2>1, SilentHandled DEF HandleRefuse, Step
  <2>2. CASE HandleParse(e)
    <3>1. CASE cacheOn
      <4>1. /\ handler' = [handler EXCEPT ![e] = "caching"]
            /\ UNCHANGED <<cacheOn, namespaces, delivered, taken, ready, raw, pc>>
        BY <2>2, <3>1 DEF HandleParse, Step, Cache!Enter
      <4> QED
        BY <1>0, <3>1, <4>1 DEF Silent
    <3>2. CASE ~cacheOn
      BY <2>2, <3>2, SilentHandled DEF HandleParse, Step
    <3> QED
      BY <3>1, <3>2
  <2>3. CASE HandleCache(e)
    BY <2>3 DEF HandleCache, Silent
  <2>4. CASE HandleStore(e) \/ HandleCopy(e)
    <3>1. handler[e] \in {"storing", "stored"} /\ ~cacheOn
      BY <2>4 DEF HandleStore, HandleCopy, Step, Silent
    <3> QED
      BY <2>4, <3>1, SilentHandled DEF HandleStore, HandleCopy, Step
  <2>5. CASE HandleCall(e)
    <3>1. handler[e] = "calling"
      BY <1>0, <2>5, CallsSomebody DEF Sent
    <3>2. ~cacheOn
      BY <3>1 DEF Silent
    <3> QED
      BY <2>5, <3>2 DEF HandleCall, Silent
  <2> QED
    BY <1>6, <2>1, <2>2, <2>3, <2>4, <2>5 DEF Handle
<1>7. ASSUME NEW ns \in Namespaces, NEW parses \in BOOLEAN, Publish(ns, parses) PROVE Silent'
  <2>1. UNCHANGED <<cacheOn, namespaces, delivered, taken, ready, raw, pc>>
    BY <1>7 DEF Publish
  <2>2. ASSUME NEW e \in Events
        PROVE  handler'[e] = handler[e] \/ (handler[e] = "none" /\ handler'[e] = "sent")
    <3>1. CASE e[1] \in attached /\ subject[e[1]] = ns /\ e[2] = content[ns] + 1
      <4>1. content[ns] \in Nat
        BY <1>0, ConfigAssumption DEF TypeOK, Versions
      <4>2. handler[e] # "none" => e[2] <= content[subject[e[1]]]
        BY <1>0 DEF Sent
      <4>3. handler[e] = "none"
        BY <3>1, <4>1, <4>2
      <4>4. content'[ns] = content[ns] + 1
        BY <1>0, <1>7 DEF Publish, TypeOK
      <4> QED
        BY <1>7, <3>1, <4>3, <4>4 DEF Publish
    <3>2. CASE ~(e[1] \in attached /\ subject[e[1]] = ns /\ e[2] = content[ns] + 1)
      <4>1. content'[ns] = content[ns] + 1
        BY <1>0, <1>7 DEF Publish, TypeOK
      <4> QED
        BY <1>7, <3>2, <4>1 DEF Publish
    <3> QED
      BY <3>1, <3>2
  <2>3. \A e \in Events : handler[e] = "caching" <=> handler'[e] = "caching"
    BY <2>2
  <2>4. \A e \in Events : handler'[e] \in {"storing", "stored", "calling"} => handler'[e] = handler[e]
    BY <2>2
  <2> QED
    BY <2>1, <2>3, <2>4 DEF Silent
<1>8. CASE UNCHANGED vars
  BY <1>8, SilentKept DEF vars
<1> QED
  BY <1>1, <1>2, <1>3, <1>4, <1>5, <1>6, <1>7, <1>8, Cases DEF Actors

LEMMA SilentAlways == Spec => []Silent
<1>1. Init => TInv /\ Silent
  <2>1. Init => Silent
    BY DEF Init, Silent, Loading, NoVersion, Actors, Cache!Init
  <2> QED
    BY <2>1, TInvInit
<1> QED
  BY <1>1, TInvNext, SilentNext, PTL DEF Spec

(* A client with a cache is of no use: no Init of it succeeds, it never    *)
(* holds the configuration of any namespace, and no change of one ever     *)
(* reaches a callback.  (loadNamespace returns the cache's miss as its     *)
(* error, and the Set of a change never returns.)                          *)
THEOREM CacheSilences ==
  Spec => [](cacheOn => /\ ~ready /\ delivered = [e \in Events |-> Nobody]
                        /\ \A ns \in Namespaces : namespaces[ns] = NoVersion)
<1>1. Silent => (cacheOn => /\ ~ready /\ delivered = [e \in Events |-> Nobody]
                            /\ \A ns \in Namespaces : namespaces[ns] = NoVersion)
  BY DEF Silent
<1> QED
  BY <1>1, SilentAlways, PTL

(* The cache's mutex is lost to a change only: while no handler of a       *)
(* client with a cache has come to its Set, a Shutdown gets through.       *)
THEOREM JamIsASet ==
  Spec => [](taken => cacheOn /\ \E e \in Events : handler[e] = "caching")
<1>1. Silent => (taken => cacheOn /\ \E e \in Events : handler[e] = "caching")
  BY DEF Silent
<1> QED
  BY <1>1, SilentAlways, PTL
---------------------------------------------------------------------------
(* initOnce.                                                               *)
OneInit ==
  /\ \A c, d \in Clients : pc[c] = "loading" /\ pc[d] = "loading" => c = d
  /\ once = "running" <=> \E c \in Clients : pc[c] = "loading"
  /\ \A c \in Clients : pc[c] = "awaiting" => once # "fresh"

(* A step that neither starts nor ends an Init.                            *)
LEMMA OneInitKept ==
  ASSUME OneInit, once' = once,
         \A c \in Clients : /\ pc'[c] = "loading" <=> pc[c] = "loading"
                            /\ pc'[c] = "awaiting" => pc[c] = "awaiting" \/ once # "fresh"
  PROVE  OneInit'
BY DEF OneInit

(* The Init that is running ends.                                          *)
LEMMA OneInitEnds ==
  ASSUME TInv, OneInit, NEW c \in Clients, Loading(c),
         pc' = [pc EXCEPT ![c] = "idle"],
         once' = IF pc[c] = "loading" THEN "done" ELSE once
  PROVE  OneInit'
<1>1. pc \in [Actors -> PCs] /\ Clients \subseteq Actors
  BY DEF TInv, TypeOK, Actors
<1>2. pc'[c] = "idle" /\ \A d \in Clients : d # c => pc'[d] = pc[d]
  BY <1>1
<1>3. CASE pc[c] = "loading"
  BY <1>2, <1>3 DEF OneInit
<1>4. CASE pc[c] # "loading"
  <2>1. \A d \in Clients : /\ pc'[d] = "loading" <=> pc[d] = "loading"
                           /\ pc'[d] = "awaiting" => pc[d] = "awaiting"
    BY <1>2, <1>4
  <2> QED
    BY <1>4, <2>1, OneInitKept
<1> QED
  BY <1>3, <1>4

LEMMA OneInitNext == TInv /\ OneInit /\ [Next]_vars => OneInit'
<1> SUFFICES ASSUME TInv, OneInit, [Next]_vars PROVE OneInit'
  OBVIOUS
<1> USE DEF client, tables, callers, Go, Loading
<1>0. pc \in [Actors -> PCs] /\ Clients \subseteq Actors
  BY DEF TInv, TypeOK, Actors
<1>1. ASSUME NEW c \in Clients, Moves(c) PROVE OneInit'
  <2>1. CASE InitCall(c)
    <3>1. CASE once = "fresh" /\ once' = "running" /\ pc' = [pc EXCEPT ![c] = "loading"]
      <4>1. pc'[c] = "loading" /\ \A d \in Clients : d # c => pc'[d] = pc[d]
        BY <1>0, <3>1
      <4> QED
        BY <3>1, <4>1 DEF OneInit
    <3>2. CASE once = "running" /\ once' = once /\ pc[c] = "idle" /\ pc' = [pc EXCEPT ![c] = "awaiting"]
      BY <1>0, <3>2, OneInitKept
    <3> QED
      BY <2>1, <3>1, <3>2 DEF InitCall
  <2>2. CASE LoadFails(c)
    BY <2>2, OneInitEnds DEF LoadFails, Loaded
  <2>3. CASE LoadRead(c)
    BY <2>3, OneInitKept DEF LoadRead
  <2>4. CASE Bootstrap(c) \/ InitAwaited(c) \/ Reload(c) \/ WatchCall(c) \/ SubscribeFails(c) \/ TimeOut(c)
    <3>1. /\ once' = once /\ pc[c] # "loading"
          /\ \/ pc' = pc
             \/ \E l \in {"idle", "reloading", "watching"} : pc' = [pc EXCEPT ![c] = l]
      BY <2>4 DEF Bootstrap, InitAwaited, Reload, WatchCall, SubscribeFails, NextWatch, TimeOut
    <3> QED
      BY <1>0, <3>1, OneInitKept
  <2>5. CASE ClearAllFunc(c)
    <3>1. \A d \in Clients : /\ pc'[d] = "loading" <=> pc[d] = "loading"
                             /\ pc'[d] = "awaiting" => pc[d] = "awaiting"
      BY <1>0, <2>5, ConfigAssumption DEF ClearAllFunc
    <3> QED
      BY <2>5, <3>1, OneInitKept DEF ClearAllFunc
  <2> QED
    BY <1>1, <2>1, <2>2, <2>3, <2>4, <2>5 DEF Moves
<1>2. ASSUME NEW c \in Clients, LoadStore(c) PROVE OneInit'
  <2>1. CASE todo[c] = {now[c]}
    BY <1>2, <2>1, OneInitEnds DEF LoadStore, Loaded
  <2>2. CASE todo[c] # {now[c]}
    BY <1>2, <2>2, OneInitKept DEF LoadStore
  <2> QED
    BY <2>1, <2>2
<1>3. ASSUME NEW c \in Clients,
             \/ WatchCheck(c) \/ Subscribe(c) \/ WatchStore(c) \/ Unwatch(c) \/ StopAllWatch(c)
      PROVE  OneInit'
  <2>1. /\ once' = once
        /\ \/ pc' = pc
           \/ /\ pc[c] \in {"watching", "subscribing", "subscribed"}
              /\ \E l \in {"idle", "watching", "subscribing", "subscribed"} :
                   pc' = [pc EXCEPT ![c] = l]
    BY <1>3 DEF WatchCheck, Subscribe, WatchStore, NextWatch, Unwatch, StopAllWatch
  <2> QED
    BY <1>0, <2>1, OneInitKept
<1>4. ASSUME NEW a \in Actors, ShutdownEmpty(a) \/ Shutdown(a) \/ ClearCache(a) PROVE OneInit'
  <2>1. /\ once' = once /\ pc[a] \in {"idle", "started", "clearing"}
        /\ \E l \in {"idle", "finished", "clearing"} : pc' = [pc EXCEPT ![a] = l]
    BY <1>4 DEF ShutdownEmpty, Shutdown, ClearCache, End
  <2> QED
    BY <1>0, <2>1, OneInitKept
<1>5. ASSUME \/ \E e \in Events : Handle(e)
             \/ \E ns \in Namespaces, parses \in BOOLEAN : Publish(ns, parses)
             \/ UNCHANGED vars
      PROVE  OneInit'
  <2>1. once' = once /\ pc' = pc
    BY <1>5 DEF Handle, HandleRefuse, HandleParse, HandleCache, HandleStore, HandleCopy, HandleCall,
                Publish, vars
  <2> QED
    BY <2>1, OneInitKept
<1> QED
  BY <1>1, <1>2, <1>3, <1>4, <1>5, Cases DEF Actors

(* initOnce admits one Init at a time, and an Init that waits has one to   *)
(* wait for, or need not wait any longer: nobody sleeps behind work that   *)
(* nobody does.                                                            *)
THEOREM InitIsOnce ==
  Spec => [](/\ \A c, d \in Clients : pc[c] = "loading" /\ pc[d] = "loading" => c = d
             /\ (\E c \in Clients : pc[c] = "awaiting")
                  => once = "done" \/ \E d \in Clients : pc[d] = "loading")
<1>1. Init => TInv /\ OneInit
  <2>1. Init => OneInit
    BY DEF Init, OneInit, Actors
  <2> QED
    BY <2>1, TInvInit
<1>2. TInv /\ OneInit =>
        /\ \A c, d \in Clients : pc[c] = "loading" /\ pc[d] = "loading" => c = d
        /\ (\E c \in Clients : pc[c] = "awaiting")
             => once = "done" \/ \E d \in Clients : pc[d] = "loading"
  BY DEF TInv, TypeOK, OneInit
<1> QED
  BY <1>1, <1>2, TInvNext, OneInitNext, PTL DEF Spec
=============================================================================
