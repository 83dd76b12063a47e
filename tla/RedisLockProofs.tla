-------------------------- MODULE RedisLockProofs --------------------------
(***************************************************************************)
(* What RedisLock promises for any number of clients, requests and         *)
(* retries, with and without expiry, failures and flushes: its types, that *)
(* a granted lock is held until Unlock releases it, and that the key       *)
(* implements a Lease.                                                     *)
(***************************************************************************)
EXTENDS RedisLock, TLAPS

(* No token is sent twice: one that is about to be sent, and one not given *)
(* out yet, is neither on the server nor on its way.                       *)
Unsent == \A c \in Clients : pc[c] = "set" => Token(c) \notin stored /\ <<"set", Token(c)>> \notin late
Future == \A c \in Clients : \A i \in 1..MaxRequests[c] : i > n[c] =>
            <<c, i>> \notin stored /\ \A k \in {"set", "load", "eval", "evalsha"} : <<k, <<c, i>>>> \notin late

(* A SET is still on its way only after its client has seen an error.      *)
LateIsError == /\ \A t \in stored : <<"set", t>> \notin late
               /\ \A c \in Clients : <<"set", Token(c)>> \in late /\ pc[c] # "idle" => reply[c] = "err"

(* A script is late only after the Unlock that sent it has returned.       *)
LateIsOver == \A c \in Clients : pc[c] # "idle" =>
                <<"eval", Token(c)>> \notin late /\ <<"evalsha", Token(c)>> \notin late

KeyStored == key # None => key \in stored

(* The Once in use is fresh, done, or held by a goroutine that loads.      *)
OnceLoading == once \in Clients => pc[once] = "load"

Inv == TypeOK /\ Unsent /\ Future /\ LateIsError /\ LateIsOver /\ KeyStored /\ OnceLoading /\ HeldUntilUnlocked

(* Tokens of different clients differ, and a client in a call has one.     *)
LEMMA TokenOf ==
  ASSUME TypeOK
  PROVE  /\ \A c, d \in Clients : Token(c) = Token(d) => c = d
         /\ \A c \in Clients : pc[c] # "idle" => Token(c) \in Tokens
BY LockAssumption DEF TypeOK, Token, Tokens

LEMMA GaveUp ==
  ASSUME NEW c \in Clients, NEW k \in {"set", "load", "eval", "evalsha"}, GiveUpOn(c, k)
  PROVE  late' = late \/ late' = late \cup {<<k, Token(c)>>}
BY DEF GiveUpOn

(* The invariant holds at the start.                                       *)
LEMMA InvInit == Init => Inv
<1> SUFFICES ASSUME Init PROVE Inv
  OBVIOUS
<1> USE LockAssumption DEF Init
<1>1. TypeOK
  <2>1. 0 \in 0..MaxRetries
    OBVIOUS
  <2>2. /\ n \in [Clients -> Nat] /\ (\A c \in Clients : n[c] <= MaxRequests[c])
        /\ tries \in [Clients -> 0..MaxRetries]
        /\ reply \in [Clients -> {"none", "OK", "nil", "err"}]
        /\ waitsFor \in [Clients -> Clients \cup {None}]
    BY <2>1
  <2>3. \A c \in Clients : pc[c] = "idle" /\ waitsFor[c] = None
    OBVIOUS
  <2> QED
    BY <2>2, <2>3 DEF TypeOK
<1>2. Unsent /\ Future /\ LateIsError /\ LateIsOver
  BY DEF Unsent, Future, LateIsError, LateIsOver
<1>3. KeyStored /\ OnceLoading /\ HeldUntilUnlocked
  BY DEF KeyStored, OnceLoading, HeldUntilUnlocked, Granted
<1> QED
  BY <1>1, <1>2, <1>3 DEF Inv

Arrives(t) == LateSet(t) \/ LateLoad(t) \/ LateEval(t) \/ LateEvalSha(t)

(* The types are preserved.                                                *)
LEMMA TypeNext == Inv /\ [Next]_vars => TypeOK'
<1> SUFFICES ASSUME Inv, [Next]_vars PROVE TypeOK'
  OBVIOUS
<1> USE LockAssumption, TokenOf DEF Inv, TypeOK, Goto
<1>1. ASSUME NEW c \in Clients, LockCall(c) PROVE TypeOK'
  BY <1>1 DEF LockCall, Request, server, package, OnceLoading
<1>2. ASSUME NEW c \in Clients, Retry(c) PROVE TypeOK'
  BY <1>2 DEF Retry, Request, server, package
<1>3. ASSUME NEW c \in Clients, Set(c) PROVE TypeOK'
  BY <1>3 DEF Set, SetExecutes, package, local
<1>4. ASSUME NEW c \in Clients, SetLost(c) PROVE TypeOK'
  BY <1>4, GaveUp DEF SetLost, package, local, Commands
<1>5. ASSUME NEW c \in Clients, ReplyLost(c) PROVE TypeOK'
  BY <1>5 DEF ReplyLost, server, package, local
<1>6. ASSUME NEW c \in Clients, LockReturns(c) \/ GiveUp(c) PROVE TypeOK'
  BY <1>6 DEF LockReturns, GiveUp, server, package, local
<1>7. ASSUME NEW c \in Clients, UnlockCall(c) PROVE TypeOK'
  BY <1>7 DEF UnlockCall, OnceLoading, server, local
<1>8. ASSUME NEW c \in Clients, ScriptLoad(c) \/ ScriptLoadFails(c) PROVE TypeOK'
  <2>1. pc[c] = "load" /\ LeaveDo(c) /\ UNCHANGED <<key, n, tries, reply, stored, lapsed>>
    BY <1>8 DEF ScriptLoad, ScriptLoadFails, local
  <2>a. once' \in {"fresh", "done"} \cup Clients /\ cached' \in BOOLEAN /\ script' \in BOOLEAN
    BY <1>8 DEF ScriptLoad, ScriptLoadFails
  <2>b. late' = late \/ late' = late \cup {<<"load", Token(c)>>}
    BY <1>8, GaveUp DEF ScriptLoad, ScriptLoadFails
  <2>c. <<"load", Token(c)>> \in Commands
    BY <2>1 DEF Commands
  <2>2. /\ once' \in {"fresh", "done"} \cup Clients /\ cached' \in BOOLEAN /\ script' \in BOOLEAN
        /\ late' \subseteq Commands
    BY <2>a, <2>b, <2>c
  <2>3. \A d \in Clients : pc'[d] = IF d = c \/ (pc[d] = "wait" /\ waitsFor[d] = c)
                                    THEN "branch" ELSE pc[d]
    BY <2>1 DEF LeaveDo
  <2>4. \A d \in Clients : waitsFor'[d] = IF waitsFor[d] = c THEN None ELSE waitsFor[d]
    BY <2>1 DEF LeaveDo
  <2>5. /\ pc' \in [Clients -> {"idle", "set", "reply", "locked", "failed", "load", "wait",
                                "branch", "eval", "evalsha", "unlocked"}]
        /\ waitsFor' \in [Clients -> Clients \cup {None}]
    BY <2>1 DEF LeaveDo
  <2>6. \A d \in Clients : /\ pc'[d] # "idle" => n[d] > 0
                           /\ pc'[d] = "wait" => waitsFor'[d] # None
    BY <2>1, <2>3, <2>4
  <2>7. ASSUME NEW d \in Clients, waitsFor'[d] # None PROVE pc'[waitsFor'[d]] = "load"
    <3>1. waitsFor'[d] = waitsFor[d] /\ waitsFor[d] \in Clients /\ waitsFor[d] # c
      BY <2>4, <2>7
    <3> QED
      BY <2>3, <3>1
  <2> QED
    BY <2>1, <2>2, <2>5, <2>6, <2>7
<1>9. ASSUME NEW c \in Clients, Branch(c) PROVE TypeOK'
  BY <1>9 DEF Branch, server, package, local
<1>10. ASSUME NEW c \in Clients, Eval(c) \/ EvalSha(c) PROVE TypeOK'
  <2>1. /\ key' \in Tokens \cup {None} /\ cached' \in BOOLEAN
        /\ once' \in {"fresh", "done"} \cup Clients
        /\ UNCHANGED <<late, script, n, tries, reply, waitsFor, stored, lapsed>>
    BY <1>10 DEF Eval, EvalSha, UnlockScript, NoScript, package, local
  <2>2. \E l \in {"eval", "unlocked"} : pc' = [pc EXCEPT ![c] = l]
    BY <1>10 DEF Eval, EvalSha, NoScript
  <2>3. pc[c] \in {"eval", "evalsha"}
    BY <1>10 DEF Eval, EvalSha
  <2> QED
    BY <2>1, <2>2, <2>3
<1>11. ASSUME NEW c \in Clients, EvalLost(c) \/ UnlockReturns(c) PROVE TypeOK'
  <2>1. /\ late' \subseteq Commands /\ pc' = [pc EXCEPT ![c] = "idle"] /\ reply' = [reply EXCEPT ![c] = "none"]
        /\ pc[c] # "load"
        /\ UNCHANGED <<key, cached, package, local, waitsFor, stored, lapsed>>
    BY <1>11, GaveUp DEF EvalLost, UnlockReturns, server, Commands
  <2> QED
    BY <2>1 DEF package, local
<1>12. ASSUME NEW t \in Tokens, Arrives(t) PROVE TypeOK'
  <2>1. late' \subseteq late /\ UNCHANGED <<package, pc, local, reply, waitsFor, lapsed>>
    BY <1>12 DEF Arrives, LateSet, LateLoad, LateEval, LateEvalSha
  <2>2. /\ key' \in {key, None, t} /\ cached' \in {cached, TRUE}
        /\ stored' = stored \/ stored' = stored \cup {t}
    BY <1>12 DEF Arrives, LateSet, LateLoad, LateEval, LateEvalSha, SetExecutes, UnlockScript
  <2> QED
    BY <2>1, <2>2 DEF package, local
<1>13. ASSUME Expire \/ Flush PROVE TypeOK'
  <2>1. CASE Expire
    BY <2>1 DEF Expire, package, local
  <2>2. CASE Flush
    BY <2>2 DEF Flush, package, local
  <2> QED
    BY <1>13, <2>1, <2>2
<1>14. ASSUME UNCHANGED vars PROVE TypeOK'
  BY <1>14 DEF vars, server, package, local
<1> QED
  BY <1>1, <1>2, <1>3, <1>4, <1>5, <1>6, <1>7, <1>8, <1>9, <1>10, <1>11, <1>12, <1>13, <1>14
  DEF Next, Step, Arrives

(* What is on the server and on its way.                                   *)
LateInv == Unsent /\ Future /\ LateIsError /\ LateIsOver /\ KeyStored

(* A step that sends nothing and stores nothing.                           *)
LEMMA LateKept ==
  ASSUME TypeOK, LateInv, n' = n, stored' = stored, late' \subseteq late,
         key' = key \/ key' = None,
         \A d \in Clients : /\ pc'[d] = "set" => pc[d] = "set"
                            /\ pc'[d] # "idle" => /\ pc[d] # "idle"
                                                  /\ reply'[d] = reply[d] \/ reply'[d] = "err"
  PROVE  LateInv'
<1>1. \A d \in Clients : Token(d)' = Token(d)
  BY DEF Token
<1>2. Future'
  BY DEF LateInv, Future
<1>3. Unsent' /\ LateIsOver'
  BY <1>1 DEF LateInv, Unsent, LateIsOver
<1>4. LateIsError' /\ KeyStored'
  BY <1>1 DEF LateInv, LateIsError, KeyStored
<1> QED
  BY <1>2, <1>3, <1>4 DEF LateInv

(* A command is given up by a client that is about to return or has seen   *)
(* an error.                                                               *)
LEMMA LateGrows ==
  ASSUME TypeOK, LateInv, NEW c \in Clients, NEW k \in {"set", "load", "eval", "evalsha"},
         n' = n, stored' = stored, key' = key,
         late' = late \cup {<<k, Token(c)>>},
         n[c] > 0,
         \A d \in Clients : /\ pc'[d] = "set" => pc[d] = "set" /\ d # c
                            /\ pc'[d] # "idle" => /\ pc[d] # "idle"
                                                  /\ reply'[d] = reply[d] \/ reply'[d] = "err",
         k = "set" => Token(c) \notin stored /\ reply'[c] = "err",
         k \in {"eval", "evalsha"} => pc'[c] = "idle"
  PROVE  LateInv'
<1>1. \A d \in Clients : Token(d)' = Token(d) /\ (Token(d) = Token(c) => d = c)
  BY DEF Token
<1>2. \A d \in Clients : n[d] \in Nat
  BY DEF TypeOK
<1>3. Future'
  <2>1. SUFFICES ASSUME NEW d \in Clients, NEW i \in 1..MaxRequests[d], i > n[d],
                        NEW l \in {"set", "load", "eval", "evalsha"}
                 PROVE  <<d, i>> \notin stored /\ <<l, <<d, i>>>> \notin late'
    BY DEF Future
  <2>2. <<d, i>> \notin stored /\ <<l, <<d, i>>>> \notin late
    BY <2>1 DEF LateInv, Future
  <2>3. <<d, i>> # Token(c)
    BY <1>2, <2>1 DEF Token
  <2> QED
    BY <2>2, <2>3
<1>4. Unsent'
  BY <1>1 DEF LateInv, Unsent
<1>5. LateIsOver'
  BY <1>1 DEF LateInv, LateIsOver
<1>6. LateIsError' /\ KeyStored'
  BY <1>1 DEF LateInv, LateIsError, KeyStored
<1> QED
  BY <1>3, <1>4, <1>5, <1>6 DEF LateInv

(* A SET executes, on time or late.                                        *)
LEMMA LateStored ==
  ASSUME TypeOK, LateInv, NEW c \in Clients, NEW i \in 1..MaxRequests[c], i <= n[c], n' = n,
         SetExecutes(<<c, i>>),
         late' \subseteq late, <<"set", <<c, i>>>> \notin late',
         \A d \in Clients : pc'[d] = "set" => pc[d] = "set" /\ <<c, i>> # Token(d),
         \A d \in Clients : pc'[d] # "idle" => pc[d] # "idle"
                            /\ (<<"set", Token(d)>> \in late' => reply'[d] = reply[d])
  PROVE  LateInv'
<1>1. \A d \in Clients : Token(d)' = Token(d) /\ n[d] \in Nat
  BY DEF Token, TypeOK
<1>2. stored' = stored \/ stored' = stored \cup {<<c, i>>}
  BY DEF SetExecutes
<1>3. Future'
  <2>1. SUFFICES ASSUME NEW d \in Clients, NEW j \in 1..MaxRequests[d], j > n[d],
                        NEW l \in {"set", "load", "eval", "evalsha"}
                 PROVE  <<d, j>> \notin stored' /\ <<l, <<d, j>>>> \notin late'
    BY DEF Future
  <2>2. <<d, j>> \notin stored /\ <<l, <<d, j>>>> \notin late
    BY <2>1 DEF LateInv, Future
  <2>3. <<d, j>> # <<c, i>>
    BY <1>1, <2>1
  <2> QED
    BY <1>2, <2>2, <2>3
<1>4. Unsent' /\ LateIsOver'
  BY <1>1, <1>2 DEF LateInv, Unsent, LateIsOver
<1>5. LateIsError'
  BY <1>1, <1>2 DEF LateInv, LateIsError
<1>6. KeyStored'
  BY <1>2 DEF LateInv, KeyStored, SetExecutes
<1> QED
  BY <1>3, <1>4, <1>5, <1>6 DEF LateInv

LEMMA LateNext == Inv /\ [Next]_vars => LateInv'
<1> SUFFICES ASSUME Inv, [Next]_vars PROVE LateInv'
  OBVIOUS
<1>0. TypeOK /\ LateInv
  BY DEF Inv, LateInv
<1> USE LockAssumption DEF Goto
<1>a. /\ pc \in [Clients -> {"idle", "set", "reply", "locked", "failed", "load", "wait", "branch",
                             "eval", "evalsha", "unlocked"}]
      /\ reply \in [Clients -> {"none", "OK", "nil", "err"}]
      /\ n \in [Clients -> Nat]
      /\ \A d \in Clients : n[d] <= MaxRequests[d] /\ (pc[d] # "idle" => n[d] > 0)
  BY DEF Inv, TypeOK
<1>1. ASSUME NEW c \in Clients, LockCall(c) \/ Retry(c) PROVE LateInv'
  <2>1. /\ n[c] < MaxRequests[c] /\ n' = [n EXCEPT ![c] = n[c] + 1]
        /\ pc' = [pc EXCEPT ![c] = "set"] /\ UNCHANGED <<key, late, stored, reply>>
    BY <1>1 DEF LockCall, Retry, Request, server
  <2>2. Token(c)' = <<c, n[c] + 1>> /\ n[c] + 1 \in 1..MaxRequests[c] /\ n[c] + 1 > n[c]
    BY <1>a, <2>1 DEF Token
  <2>3. \A d \in Clients : d # c => n'[d] = n[d] /\ Token(d)' = Token(d) /\ pc'[d] = pc[d]
    BY <1>a, <2>1 DEF Token
  <2>4. /\ <<c, n[c] + 1>> \notin stored
        /\ \A k \in {"set", "load", "eval", "evalsha"} : <<k, <<c, n[c] + 1>>>> \notin late
    BY <1>0, <2>2 DEF LateInv, Future
  <2>5. Future'
    <3>1. \A d \in Clients : n'[d] >= n[d]
      BY <1>a, <2>1
    <3>2. \A d \in Clients : \A i \in 1..MaxRequests[d] : i > n'[d] => i > n[d]
      BY <1>a, <2>1, <3>1
    <3> QED
      BY <1>0, <2>1, <3>2 DEF LateInv, Future
  <2>6. Unsent' /\ LateIsOver'
    BY <1>0, <2>1, <2>2, <2>3, <2>4 DEF LateInv, Unsent, LateIsOver
  <2>7. LateIsError' /\ KeyStored'
    BY <1>0, <2>1, <2>2, <2>3, <2>4 DEF LateInv, LateIsError, KeyStored
  <2> QED
    BY <2>5, <2>6, <2>7 DEF LateInv
<1>2. ASSUME NEW c \in Clients, Set(c) PROVE LateInv'
  <2>1. /\ pc[c] = "set" /\ SetExecutes(<<c, n[c]>>) /\ late' = late /\ n' = n
        /\ \A d \in Clients : d # c => pc'[d] = pc[d] /\ reply'[d] = reply[d]
        /\ pc'[c] = "reply"
    BY <1>2, <1>a DEF Set, local, Token
  <2>2. n[c] \in 1..MaxRequests[c] /\ n[c] <= n[c]
    BY <1>a, <2>1
  <2>3. <<"set", Token(c)>> \notin late
    BY <1>0, <2>1 DEF LateInv, Unsent
  <2>4. \A d \in Clients : pc'[d] = "set" => pc[d] = "set" /\ <<c, n[c]>> # Token(d)
    BY <2>1 DEF Token
  <2> QED
    BY <1>0, <2>1, <2>2, <2>3, <2>4, LateStored DEF Token
<1>3. ASSUME NEW t \in Tokens, LateSet(t) PROVE LateInv'
  <2>0. PICK c \in Clients : t \in {c} \X (1..MaxRequests[c])
    BY DEF Tokens
  <2>1. PICK i \in 1..MaxRequests[c] : t = <<c, i>>
    BY <2>0
  <2>2. <<"set", <<c, i>>>> \in late
    BY <1>3, <2>1 DEF LateSet
  <2>3. i <= n[c]
    <3>1. ~(i > n[c])
      BY <1>0, <2>2 DEF LateInv, Future
    <3> QED
      BY <1>a, <3>1
  <2>4. \A d \in Clients : pc[d] = "set" => <<c, i>> # Token(d)
    BY <1>0, <2>2 DEF LateInv, Unsent
  <2>5. /\ SetExecutes(<<c, i>>) /\ late' = late \ {<<"set", <<c, i>>>>} /\ n' = n
        /\ UNCHANGED <<pc, reply>>
    BY <1>3, <2>1 DEF LateSet, local
  <2> QED
    BY <1>0, <2>3, <2>4, <2>5, LateStored
<1>4. ASSUME NEW c \in Clients, SetLost(c) PROVE LateInv'
  <2>1. /\ pc[c] = "set" /\ UNCHANGED <<key, n, stored>>
        /\ late' = late \/ late' = late \cup {<<"set", Token(c)>>}
        /\ \A d \in Clients : d # c => pc'[d] = pc[d] /\ reply'[d] = reply[d]
        /\ pc'[c] = "reply" /\ reply'[c] = "err"
    BY <1>4, <1>a, GaveUp DEF SetLost, local
  <2>2. Token(c) \notin stored
    BY <1>0, <2>1 DEF LateInv, Unsent
  <2>3. CASE late' = late
    BY <1>0, <2>1, <2>3, LateKept
  <2>4. CASE late' = late \cup {<<"set", Token(c)>>}
    BY <1>0, <1>a, <2>1, <2>2, <2>4, LateGrows
  <2> QED
    BY <2>1, <2>3, <2>4
<1>5. ASSUME NEW c \in Clients, ScriptLoad(c) \/ ScriptLoadFails(c) PROVE LateInv'
  <2>1. /\ pc[c] = "load" /\ UNCHANGED <<key, n, reply, stored>>
        /\ late' = late \/ late' = late \cup {<<"load", Token(c)>>}
    BY <1>5, GaveUp DEF ScriptLoad, ScriptLoadFails, local
  <2>2. \A d \in Clients : pc'[d] = pc[d] \/ (pc'[d] = "branch" /\ pc[d] \in {"load", "wait"})
    BY <1>5, <2>1 DEF ScriptLoad, ScriptLoadFails, LeaveDo
  <2>3. CASE late' = late
    BY <1>0, <2>1, <2>2, <2>3, LateKept
  <2>4. CASE late' = late \cup {<<"load", Token(c)>>}
    BY <1>0, <1>a, <2>1, <2>2, <2>4, LateGrows
  <2> QED
    BY <2>1, <2>3, <2>4
<1>6. ASSUME NEW c \in Clients, EvalLost(c) PROVE LateInv'
  <2>1. /\ pc[c] \in {"eval", "evalsha"} /\ UNCHANGED <<key, n, stored>>
        /\ late' = late \/ late' = late \cup {<<pc[c], Token(c)>>}
        /\ \A d \in Clients : d # c => pc'[d] = pc[d] /\ reply'[d] = reply[d]
        /\ pc'[c] = "idle"
    BY <1>6, <1>a, GaveUp DEF EvalLost, local
  <2>3. CASE late' = late
    BY <1>0, <2>1, <2>3, LateKept
  <2>4. CASE late' = late \cup {<<pc[c], Token(c)>>}
    BY <1>0, <1>a, <2>1, <2>4, LateGrows
  <2> QED
    BY <2>1, <2>3, <2>4
<1>7. ASSUME NEW c \in Clients,
             \/ ReplyLost(c) \/ LockReturns(c) \/ GiveUp(c) \/ UnlockCall(c)
             \/ Branch(c) \/ Eval(c) \/ EvalSha(c) \/ UnlockReturns(c)
      PROVE  LateInv'
  <2>1. /\ UNCHANGED <<n, stored, late>> /\ (key' = key \/ key' = None)
        /\ \A d \in Clients : d # c => pc'[d] = pc[d] /\ reply'[d] = reply[d]
        /\ pc[c] # "idle" /\ pc'[c] # "set"
        /\ pc'[c] # "idle" => reply'[c] = reply[c] \/ reply'[c] = "err"
    BY <1>7, <1>a DEF ReplyLost, LockReturns, GiveUp, UnlockCall, Branch, Eval, EvalSha,
                      UnlockReturns, NoScript, UnlockScript, server, local
  <2> QED
    BY <1>0, <2>1, LateKept
<1>8. ASSUME \/ \E t \in Tokens : LateLoad(t) \/ LateEval(t) \/ LateEvalSha(t)
             \/ Expire \/ Flush \/ UNCHANGED vars
      PROVE  LateInv'
  <2>1. /\ UNCHANGED <<n, stored, pc, reply>> /\ late' \subseteq late /\ (key' = key \/ key' = None)
    BY <1>8 DEF LateLoad, LateEval, LateEvalSha, UnlockScript, Expire, Flush, vars, server, local
  <2> QED
    BY <1>0, <2>1, LateKept
<1> QED
  BY <1>1, <1>2, <1>3, <1>4, <1>5, <1>6, <1>7, <1>8 DEF Next, Step

(* A step that neither grants nor releases.                                *)
LEMMA HeldKept ==
  ASSUME HeldUntilUnlocked, key' = key, lapsed \subseteq lapsed',
         \A d \in Clients : /\ Granted(d)' => Granted(d) /\ Token(d)' = Token(d)
                            /\ pc'[d] = "unlocked" /\ reply'[d] # "err" =>
                                 pc[d] = "unlocked" /\ reply[d] # "err" /\ Token(d)' = Token(d)
  PROVE  HeldUntilUnlocked'
BY DEF HeldUntilUnlocked

(* The key is set or deleted, with nobody's lock under it.                 *)
LEMMA HeldNext == Inv /\ TypeOK' /\ [Next]_vars => HeldUntilUnlocked'
<1> SUFFICES ASSUME Inv, TypeOK', [Next]_vars PROVE HeldUntilUnlocked'
  OBVIOUS
<1> USE LockAssumption DEF Goto
<1>a. /\ pc \in [Clients -> {"idle", "set", "reply", "locked", "failed", "load", "wait", "branch",
                             "eval", "evalsha", "unlocked"}]
      /\ reply \in [Clients -> {"none", "OK", "nil", "err"}]
      /\ n \in [Clients -> Nat] /\ key \in Tokens \cup {None}
      /\ HeldUntilUnlocked /\ LateIsError /\ LateIsOver /\ Unsent /\ KeyStored
  BY DEF Inv, TypeOK
<1>b. \A c, d \in Clients : Token(c) = Token(d) => c = d
  BY DEF Token
<1>c. \A c \in Clients : pc[c] # "idle" => Token(c) \in Tokens
  BY TokenOf DEF Inv
<1>1. ASSUME NEW c \in Clients,
             \/ LockCall(c) \/ Retry(c) \/ SetLost(c) \/ ReplyLost(c) \/ LockReturns(c)
             \/ GiveUp(c) \/ UnlockCall(c) \/ Branch(c) \/ EvalLost(c) \/ UnlockReturns(c)
      PROVE  HeldUntilUnlocked'
  <2>1. /\ UNCHANGED <<key, lapsed>>
        /\ \A d \in Clients : d # c => n'[d] = n[d] /\ pc'[d] = pc[d] /\ reply'[d] = reply[d]
    BY <1>1, <1>a DEF LockCall, Retry, Request, SetLost, ReplyLost, LockReturns, GiveUp,
                      UnlockCall, Branch, EvalLost, UnlockReturns, server, local
  <2>2. /\ pc'[c] # "unlocked"
        /\ pc'[c] \in {"reply", "locked", "load", "wait", "branch", "eval", "evalsha"} /\ reply'[c] = "OK"
             => /\ pc[c] \in {"reply", "locked", "load", "wait", "branch", "eval", "evalsha"}
                /\ reply[c] = "OK" /\ n'[c] = n[c]
    BY <1>1, <1>a DEF LockCall, Retry, Request, SetLost, ReplyLost, LockReturns, GiveUp,
                      UnlockCall, Branch, EvalLost, UnlockReturns, server, local
  <2> QED
    BY <1>a, <2>1, <2>2, HeldKept DEF Granted, Token
<1>2. ASSUME NEW c \in Clients, ScriptLoad(c) \/ ScriptLoadFails(c) PROVE HeldUntilUnlocked'
  <2>1. pc[c] = "load" /\ LeaveDo(c) /\ UNCHANGED <<key, n, reply, lapsed>>
    BY <1>2 DEF ScriptLoad, ScriptLoadFails, local
  <2>2. \A d \in Clients : pc'[d] = pc[d] \/ (pc'[d] = "branch" /\ pc[d] \in {"load", "wait"})
    BY <2>1 DEF LeaveDo
  <2> QED
    BY <1>a, <2>1, <2>2, HeldKept DEF Granted, Token
<1>3. ASSUME NEW c \in Clients, Set(c) PROVE HeldUntilUnlocked'
  <2>1. /\ pc[c] = "set" /\ UNCHANGED <<n, lapsed>>
        /\ \A d \in Clients : d # c => pc'[d] = pc[d] /\ reply'[d] = reply[d]
        /\ pc'[c] = "reply" /\ reply'[c] = (IF key = None THEN "OK" ELSE "nil")
        /\ key' = (IF key = None THEN Token(c) ELSE key)
    BY <1>3, <1>a DEF Set, SetExecutes, local
  <2>2. \A d \in Clients : Token(d)' = Token(d)
    BY <2>1 DEF Token
  <2>3. ASSUME NEW d \in Clients, Granted(d)' PROVE key' = Token(d)
    BY <1>a, <1>c, <2>1, <2>2, <2>3 DEF Granted, HeldUntilUnlocked
  <2>4. ASSUME NEW d \in Clients, pc'[d] = "unlocked", reply'[d] # "err" PROVE key' # Token(d)
    BY <1>a, <1>b, <2>1, <2>4 DEF HeldUntilUnlocked
  <2> QED
    BY <2>2, <2>3, <2>4 DEF HeldUntilUnlocked
<1>4. ASSUME NEW t \in Tokens, LateSet(t) PROVE HeldUntilUnlocked'
  <2>1. /\ UNCHANGED <<n, pc, reply, lapsed>> /\ <<"set", t>> \in late
        /\ key' = (IF key = None THEN t ELSE key)
    BY <1>4 DEF LateSet, SetExecutes, local
  <2>2. \A d \in Clients : Token(d)' = Token(d) /\ (Granted(d)' <=> Granted(d))
    BY <2>1 DEF Token, Granted
  <2>3. ASSUME NEW d \in Clients, Granted(d) PROVE key' = Token(d)
    BY <1>a, <1>c, <2>1, <2>3 DEF Granted, HeldUntilUnlocked
  <2>4. ASSUME NEW d \in Clients, pc[d] = "unlocked", reply[d] # "err" PROVE key' # Token(d)
    BY <1>a, <2>1, <2>4 DEF HeldUntilUnlocked, LateIsError
  <2> QED
    BY <2>1, <2>2, <2>3, <2>4 DEF HeldUntilUnlocked
<1>5. ASSUME NEW c \in Clients, Eval(c) \/ EvalSha(c) PROVE HeldUntilUnlocked'
  <2>1. /\ pc[c] \in {"eval", "evalsha"} /\ UNCHANGED <<n, reply, lapsed>>
        /\ \A d \in Clients : d # c => pc'[d] = pc[d]
        /\ \/ key' = (IF key = Token(c) THEN None ELSE key) /\ pc'[c] = "unlocked"
           \/ key' = key /\ pc'[c] = "eval"
    BY <1>5, <1>a DEF Eval, EvalSha, UnlockScript, NoScript, local
  <2>2. \A d \in Clients : Token(d)' = Token(d) /\ (Granted(d)' => Granted(d))
    BY <2>1 DEF Token, Granted
  <2>3. ASSUME NEW d \in Clients, Granted(d)' PROVE key' = Token(d)
    BY <1>a, <1>b, <2>1, <2>2, <2>3 DEF Granted, HeldUntilUnlocked
  <2>4. ASSUME NEW d \in Clients, pc'[d] = "unlocked", reply'[d] # "err" PROVE key' # Token(d)
    BY <1>a, <1>c, <2>1, <2>4, None \notin Tokens DEF HeldUntilUnlocked
  <2> QED
    BY <2>2, <2>3, <2>4 DEF HeldUntilUnlocked
<1>6. ASSUME NEW t \in Tokens, LateEval(t) \/ LateEvalSha(t) PROVE HeldUntilUnlocked'
  <2>1. /\ UNCHANGED <<n, pc, reply, lapsed>> /\ (<<"eval", t>> \in late \/ <<"evalsha", t>> \in late)
        /\ key' = key \/ key' = (IF key = t THEN None ELSE key)
    BY <1>6 DEF LateEval, LateEvalSha, UnlockScript, local
  <2>2. \A d \in Clients : Token(d)' = Token(d) /\ (Granted(d)' <=> Granted(d))
    BY <2>1 DEF Token, Granted
  <2>3. ASSUME NEW d \in Clients, Granted(d) PROVE key' = Token(d)
    <3>1. t # Token(d)
      BY <1>a, <2>1, <2>3 DEF Granted, LateIsOver
    <3> QED
      BY <1>a, <2>1, <2>3, <3>1 DEF HeldUntilUnlocked
  <2>4. ASSUME NEW d \in Clients, pc[d] = "unlocked", reply[d] # "err" PROVE key' # Token(d)
    BY <1>a, <1>c, <2>1, <2>4, None \notin Tokens DEF HeldUntilUnlocked
  <2> QED
    BY <2>1, <2>2, <2>3, <2>4 DEF HeldUntilUnlocked
<1>7. CASE Expire
  <2>1. /\ UNCHANGED <<n, pc, reply>> /\ key' = None /\ lapsed' = lapsed \cup {key}
    BY <1>7 DEF Expire, local
  <2>2. \A d \in Clients : Token(d)' = Token(d)
    BY <2>1 DEF Token
  <2>3. ASSUME NEW d \in Clients PROVE ~Granted(d)'
    BY <1>a, <2>1, <2>2 DEF Granted, HeldUntilUnlocked
  <2>4. ASSUME NEW d \in Clients, pc[d] = "unlocked" PROVE key' # Token(d)
    BY <1>c, <2>1, <2>4, None \notin Tokens
  <2> QED
    BY <2>1, <2>2, <2>3, <2>4 DEF HeldUntilUnlocked
<1>8. ASSUME (\E t \in Tokens : LateLoad(t)) \/ Flush \/ UNCHANGED vars PROVE HeldUntilUnlocked'
  <2>1. UNCHANGED <<key, n, pc, reply, lapsed>>
    BY <1>8 DEF LateLoad, Flush, vars, server, local
  <2> QED
    BY <1>a, <2>1, HeldKept DEF Granted, Token
<1> QED
  BY <1>1, <1>2, <1>3, <1>4, <1>5, <1>6, <1>7, <1>8 DEF Next, Step

(* Whoever leaves a Do replaces its Once or is done with it.               *)
LEMMA OnceNext == Inv /\ [Next]_vars => OnceLoading'
<1> SUFFICES ASSUME Inv, [Next]_vars PROVE OnceLoading'
  OBVIOUS
<1> USE LockAssumption DEF Goto
<1>a. /\ pc \in [Clients -> {"idle", "set", "reply", "locked", "failed", "load", "wait", "branch",
                             "eval", "evalsha", "unlocked"}]
      /\ OnceLoading
  BY DEF Inv, TypeOK
<1>1. ASSUME NEW c \in Clients, ScriptLoad(c) \/ ScriptLoadFails(c) PROVE OnceLoading'
  <2>1. pc[c] = "load" /\ LeaveDo(c) /\ (once' \in Clients => once' = once /\ once # c)
    BY <1>1 DEF ScriptLoad, ScriptLoadFails
  <2>2. \A d \in Clients : d # c /\ pc[d] = "load" => pc'[d] = "load"
    BY <2>1 DEF LeaveDo
  <2> QED
    BY <1>a, <2>1, <2>2 DEF OnceLoading
<1>2. ASSUME NEW c \in Clients, UnlockCall(c) PROVE OnceLoading'
  BY <1>2, <1>a DEF UnlockCall, OnceLoading
<1>3. ASSUME NEW c \in Clients, LockCall(c) \/ Step(c), ~ScriptLoad(c), ~ScriptLoadFails(c)
      PROVE  OnceLoading'
  <2>1. /\ once' = once \/ once' = "fresh"
        /\ pc[c] # "load" /\ \A d \in Clients : d # c => pc'[d] = pc[d]
    BY <1>3, <1>a DEF LockCall, Step, Set, SetLost, ReplyLost, LockReturns, Retry, Request, GiveUp,
         Branch, Eval, EvalSha, NoScript, EvalLost, UnlockReturns, package
  <2> QED
    BY <1>a, <2>1 DEF OnceLoading
<1>4. ASSUME (\E t \in Tokens : LateSet(t) \/ LateLoad(t) \/ LateEval(t) \/ LateEvalSha(t))
             \/ Expire \/ Flush \/ UNCHANGED vars
      PROVE  OnceLoading'
  <2>1. UNCHANGED <<once, pc>>
    BY <1>4 DEF LateSet, LateLoad, LateEval, LateEvalSha, Expire, Flush, vars, package
  <2> QED
    BY <1>a, <2>1 DEF OnceLoading
<1> QED
  BY <1>1, <1>2, <1>3, <1>4 DEF Next

LEMMA InvNext == Inv /\ [Next]_vars => Inv'
BY TypeNext, LateNext, HeldNext, OnceNext DEF Inv, LateInv

LEMMA Invariant == Spec => []Inv
BY InvInit, InvNext, PTL DEF Spec

(* The variables keep their types, and whoever waits for a Do waits for a  *)
(* goroutine that is loading the script.                                   *)
THEOREM TypeCorrect == Spec => []TypeOK
BY Invariant, PTL DEF Inv

(* A granted lock is held until its own Unlock or its expiry, and an       *)
(* Unlock that met no connection error has released it, whatever late      *)
(* commands, other clients and the shared Once and script variable do.     *)
THEOREM HeldAndReleased == Spec => []HeldUntilUnlocked
BY Invariant, PTL DEF Inv

(* Mutual exclusion holds among the clients whose SET was answered with    *)
(* true and has not expired: what breaks it (MutualExclusion) is only that *)
(* TryLockOnce does not look at that boolean (redisLock.go:52).            *)
THEOREM GrantsExclude ==
  Spec => [](\A c, d \in Clients : Granted(c) /\ Granted(d) => c = d)
<1>1. Inv => \A c, d \in Clients : Granted(c) /\ Granted(d) => c = d
  BY TokenOf DEF Inv, HeldUntilUnlocked, Granted
<1> QED
  BY <1>1, Invariant, PTL

---------------------------------------------------------------------------
(* The refinement.                                                         *)

(* A SET that executes takes the lease if it is free.                      *)
LEMMA SetAcquires ==
  ASSUME NEW t \in Tokens, t \notin stored, SetExecutes(t), UNCHANGED <<Asked, lapsed>>
  PROVE  [L!Next]_<<key, stored, Asked, lapsed>>
BY DEF SetExecutes, L!Next, L!Acquire, Asked

(* The script releases the lease, of the one whose token it compares; a    *)
(* late one is then no longer asked for.                                   *)
LEMMA ScriptReleases ==
  ASSUME NEW t \in Tokens, t \in Asked, UnlockScript(t), UNCHANGED <<stored, lapsed>>,
         Asked' = Asked \/ Asked' = Asked \ {t}
  PROVE  [L!Next]_<<key, stored, Asked, lapsed>>
BY DEF UnlockScript, L!Next, L!Release, L!Ask

(* Calling Unlock, and returning from it, are both an Ask.                 *)
LEMMA AskIsStep ==
  ASSUME NEW t \in Tokens, L!Ask(t)
  PROVE  L!Next
BY DEF L!Next

(* Every step of the lock is a step of the lease, or none.                 *)
LEMMA StepRefines == Inv /\ [Next]_vars => [L!Next]_<<key, stored, Asked, lapsed>>
<1> SUFFICES ASSUME Inv, [Next]_vars PROVE [L!Next]_<<key, stored, Asked, lapsed>>
  OBVIOUS
<1> USE LockAssumption, TokenOf DEF Inv, TypeOK, Goto
<1>1. ASSUME NEW c \in Clients, LockCall(c) \/ Retry(c) PROVE UNCHANGED <<key, stored, Asked, lapsed>>
  <2>1. \A d \in Clients : pc'[d] \in Unlocking <=> pc[d] \in Unlocking
    BY <1>1 DEF LockCall, Retry, Request, Unlocking
  <2>2. \A d \in Clients : pc[d] \in Unlocking => Token(d)' = Token(d)
    BY <1>1 DEF LockCall, Retry, Request, Unlocking, Token
  <2> QED
    BY <1>1, <2>1, <2>2 DEF LockCall, Retry, server, Asked
<1>2. ASSUME NEW c \in Clients, Set(c) PROVE [L!Next]_<<key, stored, Asked, lapsed>>
  <2>1. Asked' = Asked
    BY <1>2 DEF Set, local, Unlocking, Asked, Token
  <2>2. /\ Token(c) \in Tokens /\ Token(c) \notin stored
        /\ SetExecutes(Token(c)) /\ UNCHANGED lapsed
    BY <1>2 DEF Set, Unsent
  <2> QED
    BY <2>1, <2>2, SetAcquires
<1>3. ASSUME NEW t \in Tokens, LateSet(t) PROVE [L!Next]_<<key, stored, Asked, lapsed>>
  <2>1. Asked' = Asked
    BY <1>3 DEF LateSet, local, Asked, Token
  <2>2. t \in Tokens /\ t \notin stored /\ SetExecutes(t) /\ UNCHANGED lapsed
    BY <1>3 DEF LateSet, LateIsError
  <2> QED
    BY <2>1, <2>2, SetAcquires
<1>4. ASSUME NEW c \in Clients, Eval(c) \/ EvalSha(c) PROVE [L!Next]_<<key, stored, Asked, lapsed>>
  <2>1. Asked' = Asked
    BY <1>4 DEF Eval, EvalSha, NoScript, local, Unlocking, Asked, Token
  <2>2. Token(c) \in Tokens /\ Token(c) \in Asked /\ UNCHANGED <<stored, lapsed>>
    BY <1>4 DEF Eval, EvalSha, Unlocking, Asked
  <2>3. UnlockScript(Token(c)) \/ UNCHANGED key
    BY <1>4 DEF Eval, EvalSha
  <2> QED
    BY <2>1, <2>2, <2>3, ScriptReleases
<1>5. ASSUME NEW c \in Clients, UnlockCall(c) PROVE L!Next
  <2>1. \A d \in Clients : pc'[d] \in Unlocking <=> d = c \/ pc[d] \in Unlocking
    BY <1>5 DEF UnlockCall, Unlocking
  <2>2. \A d \in Clients : Token(d)' = Token(d)
    BY <1>5 DEF UnlockCall, local, Token
  <2>3. Asked' = Asked \cup {Token(c)}
    BY <1>5, <2>1, <2>2 DEF Asked, UnlockCall, server
  <2>4. PICK t \in Tokens : t = Token(c)
    BY <1>5 DEF UnlockCall
  <2>5. L!Ask(t)
    BY <1>5, <2>3, <2>4 DEF L!Ask, UnlockCall, server
  <2> QED
    BY <2>5, AskIsStep
<1>6. ASSUME NEW c \in Clients, EvalLost(c) \/ UnlockReturns(c) PROVE L!Next
  <2>1. \A d \in Clients : pc'[d] \in Unlocking <=> d # c /\ pc[d] \in Unlocking
    BY <1>6 DEF EvalLost, UnlockReturns, Unlocking
  <2>2. \A d \in Clients : Token(d)' = Token(d)
    BY <1>6 DEF EvalLost, UnlockReturns, local, Token
  <2>3. Asked' = Asked \/ Asked' = Asked \ {Token(c)}
    <3>1. \/ late' = late
          \/ late' = late \cup {<<"eval", Token(c)>>}
          \/ late' = late \cup {<<"evalsha", Token(c)>>}
      BY <1>6, GaveUp DEF EvalLost, UnlockReturns, server
    <3>2. pc[c] \in Unlocking /\ Token(c) \in Tokens
      BY <1>6 DEF EvalLost, UnlockReturns, Unlocking
    <3> QED
      BY <2>1, <2>2, <3>1, <3>2 DEF Asked, LateIsOver
  <2>4. PICK t \in Tokens : t = Token(c) /\ t \in Asked
    BY <1>6 DEF EvalLost, UnlockReturns, Unlocking, Asked
  <2>5. L!Ask(t)
    BY <1>6, <2>3, <2>4 DEF L!Ask, EvalLost, UnlockReturns, server
  <2> QED
    BY <2>5, AskIsStep
<1>7. ASSUME NEW c \in Clients, ScriptLoad(c) \/ ScriptLoadFails(c)
      PROVE UNCHANGED <<key, stored, Asked, lapsed>>
  <2>1. \A d \in Clients : pc'[d] \in Unlocking <=> pc[d] \in Unlocking
    <3>1. pc[c] = "load" /\ LeaveDo(c)
      BY <1>7 DEF ScriptLoad, ScriptLoadFails
    <3> QED
      BY <3>1 DEF LeaveDo, Unlocking
  <2>2. \A d \in Clients : Token(d)' = Token(d)
    BY <1>7 DEF ScriptLoad, ScriptLoadFails, local, Token
  <2> QED
    <3>1. /\ UNCHANGED <<key, stored, lapsed>>
          /\ late' = late \/ late' = late \cup {<<"load", Token(c)>>}
      BY <1>7, GaveUp DEF ScriptLoad, ScriptLoadFails
    <3> QED
      BY <2>1, <2>2, <3>1 DEF Asked
<1>8. ASSUME NEW c \in Clients,
             SetLost(c) \/ ReplyLost(c) \/ LockReturns(c) \/ GiveUp(c) \/ Branch(c)
      PROVE UNCHANGED <<key, stored, Asked, lapsed>>
  <2>1. \A d \in Clients : pc'[d] \in Unlocking <=> pc[d] \in Unlocking
    BY <1>8 DEF SetLost, ReplyLost, LockReturns, GiveUp, Branch, Unlocking
  <2>2. \A d \in Clients : Token(d)' = Token(d)
    BY <1>8 DEF SetLost, ReplyLost, LockReturns, GiveUp, Branch, local, Token
  <2>3. late' = late \/ late' = late \cup {<<"set", Token(c)>>}
    BY <1>8, GaveUp DEF SetLost, ReplyLost, LockReturns, GiveUp, Branch, server
  <2> QED
    BY <1>8, <2>1, <2>2, <2>3 DEF SetLost, ReplyLost, LockReturns, GiveUp, Branch, server, Asked
<1>9. ASSUME Expire PROVE L!Next
  <2>1. key \in Tokens /\ UNCHANGED <<stored, Asked>>
    BY <1>9 DEF Expire, local, Asked, Token
  <2> QED
    BY <1>9, <2>1 DEF Expire, L!Next, L!Lapse, Asked
<1>10. ASSUME Flush \/ UNCHANGED vars PROVE UNCHANGED <<key, stored, Asked, lapsed>>
  BY <1>10 DEF Flush, vars, server, local, Asked, Token
<1>11. ASSUME NEW t \in Tokens, LateLoad(t) PROVE UNCHANGED <<key, stored, Asked, lapsed>>
  BY <1>11 DEF LateLoad, local, Asked, Token
<1>12. ASSUME NEW t \in Tokens, LateEval(t) \/ LateEvalSha(t)
       PROVE [L!Next]_<<key, stored, Asked, lapsed>>
  <2>1. t \in Asked /\ (Asked' = Asked \/ Asked' = Asked \ {t})
    BY <1>12 DEF LateEval, LateEvalSha, local, Asked, Token
  <2>2. UNCHANGED <<stored, lapsed>>
    BY <1>12 DEF LateEval, LateEvalSha
  <2>3. UnlockScript(t) \/ UNCHANGED key
    BY <1>12 DEF LateEval, LateEvalSha
  <2>4. CASE UNCHANGED key
    BY <2>1, <2>2, <2>4 DEF L!Next, L!Ask
  <2> QED
    BY <2>1, <2>2, <2>3, <2>4, ScriptReleases
<1> QED
  BY <1>1, <1>2, <1>3, <1>4, <1>5, <1>6, <1>7, <1>8, <1>9, <1>10, <1>11, <1>12 DEF Next, Step

(* The initial states are those of a free lease.                           *)
LEMMA InitRefines == Init => L!Init
BY DEF Init, L!Init, Unlocking, Asked

(* The key of the server implements a lease: it passes from request to     *)
(* request only by a release that its owner's Unlock has asked for, late   *)
(* ones included, or by expiry, and a request has it at most once.         *)
THEOREM Implements == Spec => KeyIsLease
<1>1. Inv /\ [Next]_vars => [L!Next]_<<key, stored, Asked, lapsed>>
  BY StepRefines
<1> QED
  BY InitRefines, Invariant, <1>1, PTL DEF Spec, KeyIsLease, L!Spec, Asked
===========================================================================
