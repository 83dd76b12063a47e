----------------------------- MODULE RedisLock -----------------------------
(***************************************************************************)
(* The distributed lock of infrastructure/redis/redisLock/redisLock.go on  *)
(* one key: TryLockOnce, the RetryLock family, ReadLock and Unlock, with   *)
(* the script that Unlock loads once per process.                          *)
(*                                                                         *)
(* The Redis server executes one command at a time.  A call of the client  *)
(* is two steps, the execution on the server and the return of the reply;  *)
(* the connection may fail before or after the execution, and a command    *)
(* that was given up may still reach the server.  The goroutines modelled  *)
(* here share the server and the package variables script and unlockOnce,  *)
(* which they assign without a lock: an assignment is one step.            *)
(***************************************************************************)
EXTENDS Naturals, FiniteSets

CONSTANTS
  Clients,     \* goroutines that use the lock
  None,        \* the key does not exist
  Readers,     \* those that take it with ReadLock in the read way
  MayExpire,   \* the key has a time to live that may run out
  MayFail,     \* connections may fail
  MayFlush,    \* the server may forget its scripts
  MaxRequests, \* client |-> bound on the SETs it sends
  MaxLate,     \* bound on the commands that are late at the same time
  MaxRetries   \* how often a RetryLock may try again before its time is up

(* lockKey: a UUID for each request.                                       *)
Tokens == UNION {{c} \X (1..MaxRequests[c]) : c \in Clients}

(* SET, SCRIPT LOAD, EVAL and EVALSHA, with the token of the request.      *)
Commands == {"set", "load", "eval", "evalsha"} \X Tokens

ASSUME LockAssumption ==
  /\ None \notin Tokens
  /\ None \notin Clients
  /\ Readers \subseteq Clients
  /\ {MayExpire, MayFail, MayFlush} \subseteq BOOLEAN
  /\ MaxRequests \in [Clients -> Nat] /\ MaxRetries \in Nat /\ MaxLate \in Nat
  /\ "fresh" \notin Clients /\ "done" \notin Clients

VARIABLES
  key,      \* the value of redisKey on the server
  cached,   \* the server knows the SHA of UnlockScript
  late,     \* commands given up by their client, which may still arrive
  once,     \* unlockOnce: "fresh", "done", or the goroutine inside its Do
  script,   \* the package variable holds the SHA
  pc,       \* where a client is; a result with Success is "locked", one without "failed"
  n,        \* requests a client has sent: its token is <<c, n[c]>>
  tries,    \* retries left to a RetryLock
  reply,    \* what SetNxEx gave: (true, nil), (false, nil) or an error
  waitsFor, \* the goroutine whose Do a client waits for
  (* history *)
  stored,   \* tokens that the server has stored
  lapsed    \* tokens whose time to live ran out

server  == <<key, cached, late>>
package == <<once, script>>
local   == <<n, tries>>
vars    == <<server, package, pc, local, reply, waitsFor, stored, lapsed>>

Token(c) == <<c, n[c]>>

Init ==
  /\ key = None
  /\ cached = FALSE
  /\ late = {}
  /\ once = "fresh"
  /\ script = FALSE
  /\ pc = [c \in Clients |-> "idle"]
  /\ n = [c \in Clients |-> 0]
  /\ tries = [c \in Clients |-> 0]
  /\ reply = [c \in Clients |-> "none"]
  /\ waitsFor = [c \in Clients |-> None]
  /\ stored = {}
  /\ lapsed = {}

Goto(c, l) == pc' = [pc EXCEPT ![c] = l]

---------------------------------------------------------------------------
(* Locking.                                                                *)

(* TryLockOnce: every request has a token of its own.                      *)
Request(c) ==
  /\ n[c] < MaxRequests[c]
  /\ n' = [n EXCEPT ![c] = @ + 1]
  /\ Goto(c, "set")

LockCall(c) ==
  /\ pc[c] = "idle"
  /\ Request(c)
  /\ tries' = [tries EXCEPT ![c] = IF c \in Readers THEN 0 ELSE MaxRetries]
  /\ UNCHANGED <<server, package, reply, waitsFor, stored, lapsed>>

(* Mutant: SET without NX.                                                 *)
SetExecutes_Overwrite(t) == key' = t /\ stored' = stored \cup {t}

(* SET key token NX EX: stores if there is no value.                       *)
SetExecutes(t) ==
  IF key = None
  THEN key' = t /\ stored' = stored \cup {t}
  ELSE UNCHANGED <<key, stored, lapsed>>

Set(c) ==
  /\ pc[c] = "set"
  /\ SetExecutes(Token(c))
  /\ reply' = [reply EXCEPT ![c] = IF key = None THEN "OK" ELSE "nil"]
  /\ Goto(c, "reply")
  /\ UNCHANGED <<cached, late, package, local, waitsFor, lapsed>>

(* A command whose reply times out never arrives, or later.                *)
GiveUpOn(c, command) ==
  \/ UNCHANGED late
  \/ Cardinality(late) < MaxLate /\ late' = late \cup {<<command, Token(c)>>}

(* The command does not arrive, or not before the client gives it up ...   *)
SetLost(c) ==
  /\ MayFail
  /\ pc[c] = "set"
  /\ GiveUpOn(c, "set")
  /\ reply' = [reply EXCEPT ![c] = "err"]
  /\ Goto(c, "reply")
  /\ UNCHANGED <<key, cached, package, local, waitsFor, stored, lapsed>>

(* ... or the reply does not.                                              *)
ReplyLost(c) ==
  /\ MayFail
  /\ pc[c] = "reply"
  /\ reply[c] # "err"
  /\ reply' = [reply EXCEPT ![c] = "err"]
  /\ UNCHANGED <<server, package, pc, local, waitsFor, stored, lapsed>>

(* The result says Success before anything is sent.  SetNxEx turns a nil   *)
(* reply into (false, nil), and TryLockOnce looks at the error only.  A    *)
(* read lock that failed is declared a success.                            *)
Locked(c) == reply[c] # "err" \/ c \in Readers

LockReturns(c) ==
  /\ pc[c] = "reply"
  /\ Goto(c, IF Locked(c) THEN "locked" ELSE "failed")
  /\ UNCHANGED <<server, package, local, reply, waitsFor, stored, lapsed>>

(* The RetryLock loops: try again after a sleep, until the time is up.     *)
(* One that gives up at once is a TryLockOnce.                             *)
Retry(c) ==
  /\ pc[c] = "failed"
  /\ tries[c] > 0
  /\ Request(c)
  /\ tries' = [tries EXCEPT ![c] = @ - 1]
  /\ UNCHANGED <<server, package, reply, waitsFor, stored, lapsed>>

GiveUp(c) ==
  /\ pc[c] = "failed"
  /\ Goto(c, "idle")
  /\ reply' = [reply EXCEPT ![c] = "none"]
  /\ UNCHANGED <<server, package, local, waitsFor, stored, lapsed>>

---------------------------------------------------------------------------
(* Unlocking.                                                              *)

(* unlockOnce.Do: the first to come loads the script, those that come      *)
(* meanwhile wait for it.                                                  *)
UnlockCall(c) ==
  /\ pc[c] = "locked"
  /\ \/ /\ once = "fresh"
        /\ once' = c
        /\ Goto(c, "load")
        /\ UNCHANGED waitsFor
     \/ /\ once = "done"
        /\ Goto(c, "branch")
        /\ UNCHANGED <<once, waitsFor>>
     \/ /\ once \in Clients
        /\ Goto(c, "wait")
        /\ waitsFor' = [waitsFor EXCEPT ![c] = once]
        /\ UNCHANGED once
  /\ UNCHANGED <<server, script, local, reply, stored, lapsed>>

(* Mutant: those that wait are forgotten.                                  *)
LeaveDo_Alone(c) ==
  /\ Goto(c, "branch")
  /\ UNCHANGED waitsFor

(* The loader and whoever waits for its Do go on.  A failure also puts a   *)
(* fresh Once in the place of the used one.                                *)
LeaveDo(c) ==
  /\ pc' = [d \in Clients |->
              IF d = c \/ (pc[d] = "wait" /\ waitsFor[d] = c) THEN "branch" ELSE pc[d]]
  /\ waitsFor' = [d \in Clients |-> IF waitsFor[d] = c THEN None ELSE waitsFor[d]]

ScriptLoad(c) ==
  /\ pc[c] = "load"
  /\ LeaveDo(c)
  /\ cached' = TRUE
  /\ script' = TRUE
  /\ once' = IF once = c THEN "done" ELSE once
  /\ UNCHANGED <<key, late, local, reply, stored, lapsed>>

ScriptLoadFails(c) ==
  /\ pc[c] = "load"
  /\ MayFail
  /\ LeaveDo(c)
  /\ \/ cached' = TRUE /\ UNCHANGED late   \* only the reply is lost
     \/ GiveUpOn(c, "load") /\ UNCHANGED cached
  /\ script' = FALSE
  /\ once' = "fresh"
  /\ UNCHANGED <<key, local, reply, stored, lapsed>>

(* script is read to decide between EVAL and EVALSHA, and again to send.   *)
Branch(c) ==
  /\ pc[c] = "branch"
  /\ Goto(c, IF script THEN "evalsha" ELSE "eval")
  /\ UNCHANGED <<server, package, local, reply, waitsFor, stored, lapsed>>

(* Mutant: the script deletes the key without comparing its value.         *)
UnlockScript_NoCompare(t) == key' = None

(* UnlockScript: compare and delete in one command.                        *)
UnlockScript(t) == key' = IF key = t THEN None ELSE key

(* EVAL takes the script itself, and the server remembers it.              *)
Eval(c) ==
  /\ pc[c] = "eval"
  /\ UnlockScript(Token(c))
  /\ cached' = TRUE
  /\ Goto(c, "unlocked")
  /\ UNCHANGED <<late, package, local, reply, waitsFor, stored, lapsed>>

(* Mutant: a NOSCRIPT error ends Unlock like any other.                    *)
NoScript_NoFallback(c) ==
  /\ once' = "fresh"
  /\ Goto(c, "unlocked")

(* NOSCRIPT: the script is sent after all, and to be loaded again.         *)
NoScript(c) ==
  /\ once' = "fresh"
  /\ Goto(c, "eval")

(* EVALSHA of a SHA that the server does not know, or that another         *)
(* goroutine's failed load has emptied meanwhile, answers NOSCRIPT.        *)
EvalSha(c) ==
  /\ pc[c] = "evalsha"
  /\ \/ /\ script /\ cached
        /\ UnlockScript(Token(c))
        /\ Goto(c, "unlocked")
        /\ UNCHANGED once
     \/ /\ ~(script /\ cached)
        /\ NoScript(c)
        /\ UNCHANGED key
  /\ UNCHANGED <<cached, late, script, local, reply, waitsFor, stored, lapsed>>

(* Unlock ignores its error: nothing is released, or not before Unlock has *)
(* returned, and nobody knows.  An empty SHA releases nothing at any time. *)
EvalLost(c) ==
  /\ MayFail
  /\ pc[c] \in {"eval", "evalsha"}
  /\ IF pc[c] = "eval" \/ script THEN GiveUpOn(c, pc[c]) ELSE UNCHANGED late
  /\ Goto(c, "idle")
  /\ reply' = [reply EXCEPT ![c] = "none"]
  /\ UNCHANGED <<key, cached, package, local, waitsFor, stored, lapsed>>

UnlockReturns(c) ==
  /\ pc[c] = "unlocked"
  /\ Goto(c, "idle")
  /\ reply' = [reply EXCEPT ![c] = "none"]
  /\ UNCHANGED <<server, package, local, waitsFor, stored, lapsed>>

---------------------------------------------------------------------------
(* The server on its own.                                                  *)

(* A command that was given up arrives; its reply goes nowhere.            *)
LateSet(t) ==
  /\ <<"set", t>> \in late
  /\ late' = late \ {<<"set", t>>}
  /\ SetExecutes(t)
  /\ UNCHANGED <<cached, package, pc, local, reply, waitsFor, lapsed>>

LateLoad(t) ==
  /\ <<"load", t>> \in late
  /\ late' = late \ {<<"load", t>>}
  /\ cached' = TRUE
  /\ UNCHANGED <<key, package, pc, local, reply, waitsFor, stored, lapsed>>

LateEval(t) ==
  /\ <<"eval", t>> \in late
  /\ late' = late \ {<<"eval", t>>}
  /\ UnlockScript(t)
  /\ cached' = TRUE
  /\ UNCHANGED <<package, pc, local, reply, waitsFor, stored, lapsed>>

LateEvalSha(t) ==
  /\ <<"evalsha", t>> \in late
  /\ late' = late \ {<<"evalsha", t>>}
  /\ IF cached THEN UnlockScript(t) ELSE UNCHANGED key
  /\ UNCHANGED <<cached, package, pc, local, reply, waitsFor, stored, lapsed>>

Expire ==
  /\ MayExpire
  /\ key # None
  /\ key' = None
  /\ lapsed' = lapsed \cup {key}
  /\ UNCHANGED <<cached, late, package, pc, local, reply, waitsFor, stored>>

Flush ==
  /\ MayFlush
  /\ cached
  /\ cached' = FALSE
  /\ UNCHANGED <<key, late, package, pc, local, reply, waitsFor, stored, lapsed>>

Step(c) ==
  \/ Set(c) \/ SetLost(c) \/ ReplyLost(c) \/ LockReturns(c) \/ Retry(c) \/ GiveUp(c)
  \/ ScriptLoad(c) \/ ScriptLoadFails(c)
  \/ Branch(c) \/ Eval(c) \/ EvalSha(c) \/ EvalLost(c) \/ UnlockReturns(c)

Next ==
  \/ \E c \in Clients : LockCall(c) \/ UnlockCall(c) \/ Step(c)
  \/ \E t \in Tokens : LateSet(t) \/ LateLoad(t) \/ LateEval(t) \/ LateEvalSha(t)
  \/ Expire \/ Flush

Spec == Init /\ [][Next]_vars

(* A command sent is answered or fails, a loop goes round; a caller need   *)
(* not call, nor unlock.                                                   *)
Fairness == \A c \in Clients : WF_vars(Step(c))
FairSpec == Spec /\ Fairness

---------------------------------------------------------------------------
(* Properties.                                                             *)

TypeOK ==
  /\ key \in Tokens \cup {None}
  /\ cached \in BOOLEAN /\ script \in BOOLEAN
  /\ once \in {"fresh", "done"} \cup Clients
  /\ pc \in [Clients -> {"idle", "set", "reply", "locked", "failed", "load", "wait", "branch",
                         "eval", "evalsha", "unlocked"}]
  /\ n \in [Clients -> Nat] /\ \A c \in Clients : n[c] <= MaxRequests[c]
  /\ tries \in [Clients -> 0..MaxRetries]
  /\ reply \in [Clients -> {"none", "OK", "nil", "err"}]
  /\ waitsFor \in [Clients -> Clients \cup {None}]
  /\ late \subseteq Commands
  /\ stored \subseteq Tokens /\ lapsed \subseteq Tokens
  /\ \A c \in Clients : pc[c] # "idle" => n[c] > 0
  /\ \A c \in Clients : pc[c] = "wait" => waitsFor[c] # None
  /\ \A c \in Clients : waitsFor[c] # None => pc[waitsFor[c]] = "load"

(* The server stored the token of c's request and c has been told so, or   *)
(* is about to be: what a caller should take for having the lock.          *)
Granted(c) ==
  /\ pc[c] \in {"reply", "locked", "load", "wait", "branch", "eval", "evalsha"}
  /\ reply[c] = "OK"
  /\ Token(c) \notin lapsed

(* A granted lock is held until its own Unlock or the end of its time to   *)
(* live, and no longer: an Unlock that met no connection error has         *)
(* released it.  No late command, no Unlock of another client, nothing     *)
(* the goroutines do to the shared Once and script variable and no flush   *)
(* of the scripts changes that (TryLockOnce, Unlock).                      *)
HeldUntilUnlocked ==
  \A c \in Clients :
    /\ Granted(c) => key = Token(c)
    /\ pc[c] = "unlocked" /\ reply[c] # "err" => key # Token(c)

Unlocking == {"load", "wait", "branch", "eval", "evalsha", "unlocked"}

(* A token is being given back from the call of Unlock until its return,   *)
(* and beyond that as long as the script it gave up may still arrive.      *)
Asked ==
  {Token(c) : c \in {d \in Clients : pc[d] \in Unlocking}} \cup
  {t \in Tokens : <<"eval", t>> \in late \/ <<"evalsha", t>> \in late}

(* The key implements a lease: it passes from token to token only through  *)
(* a release that its owner has asked for, or an expiry.                   *)
L == INSTANCE Lease WITH Free <- None, MayLapse <- MayExpire,
                         holder <- key, used <- stored, asked <- Asked
KeyIsLease == L!Spec

(* No call hangs: not the retry loops, and not the goroutines that wait in *)
(* unlockOnce.Do while the Once is being replaced.                         *)
InCall == {"set", "reply", "failed"} \cup Unlocking
CallsReturn == \A c \in Clients : pc[c] \in InCall ~> pc[c] \notin InCall

(* "Locking fails if [the key] exists" (redisLock.go): of the clients that *)
(* want the lock for themselves, two never have a successful result whose  *)
(* time to live has not run out.                                           *)
Has(c) == pc[c] = "locked" /\ c \notin Readers /\ Token(c) \notin lapsed
MutualExclusion == \A c, d \in Clients : Has(c) /\ Has(d) => c = d
===========================================================================
