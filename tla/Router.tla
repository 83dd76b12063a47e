------------------------------- MODULE Router -------------------------------
(***************************************************************************)
(* The HTTP router (pkg/http/server: router.go, builder.go, middleware,    *)
(* route) and the server that example-service puts together itself         *)
(* (cmd/example-service/main.go:147-280): groups and routes are declared   *)
(* one call after another, and requests are answered.                      *)
(*                                                                         *)
(* Groups hold their middlewares in Go slices that append may share, so    *)
(* the arrays behind them are part of the state.  A path is a sequence of  *)
(* segments, a middleware is its kind.                                     *)
(***************************************************************************)
EXTENDS Integers, Sequences, FiniteSets, SequencesExt

CONSTANTS
  Arguments,  \* middleware lists that callers pass
  GroupPrefixes, \* prefixes of groups
  RoutePaths,  \* paths of routes
  MaxGroups,  \* bound: groups, the router itself included
  MaxRoutes,  \* bound: routes that are registered one by one
  MaxGlobals, \* bound: middlewares of the server
  MaxSpare    \* bound: cells that rounding up to a size class adds to an array

Kinds == {"cors", "logging", "recovery", "timeout", "altsvc"}
Nil   == "nil"  \* a cell of an array that nobody has written

Methods    == {"GET", "POST", "OPTIONS"}
Behaviours == {"answers", "panics", "answersThenPanics", "tooSlow"}

ASSUME RouterAssumption ==
  /\ Arguments \subseteq Seq(Kinds)
  /\ GroupPrefixes \subseteq Seq(STRING) /\ RoutePaths \subseteq Seq(STRING)
  /\ MaxGroups \in Nat /\ MaxRoutes \in Nat
  /\ MaxGlobals \in Nat /\ MaxSpare \in Nat

VARIABLES
  heap,     \* the arrays behind the slices; their length is the capacity
  groups,   \* the router and the groups: prefix, slice; what was declared
  routes,   \* path |-> route: method, chain; what was declared
  globals,  \* middlewares of the server, outermost first
  failed    \* why registration panicked

vars == <<heap, groups, routes, globals, failed>>

---------------------------------------------------------------------------
(* Slices.                                                                 *)

View(slice) == SubSeq(heap[slice.array], 1, slice.len)
Cells(n)    == [i \in 1..n |-> Nil]

(* The capacities append may give to a new array of needed cells, when the *)
(* old one had cap.  A middleware takes 16 bytes, and the size classes of  *)
(* the runtime are 16 bytes apart up to 16 cells, 32 bytes up to 32; an    *)
(* array of more may be rounded up, and from 256 cells on does not double. *)
Exact == 16

NewCaps(cap, needed) ==
  LET cells == IF needed > 2 * cap THEN needed ELSE 2 * cap
  IN  IF needed <= Exact THEN {cells}
      ELSE (IF cap < 256 THEN cells ELSE needed) .. cells + MaxSpare

Needed(slice, xs) == slice.len + Len(xs)

(* append(slice, xs...): in place if the array has room, else in a new one *)
(* of cap cells.                                                           *)
Extend(slice, xs, cap) ==
  LET needed == Needed(slice, xs)
      Write(cells) == [i \in DOMAIN cells |-> IF i \in slice.len + 1 .. needed
                                             THEN xs[i - slice.len] ELSE cells[i]]
  IN  IF needed <= Len(heap[slice.array])
      THEN [heap  |-> [heap EXCEPT ![slice.array] = Write(@)],
            slice |-> [slice EXCEPT !.len = needed]]
      ELSE [heap  |-> Append(heap, Write(View(slice) \o Cells(cap - slice.len))),
            slice |-> [array |-> Len(heap) + 1, len |-> needed]]

(* Mutant: the router's slice is made with room to grow.                   *)
NewRouter_Room == [cells |-> Cells(4), len |-> 0]

(* Mutant: the router's slice is made with a length.                       *)
NewRouter_Nil == [cells |-> Cells(1), len |-> 1]

NewRouter == [cells |-> Cells(0), len |-> 0]

---------------------------------------------------------------------------
(* Answering a request.  An answer is what has been written to the         *)
(* ResponseWriter when a handler is through: the first status is sent, the *)
(* last one is what a responseWriter remembers.                            *)

Answer(status) == [written |-> <<status>>, panics |-> FALSE, slow |-> FALSE, logged |-> {}]

Handler(does) ==
  [written |-> IF does \in {"answers", "answersThenPanics"} THEN <<200>> ELSE <<>>,
   panics  |-> does \in {"panics", "answersThenPanics"},
   slow    |-> does = "tooSlow",
   logged  |-> {}]

CORS(method, next) == IF method = "OPTIONS" THEN Answer(204) ELSE next

(* Mutant: the status is not passed on to the logging.                     *)
RequestLogging_Unset(next) ==
  IF next.panics THEN next ELSE [next EXCEPT !.logged = @ \cup {200}]

(* No line is logged when a panic passes by.                               *)
RequestLogging(next) ==
  IF next.panics THEN next
  ELSE [next EXCEPT !.logged = @ \cup
          {IF next.written = <<>> THEN 200 ELSE Last(next.written)}]

(* Mutant: the panic is answered and goes on.                              *)
Recovery_Rethrows(next) ==
  IF next.panics THEN [next EXCEPT !.written = Append(@, 500)] ELSE next

Recovery(next) ==
  IF next.panics THEN [next EXCEPT !.written = Append(@, 500), !.panics = FALSE] ELSE next

(* http.TimeoutHandler buffers; what it gives up on still runs and logs.   *)
Timeout(next) ==
  IF next.slow THEN [Answer(503) EXCEPT !.logged = next.logged]
  ELSE IF next.panics THEN [next EXCEPT !.written = <<>>]
  ELSE [next EXCEPT !.written = SubSeq(@, 1, 1)]

Handle(kind, method, next) ==
  CASE kind = "cors"     -> CORS(method, next)
    [] kind = "logging"  -> RequestLogging(next)
    [] kind = "recovery" -> Recovery(next)
    [] kind = "timeout"  -> Timeout(next)
    [] OTHER             -> next

Through(chain, method, inner) ==
  FoldRight(LAMBDA kind, next : Handle(kind, method, next), chain, inner)

(* Mutant: GET is checked like any other method.                           *)
methodCheck_Always(wanted, method, next) ==
  IF method # wanted THEN Answer(405) ELSE next

(* A GET route answers every method.                                       *)
methodCheck(wanted, method, next) ==
  IF wanted # "GET" /\ method # wanted THEN Answer(405) ELSE next

(* The mux finds no route.                                                 *)
NotFound == Answer(404)

Serve(path, method, does) ==
  Through(globals, method,
    IF path \notin DOMAIN routes THEN NotFound
    ELSE methodCheck(routes[path].method, method,
           Through(routes[path].chain, method, Handler(does))))

(* A panic that leaves the outermost handler aborts the response.          *)
Sent(answer) == IF answer.panics THEN 0
                ELSE IF answer.written = <<>> THEN 200 ELSE Head(answer.written)

---------------------------------------------------------------------------
(* createRouter wraps the mux of example-service: Alt-Svc outermost, then  *)
(* logging, then CORS if the configuration has it.                         *)
createRouter(corsEnabled) ==
  IF corsEnabled THEN <<"altsvc", "logging", "cors">> ELSE <<"altsvc", "logging">>

Init ==
  /\ heap = <<NewRouter.cells>>
  /\ groups = <<[prefix |-> <<>>, slice |-> [array |-> 1, len |-> NewRouter.len],
                 declared |-> <<>>, depth |-> 0]>>
  /\ routes = [p \in {} |-> <<>>]
  /\ globals \in {<<>>, createRouter(TRUE), createRouter(FALSE)}
  /\ failed = "no"

(* Router.Group and RouterGroup.Group.                                     *)
Group(g, prefix, ms) ==
  /\ failed = "no"
  /\ Len(groups) < MaxGroups
  /\ \E cap \in NewCaps(Len(heap[groups[g].slice.array]), Needed(groups[g].slice, ms)) :
       LET extended == Extend(groups[g].slice, ms, cap) IN
         /\ heap' = extended.heap
         /\ groups' = Append(groups,
              [prefix   |-> groups[g].prefix \o prefix,
               slice    |-> extended.slice,
               declared |-> groups[g].declared \o ms,
               depth    |-> groups[g].depth + 1])
  /\ UNCHANGED <<routes, globals, failed>>

(* Mutant: the loops run forwards, the last middleware is outermost.       *)
wrapHandler_Forwards(ms) == Reverse(ms)

(* Wrapped from the last to the first, so the first is outermost; the      *)
(* router has no middlewares of its own.                                   *)
wrapHandler(ms) == ms

Route(method, ms, declared, depth) ==
  [method |-> method, chain |-> wrapHandler(ms), declared |-> declared, depth |-> depth]

(* Router.Register (g = 1) and RouterGroup.Register.  The list appended to *)
(* is used up with the array that append made for it, if it made one; an   *)
(* array it shares keeps what append wrote.  A timeout is no               *)
(* http.HandlerFunc, and the mux refuses a path it has: both panic.        *)
Register(g, method, path, ms) ==
  LET all  == Extend(groups[g].slice, ms, Needed(groups[g].slice, ms))
      list == SubSeq(all.heap[all.slice.array], 1, all.slice.len)
      full == groups[g].prefix \o path
  IN  /\ failed = "no"
      /\ Cardinality(DOMAIN routes \cup {full}) <= MaxRoutes
      /\ heap' = IF g = 1 THEN heap ELSE SubSeq(all.heap, 1, Len(heap))
      /\ failed' = IF "timeout" \in ToSet(list) THEN "timeout"
                   ELSE IF full \in DOMAIN routes THEN "duplicate" ELSE "no"
      /\ routes' = IF failed' # "no" THEN routes
                   ELSE [p \in DOMAIN routes \cup {full} |->
                          IF p = full
                          THEN Route(method, list, groups[g].declared \o ms, groups[g].depth)
                          ELSE routes[p]]
      /\ UNCHANGED <<groups, globals>>

HealthPaths == {<<"health">>, <<"ready">>, <<"live">>}

(* Registry.RegisterAll with HealthRoutes.                                 *)
RegisterHealth ==
  /\ failed = "no"
  /\ HealthPaths \cap DOMAIN routes = {}
  /\ routes' = [p \in DOMAIN routes \cup HealthPaths |->
                 IF p \in HealthPaths THEN Route("GET", <<>>, <<>>, 0) ELSE routes[p]]
  /\ UNCHANGED <<heap, groups, globals, failed>>

(* ... and with APIRoutes: the users are registered for GET and for POST,  *)
(* and the mux panics at the second.                                       *)
APIPaths == {<<"api", "v1", "example">>, <<"api", "v1", "users">>}

RegisterAPI ==
  /\ failed = "no"
  /\ APIPaths \cap DOMAIN routes = {}
  /\ failed' = "duplicate"
  /\ routes' = [p \in DOMAIN routes \cup APIPaths |->
                 IF p \in APIPaths THEN Route("GET", <<>>, <<>>, 1) ELSE routes[p]]
  /\ UNCHANGED <<heap, groups, globals>>

(* ServerBuilder.WithMiddleware; Build wraps like wrapHandler.             *)
WithMiddleware(kind) ==
  /\ failed = "no"
  /\ Len(globals) < MaxGlobals
  /\ globals' = Append(globals, kind)
  /\ UNCHANGED <<heap, groups, routes, failed>>

Next ==
  \/ \E g \in DOMAIN groups, p \in GroupPrefixes, ms \in Arguments : Group(g, p, ms)
  \/ \E g \in DOMAIN groups, m \in {"GET", "POST"}, p \in RoutePaths, ms \in Arguments :
       Register(g, m, p, ms)
  \/ RegisterHealth
  \/ RegisterAPI
  \/ \E kind \in Kinds : WithMiddleware(kind)

Spec == Init /\ [][Next]_vars

---------------------------------------------------------------------------
(* The types; a slice lies within its array, and no middleware is nil (the *)
(* next Register would call it).                                           *)
TypeOK ==
  /\ \A a \in DOMAIN heap : heap[a] \in Seq(Kinds \cup {Nil})
  /\ \A g \in DOMAIN groups :
       LET slice == groups[g].slice IN
         /\ slice.array \in DOMAIN heap
         /\ slice.len \in 0..Len(heap[slice.array])
         /\ Nil \notin ToSet(View(slice))
         /\ groups[g].declared \in Seq(Kinds)
         /\ groups[g].depth \in 0..MaxGroups
  /\ \A p \in DOMAIN routes :
       routes[p].chain \in Seq(Kinds) /\ routes[p].method \in {"GET", "POST"}
  /\ globals \in Seq(Kinds)
  /\ failed \in {"no", "timeout", "duplicate"}

(* The middlewares of the router, of its groups and of their groups are    *)
(* those declared, whatever else was appended to the slices they share an  *)
(* array with: Router.Group makes a full array for up to Exact             *)
(* middlewares, so append has to copy it.  Behind more of them, and one    *)
(* level further down, they may be overwritten, by a sibling or by a route *)
(* of the parent (router.go:40, 90, 101).                                  *)
Shallow(x) == x.depth <= 1 \/ (x.depth = 2 /\ Len(x.declared) <= Exact)

ShallowGroupsIntact ==
  \A g \in DOMAIN groups : Shallow(groups[g]) => View(groups[g].slice) = groups[g].declared

(* A route runs the middlewares of its groups and its own in the order     *)
(* they were declared in.                                                  *)
RoutesAsDeclared == \A p \in DOMAIN routes : Shallow(routes[p]) => routes[p].chain = routes[p].declared

(* A preflight request is answered with 204 if the server handles CORS, or *)
(* the route does and is a GET route.  (The method check of any other      *)
(* route is in front of its middlewares, line 28, and answers 405.)        *)
PreflightAnswered ==
  \A p \in DOMAIN routes, does \in Behaviours :
    \/ "cors" \in ToSet(globals)
    \/ Shallow(routes[p]) /\ "cors" \in ToSet(routes[p].declared) /\ routes[p].method = "GET"
    => Sent(Serve(p, "OPTIONS", does)) = 204

(* A panic of a handler ends at a recovery, wherever in the chain it is:   *)
(* the client gets an answer.                                              *)
PanicsContained ==
  \A p \in DOMAIN routes, method \in Methods, does \in Behaviours :
    \/ "recovery" \in ToSet(globals)
    \/ Shallow(routes[p]) /\ "recovery" \in ToSet(routes[p].declared)
    => ~Serve(p, method, does).panics

(* What is logged is what was sent.  It is not when a handler panics after *)
(* it has answered (Recovery tries a second status) or exceeds a timeout.  *)
LogsTellTheTruth ==
  \A p \in DOMAIN routes, method \in Methods, does \in {"answers", "panics"} :
    LET answer == Serve(p, method, does)
    IN  ~answer.panics => answer.logged \subseteq {Sent(answer)}
=============================================================================
