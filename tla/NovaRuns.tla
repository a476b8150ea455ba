------------------------------ MODULE NovaRuns ------------------------------
(***************************************************************************)
(* What a Nova body does when it runs, written down independently of the   *)
(* analyses of NovaFlow, and what their diagnostics promise about it.  A   *)
(* run is a walk over positions; a condition that is not a proven constant *)
(* may come out either way.                                                *)
(***************************************************************************)
EXTENDS NovaFlow

Loop(v, i) == LET ws == {o \in v.around[i] : Kind(v, o) = "while"} IN
              IF ws = {} THEN 0 ELSE CHOOSE w \in ws : \A u \in ws : u <= w

\* Where control goes when the arm h has run: behind its whole chain.
RECURSIVE Behind(_, _)
Behind(v, h) == IF Otherwise(v, h) = 0 THEN v.close[h] + 1 ELSE Behind(v, Otherwise(v, h))

Tested(v, h, skip) ==
  (IF Cond(v, h) # "F" THEN {h + 1} ELSE {}) \cup (IF Cond(v, h) # "T" THEN {skip} ELSE {})

\* The positions that may follow i; v.n + 1 is the end of the function.
\* selfReturns: whether a call of the function itself ever comes back.
Successors(v, i, selfReturns) ==
  CASE Kind(v, i) \in Returns \cup {"never"} -> {}
    [] Kind(v, i) = "self" -> IF selfReturns THEN {i + 1} ELSE {}
    [] Kind(v, i) = "break" -> {IF Loop(v, i) = 0 THEN i + 1 ELSE v.close[Loop(v, i)] + 1}
    [] Kind(v, i) = "continue" -> {IF Loop(v, i) = 0 THEN i + 1 ELSE Loop(v, i)}
    [] Kind(v, i) \in {"if", "elif", "while"} -> Tested(v, i, v.close[i] + 1)
    [] Kind(v, i) = "end" ->
         {IF Kind(v, v.up[i]) = "while" THEN v.up[i] ELSE Behind(v, v.up[i])}
    [] Kind(v, i) = "none" -> {}
    [] OTHER -> {i + 1}

Steps(v, selfReturns) == [i \in 1 .. v.n + 1 |-> Successors(v, i, selfReturns)]

\* The least set that holds `from` and is closed under Next(_).
RECURSIVE Closure(_, _)
Closure(next, from) ==
  LET more == from \cup UNION {next[i] : i \in from} IN
  IF more = from THEN from ELSE Closure(next, more)

ExecutedIf(v, selfReturns) == Closure(Steps(v, selfReturns), {1})

CanReturn(v, runs) == v.n + 1 \in runs \/ \E i \in runs : Kind(v, i) \in Returns

SelfReturns(v) == CanReturn(v, ExecutedIf(v, FALSE))
Executed(v) == ExecutedIf(v, SelfReturns(v))

\* The positions some run reaches with the local still unassigned.
ExecutedUnassigned(v) ==
  LET next == Steps(v, SelfReturns(v)) IN
  Closure([i \in 1 .. v.n + 1 |-> IF Kind(v, i) = "set" THEN {} ELSE next[i]], {1})

\* What a run does, statement by statement, headers, braces and
\* loop control outside any loop left out: which
\* statement may follow which (0: the start, v.n + 1: the end of the function).
Visible(v, i) ==
  i = v.n + 1 \/ (Kind(v, i) \in Statements /\ i \notin InvalidLoopControls(v))
Silent(v, next) == [i \in 1 .. v.n + 1 |-> IF Visible(v, i) THEN {} ELSE next[i]]

OrderOf(v, next, silent) ==
  LET after(s) == {j \in Closure(silent, s) : Visible(v, j)} IN
  {<<0, j>> : j \in after({1})}
  \cup UNION {{<<i, j>> : j \in after(next[i])} : i \in {i \in Executed(v) : Visible(v, i)}}

OrderFrom(v, next) == OrderOf(v, next, Silent(v, next))
Order(v) == OrderFrom(v, Steps(v, SelfReturns(v)))

Spans(code) == {<<d.from, d.to>> : d \in {e \in diagnostics : e.code = code}}
Flagged(code, i) == \E s \in Spans(code) : Covers(s, <<i, i>>)

(***************************************************************************)
(* Properties.                                                             *)
(***************************************************************************)
\* No statement faded as unreachable, and offered for removal, is ever executed
\* (nova-control-flow-conditions.md; nested_unreachable.py).
NeverRuns(v) == \A i \in Executed(v) : ~Flagged("unreachable-code", i)
UnreachableNeverRuns == Balanced(body) => NeverRuns(View(body))

\* A function with a value result runs off its end only if the missing return
\* is reported (_body_guarantees_value_return: "every fallthrough path").
FallsThrough(v) == v.n + 1 \in Executed(v)
FallsThroughOnlyIfReported ==
  Balanced(body) /\ result = "Int" /\ FallsThrough(View(body)) => Spans("missing-return") # {}

\* A read that some run executes before any assignment is reported
\* (_nova_reads_before_first_assignment and the join proofs under it).
ReportsUnassigned(v) ==
  \A i \in ExecutedUnassigned(v) : Kind(v, i) = "get" => Flagged("uninitialized-read", i)
UnassignedReadsReported == Balanced(body) => ReportsUnassigned(View(body))

\* The result inferred for an unannotated function is what every return that
\* runs returns (_bounded_function_return_type and its overrides).
Holds(inferred, v) ==
  \A i \in Executed(v) :
    /\ inferred = "Unit" => Kind(v, i) # "value"
    /\ inferred = "Int" => Kind(v, i) # "return"
InferredHolds(v) == Holds(InferredResult(v), v)
InferredResultHolds == Balanced(body) => InferredHolds(View(body))

\* Applying a repair deletes text and changes nothing the function does: the
\* statements left follow one another as they did.
Kept(s, i) == IF i < s[1] THEN i ELSE i + (s[2] - s[1] + 1)
SameOrder(s, before, after) == before = {<<Kept(s, e[1]), Kept(s, e[2])>> : e \in after}
RepairsPreserveRuns ==
  Balanced(body) => \A d \in diagnostics : \A s \in Offered(d) :
    SameOrder(s, Order(View(body)), Order(View(Without(body, s))))
=============================================================================
