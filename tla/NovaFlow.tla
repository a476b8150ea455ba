------------------------------ MODULE NovaFlow ------------------------------
(***************************************************************************)
(* Control flow of one Nova function as the final product analyses it: the *)
(* constant-condition proofs (constant_control_flow.py), the return and    *)
(* termination proofs (return_types.py, condition_diagnostics.py), the     *)
(* unreachable regions (nested_unreachable.py,                             *)
(* constant_condition_diagnostics.py), definite initialization             *)
(* (local_declaration_diagnostics.py, loop_exit_initialization.py), loop   *)
(* control, inferred results, and the repairs offered for them.            *)
(*                                                                         *)
(* A body is a sequence of tokens.  A header token stands for the keyword, *)
(* its condition and the opening brace; of a condition only the value      *)
(* bounded_boolean_constant_value proves is kept: "T", "F" or "U".  The    *)
(* source scans braces and keywords of text at one brace depth; here a     *)
(* position of the body stands for an offset and `up` for the brace that   *)
(* encloses it.  One local `var x: Int;` is declared ahead of the body.    *)
(***************************************************************************)
EXTENDS Integers, Sequences, FiniteSets

CONSTANT Families         \* [tokens, results, length, depth]: what a program is typed
                          \* with, its annotation, bounds on its length and nesting

VARIABLES family,         \* the family of this program
          result,         \* the function's annotation: "Int" or "none"
          body,           \* the text between the braces of the function
          buffer,         \* "open" in the editor, or "closed": a file of the workspace
          diagnostics     \* the published diagnostics of the document

vars == <<family, result, body, buffer, diagnostics>>

Tok(kind, cond) == [k |-> kind, c |-> cond]
Stmt(kind) == Tok(kind, "U")
EndTok == Stmt("end")

Branches == {"if", "elif", "else"}
Openings == Branches \cup {"while"}
Returns == {"return", "value"}
LoopControls == {"break", "continue"}
Statements == Returns \cup LoopControls \cup {"self", "never", "set", "get", "do"}

(***************************************************************************)
(* The braces.  Stacks[i] holds the openings unclosed before position i,   *)
(* innermost last; a closing brace belongs to the block it closes.         *)
(***************************************************************************)
Stacks(p) ==
  LET st[i \in 1 .. Len(p) + 1] ==
        IF i = 1 THEN <<>>
        ELSE LET s == st[i - 1] IN
             CASE p[i - 1].k \in Openings -> Append(s, i - 1)
               [] p[i - 1].k = "end" /\ s # <<>> -> SubSeq(s, 1, Len(s) - 1)
               [] OTHER -> s
  IN [i \in 1 .. Len(p) + 1 |-> st[i]]

Balanced(p) == Stacks(p)[Len(p) + 1] = <<>>

\* What every analysis below reads: the tokens, the opening brace around each
\* (0: the function's), all the braces around each, and each block's close.
Structured(p, st, up) ==
  LET n == Len(p)
      ends(o) == {i \in 1 .. n : p[i].k = "end" /\ up[i] = o /\ o > 0} \cup {n + 1}
  IN [tok |-> p, n |-> n, up |-> up,
      open |-> IF st[n + 1] = <<>> THEN 0 ELSE st[n + 1][Len(st[n + 1])],
      around |-> [i \in 1 .. n |-> {st[i][d] : d \in 1 .. Len(st[i])}],
      close |-> [o \in 0 .. n |-> CHOOSE i \in ends(o) : \A j \in ends(o) : i <= j]]

Innermost(st) == [i \in DOMAIN st |-> IF st[i] = <<>> THEN 0 ELSE st[i][Len(st[i])]]

View(p) == Structured(p, Stacks(p), Innermost(Stacks(p)))

Children(v, o) == {i \in 1 .. v.n : v.up[i] = o /\ v.tok[i].k # "end"}
Kind(v, i) == IF i \in 1 .. v.n THEN v.tok[i].k ELSE "none"
Cond(v, i) == v.tok[i].c

\* The brace that ends the function closes the innermost block left open.
Closed(v, h) == v.close[h] <= v.n \/ h = v.open

\* The `else` or `else if` that follows block h, or 0.
Otherwise(v, h) ==
  IF Kind(v, v.close[h] + 1) \in {"elif", "else"} THEN v.close[h] + 1 ELSE 0

\* The arms of h's chain that precede it.
RECURSIVE Prior(_, _)
Prior(v, h) ==
  IF Kind(v, h) \notin {"elif", "else"} THEN {}
  ELSE LET p == v.up[h - 1] IN {p} \cup Prior(v, p)

(***************************************************************************)
(* constant_control_flow.py                                                *)
(***************************************************************************)
\* Fault: an arm behind an unknown condition is taken for dead.
DeadArmUnknown(v, h) ==
  \/ Kind(v, h) \in {"if", "elif"} /\ Cond(v, h) = "F"
  \/ Kind(v, h) \in {"elif", "else"} /\ \E p \in Prior(v, h) : Cond(v, p) # "F"

DeadArm(v, h) ==
  \/ Kind(v, h) \in {"if", "elif"} /\ Cond(v, h) = "F"
  \/ Kind(v, h) \in {"elif", "else"} /\ \E p \in Prior(v, h) : Cond(v, p) = "T"

\* A break of the loop w itself, outside the branches of its body proven dead.
\* Fault: only a break directly in the loop's body counts.
ReachableBreakDirect(v, w) ==
  \E b \in Children(v, w) : Kind(v, b) = "break"

ReachableBreak(v, w) ==
  \E b \in 1 .. v.n :
    /\ Kind(v, b) = "break"
    /\ w \in v.around[b]
    /\ \A o \in v.around[b] : w \in v.around[o] =>
         Kind(v, o) # "while" /\ ~(Kind(v, o) \in Branches /\ DeadArm(v, o))

NonFallthroughWhile(v, w) ==
  Kind(v, w) = "while" /\ Cond(v, w) = "T" /\ ~ReachableBreak(v, w)

UnreachableSuffix(v, i) ==
  \E w \in 1 .. i - 1 :
    /\ NonFallthroughWhile(v, w)
    /\ v.close[w] < i
    /\ v.close[w] < v.close[v.up[w]] /\ i < v.close[v.up[w]]

(***************************************************************************)
(* return_types.py                                                         *)
(***************************************************************************)
\* One if statement closes the join when every arm that may run does.
\* Fault: one arm that closes the join is enough.
JoinEither(cond, then, else) ==
  CASE cond = "T" -> then [] cond = "F" -> else [] OTHER -> then \/ else

Join(cond, then, else) ==
  CASE cond = "T" -> then [] cond = "F" -> else [] OTHER -> then /\ else

Within(v, o) == {i \in 1 .. v.n : o = 0 \/ o \in v.around[i]}

HasBareReturn(v, o) == \E i \in Within(v, o) : Kind(v, i) = "return"

\* r: the function is being resolved already.
RECURSIVE NeverCalls(_, _, _), SelfNeverReturns(_, _), GuaranteesValue(_, _, _),
          IfGuaranteesValue(_, _, _)
NeverCalls(v, o, r) ==
  {i \in Children(v, o) :
     Kind(v, i) = "never" \/ (Kind(v, i) = "self" /\ SelfNeverReturns(v, r))}

SelfNeverReturns(v, r) ==
  /\ ~r
  /\ result = "none"
  /\ \A i \in 1 .. v.n : Kind(v, i) \notin Returns
  /\ GuaranteesValue(v, 0, TRUE)

GuaranteesValue(v, o, r) ==
  \/ \E i \in Children(v, o) :
       \/ Kind(v, i) = "value"
       \/ Kind(v, i) \in {"if", "elif"} /\ IfGuaranteesValue(v, i, r)
       \/ NonFallthroughWhile(v, i)
  \/ ~HasBareReturn(v, o) /\ NeverCalls(v, o, r) # {}

IfGuaranteesValue(v, h, r) ==
  LET e == Otherwise(v, h) IN
  Join(Cond(v, h), GuaranteesValue(v, h, r),
       e # 0 /\ IF Kind(v, e) = "else" THEN GuaranteesValue(v, e, r)
                                       ELSE IfGuaranteesValue(v, e, r))

(***************************************************************************)
(* condition_diagnostics.py                                                *)
(***************************************************************************)
RECURSIVE ReturnsOnly(_, _), IfReturnsOnly(_, _)
ReturnsOnly(v, o) ==
  \E i \in Children(v, o) :
    Kind(v, i) \in Returns \/ (Kind(v, i) \in {"if", "elif"} /\ IfReturnsOnly(v, i))

IfReturnsOnly(v, h) ==
  LET e == Otherwise(v, h) IN
  Join(Cond(v, h), ReturnsOnly(v, h),
       e # 0 /\ IF Kind(v, e) = "else" THEN ReturnsOnly(v, e) ELSE IfReturnsOnly(v, e))

RECURSIVE Terminates(_, _), IfTerminates(_, _)
Terminates(v, o) ==
  \/ \E i \in Children(v, o) :
       \/ Kind(v, i) \in Returns
       \/ Kind(v, i) \in {"if", "elif"} /\ IfTerminates(v, i)
       \/ NonFallthroughWhile(v, i)
  \/ NeverCalls(v, o, FALSE) # {}

IfTerminates(v, h) ==
  LET e == Otherwise(v, h) IN
  Join(Cond(v, h), Terminates(v, h),
       e # 0 /\ IF Kind(v, e) = "else" THEN Terminates(v, e) ELSE IfTerminates(v, e))

\* The last position of an if statement, or 0 when it has no final arm.
RECURSIVE IfEnd(_, _)
IfEnd(v, h) ==
  LET e == Otherwise(v, h) IN
  CASE e # 0 /\ Kind(v, e) = "else" -> v.close[e]
    [] e # 0 /\ Kind(v, e) = "elif" -> IfEnd(v, e)
    [] OTHER -> IF Cond(v, h) = "T" THEN v.close[h] ELSE 0

\* The first statement of block o that control does not pass, as <<first, last>>
\* positions.
Candidates(v, o) ==
  {<<i, i>> : i \in {j \in Children(v, o) : Kind(v, j) \in Returns}}
  \cup {<<i, IfEnd(v, i)>> : i \in {j \in Children(v, o) :
          /\ Kind(v, j) \in {"if", "elif"}
          /\ IfReturnsOnly(v, j) \/ IfTerminates(v, j)
          /\ IfEnd(v, j) # 0}}
  \cup {<<i, v.close[i]>> : i \in {j \in Children(v, o) : NonFallthroughWhile(v, j)}}
  \cup {<<i, i>> : i \in NeverCalls(v, o, FALSE)}

Earliest(cs) == IF cs = {} THEN <<>> ELSE CHOOSE c \in cs : \A d \in cs : c[1] <= d[1]

FirstTermination(v, o) == Earliest(Candidates(v, o))

(***************************************************************************)
(* nested_unreachable.py                                                   *)
(***************************************************************************)
FirstLoopControl(v, o) ==
  Earliest({<<i, i>> : i \in {j \in Children(v, o) : Kind(v, j) \in LoopControls}})

\* Where block o stops, given its first termination t and loop control b.
Stop(v, o, t, b) ==
  IF b # <<>> /\ (t = <<>> \/ b[2] < t[2]) THEN b[2]
  ELSE IF t # <<>> THEN t[2] ELSE v.close[o] - 1

RECURSIVE Regions(_, _, _), RegionsFrom(_, _, _, _)
RegionsFrom(v, o, inLoop, stop) ==
  {s \in {<<stop + 1, v.close[o] - 1>>} : s[1] <= s[2]}
  \cup UNION {Regions(v, h, inLoop \/ Kind(v, h) = "while") :
                h \in {g \in Children(v, o) : Kind(v, g) \in Openings /\ v.close[g] <= stop}}

Regions(v, o, inLoop) ==
  RegionsFrom(v, o, inLoop, Stop(v, o, FirstTermination(v, o),
                                 IF inLoop THEN FirstLoopControl(v, o) ELSE <<>>))

(***************************************************************************)
(* constant_condition_diagnostics.py                                       *)
(***************************************************************************)
DeadBodies(v) ==
  LET conditions == {h \in 1 .. v.n : Kind(v, h) \in {"if", "elif", "while"} /\ Closed(v, h)}
      inside(h) == <<h + 1, v.close[h] - 1>>
      dead == {inside(h) : h \in {g \in conditions : Cond(v, g) = "F"}}
              \cup {inside(Otherwise(v, h)) : h \in {g \in conditions :
                      /\ Kind(v, g) # "while" /\ Cond(v, g) = "T"
                      /\ Kind(v, v.close[g] + 1) = "else" /\ Closed(v, v.close[g] + 1)}}
  IN {s \in dead : s[1] <= s[2]}

Covers(s, t) == s[1] <= t[1] /\ t[2] <= s[2]

MergeUnreachable(structural, constant) ==
  {s \in structural \cup constant :
     \A t \in structural \cup constant : Covers(t, s) => s = t}

(***************************************************************************)
(* loop_control.py and local_declaration_diagnostics.py                    *)
(***************************************************************************)
InvalidLoopControls(v) ==
  {i \in 1 .. v.n : Kind(v, i) \in LoopControls
                    /\ \A o \in v.around[i] : Kind(v, o) # "while"}

InsideWhile(v, b) == \E o \in v.around[b] \cup {b} : Kind(v, o) = "while"

ScopeTerminates(v, b) ==
  \E i \in Children(v, b) :
    \/ Kind(v, i) \in Returns
    \/ NonFallthroughWhile(v, i)
    \/ i \in NeverCalls(v, b, FALSE)

LoopScopeTerminates(v, b) ==
  \/ ScopeTerminates(v, b)
  \/ InsideWhile(v, b) /\ \E i \in Children(v, b) : Kind(v, i) \in LoopControls

\* `before`: only what ends ahead of this position counts.
RECURSIVE ScopeAssigned(_, _), ChainInitializes(_, _, _), ArmsAssign(_, _, _, _)
ScopeAssigned(v, b) ==
  \/ \E i \in Children(v, b) : Kind(v, i) = "set"
  \/ LoopScopeTerminates(v, b)
  \/ ChainInitializes(v, b, v.close[b])

ChainInitializes(v, o, before) ==
  \E h \in Children(v, o) :
    /\ Kind(v, h) = "if" /\ v.close[h] < before
    /\ IF Cond(v, h) = "T" THEN ScopeAssigned(v, h)
       ELSE ArmsAssign(v, Otherwise(v, h), before, Cond(v, h) = "F" \/ ScopeAssigned(v, h))

ArmsAssign(v, e, before, all) ==
  /\ e # 0 /\ v.close[e] < before
  /\ CASE Kind(v, e) = "else" \/ Cond(v, e) = "T" -> all /\ ScopeAssigned(v, e)
       [] Cond(v, e) = "F" -> ArmsAssign(v, Otherwise(v, e), before, all)
       [] OTHER -> ArmsAssign(v, Otherwise(v, e), before, all /\ ScopeAssigned(v, e))

\* Fault: an assignment anywhere ahead of the read counts.
DefinitelyInitializedByOrder(v, i) == \E j \in 1 .. i - 1 : Kind(v, j) = "set"

DefinitelyInitialized(v, i) ==
  \/ \E j \in 1 .. i - 1 : Kind(v, j) = "set" /\ v.up[j] \in v.around[i] \cup {0}
  \/ ChainInitializes(v, v.up[i], i)

UninitializedReads(v) ==
  {i \in 1 .. v.n : Kind(v, i) = "get" /\ ~DefinitelyInitialized(v, i)}

(***************************************************************************)
(* Inferred results (inferred_function_returns.py,                         *)
(* semantic_return_reachability.py, unit_return_inference.py).             *)
(***************************************************************************)
ProvenReachableReturns(v) ==
  {i \in 1 .. v.n : /\ Kind(v, i) \in Returns
                    /\ \A o \in v.around[i] : Kind(v, o) \in Branches => ~DeadArm(v, o)
                    /\ ~UnreachableSuffix(v, i)}

SemanticReachableReturns(v) ==
  {i \in ProvenReachableReturns(v) : \A s \in Regions(v, 0, FALSE) : ~Covers(s, <<i, i>>)}

InferredFrom(kinds) ==
  CASE kinds = {"return"} -> "Unit" [] kinds = {"value"} -> "Int" [] OTHER -> "unknown"

InferredResult(v) == InferredFrom({Kind(v, i) : i \in SemanticReachableReturns(v)})

(***************************************************************************)
(* Publication: every didOpen and didChange analyses the whole document,   *)
(* and so does the rescan of a file that is closed or changed on disk.     *)
(* An unclosed function has no body to analyse as a function.              *)
(***************************************************************************)
Diagnostic(code, s) == [code |-> code, from |-> s[1], to |-> s[2]]

ReturnDiagnostics(v) ==
  IF result = "Int" /\ ~GuaranteesValue(v, 0, FALSE)
  THEN {Diagnostic("missing-return", <<0, 0>>)} ELSE {}

\* Constant dead bodies are looked for in the whole text.
DiagnosticsOf(v) ==
  {Diagnostic("unreachable-code", s) :
     s \in MergeUnreachable(IF v.open = 0 THEN Regions(v, 0, FALSE) ELSE {}, DeadBodies(v))}
  \cup (IF v.open # 0 THEN {}
        ELSE {Diagnostic("invalid-loop-control", <<i, i>>) : i \in InvalidLoopControls(v)}
             \cup {Diagnostic("uninitialized-read", <<i, i>>) : i \in UninitializedReads(v)}
             \cup ReturnDiagnostics(v))

Diagnose(p) == DiagnosticsOf(View(p))

\* A closed file is analysed from its snapshot alone, without loop control.
Shown(ds, b) == {d \in ds : b = "open" \/ d.code # "invalid-loop-control"}

Publish(p, b) ==
  /\ body' = p /\ buffer' = b
  /\ diagnostics' = Shown(Diagnose(p), b)
  /\ UNCHANGED <<family, result>>

(***************************************************************************)
(* The repairs offered for a diagnostic, as the spans they delete          *)
(* (unreachable_actions.py, constant_branch_actions.py, loop_control.py).  *)
(***************************************************************************)
ConstantBranchRepair(v, s) ==
  LET inside(h) == <<h + 1, v.close[h] - 1>>
      isCondition(h) == Kind(v, h) \in {"if", "elif", "while"}
  IN {<<h, v.close[h]>> : h \in {g \in 1 .. v.n :
         /\ isCondition(g) /\ Cond(v, g) = "F" /\ inside(g) = s
         /\ Kind(v, g) = "while" \/ (Kind(v, g) = "if" /\ Otherwise(v, g) = 0)}}
     \cup {<<h, v.close[h]>> : h \in {g \in 1 .. v.n :
         /\ Kind(v, g) = "else" /\ inside(g) = s
         /\ \E p \in Prior(v, g) : v.close[p] + 1 = g /\ Cond(v, p) = "T"}}

\* Fault: the edit takes the statement before the diagnosed code with it.
RepairsFromTerminator(v, d) ==
  IF d.code = "unreachable-code" THEN {<<d.from - 1, d.to>>} ELSE {}

Repairs(v, d) ==
  LET s == <<d.from, d.to>> IN
  CASE d.code = "unreachable-code" -> {s} \cup ConstantBranchRepair(v, s)
    [] d.code = "invalid-loop-control" -> {s}
    [] OTHER -> {}

\* Of a closed file only the region itself is offered for removal.
ClosedRepairs(d) ==
  IF d.code = "unreachable-code" THEN {<<d.from, d.to>>} ELSE {}

Without(p, s) == SubSeq(p, 1, s[1] - 1) \o SubSeq(p, s[2] + 1, Len(p))

(***************************************************************************)
(* The editor types the next token, applies a repair, or starts again.     *)
(* An else arm follows an arm with a condition; what a program repeats at  *)
(* once, or writes behind two jumps, shows nothing new.                    *)
(***************************************************************************)
Last(p) == IF p = <<>> THEN Tok("none", "U") ELSE p[Len(p)]

ClosesArm(p) ==
  Last(p) = EndTok /\ p[Innermost(Stacks(p))[Len(p)]].k \in {"if", "elif"}

Jumps == Returns \cup LoopControls \cup {"never"}

Depth(p) == Cardinality({i \in 1 .. Len(p) : p[i].k \in Openings})
            - Cardinality({i \in 1 .. Len(p) : p[i].k = "end"})

Fits(p, t) ==
  /\ t.k \in Statements => Last(p) # t
  /\ ~(t.k \in Jumps /\ Last(p).k \in Jumps)
  /\ t.k \in Openings => Depth(p) < family.depth /\ Len(p) + Depth(p) + 2 <= family.length
  /\ t.k = "end" => Depth(p) > 0
  /\ t.k \in Statements => Len(p) + Depth(p) + 1 <= family.length
  /\ t.k \in {"elif", "else"} => ClosesArm(p)

Type(t) == buffer = "open" /\ Fits(body, t) /\ Publish(Append(body, t), "open")

Offered(d) == IF buffer = "open" THEN Repairs(View(body), d) ELSE ClosedRepairs(d)

ApplyRepair(d) == \E s \in Offered(d) : Publish(Without(body, s), buffer)

\* A function is complete when its file is closed.
CloseBuffer == buffer = "open" /\ Depth(body) = 0 /\ Publish(body, "closed")

Reopen == body # <<>> /\ buffer = "open" /\ Publish(<<>>, "open")

OpenBuffer == buffer = "closed" /\ Publish(body, "open")

FlowInit ==
  /\ family \in Families
  /\ result \in family.results
  /\ body = <<>> /\ buffer = "open"
  /\ diagnostics = Diagnose(<<>>)

FlowNext ==
  \/ \E t \in family.tokens \cup {EndTok} : Type(t)
  \/ \E d \in diagnostics : ApplyRepair(d)
  \/ CloseBuffer
  \/ OpenBuffer
  \/ Reopen

FlowSpec == FlowInit /\ [][FlowNext]_vars
=============================================================================
