------------------------------ MODULE NovaValues ------------------------------
(***************************************************************************)
(* What a Nova expression means, independently of the scans of             *)
(* NovaExpressions: an operator-precedence evaluation of its tokens from   *)
(* left to right over a stack of values and a stack of operators.  Unary   *)
(* operators bind tightest, `||` loosest; arithmetic on UInt and the       *)
(* conversions are checked and have no value when they fail.               *)
(***************************************************************************)
EXTENDS NovaExpressions

Precedence(k) ==
  CASE k = "||" -> 1 [] k = "&&" -> 2 [] k \in Comparisons -> 3
    [] k \in Additive -> 4 [] k \in Multiplicative -> 5 [] OTHER -> 0

\* A value: its type, its number (<<>>: none), and the tokens it came from.
Value(type, number, from, to) == [type |-> type, number |-> number, from |-> from, to |-> to]

\* An operator waiting for its right operand: kind, position, and how it is used.
Pending(k, at, use) == [k |-> k, at |-> at, use |-> use]

Start == [values |-> <<>>, waiting |-> <<>>, zeros |-> {}, failures |-> {}, pluses |-> {}]

Top(s) == s[Len(s)]
Pop(s) == SubSeq(s, 1, Len(s) - 1)

Prefixed(op, x) ==
  CASE op.k = "-" -> Value(IF x.type = "Int" THEN "Int" ELSE "error",
                           IF x.number = <<>> THEN <<>> ELSE <<-x.number[1]>>, op.at, x.to)
    [] op.k = "!" -> Value(IF x.type = "Bool" THEN "Bool" ELSE "error",
                           IF x.number = <<>> THEN <<>> ELSE <<1 - x.number[1]>>, op.at, x.to)
    [] op.k = "+" -> Value("error", x.number, op.at, x.to)

TypeOf(k, l, r) ==
  CASE k \in {"||", "&&"} -> IF l = "Bool" /\ r = "Bool" THEN "Bool" ELSE "error"
    [] k \in {"==", "!="} -> IF l = r /\ l # "error" THEN "Bool" ELSE "error"
    [] k \in {"<", "<="} -> IF l = r /\ l \in Numeric THEN "Bool" ELSE "error"
    [] k = "+" -> IF l = r /\ l \in Numeric \cup {"String"} THEN l ELSE "error"
    [] OTHER -> IF l = r /\ l \in Numeric THEN l ELSE "error"

Truncated(l, r) == IF l < 0 THEN -((-l) \div r) ELSE l \div r
DividedBy(l, r) == IF r < 0 THEN -Truncated(l, -r) ELSE Truncated(l, r)

Result(k, l, r) ==
  LET bool(b) == IF b THEN 1 ELSE 0 IN
  CASE k = "||" -> bool(l + r > 0) [] k = "&&" -> l * r
    [] k = "==" -> bool(l = r) [] k = "!=" -> bool(l # r)
    [] k = "<" -> bool(l < r) [] k = "<=" -> bool(l <= r)
    [] k = "+" -> l + r [] k = "-" -> l - r [] k = "*" -> l * r
    [] k = "/" -> DividedBy(l, r) [] k = "%" -> l - r * DividedBy(l, r)

Combined(k, x, y) ==
  LET type == TypeOf(k, x.type, y.type)
      known == x.number # <<>> /\ y.number # <<>> /\ ~(k \in {"/", "%"} /\ y.number = <<0>>)
      number == IF known THEN <<Result(k, x.number[1], y.number[1])>> ELSE <<>>
  IN Value(type, IF type = "UInt" /\ number # <<>> /\ number[1] \notin 0 .. UIntMax THEN <<>> ELSE number,
           x.from, y.to)

Zero(op, y) ==
  {<<op.at, y.from, y.to>> : k \in {k \in {op.k} : k \in {"/", "%"} /\ y.number = <<0>>}}

\* The operator op takes its operands: y, and x below it.
Applied(s, op, y, below) ==
  IF op.use = "prefix"
  THEN [s EXCEPT !.values = Append(below, Prefixed(op, y)), !.waiting = Pop(@)]
  ELSE [s EXCEPT !.values = Append(Pop(below), Combined(op.k, Top(below), y)),
                 !.waiting = Pop(@), !.zeros = @ \cup Zero(op, y)]

Reduce(s) == Applied(s, Top(s.waiting), Top(s.values), Pop(s.values))

\* Operators that bind at least as tightly as p take their operands.
RECURSIVE ReduceTo(_, _)
ReduceTo(s, p) ==
  IF s.waiting # <<>> /\ (Top(s.waiting).use = "prefix"
                          \/ (Top(s.waiting).use = "binary" /\ Precedence(Top(s.waiting).k) >= p))
  THEN ReduceTo(Reduce(s), p) ELSE s

Converted(k, x, from, to) ==
  Value(IF x.type = Source(k) THEN (IF k = "UInt::from" THEN "UInt" ELSE "Int") ELSE "error",
        SelectSeq(x.number, LAMBDA n : n \in 0 .. (IF k = "UInt::from" THEN UIntMax ELSE IntMax)),
        from, to)

Failure(x, y) ==
  {<<y.from, y.to>> : t \in {t \in {x.type} : t # "error" /\ y.type # "error" /\ x.number # y.number}}

\* x, bracketed, is the argument of the conversion on top of `rest`, if one is.
Argument(s, rest, x) ==
  IF rest # <<>> /\ Top(rest).use = "conversion" /\ Top(rest).at = x.from - 1
  THEN LET y == Converted(Top(rest).k, x, x.from - 1, x.to) IN
       [s EXCEPT !.values = Append(Pop(@), y), !.waiting = Pop(rest), !.failures = @ \cup Failure(x, y)]
  ELSE [s EXCEPT !.values = Append(Pop(@), x), !.waiting = rest]

\* The bracket opened last closes at i; a conversion before it is applied.
Bracket(s, i) ==
  Argument(s, Pop(s.waiting), [Top(s.values) EXCEPT !.from = Top(s.waiting).at, !.to = i])
Close(s, i) == Bracket(ReduceTo(s, 0), i)

OperandValue(t, i) ==
  CASE t.k = "int" -> Value("Int", <<t.n>>, i, i)
    [] t.k = "bool" -> Value("Bool", <<t.n>>, i, i)
    [] t.k = "UInt::MIN" -> Value("UInt", <<0>>, i, i)
    [] t.k = "UInt::MAX" -> Value("UInt", <<UIntMax>>, i, i)
    [] t.k = "n" -> Value("Int", <<>>, i, i)
    [] t.k = "u" -> Value("UInt", <<>>, i, i)
    [] t.k = "b" -> Value("Bool", <<>>, i, i)
    [] t.k = "string" -> Value("String", <<>>, i, i)

Wait(s, k, i, use) == [s EXCEPT !.waiting = Append(@, Pending(k, i, use))]

Read(s, e, i) ==
  CASE e[i].k \in Operands -> [s EXCEPT !.values = Append(@, OperandValue(e[i], i))]
    [] e[i].k = "(" -> Wait(s, "(", i, "bracket")
    [] e[i].k \in Conversions -> Wait(s, e[i].k, i, "conversion")
    [] e[i].k = ")" -> Close(s, i)
    [] e[i].k = "!" \/ (e[i].k \in Additive /\ ExpectsOperand(Upto(e, i))) ->
         [Wait(s, e[i].k, i, "prefix") EXCEPT !.pluses = @ \cup {j \in {i} : e[j].k = "+"}]
    [] OTHER -> Wait(ReduceTo(s, Precedence(e[i].k)), e[i].k, i, "binary")

Complete(e) ==
  /\ ~ExpectsOperand(e) /\ Unclosed(e) = 0 /\ ~Is(e, Len(e), Conversions)
  /\ \A i \in 1 .. Len(e) : Follows(Upto(e, i), e[i])

Evaluated(e) ==
  LET run[i \in 0 .. Len(e)] == IF i = 0 THEN Start ELSE Read(run[i - 1], e, i)
  IN ReduceTo(run[Len(e)], 0)

Meaning(run) == Top(run.values)

(***************************************************************************)
(* Properties.                                                             *)
(***************************************************************************)
NoStrings == \A i \in 1 .. Len(expression) : expression[i].k # "string"

\* A fold reads literals, brackets and the signs of literals.
Foldable(e) ==
  \A i \in 1 .. Len(e) :
    /\ e[i].k \in {"int", "(", ")"} \cup Additive \cup Multiplicative
    /\ e[i].k \in Additive /\ UnarySign(e, i) => Is(e, i + 1, {"int"})

\* Each of the three engines that type an expression (expression_types.py and
\* uint_types.py, for uses and for inference; expression_local_types.py, for closed
\* files) gives a complete expression the type it has, or none.
Typings == {published.direct, published.inferred, published.closed}
HoldTypes(run) == Typings \subseteq {"unknown", Meaning(run).type}

\* A condition reported as always true or always false is, and divisors are
\* reported as zero where the evaluation divides by zero, and everywhere it
\* does when the divisor is written with literals (constant_values.py,
\* division_diagnostics.py); an operator is reported as a unary plus exactly
\* where it has no left operand (unary_plus.py).
HoldConstants(run) ==
  /\ published.constant # "unknown" /\ NoStrings =>
       Meaning(run).type = "Bool"
       /\ Meaning(run).number = <<IF published.constant = "true" THEN 1 ELSE 0>>
  /\ {d[1] : d \in published.divisors} \subseteq {z[1] : z \in run.zeros}
  /\ \A z \in run.zeros : Foldable(SubSeq(expression, z[2], z[3]))
                          => z[1] \in {d[1] : d \in published.divisors}
  /\ NoStrings => published.pluses = run.pluses
ConstantsHold == Complete(expression) => HoldConstants(Evaluated(expression))

\* A conversion is reported out of range only when it fails, and always when its
\* argument is folded from literals, or from UInt members without leaving the
\* range of UInt (uint_conversion_range_diagnostics.py).
ReadsMembers(e) ==
  \A i \in 1 .. Len(e) : e[i].k \in Members \cup {"(", ")"} \cup Additive \cup Multiplicative
HoldRanges(run) ==
  /\ \A c \in published.ranges : c \in run.failures \/ UnaryPluses(ArgumentOf(expression, c)) # {}
  /\ \A c \in run.failures :
       Foldable(ArgumentOf(expression, c)) \/ ReadsMembers(ArgumentOf(expression, c))
       => c \in published.ranges
RangesHold == Complete(expression) => HoldRanges(Evaluated(expression))
=============================================================================
