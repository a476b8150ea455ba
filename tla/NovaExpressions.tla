---------------------------- MODULE NovaExpressions ----------------------------
(***************************************************************************)
(* One Nova expression as the product analyses it: the three engines that  *)
(* give it a type (of arguments, returns and locals; of inferred results;  *)
(* of closed files), the constants it folds in conditions, divisors and    *)
(* checked conversions, and unary plus.  The engines read text at one      *)
(* bracket depth; here an expression is a sequence of tokens and masking   *)
(* strings drops them.  The bounds of Int and UInt are parameters.         *)
(***************************************************************************)
EXTENDS Integers, Sequences, FiniteSets
LOCAL INSTANCE Functions

CONSTANTS
  Expressions,      \* [tokens, length]: what an expression is typed with, and bounds
  UIntMax           \* _UINT_MAX: 2^64 - 1

VARIABLES
  typing,           \* the member of Expressions this document is typed with
  expression,       \* the condition, argument, initializer or returned value
  published         \* what is reported and shown of it

expressionVars == <<typing, expression, published>>

ASSUME UIntMaxAssumption == UIntMax \in Nat /\ UIntMax % 2 = 1

IntMax == UIntMax \div 2                                 \* _INT_MAX

Sign(k) == [k |-> k, n |-> 0]
Number(n) == [k |-> "int", n |-> n]
Truth(n) == [k |-> "bool", n |-> n]

Comparisons == {"==", "!=", "<", "<="}
Additive == {"+", "-"}
Multiplicative == {"*", "/", "%"}
Binary == {"||", "&&"} \cup Comparisons \cup Additive \cup Multiplicative
Conversions == {"UInt::from", "Int::from_uint"}
Members == {"UInt::MIN", "UInt::MAX"}
Operands == {"int", "bool", "string", "n", "u", "b"} \cup Members

Is(e, i, ks) == i \in 1 .. Len(e) /\ e[i].k \in ks
Upto(e, i) == SubSeq(e, 1, i - 1)
After(e, i) == SubSeq(e, i + 1, Len(e))

(***************************************************************************)
(* Structure: brackets, grouping and operators outside them.               *)
(***************************************************************************)
DepthAt(e) ==
  LET among(i, k) == Cardinality({j \in 1 .. i - 1 : e[j].k = k}) IN
  [i \in 1 .. Len(e) + 1 |-> among(i, "(") - among(i, ")")]

Agree(d) == (\A i \in DOMAIN d : d[i] >= 0) /\ d[Cardinality(DOMAIN d)] = 0

OutsideBrackets(e, d, ks) ==
  IF ~Agree(d) THEN {}
  ELSE {i \in 1 .. Len(e) : e[i].k \in ks /\ d[i] = 0}

\* Positions of the operators outside brackets, when the brackets agree.
TopLevel(e, ks) == OutsideBrackets(e, DepthAt(e), ks)

\* Where the bracket opened first is closed.
Closes(e, d) == {i \in 2 .. Len(e) : d[i + 1] = 0}

RECURSIVE Unwrap(_)
Unwrap(e) ==
  IF Is(e, 1, {"("}) /\ Is(e, Len(e), {")"}) /\ Closes(e, DepthAt(e)) = {Len(e)}
  THEN Unwrap(SubSeq(e, 2, Len(e) - 1))
  ELSE e

\* The parts between the operators `k` of e, empty ones too; {} when it has none.
SplitAt(e, at) ==
  LET ends == at \cup {Len(e) + 1}
      end(s) == CHOOSE t \in ends : t > s /\ \A r \in ends : r > s => t <= r
  IN IF at = {} THEN {} ELSE {SubSeq(e, s + 1, end(s) - 1) : s \in {0} \cup at}

SplitLogical(e, k) == SplitAt(e, TopLevel(e, {k}))

\* A sign with no operand before it.
UnarySign(e, i) == i = 1 \/ Is(e, i - 1, {"(", "!"} \cup Binary)

\* The last binary operator of a set outside brackets, or 0.
Latest(at) == IF at = {} THEN 0 ELSE CHOOSE i \in at : \A j \in at : j <= i

OperatorsAt(e, d, ks) ==
  {i \in 1 .. Len(e) : /\ \A j \in DOMAIN d : d[j] >= 0
                       /\ e[i].k \in ks /\ d[i] = 0
                       /\ e[i].k \in Additive => ~UnarySign(e, i)}

LastOperator(e, ks) == Latest(OperatorsAt(e, DepthAt(e), ks))

Or(i, j) == IF i # 0 THEN i ELSE j

Split(e) == Or(LastOperator(e, Additive), LastOperator(e, Multiplicative))

OneOf(s) == CHOOSE x \in s : TRUE

(***************************************************************************)
(* Types.                                                                  *)
(***************************************************************************)
Numeric == {"Int", "UInt"}

\* Text that starts and ends with a quote is taken for a string.
LiteralType(e) ==
  CASE Is(e, 1, {"string"}) /\ Is(e, Len(e), {"string"}) -> "String"
    [] Len(e) = 1 /\ Is(e, 1, Members) -> "UInt"
    [] Len(e) = 1 /\ Is(e, 1, {"int"}) -> "Int"
    [] Len(e) = 2 /\ Is(e, 1, {"-"}) /\ Is(e, 2, {"int"}) -> "Int"
    [] Len(e) = 1 /\ Is(e, 1, {"bool"}) -> "Bool"
    [] OTHER -> "unknown"

BaseType(e) ==
  CASE LiteralType(e) # "unknown" -> LiteralType(e)
    [] Len(e) = 1 /\ Is(e, 1, {"n"}) -> "Int"
    [] Len(e) = 1 /\ Is(e, 1, {"u"}) -> "UInt"
    [] Len(e) = 1 /\ Is(e, 1, {"b"}) -> "Bool"
    [] OTHER -> "unknown"

\* The argument of a conversion that makes up the whole of e, or <<>>.
ConversionArgument(e) ==
  LET argument == SubSeq(e, 3, Len(e) - 1) IN
  IF /\ Is(e, 1, Conversions) /\ Is(e, 2, {"("}) /\ Is(e, Len(e), {")"})
     /\ Agree(DepthAt(argument))
  THEN argument ELSE <<>>

ConversionType(k, t) ==
  CASE k = "UInt::from" /\ t = "Int" -> "UInt"
    [] k = "Int::from_uint" /\ t = "UInt" -> "Int"
    [] OTHER -> "unknown"

ArithmeticResult(k, l, r, numeric) ==
  CASE l = r /\ l \in numeric -> l
    [] k = "+" /\ l = r /\ l = "String" -> "String"
    [] OTHER -> "unknown"


ComparisonResult(k, l, r, equality, numeric) ==
  IF l = r /\ l \in (IF k \in {"==", "!="} THEN equality ELSE numeric) THEN "Bool" ELSE "unknown"

EqualityTypes == {"Int", "String", "Bool", "UInt"}

\* The logical operator that splits e.
\* Fault: the operands of `&&` are looked for ahead of those of `||`.
LogicalFirstSwapped(e) == IF TopLevel(e, {"&&"}) # {} THEN "&&" ELSE "||"
LogicalFirst(e) == IF TopLevel(e, {"||"}) # {} THEN "||" ELSE "&&"

\* e[i] is the comparison; l and r are the types of its sides.
Comparing(e, compared, l, r, equality, numeric) ==
  IF Cardinality(compared) # 1 THEN "unknown"
  ELSE ComparisonResult(e[OneOf(compared)].k, l, r, equality, numeric)

Signed(type, wanted) == IF type = wanted THEN wanted ELSE "unknown"

\* In each engine `i` is the operator that splits e, and `compared` its comparisons.
RECURSIVE ArithmeticType(_), ArithmeticAt(_, _), InferenceType(_), InferenceAt(_, _, _),
          ClosedType(_), ClosedAt(_, _, _)
ArithmeticAt(e, i) ==
  IF Is(e, 1, Conversions) /\ ConversionArgument(e) # <<>>
  THEN ConversionType(e[1].k, ArithmeticType(ConversionArgument(e)))
  ELSE IF i # 0
  THEN ArithmeticResult(e[i].k, ArithmeticType(Upto(e, i)), ArithmeticType(After(e, i)), Numeric)
  ELSE IF Is(e, 1, {"-"}) /\ Len(e) > 1
  THEN Signed(ArithmeticType(After(e, 1)), "Int")
  ELSE BaseType(e)

ArithmeticOf(e) == ArithmeticAt(e, Split(e))
ArithmeticType(text) == ArithmeticOf(Unwrap(text))

AllBool(types) == IF types = {"Bool"} THEN "Bool" ELSE "unknown"

\* The operand of an equality under a leading `!` has no type: the engine that
\* owns it knows no `!`.
InferenceAt(e, i, compared) ==
  IF Is(e, 1, Conversions) /\ ConversionArgument(e) # <<>>
  THEN ConversionType(e[1].k, InferenceType(ConversionArgument(e)))
  ELSE IF TopLevel(e, {"||", "&&"}) # {}
  THEN AllBool({InferenceType(p) : p \in SplitLogical(e, LogicalFirst(e))})
  ELSE IF compared # {}
  THEN IF Is(e, 1, {"!"}) THEN "unknown"
       ELSE Comparing(e, compared, InferenceType(Upto(e, OneOf(compared))),
                      InferenceType(After(e, OneOf(compared))), EqualityTypes, Numeric)
  ELSE IF i # 0
  THEN ArithmeticResult(e[i].k, InferenceType(Upto(e, i)), InferenceType(After(e, i)), Numeric)
  ELSE IF Is(e, 1, {"-"}) /\ Len(e) > 1
  THEN Signed(InferenceType(After(e, 1)), "Int")
  ELSE IF Is(e, 1, {"!"}) /\ Len(e) > 1
  THEN Signed(InferenceType(After(e, 1)), "Bool")
  ELSE BaseType(e)

InferenceOf(e) == InferenceAt(e, Split(e), TopLevel(e, Comparisons))
InferenceType(text) == InferenceOf(Unwrap(text))

\* _return_expression_type and _argument_type: logical, then comparison, then arithmetic.
DirectAt(e, compared) ==
  IF TopLevel(e, {"||", "&&"}) # {} \/ (Is(e, 1, {"!"}) /\ compared = {})
  THEN InferenceOf(e)
  ELSE IF TopLevel(e, {"||", "&&"}) = {} /\ compared # {}
  THEN Comparing(e, compared, ArithmeticType(Upto(e, OneOf(compared))),
                 ArithmeticType(After(e, OneOf(compared))), EqualityTypes, Numeric)
  ELSE ArithmeticOf(e)

DirectOf(e) == DirectAt(e, TopLevel(e, Comparisons))
DirectType(text) == DirectOf(Unwrap(text))

ClosedAt(e, i, compared) ==
  IF TopLevel(e, {"||", "&&"}) # {}
  THEN AllBool({ClosedType(p) : p \in SplitLogical(e, LogicalFirst(e))})
  ELSE IF compared # {}
  THEN Comparing(e, compared, ClosedType(Upto(e, OneOf(compared))),
                 ClosedType(After(e, OneOf(compared))), EqualityTypes \ {"UInt"}, {"Int"})
  ELSE IF i # 0
  THEN ArithmeticResult(e[i].k, ClosedType(Upto(e, i)), ClosedType(After(e, i)), {"Int"})
  ELSE IF Is(e, 1, {"-"}) /\ Len(e) > 1
  THEN Signed(ClosedType(After(e, 1)), "Int")
  ELSE IF Is(e, 1, {"!"}) /\ Len(e) > 1
  THEN Signed(ClosedType(After(e, 1)), "Bool")
  ELSE BaseType(e)

ClosedOf(e) == ClosedAt(e, Split(e), TopLevel(e, Comparisons))
ClosedType(text) == ClosedOf(Unwrap(text))

(***************************************************************************)
(* Constants.  A parse is <<>>, or the value of what it read, where that   *)
(* starts and ends, whether it is a literal, and the next position.        *)
(***************************************************************************)
Parsed(value, first, last, atomic, next) ==
  <<[value |-> value, first |-> first, last |-> last, atomic |-> atomic, next |-> next]>>

Quotient(l, r) ==
  LET abs(x) == IF x < 0 THEN -x ELSE x
      q == abs(l) \div abs(r)
  IN IF (l < 0) = (r < 0) THEN q ELSE -q

Folded(k, l, r) ==
  CASE k = "+" -> l + r
    [] k = "-" -> l - r
    [] k = "*" -> l * r
    [] k = "/" -> Quotient(l, r)
    [] k = "%" -> l - Quotient(l, r) * r

\* What a fold may not be: a division by zero, or a UInt out of its range.
Folds(k, l, r, unsigned) ==
  /\ ~(k \in {"/", "%"} /\ r = 0)
  /\ unsigned => Folded(k, l, r) \in 0 .. UIntMax

RECURSIVE ConstantPrimary(_, _, _), ConstantRest(_, _, _, _), ConstantFrom(_, _, _, _)

\* What follows the operator k behind `left`: its right operand is a term
\* (Additive) or a primary (Multiplicative).
Combine(e, left, k, right, operators, unsigned) ==
  IF right = <<>> THEN <<>>
  ELSE IF ~Folds(k, left.value, right[1].value, unsigned) THEN <<>>
  ELSE Parsed(Folded(k, left.value, right[1].value), left.first, right[1].last, FALSE, right[1].next)

\* `parse` is what was read so far.
ConstantRest(e, parse, operators, unsigned) ==
  IF parse = <<>> THEN <<>>
  ELSE IF ~Is(e, parse[1].next, operators) THEN parse
  ELSE ConstantRest(e, Combine(e, parse[1], e[parse[1].next].k,
                               ConstantFrom(e, parse[1].next + 1, operators, unsigned),
                               operators, unsigned), operators, unsigned)

\* An operand of `operators`.
ConstantFrom(e, i, operators, unsigned) ==
  IF operators = Multiplicative THEN ConstantPrimary(e, i, unsigned)
  ELSE ConstantRest(e, ConstantPrimary(e, i, unsigned), Multiplicative, unsigned)

ConstantExpression(e, i, unsigned) ==
  ConstantRest(e, ConstantFrom(e, i, Additive, unsigned), Additive, unsigned)

Bracketed(e, i, inner) ==
  IF inner = <<>> THEN <<>>
  ELSE IF ~Is(e, inner[1].next, {")"}) THEN <<>>
  ELSE IF inner[1].atomic THEN <<[inner[1] EXCEPT !.next = @ + 1]>>
  ELSE Parsed(inner[1].value, i + 1, inner[1].next - 1, FALSE, inner[1].next + 1)

ConstantPrimary(e, i, unsigned) ==
  CASE ~unsigned /\ Is(e, i, {"int"}) -> Parsed(e[i].n, i, i, TRUE, i + 1)
    [] ~unsigned /\ Is(e, i, Additive) /\ Is(e, i + 1, {"int"}) ->
         Parsed((IF e[i].k = "-" THEN -1 ELSE 1) * e[i + 1].n, i, i + 1, TRUE, i + 2)
    [] unsigned /\ Is(e, i, Members) ->
         Parsed(IF e[i].k = "UInt::MIN" THEN 0 ELSE UIntMax, i, i, TRUE, i + 1)
    [] Is(e, i, {"("}) -> Bracketed(e, i, ConstantExpression(e, i + 1, unsigned))
    [] OTHER -> <<>>

\* The value of the whole of e, as <<value>>, or <<>>.
Whole(e, parse) ==
  IF parse = <<>> THEN <<>> ELSE IF parse[1].next = Len(e) + 1 THEN <<parse[1].value>> ELSE <<>>

IntegerConstant(e) == Whole(e, ConstantExpression(e, 1, FALSE))
UIntConstantOf(e) == Whole(e, ConstantExpression(e, 1, TRUE))
UIntConstant(e) == UIntConstantOf(Unwrap(e))

UnaryPluses(e) ==
  {i \in 1 .. Len(e) :
     /\ e[i].k = "+"
     /\ LET before == {j \in 1 .. i - 1 : e[j].k # "string"} IN
        before = {} \/ Is(e, CHOOSE j \in before : \A h \in before : h <= j, {"(", "!"} \cup Binary)}

ConditionInteger(e) == IF UnaryPluses(e) # {} THEN <<>> ELSE IntegerConstant(e)

Compared(k, l, r) ==
  CASE k = "==" -> l = r [] k = "!=" -> l # r [] k = "<" -> l < r [] k = "<=" -> l <= r

Known(b) == IF b THEN "true" ELSE "false"

Joined(logical, values) ==
  IF "unknown" \in values THEN "unknown"
  ELSE Known(IF logical = "||" THEN "true" \in values ELSE values = {"true"})

ComparedBools(k, l, r) ==
  IF k \notin {"==", "!="} \/ "unknown" \in {l, r} THEN "unknown" ELSE Known((l = r) = (k = "=="))

Negated(b) == CASE b = "true" -> "false" [] b = "false" -> "true" [] OTHER -> "unknown"

RECURSIVE BooleanConstant(_)
\* The one comparison at c.
BooleanComparison(e, c, l, r) ==
  IF l # <<>> /\ r # <<>> THEN Known(Compared(e[c].k, l[1], r[1]))
  ELSE ComparedBools(e[c].k, BooleanConstant(Upto(e, c)), BooleanConstant(After(e, c)))

BooleanAt(e, logical, compared) ==
  CASE e = <<>> -> "unknown"
    [] Len(e) = 1 /\ Is(e, 1, {"bool"}) -> Known(e[1].n = 1)
    [] TopLevel(e, {logical}) # {} ->
         Joined(logical, {BooleanConstant(p) : p \in SplitLogical(e, logical)})
    [] TopLevel(e, {logical}) = {} /\ compared # {} ->
         IF Cardinality(compared) # 1 THEN "unknown"
         ELSE BooleanComparison(e, OneOf(compared), ConditionInteger(Upto(e, OneOf(compared))),
                                ConditionInteger(After(e, OneOf(compared))))
    [] TopLevel(e, {logical}) = {} /\ compared = {} /\ Is(e, 1, {"!"}) ->
         Negated(BooleanConstant(After(e, 1)))
    [] OTHER -> "unknown"

BooleanOf(e) == BooleanAt(e, LogicalFirst(e), TopLevel(e, Comparisons))
BooleanConstant(text) == BooleanOf(Unwrap(text))

\* Strings are masked before a condition is folded.
Masked(e) == SelectSeq(e, LAMBDA t : t.k # "string")

(***************************************************************************)
(* Diagnostics.                                                            *)
(***************************************************************************)
\* A zero divisor, with the operator it is reported for.
ZeroDivisors(e) ==
  {<<i, p.first, p.last>> : <<i, p>> \in
     {<<i, p>> \in UNION {{i} \X Range(ConstantPrimary(e, i + 1, FALSE)) :
                            i \in {j \in 1 .. Len(e) : e[j].k \in {"/", "%"}}} : p.value = 0}}

\* The calls of conversions, as <<head, closing bracket>>.
ConversionCalls(e) ==
  LET d == DepthAt(e) IN
  {<<i, j>> \in (1 .. Len(e)) \X (1 .. Len(e)) :
     /\ e[i].k \in Conversions /\ Is(e, i + 1, {"("})
     /\ j > i + 1 /\ d[j + 1] = d[i] /\ \A h \in i + 2 .. j : d[h] > d[i]}

ArgumentOf(e, call) == SubSeq(e, call[1] + 2, call[2] - 1)

Outside(constant, low, high) == \E n \in Range(constant) : n \notin low .. high

\* Fault: the bound itself is reported.
OutOfRangeAtBound(k, int, uint) ==
  IF k = "UInt::from" THEN Outside(IF int # <<>> THEN int ELSE uint, 0, UIntMax - 1)
  ELSE Outside(uint, 0, IntMax)

\* int and uint: the argument folded by either parser.
OutOfRange(k, int, uint) ==
  IF k = "UInt::from" THEN Outside(IF int # <<>> THEN int ELSE uint, 0, UIntMax)
  ELSE Outside(uint, 0, IntMax)

ConversionRanges(e) ==
  {c \in ConversionCalls(e) :
     OutOfRange(e[c[1]].k, IntegerConstant(ArgumentOf(e, c)), UIntConstant(ArgumentOf(e, c)))}

Source(k) == IF k = "UInt::from" THEN "Int" ELSE "UInt"

ConversionTypes(e) ==
  {c \in ConversionCalls(e) : ArgumentOf(e, c) # <<>>
     /\ ArithmeticType(ArgumentOf(e, c)) \notin {"unknown", Source(e[c[1]].k)}}

Analysed(e) ==
  [direct |-> DirectType(e), inferred |-> InferenceType(e), closed |-> ClosedType(e),
   constant |-> BooleanConstant(Unwrap(Masked(Unwrap(e)))),
   divisors |-> ZeroDivisors(e), pluses |-> UnaryPluses(e),
   ranges |-> ConversionRanges(e), mistyped |-> ConversionTypes(e)]

PublishExpression(e) == expression' = e /\ published' = Analysed(e) /\ UNCHANGED typing

(***************************************************************************)
(* The editor types the next token, or applies a repair.                   *)
(***************************************************************************)
ExpectsOperand(e) == e = <<>> \/ Is(e, Len(e), {"(", "!"} \cup Binary)

Unclosed(e) == DepthAt(e)[Len(e) + 1]

\* An operand, a sign, a bracket or a conversion where one may stand.
Follows(e, t) ==
  IF Is(e, Len(e), Conversions) THEN t.k = "("
  ELSE IF ExpectsOperand(e) THEN t.k \in Operands \cup Conversions \cup {"(", "!"} \cup Additive
  ELSE t.k \in Binary \/ (t.k = ")" /\ Unclosed(e) > 0)

\* There is room to complete the expression within its length.
FitsExpression(e, t) ==
  LET next == Append(e, t)
      missing == Unclosed(next) + (IF ExpectsOperand(next) THEN 1 ELSE 0)
                 + (IF t.k \in Conversions THEN 3 ELSE 0)
  IN Len(next) + missing <= typing.length /\ Follows(e, t)

TypeToken(t) == FitsExpression(expression, t) /\ PublishExpression(Append(expression, t))

Replaced(e, first, last, text) == SubSeq(e, 1, first - 1) \o text \o SubSeq(e, last + 1, Len(e))

ReplaceZeroDivisor ==
  \E z \in published.divisors : PublishExpression(Replaced(expression, z[2], z[3], <<Number(1)>>))

RemoveUnaryPlus ==
  \E i \in published.pluses : PublishExpression(Replaced(expression, i, i, <<>>))

RemoveRedundantConversion ==
  \E c \in published.mistyped :
    /\ ArithmeticType(ArgumentOf(expression, c)) = (IF expression[c[1]].k = "UInt::from" THEN "UInt" ELSE "Int")
    /\ PublishExpression(Replaced(expression, c[1], c[2], ArgumentOf(expression, c)))

ExpressionInit ==
  /\ typing \in Expressions
  /\ expression = <<>>
  /\ published = Analysed(<<>>)

ExpressionNext ==
  \/ \E t \in typing.tokens : TypeToken(t)
  \/ ReplaceZeroDivisor
  \/ RemoveUnaryPlus
  \/ RemoveRedundantConversion

ExpressionSpec == ExpressionInit /\ [][ExpressionNext]_expressionVars
=============================================================================
