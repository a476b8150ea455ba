------------------------------- MODULE MCNova -------------------------------
(***************************************************************************)
(* Bounds for TLC, and one run over both analyses: a document is either a  *)
(* body, typed from one of the Families, or one expression, typed from one *)
(* of the Expressions; the other stays empty and cannot be typed in.       *)
(***************************************************************************)
EXTENDS NovaRuns, NovaValues
If(c) == Tok("if", c)
Elif(c) == Tok("elif", c)
While(c) == Tok("while", c)
Else == Stmt("else")
Family(tokens, results, length, depth) ==
  [tokens |-> tokens, results |-> results, length |-> length, depth |-> depth]
\* Returns, breaks and loops under every kind of condition.
ControlFamily == Family({Stmt("value"), Stmt("break"), Stmt("do"), If("U"), If("T"), If("F"),
                         Else, While("T"), While("U")}, {"Int"}, 6, 3)
\* Assignments and reads around chains and loop exits.
LocalFamily == Family({Stmt("set"), Stmt("get"), Stmt("break"), If("U"), While("U")}, {"none"}, 6, 2)
ChainFamily == Family({Stmt("set"), Stmt("get"), If("U"), Elif("U"), Elif("T"), Elif("F"),
                       Else}, {"none"}, 8, 1)
DeadChainFamily == Family({Stmt("set"), Stmt("get"), If("F"), Elif("F"), Else}, {"none"}, 8, 1)
\* Calls that never return, of the function itself and of another.
CallFamily == Family({Stmt("self"), Stmt("never"), Stmt("return"), Stmt("value"), If("U"), Else,
                      While("T"), Stmt("continue")}, {"none"}, 6, 2)
\* Complete chains of arms that return.
ElseIfFamily == Family({Stmt("value"), Stmt("do"), If("U"), Elif("U"), Elif("T"), Else}, {"Int"}, 7, 1)
NoFamily == Family({}, {"none"}, 0, 0)
NoExpression == [tokens |-> {}, length |-> 0]

AllFamilies == {ControlFamily, LocalFamily, ChainFamily, DeadChainFamily, CallFamily, NoFamily}
ElseIfFamilies == {ElseIfFamily}
OneExpression == {NoExpression}

Kinds(ks) == {Sign(k) : k \in ks}
Typed == [length |-> 5,
          tokens |-> Kinds({"b", "n", "u", "+", "*", "==", "<", "&&", "||", "!", "(", ")", "string", "-"})]
Constant == [length |-> 6,
             tokens |-> {Number(1), Truth(1), Truth(0)} \cup Kinds({"-", "==", "<", "&&", "||", "!", "(", ")"})]
Divided == [length |-> 7, tokens |-> {Number(0), Number(2)} \cup Kinds({"-", "+", "/", "%", "(", ")"})]
\* One past the bound of each type, and twice it.
Conversion == [length |-> 7,
              tokens |-> {Number(4), Number(9)}
                         \cup Kinds({"UInt::from", "Int::from_uint", "UInt::MAX", "-", "+", "*", "(", ")"})]
AllExpressions == {Typed, Constant, Divided, Conversion, NoExpression}

NovaInit ==
  /\ FlowInit /\ ExpressionInit
  /\ family = NoFamily <=> typing # NoExpression

NovaNext ==
  \/ typing = NoExpression /\ FlowNext /\ UNCHANGED expressionVars
  \/ family = NoFamily /\ ExpressionNext /\ UNCHANGED vars

NovaSpec == NovaInit /\ [][NovaNext]_<<vars, expressionVars>>
=============================================================================
