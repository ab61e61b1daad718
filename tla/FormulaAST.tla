---------------------------- MODULE FormulaAST ----------------------------
(***************************************************************************)
(* Evaluation of a parsed formula (FormulaAST.cpp, formula.cpp).           *)
(*                                                                         *)
(* An expression tree is given by its postorder: the order in which        *)
(* ParseASTListener pushes and combines the nodes on args_ while parsing,  *)
(* and the order in which BinaryOpExpr, UnaryOpExpr and CellExpr evaluate  *)
(* them (left operand, right operand, operator).  A token is               *)
(*    <<"cell", pos>>      a CellExpr                                      *)
(*    <<"number", n>>      a NumberExpr                                    *)
(*    <<"unary", op>>      a UnaryOpExpr over the value on top             *)
(*    <<"binary", op>>     a BinaryOpExpr over the two values on top       *)
(*                                                                         *)
(* A double is an integer of -MaxDouble..MaxDouble; what lies outside is   *)
(* not finite.                                                             *)
(***************************************************************************)
EXTENDS Integers, Sequences, SequencesExt

CONSTANT MaxDouble      \* the largest finite double

ASSUME MaxDoubleAssumption == MaxDouble \in Nat

Double(n)      == <<"double", n>>
String(s)      == <<"string", s>>
FormulaError(c) == <<"error", c>>

Category == {"Ref", "Value", "Arithmetic"}

\* The values a formula can have: std::variant<double, FormulaError>.
FormulaValue == {Double(n) : n \in -MaxDouble..MaxDouble}
                    \cup {FormulaError(c) : c \in Category}

IsFinite(n) == n \in -MaxDouble..MaxDouble

Quotient(x, y) == IF y > 0 THEN x \div y ELSE (-x) \div (-y)

Apply(op, x, y) == CASE op = "+" -> x + y
                     [] op = "-" -> x - y
                     [] op = "*" -> x * y
                     [] op = "/" -> Quotient(x, y)

---------------------------------------------------------------------------
(***************************************************************************)
(* Evaluation in progress: the values computed so far, the cells whose     *)
(* GetValue() was called, and the category of the FormulaError thrown,     *)
(* which ends the evaluation where it happens.                             *)
(***************************************************************************)
Started == [stack |-> <<>>, read |-> {}, thrown |-> "none"]

Fail(m, category) == [m EXCEPT !.thrown = category]

Push(m, n) == [m EXCEPT !.stack = Append(@, n)]

\* CellExpr::Evaluate.  value gives GetValue() of every valid position; a
\* position without a cell counts as 0.0 there.
EvaluateCell(m, pos, value) ==
    IF pos \notin DOMAIN value THEN Fail(m, "Ref")
    ELSE LET called == [m EXCEPT !.read = @ \cup {pos}]
             got    == value[pos]
         IN CASE got[1] = "double" -> Push(called, got[2])
              [] got[1] = "error"  -> Fail(called, got[2])
              [] got[1] = "string" -> Fail(called, "Value")

\* UnaryOpExpr::Evaluate, its operand on top of the stack.
EvaluateUnary(m, op) ==
    LET x == Last(m.stack)
    IN [m EXCEPT !.stack = Append(Front(@), IF op = "-" THEN -x ELSE x)]

\* BinaryOpExpr::Evaluate, its operands on top of the stack: a division by
\* zero and a result that is not finite throw.
EvaluateBinary(m, op) ==
    LET rest == Front(Front(m.stack))
        lhs  == Last(Front(m.stack))
        rhs  == Last(m.stack)
    IN IF (op = "/" /\ rhs = 0) \/ ~IsFinite(Apply(op, lhs, rhs))
       THEN Fail(m, "Arithmetic")
       ELSE [m EXCEPT !.stack = Append(rest, Apply(op, lhs, rhs))]

EvaluateToken(m, token, value) ==
    IF m.thrown # "none" THEN m
    ELSE CASE token[1] = "cell"    -> EvaluateCell(m, token[2], value)
           [] token[1] = "number"  -> Push(m, token[2])
           [] token[1] = "unary"   -> EvaluateUnary(m, token[2])
           [] token[1] = "binary"  -> EvaluateBinary(m, token[2])

\* FormulaAST::Execute: the tokens of program in their order.
Execute(program, value) ==
    LET after[i \in 0..Len(program)] ==
            IF i = 0 THEN Started ELSE EvaluateToken(after[i-1], program[i], value)
    IN after[Len(program)]

---------------------------------------------------------------------------
(***************************************************************************)
(* FormulaInterface, as implemented by class Formula of formula.cpp.       *)
(***************************************************************************)

\* Evaluate(): the value, or the FormulaError caught.
FormulaEvaluate(program, value) ==
    LET m == Execute(program, value)
    IN IF m.thrown = "none" THEN Double(Last(m.stack)) ELSE FormulaError(m.thrown)

\* The positions whose cell Evaluate() asks for a value: it stops at the
\* first error, so they may be fewer than the formula mentions.
FormulaReads(program, value) == Execute(program, value).read

\* GetReferencedCells(): the positions the formula mentions.  The parser threw
\* on those outside the table, so the filter by IsValid() drops none.
FormulaReferencedCells(program) ==
    {program[i][2] : i \in {j \in DOMAIN program : program[j][1] = "cell"}}
===========================================================================
