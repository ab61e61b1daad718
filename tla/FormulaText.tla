---------------------------- MODULE FormulaText ----------------------------
(***************************************************************************)
(* The text of a formula cell: how an expression tree is printed           *)
(* (FormulaAST.cpp), and that the text is read again (Grammar).            *)
(*                                                                         *)
(* A CellExpr is printed and read as an atom like a number is, and no text *)
(* of a cell stands for another cell: atoms are numbers here.  A text is a *)
(* sequence of tokens; blanks are left out.                                *)
(*                                                                         *)
(* Literals are natural numbers.  A number that a stream shows with no     *)
(* more than its digits is less than Limit, 10^6 in the program.           *)
(***************************************************************************)
EXTENDS Grammar, FiniteSets, SequencesExt

CONSTANTS Number,        \* the number each NUMBER token stands for
          Limit,         \* the least number with more digits than are printed
          MaxOperators   \* bound: operators in a formula the user types

\* Bound: the steps in which numbers of more digits are printed.
Unit == {1, 10, 100, 1000, 10000, 100000, 1000000}

\* The unit of the last digit that is printed of n.
UnitOf(n) == CHOOSE u \in Unit : n < u * Limit /\ (u > 1 => n >= (u \div 10) * Limit)

\* What a stream prints of n: its leading digits, the rest rounded to the nearest
\* number of so many, and from halfway to the even one.
Rounded(n) ==
    LET unit == UnitOf(n)
        down == n \div unit
        rest == n % unit
        IsUp == 2 * rest > unit \/ (2 * rest = unit /\ down % 2 = 1)
    IN (IF IsUp THEN down + 1 ELSE down) * unit

ASSUME LiteralsAssumption ==
    /\ Limit \in Nat \ {0} /\ Limit % 10 = 0
    /\ DOMAIN Number \subseteq Seq(STRING)
    /\ \A l \in DOMAIN Number : Number[l] \in 0..100000 * Limit
    /\ \A l \in DOMAIN Number : \E m \in DOMAIN Number : Number[m] = Rounded(Number[l])
    /\ MaxOperators \in Nat

VARIABLE formula         \* the tree of the cell's formula; <<>> before the first

\* The trees with n operators, and all trees.
Trees[n \in 0..MaxOperators] ==
    IF n = 0 THEN {<<"NUMBER", l>> : l \in DOMAIN Number}
    ELSE ({"unary"} \X AddSub \X Trees[n - 1])
         \cup UNION {{"binary"} \X Operator \X Trees[k] \X Trees[n - 1 - k] : k \in 0..(n - 1)}

Formula == UNION {Trees[n] : n \in 0..MaxOperators}

IsAtom(t)  == t[1] = "NUMBER"
IsUnary(t) == t[1] = "unary"

---------------------------------------------------------------------------
(***************************************************************************)
(* Printing: PRECEDENCE_RULES as the pairs of a parent and a child whose   *)
(* mask has PR_LEFT, and those whose mask has PR_RIGHT.                    *)
(***************************************************************************)
\* Faulty variant: PrintFormula takes no account of right_child.
SideIgnored == ({"*", "/", "unary"} \X {"+", "-"}) \cup ({"-"} \X {"+", "-"})

ParensLeft == {"*", "/", "unary"} \X {"+", "-"}

\* Faulty variant: A / (B * C) is treated like A * (B * C).
DivisorBare == ParensLeft \cup ({"-"} \X {"+", "-"})

\* Faulty variant: A + (B + C) is treated like A - (B + C).
SumsInParens == ParensLeft \cup ({"+", "-"} \X {"+", "-"}) \cup ({"/"} \X {"*", "/"})

ParensRight == ParensLeft \cup ({"-"} \X {"+", "-"}) \cup ({"/"} \X {"*", "/"})

GetPrecedence(t) == IF IsAtom(t) THEN "atom" ELSE IF IsUnary(t) THEN "unary" ELSE t[2]

InParens(text) == <<Symbol("(")>> \o text \o <<Symbol(")")>>

\* PrintFormula of t, of which text is printed without parentheses.
PrintFormula(t, text, parent, parens) ==
    IF <<parent, GetPrecedence(t)>> \in parens THEN InParens(text) ELSE text

\* The token a stream prints of n.
Numeral(n) == [kind |-> "NUMBER", chars |-> CHOOSE l \in DOMAIN Number : Number[l] = Rounded(n)]

DoPrintFormula[t \in Formula] ==
    LET Child(u, parens) == PrintFormula(u, DoPrintFormula[u], GetPrecedence(t), parens)
    IN CASE IsAtom(t)  -> <<Numeral(Number[t[2]])>>
         [] IsUnary(t) -> <<Symbol(t[2])>> \o Child(t[3], ParensLeft)
         [] OTHER      -> Child(t[3], ParensLeft) \o <<Symbol(t[2])>> \o Child(t[4], ParensRight)

GetExpression(t) == PrintFormula(t, DoPrintFormula[t], "atom", ParensLeft)

\* The tree of a text; <<>> where ParseFormula throws.
ParseFormula(text) ==
    LET whole == Whole(Append(text, EOF))
    IN IF whole = {} THEN <<>> ELSE (CHOOSE x \in whole : TRUE).tree

---------------------------------------------------------------------------
(***************************************************************************)
(* Evaluation of a tree in exact arithmetic: a fraction <<num, den>>, or   *)
(* Arithmetic for the FormulaError that a division by zero throws.         *)
(***************************************************************************)
Arithmetic == <<1, 0>>

Fraction(op, x, y) ==
    IF x = Arithmetic \/ y = Arithmetic THEN Arithmetic
    ELSE CASE op = "+" -> <<x[1] * y[2] + y[1] * x[2], x[2] * y[2]>>
           [] op = "-" -> <<x[1] * y[2] - y[1] * x[2], x[2] * y[2]>>
           [] op = "*" -> <<x[1] * y[1], x[2] * y[2]>>
           [] op = "/" -> IF y[1] = 0 THEN Arithmetic ELSE <<x[1] * y[2], x[2] * y[1]>>

Evaluate[t \in Formula] ==
    CASE IsAtom(t)  -> <<Number[t[2]], 1>>
      [] IsUnary(t) -> Fraction(t[2], <<0, 1>>, Evaluate[t[3]])
      [] OTHER      -> Fraction(t[2], Evaluate[t[3]], Evaluate[t[4]])

IsSame(x, y) == /\ (x = Arithmetic) = (y = Arithmetic)
                /\ x[1] * y[2] = y[1] * x[2]

SameValue(t, u) == IsSame(Evaluate[t], Evaluate[u])

---------------------------------------------------------------------------
(***************************************************************************)
(* The calls: a user types a formula, which may be any tree written with   *)
(* all its parentheses; then the text of the cell is edited and entered    *)
(* unchanged, any number of times.                                         *)
(***************************************************************************)
Typed[t \in Formula] ==
    CASE IsAtom(t)  -> <<[kind |-> "NUMBER", chars |-> t[2]]>>
      [] IsUnary(t) -> InParens(<<Symbol(t[2])>> \o Typed[t[3]])
      [] OTHER      -> InParens(Typed[t[3]] \o <<Symbol(t[2])>> \o Typed[t[4]])

Init == formula = <<>>

SetCell(text) == formula' = ParseFormula(text)

Enter == formula = <<>> /\ \E t \in Formula : SetCell(Typed[t])

GetText == GetExpression(formula)

Reenter == formula # <<>> /\ SetCell(GetText)

Next == Enter \/ Reenter

Spec == Init /\ [][Next]_formula

---------------------------------------------------------------------------
(***************************************************************************)
(* Properties.                                                             *)
(***************************************************************************)

\* The text of a cell entered again is the text of the cell: whatever
\* PRECEDENCE_RULES leaves out and Rounded takes off is gone the first time.
TextSettles ==
    [][formula # <<>> => GetExpression(formula') = GetText]_formula

\* Text without the parenthesis at i and the one that closes it at j.
Without(text, i, j) == RemoveAt(RemoveAt(text, j), i)

Closes(text, i, j) ==
    LET depth(k) == Cardinality({m \in i..k : text[m].kind = "("})
                      - Cardinality({m \in i..k : text[m].kind = ")"})
    IN j > i /\ depth(j) = 0 /\ \A k \in i..(j - 1) : depth(k) > 0

\* The pairs of parentheses in text.
Parentheses(text) == {ij \in {i \in DOMAIN text : text[i].kind = "("} \X DOMAIN text :
                         Closes(text, ij[1], ij[2])}

\* Every pair of parentheses printed groups what would be grouped otherwise without
\* it: no operand is in parentheses twice, and none is that stands alone or that
\* binds as tight as its place asks.
PairsGroup ==
    formula # <<>> =>
        LET text == GetText
        IN \A ij \in Parentheses(text) :
             ParseFormula(Without(text, ij[1], ij[2])) # ParseFormula(text)

\* Text, each of its atoms told apart by where it stands.
Marked(text) == [i \in DOMAIN text |-> IF text[i].kind = "NUMBER" THEN [text[i] EXCEPT !.chars = i]
                                       ELSE text[i]]

\* The operands of the root of t, and all trees in t.
OperandsOf(t) == CASE IsAtom(t)  -> {}
                   [] IsUnary(t) -> {t[3]}
                   [] OTHER      -> {t[3], t[4]}

TreesIn(t) ==
    LET within[n \in 0..MaxOperators] ==
            IF n = 0 THEN {t} ELSE within[n - 1] \cup UNION {OperandsOf(u) : u \in within[n - 1]}
    IN within[MaxOperators]

\* The value of the tree of a marked text, of which each atom is worth its mark and
\* one: numbers without a relation that regrouping would bring to light.
MarkedValue(text) ==
    LET tree == ParseFormula(text)
        value[t \in TreesIn(tree)] ==
            CASE IsAtom(t)  -> <<t[2] + 1, 1>>
              [] IsUnary(t) -> Fraction(t[2], <<0, 1>>, value[t[3]])
              [] OTHER      -> Fraction(t[2], value[t[3]], value[t[4]])
    IN value[tree]

\* The pair at i and j stands behind a sign that is no binary operator, as do the
\* parentheses FormulaAST.cpp:57-60 says are always put and sometimes optional; the
\* signs from k on do not change what they stand before, and no factor or divisor
\* is next to the signs and the pair.
IsOptional(text, i, j) ==
    \E k \in 1..(i - 1) :
        /\ \A m \in k..(i - 1) : text[m].kind \in AddSub
        /\ k > 1 => text[k - 1].kind \notin AddSub \cup MulDiv
        /\ k = i - 1 => k = 1 \/ text[k - 1].kind = "("
        /\ Cardinality({m \in k..(i - 1) : text[m].kind = "-"}) % 2 = 0
        /\ j < Len(text) => text[j + 1].kind \notin MulDiv

\* GetExpression puts no excess parentheses (formula.h:30) but those: they can be
\* left out and the value stays, each other pair is needed for it, whatever the
\* precedences say of it (A + (B + C) is printed without).
NoExcessParens ==
    formula # <<>> =>
        LET text == Marked(GetText)
        IN \A ij \in Parentheses(text) :
             IsOptional(text, ij[1], ij[2])
                <=> IsSame(MarkedValue(Without(text, ij[1], ij[2])), MarkedValue(text))

\* The trees in t, and t without the signs in front of it.
Parts[t \in Formula] ==
    {t} \cup CASE IsAtom(t)  -> {}
               [] IsUnary(t) -> Parts[t[3]]
               [] OTHER      -> Parts[t[3]] \cup Parts[t[4]]

Unsigned[t \in Formula] == IF IsUnary(t) THEN Unsigned[t[3]] ELSE t

\* Some quotient has a divisor that is a product or a quotient under signs.
HasSignedDivisor(t) ==
    \E u \in Parts[t] : /\ u[1] = "binary" /\ u[2] = "/" /\ IsUnary(u[4])
                        /\ GetPrecedence(Unsigned[u[4]]) \in MulDiv

\* Every literal of the tree has no more digits than are printed.
IsExact(t) == \A u \in Parts[t] : IsAtom(u) => Rounded(Number[u[2]]) = Number[u[2]]

\* Entering the text of a cell again keeps the value of the cell, unless a
\* literal was too long to be printed or a quotient has a signed divisor.
ValueSettles ==
    [][formula # <<>> /\ IsExact(formula) /\ ~HasSignedDivisor(formula)
           => SameValue(formula, formula')]_formula

\* The same without the second exception, as the case analysis above
\* PRECEDENCE_RULES has it, -(A * B) and -(A / B) included
\* (FormulaAST.cpp:55-56).
ParensKeepValue ==
    [][formula # <<>> /\ IsExact(formula) => SameValue(formula, formula')]_formula
=============================================================================
