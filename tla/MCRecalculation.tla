-------------------------- MODULE MCRecalculation -------------------------
(***************************************************************************)
(* Recalculation on every acyclic table of three cells in a column, with   *)
(* formulas that fail before, between and after the cells they read.       *)
(***************************************************************************)
EXTENDS Recalculation

CONSTANTS x1, x2, x3, one, word

A1 == <<0, 0>>
A2 == <<1, 0>>
A3 == <<2, 0>>

MCLayouts == {[p \in Pos |-> IF p \in occ
                             THEN CASE p = A1 -> x1 [] p = A2 -> x2 [] p = A3 -> x3
                             ELSE Null] : occ \in SUBSET Pos}

Cell(p)      == <<"cell", p>>
Constant(n)  == <<"number", n>>
Binary(op)   == <<"binary", op>>
Negated      == <<"unary", "-">>

\* =A1, =-A2, =A1/A2, =A3+A2, =A2+A2, =1/0+A1
MCFormulas == { <<Cell(A1)>>,
                <<Cell(A2), Negated>>,
                <<Cell(A1), Cell(A2), Binary("/")>>,
                <<Cell(A3), Cell(A2), Binary("+")>>,
                <<Cell(A2), Cell(A2), Binary("+")>>,
                <<Constant(1), Constant(0), Binary("/"), Cell(A1), Binary("+")>> }

MCTextValue(t) == IF t = one THEN Double(1) ELSE String("word")

MCZero == Double(0)

MCValue == FormulaValue \cup {String("word")}
===========================================================================
