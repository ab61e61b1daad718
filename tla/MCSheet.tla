------------------------------ MODULE MCSheet -----------------------------
(***************************************************************************)
(* Instances of the table for TLC.  Formulas are given in postorder, as    *)
(* FormulaAST evaluates them.                                              *)
(***************************************************************************)
EXTENDS SheetPromises, FormulaAST

CONSTANTS one, word     \* the plain texts "1" and "word"

A1 == <<0, 0>>
B1 == <<0, 1>>
A2 == <<1, 0>>
A3 == <<2, 0>>

Ref(p)         == << <<"cell", p>> >>
Sum(p, q)      == << <<"cell", p>>, <<"cell", q>>, <<"binary", "+">> >>
Ratio(p, q)    == << <<"cell", p>>, <<"cell", q>>, <<"binary", "/">> >>

MCPlainText == {one, word}

MCTextValue(t) == IF t = one THEN Double(MaxDouble) ELSE String("word")

MCZero == Double(0)

\* What these formulas can yield: they have neither a minus sign nor a position
\* outside the table.
MCValue == {Double(n) : n \in 0..MaxDouble} \cup {String("word")}
               \cup {FormulaError("Value"), FormulaError("Arithmetic")}

\* Three cells in a column, and two positions outside the table.
ColumnArgs     == {A1, A2, A3, <<3, 0>>, <<-1, 0>>}
ColumnFormulas == {Ref(A1), Ref(A2), Ref(A3), Ratio(A1, A2), Sum(A3, A2)}

\* A table of two by two, of which three positions are written.
SquareArgs     == {A1, B1, A2, <<0, 2>>}
SquareFormulas == {Ref(A1), Ref(B1), Ref(A2), Sum(A1, B1)}

Symmetry == Permutations(Addr)
===========================================================================
