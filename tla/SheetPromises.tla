--------------------------- MODULE SheetPromises --------------------------
(***************************************************************************)
(* What the comments of the headers promise every caller and the table     *)
(* does not keep.  Each is an invariant that some calls break.             *)
(***************************************************************************)
EXTENDS Sheet

\* formula.h:13: an empty cell counts as the number zero.  A formula all of
\* whose references are empty shows its value over zeros.
EmptyCellsCountAsZero ==
    \A p \in Occupied \ Pending :
        /\ TextAt(p) \in FormulaText
        /\ \A q \in References[p] : TextAt(q) = EmptyText
        => cache[cells[p]] = Evaluate(TextAt(p), [q \in Pos |-> Zero])

\* cell.h:80: dependents_ holds the cells that depend on this one.
DependentsDepend ==
    \A p \in Occupied : \A a \in dependents[cells[p]] :
        \E q \in Occupied : cells[q] = a /\ p \in References[q]

\* common.h:116: what would close a cycle of dependencies is refused by an
\* exception, so that no accepted text makes the table run around one.
NeverRunsAroundCycle == outcome # "stack_overflow"

\* common.h:138: the printed area is the bounding rectangle of the cells
\* whose text is not empty.
PrintAreaBoundsTexts ==
    LET written == {p \in Pos : TextAt(p) # EmptyText}
    IN print_size = BoundingSize(written)
===========================================================================
