---------------------------- MODULE Positions -----------------------------
(***************************************************************************)
(* Positions of the table (common.h, structures.cpp): a row and a column,  *)
(* counted from zero.                                                      *)
(***************************************************************************)
EXTENDS Integers

CONSTANTS MAX_ROWS, MAX_COLS   \* the bounds of Position

ASSUME BoundsAssumption == MAX_ROWS \in Nat \ {0} /\ MAX_COLS \in Nat \ {0}

Pos == (0..MAX_ROWS-1) \X (0..MAX_COLS-1)

\* Position::IsValid.
IsValid(pos) == /\ 0 <= pos[1] /\ pos[1] < MAX_ROWS
                /\ 0 <= pos[2] /\ pos[2] < MAX_COLS

\* Position::operator<: row by row, each from the left.
Before(p, q) == p[1] < q[1] \/ (p[1] = q[1] /\ p[2] < q[2])

\* p comes first in a sorted vector of the positions of S.
IsFirst(p, S) == p \in S /\ \A q \in S \ {p} : Before(p, q)
===========================================================================
