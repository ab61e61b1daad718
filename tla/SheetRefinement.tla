-------------------------- MODULE SheetRefinement -------------------------
(***************************************************************************)
(* The table implements the contract of SheetInterface: its texts are read *)
(* off the cells, and its values are what GetValue returns, caches         *)
(* included.  The calls are those of a careful caller, and a variable      *)
(* remembers what a refused one asked for, so that the contract can tell   *)
(* whether the refusal was due.                                            *)
(***************************************************************************)
EXTENDS Sheet

VARIABLE refused   \* the arguments of the last call if it threw, else <<>>

RecordedInit == Init /\ refused = <<>>

Refused(pos) ==
    \/ RejectPosition(pos) /\ refused' = <<pos>>
    \/ \E text \in Text : /\ SetCellBadFormula(pos, text) \/ SetCellCircular(pos, text)
                          /\ refused' = <<pos, text>>

Accepted(pos) == \/ \E text \in Text : SetCellStore(pos, text)
                 \/ GetValue(pos)
                 \/ IsIsolated(pos) /\ ClearCell(pos)

RecordedNext == \/ \E pos \in ArgPos : Refused(pos)
                \/ /\ PrintValues \/ \E pos \in ArgPos : Accepted(pos)
                   /\ refused' = <<>>

\* CarefulSpec, with its refused calls on record.
RecordedSpec == RecordedInit /\ [][RecordedNext]_<<vars, refused>>

Content == [p \in Pos |-> TextAt(p)]

Display == Values(CHOOSE w \in [Pending -> Value] : IsEvaluation(w))

Contract == INSTANCE SheetContract WITH content <- Content, display <- Display

\* The callers that clear isolated cells only see the contract kept: every
\* value shown is the one the present texts define, a text is refused exactly
\* when it does not parse or would close a cycle, and a refused call changes
\* nothing to see.
ImplementsContract == Contract!Spec
===========================================================================
