---------------------------- MODULE MCContract ----------------------------
(***************************************************************************)
(* The column of MCSheet, against the contract: one position outside the   *)
(* table, and formulas enough for a chain, a cycle of one, two and three   *)
(* cells, and two ways to one cell.                                        *)
(***************************************************************************)
EXTENDS MCSheet, SheetRefinement

ContractArgs == {A1, A2, A3, <<3, 0>>}
===========================================================================
