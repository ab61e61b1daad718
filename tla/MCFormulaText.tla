--------------------------- MODULE MCFormulaText ---------------------------
(***************************************************************************)
(* Instance of FormulaText for TLC: one digit is printed, so that 25 is    *)
(* printed as 20 (in the program, 1000005 as 1e+06).                       *)
(***************************************************************************)
EXTENDS FormulaText, TLC

MCNumber == <<"0">> :> 0 @@ <<"2", "0">> :> 20 @@ <<"2", "5">> :> 25

=============================================================================
