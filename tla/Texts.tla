------------------------------- MODULE Texts ------------------------------
(***************************************************************************)
(* The conversions between a text and what it stands for: a call of        *)
(* ToString and then FromString, of FromString on any text, of GetValue of *)
(* a cell that holds a text, or of ParseFormula.  A behaviour is one call. *)
(***************************************************************************)
EXTENDS PositionText, TextCell, FormulaParser

\* No call of ToString or FromString: one on "" that has returned.
NoPosition ==
    /\ at = "returned"
    /\ pos = NONE /\ text = <<>> /\ parsed = NONE
    /\ col = 0 /\ split = 0 /\ read = 0 /\ trail = <<>>

\* No call of GetValue: one on a lone apostrophe that has returned.
NoTextCell ==
    /\ line = "returned"
    /\ text_ = <<"'">> /\ content = <<>> /\ value = Zero
    /\ num = <<>> /\ end = 0

\* No call of ParseFormula: one on "" that has failed.
NoFormula ==
    /\ phase = "FormulaException"
    /\ expression = <<>> /\ rest = <<>> /\ token = FirstToken(<<>>)
    /\ exprs = <<>> /\ nodes = <<>> /\ args = <<>>

TextsInit == \/ TextInit /\ NoTextCell /\ NoFormula
             \/ GetValueInit /\ NoPosition /\ NoFormula
             \/ ParserInit /\ NoPosition /\ NoTextCell

ConvertsPosition == TextNext /\ UNCHANGED <<cellVars, parserVars>>

ConvertsTextCell == GetValueNext /\ UNCHANGED <<vars, parserVars>>

ParsesFormula == ParserNext /\ UNCHANGED <<vars, cellVars>>

TextsNext == ConvertsPosition \/ ConvertsTextCell \/ ParsesFormula

textsVars == <<vars, cellVars, parserVars>>

\* The thread that converts keeps running.
FairTextsSpec == TextsInit /\ [][TextsNext]_textsVars /\ WF_textsVars(TextsNext)

\* Whatever the position or the text, the call ends: the letters of a column run
\* out, and so does the text, NULs and blanks at its end included; and the parser
\* reads a token, or closes what it has opened, at every step.
ConversionEnds == <>(/\ at = "returned"
                     /\ line = "returned"
                     /\ phase \in {"parsed", "FormulaException"})
===========================================================================
