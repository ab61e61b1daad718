---------------------------- MODULE SheetTypes ----------------------------
(***************************************************************************)
(* The vocabulary of common.h and formula.h: the texts a cell can be set   *)
(* to, the values it can show, and what a parsed formula offers.           *)
(*                                                                         *)
(* A text is known by what the program tells apart: whether it is empty,   *)
(* a formula that parses, a formula that does not, or neither.             *)
(***************************************************************************)
EXTENDS Positions

CONSTANTS
    ArgPos,               \* the positions callers pass, valid or not
    EmptyText,            \* the text ""
    PlainText,            \* texts that are not formulas
    FormulaText,          \* formulas that parse
    BadFormulaText,       \* formulas that ParseFormula rejects
    Value,                \* CellInterface::Value
    Zero,                 \* 0.0, the value of a missing or an empty cell
    TextValue(_),         \* TextImpl::GetValue of a plain text
    RefsOf(_),            \* GetReferencedCells of a formula
    Evaluate(_, _),       \* Evaluate of a formula, given every cell's value
    Reads(_, _)           \* the positions that evaluation asks for a value

Text == {EmptyText} \cup PlainText \cup FormulaText \cup BadFormulaText

ASSUME ArgPosAssumption == ArgPos \subseteq Int \X Int

ASSUME TextAssumption ==
    /\ EmptyText \notin PlainText \cup FormulaText \cup BadFormulaText
    /\ PlainText \cap FormulaText = {}
    /\ PlainText \cap BadFormulaText = {}
    /\ FormulaText \cap BadFormulaText = {}

ASSUME ValueAssumption ==
    /\ Zero \in Value
    /\ \A t \in PlainText : TextValue(t) \in Value

\* What FormulaInterface promises: a value, reads of cells the formula
\* mentions, and a result that depends on what was read and nothing else.
ASSUME EvaluateAssumption ==
    \A f \in FormulaText :
        /\ RefsOf(f) \subseteq Pos
        /\ \A v \in [Pos -> Value] :
              /\ Evaluate(f, v) \in Value
              /\ Reads(f, v) \subseteq RefsOf(f)
              /\ \A w \in [Pos -> Value] :
                    (\A p \in Reads(f, v) : v[p] = w[p])
                        => Evaluate(f, w) = Evaluate(f, v) /\ Reads(f, w) = Reads(f, v)

\* GetReferencedCells of a cell set to text: empty unless it is a formula.
Refs(text) == IF text \in FormulaText THEN RefsOf(text) ELSE {}

\* GetValue of a cell set to text, computed anew over the values v.
Computed(text, v) == CASE text = EmptyText     -> Zero
                       [] text \in PlainText   -> TextValue(text)
                       [] text \in FormulaText -> Evaluate(text, v)

Exception == {"InvalidPositionException", "FormulaException",
              "CircularDependencyException"}
===========================================================================
