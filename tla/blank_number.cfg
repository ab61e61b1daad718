\* Texts of blanks (formula.h, common.h).
CONSTANTS
    MAX_ROWS = 4
    MAX_COLS = 11
    LETTERS = 2
    MaxInt = 8
    Numeral <- MCNumeral
    Stoi <- MCStoi
    ArgPos <- MCArgPos
    ArgText <- MCArgText
    CellText <- MCCellText
    Expression <- MCExpression
    IsCellPosition <- MCIsCellPosition
    IsFiniteNumber <- MCIsFiniteNumber
SPECIFICATION FairTextsSpec
CHECK_DEADLOCK FALSE
INVARIANT BlankTextIsNoNumber
