\* Every position of a small table written and read back, every text of at most
\* five characters read, every text of at most four shown by a cell or parsed as a
\* formula, and every sequence of at most seven tokens parsed.
CONSTANTS
    MAX_ROWS = 4
    MAX_COLS = 11
    LETTERS = 2
    MaxInt = 8
    Numeral <- MCNumeral
    Stoi <- MCStoi
    ArgPos <- MCArgPos
    ArgText <- MCArgText
    CellText <- MCCellText
    Expression <- MCExpression
    IsCellPosition <- MCIsCellPosition
    IsFiniteNumber <- MCIsFiniteNumber
SPECIFICATION FairTextsSpec
CHECK_DEADLOCK FALSE
INVARIANTS
    TextTypeOK
    RoundTrip
    ReadsTheTextsOfPositions
    TextCellTypeOK
    NumberOrText
    StackDiscipline
    ParsesTheGrammar
PROPERTY ConversionEnds
