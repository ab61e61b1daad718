\* GetValue and PrintValues, node by node, on all acyclic tables of three cells.
CONSTANTS
    MAX_ROWS = 3
    MAX_COLS = 1
    MaxDouble = 1
    ArgPos = {}
    x1 = x1
    x2 = x2
    x3 = x3
    Addr = {x1, x2, x3}
    Null = Null
    EmptyText = EmptyText
    one = one
    word = word
    PlainText = {one, word}
    FormulaText <- MCFormulas
    BadFormulaText = {}
    Value <- MCValue
    Zero <- MCZero
    NoValue = NoValue
    TextValue <- MCTextValue
    RefsOf <- FormulaReferencedCells
    Evaluate <- FormulaEvaluate
    Reads <- FormulaReads
    Layouts <- MCLayouts
SPECIFICATION FairRecalculationSpec
CHECK_DEADLOCK FALSE
INVARIANTS
    RecalculationTypeOK
    EvaluatedOnce
PROPERTIES
    ImplementsShow
    RecalculationEnds
