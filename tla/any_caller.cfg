\* Two rows and two columns, three heap blocks; any caller.
CONSTANTS
    MAX_ROWS = 2
    MAX_COLS = 2
    MaxDouble = 0
    ArgPos <- SquareArgs
    Addr = {x1, x2, x3}
    Null = Null
    EmptyText = EmptyText
    one = one
    word = word
    PlainText = {one}
    FormulaText <- SquareFormulas
    BadFormulaText = {bad}
    Value <- MCValue
    Zero <- MCZero
    NoValue = NoValue
    TextValue <- MCTextValue
    RefsOf <- FormulaReferencedCells
    Evaluate <- FormulaEvaluate
    Reads <- FormulaReads
SPECIFICATION Spec
SYMMETRY Symmetry
CHECK_DEADLOCK FALSE
INVARIANTS
    ReferencesAcyclic
    CycleCheckExact
    PrintAreaFits
PROPERTIES
    CellsStayPut
