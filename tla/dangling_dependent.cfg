\* Any caller, against a promise of the headers.
CONSTANTS
    MAX_ROWS = 3
    MAX_COLS = 1
    MaxDouble = 1
    ArgPos <- ColumnArgs
    Addr = {x1, x2, x3, x4}
    Null = Null
    EmptyText = EmptyText
    one = one
    word = word
    PlainText <- MCPlainText
    FormulaText <- ColumnFormulas
    BadFormulaText = {bad}
    Value <- MCValue
    Zero <- MCZero
    NoValue = NoValue
    TextValue <- MCTextValue
    RefsOf <- FormulaReferencedCells
    Evaluate <- FormulaEvaluate
    Reads <- FormulaReads
SPECIFICATION Spec
SYMMETRY Symmetry
CHECK_DEADLOCK FALSE
INVARIANTS
    DependentsDepend
