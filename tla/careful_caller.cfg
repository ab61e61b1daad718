\* Three positions, four heap blocks: a freed block can be taken again.
CONSTANTS
    MAX_ROWS = 3
    MAX_COLS = 1
    MaxDouble = 1
    ArgPos <- ContractArgs
    Addr = {x1, x2, x3, x4}
    Null = Null
    EmptyText = EmptyText
    one = one
    word = word
    PlainText <- MCPlainText
    FormulaText <- ColumnFormulas
    BadFormulaText = {bad}
    Value <- MCValue
    Zero <- MCZero
    NoValue = NoValue
    TextValue <- MCTextValue
    RefsOf <- FormulaReferencedCells
    Evaluate <- FormulaEvaluate
    Reads <- FormulaReads
SPECIFICATION RecordedSpec
SYMMETRY Symmetry
INVARIANTS
    TypeOK
    DependentsMirrorReferences
    CachedValuesCurrent
    NeverCrashes
PROPERTIES
    ImplementsContract
