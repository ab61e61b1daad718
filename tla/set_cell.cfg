\* SetCell, step by step, on all acyclic tables of three cells.
CONSTANTS
    MAX_ROWS = 1
    MAX_COLS = 3
    ArgPos <- MCArgPos
    x1 = x1
    x2 = x2
    x3 = x3
    Addr = {x1, x2, x3, x4}
    Null = Null
    EmptyText = EmptyText
    PlainText = {}
    FormulaText <- MCFormulaText
    BadFormulaText = {bad}
    Value = {0}
    Zero = 0
    NoValue = NoValue
    TextValue <- MCTextValue
    RefsOf <- MCRefsOf
    Evaluate <- MCEvaluate
    Reads <- MCReads
    Layouts <- MCLayouts
    WrongLinks <- MCWrongLinks
    StackDepth = 4
SPECIFICATION FairStepsSpec
CHECK_DEADLOCK FALSE
INVARIANTS
    WalkTypeOK
    OneCallPerWay
PROPERTIES
    ImplementsSetCell
    SetCellEnds
