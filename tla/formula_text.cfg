\* Formulas of at most three operators over three literals.
CONSTANTS
    Number <- MCNumber
    Limit = 10
    MaxOperators = 3
SPECIFICATION Spec
INVARIANTS
    PairsGroup
    NoExcessParens
PROPERTIES
    TextSettles
    ValueSettles
