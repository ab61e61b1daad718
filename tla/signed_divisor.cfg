\* The parentheses left out under a sign, as the code comments have it.
CONSTANTS
    Number <- MCNumber
    Limit = 10
    MaxOperators = 3
SPECIFICATION Spec
PROPERTY ParensKeepValue
