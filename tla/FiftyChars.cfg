SPECIFICATION Spec
CONSTANTS
    Lengths <- MCLengths
    NoLine = NoLine
INVARIANTS
    OnlyBadLengthsAreRefused
