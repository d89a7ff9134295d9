SPECIFICATION Spec
CONSTANTS
    MaxVersion = 2
    MaxRestarts = 0
INVARIANTS
    BuiltIsCurrent
