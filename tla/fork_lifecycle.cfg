SPECIFICATION Spec
CONSTANTS
    MaxStarts = 2
INVARIANTS
    TypeOK
    RestartSucceeds
    ResidueOnlyIfBothKilled
PROPERTIES
    EndTogether
\* Nobody starts the program any more.
CHECK_DEADLOCK FALSE
