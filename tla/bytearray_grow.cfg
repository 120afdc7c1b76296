\* A write that needs more room than the last node has.
SPECIFICATION Spec
CONSTANTS
    BaseSize = 2
    Radix = 4
    WordSize = 8
    Inputs <- TypedInputs
    Received <- Datagrams
    MaxBytes = 4
    MaxWrites = 2
    Raw = Raw
CHECK_DEADLOCK FALSE
INVARIANT WritesFit
