\* Typed values of one to three bytes in nodes of two bytes.
SPECIFICATION Spec
CONSTANTS
    BaseSize = 2
    Radix = 4
    WordSize = 8
    Inputs <- TypedInputs
    Received <- Datagrams
    MaxBytes = 4
    MaxWrites = 2
    Raw = Raw
CHECK_DEADLOCK FALSE
INVARIANTS
    CursorAgrees
    ItemsReadBack
    PeekIsUnread
