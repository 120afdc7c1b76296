SPECIFICATION Spec
CONSTANTS
    Names <- MCNames
    Lower <- MCLower
    Values <- MCValues
    Numeral <- MCNumeral
    Settable <- MCSettable
    Bodies <- MCBodies
    Extensions <- MCExtensions
    NoText = NoText
    MaxSets = 4
    MaxHops = 2
INVARIANTS
    HttpTypeOK
    ArrivesIntact
    BodyDelimited
    OneConnectionLine
CHECK_DEADLOCK FALSE
