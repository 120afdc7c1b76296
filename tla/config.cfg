SPECIFICATION Spec
CONSTANTS
    Vars <- MCVars
    Listed <- MCListed
    Default <- MCDefault
    Contents <- MCContents
    Broken = Broken
    BadText = BadText
    Direct <- MCDirect
    Callers = {t1, t2}
    Loader = loader
    NoCall = NoCall
    Limit = 3
    MaxEdits = 3
    MaxRestarts = 1
INVARIANTS
    ConfigTypeOK
    CopiesAgree
    RecordedMeansLoaded
PROPERTY
    LoadTakesEffect
CHECK_DEADLOCK FALSE
