CONSTANTS
    link = link
    fence = fence
    FallbackId = mode_fallback
    NoId = no_id
    CheckOrder <- MCCheckOrder
    OwnState = {}
    OptionsOf <- MCOptionsOf
    MaxNumActions = 2
    UserModes = {"POSCTL", "AUTO_LAND"}
    CanRunSets <- MCCanRunSets
    CheckModeFallback <- MCCheckModeFallback
    DelayParams = {1}
    MinTakeoverDelay = 0
    Dts = {1}
    DeferTimeouts = {0, 1}
    MaxAge = 2
SPECIFICATION Spec
INVARIANTS
    TypeOK
    
    ActsOnWorstFailure
    TakeoverRespectsNever
    FailsafeHasCause
    DeferralIsAllowed
PROPERTIES
    
    NewFailsafeEndsTakeover
    LatchedActionsAreKept
    DeferralTimesOut
