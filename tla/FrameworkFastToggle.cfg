CONSTANTS
    link = link
    MinFailing = 1
    FallbackId = mode_fallback
    NoId = no_id
    CheckOrder <- MCCheckOrder
    OwnState = {}
    OptionsOf <- MCOptionsOf
    MaxNumActions = 3
    UserModes = {"POSCTL"}
    CanRunSets <- MCCanRunSets
    CheckModeFallback <- MCCheckModeFallback
    DelayParams = {40}
    MinTakeoverDelay = 0
    Dts = {4}
    DeferTimeouts = {}
    MaxAge = 1
SPECIFICATION ToggleSpec
PROPERTY ToggledFailureIsActedOn
