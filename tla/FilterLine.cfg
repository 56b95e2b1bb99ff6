SPECIFICATION Spec
CONSTANTS
    Chains <- MCChains
    Key <- MCKey
    MaxPressure = 2
    MaxFrame = 2
INVARIANTS
    TypeOK
    KeysAccountedFor
    PressureFollowed
    LastEventSynced
    NoEmptyFrame
