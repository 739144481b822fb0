\* Four sends over three ids and one key, two attempts each, two faults.
CONSTANTS
    i1 = i1
    i2 = i2
    i3 = i3
    k1 = k1
    NoKey = NoKey
    None = None
    Send <- Four
    Id <- ThreeIds
    Key <- OneKey
    IdOf <- Ids
    KeyOf <- Keys
    Payload <- Commands
    MaxAttempts = 2
    MaxFaults = 2
SPECIFICATION Spec
CHECK_DEADLOCK FALSE
INVARIANTS
    TypeOK
    KeyHasOneTask
PROPERTIES
    AnswersAgree
