SPECIFICATION Spec
CONSTANTS
    NoType = NoType
    NoBody = NoBody
    TypeArg = TypeArg
    NoKey = NoKey
    NoMap = NoMap
    NullScopes = NullScopes
    Keys = {7}
    MaxActs = 3
    Descriptions <- MCDescriptions
    Fills <- MCFills
INVARIANTS
    PageTellsNewest
    ThrobberTells
    GrantsKept
    IconsTellLastGrant
PROPERTIES
    CurlRepeatsRequest
    ThrobberStops
CHECK_DEADLOCK FALSE
