SPECIFICATION DocsSpec
CONSTANTS
    Here = Here
    Own = "main"
    Ops = Ops
    Nil = Nil
    Inherit = Inherit
    Root = 0
    Handlers = {1, 2}
    Caller = Caller
    Worlds <- MCWorlds
    TagOrder <- MCTagOrder
    Words <- MCWords
    OddTags <- MCOddTags
    ClickWorlds <- MCClickWorlds
    MaxClicks = 4
INVARIANTS
    ConversionOrderFree
    CountersAgree
    ResolvedAsMeant
    EveryOperationOffered
    HandlersInOrder
    SignatureComplete
    HashLeadsBack
PROPERTIES
    ImplementsLoad
CHECK_DEADLOCK FALSE
