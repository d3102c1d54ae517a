SPECIFICATION Spec
CONSTANTS
    None = None
    Empty = Empty
    User = User
    Self = Self
    ProofCallback = ProofCallback
    OtherCallback = OtherCallback
    KeyWatched = KeyWatched
    KeyOther = KeyOther
    U128Max = 9
    U64Max = 3
    MaxHeight = 3
    MaxDepth = 2
    MaxForged = 1
    SubscribeMsgs <- MCSubscribeMsgs
    ProofMsgs <- MCProofMsgs
INVARIANTS
    IInv
    IdsAreDense
    NoReentrantCallback
    ReplyFindsTriggered
    TypeOK
    TriggeredIffDelivered
    DeliveredInTimeAndMet
PROPERTIES
    TerminalIsFinal
    KeepsPromise
CHECK_DEADLOCK FALSE
