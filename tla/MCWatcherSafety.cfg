SPECIFICATION Spec
CONSTANTS
    None = None
    Empty = Empty
    Self = Self
    User = User
    ProofCallback = ProofCallback
    Attestation = Attestation
    Account = Account
    BankKey = Account
    U128Max = 9
    F53Max = 9
    DefaultLimit = 2
    MaxLimit = 4
    AttestationIds = {Attestation, Empty}
    Attesters = {User}
    AttestationTexts = {"approved", "pending"}
    Balances <- MCBalances
    U64Max = 2
    PageLimit = 4
    MaxAttempts = 2
    MaxRemoteHeight = 3
    MaxHeight = 1
    MaxFaults = 1
    Requests = {"request"}
    RequestKeys = {Attestation}
    SubscribeMsgs <- AnyStore
INVARIANTS
    TypeOK
    MessagesVerify
    TriggeredWasTrue
    SentFitsSubscription
    OneEffectPerSubscription
CHECK_DEADLOCK FALSE
