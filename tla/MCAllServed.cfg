SPECIFICATION FairSpec
CONSTANTS
    None = None
    Empty = Empty
    Self = Self
    User = User
    ProofCallback = ProofCallback
    Attestation = Attestation
    Account = Account
    BankKey = Account
    U128Max = 9
    F53Max = 9
    DefaultLimit = 2
    MaxLimit = 4
    AttestationIds = {Attestation, Empty}
    Attesters = {User}
    AttestationTexts = {"approved"}
    Balances <- MCBalances
    U64Max = 3
    PageLimit = 4
    MaxAttempts = 2
    MaxRemoteHeight = 2
    MaxHeight = 2
    MaxFaults = 1
    Requests = {}
    RequestKeys = {Attestation}
    SubscribeMsgs <- Mixed
PROPERTIES
    AllServed
    TasksComeToRest
    HubKeepsPromise
CHECK_DEADLOCK FALSE
