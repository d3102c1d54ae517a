SPECIFICATION DeploymentSpec
CONSTANTS
    None = None
    Empty = Empty
    Self = Self
    User = User
    Owner = Owner
    ProofCallback = ProofCallback
    Attestation = Attestation
    Account = Account
    BankKey = Account
    U128Max = 9
    F53Max = 9
    DefaultLimit = 2
    MaxLimit = 4
    AttestationIds = {Attestation}
    Attesters = {}
    AttestationTexts = {"pending"}
    Balances <- MCBalances
    U64Max = 2
    PageLimit = 4
    MaxAttempts = 1
    MaxRemoteHeight = 2
    MaxHeight = 1
    MaxFaults = 1
    Requests = {"request"}
    RequestKeys = {Attestation}
    SubscribeMsgs = {}
    AttestationFlag = Attestation
    ClientFlag = "07-tendermint-0"
INVARIANTS
    CompleteMeansRecorded
    RefusedMeansServed
    OutcomeIsReal
    OneCallPerButton
PROPERTIES
    ButtonsComeBack
CHECK_DEADLOCK FALSE
