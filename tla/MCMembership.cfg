SPECIFICATION Spec
CONSTANTS
    Empty = Empty
    k1 = k1
    k2 = k2
    v1 = v1
    v2 = v2
    Stores = {"wasm", "bank"}
    Keys = {k1, k2}
    Values = {v1, v2}
    Chains <- MCChains
INVARIANTS
    OnlyCommittedValues
    HonestProofsAccepted
CHECK_DEADLOCK FALSE
