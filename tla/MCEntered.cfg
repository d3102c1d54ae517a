SPECIFICATION Spec
CONSTANTS
    None = None
    Empty = Empty
    Self = Self
    User = User
    ProofCallback = ProofCallback
    LeafKey = LeafKey
    U128Max = 9
    U64Max = 3
    Height = 1
    MaxDialogs = 2
    Calls = {call1, call2}
    Entries <- MCEntries
    Forms <- MCForms
    Presets <- MCPresets
SYMMETRY Symmetric
INVARIANT
    ConditionAsEntered
CHECK_DEADLOCK FALSE
