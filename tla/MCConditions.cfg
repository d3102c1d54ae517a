SPECIFICATION Spec
CONSTANTS
    None = None
    U128Max = 15
    F53Max = 8
    Conds <- AllConds
    Values <- AllValues
INVARIANTS
    ChecksAgree
    ThresholdSplitsValues
