SPECIFICATION Spec
CONSTANTS
    Names <- MCNames
    MaxFields = 3
INVARIANTS
    NestingIsFaithful
    LookupsAgree
    PartsKeepNames
CHECK_DEADLOCK FALSE
