SPECIFICATION Spec
CONSTANTS
    Plain = {1, 2}
    Existing = {1}
    Group = {21}
    Sig = {s1}
    Item = {11, 12}
    PaidOn <- MCPaidOn
    ProductOf <- MCProductOf
    Today = 2
    Campaign = Campaign
    Names <- MCNames
    Keyword = {2}
    Links <- MCLinks
    None = None
    MaxRules = 2
    MaxUploads = 1
    MaxPending = 2
    MaxCommands = 3
INVARIANTS
    TypeOK
    
    CountedOnce
    AdsBelongToParents
PROPERTIES
    ConfirmedStays
