SPECIFICATION Spec
CONSTANTS
    Known = {}
    Unusable = Unusable
    StaleAfterUpdates = 3
    Found = {}
    Offers <- PasteOne
    Edits = {}
    GroupNames = {}
    Remembered = {}
    Conds = {"geo"}
    Provs = {}
    Policies <- OnlyDirect
    Orders = {}
    Catalog <- NoCatalog
    AllVPN = AllVPN
    RuleSets = {}
    Documents = {}
    MaxKind = 2
    MaxWeight = 5
    MaxMembers = 2
    MaxOrder = 10
PROPERTY SourceDeleteKeepsTargets
CHECK_DEADLOCK FALSE
