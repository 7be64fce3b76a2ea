SPECIFICATION Spec
CONSTANTS
    Known = {}
    Unusable = Unusable
    StaleAfterUpdates = 3
    Found = {2}
    Offers <- PasteMany
    Edits <- OneEdit
    GroupNames = {"g"}
    Remembered <- OneGroup
    Conds = {"geo"}
    Provs = {}
    Policies <- OnlyDirect
    Orders = {5}
    Catalog <- SmallCatalog
    AllVPN = "all-vpn"
    RuleSets <- LiveRules
    Documents <- AllDocuments
    MaxKind = 2
    MaxWeight = 5
    MaxMembers = 1
    MaxOrder = 20
INVARIANTS TypeOK EnabledTargetsGroup
PROPERTIES IdsStayUnique ServersOwned ServerTargetsKept MembersKept SourcesIsolated AddedRouteLast BulkImportOnce
CHECK_DEADLOCK FALSE
