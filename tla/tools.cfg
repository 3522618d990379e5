SPECIFICATION Spec
CONSTANTS
    Named <- MCNamed
    Base64 = {"x"}
    Times = {"z"}
    ToolNames <- MCToolNames
    LocalTools <- MCLocalTools
    NamePrefixes <- MCPrefixes
    Joined <- MCJoined
    Pages <- MCPages
    MaxListed = 1
    MaxLog = 2
    OutputTypes <- MCTypes
    Replies <- MCReplies
    RepairConfigs <- MCRepairConfigs
INVARIANTS
    RoutesRight
    OutputConforms
