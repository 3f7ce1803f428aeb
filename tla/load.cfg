SPECIFICATION Spec
CONSTANTS
    Namespaces = {"public", "s"}
    Public = "public"
    Tables <- MCTables
    NamespaceOf <- MCNamespaceOf
    Columns = {"a", "b"}
    Types <- MCTypes
    Defaults = {"0"}
    NoDefault = "none"
    AnyType = AnyType
    ConstraintNames <- MCConstraints
    Indexes = {"i"}
    Methods = {"btree"}
    Go = FALSE
    NoName = "-"
    Position <- MCPosition
    Lines <- MCLines
    Ids = {"x", "X", "y"}
    Uppercase <- MCUppercase
    Probe = "probe"
    Unnamed = "unnamed"
    Predicted <- MCPredicted
    Directories <- AllDirectories
INVARIANTS TypeOK ScanIsRight FilesInOrderLoad LastDefinitionWins ConflictsStopTheLoad GroupsListTheirBlocks ReadingsDoNotOverlap GroupsAreWritten TypesSettle TypesAreAsked
PROPERTIES LoadEnds
CHECK_DEADLOCK FALSE
