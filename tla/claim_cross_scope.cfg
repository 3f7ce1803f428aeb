SPECIFICATION Spec
CONSTANTS
    Namespaces = {"public", "s"}
    Public = "public"
    Tables <- MCTables
    NamespaceOf <- MCNamespaceOf
    Columns = {"a", "b"}
    Types <- ClaimTypes
    Defaults = {"0"}
    NoDefault = "none"
    AnyType = AnyType
    ConstraintNames <- MCConstraints
    Indexes = {"i"}
    Methods = {"btree"}
    Go = FALSE
    NoName = "-"
    Position <- MCPosition
    Lines <- ClaimLines
    Ids = {"x", "X", "y"}
    Uppercase <- MCUppercase
    Probe = "probe"
    Unnamed = "unnamed"
    Predicted <- MCPredicted
    Directories <- CrossScopeDirectories
INVARIANTS BlocksAreMergedAcrossScopes
CHECK_DEADLOCK FALSE
