SPECIFICATION FairSpec
CONSTANTS
    Namespaces <- MCNamespaces
    Public = "public"
    Tables <- MCTables
    NamespaceOf <- MCNamespaceOf
    Columns <- MCColumns
    Types <- MCTypes
    Defaults = {"0"}
    NoDefault = "none"
    AnyType = "ANY_TYPE"
    ConstraintNames <- MCConstraints
    Indexes <- MCIndexes
    Methods = {"btree", "gin"}
    Btree = "btree"
    Go = FALSE
    NoName = "-"
    Position <- MCPosition
    Runners = {r1, r2}
    NoRunner = NoRunner
    DryRunners = {}
    MaxFaults = 1
    Scenarios <- OverlapScenarios
INVARIANTS DoneMeansConverged
PROPERTIES NeverStuck RunsKeepPromise EventuallyMeets
