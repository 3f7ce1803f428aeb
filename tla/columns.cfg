SPECIFICATION Spec
CONSTANTS
    Namespaces <- MCNamespaces
    Public = "public"
    Tables <- MCTables
    NamespaceOf <- MCNamespaceOf
    Columns <- MCColumns
    Types <- MCTypes
    Defaults = {"0"}
    NoDefault = "none"
    AnyType = "ANY_TYPE"
    ConstraintNames <- MCConstraints
    Indexes <- MCIndexes
    Methods = {"btree", "gin"}
    Btree = "btree"
    Go = FALSE
    NoName = "-"
    Position <- MCPosition
    Runners = {r1}
    NoRunner = NoRunner
    DryRunners = {}
    MaxFaults = 1
    Scenarios <- ColumnScenarios
INVARIANTS PlanIsJustified DoneMeansConverged EmptyPlanMeansMeets
PROPERTIES NeverStuck RunsKeepPromise
