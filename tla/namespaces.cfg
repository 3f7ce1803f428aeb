SPECIFICATION Spec
CONSTANTS
    Namespaces <- TwoNamespaces
    Public = "public"
    Tables <- MCTables
    NamespaceOf <- SplitNamespaceOf
    Columns <- MCColumns
    Types <- MCTypes
    Defaults = {"0"}
    NoDefault = "none"
    AnyType = "ANY_TYPE"
    ConstraintNames <- MCConstraints
    Indexes <- MCIndexes
    Methods = {"btree", "gin"}
    Btree = "btree"
    Go = FALSE
    NoName = "-"
    Position <- SplitPosition
    Runners = {r1, r2}
    NoRunner = NoRunner
    DryRunners = {r2}
    MaxFaults = 1
    Scenarios <- SplitScenarios
INVARIANTS EmptyPlanMeansMeets PlanIsExecutable
PROPERTIES NeverStuck RunsKeepPromise
