\* Two clients against buckets of every kind of configuration.
CONSTANTS
    c1 = c1
    c2 = c2
    Clients = {c1, c2}
    Unset = Unset
    Rates = {Unset, 0, 20000}
    Bursts = {Unset, 0, 2}
    Switches = {"unset", "no", "yes"}
    Explicit <- ExplicitConfigs
    MaxTime = 4
    MaxCalls = 5
SPECIFICATION Spec
SYMMETRY SymClients
CHECK_DEADLOCK FALSE
INVARIANTS
    TypeOK
    BudgetIsExact
    NeverStricterThanConfigured
PROPERTIES
    BucketsKeepBudget
