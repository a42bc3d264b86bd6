SPECIFICATION Spec

CONSTANTS
    company = company
    rev = rev
    r1 = r1
    r2 = r2
    costs = costs
    c1 = c1
    tax = tax
    grossProfit = grossProfit
    east = east
    west = west
    Null = Null
    AccountOrder <- AccountRows
    Parent <- ParentOf
    Category <- CategoryOf
    Formula <- Formulas
    Calculated <- CalculatedAccounts
    SliceOrder <- SliceRows
    BusinessUnit <- Itself
    NodeOf <- Nodes
    Periods = {1, 2}
    FiscalYear <- OneYear
    FiscalQuarter <- OneYear
    BaseOrder <- BaseKeys
    MinCausalScore = 50
    MaxHops = 3
    NodeParent <- Hierarchy
    InverseSigned = {costs, c1, tax}
    SummaryCards <- Cards
    RevenueRow = rev
    RootAccount = company
    UnitOrder <- SliceRows
    Outputs <- Saved
    ChangedRows <- Changed
    MaxHistory = 2
    MaxChanges = 2
    MaxManual = 1
    Unstable = {"material", "trends"}
    MaxReloads = 1
    MaxFailures = 1

INVARIANTS
    TypeOK
    OneTimerPerPeriod
    GraphsKeepPace
    CascadeReachesTheTop
    RelationsAreMutual
    QueriesAgree

PROPERTY ChangesAreCascaded

CHECK_DEADLOCK FALSE
