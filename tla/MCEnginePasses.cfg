SPECIFICATION Spec
CONSTANTS
    Null = Null
    ebitda = ebitda
    rev = rev
    r1 = r1
    r2 = r2
    grossProfit = grossProfit
    costs = costs
    c1 = c1
    opex = opex
    east = east
    west = west
    AccountOrder <- AccountRows
    Parent <- ParentOf
    Category <- CategoryOf
    Formula <- Formulas
    Calculated <- CalculatedAccounts
    SliceOrder <- SliceRows
    BusinessUnit <- Itself
    NodeOf <- Nodes
    Periods <- Months
    FiscalYear <- YearOf
    FiscalQuarter <- QuarterOf
    BaseOrder <- BaseKeys
    GlobalThreshold <- Global
    DomainThresholds <- DomainOverrides
    RoleThresholds <- RoleOverrides
    CloseWeek <- Global
    NettingRatio = 3
    Dispersion = 15
    MinConsecutive = 2
    MinScore = 30
    MaxPairs = 50
    MaxCrossPairs = 20
    MinCausalScore = 40
    MaxHops = 3
    Assumption <- Assumptions
    MarketNote <- Notes
    SectionAccounts <- Sections
    ProfitAccounts = {grossProfit, ebitda}
    RevenueAccount = rev
    EbitdaAccount = ebitda
    Profiles = {"offsets", "growth"}
    Facts <- Ledger
    Invocations <- Asked
    MaxRuns = 2
    MaxFailures = 1
INVARIANTS TypeOK CalculatedFollowFormula YearIsSumOfQuarters StreaksAreRuns
           NothingMaterialIsHidden DecompositionExplains NothingSilentlyMissing SectionsAddUp
PROPERTIES ReviewedNotRewritten OtherPeriodsKept
CHECK_DEADLOCK FALSE
