------------------------------ MODULE Materiality ------------------------------
(***************************************************************************)
(* Materiality thresholds (shared/config/thresholds.py) and the filter of  *)
(* pass 2 (services/computation/engine/pass2_threshold.py): a row of the   *)
(* current month is kept when it is material, netted or trending, and the  *)
(* quarter and year rows of a kept key come with it.                       *)
(***************************************************************************)
EXTENDS VarianceMath

CONSTANTS
    GlobalThreshold,   \* thresholds.yaml, global: [abs, pct]
    DomainThresholds,  \* domain_overrides: scope -> [abs, pct], Null for a missing entry
    RoleThresholds,    \* role_overrides: role -> [abs, pct]
    CloseWeek          \* close_week: [abs, pct]

\* What an override leaves out stays as it was.
Overridden(t, o) == [abs |-> IF o.abs = Null THEN t.abs ELSE o.abs,
                     pct |-> IF o.pct = Null THEN t.pct ELSE o.pct]

\* get_thresholds: global, then domain by category and by account name, then
\* role, then close week; each is more specific than the one before it.
GetThresholds(category, name, role, isCloseWeek) ==
    LET domain(t, d) == IF d \in DOMAIN DomainThresholds
                        THEN Overridden(t, DomainThresholds[d]) ELSE t
        byRole(t) == IF role \in DOMAIN RoleThresholds
                     THEN Overridden(t, RoleThresholds[role]) ELSE t
        byWeek(t) == IF isCloseWeek THEN Overridden(t, CloseWeek) ELSE t
    IN  byWeek(byRole(domain(domain(GlobalThreshold, category), name)))

\* is_material: either threshold is reached.
IsMaterial(amount, category) ==
    LET t == GetThresholds(category, Null, Null, FALSE)
    IN  Abs(amount.variance) >= t.abs \/ PctBreach(amount, t.pct)

-----------------------------------------------------------------------------

\* _KEY_COLS: what a row is about, without period, view and base.
DimKey(k) == [account |-> k.account, slice |-> k.slice]

\* A wrong NettedAccounts: the children of an offset are left out.
NettedAccounts_Parents(nettingFlags, period) ==
    {f.parent : f \in {g \in nettingFlags : g.period = period}}

\* _extract_netted_accounts: parents of the account checks and all children,
\* by account only, whatever slice the flag is about.
NettedAccounts(nettingFlags, period) ==
    UNION {(IF f.check = "cross_account" THEN {} ELSE {f.parent}) \cup f.children :
               f \in {g \in nettingFlags : g.period = period}}

\* _extract_trending_keys: of every flag, whenever the trend was.
TrendingKeys(trendFlags) == {f.key : f \in trendFlags}

Flags(rows, k, netted, trending) ==
    [material |-> IsMaterial(rows[k], Category[k.account]),
     netted |-> k.account \in netted,
     trending |-> DimKey(k) \in trending]

\* apply_threshold_filter: the flags of the kept rows.  A quarter or year row
\* takes the flags of the first kept month row of its key, of any base.
ApplyThresholdFilter(rows, nettingFlags, trendFlags, period) ==
    LET netted == NettedAccounts(nettingFlags, period)
        trending == TrendingKeys(trendFlags)
        flags == [k \in {j \in DOMAIN rows : j.period = period /\ j.view = "MTD"} |->
                     Flags(rows, k, netted, trending)]
        kept == {k \in DOMAIN flags : \E f \in DOMAIN flags[k] : flags[k][f]}
        first(k) == CHOOSE j \in kept : /\ DimKey(j) = DimKey(k)
                                        /\ \A i \in kept : DimKey(i) = DimKey(k)
                                              => BaseRank(j.base) <= BaseRank(i.base)
        others == {k \in DOMAIN rows : /\ k.period = period
                                       /\ k.view \in {"QTD", "YTD"}
                                       /\ \E j \in kept : DimKey(j) = DimKey(k)}
    IN  [k \in kept \cup others |-> IF k \in kept THEN flags[k] ELSE flags[first(k)]]

===============================================================================
