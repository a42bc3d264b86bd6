----------------------------- MODULE Decomposition -----------------------------
(***************************************************************************)
(* Pass 3 of the engine: the variance of a kept row split into drivers     *)
(* (pass3_decomposition.py and services/computation/decomposition/).       *)
(* Amounts are whole cents.  In the code a driver that falls on half a     *)
(* cent is rounded by its binary fraction; here it goes to the even cent.  *)
(***************************************************************************)
EXTENDS VarianceMath

\* round(v * pct / 100, 2)
Share(v, pct) ==
    LET down == (v * pct) \div 100
        rest == (v * pct) % 100
    IN  IF rest > 50 \/ (rest = 50 /\ down % 2 = 1) THEN down + 1 ELSE down

\* A wrong DecomposeRevenue: the FX effect is not taken out before the split.
DecomposeRevenue_WholeSplit(v, fx) ==
    LET effect == IF fx = Null \/ v = 0 THEN 0 ELSE fx
    IN  [components |-> [volume |-> Share(v, 60), price |-> Share(v, 25),
                         mix |-> Share(v, 10), fx |-> effect],
         residual |-> Share(v, 5)]

\* decompose_revenue: fx is the currency effect when the facts have both rates,
\* they differ, and the local amount is there; what remains is split.
DecomposeRevenue(v, fx) ==
    LET effect == IF fx = Null \/ v = 0 THEN 0 ELSE fx
        remaining == v - effect
    IN  [components |-> [volume |-> Share(remaining, 60), price |-> Share(remaining, 25),
                         mix |-> Share(remaining, 10), fx |-> effect],
         residual |-> Share(remaining, 5)]

\* decompose_cogs
DecomposeCogs(v) ==
    [components |-> [rate |-> Share(v, 50), volume |-> Share(v, 35), mix |-> Share(v, 15)],
     residual |-> 0]

\* decompose_opex
DecomposeOpex(v) ==
    [components |-> [rate |-> Share(v, 40), volume |-> Share(v, 30),
                     timing |-> Share(v, 20), onetime |-> Share(v, 10)],
     residual |-> 0]

DecomposableCategories == {"Revenue", "COGS", "OpEx"}

\* _lookup_ff_row: by the dimensions of the row, not by its view or base, so a
\* quarter, a year or a prior-year row is given the currency effect of the month
\* against the budget.  _build_ff_lookup reads the default data directory.
FxEffect(facts, k) ==
    LET f == [account |-> k.account, slice |-> k.slice, period |-> k.period]
    IN  IF f \in DOMAIN facts THEN facts[f].fx ELSE Null

\* The split of one row, chosen by pl_category.
DecomposeRow(facts, k, variance) ==
    CASE Category[k.account] = "Revenue" -> DecomposeRevenue(variance, FxEffect(facts, k))
      [] Category[k.account] = "COGS" -> DecomposeCogs(variance)
      [] Category[k.account] = "OpEx" -> DecomposeOpex(variance)

Decomposable(k) ==
    k.account \notin Calculated /\ Category[k.account] \in DecomposableCategories

\* decompose_variances: context["decomposition"], by variance_id.
DecomposeVariances(facts, material) ==
    [k \in {j \in DOMAIN material : Decomposable(j)} |->
        DecomposeRow(facts, k, material[k].variance)]

TotalExplained(split) ==
    MapThenSumSet(LAMBDA c : split.components[c], DOMAIN split.components)

===============================================================================
