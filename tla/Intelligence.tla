----------------------------- MODULE Intelligence -----------------------------
(***************************************************************************)
(* What shared/intelligence/ finds out about one variance for the prompts  *)
(* and templates of pass 5.  A dimension yields a small record, or Null    *)
(* where the code yields an empty note.  compute_multi_year_pattern and    *)
(* compute_anomaly_score ask for 12 and 3 months of history; the graph of  *)
(* the pipeline has one, so they never have a note and are left out.       *)
(***************************************************************************)
EXTENDS KnowledgeGraph

CONSTANTS
    Assumption,     \* budget_assumptions.yaml: fiscal year -> category -> percent or Null
    MarketNote      \* market_context.yaml: whether there is a note for the period's quarter

Percent100(amount) == IF amount.comparator = 0 THEN 0
                      ELSE (10000 * amount.variance) \div amount.comparator

AbsTotal(rows, K) == MapThenSumSet(LAMBDA k : Abs(rows[k].variance), K)

\* _compute_period_totals: of the kept rows of the period, whatever their view
\* and base; EBITDA is what is left of the absolute variances.
PeriodTotals(material, period) ==
    LET of(c) == AbsTotal(material, {k \in DOMAIN material :
                                        k.period = period /\ Category[k.account] = c})
    IN  [revenue |-> of("Revenue"), cogs |-> of("COGS"), opex |-> of("OpEx"),
         ebitda |-> of("Revenue") - of("COGS") - of("OpEx")]

\* compute_materiality_context: the total the variance is the largest part of.
MaterialityContext(variance, totals) ==
    LET some == {m \in DOMAIN totals : totals[m] # 0}
    IN  IF some = {} THEN Null
        ELSE [mostMaterialTo |-> CHOOSE m \in some :
                                    \A n \in some : Abs(totals[m]) <= Abs(totals[n])]

Controllability ==
    [fx |-> "uncontrollable", volume |-> "partially_controllable", price |-> "controllable",
     rate |-> "controllable", mix |-> "controllable", timing |-> "controllable",
     onetime |-> "controllable"]

\* classify_risk: by the largest driver, when it makes up 40 percent.
ClassifyRisk(split) ==
    LET parts == split.components
        sum == MapThenSumSet(LAMBDA c : Abs(parts[c]), DOMAIN parts)
        primary == CHOOSE c \in DOMAIN parts :
                       \A d \in DOMAIN parts : Abs(parts[d]) <= Abs(parts[c])
    IN  IF sum = 0 THEN Null
        ELSE [primary |-> primary,
              class |-> IF 100 * Abs(parts[primary]) >= 40 * sum
                        THEN Controllability[primary] ELSE "mixed_drivers"]

\* _extract_month on month numbers.
MonthOf(period) == ((period - 1) % 12) + 1

\* compute_cumulative_projection: the history, whatever year it is of, and the
\* current month, which get_period_history has put into the history already.
CumulativeProjection(variance, period, history) ==
    LET ytd == MapThenSumSet(LAMBDA h : h.variance, history) + variance
    IN  [ytd |-> ytd, fullYear |-> ytd + (ytd * (12 - MonthOf(period))) \div MonthOf(period)]

\* compute_persistence: from the first month of the history to the last, in
\* hundredths of a percent; a change of 0.3 points a month counts as stable.
Persistence(history) ==
    LET first == CHOOSE h \in history : \A i \in history : h.period <= i.period
        last == CHOOSE h \in history : \A i \in history : h.period >= i.period
        change == Abs(last.percent) - Abs(first.percent)
        months == Cardinality(history) - 1
    IN  CASE history = {} -> Null
          [] Cardinality(history) = 1 -> "insufficient"
          [] Cardinality(history) = 2 -> "new"
          [] OTHER -> IF Abs(change) <= 30 * months THEN "stable"
                      ELSE IF change < 0 THEN "decaying" ELSE "widening"

\* compute_dimensional_pivot: a node of some dimension with 60 percent of the
\* account's variance over all its kept rows.
DimensionalPivot(material, account) ==
    LET rows == {k \in DOMAIN material : k.account = account}
        sum == AbsTotal(material, rows)
        at(d, n) == AbsTotal(material, {k \in rows : NodeOf[k.slice][d] = n})
        nodes == {<<d, NodeOf[k.slice][d]>> : k \in rows, d \in DOMAIN NodeOf[SliceOrder[1]]}
        top == CHOOSE x \in nodes : \A y \in nodes : at(x[1], x[2]) >= at(y[1], y[2])
    IN  IF Cardinality(rows) < 2 \/ sum = 0 \/ 100 * at(top[1], top[2]) < 60 * sum
        THEN Null ELSE [dimension |-> top[1], node |-> top[2]]

\* compute_peer_comparison: whether four of five share the direction, and whether
\* this one is more than twice the median.
PeerComparison(g, peers, k) ==
    LET all == peers \cup {k}
        own == g.variances[k].variance
        size(j) == Abs(g.variances[j].variance)
        same == {j \in all : (g.variances[j].variance >= 0) = (own >= 0)}
        median == CHOOSE m \in {size(j) : j \in all} :
                      /\ Cardinality({j \in all : size(j) < m}) <= Cardinality(all) \div 2
                      /\ Cardinality({j \in all : size(j) <= m}) > Cardinality(all) \div 2
    IN  IF peers = {} THEN "isolated"
        ELSE IF 5 * Cardinality(same) < 4 * Cardinality(all) THEN "isolated"
        ELSE IF median > 0 /\ size(k) > 2 * median THEN "outlier" ELSE "systemic"

\* compute_causal_chain: how many partners score half or more.
CausalChain(correlations) ==
    LET strong == {c \in correlations : c.score >= 50}
    IN  IF strong = {} THEN Null
        ELSE [links |-> Cardinality(strong),
              strongest |-> CHOOSE c \in strong : \A d \in strong : d.score <= c.score]

\* compute_budget_gap: the percentage of the row against the assumption of the
\* year, when they are half a point apart.
BudgetGap(amount, category, period) ==
    LET year == FiscalYear[period]
        assumed == IF year \in DOMAIN Assumption /\ category \in DOMAIN Assumption[year]
                   THEN Assumption[year][category] ELSE Null
        gap == Percent100(amount) - 100 * assumed
    IN  IF assumed = Null \/ Abs(gap) < 50 THEN Null
        ELSE IF gap < 0 THEN "shortfall" ELSE "above plan"

\* compute_market_context: one note for the quarter of the period.
MarketContext(period) == IF MarketNote[period] THEN "market" ELSE Null

-----------------------------------------------------------------------------

Dimensions == <<"materiality", "risk", "anomaly", "peer", "causal", "projection",
                "persistence", "pivot", "multi_year", "budget", "market">>

\* _build_intelligence_maps, for one variance of the period's kept rows.
IntelligenceOf(g, material, decomposition, correlations, period, k) ==
    LET amount == material[k]
        past == GetPeriodHistory(g, k.account, BusinessUnit[k.slice], 36)
        history == {[period |-> p, variance |-> g.variances[past[p]].variance,
                     percent |-> Percent100(g.variances[past[p]])] : p \in DOMAIN past}
        split == IF k \in DOMAIN decomposition THEN decomposition[k] ELSE Null
    IN  [materiality |-> MaterialityContext(amount.variance, PeriodTotals(material, period)),
         risk |-> IF split = Null THEN Null ELSE ClassifyRisk(split),
         anomaly |-> Null,
         peer |-> PeerComparison(g, GetPeerVariances(g, k), k),
         causal |-> CausalChain(correlations),
         projection |-> CumulativeProjection(amount.variance, period, history),
         persistence |-> Persistence(history),
         pivot |-> DimensionalPivot(material, k.account),
         multi_year |-> Null,
         budget |-> BudgetGap(amount, Category[k.account], period),
         market |-> MarketContext(period)]

\* _collect_intelligence_notes: the first six dimensions that have a note.
IntelligenceNotes(found) ==
    LET noted == SelectSeq(Dimensions, LAMBDA d : found[d] # Null)
    IN  ToSet(SubSeq(noted, 1, Min({6, Len(noted)})))

===============================================================================
