------------------------------ MODULE DataService ------------------------------
(***************************************************************************)
(* The data service (shared/data/service.py): the tables it holds in       *)
(* memory, the account metadata built from them, and its queries.  `t' is  *)
(* a set of tables; a query's filter is a record of a period (or Null), a  *)
(* business unit (or Null), a view, a base, and for each dimension that is *)
(* narrowed down a node of its hierarchy.  Percentages, names and rounding *)
(* are left out.                                                           *)
(***************************************************************************)
EXTENDS KnowledgeGraph

CONSTANTS
    NodeParent,         \* dim_hierarchy: dimension -> node -> parent node or Null
    InverseSigned,            \* accounts whose variance_sign is "inverse"
    SummaryCards,       \* _SUMMARY_CARD_ACCOUNTS, in order
    RevenueRow,         \* acct_revenue
    RootAccount,        \* acct_total_pl
    UnitOrder           \* bu_id in sorted order

\* What the source assumes of dim_hierarchy, dim_business_unit and dim_account: no node is
\* above itself, so that of any nodes one hangs under none of them; every unit is known
\* and has one place; the statement's top is an account.
ASSUME DimensionsOK ==
    /\ \A d \in DOMAIN NodeParent :
          LET nodes == DOMAIN NodeParent[d]
          IN  /\ IsFiniteSet(nodes) /\ Null \notin nodes
              /\ \A S \in SUBSET nodes : S # {} => \E n \in S : NodeParent[d][n] \notin S
    /\ \A s \in Slices : BusinessUnit[s] \in ToSet(UnitOrder)
    /\ UnitOrder \in Seq(ToSet(UnitOrder)) /\ IsInjective(UnitOrder)
    /\ SummaryCards \in Seq(ToSet(SummaryCards)) /\ RootAccount \in Accounts

-----------------------------------------------------------------------------
(* Tables and metadata *)

\* The children before any metadata is built.
NoChildren == [a \in Accounts |-> <<>>]

\* _build_account_metadata: in the order of dim_account each account is appended to
\* the children of its parent, which may be listed there already.
BuildAccountMetadata(children) ==
    LET listed(below, a) == IF Parent[a] = Null THEN below
                            ELSE [below EXCEPT ![Parent[a]] = Append(@, a)]
    IN  FoldLeft(listed, children, AccountOrder)

\* _resolve_hierarchy_descendants, breadth first: the node and all below it.
Descendants(dim, node) ==
    LET nodes == DOMAIN NodeParent[dim]
        wave[n \in 0..Cardinality(nodes)] ==
            IF n = 0 THEN {node}
            ELSE LET so_far == wave[n - 1]
                 IN  so_far \cup {m \in nodes : NodeParent[dim][m] \in so_far}
    IN  wave[Cardinality(nodes)]

\* _filter_variance
FilterVariance(t, f) ==
    {k \in DOMAIN t.material :
        /\ k.view = f.view /\ k.base = f.base
        /\ f.period \in {Null, k.period}
        /\ f.unit \in {Null, BusinessUnit[k.slice]}
        /\ \A d \in DOMAIN f.nodes : NodeOf[k.slice][d] \in Descendants(d, f.nodes[d])}

OfAccount(K, a) == {k \in K : k.account = a}

\* _is_favorable
IsFavorable(a, variance) == IF a \in InverseSigned THEN variance < 0 ELSE variance > 0

AnyMaterial(t, K) == \E k \in K : t.flags[k].material

-----------------------------------------------------------------------------
(* The dashboard *)

\* get_summary_cards: accounts without a row have no card.
GetSummaryCards(t, f) ==
    LET K == FilterVariance(t, f)
        card(a) == LET amount == Total(t.material, OfAccount(K, a))
                   IN  [account |-> a, amount |-> amount,
                        favorable |-> IsFavorable(a, amount.variance),
                        material |-> AnyMaterial(t, OfAccount(K, a))]
        shown == Among(SummaryCards, {k.account : k \in K})
    IN  [i \in DOMAIN shown |-> card(shown[i])]

\* get_success_metrics: counts; a row of a roll-up is not is_calculated and counts.
GetSuccessMetrics(t, f) ==
    LET rows == {k \in FilterVariance(t, f) : t.flags[k].material /\ k.account \notin Calculated}
        closed == {k \in DOMAIN t.review : t.review[k] \in {"ANALYST_REVIEWED", "APPROVED"}}
    IN  [total |-> Cardinality(rows),
         rootCause |-> Cardinality(rows \cap DOMAIN t.decomposition),
         commentary |-> Cardinality({k \in rows : t.source[k] # "template"}),
         closed |-> Cardinality(rows \cap closed)]

\* get_narrative_quality: rows of every view and base; the last ten engine runs.
GetNarrativeQuality(t, period) ==
    LET rows == {k \in DOMAIN t.material : /\ period \in {Null, k.period}
                                           /\ t.flags[k].material
                                           /\ k.account \notin Calculated}
        llm == {k \in rows : t.source[k] = "llm"}
    IN  [total |-> Cardinality(rows), llm |-> Cardinality(llm),
         template |-> Cardinality(rows) - Cardinality(llm),
         runs |-> [i \in 1..Min({10, Len(t.runs)}) |-> t.runs[Max({0, Len(t.runs) - 10}) + i]]]

\* get_waterfall: from the budget by a step for each unit to the actual.
GetWaterfall(t, f) ==
    LET rows == OfAccount(FilterVariance(t, f), RevenueRow)
        of(u) == {k \in rows : BusinessUnit[k.slice] = u}
        units == Among(UnitOrder, {BusinessUnit[k.slice] : k \in rows})
    IN  IF rows = {} THEN <<>>
        ELSE <<Total(t.material, rows).comparator>>
             \o [i \in DOMAIN units |-> Total(t.material, of(units[i])).variance]
             \o <<Total(t.material, rows).actual>>

\* get_heatmap: revenue rows by geography and unit; is_calculated is false of a
\* roll-up, so its row is added to those of the leaves.
GetHeatmap(t, f) ==
    LET rows == {k \in FilterVariance(t, f) :
                    Category[k.account] = "Revenue" /\ k.account \notin Calculated}
        cell(g, u) == {k \in rows : NodeOf[k.slice]["geo"] = g /\ BusinessUnit[k.slice] = u}
    IN  [gu \in {NodeOf[k.slice]["geo"] : k \in rows} \X {BusinessUnit[k.slice] : k \in rows} |->
            [value |-> Total(t.material, cell(gu[1], gu[2])).variance,
             material |-> AnyMaterial(t, cell(gu[1], gu[2]))]]

\* get_trends: the account's last n periods up to the one asked for.
GetTrends(t, f, a, n) ==
    LET rows == OfAccount(FilterVariance(t, [f EXCEPT !.period = Null]), a)
        upTo == {p \in {k.period : k \in rows} : f.period = Null \/ p <= f.period}
        kept == {p \in upTo : Cardinality({q \in upTo : q > p}) < n}
    IN  [p \in kept |-> Total(t.material, {k \in rows : k.period = p})]

-----------------------------------------------------------------------------
(* Lists, details and the statement *)

\* df.iloc[start:end]
PageOf(order, page, size) ==
    SubSeq(order, (page - 1) * size + 1, Min({(page - 1) * size + size, Len(order)}))

\* The rows of get_variance_list by the size of their variance, of equal ones any
\* first, but always the same: the sort is not stable.  Roll-ups are listed: they
\* are not is_calculated.
ListedRows(t, f, category) ==
    LET rows == {k \in FilterVariance(t, f) :
                    k.account \notin Calculated /\ category \in {Null, Category[k.account]}}
        size(k) == Abs(t.material[k].variance)
        listed[n \in 0..Cardinality(rows)] ==
            IF n = 0 THEN <<>>
            ELSE LET before == listed[n - 1]
                     rest == rows \ ToSet(before)
                 IN  Append(before, CHOOSE k \in rest : \A j \in rest : size(j) <= size(k))
    IN  listed[Cardinality(rows)]

\* get_variance_list
GetVarianceList(t, f, category, page, size) ==
    LET order == ListedRows(t, f, category)
    IN  [items |-> PageOf(order, page, size), total |-> Len(order),
         pages |-> Max({1, (Len(order) + size - 1) \div size})]

\* get_variance_detail: of a correlation the other row is shown.
GetVarianceDetail(t, k) ==
    IF k \notin DOMAIN t.material THEN Null
    ELSE [amount |-> t.material[k], flags |-> t.flags[k], source |-> t.source[k],
          decomposed |-> k \in DOMAIN t.decomposition,
          correlations |-> {[other |-> IF c.a = k THEN c.b ELSE c.a, score |-> c.score] :
                               c \in {d \in t.correlations : k \in {d.a, d.b}}}]

\* get_pl_statement: the lines of the tree from the top, by how many levels there can be
\* below; an account without rows has amounts of zero, and one that is listed twice as
\* a child has two lines.
GetPlStatement(t, children, f) ==
    LET K == FilterVariance(t, f)
        levels == Cardinality(Accounts)
        line(a, depth) == [account |-> a, depth |-> depth,
                           amount |-> Total(t.material, OfAccount(K, a)),
                           material |-> AnyMaterial(t, OfAccount(K, a))]
        lines[n \in 0..levels] ==
            LET under(a) == IF n = 0 THEN <<>>
                            ELSE FlattenSeq([i \in DOMAIN children[a] |-> lines[n - 1][children[a][i]]])
            IN  [a \in Accounts |-> <<line(a, levels - n)>> \o under(a)]
    IN  IF DOMAIN t.material = {} THEN <<>> ELSE lines[levels][RootAccount]

\* get_account_detail: its children that have rows, and the splits of its rows.
GetAccountDetail(t, children, f, a) ==
    LET K == FilterVariance(t, f)
        shown == Among(children[a], {k.account : k \in K})
    IN  [amount |-> Total(t.material, OfAccount(K, a)),
         children |-> [i \in DOMAIN shown |->
                          [account |-> shown[i],
                           amount |-> Total(t.material, OfAccount(K, shown[i]))]],
         splits |-> OfAccount(K, a) \cap DOMAIN t.decomposition]

\* get_dimension_hierarchy: the nodes that hang under no other one, with those
\* that hang under each.
GetDimensionHierarchy(dim) ==
    LET nodes == DOMAIN NodeParent[dim]
    IN  [roots |-> {n \in nodes : NodeParent[dim][n] \notin nodes},
         under |-> [n \in nodes |-> {m \in nodes : NodeParent[dim][m] = n}]]

\* get_periods: whether a period has rows.
GetPeriods(t) == [p \in Periods |-> \E k \in DOMAIN t.material : k.period = p]

-----------------------------------------------------------------------------
(* Alerts and texts *)

\* The nodes that alerts accept for the one that is asked for.  They look the nodes
\* below it up under the first half of the column's name, and no dimension is called
\* "geo" (the list of rows asks for "geography"): there a node stands for itself.
AlertNodes(d, node) == IF d = "geo" THEN {node} ELSE Descendants(d, node)

\* A wrong SliceMatches: a node stands for itself in every dimension.
SliceMatches_NodeOnly(slice, f) ==
    /\ f.unit \in {Null, BusinessUnit[slice]}
    /\ \A d \in DOMAIN f.nodes : NodeOf[slice][d] = f.nodes[d]

\* Whether what is about a slice passes the unit and the nodes of a filter.
SliceMatches(slice, f) ==
    /\ f.unit \in {Null, BusinessUnit[slice]}
    /\ \A d \in DOMAIN f.nodes : NodeOf[slice][d] \in AlertNodes(d, f.nodes[d])

\* The largest of one sign among the amounts of a flag's children.
LargestChild(amounts, sign) ==
    LET mine == {c \in DOMAIN amounts : amounts[c] * sign > 0}
    IN  IF mine = {} THEN Null
        ELSE CHOOSE c \in mine : \A d \in mine : amounts[d] * sign <= amounts[c] * sign

\* get_netting_alerts: the flags with the largest gross movements, each with the
\* children that offset most.
GetNettingAlerts(t, f, limit) ==
    LET flags == {x \in t.netting : x.period = f.period /\ SliceMatches(x.slice, f)}
        ahead(x) == {y \in flags : y.gross > x.gross}
    IN  {[left |-> LargestChild(x.amounts, 1), right |-> LargestChild(x.amounts, -1),
          net |-> x.net] : x \in {y \in flags : Cardinality(ahead(y)) < limit}}

\* get_trend_alerts: trends that go on in the period or later ones; of an account
\* the one with the largest cumulative amount (of equal ones any), so that one is
\* behind as many others as there are accounts with a larger one.
GetTrendAlerts(t, f, limit) ==
    LET flags == {x \in t.trends : /\ f.period = Null \/ x.latest >= f.period
                                   /\ SliceMatches(x.key.slice, f)}
        larger(x, y) == Abs(x.cumulative) > Abs(y.cumulative)
        firsts == {x \in flags : \A y \in flags : y.key.account = x.key.account => ~larger(y, x)}
        ahead(x) == {y.key.account : y \in {z \in firsts : larger(z, x)}}
    IN  {[account |-> x.key.account, length |-> x.length, cumulative |-> x.cumulative] :
            x \in {y \in firsts : Cardinality(ahead(y)) < limit}}

\* get_section_narratives: those of the unit, or of the company without one.
GetSectionNarratives(t, f) ==
    {s \in t.sections : /\ s.period = f.period /\ s.view = f.view
                        /\ s.id.base = f.base /\ s.id.unit = f.unit}

\* get_executive_summary
GetExecutiveSummary(t, f) ==
    LET mine == {s \in t.summaries : /\ s.period = f.period /\ s.view = f.view
                                     /\ s.id.base = f.base /\ s.id.unit = f.unit}
    IN  IF mine = {} THEN Null ELSE CHOOSE s \in mine : TRUE

===============================================================================
