----------------------------- MODULE KnowledgeGraph -----------------------------
(***************************************************************************)
(* The variance graph (shared/knowledge/networkx_graph.py) and its         *)
(* queries.  A graph is a record: the accounts it has nodes for, the        *)
(* variance nodes by key with their amounts, what was attached to account  *)
(* and variance nodes, the section edges, and the correlation edges with   *)
(* their scores.  Nodes of dimensions, units and periods have nothing      *)
(* attached that a query reads and are left out.                           *)
(***************************************************************************)
EXTENDS VarianceMath

CONSTANTS
    MinCausalScore,     \* min_score of get_root_cause_chain
    MaxHops             \* max_hops of get_root_cause_chain

\* No graph has been built.
NoGraph == <<>>

EmptyGraph ==
    [accounts |-> {}, variances |-> <<>>,
     correlations |-> <<>>, netting |-> {}, trend |-> <<>>,
     decomposition |-> <<>>, sections |-> <<>>]

-----------------------------------------------------------------------------
(* Building *)

\* _add_account_hierarchy; _add_calc_dependencies adds no edge, since
\* CALCULATED_ROW_DEPS has identifiers that dim_account does not use.
AddAccountHierarchy(g, accounts) == [g EXCEPT !.accounts = accounts]

\* _add_variances: rows without a variance_id get no node.
AddVariances(g, material) == [g EXCEPT !.variances = material]

\* A wrong AddCorrelations: the edge goes from the first variance only.
AddCorrelations_OneWay(g, correlations) ==
    LET has(c) == c.a \in DOMAIN g.variances /\ c.b \in DOMAIN g.variances
        edges == {<<c.a, c.b>> : c \in {d \in correlations : has(d)}}
        about(e) == {c \in correlations : <<c.a, c.b>> = e}
    IN  [g EXCEPT !.correlations =
            [e \in edges |-> (CHOOSE c \in about(e) : TRUE).score]]

\* _add_correlations: an edge each way when both variances have a node.  Of two
\* correlations of one pair the later row's score stays: a pair can be persistent
\* and an echo of the year before, which comes last.
AddCorrelations(g, correlations) ==
    LET has(c) == c.a \in DOMAIN g.variances /\ c.b \in DOMAIN g.variances
        edges == UNION {{<<c.a, c.b>>, <<c.b, c.a>>} : c \in {d \in correlations : has(d)}}
        about(e) == {c \in correlations : {c.a, c.b} = {e[1], e[2]}}
        last(e) == CHOOSE c \in about(e) :
                       c.type = "yoy_echo" \/ \A d \in about(e) : d.type # "yoy_echo"
    IN  [g EXCEPT !.correlations = [e \in edges |-> last(e).score]]

\* _add_netting: attached when the parent is a node, which a slice is not.
AddNetting(g, netting) == [g EXCEPT !.netting = {f.parent : f \in netting} \cap g.accounts]

\* _add_trends: the longest flag of an account, whichever slice it is about.
AddTrends(g, trends) ==
    LET of(a) == {t \in trends : t.key.account = a}
        longest(a) == CHOOSE t \in of(a) : \A u \in of(a) : u.length <= t.length
    IN  [g EXCEPT !.trend = [a \in {b \in g.accounts : of(b) # {}} |-> longest(a)]]

\* _add_decomposition
AddDecomposition(g, decomposition) ==
    [g EXCEPT !.decomposition =
        [k \in DOMAIN decomposition \cap DOMAIN g.variances |-> decomposition[k]]]

\* _add_sections: rows that have a category belong to its section of their period.
AddSections(g, material) ==
    [g EXCEPT !.sections = [k \in {j \in DOMAIN material : Category[j.account] # Null} |->
                               Category[k.account]]]

\* build_from_context: what is missing from the context is skipped; when no row is
\* material all rows become nodes.
BuildFromContext(acctMeta, material, all, correlations, netting, trends, decomposition) ==
    LET rows == IF DOMAIN material = {} /\ all # Null THEN all ELSE material
        nodes == AddVariances(AddAccountHierarchy(EmptyGraph, acctMeta), rows)
        flagged == AddTrends(AddNetting(AddCorrelations(nodes, correlations), netting), trends)
    IN  AddSections(AddDecomposition(flagged, decomposition), material)

\* build_from_data: the same from the tables on disk, the variances of one
\* period when one is asked for.
BuildFromData(tables, period) ==
    LET ofPeriod == {k \in DOMAIN tables.material : period = Null \/ k.period = period}
    IN  BuildFromContext(Accounts, [k \in ofPeriod |-> tables.material[k]], Null,
                         tables.correlations, tables.netting, tables.trends,
                         tables.decomposition)

-----------------------------------------------------------------------------
(* Queries *)

\* Rows of account a in the period, base and view of k.
RowsBeside(g, k, a) ==
    {j \in DOMAIN g.variances : /\ j.account = a /\ j.period = k.period
                                /\ j.base = k.base /\ j.view = k.view}

\* get_correlations: partners with their scores.
GetCorrelations(g, k) ==
    {[partner |-> e[2], score |-> g.correlations[e]] :
        e \in {x \in DOMAIN g.correlations : x[1] = k}}

\* A wrong GetAccountAncestors: the parent only.
GetAccountAncestors_Parent(g, a) ==
    IF Parent[a] \in g.accounts THEN <<Parent[a]>> ELSE <<>>

\* get_account_ancestors: from parent to root, over accounts that are nodes.
GetAccountAncestors(g, a) ==
    LET above[n \in 0..Cardinality(g.accounts)] ==
            IF n = 0 THEN [x \in g.accounts |-> <<>>]
            ELSE [x \in g.accounts |-> IF Parent[x] \notin g.accounts THEN <<>>
                                       ELSE <<Parent[x]>> \o above[n - 1][Parent[x]]]
    IN  IF a \in g.accounts THEN above[Cardinality(g.accounts)][a] ELSE <<>>

\* get_siblings: rows of other accounts under the same parent, in any slice.
GetSiblings(g, k) ==
    LET siblings == {a \in g.accounts : /\ a # k.account /\ Parent[a] # Null
                                        /\ Parent[a] = Parent[k.account]}
    IN  UNION {RowsBeside(g, k, a) : a \in siblings}

\* get_peer_variances: the account's rows of other business units.
GetPeerVariances(g, k) ==
    {j \in RowsBeside(g, k, k.account) : BusinessUnit[j.slice] # BusinessUnit[k.slice]}

\* get_period_history: one row a period, of any view, base and slice of the unit
\* (the node added last), the latest n periods.
GetPeriodHistory(g, a, unit, n) ==
    LET rows == {j \in DOMAIN g.variances : j.account = a /\ BusinessUnit[j.slice] = unit}
        periods == {j.period : j \in rows}
        kept == {p \in periods : Cardinality({q \in periods : q > p}) < n}
    IN  [p \in kept |-> Last(TableOrder({j \in rows : j.period = p}))]

\* get_cascade_chain_typed: the rows of every ancestor, of all slices, then the
\* sections of the row and of those rows, then the executive summary.
GetCascadeChain(g, k) ==
    LET ancestors == ToSet(GetAccountAncestors(g, k.account))
        parents == (UNION {RowsBeside(g, k, a) : a \in ancestors}) \ {k}
        sections == {g.sections[j] : j \in (parents \cup {k}) \cap DOMAIN g.sections}
    IN  IF k \notin DOMAIN g.variances THEN {}
        ELSE {[type |-> "parent_variance", level |-> 1, id |-> j] : j \in parents}
             \cup {[type |-> "section", level |-> 2, id |-> s] : s \in sections}
             \cup {[type |-> "executive", level |-> 3, id |-> k.period]}

\* get_full_context
GetFullContext(g, k) ==
    IF k \notin DOMAIN g.variances
    THEN [correlations |-> {}, siblings |-> {}, peers |-> {}, chain |-> <<>>,
          trend |-> FALSE, netting |-> FALSE, decomposition |-> FALSE, history |-> {}]
    ELSE [correlations |-> GetCorrelations(g, k),
          siblings |-> GetSiblings(g, k),
          peers |-> GetPeerVariances(g, k),
          chain |-> GetAccountAncestors(g, k.account),
          trend |-> k.account \in DOMAIN g.trend,
          netting |-> FALSE,   \* looked up on the variance node, attached to accounts
          decomposition |-> k \in DOMAIN g.decomposition,
          history |-> DOMAIN GetPeriodHistory(g, k.account, BusinessUnit[k.slice], 6)]

\* get_root_cause_chain: breadth first over edges of a good score; the hop at
\* which each variance was first reached.
GetRootCauseChain(g, k) ==
    LET next(S) == {e[2] : e \in {x \in DOMAIN g.correlations :
                       x[1] \in S /\ g.correlations[x] >= MinCausalScore}}
        wave[n \in 0..MaxHops] ==
            IF n = 0 THEN [seen |-> {k}, new |-> {k}]
            ELSE LET w == wave[n - 1]
                     new == next(w.new) \ w.seen
                 IN  [seen |-> w.seen \cup new, new |-> new]
        reached == wave[MaxHops].seen \ {k}
    IN  IF k \notin DOMAIN g.variances THEN <<>>
        ELSE [j \in reached |-> CHOOSE n \in 1..MaxHops : j \in wave[n].new]

\* get_variance_hubs: number of correlation edges; top_n is left to the caller.
\* Pass 5 calls it without the period and gets an error, which it swallows.
GetVarianceHubs(g, period) ==
    LET degree(k) == Cardinality(GetCorrelations(g, k))
    IN  [k \in {j \in DOMAIN g.variances : j.period = period /\ degree(j) > 0} |-> degree(k)]

\* extract_story_subgraph: the variances within a radius, of out-edges only.
\* Account, unit, period and section nodes lead to no variance but, from a
\* parent account, to its children's accounts.
ExtractStorySubgraph(g, k, radius) ==
    LET within[n \in 0..radius] ==
            IF n = 0 THEN {k}
            ELSE LET inner == within[n - 1]
                 IN  inner \cup {e[2] : e \in {x \in DOMAIN g.correlations : x[1] \in inner}}
    IN  IF k \in DOMAIN g.variances THEN within[radius] ELSE {}

\* estimate_fix_impact
EstimateFixImpact(g, k) ==
    IF k \notin DOMAIN g.variances THEN [direct |-> 0, affected |-> 0]
    ELSE [direct |-> g.variances[k].variance,
          affected |-> Len(GetAccountAncestors(g, k.account)) + 1]

===============================================================================
