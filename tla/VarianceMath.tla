----------------------------- MODULE VarianceMath -----------------------------
(***************************************************************************)
(* Pass 1 of the engine (services/computation/engine/pass1_variance.py):   *)
(* variances of the leaf accounts, their roll-up, the calculated accounts  *)
(* and the quarter and year views, as operators on tables.  A table is a   *)
(* function from keys to amounts; a slice stands for one combination of    *)
(* business unit, cost centre, geography, segment and line of business.    *)
(* Amounts are whole cents.                                                *)
(***************************************************************************)
EXTENDS Integers, Sequences, FiniteSetsExt, SequencesExt, TLC

CONSTANTS
    AccountOrder,   \* account_id of dim_account's rows, as a sequence
    Parent,         \* parent_id, Null at the root
    Category,       \* pl_category, Null where the source has none
    Formula,        \* calc_formula of the calculated accounts that have one
    Calculated,     \* accounts with is_calculated
    SliceOrder,     \* the slices as a sequence
    BusinessUnit,   \* bu_id of a slice
    NodeOf,         \* its node in each other dimension: slice -> dimension -> node
    Periods,        \* period_id, increasing numbers
    FiscalYear,     \* fiscal_year of a period
    FiscalQuarter,  \* fiscal_quarter of a period
    BaseOrder,      \* keys of _BASE_COLUMN_MAP, in its order
    Null

Accounts == ToSet(AccountOrder)
Slices == ToSet(SliceOrder)
Bases == ToSet(BaseOrder)

\* What the source assumes of dim_account: facts are booked on leaves, a
\* formula adds and subtracts accounts or sums the children of one.
ASSUME AccountsOK ==
    /\ AccountOrder \in Seq(Accounts) /\ SliceOrder \in Seq(Slices) /\ BaseOrder \in Seq(Bases)
    /\ Parent \in [Accounts -> Accounts \cup {Null}]
    /\ DOMAIN Formula \subseteq Calculated
    /\ Calculated \subseteq Accounts
    /\ Periods \subseteq Nat /\ IsFiniteSet(Periods)
    /\ "BUDGET" \in ToSet(BaseOrder)
    /\ \A s \in Slices : BusinessUnit[s] # Null

Position(seq, x) == CHOOSE i \in DOMAIN seq : seq[i] = x
BaseRank(b) == Position(BaseOrder, b)

Views == {"MTD", "QTD", "YTD"}

Children(p) == {a \in Accounts : Parent[a] = p /\ a \notin Calculated}
Leaves == {a \in Accounts \ Calculated : Children(a) = {}}

Key(a, s, p, v, b) ==
    [account |-> a, slice |-> s, period |-> p, view |-> v, base |-> b]

FactKeys == [account : Leaves, slice : Slices, period : Periods]

\* What the source assumes of fact_financials: whole amounts booked on leaf accounts
\* of dim_account, each with a budget.
FactsOK(facts) ==
    /\ DOMAIN facts \subseteq FactKeys
    /\ \A x \in DOMAIN facts : /\ facts[x].actual \in Int
                               /\ \A b \in Bases : facts[x].comparator[b] \in Int \cup {Null}
                               /\ facts[x].comparator["BUDGET"] # Null
                               /\ facts[x].fx \in Int \cup {Null}

\* The generator of fact_financials goes through all periods for each account and slice.
MonthsComplete(facts) ==
    \A x \in DOMAIN facts : \A p \in Periods : [x EXCEPT !.period = p] \in DOMAIN facts

Abs(n) == IF n < 0 THEN -n ELSE n

\* The numbers of a set in increasing order, each at the place that as many smaller
\* ones leave for it.
Ascending(S) ==
    [i \in 1..Cardinality(S) |-> CHOOSE n \in S : Cardinality({m \in S : m < n}) = i - 1]

\* The entries of a sequence that are in a set, in order: SelectSeq, in a form that
\* the provers can unfold.
Among(seq, S) ==
    LET places == Ascending({i \in DOMAIN seq : seq[i] \in S})
    IN  [i \in DOMAIN places |-> seq[places[i]]]

\* Rows of new, and those of old that new does not have.
Over(new, old) ==
    [k \in DOMAIN new \cup DOMAIN old |-> IF k \in DOMAIN new THEN new[k] ELSE old[k]]

Zero == [actual |-> 0, comparator |-> 0, variance |-> 0]

\* groupby(...)[amount_cols].sum() over the rows whose keys are in K.
Total(rows, K) ==
    [f \in DOMAIN Zero |-> MapThenSumSet(LAMBDA k : rows[k][f], K)]

-----------------------------------------------------------------------------

\* _compute_mtd_leaf_variances: a row for each base whose comparator is there.
LeafRows(facts) ==
    LET fact(k) == facts[[account |-> k.account, slice |-> k.slice, period |-> k.period]]
        valid == {k \in {Key(f.account, f.slice, f.period, "MTD", b) :
                             f \in DOMAIN facts, b \in Bases} :
                     fact(k).comparator[k.base] # Null}
    IN  [k \in valid |-> [actual |-> fact(k).actual,
                          comparator |-> fact(k).comparator[k.base],
                          variance |-> fact(k).actual - fact(k).comparator[k.base]]]

\* Rows of account a summed from the rows of the accounts in sources.
SumInto(rows, a, sources) ==
    LET from(k) == {j \in DOMAIN rows : j.account \in sources
                                        /\ [j EXCEPT !.account = a] = k}
    IN  [k \in {[j EXCEPT !.account = a] :
                    j \in {i \in DOMAIN rows : i.account \in sources}} |->
            Total(rows, from(k))]

\* _rollup_accounts: parents are summed from the leaf rows given, so the
\* roll-up reaches one level.
RollupAccounts(rows) ==
    FoldLeft(LAMBDA t, p : Over(SumInto(rows, p, Children(p)), t), rows, AccountOrder)

\* calc_dependencies of an account: what its formula is about.
Dependencies(a) ==
    IF Formula[a].op = "sum" THEN {Formula[a].of} ELSE Formula[a].plus \cup Formula[a].minus

\* No formula leads back to its account, and an account whose formula subtracts is
\* nobody's parent.
ASSUME FormulasOK ==
    /\ \A a \in DOMAIN Formula : Formula[a].op = "minus" => Children(a) = {}
    /\ \E level \in [DOMAIN Formula -> 0..(Cardinality(DOMAIN Formula) - 1)] :
          \A a, d \in DOMAIN Formula : d \in Dependencies(a) => level[d] < level[a]

\* _topological_sort_calcs: depth first, an account after what it depends on.  Accounts
\* are marked on the way down, so no way is longer than there are formulas.
TopologicalSort ==
    LET calc(S) == Among(AccountOrder, DOMAIN Formula \cap S)
        walks == [account : DOMAIN Formula, visited : SUBSET DOMAIN Formula,
                  resolved : Seq(DOMAIN Formula)]
        visit[n \in 0..Cardinality(DOMAIN Formula)] ==
            [x \in walks |->
                IF n = 0 \/ x.account \in x.visited THEN x
                ELSE LET step(y, d) == visit[n - 1][[y EXCEPT !.account = d]]
                         below == FoldLeft(step,
                                      [x EXCEPT !.visited = @ \cup {x.account}],
                                      calc(Dependencies(x.account)))
                     IN  [below EXCEPT !.resolved = Append(@, x.account)]]
        roots == calc(Accounts)
        start == [account |-> Head(roots), visited |-> {}, resolved |-> <<>>]
        all(y, a) == visit[Cardinality(DOMAIN Formula)][[y EXCEPT !.account = a]]
    IN  IF roots = <<>> THEN <<>> ELSE FoldLeft(all, start, roots).resolved

\* _evaluate_formula: one calculated account from the rows so far; an operand
\* without a row counts as zero.
FormulaRows(rows, a) ==
    LET f == Formula[a]
        refs == f.plus \cup f.minus
        keys == {[j EXCEPT !.account = a] :
                    j \in {i \in DOMAIN rows : i.account \in refs}}
        part(k, S) == Total(rows, {j \in DOMAIN rows :
                          j.account \in S /\ [j EXCEPT !.account = a] = k})
    IN  IF f.op = "sum"
        THEN SumInto(rows, a, Children(f.of))
        ELSE [k \in keys |-> [c \in DOMAIN Zero |->
                                 part(k, f.plus)[c] - part(k, f.minus)[c]]]

\* A wrong ResolveCalculated: every formula reads the rows there were before.
ResolveCalculated_AtOnce(rows) ==
    FoldLeft(LAMBDA t, a : Over(FormulaRows(rows, a), t), rows, TopologicalSort)

\* _resolve_calculated_rows
ResolveCalculated(rows) ==
    FoldLeft(LAMBDA t, a : Over(FormulaRows(t, a), t), rows, TopologicalSort)

SameYear(p, q) == FiscalYear[p] = FiscalYear[q]
SameQuarter(p, q) == SameYear(p, q) /\ FiscalQuarter[p] = FiscalQuarter[q]

SameGroup(view, p, q) == IF view = "QTD" THEN SameQuarter(p, q) ELSE SameYear(p, q)

\* The rows that make up row k of a view.
GroupOf(rows, k, view) ==
    {j \in DOMAIN rows : /\ j.account = k.account /\ j.slice = k.slice /\ j.base = k.base
                         /\ SameGroup(view, j.period, k.period)}

\* A wrong ViewRows: the view belongs to the first period of its group.
ViewRows_First(rows, view) ==
    LET place(k) == [k EXCEPT !.view = view, !.period =
                        Min({p \in {j.period : j \in DOMAIN rows} : SameGroup(view, p, k.period)})]
    IN  [k \in {place(j) : j \in DOMAIN rows} |-> Total(rows, GroupOf(rows, k, view))]

\* One view of _compute_qtd_ytd: the month rows of a group of periods summed,
\* in the last period the data has for the group, past or future.
ViewRows(rows, view) ==
    LET place(k) == [k EXCEPT !.view = view, !.period =
                        Max({p \in {j.period : j \in DOMAIN rows} : SameGroup(view, p, k.period)})]
    IN  [k \in {place(j) : j \in DOMAIN rows} |-> Total(rows, GroupOf(rows, k, view))]

\* _compute_qtd_ytd
QtdYtd(rows) == Over(rows, Over(ViewRows(rows, "QTD"), ViewRows(rows, "YTD")))

\* compute_raw_variances: context["all_variances"].
RawVariances(facts) ==
    QtdYtd(ResolveCalculated(RollupAccounts(LeafRows(facts))))

-----------------------------------------------------------------------------

\* The combinations of the members of four sequences, the last one running fastest.
Nested(a, b, c, d) ==
    LET n(i) == i - 1
    IN  [i \in 1..(Len(a) * Len(b) * Len(c) * Len(d)) |->
            <<a[(n(i) \div (Len(b) * Len(c) * Len(d))) + 1],
              b[((n(i) \div (Len(c) * Len(d))) % Len(b)) + 1],
              c[((n(i) \div Len(d)) % Len(c)) + 1],
              d[(n(i) % Len(d)) + 1]>>]

\* Every key there can be, in the order of the table: leaf rows by base, roll-up
\* rows by parent, calculated rows as they were resolved, the groups of a view.
KeyOrder ==
    LET months == Ascending(Periods)
        each(seq, F(_)) == [i \in DOMAIN seq |-> F(seq[i])]
        leaf(t) == Key(t[4], t[3], t[2], "MTD", t[1])
        summed(t) == Key(t[1], t[3], t[2], "MTD", t[4])
        quarter(t) == Key(t[3], t[2], t[1], "QTD", t[4])
        year(t) == Key(t[3], t[2], t[1], "YTD", t[4])
        isLeaf(a) == a \in Leaves
        isParent(a) == a \notin Leaves \cup DOMAIN Formula
    IN  each(Nested(BaseOrder, months, SliceOrder, SelectSeq(AccountOrder, isLeaf)), leaf)
        \o each(Nested(SelectSeq(AccountOrder, isParent), months, SliceOrder, BaseOrder), summed)
        \o each(Nested(TopologicalSort, months, SliceOrder, BaseOrder), summed)
        \o each(Nested(months, SliceOrder, AccountOrder, BaseOrder), quarter)
        \o each(Nested(months, SliceOrder, AccountOrder, BaseOrder), year)

TableOrder(K) == SelectSeq(KeyOrder, LAMBDA k : k \in K)

\* variance_pct >= percent in absolute value; no percentage of a zero comparator.
PctBreach(amount, percent) ==
    /\ amount.comparator # 0
    /\ Abs(amount.variance) * 100 >= percent * Abs(amount.comparator)

===============================================================================
