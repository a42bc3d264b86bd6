-------------------------------- MODULE Cascade --------------------------------
(***************************************************************************)
(* The gateway's data service with its cached graphs and the cascade       *)
(* manager (shared/cascade/): changes of commentaries are debounced for    *)
(* each period, and then the commentaries above the changed one are made   *)
(* again.  The engine, another process, saves its tables meanwhile.        *)
(*                                                                         *)
(* Everything runs on one event loop.  regenerate_chain awaits nothing, so *)
(* a cascade is one step, and no two of them overlap (_running is empty    *)
(* whenever another coroutine runs).  The sleep of a debounce task is the  *)
(* one point at which it can be cancelled.                                 *)
(***************************************************************************)
EXTENDS DataService

CONSTANTS
    Outputs,        \* what the engine saves, one set of tables after another
    ChangedRows,    \* rows whose commentary is changed
    MaxHistory,     \* MAX_HISTORY
    MaxChanges,     \* bound: calls of on_narrative_changed
    MaxManual,      \* bound: calls of execute_now
    Unstable,       \* files whose read may fail, of those the engine writes
    MaxReloads,     \* bound: reloads
    MaxFailures     \* bound: reads of tables that fail

Rows == [account : Accounts, slice : Slices, period : Periods, view : Views, base : Bases]

\* What the steps of a cascade make of a parent row, a section, the company.
Remade == [amount : Int, drivers : SUBSET Rows, favorable : Nat, children : Nat]
          \cup [total : Int, count : Nat]
          \cup [revenue : Int, costs : Int, net : Int]

\* The engine has saved once before the service starts, what it keeps are rows of
\* pass 1, sums and differences of leaves and so with variances that are what actuals
\* are over comparators, with flags of whole amounts; only rows of known periods change.
ASSUME CascadeConstantsOK ==
    /\ 1 \in DOMAIN Outputs /\ DOMAIN Outputs \subseteq Nat \ {0}
    /\ \A v \in DOMAIN Outputs : \A k \in DOMAIN Outputs[v].material :
          /\ k \in Rows
          /\ Outputs[v].material[k] \in [actual : Int, comparator : Int, variance : Int]
          /\ Outputs[v].material[k].variance
                = Outputs[v].material[k].actual - Outputs[v].material[k].comparator
    /\ \A v \in DOMAIN Outputs : LET t == Outputs[v] IN
          /\ IsFiniteSet(t.netting) /\ IsFiniteSet(t.trends)
          /\ \A x \in t.netting : x.slice \in Slices /\ x.gross \in Int
          /\ \A x \in t.trends : x.key.slice \in Slices /\ x.cumulative \in Int
    /\ \A k \in ChangedRows : k.period \in Periods
    /\ Null \notin Nat /\ Null \notin Accounts /\ Null \notin ChangedRows /\ Null \notin Remade
    /\ Unstable \subseteq {"material", "decomposition", "correlations", "netting", "trends",
                          "sections", "summaries", "review", "runs"}
    /\ {MaxHistory, MaxChanges, MaxManual, MaxReloads, MaxFailures, MaxHops} \subseteq Nat

VARIABLES
    disk,           \* the tables on disk, by number
    tables,         \* _tables: the number loaded
    unread,         \* the files that could not be read then, whose tables are empty
    children,       \* _account_children
    graphs,         \* _graph_cache: period -> the number it was built from, or Null
    timers,         \* the debounce tasks: [row, period, state]
    pending,        \* _pending: period -> its task or Null
    triggers,       \* _pending_triggers: period -> the changed row or Null
    history,        \* _history
    due,            \* ghost: periods with a change that no cascade has followed
    lost,           \* ghost: periods whose cascade failed
    manual, reloads, failures   \* bounded numbers of calls and faults

service == <<tables, unread, children, graphs>>
manager == <<timers, pending, triggers, history, due, lost>>
vars == <<disk, tables, unread, children, graphs, timers, pending, triggers, history,
          due, lost, manual, reloads, failures>>

NoRows == [material |-> <<>>, flags |-> <<>>, source |-> <<>>, review |-> <<>>,
           decomposition |-> <<>>, correlations |-> {}, netting |-> {}, trends |-> {},
           sections |-> {}, summaries |-> {}, runs |-> <<>>]

Tables(v) == IF v = 0 THEN NoRows ELSE Outputs[v]

\* The number of the rows that are served, 0 when they could not be read.
RowsLoaded == IF "material" \in unread THEN 0 ELSE tables

\* The flags and the origin of a text are columns of its row.
FileWith(n) == IF n \in {"flags", "source"} THEN "material" ELSE n

\* What is served after saving v was loaded but for the files U.
Served(v, U) ==
    [n \in DOMAIN NoRows |-> IF FileWith(n) \in U THEN NoRows[n] ELSE Outputs[v][n]]

\* _build_graph: from the tables on disk.
Graph(v, period) == BuildFromData(Outputs[v], period)

Init ==
    /\ disk = 1
    /\ tables = 1
    /\ unread = {}
    /\ children = BuildAccountMetadata(NoChildren)
    /\ graphs = [p \in Periods |-> Null]
    /\ timers = <<>>
    /\ pending = [p \in Periods |-> Null]
    /\ triggers = [p \in Periods |-> Null]
    /\ history = <<>>
    /\ due = {} /\ lost = {}
    /\ manual = 0 /\ reloads = 0 /\ failures = 0

-----------------------------------------------------------------------------
(* CascadeRegenerator *)

\* _get_material_variances: always the month against the budget.
MaterialVariances(t, period) ==
    {k \in DOMAIN t.material : k.period = period /\ k.view = "MTD" /\ k.base = "BUDGET"}

LargestRows(t, K) ==
    {k \in K : Cardinality({j \in K : Abs(t.material[j].variance)
                                        > Abs(t.material[k].variance)}) < 3}

\* _regenerate_parent: from the rows of its child accounts, of every slice.
RegenerateParent(t, below, period, k) ==
    LET M == MaterialVariances(t, period)
        rows == {j \in M : j.account \in ToSet(below[k.account])}
    IN  IF rows = {} \/ k \notin M THEN Null
        ELSE [amount |-> t.material[k].variance, drivers |-> LargestRows(t, rows),
              favorable |-> Cardinality({j \in rows : t.material[j].variance > 0}),
              children |-> Cardinality(rows)]

\* _regenerate_section: roll-up rows are of the category too and are added in.
RegenerateSection(t, period, section) ==
    LET rows == {k \in MaterialVariances(t, period) : Category[k.account] = section}
    IN  IF rows = {} THEN Null
        ELSE [total |-> Total(t.material, rows).variance, count |-> Cardinality(rows)]

\* _regenerate_executive
RegenerateExecutive(t, period) ==
    LET rows == MaterialVariances(t, period)
        of(S) == Total(t.material, {k \in rows : Category[k.account] \in S}).variance
    IN  IF rows = {} THEN Null
        ELSE [revenue |-> of({"Revenue"}), costs |-> of({"COGS", "OpEx"}),
              net |-> of({"Revenue", "COGS", "OpEx"})]

Regenerate(t, below, period, entry) ==
    CASE entry.type = "parent_variance" -> RegenerateParent(t, below, period, entry.id)
      [] entry.type = "section" -> RegenerateSection(t, period, entry.id)
      [] entry.type = "executive" -> RegenerateExecutive(t, period)

\* regenerate_chain over the chain of row k.  What is made is put into a copy of
\* the rows and counted as regenerated; a table without columns (v is 0) makes
\* every step an error.  The result tells which tables graph (g) and rows (v) were.
RegenerateChain(g, v, below, period, k, chain) ==
    [trigger |-> k, period |-> period, rows |-> v, graph |-> g,
     regenerated |-> {e \in chain : v # 0 /\ Regenerate(Tables(v), below, period, e) # Null},
     skipped |-> {e \in chain : v # 0 /\ Regenerate(Tables(v), below, period, e) = Null},
     errors |-> {e \in chain : v = 0}]

\* A wrong Remembered: one result too many is kept.
Remembered_OneMore(result) ==
    LET all == Append(history, result)
    IN  SubSeq(all, Max({1, Len(all) - MaxHistory}), Len(all))

\* _add_to_history
Remembered(result) ==
    LET all == Append(history, result)
    IN  SubSeq(all, Max({1, Len(all) - MaxHistory + 1}), Len(all))

-----------------------------------------------------------------------------
(* CascadeManager *)

\* A graph that is not cached is built from disk, which may fail on a table that
\* is being written; the caller's cascade then fails with it.
Runs(k, period) ==
    LET v == IF graphs[period] = Null THEN disk ELSE graphs[period]
    IN  /\ graphs' = [graphs EXCEPT ![period] = v]
        /\ \E chain \in {GetCascadeChain(Graph(v, period), k)} :
              history' = Remembered(RegenerateChain(v, RowsLoaded, children, period, k, chain))
        /\ due' = due \ {period}
        /\ UNCHANGED <<lost, failures>>

Fails(period) ==
    /\ graphs[period] = Null
    /\ failures < MaxFailures
    /\ failures' = failures + 1
    /\ lost' = lost \cup {period}
    /\ UNCHANGED <<graphs, history, due>>

Cancelled(S) == [i \in DOMAIN timers |->
                    IF i \in S THEN [timers[i] EXCEPT !.state = "cancelled"] ELSE timers[i]]

\* A wrong OnNarrativeChanged: the earlier timer goes on.
OnNarrativeChanged_KeepsTimer(k) ==
    /\ Len(timers) < MaxChanges
    /\ timers' = Append(timers, [row |-> k, period |-> k.period, state |-> "sleeping"])
    /\ pending' = [pending EXCEPT ![k.period] = Len(timers) + 1]
    /\ triggers' = [triggers EXCEPT ![k.period] = k]
    /\ due' = due \cup {k.period}
    /\ lost' = lost \ {k.period}
    /\ UNCHANGED <<disk, service, history, manual, reloads, failures>>

\* A wrong OnNarrativeChanged: a timer that is cancelled is not started again.
OnNarrativeChanged_OnlyCancels(k) ==
    /\ Len(timers) < MaxChanges
    /\ IF pending[k.period] = Null
       THEN /\ timers' = Append(timers, [row |-> k, period |-> k.period, state |-> "sleeping"])
            /\ pending' = [pending EXCEPT ![k.period] = Len(timers) + 1]
       ELSE /\ timers' = Cancelled({pending[k.period]})
            /\ pending' = [pending EXCEPT ![k.period] = Null]
    /\ triggers' = [triggers EXCEPT ![k.period] = k]
    /\ due' = due \cup {k.period}
    /\ lost' = lost \ {k.period}
    /\ UNCHANGED <<disk, service, history, manual, reloads, failures>>

\* on_narrative_changed: the period's timer starts again.
OnNarrativeChanged(k) ==
    /\ Len(timers) < MaxChanges
    /\ timers' = Append(Cancelled({pending[k.period]}),
                        [row |-> k, period |-> k.period, state |-> "sleeping"])
    /\ pending' = [pending EXCEPT ![k.period] = Len(timers) + 1]
    /\ triggers' = [triggers EXCEPT ![k.period] = k]
    /\ due' = due \cup {k.period}
    /\ lost' = lost \ {k.period}
    /\ UNCHANGED <<disk, service, history, manual, reloads, failures>>

\* The sleep of a debounce task ends.
Wakes(i) ==
    /\ i \in DOMAIN timers /\ timers[i].state = "sleeping"
    /\ timers' = [timers EXCEPT ![i].state = "done"]

\* _debounced_cascade after its sleep: whatever task is pending is taken off with
\* its trigger.
DebouncedCascade(i) ==
    /\ Wakes(i)
    /\ LET p == timers[i].period
       IN  /\ pending' = [pending EXCEPT ![p] = Null]
           /\ triggers' = [triggers EXCEPT ![p] = Null]
           /\ Runs(IF triggers[p] = Null THEN timers[i].row ELSE triggers[p], p) \/ Fails(p)
    /\ UNCHANGED <<disk, tables, unread, children, manual, reloads>>

\* execute_now: the period's timer is given up, whichever row it was for.
ExecuteNow(k) ==
    /\ manual < MaxManual
    /\ manual' = manual + 1
    /\ timers' = Cancelled({pending[k.period]})
    /\ pending' = [pending EXCEPT ![k.period] = Null]
    /\ triggers' = [triggers EXCEPT ![k.period] = Null]
    /\ Runs(k, k.period) \/ Fails(k.period)
    /\ UNCHANGED <<disk, tables, unread, children, reloads>>

-----------------------------------------------------------------------------
(* The data service and the engine *)

\* The engine saves its next tables.
EngineSaves ==
    /\ disk + 1 \in DOMAIN Outputs
    /\ disk' = disk + 1
    /\ UNCHANGED <<service, manager, manual, reloads, failures>>

\* _load_all_tables: a table that cannot be read becomes empty.
LoadAllTables ==
    /\ tables' = disk
    /\ unread' \in SUBSET Unstable
    /\ failures' = failures + Cardinality(unread')
    /\ failures' <= MaxFailures

\* A wrong Reload: the graphs stay.
Reload_KeepsGraphs ==
    /\ reloads < MaxReloads
    /\ reloads' = reloads + 1
    /\ LoadAllTables
    /\ children' = BuildAccountMetadata(children)
    /\ UNCHANGED <<disk, graphs, manager, manual>>

\* The administrator's /reload of the gateway: _load_all_tables,
\* _build_account_metadata on top of the metadata that is there, and
\* invalidate_graph_cache.  (It starts the review store's table anew as well, which
\* no query here reads.)
Reload ==
    /\ reloads < MaxReloads
    /\ reloads' = reloads + 1
    /\ LoadAllTables
    /\ children' = BuildAccountMetadata(children)
    /\ graphs' = [p \in Periods |-> Null]
    /\ UNCHANGED <<disk, manager, manual>>

Next ==
    \/ \E k \in ChangedRows : OnNarrativeChanged(k) \/ ExecuteNow(k)
    \/ \E i \in 1..MaxChanges : DebouncedCascade(i)
    \/ EngineSaves
    \/ Reload

\* A sleep ends, and the loop resumes its task: DebouncedCascade is the only step
\* that wakes one.
Fairness == \A i \in 1..MaxChanges : WF_timers(Wakes(i))

Spec == Init /\ [][Next]_vars /\ Fairness

-----------------------------------------------------------------------------
(* Properties *)

TypeOK ==
    /\ disk \in DOMAIN Outputs
    /\ tables \in DOMAIN Outputs /\ unread \subseteq Unstable
    /\ children \in [Accounts -> Seq(Accounts)]
    /\ graphs \in [Periods -> DOMAIN Outputs \cup {Null}]
    /\ \A i \in DOMAIN timers : /\ timers[i].row \in ChangedRows
                                /\ timers[i].state \in {"sleeping", "cancelled", "done"}
    /\ pending \in [Periods -> DOMAIN timers \cup {Null}]
    /\ triggers \in [Periods -> ChangedRows \cup {Null}]
    /\ Len(history) <= MaxHistory
    /\ \A h \in ToSet(history) : h.errors = {} \/ h.regenerated \cup h.skipped = {}

\* A period is pending exactly when one timer of it runs, and that is the timer
\* of the last change of the period, whose row is the trigger: the bookkeeping
\* of the debounce (_pending, _pending_triggers and the tasks) stays together.
OneTimerPerPeriod ==
    \A p \in Periods :
        /\ {i \in DOMAIN timers : timers[i].period = p /\ timers[i].state = "sleeping"}
               = {pending[p]} \ {Null}
        /\ pending[p] = Null <=> triggers[p] = Null
        /\ pending[p] # Null =>
              /\ \A i \in DOMAIN timers : timers[i].period = p => i <= pending[p]
              /\ triggers[p] = timers[pending[p]].row

\* A cached graph is never older than the rows that are served with it, however
\* saves of the engine, reloads and cascades follow each other.
GraphsKeepPace ==
    \A p \in Periods : graphs[p] # Null => graphs[p] >= tables

\* Accounts under a, at any depth.
Under(a) ==
    LET wave[n \in 0..Cardinality(Accounts)] ==
            IF n = 0 THEN {a}
            ELSE LET so_far == wave[n - 1]
                 IN  so_far \cup {b \in Accounts : Parent[b] \in so_far}
    IN  wave[Cardinality(Accounts)] \ {a}

\* A cascade from a row of the month against the budget makes again every kept
\* row of an account above it that has kept rows among its children, the section
\* of the row, and the executive summary, when rows and graph are of one saving.
CascadeReachesTheTop ==
    \A h \in ToSet(history) :
        LET t == Tables(h.rows)
            M == MaterialVariances(t, h.period)
            above == {k \in M : /\ h.trigger.account \in Under(k.account)
                                /\ \E j \in M : Parent[j.account] = k.account}
        IN  h.trigger \in M /\ h.rows = h.graph =>
                /\ \A k \in above :
                      [type |-> "parent_variance", level |-> 1, id |-> k] \in h.regenerated
                /\ [type |-> "executive", level |-> 3, id |-> h.period] \in h.regenerated
                /\ Category[h.trigger.account] # Null =>
                      [type |-> "section", level |-> 2, id |-> Category[h.trigger.account]]
                          \in h.regenerated

\* A change of a commentary is followed by a cascade of its period, debounced or
\* by hand, unless the cascade fails.
ChangesAreCascaded ==
    \A p \in Periods : (p \in due) ~> (p \notin due \/ p \in lost)

\* Answers depend on disk, tables and children alone: they are compared in the
\* states without a change, which have every combination of the three.
AtRest == timers = <<>> /\ history = <<>>

\* Relations between variances in a graph from disk are mutual: siblings, peers,
\* and how far apart two are on the way to a root cause; and the page of a
\* variance tells the correlations that the graph has.
RelationsAreMutual ==
    AtRest => \A p \in Periods :
        LET g == Graph(disk, p)
            near(k) == GetRootCauseChain(g, k)
        IN  \A k \in DOMAIN g.variances :
               /\ \A j \in DOMAIN near(k) : k \in DOMAIN near(j) /\ near(j)[k] = near(k)[j]
               /\ \A j \in GetPeerVariances(g, k) : k \in GetPeerVariances(g, j)
               /\ \A j \in GetSiblings(g, k) : k \in GetSiblings(g, j)
               /\ \A j \in ExtractStorySubgraph(g, k, 1) : k \in ExtractStorySubgraph(g, j, 1)
               /\ {c.other : c \in GetVarianceDetail(Outputs[disk], k).correlations}
                      \cap DOMAIN g.variances = {c.partner : c \in GetCorrelations(g, k)}

\* What is asked of the service: a period, or all, a unit, or all, and at most one
\* node of a dimension.
Filters ==
    [period : Periods, unit : {Null} \cup ToSet(UnitOrder), view : {"MTD", "QTD"},
     base : Bases,
     nodes : {<<>>} \cup UNION {[{d} -> DOMAIN NodeParent[d]] : d \in DOMAIN NodeParent}]

\* The pages of a list together have each row once, the larger variances first.
PagesCoverOnce ==
    \A f \in Filters, size \in 1..3 :
        LET t == Served(tables, unread)
            pages == GetVarianceList(t, f, Null, 1, size).pages
            all == FlattenSeq([n \in 1..pages |-> GetVarianceList(t, f, Null, n, size).items])
            rows == {k \in FilterVariance(t, f) : k.account \notin Calculated}
        IN  /\ Len(all) = Cardinality(rows) /\ ToSet(all) = rows
            /\ \A i, j \in DOMAIN all :
                  i < j => Abs(t.material[all[i]].variance) >= Abs(t.material[all[j]].variance)

\* What a node of a dimension shows is what the nodes under it show and what is
\* booked on itself: no row is lost or counted twice on the way down.
NodesAddUp ==
    \A f \in {x \in Filters : x.nodes # <<>>} :
        LET t == Served(tables, unread)
            d == CHOOSE x \in DOMAIN f.nodes : TRUE
            at(n) == FilterVariance(t, [f EXCEPT !.nodes[d] = n])
            under == GetDimensionHierarchy(d).under[f.nodes[d]]
            own == {k \in FilterVariance(t, [f EXCEPT !.nodes = <<>>]) :
                       NodeOf[k.slice][d] = f.nodes[d]}
        IN  Total(t.material, at(f.nodes[d])).variance
                = Total(t.material, own).variance
                  + MapThenSumSet(LAMBDA n : Total(t.material, at(n)).variance, under)

\* The steps of the waterfall lead from the budget to the actual, and what the
\* card, the statement, the account's page and the end of its trend show of an
\* account is one amount.  How often the statement has a line is not looked at: after
\* a reload each account hangs under its parent twice.
EndpointsAgree ==
    \A f \in Filters :
        LET t == Served(tables, unread)
            w == GetWaterfall(t, f)
            K == FilterVariance(t, f)
            lines == ToSet(GetPlStatement(t, children, f))
        IN  /\ w # <<>> => FoldLeft(+, 0, SubSeq(w, 1, Len(w) - 1)) = w[Len(w)]
            /\ \A c \in ToSet(GetSummaryCards(t, f)) :
                  /\ \A x \in lines : x.account = c.account => x.amount = c.amount
                  /\ GetAccountDetail(t, children, f, c.account).amount = c.amount
                  /\ GetTrends(t, f, c.account, 1) = [p \in {f.period} |-> c.amount]
            /\ \A x \in lines : OfAccount(K, x.account) = {} => x.amount = Zero

\* The quality page counts each kept row of a period once: its total is that of
\* the success metrics over the views and bases.
MetricsAddUp ==
    \A p \in Periods :
        LET t == Served(tables, unread)
            total(v, b) == GetSuccessMetrics(t, [period |-> p, unit |-> Null, view |-> v,
                                                 base |-> b, nodes |-> <<>>]).total
        IN  GetNarrativeQuality(t, p).total
                = MapThenSumSet(LAMBDA vb : total(vb[1], vb[2]), Views \X Bases)

\* What alerts the company is among the alerts of some unit: narrowing the page
\* down to the units hides nothing, whatever the limit.
UnitsExplainCompany ==
    \A f \in {x \in Filters : x.unit = Null}, limit \in 1..2 :
        LET t == Served(tables, unread)
            of(u) == [f EXCEPT !.unit = u]
        IN  /\ GetTrendAlerts(t, f, limit)
                  \subseteq UNION {GetTrendAlerts(t, of(u), limit) : u \in ToSet(UnitOrder)}
            /\ GetNettingAlerts(t, f, limit)
                  \subseteq UNION {GetNettingAlerts(t, of(u), limit) : u \in ToSet(UnitOrder)}

\* What alerts a node alerts the node above it, when the limit leaves room for all: its
\* offsets are shown there, and of each account with a trend one that is as large.  In
\* geography this is not so: a node shows the alerts of its own slices alone, although
\* the list shows the rows of the nodes below.
NodesKeepAlerts ==
    \A f \in {x \in Filters : x.nodes # <<>> /\ "geo" \notin DOMAIN x.nodes} :
        LET t == Served(tables, unread)
            d == CHOOSE x \in DOMAIN f.nodes : TRUE
            under == {[f EXCEPT !.nodes[d] = n] : n \in GetDimensionHierarchy(d).under[f.nodes[d]]}
            room == Cardinality(t.netting) + Cardinality(t.trends)
        IN  \A g \in under :
               /\ GetNettingAlerts(t, g, room) \subseteq GetNettingAlerts(t, f, room)
               /\ \A x \in GetTrendAlerts(t, g, room) : \E y \in GetTrendAlerts(t, f, room) :
                     x.account = y.account /\ Abs(x.cumulative) <= Abs(y.cumulative)

\* The answers of the data service agree with each other, after any reload.
QueriesAgree ==
    AtRest => /\ PagesCoverOnce /\ NodesAddUp /\ EndpointsAgree /\ MetricsAddUp
              /\ UnitsExplainCompany /\ NodesKeepAlerts

===============================================================================
