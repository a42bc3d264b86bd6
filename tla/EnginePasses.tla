------------------------------ MODULE EnginePasses ------------------------------
(***************************************************************************)
(* The engine as scripts/run_engine.py drives it: an invocation runs one   *)
(* or more periods through the passes of runner.py, each of which may      *)
(* raise, and merges what the passes left in the context into the tables   *)
(* on disk.  The tables are those of VarianceMath and of the modules of    *)
(* the passes; a table that is missing from a context reads as empty.      *)
(***************************************************************************)
EXTENDS Detection, Decomposition, Narratives

CONSTANTS
    Profiles,       \* names of the fact tables
    Facts,          \* profile -> fact_financials
    Invocations,    \* what the command line asks for: [mode, periods, llm]
    MaxRuns,        \* bound: invocations
    MaxFailures     \* bound: passes that raise, reads that fail, saves that are cut short

VARIABLES
    books,          \* the profile of this behaviour
    disk,           \* the tables the engine saves
    unreadable,     \* files whose writing was cut short: nothing can be read from them
    cli,            \* the invocation that goes on
    ctx,            \* the context of its current period
    pc,             \* the pass that is next
    errors,         \* result.errors of the current period
    runs,           \* invocations so far
    failures        \* failures so far

vars == <<books, disk, unreadable, cli, ctx, pc, errors, runs, failures>>

ASSUME EngineAssumption ==
    /\ Profiles \subseteq DOMAIN Facts /\ \A b \in Profiles : FactsOK(Facts[b])
    /\ Invocations \subseteq [mode : {"full", "a", "b"}, periods : Seq(Periods), llm : BOOLEAN]
    /\ MaxRuns \in Nat /\ MaxFailures \in Nat /\ MinConsecutive \in Nat
    /\ Null \notin {"full", "a", "b"}

NoTables ==
    [material |-> <<>>, texts |-> <<>>, review |-> <<>>, decomposition |-> <<>>,
     netting |-> {}, trends |-> {}, correlations |-> {}, sections |-> {}, summaries |-> {}]

\* ProcessARunner.run: the context a period starts with.
NoContext ==
    [period |-> Null, formulas |-> FALSE, accounts |-> {}, all |-> Null, flags |-> <<>>,
     graph |-> NoGraph, narratives |-> FALSE, existingReview |-> <<>>, existingTexts |-> <<>>,
     material |-> <<>>, texts |-> <<>>, review |-> <<>>, decomposition |-> <<>>,
     netting |-> {}, trends |-> {}, correlations |-> {}, sections |-> {}, summaries |-> {}]

NoInvocation == [mode |-> Null, llm |-> FALSE, queue |-> <<>>, periods |-> {}, existing |-> NoTables,
                 out |-> NoTables]

Init ==
    /\ books \in Profiles
    /\ disk = NoTables
    /\ unreadable = {}
    /\ cli = NoInvocation
    /\ ctx = NoContext
    /\ pc = "idle"
    /\ errors = <<>>
    /\ runs = 0
    /\ failures = 0

-----------------------------------------------------------------------------
(* The command line *)

PassOrder ==
    [full |-> <<"pass1", "pass15", "pass25", "pass2", "pass3", "graph", "pass4", "pass5",
                "collect">>,
     a |-> <<"pass1", "pass15", "pass25", "pass2", "pass3", "graph", "intermediate", "collect">>,
     b |-> <<"graph", "pass4", "pass5", "collect">>]

Following(p) == PassOrder[cli.mode][Position(PassOrder[cli.mode], p) + 1]

\* The file a table is in: the texts are columns of the kept rows.
FileOf(t) == IF t = "texts" THEN "material" ELSE t

\* What main may have read when the first of its two reads that fails ends both.
Reads == {{}, {"review"}, {"review", "material"}}

\* existing_review_status and existing_material
Existing(read) ==
    [t \in DOMAIN disk |-> IF FileOf(t) \in read THEN disk[t] ELSE NoTables[t]]

\* main: existing data is loaded once, before the first period; when that fails the
\* invocation goes on without.  Process B on its own raises, and nothing is saved,
\* when there is no table of kept rows or a table of Process A cannot be read.
Invoke(i, read) ==
    /\ pc = "idle"
    /\ runs < MaxRuns
    /\ i.mode = "b" => /\ disk.material # <<>>
                       /\ unreadable \cap {"material", "decomposition", "netting", "trends"} = {}
    /\ read \cap unreadable = {}
    /\ LET first == IF "review" \in read THEN "material" ELSE "review"
       IN  /\ first \notin read => first \in unreadable \/ disk[first] # <<>>
           /\ failures' = IF first \in read \cup unreadable THEN failures ELSE failures + 1
    /\ failures' <= MaxFailures
    /\ cli' = [mode |-> i.mode, llm |-> i.llm, queue |-> i.periods,
               periods |-> ToSet(i.periods), existing |-> Existing(read), out |-> NoTables]
    /\ pc' = "next"
    /\ runs' = runs + 1
    /\ UNCHANGED <<books, disk, unreadable, ctx, errors>>

OfPeriods(table, S) == [k \in {j \in DOMAIN table : j.period \in S} |-> table[k]]

\* run_from_disk: the tables of Process A, of which the kept rows alone are those
\* of the period, with the texts they have; its account metadata has no formulas.
ContextFromDisk(p) ==
    [NoContext EXCEPT !.period = p, !.accounts = Accounts,
                      !.material = OfPeriods(disk.material, {p}),
                      !.texts = OfPeriods(disk.texts, {p}),
                      !.decomposition = disk.decomposition,
                      !.netting = disk.netting, !.trends = disk.trends,
                      !.existingReview = cli.existing.review,
                      !.existingTexts = cli.existing.texts]

\* A wrong StartPeriod: the errors of the period before are still there.
StartPeriod_KeepsErrors ==
    /\ pc = "next"
    /\ cli.queue # <<>>
    /\ LET p == Head(cli.queue)
       IN  ctx' = IF cli.mode = "b" THEN ContextFromDisk(p)
                  ELSE [NoContext EXCEPT !.period = p,
                                         !.existingReview = cli.existing.review,
                                         !.existingTexts = cli.existing.texts]
    /\ cli' = [cli EXCEPT !.queue = Tail(@)]
    /\ pc' = Head(PassOrder[cli.mode])
    /\ UNCHANGED <<books, disk, unreadable, errors, runs, failures>>

\* The loop of main over the periods.
StartPeriod ==
    /\ pc = "next"
    /\ cli.queue # <<>>
    /\ LET p == Head(cli.queue)
       IN  ctx' = IF cli.mode = "b" THEN ContextFromDisk(p)
                  ELSE [NoContext EXCEPT !.period = p,
                                         !.existingReview = cli.existing.review,
                                         !.existingTexts = cli.existing.texts]
    /\ cli' = [cli EXCEPT !.queue = Tail(@)]
    /\ errors' = <<>>
    /\ pc' = Head(PassOrder[cli.mode])
    /\ UNCHANGED <<books, disk, unreadable, runs, failures>>

\* cumulative_material: the rows that were on disk and those of this invocation.
RowsOf(table) ==
    LET order == TableOrder(DOMAIN table)
    IN  [i \in DOMAIN order |-> [key |-> order[i], amount |-> table[order[i]],
                                 variance |-> table[order[i]].variance]]

Earlier == RowsOf(cli.existing.material) \o RowsOf(cli.out.material)

-----------------------------------------------------------------------------
(* The passes *)

\* A pass that ends well leaves c in the context.
Completes(p, c) ==
    /\ pc = p
    /\ ctx' = c
    /\ pc' = Following(p)
    /\ UNCHANGED <<books, disk, unreadable, cli, errors, runs, failures>>

ComputeRawVariances ==
    Completes("pass1", [ctx EXCEPT !.all = RawVariances(Facts[books]), !.accounts = Accounts,
                                   !.formulas = TRUE])

Netting == /\ ctx.all # Null
           /\ Completes("pass15", [ctx EXCEPT !.netting = DetectNetting(ctx.all, ctx.period)])

Trends == /\ ctx.all # Null
          /\ Completes("pass25", [ctx EXCEPT !.trends = DetectTrends(ctx.all)])

ThresholdFilter ==
    /\ ctx.all # Null
    /\ LET flags == ApplyThresholdFilter(ctx.all, ctx.netting, ctx.trends, ctx.period)
       IN  Completes("pass2", [ctx EXCEPT !.flags = flags,
                                   !.material = [k \in DOMAIN flags |-> ctx.all[k]]])

Decompose ==
    Completes("pass3", [ctx EXCEPT
        !.decomposition = DecomposeVariances(Facts[books], ctx.material)])

BuildGraph ==
    Completes("graph", [ctx EXCEPT
        !.graph = BuildFromContext(ctx.accounts, ctx.material, ctx.all, ctx.correlations,
                                   ctx.netting, ctx.trends, ctx.decomposition)])

Correlate ==
    Completes("pass4", [ctx EXCEPT
        !.correlations = FindCorrelations(RowsOf(ctx.material), Earlier, ctx.period)])

\* The rows and sections the language model may be asked about.
Askable == DOMAIN ctx.material \cup
           [section : DOMAIN SectionAccounts \cup {"Executive"}, base : Bases,
            unit : {BusinessUnit[s] : s \in Slices} \cup {Null}]

\* The language model, when it is enabled, answers for everything or for nothing.
\* The pass may raise when the texts of the rows are in the context and the
\* sections are not.
Narrate ==
    /\ pc = "pass5"
    /\ \E answered \in {{}} \cup (IF cli.llm THEN {Askable} ELSE {}), raises \in BOOLEAN :
          LET left(c) == IF raises THEN [c EXCEPT !.sections = {}, !.summaries = {}] ELSE c
          IN  /\ raises => answered = {} /\ failures < MaxFailures
              /\ failures' = IF raises THEN failures + 1 ELSE failures
              /\ errors' = IF raises THEN Append(errors, pc) ELSE errors
              /\ ctx' = left(GenerateNarratives(ctx, Earlier, answered))
    /\ pc' = Following(pc)
    /\ UNCHANGED <<books, disk, unreadable, cli, runs>>

Passes == {"pass1", "pass15", "pass25", "pass2", "pass3", "graph", "pass4", "pass5"}

\* A wrong Raises: the exception is logged and nothing else.
Raises_Logged ==
    /\ pc \in Passes
    /\ \/ failures < MaxFailures /\ failures' = failures + 1
       \/ pc \in {"pass15", "pass25", "pass2"} /\ ctx.all = Null /\ failures' = failures
    /\ pc' = Following(pc)
    /\ UNCHANGED <<books, disk, unreadable, cli, ctx, errors, runs>>

\* The loops of run: the exception is logged, the name of the pass goes to
\* result.errors and the next pass begins.  Process B on its own builds its graph
\* outside of the loop and only warns.  Without all_variances the passes that
\* index it raise.
Raises ==
    /\ pc \in Passes
    /\ \/ failures < MaxFailures /\ failures' = failures + 1
       \/ pc \in {"pass15", "pass25", "pass2"} /\ ctx.all = Null /\ failures' = failures
    /\ errors' = IF pc = "graph" /\ cli.mode = "b" THEN errors ELSE Append(errors, pc)
    /\ pc' = Following(pc)
    /\ UNCHANGED <<books, disk, unreadable, cli, ctx, runs>>

-----------------------------------------------------------------------------
(* Saving *)

\* n of the files are written one after the other, those for which there is nothing
\* new left out.  A cut within the next one leaves a file that cannot be read.
WriteFiles(files, fresh, new, n, torn) ==
    LET done == {files[i] : i \in 1..n} \cap fresh
        broken == IF torn THEN {files[n + 1]} ELSE {}
    IN  /\ torn => n < Len(files) /\ files[n + 1] \in fresh
        /\ disk' = [t \in DOMAIN disk |-> CASE FileOf(t) \in done -> new[t]
                                           [] FileOf(t) \in broken -> NoTables[t]
                                           [] OTHER -> disk[t]]
        /\ unreadable' = (unreadable \ done) \cup broken

\* A process that ends before all files are written costs a failure.
CutAfter(n, files) ==
    /\ failures' = IF n = Len(files) THEN failures ELSE failures + 1
    /\ failures' <= MaxFailures

IntermediateSaves == <<"material", "decomposition", "netting", "trends">>

\* _save_intermediate: the tables of the period replace those on disk, unless
\* they are empty.
SaveIntermediate(n, torn) ==
    /\ pc = "intermediate"
    /\ LET fresh == {f \in ToSet(IntermediateSaves) : ctx[f] # NoTables[f]}
       IN  WriteFiles(IntermediateSaves, fresh,
                      [t \in DOMAIN disk |-> IF t = "texts" THEN <<>> ELSE ctx[t]], n, torn)
    /\ CutAfter(n, IntermediateSaves)
    /\ IF n = Len(IntermediateSaves)
       THEN pc' = Following(pc) /\ UNCHANGED <<cli, ctx, errors>>
       ELSE pc' = "idle" /\ cli' = NoInvocation /\ ctx' = NoContext /\ errors' = <<>>
    /\ UNCHANGED <<books, runs>>

\* _collect_outputs
Collect ==
    /\ pc = "collect"
    /\ cli' = [cli EXCEPT !.out =
           [material |-> Over(ctx.material, cli.out.material),
            texts |-> Over(ctx.texts, cli.out.texts),
            review |-> Over(ctx.review, cli.out.review),
            decomposition |-> Over(ctx.decomposition, cli.out.decomposition),
            netting |-> ctx.netting \cup cli.out.netting,
            trends |-> ctx.trends \cup cli.out.trends,
            correlations |-> ctx.correlations \cup cli.out.correlations,
            sections |-> ctx.sections \cup cli.out.sections,
            summaries |-> ctx.summaries \cup cli.out.summaries]]
    /\ pc' = "next"
    /\ UNCHANGED <<books, disk, unreadable, ctx, errors, runs, failures>>

\* A wrong SavedTable: the new rows are all there is.
SavedTable_Overwrite(t) == cli.out[t]

\* A table with a period_id: the rows of the periods processed are replaced, and
\* all that there is when the file cannot be read (except: combined = new_data).
SavedTable(t) ==
    IF FileOf(t) \in unreadable THEN cli.out[t]
    ELSE Over(cli.out[t], OfPeriods(disk[t], Periods \ cli.periods))

SavedFlags(t) ==
    IF t \in unreadable THEN cli.out[t]
    ELSE cli.out[t] \cup {f \in disk[t] : f.period \notin cli.periods}

Saves == <<"material", "decomposition", "netting", "trends", "correlations", "review",
           "sections", "summaries">>

\* A table without a period_id is replaced as a whole.
Written == [t \in DOMAIN disk |->
               CASE t \in {"material", "texts", "review"} -> SavedTable(t)
                 [] t \in {"netting", "sections", "summaries"} -> SavedFlags(t)
                 [] OTHER -> cli.out[t]]

\* _save_all_outputs: the process may end between two files or within one.
Save(n, torn) ==
    /\ pc = "next"
    /\ cli.queue = <<>>
    /\ LET fresh == {f \in ToSet(Saves) : cli.out[f] # NoTables[f]}
       IN  WriteFiles(Saves, fresh, Written, n, torn)
    /\ CutAfter(n, Saves)
    /\ pc' = "idle"
    /\ cli' = NoInvocation
    /\ ctx' = NoContext
    /\ errors' = <<>>
    /\ UNCHANGED <<books, runs>>

\* Somebody puts the outcome of a review into the table of review states.  The
\* review store keeps its states in memory and in the database, and nothing in
\* the repository writes them back to this file.
ExportReviews ==
    /\ pc = "idle"
    /\ DOMAIN disk.review # {}
    /\ \A k \in DOMAIN disk.review : disk.review[k] = "AI_DRAFT"
    /\ \E reviewed \in
             {[k \in {CHOOSE j \in DOMAIN disk.review : TRUE} |-> "ANALYST_REVIEWED"],
              [k \in DOMAIN disk.review |-> "APPROVED"]} :
           disk' = [disk EXCEPT !.review = Over(reviewed, disk.review)]
    /\ UNCHANGED <<books, unreadable, cli, ctx, pc, errors, runs, failures>>

Next ==
    \/ \E i \in Invocations, read \in Reads : Invoke(i, read)
    \/ StartPeriod
    \/ ComputeRawVariances
    \/ Netting
    \/ Trends
    \/ ThresholdFilter
    \/ Decompose
    \/ BuildGraph
    \/ Correlate
    \/ Narrate
    \/ Raises
    \/ \E n \in 0..Len(IntermediateSaves), torn \in BOOLEAN : SaveIntermediate(n, torn)
    \/ Collect
    \/ \E n \in 0..Len(Saves), torn \in BOOLEAN : Save(n, torn)
    \/ ExportReviews

Spec == Init /\ [][Next]_vars

-----------------------------------------------------------------------------
(* What should hold *)

Keys == [account : Accounts, slice : Slices, period : Periods, view : Views, base : Bases]

\* Types; a file that cannot be read shows nothing; result.errors names passes of the
\* present period that have been tried.
TypeOK ==
    /\ books \in Profiles
    /\ pc \in Passes \cup {"idle", "next", "intermediate", "collect"}
    /\ runs \in 0..MaxRuns /\ failures \in 0..MaxFailures
    /\ DOMAIN disk.material \subseteq Keys /\ DOMAIN disk.texts \subseteq DOMAIN disk.material
    /\ DOMAIN disk.review \subseteq Keys
    /\ \A t \in DOMAIN disk : FileOf(t) \in unreadable => disk[t] = NoTables[t]
    /\ pc \notin {"idle", "next"} =>
          \A i \in DOMAIN errors :
             Position(PassOrder[cli.mode], errors[i]) < Position(PassOrder[cli.mode], pc)

\* After pass 1, and in every view: a calculated account is what its formula
\* makes of the accounts it is about, whichever comes first in dim_account.
CalculatedFollowFormula ==
    pc = "pass15" /\ ctx.all # Null =>
        \A k \in DOMAIN ctx.all : k.account \in DOMAIN Formula =>
            LET f == Formula[k.account]
                at(S) == {j \in DOMAIN ctx.all : j.account \in S
                                                 /\ [j EXCEPT !.account = k.account] = k}
            IN  f.op = "minus" => \A c \in DOMAIN Zero :
                    ctx.all[k][c] = Total(ctx.all, at(f.plus))[c] - Total(ctx.all, at(f.minus))[c]

\* A year row is the sum of the quarter rows of its year so far.
YearIsSumOfQuarters ==
    pc = "pass15" /\ ctx.all # Null =>
        \A k \in DOMAIN ctx.all : k.view = "YTD" =>
            ctx.all[k] = Total(ctx.all, {j \in DOMAIN ctx.all :
                             /\ j.view = "QTD" /\ SameYear(j.period, k.period)
                             /\ j.period <= k.period
                             /\ DimKey(j) = DimKey(k) /\ j.base = k.base})

\* A trend is flagged for the longest stretches of months with variances of one
\* sign, and for those only: no month without variance is within one.
StreaksAreRuns ==
    pc = "pass2" /\ ctx.all # Null /\ errors = <<>> =>
        \A a \in Accounts, s \in Slices :
            LET key == [account |-> a, slice |-> s]
                sign(p) == IF Key(a, s, p, "MTD", "BUDGET") \in DOMAIN ctx.all
                           THEN Sign(ctx.all[Key(a, s, p, "MTD", "BUDGET")].variance) ELSE 0
                months(p, q) == {r \in Periods : p <= r /\ r <= q}
                run(p, q) == sign(p) # 0 /\ \A r \in months(p, q) : sign(r) = sign(p)
                longest(p, q) == \A r, t \in Periods :
                                    r <= p /\ q <= t /\ run(r, t) => r = p /\ t = q
            IN  {<<t.first, t.latest>> : t \in {u \in ctx.trends :
                     u.key = key /\ u.rule = "consecutive_direction"}}
                = {pq \in Periods \X Periods :
                      /\ pq[1] <= pq[2] /\ Cardinality(months(pq[1], pq[2])) >= MinConsecutive
                      /\ run(pq[1], pq[2]) /\ longest(pq[1], pq[2])}

\* What a reader must see reaches the kept rows: every month row over one of its
\* thresholds, and the rows of a slice in which offsetting variances hide under a
\* small total.
NothingMaterialIsHidden ==
    pc = "pass3" /\ ctx.all # Null /\ errors = <<>> =>
        \A k \in DOMAIN ctx.all : k.view = "MTD" /\ k.period = ctx.period =>
            LET t == GetThresholds(Category[k.account], Null, Null, FALSE)
                amounts == SliceAmounts(ctx.all, k.slice, k.period)
                hidden(a) == /\ LooksLikeParent(amounts, a)
                             /\ ~IsMaterial(amounts[a], Category[a])
                             /\ amounts[a].variance # 0
                             /\ Gross(amounts, a) > NettingRatio * Abs(amounts[a].variance)
            IN  \/ Abs(ctx.all[k].variance) >= t.abs
                \/ PctBreach(ctx.all[k], t.pct)
                \/ \E a \in DOMAIN amounts : hidden(a)
                => k \in DOMAIN ctx.material

\* The drivers and the residual of a row add up to its variance, but for the
\* rounding of the drivers.
DecompositionExplains ==
    pc = "graph" =>
        \A k \in DOMAIN ctx.decomposition : k \in DOMAIN ctx.material =>
            Abs(TotalExplained(ctx.decomposition[k]) + ctx.decomposition[k].residual
                - ctx.material[k].variance) <= 2

\* The full pipeline says in its errors what it did not do: without one, every
\* kept row has a text or all of them have been reviewed, rows that can be split
\* are, and there is a graph.
NothingSilentlyMissing ==
    pc = "collect" /\ cli.mode = "full" /\ errors = <<>> =>
        /\ ctx.graph # NoGraph /\ ctx.narratives
        /\ DOMAIN ctx.texts = DOMAIN ctx.material \/ DOMAIN ctx.material \subseteq Preserved(ctx)
        /\ {k \in DOMAIN ctx.material : Decomposable(k)} = DOMAIN ctx.decomposition
        /\ ctx.texts # <<>> => ctx.sections # {} /\ ctx.summaries # {}

\* The total of a section is the sum of its totals in the business units.
SectionsAddUp ==
    pc = "collect" =>
        \A s \in ctx.sections : s.id.unit = Null =>
            s.total = MapThenSumSet(LAMBDA u : u.total,
                          {u \in ctx.sections : /\ u.view = s.view /\ u.id.unit # Null
                                                /\ [u.id EXCEPT !.unit = Null] = s.id})

Reviewed(table, k) == k \in DOMAIN table /\ table[k] \in {"ANALYST_REVIEWED", "APPROVED"}

\* Saving never puts another text in the place of one that the review states, as this
\* invocation has read them, call reviewed.  The text may be lost: when all rows of a
\* period are reviewed, when pass 5 raises, in Process A alone, and when the earlier
\* table could not be read.  The review states saved with it no longer name the row,
\* so that the promise does not last to the invocation after the next.
ReviewedNotRewritten ==
    [][\A k \in DOMAIN disk.texts \cap DOMAIN disk'.texts :
          Reviewed(cli.existing.review, k) => disk'.texts[k] \in {disk.texts[k], Null}]_disk

\* An invocation that writes narratives leaves the rows, texts and review states
\* of the periods it was not asked for alone, wherever between two files it is cut.
\* The file that is being written when it is cut is lost with all its periods, and
\* what is saved to it next begins anew.
OtherPeriodsKept ==
    [][cli.mode \in {"full", "b"} =>
          \A t \in {"material", "texts", "review"}, p \in Periods \ cli.periods :
             \/ OfPeriods(disk'[t], {p}) = OfPeriods(disk[t], {p})
             \/ FileOf(t) \in unreadable']_disk

\* Each text is about the row it stands in: "Combine results in original order".
NarrativesMatchRows ==
    pc = "collect" => \A k \in DOMAIN ctx.texts : ctx.texts[k] # Null => ctx.texts[k].about = k

===============================================================================
