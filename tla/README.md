# A TLA+ model of varianalytics

Variance analysis of a company's accounts: an engine finds material variances
and drafts commentary, analysts and directors review it, reports are made of
it. This directory holds TLA+ modules that model the parts of
the program where steps of several actors meet and the computations whose
tables have to agree, TLC configurations that check them on small instances,
and TLAPS proofs of what holds for every instance.

    tlc -workers 2 -config MCReviewStore.cfg MCReviewStore.tla
    tlapm ReviewStoreProofs.tla

## The system

Three FastAPI services, each one process with one asyncio event loop. Python
code between two awaits is atomic; what interleaves are coroutines at their
awaits, callbacks of the loop, the users, errors of PostgreSQL and of the LLM,
and restarts.

| Part | State | Operations | What is hard | What makes it correct |
|---|---|---|---|---|
| Review store `shared/data/review_store.py`, endpoints in `services/gateway/api/review.py`, `approval.py` | a table of commentaries: status, text, signatures, version, lock | acquire and release a lock, six review actions, bulk approval, regeneration | two writers of one table, calls with and without a user, locks that run out | granted locks hold, versions tell texts apart, approval only of a reviewed commentary |
| Dual-write store `shared/data/async_review_store.py`, seeding `shared/database/seed.py`, startup `services/gateway/main.py` | the same table in memory and in PostgreSQL, the vector store of approved texts | the actions, then one transaction per variance and one embedding per approved text | two calls on one row, sessions that fail, restarts | database and knowledge base say only what memory once said |
| Engine task queue `shared/engine/task_queue.py`, `services/computation/api/engine_control.py` | tasks, their order, the running ones | submit, cancel, run, reload, done callback | cancellation takes effect later, callbacks start tasks | a limit on concurrent runs, nobody waits for ever, settled stays settled |
| Engine runner and passes `services/computation/engine/`, `detection/`, `decomposition/`, `scripts/run_engine.py` | a context of tables for one period, the files of all periods | nine passes, process A, process B or both, saving with a merge | a failing pass is swallowed, files are saved one by one, re-runs meet reviewed texts | tables agree with the books and with each other, nothing material or missing goes unsaid, reviewed texts and other periods stay |
| Knowledge graph `shared/knowledge/`, intelligence `shared/intelligence/` | nodes and typed edges of one period | build from the context or from disk, walks | edges of several types and directions | relations are mutual, ancestors are all found |
| Data service `shared/data/service.py` | tables, account metadata, a graph for each period | load, reload, queries | each query filters and sums by code of its own, caches | answers agree, graphs are not older than rows |
| Cascade `shared/cascade/` | pending, running and past cascades per period | debounced and immediate regeneration | debounce racing with edits and reloads | the last edit is followed by a cascade that reaches the top |
| Chat `services/gateway/api/chat.py`, `streaming/`, `agents/` | conversations, one active stream each, an event queue | post, stream, classify, ask, narrate, time out, disconnect | replaced streams, timeouts and retries, two classifiers | answers are whole and arrive, requests are about what was asked |
| Reports `services/reports/` | jobs, files, schedules, distribution lists | generate, announce, schedule, tick | a tick that awaits while schedules change, restarts | what was announced is there and whole, each schedule asks once in its interval |
| LLM client `shared/llm/` | routing, cached health | complete with retries, stream | retries against timeouts | always an answer or the fallback |
| Access control, notifications, frontend | tokens, settings | look-ups, one post per channel | | |

The services call each other over HTTP (the gateway asks the computation
service, the scheduler the reports service); the gateway's review endpoints and
the regeneration share the review table in memory; the engine's results reach
the others through parquet files and a reload.

## The modules

| Module | Models | Uses |
|---|---|---|
| `ReviewLifecycle` | what the review workflow promises: stages and the review that stands | |
| `ReviewStore` | the in-memory store and the regeneration endpoint | refines `ReviewLifecycle` |
| `AsyncReviewStore` | the dual write over memory, database and knowledge base | `ReviewStore`, instantiated as its memory |
| `EngineTaskQueue` | the task queue on the event loop | |
| `VarianceMath` | pass 1: leaf variances, roll-up, calculated accounts, quarter and year views | |
| `Materiality`, `Detection`, `Decomposition`, `Correlation` | thresholds and pass 2; passes 1.5 and 2.5; pass 3; pass 4 | `VarianceMath` |
| `KnowledgeGraph`, `Intelligence` | the graph and its walks; what is found out about a variance | `VarianceMath`; `KnowledgeGraph` |
| `Narratives` | pass 5: texts of rows, sections and summaries | `Intelligence`, `Correlation`, `Materiality` |
| `EnginePasses` | the runner, its three modes, failures and saving | all of the passes |
| `DataService` | tables, metadata and the queries | `KnowledgeGraph` |
| `Cascade` | cascade manager and regenerator with the gateway's data service while the engine saves | `DataService` |
| `Agents` | classifiers, requests and events of the chat's agents | |
| `Chat` | conversations, streams, agents, readers | `Agents` |
| `Reports` | jobs, files, distribution, scheduler | |
| `ReviewStoreProofs`, `AsyncReviewStoreProofs`, `EngineTaskQueueProofs`, `VarianceMathProofs`, `CascadeProofs`, `ChatProofs`, `ReportsProofs` | theorems | the module they are named after |
| `EnginePassesProofs` | theorems | `EnginePasses`, `VarianceMathProofs` |
| `MC*` | constants of small instances | |

**ReviewStore.** `recs` is the table `_review_status`, restricted to the columns
the code reads back: status, edited narrative, reviewer, approver,
version, lock holder and expiry (0 for None). `clock` is the wall clock;
a lock lives `LockTicks`. Each method of the store is one action, because none
awaits. A refused call raises before it writes and is therefore a stuttering
step. `SubmitReviewAction` is a call with a user id, `SubmitBulkApproval` the
calls without one, which skip the lock test and leave the lock in place.
`RegenerateSummary` is the endpoint that writes the table directly. `grants`
is a history variable: locks somebody was told he holds, neither given up nor
run out. Hypothesis feedback, comments and times of the actions are written
and never read back, and are left out. The lock endpoints and the actions
meet in the store, whose methods the module models; in the gateway as it is
assembled now the store is wrapped by `AsyncReviewStore`, which has no lock
methods, so no lock can be taken through it and `AsyncReviewStore.tla` has
no lock action.

**AsyncReviewStore.** A call updates `recs` through the action of `ReviewStore`
and becomes a coroutine in `calls`: `LoadRow` and `CommitRow` (or
`PersistFails`) for each id of `persist`, then `Resume`, and `Upsert` for each
id of `publish`. The commentary to embed is read from memory when its turn
comes, as in the code. `Merge` writes the columns the ORM found changed, so a
second transaction in between survives in the others. `Restart` may come in
any state: memory is what the parquet file says, the vector store is empty,
nothing is read back from the database, and an empty table is seeded unless
seeding fails. The database row keeps status and narrative: the version and
lock columns are never written by the program, and the signatures are
constants. `AwareTimesStored` says whether the driver accepts a time with a
zone for the columns `reviewed_at` and `approved_at`, which are declared
without one. The SQLite driver of the tests does; asyncpg refuses it (the seed
strips the zone for that reason, `seed.py:357`), and the session error is then
logged for every review and approval. The runs use TRUE: with FALSE a commit
of these two statuses always fails, which `PersistFails` allows anyway, so the
instance with TRUE has all behaviours of the other.

**EngineTaskQueue.** `ready` is the FIFO ready queue of the event loop: the
first step of a new asyncio task, a step of one whose await has returned, and
done callbacks are handled in the order in which they were scheduled. Request
handlers (`Submit`, `Cancel`) do not await and may come between any two
handles. A task may be started twice, so `runs` lists asyncio tasks and
`running` maps a task to its present entry. A run cancelled before its first
step never executes its body; later the cancellation arrives at the next step.
What a run does in the pipeline is abstracted to how often it waits
(`MaxAwaits`), and whether it fails, completes, and waits in the reload.
`cancels` is a history variable.

**The passes as operators.** A table is a function from keys (account, slice,
period, view, base) to amounts in whole cents. A slice is one combination of
business unit, cost centre, geography, segment and line of business.
Percentages are compared after multiplication, so that a threshold is met
exactly as it is in the code on values whose fractions are finite. Where the
order of rows matters (calculated accounts, view groups, texts by position)
it is `AccountOrder`, `SliceOrder` and `BaseOrder`, the order of the tables on
disk. `VarianceMath` has one operator per step of
`compute_raw_variances`; `Materiality!ApplyThresholdFilter` is pass 2 with the
keys of netting and trend flags; `Detection` has the checks of both detectors;
`Decomposition` the methods for revenue, costs and operating expenses with
their fallbacks; `Correlation` the scores of pass 4.

**Narratives.** A text is a record of what it is about and what it draws on:
drivers, trend, note on the month before, children. Rows are narrated leaves
first (`Stage1`, `Stage2`), and `Assigned` puts the results into rows by their
position, as `pass5_narrative.py` does. The language model answers for all
rows or for none.

**EnginePasses.** `cli` is an invocation of `run_engine.py`, `ctx` the
context of the period in hand, `pc` the pass that is next, `errors` the
period's `result.errors`. Each pass either completes or raises (`Raises`),
which the loop of the runner swallows. `SaveIntermediate` is
`_save_intermediate`; `Collect` and `Save` are `_collect_outputs` and
`_save_all_outputs`; `Save(n, torn)` stops after n files, or within the next
one, whose file is then `unreadable` until it is written again. Saving takes a
file it cannot read for an empty one (`SavedTable`, `SavedFlags`), `Invoke`
goes on without the reviews and texts it could not load (`Reads`), and process
B on its own does not start. `ExportReviews` puts
outcomes of reviews into the file that pass 5 reads: nothing in the repository
writes it today, while pass 5, the runner and the command line take its
contents into account.

**KnowledgeGraph, Intelligence.** The graph is a record of what its queries
read: accounts, variance nodes, flags, splits, sections and correlation edges
with their scores. Within the engine all rows become nodes when none is material. `BuildFromContext` and `BuildFromData` are its two
builders, and each query is an operator. `Intelligence` has an operator for each
dimension that pass 5 asks for and that ever yields a note.

**DataService, Cascade.** `tables` says which saving of the engine was loaded
last, `unread` which of its files could not be read then, whose tables are
empty since (`Served`), `graphs` which saving each cached graph was built from,
`children` is `_account_children`, to which a reload appends. The gateway and
the computation service each have a data service in memory. The cascade
manager works on the gateway's, which the administrator's `/reload`
(`services/gateway/api/admin.py:324`) starts anew: that is `Reload`. The queue
and the `/reload` of `engine_control.py` do the same to the other one, which no
cascade reads. A reload reads one saving, never files of two, and the tables of
accounts, nodes and periods, which the engine does not write, do not change and
can be read. The same endpoint replaces the review store's tables by those on
disk; what that does to memory is `Restart` of `AsyncReviewStore`, there
together with the rest of a restart. `timers` lists the debounce tasks. Because
`regenerate_chain` awaits nothing, a cascade is one step and `_running` is
empty whenever another coroutine looks at it. The step from the end of the
sleep to the end of the cascade is `DebouncedCascade`, with `Fails` for a
graph that cannot be built. `due` and `lost` are history variables. The model
starts at `on_narrative_changed`; the endpoint that ought to call it does not
(see below), and `ExecuteNow` is the endpoint that works.

**Agents, Chat.** A question is a record of the intents its words match and of
the period, unit, account, view and base it names, with the filters that the page
sends: one that is sent as None counts as sent, and gets no default.
`NextRequest` is the plan of the agent the intent is routed to, as the tools
pass it on. `Chat` has a stream for each message: `phase` is where its
agent waits, `queue` the event queue, `emitted` a history of it. The agent is
cancelled by the 60 s timeout at any wait (`TimesOut`), and may meet something
it cannot use before or after its text (`Raises`). `readers` are the
responses of the stream endpoint. Putting an event into an unbounded queue
does not suspend, so an agent's last events, `done` and the sentinel are one
step.

**Reports.** `jobs` and `index` are memory, `files` is the report directory.
`Generated` chooses which of the eight answers came and in which of them a
percentage is missing. `tick` is the scheduler's task: the schedules it has
still to look at and the time it began, as it waits for the answer of each
request. `DownloadReport` is the answer of the download endpoint, which knows the
jobs in memory only. `Restart` forgets everything but files. `announced`, with
the life of the process in which somebody was told, and `posted` are history
variables.

## What the runs check

| Run | Instance | Shows |
|---|---|---|
| `review_store` | two variances (one a summary), two users, a lock of two ticks, a clock of three | `LockBelief`: a granted lock is in the table until given up or over. `VersionOrdersContent`: whatever changes what a reader sees raises the version. `ImplementsLifecycle`: the refinement. |
| `lock_prevents_edits` | the same | found violated: regeneration and bulk approval ignore the lock |
| `async_review_store` | two variances, two calls in flight, one bulk list | `DbFollowsMemory`: the full list of what parts database and memory. `DbApprovalExplained`, `KbEntryExplained`: no interleaving, error or restart makes up an approval; only a bulk call does. |
| `bulk_persists_approved` | the same | found violated: bulk calls persist APPROVED for ids that were not approved |
| `task_queue` | limit 1, three tasks, a history of two, two awaits per run, with fairness | `WorkConserving`: a queued task always has a pending callback. `ExcessBoundedByCancels`: each cancellation of a running task admits at most one run too many, nothing else does. `RunningTracked`, `ServedInOrder`, `SettledIsFinal`. `EveryTaskSettles`, or it was pushed out of the history. |
| `task_queue_limit` | four tasks, a history of three, one await | found violated: two runs execute at once after a cancellation |
| `engine_passes` | eight accounts (two roll-ups, two calculated ones, of which the first in the table is made of the second), two slices, four months over two years, two bases, two books; two invocations of four kinds, one failure | `CalculatedFollowFormula`, `YearIsSumOfQuarters`, `StreaksAreRuns`, `NothingMaterialIsHidden`, `DecompositionExplains`: the tables against definitions of what they should say. `NothingSilentlyMissing`: a full run without errors has its graph, texts, splits and sections. `SectionsAddUp`: the company's section is the sum of the units'. `ReviewedNotRewritten`: one invocation leaves in a row that it read as reviewed the text it had, or none. `OtherPeriodsKept`: it leaves other periods alone, but for a file that was cut within. |
| `narrative_rows` | the same | found violated: a row gets the text of another |
| `reviewed_texts` | the same company, three full runs of one month, no failure, a history of reviewed texts | found violated: the third run writes another text in a reviewed row |
| `cascade` | two savings of tables, four changed rows, two debounced changes, one immediate cascade, one reload, one failure, of a cascade or of the file of rows or trends | `OneTimerPerPeriod`: tasks, `_pending` and `_pending_triggers` never part. `ChangesAreCascaded`: no change is left without a cascade. `CascadeReachesTheTop`: all rows above, section and summary. `GraphsKeepPace`: no cached graph older than the rows. `RelationsAreMutual`, `QueriesAgree`: the answers of graph and service against each other: pages, dimension trees, amounts by account, metrics, and alerts of units and of nodes, except nodes of geography. |
| `chat` | two questions, two conversations, streams and readers, one retry, one chunk | `ActiveIsNewest`, `AnswersAreWhole`, `RequestsAreAsAsked`, and `AnswersArrive`: a reader alone on its stream gets to its end |
| `reports` | two jobs in two formats, two schedules, one list, one restart, a week of two ticks of a clock of five | `ReadyReportsStay`: an announced report stays whole on disk, is handed out in the life in which it was announced and answered with 404 after a restart; a broken file is never handed out. `OncePerInterval`, `DueThingsHappen` |

### Bounds

`MaxClock` = 3 with `LockTicks` = 2 lets a lock run out, be taken by the other
user and be extended. `MaxVersion` caps the calls on each variance: four
versions let a summary be reviewed, approved, and regenerated, which is the
longest chain without a repetition, while the other variance, with three,
goes through review and approval. In `async_review_store` the second variance
is capped at its first version, so that bulk calls always name it in vain;
two calls in flight are what a conflict between transactions takes, and the
same call slot is used again and again. In `task_queue` three tasks are what it
takes to have a cancelled run, one that was let in beside it and a waiting task,
and the history of two makes trimming happen with the trimmed task queued, running
or settled. Symmetry is used for users and for call slots, in runs without
liveness properties. `CHECK_DEADLOCK FALSE` in the queue's runs: with
`MaxTasks` submissions settled the service waits for requests.

`engine_passes`: months 2, 13, 14 and 16 are a year apart, neighbours in one
quarter, and the next quarter, which is what the views, trends and the
comparison with the year before tell apart; two invocations are a run and a
re-run over what the first left, the second of another mode or period; one
failure is a pass that raises, a read that fails or a save cut short, anywhere,
between two files or within one; what a file that was cut does to the saving
after is within two invocations. `reviewed_texts` needs three, and no failure:
the first makes the text, the second drops its review, the third makes it again.
The two books have
offsetting variances under one roll-up and growing ones. `cascade`: the
second saving differs from the first in rows kept and amounts; two changes of one
period make the debounce start again, of two periods run side by side; each
of reload, immediate cascade and failure may come between any two steps.
`QueriesAgree` is evaluated in the states without a change (`AtRest`), which
have every combination of disk, tables and metadata. `chat`: two messages in one
conversation replace a stream, two readers share one or read one each.
`reports`: the clock goes past two intervals. Requests of the scheduler are
refused (see below), so jobs and schedules never meet; `OneHalf` confines the
run to states in which one of the halves is untouched. `CHECK_DEADLOCK FALSE`
in these runs because the numbers of calls are bounded and a service without
calls waits.

### Fairness

`FairSpec` of `EngineTaskQueue` assumes that the loop runs its next handle
(`WF(RunHandle)`) and that what a run awaits returns in the end
(`WF(Answer)`). For a cancelled await the event loop guarantees it. For LLM and
Redis calls it is an assumption about the libraries and their peers: the code
sets no timeout of its own on them (`client.py` retries a bounded number of
times, `cache.py` limits the connecting only), so a peer that never answers
holds the queue up until somebody cancels the task. A run waits a bounded
number of times, once per period, batch and pattern. Nothing is assumed of
requests.

`Cascade`: the sleep of a debounce task ends and the loop resumes the task;
nothing else is assumed. `Chat`: background tasks are started, the 60 seconds of
an agent pass, and events in a queue reach the socket; no answer of the model
or of a service is assumed. `Reports`: the scheduler's task goes on, its request
ends by the 30 s timeout of its client, and so do the requests of a job.

### Disagreements with the documentation

The runs that expect a violation, in the words of the sources they contradict:
"30-min edit lock prevents concurrent edits" (`PRODUCT_SPECIFICATION.md:272`);
"Persist each approval" (`async_review_store.py:128`); "Max 1 concurrent engine
run" (`task_queue.py:7`); "Combine results in original order"
(`pass5_narrative.py:1423`); "Keep narratives that have been reviewed or approved
(don't regenerate)" (`pass5_narrative.py:1227`). `ApprovedIsTerminal` of `ReviewStore` is violated too, by
one step of `RegenerateSummary` on an approved row; no run is spent on it.

What else was met while modelling is modelled as the code has it, and told in
`PROJECT.json`. The most important:

- the intermediate save of process A replaces the tables of all periods, and
  tables without a period are always replaced as a whole;
- a file that cannot be read, as after a process that ended while writing it, is
  taken for an empty one by the next saving, and all other periods are gone;
- the alerts of a geography node leave those of the nodes below out, because they
  look for a dimension "geo" that does not exist;
- after a restart reports that were announced as ready for download are answered
  with 404, although their files are there;
- the cascade after an edit is never triggered, and what a cascade makes is
  written into a copy that nobody reads;
- `/reload` doubles the children of every account;
- a browser that finishes an earlier answer removes the stream of a newer one;
- the scheduler's requests are refused by the endpoint, and every schedule has
  an interval of a week;
- a report whose request names no base is completed empty.

Smaller ones, without an entry of their own: text shared by two readers of a
stream is split between them and one may wait for ever; the agent for netting asks
for an empty node and always gets a 404; answers of the assistant are not stored
in the conversation; `execute_now` gives up a pending change of another row of
its period; a full run that finds all its rows reviewed returns before it puts
their texts back; a refused request still moves the schedule on; a
report is "completed" also when no answer came.

## What is proved

For every value of the constants, from the assumptions named in the modules
(`ConstantsOK`, `QueueConstantsOK`, `AccountsOK`, `FormulasOK`, `DimensionsOK`,
`EngineAssumption`, `SectionsOK`, `CascadeConstantsOK`, `ChatConstantsOK`, `ReportsAssumption`),
which say what the constants are and nothing about the behaviour. Some theorems
have a hypothesis of their own, stated in them and explained below:
`MaxConcurrent = 1`, `UnknownFrequencies` or `MonthsComplete`. Each inductive invariant was
model-checked on the instance of its module before it was proved.

- `ReviewStoreProofs!TypeCorrect`, `LockBeliefHolds`: `TypeOK /\ LockBelief` is
  inductive. The one lemma that carries it, `GrantBars`, says that a live grant
  makes `LockedAgainst` true for everybody else, so neither a second
  grant nor an identified action of another user is enabled; bulk calls and
  regeneration keep the lock columns. `VersionsOrderContent`: from `TypeOK`,
  action by action.
- `ReviewStoreProofs!StoreImplementsLifecycle`: the refinement with `stage` and
  `standing` computed from the row. Each action maps to one abstract action or to
  a stutter: an identified call to `Review`, `Approve`, `SendBack` or
  `SetAside` of one commentary, or to a stutter (escalating a draft), the bulk
  call to `Approve` or `SendBack` of the ids that accept it, regeneration to
  `StartOver`.
- `AsyncReviewStoreProofs!TypeCorrect`, `DatabaseFollowsMemory`,
  `ApprovalsExplained`, `KnowledgeExplained`: what the database and the
  knowledge base hold was said by memory once, whatever calls, failing sessions
  and restarts come in between. The invariant also speaks of the calls under way:
  a row loaded by a transaction, and an id still to be published, come from
  what memory said when the call was made.
- `EngineTaskQueueProofs!TypeCorrect`; `RunningIsTracked`, inductive
  with `TypeOK`; `NoLostWakeUp`: with both of these `WorkConserving` is
  inductive, because a task is left waiting only when the limit is reached, and
  then `_running_tasks` has an entry, whose run is still pending. `SettledStays`
  is the action property. `ReadyQueueInOrder`, `ExcessIsBounded` and
  `FirstComeFirstServed` are proved for `MaxConcurrent = 1`, the only limit the
  program uses: a done callback goes on to start tasks as long as
  `_running_tasks` is below the limit, and with a larger limit the scan may meet
  a task that is marked for its start already and start it twice.
- `CascadeProofs!TypesKept`, `DebounceIsConsistent`, `GraphsAreNotOlder`: the
  timers and the two dictionaries of pending changes never part; no
  cached graph is older than the rows, because `disk` only grows and is
  never behind `tables`. The metadata is a fold over the accounts, and
  `MetadataIsComplete` says that after it each account is listed under its parent,
  also when it is built on top of itself, as a reload does.
- `CascadeProofs!CascadesReachTheTop`: the walks of the code are recursive functions
  over the number of steps, of which `WaveExists` and `WaveGoesOn` give existence
  and next step once for all. With them whoever is under an account has it
  among its ancestors (`AncestorsFound`, by induction on the steps, since more
  steps find no fewer accounts), so its rows are in the chain; a complete
  metadata gives it rows to be made from. The invariant is that each result of
  the history has this, and that the metadata is complete.
- `CascadeProofs!GraphRelations`: edges are put in both ways, and of several
  correlations of a pair both edges take the score of the same one
  (`EdgesAreMutual`). The search for root causes sees after `n` hops what is new
  and all neighbours of what it saw before (`SearchSees`), so two nodes see each other
  after the same number of hops (`SightIsMutual`). That holds in every state and not
  only at rest, where the run looks at it.
- `ChatProofs!TypeCorrect`, `RequestsFollowQuestions`, `ActiveStreamIsNewest`,
  `AnswersComeWhole`: for the last, a stream whose agent is under way has
  neither error nor end among its events, its reader has taken a prefix of
  them, and the sentinel is the last thing put into its queue.
- `ReportsProofs!ReadyReportsAreKept`: a job is completed only with its file whole and
  in the index, nothing removes a file, and what was announced in an earlier life is
  no job of this one. `AsksOncePerInterval`, with the invariant
  that the next run of a schedule is an interval after its last request or the
  tick is waiting for it. Its hypothesis `UnknownFrequencies` says what the seed
  and the endpoints make true: no frequency that a schedule has is a key of the
  scheduler's table, so that each interval is the default of a week.
- `VarianceMathProofs` is about the operators of pass 1. The sums and folds of the
  community modules are recursive functions, so their laws come first: the sum
  over the empty set, without one member, over a union, over a partition
  (`SigmaParts`), and what each step of a fold keeps, the fold keeps
  (`FoldTables`). They are proved from a smallest counterexample among the
  subsets of a finite set. With them every table of pass 1 has keys of the
  right form and whole amounts (`AllRows`), and a year row is the sum of the
  quarter rows of its year so far (`YearsAddUp`).
- `EnginePassesProofs!OtherPeriodsStay`, `ReviewedStay`, `NothingGoesUnsaid`: the
  action properties of saving and of pass 5, and that a run without errors has
  its graph, texts, splits and sections. The first excepts a file that is unreadable
  after the step; the second is about one invocation and what it has read, since the
  review states it saves no longer name the rows it kept. The invariant (`FullInv`) follows the
  program counter: which tables of the context are there after which pass if none
  has raised.
- `EnginePassesProofs!TypeCorrect`, `MaterialIsKept`: the first says that every
  table is a function from keys of the periods it may speak of to rows, with
  references into the material table; the second that whatever is above its
  threshold in the raw table, and each account the detectors find, is in the
  material table the narratives are made for.
- `EnginePassesProofs!YearsAreSums`: the raw table in the context is always one
  that pass 1 made, and `YearsAddUp` speaks of it.
- `EnginePassesProofs!DriversExplain`: drivers and residual add up to the variance of
  their row within two cents. The invariant `SplitInv` says that each row and
  each split, in the context, collected or on disk, is the one the books give, so a
  split that an earlier invocation left belongs to the row it is read for; each of
  up to four shares is within half a cent of the exact one, or the last is what
  remains.
- `EnginePassesProofs!SectionsAreSums`: the sections on disk are the well told ones
  (`WellTold`): one for each name, view, base and unit with rows, whose total is
  a sum over a set of rows; the rows of the company are partitioned by unit.

- `EnginePassesProofs!FormulasFollowed`: the rows of a calculated account are the
  sums of its operands' rows less those it subtracts, in months (`MonthsFollow`:
  by induction along the fold that resolves the accounts, an account that has been
  resolved goes on to follow its operands, because none of them comes later) and in
  quarters and years (`DifferencesFollow`: the sums over formula and over
  months change places, by `SigmaParts` and `SigmaMinus`).

- `VarianceMathProofs!SortedInTurn`: `_topological_sort_calcs` lists each account
  with a formula once and after what the formula is about, which is what the fold
  that resolves the accounts needs (`FormulasInOrder`). The visit of an account is a
  fold over visits with one account less to go. It is made when the accounts on the way
  down (`OnTheWay`: visited and not resolved) are all above it (`MayVisit`), which
  `FormulasOK` gives: no formula leads back to its account, said with a
  level for each account. A visit leaves the way as it was and resolves its account
  (`OneVisit`), whether it was visited before or not.

- `EnginePassesProofs!StreaksWellFound`: `StreaksFound` is about the scan of
  the trend detector alone: over any sequence of amounts it returns the longest runs
  of one sign that are long enough (by induction along the sequence: what is told,
  and where the run under way began). The rest carries it over from positions
  to months: the rows of an account and slice, in the order of their periods, are its
  months one by one (`AscendingOrder`, `PeriodsInOrder`). That is so because the
  facts have a row in every month (`MonthsComplete`, which the generator's loop
  over all periods makes true); of a row that lacks a month the detector, which
  sees positions only, would join the streaks on both sides. The invariant
  `DetectedInv` says that the trends of the context are those of its raw table.
- `CascadeProofs!QueriesAlwaysAgree`, from the theorems about its six parts, which
  hold at every moment and not at rest only. `MetricsCountOnce` and
  `UnitsHideNothing` split the kept rows by view and base, and the alerts by unit:
  the page of the company takes the first accounts of the ranking, and an alert that
  is ahead of enough others there is so among those of its unit. `NodesHideNothing`: the
  slices of a node under another are slices of that one (`SlicesOfNodes`), and with room
  for all a filter that lets more through has the same alerts and more, of trends for
  each account one that is as large. `NodesAreSums` needs
  that each node of a saved dimension is under one parent and that none is under
  itself, which `CascadeConstantsOK` and `DimensionsOK` say of the constants.
  `PagesHaveEachRow` and `EndpointsTellOneAmount` are about sequences made by
  recursion over numbers, the list row by row, the statement level by level, the
  pages one after another; `StepsExist` and `StepsGoOn` give existence and next step
  of all three. The first rows of a list are each there once, and none that is left is
  larger (`OneMoreRow`); the first `n` pages are the beginning of the list
  (`PagesJoin`, for the page sizes of the property). A line at any level has the amount of
  the rows of its account (`StatementLines`), and the waterfall adds up because the
  rows of the units are those of the company (`UnitStepsAddUp`) and each row's
  variance is its actual less its comparator, as all rows of pass 1 are sums and
  differences of leaves.

The list is sorted by an algorithm that is not stable, so `ListedRows` takes of
equally large rows any one first, but always the same for the same rows: each page
is cut out of a list that is sorted anew.

Only model-checked is liveness, which the prover does not treat: `EveryTaskSettles`,
`ChangesAreCascaded`, `AnswersArrive`, `DueThingsHappen`.

## Plan

Every safety and action property of the runs that pass is a theorem; liveness stays
with TLC. What could be stated more generally: `PagesCoverOnce` for pages of any size
(a product of two variables, which the solver does not do alone), and
`StreaksAreRuns` without `MonthsComplete`, for which the positions the detector counts
would have to be told from months.

## Not modelled

- Wording, prompts, numbers of tokens and confidence scores of narratives and
  answers: no property is about them. For the same reason the hypotheses of pass 4
  and what the language model is told about sections and summaries.
- Floats: amounts are whole cents, scores are hundredths. Rounding is modelled
  where a property is about it (`Decomposition`).
- `anomaly`, `clustering`, `coherence`, `leading_lagging`, `multi_year` of
  `shared/intelligence/` and the synthesis endpoint: two never yield a note in
  the pipeline, the others have no caller or word what others computed.
- Access control and user administration: stateless tokens, table look-ups and one
  database transaction per call.
- The channels of notifications, beyond which of them are used: each posts one
  message and reports success.
- The health probe and routing table of the LLM client, the Redis cache,
  `shared/hierarchy/` and `period_utils.py`: nothing that is modelled depends on
  more of them than is said above.
- The generator of demonstration data and the frontend.
- `last_run_at` of schedules, times and identifiers in results, and progress
  fields: written and shown, never read.
