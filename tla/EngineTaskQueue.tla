--------------------------- MODULE EngineTaskQueue ---------------------------
(***************************************************************************)
(* The engine task queue of the computation service                        *)
(* (shared/engine/task_queue.py) on its asyncio event loop.  A request     *)
(* handler (submit, cancel) has no await of its own and is one action,     *)
(* taken between any two handles of the loop.  Coroutine steps and done    *)
(* callbacks are handles in the loop's FIFO ready queue.  A task may be    *)
(* run by more than one asyncio task, so tasks and runs are told apart.    *)
(***************************************************************************)
EXTENDS Naturals, Sequences, FiniteSets

CONSTANTS
    MaxConcurrent,  \* max_concurrent, 1 in the service
    MaxHistory,     \* MAX_HISTORY, 100 in the code
    MaxTasks,       \* bound of the model: submissions made
    MaxAwaits       \* how often one run really waits; finite in the code, which
                    \* awaits per period, LLM batch and cache pattern

ASSUME QueueConstantsOK ==
    /\ MaxConcurrent \in Nat \ {0}
    /\ MaxHistory \in Nat \ {0}
    /\ MaxTasks \in Nat
    /\ MaxAwaits \in Nat

VARIABLES
    submitted,  \* number of tasks submitted; task ids are 1..submitted
    known,      \* keys of _tasks
    order,      \* _task_order
    running,    \* _running_tasks: task -> its run, NoRun when it has no entry
    status,     \* status of each EngineTask object
    runs,       \* every asyncio task ever created
    ready,      \* the loop's ready queue
    cancels     \* history: cancellations that took a run out of _running_tasks

vars == <<submitted, known, order, running, status, runs, ready, cancels>>

-----------------------------------------------------------------------------

Tasks == 1..MaxTasks
NoRun == 0

Statuses == {"none", "queued", "running", "completed", "failed", "cancelled"}
Terminal == {"completed", "failed", "cancelled"}

\* created: the first step is in the ready queue; running, reloading: waiting
\* in the pipeline or in _hot_reload; finished: the done callback is in the
\* ready queue; gone: the callback has run.
RunStates == {"created", "running", "reloading", "finished", "gone"}
Runs == [task : Tasks, state : RunStates, cancelled : BOOLEAN, left : 0..MaxAwaits]

Handles == [kind : {"step", "done"}, run : Nat \ {0}]
Step(r) == [kind |-> "step", run |-> r]
Done(r) == [kind |-> "done", run |-> r]

\* A wrong Tracked: an entry counts only once its task has begun.
Tracked_Begun == {t \in Tasks : running[t] # NoRun /\ status[t] = "running"}

Tracked == {t \in Tasks : running[t] # NoRun}

IsQueued(t) == t \in known /\ status[t] = "queued"

\* _start_task: a new asyncio task for t, on top of a queue of ready handles.
\* Nothing here looks at the limit or at an entry t may have already.
Start(t, oldRuns, oldRunning, oldReady) ==
    LET r == Len(oldRuns) + 1
    IN  /\ runs' = Append(oldRuns, [task |-> t, state |-> "created",
                                    cancelled |-> FALSE, left |-> MaxAwaits])
        /\ running' = [oldRunning EXCEPT ![t] = r]
        /\ ready' = Append(oldReady, Step(r))

\* A wrong IsNext: the callback takes the task that waits shortest.
IsNext_Newest(i) ==
    /\ IsQueued(order[i])
    /\ \A j \in DOMAIN order : j > i => ~IsQueued(order[j])

\* The place in order of the task a done callback starts.
IsNext(i) ==
    /\ IsQueued(order[i])
    /\ \A j \in DOMAIN order : j < i => ~IsQueued(order[j])

-----------------------------------------------------------------------------

Init ==
    /\ submitted = 0
    /\ known = {}
    /\ order = <<>>
    /\ running = [t \in Tasks |-> NoRun]
    /\ status = [t \in Tasks |-> "none"]
    /\ runs = <<>>
    /\ ready = <<>>
    /\ cancels = 0

\* submit: record the task, trim the history, start the task below the limit.
Submit ==
    LET t == submitted + 1
        full == Len(order) >= MaxHistory
        oldest == Head(Append(order, t))
    IN  /\ submitted < MaxTasks
        /\ submitted' = t
        /\ status' = [status EXCEPT ![t] = "queued"]
        /\ order' = IF full THEN Tail(Append(order, t)) ELSE Append(order, t)
        /\ known' = IF full /\ running[oldest] = NoRun
                    THEN (known \cup {t}) \ {oldest}
                    ELSE known \cup {t}
        /\ IF Cardinality(Tracked) < MaxConcurrent
           THEN Start(t, runs, running, ready)
           ELSE UNCHANGED <<runs, running, ready>>
        /\ UNCHANGED cancels

\* A wrong Cancel: the entry stays, so the limit is kept but the table lies.
Cancel_KeepsEntry(t) ==
    /\ t \in known
    /\ status[t] \notin Terminal
    /\ status' = [status EXCEPT ![t] = "cancelled"]
    /\ IF running[t] = NoRun
       THEN UNCHANGED <<runs, cancels>>
       ELSE /\ runs' = [runs EXCEPT ![running[t]].cancelled = @ \/ runs[running[t]].state # "finished"]
            /\ cancels' = cancels + 1
    /\ UNCHANGED <<submitted, known, order, running, ready>>

\* A wrong Cancel: settled tasks are not refused.
Cancel_Settled(t) ==
    /\ t \in known
    /\ status' = [status EXCEPT ![t] = "cancelled"]
    /\ running' = [running EXCEPT ![t] = NoRun]
    /\ IF running[t] = NoRun
       THEN UNCHANGED <<runs, cancels>>
       ELSE /\ runs' = [runs EXCEPT ![running[t]].cancelled = @ \/ runs[running[t]].state # "finished"]
            /\ cancels' = cancels + 1
    /\ UNCHANGED <<submitted, known, order, ready>>

\* cancel: refused for a task that is unknown or settled.  A run that has not
\* finished is told to stop, and learns of it at its next step.
Cancel(t) ==
    /\ t \in known
    /\ status[t] \notin Terminal
    /\ status' = [status EXCEPT ![t] = "cancelled"]
    /\ running' = [running EXCEPT ![t] = NoRun]
    /\ IF running[t] = NoRun
       THEN UNCHANGED <<runs, cancels>>
       ELSE /\ runs' = [runs EXCEPT ![running[t]].cancelled = @ \/ runs[running[t]].state # "finished"]
            /\ cancels' = cancels + 1
    /\ UNCHANGED <<submitted, known, order, ready>>

\* What a run waits for has happened, or its cancellation has reached it.
WakeUp(r) ==
    /\ runs[r].state \in {"running", "reloading"}
    /\ \A i \in DOMAIN ready : ready[i] # Step(r)
    /\ ready' = Append(ready, Step(r))
    /\ UNCHANGED <<submitted, known, order, running, status, runs, cancels>>

IsHead(handle) == ready # <<>> /\ Head(ready) = handle

\* The coroutine ends and its done callback is scheduled.
Finish(r, newStatus) ==
    /\ runs' = [runs EXCEPT ![r].state = "finished"]
    /\ ready' = Append(Tail(ready), Done(r))
    /\ status' = [status EXCEPT ![runs[r].task] = newStatus]
    /\ UNCHANGED <<submitted, known, order, running, cancels>>

\* The coroutine waits, in the pipeline or in the reload.
Wait(r, state, newStatus) ==
    /\ runs[r].left > 0
    /\ runs' = [runs EXCEPT ![r].state = state, ![r].left = @ - 1]
    /\ ready' = Tail(ready)
    /\ status' = [status EXCEPT ![runs[r].task] = newStatus]
    /\ UNCHANGED <<submitted, known, order, running, cancels>>

\* A wrong StepCancelled: the handler misspells the status.
StepCancelled_Misspelt(r) ==
    /\ IsHead(Step(r))
    /\ runs[r].cancelled
    /\ Finish(r, IF runs[r].state = "created" THEN status[runs[r].task] ELSE "canceled")

\* CancelledError: before its first step the coroutine body never runs; later
\* the handler in _execute_task sets the status.
StepCancelled(r) ==
    /\ IsHead(Step(r))
    /\ runs[r].cancelled
    /\ Finish(r, IF runs[r].state = "created" THEN status[runs[r].task] ELSE "cancelled")

\* The pipeline goes on: it waits, raises, or completes, and then reloads the
\* data, with or without having to wait.
StepPipeline(r) ==
    /\ IsHead(Step(r))
    /\ ~runs[r].cancelled
    /\ runs[r].state \in {"created", "running"}
    /\ \/ Wait(r, "running", IF runs[r].state = "created" THEN "running"
                             ELSE status[runs[r].task])
       \/ Finish(r, "failed")
       \/ Wait(r, "reloading", "completed")
       \/ Finish(r, "completed")

\* _hot_reload goes on; its errors are swallowed and the status stays.
StepReload(r) ==
    /\ IsHead(Step(r))
    /\ ~runs[r].cancelled
    /\ runs[r].state = "reloading"
    /\ \/ Wait(r, "reloading", status[runs[r].task])
       \/ Finish(r, status[runs[r].task])

\* A wrong OnDone: the callback drops the entry and starts nobody.
OnDone_Nobody(r) ==
    /\ IsHead(Done(r))
    /\ runs' = [runs EXCEPT ![r].state = "gone"]
    /\ running' = [running EXCEPT ![runs[r].task] = NoRun]
    /\ ready' = Tail(ready)
    /\ UNCHANGED <<submitted, known, order, status, cancels>>

\* _on_done: drop the task's entry and start the first queued task, if any.
OnDone(r) ==
    LET task == runs[r].task
        over == [runs EXCEPT ![r] = [task |-> task, state |-> "gone",
                                     cancelled |-> FALSE, left |-> 0]]
        freed == [running EXCEPT ![task] = NoRun]
    IN  /\ IsHead(Done(r))
        /\ IF \E i \in DOMAIN order : IsQueued(order[i])
           THEN \E i \in DOMAIN order :
                    IsNext(i) /\ Start(order[i], over, freed, Tail(ready))
           ELSE /\ runs' = over
                /\ running' = freed
                /\ ready' = Tail(ready)
        /\ UNCHANGED <<submitted, known, order, status, cancels>>

RunHandle == \E r \in DOMAIN runs : \/ StepCancelled(r) \/ StepPipeline(r)
                                    \/ StepReload(r) \/ OnDone(r)

Answer == \E r \in DOMAIN runs : WakeUp(r)

Next ==
    \/ Submit
    \/ \E t \in Tasks : Cancel(t)
    \/ Answer
    \/ RunHandle

Spec == Init /\ [][Next]_vars

\* The loop never stops running handles, and everything a run awaits comes back
\* in the end: the loop sees to it for a cancelled await, and the peers are
\* assumed to for an LLM answer or a cache reply.  Requests need not come.
Fairness == WF_vars(RunHandle) /\ WF_vars(Answer)

FairSpec == Spec /\ Fairness

-----------------------------------------------------------------------------
(* Properties *)

\* Tasks, runs and handles keep their shapes; the history holds submitted tasks.
TypeOK ==
    /\ submitted \in 0..MaxTasks
    /\ known \subseteq 1..submitted
    /\ order \in Seq(1..submitted)
    /\ running \in [Tasks -> Nat]
    /\ status \in [Tasks -> Statuses]
    /\ runs \in Seq(Runs)
    /\ ready \in Seq(Handles)
    /\ cancels \in Nat

\* An entry of _running_tasks is a run of that task that is still going to call
\* its done callback and was not cancelled.
RunningTracked ==
    \A t \in Tracked : /\ running[t] \in DOMAIN runs
                       /\ runs[running[t]].task = t
                       /\ runs[running[t]].state # "gone"
                       /\ ~runs[running[t]].cancelled

Pending(r) == runs[r].state # "gone"

\* No lost wake-up: while a task is queued some run has its done callback still
\* to come, so somebody will start it, although submit never starts an older
\* task and cancel starts none.
WorkConserving ==
    (\E i \in DOMAIN order : IsQueued(order[i])) => \E r \in DOMAIN runs : Pending(r)

\* The runs that use the engine: begun, not over and not told to stop.
Executing == {r \in DOMAIN runs : /\ runs[r].state \in {"running", "reloading"}
                                  /\ ~runs[r].cancelled}

\* Each cancellation of a running task lets at most one run too many in, and
\* nothing else does: with no such cancellation the limit holds.
ExcessBoundedByCancels == Cardinality(Executing) <= MaxConcurrent + cancels

\* With no such cancellation tasks are taken in the order of submission: when a
\* task waits, every later one waits too or was cancelled while it did.
ServedInOrder ==
    cancels = 0 =>
        \A i, j \in DOMAIN order :
            i < j /\ IsQueued(order[i]) /\ running[order[i]] = NoRun
                => status[order[j]] \in {"queued", "cancelled"}

TwiceStarted(t) == \E r, s \in DOMAIN runs : r # s /\ runs[r].task = t /\ runs[s].task = t

\* A settled task keeps its status, so a cancelled one stays cancelled, unless
\* it was started twice.
SettledIsFinal ==
    [][\A t \in Tasks :
          status[t] \in Terminal /\ ~TwiceStarted(t) => status'[t] = status[t]]_vars

\* Every queued task is run to its end or cancelled, unless the history limit
\* pushes it out first.
EveryTaskSettles ==
    \A t \in Tasks :
        status[t] = "queued" ~> \/ status[t] \in Terminal
                                \/ \A i \in DOMAIN order : order[i] # t

\* "Max 1 concurrent engine run (protects resources)" (task_queue.py:7).
MaxConcurrentRuns == Cardinality(Executing) <= MaxConcurrent
=============================================================================
