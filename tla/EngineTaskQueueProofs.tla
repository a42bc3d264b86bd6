------------------------ MODULE EngineTaskQueueProofs ------------------------
(***************************************************************************)
(* Theorems about EngineTaskQueue, for any concurrency limit, history      *)
(* length, number of submissions and number of awaits.                     *)
(***************************************************************************)
EXTENDS EngineTaskQueue, SequenceTheorems, FiniteSetTheorems, TLAPS

-----------------------------------------------------------------------------
(* The operators on the loop *)

\* Overwriting one run of the list by a run leaves a list of the same length.
LEMMA RunsUpdate ==
    ASSUME runs \in Seq(Runs), NEW r \in DOMAIN runs, NEW x \in Runs
    PROVE  /\ [runs EXCEPT ![r] = x] \in Seq(Runs)
           /\ Len([runs EXCEPT ![r] = x]) = Len(runs)
           /\ DOMAIN [runs EXCEPT ![r] = x] = DOMAIN runs
  OBVIOUS

\* Appending to a list, and dropping the oldest entry after that.
LEMMA AppendTail ==
    ASSUME NEW S, NEW q \in Seq(S), NEW e \in S
    PROVE  Append(q, e) \in Seq(S) /\ Tail(Append(q, e)) \in Seq(S)
  <1>1. Append(q, e) \in Seq(S) /\ Append(q, e) # <<>>
    BY AppendProperties
  <1> QED
    BY <1>1, HeadTailProperties

\* A started task gets a new run at the end of the list and a handle.
LEMMA StartTypes ==
    ASSUME NEW t \in Tasks, NEW rs \in Seq(Runs), NEW rn \in [Tasks -> Nat],
           NEW rd \in Seq(Handles), Start(t, rs, rn, rd)
    PROVE  /\ runs' \in Seq(Runs)
           /\ running' \in [Tasks -> Nat]
           /\ ready' \in Seq(Handles)
           /\ DOMAIN runs' = 1..(Len(rs) + 1)
           /\ runs'[Len(rs) + 1].state = "created"
  <1> DEFINE new == [task |-> t, state |-> "created", cancelled |-> FALSE, left |-> MaxAwaits]
  <1>1. new \in Runs
    BY QueueConstantsOK DEF Runs, RunStates
  <1>2. Len(rs) \in Nat
    BY LenProperties
  <1>3. Step(Len(rs) + 1) \in Handles
    BY <1>2 DEF Step, Handles
  <1>4. runs' = Append(rs, new) /\ running' = [rn EXCEPT ![t] = Len(rs) + 1]
        /\ ready' = Append(rd, Step(Len(rs) + 1))
    BY DEF Start
  <1>5. ready' \in Seq(Handles)
    BY <1>3, <1>4, AppendProperties
  <1>6. /\ runs' \in Seq(Runs) /\ Len(runs') = Len(rs) + 1
        /\ \A i \in 1..Len(rs) : runs'[i] = rs[i]
        /\ runs'[Len(rs) + 1] = new
    BY <1>1, <1>4, AppendProperties
  <1>7. DOMAIN runs' = 1..(Len(rs) + 1) /\ DOMAIN rs = 1..Len(rs)
    BY <1>6, LenProperties
  <1> QED
    BY <1>2, <1>4, <1>5, <1>6, <1>7

\* Setting one field of a run.
LEMMA RunFields ==
    ASSUME NEW run \in Runs, NEW s \in RunStates, NEW c \in BOOLEAN
    PROVE  /\ [run EXCEPT !.state = s] \in Runs
           /\ [run EXCEPT !.cancelled = c] \in Runs
           /\ run.left > 0 => [run EXCEPT !.state = s, !.left = run.left - 1] \in Runs
  <1>1. run.left > 0 => run.left - 1 \in 0..MaxAwaits
    BY QueueConstantsOK DEF Runs
  <1> QED
    BY <1>1 DEF Runs

-----------------------------------------------------------------------------
(* Type correctness *)

\* Tasks, runs and handles keep their shapes, and the history list and the task
\* table name submitted tasks only.
THEOREM TypeCorrect == Spec => []TypeOK
  <1>1. Init => TypeOK
    BY QueueConstantsOK, EmptySeq DEF Init, TypeOK, Tasks, NoRun, Statuses
  <1>2. TypeOK /\ [Next]_vars => TypeOK'
    <2> SUFFICES ASSUME TypeOK, [Next]_vars
                 PROVE  TypeOK'
      OBVIOUS
    <2>0. /\ submitted \in 0..MaxTasks /\ known \subseteq 1..submitted
          /\ order \in Seq(1..submitted) /\ running \in [Tasks -> Nat]
          /\ status \in [Tasks -> Statuses] /\ runs \in Seq(Runs)
          /\ ready \in Seq(Handles) /\ cancels \in Nat
      BY DEF TypeOK
    <2>a. ASSUME NEW r \in DOMAIN runs
          PROVE  runs[r] \in Runs /\ runs[r].task \in Tasks /\ r \in Nat \ {0}
      <3>1. DOMAIN runs = 1..Len(runs) /\ Len(runs) \in Nat
        BY <2>0, LenProperties
      <3>2. r \in 1..Len(runs)
        BY <3>1
      <3>3. runs[r] \in Runs
        BY <2>0, <3>2, ElementOfSeq
      <3> QED
        BY <3>1, <3>2, <3>3 DEF Runs
    <2>b. ready # <<>> => Tail(ready) \in Seq(Handles)
      BY <2>0, HeadTailProperties
    <2>1. CASE Submit
      <3> DEFINE t == submitted + 1
                 longer == Append(order, t)
      <3>1. t \in Tasks /\ t \in 0..MaxTasks /\ t \in 1..t /\ 1..submitted \subseteq 1..t
        BY <2>0, <2>1, QueueConstantsOK DEF Submit, Tasks
      <3>2. longer \in Seq(1..t) /\ Tail(longer) \in Seq(1..t)
        <4>1. order \in Seq(1..t)
          BY <2>0, <3>1
        <4> QED
          BY <3>1, <4>1, AppendTail
      <3>4. order' \in Seq(1..submitted') /\ known' \subseteq 1..submitted'
        BY <2>0, <2>1, <3>1, <3>2 DEF Submit
      <3>5. runs' \in Seq(Runs) /\ running' \in [Tasks -> Nat] /\ ready' \in Seq(Handles)
        <4>1. CASE Start(t, runs, running, ready)
          BY <2>0, <3>1, <4>1, StartTypes
        <4>2. CASE UNCHANGED <<runs, running, ready>>
          BY <2>0, <4>2
        <4> QED
          BY <2>1, <4>1, <4>2 DEF Submit
      <3>6. status' \in [Tasks -> Statuses]
        BY <2>0, <2>1 DEF Submit, Statuses
      <3>7. submitted' \in 0..MaxTasks /\ cancels' \in Nat
        BY <2>0, <2>1, <3>1 DEF Submit
      <3> QED
        BY <3>4, <3>5, <3>6, <3>7 DEF TypeOK
    <2>2. ASSUME NEW t \in Tasks, Cancel(t)
          PROVE  TypeOK'
      <3>1. status' \in [Tasks -> Statuses] /\ running' \in [Tasks -> Nat] /\ cancels' \in Nat
        BY <2>0, <2>2 DEF Cancel, Statuses, NoRun
      <3>2. runs' \in Seq(Runs)
        <4>1. CASE running[t] = NoRun
          BY <2>0, <2>2, <4>1 DEF Cancel
        <4>2. CASE running[t] # NoRun /\ running[t] \in DOMAIN runs
          <5> DEFINE r == running[t]
                     c == runs[r].cancelled \/ runs[r].state # "finished"
          <5>1. runs' = [runs EXCEPT ![r] = [runs[r] EXCEPT !.cancelled = c]]
            BY <2>2, <4>2 DEF Cancel
          <5>2. c \in BOOLEAN /\ runs[r] \in Runs
            BY <2>a, <4>2 DEF Runs
          <5>3. [runs[r] EXCEPT !.cancelled = c] \in Runs
            BY <5>2, RunFields DEF RunStates
          <5> QED
            BY <2>0, <4>2, <5>1, <5>3, RunsUpdate
        <4>3. CASE running[t] # NoRun /\ running[t] \notin DOMAIN runs
          <5>1. runs = [i \in 1..Len(runs) |-> runs[i]] /\ DOMAIN runs = 1..Len(runs)
            BY <2>0, LenProperties
          <5>2. runs' = runs
            BY <2>2, <4>3, <5>1 DEF Cancel
          <5> QED
            BY <2>0, <5>2
        <4> QED
          BY <4>1, <4>2, <4>3
      <3> QED
        BY <2>0, <2>2, <3>1, <3>2 DEF Cancel, TypeOK
    <2>3. ASSUME NEW r \in DOMAIN runs, WakeUp(r)
          PROVE  TypeOK'
      <3>1. Step(r) \in Handles
        BY <2>a DEF Step, Handles
      <3>2. ready' \in Seq(Handles)
        BY <2>0, <2>3, <3>1, AppendProperties DEF WakeUp
      <3> QED
        BY <2>0, <2>3, <3>2 DEF WakeUp, TypeOK
    <2>4. ASSUME NEW r \in DOMAIN runs, NEW new \in Statuses, ready # <<>>, Finish(r, new)
          PROVE  TypeOK'
      <3>1. Done(r) \in Handles
        BY <2>a DEF Done, Handles
      <3>2. ready' \in Seq(Handles)
        BY <2>b, <2>4, <3>1, AppendProperties DEF Finish
      <3>3. [runs[r] EXCEPT !.state = "finished"] \in Runs
        BY <2>a, RunFields DEF RunStates
      <3>4. runs' \in Seq(Runs)
        BY <2>0, <2>4, <3>3, RunsUpdate DEF Finish
      <3>5. status' \in [Tasks -> Statuses]
        BY <2>0, <2>a, <2>4 DEF Finish
      <3> QED
        BY <2>0, <2>4, <3>2, <3>4, <3>5 DEF Finish, TypeOK
    <2>5. ASSUME NEW r \in DOMAIN runs, NEW new \in Statuses, NEW state \in RunStates,
                 ready # <<>>, Wait(r, state, new)
          PROVE  TypeOK'
      <3>1. [runs[r] EXCEPT !.state = state, !.left = runs[r].left - 1] \in Runs
        BY <2>a, <2>5, RunFields DEF Wait
      <3>2. runs' \in Seq(Runs)
        <4>1. runs' = [runs EXCEPT ![r] = [runs[r] EXCEPT !.state = state,
                                                          !.left = runs[r].left - 1]]
          BY <2>5 DEF Wait
        <4> QED
          BY <2>0, <3>1, <4>1, RunsUpdate
      <3>3. status' \in [Tasks -> Statuses]
        BY <2>0, <2>a, <2>5 DEF Wait
      <3> QED
        BY <2>0, <2>b, <2>5, <3>2, <3>3 DEF Wait, TypeOK
    <2>6. ASSUME NEW r \in DOMAIN runs, StepCancelled(r) \/ StepPipeline(r) \/ StepReload(r)
          PROVE  TypeOK'
      <3>1. ready # <<>> /\ status[runs[r].task] \in Statuses
        BY <2>0, <2>a, <2>6 DEF StepCancelled, StepPipeline, StepReload, IsHead
      <3>2. {"running", "completed", "failed", "cancelled"} \subseteq Statuses
        BY DEF Statuses
      <3>3. {"running", "reloading"} \subseteq RunStates
        BY DEF RunStates
      <3> QED
        BY <2>4, <2>5, <2>6, <3>1, <3>2, <3>3 DEF StepCancelled, StepPipeline, StepReload
    <2>7. ASSUME NEW r \in DOMAIN runs, OnDone(r)
          PROVE  TypeOK'
      <3> DEFINE over == [runs EXCEPT ![r] = [task |-> runs[r].task, state |-> "gone",
                                              cancelled |-> FALSE, left |-> 0]]
                 freed == [running EXCEPT ![runs[r].task] = NoRun]
      <3>1. [task |-> runs[r].task, state |-> "gone", cancelled |-> FALSE, left |-> 0] \in Runs
        BY <2>a, QueueConstantsOK DEF Runs, RunStates
      <3>2. over \in Seq(Runs)
        BY <2>0, <3>1, RunsUpdate
      <3>3. freed \in [Tasks -> Nat]
        BY <2>0 DEF NoRun
      <3>4. ready # <<>> /\ Tail(ready) \in Seq(Handles)
        BY <2>b, <2>7 DEF OnDone, IsHead
      <3>5. runs' \in Seq(Runs) /\ running' \in [Tasks -> Nat] /\ ready' \in Seq(Handles)
        <4>1. ASSUME NEW i \in DOMAIN order, Start(order[i], over, freed, Tail(ready))
              PROVE  runs' \in Seq(Runs) /\ running' \in [Tasks -> Nat] /\ ready' \in Seq(Handles)
          <5>1. order[i] \in 1..submitted
            BY <2>0, LenProperties, ElementOfSeq
          <5>2. order[i] \in Tasks
            BY <2>0, <5>1, QueueConstantsOK DEF Tasks
          <5> QED
            BY <3>2, <3>3, <3>4, <4>1, <5>2, StartTypes
        <4>2. CASE runs' = over /\ running' = freed /\ ready' = Tail(ready)
          BY <3>2, <3>3, <3>4, <4>2
        <4> QED
          BY <2>7, <4>1, <4>2 DEF OnDone
      <3> QED
        BY <2>0, <2>7, <3>5 DEF OnDone, TypeOK
    <2>8. CASE UNCHANGED vars
      BY <2>0, <2>8 DEF vars, TypeOK
    <2> QED
      BY <2>1, <2>2, <2>3, <2>6, <2>7, <2>8 DEF Next, Answer, RunHandle
  <1> QED
    BY <1>1, <1>2, PTL DEF Spec

-----------------------------------------------------------------------------
(* The table of running tasks *)

\* A known run, for the proofs below.
LEMMA RunIsRun ==
    ASSUME TypeOK, NEW r \in DOMAIN runs
    PROVE  runs[r] \in Runs /\ runs[r].task \in Tasks /\ r \in Nat \ {0}
  <1>1. DOMAIN runs = 1..Len(runs) /\ Len(runs) \in Nat
    BY LenProperties DEF TypeOK
  <1>2. r \in 1..Len(runs)
    BY <1>1
  <1>3. runs[r] \in Runs
    BY <1>2, ElementOfSeq DEF TypeOK
  <1> QED
    BY <1>1, <1>2, <1>3 DEF Runs

\* Starting a task keeps the table right, if it was right for the others.
LEMMA StartTracks ==
    ASSUME NEW t \in Tasks, NEW rs \in Seq(Runs), NEW rn \in [Tasks -> Nat],
           NEW rd \in Seq(Handles), Start(t, rs, rn, rd),
           \A u \in Tasks : rn[u] # NoRun =>
               /\ rn[u] \in DOMAIN rs
               /\ rs[rn[u]].task = u
               /\ rs[rn[u]].state # "gone"
               /\ ~rs[rn[u]].cancelled
    PROVE  RunningTracked'
  <1> DEFINE new == [task |-> t, state |-> "created", cancelled |-> FALSE, left |-> MaxAwaits]
  <1>1. new \in Runs /\ runs' = Append(rs, new) /\ running' = [rn EXCEPT ![t] = Len(rs) + 1]
    BY QueueConstantsOK DEF Start, Runs, RunStates
  <1>2. /\ DOMAIN rs = 1..Len(rs) /\ Len(rs) \in Nat
        /\ DOMAIN runs' = 1..(Len(rs) + 1)
    BY LenProperties, StartTypes
  <1>3. \A r \in DOMAIN rs : runs'[r] = rs[r]
    BY <1>1, <1>2, AppendProperties
  <1>4. runs'[Len(rs) + 1] = new
    BY <1>1, AppendProperties
  <1>5. running'[t] = Len(rs) + 1 /\ \A u \in Tasks \ {t} : running'[u] = rn[u]
    BY <1>1
  <1> QED
    BY <1>2, <1>3, <1>4, <1>5 DEF RunningTracked, Tracked

\* A step of one run that is neither cancelled nor over keeps the table right.
LEMMA RunStepTracks ==
    ASSUME TypeOK, RunningTracked, NEW r \in DOMAIN runs, UNCHANGED running,
           DOMAIN runs' = DOMAIN runs,
           \A q \in DOMAIN runs \ {r} : runs'[q] = runs[q],
           runs'[r].task = runs[r].task, runs'[r].state # "gone",
           runs'[r].cancelled = runs[r].cancelled
    PROVE  RunningTracked'
  BY DEF RunningTracked, Tracked

\* A run that ends its coroutine is still pending.
LEMMA FinishRuns ==
    ASSUME TypeOK, NEW r \in DOMAIN runs, NEW new, Finish(r, new)
    PROVE  /\ UNCHANGED <<running, known, order>>
           /\ DOMAIN runs' = DOMAIN runs
           /\ \A q \in DOMAIN runs \ {r} : runs'[q] = runs[q]
           /\ runs'[r].task = runs[r].task /\ runs'[r].state = "finished"
           /\ runs'[r].cancelled = runs[r].cancelled
  BY RunIsRun DEF Finish, Runs

\* So is a run that waits.
LEMMA WaitRuns ==
    ASSUME TypeOK, NEW r \in DOMAIN runs, NEW new, NEW state, Wait(r, state, new)
    PROVE  /\ UNCHANGED <<running, known, order>>
           /\ DOMAIN runs' = DOMAIN runs
           /\ \A q \in DOMAIN runs \ {r} : runs'[q] = runs[q]
           /\ runs'[r].task = runs[r].task /\ runs'[r].state = state
           /\ runs'[r].cancelled = runs[r].cancelled
  <1> DEFINE waiting == [runs[r] EXCEPT !.state = state, !.left = runs[r].left - 1]
  <1>1. runs' = [runs EXCEPT ![r] = waiting]
    BY DEF Wait
  <1>2. waiting.task = runs[r].task /\ waiting.state = state
        /\ waiting.cancelled = runs[r].cancelled
    BY RunIsRun DEF Runs
  <1>3. runs'[r] = waiting /\ DOMAIN runs' = DOMAIN runs
        /\ \A q \in DOMAIN runs \ {r} : runs'[q] = runs[q]
    BY <1>1
  <1>4. UNCHANGED <<running, known, order>>
    BY DEF Wait
  <1> QED
    BY <1>2, <1>3, <1>4

\* So every step of a coroutine leaves its run pending and the others alone.
LEMMA CoroutineStep ==
    ASSUME TypeOK, NEW r \in DOMAIN runs,
           StepCancelled(r) \/ StepPipeline(r) \/ StepReload(r)
    PROVE  /\ UNCHANGED <<running, known, order>>
           /\ DOMAIN runs' = DOMAIN runs
           /\ \A q \in DOMAIN runs \ {r} : runs'[q] = runs[q]
           /\ runs'[r].task = runs[r].task /\ runs'[r].state # "gone"
           /\ runs'[r].cancelled = runs[r].cancelled
  BY FinishRuns, WaitRuns DEF StepCancelled, StepPipeline, StepReload

\* _running_tasks maps a task to a run of its own that will still call its done
\* callback and that nobody told to stop.
THEOREM RunningIsTracked == Spec => []RunningTracked
  <1>1. Init => RunningTracked
    BY DEF Init, RunningTracked, Tracked
  <1>2. TypeOK /\ RunningTracked /\ [Next]_vars => RunningTracked'
    <2> SUFFICES ASSUME TypeOK, RunningTracked, [Next]_vars
                 PROVE  RunningTracked'
      OBVIOUS
    <2>0. /\ order \in Seq(1..submitted) /\ running \in [Tasks -> Nat]
          /\ runs \in Seq(Runs) /\ ready \in Seq(Handles) /\ submitted \in 0..MaxTasks
      BY DEF TypeOK
    <2>a. \A u \in Tasks : running[u] # NoRun =>
              /\ running[u] \in DOMAIN runs
              /\ runs[running[u]].task = u
              /\ runs[running[u]].state # "gone"
              /\ ~runs[running[u]].cancelled
      BY DEF RunningTracked, Tracked
    <2>1. CASE Submit
      <3>1. submitted + 1 \in Tasks
        BY <2>0, <2>1, QueueConstantsOK DEF Submit, Tasks
      <3>2. CASE Start(submitted + 1, runs, running, ready)
        BY <2>0, <2>a, <3>1, <3>2, StartTracks
      <3>3. CASE UNCHANGED <<runs, running, ready>>
        BY <3>3 DEF RunningTracked, Tracked
      <3> QED
        BY <2>1, <3>2, <3>3 DEF Submit
    <2>2. ASSUME NEW t \in Tasks, Cancel(t)
          PROVE  RunningTracked'
      <3>1. running' = [running EXCEPT ![t] = NoRun]
        BY <2>2 DEF Cancel
      <3>2. CASE running[t] = NoRun
        BY <2>0, <2>2, <2>a, <3>1, <3>2 DEF Cancel, RunningTracked, Tracked
      <3>3. CASE running[t] # NoRun
        <4>1. /\ DOMAIN runs' = DOMAIN runs
              /\ \A q \in DOMAIN runs \ {running[t]} : runs'[q] = runs[q]
          BY <2>2, <3>3 DEF Cancel
        <4>2. \A u \in Tasks \ {t} : running[u] # NoRun => running[u] # running[t]
          BY <2>a, <3>3
        <4> QED
          BY <2>0, <2>a, <3>1, <4>1, <4>2 DEF RunningTracked, Tracked
      <3> QED
        BY <3>2, <3>3
    <2>3. ASSUME NEW r \in DOMAIN runs, WakeUp(r)
          PROVE  RunningTracked'
      BY <2>3 DEF WakeUp, RunningTracked, Tracked
    <2>4. ASSUME NEW r \in DOMAIN runs, StepCancelled(r) \/ StepPipeline(r) \/ StepReload(r)
          PROVE  RunningTracked'
      BY <2>4, CoroutineStep, RunStepTracks
    <2>5. ASSUME NEW r \in DOMAIN runs, OnDone(r)
          PROVE  RunningTracked'
      <3> DEFINE gone == [task |-> runs[r].task, state |-> "gone",
                          cancelled |-> FALSE, left |-> 0]
                 over == [runs EXCEPT ![r] = gone]
                 freed == [running EXCEPT ![runs[r].task] = NoRun]
      <3>1. gone \in Runs /\ runs[r].task \in Tasks
        BY RunIsRun, QueueConstantsOK DEF Runs, RunStates
      <3>2. over \in Seq(Runs) /\ DOMAIN over = DOMAIN runs
        BY <2>0, <3>1, RunsUpdate
      <3>3. freed \in [Tasks -> Nat]
        BY <2>0 DEF NoRun
      <3>4. \A u \in Tasks : freed[u] # NoRun =>
                /\ freed[u] \in DOMAIN over
                /\ over[freed[u]].task = u
                /\ over[freed[u]].state # "gone"
                /\ ~over[freed[u]].cancelled
        <4> SUFFICES ASSUME NEW u \in Tasks, freed[u] # NoRun
                     PROVE  /\ freed[u] \in DOMAIN over
                            /\ over[freed[u]].task = u
                            /\ over[freed[u]].state # "gone"
                            /\ ~over[freed[u]].cancelled
          OBVIOUS
        <4>1. u # runs[r].task /\ freed[u] = running[u]
          BY <2>0, <3>1
        <4>2. running[u] # r
          BY <2>a, <4>1
        <4> QED
          BY <2>a, <3>2, <4>1, <4>2
      <3>5. ready # <<>> /\ Tail(ready) \in Seq(Handles)
        BY <2>0, <2>5, HeadTailProperties DEF OnDone, IsHead
      <3>6. ASSUME NEW i \in DOMAIN order, Start(order[i], over, freed, Tail(ready))
            PROVE  RunningTracked'
        <4>1. order[i] \in 1..submitted
          BY <2>0, LenProperties, ElementOfSeq
        <4>2. order[i] \in Tasks
          BY <2>0, <4>1, QueueConstantsOK DEF Tasks
        <4> HIDE DEF over, freed
        <4> QED
          BY <3>2, <3>3, <3>4, <3>5, <3>6, <4>2, StartTracks
      <3>7. CASE runs' = over /\ running' = freed
        BY <3>4, <3>7 DEF RunningTracked, Tracked
      <3> QED
        BY <2>5, <3>6, <3>7 DEF OnDone
    <2>6. CASE UNCHANGED vars
      BY <2>6 DEF vars, RunningTracked, Tracked
    <2> QED
      BY <2>1, <2>2, <2>3, <2>4, <2>5, <2>6 DEF Next, Answer, RunHandle
  <1> QED
    BY <1>1, <1>2, TypeCorrect, PTL DEF Spec

-----------------------------------------------------------------------------
(* No lost wake-up *)

\* A started task leaves a run pending, whatever else is queued.
LEMMA StartPends ==
    ASSUME NEW t \in Tasks, NEW rs \in Seq(Runs), NEW rn \in [Tasks -> Nat],
           NEW rd \in Seq(Handles), Start(t, rs, rn, rd)
    PROVE  WorkConserving'
  <1>1. /\ DOMAIN runs' = 1..(Len(rs) + 1)
        /\ runs'[Len(rs) + 1].state = "created"
    BY StartTypes
  <1>2. Len(rs) + 1 \in DOMAIN runs'
    BY <1>1, LenProperties
  <1> QED
    BY <1>1, <1>2 DEF WorkConserving, Pending

\* A task that finds the limit reached finds a run pending.
LEMMA FullPends ==
    ASSUME TypeOK, RunningTracked, ~(Cardinality(Tracked) < MaxConcurrent)
    PROVE  \E r \in DOMAIN runs : Pending(r)
  <1>1. Tracked # {}
    BY FS_EmptySet, QueueConstantsOK
  <1>2. PICK t \in Tracked : TRUE
    BY <1>1
  <1> QED
    BY <1>2 DEF RunningTracked, Pending

\* While a task is queued some run has its done callback still to come.
THEOREM NoLostWakeUp == Spec => []WorkConserving
  <1>1. Init => WorkConserving
    BY DEF Init, WorkConserving
  <1>2. TypeOK /\ RunningTracked /\ WorkConserving /\ [Next]_vars => WorkConserving'
    <2> SUFFICES ASSUME TypeOK, RunningTracked, WorkConserving, [Next]_vars
                 PROVE  WorkConserving'
      OBVIOUS
    <2>0. /\ order \in Seq(1..submitted) /\ running \in [Tasks -> Nat]
          /\ status \in [Tasks -> Statuses]
          /\ runs \in Seq(Runs) /\ ready \in Seq(Handles) /\ submitted \in 0..MaxTasks
      BY DEF TypeOK
    <2>1. CASE Submit
      <3>1. submitted + 1 \in Tasks
        BY <2>0, <2>1, QueueConstantsOK DEF Submit, Tasks
      <3>2. CASE Start(submitted + 1, runs, running, ready)
        BY <2>0, <3>1, <3>2, StartPends
      <3>3. CASE ~(Cardinality(Tracked) < MaxConcurrent)
        <4>1. runs' = runs
          BY <2>1, <3>3 DEF Submit
        <4> QED
          BY <3>3, <4>1, FullPends DEF WorkConserving, Pending
      <3> QED
        BY <2>1, <3>2, <3>3 DEF Submit
    <2>2. ASSUME NEW t \in Tasks, Cancel(t)
          PROVE  WorkConserving'
      <3>1. \A i \in DOMAIN order : IsQueued(order[i])' => IsQueued(order[i])
        <4>1. \A i \in DOMAIN order : order[i] \in Tasks
          BY <2>0, LenProperties, ElementOfSeq, QueueConstantsOK DEF Tasks
        <4>2. \A u \in Tasks : status'[u] = "queued" => status[u] = "queued"
          BY <2>0, <2>2 DEF Cancel
        <4> QED
          BY <2>2, <4>1, <4>2 DEF Cancel, IsQueued
      <3>2. DOMAIN runs' = DOMAIN runs
            /\ \A r \in DOMAIN runs : runs[r].state # "gone" => runs'[r].state # "gone"
        <4>1. CASE running[t] = NoRun
          BY <2>2, <4>1 DEF Cancel
        <4>2. CASE running[t] # NoRun
          <5>1. running[t] \in DOMAIN runs
            BY <4>2 DEF RunningTracked, Tracked
          <5>2. runs' = [runs EXCEPT ![running[t]] = [runs[running[t]] EXCEPT !.cancelled =
                           runs[running[t]].cancelled \/ runs[running[t]].state # "finished"]]
            BY <2>2, <4>2 DEF Cancel
          <5>3. runs'[running[t]].state = runs[running[t]].state
            BY <5>1, <5>2, RunIsRun DEF Runs
          <5> QED
            BY <5>1, <5>2, <5>3
        <4> QED
          BY <4>1, <4>2
      <3> QED
        BY <2>2, <3>1, <3>2 DEF Cancel, WorkConserving, Pending
    <2>3. ASSUME NEW r \in DOMAIN runs, WakeUp(r)
          PROVE  WorkConserving'
      BY <2>3 DEF WakeUp, WorkConserving, Pending, IsQueued
    <2>4. ASSUME NEW r \in DOMAIN runs, StepCancelled(r) \/ StepPipeline(r) \/ StepReload(r)
          PROVE  WorkConserving'
      BY <2>4, CoroutineStep DEF WorkConserving, Pending
    <2>5. ASSUME NEW r \in DOMAIN runs, OnDone(r)
          PROVE  WorkConserving'
      <3> DEFINE gone == [task |-> runs[r].task, state |-> "gone",
                          cancelled |-> FALSE, left |-> 0]
                 over == [runs EXCEPT ![r] = gone]
                 freed == [running EXCEPT ![runs[r].task] = NoRun]
      <3>1. gone \in Runs /\ runs[r].task \in Tasks
        BY RunIsRun, QueueConstantsOK DEF Runs, RunStates
      <3>2. over \in Seq(Runs)
        BY <2>0, <3>1, RunsUpdate
      <3>3. freed \in [Tasks -> Nat]
        BY <2>0 DEF NoRun
      <3>4. ready # <<>> /\ Tail(ready) \in Seq(Handles)
        BY <2>0, <2>5, HeadTailProperties DEF OnDone, IsHead
      <3>5. ASSUME NEW i \in DOMAIN order, Start(order[i], over, freed, Tail(ready))
            PROVE  WorkConserving'
        <4>1. order[i] \in 1..submitted
          BY <2>0, LenProperties, ElementOfSeq
        <4>2. order[i] \in Tasks
          BY <2>0, <4>1, QueueConstantsOK DEF Tasks
        <4> HIDE DEF over, freed
        <4> QED
          BY <3>2, <3>3, <3>4, <3>5, <4>2, StartPends
      <3>6. CASE ~\E i \in DOMAIN order : IsQueued(order[i])
        BY <2>5, <3>6 DEF OnDone, WorkConserving, IsQueued
      <3> QED
        BY <2>5, <3>5, <3>6 DEF OnDone
    <2>6. CASE UNCHANGED vars
      BY <2>6 DEF vars, WorkConserving, Pending, IsQueued
    <2> QED
      BY <2>1, <2>2, <2>3, <2>4, <2>5, <2>6 DEF Next, Answer, RunHandle
  <1> QED
    BY <1>1, <1>2, TypeCorrect, RunningIsTracked, PTL DEF Spec

-----------------------------------------------------------------------------
(* What each handler does to the runs, for the proofs below *)

\* A new run of t and its entry, beside the runs there were.
NewRun(t) == [task |-> t, state |-> "created", cancelled |-> FALSE, left |-> MaxAwaits]

Started(t) ==
    /\ DOMAIN runs' = DOMAIN runs \cup {Len(runs) + 1}
    /\ runs'[Len(runs) + 1] = NewRun(t)
    /\ running'[t] = Len(runs) + 1

\* The list of runs has the numbers from 1 on.
LEMMA RunNumbers ==
    ASSUME TypeOK
    PROVE  /\ DOMAIN runs = 1..Len(runs) /\ Len(runs) \in Nat
           /\ Len(runs) + 1 \notin DOMAIN runs
  <1>1. DOMAIN runs = 1..Len(runs) /\ Len(runs) \in Nat
    BY LenProperties DEF TypeOK
  <1> QED
    BY <1>1

\* The history list holds tasks.
LEMMA OrderTasks ==
    ASSUME TypeOK, NEW i \in DOMAIN order
    PROVE  order[i] \in Tasks /\ order[i] \in 1..submitted
  <1>1. order[i] \in 1..submitted
    BY LenProperties, ElementOfSeq DEF TypeOK
  <1> QED
    BY <1>1, QueueConstantsOK DEF Tasks, TypeOK

\* _start_task adds a run, an entry and a handle.
LEMMA StartRuns ==
    ASSUME TypeOK, NEW t \in Tasks, NEW rs \in Seq(Runs), DOMAIN rs = DOMAIN runs,
           NEW rn \in [Tasks -> Nat], NEW rd \in Seq(Handles), Start(t, rs, rn, rd)
    PROVE  /\ Started(t)
           /\ \A q \in DOMAIN runs : runs'[q] = rs[q]
           /\ \A u \in Tasks \ {t} : running'[u] = rn[u]
           /\ ready' = Append(rd, Step(Len(runs) + 1))
  <1>1. Len(rs) = Len(runs)
    <2>1. DOMAIN rs = 1..Len(rs) /\ Len(rs) \in Nat
      BY LenProperties
    <2> QED
      BY <2>1, RunNumbers
  <1>2. NewRun(t) \in Runs
    BY QueueConstantsOK DEF Runs, RunStates, NewRun
  <1>3. /\ runs' = Append(rs, NewRun(t))
        /\ running' = [rn EXCEPT ![t] = Len(runs) + 1]
        /\ ready' = Append(rd, Step(Len(runs) + 1))
    BY <1>1 DEF Start, NewRun
  <1>4. /\ Len(runs') = Len(rs) + 1 /\ runs' \in Seq(Runs)
        /\ \A i \in 1..Len(rs) : runs'[i] = rs[i]
        /\ runs'[Len(rs) + 1] = NewRun(t)
    BY <1>2, <1>3, AppendProperties
  <1>5. DOMAIN runs' = 1..(Len(runs) + 1)
    BY <1>1, <1>4, LenProperties
  <1>6. DOMAIN runs' = DOMAIN runs \cup {Len(runs) + 1}
    BY <1>5, RunNumbers
  <1>7. running'[t] = Len(runs) + 1 /\ \A u \in Tasks \ {t} : running'[u] = rn[u]
    BY <1>3
  <1> QED
    BY <1>1, <1>3, <1>4, <1>6, <1>7, RunNumbers DEF Started

\* submit either starts the new task or leaves the runs alone.
LEMMA SubmitRuns ==
    ASSUME TypeOK, Submit
    PROVE  /\ submitted + 1 \in Tasks /\ submitted' = submitted + 1 /\ cancels' = cancels
           /\ status' = [status EXCEPT ![submitted + 1] = "queued"]
           /\ \A q \in DOMAIN runs : runs'[q] = runs[q]
           /\ \A u \in Tasks \ {submitted + 1} : running'[u] = running[u]
           /\ \/ /\ Cardinality(Tracked) < MaxConcurrent
                 /\ Started(submitted + 1)
                 /\ ready' = Append(ready, Step(Len(runs) + 1))
              \/ /\ ~(Cardinality(Tracked) < MaxConcurrent)
                 /\ UNCHANGED <<runs, running, ready>>
  <1>1. submitted + 1 \in Tasks /\ submitted' = submitted + 1 /\ cancels' = cancels
        /\ status' = [status EXCEPT ![submitted + 1] = "queued"]
    BY QueueConstantsOK DEF Submit, Tasks, TypeOK
  <1>2. CASE Cardinality(Tracked) < MaxConcurrent
    <2>1. Start(submitted + 1, runs, running, ready)
      BY <1>2 DEF Submit
    <2>2. runs \in Seq(Runs) /\ running \in [Tasks -> Nat] /\ ready \in Seq(Handles)
      BY DEF TypeOK
    <2> QED
      BY <1>1, <1>2, <2>1, <2>2, StartRuns
  <1>3. CASE ~(Cardinality(Tracked) < MaxConcurrent)
    BY <1>1, <1>3 DEF Submit
  <1> QED
    BY <1>2, <1>3

\* cancel tells the task's tracked run, unless it is finished, to stop.
LEMMA CancelRuns ==
    ASSUME TypeOK, RunningTracked, NEW t \in Tasks, Cancel(t)
    PROVE  /\ DOMAIN runs' = DOMAIN runs
           /\ \A q \in DOMAIN runs :
                 /\ runs'[q].task = runs[q].task /\ runs'[q].state = runs[q].state
                 /\ runs'[q].cancelled
                      = (runs[q].cancelled \/ (q = running[t] /\ runs[q].state # "finished"))
  <1>1. CASE running[t] = NoRun
    <2>1. runs' = runs
      BY <1>1 DEF Cancel
    <2>2. \A q \in DOMAIN runs : q # running[t]
      BY <1>1, RunIsRun DEF NoRun
    <2>3. \A q \in DOMAIN runs : runs[q].cancelled \in BOOLEAN
      BY RunIsRun DEF Runs
    <2> QED
      BY <2>1, <2>2, <2>3
  <1>2. CASE running[t] # NoRun
    <2> DEFINE r == running[t]
               c == runs[r].cancelled \/ runs[r].state # "finished"
    <2>1. r \in DOMAIN runs
      BY <1>2 DEF RunningTracked, Tracked
    <2>2. runs' = [runs EXCEPT ![r] = [runs[r] EXCEPT !.cancelled = c]]
      BY <1>2 DEF Cancel
    <2>3. DOMAIN runs' = DOMAIN runs /\ \A q \in DOMAIN runs \ {r} : runs'[q] = runs[q]
      BY <2>2
    <2>4. runs'[r] = [runs[r] EXCEPT !.cancelled = c]
      BY <2>1, <2>2
    <2>5. runs'[r].task = runs[r].task /\ runs'[r].state = runs[r].state
          /\ runs'[r].cancelled = c
      BY <2>1, <2>4, RunIsRun DEF Runs
    <2>6. \A q \in DOMAIN runs : runs[q].cancelled \in BOOLEAN
      BY RunIsRun DEF Runs
    <2> QED
      BY <2>3, <2>5, <2>6
  <1> QED
    BY <1>1, <1>2

\* _on_done ends its run and frees the entry of its task, and may start another.
LEMMA DoneRuns ==
    ASSUME TypeOK, NEW r \in DOMAIN runs, OnDone(r)
    PROVE  /\ UNCHANGED <<submitted, known, order, status, cancels>>
           /\ \A q \in DOMAIN runs \ {r} : runs'[q] = runs[q]
           /\ runs'[r].task = runs[r].task /\ runs'[r].state = "gone"
           /\ runs'[r].cancelled = FALSE
           /\ \/ /\ DOMAIN runs' = DOMAIN runs
                 /\ \A i \in DOMAIN order : ~IsQueued(order[i])
                 /\ running' = [running EXCEPT ![runs[r].task] = NoRun]
                 /\ ready' = Tail(ready)
              \/ \E i \in DOMAIN order :
                    /\ IsNext(i)
                    /\ Started(order[i])
                    /\ \A u \in Tasks \ {order[i]} :
                          running'[u] = IF u = runs[r].task THEN NoRun ELSE running[u]
                    /\ ready' = Append(Tail(ready), Step(Len(runs) + 1))
  <1> DEFINE gone == [task |-> runs[r].task, state |-> "gone", cancelled |-> FALSE, left |-> 0]
             over == [runs EXCEPT ![r] = gone]
             freed == [running EXCEPT ![runs[r].task] = NoRun]
  <1>0. runs \in Seq(Runs) /\ running \in [Tasks -> Nat] /\ runs[r].task \in Tasks
    BY RunIsRun DEF TypeOK
  <1>1. gone \in Runs
    BY RunIsRun, QueueConstantsOK DEF Runs, RunStates
  <1>2. over \in Seq(Runs) /\ DOMAIN over = DOMAIN runs
    BY <1>0, <1>1, RunsUpdate
  <1>3. freed \in [Tasks -> Nat]
        /\ \A u \in Tasks : freed[u] = IF u = runs[r].task THEN NoRun ELSE running[u]
    BY <1>0 DEF NoRun
  <1>4. over[r] = gone /\ \A q \in DOMAIN runs \ {r} : over[q] = runs[q]
    OBVIOUS
  <1>5. gone.task = runs[r].task /\ gone.state = "gone" /\ gone.cancelled = FALSE
    OBVIOUS
  <1>6. UNCHANGED <<submitted, known, order, status, cancels>>
    BY DEF OnDone
  <1>7. CASE ~\E i \in DOMAIN order : IsQueued(order[i])
    <2>1. runs' = over /\ running' = freed /\ ready' = Tail(ready)
      BY <1>7 DEF OnDone
    <2> HIDE DEF gone, over
    <2> QED
      BY <1>2, <1>4, <1>5, <1>6, <1>7, <2>1
  <1>8. CASE \E i \in DOMAIN order : IsQueued(order[i])
    <2>1. PICK i \in DOMAIN order : IsNext(i) /\ Start(order[i], over, freed, Tail(ready))
      BY <1>8 DEF OnDone
    <2>2. order[i] \in Tasks
      BY OrderTasks
    <2>a. Tail(ready) \in Seq(Handles)
      BY HeadTailProperties DEF OnDone, IsHead, TypeOK
    <2> HIDE DEF gone, over, freed
    <2>3. /\ Started(order[i])
          /\ \A q \in DOMAIN runs : runs'[q] = over[q]
          /\ \A u \in Tasks \ {order[i]} : running'[u] = freed[u]
          /\ ready' = Append(Tail(ready), Step(Len(runs) + 1))
      BY <1>2, <1>3, <2>1, <2>2, <2>a, StartRuns
    <2> QED
      BY <1>3, <1>4, <1>5, <1>6, <2>1, <2>3
  <1> QED
    BY <1>7, <1>8

\* A step of a coroutine, in one list: the run's state and the task's status.
LEMMA CoroutineStatus ==
    ASSUME TypeOK, NEW r \in DOMAIN runs,
           StepCancelled(r) \/ StepPipeline(r) \/ StepReload(r)
    PROVE  /\ UNCHANGED <<submitted, cancels>>
           /\ IsHead(Step(r))
           /\ \A u \in Tasks \ {runs[r].task} : status'[u] = status[u]
           /\ \/ runs'[r].state = "finished" /\ ready' = Append(Tail(ready), Done(r))
              \/ runs'[r].state \in {"running", "reloading"} /\ ready' = Tail(ready)
           /\ \/ /\ runs[r].cancelled
                 /\ status'[runs[r].task] \in {status[runs[r].task], "cancelled"}
                 /\ runs'[r].state = "finished"
              \/ /\ ~runs[r].cancelled
                 /\ runs[r].state \in {"created", "running"}
                 /\ \/ /\ runs'[r].state \in {"finished", "reloading"}
                       /\ status'[runs[r].task] \in {"failed", "completed"}
                    \/ /\ runs'[r].state = "running"
                       /\ status'[runs[r].task] =
                            IF runs[r].state = "created" THEN "running"
                            ELSE status[runs[r].task]
              \/ /\ ~runs[r].cancelled
                 /\ runs[r].state = "reloading"
                 /\ status'[runs[r].task] = status[runs[r].task]
                 /\ runs'[r].state \in {"finished", "reloading"}
  <1> DEFINE t == runs[r].task
  <1>0. status \in [Tasks -> Statuses] /\ t \in Tasks
    BY RunIsRun DEF TypeOK
  <1>1. ASSUME NEW new, Finish(r, new)
        PROVE  /\ UNCHANGED <<submitted, cancels>>
               /\ \A u \in Tasks \ {t} : status'[u] = status[u]
               /\ status'[t] = new /\ runs'[r].state = "finished"
               /\ ready' = Append(Tail(ready), Done(r))
    <2>1. /\ UNCHANGED <<submitted, cancels>> /\ ready' = Append(Tail(ready), Done(r))
          /\ status' = [status EXCEPT ![t] = new]
      BY <1>1 DEF Finish
    <2>2. runs'[r].state = "finished"
      BY <1>1, FinishRuns
    <2> HIDE DEF t
    <2> QED
      BY <1>0, <2>1, <2>2
  <1>2. ASSUME NEW new, NEW state, Wait(r, state, new)
        PROVE  /\ UNCHANGED <<submitted, cancels>>
               /\ \A u \in Tasks \ {t} : status'[u] = status[u]
               /\ status'[t] = new /\ runs'[r].state = state
               /\ ready' = Tail(ready)
    <2>1. /\ UNCHANGED <<submitted, cancels>> /\ ready' = Tail(ready)
          /\ status' = [status EXCEPT ![t] = new]
      BY <1>2 DEF Wait
    <2>2. runs'[r].state = state
      BY <1>2, WaitRuns
    <2> HIDE DEF t
    <2> QED
      BY <1>0, <2>1, <2>2
  <1> HIDE DEF t
  <1>3. CASE StepCancelled(r)
    <2>1. /\ IsHead(Step(r)) /\ runs[r].cancelled
          /\ Finish(r, IF runs[r].state = "created" THEN status[t] ELSE "cancelled")
      BY <1>3 DEF StepCancelled, t
    <2>2. status'[t] = IF runs[r].state = "created" THEN status[t] ELSE "cancelled"
      BY <1>1, <2>1
    <2> QED
      BY <1>1, <2>1, <2>2 DEF t
  <1>4. CASE StepPipeline(r)
    <2>1. /\ IsHead(Step(r)) /\ ~runs[r].cancelled
          /\ runs[r].state \in {"created", "running"}
      BY <1>4 DEF StepPipeline
    <2>2. CASE Wait(r, "running", IF runs[r].state = "created" THEN "running" ELSE status[t])
      BY <1>2, <2>1, <2>2 DEF t
    <2>3. CASE Finish(r, "failed")
      BY <1>1, <2>1, <2>3 DEF t
    <2>4. CASE Wait(r, "reloading", "completed")
      BY <1>2, <2>1, <2>4 DEF t
    <2>5. CASE Finish(r, "completed")
      BY <1>1, <2>1, <2>5 DEF t
    <2> QED
      BY <1>4, <2>2, <2>3, <2>4, <2>5 DEF StepPipeline, t
  <1>5. CASE StepReload(r)
    <2>1. /\ IsHead(Step(r)) /\ ~runs[r].cancelled /\ runs[r].state = "reloading"
      BY <1>5 DEF StepReload
    <2>2. CASE Wait(r, "reloading", status[t])
      BY <1>2, <2>1, <2>2 DEF t
    <2>3. CASE Finish(r, status[t])
      BY <1>1, <2>1, <2>3 DEF t
    <2> QED
      BY <1>5, <2>2, <2>3 DEF StepReload, t
  <1> QED
    BY <1>3, <1>4, <1>5

-----------------------------------------------------------------------------
(* The ready queue *)

\* What the loop's queue holds: at most one handle of each run, its done
\* callback when it is finished and a step of it otherwise, and none of a run
\* that is gone.
InOrder(rd, rs) ==
    /\ \A i \in DOMAIN rd : /\ rd[i].run \in DOMAIN rs
                            /\ rs[rd[i].run].state # "gone"
                            /\ rd[i].kind = "done" <=> rs[rd[i].run].state = "finished"
    /\ \A i, j \in DOMAIN rd : rd[i].run = rd[j].run => i = j

HandlesInOrder == InOrder(ready, runs)

\* Taking the first handle off the queue.
LEMMA TailOrder ==
    ASSUME NEW rd \in Seq(Handles), rd # <<>>, NEW rs, InOrder(rd, rs)
    PROVE  /\ InOrder(Tail(rd), rs)
           /\ \A i \in DOMAIN Tail(rd) : Tail(rd)[i].run # Head(rd).run
           /\ Head(rd).run \in DOMAIN rs /\ rs[Head(rd).run].state # "gone"
           /\ Head(rd).kind = "done" <=> rs[Head(rd).run].state = "finished"
           /\ Tail(rd) \in Seq(Handles)
  <1>1. /\ DOMAIN rd = 1..Len(rd) /\ Len(rd) \in Nat \ {0}
        /\ Tail(rd) \in Seq(Handles) /\ Len(Tail(rd)) = Len(rd) - 1
        /\ \A i \in 1..(Len(rd) - 1) : Tail(rd)[i] = rd[i + 1]
        /\ Head(rd) = rd[1]
    BY HeadTailProperties, LenProperties, EmptySeq
  <1>2. DOMAIN Tail(rd) = 1..(Len(rd) - 1)
    BY <1>1, LenProperties
  <1>3. \A i \in DOMAIN Tail(rd) : /\ i + 1 \in DOMAIN rd /\ i + 1 # 1
                                   /\ Tail(rd)[i] = rd[i + 1]
    BY <1>1, <1>2
  <1>4. \A i, j \in DOMAIN Tail(rd) : i + 1 = j + 1 => i = j
    BY <1>1, <1>2
  <1>5. 1 \in DOMAIN rd
    BY <1>1
  <1> QED
    BY <1>1, <1>3, <1>4, <1>5 DEF InOrder

\* Putting the handle of a run that has none at the end of the queue.
LEMMA AppendOrder ==
    ASSUME NEW rd \in Seq(Handles), NEW rs, InOrder(rd, rs), NEW h \in Handles,
           h.run \in DOMAIN rs, rs[h.run].state # "gone",
           h.kind = "done" <=> rs[h.run].state = "finished",
           \A i \in DOMAIN rd : rd[i].run # h.run
    PROVE  InOrder(Append(rd, h), rs)
  <1> DEFINE longer == Append(rd, h)
  <1>1. /\ DOMAIN rd = 1..Len(rd) /\ Len(rd) \in Nat
        /\ longer \in Seq(Handles) /\ Len(longer) = Len(rd) + 1
        /\ \A i \in 1..Len(rd) : longer[i] = rd[i]
        /\ longer[Len(rd) + 1] = h
    BY AppendProperties, LenProperties
  <1>2. DOMAIN longer = DOMAIN rd \cup {Len(rd) + 1} /\ Len(rd) + 1 \notin DOMAIN rd
    <2>1. DOMAIN longer = 1..(Len(rd) + 1)
      BY <1>1, LenProperties
    <2> QED
      BY <1>1, <2>1
  <1>3. \A i \in DOMAIN rd : longer[i] = rd[i]
    BY <1>1
  <1> HIDE DEF longer
  <1>4. InOrder(longer, rs)
    BY <1>1, <1>2, <1>3 DEF InOrder
  <1> QED
    BY <1>4 DEF longer

\* Changing runs that have no handle, or not their state.
LEMMA ChangeOrder ==
    ASSUME NEW rd, NEW rs, NEW new, InOrder(rd, rs),
           \A i \in DOMAIN rd : /\ rd[i].run \in DOMAIN new
                                /\ new[rd[i].run].state = rs[rd[i].run].state
    PROVE  InOrder(rd, new)
  BY DEF InOrder

\* A run is started with its first step at the end of the queue.
LEMMA StartOrder ==
    ASSUME TypeOK, NEW t \in Tasks, Started(t), NEW rd \in Seq(Handles),
           InOrder(rd, runs'), \A i \in DOMAIN rd : rd[i].run \in DOMAIN runs,
           ready' = Append(rd, Step(Len(runs) + 1))
    PROVE  HandlesInOrder'
  <1> DEFINE h == Step(Len(runs) + 1)
  <1>1. h \in Handles /\ h.run = Len(runs) + 1 /\ h.kind = "step"
    BY RunNumbers DEF Step, Handles
  <1>2. h.run \in DOMAIN runs' /\ runs'[h.run].state = "created"
    BY <1>1 DEF Started, NewRun
  <1>3. \A i \in DOMAIN rd : rd[i].run # h.run
    BY <1>1, RunNumbers
  <1> HIDE DEF h
  <1>4. InOrder(Append(rd, h), runs')
    BY <1>1, <1>2, <1>3, AppendOrder
  <1> QED
    BY <1>4 DEF h, HandlesInOrder

\* The ready queue holds at most one handle of each run, and it is the one the
\* run's state calls for.
THEOREM ReadyQueueInOrder == Spec => []HandlesInOrder
  <1>1. Init => HandlesInOrder
    BY DEF Init, HandlesInOrder, InOrder
  <1>2. TypeOK /\ RunningTracked /\ HandlesInOrder /\ [Next]_vars => HandlesInOrder'
    <2> SUFFICES ASSUME TypeOK, RunningTracked, HandlesInOrder, [Next]_vars
                 PROVE  HandlesInOrder'
      OBVIOUS
    <2>0. ready \in Seq(Handles) /\ InOrder(ready, runs)
          /\ \A i \in DOMAIN ready : ready[i].run \in DOMAIN runs
      BY DEF TypeOK, HandlesInOrder, InOrder
    <2>1. CASE Submit
      <3>1. CASE Started(submitted + 1) /\ ready' = Append(ready, Step(Len(runs) + 1))
        <4>1. \A q \in DOMAIN runs : q \in DOMAIN runs' /\ runs'[q] = runs[q]
          BY <2>1, <3>1, SubmitRuns DEF Started
        <4>2. InOrder(ready, runs')
          BY <2>0, <4>1, ChangeOrder
        <4>3. submitted + 1 \in Tasks
          BY <2>1, SubmitRuns
        <4> QED
          BY <2>0, <3>1, <4>2, <4>3, StartOrder
      <3>2. CASE UNCHANGED <<runs, running, ready>>
        BY <3>2 DEF HandlesInOrder
      <3> QED
        BY <2>1, <3>1, <3>2, SubmitRuns
    <2>2. ASSUME NEW t \in Tasks, Cancel(t)
          PROVE  HandlesInOrder'
      <3>1. \A q \in DOMAIN runs : q \in DOMAIN runs' /\ runs'[q].state = runs[q].state
        BY <2>2, CancelRuns
      <3>2. InOrder(ready, runs')
        BY <2>0, <3>1, ChangeOrder
      <3> QED
        BY <2>2, <3>2 DEF Cancel, HandlesInOrder
    <2>3. ASSUME NEW r \in DOMAIN runs, WakeUp(r)
          PROVE  HandlesInOrder'
      <3>1. Step(r) \in Handles /\ Step(r).run = r /\ Step(r).kind = "step"
        BY RunIsRun DEF Step, Handles
      <3>2. runs[r].state \in {"running", "reloading"}
        BY <2>3 DEF WakeUp
      <3>3. ASSUME NEW i \in DOMAIN ready, ready[i].run = r
            PROVE  FALSE
        <4>1. ready[i] \in Handles
          <5>1. DOMAIN ready = 1..Len(ready)
            BY <2>0, LenProperties
          <5> QED
            BY <2>0, <5>1, ElementOfSeq
        <4>2. ready[i].kind # "done"
          BY <2>0, <3>2, <3>3 DEF InOrder
        <4>3. ready[i] = [kind |-> "step", run |-> r]
          BY <3>3, <4>1, <4>2 DEF Handles
        <4> QED
          BY <2>3, <4>3 DEF WakeUp, Step
      <3>4. InOrder(Append(ready, Step(r)), runs)
        BY <2>0, <3>1, <3>2, <3>3, AppendOrder
      <3> QED
        BY <2>3, <3>4 DEF WakeUp, HandlesInOrder
    <2>4. ASSUME NEW r \in DOMAIN runs, StepCancelled(r) \/ StepPipeline(r) \/ StepReload(r)
          PROVE  HandlesInOrder'
      <3>1. /\ ready # <<>> /\ Head(ready).run = r
            /\ DOMAIN runs' = DOMAIN runs
            /\ \A q \in DOMAIN runs \ {r} : runs'[q] = runs[q]
        BY <2>4, CoroutineStep, CoroutineStatus DEF IsHead, Step
      <3>2. /\ InOrder(Tail(ready), runs) /\ Tail(ready) \in Seq(Handles)
            /\ \A i \in DOMAIN Tail(ready) : Tail(ready)[i].run # r
        BY <2>0, <3>1, TailOrder
      <3>3. \A i \in DOMAIN Tail(ready) : Tail(ready)[i].run \in DOMAIN runs
        BY <3>2 DEF InOrder
      <3>4. InOrder(Tail(ready), runs')
        BY <3>1, <3>2, <3>3, ChangeOrder
      <3>5. CASE runs'[r].state = "finished" /\ ready' = Append(Tail(ready), Done(r))
        <4>1. Done(r) \in Handles /\ Done(r).run = r /\ Done(r).kind = "done"
          BY RunIsRun DEF Done, Handles
        <4>2. InOrder(Append(Tail(ready), Done(r)), runs')
          BY <3>1, <3>2, <3>4, <3>5, <4>1, AppendOrder
        <4> QED
          BY <3>5, <4>2 DEF HandlesInOrder
      <3>6. CASE ready' = Tail(ready)
        BY <3>4, <3>6 DEF HandlesInOrder
      <3> QED
        BY <2>4, <3>5, <3>6, CoroutineStatus
    <2>5. ASSUME NEW r \in DOMAIN runs, OnDone(r)
          PROVE  HandlesInOrder'
      <3>1. /\ ready # <<>> /\ Head(ready).run = r
            /\ \A q \in DOMAIN runs \ {r} : runs'[q] = runs[q]
        <4>1. ready # <<>> /\ Head(ready).run = r
          BY <2>5 DEF OnDone, IsHead, Done
        <4> QED
          BY <2>5, <4>1, DoneRuns
      <3>2. /\ InOrder(Tail(ready), runs) /\ Tail(ready) \in Seq(Handles)
            /\ \A i \in DOMAIN Tail(ready) : Tail(ready)[i].run # r
        BY <2>0, <3>1, TailOrder
      <3>3. \A i \in DOMAIN Tail(ready) : Tail(ready)[i].run \in DOMAIN runs
        BY <3>2 DEF InOrder
      <3>4. \A q \in DOMAIN runs : q \in DOMAIN runs'
        BY <2>5, DoneRuns DEF Started
      <3>5. InOrder(Tail(ready), runs')
        BY <3>1, <3>2, <3>3, <3>4, ChangeOrder
      <3>6. CASE ready' = Tail(ready)
        BY <3>5, <3>6 DEF HandlesInOrder
      <3>7. ASSUME NEW i \in DOMAIN order, Started(order[i]),
                   ready' = Append(Tail(ready), Step(Len(runs) + 1))
            PROVE  HandlesInOrder'
        BY <3>2, <3>3, <3>5, <3>7, OrderTasks, StartOrder
      <3> QED
        BY <2>5, <3>6, <3>7, DoneRuns
    <2>6. CASE UNCHANGED vars
      BY <2>6 DEF vars, HandlesInOrder
    <2> QED
      BY <2>1, <2>2, <2>3, <2>4, <2>5, <2>6 DEF Next, Answer, RunHandle
  <1> QED
    BY <1>1, <1>2, TypeCorrect, RunningIsTracked, PTL DEF Spec

-----------------------------------------------------------------------------
(* One run at a time *)

PendingRuns == {r \in DOMAIN runs : Pending(r)}

\* The runs whose done callback is still to come are at most the tracked one
\* and one for each cancellation of a tracked run.
ExcessInv == Cardinality(PendingRuns) <= (IF Tracked = {} THEN 0 ELSE 1) + cancels

\* There are finitely many runs and entries.
LEMMA FiniteTables ==
    ASSUME TypeOK
    PROVE  /\ IsFiniteSet(PendingRuns) /\ Cardinality(PendingRuns) \in Nat
           /\ IsFiniteSet(Tracked) /\ Cardinality(Tracked) \in Nat
  <1>1. IsFiniteSet(1..Len(runs)) /\ IsFiniteSet(Tasks)
    BY RunNumbers, FS_Interval, QueueConstantsOK DEF Tasks
  <1>2. PendingRuns \subseteq 1..Len(runs) /\ Tracked \subseteq Tasks
    BY RunNumbers DEF PendingRuns, Tracked
  <1> QED
    BY <1>1, <1>2, FS_Subset, FS_CardinalityType

\* With a limit of one a task is started only when no task is tracked.
LEMMA BelowOne ==
    ASSUME TypeOK, MaxConcurrent = 1
    PROVE  Cardinality(Tracked) < MaxConcurrent <=> Tracked = {}
  BY FiniteTables, FS_EmptySet

\* Where MaxConcurrent is 1, as in the service, the runs that use the engine are
\* at most one and one more for each cancellation of a tracked run.
THEOREM ExcessIsBounded ==
    ASSUME MaxConcurrent = 1
    PROVE  Spec => []ExcessBoundedByCancels
  <1>1. Init => ExcessInv
    <2> SUFFICES ASSUME Init PROVE ExcessInv
      OBVIOUS
    <2>1. PendingRuns = {} /\ Tracked = {}
      BY DEF Init, PendingRuns, Tracked
    <2> QED
      BY <2>1, FS_EmptySet DEF ExcessInv, Init
  <1>2. /\ TypeOK /\ TypeOK' /\ RunningTracked /\ HandlesInOrder
        /\ ExcessInv /\ [Next]_vars
        => ExcessInv'
    <2> SUFFICES ASSUME TypeOK, TypeOK', RunningTracked, HandlesInOrder,
                        ExcessInv, [Next]_vars
                 PROVE  ExcessInv'
      OBVIOUS
    <2>0. /\ IsFiniteSet(PendingRuns) /\ Cardinality(PendingRuns) \in Nat /\ cancels \in Nat
          /\ running \in [Tasks -> Nat]
      BY FiniteTables DEF TypeOK
    <2>a. ASSUME NEW t \in Tasks, Started(t)
          PROVE  t \in Tracked'
      BY <2>a, RunNumbers DEF Started, Tracked, NoRun
    <2>1. CASE Submit
      <3>1. CASE Tracked = {} /\ Started(submitted + 1)
        <4>1. PendingRuns' = PendingRuns \cup {Len(runs) + 1}
              /\ Len(runs) + 1 \notin PendingRuns
          BY <2>1, <3>1, SubmitRuns, RunNumbers
             DEF PendingRuns, Pending, Started, NewRun
        <4>2. Cardinality(PendingRuns') = Cardinality(PendingRuns) + 1
          BY <2>0, <4>1, FS_AddElement
        <4>3. Tracked' # {} /\ cancels' = cancels
          BY <2>1, <2>a, <3>1, SubmitRuns
        <4> QED
          BY <2>0, <3>1, <4>2, <4>3 DEF ExcessInv
      <3>2. CASE UNCHANGED <<runs, running, ready>>
        <4>1. cancels' = cancels
          BY <2>1, SubmitRuns
        <4> QED
          BY <3>2, <4>1 DEF ExcessInv, PendingRuns, Pending, Tracked
      <3> QED
        BY <2>1, <3>1, <3>2, SubmitRuns, BelowOne
    <2>2. ASSUME NEW t \in Tasks, Cancel(t)
          PROVE  ExcessInv'
      <3>1. PendingRuns' = PendingRuns
        BY <2>2, CancelRuns DEF PendingRuns, Pending
      <3>2. CASE running[t] = NoRun
        <4>1. running' = running /\ cancels' = cancels
          BY <2>0, <2>2, <3>2 DEF Cancel
        <4> QED
          BY <3>1, <4>1 DEF ExcessInv, Tracked
      <3>3. CASE running[t] # NoRun
        <4>1. cancels' = cancels + 1
          BY <2>2, <3>3 DEF Cancel
        <4> QED
          BY <2>0, <3>1, <4>1 DEF ExcessInv
      <3> QED
        BY <3>2, <3>3
    <2>3. ASSUME NEW r \in DOMAIN runs, WakeUp(r)
          PROVE  ExcessInv'
      BY <2>3 DEF WakeUp, ExcessInv, PendingRuns, Pending, Tracked
    <2>4. ASSUME NEW r \in DOMAIN runs, StepCancelled(r) \/ StepPipeline(r) \/ StepReload(r)
          PROVE  ExcessInv'
      <3>1. /\ ready # <<>> /\ Head(ready).run = r /\ cancels' = cancels
        BY <2>4, CoroutineStatus DEF IsHead, Step
      <3>2. runs[r].state # "gone"
        BY <3>1, TailOrder DEF HandlesInOrder, TypeOK
      <3>3. PendingRuns' = PendingRuns /\ Tracked' = Tracked
        BY <2>4, <3>2, CoroutineStep DEF PendingRuns, Pending, Tracked
      <3> QED
        BY <3>1, <3>3 DEF ExcessInv
    <2>5. ASSUME NEW r \in DOMAIN runs, OnDone(r)
          PROVE  ExcessInv'
      <3>1. ready # <<>> /\ Head(ready).run = r
        BY <2>5 DEF OnDone, IsHead, Done
      <3>2. runs[r].state # "gone" /\ cancels' = cancels
        BY <2>5, <3>1, TailOrder, DoneRuns DEF HandlesInOrder, TypeOK
      <3>a. /\ \A q \in DOMAIN runs \ {r} : runs'[q] = runs[q]
            /\ runs'[r].state = "gone"
        BY <2>5, DoneRuns
      <3>3. r \in PendingRuns
        BY <3>2 DEF PendingRuns, Pending
      <3>4. Cardinality(PendingRuns \ {r}) = Cardinality(PendingRuns) - 1
            /\ IsFiniteSet(PendingRuns \ {r})
        BY <2>0, <3>3, FS_RemoveElement
      <3>5. CASE DOMAIN runs' = DOMAIN runs
        <4>1. PendingRuns' = PendingRuns \ {r}
          BY <3>5, <3>a DEF PendingRuns, Pending
        <4> QED
          BY <2>0, <3>2, <3>4, <4>1 DEF ExcessInv
      <3>6. ASSUME NEW i \in DOMAIN order, Started(order[i])
            PROVE  ExcessInv'
        <4>1. PendingRuns' = (PendingRuns \ {r}) \cup {Len(runs) + 1}
              /\ Len(runs) + 1 \notin PendingRuns
          <5>1. /\ DOMAIN runs' = DOMAIN runs \cup {Len(runs) + 1}
                /\ runs'[Len(runs) + 1].state = "created"
            BY <3>6 DEF Started, NewRun
          <5> QED
            BY <3>a, <5>1, RunNumbers DEF PendingRuns, Pending
        <4>2. Cardinality(PendingRuns') = Cardinality(PendingRuns)
          <5> DEFINE rest == PendingRuns \ {r}
          <5>1. Len(runs) + 1 \notin rest /\ PendingRuns' = rest \cup {Len(runs) + 1}
            BY <4>1
          <5>2. IsFiniteSet(rest) /\ Cardinality(rest) = Cardinality(PendingRuns) - 1
            BY <3>4
          <5> HIDE DEF rest
          <5>3. Cardinality(rest \cup {Len(runs) + 1}) = Cardinality(rest) + 1
            BY <5>1, <5>2, FS_AddElement
          <5> QED
            BY <2>0, <5>1, <5>2, <5>3
        <4>3. Tracked' # {}
          BY <2>a, <3>6, OrderTasks
        <4> QED
          BY <2>0, <3>2, <4>2, <4>3 DEF ExcessInv
      <3> QED
        BY <2>5, <3>5, <3>6, DoneRuns
    <2>6. CASE UNCHANGED vars
      BY <2>6 DEF vars, ExcessInv, PendingRuns, Pending, Tracked
    <2> QED
      BY <2>1, <2>2, <2>3, <2>4, <2>5, <2>6 DEF Next, Answer, RunHandle
  <1>3. TypeOK /\ ExcessInv => ExcessBoundedByCancels
    <2> SUFFICES ASSUME TypeOK, ExcessInv
                 PROVE  ExcessBoundedByCancels
      OBVIOUS
    <2>1. Executing \subseteq PendingRuns
      BY DEF Executing, PendingRuns, Pending
    <2>2. Cardinality(Executing) <= Cardinality(PendingRuns)
          /\ Cardinality(Executing) \in Nat /\ Cardinality(PendingRuns) \in Nat
          /\ cancels \in Nat
      BY <2>1, FiniteTables, FS_Subset, FS_CardinalityType DEF TypeOK
    <2> QED
      BY <2>2 DEF ExcessInv, ExcessBoundedByCancels
  <1> QED
    BY <1>1, <1>2, <1>3, TypeCorrect, RunningIsTracked, ReadyQueueInOrder, PTL DEF Spec

-----------------------------------------------------------------------------
(* First come, first served *)

\* The task at place i waits to be started.
Waiting(i) == IsQueued(order[i]) /\ running[order[i]] = NoRun

\* The history list names no task twice, and only submitted tasks have runs.
ListsInv ==
    /\ \A i, j \in DOMAIN order : order[i] = order[j] => i = j
    /\ \A r \in DOMAIN runs : runs[r].task \in 1..submitted

\* While no tracked run was cancelled there is at most one pending run, and it
\* is the entry of its task; a task whose coroutine is past the pipeline has a
\* settled status; and behind a waiting task nobody was started.
ServiceInv ==
    cancels = 0 =>
        /\ \A r \in DOMAIN runs : ~runs[r].cancelled
        /\ \A r \in DOMAIN runs : Pending(r) => running[runs[r].task] = r
        /\ \A t, u \in Tracked : t = u
        /\ \A r \in DOMAIN runs :
              runs[r].state \in {"finished", "reloading"} => status[runs[r].task] \in Terminal
        /\ \A i, j \in DOMAIN order :
              i < j /\ Waiting(i) => /\ status[order[j]] \in {"queued", "cancelled"}
                                     /\ running[order[j]] = NoRun

\* The places of the history list after a submission: the last is the new task,
\* the others are places of the old list in the same order.
LEMMA SubmitOrder ==
    ASSUME TypeOK, Submit
    PROVE  \E n \in Nat, d \in {0, 1} :
              /\ DOMAIN order' = 1..n
              /\ order'[n] = submitted + 1
              /\ \A i \in 1..n : i # n => i + d \in DOMAIN order /\ order'[i] = order[i + d]
  <1> DEFINE longer == Append(order, submitted + 1)
             Places(n, d) ==
                /\ DOMAIN order' = 1..n
                /\ order'[n] = submitted + 1
                /\ \A i \in 1..n : i # n => i + d \in DOMAIN order /\ order'[i] = order[i + d]
  <1>a. SUFFICES \E n \in Nat, d \in {0, 1} : Places(n, d)
    OBVIOUS
  <1>0. order \in Seq(Nat) /\ submitted + 1 \in Nat
    <2>1. submitted \in Nat /\ 1..submitted \subseteq Nat /\ order \in Seq(1..submitted)
      BY QueueConstantsOK DEF TypeOK
    <2> QED
      BY <2>1
  <1>1. /\ DOMAIN order = 1..Len(order) /\ Len(order) \in Nat
        /\ longer \in Seq(Nat) /\ Len(longer) = Len(order) + 1
        /\ \A i \in 1..Len(order) : longer[i] = order[i]
        /\ longer[Len(order) + 1] = submitted + 1
    BY <1>0, AppendProperties, LenProperties
  <1>2. CASE order' = longer
    <2>1. DOMAIN order' = 1..(Len(order) + 1)
      BY <1>1, <1>2, LenProperties
    <2>2. Places(Len(order) + 1, 0) /\ Len(order) + 1 \in Nat
      BY <1>1, <1>2, <2>1
    <2> HIDE DEF Places
    <2> QED
      BY <2>2
  <1>3. CASE order' = Tail(longer) /\ Len(order) # 0
    <2> HIDE DEF longer
    <2>1. longer # <<>>
      BY <1>1, EmptySeq
    <2>2. /\ Tail(longer) \in Seq(Nat) /\ Len(Tail(longer)) = Len(order)
          /\ \A i \in 1..Len(order) : Tail(longer)[i] = longer[i + 1]
      BY <1>1, <2>1, HeadTailProperties
    <2>3. DOMAIN order' = 1..Len(order)
      BY <1>3, <2>2, LenProperties
    <2>4. ASSUME NEW i \in 1..Len(order), i # Len(order)
          PROVE  i + 1 \in DOMAIN order /\ order'[i] = order[i + 1]
      <3>a. Len(order) \in Nat
        BY <1>1
      <3>1. i + 1 \in 1..Len(order)
        BY <2>4, <3>a
      <3>2. longer[i + 1] = order[i + 1] /\ Tail(longer)[i] = longer[i + 1]
        <4> DEFINE k == i + 1
        <4>1. k \in 1..Len(order)
          BY <3>1
        <4>2. Tail(longer)[i] = longer[k]
          BY <2>2
        <4> HIDE DEF k
        <4>3. longer[k] = order[k]
          BY <1>1, <4>1
        <4> QED
          BY <4>2, <4>3 DEF k
      <3>3. order'[i] = Tail(longer)[i]
        BY <1>3
      <3>4. i + 1 \in DOMAIN order
        BY <1>1, <3>1
      <3> QED
        BY <3>2, <3>3, <3>4
    <2>5. order'[Len(order)] = submitted + 1
      <3>1. Len(order) \in 1..Len(order)
        BY <1>1, <1>3
      <3> QED
        BY <1>1, <1>3, <2>2, <3>1
    <2>6. Places(Len(order), 1)
      BY <2>3, <2>4, <2>5
    <2> HIDE DEF Places
    <2> QED
      BY <1>1, <2>6
  <1>4. Len(order) >= MaxHistory => Len(order) # 0
    BY QueueConstantsOK
  <1> QED
    BY <1>2, <1>3, <1>4 DEF Submit

\* The history list names no task twice, and only submitted tasks have runs.
LEMMA ListsInvariant == Spec => []ListsInv
  <1>1. Init => ListsInv
    BY DEF Init, ListsInv
  <1>2. TypeOK /\ RunningTracked /\ ListsInv /\ [Next]_vars => ListsInv'
    <2> SUFFICES ASSUME TypeOK, RunningTracked, ListsInv, [Next]_vars
                 PROVE  ListsInv'
      OBVIOUS
    <2>0. submitted \in Nat
      BY QueueConstantsOK DEF TypeOK
    <2>1. CASE Submit
      <3>1. ASSUME NEW i \in DOMAIN order', NEW j \in DOMAIN order', order'[i] = order'[j]
            PROVE  i = j
        <4>1. PICK n \in Nat, d \in {0, 1} :
                /\ DOMAIN order' = 1..n
                /\ order'[n] = submitted + 1
                /\ \A k \in 1..n : k # n => k + d \in DOMAIN order /\ order'[k] = order[k + d]
          BY <2>1, SubmitOrder
        <4>2. \A k \in 1..n : k # n => order'[k] # submitted + 1
          BY <2>0, <4>1, OrderTasks
        <4>3. CASE i # n /\ j # n
          <5>1. i + d = j + d
            BY <3>1, <4>1, <4>3 DEF ListsInv
          <5> QED
            BY <4>1, <5>1
        <4> QED
          BY <3>1, <4>1, <4>2, <4>3
      <3>2. ASSUME NEW q \in DOMAIN runs'
            PROVE  runs'[q].task \in 1..submitted'
        <4>1. CASE q \in DOMAIN runs
          BY <2>0, <2>1, <4>1, SubmitRuns DEF ListsInv
        <4>2. CASE q \notin DOMAIN runs
          <5>1. Started(submitted + 1) /\ q = Len(runs) + 1
            BY <2>1, <4>2, SubmitRuns DEF Started
          <5>2. runs'[q].task = submitted + 1
            BY <5>1 DEF Started, NewRun
          <5> QED
            BY <2>0, <2>1, <5>2, SubmitRuns
        <4> QED
          BY <4>1, <4>2
      <3> QED
        BY <3>1, <3>2 DEF ListsInv
    <2>2. ASSUME NEW t \in Tasks, Cancel(t)
          PROVE  ListsInv'
      BY <2>2, CancelRuns DEF Cancel, ListsInv
    <2>3. ASSUME NEW r \in DOMAIN runs, WakeUp(r)
          PROVE  ListsInv'
      BY <2>3 DEF WakeUp, ListsInv
    <2>4. ASSUME NEW r \in DOMAIN runs, StepCancelled(r) \/ StepPipeline(r) \/ StepReload(r)
          PROVE  ListsInv'
      <3>1. \A q \in DOMAIN runs' : q \in DOMAIN runs /\ runs'[q].task = runs[q].task
        BY <2>4, CoroutineStep
      <3>2. UNCHANGED <<order, submitted>>
        BY <2>4, CoroutineStep, CoroutineStatus
      <3> QED
        BY <3>1, <3>2 DEF ListsInv
    <2>5. ASSUME NEW r \in DOMAIN runs, OnDone(r)
          PROVE  ListsInv'
      <3>1. UNCHANGED <<order, submitted>>
        BY <2>5, DoneRuns
      <3>2. \A q \in DOMAIN runs : runs'[q].task = runs[q].task
        BY <2>5, DoneRuns
      <3>3. ASSUME NEW i \in DOMAIN order, Started(order[i])
            PROVE  ListsInv'
        <4>1. runs'[Len(runs) + 1].task \in 1..submitted
          BY <3>3, OrderTasks DEF Started, NewRun
        <4> QED
          BY <3>1, <3>2, <3>3, <4>1 DEF ListsInv, Started
      <3>4. CASE DOMAIN runs' = DOMAIN runs
        BY <3>1, <3>2, <3>4 DEF ListsInv
      <3> QED
        BY <2>5, <3>3, <3>4, DoneRuns
    <2>6. CASE UNCHANGED vars
      BY <2>6 DEF vars, ListsInv
    <2> QED
      BY <2>1, <2>2, <2>3, <2>4, <2>5, <2>6 DEF Next, Answer, RunHandle
  <1> QED
    BY <1>1, <1>2, TypeCorrect, RunningIsTracked, PTL DEF Spec

\* Then a pending run is the only one and its task the only one tracked.
LEMMA OnlyPending ==
    ASSUME TypeOK, ServiceInv, cancels = 0, NEW r \in DOMAIN runs, Pending(r)
    PROVE  /\ running[runs[r].task] = r /\ r # NoRun
           /\ \A u \in Tracked : u = runs[r].task
           /\ \A q \in DOMAIN runs : Pending(q) => q = r
  <1>1. running[runs[r].task] = r /\ r # NoRun /\ runs[r].task \in Tracked
    BY RunIsRun DEF ServiceInv, Tracked, NoRun
  <1>2. \A u \in Tracked : u = runs[r].task
    BY <1>1 DEF ServiceInv
  <1>3. ASSUME NEW q \in DOMAIN runs, Pending(q)
        PROVE  q = r
    <2>1. running[runs[q].task] = q /\ runs[q].task \in Tracked
      BY <1>3, RunIsRun DEF ServiceInv, Tracked, NoRun
    <2> QED
      BY <1>1, <1>2, <2>1
  <1> QED
    BY <1>1, <1>2, <1>3

\* The five parts of ServiceInv, after a step that leaves cancels 0.
LEMMA ServiceParts ==
    ASSUME /\ \A r \in DOMAIN runs' : ~runs'[r].cancelled
           /\ \A r \in DOMAIN runs' : runs'[r].state # "gone" => running'[runs'[r].task] = r
           /\ \A t, u \in Tracked' : t = u
           /\ \A r \in DOMAIN runs' :
                 runs'[r].state \in {"finished", "reloading"}
                     => status'[runs'[r].task] \in Terminal
           /\ \A i, j \in DOMAIN order' :
                 i < j /\ Waiting(i)' => /\ status'[order'[j]] \in {"queued", "cancelled"}
                                         /\ running'[order'[j]] = NoRun
    PROVE  ServiceInv'
  BY DEF ServiceInv, Pending

\* Where MaxConcurrent is 1, as in the service, and as long as no tracked run is
\* cancelled, tasks are taken in the order of their submission.
THEOREM FirstComeFirstServed ==
    ASSUME MaxConcurrent = 1
    PROVE  Spec => []ServedInOrder
  <1>1. Init => ServiceInv
    BY DEF Init, ServiceInv, Tracked
  <1>2. /\ TypeOK /\ TypeOK' /\ RunningTracked /\ WorkConserving /\ HandlesInOrder
        /\ ListsInv /\ ServiceInv /\ [Next]_vars
        => ServiceInv'
    <2> SUFFICES ASSUME TypeOK, TypeOK', RunningTracked, WorkConserving, HandlesInOrder,
                        ListsInv, ServiceInv, [Next]_vars, cancels' = 0
                 PROVE  ServiceInv'
      BY DEF ServiceInv
    <2>0. /\ running \in [Tasks -> Nat] /\ status \in [Tasks -> Statuses]
          /\ cancels \in Nat /\ submitted \in Nat
      BY QueueConstantsOK DEF TypeOK
    <2>1. CASE Submit
      <3> DEFINE t == submitted + 1
      <3>0. cancels = 0
        BY <2>1, SubmitRuns
      <3>1. /\ t \in Tasks /\ status' = [status EXCEPT ![t] = "queued"]
            /\ \A q \in DOMAIN runs : runs'[q] = runs[q]
            /\ \A u \in Tasks \ {t} : running'[u] = running[u]
        BY <2>1, SubmitRuns
      <3>2. \A q \in DOMAIN runs : runs[q].task \in Tasks \ {t}
        BY <2>0, RunIsRun DEF ListsInv
      <3>3. \A q \in DOMAIN runs' : q \notin DOMAIN runs =>
                q = Len(runs) + 1 /\ runs'[q] = NewRun(t) /\ running'[t] = q
        BY <2>1, SubmitRuns DEF Started
      <3>4. PICK n \in Nat, d \in {0, 1} :
                /\ DOMAIN order' = 1..n
                /\ order'[n] = t
                /\ \A i \in 1..n : i # n => i + d \in DOMAIN order /\ order'[i] = order[i + d]
        BY <2>1, SubmitOrder
      <3>5. \A i \in 1..n : i # n => order'[i] \in Tasks \ {t}
        BY <2>0, <3>4, OrderTasks
      <3>6. known' \subseteq known \cup {t}
        BY <2>1 DEF Submit
      <3> HIDE DEF t
      <3>7. ASSUME NEW i \in 1..n, i # n, Waiting(i)'
            PROVE  i + d \in DOMAIN order /\ Waiting(i + d)
        <4>1. order'[i] = order[i + d] /\ order'[i] \in Tasks \ {t}
          BY <3>4, <3>5, <3>7
        <4>2. order'[i] \in known' /\ status'[order'[i]] = "queued"
              /\ running'[order'[i]] = NoRun
          BY <3>7 DEF Waiting, IsQueued
        <4>3. order'[i] \in known /\ status[order'[i]] = "queued"
              /\ running[order'[i]] = NoRun
          <5> DEFINE u == order'[i]
          <5>1. u \in Tasks \ {t} /\ u \in known' /\ status'[u] = "queued" /\ running'[u] = NoRun
            BY <4>1, <4>2
          <5> HIDE DEF u
          <5>2. u \in known /\ status[u] = "queued" /\ running[u] = NoRun
            BY <2>0, <3>1, <3>6, <5>1
          <5> QED
            BY <5>2 DEF u
        <4> QED
          BY <3>4, <3>7, <4>1, <4>3 DEF Waiting, IsQueued
      <3>a. \A r \in DOMAIN runs' : ~runs'[r].cancelled
        BY <3>0, <3>1, <3>3 DEF ServiceInv, NewRun
      <3>b. \A r \in DOMAIN runs' : runs'[r].state # "gone" => running'[runs'[r].task] = r
        <4>1. \A r \in DOMAIN runs : runs[r].state # "gone" => running[runs[r].task] = r
          BY <3>0 DEF ServiceInv, Pending
        <4> QED
          BY <3>1, <3>2, <3>3, <4>1 DEF NewRun
      <3>d. \A r \in DOMAIN runs' :
                runs'[r].state \in {"finished", "reloading"}
                    => status'[runs'[r].task] \in Terminal
        <4>1. ASSUME NEW r \in DOMAIN runs, runs'[r].state \in {"finished", "reloading"}
              PROVE  status'[runs'[r].task] \in Terminal
          <5>1. status[runs[r].task] \in Terminal
            BY <3>0, <3>1, <4>1 DEF ServiceInv
          <5> QED
            BY <2>0, <3>1, <3>2, <5>1
        <4> QED
          BY <3>3, <4>1 DEF NewRun
      <3>8. CASE Tracked = {} /\ Started(t)
        <4>c. \A u, v \in Tracked' : u = v
          BY <3>1, <3>8 DEF Tracked
        <4>1. \A i \in DOMAIN order : ~IsQueued(order[i])
          <5>1. \A q \in DOMAIN runs : ~Pending(q)
            BY <3>0, <3>8, RunIsRun DEF ServiceInv, Tracked, NoRun
          <5> QED
            BY <5>1 DEF WorkConserving
        <4>2. \A i \in 1..n : ~(i # n /\ Waiting(i)')
          BY <3>7, <4>1 DEF Waiting
        <4>e. \A i, j \in DOMAIN order' :
                 i < j /\ Waiting(i)' => /\ status'[order'[j]] \in {"queued", "cancelled"}
                                         /\ running'[order'[j]] = NoRun
          BY <3>4, <4>2
        <4> QED
          BY <3>a, <3>b, <3>d, <4>c, <4>e, ServiceParts
      <3>9. CASE UNCHANGED <<runs, running, ready>>
        <4>c. \A u, v \in Tracked' : u = v
          BY <3>0, <3>9 DEF ServiceInv, Tracked
        <4>e. ASSUME NEW i \in DOMAIN order', NEW j \in DOMAIN order', i < j, Waiting(i)'
              PROVE  status'[order'[j]] \in {"queued", "cancelled"}
                     /\ running'[order'[j]] = NoRun
          <5>1. i \in 1..n /\ i # n /\ j \in 1..n
            BY <3>4, <4>e
          <5>2. i + d \in DOMAIN order /\ Waiting(i + d)
            BY <3>7, <4>e, <5>1
          <5>3. CASE j = n
            <6>1. order'[j] = t /\ running'[t] = running[t]
              BY <3>4, <3>9, <5>3
            <6>2. running[t] = NoRun
              BY <3>1, <3>2 DEF RunningTracked, Tracked
            <6> QED
              BY <2>0, <3>1, <6>1, <6>2
          <5>4. CASE j # n
            <6>1. j + d \in DOMAIN order /\ order'[j] = order[j + d]
                  /\ order'[j] \in Tasks \ {t} /\ i + d < j + d
              <7>1. i + d < j + d
                BY <4>e, <5>1
              <7>2. j + d \in DOMAIN order /\ order'[j] = order[j + d]
                BY <3>4, <5>1, <5>4
              <7>3. order'[j] \in Tasks \ {t}
                BY <3>5, <5>1, <5>4
              <7> QED
                BY <7>1, <7>2, <7>3
            <6>2. status[order[j + d]] \in {"queued", "cancelled"}
                  /\ running[order[j + d]] = NoRun
              BY <3>0, <5>2, <6>1 DEF ServiceInv
            <6> QED
              BY <2>0, <3>1, <6>1, <6>2
          <5> QED
            BY <5>3, <5>4
        <4> QED
          BY <3>a, <3>b, <3>d, <4>c, <4>e, ServiceParts
      <3> QED
        BY <2>1, <3>8, <3>9, SubmitRuns, BelowOne DEF t
    <2>2. ASSUME NEW t \in Tasks, Cancel(t)
          PROVE  ServiceInv'
      <3>1. running[t] = NoRun
        BY <2>0, <2>2 DEF Cancel
      <3>2. /\ cancels = 0 /\ runs' = runs /\ running' = running
            /\ order' = order /\ known' = known
            /\ status[t] \notin Terminal /\ status' = [status EXCEPT ![t] = "cancelled"]
        BY <2>0, <2>2, <3>1 DEF Cancel
      <3>3. \A u \in Tasks : status'[u] = IF u = t THEN "cancelled" ELSE status[u]
        BY <2>0, <3>2
      <3>4. \A r \in DOMAIN runs' :
                runs'[r].state \in {"finished", "reloading"}
                    => status'[runs'[r].task] \in Terminal
        BY <3>2, <3>3, RunIsRun DEF ServiceInv, Terminal
      <3>5. ASSUME NEW i \in DOMAIN order', NEW j \in DOMAIN order', i < j, Waiting(i)'
            PROVE  status'[order'[j]] \in {"queued", "cancelled"}
                   /\ running'[order'[j]] = NoRun
        <4>1. order'[i] \in Tasks /\ order'[j] \in Tasks
          BY <3>2, OrderTasks
        <4>2. Waiting(i)
          BY <3>2, <3>3, <3>5, <4>1 DEF Waiting, IsQueued
        <4> QED
          BY <3>2, <3>3, <3>5, <4>1, <4>2 DEF ServiceInv
      <3>6. \A u, v \in Tracked' : u = v
        BY <3>2 DEF ServiceInv, Tracked
      <3>7. /\ \A r \in DOMAIN runs' : ~runs'[r].cancelled
            /\ \A r \in DOMAIN runs' : runs'[r].state # "gone" => running'[runs'[r].task] = r
        BY <3>2 DEF ServiceInv, Pending
      <3> QED
        BY <3>4, <3>5, <3>6, <3>7, ServiceParts
    <2>3. ASSUME NEW r \in DOMAIN runs, WakeUp(r)
          PROVE  ServiceInv'
      BY <2>3 DEF WakeUp, ServiceInv, Pending, Tracked, Waiting, IsQueued
    <2>4. ASSUME NEW r \in DOMAIN runs, StepCancelled(r) \/ StepPipeline(r) \/ StepReload(r)
          PROVE  ServiceInv'
      <3> DEFINE t == runs[r].task
      <3>1. /\ cancels = 0 /\ running' = running /\ order' = order /\ known' = known
            /\ DOMAIN runs' = DOMAIN runs
            /\ \A q \in DOMAIN runs \ {r} : runs'[q] = runs[q]
            /\ runs'[r].task = t /\ runs'[r].state # "gone"
            /\ runs'[r].cancelled = runs[r].cancelled
            /\ \A u \in Tasks \ {t} : status'[u] = status[u]
        BY <2>4, CoroutineStep, CoroutineStatus
      <3>2. ~runs[r].cancelled
        BY <3>1 DEF ServiceInv
      <3>3. /\ runs[r].state \in {"created", "running", "reloading"}
            /\ runs'[r].state \in {"finished", "reloading"}
                 => \/ status'[t] \in {"failed", "completed"}
                    \/ runs[r].state = "reloading" /\ status'[t] = status[t]
            /\ status'[t] = "queued" => status[t] = "queued"
        BY <2>4, <3>2, CoroutineStatus
      <3>4. /\ running[t] = r /\ r # NoRun
            /\ \A q \in DOMAIN runs : Pending(q) => q = r
        <4>1. Pending(r)
          BY <3>3 DEF Pending
        <4> QED
          BY <3>1, <4>1, OnlyPending
      <3>5. t \in Tasks
        BY RunIsRun
      <3> HIDE DEF t
      <3>6. \A q \in DOMAIN runs' :
                runs'[q].state \in {"finished", "reloading"}
                    => status'[runs'[q].task] \in Terminal
        <4>1. \A q \in DOMAIN runs \ {r} : runs'[q].state \notin {"finished", "reloading"}
          BY <3>1, <3>4 DEF Pending
        <4>2. runs[r].state = "reloading" => status[t] \in Terminal
          BY <3>1 DEF ServiceInv, t
        <4>3. runs'[r].state \in {"finished", "reloading"} => status'[t] \in Terminal
          BY <3>3, <4>2 DEF Terminal
        <4> QED
          BY <3>1, <4>1, <4>3
      <3>7. ASSUME NEW i \in DOMAIN order', NEW j \in DOMAIN order', i < j, Waiting(i)'
            PROVE  status'[order'[j]] \in {"queued", "cancelled"}
                   /\ running'[order'[j]] = NoRun
        <4>1. order'[i] \in Tasks /\ order'[j] \in Tasks
          BY <3>1, OrderTasks
        <4>2. status'[order'[i]] = "queued" => status[order'[i]] = "queued"
          BY <3>1, <3>3, <4>1
        <4>3. Waiting(i)
          BY <3>1, <3>7, <4>2 DEF Waiting, IsQueued
        <4>4. status[order[j]] \in {"queued", "cancelled"} /\ running[order[j]] = NoRun
          BY <3>1, <3>7, <4>3 DEF ServiceInv
        <4> QED
          BY <3>1, <3>4, <4>1, <4>4
      <3>8. \A u, v \in Tracked' : u = v
        BY <3>1 DEF ServiceInv, Tracked
      <3>9. \A q \in DOMAIN runs' :
               ~runs'[q].cancelled /\ (runs'[q].state # "gone" => running'[runs'[q].task] = q)
        <4>1. \A q \in DOMAIN runs \ {r} :
                ~runs'[q].cancelled /\ (runs'[q].state # "gone" => running'[runs'[q].task] = q)
          BY <3>1 DEF ServiceInv, Pending
        <4> QED
          BY <3>1, <3>2, <3>4, <4>1
      <3> QED
        BY <3>6, <3>7, <3>8, <3>9, ServiceParts
    <2>5. ASSUME NEW r \in DOMAIN runs, OnDone(r)
          PROVE  ServiceInv'
      <3> DEFINE t == runs[r].task
      <3>1. /\ cancels = 0 /\ order' = order /\ known' = known /\ status' = status
            /\ \A q \in DOMAIN runs \ {r} : runs'[q] = runs[q]
            /\ runs'[r].state = "gone" /\ runs'[r].cancelled = FALSE
        BY <2>5, DoneRuns
      <3>2. runs[r].state = "finished"
        <4>1. ready # <<>> /\ Head(ready).run = r /\ Head(ready).kind = "done"
          BY <2>5 DEF OnDone, IsHead, Done
        <4> QED
          BY <4>1, TailOrder DEF HandlesInOrder, TypeOK
      <3>3. /\ running[t] = r /\ \A u \in Tracked : u = t
            /\ \A q \in DOMAIN runs : Pending(q) => q = r
        <4>1. Pending(r)
          BY <3>2 DEF Pending
        <4> QED
          BY <3>1, <4>1, OnlyPending
      <3>4. t \in Tasks /\ status[t] \in Terminal
        BY <3>1, <3>2, RunIsRun DEF ServiceInv
      <3>5. \A q \in DOMAIN runs : runs'[q].state = "gone" /\ ~runs'[q].cancelled
        BY <3>1, <3>3 DEF Pending, ServiceInv
      <3> HIDE DEF t
      <3>6. CASE /\ DOMAIN runs' = DOMAIN runs
                 /\ \A i \in DOMAIN order : ~IsQueued(order[i])
                 /\ running' = [running EXCEPT ![t] = NoRun]
        <4>1. Tracked' = {}
          BY <2>0, <3>3, <3>4, <3>6 DEF Tracked
        <4>2. \A i \in DOMAIN order' : ~Waiting(i)'
          BY <3>1, <3>6 DEF Waiting, IsQueued
        <4> QED
          BY <3>5, <3>6, <4>1, <4>2, ServiceParts
      <3>7. ASSUME NEW k \in DOMAIN order, IsNext(k), Started(order[k]),
                   \A u \in Tasks \ {order[k]} :
                      running'[u] = IF u = t THEN NoRun ELSE running[u]
            PROVE  ServiceInv'
        <4>0. order[k] \in Tasks /\ IsQueued(order[k])
              /\ \A j \in DOMAIN order : j < k => ~IsQueued(order[j])
          BY <3>7, OrderTasks DEF IsNext
        <4>1. \A u \in Tasks \ {order[k]} : running'[u] = NoRun
          BY <3>3, <3>7 DEF Tracked
        <4>2. \A u, v \in Tracked' : u = v
          BY <4>1 DEF Tracked
        <4>3. Waiting(k)
          <5>1. order[k] # t
            BY <3>4, <4>0 DEF IsQueued, Terminal
          <5> QED
            BY <3>3, <4>0, <5>1 DEF Waiting, Tracked
        <4>4. ASSUME NEW i \in DOMAIN order', NEW j \in DOMAIN order', i < j, Waiting(i)'
              PROVE  status'[order'[j]] \in {"queued", "cancelled"}
                     /\ running'[order'[j]] = NoRun
          <5>1. i \in Nat /\ j \in Nat /\ k \in Nat
            <6>1. DOMAIN order = 1..Len(order)
              BY LenProperties DEF TypeOK
            <6> QED
              BY <3>1, <6>1
          <5>2. IsQueued(order[i]) /\ running'[order[i]] = NoRun
            BY <3>1, <4>4 DEF Waiting, IsQueued
          <5>3. i # k
            BY <3>7, <5>2, RunNumbers DEF Started, NoRun
          <5>4. k < j
            BY <3>1, <4>0, <4>4, <5>1, <5>2, <5>3
          <5>5. status[order[j]] \in {"queued", "cancelled"}
            BY <3>1, <4>3, <4>4, <5>4 DEF ServiceInv
          <5>6. order[j] # order[k]
            BY <3>1, <4>4, <5>1, <5>4 DEF ListsInv
          <5> QED
            BY <3>1, <4>1, <4>4, <5>5, <5>6, OrderTasks
        <4>5. \A q \in DOMAIN runs' : q \notin DOMAIN runs =>
                 runs'[q] = NewRun(order[k]) /\ running'[order[k]] = q
          BY <3>7 DEF Started
        <4>6. \A q \in DOMAIN runs' :
                 /\ ~runs'[q].cancelled
                 /\ runs'[q].state # "gone" => running'[runs'[q].task] = q
                 /\ runs'[q].state \notin {"finished", "reloading"}
          BY <3>5, <4>5 DEF NewRun
        <4> QED
          BY <4>2, <4>4, <4>6, ServiceParts
      <3> QED
        BY <2>5, <3>6, <3>7, DoneRuns DEF t
    <2>6. CASE UNCHANGED vars
      BY <2>6 DEF vars, ServiceInv, Pending, Tracked, Waiting, IsQueued
    <2> QED
      BY <2>1, <2>2, <2>3, <2>4, <2>5, <2>6 DEF Next, Answer, RunHandle
  <1>3. ServiceInv => ServedInOrder
    BY DEF ServiceInv, ServedInOrder, Waiting
  <1> QED
    BY <1>1, <1>2, <1>3, TypeCorrect, RunningIsTracked, NoLostWakeUp, ReadyQueueInOrder,
       ListsInvariant, PTL DEF Spec

-----------------------------------------------------------------------------
(* A settled task keeps its status *)

\* Another run has the same task.
Doubled(r) == \E s \in DOMAIN runs : s # r /\ runs[s].task = runs[r].task

\* The run of a task that was started once: in the pipeline it is the task's
\* entry and the task is not settled, and if it was told to stop the task is
\* cancelled.
OnlyRun(r) ==
    ~Doubled(r) =>
        /\ runs[r].state \in {"created", "running"} /\ ~runs[r].cancelled
              => running[runs[r].task] = r /\ status[runs[r].task] \notin Terminal
        /\ runs[r].cancelled => status[runs[r].task] = "cancelled"

OnceInv ==
    /\ \A r \in DOMAIN runs : OnlyRun(r)
    /\ \A t \in Tasks : t > submitted => status[t] = "none"

\* Every step keeps the runs there are and the tasks they are of.
LEMMA RunsStay ==
    ASSUME TypeOK, RunningTracked, [Next]_vars
    PROVE  \A r \in DOMAIN runs : r \in DOMAIN runs' /\ runs'[r].task = runs[r].task
  <1>1. CASE Submit
    BY <1>1, SubmitRuns DEF Started
  <1>2. ASSUME NEW t \in Tasks, Cancel(t)
        PROVE  \A r \in DOMAIN runs : r \in DOMAIN runs' /\ runs'[r].task = runs[r].task
    BY <1>2, CancelRuns
  <1>3. ASSUME NEW q \in DOMAIN runs, WakeUp(q)
        PROVE  \A r \in DOMAIN runs : r \in DOMAIN runs' /\ runs'[r].task = runs[r].task
    BY <1>3 DEF WakeUp
  <1>4. ASSUME NEW q \in DOMAIN runs, StepCancelled(q) \/ StepPipeline(q) \/ StepReload(q)
        PROVE  \A r \in DOMAIN runs : r \in DOMAIN runs' /\ runs'[r].task = runs[r].task
    BY <1>4, CoroutineStep
  <1>5. ASSUME NEW q \in DOMAIN runs, OnDone(q)
        PROVE  \A r \in DOMAIN runs : r \in DOMAIN runs' /\ runs'[r].task = runs[r].task
    BY <1>5, DoneRuns DEF Started
  <1>6. CASE UNCHANGED vars
    BY <1>6 DEF vars
  <1> QED
    BY <1>1, <1>2, <1>3, <1>4, <1>5, <1>6 DEF Next, Answer, RunHandle

\* So a run whose task was started twice stays so.
LEMMA DoubledStays ==
    ASSUME TypeOK, RunningTracked, [Next]_vars, NEW r \in DOMAIN runs, Doubled(r)
    PROVE  Doubled(r)'
  BY RunsStay DEF Doubled

\* A step of the coroutine keeps the status of a settled task started once.
LEMMA CoroutineKeeps ==
    ASSUME TypeOK, OnceInv, NEW r \in DOMAIN runs,
           StepCancelled(r) \/ StepPipeline(r) \/ StepReload(r),
           ~TwiceStarted(runs[r].task), status[runs[r].task] \in Terminal
    PROVE  status'[runs[r].task] = status[runs[r].task]
  <1>1. ~Doubled(r)
    BY DEF TwiceStarted, Doubled
  <1> QED
    BY <1>1, CoroutineStatus DEF OnceInv, OnlyRun

\* A settled task keeps its status unless it was started twice.
THEOREM SettledStays == Spec => SettledIsFinal
  <1>1. Init => OnceInv
    BY DEF Init, OnceInv
  <1>2. /\ TypeOK /\ TypeOK' /\ RunningTracked /\ ListsInv /\ OnceInv /\ [Next]_vars
        => OnceInv'
    <2> SUFFICES ASSUME TypeOK, TypeOK', RunningTracked, ListsInv, OnceInv, [Next]_vars
                 PROVE  OnceInv'
      OBVIOUS
    <2>0. /\ status \in [Tasks -> Statuses] /\ submitted \in Nat
          /\ running \in [Tasks -> Nat] /\ Tasks \subseteq Nat
      BY QueueConstantsOK DEF TypeOK, Tasks
    <2>a. \A q \in DOMAIN runs : Doubled(q) => Doubled(q)'
      BY DoubledStays
    <2>b. ASSUME NEW u \in Tasks, Started(u), NEW q \in DOMAIN runs,
                 runs'[q].task = u
          PROVE  Doubled(q)'
      <3>1. runs'[Len(runs) + 1].task = u /\ Len(runs) + 1 \in DOMAIN runs'
        BY <2>b DEF Started, NewRun
      <3>2. q # Len(runs) + 1
        BY RunNumbers
      <3> QED
        BY <2>b, <3>1, <3>2 DEF Doubled
    <2>1. CASE Submit
      <3> DEFINE t == submitted + 1
      <3>1. /\ t \in Tasks /\ submitted' = t
            /\ \A u \in Tasks : status'[u] = IF u = t THEN "queued" ELSE status[u]
            /\ \A q \in DOMAIN runs : runs'[q] = runs[q]
            /\ \A u \in Tasks \ {t} : running'[u] = running[u]
        BY <2>0, <2>1, SubmitRuns
      <3>2. \A q \in DOMAIN runs : runs[q].task \in Tasks \ {t}
        BY <2>0, RunIsRun DEF ListsInv
      <3>3. ASSUME NEW u \in Tasks, u > submitted'
            PROVE  status'[u] = "none"
        <4>1. u > submitted /\ u # t
          BY <2>0, <3>1, <3>3
        <4>2. status[u] = "none"
          BY <4>1 DEF OnceInv
        <4> QED
          BY <3>1, <4>1, <4>2
      <3>4. \A q \in DOMAIN runs' : q \notin DOMAIN runs =>
                runs'[q] = NewRun(t) /\ running'[t] = q
        BY <2>1, SubmitRuns DEF Started
      <3> HIDE DEF t
      <3>5. ASSUME NEW q \in DOMAIN runs'
            PROVE  OnlyRun(q)'
        <4>1. CASE q \in DOMAIN runs
          <5>1. runs'[q] = runs[q] /\ runs[q].task \in Tasks \ {t}
            BY <3>1, <3>2, <4>1
          <5> QED
            BY <2>a, <3>1, <4>1, <5>1 DEF OnceInv, OnlyRun
        <4>2. CASE q \notin DOMAIN runs
          BY <3>1, <3>4, <3>5, <4>2 DEF NewRun, Terminal, OnlyRun
        <4> QED
          BY <4>1, <4>2
      <3> QED
        BY <3>3, <3>5 DEF OnceInv
    <2>2. ASSUME NEW t \in Tasks, Cancel(t)
          PROVE  OnceInv'
      <3>1. /\ t \in 1..submitted /\ submitted' = submitted /\ status[t] \notin Terminal
            /\ \A u \in Tasks : status'[u] = IF u = t THEN "cancelled" ELSE status[u]
            /\ \A u \in Tasks : running'[u] = IF u = t THEN NoRun ELSE running[u]
        BY <2>0, <2>2 DEF Cancel, TypeOK
      <3>2. \A u \in Tasks : u > submitted' => status'[u] = "none"
        BY <2>0, <3>1 DEF OnceInv
      <3>3. ASSUME NEW q \in DOMAIN runs'
            PROVE  OnlyRun(q)'
        <4>1. /\ q \in DOMAIN runs /\ runs'[q].task = runs[q].task
              /\ runs'[q].state = runs[q].state
              /\ runs'[q].cancelled
                   = (runs[q].cancelled \/ (q = running[t] /\ runs[q].state # "finished"))
          BY <2>2, CancelRuns
        <4>2. runs[q].task \in Tasks
          BY <4>1, RunIsRun
        <4>6. ~Doubled(q)' => /\ runs[q].state \in {"created", "running"} /\ ~runs[q].cancelled
                                   => running[runs[q].task] = q
                              /\ runs[q].state \in {"created", "running"} /\ ~runs[q].cancelled
                                   => status[runs[q].task] \notin Terminal
                              /\ runs[q].cancelled => status[runs[q].task] = "cancelled"
          BY <2>a, <4>1 DEF OnceInv, OnlyRun
        <4>3. q = running[t] => runs[q].task = t
          BY <4>1, RunIsRun DEF RunningTracked, Tracked, NoRun
        <4>4. CASE runs[q].task = t
          <5>1. ~Doubled(q)' /\ runs'[q].state \in {"created", "running"} => runs'[q].cancelled
            BY <4>1, <4>6, <4>4
          <5>2. status'[runs'[q].task] = "cancelled"
            BY <3>1, <4>1, <4>2, <4>4
          <5> QED
            BY <5>1, <5>2 DEF OnlyRun
        <4>5. CASE runs[q].task # t
          <5>1. /\ runs'[q].cancelled = runs[q].cancelled
                /\ running'[runs[q].task] = running[runs[q].task]
                /\ status'[runs[q].task] = status[runs[q].task]
            BY <3>1, <4>1, <4>2, <4>3, <4>5, RunIsRun DEF Runs
          <5> QED
            BY <4>1, <4>6, <5>1 DEF OnlyRun
        <4> QED
          BY <4>4, <4>5
      <3> QED
        BY <3>2, <3>3 DEF OnceInv
    <2>3. ASSUME NEW r \in DOMAIN runs, WakeUp(r)
          PROVE  OnceInv'
      BY <2>3 DEF WakeUp, OnceInv, OnlyRun, Doubled
    <2>4. ASSUME NEW r \in DOMAIN runs, StepCancelled(r) \/ StepPipeline(r) \/ StepReload(r)
          PROVE  OnceInv'
      <3> DEFINE t == runs[r].task
      <3>1. /\ submitted' = submitted /\ running' = running
            /\ DOMAIN runs' = DOMAIN runs
            /\ \A q \in DOMAIN runs \ {r} : runs'[q] = runs[q]
            /\ runs'[r].task = t
            /\ runs'[r].cancelled = runs[r].cancelled
            /\ \A u \in Tasks \ {t} : status'[u] = status[u]
        BY <2>4, CoroutineStep, CoroutineStatus
      <3>2. t \in Tasks /\ t \in 1..submitted
        BY RunIsRun DEF ListsInv
      <3>3. /\ runs[r].cancelled => status'[t] \in {status[t], "cancelled"}
            /\ runs'[r].state = "running" \/ runs'[r].state = "created" =>
                  /\ ~runs[r].cancelled
                  /\ runs[r].state \in {"created", "running"}
                  /\ status'[t] = IF runs[r].state = "created" THEN "running" ELSE status[t]
        BY <2>4, CoroutineStatus
      <3> HIDE DEF t
      <3>4. \A u \in Tasks : u > submitted' => status'[u] = "none"
        <4>1. \A u \in Tasks : u > submitted => u # t
          BY <2>0, <3>2
        <4> QED
          BY <3>1, <4>1 DEF OnceInv
      <3>5. ASSUME NEW q \in DOMAIN runs'
            PROVE  OnlyRun(q)'
        <4>1. q \in DOMAIN runs /\ runs'[q].task = runs[q].task
          BY <3>1 DEF t
        <4>2. runs[q].task \in Tasks
          BY <4>1, RunIsRun
        <4>3. CASE q = r
          <5>1. ~Doubled(r)' =>
                  /\ runs[r].cancelled => status[t] = "cancelled"
                  /\ runs[r].state \in {"created", "running"} /\ ~runs[r].cancelled
                       => running[t] = r /\ status[t] \notin Terminal
            BY <2>a, <4>3 DEF OnceInv, OnlyRun, t
          <5>2. CASE Doubled(r)'
            BY <4>3, <5>2 DEF OnlyRun
          <5>3. CASE ~Doubled(r)'
            BY <3>1, <3>3, <4>3, <5>1, <5>3 DEF Terminal, OnlyRun
          <5> QED
            BY <5>2, <5>3
        <4>4. CASE q # r
          <5>1. CASE runs[q].task = t
            <6>1. Doubled(q)
              BY <4>4, <5>1 DEF Doubled, t
            <6> QED
              BY <2>a, <4>1, <6>1 DEF OnlyRun
          <5>2. CASE runs[q].task # t
            BY <2>a, <3>1, <4>1, <4>2, <4>4, <5>2 DEF OnceInv, OnlyRun
          <5> QED
            BY <5>1, <5>2
        <4> QED
          BY <4>3, <4>4
      <3> QED
        BY <3>4, <3>5 DEF OnceInv
    <2>5. ASSUME NEW r \in DOMAIN runs, OnDone(r)
          PROVE  OnceInv'
      <3> DEFINE t == runs[r].task
      <3>1. /\ submitted' = submitted /\ status' = status
            /\ \A q \in DOMAIN runs \ {r} : runs'[q] = runs[q]
            /\ runs'[r].task = t /\ runs'[r].state = "gone" /\ runs'[r].cancelled = FALSE
        BY <2>5, DoneRuns
      <3>2. OnlyRun(r)'
        BY <3>1 DEF OnlyRun
      <3>3. \A u \in Tasks : u > submitted' => status'[u] = "none"
        BY <3>1 DEF OnceInv
      <3>4. t \in Tasks
        BY RunIsRun
      <3>5. ASSUME NEW q \in DOMAIN runs \ {r},
                   Doubled(q)' \/ running'[runs[q].task] = running[runs[q].task]
            PROVE  OnlyRun(q)'
        BY <2>a, <3>1, <3>5 DEF OnceInv, OnlyRun
      <3>6. ASSUME NEW q \in DOMAIN runs \ {r}, runs[q].task = t
            PROVE  Doubled(q)'
        <4>1. Doubled(q)
          BY <3>6 DEF Doubled
        <4> QED
          BY <2>a, <4>1
      <3> HIDE DEF t
      <3>7. CASE /\ DOMAIN runs' = DOMAIN runs
                 /\ running' = [running EXCEPT ![t] = NoRun]
        <4>1. \A u \in Tasks \ {t} : running'[u] = running[u]
          BY <2>0, <3>7
        <4>2. \A q \in DOMAIN runs \ {r} :
                 Doubled(q)' \/ running'[runs[q].task] = running[runs[q].task]
          BY <3>6, <4>1, RunIsRun
        <4>3. \A q \in DOMAIN runs \ {r} : OnlyRun(q)'
          BY <3>5, <4>2
        <4> QED
          BY <3>2, <3>3, <3>7, <4>3 DEF OnceInv
      <3>8. ASSUME NEW k \in DOMAIN order, IsNext(k), Started(order[k]),
                   \A u \in Tasks \ {order[k]} :
                      running'[u] = IF u = t THEN NoRun ELSE running[u]
            PROVE  OnceInv'
        <4>1. order[k] \in Tasks /\ status[order[k]] = "queued"
          BY <3>8, OrderTasks DEF IsNext, IsQueued
        <4>2. ASSUME NEW q \in DOMAIN runs \ {r}
              PROVE  Doubled(q)' \/ running'[runs[q].task] = running[runs[q].task]
          <5>1. CASE runs[q].task = t
            BY <3>6, <5>1
          <5>2. CASE runs[q].task = order[k]
            BY <2>b, <3>1, <3>8, <4>1, <5>2
          <5>3. CASE runs[q].task # t /\ runs[q].task # order[k]
            BY <3>8, <5>3, RunIsRun
          <5> QED
            BY <5>1, <5>2, <5>3
        <4>3. \A q \in DOMAIN runs \ {r} : OnlyRun(q)'
          BY <3>5, <4>2
        <4>4. ASSUME NEW q \in DOMAIN runs', q \notin DOMAIN runs
              PROVE  OnlyRun(q)'
          <5>1. runs'[q] = NewRun(order[k]) /\ running'[order[k]] = q
            BY <3>8, <4>4 DEF Started
          <5> QED
            BY <3>1, <4>1, <5>1 DEF NewRun, Terminal, OnlyRun
        <4> QED
          BY <3>2, <3>3, <4>3, <4>4 DEF OnceInv
      <3> QED
        BY <2>5, <3>7, <3>8, DoneRuns DEF t
    <2>6. CASE UNCHANGED vars
      BY <2>6 DEF vars, OnceInv, OnlyRun, Doubled
    <2> QED
      BY <2>1, <2>2, <2>3, <2>4, <2>5, <2>6 DEF Next, Answer, RunHandle
  <1>3. TypeOK /\ OnceInv /\ [Next]_vars
        => [\A t \in Tasks :
              status[t] \in Terminal /\ ~TwiceStarted(t) => status'[t] = status[t]]_vars
    <2> SUFFICES ASSUME TypeOK, OnceInv, Next, NEW t \in Tasks,
                        status[t] \in Terminal, ~TwiceStarted(t)
                 PROVE  status'[t] = status[t]
      BY DEF vars
    <2>0. status \in [Tasks -> Statuses] /\ submitted \in Nat /\ t \in Nat
      BY QueueConstantsOK DEF TypeOK, Tasks
    <2>1. CASE Submit
      <3>1. status[submitted + 1] = "none"
        BY <2>0, <2>1, SubmitRuns DEF OnceInv
      <3>2. t # submitted + 1
        BY <3>1 DEF Terminal
      <3> QED
        BY <2>0, <2>1, <3>2, SubmitRuns
    <2>2. ASSUME NEW u \in Tasks, Cancel(u)
          PROVE  status'[t] = status[t]
      BY <2>0, <2>2 DEF Cancel
    <2>3. ASSUME NEW r \in DOMAIN runs, WakeUp(r)
          PROVE  status'[t] = status[t]
      BY <2>3 DEF WakeUp
    <2>4. ASSUME NEW r \in DOMAIN runs, StepCancelled(r) \/ StepPipeline(r) \/ StepReload(r)
          PROVE  status'[t] = status[t]
      BY <2>4, CoroutineKeeps, CoroutineStatus
    <2>5. ASSUME NEW r \in DOMAIN runs, OnDone(r)
          PROVE  status'[t] = status[t]
      BY <2>5, DoneRuns
    <2> QED
      BY <2>1, <2>2, <2>3, <2>4, <2>5 DEF Next, Answer, RunHandle
  <1> QED
    BY <1>1, <1>2, <1>3, TypeCorrect, RunningIsTracked, ListsInvariant, PTL
       DEF Spec, SettledIsFinal
=============================================================================
