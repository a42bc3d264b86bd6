----------------------------- MODULE ReportsProofs -----------------------------
(***************************************************************************)
(* Theorems about Reports, for any number of jobs, schedules, lists and    *)
(* restarts, any settings and any clock.                                   *)
(***************************************************************************)
EXTENDS Reports, WellFoundedInduction, TLAPS

-----------------------------------------------------------------------------
(* What was announced stays *)

JobTypes ==
    [status : {"queued", "in_progress", "completed", "failed"}, format : Formats, base : Bases,
     context : SUBSET Parts]

Files == [whole : BOOLEAN, parts : SUBSET Parts]

\* The file that a generator writes.
Contents(format, context) == [whole |-> TRUE, parts |-> context \cap Generator(format).prints]

\* The file of a completed job is on disk; what was announced is, no job that is still
\* open will write to it again, and its job is known in the life it was announced in.
ReportInv ==
    /\ issued \in Nat /\ restarts \in Nat
    /\ DOMAIN jobs \subseteq 1..issued
    /\ \A j \in DOMAIN jobs : jobs[j] \in JobTypes
    /\ \A j \in DOMAIN files : files[j] \in Files
    /\ \A j \in DOMAIN jobs :
          jobs[j].status = "completed" =>
              j \in DOMAIN files /\ files[j] = Contents(jobs[j].format, jobs[j].context)
    /\ \A a \in announced :
          /\ a.job \in 1..issued
          /\ a.job \in DOMAIN files /\ files[a.job].whole
          /\ a.life \in 0..restarts /\ (a.job \in DOMAIN jobs <=> a.life = restarts)
          /\ a.job \in DOMAIN jobs => jobs[a.job].status = "completed"

\* It is whole.
LEMMA GeneratedFile ==
    ASSUME NEW format, NEW context \in SUBSET Parts
    PROVE  Contents(format, context) \in Files /\ Contents(format, context).whole
  BY DEF Contents, Files

\* A new job keeps the invariant.
LEMMA QueueKeeps ==
    ASSUME ReportInv, NEW f \in Formats, NEW b \in Bases, Queue(f, b),
           UNCHANGED <<files, announced, restarts>>
    PROVE  ReportInv'
  <1> DEFINE n == issued + 1
             job == [status |-> "queued", format |-> f, base |-> b, context |-> {}]
  <1>1. /\ issued \in Nat /\ issued' = n /\ n \notin DOMAIN jobs
        /\ DOMAIN jobs' = DOMAIN jobs \cup {n}
        /\ \A j \in DOMAIN jobs : jobs'[j] = jobs[j]
        /\ jobs'[n] = job
    BY DEF ReportInv, Queue
  <1>2. job \in JobTypes /\ job.status = "queued"
    BY DEF JobTypes
  <1> HIDE DEF job
  <1>3. \A j \in DOMAIN jobs' : jobs'[j].status = "completed" =>
            j \in DOMAIN files' /\ files'[j] = Contents(jobs'[j].format, jobs'[j].context)
    BY <1>1, <1>2 DEF ReportInv
  <1>4. DOMAIN jobs' \subseteq 1..issued' /\ \A j \in DOMAIN jobs' : jobs'[j] \in JobTypes
    BY <1>1, <1>2 DEF ReportInv
  <1>5. \A a \in announced' : /\ a.job \in 1..issued'
                              /\ a.job \in DOMAIN files' /\ files'[a.job].whole
                              /\ a.life \in 0..restarts'
                              /\ a.job \in DOMAIN jobs' <=> a.life = restarts'
                              /\ a.job \in DOMAIN jobs' => jobs'[a.job].status = "completed"
    BY <1>1 DEF ReportInv
  <1> QED
    BY <1>1, <1>3, <1>4, <1>5 DEF ReportInv

\* A job that is open changes its status, and perhaps its file and context; nothing
\* that was completed or announced is touched.
LEMMA OpenJobSteps ==
    ASSUME ReportInv, NEW j \in DOMAIN jobs, jobs[j].status # "completed",
           NEW job \in JobTypes,
           jobs' = [jobs EXCEPT ![j] = job], UNCHANGED <<issued, announced, restarts>>,
           \/ UNCHANGED files
           \/ \E file \in Files : files' = WithFile(j, file),
           job.status = "completed" =>
               j \in DOMAIN files' /\ files'[j] = Contents(job.format, job.context)
    PROVE  ReportInv'
  <1>1. /\ DOMAIN jobs' = DOMAIN jobs /\ jobs'[j] = job
        /\ \A k \in DOMAIN jobs : k # j => jobs'[k] = jobs[k]
    OBVIOUS
  <1>2. /\ \A k \in DOMAIN files : k # j => k \in DOMAIN files' /\ files'[k] = files[k]
        /\ \A k \in DOMAIN files' : files'[k] \in Files
    BY DEF WithFile, ReportInv
  <1>4. \A k \in DOMAIN jobs' : jobs'[k].status = "completed" =>
            k \in DOMAIN files' /\ files'[k] = Contents(jobs'[k].format, jobs'[k].context)
    BY <1>1, <1>2 DEF ReportInv
  <1>5. \A a \in announced : a.job # j
    BY DEF ReportInv
  <1>6. \A a \in announced' : /\ a.job \in 1..issued'
                              /\ a.job \in DOMAIN files' /\ files'[a.job].whole
                              /\ a.life \in 0..restarts'
                              /\ a.job \in DOMAIN jobs' <=> a.life = restarts'
                              /\ a.job \in DOMAIN jobs' => jobs'[a.job].status = "completed"
    BY <1>1, <1>2, <1>5 DEF ReportInv
  <1> QED
    BY <1>1, <1>2, <1>4, <1>6 DEF ReportInv

\* Whatever fails and however often the service restarts, what somebody was told is
\* ready stays whole in the report directory; it is handed out until the first restart
\* and refused after it, and nothing that was cut short is handed out
\* (reports.py:123-156 and 209-232, storage.py).
THEOREM ReadyReportsAreKept == Spec => []ReadyReportsStay
  <1>1. Init => ReportInv
    BY DEF Init, ReportInv
  <1>2. ReportInv /\ [Next]_vars => ReportInv'
    <2> SUFFICES ASSUME ReportInv, [Next]_vars PROVE ReportInv'
      OBVIOUS
    <2>0. [whole |-> FALSE, parts |-> {}] \in Files
      BY DEF Files
    <2>1. ASSUME NEW f \in Formats, NEW b \in Bases, GenerateReport(f, b) PROVE ReportInv'
      BY <2>1, QueueKeeps DEF GenerateReport, store
    <2>2. ASSUME NEW j \in DOMAIN jobs, StartGeneration(j) PROVE ReportInv'
      <3> DEFINE job == [jobs[j] EXCEPT !.status = "in_progress"]
      <3>1. /\ jobs[j].status = "queued" /\ jobs' = [jobs EXCEPT ![j] = job]
            /\ UNCHANGED <<issued, files, announced, restarts>>
        BY <2>2 DEF StartGeneration, store
      <3>2. job \in JobTypes /\ job.status = "in_progress"
        BY DEF ReportInv, JobTypes
      <3> HIDE DEF job
      <3> QED
        BY <3>1, <3>2, OpenJobSteps
    <2>3. ASSUME NEW j \in DOMAIN jobs, Generated(j) PROVE ReportInv'
      <3>1. jobs[j].status = "in_progress" /\ UNCHANGED <<issued, announced, restarts>>
        BY <2>3 DEF Generated
      <3>2. jobs[j] \in JobTypes
        BY DEF ReportInv
      <3>3. ASSUME Fails(j) PROVE ReportInv'
        <4> DEFINE job == [jobs[j] EXCEPT !.status = "failed"]
        <4>1. jobs' = [jobs EXCEPT ![j] = job]
          BY <3>3 DEF Fails
        <4>2. job \in JobTypes /\ job.status = "failed"
          BY <3>2 DEF JobTypes
        <4>3. UNCHANGED files \/ files' = WithFile(j, [whole |-> FALSE, parts |-> {}])
          BY <3>3 DEF Fails
        <4> HIDE DEF job
        <4> QED
          BY <2>0, <3>1, <4>1, <4>2, <4>3, OpenJobSteps
      <3>4. ASSUME NEW context \in Contexts(jobs[j].base), Completes(j, context) PROVE ReportInv'
        <4> DEFINE job == [jobs[j] EXCEPT !.status = "completed", !.context = context]
                   file == Contents(jobs[j].format, context)
        <4>1. context \in SUBSET Parts
          BY DEF Contexts
        <4>2. jobs' = [jobs EXCEPT ![j] = job] /\ files' = WithFile(j, file)
          BY <3>2, <3>4 DEF Completes, File, Contents, JobTypes
        <4>3. job \in JobTypes /\ job.format = jobs[j].format /\ job.context = context
          BY <3>2, <4>1 DEF JobTypes
        <4>4. file \in Files
          BY <4>1, GeneratedFile
        <4>5. j \in DOMAIN files' /\ files'[j] = Contents(job.format, job.context)
          BY <4>2, <4>3 DEF WithFile
        <4> HIDE DEF job, file
        <4> QED
          BY <3>1, <4>2, <4>3, <4>4, <4>5, OpenJobSteps
      <3> QED
        BY <2>3, <3>3, <3>4 DEF Generated
    <2>4. ASSUME NEW c \in SUBSET {"email", "teams", "slack"}, CreateList(c) PROVE ReportInv'
      BY <2>4 DEF CreateList, store, ReportInv
    <2>5. ASSUME NEW j \in DOMAIN jobs, NEW l \in DOMAIN lists, SendReport(j, l) PROVE ReportInv'
      <3>1. /\ jobs[j].status = "completed" /\ UNCHANGED <<issued, jobs, files, restarts>>
            /\ \A a \in announced' : a \in announced \/ (a.job = j /\ a.life = restarts)
        BY <2>5 DEF SendReport, store
      <3>2. j \in DOMAIN files /\ files[j].whole /\ j \in 1..issued
        BY <3>1, GeneratedFile DEF ReportInv, JobTypes
      <3> QED
        BY <3>1, <3>2 DEF ReportInv
    <2>6. ASSUME NEW f \in Frequencies, CreateSchedule(f) PROVE ReportInv'
      BY <2>6 DEF CreateSchedule, store, ReportInv
    <2>7. ASSUME NEW s \in DOMAIN schedules, NEW f \in Frequencies, UpdateFrequency(s, f)
          PROVE  ReportInv'
      BY <2>7 DEF UpdateFrequency, store, ReportInv
    <2>8. ASSUME NEW s \in DOMAIN schedules, UpdateEnabled(s) \/ DeleteSchedule(s) PROVE ReportInv'
      BY <2>8 DEF UpdateEnabled, DeleteSchedule, store, ReportInv
    <2>9. CASE Tick
      BY <2>9 DEF Tick, store, ReportInv
    <2>10. CASE Answered
      <3>1. Posted /\ UNCHANGED <<files, announced, restarts>>
        BY <2>10 DEF Answered, store
      <3>2. CASE UNCHANGED <<jobs, issued>>
        BY <3>1, <3>2 DEF ReportInv
      <3>3. ASSUME NEW f \in Formats, NEW b \in Bases, Queue(f, b) PROVE ReportInv'
        BY <3>1, <3>3, QueueKeeps
      <3> QED
        BY <3>1, <3>2, <3>3 DEF Posted
    <2>11. CASE Time
      BY <2>11 DEF Time, store, ReportInv
    <2>12. CASE Restart
      <3>1. jobs' = <<>> /\ restarts' = restarts + 1 /\ UNCHANGED <<issued, announced>>
        BY <2>12 DEF Restart
      <3>2. CASE UNCHANGED files
        BY <3>1, <3>2 DEF ReportInv
      <3>3. ASSUME NEW j \in DOMAIN jobs, jobs[j].status = "in_progress",
                   files' = WithFile(j, [whole |-> FALSE, parts |-> {}])
            PROVE  ReportInv'
        <4>1. /\ \A k \in DOMAIN files : k # j => k \in DOMAIN files' /\ files'[k] = files[k]
              /\ \A k \in DOMAIN files' : files'[k] \in Files
          BY <2>0, <3>3 DEF WithFile, ReportInv
        <4>2. \A a \in announced : a.job # j
          BY <3>3 DEF ReportInv
        <4> QED
          BY <3>1, <4>1, <4>2 DEF ReportInv
      <3> QED
        BY <2>12, <3>2, <3>3 DEF Restart
    <2>13. CASE UNCHANGED vars
      BY <2>13 DEF vars, ReportInv
    <2> QED
      BY <2>1, <2>2, <2>3, <2>4, <2>5, <2>6, <2>7, <2>8, <2>9, <2>10, <2>11, <2>12, <2>13 DEF Next
  <1>3. ReportInv => ReadyReportsStay
    <2> SUFFICES ASSUME ReportInv PROVE ReadyReportsStay
      OBVIOUS
    <2>1. ASSUME NEW j, DownloadReport(j).code = 200
          PROVE  DownloadReport(j).file = File(j, jobs[j].context)
      <3>1. j \in DOMAIN jobs /\ jobs[j].status = "completed"
        BY <2>1 DEF DownloadReport, Refused
      <3>2. Stored(j) = File(j, jobs[j].context) /\ Stored(j) # Null
        BY <3>1, GeneratedFile, ReportsAssumption DEF ReportInv, JobTypes, Stored, File, Contents, Files
      <3> QED
        BY <3>1, <3>2 DEF DownloadReport
    <2>2. ASSUME NEW a \in announced
          PROVE  /\ Stored(a.job) # Null /\ Stored(a.job).whole
                 /\ DownloadReport(a.job).code = IF a.life = restarts THEN 200 ELSE 404
      <3>1. Stored(a.job) # Null /\ Stored(a.job).whole
        BY ReportsAssumption DEF ReportInv, Stored, Files
      <3>2. CASE a.life = restarts
        <4>1. a.job \in DOMAIN jobs /\ jobs[a.job].status = "completed"
          BY <3>2 DEF ReportInv
        <4> QED
          BY <3>1, <3>2, <4>1 DEF DownloadReport
      <3>3. CASE a.life # restarts
        <4>1. a.job \notin DOMAIN jobs
          BY <3>3 DEF ReportInv
        <4> QED
          BY <3>1, <3>3, <4>1 DEF DownloadReport, Refused
      <3> QED
        BY <3>1, <3>2, <3>3
    <2> QED
      BY <2>1, <2>2 DEF ReadyReportsStay
  <1> QED
    BY <1>1, <1>2, <1>3, PTL DEF Spec

-----------------------------------------------------------------------------
(* A schedule asks once in its interval *)

ScheduleTypes ==
    [frequency : Frequencies, enabled : BOOLEAN, nextRun : Nat, posted : Nat \cup {Null}]

TickTypes == [at : Nat, asked : Nat \cup {Null}, rest : SUBSET Nat]

\* A schedule that has asked is not due for an interval, unless it is still waiting for
\* its answer or nobody will look at it again.
SpacedOut(s) ==
    schedules[s].posted # Null =>
        /\ schedules[s].posted <= clock
        /\ \/ schedules[s].nextRun >= schedules[s].posted + Week
           \/ tick.asked = s
           \/ s \notin listed \cup tick.rest

\* What is in the table of schedules.
LEMMA ScheduleFields ==
    ASSUME NEW table \in Seq(ScheduleTypes), NEW s \in DOMAIN table
    PROVE  /\ table[s] \in ScheduleTypes /\ table[s].frequency \in Frequencies
           /\ table[s].nextRun \in Nat /\ (table[s].posted # Null => table[s].posted \in Nat)
  <1>1. table[s] \in ScheduleTypes
    OBVIOUS
  <1> QED
    BY <1>1 DEF ScheduleTypes

SchedulerInv ==
    /\ clock \in Nat
    /\ schedules \in Seq(ScheduleTypes)
    /\ listed \subseteq DOMAIN schedules
    /\ tick \in TickTypes /\ tick.at <= clock /\ (tick.asked = Null => tick = Asleep)
    /\ tick.asked \in DOMAIN schedules \cup {Null} /\ tick.rest \subseteq DOMAIN schedules
    /\ \A s \in DOMAIN schedules : SpacedOut(s)

\* A nonempty set of numbers has a least one.
LEMMA LeastOfSome ==
    ASSUME NEW S \in SUBSET Nat, S # {}
    PROVE  Min(S) \in S
  <1>1. PICK x \in S : \A y \in S : <<y, x>> \notin OpToRel(<, Nat)
    BY NatLessThanWellFounded, WFMin
  <1>2. \A y \in S : <<y, x>> \in OpToRel(<, Nat) <=> y < x
    BY DEF OpToRel
  <1>3. \A y \in S : ~(y < x)
    BY <1>1, <1>2, Zenon
  <1>4. \A y \in S : x <= y
    BY <1>3
  <1> QED
    BY <1>4 DEF Min

\* No frequency that a schedule can have is one the scheduler knows.
UnknownFrequencies == \A f \in Frequencies : f \notin DOMAIN Intervals

\* A tick that goes on over table asks for a schedule only when an interval has passed,
\* and leaves the others as they were.
LEMMA GoesSpaced ==
    ASSUME SchedulerInv, NEW at \in Nat, at <= clock, NEW rest \in SUBSET DOMAIN schedules,
           NEW table \in Seq(ScheduleTypes), Len(table) = Len(schedules),
           \A s \in DOMAIN schedules : table[s].posted # Null =>
               /\ table[s].posted <= clock
               /\ table[s].nextRun >= table[s].posted + Week \/ s \notin listed \cup rest,
           Goes(at, rest, table), UNCHANGED <<clock, listed>>
    PROVE  /\ SchedulerInv'
           /\ \A s \in DOMAIN schedules : tick'.asked = s =>
                 table[s].posted = Null \/ clock - table[s].posted >= Week
  <1> DEFINE due == DueAmong(at, rest, table)
             first == Min(due)
  <1>0. /\ clock \in Nat /\ listed \subseteq DOMAIN schedules /\ DOMAIN schedules \subseteq Nat
        /\ DOMAIN table = DOMAIN schedules /\ Week \in Nat /\ Null \notin Nat
    BY ReportsAssumption DEF SchedulerInv
  <1>1. CASE due = {}
    <2>1. schedules' = table /\ tick' = Asleep
      BY <1>1 DEF Goes
    <2>2. tick'.at = 0 /\ tick'.asked = Null /\ tick'.rest = {} /\ tick' \in TickTypes
      BY <2>1 DEF Asleep, TickTypes
    <2>3. \A s \in DOMAIN schedules' : SpacedOut(s)'
      BY <1>0, <2>1, <2>2 DEF SpacedOut
    <2> QED
      BY <1>0, <2>1, <2>2, <2>3 DEF SchedulerInv
  <1>2. CASE due # {}
    <2>1. /\ schedules' = [table EXCEPT ![first].posted = clock]
          /\ tick' = [at |-> at, asked |-> first, rest |-> {s \in rest : s > first}]
      BY <1>2 DEF Goes
    <2>2. due \subseteq rest /\ due \subseteq Nat
      BY <1>0 DEF DueAmong
    <2>3. first \in due
      BY <1>2, <2>2, LeastOfSome
    <2>4. /\ first \in DOMAIN table /\ first \in rest /\ at >= table[first].nextRun
          /\ first \in Nat
      BY <1>0, <2>2, <2>3 DEF DueAmong
    <2> HIDE DEF due, first
    <2> DEFINE asked == [table[first] EXCEPT !.posted = clock]
    <2>5. table[first] \in ScheduleTypes
      BY <2>4, ScheduleFields
    <2>6. /\ asked \in ScheduleTypes /\ asked.posted = clock
          /\ schedules' = [table EXCEPT ![first] = asked]
      <3>1. clock \in Nat
        BY <1>0
      <3> QED
        BY <2>1, <2>5, <3>1 DEF ScheduleTypes
    <2> HIDE DEF asked
    <2>7. /\ schedules' \in Seq(ScheduleTypes) /\ DOMAIN schedules' = DOMAIN schedules
          /\ schedules'[first] = asked
          /\ \A s \in DOMAIN schedules : s # first => schedules'[s] = table[s]
      BY <1>0, <2>4, <2>6
    <2>8. /\ tick' \in TickTypes /\ tick'.at = at /\ tick'.asked = first
          /\ tick'.rest \subseteq rest
      BY <1>0, <2>1, <2>4 DEF TickTypes
    <2>9. \A s \in DOMAIN schedules' : SpacedOut(s)'
      <3> TAKE s \in DOMAIN schedules'
      <3>1. CASE s = first
        BY <1>0, <2>6, <2>7, <2>8, <3>1 DEF SpacedOut
      <3>2. CASE s # first
        BY <1>0, <2>7, <2>8, <3>2 DEF SpacedOut
      <3> QED
        BY <3>1, <3>2
    <2>10. SchedulerInv'
      BY <1>0, <2>4, <2>7, <2>8, <2>9 DEF SchedulerInv
    <2>11. table[first].posted = Null \/ clock - table[first].posted >= Week
      <3>1. SUFFICES ASSUME table[first].posted # Null PROVE clock - table[first].posted >= Week
        OBVIOUS
      <3>2. table[first].posted \in Nat /\ table[first].nextRun \in Nat
        BY <2>4, <3>1, ScheduleFields
      <3>3. table[first].nextRun >= table[first].posted + Week
        BY <1>0, <2>4, <3>1
      <3> QED
        BY <1>0, <2>4, <3>2, <3>3
    <2> QED
      BY <2>8, <2>10, <2>11
  <1> QED
    BY <1>1, <1>2

\* The scheduler's step when nobody starts to ask.
LEMMA StaysSpaced ==
    ASSUME SchedulerInv, UNCHANGED <<schedules, listed, tick>>, clock' \in {clock, clock + 1}
    PROVE  SchedulerInv'
  <1>1. clock \in Nat /\ clock' \in Nat /\ clock <= clock'
    BY DEF SchedulerInv
  <1>2. tick.at \in Nat
    BY DEF SchedulerInv, TickTypes, Asleep
  <1>3. \A s \in DOMAIN schedules : schedules[s].posted # Null => schedules[s].posted \in Nat
    BY ScheduleFields DEF SchedulerInv
  <1>4. \A s \in DOMAIN schedules' : SpacedOut(s)'
    BY <1>1, <1>3 DEF SchedulerInv, SpacedOut
  <1>5. tick'.at <= clock'
    BY <1>1, <1>2 DEF SchedulerInv
  <1> QED
    BY <1>1, <1>4, <1>5 DEF SchedulerInv

\* Its steps keep the invariant, and it asks at most once in an interval.
LEMMA SpacedSteps ==
    ASSUME UnknownFrequencies, SchedulerInv, [Next]_vars
    PROVE  /\ SchedulerInv'
           /\ \A s \in DOMAIN schedules : ~Asking(s) /\ Asking(s)' =>
                 schedules[s].posted = Null \/ clock - schedules[s].posted >= Week
  <1> DEFINE Goal ==
        /\ SchedulerInv'
        /\ \A s \in DOMAIN schedules : ~Asking(s) /\ Asking(s)' =>
              schedules[s].posted = Null \/ clock - schedules[s].posted >= Week
  <1>0. /\ clock \in Nat /\ schedules \in Seq(ScheduleTypes)
        /\ DOMAIN schedules = 1..Len(schedules) /\ DOMAIN schedules \subseteq Nat
        /\ \A s \in DOMAIN schedules : SpacedOut(s)
        /\ tick \in TickTypes /\ tick.at \in Nat /\ tick.at <= clock
        /\ listed \subseteq DOMAIN schedules /\ Week \in Nat /\ Null \notin Nat
    BY ReportsAssumption DEF SchedulerInv, TickTypes, Asleep
  <1>1. \A f \in Frequencies : NextRun(f) = clock + Week
    BY DEF UnknownFrequencies, NextRun
  <1>2. ASSUME UNCHANGED <<schedules, listed, tick>>, clock' \in {clock, clock + 1} PROVE Goal
    BY <1>2, StaysSpaced DEF Asking
  <1>3. ASSUME NEW f \in Frequencies, CreateSchedule(f) PROVE Goal
    <2> DEFINE n == Len(schedules) + 1
               new == [frequency |-> f, enabled |-> TRUE, nextRun |-> NextRun(f), posted |-> Null]
    <2>1. /\ schedules' = Append(schedules, new) /\ listed' = listed \cup {n}
          /\ UNCHANGED <<clock, tick>>
      BY <1>3 DEF CreateSchedule
    <2>2. new \in ScheduleTypes /\ new.posted = Null
      BY <1>0, <1>1 DEF ScheduleTypes
    <2> HIDE DEF new
    <2>3. /\ schedules' \in Seq(ScheduleTypes) /\ DOMAIN schedules' = DOMAIN schedules \cup {n}
          /\ schedules'[n] = new /\ n \notin DOMAIN schedules
          /\ \A s \in DOMAIN schedules : schedules'[s] = schedules[s]
      BY <1>0, <2>1, <2>2
    <2> HIDE DEF n
    <2>4. \A s \in DOMAIN schedules' : SpacedOut(s)'
      BY <1>0, <2>1, <2>2, <2>3 DEF SpacedOut
    <2>5. SchedulerInv'
      BY <1>0, <2>1, <2>3, <2>4 DEF SchedulerInv
    <2> QED
      BY <2>1, <2>5 DEF Asking
  <1>4. ASSUME NEW s \in DOMAIN schedules, NEW schedule \in ScheduleTypes,
               schedules' = [schedules EXCEPT ![s] = schedule],
               schedule.posted = schedules[s].posted,
               schedule.nextRun = schedules[s].nextRun \/ schedule.nextRun = clock + Week,
               UNCHANGED <<clock, listed, tick>>
        PROVE  Goal
    <2>1. /\ schedules' \in Seq(ScheduleTypes) /\ DOMAIN schedules' = DOMAIN schedules
          /\ schedules'[s] = schedule
          /\ \A x \in DOMAIN schedules : x # s => schedules'[x] = schedules[x]
      BY <1>0, <1>4
    <2>2. SpacedOut(s)'
      <3>1. schedules[s].posted # Null => schedules[s].posted \in Nat
        BY <1>0, ScheduleFields
      <3>2. SpacedOut(s)
        BY <1>0
      <3> QED
        BY <1>0, <1>4, <2>1, <3>1, <3>2 DEF SpacedOut
    <2>3. \A x \in DOMAIN schedules' : SpacedOut(x)'
      BY <1>0, <1>4, <2>1, <2>2 DEF SpacedOut
    <2>4. SchedulerInv'
      BY <1>4, <2>1, <2>3 DEF SchedulerInv
    <2> QED
      BY <1>4, <2>4 DEF Asking
  <1>5. ASSUME NEW s \in DOMAIN schedules, NEW f \in Frequencies, UpdateFrequency(s, f) PROVE Goal
    <2> DEFINE schedule == [schedules[s] EXCEPT !.frequency = f, !.nextRun = NextRun(f)]
    <2>1. schedules[s] \in ScheduleTypes
      BY <1>0
    <2>2. /\ schedules' = [schedules EXCEPT ![s] = schedule]
          /\ UNCHANGED <<clock, listed, tick>>
      BY <1>5, <2>1 DEF UpdateFrequency, ScheduleTypes
    <2>3. /\ schedule \in ScheduleTypes /\ schedule.posted = schedules[s].posted
          /\ schedule.nextRun = clock + Week
      <3>1. NextRun(f) = clock + Week /\ NextRun(f) \in Nat
        BY <1>0, <1>1
      <3> QED
        BY <2>1, <3>1 DEF ScheduleTypes
    <2> HIDE DEF schedule
    <2> QED
      BY <1>4, <2>2, <2>3
  <1>6. ASSUME NEW s \in DOMAIN schedules, UpdateEnabled(s) PROVE Goal
    <2> DEFINE schedule == [schedules[s] EXCEPT !.enabled = ~schedules[s].enabled]
    <2>1. schedules[s] \in ScheduleTypes
      BY <1>0
    <2>2. /\ schedules' = [schedules EXCEPT ![s] = schedule]
          /\ UNCHANGED <<clock, listed, tick>>
      BY <1>6, <2>1 DEF UpdateEnabled, ScheduleTypes
    <2>3. /\ schedule \in ScheduleTypes /\ schedule.posted = schedules[s].posted
          /\ schedule.nextRun = schedules[s].nextRun
      BY <2>1 DEF ScheduleTypes
    <2> HIDE DEF schedule
    <2> QED
      BY <1>4, <2>2, <2>3
  <1>7. ASSUME NEW s \in DOMAIN schedules, DeleteSchedule(s) PROVE Goal
    <2>1. listed' \subseteq listed /\ UNCHANGED <<clock, schedules, tick>>
      BY <1>7 DEF DeleteSchedule
    <2>2. \A x \in DOMAIN schedules' : SpacedOut(x)'
      BY <1>0, <2>1 DEF SpacedOut
    <2>3. SchedulerInv'
      BY <2>1, <2>2 DEF SchedulerInv
    <2> QED
      BY <2>1, <2>3 DEF Asking
  <1>8. ASSUME Tick PROVE Goal
    <2>1. tick = Asleep /\ Goes(clock, listed, schedules) /\ UNCHANGED <<clock, listed>>
      BY <1>8 DEF Tick
    <2>2. tick.asked = Null /\ tick.rest = {}
      BY <2>1 DEF Asleep
    <2>3. \A s \in DOMAIN schedules : schedules[s].posted # Null =>
             /\ schedules[s].posted <= clock
             /\ \/ schedules[s].nextRun >= schedules[s].posted + Week
                \/ s \notin listed \cup listed
      BY <1>0, <2>2 DEF SpacedOut
    <2>4. /\ SchedulerInv'
          /\ \A s \in DOMAIN schedules : tick'.asked = s =>
                schedules[s].posted = Null \/ clock - schedules[s].posted >= Week
      BY <1>0, <2>1, <2>3, GoesSpaced
    <2> QED
      BY <2>4 DEF Asking
  <1>9. ASSUME Answered PROVE Goal
    <2> DEFINE s0 == tick.asked
               ran == [schedules[s0] EXCEPT !.nextRun = NextRun(schedules[s0].frequency)]
               table == [schedules EXCEPT ![s0] = ran]
    <2>1. tick # Asleep /\ Goes(tick.at, tick.rest, table) /\ UNCHANGED <<clock, listed>>
      BY <1>9 DEF Answered, Ran
    <2>2. s0 \in DOMAIN schedules /\ tick.rest \subseteq DOMAIN schedules
      BY <1>0, <2>1 DEF TickTypes, SchedulerInv
    <2>3. schedules[s0] \in ScheduleTypes
      BY <1>0, <2>2
    <2>4. /\ ran \in ScheduleTypes /\ ran.posted = schedules[s0].posted
          /\ ran.nextRun = clock + Week
      <3>1. schedules[s0].frequency \in Frequencies
        BY <1>0, <2>2, ScheduleFields
      <3>2. /\ NextRun(schedules[s0].frequency) = clock + Week
            /\ NextRun(schedules[s0].frequency) \in Nat
        BY <1>0, <1>1, <3>1
      <3> QED
        BY <2>3, <3>2 DEF ScheduleTypes
    <2> HIDE DEF ran
    <2>5. /\ table \in Seq(ScheduleTypes) /\ Len(table) = Len(schedules) /\ table[s0] = ran
          /\ \A s \in DOMAIN schedules : s # s0 => table[s] = schedules[s]
      BY <1>0, <2>2, <2>4
    <2> HIDE DEF table
    <2>6. \A s \in DOMAIN schedules : table[s].posted # Null =>
             /\ table[s].posted <= clock
             /\ table[s].nextRun >= table[s].posted + Week \/ s \notin listed \cup tick.rest
      <3> TAKE s \in DOMAIN schedules
      <3>1. schedules[s].posted # Null => schedules[s].posted \in Nat
        BY <1>0, ScheduleFields
      <3>2. SpacedOut(s)
        BY <1>0
      <3>3. CASE s = s0
        BY <1>0, <2>4, <2>5, <3>1, <3>2, <3>3 DEF SpacedOut
      <3>4. CASE s # s0
        BY <2>5, <3>2, <3>4 DEF SpacedOut
      <3> QED
        BY <3>3, <3>4
    <2>7. /\ SchedulerInv'
          /\ \A s \in DOMAIN schedules : tick'.asked = s =>
                table[s].posted = Null \/ clock - table[s].posted >= Week
      BY <1>0, <2>1, <2>2, <2>5, <2>6, GoesSpaced
    <2> QED
      BY <2>5, <2>7 DEF Asking
  <1>10. ASSUME Restart PROVE Goal
    <2>1. listed' = {} /\ tick' = Asleep /\ UNCHANGED <<clock, schedules>>
      BY <1>10 DEF Restart
    <2>2. tick'.at = 0 /\ tick'.asked = Null /\ tick'.rest = {} /\ tick' \in TickTypes
      BY <2>1 DEF Asleep, TickTypes
    <2>3. \A x \in DOMAIN schedules' : SpacedOut(x)'
      BY <1>0, <2>1, <2>2 DEF SpacedOut
    <2>4. SchedulerInv'
      BY <1>0, <2>1, <2>2, <2>3 DEF SchedulerInv
    <2> QED
      BY <1>0, <2>2, <2>4 DEF Asking
  <1>11. ASSUME Time PROVE Goal
    BY <1>2, <1>11 DEF Time, scheduler
  <1>12. ASSUME NEW f \in Formats, NEW b \in Bases, GenerateReport(f, b) PROVE Goal
    BY <1>2, <1>12 DEF GenerateReport, scheduler
  <1>13. ASSUME NEW j \in DOMAIN jobs, StartGeneration(j) \/ Generated(j) PROVE Goal
    BY <1>2, <1>13 DEF StartGeneration, Generated, scheduler
  <1>14. ASSUME NEW c \in SUBSET {"email", "teams", "slack"}, CreateList(c) PROVE Goal
    BY <1>2, <1>14 DEF CreateList, scheduler
  <1>15. ASSUME NEW j \in DOMAIN jobs, NEW l \in DOMAIN lists, SendReport(j, l) PROVE Goal
    BY <1>2, <1>15 DEF SendReport, scheduler
  <1>16. ASSUME UNCHANGED vars PROVE Goal
    BY <1>2, <1>16 DEF vars
  <1> HIDE DEF Goal
  <1>17. Goal
    BY <1>3, <1>5, <1>6, <1>7, <1>8, <1>9, <1>10, <1>11, <1>12, <1>13, <1>14, <1>15, <1>16 DEF Next
  <1> QED
    BY <1>17 DEF Goal

\* The scheduler asks for a report at most once in a schedule's interval, however long
\* answers take and whatever is changed, deleted or restarted meanwhile; the API stores
\* only frequencies the scheduler does not know, so the interval is a week
\* (scheduler.py:101-150).
THEOREM AsksOncePerInterval ==
    ASSUME UnknownFrequencies
    PROVE  Spec => OncePerInterval
  <1>1. Init => SchedulerInv
    BY ReportsAssumption DEF Init, SchedulerInv, TickTypes, Asleep
  <1>2. SchedulerInv /\ [Next]_vars => SchedulerInv'
    BY SpacedSteps
  <1>3. SchedulerInv /\ [Next]_vars =>
            [\A s \in DOMAIN schedules :
                (~Asking(s) /\ Asking(s)') => \/ schedules[s].posted = Null
                                             \/ clock - schedules[s].posted >= Week]_vars
    BY SpacedSteps
  <1> QED
    BY <1>1, <1>2, <1>3, PTL DEF Spec, OncePerInterval

===============================================================================
