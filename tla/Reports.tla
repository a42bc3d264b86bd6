-------------------------------- MODULE Reports --------------------------------
(***************************************************************************)
(* The reports service (services/reports/): jobs that generate a document  *)
(* in the background, their files, the announcement of a report, and the   *)
(* scheduler that asks the service itself for a report when a schedule is  *)
(* due.                                                                    *)
(*                                                                         *)
(* One event loop: a step is what happens between two awaits that suspend, *)
(* which are the requests to the computation service and the scheduler's   *)
(* own request; a document is generated and saved without suspending.      *)
(* Jobs, schedules and distribution lists live in memory; only files       *)
(* survive a restart.                                                      *)
(***************************************************************************)
EXTENDS Integers, Sequences, FiniteSets, SequencesExt

CONSTANTS
    Null,
    Parts,                  \* answers of the computation service that a report draws on
    Formats, Bases,         \* what requests name
    TableBases,             \* the comparison bases the variance table has
    Frequencies,            \* what str() makes of a schedule's frequency, in capitals
    Intervals,              \* the interval of each frequency the scheduler knows
    Week,                   \* the interval of any other
    Configured,             \* notification channels in the settings
    MaxClock, MaxJobs, MaxSchedules, MaxLists, MaxRestarts      \* bounds

ReportParts == {"cards", "variances", "pl", "waterfall", "netting", "trends",
                "executive", "sections"}

ASSUME ReportsAssumption ==
    /\ Parts \subseteq ReportParts
    /\ DOMAIN Intervals \subseteq STRING /\ \A f \in DOMAIN Intervals : Intervals[f] \in Nat \ {0}
    /\ Week \in Nat \ {0}
    /\ {MaxClock, MaxJobs, MaxSchedules, MaxLists, MaxRestarts} \subseteq Nat
    /\ Null \notin Nat /\ Null \notin [whole : BOOLEAN, parts : SUBSET Parts]

VARIABLES
    clock,
    jobs,           \* _jobs: job id -> record
    issued,         \* job ids given out
    files,          \* the report directory: job id -> file
    index,          \* LocalReportStorage._files: job ids whose path is known
    schedules,      \* every schedule record ever made, also those removed
    listed,         \* the ids in ReportScheduler._schedules
    tick,           \* the scheduler's task
    lists,          \* _distribution_lists: the channel types of each
    announced,      \* a ghost: reports somebody was told are ready, and in which life
    restarts

vars == <<clock, jobs, issued, files, index, schedules, listed, tick, lists, announced, restarts>>
store == <<files, index>>
scheduler == <<schedules, listed, tick>>

Asleep == [at |-> 0, asked |-> Null, rest |-> {}]

Init ==
    /\ clock = 0
    /\ jobs = <<>> /\ issued = 0
    /\ files = <<>> /\ index = {}
    /\ schedules = <<>> /\ listed = {} /\ tick = Asleep
    /\ lists = <<>> /\ announced = {}
    /\ restarts = 0

-----------------------------------------------------------------------------
(* Documents *)

\* What each generator prints, and of that, in which parts it formats a percentage
\* that may be missing; the workbook writes 0 for one.
Pdf == [prints |-> {"cards", "variances", "executive", "netting", "trends", "sections"},
        formats |-> {"cards", "variances"}]
Pptx == [prints |-> {"cards", "variances", "executive", "netting", "trends"},
         formats |-> {"cards", "variances"}]
Docx == [prints |-> {"cards", "variances", "executive", "trends", "sections"},
         formats |-> {"cards"}]
Xlsx == [prints |-> {"cards", "variances", "executive", "pl", "sections"}, formats |-> {}]

\* _FORMAT_GENERATORS
Generator(format) == [pdf |-> Pdf, pptx |-> Pptx, docx |-> Docx, xlsx |-> Xlsx][format]

\* fetch_context: what is answered and not empty; a base the table does not have
\* selects no row of it, while the alerts are those of the period.  Answers that
\* fail count as empty.
Contexts(base) ==
    SUBSET (IF base \in TableBases THEN Parts ELSE Parts \cap {"netting", "trends"})

\* get_path looks into the directory when the index does not know the job.
Stored(j) == IF j \in DOMAIN files THEN files[j] ELSE Null

-----------------------------------------------------------------------------
(* Jobs *)

Refused(code) == [code |-> code, file |-> Null]

\* download_report: only a job this process knows and has completed; what get_path
\* would remember of it is in the index since it was saved.
DownloadReport(j) ==
    CASE j \notin DOMAIN jobs -> Refused(404)
      [] j \in DOMAIN jobs /\ jobs[j].status # "completed" -> Refused(409)
      [] OTHER -> IF Stored(j) = Null THEN Refused(404) ELSE [code |-> 200, file |-> Stored(j)]

\* generate_report, from a browser or from the scheduler.
Queue(format, base) ==
    /\ issued < MaxJobs
    /\ issued' = issued + 1
    /\ jobs' = [j \in DOMAIN jobs \cup {issued + 1} |->
                   IF j \in DOMAIN jobs THEN jobs[j]
                   ELSE [status |-> "queued", format |-> format, base |-> base, context |-> {}]]

GenerateReport(format, base) ==
    /\ Queue(format, base)
    /\ UNCHANGED <<clock, store, scheduler, lists, announced, restarts>>

\* _run_generation starts and sends its requests.
StartGeneration(j) ==
    /\ jobs[j].status = "queued"
    /\ jobs' = [jobs EXCEPT ![j].status = "in_progress"]
    /\ UNCHANGED <<clock, issued, store, scheduler, lists, announced, restarts>>

File(j, context) == [whole |-> TRUE, parts |-> context \cap Generator(jobs[j].format).prints]

WithFile(j, file) == [k \in DOMAIN files \cup {j} |-> IF k = j THEN file ELSE files[k]]

\* All eight answers are there: the document is generated and saved.
Completes(j, context) ==
    /\ files' = WithFile(j, File(j, context))
    /\ index' = index \cup {j}
    /\ jobs' = [jobs EXCEPT ![j].status = "completed", ![j].context = context]

\* A row without a percentage, or the disk, raises.  write_bytes may have written
\* the beginning of the file.
Fails(j) ==
    /\ jobs' = [jobs EXCEPT ![j].status = "failed"]
    /\ \/ UNCHANGED files
       \/ files' = WithFile(j, [whole |-> FALSE, parts |-> {}])
    /\ UNCHANGED index

\* A wrong Generated: a job is completed before its file is saved.
Generated_StatusFirst(j) ==
    /\ jobs[j].status = "in_progress"
    /\ \E context \in Contexts(jobs[j].base) :
          \/ Completes(j, context)
          \/ /\ jobs' = [jobs EXCEPT ![j].status = "completed", ![j].context = context]
             /\ UNCHANGED <<files, index>>
    /\ UNCHANGED <<clock, issued, scheduler, lists, announced, restarts>>

\* percentless: the answers in which some percentage is missing.
Generated(j) ==
    /\ jobs[j].status = "in_progress"
    /\ \E context \in Contexts(jobs[j].base) : \E percentless \in SUBSET context :
          \/ percentless \cap Generator(jobs[j].format).formats = {} /\ Completes(j, context)
          \/ Fails(j)
    /\ UNCHANGED <<clock, issued, scheduler, lists, announced, restarts>>

-----------------------------------------------------------------------------
(* Distribution *)

CreateList(channels) ==
    /\ Len(lists) < MaxLists
    /\ lists' = Append(lists, channels)
    /\ UNCHANGED <<clock, jobs, issued, store, scheduler, announced, restarts>>

\* notify_event: the webhooks of the settings whatever the list says, and mail when
\* the list has an address.
Dispatched(channels) ==
    (Configured \cap {"teams", "slack"}) \cup (Configured \cap channels \cap {"email"})

\* send_report; any channel may fail.
SendReport(j, l) ==
    /\ jobs[j].status = "completed"
    /\ \E delivered \in SUBSET Dispatched(lists[l]) :
          announced' = announced \cup {[job |-> j, by |-> c, life |-> restarts] : c \in delivered}
    /\ UNCHANGED <<clock, jobs, issued, store, scheduler, lists, restarts>>

-----------------------------------------------------------------------------
(* Schedules; posted is a ghost, when a report was last asked for.  last_run_at is  *)
(* only shown and left out.                                                        *)

\* _compute_next_run
NextRun(frequency) ==
    clock + (IF frequency \in DOMAIN Intervals THEN Intervals[frequency] ELSE Week)

CreateSchedule(frequency) ==
    /\ Len(schedules) < MaxSchedules
    /\ schedules' = Append(schedules, [frequency |-> frequency, enabled |-> TRUE,
                                       nextRun |-> NextRun(frequency), posted |-> Null])
    /\ listed' = listed \cup {Len(schedules) + 1}
    /\ UNCHANGED <<clock, jobs, issued, store, tick, lists, announced, restarts>>

\* update_schedule with another frequency starts the interval anew.
UpdateFrequency(s, frequency) ==
    /\ s \in listed
    /\ schedules' = [schedules EXCEPT ![s].frequency = frequency, ![s].nextRun = NextRun(frequency)]
    /\ UNCHANGED <<clock, jobs, issued, store, listed, tick, lists, announced, restarts>>

UpdateEnabled(s) ==
    /\ s \in listed
    /\ schedules' = [schedules EXCEPT ![s].enabled = ~@]
    /\ UNCHANGED <<clock, jobs, issued, store, listed, tick, lists, announced, restarts>>

\* The record stays with a tick that has taken it from the list.
DeleteSchedule(s) ==
    /\ s \in listed
    /\ listed' = listed \ {s}
    /\ UNCHANGED <<clock, jobs, issued, store, schedules, tick, lists, announced, restarts>>

\* The schedules still to be looked at that are due at the time the tick began.
DueAmong(at, rest, table) == {s \in rest : table[s].enabled /\ at >= table[s].nextRun}

\* The tick passes over those that are not due, in the order they were made, and sends
\* its request for the first that is, or sleeps.
Goes(at, rest, table) ==
    LET due == DueAmong(at, rest, table)
        first == Min(due)
    IN  IF due = {} THEN schedules' = table /\ tick' = Asleep
        ELSE /\ schedules' = [table EXCEPT ![first].posted = clock]
             /\ tick' = [at |-> at, asked |-> first, rest |-> {s \in rest : s > first}]

\* _evaluate_schedules, every 60 seconds: the schedules in the list when it begins.
Tick ==
    /\ tick = Asleep
    /\ DueAmong(clock, listed, schedules) # {}
    /\ Goes(clock, listed, schedules)
    /\ UNCHANGED <<clock, jobs, issued, store, listed, lists, announced, restarts>>

\* The fields the scheduler posts, and those the endpoint requires.
PostedFields == {"format", "period_key", "comparison_base", "view"}
RequiredFields == {"report_format", "period_key"}

\* The endpoint refuses a request in which a field is missing.
Posted ==
    IF RequiredFields \subseteq PostedFields THEN \E f \in Formats, b \in Bases : Queue(f, b)
    ELSE UNCHANGED <<jobs, issued>>

\* A wrong Ran: the next run counts from the beginning of the tick.
Ran_FromTick(record) == [record EXCEPT !.nextRun = tick.at + Week]

\* A wrong Ran: the next run is left as it was.
Ran_StaysDue(record) == record

Ran(record) == [record EXCEPT !.nextRun = NextRun(record.frequency)]

\* The answer, whatever it is, or the timeout of 30 seconds.
Answered ==
    /\ tick # Asleep
    /\ Posted
    /\ Goes(tick.at, tick.rest, [schedules EXCEPT ![tick.asked] = Ran(@)])
    /\ UNCHANGED <<clock, store, listed, lists, announced, restarts>>

-----------------------------------------------------------------------------

Time ==
    /\ clock < MaxClock
    /\ clock' = clock + 1
    /\ UNCHANGED <<jobs, issued, store, scheduler, lists, announced, restarts>>

\* The process ends, perhaps while it writes a file, and starts again.
Restart ==
    /\ restarts < MaxRestarts
    /\ restarts' = restarts + 1
    /\ jobs' = <<>> /\ index' = {} /\ lists' = <<>>
    /\ listed' = {} /\ tick' = Asleep
    /\ \/ UNCHANGED files
       \/ \E j \in DOMAIN jobs : /\ jobs[j].status = "in_progress"
                                 /\ files' = WithFile(j, [whole |-> FALSE, parts |-> {}])
    /\ UNCHANGED <<clock, issued, schedules, announced>>

Next ==
    \/ \E f \in Formats, b \in Bases : GenerateReport(f, b)
    \/ \E j \in DOMAIN jobs : StartGeneration(j) \/ Generated(j)
    \/ \E c \in SUBSET {"email", "teams", "slack"} : CreateList(c)
    \/ \E j \in DOMAIN jobs, l \in DOMAIN lists : SendReport(j, l)
    \/ \E f \in Frequencies : CreateSchedule(f)
    \/ \E s \in DOMAIN schedules, f \in Frequencies : UpdateFrequency(s, f)
    \/ \E s \in DOMAIN schedules : UpdateEnabled(s) \/ DeleteSchedule(s)
    \/ Tick \/ Answered \/ Time \/ Restart

\* The loop's tasks go on, and every request ends, by its timeout at the latest.
Fairness ==
    /\ WF_tick(Tick) /\ WF_tick(Answered)
    /\ \A j \in 1..MaxJobs : WF_jobs(j \in DOMAIN jobs /\ (StartGeneration(j) \/ Generated(j)))

Spec == Init /\ [][Next]_vars /\ Fairness

-----------------------------------------------------------------------------
(* Properties *)

\* The report directory keeps whole what somebody was told is ready, whatever fails and
\* however often the service restarts; the endpoint hands it out, with all that was
\* answered and its format prints, until the first restart, and from then on it knows
\* no such job.  A file that was cut short is never handed out.
ReadyReportsStay ==
    /\ \A a \in announced :
          /\ Stored(a.job) # Null /\ Stored(a.job).whole
          /\ DownloadReport(a.job).code = IF a.life = restarts THEN 200 ELSE 404
    /\ \A j \in 1..issued :
          DownloadReport(j).code = 200 => DownloadReport(j).file = File(j, jobs[j].context)

Asking(s) == tick.asked = s

\* The scheduler asks for a report at most once in a schedule's interval, although a
\* tick waits for answers while the time goes on and schedules are changed.
OncePerInterval ==
    [][\A s \in DOMAIN schedules :
          (~Asking(s) /\ Asking(s)') => \/ schedules[s].posted = Null
                                       \/ clock - schedules[s].posted >= Week]_vars

Due(s) ==
    s \in listed /\ schedules[s].enabled /\ schedules[s].nextRun <= clock

Open(j) == j \in DOMAIN jobs /\ jobs[j].status \in {"queued", "in_progress"}

\* No schedule stays due and no job stays open for ever.
DueThingsHappen ==
    /\ \A s \in 1..MaxSchedules : Due(s) ~> ~Due(s)
    /\ \A j \in 1..MaxJobs : Open(j) ~> ~Open(j)

===============================================================================
