------------------------------- MODULE MCReports -------------------------------
(***************************************************************************)
(* Requests for documents that break on a missing percentage and for one   *)
(* that does not, with the base of the table and with the default, which   *)
(* the table does not have; frequencies as the API stores them.            *)
(***************************************************************************)
EXTENDS Reports

ApiFrequencies == {"SCHEDULEFREQUENCY.DAILY"}

SchedulerIntervals ==
    [f \in {"DAILY", "WEEKLY"} |-> IF f = "DAILY" THEN 1 ELSE 2]

\* The scheduler's requests are refused, so jobs, with their distribution, and
\* schedules do not meet: the states are explored in which one half is at rest.
OneHalf == \/ schedules = <<>> /\ clock = 0
           \/ issued = 0 /\ lists = <<>>

===============================================================================
