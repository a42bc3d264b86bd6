--------------------------- MODULE ReviewLifecycle ---------------------------
(***************************************************************************)
(* What the review workflow promises about one set of variance             *)
(* commentaries, with no locks, versions, texts or databases: a commentary *)
(* is approved only out of a review, the review that stands behind it has  *)
(* a name, and it leaves the approved stage only when its text is          *)
(* regenerated.  ReviewStore implements this specification.                *)
(***************************************************************************)

CONSTANTS
    Variances,  \* the variances under review
    Users,      \* the people who review
    NoUser      \* nobody, not one of Users

VARIABLES
    stage,      \* where each commentary stands
    standing    \* who made the review that stands, NoUser when none does

vars == <<stage, standing>>

\* Draft and escalated commentaries both wait for an analyst.
Stages == {"waiting", "reviewed", "approved", "set_aside"}

Init ==
    /\ stage = [v \in Variances |-> "waiting"]
    /\ standing = [v \in Variances |-> NoUser]

-----------------------------------------------------------------------------

\* A named person reviews a waiting commentary.
Review(v, u) ==
    /\ stage[v] = "waiting"
    /\ stage' = [stage EXCEPT ![v] = "reviewed"]
    /\ standing' = [standing EXCEPT ![v] = u]

\* Several reviewed commentaries are approved at once; their reviews stand.
Approve(S) ==
    /\ \A v \in S : stage[v] = "reviewed"
    /\ stage' = [v \in Variances |-> IF v \in S THEN "approved" ELSE stage[v]]
    /\ UNCHANGED standing

\* Reviewed and set-aside commentaries go back to the analysts, no review left.
SendBack(S) ==
    /\ \A v \in S : stage[v] \in {"reviewed", "set_aside"}
    /\ stage' = [v \in Variances |-> IF v \in S THEN "waiting" ELSE stage[v]]
    /\ standing' = [v \in Variances |-> IF v \in S THEN NoUser ELSE standing[v]]

\* A waiting commentary needs no narrative after all.
SetAside(v) ==
    /\ stage[v] = "waiting"
    /\ stage' = [stage EXCEPT ![v] = "set_aside"]
    /\ UNCHANGED standing

\* A summary is rebuilt from its children and starts over, wherever it was.
StartOver(v) ==
    /\ stage' = [stage EXCEPT ![v] = "waiting"]
    /\ standing' = [standing EXCEPT ![v] = NoUser]

Next ==
    \/ \E v \in Variances, u \in Users : Review(v, u)
    \/ \E S \in SUBSET Variances : Approve(S) \/ SendBack(S)
    \/ \E v \in Variances : SetAside(v) \/ StartOver(v)

Spec == Init /\ [][Next]_vars
=============================================================================
