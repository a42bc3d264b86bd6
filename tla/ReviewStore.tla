----------------------------- MODULE ReviewStore -----------------------------
(***************************************************************************)
(* The in-memory review store (shared/data/review_store.py) together with  *)
(* the summary regeneration of the gateway (services/gateway/api/review.py)*)
(* that writes the same table behind the store's back.  Every method runs  *)
(* to its end on the event loop of the gateway, so each is one action.     *)
(*                                                                         *)
(* A refused call raises and changes nothing: it is a stuttering step.     *)
(***************************************************************************)
EXTENDS Naturals, FiniteSets

CONSTANTS
    Variances,   \* variance ids of fact_review_status
    Parents,     \* the variances of calculated accounts with child narratives
    Users,       \* ids of the people calling the API
    NoUser,      \* no user id (None)
    Analyst,     \* the name "analyst", written when a review has no user id
    Director,    \* the name "director", written when an approval has none
    Texts,       \* narratives a caller may type
    NoText,      \* no edited narrative (None or the empty string)
    RegenText,   \* the narrative a regeneration builds
    LockTicks,   \* the life of a lock, 30 minutes in the code
    MaxClock,    \* bound of the model: the clock stops here
    MaxVersion   \* bound of the model: the last version of each variance

ASSUME ConstantsOK ==
    /\ Parents \subseteq Variances
    /\ NoUser \notin Users \cup {Analyst, Director}
    /\ NoText \notin Texts \cup {RegenText}
    /\ LockTicks \in Nat \ {0}
    /\ MaxClock \in Nat
    /\ MaxVersion \in [Variances -> Nat]

VARIABLES
    recs,    \* the review table: variance id -> row
    clock,   \* the wall clock
    grants   \* history: locks told to a caller, not given up and not run out

vars == <<recs, clock, grants>>

-----------------------------------------------------------------------------
(* The rows and the transition tables *)

Statuses == {"AI_DRAFT", "ANALYST_REVIEWED", "APPROVED",
             "ESCALATED", "DISMISSED", "AUTO_CLOSED"}

\* _VALID_TRANSITIONS; APPROVED and AUTO_CLOSED lead nowhere.
ValidTransitions ==
    {<<"AI_DRAFT", "ANALYST_REVIEWED">>, <<"AI_DRAFT", "ESCALATED">>,
     <<"AI_DRAFT", "DISMISSED">>, <<"ANALYST_REVIEWED", "APPROVED">>,
     <<"ANALYST_REVIEWED", "AI_DRAFT">>, <<"ANALYST_REVIEWED", "ESCALATED">>,
     <<"ESCALATED", "ANALYST_REVIEWED">>, <<"ESCALATED", "DISMISSED">>,
     <<"DISMISSED", "AI_DRAFT">>}

\* _ACTION_STATUS_MAP
Actions == {"approve", "edit", "escalate", "dismiss",
            "director_approve", "director_reject"}

TargetStatus(action) ==
    CASE action \in {"approve", "edit"} -> "ANALYST_REVIEWED"
      [] action = "escalate"            -> "ESCALATED"
      [] action = "dismiss"             -> "DISMISSED"
      [] action = "director_approve"    -> "APPROVED"
      [] action = "director_reject"     -> "AI_DRAFT"

Callers == Users \cup {NoUser}

Rows == [status   : Statuses,
         text     : Texts \cup {RegenText, NoText},   \* edited_narrative
         reviewer : Callers \cup {Analyst},
         approver : Callers \cup {Director},
         version  : Nat,                              \* version_count
         holder   : Callers,                          \* locked_by
         until    : 0..(MaxClock + LockTicks)]        \* locked_until, 0 is None

\* A row as the engine leaves it in the parquet file.
FreshRow == [status |-> "AI_DRAFT", text |-> NoText, reviewer |-> NoUser,
             approver |-> NoUser, version |-> 1, holder |-> NoUser, until |-> 0]

\* What a reader of the row sees of the commentary itself.
Content(row) == <<row.status, row.text, row.reviewer, row.approver>>

-----------------------------------------------------------------------------
(* The pieces of submit_review_action *)

\* The lock test of acquire_lock and submit_review_action.
LockedAgainst(row, u) ==
    row.holder # NoUser /\ row.holder # u /\ row.until > clock

\* A wrong Accepts: only the terminal states are looked at.
Accepts_AnyOpen(row, action) == row.status \notin {"APPROVED", "AUTO_CLOSED"}

Accepts(row, action) == <<row.status, TargetStatus(action)>> \in ValidTransitions

\* The row after an accepted action; a call without a user id leaves the lock.
Acted(row, action, text, u) ==
    LET target == TargetStatus(action)
    IN  [status   |-> target,
         text     |-> IF text = NoText THEN row.text ELSE text,
         reviewer |-> IF target # "ANALYST_REVIEWED" THEN row.reviewer
                      ELSE IF u = NoUser THEN Analyst ELSE u,
         approver |-> IF target # "APPROVED" THEN row.approver
                      ELSE IF u = NoUser THEN Director ELSE u,
         version  |-> row.version + 1,
         holder   |-> IF u = NoUser THEN row.holder ELSE NoUser,
         until    |-> IF u = NoUser THEN row.until ELSE 0]

\* A wrong Regenerated: the new draft gets a status the table does not know.
Regenerated_Unknown(row) ==
    [row EXCEPT !.status = "REGENERATED", !.text = RegenText, !.version = @ + 1]

\* A wrong Regenerated: the version starts over with the new draft.
Regenerated_Unversioned(row) ==
    [row EXCEPT !.status = "AI_DRAFT", !.text = RegenText, !.version = 1]

\* The row after the gateway regenerated the summary, whatever it was before.
Regenerated(row) ==
    [status |-> "AI_DRAFT", text |-> RegenText,
     reviewer |-> row.reviewer, approver |-> row.approver,
     version |-> row.version + 1, holder |-> row.holder, until |-> row.until]

BelowBound(S) == \A v \in S : recs[v].version < MaxVersion[v]

-----------------------------------------------------------------------------

Init ==
    /\ recs = [v \in Variances |-> FreshRow]
    /\ clock = 0
    /\ grants = {}

Tick ==
    /\ clock < MaxClock
    /\ clock' = clock + 1
    /\ grants' = {g \in grants : g.until > clock'}
    /\ UNCHANGED recs

\* Granted unless another user holds a lock that has not run out; a second
\* call of the holder extends the lock.
AcquireLock(v, u) ==
    /\ ~LockedAgainst(recs[v], u)
    /\ recs' = [recs EXCEPT ![v].holder = u, ![v].until = clock + LockTicks]
    /\ grants' = {g \in grants : g.variance # v \/ g.user # u}
                     \cup {[variance |-> v, user |-> u, until |-> clock + LockTicks]}
    /\ UNCHANGED clock

\* Only the owner's release, or one of an unlocked row, has an effect.
ReleaseLock(v, u) ==
    /\ recs[v].holder \in {u, NoUser}
    /\ recs' = [recs EXCEPT ![v].holder = NoUser, ![v].until = 0]
    /\ grants' = {g \in grants : g.variance # v \/ g.user # u}
    /\ UNCHANGED clock

\* A wrong SubmitReviewAction: it does not look at the lock.
SubmitReviewAction_Unlocked(v, u, action, text) ==
    /\ Accepts(recs[v], action)
    /\ BelowBound({v})
    /\ recs' = [recs EXCEPT ![v] = Acted(@, action, text, u)]
    /\ grants' = {g \in grants : g.variance # v \/ g.user # u}
    /\ UNCHANGED clock

\* One identified call of submit_review_action, any action with any text.
SubmitReviewAction(v, u, action, text) ==
    /\ ~LockedAgainst(recs[v], u)
    /\ Accepts(recs[v], action)
    /\ BelowBound({v})
    /\ recs' = [recs EXCEPT ![v] = Acted(@, action, text, u)]
    /\ grants' = {g \in grants : g.variance # v \/ g.user # u}
    /\ UNCHANGED clock

\* submit_bulk_approval calls the store without a user id, so no lock is
\* looked at; a row that does not accept the action is reported and skipped.
SubmitBulkApproval(ids, action) ==
    /\ BelowBound({v \in ids : Accepts(recs[v], action)})
    /\ recs' = [v \in Variances |->
                   IF v \in ids /\ Accepts(recs[v], action)
                   THEN Acted(recs[v], action, NoText, NoUser)
                   ELSE recs[v]]
    /\ UNCHANGED <<clock, grants>>

\* POST /review/{id}/regenerate writes the row directly.
RegenerateSummary(v) ==
    /\ v \in Parents
    /\ BelowBound({v})
    /\ recs' = [recs EXCEPT ![v] = Regenerated(@)]
    /\ UNCHANGED <<clock, grants>>

BulkActions == {"director_approve", "director_reject"}

Next ==
    \/ Tick
    \/ \E v \in Variances, u \in Users : AcquireLock(v, u) \/ ReleaseLock(v, u)
    \/ \E v \in Variances, u \in Users, a \in Actions, t \in Texts \cup {NoText} :
           SubmitReviewAction(v, u, a, t)
    \/ \E ids \in SUBSET Variances, a \in BulkActions : SubmitBulkApproval(ids, a)
    \/ \E v \in Variances : RegenerateSummary(v)

Spec == Init /\ [][Next]_vars

-----------------------------------------------------------------------------
(* Properties *)

Grants == [variance : Variances, user : Users, until : 0..(MaxClock + LockTicks)]

\* Every row keeps the shape of the review table, and every remembered grant
\* names a variance, a user and an expiry.
TypeOK ==
    /\ recs \in [Variances -> Rows]
    /\ clock \in 0..MaxClock
    /\ grants \subseteq Grants

\* Whoever was told that he holds a lock, has not given it up by releasing or
\* acting, and whose 30 minutes are not over, is the holder in the table: the
\* store never grants a second lock, and no identified call of another user
\* gets through, because it would clear the lock on its way out (acquire_lock,
\* release_lock, submit_review_action).
LockBelief ==
    \A g \in grants : /\ g.until > clock
                      /\ recs[g.variance].holder = g.user
                      /\ recs[g.variance].until = g.until

\* Two different commentaries of one variance never carry the same version
\* number, so the history endpoint cannot mistake one for the other: whatever
\* changes the content moves version_count up, and nothing moves it down.
VersionOrdersContent ==
    [][\A v \in Variances :
          \/ recs'[v].version > recs[v].version
          \/ /\ recs'[v].version = recs[v].version
             /\ Content(recs'[v]) = Content(recs[v])]_vars

\* The stage of a row in the abstract lifecycle.
StageOf(row) ==
    CASE row.status \in {"AI_DRAFT", "ESCALATED"} -> "waiting"
      [] row.status = "ANALYST_REVIEWED"          -> "reviewed"
      [] row.status = "APPROVED"                  -> "approved"
      [] OTHER                                    -> "set_aside"

\* The review that stands behind a row: its reviewer while the row is reviewed
\* or approved.  A reviewer left over on a draft counts for nothing.
StandingOf(row) ==
    IF row.status \in {"ANALYST_REVIEWED", "APPROVED"} THEN row.reviewer ELSE NoUser

Lifecycle == INSTANCE ReviewLifecycle WITH
    stage    <- [v \in Variances |-> StageOf(recs[v])],
    standing <- [v \in Variances |-> StandingOf(recs[v])]

\* The store implements the abstract lifecycle: approval only follows a
\* review, the reviewer it records is the one who made that review, and an
\* approved commentary moves again only when it is regenerated.
ImplementsLifecycle == Lifecycle!Spec

\* "Soft locking - 30-min edit lock prevents concurrent edits"
\* (PRODUCT_SPECIFICATION.md:272): while somebody holds a live lock only his
\* own call, which gives the lock up, changes the commentary.  The bulk
\* approval and the regeneration do not look at the lock.
LockPreventsEdits ==
    [][\A g \in grants :
          Content(recs'[g.variance]) # Content(recs[g.variance])
              => g \notin grants']_vars

\* "APPROVED: set()  # Terminal state" (review_store.py:31): an approved row
\* stays approved.  The regeneration endpoint does not keep to it.
ApprovedIsTerminal ==
    [][\A v \in Variances :
          recs[v].status = "APPROVED" => recs'[v].status = "APPROVED"]_vars
=============================================================================
