-------------------------- MODULE ReviewStoreProofs --------------------------
(***************************************************************************)
(* Theorems about ReviewStore, for any number of variances, users, texts   *)
(* and any lock life.                                                      *)
(***************************************************************************)
EXTENDS ReviewStore, TLAPS

-----------------------------------------------------------------------------
(* The operators on rows *)

\* Every action leads to a status of the table.
LEMMA TargetIsStatus ==
    ASSUME NEW a \in Actions
    PROVE  TargetStatus(a) \in Statuses
  BY DEF Actions, TargetStatus, Statuses

\* An accepted action turns a row into a row with the next version.
LEMMA ActedIsRow ==
    ASSUME NEW row \in Rows, NEW a \in Actions,
           NEW t \in Texts \cup {NoText}, NEW u \in Callers
    PROVE  /\ Acted(row, a, t, u) \in Rows
           /\ Acted(row, a, t, u).version = row.version + 1
  <1>1. TargetStatus(a) \in Statuses
    BY TargetIsStatus
  <1>2. 0 \in 0..(MaxClock + LockTicks)
    BY ConstantsOK
  <1> QED
    BY <1>1, <1>2 DEF Acted, Rows, Callers

\* A regeneration turns a row into a row with the next version.
LEMMA RegeneratedIsRow ==
    ASSUME NEW row \in Rows
    PROVE  /\ Regenerated(row) \in Rows
           /\ Regenerated(row).version = row.version + 1
  <1>1. row.version + 1 \in Nat
    BY DEF Rows
  <1> QED
    BY <1>1 DEF Regenerated, Rows, Statuses

\* Nobody starts with a lock, and the fresh row is a row.
LEMMA FreshRowIsRow == FreshRow \in Rows
  <1>1. 0 \in 0..(MaxClock + LockTicks)
    BY ConstantsOK
  <1> QED
    BY <1>1 DEF FreshRow, Rows, Statuses, Callers

-----------------------------------------------------------------------------
(* Type correctness *)

\* The review table keeps its shape under every call: no action writes a status,
\* a signature or a lock the columns do not know.
THEOREM TypeCorrect == Spec => []TypeOK
  <1>1. Init => TypeOK
    BY FreshRowIsRow, ConstantsOK DEF Init, TypeOK, Grants
  <1>2. TypeOK /\ [Next]_vars => TypeOK'
    <2> SUFFICES ASSUME TypeOK, [Next]_vars
                 PROVE  TypeOK'
      OBVIOUS
    <2> USE DEF TypeOK
    <2>1. CASE Tick
      <3>1. clock' \in 0..MaxClock
        BY <2>1, ConstantsOK DEF Tick
      <3> QED
        BY <2>1, <3>1 DEF Tick
    <2>2. ASSUME NEW v \in Variances, NEW u \in Users, AcquireLock(v, u)
          PROVE  TypeOK'
      <3>1. clock + LockTicks \in 0..(MaxClock + LockTicks)
        BY ConstantsOK
      <3>2. recs' \in [Variances -> Rows]
        BY <2>2, <3>1 DEF AcquireLock, Rows, Callers
      <3>3. grants' \subseteq Grants
        BY <2>2, <3>1 DEF AcquireLock, Grants
      <3> QED
        BY <2>2, <3>2, <3>3 DEF AcquireLock
    <2>3. ASSUME NEW v \in Variances, NEW u \in Users, ReleaseLock(v, u)
          PROVE  TypeOK'
      <3>1. 0 \in 0..(MaxClock + LockTicks)
        BY ConstantsOK
      <3>2. recs' \in [Variances -> Rows]
        BY <2>3, <3>1 DEF ReleaseLock, Rows, Callers
      <3> QED
        BY <2>3, <3>2 DEF ReleaseLock
    <2>4. ASSUME NEW v \in Variances, NEW u \in Users, NEW a \in Actions,
                 NEW t \in Texts \cup {NoText}, SubmitReviewAction(v, u, a, t)
          PROVE  TypeOK'
      <3>1. Acted(recs[v], a, t, u) \in Rows
        BY ActedIsRow DEF Callers
      <3> QED
        BY <2>4, <3>1 DEF SubmitReviewAction
    <2>5. ASSUME NEW ids \in SUBSET Variances, NEW a \in BulkActions,
                 SubmitBulkApproval(ids, a)
          PROVE  TypeOK'
      <3>1. ASSUME NEW v \in Variances
            PROVE  Acted(recs[v], a, NoText, NoUser) \in Rows
        BY ActedIsRow DEF Callers, BulkActions, Actions
      <3> QED
        BY <2>5, <3>1 DEF SubmitBulkApproval
    <2>6. ASSUME NEW v \in Variances, RegenerateSummary(v)
          PROVE  TypeOK'
      <3>1. Regenerated(recs[v]) \in Rows
        BY RegeneratedIsRow
      <3> QED
        BY <2>6, <3>1 DEF RegenerateSummary
    <2>7. CASE UNCHANGED vars
      BY <2>7 DEF vars
    <2> QED
      BY <2>1, <2>2, <2>3, <2>4, <2>5, <2>6, <2>7 DEF Next
  <1> QED
    BY <1>1, <1>2, PTL DEF Spec

-----------------------------------------------------------------------------
(* Locks *)

\* No user but the holder passes the lock test while a grant is live.
LEMMA GrantBars ==
    ASSUME TypeOK, LockBelief, NEW g \in grants, NEW u \in Users,
           ~LockedAgainst(recs[g.variance], u)
    PROVE  g.user = u
  <1>1. g.until > clock /\ recs[g.variance].holder = g.user
            /\ recs[g.variance].until = g.until
    BY DEF LockBelief
  <1>2. g.user \in Users
    BY DEF TypeOK, Grants
  <1> QED
    BY <1>1, <1>2, ConstantsOK DEF LockedAgainst

\* Whoever was told that he holds a lock that has not run out holds it: no
\* interleaving of lock calls, reviews, bulk approvals and regenerations takes
\* it away or grants it twice.
THEOREM LockBeliefHolds == Spec => []LockBelief
  <1>1. Init => LockBelief
    BY DEF Init, LockBelief
  <1>2. TypeOK /\ LockBelief /\ [Next]_vars => LockBelief'
    <2> SUFFICES ASSUME TypeOK, LockBelief, [Next]_vars
                 PROVE  LockBelief'
      OBVIOUS
    <2>1. CASE Tick
      BY <2>1 DEF Tick, LockBelief
    <2>2. ASSUME NEW v \in Variances, NEW u \in Users, AcquireLock(v, u)
          PROVE  LockBelief'
      <3> SUFFICES ASSUME NEW g \in grants'
                   PROVE  /\ g.until > clock'
                          /\ recs'[g.variance].holder = g.user
                          /\ recs'[g.variance].until = g.until
        BY DEF LockBelief
      <3>1. recs \in [Variances -> Rows] /\ recs[v] \in Rows
        BY DEF TypeOK
      <3>2. CASE g = [variance |-> v, user |-> u, until |-> clock + LockTicks]
        <4>1. clock + LockTicks > clock
          BY ConstantsOK DEF TypeOK
        <4>2. recs'[v].holder = u /\ recs'[v].until = clock + LockTicks
          BY <2>2, <3>1 DEF AcquireLock, Rows
        <4> QED
          BY <2>2, <3>2, <4>1, <4>2 DEF AcquireLock
      <3>3. CASE g \in grants /\ (g.variance # v \/ g.user # u)
        <4>1. g.variance # v
          BY <2>2, <3>3, GrantBars DEF AcquireLock
        <4>2. recs'[g.variance] = recs[g.variance] /\ clock' = clock
          BY <2>2, <3>1, <3>3, <4>1 DEF AcquireLock, TypeOK, Grants
        <4> QED
          BY <3>3, <4>2 DEF LockBelief
      <3> QED
        BY <2>2, <3>2, <3>3 DEF AcquireLock
    <2>3. ASSUME NEW v \in Variances, NEW u \in Users, ReleaseLock(v, u)
          PROVE  LockBelief'
      <3> SUFFICES ASSUME NEW g \in grants'
                   PROVE  /\ g.until > clock'
                          /\ recs'[g.variance].holder = g.user
                          /\ recs'[g.variance].until = g.until
        BY DEF LockBelief
      <3>1. g \in grants /\ (g.variance # v \/ g.user # u) /\ clock' = clock
        BY <2>3 DEF ReleaseLock
      <3>2. g.user \in Users /\ g.variance \in Variances
        BY <3>1 DEF TypeOK, Grants
      <3>3. g.variance # v
        BY <2>3, <3>1, <3>2, ConstantsOK DEF ReleaseLock, LockBelief
      <3>4. recs'[g.variance] = recs[g.variance]
        BY <2>3, <3>2, <3>3 DEF ReleaseLock, TypeOK
      <3> QED
        BY <3>1, <3>4 DEF LockBelief
    <2>4. ASSUME NEW v \in Variances, NEW u \in Users, NEW a \in Actions,
                 NEW t \in Texts \cup {NoText}, SubmitReviewAction(v, u, a, t)
          PROVE  LockBelief'
      <3> SUFFICES ASSUME NEW g \in grants'
                   PROVE  /\ g.until > clock'
                          /\ recs'[g.variance].holder = g.user
                          /\ recs'[g.variance].until = g.until
        BY DEF LockBelief
      <3>1. g \in grants /\ (g.variance # v \/ g.user # u) /\ clock' = clock
        BY <2>4 DEF SubmitReviewAction
      <3>2. g.variance # v
        BY <2>4, <3>1, GrantBars DEF SubmitReviewAction
      <3>3. recs'[g.variance] = recs[g.variance]
        BY <2>4, <3>1, <3>2 DEF SubmitReviewAction, TypeOK, Grants
      <3> QED
        BY <3>1, <3>3 DEF LockBelief
    <2>5. ASSUME NEW ids \in SUBSET Variances, NEW a \in BulkActions,
                 SubmitBulkApproval(ids, a)
          PROVE  LockBelief'
      <3>1. ASSUME NEW v \in Variances
            PROVE  recs'[v].holder = recs[v].holder /\ recs'[v].until = recs[v].until
        BY <2>5 DEF SubmitBulkApproval, Acted
      <3> QED
        BY <2>5, <3>1 DEF SubmitBulkApproval, LockBelief, TypeOK, Grants
    <2>6. ASSUME NEW w \in Variances, RegenerateSummary(w)
          PROVE  LockBelief'
      <3>1. ASSUME NEW v \in Variances
            PROVE  recs'[v].holder = recs[v].holder /\ recs'[v].until = recs[v].until
        BY <2>6 DEF RegenerateSummary, Regenerated, TypeOK
      <3> QED
        BY <2>6, <3>1 DEF RegenerateSummary, LockBelief, TypeOK, Grants
    <2>7. CASE UNCHANGED vars
      BY <2>7 DEF vars, LockBelief
    <2> QED
      BY <2>1, <2>2, <2>3, <2>4, <2>5, <2>6, <2>7 DEF Next
  <1> QED
    BY <1>1, <1>2, TypeCorrect, PTL DEF Spec

-----------------------------------------------------------------------------
(* Versions *)

\* A version number never goes back and never stands for two commentaries.
THEOREM VersionsOrderContent == Spec => VersionOrdersContent
  <1> DEFINE Ordered ==
        \A v \in Variances :
            \/ recs'[v].version > recs[v].version
            \/ /\ recs'[v].version = recs[v].version
               /\ Content(recs'[v]) = Content(recs[v])
  <1>1. TypeOK /\ [Next]_vars => [Ordered]_vars
    <2> SUFFICES ASSUME TypeOK, Next, NEW v \in Variances
                 PROVE  \/ recs'[v].version > recs[v].version
                        \/ /\ recs'[v].version = recs[v].version
                           /\ Content(recs'[v]) = Content(recs[v])
      BY DEF Ordered
    <2>1. recs \in [Variances -> Rows] /\ recs[v] \in Rows /\ recs[v].version \in Nat
      BY DEF TypeOK, Rows
    <2>2. CASE Tick
      BY <2>2 DEF Tick
    <2>3. ASSUME NEW w \in Variances, NEW u \in Users,
                 AcquireLock(w, u) \/ ReleaseLock(w, u)
          PROVE  /\ recs'[v].version = recs[v].version
                 /\ Content(recs'[v]) = Content(recs[v])
      BY <2>1, <2>3 DEF AcquireLock, ReleaseLock, Content, Rows
    <2>4. ASSUME NEW w \in Variances, NEW u \in Users, NEW a \in Actions,
                 NEW t \in Texts \cup {NoText}, SubmitReviewAction(w, u, a, t)
          PROVE  recs'[v].version > recs[v].version \/ recs'[v] = recs[v]
      <3>1. Acted(recs[w], a, t, u).version = recs[w].version + 1
        BY ActedIsRow DEF TypeOK, Callers
      <3> QED
        BY <2>1, <2>4, <3>1 DEF SubmitReviewAction
    <2>5. ASSUME NEW ids \in SUBSET Variances, NEW a \in BulkActions,
                 SubmitBulkApproval(ids, a)
          PROVE  recs'[v].version > recs[v].version \/ recs'[v] = recs[v]
      <3>1. Acted(recs[v], a, NoText, NoUser).version = recs[v].version + 1
        BY ActedIsRow, <2>1 DEF Callers, BulkActions, Actions
      <3> QED
        BY <2>1, <2>5, <3>1 DEF SubmitBulkApproval
    <2>6. ASSUME NEW w \in Variances, RegenerateSummary(w)
          PROVE  recs'[v].version > recs[v].version \/ recs'[v] = recs[v]
      <3>1. Regenerated(recs[w]).version = recs[w].version + 1
        BY RegeneratedIsRow DEF TypeOK
      <3> QED
        BY <2>1, <2>6, <3>1 DEF RegenerateSummary
    <2> QED
      BY <2>2, <2>3, <2>4, <2>5, <2>6 DEF Next, Tick
  <1>2. VersionOrdersContent <=> [][Ordered]_vars
    BY DEF VersionOrdersContent, Ordered
  <1> QED
    BY <1>1, <1>2, TypeCorrect, PTL DEF Spec

-----------------------------------------------------------------------------
(* Refinement *)

\* One accepted call on a row, seen from the abstract lifecycle.
LEMMA ActedStage ==
    ASSUME NEW row \in Rows, NEW a \in Actions, NEW t \in Texts \cup {NoText},
           NEW u \in Callers, Accepts(row, a)
    PROVE  LET new == Acted(row, a, t, u)
           IN  /\ a \in {"approve", "edit"} /\ u # NoUser =>
                      /\ StageOf(row) = "waiting" /\ StageOf(new) = "reviewed"
                      /\ StandingOf(new) = u
               /\ a = "director_approve" =>
                      /\ StageOf(row) = "reviewed" /\ StageOf(new) = "approved"
                      /\ StandingOf(new) = StandingOf(row)
               /\ a = "director_reject" =>
                      /\ StageOf(row) \in {"reviewed", "set_aside"}
                      /\ StageOf(new) = "waiting" /\ StandingOf(new) = NoUser
               /\ a = "escalate" =>
                      /\ StageOf(row) \in {"waiting", "reviewed"}
                      /\ StageOf(row) = "waiting" => StandingOf(row) = NoUser
                      /\ StageOf(new) = "waiting" /\ StandingOf(new) = NoUser
               /\ a = "dismiss" =>
                      /\ StageOf(row) = "waiting" /\ StageOf(new) = "set_aside"
                      /\ StandingOf(new) = StandingOf(row)
  <1> DEFINE target == TargetStatus(a)
             new == Acted(row, a, t, u)
  <1>1. new.status = target
    BY DEF Acted
  <1>2. new.reviewer = IF target # "ANALYST_REVIEWED" THEN row.reviewer
                       ELSE IF u = NoUser THEN Analyst ELSE u
    BY DEF Acted
  <1>3. <<row.status, target>> \in ValidTransitions
    BY DEF Accepts
  <1> HIDE DEF new, target
  <1>4. CASE a \in {"approve", "edit"}
    <2>1. target = "ANALYST_REVIEWED"
      BY <1>4 DEF target, TargetStatus
    <2> QED
      BY <1>1, <1>2, <1>3, <1>4, <2>1 DEF new, ValidTransitions, StageOf, StandingOf
  <1>5. CASE a = "director_approve"
    <2>1. target = "APPROVED"
      BY <1>5 DEF target, TargetStatus
    <2> QED
      BY <1>1, <1>2, <1>3, <1>5, <2>1 DEF new, ValidTransitions, StageOf, StandingOf
  <1>6. CASE a = "director_reject"
    <2>1. target = "AI_DRAFT"
      BY <1>6 DEF target, TargetStatus
    <2> QED
      BY <1>1, <1>2, <1>3, <1>6, <2>1 DEF new, ValidTransitions, StageOf, StandingOf
  <1>7. CASE a = "escalate"
    <2>1. target = "ESCALATED"
      BY <1>7 DEF target, TargetStatus
    <2> QED
      BY <1>1, <1>2, <1>3, <1>7, <2>1 DEF new, ValidTransitions, StageOf, StandingOf
  <1>8. CASE a = "dismiss"
    <2>1. target = "DISMISSED"
      BY <1>8 DEF target, TargetStatus
    <2> QED
      BY <1>1, <1>2, <1>3, <1>8, <2>1 DEF new, ValidTransitions, StageOf, StandingOf
  <1> QED
    BY <1>4, <1>5, <1>6, <1>7, <1>8 DEF Actions

\* The store implements the abstract lifecycle.
THEOREM StoreImplementsLifecycle == Spec => ImplementsLifecycle
  <1> DEFINE Stage == [v \in Variances |-> StageOf(recs[v])]
             Standing == [v \in Variances |-> StandingOf(recs[v])]
  <1>1. Init => Lifecycle!Init
    BY DEF Init, Lifecycle!Init, FreshRow, StageOf, StandingOf
  <1>2. TypeOK /\ [Next]_vars => [Lifecycle!Next]_Lifecycle!vars
    <2> SUFFICES ASSUME TypeOK, [Next]_vars
                 PROVE  Lifecycle!Next \/ (Stage' = Stage /\ Standing' = Standing)
      BY DEF Lifecycle!vars
    <2>a. recs \in [Variances -> Rows]
      BY DEF TypeOK
    <2>1. CASE Tick
      BY <2>1 DEF Tick
    <2>2. ASSUME NEW w \in Variances, NEW u \in Users,
                 AcquireLock(w, u) \/ ReleaseLock(w, u)
          PROVE  Stage' = Stage /\ Standing' = Standing
      <3>1. ASSUME NEW v \in Variances
            PROVE  recs'[v].status = recs[v].status /\ recs'[v].reviewer = recs[v].reviewer
        BY <2>2, <2>a DEF AcquireLock, ReleaseLock, Rows
      <3>2. ASSUME NEW v \in Variances
            PROVE  /\ StageOf(recs'[v]) = StageOf(recs[v])
                   /\ StandingOf(recs'[v]) = StandingOf(recs[v])
        BY <3>1 DEF StageOf, StandingOf
      <3> QED
        BY <3>2
    <2>3. ASSUME NEW w \in Variances, NEW u \in Users, NEW a \in Actions,
                 NEW t \in Texts \cup {NoText}, SubmitReviewAction(w, u, a, t)
          PROVE  Lifecycle!Next \/ (Stage' = Stage /\ Standing' = Standing)
      <3> DEFINE new == Acted(recs[w], a, t, u)
      <3>1. recs' = [recs EXCEPT ![w] = new] /\ Accepts(recs[w], a)
        BY <2>3 DEF SubmitReviewAction
      <3>2. /\ Stage' = [Stage EXCEPT ![w] = StageOf(new)]
            /\ Standing' = [Standing EXCEPT ![w] = StandingOf(new)]
        BY <2>a, <3>1
      <3>3. u \in Callers /\ u # NoUser /\ recs[w] \in Rows
        BY <2>a, ConstantsOK DEF Callers
      <3> HIDE DEF new
      <3>4. CASE a \in {"approve", "edit"}
        <4>1. StageOf(recs[w]) = "waiting" /\ StageOf(new) = "reviewed" /\ StandingOf(new) = u
          BY <3>1, <3>3, <3>4, ActedStage DEF new
        <4>2. Lifecycle!Review(w, u)
          BY <3>2, <4>1 DEF Lifecycle!Review
        <4> QED
          BY <4>2 DEF Lifecycle!Next
      <3>5. CASE a = "director_approve"
        <4>1. /\ StageOf(recs[w]) = "reviewed" /\ StageOf(new) = "approved"
              /\ StandingOf(new) = StandingOf(recs[w])
          BY <3>1, <3>3, <3>5, ActedStage DEF new
        <4>2. Lifecycle!Approve({w})
          BY <3>2, <4>1 DEF Lifecycle!Approve
        <4> QED
          BY <4>2 DEF Lifecycle!Next
      <3>6. CASE \/ a = "director_reject"
                 \/ a = "escalate" /\ StageOf(recs[w]) = "reviewed"
        <4>1. /\ StageOf(recs[w]) \in {"reviewed", "set_aside"}
              /\ StageOf(new) = "waiting" /\ StandingOf(new) = NoUser
          BY <3>1, <3>3, <3>6, ActedStage DEF new
        <4>2. Lifecycle!SendBack({w})
          BY <3>2, <4>1 DEF Lifecycle!SendBack
        <4> QED
          BY <4>2 DEF Lifecycle!Next
      <3>7. CASE a = "escalate" /\ StageOf(recs[w]) # "reviewed"
        <4>1. /\ StageOf(recs[w]) = "waiting" /\ StandingOf(recs[w]) = NoUser
              /\ StageOf(new) = "waiting" /\ StandingOf(new) = NoUser
          BY <3>1, <3>3, <3>7, ActedStage DEF new
        <4> QED
          BY <3>2, <4>1
      <3>8. CASE a = "dismiss"
        <4>1. /\ StageOf(recs[w]) = "waiting" /\ StageOf(new) = "set_aside"
              /\ StandingOf(new) = StandingOf(recs[w])
          BY <3>1, <3>3, <3>8, ActedStage DEF new
        <4>2. Lifecycle!SetAside(w)
          BY <3>2, <4>1 DEF Lifecycle!SetAside
        <4> QED
          BY <4>2 DEF Lifecycle!Next
      <3> QED
        BY <3>4, <3>5, <3>6, <3>7, <3>8 DEF Actions
    <2>4. ASSUME NEW ids \in SUBSET Variances, NEW a \in BulkActions,
                 SubmitBulkApproval(ids, a)
          PROVE  Lifecycle!Next
      <3> DEFINE S == {v \in ids : Accepts(recs[v], a)}
      <3>1. /\ Stage' = [v \in Variances |->
                    IF v \in S THEN StageOf(Acted(recs[v], a, NoText, NoUser))
                    ELSE Stage[v]]
            /\ Standing' = [v \in Variances |->
                    IF v \in S THEN StandingOf(Acted(recs[v], a, NoText, NoUser))
                    ELSE Standing[v]]
        BY <2>4 DEF SubmitBulkApproval
      <3>2. S \in SUBSET Variances
        OBVIOUS
      <3>3. CASE a = "director_approve"
        <4>1. ASSUME NEW v \in S
              PROVE  LET new == Acted(recs[v], a, NoText, NoUser)
                     IN  /\ StageOf(recs[v]) = "reviewed" /\ StageOf(new) = "approved"
                         /\ StandingOf(new) = StandingOf(recs[v])
          BY <2>a, <3>3, ActedStage DEF Callers, Actions
        <4>2. Lifecycle!Approve(S)
          BY <3>1, <4>1 DEF Lifecycle!Approve
        <4> QED
          BY <3>2, <4>2 DEF Lifecycle!Next
      <3>4. CASE a = "director_reject"
        <4>1. ASSUME NEW v \in S
              PROVE  LET new == Acted(recs[v], a, NoText, NoUser)
                     IN  /\ StageOf(recs[v]) \in {"reviewed", "set_aside"}
                         /\ StageOf(new) = "waiting" /\ StandingOf(new) = NoUser
          BY <2>a, <3>4, ActedStage DEF Callers, Actions
        <4>2. Lifecycle!SendBack(S)
          BY <3>1, <4>1 DEF Lifecycle!SendBack
        <4> QED
          BY <3>2, <4>2 DEF Lifecycle!Next
      <3> QED
        BY <3>3, <3>4 DEF BulkActions
    <2>5. ASSUME NEW w \in Variances, RegenerateSummary(w)
          PROVE  Lifecycle!Next
      <3>1. StageOf(Regenerated(recs[w])) = "waiting" /\ StandingOf(Regenerated(recs[w])) = NoUser
        BY DEF Regenerated, StageOf, StandingOf
      <3>2. Lifecycle!StartOver(w)
        BY <2>5, <2>a, <3>1 DEF RegenerateSummary, Lifecycle!StartOver
      <3> QED
        BY <3>2 DEF Lifecycle!Next
    <2>6. CASE UNCHANGED vars
      BY <2>6 DEF vars
    <2> QED
      BY <2>1, <2>2, <2>3, <2>4, <2>5, <2>6 DEF Next
  <1> QED
    BY <1>1, <1>2, TypeCorrect, PTL DEF Spec, ImplementsLifecycle, Lifecycle!Spec
=============================================================================
