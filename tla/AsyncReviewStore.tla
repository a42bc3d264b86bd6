--------------------------- MODULE AsyncReviewStore ---------------------------
(***************************************************************************)
(* The dual write of shared/data/async_review_store.py: the review         *)
(* workflow over the in-memory store, PostgreSQL and the knowledge base.   *)
(* A call changes the memory at once, then awaits one transaction per      *)
(* variance and one embedding per approved commentary; other calls, errors *)
(* that are only logged, and a restart of the gateway fall in between.     *)
(***************************************************************************)
EXTENDS Naturals, Sequences

CONSTANTS
    Variances, Parents, Users, NoUser, Analyst, Director, Texts, NoText,
    RegenText, MaxVersion,   \* as in ReviewStore
    Calls,                   \* bound of the model: the calls in flight at once
    BulkLists,               \* the id lists a bulk approval may name
    AwareTimesStored,        \* whether the driver takes a time with a zone for a
                             \* DateTime column: aiosqlite does, asyncpg does not
    Absent                   \* no entry in the knowledge base

ASSUME AsyncConstantsOK ==
    /\ BulkLists \subseteq Seq(Variances) \ {<<>>}
    /\ AwareTimesStored \in BOOLEAN
    /\ Absent \notin Texts \cup {RegenText, NoText}
    /\ MaxVersion \in [Variances -> Nat]

VARIABLES
    recs,         \* memory: the table of ReviewStore
    db,           \* PostgreSQL: variance id -> row of review_status
    dbAvailable,  \* whether this process got a session factory at startup
    kb,           \* the in-memory vector store: variance id -> commentary
    calls,        \* the coroutines in flight
    everApproved, \* history: variances that were APPROVED in memory
    unearned,     \* history: ids a bulk call named but did not leave APPROVED
    loose         \* history: variances whose database row may differ from memory

vars == <<recs, db, dbAvailable, kb, calls, everApproved, unearned, loose>>

\* The memory of the store; no lock can be taken through AsyncReviewStore, so
\* the lock table stays empty and its clock does not matter.
Memory == INSTANCE ReviewStore WITH
              clock <- 0, grants <- {}, LockTicks <- 1, MaxClock <- 0

-----------------------------------------------------------------------------
(* Rows and calls in flight *)

Narratives == Texts \cup {RegenText, NoText}

NoRow    == [status |-> "none", text |-> NoText]
FreshRow == [status |-> "AI_DRAFT", text |-> NoText]
DbRows   == [status : Memory!Statuses, text : Narratives]

\* What the database should hold for a row of memory.
Stored(row) == [status |-> row.status, text |-> row.text]

\* persist: ids still to be written, publish: ids still to be embedded (the
\* head of each is the current one); status and text: what is to be written;
\* loaded: the row this session read; draft: the narrative being embedded.
CallStates == [stage   : {"idle", "load", "commit", "resume", "upsert"},
               persist : Seq(Variances),
               publish : Seq(Variances),
               status  : Memory!Statuses,
               text    : Narratives,
               loaded  : DbRows \cup {NoRow},
               draft   : Narratives]

Idle == [stage |-> "idle", persist |-> <<>>, publish |-> <<>>, status |-> "AI_DRAFT",
         text |-> NoText, loaded |-> NoRow, draft |-> NoText]

Elements(s) == {s[i] : i \in DOMAIN s}

\* The variances that wait for a database transaction of some call.
Persisting == UNION {Elements(calls[c].persist) : c \in Calls}

\* A wrong Publish: it embeds the id in place of the narrative.
Publish_Id(call, table) ==
    IF call.publish = <<>> THEN Idle
    ELSE [Idle EXCEPT !.stage = "upsert", !.publish = call.publish,
                      !.draft = Head(call.publish)]

\* The coroutine goes on to embed its next commentary, which it reads from
\* memory as it is now, or ends.
Publish(call, table) ==
    IF call.publish = <<>> THEN Idle
    ELSE [Idle EXCEPT !.stage = "upsert", !.publish = call.publish,
                      !.draft = table[Head(call.publish)].text]

\* The transaction of the current id is over, well or badly.
Persisted(call) ==
    IF Len(call.persist) > 1
    THEN [call EXCEPT !.stage = "load", !.persist = Tail(@), !.loaded = NoRow]
    ELSE [Idle EXCEPT !.stage = "resume", !.publish = call.publish]

\* A wrong Begin: the single call, too, persists a fixed status.
Begin_Approved(ids, published, status, text, table) ==
    LET call == [Idle EXCEPT !.publish = published, !.status = "APPROVED", !.text = text]
    IN  IF dbAvailable THEN [call EXCEPT !.stage = "load", !.persist = ids]
        ELSE Publish(call, table)

\* A wrong Begin: every action, not just the approval, feeds the knowledge base.
Begin_PublishAll(ids, published, status, text, table) ==
    LET call == [Idle EXCEPT !.publish = ids, !.status = status, !.text = text]
    IN  IF dbAvailable THEN [call EXCEPT !.stage = "load", !.persist = ids]
        ELSE Publish(call, table)

\* The call that follows the memory update, `table` being the memory after it.
\* Without a database the coroutine does not wait before it embeds.
Begin(ids, published, status, text, table) ==
    LET call == [Idle EXCEPT !.publish = published, !.status = status, !.text = text]
    IN  IF dbAvailable THEN [call EXCEPT !.stage = "load", !.persist = ids]
        ELSE Publish(call, table)

\* A wrong Merge: it forgets the edited narrative.
Merge_StatusOnly(row, call) == [row EXCEPT !.status = call.status]

\* The columns the ORM writes: those set to something else than was loaded.
Merge(row, call) ==
    [status |-> IF call.status # call.loaded.status THEN call.status ELSE row.status,
     text   |-> IF call.text # NoText /\ call.text # call.loaded.text
                THEN call.text ELSE row.text]

RecordApprovals ==
    everApproved' = everApproved \cup {v \in Variances : recs'[v].status = "APPROVED"}

-----------------------------------------------------------------------------
(* Calls *)

\* submit_review_action of AsyncReviewStore, up to its first await.
SubmitReviewAction(c, v, u, action, text) ==
    LET target == Memory!TargetStatus(action)
    IN  /\ calls[c] = Idle
        /\ Memory!SubmitReviewAction(v, u, action, text)
        /\ calls' = [calls EXCEPT ![c] =
               Begin(<<v>>, IF target = "APPROVED" THEN <<v>> ELSE <<>>,
                     target, text, recs')]
        /\ loose' = loose \cup ({v} \cap Persisting)
        /\ RecordApprovals
        /\ UNCHANGED <<db, dbAvailable, kb, unearned>>

\* submit_bulk_approval of AsyncReviewStore, up to its first await.  Memory
\* takes the ids that accept the action; the database and the knowledge base
\* get every id as approved, whatever the action was.
SubmitBulkApproval(c, ids, action) ==
    LET missed == {v \in Elements(ids) : recs'[v].status # "APPROVED"}
    IN  /\ calls[c] = Idle
        /\ CASE action = "approve" ->
                    Memory!SubmitBulkApproval(Elements(ids), "director_approve")
             [] action = "reject"  ->
                    Memory!SubmitBulkApproval(Elements(ids), "director_reject")
             [] OTHER -> UNCHANGED recs
        /\ calls' = [calls EXCEPT ![c] = Begin(ids, ids, "APPROVED", NoText, recs')]
        /\ unearned' = unearned \cup missed
        /\ loose' = loose \cup missed \cup (Elements(ids) \cap Persisting)
        /\ RecordApprovals
        /\ UNCHANGED <<db, dbAvailable, kb>>

\* The regeneration endpoint writes memory only.
RegenerateSummary(v) ==
    /\ Memory!RegenerateSummary(v)
    /\ loose' = loose \cup {v}
    /\ UNCHANGED <<db, dbAvailable, kb, calls, everApproved, unearned>>

-----------------------------------------------------------------------------
(* The awaits of a call *)

Current(c) == Head(calls[c].persist)

\* The session reads the row; a row that is not there is warned about.
LoadRow(c) ==
    /\ calls[c].stage = "load"
    /\ IF db[Current(c)] = NoRow
       THEN /\ calls' = [calls EXCEPT ![c] = Persisted(@)]
            /\ loose' = loose \cup {Current(c)}
       ELSE /\ calls' = [calls EXCEPT ![c].stage = "commit",
                                      ![c].loaded = db[Current(c)]]
            /\ UNCHANGED loose
    /\ UNCHANGED <<recs, db, dbAvailable, kb, everApproved, unearned>>

\* The commit; a review or an approval also writes its time, with a zone, to
\* reviewed_at or approved_at.
CommitRow(c) ==
    /\ calls[c].stage = "commit"
    /\ calls[c].status \in {"ANALYST_REVIEWED", "APPROVED"} => AwareTimesStored
    /\ db' = [db EXCEPT ![Current(c)] = Merge(@, calls[c])]
    /\ calls' = [calls EXCEPT ![c] = Persisted(@)]
    /\ UNCHANGED <<recs, dbAvailable, kb, everApproved, unearned, loose>>

\* Any error of the session, a refused commit among them, is logged; the call
\* goes on.
PersistFails(c) ==
    /\ calls[c].stage \in {"load", "commit"}
    /\ calls' = [calls EXCEPT ![c] = Persisted(@)]
    /\ loose' = loose \cup {Current(c)}
    /\ UNCHANGED <<recs, db, dbAvailable, kb, everApproved, unearned>>

\* The coroutine runs on after its last transaction.
Resume(c) ==
    /\ calls[c].stage = "resume"
    /\ calls' = [calls EXCEPT ![c] = Publish(@, recs)]
    /\ UNCHANGED <<recs, db, dbAvailable, kb, everApproved, unearned, loose>>

\* The embedding arrives, or fails; the coroutine reads the next commentary.
Upsert(c) ==
    /\ calls[c].stage = "upsert"
    /\ \/ kb' = [kb EXCEPT ![Head(calls[c].publish)] = calls[c].draft]
       \/ UNCHANGED kb
    /\ calls' = [calls EXCEPT ![c] = Publish([calls[c] EXCEPT !.publish = Tail(@)], recs)]
    /\ UNCHANGED <<recs, db, dbAvailable, everApproved, unearned, loose>>

-----------------------------------------------------------------------------
(* Startup *)

\* The lifespan of the gateway: memory comes from the parquet file, an empty
\* review_status table is filled from it, and nothing is read back.  Without a
\* database, or when seeding fails, the process goes on all the same.
Startup(available, seeded, oldDb, newDb) ==
    newDb = IF available /\ seeded /\ \A v \in Variances : oldDb[v] = NoRow
            THEN [v \in Variances |-> FreshRow]
            ELSE oldDb

LooseAtStart(available, rows) ==
    {v \in Variances : ~available \/ rows[v] # FreshRow}

Init ==
    /\ recs = [v \in Variances |-> Memory!FreshRow]
    /\ dbAvailable \in BOOLEAN
    /\ \E seeded \in BOOLEAN :
           Startup(dbAvailable, seeded, [v \in Variances |-> NoRow], db)
    /\ kb = [v \in Variances |-> Absent]
    /\ calls = [c \in Calls |-> Idle]
    /\ everApproved = {}
    /\ unearned = {}
    /\ loose = LooseAtStart(dbAvailable, db)

\* The gateway dies in any state and comes up again.
Restart ==
    /\ recs' = [v \in Variances |-> Memory!FreshRow]
    /\ dbAvailable' \in BOOLEAN
    /\ \E seeded \in BOOLEAN : Startup(dbAvailable', seeded, db, db')
    /\ kb' = [v \in Variances |-> Absent]
    /\ calls' = [c \in Calls |-> Idle]
    /\ loose' = LooseAtStart(dbAvailable', db')
    /\ UNCHANGED <<everApproved, unearned>>

BulkActions == {"approve", "reject", "unknown"}

Next ==
    \/ \E c \in Calls, v \in Variances, u \in Users, a \in Memory!Actions,
          t \in Texts \cup {NoText} : SubmitReviewAction(c, v, u, a, t)
    \/ \E c \in Calls, ids \in BulkLists, a \in BulkActions :
           SubmitBulkApproval(c, ids, a)
    \/ \E v \in Variances : RegenerateSummary(v)
    \/ \E c \in Calls : \/ LoadRow(c) \/ CommitRow(c) \/ PersistFails(c)
                        \/ Resume(c) \/ Upsert(c)
    \/ Restart

Spec == Init /\ [][Next]_vars

-----------------------------------------------------------------------------
(* Properties *)

\* The two stores, the knowledge base and the calls keep their shapes.
TypeOK ==
    /\ recs \in [Variances -> Memory!Rows]
    /\ db \in [Variances -> DbRows \cup {NoRow}]
    /\ dbAvailable \in BOOLEAN
    /\ kb \in [Variances -> Narratives \cup {Absent}]
    /\ calls \in [Calls -> CallStates]
    /\ everApproved \subseteq Variances
    /\ unearned \subseteq Variances
    /\ loose \subseteq Variances

\* Exactly these break the dual write: an error of the session, a missing row,
\* a second call on the variance before the first one's transaction, a bulk
\* call that does not leave it approved, a regeneration, and a restart.  A
\* variance none of them touched has the status and the narrative of memory in
\* the database once no transaction on it is outstanding.
DbFollowsMemory ==
    \A v \in Variances \ (loose \cup Persisting) : db[v] = Stored(recs[v])

\* A database row says APPROVED only when memory once did, or when a bulk call
\* named the variance in vain: no late, repeated or failed transaction of a
\* single review makes an approval up.
DbApprovalExplained ==
    \A v \in Variances :
        db[v].status = "APPROVED" => v \in everApproved \cup unearned

\* The knowledge base that feeds later narratives holds a commentary only of a
\* variance that was approved, or that a bulk call named in vain.
KbEntryExplained ==
    \A v \in Variances : kb[v] # Absent => v \in everApproved \cup unearned

\* "Persist each approval" (async_review_store.py:128): what the bulk call
\* persists as APPROVED was approved.
DbApprovalEarned ==
    \A v \in Variances : db[v].status = "APPROVED" => v \in everApproved
===============================================================================
