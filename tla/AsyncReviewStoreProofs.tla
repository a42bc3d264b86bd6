----------------------- MODULE AsyncReviewStoreProofs -----------------------
(***************************************************************************)
(* Theorems about AsyncReviewStore, for any variances, users and texts,    *)
(* any number of calls in flight and any bulk lists, with a driver that    *)
(* stores times with a zone or one that refuses them.                      *)
(***************************************************************************)
EXTENDS AsyncReviewStore, SequenceTheorems, TLAPS

-----------------------------------------------------------------------------
(* Lists of ids *)

\* The ids of a list that is not empty: the first, and those of the rest.
LEMMA ElementsOfTail ==
    ASSUME NEW S, NEW s \in Seq(S), s # <<>>
    PROVE  /\ Head(s) \in S /\ Tail(s) \in Seq(S)
           /\ Head(s) \in Elements(s)
           /\ Elements(Tail(s)) \subseteq Elements(s)
           /\ Elements(s) = {Head(s)} \cup Elements(Tail(s))
           /\ Len(s) \in Nat /\ (~(Len(s) > 1) => Tail(s) = <<>>)
           /\ (Len(s) > 1 => Tail(s) # <<>>)
  <1>1. /\ Head(s) \in S /\ Tail(s) \in Seq(S)
        /\ Len(s) \in Nat /\ Len(s) > 0 /\ Len(Tail(s)) = Len(s) - 1
        /\ Head(s) = s[1]
        /\ \A i \in 1..Len(Tail(s)) : Tail(s)[i] = s[i + 1]
        /\ DOMAIN s = 1..Len(s) /\ DOMAIN Tail(s) = 1..Len(Tail(s))
    BY HeadTailProperties, LenProperties, EmptySeq
  <1>2. Head(s) \in Elements(s) /\ Elements(Tail(s)) \subseteq Elements(s)
    BY <1>1 DEF Elements
  <1>3. Elements(s) \subseteq {Head(s)} \cup Elements(Tail(s))
    <2> SUFFICES ASSUME NEW x \in Elements(s), x # Head(s)
                 PROVE  x \in Elements(Tail(s))
      OBVIOUS
    <2>1. PICK i \in 1..Len(s) : x = s[i]
      BY <1>1 DEF Elements
    <2>2. i - 1 \in 1..Len(Tail(s)) /\ Tail(s)[i - 1] = s[(i - 1) + 1] /\ (i - 1) + 1 = i
      BY <1>1, <2>1
    <2> QED
      BY <1>1, <2>1, <2>2 DEF Elements
  <1> QED
    BY <1>1, <1>2, <1>3, EmptySeq

\* A list of one id.
LEMMA ElementsOfOne ==
    ASSUME NEW S, NEW e \in S
    PROVE  <<e>> \in Seq(S) /\ Elements(<<e>>) = {e} /\ <<e>> # <<>>
  BY DEF Elements

\* The empty list.
LEMMA ElementsOfNone ==
    ASSUME NEW S
    PROVE  <<>> \in Seq(S) /\ Elements(<<>>) = {}
  BY EmptySeq DEF Elements

\* The elements of a sequence over S are in S.
LEMMA ElementsInS ==
    ASSUME NEW S, NEW s \in Seq(S)
    PROVE  Elements(s) \subseteq S
  BY LenProperties, ElementOfSeq DEF Elements
-----------------------------------------------------------------------------
(* The inductive invariant *)

\* A call has ids to write just while it is in a transaction, has a commentary
\* to embed while it waits for one, and a row it is about to write is there: no
\* row is ever deleted, and a restart ends all calls.
CallsInOrder ==
    \A c \in Calls :
        /\ calls[c].stage \in {"load", "commit"} <=> calls[c].persist # <<>>
        /\ calls[c].stage = "upsert" => calls[c].publish # <<>>
        /\ calls[c].stage = "commit" =>
               calls[c].loaded \in DbRows /\ db[Head(calls[c].persist)] \in DbRows

TypeInv == TypeOK /\ CallsInOrder

Explained == everApproved \cup unearned

\* What a call is still going to write as approved, or to embed, is explained.
ApprovalInv ==
    /\ DbApprovalExplained
    /\ KbEntryExplained
    /\ \A c \in Calls :
           /\ calls[c].status = "APPROVED" => Elements(calls[c].persist) \subseteq Explained
           /\ Elements(calls[c].publish) \subseteq Explained

\* A variance that is not loose waits for one call only, and that call is going
\* to write what memory holds on top of the row the database holds.
PendingWrite(c, v) ==
    /\ \A d \in Calls : v \in Elements(calls[d].persist) => d = c
    /\ recs[v].status = calls[c].status
    /\ recs[v].text = IF calls[c].text = NoText THEN db[v].text ELSE calls[c].text
    /\ calls[c].stage = "commit" /\ v = Head(calls[c].persist) => calls[c].loaded = db[v]

SyncInv ==
    /\ DbFollowsMemory
    /\ ~dbAvailable => loose = Variances
    /\ \A c \in Calls : \A v \in Elements(calls[c].persist) \ loose : PendingWrite(c, v)

-----------------------------------------------------------------------------
(* The pieces of a call *)

\* A fresh row and an idle call have their types, and neither a missing row nor a
\* missing entry can be mistaken for one that is there.
LEMMA RowShapes ==
    /\ Memory!FreshRow \in Memory!Rows
    /\ FreshRow \in DbRows /\ Stored(Memory!FreshRow) = FreshRow
    /\ NoRow \notin DbRows
    /\ Idle \in CallStates
    /\ Absent \notin Narratives
    /\ \A row \in Memory!Rows : Stored(row) \in DbRows
  <1>1. Memory!FreshRow \in Memory!Rows
    BY DEF Memory!FreshRow, Memory!Rows, Memory!Statuses, Memory!Callers
  <1>2. FreshRow \in DbRows /\ Stored(Memory!FreshRow) = FreshRow
    BY DEF FreshRow, DbRows, Stored, Memory!FreshRow, Memory!Statuses, Narratives
  <1>3. NoRow \notin DbRows
    BY DEF NoRow, DbRows, Memory!Statuses
  <1>4. Idle \in CallStates
    BY ElementsOfNone DEF Idle, CallStates, Memory!Statuses, Narratives
  <1>5. \A row \in Memory!Rows : Stored(row) \in DbRows
    BY DEF Stored, DbRows, Memory!Rows, Narratives
  <1> QED
    BY <1>1, <1>2, <1>3, <1>4, <1>5, AsyncConstantsOK DEF Narratives

\* What a single review does to memory.
LEMMA MemoryReviews ==
    ASSUME recs \in [Variances -> Memory!Rows], NEW v \in Variances, NEW u \in Users,
           NEW a \in Memory!Actions, NEW t \in Texts \cup {NoText},
           Memory!SubmitReviewAction(v, u, a, t)
    PROVE  /\ recs' \in [Variances -> Memory!Rows]
           /\ Memory!TargetStatus(a) \in Memory!Statuses
           /\ recs'[v].status = Memory!TargetStatus(a)
           /\ recs'[v].text = IF t = NoText THEN recs[v].text ELSE t
           /\ \A w \in Variances \ {v} : recs'[w] = recs[w]
  <1>1. Memory!TargetStatus(a) \in Memory!Statuses
    BY DEF Memory!Actions, Memory!TargetStatus, Memory!Statuses
  <1>2. recs' = [recs EXCEPT ![v] = Memory!Acted(recs[v], a, t, u)]
    BY DEF Memory!SubmitReviewAction
  <1>3. /\ Memory!Acted(recs[v], a, t, u) \in Memory!Rows
        /\ Memory!Acted(recs[v], a, t, u).status = Memory!TargetStatus(a)
        /\ Memory!Acted(recs[v], a, t, u).text = IF t = NoText THEN recs[v].text ELSE t
    BY <1>1 DEF Memory!Acted, Memory!Rows, Memory!Callers
  <1> QED
    BY <1>1, <1>2, <1>3

\* What a bulk call does to memory: no text changes.
LEMMA MemoryApproves ==
    ASSUME recs \in [Variances -> Memory!Rows], NEW ids \in SUBSET Variances,
           NEW a \in {"director_approve", "director_reject"},
           Memory!SubmitBulkApproval(ids, a)
    PROVE  /\ recs' \in [Variances -> Memory!Rows]
           /\ \A w \in Variances : recs'[w].text = recs[w].text
           /\ \A w \in Variances \ ids : recs'[w] = recs[w]
  <1>1. recs' = [w \in Variances |->
                    IF w \in ids /\ Memory!Accepts(recs[w], a)
                    THEN Memory!Acted(recs[w], a, NoText, NoUser)
                    ELSE recs[w]]
    BY DEF Memory!SubmitBulkApproval
  <1>2. Memory!TargetStatus(a) \in Memory!Statuses
    BY DEF Memory!TargetStatus, Memory!Statuses
  <1>3. ASSUME NEW w \in Variances
        PROVE  /\ Memory!Acted(recs[w], a, NoText, NoUser) \in Memory!Rows
               /\ Memory!Acted(recs[w], a, NoText, NoUser).text = recs[w].text
    BY <1>2 DEF Memory!Acted, Memory!Rows, Memory!Callers
  <1> QED
    BY <1>1, <1>3

\* What a regeneration does to memory.
LEMMA MemoryRegenerates ==
    ASSUME recs \in [Variances -> Memory!Rows], NEW v \in Variances,
           Memory!RegenerateSummary(v)
    PROVE  /\ recs' \in [Variances -> Memory!Rows]
           /\ \A w \in Variances \ {v} : recs'[w] = recs[w]
  <1>1. Memory!Regenerated(recs[v]) \in Memory!Rows
    BY DEF Memory!Regenerated, Memory!Rows, Memory!Statuses
  <1> QED
    BY <1>1 DEF Memory!RegenerateSummary

\* A coroutine that goes on to its embeddings.
LEMMA PublishCall ==
    ASSUME NEW call, call.publish \in Seq(Variances),
           NEW table \in [Variances -> Memory!Rows]
    PROVE  /\ Publish(call, table) \in CallStates
           /\ Publish(call, table).persist = <<>>
           /\ Publish(call, table).stage \in {"idle", "upsert"}
           /\ Publish(call, table).stage = "upsert" => Publish(call, table).publish # <<>>
           /\ Publish(call, table).publish = call.publish
           /\ Publish(call, table).status = "AI_DRAFT"
  <1>1. CASE call.publish = <<>>
    BY <1>1, RowShapes DEF Publish, Idle
  <1>2. CASE call.publish # <<>>
    <2>1. Head(call.publish) \in Variances
      BY <1>2, ElementsOfTail
    <2>2. table[Head(call.publish)].text \in Narratives
      BY <2>1 DEF Memory!Rows, Narratives
    <2> QED
      BY <1>2, <2>2, ElementsOfNone DEF Publish, Idle, CallStates, Memory!Statuses, Narratives
  <1> QED
    BY <1>1, <1>2

\* A coroutine whose current transaction is over.
LEMMA PersistedCall ==
    ASSUME NEW call \in CallStates, call.persist # <<>>
    PROVE  /\ Persisted(call) \in CallStates
           /\ Persisted(call).persist = Tail(call.persist)
           /\ Persisted(call).publish = call.publish
           /\ Persisted(call).persist # <<>> => /\ Persisted(call).stage = "load"
                                               /\ Persisted(call).status = call.status
                                               /\ Persisted(call).text = call.text
           /\ Persisted(call).persist = <<>> => Persisted(call).stage = "resume"
  <1>1. /\ call.persist \in Seq(Variances) /\ Tail(call.persist) \in Seq(Variances)
        /\ (~(Len(call.persist) > 1) => Tail(call.persist) = <<>>)
        /\ (Len(call.persist) > 1 => Tail(call.persist) # <<>>)
    BY ElementsOfTail DEF CallStates
  <1>2. CASE Len(call.persist) > 1
    BY <1>1, <1>2 DEF Persisted, CallStates
  <1>3. CASE ~(Len(call.persist) > 1)
    BY <1>1, <1>3, ElementsOfNone
      DEF Persisted, CallStates, Idle, Memory!Statuses, Narratives
  <1> QED
    BY <1>2, <1>3

\* A call that is begun for the variances in ids waits for the database when there
\* is one, and otherwise for its first embedding, if any.
Begun(call, ids, published, status, text) ==
    /\ call \in CallStates
    /\ call.publish = published
    /\ call.stage \in {"load", "commit"} <=> call.persist # <<>>
    /\ call.stage # "commit"
    /\ call.stage = "upsert" => call.publish # <<>>
    /\ IF dbAvailable THEN call.persist = ids /\ call.status = status /\ call.text = text
                      ELSE call.persist = <<>>

\* A coroutine that has just changed memory.
LEMMA BegunCall ==
    ASSUME dbAvailable \in BOOLEAN, NEW ids \in Seq(Variances), ids # <<>>,
           NEW published \in Seq(Variances), NEW status \in Memory!Statuses,
           NEW text \in Narratives, NEW table \in [Variances -> Memory!Rows]
    PROVE  Begun(Begin(ids, published, status, text, table), ids, published, status, text)
  <1> DEFINE start == [Idle EXCEPT !.publish = published, !.status = status, !.text = text]
  <1>1. start.publish = published
    BY DEF Idle
  <1>2. CASE dbAvailable
    BY <1>2, ElementsOfNone DEF Begun, Begin, Idle, CallStates, Memory!Statuses, Narratives
  <1>3. CASE ~dbAvailable
    <2>1. Begin(ids, published, status, text, table) = Publish(start, table)
      BY <1>3 DEF Begin
    <2> HIDE DEF start
    <2> QED
      BY <1>1, <1>3, <2>1, PublishCall DEF Begun
  <1> QED
    BY <1>2, <1>3

\* Merging a call into a row that is there.
LEMMA MergedRow ==
    ASSUME NEW row \in DbRows, NEW call \in CallStates
    PROVE  /\ Merge(row, call) \in DbRows
           /\ Merge(row, call).status \in {row.status, call.status}
           /\ call.loaded = row =>
                  Merge(row, call) = [status |-> call.status,
                                      text |-> IF call.text = NoText THEN row.text ELSE call.text]
  BY DEF Merge, DbRows, CallStates

-----------------------------------------------------------------------------
(* Type correctness *)

\* The commentaries a single review publishes: that of an approved variance.
Published(v, a) == IF Memory!TargetStatus(a) = "APPROVED" THEN <<v>> ELSE <<>>

\* A single review begins its call.
LEMMA ReviewBegins ==
    ASSUME TypeInv, NEW c \in Calls, NEW v \in Variances, NEW u \in Users,
           NEW a \in Memory!Actions, NEW t \in Texts \cup {NoText},
           SubmitReviewAction(c, v, u, a, t)
    PROVE  \E call : /\ calls' = [calls EXCEPT ![c] = call]
                     /\ Begun(call, <<v>>, Published(v, a), Memory!TargetStatus(a), t)
  <1> DEFINE ids == <<v>>
             status == Memory!TargetStatus(a)
  <1>1. recs' \in [Variances -> Memory!Rows] /\ status \in Memory!Statuses
    BY MemoryReviews DEF SubmitReviewAction, TypeInv, TypeOK
  <1>2. ids \in Seq(Variances) /\ ids # <<>> /\ Published(v, a) \in Seq(Variances)
    BY ElementsOfOne, ElementsOfNone DEF Published
  <1>3. t \in Narratives /\ dbAvailable \in BOOLEAN
    BY DEF Narratives, TypeInv, TypeOK
  <1>4. calls' = [calls EXCEPT ![c] = Begin(ids, Published(v, a), status, t, recs')]
    BY DEF SubmitReviewAction, Published
  <1> HIDE DEF ids, status
  <1>5. Begun(Begin(ids, Published(v, a), status, t, recs'), ids, Published(v, a), status, t)
    BY <1>1, <1>2, <1>3, BegunCall
  <1> QED
    BY <1>4, <1>5 DEF ids, status

\* What a bulk call does to memory, an unknown action included.
LEMMA BulkMemory ==
    ASSUME TypeInv, NEW c \in Calls, NEW ids \in BulkLists, NEW a \in BulkActions,
           SubmitBulkApproval(c, ids, a)
    PROVE  /\ ids \in Seq(Variances) /\ ids # <<>> /\ Elements(ids) \subseteq Variances
           /\ recs' \in [Variances -> Memory!Rows]
           /\ \A w \in Variances : recs'[w].text = recs[w].text
           /\ \A w \in Variances \ Elements(ids) : recs'[w] = recs[w]
  <1>1. ids \in Seq(Variances) /\ ids # <<>>
    BY AsyncConstantsOK
  <1>2. Elements(ids) \subseteq Variances
    BY <1>1, ElementsInS
  <1>3. recs \in [Variances -> Memory!Rows]
    BY DEF TypeInv, TypeOK
  <1>4. CASE a = "approve"
    <2>1. Memory!SubmitBulkApproval(Elements(ids), "director_approve")
      BY <1>4 DEF SubmitBulkApproval
    <2> QED
      BY <1>1, <1>2, <1>3, <2>1, MemoryApproves
  <1>5. CASE a = "reject"
    <2>1. Memory!SubmitBulkApproval(Elements(ids), "director_reject")
      BY <1>5 DEF SubmitBulkApproval
    <2> QED
      BY <1>1, <1>2, <1>3, <2>1, MemoryApproves
  <1>6. CASE a = "unknown"
    <2>1. recs' = recs
      BY <1>6 DEF SubmitBulkApproval
    <2> QED
      BY <1>1, <1>2, <1>3, <2>1
  <1> QED
    BY <1>4, <1>5, <1>6 DEF BulkActions

\* A bulk call begins its coroutine.
LEMMA BulkBegins ==
    ASSUME TypeInv, NEW c \in Calls, NEW ids \in BulkLists, NEW a \in BulkActions,
           SubmitBulkApproval(c, ids, a)
    PROVE  \E call : /\ calls' = [calls EXCEPT ![c] = call]
                     /\ Begun(call, ids, ids, "APPROVED", NoText)
  <1>1. ids \in Seq(Variances) /\ ids # <<>> /\ recs' \in [Variances -> Memory!Rows]
    BY BulkMemory
  <1>2. "APPROVED" \in Memory!Statuses /\ NoText \in Narratives /\ dbAvailable \in BOOLEAN
    BY DEF Memory!Statuses, Narratives, TypeInv, TypeOK
  <1>3. calls' = [calls EXCEPT ![c] = Begin(ids, ids, "APPROVED", NoText, recs')]
    BY DEF SubmitBulkApproval
  <1>4. Begun(Begin(ids, ids, "APPROVED", NoText, recs'), ids, ids, "APPROVED", NoText)
    BY <1>1, <1>2, BegunCall
  <1> QED
    BY <1>3, <1>4

\* When one call becomes another that is in order, and rows are only added or
\* overwritten, the calls stay in order.
LEMMA OneCallInOrder ==
    ASSUME TypeInv, NEW c \in Calls, NEW call \in CallStates,
           calls' = [calls EXCEPT ![c] = call],
           call.stage \in {"load", "commit"} <=> call.persist # <<>>,
           call.stage = "upsert" => call.publish # <<>>,
           call.stage = "commit" =>
               call.loaded \in DbRows /\ db'[Head(call.persist)] \in DbRows,
           \A v \in Variances : db[v] \in DbRows => db'[v] \in DbRows
    PROVE  calls' \in [Calls -> CallStates] /\ CallsInOrder'
  <1>1. calls' \in [Calls -> CallStates]
    BY DEF TypeInv, TypeOK
  <1>2. ASSUME NEW d \in Calls, calls[d].stage = "commit"
        PROVE  Head(calls[d].persist) \in Variances
    <2>1. calls[d].persist \in Seq(Variances) /\ calls[d].persist # <<>>
      BY <1>2 DEF TypeInv, TypeOK, CallsInOrder, CallStates
    <2> QED
      BY <2>1, ElementsOfTail
  <1>3. \A d \in Calls \ {c} : calls'[d] = calls[d]
    BY DEF TypeInv, TypeOK
  <1>4. calls'[c] = call
    BY DEF TypeInv, TypeOK
  <1> QED
    BY <1>1, <1>2, <1>3, <1>4 DEF TypeInv, CallsInOrder

\* A call in a transaction has a current id.
LEMMA CurrentId ==
    ASSUME TypeInv, NEW c \in Calls, calls[c].stage \in {"load", "commit"}
    PROVE  /\ calls[c] \in CallStates /\ calls[c].persist # <<>>
           /\ Current(c) \in Variances /\ Current(c) \in Elements(calls[c].persist)
           /\ Elements(Tail(calls[c].persist)) \subseteq Elements(calls[c].persist)
           /\ Elements(calls[c].persist)
                 = {Current(c)} \cup Elements(Tail(calls[c].persist))
  <1>1. calls[c].persist \in Seq(Variances) /\ calls[c].persist # <<>>
    BY DEF TypeInv, TypeOK, CallsInOrder, CallStates
  <1> QED
    BY <1>1, ElementsOfTail DEF Current, TypeInv, TypeOK

\* The end of a transaction leaves the calls in order.
LEMMA PersistedInOrder ==
    ASSUME TypeInv, NEW c \in Calls, calls[c].stage \in {"load", "commit"},
           calls' = [calls EXCEPT ![c] = Persisted(calls[c])],
           \A v \in Variances : db[v] \in DbRows => db'[v] \in DbRows
    PROVE  calls' \in [Calls -> CallStates] /\ CallsInOrder'
  <1>1. calls[c] \in CallStates /\ calls[c].persist # <<>>
    BY CurrentId
  <1>2. /\ Persisted(calls[c]) \in CallStates
        /\ Persisted(calls[c]).persist # <<>> => Persisted(calls[c]).stage = "load"
        /\ Persisted(calls[c]).persist = <<>> => Persisted(calls[c]).stage = "resume"
    BY <1>1, PersistedCall
  <1> QED
    BY <1>2, OneCallInOrder

\* A restart, like the start of the gateway, has memory fresh, no call in flight,
\* and in the database what was there or, when it was empty, fresh rows.
LEMMA StartupRows ==
    ASSUME NEW available, NEW seeded, NEW old \in [Variances -> DbRows \cup {NoRow}], NEW new,
           Startup(available, seeded, old, new)
    PROVE  /\ new \in [Variances -> DbRows \cup {NoRow}]
           /\ \A v \in Variances : new[v] \in {old[v], FreshRow}
  BY RowShapes DEF Startup

\* The stores, the knowledge base and the calls keep their shapes, and every call
\* in a transaction has an id to write and a row that is there: the coroutines
\* never take the head of an empty list.
THEOREM TypeCorrect == Spec => [](TypeOK /\ CallsInOrder)
  <1>1. Init => TypeInv
    <2> SUFFICES ASSUME Init
                 PROVE  TypeInv
      OBVIOUS
    <2>1. [v \in Variances |-> NoRow] \in [Variances -> DbRows \cup {NoRow}]
      OBVIOUS
    <2>2. db \in [Variances -> DbRows \cup {NoRow}]
      BY <2>1, StartupRows DEF Init
    <2>3. calls \in [Calls -> CallStates] /\ \A c \in Calls : calls[c] = Idle
      BY RowShapes DEF Init
    <2>4. CallsInOrder
      BY <2>3 DEF CallsInOrder, Idle
    <2>5. loose \subseteq Variances
      BY DEF Init, LooseAtStart
    <2> QED
      BY <2>2, <2>3, <2>4, <2>5, RowShapes DEF Init, TypeInv, TypeOK
  <1>2. TypeInv /\ [Next]_vars => TypeInv'
    <2> SUFFICES ASSUME TypeInv, [Next]_vars
                 PROVE  TypeInv'
      OBVIOUS
    <2>0. /\ recs \in [Variances -> Memory!Rows]
          /\ db \in [Variances -> DbRows \cup {NoRow}]
          /\ dbAvailable \in BOOLEAN
          /\ kb \in [Variances -> Narratives \cup {Absent}]
          /\ calls \in [Calls -> CallStates]
          /\ everApproved \subseteq Variances /\ unearned \subseteq Variances
          /\ loose \subseteq Variances /\ CallsInOrder
      BY DEF TypeInv, TypeOK
    <2>1. ASSUME NEW c \in Calls, NEW v \in Variances, NEW u \in Users,
                 NEW a \in Memory!Actions, NEW t \in Texts \cup {NoText},
                 SubmitReviewAction(c, v, u, a, t)
          PROVE  TypeInv'
      <3>1. recs' \in [Variances -> Memory!Rows]
        BY <2>0, <2>1, MemoryReviews DEF SubmitReviewAction
      <3>2. UNCHANGED <<db, dbAvailable, kb, unearned>>
        BY <2>1 DEF SubmitReviewAction
      <3>3. calls' \in [Calls -> CallStates] /\ CallsInOrder'
        BY <2>1, <3>2, ReviewBegins, OneCallInOrder DEF Begun
      <3>4. everApproved' \subseteq Variances /\ loose' \subseteq Variances
        BY <2>0, <2>1 DEF SubmitReviewAction, RecordApprovals
      <3> QED
        BY <2>0, <3>1, <3>2, <3>3, <3>4 DEF TypeInv, TypeOK
    <2>2. ASSUME NEW c \in Calls, NEW ids \in BulkLists, NEW a \in BulkActions,
                 SubmitBulkApproval(c, ids, a)
          PROVE  TypeInv'
      <3>1. recs' \in [Variances -> Memory!Rows] /\ Elements(ids) \subseteq Variances
        BY <2>2, BulkMemory
      <3>2. UNCHANGED <<db, dbAvailable, kb>>
        BY <2>2 DEF SubmitBulkApproval
      <3>3. calls' \in [Calls -> CallStates] /\ CallsInOrder'
        BY <2>2, <3>2, BulkBegins, OneCallInOrder DEF Begun
      <3>4. /\ everApproved' \subseteq Variances /\ unearned' \subseteq Variances
            /\ loose' \subseteq Variances
        BY <2>0, <2>2, <3>1 DEF SubmitBulkApproval, RecordApprovals
      <3> QED
        BY <2>0, <3>1, <3>2, <3>3, <3>4 DEF TypeInv, TypeOK
    <2>3. ASSUME NEW v \in Variances, RegenerateSummary(v)
          PROVE  TypeInv'
      <3>1. recs' \in [Variances -> Memory!Rows]
        BY <2>0, <2>3, MemoryRegenerates DEF RegenerateSummary
      <3>2. loose' \subseteq Variances /\ UNCHANGED <<db, dbAvailable, kb, calls, everApproved, unearned>>
        BY <2>0, <2>3 DEF RegenerateSummary
      <3> QED
        BY <2>0, <3>1, <3>2 DEF TypeInv, TypeOK, CallsInOrder
    <2>4. ASSUME NEW c \in Calls, LoadRow(c)
          PROVE  TypeInv'
      <3>1. /\ calls[c].stage = "load" /\ Current(c) \in Variances
            /\ calls[c] \in CallStates /\ calls[c].persist # <<>>
        BY <2>4, CurrentId DEF LoadRow
      <3>2. UNCHANGED <<recs, db, dbAvailable, kb, everApproved, unearned>>
        BY <2>4 DEF LoadRow
      <3>3. CASE db[Current(c)] = NoRow
        <4>1. calls' = [calls EXCEPT ![c] = Persisted(calls[c])] /\ loose' \subseteq Variances
          BY <2>0, <2>4, <3>1, <3>3 DEF LoadRow
        <4>2. calls' \in [Calls -> CallStates] /\ CallsInOrder'
          BY <3>1, <3>2, <4>1, PersistedInOrder
        <4> QED
          BY <2>0, <3>2, <4>1, <4>2 DEF TypeInv, TypeOK
      <3>4. CASE db[Current(c)] # NoRow
        <4> DEFINE loaded == [calls[c] EXCEPT !.stage = "commit", !.loaded = db[Current(c)]]
        <4>1. calls' = [calls EXCEPT ![c] = loaded] /\ loose' = loose
          BY <2>4, <3>4 DEF LoadRow
        <4>2. db[Current(c)] \in DbRows
          BY <2>0, <3>1, <3>4
        <4>3. /\ loaded \in CallStates /\ loaded.persist = calls[c].persist
              /\ loaded.loaded = db[Current(c)] /\ loaded.stage = "commit"
          BY <3>1, <4>2 DEF CallStates
        <4> HIDE DEF loaded
        <4>4. calls' \in [Calls -> CallStates] /\ CallsInOrder'
          BY <3>1, <3>2, <4>1, <4>2, <4>3, OneCallInOrder DEF Current
        <4> QED
          BY <2>0, <3>2, <4>1, <4>4 DEF TypeInv, TypeOK
      <3> QED
        BY <3>3, <3>4
    <2>5. ASSUME NEW c \in Calls, CommitRow(c)
          PROVE  TypeInv'
      <3>1. calls[c].stage = "commit" /\ Current(c) \in Variances /\ calls[c] \in CallStates
        BY <2>5, CurrentId DEF CommitRow
      <3>2. /\ db' = [db EXCEPT ![Current(c)] = Merge(db[Current(c)], calls[c])]
            /\ calls' = [calls EXCEPT ![c] = Persisted(calls[c])]
            /\ UNCHANGED <<recs, dbAvailable, kb, everApproved, unearned, loose>>
        BY <2>5 DEF CommitRow
      <3>3. db[Current(c)] \in DbRows
        BY <2>0, <3>1 DEF CallsInOrder, Current
      <3>4. Merge(db[Current(c)], calls[c]) \in DbRows
        BY <3>1, <3>3, MergedRow
      <3>5. /\ db' \in [Variances -> DbRows \cup {NoRow}]
            /\ \A v \in Variances : db[v] \in DbRows => db'[v] \in DbRows
        BY <2>0, <3>1, <3>2, <3>4
      <3>6. calls' \in [Calls -> CallStates] /\ CallsInOrder'
        BY <3>1, <3>2, <3>5, PersistedInOrder
      <3> QED
        BY <2>0, <3>2, <3>5, <3>6 DEF TypeInv, TypeOK
    <2>6. ASSUME NEW c \in Calls, PersistFails(c)
          PROVE  TypeInv'
      <3>1. calls[c].stage \in {"load", "commit"} /\ Current(c) \in Variances
        BY <2>6, CurrentId DEF PersistFails
      <3>2. /\ calls' = [calls EXCEPT ![c] = Persisted(calls[c])]
            /\ loose' = loose \cup {Current(c)}
            /\ UNCHANGED <<recs, db, dbAvailable, kb, everApproved, unearned>>
        BY <2>6 DEF PersistFails
      <3>3. calls' \in [Calls -> CallStates] /\ CallsInOrder'
        BY <3>1, <3>2, PersistedInOrder
      <3> QED
        BY <2>0, <3>1, <3>2, <3>3 DEF TypeInv, TypeOK
    <2>7. ASSUME NEW c \in Calls, Resume(c)
          PROVE  TypeInv'
      <3>1. /\ calls' = [calls EXCEPT ![c] = Publish(calls[c], recs)]
            /\ UNCHANGED <<recs, db, dbAvailable, kb, everApproved, unearned, loose>>
        BY <2>7 DEF Resume
      <3>2. calls[c].publish \in Seq(Variances)
        BY <2>0 DEF CallStates
      <3>3. calls' \in [Calls -> CallStates] /\ CallsInOrder'
        BY <2>0, <3>1, <3>2, PublishCall, OneCallInOrder
      <3> QED
        BY <2>0, <3>1, <3>3 DEF TypeInv, TypeOK
    <2>8. ASSUME NEW c \in Calls, Upsert(c)
          PROVE  TypeInv'
      <3> DEFINE rest == [calls[c] EXCEPT !.publish = Tail(calls[c].publish)]
      <3>1. /\ calls' = [calls EXCEPT ![c] = Publish(rest, recs)]
            /\ UNCHANGED <<recs, db, dbAvailable, everApproved, unearned, loose>>
        BY <2>8 DEF Upsert
      <3>2. calls[c].publish \in Seq(Variances) /\ calls[c].publish # <<>>
            /\ calls[c].draft \in Narratives
        BY <2>0, <2>8 DEF Upsert, CallsInOrder, CallStates
      <3>3. Head(calls[c].publish) \in Variances /\ Tail(calls[c].publish) \in Seq(Variances)
        BY <3>2, ElementsOfTail
      <3>4. rest.publish = Tail(calls[c].publish)
        BY <2>0 DEF CallStates
      <3> HIDE DEF rest
      <3>5. calls' \in [Calls -> CallStates] /\ CallsInOrder'
        BY <2>0, <3>1, <3>3, <3>4, PublishCall, OneCallInOrder
      <3>6. kb' \in [Variances -> Narratives \cup {Absent}]
        BY <2>0, <2>8, <3>2, <3>3 DEF Upsert
      <3> QED
        BY <2>0, <3>1, <3>5, <3>6 DEF TypeInv, TypeOK
    <2>9. CASE Restart
      <3>1. db' \in [Variances -> DbRows \cup {NoRow}]
        BY <2>0, <2>9, StartupRows DEF Restart
      <3>2. calls' \in [Calls -> CallStates] /\ \A c \in Calls : calls'[c] = Idle
        BY <2>9, RowShapes DEF Restart
      <3>3. CallsInOrder'
        BY <3>2 DEF CallsInOrder, Idle
      <3>4. /\ loose' \subseteq Variances /\ dbAvailable' \in BOOLEAN
            /\ UNCHANGED <<everApproved, unearned>>
            /\ recs' \in [Variances -> Memory!Rows]
            /\ kb' \in [Variances -> Narratives \cup {Absent}]
        BY <2>9, RowShapes DEF Restart, LooseAtStart
      <3> QED
        BY <2>0, <3>1, <3>2, <3>3, <3>4 DEF TypeInv, TypeOK
    <2>10. CASE UNCHANGED vars
      BY <2>0, <2>10 DEF vars, TypeInv, TypeOK, CallsInOrder
    <2> QED
      BY <2>1, <2>2, <2>3, <2>4, <2>5, <2>6, <2>7, <2>8, <2>9, <2>10 DEF Next
  <1> QED
    BY <1>1, <1>2, PTL DEF Spec, TypeInv

-----------------------------------------------------------------------------
(* What the database and the knowledge base say of an approval *)

\* Memory's approvals of this step are remembered.
LEMMA ApprovalsRemembered ==
    ASSUME NEW v \in Variances, RecordApprovals
    PROVE  /\ everApproved \subseteq everApproved'
           /\ recs'[v].status = "APPROVED" => v \in everApproved'
  BY DEF RecordApprovals

\* When one call becomes another whose ids are explained, and the explanations
\* only grow, the calls stay explained.
LEMMA OneCallExplained ==
    ASSUME TypeInv, ApprovalInv, NEW c \in Calls, NEW call,
           calls' = [calls EXCEPT ![c] = call],
           call.status = "APPROVED" => Elements(call.persist) \subseteq Explained',
           Elements(call.publish) \subseteq Explained',
           Explained \subseteq Explained'
    PROVE  \A d \in Calls :
               /\ calls'[d].status = "APPROVED" => Elements(calls'[d].persist) \subseteq Explained'
               /\ Elements(calls'[d].publish) \subseteq Explained'
  <1>1. calls'[c] = call /\ \A d \in Calls \ {c} : calls'[d] = calls[d]
    BY DEF TypeInv, TypeOK
  <1> QED
    BY <1>1 DEF ApprovalInv

\* So do the calls when a transaction ends.
LEMMA PersistedExplained ==
    ASSUME TypeInv, ApprovalInv, NEW c \in Calls, calls[c].stage \in {"load", "commit"},
           calls' = [calls EXCEPT ![c] = Persisted(calls[c])],
           UNCHANGED <<everApproved, unearned>>
    PROVE  \A d \in Calls :
               /\ calls'[d].status = "APPROVED" => Elements(calls'[d].persist) \subseteq Explained'
               /\ Elements(calls'[d].publish) \subseteq Explained'
  <1>1. /\ calls[c] \in CallStates /\ calls[c].persist # <<>>
        /\ Elements(Tail(calls[c].persist)) \subseteq Elements(calls[c].persist)
    BY CurrentId
  <1>2. /\ Persisted(calls[c]).persist = Tail(calls[c].persist)
        /\ Persisted(calls[c]).publish = calls[c].publish
        /\ Persisted(calls[c]).persist # <<>> => Persisted(calls[c]).status = calls[c].status
    BY <1>1, PersistedCall
  <1>3. Elements(Persisted(calls[c]).publish) \subseteq Explained'
    BY <1>2 DEF ApprovalInv, Explained
  <1>4. Persisted(calls[c]).status = "APPROVED"
            => Elements(Persisted(calls[c]).persist) \subseteq Explained'
    <2>1. CASE Persisted(calls[c]).persist = <<>>
      BY <2>1, ElementsOfNone
    <2>2. CASE Persisted(calls[c]).persist # <<>>
      BY <1>1, <1>2, <2>2 DEF ApprovalInv, Explained
    <2> QED
      BY <2>1, <2>2
  <1>5. Explained \subseteq Explained'
    BY DEF Explained
  <1> HIDE DEF Explained
  <1> QED
    BY <1>3, <1>4, <1>5, OneCallExplained

\* The invariant behind both statements about approvals.
LEMMA ApprovalInvariant == Spec => []ApprovalInv
  <1>1. Init => ApprovalInv
    <2> SUFFICES ASSUME Init
                 PROVE  ApprovalInv
      OBVIOUS
    <2>1. \A v \in Variances : db[v] \in {NoRow, FreshRow}
      BY DEF Init, Startup
    <2>2. DbApprovalExplained /\ KbEntryExplained
      BY <2>1 DEF Init, DbApprovalExplained, KbEntryExplained, NoRow, FreshRow
    <2>3. \A c \in Calls : calls[c] = Idle
      BY DEF Init
    <2> QED
      BY <2>2, <2>3, ElementsOfNone DEF ApprovalInv, Idle
  <1>2. TypeInv /\ ApprovalInv /\ [Next]_vars => ApprovalInv'
    <2> SUFFICES ASSUME TypeInv, ApprovalInv, [Next]_vars
                 PROVE  ApprovalInv'
      OBVIOUS
    <2>0. /\ db \in [Variances -> DbRows \cup {NoRow}]
          /\ kb \in [Variances -> Narratives \cup {Absent}]
          /\ calls \in [Calls -> CallStates]
      BY DEF TypeInv, TypeOK
    <2>a. ASSUME UNCHANGED <<db, kb>>, Explained \subseteq Explained'
          PROVE  DbApprovalExplained' /\ KbEntryExplained'
      BY <2>a DEF ApprovalInv, DbApprovalExplained, KbEntryExplained, Explained
    <2>1. ASSUME NEW c \in Calls, NEW v \in Variances, NEW u \in Users,
                 NEW a \in Memory!Actions, NEW t \in Texts \cup {NoText},
                 SubmitReviewAction(c, v, u, a, t)
          PROVE  ApprovalInv'
      <3>1. UNCHANGED <<db, kb, unearned>> /\ RecordApprovals
        BY <2>1 DEF SubmitReviewAction
      <3>2. recs'[v].status = Memory!TargetStatus(a)
        BY <2>1, MemoryReviews DEF SubmitReviewAction, TypeInv, TypeOK
      <3>3. Explained \subseteq Explained'
        BY <3>1 DEF RecordApprovals, Explained
      <3>4. Memory!TargetStatus(a) = "APPROVED" => v \in Explained'
        BY <3>1, <3>2 DEF RecordApprovals, Explained
      <3>5. PICK call : /\ calls' = [calls EXCEPT ![c] = call]
                        /\ Begun(call, <<v>>, Published(v, a), Memory!TargetStatus(a), t)
        BY <2>1, ReviewBegins
      <3>6. Elements(Published(v, a)) \subseteq Explained'
        BY <3>4, ElementsOfOne, ElementsOfNone DEF Published
      <3>7. call.status = "APPROVED" => Elements(call.persist) \subseteq Explained'
        <4>1. CASE dbAvailable
          <5>1. call.persist = <<v>> /\ call.status = Memory!TargetStatus(a)
            BY <3>5, <4>1 DEF Begun
          <5>2. Elements(call.persist) = {v}
            BY <5>1, ElementsOfOne
          <5> QED
            BY <3>4, <5>1, <5>2
        <4>2. CASE ~dbAvailable
          BY <3>5, <4>2, ElementsOfNone DEF Begun
        <4> QED
          BY <4>1, <4>2
      <3> QED
        BY <2>a, <3>1, <3>3, <3>5, <3>6, <3>7, OneCallExplained DEF ApprovalInv, Begun
    <2>2. ASSUME NEW c \in Calls, NEW ids \in BulkLists, NEW a \in BulkActions,
                 SubmitBulkApproval(c, ids, a)
          PROVE  ApprovalInv'
      <3>1. UNCHANGED <<db, kb>> /\ RecordApprovals
        BY <2>2 DEF SubmitBulkApproval
      <3>2. unearned' = unearned \cup {v \in Elements(ids) : recs'[v].status # "APPROVED"}
        BY <2>2 DEF SubmitBulkApproval
      <3>3. Elements(ids) \subseteq Variances
        BY <2>2, BulkMemory
      <3>4. Explained \subseteq Explained' /\ Elements(ids) \subseteq Explained'
        BY <3>1, <3>2, <3>3 DEF RecordApprovals, Explained
      <3>5. PICK call : /\ calls' = [calls EXCEPT ![c] = call]
                        /\ Begun(call, ids, ids, "APPROVED", NoText)
        BY <2>2, BulkBegins
      <3>6. call.status = "APPROVED" => Elements(call.persist) \subseteq Explained'
        BY <3>4, <3>5, ElementsOfNone DEF Begun
      <3> QED
        BY <2>a, <3>1, <3>4, <3>5, <3>6, OneCallExplained DEF ApprovalInv, Begun
    <2>3. ASSUME NEW v \in Variances, RegenerateSummary(v)
          PROVE  ApprovalInv'
      BY <2>3 DEF RegenerateSummary, ApprovalInv, DbApprovalExplained, KbEntryExplained, Explained
    <2>4. ASSUME NEW c \in Calls, LoadRow(c)
          PROVE  ApprovalInv'
      <3>1. calls[c].stage = "load" /\ UNCHANGED <<db, kb, everApproved, unearned>>
        BY <2>4 DEF LoadRow
      <3>2. Explained \subseteq Explained'
        BY <3>1 DEF Explained
      <3>3. CASE db[Current(c)] = NoRow
        <4>1. calls' = [calls EXCEPT ![c] = Persisted(calls[c])]
          BY <2>4, <3>3 DEF LoadRow
        <4> QED
          BY <2>a, <3>1, <3>2, <4>1, PersistedExplained DEF ApprovalInv
      <3>4. CASE db[Current(c)] # NoRow
        <4> DEFINE loaded == [calls[c] EXCEPT !.stage = "commit", !.loaded = db[Current(c)]]
        <4>1. calls' = [calls EXCEPT ![c] = loaded]
          BY <2>4, <3>4 DEF LoadRow
        <4>2. /\ loaded.persist = calls[c].persist /\ loaded.publish = calls[c].publish
              /\ loaded.status = calls[c].status
          BY <2>0 DEF CallStates
        <4> HIDE DEF loaded
        <4>3. /\ loaded.status = "APPROVED" => Elements(loaded.persist) \subseteq Explained'
              /\ Elements(loaded.publish) \subseteq Explained'
          BY <3>2, <4>2 DEF ApprovalInv
        <4> QED
          BY <2>a, <3>1, <3>2, <4>1, <4>3, OneCallExplained DEF ApprovalInv
      <3> QED
        BY <3>3, <3>4
    <2>5. ASSUME NEW c \in Calls, CommitRow(c)
          PROVE  ApprovalInv'
      <3>1. /\ db' = [db EXCEPT ![Current(c)] = Merge(db[Current(c)], calls[c])]
            /\ calls' = [calls EXCEPT ![c] = Persisted(calls[c])]
            /\ calls[c].stage = "commit" /\ UNCHANGED <<kb, everApproved, unearned>>
        BY <2>5 DEF CommitRow
      <3>2. /\ calls[c] \in CallStates /\ Current(c) \in Variances
            /\ Current(c) \in Elements(calls[c].persist)
        BY <3>1, CurrentId
      <3>3. db[Current(c)] \in DbRows
        BY <3>1 DEF TypeInv, CallsInOrder, Current
      <3>4. Merge(db[Current(c)], calls[c]).status \in {db[Current(c)].status, calls[c].status}
        BY <3>2, <3>3, MergedRow
      <3>5. calls[c].status = "APPROVED" => Current(c) \in Explained
        BY <3>2 DEF ApprovalInv
      <3>6. DbApprovalExplained'
        <4> SUFFICES ASSUME NEW v \in Variances, db'[v].status = "APPROVED"
                     PROVE  v \in Explained
          BY <3>1 DEF DbApprovalExplained, Explained
        <4>1. CASE v = Current(c)
          BY <2>0, <3>1, <3>4, <3>5, <4>1 DEF ApprovalInv, DbApprovalExplained, Explained
        <4>2. CASE v # Current(c)
          BY <2>0, <3>1, <4>2 DEF ApprovalInv, DbApprovalExplained, Explained
        <4> QED
          BY <4>1, <4>2
      <3>7. KbEntryExplained'
        BY <3>1 DEF ApprovalInv, KbEntryExplained
      <3> QED
        BY <3>1, <3>6, <3>7, PersistedExplained DEF ApprovalInv
    <2>6. ASSUME NEW c \in Calls, PersistFails(c)
          PROVE  ApprovalInv'
      <3>1. /\ calls' = [calls EXCEPT ![c] = Persisted(calls[c])]
            /\ calls[c].stage \in {"load", "commit"} /\ UNCHANGED <<db, kb, everApproved, unearned>>
        BY <2>6 DEF PersistFails
      <3>2. Explained \subseteq Explained'
        BY <3>1 DEF Explained
      <3> QED
        BY <2>a, <3>1, <3>2, PersistedExplained DEF ApprovalInv
    <2>7. ASSUME NEW c \in Calls, Resume(c)
          PROVE  ApprovalInv'
      <3>1. /\ calls' = [calls EXCEPT ![c] = Publish(calls[c], recs)]
            /\ UNCHANGED <<db, kb, everApproved, unearned>>
        BY <2>7 DEF Resume
      <3>2. /\ Publish(calls[c], recs).persist = <<>>
            /\ Publish(calls[c], recs).publish = calls[c].publish
        BY <2>0, PublishCall DEF TypeInv, TypeOK, CallStates
      <3>3. Explained \subseteq Explained' /\ Elements(calls[c].publish) \subseteq Explained
        BY <3>1 DEF Explained, ApprovalInv
      <3>4. Elements(Publish(calls[c], recs).persist) = {}
        BY <3>2, ElementsOfNone
      <3> QED
        BY <2>a, <3>1, <3>2, <3>3, <3>4, OneCallExplained DEF ApprovalInv
    <2>8. ASSUME NEW c \in Calls, Upsert(c)
          PROVE  ApprovalInv'
      <3> DEFINE rest == [calls[c] EXCEPT !.publish = Tail(calls[c].publish)]
      <3>1. /\ calls' = [calls EXCEPT ![c] = Publish(rest, recs)]
            /\ UNCHANGED <<db, everApproved, unearned>>
        BY <2>8 DEF Upsert
      <3>2. calls[c].publish \in Seq(Variances) /\ calls[c].publish # <<>>
        BY <2>0, <2>8 DEF Upsert, TypeInv, CallsInOrder, CallStates
      <3>3. /\ rest.publish = Tail(calls[c].publish) /\ rest.publish \in Seq(Variances)
            /\ Elements(rest.publish) \subseteq Elements(calls[c].publish)
            /\ Head(calls[c].publish) \in Elements(calls[c].publish)
        BY <2>0, <3>2, ElementsOfTail DEF CallStates
      <3> HIDE DEF rest
      <3>4. /\ Publish(rest, recs).persist = <<>>
            /\ Publish(rest, recs).publish = rest.publish
        BY <3>3, PublishCall DEF TypeInv, TypeOK
      <3>5. Explained' = Explained /\ Elements(calls[c].publish) \subseteq Explained
        BY <3>1 DEF Explained, ApprovalInv
      <3>6. KbEntryExplained'
        <4> SUFFICES ASSUME NEW v \in Variances, kb'[v] # Absent
                     PROVE  v \in Explained
          BY <3>1 DEF KbEntryExplained, Explained
        <4>1. kb[v] # Absent \/ v = Head(calls[c].publish)
          BY <2>0, <2>8 DEF Upsert
        <4> QED
          BY <3>3, <3>5, <4>1 DEF ApprovalInv, KbEntryExplained, Explained
      <3>7. DbApprovalExplained'
        BY <3>1 DEF ApprovalInv, DbApprovalExplained
      <3>8. Elements(Publish(rest, recs).persist) = {}
        BY <3>4, ElementsOfNone
      <3>9. Elements(Publish(rest, recs).publish) \subseteq Explained'
        BY <3>3, <3>4, <3>5
      <3> QED
        BY <3>1, <3>5, <3>6, <3>7, <3>8, <3>9, OneCallExplained DEF ApprovalInv
    <2>9. CASE Restart
      <3>1. UNCHANGED <<everApproved, unearned>> /\ \A v \in Variances : kb'[v] = Absent
        BY <2>9 DEF Restart
      <3>2. \A v \in Variances : db'[v] \in {db[v], FreshRow}
        BY <2>0, <2>9, StartupRows DEF Restart
      <3>3. DbApprovalExplained' /\ KbEntryExplained'
        BY <3>1, <3>2 DEF ApprovalInv, DbApprovalExplained, KbEntryExplained, FreshRow
      <3>4. \A c \in Calls : calls'[c] = Idle
        BY <2>9 DEF Restart
      <3> QED
        BY <3>3, <3>4, ElementsOfNone DEF ApprovalInv, Idle
    <2>10. CASE UNCHANGED vars
      BY <2>10 DEF vars, ApprovalInv, DbApprovalExplained, KbEntryExplained, Explained
    <2> QED
      BY <2>1, <2>2, <2>3, <2>4, <2>5, <2>6, <2>7, <2>8, <2>9, <2>10 DEF Next
  <1>3. Spec => []TypeInv
    BY TypeCorrect DEF TypeInv
  <1> QED
    BY <1>1, <1>2, <1>3, PTL DEF Spec

\* A row of the database that says APPROVED was approved in memory once, or a bulk
\* call named it in vain: no transaction of a single review, late, repeated or
\* failed, makes an approval up.
THEOREM ApprovalsExplained == Spec => []DbApprovalExplained
  <1>1. ApprovalInv => DbApprovalExplained
    BY DEF ApprovalInv
  <1> QED
    BY <1>1, ApprovalInvariant, PTL

\* The knowledge base holds a commentary only of a variance that memory approved
\* once, or that a bulk call named in vain, whatever calls overlapped or failed.
THEOREM KnowledgeExplained == Spec => []KbEntryExplained
  <1>1. ApprovalInv => KbEntryExplained
    BY DEF ApprovalInv
  <1> QED
    BY <1>1, ApprovalInvariant, PTL

-----------------------------------------------------------------------------
(* What the database holds when no transaction is outstanding *)

\* A call that does not wait for the database has no id to write.
LEMMA NotPersisting ==
    ASSUME TypeInv, NEW c \in Calls, calls[c].stage \notin {"load", "commit"}
    PROVE  Elements(calls[c].persist) = {}
  BY ElementsOfNone DEF TypeInv, CallsInOrder

\* A new call keeps the stores in step, if the ids it names that some other call
\* is still to write are loose, and memory has for the rest what it will write.
LEMMA BegunSynced ==
    ASSUME TypeInv, SyncInv, NEW c \in Calls, calls[c] = Idle,
           NEW ids \in Seq(Variances), NEW published, NEW status, NEW text, NEW call,
           calls' = [calls EXCEPT ![c] = call], Begun(call, ids, published, status, text),
           UNCHANGED <<db, dbAvailable>>,
           loose \subseteq loose', loose' \subseteq Variances,
           Elements(ids) \cap Persisting \subseteq loose',
           \A w \in Variances \ Elements(ids) : recs'[w] = recs[w],
           \A w \in Elements(ids) \ loose' :
               /\ recs'[w].status = status
               /\ recs'[w].text = IF text = NoText THEN recs[w].text ELSE text
    PROVE  SyncInv'
  <1>1. calls'[c] = call /\ \A d \in Calls \ {c} : calls'[d] = calls[d]
    BY DEF TypeInv, TypeOK
  <1>2. Elements(calls[c].persist) = {}
    BY ElementsOfNone DEF Idle
  <1>3. Elements(ids) \subseteq Variances
    BY ElementsInS
  <1>4. Elements(call.persist) = IF dbAvailable THEN Elements(ids) ELSE {}
    BY ElementsOfNone DEF Begun
  <1>5. ASSUME NEW d \in Calls, NEW w \in Elements(calls[d].persist)
        PROVE  w \in Persisting /\ d # c
    BY <1>2, <1>5 DEF Persisting
  <1>6. ~dbAvailable' => loose' = Variances
    BY DEF SyncInv
  <1>7. DbFollowsMemory'
    <2> SUFFICES ASSUME NEW w \in Variances \ (loose' \cup Persisting')
                 PROVE  db[w] = Stored(recs'[w])
      BY DEF DbFollowsMemory
    <2>1. dbAvailable
      BY <1>6
    <2>2. w \notin Elements(ids)
      BY <1>1, <1>4, <2>1 DEF Persisting
    <2>3. w \notin Persisting
      BY <1>1, <1>5 DEF Persisting
    <2> QED
      BY <2>2, <2>3 DEF SyncInv, DbFollowsMemory
  <1>8. ASSUME NEW d \in Calls, NEW w \in Elements(calls'[d].persist) \ loose'
        PROVE  PendingWrite(d, w)'
    <2>1. CASE d = c
      <3>1. dbAvailable /\ w \in Elements(ids)
        BY <1>1, <1>4, <1>8, <2>1
      <3>2. w \in Variances /\ w \notin Persisting /\ w \notin loose
        BY <1>3, <1>8, <3>1
      <3>3. db[w] = Stored(recs[w])
        BY <3>2 DEF SyncInv, DbFollowsMemory
      <3>4. \A e \in Calls : w \in Elements(calls'[e].persist) => e = c
        BY <1>1, <1>5, <3>2
      <3>5. calls'[c].stage # "commit" /\ calls'[c].status = status /\ calls'[c].text = text
        BY <1>1, <3>1 DEF Begun
      <3>6. /\ recs'[w].status = status
            /\ recs'[w].text = IF text = NoText THEN db[w].text ELSE text
        BY <1>8, <3>1, <3>3 DEF Stored
      <3> QED
        BY <2>1, <3>4, <3>5, <3>6 DEF PendingWrite
    <2>2. CASE d # c
      <3>1. calls'[d] = calls[d] /\ w \in Persisting /\ w \notin loose
        BY <1>1, <1>5, <1>8, <2>2
      <3>2. PendingWrite(d, w)
        BY <1>1, <1>8, <2>2, <3>1 DEF SyncInv
      <3>3. w \notin Elements(ids)
        BY <1>8, <3>1
      <3>4. calls[d].persist \in Seq(Variances)
        BY DEF TypeInv, TypeOK, CallStates
      <3>5. w \in Variances
        BY <1>8, <3>1, <3>4, ElementsInS
      <3>6. recs'[w] = recs[w] /\ db'[w] = db[w]
        BY <3>3, <3>5
      <3>7. \A e \in Calls : w \in Elements(calls'[e].persist) => e = d
        BY <1>1, <1>4, <3>2, <3>3 DEF PendingWrite
      <3> QED
        BY <3>1, <3>2, <3>6, <3>7 DEF PendingWrite
    <2> QED
      BY <2>1, <2>2
  <1> QED
    BY <1>6, <1>7, <1>8 DEF SyncInv

\* The end of a transaction keeps the stores in step, if its variance is loose or
\* its row is what memory holds.
LEMMA TransactionSynced ==
    ASSUME TypeInv, SyncInv, NEW c \in Calls, calls[c].stage \in {"load", "commit"},
           calls' = [calls EXCEPT ![c] = Persisted(calls[c])],
           UNCHANGED <<recs, dbAvailable>>,
           loose \subseteq loose', loose' \subseteq Variances,
           \A w \in Variances \ {Current(c)} : db'[w] = db[w],
           Current(c) \in loose' \/ db'[Current(c)] = Stored(recs[Current(c)])
    PROVE  SyncInv'
  <1> DEFINE call == Persisted(calls[c])
             v == Current(c)
  <1>1. calls'[c] = call /\ \A d \in Calls \ {c} : calls'[d] = calls[d]
    BY DEF TypeInv, TypeOK
  <1>2. /\ calls[c] \in CallStates /\ calls[c].persist # <<>>
        /\ v \in Variances /\ v \in Elements(calls[c].persist)
        /\ Elements(calls[c].persist) = {v} \cup Elements(Tail(calls[c].persist))
    BY CurrentId
  <1>3. /\ call.persist = Tail(calls[c].persist)
        /\ call.persist # <<>> => /\ call.stage = "load" /\ call.status = calls[c].status
                                  /\ call.text = calls[c].text
    BY <1>2, PersistedCall
  <1> HIDE DEF call, v
  <1>4. Elements(call.persist) \subseteq Elements(calls[c].persist)
    BY <1>2, <1>3
  <1>5. ~dbAvailable' => loose' = Variances
    BY DEF SyncInv
  <1>6. DbFollowsMemory'
    <2> SUFFICES ASSUME NEW w \in Variances \ (loose' \cup Persisting')
                 PROVE  db'[w] = Stored(recs[w])
      BY DEF DbFollowsMemory
    <2>1. CASE w = v
      BY <2>1 DEF v
    <2>2. CASE w # v
      <3>1. w \notin Persisting
        BY <1>1, <1>2, <1>3, <2>2 DEF Persisting
      <3> QED
        BY <2>2, <3>1 DEF SyncInv, DbFollowsMemory, v
    <2> QED
      BY <2>1, <2>2
  <1>7. ASSUME NEW d \in Calls, NEW w \in Elements(calls'[d].persist) \ loose'
        PROVE  PendingWrite(d, w)'
    <2>0. w \in Variances
      <3>1. calls[d].persist \in Seq(Variances)
        BY DEF TypeInv, TypeOK, CallStates
      <3>2. w \in Elements(calls[d].persist)
        BY <1>1, <1>4, <1>7
      <3> QED
        BY <3>1, <3>2, ElementsInS
    <2>1. w \in Elements(calls[d].persist) \ loose
      BY <1>1, <1>4, <1>7
    <2>2. PendingWrite(d, w)
      BY <2>1 DEF SyncInv
    <2>3. \A e \in Calls : w \in Elements(calls'[e].persist) => e = d
      BY <1>1, <1>4, <2>2 DEF PendingWrite
    <2>4. CASE d = c
      <3>1. call.persist # <<>>
        BY <1>1, <1>7, <2>4, ElementsOfNone
      <3>2. /\ calls'[c].stage = "load" /\ calls'[c].status = calls[c].status
            /\ calls'[c].text = calls[c].text
        BY <1>1, <1>3, <3>1
      <3>3. recs'[w].text = IF calls[c].text = NoText THEN db'[w].text ELSE calls[c].text
        <4>1. CASE w = v
          <5>1. db'[w] = Stored(recs[w])
            BY <1>7, <4>1 DEF v
          <5> QED
            BY <2>2, <2>4, <5>1 DEF PendingWrite, Stored
        <4>2. CASE w # v
          BY <2>0, <2>2, <2>4, <4>2 DEF PendingWrite, v
        <4> QED
          BY <4>1, <4>2
      <3>4. recs'[w].status = calls[c].status
        BY <2>2, <2>4 DEF PendingWrite
      <3> QED
        BY <2>3, <2>4, <3>2, <3>3, <3>4 DEF PendingWrite
    <2>5. CASE d # c
      <3>1. w # v
        BY <1>2, <2>2, <2>5 DEF PendingWrite
      <3>2. db'[w] = db[w] /\ calls'[d] = calls[d] /\ recs'[w] = recs[w]
        BY <1>1, <2>0, <2>5, <3>1 DEF v
      <3> QED
        BY <2>2, <2>3, <3>2 DEF PendingWrite
    <2> QED
      BY <2>4, <2>5
  <1> QED
    BY <1>5, <1>6, <1>7 DEF SyncInv

\* A step of a call that is not in a transaction, and does not begin one, keeps the
\* stores in step.
LEMMA OtherSynced ==
    ASSUME TypeInv, SyncInv, NEW c \in Calls, calls[c].stage \notin {"load", "commit"},
           NEW call, calls' = [calls EXCEPT ![c] = call], call.persist = <<>>,
           UNCHANGED <<recs, db, dbAvailable, loose>>
    PROVE  SyncInv'
  <1>1. calls'[c] = call /\ \A d \in Calls \ {c} : calls'[d] = calls[d]
    BY DEF TypeInv, TypeOK
  <1>2. Elements(calls[c].persist) = {} /\ Elements(call.persist) = {}
    BY NotPersisting, ElementsOfNone
  <1>3. Persisting' = Persisting
    BY <1>1, <1>2 DEF Persisting
  <1>4. DbFollowsMemory' /\ (~dbAvailable' => loose' = Variances)
    BY <1>3 DEF SyncInv, DbFollowsMemory
  <1>5. ASSUME NEW d \in Calls, NEW w \in Elements(calls'[d].persist) \ loose'
        PROVE  PendingWrite(d, w)'
    <2>1. d # c /\ calls'[d] = calls[d]
      BY <1>1, <1>2, <1>5
    <2>2. PendingWrite(d, w)
      BY <1>5, <2>1 DEF SyncInv
    <2>3. \A e \in Calls : w \in Elements(calls'[e].persist) => e = d
      BY <1>1, <1>2, <2>2 DEF PendingWrite
    <2> QED
      BY <2>1, <2>2, <2>3 DEF PendingWrite
  <1> QED
    BY <1>4, <1>5 DEF SyncInv

\* After a start a variance that is not loose has a fresh row in both stores.
LEMMA StartSynced ==
    ASSUME NEW available \in BOOLEAN, recs = [v \in Variances |-> Memory!FreshRow],
           dbAvailable = available, loose = LooseAtStart(available, db),
           \A c \in Calls : calls[c] = Idle
    PROVE  SyncInv
  <1>1. \A c \in Calls : Elements(calls[c].persist) = {}
    BY ElementsOfNone DEF Idle
  <1>2. \A v \in Variances \ loose : db[v] = FreshRow
    BY DEF LooseAtStart
  <1>3. DbFollowsMemory
    BY <1>2, RowShapes DEF DbFollowsMemory
  <1>4. ~dbAvailable => loose = Variances
    BY DEF LooseAtStart
  <1> QED
    BY <1>1, <1>3, <1>4 DEF SyncInv

\* Unless one of the listed events touched it, a variance has in the database the
\* status and the narrative of memory, as soon as no transaction on it is
\* outstanding: sessions of several calls, refused commits and embeddings may
\* overlap in any way.
THEOREM DatabaseFollowsMemory == Spec => []DbFollowsMemory
  <1>1. Init => SyncInv
    BY StartSynced DEF Init
  <1>2. TypeInv /\ SyncInv /\ [Next]_vars => SyncInv'
    <2> SUFFICES ASSUME TypeInv, SyncInv, [Next]_vars
                 PROVE  SyncInv'
      OBVIOUS
    <2>0. /\ recs \in [Variances -> Memory!Rows]
          /\ db \in [Variances -> DbRows \cup {NoRow}]
          /\ calls \in [Calls -> CallStates]
          /\ loose \subseteq Variances
      BY DEF TypeInv, TypeOK
    <2>1. ASSUME NEW c \in Calls, NEW v \in Variances, NEW u \in Users,
                 NEW a \in Memory!Actions, NEW t \in Texts \cup {NoText},
                 SubmitReviewAction(c, v, u, a, t)
          PROVE  SyncInv'
      <3> DEFINE ids == <<v>>
                 status == Memory!TargetStatus(a)
                 published == Published(v, a)
      <3>1. /\ calls[c] = Idle /\ UNCHANGED <<db, dbAvailable>>
            /\ loose' = loose \cup ({v} \cap Persisting)
        BY <2>1 DEF SubmitReviewAction
      <3>2. PICK call : /\ calls' = [calls EXCEPT ![c] = call]
                        /\ Begun(call, ids, published, status, t)
        BY <2>1, ReviewBegins
      <3>3. ids \in Seq(Variances) /\ Elements(ids) = {v}
        BY ElementsOfOne
      <3>4. /\ recs'[v].status = status
            /\ recs'[v].text = IF t = NoText THEN recs[v].text ELSE t
            /\ \A w \in Variances \ {v} : recs'[w] = recs[w]
        BY <2>0, <2>1, MemoryReviews DEF SubmitReviewAction
      <3> HIDE DEF ids, status, published
      <3>5. /\ loose \subseteq loose' /\ loose' \subseteq Variances
            /\ Elements(ids) \cap Persisting \subseteq loose'
        BY <2>0, <3>1, <3>3
      <3>6. /\ \A w \in Variances \ Elements(ids) : recs'[w] = recs[w]
            /\ \A w \in Elements(ids) \ loose' :
                   /\ recs'[w].status = status
                   /\ recs'[w].text = IF t = NoText THEN recs[w].text ELSE t
        BY <3>3, <3>4
      <3>7. calls[c] = Idle /\ UNCHANGED <<db, dbAvailable>>
        BY <3>1
      <3>8. ids \in Seq(Variances)
        BY <3>3
      <3> QED
        BY ONLY <3>2, <3>5, <3>6, <3>7, <3>8, TypeInv, SyncInv, BegunSynced
    <2>2. ASSUME NEW c \in Calls, NEW ids \in BulkLists, NEW a \in BulkActions,
                 SubmitBulkApproval(c, ids, a)
          PROVE  SyncInv'
      <3>1. calls[c] = Idle /\ UNCHANGED <<db, dbAvailable>>
        BY <2>2 DEF SubmitBulkApproval
      <3>2. loose' = loose \cup {v \in Elements(ids) : recs'[v].status # "APPROVED"}
                           \cup (Elements(ids) \cap Persisting)
        BY <2>2 DEF SubmitBulkApproval
      <3>3. PICK call : /\ calls' = [calls EXCEPT ![c] = call]
                        /\ Begun(call, ids, ids, "APPROVED", NoText)
        BY <2>2, BulkBegins
      <3>4. /\ ids \in Seq(Variances) /\ Elements(ids) \subseteq Variances
            /\ \A w \in Variances : recs'[w].text = recs[w].text
            /\ \A w \in Variances \ Elements(ids) : recs'[w] = recs[w]
        BY <2>2, BulkMemory
      <3>5. /\ loose \subseteq loose' /\ loose' \subseteq Variances
            /\ Elements(ids) \cap Persisting \subseteq loose'
        BY <2>0, <3>2, <3>4
      <3>6. \A w \in Elements(ids) \ loose' :
                /\ recs'[w].status = "APPROVED"
                /\ recs'[w].text = IF NoText = NoText THEN recs[w].text ELSE NoText
        BY <3>2, <3>4
      <3> QED
        BY <3>1, <3>3, <3>4, <3>5, <3>6, BegunSynced
    <2>3. ASSUME NEW v \in Variances, RegenerateSummary(v)
          PROVE  SyncInv'
      <3>1. /\ UNCHANGED <<db, dbAvailable, calls>> /\ loose' = loose \cup {v}
            /\ \A w \in Variances \ {v} : recs'[w] = recs[w]
        BY <2>0, <2>3, MemoryRegenerates DEF RegenerateSummary
      <3>2. DbFollowsMemory' /\ (~dbAvailable' => loose' = Variances)
        BY <2>0, <3>1 DEF SyncInv, DbFollowsMemory, Persisting
      <3>3. ASSUME NEW d \in Calls, NEW w \in Elements(calls'[d].persist) \ loose'
            PROVE  PendingWrite(d, w)'
        <4>1. calls[d].persist \in Seq(Variances)
          BY <2>0 DEF CallStates
        <4>2. w \in Variances /\ w # v /\ w \notin loose
          BY <3>1, <3>3, <4>1, ElementsInS
        <4>3. PendingWrite(d, w)
          BY <3>1, <3>3, <4>2 DEF SyncInv
        <4> QED
          BY <3>1, <4>2, <4>3 DEF PendingWrite
      <3> QED
        BY <3>2, <3>3 DEF SyncInv
    <2>4. ASSUME NEW c \in Calls, LoadRow(c)
          PROVE  SyncInv'
      <3>1. /\ calls[c].stage = "load" /\ Current(c) \in Variances
            /\ UNCHANGED <<recs, db, dbAvailable>>
        BY <2>4, CurrentId DEF LoadRow
      <3>2. CASE db[Current(c)] = NoRow
        <4>1. /\ calls' = [calls EXCEPT ![c] = Persisted(calls[c])]
              /\ loose' = loose \cup {Current(c)}
          BY <2>4, <3>2 DEF LoadRow
        <4> QED
          BY <2>0, <3>1, <4>1, TransactionSynced
      <3>3. CASE db[Current(c)] # NoRow
        <4> DEFINE loaded == [calls[c] EXCEPT !.stage = "commit", !.loaded = db[Current(c)]]
        <4>1. calls' = [calls EXCEPT ![c] = loaded] /\ loose' = loose
          BY <2>4, <3>3 DEF LoadRow
        <4>2. /\ loaded.persist = calls[c].persist /\ loaded.status = calls[c].status
              /\ loaded.text = calls[c].text /\ loaded.loaded = db[Current(c)]
          BY <2>0 DEF CallStates
        <4> HIDE DEF loaded
        <4>3. /\ \A d \in Calls : calls'[d].persist = calls[d].persist
              /\ \A d \in Calls : /\ calls'[d].status = calls[d].status
                                  /\ calls'[d].text = calls[d].text
              /\ \A d \in Calls \ {c} : calls'[d] = calls[d]
              /\ calls'[c].loaded = db[Head(calls[c].persist)]
          BY <2>0, <4>1, <4>2 DEF Current
        <4>4. DbFollowsMemory' /\ (~dbAvailable' => loose' = Variances)
          BY <3>1, <4>1, <4>3 DEF SyncInv, DbFollowsMemory, Persisting
        <4>5. ASSUME NEW d \in Calls, NEW w \in Elements(calls'[d].persist) \ loose'
              PROVE  PendingWrite(d, w)'
          <5>1. PendingWrite(d, w)
            BY <4>1, <4>3, <4>5 DEF SyncInv
          <5> QED
            BY <3>1, <4>3, <5>1 DEF PendingWrite
        <4> QED
          BY <4>4, <4>5 DEF SyncInv
      <3> QED
        BY <3>2, <3>3
    <2>5. ASSUME NEW c \in Calls, CommitRow(c)
          PROVE  SyncInv'
      <3>1. /\ calls[c].stage = "commit"
            /\ db' = [db EXCEPT ![Current(c)] = Merge(db[Current(c)], calls[c])]
            /\ calls' = [calls EXCEPT ![c] = Persisted(calls[c])]
            /\ UNCHANGED <<recs, dbAvailable, loose>>
        BY <2>5 DEF CommitRow
      <3>2. /\ calls[c] \in CallStates /\ Current(c) \in Variances
            /\ Current(c) \in Elements(calls[c].persist)
        BY <3>1, CurrentId
      <3>3. db[Current(c)] \in DbRows
        BY <3>1 DEF TypeInv, CallsInOrder, Current
      <3>4. ASSUME Current(c) \notin loose
            PROVE  db'[Current(c)] = Stored(recs[Current(c)])
        <4>1. PendingWrite(c, Current(c))
          BY <3>2, <3>4 DEF SyncInv
        <4>2. calls[c].loaded = db[Current(c)]
          BY <3>1, <4>1 DEF PendingWrite, Current
        <4>3. db'[Current(c)] = [status |-> calls[c].status,
                                 text |-> IF calls[c].text = NoText THEN db[Current(c)].text
                                          ELSE calls[c].text]
          BY <2>0, <3>1, <3>2, <3>3, <4>2, MergedRow
        <4> QED
          BY <4>1, <4>3 DEF PendingWrite, Stored
      <3> QED
        BY <2>0, <3>1, <3>4, TransactionSynced
    <2>6. ASSUME NEW c \in Calls, PersistFails(c)
          PROVE  SyncInv'
      <3>1. /\ calls[c].stage \in {"load", "commit"}
            /\ calls' = [calls EXCEPT ![c] = Persisted(calls[c])]
            /\ loose' = loose \cup {Current(c)}
            /\ UNCHANGED <<recs, db, dbAvailable>>
        BY <2>6 DEF PersistFails
      <3>2. Current(c) \in Variances
        BY <3>1, CurrentId
      <3> QED
        BY <2>0, <3>1, <3>2, TransactionSynced
    <2>7. ASSUME NEW c \in Calls, Resume(c)
          PROVE  SyncInv'
      <3>1. /\ calls[c].stage = "resume" /\ calls' = [calls EXCEPT ![c] = Publish(calls[c], recs)]
            /\ UNCHANGED <<recs, db, dbAvailable, loose>>
        BY <2>7 DEF Resume
      <3>2. Publish(calls[c], recs).persist = <<>>
        BY <2>0, PublishCall DEF CallStates
      <3> QED
        BY <3>1, <3>2, OtherSynced
    <2>8. ASSUME NEW c \in Calls, Upsert(c)
          PROVE  SyncInv'
      <3> DEFINE rest == [calls[c] EXCEPT !.publish = Tail(calls[c].publish)]
      <3>1. /\ calls[c].stage = "upsert" /\ calls' = [calls EXCEPT ![c] = Publish(rest, recs)]
            /\ UNCHANGED <<recs, db, dbAvailable, loose>>
        BY <2>8 DEF Upsert
      <3>2. calls[c].publish \in Seq(Variances) /\ calls[c].publish # <<>>
        BY <2>0, <3>1 DEF TypeInv, CallsInOrder, CallStates
      <3>3. rest.publish \in Seq(Variances)
        BY <2>0, <3>2, ElementsOfTail DEF CallStates
      <3> HIDE DEF rest
      <3>4. Publish(rest, recs).persist = <<>>
        BY <2>0, <3>3, PublishCall
      <3> QED
        BY <3>1, <3>4, OtherSynced
    <2>9. CASE Restart
      <3>1. /\ recs' = [v \in Variances |-> Memory!FreshRow]
            /\ dbAvailable' \in BOOLEAN /\ loose' = LooseAtStart(dbAvailable', db')
            /\ \A c \in Calls : calls'[c] = Idle
        BY <2>9 DEF Restart
      <3>2. \A c \in Calls : Elements(calls'[c].persist) = {}
        BY <3>1, ElementsOfNone DEF Idle
      <3>3. \A v \in Variances \ loose' : db'[v] = FreshRow
        BY <3>1 DEF LooseAtStart
      <3>4. DbFollowsMemory'
        BY <3>1, <3>3, RowShapes DEF DbFollowsMemory
      <3>5. ~dbAvailable' => loose' = Variances
        BY <3>1 DEF LooseAtStart
      <3> QED
        BY <3>2, <3>4, <3>5 DEF SyncInv
    <2>10. CASE UNCHANGED vars
      BY <2>10 DEF vars, SyncInv, DbFollowsMemory, Persisting, PendingWrite
    <2> QED
      BY <2>1, <2>2, <2>3, <2>4, <2>5, <2>6, <2>7, <2>8, <2>9, <2>10 DEF Next
  <1>3. SyncInv => DbFollowsMemory
    BY DEF SyncInv
  <1>4. Spec => []TypeInv
    BY TypeCorrect DEF TypeInv
  <1> QED
    BY <1>1, <1>2, <1>3, <1>4, PTL DEF Spec
=============================================================================
