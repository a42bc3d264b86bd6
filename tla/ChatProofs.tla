------------------------------- MODULE ChatProofs -------------------------------
(***************************************************************************)
(* Theorems about Chat, for any questions, any number of conversations,    *)
(* streams and readers, and any lengths of the model's texts.              *)
(***************************************************************************)
EXTENDS Chat, FiniteSetTheorems, SequenceTheorems, WellFoundedInduction, TLAPS

-----------------------------------------------------------------------------
(* What an agent asks for *)

\* What a classifier can make of question q and of its page.
Contexts(q) ==
    {MergeContext(ExtractEntities(q), q.page), MergeContext(LlmEntities(q), q.page)}

\* All the requests that any agent makes about c.
Requests(c) ==
    {SummaryRequest(c, c.unit), SummaryRequest(c, Null), ListRequest(c), WaterfallRequest(c),
     TrendsRequest(c), DecompositionRequest(c), NettingRequest(c)}
    \cup (IF c.account = Null THEN {} ELSE {DrillRequest(c)})

AllContexts == UNION {Contexts(Questions[q]) : q \in DOMAIN Questions}
AllRequests == UNION {Requests(c) : c \in AllContexts}

\* The intents by name.
LEMMA IntentsByName ==
    Intents = {"decomposition", "netting", "review_status", "waterfall", "heatmap", "trend",
               "pl_summary", "variance_detail", "drill_down", "revenue_overview", "general"}
  BY DEF Intents, ToSet, PatternOrder

\* A nonempty set of numbers has a least one.
LEMMA LeastOfSome ==
    ASSUME NEW S \in SUBSET Nat, S # {}
    PROVE  Min(S) \in S
  <1>1. PICK x \in S : \A y \in S : <<y, x>> \notin OpToRel(<, Nat)
    BY NatLessThanWellFounded, WFMin
  <1>2. \A y \in S : <<y, x>> \in OpToRel(<, Nat) <=> y < x
    BY DEF OpToRel
  <1>3. \A y \in S : ~(y < x)
    BY <1>1, <1>2, Zenon
  <1>4. \A y \in S : x <= y
    BY <1>3
  <1> QED
    BY <1>4 DEF Min

\* The keyword classifier answers with an intent.
LEMMA KeywordsGiveIntents ==
    ASSUME NEW words \in SUBSET ToSet(PatternOrder)
    PROVE  ClassifyIntent(words) \in Intents
  <1> DEFINE Hits == {i \in DOMAIN PatternOrder : PatternOrder[i] \in words}
  <1>1. CASE words = {}
    BY <1>1 DEF ClassifyIntent, Intents
  <1>2. CASE words # {}
    <2>1. DOMAIN PatternOrder = 1..10
      BY DEF PatternOrder
    <2>2. Hits # {}
      BY <1>2 DEF ToSet
    <2>3. Min(Hits) \in Hits
      BY <2>1, <2>2, LeastOfSome
    <2>4. ClassifyIntent(words) = PatternOrder[Min(Hits)]
      BY <1>2 DEF ClassifyIntent
    <2> QED
      BY <2>3, <2>4 DEF Intents, ToSet
  <1> QED
    BY <1>1, <1>2

\* Whatever has been answered, the next request is one of those about the context.
LEMMA NextIsARequest ==
    ASSUME NEW intent \in Intents, NEW c, NEW got \in Seq(BOOLEAN),
           NextRequest(intent, c, got) # Null
    PROVE  NextRequest(intent, c, got) \in Requests(c)
  <1> DEFINE R == Requests(c)
             plan == CASE intent = "review_status" -> <<>>
                       [] intent \in {"pl_summary", "variance_detail", "drill_down"} ->
                              PLRequests(intent, c)
                       [] OTHER -> RevenueRequests(intent, c, got)
  <1>1. plan \in Seq(R)
    <2>1. \A r1, r2 \in R : <<>> \in Seq(R) /\ <<r1>> \in Seq(R) /\ <<r1, r2>> \in Seq(R)
      OBVIOUS
    <2>2. /\ {SummaryRequest(c, c.unit), SummaryRequest(c, Null), ListRequest(c),
              WaterfallRequest(c), TrendsRequest(c), DecompositionRequest(c), NettingRequest(c)}
             \subseteq R
          /\ c.account # Null => DrillRequest(c) \in R
      BY DEF Requests
    <2> HIDE DEF R
    <2>3. CASE intent = "review_status"
      BY <2>3, <2>1
    <2>4. CASE intent = "pl_summary"
      <3>1. plan = <<SummaryRequest(c, c.unit)>>
        BY <2>4 DEF PLRequests
      <3> QED
        BY <3>1, <2>1, <2>2
    <2>5. CASE intent \in {"variance_detail", "drill_down"}
      <3>1. plan = IF c.account = Null THEN <<>> ELSE <<DrillRequest(c)>>
        BY <2>5 DEF PLRequests
      <3> QED
        BY <3>1, <2>1, <2>2
    <2>6. CASE intent \in {"revenue_overview", "general"}
      <3>1. plan = <<SummaryRequest(c, c.unit), ListRequest(c)>>
        BY <2>6 DEF RevenueRequests
      <3> QED
        BY <3>1, <2>1, <2>2
    <2>7. CASE intent \in {"heatmap", "waterfall", "trend", "netting"}
      <3>1. plan \in {<<SummaryRequest(c, Null)>>, <<WaterfallRequest(c)>>, <<TrendsRequest(c)>>,
                      <<NettingRequest(c)>>}
        BY <2>7 DEF RevenueRequests
      <3> QED
        BY <3>1, <2>1, <2>2
    <2>8. CASE intent = "decomposition"
      <3> DEFINE more == IF got = <<TRUE>> THEN <<DecompositionRequest(c)>> ELSE <<>>
      <3>1. more \in Seq(R) /\ <<ListRequest(c)>> \in Seq(R)
        BY <2>1, <2>2
      <3>2. plan = <<ListRequest(c)>> \o more
        BY <2>8 DEF RevenueRequests
      <3> QED
        BY <3>1, <3>2, ConcatProperties
    <2> QED
      BY <2>3, <2>4, <2>5, <2>6, <2>7, <2>8, IntentsByName
  <1>2. NextRequest(intent, c, got) = IF Len(got) < Len(plan) THEN plan[Len(got) + 1] ELSE Null
    BY DEF NextRequest
  <1> HIDE DEF plan, R
  <1>3. Len(got) + 1 \in 1..Len(plan)
    BY <1>1, <1>2
  <1> QED
    BY <1>1, <1>2, <1>3 DEF R

-----------------------------------------------------------------------------
(* A stream and its agent *)

Phases == Running \cup {"waiting", "ended"}
Events == {"token", "data_table", "mini_chart", "confidence", "suggestion", "error", "done", "end"}

StreamTypes ==
    [conv : 1..MaxConversations, q : DOMAIN Questions, phase : Phases, tries : 0..MaxRetries,
     intent : Intents \cup {Null}, ctx : AllContexts \cup {Null}, got : Seq(BOOLEAN),
     made : SUBSET AllRequests, queue : Seq(Events), emitted : Seq(Events), done : BOOLEAN,
     shared : BOOLEAN]

Texts == Seq({"token"})

\* What can follow the text, suggestions and errors apart.
Illustrations ==
    {<<>>, <<"data_table">>, <<"mini_chart">>, <<"confidence">>, <<"data_table", "confidence">>}

\* What can follow the text.
Endings == {m \o <<"suggestion">> : m \in Illustrations} \cup {<<"error">>}

\* All that a stream with a text and an ending emits.
Whole(text, ending) == (text \o ending) \o <<"done", "end">>

\* The events fit the phase of the agent.
EventsFit(st) ==
    /\ st.phase \in {"waiting", "classify", "fetch"} => st.emitted = <<>>
    /\ st.phase = "narrate" => st.emitted \in Texts
    /\ st.phase = "ended" =>
          \E t \in Texts, x \in Endings : st.emitted = Whole(t, x)

\* A stream whose agent has done nothing wrong: done comes with its end, it knows what
\* to look for when it looks, and it asked about the question.
GoodStream(st) ==
    /\ st \in StreamTypes
    /\ st.done <=> st.phase = "ended"
    /\ st.phase \in {"fetch", "narrate"} =>
          st.intent \in Intents /\ st.ctx \in Contexts(Questions[st.q])
    /\ \A r \in st.made : \E c \in Contexts(Questions[st.q]) : r \in Requests(c)
    /\ EventsFit(st)

\* Agent's step from st to st2: it has put the same events into the queue and into what
\* was emitted, and has not touched the rest.
Emits(st, st2) ==
    /\ st2.conv = st.conv /\ st2.q = st.q /\ st2.shared = st.shared
    /\ \E events \in Seq(Events) :
          st2.queue = st.queue \o events /\ st2.emitted = st.emitted \o events

AgentMoves(st, st2) ==
    /\ st.phase # "ended"
    /\ GoodStream(st2)
    /\ Emits(st, st2)

\* What is a text and an ending is made of events.
LEMMA EndingsAreEvents ==
    /\ Illustrations \subseteq Seq(Events)
    /\ Endings \subseteq Seq(Events)
    /\ Texts \subseteq Seq(Events)
    /\ <<"done", "end">> \in Seq(Events)
    /\ <<>> \in Texts /\ <<"token">> \in Texts
    /\ \A t \in Texts, u \in Texts : t \o u \in Texts
  <1>1. Illustrations \subseteq Seq(Events)
    BY DEF Illustrations, Events
  <1>2. <<"suggestion">> \in Seq(Events) /\ <<"error">> \in Seq(Events)
    BY DEF Events
  <1>3. Endings \subseteq Seq(Events)
    BY <1>1, <1>2, ConcatProperties DEF Endings
  <1>4. {"token"} \subseteq Events
    BY DEF Events
  <1>5. Texts \subseteq Seq(Events)
    BY <1>4 DEF Texts
  <1>6. <<"done", "end">> \in Seq(Events) /\ <<>> \in Texts /\ <<"token">> \in Texts
    BY DEF Events, Texts
  <1>7. \A t \in Texts, u \in Texts : t \o u \in Texts
    BY ConcatProperties DEF Texts
  <1> QED
    BY <1>1, <1>3, <1>5, <1>6, <1>7

\* Events can be joined in any order.
LEMMA JoinedEvents ==
    \A t, u, v \in Seq(Events) : (t \o u) \o v = t \o (u \o v)
  <1> TAKE t, u, v \in Seq(Events)
  <1>1. t \in Seq(Events) /\ u \in Seq(Events) /\ v \in Seq(Events)
    OBVIOUS
  <1> HIDE DEF Events
  <1> QED
    BY <1>1, ConcatAssociative

\* Two events, joined.
LEMMA PairOfEvents ==
    ASSUME NEW a \in Events, NEW b \in Events
    PROVE  <<a>> \o <<b>> = <<a, b>>
  <1> DEFINE joined == <<a>> \o <<b>>
             pair == <<a, b>>
  <1>1. /\ <<a>> \in Seq(Events) /\ <<b>> \in Seq(Events) /\ pair \in Seq(Events)
        /\ Len(<<a>>) = 1 /\ Len(<<b>>) = 1 /\ Len(pair) = 2
        /\ <<a>>[1] = a /\ <<b>>[1] = b /\ pair[1] = a /\ pair[2] = b
    OBVIOUS
  <1>2. joined \in Seq(Events) /\ Len(joined) = 2 /\ joined[1] = a /\ joined[2] = b
    BY <1>1, ConcatProperties
  <1> HIDE DEF joined, pair
  <1>3. \A i \in 1..Len(joined) : joined[i] = pair[i]
    <2> TAKE i \in 1..Len(joined)
    <2>1. i = 1 \/ i = 2
      BY <1>2
    <2> QED
      BY <2>1, <1>1, <1>2
  <1>4. joined = pair
    BY <1>1, <1>2, <1>3, SeqEqual
  <1> QED
    BY <1>4 DEF joined, pair

\* An agent that returns leaves its text, an ending, done and the sentinel.
LEMMA ReturnsWhole ==
    ASSUME NEW st, GoodStream(st), st.phase # "ended",
           NEW t \in Texts, NEW x \in Endings, st.emitted \in Texts
    PROVE  AgentMoves(st, EndWith(st, t \o x))
  <1> DEFINE st2 == EndWith(st, t \o x)
             close == <<"done", "end">>
             events == (t \o x) \o close
  <1>1. /\ st \in StreamTypes /\ ~st.done
        /\ st.queue \in Seq(Events) /\ st.emitted \in Seq(Events)
    BY DEF GoodStream, StreamTypes
  <1>2. /\ t \in Seq(Events) /\ x \in Seq(Events) /\ close \in Seq(Events)
        /\ t \o x \in Seq(Events) /\ events \in Seq(Events)
        /\ <<"done">> \in Seq(Events) /\ "end" \in Events
    BY EndingsAreEvents, ConcatProperties DEF Events
  <1>3. \A u \in Seq(Events) : Append((u \o (t \o x)) \o <<"done">>, "end") = u \o events
    <2> SUFFICES ASSUME NEW u \in Seq(Events)
                 PROVE  Append((u \o (t \o x)) \o <<"done">>, "end") = u \o events
      OBVIOUS
    <2> DEFINE v == u \o (t \o x)
    <2>1. v \in Seq(Events)
      BY <1>2, ConcatProperties
    <2>2. Append(v \o <<"done">>, "end") = v \o close
      <3> HIDE DEF v
      <3> QED
        BY <2>1
    <2>3. v \o close = u \o events
      BY <1>2, ConcatAssociative
    <2> QED
      BY <2>2, <2>3
  <1>4. st2 = [st EXCEPT !.queue = Append((st.queue \o (t \o x)) \o <<"done">>, "end"),
                         !.emitted = Append((st.emitted \o (t \o x)) \o <<"done">>, "end"),
                         !.done = TRUE, !.phase = "ended", !.tries = 0, !.intent = Null,
                         !.ctx = Null, !.got = <<>>, !.made = {}]
    BY <1>1 DEF EndWith, EmitDone, Put, StreamTypes
  <1>5. st2 = [st EXCEPT !.queue = st.queue \o events, !.emitted = st.emitted \o events,
                         !.done = TRUE, !.phase = "ended", !.tries = 0, !.intent = Null,
                         !.ctx = Null, !.got = <<>>, !.made = {}]
    BY <1>1, <1>3, <1>4
  <1> HIDE DEF st2, events, close
  <1>6. st2 \in StreamTypes
    <2>1. st.queue \o events \in Seq(Events) /\ st.emitted \o events \in Seq(Events)
      BY <1>1, <1>2, ConcatProperties
    <2>2. 0 \in 0..MaxRetries /\ <<>> \in Seq(BOOLEAN) /\ "ended" \in Phases
      BY ChatConstantsOK DEF Phases
    <2> QED
      BY <1>1, <1>5, <2>1, <2>2 DEF StreamTypes
  <1>7. /\ st2.conv = st.conv /\ st2.q = st.q /\ st2.shared = st.shared
        /\ st2.queue = st.queue \o events /\ st2.emitted = st.emitted \o events
        /\ st2.phase = "ended" /\ st2.done = TRUE /\ st2.made = {}
    BY <1>1, <1>5 DEF StreamTypes
  <1>8. Emits(st, st2)
    BY <1>2, <1>7 DEF Emits
  <1>9. EventsFit(st2)
    <2>1. st.emitted \o t \in Texts
      BY EndingsAreEvents
    <2>2. st2.emitted = ((st.emitted \o t) \o x) \o close
      <3>1. st.emitted \o events = (st.emitted \o (t \o x)) \o close
        <4>1. events = (t \o x) \o close
          BY DEF events
        <4>2. st.emitted \o ((t \o x) \o close) = (st.emitted \o (t \o x)) \o close
          BY <1>1, <1>2, JoinedEvents, Zenon
        <4> QED
          BY <4>1, <4>2
      <3>2. st.emitted \o (t \o x) = (st.emitted \o t) \o x
        BY <1>1, <1>2, JoinedEvents, Zenon
      <3> QED
        BY <1>7, <3>1, <3>2, Zenon
    <2> QED
      BY <1>7, <2>1, <2>2 DEF EventsFit, Whole, close
  <1> QED
    BY <1>6, <1>7, <1>8, <1>9 DEF AgentMoves, GoodStream, st2

\* What follows the text when the agent is done illustrates it.
LEMMA TextsIllustrated ==
    ASSUME NEW intent \in Intents, NEW got
    PROVE  AfterText(intent, got) \in Illustrations
  <1>1. CASE intent \in {"revenue_overview", "general"}
    <2>1. AfterText(intent, got) =
            (IF got[2] THEN <<"data_table">> ELSE <<>>) \o <<"confidence">>
      BY <1>1 DEF AfterText
    <2>2. <<"data_table">> \o <<"confidence">> = <<"data_table", "confidence">>
      BY PairOfEvents DEF Events
    <2>3. <<>> \o <<"confidence">> = <<"confidence">>
      <3>1. <<"confidence">> \in Seq(Events)
        BY DEF Events
      <3> QED
        BY <3>1, ConcatEmptySeq
    <2>4. CASE got[2]
      BY <2>1, <2>2, <2>4 DEF Illustrations
    <2>5. CASE ~got[2]
      BY <2>1, <2>3, <2>5 DEF Illustrations
    <2> QED
      BY <2>4, <2>5
  <1>2. CASE intent \notin {"revenue_overview", "general"}
    BY <1>2, IntentsByName DEF AfterText, Illustrations
  <1> QED
    BY <1>1, <1>2

\* The agent that goes on does nothing wrong.
LEMMA ContinuesWell ==
    ASSUME NEW st, GoodStream(st), st.phase \in {"waiting", "classify", "fetch"},
           st.intent \in Intents, st.ctx \in Contexts(Questions[st.q])
    PROVE  AgentMoves(st, Continue(st))
  <1> DEFINE r == NextRequest(st.intent, st.ctx, st.got)
             st2 == Continue(st)
  <1>1. /\ st \in StreamTypes /\ ~st.done /\ st.emitted = <<>> /\ st.phase # "ended"
        /\ st.queue \in Seq(Events) /\ st.got \in Seq(BOOLEAN) /\ st.q \in DOMAIN Questions
    BY DEF GoodStream, StreamTypes, EventsFit
  <1>2. <<>> \in Seq(Events) /\ st.queue \o <<>> = st.queue /\ st.emitted \o <<>> = st.emitted
    BY <1>1, ConcatEmptySeq
  <1>3. CASE r # Null
    <2>1. r \in Requests(st.ctx)
      BY <1>1, <1>3, NextIsARequest
    <2>2. r \in AllRequests
      BY <1>1, <2>1 DEF AllRequests, AllContexts
    <2>3. st2 = [st EXCEPT !.phase = "fetch", !.made = st.made \cup {r}]
      BY <1>1, <1>3 DEF Continue, StreamTypes
    <2> HIDE DEF r, st2
    <2>4. st2 \in StreamTypes
      BY <1>1, <2>2, <2>3 DEF StreamTypes, Phases, Running
    <2>5. /\ st2.conv = st.conv /\ st2.q = st.q /\ st2.shared = st.shared
          /\ st2.queue = st.queue /\ st2.emitted = st.emitted /\ st2.phase = "fetch"
          /\ st2.done = st.done /\ st2.made = st.made \cup {r}
          /\ st2.intent = st.intent /\ st2.ctx = st.ctx
      BY <1>1, <2>3 DEF StreamTypes
    <2>6. Emits(st, st2)
      BY <1>2, <2>5 DEF Emits
    <2>7. EventsFit(st2)
      BY <1>1, <2>5 DEF EventsFit
    <2>8. \A x \in st2.made : \E c \in Contexts(Questions[st2.q]) : x \in Requests(c)
      BY <2>1, <2>5 DEF GoodStream
    <2> QED
      BY <1>1, <2>4, <2>5, <2>6, <2>7, <2>8 DEF AgentMoves, GoodStream, st2
  <1>4. CASE r = Null /\ ModelWrites(st.intent) /\ modelAvailable
    <2>1. st2 = [st EXCEPT !.phase = "narrate"]
      BY <1>4 DEF Continue
    <2> HIDE DEF r, st2
    <2>2. st2 \in StreamTypes
      BY <1>1, <2>1 DEF StreamTypes, Phases, Running
    <2>3. /\ st2.conv = st.conv /\ st2.q = st.q /\ st2.shared = st.shared
          /\ st2.queue = st.queue /\ st2.emitted = st.emitted /\ st2.phase = "narrate"
          /\ st2.done = st.done /\ st2.made = st.made
          /\ st2.intent = st.intent /\ st2.ctx = st.ctx
      BY <1>1, <2>1 DEF StreamTypes
    <2>4. Emits(st, st2)
      BY <1>2, <2>3 DEF Emits
    <2>5. EventsFit(st2)
      BY <1>1, <2>3, EndingsAreEvents DEF EventsFit
    <2> QED
      BY <1>1, <2>2, <2>3, <2>4, <2>5 DEF AgentMoves, GoodStream, st2
  <1>5. CASE r = Null /\ ~(ModelWrites(st.intent) /\ modelAvailable)
    <2> DEFINE end == AfterText(st.intent, st.got) \o <<"suggestion">>
    <2>1. <<"token">> \in Texts /\ end \in Endings /\ st.emitted \in Texts
      BY <1>1, TextsIllustrated, EndingsAreEvents DEF Endings
    <2>2. st2 = EndWith(st, <<"token">> \o AfterText(st.intent, st.got) \o <<"suggestion">>)
      BY <1>5 DEF Continue
    <2>3. (<<"token">> \o AfterText(st.intent, st.got)) \o <<"suggestion">> = <<"token">> \o end
      <3>1. /\ AfterText(st.intent, st.got) \in Seq(Events)
            /\ <<"token">> \in Seq(Events) /\ <<"suggestion">> \in Seq(Events)
        BY TextsIllustrated, EndingsAreEvents DEF Events
      <3> QED
        BY <3>1, JoinedEvents, Zenon
    <2>4. AgentMoves(st, EndWith(st, <<"token">> \o end))
      BY <1>1, <2>1, ReturnsWhole
    <2> QED
      BY <2>2, <2>3, <2>4
  <1> QED
    BY <1>3, <1>4, <1>5

\* A step that emits nothing.
Silent(st, st2) ==
    /\ st2.conv = st.conv /\ st2.q = st.q /\ st2.shared = st.shared
    /\ st2.queue = st.queue /\ st2.emitted = st.emitted

\* After a step that emits nothing, what is emitted counts for both.
LEMMA SilentThenMoves ==
    ASSUME NEW st, NEW mid, NEW st2, st.phase # "ended", Silent(st, mid), AgentMoves(mid, st2)
    PROVE  AgentMoves(st, st2)
  BY DEF Silent, AgentMoves, Emits

\* A step that emits nothing and goes wrong nowhere.
LEMMA SilentMoves ==
    ASSUME NEW st, NEW st2, GoodStream(st), st.phase # "ended", Silent(st, st2), GoodStream(st2)
    PROVE  AgentMoves(st, st2)
  <1>1. st.queue \in Seq(Events) /\ st.emitted \in Seq(Events)
    BY DEF GoodStream, StreamTypes
  <1>2. <<>> \in Seq(Events) /\ st.queue \o <<>> = st.queue /\ st.emitted \o <<>> = st.emitted
    BY <1>1, ConcatEmptySeq
  <1> QED
    BY <1>2 DEF Silent, AgentMoves, Emits

\* An agent that knows the intent and the entities does nothing wrong.
LEMMA RoutedWell ==
    ASSUME NEW st, GoodStream(st), st.phase \in {"waiting", "classify"},
           NEW intent \in Intents,
           NEW e \in {ExtractEntities(Questions[st.q]), LlmEntities(Questions[st.q])}
    PROVE  AgentMoves(st, Routed(st, intent, e))
  <1> DEFINE c == MergeContext(e, Questions[st.q].page)
             mid == [st EXCEPT !.intent = intent, !.ctx = c]
  <1>1. st \in StreamTypes /\ st.q \in DOMAIN Questions
    BY DEF GoodStream, StreamTypes
  <1>2. c \in Contexts(Questions[st.q]) /\ c \in AllContexts
    BY <1>1 DEF Contexts, AllContexts
  <1>3. Routed(st, intent, e) = Continue(mid)
    BY DEF Routed
  <1> HIDE DEF c
  <1>4. mid \in StreamTypes
    BY <1>1, <1>2 DEF StreamTypes
  <1>5. /\ Silent(st, mid) /\ mid.phase = st.phase /\ mid.intent = intent /\ mid.ctx = c
        /\ mid.done = st.done /\ mid.made = st.made /\ mid.q = st.q /\ mid.emitted = st.emitted
    BY <1>1 DEF StreamTypes, Silent
  <1> HIDE DEF mid
  <1>6. EventsFit(mid)
    BY <1>5 DEF EventsFit, GoodStream
  <1>7. GoodStream(mid)
    BY <1>2, <1>4, <1>5, <1>6 DEF GoodStream
  <1>8. AgentMoves(mid, Continue(mid))
    BY <1>2, <1>5, <1>7, ContinuesWell
  <1> QED
    BY <1>3, <1>5, <1>8, SilentThenMoves

\* The keyword classifier's way.
LEMMA KeywordsWell ==
    ASSUME NEW st, GoodStream(st), st.phase \in {"waiting", "classify"}
    PROVE  AgentMoves(st, ByKeywords(st))
  <1>1. st.q \in DOMAIN Questions
    BY DEF GoodStream, StreamTypes
  <1>2. ClassifyIntent(Questions[st.q].words) \in Intents
    BY <1>1, KeywordsGiveIntents, ChatConstantsOK
  <1> QED
    BY <1>2, RoutedWell DEF ByKeywords

\* The steps of the agent of stream s.
AgentNext(s) ==
    \/ StartAgent(s) \/ RateLimited(s) \/ Classified(s) \/ Fetched(s)
    \/ Chunk(s) \/ Narrated(s) \/ Raises(s) \/ TimesOut(s)

\* An agent may end with an apology, with a suggestion or with an error.
LEMMA ShortEndings ==
    /\ <<"token", "suggestion">> = <<"token">> \o <<"suggestion">>
    /\ <<"suggestion">> \in Endings /\ <<"error">> \in Endings
    /\ <<"error">> = <<>> \o <<"error">>
  <1>1. /\ <<"suggestion">> \in Seq(Events) /\ <<"error">> \in Seq(Events)
        /\ "token" \in Events /\ "suggestion" \in Events
    BY DEF Events
  <1>2. <<>> \o <<"suggestion">> = <<"suggestion">> /\ <<>> \o <<"error">> = <<"error">>
    BY <1>1, ConcatEmptySeq
  <1>3. <<"suggestion">> \in Endings
    BY <1>2 DEF Endings, Illustrations
  <1>4. <<"token">> \o <<"suggestion">> = <<"token", "suggestion">>
    BY <1>1, PairOfEvents
  <1> QED
    BY <1>2, <1>3, <1>4 DEF Endings

\* What any agent does, it does well.
LEMMA AgentsMoveWell ==
    ASSUME NEW s \in DOMAIN streams, GoodStream(streams[s]), AgentNext(s)
    PROVE  \E st2 : AgentMoves(streams[s], st2) /\ AgentStep(s, st2)
  <1> DEFINE st == streams[s]
  <1>1. GoodStream(st) /\ st \in StreamTypes /\ st.q \in DOMAIN Questions
    BY DEF GoodStream, StreamTypes
  <1>2. ASSUME st.phase \in Running \cup {"waiting"}, NEW text \in {<<>>, <<"token">>},
               AgentStep(s, EndWith(st, text \o <<"error">>))
        PROVE  \E st2 : AgentMoves(st, st2) /\ AgentStep(s, st2)
    <2>1. st.emitted \in Texts /\ st.phase # "ended"
      BY <1>1, <1>2, EndingsAreEvents DEF GoodStream, EventsFit, Running
    <2>2. text \in Texts
      BY EndingsAreEvents
    <2>3. AgentMoves(st, EndWith(st, text \o <<"error">>))
      BY <1>1, <2>1, <2>2, ShortEndings, EndingsAreEvents, ReturnsWhole
    <2> QED
      BY <1>2, <2>3
  <1>3. CASE StartAgent(s)
    <2>1. st.phase = "waiting" /\ st.emitted = <<>>
      BY <1>1, <1>3 DEF StartAgent, GoodStream, EventsFit
    <2>2. CASE ~connected
      <3>1. AgentStep(s, EndWith(st, <<"token", "suggestion">>))
        BY <1>3, <2>2 DEF StartAgent
      <3>2. AgentMoves(st, EndWith(st, <<"token">> \o <<"suggestion">>))
        BY <1>1, <2>1, ShortEndings, EndingsAreEvents, ReturnsWhole
      <3> QED
        BY <3>1, <3>2, ShortEndings
    <2>3. CASE connected /\ modelAvailable
      <3> DEFINE st2 == [st EXCEPT !.phase = "classify"]
      <3>1. AgentStep(s, st2)
        BY <1>3, <2>3 DEF StartAgent
      <3>2. st2 \in StreamTypes
        BY <1>1 DEF StreamTypes, Phases, Running
      <3>3. /\ Silent(st, st2) /\ st2.phase = "classify" /\ st2.done = st.done
            /\ st2.made = st.made /\ st2.q = st.q /\ st2.emitted = st.emitted
        BY <1>1 DEF StreamTypes, Silent
      <3> HIDE DEF st2
      <3>4. GoodStream(st2)
        BY <1>1, <2>1, <3>2, <3>3 DEF GoodStream, EventsFit
      <3> QED
        BY <1>1, <2>1, <3>1, <3>3, <3>4, SilentMoves
    <2>4. CASE connected /\ ~modelAvailable
      <3>1. AgentStep(s, ByKeywords(st))
        BY <1>3, <2>4 DEF StartAgent
      <3> QED
        BY <1>1, <2>1, <3>1, KeywordsWell
    <2> QED
      BY <2>2, <2>3, <2>4
  <1>4. CASE RateLimited(s)
    <2> DEFINE st2 == [st EXCEPT !.tries = st.tries + 1]
    <2>1. AgentStep(s, st2) /\ st.phase = "classify" /\ st.tries < MaxRetries
      BY <1>4 DEF RateLimited
    <2>2. st.tries + 1 \in 0..MaxRetries
      BY <1>1, <2>1, ChatConstantsOK DEF StreamTypes
    <2>3. st2 \in StreamTypes
      BY <1>1, <2>2 DEF StreamTypes
    <2>4. /\ Silent(st, st2) /\ st2.phase = st.phase /\ st2.done = st.done
          /\ st2.made = st.made /\ st2.q = st.q /\ st2.emitted = st.emitted
      BY <1>1 DEF StreamTypes, Silent
    <2> HIDE DEF st2
    <2>5. GoodStream(st2)
      BY <1>1, <2>1, <2>3, <2>4 DEF GoodStream, EventsFit
    <2> QED
      BY <1>1, <2>1, <2>4, <2>5, SilentMoves
  <1>5. CASE Classified(s)
    <2>1. st.phase = "classify"
      BY <1>5 DEF Classified
    <2>2. CASE AgentStep(s, ByKeywords(st))
      BY <1>1, <2>1, <2>2, KeywordsWell
    <2>3. ASSUME NEW i \in Questions[st.q].words,
                 AgentStep(s, Routed(st, i, LlmEntities(Questions[st.q])))
          PROVE  \E st2 : AgentMoves(st, st2) /\ AgentStep(s, st2)
      <3>1. i \in Intents
        BY <1>1, ChatConstantsOK DEF Intents
      <3> QED
        BY <1>1, <2>1, <2>3, <3>1, RoutedWell
    <2> QED
      BY <1>5, <2>2, <2>3 DEF Classified
  <1>6. CASE Fetched(s)
    <2>1. st.phase = "fetch" /\ st.intent \in Intents /\ st.ctx \in Contexts(Questions[st.q])
      BY <1>1, <1>6 DEF Fetched, GoodStream
    <2>2. PICK data \in BOOLEAN : AgentStep(s, Continue([st EXCEPT !.got = Append(@, data)]))
      BY <1>6 DEF Fetched
    <2> DEFINE mid == [st EXCEPT !.got = Append(st.got, data)]
    <2>3. Append(st.got, data) \in Seq(BOOLEAN)
      BY <1>1 DEF StreamTypes
    <2>4. mid \in StreamTypes
      BY <1>1, <2>3 DEF StreamTypes
    <2>5. /\ Silent(st, mid) /\ mid.phase = st.phase /\ mid.done = st.done
          /\ mid.made = st.made /\ mid.q = st.q /\ mid.emitted = st.emitted
          /\ mid.intent = st.intent /\ mid.ctx = st.ctx
      BY <1>1 DEF StreamTypes, Silent
    <2>6. AgentStep(s, Continue(mid))
      BY <2>2
    <2> HIDE DEF mid
    <2>7. GoodStream(mid)
      BY <1>1, <2>4, <2>5 DEF GoodStream, EventsFit
    <2>8. AgentMoves(mid, Continue(mid))
      BY <2>1, <2>5, <2>7, ContinuesWell
    <2> QED
      BY <2>1, <2>5, <2>6, <2>8, SilentThenMoves
  <1>7. CASE Chunk(s)
    <2> DEFINE chunk == <<"token">>
               st2 == [st EXCEPT !.queue = st.queue \o chunk, !.emitted = st.emitted \o chunk]
    <2>1. st.phase = "narrate" /\ ~st.done /\ st.emitted \in Texts /\ st.queue \in Seq(Events)
      BY <1>1, <1>7 DEF Chunk, GoodStream, EventsFit, StreamTypes
    <2>2. AgentStep(s, st2)
      BY <1>7, <2>1 DEF Chunk, Put
    <2>3. chunk \in Texts /\ chunk \in Seq(Events) /\ Texts \subseteq Seq(Events)
      BY EndingsAreEvents
    <2> HIDE DEF chunk
    <2>4. st.emitted \o chunk \in Texts /\ st.queue \o chunk \in Seq(Events)
      BY <2>1, <2>3, EndingsAreEvents, ConcatProperties
    <2>5. st2 \in StreamTypes
      BY <1>1, <2>3, <2>4 DEF StreamTypes
    <2>6. /\ st2.conv = st.conv /\ st2.q = st.q /\ st2.shared = st.shared
          /\ st2.queue = st.queue \o chunk /\ st2.emitted = st.emitted \o chunk
          /\ st2.phase = st.phase /\ st2.done = st.done /\ st2.made = st.made
          /\ st2.intent = st.intent /\ st2.ctx = st.ctx
      BY <1>1 DEF StreamTypes
    <2> HIDE DEF st2
    <2>7. GoodStream(st2)
      BY <1>1, <2>1, <2>4, <2>5, <2>6 DEF GoodStream, EventsFit
    <2>8. Emits(st, st2)
      BY <2>3, <2>6 DEF Emits
    <2> QED
      BY <2>1, <2>2, <2>7, <2>8 DEF AgentMoves
  <1>8. CASE Narrated(s)
    <2> DEFINE end == AfterText(st.intent, st.got) \o <<"suggestion">>
    <2>1. st.phase = "narrate" /\ st.emitted \in Texts /\ st.intent \in Intents
      BY <1>1, <1>8 DEF Narrated, GoodStream, EventsFit
    <2>2. end \in Endings /\ end \in Seq(Events)
      BY <2>1, TextsIllustrated, EndingsAreEvents DEF Endings
    <2>3. AgentStep(s, EndWith(st, end))
      BY <1>8 DEF Narrated
    <2> HIDE DEF end
    <2>4. end = <<>> \o end
      BY <2>2, ConcatEmptySeq
    <2>5. AgentMoves(st, EndWith(st, <<>> \o end))
      BY <1>1, <2>1, <2>2, EndingsAreEvents, ReturnsWhole
    <2> QED
      BY <2>3, <2>4, <2>5
  <1>9. CASE Raises(s)
    BY <1>2, <1>9 DEF Raises, Running
  <1>10. CASE TimesOut(s)
    BY <1>2, <1>10, ShortEndings DEF TimesOut
  <1> QED
    BY <1>3, <1>4, <1>5, <1>6, <1>7, <1>8, <1>9, <1>10 DEF AgentNext

-----------------------------------------------------------------------------
(* The state is of the right types, and all streams are good *)

ReaderTypes ==
    [stream : Nat, got : Seq(Events), state : {"reading", "ended", "gone"}]

TypeInv ==
    /\ created \in 0..MaxConversations
    /\ DOMAIN conversations \subseteq 1..created
    /\ \A c \in DOMAIN conversations : conversations[c] \in 1..Len(streams)
    /\ active \in [1..MaxConversations -> DOMAIN streams \cup {Null}]
    /\ streams \in Seq(StreamTypes)
    /\ Len(streams) <= MaxStreams
    /\ \A s \in DOMAIN streams : GoodStream(streams[s]) /\ streams[s].conv <= created
    /\ readers \in Seq(ReaderTypes)
    /\ \A r \in DOMAIN readers : readers[r].stream \in DOMAIN streams

\* A queue is what comes before its last event, and that.
LEMMA FrontAndLast ==
    ASSUME NEW queue \in Seq(Events), queue # <<>>
    PROVE  /\ Front(queue) \in Seq(Events) /\ Last(queue) \in Events
           /\ Append(Front(queue), Last(queue)) = queue
  <1> DEFINE n == Len(queue)
             front == SubSeq(queue, 1, n - 1)
  <1>1. n \in Nat /\ n > 0 /\ Front(queue) = front /\ Last(queue) = queue[n]
    BY DEF Front, Last
  <1>2. queue[n] \in Events
    BY <1>1
  <1>3. front \in Seq(Events) /\ Len(front) = n - 1 /\ \A i \in 1..n - 1 : front[i] = queue[i]
    <2>1. n - 1 \in 1 - 1..Len(queue) /\ 1 \in 1..Len(queue) + 1
      BY <1>1
    <2> HIDE DEF n
    <2> QED
      BY <1>1, <2>1, SubSeqProperties
  <1>4. Append(front, queue[n]) = queue
    <2> HIDE DEF front, n
    <2>1. /\ Append(front, queue[n]) \in Seq(Events) /\ Len(Append(front, queue[n])) = n
          /\ \A i \in 1..n - 1 : Append(front, queue[n])[i] = queue[i]
          /\ Append(front, queue[n])[n] = queue[n]
      BY <1>1, <1>2, <1>3, AppendProperties
    <2>2. \A i \in 1..n : Append(front, queue[n])[i] = queue[i]
      <3> TAKE i \in 1..n
      <3>1. i \in 1..n - 1 \/ i = n
        BY <1>1
      <3> QED
        BY <2>1, <3>1
    <2>3. Len(queue) = n
      BY DEF n
    <2> QED
      BY <2>1, <2>2, <2>3, SeqEqual
  <1> QED
    BY <1>1, <1>2, <1>3, <1>4

\* Whether it is shared and what waits in its queue make no stream a bad one.
LEMMA ReadStream ==
    ASSUME NEW st, GoodStream(st), NEW queue \in Seq(Events), NEW shared \in BOOLEAN
    PROVE  /\ GoodStream([st EXCEPT !.queue = queue])
           /\ GoodStream([st EXCEPT !.shared = shared])
  <1> DEFINE st2 == [st EXCEPT !.queue = queue]
             st3 == [st EXCEPT !.shared = shared]
  <1>1. st \in StreamTypes
    BY DEF GoodStream
  <1>2. /\ st2 \in StreamTypes /\ st2.phase = st.phase /\ st2.done = st.done
        /\ st2.made = st.made /\ st2.q = st.q /\ st2.emitted = st.emitted
        /\ st2.intent = st.intent /\ st2.ctx = st.ctx
    BY <1>1 DEF StreamTypes
  <1>3. /\ st3 \in StreamTypes /\ st3.phase = st.phase /\ st3.done = st.done
        /\ st3.made = st.made /\ st3.q = st.q /\ st3.emitted = st.emitted
        /\ st3.intent = st.intent /\ st3.ctx = st.ctx
    BY <1>1 DEF StreamTypes
  <1> HIDE DEF st2, st3
  <1>4. GoodStream(st2)
    BY <1>2 DEF GoodStream, EventsFit
  <1>5. GoodStream(st3)
    BY <1>3 DEF GoodStream, EventsFit
  <1> QED
    BY <1>4, <1>5 DEF st2, st3

\* A new stream is a good one.
LEMMA StreamStartsWell ==
    ASSUME NEW c \in 1..MaxConversations, NEW q \in DOMAIN Questions
    PROVE  GoodStream(NewStream(c, q)) /\ NewStream(c, q).conv = c
  <1>1. 0 \in 0..MaxRetries
    BY ChatConstantsOK
  <1>2. NewStream(c, q) \in StreamTypes
    BY <1>1 DEF NewStream, StreamTypes, Phases
  <1> QED
    BY <1>2 DEF NewStream, GoodStream, EventsFit

\* Streams whose one member was replaced by a good one of the same conversation.
LEMMA ReplacedStream ==
    ASSUME TypeInv, NEW s \in DOMAIN streams, NEW st, GoodStream(st), st.conv = streams[s].conv,
           streams' = [streams EXCEPT ![s] = st]
    PROVE  /\ streams' \in Seq(StreamTypes) /\ Len(streams') = Len(streams)
           /\ DOMAIN streams' = DOMAIN streams
           /\ \A x \in DOMAIN streams : streams'[x] = IF x = s THEN st ELSE streams[x]
           /\ \A x \in DOMAIN streams : GoodStream(streams'[x]) /\ streams'[x].conv = streams[x].conv
  <1>1. streams \in Seq(StreamTypes) /\ st \in StreamTypes
    BY DEF TypeInv, GoodStream
  <1>2. /\ streams' \in Seq(StreamTypes) /\ Len(streams') = Len(streams)
        /\ DOMAIN streams' = DOMAIN streams
        /\ \A x \in DOMAIN streams : streams'[x] = IF x = s THEN st ELSE streams[x]
    BY <1>1
  <1> QED
    BY <1>2 DEF TypeInv

\* What the steps of the responses do: to one reader, and to what is active.
LEMMA ReceiveStep ==
    ASSUME TypeInv, NEW r \in DOMAIN readers, Receive(r)
    PROVE  LET s == readers[r].stream
               queue == streams[s].queue
               last == Last(queue) = "end"
               got == IF streams[s].shared THEN <<>>
                      ELSE readers[r].got \o (IF last THEN Front(queue) ELSE queue)
           IN  /\ s \in DOMAIN streams
               /\ queue \in Seq(Events) /\ queue # <<>> /\ got \in Seq(Events)
               /\ readers[r] \in ReaderTypes /\ readers[r].state = "reading"
               /\ streams' = [streams EXCEPT ![s] = [streams[s] EXCEPT !.queue = <<>>]]
               /\ readers' = [readers EXCEPT ![r] =
                      [readers[r] EXCEPT !.state = IF last THEN "ended" ELSE "reading",
                                         !.got = got]]
               /\ active' = IF last THEN [active EXCEPT ![streams[s].conv] = Null] ELSE active
               /\ UNCHANGED <<conversations, created>>
  <1> DEFINE s == readers[r].stream
             queue == streams[s].queue
             last == Last(queue) = "end"
             events == IF last THEN Front(queue) ELSE queue
             got == IF streams[s].shared THEN <<>> ELSE readers[r].got \o events
  <1>1. readers \in Seq(ReaderTypes) /\ readers[r] \in ReaderTypes /\ s \in DOMAIN streams
    BY DEF TypeInv
  <1>2. streams[s] \in StreamTypes /\ queue \in Seq(Events) /\ readers[r].got \in Seq(Events)
    BY <1>1 DEF TypeInv, GoodStream, StreamTypes, ReaderTypes
  <1>3. readers[r].state = "reading" /\ queue # <<>> /\ UNCHANGED <<conversations, created>>
    BY DEF Receive
  <1>4. events \in Seq(Events)
    BY <1>2, <1>3, FrontAndLast
  <1>5. got \in Seq(Events)
    BY <1>2, <1>4, ConcatProperties
  <1>6. streams' = [streams EXCEPT ![s] = [streams[s] EXCEPT !.queue = <<>>]]
    BY DEF Receive
  <1>7. CASE last
    <2>1. /\ readers' = [readers EXCEPT ![r].state = "ended", ![r].got = got]
          /\ active' = [active EXCEPT ![streams[s].conv] = Null]
      BY <1>7 DEF Receive, ReaderEnds
    <2> HIDE DEF got, s
    <2>2. readers' = [readers EXCEPT ![r] = [readers[r] EXCEPT !.state = "ended", !.got = got]]
      BY <2>1, <1>1 DEF ReaderTypes
    <2> QED
      BY <1>1, <1>2, <1>3, <1>5, <1>6, <1>7, <2>1, <2>2 DEF got, s
  <1>8. CASE ~last
    <2>1. readers' = [readers EXCEPT ![r].got = got] /\ active' = active
      BY <1>8 DEF Receive
    <2> HIDE DEF got, s
    <2>2. readers' = [readers EXCEPT ![r] = [readers[r] EXCEPT !.state = "reading", !.got = got]]
      BY <2>1, <1>1, <1>3 DEF ReaderTypes
    <2> QED
      BY <1>1, <1>2, <1>3, <1>5, <1>6, <1>8, <2>1, <2>2 DEF got, s
  <1> QED
    BY <1>7, <1>8

\* The reading side of the streams is typed whatever becomes of a message.
LEMMA MessageStep ==
    ASSUME TypeInv, NEW c \in 0..MaxConversations, NEW q \in DOMAIN Questions, SendMessage(c, q)
    PROVE  \E id \in 1..MaxConversations :
              /\ id \in DOMAIN conversations \/ id = created + 1
              /\ created' \in {created, id} /\ id <= created'
              /\ created <= created' /\ created' <= MaxConversations
              /\ conversations' = [d \in DOMAIN conversations \cup {id} |->
                     IF d \notin DOMAIN conversations THEN 1
                     ELSE IF d = id THEN conversations[d] + 1 ELSE conversations[d]]
              /\ streams' = Append(streams, NewStream(id, q))
              /\ Len(streams) < MaxStreams
              /\ active' = [active EXCEPT ![id] = Len(streams) + 1]
              /\ UNCHANGED readers
  <1>1. /\ created \in Nat /\ MaxConversations \in Nat /\ created <= MaxConversations
        /\ DOMAIN conversations \subseteq 1..created
    BY ChatConstantsOK DEF TypeInv
  <1>2. CASE c \in DOMAIN conversations
    <2>1. c \in 1..MaxConversations /\ c <= created /\ created' = created
      BY <1>1, <1>2 DEF SendMessage
    <2>3. /\ conversations' = [d \in DOMAIN conversations \cup {c} |->
                 IF d \notin DOMAIN conversations THEN 1
                 ELSE IF d = c THEN conversations[d] + 1 ELSE conversations[d]]
          /\ streams' = Append(streams, NewStream(c, q))
          /\ Len(streams) < MaxStreams
          /\ active' = [active EXCEPT ![c] = Len(streams) + 1]
          /\ UNCHANGED readers
      BY <1>2 DEF SendMessage
    <2> c \in 1..MaxConversations
      BY <2>1
    <2> WITNESS c \in 1..MaxConversations
    <2> QED
      BY <1>1, <1>2, <2>1, <2>3
  <1>3. CASE c \notin DOMAIN conversations
    <2>1. created < MaxConversations /\ created' = created + 1
      BY <1>3 DEF SendMessage
    <2>2. created + 1 \in 1..MaxConversations
      BY <1>1, <2>1
    <2>3. /\ conversations' = [d \in DOMAIN conversations \cup {created + 1} |->
                 IF d \notin DOMAIN conversations THEN 1
                 ELSE IF d = created + 1 THEN conversations[d] + 1 ELSE conversations[d]]
          /\ streams' = Append(streams, NewStream(created + 1, q))
          /\ Len(streams) < MaxStreams
          /\ active' = [active EXCEPT ![created + 1] = Len(streams) + 1]
          /\ UNCHANGED readers
      BY <1>3 DEF SendMessage
    <2> created + 1 \in 1..MaxConversations
      BY <2>2
    <2> WITNESS created + 1 \in 1..MaxConversations
    <2> QED
      BY <1>1, <2>1, <2>2, <2>3
  <1> QED
    BY <1>2, <1>3

\* The types hold for ever.
LEMMA TypeInvariant == Spec => []TypeInv
  <1>1. Init => TypeInv
    <2> SUFFICES ASSUME Init PROVE TypeInv
      OBVIOUS
    <2>1. 0 \in 0..MaxConversations /\ Len(streams) <= MaxStreams
      BY ChatConstantsOK DEF Init
    <2> QED
      BY <2>1 DEF Init, TypeInv
  <1>2. TypeInv /\ [Next]_vars => TypeInv'
    <2> SUFFICES ASSUME TypeInv, [Next]_vars PROVE TypeInv'
      OBVIOUS
    <2> USE ChatConstantsOK
    <2>1. ASSUME NEW s \in DOMAIN streams, AgentNext(s) PROVE TypeInv'
      <3>1. GoodStream(streams[s])
        BY DEF TypeInv
      <3>2. PICK st : AgentMoves(streams[s], st) /\ AgentStep(s, st)
        BY <2>1, <3>1, AgentsMoveWell
      <3>3. /\ GoodStream(st) /\ st.conv = streams[s].conv
            /\ streams' = [streams EXCEPT ![s] = st]
            /\ UNCHANGED <<conversations, created, active, readers>>
        BY <3>2 DEF AgentMoves, Emits, AgentStep
      <3> QED
        BY <3>3, ReplacedStream DEF TypeInv
    <2>2. ASSUME NEW c \in 0..MaxConversations, NEW q \in DOMAIN Questions, SendMessage(c, q)
          PROVE  TypeInv'
      <3>1. PICK id \in 1..MaxConversations :
              /\ id \in DOMAIN conversations \/ id = created + 1
              /\ created' \in {created, id} /\ id <= created'
              /\ created <= created' /\ created' <= MaxConversations
              /\ conversations' = [d \in DOMAIN conversations \cup {id} |->
                     IF d \notin DOMAIN conversations THEN 1
                     ELSE IF d = id THEN conversations[d] + 1 ELSE conversations[d]]
              /\ streams' = Append(streams, NewStream(id, q))
              /\ Len(streams) < MaxStreams
              /\ active' = [active EXCEPT ![id] = Len(streams) + 1]
              /\ UNCHANGED readers
        BY <2>2, MessageStep
      <3> DEFINE st == NewStream(id, q)
      <3>2. GoodStream(st) /\ st.conv = id /\ st \in StreamTypes
        BY StreamStartsWell DEF GoodStream
      <3> HIDE DEF st
      <3>3. /\ streams \in Seq(StreamTypes) /\ created \in Nat
            /\ streams' \in Seq(StreamTypes) /\ Len(streams') = Len(streams) + 1
            /\ DOMAIN streams' = DOMAIN streams \cup {Len(streams) + 1}
            /\ \A x \in DOMAIN streams : streams'[x] = streams[x]
            /\ streams'[Len(streams) + 1] = st
        BY <3>1, <3>2 DEF TypeInv, st
      <3>4. created' \in 0..MaxConversations /\ Len(streams') <= MaxStreams
        BY <3>1, <3>3
      <3>5. DOMAIN conversations' \subseteq 1..created'
        BY <3>1, <3>3 DEF TypeInv
      <3>6. \A d \in DOMAIN conversations' : conversations'[d] \in 1..Len(streams')
        <4> TAKE d \in DOMAIN conversations'
        <4>1. Len(streams) \in Nat /\ 1 \in 1..Len(streams')
          BY <3>3
        <4>2. CASE d \notin DOMAIN conversations
          BY <3>1, <4>1, <4>2
        <4>3. CASE d \in DOMAIN conversations
          <5>1. conversations[d] \in 1..Len(streams)
            BY <4>3 DEF TypeInv
          <5>2. conversations'[d] \in {conversations[d], conversations[d] + 1}
            BY <3>1, <4>3
          <5> QED
            BY <3>3, <4>1, <5>1, <5>2
        <4> QED
          BY <4>2, <4>3
      <3>7. active' \in [1..MaxConversations -> DOMAIN streams' \cup {Null}]
        BY <3>1, <3>3 DEF TypeInv
      <3>8. \A x \in DOMAIN streams' : GoodStream(streams'[x]) /\ streams'[x].conv <= created'
        <4> TAKE x \in DOMAIN streams'
        <4>1. CASE x \in DOMAIN streams
          <5>1. GoodStream(streams[x]) /\ streams[x].conv <= created /\ streams[x].conv \in Nat
            <6>1. GoodStream(streams[x]) /\ streams[x].conv <= created /\ streams[x] \in StreamTypes
              BY <4>1 DEF TypeInv, GoodStream
            <6>2. streams[x].conv \in 1..MaxConversations
              BY <6>1 DEF StreamTypes
            <6> QED
              BY <6>1, <6>2
          <5>2. created' \in Nat
            BY <3>4
          <5> QED
            BY <3>1, <3>3, <4>1, <5>1, <5>2
        <4>2. CASE x = Len(streams) + 1
          BY <3>1, <3>2, <3>3, <4>2
        <4> QED
          BY <3>3, <4>1, <4>2
      <3> QED
        BY <3>1, <3>3, <3>4, <3>5, <3>6, <3>7, <3>8 DEF TypeInv
    <2>3. ASSUME NEW c \in 1..MaxConversations, DeleteConversation(c) PROVE TypeInv'
      BY <2>3 DEF DeleteConversation, TypeInv
    <2>4. ASSUME NEW c \in 1..MaxConversations, Connect(c) PROVE TypeInv'
      <3> DEFINE s == active[c]
                 sharing == \E r \in ToSet(readers) : r.stream = s
                 st == [streams[s] EXCEPT !.shared = sharing]
                 reader == [stream |-> s, got |-> <<>>, state |-> "reading"]
      <3>1. /\ s \in DOMAIN streams /\ readers' = Append(readers, reader)
            /\ streams' = [streams EXCEPT ![s] = st]
            /\ UNCHANGED <<conversations, created, active>>
        BY <2>4 DEF Connect, TypeInv
      <3>2. sharing \in BOOLEAN /\ <<>> \in Seq(Events)
        OBVIOUS
      <3> HIDE DEF sharing
      <3>3. GoodStream(st) /\ st.conv = streams[s].conv
        <4>1. GoodStream(streams[s]) /\ streams[s] \in StreamTypes
          BY <3>1 DEF TypeInv, GoodStream
        <4> QED
          BY <3>2, <4>1, ReadStream DEF StreamTypes
      <3>4. reader \in ReaderTypes
        BY <3>1, <3>2 DEF ReaderTypes, TypeInv
      <3> HIDE DEF s, st, reader
      <3>5. /\ readers' \in Seq(ReaderTypes)
            /\ \A r \in DOMAIN readers' : readers'[r].stream \in DOMAIN streams
        <4>1. readers \in Seq(ReaderTypes) /\ reader.stream = s
          BY DEF TypeInv, reader
        <4>2. \A r \in DOMAIN readers' : \/ r \in DOMAIN readers /\ readers'[r] = readers[r]
                                        \/ readers'[r] = reader
          BY <3>1, <3>4, <4>1
        <4> QED
          BY <3>1, <3>4, <4>1, <4>2 DEF TypeInv
      <3> QED
        BY <3>1, <3>3, <3>5, ReplacedStream DEF TypeInv
    <2>5. ASSUME NEW r \in DOMAIN readers, Receive(r) PROVE TypeInv'
      <3> DEFINE s == readers[r].stream
                 queue == streams[s].queue
                 last == Last(queue) = "end"
                 got == IF streams[s].shared THEN <<>>
                        ELSE readers[r].got \o (IF last THEN Front(queue) ELSE queue)
                 st == [streams[s] EXCEPT !.queue = <<>>]
                 state == IF last THEN "ended" ELSE "reading"
                 reader == [readers[r] EXCEPT !.state = state, !.got = got]
      <3>1. /\ s \in DOMAIN streams /\ got \in Seq(Events)
            /\ readers[r] \in ReaderTypes
            /\ streams' = [streams EXCEPT ![s] = st]
            /\ readers' = [readers EXCEPT ![r] = reader]
            /\ active' = IF last THEN [active EXCEPT ![streams[s].conv] = Null] ELSE active
            /\ UNCHANGED <<conversations, created>>
        BY <2>5, ReceiveStep
      <3> HIDE DEF got, last
      <3>2. GoodStream(st) /\ st.conv = streams[s].conv
        <4>1. GoodStream(streams[s]) /\ streams[s] \in StreamTypes /\ <<>> \in Seq(Events)
          BY <3>1 DEF TypeInv, GoodStream
        <4> QED
          BY <4>1, ReadStream DEF StreamTypes
      <3>3. reader \in ReaderTypes /\ reader.stream = s
        BY <3>1 DEF ReaderTypes
      <3> HIDE DEF s, st, reader
      <3>4. /\ readers' \in Seq(ReaderTypes)
            /\ \A x \in DOMAIN readers' : readers'[x].stream \in DOMAIN streams
        BY <3>1, <3>3 DEF TypeInv
      <3>5. active' \in [1..MaxConversations -> DOMAIN streams \cup {Null}]
        BY <3>1 DEF TypeInv
      <3> QED
        BY <3>1, <3>2, <3>4, <3>5, ReplacedStream DEF TypeInv
    <2>6. ASSUME NEW r \in DOMAIN readers, Disconnect(r) PROVE TypeInv'
      <3>1. /\ readers' = [readers EXCEPT ![r].state = "gone", ![r].got = <<>>]
            /\ active' = [active EXCEPT ![streams[readers[r].stream].conv] = Null]
            /\ UNCHANGED <<conversations, created, streams>>
        BY <2>6 DEF Disconnect, ReaderEnds
      <3>2. readers \in Seq(ReaderTypes) /\ <<>> \in Seq(Events)
        BY DEF TypeInv
      <3> DEFINE reader == [readers[r] EXCEPT !.state = "gone", !.got = <<>>]
      <3>5. readers[r] \in ReaderTypes
        BY <3>2
      <3>6. reader \in ReaderTypes /\ reader.stream = readers[r].stream
        BY <3>2, <3>5 DEF ReaderTypes
      <3>7. readers' = [readers EXCEPT ![r] = reader]
        BY <3>1, <3>2, <3>5 DEF ReaderTypes
      <3> HIDE DEF reader
      <3>3. /\ readers' \in Seq(ReaderTypes) /\ DOMAIN readers' = DOMAIN readers
            /\ \A x \in DOMAIN readers : readers'[x].stream = readers[x].stream
        BY <3>2, <3>6, <3>7
      <3>4. active' \in [1..MaxConversations -> DOMAIN streams \cup {Null}]
        BY <3>1 DEF TypeInv
      <3> QED
        BY <3>1, <3>3, <3>4 DEF TypeInv
    <2>7. CASE UNCHANGED vars
      BY <2>7 DEF vars, TypeInv
    <2> QED
      BY <2>1, <2>2, <2>3, <2>4, <2>5, <2>6, <2>7 DEF Next, AgentNext
  <1> QED
    BY <1>1, <1>2, PTL DEF Spec

\* All variables keep their types, every agent's tries stay within the retries, and
\* a stream is done exactly when its agent has ended (context.py, orchestrator.py).
THEOREM TypeCorrect == Spec => []TypeOK
  <1>1. TypeInv => TypeOK
    <2> SUFFICES ASSUME TypeInv PROVE TypeOK
      OBVIOUS
    <2>1. \A c \in DOMAIN conversations : conversations[c] \in 1..MaxStreams
      BY ChatConstantsOK DEF TypeInv
    <2>2. ASSUME NEW st \in ToSet(streams)
          PROVE  /\ st.phase \in Running \cup {"waiting", "ended"}
                 /\ st.conv \in 1..created
                 /\ st.tries \in 0..MaxRetries
                 /\ st.intent \in Intents \cup {Null}
                 /\ st.done <=> st.phase = "ended"
      <3>1. PICK s \in DOMAIN streams : st = streams[s]
        BY DEF ToSet
      <3>2. GoodStream(st) /\ st \in StreamTypes /\ st.conv <= created
        BY <3>1 DEF TypeInv, GoodStream
      <3>3. st.conv \in 1..MaxConversations /\ created \in 0..MaxConversations
        BY <3>2 DEF StreamTypes, TypeInv
      <3>4. st.conv \in 1..created
        BY <3>2, <3>3, ChatConstantsOK
      <3> QED
        BY <3>2, <3>4 DEF StreamTypes, Phases, GoodStream
    <2>3. \A r \in ToSet(readers) :
             r.stream \in DOMAIN streams /\ r.state \in {"reading", "ended", "gone"}
      <3> SUFFICES ASSUME NEW i \in DOMAIN readers
                   PROVE  /\ readers[i].stream \in DOMAIN streams
                          /\ readers[i].state \in {"reading", "ended", "gone"}
        BY DEF ToSet
      <3>1. readers[i] \in ReaderTypes /\ readers[i].stream \in DOMAIN streams
        BY DEF TypeInv
      <3> QED
        BY <3>1 DEF ReaderTypes
    <2> QED
      BY <2>1, <2>2, <2>3 DEF TypeOK, TypeInv
  <1> QED
    BY <1>1, TypeInvariant, PTL

-----------------------------------------------------------------------------
(* What is asked for *)

\* No agent asks for what neither the message nor the page nor the default names, for
\* any questions and any classification (intent.py:220, orchestrator.py:181,
\* domain_agents.py).
THEOREM RequestsFollowQuestions == Spec => []RequestsAreAsAsked
  <1>1. ASSUME NEW q, NEW c \in Contexts(q), NEW r \in Requests(c)
        PROVE  /\ r.period \in {Null, Else(q.period, Shown(q.page, "period", DefaultPeriod))}
               /\ r.unit \in {Null, Else(q.unit, Shown(q.page, "unit", Null))}
               /\ r.path = "account" => Else(q.account, Shown(q.page, "account", Null)) # Null
    <2>1. /\ c.period = Else(q.period, Shown(q.page, "period", DefaultPeriod))
          /\ c.unit = Else(q.unit, Shown(q.page, "unit", Null))
          /\ c.account = Else(q.account, Shown(q.page, "account", Null))
      BY DEF Contexts, MergeContext, ExtractEntities, LlmEntities, Else, Shown
    <2>2. /\ r.period \in {Null, c.period} /\ r.unit \in {Null, c.unit}
          /\ r.path = "account" => c.account # Null
      BY DEF Requests, SummaryRequest, ListRequest, WaterfallRequest, TrendsRequest,
             DecompositionRequest, DrillRequest, NettingRequest, Request
    <2> QED
      BY <2>1, <2>2
  <1>2. TypeInv => RequestsAreAsAsked
    <2> SUFFICES ASSUME TypeInv, NEW st \in ToSet(streams), NEW r \in st.made
                 PROVE  LET q == Questions[st.q]
                        IN  /\ r.period \in
                                  {Null, Else(q.period, Shown(q.page, "period", DefaultPeriod))}
                            /\ r.unit \in {Null, Else(q.unit, Shown(q.page, "unit", Null))}
                            /\ r.path = "account" =>
                                  Else(q.account, Shown(q.page, "account", Null)) # Null
      BY DEF RequestsAreAsAsked
    <2>1. GoodStream(st)
      BY DEF TypeInv, ToSet
    <2>2. PICK c \in Contexts(Questions[st.q]) : r \in Requests(c)
      BY <2>1 DEF GoodStream
    <2> QED
      BY <1>1, <2>2
  <1> QED
    BY <1>2, TypeInvariant, PTL

-----------------------------------------------------------------------------
(* The active stream *)

\* However messages, deletions and the ends of readers follow each other, the active
\* stream of a conversation is that of its newest message (manager.py:44-86,
\* chat.py:102).
THEOREM ActiveStreamIsNewest == Spec => []ActiveIsNewest
  <1>1. Init => ActiveIsNewest
    BY DEF Init, ActiveIsNewest
  <1>2. TypeInv /\ ActiveIsNewest /\ [Next]_vars => ActiveIsNewest'
    <2> SUFFICES ASSUME TypeInv, ActiveIsNewest, [Next]_vars PROVE ActiveIsNewest'
      OBVIOUS
    <2> USE ChatConstantsOK
    <2>1. ASSUME DOMAIN streams' = DOMAIN streams, UNCHANGED conversations,
                 \A x \in DOMAIN streams : streams'[x].conv = streams[x].conv,
                 \A c \in 1..MaxConversations : active'[c] \in {active[c], Null}
          PROVE  ActiveIsNewest'
      BY <2>1 DEF ActiveIsNewest, TypeInv
    <2>2. ASSUME NEW s \in DOMAIN streams, AgentNext(s) PROVE ActiveIsNewest'
      <3>1. PICK st : AgentMoves(streams[s], st) /\ AgentStep(s, st)
        BY <2>2, AgentsMoveWell DEF TypeInv
      <3>2. /\ GoodStream(st) /\ st.conv = streams[s].conv
            /\ streams' = [streams EXCEPT ![s] = st] /\ UNCHANGED <<conversations, active>>
        BY <3>1 DEF AgentMoves, Emits, AgentStep
      <3>3. /\ DOMAIN streams' = DOMAIN streams
            /\ \A x \in DOMAIN streams : streams'[x].conv = streams[x].conv
        BY <3>2, ReplacedStream
      <3> QED
        BY <2>1, <3>2, <3>3
    <2>3. ASSUME NEW c \in 0..MaxConversations, NEW q \in DOMAIN Questions, SendMessage(c, q)
          PROVE  ActiveIsNewest'
      <3>1. PICK id \in 1..MaxConversations :
              /\ DOMAIN conversations' = DOMAIN conversations \cup {id}
              /\ streams' = Append(streams, NewStream(id, q))
              /\ active' = [active EXCEPT ![id] = Len(streams) + 1]
        BY <2>3, MessageStep
      <3> DEFINE n == Len(streams) + 1
                 st == NewStream(id, q)
      <3>2. st.conv = id /\ st \in StreamTypes
        BY StreamStartsWell DEF GoodStream
      <3> HIDE DEF st
      <3>3. /\ DOMAIN streams = 1..Len(streams) /\ Len(streams) \in Nat
            /\ DOMAIN streams' = DOMAIN streams \cup {n}
            /\ \A x \in DOMAIN streams : streams'[x] = streams[x]
            /\ streams'[n] = st
        BY <3>1, <3>2 DEF TypeInv, st
      <3>4. SUFFICES ASSUME NEW d \in 1..MaxConversations, active'[d] # Null
                     PROVE  /\ d \in DOMAIN conversations'
                            /\ streams'[active'[d]].conv = d
                            /\ \A s \in DOMAIN streams' : streams'[s].conv = d => s <= active'[d]
        BY DEF ActiveIsNewest
      <3>5. active \in [1..MaxConversations -> DOMAIN streams \cup {Null}]
        BY DEF TypeInv
      <3>6. CASE d = id
        <4>1. active'[d] = n
          BY <3>1, <3>5, <3>6
        <4> QED
          BY <3>1, <3>2, <3>3, <3>6, <4>1
      <3>7. CASE d # id
        <4>1. active'[d] = active[d] /\ active[d] \in DOMAIN streams
          BY <3>1, <3>4, <3>5, <3>7
        <4>2. /\ d \in DOMAIN conversations /\ streams[active[d]].conv = d
              /\ \A s \in DOMAIN streams : streams[s].conv = d => s <= active[d]
          BY <3>4, <4>1 DEF ActiveIsNewest
        <4> QED
          BY <3>1, <3>2, <3>3, <3>7, <4>1, <4>2
      <3> QED
        BY <3>6, <3>7
    <2>4. ASSUME NEW c \in 1..MaxConversations, DeleteConversation(c) PROVE ActiveIsNewest'
      <3>1. /\ DOMAIN conversations' = DOMAIN conversations \ {c}
            /\ active' = [active EXCEPT ![c] = Null] /\ UNCHANGED streams
        BY <2>4 DEF DeleteConversation
      <3> QED
        BY <3>1 DEF ActiveIsNewest, TypeInv
    <2>5. ASSUME NEW c \in 1..MaxConversations, Connect(c) PROVE ActiveIsNewest'
      <3> DEFINE s == active[c]
                 sharing == \E r \in ToSet(readers) : r.stream = s
                 st == [streams[s] EXCEPT !.shared = sharing]
      <3>1. /\ s \in DOMAIN streams /\ streams' = [streams EXCEPT ![s] = st]
            /\ UNCHANGED <<conversations, active>> /\ sharing \in BOOLEAN
        BY <2>5 DEF Connect, TypeInv
      <3> HIDE DEF sharing
      <3>2. GoodStream(streams[s]) /\ streams[s] \in StreamTypes /\ <<>> \in Seq(Events)
        BY <3>1 DEF TypeInv, GoodStream
      <3>3. GoodStream(st) /\ st.conv = streams[s].conv
        BY <3>1, <3>2, ReadStream DEF StreamTypes
      <3> HIDE DEF s, st
      <3>4. /\ DOMAIN streams' = DOMAIN streams
            /\ \A x \in DOMAIN streams : streams'[x].conv = streams[x].conv
        BY <3>1, <3>3, ReplacedStream
      <3> QED
        BY <2>1, <3>1, <3>4
    <2>6. ASSUME NEW r \in DOMAIN readers, Receive(r) PROVE ActiveIsNewest'
      <3> DEFINE s == readers[r].stream
                 st == [streams[s] EXCEPT !.queue = <<>>]
                 last == Last(streams[s].queue) = "end"
      <3>1. /\ s \in DOMAIN streams /\ streams' = [streams EXCEPT ![s] = st]
            /\ active' = IF last THEN [active EXCEPT ![streams[s].conv] = Null] ELSE active
            /\ UNCHANGED conversations
        BY <2>6, ReceiveStep
      <3>2. GoodStream(streams[s]) /\ streams[s] \in StreamTypes /\ <<>> \in Seq(Events)
        BY <3>1 DEF TypeInv, GoodStream
      <3>3. GoodStream(st) /\ st.conv = streams[s].conv
        BY <3>2, ReadStream DEF StreamTypes
      <3> HIDE DEF s, st, last
      <3>4. /\ DOMAIN streams' = DOMAIN streams
            /\ \A x \in DOMAIN streams : streams'[x].conv = streams[x].conv
        BY <3>1, <3>3, ReplacedStream
      <3>5. \A c \in 1..MaxConversations : active'[c] \in {active[c], Null}
        BY <3>1 DEF TypeInv
      <3> QED
        BY <2>1, <3>1, <3>4, <3>5
    <2>7. ASSUME NEW r \in DOMAIN readers, Disconnect(r) PROVE ActiveIsNewest'
      BY <2>1, <2>7 DEF Disconnect, ReaderEnds, TypeInv
    <2>8. CASE UNCHANGED vars
      BY <2>1, <2>8 DEF vars
    <2> QED
      BY <2>2, <2>3, <2>4, <2>5, <2>6, <2>7, <2>8 DEF Next, AgentNext
  <1> QED
    BY <1>1, <1>2, TypeInvariant, PTL DEF Spec

-----------------------------------------------------------------------------
(* Whole answers *)

\* An ending ends with suggestions or an error and has at most one table or chart
\* before that.
LEMMA ShapeOfEndings ==
    ASSUME NEW x \in Endings
    PROVE  /\ Len(x) \in 1..3
           /\ x[Len(x)] \in {"suggestion", "error"}
           /\ \A j \in 1..Len(x) - 1 : x[j] \in {"data_table", "mini_chart", "confidence"}
           /\ \A j \in 2..Len(x) : x[j] \notin {"data_table", "mini_chart"}
  <1>1. CASE x = <<"error">>
    BY <1>1
  <1>2. ASSUME NEW m \in Illustrations, x = m \o <<"suggestion">>
        PROVE  /\ Len(x) \in 1..3
               /\ x[Len(x)] \in {"suggestion", "error"}
               /\ \A j \in 1..Len(x) - 1 : x[j] \in {"data_table", "mini_chart", "confidence"}
               /\ \A j \in 2..Len(x) : x[j] \notin {"data_table", "mini_chart"}
    <2>1. /\ Len(m) \in 0..2
          /\ \A j \in 1..Len(m) : m[j] \in {"data_table", "mini_chart", "confidence"}
          /\ \A j \in 2..Len(m) : m[j] \notin {"data_table", "mini_chart"}
      BY DEF Illustrations
    <2> DEFINE last == <<"suggestion">>
    <2>2. /\ m \in Seq(Events) /\ last \in Seq(Events) /\ Len(last) = 1
          /\ last[1] = "suggestion"
      BY EndingsAreEvents DEF Events
    <2> HIDE DEF last
    <2>3. /\ Len(m \o last) = Len(m) + 1
          /\ \A i \in 1..Len(m) + 1 :
                (m \o last)[i] = IF i <= Len(m) THEN m[i] ELSE last[i - Len(m)]
      <3>1. /\ Len(m \o last) = Len(m) + Len(last)
            /\ \A i \in 1..Len(m) + Len(last) :
                  (m \o last)[i] = IF i <= Len(m) THEN m[i] ELSE last[i - Len(m)]
        BY <2>2, ConcatProperties
      <3> QED
        BY <2>2, <3>1
    <2>4. x = m \o last
      BY <1>2 DEF last
    <2>5. /\ Len(x) = Len(m) + 1 /\ x[Len(m) + 1] = "suggestion"
          /\ \A i \in 1..Len(m) : x[i] = m[i]
      BY <2>1, <2>2, <2>3, <2>4
    <2> QED
      BY <2>1, <2>5
  <1> QED
    BY <1>1, <1>2 DEF Endings

\* The events of an answer that is whole, place by place.
LEMMA PlacesOfEvents ==
    ASSUME NEW t \in Texts, NEW x \in Endings,
           NEW e \in Seq(Events), e = Whole(t, x)
    PROVE  /\ Len(t) \in Nat /\ Len(x) \in Nat /\ Len(e) = Len(t) + Len(x) + 2
           /\ \A i \in 1..Len(t) : e[i] = "token"
           /\ \A j \in 1..Len(x) : e[Len(t) + j] = x[j]
           /\ e[Len(t) + Len(x) + 1] = "done" /\ e[Len(t) + Len(x) + 2] = "end"
  <1> DEFINE n == Len(t)
             k == Len(x)
             close == <<"done", "end">>
  <1>1. /\ t \in Seq(Events) /\ x \in Seq(Events) /\ close \in Seq(Events)
        /\ Len(close) = 2 /\ close[1] = "done" /\ close[2] = "end"
    BY EndingsAreEvents
  <1>2. \A i \in 1..n : t[i] = "token"
    BY DEF Texts
  <1> HIDE DEF close
  <1>3. /\ t \o x \in Seq(Events) /\ Len(t \o x) = n + k
        /\ \A i \in 1..n + k : (t \o x)[i] = IF i <= n THEN t[i] ELSE x[i - n]
    BY <1>1, ConcatProperties
  <1> DEFINE u == t \o x
  <1>4. e = u \o close
    BY DEF close, Whole
  <1>5. u \in Seq(Events) /\ Len(u) = n + k
    BY <1>3
  <1> HIDE DEF u
  <1>6. /\ e \in Seq(Events) /\ Len(e) = Len(u) + 2
        /\ \A i \in 1..Len(u) + 2 : e[i] = IF i <= Len(u) THEN u[i] ELSE close[i - Len(u)]
    <2>4. /\ u \o close \in Seq(Events) /\ Len(u \o close) = Len(u) + Len(close)
          /\ \A i \in 1..Len(u) + Len(close) :
                (u \o close)[i] = IF i <= Len(u) THEN u[i] ELSE close[i - Len(u)]
      <3>1. u \in Seq(Events) /\ close \in Seq(Events)
        BY <1>1, <1>5
      <3> QED
        BY <3>1, ConcatProperties, Zenon
    <2> DEFINE w == u \o close
    <2>1. /\ w \in Seq(Events) /\ Len(w) = Len(u) + Len(close)
          /\ \A i \in 1..Len(u) + Len(close) :
                w[i] = IF i <= Len(u) THEN u[i] ELSE close[i - Len(u)]
      BY <2>4, Zenon
    <2>2. e = w
      BY <1>4
    <2> HIDE DEF w
    <2>3. Len(close) = 2
      BY <1>1
    <2> QED
      BY <2>1, <2>2, <2>3
  <1>7. n \in Nat /\ k \in Nat
    BY <1>1
  <1>8. \A i \in 1..n : e[i] = "token"
    BY <1>2, <1>3, <1>5, <1>6, <1>7 DEF u
  <1>9. \A j \in 1..k : e[n + j] = x[j]
    <2> TAKE j \in 1..k
    <2>1. n + j \in 1..n + k /\ n + j \in 1..Len(u) + 2 /\ ~(n + j <= n) /\ (n + j) - n = j
      BY <1>5, <1>7
    <2>2. e[n + j] = u[n + j]
      BY <1>5, <1>6, <2>1
    <2>3. u[n + j] = x[j]
      BY <1>3, <2>1 DEF u
    <2> QED
      BY <2>2, <2>3
  <1>10. e[n + k + 1] = "done" /\ e[n + k + 2] = "end"
    BY <1>1, <1>5, <1>6, <1>7
  <1> QED
    BY <1>5, <1>6, <1>7, <1>8, <1>9, <1>10

\* The part of AnswersAreWhole that is about a stream.
WholeStream(st) ==
    LET e == st.emitted
        at(x) == {i \in DOMAIN e : e[i] = x}
    IN  /\ at("end") = IF st.phase = "ended" THEN {Len(e)} ELSE {}
        /\ at("done") = IF st.phase = "ended" THEN {Len(e) - 1} ELSE {}
        /\ \A i \in at("error") : i = Len(e) - 2
        /\ \A i \in at("suggestion") : i = Len(e) - 2
        /\ \A i, j \in DOMAIN e : e[j] = "token" /\ i < j => e[i] = "token"
        /\ Cardinality(at("data_table") \cup at("mini_chart")) <= 1

\* Good streams are whole.
LEMMA GoodIsWhole ==
    ASSUME NEW st, GoodStream(st)
    PROVE  WholeStream(st)
  <1> DEFINE e == st.emitted
             at(x) == {i \in DOMAIN e : e[i] = x}
             shown == at("data_table") \cup at("mini_chart")
  <1>1. st \in StreamTypes /\ st.phase \in Phases
    BY DEF GoodStream, StreamTypes
  <1>2. CASE st.phase # "ended"
    <2>1. e \in Texts
      BY <1>1, <1>2, EndingsAreEvents DEF GoodStream, EventsFit, Phases, Running
    <2>2. \A i \in DOMAIN e : e[i] = "token"
      BY <2>1 DEF Texts
    <2>3. shown = {}
      BY <2>2
    <2>4. Cardinality(shown) <= 1
      BY <2>3, FS_EmptySet
    <2> HIDE DEF e
    <2>5. /\ at("end") = {} /\ at("done") = {} /\ at("error") = {} /\ at("suggestion") = {}
      BY <2>2
    <2> QED
      BY <1>2, <2>2, <2>4, <2>5 DEF WholeStream, e
  <1>3. CASE st.phase = "ended"
    <2>1. PICK t \in Texts, x \in Endings : e = Whole(t, x)
      BY <1>3 DEF GoodStream, EventsFit
    <2> DEFINE n == Len(t)
               k == Len(x)
    <2>2. /\ n \in Nat /\ e \in Seq(Events) /\ Len(e) = n + k + 2
          /\ \A i \in 1..n : e[i] = "token"
          /\ \A j \in 1..k : e[n + j] = x[j]
          /\ e[n + k + 1] = "done" /\ e[n + k + 2] = "end"
      <3>1. e \in Seq(Events)
        BY <1>1 DEF StreamTypes
      <3> HIDE DEF e
      <3> QED
        BY <2>1, <3>1, PlacesOfEvents
    <2>3. /\ k \in 1..3 /\ x[k] \in {"suggestion", "error"}
          /\ \A j \in 1..k - 1 : x[j] \in {"data_table", "mini_chart", "confidence"}
          /\ \A j \in 2..k : x[j] \notin {"data_table", "mini_chart"}
      BY ShapeOfEndings
    <2>4. DOMAIN e = 1..n + k + 2
      BY <2>2
    <2> HIDE DEF e, n, k
    <2>5. ASSUME NEW i \in DOMAIN e
          PROVE  /\ i \in 1..n => e[i] = "token"
                 /\ i \in n + 1..n + k - 1 =>
                        e[i] \in {"data_table", "mini_chart", "confidence"}
                 /\ i = n + k => e[i] \in {"suggestion", "error"}
                 /\ i \in n + 2..n + k => e[i] \notin {"data_table", "mini_chart"}
                 /\ i = n + k + 1 => e[i] = "done"
                 /\ i = n + k + 2 => e[i] = "end"
      <3>1. i \in Nat
        BY <2>2, <2>3, <2>4
      <3>2. i \in n + 1..n + k => i - n \in 1..k /\ e[i] = x[i - n]
        <4>1. SUFFICES ASSUME i \in n + 1..n + k
                       PROVE  i - n \in 1..k /\ e[i] = x[i - n]
          OBVIOUS
        <4>2. i - n \in 1..k /\ n + (i - n) = i
          BY <2>2, <2>3, <3>1, <4>1
        <4>3. e[n + (i - n)] = x[i - n]
          BY <2>2, <4>2
        <4> QED
          BY <4>2, <4>3
      <3>3. i = n + k => i - n = k
        BY <2>2, <2>3, <3>1
      <3>4. i \in n + 1..n + k - 1 => i \in n + 1..n + k /\ i - n \in 1..k - 1
        BY <2>2, <2>3, <3>1
      <3>5. i \in n + 2..n + k => i \in n + 1..n + k /\ i - n \in 2..k
        BY <2>2, <2>3, <3>1
      <3>6. i = n + k => i \in n + 1..n + k
        BY <2>2, <2>3, <3>1
      <3> QED
        BY <2>2, <2>3, <3>2, <3>3, <3>4, <3>5, <3>6
    <2>6. \A i \in DOMAIN e : \/ i \in 1..n \/ i \in n + 1..n + k - 1 \/ i = n + k
                              \/ i = n + k + 1 \/ i = n + k + 2
      BY <2>2, <2>3, <2>4
    <2>7. \A i \in n + 1..n + k - 1 : i = n + 1 \/ i \in n + 2..n + k
      BY <2>2, <2>3
    <2>8. {n + k, n + k + 1, n + k + 2} \subseteq DOMAIN e
      BY <2>2, <2>3, <2>4
    <2>9. at("end") = {Len(e)}
      BY <2>2, <2>5, <2>6, <2>8
    <2>10. at("done") = {Len(e) - 1}
      <3>1. Len(e) - 1 = n + k + 1
        BY <2>2, <2>3
      <3> QED
        BY <2>2, <2>5, <2>6, <2>8, <3>1
    <2>11. /\ \A i \in at("error") : i = Len(e) - 2
           /\ \A i \in at("suggestion") : i = Len(e) - 2
      <3>1. Len(e) - 2 = n + k
        BY <2>2, <2>3
      <3> QED
        BY <2>2, <2>5, <2>6, <3>1
    <2>12. \A i, j \in DOMAIN e : e[j] = "token" /\ i < j => e[i] = "token"
      <3> SUFFICES ASSUME NEW i \in DOMAIN e, NEW j \in DOMAIN e, e[j] = "token", i < j
                   PROVE  e[i] = "token"
        OBVIOUS
      <3>1. j \in 1..n
        BY <2>5, <2>6
      <3>2. i \in 1..n
        BY <2>2, <2>3, <2>4, <3>1
      <3> QED
        BY <2>5, <3>2
    <2>13. shown \subseteq {n + 1}
      <3> SUFFICES ASSUME NEW i \in DOMAIN e, e[i] \in {"data_table", "mini_chart"}
                   PROVE  i = n + 1
        OBVIOUS
      <3> QED
        BY <2>5, <2>6, <2>7
    <2> HIDE DEF shown
    <2>14. Cardinality(shown) <= 1
      <3>1. shown = {} \/ shown = {n + 1}
        BY <2>13
      <3>2. Cardinality({n + 1}) = 1 /\ Cardinality({}) = 0
        BY FS_EmptySet, FS_Singleton
      <3> QED
        BY <3>1, <3>2
    <2> QED
      BY <1>3, <2>9, <2>10, <2>11, <2>12, <2>14 DEF WholeStream, e, shown
  <1> QED
    BY <1>2, <1>3

\* What the readers in rs have of stream s, which is st.  A stream is shared when a
\* second reader comes; until then its one reader has all that is not in the queue.
ReadWell(s, st, rs) ==
    /\ (\A r \in DOMAIN rs : rs[r].stream # s) => ~st.shared /\ st.queue = st.emitted
    /\ ~st.shared =>
          /\ \A r1, r2 \in DOMAIN rs : rs[r1].stream = s /\ rs[r2].stream = s => r1 = r2
          /\ \A r \in DOMAIN rs : rs[r].stream = s =>
                /\ rs[r].state = "ended" =>
                      st.phase = "ended" /\ Append(rs[r].got, "end") = st.emitted
                /\ rs[r].state = "reading" => rs[r].got \o st.queue = st.emitted

ReadersInv == \A s \in DOMAIN streams : ReadWell(s, streams[s], readers)

\* Only an ended agent has emitted the sentinel.
LEMMA SentinelEnds ==
    ASSUME NEW st, GoodStream(st), NEW got \in Seq(Events), Append(got, "end") = st.emitted
    PROVE  st.phase = "ended"
  <1>1. SUFFICES ASSUME st.phase # "ended" PROVE FALSE
    OBVIOUS
  <1>2. st \in StreamTypes /\ st.phase \in Phases
    BY DEF GoodStream, StreamTypes
  <1>3. st.emitted \in Texts
    BY <1>1, <1>2, EndingsAreEvents DEF GoodStream, EventsFit, Phases, Running
  <1>4. \A i \in DOMAIN st.emitted : st.emitted[i] = "token"
    BY <1>3 DEF Texts
  <1>5. "end" \in Events
    BY DEF Events
  <1> DEFINE e == Append(got, "end")
             n == Len(got) + 1
  <1>6. e \in Seq(Events) /\ Len(e) = n /\ e[n] = "end"
    BY <1>5, AppendProperties
  <1>7. e = st.emitted /\ n \in Nat /\ n > 0
    OBVIOUS
  <1> HIDE DEF e, n
  <1>8. n \in DOMAIN e
    BY <1>6, <1>7
  <1> QED
    BY <1>4, <1>6, <1>7, <1>8

\* An agent's step leaves its readers what they had.
LEMMA ReadWellMoves ==
    ASSUME NEW s, NEW st, NEW st2, GoodStream(st), AgentMoves(st, st2), NEW rs \in Seq(ReaderTypes),
           ReadWell(s, st, rs)
    PROVE  ReadWell(s, st2, rs)
  <1>1. PICK events \in Seq(Events) :
            st2.queue = st.queue \o events /\ st2.emitted = st.emitted \o events
    BY DEF AgentMoves, Emits
  <1>2. st2.shared = st.shared /\ st.phase # "ended"
    BY DEF AgentMoves, Emits
  <1>3. st.queue \in Seq(Events) /\ st.emitted \in Seq(Events)
    BY DEF GoodStream, StreamTypes
  <1>4. (\A r \in DOMAIN rs : rs[r].stream # s) => ~st2.shared /\ st2.queue = st2.emitted
    BY <1>1, <1>2 DEF ReadWell
  <1>5. ASSUME ~st2.shared, NEW r \in DOMAIN rs, rs[r].stream = s
        PROVE  /\ rs[r].state # "ended"
               /\ rs[r].state = "reading" => rs[r].got \o st2.queue = st2.emitted
    <2>1. rs[r].got \in Seq(Events)
      <3>1. rs[r] \in ReaderTypes
        OBVIOUS
      <3> QED
        BY <3>1 DEF ReaderTypes
    <2>2. rs[r].state # "ended"
      BY <1>2, <1>5 DEF ReadWell
    <2>3. ASSUME rs[r].state = "reading" PROVE rs[r].got \o st2.queue = st2.emitted
      <3>1. rs[r].got \o st.queue = st.emitted
        BY <1>2, <1>5, <2>3 DEF ReadWell
      <3>2. rs[r].got \o (st.queue \o events) = (rs[r].got \o st.queue) \o events
        BY <1>3, <2>1, JoinedEvents, Zenon
      <3> QED
        BY <1>1, <3>1, <3>2, Zenon
    <2> QED
      BY <2>2, <2>3
  <1>6. ~st2.shared => \A r1, r2 \in DOMAIN rs : rs[r1].stream = s /\ rs[r2].stream = s => r1 = r2
    BY <1>2 DEF ReadWell
  <1> QED
    BY <1>4, <1>5, <1>6 DEF ReadWell

\* The readers' part is inductive.
LEMMA ReadersInvariant == Spec => []ReadersInv
  <1>1. Init => ReadersInv
    BY DEF Init, ReadersInv
  <1>2. TypeInv /\ ReadersInv /\ [Next]_vars => ReadersInv'
    <2> SUFFICES ASSUME TypeInv, ReadersInv, [Next]_vars PROVE ReadersInv'
      OBVIOUS
    <2> USE ChatConstantsOK
    <2>0. readers \in Seq(ReaderTypes) /\ \A s \in DOMAIN streams : GoodStream(streams[s])
      BY DEF TypeInv
    <2>1. ASSUME NEW s \in DOMAIN streams, AgentNext(s) PROVE ReadersInv'
      <3>1. PICK st : AgentMoves(streams[s], st) /\ AgentStep(s, st)
        BY <2>0, <2>1, AgentsMoveWell
      <3>2. /\ GoodStream(st) /\ st.conv = streams[s].conv
            /\ streams' = [streams EXCEPT ![s] = st] /\ UNCHANGED readers
        BY <3>1 DEF AgentMoves, Emits, AgentStep
      <3>3. /\ DOMAIN streams' = DOMAIN streams
            /\ \A x \in DOMAIN streams : streams'[x] = IF x = s THEN st ELSE streams[x]
        BY <3>2, ReplacedStream
      <3>4. ReadWell(s, st, readers)
        BY <2>0, <3>1, ReadWellMoves DEF ReadersInv
      <3> QED
        BY <3>2, <3>3, <3>4 DEF ReadersInv
    <2>2. ASSUME NEW c \in 0..MaxConversations, NEW q \in DOMAIN Questions, SendMessage(c, q)
          PROVE  ReadersInv'
      <3>1. PICK id \in 1..MaxConversations :
              streams' = Append(streams, NewStream(id, q)) /\ UNCHANGED readers
        BY <2>2, MessageStep
      <3> DEFINE n == Len(streams) + 1
                 st == NewStream(id, q)
      <3>2. st \in StreamTypes /\ ~st.shared /\ st.queue = st.emitted
        BY StreamStartsWell DEF GoodStream, NewStream
      <3> HIDE DEF st
      <3>3. /\ DOMAIN streams = 1..Len(streams) /\ Len(streams) \in Nat
            /\ DOMAIN streams' = DOMAIN streams \cup {n} /\ n \notin DOMAIN streams
            /\ \A x \in DOMAIN streams : streams'[x] = streams[x]
            /\ streams'[n] = st
        BY <3>1, <3>2 DEF TypeInv, st
      <3>4. \A r \in DOMAIN readers : readers[r].stream # n
        BY <3>3 DEF TypeInv
      <3>5. ReadWell(n, st, readers)
        BY <3>2, <3>4 DEF ReadWell
      <3> QED
        BY <3>1, <3>3, <3>5 DEF ReadersInv
    <2>3. ASSUME NEW c \in 1..MaxConversations, DeleteConversation(c) PROVE ReadersInv'
      BY <2>3 DEF DeleteConversation, ReadersInv
    <2>4. ASSUME NEW c \in 1..MaxConversations, Connect(c) PROVE ReadersInv'
      <3> DEFINE s == active[c]
                 sharing == \E r \in ToSet(readers) : r.stream = s
                 st == [streams[s] EXCEPT !.shared = sharing]
                 reader == [stream |-> s, got |-> <<>>, state |-> "reading"]
                 n == Len(readers) + 1
      <3>1. /\ s \in DOMAIN streams /\ readers' = Append(readers, reader)
            /\ streams' = [streams EXCEPT ![s] = st] /\ sharing \in BOOLEAN
        BY <2>4 DEF Connect, TypeInv
      <3>2. ~sharing => \A r \in DOMAIN readers : readers[r].stream # s
        BY DEF ToSet
      <3> HIDE DEF sharing
      <3>3. GoodStream(streams[s]) /\ streams[s] \in StreamTypes /\ <<>> \in Seq(Events)
        BY <2>0, <3>1 DEF GoodStream
      <3>4. /\ GoodStream(st) /\ st.conv = streams[s].conv /\ st.shared = sharing
            /\ st.queue = streams[s].queue /\ st.emitted = streams[s].emitted
            /\ st.queue \in Seq(Events)
        BY <3>1, <3>3, ReadStream DEF StreamTypes
      <3>5. /\ reader \in ReaderTypes /\ reader.stream = s /\ reader.got = <<>>
            /\ reader.state = "reading"
        BY <3>1, <3>3 DEF ReaderTypes, TypeInv
      <3> HIDE DEF s, st, reader
      <3>6. /\ DOMAIN streams' = DOMAIN streams
            /\ \A x \in DOMAIN streams : streams'[x] = IF x = s THEN st ELSE streams[x]
        BY <3>1, <3>4, ReplacedStream
      <3>7. /\ DOMAIN readers' = DOMAIN readers \cup {n} /\ n \notin DOMAIN readers
            /\ \A r \in DOMAIN readers : readers'[r] = readers[r]
            /\ readers'[n] = reader
        BY <2>0, <3>1, <3>5
      <3>8. ReadWell(s, st, readers')
        <4>1. CASE sharing
          BY <3>4, <3>5, <3>7, <4>1 DEF ReadWell
        <4>2. CASE ~sharing
          <5>1. \A r \in DOMAIN readers : readers[r].stream # s
            BY <3>2, <4>2 DEF s
          <5>2. streams[s].queue = streams[s].emitted
            BY <3>1, <5>1 DEF ReadersInv, ReadWell
          <5>3. <<>> \o st.queue = st.emitted
            BY <3>4, <5>2, ConcatEmptySeq
          <5>4. \A r \in DOMAIN readers' : readers'[r].stream = s => r = n
            BY <3>7, <5>1
          <5> HIDE DEF n, s
          <5>5. n \in DOMAIN readers' /\ readers'[n] = reader
            BY <3>7
          <5>6. \A r \in DOMAIN readers' : readers'[r].stream = s =>
                   readers'[r].state = "reading" /\ readers'[r].got \o st.queue = st.emitted
            BY <3>5, <5>3, <5>4, <5>5
          <5> QED
            BY <3>5, <5>4, <5>5, <5>6 DEF ReadWell
        <4> QED
          BY <4>1, <4>2
      <3>9. \A x \in DOMAIN streams : x # s => ReadWell(x, streams[x], readers')
        <4> SUFFICES ASSUME NEW x \in DOMAIN streams, x # s
                     PROVE  ReadWell(x, streams[x], readers')
          OBVIOUS
        <4> HIDE DEF n, s
        <4>1. ReadWell(x, streams[x], readers)
          BY DEF ReadersInv
        <4>2. \A r \in DOMAIN readers' :
                 readers'[r].stream = x => r \in DOMAIN readers /\ readers'[r] = readers[r]
          BY <3>5, <3>7
        <4>3. \A r \in DOMAIN readers : r \in DOMAIN readers' /\ readers'[r] = readers[r]
          BY <3>7
        <4> QED
          BY <4>1, <4>2, <4>3 DEF ReadWell
      <3> QED
        BY <3>6, <3>8, <3>9 DEF ReadersInv
    <2>5. ASSUME NEW r \in DOMAIN readers, Receive(r) PROVE ReadersInv'
      <3> DEFINE s == readers[r].stream
                 queue == streams[s].queue
                 last == Last(queue) = "end"
                 events == IF last THEN Front(queue) ELSE queue
                 got == IF streams[s].shared THEN <<>> ELSE readers[r].got \o events
                 st == [streams[s] EXCEPT !.queue = <<>>]
                 state == IF last THEN "ended" ELSE "reading"
                 reader == [readers[r] EXCEPT !.state = state, !.got = got]
      <3>1. /\ s \in DOMAIN streams /\ queue \in Seq(Events) /\ queue # <<>>
            /\ got \in Seq(Events) /\ readers[r] \in ReaderTypes /\ readers[r].state = "reading"
            /\ streams' = [streams EXCEPT ![s] = st]
            /\ readers' = [readers EXCEPT ![r] = reader]
        BY <2>5, ReceiveStep
      <3>2. GoodStream(streams[s]) /\ streams[s] \in StreamTypes /\ <<>> \in Seq(Events)
        BY <2>0, <3>1 DEF GoodStream
      <3>3. /\ GoodStream(st) /\ st.conv = streams[s].conv /\ st.shared = streams[s].shared
            /\ st.queue = <<>> /\ st.emitted = streams[s].emitted /\ st.phase = streams[s].phase
        BY <3>2, ReadStream DEF StreamTypes
      <3>4. ~st.shared => got = readers[r].got \o events
        BY <3>3
      <3>5. events = IF last THEN Front(queue) ELSE queue
        OBVIOUS
      <3>6. readers[r].got \in Seq(Events)
        BY <3>1 DEF ReaderTypes
      <3> HIDE DEF got, events
      <3>7. reader \in ReaderTypes /\ reader.stream = s /\ reader.state = state /\ reader.got = got
        BY <3>1 DEF ReaderTypes
      <3> HIDE DEF st, reader
      <3>8. /\ DOMAIN streams' = DOMAIN streams
            /\ \A x \in DOMAIN streams : streams'[x] = IF x = s THEN st ELSE streams[x]
        <4> HIDE DEF s
        <4> QED
          BY <3>1, <3>3, ReplacedStream
      <3>9. /\ DOMAIN readers' = DOMAIN readers
            /\ \A x \in DOMAIN readers : readers'[x] = IF x = r THEN reader ELSE readers[x]
        BY <2>0, <3>1
      <3>10. ASSUME ~st.shared
             PROVE  /\ last => st.phase = "ended" /\ Append(got, "end") = st.emitted
                    /\ ~last => got \o st.queue = st.emitted
        <4>1. readers[r].got \o queue = st.emitted
          BY <3>1, <3>3, <3>10 DEF ReadersInv, ReadWell
        <4>2. CASE last
          <5>1. Front(queue) \in Seq(Events) /\ Append(Front(queue), "end") = queue
            BY <3>1, <4>2, FrontAndLast
          <5> DEFINE front == Front(queue)
          <5>2. got = readers[r].got \o front /\ front \in Seq(Events) /\ "end" \in Events
            BY <3>4, <3>5, <3>10, <4>2, <5>1 DEF Events
          <5>3. Append(front, "end") = front \o <<"end">>
            BY <5>2, AppendIsConcat
          <5>4. Append(got, "end") = got \o <<"end">>
            BY <3>1, <5>2, AppendIsConcat
          <5>5. <<"end">> \in Seq(Events)
            BY <5>2
          <5>6. (readers[r].got \o front) \o <<"end">> = readers[r].got \o (front \o <<"end">>)
            BY <3>6, <5>2, <5>5, JoinedEvents, Zenon
          <5>7. Append(got, "end") = st.emitted
            BY <4>1, <5>1, <5>2, <5>3, <5>4, <5>6, Zenon
          <5>8. st.phase = "ended"
            BY <3>1, <3>3, <5>7, SentinelEnds
          <5> QED
            BY <4>2, <5>7, <5>8
        <4>3. CASE ~last
          <5>1. got = readers[r].got \o queue
            BY <3>4, <3>5, <3>10, <4>3
          <5>2. got \o <<>> = got
            BY <3>1, ConcatEmptySeq
          <5> QED
            BY <3>3, <4>1, <4>3, <5>1, <5>2
        <4> QED
          BY <4>2, <4>3
      <3>11. ReadWell(s, st, readers')
        <4>1. r \in DOMAIN readers' /\ readers'[r].stream = s
          BY <3>7, <3>9
        <4>2. ASSUME ~st.shared, NEW r1 \in DOMAIN readers', readers'[r1].stream = s
              PROVE  r1 = r
          <5>1. readers[r1].stream = s /\ r1 \in DOMAIN readers
            BY <3>9, <4>2
          <5> QED
            BY <3>1, <3>3, <4>2, <5>1 DEF ReadersInv, ReadWell
        <4>3. readers'[r] = reader
          BY <3>9
        <4>4. state \in {"ended", "reading"} /\ (state = "ended" <=> last)
          OBVIOUS
        <4> HIDE DEF last, state, s
        <4> QED
          BY <3>7, <3>10, <4>1, <4>2, <4>3, <4>4 DEF ReadWell
      <3>12. \A x \in DOMAIN streams : x # s => ReadWell(x, streams[x], readers')
        <4> SUFFICES ASSUME NEW x \in DOMAIN streams, x # s
                     PROVE  ReadWell(x, streams[x], readers')
          OBVIOUS
        <4>1. \A y \in DOMAIN readers :
                 readers'[y].stream = readers[y].stream
                 /\ (readers[y].stream = x => readers'[y] = readers[y])
          BY <3>7, <3>9
        <4>2. ReadWell(x, streams[x], readers)
          BY DEF ReadersInv
        <4> HIDE DEF s
        <4> QED
          BY <3>9, <4>1, <4>2 DEF ReadWell
      <3> QED
        BY <3>8, <3>11, <3>12 DEF ReadersInv
    <2>6. ASSUME NEW r \in DOMAIN readers, Disconnect(r) PROVE ReadersInv'
      <3> DEFINE reader == [readers[r] EXCEPT !.state = "gone", !.got = <<>>]
      <3>1. readers' = [readers EXCEPT ![r].state = "gone", ![r].got = <<>>] /\ UNCHANGED streams
        BY <2>6 DEF Disconnect, ReaderEnds
      <3>2. readers[r] \in ReaderTypes /\ <<>> \in Seq(Events)
        BY <2>0
      <3>3. reader \in ReaderTypes /\ reader.stream = readers[r].stream /\ reader.state = "gone"
        BY <3>2 DEF ReaderTypes
      <3>4. readers' = [readers EXCEPT ![r] = reader]
        BY <2>0, <3>1, <3>2 DEF ReaderTypes
      <3> HIDE DEF reader
      <3>5. /\ DOMAIN readers' = DOMAIN readers
            /\ \A x \in DOMAIN readers : readers'[x] = IF x = r THEN reader ELSE readers[x]
        BY <2>0, <3>4
      <3>6. ASSUME NEW s \in DOMAIN streams PROVE ReadWell(s, streams[s], readers')
        <4>1. ReadWell(s, streams[s], readers)
          BY DEF ReadersInv
        <4>2. \A x \in DOMAIN readers :
                 /\ readers'[x].stream = readers[x].stream
                 /\ readers'[x] = readers[x] \/ readers'[x].state = "gone"
          BY <3>3, <3>5
        <4> QED
          BY <3>5, <4>1, <4>2 DEF ReadWell
      <3> QED
        BY <3>1, <3>6 DEF ReadersInv
    <2>7. CASE UNCHANGED vars
      BY <2>7 DEF vars, ReadersInv
    <2> QED
      BY <2>1, <2>2, <2>3, <2>4, <2>5, <2>6, <2>7 DEF Next, AgentNext
  <1> QED
    BY <1>1, <1>2, TypeInvariant, PTL DEF Spec

\* Every answer is text, what illustrates it and suggestions, or breaks off with one
\* error, done and the sentinel once at its end; its only reader gets exactly it,
\* however chunks, results, errors, the timeout and the readers interleave
\* (context.py:58-218, orchestrator.py:163, chat.py:55-93, 225-290).
THEOREM AnswersComeWhole == Spec => []AnswersAreWhole
  <1>1. TypeInv /\ ReadersInv => AnswersAreWhole
    <2> SUFFICES ASSUME TypeInv, ReadersInv PROVE AnswersAreWhole
      OBVIOUS
    <2>1. ASSUME NEW st \in ToSet(streams) PROVE WholeStream(st)
      <3>1. GoodStream(st)
        BY DEF TypeInv, ToSet
      <3> QED
        BY <3>1, GoodIsWhole
    <2>2. ASSUME NEW r \in ToSet(readers), ~streams[r.stream].shared
          PROVE  /\ r.state = "ended" => Append(r.got, "end") = streams[r.stream].emitted
                 /\ r.state = "reading" =>
                        r.got \o streams[r.stream].queue = streams[r.stream].emitted
      <3>1. PICK i \in DOMAIN readers : r = readers[i]
        BY DEF ToSet
      <3>2. ReadWell(r.stream, streams[r.stream], readers)
        BY <3>1 DEF TypeInv, ReadersInv
      <3> QED
        BY <2>2, <3>1, <3>2 DEF ReadWell
    <2> QED
      BY <2>1, <2>2 DEF AnswersAreWhole, WholeStream
  <1> QED
    BY <1>1, TypeInvariant, ReadersInvariant, PTL

===============================================================================
