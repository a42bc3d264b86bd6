---------------------------------- MODULE Chat ----------------------------------
(***************************************************************************)
(* Conversations and their streams (services/gateway/api/chat.py and       *)
(* services/gateway/streaming/).  A message creates a stream and starts an *)
(* agent in the background; browsers connect to the stream that is active  *)
(* for a conversation and read its events.                                 *)
(*                                                                         *)
(* Everything runs on one event loop, so a step is what happens from one   *)
(* await that suspends to the next: an answer of the language model or of  *)
(* the computation service, an event in a queue, the timeout.  Putting an  *)
(* event into the unbounded queue suspends nothing.                        *)
(***************************************************************************)
EXTENDS Agents, Naturals

CONSTANTS
    Questions,          \* what is asked, one question after another
    MaxRetries,         \* max_retries of LLMClient.complete
    MaxConversations, MaxStreams, MaxReaders, MaxChunks     \* bounds

ASSUME ChatConstantsOK ==
    /\ \A q \in DOMAIN Questions : Questions[q].words \subseteq ToSet(PatternOrder)
    /\ {MaxRetries, MaxConversations, MaxStreams, MaxReaders, MaxChunks} \subseteq Nat
    /\ Null \notin Nat

VARIABLES
    connected,          \* a computation client is configured
    modelAvailable,     \* LLMClient._available: an API key was found at start
    conversations,      \* _conversations: conversation -> number of messages
    created,            \* conversations created so far
    active,             \* _active_streams: conversation -> stream or Null
    streams,            \* every StreamingContext with its agent
    readers             \* every response of the stream endpoint

vars == <<connected, modelAvailable, conversations, created, active, streams, readers>>
config == <<connected, modelAvailable>>

Running == {"classify", "fetch", "narrate"}

Init ==
    /\ connected \in BOOLEAN /\ modelAvailable \in BOOLEAN /\ (modelAvailable => connected)
    /\ conversations = <<>>
    /\ created = 0
    /\ active = [c \in 1..MaxConversations |-> Null]
    /\ streams = <<>>
    /\ readers = <<>>

-----------------------------------------------------------------------------
(* StreamingContext; emitted is a ghost, all that was ever put *)

\* _put, one event after another: nothing after done.
Put(st, events) ==
    IF st.done THEN st
    ELSE [st EXCEPT !.queue = @ \o events, !.emitted = @ \o events]

\* A wrong EmitDone: after done the sentinel is not put.
EmitDone_NoSentinel(st) == [Put(st, <<"done">>) EXCEPT !.done = TRUE]

\* emit_done: the event, then the sentinel whether or not it was put.
EmitDone(st) ==
    [Put(st, <<"done">>) EXCEPT !.done = TRUE, !.queue = Append(@, "end"),
                            !.emitted = Append(@, "end")]

\* The agent returns; its variables are gone.
EndWith(st, events) ==
    [EmitDone(Put(st, events)) EXCEPT
        !.phase = "ended", !.tries = 0, !.intent = Null, !.ctx = Null, !.got = <<>>, !.made = {}]

-----------------------------------------------------------------------------
(* The agent *)

\* The agent goes on to its next request, to the model's text, or to its end.
Continue(st) ==
    LET r == NextRequest(st.intent, st.ctx, st.got)
    IN  CASE r # Null -> [st EXCEPT !.phase = "fetch", !.made = @ \cup {r}]
          [] r = Null /\ ModelWrites(st.intent) /\ modelAvailable ->
                 [st EXCEPT !.phase = "narrate"]
          [] OTHER -> EndWith(st, <<"token">> \o AfterText(st.intent, st.got)
                                  \o <<"suggestion">>)

Routed(st, intent, entities) ==
    Continue([st EXCEPT !.intent = intent, !.ctx = MergeContext(entities, Questions[st.q].page)])

ByKeywords(st) ==
    Routed(st, ClassifyIntent(Questions[st.q].words), ExtractEntities(Questions[st.q]))

\* Stream s becomes what its agent makes of it; nothing else changes.
AgentStep(s, st) ==
    /\ streams' = [streams EXCEPT ![s] = st]
    /\ UNCHANGED <<config, conversations, created, active, readers>>

\* _run_agent starts, after the response to the message has been sent.
StartAgent(s) ==
    /\ streams[s].phase = "waiting"
    /\ AgentStep(s, IF ~connected THEN EndWith(streams[s], <<"token", "suggestion">>)
                    ELSE IF modelAvailable THEN [streams[s] EXCEPT !.phase = "classify"]
                    ELSE ByKeywords(streams[s]))

\* A wrong RateLimited: one retry too many.
RateLimited_OneMore(s) ==
    /\ streams[s].phase = "classify"
    /\ streams[s].tries <= MaxRetries
    /\ AgentStep(s, [streams[s] EXCEPT !.tries = @ + 1])

\* complete: a call that is rate limited is made again after a sleep.
RateLimited(s) ==
    /\ streams[s].phase = "classify"
    /\ streams[s].tries < MaxRetries
    /\ AgentStep(s, [streams[s] EXCEPT !.tries = @ + 1])

\* The model's classification, one that some word speaks for, or the keywords when
\* the model fails or says nothing of use.
Classified(s) ==
    /\ streams[s].phase = "classify"
    /\ \/ AgentStep(s, ByKeywords(streams[s]))
       \/ \E i \in Questions[streams[s].q].words :
             AgentStep(s, Routed(streams[s], i, LlmEntities(Questions[streams[s].q])))

\* A tool's result; an error or a 404 is no data.
Fetched(s) ==
    /\ streams[s].phase = "fetch"
    /\ \E data \in BOOLEAN : AgentStep(s, Continue([streams[s] EXCEPT !.got = Append(@, data)]))

\* generate_streaming: a chunk of the model's text, or the error that ends it, which
\* stream yields as a chunk too.
Chunk(s) ==
    /\ streams[s].phase = "narrate"
    /\ Len(streams[s].emitted) < MaxChunks
    /\ AgentStep(s, Put(streams[s], <<"token">>))

\* The text ends.
Narrated(s) ==
    /\ streams[s].phase = "narrate"
    /\ AgentStep(s, EndWith(streams[s], AfterText(streams[s].intent, streams[s].got)
                                        \o <<"suggestion">>))

\* Whatever the agent cannot use, the review store, a result or, with its text
\* already told, what illustrates it, raises; the orchestrator tells.
Raises(s) ==
    /\ \/ streams[s].phase \in Running
       \/ streams[s].phase = "waiting" /\ connected /\ ~modelAvailable
    /\ \E text \in {<<>>, <<"token">>} :
          AgentStep(s, EndWith(streams[s], text \o <<"error">>))

\* A wrong TimesOut: the timer is not stopped when the agent ends.
TimesOut_Late(s) ==
    /\ streams[s].phase \in Running \cup {"ended"}
    /\ Len(streams[s].emitted) < 12
    /\ AgentStep(s, EndWith(streams[s], <<"error">>))

\* wait_for: the agent is cancelled where it waits.
TimesOut(s) ==
    /\ streams[s].phase \in Running
    /\ AgentStep(s, EndWith(streams[s], <<"error">>))

-----------------------------------------------------------------------------
(* Endpoints *)

NewStream(c, q) ==
    [conv |-> c, q |-> q, phase |-> "waiting", tries |-> 0, intent |-> Null, ctx |-> Null,
     got |-> <<>>, made |-> {}, queue |-> <<>>, emitted |-> <<>>, done |-> FALSE,
     shared |-> FALSE]

\* send_message: an unknown conversation is a new one; the new stream replaces the
\* active one.  Only the user's messages are stored.
SendMessage(c, q) ==
    /\ Len(streams) < MaxStreams
    /\ LET known == c \in DOMAIN conversations
           id == IF known THEN c ELSE created + 1
       IN  /\ known \/ created < MaxConversations
           /\ created' = IF known THEN created ELSE created + 1
           /\ conversations' = [d \in DOMAIN conversations \cup {id} |->
                   IF d \notin DOMAIN conversations THEN 1
                   ELSE IF d = id THEN conversations[d] + 1 ELSE conversations[d]]
           /\ streams' = Append(streams, NewStream(id, q))
           /\ active' = [active EXCEPT ![id] = Len(streams) + 1]
    /\ UNCHANGED <<config, readers>>

\* A wrong DeleteConversation: its stream stays active.
DeleteConversation_KeepsStream(c) ==
    /\ c \in DOMAIN conversations
    /\ conversations' = [d \in DOMAIN conversations \ {c} |-> conversations[d]]
    /\ UNCHANGED <<config, created, active, streams, readers>>

\* delete_conversation: the agent and the readers go on.
DeleteConversation(c) ==
    /\ c \in DOMAIN conversations
    /\ conversations' = [d \in DOMAIN conversations \ {c} |-> conversations[d]]
    /\ active' = [active EXCEPT ![c] = Null]
    /\ UNCHANGED <<config, created, streams, readers>>

\* stream_response finds the active stream, or answers 404.
Connect(c) ==
    /\ Len(readers) < MaxReaders
    /\ active[c] # Null
    /\ readers' = Append(readers, [stream |-> active[c], got |-> <<>>, state |-> "reading"])
    /\ streams' = [streams EXCEPT ![active[c]].shared =
                      \E r \in ToSet(readers) : r.stream = active[c]]
    /\ UNCHANGED <<config, conversations, created, active>>

\* _generate ends: remove_stream takes off whatever is active for the conversation.
ReaderEnds(r, got, state) ==
    /\ readers' = [readers EXCEPT ![r].state = state, ![r].got = got]
    /\ active' = [active EXCEPT ![streams[readers[r].stream].conv] = Null]

\* _iterate: what is in the queue, which the socket takes without suspending; one
\* of the stream's readers gets it, and the sentinel ends that reader.
Receive(r) ==
    LET s == readers[r].stream
        queue == streams[s].queue
        last == Last(queue) = "end"
        events == IF last THEN Front(queue) ELSE queue
        got == IF streams[s].shared THEN <<>> ELSE readers[r].got \o events
    IN  /\ readers[r].state = "reading" /\ queue # <<>>
        /\ streams' = [streams EXCEPT ![s].queue = <<>>]
        /\ IF last THEN ReaderEnds(r, got, "ended")
           ELSE readers' = [readers EXCEPT ![r].got = got] /\ UNCHANGED active
        /\ UNCHANGED <<config, conversations, created>>

\* The browser goes away.
Disconnect(r) ==
    /\ readers[r].state = "reading"
    /\ ReaderEnds(r, <<>>, "gone")
    /\ UNCHANGED <<config, conversations, created, streams>>

Next ==
    \/ \E s \in DOMAIN streams :
          \/ StartAgent(s) \/ RateLimited(s) \/ Classified(s) \/ Fetched(s)
          \/ Chunk(s) \/ Narrated(s) \/ Raises(s) \/ TimesOut(s)
    \/ \E c \in 0..MaxConversations, q \in DOMAIN Questions : SendMessage(c, q)
    \/ \E c \in 1..MaxConversations : DeleteConversation(c) \/ Connect(c)
    \/ \E r \in DOMAIN readers : Receive(r) \/ Disconnect(r)

\* Background tasks are started, the 60 seconds pass, events are delivered.
Fairness ==
    /\ \A s \in 1..MaxStreams : WF_streams(s \in DOMAIN streams /\ (StartAgent(s) \/ TimesOut(s)))
    /\ \A r \in 1..MaxReaders : WF_vars(r \in DOMAIN readers /\ Receive(r))

Spec == Init /\ [][Next]_vars /\ Fairness

-----------------------------------------------------------------------------
(* Properties *)

TypeOK ==
    /\ DOMAIN conversations \subseteq 1..created
    /\ \A c \in DOMAIN conversations : conversations[c] \in 1..MaxStreams
    /\ active \in [1..MaxConversations -> DOMAIN streams \cup {Null}]
    /\ \A st \in ToSet(streams) :
          /\ st.phase \in Running \cup {"waiting", "ended"}
          /\ st.conv \in 1..created
          /\ st.tries \in 0..MaxRetries
          /\ st.intent \in Intents \cup {Null}
          /\ st.done <=> st.phase = "ended"
    /\ \A r \in ToSet(readers) : /\ r.stream \in DOMAIN streams
                                 /\ r.state \in {"reading", "ended", "gone"}

\* The stream that is active for a conversation is that of its newest message, and
\* a conversation that was deleted has none: no browser is led to an old answer,
\* in whatever order messages, ends of readers and deletions come.
ActiveIsNewest ==
    \A c \in 1..MaxConversations : active[c] # Null =>
        /\ c \in DOMAIN conversations
        /\ streams[active[c]].conv = c
        /\ \A s \in DOMAIN streams : streams[s].conv = c => s <= active[c]

\* An answer is text, then what illustrates it, then suggestions, or it breaks off
\* with one error; done and the sentinel come once, at its end.  The only reader
\* of a stream has got exactly its beginning, and all of it when it ended.
AnswersAreWhole ==
    /\ \A st \in ToSet(streams) :
          LET e == st.emitted
              at(x) == {i \in DOMAIN e : e[i] = x}
          IN  /\ at("end") = IF st.phase = "ended" THEN {Len(e)} ELSE {}
              /\ at("done") = IF st.phase = "ended" THEN {Len(e) - 1} ELSE {}
              /\ \A i \in at("error") : i = Len(e) - 2
              /\ \A i \in at("suggestion") : i = Len(e) - 2
              /\ \A i, j \in DOMAIN e : e[j] = "token" /\ i < j => e[i] = "token"
              /\ Cardinality(at("data_table") \cup at("mini_chart")) <= 1
    /\ \A r \in ToSet(readers) : ~streams[r.stream].shared =>
          LET e == streams[r.stream].emitted
          IN  /\ r.state = "ended" => Append(r.got, "end") = e
              /\ r.state = "reading" => r.got \o streams[r.stream].queue = e

\* No request asks for another period or unit than the message names, or else the
\* page shows, or else the default, and none about an account when neither names
\* one, whichever classifier is used.
RequestsAreAsAsked ==
    \A st \in ToSet(streams) : \A r \in st.made :
        LET q == Questions[st.q]
        IN  /\ r.period \in {Null, Else(q.period, Shown(q.page, "period", DefaultPeriod))}
            /\ r.unit \in {Null, Else(q.unit, Shown(q.page, "unit", Null))}
            /\ r.path = "account" => Else(q.account, Shown(q.page, "account", Null)) # Null

\* Response r, and no other, is reading its stream.
WaitsAlone(r) ==
    r \in DOMAIN readers /\ readers[r].state = "reading" /\ ~streams[readers[r].stream].shared

\* A browser that alone reads a stream gets to its end or goes away, whatever
\* becomes of the model, the computation service and the conversation.
AnswersArrive == \A r \in 1..MaxReaders : WaitsAlone(r) ~> ~WaitsAlone(r)

===============================================================================
