--------------------------------- MODULE Agents ---------------------------------
(***************************************************************************)
(* What the agents of the chat do with a question, as pure operators: the  *)
(* classifiers (services/gateway/agents/intent.py), the merging of what    *)
(* they extract with the filters of the page (orchestrator.py), the        *)
(* requests each domain agent makes (domain_agents.py) as the tools pass   *)
(* them on (tools.py, computation_client.py), and the events it emits.     *)
(*                                                                         *)
(* A question is a record: the intents whose patterns its words match, the *)
(* period, unit, account, view and base it names (or Null), and in page    *)
(* those filters that the user's page sends, Null for one it sends as      *)
(* None.  Other keys of the page are used by no agent; texts and figures   *)
(* are left out.                                                           *)
(***************************************************************************)
EXTENDS Sequences, FiniteSets, SequencesExt

CONSTANTS
    Null,
    DefaultPeriod       \* "2025-12"

\* _PATTERNS, the most specific first.
PatternOrder == <<"decomposition", "netting", "review_status", "waterfall", "heatmap", "trend",
                  "pl_summary", "variance_detail", "drill_down", "revenue_overview">>

Intents == ToSet(PatternOrder) \cup {"general"}

Else(x, y) == IF x # Null THEN x ELSE y

\* A filter of the page, be it None, or the default when the page does not send it.
Shown(page, name, default) == IF name \in DOMAIN page THEN page[name] ELSE default

-----------------------------------------------------------------------------
(* Classifiers *)

\* _classify_intent: the first pattern that hits.
ClassifyIntent(words) ==
    IF words = {} THEN "general"
    ELSE PatternOrder[Min({i \in DOMAIN PatternOrder : PatternOrder[i] \in words})]

\* _extract_entities of the keyword classifier: what the message does not name is
\* taken from the page.
ExtractEntities(q) ==
    [period |-> Else(q.period, Shown(q.page, "period", Null)),
     unit |-> Else(q.unit, Shown(q.page, "unit", Null)),
     account |-> q.account,
     view |-> Else(q.view, Shown(q.page, "view", "MTD")),
     base |-> Else(q.base, Shown(q.page, "base", "BUDGET"))]

\* The entities of LLMIntentClassifier.classify.  It asks neither for the view nor
\* for the base; they have their defaults, so the page's are never merged in.
\* The model is taken to extract what the message names.
LlmEntities(q) ==
    [period |-> Else(q.period, Shown(q.page, "period", Null)),
     unit |-> Else(q.unit, Shown(q.page, "unit", Null)),
     account |-> q.account, view |-> "MTD", base |-> "BUDGET"]

\* A wrong MergeContext: the page takes precedence.
MergeContext_PageFirst(e, page) ==
    [period |-> Else(Shown(page, "period", e.period), DefaultPeriod),
     unit |-> Shown(page, "unit", e.unit), account |-> Shown(page, "account", e.account),
     view |-> Shown(page, "view", e.view), base |-> Shown(page, "base", e.base)]

\* _merge_context: entities take precedence, and the defaults come last; a filter
\* that the page sends as None has no default.
MergeContext(e, page) ==
    [period |-> Else(e.period, Shown(page, "period", DefaultPeriod)),
     unit |-> Else(e.unit, Shown(page, "unit", Null)),
     account |-> Else(e.account, Shown(page, "account", Null)),
     view |-> Else(e.view, Shown(page, "view", "MTD")),
     base |-> Else(e.base, Shown(page, "base", "BUDGET"))]

-----------------------------------------------------------------------------
(* Requests *)

\* A request to the computation service; Null is not sent.
Request(path, period, unit, base) ==
    [path |-> path, period |-> period, unit |-> unit, view |-> "MTD", base |-> base]

\* get_dashboard_summary reads "base" and "view", the agents pass "base_id".
SummaryRequest(c, unit) == Request("summary", c.period, unit, "BUDGET")

\* get_variance_list with the category Revenue; no agent passes the view.
ListRequest(c) == Request("list", c.period, c.unit, c.base)

\* get_pl_waterfall reads "base" too.
WaterfallRequest(c) == Request("waterfall", c.period, c.unit, "BUDGET")

\* get_trend_analysis
TrendsRequest(c) == Request("trends", Null, c.unit, c.base)

\* get_decomposition, of the first variance listed.
DecompositionRequest(c) == Request("decomposition", c.period, c.unit, c.base)

\* get_drill_down, which has an account whenever it is called.
DrillRequest(c) == Request("account", c.period, c.unit, c.base)

\* get_netting_alerts, with an empty node.
NettingRequest(c) == Request("netting", c.period, Null, Null)

\* What RevenueAgent asks for, after the results (whether there was data) in got.
RevenueRequests(intent, c, got) ==
    CASE intent \in {"revenue_overview", "general"} -> <<SummaryRequest(c, c.unit), ListRequest(c)>>
      [] intent = "heatmap" -> <<SummaryRequest(c, Null)>>
      [] intent = "waterfall" -> <<WaterfallRequest(c)>>
      [] intent = "trend" -> <<TrendsRequest(c)>>
      [] intent = "decomposition" ->
             <<ListRequest(c)>> \o (IF got = <<TRUE>> THEN <<DecompositionRequest(c)>> ELSE <<>>)
      [] intent = "netting" -> <<NettingRequest(c)>>

\* What PLAgent asks for.
PLRequests(intent, c) ==
    CASE intent = "pl_summary" -> <<SummaryRequest(c, c.unit)>>
      [] intent \in {"variance_detail", "drill_down"} ->
             IF c.account = Null THEN <<>> ELSE <<DrillRequest(c)>>

\* The next request of the agent that handle_message routes the intent to, Null when
\* it has all it wants; ReviewAgent reads the store only.
NextRequest(intent, c, got) ==
    LET plan == CASE intent = "review_status" -> <<>>
                  [] intent \in {"pl_summary", "variance_detail", "drill_down"} ->
                         PLRequests(intent, c)
                  [] OTHER -> RevenueRequests(intent, c, got)
    IN  IF Len(got) < Len(plan) THEN plan[Len(got) + 1] ELSE Null

-----------------------------------------------------------------------------
(* Events *)

\* Whether the text comes from the language model when there is one.
ModelWrites(intent) == intent \in {"revenue_overview", "general", "pl_summary"}

\* What follows the text: a table or a chart when there was data, and for revenue
\* a confidence that is always high.
AfterText(intent, got) ==
    CASE intent \in {"revenue_overview", "general"} ->
             (IF got[2] THEN <<"data_table">> ELSE <<>>) \o <<"confidence">>
      [] intent = "pl_summary" -> IF got[1] THEN <<"data_table">> ELSE <<>>
      [] intent \in {"waterfall", "trend"} -> IF got[1] THEN <<"mini_chart">> ELSE <<>>
      [] OTHER -> <<>>

===============================================================================
