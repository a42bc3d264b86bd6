------------------------------ MODULE Narratives ------------------------------
(***************************************************************************)
(* Pass 5 of the engine (pass5_narrative.py): a narrative for every kept   *)
(* row that nobody has reviewed, the narratives of the sections and the    *)
(* executive summaries.  A text is a record of what it is about and what   *)
(* it draws on; the wording, and the prompts, are left out.                *)
(***************************************************************************)
EXTENDS Intelligence, Correlation, Materiality

CONSTANTS
    SectionAccounts,    \* SECTION_MAP: section -> accounts
    ProfitAccounts,     \* keys of PROFIT_ACCOUNTS
    RevenueAccount,     \* acct_revenue
    EbitdaAccount       \* acct_ebitda

\* The section of the profit accounts is not one of the map.
ASSUME SectionsOK == "Profitability" \notin DOMAIN SectionAccounts

-----------------------------------------------------------------------------
(* What a narrative may draw on *)

\* siblings map: the kept rows under a parent account.
SiblingMap(material) ==
    [p \in {Parent[k.account] : k \in DOMAIN material} \ {Null} |->
        {k \in DOMAIN material : Parent[k.account] = p}]

\* _build_context_maps_legacy: from the tables of the context.
ContextMapsLegacy(c) ==
    LET partners(k) == {[partner |-> IF e.a = k THEN e.b ELSE e.a, score |-> e.score] :
                           e \in {f \in c.correlations : k \in {f.a, f.b}}}
    IN  [correlations |-> [k \in DOMAIN c.material |-> partners(k)],
         netting |-> {f.parent : f \in c.netting},
         trends |-> {f.key.account : f \in c.trends},
         decomposition |-> c.decomposition,
         siblings |-> SiblingMap(c.material),
         notes |-> [k \in DOMAIN c.material |-> {}]]

\* _context_maps_from_graph: the correlations are those of the graph.
ContextMapsFromGraph(c) ==
    LET correlations == [k \in DOMAIN c.material |-> GetCorrelations(c.graph, k)]
        decomposition == [k \in DOMAIN c.graph.decomposition \cap DOMAIN c.material |->
                             c.graph.decomposition[k]]
    IN  [correlations |-> correlations,
         netting |-> {f.parent : f \in c.netting},
         trends |-> DOMAIN c.graph.trend,
         decomposition |-> decomposition,
         siblings |-> SiblingMap(c.material),
         notes |-> [k \in DOMAIN c.material |->
                       IntelligenceNotes(IntelligenceOf(c.graph, c.material, decomposition,
                                                        correlations[k], c.period, k))]]

\* _build_context_maps
ContextMaps(c) == IF c.graph = NoGraph THEN ContextMapsLegacy(c) ELSE ContextMapsFromGraph(c)

\* _build_enriched_prompt: what the language model is told about a row.
EnrichedPrompt(k, maps) ==
    LET p == Parent[k.account]
        beside == IF p \in DOMAIN maps.siblings
                  THEN {j \in maps.siblings[p] : j.account # k.account} ELSE {}
    IN  [drivers |-> k \in DOMAIN maps.decomposition,
         correlated |-> Min({3, Cardinality(maps.correlations[k])}),
         trend |-> k.account \in maps.trends,
         netting |-> k.account \in maps.netting,
         siblings |-> Min({4, Cardinality(beside)}),
         notes |-> maps.notes[k]]

\* The month before, by account and slice; of several bases the last one stays.
PriorNarratives(earlier, period) ==
    LET rows == SelectSeq(earlier, LAMBDA r : r.key.period = PriorPeriod(period)
                                              /\ r.key.view = "MTD")
        of(d) == Last(SelectSeq(rows, LAMBDA r : DimKey(r.key) = d))
    IN  [d \in {DimKey(rows[i].key) : i \in DOMAIN rows} |-> of(d)]

\* carry_note: the percentage of the row against that of the month before, which
\* may be of another base, and of a month even for a quarter or a year.
CarryNote(k, amount, prior) ==
    LET d == DimKey(k)
        now == Abs(Percent100(amount))
        then == Abs(Percent100(prior[d].amount))
    IN  IF d \notin DOMAIN prior \/ prior[d].amount.comparator = 0 THEN Null
        ELSE IF now > then THEN "widened" ELSE IF now < then THEN "narrowed" ELSE Null

LargestPart(parts) ==
    CHOOSE c \in DOMAIN parts : \A d \in DOMAIN parts : Abs(parts[d]) <= Abs(parts[c])

\* _generate_template_narrative.  The FX note is never there, since the maps
\* keep method and components only.
TemplateNarrative(k, material, maps, prior) ==
    [about |-> k, source |-> "GENERATED",
     uses |-> [trend |-> k.account \in maps.trends,
               driver |-> IF k \in DOMAIN maps.decomposition
                          THEN LargestPart(maps.decomposition[k].components) ELSE Null,
               carry |-> CarryNote(k, material[k], prior),
               notes |-> maps.notes[k]]]

\* _generate_llm_narrative_enriched, when the model answers with all four texts.
LlmNarrative(k, maps) == [about |-> k, source |-> "llm", uses |-> EnrichedPrompt(k, maps)]

\* _process_one: the language model first, the template when it has no answer.
ProcessOne(k, material, maps, prior, answered) ==
    IF k \in answered THEN LlmNarrative(k, maps)
    ELSE TemplateNarrative(k, material, maps, prior)

-----------------------------------------------------------------------------
(* The narratives of the rows *)

Stage1(order) == SelectSeq(order, LAMBDA k : k.account \notin Calculated)
Stage2(order) == SelectSeq(order, LAMBDA k : k.account \in Calculated)

\* The rows a calculated row's narrative is made from: of every account below
\* it, or that its formula is about, the row that was processed last among the
\* leaves, of any view and base, or else the first calculated one.
ChildRows(k, order, withFormulas) ==
    LET below == {a \in Accounts : \/ Parent[a] = k.account
                                   \/ /\ withFormulas /\ k.account \in DOMAIN Formula
                                      /\ a \in Dependencies(k.account)}
        of(seq, a) == SelectSeq(seq, LAMBDA j : /\ j.account = a
                          /\ BusinessUnit[j.slice] = BusinessUnit[k.slice])
        row(a) == IF of(Stage1(order), a) # <<>> THEN Last(of(Stage1(order), a))
                  ELSE Head(of(Stage2(order), a))
    IN  {row(a) : a \in {b \in below : of(order, b) # <<>>}}

\* _generate_parent_llm_narrative: the model is told the rows below, and of the
\* context maps nothing.
ParentLlmNarrative(k, children) ==
    [about |-> k, source |-> "llm", uses |-> [children |-> children, trend |-> FALSE]]

\* _generate_parent_template_narrative
ParentTemplateNarrative(k, children, maps) ==
    [about |-> k, source |-> "GENERATED",
     uses |-> [children |-> children, trend |-> k.account \in maps.trends]]

\* _process_parent: without children the language model is not asked.
ProcessParent(k, order, maps, withFormulas, answered) ==
    LET children == ChildRows(k, order, withFormulas)
    IN  IF k \in answered /\ children # {} THEN ParentLlmNarrative(k, children)
        ELSE ParentTemplateNarrative(k, children, maps)

\* Both stages: the results of the leaves, then those of the calculated rows.
Results(c, order, prior, answered) ==
    LET maps == ContextMaps(c)
        leaves == Stage1(order)
        parents == Stage2(order)
    IN  [i \in DOMAIN leaves |-> ProcessOne(leaves[i], c.material, maps, prior, answered)]
        \o [i \in DOMAIN parents |->
               ProcessParent(parents[i], order, maps, c.formulas, answered)]

\* A wrong PreservedIds: only what a director has approved.
PreservedIds_Approved(review) == {k \in DOMAIN review : review[k] = "APPROVED"}

\* preserved_ids
PreservedIds(review) == {k \in DOMAIN review : review[k] \in {"ANALYST_REVIEWED", "APPROVED"}}

\* The text a preserved row has in the earlier table, or, when that was not read, the
\* one it came with, and Null for an empty one.
OldText(c, k) ==
    IF k \in DOMAIN c.existingTexts THEN c.existingTexts[k]
    ELSE IF k \in DOMAIN c.texts THEN c.texts[k] ELSE Null

Preserved(c) == PreservedIds(c.existingReview) \cap DOMAIN c.material

\* needs_generation, in the order of the table.
NeedsGeneration(c) == TableOrder(DOMAIN c.material \ Preserved(c))

\* Steps 3 to 5: the results go to the rows of needs_generation by position, the
\* preserved rows get their texts of the earlier table and no review entry.
Assigned(c, order, results) ==
    [texts |-> [k \in DOMAIN c.material |->
                   IF k \in Preserved(c) THEN OldText(c, k) ELSE results[Position(order, k)]],
     review |-> [k \in DOMAIN c.material \ Preserved(c) |-> "AI_DRAFT"]]

\* generate_narratives, steps 0 to 5.
RowNarratives(c, order, earlier, answered) ==
    Assigned(c, order, Results(c, order, PriorNarratives(earlier, c.period), answered))

-----------------------------------------------------------------------------
(* Sections and executive summaries *)

\* A wrong ViewOf: the rows of a unit are those of all.
ViewOf_AllUnits(material, view, base, unit) ==
    {k \in DOMAIN material : k.view = view /\ k.base = base}

\* The rows of a view and base, of one unit or, for Null, of all.
ViewOf(material, view, base, unit) ==
    {k \in DOMAIN material : /\ k.view = view /\ k.base = base
                            /\ unit \in {Null, BusinessUnit[k.slice]}}

BasesIn(material) == {k.base : k \in {j \in DOMAIN material : j.view = "MTD"}}

UnitsIn(material, view, base) ==
    {Null} \cup {BusinessUnit[k.slice] : k \in ViewOf(material, view, base, Null)}

SumOf(material, K, accounts) ==
    Total(material, {k \in K : k.account \in accounts}).variance

\* Accounts under those of a section that have rows, by their variance.
DriverAmounts(material, K, section) ==
    LET leaves == {a \in Accounts \ Calculated : Parent[a] \in SectionAccounts[section]}
    IN  [a \in leaves \cap {k.account : k \in K} |-> SumOf(material, K, {a})]

LargestThree(amounts) ==
    LET ahead(a, b) == \/ Abs(amounts[a]) > Abs(amounts[b])
                       \/ /\ Abs(amounts[a]) = Abs(amounts[b])
                          /\ Position(AccountOrder, a) < Position(AccountOrder, b)
    IN  {a \in DOMAIN amounts : Cardinality({b \in DOMAIN amounts : ahead(b, a)}) < 3}

\* A section of a month; its total adds the roll-up and the calculated account
\* of the section, which are the same amount twice.
SectionOf(material, period, base, unit, section, answered) ==
    LET K == ViewOf(material, "MTD", base, unit)
        amounts == DriverAmounts(material, K, section)
        id == [section |-> section, base |-> base, unit |-> unit]
    IN  [id |-> id, period |-> period, view |-> "MTD",
         total |-> SumOf(material, K, SectionAccounts[section]),
         drivers |-> LargestThree(amounts),
         positive |-> Cardinality({a \in DOMAIN amounts : amounts[a] > 0}),
         source |-> IF id \in answered THEN "llm" ELSE "GENERATED"]

\* The section of the profit accounts, of which three are told; never by the
\* language model.
ProfitabilityOf(material, period, base, unit) ==
    LET K == ViewOf(material, "MTD", base, unit)
    IN  [id |-> [section |-> "Profitability", base |-> base, unit |-> unit],
         period |-> period, view |-> "MTD", total |-> 0, drivers |-> ProfitAccounts \cap {k.account : k \in K},
         positive |-> 0, source |-> "GENERATED"]

\* Sections of a quarter or a year refer to the drivers of the month's template;
\* a text of the language model has no list of drivers to refer to.
ViewSection(material, period, view, base, unit, section, months) ==
    LET mine == {s \in months : s.id = [section |-> section, base |-> base, unit |-> unit]}
        told == UNION {s.drivers : s \in {t \in mine : t.source = "GENERATED"}}
    IN  [id |-> [section |-> section, base |-> base, unit |-> unit],
         period |-> period, view |-> view, total |-> SumOf(material, ViewOf(material, view, base, unit), SectionAccounts[section]),
         drivers |-> told, positive |-> 0, source |-> "GENERATED"]

\* Stage 3 of generate_narratives.
SectionNarratives(material, period, answered) ==
    LET bases == BasesIn(material)
        months == UNION {{SectionOf(material, period, b, u, s, answered) :
                             u \in UnitsIn(material, "MTD", b), s \in DOMAIN SectionAccounts} :
                            b \in bases}
        profits == UNION {{ProfitabilityOf(material, period, b, u) : u \in UnitsIn(material, "MTD", b)} :
                             b \in bases}
        views(v, b) == IF ViewOf(material, v, b, Null) = {} THEN {}
                       ELSE {ViewSection(material, period, v, b, u, s, months) :
                                u \in UnitsIn(material, v, b), s \in DOMAIN SectionAccounts}
    IN  months \cup profits \cup UNION {views(v, b) : v \in {"QTD", "YTD"}, b \in bases}

\* The executive summary of a view, base and unit: revenue and EBITDA, the units
\* above their target, and as risks the flags of all months and of all bases.
SummaryOf(c, view, base, unit, answered) ==
    LET K == ViewOf(c.material, view, base, unit)
        id == [section |-> "Executive", base |-> base, unit |-> unit]
        mine(slice) == unit \in {Null, BusinessUnit[slice]}
        above == {u \in UnitsIn(c.material, "MTD", base) \ {Null} :
                     SumOf(c.material, ViewOf(c.material, "MTD", base, u), {RevenueAccount}) > 0}
    IN  [id |-> id, period |-> c.period, view |-> view,
         revenue |-> SumOf(c.material, K, {RevenueAccount}),
         ebitda |-> SumOf(c.material, K, {EbitdaAccount}),
         above |-> IF unit = Null THEN above ELSE {},
         trends |-> Cardinality({t \in c.trends : mine(t.key.slice)}),
         netting |-> Cardinality({f \in c.netting : mine(f.slice)}),
         source |-> IF view = "MTD" /\ id \in answered THEN "llm" ELSE "GENERATED"]

\* Stage 4 of generate_narratives; the themes and risks of a quarter or a year
\* are those of its month.
ExecutiveSummaries(c, answered) ==
    UNION {{SummaryOf(c, v, b, u, answered) : u \in
               IF ViewOf(c.material, v, b, Null) = {} THEN {} ELSE UnitsIn(c.material, v, b)} :
               v \in Views, b \in BasesIn(c.material)}

\* generate_narratives: what the pass leaves in the context.  Without a row that
\* needs a text it returns before it has put back the preserved ones, and there
\* are no sections.
GenerateNarratives(c, earlier, answered) ==
    LET order == NeedsGeneration(c)
        with(rows) == [c EXCEPT !.narratives = TRUE,
                                !.texts = rows.texts, !.review = rows.review,
                                !.sections = SectionNarratives(c.material, c.period, answered),
                                !.summaries = ExecutiveSummaries(c, answered)]
    IN  IF DOMAIN c.material \subseteq Preserved(c) THEN [c EXCEPT !.narratives = TRUE, !.review = <<>>]
        ELSE with(RowNarratives(c, order, earlier, answered))

===============================================================================
