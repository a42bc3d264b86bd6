-------------------------- MODULE EnginePassesProofs --------------------------
(***************************************************************************)
(* Theorems about EnginePasses: what an invocation does to the tables of   *)
(* other periods, to texts that were reviewed, and what it leaves unsaid.  *)
(* The tables of pass 1, the flags, the correlations and the contents of   *)
(* texts stay the opaque results of their operators.                       *)
(***************************************************************************)
EXTENDS EnginePasses, VarianceMathProofs

Modes == {"full", "a", "b"}
Controls == Passes \cup {"idle", "next", "intermediate", "collect"}

-----------------------------------------------------------------------------
(* The order of the passes *)

\* p is a step of the invocation's mode.
InOrder(p) == \E i \in DOMAIN PassOrder[cli.mode] : PassOrder[cli.mode][i] = p

At(p) == Position(PassOrder[cli.mode], p)

\* The steps of each mode.
LEMMA StepsOfMode ==
    /\ cli.mode = "full" => \A p : InOrder(p) <=> p \in Passes \cup {"collect"}
    /\ cli.mode = "a" => \A p : InOrder(p) <=> p \in {"pass1", "pass15", "pass25", "pass2", "pass3",
                                                    "graph", "intermediate", "collect"}
    /\ cli.mode = "b" => \A p : InOrder(p) <=> p \in {"graph", "pass4", "pass5", "collect"}
  BY DEF InOrder, PassOrder, Passes

\* No step comes twice.
LEMMA StepsDiffer ==
    ASSUME cli.mode \in Modes,
           NEW i \in DOMAIN PassOrder[cli.mode], NEW j \in DOMAIN PassOrder[cli.mode],
           PassOrder[cli.mode][i] = PassOrder[cli.mode][j]
    PROVE  i = j
  BY DEF Modes, PassOrder

\* The length of the order, and its end.
LEMMA LastStep ==
    ASSUME cli.mode \in Modes
    PROVE  /\ DOMAIN PassOrder[cli.mode] = 1..Len(PassOrder[cli.mode])
           /\ Len(PassOrder[cli.mode]) \in Nat
           /\ PassOrder[cli.mode][Len(PassOrder[cli.mode])] = "collect"
           /\ Head(PassOrder[cli.mode]) = PassOrder[cli.mode][1] /\ 1 \in DOMAIN PassOrder[cli.mode]
           /\ Head(PassOrder[cli.mode]) = IF cli.mode = "b" THEN "graph" ELSE "pass1"
  <1>1. CASE cli.mode = "full"
    BY <1>1 DEF PassOrder
  <1>2. CASE cli.mode = "a"
    BY <1>2 DEF PassOrder
  <1>3. CASE cli.mode = "b"
    BY <1>3 DEF PassOrder
  <1> QED
    BY <1>1, <1>2, <1>3 DEF Modes

\* A step has its place in the order.
LEMMA PlaceOfStep ==
    ASSUME cli.mode \in Modes, NEW i \in DOMAIN PassOrder[cli.mode]
    PROVE  At(PassOrder[cli.mode][i]) = i
  BY StepsDiffer DEF At, Position

\* Every step but the last is followed by the next one.
LEMMA NextStep ==
    ASSUME cli.mode \in Modes, NEW p, InOrder(p), p # "collect"
    PROVE  InOrder(Following(p)) /\ At(p) \in Nat /\ At(Following(p)) = At(p) + 1
  <1>1. PICK i \in DOMAIN PassOrder[cli.mode] : PassOrder[cli.mode][i] = p
    BY DEF InOrder
  <1>2. At(p) = i
    BY <1>1, PlaceOfStep
  <1>3. i + 1 \in DOMAIN PassOrder[cli.mode] /\ i \in Nat
    BY <1>1, LastStep
  <1>4. Following(p) = PassOrder[cli.mode][i + 1]
    BY <1>2 DEF Following, At
  <1> QED
    BY <1>2, <1>3, <1>4, PlaceOfStep DEF InOrder

\* The narratives are written last, and in the full pipeline each pass has its successor.
LEMMA Successors ==
    /\ cli.mode \in {"full", "b"} => Following("pass5") = "collect" /\ Following("pass4") = "pass5"
                                     /\ Following("graph") = "pass4"
    /\ cli.mode \in {"full", "a"} => /\ Following("pass1") = "pass15" /\ Following("pass15") = "pass25"
                                     /\ Following("pass25") = "pass2" /\ Following("pass2") = "pass3"
                                     /\ Following("pass3") = "graph"
    /\ cli.mode = "a" => Following("graph") = "intermediate" /\ Following("intermediate") = "collect"
  <1> USE DEF Following
  <1>1. ASSUME cli.mode = "full"
        PROVE  At("pass5") = 8 /\ At("pass4") = 7 /\ At("graph") = 6 /\ At("pass3") = 5
               /\ At("pass2") = 4 /\ At("pass25") = 3 /\ At("pass15") = 2 /\ At("pass1") = 1
    <2>1. \A i \in 1..9 : At(PassOrder[cli.mode][i]) = i
      BY <1>1, PlaceOfStep DEF Modes, PassOrder
    <2> QED
      BY <1>1, <2>1 DEF PassOrder
  <1>2. ASSUME cli.mode = "b"
        PROVE  At("pass5") = 3 /\ At("pass4") = 2 /\ At("graph") = 1
    <2>1. \A i \in 1..4 : At(PassOrder[cli.mode][i]) = i
      BY <1>2, PlaceOfStep DEF Modes, PassOrder
    <2> QED
      BY <1>2, <2>1 DEF PassOrder
  <1>3. ASSUME cli.mode = "a"
        PROVE  At("intermediate") = 7 /\ At("graph") = 6 /\ At("pass3") = 5
               /\ At("pass2") = 4 /\ At("pass25") = 3 /\ At("pass15") = 2 /\ At("pass1") = 1
    <2>1. \A i \in 1..8 : At(PassOrder[cli.mode][i]) = i
      BY <1>3, PlaceOfStep DEF Modes, PassOrder
    <2> QED
      BY <1>3, <2>1 DEF PassOrder
  <1> QED
    BY <1>1, <1>2, <1>3 DEF At, PassOrder

-----------------------------------------------------------------------------
(* What a step does to the context *)

\* The passes before the narratives.
PassStep ==
    \/ ComputeRawVariances \/ Netting \/ Trends \/ ThresholdFilter
    \/ Decompose \/ BuildGraph \/ Correlate \/ Raises

\* The program counter, the invocation and the fields there are.
ControlInv ==
    /\ books \in Profiles /\ runs \in 0..MaxRuns /\ failures \in 0..MaxFailures
    /\ DOMAIN disk = DOMAIN NoTables /\ DOMAIN cli = DOMAIN NoInvocation
    /\ DOMAIN cli.out = DOMAIN NoTables /\ DOMAIN ctx = DOMAIN NoContext
    /\ pc \in Controls /\ errors \in Seq(Passes)
    /\ pc = "idle" => cli.mode = Null
    /\ pc # "idle" => cli.mode \in Modes /\ cli.queue \in Seq(cli.periods)
    /\ pc \notin {"idle", "next"} =>
          /\ InOrder(pc) /\ ctx.period \in cli.periods
          /\ \A i \in DOMAIN errors : InOrder(errors[i]) /\ At(errors[i]) < At(pc)

\* The rows that pass 2 keeps are of the period, and with them are rows of its month.
LEMMA KeptRows ==
    ASSUME NEW rows, NEW netting, NEW trends, NEW period,
           NEW k \in DOMAIN ApplyThresholdFilter(rows, netting, trends, period)
    PROVE  /\ k \in DOMAIN rows /\ k.period = period
           /\ \E j \in DOMAIN ApplyThresholdFilter(rows, netting, trends, period) : j.view = "MTD"
  <1> DEFINE netted == NettedAccounts(netting, period)
             trending == TrendingKeys(trends)
             flags == [j \in {i \in DOMAIN rows : i.period = period /\ i.view = "MTD"} |->
                          Flags(rows, j, netted, trending)]
             kept == {j \in DOMAIN flags : \E f \in DOMAIN flags[j] : flags[j][f]}
             others == {j \in DOMAIN rows : /\ j.period = period
                                            /\ j.view \in {"QTD", "YTD"}
                                            /\ \E i \in kept : DimKey(i) = DimKey(j)}
  <1>1. DOMAIN ApplyThresholdFilter(rows, netting, trends, period) = kept \cup others
    BY DEF ApplyThresholdFilter
  <1>2. \A j \in kept : j \in DOMAIN rows /\ j.period = period /\ j.view = "MTD"
    OBVIOUS
  <1>3. \A j \in others : j \in DOMAIN rows /\ j.period = period /\ \E i \in kept : TRUE
    OBVIOUS
  <1> HIDE DEF kept, others
  <1> QED
    BY <1>1, <1>2, <1>3

\* A pass leaves the texts and what was on disk alone.
LEMMA PassFacts ==
    ASSUME ControlInv, PassStep
    PROVE  /\ pc \in Passes /\ pc' = Following(pc) /\ UNCHANGED <<books, disk, unreadable, cli, runs>>
           /\ failures' \in 0..MaxFailures
           /\ errors' = errors \/ errors' = Append(errors, pc)
           /\ DOMAIN ctx' = DOMAIN ctx /\ ctx'.period = ctx.period
           /\ ctx'.texts = ctx.texts /\ ctx'.review = ctx.review
           /\ ctx'.existingReview = ctx.existingReview /\ ctx'.existingTexts = ctx.existingTexts
           /\ pc # "pass2" => ctx'.material = ctx.material
           /\ \/ ctx'.material = ctx.material
              \/ \A k \in DOMAIN ctx'.material :
                    /\ k \in DOMAIN ctx.all /\ k.period = ctx.period /\ ctx.all # Null
                    /\ \E j \in DOMAIN ctx'.material : j.view = "MTD"
  <1>1. DOMAIN ctx = DOMAIN NoContext
    BY DEF ControlInv
  <1>2. MaxFailures \in Nat /\ failures \in 0..MaxFailures
    BY EngineAssumption DEF ControlInv
  <1>3. CASE ComputeRawVariances
    BY <1>1, <1>2, <1>3 DEF ComputeRawVariances, Completes, NoContext, Passes
  <1>4. CASE Netting
    BY <1>1, <1>2, <1>4 DEF Netting, Completes, NoContext, Passes
  <1>5. CASE Trends
    BY <1>1, <1>2, <1>5 DEF Trends, Completes, NoContext, Passes
  <1>6. CASE ThresholdFilter
    <2> DEFINE flags == ApplyThresholdFilter(ctx.all, ctx.netting, ctx.trends, ctx.period)
               material == [k \in DOMAIN flags |-> ctx.all[k]]
    <2>1. /\ pc = "pass2" /\ ctx.all # Null /\ pc' = Following(pc)
          /\ ctx' = [ctx EXCEPT !.flags = flags, !.material = material]
          /\ UNCHANGED <<books, disk, unreadable, cli, errors, runs, failures>>
      BY <1>6 DEF ThresholdFilter, Completes
    <2>2. \A k \in DOMAIN flags : /\ k \in DOMAIN ctx.all /\ k.period = ctx.period
                                  /\ \E j \in DOMAIN flags : j.view = "MTD"
      BY KeptRows
    <2>3. DOMAIN material = DOMAIN flags
      OBVIOUS
    <2> HIDE DEF flags, material
    <2> QED
      BY <1>1, <1>2, <2>1, <2>2, <2>3 DEF NoContext, Passes
  <1>7. CASE Decompose
    BY <1>1, <1>2, <1>7 DEF Decompose, Completes, NoContext, Passes
  <1>8. CASE BuildGraph
    BY <1>1, <1>2, <1>8 DEF BuildGraph, Completes, NoContext, Passes
  <1>9. CASE Correlate
    BY <1>1, <1>2, <1>9 DEF Correlate, Completes, NoContext, Passes
  <1>10. CASE Raises
    BY <1>1, <1>2, <1>10 DEF Raises, Passes
  <1> QED
    BY <1>3, <1>4, <1>5, <1>6, <1>7, <1>8, <1>9, <1>10 DEF PassStep

\* Context g is c with narratives: what is new in it, and what is as it was.
Kept(c, g) ==
    /\ DOMAIN g = DOMAIN NoContext
    /\ g.period = c.period /\ g.material = c.material
    /\ g.existingReview = c.existingReview /\ g.existingTexts = c.existingTexts
    /\ g.graph = c.graph /\ g.decomposition = c.decomposition
    /\ IF DOMAIN c.material \subseteq Preserved(c)
       THEN g.texts = c.texts /\ g.review = <<>>
       ELSE /\ DOMAIN g.texts = DOMAIN c.material /\ DOMAIN g.review \subseteq DOMAIN c.material
            /\ \A k \in Preserved(c) : g.texts[k] = OldText(c, k)

Told(c, g, answered) ==
    /\ g.narratives = TRUE
    /\ \/ DOMAIN c.material \subseteq Preserved(c)
       \/ /\ g.sections = SectionNarratives(c.material, c.period, answered)
          /\ g.summaries = ExecutiveSummaries(c, answered)

\* What the narratives leave in the context.
LEMMA NarrativesLeave ==
    ASSUME NEW c, DOMAIN c = DOMAIN NoContext, NEW earlier, NEW answered, NEW g,
           g = GenerateNarratives(c, earlier, answered)
    PROVE  Kept(c, g) /\ Told(c, g, answered)
  <1> DEFINE order == NeedsGeneration(c)
             rows == RowNarratives(c, order, earlier, answered)
             sections == SectionNarratives(c.material, c.period, answered)
             summaries == ExecutiveSummaries(c, answered)
  <1>1. g = IF DOMAIN c.material \subseteq Preserved(c)
            THEN [c EXCEPT !.narratives = TRUE, !.review = <<>>]
            ELSE [c EXCEPT !.narratives = TRUE, !.texts = rows.texts, !.review = rows.review,
                           !.sections = sections, !.summaries = summaries]
    BY DEF GenerateNarratives
  <1>2. /\ DOMAIN rows.texts = DOMAIN c.material
        /\ DOMAIN rows.review \subseteq DOMAIN c.material
        /\ \A k \in Preserved(c) : rows.texts[k] = OldText(c, k)
    <2> DEFINE results == Results(c, order, PriorNarratives(earlier, c.period), answered)
    <2>1. rows = Assigned(c, order, results)
      BY DEF RowNarratives
    <2> HIDE DEF order, rows, results
    <2>2. Preserved(c) \subseteq DOMAIN c.material
      BY DEF Preserved
    <2> QED
      BY <2>1, <2>2 DEF Assigned
  <1> HIDE DEF order, rows, sections, summaries
  <1>3. CASE DOMAIN c.material \subseteq Preserved(c)
    BY <1>1, <1>3 DEF NoContext, Kept, Told
  <1>4. CASE ~(DOMAIN c.material \subseteq Preserved(c))
    <2>1. g = [c EXCEPT !.narratives = TRUE, !.texts = rows.texts, !.review = rows.review,
                        !.sections = sections, !.summaries = summaries]
      BY <1>1, <1>4
    <2>2. /\ DOMAIN g = DOMAIN NoContext /\ g.narratives = TRUE
          /\ g.period = c.period /\ g.material = c.material
          /\ g.existingReview = c.existingReview /\ g.existingTexts = c.existingTexts
          /\ g.graph = c.graph /\ g.decomposition = c.decomposition
      BY <2>1 DEF NoContext
    <2>3. /\ g.texts = rows.texts /\ g.review = rows.review /\ g.sections = sections
          /\ g.summaries = summaries
      BY <2>1 DEF NoContext
    <2> QED
      BY <1>2, <1>4, <2>2, <2>3 DEF sections, summaries, Kept, Told
  <1> QED
    BY <1>3, <1>4

\* The pass that writes them.
LEMMA NarrateFacts ==
    ASSUME ControlInv, Narrate
    PROVE  /\ pc = "pass5" /\ pc' = Following(pc)
           /\ UNCHANGED <<books, disk, unreadable, cli, runs>>
           /\ failures' \in 0..MaxFailures
           /\ errors' = errors \/ errors' = Append(errors, pc)
           /\ Kept(ctx, ctx')
           /\ errors' = errors => \E answered : Told(ctx, ctx', answered)
  <1>1. DOMAIN ctx = DOMAIN NoContext /\ failures \in 0..MaxFailures /\ MaxFailures \in Nat
        /\ errors \in Seq(Passes)
    BY EngineAssumption DEF ControlInv
  <1>2. PICK answered \in {{}} \cup (IF cli.llm THEN {Askable} ELSE {}), raises \in BOOLEAN :
            LET left(c) == IF raises THEN [c EXCEPT !.sections = {}, !.summaries = {}] ELSE c
            IN  /\ raises => answered = {} /\ failures < MaxFailures
                /\ failures' = IF raises THEN failures + 1 ELSE failures
                /\ errors' = IF raises THEN Append(errors, pc) ELSE errors
                /\ ctx' = left(GenerateNarratives(ctx, Earlier, answered))
    BY DEF Narrate
  <1> DEFINE g == GenerateNarratives(ctx, Earlier, answered)
  <1>3. /\ raises => failures < MaxFailures
        /\ failures' = IF raises THEN failures + 1 ELSE failures
        /\ errors' = IF raises THEN Append(errors, pc) ELSE errors
        /\ ctx' = IF raises THEN [g EXCEPT !.sections = {}, !.summaries = {}] ELSE g
    BY <1>2
  <1>4. pc = "pass5" /\ pc' = Following(pc) /\ UNCHANGED <<books, disk, unreadable, cli, runs>>
    BY DEF Narrate
  <1>5. Kept(ctx, g) /\ Told(ctx, g, answered)
    <2>1. DOMAIN ctx = DOMAIN NoContext
      BY <1>1
    <2> QED
      BY <2>1, NarrativesLeave
  <1> HIDE DEF g
  <1>6. Append(errors, pc) # errors
    BY <1>1, <1>4 DEF Passes
  <1>7. CASE raises
    <2>1. ctx' = [g EXCEPT !.sections = {}, !.summaries = {}] /\ errors' = Append(errors, pc)
          /\ failures' \in 0..MaxFailures
      BY <1>1, <1>3, <1>7
    <2>2. Kept(ctx, ctx')
      BY <1>5, <2>1 DEF Kept, NoContext
    <2> QED
      BY <1>4, <1>6, <2>1, <2>2
  <1>8. CASE ~raises
    BY <1>1, <1>3, <1>4, <1>5, <1>8
  <1> QED
    BY <1>7, <1>8

-----------------------------------------------------------------------------
(* The course of an invocation *)

\* A pass, whatever it does to the context, takes the invocation to its next step.
LEMMA ControlGoesOn ==
    ASSUME ControlInv, pc \notin {"idle", "next", "collect"}, pc' = Following(pc),
           UNCHANGED <<books, cli, runs>>, failures' \in 0..MaxFailures,
           errors' = errors \/ (errors' = Append(errors, pc) /\ pc \in Passes),
           DOMAIN disk' = DOMAIN disk, DOMAIN ctx' = DOMAIN ctx, ctx'.period = ctx.period
    PROVE  ControlInv'
  <1>1. cli.mode \in Modes /\ InOrder(pc)
        /\ \A i \in DOMAIN errors : InOrder(errors[i]) /\ At(errors[i]) < At(pc)
    BY DEF ControlInv
  <1>2. InOrder(pc') /\ At(pc) \in Nat /\ At(pc') = At(pc) + 1
    BY <1>1, NextStep
  <1>3. pc' \in Controls /\ pc' \notin {"idle", "next"}
    BY <1>1, <1>2, StepsOfMode DEF Modes, Controls, Passes
  <1>6. \A i \in DOMAIN errors : At(errors[i]) \in Nat
    BY <1>1, PlaceOfStep, LastStep DEF InOrder
  <1>7. /\ errors' \in Seq(Passes)
        /\ \A i \in DOMAIN errors' : InOrder(errors'[i]) /\ At(errors'[i]) < At(pc')
    <2>1. CASE errors' = errors
      BY <1>1, <1>2, <1>6, <2>1 DEF ControlInv
    <2>2. CASE errors' = Append(errors, pc) /\ pc \in Passes
      <3>1. errors \in Seq(Passes)
        BY DEF ControlInv
      <3>2. /\ errors' \in Seq(Passes)
            /\ \A i \in DOMAIN errors' : errors'[i] = pc \/ \E j \in DOMAIN errors : errors'[i] = errors[j]
        BY <2>2, <3>1
      <3> QED
        BY <1>1, <1>2, <1>6, <3>2
    <2> QED
      BY <2>1, <2>2
  <1>8. (InOrder(pc) /\ \A i \in DOMAIN errors : InOrder(errors[i]) /\ At(errors[i]) < At(pc))'
    BY <1>2, <1>7 DEF InOrder, At
  <1> QED
    BY <1>3, <1>7, <1>8 DEF ControlInv

\* A save of the tables of Process A, and one of all tables, wherever it is cut.
SavesIntermediate ==
    \E n \in 0..Len(IntermediateSaves), torn \in BOOLEAN : SaveIntermediate(n, torn)

SavesAll == \E n \in 0..Len(Saves), torn \in BOOLEAN : Save(n, torn)

\* The next-state relation by what its steps do to an invocation.
LEMMA Steps ==
    ASSUME [Next]_vars
    PROVE  \/ \E i \in Invocations, read \in Reads : Invoke(i, read)
           \/ StartPeriod \/ PassStep \/ Narrate \/ SavesIntermediate \/ Collect
           \/ SavesAll \/ ExportReviews
           \/ UNCHANGED vars
  BY DEF Next, PassStep, SavesIntermediate, SavesAll

\* What becomes of a file: it is as it was, is written, or is cut within.
FileWritten(f, fresh, new) ==
    \/ /\ \A t \in DOMAIN NoTables : FileOf(t) = f => disk'[t] = disk[t]
       /\ f \in unreadable' <=> f \in unreadable
    \/ /\ f \in fresh /\ f \notin unreadable'
       /\ \A t \in DOMAIN NoTables : FileOf(t) = f => disk'[t] = new[t]
    \/ /\ f \in fresh /\ f \in unreadable'
       /\ \A t \in DOMAIN NoTables : FileOf(t) = f => disk'[t] = NoTables[t]

\* A save does one of these to each file.
LEMMA FilesWritten ==
    ASSUME DOMAIN disk = DOMAIN NoTables,
           NEW files, NEW fresh, NEW new, NEW n, NEW torn, WriteFiles(files, fresh, new, n, torn),
           torn => files[n + 1] \notin {files[i] : i \in 1..n}
    PROVE  DOMAIN disk' = DOMAIN disk /\ \A f : FileWritten(f, fresh, new)
  <1> DEFINE done == {files[i] : i \in 1..n} \cap fresh
             broken == IF torn THEN {files[n + 1]} ELSE {}
  <1>1. /\ disk' = [t \in DOMAIN disk |-> CASE FileOf(t) \in done -> new[t]
                                           [] FileOf(t) \in broken -> NoTables[t]
                                           [] OTHER -> disk[t]]
        /\ unreadable' = (unreadable \ done) \cup broken
    BY DEF WriteFiles
  <1>2. done \subseteq fresh /\ broken \subseteq fresh
    BY DEF WriteFiles
  <1>3. done \cap broken = {}
    OBVIOUS
  <1> HIDE DEF done, broken
  <1>4. ASSUME NEW t \in DOMAIN NoTables
        PROVE  /\ FileOf(t) \in done => disk'[t] = new[t]
               /\ FileOf(t) \in broken => disk'[t] = NoTables[t]
               /\ FileOf(t) \notin done \cup broken => disk'[t] = disk[t]
    BY <1>1, <1>3
  <1>5. ASSUME NEW f PROVE FileWritten(f, fresh, new)
    <2>1. CASE f \in done
      BY <1>1, <1>2, <1>3, <1>4, <2>1 DEF FileWritten
    <2>2. CASE f \in broken
      BY <1>1, <1>2, <1>4, <2>2 DEF FileWritten
    <2>3. CASE f \notin done \cup broken
      BY <1>1, <1>4, <2>3 DEF FileWritten
    <2> QED
      BY <2>1, <2>2, <2>3
  <1> QED
    BY <1>1, <1>5

\* No file is written twice.
LEMMA FilesDiffer ==
    /\ \A n \in 0..Len(Saves) : n < Len(Saves) => Saves[n + 1] \notin {Saves[i] : i \in 1..n}
    /\ \A n \in 0..Len(IntermediateSaves) : n < Len(IntermediateSaves) =>
          IntermediateSaves[n + 1] \notin {IntermediateSaves[i] : i \in 1..n}
  <1>1. /\ Len(Saves) = 8 /\ DOMAIN Saves = 1..8
        /\ \A i \in 1..8, j \in 1..8 : Saves[i] = Saves[j] => i = j
    BY DEF Saves
  <1>2. /\ Len(IntermediateSaves) = 4 /\ DOMAIN IntermediateSaves = 1..4
        /\ \A i \in 1..4, j \in 1..4 : IntermediateSaves[i] = IntermediateSaves[j] => i = j
    BY DEF IntermediateSaves
  <1>3. ASSUME NEW n \in 0..8, n < 8, Saves[n + 1] \in {Saves[i] : i \in 1..n} PROVE FALSE
    BY <1>1, <1>3
  <1>4. ASSUME NEW n \in 0..4, n < 4, IntermediateSaves[n + 1] \in {IntermediateSaves[i] : i \in 1..n}
        PROVE  FALSE
    BY <1>2, <1>4
  <1> QED
    BY <1>1, <1>2, <1>3, <1>4

\* The invocation is over.
Ends == pc' = "idle" /\ cli' = NoInvocation /\ ctx' = NoContext /\ errors' = <<>>

\* What a save of all tables does.
LEMMA SaveFacts ==
    ASSUME ControlInv, SavesAll
    PROVE  /\ pc = "next" /\ Ends /\ UNCHANGED <<books, runs>> /\ failures' \in 0..MaxFailures
           /\ DOMAIN disk' = DOMAIN disk
           /\ \A f : FileWritten(f, {g \in ToSet(Saves) : cli.out[g] # NoTables[g]}, Written)
  <1>1. PICK n \in 0..Len(Saves), torn \in BOOLEAN : Save(n, torn)
    BY DEF SavesAll
  <1> DEFINE fresh == {g \in ToSet(Saves) : cli.out[g] # NoTables[g]}
  <1>2. /\ pc = "next" /\ Ends /\ UNCHANGED <<books, runs>>
        /\ WriteFiles(Saves, fresh, Written, n, torn) /\ CutAfter(n, Saves)
    BY <1>1 DEF Save, Ends
  <1>3. failures' \in 0..MaxFailures
    BY <1>2, EngineAssumption DEF ControlInv, CutAfter
  <1>4. torn => Saves[n + 1] \notin {Saves[i] : i \in 1..n}
    BY <1>2, FilesDiffer DEF WriteFiles
  <1>5. DOMAIN disk = DOMAIN NoTables
    BY DEF ControlInv
  <1> HIDE DEF fresh
  <1>6. DOMAIN disk' = DOMAIN disk /\ \A f : FileWritten(f, fresh, Written)
    BY <1>2, <1>4, <1>5, FilesWritten
  <1> QED
    BY <1>2, <1>3, <1>6 DEF fresh

\* The rows and texts of the period, as _save_intermediate writes them.
OfContext == [t \in DOMAIN disk |-> IF t = "texts" THEN <<>> ELSE ctx[t]]

\* What a save of the tables of Process A does.
LEMMA IntermediateFacts ==
    ASSUME ControlInv, SavesIntermediate
    PROVE  /\ pc = "intermediate" /\ cli.mode = "a" /\ UNCHANGED <<books, runs>>
           /\ failures' \in 0..MaxFailures /\ DOMAIN disk' = DOMAIN disk
           /\ Ends \/ (pc' = Following(pc) /\ UNCHANGED <<cli, ctx, errors>>)
           /\ \A f : FileWritten(f, ToSet(IntermediateSaves), OfContext)
  <1>1. PICK n \in 0..Len(IntermediateSaves), torn \in BOOLEAN : SaveIntermediate(n, torn)
    BY DEF SavesIntermediate
  <1> DEFINE fresh == {f \in ToSet(IntermediateSaves) : ctx[f] # NoTables[f]}
  <1>2. /\ pc = "intermediate" /\ UNCHANGED <<books, runs>>
        /\ WriteFiles(IntermediateSaves, fresh, OfContext, n, torn)
        /\ CutAfter(n, IntermediateSaves)
        /\ Ends \/ (pc' = Following(pc) /\ UNCHANGED <<cli, ctx, errors>>)
    BY <1>1 DEF SaveIntermediate, OfContext, Ends
  <1>3. failures' \in 0..MaxFailures
    BY <1>2, EngineAssumption DEF ControlInv, CutAfter
  <1>4. torn => IntermediateSaves[n + 1] \notin {IntermediateSaves[i] : i \in 1..n}
    BY <1>2, FilesDiffer DEF WriteFiles
  <1>5. DOMAIN disk = DOMAIN NoTables /\ fresh \subseteq ToSet(IntermediateSaves)
    BY DEF ControlInv
  <1> HIDE DEF fresh
  <1>6. DOMAIN disk' = DOMAIN disk /\ \A f : FileWritten(f, fresh, OfContext)
    BY <1>2, <1>4, <1>5, FilesWritten
  <1>7. \A f : FileWritten(f, ToSet(IntermediateSaves), OfContext)
    BY <1>5, <1>6 DEF FileWritten
  <1>8. cli.mode = "a"
    <2>1. cli.mode \in Modes /\ InOrder("intermediate")
      BY <1>2 DEF ControlInv
    <2>2. "intermediate" \notin Passes \cup {"collect"}
      BY DEF Passes
    <2> QED
      BY <2>1, <2>2, StepsOfMode DEF Modes
  <1> QED
    BY <1>2, <1>3, <1>6, <1>7, <1>8

\* What the context of a period starts with.
LEMMA FreshContext ==
    ASSUME ControlInv, StartPeriod
    PROVE  LET p == Head(cli.queue)
           IN  /\ DOMAIN ctx' = DOMAIN NoContext /\ ctx'.period = p
               /\ ctx'.existingReview = cli.existing.review
               /\ ctx'.existingTexts = cli.existing.texts
               /\ ctx'.review = <<>> /\ ctx'.all = Null
               /\ IF cli.mode = "b"
                  THEN /\ ctx'.material = OfPeriods(disk.material, {p})
                       /\ ctx'.texts = OfPeriods(disk.texts, {p})
                  ELSE ctx'.material = <<>> /\ ctx'.texts = <<>>
  <1>1. ctx' = IF cli.mode = "b" THEN ContextFromDisk(Head(cli.queue))
               ELSE [NoContext EXCEPT !.period = Head(cli.queue),
                                      !.existingReview = cli.existing.review,
                                      !.existingTexts = cli.existing.texts]
    BY DEF StartPeriod
  <1> QED
    BY <1>1 DEF ContextFromDisk, NoContext

\* Every step keeps the course.
LEMMA ControlSteps ==
    ASSUME ControlInv, [Next]_vars
    PROVE  ControlInv'
  <1>1. ASSUME NEW i \in Invocations, NEW read \in Reads, Invoke(i, read) PROVE ControlInv'
    <2>1. i.mode \in Modes /\ i.periods \in Seq(Periods)
      BY EngineAssumption DEF Modes
    <2>2. i.periods \in Seq(ToSet(i.periods))
      BY <2>1 DEF ToSet
    <2>3. /\ cli'.mode = i.mode /\ cli'.queue = i.periods /\ cli'.periods = ToSet(i.periods)
          /\ cli'.out = NoTables /\ DOMAIN cli' = DOMAIN NoInvocation
          /\ pc' = "next" /\ runs < MaxRuns /\ runs' = runs + 1
          /\ UNCHANGED <<books, disk, ctx, errors>>
          /\ failures' \in {failures, failures + 1} /\ failures' <= MaxFailures
      BY <1>1 DEF Invoke, NoInvocation
    <2>4. runs' \in 0..MaxRuns /\ failures' \in 0..MaxFailures
      BY <2>3, EngineAssumption DEF ControlInv
    <2> QED
      BY <2>1, <2>2, <2>3, <2>4 DEF ControlInv, Controls
  <1>2. CASE StartPeriod
    <2>1. /\ pc = "next" /\ cli.mode \in Modes /\ cli.queue \in Seq(cli.periods) /\ cli.queue # <<>>
          /\ cli' = [cli EXCEPT !.queue = Tail(cli.queue)] /\ errors' = <<>>
          /\ pc' = Head(PassOrder[cli.mode]) /\ UNCHANGED <<books, disk, runs, failures>>
      BY <1>2 DEF StartPeriod, ControlInv
    <2>2. /\ Head(cli.queue) \in cli.periods /\ Tail(cli.queue) \in Seq(cli.periods)
      <3>1. cli.queue \in Seq(cli.periods) /\ cli.queue # <<>>
        BY <2>1
      <3> QED
        BY <3>1, HeadTailProperties
    <2>3. /\ cli'.mode = cli.mode /\ cli'.periods = cli.periods /\ cli'.out = cli.out
          /\ cli'.queue = Tail(cli.queue) /\ DOMAIN cli' = DOMAIN cli
      BY <2>1 DEF ControlInv, NoInvocation
    <2>4. DOMAIN ctx' = DOMAIN NoContext /\ ctx'.period = Head(cli.queue)
      BY <1>2, FreshContext
    <2>5. InOrder(pc') /\ pc' \in Controls
      BY <2>1, LastStep DEF InOrder, Controls, Passes
    <2>6. InOrder(pc)'
      BY <2>3, <2>5 DEF InOrder
    <2>7. /\ errors' \in Seq(Passes)
          /\ (\A i \in DOMAIN errors : InOrder(errors[i]) /\ At(errors[i]) < At(pc))'
      <3>1. errors' \in Seq(Passes) /\ DOMAIN errors' = {}
        BY <2>1
      <3> QED
        BY <3>1
    <2>8. /\ books' \in Profiles /\ runs' \in 0..MaxRuns /\ failures' \in 0..MaxFailures
          /\ DOMAIN disk' = DOMAIN NoTables /\ DOMAIN cli' = DOMAIN NoInvocation
          /\ DOMAIN cli'.out = DOMAIN NoTables /\ pc' # "idle"
      BY <2>1, <2>3, LastStep DEF ControlInv
    <2>9. cli'.mode \in Modes /\ cli'.queue \in Seq(cli'.periods) /\ ctx'.period \in cli'.periods
      BY <2>1, <2>2, <2>3, <2>4
    <2> QED
      BY <2>4, <2>5, <2>6, <2>7, <2>8, <2>9 DEF ControlInv
  <1>3. CASE PassStep
    <2>1. pc \notin {"idle", "next", "collect"}
      BY <1>3, PassFacts DEF Passes
    <2> QED
      BY <1>3, <2>1, PassFacts, ControlGoesOn
  <1>4. CASE Narrate
    <2>1. /\ pc = "pass5" /\ pc' = Following(pc) /\ UNCHANGED <<books, disk, cli, runs>>
          /\ failures' \in 0..MaxFailures
          /\ errors' = errors \/ errors' = Append(errors, pc)
          /\ DOMAIN ctx' = DOMAIN ctx /\ ctx'.period = ctx.period
      BY <1>4, NarrateFacts DEF Kept, ControlInv
    <2>2. pc \notin {"idle", "next", "collect"} /\ pc \in Passes
      BY <2>1 DEF Passes
    <2> QED
      BY <2>1, <2>2, ControlGoesOn
  <1>11. ASSUME Ends, UNCHANGED <<books, runs>>, failures' \in 0..MaxFailures, DOMAIN disk' = DOMAIN disk
         PROVE  ControlInv'
    <2>1. DOMAIN NoInvocation.out = DOMAIN NoTables /\ NoInvocation.mode = Null
      BY DEF NoInvocation
    <2>2. errors' \in Seq(Passes)
      BY <1>11 DEF Ends
    <2> QED
      BY <1>11, <2>1, <2>2 DEF Ends, ControlInv, Controls
  <1>5. CASE SavesIntermediate
    <2>1. /\ pc = "intermediate" /\ UNCHANGED <<books, runs>> /\ failures' \in 0..MaxFailures
          /\ Ends \/ (pc' = Following(pc) /\ UNCHANGED <<cli, ctx, errors>>)
          /\ DOMAIN disk' = DOMAIN disk
      BY <1>5, IntermediateFacts
    <2> QED
      BY <1>11, <2>1, ControlGoesOn
  <1>6. CASE Collect
    <2>1. pc = "collect" /\ pc' = "next" /\ UNCHANGED <<books, disk, ctx, errors, runs, failures>>
      BY <1>6 DEF Collect
    <2>2. /\ cli'.mode = cli.mode /\ cli'.queue = cli.queue /\ cli'.periods = cli.periods
          /\ DOMAIN cli' = DOMAIN cli /\ DOMAIN cli'.out = DOMAIN NoTables
      BY <1>6 DEF Collect, ControlInv, NoInvocation, NoTables
    <2> QED
      BY <2>1, <2>2 DEF ControlInv, Controls
  <1>7. CASE SavesAll
    BY <1>7, <1>11, SaveFacts
  <1>8. CASE ExportReviews
    <2>1. DOMAIN disk' = DOMAIN disk /\ UNCHANGED <<books, cli, ctx, pc, errors, runs, failures>>
      BY <1>8 DEF ExportReviews
    <2> QED
      BY <2>1 DEF ControlInv, InOrder, At
  <1>9. CASE UNCHANGED vars
    BY <1>9 DEF vars, ControlInv, InOrder, At
  <1> QED
    BY <1>1, <1>2, <1>3, <1>4, <1>5, <1>6, <1>7, <1>8, <1>9, Steps

\* The invariant of the control holds at the start.
LEMMA ControlStart == Init => ControlInv
  <1> SUFFICES ASSUME Init PROVE ControlInv
    OBVIOUS
  <1>1. /\ cli = NoInvocation /\ cli.mode = Null /\ DOMAIN cli.out = DOMAIN NoTables
    BY DEF Init, NoInvocation
  <1>2. errors \in Seq(Passes) /\ runs \in 0..MaxRuns /\ failures \in 0..MaxFailures
    BY EngineAssumption DEF Init
  <1> QED
    BY <1>1, <1>2 DEF Init, ControlInv, Controls

-----------------------------------------------------------------------------
(* What is saved *)

\* The rows of a table laid over another.
LEMMA OverRows ==
    ASSUME NEW new, NEW old
    PROVE  /\ DOMAIN Over(new, old) = DOMAIN new \cup DOMAIN old
           /\ \A k \in DOMAIN new : Over(new, old)[k] = new[k]
           /\ \A k \in DOMAIN old : k \notin DOMAIN new => Over(new, old)[k] = old[k]
  BY DEF Over

\* The rows of a table that are of some periods.
LEMMA RowsOfPeriods ==
    ASSUME NEW table, NEW S
    PROVE  /\ \A k : k \in DOMAIN OfPeriods(table, S) <=> k \in DOMAIN table /\ k.period \in S
           /\ \A k \in DOMAIN OfPeriods(table, S) : OfPeriods(table, S)[k] = table[k]
  BY DEF OfPeriods

\* Tables that agree on the rows of a period have the same rows of it.
LEMMA SamePeriod ==
    ASSUME NEW new, NEW old, NEW p,
           \A k : k.period = p => (k \in DOMAIN new <=> k \in DOMAIN old),
           \A k \in DOMAIN old : k.period = p => new[k] = old[k]
    PROVE  OfPeriods(new, {p}) = OfPeriods(old, {p})
  <1>1. {k \in DOMAIN new : k.period \in {p}} = {k \in DOMAIN old : k.period \in {p}}
    OBVIOUS
  <1> QED
    BY <1>1 DEF OfPeriods

\* Saving writes kept rows and their texts together, and the other tables as they come; it
\* may leave a file that cannot be read.
LEMMA SavedTables ==
    ASSUME ControlInv, SavesAll
    PROVE  /\ \/ disk'.material = disk.material /\ disk'.texts = disk.texts
              \/ disk'.material = Written.material /\ disk'.texts = Written.texts
              \/ disk'.material = <<>> /\ disk'.texts = <<>> /\ "material" \in unreadable'
           /\ \/ disk'.review \in {disk.review, Written.review}
              \/ disk'.review = <<>> /\ "review" \in unreadable'
           /\ disk'.decomposition \in {disk.decomposition, Written.decomposition, <<>>}
  <1>1. \A f : FileWritten(f, {g \in ToSet(Saves) : cli.out[g] # NoTables[g]}, Written)
    BY SaveFacts
  <1>2. /\ {"material", "texts", "review", "decomposition"} \subseteq DOMAIN NoTables
        /\ NoTables.material = <<>> /\ NoTables.texts = <<>> /\ NoTables.review = <<>>
        /\ NoTables.decomposition = <<>>
        /\ FileOf("material") = "material" /\ FileOf("texts") = "material"
        /\ FileOf("review") = "review" /\ FileOf("decomposition") = "decomposition"
    BY DEF NoTables, FileOf
  <1> DEFINE fresh == {g \in ToSet(Saves) : cli.out[g] # NoTables[g]}
  <1> HIDE DEF fresh
  <1>3. FileWritten("material", fresh, Written) /\ FileWritten("review", fresh, Written)
        /\ FileWritten("decomposition", fresh, Written)
    BY <1>1 DEF fresh
  <1> QED
    BY <1>2, <1>3 DEF FileWritten

\* What is saved of a table: what is new, and the rows of the periods not asked for.
Merged(new, old) == Over(new, OfPeriods(old, Periods \ cli.periods))

\* What is written of the tables with a period: what is new and what is kept of the old, or
\* only what is new when the file cannot be read.
LEMMA WrittenTables ==
    ASSUME ControlInv
    PROVE  /\ IF "material" \in unreadable
              THEN Written.material = cli.out.material /\ Written.texts = cli.out.texts
              ELSE /\ Written.material = Merged(cli.out.material, disk.material)
                   /\ Written.texts = Merged(cli.out.texts, disk.texts)
           /\ IF "review" \in unreadable THEN Written.review = cli.out.review
              ELSE Written.review = Merged(cli.out.review, disk.review)
           /\ Written.decomposition = cli.out.decomposition
  <1>1. /\ DOMAIN disk = DOMAIN NoTables
        /\ {"material", "texts", "review", "decomposition"} \subseteq DOMAIN NoTables
    BY DEF ControlInv, NoTables
  <1>2. /\ Written.material = SavedTable("material") /\ Written.texts = SavedTable("texts")
        /\ Written.review = SavedTable("review")
        /\ Written.decomposition = cli.out.decomposition
    BY <1>1 DEF Written
  <1> QED
    BY <1>2 DEF SavedTable, FileOf, Merged

\* Saving the tables of Process A replaces the rows and empties the texts, or leaves both.
LEMMA IntermediateTables ==
    ASSUME ControlInv, SavesIntermediate
    PROVE  /\ \/ disk'.material = disk.material /\ disk'.texts = disk.texts
              \/ disk'.material \in {ctx.material, <<>>} /\ disk'.texts = <<>>
           /\ disk'.review = disk.review
           /\ disk'.decomposition \in {disk.decomposition, ctx.decomposition, <<>>}
  <1>1. \A f : FileWritten(f, ToSet(IntermediateSaves), OfContext)
    BY IntermediateFacts
  <1>2. /\ {"material", "texts", "review", "decomposition"} \subseteq DOMAIN NoTables
        /\ NoTables.material = <<>> /\ NoTables.texts = <<>> /\ NoTables.decomposition = <<>>
        /\ FileOf("material") = "material" /\ FileOf("texts") = "material"
        /\ FileOf("review") = "review" /\ FileOf("decomposition") = "decomposition"
    BY DEF NoTables, FileOf
  <1>3. /\ OfContext.material = ctx.material /\ OfContext.texts = <<>>
        /\ OfContext.decomposition = ctx.decomposition
    BY <1>2 DEF OfContext, ControlInv
  <1>4. "review" \notin ToSet(IntermediateSaves)
    <2>1. \A i \in DOMAIN IntermediateSaves : IntermediateSaves[i] # "review"
      BY DEF IntermediateSaves
    <2> QED
      BY <2>1 DEF ToSet
  <1>5. /\ FileWritten("material", ToSet(IntermediateSaves), OfContext)
        /\ FileWritten("review", ToSet(IntermediateSaves), OfContext)
        /\ FileWritten("decomposition", ToSet(IntermediateSaves), OfContext)
    BY <1>1
  <1> HIDE DEF OfContext
  <1> QED
    BY <1>2, <1>3, <1>4, <1>5 DEF FileWritten

\* A file that cannot be read shows nothing.
BrokenShowNothing == \A t \in DOMAIN NoTables : FileOf(t) \in unreadable => disk[t] = NoTables[t]

\* Saving keeps it so.
LEMMA BrokenStay ==
    ASSUME BrokenShowNothing, NEW fresh, NEW new, \A f : FileWritten(f, fresh, new)
    PROVE  BrokenShowNothing'
  <1> SUFFICES ASSUME NEW t \in DOMAIN NoTables, FileOf(t) \in unreadable'
               PROVE  disk'[t] = NoTables[t]
    BY DEF BrokenShowNothing, NoTables, FileOf
  <1>1. FileWritten(FileOf(t), fresh, new)
    OBVIOUS
  <1> QED
    BY <1>1 DEF FileWritten, BrokenShowNothing

\* The tables of rows, of texts and of review states belong together: texts and states are
\* of kept rows, and an invocation has rows of its own periods only.
TablesInv ==
    /\ BrokenShowNothing
    /\ DOMAIN disk.texts \subseteq DOMAIN disk.material
    /\ pc # "idle" =>
          /\ DOMAIN cli.out.texts \subseteq DOMAIN cli.out.material
          /\ DOMAIN cli.out.review \subseteq DOMAIN cli.out.material
          /\ \A k \in DOMAIN cli.out.material : k.period \in cli.periods
          /\ cli.mode = "a" => DOMAIN cli.out.texts = {}
    /\ pc \notin {"idle", "next"} =>
          /\ DOMAIN ctx.texts \subseteq DOMAIN ctx.material
          /\ DOMAIN ctx.review \subseteq DOMAIN ctx.material
          /\ \A k \in DOMAIN ctx.material : k.period = ctx.period
          /\ cli.mode = "a" \/ (cli.mode = "full" /\ pc \in Passes) =>
                ctx.texts = <<>> /\ ctx.review = <<>>

\* Every step keeps the invariant of the tables.
LEMMA TablesSteps ==
    ASSUME ControlInv, ControlInv', TablesInv, [Next]_vars
    PROVE  TablesInv'
  <1>0. DOMAIN <<>> = {}
    OBVIOUS
  <1>10. ASSUME UNCHANGED <<disk, unreadable>> PROVE BrokenShowNothing'
    BY <1>10 DEF BrokenShowNothing, TablesInv, FileOf, NoTables
  <1>1. ASSUME NEW i \in Invocations, NEW read \in Reads, Invoke(i, read) PROVE TablesInv'
    <2>1. UNCHANGED <<disk, unreadable>> /\ pc' = "next" /\ cli'.out = NoTables
      BY <1>1 DEF Invoke
    <2>2. cli'.out.texts = <<>> /\ cli'.out.material = <<>> /\ cli'.out.review = <<>>
      BY <2>1 DEF NoTables
    <2> QED
      BY <1>0, <1>10, <2>1, <2>2 DEF TablesInv
  <1>2. CASE StartPeriod
    <2>1. /\ pc = "next" /\ cli' = [cli EXCEPT !.queue = Tail(cli.queue)] /\ UNCHANGED <<disk, unreadable>>
      BY <1>2 DEF StartPeriod
    <2>2. cli'.out = cli.out /\ cli'.mode = cli.mode /\ cli'.periods = cli.periods
      BY <2>1
    <2>3. /\ DOMAIN ctx'.texts \subseteq DOMAIN ctx'.material /\ ctx'.review = <<>>
          /\ \A k \in DOMAIN ctx'.material : k.period = ctx'.period
          /\ cli.mode # "b" => ctx'.texts = <<>>
      BY <1>0, <1>2, FreshContext, RowsOfPeriods DEF TablesInv
    <2>4. cli.mode = "b" => cli.mode # "a" /\ cli.mode # "full"
      OBVIOUS
    <2> QED
      BY <1>0, <1>10, <2>1, <2>2, <2>3, <2>4 DEF TablesInv
  <1>3. CASE PassStep
    <2>1. /\ pc \in Passes /\ UNCHANGED <<disk, unreadable, cli>> /\ ctx'.period = ctx.period
          /\ ctx'.texts = ctx.texts /\ ctx'.review = ctx.review
          /\ pc # "pass2" => ctx'.material = ctx.material
          /\ \/ ctx'.material = ctx.material
             \/ \A k \in DOMAIN ctx'.material : k.period = ctx.period
      BY <1>3, PassFacts
    <2>2. pc \notin {"idle", "next"} /\ cli.mode \in Modes /\ InOrder(pc)
      BY <2>1 DEF Passes, ControlInv
    <2>3. pc = "pass2" => cli.mode \in {"a", "full"}
      BY <2>2, StepsOfMode DEF Modes
    <2>4. DOMAIN ctx'.texts \subseteq DOMAIN ctx'.material /\ DOMAIN ctx'.review \subseteq DOMAIN ctx'.material
      BY <1>0, <2>1, <2>2, <2>3 DEF TablesInv
    <2>5. \A k \in DOMAIN ctx'.material : k.period = ctx'.period
      BY <2>1, <2>2 DEF TablesInv
    <2> QED
      BY <1>10, <2>1, <2>2, <2>4, <2>5 DEF TablesInv
  <1>4. CASE Narrate
    <2>1. pc = "pass5" /\ pc' = Following("pass5") /\ UNCHANGED <<disk, unreadable, cli>> /\ Kept(ctx, ctx')
      BY <1>4, NarrateFacts
    <2>2. cli.mode \in {"full", "b"}
      BY <2>1, StepsOfMode DEF ControlInv, Modes
    <2>3. pc' = "collect"
      BY <2>1, <2>2, Successors
    <2>4. /\ DOMAIN ctx'.texts \subseteq DOMAIN ctx'.material
          /\ DOMAIN ctx'.review \subseteq DOMAIN ctx'.material
          /\ \A k \in DOMAIN ctx'.material : k.period = ctx'.period
      BY <1>0, <2>1 DEF Kept, TablesInv
    <2> QED
      BY <1>10, <2>1, <2>2, <2>3, <2>4 DEF TablesInv, Passes
  <1>5. CASE SavesIntermediate
    <2>1. /\ pc = "intermediate" /\ cli.mode = "a"
          /\ pc' = "idle" \/ (pc' = Following(pc) /\ UNCHANGED <<cli, ctx>>)
      BY <1>5, IntermediateFacts DEF Ends
    <2>2. \/ disk'.material = disk.material /\ disk'.texts = disk.texts
          \/ disk'.texts = <<>>
      BY <1>5, IntermediateTables
    <2>3. BrokenShowNothing'
      BY <1>5, IntermediateFacts, BrokenStay DEF TablesInv
    <2>4. CASE pc' = "idle"
      BY <1>0, <2>2, <2>3, <2>4 DEF TablesInv
    <2>5. CASE pc' = Following(pc) /\ UNCHANGED <<cli, ctx>>
      BY <1>0, <2>1, <2>2, <2>3, <2>5 DEF TablesInv
    <2> QED
      BY <2>1, <2>4, <2>5
  <1>6. CASE Collect
    <2>1. /\ pc = "collect" /\ pc' = "next" /\ UNCHANGED <<disk, unreadable>>
          /\ cli'.mode = cli.mode /\ cli'.periods = cli.periods
          /\ cli'.out.material = Over(ctx.material, cli.out.material)
          /\ cli'.out.texts = Over(ctx.texts, cli.out.texts)
          /\ cli'.out.review = Over(ctx.review, cli.out.review)
      BY <1>6 DEF Collect, ControlInv, NoInvocation
    <2>2. ctx.period \in cli.periods
      BY <2>1 DEF ControlInv
    <2>3. /\ DOMAIN cli'.out.material = DOMAIN ctx.material \cup DOMAIN cli.out.material
          /\ DOMAIN cli'.out.texts = DOMAIN ctx.texts \cup DOMAIN cli.out.texts
          /\ DOMAIN cli'.out.review = DOMAIN ctx.review \cup DOMAIN cli.out.review
      BY <2>1 DEF Over
    <2> QED
      BY <1>0, <1>10, <2>1, <2>2, <2>3 DEF TablesInv
  <1>7. CASE SavesAll
    <2>1. /\ pc = "next" /\ pc' = "idle"
          /\ \/ disk'.material = disk.material /\ disk'.texts = disk.texts
             \/ disk'.material = Written.material /\ disk'.texts = Written.texts
             \/ disk'.material = <<>> /\ disk'.texts = <<>>
      BY <1>7, SaveFacts, SavedTables DEF Ends
    <2>2. DOMAIN cli.out.texts \subseteq DOMAIN cli.out.material
      BY <2>1 DEF TablesInv
    <2>3. DOMAIN Written.texts \subseteq DOMAIN Written.material
      <3>1. DOMAIN Merged(cli.out.texts, disk.texts) \subseteq DOMAIN Merged(cli.out.material, disk.material)
        <4>1. DOMAIN OfPeriods(disk.texts, Periods \ cli.periods)
                 \subseteq DOMAIN OfPeriods(disk.material, Periods \ cli.periods)
          BY RowsOfPeriods DEF TablesInv
        <4> QED
          BY <2>2, <4>1 DEF Over, Merged
      <3> QED
        BY <2>2, <3>1, WrittenTables
    <2>4. BrokenShowNothing'
      BY <1>7, SaveFacts, BrokenStay DEF TablesInv
    <2> QED
      BY <1>0, <2>1, <2>3, <2>4 DEF TablesInv
  <1>8. CASE ExportReviews
    <2>1. /\ disk'.material = disk.material /\ disk'.texts = disk.texts /\ pc' = "idle"
          /\ unreadable' = unreadable /\ disk.review # <<>>
          /\ \A t \in DOMAIN NoTables \ {"review"} : disk'[t] = disk[t]
      BY <1>0, <1>8 DEF ExportReviews, ControlInv
    <2>2. "review" \notin unreadable
      BY <2>1 DEF TablesInv, BrokenShowNothing, NoTables, FileOf
    <2>3. BrokenShowNothing'
      BY <2>1, <2>2 DEF TablesInv, BrokenShowNothing, NoTables, FileOf
    <2> QED
      BY <2>1, <2>3 DEF TablesInv
  <1>9. CASE UNCHANGED vars
    BY <1>9, <1>10 DEF vars, TablesInv
  <1> QED
    BY <1>1, <1>2, <1>3, <1>4, <1>5, <1>6, <1>7, <1>8, <1>9, Steps

\* The invariant of the tables holds at the start.
LEMMA TablesStart == Init => TablesInv
  BY DEF Init, TablesInv, BrokenShowNothing, NoTables

\* The initial states and the steps keep control and tables together.
LEMMA TablesKept == Spec => [](ControlInv /\ TablesInv)
  <1>1. Init => ControlInv /\ TablesInv
    BY ControlStart, TablesStart
  <1>2. (ControlInv /\ TablesInv) /\ [Next]_vars => (ControlInv /\ TablesInv)'
    BY ControlSteps, TablesSteps
  <1> QED
    BY <1>1, <1>2, PTL DEF Spec

-----------------------------------------------------------------------------
(* Other periods *)

\* What is saved of a table has the rows of the other periods that were there.
LEMMA SavedPeriods ==
    ASSUME NEW new, NEW old, NEW p \in Periods \ cli.periods,
           \A k \in DOMAIN new : k.period \in cli.periods
    PROVE  OfPeriods(Merged(new, old), {p}) = OfPeriods(old, {p})
  <1> DEFINE kept == OfPeriods(old, Periods \ cli.periods)
             saved == Over(new, kept)
  <1>1. /\ \A k : k \in DOMAIN kept <=> k \in DOMAIN old /\ k.period \in Periods \ cli.periods
        /\ \A k \in DOMAIN kept : kept[k] = old[k]
    BY RowsOfPeriods
  <1> HIDE DEF kept
  <1>2. /\ DOMAIN saved = DOMAIN new \cup DOMAIN kept
        /\ \A k \in DOMAIN kept : k \notin DOMAIN new => saved[k] = kept[k]
    BY OverRows
  <1> HIDE DEF saved
  <1>3. \A k : k.period = p => (k \in DOMAIN saved <=> k \in DOMAIN old)
    BY <1>1, <1>2
  <1>4. \A k \in DOMAIN old : k.period = p => saved[k] = old[k]
    BY <1>1, <1>2
  <1>5. OfPeriods(saved, {p}) = OfPeriods(old, {p})
    BY <1>3, <1>4, SamePeriod
  <1> QED
    BY <1>5 DEF saved, kept, Merged

\* An invocation that writes narratives leaves the rows, texts and review states of the
\* periods it was not asked for alone, however its passes fail and wherever between two
\* files the saving is cut, but for the file that a cut leaves half written; of that
\* the next save keeps nothing (run_engine.py:363-441).
THEOREM OtherPeriodsStay == Spec => OtherPeriodsKept
  <1> DEFINE Stays == cli.mode \in {"full", "b"} =>
                 \A t \in {"material", "texts", "review"}, p \in Periods \ cli.periods :
                     \/ OfPeriods(disk'[t], {p}) = OfPeriods(disk[t], {p})
                     \/ FileOf(t) \in unreadable'
  <1>1. ASSUME ControlInv, TablesInv, [Next]_vars
        PROVE  disk' = disk \/ Stays
    <2> SUFFICES ASSUME cli.mode \in {"full", "b"}, disk' # disk,
                        NEW t \in {"material", "texts", "review"}, NEW p \in Periods \ cli.periods,
                        FileOf(t) \notin unreadable'
                 PROVE  OfPeriods(disk'[t], {p}) = OfPeriods(disk[t], {p})
      OBVIOUS
    <2>1. pc # "idle"
      <3>1. Null # "full" /\ Null # "b"
        BY EngineAssumption
      <3>2. pc = "idle" => cli.mode = Null
        BY <1>1 DEF ControlInv
      <3> QED
        BY <3>1, <3>2
    <2>2. ~SavesIntermediate
      BY <1>1, IntermediateFacts
    <2>3. SavesAll
      <3>1. ~ExportReviews /\ ~\E i \in Invocations, read \in Reads : Invoke(i, read)
        BY <2>1 DEF ExportReviews, Invoke
      <3>2. StartPeriod => UNCHANGED disk
        BY DEF StartPeriod
      <3>3. PassStep \/ Narrate => UNCHANGED disk
        BY <1>1, PassFacts, NarrateFacts
      <3>4. Collect \/ UNCHANGED vars => UNCHANGED disk
        BY DEF Collect, vars
      <3> QED
        BY <1>1, <2>2, <3>1, <3>2, <3>3, <3>4, Steps
    <2>4. /\ FileOf("material") = "material" /\ FileOf("texts") = "material"
          /\ FileOf("review") = "review"
      BY DEF FileOf
    <2>5. /\ \A k \in DOMAIN cli.out.material : k.period \in cli.periods
          /\ \A k \in DOMAIN cli.out.texts : k.period \in cli.periods
          /\ \A k \in DOMAIN cli.out.review : k.period \in cli.periods
      BY <1>1, <2>1 DEF TablesInv
    <2>6. disk'[t] = disk[t] \/ disk'[t] = Written[t]
      BY <1>1, <2>3, <2>4, SavedTables
    <2>7. ASSUME FileOf(t) \in unreadable
          PROVE  OfPeriods(Written[t], {p}) = OfPeriods(disk[t], {p})
      <3>1. Written[t] = cli.out[t]
        BY <1>1, <2>4, <2>7, WrittenTables
      <3>2. \A k \in DOMAIN cli.out[t] : k.period # p
        BY <2>5
      <3>3. disk[t] = <<>>
        BY <1>1, <2>7 DEF TablesInv, BrokenShowNothing, NoTables
      <3>4. DOMAIN disk[t] = {}
        BY <3>3
      <3> HIDE DEF Written
      <3>5. \A k : k.period = p => (k \in DOMAIN Written[t] <=> k \in DOMAIN disk[t])
        BY <3>1, <3>2, <3>4
      <3>6. \A k \in DOMAIN disk[t] : k.period = p => Written[t][k] = disk[t][k]
        BY <3>4
      <3> DEFINE new == Written[t]
                 old == disk[t]
      <3>7. /\ \A k : k.period = p => (k \in DOMAIN new <=> k \in DOMAIN old)
            /\ \A k \in DOMAIN old : k.period = p => new[k] = old[k]
        BY <3>5, <3>6
      <3> HIDE DEF new, old
      <3>8. OfPeriods(new, {p}) = OfPeriods(old, {p})
        BY <3>7, SamePeriod
      <3> QED
        BY <3>8 DEF new, old
    <2>8. ASSUME FileOf(t) \notin unreadable
          PROVE  OfPeriods(Written[t], {p}) = OfPeriods(disk[t], {p})
      <3>1. Written[t] = Merged(cli.out[t], disk[t])
        BY <1>1, <2>4, <2>8, WrittenTables
      <3>2. \A k \in DOMAIN cli.out[t] : k.period \in cli.periods
        BY <2>5
      <3> QED
        BY <3>1, <3>2, SavedPeriods
    <2> QED
      BY <2>6, <2>7, <2>8
  <1>2. ControlInv /\ TablesInv /\ [Next]_vars => [Stays]_disk
    BY <1>1
  <1> QED
    BY <1>2, TablesKept, PTL DEF Spec, OtherPeriodsKept

-----------------------------------------------------------------------------
(* Reviewed texts *)

\* The texts have, for the rows that this invocation has read to be reviewed, what is on
\* disk or nothing.
Faithful(texts) ==
    \A k \in DOMAIN texts \cap DOMAIN disk.texts :
        Reviewed(cli.existing.review, k) => texts[k] \in {disk.texts[k], Null}

\* Until it saves, an invocation that writes narratives keeps to the reviews it has read and
\* to the texts on disk, which it may have failed to read.
ReviewsInv ==
    cli.mode \in {"full", "b"} =>
        /\ cli.existing.texts \in {disk.texts, <<>>}
        /\ Faithful(cli.out.texts)
        /\ pc \notin {"idle", "next"} =>
              /\ ctx.existingReview = cli.existing.review
              /\ ctx.existingTexts = cli.existing.texts
              /\ Faithful(ctx.texts)

\* The narratives keep to them.
LEMMA NarrativesFaithful ==
    ASSUME ctx.existingReview = cli.existing.review, ctx.existingTexts \in {disk.texts, <<>>},
           Faithful(ctx.texts), Kept(ctx, ctx'), UNCHANGED <<disk, cli>>
    PROVE  Faithful(ctx.texts)'
  <1>1. CASE DOMAIN ctx.material \subseteq Preserved(ctx)
    BY <1>1 DEF Kept, Faithful
  <1>2. CASE ~(DOMAIN ctx.material \subseteq Preserved(ctx))
    <2>1. /\ DOMAIN ctx'.texts = DOMAIN ctx.material
          /\ \A k \in Preserved(ctx) : ctx'.texts[k] = OldText(ctx, k)
      BY <1>2 DEF Kept
    <2>2. \A k \in DOMAIN ctx.material : Reviewed(cli.existing.review, k) => k \in Preserved(ctx)
      BY DEF Reviewed, Preserved, PreservedIds
    <2>3. ASSUME NEW k \in DOMAIN disk.texts, Reviewed(cli.existing.review, k)
          PROVE  OldText(ctx, k) \in {disk.texts[k], Null}
      <3>1. CASE ctx.existingTexts = disk.texts
        BY <2>3, <3>1 DEF OldText
      <3>2. CASE ctx.existingTexts = <<>>
        <4>1. k \in DOMAIN ctx.texts => ctx.texts[k] \in {disk.texts[k], Null}
          BY <2>3 DEF Faithful
        <4>2. DOMAIN ctx.existingTexts = {}
          BY <3>2
        <4> QED
          BY <4>1, <4>2 DEF OldText
      <3> QED
        BY <3>1, <3>2
    <2> QED
      BY <2>1, <2>2, <2>3 DEF Faithful
  <1> QED
    BY <1>1, <1>2

\* Every step keeps the invariant of the reviews.
LEMMA ReviewsSteps ==
    ASSUME ControlInv, ControlInv', TablesInv, ReviewsInv, [Next]_vars
    PROVE  ReviewsInv'
  <1>0. Null \notin {"full", "b"} /\ DOMAIN <<>> = {}
    BY EngineAssumption
  <1>1. ASSUME NEW i \in Invocations, NEW read \in Reads, Invoke(i, read) PROVE ReviewsInv'
    <2>1. /\ UNCHANGED disk /\ pc' = "next" /\ cli'.out = NoTables
          /\ cli'.existing = Existing(read)
      BY <1>1 DEF Invoke
    <2>2. cli'.existing.texts \in {disk.texts, <<>>} /\ cli'.out.texts = <<>>
      BY <2>1 DEF Existing, ControlInv, NoTables
    <2> QED
      BY <1>0, <2>1, <2>2 DEF ReviewsInv, Faithful
  <1>2. CASE StartPeriod
    <2>1. /\ pc = "next" /\ cli' = [cli EXCEPT !.queue = Tail(cli.queue)] /\ UNCHANGED disk
      BY <1>2 DEF StartPeriod
    <2>2. cli'.out = cli.out /\ cli'.mode = cli.mode /\ cli'.existing = cli.existing
      BY <2>1
    <2> SUFFICES ASSUME cli.mode \in {"full", "b"} PROVE ReviewsInv'
      BY <2>2 DEF ReviewsInv
    <2>3. cli.existing.texts \in {disk.texts, <<>>} /\ Faithful(cli.out.texts)
      BY DEF ReviewsInv
    <2>4. ctx'.existingReview = cli.existing.review /\ ctx'.existingTexts = cli.existing.texts
      BY <1>2, FreshContext
    <2>5. \A k \in DOMAIN ctx'.texts : ctx'.texts[k] = disk.texts[k]
      BY <1>0, <1>2, FreshContext, RowsOfPeriods
    <2> QED
      BY <2>1, <2>2, <2>3, <2>4, <2>5 DEF ReviewsInv, Faithful
  <1>3. CASE PassStep
    <2>1. /\ pc \in Passes /\ UNCHANGED <<disk, cli>> /\ ctx'.texts = ctx.texts
          /\ ctx'.existingReview = ctx.existingReview /\ ctx'.existingTexts = ctx.existingTexts
      BY <1>3, PassFacts
    <2>2. pc \notin {"idle", "next"}
      BY <2>1 DEF Passes
    <2> QED
      BY <2>1, <2>2 DEF ReviewsInv, Faithful
  <1>4. CASE Narrate
    <2>1. pc = "pass5" /\ UNCHANGED <<disk, cli>> /\ Kept(ctx, ctx')
      BY <1>4, NarrateFacts
    <2> SUFFICES ASSUME cli.mode \in {"full", "b"} PROVE ReviewsInv'
      BY <2>1 DEF ReviewsInv
    <2>2. /\ cli.existing.texts \in {disk.texts, <<>>}
          /\ Faithful(cli.out.texts) /\ Faithful(ctx.texts)
          /\ ctx.existingReview = cli.existing.review /\ ctx.existingTexts = cli.existing.texts
      BY <2>1 DEF ReviewsInv
    <2>3. Faithful(ctx.texts)'
      BY <2>1, <2>2, NarrativesFaithful
    <2>4. Faithful(cli.out.texts)'
      BY <2>1, <2>2 DEF Faithful
    <2>5. ctx'.existingReview = cli.existing.review /\ ctx'.existingTexts = cli.existing.texts
      BY <2>1, <2>2 DEF Kept
    <2> QED
      BY <2>1, <2>2, <2>3, <2>4, <2>5 DEF ReviewsInv
  <1>5. CASE SavesIntermediate
    <2>1. cli.mode = "a" /\ (cli' = NoInvocation \/ UNCHANGED cli)
      BY <1>5, IntermediateFacts DEF Ends
    <2> QED
      BY <1>0, <2>1 DEF ReviewsInv, NoInvocation
  <1>6. CASE Collect
    <2>1. /\ pc = "collect" /\ pc' = "next" /\ UNCHANGED disk
          /\ cli'.mode = cli.mode /\ cli'.existing = cli.existing
          /\ cli'.out.texts = Over(ctx.texts, cli.out.texts)
      BY <1>6 DEF Collect, ControlInv, NoInvocation
    <2> SUFFICES ASSUME cli.mode \in {"full", "b"} PROVE ReviewsInv'
      BY <2>1 DEF ReviewsInv
    <2>2. /\ cli.existing.texts \in {disk.texts, <<>>}
          /\ Faithful(cli.out.texts) /\ Faithful(ctx.texts)
      BY <2>1 DEF ReviewsInv
    <2>3. Faithful(cli.out.texts)'
      BY <2>1, <2>2 DEF Over, Faithful
    <2> QED
      BY <2>1, <2>2, <2>3 DEF ReviewsInv
  <1>7. CASE SavesAll
    BY <1>0, <1>7, SaveFacts DEF ReviewsInv, NoInvocation, Ends
  <1>8. CASE ExportReviews
    BY <1>0, <1>8 DEF ExportReviews, ReviewsInv, ControlInv
  <1>9. CASE UNCHANGED vars
    BY <1>9 DEF vars, ReviewsInv, Faithful
  <1> QED
    BY <1>1, <1>2, <1>3, <1>4, <1>5, <1>6, <1>7, <1>8, <1>9, Steps

\* A table that is laid over the rows that are left of another has of those what it had.
LEMMA MergedTexts ==
    ASSUME NEW new, NEW old, NEW k \in DOMAIN Merged(new, old)
    PROVE  \/ k \in DOMAIN new /\ Merged(new, old)[k] = new[k]
           \/ k \in DOMAIN old /\ Merged(new, old)[k] = old[k]
  BY DEF Merged, Over, OfPeriods

\* An invocation never puts another text in the place of one that the review states it has
\* read call reviewed; the text stays or is lost (pass5_narrative.py:1221-1251, 1497-1511).
\* The formula speaks of one invocation: the next may find the row reviewed no more.
THEOREM ReviewedStay == Spec => ReviewedNotRewritten
  <1> DEFINE Same == \A k \in DOMAIN disk.texts \cap DOMAIN disk'.texts :
                        Reviewed(cli.existing.review, k) => disk'.texts[k] \in {disk.texts[k], Null}
  <1>0. DOMAIN <<>> = {}
    OBVIOUS
  <1>1. Init => ControlInv /\ TablesInv /\ ReviewsInv
    <2>1. Init => ReviewsInv
      BY EngineAssumption DEF Init, ReviewsInv, NoInvocation
    <2> QED
      BY <2>1, ControlStart, TablesStart
  <1>2. (ControlInv /\ TablesInv /\ ReviewsInv) /\ [Next]_vars
            => (ControlInv /\ TablesInv /\ ReviewsInv)'
    BY ControlSteps, TablesSteps, ReviewsSteps
  <1>3. ASSUME ControlInv, TablesInv, ReviewsInv, [Next]_vars PROVE Same
    <2>1. ASSUME UNCHANGED disk PROVE Same
      BY <2>1
    <2>2. ASSUME NEW i \in Invocations, NEW read \in Reads, Invoke(i, read) PROVE Same
      BY <2>1, <2>2 DEF Invoke
    <2>3. CASE StartPeriod
      BY <2>1, <2>3 DEF StartPeriod
    <2>4. CASE PassStep \/ Narrate
      BY <1>3, <2>1, <2>4, PassFacts, NarrateFacts
    <2>5. CASE SavesIntermediate
      <3>1. disk'.texts = disk.texts \/ disk'.texts = <<>>
        BY <1>3, <2>5, IntermediateTables
      <3> QED
        BY <1>0, <3>1
    <2>6. CASE Collect
      BY <2>1, <2>6 DEF Collect
    <2>7. CASE SavesAll
      <3>1. pc = "next" /\ disk'.texts \in {disk.texts, Written.texts, <<>>}
        BY <1>3, <2>7, SaveFacts, SavedTables
      <3>2. Written.texts \in {cli.out.texts, Merged(cli.out.texts, disk.texts)}
        BY <1>3, WrittenTables
      <3>3. Faithful(cli.out.texts)
        <4>1. cli.mode \in Modes
          BY <1>3, <3>1 DEF ControlInv
        <4>2. cli.mode = "a" => DOMAIN cli.out.texts = {}
          BY <1>3, <3>1 DEF TablesInv
        <4> QED
          BY <1>3, <4>1, <4>2 DEF Modes, ReviewsInv, Faithful
      <3>4. \A k \in DOMAIN disk.texts \cap DOMAIN Merged(cli.out.texts, disk.texts) :
               Reviewed(cli.existing.review, k)
                  => Merged(cli.out.texts, disk.texts)[k] \in {disk.texts[k], Null}
        BY <3>3, MergedTexts DEF Faithful
      <3>5. \A k \in DOMAIN disk.texts \cap DOMAIN Written.texts :
               Reviewed(cli.existing.review, k) => Written.texts[k] \in {disk.texts[k], Null}
        BY <3>2, <3>3, <3>4 DEF Faithful
      <3> HIDE DEF Written
      <3> QED
        BY <1>0, <3>1, <3>5
    <2>8. CASE ExportReviews
      <3>1. disk'.texts = disk.texts
        BY <2>8 DEF ExportReviews
      <3> QED
        BY <3>1
    <2>9. CASE UNCHANGED vars
      BY <2>1, <2>9 DEF vars
    <2> HIDE DEF Same
    <2> QED
      BY <1>3, <2>2, <2>3, <2>4, <2>5, <2>6, <2>7, <2>8, <2>9, Steps
  <1>4. ControlInv /\ TablesInv /\ ReviewsInv /\ [Next]_vars => [Same]_disk
    BY <1>3
  <1> QED
    BY <1>1, <1>2, <1>4, PTL DEF Spec, ReviewedNotRewritten

-----------------------------------------------------------------------------
(* Nothing missing without an error *)

\* A graph that was built is a graph.
LEMMA GraphIsThere ==
    ASSUME NEW acctMeta, NEW material, NEW all, NEW correlations, NEW netting, NEW trends,
           NEW decomposition
    PROVE  BuildFromContext(acctMeta, material, all, correlations, netting, trends,
                            decomposition) # NoGraph
  <1> DEFINE rows == IF DOMAIN material = {} /\ all # Null THEN all ELSE material
             nodes == AddVariances(AddAccountHierarchy(EmptyGraph, acctMeta), rows)
             netted == AddNetting(AddCorrelations(nodes, correlations), netting)
             flagged == AddTrends(netted, trends)
             split == AddDecomposition(flagged, decomposition)
  <1>1. "accounts" \in DOMAIN nodes
    BY DEF AddVariances, AddAccountHierarchy, EmptyGraph
  <1> HIDE DEF nodes
  <1>2. "accounts" \in DOMAIN netted
    BY <1>1 DEF AddNetting, AddCorrelations
  <1> HIDE DEF netted
  <1>3. "accounts" \in DOMAIN flagged
    BY <1>2 DEF AddTrends
  <1> HIDE DEF flagged
  <1>4. "accounts" \in DOMAIN split
    BY <1>3 DEF AddDecomposition
  <1> HIDE DEF split
  <1>5. "accounts" \in DOMAIN AddSections(split, material)
    BY <1>4 DEF AddSections
  <1>6. AddSections(split, material) # NoGraph
    BY <1>5 DEF NoGraph
  <1> QED
    BY <1>6 DEF BuildFromContext, split, flagged, netted, nodes, rows

\* Where there is a row of a month there are sections and a summary of the company.
LEMMA SectionsAreThere ==
    ASSUME NEW material, NEW period, NEW answered, NEW k \in DOMAIN material, k.view = "MTD"
    PROVE  SectionNarratives(material, period, answered) # {}
  <1> DEFINE bases == BasesIn(material)
             profits == UNION {{ProfitabilityOf(material, period, b, u) :
                                   u \in UnitsIn(material, "MTD", b)} : b \in bases}
  <1>1. k.base \in bases
    BY DEF BasesIn
  <1>2. Null \in UnitsIn(material, "MTD", k.base)
    BY DEF UnitsIn
  <1>3. ProfitabilityOf(material, period, k.base, Null) \in profits
    BY <1>1, <1>2
  <1>4. profits \subseteq SectionNarratives(material, period, answered)
    BY DEF SectionNarratives
  <1> QED
    BY <1>3, <1>4

\* The summaries of a view and base.
SummariesOf(c, v, b, answered) ==
    {SummaryOf(c, v, b, u, answered) : u \in
        IF ViewOf(c.material, v, b, Null) = {} THEN {} ELSE UnitsIn(c.material, v, b)}

\* Where a row of the month is kept there is an executive summary.
LEMMA SummariesAreThere ==
    ASSUME NEW c, NEW answered, NEW k \in DOMAIN c.material, k.view = "MTD"
    PROVE  ExecutiveSummaries(c, answered) # {}
  <1>1. k.base \in BasesIn(c.material) /\ "MTD" \in Views
    BY DEF BasesIn, Views
  <1>2. k \in ViewOf(c.material, "MTD", k.base, Null)
    BY DEF ViewOf
  <1>3. Null \in UnitsIn(c.material, "MTD", k.base)
    BY DEF UnitsIn
  <1>4. SummaryOf(c, "MTD", k.base, Null, answered) \in SummariesOf(c, "MTD", k.base, answered)
    BY <1>2, <1>3 DEF SummariesOf
  <1>5. ExecutiveSummaries(c, answered)
            = UNION {SummariesOf(c, v, b, answered) : v \in Views, b \in BasesIn(c.material)}
    BY DEF ExecutiveSummaries, SummariesOf
  <1> QED
    BY <1>1, <1>4, <1>5

\* The rows that can be split are.
Split == {k \in DOMAIN ctx.material : Decomposable(k)} = DOMAIN ctx.decomposition

\* What the full pipeline has done when it has reached a pass without an error.
FullInv ==
    cli.mode = "full" /\ pc \notin {"idle", "next"} =>
        /\ DOMAIN ctx.material # {} => \E k \in DOMAIN ctx.material : k.view = "MTD"
        /\ errors = <<>> =>
              /\ pc \in {"pass4", "pass5", "collect"} => ctx.graph # NoGraph
              /\ pc \in {"graph", "pass4", "pass5", "collect"} => Split
              /\ pc = "collect" =>
                    /\ ctx.narratives
                    /\ \/ DOMAIN ctx.texts = DOMAIN ctx.material
                       \/ DOMAIN ctx.material \subseteq Preserved(ctx)
                    /\ ctx.texts # <<>> => ctx.sections # {} /\ ctx.summaries # {}

\* What a pass that ends well has done.
LEMMA PassDone ==
    ASSUME ControlInv, PassStep, cli.mode = "full", errors' = errors
    PROVE  /\ pc = "pass3" => Split'
           /\ pc = "graph" => /\ ctx'.graph # NoGraph
                              /\ ctx'.material = ctx.material /\ ctx'.decomposition = ctx.decomposition
           /\ pc = "pass4" => /\ ctx'.graph = ctx.graph
                              /\ ctx'.material = ctx.material /\ ctx'.decomposition = ctx.decomposition
  <1>1. DOMAIN ctx = DOMAIN NoContext
    BY DEF ControlInv
  <1>2. ~Raises
    <2>1. Raises => errors' = Append(errors, pc) /\ pc \in Passes
      BY DEF Raises
    <2>2. errors \in Seq(Passes)
      BY DEF ControlInv
    <2>3. pc \in Passes => Append(errors, pc) # errors
      BY <2>2
    <2> QED
      BY <2>1, <2>3
  <1>3. ASSUME pc = "pass3" PROVE Split'
    <2>1. Decompose
      BY <1>2, <1>3 DEF PassStep, ComputeRawVariances, Netting, Trends, ThresholdFilter, BuildGraph,
                        Correlate, Completes
    <2>2. ctx' = [ctx EXCEPT !.decomposition = DecomposeVariances(Facts[books], ctx.material)]
      BY <2>1 DEF Decompose, Completes
    <2>3. /\ ctx'.material = ctx.material
          /\ ctx'.decomposition = DecomposeVariances(Facts[books], ctx.material)
      BY <1>1, <2>2 DEF NoContext
    <2>4. DOMAIN DecomposeVariances(Facts[books], ctx.material)
              = {k \in DOMAIN ctx.material : Decomposable(k)}
      BY DEF DecomposeVariances
    <2> QED
      BY <2>3, <2>4 DEF Split
  <1>4. ASSUME pc = "graph"
        PROVE  /\ ctx'.graph # NoGraph
               /\ ctx'.material = ctx.material /\ ctx'.decomposition = ctx.decomposition
    <2>1. BuildGraph
      BY <1>2, <1>4 DEF PassStep, ComputeRawVariances, Netting, Trends, ThresholdFilter, Decompose,
                        Correlate, Completes
    <2> DEFINE g == BuildFromContext(ctx.accounts, ctx.material, ctx.all, ctx.correlations,
                                     ctx.netting, ctx.trends, ctx.decomposition)
    <2>2. ctx' = [ctx EXCEPT !.graph = g]
      BY <2>1 DEF BuildGraph, Completes
    <2>3. g # NoGraph
      BY GraphIsThere
    <2> HIDE DEF g
    <2> QED
      BY <1>1, <2>2, <2>3 DEF NoContext
  <1>5. ASSUME pc = "pass4"
        PROVE  /\ ctx'.graph = ctx.graph
               /\ ctx'.material = ctx.material /\ ctx'.decomposition = ctx.decomposition
    <2>1. Correlate
      BY <1>2, <1>5 DEF PassStep, ComputeRawVariances, Netting, Trends, ThresholdFilter, Decompose,
                        BuildGraph, Completes
    <2> QED
      BY <1>1, <2>1 DEF Correlate, Completes, NoContext
  <1> QED
    BY <1>3, <1>4, <1>5

\* A step keeps what the full pipeline has done.
LEMMA FullSteps ==
    ASSUME ControlInv, ControlInv', TablesInv, FullInv, [Next]_vars
    PROVE  FullInv'
  <1>0. DOMAIN <<>> = {}
    OBVIOUS
  <1>1. ASSUME NEW i \in Invocations, NEW read \in Reads, Invoke(i, read) PROVE FullInv'
    BY <1>1 DEF Invoke, FullInv
  <1>2. CASE StartPeriod
    <2>1. /\ pc = "next" /\ cli' = [cli EXCEPT !.queue = Tail(cli.queue)]
          /\ pc' = Head(PassOrder[cli.mode]) /\ cli.mode \in Modes
      BY <1>2 DEF StartPeriod, ControlInv
    <2>2. cli'.mode = cli.mode
      BY <2>1
    <2>3. cli.mode = "full" => pc' = "pass1" /\ ctx'.material = <<>>
      BY <1>2, <2>1, LastStep, FreshContext
    <2> QED
      BY <1>0, <2>2, <2>3 DEF FullInv
  <1>3. ASSUME PassStep, cli.mode = "full" PROVE FullInv'
    <2>1. /\ pc \in Passes /\ pc' = Following(pc) /\ cli'.mode = "full"
          /\ errors' = errors \/ errors' = Append(errors, pc)
          /\ pc # "pass2" => ctx'.material = ctx.material
          /\ \/ ctx'.material = ctx.material
             \/ DOMAIN ctx'.material # {} => \E j \in DOMAIN ctx'.material : j.view = "MTD"
      <3>1. /\ pc \in Passes /\ pc' = Following(pc) /\ UNCHANGED cli
            /\ errors' = errors \/ errors' = Append(errors, pc)
            /\ pc # "pass2" => ctx'.material = ctx.material
        BY <1>3, PassFacts
      <3>2. \/ ctx'.material = ctx.material
            \/ \A k \in DOMAIN ctx'.material : \E j \in DOMAIN ctx'.material : j.view = "MTD"
        BY <1>3, PassFacts
      <3> QED
        BY <1>3, <3>1, <3>2
    <2>2. errors' = <<>> => errors' = errors
      <3>1. errors \in Seq(Passes)
        BY DEF ControlInv
      <3>2. Append(errors, pc) # <<>>
        BY <2>1, <3>1
      <3> QED
        BY <2>1, <3>2
    <2>3. pc = "pass5" => errors' # <<>>
      <3>1. pc = "pass5" => Raises
        BY <1>3 DEF PassStep, ComputeRawVariances, Netting, Trends, ThresholdFilter, Decompose,
                    BuildGraph, Correlate, Completes
      <3>2. pc = "pass5" => errors' = Append(errors, pc)
        BY <3>1 DEF Raises
      <3>3. errors \in Seq(Passes)
        BY DEF ControlInv
      <3> QED
        BY <2>1, <3>2, <3>3
    <2>4. /\ pc' \notin {"idle", "next"}
          /\ pc' = "collect" => pc = "pass5"
          /\ pc' = "graph" => pc = "pass3"
          /\ pc' = "pass4" => pc = "graph"
          /\ pc' = "pass5" => pc = "pass4"
      <3>1. cli.mode = "full" /\ cli.mode \in {"full", "b"}
        BY <1>3
      <3> QED
        BY <2>1, <3>1, Successors DEF Passes
    <2>5. DOMAIN ctx'.material # {} => \E k \in DOMAIN ctx'.material : k.view = "MTD"
      BY <1>3, <2>1 DEF FullInv, Passes
    <2>6. ASSUME errors' = <<>>, pc' \in {"graph", "pass4", "pass5"}
          PROVE  Split' /\ (pc' # "graph" => ctx'.graph # NoGraph)
      <3>1. errors' = errors /\ errors = <<>>
        BY <2>2, <2>6
      <3>2. /\ pc = "pass3" => Split'
            /\ pc = "graph" => /\ ctx'.graph # NoGraph
                               /\ ctx'.material = ctx.material /\ ctx'.decomposition = ctx.decomposition
            /\ pc = "pass4" => /\ ctx'.graph = ctx.graph
                               /\ ctx'.material = ctx.material /\ ctx'.decomposition = ctx.decomposition
        BY <1>3, <3>1, PassDone
      <3>3. /\ pc \in {"graph", "pass4"} => Split
            /\ pc = "pass4" => ctx.graph # NoGraph
        BY <1>3, <3>1 DEF FullInv
      <3> QED
        BY <2>4, <2>6, <3>2, <3>3 DEF Split
    <2>7. pc' = "collect" => errors' # <<>>
      BY <2>3, <2>4
    <2> QED
      BY <2>5, <2>6, <2>7 DEF FullInv
  <1>4. ASSUME Narrate, cli.mode = "full" PROVE FullInv'
    <2>1. /\ pc = "pass5" /\ pc' = Following(pc) /\ UNCHANGED cli
          /\ errors' = errors \/ errors' = Append(errors, pc)
          /\ Kept(ctx, ctx')
          /\ errors' = errors => \E answered : Told(ctx, ctx', answered)
      BY <1>4, NarrateFacts
    <2>2. pc' = "collect" /\ cli'.mode = "full"
      <3>1. cli.mode \in {"full", "b"}
        BY <1>4
      <3> QED
        BY <1>4, <2>1, <3>1, Successors
    <2>3. ctx'.material = ctx.material /\ ctx'.graph = ctx.graph
          /\ ctx'.decomposition = ctx.decomposition /\ ctx'.existingReview = ctx.existingReview
      BY <2>1 DEF Kept
    <2>4. DOMAIN ctx.material # {} => \E k \in DOMAIN ctx.material : k.view = "MTD"
      BY <1>4, <2>1 DEF FullInv
    <2>5. Preserved(ctx') = Preserved(ctx)
      BY <2>3 DEF Preserved
    <2>6. \/ DOMAIN ctx'.texts = DOMAIN ctx'.material
          \/ DOMAIN ctx'.material \subseteq Preserved(ctx')
      BY <2>1, <2>3, <2>5 DEF Kept
    <2>7. ASSUME errors' = <<>>
          PROVE  /\ ctx'.graph # NoGraph /\ Split' /\ ctx'.narratives
                 /\ ctx'.texts # <<>> => ctx'.sections # {} /\ ctx'.summaries # {}
      <3>1. errors' = errors /\ errors = <<>>
        <4>1. errors \in Seq(Passes) /\ pc \in Passes
          BY <2>1 DEF ControlInv, Passes
        <4>2. Append(errors, pc) # <<>>
          BY <4>1, AppendProperties
        <4> QED
          BY <2>1, <2>7, <4>2
      <3>2. PICK answered : Told(ctx, ctx', answered)
        BY <2>1, <3>1
      <3>3. ctx.graph # NoGraph /\ Split
        BY <1>4, <2>1, <3>1 DEF FullInv
      <3>4. ASSUME ctx'.texts # <<>> PROVE ctx'.sections # {} /\ ctx'.summaries # {}
        <4>1. ctx.texts = <<>>
          BY <1>4, <2>1 DEF TablesInv, Passes
        <4>2. ~(DOMAIN ctx.material \subseteq Preserved(ctx))
          BY <2>1, <3>4, <4>1 DEF Kept
        <4>3. PICK k \in DOMAIN ctx.material : k.view = "MTD"
          BY <2>4, <4>2
        <4>4. ctx'.sections = SectionNarratives(ctx.material, ctx.period, answered)
              /\ ctx'.summaries = ExecutiveSummaries(ctx, answered)
          BY <3>2, <4>2 DEF Told
        <4> QED
          BY <4>3, <4>4, SectionsAreThere, SummariesAreThere
      <3>5. ctx'.narratives
        BY <3>2 DEF Told
      <3> QED
        BY <2>3, <3>3, <3>4, <3>5 DEF Split
    <2> QED
      BY <2>2, <2>3, <2>4, <2>6, <2>7 DEF FullInv
  <1>5. CASE SavesIntermediate
    <2>1. cli.mode = "a" /\ (pc' = "idle" \/ UNCHANGED cli)
      BY <1>5, IntermediateFacts DEF Ends
    <2> QED
      BY <2>1 DEF FullInv
  <1>6. CASE Collect
    BY <1>6 DEF Collect, FullInv
  <1>7. CASE SavesAll
    BY <1>7, SaveFacts DEF Ends, FullInv
  <1>8. CASE ExportReviews
    <2>1. pc' = "idle"
      BY <1>8 DEF ExportReviews
    <2> QED
      BY <2>1 DEF FullInv
  <1>9. CASE UNCHANGED vars
    BY <1>9 DEF vars, FullInv, Split, Preserved
  <1>10. ASSUME PassStep \/ Narrate, cli.mode # "full" PROVE FullInv'
    <2>1. UNCHANGED cli
      BY <1>10, PassFacts, NarrateFacts
    <2> QED
      BY <1>10, <2>1 DEF FullInv
  <1> QED
    BY <1>1, <1>2, <1>3, <1>4, <1>5, <1>6, <1>7, <1>8, <1>9, <1>10, Steps

\* A run of the full pipeline that reports no error has left nothing out: there is a graph,
\* each kept row has a text or all were reviewed before, the rows that can be split are, and
\* texts come with sections and summaries (runner.py:79-136, pass5_narrative.py:137-300).
THEOREM NothingGoesUnsaid == Spec => []NothingSilentlyMissing
  <1>1. Init => FullInv
    BY DEF Init, FullInv
  <1>2. ControlInv /\ TablesInv /\ FullInv /\ [Next]_vars => FullInv'
    BY ControlSteps, FullSteps
  <1>3. FullInv => NothingSilentlyMissing
    BY DEF FullInv, NothingSilentlyMissing, Split
  <1> QED
    BY <1>1, <1>2, <1>3, TablesKept, PTL DEF Spec

-----------------------------------------------------------------------------
(* Types *)

\* What a pass before the narratives does to the table of all variances.
LEMMA PassOfRows ==
    ASSUME ControlInv, PassStep
    PROVE  ctx'.all = ctx.all \/ ctx'.all = RawVariances(Facts[books])
  <1>1. DOMAIN ctx = DOMAIN NoContext
    BY DEF ControlInv
  <1> DEFINE raw == RawVariances(Facts[books])
  <1>2. CASE ComputeRawVariances
    <2>1. ctx' = [ctx EXCEPT !.all = raw, !.accounts = Accounts, !.formulas = TRUE]
      BY <1>2 DEF ComputeRawVariances, Completes
    <2> HIDE DEF raw
    <2> QED
      BY <1>1, <2>1 DEF NoContext, raw
  <1>3. CASE Netting \/ Trends \/ Decompose \/ BuildGraph \/ Correlate \/ Raises
    BY <1>1, <1>3 DEF Netting, Trends, Decompose, BuildGraph, Correlate, Raises, Completes, NoContext
  <1>4. CASE ThresholdFilter
    BY <1>1, <1>4 DEF ThresholdFilter, Completes, NoContext
  <1> QED
    BY <1>2, <1>3, <1>4 DEF PassStep

\* Every row there is about accounts, slices, periods, views and bases that there are.
RowsInv ==
    /\ DOMAIN disk.material \subseteq Keys /\ DOMAIN disk.review \subseteq Keys
    /\ pc # "idle" => DOMAIN cli.out.material \subseteq Keys
    /\ pc \notin {"idle", "next"} => DOMAIN ctx.material \subseteq Keys
    /\ pc \notin {"idle", "next", "collect"} => ctx.all \in {Null, RawVariances(Facts[books])}

\* The tables of pass 1: their rows are about what dim_account and the slices have, and
\* each month has an amount against the budget.
RowsAreKeyed ==
    \A b \in Profiles : LET rows == RawVariances(Facts[b])
                        IN  /\ DOMAIN rows \subseteq Keys
                            /\ \A k \in DOMAIN rows : k.view = "MTD" =>
                                  Key(k.account, k.slice, k.period, "MTD", "BUDGET") \in DOMAIN rows

MonthRowsOf(b) == ResolveCalculated(RollupAccounts(LeafRows(Facts[b])))

\* The rows of pass 1 are those of the months with the quarters and years.
LEMMA RawRows ==
    ASSUME NEW b \in Profiles
    PROVE  MonthTable(MonthRowsOf(b)) /\ RawVariances(Facts[b]) = QtdYtd(MonthRowsOf(b))
  <1>1. FactsOK(Facts[b])
    BY EngineAssumption DEF EngineAssumption
  <1> QED
    BY <1>1, MonthRows DEF MonthRowsOf, RawVariances

\* The rows of pass 1 have the keys of the dimensions.
LEMMA RowsKeyed == RowsAreKeyed
  <1> SUFFICES ASSUME NEW b \in Profiles, NEW rows, rows = RawVariances(Facts[b])
               PROVE  /\ DOMAIN rows \subseteq Keys
                      /\ \A k \in DOMAIN rows : k.view = "MTD" =>
                            Key(k.account, k.slice, k.period, "MTD", "BUDGET") \in DOMAIN rows
    BY DEF RowsAreKeyed
  <1> DEFINE months == MonthRowsOf(b)
  <1>1. MonthTable(months) /\ rows = QtdYtd(months)
    BY RawRows
  <1> HIDE DEF months
  <1>2. /\ \A k \in DOMAIN rows : k \in AllKeys
        /\ DOMAIN months = {k \in DOMAIN rows : k.view = "MTD"}
    BY <1>1, AllRows
  <1>3. ASSUME NEW k \in DOMAIN rows, k.view = "MTD"
        PROVE  Key(k.account, k.slice, k.period, "MTD", "BUDGET") \in DOMAIN rows
    <2>1. k \in DOMAIN months /\ k \in AllKeys
      BY <1>2, <1>3
    <2>2. [k EXCEPT !.base = "BUDGET"] \in DOMAIN months
      BY <1>1, <2>1 DEF MonthTable
    <2>3. [k EXCEPT !.base = "BUDGET"] = Key(k.account, k.slice, k.period, "MTD", "BUDGET")
      BY <1>3, <2>1 DEF AllKeys, Key
    <2> QED
      BY <1>2, <2>2, <2>3
  <1> QED
    BY <1>2, <1>3 DEF Keys, AllKeys

\* Every step keeps the invariant of the rows.
LEMMA RowsSteps ==
    ASSUME RowsAreKeyed, ControlInv, ControlInv', TablesInv, RowsInv, [Next]_vars
    PROVE  RowsInv'
  <1>0. DOMAIN <<>> = {}
    OBVIOUS
  <1>1. ASSUME NEW i \in Invocations, NEW read \in Reads, Invoke(i, read) PROVE RowsInv'
    BY <1>0, <1>1 DEF Invoke, RowsInv, NoTables
  <1>2. CASE StartPeriod
    <2>1. /\ pc = "next" /\ cli' = [cli EXCEPT !.queue = Tail(cli.queue)] /\ UNCHANGED <<disk, books>>
      BY <1>2 DEF StartPeriod
    <2>2. cli'.out = cli.out
      BY <2>1
    <2>3. ctx'.all = Null /\ DOMAIN ctx'.material \subseteq DOMAIN disk.material
      BY <1>0, <1>2, FreshContext, RowsOfPeriods
    <2> QED
      BY <2>1, <2>2, <2>3 DEF RowsInv
  <1>3. CASE PassStep
    <2>1. /\ pc \in Passes /\ UNCHANGED <<books, disk, cli>>
          /\ \/ ctx'.material = ctx.material
             \/ ctx.all # Null /\ DOMAIN ctx'.material \subseteq DOMAIN ctx.all
             \/ DOMAIN ctx'.material = {}
      BY <1>3, PassFacts
    <2>2. pc \notin {"idle", "next", "collect"} /\ books \in Profiles
      BY <2>1 DEF Passes, ControlInv
    <2>3. DOMAIN RawVariances(Facts[books]) \subseteq Keys
      BY <2>2 DEF RowsAreKeyed
    <2>4. ctx'.all = ctx.all \/ ctx'.all = RawVariances(Facts[books])
      BY <1>3, PassOfRows
    <2>5. DOMAIN ctx'.material \subseteq Keys
      BY <2>1, <2>2, <2>3 DEF RowsInv
    <2> QED
      BY <2>1, <2>2, <2>4, <2>5 DEF RowsInv
  <1>4. CASE Narrate
    <2>1. pc = "pass5" /\ pc' = Following("pass5") /\ UNCHANGED <<books, disk, cli>> /\ Kept(ctx, ctx')
      BY <1>4, NarrateFacts
    <2>2. cli.mode \in {"full", "b"}
      BY <2>1, StepsOfMode DEF ControlInv, Modes
    <2>3. pc' = "collect"
      BY <2>1, <2>2, Successors
    <2> QED
      BY <2>1, <2>3 DEF Kept, RowsInv
  <1>5. CASE SavesIntermediate
    <2>1. /\ pc = "intermediate" /\ UNCHANGED books
          /\ Ends \/ UNCHANGED <<cli, ctx>>
          /\ disk'.material \in {disk.material, ctx.material, <<>>}
          /\ disk'.review = disk.review
      BY <1>5, IntermediateFacts, IntermediateTables
    <2>2. DOMAIN disk'.material \subseteq Keys
      BY <1>0, <2>1 DEF RowsInv
    <2> QED
      BY <2>1, <2>2 DEF RowsInv, Ends
  <1>6. CASE Collect
    <2>1. /\ pc = "collect" /\ pc' = "next" /\ UNCHANGED disk
          /\ cli'.out.material = Over(ctx.material, cli.out.material)
      BY <1>6 DEF Collect, ControlInv, NoInvocation
    <2> QED
      BY <2>1 DEF RowsInv, Over
  <1>7. CASE SavesAll
    <2>1. /\ pc = "next" /\ pc' = "idle"
          /\ disk'.material \in {disk.material, Written.material, <<>>}
          /\ disk'.review \in {disk.review, Written.review, <<>>}
      BY <1>7, SaveFacts, SavedTables DEF Ends
    <2>2. /\ Written.material \in {cli.out.material, Merged(cli.out.material, disk.material)}
          /\ Written.review \in {cli.out.review, Merged(cli.out.review, disk.review)}
      BY WrittenTables
    <2>3. DOMAIN cli.out.material \subseteq Keys /\ DOMAIN cli.out.review \subseteq Keys
      BY <2>1 DEF RowsInv, TablesInv
    <2>4. /\ DOMAIN Merged(cli.out.material, disk.material) \subseteq Keys
          /\ DOMAIN Merged(cli.out.review, disk.review) \subseteq Keys
      BY <2>3, MergedTexts DEF RowsInv
    <2> HIDE DEF Written
    <2> QED
      BY <1>0, <2>1, <2>2, <2>3, <2>4 DEF RowsInv
  <1>8. CASE ExportReviews
    <2>1. pc' = "idle" /\ disk'.material = disk.material
      BY <1>8 DEF ExportReviews
    <2>2. DOMAIN disk'.review \subseteq DOMAIN disk.review
      BY <1>8 DEF ExportReviews, Over, ControlInv, NoTables
    <2> QED
      BY <2>1, <2>2 DEF RowsInv
  <1>9. CASE UNCHANGED vars
    BY <1>9 DEF vars, RowsInv
  <1> QED
    BY <1>1, <1>2, <1>3, <1>4, <1>5, <1>6, <1>7, <1>8, <1>9, Steps

\* Types: every saved row has a key of the tables, texts stand beside their rows, and the
\* errors of a period name passes that it has been through (runner.py:79-136).
THEOREM TypeCorrect == Spec => []TypeOK
  <1>0. RowsAreKeyed
    BY RowsKeyed
  <1>1. Init => RowsInv
    BY DEF Init, RowsInv, NoTables
  <1>2. ControlInv /\ TablesInv /\ RowsInv /\ [Next]_vars => RowsInv'
    BY <1>0, ControlSteps, RowsSteps
  <1>3. ControlInv /\ TablesInv /\ RowsInv => TypeOK
    BY DEF ControlInv, TablesInv, BrokenShowNothing, RowsInv, TypeOK, Controls, At
  <1> QED
    BY <1>1, <1>2, <1>3, TablesKept, PTL DEF Spec

-----------------------------------------------------------------------------
(* Nothing material is hidden *)

\* What the passes up to the filter have found, when none of them failed.
DetectedInv ==
    pc \in {"pass15", "pass25", "pass2", "pass3"} /\ errors = <<>> =>
        /\ ctx.all = RawVariances(Facts[books])
        /\ pc \in {"pass2", "pass25", "pass3"} => ctx.netting = DetectNetting(ctx.all, ctx.period)
        /\ pc = "pass2" => ctx.trends = DetectTrends(ctx.all)
        /\ pc = "pass3" => DOMAIN ctx.material = DOMAIN ApplyThresholdFilter(ctx.all, ctx.netting,
                                                                            ctx.trends, ctx.period)

\* What a detecting pass that ends well has found.
LEMMA PassDetects ==
    ASSUME ControlInv, PassStep, errors' = errors, pc \in {"pass1", "pass15", "pass25", "pass2"}
    PROVE  /\ books' = books /\ ctx'.period = ctx.period
           /\ pc = "pass1" => ctx'.all = RawVariances(Facts[books])
           /\ pc # "pass1" => ctx'.all = ctx.all
           /\ pc = "pass15" => ctx'.netting = DetectNetting(ctx.all, ctx.period)
           /\ pc \in {"pass25", "pass2"} => ctx'.netting = ctx.netting
           /\ pc = "pass25" => ctx'.trends = DetectTrends(ctx.all)
           /\ pc = "pass2" => DOMAIN ctx'.material = DOMAIN ApplyThresholdFilter(ctx'.all, ctx'.netting,
                                                                              ctx'.trends, ctx'.period)
  <1>1. DOMAIN ctx = DOMAIN NoContext /\ errors \in Seq(Passes)
    BY DEF ControlInv
  <1>2. ~Raises
    <2>1. pc \in Passes
      BY DEF Passes
    <2>2. Append(errors, pc) # errors
      BY <1>1, <2>1, AppendProperties
    <2> QED
      BY <2>2 DEF Raises
  <1>3. ASSUME pc = "pass1" PROVE ctx'.all = RawVariances(Facts[books]) /\ books' = books
                                  /\ ctx'.period = ctx.period
    <2> DEFINE raw == RawVariances(Facts[books])
    <2>1. ComputeRawVariances
      BY <1>2, <1>3 DEF PassStep, Netting, Trends, ThresholdFilter, Decompose, BuildGraph, Correlate,
                        Completes
    <2>2. ctx' = [ctx EXCEPT !.all = raw, !.accounts = Accounts, !.formulas = TRUE] /\ books' = books
      BY <2>1 DEF ComputeRawVariances, Completes
    <2> HIDE DEF raw
    <2>3. ctx'.all = raw /\ ctx'.period = ctx.period
      BY <1>1, <2>2 DEF NoContext
    <2> QED
      BY <2>2, <2>3 DEF raw
  <1>4. ASSUME pc = "pass15" PROVE ctx'.netting = DetectNetting(ctx.all, ctx.period) /\ books' = books
                                   /\ ctx'.period = ctx.period /\ ctx'.all = ctx.all
    <2> DEFINE found == DetectNetting(ctx.all, ctx.period)
    <2>1. Netting
      BY <1>2, <1>4 DEF PassStep, ComputeRawVariances, Trends, ThresholdFilter, Decompose, BuildGraph,
                        Correlate, Completes
    <2>2. ctx' = [ctx EXCEPT !.netting = found] /\ books' = books
      BY <2>1 DEF Netting, Completes
    <2> HIDE DEF found
    <2>3. ctx'.netting = found /\ ctx'.period = ctx.period /\ ctx'.all = ctx.all
      BY <1>1, <2>2 DEF NoContext
    <2> QED
      BY <2>2, <2>3 DEF found
  <1>5. ASSUME pc = "pass25" PROVE ctx'.netting = ctx.netting /\ books' = books
                                   /\ ctx'.period = ctx.period /\ ctx'.all = ctx.all
                                   /\ ctx'.trends = DetectTrends(ctx.all)
    <2> DEFINE found == DetectTrends(ctx.all)
    <2>1. Trends
      BY <1>2, <1>5 DEF PassStep, ComputeRawVariances, Netting, ThresholdFilter, Decompose, BuildGraph,
                        Correlate, Completes
    <2>2. ctx' = [ctx EXCEPT !.trends = found] /\ books' = books
      BY <2>1 DEF Trends, Completes
    <2> HIDE DEF found
    <2>3. /\ ctx'.netting = ctx.netting /\ ctx'.period = ctx.period /\ ctx'.all = ctx.all
          /\ ctx'.trends = found
      BY <1>1, <2>2 DEF NoContext
    <2> QED
      BY <2>2, <2>3 DEF found
  <1>6. ASSUME pc = "pass2"
        PROVE  /\ books' = books /\ ctx'.period = ctx.period /\ ctx'.all = ctx.all
               /\ ctx'.netting = ctx.netting /\ ctx'.trends = ctx.trends
               /\ DOMAIN ctx'.material
                      = DOMAIN ApplyThresholdFilter(ctx.all, ctx.netting, ctx.trends, ctx.period)
    <2> DEFINE flags == ApplyThresholdFilter(ctx.all, ctx.netting, ctx.trends, ctx.period)
               material == [k \in DOMAIN flags |-> ctx.all[k]]
    <2>1. ThresholdFilter
      BY <1>2, <1>6 DEF PassStep, ComputeRawVariances, Netting, Trends, Decompose, BuildGraph, Correlate,
                        Completes
    <2>2. ctx' = [ctx EXCEPT !.flags = flags, !.material = material] /\ books' = books
      BY <2>1 DEF ThresholdFilter, Completes
    <2>3. DOMAIN material = DOMAIN flags
      OBVIOUS
    <2> HIDE DEF flags, material
    <2>4. /\ ctx'.period = ctx.period /\ ctx'.all = ctx.all /\ ctx'.material = material
          /\ ctx'.netting = ctx.netting /\ ctx'.trends = ctx.trends
      BY <1>1, <2>2 DEF NoContext
    <2> QED
      BY <2>2, <2>3, <2>4 DEF flags
  <1> QED
    BY <1>3, <1>4, <1>5, <1>6

\* Every step keeps the invariant of what is detected.
LEMMA DetectedSteps ==
    ASSUME ControlInv, ControlInv', DetectedInv, [Next]_vars
    PROVE  DetectedInv'
  <1>1. ASSUME PassStep, cli.mode \in {"full", "a"} PROVE DetectedInv'
    <2>1. /\ pc \in Passes /\ pc' = Following(pc) /\ errors \in Seq(Passes)
          /\ errors' = errors \/ errors' = Append(errors, pc)
      BY <1>1, PassFacts DEF ControlInv
    <2>2. errors' = <<>> => errors' = errors
      <3>1. Append(errors, pc) # <<>>
        BY <2>1, AppendProperties
      <3> QED
        BY <2>1, <3>1
    <2>3. /\ pc' = "pass15" => pc = "pass1"
          /\ pc' = "pass25" => pc = "pass15"
          /\ pc' = "pass2" => pc = "pass25"
          /\ pc' = "pass3" => pc = "pass2"
      <3>1. pc \in {"pass1", "pass15", "pass25", "pass2", "pass3", "graph", "pass4", "pass5"}
        BY <2>1 DEF Passes
      <3>2. pc \in {"pass4", "pass5"} => cli.mode = "full"
        <4>1. InOrder(pc)
          BY <3>1 DEF ControlInv
        <4> QED
          BY <1>1, <4>1, StepsOfMode
      <3>3. /\ cli.mode = "full" => cli.mode \in {"full", "b"}
            /\ cli.mode = "full" \/ cli.mode = "a"
        BY <1>1
      <3> QED
        BY <1>1, <2>1, <3>1, <3>2, <3>3, Successors
    <2> SUFFICES ASSUME pc' \in {"pass15", "pass25", "pass2", "pass3"}, errors' = <<>>
                 PROVE  DetectedInv'
      BY DEF DetectedInv
    <2>4. errors' = errors /\ errors = <<>> /\ pc \in {"pass1", "pass15", "pass25", "pass2"}
      BY <2>2, <2>3
    <2>5. /\ books' = books /\ ctx'.period = ctx.period
          /\ pc = "pass1" => ctx'.all = RawVariances(Facts[books])
          /\ pc # "pass1" => ctx'.all = ctx.all
          /\ pc = "pass15" => ctx'.netting = DetectNetting(ctx.all, ctx.period)
          /\ pc \in {"pass25", "pass2"} => ctx'.netting = ctx.netting
          /\ pc = "pass25" => ctx'.trends = DetectTrends(ctx.all)
          /\ pc = "pass2" => DOMAIN ctx'.material = DOMAIN ApplyThresholdFilter(ctx'.all, ctx'.netting,
                                                                              ctx'.trends, ctx'.period)
      BY <1>1, <2>4, PassDetects
    <2>6. pc \in {"pass15", "pass25", "pass2"} =>
              /\ ctx.all = RawVariances(Facts[books])
              /\ pc # "pass15" => ctx.netting = DetectNetting(ctx.all, ctx.period)
      BY <2>4 DEF DetectedInv
    <2> QED
      BY <2>3, <2>4, <2>5, <2>6 DEF DetectedInv
  <1>2. ASSUME PassStep, cli.mode \notin {"full", "a"} PROVE DetectedInv'
    <2>1. cli'.mode = cli.mode
      BY <1>2, PassFacts
    <2>2. pc' \in {"pass15", "pass25", "pass2", "pass3"} => InOrder(pc)' /\ cli'.mode = "b"
      BY <1>2, <2>1 DEF ControlInv, Modes
    <2>3. cli'.mode = "b" => \A p : InOrder(p)' => p \in {"graph", "pass4", "pass5", "collect"}
      BY DEF InOrder, PassOrder
    <2> QED
      BY <2>2, <2>3 DEF DetectedInv, InOrder
  <1>3. CASE StartPeriod
    <2>1. pc' \in {"pass1", "graph"}
      BY <1>3, LastStep DEF StartPeriod, ControlInv
    <2> QED
      BY <2>1 DEF DetectedInv
  <1>4. CASE Narrate
    <2>1. pc = "pass5" /\ pc' = Following(pc)
      BY <1>4, NarrateFacts
    <2>2. cli.mode \in {"full", "b"}
      BY <2>1, StepsOfMode DEF ControlInv, Modes
    <2>3. pc' = "collect"
      BY <2>1, <2>2, Successors
    <2> QED
      BY <2>3 DEF DetectedInv
  <1>5. CASE SavesIntermediate
    <2>1. cli.mode = "a" /\ pc = "intermediate" /\ (pc' = "idle" \/ pc' = Following(pc))
      BY <1>5, IntermediateFacts DEF Ends
    <2>2. pc' \in {"idle", "collect"}
      BY <2>1, Successors
    <2> QED
      BY <2>2 DEF DetectedInv
  <1>6. CASE \/ Collect \/ ExportReviews \/ SavesAll
             \/ \E i \in Invocations, read \in Reads : Invoke(i, read)
    <2>1. pc' \in {"next", "idle"}
      BY <1>6, SaveFacts DEF Collect, ExportReviews, Invoke, Ends
    <2> QED
      BY <2>1 DEF DetectedInv
  <1>7. CASE UNCHANGED vars
    BY <1>7 DEF vars, DetectedInv
  <1> QED
    BY <1>1, <1>2, <1>3, <1>4, <1>5, <1>6, <1>7, Steps

\* Offsetting variances under a small total are flagged, with the accounts they are of.
LEMMA OffsetIsFlagged ==
    ASSUME NEW amounts, IsFiniteSet(DOMAIN amounts), NEW a \in DOMAIN amounts,
           LooksLikeParent(amounts, a), ~IsMaterial(amounts[a], Category[a]),
           amounts[a].variance # 0, Gross(amounts, a) > NettingRatio * Abs(amounts[a].variance)
    PROVE  /\ ~(Cardinality(DOMAIN amounts) < 2)
           /\ \E f \in AccountChecks(amounts) : /\ f.check = "gross_offset" /\ f.parent = a
                                               /\ f.children = DOMAIN amounts \ {a}
  <1> DEFINE flagged == [check |-> "gross_offset", parent |-> a, children |-> DOMAIN amounts \ {a}]
  <1>1. Cardinality(DOMAIN amounts \ {a}) >= 2
    BY DEF LooksLikeParent
  <1>2. Cardinality(DOMAIN amounts \ {a}) = Cardinality(DOMAIN amounts) - 1
        /\ Cardinality(DOMAIN amounts) \in Nat
    BY FS_RemoveElement, FS_CardinalityType
  <1>3. Offsets(Gross(amounts, a), amounts[a].variance)
    BY DEF Offsets
  <1>4. flagged \in AccountChecks(amounts)
    BY <1>3 DEF AccountChecks
  <1> QED
    BY <1>1, <1>2, <1>4

\* What is found in a slice.
FoundIn(rows, slice, period) ==
    LET amounts == SliceAmounts(rows, slice, period)
        found == (IF Cardinality(DOMAIN amounts) < 2 THEN {}
                  ELSE AccountChecks(amounts)) \cup CrossAccount(amounts)
    IN  {[check |-> f.check, parent |-> f.parent, children |-> f.children,
          slice |-> slice, period |-> period] : f \in found}

\* The accounts of a slice with such an offset are those that the filter keeps.
LEMMA OffsetIsKept ==
    ASSUME NEW rows, NEW period, NEW slice \in Slices,
           NEW amounts, amounts = SliceAmounts(rows, slice, period),
           IsFiniteSet(DOMAIN amounts), NEW a \in DOMAIN amounts,
           LooksLikeParent(amounts, a), ~IsMaterial(amounts[a], Category[a]),
           amounts[a].variance # 0, Gross(amounts, a) > NettingRatio * Abs(amounts[a].variance)
    PROVE  DOMAIN amounts \subseteq NettedAccounts(DetectNetting(rows, period), period)
  <1>1. ~(Cardinality(DOMAIN amounts) < 2)
    BY OffsetIsFlagged
  <1>2. PICK f \in AccountChecks(amounts) : /\ f.check = "gross_offset" /\ f.parent = a
                                             /\ f.children = DOMAIN amounts \ {a}
    BY OffsetIsFlagged
  <1> DEFINE g == [check |-> f.check, parent |-> f.parent, children |-> f.children,
                   slice |-> slice, period |-> period]
  <1>3. g \in FoundIn(rows, slice, period)
    BY <1>1 DEF FoundIn
  <1>4. DetectNetting(rows, period) = UNION {FoundIn(rows, s, period) : s \in Slices}
    BY DEF DetectNetting, FoundIn
  <1>5. g \in DetectNetting(rows, period)
    BY <1>3, <1>4
  <1>6. g.period = period /\ g.check = "gross_offset" /\ g.parent = a
        /\ g.children = DOMAIN amounts \ {a}
    BY <1>2
  <1> HIDE DEF g
  <1>7. {a} \cup (DOMAIN amounts \ {a}) \subseteq NettedAccounts(DetectNetting(rows, period), period)
    BY <1>5, <1>6 DEF NettedAccounts
  <1> QED
    BY <1>7

\* A month row that is material, or of a netted account, is kept.
LEMMA FilterKeeps ==
    ASSUME NEW rows, NEW netting, NEW trends, NEW period,
           NEW k \in DOMAIN rows, k.period = period, k.view = "MTD",
           \/ IsMaterial(rows[k], Category[k.account])
           \/ k.account \in NettedAccounts(netting, period)
    PROVE  k \in DOMAIN ApplyThresholdFilter(rows, netting, trends, period)
  <1> DEFINE netted == NettedAccounts(netting, period)
             trending == TrendingKeys(trends)
             flags == [j \in {i \in DOMAIN rows : i.period = period /\ i.view = "MTD"} |->
                          Flags(rows, j, netted, trending)]
             kept == {j \in DOMAIN flags : \E f \in DOMAIN flags[j] : flags[j][f]}
             others == {j \in DOMAIN rows : /\ j.period = period
                                            /\ j.view \in {"QTD", "YTD"}
                                            /\ \E i \in kept : DimKey(i) = DimKey(j)}
  <1>1. DOMAIN ApplyThresholdFilter(rows, netting, trends, period) = kept \cup others
    BY DEF ApplyThresholdFilter
  <1>2. k \in DOMAIN flags /\ flags[k] = Flags(rows, k, netted, trending)
    OBVIOUS
  <1>3. /\ {"material", "netted"} \subseteq DOMAIN flags[k]
        /\ flags[k].material = IsMaterial(rows[k], Category[k.account])
        /\ flags[k].netted = (k.account \in netted)
    BY <1>2 DEF Flags
  <1> HIDE DEF flags, netted
  <1>4. \E f \in DOMAIN flags[k] : flags[k][f]
    BY <1>3 DEF netted
  <1>5. k \in kept
    BY <1>2, <1>4
  <1> QED
    BY <1>1, <1>5

\* There are finitely many accounts, so each slice has finitely many.
LEMMA FiniteSlices ==
    ASSUME NEW rows, NEW slice, NEW period, DOMAIN rows \subseteq Keys
    PROVE  IsFiniteSet(DOMAIN SliceAmounts(rows, slice, period))
  <1>1. IsFiniteSet(Accounts)
    <2>1. AccountOrder \in Seq(Accounts) /\ Accounts = {AccountOrder[i] : i \in DOMAIN AccountOrder}
      BY AccountsOK DEF Accounts, ToSet
    <2>2. DOMAIN AccountOrder = 1..Len(AccountOrder) /\ Len(AccountOrder) \in Nat
      BY <2>1
    <2>3. IsFiniteSet(1..Len(AccountOrder))
      BY <2>2, FS_Interval
    <2>4. AccountOrder \in Surjection(1..Len(AccountOrder), Accounts)
      BY <2>1, <2>2 DEF Surjection
    <2> QED
      BY <2>3, <2>4, FS_Surjection
  <1>2. DOMAIN SliceAmounts(rows, slice, period) \subseteq Accounts
    BY DEF SliceAmounts, Keys
  <1> QED
    BY <1>1, <1>2, FS_Subset

\* What a reader must see is kept: a month row over one of its thresholds, and the rows of
\* a slice whose variances offset each other under a small total, when the passes before
\* have not failed (pass2_threshold.py:50-206, netting.py).
THEOREM MaterialIsKept == Spec => []NothingMaterialIsHidden
  <1>0. RowsAreKeyed
    BY RowsKeyed
  <1>1. Init => DetectedInv
    BY DEF Init, DetectedInv
  <1>2. ControlInv /\ DetectedInv /\ [Next]_vars => DetectedInv'
    BY ControlSteps, DetectedSteps
  <1>3. ASSUME ControlInv, DetectedInv PROVE NothingMaterialIsHidden
    <2> SUFFICES ASSUME pc = "pass3", errors = <<>>,
                        NEW k \in DOMAIN ctx.all, k.view = "MTD", k.period = ctx.period,
                        NEW t, t = GetThresholds(Category[k.account], Null, Null, FALSE),
                        NEW amounts, amounts = SliceAmounts(ctx.all, k.slice, k.period),
                        \/ Abs(ctx.all[k].variance) >= t.abs
                        \/ PctBreach(ctx.all[k], t.pct)
                        \/ \E a \in DOMAIN amounts :
                              /\ LooksLikeParent(amounts, a)
                              /\ ~IsMaterial(amounts[a], Category[a])
                              /\ amounts[a].variance # 0
                              /\ Gross(amounts, a) > NettingRatio * Abs(amounts[a].variance)
                 PROVE  k \in DOMAIN ctx.material
      BY DEF NothingMaterialIsHidden
    <2>1. /\ ctx.all = RawVariances(Facts[books])
          /\ ctx.netting = DetectNetting(ctx.all, ctx.period)
          /\ DOMAIN ctx.material
                 = DOMAIN ApplyThresholdFilter(ctx.all, ctx.netting, ctx.trends, ctx.period)
      BY <1>3 DEF DetectedInv
    <2>2. /\ DOMAIN ctx.all \subseteq Keys
          /\ Key(k.account, k.slice, k.period, "MTD", "BUDGET") \in DOMAIN ctx.all
      BY <1>0, <1>3, <2>1 DEF RowsAreKeyed, ControlInv
    <2>3. \/ IsMaterial(ctx.all[k], Category[k.account])
          \/ k.account \in NettedAccounts(ctx.netting, ctx.period)
      <3>1. CASE Abs(ctx.all[k].variance) >= t.abs \/ PctBreach(ctx.all[k], t.pct)
        BY <3>1 DEF IsMaterial
      <3>2. ASSUME NEW a \in DOMAIN amounts, LooksLikeParent(amounts, a),
                   ~IsMaterial(amounts[a], Category[a]), amounts[a].variance # 0,
                   Gross(amounts, a) > NettingRatio * Abs(amounts[a].variance)
            PROVE  k.account \in NettedAccounts(ctx.netting, ctx.period)
        <4>1. k.slice \in Slices
          BY <2>2 DEF Keys
        <4>2. IsFiniteSet(DOMAIN amounts)
          BY <2>2, FiniteSlices
        <4>3. k.account \in DOMAIN amounts
          BY <2>2 DEF SliceAmounts, Key
        <4>4. DOMAIN amounts \subseteq NettedAccounts(DetectNetting(ctx.all, k.period), k.period)
          BY <3>2, <4>1, <4>2, OffsetIsKept
        <4> QED
          BY <2>1, <4>3, <4>4
      <3> QED
        BY <3>1, <3>2
    <2>4. k \in DOMAIN ApplyThresholdFilter(ctx.all, ctx.netting, ctx.trends, ctx.period)
      BY <2>3, FilterKeeps
    <2> QED
      BY <2>1, <2>4
  <1> QED
    BY <1>1, <1>2, <1>3, TablesKept, PTL DEF Spec

-----------------------------------------------------------------------------
(* Quarters and years *)

\* A year row is the sum of the quarter rows of its year, for any facts and accounts
\* (pass1_variance.py:357-415): the months of the data fall into the quarters that have
\* rows, each into one, and none of the quarters ends after the last month of the year.
THEOREM YearsAreSums == Spec => []YearIsSumOfQuarters
  <1>0. RowsAreKeyed
    BY RowsKeyed
  <1>1. Init => RowsInv
    BY DEF Init, RowsInv, NoTables
  <1>2. ControlInv /\ TablesInv /\ RowsInv /\ [Next]_vars => RowsInv'
    BY <1>0, ControlSteps, RowsSteps
  <1>3. ASSUME ControlInv, RowsInv PROVE YearIsSumOfQuarters
    <2> SUFFICES ASSUME pc = "pass15", ctx.all # Null, NEW k \in DOMAIN ctx.all, k.view = "YTD"
                 PROVE  ctx.all[k] = Total(ctx.all, {j \in DOMAIN ctx.all :
                             /\ j.view = "QTD" /\ SameYear(j.period, k.period)
                             /\ j.period <= k.period
                             /\ DimKey(j) = DimKey(k) /\ j.base = k.base})
      BY DEF YearIsSumOfQuarters
    <2>1. ctx.all = RawVariances(Facts[books]) /\ books \in Profiles
      BY <1>3 DEF RowsInv, ControlInv
    <2>2. MonthTable(MonthRowsOf(books)) /\ ctx.all = QtdYtd(MonthRowsOf(books))
      BY <2>1, RawRows
    <2>3. ctx.all[k] = Total(ctx.all, QuartersOf(ctx.all, k))
      BY <2>2, YearsAddUp
    <2>4. QuartersOf(ctx.all, k) = {j \in DOMAIN ctx.all :
                             /\ j.view = "QTD" /\ SameYear(j.period, k.period)
                             /\ j.period <= k.period
                             /\ DimKey(j) = DimKey(k) /\ j.base = k.base}
      BY DEF QuartersOf, DimKey
    <2> QED
      BY <2>3, <2>4
  <1> QED
    BY <1>1, <1>2, <1>3, TablesKept, PTL DEF Spec

\* Each row of a calculated account whose formula is a difference is what its operands
\* make in the same slice, period, view and base (pass1_variance.py:191-379), when the
\* formulas lead nowhere back: accounts resolved later do not change its operands, and
\* sums over months may be exchanged with sums and differences over accounts.
THEOREM FormulasFollowed == Spec => []CalculatedFollowFormula
  <1>0. RowsAreKeyed
    BY RowsKeyed
  <1>1. Init => RowsInv
    BY DEF Init, RowsInv, NoTables
  <1>2. ControlInv /\ TablesInv /\ RowsInv /\ [Next]_vars => RowsInv'
    BY <1>0, ControlSteps, RowsSteps
  <1>3. ASSUME ControlInv, RowsInv PROVE CalculatedFollowFormula
    <2> SUFFICES ASSUME pc = "pass15", ctx.all # Null,
                        NEW k \in DOMAIN ctx.all, k.account \in DOMAIN Formula,
                        Formula[k.account].op = "minus", NEW c \in DOMAIN Zero
                 PROVE  ctx.all[k][c]
                          = Total(ctx.all, Beside(ctx.all, Formula[k.account].plus, k))[c]
                            - Total(ctx.all, Beside(ctx.all, Formula[k.account].minus, k))[c]
      BY DEF CalculatedFollowFormula, Beside
    <2>1. ctx.all = RawVariances(Facts[books]) /\ books \in Profiles
      BY <1>3 DEF RowsInv, ControlInv
    <2> DEFINE rows == MonthRowsOf(books)
    <2>2. MonthTable(rows) /\ ctx.all = QtdYtd(rows)
      BY <2>1, RawRows
    <2>3. FactsOK(Facts[books])
      BY <2>1, EngineAssumption DEF EngineAssumption
    <2>4. \A i \in DOMAIN rows : i.account \in Differences => Follows(rows, i.account)
      <3>1. rows = ResolveCalculated(RollupAccounts(LeafRows(Facts[books])))
        BY DEF MonthRowsOf
      <3> QED
        BY <2>3, <3>1, MonthsFollow
    <2>5. k.account \in Differences
      BY DEF Differences
    <2> HIDE DEF rows
    <2> QED
      BY <2>2, <2>4, <2>5, DifferencesFollow
  <1> QED
    BY <1>1, <1>2, <1>3, TablesKept, PTL DEF Spec

-----------------------------------------------------------------------------
(* Drivers *)

\* Rows that are those of pass 1 for the books b, and drivers that were made from them.
Genuine(b, rows) ==
    \A k \in DOMAIN rows : k \in DOMAIN RawVariances(Facts[b])
                           /\ rows[k] = RawVariances(Facts[b])[k]

Splits(b, table) ==
    \A k \in DOMAIN table :
        /\ Decomposable(k)
        /\ table[k] = DecomposeRow(Facts[b], k, RawVariances(Facts[b])[k].variance)

\* Wherever a row or a split is, it is the one pass 1 and pass 3 make of the books.
SplitInv ==
    /\ Genuine(books, disk.material) /\ Genuine(books, cli.out.material)
    /\ Genuine(books, ctx.material)
    /\ Splits(books, disk.decomposition) /\ Splits(books, cli.out.decomposition)
    /\ Splits(books, ctx.decomposition)

\* What a pass makes of rows and drivers.
LEMMA PassSplits ==
    ASSUME ControlInv, PassStep
    PROVE  /\ \/ ctx'.material = ctx.material
              \/ /\ ctx.all # Null
                 /\ \A k \in DOMAIN ctx'.material : k \in DOMAIN ctx.all
                                                    /\ ctx'.material[k] = ctx.all[k]
           /\ \/ ctx'.decomposition = ctx.decomposition
              \/ ctx'.decomposition = DecomposeVariances(Facts[books], ctx.material)
  <1>1. DOMAIN ctx = DOMAIN NoContext
    BY DEF ControlInv
  <1>2. CASE ComputeRawVariances
    BY <1>1, <1>2 DEF ComputeRawVariances, Completes, NoContext
  <1>3. CASE Netting \/ Trends \/ BuildGraph \/ Correlate \/ Raises
    BY <1>1, <1>3 DEF Netting, Trends, BuildGraph, Correlate, Raises, Completes, NoContext
  <1>4. CASE ThresholdFilter
    <2> DEFINE flags == ApplyThresholdFilter(ctx.all, ctx.netting, ctx.trends, ctx.period)
               material == [k \in DOMAIN flags |-> ctx.all[k]]
    <2>1. ctx.all # Null /\ ctx' = [ctx EXCEPT !.flags = flags, !.material = material]
      BY <1>4 DEF ThresholdFilter, Completes
    <2>2. ctx'.material = material /\ ctx'.decomposition = ctx.decomposition
      <3> HIDE DEF flags, material
      <3> QED
        BY <1>1, <2>1 DEF NoContext
    <2>3. \A k \in DOMAIN flags : k \in DOMAIN ctx.all
      BY KeptRows
    <2> QED
      BY <2>1, <2>2, <2>3
  <1>5. CASE Decompose
    <2> DEFINE split == DecomposeVariances(Facts[books], ctx.material)
    <2>1. ctx' = [ctx EXCEPT !.decomposition = split]
      BY <1>5 DEF Decompose, Completes
    <2> HIDE DEF split
    <2>2. ctx'.material = ctx.material /\ ctx'.decomposition = split
      BY <1>1, <2>1 DEF NoContext
    <2> QED
      BY <2>2 DEF split
  <1> QED
    BY <1>2, <1>3, <1>4, <1>5 DEF PassStep

\* Rows laid over rows, and rows of some periods.
LEMMA MergedSplits ==
    ASSUME NEW b, NEW new, NEW old
    PROVE  /\ Genuine(b, new) /\ Genuine(b, old) => Genuine(b, Over(new, old))
           /\ Splits(b, new) /\ Splits(b, old) => Splits(b, Over(new, old))
           /\ \A S : Genuine(b, old) => Genuine(b, OfPeriods(old, S))
           /\ Genuine(b, <<>>) /\ Splits(b, <<>>)
  <1>0. DOMAIN <<>> = {}
    OBVIOUS
  <1> DEFINE laid == Over(new, old)
  <1>5. \A k \in DOMAIN laid : \/ k \in DOMAIN new /\ laid[k] = new[k]
                               \/ k \in DOMAIN old /\ laid[k] = old[k]
    BY DEF Over
  <1> HIDE DEF laid
  <1>1. Genuine(b, new) /\ Genuine(b, old) => Genuine(b, laid)
    BY <1>5 DEF Genuine
  <1>2. Splits(b, new) /\ Splits(b, old) => Splits(b, laid)
    BY <1>5 DEF Splits
  <1>3. ASSUME NEW S, Genuine(b, old) PROVE Genuine(b, OfPeriods(old, S))
    BY <1>3, RowsOfPeriods DEF Genuine
  <1>4. Genuine(b, <<>>) /\ Splits(b, <<>>)
    BY <1>0 DEF Genuine, Splits
  <1> QED
    BY <1>1, <1>2, <1>3, <1>4 DEF laid

\* The rows and drivers a period starts with.
LEMMA FreshSplits ==
    ASSUME SplitInv, ControlInv, StartPeriod
    PROVE  Genuine(books, ctx'.material) /\ Splits(books, ctx'.decomposition)
  <1>1. ctx' = IF cli.mode = "b" THEN ContextFromDisk(Head(cli.queue))
               ELSE [NoContext EXCEPT !.period = Head(cli.queue),
                                      !.existingReview = cli.existing.review,
                                      !.existingTexts = cli.existing.texts]
    BY DEF StartPeriod
  <1>2. /\ \/ ctx'.material = OfPeriods(disk.material, {Head(cli.queue)})
           \/ ctx'.material = <<>>
        /\ ctx'.decomposition = disk.decomposition \/ ctx'.decomposition = <<>>
    BY <1>1 DEF ContextFromDisk, NoContext
  <1>3. Genuine(books, disk.material) /\ Splits(books, disk.decomposition)
    BY DEF SplitInv
  <1> QED
    BY <1>2, <1>3, MergedSplits

\* Whatever is merged, a row has its own variance and its own drivers.
LEMMA SplitSteps ==
    ASSUME RowsInv, ControlInv, SplitInv, [Next]_vars
    PROVE  SplitInv'
  <1>0. /\ Genuine(books, disk.material) /\ Genuine(books, cli.out.material)
        /\ Genuine(books, ctx.material)
        /\ Splits(books, disk.decomposition) /\ Splits(books, cli.out.decomposition)
        /\ Splits(books, ctx.decomposition)
    BY DEF SplitInv
  <1>1. ASSUME NEW i \in Invocations, NEW read \in Reads, Invoke(i, read) PROVE SplitInv'
    <2>1. UNCHANGED <<books, disk, ctx>> /\ cli'.out = NoTables
      BY <1>1 DEF Invoke
    <2>2. cli'.out.material = <<>> /\ cli'.out.decomposition = <<>>
      BY <2>1 DEF NoTables
    <2> QED
      BY <1>0, <2>1, <2>2, MergedSplits DEF SplitInv
  <1>2. CASE StartPeriod
    <2>1. cli' = [cli EXCEPT !.queue = Tail(cli.queue)] /\ UNCHANGED <<disk, books>>
      BY <1>2 DEF StartPeriod
    <2>2. cli'.out = cli.out
      BY <2>1
    <2> QED
      BY <1>0, <1>2, <2>1, <2>2, FreshSplits DEF SplitInv
  <1>3. CASE PassStep
    <2>1. pc \in Passes /\ UNCHANGED <<books, disk, cli>>
      BY <1>3, PassFacts
    <2>2. ctx.all # Null => ctx.all = RawVariances(Facts[books])
      BY <2>1 DEF RowsInv, Passes
    <2>3. Genuine(books, ctx'.material)
      BY <1>0, <1>3, <2>2, PassSplits DEF Genuine
    <2>4. Splits(books, DecomposeVariances(Facts[books], ctx.material))
      BY <1>0 DEF Splits, Genuine, DecomposeVariances
    <2>5. Splits(books, ctx'.decomposition)
      BY <1>0, <1>3, <2>4, PassSplits
    <2> QED
      BY <1>0, <2>1, <2>3, <2>5 DEF SplitInv
  <1>4. CASE Narrate
    <2>1. UNCHANGED <<books, disk, cli>> /\ Kept(ctx, ctx')
      BY <1>4, NarrateFacts
    <2> QED
      BY <1>0, <2>1 DEF Kept, SplitInv
  <1>11. ASSUME Ends, books' = books, Genuine(books, disk'.material), Splits(books, disk'.decomposition)
         PROVE  SplitInv'
    <2>1. /\ cli'.out.material = <<>> /\ cli'.out.decomposition = <<>>
          /\ ctx'.material = <<>> /\ ctx'.decomposition = <<>>
      BY <1>11 DEF Ends, NoInvocation, NoTables, NoContext
    <2> QED
      BY <1>11, <2>1, MergedSplits DEF SplitInv
  <1>5. CASE SavesIntermediate
    <2>1. /\ UNCHANGED books
          /\ Ends \/ UNCHANGED <<cli, ctx>>
          /\ disk'.material \in {disk.material, ctx.material, <<>>}
          /\ disk'.decomposition \in {disk.decomposition, ctx.decomposition, <<>>}
      BY <1>5, IntermediateFacts, IntermediateTables
    <2>2. Genuine(books, disk'.material) /\ Splits(books, disk'.decomposition)
      BY <1>0, <2>1, MergedSplits
    <2>3. CASE UNCHANGED <<cli, ctx>>
      BY <1>0, <2>1, <2>2, <2>3 DEF SplitInv
    <2> QED
      BY <1>11, <2>1, <2>2, <2>3
  <1>6. CASE Collect
    <2>1. /\ UNCHANGED <<books, disk, ctx>>
          /\ cli'.out.material = Over(ctx.material, cli.out.material)
          /\ cli'.out.decomposition = Over(ctx.decomposition, cli.out.decomposition)
      BY <1>6 DEF Collect, ControlInv, NoInvocation
    <2> QED
      BY <1>0, <2>1, MergedSplits DEF SplitInv
  <1>7. CASE SavesAll
    <2>1. /\ Ends /\ books' = books
          /\ disk'.material \in {disk.material, Written.material, <<>>}
          /\ disk'.decomposition \in {disk.decomposition, cli.out.decomposition, <<>>}
      BY <1>7, SaveFacts, SavedTables, WrittenTables
    <2>2. Written.material \in {cli.out.material, Merged(cli.out.material, disk.material)}
      BY WrittenTables
    <2>3. Genuine(books, Merged(cli.out.material, disk.material))
      BY <1>0, MergedSplits DEF Merged
    <2> HIDE DEF Written
    <2>4. Genuine(books, disk'.material) /\ Splits(books, disk'.decomposition)
      BY <1>0, <2>1, <2>2, <2>3, MergedSplits
    <2> QED
      BY <1>11, <2>1, <2>4
  <1>8. CASE ExportReviews
    <2>1. /\ UNCHANGED <<books, cli, ctx>>
          /\ disk'.material = disk.material /\ disk'.decomposition = disk.decomposition
      BY <1>8 DEF ExportReviews
    <2> QED
      BY <1>0, <2>1 DEF SplitInv
  <1>9. CASE UNCHANGED vars
    BY <1>9 DEF vars, SplitInv
  <1> QED
    BY <1>1, <1>2, <1>3, <1>4, <1>5, <1>6, <1>7, <1>8, <1>9, Steps

\* A share rounded to the cent is within half a cent of what it stands for.
LEMMA ShareRounds ==
    ASSUME NEW v \in Int, NEW pct \in Nat
    PROVE  /\ Share(v, pct) \in Int
           /\ 100 * Share(v, pct) <= v * pct + 50 /\ v * pct <= 100 * Share(v, pct) + 50
  <1> DEFINE n == v * pct
             down == n \div 100
             rest == n % 100
  <1>1. n \in Int
    OBVIOUS
  <1> HIDE DEF n
  <1>2. down \in Int /\ rest \in 0..99 /\ n = 100 * down + rest
    BY <1>1
  <1>3. Share(v, pct) \in {down, down + 1}
        /\ (Share(v, pct) = down => rest <= 50) /\ (Share(v, pct) = down + 1 => rest >= 50)
    BY <1>2 DEF Share, n
  <1> HIDE DEF down, rest
  <1>4. /\ Share(v, pct) \in Int
        /\ 100 * Share(v, pct) <= n + 50 /\ n <= 100 * Share(v, pct) + 50
    BY <1>2, <1>3
  <1> QED
    BY <1>4 DEF n

\* The sums of three and of four numbers.
LEMMA SigmaThree ==
    ASSUME NEW F, NEW a, NEW b, NEW c, a # b, a # c, b # c,
           F[a] \in Int, F[b] \in Int, F[c] \in Int
    PROVE  Sigma(F, {a, b, c}) = F[a] + F[b] + F[c]
  <1>1. /\ {a, b, c} \ {a} = {b, c} /\ {b, c} \ {b} = {c} /\ {c} \ {c} = {}
    OBVIOUS
  <1>2. IsFiniteSet({a, b, c}) /\ IsFiniteSet({b, c}) /\ IsFiniteSet({c})
    <2>1. IsFiniteSet({c})
      BY FS_Singleton
    <2>2. {b, c} = {c} \cup {b}
      OBVIOUS
    <2>3. IsFiniteSet({b, c})
      BY <2>1, <2>2, FS_AddElement
    <2>4. {a, b, c} = {b, c} \cup {a}
      OBVIOUS
    <2>5. IsFiniteSet({a, b, c})
      BY <2>3, <2>4, FS_AddElement
    <2> QED
      BY <2>1, <2>3, <2>5
  <1>3. Sigma(F, {a, b, c}) = F[a] + Sigma(F, {b, c})
    BY <1>1, <1>2, SigmaRemove
  <1>4. Sigma(F, {b, c}) = F[b] + Sigma(F, {c})
    BY <1>1, <1>2, SigmaRemove
  <1>5. Sigma(F, {c}) = F[c] + Sigma(F, {})
    BY <1>1, <1>2, SigmaRemove
  <1>6. Sigma(F, {}) = 0
    BY SigmaEmpty
  <1> QED
    BY <1>3, <1>4, <1>5, <1>6

\* The sum over four members.
LEMMA SigmaFour ==
    ASSUME NEW F, NEW a, NEW b, NEW c, NEW d, a # b, a # c, a # d, b # c, b # d, c # d,
           F[a] \in Int, F[b] \in Int, F[c] \in Int, F[d] \in Int
    PROVE  Sigma(F, {a, b, c, d}) = F[a] + F[b] + F[c] + F[d]
  <1>1. {a, b, c, d} \ {a} = {b, c, d}
    OBVIOUS
  <1>2. IsFiniteSet({a, b, c, d})
    <2>1. IsFiniteSet({d})
      BY FS_Singleton
    <2>2. {c, d} = {d} \cup {c}
      OBVIOUS
    <2>3. IsFiniteSet({c, d})
      BY <2>1, <2>2, FS_AddElement
    <2>4. {b, c, d} = {c, d} \cup {b}
      OBVIOUS
    <2>5. IsFiniteSet({b, c, d})
      BY <2>3, <2>4, FS_AddElement
    <2>6. {a, b, c, d} = {b, c, d} \cup {a}
      OBVIOUS
    <2> QED
      BY <2>5, <2>6, FS_AddElement
  <1>3. Sigma(F, {a, b, c, d}) = F[a] + Sigma(F, {b, c, d})
    BY <1>1, <1>2, SigmaRemove
  <1>4. Sigma(F, {b, c, d}) = F[b] + F[c] + F[d]
    <2>1. /\ {b, c, d} \ {b} = {c, d} /\ {c, d} \ {c} = {d} /\ {d} \ {d} = {}
      OBVIOUS
    <2>2. IsFiniteSet({b, c, d}) /\ IsFiniteSet({c, d}) /\ IsFiniteSet({d})
      BY <1>2, <2>1, <1>1, FS_RemoveElement
    <2>3. Sigma(F, {b, c, d}) = F[b] + Sigma(F, {c, d})
      BY <2>1, <2>2, SigmaRemove
    <2>4. Sigma(F, {c, d}) = F[c] + Sigma(F, {d})
      BY <2>1, <2>2, SigmaRemove
    <2>5. Sigma(F, {d}) = F[d] + Sigma(F, {})
      BY <2>1, <2>2, SigmaRemove
    <2>6. Sigma(F, {}) = 0
      BY SigmaEmpty
    <2> QED
      BY <2>3, <2>4, <2>5, <2>6
  <1> QED
    BY <1>3, <1>4

\* The currency effect of a row, as the facts have it.
LEMMA EffectOfFacts ==
    ASSUME NEW facts, FactsOK(facts), NEW k
    PROVE  FxEffect(facts, k) \in Int \cup {Null}
  <1> DEFINE f == [account |-> k.account, slice |-> k.slice, period |-> k.period]
  <1>1. FxEffect(facts, k) = IF f \in DOMAIN facts THEN facts[f].fx ELSE Null
    BY DEF FxEffect
  <1> HIDE DEF f
  <1>2. \A x \in DOMAIN facts : facts[x].fx \in Int \cup {Null}
    BY DEF FactsOK
  <1>3. f \in DOMAIN facts => facts[f].fx \in Int \cup {Null}
    BY <1>2, Zenon
  <1> QED
    BY <1>1, <1>3

\* The drivers of a whole amount and their residual add up to it, but for two cents.
LEMMA DriversAddUp ==
    ASSUME NEW facts, NEW k, NEW v \in Int, Decomposable(k), FxEffect(facts, k) \in Int \cup {Null},
           NEW split, split = DecomposeRow(facts, k, v)
    PROVE  Abs(TotalExplained(split) + split.residual - v) <= 2
  <1> DEFINE part == split.components
  <1>0. TotalExplained(split) = Sigma(part, DOMAIN part)
    BY DEF TotalExplained, Sigma
  <1>1. CASE Category[k.account] = "Revenue"
    <2> DEFINE fx == FxEffect(facts, k)
               effect == IF fx = Null \/ v = 0 THEN 0 ELSE fx
               r == v - effect
    <2>1. effect \in Int /\ r \in Int /\ v = r + effect
      OBVIOUS
    <2>2. /\ split.residual = Share(r, 5) /\ part.fx = effect
          /\ part.volume = Share(r, 60) /\ part.price = Share(r, 25) /\ part.mix = Share(r, 10)
          /\ DOMAIN part = {"volume", "price", "mix", "fx"}
      BY <1>1 DEF DecomposeRow, DecomposeRevenue
    <2> HIDE DEF effect, r
    <2>3. /\ Share(r, 60) \in Int /\ Share(r, 25) \in Int /\ Share(r, 10) \in Int
          /\ Share(r, 5) \in Int
      BY <2>1, ShareRounds
    <2>4. Sigma(part, DOMAIN part) = Share(r, 60) + Share(r, 25) + Share(r, 10) + effect
      BY <2>1, <2>2, <2>3, SigmaFour
    <2>5. /\ 100 * Share(r, 60) <= r * 60 + 50 /\ r * 60 <= 100 * Share(r, 60) + 50
          /\ 100 * Share(r, 25) <= r * 25 + 50 /\ r * 25 <= 100 * Share(r, 25) + 50
          /\ 100 * Share(r, 10) <= r * 10 + 50 /\ r * 10 <= 100 * Share(r, 10) + 50
          /\ 100 * Share(r, 5) <= r * 5 + 50 /\ r * 5 <= 100 * Share(r, 5) + 50
      BY <2>1, ShareRounds
    <2>6. TotalExplained(split) + split.residual - v
             = Share(r, 60) + Share(r, 25) + Share(r, 10) + Share(r, 5) - r
      BY <1>0, <2>1, <2>2, <2>3, <2>4
    <2> QED
      BY <2>1, <2>3, <2>5, <2>6 DEF Abs
  <1>2. CASE Category[k.account] = "COGS"
    <2>2. /\ split.residual = 0
          /\ part.rate = Share(v, 50) /\ part.volume = Share(v, 35) /\ part.mix = Share(v, 15)
          /\ DOMAIN part = {"rate", "volume", "mix"}
      BY <1>2 DEF DecomposeRow, DecomposeCogs
    <2>3. Share(v, 50) \in Int /\ Share(v, 35) \in Int /\ Share(v, 15) \in Int
      BY ShareRounds
    <2>4. Sigma(part, DOMAIN part) = Share(v, 50) + Share(v, 35) + Share(v, 15)
      BY <2>2, <2>3, SigmaThree
    <2>5. /\ 100 * Share(v, 50) <= v * 50 + 50 /\ v * 50 <= 100 * Share(v, 50) + 50
          /\ 100 * Share(v, 35) <= v * 35 + 50 /\ v * 35 <= 100 * Share(v, 35) + 50
          /\ 100 * Share(v, 15) <= v * 15 + 50 /\ v * 15 <= 100 * Share(v, 15) + 50
      BY ShareRounds
    <2> QED
      BY <1>0, <2>2, <2>3, <2>4, <2>5 DEF Abs
  <1>3. CASE Category[k.account] = "OpEx"
    <2>2. /\ split.residual = 0
          /\ part.rate = Share(v, 40) /\ part.volume = Share(v, 30)
          /\ part.timing = Share(v, 20) /\ part.onetime = Share(v, 10)
          /\ DOMAIN part = {"rate", "volume", "timing", "onetime"}
      BY <1>3 DEF DecomposeRow, DecomposeOpex
    <2>3. /\ Share(v, 40) \in Int /\ Share(v, 30) \in Int /\ Share(v, 20) \in Int
          /\ Share(v, 10) \in Int
      BY ShareRounds
    <2>4. Sigma(part, DOMAIN part) = Share(v, 40) + Share(v, 30) + Share(v, 20) + Share(v, 10)
      BY <2>2, <2>3, SigmaFour
    <2>5. /\ 100 * Share(v, 40) <= v * 40 + 50 /\ v * 40 <= 100 * Share(v, 40) + 50
          /\ 100 * Share(v, 30) <= v * 30 + 50 /\ v * 30 <= 100 * Share(v, 30) + 50
          /\ 100 * Share(v, 20) <= v * 20 + 50 /\ v * 20 <= 100 * Share(v, 20) + 50
          /\ 100 * Share(v, 10) <= v * 10 + 50 /\ v * 10 <= 100 * Share(v, 10) + 50
      BY ShareRounds
    <2> QED
      BY <1>0, <2>2, <2>3, <2>4, <2>5 DEF Abs
  <1> QED
    BY <1>1, <1>2, <1>3 DEF Decomposable, DecomposableCategories

\* The drivers of a kept row and its residual add up to its variance within two cents,
\* whatever the run, mode and period the drivers were made in: they are always those of the
\* same row (pass3_decomposition.py:28-106, run_engine.py:412-441).
THEOREM DriversExplain == Spec => []DecompositionExplains
  <1>0. RowsAreKeyed
    BY RowsKeyed
  <1>1. Init => RowsInv /\ SplitInv
    <2>1. ASSUME Init
          PROVE  /\ RowsInv
                 /\ disk.material = <<>> /\ cli.out.material = <<>> /\ ctx.material = <<>>
                 /\ disk.decomposition = <<>> /\ cli.out.decomposition = <<>>
                 /\ ctx.decomposition = <<>>
      BY <2>1 DEF Init, RowsInv, NoTables, NoInvocation, NoContext
    <2> QED
      BY <2>1, MergedSplits DEF SplitInv
  <1>2. ControlInv /\ TablesInv /\ RowsInv /\ [Next]_vars => RowsInv'
    BY <1>0, ControlSteps, RowsSteps
  <1>3. ControlInv /\ RowsInv /\ SplitInv /\ [Next]_vars => SplitInv'
    BY SplitSteps
  <1>4. ControlInv /\ SplitInv => DecompositionExplains
    <2> SUFFICES ASSUME ControlInv, SplitInv, NEW k \in DOMAIN ctx.decomposition,
                        k \in DOMAIN ctx.material
                 PROVE  Abs(TotalExplained(ctx.decomposition[k]) + ctx.decomposition[k].residual
                            - ctx.material[k].variance) <= 2
      BY DEF DecompositionExplains
    <2> DEFINE raw == RawVariances(Facts[books])
    <2>1. books \in Profiles
      BY DEF ControlInv
    <2>2. /\ Decomposable(k) /\ k \in DOMAIN raw /\ ctx.material[k] = raw[k]
          /\ ctx.decomposition[k] = DecomposeRow(Facts[books], k, raw[k].variance)
      BY DEF SplitInv, Splits, Genuine
    <2>3. raw[k].variance \in Int
      <3>1. MonthTable(MonthRowsOf(books)) /\ raw = QtdYtd(MonthRowsOf(books))
        BY <2>1, RawRows
      <3> HIDE DEF raw
      <3>2. \A f \in AmountFields : raw[k][f] \in Int
        BY <2>2, <3>1, AllRows
      <3> QED
        BY <3>2 DEF AmountFields
    <2>4. FxEffect(Facts[books], k) \in Int \cup {Null}
      <3>1. FactsOK(Facts[books])
        BY <2>1, EngineAssumption DEF EngineAssumption
      <3> QED
        BY <3>1, EffectOfFacts
    <2> HIDE DEF raw
    <2> QED
      BY <2>2, <2>3, <2>4, DriversAddUp
  <1> QED
    BY <1>1, <1>2, <1>3, <1>4, TablesKept, PTL DEF Spec


-----------------------------------------------------------------------------
(* Sections *)

\* The accounts whose rows a section adds up.
AccountsIn(section) == IF section = "Profitability" THEN {} ELSE SectionAccounts[section]

SectionNames == DOMAIN SectionAccounts \cup {"Profitability"}

\* The rows a section of a view, base and unit adds up.
RowsIn(m, v, b, u, section) == {k \in ViewOf(m, v, b, u) : k.account \in AccountsIn(section)}

\* s is the section of a name, view, base and unit, with the total of its rows.
Describes(s, m, v, b, u, section) ==
    /\ s.id = [section |-> section, base |-> b, unit |-> u] /\ s.view = v
    /\ s.total = SumOf(m, ViewOf(m, v, b, u), AccountsIn(section))

\* What the sections of a table are: one for each name, view, base and unit with rows.
WellTold(sections, m) ==
    /\ \A s \in sections : \E v \in Views, b \in BasesIn(m), section \in SectionNames :
          \E u \in UnitsIn(m, v, b) : Describes(s, m, v, b, u, section)
    /\ \A s \in sections, t \in sections : s.id = t.id /\ s.view = t.view => s = t
    /\ \A s \in sections : \A v \in Views, b \in BasesIn(m), section \in SectionNames :
          Describes(s, m, v, b, Null, section) =>
             \A u \in UnitsIn(m, v, b) : \E t \in sections : Describes(t, m, v, b, u, section)

\* Rows of pass 1 in whole cents.
WholeRows(m) == \A k \in DOMAIN m : k \in AllKeys /\ m[k].variance \in Int

\* What sections add up to.
TotalOf(S) == MapThenSumSet(LAMBDA s : s.total, S)

\* It is the sum of a function.
LEMMA TotalsAreSigma ==
    ASSUME NEW S
    PROVE  TotalOf(S) = Sigma([s \in S |-> s.total], S)
  <1> DEFINE G == [s \in S |-> s.total]
             Totals(g) == g = [T \in SUBSET S |->
                                  IF T = {} THEN 0 ELSE Pick(T).total + g[T \ {Pick(T)}]]
             totals == CHOOSE g : Totals(g)
  <1>1. TotalOf(S) = totals[S]
    BY DEF TotalOf, MapThenSumSet, MapThenFoldSet, Pick
  <1>2. \A g : Totals(g) <=> Iterates(G, S, g)
    <2>1. \A T \in SUBSET S : T # {} => Pick(T) \in S
      BY PickIn
    <2> QED
      BY <2>1 DEF Iterates
  <1> HIDE DEF Totals
  <1>3. totals = Iterated(G, S)
    BY <1>2, Zenon DEF Iterated
  <1> QED
    BY <1>1, <1>3, SigmaIterated

\* The total of a section is the sum of its rows.
LEMMA SumOfIsSigma ==
    ASSUME NEW m, NEW v, NEW b, NEW u, NEW section
    PROVE  SumOf(m, ViewOf(m, v, b, u), AccountsIn(section))
              = Sigma(Column(m, "variance"), RowsIn(m, v, b, u, section))
  <1> DEFINE K == {k \in ViewOf(m, v, b, u) : k.account \in AccountsIn(section)}
  <1>1. K \subseteq DOMAIN m /\ K = RowsIn(m, v, b, u, section)
    BY DEF ViewOf, RowsIn
  <1>2. SumOf(m, ViewOf(m, v, b, u), AccountsIn(section)) = Total(m, K)["variance"]
    BY DEF SumOf
  <1>3. "variance" \in DOMAIN Zero
    BY DEF Zero
  <1> HIDE DEF K
  <1> QED
    BY <1>1, <1>2, <1>3, TotalIsSigma

\* The units that have rows are those of the slices.
LEMMA UnitsAreUnits ==
    ASSUME NEW m, WholeRows(m), NEW v, NEW b
    PROVE  /\ \A k \in ViewOf(m, v, b, Null) : BusinessUnit[k.slice] # Null
                                              /\ BusinessUnit[k.slice] \in UnitsIn(m, v, b)
           /\ IsFiniteSet(UnitsIn(m, v, b))
  <1> DEFINE K == ViewOf(m, v, b, Null)
             units == {BusinessUnit[k.slice] : k \in K}
  <1>1. \A k \in K : k \in AllKeys
    BY DEF ViewOf, WholeRows
  <1>2. \A k \in K : k.slice \in Slices
    BY <1>1 DEF AllKeys
  <1>3. \A k \in K : BusinessUnit[k.slice] # Null
    BY <1>2, AccountsOK DEF AccountsOK
  <1>4. IsFiniteSet(K)
    <2>1. K \subseteq AllKeys
      BY <1>1
    <2> QED
      BY <2>1, KeysFinite, FS_Subset
  <1>5. IsFiniteSet(units)
    <2> DEFINE f == [k \in K |-> BusinessUnit[k.slice]]
    <2> HIDE DEF K
    <2>1. f \in Surjection(K, units)
      BY DEF Surjection
    <2> QED
      BY <1>4, <2>1, FS_Surjection
  <1>6. UnitsIn(m, v, b) = units \cup {Null}
    BY DEF UnitsIn
  <1> HIDE DEF K, units
  <1>7. IsFiniteSet(UnitsIn(m, v, b))
    BY <1>5, <1>6, FS_AddElement
  <1>8. \A k \in K : BusinessUnit[k.slice] \in UnitsIn(m, v, b)
    BY DEF UnitsIn, K
  <1> QED
    BY <1>3, <1>7, <1>8 DEF K

\* The sections of the units that a section of the company has beside it.
UnitSections(sections, s) ==
    {u \in sections : /\ u.view = s.view /\ u.id.unit # Null
                      /\ [u.id EXCEPT !.unit = Null] = s.id}

\* In sections that are well told, the total of the company is the sum of those of its units.
LEMMA UnitsAddUp ==
    ASSUME NEW m, WholeRows(m), NEW sections, WellTold(sections, m),
           NEW s \in sections, s.id.unit = Null
    PROVE  s.total = TotalOf(UnitSections(sections, s))
  <1> DEFINE S == UnitSections(sections, s)
  <1>0. \A t : t \in S <=> /\ t \in sections /\ t.view = s.view /\ t.id.unit # Null
                           /\ [t.id EXCEPT !.unit = Null] = s.id
    BY DEF UnitSections
  <1> HIDE DEF S
  <1>1. PICK v \in Views, b \in BasesIn(m), section \in SectionNames :
            \E u \in UnitsIn(m, v, b) : Describes(s, m, v, b, u, section)
    BY DEF WellTold
  <1>2. Describes(s, m, v, b, Null, section)
    <2>1. PICK u \in UnitsIn(m, v, b) : Describes(s, m, v, b, u, section)
      BY <1>1
    <2>2. s.id.unit = u
      BY <2>1 DEF Describes
    <2> QED
      BY <2>1, <2>2
  <1> DEFINE F == Column(m, "variance")
             part == [t \in S |-> RowsIn(m, v, b, t.id.unit, section)]
             G == [t \in S |-> t.total]
             units == UnitsIn(m, v, b)
  <1>3. \A t \in S : t \in sections /\ t.id.unit \in units /\ t.id.unit # Null
                     /\ Describes(t, m, v, b, t.id.unit, section)
    <2> SUFFICES ASSUME NEW t \in S
                 PROVE  t \in sections /\ t.id.unit \in units /\ t.id.unit # Null
                        /\ Describes(t, m, v, b, t.id.unit, section)
      OBVIOUS
    <2>1. t \in sections /\ t.view = s.view /\ t.id.unit # Null /\ [t.id EXCEPT !.unit = Null] = s.id
      BY <1>0
    <2>2. PICK w \in Views, c \in BasesIn(m), other \in SectionNames :
              \E u \in UnitsIn(m, w, c) : Describes(t, m, w, c, u, other)
      BY <2>1 DEF WellTold
    <2>3. PICK u \in UnitsIn(m, w, c) : Describes(t, m, w, c, u, other)
      BY <2>2
    <2>4. t.id = [section |-> other, base |-> c, unit |-> u] /\ t.view = w
      BY <2>3 DEF Describes
    <2>5. s.id = [section |-> section, base |-> b, unit |-> Null] /\ s.view = v
      BY <1>2 DEF Describes
    <2>6. [section |-> other, base |-> c, unit |-> Null] = [section |-> section, base |-> b, unit |-> Null]
      BY <2>1, <2>4, <2>5
    <2>7. other = section /\ c = b
      BY <2>6
    <2>9. t.view = s.view
      BY <1>0
    <2>10. t.id.unit = u
      BY <2>4
    <2>8. w = v /\ t.id.unit = u
      BY <2>4, <2>5, <2>9, <2>10
    <2> QED
      BY <2>1, <2>3, <2>7, <2>8
  <1>4. \A t \in S, r \in S : t.id.unit = r.id.unit => t = r
    <2> SUFFICES ASSUME NEW t \in S, NEW r \in S, t.id.unit = r.id.unit
                 PROVE  t = r
      OBVIOUS
    <2>1. t.id = r.id /\ t.view = r.view
      BY <1>3 DEF Describes
    <2> QED
      BY <1>3, <2>1 DEF WellTold
  <1>5. IsFiniteSet(S)
    <2> DEFINE f == [t \in S |-> t.id.unit]
    <2> HIDE DEF units
    <2>3. f \in [S -> units]
      BY <1>3
    <2>4. \A t, r \in S : f[t] = f[r] => t = r
      BY <1>4
    <2> HIDE DEF f
    <2>1. f \in Injection(S, units)
      BY <2>3, <2>4 DEF Injection, IsInjective
    <2>2. IsFiniteSet(units)
      BY UnitsAreUnits DEF units
    <2> QED
      BY <2>1, <2>2, FS_Injection
  <1>6. \A t \in S : IsFiniteSet(part[t]) /\ \A k \in part[t] : F[k] \in Int
    <2> SUFFICES ASSUME NEW t \in S
                 PROVE  IsFiniteSet(part[t]) /\ \A k \in part[t] : F[k] \in Int
      OBVIOUS
    <2>1. \A k \in part[t] : k \in DOMAIN m /\ k \in AllKeys /\ m[k].variance \in Int
      BY DEF RowsIn, ViewOf, WholeRows
    <2>2. part[t] \subseteq AllKeys
      BY <2>1
    <2> HIDE DEF part
    <2> QED
      BY <2>1, <2>2, KeysFinite, FS_Subset DEF Column
  <1>7. \A t \in S : \A k \in part[t] : BusinessUnit[k.slice] = t.id.unit
    BY <1>3 DEF RowsIn, ViewOf
  <1>8. \A t \in S : \A r \in S : t # r => part[t] \cap part[r] = {}
    <2> SUFFICES ASSUME NEW t \in S, NEW r \in S, NEW k \in part[t] \cap part[r]
                 PROVE  t = r
      OBVIOUS
    <2>1. BusinessUnit[k.slice] = t.id.unit /\ BusinessUnit[k.slice] = r.id.unit
      BY <1>7
    <2> QED
      BY <1>4, <2>1
  <1>9. \A t \in S : G[t] = Sigma(F, part[t])
    <2> SUFFICES ASSUME NEW t \in S
                 PROVE  t.total = Sigma(F, RowsIn(m, v, b, t.id.unit, section))
      OBVIOUS
    <2>1. t.total = SumOf(m, ViewOf(m, v, b, t.id.unit), AccountsIn(section))
      BY <1>3 DEF Describes
    <2> QED
      BY <2>1, SumOfIsSigma
  <1>10. UNION {part[t] : t \in S} = RowsIn(m, v, b, Null, section)
    <2>1. \A t \in S : \A k \in part[t] : k \in RowsIn(m, v, b, Null, section)
      BY DEF RowsIn, ViewOf
    <2>2. ASSUME NEW k \in RowsIn(m, v, b, Null, section)
          PROVE  \E t \in S : k \in part[t]
      <3>1. k \in ViewOf(m, v, b, Null) /\ k.account \in AccountsIn(section)
        BY DEF RowsIn
      <3> DEFINE u == BusinessUnit[k.slice]
      <3>2. u \in units /\ u # Null
        BY <3>1, UnitsAreUnits
      <3>3. PICK t \in sections : Describes(t, m, v, b, u, section)
        BY <1>2, <3>2 DEF WellTold
      <3>4. t.id = [section |-> section, base |-> b, unit |-> u] /\ t.view = v
        BY <3>3 DEF Describes
      <3>5. s.id = [section |-> section, base |-> b, unit |-> Null] /\ s.view = v
        BY <1>2 DEF Describes
      <3>6. t \in S
        BY <1>0, <3>2, <3>4, <3>5
      <3>7. k \in RowsIn(m, v, b, u, section)
        BY <3>1 DEF ViewOf, RowsIn
      <3>8. part[t] = RowsIn(m, v, b, u, section)
        BY <3>4, <3>6
      <3> QED
        BY <3>6, <3>7, <3>8
    <2> HIDE DEF part
    <2>3. ASSUME NEW k \in UNION {part[t] : t \in S} PROVE k \in RowsIn(m, v, b, Null, section)
      <3>1. PICK t \in S : k \in part[t]
        OBVIOUS
      <3> QED
        BY <2>1, <3>1
    <2>4. ASSUME NEW k \in RowsIn(m, v, b, Null, section) PROVE k \in UNION {part[t] : t \in S}
      BY <2>2
    <2> QED
      BY <2>3, <2>4
  <1>11. s.total = Sigma(F, RowsIn(m, v, b, Null, section))
    BY <1>2, SumOfIsSigma DEF Describes
  <1> HIDE DEF F, part, G
  <1>12. Sigma(G, S) = Sigma(F, UNION {part[t] : t \in S})
    <2>1. Parts(F, S, part, G)
      BY ONLY <1>5, <1>6, <1>8, <1>9 DEF Parts
    <2>2. AddsUp(F, S, part, G)
      BY ONLY <2>1, SigmaParts
    <2> QED
      BY <2>2 DEF AddsUp
  <1> QED
    BY <1>10, <1>11, <1>12, TotalsAreSigma DEF G, S


\* The sections of the months of a table.
MonthSections(m, p, a) ==
    UNION {{SectionOf(m, p, b, u, section, a) :
               u \in UnitsIn(m, "MTD", b), section \in DOMAIN SectionAccounts} : b \in BasesIn(m)}

\* The section of a name, view, base and unit, and when there is one.
Record(m, p, a, v, b, u, section) ==
    IF section = "Profitability" THEN ProfitabilityOf(m, p, b, u)
    ELSE IF v = "MTD" THEN SectionOf(m, p, b, u, section, a)
    ELSE ViewSection(m, p, v, b, u, section, MonthSections(m, p, a))

InScope(m, v, b, section) ==
    /\ v \in Views /\ b \in BasesIn(m) /\ section \in SectionNames
    /\ v = "MTD" \/ (section # "Profitability" /\ ViewOf(m, v, b, Null) # {})

\* The sections that are written are the records in scope.
LEMMA SectionsAreRecords ==
    ASSUME NEW m, NEW p, NEW a
    PROVE  /\ \A s \in SectionNarratives(m, p, a) :
                 \E v, b, section : /\ InScope(m, v, b, section)
                                    /\ \E u \in UnitsIn(m, v, b) : s = Record(m, p, a, v, b, u, section)
           /\ \A v, b, section : InScope(m, v, b, section) =>
                 \A u \in UnitsIn(m, v, b) :
                    Record(m, p, a, v, b, u, section) \in SectionNarratives(m, p, a)
  <1> DEFINE bases == BasesIn(m)
             months == MonthSections(m, p, a)
             profits == UNION {{ProfitabilityOf(m, p, b, u) : u \in UnitsIn(m, "MTD", b)} : b \in bases}
             views(v, b) == IF ViewOf(m, v, b, Null) = {} THEN {}
                            ELSE {ViewSection(m, p, v, b, u, section, months) :
                                     u \in UnitsIn(m, v, b), section \in DOMAIN SectionAccounts}
             later == UNION {views(v, b) : v \in {"QTD", "YTD"}, b \in bases}
             all == SectionNarratives(m, p, a)
  <1>1. all = months \cup profits \cup later
    BY DEF SectionNarratives, MonthSections
  <1>2. "Profitability" \notin DOMAIN SectionAccounts
    BY SectionsOK DEF SectionsOK
  <1>3. ASSUME NEW s \in months
        PROVE  \E v, b, section : /\ InScope(m, v, b, section)
                                  /\ \E u \in UnitsIn(m, v, b) : s = Record(m, p, a, v, b, u, section)
    <2>3. PICK b \in bases : \E u \in UnitsIn(m, "MTD", b), section \in DOMAIN SectionAccounts :
              s = SectionOf(m, p, b, u, section, a)
      BY <1>3 DEF MonthSections
    <2>1. PICK u \in UnitsIn(m, "MTD", b), section \in DOMAIN SectionAccounts :
              s = SectionOf(m, p, b, u, section, a)
      BY <2>3
    <2>2. s = Record(m, p, a, "MTD", b, u, section) /\ InScope(m, "MTD", b, section)
      BY <1>2, <2>1 DEF Record, InScope, Views, SectionNames
    <2> QED
      BY <2>1, <2>2
  <1>4. ASSUME NEW s \in profits
        PROVE  \E v, b, section : /\ InScope(m, v, b, section)
                                  /\ \E u \in UnitsIn(m, v, b) : s = Record(m, p, a, v, b, u, section)
    <2>3. PICK b \in bases : \E u \in UnitsIn(m, "MTD", b) : s = ProfitabilityOf(m, p, b, u)
      BY <1>4
    <2>1. PICK u \in UnitsIn(m, "MTD", b) : s = ProfitabilityOf(m, p, b, u)
      BY <2>3
    <2>2. /\ s = Record(m, p, a, "MTD", b, u, "Profitability")
          /\ InScope(m, "MTD", b, "Profitability")
      BY <2>1 DEF Record, InScope, Views, SectionNames
    <2> QED
      BY <2>1, <2>2
  <1>5. ASSUME NEW s \in later
        PROVE  \E v, b, section : /\ InScope(m, v, b, section)
                                  /\ \E u \in UnitsIn(m, v, b) : s = Record(m, p, a, v, b, u, section)
    <2>1. PICK v \in {"QTD", "YTD"}, b \in bases : s \in views(v, b)
      BY <1>5
    <2>2. ViewOf(m, v, b, Null) # {}
      BY <2>1
    <2>3. PICK u \in UnitsIn(m, v, b), section \in DOMAIN SectionAccounts :
              s = ViewSection(m, p, v, b, u, section, months)
      BY <2>1
    <2>4. s = Record(m, p, a, v, b, u, section) /\ InScope(m, v, b, section)
      BY <1>2, <2>2, <2>3 DEF Record, InScope, Views, SectionNames
    <2> QED
      BY <2>3, <2>4
  <1>6. ASSUME NEW v, NEW b, NEW section, InScope(m, v, b, section), NEW u \in UnitsIn(m, v, b)
        PROVE  Record(m, p, a, v, b, u, section) \in all
    <2>1. v \in Views /\ b \in bases /\ section \in SectionNames
          /\ (v = "MTD" \/ (section # "Profitability" /\ ViewOf(m, v, b, Null) # {}))
      BY <1>6 DEF InScope
    <2>2. CASE section = "Profitability"
      <3>1. v = "MTD" /\ Record(m, p, a, v, b, u, section) = ProfitabilityOf(m, p, b, u)
        BY <2>1, <2>2 DEF Record
      <3>2. ProfitabilityOf(m, p, b, u) \in profits
        BY <1>6, <2>1, <3>1
      <3> HIDE DEF profits, months, later, all
      <3> QED
        BY <1>1, <3>1, <3>2
    <2>3. CASE section # "Profitability" /\ v = "MTD"
      <3>1. Record(m, p, a, v, b, u, section) = SectionOf(m, p, b, u, section, a)
            /\ section \in DOMAIN SectionAccounts
        BY <2>1, <2>3 DEF Record, SectionNames
      <3>2. SectionOf(m, p, b, u, section, a) \in months
        BY <1>6, <2>1, <2>3, <3>1 DEF MonthSections
      <3> HIDE DEF profits, months, later, all
      <3> QED
        BY <1>1, <3>1, <3>2
    <2>4. CASE section # "Profitability" /\ v # "MTD"
      <3>1. /\ Record(m, p, a, v, b, u, section) = ViewSection(m, p, v, b, u, section, months)
            /\ section \in DOMAIN SectionAccounts /\ v \in {"QTD", "YTD"}
            /\ ViewOf(m, v, b, Null) # {}
        BY <2>1, <2>4 DEF Record, SectionNames, Views
      <3> HIDE DEF months
      <3>2. ViewSection(m, p, v, b, u, section, months) \in views(v, b)
        BY <1>6, <3>1
      <3> HIDE DEF views
      <3>3. ViewSection(m, p, v, b, u, section, months) \in later
        BY <2>1, <3>1, <3>2
      <3> HIDE DEF profits, later, all
      <3> QED
        BY <1>1, <3>1, <3>3
    <2> QED
      BY <2>2, <2>3, <2>4
  <1> HIDE DEF profits, months, later, all
  <1>7. \A s \in all : \E v, b, section : /\ InScope(m, v, b, section)
                                    /\ \E u \in UnitsIn(m, v, b) : s = Record(m, p, a, v, b, u, section)
    BY <1>1, <1>3, <1>4, <1>5
  <1> QED
    BY <1>6, <1>7 DEF all

\* A record says what it is the section of.
LEMMA RecordsDescribe ==
    ASSUME NEW m, NEW p, NEW a, NEW v, NEW b, NEW section, InScope(m, v, b, section), NEW u
    PROVE  Describes(Record(m, p, a, v, b, u, section), m, v, b, u, section)
  <1>1. CASE section = "Profitability"
    <2>1. v = "MTD" /\ Record(m, p, a, v, b, u, section) = ProfitabilityOf(m, p, b, u)
      BY <1>1 DEF Record, InScope
    <2>2. SumOf(m, ViewOf(m, v, b, u), AccountsIn(section)) = 0
      <3>1. RowsIn(m, v, b, u, section) = {}
        BY <1>1 DEF RowsIn, AccountsIn
      <3> QED
        BY <3>1, SumOfIsSigma, SigmaEmpty
    <2> QED
      BY <1>1, <2>1, <2>2 DEF ProfitabilityOf, Describes
  <1>2. CASE section # "Profitability" /\ v = "MTD"
    <2>1. Record(m, p, a, v, b, u, section) = SectionOf(m, p, b, u, section, a)
          /\ AccountsIn(section) = SectionAccounts[section]
      BY <1>2 DEF Record, AccountsIn
    <2> QED
      BY <1>2, <2>1 DEF SectionOf, Describes
  <1>3. CASE section # "Profitability" /\ v # "MTD"
    <2> DEFINE months == MonthSections(m, p, a)
    <2>1. Record(m, p, a, v, b, u, section) = ViewSection(m, p, v, b, u, section, months)
          /\ AccountsIn(section) = SectionAccounts[section]
      BY <1>3 DEF Record, AccountsIn
    <2> HIDE DEF months
    <2> QED
      BY <1>3, <2>1 DEF ViewSection, Describes
  <1> QED
    BY <1>1, <1>2, <1>3

\* What stage 3 of the narratives writes is well told.
LEMMA SectionsWellTold ==
    ASSUME NEW m, NEW p, NEW a
    PROVE  WellTold(SectionNarratives(m, p, a), m)
  <1> DEFINE all == SectionNarratives(m, p, a)
  <1>1. ASSUME NEW s \in all
        PROVE  \E v, b, section : /\ InScope(m, v, b, section)
                                  /\ \E u \in UnitsIn(m, v, b) : /\ s = Record(m, p, a, v, b, u, section)
                                                           /\ Describes(s, m, v, b, u, section)
    <2>1. PICK v, b, section : /\ InScope(m, v, b, section)
                               /\ \E u \in UnitsIn(m, v, b) : s = Record(m, p, a, v, b, u, section)
      BY SectionsAreRecords
    <2>2. PICK u \in UnitsIn(m, v, b) : s = Record(m, p, a, v, b, u, section)
      BY <2>1
    <2> QED
      BY <2>1, <2>2, RecordsDescribe
  <1>2. ASSUME NEW v, NEW b, NEW section, InScope(m, v, b, section), NEW u \in UnitsIn(m, v, b)
        PROVE  \E t \in all : Describes(t, m, v, b, u, section)
    BY <1>2, SectionsAreRecords, RecordsDescribe
  <1> HIDE DEF all
  <1>3. \A s \in all : \E v \in Views, b \in BasesIn(m), section \in SectionNames :
          \E u \in UnitsIn(m, v, b) : Describes(s, m, v, b, u, section)
    BY <1>1 DEF InScope
  <1>4. ASSUME NEW s \in all, NEW t \in all, s.id = t.id, s.view = t.view
        PROVE  s = t
    <2>1. PICK v, b, section : /\ InScope(m, v, b, section)
                               /\ \E u \in UnitsIn(m, v, b) : /\ s = Record(m, p, a, v, b, u, section)
                                                        /\ Describes(s, m, v, b, u, section)
      BY <1>1
    <2>2. PICK u \in UnitsIn(m, v, b) : /\ s = Record(m, p, a, v, b, u, section)
                                  /\ Describes(s, m, v, b, u, section)
      BY <2>1
    <2>3. PICK w, c, other : /\ InScope(m, w, c, other)
                             /\ \E x \in UnitsIn(m, w, c) : /\ t = Record(m, p, a, w, c, x, other)
                                                      /\ Describes(t, m, w, c, x, other)
      BY <1>1
    <2>4. PICK x \in UnitsIn(m, w, c) : /\ t = Record(m, p, a, w, c, x, other)
                                  /\ Describes(t, m, w, c, x, other)
      BY <2>3
    <2>5. [section |-> section, base |-> b, unit |-> u] = [section |-> other, base |-> c, unit |-> x]
          /\ v = w
      BY <1>4, <2>2, <2>4 DEF Describes
    <2>6. section = other /\ b = c /\ u = x
      BY <2>5
    <2> QED
      BY <2>2, <2>4, <2>5, <2>6
  <1>5. ASSUME NEW s \in all, NEW v \in Views, NEW b \in BasesIn(m), NEW section \in SectionNames,
               Describes(s, m, v, b, Null, section), NEW u \in UnitsIn(m, v, b)
        PROVE  \E t \in all : Describes(t, m, v, b, u, section)
    <2>1. PICK w, c, other : /\ InScope(m, w, c, other)
                             /\ \E x \in UnitsIn(m, w, c) : /\ s = Record(m, p, a, w, c, x, other)
                                                      /\ Describes(s, m, w, c, x, other)
      BY <1>1
    <2>2. PICK x \in UnitsIn(m, w, c) : Describes(s, m, w, c, x, other)
      BY <2>1
    <2>3. [section |-> section, base |-> b, unit |-> Null] = [section |-> other, base |-> c, unit |-> x]
          /\ v = w
      BY <1>5, <2>2 DEF Describes
    <2>4. section = other /\ b = c
      BY <2>3
    <2> QED
      BY <1>2, <2>1, <2>3, <2>4
  <1>6. WellTold(all, m)
    BY <1>3, <1>4, <1>5 DEF WellTold
  <1> QED
    BY <1>6 DEF all


\* The narratives replace the sections or leave them.
LEMMA SectionsLeft ==
    ASSUME NEW c, DOMAIN c = DOMAIN NoContext, NEW earlier, NEW answered, NEW g,
           g = GenerateNarratives(c, earlier, answered)
    PROVE  /\ DOMAIN g = DOMAIN NoContext /\ g.material = c.material
           /\ g.sections \in {c.sections, SectionNarratives(c.material, c.period, answered)}
  <1> DEFINE rows == RowNarratives(c, NeedsGeneration(c), earlier, answered)
             sections == SectionNarratives(c.material, c.period, answered)
             summaries == ExecutiveSummaries(c, answered)
  <1>1. g = IF DOMAIN c.material \subseteq Preserved(c)
            THEN [c EXCEPT !.narratives = TRUE, !.review = <<>>]
            ELSE [c EXCEPT !.narratives = TRUE, !.texts = rows.texts, !.review = rows.review,
                           !.sections = sections, !.summaries = summaries]
    BY DEF GenerateNarratives
  <1> HIDE DEF rows, sections, summaries
  <1>2. DOMAIN g = DOMAIN NoContext /\ g.material = c.material /\ g.sections \in {c.sections, sections}
    BY <1>1 DEF NoContext
  <1> QED
    BY <1>2 DEF sections

\* What the pass of the narratives does to the sections of the context.
LEMMA NarrateSections ==
    ASSUME ControlInv, Narrate
    PROVE  /\ ctx'.material = ctx.material
           /\ \/ ctx'.sections \in {{}, ctx.sections}
              \/ \E answered : ctx'.sections = SectionNarratives(ctx.material, ctx.period, answered)
  <1>1. DOMAIN ctx = DOMAIN NoContext
    BY DEF ControlInv
  <1>2. PICK answered \in {{}} \cup (IF cli.llm THEN {Askable} ELSE {}), raises \in BOOLEAN :
            LET left(c) == IF raises THEN [c EXCEPT !.sections = {}, !.summaries = {}] ELSE c
            IN  /\ raises => answered = {} /\ failures < MaxFailures
                /\ failures' = IF raises THEN failures + 1 ELSE failures
                /\ errors' = IF raises THEN Append(errors, pc) ELSE errors
                /\ ctx' = left(GenerateNarratives(ctx, Earlier, answered))
    BY DEF Narrate
  <1> DEFINE g == GenerateNarratives(ctx, Earlier, answered)
  <1>3. ctx' = IF raises THEN [g EXCEPT !.sections = {}, !.summaries = {}] ELSE g
    BY <1>2
  <1>4. /\ DOMAIN g = DOMAIN NoContext /\ g.material = ctx.material
        /\ g.sections \in {ctx.sections, SectionNarratives(ctx.material, ctx.period, answered)}
    BY <1>1, SectionsLeft
  <1> HIDE DEF g
  <1>5. ctx'.material = g.material /\ ctx'.sections \in {{}, g.sections}
    BY <1>3, <1>4 DEF NoContext
  <1> QED
    BY <1>4, <1>5

\* The passes before the narratives leave the sections alone.
LEMMA PassSections ==
    ASSUME ControlInv, PassStep
    PROVE  ctx'.sections = ctx.sections
  <1>1. DOMAIN ctx = DOMAIN NoContext
    BY DEF ControlInv
  <1>2. CASE ComputeRawVariances
    BY <1>1, <1>2 DEF ComputeRawVariances, Completes, NoContext
  <1>3. CASE Netting \/ Trends \/ Decompose \/ BuildGraph \/ Correlate \/ Raises
    BY <1>1, <1>3 DEF Netting, Trends, Decompose, BuildGraph, Correlate, Raises, Completes, NoContext
  <1>4. CASE ThresholdFilter
    BY <1>1, <1>4 DEF ThresholdFilter, Completes, NoContext
  <1> QED
    BY <1>2, <1>3, <1>4 DEF PassStep

\* The sections of a context are those of its rows, and are written last.
SectionsInv ==
    pc \notin {"idle", "next"} =>
        \/ ctx.sections = {}
        \/ pc = "collect" /\ \E answered : ctx.sections
                                = SectionNarratives(ctx.material, ctx.period, answered)

\* Every step keeps the invariant of the sections.
LEMMA SectionsSteps ==
    ASSUME ControlInv, SectionsInv, [Next]_vars
    PROVE  SectionsInv'
  <1>1. ASSUME NEW i \in Invocations, NEW read \in Reads, Invoke(i, read) PROVE SectionsInv'
    BY <1>1 DEF Invoke, SectionsInv
  <1>2. CASE StartPeriod
    <2>1. ctx' = IF cli.mode = "b" THEN ContextFromDisk(Head(cli.queue))
                 ELSE [NoContext EXCEPT !.period = Head(cli.queue),
                                        !.existingReview = cli.existing.review,
                                        !.existingTexts = cli.existing.texts]
      BY <1>2 DEF StartPeriod
    <2>2. ctx'.sections = {}
      BY <2>1 DEF ContextFromDisk, NoContext
    <2> QED
      BY <2>2 DEF SectionsInv
  <1>3. CASE PassStep
    <2>1. pc \in Passes /\ ctx'.sections = ctx.sections
      BY <1>3, PassFacts, PassSections
    <2>2. ctx'.sections = {}
      BY <2>1 DEF SectionsInv, Passes
    <2> QED
      BY <2>2 DEF SectionsInv
  <1>4. CASE Narrate
    <2>1. pc = "pass5" /\ pc' = Following("pass5") /\ UNCHANGED cli
          /\ ctx'.period = ctx.period /\ ctx'.material = ctx.material
      BY <1>4, NarrateFacts DEF Kept
    <2>2. cli.mode \in {"full", "b"}
      BY <2>1, StepsOfMode DEF ControlInv, Modes
    <2>3. pc' = "collect" /\ ctx.sections = {}
      BY <2>1, <2>2, Successors DEF SectionsInv
    <2>4. \/ ctx'.sections = {}
          \/ \E answered : ctx'.sections = SectionNarratives(ctx'.material, ctx'.period, answered)
      BY <1>4, <2>1, <2>3, NarrateSections
    <2> QED
      BY <2>3, <2>4 DEF SectionsInv
  <1>5. CASE SavesIntermediate
    <2>1. /\ pc = "intermediate"
          /\ pc' = "idle" \/ UNCHANGED ctx
      BY <1>5, IntermediateFacts DEF Ends
    <2> QED
      BY <2>1 DEF SectionsInv
  <1>6. CASE Collect
    BY <1>6 DEF Collect, SectionsInv
  <1>7. CASE SavesAll
    BY <1>7, SaveFacts DEF Ends, SectionsInv
  <1>8. CASE ExportReviews
    BY <1>8 DEF ExportReviews, SectionsInv
  <1>9. CASE UNCHANGED vars
    BY <1>9 DEF vars, SectionsInv
  <1> QED
    BY <1>1, <1>2, <1>3, <1>4, <1>5, <1>6, <1>7, <1>8, <1>9, Steps

\* The total of a section over the company is the sum of its totals in the business units
\* that have rows, in every view and base (pass5_narrative.py:1595-1703, 1750-1787).
THEOREM SectionsAreSums == Spec => []SectionsAddUp
  <1>0. RowsAreKeyed
    BY RowsKeyed
  <1>1. Init => RowsInv /\ SplitInv /\ SectionsInv
    <2>1. ASSUME Init
          PROVE  /\ RowsInv /\ SectionsInv
                 /\ disk.material = <<>> /\ cli.out.material = <<>> /\ ctx.material = <<>>
                 /\ disk.decomposition = <<>> /\ cli.out.decomposition = <<>>
                 /\ ctx.decomposition = <<>>
      BY <2>1 DEF Init, RowsInv, SectionsInv, NoTables, NoInvocation, NoContext
    <2> QED
      BY <2>1, MergedSplits DEF SplitInv
  <1>2. ControlInv /\ TablesInv /\ RowsInv /\ [Next]_vars => RowsInv'
    BY <1>0, ControlSteps, RowsSteps
  <1>3. ControlInv /\ RowsInv /\ SplitInv /\ [Next]_vars => SplitInv'
    BY SplitSteps
  <1>4. ControlInv /\ SectionsInv /\ [Next]_vars => SectionsInv'
    BY SectionsSteps
  <1>5. ControlInv /\ SplitInv /\ SectionsInv => SectionsAddUp
    <2> SUFFICES ASSUME ControlInv, SplitInv, SectionsInv, pc = "collect",
                        NEW s \in ctx.sections, s.id.unit = Null
                 PROVE  s.total = MapThenSumSet(LAMBDA u : u.total,
                            {u \in ctx.sections : /\ u.view = s.view /\ u.id.unit # Null
                                                  /\ [u.id EXCEPT !.unit = Null] = s.id})
      BY DEF SectionsAddUp
    <2> DEFINE raw == RawVariances(Facts[books])
               m == ctx.material
               sections == ctx.sections
    <2>1. PICK answered : sections = SectionNarratives(m, ctx.period, answered)
      BY DEF SectionsInv
    <2>2. WellTold(sections, m)
      BY <2>1, SectionsWellTold
    <2>3. MonthTable(MonthRowsOf(books)) /\ raw = QtdYtd(MonthRowsOf(books))
      BY RawRows DEF ControlInv
    <2>4. \A k \in DOMAIN m : k \in DOMAIN raw /\ m[k] = raw[k]
      BY DEF SplitInv, Genuine
    <2> HIDE DEF raw
    <2>5. /\ \A k \in DOMAIN raw : k \in AllKeys
          /\ \A k \in DOMAIN raw : \A f \in AmountFields : raw[k][f] \in Int
      BY <2>3, AllRows
    <2>6. WholeRows(m)
      BY <2>4, <2>5 DEF WholeRows, AmountFields
    <2> HIDE DEF m, sections
    <2>7. s \in sections /\ s.id.unit = Null
      BY DEF sections
    <2>8. s.total = TotalOf(UnitSections(sections, s))
      BY <2>2, <2>6, <2>7, UnitsAddUp
    <2> QED
      BY <2>8 DEF sections, TotalOf, UnitSections
  <1> QED
    BY <1>1, <1>2, <1>3, <1>4, <1>5, TablesKept, PTL DEF Spec

-----------------------------------------------------------------------------
(* Streaks *)

\* The loop of _check_consecutive_direction, month by month.
FirstStreak == [start |-> 1, sign |-> 0, found |-> {}]

Scans(amounts, n, w) ==
    w = [i \in 0..n |-> IF i = 0 THEN FirstStreak ELSE NextStreak(w[i - 1], i, amounts[i])]

Scan(amounts, n) == CHOOSE w : Scans(amounts, n, w)

\* The scan of amounts is defined.
LEMMA ScanExists ==
    ASSUME NEW amounts, NEW N \in Nat
    PROVE  \E w : Scans(amounts, N, w)
  <1> DEFINE P == {n \in Nat : \E w : Scans(amounts, n, w)}
  <1>1. 0 \in P
    <2>1. Scans(amounts, 0, [n \in 0..0 |-> FirstStreak])
      BY DEF Scans
    <2> QED
      BY <2>1
  <1>2. ASSUME NEW n \in Nat, n \in P
        PROVE  n + 1 \in P
    <2>1. PICK w : Scans(amounts, n, w)
      BY <1>2
    <2> DEFINE u == [i \in 0..(n + 1) |-> IF i <= n THEN w[i] ELSE NextStreak(w[n], i, amounts[i])]
    <2>2. \A i \in 0..n : w[i] = IF i = 0 THEN FirstStreak ELSE NextStreak(w[i - 1], i, amounts[i])
      BY <2>1 DEF Scans
    <2>3. \A i \in 0..(n + 1) :
             u[i] = IF i = 0 THEN FirstStreak ELSE NextStreak(u[i - 1], i, amounts[i])
      <3> SUFFICES ASSUME NEW i \in 0..(n + 1)
                   PROVE  u[i] = IF i = 0 THEN FirstStreak ELSE NextStreak(u[i - 1], i, amounts[i])
        OBVIOUS
      <3>1. CASE i = 0
        BY <2>2, <3>1
      <3>2. CASE i # 0 /\ i <= n
        <4>1. i - 1 \in 0..(n + 1) /\ i - 1 <= n
          BY <3>2
        <4>2. u[i] = w[i] /\ u[i - 1] = w[i - 1]
          BY <3>2, <4>1
        <4> QED
          BY <2>2, <3>2, <4>2
      <3>3. CASE i = n + 1
        <4>1. /\ u[n] = w[n] /\ u[n + 1] = NextStreak(w[n], n + 1, amounts[n + 1])
              /\ i - 1 = n /\ i # 0
          BY <3>3
        <4> QED
          BY <3>3, <4>1
      <3> QED
        BY <3>1, <3>2, <3>3
    <2>4. u = [i \in 0..(n + 1) |-> u[i]]
      OBVIOUS
    <2> HIDE DEF u
    <2>5. Scans(amounts, n + 1, u)
      BY <2>3, <2>4 DEF Scans
    <2> QED
      BY <2>5
  <1> HIDE DEF P
  <1>3. \A n \in Nat : n \in P
    BY <1>1, <1>2, Induction
  <1> QED
    BY <1>3 DEF P

\* It goes on from one amount to the next.
LEMMA ScanGoesOn ==
    ASSUME NEW amounts, NEW N \in Nat
    PROVE  /\ Scan(amounts, N)[0] = FirstStreak
           /\ \A n \in 0..N : n + 1 \in 0..N =>
                 Scan(amounts, N)[n + 1] = NextStreak(Scan(amounts, N)[n], n + 1, amounts[n + 1])
  <1> DEFINE w == Scan(amounts, N)
  <1>1. Scans(amounts, N, w)
    BY ScanExists DEF Scan
  <1> HIDE DEF w
  <1>2. w = [n \in 0..N |-> IF n = 0 THEN FirstStreak ELSE NextStreak(w[n - 1], n, amounts[n])]
    BY <1>1 DEF Scans
  <1>3. w[0] = FirstStreak
    BY <1>2
  <1>4. ASSUME NEW n \in 0..N, n + 1 \in 0..N
        PROVE  w[n + 1] = NextStreak(w[n], n + 1, amounts[n + 1])
    <2>1. n + 1 # 0 /\ (n + 1) - 1 = n
      OBVIOUS
    <2> QED
      BY <1>2, <1>4, <2>1
  <1>5. w = Scan(amounts, N)
    BY DEF w
  <1> QED
    BY <1>3, <1>4, <1>5

\* Places p to q have amounts of one sign, with none before that goes on with it.
OneSign(amounts, p, q) ==
    Sign(amounts[p]) # 0 /\ \A h \in p..q : Sign(amounts[h]) = Sign(amounts[p])

Begins(amounts, p) == p = 1 \/ Sign(amounts[p - 1]) # Sign(amounts[p])

\* A streak that is over at place n.
Ended(amounts, p, q, n) ==
    /\ p <= q /\ q < n /\ q + 1 - p >= MinConsecutive
    /\ OneSign(amounts, p, q) /\ Begins(amounts, p)
    /\ Sign(amounts[q + 1]) # Sign(amounts[q])

\* What the loop knows after n months.
Scanned(amounts, x, n) ==
    /\ x.sign = IF n = 0 THEN 0 ELSE Sign(amounts[n])
    /\ x.sign = 0 => x.start = n + 1
    /\ x.sign # 0 => /\ x.start \in 1..n /\ OneSign(amounts, x.start, n) /\ Begins(amounts, x.start)
    /\ \A z \in x.found : z \in (1..Len(amounts)) \X (1..Len(amounts))
    /\ \A p \in 1..Len(amounts), q \in 1..Len(amounts) :
          <<p, q>> \in x.found <=> Ended(amounts, p, q, n)

\* One more amount keeps what is known of a scan.
LEMMA ScanStep ==
    ASSUME NEW amounts \in Seq(Int), MinConsecutive \in Nat,
           NEW n \in 0..Len(amounts), n + 1 <= Len(amounts),
           NEW x, Scanned(amounts, x, n)
    PROVE  Scanned(amounts, NextStreak(x, n + 1, amounts[n + 1]), n + 1)
  <1> DEFINE N == Len(amounts)
             s == [i \in 1..N |-> Sign(amounts[i])]
             m == n + 1
             y == NextStreak(x, m, amounts[m])
             ends == s[m] # x.sign \/ s[m] = 0
             adds == ends /\ x.sign # 0 /\ m - x.start >= MinConsecutive
  <1>0. N \in Nat /\ m \in 1..N /\ n \in Nat
    OBVIOUS
  <1>1. \A i \in 1..N : s[i] = Sign(amounts[i]) /\ s[i] \in {0, 1, -1}
    BY DEF Sign
  <1>6. m = n + 1 /\ N = Len(amounts)
    OBVIOUS
  <1> HIDE DEF N, s, m
  <1>2. /\ y.start = IF s[m] = 0 THEN m + 1 ELSE IF ends THEN m ELSE x.start
        /\ y.sign = s[m]
        /\ y.found = IF adds THEN x.found \cup {<<x.start, m - 1>>} ELSE x.found
    BY <1>0, <1>1 DEF NextStreak
  <1>3. /\ x.sign = IF n = 0 THEN 0 ELSE s[n]
        /\ x.sign = 0 => x.start = m
        /\ x.sign # 0 => /\ x.start \in 1..n /\ s[x.start] # 0
                         /\ \A h \in x.start..n : s[h] = s[x.start]
                         /\ x.start = 1 \/ s[x.start - 1] # s[x.start]
    <2>1. n # 0 => n \in 1..N
      BY <1>0, <1>6
    <2>2. x.sign = IF n = 0 THEN 0 ELSE s[n]
      BY <1>1, <2>1 DEF Scanned
    <2>3. x.sign = 0 => x.start = m
      BY <1>6 DEF Scanned
    <2>4. ASSUME x.sign # 0
          PROVE  /\ x.start \in 1..n /\ s[x.start] # 0
                 /\ \A h \in x.start..n : s[h] = s[x.start]
                 /\ x.start = 1 \/ s[x.start - 1] # s[x.start]
      <3>1. x.start \in 1..n /\ OneSign(amounts, x.start, n) /\ Begins(amounts, x.start)
        BY <2>4 DEF Scanned
      <3>2. /\ \A h \in x.start..n : h \in 1..N
            /\ x.start # 1 => x.start - 1 \in 1..N
            /\ x.start \in 1..N
        BY <1>0, <1>6, <3>1
      <3> QED
        BY <1>1, <3>1, <3>2 DEF OneSign, Begins
    <2> QED
      BY <2>2, <2>3, <2>4
  <1>4. \A z \in x.found : z \in (1..N) \X (1..N)
    BY <1>6 DEF Scanned
  <1>5. \A p \in 1..N, q \in 1..N :
           <<p, q>> \in x.found <=>
              /\ p <= q /\ q < n /\ q + 1 - p >= MinConsecutive
              /\ s[p] # 0 /\ \A h \in p..q : s[h] = s[p]
              /\ p = 1 \/ s[p - 1] # s[p]
              /\ s[q + 1] # s[q]
    <2> TAKE p \in 1..N, q \in 1..N
    <2>1. <<p, q>> \in x.found <=> Ended(amounts, p, q, n)
      BY <1>6 DEF Scanned
    <2>2. Ended(amounts, p, q, n) <=>
              /\ p <= q /\ q < n /\ q + 1 - p >= MinConsecutive
              /\ s[p] # 0 /\ \A h \in p..q : s[h] = s[p]
              /\ p = 1 \/ s[p - 1] # s[p]
              /\ s[q + 1] # s[q]
      <3>1. q < n => q + 1 \in 1..N
        BY <1>0, <1>6
      <3>2. p # 1 => p - 1 \in 1..N
        BY <1>0
      <3>3. \A h \in p..q : h \in 1..N
        BY <1>0
      <3> QED
        BY <1>1, <3>1, <3>2, <3>3 DEF Ended, OneSign, Begins
    <2> QED
      BY <2>1, <2>2
  <1> HIDE DEF y
  <1>7. y.sign = IF m = 0 THEN 0 ELSE s[m]
    BY <1>0, <1>2, <1>6
  <1>8. y.sign = 0 => y.start = m + 1
    BY <1>2
  <1>9. y.sign # 0 => /\ y.start \in 1..m /\ s[y.start] # 0
                      /\ \A h \in y.start..m : s[h] = s[y.start]
                      /\ y.start = 1 \/ s[y.start - 1] # s[y.start]
    <2> SUFFICES ASSUME y.sign # 0
                 PROVE  /\ y.start \in 1..m /\ s[y.start] # 0
                        /\ \A h \in y.start..m : s[h] = s[y.start]
                        /\ y.start = 1 \/ s[y.start - 1] # s[y.start]
      OBVIOUS
    <2>1. CASE ends
      <3>1. y.start = m /\ s[m] # 0 /\ s[m] # x.sign
        BY <1>2, <2>1
      <3>2. m = 1 \/ (s[m - 1] = x.sign)
        BY <1>0, <1>3, <1>6
      <3>3. \A h \in m..m : h = m
        BY <1>0
      <3> QED
        BY <1>0, <3>1, <3>2, <3>3
    <2>2. CASE ~ends
      <3>1. y.start = x.start /\ s[m] = x.sign /\ x.sign # 0
        BY <1>2, <2>2
      <3>2. x.sign = s[n] /\ x.start \in 1..n /\ n \in x.start..n
        BY <1>0, <1>3, <3>1
      <3>3. \A h \in x.start..m : h = m \/ h \in x.start..n
        BY <1>0, <1>6, <3>2
      <3> QED
        BY <1>0, <1>3, <1>6, <3>1, <3>2, <3>3
    <2> QED
      BY <2>1, <2>2
  <1>10. adds => x.start \in 1..N /\ m - 1 \in 1..N
    BY <1>0, <1>3, <1>6
  <1>11. \A z \in y.found : z \in (1..N) \X (1..N)
    BY <1>2, <1>4, <1>10
  <1>12. ASSUME NEW p \in 1..N, NEW q \in 1..N
         PROVE  <<p, q>> \in y.found <=>
                  /\ p <= q /\ q < m /\ q + 1 - p >= MinConsecutive
                  /\ s[p] # 0 /\ \A h \in p..q : s[h] = s[p]
                  /\ p = 1 \/ s[p - 1] # s[p]
                  /\ s[q + 1] # s[q]
    <2>1. CASE q # n
      <3>1. q < m <=> q < n
        BY <1>0, <1>6, <2>1
      <3>2. <<p, q>> \in y.found <=> <<p, q>> \in x.found
        <4>1. q # m - 1
          BY <1>0, <1>6, <2>1
        <4> QED
          BY <1>2, <4>1
      <3> QED
        BY <1>5, <3>1, <3>2
    <2>2. CASE q = n
      <3>1. q < m /\ q = m - 1 /\ q + 1 = m /\ ~(q < n)
        BY <1>0, <1>6, <2>2
      <3>2. <<p, q>> \notin x.found
        BY <1>5, <3>1
      <3>3. <<p, q>> \in y.found <=> adds /\ p = x.start
        BY <1>2, <3>1, <3>2
      <3>4. x.sign = s[q]
        BY <1>0, <1>3, <2>2
      <3>5. CASE x.sign = 0
        <4>1. p <= q => q \in p..q
          OBVIOUS
        <4> QED
          BY <3>3, <3>4, <3>5, <4>1
      <3>6. CASE x.sign # 0
        <4>1. /\ x.start \in 1..q /\ s[x.start] # 0 /\ \A h \in x.start..q : s[h] = s[x.start]
              /\ x.start = 1 \/ s[x.start - 1] # s[x.start]
          BY <1>3, <2>2, <3>6
        <4>2. adds <=> s[m] # s[q] /\ q + 1 - x.start >= MinConsecutive
          <5>1. ends <=> s[m] # s[q]
            BY <3>4, <3>6
          <5>2. m - x.start >= MinConsecutive <=> q + 1 - x.start >= MinConsecutive
            BY <1>0, <3>1, <4>1
          <5> QED
            BY <3>6, <5>1, <5>2
        <4>3. ASSUME p <= q, s[p] # 0, \A h \in p..q : s[h] = s[p], p = 1 \/ s[p - 1] # s[p]
              PROVE  p = x.start
          <5>1. CASE p < x.start
            <6>1. x.start - 1 \in p..q /\ x.start \in p..q /\ x.start # 1
              BY <4>1, <5>1
            <6> QED
              BY <4>1, <4>3, <6>1
          <5>2. CASE p > x.start
            <6>1. p - 1 \in x.start..q /\ p \in x.start..q /\ p # 1
              BY <4>1, <4>3, <5>2
            <6> QED
              BY <4>1, <4>3, <6>1
          <5> QED
            BY <4>1, <5>1, <5>2
        <4>4. p = x.start => /\ p <= q /\ s[p] # 0 /\ \A h \in p..q : s[h] = s[p]
                             /\ p = 1 \/ s[p - 1] # s[p]
          BY <4>1
        <4> QED
          BY <3>1, <3>3, <4>2, <4>3, <4>4
      <3> QED
        BY <3>5, <3>6
    <2> QED
      BY <2>1, <2>2
  <1>13. ASSUME NEW p \in 1..N, NEW q \in 1..N
         PROVE  <<p, q>> \in y.found <=> Ended(amounts, p, q, m)
    <2>1. Ended(amounts, p, q, m) <=>
              /\ p <= q /\ q < m /\ q + 1 - p >= MinConsecutive
              /\ s[p] # 0 /\ \A h \in p..q : s[h] = s[p]
              /\ p = 1 \/ s[p - 1] # s[p]
              /\ s[q + 1] # s[q]
      <3>1. q < m => q + 1 \in 1..N
        BY <1>0, <1>6
      <3>2. p # 1 => p - 1 \in 1..N
        BY <1>0
      <3>3. \A h \in p..q : h \in 1..N
        BY <1>0
      <3> QED
        BY <1>1, <3>1, <3>2, <3>3 DEF Ended, OneSign, Begins
    <2> QED
      BY <1>12, <2>1
  <1>14. y.sign = IF m = 0 THEN 0 ELSE Sign(amounts[m])
    BY <1>0, <1>1, <1>7
  <1>15. y.sign # 0 => /\ y.start \in 1..m /\ OneSign(amounts, y.start, m)
                       /\ Begins(amounts, y.start)
    BY <1>0, <1>1, <1>9 DEF OneSign, Begins
  <1>16. Scanned(amounts, y, m)
    BY <1>8, <1>11, <1>13, <1>14, <1>15 DEF Scanned, N
  <1> QED
    BY <1>16 DEF y, m

\* A longest run of amounts of one sign.
LongestRun(amounts, p, q) ==
    /\ p <= q /\ q + 1 - p >= MinConsecutive
    /\ OneSign(amounts, p, q) /\ Begins(amounts, p)
    /\ q = Len(amounts) \/ Sign(amounts[q + 1]) # Sign(amounts[q])

\* A scan of all amounts has found what is known of it.
LEMMA ScannedAll ==
    ASSUME NEW amounts \in Seq(Int), MinConsecutive \in Nat
    PROVE  Scanned(amounts, Scan(amounts, Len(amounts))[Len(amounts)], Len(amounts))
  <1> DEFINE N == Len(amounts)
             at(i) == Scan(amounts, N)[i]
             P == {i \in Nat : i <= N => Scanned(amounts, at(i), i)}
  <1>0. N \in Nat
    OBVIOUS
  <1>1. 0 \in P
    <2>1. at(0) = FirstStreak
      BY <1>0, ScanGoesOn
    <2>2. Scanned(amounts, FirstStreak, 0)
      BY DEF Scanned, FirstStreak, Ended
    <2> QED
      BY <2>1, <2>2
  <1>2. ASSUME NEW i \in Nat, i \in P
        PROVE  i + 1 \in P
    <2> SUFFICES ASSUME i + 1 <= N
                 PROVE  Scanned(amounts, at(i + 1), i + 1)
      BY <1>2
    <2>1. i \in 0..N /\ i + 1 \in 0..N
      BY <1>0
    <2>2. Scanned(amounts, at(i), i)
      BY <1>2, <2>1
    <2>3. at(i + 1) = NextStreak(at(i), i + 1, amounts[i + 1])
      BY <1>0, <2>1, ScanGoesOn
    <2> HIDE DEF at
    <2> QED
      BY <2>1, <2>2, <2>3, ScanStep
  <1>3. \A i \in Nat : i \in P
    <2> HIDE DEF P
    <2> QED
      BY <1>1, <1>2, Induction
  <1> QED
    BY <1>0, <1>3

\* The streaks found are the longest runs of amounts of one sign, of MinConsecutive months
\* or more, each once (trend.py:94-153).
THEOREM StreaksFound ==
    ASSUME NEW amounts \in Seq(Int), MinConsecutive \in Nat
    PROVE  /\ \A z \in Streaks(amounts) : z \in (1..Len(amounts)) \X (1..Len(amounts))
           /\ \A p \in 1..Len(amounts), q \in 1..Len(amounts) :
                 <<p, q>> \in Streaks(amounts) <=> LongestRun(amounts, p, q)
  <1> DEFINE n == Len(amounts)
             s == Scan(amounts, n)[n]
             last == IF s.sign # 0 /\ n + 1 - s.start >= MinConsecutive THEN {<<s.start, n>>} ELSE {}
  <1>0. n \in Nat
    OBVIOUS
  <1>1. Streaks(amounts) = IF n < MinConsecutive THEN {} ELSE s.found \cup last
    BY DEF Streaks, Scan, Scans, FirstStreak
  <1>2. Scanned(amounts, s, n)
    BY ScannedAll
  <1>3. n = Len(amounts)
    OBVIOUS
  <1> HIDE DEF n, s
  <1>4. s.sign # 0 => s.start \in 1..n /\ n \in 1..n
    BY <1>0, <1>2 DEF Scanned
  <1>5. \A z \in Streaks(amounts) : z \in (1..n) \X (1..n)
    BY <1>1, <1>2, <1>3, <1>4 DEF Scanned
  <1>6. ASSUME NEW p \in 1..n, NEW q \in 1..n
        PROVE  <<p, q>> \in Streaks(amounts) <=> LongestRun(amounts, p, q)
    <2>1. CASE n < MinConsecutive
      <3>1. ~(q + 1 - p >= MinConsecutive)
        BY <1>0, <2>1
      <3> QED
        BY <1>1, <2>1, <3>1 DEF LongestRun
    <2>2. CASE ~(n < MinConsecutive) /\ q # n
      <3>1. q < n /\ <<p, q>> \notin last
        BY <1>0, <2>2
      <3>2. <<p, q>> \in s.found <=> Ended(amounts, p, q, n)
        BY <1>2, <1>3 DEF Scanned
      <3>3. Ended(amounts, p, q, n) <=> LongestRun(amounts, p, q)
        BY <1>3, <2>2, <3>1 DEF Ended, LongestRun
      <3> QED
        BY <1>1, <2>2, <3>1, <3>2, <3>3
    <2>3. CASE ~(n < MinConsecutive) /\ q = n
      <3>1. <<p, q>> \notin s.found
        <4>1. ~Ended(amounts, p, q, n)
          BY <1>0, <2>3 DEF Ended
        <4> QED
          BY <1>2, <1>3, <4>1 DEF Scanned
      <3>2. <<p, q>> \in Streaks(amounts) <=>
               s.sign # 0 /\ n + 1 - s.start >= MinConsecutive /\ p = s.start
        BY <1>1, <2>3, <3>1
      <3>3. s.sign = Sign(amounts[n])
        BY <1>0, <1>2, <2>3 DEF Scanned
      <3>4. CASE s.sign = 0
        <4>1. ~OneSign(amounts, p, q) \/ ~(p <= q)
          <5>1. p <= q => q \in p..q
            OBVIOUS
          <5> QED
            BY <2>3, <3>3, <3>4, <5>1 DEF OneSign
        <4> QED
          BY <3>2, <3>4, <4>1 DEF LongestRun
      <3>5. CASE s.sign # 0
        <4>1. s.start \in 1..n /\ OneSign(amounts, s.start, n) /\ Begins(amounts, s.start)
          BY <1>2, <3>5 DEF Scanned
        <4>2. ASSUME p <= q, OneSign(amounts, p, q), Begins(amounts, p)
              PROVE  p = s.start
          <5> DEFINE r == s.start
          <5>1. r \in 1..n /\ OneSign(amounts, r, n) /\ Begins(amounts, r)
            BY <4>1
          <5> HIDE DEF r
          <5>2. CASE p < r
            <6>1. r - 1 \in p..q /\ r \in p..q /\ r # 1
              BY <1>0, <2>3, <5>1, <5>2
            <6> QED
              BY <4>2, <5>1, <6>1 DEF OneSign, Begins
          <5>3. CASE p > r
            <6>1. p - 1 \in r..n /\ p \in r..n /\ p # 1
              BY <1>0, <5>1, <5>3
            <6> QED
              BY <4>2, <5>1, <6>1 DEF OneSign, Begins
          <5>4. p \in Int /\ r \in Int
            BY <1>0, <5>1
          <5>5. p < r \/ p > r \/ p = r
            BY <5>4
          <5> QED
            BY <5>2, <5>3, <5>5 DEF r
        <4>3. LongestRun(amounts, p, q) <=> p = s.start /\ n + 1 - s.start >= MinConsecutive
          BY <1>3, <2>3, <4>1, <4>2 DEF LongestRun
        <4> QED
          BY <3>2, <3>5, <4>3
      <3> QED
        BY <3>4, <3>5
    <2> QED
      BY <2>1, <2>2, <2>3
  <1> QED
    BY <1>3, <1>5, <1>6

PeriodsFrom(p, q) == {r \in Periods : p <= r /\ r <= q}

\* A run of months with variances of one sign, and one that no other goes beyond.
RunOf(sign, p, q) == sign[p] # 0 /\ \A r \in PeriodsFrom(p, q) : sign[r] = sign[p]

LongestOf(sign, p, q) ==
    \A r, t \in Periods : r <= p /\ q <= t /\ RunOf(sign, r, t) => r = p /\ t = q

\* The periods in order.
LEMMA PeriodsInOrder ==
    ASSUME NEW n, n = Cardinality(Periods), NEW at, at = Ascending(Periods)
    PROVE  /\ n \in Nat /\ DOMAIN at = 1..n
           /\ \A i \in 1..n : at[i] \in Periods /\ at[i] \in Int
           /\ \A i \in 1..n, j \in 1..n : (i <= j <=> at[i] <= at[j]) /\ (i = j <=> at[i] = at[j])
           /\ \A x \in Periods : \E i \in 1..n : at[i] = x
  <1>1. IsFiniteSet(Periods) /\ \A x \in Periods : x \in Int
    BY AccountsOK, PeriodsAreNumbers DEF AccountsOK
  <1>2. /\ n \in Nat /\ DOMAIN at = 1..n
        /\ \A i \in 1..n : at[i] \in Periods
        /\ \A i \in 1..n, j \in 1..n : i < j => at[i] < at[j]
        /\ \A x \in Periods : \E i \in 1..n : at[i] = x
    BY <1>1, AscendingOrder
  <1>3. \A i \in 1..n : at[i] \in Int
    BY <1>1, <1>2
  <1>4. ASSUME NEW i \in 1..n, NEW j \in 1..n
        PROVE  (i <= j <=> at[i] <= at[j]) /\ (i = j <=> at[i] = at[j])
    <2>1. i < j \/ i = j \/ j < i
      OBVIOUS
    <2>2. CASE i < j
      <3>1. at[i] < at[j]
        BY <1>2, <2>2
      <3> QED
        BY <1>3, <2>2, <3>1
    <2>3. CASE j < i
      <3>1. at[j] < at[i]
        BY <1>2, <2>3
      <3> QED
        BY <1>3, <2>3, <3>1
    <2>4. CASE i = j
      BY <1>3, <2>4
    <2> QED
      BY <2>1, <2>2, <2>3, <2>4
  <1> QED
    BY <1>2, <1>3, <1>4

\* The periods from one to another are those at the places between theirs.
Counted(n, at) ==
    \A p \in 1..n, q \in 1..n : p <= q =>
       /\ \A h \in p..q : h \in 1..n /\ at[h] \in PeriodsFrom(at[p], at[q])
       /\ \A x \in PeriodsFrom(at[p], at[q]) : \E h \in p..q : at[h] = x
       /\ Cardinality(PeriodsFrom(at[p], at[q])) = q + 1 - p

\* The periods in their order, and how many are between two of them.
LEMMA PeriodsBetween ==
    ASSUME NEW n, n = Cardinality(Periods), NEW at, at = Ascending(Periods)
    PROVE  Counted(n, at)
  <1> SUFFICES ASSUME NEW p \in 1..n, NEW q \in 1..n, p <= q
               PROVE  /\ \A h \in p..q : h \in 1..n /\ at[h] \in PeriodsFrom(at[p], at[q])
                      /\ \A x \in PeriodsFrom(at[p], at[q]) : \E h \in p..q : at[h] = x
                      /\ Cardinality(PeriodsFrom(at[p], at[q])) = q + 1 - p
    BY DEF Counted
  <1>1. /\ n \in Nat
        /\ \A i \in 1..n : at[i] \in Periods /\ at[i] \in Int
        /\ \A i \in 1..n, j \in 1..n : (i <= j <=> at[i] <= at[j]) /\ (i = j <=> at[i] = at[j])
        /\ \A x \in Periods : \E i \in 1..n : at[i] = x
    BY PeriodsInOrder
  <1>2. \A h \in p..q : h \in 1..n /\ p <= h /\ h <= q
    BY <1>1
  <1>3. \A h \in p..q : at[h] \in PeriodsFrom(at[p], at[q])
    BY <1>1, <1>2 DEF PeriodsFrom
  <1>4. ASSUME NEW x \in PeriodsFrom(at[p], at[q])
        PROVE  \E h \in p..q : at[h] = x
    <2>1. x \in Periods /\ at[p] <= x /\ x <= at[q]
      BY DEF PeriodsFrom
    <2>2. PICK h \in 1..n : at[h] = x
      BY <1>1, <2>1
    <2>3. p <= h /\ h <= q
      BY <1>1, <2>1, <2>2
    <2> QED
      BY <2>2, <2>3
  <1> DEFINE f == [h \in p..q |-> at[h]]
             T == PeriodsFrom(at[p], at[q])
  <1>5. f \in Bijection(p..q, T)
    <2>1. f \in [p..q -> T]
      BY <1>3
    <2>2. \A i \in p..q, j \in p..q : f[i] = f[j] => i = j
      BY <1>1, <1>2
    <2>3. \A x \in T : \E h \in p..q : f[h] = x
      BY <1>4
    <2> HIDE DEF f, T
    <2> QED
      BY <2>1, <2>2, <2>3 DEF Bijection, Injection, Surjection, IsInjective
  <1>6. ExistsBijection(p..q, T)
    BY <1>5 DEF ExistsBijection
  <1>7. p \in Int /\ q \in Int /\ ~(p > q)
    BY <1>1
  <1>8. IsFiniteSet(p..q) /\ Cardinality(p..q) = q + 1 - p
    BY <1>7, FS_Interval
  <1>9. Cardinality(T) = q + 1 - p
    BY <1>6, <1>8, FS_Bijection
  <1> QED
    BY <1>2, <1>3, <1>4, <1>9

\* Place by place or month by month, the longest runs are the same.
LEMMA RunsOfPeriods ==
    ASSUME NEW n, n = Cardinality(Periods), NEW at, at = Ascending(Periods),
           NEW amounts, Len(amounts) = n, NEW sign,
           \A i \in 1..n : Sign(amounts[i]) = sign[at[i]],
           NEW p \in 1..n, NEW q \in 1..n
    PROVE  LongestRun(amounts, p, q) <=>
               /\ at[p] <= at[q] /\ Cardinality(PeriodsFrom(at[p], at[q])) >= MinConsecutive
               /\ RunOf(sign, at[p], at[q]) /\ LongestOf(sign, at[p], at[q])
  <1>0. Counted(n, at)
    BY PeriodsBetween
  <1>1. /\ n \in Nat
        /\ \A i \in 1..n : at[i] \in Periods /\ at[i] \in Int
        /\ \A i \in 1..n, j \in 1..n : (i <= j <=> at[i] <= at[j]) /\ (i = j <=> at[i] = at[j])
        /\ \A x \in Periods : \E i \in 1..n : at[i] = x
    BY PeriodsInOrder
  <1>2. ASSUME NEW i \in 1..n, NEW j \in 1..n, i <= j
        PROVE  RunOf(sign, at[i], at[j]) <=> OneSign(amounts, i, j)
    <2>1. /\ \A h \in i..j : h \in 1..n /\ at[h] \in PeriodsFrom(at[i], at[j])
          /\ \A x \in PeriodsFrom(at[i], at[j]) : \E h \in i..j : at[h] = x
      BY <1>0, <1>2 DEF Counted
    <2>2. sign[at[i]] = Sign(amounts[i])
      OBVIOUS
    <2>3. \A h \in i..j : sign[at[h]] = Sign(amounts[h])
      BY <2>1
    <2>4. ASSUME RunOf(sign, at[i], at[j]) PROVE OneSign(amounts, i, j)
      BY <2>1, <2>2, <2>3, <2>4 DEF RunOf, OneSign
    <2>5. ASSUME OneSign(amounts, i, j) PROVE RunOf(sign, at[i], at[j])
      <3>1. sign[at[i]] # 0
        BY <2>2, <2>5 DEF OneSign
      <3>2. ASSUME NEW x \in PeriodsFrom(at[i], at[j])
            PROVE  sign[x] = sign[at[i]]
        <4>1. PICK h \in i..j : at[h] = x
          BY <2>1
        <4>2. Sign(amounts[h]) = Sign(amounts[i])
          BY <2>5 DEF OneSign
        <4> QED
          BY <2>2, <2>3, <4>1, <4>2
      <3> QED
        BY <3>1, <3>2 DEF RunOf
    <2> QED
      BY <2>4, <2>5
  <1>3. CASE ~(p <= q)
    BY <1>1, <1>3 DEF LongestRun
  <1>4. CASE p <= q
    <2>1. Cardinality(PeriodsFrom(at[p], at[q])) = q + 1 - p
      BY <1>0, <1>4 DEF Counted
    <2>2. at[p] <= at[q]
      BY <1>1, <1>4
    <2>3. ASSUME OneSign(amounts, p, q), LongestOf(sign, at[p], at[q])
          PROVE  /\ Begins(amounts, p)
                 /\ q = n \/ Sign(amounts[q + 1]) # Sign(amounts[q])
      <3>1. ASSUME ~Begins(amounts, p) PROVE FALSE
        <4>1. p # 1 /\ Sign(amounts[p - 1]) = Sign(amounts[p])
          BY <3>1 DEF Begins
        <4>2. p - 1 \in 1..n /\ p - 1 <= q /\ p - 1 <= p /\ p - 1 # p
          BY <1>1, <1>4, <4>1
        <4>3. \A h \in (p - 1)..q : h = p - 1 \/ h \in p..q
          BY <1>1, <4>2
        <4>4. OneSign(amounts, p - 1, q)
          BY <2>3, <4>1, <4>3 DEF OneSign
        <4>5. RunOf(sign, at[p - 1], at[q])
          BY <1>2, <4>2, <4>4
        <4>6. at[p - 1] <= at[p] /\ at[q] <= at[q] /\ at[p - 1] # at[p]
          BY <1>1, <4>2
        <4> QED
          BY <1>1, <2>3, <4>2, <4>5, <4>6 DEF LongestOf
      <3>2. ASSUME q # n, Sign(amounts[q + 1]) = Sign(amounts[q]) PROVE FALSE
        <4>1. q + 1 \in 1..n /\ p <= q + 1 /\ q <= q + 1 /\ q + 1 # q
          BY <1>1, <1>4, <3>2
        <4>2. \A h \in p..(q + 1) : h = q + 1 \/ h \in p..q
          BY <1>1, <4>1
        <4>3. q \in p..q
          BY <1>1, <1>4
        <4>4. OneSign(amounts, p, q + 1)
          BY <2>3, <3>2, <4>2, <4>3 DEF OneSign
        <4>5. RunOf(sign, at[p], at[q + 1])
          BY <1>2, <4>1, <4>4
        <4>6. at[p] <= at[p] /\ at[q] <= at[q + 1] /\ at[q + 1] # at[q]
          BY <1>1, <4>1
        <4> QED
          BY <1>1, <2>3, <4>1, <4>5, <4>6 DEF LongestOf
      <3> QED
        BY <3>1, <3>2
    <2>4. ASSUME OneSign(amounts, p, q), Begins(amounts, p),
                 q = n \/ Sign(amounts[q + 1]) # Sign(amounts[q])
          PROVE  LongestOf(sign, at[p], at[q])
      <3> SUFFICES ASSUME NEW r \in Periods, NEW t \in Periods, r <= at[p], at[q] <= t,
                          RunOf(sign, r, t)
                   PROVE  r = at[p] /\ t = at[q]
        BY DEF LongestOf
      <3>1. PICK i \in 1..n : at[i] = r
        BY <1>1
      <3>2. PICK j \in 1..n : at[j] = t
        BY <1>1
      <3>3. i <= p /\ q <= j /\ i <= j
        <4>1. i <= p /\ q <= j
          BY <1>1, <3>1, <3>2
        <4> QED
          BY <1>1, <1>4, <4>1
      <3>4. OneSign(amounts, i, j)
        BY <1>2, <3>1, <3>2, <3>3
      <3>5. i = p
        <4>1. ASSUME i # p PROVE FALSE
          <5>1. p - 1 \in i..j /\ p \in i..j /\ p # 1
            BY <1>1, <1>4, <3>3, <4>1
          <5> QED
            BY <2>4, <3>4, <5>1 DEF OneSign, Begins
        <4> QED
          BY <4>1
      <3>6. j = q
        <4>1. ASSUME j # q PROVE FALSE
          <5>1. q + 1 \in i..j /\ q \in i..j /\ q # n
            BY <1>1, <1>4, <3>3, <4>1
          <5> QED
            BY <2>4, <3>4, <5>1 DEF OneSign
        <4> QED
          BY <4>1
      <3> QED
        BY <3>1, <3>2, <3>5, <3>6
    <2>5. RunOf(sign, at[p], at[q]) <=> OneSign(amounts, p, q)
      BY <1>2, <1>4
    <2> QED
      BY <1>4, <2>1, <2>2, <2>3, <2>4, <2>5 DEF LongestRun
  <1> QED
    BY <1>3, <1>4

\* The flags of detect_trends for one key, by rule.
TrendKeys(rows) == {DimKey(k) : k \in {j \in DOMAIN rows : j.view = "MTD" /\ j.base = "BUDGET"}}

Variances(rows, key) ==
    LET series == Series(rows, key)
    IN  [i \in DOMAIN series |-> series[i].amount.variance]

Directions(rows, key) ==
    LET series == Series(rows, key)
        period(i) == series[i].period
    IN  {[rule |-> "consecutive_direction", key |-> key,
          first |-> period(s[1]), latest |-> period(s[2]),
          length |-> s[2] - s[1] + 1] : s \in Streaks(Variances(rows, key))}

YearBreachFlags(rows, key) ==
    LET series == Series(rows, key)
        amounts == [i \in DOMAIN series |-> series[i].amount]
        period(i) == series[i].period
        years == {FiscalYear[period(i)] : i \in DOMAIN series}
        months(y) == {i \in DOMAIN series : FiscalYear[period(i)] = y}
    IN  {[rule |-> "cumulative_ytd_breach", key |-> key,
          first |-> period(Min(months(y))), latest |-> period(Max(months(y))),
          length |-> Cardinality(months(y))] :
             y \in {z \in years : YearBreaches(amounts, months(z), Category[key.account])}}

\* Trends are found for each key by the two rules.
LEMMA TrendsByRule ==
    ASSUME NEW rows
    PROVE  DetectTrends(rows)
             = UNION {Directions(rows, key) \cup YearBreachFlags(rows, key) : key \in TrendKeys(rows)}
    BY DEF DetectTrends, Directions, YearBreachFlags, TrendKeys, Variances

Stretch(t) == <<t.first, t.latest>>

Stretches(trends, key) ==
    {Stretch(t) : t \in {u \in trends : u.key = key /\ u.rule = "consecutive_direction"}}

StreakStretches(rows, key) ==
    {<<Series(rows, key)[s[1]].period, Series(rows, key)[s[2]].period>> :
        s \in Streaks(Variances(rows, key))}

\* The stretches flagged for a key are those of its streaks.
LEMMA StretchesOfKey ==
    ASSUME NEW rows, NEW key
    PROVE  Stretches(DetectTrends(rows), key)
             = IF key \in TrendKeys(rows) THEN StreakStretches(rows, key) ELSE {}
  <1> DEFINE all == DetectTrends(rows)
             mine == {u \in all : u.key = key /\ u.rule = "consecutive_direction"}
  <1>1. all = UNION {Directions(rows, k) \cup YearBreachFlags(rows, k) : k \in TrendKeys(rows)}
    BY TrendsByRule
  <1>2. ASSUME NEW k, NEW u \in Directions(rows, k)
        PROVE  u.rule = "consecutive_direction" /\ u.key = k
    BY DEF Directions
  <1>3. ASSUME NEW k, NEW u \in YearBreachFlags(rows, k)
        PROVE  u.rule # "consecutive_direction"
    <2> DEFINE series == Series(rows, k)
               amounts == [i \in DOMAIN series |-> series[i].amount]
               months(y) == {i \in DOMAIN series : FiscalYear[series[i].period] = y}
               years == {FiscalYear[series[i].period] : i \in DOMAIN series}
               S == {z \in years : YearBreaches(amounts, months(z), Category[k.account])}
               flag(y) == [rule |-> "cumulative_ytd_breach", key |-> k,
                           first |-> series[Min(months(y))].period,
                           latest |-> series[Max(months(y))].period,
                           length |-> Cardinality(months(y))]
    <2>0. YearBreachFlags(rows, k) = {flag(y) : y \in S}
      BY DEF YearBreachFlags
    <2>3. \A y : flag(y).rule = "cumulative_ytd_breach"
      OBVIOUS
    <2> HIDE DEF flag, S
    <2>1. u.rule = "cumulative_ytd_breach"
      BY <2>0, <2>3
    <2> QED
      BY <2>1
  <1> HIDE DEF all
  <1>4. mine = IF key \in TrendKeys(rows) THEN Directions(rows, key) ELSE {}
    BY <1>1, <1>2, <1>3
  <1>5. {Stretch(t) : t \in Directions(rows, key)} = StreakStretches(rows, key)
    <2> DEFINE flag(s) == [rule |-> "consecutive_direction", key |-> key,
                           first |-> Series(rows, key)[s[1]].period,
                           latest |-> Series(rows, key)[s[2]].period,
                           length |-> s[2] - s[1] + 1]
               S == Streaks(Variances(rows, key))
    <2>1. Directions(rows, key) = {flag(s) : s \in S}
      BY DEF Directions
    <2>2. \A s \in S : Stretch(flag(s))
             = <<Series(rows, key)[s[1]].period, Series(rows, key)[s[2]].period>>
      BY DEF Stretch
    <2> HIDE DEF flag, S
    <2>3. {Stretch(t) : t \in {flag(s) : s \in S}}
            = {<<Series(rows, key)[s[1]].period, Series(rows, key)[s[2]].period>> : s \in S}
      BY <2>2
    <2> QED
      BY <2>1, <2>3 DEF StreakStretches, S
  <1>6. Stretches(all, key) = {Stretch(t) : t \in mine}
    BY DEF Stretches
  <1> HIDE DEF mine
  <1>7. Stretches(all, key) = IF key \in TrendKeys(rows) THEN StreakStretches(rows, key) ELSE {}
    BY <1>4, <1>5, <1>6
  <1> QED
    BY <1>7 DEF all

BudgetKey(key, p) == Key(key.account, key.slice, p, "MTD", "BUDGET")

\* The months of a key are the periods in order, each with its amount.
LEMMA SeriesOfKey ==
    ASSUME NEW rows, MonthTable(rows), EveryMonth(rows), NEW all, all = QtdYtd(rows),
           NEW key \in TrendKeys(all),
           NEW n, n = Cardinality(Periods), NEW at, at = Ascending(Periods)
    PROVE  /\ \A p \in Periods : /\ BudgetKey(key, p) \in DOMAIN all
                                 /\ all[BudgetKey(key, p)].variance \in Int
           /\ DOMAIN Series(all, key) = 1..n
           /\ \A i \in 1..n : /\ Series(all, key)[i].period = at[i]
                              /\ Series(all, key)[i].amount = all[BudgetKey(key, at[i])]
  <1>1. /\ \A k \in DOMAIN all : k \in AllKeys
        /\ \A k \in DOMAIN all : \A f \in AmountFields : all[k][f] \in Int
        /\ DOMAIN rows = {k \in DOMAIN all : k.view = "MTD"}
    BY AllRows
  <1>2. PICK j \in DOMAIN all : j.view = "MTD" /\ j.base = "BUDGET" /\ DimKey(j) = key
    BY DEF TrendKeys
  <1>3. j \in DOMAIN rows /\ j \in AllKeys
    BY <1>1, <1>2
  <1>4. key.account = j.account /\ key.slice = j.slice
    BY <1>2 DEF DimKey
  <1>5. ASSUME NEW p \in Periods
        PROVE  BudgetKey(key, p) \in DOMAIN rows
    <2>1. [j EXCEPT !.period = p] \in DOMAIN rows
      BY <1>2, <1>3 DEF EveryMonth
    <2>2. [j EXCEPT !.period = p] = BudgetKey(key, p)
      BY <1>2, <1>3, <1>4 DEF AllKeys, BudgetKey, Key
    <2> QED
      BY <2>1, <2>2
  <1>6. \A p \in Periods : BudgetKey(key, p) \in DOMAIN all /\ all[BudgetKey(key, p)].variance \in Int
    BY <1>1, <1>5 DEF AmountFields
  <1> DEFINE months == {k.period : k \in {i \in DOMAIN all :
                            DimKey(i) = key /\ i.view = "MTD" /\ i.base = "BUDGET"}}
  <1>7. months = Periods
    <2>1. ASSUME NEW p \in Periods PROVE p \in months
      <3>1. BudgetKey(key, p) \in DOMAIN all
        BY <1>6
      <3>2. /\ BudgetKey(key, p).period = p /\ BudgetKey(key, p).view = "MTD"
            /\ BudgetKey(key, p).base = "BUDGET" /\ DimKey(BudgetKey(key, p)) = key
        BY <1>2, <1>4 DEF BudgetKey, Key, DimKey
      <3> QED
        BY <3>1, <3>2
    <2>2. ASSUME NEW p \in months PROVE p \in Periods
      BY <1>1 DEF AllKeys
    <2> QED
      BY <2>1, <2>2
  <1>8. Series(all, key) = [i \in DOMAIN Ascending(months) |->
                               [period |-> Ascending(months)[i],
                                amount |-> all[BudgetKey(key, Ascending(months)[i])]]]
    BY DEF Series, BudgetKey
  <1> HIDE DEF months
  <1>9. DOMAIN at = 1..n
    BY PeriodsInOrder
  <1> QED
    BY <1>6, <1>7, <1>8, <1>9

LongStretches(sign) ==
    {pq \in Periods \X Periods :
        /\ pq[1] <= pq[2] /\ Cardinality(PeriodsFrom(pq[1], pq[2])) >= MinConsecutive
        /\ RunOf(sign, pq[1], pq[2]) /\ LongestOf(sign, pq[1], pq[2])}

\* The sign of a key's variance in each period, 0 where there is no row.
SignOf(all, key) ==
    [p \in Periods |-> IF BudgetKey(key, p) \in DOMAIN all
                       THEN Sign(all[BudgetKey(key, p)].variance) ELSE 0]

\* Streaks of a table: a key without rows has none, one with rows has one in every period.
LEMMA StreaksOfTable ==
    ASSUME MinConsecutive \in Nat, NEW rows, MonthTable(rows), EveryMonth(rows),
           NEW all, all = QtdYtd(rows), NEW a, NEW s, NEW key, key = [account |-> a, slice |-> s]
    PROVE  Stretches(DetectTrends(all), key) = LongStretches(SignOf(all, key))
  <1> DEFINE sign == SignOf(all, key)
             V == Variances(all, key)
             n == Cardinality(Periods)
             at == Ascending(Periods)
  <1>1. /\ n \in Nat /\ DOMAIN at = 1..n
        /\ \A i \in 1..n : at[i] \in Periods /\ at[i] \in Int
        /\ \A i \in 1..n, j \in 1..n : (i <= j <=> at[i] <= at[j]) /\ (i = j <=> at[i] = at[j])
        /\ \A x \in Periods : \E i \in 1..n : at[i] = x
    BY PeriodsInOrder
  <1>2. CASE key \notin TrendKeys(all)
    <2>1. ASSUME NEW p \in Periods PROVE sign[p] = 0
      <3>1. BudgetKey(key, p) \notin DOMAIN all
        <4>1. /\ BudgetKey(key, p).view = "MTD" /\ BudgetKey(key, p).base = "BUDGET"
              /\ DimKey(BudgetKey(key, p)) = key
          BY DEF BudgetKey, Key, DimKey
        <4> QED
          BY <1>2, <4>1 DEF TrendKeys
      <3> QED
        BY <3>1 DEF SignOf
    <2> HIDE DEF sign
    <2>2. LongStretches(sign) = {}
      BY <2>1 DEF LongStretches, RunOf
    <2>3. Stretches(DetectTrends(all), key) = {}
      BY <1>2, StretchesOfKey
    <2> QED
      BY <2>2, <2>3 DEF sign
  <1>3. CASE key \in TrendKeys(all)
    <2>1. /\ \A p \in Periods : /\ BudgetKey(key, p) \in DOMAIN all
                                /\ all[BudgetKey(key, p)].variance \in Int
          /\ DOMAIN Series(all, key) = 1..n
          /\ \A i \in 1..n : /\ Series(all, key)[i].period = at[i]
                             /\ Series(all, key)[i].amount = all[BudgetKey(key, at[i])]
      BY <1>3, SeriesOfKey
    <2>2. V = [i \in 1..n |-> Series(all, key)[i].amount.variance]
      BY <2>1 DEF Variances
    <2>3. \A i \in 1..n : V[i] \in Int /\ V[i] = all[BudgetKey(key, at[i])].variance
      BY <1>1, <2>1, <2>2
    <2>4. V \in Seq(Int) /\ Len(V) = n
      <3> HIDE DEF V, n
      <3>1. V \in [1..n -> Int]
        BY <2>2, <2>3
      <3> QED
        BY <1>1, <3>1
    <2>5. \A i \in 1..n : Sign(V[i]) = sign[at[i]]
      BY <1>1, <2>1, <2>3 DEF SignOf
    <2>6. n = Cardinality(Periods) /\ at = Ascending(Periods)
      OBVIOUS
    <2> HIDE DEF V, n, at, sign
    <2>7. /\ \A z \in Streaks(V) : z \in (1..n) \X (1..n)
          /\ \A p \in 1..n, q \in 1..n : <<p, q>> \in Streaks(V) <=> LongestRun(V, p, q)
      BY <2>4, StreaksFound
    <2>8. ASSUME NEW p \in 1..n, NEW q \in 1..n
          PROVE  <<p, q>> \in Streaks(V) <=> <<at[p], at[q]>> \in LongStretches(sign)
      <3>1. LongestRun(V, p, q) <=>
               /\ at[p] <= at[q] /\ Cardinality(PeriodsFrom(at[p], at[q])) >= MinConsecutive
               /\ RunOf(sign, at[p], at[q]) /\ LongestOf(sign, at[p], at[q])
        BY <2>4, <2>5, <2>6, RunsOfPeriods
      <3>2. <<at[p], at[q]>> \in LongStretches(sign) <=>
               /\ at[p] <= at[q] /\ Cardinality(PeriodsFrom(at[p], at[q])) >= MinConsecutive
               /\ RunOf(sign, at[p], at[q]) /\ LongestOf(sign, at[p], at[q])
        BY <1>1 DEF LongStretches
      <3> QED
        BY <2>7, <3>1, <3>2
    <2>9. StreakStretches(all, key) = {<<at[z[1]], at[z[2]]>> : z \in Streaks(V)}
      <3>1. \A z \in Streaks(V) : /\ Series(all, key)[z[1]].period = at[z[1]]
                                  /\ Series(all, key)[z[2]].period = at[z[2]]
        BY <2>1, <2>7
      <3>2. StreakStretches(all, key)
              = {<<Series(all, key)[z[1]].period, Series(all, key)[z[2]].period>> : z \in Streaks(V)}
        BY DEF StreakStretches, V
      <3> QED
        BY <3>1, <3>2
    <2>10. {<<at[z[1]], at[z[2]]>> : z \in Streaks(V)} = LongStretches(sign)
      <3>1. ASSUME NEW z \in Streaks(V) PROVE <<at[z[1]], at[z[2]]>> \in LongStretches(sign)
        <4>1. z = <<z[1], z[2]>> /\ z[1] \in 1..n /\ z[2] \in 1..n
          BY <2>7
        <4> QED
          BY <2>8, <4>1
      <3>2. ASSUME NEW x \in LongStretches(sign)
            PROVE  \E z \in Streaks(V) : x = <<at[z[1]], at[z[2]]>>
        <4>1. x = <<x[1], x[2]>> /\ x[1] \in Periods /\ x[2] \in Periods
          BY DEF LongStretches
        <4>2. PICK p \in 1..n : at[p] = x[1]
          BY <1>1, <4>1
        <4>3. PICK q \in 1..n : at[q] = x[2]
          BY <1>1, <4>1
        <4>4. <<p, q>> \in Streaks(V)
          BY <2>8, <4>1, <4>2, <4>3
        <4>5. <<p, q>>[1] = p /\ <<p, q>>[2] = q
          OBVIOUS
        <4> QED
          BY <4>1, <4>2, <4>3, <4>4, <4>5
      <3> QED
        BY <3>1, <3>2
    <2>11. Stretches(DetectTrends(all), key) = StreakStretches(all, key)
      BY <1>3, StretchesOfKey
    <2> QED
      BY <2>9, <2>10, <2>11 DEF sign
  <1> QED
    BY <1>2, <1>3

\* The stretches of months of an account and slice, as the property states them.
WellFound(all, trends, a, s) ==
    LET key == [account |-> a, slice |-> s]
        sign(p) == IF Key(a, s, p, "MTD", "BUDGET") \in DOMAIN all
                   THEN Sign(all[Key(a, s, p, "MTD", "BUDGET")].variance) ELSE 0
        months(p, q) == {r \in Periods : p <= r /\ r <= q}
        run(p, q) == sign(p) # 0 /\ \A r \in months(p, q) : sign(r) = sign(p)
        longest(p, q) == \A r, t \in Periods :
                            r <= p /\ q <= t /\ run(r, t) => r = p /\ t = q
    IN  {<<t.first, t.latest>> : t \in {u \in trends :
             u.key = key /\ u.rule = "consecutive_direction"}}
        = {pq \in Periods \X Periods :
              /\ pq[1] <= pq[2] /\ Cardinality(months(pq[1], pq[2])) >= MinConsecutive
              /\ run(pq[1], pq[2]) /\ longest(pq[1], pq[2])}

\* The streaks flagged for a key are the long stretches of its signs.
LEMMA StretchesTold ==
    ASSUME NEW all, NEW trends, NEW a, NEW s, NEW key, key = [account |-> a, slice |-> s],
           Stretches(trends, key) = LongStretches(SignOf(all, key))
    PROVE  WellFound(all, trends, a, s)
  <1> DEFINE sign(p) == IF Key(a, s, p, "MTD", "BUDGET") \in DOMAIN all
                        THEN Sign(all[Key(a, s, p, "MTD", "BUDGET")].variance) ELSE 0
             months(p, q) == {r \in Periods : p <= r /\ r <= q}
             run(p, q) == sign(p) # 0 /\ \A r \in months(p, q) : sign(r) = sign(p)
             longest(p, q) == \A r, t \in Periods :
                                 r <= p /\ q <= t /\ run(r, t) => r = p /\ t = q
             S == SignOf(all, key)
  <1>1. \A p \in Periods : S[p] = sign(p)
    BY DEF SignOf, BudgetKey
  <1>2. \A p, q : months(p, q) = PeriodsFrom(p, q) /\ months(p, q) \subseteq Periods
    BY DEF PeriodsFrom
  <1>3. {<<t.first, t.latest>> : t \in {u \in trends :
                    u.key = key /\ u.rule = "consecutive_direction"}} = Stretches(trends, key)
    BY DEF Stretches, Stretch
  <1> HIDE DEF S, sign, months
  <1>4. \A p \in Periods, q \in Periods : run(p, q) <=> RunOf(S, p, q)
    BY <1>1, <1>2 DEF RunOf
  <1> HIDE DEF run
  <1>5. \A p \in Periods, q \in Periods : longest(p, q) <=> LongestOf(S, p, q)
    BY <1>4 DEF LongestOf
  <1> HIDE DEF longest
  <1>6. {pq \in Periods \X Periods :
                     /\ pq[1] <= pq[2] /\ Cardinality(months(pq[1], pq[2])) >= MinConsecutive
                     /\ run(pq[1], pq[2]) /\ longest(pq[1], pq[2])} = LongStretches(S)
    BY <1>2, <1>4, <1>5 DEF LongStretches
  <1>7. {<<t.first, t.latest>> : t \in {u \in trends :
                    u.key = key /\ u.rule = "consecutive_direction"}}
          = {pq \in Periods \X Periods :
                     /\ pq[1] <= pq[2] /\ Cardinality(months(pq[1], pq[2])) >= MinConsecutive
                     /\ run(pq[1], pq[2]) /\ longest(pq[1], pq[2])}
    BY <1>3, <1>6 DEF S
  <1> QED
    BY <1>7 DEF run, longest, months, sign, WellFound

\* A trend is flagged for the longest stretches of months with variances of one sign and for
\* those only, for any facts whose accounts have a row in every month (trend.py:94-153,
\* synthetic.py:401-406).
THEOREM StreaksWellFound ==
    ASSUME \A b \in Profiles : MonthsComplete(Facts[b])
    PROVE  Spec => []StreaksAreRuns
  <1>1. Init => DetectedInv
    BY DEF Init, DetectedInv
  <1>2. ControlInv /\ DetectedInv /\ [Next]_vars => DetectedInv'
    BY ControlSteps, DetectedSteps
  <1>3. ASSUME ControlInv, DetectedInv PROVE StreaksAreRuns
    <2> SUFFICES ASSUME pc = "pass2", errors = <<>>, NEW a \in Accounts, NEW s \in Slices,
                        NEW key, key = [account |-> a, slice |-> s]
                 PROVE  Stretches(ctx.trends, key) = LongStretches(SignOf(ctx.all, key))
      <3>1. SUFFICES ASSUME pc = "pass2", errors = <<>>
                     PROVE  \A a \in Accounts, s \in Slices : WellFound(ctx.all, ctx.trends, a, s)
        BY DEF StreaksAreRuns, WellFound
      <3> QED
        BY <3>1, StretchesTold
    <2>1. ctx.all = RawVariances(Facts[books]) /\ ctx.trends = DetectTrends(ctx.all)
      BY <1>3 DEF DetectedInv
    <2>2. books \in Profiles
      BY <1>3 DEF ControlInv
    <2> DEFINE rows == MonthRowsOf(books)
    <2>3. MonthTable(rows) /\ ctx.all = QtdYtd(rows)
      BY <2>1, <2>2, RawRows
    <2>4. FactsOK(Facts[books]) /\ MinConsecutive \in Nat
      BY <2>2, EngineAssumption DEF EngineAssumption
    <2>5. EveryMonth(rows)
      BY <2>2, <2>4, MonthsThrough DEF MonthRowsOf
    <2> HIDE DEF rows
    <2>6. Stretches(DetectTrends(ctx.all), key) = LongStretches(SignOf(ctx.all, key))
      BY <2>3, <2>4, <2>5, StreaksOfTable
    <2> QED
      BY <2>1, <2>6
  <1> QED
    BY <1>1, <1>2, <1>3, TablesKept, PTL DEF Spec

===============================================================================
