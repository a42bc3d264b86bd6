------------------------------- MODULE MCCascade -------------------------------
(***************************************************************************)
(* Two units with a slice each under one country, two months of one        *)
(* quarter, and two savings of the engine: after the first the books are   *)
(* changed and the cost accounts fall below the thresholds in the west.     *)
(***************************************************************************)
EXTENDS Cascade

CONSTANTS company, rev, r1, r2, costs, c1, tax, grossProfit, east, west

AccountRows == <<company, rev, r1, r2, costs, c1, grossProfit, tax>>
ParentOf == company :> Null @@ r1 :> rev @@ r2 :> rev @@ c1 :> costs
            @@ [a \in {rev, costs, tax, grossProfit} |-> company]
CategoryOf == [a \in {rev, r1, r2} |-> "Revenue"] @@ [a \in {costs, c1} |-> "COGS"]
              @@ tax :> "Tax" @@ [a \in {company, grossProfit} |-> Null]
Formulas == grossProfit :> [op |-> "minus", plus |-> {rev}, minus |-> {costs}]
CalculatedAccounts == {grossProfit}
SliceRows == <<east, west>>
Itself == [s \in {east, west} |-> s]
Nodes == [s \in {east, west} |-> [geo |-> s, lob |-> IF s = east THEN "corp" ELSE "retail"]]
Hierarchy == [geo |-> ("world" :> Null @@ "us" :> "world" @@ east :> "us" @@ west :> "us"),
              lob |-> ("all" :> Null @@ "corp" :> "all" @@ "retail" :> "all")]
OneYear == [p \in {1, 2} |-> 0]
BaseKeys == <<"BUDGET", "FORECAST">>
Cards == <<rev, costs, grossProfit>>

Row(a, s, p, view, base) == Key(a, s, p, view, base)

\* Over or under the budget, in the east; the west books half.
Booked(v) == IF v = 1 THEN r1 :> 60 @@ r2 :> -20 @@ c1 :> 40 @@ tax :> 30
             ELSE r1 :> 20 @@ r2 :> -40 @@ c1 :> 10 @@ tax :> 30

OverBudget(v, a) == CASE a = company -> Booked(v)[tax]
                [] a = rev -> Booked(v)[r1] + Booked(v)[r2]
                [] a = costs -> Booked(v)[c1]
                [] a = grossProfit -> Booked(v)[r1] + Booked(v)[r2] - Booked(v)[c1]
                [] OTHER -> Booked(v)[a]

Amount(v, k) ==
    LET n == (OverBudget(v, k.account) \div (IF k.slice = east THEN 1 ELSE 2))
             * (IF k.view = "QTD" THEN 2 ELSE 1) + (IF k.base = "FORECAST" THEN 5 ELSE 0)
    IN  [actual |-> 400 + n, comparator |-> 400, variance |-> n]

Kept(v) ==
    ({Row(a, s, 2, "MTD", "BUDGET") : a \in ToSet(AccountRows), s \in {east, west}}
     \cup {Row(a, s, 2, "QTD", "BUDGET") : a \in {r1, rev}, s \in {east, west}}
     \cup {Row(a, east, 1, "MTD", "BUDGET") : a \in {r1, c1, costs}}
     \cup {Row(rev, east, 2, "MTD", "FORECAST")})
    \ (IF v = 1 THEN {} ELSE {Row(a, west, 2, "MTD", "BUDGET") : a \in {c1, costs}})

Flag(a, s, length, latest, cumulative) ==
    [key |-> [account |-> a, slice |-> s], length |-> length, latest |-> latest,
     cumulative |-> cumulative]

Output(v) ==
    LET month(a, s) == Row(a, s, 2, "MTD", "BUDGET")
        pair(j, k, n) == [type |-> "within_period", a |-> j, b |-> k, score |-> n]
    IN  [NoRows EXCEPT
            !.material = [k \in Kept(v) |-> Amount(v, k)],
            !.flags = [k \in Kept(v) |-> [material |-> Abs(Amount(v, k).variance) >= 30,
                                          netted |-> k.account = r2, trending |-> FALSE]],
            !.source = [k \in Kept(v) |-> IF k.slice = east THEN "llm" ELSE "generated"],
            !.review = [k \in Kept(v) |-> "AI_DRAFT"],
            !.decomposition = [k \in {j \in Kept(v) : j.account \in {r1, c1}} |-> "split"],
            !.correlations = {pair(month(r1, east), month(rev, east), 90),
                              pair(month(rev, east), month(c1, east), 70),
                              pair(month(c1, east), month(r1, west), 60),
                              pair(month(rev, west), month(r1, west), 40),
                              pair(Row(r1, east, 1, "MTD", "BUDGET"), month(r1, east), 80)},
            !.netting = {[parent |-> rev, slice |-> s, period |-> 2, gross |-> g, net |-> 10,
                          amounts |-> r1 :> g @@ r2 :> 10 - g] : <<s, g>> \in
                             {<<east, 80>>, <<west, 40>>}},
            !.trends = {Flag(r1, east, 4, 2, 50), Flag(c1, east, 3, 2, 200),
                        Flag(c1, west, 6, 1, 30), Flag(r2, west, 3, 2, -60)}]

Saved == <<Output(1), Output(2)>>

\* A leaf and its roll-up in one month, a leaf of another, a row of the quarter.
Changed == {Row(r1, east, 2, "MTD", "BUDGET"), Row(rev, west, 2, "MTD", "BUDGET"),
            Row(c1, east, 1, "MTD", "BUDGET"), Row(r1, east, 2, "QTD", "BUDGET")}

===============================================================================
