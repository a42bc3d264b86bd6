---------------------------- MODULE MCEnginePasses ----------------------------
(***************************************************************************)
(* A small company: revenue rev of two leaf accounts, costs of one, opex   *)
(* on its own, gross profit and EBITDA, which comes before gross profit in *)
(* the table of accounts; two business units with a slice each.  Periods   *)
(* are months: 2 is a year before 14; 13 and 14 are of one quarter, 16 of  *)
(* the next.  Amounts divide evenly into percentages.                      *)
(***************************************************************************)
EXTENDS EnginePasses

CONSTANTS ebitda, rev, r1, r2, grossProfit, costs, c1, opex, east, west

AccountRows == <<ebitda, rev, r1, r2, grossProfit, costs, c1, opex>>
ParentOf == r1 :> rev @@ r2 :> rev @@ c1 :> costs
            @@ [a \in {ebitda, rev, grossProfit, costs, opex} |-> Null]
CategoryOf == [a \in {rev, r1, r2} |-> "Revenue"] @@ [a \in {costs, c1} |-> "COGS"]
              @@ opex :> "OpEx" @@ [a \in {grossProfit, ebitda} |-> Null]
Formulas == grossProfit :> [op |-> "minus", plus |-> {rev}, minus |-> {costs}]
            @@ ebitda :> [op |-> "minus", plus |-> {grossProfit}, minus |-> {opex}]
CalculatedAccounts == {grossProfit, ebitda}
SliceRows == <<east, west>>
Itself == [s \in {east, west} |-> s]
Nodes == [s \in {east, west} |-> [geo |-> s, lob |-> "all"]]
Months == {2, 13, 14, 16}
YearOf == [p \in Months |-> (p - 1) \div 12]
QuarterOf == [p \in Months |-> ((p - 1) % 12) \div 3]
BaseKeys == <<"BUDGET", "PRIOR_YEAR">>

Global == [abs |-> 100, pct |-> 10]
DomainOverrides == "Revenue" :> [abs |-> 120, pct |-> Null]
RoleOverrides == [r \in {} |-> Global]
Sections == "Revenue" :> {rev} @@ "Costs" :> {costs, opex}
Assumptions == 1 :> ("Revenue" :> 3)
Notes == [p \in Months |-> p = 14]

\* What an account booked in a month, over or under its budget.
Booked ==
    [offsets |-> r1 :> (2 :> 80 @@ 13 :> 80 @@ 14 :> 80 @@ 16 :> 0)
                 @@ r2 :> (2 :> -40 @@ 13 :> 0 @@ 14 :> -40 @@ 16 :> 0)
                 @@ c1 :> (2 :> -120 @@ 13 :> -120 @@ 14 :> -120 @@ 16 :> -120)
                 @@ opex :> (2 :> 40 @@ 13 :> 0 @@ 14 :> 40 @@ 16 :> 40),
     growth |-> r1 :> (2 :> 180 @@ 13 :> 160 @@ 14 :> 180 @@ 16 :> 180)
                @@ r2 :> (2 :> 20 @@ 13 :> 0 @@ 14 :> 20 @@ 16 :> 20)
                @@ c1 :> (2 :> 100 @@ 13 :> 120 @@ 14 :> 80 @@ 16 :> 100)
                @@ opex :> (2 :> -20 @@ 13 :> 40 @@ 14 :> 0 @@ 16 :> 20)]

BudgetOf == [a \in {r1, r2, c1} |-> 1000] @@ opex :> 500

\* The west books half of what the east does.
Ledger ==
    [profile \in DOMAIN Booked |->
        [f \in [account : {r1, r2, c1, opex}, slice : {east, west}, period : Months] |->
            LET over == Booked[profile][f.account][f.period]
                            \div (IF f.slice = east THEN 1 ELSE 2)
            IN  [actual |-> BudgetOf[f.account] + over,
                 comparator |-> [BUDGET |-> BudgetOf[f.account],
                                 PRIOR_YEAR |-> IF f.period = 2 THEN Null
                                                ELSE BudgetOf[f.account] - 40],
                 fx |-> IF f.account = r1 /\ f.period = 14 THEN 7 ELSE Null]]]

ASSUME \A b \in {"offsets", "growth"} : MonthsComplete(Ledger[b])

Asked == {[mode |-> "full", periods |-> <<13, 14>>, llm |-> FALSE],
          [mode |-> "full", periods |-> <<14>>, llm |-> TRUE],
          [mode |-> "a", periods |-> <<14>>, llm |-> FALSE],
          [mode |-> "b", periods |-> <<14>>, llm |-> FALSE]}

===============================================================================
