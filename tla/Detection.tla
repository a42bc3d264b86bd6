------------------------------- MODULE Detection -------------------------------
(***************************************************************************)
(* Netting and trend detection (services/computation/detection/), passes   *)
(* 1.5 and 2.5 of the engine, as operators from the table of all variances *)
(* to sets of flags.  Identifiers and times of the flags are left out.     *)
(***************************************************************************)
EXTENDS Materiality

CONSTANTS
    NettingRatio,       \* netting_ratio_threshold
    Dispersion,         \* child_dispersion_threshold, percentage points
    MinConsecutive      \* consecutive_periods

SumOver(S, Op(_)) == MapThenSumSet(Op, S)

-----------------------------------------------------------------------------
(* Netting *)

\* The amounts of one slice by account: the month against the budget.
SliceAmounts(rows, slice, period) ==
    LET keys == {k \in DOMAIN rows : /\ k.slice = slice /\ k.period = period
                                     /\ k.view = "MTD" /\ k.base = "BUDGET"}
    IN  [a \in {k.account : k \in keys} |-> rows[Key(a, slice, period, "MTD", "BUDGET")]]

\* Whether an account is taken for the parent of all other accounts of its
\* slice: its variance is theirs summed up, within a hundredth; when they sum
\* to zero any variance but zero will do.
LooksLikeParent(amounts, a) ==
    LET others == DOMAIN amounts \ {a}
        sum == SumOver(others, LAMBDA c : amounts[c].variance)
        own == amounts[a].variance
    IN  /\ Cardinality(others) >= 2
        /\ own # 0 \/ sum # 0
        /\ sum = 0 \/ Abs(own - sum) * 100 <= Max({Abs(sum), 1})

\* The variances of the other accounts of the slice, whatever their sign, summed up.
Gross(amounts, a) == SumOver(DOMAIN amounts \ {a}, LAMBDA c : Abs(amounts[c].variance))

\* variance_pct in whole points (amounts of the instances divide evenly).
Percent(amount) == (100 * amount.variance) \div amount.comparator

\* np.std(ddof=1) of the children's percentages above the threshold.
Dispersed(amounts, children) ==
    LET valid == {c \in children : amounts[c].comparator # 0}
        n == Cardinality(valid)
        s1 == SumOver(valid, LAMBDA c : Percent(amounts[c]))
        s2 == SumOver(valid, LAMBDA c : Percent(amounts[c]) * Percent(amounts[c]))
    IN  n >= 2 /\ n * s2 - s1 * s1 > Dispersion * Dispersion * n * (n - 1)

\* gross / |net| above the ratio; never for a net of zero.
Offsets(gross, net) == net # 0 /\ gross > NettingRatio * Abs(net)

\* _run_parent_child_checks: checks 1 to 3 for the would-be parents of a slice.
AccountChecks(amounts) ==
    LET parents == {a \in DOMAIN amounts : LooksLikeParent(amounts, a)}
        others(a) == DOMAIN amounts \ {a}
        small == {a \in parents : ~IsMaterial(amounts[a], Category[a])}
        bothWays(a) == /\ \E c \in others(a) : amounts[c].variance > 0
                       /\ \E c \in others(a) : amounts[c].variance < 0
        flag(check, S) == {[check |-> check, parent |-> a, children |-> others(a)] : a \in S}
    IN  flag("gross_offset", {a \in small : Offsets(Gross(amounts, a), amounts[a].variance)})
          \cup flag("dispersion", {a \in parents : Dispersed(amounts, others(a))})
          \cup flag("directional_split", {a \in small : bothWays(a)})

CostCategories == {"COGS", "OpEx", "NonOp", "Tax"}

\* _check_cross_account: revenue against cost within a slice.
CrossAccount(amounts) ==
    LET revenue == {a \in DOMAIN amounts : Category[a] = "Revenue"}
        cost == {a \in DOMAIN amounts : Category[a] \in CostCategories}
        r == SumOver(revenue, LAMBDA a : amounts[a].variance)
        c == SumOver(cost, LAMBDA a : amounts[a].variance)
    IN  IF revenue # {} /\ cost # {} /\ Offsets(Abs(r) + Abs(c), r + c)
        THEN {[check |-> "cross_account", parent |-> Null, children |-> revenue \cup cost]}
        ELSE {}

\* detect_netting
DetectNetting(rows, period) ==
    UNION {LET amounts == SliceAmounts(rows, s, period)
               found == (IF Cardinality(DOMAIN amounts) < 2 THEN {}
                         ELSE AccountChecks(amounts)) \cup CrossAccount(amounts)
           IN  {[check |-> f.check, parent |-> f.parent, children |-> f.children,
                 slice |-> s, period |-> period] : f \in found} : s \in Slices}

-----------------------------------------------------------------------------
(* Trends *)

\* The months of one key in order, with its amounts against the budget.
Series(rows, key) ==
    LET months == {k.period : k \in {j \in DOMAIN rows :
                      DimKey(j) = key /\ j.view = "MTD" /\ j.base = "BUDGET"}}
        row(p) == rows[Key(key.account, key.slice, p, "MTD", "BUDGET")]
        ordered == Ascending(months)
    IN  [i \in DOMAIN ordered |-> [period |-> ordered[i], amount |-> row(ordered[i])]]

Sign(n) == IF n > 0 THEN 1 ELSE IF n < 0 THEN -1 ELSE 0

\* A wrong streak step: a month without variance goes on with the streak.
NextStreak_ZeroGoesOn(s, i, amount) ==
    LET sign == Sign(amount)
        ends == sign # s.sign /\ sign # 0
    IN  [start |-> IF ends THEN i ELSE s.start,
         sign |-> IF sign = 0 THEN s.sign ELSE sign,
         found |-> IF ends /\ s.sign # 0 /\ i - s.start >= MinConsecutive
                   THEN s.found \cup {<<s.start, i - 1>>} ELSE s.found]

\* One step of the loop of _check_consecutive_direction: a change of sign, or a
\* month without variance, ends the streak; sign 0 stands for None.
NextStreak(s, i, amount) ==
    LET sign == Sign(amount)
        ends == sign # s.sign \/ sign = 0
    IN  [start |-> IF sign = 0 THEN i + 1 ELSE IF ends THEN i ELSE s.start,
         sign |-> sign,
         found |-> IF ends /\ s.sign # 0 /\ i - s.start >= MinConsecutive
                   THEN s.found \cup {<<s.start, i - 1>>} ELSE s.found]

\* _check_consecutive_direction: the streaks of a sequence of amounts.
Streaks(amounts) ==
    LET n == Len(amounts)
        scan[i \in 0..n] == IF i = 0 THEN [start |-> 1, sign |-> 0, found |-> {}]
                            ELSE NextStreak(scan[i - 1], i, amounts[i])
        s == scan[n]
    IN  IF n < MinConsecutive THEN {}
        ELSE s.found \cup IF s.sign # 0 /\ n + 1 - s.start >= MinConsecutive
                          THEN {<<s.start, n>>} ELSE {}

\* np.mean of the percentages of a year, compared with the threshold.
MeanPercentBreach(amounts, I, percent) ==
    LET valid == {i \in I : amounts[i].comparator # 0}
    IN  valid # {} /\ Abs(SumOver(valid, LAMBDA i : Percent(amounts[i])))
                         >= percent * Cardinality(valid)

\* _check_cumulative_ytd_breach: no month of the year is material, their sum is.
YearBreaches(amounts, I, category) ==
    LET t == GetThresholds(category, Null, Null, FALSE)
    IN  /\ \A i \in I : ~IsMaterial(amounts[i], category)
        /\ \/ Abs(SumOver(I, LAMBDA i : amounts[i].variance)) >= t.abs
           \/ MeanPercentBreach(amounts, I, t.pct)

\* detect_trends: over all months the data has, before and after the period
\* the engine runs for.
DetectTrends(rows) ==
    LET keys == {DimKey(k) : k \in {j \in DOMAIN rows : j.view = "MTD" /\ j.base = "BUDGET"}}
        flagsOf(key) ==
            LET series == Series(rows, key)
                amounts == [i \in DOMAIN series |-> series[i].amount]
                variances == [i \in DOMAIN series |-> series[i].amount.variance]
                period(i) == series[i].period
                years == {FiscalYear[period(i)] : i \in DOMAIN series}
                months(y) == {i \in DOMAIN series : FiscalYear[period(i)] = y}
            IN  {[rule |-> "consecutive_direction", key |-> key,
                  first |-> period(s[1]), latest |-> period(s[2]),
                  length |-> s[2] - s[1] + 1] : s \in Streaks(variances)}
                \cup {[rule |-> "cumulative_ytd_breach", key |-> key,
                       first |-> period(Min(months(y))), latest |-> period(Max(months(y))),
                       length |-> Cardinality(months(y))] :
                         y \in {z \in years : YearBreaches(amounts, months(z), Category[key.account])}}
    IN  UNION {flagsOf(key) : key \in keys}

===============================================================================
