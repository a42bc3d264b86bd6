------------------------------ MODULE Correlation ------------------------------
(***************************************************************************)
(* Pass 4 of the engine (pass4_correlation.py): pairs of material month    *)
(* rows that may have to do with one another, within the period and        *)
(* against the rows of other periods.  Scores are in hundredths.  A row is *)
(* a record of its key and its variance.                                   *)
(***************************************************************************)
EXTENDS VarianceMath

CONSTANTS
    MinScore,           \* _MIN_SCORE, hundredths
    MaxPairs,           \* _MAX_PAIRS, per base
    MaxCrossPairs       \* _MAX_CROSS_PERIOD_PAIRS, per type and base

ASSUME CorrelationOK == MinScore \in Nat /\ MaxPairs \in Nat /\ MaxCrossPairs \in Nat

\* 100 * e^(i/10)
Exponential == <<111, 122, 135, 149, 165, 182, 201, 223, 246, 272>>

\* _magnitude_similarity: 1 - |ln(a/b)|, between 0 and 1, in steps of a tenth.
MagnitudeSimilarity(a, b) ==
    LET large == Max({Abs(a), Abs(b)})
        small == Min({Abs(a), Abs(b)})
    IN  IF small = 0 THEN 0
        ELSE 100 - 10 * Cardinality({i \in DOMAIN Exponential :
                                        large * 100 >= small * Exponential[i]})

\* _direction_match
DirectionMatch(a, b) == IF a * b > 0 THEN 100 ELSE 0

\* _dimension_overlap: the share of _DIM_COLS two rows agree on.
DimensionOverlap(k, j) ==
    LET dims == DOMAIN NodeOf[k.slice]
        same == {d \in dims : NodeOf[k.slice][d] = NodeOf[j.slice][d]}
        one(b) == IF b THEN 1 ELSE 0
    IN  (100 * (Cardinality(same) + one(k.account = j.account)
                + one(BusinessUnit[k.slice] = BusinessUnit[j.slice])))
            \div (Cardinality(dims) + 2)

\* _get_prior_period and _get_yoy_period, on month numbers.
PriorPeriod(p) == p - 1
YearAgo(p) == p - 12

\* The first n of a set of scored pairs; the sort is by score and stable.
Top(pairs, n) ==
    LET before(p, q) == p.score > q.score \/ (p.score = q.score /\ p.order < q.order)
    IN  {p \in pairs : Cardinality({q \in pairs : before(q, p)}) < n}

CrossKey(row) == <<row.key.account, BusinessUnit[row.key.slice]>>

\* The record of a pair; a is the earlier row.
Pair(type, a, b, score, order) ==
    [type |-> type, a |-> a.key, b |-> b.key, base |-> b.key.base,
     same |-> DirectionMatch(a.variance, b.variance) = 100, score |-> score, order |-> order]

-----------------------------------------------------------------------------

\* Part 1 of find_correlations: every pair of rows of one base.
WithinPeriod(rows) ==
    LET score(i, j) == (40 * DimensionOverlap(rows[i].key, rows[j].key)
                        + 30 * DirectionMatch(rows[i].variance, rows[j].variance)
                        + 30 * MagnitudeSimilarity(rows[i].variance, rows[j].variance)) \div 100
        pairs == {Pair("within_period", rows[ij[1]], rows[ij[2]], score(ij[1], ij[2]),
                       ij[1] * Len(rows) + ij[2]) :
                     ij \in {x \in (DOMAIN rows) \X (DOMAIN rows) : x[1] < x[2]}}
    IN  Top({p \in pairs : p.score >= MinScore}, MaxPairs)

\* current_keys: of the rows with one account and business unit the last is kept.
LastOfKey(rows) ==
    {rows[i] : i \in {j \in DOMAIN rows :
        \A k \in DOMAIN rows : CrossKey(rows[k]) = CrossKey(rows[j]) => k <= j}}

FirstOfKey(rows, row) == Min({i \in DOMAIN rows : CrossKey(rows[i]) = CrossKey(row)})

\* Rows by period, latest first; the order of the table within a period.
LatestFirst(rows) ==
    SortSeq([i \in DOMAIN rows |-> <<i, rows[i]>>],
            LAMBDA x, y : \/ x[2].key.period > y[2].key.period
                          \/ x[2].key.period = y[2].key.period /\ x[1] < y[1])

\* The rows at the front of a key's earlier rows that have the sign of the current one.
StreakOf(earlier, row) ==
    LET mine == LatestFirst(SelectSeq(earlier, LAMBDA r : CrossKey(r) = CrossKey(row)))
        streak == {n \in DOMAIN mine : \A i \in 1..n : mine[i][2].variance * row.variance > 0}
    IN  [i \in streak |-> mine[i][2]]

\* _find_persistent_variances: earlier rows with the sign of the current one, at
\* least two of them.  It is rows that are counted, whatever their month.
FindPersistentVariances(current, earlier) ==
    LET found == {row \in LastOfKey(current) : Len(StreakOf(earlier, row)) >= 2}
        first(row) == Last(StreakOf(earlier, row))
        score(row) == (50 * Min({6, Len(StreakOf(earlier, row))})) \div 6
                      + (30 * MagnitudeSimilarity(row.variance, first(row).variance)) \div 100 + 20
    IN  Top({Pair("persistent", first(row), row, score(row), FirstOfKey(current, row)) :
                row \in found}, MaxCrossPairs)

\* _find_lead_lag_patterns: another account of the business unit, a month before.
FindLeadLagPatterns(current, earlier, period) ==
    LET score(a, b) == (35 * DirectionMatch(a.variance, b.variance)
                        + 35 * MagnitudeSimilarity(a.variance, b.variance)
                        + 30 * DimensionOverlap(a.key, b.key)) \div 100
        related(a, b) == /\ a.key.period = PriorPeriod(period)
                         /\ BusinessUnit[a.key.slice] = BusinessUnit[b.key.slice]
                         /\ a.key.account # b.key.account
                         /\ a.variance # 0 /\ b.variance # 0
        pairs == {Pair("lead_lag", earlier[ij[1]], current[ij[2]],
                       score(earlier[ij[1]], current[ij[2]]), ij[1] * Len(current) + ij[2]) :
                     ij \in {x \in (DOMAIN earlier) \X (DOMAIN current) :
                                related(earlier[x[1]], current[x[2]])}}
    IN  Top({p \in pairs : p.score >= MinScore}, MaxCrossPairs)

\* _find_yoy_echoes: the same account and business unit, twelve months before.
FindYoyEchoes(current, earlier, period) ==
    LET yearAgo == LastOfKey(SelectSeq(earlier, LAMBDA r : r.key.period = YearAgo(period)))
        score(a, b) == (40 * DirectionMatch(a.variance, b.variance)
                        + 40 * MagnitudeSimilarity(a.variance, b.variance)) \div 100 + 20
        pairs == {Pair("yoy_echo", ai[1], current[ai[2]], score(ai[1], current[ai[2]]), ai[2]) :
                     ai \in {x \in yearAgo \X (DOMAIN current) :
                                /\ CrossKey(x[1]) = CrossKey(current[x[2]])
                                /\ x[1].variance # 0 /\ current[x[2]].variance # 0}}
    IN  Top({p \in pairs : p.score >= MinScore}, MaxCrossPairs)

\* find_correlations: every base that has month rows, on its own.  The
\* hypotheses of the language model are text and left out.
FindCorrelations(material, earlier, period) ==
    LET month(rows, b) == SelectSeq(rows, LAMBDA r : r.key.view = "MTD" /\ r.key.base = b)
        ofBase(b) == WithinPeriod(month(material, b))
                     \cup FindPersistentVariances(month(material, b), month(earlier, b))
                     \cup FindLeadLagPatterns(month(material, b), month(earlier, b), period)
                     \cup FindYoyEchoes(month(material, b), month(earlier, b), period)
    IN  UNION {ofBase(b) : b \in Bases}

===============================================================================
