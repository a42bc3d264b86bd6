----------------------------- MODULE CascadeProofs -----------------------------
(***************************************************************************)
(* Theorems about Cascade, for any chart of accounts, any tables the engine *)
(* saves and any number of changes, cascades by hand, reloads and failures. *)
(***************************************************************************)
EXTENDS Cascade, VarianceMathProofs

-----------------------------------------------------------------------------
(* Shapes *)

TimerStates == {"sleeping", "cancelled", "done"}
Timers == [row : ChangedRows, period : Periods, state : TimerStates]

Versions == DOMAIN Outputs

\* What any cascade may have to make again.
Entries ==
    UNION {GetCascadeChain(Graph(x[1], x[2]), x[3]) :
              x \in Versions \X Periods \X ChangedRows}

\* A result either made or skipped its entries, or all of them are errors.
Results ==
    {h \in [trigger : ChangedRows, period : Periods, rows : {0} \cup Versions,
            graph : Versions, regenerated : SUBSET Entries, skipped : SUBSET Entries,
            errors : SUBSET Entries] :
        h.errors = {} \/ h.regenerated \cup h.skipped = {}}

\* The types of the service and of the manager; the metadata has an invariant of its own.
TypeInv ==
    /\ disk \in Versions
    /\ tables \in Versions /\ unread \subseteq Unstable
    /\ graphs \in [Periods -> Versions \cup {Null}]
    /\ timers \in Seq(Timers)
    /\ pending \in [Periods -> DOMAIN timers \cup {Null}]
    /\ triggers \in [Periods -> ChangedRows \cup {Null}]
    /\ history \in Seq(Results)
    /\ Len(history) <= MaxHistory

-----------------------------------------------------------------------------
(* The operators of the manager *)

\* The larger of two numbers.
LEMMA LargerOfTwo ==
    ASSUME NEW m \in Int, NEW n \in Int
    PROVE  Max({m, n}) = IF m >= n THEN m ELSE n
  <1> DEFINE S == {m, n}
             x == IF m >= n THEN m ELSE n
  <1>1. x \in S /\ \A y \in S : x >= y
    OBVIOUS
  <1>2. Max(S) \in S /\ \A y \in S : Max(S) >= y
    BY <1>1 DEF Max
  <1>3. \A y, z \in S : y >= z /\ z >= y => y = z
    OBVIOUS
  <1> QED
    BY <1>1, <1>2, <1>3

\* The history keeps the latest results, as many as it may.
LEMMA RememberedTypes ==
    ASSUME NEW S, history \in Seq(S), NEW result \in S
    PROVE  Remembered(result) \in Seq(S) /\ Len(Remembered(result)) <= MaxHistory
  <1> DEFINE all == Append(history, result)
             from == Max({1, Len(all) - MaxHistory + 1})
  <1>1. all \in Seq(S) /\ Len(all) \in Nat \ {0} /\ MaxHistory \in Nat
    BY AppendProperties, LenProperties, CascadeConstantsOK
  <1> HIDE DEF all
  <1>2. from \in Nat \ {0} /\ from >= 1 /\ from >= Len(all) - MaxHistory + 1
    BY <1>1, LargerOfTwo
  <1> HIDE DEF from
  <1>3. \A i \in from..Len(all) : i \in 1..Len(all)
    BY <1>1, <1>2
  <1>4. SubSeq(all, from, Len(all)) \in Seq(S)
        /\ Len(SubSeq(all, from, Len(all))) = IF from <= Len(all) THEN Len(all) - from + 1 ELSE 0
    BY <1>1, <1>2, <1>3, SubSeqProperties
  <1>5. Remembered(result) = SubSeq(all, from, Len(all))
    BY DEF Remembered, all, from
  <1> QED
    BY <1>1, <1>2, <1>4, <1>5

\* What a cascade reports.
LEMMA ChainResult ==
    ASSUME NEW g \in Versions, NEW v \in {0} \cup Versions, NEW below,
           NEW period \in Periods, NEW k \in ChangedRows
    PROVE  RegenerateChain(g, v, below, period, k, GetCascadeChain(Graph(g, period), k))
               \in Results
  <1> DEFINE chain == GetCascadeChain(Graph(g, period), k)
             h == RegenerateChain(g, v, below, period, k, chain)
  <1>1. chain \in {GetCascadeChain(Graph(x[1], x[2]), x[3]) :
                      x \in Versions \X Periods \X ChangedRows}
    <2>1. <<g, period, k>> \in Versions \X Periods \X ChangedRows
      OBVIOUS
    <2> QED
      BY <2>1
  <1>2. chain \subseteq Entries
    BY <1>1 DEF Entries
  <1> HIDE DEF chain
  <1>3. /\ h.errors \subseteq chain /\ h.regenerated \subseteq chain /\ h.skipped \subseteq chain
        /\ h.errors = {} \/ h.regenerated \cup h.skipped = {}
    BY DEF RegenerateChain
  <1> QED
    BY <1>2, <1>3 DEF RegenerateChain, Results, chain

\* Giving up some timers: the list keeps its length, and a timer its row and period.
LEMMA CancelledTimers ==
    ASSUME timers \in Seq(Timers), NEW S
    PROVE  /\ Cancelled(S) \in Seq(Timers) /\ Len(Cancelled(S)) = Len(timers)
           /\ DOMAIN Cancelled(S) = DOMAIN timers
           /\ DOMAIN timers = 1..Len(timers) /\ Len(timers) \in Nat
           /\ \A i \in DOMAIN timers :
                 /\ Cancelled(S)[i].row = timers[i].row
                 /\ Cancelled(S)[i].period = timers[i].period
                 /\ Cancelled(S)[i].state = IF i \in S THEN "cancelled" ELSE timers[i].state
  <1>1. DOMAIN timers = 1..Len(timers) /\ Len(timers) \in Nat
    BY LenProperties
  <1>2. \A i \in DOMAIN timers : timers[i] \in Timers
    BY <1>1, ElementOfSeq
  <1>3. \A i \in DOMAIN timers : [timers[i] EXCEPT !.state = "cancelled"] \in Timers
    BY <1>2 DEF Timers, TimerStates
  <1>4. Cancelled(S) = [i \in 1..Len(timers) |->
                          IF i \in S THEN [timers[i] EXCEPT !.state = "cancelled"] ELSE timers[i]]
    BY <1>1 DEF Cancelled
  <1>5. \A i \in DOMAIN timers : Cancelled(S)[i] \in Timers
    BY <1>1, <1>2, <1>3, <1>4
  <1>6. Cancelled(S) \in [1..Len(timers) -> Timers]
    BY <1>1, <1>4, <1>5
  <1>7. Cancelled(S) \in Seq(Timers) /\ Len(Cancelled(S)) = Len(timers)
        /\ DOMAIN Cancelled(S) = DOMAIN timers
    BY <1>1, <1>6, SeqDef, LenProperties
  <1>8. \A i \in DOMAIN timers :
           /\ Cancelled(S)[i].row = timers[i].row
           /\ Cancelled(S)[i].period = timers[i].period
           /\ Cancelled(S)[i].state = IF i \in S THEN "cancelled" ELSE timers[i].state
    BY <1>1, <1>2, <1>4 DEF Timers
  <1> QED
    BY <1>1, <1>7, <1>8

\* A timer that wakes is done, and the others go on.
LEMMA WakesTimers ==
    ASSUME timers \in Seq(Timers), NEW i, Wakes(i)
    PROVE  /\ timers' \in Seq(Timers) /\ DOMAIN timers' = DOMAIN timers
           /\ DOMAIN timers = 1..Len(timers) /\ Len(timers) \in Nat
           /\ i \in DOMAIN timers /\ timers[i] \in Timers
           /\ \A j \in DOMAIN timers :
                 /\ timers'[j].row = timers[j].row
                 /\ timers'[j].period = timers[j].period
                 /\ timers'[j].state = IF j = i THEN "done" ELSE timers[j].state
  <1>1. DOMAIN timers = 1..Len(timers) /\ Len(timers) \in Nat
    BY LenProperties
  <1>2. \A j \in DOMAIN timers : timers[j] \in Timers
    BY <1>1, ElementOfSeq
  <1>3. i \in DOMAIN timers /\ timers' = [timers EXCEPT ![i] = [timers[i] EXCEPT !.state = "done"]]
    BY DEF Wakes
  <1>4. [timers[i] EXCEPT !.state = "done"] \in Timers
    BY <1>2, <1>3 DEF Timers, TimerStates
  <1>5. timers' \in Seq(Timers) /\ DOMAIN timers' = DOMAIN timers
    BY <1>3, <1>4
  <1>6. \A j \in DOMAIN timers :
           /\ timers'[j].row = timers[j].row
           /\ timers'[j].period = timers[j].period
           /\ timers'[j].state = IF j = i THEN "done" ELSE timers[j].state
    BY <1>2, <1>3 DEF Timers
  <1> QED
    BY <1>1, <1>2, <1>3, <1>5, <1>6

\* A cascade that runs caches the graph it used and is remembered.
LEMMA RunsTypes ==
    ASSUME TypeInv, NEW k \in ChangedRows, NEW period \in Periods, Runs(k, period)
    PROVE  /\ graphs' \in [Periods -> Versions \cup {Null}]
           /\ graphs'[period] = IF graphs[period] = Null THEN disk ELSE graphs[period]
           /\ \A p \in Periods \ {period} : graphs'[p] = graphs[p]
           /\ history' \in Seq(Results) /\ Len(history') <= MaxHistory
  <1> DEFINE v == IF graphs[period] = Null THEN disk ELSE graphs[period]
             result == RegenerateChain(v, RowsLoaded, children, period, k,
                                       GetCascadeChain(Graph(v, period), k))
  <1>1. v \in Versions /\ RowsLoaded \in {0} \cup Versions
    BY DEF TypeInv, RowsLoaded
  <1>2. graphs' = [graphs EXCEPT ![period] = v] /\ history' = Remembered(result)
    BY DEF Runs
  <1> HIDE DEF v
  <1>3. result \in Results
    BY <1>1, ChainResult DEF TypeInv
  <1> HIDE DEF result
  <1>4. history' \in Seq(Results) /\ Len(history') <= MaxHistory
    BY <1>2, <1>3, RememberedTypes DEF TypeInv
  <1>5. graphs' \in [Periods -> Versions \cup {Null}] /\ graphs'[period] = v
        /\ \A p \in Periods \ {period} : graphs'[p] = graphs[p]
    BY <1>1, <1>2 DEF TypeInv
  <1> QED
    BY <1>4, <1>5 DEF v

\* So what a cascade leaves of graphs and history, run or failed.
LEMMA CascadeTypes ==
    ASSUME TypeInv, NEW k \in ChangedRows, NEW period \in Periods,
           Runs(k, period) \/ Fails(period)
    PROVE  /\ graphs' \in [Periods -> Versions \cup {Null}]
           /\ history' \in Seq(Results) /\ Len(history') <= MaxHistory
           /\ \A p \in Periods : graphs'[p] # graphs[p] => graphs'[p] = disk
  <1>1. CASE Runs(k, period)
    <2>1. \A p \in Periods : graphs'[p] # graphs[p] => graphs'[p] = disk
      BY <1>1, RunsTypes
    <2> QED
      BY <1>1, <2>1, RunsTypes
  <1>2. CASE Fails(period)
    BY <1>2 DEF Fails, TypeInv
  <1> QED
    BY <1>1, <1>2

-----------------------------------------------------------------------------
(* Type correctness *)

\* A change of row k, as the manager's tables show it.
LEMMA ChangeTimers ==
    ASSUME TypeInv, NEW k \in ChangedRows, OnNarrativeChanged(k)
    PROVE  LET n == Len(timers) + 1
           IN  /\ timers' \in Seq(Timers) /\ DOMAIN timers' = DOMAIN timers \cup {n}
               /\ n \in Nat \ {0} /\ n \notin DOMAIN timers /\ \A i \in DOMAIN timers : i <= n
               /\ timers'[n] = [row |-> k, period |-> k.period, state |-> "sleeping"]
               /\ \A i \in DOMAIN timers :
                     /\ timers'[i].row = timers[i].row
                     /\ timers'[i].period = timers[i].period
                     /\ timers'[i].state = IF i = pending[k.period] THEN "cancelled"
                                           ELSE timers[i].state
               /\ pending' = [pending EXCEPT ![k.period] = n]
               /\ triggers' = [triggers EXCEPT ![k.period] = k]
  <1> DEFINE old == Cancelled({pending[k.period]})
             new == [row |-> k, period |-> k.period, state |-> "sleeping"]
  <1>1. k.period \in Periods /\ new \in Timers
    BY CascadeConstantsOK DEF Timers, TimerStates
  <1>2. /\ old \in Seq(Timers) /\ Len(old) = Len(timers) /\ DOMAIN old = DOMAIN timers
        /\ DOMAIN timers = 1..Len(timers) /\ Len(timers) \in Nat
        /\ \A i \in DOMAIN timers :
              /\ old[i].row = timers[i].row /\ old[i].period = timers[i].period
              /\ old[i].state = IF i = pending[k.period] THEN "cancelled" ELSE timers[i].state
    BY CancelledTimers DEF TypeInv
  <1>3. timers' = Append(old, new)
        /\ pending' = [pending EXCEPT ![k.period] = Len(timers) + 1]
        /\ triggers' = [triggers EXCEPT ![k.period] = k]
    BY DEF OnNarrativeChanged
  <1> HIDE DEF old, new
  <1>4. /\ timers' \in Seq(Timers) /\ Len(timers') = Len(timers) + 1
        /\ \A i \in 1..Len(timers) : timers'[i] = old[i]
        /\ timers'[Len(timers) + 1] = new
    BY <1>1, <1>2, <1>3, AppendProperties
  <1>5. DOMAIN timers' = 1..(Len(timers) + 1)
    BY <1>2, <1>4, LenProperties
  <1>6. DOMAIN timers' = DOMAIN timers \cup {Len(timers) + 1}
        /\ Len(timers) + 1 \in Nat \ {0} /\ Len(timers) + 1 \notin DOMAIN timers
        /\ \A i \in DOMAIN timers : i <= Len(timers) + 1
    BY <1>2, <1>5
  <1>7. \A i \in DOMAIN timers : timers'[i] = old[i]
    BY <1>2, <1>4
  <1> QED
    BY <1>2, <1>3, <1>4, <1>6, <1>7 DEF new

\* The types are an invariant of the manager and the service.
LEMMA TypeInvariant == Spec => []TypeInv
  <1>1. Init => TypeInv
    <2> SUFFICES ASSUME Init PROVE TypeInv
      OBVIOUS
    <2>1. timers \in Seq(Timers) /\ history \in Seq(Results) /\ Len(history) = 0
      BY EmptySeq DEF Init
    <2> QED
      BY <2>1, CascadeConstantsOK DEF Init, TypeInv, Versions
  <1>2. TypeInv /\ [Next]_vars => TypeInv'
    <2> SUFFICES ASSUME TypeInv, [Next]_vars PROVE TypeInv'
      OBVIOUS
    <2>1. ASSUME NEW k \in ChangedRows, OnNarrativeChanged(k)
          PROVE  TypeInv'
      <3>1. k.period \in Periods
        BY CascadeConstantsOK
      <3> DEFINE n == Len(timers) + 1
      <3>2. /\ timers' \in Seq(Timers) /\ DOMAIN timers' = DOMAIN timers \cup {n}
            /\ pending' = [pending EXCEPT ![k.period] = n]
            /\ triggers' = [triggers EXCEPT ![k.period] = k]
        BY <2>1, ChangeTimers
      <3> HIDE DEF n
      <3>3. pending' \in [Periods -> DOMAIN timers' \cup {Null}]
            /\ triggers' \in [Periods -> ChangedRows \cup {Null}]
        BY <3>1, <3>2 DEF TypeInv
      <3>4. UNCHANGED <<disk, tables, unread, graphs, history>>
        BY <2>1 DEF OnNarrativeChanged, service
      <3> QED
        BY <3>2, <3>3, <3>4 DEF TypeInv
    <2>2. ASSUME NEW k \in ChangedRows, ExecuteNow(k)
          PROVE  TypeInv'
      <3>1. k.period \in Periods
        BY CascadeConstantsOK
      <3>2. /\ timers' = Cancelled({pending[k.period]})
            /\ pending' = [pending EXCEPT ![k.period] = Null]
            /\ triggers' = [triggers EXCEPT ![k.period] = Null]
            /\ Runs(k, k.period) \/ Fails(k.period)
            /\ UNCHANGED <<disk, tables, unread>>
        BY <2>2 DEF ExecuteNow
      <3>3. timers' \in Seq(Timers) /\ DOMAIN timers' = DOMAIN timers
        BY <3>2, CancelledTimers DEF TypeInv
      <3>4. pending' \in [Periods -> DOMAIN timers' \cup {Null}]
            /\ triggers' \in [Periods -> ChangedRows \cup {Null}]
        BY <3>1, <3>2, <3>3 DEF TypeInv
      <3>5. /\ graphs' \in [Periods -> Versions \cup {Null}]
            /\ history' \in Seq(Results) /\ Len(history') <= MaxHistory
        BY <3>1, <3>2, CascadeTypes
      <3> QED
        BY <3>2, <3>3, <3>4, <3>5 DEF TypeInv
    <2>3. ASSUME NEW i \in 1..MaxChanges, DebouncedCascade(i)
          PROVE  TypeInv'
      <3> DEFINE p == timers[i].period
                 k == IF triggers[p] = Null THEN timers[i].row ELSE triggers[p]
      <3>1. /\ timers' \in Seq(Timers) /\ DOMAIN timers' = DOMAIN timers
            /\ timers[i] \in Timers
        BY <2>3, WakesTimers DEF DebouncedCascade, TypeInv
      <3>2. p \in Periods /\ timers[i].row \in ChangedRows
        BY <3>1 DEF Timers
      <3>3. k \in ChangedRows
        BY <3>2 DEF TypeInv
      <3>4. /\ pending' = [pending EXCEPT ![p] = Null]
            /\ triggers' = [triggers EXCEPT ![p] = Null]
            /\ Runs(k, p) \/ Fails(p)
            /\ UNCHANGED <<disk, tables, unread>>
        BY <2>3 DEF DebouncedCascade
      <3> HIDE DEF p, k
      <3>5. pending' \in [Periods -> DOMAIN timers' \cup {Null}]
            /\ triggers' \in [Periods -> ChangedRows \cup {Null}]
        BY <3>1, <3>2, <3>4 DEF TypeInv
      <3>6. /\ graphs' \in [Periods -> Versions \cup {Null}]
            /\ history' \in Seq(Results) /\ Len(history') <= MaxHistory
        BY <3>2, <3>3, <3>4, CascadeTypes
      <3> QED
        BY <3>1, <3>4, <3>5, <3>6 DEF TypeInv
    <2>4. CASE EngineSaves
      BY <2>4 DEF EngineSaves, TypeInv, service, manager, Versions
    <2>5. CASE Reload
      BY <2>5 DEF Reload, LoadAllTables, TypeInv, manager
    <2>6. CASE UNCHANGED vars
      BY <2>6 DEF vars, TypeInv
    <2> QED
      BY <2>1, <2>2, <2>3, <2>4, <2>5, <2>6 DEF Next
  <1> QED
    BY <1>1, <1>2, PTL DEF Spec

-----------------------------------------------------------------------------
(* The metadata *)

\* The members of a sequence with one more at its end, and with one more before it.
LEMMA MembersOfAppended ==
    ASSUME NEW S, NEW s \in Seq(S), NEW x \in S
    PROVE  ToSet(Append(s, x)) = ToSet(s) \cup {x}
  <1> DEFINE r == Append(s, x)
  <1>1. /\ Len(s) \in Nat /\ DOMAIN s = 1..Len(s)
        /\ DOMAIN r = 1..(Len(s) + 1) /\ r[Len(s) + 1] = x
        /\ \A i \in 1..Len(s) : r[i] = s[i]
    OBVIOUS
  <1> HIDE DEF r
  <1>2. ToSet(r) = ToSet(s) \cup {x}
    <2>1. \A i \in DOMAIN s : i \in DOMAIN r /\ r[i] = s[i]
      BY <1>1
    <2>2. Len(s) + 1 \in DOMAIN r
      BY <1>1
    <2>3. \A i \in DOMAIN r : i \in DOMAIN s \/ i = Len(s) + 1
      BY <1>1
    <2> QED
      BY <1>1, <2>1, <2>2, <2>3 DEF ToSet
  <1> QED
    BY <1>2 DEF r

\* The members of a sequence with one more before it.
LEMMA MembersOfPrefixed ==
    ASSUME NEW S, NEW s \in Seq(S), NEW x \in S
    PROVE  ToSet(<<x>> \o s) = ToSet(s) \cup {x} /\ <<x>> \o s \in Seq(S)
  <1> DEFINE t == <<x>> \o s
  <1>1. Len(s) \in Nat /\ DOMAIN s = 1..Len(s)
    OBVIOUS
  <1>2. <<x>> \in Seq(S) /\ Len(<<x>>) = 1 /\ <<x>>[1] = x
    OBVIOUS
  <1>3. /\ t \in Seq(S) /\ Len(t) = 1 + Len(s)
        /\ \A i \in 1..(1 + Len(s)) : t[i] = IF i <= 1 THEN <<x>>[i] ELSE s[i - 1]
    BY <1>2, ConcatProperties
  <1>4. DOMAIN t = 1..(1 + Len(s))
    BY <1>3
  <1> HIDE DEF t
  <1>5. 1 \in DOMAIN t /\ t[1] = x
    BY <1>1, <1>2, <1>3, <1>4
  <1>6. ASSUME NEW i \in DOMAIN s
        PROVE  i + 1 \in DOMAIN t /\ t[i + 1] = s[i]
    <2>1. i + 1 \in 1..(1 + Len(s)) /\ ~(i + 1 <= 1) /\ (i + 1) - 1 = i
      BY <1>1
    <2> QED
      BY <1>3, <1>4, <2>1
  <1>7. ASSUME NEW i \in DOMAIN t
        PROVE  t[i] \in ToSet(s) \cup {x}
    <2>1. CASE i = 1
      BY <1>5, <2>1
    <2>2. CASE i # 1
      <3>1. i \in 1..(1 + Len(s)) /\ ~(i <= 1) /\ i - 1 \in DOMAIN s
        BY <1>1, <1>4, <2>2
      <3>2. t[i] = s[i - 1]
        BY <1>3, <3>1
      <3> QED
        BY <3>1, <3>2 DEF ToSet
    <2> QED
      BY <2>1, <2>2
  <1>8. x \in ToSet(t) /\ ToSet(s) \subseteq ToSet(t)
    BY <1>5, <1>6 DEF ToSet
  <1>9. ToSet(t) \subseteq ToSet(s) \cup {x}
    BY <1>7 DEF ToSet
  <1>10. ToSet(t) = ToSet(s) \cup {x}
    BY <1>8, <1>9
  <1> QED
    BY <1>3, <1>10 DEF t

\* The metadata is a fold over the accounts in their order.
LEMMA MetadataFolds ==
    ASSUME NEW below
    PROVE  BuildAccountMetadata(below)
             = Folded("children", below, AccountOrder, DOMAIN AccountOrder)[DOMAIN AccountOrder]
  BY DEF BuildAccountMetadata, FoldLeft, MapThenFoldSet, Folded, Folds, Extended, Begun

Families == [Accounts -> Seq(Accounts)]

\* The metadata has every account under its parent.
Complete(below) ==
    \A a \in Accounts : Parent[a] # Null => a \in ToSet(below[Parent[a]])

\* However often it is built on top of itself, the metadata lists accounts under
\* accounts, and each under its parent.
LEMMA MetadataIsComplete ==
    ASSUME NEW below \in Families
    PROVE  BuildAccountMetadata(below) \in Families /\ Complete(BuildAccountMetadata(below))
  <1> DEFINE at(i) == FoldAt("children", below, AccountOrder, i)
             Listed(i) == \A j \in 1..i : Parent[AccountOrder[j]] # Null =>
                             AccountOrder[j] \in ToSet(at(i)[Parent[AccountOrder[j]]])
             P == {i \in Nat : i <= Len(AccountOrder) => at(i) \in Families /\ Listed(i)}
  <1>0. /\ AccountOrder \in Seq(Accounts) /\ Len(AccountOrder) \in Nat
        /\ DOMAIN AccountOrder = 1..Len(AccountOrder)
        /\ \A i \in 1..Len(AccountOrder) : AccountOrder[i] \in Accounts
        /\ \A a \in Accounts : Parent[a] # Null => Parent[a] \in Accounts
    BY AccountsOK DEF AccountsOK
  <1>1. 0 \in P
    <2>1. at(0) = below
      BY FoldBegins DEF Begun
    <2>2. Listed(0)
      OBVIOUS
    <2> HIDE DEF Listed
    <2> QED
      BY <2>1, <2>2
  <1>2. ASSUME NEW i \in Nat, i \in P
        PROVE  i + 1 \in P
    <2> SUFFICES ASSUME i + 1 <= Len(AccountOrder)
                 PROVE  at(i + 1) \in Families /\ Listed(i + 1)
      OBVIOUS
    <2> DEFINE a == AccountOrder[i + 1]
               t == at(i)
               u == at(i + 1)
    <2>1. t \in Families /\ Listed(i)
      BY <1>0, <1>2
    <2>2. a \in Accounts
      BY <1>0
    <2>3. u = Extended("children", below, t, a)
      BY FoldGoesOn
    <2> HIDE DEF at, P
    <2> HIDE DEF t, u
    <2>4. u = IF Parent[a] = Null THEN t ELSE [t EXCEPT ![Parent[a]] = Append(@, a)]
      BY <2>3 DEF Extended
    <2>5. \A b \in Accounts : t[b] \in Seq(Accounts)
      BY <2>1 DEF Families
    <2>6. u \in Families
      BY <1>0, <2>1, <2>2, <2>4, <2>5 DEF Families
    <2>7. \A b \in Accounts : ToSet(t[b]) \subseteq ToSet(u[b])
      <3> SUFFICES ASSUME NEW b \in Accounts PROVE ToSet(t[b]) \subseteq ToSet(u[b])
        OBVIOUS
      <3>1. ToSet(Append(t[b], a)) = ToSet(t[b]) \cup {a}
        <4>1. t[b] \in Seq(Accounts)
          BY <2>5
        <4> QED
          BY ONLY <2>2, <4>1, MembersOfAppended
      <3>2. u[b] = t[b] \/ u[b] = Append(t[b], a)
        BY <2>1, <2>4 DEF Families
      <3> QED
        BY <3>1, <3>2
    <2>8. Parent[a] # Null => a \in ToSet(u[Parent[a]])
      <3> SUFFICES ASSUME Parent[a] # Null PROVE a \in ToSet(u[Parent[a]])
        OBVIOUS
      <3> DEFINE b == Parent[a]
      <3>1. b \in Accounts
        BY <1>0, <2>2
      <3>2. u[b] = Append(t[b], a)
        BY <2>1, <2>4, <3>1 DEF Families
      <3> HIDE DEF b
      <3>3. ToSet(Append(t[b], a)) = ToSet(t[b]) \cup {a}
        <4>1. t[b] \in Seq(Accounts)
          BY <2>5, <3>1
        <4> QED
          BY ONLY <2>2, <4>1, MembersOfAppended
      <3>4. a \in ToSet(u[b])
        BY <3>2, <3>3
      <3> QED
        BY <3>4 DEF b
    <2>9. Listed(i + 1)
      <3> SUFFICES ASSUME NEW j \in 1..(i + 1), Parent[AccountOrder[j]] # Null
                   PROVE  AccountOrder[j] \in ToSet(u[Parent[AccountOrder[j]]])
        BY DEF u
      <3>1. CASE j = i + 1
        BY <2>8, <3>1
      <3>2. CASE j # i + 1
        <4>1. j \in 1..i /\ AccountOrder[j] \in Accounts
          BY <1>0, <3>2
        <4>2. AccountOrder[j] \in ToSet(t[Parent[AccountOrder[j]]])
          BY <2>1, <4>1 DEF t
        <4>3. Parent[AccountOrder[j]] \in Accounts
          BY <1>0, <4>1
        <4> QED
          BY <2>7, <4>2, <4>3
      <3> QED
        BY <3>1, <3>2
    <2> QED
      BY <2>6, <2>9 DEF u
  <1>3. \A i \in Nat : i \in P
    <2> HIDE DEF P
    <2> QED
      BY <1>1, <1>2, Induction
  <1> DEFINE n == Len(AccountOrder)
             all == at(n)
  <1>4. all \in Families /\ Listed(n)
    BY <1>0, <1>3
  <1>5. BuildAccountMetadata(below) = all
    BY <1>0, MetadataFolds DEF FoldAt
  <1> HIDE DEF at
  <1>6. Complete(all)
    <2> SUFFICES ASSUME NEW a \in Accounts, Parent[a] # Null
                 PROVE  a \in ToSet(all[Parent[a]])
      BY DEF Complete
    <2>1. PICK j \in 1..n : AccountOrder[j] = a
      BY <1>0 DEF Accounts, ToSet
    <2> QED
      BY <1>4, <2>1
  <1> HIDE DEF all
  <1> QED
    BY <1>4, <1>5, <1>6

\* The service's metadata is complete at any time.
LEMMA MetadataInvariant == Spec => [](children \in Families /\ Complete(children))
  <1> DEFINE Inv == children \in Families /\ Complete(children)
  <1>1. Init => Inv
    <2> SUFFICES ASSUME Init PROVE Inv
      OBVIOUS
    <2>1. NoChildren \in Families
      BY EmptySeq DEF NoChildren, Families
    <2> QED
      BY <2>1, MetadataIsComplete DEF Init
  <1>2. Inv /\ [Next]_vars => Inv'
    <2> SUFFICES ASSUME Inv, [Next]_vars PROVE Inv'
      OBVIOUS
    <2>1. ASSUME children' = children
          PROVE  Inv'
      BY <2>1
    <2>2. CASE Reload
      BY <2>2, MetadataIsComplete DEF Reload
    <2>3. ASSUME NEW k \in ChangedRows, OnNarrativeChanged(k)
          PROVE  children' = children
      BY <2>3 DEF OnNarrativeChanged, service
    <2>4. ASSUME NEW k \in ChangedRows, ExecuteNow(k)
          PROVE  children' = children
      BY <2>4 DEF ExecuteNow
    <2>5. ASSUME NEW i \in 1..MaxChanges, DebouncedCascade(i)
          PROVE  children' = children
      BY <2>5 DEF DebouncedCascade
    <2>6. CASE EngineSaves
      BY <2>1, <2>6 DEF EngineSaves, service
    <2>7. CASE UNCHANGED vars
      BY <2>1, <2>7 DEF vars
    <2> HIDE DEF Inv
    <2> QED
      BY <2>1, <2>2, <2>3, <2>4, <2>5, <2>6, <2>7 DEF Next
  <1> QED
    BY <1>1, <1>2, PTL DEF Spec

\* The tables are ones the engine saved, the metadata lists accounts under accounts,
\* timers and triggers are of changed rows, the history is as long as it may be, and
\* no cascade is both an error and a result.
THEOREM TypesKept == Spec => []TypeOK
  <1>1. TypeInv /\ children \in Families => TypeOK
    <2> SUFFICES ASSUME TypeInv, children \in Families PROVE TypeOK
      OBVIOUS
    <2>1. \A i \in DOMAIN timers : timers[i] \in Timers
      BY LenProperties, ElementOfSeq DEF TypeInv
    <2>2. \A i \in DOMAIN history : history[i] \in Results
      BY LenProperties, ElementOfSeq DEF TypeInv
    <2>3. \A h \in ToSet(history) : h.errors = {} \/ h.regenerated \cup h.skipped = {}
      BY <2>2 DEF ToSet, Results
    <2> QED
      BY <2>1, <2>3 DEF TypeInv, TypeOK, Versions, Timers, TimerStates, Families
  <1> QED
    BY <1>1, TypeInvariant, MetadataInvariant, PTL

-----------------------------------------------------------------------------
(* The debounce *)

\* The timers of period p that run.
Sleeping(p) == {i \in DOMAIN timers : timers[i].period = p /\ timers[i].state = "sleeping"}

\* OneTimerPerPeriod, for one period.
OneTimer(p) ==
    /\ Sleeping(p) = {pending[p]} \ {Null}
    /\ pending[p] = Null <=> triggers[p] = Null
    /\ pending[p] # Null =>
          /\ \A i \in DOMAIN timers : timers[i].period = p => i <= pending[p]
          /\ triggers[p] = timers[pending[p]].row

\* Where no timer of p is touched its bookkeeping stays.
LEMMA OtherPeriod ==
    ASSUME TypeInv, NEW p \in Periods, OneTimer(p),
           pending'[p] = pending[p], triggers'[p] = triggers[p],
           DOMAIN timers \subseteq DOMAIN timers',
           \A i \in DOMAIN timers' \ DOMAIN timers : timers'[i].period # p,
           \A i \in DOMAIN timers :
              /\ timers'[i].row = timers[i].row
              /\ timers'[i].period = timers[i].period
              /\ timers[i].period = p => timers'[i].state = timers[i].state
    PROVE  OneTimer(p)'
  <1>1. Sleeping(p)' = Sleeping(p)
    BY DEF Sleeping
  <1>2. pending[p] # Null => pending[p] \in DOMAIN timers
    BY DEF TypeInv
  <1> QED
    BY <1>1, <1>2 DEF OneTimer

\* A pending timer is of its period.
LEMMA PendingPeriod ==
    ASSUME TypeInv, NEW p \in Periods, OneTimer(p), pending[p] # Null
    PROVE  pending[p] \in DOMAIN timers /\ timers[pending[p]].period = p
  <1>1. pending[p] \in Sleeping(p)
    BY DEF OneTimer
  <1> QED
    BY <1>1 DEF Sleeping

\* A period whose only running timer was stopped, and its entries taken off.
LEMMA ClearedPeriod ==
    ASSUME TypeInv, NEW p \in Periods, OneTimer(p),
           pending'[p] = Null, triggers'[p] = Null, DOMAIN timers' = DOMAIN timers,
           \A i \in DOMAIN timers :
              /\ timers'[i].period = timers[i].period
              /\ timers'[i].state = "sleeping" => i # pending[p] /\ timers[i].state = "sleeping"
    PROVE  OneTimer(p)'
  <1>1. Sleeping(p)' = {}
    BY DEF Sleeping, OneTimer
  <1> QED
    BY <1>1 DEF OneTimer

\* A period is pending exactly when one timer of it runs, the timer of its last
\* change, whose row is the trigger: however changes, cascades by hand and ends
\* of sleeps follow each other.
THEOREM DebounceIsConsistent == Spec => []OneTimerPerPeriod
  <1> DEFINE Inv == \A p \in Periods : OneTimer(p)
  <1>1. Init => Inv
    BY DEF Init, OneTimer, Sleeping
  <1>2. TypeInv /\ Inv /\ [Next]_vars => Inv'
    <2> SUFFICES ASSUME TypeInv, Inv, [Next]_vars, NEW p \in Periods
                 PROVE  OneTimer(p)'
      OBVIOUS
    <2>0. OneTimer(p) /\ \A q \in Periods : OneTimer(q)
      OBVIOUS
    <2>1. ASSUME NEW k \in ChangedRows, OnNarrativeChanged(k)
          PROVE  OneTimer(p)'
      <3> DEFINE n == Len(timers) + 1
      <3>1. /\ DOMAIN timers' = DOMAIN timers \cup {n}
            /\ n \in Nat \ {0} /\ n \notin DOMAIN timers /\ \A i \in DOMAIN timers : i <= n
            /\ timers'[n] = [row |-> k, period |-> k.period, state |-> "sleeping"]
            /\ \A i \in DOMAIN timers :
                  /\ timers'[i].row = timers[i].row
                  /\ timers'[i].period = timers[i].period
                  /\ timers'[i].state = IF i = pending[k.period] THEN "cancelled"
                                        ELSE timers[i].state
            /\ pending' = [pending EXCEPT ![k.period] = n]
            /\ triggers' = [triggers EXCEPT ![k.period] = k]
        BY <2>1, ChangeTimers
      <3>2. k.period \in Periods /\ n # Null /\ k # Null
        BY <3>1, CascadeConstantsOK
      <3> HIDE DEF n
      <3>3. CASE p = k.period
        <4>1. pending'[p] = n /\ triggers'[p] = k
          BY <3>1, <3>3 DEF TypeInv
        <4>2. Sleeping(p)' = {n}
          <5>1. \A i \in DOMAIN timers : ~(timers'[i].period = p /\ timers'[i].state = "sleeping")
            BY <2>0, <3>1, <3>3 DEF OneTimer, Sleeping
          <5> QED
            BY <3>1, <3>3, <5>1 DEF Sleeping
        <4>3. \A i \in DOMAIN timers' : i <= n
          BY <3>1
        <4> QED
          BY <3>1, <3>2, <4>1, <4>2, <4>3 DEF OneTimer
      <3>4. CASE p # k.period
        <4>1. pending'[p] = pending[p] /\ triggers'[p] = triggers[p]
          BY <3>1, <3>4 DEF TypeInv
        <4>2. \A i \in DOMAIN timers : timers[i].period = p => i # pending[k.period]
          BY <2>0, <3>2, <3>4, PendingPeriod, CascadeConstantsOK DEF TypeInv
        <4> QED
          BY <2>0, <3>1, <3>4, <4>1, <4>2, OtherPeriod
      <3> QED
        BY <3>3, <3>4
    <2>2. ASSUME NEW k \in ChangedRows, ExecuteNow(k)
          PROVE  OneTimer(p)'
      <3>1. /\ timers' = Cancelled({pending[k.period]})
            /\ pending' = [pending EXCEPT ![k.period] = Null]
            /\ triggers' = [triggers EXCEPT ![k.period] = Null]
            /\ k.period \in Periods
        BY <2>2, CascadeConstantsOK DEF ExecuteNow
      <3>2. /\ DOMAIN timers' = DOMAIN timers
            /\ \A i \in DOMAIN timers :
                  /\ timers'[i].row = timers[i].row
                  /\ timers'[i].period = timers[i].period
                  /\ timers'[i].state = IF i = pending[k.period] THEN "cancelled"
                                        ELSE timers[i].state
        BY <3>1, CancelledTimers DEF TypeInv
      <3>3. CASE p = k.period
        <4>1. pending'[p] = Null /\ triggers'[p] = Null
          BY <3>1, <3>3 DEF TypeInv
        <4>2. \A i \in DOMAIN timers : timers'[i].state = "sleeping"
                 => i # pending[p] /\ timers[i].state = "sleeping"
          BY <3>2, <3>3
        <4> QED
          BY <2>0, <3>2, <4>1, <4>2, ClearedPeriod
      <3>4. CASE p # k.period
        <4>1. pending'[p] = pending[p] /\ triggers'[p] = triggers[p]
          BY <3>1, <3>4 DEF TypeInv
        <4>2. \A i \in DOMAIN timers : timers[i].period = p => i # pending[k.period]
          <5>1. CASE pending[k.period] = Null
            BY <5>1, CancelledTimers, CascadeConstantsOK DEF TypeInv
          <5>2. CASE pending[k.period] # Null
            BY <2>0, <3>1, <3>4, <5>2, PendingPeriod
          <5> QED
            BY <5>1, <5>2
        <4> QED
          BY <2>0, <3>2, <4>1, <4>2, OtherPeriod
      <3> QED
        BY <3>3, <3>4
    <2>3. ASSUME NEW i \in 1..MaxChanges, DebouncedCascade(i)
          PROVE  OneTimer(p)'
      <3> DEFINE q == timers[i].period
      <3>1. /\ DOMAIN timers' = DOMAIN timers
            /\ i \in DOMAIN timers /\ timers[i] \in Timers
            /\ \A j \in DOMAIN timers :
                  /\ timers'[j].row = timers[j].row
                  /\ timers'[j].period = timers[j].period
                  /\ timers'[j].state = IF j = i THEN "done" ELSE timers[j].state
        BY <2>3, WakesTimers DEF DebouncedCascade, TypeInv
      <3>2. /\ timers[i].state = "sleeping" /\ q \in Periods
            /\ pending' = [pending EXCEPT ![q] = Null]
            /\ triggers' = [triggers EXCEPT ![q] = Null]
        BY <2>3, <3>1 DEF DebouncedCascade, Wakes, Timers
      <3>3. CASE p = q
        <4>1. pending'[p] = Null /\ triggers'[p] = Null
          BY <3>2, <3>3 DEF TypeInv
        <4>2. i = pending[p]
          BY <2>0, <3>1, <3>2, <3>3 DEF OneTimer, Sleeping
        <4>3. \A j \in DOMAIN timers : timers'[j].state = "sleeping"
                 => j # pending[p] /\ timers[j].state = "sleeping"
          BY <3>1, <4>2
        <4> QED
          BY <2>0, <3>1, <4>1, <4>3, ClearedPeriod
      <3>4. CASE p # q
        <4>1. pending'[p] = pending[p] /\ triggers'[p] = triggers[p]
          BY <3>2, <3>4 DEF TypeInv
        <4>2. \A j \in DOMAIN timers : timers[j].period = p => j # i
          BY <3>4
        <4> QED
          BY <2>0, <3>1, <4>1, <4>2, OtherPeriod
      <3> QED
        BY <3>3, <3>4
    <2>4. CASE EngineSaves
      BY <2>0, <2>4 DEF EngineSaves, manager, OneTimer, Sleeping
    <2>5. CASE Reload
      BY <2>0, <2>5 DEF Reload, manager, OneTimer, Sleeping
    <2>6. CASE UNCHANGED vars
      BY <2>0, <2>6 DEF vars, OneTimer, Sleeping
    <2> QED
      BY <2>1, <2>2, <2>3, <2>4, <2>5, <2>6 DEF Next
  <1>3. Inv => OneTimerPerPeriod
    BY DEF OneTimerPerPeriod, OneTimer, Sleeping
  <1> QED
    BY <1>1, <1>2, <1>3, TypeInvariant, PTL DEF Spec

-----------------------------------------------------------------------------
(* Rows and graphs *)

\* What is loaded or cached was on disk, and a graph was cached after the last
\* load.
PaceInv ==
    /\ tables <= disk
    /\ \A p \in Periods : graphs[p] # Null => tables <= graphs[p]

\* A cached graph is never older than the rows it is served with, however saves
\* of the engine, reloads and cascades follow each other.
THEOREM GraphsAreNotOlder == Spec => []GraphsKeepPace
  <1>1. Init => PaceInv
    BY DEF Init, PaceInv
  <1>2. TypeInv /\ TypeInv' /\ PaceInv /\ [Next]_vars => PaceInv'
    <2> SUFFICES ASSUME TypeInv, TypeInv', PaceInv, [Next]_vars PROVE PaceInv'
      OBVIOUS
    <2>0. /\ tables \in Nat /\ disk \in Nat
          /\ \A p \in Periods : graphs[p] # Null => graphs[p] \in Nat
      BY CascadeConstantsOK DEF TypeInv, Versions
    <2>1. ASSUME NEW k \in ChangedRows, OnNarrativeChanged(k)
          PROVE  PaceInv'
      BY <2>1 DEF OnNarrativeChanged, service, PaceInv
    <2>2. ASSUME NEW k \in ChangedRows, NEW period \in Periods,
                 Runs(k, period) \/ Fails(period), UNCHANGED <<disk, tables>>
          PROVE  PaceInv'
      <3>1. \A p \in Periods : graphs'[p] # graphs[p] => graphs'[p] = disk
        BY <2>2, CascadeTypes
      <3> QED
        BY <2>2, <3>1 DEF PaceInv
    <2>3. ASSUME NEW k \in ChangedRows, ExecuteNow(k)
          PROVE  PaceInv'
      BY <2>2, <2>3, CascadeConstantsOK DEF ExecuteNow
    <2>4. ASSUME NEW i \in 1..MaxChanges, DebouncedCascade(i)
          PROVE  PaceInv'
      <3> DEFINE p == timers[i].period
                 k == IF triggers[p] = Null THEN timers[i].row ELSE triggers[p]
      <3>1. timers[i] \in Timers
        BY <2>4, WakesTimers DEF DebouncedCascade, TypeInv
      <3>2. p \in Periods /\ timers[i].row \in ChangedRows
        BY <3>1 DEF Timers
      <3>3. k \in ChangedRows
        BY <3>2 DEF TypeInv
      <3>4. (Runs(k, p) \/ Fails(p)) /\ UNCHANGED <<disk, tables>>
        BY <2>4 DEF DebouncedCascade
      <3> HIDE DEF p, k
      <3> QED
        BY <2>2, <3>2, <3>3, <3>4
    <2>5. CASE EngineSaves
      <3>1. disk' = disk + 1 /\ UNCHANGED <<tables, graphs>>
        BY <2>5 DEF EngineSaves, service
      <3> QED
        BY <2>0, <3>1 DEF PaceInv
    <2>6. CASE Reload
      <3>1. /\ tables' = disk /\ disk' = disk
            /\ \A p \in Periods : graphs'[p] = Null
        BY <2>6 DEF Reload, LoadAllTables
      <3> QED
        BY <2>0, <3>1 DEF PaceInv
    <2>7. CASE UNCHANGED vars
      BY <2>7 DEF vars, PaceInv
    <2> QED
      BY <2>1, <2>3, <2>4, <2>5, <2>6, <2>7 DEF Next
  <1>3. TypeInv /\ PaceInv => GraphsKeepPace
    BY CascadeConstantsOK DEF TypeInv, Versions, PaceInv, GraphsKeepPace
  <1> QED
    BY <1>1, <1>2, <1>3, TypeInvariant, PTL DEF Spec

-----------------------------------------------------------------------------
(* The graph *)

\* The correlation edges among the rows of a period.
CorrelationEdges(v, p) ==
    AddCorrelations(AddVariances(AddAccountHierarchy(EmptyGraph, Accounts),
                                 [k \in {j \in DOMAIN Outputs[v].material : j.period = p} |->
                                     Outputs[v].material[k]]),
                    Outputs[v].correlations).correlations

\* What a graph made of the tables v for a period has.
LEMMA GraphParts ==
    ASSUME NEW v \in Versions, NEW p \in Periods, NEW g, g = Graph(v, p)
    PROVE  /\ g.accounts = Accounts
           /\ DOMAIN g.variances = {k \in DOMAIN Outputs[v].material : k.period = p}
           /\ DOMAIN g.variances \subseteq AllKeys
           /\ \A k \in DOMAIN g.variances : Category[k.account] # Null =>
                 k \in DOMAIN g.sections /\ g.sections[k] = Category[k.account]
           /\ g.correlations = CorrelationEdges(v, p)
  <1> DEFINE t == Outputs[v]
             M == [k \in {j \in DOMAIN t.material : j.period = p} |-> t.material[k]]
             g1 == AddAccountHierarchy(EmptyGraph, Accounts)
             g2 == AddVariances(g1, M)
             g3 == AddCorrelations(g2, t.correlations)
             g4 == AddNetting(g3, t.netting)
             g5 == AddTrends(g4, t.trends)
             g6 == AddDecomposition(g5, t.decomposition)
  <1>1. p # Null
    BY AccountsOK, CascadeConstantsOK DEF AccountsOK
  <1>2. g = AddSections(g6, M)
    BY <1>1 DEF Graph, BuildFromData, BuildFromContext
  <1> DEFINE Fields == {"accounts", "variances", "correlations", "netting", "trend",
                        "decomposition", "sections"}
  <1>3. DOMAIN g2 = Fields /\ g2.accounts = Accounts /\ g2.variances = M
    BY DEF AddVariances, AddAccountHierarchy, EmptyGraph
  <1> HIDE DEF g1, g2, M
  <1>4. DOMAIN g3 = Fields /\ g3.accounts = Accounts /\ g3.variances = M
    BY <1>3 DEF AddCorrelations
  <1> HIDE DEF g3
  <1>5. /\ DOMAIN g4 = Fields /\ g4.accounts = Accounts /\ g4.variances = M
        /\ g4.correlations = g3.correlations
    BY <1>4 DEF AddNetting
  <1> HIDE DEF g4
  <1>6. /\ DOMAIN g5 = Fields /\ g5.accounts = Accounts /\ g5.variances = M
        /\ g5.correlations = g3.correlations
    BY <1>5 DEF AddTrends
  <1> HIDE DEF g5
  <1>7. /\ DOMAIN g6 = Fields /\ g6.accounts = Accounts /\ g6.variances = M
        /\ g6.correlations = g3.correlations
    BY <1>6 DEF AddDecomposition
  <1> HIDE DEF g6
  <1>8. /\ g.accounts = Accounts /\ g.variances = M /\ g.correlations = g3.correlations
    BY <1>2, <1>7 DEF AddSections
  <1>11. \A k \in DOMAIN M : Category[k.account] # Null =>
            k \in DOMAIN g.sections /\ g.sections[k] = Category[k.account]
    BY <1>2, <1>7 DEF AddSections
  <1>9. DOMAIN M = {k \in DOMAIN t.material : k.period = p}
    BY DEF M
  <1>10. DOMAIN M \subseteq AllKeys
    BY <1>9, CascadeConstantsOK DEF Versions, AllKeys, Rows
  <1> QED
    BY <1>8, <1>9, <1>10, <1>11 DEF g3, g2, g1, M, CorrelationEdges

\* There is an edge from one node to another when a correlation is of the two, and
\* then there is one back, with the same score.
EdgesBothWays(v, g) ==
    /\ \A x, y : <<x, y>> \in DOMAIN g.correlations <=>
          /\ x \in DOMAIN g.variances /\ y \in DOMAIN g.variances
          /\ \E c \in Outputs[v].correlations : {c.a, c.b} = {x, y}
    /\ \A x, y : <<x, y>> \in DOMAIN g.correlations =>
          g.correlations[<<x, y>>] = g.correlations[<<y, x>>]
    /\ \A e \in DOMAIN g.correlations : e = <<e[1], e[2]>>

\* An edge of a built graph is found from both of its ends.
LEMMA EdgesAreMutual ==
    ASSUME NEW v \in Versions, NEW p \in Periods, NEW g, g = Graph(v, p)
    PROVE  EdgesBothWays(v, g)
  <1> DEFINE t == Outputs[v]
             M == [k \in {j \in DOMAIN t.material : j.period = p} |-> t.material[k]]
             g2 == AddVariances(AddAccountHierarchy(EmptyGraph, Accounts), M)
             N == DOMAIN M
             has(c) == c.a \in N /\ c.b \in N
             edges == UNION {{<<c.a, c.b>>, <<c.b, c.a>>} : c \in {d \in t.correlations : has(d)}}
             about(e) == {c \in t.correlations : {c.a, c.b} = {e[1], e[2]}}
             last(e) == CHOOSE c \in about(e) :
                            c.type = "yoy_echo" \/ \A d \in about(e) : d.type # "yoy_echo"
  <1>1. /\ g.correlations = AddCorrelations(g2, t.correlations).correlations
        /\ DOMAIN g.variances = N
    BY GraphParts DEF CorrelationEdges
  <1>2. "correlations" \in DOMAIN g2 /\ g2.variances = M
    BY DEF AddVariances, AddAccountHierarchy, EmptyGraph
  <1> HIDE DEF g2, M, N
  <1>3. g.correlations = [e \in edges |-> last(e).score]
    BY <1>1, <1>2 DEF AddCorrelations, N
  <1>4. DOMAIN g.correlations = edges /\ \A e \in edges : g.correlations[e] = last(e).score
    BY <1>3
  <1>5. ASSUME NEW x, NEW y
        PROVE  <<x, y>> \in edges <=>
                 x \in N /\ y \in N /\ \E c \in t.correlations : {c.a, c.b} = {x, y}
    <2>1. ASSUME <<x, y>> \in edges
          PROVE  x \in N /\ y \in N /\ \E c \in t.correlations : {c.a, c.b} = {x, y}
      <3>1. PICK c \in t.correlations : has(c) /\ <<x, y>> \in {<<c.a, c.b>>, <<c.b, c.a>>}
        BY <2>1
      <3>2. (x = c.a /\ y = c.b) \/ (x = c.b /\ y = c.a)
        BY <3>1
      <3> QED
        BY <3>1, <3>2
    <2>2. ASSUME x \in N, y \in N, NEW c \in t.correlations, {c.a, c.b} = {x, y}
          PROVE  <<x, y>> \in edges
      <3>1. (x = c.a /\ y = c.b) \/ (x = c.b /\ y = c.a)
        BY <2>2
      <3>2. has(c)
        BY <2>2, <3>1
      <3> QED
        BY <3>1, <3>2
    <2> QED
      BY <2>1, <2>2
  <1>6. \A x, y : <<x, y>> \in edges => last(<<x, y>>) = last(<<y, x>>)
    <2>1. \A x, y : about(<<x, y>>) = about(<<y, x>>)
      OBVIOUS
    <2> HIDE DEF about
    <2> QED
      BY <2>1
  <1>7. \A e \in edges : e = <<e[1], e[2]>>
    OBVIOUS
  <1>8. \A x, y : <<x, y>> \in edges => <<y, x>> \in edges
    BY <1>5
  <1> HIDE DEF edges, last
  <1> QED
    BY <1>1, <1>4, <1>5, <1>6, <1>7, <1>8 DEF EdgesBothWays

\* Rows of another unit, rows of accounts under the same parent.
LEMMA PeersAreMutual ==
    ASSUME NEW g, NEW k \in DOMAIN g.variances, NEW j \in GetPeerVariances(g, k)
    PROVE  k \in GetPeerVariances(g, j)
    BY DEF GetPeerVariances, RowsBeside

\* Siblings are siblings of each other.
LEMMA SiblingsAreMutual ==
    ASSUME NEW g, NEW k \in DOMAIN g.variances, k.account \in g.accounts,
           NEW j \in GetSiblings(g, k)
    PROVE  k \in GetSiblings(g, j)
  <1> DEFINE siblings(x) == {a \in g.accounts : /\ a # x.account /\ Parent[a] # Null
                                                /\ Parent[a] = Parent[x.account]}
  <1>1. PICK a \in siblings(k) : j \in RowsBeside(g, k, a)
    BY DEF GetSiblings
  <1>2. j.account = a /\ j.period = k.period /\ j.base = k.base /\ j.view = k.view
    BY <1>1 DEF RowsBeside
  <1>3. k.account \in siblings(j)
    BY <1>1, <1>2
  <1>4. k \in RowsBeside(g, j, k.account)
    BY <1>2 DEF RowsBeside
  <1> QED
    BY <1>3, <1>4 DEF GetSiblings


-----------------------------------------------------------------------------
(* Waves *)

\* The breadth first search along edges of a good score, one hop.
Hop(g, w) ==
    LET new == {e[2] : e \in {x \in DOMAIN g.correlations :
                   x[1] \in w.new /\ g.correlations[x] >= MinCausalScore}} \ w.seen
    IN  [seen |-> w.seen \cup new, new |-> new]

Grown(kind, g, w) ==
    CASE kind = "search" -> Hop(g, w)
      [] kind = "under" -> w \cup {b \in Accounts : Parent[b] \in w}
      [] kind = "below" -> w \cup {m \in DOMAIN NodeParent[g] : NodeParent[g][m] \in w}
      [] kind = "above" -> [x \in Accounts |-> IF Parent[x] \notin Accounts THEN <<>>
                                               ELSE <<Parent[x]>> \o w[Parent[x]]]

Wave(kind, g, first, N, w) ==
    w = [n \in 0..N |-> IF n = 0 THEN first ELSE Grown(kind, g, w[n - 1])]

TheWave(kind, g, first, N) == CHOOSE w : Wave(kind, g, first, N, w)

\* Every wave is defined, and goes on from its start.
LEMMA WaveExists ==
    ASSUME NEW kind, NEW g, NEW first, NEW N \in Nat
    PROVE  \E w : Wave(kind, g, first, N, w)
  <1> DEFINE P == {n \in Nat : \E w : Wave(kind, g, first, n, w)}
  <1>1. 0 \in P
    <2>1. Wave(kind, g, first, 0, [n \in 0..0 |-> first])
      BY DEF Wave
    <2> QED
      BY <2>1
  <1>2. ASSUME NEW n \in Nat, n \in P
        PROVE  n + 1 \in P
    <2>1. PICK w : Wave(kind, g, first, n, w)
      BY <1>2
    <2> DEFINE u == [i \in 0..(n + 1) |-> IF i <= n THEN w[i] ELSE Grown(kind, g, w[n])]
    <2>2. \A i \in 0..n : w[i] = IF i = 0 THEN first ELSE Grown(kind, g, w[i - 1])
      BY <2>1 DEF Wave
    <2>3. \A i \in 0..(n + 1) : u[i] = IF i = 0 THEN first ELSE Grown(kind, g, u[i - 1])
      <3> SUFFICES ASSUME NEW i \in 0..(n + 1)
                   PROVE  u[i] = IF i = 0 THEN first ELSE Grown(kind, g, u[i - 1])
        OBVIOUS
      <3>1. CASE i = 0
        BY <2>2, <3>1
      <3>2. CASE i # 0 /\ i <= n
        <4>1. i - 1 \in 0..(n + 1) /\ i - 1 <= n
          BY <3>2
        <4>2. u[i] = w[i] /\ u[i - 1] = w[i - 1]
          BY <3>2, <4>1
        <4> QED
          BY <2>2, <3>2, <4>2
      <3>3. CASE i = n + 1
        <4>1. u[n] = w[n] /\ u[n + 1] = Grown(kind, g, w[n]) /\ i - 1 = n /\ i # 0
          BY <3>3
        <4> QED
          BY <3>3, <4>1
      <3> QED
        BY <3>1, <3>2, <3>3
    <2>4. u = [i \in 0..(n + 1) |-> u[i]]
      OBVIOUS
    <2> HIDE DEF u
    <2>5. Wave(kind, g, first, n + 1, u)
      BY <2>3, <2>4 DEF Wave
    <2> QED
      BY <2>5
  <1> HIDE DEF P
  <1>3. \A n \in Nat : n \in P
    BY <1>1, <1>2, Induction
  <1> QED
    BY <1>3 DEF P

\* Each step of a wave is grown from the one before it.
LEMMA WaveGoesOn ==
    ASSUME NEW kind, NEW g, NEW first, NEW N \in Nat
    PROVE  /\ TheWave(kind, g, first, N)[0] = first
           /\ \A n \in 0..N : n + 1 \in 0..N =>
                 TheWave(kind, g, first, N)[n + 1]
                     = Grown(kind, g, TheWave(kind, g, first, N)[n])
  <1> DEFINE w == TheWave(kind, g, first, N)
  <1>1. Wave(kind, g, first, N, w)
    BY WaveExists DEF TheWave
  <1> HIDE DEF w
  <1>2. w = [n \in 0..N |-> IF n = 0 THEN first ELSE Grown(kind, g, w[n - 1])]
    BY <1>1 DEF Wave
  <1>3. w[0] = first
    BY <1>2
  <1>4. ASSUME NEW n \in 0..N, n + 1 \in 0..N
        PROVE  w[n + 1] = Grown(kind, g, w[n])
    <2>1. n + 1 # 0 /\ (n + 1) - 1 = n
      OBVIOUS
    <2> QED
      BY <1>2, <1>4, <2>1
  <1>5. w = TheWave(kind, g, first, N)
    BY DEF w
  <1> QED
    BY <1>3, <1>4, <1>5

\* The search, as the graph's query runs it.
Search(g, k) == TheWave("search", g, [seen |-> {k}, new |-> {k}], MaxHops)

\* The causes of a row are the rows the search has seen but itself.
LEMMA RootCausesAreFound ==
    ASSUME NEW g, NEW k \in DOMAIN g.variances
    PROVE  GetRootCauseChain(g, k)
             = [j \in Search(g, k)[MaxHops].seen \ {k} |->
                   CHOOSE n \in 1..MaxHops : j \in Search(g, k)[n].new]
  <1> DEFINE next(S) == {e[2] : e \in {x \in DOMAIN g.correlations :
                           x[1] \in S /\ g.correlations[x] >= MinCausalScore}}
             wave[n \in 0..MaxHops] ==
                IF n = 0 THEN [seen |-> {k}, new |-> {k}]
                ELSE LET w == wave[n - 1]
                         new == next(w.new) \ w.seen
                     IN  [seen |-> w.seen \cup new, new |-> new]
  <1>1. wave = Search(g, k)
    BY DEF Search, TheWave, Wave, Grown, Hop
  <1>2. GetRootCauseChain(g, k)
             = [j \in wave[MaxHops].seen \ {k} |-> CHOOSE n \in 1..MaxHops : j \in wave[n].new]
    BY DEF GetRootCauseChain
  <1> HIDE DEF wave
  <1> QED
    BY <1>1, <1>2

\* The accounts under another, and those above one.
LEMMA UnderIsWave ==
    ASSUME NEW a
    PROVE  Under(a) = TheWave("under", <<>>, {a}, Cardinality(Accounts))[Cardinality(Accounts)] \ {a}
  BY DEF Under, TheWave, Wave, Grown


-----------------------------------------------------------------------------
(* The search for root causes *)

\* There is an edge of a good score from one node to another.
Leads(g, x, y) == <<x, y>> \in DOMAIN g.correlations /\ g.correlations[<<x, y>>] >= MinCausalScore

\* The nodes that those in S lead to.
Neighbours(g, S) == {y \in DOMAIN g.variances : \E x \in S : Leads(g, x, y)}

\* A set of nodes has its edges from and to the same nodes.
Mutual(g) ==
    /\ \A x, y : Leads(g, x, y) => Leads(g, y, x) /\ y \in DOMAIN g.variances
    /\ \A e \in DOMAIN g.correlations : e = <<e[1], e[2]>>

\* What a search has seen after a number of hops: no less than before, what is new
\* with it, and all its neighbours.
LEMMA SearchSees ==
    ASSUME NEW g, Mutual(g), NEW k
    PROVE  /\ Search(g, k)[0].seen = {k}
           /\ \A n \in 0..MaxHops : n + 1 \in 0..MaxHops =>
                 /\ Search(g, k)[n + 1].seen
                       = Search(g, k)[n].seen \cup Neighbours(g, Search(g, k)[n].seen)
                 /\ Search(g, k)[n + 1].new
                       = Search(g, k)[n + 1].seen \ Search(g, k)[n].seen
  <1> DEFINE s == Search(g, k)
             seen(n) == s[n].seen
             new(n) == s[n].new
             next(S) == Neighbours(g, S)
  <1>1. MaxHops \in Nat
    BY CascadeConstantsOK
  <1>2. /\ s[0] = [seen |-> {k}, new |-> {k}]
        /\ \A n \in 0..MaxHops : n + 1 \in 0..MaxHops => s[n + 1] = Hop(g, s[n])
    <2> DEFINE first == [seen |-> {k}, new |-> {k}]
               w == TheWave("search", g, first, MaxHops)
    <2>1. w[0] = first /\ \A n \in 0..MaxHops : n + 1 \in 0..MaxHops =>
              w[n + 1] = Grown("search", g, w[n])
      BY ONLY <1>1, WaveGoesOn
    <2>2. \A x : Grown("search", g, x) = Hop(g, x)
      BY DEF Grown
    <2>3. w = s
      BY DEF Search
    <2> HIDE DEF w, s
    <2> QED
      BY <2>1, <2>2, <2>3
  <1> HIDE DEF s
  <1>3. \A S : {e[2] : e \in {x \in DOMAIN g.correlations :
                    x[1] \in S /\ g.correlations[x] >= MinCausalScore}} = next(S)
    <2> SUFFICES ASSUME NEW S
                 PROVE  {e[2] : e \in {x \in DOMAIN g.correlations :
                           x[1] \in S /\ g.correlations[x] >= MinCausalScore}} = next(S)
      OBVIOUS
    <2> USE DEF Neighbours
    <2> DEFINE from == {e[2] : e \in {x \in DOMAIN g.correlations :
                           x[1] \in S /\ g.correlations[x] >= MinCausalScore}}
    <2>1. ASSUME NEW y \in from
          PROVE  y \in next(S)
      <3>1. PICK e \in DOMAIN g.correlations :
               e[1] \in S /\ g.correlations[e] >= MinCausalScore /\ y = e[2]
        BY <2>1
      <3>2. e = <<e[1], y>>
        BY <3>1 DEF Mutual
      <3>3. Leads(g, e[1], y)
        BY <3>1, <3>2 DEF Leads
      <3> QED
        BY <3>1, <3>3 DEF Mutual
    <2>2. ASSUME NEW y \in next(S)
          PROVE  y \in from
      <3> HIDE DEF from
      <3>1. PICK x \in S : Leads(g, x, y)
        OBVIOUS
      <3> USE DEF from
      <3> DEFINE e == <<x, y>>
      <3>2. e \in DOMAIN g.correlations /\ g.correlations[e] >= MinCausalScore
            /\ e[1] = x /\ e[2] = y
        BY <3>1 DEF Leads
      <3> QED
        BY <3>1, <3>2
    <2> QED
      BY <2>1, <2>2
  <1> HIDE DEF next
  <1>4. /\ seen(0) = {k} /\ new(0) = {k}
        /\ \A n \in 0..MaxHops : n + 1 \in 0..MaxHops =>
              /\ new(n + 1) = next(new(n)) \ seen(n)
              /\ seen(n + 1) = seen(n) \cup new(n + 1)
    <2>1. \A w : Hop(g, w).new = next(w.new) \ w.seen /\ Hop(g, w).seen = w.seen \cup Hop(g, w).new
      BY <1>3 DEF Hop
    <2> QED
      BY <1>2, <2>1
  <1> HIDE DEF seen, new
  <1> DEFINE P == {n \in Nat : n + 1 \in 0..MaxHops => next(seen(n)) \subseteq seen(n + 1)}
  <1>5. 0 \in P
    BY <1>1, <1>4
  <1>6. ASSUME NEW n \in Nat, n \in P
        PROVE  n + 1 \in P
    <2> DEFINE m == n + 1
    <2> SUFFICES ASSUME m + 1 \in 0..MaxHops
                 PROVE  next(seen(m)) \subseteq seen(m + 1)
      OBVIOUS
    <2>1. n \in 0..MaxHops /\ m \in 0..MaxHops
      BY <1>1
    <2>2. next(seen(n)) \subseteq seen(m)
      BY <1>6, <2>1
    <2>3. seen(m) = seen(n) \cup new(m) /\ seen(m + 1) = seen(m) \cup (next(new(m)) \ seen(m))
      BY <1>4, <2>1
    <2>4. next(seen(m)) = next(seen(n)) \cup next(new(m))
      BY <2>3 DEF next, Neighbours
    <2> QED
      BY <2>2, <2>3, <2>4
  <1>7. \A n \in Nat : n \in P
    <2> HIDE DEF P
    <2> QED
      BY <1>5, <1>6, Induction
  <1>8. ASSUME NEW n \in 0..MaxHops
        PROVE  new(n) \subseteq seen(n)
    <2>1. CASE n = 0
      BY <1>4, <2>1
    <2>2. CASE n # 0
      <3>1. n - 1 \in 0..MaxHops /\ (n - 1) + 1 = n
        BY <1>1, <2>2
      <3>2. seen(n) = seen(n - 1) \cup new(n)
        BY <1>4, <3>1
      <3> QED
        BY <3>2
    <2> QED
      BY <2>1, <2>2
  <1>9. ASSUME NEW n \in 0..MaxHops, n + 1 \in 0..MaxHops
        PROVE  seen(n + 1) = seen(n) \cup next(seen(n)) /\ new(n + 1) = seen(n + 1) \ seen(n)
    <2>1. next(seen(n)) \subseteq seen(n + 1)
      BY <1>7, <1>9
    <2>2. new(n + 1) = next(new(n)) \ seen(n) /\ seen(n + 1) = seen(n) \cup new(n + 1)
      BY <1>4, <1>9
    <2>3. next(new(n)) \subseteq next(seen(n))
      BY <1>8 DEF next, Neighbours
    <2> QED
      BY <2>1, <2>2, <2>3
  <1>10. s[0].seen = {k}
    BY <1>2
  <1> QED
    BY <1>9, <1>10 DEF s, seen, new, next

\* Two nodes see each other after the same number of hops.
LEMMA SightIsMutual ==
    ASSUME NEW g, Mutual(g)
    PROVE  \A n \in 0..MaxHops : \A j, k \in DOMAIN g.variances :
              j \in Search(g, k)[n].seen => k \in Search(g, j)[n].seen
  <1> DEFINE N == DOMAIN g.variances
             seen(n, k) == Search(g, k)[n].seen
  <1>1. MaxHops \in Nat
    BY CascadeConstantsOK
  <1>2. ASSUME NEW k
        PROVE  seen(0, k) = {k}
    BY SearchSees
  <1>3. ASSUME NEW n \in 0..MaxHops, n + 1 \in 0..MaxHops
        PROVE  \A k : seen(n + 1, k) = seen(n, k) \cup Neighbours(g, seen(n, k))
    <2> SUFFICES ASSUME NEW k
                 PROVE  seen(n + 1, k)
                          = seen(n, k) \cup Neighbours(g, seen(n, k))
      OBVIOUS
    <2> HIDE DEF seen, N
    <2>1. Search(g, k)[n + 1].seen
             = Search(g, k)[n].seen \cup Neighbours(g, Search(g, k)[n].seen)
      BY <1>3, SearchSees
    <2> QED
      BY <2>1 DEF seen, N
  <1> HIDE DEF seen, N
  <1> DEFINE P == {n \in Nat : n + 1 \in 0..MaxHops =>
                      \A x, y, z \in N : Leads(g, x, z) /\ y \in seen(n, z) => y \in seen(n + 1, x)}
  <1>4. 0 \in P
    <2> SUFFICES ASSUME 1 \in 0..MaxHops, NEW x \in N, NEW y \in N, NEW z \in N,
                        Leads(g, x, z), y \in seen(0, z)
                 PROVE  y \in seen(1, x)
      OBVIOUS
    <2>1. y = z /\ x \in seen(0, x)
      BY <1>2
    <2>2. seen(0 + 1, x) = seen(0, x) \cup Neighbours(g, seen(0, x))
      BY <1>1, <1>3
    <2> QED
      BY <2>1, <2>2 DEF Neighbours, N
  <1>5. ASSUME NEW n \in Nat, n \in P
        PROVE  n + 1 \in P
    <2> DEFINE m == n + 1
    <2> SUFFICES ASSUME m + 1 \in 0..MaxHops, NEW x \in N, NEW y \in N, NEW z \in N,
                        Leads(g, x, z), y \in seen(m, z)
                 PROVE  y \in seen(m + 1, x)
      OBVIOUS
    <2>1. n \in 0..MaxHops /\ m \in 0..MaxHops
      BY <1>1
    <2>2. \A u, t \in N : Leads(g, u, t) => seen(n, t) \cap N \subseteq seen(m, u)
      BY <1>5, <2>1
    <2>3. seen(m, z) = seen(n, z) \cup Neighbours(g, seen(n, z))
          /\ seen(m + 1, x) = seen(m, x) \cup Neighbours(g, seen(m, x))
      BY <1>3, <2>1
    <2>4. CASE y \in seen(n, z)
      BY <2>2, <2>3, <2>4
    <2>5. ASSUME NEW t \in seen(n, z), Leads(g, t, y)
          PROVE  y \in seen(m + 1, x)
      <3>1. t \in N
        BY <2>5 DEF Mutual, N
      <3>2. t \in seen(m, x)
        BY <2>2, <2>5, <3>1
      <3> QED
        BY <2>3, <2>5, <3>2 DEF Neighbours, N
    <2> QED
      BY <2>3, <2>4, <2>5 DEF Neighbours, N
  <1>6. \A n \in Nat : n \in P
    <2> HIDE DEF P
    <2> QED
      BY <1>4, <1>5, Induction
  <1> DEFINE Q == {n \in Nat : n \in 0..MaxHops =>
                      \A j, k \in N : j \in seen(n, k) => k \in seen(n, j)}
  <1>7. 0 \in Q
    BY <1>2
  <1>8. ASSUME NEW n \in Nat, n \in Q
        PROVE  n + 1 \in Q
    <2> DEFINE m == n + 1
    <2> SUFFICES ASSUME m \in 0..MaxHops, NEW j \in N, NEW k \in N, j \in seen(m, k)
                 PROVE  k \in seen(m, j)
      OBVIOUS
    <2>1. n \in 0..MaxHops
      BY <1>1
    <2>2. \A u, t \in N : u \in seen(n, t) => t \in seen(n, u)
      BY <1>8, <2>1
    <2>3. seen(m, k) = seen(n, k) \cup Neighbours(g, seen(n, k))
          /\ seen(m, j) = seen(n, j) \cup Neighbours(g, seen(n, j))
      BY <1>3, <2>1
    <2>4. CASE j \in seen(n, k)
      BY <2>2, <2>3, <2>4
    <2>5. ASSUME NEW t \in seen(n, k), Leads(g, t, j)
          PROVE  k \in seen(m, j)
      <3>1. t \in N /\ Leads(g, j, t)
        BY <2>5 DEF Mutual, N
      <3>2. k \in seen(n, t)
        BY <2>2, <2>5, <3>1
      <3> QED
        BY <1>6, <3>1, <3>2
    <2> QED
      BY <2>3, <2>4, <2>5 DEF Neighbours, N
  <1>9. \A n \in Nat : n \in Q
    <2> HIDE DEF Q
    <2> QED
      BY <1>7, <1>8, Induction
  <1> QED
    BY <1>1, <1>9 DEF N, seen

\* So each is as far from the other on the way to a root cause.
LEMMA RootCausesAreMutual ==
    ASSUME NEW g, Mutual(g), NEW k \in DOMAIN g.variances,
           NEW j \in DOMAIN GetRootCauseChain(g, k)
    PROVE  /\ j \in DOMAIN g.variances
           /\ k \in DOMAIN GetRootCauseChain(g, j)
           /\ GetRootCauseChain(g, j)[k] = GetRootCauseChain(g, k)[j]
  <1> DEFINE N == DOMAIN g.variances
             seen(n, x) == Search(g, x)[n].seen
             new(n, x) == Search(g, x)[n].new
             hops(x, y) == CHOOSE n \in 1..MaxHops : y \in Search(g, x)[n].new
  <1>1. MaxHops \in Nat
    BY CascadeConstantsOK
  <1>2. \A x \in N : GetRootCauseChain(g, x) = [y \in seen(MaxHops, x) \ {x} |-> hops(x, y)]
    BY RootCausesAreFound
  <1>3. j \in seen(MaxHops, k) /\ j # k
    BY <1>2
  <1>4. /\ \A x : seen(0, x) = {x}
        /\ \A n \in 0..MaxHops : \A x : n + 1 \in 0..MaxHops =>
              /\ seen(n + 1, x) = seen(n, x) \cup Neighbours(g, seen(n, x))
              /\ new(n + 1, x) = seen(n + 1, x) \ seen(n, x)
    <2>1. ASSUME NEW x
          PROVE  seen(0, x) = {x}
      BY SearchSees
    <2>2. ASSUME NEW n \in 0..MaxHops, NEW x, n + 1 \in 0..MaxHops
          PROVE  /\ seen(n + 1, x)
                      = seen(n, x) \cup Neighbours(g, seen(n, x))
                 /\ new(n + 1, x) = seen(n + 1, x) \ seen(n, x)
      <3>1. /\ Search(g, x)[n + 1].seen
                  = Search(g, x)[n].seen \cup Neighbours(g, Search(g, x)[n].seen)
            /\ Search(g, x)[n + 1].new = Search(g, x)[n + 1].seen \ Search(g, x)[n].seen
        BY <2>2, SearchSees
      <3> QED
        BY <3>1
    <2> HIDE DEF seen, new, N
    <2> QED
      BY <2>1, <2>2
  <1>5. \A n \in 0..MaxHops : \A x, y \in N : x \in seen(n, y) => y \in seen(n, x)
    BY SightIsMutual
  <1>6. j \in N
    <2> HIDE DEF seen, new, N
    <2> DEFINE P == {n \in Nat : n \in 0..MaxHops => seen(n, k) \subseteq N \cup {k}}
    <2>1. 0 \in P
      BY <1>4
    <2>2. ASSUME NEW n \in Nat, n \in P
          PROVE  n + 1 \in P
      <3> SUFFICES ASSUME n + 1 \in 0..MaxHops
                   PROVE  seen(n + 1, k) \subseteq N \cup {k}
        OBVIOUS
      <3>1. n \in 0..MaxHops
        BY <1>1
      <3> QED
        BY <1>4, <2>2, <3>1 DEF Neighbours, N
    <2>3. \A n \in Nat : n \in P
      <3> HIDE DEF P
      <3> QED
        BY <2>1, <2>2, Induction
    <2> QED
      BY <1>1, <1>3, <2>3
  <1>7. k \in N /\ k \in seen(MaxHops, j)
    BY <1>1, <1>3, <1>5, <1>6
  <1>8. ASSUME NEW n \in 1..MaxHops
        PROVE  j \in new(n, k) <=> k \in new(n, j)
    <2> HIDE DEF seen, new, N
    <2>1. n \in 0..MaxHops /\ n - 1 \in 0..MaxHops /\ (n - 1) + 1 = n
      BY <1>1
    <2>2. \A x : new(n, x) = seen(n, x) \ seen(n - 1, x)
      BY <1>4, <2>1
    <2> QED
      BY <1>5, <1>6, <1>7, <2>1, <2>2
  <1>9. hops(k, j) = hops(j, k)
    BY <1>8
  <1> HIDE DEF hops, seen, new
  <1> QED
    BY <1>2, <1>3, <1>6, <1>7, <1>9


\* A graph of saved tables has its edges both ways.
LEMMA GraphIsMutual ==
    ASSUME NEW v \in Versions, NEW p \in Periods, NEW g, g = Graph(v, p)
    PROVE  Mutual(g)
  <1>1. /\ \A x, y : <<x, y>> \in DOMAIN g.correlations <=>
                 /\ x \in DOMAIN g.variances /\ y \in DOMAIN g.variances
                 /\ \E c \in Outputs[v].correlations : {c.a, c.b} = {x, y}
        /\ \A x, y : <<x, y>> \in DOMAIN g.correlations =>
                 g.correlations[<<x, y>>] = g.correlations[<<y, x>>]
        /\ \A e \in DOMAIN g.correlations : e = <<e[1], e[2]>>
    BY EdgesAreMutual DEF EdgesBothWays
  <1>2. ASSUME NEW x, NEW y, Leads(g, x, y)
        PROVE  Leads(g, y, x) /\ y \in DOMAIN g.variances
    <2>1. <<x, y>> \in DOMAIN g.correlations
      BY <1>2 DEF Leads
    <2>2. PICK c \in Outputs[v].correlations : {c.a, c.b} = {x, y}
      BY <1>1, <2>1
    <2>3. {c.a, c.b} = {y, x}
      BY <2>2
    <2>4. <<y, x>> \in DOMAIN g.correlations
      BY <1>1, <2>1, <2>3
    <2> QED
      BY <1>1, <1>2, <2>1, <2>4 DEF Leads
  <1> QED
    BY <1>1, <1>2 DEF Mutual

\* The nodes one edge away: those the edges of a node lead to.
LEMMA NeighbourhoodIsFound ==
    ASSUME NEW g, NEW k \in DOMAIN g.variances
    PROVE  ExtractStorySubgraph(g, k, 1)
             = {k} \cup {e[2] : e \in {x \in DOMAIN g.correlations : x[1] = k}}
  <1> DEFINE around(S) == S \cup {e[2] : e \in {x \in DOMAIN g.correlations : x[1] \in S}}
             IsWithin(w) == w = [n \in 0..1 |-> IF n = 0 THEN {k} ELSE around(w[n - 1])]
             within == CHOOSE w : IsWithin(w)
  <1>1. \E w : IsWithin(w)
    <2> DEFINE w == [n \in 0..1 |-> IF n = 0 THEN {k} ELSE around({k})]
    <2> HIDE DEF around
    <2>1. w[0] = {k}
      OBVIOUS
    <2>2. \A n \in 0..1 : n # 0 => n - 1 = 0
      OBVIOUS
    <2>3. \A n \in 0..1 : w[n] = IF n = 0 THEN {k} ELSE around(w[n - 1])
      BY <2>1, <2>2
    <2>4. w = [n \in 0..1 |-> IF n = 0 THEN {k} ELSE around(w[n - 1])]
      BY <2>3
    <2> QED
      BY <2>4
  <1>2. IsWithin(within)
    BY <1>1
  <1>3. ExtractStorySubgraph(g, k, 1) = within[1]
    BY DEF ExtractStorySubgraph
  <1> HIDE DEF within
  <1>4. within[1] = around({k})
    <2> HIDE DEF around
    <2>1. within[0] = {k} /\ within[1] = around(within[0])
      BY <1>2
    <2> QED
      BY <2>1
  <1> QED
    BY <1>3, <1>4

\* Of two rows, each is in the neighbourhood of the other or neither is.
LEMMA NeighbourhoodsAreMutual ==
    ASSUME NEW v \in Versions, NEW p \in Periods, NEW g, g = Graph(v, p),
           NEW k \in DOMAIN g.variances, NEW j \in ExtractStorySubgraph(g, k, 1)
    PROVE  k \in ExtractStorySubgraph(g, j, 1)
  <1>1. /\ \A x, y : <<x, y>> \in DOMAIN g.correlations <=>
                 /\ x \in DOMAIN g.variances /\ y \in DOMAIN g.variances
                 /\ \E c \in Outputs[v].correlations : {c.a, c.b} = {x, y}
        /\ \A e \in DOMAIN g.correlations : e = <<e[1], e[2]>>
    BY EdgesAreMutual DEF EdgesBothWays
  <1>2. CASE j = k
    BY <1>2
  <1>3. CASE j # k
    <2>1. PICK e \in DOMAIN g.correlations : e[1] = k /\ e[2] = j
      BY <1>3, NeighbourhoodIsFound
    <2>2. <<k, j>> \in DOMAIN g.correlations
      BY <1>1, <2>1
    <2>3. PICK c \in Outputs[v].correlations : {c.a, c.b} = {k, j}
      BY <1>1, <2>2
    <2>4. j \in DOMAIN g.variances /\ {c.a, c.b} = {j, k}
      BY <1>1, <2>2, <2>3
    <2> DEFINE f == <<j, k>>
    <2>5. f \in DOMAIN g.correlations /\ f[1] = j /\ f[2] = k
      BY <1>1, <2>4
    <2> HIDE DEF f
    <2> QED
      BY <2>4, <2>5, NeighbourhoodIsFound
  <1> QED
    BY <1>2, <1>3

\* The page of a variance and the graph know the same correlations of it.
LEMMA PageShowsEdges ==
    ASSUME NEW v \in Versions, NEW p \in Periods, NEW g, g = Graph(v, p),
           NEW k \in DOMAIN g.variances
    PROVE  {c.other : c \in GetVarianceDetail(Outputs[v], k).correlations} \cap DOMAIN g.variances
             = {c.partner : c \in GetCorrelations(g, k)}
  <1> DEFINE t == Outputs[v]
             N == DOMAIN g.variances
             others == {IF c.a = k THEN c.b ELSE c.a : c \in {d \in t.correlations : k \in {d.a, d.b}}}
             ends == {e[2] : e \in {x \in DOMAIN g.correlations : x[1] = k}}
  <1>1. /\ \A x, y : <<x, y>> \in DOMAIN g.correlations <=>
                 /\ x \in N /\ y \in N
                 /\ \E c \in t.correlations : {c.a, c.b} = {x, y}
        /\ \A e \in DOMAIN g.correlations : e = <<e[1], e[2]>>
    BY EdgesAreMutual DEF EdgesBothWays
  <1>2. k \in DOMAIN t.material
    <2>1. N = {j \in DOMAIN Outputs[v].material : j.period = p}
      BY GraphParts
    <2> QED
      BY <2>1
  <1> HIDE DEF t, N
  <1>3. {c.other : c \in GetVarianceDetail(t, k).correlations} = others
    <2>1. GetVarianceDetail(t, k).correlations
            = {[other |-> IF c.a = k THEN c.b ELSE c.a, score |-> c.score] :
                   c \in {d \in t.correlations : k \in {d.a, d.b}}}
      BY <1>2 DEF GetVarianceDetail
    <2>2. \A c \in t.correlations : [other |-> IF c.a = k THEN c.b ELSE c.a, score |-> c.score].other
                                      = IF c.a = k THEN c.b ELSE c.a
      OBVIOUS
    <2>3. \A c \in GetVarianceDetail(t, k).correlations : c.other \in others
      BY <2>1, <2>2
    <2>4. ASSUME NEW y \in others
          PROVE  \E c \in GetVarianceDetail(t, k).correlations : c.other = y
      <3>1. PICK c \in t.correlations : k \in {c.a, c.b} /\ y = IF c.a = k THEN c.b ELSE c.a
        OBVIOUS
      <3> DEFINE r == [other |-> IF c.a = k THEN c.b ELSE c.a, score |-> c.score]
      <3>2. r \in GetVarianceDetail(t, k).correlations
        BY <2>1, <3>1
      <3>3. r.other = y
        BY <3>1
      <3> QED
        BY <3>2, <3>3
    <2> HIDE DEF others
    <2> QED
      BY <2>3, <2>4
  <1>4. {c.partner : c \in GetCorrelations(g, k)} = ends
    <2>1. GetCorrelations(g, k) = {[partner |-> e[2], score |-> g.correlations[e]] :
                                      e \in {x \in DOMAIN g.correlations : x[1] = k}}
      BY DEF GetCorrelations
    <2>2. \A c \in GetCorrelations(g, k) : c.partner \in ends
      BY <2>1
    <2>3. ASSUME NEW y \in ends
          PROVE  \E c \in GetCorrelations(g, k) : c.partner = y
      <3>1. PICK e \in DOMAIN g.correlations : e[1] = k /\ e[2] = y
        OBVIOUS
      <3> DEFINE r == [partner |-> e[2], score |-> g.correlations[e]]
      <3>2. r \in GetCorrelations(g, k) /\ r.partner = y
        BY <2>1, <3>1
      <3> QED
        BY <3>2
    <2> HIDE DEF ends
    <2> QED
      BY <2>2, <2>3
  <1>5. ASSUME NEW y \in others, y \in N
        PROVE  y \in ends
    <2>1. PICK c \in t.correlations : k \in {c.a, c.b} /\ y = IF c.a = k THEN c.b ELSE c.a
      BY <1>5
    <2>2. {c.a, c.b} = {k, y}
      BY <2>1
    <2> DEFINE e == <<k, y>>
    <2>3. e \in DOMAIN g.correlations /\ e[1] = k /\ e[2] = y
      BY <1>1, <1>5, <2>2 DEF N
    <2> HIDE DEF e
    <2> QED
      BY <2>3
  <1>6. ASSUME NEW y \in ends
        PROVE  y \in others /\ y \in N
    <2>1. PICK e \in DOMAIN g.correlations : e[1] = k /\ e[2] = y
      BY <1>6
    <2>2. <<k, y>> \in DOMAIN g.correlations
      BY <1>1, <2>1
    <2>3. PICK c \in t.correlations : {c.a, c.b} = {k, y}
      BY <1>1, <2>2
    <2>4. k \in {c.a, c.b} /\ y = IF c.a = k THEN c.b ELSE c.a
      BY <2>3
    <2> QED
      BY <1>1, <2>2, <2>4
  <1> HIDE DEF others, ends
  <1>7. others \cap N = ends
    BY <1>5, <1>6
  <1> QED
    BY <1>3, <1>4, <1>7 DEF t, N

\* Relations between variances in a graph of any saved tables are mutual: siblings,
\* peers, neighbours and the hops to a root cause; and the page of a variance tells
\* the correlations that the graph has.
THEOREM GraphRelations == Spec => []RelationsAreMutual
  <1>1. TypeInv => RelationsAreMutual
    <2> SUFFICES ASSUME TypeInv, NEW p \in Periods
                 PROVE  LET g == Graph(disk, p)
                            near(k) == GetRootCauseChain(g, k)
                        IN  \A k \in DOMAIN g.variances :
               /\ \A j \in DOMAIN near(k) : k \in DOMAIN near(j) /\ near(j)[k] = near(k)[j]
               /\ \A j \in GetPeerVariances(g, k) : k \in GetPeerVariances(g, j)
               /\ \A j \in GetSiblings(g, k) : k \in GetSiblings(g, j)
               /\ \A j \in ExtractStorySubgraph(g, k, 1) : k \in ExtractStorySubgraph(g, j, 1)
               /\ {c.other : c \in GetVarianceDetail(Outputs[disk], k).correlations}
                      \cap DOMAIN g.variances = {c.partner : c \in GetCorrelations(g, k)}
      BY DEF RelationsAreMutual
    <2> DEFINE g == Graph(disk, p)
    <2>1. disk \in Versions
      BY DEF TypeInv
    <2> SUFFICES ASSUME NEW k \in DOMAIN g.variances
                 PROVE
               /\ \A j \in DOMAIN GetRootCauseChain(g, k) :
                     /\ k \in DOMAIN GetRootCauseChain(g, j)
                     /\ GetRootCauseChain(g, j)[k] = GetRootCauseChain(g, k)[j]
               /\ \A j \in GetPeerVariances(g, k) : k \in GetPeerVariances(g, j)
               /\ \A j \in GetSiblings(g, k) : k \in GetSiblings(g, j)
               /\ \A j \in ExtractStorySubgraph(g, k, 1) : k \in ExtractStorySubgraph(g, j, 1)
               /\ {c.other : c \in GetVarianceDetail(Outputs[disk], k).correlations}
                      \cap DOMAIN g.variances = {c.partner : c \in GetCorrelations(g, k)}
      OBVIOUS
    <2>2. Mutual(g)
      BY <2>1, GraphIsMutual
    <2>3. k.account \in g.accounts
      <3>1. g.accounts = Accounts /\ DOMAIN g.variances \subseteq AllKeys
        BY <2>1, GraphParts
      <3> QED
        BY <3>1 DEF AllKeys
    <2>4. {c.other : c \in GetVarianceDetail(Outputs[disk], k).correlations}
             \cap DOMAIN g.variances = {c.partner : c \in GetCorrelations(g, k)}
      BY <2>1, PageShowsEdges
    <2>5. \A j \in ExtractStorySubgraph(g, k, 1) : k \in ExtractStorySubgraph(g, j, 1)
      BY <2>1, NeighbourhoodsAreMutual
    <2> HIDE DEF g
    <2>6. \A j \in DOMAIN GetRootCauseChain(g, k) :
             /\ k \in DOMAIN GetRootCauseChain(g, j)
             /\ GetRootCauseChain(g, j)[k] = GetRootCauseChain(g, k)[j]
      BY <2>2, RootCausesAreMutual
    <2>7. \A j \in GetPeerVariances(g, k) : k \in GetPeerVariances(g, j)
      BY PeersAreMutual
    <2>8. \A j \in GetSiblings(g, k) : k \in GetSiblings(g, j)
      BY <2>3, SiblingsAreMutual
    <2> QED
      BY <2>4, <2>5, <2>6, <2>7, <2>8
  <1> QED
    BY <1>1, TypeInvariant, PTL

-----------------------------------------------------------------------------
(* The accounts above *)

\* The lists of accounts above each, as long as n lets them be.
Above(n) ==
    TheWave("above", <<>>, [x \in Accounts |-> <<>>], Cardinality(Accounts))[n]

\* The ancestors of an account are a wave that grows upwards.
LEMMA AncestorsAreAbove ==
    ASSUME NEW g, g.accounts = Accounts, NEW a \in Accounts
    PROVE  GetAccountAncestors(g, a) = Above(Cardinality(Accounts))[a]
  BY DEF GetAccountAncestors, Above, TheWave, Wave, Grown

\* One account more at a time, from the parent on.
LEMMA AboveGoesOn ==
    ASSUME NEW N \in Nat, N = Cardinality(Accounts)
    PROVE  \A x \in Accounts, n \in 0..N :
              /\ n + 1 \in 0..N /\ Parent[x] \in Accounts =>
                    ToSet(Above(n + 1)[x]) = {Parent[x]} \cup ToSet(Above(n)[Parent[x]])
              /\ n = 0 \/ Parent[x] \notin Accounts => ToSet(Above(n)[x]) = {}
  <1> DEFINE first == [x \in Accounts |-> <<>>]
             w == TheWave("above", <<>>, first, N)
             step(v) == [x \in Accounts |-> IF Parent[x] \notin Accounts THEN <<>>
                                            ELSE <<Parent[x]>> \o v[Parent[x]]]
  <1>1. /\ w[0] = first
        /\ \A n \in 0..N : n + 1 \in 0..N => w[n + 1] = step(w[n])
    <2>1. w[0] = first /\ \A n \in 0..N : n + 1 \in 0..N =>
              w[n + 1] = Grown("above", <<>>, w[n])
      BY ONLY N \in Nat, WaveGoesOn
    <2>2. \A v : Grown("above", <<>>, v) = step(v)
      BY DEF Grown
    <2> HIDE DEF w, step, first
    <2> QED
      BY <2>1, <2>2
  <1>2. \A n : w[n] = Above(n)
    BY DEF Above
  <1> HIDE DEF w
  <1>3. \A x \in Accounts : w[0][x] = <<>>
    BY <1>1
  <1>4. \A x \in Accounts, n \in 0..N : n + 1 \in 0..N =>
           w[n + 1][x] = IF Parent[x] \notin Accounts THEN <<>>
                         ELSE <<Parent[x]>> \o w[n][Parent[x]]
    BY <1>1
  <1> DEFINE P == {n \in Nat : n \in 0..N => \A x \in Accounts : w[n][x] \in Seq(Accounts)}
  <1>5. 0 \in P
    BY <1>3, EmptySeq
  <1>6. ASSUME NEW n \in Nat, n \in P
        PROVE  n + 1 \in P
    <2> SUFFICES ASSUME n + 1 \in 0..N, NEW x \in Accounts
                 PROVE  w[n + 1][x] \in Seq(Accounts)
      OBVIOUS
    <2>1. n \in 0..N
      OBVIOUS
    <2>2. w[n + 1][x] = IF Parent[x] \notin Accounts THEN <<>>
                        ELSE <<Parent[x]>> \o w[n][Parent[x]]
      BY <1>4, <2>1
    <2>3. CASE Parent[x] \notin Accounts
      BY <2>2, <2>3, EmptySeq
    <2>4. CASE Parent[x] \in Accounts
      <3>1. w[n][Parent[x]] \in Seq(Accounts)
        BY <1>6, <2>1, <2>4
      <3>2. <<Parent[x]>> \o w[n][Parent[x]] \in Seq(Accounts)
        BY ONLY <2>4, <3>1, MembersOfPrefixed
      <3> QED
        BY <2>2, <2>4, <3>2
    <2> QED
      BY <2>3, <2>4
  <1>7. \A n \in Nat : n \in P
    <2> HIDE DEF P
    <2> QED
      BY <1>5, <1>6, Induction
  <1>8. ASSUME NEW x \in Accounts, NEW n \in 0..N, n + 1 \in 0..N, Parent[x] \in Accounts
        PROVE  ToSet(w[n + 1][x]) = {Parent[x]} \cup ToSet(w[n][Parent[x]])
    <2>1. w[n + 1][x] = <<Parent[x]>> \o w[n][Parent[x]]
      BY <1>4, <1>8
    <2>2. w[n][Parent[x]] \in Seq(Accounts)
      BY <1>7, <1>8
    <2>3. ToSet(<<Parent[x]>> \o w[n][Parent[x]]) = ToSet(w[n][Parent[x]]) \cup {Parent[x]}
      BY ONLY <1>8, <2>2, MembersOfPrefixed
    <2> QED
      BY <2>1, <2>3
  <1>9. ASSUME NEW x \in Accounts, NEW n \in 0..N, n = 0 \/ Parent[x] \notin Accounts
        PROVE  ToSet(w[n][x]) = {}
    <2>1. w[n][x] = <<>>
      <3>1. CASE n = 0
        BY <1>3, <3>1
      <3>2. CASE n # 0
        <4>1. n - 1 \in 0..N /\ (n - 1) + 1 = n
          BY <3>2
        <4> QED
          BY <1>4, <1>9, <3>2, <4>1
      <3> QED
        BY <3>1, <3>2
    <2> QED
      BY <2>1 DEF ToSet
  <1> QED
    BY <1>2, <1>8, <1>9

\* Whoever is under an account has it among its ancestors.
LEMMA AncestorsFound ==
    ASSUME NEW g, g.accounts = Accounts, NEW a \in Accounts, NEW b \in Under(a)
    PROVE  a \in ToSet(GetAccountAncestors(g, b)) /\ b # a
  <1> DEFINE N == Cardinality(Accounts)
             w == TheWave("under", <<>>, {a}, N)
             f(x, n) == ToSet(Above(n)[x])
  <1>1. N \in Nat
    BY MembersFinite, AccountsOK, FS_CardinalityType DEF AccountsOK, Accounts
  <1>2. /\ w[0] = {a}
        /\ \A n \in 0..N : n + 1 \in 0..N => w[n + 1] = w[n] \cup {x \in Accounts : Parent[x] \in w[n]}
    <2> HIDE DEF N
    <2>1. w[0] = {a} /\ \A n \in 0..N : n + 1 \in 0..N => w[n + 1] = Grown("under", <<>>, w[n])
      BY ONLY <1>1, WaveGoesOn
    <2>2. \A v : Grown("under", <<>>, v) = v \cup {x \in Accounts : Parent[x] \in v}
      BY DEF Grown
    <2> HIDE DEF w
    <2> QED
      BY <2>1, <2>2
  <1>3. b \in w[N] /\ b # a
    BY UnderIsWave
  <1>4. /\ \A x \in Accounts, n \in 0..N : n + 1 \in 0..N /\ Parent[x] \in Accounts =>
              f(x, n + 1) = {Parent[x]} \cup f(Parent[x], n)
        /\ \A x \in Accounts, n \in 0..N : n = 0 \/ Parent[x] \notin Accounts => f(x, n) = {}
    <2>1. N = Cardinality(Accounts)
      OBVIOUS
    <2> HIDE DEF N
    <2> QED
      BY ONLY <1>1, <2>1, AboveGoesOn
  <1> HIDE DEF w, f, N
  \* More steps, more accounts.
  <1> DEFINE P == {n \in Nat : n + 1 \in 0..N => \A x \in Accounts : f(x, n) \subseteq f(x, n + 1)}
  <1>5. 0 \in P
    BY <1>1, <1>4
  <1>6. ASSUME NEW n \in Nat, n \in P
        PROVE  n + 1 \in P
    <2> DEFINE m == n + 1
    <2> SUFFICES ASSUME m + 1 \in 0..N, NEW x \in Accounts
                 PROVE  f(x, m) \subseteq f(x, m + 1)
      OBVIOUS
    <2>1. n \in 0..N /\ m \in 0..N
      BY <1>1
    <2>2. CASE Parent[x] \notin Accounts
      BY <1>4, <2>1, <2>2
    <2>3. CASE Parent[x] \in Accounts
      <3>1. f(x, m) = {Parent[x]} \cup f(Parent[x], n)
            /\ f(x, m + 1) = {Parent[x]} \cup f(Parent[x], m)
        BY <1>4, <2>1, <2>3
      <3>2. f(Parent[x], n) \subseteq f(Parent[x], m)
        BY <1>6, <2>1, <2>3
      <3> QED
        BY <3>1, <3>2
    <2> QED
      BY <2>2, <2>3
  <1>7. \A n \in Nat : n \in P
    <2> HIDE DEF P
    <2> QED
      BY <1>5, <1>6, Induction
  <1> DEFINE Q == {n \in Nat : n \in 0..N =>
                      \A x \in w[n] : x \in Accounts /\ (x = a \/ a \in f(x, n))}
  <1>8. 0 \in Q
    BY <1>2
  <1>9. ASSUME NEW n \in Nat, n \in Q
        PROVE  n + 1 \in Q
    <2> DEFINE m == n + 1
    <2> SUFFICES ASSUME m \in 0..N, NEW x \in w[m]
                 PROVE  x \in Accounts /\ (x = a \/ a \in f(x, m))
      OBVIOUS
    <2>1. n \in 0..N
      BY <1>1
    <2>2. w[m] = w[n] \cup {y \in Accounts : Parent[y] \in w[n]}
      BY <1>2, <2>1
    <2>3. CASE x \in w[n]
      <3>1. x \in Accounts /\ (x = a \/ a \in f(x, n))
        BY <1>9, <2>1, <2>3
      <3>2. f(x, n) \subseteq f(x, m)
        BY <1>7, <2>1, <3>1
      <3> QED
        BY <3>1, <3>2
    <2>4. CASE x \in Accounts /\ Parent[x] \in w[n]
      <3>1. Parent[x] \in Accounts /\ (Parent[x] = a \/ a \in f(Parent[x], n))
        BY <1>9, <2>1, <2>4
      <3>2. f(x, m) = {Parent[x]} \cup f(Parent[x], n)
        BY <1>4, <2>1, <2>4, <3>1
      <3> QED
        BY <2>4, <3>1, <3>2
    <2> QED
      BY <2>2, <2>3, <2>4
  <1>10. \A n \in Nat : n \in Q
    <2> HIDE DEF Q
    <2> QED
      BY <1>8, <1>9, Induction
  <1>11. b \in Accounts /\ a \in f(b, N)
    BY <1>1, <1>3, <1>10
  <1>12. GetAccountAncestors(g, b) = Above(N)[b]
    BY <1>11, AncestorsAreAbove DEF N
  <1> QED
    BY <1>3, <1>11, <1>12 DEF f


-----------------------------------------------------------------------------
(* What a cascade makes again *)

\* The rows a cascade works on, of saved tables.
LEMMA MaterialRows ==
    ASSUME NEW v \in Versions, NEW p, NEW S, S \subseteq MaterialVariances(Outputs[v], p)
    PROVE  /\ S \subseteq AllKeys /\ S \subseteq Rows /\ IsFiniteSet(S) /\ Cardinality(S) \in Nat
           /\ \A k \in S : k.account \in Accounts /\ Outputs[v].material[k].variance \in Int
           /\ Total(Outputs[v].material, S).variance \in Int
  <1> DEFINE m == Outputs[v].material
  <1>1. \A k \in S : k \in DOMAIN m /\ k \in Rows /\ m[k].variance \in Int
    BY CascadeConstantsOK DEF MaterialVariances, Versions
  <1>2. AllKeys = Rows
    BY DEF AllKeys, Rows
  <1>3. S \subseteq AllKeys /\ S \subseteq Rows /\ S \subseteq DOMAIN m
    BY <1>1, <1>2
  <1>4. IsFiniteSet(S) /\ Cardinality(S) \in Nat
    BY <1>3, KeysFinite, FS_Subset, FS_CardinalityType
  <1>5. Total(m, S)["variance"] \in Int
    <2>1. "variance" \in AmountFields /\ \A k \in S : m[k]["variance"] \in Int
      BY <1>1 DEF AmountFields
    <2> HIDE DEF m
    <2> QED
      BY <1>3, <2>1, TotalInt
  <1>6. \A k \in S : k.account \in Accounts
    BY <1>1 DEF Rows
  <1> HIDE DEF m
  <1> QED
    BY <1>1, <1>3, <1>4, <1>5, <1>6 DEF m

\* A parent row with kept rows of its children, a section with rows, the company
\* with rows are made again.
LEMMA ParentIsMade ==
    ASSUME NEW v \in Versions, NEW p, NEW below,
           NEW k \in MaterialVariances(Outputs[v], p), NEW j \in MaterialVariances(Outputs[v], p),
           j.account \in ToSet(below[k.account])
    PROVE  RegenerateParent(Outputs[v], below, p, k) # Null
  <1> DEFINE t == Outputs[v]
             M == MaterialVariances(t, p)
             rows == {i \in M : i.account \in ToSet(below[k.account])}
             good == {i \in rows : t.material[i].variance > 0}
             made == [amount |-> t.material[k].variance, drivers |-> LargestRows(t, rows),
                      favorable |-> Cardinality(good), children |-> Cardinality(rows)]
  <1>1. rows # {}
    OBVIOUS
  <1>2. RegenerateParent(t, below, p, k) = made
    BY <1>1 DEF RegenerateParent
  <1>3. rows \subseteq M /\ good \subseteq M /\ {k} \subseteq M
    OBVIOUS
  <1> HIDE DEF M, rows, good
  <1>4. Cardinality(rows) \in Nat /\ Cardinality(good) \in Nat /\ rows \subseteq Rows
        /\ t.material[k].variance \in Int
    BY <1>3, MaterialRows DEF M
  <1>5. LargestRows(t, rows) \subseteq Rows
    BY <1>4 DEF LargestRows
  <1>6. made \in Remade
    BY <1>4, <1>5 DEF Remade
  <1> QED
    BY <1>2, <1>6, CascadeConstantsOK

\* The section of a kept row can be made again.
LEMMA SectionIsMade ==
    ASSUME NEW v \in Versions, NEW p, NEW k \in MaterialVariances(Outputs[v], p)
    PROVE  RegenerateSection(Outputs[v], p, Category[k.account]) # Null
  <1> DEFINE t == Outputs[v]
             M == MaterialVariances(t, p)
             rows == {i \in M : Category[i.account] = Category[k.account]}
             made == [total |-> Total(t.material, rows).variance, count |-> Cardinality(rows)]
  <1>1. rows # {} /\ rows \subseteq M
    OBVIOUS
  <1>2. RegenerateSection(t, p, Category[k.account]) = made
    BY <1>1 DEF RegenerateSection
  <1> HIDE DEF M, rows
  <1>3. Cardinality(rows) \in Nat /\ Total(t.material, rows).variance \in Int
    BY <1>1, MaterialRows DEF M
  <1>4. made \in Remade
    BY <1>3 DEF Remade
  <1> QED
    BY <1>2, <1>4, CascadeConstantsOK

\* So can the executive summary of its period.
LEMMA ExecutiveIsMade ==
    ASSUME NEW v \in Versions, NEW p, NEW k \in MaterialVariances(Outputs[v], p)
    PROVE  RegenerateExecutive(Outputs[v], p) # Null
  <1> DEFINE t == Outputs[v]
             M == MaterialVariances(t, p)
             of(S) == Total(t.material, {i \in M : Category[i.account] \in S}).variance
             made == [revenue |-> of({"Revenue"}), costs |-> of({"COGS", "OpEx"}),
                      net |-> of({"Revenue", "COGS", "OpEx"})]
  <1>1. RegenerateExecutive(t, p) = made
    BY DEF RegenerateExecutive
  <1>2. \A S : of(S) \in Int
    <2> SUFFICES ASSUME NEW S PROVE of(S) \in Int
      OBVIOUS
    <2> DEFINE R == {i \in M : Category[i.account] \in S}
    <2>1. R \subseteq M
      OBVIOUS
    <2> HIDE DEF R
    <2>2. Total(t.material, R).variance \in Int
      BY <2>1, MaterialRows
    <2> QED
      BY <2>2 DEF R
  <1> HIDE DEF of
  <1>3. made \in Remade
    BY <1>2 DEF Remade
  <1> QED
    BY <1>1, <1>3, CascadeConstantsOK

\* CascadeReachesTheTop, of one result.
Reached(h) ==
    LET t == Tables(h.rows)
        M == MaterialVariances(t, h.period)
        above == {k \in M : /\ h.trigger.account \in Under(k.account)
                            /\ \E j \in M : Parent[j.account] = k.account}
    IN  h.trigger \in M /\ h.rows = h.graph =>
            /\ \A k \in above :
                  [type |-> "parent_variance", level |-> 1, id |-> k] \in h.regenerated
            /\ [type |-> "executive", level |-> 3, id |-> h.period] \in h.regenerated
            /\ Category[h.trigger.account] # Null =>
                  [type |-> "section", level |-> 2, id |-> Category[h.trigger.account]]
                      \in h.regenerated

\* A graph has the rows of its period, each with the section of its category.
LEMMA RowsOfGraph ==
    ASSUME NEW v \in Versions, NEW p \in Periods
    PROVE  /\ Graph(v, p).accounts = Accounts
           /\ DOMAIN Graph(v, p).variances = {k \in DOMAIN Outputs[v].material : k.period = p}
           /\ \A k \in DOMAIN Graph(v, p).variances : Category[k.account] # Null =>
                 /\ k \in DOMAIN Graph(v, p).sections
                 /\ Graph(v, p).sections[k] = Category[k.account]
  <1> DEFINE g == Graph(v, p)
  <1>1. g = Graph(v, p)
    OBVIOUS
  <1> HIDE DEF g
  <1>2. g.accounts = Accounts
    BY <1>1, GraphParts
  <1>3. DOMAIN g.variances = {k \in DOMAIN Outputs[v].material : k.period = p}
    BY <1>1, GraphParts
  <1>4. ASSUME NEW k \in DOMAIN g.variances, Category[k.account] # Null
        PROVE  k \in DOMAIN g.sections /\ g.sections[k] = Category[k.account]
    BY <1>1, <1>4, GraphParts
  <1> QED
    BY <1>1, <1>2, <1>3, <1>4

\* A chain that does not fail makes every kept row above and the executive summary.
LEMMA ChainReachesTop ==
    ASSUME NEW v \in Versions, NEW below \in Families, Complete(below), NEW p \in Periods,
           NEW r \in MaterialVariances(Outputs[v], p),
           NEW made, made = RegenerateChain(v, v, below, p, r, GetCascadeChain(Graph(v, p), r)).regenerated
    PROVE  /\ \A k \in MaterialVariances(Outputs[v], p) :
                 /\ r.account \in Under(k.account)
                 /\ \E j \in MaterialVariances(Outputs[v], p) : Parent[j.account] = k.account
                 => [type |-> "parent_variance", level |-> 1, id |-> k] \in made
           /\ [type |-> "executive", level |-> 3, id |-> p] \in made
           /\ Category[r.account] # Null =>
                 [type |-> "section", level |-> 2, id |-> Category[r.account]] \in made
  <1> DEFINE t == Outputs[v]
             M == MaterialVariances(t, p)
             g == Graph(v, p)
             chain == GetCascadeChain(g, r)
             ancestors == ToSet(GetAccountAncestors(g, r.account))
             parents == (UNION {RowsBeside(g, r, a) : a \in ancestors}) \ {r}
             sections == {g.sections[j] : j \in (parents \cup {r}) \cap DOMAIN g.sections}
  <1>1. v # 0 /\ Tables(v) = t
    BY CascadeConstantsOK DEF Versions, Tables
  <1>2. made = {e \in chain : Regenerate(t, below, p, e) # Null}
    BY <1>1 DEF RegenerateChain
  <1>3. /\ g.accounts = Accounts
        /\ DOMAIN g.variances = {k \in DOMAIN Outputs[v].material : k.period = p}
        /\ \A k \in DOMAIN g.variances : Category[k.account] # Null =>
                 k \in DOMAIN g.sections /\ g.sections[k] = Category[k.account]
    BY RowsOfGraph
  <1>4. \A k \in M : k \in DOMAIN g.variances /\ k.account \in Accounts
                     /\ k.period = p /\ k.view = "MTD" /\ k.base = "BUDGET"
    <2>1. \A k \in M : k \in DOMAIN Outputs[v].material
                         /\ k.period = p /\ k.view = "MTD" /\ k.base = "BUDGET"
      BY DEF MaterialVariances
    <2>2. \A k \in M : k.account \in Accounts
      BY MaterialRows
    <2> HIDE DEF g, M
    <2> QED
      BY <1>3, <2>1, <2>2
  <1> HIDE DEF g
  <1>5. chain = {[type |-> "parent_variance", level |-> 1, id |-> j] : j \in parents}
                \cup {[type |-> "section", level |-> 2, id |-> s] : s \in sections}
                \cup {[type |-> "executive", level |-> 3, id |-> p]}
    BY <1>4 DEF GetCascadeChain
  <1>9. r \in M
    OBVIOUS
  <1> HIDE DEF chain, sections, t
  <1>6. ASSUME NEW k \in M, r.account \in Under(k.account),
               NEW j \in M, Parent[j.account] = k.account
        PROVE  [type |-> "parent_variance", level |-> 1, id |-> k] \in made
    <2> DEFINE e == [type |-> "parent_variance", level |-> 1, id |-> k]
    <2>1. k.account \in ancestors /\ r.account # k.account
      BY <1>3, <1>4, <1>6, AncestorsFound
    <2>2. k \in RowsBeside(g, r, k.account)
      <3> HIDE DEF M
      <3> QED
        BY <1>4, <1>9 DEF RowsBeside
    <2>3. k \in parents
      <3>1. k # r
        BY <2>1
      <3> HIDE DEF ancestors
      <3> QED
        BY <2>1, <2>2, <3>1, Zenon
    <2>4. e \in chain
      BY <1>5, <2>3
    <2>5. j.account \in ToSet(below[k.account])
      <3>1. j.account \in Accounts /\ k.account # Null
        BY <1>4, CascadeConstantsOK
      <3> QED
        BY <1>6, <3>1 DEF Complete
    <2>6. RegenerateParent(t, below, p, k) # Null
      BY <2>5, ParentIsMade DEF t
    <2>7. Regenerate(t, below, p, e) = RegenerateParent(t, below, p, k)
      BY DEF Regenerate
    <2> HIDE DEF e
    <2> QED
      BY <1>2, <2>4, <2>6, <2>7 DEF e
  <1>7. [type |-> "executive", level |-> 3, id |-> p] \in made
    <2> DEFINE e == [type |-> "executive", level |-> 3, id |-> p]
    <2>1. e \in chain
      BY <1>5
    <2>2. RegenerateExecutive(t, p) # Null
      BY ExecutiveIsMade DEF t
    <2>3. Regenerate(t, below, p, e) = RegenerateExecutive(t, p)
      BY DEF Regenerate
    <2> HIDE DEF e
    <2> QED
      BY <1>2, <2>1, <2>2, <2>3 DEF e
  <1>8. ASSUME Category[r.account] # Null
        PROVE  [type |-> "section", level |-> 2, id |-> Category[r.account]] \in made
    <2> DEFINE s == Category[r.account]
               e == [type |-> "section", level |-> 2, id |-> s]
    <2>1. r \in DOMAIN g.sections /\ g.sections[r] = s
      BY <1>3, <1>4, <1>8 DEF t
    <2>2. s \in sections
      BY <2>1 DEF sections
    <2>3. e \in chain
      BY <1>5, <2>2
    <2>4. RegenerateSection(t, p, s) # Null
      BY SectionIsMade DEF t
    <2> HIDE DEF s
    <2>5. Regenerate(t, below, p, e) = RegenerateSection(t, p, s)
      BY DEF Regenerate
    <2> HIDE DEF e
    <2> QED
      BY <1>2, <2>3, <2>4, <2>5 DEF e, s
  <1> QED
    BY <1>6, <1>7, <1>8 DEF t

\* What is remembered of a cascade, whichever tables it worked on.
LEMMA ResultReached ==
    ASSUME NEW g \in Versions, NEW v \in {0} \cup Versions, NEW below \in Families,
           Complete(below), NEW p \in Periods, NEW r \in ChangedRows,
           NEW h, h = RegenerateChain(g, v, below, p, r, GetCascadeChain(Graph(g, p), r))
    PROVE  Reached(h)
  <1>1. h.trigger = r /\ h.period = p /\ h.rows = v /\ h.graph = g
    BY DEF RegenerateChain
  <1>2. SUFFICES ASSUME v = g, r \in MaterialVariances(Tables(v), p)
                 PROVE  Reached(h)
    BY <1>1 DEF Reached
  <1>3. Tables(v) = Outputs[v]
    BY <1>2, CascadeConstantsOK DEF Versions, Tables
  <1> DEFINE made == h.regenerated
  <1>4. /\ \A k \in MaterialVariances(Outputs[v], p) :
                 /\ r.account \in Under(k.account)
                 /\ \E j \in MaterialVariances(Outputs[v], p) : Parent[j.account] = k.account
                 => [type |-> "parent_variance", level |-> 1, id |-> k] \in made
        /\ [type |-> "executive", level |-> 3, id |-> p] \in made
        /\ Category[r.account] # Null =>
                 [type |-> "section", level |-> 2, id |-> Category[r.account]] \in made
    <2>1. made = RegenerateChain(v, v, below, p, r, GetCascadeChain(Graph(v, p), r)).regenerated
      BY <1>2
    <2>2. v \in Versions /\ r \in MaterialVariances(Outputs[v], p)
      BY <1>2, <1>3
    <2> HIDE DEF made
    <2> QED
      BY <2>1, <2>2, ChainReachesTop
  <1> QED
    BY <1>1, <1>3, <1>4 DEF Reached

\* A cascade from a kept row of the month makes again every kept row of an account
\* above it that has kept rows among its children, the section of the row and the
\* executive summary, when rows and graph are of one saving: however deep the chart
\* of accounts is and however often the metadata was built on top of itself.
THEOREM CascadesReachTheTop == Spec => []CascadeReachesTheTop
  <1> DEFINE Good == {h \in Results : Reached(h)}
             Inv == history \in Seq(Good)
             Meta == children \in Families /\ Complete(children)
  <1>1. Init => Inv
    BY EmptySeq DEF Init
  <1>2. TypeInv /\ Meta /\ Inv /\ [Next]_vars => Inv'
    <2> SUFFICES ASSUME TypeInv, Meta, Inv, [Next]_vars PROVE Inv'
      OBVIOUS
    <2>1. ASSUME history' = history
          PROVE  Inv'
      BY <2>1
    <2>2. ASSUME NEW k \in ChangedRows, NEW p \in Periods, Runs(k, p) \/ Fails(p)
          PROVE  Inv'
      <3> DEFINE v == IF graphs[p] = Null THEN disk ELSE graphs[p]
                 h == RegenerateChain(v, RowsLoaded, children, p, k,
                                      GetCascadeChain(Graph(v, p), k))
      <3>1. CASE Fails(p)
        BY <2>1, <3>1 DEF Fails
      <3>2. CASE Runs(k, p)
        <4>1. v \in Versions /\ RowsLoaded \in {0} \cup Versions
          BY DEF TypeInv, RowsLoaded
        <4>2. history' = Remembered(h)
          BY <3>2 DEF Runs
        <4> HIDE DEF v
        <4>3. h \in Results
          BY <4>1, ChainResult
        <4>4. Reached(h)
          BY <4>1, ResultReached
        <4> HIDE DEF h
        <4>5. h \in Good
          BY <4>3, <4>4
        <4> HIDE DEF Good
        <4> QED
          BY <4>2, <4>5, RememberedTypes
      <3> QED
        BY <2>2, <3>1, <3>2
    <2>3. ASSUME NEW k \in ChangedRows, OnNarrativeChanged(k)
          PROVE  history' = history
      BY <2>3 DEF OnNarrativeChanged
    <2>4. ASSUME NEW k \in ChangedRows, ExecuteNow(k)
          PROVE  Inv'
      <3>1. k.period \in Periods /\ (Runs(k, k.period) \/ Fails(k.period))
        BY <2>4, CascadeConstantsOK DEF ExecuteNow
      <3> QED
        BY <2>2, <3>1
    <2>5. ASSUME NEW i \in 1..MaxChanges, DebouncedCascade(i)
          PROVE  Inv'
      <3> DEFINE p == timers[i].period
                 k == IF triggers[p] = Null THEN timers[i].row ELSE triggers[p]
      <3>1. timers[i] \in Timers
        BY <2>5, WakesTimers DEF DebouncedCascade, TypeInv
      <3>2. p \in Periods /\ timers[i].row \in ChangedRows
        BY <3>1 DEF Timers
      <3>3. k \in ChangedRows
        BY <3>2 DEF TypeInv
      <3>4. Runs(k, p) \/ Fails(p)
        BY <2>5 DEF DebouncedCascade
      <3> HIDE DEF p, k
      <3> QED
        BY <2>2, <3>2, <3>3, <3>4
    <2>6. CASE EngineSaves
      BY <2>1, <2>6 DEF EngineSaves, manager
    <2>7. CASE Reload
      BY <2>1, <2>7 DEF Reload, manager
    <2>8. CASE UNCHANGED vars
      BY <2>1, <2>8 DEF vars
    <2> HIDE DEF Inv
    <2> QED
      BY <2>1, <2>3, <2>4, <2>5, <2>6, <2>7, <2>8 DEF Next
  <1>3. Inv => CascadeReachesTheTop
    <2> SUFFICES ASSUME Inv PROVE CascadeReachesTheTop
      OBVIOUS
    <2>1. \A i \in DOMAIN history : history[i] \in Good
      BY LenProperties, ElementOfSeq
    <2>2. \A h \in ToSet(history) : Reached(h)
      BY <2>1 DEF ToSet
    <2> QED
      BY <2>2 DEF CascadeReachesTheTop, Reached
  <1> QED
    BY <1>1, <1>2, <1>3, TypeInvariant, MetadataInvariant, PTL DEF Spec

-----------------------------------------------------------------------------
(* The answers of the data service *)

\* A finite set has as many members as ones add up to.
LEMMA CountIsSigma ==
    ASSUME NEW S, IsFiniteSet(S), NEW F, \A x \in S : F[x] = 1
    PROVE  Cardinality(S) = Sigma(F, S)
  <1> DEFINE B == {T \in SUBSET S : Cardinality(T) # Sigma(F, T)}
  <1>1. SUFFICES ASSUME B # {}
                 PROVE  FALSE
    OBVIOUS
  <1>2. PICK T \in B : \A y \in B : y \subseteq T => y = T
    <2>1. B \subseteq SUBSET S
      OBVIOUS
    <2> HIDE DEF B
    <2> QED
      BY <1>1, <2>1, SmallestSubset
  <1>3. IsFiniteSet(T)
    BY FS_Subset
  <1>4. T # {}
    BY FS_EmptySet, SigmaEmpty
  <1>5. PICK e : e \in T
    BY <1>4
  <1>6. Cardinality(T \ {e}) = Sigma(F, T \ {e})
    BY <1>2, <1>5
  <1>7. Sigma(F, T) = F[e] + Sigma(F, T \ {e}) /\ F[e] = 1
    <2>1. \A x \in T : F[x] \in Int
      OBVIOUS
    <2> QED
      BY <1>3, <1>5, <2>1, SigmaRemove
  <1>8. Cardinality(T \ {e}) = Cardinality(T) - 1 /\ Cardinality(T) \in Nat
    BY <1>3, <1>5, FS_RemoveElement, FS_CardinalityType
  <1> QED
    BY <1>2, <1>6, <1>7, <1>8

\* The kept rows that the success metrics count.
Counted(t, f) == {k \in FilterVariance(t, f) : t.flags[k].material /\ k.account \notin Calculated}

\* What is asked of a period in all units.
Everywhere(p, v, b) == [period |-> p, unit |-> Null, view |-> v, base |-> b, nodes |-> <<>>]

\* The filter of the quality page lets everything of its period, view and base through.
LEMMA EverywhereRows ==
    ASSUME NEW t, NEW p, NEW v, NEW b
    PROVE  FilterVariance(t, Everywhere(p, v, b))
             = {k \in DOMAIN t.material : /\ k.view = v /\ k.base = b
                                          /\ p \in {Null, k.period}}
  BY DEF FilterVariance, Everywhere

\* The sum over views and bases, as a sum of a function.
IteratesMetrics(t, p, S, g) ==
    g = [s \in SUBSET S |-> IF s = {} THEN 0
            ELSE GetSuccessMetrics(t, [period |-> p, unit |-> Null, view |-> Pick(s)[1],
                                       base |-> Pick(s)[2], nodes |-> <<>>]).total
                 + g[s \ {Pick(s)}]]

IteratedMetrics(t, p, S) == CHOOSE g : IteratesMetrics(t, p, S, g)

MetricsOf(t, p, S) ==
    [vb \in S |-> GetSuccessMetrics(t, [period |-> p, unit |-> Null, view |-> vb[1],
                                        base |-> vb[2], nodes |-> <<>>]).total]

\* The numbers of the quality page added up are a finite sum.
LEMMA MetricsAreSigma ==
    ASSUME NEW t, NEW p, NEW S
    PROVE  MapThenSumSet(LAMBDA vb : GetSuccessMetrics(t,
                 [period |-> p, unit |-> Null, view |-> vb[1],
                  base |-> vb[2], nodes |-> <<>>]).total, S)
             = Sigma(MetricsOf(t, p, S), S)
  <1>1. MapThenSumSet(LAMBDA vb : GetSuccessMetrics(t,
                 [period |-> p, unit |-> Null, view |-> vb[1],
                  base |-> vb[2], nodes |-> <<>>]).total, S)
          = IteratedMetrics(t, p, S)[S]
    BY DEF MapThenSumSet, MapThenFoldSet, IteratedMetrics, IteratesMetrics, Pick
  <1>2. \A g : IteratesMetrics(t, p, S, g) <=> Iterates(MetricsOf(t, p, S), S, g)
    <2>1. \A s \in SUBSET S : s # {} => Pick(s) \in S
      BY PickIn
    <2> QED
      BY <2>1 DEF IteratesMetrics, Iterates, MetricsOf
  <1>3. IteratedMetrics(t, p, S) = Iterated(MetricsOf(t, p, S), S)
    BY <1>2, Zenon DEF IteratedMetrics, Iterated
  <1> QED
    BY <1>1, <1>3, SigmaIterated

\* What the service serves are rows of pass 1.
LEMMA ServedRows ==
    ASSUME NEW v \in Versions, NEW U
    PROVE  /\ DOMAIN Served(v, U).material \subseteq AllKeys
           /\ IsFiniteSet(DOMAIN Served(v, U).material)
           /\ \A k \in DOMAIN Served(v, U).material : Served(v, U).material[k].variance \in Int
  <1> DEFINE m == Served(v, U).material
  <1>1. m = <<>> \/ m = Outputs[v].material
    BY DEF Served, NoRows, FileWith
  <1>2. CASE m = <<>>
    BY <1>2, FS_EmptySet
  <1>3. CASE m = Outputs[v].material
    <2>1. DOMAIN m \subseteq AllKeys /\ \A k \in DOMAIN m : m[k].variance \in Int
      BY <1>3, CascadeConstantsOK DEF Versions, AllKeys, Rows
    <2> QED
      BY <2>1, KeysFinite, FS_Subset
  <1> QED
    BY <1>1, <1>2, <1>3

\* The quality page counts each kept row of a period once, whatever is served.
THEOREM MetricsCountOnce == Spec => []MetricsAddUp
  <1>1. ASSUME TypeInv, NEW p \in Periods
        PROVE  LET t == Served(tables, unread)
                   total(v, b) == GetSuccessMetrics(t, [period |-> p, unit |-> Null, view |-> v,
                                                        base |-> b, nodes |-> <<>>]).total
               IN  GetNarrativeQuality(t, p).total
                     = MapThenSumSet(LAMBDA vb : total(vb[1], vb[2]), Views \X Bases)
    <2> DEFINE t == Served(tables, unread)
               I == Views \X Bases
               part == [vb \in I |-> Counted(t, Everywhere(p, vb[1], vb[2]))]
               all == {k \in DOMAIN t.material : /\ p \in {Null, k.period}
                                                 /\ t.flags[k].material
                                                 /\ k.account \notin Calculated}
               one == [k \in DOMAIN t.material |-> 1]
    <2>1. /\ DOMAIN t.material \subseteq AllKeys
          /\ IsFiniteSet(DOMAIN t.material)
      BY <1>1, ServedRows DEF TypeInv
    <2>2. IsFiniteSet(I)
      <3>1. IsFiniteSet(Views) /\ IsFiniteSet(Bases)
        BY ViewsFinite, AccountsOK, MembersFinite DEF AccountsOK, Bases
      <3> QED
        BY <3>1, FS_Product
    <2> HIDE DEF t
    <2>3. \A vb \in I : part[vb] = {k \in DOMAIN t.material :
              /\ k.view = vb[1] /\ k.base = vb[2] /\ p \in {Null, k.period}
              /\ t.flags[k].material /\ k.account \notin Calculated}
      BY EverywhereRows DEF Counted
    <2>4. \A vb \in I : IsFiniteSet(part[vb]) /\ \A k \in part[vb] : one[k] \in Int
      BY <2>1, <2>3, FS_Subset
    <2>5. \A x \in I : \A y \in I : x # y => part[x] \cap part[y] = {}
      BY <2>3
    <2>6. UNION {part[vb] : vb \in I} = all
      <3>1. \A vb \in I : part[vb] \subseteq all
        BY <2>3
      <3>2. ASSUME NEW k \in all
            PROVE  k \in UNION {part[vb] : vb \in I}
        <4> DEFINE vb == <<k.view, k.base>>
        <4>1. vb \in I
          BY <2>1 DEF AllKeys
        <4>2. vb[1] = k.view /\ vb[2] = k.base
          OBVIOUS
        <4> HIDE DEF vb, I, part
        <4>3. k \in part[vb]
          BY <2>3, <4>1, <4>2
        <4> QED
          BY <4>1, <4>3
      <3> HIDE DEF I, part, all
      <3> QED
        BY <3>1, <3>2
    <2>7. \A vb \in I : MetricsOf(t, p, I)[vb] = Sigma(one, part[vb])
      <3> SUFFICES ASSUME NEW vb \in I
                   PROVE  MetricsOf(t, p, I)[vb] = Sigma(one, part[vb])
        OBVIOUS
      <3>1. MetricsOf(t, p, I)[vb] = Cardinality(part[vb])
        BY DEF MetricsOf, GetSuccessMetrics, Counted, Everywhere
      <3>2. \A k \in part[vb] : one[k] = 1
        BY <2>3
      <3> QED
        BY <2>4, <3>1, <3>2, CountIsSigma
    <2>8. GetNarrativeQuality(t, p).total = Cardinality(all)
      BY DEF GetNarrativeQuality
    <2>9. Cardinality(all) = Sigma(one, all)
      BY <2>1, FS_Subset, CountIsSigma
    <2> HIDE DEF I, part, all, one
    <2>10. Sigma(MetricsOf(t, p, I), I) = Sigma(one, UNION {part[vb] : vb \in I})
      <3>1. Parts(one, I, part, MetricsOf(t, p, I))
        BY ONLY <2>2, <2>4, <2>5, <2>7 DEF Parts
      <3>2. AddsUp(one, I, part, MetricsOf(t, p, I))
        BY ONLY <3>1, SigmaParts
      <3> QED
        BY <3>2 DEF AddsUp
    <2>11. GetNarrativeQuality(t, p).total = Sigma(MetricsOf(t, p, I), I)
      BY <2>6, <2>8, <2>9, <2>10
    <2> QED
      BY <2>11, MetricsAreSigma DEF t, I
  <1>2. TypeInv => MetricsAddUp
    BY <1>1 DEF MetricsAddUp
  <1> QED
    BY <1>2, TypeInvariant, PTL
-----------------------------------------------------------------------------
(* Alerts of the company and of its units *)

\* The same question about one unit.
OfUnit(f, u) == [f EXCEPT !.unit = u]

\* What the service serves has alerts of known slices, with whole amounts.
LEMMA ServedFlags ==
    ASSUME NEW v \in Versions, NEW U
    PROVE  LET t == Served(v, U)
           IN  /\ IsFiniteSet(t.netting) /\ IsFiniteSet(t.trends)
               /\ \A x \in t.netting : x.slice \in Slices /\ x.gross \in Int
               /\ \A x \in t.trends : x.key.slice \in Slices /\ x.cumulative \in Int
  <1> DEFINE t == Served(v, U)
  <1>1. /\ t.netting = {} \/ t.netting = Outputs[v].netting
        /\ t.trends = {} \/ t.trends = Outputs[v].trends
    BY DEF Served, NoRows, FileWith
  <1> HIDE DEF t
  <1> QED
    BY <1>1, CascadeConstantsOK, FS_EmptySet DEF Versions, t

\* A slice passes the filter of the company when it passes that of its unit.
LEMMA SlicesOfUnits ==
    ASSUME NEW f \in Filters, f.unit = Null, NEW s \in Slices, NEW r \in Slices
    PROVE  LET u == BusinessUnit[s]
           IN  /\ u \in ToSet(UnitOrder)
               /\ SliceMatches(s, f) => SliceMatches(s, OfUnit(f, u))
               /\ SliceMatches(r, OfUnit(f, u)) => SliceMatches(r, f)
               /\ OfUnit(f, u).period = f.period
  <1>1. BusinessUnit[s] \in ToSet(UnitOrder)
    BY DimensionsOK DEF DimensionsOK
  <1>2. ASSUME NEW u
        PROVE  /\ OfUnit(f, u).unit = u /\ OfUnit(f, u).nodes = f.nodes
               /\ OfUnit(f, u).period = f.period
    BY DEF OfUnit, Filters
  <1>3. SliceMatches(s, f) => SliceMatches(s, OfUnit(f, BusinessUnit[s]))
    BY <1>2 DEF SliceMatches
  <1>4. SliceMatches(r, OfUnit(f, BusinessUnit[s])) => SliceMatches(r, f)
    BY <1>2 DEF SliceMatches
  <1> QED
    BY <1>1, <1>2, <1>3, <1>4

\* The flags of one filter, and those behind fewer than limit others.
NettingFlags(t, f) == {x \in t.netting : x.period = f.period /\ SliceMatches(x.slice, f)}
NettingAhead(t, f, x) == {y \in NettingFlags(t, f) : y.gross > x.gross}
NettingShown(t, f, limit) ==
    {x \in NettingFlags(t, f) : Cardinality(NettingAhead(t, f, x)) < limit}
NettingAlert(x) ==
    [left |-> LargestChild(x.amounts, 1), right |-> LargestChild(x.amounts, -1), net |-> x.net]

\* A netting alert of the company is one of a unit.
LEMMA NettingAlertsOfUnits ==
    ASSUME NEW v \in Versions, NEW U, NEW f \in Filters, f.unit = Null, NEW limit \in Nat
    PROVE  GetNettingAlerts(Served(v, U), f, limit)
             \subseteq UNION {GetNettingAlerts(Served(v, U), OfUnit(f, u), limit) : u \in ToSet(UnitOrder)}
  <1> DEFINE t == Served(v, U)
  <1>1. /\ IsFiniteSet(t.netting)
        /\ \A x \in t.netting : x.slice \in Slices
    BY ServedFlags
  <1> HIDE DEF t
  <1>2. ASSUME NEW g
        PROVE  GetNettingAlerts(t, g, limit) = {NettingAlert(x) : x \in NettingShown(t, g, limit)}
    BY DEF GetNettingAlerts, NettingAlert, NettingShown, NettingAhead, NettingFlags
  <1>3. ASSUME NEW x \in NettingShown(t, f, limit)
        PROVE  \E u \in ToSet(UnitOrder) : x \in NettingShown(t, OfUnit(f, u), limit)
    <2> DEFINE u == BusinessUnit[x.slice]
    <2>1. x \in NettingFlags(t, f) /\ Cardinality(NettingAhead(t, f, x)) < limit
      BY <1>3 DEF NettingShown
    <2>2. x.slice \in Slices /\ x \in t.netting /\ x.period = f.period /\ SliceMatches(x.slice, f)
      BY <1>1, <2>1 DEF NettingFlags
    <2>3. /\ u \in ToSet(UnitOrder)
          /\ SliceMatches(x.slice, OfUnit(f, u))
          /\ OfUnit(f, u).period = f.period
          /\ \A s \in Slices : SliceMatches(s, OfUnit(f, u)) => SliceMatches(s, f)
      BY <2>2, SlicesOfUnits
    <2> HIDE DEF u
    <2>4. x \in NettingFlags(t, OfUnit(f, u))
      BY <2>2, <2>3 DEF NettingFlags
    <2>5. NettingFlags(t, OfUnit(f, u)) \subseteq NettingFlags(t, f)
      BY <1>1, <2>3 DEF NettingFlags
    <2>6. NettingAhead(t, OfUnit(f, u), x) \subseteq NettingAhead(t, f, x)
      BY <2>5 DEF NettingAhead
    <2>7. IsFiniteSet(NettingAhead(t, f, x))
      <3>1. NettingAhead(t, f, x) \subseteq t.netting
        BY DEF NettingAhead, NettingFlags
      <3> QED
        BY <1>1, <3>1, FS_Subset
    <2>8. /\ Cardinality(NettingAhead(t, OfUnit(f, u), x)) <= Cardinality(NettingAhead(t, f, x))
          /\ Cardinality(NettingAhead(t, f, x)) \in Nat
          /\ Cardinality(NettingAhead(t, OfUnit(f, u), x)) \in Nat
      BY <2>6, <2>7, FS_Subset, FS_CardinalityType
    <2>9. x \in NettingShown(t, OfUnit(f, u), limit)
      BY <2>1, <2>4, <2>8 DEF NettingShown
    <2> QED
      BY <2>3, <2>9
  <1> SUFFICES ASSUME NEW a \in GetNettingAlerts(t, f, limit)
               PROVE  \E u \in ToSet(UnitOrder) : a \in GetNettingAlerts(t, OfUnit(f, u), limit)
    BY DEF t
  <1>4. PICK x \in NettingShown(t, f, limit) : a = NettingAlert(x)
    BY <1>2
  <1>5. PICK u \in ToSet(UnitOrder) : x \in NettingShown(t, OfUnit(f, u), limit)
    BY <1>3
  <1> QED
    BY <1>2, <1>4, <1>5

\* Of the flags of a filter, those with the largest amount of their account, and
\* the accounts that are ahead of one.
Larger(x, y) == Abs(x.cumulative) > Abs(y.cumulative)
TrendFlags(t, f) ==
    {x \in t.trends : (f.period = Null \/ x.latest >= f.period) /\ SliceMatches(x.key.slice, f)}
TrendFirsts(t, f) ==
    {x \in TrendFlags(t, f) : \A y \in TrendFlags(t, f) :
        y.key.account = x.key.account => ~ Larger(y, x)}
TrendAhead(t, f, x) == {y.key.account : y \in {z \in TrendFirsts(t, f) : Larger(z, x)}}
TrendShown(t, f, limit) == {x \in TrendFirsts(t, f) : Cardinality(TrendAhead(t, f, x)) < limit}
TrendAlert(x) == [account |-> x.key.account, length |-> x.length, cumulative |-> x.cumulative]

\* A flag is not larger than some first one of its account.
LEMMA FirstOfAccount ==
    ASSUME NEW t, IsFiniteSet(t.trends), \A x \in t.trends : x.cumulative \in Int,
           NEW f, NEW z \in TrendFlags(t, f)
    PROVE  \E y \in TrendFirsts(t, f) : y.key.account = z.key.account /\ ~ Larger(z, y)
  <1> DEFINE same == {y \in TrendFlags(t, f) : y.key.account = z.key.account}
             sizes == {Abs(y.cumulative) : y \in same}
  <1>1. IsFiniteSet(same) /\ \A y \in same : y.cumulative \in Int
    <2>1. same \subseteq t.trends
      BY DEF TrendFlags
    <2> QED
      BY <2>1, FS_Subset
  <1>2. \A n \in sizes : n \in Int
    BY <1>1 DEF Abs
  <1>3. IsFiniteSet(sizes)
    <2>1. [y \in same |-> Abs(y.cumulative)] \in Surjection(same, sizes)
      BY DEF Surjection
    <2> QED
      BY <1>1, <2>1, FS_Surjection
  <1>4. z \in same
    OBVIOUS
  <1>5. sizes # {}
    BY <1>4
  <1> DEFINE m == Max(sizes)
  <1>6. m \in sizes /\ \A n \in sizes : m >= n
    <2> HIDE DEF sizes
    <2> QED
      BY <1>2, <1>3, <1>5, MaxIn
  <1> HIDE DEF m
  <1>7. PICK y \in same : m = Abs(y.cumulative)
    BY <1>6
  <1>8. \A x \in same : Abs(y.cumulative) >= Abs(x.cumulative)
                          /\ Abs(y.cumulative) \in Int /\ Abs(x.cumulative) \in Int
    BY <1>2, <1>6, <1>7
  <1>9. \A x \in same : ~ Larger(x, y)
    BY <1>8 DEF Larger
  <1>10. y \in TrendFirsts(t, f)
    BY <1>9 DEF TrendFirsts
  <1> QED
    BY <1>4, <1>9, <1>10

\* A trend alert of the company is one of a unit.
LEMMA TrendAlertsOfUnits ==
    ASSUME NEW v \in Versions, NEW U, NEW f \in Filters, f.unit = Null, NEW limit \in Nat
    PROVE  GetTrendAlerts(Served(v, U), f, limit)
             \subseteq UNION {GetTrendAlerts(Served(v, U), OfUnit(f, u), limit) : u \in ToSet(UnitOrder)}
  <1> DEFINE t == Served(v, U)
  <1>1. /\ IsFiniteSet(t.trends)
        /\ \A x \in t.trends : x.key.slice \in Slices /\ x.cumulative \in Int
    BY ServedFlags
  <1> HIDE DEF t
  <1>2. ASSUME NEW g
        PROVE  GetTrendAlerts(t, g, limit) = {TrendAlert(x) : x \in TrendShown(t, g, limit)}
    BY DEF GetTrendAlerts, TrendAlert, TrendShown, TrendAhead, TrendFirsts, TrendFlags, Larger
  <1>3. ASSUME NEW x \in TrendShown(t, f, limit)
        PROVE  \E u \in ToSet(UnitOrder) : x \in TrendShown(t, OfUnit(f, u), limit)
    <2> DEFINE u == BusinessUnit[x.key.slice]
    <2>1. x \in TrendFirsts(t, f) /\ Cardinality(TrendAhead(t, f, x)) < limit
      BY <1>3 DEF TrendShown
    <2>2. /\ x \in TrendFlags(t, f) /\ x.key.slice \in Slices /\ x \in t.trends
          /\ f.period = Null \/ x.latest >= f.period
          /\ SliceMatches(x.key.slice, f)
      BY <1>1, <2>1 DEF TrendFirsts, TrendFlags
    <2>3. /\ u \in ToSet(UnitOrder)
          /\ SliceMatches(x.key.slice, OfUnit(f, u))
          /\ OfUnit(f, u).period = f.period
          /\ \A s \in Slices : SliceMatches(s, OfUnit(f, u)) => SliceMatches(s, f)
      BY <2>2, SlicesOfUnits
    <2> HIDE DEF u
    <2>4. x \in TrendFlags(t, OfUnit(f, u))
      BY <2>2, <2>3 DEF TrendFlags
    <2>5. TrendFlags(t, OfUnit(f, u)) \subseteq TrendFlags(t, f)
      BY <1>1, <2>3 DEF TrendFlags
    <2>6. x \in TrendFirsts(t, OfUnit(f, u))
      BY <2>1, <2>4, <2>5 DEF TrendFirsts
    <2>7. TrendAhead(t, OfUnit(f, u), x) \subseteq TrendAhead(t, f, x)
      <3> SUFFICES ASSUME NEW z \in TrendFirsts(t, OfUnit(f, u)), Larger(z, x)
                   PROVE  z.key.account \in TrendAhead(t, f, x)
        BY DEF TrendAhead
      <3>1. z \in TrendFlags(t, f)
        BY <2>5 DEF TrendFirsts
      <3>2. PICK y \in TrendFirsts(t, f) : y.key.account = z.key.account /\ ~ Larger(z, y)
        BY <1>1, <3>1, FirstOfAccount
      <3>3. x \in t.trends /\ y \in t.trends /\ z \in t.trends
        BY <2>2, <3>1, <3>2 DEF TrendFirsts, TrendFlags
      <3>4. Abs(x.cumulative) \in Int /\ Abs(y.cumulative) \in Int /\ Abs(z.cumulative) \in Int
        BY <1>1, <3>3 DEF Abs
      <3>5. Larger(y, x)
        BY <3>2, <3>4 DEF Larger
      <3> QED
        BY <3>2, <3>5 DEF TrendAhead
    <2>8. IsFiniteSet(TrendAhead(t, f, x))
      <3> DEFINE S == {z \in TrendFirsts(t, f) : Larger(z, x)}
      <3>1. S \subseteq t.trends
        BY DEF TrendFirsts, TrendFlags
      <3>2. IsFiniteSet(S)
        BY <1>1, <3>1, FS_Subset
      <3>3. [y \in S |-> y.key.account] \in Surjection(S, TrendAhead(t, f, x))
        BY DEF Surjection, TrendAhead
      <3> QED
        BY <3>2, <3>3, FS_Surjection
    <2>9. /\ Cardinality(TrendAhead(t, OfUnit(f, u), x)) <= Cardinality(TrendAhead(t, f, x))
          /\ Cardinality(TrendAhead(t, f, x)) \in Nat
          /\ Cardinality(TrendAhead(t, OfUnit(f, u), x)) \in Nat
      BY <2>7, <2>8, FS_Subset, FS_CardinalityType
    <2>10. x \in TrendShown(t, OfUnit(f, u), limit)
      BY <2>1, <2>6, <2>9 DEF TrendShown
    <2> QED
      BY <2>3, <2>10
  <1> SUFFICES ASSUME NEW a \in GetTrendAlerts(t, f, limit)
               PROVE  \E u \in ToSet(UnitOrder) : a \in GetTrendAlerts(t, OfUnit(f, u), limit)
    BY DEF t
  <1>4. PICK x \in TrendShown(t, f, limit) : a = TrendAlert(x)
    BY <1>2
  <1>5. PICK u \in ToSet(UnitOrder) : x \in TrendShown(t, OfUnit(f, u), limit)
    BY <1>3
  <1> QED
    BY <1>2, <1>4, <1>5

\* What alerts the company alerts one of its units, whatever is served.
THEOREM UnitsHideNothing == Spec => []UnitsExplainCompany
  <1>1. TypeInv => UnitsExplainCompany
    <2> SUFFICES ASSUME TypeInv, NEW f \in Filters, f.unit = Null, NEW limit \in 1..2
                 PROVE  LET t == Served(tables, unread)
                            of(u) == [f EXCEPT !.unit = u]
                        IN  /\ GetTrendAlerts(t, f, limit)
                                 \subseteq UNION {GetTrendAlerts(t, of(u), limit) : u \in ToSet(UnitOrder)}
                            /\ GetNettingAlerts(t, f, limit)
                                 \subseteq UNION {GetNettingAlerts(t, of(u), limit) : u \in ToSet(UnitOrder)}
      BY DEF UnitsExplainCompany
    <2>1. tables \in Versions /\ limit \in Nat
      BY DEF TypeInv
    <2>2. GetTrendAlerts(Served(tables, unread), f, limit)
             \subseteq UNION {GetTrendAlerts(Served(tables, unread), OfUnit(f, u), limit) : u \in ToSet(UnitOrder)}
      BY <2>1, TrendAlertsOfUnits
    <2>3. GetNettingAlerts(Served(tables, unread), f, limit)
             \subseteq UNION {GetNettingAlerts(Served(tables, unread), OfUnit(f, u), limit) : u \in ToSet(UnitOrder)}
      BY <2>1, NettingAlertsOfUnits
    <2> QED
      BY <2>2, <2>3 DEF OfUnit
  <1> QED
    BY <1>1, TypeInvariant, PTL
-----------------------------------------------------------------------------
(* The nodes of a dimension *)

\* The descendants of a node, wave by wave.
BelowNode(d, n) == TheWave("below", d, {n}, Cardinality(DOMAIN NodeParent[d]))

\* The descendants of a node are a wave that grows downwards.
LEMMA DescendantsAreWave ==
    ASSUME NEW d, NEW n
    PROVE  Descendants(d, n) = BelowNode(d, n)[Cardinality(DOMAIN NodeParent[d])]
  BY DEF Descendants, BelowNode, TheWave, Wave, Grown

\* Nothing outside of a set hangs under a member of it.
Closed(d, S) == \A m \in DOMAIN NodeParent[d] : NodeParent[d][m] \in S => m \in S

\* The descendants of a node are the node, all that hangs under one of them, and
\* nothing else.
LEMMA DescendantsFound ==
    ASSUME NEW d \in DOMAIN NodeParent, NEW n \in DOMAIN NodeParent[d]
    PROVE  /\ n \in Descendants(d, n) /\ Descendants(d, n) \subseteq DOMAIN NodeParent[d]
           /\ Closed(d, Descendants(d, n))
           /\ \A m \in Descendants(d, n) : m = n \/ NodeParent[d][m] \in Descendants(d, n)
  <1> DEFINE N == DOMAIN NodeParent[d]
             C == Cardinality(N)
             w == BelowNode(d, n)
             Whole(S) == /\ n \in S /\ S \subseteq N
                         /\ \A m \in S : m = n \/ NodeParent[d][m] \in S
             P == {k \in Nat : k <= C =>
                      Whole(w[k]) /\ (Closed(d, w[k]) \/ Cardinality(w[k]) >= k + 1)}
  <1>1. IsFiniteSet(N) /\ C \in Nat
    BY DimensionsOK, FS_CardinalityType DEF DimensionsOK
  <1>2. w[0] = {n} /\ \A k \in 0..C : k + 1 \in 0..C => w[k + 1] = Grown("below", d, w[k])
    BY <1>1, WaveGoesOn DEF BelowNode
  <1>3. \A S : Grown("below", d, S) = S \cup {m \in N : NodeParent[d][m] \in S}
    BY DEF Grown
  <1>4. \A S \in SUBSET N : IsFiniteSet(S) /\ Cardinality(S) \in Nat /\ Cardinality(S) <= C
    BY <1>1, FS_Subset, FS_CardinalityType
  <1>5. Descendants(d, n) = w[C]
    BY DescendantsAreWave
  <1> HIDE DEF C, w
  <1>6. 0 \in P
    <2>1. w[0] = {n}
      BY <1>2
    <2>2. Whole({n})
      OBVIOUS
    <2>3. Cardinality({n}) = 1
      BY FS_Singleton
    <2>4. Cardinality({n}) >= 0 + 1
      BY <2>3
    <2> QED
      BY <2>1, <2>2, <2>4
  <1>7. ASSUME NEW k \in Nat, k \in P
        PROVE  k + 1 \in P
    <2> SUFFICES ASSUME k + 1 <= C
                 PROVE  /\ Whole(w[k + 1])
                        /\ Closed(d, w[k + 1]) \/ Cardinality(w[k + 1]) >= (k + 1) + 1
      OBVIOUS
    <2>1. /\ Whole(w[k]) /\ (Closed(d, w[k]) \/ Cardinality(w[k]) >= k + 1)
          /\ k \in 0..C /\ k + 1 \in 0..C
      BY <1>1, <1>7
    <2>2. w[k + 1] = w[k] \cup {m \in N : NodeParent[d][m] \in w[k]}
      BY <1>2, <1>3, <2>1
    <2>3. Whole(w[k + 1])
      BY <2>1, <2>2
    <2>4. CASE Closed(d, w[k])
      <3>1. w[k + 1] = w[k]
        BY <2>2, <2>4 DEF Closed
      <3> QED
        BY <2>3, <2>4, <3>1
    <2>5. CASE ~ Closed(d, w[k])
      <3>1. PICK m \in N : NodeParent[d][m] \in w[k] /\ m \notin w[k]
        BY <2>5 DEF Closed
      <3>2. w[k] \cup {m} \subseteq w[k + 1]
        BY <2>2, <3>1
      <3>3. Cardinality(w[k] \cup {m}) = Cardinality(w[k]) + 1
        BY <1>4, <2>1, <3>1, FS_AddElement
      <3>4. IsFiniteSet(w[k + 1]) /\ Cardinality(w[k + 1]) \in Nat
        BY <1>4, <2>3
      <3>5. Cardinality(w[k] \cup {m}) <= Cardinality(w[k + 1])
        BY <3>2, <3>4, FS_Subset
      <3>6. Cardinality(w[k]) >= k + 1 /\ Cardinality(w[k]) \in Nat
        BY <1>4, <2>1, <2>5
      <3> QED
        BY <2>3, <3>3, <3>4, <3>5, <3>6
    <2> QED
      BY <2>4, <2>5
  <1>8. \A k \in Nat : k \in P
    <2> HIDE DEF P
    <2> QED
      BY <1>6, <1>7, Induction
  <1>9. Whole(w[C]) /\ (Closed(d, w[C]) \/ Cardinality(w[C]) >= C + 1)
    BY <1>1, <1>8
  <1>10. Closed(d, w[C])
    BY <1>1, <1>4, <1>9
  <1> QED
    BY <1>5, <1>9, <1>10

\* Of any nodes one hangs under none of them.
LEMMA TopOfNodes ==
    ASSUME NEW d \in DOMAIN NodeParent, NEW S \in SUBSET DOMAIN NodeParent[d], S # {}
    PROVE  \E m \in S : NodeParent[d][m] \notin S
  BY DimensionsOK DEF DimensionsOK

UnderNode(d, n) == {m \in DOMAIN NodeParent[d] : NodeParent[d][m] = n}

\* What is below a node under another is below the other.
LEMMA BelowUnder ==
    ASSUME NEW d \in DOMAIN NodeParent, NEW n \in DOMAIN NodeParent[d], NEW c \in UnderNode(d, n)
    PROVE  Descendants(d, c) \subseteq Descendants(d, n)
  <1> DEFINE B == Descendants(d, c) \ Descendants(d, n)
  <1>1. SUFFICES ASSUME B # {}
                 PROVE  FALSE
    OBVIOUS
  <1>2. c \in DOMAIN NodeParent[d] /\ NodeParent[d][c] = n
    BY DEF UnderNode
  <1>3. B \subseteq DOMAIN NodeParent[d]
    BY <1>2, DescendantsFound
  <1>4. PICK m \in B : NodeParent[d][m] \notin B
    <2> HIDE DEF B
    <2> QED
      BY <1>1, <1>3, TopOfNodes
  <1>5. n \in Descendants(d, n) /\ Closed(d, Descendants(d, n))
    BY DescendantsFound
  <1>6. m = c \/ NodeParent[d][m] \in Descendants(d, c)
    BY <1>2, DescendantsFound
  <1> QED
    BY <1>2, <1>3, <1>4, <1>5, <1>6 DEF Closed

\* A node is below none of those under it.
LEMMA NoNodeBelowItself ==
    ASSUME NEW d \in DOMAIN NodeParent, NEW n \in DOMAIN NodeParent[d], NEW c \in UnderNode(d, n)
    PROVE  n \notin Descendants(d, c)
  <1> DEFINE S == {m \in Descendants(d, c) : n \in Descendants(d, m)}
  <1>1. SUFFICES ASSUME n \in Descendants(d, c)
                 PROVE  FALSE
    OBVIOUS
  <1>2. c \in DOMAIN NodeParent[d] /\ NodeParent[d][c] = n
    BY DEF UnderNode
  <1>3. /\ Descendants(d, c) \subseteq DOMAIN NodeParent[d]
        /\ \A m \in Descendants(d, c) : m = c \/ NodeParent[d][m] \in Descendants(d, c)
    BY <1>2, DescendantsFound
  <1>4. n \in S
    BY <1>1, DescendantsFound
  <1>5. ASSUME NEW m \in S
        PROVE  NodeParent[d][m] \in S
    <2>1. CASE m = c
      BY <1>2, <1>4, <2>1
    <2>2. CASE m # c
      <3> DEFINE q == NodeParent[d][m]
      <3>1. q \in Descendants(d, c)
        BY <1>3, <2>2
      <3>2. q \in DOMAIN NodeParent[d] /\ m \in UnderNode(d, q)
        BY <1>3, <3>1 DEF UnderNode
      <3> HIDE DEF q
      <3>3. n \in Descendants(d, q)
        BY <3>2, BelowUnder
      <3> QED
        BY <3>1, <3>3 DEF q
    <2> QED
      BY <2>1, <2>2
  <1>6. S \subseteq DOMAIN NodeParent[d] /\ S # {}
    BY <1>3, <1>4
  <1> HIDE DEF S
  <1> QED
    BY <1>5, <1>6, TopOfNodes

\* What is below two nodes under one has nothing in common.
LEMMA BranchesApart ==
    ASSUME NEW d \in DOMAIN NodeParent, NEW n \in DOMAIN NodeParent[d],
           NEW b \in UnderNode(d, n), NEW c \in UnderNode(d, n), b # c
    PROVE  Descendants(d, b) \cap Descendants(d, c) = {}
  <1> DEFINE S == Descendants(d, b) \cap Descendants(d, c)
  <1>1. SUFFICES ASSUME S # {}
                 PROVE  FALSE
    OBVIOUS
  <1>2. /\ b \in DOMAIN NodeParent[d] /\ NodeParent[d][b] = n
        /\ c \in DOMAIN NodeParent[d] /\ NodeParent[d][c] = n
    BY DEF UnderNode
  <1>3. /\ Descendants(d, b) \subseteq DOMAIN NodeParent[d]
        /\ \A m \in Descendants(d, b) : m = b \/ NodeParent[d][m] \in Descendants(d, b)
        /\ \A m \in Descendants(d, c) : m = c \/ NodeParent[d][m] \in Descendants(d, c)
    BY <1>2, DescendantsFound
  <1>4. n \notin Descendants(d, b) /\ n \notin Descendants(d, c)
    BY NoNodeBelowItself
  <1>5. PICK m \in S : NodeParent[d][m] \notin S
    <2>1. S \subseteq DOMAIN NodeParent[d]
      BY <1>3
    <2> HIDE DEF S
    <2> QED
      BY <1>1, <2>1, TopOfNodes
  <1> QED
    BY <1>2, <1>3, <1>4, <1>5

\* The descendants of a node are the node and those of the nodes under it.
LEMMA BranchesCover ==
    ASSUME NEW d \in DOMAIN NodeParent, NEW n \in DOMAIN NodeParent[d]
    PROVE  Descendants(d, n)
             = {n} \cup UNION {Descendants(d, c) : c \in UnderNode(d, n)}
  <1> DEFINE below == UNION {Descendants(d, c) : c \in UnderNode(d, n)}
             B == Descendants(d, n) \ ({n} \cup below)
  <1>1. below \subseteq Descendants(d, n)
    BY BelowUnder
  <1>2. n \in Descendants(d, n) /\ Descendants(d, n) \subseteq DOMAIN NodeParent[d]
    BY DescendantsFound
  <1>3. ASSUME B # {}
        PROVE  FALSE
    <2>1. PICK m \in B : NodeParent[d][m] \notin B
      <3>1. B \subseteq DOMAIN NodeParent[d]
        BY <1>2
      <3> HIDE DEF B
      <3> QED
        BY <1>3, <3>1, TopOfNodes
    <2>2. m \in DOMAIN NodeParent[d] /\ NodeParent[d][m] \in Descendants(d, n)
      BY <1>2, <2>1, DescendantsFound
    <2>3. CASE NodeParent[d][m] = n
      <3>1. m \in UnderNode(d, n) /\ m \in Descendants(d, m)
        BY <2>2, <2>3, DescendantsFound DEF UnderNode
      <3> QED
        BY <2>1, <3>1
    <2>4. CASE NodeParent[d][m] # n
      <3>1. NodeParent[d][m] \in below
        BY <2>1, <2>2, <2>4
      <3>2. PICK c \in UnderNode(d, n) : NodeParent[d][m] \in Descendants(d, c)
        BY <3>1
      <3>3. c \in DOMAIN NodeParent[d]
        BY DEF UnderNode
      <3>4. m \in Descendants(d, c)
        BY <2>2, <3>2, <3>3, DescendantsFound DEF Closed
      <3> QED
        BY <2>1, <3>4
    <2> QED
      BY <2>3, <2>4
  <1> QED
    BY <1>1, <1>2, <1>3
-----------------------------------------------------------------------------
(* The rows of a dimension *)

\* The same question about a node, and without one.
AtNode(f, d, n) == [f EXCEPT !.nodes[d] = n]
WithoutNode(f) == [f EXCEPT !.nodes = <<>>]

NodeAmount(t, f, d, n) == Total(t.material, FilterVariance(t, AtNode(f, d, n))).variance

\* The sum over the nodes under one, as a sum of a function.
IteratesNodes(t, f, d, S, g) ==
    g = [s \in SUBSET S |-> IF s = {} THEN 0
            ELSE Total(t.material, FilterVariance(t, [f EXCEPT !.nodes[d] = Pick(s)])).variance
                 + g[s \ {Pick(s)}]]

IteratedNodes(t, f, d, S) == CHOOSE g : IteratesNodes(t, f, d, S, g)

NodeAmounts(t, f, d, S) == [n \in S |-> NodeAmount(t, f, d, n)]

\* The amounts of nodes added up are a finite sum.
LEMMA NodesAreSigma ==
    ASSUME NEW t, NEW f, NEW d, NEW S
    PROVE  MapThenSumSet(LAMBDA n :
                 Total(t.material, FilterVariance(t, [f EXCEPT !.nodes[d] = n])).variance, S)
             = Sigma(NodeAmounts(t, f, d, S), S)
  <1>1. MapThenSumSet(LAMBDA n :
                 Total(t.material, FilterVariance(t, [f EXCEPT !.nodes[d] = n])).variance, S)
          = IteratedNodes(t, f, d, S)[S]
    BY DEF MapThenSumSet, MapThenFoldSet, IteratedNodes, IteratesNodes, Pick
  <1>2. \A g : IteratesNodes(t, f, d, S, g) <=> Iterates(NodeAmounts(t, f, d, S), S, g)
    <2>1. \A s \in SUBSET S : s # {} => Pick(s) \in S
      BY PickIn
    <2>2. \A n \in S : NodeAmounts(t, f, d, S)[n]
              = Total(t.material, FilterVariance(t, [f EXCEPT !.nodes[d] = n])).variance
      BY DEF NodeAmounts, NodeAmount, AtNode
    <2> QED
      BY <2>1, <2>2 DEF IteratesNodes, Iterates
  <1>3. IteratedNodes(t, f, d, S) = Iterated(NodeAmounts(t, f, d, S), S)
    BY <1>2, Zenon DEF IteratedNodes, Iterated
  <1> QED
    BY <1>1, <1>3, SigmaIterated

\* What is asked of a node of one dimension.
LEMMA NodeFilter ==
    ASSUME NEW f \in Filters, f.nodes # <<>>, NEW d, d = CHOOSE x \in DOMAIN f.nodes : TRUE
    PROVE  /\ d \in DOMAIN NodeParent /\ DOMAIN f.nodes = {d}
           /\ f.nodes[d] \in DOMAIN NodeParent[d]
  <1>1. f.nodes \in UNION {[{x} -> DOMAIN NodeParent[x]] : x \in DOMAIN NodeParent}
    BY DEF Filters
  <1>2. PICK x \in DOMAIN NodeParent : f.nodes \in [{x} -> DOMAIN NodeParent[x]]
    BY <1>1
  <1>3. DOMAIN f.nodes = {x} /\ f.nodes[x] \in DOMAIN NodeParent[x]
    BY <1>2
  <1>4. d = x
    BY <1>3
  <1> QED
    BY <1>2, <1>3, <1>4

\* The rows of a node are those of its descendants.
LEMMA NodeRows ==
    ASSUME NEW t, NEW f \in Filters, NEW d, DOMAIN f.nodes = {d}, NEW n
    PROVE  FilterVariance(t, AtNode(f, d, n))
             = {k \in FilterVariance(t, WithoutNode(f)) : NodeOf[k.slice][d] \in Descendants(d, n)}
  <1>1. /\ AtNode(f, d, n).view = f.view /\ AtNode(f, d, n).base = f.base
        /\ AtNode(f, d, n).period = f.period /\ AtNode(f, d, n).unit = f.unit
        /\ AtNode(f, d, n).nodes = [f.nodes EXCEPT ![d] = n]
    BY DEF AtNode, Filters
  <1>2. /\ WithoutNode(f).view = f.view /\ WithoutNode(f).base = f.base
        /\ WithoutNode(f).period = f.period /\ WithoutNode(f).unit = f.unit
        /\ WithoutNode(f).nodes = <<>>
    BY DEF WithoutNode, Filters
  <1>3. DOMAIN AtNode(f, d, n).nodes = {d} /\ AtNode(f, d, n).nodes[d] = n
    BY <1>1
  <1>4. DOMAIN WithoutNode(f).nodes = {}
    BY <1>2
  <1> QED
    BY <1>1, <1>2, <1>3, <1>4 DEF FilterVariance

\* What a node shows is what it has itself and what the nodes under it show.
LEMMA NodeAddsUp ==
    ASSUME NEW v \in Versions, NEW U, NEW f \in Filters, NEW d \in DOMAIN NodeParent,
           DOMAIN f.nodes = {d}, NEW n \in DOMAIN NodeParent[d], NEW t, t = Served(v, U)
    PROVE  NodeAmount(t, f, d, n)
             = Total(t.material, {k \in FilterVariance(t, WithoutNode(f)) :
                                      NodeOf[k.slice][d] = n}).variance
               + Sigma(NodeAmounts(t, f, d, UnderNode(d, n)), UnderNode(d, n))
  <1> DEFINE R == FilterVariance(t, WithoutNode(f))
             I == UnderNode(d, n)
             own == {k \in R : NodeOf[k.slice][d] = n}
             part == [c \in I |-> FilterVariance(t, AtNode(f, d, c))]
             all == FilterVariance(t, AtNode(f, d, n))
             below == UNION {part[c] : c \in I}
             column == Column(t.material, "variance")
  <1>1. /\ R \subseteq DOMAIN t.material
        /\ IsFiniteSet(DOMAIN t.material)
        /\ \A k \in DOMAIN t.material : column[k] \in Int
    BY ServedRows DEF FilterVariance, Column
  <1>2. /\ all = {k \in R : NodeOf[k.slice][d] \in Descendants(d, n)}
        /\ \A c \in I : part[c] = {k \in R : NodeOf[k.slice][d] \in Descendants(d, c)}
    BY NodeRows
  <1> HIDE DEF R, all, part, column
  <1>3. /\ \A c \in I : IsFiniteSet(part[c]) /\ \A k \in part[c] : column[k] \in Int
        /\ IsFiniteSet(own) /\ IsFiniteSet(all) /\ IsFiniteSet(below)
        /\ \A k \in own \cup below : column[k] \in Int
        /\ own \subseteq DOMAIN t.material /\ all \subseteq DOMAIN t.material
        /\ \A c \in I : part[c] \subseteq DOMAIN t.material
    <2>1. IsFiniteSet(R)
      BY <1>1, FS_Subset
    <2>2. /\ own \subseteq R /\ all \subseteq R /\ below \subseteq R
          /\ \A c \in I : part[c] \subseteq R
      BY <1>2
    <2> HIDE DEF own, below
    <2> QED
      BY <1>1, <2>1, <2>2, FS_Subset
  <1>4. all = own \cup below
    <2>1. Descendants(d, n) = {n} \cup UNION {Descendants(d, c) : c \in I}
      BY BranchesCover
    <2> HIDE DEF I
    <2>2. \A k : k \in below <=> k \in R /\ \E c \in I : NodeOf[k.slice][d] \in Descendants(d, c)
      BY <1>2
    <2> QED
      BY <1>2, <2>1, <2>2
  <1>5. own \cap below = {}
    <2>1. \A c \in I : n \notin Descendants(d, c)
      BY NoNodeBelowItself
    <2> HIDE DEF I
    <2> QED
      BY <1>2, <2>1
  <1>6. \A b \in I : \A c \in I : b # c => part[b] \cap part[c] = {}
    <2>1. \A b \in I : \A c \in I : b # c => Descendants(d, b) \cap Descendants(d, c) = {}
      BY BranchesApart
    <2> HIDE DEF I
    <2> QED
      BY <1>2, <2>1
  <1>7. IsFiniteSet(I)
    <2>1. I \subseteq DOMAIN NodeParent[d] /\ IsFiniteSet(DOMAIN NodeParent[d])
      BY DimensionsOK DEF DimensionsOK, UnderNode
    <2> QED
      BY <2>1, FS_Subset
  <1>8. "variance" \in DOMAIN Zero
    BY DEF Zero
  <1>9. \A c \in I : NodeAmounts(t, f, d, I)[c] = Sigma(column, part[c])
    <2> SUFFICES ASSUME NEW c \in I
                 PROVE  NodeAmounts(t, f, d, I)[c] = Sigma(column, part[c])
      OBVIOUS
    <2>1. NodeAmounts(t, f, d, I)[c] = Total(t.material, part[c])["variance"]
      BY DEF NodeAmounts, NodeAmount, part
    <2> QED
      BY <1>3, <1>8, <2>1, TotalIsSigma DEF column
  <1>10. NodeAmount(t, f, d, n) = Sigma(column, all)
    <2>1. NodeAmount(t, f, d, n) = Total(t.material, all)["variance"]
      BY DEF NodeAmount, all
    <2> QED
      BY <1>3, <1>8, <2>1, TotalIsSigma DEF column
  <1>11. Total(t.material, own).variance = Sigma(column, own)
    BY <1>3, <1>8, TotalIsSigma DEF column
  <1>12. Sigma(NodeAmounts(t, f, d, I), I) = Sigma(column, below)
    <2> DEFINE G == NodeAmounts(t, f, d, I)
    <2>1. /\ \A c \in I : IsFiniteSet(part[c]) /\ \A k \in part[c] : column[k] \in Int
          /\ \A c \in I : G[c] = Sigma(column, part[c])
      BY <1>3, <1>9
    <2> HIDE DEF I, G
    <2>2. Sigma(G, I) = Sigma(column, UNION {part[c] : c \in I})
      <3>1. Parts(column, I, part, G)
        BY ONLY <1>6, <1>7, <2>1 DEF Parts
      <3>2. AddsUp(column, I, part, G)
        BY ONLY <3>1, SigmaParts
      <3> QED
        BY <3>2 DEF AddsUp
    <2> QED
      BY <2>2 DEF G
  <1>13. Sigma(column, own \cup below) = Sigma(column, own) + Sigma(column, below)
    <2> HIDE DEF own, below
    <2> QED
      BY <1>3, <1>5, SigmaUnion
  <1> QED
    BY <1>4, <1>10, <1>11, <1>12, <1>13 DEF R

\* What a node of a dimension shows adds up to what it has and what the nodes under
\* it show, whatever is served.
THEOREM NodesAreSums == Spec => []NodesAddUp
  <1>1. TypeInv => NodesAddUp
    <2> SUFFICES ASSUME TypeInv, NEW f \in Filters, f.nodes # <<>>
                 PROVE  LET t == Served(tables, unread)
                            d == CHOOSE x \in DOMAIN f.nodes : TRUE
                            at(n) == FilterVariance(t, [f EXCEPT !.nodes[d] = n])
                            under == GetDimensionHierarchy(d).under[f.nodes[d]]
                            own == {k \in FilterVariance(t, [f EXCEPT !.nodes = <<>>]) :
                                       NodeOf[k.slice][d] = f.nodes[d]}
                        IN  Total(t.material, at(f.nodes[d])).variance
                                = Total(t.material, own).variance
                                  + MapThenSumSet(LAMBDA n : Total(t.material, at(n)).variance, under)
      BY DEF NodesAddUp
    <2> DEFINE t == Served(tables, unread)
               d == CHOOSE x \in DOMAIN f.nodes : TRUE
               n == f.nodes[d]
    <2>1. tables \in Versions
      BY DEF TypeInv
    <2>2. d \in DOMAIN NodeParent /\ DOMAIN f.nodes = {d} /\ n \in DOMAIN NodeParent[d]
      BY NodeFilter
    <2>3. t = Served(tables, unread)
      OBVIOUS
    <2> HIDE DEF t, d, n
    <2>4. NodeAmount(t, f, d, n)
             = Total(t.material, {k \in FilterVariance(t, WithoutNode(f)) :
                                      NodeOf[k.slice][d] = n}).variance
               + Sigma(NodeAmounts(t, f, d, UnderNode(d, n)), UnderNode(d, n))
      BY <2>1, <2>2, <2>3, NodeAddsUp
    <2>5. GetDimensionHierarchy(d).under[n] = UnderNode(d, n)
      BY <2>2 DEF GetDimensionHierarchy, UnderNode
    <2>6. MapThenSumSet(LAMBDA m :
               Total(t.material, FilterVariance(t, [f EXCEPT !.nodes[d] = m])).variance, UnderNode(d, n))
             = Sigma(NodeAmounts(t, f, d, UnderNode(d, n)), UnderNode(d, n))
      BY NodesAreSigma
    <2> QED
      BY <2>4, <2>5, <2>6 DEF NodeAmount, AtNode, WithoutNode, t, d, n
  <1> QED
    BY <1>1, TypeInvariant, PTL

-----------------------------------------------------------------------------
(* The alerts of a node *)

\* What alerts a node under n may be about, the alerts of n may be about, but for
\* geography.
LEMMA SlicesOfNodes ==
    ASSUME NEW f \in Filters, NEW d \in DOMAIN NodeParent, d # "geo", DOMAIN f.nodes = {d},
           NEW n \in DOMAIN NodeParent[d], n = f.nodes[d], NEW c \in UnderNode(d, n), NEW s,
           SliceMatches(s, AtNode(f, d, c))
    PROVE  SliceMatches(s, f)
  <1>1. /\ AtNode(f, d, c).unit = f.unit /\ DOMAIN AtNode(f, d, c).nodes = {d}
        /\ AtNode(f, d, c).nodes[d] = c
    BY DEF AtNode, Filters
  <1>2. f.unit \in {Null, BusinessUnit[s]} /\ NodeOf[s][d] \in Descendants(d, c)
    BY <1>1 DEF SliceMatches, AlertNodes
  <1>3. NodeOf[s][d] \in Descendants(d, n)
    BY <1>2, BelowUnder
  <1> QED
    BY <1>2, <1>3 DEF SliceMatches, AlertNodes

\* Of two filters the first lets everything through that the second does.
Wider(f, g) == /\ g.period = f.period
               /\ \A s \in Slices : SliceMatches(s, g) => SliceMatches(s, f)

\* With room for all, a netting alert of one filter is one of any wider filter.
LEMMA NettingAlertsKept ==
    ASSUME NEW v \in Versions, NEW U, NEW t, t = Served(v, U), NEW f, NEW g, Wider(f, g),
           NEW room \in Nat, room >= Cardinality(t.netting)
    PROVE  GetNettingAlerts(t, g, room) \subseteq GetNettingAlerts(t, f, room)
  <1>1. IsFiniteSet(t.netting) /\ \A x \in t.netting : x.slice \in Slices /\ x.gross \in Int
    BY ServedFlags
  <1>2. ASSUME NEW h
        PROVE  GetNettingAlerts(t, h, room) = {NettingAlert(x) : x \in NettingShown(t, h, room)}
    BY DEF GetNettingAlerts, NettingAlert, NettingShown, NettingAhead, NettingFlags
  <1>3. ASSUME NEW x \in NettingShown(t, g, room)
        PROVE  x \in NettingShown(t, f, room)
    <2>1. x \in NettingFlags(t, f) /\ x \in t.netting
      BY <1>1, <1>3 DEF NettingShown, NettingFlags, Wider
    <2>2. NettingAhead(t, f, x) \subseteq t.netting \ {x}
      BY <1>1, <2>1 DEF NettingAhead, NettingFlags
    <2>3. /\ IsFiniteSet(t.netting \ {x}) /\ Cardinality(t.netting) \in Nat
          /\ Cardinality(t.netting \ {x}) = Cardinality(t.netting) - 1
      BY <1>1, <2>1, FS_RemoveElement, FS_CardinalityType
    <2>4. /\ Cardinality(NettingAhead(t, f, x)) <= Cardinality(t.netting \ {x})
          /\ Cardinality(NettingAhead(t, f, x)) \in Nat
      BY <2>2, <2>3, FS_Subset, FS_CardinalityType
    <2> QED
      BY <2>1, <2>3, <2>4 DEF NettingShown
  <1> QED
    BY <1>2, <1>3

\* With room for all, an account that alerts one filter alerts any wider filter, with
\* a trend that is no smaller.
LEMMA TrendAlertsKept ==
    ASSUME NEW v \in Versions, NEW U, NEW t, t = Served(v, U), NEW f, NEW g, Wider(f, g),
           NEW room \in Nat, room >= Cardinality(t.trends), NEW a \in GetTrendAlerts(t, g, room)
    PROVE  \E b \in GetTrendAlerts(t, f, room) :
              a.account = b.account /\ Abs(a.cumulative) <= Abs(b.cumulative)
  <1>1. IsFiniteSet(t.trends)
        /\ \A x \in t.trends : x.key.slice \in Slices /\ x.cumulative \in Int
    BY ServedFlags
  <1>2. ASSUME NEW h
        PROVE  GetTrendAlerts(t, h, room) = {TrendAlert(x) : x \in TrendShown(t, h, room)}
    BY DEF GetTrendAlerts, TrendAlert, TrendShown, TrendAhead, TrendFirsts, TrendFlags, Larger
  <1>3. PICK x \in TrendShown(t, g, room) : a = TrendAlert(x)
    BY <1>2
  <1>4. x \in TrendFlags(t, f) /\ x \in t.trends
    BY <1>1 DEF TrendShown, TrendFirsts, TrendFlags, Wider
  <1>5. PICK y \in TrendFirsts(t, f) : y.key.account = x.key.account /\ ~ Larger(x, y)
    BY <1>1, <1>4, FirstOfAccount
  <1>6. y \in t.trends
    BY DEF TrendFirsts, TrendFlags
  <1>7. Abs(x.cumulative) \in Int /\ Abs(y.cumulative) \in Int
    BY <1>1, <1>4, <1>6 DEF Abs
  <1>8. y \in TrendShown(t, f, room)
    <2> DEFINE S == {z \in TrendFirsts(t, f) : Larger(z, y)}
    <2>1. S \subseteq t.trends \ {y}
      BY <1>7 DEF TrendFirsts, TrendFlags, Larger
    <2>2. /\ IsFiniteSet(t.trends \ {y}) /\ Cardinality(t.trends) \in Nat
          /\ Cardinality(t.trends \ {y}) = Cardinality(t.trends) - 1
      BY <1>1, <1>6, FS_RemoveElement, FS_CardinalityType
    <2>3. IsFiniteSet(S) /\ Cardinality(S) <= Cardinality(t.trends) - 1 /\ Cardinality(S) \in Nat
      BY <2>1, <2>2, FS_Subset, FS_CardinalityType
    <2>4. [z \in S |-> z.key.account] \in Surjection(S, TrendAhead(t, f, y))
      BY DEF Surjection, TrendAhead
    <2>5. /\ Cardinality(TrendAhead(t, f, y)) <= Cardinality(S)
          /\ Cardinality(TrendAhead(t, f, y)) \in Nat
      BY <2>3, <2>4, FS_Surjection, FS_CardinalityType
    <2> QED
      BY <2>2, <2>3, <2>5 DEF TrendShown
  <1>9. Abs(x.cumulative) <= Abs(y.cumulative)
    BY <1>5, <1>7 DEF Larger
  <1>10. TrendAlert(y) \in GetTrendAlerts(t, f, room)
    BY <1>2, <1>8
  <1> QED
    BY <1>3, <1>5, <1>9, <1>10 DEF TrendAlert

\* But for geography, what alerts a node alerts the node above it, whatever is served
\* and whichever tables could not be read.
THEOREM NodesHideNothing == Spec => []NodesKeepAlerts
  <1>1. TypeInv => NodesKeepAlerts
    <2> SUFFICES ASSUME TypeInv, NEW f \in Filters, f.nodes # <<>>, "geo" \notin DOMAIN f.nodes
                 PROVE  LET t == Served(tables, unread)
                            d == CHOOSE x \in DOMAIN f.nodes : TRUE
                            under == {[f EXCEPT !.nodes[d] = n] :
                                         n \in GetDimensionHierarchy(d).under[f.nodes[d]]}
                            room == Cardinality(t.netting) + Cardinality(t.trends)
                        IN  \A g \in under :
                               /\ GetNettingAlerts(t, g, room) \subseteq GetNettingAlerts(t, f, room)
                               /\ \A x \in GetTrendAlerts(t, g, room) :
                                  \E y \in GetTrendAlerts(t, f, room) :
                                     x.account = y.account /\ Abs(x.cumulative) <= Abs(y.cumulative)
      BY DEF NodesKeepAlerts
    <2> DEFINE t == Served(tables, unread)
               d == CHOOSE x \in DOMAIN f.nodes : TRUE
               n == f.nodes[d]
               room == Cardinality(t.netting) + Cardinality(t.trends)
    <2>1. tables \in Versions /\ t = Served(tables, unread)
      BY DEF TypeInv
    <2>2. d \in DOMAIN NodeParent /\ DOMAIN f.nodes = {d} /\ n \in DOMAIN NodeParent[d]
      BY NodeFilter
    <2>3. d # "geo" /\ n = f.nodes[d]
      BY <2>2
    <2>4. IsFiniteSet(t.netting) /\ IsFiniteSet(t.trends)
      BY <2>1, ServedFlags
    <2> HIDE DEF t, d, n
    <2>5. room \in Nat /\ room >= Cardinality(t.netting) /\ room >= Cardinality(t.trends)
      BY <2>4, FS_CardinalityType
    <2>6. GetDimensionHierarchy(d).under[n] = UnderNode(d, n)
      BY <2>2 DEF GetDimensionHierarchy, UnderNode
    <2> HIDE DEF room
    <2>7. ASSUME NEW c \in UnderNode(d, n)
          PROVE  /\ GetNettingAlerts(t, AtNode(f, d, c), room) \subseteq GetNettingAlerts(t, f, room)
                 /\ \A x \in GetTrendAlerts(t, AtNode(f, d, c), room) :
                    \E y \in GetTrendAlerts(t, f, room) :
                       x.account = y.account /\ Abs(x.cumulative) <= Abs(y.cumulative)
      <3>1. AtNode(f, d, c).period = f.period
        BY DEF AtNode, Filters
      <3>2. Wider(f, AtNode(f, d, c))
        BY <2>2, <2>3, <3>1, SlicesOfNodes DEF Wider
      <3> QED
        BY <2>1, <2>5, <3>2, NettingAlertsKept, TrendAlertsKept
    <2>8. \A g \in {[f EXCEPT !.nodes[d] = c] : c \in GetDimensionHierarchy(d).under[n]} :
             /\ GetNettingAlerts(t, g, room) \subseteq GetNettingAlerts(t, f, room)
             /\ \A x \in GetTrendAlerts(t, g, room) : \E y \in GetTrendAlerts(t, f, room) :
                   x.account = y.account /\ Abs(x.cumulative) <= Abs(y.cumulative)
      BY <2>6, <2>7, Zenon DEF AtNode
    <2> QED
      BY <2>8, Zenon DEF t, d, n, room
  <1> QED
    BY <1>1, TypeInvariant, PTL

-----------------------------------------------------------------------------
(* Recursion over numbers *)

\* One more level of the statement over those below it, one more sequence put to those
\* before it, and one more row of a list, the largest of those that are left.
Stepped(kind, g, n, v) ==
    CASE kind = "lines" ->
           [a \in Accounts |->
               <<[account |-> a, depth |-> g.levels - n,
                  amount |-> Total(g.t.material, OfAccount(g.K, a)),
                  material |-> AnyMaterial(g.t, OfAccount(g.K, a))]>>
               \o (IF n = 0 THEN <<>>
                   ELSE FlattenSeq([i \in DOMAIN g.children[a] |-> v[g.children[a][i]]]))]
      [] kind = "join" -> IF n = 1 THEN g[n] ELSE v \o g[n]
      [] kind = "listed" ->
           IF n = 0 THEN <<>>
           ELSE Append(v, CHOOSE k \in g.rows \ ToSet(v) :
                              \A j \in g.rows \ ToSet(v) :
                                  Abs(g.material[j].variance) <= Abs(g.material[k].variance))

Steps(kind, g, first, last, w) ==
    w = [n \in first..last |-> Stepped(kind, g, n, w[n - 1])]

TheSteps(kind, g, first, last) == CHOOSE w : Steps(kind, g, first, last, w)

\* The first value needs none before it.
Starts(kind, g, first) ==
    \A u, v : Stepped(kind, g, first, u) = Stepped(kind, g, first, v)

GoesOn(kind, g, first, last) ==
    \A n \in first..last :
        TheSteps(kind, g, first, last)[n]
            = Stepped(kind, g, n, TheSteps(kind, g, first, last)[n - 1])

\* The recursion is defined when its first value needs none before it.
LEMMA StepsExist ==
    ASSUME NEW kind, NEW g, NEW first \in Nat, NEW N \in Nat,
           Starts(kind, g, first)
    PROVE  \E w : Steps(kind, g, first, first + N, w)
  <1> DEFINE P == {n \in Nat : \E w : Steps(kind, g, first, first + n, w)}
  <1>1. 0 \in P
    <2> DEFINE w == [n \in first..(first + 0) |-> Stepped(kind, g, first, 0)]
    <2>1. \A n \in first..(first + 0) : w[n] = Stepped(kind, g, n, w[n - 1])
      <3> SUFFICES ASSUME NEW n \in first..(first + 0)
                   PROVE  w[n] = Stepped(kind, g, n, w[n - 1])
        OBVIOUS
      <3>1. n = first /\ w[n] = Stepped(kind, g, first, 0)
        OBVIOUS
      <3> HIDE DEF w
      <3> QED
        BY <3>1 DEF Starts
    <2>2. w = [n \in first..(first + 0) |-> w[n]]
      OBVIOUS
    <2> HIDE DEF w
    <2>3. Steps(kind, g, first, first + 0, w)
      BY <2>1, <2>2 DEF Steps
    <2> QED
      BY <2>3
  <1>2. ASSUME NEW n \in Nat, n \in P
        PROVE  n + 1 \in P
    <2>1. PICK w : Steps(kind, g, first, first + n, w)
      BY <1>2
    <2> DEFINE m == first + n
               u == [i \in first..(m + 1) |-> IF i <= m THEN w[i] ELSE Stepped(kind, g, m + 1, w[m])]
    <2>0. m \in Nat /\ first <= m /\ first + (n + 1) = m + 1
      OBVIOUS
    <2>2. \A i \in first..m : w[i] = Stepped(kind, g, i, w[i - 1])
      BY <2>1 DEF Steps
    <2> HIDE DEF m
    <2>3. \A i \in first..(m + 1) : u[i] = Stepped(kind, g, i, u[i - 1])
      <3> SUFFICES ASSUME NEW i \in first..(m + 1)
                   PROVE  u[i] = Stepped(kind, g, i, u[i - 1])
        OBVIOUS
      <3>1. CASE i = first
        <4>1. u[i] = w[i] /\ i \in first..m
          BY <2>0, <3>1
        <4> QED
          BY <2>2, <3>1, <4>1 DEF Starts
      <3>2. CASE i # first /\ i <= m
        <4>1. i - 1 \in first..(m + 1) /\ i - 1 <= m /\ i \in first..m
          BY <2>0, <3>2
        <4>2. u[i] = w[i] /\ u[i - 1] = w[i - 1]
          BY <3>2, <4>1
        <4> QED
          BY <2>2, <4>1, <4>2
      <3>3. CASE i = m + 1
        <4>1. ~(m + 1 <= m) /\ m \in first..(m + 1) /\ i - 1 = m
          BY <2>0, <3>3
        <4>2. u[m] = w[m] /\ u[m + 1] = Stepped(kind, g, m + 1, w[m])
          BY <2>0, <4>1
        <4> QED
          BY <3>3, <4>1, <4>2
      <3> QED
        BY <2>0, <3>1, <3>2, <3>3
    <2>4. u = [i \in first..(m + 1) |-> u[i]]
      OBVIOUS
    <2> HIDE DEF u
    <2>5. Steps(kind, g, first, m + 1, u)
      BY <2>3, <2>4 DEF Steps
    <2> QED
      BY <2>0, <2>5
  <1> HIDE DEF P
  <1>3. \A n \in Nat : n \in P
    BY <1>1, <1>2, Induction
  <1> QED
    BY <1>3 DEF P

\* Each value of the recursion is made from the one before it.
LEMMA StepsGoOn ==
    ASSUME NEW kind, NEW g, NEW first \in Nat, NEW N \in Nat,
           Starts(kind, g, first)
    PROVE  GoesOn(kind, g, first, first + N)
  <1> DEFINE w == TheSteps(kind, g, first, first + N)
  <1>1. Steps(kind, g, first, first + N, w)
    BY StepsExist DEF TheSteps
  <1> HIDE DEF w
  <1>2. \A n \in first..(first + N) : w[n] = Stepped(kind, g, n, w[n - 1])
    BY <1>1 DEF Steps
  <1> QED
    BY <1>2 DEF w, GoesOn

\* Sequences put together, one after another.
Joint(ss) == TheSteps("join", ss, 1, Len(ss))

\* FlattenSeq is that recursion.
LEMMA FlattenIsJoint ==
    ASSUME NEW ss, Len(ss) # 0
    PROVE  FlattenSeq(ss) = Joint(ss)[Len(ss)]
  BY DEF FlattenSeq, Joint, TheSteps, Steps, Stepped

\* It begins with the first sequence, and each further one follows.
LEMMA JointGoesOn ==
    ASSUME NEW ss, Len(ss) \in Nat, Len(ss) # 0
    PROVE  /\ Joint(ss)[1] = ss[1]
           /\ \A n \in 1..(Len(ss) - 1) : Joint(ss)[n + 1] = Joint(ss)[n] \o ss[n + 1]
  <1> DEFINE N == Len(ss) - 1
  <1>1. N \in Nat /\ 1 + N = Len(ss)
    OBVIOUS
  <1> HIDE DEF N
  <1>2. Starts("join", ss, 1)
    BY DEF Stepped, Starts
  <1>3. GoesOn("join", ss, 1, 1 + N)
    <2>1. 1 \in Nat
      OBVIOUS
    <2> QED
      BY ONLY <1>1, <1>2, <2>1, StepsGoOn
  <1>4. \A n \in 1..(1 + N) : Joint(ss)[n] = Stepped("join", ss, n, Joint(ss)[n - 1])
    BY <1>1, <1>3 DEF Joint, GoesOn
  <1>5. Joint(ss)[1] = ss[1]
    BY <1>1, <1>4 DEF Stepped
  <1>6. ASSUME NEW n \in 1..N
        PROVE  Joint(ss)[n + 1] = Joint(ss)[n] \o ss[n + 1]
    <2>1. n + 1 \in 1..(1 + N) /\ (n + 1) - 1 = n /\ n + 1 # 1
      BY <1>1
    <2>2. Joint(ss)[n + 1] = Stepped("join", ss, n + 1, Joint(ss)[n])
      BY <1>4, <2>1
    <2> QED
      BY <2>1, <2>2 DEF Stepped
  <1> QED
    BY <1>5, <1>6 DEF N

\* What is put together of sequences has their entries.
LEMMA FlattenType ==
    ASSUME NEW S, NEW ss \in Seq(Seq(S))
    PROVE  FlattenSeq(ss) \in Seq(S)
  <1>1. Len(ss) \in Nat /\ \A i \in 1..Len(ss) : ss[i] \in Seq(S)
    BY LenProperties, ElementOfSeq
  <1>2. CASE Len(ss) = 0
    <2>1. FlattenSeq(ss) = ss /\ ss = <<>>
      BY <1>2, EmptySeq DEF FlattenSeq
    <2> QED
      BY <2>1, EmptySeq
  <1>3. CASE Len(ss) # 0
    <2> DEFINE P == {n \in Nat : n + 1 <= Len(ss) => Joint(ss)[n + 1] \in Seq(S)}
    <2>0. /\ Joint(ss)[1] = ss[1]
          /\ \A n \in 1..(Len(ss) - 1) : Joint(ss)[n + 1] = Joint(ss)[n] \o ss[n + 1]
      BY <1>1, <1>3, JointGoesOn
    <2>1. 0 \in P
      BY <1>1, <2>0
    <2>2. ASSUME NEW n \in Nat, n \in P
          PROVE  n + 1 \in P
      <3> SUFFICES ASSUME (n + 1) + 1 <= Len(ss)
                   PROVE  Joint(ss)[(n + 1) + 1] \in Seq(S)
        OBVIOUS
      <3>1. n + 1 \in 1..(Len(ss) - 1) /\ (n + 1) + 1 \in 1..Len(ss) /\ n + 1 <= Len(ss)
        BY <1>1
      <3>2. Joint(ss)[n + 1] \in Seq(S) /\ ss[(n + 1) + 1] \in Seq(S)
        BY <1>1, <2>2, <3>1
      <3>3. Joint(ss)[(n + 1) + 1] = Joint(ss)[n + 1] \o ss[(n + 1) + 1]
        BY <2>0, <3>1
      <3> QED
        BY <3>2, <3>3, ConcatProperties
    <2> HIDE DEF P
    <2>3. \A n \in Nat : n \in P
      BY <2>1, <2>2, Induction
    <2>4. Len(ss) - 1 \in P /\ (Len(ss) - 1) + 1 = Len(ss)
      BY <1>1, <1>3, <2>3
    <2>5. Joint(ss)[Len(ss)] \in Seq(S)
      BY <1>1, <2>4 DEF P
    <2> QED
      BY <1>3, <2>5, FlattenIsJoint
  <1> QED
    BY <1>2, <1>3

Book(t, below, f) ==
    [t |-> t, K |-> FilterVariance(t, f), children |-> below, levels |-> Cardinality(Accounts)]

Levels(g) == TheSteps("lines", g, 0, 0 + g.levels)

LineOf(t, f, n, a) ==
    [account |-> a, depth |-> Cardinality(Accounts) - n,
     amount |-> Total(t.material, OfAccount(FilterVariance(t, f), a)),
     material |-> AnyMaterial(t, OfAccount(FilterVariance(t, f), a))]

UnderLine(below, n, v, a) ==
    IF n = 0 THEN <<>> ELSE FlattenSeq([i \in DOMAIN below[a] |-> v[below[a][i]]])

StatementStep(t, below, f, n, v) ==
    [a \in Accounts |-> <<LineOf(t, f, n, a)>> \o UnderLine(below, n, v, a)]

StatementSteps(t, below, f, w) ==
    w = [n \in 0..Cardinality(Accounts) |-> StatementStep(t, below, f, n, w[n - 1])]

\* The statement is the recursion over its levels.
LEMMA StatementIsSteps ==
    ASSUME NEW t, NEW below, NEW f, DOMAIN t.material # {}
    PROVE  GetPlStatement(t, below, f)
             = Levels(Book(t, below, f))[Cardinality(Accounts)][RootAccount]
  <1> DEFINE N == Cardinality(Accounts)
             g == Book(t, below, f)
  <1>1. GetPlStatement(t, below, f) = (CHOOSE w : StatementSteps(t, below, f, w))[N][RootAccount]
    BY DEF GetPlStatement, StatementSteps, StatementStep, LineOf, UnderLine
  <1>2. /\ g.t = t /\ g.K = FilterVariance(t, f) /\ g.children = below
        /\ g.levels = N
    BY DEF Book
  <1>6. N \in Nat
    BY FS_CardinalityType, AccountsOK, MembersFinite DEF AccountsOK, Accounts
  <1> HIDE DEF g, N
  <1>3. \A n, v : StatementStep(t, below, f, n, v) = Stepped("lines", g, n, v)
    BY <1>2 DEF StatementStep, LineOf, UnderLine, Stepped, N
  <1>4. \A w : StatementSteps(t, below, f, w) <=> Steps("lines", g, 0, N, w)
    BY <1>3 DEF StatementSteps, Steps, N
  <1>5. (CHOOSE w : StatementSteps(t, below, f, w)) = TheSteps("lines", g, 0, N)
    BY <1>4, Zenon DEF TheSteps
  <1>7. 0 + g.levels = N
    BY <1>2, <1>6
  <1> QED
    BY <1>1, <1>5, <1>7 DEF Levels, g, N

\* The lines there can be: each account with the amount of its rows.
LinesOf(t, f) ==
    {[account |-> ad[1], depth |-> ad[2],
      amount |-> Total(t.material, OfAccount(FilterVariance(t, f), ad[1])),
      material |-> AnyMaterial(t, OfAccount(FilterVariance(t, f), ad[1]))] : ad \in Accounts \X Int}

\* Each line of a statement has the amount of the rows of its account.
LEMMA StatementLines ==
    ASSUME NEW t, NEW below \in Families, NEW f
    PROVE  GetPlStatement(t, below, f) \in Seq(LinesOf(t, f))
  <1> DEFINE N == Cardinality(Accounts)
             g == Book(t, below, f)
             S == LinesOf(t, f)
             w == Levels(g)
  <1>1. N \in Nat
    BY FS_CardinalityType, AccountsOK, MembersFinite DEF AccountsOK, Accounts
  <1>2. g.t = t /\ g.K = FilterVariance(t, f) /\ g.children = below /\ g.levels = N
    BY DEF Book
  <1>3. below \in [Accounts -> Seq(Accounts)]
    BY DEF Families
  <1> HIDE DEF g, N
  <1>4. \A n \in 0..N : w[n] = Stepped("lines", g, n, w[n - 1])
    <2>1. Starts("lines", g, 0)
      BY DEF Starts, Stepped
    <2>2. 0 \in Nat
      OBVIOUS
    <2>3. GoesOn("lines", g, 0, 0 + N)
      BY ONLY <1>1, <2>1, <2>2, StepsGoOn
    <2>4. 0 + N = N
      BY <1>1
    <2> QED
      BY <1>2, <2>3, <2>4 DEF GoesOn, Levels
  <1> HIDE DEF w
  <1>5. ASSUME NEW n \in 0..N, NEW a \in Accounts,
               n = 0 \/ w[n - 1] \in [Accounts -> Seq(S)]
        PROVE  w[n][a] \in Seq(S)
    <2> DEFINE line == LineOf(t, f, n, a)
               parts == [i \in DOMAIN below[a] |-> w[n - 1][below[a][i]]]
               under == UnderLine(below, n, w[n - 1], a)
    <2>0. under = IF n = 0 THEN <<>> ELSE FlattenSeq(parts)
      BY DEF UnderLine
    <2>1. w[n][a] = <<line>> \o under
      <3>1. w[n] = StatementStep(t, below, f, n, w[n - 1])
        BY <1>2, <1>4 DEF StatementStep, LineOf, UnderLine, Stepped, N
      <3> QED
        BY <3>1 DEF StatementStep
    <2>2. line \in S
      <3> DEFINE ad == <<a, N - n>>
      <3>1. ad \in Accounts \X Int /\ ad[1] = a /\ ad[2] = N - n
        BY <1>1
      <3> HIDE DEF ad
      <3> QED
        BY <3>1 DEF LinesOf, LineOf, N
    <2>3. under \in Seq(S)
      <3>1. CASE n = 0
        BY <2>0, <3>1, EmptySeq
      <3>2. CASE n # 0
        <4>1. below[a] \in Seq(Accounts)
          BY <1>3
        <4>2. /\ Len(below[a]) \in Nat /\ DOMAIN below[a] = 1..Len(below[a])
              /\ \A i \in DOMAIN below[a] : below[a][i] \in Accounts
          BY <4>1, LenProperties, ElementOfSeq
        <4>3. \A i \in DOMAIN below[a] : parts[i] \in Seq(S)
          BY <1>5, <3>2, <4>2
        <4>4. parts \in [1..Len(below[a]) -> Seq(S)]
          BY <4>2, <4>3
        <4> HIDE DEF parts, S
        <4>5. parts \in Seq(Seq(S))
          BY <4>2, <4>4, IsASeq
        <4>6. FlattenSeq(parts) \in Seq(S)
          BY <4>5, FlattenType
        <4> QED
          BY <2>0, <3>2, <4>6 DEF parts
      <3> QED
        BY <3>1, <3>2
    <2> HIDE DEF line, under, S
    <2> QED
      BY <2>1, <2>2, <2>3, ConcatProperties
  <1> DEFINE P == {n \in Nat : n <= N => w[n] \in [Accounts -> Seq(S)]}
  <1>6. ASSUME NEW n \in 0..N, n = 0 \/ w[n - 1] \in [Accounts -> Seq(S)]
        PROVE  w[n] \in [Accounts -> Seq(S)]
    <2>1. w[n] = [a \in Accounts |-> w[n][a]]
      BY <1>4 DEF Stepped
    <2>2. \A a \in Accounts : w[n][a] \in Seq(S)
      BY <1>5, <1>6
    <2> HIDE DEF S
    <2> QED
      BY <2>1, <2>2
  <1> HIDE DEF S
  <1>7. 0 \in P
    <2>1. 0 \in 0..N
      BY <1>1
    <2> QED
      BY <1>6, <2>1
  <1>8. ASSUME NEW n \in Nat, n \in P
        PROVE  n + 1 \in P
    <2> SUFFICES ASSUME n + 1 <= N
                 PROVE  w[n + 1] \in [Accounts -> Seq(S)]
      OBVIOUS
    <2>1. n + 1 \in 0..N /\ (n + 1) - 1 = n /\ n <= N
      BY <1>1
    <2> QED
      BY <1>6, <1>8, <2>1
  <1> HIDE DEF P
  <1>9. \A n \in Nat : n \in P
    BY <1>7, <1>8, Induction
  <1>10. w[N] \in [Accounts -> Seq(S)]
    BY <1>1, <1>9 DEF P
  <1>11. CASE DOMAIN t.material = {}
    <2>1. GetPlStatement(t, below, f) = <<>>
      BY <1>11 DEF GetPlStatement
    <2> QED
      BY <2>1, EmptySeq DEF S
  <1>12. CASE DOMAIN t.material # {}
    <2>1. GetPlStatement(t, below, f) = w[N][RootAccount]
      BY <1>12, StatementIsSteps DEF w, g, N
    <2> QED
      BY <1>10, <2>1, DimensionsOK DEF DimensionsOK, S
  <1> QED
    BY <1>11, <1>12

\* What a line of the statement says of its account is the amount of its rows.
LEMMA LinesTold ==
    ASSUME NEW t, NEW below \in Families, NEW f, NEW x \in ToSet(GetPlStatement(t, below, f))
    PROVE  x.amount = Total(t.material, OfAccount(FilterVariance(t, f), x.account))
  <1>1. GetPlStatement(t, below, f) \in Seq(LinesOf(t, f))
    BY StatementLines
  <1>2. x \in LinesOf(t, f)
    BY <1>1, LenProperties, ElementOfSeq DEF ToSet
  <1>3. PICK ad \in Accounts \X Int :
            x = [account |-> ad[1], depth |-> ad[2],
                 amount |-> Total(t.material, OfAccount(FilterVariance(t, f), ad[1])),
                 material |-> AnyMaterial(t, OfAccount(FilterVariance(t, f), ad[1]))]
    BY <1>2 DEF LinesOf
  <1> QED
    BY <1>3

-----------------------------------------------------------------------------
(* Cards, details and trends *)

\* A card is of an account with rows and has their amount.
LEMMA CardsTold ==
    ASSUME NEW t, NEW f, NEW c \in ToSet(GetSummaryCards(t, f))
    PROVE  /\ OfAccount(FilterVariance(t, f), c.account) # {}
           /\ c.amount = Total(t.material, OfAccount(FilterVariance(t, f), c.account))
  <1> DEFINE K == FilterVariance(t, f)
             S == {k.account : k \in K}
             shown == Among(SummaryCards, S)
             card(a) == [account |-> a, amount |-> Total(t.material, OfAccount(K, a)),
                         favorable |-> IsFavorable(a, Total(t.material, OfAccount(K, a)).variance),
                         material |-> AnyMaterial(t, OfAccount(K, a))]
  <1>1. TakenOf(SummaryCards, S, shown)
    BY AmongEntries, DimensionsOK DEF DimensionsOK
  <1>2. GetSummaryCards(t, f) = [i \in DOMAIN shown |-> card(shown[i])]
    BY DEF GetSummaryCards
  <1> HIDE DEF shown, K
  <1>3. PICK i \in DOMAIN shown : c = card(shown[i])
    BY <1>2 DEF ToSet
  <1>4. shown[i] \in S
    BY <1>1 DEF TakenOf
  <1>5. c.account = shown[i] /\ c.amount = Total(t.material, OfAccount(K, shown[i]))
    BY <1>3
  <1>6. OfAccount(K, shown[i]) # {}
    BY <1>4 DEF OfAccount
  <1> QED
    BY <1>5, <1>6 DEF K

AmountNow(t, f, a) ==
    [p \in {f.period} |-> Total(t.material, OfAccount(FilterVariance(t, f), a))]

\* The end of the trend of an account is its amount in the period.
LEMMA TrendEnds ==
    ASSUME NEW v \in Versions, NEW U, NEW t, t = Served(v, U), NEW f \in Filters, NEW a,
           OfAccount(FilterVariance(t, f), a) # {}
    PROVE  GetTrends(t, f, a, 1) = AmountNow(t, f, a)
  <1> DEFINE g == [f EXCEPT !.period = Null]
             rows == OfAccount(FilterVariance(t, g), a)
             upTo == {p \in {k.period : k \in rows} : f.period = Null \/ p <= f.period}
             kept == {p \in upTo : Cardinality({q \in upTo : q > p}) < 1}
             now == OfAccount(FilterVariance(t, f), a)
  <1>1. f.period \in Periods /\ f.period \in Nat /\ f.period # Null
    BY CascadeConstantsOK, AccountsOK DEF Filters, CascadeConstantsOK, AccountsOK
  <1>2. /\ g.period = Null /\ g.unit = f.unit /\ g.view = f.view /\ g.base = f.base
        /\ g.nodes = f.nodes
    BY DEF Filters
  <1>3. \A k : k \in now <=> k \in rows /\ k.period = f.period
    BY <1>1, <1>2 DEF FilterVariance, OfAccount
  <1>4. rows \subseteq AllKeys /\ IsFiniteSet(rows)
    <2>1. rows \subseteq DOMAIN t.material
      BY DEF FilterVariance, OfAccount
    <2> HIDE DEF rows
    <2> QED
      BY <2>1, ServedRows, FS_Subset
  <1>5. GetTrends(t, f, a, 1) = [p \in kept |-> Total(t.material, {k \in rows : k.period = p})]
    BY DEF GetTrends
  <1> HIDE DEF g, rows
  <1>6. \A p \in upTo : p \in Nat
    BY <1>4, AccountsOK DEF AllKeys, AccountsOK
  <1>7. f.period \in upTo /\ \A p \in upTo : p <= f.period
    <2>1. PICK k : k \in now
      OBVIOUS
    <2>2. k \in rows /\ k.period = f.period
      BY <1>3, <2>1
    <2> QED
      BY <1>1, <2>2
  <1>8. IsFiniteSet(upTo)
    <2>1. upTo \subseteq Periods
      BY <1>4 DEF AllKeys
    <2> HIDE DEF upTo
    <2> QED
      BY <2>1, FS_Subset, AccountsOK DEF AccountsOK
  <1> HIDE DEF upTo, now
  <1>9. kept = {f.period}
    <2>1. ASSUME NEW p \in upTo
          PROVE  Cardinality({q \in upTo : q > p}) < 1 <=> p = f.period
      <3> DEFINE later == {q \in upTo : q > p}
      <3>1. IsFiniteSet(later) /\ Cardinality(later) \in Nat
        BY <1>8, FS_Subset, FS_CardinalityType
      <3>2. Cardinality(later) = 0 <=> later = {}
        BY <3>1, FS_EmptySet
      <3>3. later = {} <=> p = f.period
        BY <1>1, <1>6, <1>7
      <3> HIDE DEF later
      <3>4. Cardinality(later) < 1 <=> p = f.period
        BY <3>1, <3>2, <3>3
      <3> QED
        BY <3>4 DEF later
    <2> QED
      BY <1>7, <2>1
  <1>10. {k \in rows : k.period = f.period} = now
    BY <1>3
  <1> HIDE DEF kept
  <1> QED
    BY <1>5, <1>9, <1>10 DEF now, AmountNow

-----------------------------------------------------------------------------
(* The waterfall *)

\* The sum of a sequence is a fold.
LEMMA SumFolds ==
    ASSUME NEW s
    PROVE  FoldLeft(+, 0, s) = Folded("sum", 0, s, DOMAIN s)[DOMAIN s]
  BY DEF FoldLeft, MapThenFoldSet, Folded, Folds, Extended, Begun

\* The sum of the first numbers of a sequence.
SumTo(s, i) == FoldAt("sum", 0, s, i)

OneMore(s, i) == SumTo(s, i + 1) = SumTo(s, i) + s[i + 1]

\* It begins with nothing, and each number is put to those before it.
LEMMA SumGoesOn ==
    ASSUME NEW s
    PROVE  SumTo(s, 0) = 0 /\ \A i \in Nat : OneMore(s, i)
  <1>1. SumTo(s, 0) = 0
    BY FoldBegins DEF SumTo, Begun
  <1>2. ASSUME NEW i \in Nat
        PROVE  OneMore(s, i)
    <2>1. FoldAt("sum", 0, s, i + 1) = Extended("sum", 0, FoldAt("sum", 0, s, i), s[i + 1])
      BY FoldGoesOn
    <2> QED
      BY <2>1 DEF SumTo, OneMore, Extended
  <1> QED
    BY <1>1, <1>2

\* A row that is served says by how much it is over what it is compared with.
LEMMA ServedAmounts ==
    ASSUME NEW v \in Versions, NEW U, NEW k \in DOMAIN Served(v, U).material
    PROVE  /\ Served(v, U).material[k].actual \in Int
           /\ Served(v, U).material[k].comparator \in Int
           /\ Served(v, U).material[k].variance \in Int
           /\ Served(v, U).material[k].variance
                = Served(v, U).material[k].actual - Served(v, U).material[k].comparator
  <1> DEFINE m == Served(v, U).material
  <1>1. m = <<>> \/ m = Outputs[v].material
    BY DEF Served, NoRows, FileWith
  <1>2. k \in DOMAIN m
    OBVIOUS
  <1> HIDE DEF m
  <1>3. m = Outputs[v].material
    BY <1>1, <1>2
  <1>4. /\ m[k] \in [actual : Int, comparator : Int, variance : Int]
        /\ m[k].variance = m[k].actual - m[k].comparator
    BY <1>2, <1>3, CascadeConstantsOK DEF Versions
  <1> QED
    BY <1>4 DEF m

\* The variances of some rows are what their actuals are over their comparators.
LEMMA VariancesAreOver ==
    ASSUME NEW v \in Versions, NEW U, NEW t, t = Served(v, U), NEW K \in SUBSET DOMAIN t.material
    PROVE  /\ Total(t.material, K).actual \in Int /\ Total(t.material, K).comparator \in Int
           /\ Total(t.material, K).actual
                = Total(t.material, K).comparator + Total(t.material, K).variance
  <1> DEFINE m == t.material
             A == Column(m, "actual")
             C == Column(m, "comparator")
             V == Column(m, "variance")
  <1>1. IsFiniteSet(K)
    BY ServedRows, FS_Subset
  <1>2. \A k \in K : A[k] \in Int /\ C[k] \in Int /\ V[k] = A[k] - C[k]
    BY ServedAmounts DEF Column
  <1>3. /\ Total(m, K)["actual"] = Sigma(A, K) /\ Total(m, K)["comparator"] = Sigma(C, K)
        /\ Total(m, K)["variance"] = Sigma(V, K)
    <2>1. "actual" \in DOMAIN Zero /\ "comparator" \in DOMAIN Zero /\ "variance" \in DOMAIN Zero
      BY DEF Zero
    <2> QED
      BY <2>1, TotalIsSigma
  <1> HIDE DEF A, C, V
  <1>4. Sigma(V, K) = Sigma(A, K) - Sigma(C, K)
    BY <1>1, <1>2, SigmaMinus
  <1>5. Sigma(A, K) \in Int /\ Sigma(C, K) \in Int
    BY <1>1, <1>2, SigmaInt
  <1> QED
    BY <1>3, <1>4, <1>5

RevenueRows(t, f) == OfAccount(FilterVariance(t, f), RevenueRow)

RowsOfUnit(R, u) == {k \in R : BusinessUnit[k.slice] = u}

\* The units with rows, and the rows of the first of them.
Present(R) == Among(UnitOrder, {BusinessUnit[k.slice] : k \in R})

RowsOfFirst(R, i) == {k \in R : \E j \in 1..i : BusinessUnit[k.slice] = Present(R)[j]}

\* The units of the waterfall: each that has rows, and no unit twice.
LEMMA UnitsPresent ==
    ASSUME NEW v \in Versions, NEW U, NEW R \in SUBSET DOMAIN Served(v, U).material
    PROVE  /\ Len(Present(R)) \in Nat /\ DOMAIN Present(R) = 1..Len(Present(R))
           /\ \A i, j \in 1..Len(Present(R)) : Present(R)[i] = Present(R)[j] => i = j
           /\ RowsOfFirst(R, 0) = {}
           /\ RowsOfFirst(R, Len(Present(R))) = R
  <1> DEFINE S == {BusinessUnit[k.slice] : k \in R}
             p == Present(R)
  <1>1. TakenOf(UnitOrder, S, p) /\ IsInjective(UnitOrder)
    BY AmongEntries, DimensionsOK DEF DimensionsOK, Present
  <1>2. p = Present(R)
    OBVIOUS
  <1> HIDE DEF p
  <1>3. ASSUME NEW k \in R
        PROVE  \E j \in 1..Len(p) : BusinessUnit[k.slice] = p[j]
    <2>1. k.slice \in Slices
      BY ServedRows DEF AllKeys
    <2>2. BusinessUnit[k.slice] \in ToSet(UnitOrder) /\ BusinessUnit[k.slice] \in S
      BY <2>1, DimensionsOK DEF DimensionsOK
    <2>3. PICK j \in DOMAIN UnitOrder : UnitOrder[j] = BusinessUnit[k.slice]
      BY <2>2 DEF ToSet
    <2> QED
      BY <1>1, <2>2, <2>3 DEF TakenOf
  <1>4. 1..0 = {}
    OBVIOUS
  <1> QED
    BY <1>1, <1>2, <1>3, <1>4 DEF TakenOf, RowsOfFirst

\* The steps of the units add up to the variance of all rows.
LEMMA UnitStepsAddUp ==
    ASSUME NEW v \in Versions, NEW U, NEW t, t = Served(v, U), NEW R \in SUBSET DOMAIN t.material,
           NEW s, NEW c \in Int, s[1] = c,
           \A i \in 1..Len(Present(R)) :
              s[i + 1] = Total(t.material, RowsOfUnit(R, Present(R)[i])).variance
    PROVE  SumTo(s, Len(Present(R)) + 1) = c + Total(t.material, R).variance
  <1> DEFINE V == Column(t.material, "variance")
             p == Present(R)
             n == Len(p)
             first(i) == RowsOfFirst(R, i)
             P == {i \in Nat : i <= n => SumTo(s, i + 1) = c + Sigma(V, first(i))}
  <1>1. /\ n \in Nat /\ DOMAIN p = 1..n /\ \A i, j \in 1..n : p[i] = p[j] => i = j
        /\ first(0) = {} /\ first(n) = R
    BY UnitsPresent
  <1>2. SumTo(s, 0) = 0 /\ \A i \in Nat : OneMore(s, i)
    BY SumGoesOn
  <1>3. IsFiniteSet(R) /\ \A k \in R : V[k] \in Int
    BY ServedRows, FS_Subset DEF Column
  <1>4. \A K \in SUBSET R : Total(t.material, K).variance = Sigma(V, K)
    <2>1. "variance" \in DOMAIN Zero
      BY DEF Zero
    <2> QED
      BY <2>1, TotalIsSigma
  <1>5. 0 \in P
    <2>1. Sigma(V, {}) = 0
      BY SigmaEmpty
    <2>2. OneMore(s, 0)
      BY <1>2
    <2>3. SumTo(s, 0 + 1) = 0 + c /\ c + 0 = 0 + c
      BY <1>2, <2>2 DEF OneMore
    <2> HIDE DEF first
    <2> QED
      BY <1>1, <2>1, <2>3
  <1>6. ASSUME NEW i \in Nat, i \in P
        PROVE  i + 1 \in P
    <2> SUFFICES ASSUME i + 1 <= n
                 PROVE  SumTo(s, (i + 1) + 1) = c + Sigma(V, first(i + 1))
      OBVIOUS
    <2> DEFINE new == RowsOfUnit(R, p[i + 1])
    <2>1. i + 1 \in 1..n /\ i <= n
      BY <1>1
    <2>2. first(i + 1) = first(i) \cup new /\ first(i) \cap new = {}
      <3>1. 1..(i + 1) = (1..i) \cup {i + 1} /\ i + 1 \notin 1..i /\ 1..i \subseteq 1..n
        BY <1>1, <2>1
      <3>2. first(i + 1) = first(i) \cup new
        BY <3>1 DEF RowsOfFirst, RowsOfUnit
      <3>3. \A j \in 1..i : p[j] # p[i + 1]
        BY <1>1, <2>1, <3>1
      <3>4. first(i) \cap new = {}
        BY <3>3 DEF RowsOfFirst, RowsOfUnit
      <3> QED
        BY <3>2, <3>4
    <2>3. first(i) \in SUBSET R /\ new \in SUBSET R
      BY DEF RowsOfFirst, RowsOfUnit
    <2>4. s[(i + 1) + 1] = Sigma(V, new)
      BY <1>4, <2>1, <2>3
    <2> HIDE DEF new, first, V
    <2>5. IsFiniteSet(first(i)) /\ IsFiniteSet(new) /\ \A k \in first(i) \cup new : V[k] \in Int
      BY <1>3, <2>3, FS_Subset
    <2>6. Sigma(V, first(i) \cup new) = Sigma(V, first(i)) + Sigma(V, new)
      BY <2>2, <2>5, SigmaUnion
    <2>7. Sigma(V, first(i)) \in Int /\ Sigma(V, new) \in Int
      BY <2>5, SigmaInt
    <2>8. OneMore(s, i + 1)
      BY <1>2
    <2>9. SumTo(s, i + 1) = c + Sigma(V, first(i))
      BY <1>6, <2>1
    <2>10. SumTo(s, (i + 1) + 1) = (c + Sigma(V, first(i))) + Sigma(V, new)
      BY <2>4, <2>8, <2>9 DEF OneMore
    <2>11. (c + Sigma(V, first(i))) + Sigma(V, new) = c + Sigma(V, first(i + 1))
      <3>1. \A x, y \in Int : (c + x) + y = c + (x + y)
        OBVIOUS
      <3>2. Sigma(V, first(i + 1)) = Sigma(V, first(i)) + Sigma(V, new)
        BY <2>2, <2>6, Zenon
      <3>3. (c + Sigma(V, first(i))) + Sigma(V, new) = c + (Sigma(V, first(i)) + Sigma(V, new))
        BY ONLY <2>7, c \in Int, <3>1
      <3> QED
        BY <3>2, <3>3, Zenon
    <2> QED
      BY <2>10, <2>11
  <1> HIDE DEF P
  <1>7. \A i \in Nat : i \in P
    BY <1>5, <1>6, Induction
  <1>8. SumTo(s, n + 1) = c + Sigma(V, first(n))
    BY <1>1, <1>7 DEF P
  <1> QED
    BY <1>1, <1>4, <1>8

\* The steps of the waterfall lead from the budget to the actual.
LEMMA WaterfallAddsUp ==
    ASSUME NEW v \in Versions, NEW U, NEW t, t = Served(v, U), NEW f, GetWaterfall(t, f) # <<>>
    PROVE  LET w == GetWaterfall(t, f)
           IN  FoldLeft(+, 0, SubSeq(w, 1, Len(w) - 1)) = w[Len(w)]
  <1> DEFINE R == RevenueRows(t, f)
             p == Present(R)
             n == Len(p)
             c == Total(t.material, R).comparator
             a == Total(t.material, R).actual
             steps == [i \in 1..n |-> Total(t.material, RowsOfUnit(R, p[i])).variance]
             w == <<c>> \o steps \o <<a>>
             s == SubSeq(w, 1, Len(w) - 1)
  <1>1. R \in SUBSET DOMAIN t.material
    BY DEF RevenueRows, OfAccount, FilterVariance
  <1>2. n \in Nat /\ DOMAIN p = 1..n
    BY <1>1, UnitsPresent
  <1>3. GetWaterfall(t, f) = w
    BY <1>2 DEF GetWaterfall, RevenueRows, RowsOfUnit, Present
  <1>4. c \in Int /\ a \in Int /\ a = c + Total(t.material, R).variance
    BY <1>1, VariancesAreOver
  <1>5. DOMAIN steps = 1..n /\ Len(steps) = n
    BY <1>2
  <1>6. \A i \in 1..n : steps[i] = Total(t.material, RowsOfUnit(R, p[i])).variance
    OBVIOUS
  <1>7. steps \in Seq({steps[i] : i \in 1..n})
    <2> DEFINE Q == {steps[i] : i \in 1..n}
    <2>1. steps \in [1..n -> Q]
      OBVIOUS
    <2> HIDE DEF Q, steps
    <2> QED
      BY <1>2, <2>1 DEF Q
  <1> HIDE DEF steps, c, a, p, n, R
  <1>8. /\ Len(w) = n + 2 /\ w[1] = c /\ w[n + 2] = a
        /\ \A i \in 1..n : w[i + 1] = steps[i]
    BY <1>2, <1>5, <1>7
  <1>9. s = [i \in 1..(n + 1) |-> w[i]]
    BY <1>2, <1>8
  <1> HIDE DEF w, s
  <1>10. DOMAIN s = 1..(n + 1) /\ s[1] = c /\ \A i \in 1..n : s[i + 1] = steps[i]
    <2>1. \A i \in 1..n : i + 1 \in 1..(n + 1)
      BY <1>2
    <2> QED
      BY <1>2, <1>8, <1>9, <2>1
  <1>11. FoldLeft(+, 0, s) = SumTo(s, n + 1)
    <2>1. FoldLeft(+, 0, s) = Folded("sum", 0, s, DOMAIN s)[DOMAIN s]
      BY SumFolds
    <2> QED
      BY <1>10, <2>1 DEF SumTo, FoldAt
  <1>12. SumTo(s, n + 1) = c + Total(t.material, R).variance
    BY <1>1, <1>4, <1>6, <1>10, UnitStepsAddUp DEF p, n
  <1> QED
    BY <1>3, <1>4, <1>8, <1>11, <1>12 DEF s

\* The waterfall leads from the budget to the actual, and what card, statement, page and
\* end of the trend tell of an account is one amount, whatever is served.
THEOREM EndpointsTellOneAmount == Spec => []EndpointsAgree
  <1>1. TypeInv /\ children \in Families => EndpointsAgree
    <2> SUFFICES ASSUME TypeInv, children \in Families, NEW f \in Filters
                 PROVE  LET t == Served(tables, unread)
                            w == GetWaterfall(t, f)
                            K == FilterVariance(t, f)
                            lines == ToSet(GetPlStatement(t, children, f))
                        IN  /\ w # <<>> => FoldLeft(+, 0, SubSeq(w, 1, Len(w) - 1)) = w[Len(w)]
                            /\ \A c \in ToSet(GetSummaryCards(t, f)) :
                                  /\ \A x \in lines : x.account = c.account => x.amount = c.amount
                                  /\ GetAccountDetail(t, children, f, c.account).amount = c.amount
                                  /\ GetTrends(t, f, c.account, 1) = [p \in {f.period} |-> c.amount]
                            /\ \A x \in lines : OfAccount(K, x.account) = {} => x.amount = Zero
      BY DEF EndpointsAgree
    <2> DEFINE t == Served(tables, unread)
               K == FilterVariance(t, f)
               lines == ToSet(GetPlStatement(t, children, f))
               amount(a) == Total(t.material, OfAccount(K, a))
    <2>1. tables \in Versions /\ t = Served(tables, unread)
      BY DEF TypeInv
    <2> HIDE DEF t
    <2>2. GetWaterfall(t, f) # <<>> =>
             FoldLeft(+, 0, SubSeq(GetWaterfall(t, f), 1, Len(GetWaterfall(t, f)) - 1))
                = GetWaterfall(t, f)[Len(GetWaterfall(t, f))]
      BY <2>1, WaterfallAddsUp
    <2>3. \A x \in lines : x.amount = amount(x.account)
      BY LinesTold
    <2>4. ASSUME NEW c \in ToSet(GetSummaryCards(t, f))
          PROVE  /\ \A x \in lines : x.account = c.account => x.amount = c.amount
                 /\ GetAccountDetail(t, children, f, c.account).amount = c.amount
                 /\ GetTrends(t, f, c.account, 1) = [p \in {f.period} |-> c.amount]
      <3>1. OfAccount(K, c.account) # {} /\ c.amount = amount(c.account)
        BY CardsTold
      <3>2. GetAccountDetail(t, children, f, c.account).amount = amount(c.account)
        BY DEF GetAccountDetail
      <3>3. GetTrends(t, f, c.account, 1) = [p \in {f.period} |-> amount(c.account)]
        <4>1. GetTrends(t, f, c.account, 1) = AmountNow(t, f, c.account)
          BY <2>1, <3>1, TrendEnds
        <4> QED
          BY <4>1 DEF AmountNow
      <3> HIDE DEF K, lines, amount
      <3> QED
        BY <2>3, <3>1, <3>2, <3>3
    <2>5. ASSUME NEW x \in lines, OfAccount(K, x.account) = {}
          PROVE  x.amount = Zero
      <3>1. x.amount = Total(t.material, {})
        BY <2>3, <2>5
      <3>2. Total(t.material, {}) = [g \in DOMAIN Zero |-> Total(t.material, {})[g]]
        BY DEF Total
      <3>3. \A g \in DOMAIN Zero : Total(t.material, {})[g] = 0
        BY TotalIsSigma, SigmaEmpty
      <3>4. Zero = [g \in DOMAIN Zero |-> 0]
        BY DEF Zero
      <3> QED
        BY <3>1, <3>2, <3>3, <3>4
    <2> QED
      BY <2>2, <2>4, <2>5 DEF t
  <1> QED
    BY <1>1, TypeInvariant, MetadataInvariant, PTL

-----------------------------------------------------------------------------
(* The pages of a list *)

SizeOf(material, k) == Abs(material[k].variance)

NextListed(material, rest) ==
    CHOOSE k \in rest : \A j \in rest : SizeOf(material, j) <= SizeOf(material, k)

\* Of some rows whose variances are numbers one is the largest.
LEMMA NextIsLargest ==
    ASSUME NEW material, NEW rest, IsFiniteSet(rest), rest # {},
           \A k \in rest : material[k].variance \in Int
    PROVE  /\ NextListed(material, rest) \in rest
           /\ \A j \in rest :
                 SizeOf(material, j) <= SizeOf(material, NextListed(material, rest))
  <1> DEFINE D == {SizeOf(material, k) : k \in rest}
             h == [k \in rest |-> SizeOf(material, k)]
  <1>1. \A k \in rest : SizeOf(material, k) \in Int
    BY DEF SizeOf, Abs
  <1>2. IsFiniteSet(D)
    <2>1. h \in Surjection(rest, D)
      BY DEF Surjection
    <2> HIDE DEF h, D
    <2> QED
      BY <2>1, FS_Surjection
  <1>3. D # {} /\ \A y \in D : y \in Int
    BY <1>1
  <1>4. Max(D) \in D /\ \A y \in D : Max(D) >= y
    <2> HIDE DEF D
    <2> QED
      BY <1>2, <1>3, MaxIn
  <1>5. PICK k \in rest : SizeOf(material, k) = Max(D)
    BY <1>4
  <1>6. \A j \in rest : SizeOf(material, j) <= SizeOf(material, k)
    <2>1. \A j \in rest : SizeOf(material, j) \in D
      OBVIOUS
    <2> HIDE DEF D
    <2> QED
      BY <1>3, <1>4, <1>5, <2>1
  <1> QED
    BY <1>6 DEF NextListed

Listing(material, rows) == [material |-> material, rows |-> rows]

ListSteps(material, rows, N, w) ==
    w = [n \in 0..N |->
            IF n = 0 THEN <<>>
            ELSE Append(w[n - 1], NextListed(material, rows \ ToSet(w[n - 1])))]

Listed(material, rows) == TheSteps("listed", Listing(material, rows), 0, 0 + Cardinality(rows))

ListGoesOn(material, rows, n) ==
    Listed(material, rows)[n]
      = Append(Listed(material, rows)[n - 1],
               NextListed(material, rows \ ToSet(Listed(material, rows)[n - 1])))

\* The rows a list is made of.
RowsListed(t, f, category) ==
    {k \in FilterVariance(t, f) :
        k.account \notin Calculated /\ category \in {Null, Category[k.account]}}

\* The list of the service is that recursion.
LEMMA ListIsSteps ==
    ASSUME NEW t, NEW f, NEW category, IsFiniteSet(RowsListed(t, f, category))
    PROVE  ListedRows(t, f, category)
             = Listed(t.material, RowsListed(t, f, category))
                   [Cardinality(RowsListed(t, f, category))]
  <1> DEFINE rows == RowsListed(t, f, category)
             N == Cardinality(rows)
             g == Listing(t.material, rows)
  <1>1. ListedRows(t, f, category) = (CHOOSE w : ListSteps(t.material, rows, N, w))[N]
    BY DEF ListedRows, ListSteps, NextListed, SizeOf, RowsListed
  <1>2. g.material = t.material /\ g.rows = rows
    BY DEF Listing
  <1>3. N \in Nat
    BY FS_CardinalityType
  <1> HIDE DEF g, N, rows
  <1>4. \A n, v : Stepped("listed", g, n, v)
                    = IF n = 0 THEN <<>>
                      ELSE Append(v, NextListed(t.material, rows \ ToSet(v)))
    BY <1>2 DEF Stepped, NextListed, SizeOf
  <1>5. \A w : ListSteps(t.material, rows, N, w) <=> Steps("listed", g, 0, N, w)
    BY <1>4 DEF ListSteps, Steps
  <1>6. (CHOOSE w : ListSteps(t.material, rows, N, w)) = TheSteps("listed", g, 0, N)
    BY <1>5, Zenon DEF TheSteps
  <1>7. 0 + N = N
    BY <1>3
  <1> QED
    BY <1>1, <1>6, <1>7 DEF Listed, g, N, rows

\* One row after another.
LEMMA ListStarts ==
    ASSUME NEW material, NEW rows, IsFiniteSet(rows)
    PROVE  /\ Listed(material, rows)[0] = <<>>
           /\ \A n \in 1..Cardinality(rows) : ListGoesOn(material, rows, n)
  <1> DEFINE N == Cardinality(rows)
             g == Listing(material, rows)
  <1>1. N \in Nat /\ 0 + N = N
    BY FS_CardinalityType
  <1>2. g.material = material /\ g.rows = rows
    BY DEF Listing
  <1> HIDE DEF g, N
  <1>3. \A n, v : Stepped("listed", g, n, v)
                    = IF n = 0 THEN <<>>
                      ELSE Append(v, NextListed(material, rows \ ToSet(v)))
    BY <1>2 DEF Stepped, NextListed, SizeOf
  <1>4. Starts("listed", g, 0)
    BY <1>3 DEF Starts
  <1>5. GoesOn("listed", g, 0, 0 + N)
    <2>1. 0 \in Nat
      OBVIOUS
    <2> QED
      BY ONLY <1>1, <1>4, <2>1, StepsGoOn
  <1>6. Listed(material, rows) = TheSteps("listed", g, 0, 0 + N)
    BY DEF Listed, g, N
  <1>7. \A n \in 0..N : Listed(material, rows)[n]
                          = Stepped("listed", g, n, Listed(material, rows)[n - 1])
    BY <1>1, <1>5, <1>6 DEF GoesOn
  <1>8. Listed(material, rows)[0] = <<>>
    <2>1. 0 \in 0..N
      BY <1>1
    <2> QED
      BY <1>3, <1>7, <2>1
  <1>9. ASSUME NEW n \in 1..N
        PROVE  ListGoesOn(material, rows, n)
    <2>1. n \in 0..N /\ n # 0
      OBVIOUS
    <2> QED
      BY <1>3, <1>7, <2>1 DEF ListGoesOn
  <1> QED
    BY <1>8, <1>9 DEF N

\* The first rows of a list: each once, the larger ones first, and none that is left
\* larger than one of them.
FirstRows(material, rows, n, list) ==
    /\ list \in Seq(rows) /\ Len(list) = n
    /\ ToSet(list) \in SUBSET rows /\ Cardinality(ToSet(list)) = n
    /\ \A i, j \in 1..n :
          i < j => SizeOf(material, list[j]) <= SizeOf(material, list[i])
    /\ \A i \in 1..n : \A k \in rows \ ToSet(list) :
          SizeOf(material, k) <= SizeOf(material, list[i])

\* One more row, the largest of those that are left, keeps that.
LEMMA OneMoreRow ==
    ASSUME NEW material, NEW rows, IsFiniteSet(rows),
           \A k \in rows : material[k].variance \in Int,
           NEW n \in Nat, NEW list, FirstRows(material, rows, n, list), n < Cardinality(rows)
    PROVE  FirstRows(material, rows, n + 1,
                     Append(list, NextListed(material, rows \ ToSet(list))))
  <1> DEFINE rest == rows \ ToSet(list)
             x == NextListed(material, rest)
             more == Append(list, x)
             size(k) == SizeOf(material, k)
  <1>1. /\ list \in Seq(rows) /\ Len(list) = n
        /\ ToSet(list) \in SUBSET rows /\ Cardinality(ToSet(list)) = n
        /\ \A i, j \in 1..n : i < j => size(list[j]) <= size(list[i])
        /\ \A i \in 1..n : \A k \in rest : size(k) <= size(list[i])
    BY DEF FirstRows
  <1>2. IsFiniteSet(ToSet(list)) /\ IsFiniteSet(rest)
    <2>1. rest \in SUBSET rows
      OBVIOUS
    <2> HIDE DEF rest
    <2> QED
      BY <1>1, <2>1, FS_Subset
  <1>3. rest # {}
    <2> SUFFICES ASSUME rest = {}
                 PROVE  FALSE
      OBVIOUS
    <2>1. ToSet(list) = rows
      BY <1>1
    <2> QED
      BY <1>1, <2>1
  <1>4. x \in rest /\ \A k \in rest : size(k) <= size(x)
    <2>1. \A k \in rest : material[k].variance \in Int
      OBVIOUS
    <2> HIDE DEF rest
    <2> QED
      BY <1>2, <1>3, <2>1, NextIsLargest
  <1>5. \A k \in rows : size(k) \in Int
    BY DEF SizeOf, Abs
  <1>6. x \in rows /\ x \notin ToSet(list)
    BY <1>4
  <1> HIDE DEF x
  <1>7. /\ more \in Seq(rows) /\ Len(more) = n + 1
        /\ more[n + 1] = x /\ \A i \in 1..n : more[i] = list[i]
    BY <1>1, <1>6, AppendProperties
  <1>8. ToSet(more) = ToSet(list) \cup {x}
    BY <1>1, <1>6, MembersOfAppended
  <1> HIDE DEF more, size
  <1>9. Cardinality(ToSet(more)) = n + 1 /\ ToSet(more) \in SUBSET rows
    BY <1>1, <1>2, <1>6, <1>8, FS_AddElement
  <1>10. \A i \in 1..n : list[i] \in rows
    BY <1>1, ElementOfSeq
  <1>11. ASSUME NEW i \in 1..(n + 1), NEW j \in 1..(n + 1), i < j
         PROVE  size(more[j]) <= size(more[i])
    <2>1. i \in 1..n /\ more[i] = list[i]
      BY <1>7, <1>11
    <2>2. CASE j \in 1..n
      BY <1>1, <1>7, <1>11, <2>1, <2>2
    <2>3. CASE j = n + 1
      BY <1>1, <1>4, <1>7, <2>1, <2>3
    <2> QED
      BY <2>2, <2>3
  <1>12. ASSUME NEW i \in 1..(n + 1), NEW k \in rows \ ToSet(more)
         PROVE  size(k) <= size(more[i])
    <2>1. k \in rest
      BY <1>8, <1>12
    <2>2. CASE i \in 1..n
      BY <1>1, <1>7, <2>1, <2>2
    <2>3. CASE i = n + 1
      BY <1>4, <1>7, <2>1, <2>3
    <2> QED
      BY <2>2, <2>3
  <1>13. FirstRows(material, rows, n + 1, more)
    BY <1>7, <1>9, <1>11, <1>12 DEF FirstRows, size
  <1> QED
    BY <1>13 DEF more, x

\* The list has each row once, the larger ones first.
LEMMA ListOfAll ==
    ASSUME NEW material, NEW rows, IsFiniteSet(rows),
           \A k \in rows : material[k].variance \in Int
    PROVE  FirstRows(material, rows, Cardinality(rows),
                     Listed(material, rows)[Cardinality(rows)])
  <1> DEFINE N == Cardinality(rows)
             L == Listed(material, rows)
             P == {n \in Nat : n <= N => FirstRows(material, rows, n, L[n])}
  <1>1. N \in Nat
    BY FS_CardinalityType
  <1>2. L[0] = <<>> /\ \A n \in 1..N : ListGoesOn(material, rows, n)
    BY ListStarts
  <1>3. 0 \in P
    <2> DEFINE none == <<>>
    <2>1. none \in Seq(rows) /\ Len(none) = 0 /\ DOMAIN none = {}
      BY EmptySeq
    <2>2. none = L[0]
      BY <1>2
    <2> HIDE DEF none, L
    <2>3. ToSet(none) = {} /\ Cardinality(ToSet(none)) = 0
      <3>1. ToSet(none) = {}
        BY <2>1 DEF ToSet
      <3> QED
        BY <3>1, FS_EmptySet
    <2>4. FirstRows(material, rows, 0, none)
      <3>1. 1..0 = {}
        OBVIOUS
      <3> QED
        BY <2>1, <2>3, <3>1 DEF FirstRows
    <2> QED
      BY <2>2, <2>4
  <1>4. ASSUME NEW n \in Nat, n \in P
        PROVE  n + 1 \in P
    <2> SUFFICES ASSUME n + 1 <= N
                 PROVE  FirstRows(material, rows, n + 1, L[n + 1])
      OBVIOUS
    <2>1. n + 1 \in 1..N /\ (n + 1) - 1 = n /\ n <= N /\ n < N
      BY <1>1
    <2>2. FirstRows(material, rows, n, L[n])
      BY <1>4, <2>1
    <2>3. L[n + 1] = Append(L[n], NextListed(material, rows \ ToSet(L[n])))
      <3>1. ListGoesOn(material, rows, n + 1)
        BY <1>2, <2>1
      <3> QED
        BY <2>1, <3>1 DEF ListGoesOn
    <2>4. n < Cardinality(rows)
      BY <2>1
    <2> HIDE DEF L, N, P
    <2>5. FirstRows(material, rows, n + 1,
                    Append(L[n], NextListed(material, rows \ ToSet(L[n]))))
      BY <2>2, <2>4, OneMoreRow
    <2> QED
      BY <2>3, <2>5
  <1> HIDE DEF P, L
  <1>5. \A n \in Nat : n \in P
    BY <1>3, <1>4, Induction
  <1> QED
    BY <1>1, <1>5 DEF P, L, N

\* The smaller of two numbers.
LEMMA SmallerOfTwo ==
    ASSUME NEW m \in Int, NEW n \in Int
    PROVE  Min({m, n}) = IF m <= n THEN m ELSE n
  <1> DEFINE S == {m, n}
             x == IF m <= n THEN m ELSE n
  <1>1. x \in S /\ \A y \in S : x <= y
    OBVIOUS
  <1>2. Min(S) \in S /\ \A y \in S : Min(S) <= y
    BY <1>1 DEF Min
  <1>3. \A y, z \in S : y <= z /\ z <= y => y = z
    OBVIOUS
  <1> QED
    BY <1>1, <1>2, <1>3

\* Where a page ends, and how many there are.
PageEnd(l, size, n) == IF n * size <= l THEN n * size ELSE l

PagesOf(l, size) == Max({1, (l + size - 1) \div size})

\* Where the pages of a list begin and end: there is at least one, each but the last is
\* full, and the last one ends where the list does.
LEMMA PagesCut ==
    ASSUME NEW l \in Nat, NEW size \in 1..3
    PROVE  /\ PagesOf(l, size) \in Nat /\ PagesOf(l, size) >= 1
           /\ PageEnd(l, size, PagesOf(l, size)) = l
           /\ \A n \in Nat : PageEnd(l, size, n) \in 0..l
           /\ \A n \in 1..(PagesOf(l, size) - 1) :
                 /\ PageEnd(l, size, n) = n * size
                 /\ n * size <= PageEnd(l, size, n + 1)
           /\ \A n \in Nat : (n * size) + size = (n + 1) * size /\ n * size \in Nat
  <1> DEFINE q == (l + size - 1) \div size
  <1>1. q \in Nat /\ q * size <= l + size - 1 /\ l + size - 1 < (q * size) + size
    <2>1. CASE size = 1
      BY <2>1
    <2>2. CASE size = 2
      BY <2>2
    <2>3. CASE size = 3
      BY <2>3
    <2> QED
      BY <2>1, <2>2, <2>3
  <1>2. PagesOf(l, size) = IF 1 >= q THEN 1 ELSE q
    BY <1>1, LargerOfTwo DEF PagesOf
  <1> HIDE DEF q
  <1>3. CASE size = 1
    BY <1>1, <1>2, <1>3 DEF PageEnd
  <1>4. CASE size = 2
    BY <1>1, <1>2, <1>4 DEF PageEnd
  <1>5. CASE size = 3
    BY <1>1, <1>2, <1>5 DEF PageEnd
  <1> QED
    BY <1>3, <1>4, <1>5

\* The pages of a list are the list.
LEMMA PagesJoin ==
    ASSUME NEW S, NEW order \in Seq(S), NEW size \in 1..3
    PROVE  FlattenSeq([n \in 1..PagesOf(Len(order), size) |-> PageOf(order, n, size)]) = order
  <1> DEFINE l == Len(order)
             N == PagesOf(l, size)
             end(n) == PageEnd(l, size, n)
             ss == [n \in 1..N |-> PageOf(order, n, size)]
             P == {n \in Nat : n + 1 <= N => Joint(ss)[n + 1] = SubSeq(order, 1, end(n + 1))}
  <1>1. l \in Nat /\ order \in [1..l -> S]
    BY LenProperties
  <1>2. /\ N \in Nat /\ N >= 1 /\ end(N) = l
        /\ \A n \in Nat : end(n) \in 0..l
        /\ \A n \in 1..(N - 1) : end(n) = n * size /\ n * size <= end(n + 1)
        /\ \A n \in Nat : (n * size) + size = (n + 1) * size /\ n * size \in Nat
    BY <1>1, PagesCut
  <1>3. \A n \in Nat : PageOf(order, n + 1, size) = SubSeq(order, (n * size) + 1, end(n + 1))
    <2> SUFFICES ASSUME NEW n \in Nat
                 PROVE  PageOf(order, n + 1, size) = SubSeq(order, (n * size) + 1, end(n + 1))
      OBVIOUS
    <2> DEFINE s == n * size
               m == (n + 1) * size
    <2>1. s \in Nat /\ s + size = m /\ m \in Int
      BY <1>2
    <2>2. PageOf(order, n + 1, size) = SubSeq(order, s + 1, Min({s + size, l}))
      <3>1. (n + 1) - 1 = n
        OBVIOUS
      <3> QED
        BY <3>1 DEF PageOf
    <2>3. end(n + 1) = IF m <= l THEN m ELSE l
      BY DEF PageEnd
    <2> HIDE DEF s, m, l, end
    <2>4. Min({s + size, l}) = IF m <= l THEN m ELSE l
      BY <1>1, <2>1, SmallerOfTwo
    <2>5. PageOf(order, n + 1, size) = SubSeq(order, s + 1, end(n + 1))
      BY <2>2, <2>3, <2>4
    <2> QED
      BY <2>5 DEF s
  <1>4. \A n \in 1..N : ss[n] \in Seq(S)
    <2> SUFFICES ASSUME NEW n \in 1..N
                 PROVE  ss[n] \in Seq(S)
      OBVIOUS
    <2>1. n - 1 \in Nat /\ n \in Nat /\ (n - 1) + 1 = n
      BY <1>2
    <2>2. ss[n] = SubSeq(order, ((n - 1) * size) + 1, end(n))
      BY <1>3, <2>1
    <2>3. (n - 1) * size \in Nat /\ end(n) \in 0..l
      BY <1>2, <2>1
    <2> DEFINE s == (n - 1) * size
               e == end(n)
    <2>4. \A i \in (s + 1)..e : order[i] \in S
      BY <1>1, <2>3
    <2>5. s + 1 \in Int /\ e \in Int
      BY <1>1, <2>3
    <2> HIDE DEF s, e, ss, l, end
    <2>6. SubSeq(order, s + 1, e) \in Seq(S)
      BY <2>4, <2>5, SubSeqProperties
    <2> QED
      BY <2>2, <2>6 DEF s, e
  <1>5. Len(ss) = N
    <2>1. ss \in [1..N -> Seq(S)]
      BY <1>4
    <2> HIDE DEF ss, N
    <2> QED
      BY <1>2, <2>1
  <1>6. /\ Joint(ss)[1] = ss[1]
        /\ \A n \in 1..(N - 1) : Joint(ss)[n + 1] = Joint(ss)[n] \o ss[n + 1]
    <2>1. Len(ss) \in Nat /\ Len(ss) # 0
      BY <1>2, <1>5
    <2> HIDE DEF ss, N
    <2> QED
      BY <1>5, <2>1, JointGoesOn
  <1>7. \A n \in Nat : n + 1 <= N => ss[n + 1] = SubSeq(order, (n * size) + 1, end(n + 1))
    <2> SUFFICES ASSUME NEW n \in Nat, n + 1 <= N
                 PROVE  ss[n + 1] = SubSeq(order, (n * size) + 1, end(n + 1))
      OBVIOUS
    <2>1. n + 1 \in 1..N
      BY <1>2
    <2> QED
      BY <1>3, <2>1
  <1> HIDE DEF ss, N, end
  <1>8. 0 \in P
    <2>1. 0 \in Nat /\ 0 * size = 0 /\ 0 + 1 = 1
      OBVIOUS
    <2>2. ss[1] = SubSeq(order, 1, end(1))
      BY <1>2, <1>7, <2>1
    <2> QED
      BY <1>6, <2>2
  <1>9. ASSUME NEW n \in Nat, n \in P
        PROVE  n + 1 \in P
    <2> SUFFICES ASSUME (n + 1) + 1 <= N
                 PROVE  Joint(ss)[(n + 1) + 1] = SubSeq(order, 1, end((n + 1) + 1))
      OBVIOUS
    <2> DEFINE m == n + 1
               k == m * size
               e == end(m + 1)
    <2>1. m \in 1..(N - 1) /\ m <= N /\ m \in Nat /\ m + 1 <= N /\ m + 1 \in Nat
      BY <1>2
    <2>2. Joint(ss)[m] = SubSeq(order, 1, end(m))
      BY <1>9, <2>1
    <2> HIDE DEF m, P
    <2>3. end(m) = k /\ k <= e /\ k \in Nat /\ e \in 0..l
      BY <1>2, <2>1
    <2>4. Joint(ss)[m + 1] = Joint(ss)[m] \o ss[m + 1]
      BY <1>6, <2>1
    <2>5. ss[m + 1] = SubSeq(order, k + 1, e)
      BY <1>7, <2>1
    <2>6. Joint(ss)[m + 1] = SubSeq(order, 1, k) \o SubSeq(order, k + 1, e)
      BY <2>2, <2>3, <2>4, <2>5
    <2>7. 1 \in 1..(l + 1) /\ k \in (1 - 1)..l /\ e \in k..l
      BY <1>1, <2>3
    <2> HIDE DEF k, e
    <2>8. SubSeq(order, 1, k) \o SubSeq(order, k + 1, e) = SubSeq(order, 1, e)
      BY <2>7, ConcatAdjacentSubSeq
    <2> QED
      BY <2>6, <2>8 DEF e, m
  <1> HIDE DEF P
  <1>10. \A n \in Nat : n \in P
    BY <1>8, <1>9, Induction
  <1>11. Joint(ss)[N] = SubSeq(order, 1, end(N))
    <2>1. N - 1 \in Nat /\ (N - 1) + 1 = N /\ N <= N
      BY <1>2
    <2>2. N - 1 \in P
      BY <1>10, <2>1
    <2> QED
      BY <2>1, <2>2 DEF P
  <1>12. FlattenSeq(ss) = Joint(ss)[N]
    <2>1. Len(ss) # 0
      BY <1>2, <1>5
    <2> QED
      BY <1>5, <2>1, FlattenIsJoint
  <1>13. SubSeq(order, 1, l) = order
    BY SubSeqFull
  <1>14. FlattenSeq(ss) = order
    BY <1>2, <1>11, <1>12, <1>13
  <1> QED
    BY <1>14 DEF ss, N

\* The pages of a list together have each row once, the larger variances first, whatever
\* is served: the rows are taken one by one, the largest of those that are left, and
\* each page goes on where the one before it ends.
THEOREM PagesHaveEachRow == Spec => []PagesCoverOnce
  <1>1. TypeInv => PagesCoverOnce
    <2> SUFFICES ASSUME TypeInv, NEW f \in Filters, NEW size \in 1..3
                 PROVE  LET t == Served(tables, unread)
                            pages == GetVarianceList(t, f, Null, 1, size).pages
                            all == FlattenSeq([n \in 1..pages |->
                                                 GetVarianceList(t, f, Null, n, size).items])
                            rows == {k \in FilterVariance(t, f) : k.account \notin Calculated}
                        IN  /\ Len(all) = Cardinality(rows) /\ ToSet(all) = rows
                            /\ \A i, j \in DOMAIN all :
                                  i < j => Abs(t.material[all[i]].variance)
                                             >= Abs(t.material[all[j]].variance)
      BY DEF PagesCoverOnce
    <2> DEFINE t == Served(tables, unread)
               rows == {k \in FilterVariance(t, f) : k.account \notin Calculated}
               order == ListedRows(t, f, Null)
               pages == GetVarianceList(t, f, Null, 1, size).pages
               all == FlattenSeq([n \in 1..pages |-> GetVarianceList(t, f, Null, n, size).items])
    <2>1. RowsListed(t, f, Null) = rows
      BY DEF RowsListed
    <2>2. /\ rows \subseteq DOMAIN t.material
          /\ IsFiniteSet(DOMAIN t.material)
          /\ \A k \in DOMAIN t.material : t.material[k].variance \in Int
      <3>1. tables \in Versions
        BY DEF TypeInv
      <3> QED
        BY <3>1, ServedRows DEF FilterVariance
    <2> HIDE DEF t
    <2>3. IsFiniteSet(rows) /\ \A k \in rows : t.material[k].variance \in Int
      <3> HIDE DEF rows
      <3>1. IsFiniteSet(rows)
        BY <2>2, FS_Subset
      <3> QED
        BY <2>2, <3>1
    <2>4. FirstRows(t.material, rows, Cardinality(rows), order)
      <3>1. order = Listed(t.material, rows)[Cardinality(rows)]
        BY <2>1, <2>3, ListIsSteps
      <3> HIDE DEF rows, order
      <3> QED
        BY <2>3, <3>1, ListOfAll
    <2>5. pages = PagesOf(Len(order), size)
      BY DEF GetVarianceList, PagesOf
    <2>6. \A n : GetVarianceList(t, f, Null, n, size).items = PageOf(order, n, size)
      BY DEF GetVarianceList
    <2>7. all = FlattenSeq([n \in 1..PagesOf(Len(order), size) |-> PageOf(order, n, size)])
      BY <2>5, <2>6
    <2> HIDE DEF rows, order, pages, all
    <2>8. order \in Seq(rows)
      BY <2>4 DEF FirstRows
    <2>9. all = order
      BY <2>7, <2>8, PagesJoin
    <2>10. Len(order) = Cardinality(rows) /\ DOMAIN order = 1..Cardinality(rows)
      BY <2>4, <2>8, LenProperties DEF FirstRows
    <2>11. ToSet(order) = rows
      <3>1. ToSet(order) \in SUBSET rows /\ Cardinality(ToSet(order)) = Cardinality(rows)
        BY <2>4 DEF FirstRows
      <3> QED
        BY <2>3, <3>1, FS_Subset
    <2>12. \A i, j \in DOMAIN order :
              i < j => Abs(t.material[order[i]].variance) >= Abs(t.material[order[j]].variance)
      <3> SUFFICES ASSUME NEW i \in DOMAIN order, NEW j \in DOMAIN order, i < j
                   PROVE  Abs(t.material[order[i]].variance)
                            >= Abs(t.material[order[j]].variance)
        OBVIOUS
      <3>1. SizeOf(t.material, order[j]) <= SizeOf(t.material, order[i])
        BY <2>4, <2>10 DEF FirstRows
      <3>2. order[i] \in rows /\ order[j] \in rows
        BY <2>8, <2>10, ElementOfSeq
      <3>3. Abs(t.material[order[i]].variance) \in Int /\ Abs(t.material[order[j]].variance) \in Int
        BY <2>3, <3>2 DEF Abs
      <3> QED
        BY <3>1, <3>3 DEF SizeOf
    <2> QED
      BY <2>9, <2>10, <2>11, <2>12 DEF all, pages, rows, t
  <1> QED
    BY <1>1, TypeInvariant, PTL

\* The answers of the data service agree with each other after any reload, and also
\* while the files and the rows are not in step.
THEOREM QueriesAlwaysAgree == Spec => []QueriesAgree
  <1>1. PagesCoverOnce /\ NodesAddUp /\ EndpointsAgree /\ MetricsAddUp /\ UnitsExplainCompany
          /\ NodesKeepAlerts => QueriesAgree
    BY DEF QueriesAgree
  <1> QED
    BY <1>1, PagesHaveEachRow, NodesAreSums, EndpointsTellOneAmount, MetricsCountOnce,
       UnitsHideNothing, NodesHideNothing, PTL

===============================================================================
