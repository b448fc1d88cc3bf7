-------------------------- MODULE MarketFileProofs ---------------------------
(***************************************************************************)
(* What holds of MarketFile for every set of bars, every drift of the      *)
(* clocks and every number of repeats.  The inductive invariant is         *)
(* FileInv: the types, a budget of rows that a repeat raises by one, and   *)
(* that rows are dated within their bar.                                   *)
(*                                                                         *)
(* The second half turns the chart upside down and follows every score of  *)
(* the analysis, up to the comparison of the two sides.                    *)
(***************************************************************************)
EXTENDS MarketFile, FiniteSetTheorems, SequenceTheorems, WellFoundedInduction, TLAPS

-----------------------------------------------------------------------------
RowsOf(bar) == {i \in DOMAIN rows : rows[i].bar = bar}

RowsDated ==
    \A i \in DOMAIN rows :
        /\ rows[i].bar <= Len(chart)
        /\ \E shift \in Shifts : rows[i].time = RowTime(rows[i].bar, shift)

\* A bar that is still to be exported has one row less to its credit.
RowsBudget ==
    /\ \A bar \in 1 .. Len(chart) : Cardinality(RowsOf(bar)) <= 1 + repeats
    /\ Len(rows) <= Len(chart) + repeats
    /\ exported # Len(chart) =>
         /\ Cardinality(RowsOf(Len(chart))) <= repeats
         /\ Len(rows) <= Len(chart) + repeats - 1

InOrder ==
    repeats = 0 =>
        /\ \A i \in 1 .. Len(rows) - 1 : rows[i].time < rows[i + 1].time
        /\ exported # Len(chart) => \A i \in DOMAIN rows : rows[i].bar < Len(chart)

FileInv == TypeOK /\ Len(chart) >= 1 /\ RowsDated /\ RowsBudget /\ InOrder

-----------------------------------------------------------------------------
\* Rows of a later bar are dated later.
LEMMA LaterBarLaterTime ==
    ASSUME NEW a \in Nat, NEW b \in Nat, a < b, NEW s \in Shifts, NEW t \in Shifts
    PROVE  RowTime(a, s) \in Nat /\ RowTime(a, s) < RowTime(b, t)
<1>1. s \in Nat /\ t \in Nat /\ s < BarSeconds /\ BarSeconds \in Nat  BY ChartAssumption
<1>2. PICK d \in Nat : b = a + 1 + d
  <2>1. b - a - 1 \in Nat /\ b = a + 1 + (b - a - 1)  OBVIOUS
  <2> QED BY <2>1
<1>3. BarSeconds * a \in Nat /\ BarSeconds * d \in Nat  BY <1>1
<1>4. BarSeconds * b = BarSeconds * a + BarSeconds + BarSeconds * d  BY <1>1, <1>2
<1> QED BY <1>1, <1>3, <1>4 DEF RowTime

\* What an export makes of the rows.
LEMMA ExportFacts ==
    ASSUME FileInv, ExportMarketBar
    PROVE  /\ rows' \in Seq(Row)
           /\ rows' = rows \/ Len(rows') = Len(rows) + 1
           /\ \A i \in DOMAIN rows : i \in DOMAIN rows' /\ rows'[i] = rows[i]
           /\ \A i \in DOMAIN rows' \ DOMAIN rows :
                /\ i = Len(rows) + 1
                /\ rows'[i].bar = Len(chart)
                /\ \E shift \in Shifts : rows'[i].time = RowTime(Len(chart), shift)
           /\ DOMAIN rows = 1 .. Len(rows) /\ DOMAIN rows' = 1 .. Len(rows')
<1> USE DEF FileInv, TypeOK
<1>1. PICK shift \in Shifts :
        rows' = AppendCsvRow(rows, [bar |-> Len(chart), time |-> RowTime(Len(chart), shift)])
  BY DEF ExportMarketBar
<1> DEFINE row == [bar |-> Len(chart), time |-> RowTime(Len(chart), shift)]
<1>2. Len(chart) \in Nat /\ Len(chart) \in 1 .. MaxBars  BY ChartAssumption
<1>3. RowTime(Len(chart), shift) \in Nat
  <2>1. Len(chart) + 1 \in Nat /\ Len(chart) < Len(chart) + 1  BY <1>2
  <2> QED BY <1>2, <2>1, LaterBarLaterTime
<1>4. row \in Row  BY <1>2, <1>3 DEF Row
<1>5. CASE rows' = rows  BY <1>5
<1>6. CASE rows' = Append(rows, row)
  <2> HIDE DEF row
  <2>1. /\ rows' \in Seq(Row) /\ Len(rows') = Len(rows) + 1
        /\ DOMAIN rows = 1 .. Len(rows) /\ DOMAIN rows' = 1 .. Len(rows) + 1
        /\ \A i \in 1 .. Len(rows) : rows'[i] = rows[i]
        /\ rows'[Len(rows) + 1] = row
    BY <1>4, <1>6
  <2> QED BY <2>1 DEF row
<1> QED BY <1>1, <1>5, <1>6 DEF AppendCsvRow

LEMMA RowsFinite ==
    ASSUME rows \in Seq(Row), NEW bar
    PROVE  IsFiniteSet(RowsOf(bar)) /\ Cardinality(RowsOf(bar)) \in Nat
<1>1. DOMAIN rows = 1 .. Len(rows) /\ Len(rows) \in Nat  OBVIOUS
<1>2. IsFiniteSet(1 .. Len(rows))  BY <1>1, FS_Interval
<1>3. RowsOf(bar) \subseteq 1 .. Len(rows)  BY <1>1 DEF RowsOf
<1> QED BY <1>2, <1>3, FS_Subset, FS_CardinalityType

\* One more row at most, and it belongs to the bar that was exported.
LEMMA ExportCounts ==
    ASSUME FileInv, ExportMarketBar, NEW bar \in 1 .. Len(chart)
    PROVE  /\ Cardinality(RowsOf(bar)) \in Nat
           /\ Cardinality(RowsOf(bar)') \in Nat
           /\ bar # Len(chart) => Cardinality(RowsOf(bar)') = Cardinality(RowsOf(bar))
           /\ Cardinality(RowsOf(bar)') <= Cardinality(RowsOf(bar)) + 1
<1> DEFINE new == {i \in DOMAIN rows' : rows'[i].bar = bar}
<1>1. RowsOf(bar)' = new  BY DEF RowsOf
<1>2. IsFiniteSet(RowsOf(bar)) /\ Cardinality(RowsOf(bar)) \in Nat
  BY RowsFinite DEF FileInv, TypeOK
<1>3. bar # Len(chart) => new = RowsOf(bar)  BY ExportFacts DEF RowsOf
<1>4. new = RowsOf(bar) \/ new = RowsOf(bar) \cup {Len(rows) + 1}
  BY ExportFacts DEF RowsOf
<1> DEFINE more == RowsOf(bar) \cup {Len(rows) + 1}
<1>5. Cardinality(more) = Cardinality(RowsOf(bar)) \/ Cardinality(more) = Cardinality(RowsOf(bar)) + 1
  BY <1>2, FS_AddElement, Zenon
<1> HIDE DEF new, more
<1>6. Cardinality(new) \in Nat /\ Cardinality(new) <= Cardinality(RowsOf(bar)) + 1
  <2>1. new = RowsOf(bar) \/ new = more  BY <1>4 DEF more
  <2> QED BY <2>1, <1>2, <1>5
<1>7. bar # Len(chart) => Cardinality(new) = Cardinality(RowsOf(bar))  BY <1>3
<1> QED BY <1>1, <1>2, <1>6, <1>7

\* An export keeps what does not depend on whether the EA remembers it.
LEMMA ExportKeeps ==
    ASSUME FileInv, ExportMarketBar,
           \/ exported' = Len(chart) /\ repeats' = repeats
           \/ repeats' = repeats + 1 /\ exported' = exported /\ repeats < MaxRepeats
    PROVE  FileInv'
<1>0. \A bar \in 1 .. Len(chart) :
        /\ Cardinality(RowsOf(bar)) \in Nat /\ Cardinality(RowsOf(bar)') \in Nat
        /\ Cardinality(RowsOf(bar)') <= Cardinality(RowsOf(bar)) + 1
  BY ExportCounts
<1> USE DEF FileInv, TypeOK
<1>1. chart' = chart /\ exported # Len(chart)  BY DEF ExportMarketBar
<1>2. Len(chart) \in Nat /\ repeats \in Nat  BY ChartAssumption
<1>a. repeats' \in Nat  BY <1>2
<1>3. RowsDated'
  BY <1>1, ExportFacts DEF RowsDated, RowTime
<1>4. RowsBudget'
  <2>1. ASSUME NEW bar \in 1 .. Len(chart)
        PROVE  Cardinality(RowsOf(bar)') <= 1 + repeats'
    BY <1>1, <1>2, ExportCounts DEF RowsBudget
  <2>2. Len(rows') <= Len(rows) + 1 /\ Len(rows) \in Nat /\ Len(rows') \in Nat
    <3>1. rows' = rows \/ Len(rows') = Len(rows) + 1  BY ExportFacts
    <3>2. Len(rows) \in Nat  OBVIOUS
    <3> QED BY <3>1, <3>2
  <2>3. exported' # Len(chart) => Cardinality(RowsOf(Len(chart))') <= repeats'
    <3>1. Len(chart) \in 1 .. Len(chart)  BY <1>2
    <3>2. exported' # Len(chart) => repeats' = repeats + 1  BY <1>1
    <3>3. Cardinality(RowsOf(Len(chart))) <= repeats  BY <1>1 DEF RowsBudget
    <3>4. /\ Cardinality(RowsOf(Len(chart))') \in Nat /\ Cardinality(RowsOf(Len(chart))) \in Nat
          /\ Cardinality(RowsOf(Len(chart))') <= Cardinality(RowsOf(Len(chart))) + 1
      BY <1>0, <1>1, <3>1 DEF RowsOf
    <3> QED BY <1>2, <3>2, <3>3, <3>4
  <2> QED BY <1>1, <1>2, <2>1, <2>2, <2>3 DEF RowsBudget, RowsOf
<1>5. InOrder'
  <2> SUFFICES ASSUME repeats' = 0  PROVE  InOrder'  BY DEF InOrder
  <2>1. repeats = 0 /\ exported' = Len(chart)  BY <1>2
  <2>2. \A i \in DOMAIN rows : rows[i].bar < Len(chart)  BY <1>1, <2>1 DEF InOrder
  <2>3. ASSUME NEW i \in 1 .. Len(rows') - 1
        PROVE  rows'[i].time < rows'[i + 1].time
    <3>1. CASE i + 1 \in DOMAIN rows
      BY <2>1, <3>1, ExportFacts DEF InOrder
    <3>2. CASE i + 1 \notin DOMAIN rows
      <4>1. i \in DOMAIN rows /\ rows'[i] = rows[i] /\ i + 1 \in DOMAIN rows'
        <5>1. DOMAIN rows = 1 .. Len(rows) /\ DOMAIN rows' = 1 .. Len(rows')  BY ExportFacts
        <5>a. Len(rows') \in Nat
          <6>1. rows' \in Seq(Row)  BY ExportFacts
          <6> QED BY <6>1
        <5>2. i \in DOMAIN rows' /\ i + 1 \in DOMAIN rows'  BY <5>1, <5>a
        <5>3. i + 1 = Len(rows) + 1  BY <3>2, <5>2, ExportFacts
        <5>4. i \in DOMAIN rows  BY <5>1, <5>3
        <5> QED BY <5>2, <5>4, ExportFacts
      <4>2. PICK s \in Shifts : rows[i].time = RowTime(rows[i].bar, s)  BY <4>1 DEF RowsDated
      <4>3. PICK t \in Shifts : rows'[i + 1].time = RowTime(Len(chart), t)
        BY <3>2, <4>1, ExportFacts
      <4>4. rows[i].bar \in Nat /\ rows[i].bar < Len(chart)
        <5>1. rows[i] \in Row  BY <4>1
        <5> QED BY <5>1, <4>1, <2>2 DEF Row
      <4> QED BY <1>2, <4>1, <4>2, <4>3, <4>4, LaterBarLaterTime
    <3> QED BY <3>1, <3>2
  <2> QED BY <1>1, <2>1, <2>3 DEF InOrder
<1>6. TypeOK'
  <2>1. rows' \in Seq(Row)  BY ExportFacts
  <2>2. repeats' \in 0 .. MaxRepeats  BY <1>2, ChartAssumption
  <2> QED BY <1>1, <1>2, <2>1, <2>2
<1> QED BY <1>1, <1>3, <1>4, <1>5, <1>6

-----------------------------------------------------------------------------
LEMMA RestartKeeps == FileInv /\ EaRestart => FileInv'
<1> SUFFICES ASSUME FileInv, EaRestart  PROVE FileInv'  OBVIOUS
<1> USE DEF FileInv, TypeOK
<1>1. /\ chart' = chart /\ rows' = rows /\ exported' = 0
      /\ repeats' = repeats + 1 /\ repeats' \in 1 .. MaxRepeats
  BY ChartAssumption DEF EaRestart
<1>2. Len(chart) \in Nat /\ Len(rows) \in Nat /\ repeats \in Nat  BY ChartAssumption
<1>3. \A bar : RowsOf(bar)' = RowsOf(bar)  BY <1>1 DEF RowsOf
<1>4. ASSUME NEW bar \in 1 .. Len(chart)  PROVE Cardinality(RowsOf(bar)) \in Nat
  BY RowsFinite
<1>5. RowsBudget'
  <2>1. ASSUME NEW bar \in 1 .. Len(chart)
        PROVE  /\ Cardinality(RowsOf(bar)') <= 1 + repeats'
               /\ Cardinality(RowsOf(bar)') <= repeats'
    BY <1>1, <1>2, <1>3, <1>4 DEF RowsBudget
  <2>2. Len(chart) \in 1 .. Len(chart)  BY <1>2
  <2> QED BY <1>1, <1>2, <2>1, <2>2 DEF RowsBudget, RowsOf
<1> QED BY <1>1, <1>2, <1>5 DEF RowsDated, InOrder, RowTime

LEMMA BarKeeps == FileInv /\ BarCloses => FileInv'
<1> SUFFICES ASSUME FileInv, BarCloses  PROVE FileInv'  OBVIOUS
<1> USE DEF FileInv, TypeOK
<1>1. /\ rows' = rows /\ exported' = exported /\ repeats' = repeats
      /\ chart' \in Seq(Bars) /\ Len(chart') = Len(chart) + 1 /\ Len(chart') <= MaxBars
      /\ Len(chart) \in Nat /\ Len(rows) \in Nat /\ repeats \in Nat
  BY ChartAssumption DEF BarCloses
<1>2. \A i \in DOMAIN rows : rows[i] \in Row /\ rows[i].bar \in Nat /\ rows[i].bar < Len(chart')
  <2>1. ASSUME NEW i \in DOMAIN rows
        PROVE  rows[i] \in Row /\ rows[i].bar \in Nat /\ rows[i].bar < Len(chart')
    <3>1. rows[i] \in Row  OBVIOUS
    <3>2. rows[i].bar \in Nat /\ rows[i].bar <= Len(chart)  BY <3>1 DEF Row, RowsDated
    <3> QED BY <1>1, <3>1, <3>2
  <2> QED BY <2>1
<1>3. RowsDated'  BY <1>1, <1>2 DEF RowsDated, RowTime
<1>4. RowsBudget'
  <2>2. \A bar : RowsOf(bar)' = RowsOf(bar)  BY <1>1 DEF RowsOf
  <2>3. ASSUME NEW bar \in 1 .. Len(chart')
        PROVE  /\ Cardinality(RowsOf(bar)') <= 1 + repeats
               /\ bar = Len(chart') => Cardinality(RowsOf(bar)') <= repeats
    <3>1. CASE bar = Len(chart')
      <4>1. RowsOf(bar) = {}  BY <1>2, <3>1 DEF RowsOf
      <4>2. Cardinality(RowsOf(bar)') = 0  BY <2>2, <4>1, FS_EmptySet
      <4> QED BY <1>1, <4>2
    <3>2. CASE bar # Len(chart')
      <4>1. bar \in 1 .. Len(chart)  BY <1>1, <3>2
      <4> QED BY <4>1, <2>2, <3>2 DEF RowsBudget
    <3> QED BY <3>1, <3>2
  <2>4. Len(rows) <= Len(chart) + repeats  BY DEF RowsBudget
  <2>5. Len(chart') \in 1 .. Len(chart')  BY <1>1
  <2>6. Cardinality({i \in DOMAIN rows' : rows'[i].bar = Len(chart')}) <= repeats
    BY <2>3, <2>5 DEF RowsOf
  <2>7. \A bar \in 1 .. Len(chart') :
          Cardinality({i \in DOMAIN rows' : rows'[i].bar = bar}) <= 1 + repeats
    BY <2>3 DEF RowsOf
  <2>8. Len(rows') <= Len(chart') + repeats' - 1 /\ Len(rows') <= Len(chart') + repeats'
    BY <1>1, <2>4
  <2> QED BY <1>1, <2>6, <2>7, <2>8 DEF RowsBudget, RowsOf
<1>5. InOrder'  BY <1>1, <1>2 DEF InOrder
<1>6. TypeOK'  BY <1>1
<1> QED BY <1>1, <1>3, <1>4, <1>5, <1>6

-----------------------------------------------------------------------------
LEMMA FileInvInit == Init => FileInv
<1> SUFFICES ASSUME Init  PROVE FileInv  OBVIOUS
<1>1. PICK bar \in FirstBars : chart = <<bar>>  BY DEF Init
<1>2. chart \in Seq(Bars) /\ Len(chart) = 1  BY <1>1, ChartAssumption
<1>3. rows = <<>> /\ exported = 0 /\ repeats = 0  BY DEF Init
<1>4. \A b : RowsOf(b) = {}  BY <1>3 DEF RowsOf
<1>5. \A b : Cardinality(RowsOf(b)) = 0  BY <1>4, FS_EmptySet
<1>6. Len(rows) = 0 /\ DOMAIN rows = {}  BY <1>3
<1>7. TypeOK  BY <1>2, <1>3, ChartAssumption DEF TypeOK
<1>8. RowsBudget  BY <1>2, <1>3, <1>5, <1>6 DEF RowsBudget
<1> QED BY <1>2, <1>6, <1>7, <1>8 DEF FileInv, RowsDated, InOrder

LEMMA FileInvNext == FileInv /\ [Next]_vars => FileInv'
<1> SUFFICES ASSUME FileInv, [Next]_vars  PROVE FileInv'  OBVIOUS
<1>1. CASE BarCloses       BY <1>1, BarKeeps
<1>2. CASE ExportAll       BY <1>2, ExportKeeps DEF ExportAll
<1>3. CASE ExportCutShort  BY <1>3, ExportKeeps DEF ExportCutShort
<1>4. CASE EaRestart       BY <1>4, RestartKeeps
<1>5. CASE UNCHANGED vars
  BY <1>5 DEF vars, FileInv, TypeOK, RowsDated, RowsBudget, RowsOf, InOrder, RowTime
<1> QED BY <1>1, <1>2, <1>3, <1>4, <1>5 DEF Next

\* The inductive invariant of the market file.
THEOREM FileInvariant == Spec => []FileInv
BY FileInvInit, FileInvNext, PTL DEF Spec

\* Type correctness of the chart, the file and what the EA remembers.
THEOREM FileTypes == Spec => []TypeOK
<1>1. FileInv => TypeOK  BY DEF FileInv
<1> QED BY <1>1, FileInvariant, PTL

\* A bar has one row and one more per repeat; without a repeat the validator accepts the
\* file, whatever the drift of the clocks.
THEOREM RowsCounted == Spec => []RowsPerBar
<1>1. FileInv => RowsPerBar
  <2> SUFFICES ASSUME FileInv  PROVE RowsPerBar  OBVIOUS
  <2>1. DOMAIN chart = 1 .. Len(chart)  BY DEF FileInv, TypeOK
  <2>2. Len(rows) <= Len(chart) + repeats  BY DEF FileInv, RowsBudget
  <2>3. \A bar \in DOMAIN chart :
          Cardinality({i \in DOMAIN rows : rows[i].bar = bar}) <= 1 + repeats
    BY <2>1 DEF FileInv, RowsBudget, RowsOf
  <2>4. repeats = 0 /\ rows # <<>> => Accepted(rows)
    BY DEF FileInv, InOrder, Accepted
  <2> QED BY <2>2, <2>3, <2>4 DEF RowsPerBar
<1> QED BY <1>1, FileInvariant, PTL

-----------------------------------------------------------------------------
(* Swings and prefixes.                                                    *)

\* Finitely many numbers have a greatest one: else a shortest prefix has none.
LEMMA GreatestExists ==
    ASSUME NEW n \in Nat \ {0}, NEW h \in [1 .. n -> Int]
    PROVE  \E t \in 1 .. n : \A u \in 1 .. n : h[u] <= h[t]
<1> DEFINE Top(m, t) == t \in 1 .. m /\ \A u \in 1 .. m : h[u] <= h[t]
           Bad == {m \in 1 .. n : ~\E t \in 1 .. n : Top(m, t)}
           R   == OpToRel(<, Nat)
<1>1. Bad = {}
  <2> SUFFICES ASSUME Bad # {}  PROVE FALSE  OBVIOUS
  <2>1. PICK m \in Bad : \A k \in Bad : ~(<<k, m>> \in R)
    <3>1. IsWellFoundedOn(R, Nat)  BY NatLessThanWellFounded
    <3>2. Bad \subseteq Nat  OBVIOUS
    <3> HIDE DEF R, Bad
    <3> QED BY <3>1, <3>2, WFMin
  <2>2. m \in 1 .. n /\ ~\E t \in 1 .. n : Top(m, t)  OBVIOUS
  <2>3. m # 1  BY <2>2
  <2>4. m - 1 \in 1 .. n /\ m - 1 < m  BY <2>2, <2>3
  <2>5. <<m - 1, m>> \in R  BY <2>2, <2>4 DEF OpToRel
  <2>6. m - 1 \notin Bad  BY <2>1, <2>5
  <2>7. PICK t \in 1 .. n : Top(m - 1, t)  BY <2>4, <2>6
  <2>8. CASE h[m] <= h[t]
    <3>1. Top(m, t)  BY <2>2, <2>7, <2>8
    <3> QED BY <2>2, <3>1
  <2>9. CASE h[t] <= h[m]
    <3>1. ASSUME NEW u \in 1 .. m  PROVE h[u] <= h[m]
      <4>1. u = m \/ h[u] <= h[t]  BY <2>2, <2>7
      <4> QED BY <2>2, <2>9, <4>1
    <3>2. Top(m, m)  BY <2>2, <3>1
    <3> QED BY <2>2, <3>2
  <2> QED BY <2>2, <2>8, <2>9
<1>2. n \in 1 .. n  OBVIOUS
<1> QED BY <1>1, <1>2

\* A bar whose prices may be negative: one upside down.
IntBar == [open : Int, high : Int, low : Int, close : Int]

\* A swing is reached by a bar and passed by none.
LEMMA SwingBounds ==
    ASSUME NEW n \in Nat \ {0}, NEW bars \in [1 .. n -> IntBar]
    PROVE  /\ \A i \in 1 .. n : bars[i].high <= SwingHigh(bars) /\ SwingLow(bars) <= bars[i].low
           /\ \E i \in 1 .. n : SwingHigh(bars) = bars[i].high
           /\ \E i \in 1 .. n : SwingLow(bars) = bars[i].low
<1>1. bars # <<>> /\ DOMAIN bars = 1 .. n  OBVIOUS
<1>2. \A i \in 1 .. n : bars[i].high \in Int /\ bars[i].low \in Int  BY DEF IntBar
<1> DEFINE highs == {bars[i].high : i \in DOMAIN bars}
           lows  == {bars[i].low : i \in DOMAIN bars}
<1>3. \E x \in highs : \A y \in highs : x >= y
  <2> DEFINE h == [i \in 1 .. n |-> bars[i].high]
  <2>1. h \in [1 .. n -> Int]  BY <1>2
  <2>2. PICK t \in 1 .. n : \A u \in 1 .. n : h[u] <= h[t]
    <3> HIDE DEF h
    <3> QED BY <2>1, GreatestExists
  <2> QED BY <1>1, <1>2, <2>2
<1>4. \E x \in lows : \A y \in lows : x =< y
  <2> DEFINE h == [i \in 1 .. n |-> -bars[i].low]
  <2>1. h \in [1 .. n -> Int]  BY <1>2
  <2>2. PICK t \in 1 .. n : \A u \in 1 .. n : h[u] <= h[t]
    <3> HIDE DEF h
    <3> QED BY <2>1, GreatestExists
  <2>3. \A u \in 1 .. n : bars[t].low <= bars[u].low  BY <1>2, <2>2
  <2> QED BY <1>1, <2>3
<1>5. SwingHigh(bars) = Max(highs) /\ SwingLow(bars) = Min(lows)
  BY <1>1 DEF SwingHigh, SwingLow
<1> HIDE DEF highs, lows
<1>6. Max(highs) \in highs /\ \A y \in highs : Max(highs) >= y  BY <1>3 DEF Max
<1>7. Min(lows) \in lows /\ \A y \in lows : Min(lows) =< y  BY <1>4 DEF Min
<1>8. \A i \in 1 .. n : bars[i].high \in highs /\ bars[i].low \in lows
  BY <1>1 DEF highs, lows
<1>9. /\ \E i \in 1 .. n : Max(highs) = bars[i].high
      /\ \E i \in 1 .. n : Min(lows) = bars[i].low
  BY <1>1, <1>6, <1>7 DEF highs, lows
<1>10. ASSUME NEW i \in 1 .. n
       PROVE  bars[i].high <= Max(highs) /\ Min(lows) <= bars[i].low
  <2>1. bars[i].high \in highs /\ bars[i].low \in lows  BY <1>8
  <2>2. Max(highs) \in Int /\ Min(lows) \in Int  BY <1>2, <1>9
  <2> QED BY <1>2, <1>6, <1>7, <2>1, <2>2
<1> QED BY <1>5, <1>9, <1>10

-----------------------------------------------------------------------------
(***************************************************************************)
(* What the code does against its documents.  Its swings and its trend are *)
(* those of the whole file (structure.py:32, momentum.py:74), where the    *)
(* specification has the last swing (SYSTEM_SPECIFICATION.md:1677), so the *)
(* trailing stop of TRADING_BEHAVIOR_AUDIT.md:474 is never moved.  This is *)
(* no property of the project: no run checks it.                           *)
(***************************************************************************)
\* The first n rows, which is the file as an earlier cycle read it.
Before(n) == BarsOf(SubSeq(rows, 1, n))

\* The stop of a position opened on an earlier file is never trailed: the trailing level is
\* taken from the swing of the same file with the same buffer (cycle.py:169).
TrailingIdle ==
    \A n \in DOMAIN rows, side \in Side :
        LET then     == Before(n)
            now      == BarsOf(rows)
            position == [side |-> side,
                         stop |-> CandidateStop(side, [swing_low  |-> SwingLow(then),
                                                       swing_high |-> SwingHigh(then)])]
        IN  ~TrailingDue(position, Last(now).close,
                         IF side = "BUY" THEN SwingLow(now) ELSE SwingHigh(now),
                         [trailing_buffer |-> StopLossBuffer])

\* Once the highs have fallen and the lows have risen there is no trend again.
TrendStaysLost ==
    \A n \in 2 .. Len(rows) :
        ~HigherHighs(Before(n)) /\ ~LowerLows(Before(n)) => Trend(BarsOf(rows)) = "SIDEWAYS"

OldBarsBind == TrailingIdle /\ TrendStaysLost

\* An earlier file is a beginning of the file.
LEMMA PrefixFacts ==
    ASSUME FileInv, NEW n \in DOMAIN rows
    PROVE  /\ n \in Nat \ {0} /\ Len(rows) \in Nat \ {0} /\ n <= Len(rows)
           /\ BarsOf(rows) \in [1 .. Len(rows) -> Bar] /\ Len(BarsOf(rows)) = Len(rows)
           /\ Before(n) \in [1 .. n -> Bar] /\ Len(Before(n)) = n
           /\ \A i \in 1 .. n : Before(n)[i] = BarsOf(rows)[i]
<1>1. DOMAIN rows = 1 .. Len(rows) /\ Len(rows) \in Nat  BY DEF FileInv, TypeOK
<1>2. n \in Nat \ {0} /\ n <= Len(rows) /\ Len(rows) # 0  BY <1>1
<1>3. \A i \in DOMAIN rows : chart[rows[i].bar] \in Bar
  <2> SUFFICES ASSUME NEW i \in DOMAIN rows  PROVE chart[rows[i].bar] \in Bar  OBVIOUS
  <2>1. rows[i] \in Row  BY DEF FileInv, TypeOK
  <2>2. rows[i].bar \in 1 .. MaxBars /\ rows[i].bar <= Len(chart)
    BY <2>1 DEF FileInv, RowsDated, Row
  <2>3. rows[i].bar \in 1 .. Len(chart)  BY <2>2, ChartAssumption DEF FileInv, TypeOK
  <2>4. chart[rows[i].bar] \in Bars  BY <2>3 DEF FileInv, TypeOK
  <2> QED BY <2>4, ChartAssumption
<1>4. BarsOf(rows) \in [1 .. Len(rows) -> Bar]  BY <1>1, <1>3 DEF BarsOf
<1> DEFINE early == SubSeq(rows, 1, n)
<1>5. /\ early \in Seq(Row) /\ Len(early) = n /\ DOMAIN early = 1 .. n
      /\ \A i \in 1 .. n : early[i] = rows[i]
  BY <1>1, <1>2 DEF FileInv, TypeOK
<1>6. \A i \in 1 .. n : i \in DOMAIN rows  BY <1>1, <1>2
<1> HIDE DEF early
<1>7. BarsOf(early) \in [1 .. n -> Bar] /\ \A i \in 1 .. n : BarsOf(early)[i] = BarsOf(rows)[i]
  BY <1>1, <1>3, <1>5, <1>6 DEF BarsOf
<1>8. ASSUME NEW m \in Nat, NEW f \in [1 .. m -> Bar]  PROVE Len(f) = m
  <2>1. f \in Seq(Bar)  BY SeqDef
  <2> QED BY <2>1
<1> QED BY <1>1, <1>2, <1>4, <1>7, <1>8 DEF Before, early

\* The swing a stop was taken from is on the safe side of every later one.
LEMMA SwingsWiden ==
    ASSUME FileInv, NEW n \in DOMAIN rows
    PROVE  /\ SwingLow(BarsOf(rows)) \in Nat /\ SwingLow(Before(n)) \in Nat
           /\ SwingHigh(BarsOf(rows)) \in Nat /\ SwingHigh(Before(n)) \in Nat
           /\ SwingLow(BarsOf(rows)) <= SwingLow(Before(n))
           /\ SwingHigh(BarsOf(rows)) >= SwingHigh(Before(n))
<1> DEFINE now == BarsOf(rows)
           then == Before(n)
           len == Len(rows)
<1>1. /\ n \in Nat \ {0} /\ len \in Nat \ {0} /\ n <= len
      /\ now \in [1 .. len -> Bar] /\ then \in [1 .. n -> Bar]
      /\ \A i \in 1 .. n : i \in 1 .. len /\ then[i] = now[i]
  BY PrefixFacts
<1>a. Bar \subseteq IntBar  BY DEF Bar, IntBar
<1> HIDE DEF now, then, len
<1>b. now \in [1 .. len -> IntBar] /\ then \in [1 .. n -> IntBar]  BY <1>1, <1>a
<1>2. /\ \A i \in 1 .. len : now[i].high <= SwingHigh(now) /\ SwingLow(now) <= now[i].low
      /\ \E i \in 1 .. len : SwingHigh(now) = now[i].high
      /\ \E i \in 1 .. len : SwingLow(now) = now[i].low
  BY <1>1, <1>b, SwingBounds
<1>3. /\ \E i \in 1 .. n : SwingHigh(then) = then[i].high
      /\ \E i \in 1 .. n : SwingLow(then) = then[i].low
  BY <1>1, <1>b, SwingBounds
<1>4. PICK i \in 1 .. n : SwingHigh(then) = now[i].high  BY <1>1, <1>3
<1>5. PICK j \in 1 .. n : SwingLow(then) = now[j].low  BY <1>1, <1>3
<1>6. \A k \in 1 .. len : now[k].high \in Nat /\ now[k].low \in Nat  BY <1>1 DEF Bar
<1> QED BY <1>1, <1>2, <1>4, <1>5, <1>6 DEF now, then

\* The disagreement, proved: what the first rows of the file did binds every later cycle
\* (structure.py:32, momentum.py:74).  No stop that was taken from a swing is ever trailed
\* (cycle.py:169), and a trend that those rows broke does not come back.
THEOREM OldBarsBindForEver == Spec => []OldBarsBind
<1>1. ASSUME FileInv  PROVE TrailingIdle
  <2> SUFFICES ASSUME NEW n \in DOMAIN rows, NEW side \in Side
               PROVE  ~TrailingDue([side |-> side,
                                    stop |-> CandidateStop(side,
                                      [swing_low  |-> SwingLow(Before(n)),
                                       swing_high |-> SwingHigh(Before(n))])],
                                   Last(BarsOf(rows)).close,
                                   IF side = "BUY" THEN SwingLow(BarsOf(rows))
                                                   ELSE SwingHigh(BarsOf(rows)),
                                   [trailing_buffer |-> StopLossBuffer])
    BY DEF TrailingIdle
  <2>1. StopLossBuffer \in Nat  BY RiskAssumption
  <2> QED BY <1>1, <2>1, SwingsWiden
          DEF TrailingDue, TrailingLevel, Beyond, CandidateStop, Side
<1>2. ASSUME FileInv  PROVE TrendStaysLost
  <2> SUFFICES ASSUME NEW n \in 2 .. Len(rows),
                      ~HigherHighs(Before(n)), ~LowerLows(Before(n))
               PROVE  Trend(BarsOf(rows)) = "SIDEWAYS"
    BY DEF TrendStaysLost
  <2>1. DOMAIN rows = 1 .. Len(rows) /\ Len(rows) \in Nat  BY <1>2 DEF FileInv, TypeOK
  <2>2. n \in DOMAIN rows /\ n >= 2  BY <2>1
  <2>3. /\ Len(BarsOf(rows)) = Len(rows) /\ Len(Before(n)) = n /\ n <= Len(rows)
        /\ \A i \in 1 .. n : Before(n)[i] = BarsOf(rows)[i]
    BY <1>2, <2>2, PrefixFacts
  <2>4. PICK i \in 1 .. n - 1 : ~(Before(n)[i + 1].high >= Before(n)[i].high)
    BY <2>2, <2>3 DEF HigherHighs
  <2>5. PICK j \in 1 .. n - 1 : ~(Before(n)[j + 1].low <= Before(n)[j].low)
    BY <2>2, <2>3 DEF LowerLows
  <2>6. /\ i \in 1 .. Len(rows) - 1 /\ j \in 1 .. Len(rows) - 1
        /\ i \in 1 .. n /\ i + 1 \in 1 .. n /\ j \in 1 .. n /\ j + 1 \in 1 .. n
    BY <2>1, <2>2, <2>3
  <2>7. ~HigherHighs(BarsOf(rows))  BY <2>3, <2>4, <2>6 DEF HigherHighs
  <2>8. ~LowerLows(BarsOf(rows))  BY <2>3, <2>5, <2>6 DEF LowerLows
  <2> QED BY <2>7, <2>8 DEF Trend
<1>3. FileInv => OldBarsBind  BY <1>1, <1>2 DEF OldBarsBind
<1> QED BY <1>3, FileInvariant, PTL


-----------------------------------------------------------------------------
(***************************************************************************)
(* Sums over a finite set.  Those of MarketAnalysis are folds, so what two *)
(* of them have to do with each other needs induction.  The library states *)
(* it with an operator parameter; here it is by a least counterexample,    *)
(* for the set of numbers, or of sets, that the proof is about.            *)
(***************************************************************************)
LEMMA Induction ==
    ASSUME NEW S \in SUBSET Nat, 0 \in S, \A k \in S : k + 1 \in S
    PROVE  S = Nat
<1> DEFINE R == OpToRel(<, Nat)
<1>1. SUFFICES ASSUME Nat \ S # {}  PROVE FALSE  OBVIOUS
<1>2. \E i \in Nat \ S : \A j \in Nat \ S : ~(<<j, i>> \in R)
  <2>1. IsWellFoundedOn(R, Nat)  BY NatLessThanWellFounded
  <2> HIDE DEF R
  <2> QED BY <1>1, <2>1, WFMin
<1>3. PICK i \in Nat \ S : \A j \in Nat \ S : ~(<<j, i>> \in R)  BY <1>2
<1>4. i \in Nat /\ i # 0 /\ i - 1 \in Nat /\ (i - 1) + 1 = i  OBVIOUS
<1>5. i - 1 \in S
  <2>1. SUFFICES ASSUME i - 1 \in Nat \ S  PROVE FALSE  BY <1>4
  <2>2. ~(i - 1 < i)  BY <1>3, <1>4, <2>1 DEF OpToRel
  <2> QED BY <1>4, <2>2
<1> QED BY <1>4, <1>5

\* The element that a fold takes next.
Pick(s) == CHOOSE x \in s : TRUE

LEMMA PickFacts ==
    ASSUME NEW D, IsFiniteSet(D), NEW s \in SUBSET D
    PROVE  /\ IsFiniteSet(s) /\ Cardinality(s) \in Nat /\ (Cardinality(s) = 0 <=> s = {})
           /\ Cardinality(s) <= Cardinality(D)
           /\ s # {} => /\ Pick(s) \in s /\ Pick(s) \in D /\ s \ {Pick(s)} \in SUBSET D
                        /\ Cardinality(s \ {Pick(s)}) = Cardinality(s) - 1
<1>1. IsFiniteSet(s) /\ Cardinality(s) <= Cardinality(D)  BY FS_Subset
<1>2. Cardinality(s) \in Nat /\ (Cardinality(s) = 0 <=> s = {})
  BY <1>1, FS_CardinalityType, FS_EmptySet
<1>3. s # {} => Pick(s) \in s  BY DEF Pick
<1>4. s # {} => Cardinality(s \ {Pick(s)}) = Cardinality(s) - 1  BY <1>1, <1>3, FS_RemoveElement
<1> QED BY <1>1, <1>2, <1>3, <1>4

\* What holds of the empty set, and of a set when it holds without the element
\* picked, holds of every finite set.
LEMMA SetInduction ==
    ASSUME NEW D, IsFiniteSet(D), NEW W \in SUBSET SUBSET D, {} \in W,
           \A s \in SUBSET D : s # {} /\ s \ {Pick(s)} \in W => s \in W
    PROVE  D \in W
<1> DEFINE S == {k \in Nat : \A s \in SUBSET D : Cardinality(s) = k => s \in W}
<1>1. 0 \in S
  <2>1. ASSUME NEW s \in SUBSET D, Cardinality(s) = 0  PROVE s \in W
    <3>1. s = {}  BY <2>1, PickFacts
    <3> QED BY <3>1
  <2> QED BY <2>1
<1>2. ASSUME NEW k \in S  PROVE k + 1 \in S
  <2>1. k \in Nat /\ k + 1 \in Nat /\ k + 1 # 0  OBVIOUS
  <2>2. ASSUME NEW s \in SUBSET D, Cardinality(s) = k + 1  PROVE s \in W
    <3>1. s # {}  BY <2>1, <2>2, PickFacts
    <3>2. s \ {Pick(s)} \in SUBSET D /\ Cardinality(s \ {Pick(s)}) = k
      <4>1. Cardinality(s \ {Pick(s)}) = Cardinality(s) - 1  BY <3>1, PickFacts
      <4> QED BY <2>1, <2>2, <4>1
    <3> QED BY <3>1, <3>2
  <2> QED BY <2>1, <2>2
<1>3. S = Nat
  <2>1. S \in SUBSET Nat  OBVIOUS
  <2> HIDE DEF S
  <2> QED BY <1>1, <1>2, <2>1, Induction
<1>4. Cardinality(D) \in Nat  BY FS_CardinalityType
<1> QED BY <1>3, <1>4

\* The function that a fold iterates: the sum over each subset.
SumsOf(g, f, D) ==
    g = [s \in SUBSET D |-> IF s = {} THEN 0 ELSE f[Pick(s)] + g[s \ {Pick(s)}]]

Sum(f, D) == (CHOOSE g : SumsOf(g, f, D))[D]

LEMMA SumsExist ==
    ASSUME NEW D, IsFiniteSet(D), NEW f \in [D -> Int]
    PROVE  \E g \in [SUBSET D -> Int] : SumsOf(g, f, D)
<1> DEFINE P == SUBSET D
           Up(g, k) == \A s \in P : Cardinality(s) <= k =>
                          g[s] = IF s = {} THEN 0 ELSE f[Pick(s)] + g[s \ {Pick(s)}]
           S == {k \in Nat : \E g \in [P -> Int] : Up(g, k)}
<1>1. ASSUME NEW s \in P
      PROVE  /\ Cardinality(s) \in Nat /\ (Cardinality(s) = 0 <=> s = {})
             /\ Cardinality(s) <= Cardinality(D)
             /\ s # {} => /\ s \ {Pick(s)} \in P /\ f[Pick(s)] \in Int
                          /\ Cardinality(s \ {Pick(s)}) = Cardinality(s) - 1
  BY PickFacts
<1>2. 0 \in S
  <2>1. Up([s \in P |-> 0], 0)
    <3> HIDE DEF P
    <3>1. ASSUME NEW s \in P, Cardinality(s) <= 0  PROVE s = {}
      <4>1. Cardinality(s) \in Nat /\ (Cardinality(s) = 0 <=> s = {})  BY <1>1
      <4>2. Cardinality(s) = 0  BY <3>1, <4>1
      <4> QED BY <4>1, <4>2
    <3> QED BY <3>1
  <2>2. [s \in P |-> 0] \in [P -> Int]  OBVIOUS
  <2> HIDE DEF P, Up
  <2> QED BY <2>1, <2>2
<1>3. ASSUME NEW k \in S  PROVE k + 1 \in S
  <2>1. k \in Nat /\ k + 1 \in Nat  OBVIOUS
  <2>2. PICK g \in [P -> Int] : Up(g, k)  OBVIOUS
  <2> DEFINE h == [s \in P |-> IF Cardinality(s) <= k THEN g[s]
                               ELSE f[Pick(s)] + g[s \ {Pick(s)}]]
  <2>3. h \in [P -> Int]
    <3>1. ASSUME NEW s \in P, ~(Cardinality(s) <= k)
          PROVE  f[Pick(s)] + g[s \ {Pick(s)}] \in Int
      <4>1. s # {}
        <5>1. Cardinality(s) # 0  BY <2>1, <3>1
        <5> QED BY <1>1, <5>1
      <4>2. s \ {Pick(s)} \in P /\ f[Pick(s)] \in Int  BY <1>1, <4>1
      <4>3. g[s \ {Pick(s)}] \in Int  BY <4>2
      <4> QED BY <4>2, <4>3
    <3> QED BY <3>1
  <2>4. Up(h, k + 1)
    <3>1. SUFFICES ASSUME NEW s \in P, Cardinality(s) <= k + 1
                   PROVE  h[s] = IF s = {} THEN 0 ELSE f[Pick(s)] + h[s \ {Pick(s)}]
      OBVIOUS
    <3>2. CASE s = {}
      <4>1. Cardinality(s) <= k
        <5>1. Cardinality(s) = 0  BY <1>1, <3>2
        <5> QED BY <2>1, <5>1
      <4>2. g[s] = 0  BY <2>2, <3>2, <4>1
      <4> QED BY <3>2, <4>1, <4>2
    <3>3. CASE s # {}
      <4> DEFINE t == s \ {Pick(s)}
      <4>1. t \in P /\ Cardinality(s) \in Nat /\ Cardinality(t) = Cardinality(s) - 1
        BY <1>1, <3>3
      <4>2. Cardinality(t) <= k  BY <2>1, <3>1, <4>1
      <4>3. h[t] = g[t]  BY <4>1, <4>2
      <4>4. h[s] = f[Pick(s)] + g[t]
        <5>1. CASE Cardinality(s) <= k
          <6>1. g[s] = f[Pick(s)] + g[t]  BY <2>2, <3>3, <5>1
          <6> QED BY <5>1, <6>1
        <5>2. CASE ~(Cardinality(s) <= k)  BY <5>2
        <5> QED BY <5>1, <5>2
      <4> QED BY <3>3, <4>3, <4>4
    <3> QED BY <3>2, <3>3
  <2> HIDE DEF P, Up, h
  <2> QED BY <2>1, <2>3, <2>4
<1>4. Cardinality(D) \in S
  <2>1. S \in SUBSET Nat /\ Cardinality(D) \in Nat  BY FS_CardinalityType
  <2> HIDE DEF S
  <2>2. S = Nat  BY <1>2, <1>3, <2>1, Induction
  <2> QED BY <2>1, <2>2
<1>5. PICK g \in [P -> Int] : Up(g, Cardinality(D))  BY <1>4
<1>6. SumsOf(g, f, D)  BY <1>1, <1>5 DEF SumsOf
<1> QED BY <1>6

\* The sums of all subsets, an element at a time.
SumSteps(g, f, D) ==
    /\ g[{}] = 0
    /\ \A s \in SUBSET D : g[s] \in Int
    /\ \A s \in SUBSET D : s # {} => g[s] = f[Pick(s)] + g[s \ {Pick(s)}]

LEMMA SumsStep ==
    ASSUME NEW D, IsFiniteSet(D), NEW f \in [D -> Int]
    PROVE  \E g : Sum(f, D) = g[D] /\ SumSteps(g, f, D)
<1> DEFINE g == CHOOSE g : SumsOf(g, f, D)
<1>1. SumsOf(g, f, D)  BY SumsExist
<1>2. Sum(f, D) = g[D]  BY DEF Sum
<1> HIDE DEF g
<1>3. /\ g[{}] = 0
      /\ \A s \in SUBSET D : s # {} => g[s] = f[Pick(s)] + g[s \ {Pick(s)}]
  <2>1. \A s \in SUBSET D : g[s] = IF s = {} THEN 0 ELSE f[Pick(s)] + g[s \ {Pick(s)}]
    BY <1>1, Zenon DEF SumsOf
  <2> QED BY <2>1
<1>4. \A s \in SUBSET D : g[s] \in Int
  <2> SUFFICES ASSUME NEW e \in SUBSET D  PROVE g[e] \in Int  OBVIOUS
  <2> DEFINE W == {s \in SUBSET e : g[s] \in Int}
  <2>1. IsFiniteSet(e)  BY FS_Subset
  <2>2. W \in SUBSET SUBSET e /\ {} \in W  BY <1>3
  <2>3. ASSUME NEW s \in SUBSET e, s # {}, s \ {Pick(s)} \in W  PROVE s \in W
    <3>1. f[Pick(s)] \in Int  BY <2>3, PickFacts
    <3>2. g[s] = f[Pick(s)] + g[s \ {Pick(s)}]  BY <1>3, <2>3
    <3> QED BY <2>3, <3>1, <3>2
  <2>4. e \in W
    <3> HIDE DEF W
    <3> QED BY <2>1, <2>2, <2>3, SetInduction
  <2> QED BY <2>4
<1> QED BY <1>2, <1>3, <1>4 DEF SumSteps

Balanced(f1, f2, f3, f4, D) ==
    /\ f1 \in [D -> Int] /\ f2 \in [D -> Int] /\ f3 \in [D -> Int] /\ f4 \in [D -> Int]
    /\ \A x \in D : f1[x] + f2[x] = f3[x] + f4[x]

\* Equal sums of two values each make equal sums of two sums.
LEMMA SumsBalance ==
    ASSUME NEW D, IsFiniteSet(D), NEW f1, NEW f2, NEW f3, NEW f4,
           Balanced(f1, f2, f3, f4, D)
    PROVE  /\ Sum(f1, D) \in Int /\ Sum(f2, D) \in Int
           /\ Sum(f3, D) \in Int /\ Sum(f4, D) \in Int
           /\ Sum(f1, D) + Sum(f2, D) = Sum(f3, D) + Sum(f4, D)
<1> USE DEF Balanced
<1>1. PICK g1 : Sum(f1, D) = g1[D] /\ SumSteps(g1, f1, D)  BY SumsStep
<1>2. PICK g2 : Sum(f2, D) = g2[D] /\ SumSteps(g2, f2, D)  BY SumsStep
<1>3. PICK g3 : Sum(f3, D) = g3[D] /\ SumSteps(g3, f3, D)  BY SumsStep
<1>4. PICK g4 : Sum(f4, D) = g4[D] /\ SumSteps(g4, f4, D)  BY SumsStep
<1> USE DEF SumSteps
<1> DEFINE W == {s \in SUBSET D : g1[s] + g2[s] = g3[s] + g4[s]}
<1>5. W \in SUBSET SUBSET D /\ {} \in W  BY <1>1, <1>2, <1>3, <1>4
<1>6. ASSUME NEW s \in SUBSET D, s # {}, s \ {Pick(s)} \in W  PROVE s \in W
  <2> DEFINE x == Pick(s)
             t == s \ {x}
  <2>1. x \in D /\ t \in SUBSET D  BY <1>6, PickFacts
  <2>2. /\ g1[s] = f1[x] + g1[t] /\ g2[s] = f2[x] + g2[t]
        /\ g3[s] = f3[x] + g3[t] /\ g4[s] = f4[x] + g4[t]
    BY <1>1, <1>2, <1>3, <1>4, <1>6
  <2>3. g1[t] + g2[t] = g3[t] + g4[t]  BY <1>6
  <2>4. /\ f1[x] \in Int /\ f2[x] \in Int /\ f3[x] \in Int /\ f4[x] \in Int
        /\ g1[t] \in Int /\ g2[t] \in Int /\ g3[t] \in Int /\ g4[t] \in Int
        /\ f1[x] + f2[x] = f3[x] + f4[x]
    BY <1>1, <1>2, <1>3, <1>4, <2>1
  <2> HIDE DEF x, t
  <2> QED BY <2>2, <2>3, <2>4
<1>7. D \in W
  <2> HIDE DEF W
  <2> QED BY <1>5, <1>6, SetInduction
<1> QED BY <1>1, <1>2, <1>3, <1>4, <1>7

Multiples(f, m, q, D) ==
    f \in [D -> Int] /\ q \in [D -> Int] /\ \A x \in D : f[x] = m * q[x]

\* A multiple of each value makes that multiple of the sum.
LEMMA SumOfMultiples ==
    ASSUME NEW D, IsFiniteSet(D), NEW m \in Int, NEW f, NEW q, Multiples(f, m, q, D)
    PROVE  Sum(q, D) \in Int /\ Sum(f, D) = m * Sum(q, D)
<1> USE DEF Multiples
<1>1. PICK g : Sum(f, D) = g[D] /\ SumSteps(g, f, D)  BY SumsStep
<1>2. PICK h : Sum(q, D) = h[D] /\ SumSteps(h, q, D)  BY SumsStep
<1> USE DEF SumSteps
<1> DEFINE W == {s \in SUBSET D : g[s] = m * h[s]}
<1>3. W \in SUBSET SUBSET D /\ {} \in W
  <2>1. m * 0 = 0  OBVIOUS
  <2> QED BY <1>1, <1>2, <2>1
<1>4. ASSUME NEW s \in SUBSET D, s # {}, s \ {Pick(s)} \in W  PROVE s \in W
  <2> DEFINE x == Pick(s)
             t == s \ {x}
  <2>1. x \in D /\ t \in SUBSET D  BY <1>4, PickFacts
  <2>2. g[s] = f[x] + g[t] /\ h[s] = q[x] + h[t] /\ g[t] = m * h[t]  BY <1>1, <1>2, <1>4
  <2>3. f[x] = m * q[x] /\ q[x] \in Int /\ h[t] \in Int  BY <1>2, <2>1
  <2> HIDE DEF x, t
  <2>4. m * (q[x] + h[t]) = m * q[x] + m * h[t]  BY <2>3
  <2> QED BY <2>2, <2>3, <2>4
<1>5. D \in W
  <2> HIDE DEF W
  <2> QED BY <1>3, <1>4, SetInduction
<1> QED BY <1>1, <1>2, <1>5

\* A one for each element makes their number.
LEMMA SumOfOnes ==
    ASSUME NEW D, IsFiniteSet(D), NEW f \in [D -> Int], \A x \in D : f[x] = 1
    PROVE  Sum(f, D) = Cardinality(D)
<1>1. PICK g : Sum(f, D) = g[D] /\ SumSteps(g, f, D)  BY SumsStep
<1> USE DEF SumSteps
<1> DEFINE W == {s \in SUBSET D : g[s] = Cardinality(s)}
<1>2. W \in SUBSET SUBSET D /\ {} \in W  BY <1>1, FS_EmptySet
<1>3. ASSUME NEW s \in SUBSET D, s # {}, s \ {Pick(s)} \in W  PROVE s \in W
  <2>1. /\ Pick(s) \in D /\ Cardinality(s) \in Nat
        /\ Cardinality(s \ {Pick(s)}) = Cardinality(s) - 1
    BY <1>3, PickFacts
  <2>2. g[s] = 1 + Cardinality(s \ {Pick(s)})  BY <1>1, <1>3, <2>1
  <2> QED BY <2>1, <2>2
<1>4. D \in W
  <2> HIDE DEF W
  <2> QED BY <1>2, <1>3, SetInduction
<1> QED BY <1>1, <1>4


-----------------------------------------------------------------------------
(***************************************************************************)
(* A chart and the chart upside down.                                      *)
(***************************************************************************)
\* The bar upside down, when prices p and q with p + q = c change places.
Turned(bar, c) == [open |-> c - bar.open, high |-> c - bar.low,
                   low  |-> c - bar.high, close |-> c - bar.close]

LEMMA TurnedShape ==
    ASSUME NEW bar \in IntBar, NEW c \in Int
    PROVE  /\ Turned(bar, c) \in IntBar
           /\ BarRange(bar) \in Int /\ Body(bar) \in Int
           /\ UpperWick(bar) \in Int /\ LowerWick(bar) \in Int
           /\ BarRange(Turned(bar, c)) = BarRange(bar)
           /\ Body(Turned(bar, c)) = -Body(bar)
           /\ UpperWick(Turned(bar, c)) = LowerWick(bar)
           /\ LowerWick(Turned(bar, c)) = UpperWick(bar)
<1>1. bar.open \in Int /\ bar.high \in Int /\ bar.low \in Int /\ bar.close \in Int  BY DEF IntBar
<1>2. Turned(bar, c) \in IntBar  BY <1>1 DEF Turned, IntBar
<1>3. /\ Turned(bar, c).open = c - bar.open /\ Turned(bar, c).high = c - bar.low
      /\ Turned(bar, c).low = c - bar.high /\ Turned(bar, c).close = c - bar.close
  BY DEF Turned
<1>4. BarRange(Turned(bar, c)) = BarRange(bar) /\ Body(Turned(bar, c)) = -Body(bar)
      /\ BarRange(bar) \in Int /\ Body(bar) \in Int
  BY <1>1, <1>3 DEF BarRange, Body
<1>5. CASE bar.open < bar.close
  BY <1>1, <1>2, <1>3, <1>4, <1>5 DEF UpperWick, LowerWick, Greatest, Least
<1>6. CASE ~(bar.open < bar.close)
  BY <1>1, <1>2, <1>3, <1>4, <1>6 DEF UpperWick, LowerWick, Greatest, Least
<1> QED BY <1>5, <1>6

LEMMA ExactDivision ==
    ASSUME NEW d \in Nat \ {0}, NEW q \in Int
    PROVE  (d * q) \div d = q
<1> DEFINE k == (d * q) \div d
           r == (d * q) % d
<1>1. d * q \in Int  OBVIOUS
<1>2. k \in Int /\ r \in 0 .. d - 1 /\ d * q = d * k + r  BY <1>1
<1> HIDE DEF k, r
<1>3. d * (q - k) = r  BY <1>2
<1>4. CASE q - k >= 1
  <2>1. d * (q - k) >= d  BY <1>2, <1>4
  <2> QED BY <1>2, <1>3, <2>1
<1>5. CASE q - k <= -1
  <2>1. d * (q - k) <= -d  BY <1>2, <1>5
  <2> QED BY <1>2, <1>3, <2>1
<1>6. CASE q - k = 0  BY <1>2, <1>6 DEF k
<1> QED BY <1>2, <1>4, <1>5, <1>6

\* A quotient is rounded alike on both sides of zero, and not at all when it is exact.
LEMMA QuotientTurns ==
    ASSUME NEW a \in Int, NEW b \in Nat \ {0}
    PROVE  Quotient(a, b) \in Int /\ Quotient(-a, b) = -Quotient(a, b)
<1>1. CASE a < 0
  <2>1. ~(-a < 0) /\ (-a) \div b \in Int  BY <1>1
  <2> QED BY <1>1, <2>1 DEF Quotient
<1>2. CASE a > 0
  <2>1. ~(a < 0) /\ -a < 0 /\ -(-a) = a /\ a \div b \in Int  BY <1>2
  <2> QED BY <2>1 DEF Quotient
<1>3. CASE a <= 0 /\ a >= 0
  <2>1. b * 0 = 0 /\ 0 \in Int  OBVIOUS
  <2>2. 0 \div b = 0  BY <2>1, ExactDivision
  <2>3. -a = a /\ ~(a < 0)  BY <1>3
  <2>4. a = 0  BY <1>3
  <2>5. Quotient(a, b) = 0  BY <2>2, <2>3, <2>4 DEF Quotient
  <2>6. Quotient(-a, b) = Quotient(a, b)  BY <2>3
  <2> QED BY <2>5, <2>6
<1> QED BY <1>1, <1>2, <1>3

LEMMA ExactQuotient ==
    ASSUME NEW d \in Nat \ {0}, NEW q \in Int
    PROVE  Quotient(d * q, d) = q
<1>1. d * q \in Int /\ -(d * q) = d * (-q) /\ -q \in Int  OBVIOUS
<1>2. (d * q) \div d = q /\ (d * (-q)) \div d = -q  BY <1>1, ExactDivision
<1> QED BY <1>1, <1>2 DEF Quotient

\* What divides is a factor.
LEMMA Factor ==
    ASSUME NEW a \in Nat, NEW b \in Nat \ {0}, a % b = 0
    PROVE  \E q \in Int : a = b * q
<1> DEFINE q == a \div b
           r == a % b
<1>1. a \in Int /\ b > 0 /\ b \in Int  OBVIOUS
<1>2. q \in Int /\ r \in 0 .. b - 1 /\ a = b * q + r  BY <1>1
<1>3. r = 0  OBVIOUS
<1> HIDE DEF q, r
<1>4. a = b * q  BY <1>1, <1>2, <1>3
<1> QED BY <1>2, <1>4

-----------------------------------------------------------------------------
\* What ExactAssumption says of a bar in a file of n.
WholeShares(bar, n) ==
    /\ Unit % (2 * n) = 0
    /\ BarRange(bar) > 0 => Unit % (10 * BarRange(bar) * n) = 0

\* The pressure of a bar upside down is what is left of the pressure of the bar; both are
\* multiples of the number of bars.
LEMMA BuyValueTurns ==
    ASSUME NEW bar \in IntBar, NEW c \in Int, NEW n \in Nat \ {0}, WholeShares(bar, n)
    PROVE  /\ \E q \in Int : BuyValue(bar) = n * q
           /\ BuyValue(Turned(bar, c)) = Unit - BuyValue(bar)
<1> USE DEF WholeShares
<1> DEFINE R == BarRange(bar)
           B == Body(bar)
           w == LowerWick(bar) - UpperWick(bar)
           T == Turned(bar, c)
           half == Unit \div 2
<1>1. /\ R \in Int /\ B \in Int /\ w \in Int
      /\ BarRange(T) = R /\ Body(T) = -B /\ LowerWick(T) - UpperWick(T) = -w
  BY TurnedShape
<1>2. Unit \in Nat \ {0}  BY AnalysisAssumption
<1>3. PICK u \in Int : Unit = (2 * n) * u
  <2>1. 2 * n \in Nat \ {0}  OBVIOUS
  <2> QED BY <1>2, <2>1, Factor
<1>4. half = n * u /\ Unit = n * (2 * u) /\ Unit = half + half
  <2>1. Unit = 2 * (n * u) /\ n * u \in Int  BY <1>3
  <2>2. half = n * u  BY <2>1, ExactDivision
  <2> QED BY <1>3, <2>1, <2>2
<1>5. half \in Int  BY <1>4
<1>6. CASE R <= 0
  <2>1. BuyValue(bar) = half /\ BuyValue(T) = half  BY <1>1, <1>6 DEF BuyValue
  <2> QED BY <1>3, <1>4, <1>5, <2>1
<1>7. CASE R > 0
  <2>1. R \in Nat \ {0} /\ 10 * R * n \in Nat \ {0}  BY <1>1, <1>7
  <2>2. PICK v \in Int : Unit = (10 * R * n) * v  BY <1>2, <1>7, <2>1, Factor
  <2> DEFINE x == Quotient(Unit * B, 2 * R)
             y == Quotient(Unit * w, 10 * R)
             p == half + x + y
  <2>3. x = n * (5 * v * B)
    <3>1. Unit * B = (2 * R) * (n * (5 * v * B))  BY <1>1, <2>1, <2>2
    <3>2. 2 * R \in Nat \ {0} /\ n * (5 * v * B) \in Int  BY <1>1, <2>1
    <3> QED BY <3>1, <3>2, ExactQuotient
  <2>4. y = n * (v * w)
    <3>1. Unit * w = (10 * R) * (n * (v * w))  BY <1>1, <2>1, <2>2
    <3>2. 10 * R \in Nat \ {0} /\ n * (v * w) \in Int  BY <1>1, <2>1
    <3> QED BY <3>1, <3>2, ExactQuotient
  <2>5. x \in Int /\ y \in Int /\ p \in Int
    <3>1. n * (5 * v * B) \in Int /\ n * (v * w) \in Int  BY <1>1
    <3> QED BY <1>5, <2>3, <2>4, <3>1
  <2>6. BuyValue(bar) = Clamp(p, 0, Unit)  BY <1>1, <1>7 DEF BuyValue
  <2>7. BuyValue(T) = Clamp(half + (-x) + (-y), 0, Unit)
    <3>1. Quotient(-(Unit * B), 2 * R) = -x /\ Quotient(-(Unit * w), 10 * R) = -y
      <4>1. Unit * B \in Int /\ Unit * w \in Int  BY <1>1, <1>2
      <4>2. 2 * R \in Nat \ {0} /\ 10 * R \in Nat \ {0}  BY <2>1
      <4> QED BY <4>1, <4>2, QuotientTurns
    <3>2. Unit * (-B) = -(Unit * B) /\ Unit * (-w) = -(Unit * w)  BY <1>1, <1>2
    <3>3. BuyValue(T) = Clamp(half + Quotient(Unit * (-B), 2 * R) + Quotient(Unit * (-w), 10 * R),
                              0, Unit)
      BY <1>1, <1>7 DEF BuyValue
    <3> QED BY <3>1, <3>2, <3>3
  <2>8. p = n * (u + 5 * v * B + v * w) /\ u + 5 * v * B + v * w \in Int
    <3> HIDE DEF x, y, half
    <3>1. u + 5 * v * B + v * w \in Int  BY <1>1
    <3>2. n * (u + 5 * v * B + v * w) = n * u + n * (5 * v * B) + n * (v * w)  BY <1>1
    <3> QED BY <1>4, <2>3, <2>4, <3>1, <3>2
  <2> HIDE DEF x, y, p, half
  <2>9. half + (-x) + (-y) = Unit - p  BY <1>2, <1>4, <1>5, <2>5 DEF p
  <2>10. p = n * (u + 5 * v * B + v * w)  BY <2>8
  <2>11. CASE p < 0
    <3>1. Clamp(p, 0, Unit) = 0 /\ Clamp(Unit - p, 0, Unit) = Unit
      BY <1>2, <2>5, <2>11 DEF Clamp, Greatest, Least
    <3>2. 0 = n * 0 /\ Unit - 0 = Unit  BY <1>2
    <3>3. BuyValue(bar) = 0 /\ BuyValue(T) = Unit  BY <2>6, <2>7, <2>9, <3>1
    <3> QED BY <3>2, <3>3
  <2>12. CASE p > Unit
    <3>1. Clamp(p, 0, Unit) = Unit /\ Clamp(Unit - p, 0, Unit) = 0
      BY <1>2, <2>5, <2>12 DEF Clamp, Greatest, Least
    <3>2. Unit = n * (2 * u) /\ 2 * u \in Int /\ Unit - Unit = 0  BY <1>2, <1>4
    <3> QED BY <2>6, <2>7, <2>9, <3>1, <3>2
  <2>13. CASE p >= 0 /\ p <= Unit
    <3>1. Clamp(p, 0, Unit) = p /\ Clamp(Unit - p, 0, Unit) = Unit - p
      BY <1>2, <2>5, <2>13 DEF Clamp, Greatest, Least
    <3> QED BY <2>6, <2>7, <2>8, <2>9, <3>1
  <2> QED BY <1>2, <2>5, <2>11, <2>12, <2>13
<1> QED BY <1>1, <1>6, <1>7


\* What a chart and the chart upside down have in common.
LEMMA MirrorFacts ==
    ASSUME NEW n \in Nat \ {0}, NEW bars \in [1 .. n -> Bar]
    PROVE  /\ bars # <<>> /\ Len(bars) = n /\ Last(bars) = bars[n] /\ DOMAIN bars = 1 .. n
           /\ Mirrored(bars) \in [1 .. n -> IntBar]
           /\ Mirrored(bars) # <<>> /\ Len(Mirrored(bars)) = n
           /\ Last(Mirrored(bars)) = Mirrored(bars)[n] /\ DOMAIN Mirrored(bars) = 1 .. n
           /\ bars[1].close \in Nat \ {0} /\ 2 * bars[1].close \in Int
           /\ \A i \in 1 .. n :
                /\ bars[i] \in IntBar
                /\ Mirrored(bars)[i] = Turned(bars[i], 2 * bars[1].close)
           /\ Mirrored(bars)[1].close = bars[1].close
<1> DEFINE m == Mirrored(bars)
           c == 2 * bars[1].close
<1>1. ASSUME NEW X, NEW f \in [1 .. n -> X]
      PROVE  f # <<>> /\ Len(f) = n /\ Last(f) = f[n] /\ DOMAIN f = 1 .. n
  <2>1. f \in Seq(X) /\ DOMAIN f = 1 .. n  BY SeqDef
  <2>2. Len(f) = n  BY <2>1
  <2> QED BY <2>1, <2>2 DEF Last
<1>2. \A i \in 1 .. n : bars[i] \in IntBar  BY DEF Bar, IntBar
<1>3. 1 \in 1 .. n /\ bars[1].close \in Nat \ {0}  BY DEF Bar
<1>4. c \in Int  BY <1>3
<1>5. DOMAIN m = 1 .. n /\ \A i \in 1 .. n : m[i] = Turned(bars[i], c)
  BY <1>1 DEF Mirrored, Turned
<1>6. m = [i \in 1 .. n |-> Turned(bars[i], c)]  BY <1>1 DEF Mirrored, Turned
<1> HIDE DEF m, c
<1>7. \A i \in 1 .. n : Turned(bars[i], c) \in IntBar  BY <1>2, <1>4, TurnedShape
<1>8. m \in [1 .. n -> IntBar]  BY <1>6, <1>7
<1>9. m[1].close = bars[1].close
  <2>1. m[1].close = c - bars[1].close  BY <1>3, <1>5 DEF Turned
  <2> QED BY <1>3, <2>1 DEF c
<1>10. m # <<>> /\ Len(m) = n /\ Last(m) = m[n]  BY <1>1, <1>8
<1>11. bars # <<>> /\ Len(bars) = n /\ Last(bars) = bars[n] /\ DOMAIN bars = 1 .. n  BY <1>1
<1> QED BY <1>2, <1>3, <1>4, <1>5, <1>8, <1>9, <1>10, <1>11 DEF m, c

LEMMA MirrorPrices ==
    ASSUME NEW n \in Nat \ {0}, NEW bars \in [1 .. n -> Bar], NEW i \in 1 .. n
    PROVE  /\ bars[i].high \in Int /\ bars[i].low \in Int /\ bars[i].close \in Int
           /\ Mirrored(bars)[i].high = 2 * bars[1].close - bars[i].low
           /\ Mirrored(bars)[i].low = 2 * bars[1].close - bars[i].high
           /\ Mirrored(bars)[i].close = 2 * bars[1].close - bars[i].close
<1>1. bars[i] \in IntBar /\ Mirrored(bars)[i] = Turned(bars[i], 2 * bars[1].close)
  BY MirrorFacts
<1>2. bars[i].high \in Int /\ bars[i].low \in Int /\ bars[i].close \in Int
  BY <1>1 DEF IntBar
<1> QED BY <1>1, <1>2 DEF Turned

\* Upside down, the bias and the trend are the opposite ones.
LEMMA BiasTurns ==
    ASSUME NEW n \in Nat \ {0}, NEW bars \in [1 .. n -> Bar]
    PROVE  /\ Bias(bars) \in {"BULLISH", "BEARISH", "NEUTRAL"}
           /\ Bias(bars) = "BULLISH" <=> Bias(Mirrored(bars)) = "BEARISH"
           /\ Bias(bars) = "BEARISH" <=> Bias(Mirrored(bars)) = "BULLISH"
           /\ Bias(bars) = "NEUTRAL" <=> Bias(Mirrored(bars)) = "NEUTRAL"
<1> DEFINE m == Mirrored(bars)
           a == bars[1].close
           z == bars[n].close
<1>1. /\ bars # <<>> /\ m # <<>> /\ Last(bars).close = z /\ a \in Int /\ z \in Int
      /\ m[1].close = a /\ Last(m).close = 2 * a - z
  <2>1. /\ bars # <<>> /\ m # <<>> /\ Last(bars) = bars[n] /\ Last(m) = m[n]
        /\ m[1].close = a /\ a \in Int
    BY MirrorFacts
  <2>2. n \in 1 .. n  OBVIOUS
  <2>3. z \in Int /\ m[n].close = 2 * a - z  BY <2>2, MirrorPrices
  <2> HIDE DEF m
  <2> QED BY <2>1, <2>3
<1> HIDE DEF m, a, z
<1>2. CASE z > a
  <2>1. ~(z < a) /\ 2 * a - z < a /\ ~(2 * a - z > a)  BY <1>1, <1>2
  <2>2. Bias(bars) = "BULLISH"  BY <1>1, <1>2, <2>1 DEF Bias, a
  <2>3. Bias(m) = "BEARISH"  BY <1>1, <1>2, <2>1 DEF Bias
  <2> QED BY <2>2, <2>3 DEF m
<1>3. CASE z < a
  <2>1. ~(z > a) /\ 2 * a - z > a /\ ~(2 * a - z < a)  BY <1>1, <1>3
  <2>2. Bias(bars) = "BEARISH"  BY <1>1, <1>3, <2>1 DEF Bias, a
  <2>3. Bias(m) = "BULLISH"  BY <1>1, <1>3, <2>1 DEF Bias
  <2> QED BY <2>2, <2>3 DEF m
<1>4. CASE z = a
  <2>1. ~(z > a) /\ ~(z < a) /\ ~(2 * a - z > a) /\ ~(2 * a - z < a)  BY <1>1, <1>4
  <2>2. Bias(bars) = "NEUTRAL"  BY <1>1, <1>4, <2>1 DEF Bias, a
  <2>3. Bias(m) = "NEUTRAL"  BY <1>1, <1>4, <2>1 DEF Bias
  <2> QED BY <2>2, <2>3 DEF m
<1> QED BY <1>1, <1>2, <1>3, <1>4

LEMMA TrendTurns ==
    ASSUME NEW n \in Nat \ {0}, NEW bars \in [1 .. n -> Bar]
    PROVE  /\ Trend(bars) \in {"UP", "DOWN", "SIDEWAYS"}
           /\ Trend(bars) = "UP" <=> Trend(Mirrored(bars)) = "DOWN"
           /\ Trend(bars) = "DOWN" <=> Trend(Mirrored(bars)) = "UP"
           /\ Trend(bars) = "SIDEWAYS" <=> Trend(Mirrored(bars)) = "SIDEWAYS"
<1> DEFINE m == Mirrored(bars)
           c == 2 * bars[1].close
<1>1. /\ Len(bars) = n /\ Len(m) = n /\ c \in Int
      /\ \A i \in 1 .. n : /\ bars[i].high \in Int /\ bars[i].low \in Int
                           /\ m[i].high = c - bars[i].low /\ m[i].low = c - bars[i].high
  <2>1. Len(bars) = n /\ Len(m) = n /\ c \in Int  BY MirrorFacts
  <2>2. ASSUME NEW i \in 1 .. n
        PROVE  /\ bars[i].high \in Int /\ bars[i].low \in Int
               /\ m[i].high = c - bars[i].low /\ m[i].low = c - bars[i].high
    BY MirrorPrices
  <2> HIDE DEF m, c
  <2> QED BY <2>1, <2>2
<1> HIDE DEF m, c
<1>2. ASSUME NEW i \in 1 .. n - 1
      PROVE  /\ m[i + 1].high >= m[i].high <=> bars[i + 1].low <= bars[i].low
             /\ m[i + 1].low <= m[i].low <=> bars[i + 1].high >= bars[i].high
  <2>1. i \in 1 .. n /\ i + 1 \in 1 .. n  OBVIOUS
  <2> QED BY <1>1, <2>1
<1>3. HigherHighs(m) <=> LowerLows(bars)  BY <1>1, <1>2 DEF HigherHighs, LowerLows
<1>4. LowerLows(m) <=> HigherHighs(bars)  BY <1>1, <1>2 DEF HigherHighs, LowerLows
<1> QED BY <1>3, <1>4 DEF Trend, m

\* Upside down, the momentum has the other sign.
LEMMA MomentumTurns ==
    ASSUME NEW n \in Nat \ {0}, NEW bars \in [1 .. n -> Bar]
    PROVE  /\ MomentumScore(bars) \in Int
           /\ MomentumScore(Mirrored(bars)) = -MomentumScore(bars)
           /\ TrendStrength(bars) \in Int
           /\ TrendStrength(Mirrored(bars)) = TrendStrength(bars)
<1> DEFINE m == Mirrored(bars)
           a == bars[1].close
           d == Last(bars).close - a
           x == Quotient(10 * Unit * d, a)
<1>1. Unit \in Nat \ {0}  BY AnalysisAssumption
<1>2. /\ Len(bars) = n /\ Len(m) = n /\ a \in Nat \ {0} /\ d \in Int
      /\ m[1].close = a /\ Last(m).close - a = -d
  <2>1. /\ Last(bars) = bars[n] /\ Last(m) = m[n]
        /\ Len(bars) = n /\ Len(m) = n /\ a \in Nat \ {0} /\ m[1].close = a
    BY MirrorFacts
  <2>2. n \in 1 .. n  OBVIOUS
  <2>3. bars[n].close \in Int /\ m[n].close = 2 * a - bars[n].close  BY <2>2, MirrorPrices
  <2> HIDE DEF m, a
  <2> QED BY <2>1, <2>3
<1>3. MomentumScore(bars) \in Int /\ MomentumScore(m) = -MomentumScore(bars)
  <2>1. CASE n < 2
    <3>1. MomentumScore(bars) = 0 /\ MomentumScore(m) = 0  BY <1>2, <2>1 DEF MomentumScore
    <3> DEFINE z == MomentumScore(bars)
    <3>2. z \in Int /\ z <= 0 /\ z >= 0  BY <3>1
    <3> HIDE DEF z
    <3>3. -z = z  BY <3>2
    <3> QED BY <3>1, <3>2, <3>3 DEF z
  <2>2. CASE ~(n < 2)
    <3>1. MomentumScore(bars) = Clamp(x, -Unit, Unit)  BY <1>2, <2>2 DEF MomentumScore
    <3>2. MomentumScore(m) = Clamp(Quotient(10 * Unit * (-d), a), -Unit, Unit)
      BY <1>2, <2>2 DEF MomentumScore
    <3>3. 10 * Unit * d \in Int /\ 10 * Unit * (-d) = -(10 * Unit * d)  BY <1>1, <1>2
    <3>4. x \in Int /\ Quotient(10 * Unit * (-d), a) = -x  BY <1>2, <3>3, QuotientTurns
    <3> HIDE DEF m, a, d, x
    <3>5. Clamp(x, -Unit, Unit) \in Int /\ Clamp(-x, -Unit, Unit) = -Clamp(x, -Unit, Unit)
      <4>1. CASE x > Unit  BY <1>1, <3>4, <4>1 DEF Clamp, Greatest, Least
      <4>2. CASE x < -Unit  BY <1>1, <3>4, <4>2 DEF Clamp, Greatest, Least
      <4>3. CASE x <= Unit /\ x >= -Unit  BY <1>1, <3>4, <4>3 DEF Clamp, Greatest, Least
      <4> QED BY <1>1, <3>4, <4>1, <4>2, <4>3
    <3> QED BY <3>1, <3>2, <3>4, <3>5
  <2> QED BY <2>1, <2>2
<1> HIDE DEF m, a, d, x
<1> DEFINE s == MomentumScore(bars)
<1>4. Size(s) \in Int /\ Size(-s) = Size(s)
  <2>1. s \in Int  BY <1>3
  <2> HIDE DEF s
  <2>2. CASE s < 0  BY <2>1, <2>2 DEF Size
  <2>3. CASE s > 0  BY <2>1, <2>3 DEF Size
  <2>4. CASE s <= 0 /\ s >= 0
    <3>1. -s = s  BY <2>1, <2>4
    <3> QED BY <2>1, <2>4, <3>1 DEF Size
  <2> QED BY <2>1, <2>2, <2>3, <2>4
<1> QED BY <1>3, <1>4 DEF TrendStrength, m


\* Upside down, the swings change places.
LEMMA SwingsTurn ==
    ASSUME NEW n \in Nat \ {0}, NEW bars \in [1 .. n -> Bar]
    PROVE  /\ SwingLow(bars) \in Int /\ SwingHigh(bars) \in Int
           /\ SwingHigh(Mirrored(bars)) = 2 * bars[1].close - SwingLow(bars)
           /\ SwingLow(Mirrored(bars)) = 2 * bars[1].close - SwingHigh(bars)
<1> DEFINE m == Mirrored(bars)
           c == 2 * bars[1].close
<1>1. c \in Int /\ m \in [1 .. n -> IntBar] /\ bars \in [1 .. n -> IntBar]
  BY MirrorFacts DEF Bar, IntBar
<1>2. ASSUME NEW i \in 1 .. n
      PROVE  /\ bars[i].high \in Int /\ bars[i].low \in Int
             /\ m[i].high = c - bars[i].low /\ m[i].low = c - bars[i].high
  BY MirrorPrices
<1> HIDE DEF m, c
<1>3. /\ \A i \in 1 .. n : bars[i].high <= SwingHigh(bars) /\ SwingLow(bars) <= bars[i].low
      /\ \E i \in 1 .. n : SwingHigh(bars) = bars[i].high
      /\ \E i \in 1 .. n : SwingLow(bars) = bars[i].low
  BY <1>1, SwingBounds
<1>4. /\ \A i \in 1 .. n : m[i].high <= SwingHigh(m) /\ SwingLow(m) <= m[i].low
      /\ \E i \in 1 .. n : SwingHigh(m) = m[i].high
      /\ \E i \in 1 .. n : SwingLow(m) = m[i].low
  BY <1>1, SwingBounds
<1>5. SwingLow(bars) \in Int /\ SwingHigh(bars) \in Int  BY <1>2, <1>3
<1>6. SwingHigh(m) = c - SwingLow(bars)
  <2>1. PICK i \in 1 .. n : SwingHigh(m) = m[i].high  BY <1>4
  <2>2. PICK j \in 1 .. n : SwingLow(bars) = bars[j].low  BY <1>3
  <2>3. m[j].high <= SwingHigh(m) /\ SwingLow(bars) <= bars[i].low  BY <1>3, <1>4
  <2> QED BY <1>1, <1>2, <1>5, <2>1, <2>2, <2>3
<1>7. SwingLow(m) = c - SwingHigh(bars)
  <2>1. PICK i \in 1 .. n : SwingLow(m) = m[i].low  BY <1>4
  <2>2. PICK j \in 1 .. n : SwingHigh(bars) = bars[j].high  BY <1>3
  <2>3. SwingLow(m) <= m[j].low /\ bars[i].high <= SwingHigh(bars)  BY <1>3, <1>4
  <2> QED BY <1>1, <1>2, <1>5, <2>1, <2>2, <2>3
<1> QED BY <1>5, <1>6, <1>7 DEF m, c

-----------------------------------------------------------------------------
\* The fold of analyze_pressure is the sum of what its bars press.
LEMMA PressureIsSum ==
    ASSUME NEW n \in Nat \ {0}, NEW bars, DOMAIN bars = 1 .. n,
           \A i \in 1 .. n : BuyValue(bars[i]) \in Int
    PROVE  Total(BuyValue, bars) = Sum([i \in 1 .. n |-> BuyValue(bars[i])], 1 .. n)
<1> DEFINE f == [i \in 1 .. n |-> BuyValue(bars[i])]
           Iter(g) == g = [s \in SUBSET (DOMAIN bars) |->
                    IF s = {} THEN 0
                    ELSE BuyValue(bars[CHOOSE y \in s : TRUE]) + g[s \ {CHOOSE y \in s : TRUE}]]
<1>1. Total(BuyValue, bars) = (CHOOSE g : Iter(g))[DOMAIN bars]
  BY Zenon DEF Total, FoldSeq, FoldFunction, FoldFunctionOnSet, MapThenFoldSet
<1>2. ASSUME NEW g  PROVE Iter(g) <=> SumsOf(g, f, 1 .. n)
  <2>1. ASSUME NEW s \in SUBSET (1 .. n)
        PROVE  (IF s = {} THEN 0 ELSE f[Pick(s)] + g[s \ {Pick(s)}])
               = IF s = {} THEN 0
                 ELSE BuyValue(bars[CHOOSE y \in s : TRUE]) + g[s \ {CHOOSE y \in s : TRUE}]
    <3>1. CASE s = {}  BY <3>1
    <3>2. CASE s # {}
      <4>1. Pick(s) \in 1 .. n  BY <3>2 DEF Pick
      <4>2. f[Pick(s)] = BuyValue(bars[Pick(s)])  BY <4>1
      <4> QED BY <3>2, <4>2 DEF Pick
    <3> QED BY <3>1, <3>2
  <2> HIDE DEF f
  <2>2. [s \in SUBSET (1 .. n) |-> IF s = {} THEN 0 ELSE f[Pick(s)] + g[s \ {Pick(s)}]]
        = [s \in SUBSET (1 .. n) |->
             IF s = {} THEN 0
             ELSE BuyValue(bars[CHOOSE y \in s : TRUE]) + g[s \ {CHOOSE y \in s : TRUE}]]
    BY <2>1, Zenon
  <2> QED BY <2>2, Zenon DEF SumsOf
<1> HIDE DEF Iter, f
<1>3. (CHOOSE g : Iter(g)) = CHOOSE g : SumsOf(g, f, 1 .. n)  BY <1>2, Zenon
<1>4. Total(BuyValue, bars) = Sum(f, 1 .. n)  BY <1>1, <1>3, Zenon DEF Sum
<1> QED BY <1>4 DEF f


\* Upside down, the buyers press as the sellers do here.
LEMMA PressureTurns ==
    ASSUME NEW n \in Nat \ {0}, NEW bars \in [1 .. n -> Bar],
           \A i \in 1 .. n : WholeShares(bars[i], n)
    PROVE  /\ BuyPressure(bars) \in Int
           /\ BuyPressure(Mirrored(bars)) = Unit - BuyPressure(bars)
<1> DEFINE I == 1 .. n
           m == Mirrored(bars)
           here  == [i \in I |-> BuyValue(bars[i])]
           there == [i \in I |-> BuyValue(m[i])]
           unit  == [i \in I |-> Unit]
           zero  == [i \in I |-> 0]
           one   == [i \in I |-> 1]
           share == [i \in I |-> CHOOSE q \in Int : BuyValue(bars[i]) = n * q]
<1>1. Unit \in Nat \ {0} /\ Unit \in Int  BY AnalysisAssumption
<1>2. /\ DOMAIN bars = I /\ DOMAIN m = I /\ bars # <<>> /\ m # <<>>
      /\ Len(bars) = n /\ Len(m) = n
  BY MirrorFacts
<1>3. ASSUME NEW i \in I
      PROVE  /\ \E q \in Int : BuyValue(bars[i]) = n * q
             /\ BuyValue(m[i]) = Unit - BuyValue(bars[i])
  <2>1. bars[i] \in IntBar /\ m[i] = Turned(bars[i], 2 * bars[1].close) /\ 2 * bars[1].close \in Int
    BY MirrorFacts
  <2>2. WholeShares(bars[i], n)  OBVIOUS
  <2> DEFINE bar == bars[i]
             c == 2 * bars[1].close
  <2>3. bar \in IntBar /\ c \in Int /\ WholeShares(bar, n)  BY <2>1, <2>2
  <2> HIDE DEF bar, c
  <2>4. (\E q \in Int : BuyValue(bar) = n * q) /\ BuyValue(Turned(bar, c)) = Unit - BuyValue(bar)
    BY <2>3, BuyValueTurns
  <2> QED BY <2>1, <2>4 DEF bar, c
<1>4. ASSUME NEW i \in I  PROVE share[i] \in Int /\ BuyValue(bars[i]) = n * share[i]
  BY <1>3
<1>5. ASSUME NEW i \in I  PROVE BuyValue(bars[i]) \in Int /\ BuyValue(m[i]) \in Int
  BY <1>1, <1>3, <1>4
<1>6. IsFiniteSet(I) /\ Cardinality(I) = n
  <2>1. 1 \in Int /\ n \in Int  OBVIOUS
  <2> QED BY <2>1, FS_Interval
<1>7. /\ here \in [I -> Int] /\ there \in [I -> Int] /\ unit \in [I -> Int]
      /\ zero \in [I -> Int] /\ one \in [I -> Int]
  <2> HIDE DEF I, m
  <2> QED BY <1>1, <1>5
<1>8. share \in [I -> Int]
  <2>1. \A i \in I : (CHOOSE q \in Int : BuyValue(bars[i]) = n * q) \in Int  BY <1>3
  <2> QED BY <2>1
<1>9. \A i \in I : /\ here[i] + there[i] = unit[i] + zero[i] /\ here[i] = n * share[i]
                   /\ unit[i] = Unit * one[i] /\ zero[i] = 0 * one[i] /\ one[i] = 1
  <2> SUFFICES ASSUME NEW i \in I
               PROVE  /\ here[i] + there[i] = unit[i] + zero[i] /\ here[i] = n * share[i]
                      /\ unit[i] = Unit * one[i] /\ zero[i] = 0 * one[i] /\ one[i] = 1
    OBVIOUS
  <2>1. /\ here[i] = BuyValue(bars[i]) /\ there[i] = BuyValue(m[i])
        /\ unit[i] = Unit /\ zero[i] = 0 /\ one[i] = 1
    OBVIOUS
  <2> HIDE DEF here, there, unit, zero, one, share, I, m
  <2>2. BuyValue(bars[i]) + (Unit - BuyValue(bars[i])) = Unit + 0  BY <1>1, <1>5
  <2>3. Unit * 1 = Unit /\ 0 * 1 = 0  BY <1>1
  <2> QED BY <1>3, <1>4, <2>1, <2>2, <2>3
<1>10. /\ BuyPressure(bars) = Total(BuyValue, bars) \div n
       /\ BuyPressure(m) = Total(BuyValue, m) \div n
  BY <1>2 DEF BuyPressure
<1>11. Total(BuyValue, bars) = Sum(here, I) /\ Total(BuyValue, m) = Sum(there, I)
  <2>1. Total(BuyValue, bars) = Sum(here, I)  BY <1>2, <1>5, PressureIsSum
  <2> HIDE DEF m
  <2>2. Total(BuyValue, m) = Sum(there, I)  BY <1>2, <1>5, PressureIsSum
  <2> QED BY <2>1, <2>2
<1> HIDE DEF here, there, unit, zero, one, share, I
<1>a. /\ Balanced(here, there, unit, zero, I) /\ Multiples(here, n, share, I)
      /\ Multiples(unit, Unit, one, I) /\ Multiples(zero, 0, one, I)
  BY <1>7, <1>8, <1>9 DEF Balanced, Multiples
<1>12. /\ Sum(here, I) \in Int /\ Sum(there, I) \in Int
       /\ Sum(here, I) + Sum(there, I) = Sum(unit, I) + Sum(zero, I)
  BY <1>6, <1>a, SumsBalance
<1>13. Sum(here, I) = n * Sum(share, I) /\ Sum(share, I) \in Int
  <2>1. n \in Int  OBVIOUS
  <2> QED BY <1>6, <1>a, <2>1, SumOfMultiples
<1>14. Sum(unit, I) = Unit * n /\ Sum(zero, I) = 0 * n
  <2>1. Sum(one, I) = n  BY <1>6, <1>7, <1>9, SumOfOnes
  <2>2. Sum(unit, I) = Unit * Sum(one, I)  BY <1>1, <1>6, <1>a, SumOfMultiples
  <2>3. 0 \in Int  OBVIOUS
  <2>4. Sum(zero, I) = 0 * Sum(one, I)  BY <1>6, <1>a, <2>3, SumOfMultiples
  <2> QED BY <2>1, <2>2, <2>4
<1> DEFINE S == Sum(share, I)
<1>15. Sum(there, I) = n * (Unit - S) /\ Unit - S \in Int
  <2>1. S \in Int /\ Sum(here, I) = n * S  BY <1>13
  <2> HIDE DEF S
  <2>2. 0 * n = 0 /\ Unit * n = n * Unit /\ n * (Unit - S) = n * Unit - n * S
        /\ n * S \in Int /\ n * Unit \in Int
    BY <1>1, <2>1
  <2> QED BY <1>1, <1>12, <1>14, <2>1, <2>2
<1>16. BuyPressure(bars) = S /\ S \in Int  BY <1>10, <1>11, <1>13, ExactDivision
<1>17. BuyPressure(m) = Unit - S  BY <1>10, <1>11, <1>15, ExactDivision
<1> QED BY <1>16, <1>17 DEF m


-----------------------------------------------------------------------------
\* The scores of the components are whole numbers.
LEMMA ClampType ==
    ASSUME NEW x \in Int, NEW lo \in Int, NEW hi \in Int
    PROVE  Clamp(x, lo, hi) \in Int
BY DEF Clamp, Greatest, Least

LEMMA ContextType ==
    ASSUME NEW bars, NEW universe
    PROVE  ContextQuality(bars, universe) \in Int
<1>1. Unit \in Int  BY AnalysisAssumption
<1> DEFINE grade == CASE universe.news -> 2
              [] ~universe.news /\ bars = <<>> -> 4
              [] ~universe.news /\ bars # <<>> /\ universe.regime = "trending" -> 9
              [] ~universe.news /\ bars # <<>> /\ universe.regime = "ranging" -> 6
              [] ~universe.news /\ bars # <<>> /\ universe.regime = "quiet" -> 5
              [] OTHER -> 3
<1>2. grade \in Int  OBVIOUS
<1>3. ContextQuality(bars, universe) = (Unit * grade) \div 10  BY DEF ContextQuality
<1> HIDE DEF grade
<1> QED BY <1>1, <1>2, <1>3

LEMMA BehaviorType ==
    ASSUME NEW n \in Nat \ {0}, NEW bars, DOMAIN bars = 1 .. n, Len(bars) = n, bars # <<>>
    PROVE  BehaviorScore(bars) \in Int
<1> DEFINE up   == {i \in DOMAIN bars : Body(bars[i]) > 0}
           down == {i \in DOMAIN bars : Body(bars[i]) < 0}
           none == {i \in DOMAIN bars : Indecisive(bars[i])}
           edge == Size(Cardinality(up) - Cardinality(down))
           x    == Unit \div 2 + (Unit * edge) \div (2 * n) - (3 * Unit * Cardinality(none)) \div (10 * n)
<1>1. Unit \in Int  BY AnalysisAssumption
<1>2. Cardinality(up) \in Nat /\ Cardinality(down) \in Nat /\ Cardinality(none) \in Nat
  <2>1. 1 \in Int /\ n \in Int  OBVIOUS
  <2>2. IsFiniteSet(DOMAIN bars)  BY <2>1, FS_Interval
  <2>3. up \in SUBSET DOMAIN bars /\ down \in SUBSET DOMAIN bars /\ none \in SUBSET DOMAIN bars
    OBVIOUS
  <2> HIDE DEF up, down, none
  <2> QED BY <2>2, <2>3, FS_Subset, FS_CardinalityType
<1>3. BehaviorScore(bars) = Clamp(x, 0, Unit)  BY DEF BehaviorScore, Count
<1> HIDE DEF up, down, none
<1>4. edge \in Int  BY <1>2 DEF Size
<1> HIDE DEF edge
<1>5. x \in Int
  <2>1. 2 * n \in Nat \ {0} /\ 10 * n \in Nat \ {0} /\ Unit * edge \in Int
        /\ 3 * Unit * Cardinality(none) \in Int
    BY <1>1, <1>2, <1>4
  <2>2. Unit \div 2 \in Int /\ (Unit * edge) \div (2 * n) \in Int
        /\ (3 * Unit * Cardinality(none)) \div (10 * n) \in Int
    BY <1>1, <2>1
  <2> QED BY <2>2
<1> HIDE DEF x
<1> QED BY <1>1, <1>3, <1>5, ClampType

LEMMA ImpactType ==
    ASSUME NEW n \in Nat \ {0}, NEW bars, DOMAIN bars = 1 .. n, Len(bars) = n, bars # <<>>,
           NEW universe, MomentumScore(bars) \in Int, BuyPressure(bars) \in Int
    PROVE  ImpactScore(bars, universe) \in Int
<1> DEFINE a == ContextQuality(bars, universe)
           b == Alignment(bars)
           c == MomentumScore(bars)
           d == BehaviorScore(bars)
           e == Least(Unit, Size(BuyPressure(bars) - SellPressure(bars)))
           x == 5 * a + 4 * b + 2 * (c + Unit) + 4 * d + 3 * (Unit - e)
<1>1. Unit \in Int  BY AnalysisAssumption
<1>2. a \in Int /\ d \in Int  BY ContextType, BehaviorType
<1>3. b \in Int  BY <1>1 DEF Alignment
<1>4. e \in Int
  <2>1. SellPressure(bars) \in Int  BY <1>1 DEF SellPressure
  <2> QED BY <1>1, <2>1 DEF Least, Size
<1>5. ImpactScore(bars, universe) = Clamp(x \div 20, 0, Unit)  BY DEF ImpactScore
<1>6. c \in Int  OBVIOUS
<1> HIDE DEF a, b, c, d, e
<1>7. x \div 20 \in Int  BY <1>1, <1>2, <1>3, <1>4, <1>6
<1> HIDE DEF x
<1> QED BY <1>1, <1>5, <1>7, ClampType

LEMMA ScoreTypes ==
    ASSUME NEW n \in Nat \ {0}, NEW bars, DOMAIN bars = 1 .. n, Len(bars) = n, bars # <<>>,
           NEW universe, NEW side \in Side,
           MomentumScore(bars) \in Int, BuyPressure(bars) \in Int, TrendStrength(bars) \in Int
    PROVE  \A k \in ComponentKeys : ComponentScores(side, bars, universe)[k] \in Int
<1> DEFINE cs == ComponentScores(side, bars, universe)
<1>1. Unit \in Int /\ Unit \div 2 \in Int  BY AnalysisAssumption
<1>2. cs.momentum \in Int
  <2> DEFINE sign == IF side = "BUY" THEN 1 ELSE -1
  <2>1. sign \in Int  OBVIOUS
  <2>2. cs.momentum = (Unit + sign * MomentumScore(bars)) \div 2  BY DEF ComponentScores
  <2> HIDE DEF sign, cs
  <2>3. Unit + sign * MomentumScore(bars) \in Int  BY <1>1, <2>1
  <2> QED BY <2>2, <2>3
<1>3. cs.trend \in Int  BY <1>1 DEF ComponentScores
<1>4. cs.structure \in Int  BY <1>1 DEF ComponentScores
<1>5. cs.pressure \in Int  BY <1>1 DEF ComponentScores, SellPressure
<1>6. cs.behavior \in Int /\ cs.impact \in Int /\ cs.context \in Int
  BY BehaviorType, ImpactType, ContextType DEF ComponentScores
<1> HIDE DEF cs
<1> QED BY <1>2, <1>3, <1>4, <1>5, <1>6 DEF cs, ComponentKeys


\* What the two sides score in the trend and in the structure.
LEMMA TrendScores ==
    ASSUME NEW bars, NEW u
    PROVE  /\ Trend(bars) = "UP" =>
                /\ ComponentScores("BUY", bars, u).trend = TrendStrength(bars)
                /\ ComponentScores("SELL", bars, u).trend = Unit - TrendStrength(bars)
           /\ Trend(bars) = "DOWN" =>
                /\ ComponentScores("BUY", bars, u).trend = Unit - TrendStrength(bars)
                /\ ComponentScores("SELL", bars, u).trend = TrendStrength(bars)
           /\ Trend(bars) = "SIDEWAYS" =>
                /\ ComponentScores("BUY", bars, u).trend = Unit \div 2
                /\ ComponentScores("SELL", bars, u).trend = Unit \div 2
<1> DEFINE Of(side) == CASE Trend(bars) = "SIDEWAYS" -> Unit \div 2
                         [] Trend(bars) = (IF side = "BUY" THEN "UP" ELSE "DOWN") ->
                              TrendStrength(bars)
                         [] OTHER -> Unit - TrendStrength(bars)
<1>1. /\ ComponentScores("BUY", bars, u).trend = Of("BUY")
      /\ ComponentScores("SELL", bars, u).trend = Of("SELL")
  BY DEF ComponentScores
<1>2. CASE Trend(bars) = "UP"
  <2>1. Of("BUY") = TrendStrength(bars) /\ Of("SELL") = Unit - TrendStrength(bars)  BY <1>2
  <2> QED BY <1>1, <1>2, <2>1
<1>3. CASE Trend(bars) = "DOWN"
  <2>1. Of("BUY") = Unit - TrendStrength(bars) /\ Of("SELL") = TrendStrength(bars)  BY <1>3
  <2> QED BY <1>1, <1>3, <2>1
<1>4. CASE Trend(bars) = "SIDEWAYS"
  <2>1. Of("BUY") = Unit \div 2 /\ Of("SELL") = Unit \div 2  BY <1>4
  <2> QED BY <1>1, <1>4, <2>1
<1> HIDE DEF Of
<1> QED BY <1>2, <1>3, <1>4

LEMMA StructureScores ==
    ASSUME NEW bars, NEW u
    PROVE  /\ Bias(bars) = "BULLISH" =>
                /\ ComponentScores("BUY", bars, u).structure = Unit
                /\ ComponentScores("SELL", bars, u).structure = 0
           /\ Bias(bars) = "BEARISH" =>
                /\ ComponentScores("BUY", bars, u).structure = 0
                /\ ComponentScores("SELL", bars, u).structure = Unit
           /\ Bias(bars) = "NEUTRAL" =>
                /\ ComponentScores("BUY", bars, u).structure = Unit \div 2
                /\ ComponentScores("SELL", bars, u).structure = Unit \div 2
<1> DEFINE Of(side) == CASE Bias(bars) = "NEUTRAL" -> Unit \div 2
                         [] Bias(bars) = (IF side = "BUY" THEN "BULLISH" ELSE "BEARISH") -> Unit
                         [] OTHER -> 0
<1>1. /\ ComponentScores("BUY", bars, u).structure = Of("BUY")
      /\ ComponentScores("SELL", bars, u).structure = Of("SELL")
  BY DEF ComponentScores
<1>2. CASE Bias(bars) = "BULLISH"
  <2>1. Of("BUY") = Unit /\ Of("SELL") = 0  BY <1>2
  <2> QED BY <1>1, <1>2, <2>1
<1>3. CASE Bias(bars) = "BEARISH"
  <2>1. Of("BUY") = 0 /\ Of("SELL") = Unit  BY <1>3
  <2> QED BY <1>1, <1>3, <2>1
<1>4. CASE Bias(bars) = "NEUTRAL"
  <2>1. Of("BUY") = Unit \div 2 /\ Of("SELL") = Unit \div 2  BY <1>4
  <2> QED BY <1>1, <1>4, <2>1
<1> HIDE DEF Of
<1> QED BY <1>2, <1>3, <1>4

\* Four components decide between the sides; upside down, each side scores in them what the
\* other scores here.
Deciding == {"momentum", "trend", "structure", "pressure"}

LEMMA DecidingTurn ==
    ASSUME NEW n \in Nat \ {0}, NEW bars \in [1 .. n -> Bar],
           \A i \in 1 .. n : WholeShares(bars[i], n),
           NEW u, NEW v, NEW k \in Deciding
    PROVE  /\ ComponentScores("BUY", Mirrored(bars), v)[k] = ComponentScores("SELL", bars, u)[k]
           /\ ComponentScores("SELL", Mirrored(bars), v)[k] = ComponentScores("BUY", bars, u)[k]
<1> DEFINE m == Mirrored(bars)
           M == MomentumScore(bars)
           p == BuyPressure(bars)
<1>1. Unit \in Int  BY AnalysisAssumption
<1>2. CASE k = "momentum"
  <2>1. M \in Int /\ MomentumScore(m) = -M  BY MomentumTurns
  <2>2. /\ ComponentScores("BUY", bars, u).momentum = (Unit + 1 * M) \div 2
        /\ ComponentScores("SELL", bars, u).momentum = (Unit + (-1) * M) \div 2
        /\ ComponentScores("BUY", m, v).momentum = (Unit + 1 * (-M)) \div 2
        /\ ComponentScores("SELL", m, v).momentum = (Unit + (-1) * (-M)) \div 2
    BY <2>1 DEF ComponentScores
  <2> HIDE DEF M
  <2>3. 1 * M = M /\ (-1) * M = -M /\ 1 * (-M) = -M /\ (-1) * (-M) = M  BY <2>1
  <2> QED BY <1>2, <2>2, <2>3
<1>3. CASE k = "trend"
  <2> DEFINE t == TrendStrength(bars)
  <2>1. TrendStrength(m) = t  BY MomentumTurns
  <2>2. /\ Trend(bars) \in {"UP", "DOWN", "SIDEWAYS"}
        /\ Trend(bars) = "UP" <=> Trend(m) = "DOWN"
        /\ Trend(bars) = "DOWN" <=> Trend(m) = "UP"
        /\ Trend(bars) = "SIDEWAYS" <=> Trend(m) = "SIDEWAYS"
    BY TrendTurns
  <2>3. /\ Trend(bars) = "UP" =>
             /\ ComponentScores("BUY", bars, u).trend = t
             /\ ComponentScores("SELL", bars, u).trend = Unit - t
        /\ Trend(bars) = "DOWN" =>
             /\ ComponentScores("BUY", bars, u).trend = Unit - t
             /\ ComponentScores("SELL", bars, u).trend = t
        /\ Trend(bars) = "SIDEWAYS" =>
             /\ ComponentScores("BUY", bars, u).trend = Unit \div 2
             /\ ComponentScores("SELL", bars, u).trend = Unit \div 2
    BY TrendScores
  <2> HIDE DEF m
  <2>4. /\ Trend(m) = "UP" =>
             /\ ComponentScores("BUY", m, v).trend = t
             /\ ComponentScores("SELL", m, v).trend = Unit - t
        /\ Trend(m) = "DOWN" =>
             /\ ComponentScores("BUY", m, v).trend = Unit - t
             /\ ComponentScores("SELL", m, v).trend = t
        /\ Trend(m) = "SIDEWAYS" =>
             /\ ComponentScores("BUY", m, v).trend = Unit \div 2
             /\ ComponentScores("SELL", m, v).trend = Unit \div 2
    <3> HIDE DEF t
    <3> QED BY <2>1, TrendScores
  <2> HIDE DEF t
  <2> QED BY <1>3, <2>2, <2>3, <2>4 DEF m
<1>4. CASE k = "structure"
  <2>1. /\ Bias(bars) \in {"BULLISH", "BEARISH", "NEUTRAL"}
        /\ Bias(bars) = "BULLISH" <=> Bias(m) = "BEARISH"
        /\ Bias(bars) = "BEARISH" <=> Bias(m) = "BULLISH"
        /\ Bias(bars) = "NEUTRAL" <=> Bias(m) = "NEUTRAL"
    BY BiasTurns
  <2> HIDE DEF m
  <2> QED BY <1>4, <2>1, StructureScores DEF m
<1>5. CASE k = "pressure"
  <2>1. p \in Int /\ BuyPressure(m) = Unit - p  BY PressureTurns
  <2>2. /\ ComponentScores("BUY", bars, u).pressure = p
        /\ ComponentScores("SELL", bars, u).pressure = Unit - p
        /\ ComponentScores("BUY", m, v).pressure = Unit - p
        /\ ComponentScores("SELL", m, v).pressure = Unit - (Unit - p)
    BY <2>1 DEF ComponentScores, SellPressure
  <2> HIDE DEF p
  <2>3. Unit - (Unit - p) = p  BY <1>1, <2>1
  <2> QED BY <1>5, <2>2, <2>3
<1> QED BY <1>2, <1>3, <1>4, <1>5 DEF Deciding

\* The fold of calculate_weighted_score is the sum over the components.
Weighted(side, bars, universe) ==
    [k \in ComponentKeys |-> ComponentScores(side, bars, universe)[k] * Weights[k]]

LEMMA WeightedIsSum ==
    ASSUME NEW side, NEW bars, NEW universe
    PROVE  WeightedScore(side, bars, universe) = Sum(Weighted(side, bars, universe), ComponentKeys)
<1> DEFINE D  == ComponentKeys
           cs == ComponentScores(side, bars, universe)
           f  == [k \in D |-> cs[k] * Weights[k]]
           Iter(g) == g = [s \in SUBSET D |->
                    IF s = {} THEN 0
                    ELSE cs[CHOOSE y \in s : TRUE] * Weights[CHOOSE y \in s : TRUE]
                           + g[s \ {CHOOSE y \in s : TRUE}]]
<1>1. WeightedScore(side, bars, universe) = (CHOOSE g : Iter(g))[D]
  BY Zenon DEF WeightedScore, MapThenSumSet, MapThenFoldSet
<1> HIDE DEF D, cs
<1>2. ASSUME NEW g  PROVE Iter(g) <=> SumsOf(g, f, D)
  <2>1. ASSUME NEW s \in SUBSET D
        PROVE  (IF s = {} THEN 0 ELSE f[Pick(s)] + g[s \ {Pick(s)}])
               = IF s = {} THEN 0
                 ELSE cs[CHOOSE y \in s : TRUE] * Weights[CHOOSE y \in s : TRUE]
                        + g[s \ {CHOOSE y \in s : TRUE}]
    <3>1. CASE s = {}  BY <3>1
    <3>2. CASE s # {}
      <4>1. Pick(s) \in D  BY <3>2 DEF Pick
      <4>2. f[Pick(s)] = cs[Pick(s)] * Weights[Pick(s)]  BY <4>1
      <4> QED BY <3>2, <4>2 DEF Pick
    <3> QED BY <3>1, <3>2
  <2> HIDE DEF f
  <2>2. [s \in SUBSET D |-> IF s = {} THEN 0 ELSE f[Pick(s)] + g[s \ {Pick(s)}]]
        = [s \in SUBSET D |->
             IF s = {} THEN 0
             ELSE cs[CHOOSE y \in s : TRUE] * Weights[CHOOSE y \in s : TRUE]
                    + g[s \ {CHOOSE y \in s : TRUE}]]
    BY <2>1, Zenon
  <2> QED BY <2>2, Zenon DEF SumsOf
<1> HIDE DEF Iter, f
<1>3. (CHOOSE g : Iter(g)) = CHOOSE g : SumsOf(g, f, D)  BY <1>2, Zenon
<1>4. WeightedScore(side, bars, universe) = Sum(f, D)  BY <1>1, <1>3, Zenon DEF Sum
<1> QED BY <1>4, Zenon DEF f, D, cs, Weighted

LEMMA KeysFinite == IsFiniteSet(ComponentKeys)
<1>1. /\ IsFiniteSet({"momentum"}) /\ IsFiniteSet({"trend"}) /\ IsFiniteSet({"structure"})
      /\ IsFiniteSet({"pressure"}) /\ IsFiniteSet({"behavior"}) /\ IsFiniteSet({"impact"})
      /\ IsFiniteSet({"context"})
  BY FS_Singleton
<1>2. IsFiniteSet({"momentum"} \cup {"trend"})  BY <1>1, FS_Union
<1>3. IsFiniteSet(({"momentum"} \cup {"trend"}) \cup {"structure"})  BY <1>1, <1>2, FS_Union
<1>4. IsFiniteSet({"pressure"} \cup {"behavior"})  BY <1>1, FS_Union
<1>5. IsFiniteSet({"impact"} \cup {"context"})  BY <1>1, FS_Union
<1>6. IsFiniteSet(({"pressure"} \cup {"behavior"}) \cup ({"impact"} \cup {"context"}))
  BY <1>4, <1>5, FS_Union
<1> DEFINE a == ({"momentum"} \cup {"trend"}) \cup {"structure"}
           b == ({"pressure"} \cup {"behavior"}) \cup ({"impact"} \cup {"context"})
<1>7. ComponentKeys = a \cup b  BY DEF ComponentKeys
<1>8. IsFiniteSet(a) /\ IsFiniteSet(b)  BY <1>3, <1>6
<1> HIDE DEF a, b
<1> QED BY <1>7, <1>8, FS_Union

\* What BUY scores on the two charts together, SELL scores on them together.
LEMMA WeightedTurns ==
    ASSUME NEW n \in Nat \ {0}, NEW bars \in [1 .. n -> Bar],
           \A i \in 1 .. n : WholeShares(bars[i], n),
           NEW u, NEW v
    PROVE  /\ WeightedScore("BUY", bars, u) \in Int /\ WeightedScore("SELL", bars, u) \in Int
           /\ WeightedScore("BUY", Mirrored(bars), v) \in Int
           /\ WeightedScore("SELL", Mirrored(bars), v) \in Int
           /\ WeightedScore("BUY", bars, u) + WeightedScore("BUY", Mirrored(bars), v)
              = WeightedScore("SELL", bars, u) + WeightedScore("SELL", Mirrored(bars), v)
<1> DEFINE m  == Mirrored(bars)
           f1 == Weighted("BUY", bars, u)
           f2 == Weighted("BUY", m, v)
           f3 == Weighted("SELL", bars, u)
           f4 == Weighted("SELL", m, v)
<1>1. /\ DOMAIN bars = 1 .. n /\ Len(bars) = n /\ bars # <<>>
      /\ DOMAIN m = 1 .. n /\ Len(m) = n /\ m # <<>>
      /\ "BUY" \in Side /\ "SELL" \in Side
  BY MirrorFacts DEF Side
<1>2. /\ MomentumScore(bars) \in Int /\ MomentumScore(m) = -MomentumScore(bars)
      /\ TrendStrength(bars) \in Int /\ TrendStrength(m) \in Int
      /\ BuyPressure(bars) \in Int /\ BuyPressure(m) = Unit - BuyPressure(bars)
      /\ Unit \in Int
  BY MomentumTurns, PressureTurns, AnalysisAssumption
<1>3. MomentumScore(m) \in Int /\ BuyPressure(m) \in Int
  <2> HIDE DEF m
  <2> QED BY <1>2
<1>4. ASSUME NEW k \in ComponentKeys
      PROVE  /\ ComponentScores("BUY", bars, u)[k] \in Int
             /\ ComponentScores("SELL", bars, u)[k] \in Int
             /\ ComponentScores("BUY", m, v)[k] \in Int
             /\ ComponentScores("SELL", m, v)[k] \in Int
             /\ Weights[k] \in Int
  <2>1. Weights[k] \in Int  BY AnalysisAssumption
  <2>2. /\ ComponentScores("BUY", bars, u)[k] \in Int
        /\ ComponentScores("SELL", bars, u)[k] \in Int
    BY <1>1, <1>2, ScoreTypes
  <2> HIDE DEF m
  <2>3. /\ ComponentScores("BUY", m, v)[k] \in Int
        /\ ComponentScores("SELL", m, v)[k] \in Int
    BY <1>1, <1>2, <1>3, ScoreTypes
  <2> QED BY <2>1, <2>2, <2>3
<1>5. ASSUME NEW k \in ComponentKeys
      PROVE  f1[k] + f2[k] = f3[k] + f4[k] /\ f1[k] \in Int /\ f2[k] \in Int
             /\ f3[k] \in Int /\ f4[k] \in Int
  <2> DEFINE a == ComponentScores("BUY", bars, u)[k]
             b == ComponentScores("BUY", m, v)[k]
             c == ComponentScores("SELL", bars, u)[k]
             d == ComponentScores("SELL", m, v)[k]
             w == Weights[k]
  <2>1. f1[k] = a * w /\ f2[k] = b * w /\ f3[k] = c * w /\ f4[k] = d * w
    BY DEF Weighted
  <2>2. a \in Int /\ b \in Int /\ c \in Int /\ d \in Int /\ w \in Int  BY <1>4
  <2>3. (a = d /\ b = c) \/ (a = c /\ b = d)
    <3>1. CASE k \in Deciding
      <4>1. b = c /\ d = a  BY <3>1, DecidingTurn
      <4> QED BY <4>1
    <3>2. CASE k \in {"behavior", "impact", "context"}
      BY <3>2 DEF ComponentScores
    <3> QED BY <3>1, <3>2 DEF ComponentKeys, Deciding
  <2> HIDE DEF a, b, c, d, w, f1, f2, f3, f4
  <2>4. a * w \in Int /\ b * w \in Int /\ c * w \in Int /\ d * w \in Int  BY <2>2
  <2> QED BY <2>1, <2>3, <2>4
<1>6. Balanced(f1, f2, f3, f4, ComponentKeys)
  <2>1. /\ f1 \in [ComponentKeys -> Int] /\ f2 \in [ComponentKeys -> Int]
        /\ f3 \in [ComponentKeys -> Int] /\ f4 \in [ComponentKeys -> Int]
    BY <1>4 DEF Weighted
  <2> HIDE DEF f1, f2, f3, f4
  <2> QED BY <1>5, <2>1 DEF Balanced
<1>7. /\ WeightedScore("BUY", bars, u) = Sum(f1, ComponentKeys)
      /\ WeightedScore("BUY", m, v) = Sum(f2, ComponentKeys)
      /\ WeightedScore("SELL", bars, u) = Sum(f3, ComponentKeys)
      /\ WeightedScore("SELL", m, v) = Sum(f4, ComponentKeys)
  BY WeightedIsSum
<1> HIDE DEF f1, f2, f3, f4
<1> QED BY <1>6, <1>7, KeysFinite, SumsBalance DEF m

-----------------------------------------------------------------------------
\* A candidate that is valid here is valid upside down for the other side, when the filters
\* end alike.
LEMMA CandidatesTurn ==
    ASSUME NEW n \in Nat \ {0}, NEW bars \in [1 .. n -> Bar], NEW u, NEW v, NEW side \in Side,
           MarketOf(bars, u, TRUE).filters_pass = MarketOf(Mirrored(bars), v, TRUE).filters_pass
    PROVE  CandidateValid(side, MarketOf(bars, u, TRUE))
           <=> CandidateValid(Opposite(side), MarketOf(Mirrored(bars), v, TRUE))
<1> DEFINE m  == Mirrored(bars)
           c  == 2 * bars[1].close
           z  == bars[n].close
           lo == SwingLow(bars)
           hi == SwingHigh(bars)
           here  == MarketOf(bars, u, TRUE)
           there == MarketOf(m, v, TRUE)
<1>1. /\ c \in Int /\ lo \in Int /\ hi \in Int /\ z \in Int
      /\ here.close = z /\ here.swing_low = lo /\ here.swing_high = hi
      /\ there.close = c - z /\ there.swing_low = c - hi /\ there.swing_high = c - lo
  <2>1. /\ bars # <<>> /\ m # <<>> /\ Last(bars) = bars[n] /\ Last(m) = m[n] /\ c \in Int
    BY MirrorFacts
  <2>2. lo \in Int /\ hi \in Int /\ SwingHigh(m) = c - lo /\ SwingLow(m) = c - hi  BY SwingsTurn
  <2>3. n \in 1 .. n  OBVIOUS
  <2>4. z \in Int /\ m[n].close = c - z  BY <2>3, MirrorPrices
  <2> HIDE DEF m, lo, hi
  <2> QED BY <2>1, <2>2, <2>4 DEF MarketOf, lo, hi
<1>2. here.filters_pass = there.filters_pass  OBVIOUS
<1>3. StopLossBuffer \in Nat  BY RiskAssumption
<1> HIDE DEF m, c, z, lo, hi, here, there
<1>4. /\ CandidateValid("BUY", here) <=> here.filters_pass /\ z > lo - StopLossBuffer
      /\ CandidateValid("SELL", here) <=> here.filters_pass /\ z < hi + StopLossBuffer
  BY <1>1 DEF CandidateValid, CandidateStop, Beyond
<1>5. /\ CandidateValid("BUY", there) <=>
           there.filters_pass /\ c - z > (c - hi) - StopLossBuffer
      /\ CandidateValid("SELL", there) <=>
           there.filters_pass /\ c - z < (c - lo) + StopLossBuffer
  BY <1>1 DEF CandidateValid, CandidateStop, Beyond
<1>6. /\ z > lo - StopLossBuffer <=> c - z < (c - lo) + StopLossBuffer
      /\ z < hi + StopLossBuffer <=> c - z > (c - hi) - StopLossBuffer
  BY <1>1, <1>3
<1>7. /\ CandidateValid("BUY", here) <=> CandidateValid("SELL", there)
      /\ CandidateValid("SELL", here) <=> CandidateValid("BUY", there)
  BY <1>2, <1>4, <1>5, <1>6
<1> QED BY <1>7 DEF Side, Opposite, here, there, m


LEMMA PreferredTurns ==
    ASSUME NEW n \in Nat \ {0}, NEW bars \in [1 .. n -> Bar],
           \A i \in 1 .. n : WholeShares(bars[i], n),
           NEW u, NEW v,
           MarketOf(bars, u, TRUE).filters_pass = MarketOf(Mirrored(bars), v, TRUE).filters_pass
    PROVE  /\ Preferred("BUY", MarketOf(bars, u, TRUE))
              <=> Preferred("SELL", MarketOf(Mirrored(bars), v, TRUE))
           /\ Preferred("SELL", MarketOf(bars, u, TRUE))
              <=> Preferred("BUY", MarketOf(Mirrored(bars), v, TRUE))
<1> DEFINE m     == Mirrored(bars)
           here  == MarketOf(bars, u, TRUE)
           there == MarketOf(m, v, TRUE)
           a == WeightedScore("BUY", bars, u)
           b == WeightedScore("BUY", m, v)
           c == WeightedScore("SELL", bars, u)
           d == WeightedScore("SELL", m, v)
<1>1. a \in Int /\ b \in Int /\ c \in Int /\ d \in Int /\ a + b = c + d  BY WeightedTurns
<1>2. /\ Score("BUY", here) = a /\ Score("SELL", here) = c
      /\ Score("BUY", there) = b /\ Score("SELL", there) = d
  BY DEF Score, MarketOf
<1>3. "BUY" \in Side /\ "SELL" \in Side /\ Opposite("BUY") = "SELL" /\ Opposite("SELL") = "BUY"
  BY DEF Side, Opposite
<1>4. /\ CandidateValid("BUY", here) <=> CandidateValid(Opposite("BUY"), there)
      /\ CandidateValid("SELL", here) <=> CandidateValid(Opposite("SELL"), there)
  BY <1>3, CandidatesTurn
<1> HIDE DEF a, b, c, d, here, there
<1>5. (a > c <=> d > b) /\ (c > a <=> b > d)  BY <1>1
<1>6. /\ Preferred("BUY", here) <=> Preferred("SELL", there)
      /\ Preferred("SELL", here) <=> Preferred("BUY", there)
  BY <1>2, <1>3, <1>4, <1>5 DEF Preferred
<1> QED BY <1>6 DEF here, there, m

\* On a file of the bounds, the shares of every bar are whole.
LEMMA FileShares ==
    ASSUME FileInv, Accepted(rows)
    PROVE  /\ Len(rows) \in Nat \ {0}
           /\ BarsOf(rows) \in [1 .. Len(rows) -> Bar]
           /\ \A i \in 1 .. Len(rows) : WholeShares(BarsOf(rows)[i], Len(rows))
<1>1. /\ DOMAIN rows = 1 .. Len(rows) /\ Len(rows) \in Nat /\ rows # <<>>
      /\ Len(chart) \in Nat /\ Len(chart) <= MaxBars /\ repeats \in Nat /\ repeats <= MaxRepeats
      /\ Len(rows) <= Len(chart) + repeats /\ MaxBars \in Nat /\ MaxRepeats \in Nat
  BY ChartAssumption DEF FileInv, TypeOK, RowsBudget, Accepted
<1>2. Len(rows) # 0
  <2>1. rows \in Seq(Row)  BY DEF FileInv, TypeOK
  <2> QED BY <1>1, <2>1
<1>3. 1 \in DOMAIN rows /\ Len(rows) \in 1 .. MaxBars + MaxRepeats  BY <1>1, <1>2
<1>4. BarsOf(rows) \in [1 .. Len(rows) -> Bar]  BY <1>3, PrefixFacts
<1>5. ASSUME NEW i \in 1 .. Len(rows)  PROVE WholeShares(BarsOf(rows)[i], Len(rows))
  <2>1. rows[i] \in Row /\ rows[i].bar <= Len(chart)
    BY <1>1 DEF FileInv, TypeOK, RowsDated
  <2>2. rows[i].bar \in 1 .. Len(chart)  BY <1>1, <2>1 DEF Row
  <2>3. chart[rows[i].bar] \in Bars  BY <2>2 DEF FileInv, TypeOK
  <2>4. BarsOf(rows)[i] \in Bars  BY <1>1, <2>3 DEF BarsOf
  <2> QED BY <1>3, <2>4, ExactAssumption DEF WholeShares
<1> QED BY <1>1, <1>2, <1>4, <1>5

\* At most one side is preferred, so it does not matter that BUY is looked at first.
LEMMA OnePreferred ==
    ASSUME NEW market, market.buy_score \in Int, market.sell_score \in Int,
           Preferred("BUY", market), Preferred("SELL", market)
    PROVE  FALSE
<1>1. Opposite("BUY") = "SELL" /\ Opposite("SELL") = "BUY"  BY DEF Opposite
<1>2. CandidateValid("BUY", market) /\ CandidateValid("SELL", market)  BY DEF Preferred
<1>3. /\ Score("BUY", market) > Score("SELL", market)
      /\ Score("SELL", market) > Score("BUY", market)
  BY <1>1, <1>2 DEF Preferred
<1> QED BY <1>3 DEF Score

LEMMA DecisionTurns ==
    ASSUME NEW n \in Nat \ {0}, NEW bars \in [1 .. n -> Bar],
           \A i \in 1 .. n : WholeShares(bars[i], n),
           NEW u, NEW v,
           MarketOf(bars, u, TRUE).filters_pass = MarketOf(Mirrored(bars), v, TRUE).filters_pass
    PROVE  SystemDecision(MarketOf(Mirrored(bars), v, TRUE), TRUE)
           = Reversed(SystemDecision(MarketOf(bars, u, TRUE), TRUE))
<1> DEFINE here  == MarketOf(bars, u, TRUE)
           there == MarketOf(Mirrored(bars), v, TRUE)
<1>1. /\ Preferred("BUY", here) <=> Preferred("SELL", there)
      /\ Preferred("SELL", here) <=> Preferred("BUY", there)
  BY PreferredTurns
<1>2. here.buy_score \in Int /\ here.sell_score \in Int  BY WeightedTurns DEF MarketOf
<1> HIDE DEF here, there
<1>3. ~(Preferred("BUY", here) /\ Preferred("SELL", here))  BY <1>2, OnePreferred
<1>4. SystemDecision(there, TRUE) = Reversed(SystemDecision(here, TRUE))
  <2>1. CASE Preferred("BUY", here)
    <3>1. SystemDecision(here, TRUE) = "BUY"  BY <2>1 DEF SystemDecision
    <3>2. SystemDecision(there, TRUE) = "SELL"  BY <1>1, <1>3, <2>1 DEF SystemDecision
    <3> QED BY <3>1, <3>2 DEF Reversed, Opposite, Side
  <2>2. CASE Preferred("SELL", here)
    <3>1. SystemDecision(here, TRUE) = "SELL"  BY <1>3, <2>2 DEF SystemDecision
    <3>2. SystemDecision(there, TRUE) = "BUY"  BY <1>1, <2>2 DEF SystemDecision
    <3> QED BY <3>1, <3>2 DEF Reversed, Opposite, Side
  <2>3. CASE ~Preferred("BUY", here) /\ ~Preferred("SELL", here)
    <3>1. SystemDecision(here, TRUE) = "WAIT"  BY <2>3 DEF SystemDecision
    <3>2. SystemDecision(there, TRUE) = "WAIT"  BY <1>1, <2>3 DEF SystemDecision
    <3> QED BY <3>1, <3>2 DEF Reversed, Side
  <2> QED BY <2>1, <2>2, <2>3
<1> QED BY <1>4 DEF here, there

\* No side is favoured: what is decided on the chart is the opposite of what is decided on
\* the chart upside down, under whatever universe lets the setups pass.
THEOREM SidesAreMirrored == Spec => []SidesMirror
<1>1. ASSUME FileInv  PROVE SidesMirror
  <2> DEFINE bars == BarsOf(rows)
  <2> SUFFICES ASSUME Accepted(rows), NEW here \in Verdicts(bars),
                      NEW there \in Verdicts(Mirrored(bars)), here.pass = there.pass
               PROVE  there.decision = Reversed(here.decision)
    BY DEF SidesMirror
  <2> DEFINE n == Len(rows)
  <2>1. /\ n \in Nat \ {0} /\ bars \in [1 .. n -> Bar]
        /\ \A i \in 1 .. n : WholeShares(bars[i], n)
    BY <1>1, FileShares
  <2> HIDE DEF bars, n
  <2> DEFINE verdict(market) == [pass     |-> market.filters_pass,
                                 decision |-> SystemDecision(market, TRUE)]
  <2>2. PICK u \in Universe : here = verdict(MarketOf(bars, u, TRUE))
    BY DEF Verdicts
  <2>3. PICK v \in Universe : there = verdict(MarketOf(Mirrored(bars), v, TRUE))
    BY DEF Verdicts
  <2>4. MarketOf(bars, u, TRUE).filters_pass = MarketOf(Mirrored(bars), v, TRUE).filters_pass
    BY <2>2, <2>3
  <2>5. SystemDecision(MarketOf(Mirrored(bars), v, TRUE), TRUE)
        = Reversed(SystemDecision(MarketOf(bars, u, TRUE), TRUE))
    BY <2>1, <2>4, DecisionTurns
  <2> QED BY <2>2, <2>3, <2>5, Zenon
<1> QED BY <1>1, FileInvariant, PTL
=============================================================================
