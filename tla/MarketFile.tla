----------------------------- MODULE MarketFile ------------------------------
(***************************************************************************)
(* The market file of one instance as the EA builds it, row by row, and    *)
(* what every cycle reads in it.                                           *)
(*                                                                         *)
(* On the first tick of an M1 bar the EA appends the bar that has just     *)
(* closed, then the sensor, status and universe files; only when all of    *)
(* them are written does it remember the bar.  A row is dated by the       *)
(* server time of its bar and the distance of two clocks at that moment,   *)
(* so the same bar exported again may get another time.  Nothing ever      *)
(* shortens the file, and the analysis reads all of it.                    *)
(*                                                                         *)
(* An export is one step here; DataFeed has its parts.                     *)
(***************************************************************************)
EXTENDS MarketAnalysis

CONSTANTS
    Bars,         \* the bars a chart may show
    FirstBars,    \* of these, the ones a chart may begin with
    BarSeconds,   \* the length of a bar
    Shifts,       \* the distances of the clocks, less the smallest
    MaxBars,      \* bound on closed bars
    MaxRepeats    \* bound on exports cut short and EA restarts

Bar == [open : Nat \ {0}, high : Nat \ {0}, low : Nat \ {0}, close : Nat \ {0}]

\* The prices of the terminal are consistent; the clocks drift by less than a bar.
ASSUME ChartAssumption ==
    /\ Bars \subseteq Bar /\ FirstBars \subseteq Bars
    /\ \A bar \in Bars : /\ bar.low <= bar.open /\ bar.open <= bar.high
                         /\ bar.low <= bar.close /\ bar.close <= bar.high
    /\ BarSeconds \in Nat /\ Shifts \subseteq 0 .. BarSeconds - 1
    /\ MaxBars \in Nat \ {0} /\ MaxRepeats \in Nat

\* The shares of a bar's range, and their means over a file, are whole numbers.
ASSUME ExactAssumption ==
    \A n \in 1 .. MaxBars + MaxRepeats :
        /\ Unit % (2 * n) = 0
        /\ \A bar \in Bars : BarRange(bar) > 0 => Unit % (10 * BarRange(bar) * n) = 0

VARIABLES
    chart,      \* the closed M1 bars of the terminal
    rows,       \* the market file: which bar a row shows and its time_utc
    exported,   \* g_last_exported_bar_time: the closed bars there were, 0 after a start
    repeats     \* exports cut short and restarts so far

vars == <<chart, rows, exported, repeats>>

Row == [bar : 1 .. MaxBars, time : Nat]

TypeOK ==
    /\ chart \in Seq(Bars) /\ Len(chart) <= MaxBars
    /\ rows \in Seq(Row)
    /\ exported \in 0 .. Len(chart)
    /\ repeats \in 0 .. MaxRepeats

Init ==
    /\ \E bar \in FirstBars : chart = <<bar>>
    /\ rows = <<>>
    /\ exported = 0
    /\ repeats = 0

(***************************************************************************)
(* The EA                                                                  *)
(***************************************************************************)
\* Minutes pass whether or not there is a tick to export them.
BarCloses ==
    /\ Len(chart) < MaxBars
    /\ \E bar \in Bars : chart' = Append(chart, bar)
    /\ UNCHANGED <<rows, exported, repeats>>

RowTime(bar, shift) == BarSeconds * bar + shift

\* A time the file contains is not written again.
AppendCsvRow(content, row) ==
    IF \E i \in DOMAIN content : content[i].time = row.time THEN content
                                                           ELSE Append(content, row)

\* Faulty: at shift 0, the bar that is still open.
ExportOpenBar ==
    /\ exported # Len(chart)
    /\ \E shift \in Shifts :
         rows' = AppendCsvRow(rows, [bar  |-> Len(chart) + 1,
                                     time |-> RowTime(Len(chart) + 1, shift)])
    /\ UNCHANGED chart

\* SYSTEM_IsNewM1Bar, then SYSTEM_ExportMarketBar at shift 1.
ExportMarketBar ==
    /\ exported # Len(chart)
    /\ \E shift \in Shifts :
         rows' = AppendCsvRow(rows, [bar  |-> Len(chart),
                                     time |-> RowTime(Len(chart), shift)])
    /\ UNCHANGED chart

\* Faulty: the bar is not remembered after a tick that exported everything.
ExportForgets ==
    /\ ExportMarketBar
    /\ UNCHANGED <<exported, repeats>>

ExportAll ==
    /\ ExportMarketBar
    /\ exported' = Len(chart)
    /\ UNCHANGED repeats

\* One of the other three files fails: the next tick exports the bar again.
ExportCutShort ==
    /\ repeats < MaxRepeats
    /\ ExportMarketBar
    /\ repeats' = repeats + 1
    /\ UNCHANGED exported

\* The terminal, the chart or its inputs: OnInit with a fresh g_last_exported_bar_time.
EaRestart ==
    /\ repeats < MaxRepeats
    /\ exported' = 0
    /\ repeats' = repeats + 1
    /\ UNCHANGED <<chart, rows>>

Next == BarCloses \/ ExportAll \/ ExportCutShort \/ EaRestart

Spec == Init /\ [][Next]_vars

(***************************************************************************)
(* What a cycle makes of the file                                          *)
(***************************************************************************)
\* validate_market_csv; the prices are those of the terminal.
Accepted(content) ==
    /\ content # <<>>
    /\ \A i \in 1 .. Len(content) - 1 : content[i].time < content[i + 1].time

\* normalize_market_csv: a bar per row.
BarsOf(content) == [i \in DOMAIN content |-> chart[content[i].bar]]

(***************************************************************************)
(* Properties                                                              *)
(***************************************************************************)
\* A bar has one row, and one more for each time its export was cut short or the EA was
\* started again; a file without such a repeat is accepted (SYSTEM_Export.mqh:45,
\* SYSTEM_EA.mq4:41).
RowsPerBar ==
    /\ Len(rows) <= Len(chart) + repeats
    /\ \A bar \in DOMAIN chart : Cardinality({i \in DOMAIN rows : rows[i].bar = bar}) <= 1 + repeats
    /\ repeats = 0 /\ rows # <<>> => Accepted(rows)

\* The chart upside down: prices mirrored in the first close, highs and lows exchanged.
Mirrored(bars) ==
    LET flip(price) == 2 * bars[1].close - price
    IN  [i \in DOMAIN bars |-> [open  |-> flip(bars[i].open), high |-> flip(bars[i].low),
                                low   |-> flip(bars[i].high), close |-> flip(bars[i].close)]]

\* How a market is decided, under every universe there may be.
Verdicts(bars) ==
    LET verdict(market) == [pass     |-> market.filters_pass,
                            decision |-> SystemDecision(market, TRUE)]
    IN  {verdict(MarketOf(bars, universe, TRUE)) : universe \in Universe}

Reversed(decision) == IF decision \in Side THEN Opposite(decision) ELSE decision

\* What is decided on a chart is the opposite of what is decided on the chart upside down,
\* under whatever universe lets the setups pass: no side is favoured, not in a tie either,
\* and context, behaviour and impact do not decide between them (candidate.py:56, scorer.py:41).
SidesMirror ==
    Accepted(rows) =>
        \A here \in Verdicts(BarsOf(rows)), there \in Verdicts(Mirrored(BarsOf(rows))) :
            here.pass = there.pass => there.decision = Reversed(here.decision)
=============================================================================
