--------------------------- MODULE MarketAnalysis ----------------------------
(***************************************************************************)
(* From the bars of a market file to what the two candidates are judged    *)
(* by: structure, momentum, pressure, behaviour, context, impact, the      *)
(* filters and the weighted scores.  TradeDecision takes it from there.    *)
(*                                                                         *)
(* A bar is a record of whole points, oldest first in a sequence.  A score *)
(* s of the code is Unit * s here, and ratios of the configuration are     *)
(* percentages.  A quotient of floats is rounded alike on both sides of    *)
(* zero, and so is one here; MarketFile says what Unit must be divided by. *)
(***************************************************************************)
EXTENDS TradeDecision, SequencesExt, FiniteSetsExt

CONSTANTS
    Unit,                  \* the score 1.0
    Weights,               \* analysis.weights, percentages
    LookbackBars,          \* analysis.lookback_bars
    VolatilityThreshold,   \* analysis.volatility_relative_threshold, percent
    BlockHighImpactNews    \* analysis.block_high_impact_news

ComponentKeys ==
    {"momentum", "trend", "structure", "pressure", "behavior", "impact", "context"}

ASSUME AnalysisAssumption ==
    /\ Unit \in Nat \ {0} /\ Unit % 20 = 0
    /\ Weights \in [ComponentKeys -> Nat]
    /\ LookbackBars \in Nat \ {0} /\ VolatilityThreshold \in Nat \ {0}
    /\ BlockHighImpactNews \in BOOLEAN

Universe == [regime : {"trending", "ranging", "volatile", "quiet"},
             news : BOOLEAN, impact : {"high", "other"}]

Size(x)           == IF x < 0 THEN -x ELSE x
Least(a, b)       == IF a < b THEN a ELSE b
Greatest(a, b)    == IF a > b THEN a ELSE b
Quotient(a, b)    == IF a < 0 THEN -((-a) \div b) ELSE a \div b
Clamp(x, lo, hi)  == Greatest(lo, Least(hi, x))
Total(f(_), bars) == FoldSeq(LAMBDA bar, sum : f(bar) + sum, 0, bars)
Count(P(_), bars) == Cardinality({i \in DOMAIN bars : P(bars[i])})

(***************************************************************************)
(* analyze_structure: the swings and the bias of the whole file.           *)
(***************************************************************************)
SwingHigh(bars) == IF bars = <<>> THEN 0 ELSE Max({bars[i].high : i \in DOMAIN bars})
SwingLow(bars)  == IF bars = <<>> THEN 0 ELSE Min({bars[i].low : i \in DOMAIN bars})

\* Faulty: a close back at the first one counts as a rise.
BiasOfFlat(bars) ==
    CASE bars # <<>> /\ Last(bars).close >= bars[1].close -> "BULLISH"
      [] bars # <<>> /\ Last(bars).close < bars[1].close -> "BEARISH"
      [] OTHER -> "NEUTRAL"

Bias(bars) ==
    CASE bars # <<>> /\ Last(bars).close > bars[1].close -> "BULLISH"
      [] bars # <<>> /\ Last(bars).close < bars[1].close -> "BEARISH"
      [] OTHER -> "NEUTRAL"

(***************************************************************************)
(* analyze_momentum_and_trend                                              *)
(***************************************************************************)
MomentumScore(bars) ==
    IF Len(bars) < 2 \/ bars[1].close = 0 THEN 0
    ELSE Clamp(Quotient(10 * Unit * (Last(bars).close - bars[1].close), bars[1].close),
               -Unit, Unit)

HigherHighs(bars) ==
    Len(bars) >= 2 /\ \A i \in 1 .. Len(bars) - 1 : bars[i + 1].high >= bars[i].high

LowerLows(bars) ==
    Len(bars) >= 2 /\ \A i \in 1 .. Len(bars) - 1 : bars[i + 1].low <= bars[i].low

Trend(bars) ==
    CASE HigherHighs(bars) /\ ~LowerLows(bars) -> "UP"
      [] LowerLows(bars) /\ ~HigherHighs(bars) -> "DOWN"
      [] OTHER -> "SIDEWAYS"

TrendStrength(bars) == Size(MomentumScore(bars))

(***************************************************************************)
(* The shape of a bar, analyze_pressure and analyze_behavior               *)
(***************************************************************************)
BarRange(bar)  == bar.high - bar.low
Body(bar)      == bar.close - bar.open
UpperWick(bar) == bar.high - Greatest(bar.open, bar.close)
LowerWick(bar) == Least(bar.open, bar.close) - bar.low

\* A body up and a long lower wick press to buy; what is left presses to sell.
BuyValue(bar) ==
    IF BarRange(bar) <= 0 THEN Unit \div 2
    ELSE Clamp(Unit \div 2 + Quotient(Unit * Body(bar), 2 * BarRange(bar))
                 + Quotient(Unit * (LowerWick(bar) - UpperWick(bar)), 10 * BarRange(bar)),
               0, Unit)

BuyPressure(bars) ==
    IF bars = <<>> THEN Unit \div 2 ELSE Total(BuyValue, bars) \div Len(bars)

SellPressure(bars) == Unit - BuyPressure(bars)

Indecisive(bar) == 100 * Size(Body(bar)) <= 15 * BarRange(bar)

\* Net direction of the bodies, less the bars that show none.
BehaviorScore(bars) ==
    IF bars = <<>> THEN Unit \div 2
    ELSE LET Bullish(bar) == Body(bar) > 0
             Bearish(bar) == Body(bar) < 0
             edge == Size(Count(Bullish, bars) - Count(Bearish, bars))
         IN  Clamp(Unit \div 2 + (Unit * edge) \div (2 * Len(bars))
                     - (3 * Unit * Count(Indecisive, bars)) \div (10 * Len(bars)),
                   0, Unit)

(***************************************************************************)
(* Context, impact, filters                                                *)
(***************************************************************************)
ContextQuality(bars, universe) ==
    (Unit * CASE universe.news -> 2
              [] ~universe.news /\ bars = <<>> -> 4
              [] ~universe.news /\ bars # <<>> /\ universe.regime = "trending" -> 9
              [] ~universe.news /\ bars # <<>> /\ universe.regime = "ranging" -> 6
              [] ~universe.news /\ bars # <<>> /\ universe.regime = "quiet" -> 5
              [] OTHER -> 3) \div 10

Alignment(bars) ==
    CASE <<Bias(bars), Trend(bars)>> \in {<<"BULLISH", "UP">>, <<"BEARISH", "DOWN">>} -> Unit
      [] Bias(bars) = "NEUTRAL" \/ Trend(bars) = "SIDEWAYS" -> Unit \div 2
      [] OTHER -> 0

ImpactScore(bars, universe) ==
    Clamp((5 * ContextQuality(bars, universe)
             + 4 * Alignment(bars)
             + 2 * (MomentumScore(bars) + Unit)
             + 4 * BehaviorScore(bars)
             + 3 * (Unit - Least(Unit, Size(BuyPressure(bars) - SellPressure(bars))))) \div 20,
          0, Unit)

\* The first bar of a file has no close before it.
TrueRange(bars, i) ==
    IF i = 1 THEN BarRange(bars[1])
    ELSE Max({BarRange(bars[i]), Size(bars[i].high - bars[i - 1].close),
              Size(bars[i].low - bars[i - 1].close)})

\* calculate_relative_volatility within the threshold.
VolatilityAcceptable(bars) ==
    LET window == {i \in DOMAIN bars : i + LookbackBars > Len(bars)}
        sum    == MapThenSumSet(LAMBDA i : TrueRange(bars, i), window)
    IN  bars # <<>> =>
          100 * TrueRange(bars, Len(bars)) * Cardinality(window) <= VolatilityThreshold * sum

NewsAcceptable(universe) ==
    ~(BlockHighImpactNews /\ universe.news /\ universe.impact = "high")

FiltersPass(bars, universe, spreadAcceptable) ==
    spreadAcceptable /\ VolatilityAcceptable(bars) /\ NewsAcceptable(universe) /\ bars # <<>>

(***************************************************************************)
(* The weighted scores of the two sides                                    *)
(***************************************************************************)
ComponentScores(side, bars, universe) ==
    [momentum  |-> (Unit + (IF side = "BUY" THEN 1 ELSE -1) * MomentumScore(bars)) \div 2,
     trend     |-> CASE Trend(bars) = "SIDEWAYS" -> Unit \div 2
                     [] Trend(bars) = (IF side = "BUY" THEN "UP" ELSE "DOWN") ->
                          TrendStrength(bars)
                     [] OTHER -> Unit - TrendStrength(bars),
     structure |-> CASE Bias(bars) = "NEUTRAL" -> Unit \div 2
                     [] Bias(bars) = (IF side = "BUY" THEN "BULLISH" ELSE "BEARISH") -> Unit
                     [] OTHER -> 0,
     pressure  |-> IF side = "BUY" THEN BuyPressure(bars) ELSE SellPressure(bars),
     behavior  |-> BehaviorScore(bars),
     impact    |-> ImpactScore(bars, universe),
     context   |-> ContextQuality(bars, universe)]

\* calculate_weighted_score times the total of the weights, which both sides share.
WeightedScore(side, bars, universe) ==
    LET scores == ComponentScores(side, bars, universe)
    IN  MapThenSumSet(LAMBDA k : scores[k] * Weights[k], ComponentKeys)

\* What TradeDecision is told of a market file, a universe and a spread verdict.
MarketOf(bars, universe, spreadAcceptable) ==
    [close        |-> IF bars = <<>> THEN 0 ELSE Last(bars).close,
     swing_low    |-> SwingLow(bars),
     swing_high   |-> SwingHigh(bars),
     filters_pass |-> FiltersPass(bars, universe, spreadAcceptable),
     buy_score    |-> WeightedScore("BUY", bars, universe),
     sell_score   |-> WeightedScore("SELL", bars, universe)]
=============================================================================
