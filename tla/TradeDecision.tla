---------------------------- MODULE TradeDecision ----------------------------
(***************************************************************************)
(* How a cycle comes to an OPEN: the decision engine, the precheck, the AI *)
(* layer, the risk engine and the order that follows, as functions of the  *)
(* market, the status, the saved risk metrics and the answer of the AI.    *)
(*                                                                         *)
(* Prices are whole points, equity is in whole units of account currency,  *)
(* limits are percentages.  The scores of the two sides are free inputs;   *)
(* context_quality multiplies both and leaves their order.  The three      *)
(* filters, which judge both sides alike, are one.                         *)
(***************************************************************************)
EXTENDS TradeManagement

CONSTANTS
    MaxOpenPositions,    \* risk.max_open_positions_per_instance
    MaxDailyLoss,        \* risk.max_daily_loss_percent
    MaxDrawdown,         \* risk.max_drawdown_percent
    MaxRiskPerTrade,     \* risk.max_risk_per_trade_percent
    MaxStopDistance,     \* risk.max_stop_loss_pips, in points
    RewardRatio,         \* risk.reward_ratio, a whole number here
    VolumeStep,          \* risk.volume_step, in units of the smallest lot
    PointValue,          \* what the sizing takes a point to be worth to such a unit
    StopLossBuffer,      \* analysis.stop_loss_buffer, in points
    AiMode, FailClosed, RejectAction   \* the ai section

\* open_position_count is 0 or 1, so a limit above 1 would never block.
ASSUME RiskAssumption ==
    /\ MaxOpenPositions \in 0..1
    /\ MaxDailyLoss \in Nat /\ MaxDrawdown \in 0..100
    /\ MaxRiskPerTrade \in 1..100
    /\ MaxStopDistance \in Nat \ {0} /\ RewardRatio \in Nat \ {0}
    /\ VolumeStep \in Nat \ {0} /\ PointValue \in Nat \ {0}
    /\ StopLossBuffer \in Nat

ASSUME AiAssumption ==
    /\ AiMode \in {"advisory", "required"} /\ FailClosed \in BOOLEAN
    /\ RejectAction \in {"BLOCK", "WAIT"}

(***************************************************************************)
(* The decision engine                                                     *)
(***************************************************************************)
\* The stop of a candidate lies beyond the swing level by the buffer.
CandidateStop(side, market) ==
    IF side = "BUY" THEN market.swing_low - StopLossBuffer
                    ELSE market.swing_high + StopLossBuffer

CandidateTarget(side, market) ==
    LET distance == Gain(side, market.close, CandidateStop(side, market))
    IN  IF side = "BUY" THEN market.close + distance * RewardRatio
                        ELSE market.close - distance * RewardRatio

CandidateValid(side, market) ==
    market.filters_pass /\ Beyond(side, market.close, CandidateStop(side, market))

Score(side, market) == IF side = "BUY" THEN market.buy_score ELSE market.sell_score

Opposite(side) == IF side = "BUY" THEN "SELL" ELSE "BUY"

\* compare_candidates: the only valid side, or the valid one that scores higher.
Preferred(side, market) ==
    /\ CandidateValid(side, market)
    /\ CandidateValid(Opposite(side), market) =>
         Score(side, market) > Score(Opposite(side), market)

SystemDecision(market, tradeable) ==
    IF ~tradeable THEN "BLOCK"
    ELSE IF Preferred("BUY", market) THEN "BUY"
    ELSE IF Preferred("SELL", market) THEN "SELL"
    ELSE "WAIT"

(***************************************************************************)
(* The risk rules                                                          *)
(***************************************************************************)
\* The loss from a reference, as a percentage, is below the limit.
LossBelow(reference, equity, limit) ==
    IF reference <= 0 \/ equity >= reference
      THEN limit > 0
      ELSE 100 * (reference - equity) < limit * reference

DailyLossAllows(metrics, status) ==
    LossBelow(metrics.day_start_balance, status.equity, MaxDailyLoss)

\* Faulty: the drawdown is measured from the balance.
DrawdownFromBalance(metrics, status) ==
    LossBelow(status.balance, status.equity, MaxDrawdown)

DrawdownAllows(metrics, status) ==
    LossBelow(IF metrics.peak_equity > 0 THEN metrics.peak_equity ELSE status.balance,
              status.equity, MaxDrawdown)

RulesAllow(metrics, status) ==
    /\ status.tradeable
    /\ (IF metrics.ticket # 0 THEN 1 ELSE 0) < MaxOpenPositions
    /\ DailyLossAllows(metrics, status)
    /\ DrawdownAllows(metrics, status)

(***************************************************************************)
(* The AI layer                                                            *)
(***************************************************************************)
\* What the layer said; allow_close is an input of ManagedPosition.
Answer == [bias : {"AVOID", "OTHER"}, allow_buy : BOOLEAN, allow_sell : BOOLEAN]

\* No answer: an API error, a timeout, a missing key or invalid JSON.
NoAnswer == [bias |-> "OTHER", allow_buy |-> FALSE, allow_sell |-> FALSE]
Query    == [kind : {"answered"}, answer : Answer] \cup
            [kind : {"missing", "skipped"}, answer : {NoAnswer}]

\* Faulty: the layer is not asked either when the account is below its peak.
AskAiUnlessDrawnDown(decision, metrics, status) ==
    decision \in Side =>
        RulesAllow(metrics, status) /\ status.equity >= metrics.peak_equity

\* should_call_ai_layer
AskAi(decision, metrics, status) == decision \in Side => RulesAllow(metrics, status)

AnswerAllows(side, answer) ==
    /\ answer.bias # "AVOID"
    /\ IF side = "BUY" THEN answer.allow_buy ELSE answer.allow_sell

\* apply_ai_advisory_decision
AfterAi(decision, query) ==
    IF query.kind = "skipped" THEN decision
    ELSE IF query.kind = "missing"
      THEN IF AiMode = "required" \/ FailClosed THEN "BLOCK" ELSE decision
    ELSE IF query.answer.bias = "AVOID" THEN "BLOCK"
    ELSE IF decision \in Side /\ ~AnswerAllows(decision, query.answer) THEN RejectAction
    ELSE decision

(***************************************************************************)
(* The risk engine and the order                                           *)
(***************************************************************************)
\* Faulty: the target is compared with the close alone.
LevelsValidAnyTarget(side, market) ==
    LET stop  == CandidateStop(side, market)
        swing == IF side = "BUY" THEN market.swing_low ELSE market.swing_high
    IN  /\ Beyond(side, market.close, stop)
        /\ swing > 0 => Beyond(side, swing, stop)
        /\ Gain(side, market.close, stop) <= MaxStopDistance
        /\ Beyond(side, CandidateTarget(side, market), market.close)

\* validate_sl_tp
LevelsValid(side, market) ==
    LET stop   == CandidateStop(side, market)
        target == CandidateTarget(side, market)
        swing  == IF side = "BUY" THEN market.swing_low ELSE market.swing_high
    IN  /\ Beyond(side, market.close, stop)
        /\ swing > 0 => Beyond(side, swing, stop)
        /\ Gain(side, market.close, stop) <= MaxStopDistance
        /\ target > 0
        /\ Beyond(side, target, market.close)

\* calculate_position_size, for a positive distance
VolumeFor(equity, distance) ==
    IF equity <= 0 THEN 0
    ELSE ((equity * MaxRiskPerTrade) \div (100 * distance * PointValue * VolumeStep)) * VolumeStep

RiskAllows(side, market, metrics, status) ==
    /\ RulesAllow(metrics, status)
    /\ CandidateValid(side, market)
    /\ LevelsValid(side, market)
    /\ VolumeFor(status.equity, Gain(side, market.close, CandidateStop(side, market))) > 0

\* run_instance_ai_risk_pipeline and build_order_command: an OPEN of this side.
Opens(side, market, query, metrics, status) ==
    /\ RiskAllows(side, market, metrics, status)
    /\ AfterAi(SystemDecision(market, status.tradeable), query) = side
=============================================================================
