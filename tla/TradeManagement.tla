--------------------------- MODULE TradeManagement ---------------------------
(***************************************************************************)
(* evaluate_trade_management: what is to be done with an open position,    *)
(* given a price and the swing levels of the last M1 bars.                 *)
(*                                                                         *)
(* Prices are whole points and volumes whole units of the smallest lot, so *)
(* rounding to digits is exact.  The ratios of the configuration are       *)
(* percentages; a ratio or a time stop of 0 switches its rule off.         *)
(***************************************************************************)
EXTENDS Integers

Side == {"BUY", "SELL"}

\* For a position of this side, level a lies further into profit than level b.
Beyond(side, a, b) == IF side = "BUY" THEN a > b ELSE a < b

\* How far a lies beyond b.
Gain(side, a, b) == IF side = "BUY" THEN a - b ELSE b - a

NoAction                 == [action |-> "NONE", stop |-> 0, volume |-> 0]
MoveStop(level)          == [action |-> "MODIFY", stop |-> level, volume |-> 0]
CloseVolume(volume)      == [action |-> "CLOSE", stop |-> 0, volume |-> volume]

\* compute_progress_to_take_profit compared with a ratio of at most 100.
ProgressReaches(p, price, percent) ==
    /\ percent > 0
    /\ Gain(p.side, p.target, p.entry) > 0
    /\ Gain(p.side, price, p.entry) * 100 >= percent * Gain(p.side, p.target, p.entry)

\* Faulty: the stop fires at one count of bars only.
TimeStopOnce(p, config) == p.bars = config.time_stop_max_bars

TimeStopDue(p, config) == config.time_stop_max_bars > 0 /\ p.bars >= config.time_stop_max_bars

\* normalize_volume_to_step of the part to close.
PartialVolume(p, config) ==
    ((p.volume * config.partial_close_volume_ratio) \div (100 * config.volume_step))
      * config.volume_step

PartialCloseDue(p, price, config) ==
    /\ ~p.partial_close_applied
    /\ ProgressReaches(p, price, config.partial_close_progress_ratio)
    /\ PartialVolume(p, config) > 0
    /\ PartialVolume(p, config) < p.volume

\* The swing low less the buffer for BUY, the swing high plus it for SELL.
TrailingLevel(p, swing, config) ==
    IF p.side = "BUY" THEN swing - config.trailing_buffer ELSE swing + config.trailing_buffer

\* Faulty: the level is not compared with the stop that is set.
TrailingAnyway(p, price, swing, config) ==
    /\ swing > 0
    /\ Beyond(p.side, price, TrailingLevel(p, swing, config))

TrailingDue(p, price, swing, config) ==
    /\ swing > 0
    /\ Beyond(p.side, TrailingLevel(p, swing, config), p.stop)
    /\ Beyond(p.side, price, TrailingLevel(p, swing, config))

BreakevenDue(p, price, config) ==
    /\ ProgressReaches(p, price, config.breakeven_progress_ratio)
    /\ Beyond(p.side, p.entry, p.stop)
    /\ Beyond(p.side, price, p.entry)

\* _gate_close_action: the AI layer may forbid a close.
Gate(result, allowClose) == IF allowClose THEN result ELSE NoAction

\* A close that is due and forbidden leaves the stop alone as well.
Evaluate(p, price, swing, allowClose, config) ==
    IF TimeStopDue(p, config)
      THEN Gate(CloseVolume(p.volume), allowClose)
    ELSE IF PartialCloseDue(p, price, config)
      THEN Gate(CloseVolume(PartialVolume(p, config)), allowClose)
    ELSE IF TrailingDue(p, price, swing, config)
      THEN MoveStop(TrailingLevel(p, swing, config))
    ELSE IF BreakevenDue(p, price, config)
      THEN MoveStop(p.entry)
    ELSE NoAction
=============================================================================
