----------------------------- MODULE SpreadModel -----------------------------
(***************************************************************************)
(* The dynamic spread of an instance: its history of samples, the record   *)
(* that is persisted of it, and the filter that compares a spread with it. *)
(*                                                                         *)
(* Spreads are whole points.  The deviation of a sample from the mean, in  *)
(* standard deviations, is compared with the threshold exactly: with n     *)
(* samples, both sides are multiplied by n and squared.                    *)
(***************************************************************************)
EXTENDS Integers, SequencesExt

CONSTANTS
    LookbackBars,        \* analysis.lookback_bars
    SpreadThreshold      \* analysis.spread_relative_threshold, a percentage

ASSUME SpreadAssumption == LookbackBars \in Nat \ {0} /\ SpreadThreshold \in Nat

Total(history)   == FoldSeq(LAMBDA x, sum : sum + x, 0, history)
Squares(history) == FoldSeq(LAMBDA x, sum : sum + x * x, 0, history)

\* n * (current_spread - mean_spread), and (n * std_spread)^2.
Deviation(history) == Len(history) * Last(history) - Total(history)
Variance(history)  == Len(history) * Squares(history) - Total(history) * Total(history)

\* The filter accepts the last sample: relative_spread is at most the threshold.
\* Without dispersion it is 1 for the first sample and 0 for a later one.
Acceptable(history) ==
    \/ Len(history) < 2 /\ SpreadThreshold >= 100
    \/ Len(history) >= 2 /\ Deviation(history) <= 0
    \/ /\ Len(history) >= 2
       /\ 10000 * Deviation(history) * Deviation(history)
            <= SpreadThreshold * SpreadThreshold * Variance(history)

\* Faulty: nothing leaves the history.
UpdatedWithoutLimit(history, spread) == Append(history, spread)

\* update_spread_model: the latest samples, as many as the lookback.
Updated(history, spread) ==
    LET combined == Append(history, spread)
        surplus  == IF Len(combined) > LookbackBars THEN Len(combined) - LookbackBars ELSE 0
    IN  SubSeq(combined, surplus + 1, Len(combined))

\* The SpreadStateRecord; a count of 0: there is none.
SpreadRecord == [sample_count : 0..LookbackBars, current_spread : Nat, acceptable : BOOLEAN]
NoRecord     == [sample_count |-> 0, current_spread |-> 0, acceptable |-> TRUE]

RecordOf(history) ==
    [sample_count |-> Len(history), current_spread |-> Last(history),
     acceptable |-> Acceptable(history)]

\* spread_snapshot_from_record: as many samples as there were, all like the last.
FromRecord(record) == [n \in 1..record.sample_count |-> record.current_spread]
=============================================================================
