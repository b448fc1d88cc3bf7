----------------------------- MODULE MCDailyLoss -----------------------------
(***************************************************************************)
(* RiskControl with a calendar, and what the repository's documents say of *)
(* the loss of a day, which the code does not keep.                        *)
(***************************************************************************)
EXTENDS RiskControl

CONSTANT MaxDays    \* bound on the days that pass

VARIABLES
    dayStart,    \* the balance that the status showed at the start of the day
    days         \* that have passed

dayVars == <<vars, dayStart, days>>

DayInit == Init /\ dayStart = InitialBalance /\ days = 0

DayPasses ==
    /\ days < MaxDays
    /\ days' = days + 1
    /\ dayStart' = status.balance
    /\ UNCHANGED vars

DayNext == DayPasses \/ (Next /\ UNCHANGED <<dayStart, days>>)

DaySpec == DayInit /\ [][DayNext]_dayVars

\* SYSTEM_SPECIFICATION, risk.max_daily_loss_percent: the limit on the loss of a
\* day, which is what the status that an OPEN is judged by shows of it.
\* day_start_balance is set once and never again, so from the second day on
\* the loss is measured from the balance of the first status ever read.
NoOpenPastDailyLoss ==
    [][trades' # trades => LossBelow(dayStart, status.equity, MaxDailyLoss)]_dayVars
=============================================================================
