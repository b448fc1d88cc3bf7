--------------------------- MODULE ManagedPosition ---------------------------
(***************************************************************************)
(* The life of one open position under trade management: the terminal that *)
(* holds it, the belief of the instance, the status file between them and  *)
(* the commands that Python sends.  It starts after the ack of the OPEN.   *)
(*                                                                         *)
(* Every cycle sees a price and a swing level of its own.  The channel is  *)
(* what ExecutionChannel shows it to be, in fewer steps: the EA answers    *)
(* every command, NONE included; the ack of a command that Python does not *)
(* wait for ends the next wait with an exception.  No other position is    *)
(* opened here and the process does not stop.  The terminal, which is      *)
(* external, is taken to leave the ticket with the rest of a position that *)
(* is closed in part, as the EA and Python assume.  Where it gives the     *)
(* rest a new ticket, the belief ends with the next status, and a later    *)
(* one is adopted as a new position.                                       *)
(***************************************************************************)
EXTENDS TradeManagement

CONSTANTS
    PositionSide, Entry, InitialStop, Target, FullVolume,   \* the position
    BreakevenProgress, PartialProgress, PartialShare,       \* percentages
    TrailingBuffer, VolumeStep, TimeStopBars,
    MaxPrice,        \* bound on prices and swing levels
    MaxBarCount,     \* bound on counted bars
    MaxTimeouts,     \* commands whose ack is late
    MaxRefusals,     \* commands that the terminal does not carry out
    MaxHeld,         \* cycles that the AI layer or the cycle timeout holds back
    MaxExternal      \* stop loss, take profit or a close by hand

Price  == 1..MaxPrice
Volume == 0..FullVolume

Config ==
    [breakeven_progress_ratio |-> BreakevenProgress,
     partial_close_progress_ratio |-> PartialProgress,
     partial_close_volume_ratio |-> PartialShare,
     trailing_buffer |-> TrailingBuffer, volume_step |-> VolumeStep,
     time_stop_max_bars |-> TimeStopBars]

ASSUME PositionAssumption ==
    /\ PositionSide \in Side
    /\ Entry \in Int /\ InitialStop \in Int /\ Target \in Int
    /\ Beyond(PositionSide, Entry, InitialStop) /\ Beyond(PositionSide, Target, Entry)
    /\ FullVolume \in Nat \ {0}
    /\ BreakevenProgress \in 1..100 /\ PartialProgress \in 1..100 /\ PartialShare \in 1..100
    /\ TrailingBuffer \in Nat /\ VolumeStep \in Nat \ {0} /\ TimeStopBars \in Nat \ {0}

ASSUME BoundAssumption ==
    /\ MaxPrice \in Nat
    /\ MaxBarCount \in Nat /\ MaxBarCount > TimeStopBars
    /\ MaxTimeouts \in Nat /\ MaxRefusals \in Nat /\ MaxHeld \in Nat /\ MaxExternal \in Nat

\* The position as the terminal and the status file have it; volume 0: closed.
Holding == [stop : Int, volume : Volume]

\* The position fields of InstanceState.
Belief == [open : BOOLEAN, stop : Int, volume : Volume, bars : 0..MaxBarCount,
           partial_close_applied : BOOLEAN]
NoPosition == [open |-> FALSE, stop |-> 0, volume |-> 0, bars |-> 0,
               partial_close_applied |-> FALSE]

Order  == [action : {"NONE", "MODIFY", "CLOSE"}, stop : Int, volume : Volume]
Absent == [action |-> "ABSENT", stop |-> 0, volume |-> 0]

VARIABLES
    terminal, status,     \* what the terminal holds, what was exported last
    saved, belief,        \* the InstanceState on disk and in the cycle
    awaiting,             \* the command whose ack Python waits for
    offered,              \* the control file, while the EA has not processed it
    late,                 \* a command the EA works on that Python has given up
    ack,                  \* the ack file: of the awaited command, or an old one
    timeouts, refusals, held, external

vars == <<terminal, status, saved, belief, awaiting, offered, late, ack,
          timeouts, refusals, held, external>>
books   == <<saved, belief, awaiting>>
channel == <<offered, late, ack>>

Init ==
    /\ terminal = [stop |-> InitialStop, volume |-> FullVolume]
    /\ status \in {terminal, [stop |-> 0, volume |-> 0]}
    /\ saved = [open |-> TRUE, stop |-> InitialStop, volume |-> FullVolume, bars |-> 1,
                partial_close_applied |-> FALSE]
    /\ belief = saved
    /\ awaiting = Absent /\ offered = Absent /\ late = Absent
    /\ ack = "none"
    /\ timeouts = 0 /\ refusals = 0 /\ held = 0 /\ external = 0

(***************************************************************************)
(* InstanceState                                                           *)
(***************************************************************************)
Capped(n) == IF n < MaxBarCount THEN n ELSE MaxBarCount

\* update_position from a status position
Adopted(st) == [open |-> TRUE, stop |-> st.stop, volume |-> st.volume, bars |-> 1,
                partial_close_applied |-> FALSE]

Reduced(b, volume) ==
    IF b.volume <= volume THEN NoPosition
    ELSE [b EXCEPT !.volume = @ - volume, !.partial_close_applied = TRUE]

\* Faulty: the closed volume has the wrong sign.
ReconciledSwapped(b, st) ==
    IF st.volume = 0 THEN NoPosition
    ELSE IF ~b.open \/ st.volume > b.volume THEN Adopted(st)
    ELSE IF st.volume < b.volume THEN Reduced(b, st.volume - b.volume)
    ELSE [b EXCEPT !.stop = st.stop]

\* reconcile_position_with_status: a smaller volume leaves the levels for the
\* next cycle; levels are taken over only at the same volume.
Reconciled(b, st) ==
    IF st.volume = 0 THEN NoPosition
    ELSE IF ~b.open \/ st.volume > b.volume THEN Adopted(st)
    ELSE IF st.volume < b.volume THEN Reduced(b, b.volume - st.volume)
    ELSE [b EXCEPT !.stop = st.stop]

BarCounted(b) == IF b.open THEN [b EXCEPT !.bars = Capped(@ + 1)] ELSE b

\* apply_ack_to_instance_state after SUCCESS
ApplyAck(b, order) ==
    IF order.action = "MODIFY" THEN [b EXCEPT !.stop = order.stop]
    ELSE IF order.volume < b.volume THEN Reduced(b, order.volume) ELSE NoPosition

OpenPosition(b) ==
    [side |-> PositionSide, entry |-> Entry, stop |-> b.stop, target |-> Target,
     volume |-> b.volume, bars |-> b.bars, partial_close_applied |-> b.partial_close_applied]

(***************************************************************************)
(* Python                                                                  *)
(***************************************************************************)
Idle(b) == saved' = b /\ belief' = b /\ awaiting' = Absent

\* The cycle up to the wait: load, reconcile, count the bar, evaluate, publish.
\* A NONE command is published and not waited for.
Manage ==
    /\ awaiting = Absent
    /\ \E price \in Price, swing \in 0..MaxPrice, allowClose \in BOOLEAN :
          LET b == BarCounted(Reconciled(saved, status))
              order == IF b.open THEN Evaluate(OpenPosition(b), price, swing, allowClose, Config)
                                 ELSE NoAction
          IN  /\ allowClose \/ held < MaxHeld
              /\ held' = IF allowClose THEN held ELSE held + 1
              /\ offered' = order
              /\ IF order.action = "NONE"
                   THEN Idle(b)
                   ELSE belief' = b /\ awaiting' = order /\ UNCHANGED saved
    /\ UNCHANGED <<terminal, status, late, ack, timeouts, refusals, external>>

\* The cycle runs out of time before management, or between it and execution.
CycleTimesOut ==
    /\ awaiting = Absent
    /\ held < MaxHeld
    /\ held' = held + 1
    /\ Idle(Reconciled(saved, status)) \/ Idle(BarCounted(Reconciled(saved, status)))
    /\ UNCHANGED <<terminal, status, channel, timeouts, refusals, external>>

AckArrives ==
    /\ awaiting # Absent
    /\ ack \in {"SUCCESS", "FAILED"}
    /\ Idle(IF ack = "SUCCESS" THEN ApplyAck(belief, awaiting) ELSE belief)
    /\ ack' = "none" /\ offered' = Absent
    /\ UNCHANGED <<terminal, status, late, timeouts, refusals, held, external>>

\* The ack of another command ends the wait: nothing of the cycle is saved, and
\* the control file stays.
WaitRaises ==
    /\ awaiting # Absent
    /\ ack = "old"
    /\ Idle(saved)
    /\ UNCHANGED <<terminal, status, channel, timeouts, refusals, held, external>>

(***************************************************************************)
(* The EA and the terminal                                                 *)
(***************************************************************************)
\* A ticket that is closed or smaller is refused, any trade may be.
CarriesOut(order, verdict) ==
    \/ /\ order.action = "NONE" /\ verdict = "SUCCESS"
       /\ UNCHANGED <<terminal, refusals>>
    \/ /\ order.action = "MODIFY" /\ verdict = "SUCCESS"
       /\ terminal.volume > 0
       /\ terminal' = [terminal EXCEPT !.stop = order.stop]
       /\ UNCHANGED refusals
    \/ /\ order.action = "CLOSE" /\ verdict = "SUCCESS"
       /\ terminal.volume >= order.volume
       /\ terminal' = [terminal EXCEPT !.volume = @ - order.volume]
       /\ UNCHANGED refusals
    \/ /\ order.action # "NONE" /\ verdict = "FAILED"
       /\ UNCHANGED terminal
       /\ IF terminal.volume = 0 \/ terminal.volume < order.volume
            THEN UNCHANGED refusals
            ELSE refusals < MaxRefusals /\ refusals' = refusals + 1

\* The ack answers the command Python waits for, if it waits.
EaExecutes ==
    /\ offered # Absent /\ late = Absent
    /\ \E verdict \in {"SUCCESS", "FAILED"} :
          /\ CarriesOut(offered, verdict)
          /\ ack' = IF awaiting = Absent THEN "old" ELSE verdict
    /\ offered' = Absent
    /\ UNCHANGED <<status, books, late, timeouts, held, external>>

\* The EA has read a command that Python no longer waits for, which may be
\* replaced in the control file while the EA works on it.
EaTakesAbandoned ==
    /\ awaiting = Absent /\ offered # Absent /\ late = Absent
    /\ late' = offered /\ offered' = Absent
    /\ UNCHANGED <<terminal, status, books, ack, timeouts, refusals, held, external>>

EaFinishesLate ==
    /\ late # Absent
    /\ \E verdict \in {"SUCCESS", "FAILED"} : CarriesOut(late, verdict)
    /\ late' = Absent
    /\ ack' = "old"
    /\ UNCHANGED <<status, books, offered, timeouts, held, external>>

\* No ack at the last poll.  The command is withdrawn unread, or the EA is
\* working on it, or its ack comes just before the files are archived.
AckTimesOut ==
    /\ awaiting # Absent
    /\ ack = "none"
    /\ timeouts < MaxTimeouts
    /\ timeouts' = timeouts + 1
    /\ Idle(belief)
    /\ offered' = Absent
    /\ \/ UNCHANGED <<terminal, refusals, late>>
       \/ late = Absent /\ late' = offered /\ UNCHANGED <<terminal, refusals>>
       \/ /\ late = Absent /\ offered # Absent /\ UNCHANGED late
          /\ \E verdict \in {"SUCCESS", "FAILED"} : CarriesOut(offered, verdict)
    /\ UNCHANGED <<status, ack, held, external>>

\* A new M1 bar exports the status.
NewBar ==
    /\ status' = terminal
    /\ UNCHANGED <<terminal, books, channel, timeouts, refusals, held, external>>

ExternalClose ==
    /\ terminal.volume > 0
    /\ external < MaxExternal
    /\ external' = external + 1
    /\ terminal' = [terminal EXCEPT !.volume = 0]
    /\ UNCHANGED <<status, books, channel, timeouts, refusals, held>>

Python == Manage \/ CycleTimesOut \/ AckArrives \/ WaitRaises \/ AckTimesOut
Ea     == EaExecutes \/ EaTakesAbandoned \/ EaFinishesLate

Next == Python \/ Ea \/ NewBar \/ ExternalClose

Spec == Init /\ [][Next]_vars

\* Cycles, ticks and M1 bars go on.
FairSpec == Spec /\ WF_vars(Python) /\ WF_vars(Ea) /\ WF_vars(NewBar)

-----------------------------------------------------------------------------
\* Every variable keeps its type; in particular the terminal never holds a
\* negative volume, and the books never believe in one.
TypeOK ==
    /\ terminal \in Holding /\ status \in Holding
    /\ saved \in Belief /\ belief \in Belief
    /\ awaiting \in Order \cup {Absent}
    /\ offered \in Order \cup {Absent} /\ late \in Order \cup {Absent}
    /\ ack \in {"none", "old", "SUCCESS", "FAILED"}
    /\ timeouts \in 0..MaxTimeouts /\ refusals \in 0..MaxRefusals
    /\ held \in 0..MaxHeld /\ external \in 0..MaxExternal

AtLeastInitial(stop) == stop = InitialStop \/ Beyond(PositionSide, stop, InitialStop)

\* The stop of the terminal is never behind the one the position was opened with.
InitialRiskKept == AtLeastInitial(terminal.stop)

\* However stale the belief a command was computed from and however late it is
\* carried out, the terminal manages the position as PositionLife promises: no part
\* comes back, and the risk taken at the open never grows.
Held == [side |-> PositionSide, entry |-> Entry, initial_stop |-> InitialStop,
         target |-> Target, stop |-> terminal.stop, volume |-> terminal.volume]
Life == INSTANCE PositionLife WITH held <- Held

ImplementsLife == Life!LifeSpec

\* A position that has reached its time stop is closed in the end.
TimeStopCloses ==
    (saved.open /\ saved.bars >= TimeStopBars) ~> terminal.volume = 0
=============================================================================
