-------------------------- MODULE ExecutionChannel --------------------------
(***************************************************************************)
(* One trading instance: the Python cycle and execution engine, startup    *)
(* recovery, the MetaTrader expert advisor (EA), and the three files they  *)
(* share: control_*.json, ack_*.json and status_*.json.                    *)
(*                                                                         *)
(* Python keeps its position belief in an InstanceState that every cycle   *)
(* reloads from disk and saves at its end.  The EA polls the control file  *)
(* on ticks and exports the status file on a new M1 bar, so status may be  *)
(* older than commands the EA has already carried out.                     *)
(*                                                                         *)
(* Abstracted: side, prices and the SL/TP levels (MODIFY changes nothing   *)
(* that is left), the text of files, and the half-written state of a file  *)
(* (a write is one step).  Volumes are 1..FullVolume lots.                 *)
(***************************************************************************)
EXTENDS Naturals, FiniteSets

CONSTANTS
    MaxCommands,        \* bound on command ids (uuid4 in the code)
    MaxTickets,         \* bound on the tickets the terminal hands out
    FullVolume,         \* the volume of every OPEN
    MaxCrashes,         \* Python process kills
    MaxIoErrors,        \* exceptions that end a cycle in the middle
    MaxEaRestarts,      \* EA or terminal restarts
    MaxAckFailures,     \* SYSTEM_WriteAck calls that return false
    MaxExternalCloses,  \* positions closed by SL, TP or by hand
    MaxFaults           \* bound on all of these together

ASSUME ConstantsAssumption ==
    /\ MaxCommands \in Nat /\ MaxTickets \in Nat
    /\ FullVolume \in Nat \ {0}
    /\ MaxCrashes \in Nat /\ MaxIoErrors \in Nat
    /\ MaxEaRestarts \in Nat /\ MaxAckFailures \in Nat
    /\ MaxExternalCloses \in Nat /\ MaxFaults \in Nat

(***************************************************************************)
(* Values                                                                  *)
(***************************************************************************)
NoCommand  == 0
NoTicket   == 0
Command    == 1..MaxCommands
Ticket     == 1..MaxTickets
Volume     == 0..FullVolume
AckStatus  == {"SUCCESS", "FAILED", "REJECTED"}
Verdict    == AckStatus \cup {"TIMEOUT"}
Action     == {"OPEN", "MODIFY", "CLOSE", "NONE"}

\* An OrderCommand, and the control file that carries it.
Order   == [id : Command \cup {NoCommand}, action : Action,
            ticket : Ticket \cup {NoTicket}, volume : Volume]
NoOrder == [id |-> NoCommand, action |-> "NONE", ticket |-> NoTicket, volume |-> 0]

\* An AckRecord.
Ack   == [id : Command \cup {NoCommand}, status : AckStatus,
          ticket : Ticket \cup {NoTicket}]
NoAck == [id |-> NoCommand, status |-> "REJECTED", ticket |-> NoTicket]

\* The part of InstanceState that the channel reads or writes.
InstanceState ==
    [open_ticket : Ticket \cup {NoTicket}, position_volume : Volume,
     partial_close_applied : BOOLEAN,
     last_command_id : Command \cup {NoCommand}, last_ack_status : Verdict \cup {""}]
BlankState ==
    [open_ticket |-> NoTicket, position_volume |-> 0, partial_close_applied |-> FALSE,
     last_command_id |-> NoCommand, last_ack_status |-> ""]

\* The first open_positions entry of the instance in the status file.
Status   == [exported : BOOLEAN, ticket : Ticket \cup {NoTicket}, volume : Volume]
NoStatus == [exported |-> FALSE, ticket |-> NoTicket, volume |-> 0]

VARIABLES
    \* shared files
    control, ack, status,
    \* Python: the saved and the in-memory InstanceState, the command being
    \* executed, the point reached in the cycle, and the next fresh command id
    disk, mem, order, pc, nextCommand,
    \* the trade journal: the line of each command, the tickets with an
    \* external-close line
    journal, closeLog,
    \* EA: the command read but not yet acknowledged, the ack computed for it,
    \* g_last_processed_command_id
    eaOrder, eaAck, eaLast,
    \* terminal: open volume per ticket, the next ticket
    positions, nextTicket,
    \* faults so far
    crashes, ioErrors, eaRestarts, ackFailures, externalCloses,
    \* history: the order published under each id, the acks of its executions,
    \* the executions of a command that had been carried out before
    issued, outcome, repeats

files    == <<control, ack, status>>
python   == <<disk, mem, order, pc, nextCommand>>
journals == <<journal, closeLog>>
ea       == <<eaOrder, eaAck, eaLast>>
terminal == <<positions, nextTicket>>
faults   == <<crashes, ioErrors, eaRestarts, ackFailures, externalCloses>>
history  == <<issued, outcome, repeats>>
vars     == <<files, python, journals, ea, terminal, faults, history>>

CyclePc    == {"decided", "published", "waiting", "recordAck", "ackControl",
               "ackAck", "timeoutControl", "timeoutAck", "recordTimeout", "save"}
RecoveryPc == {"recoverControl", "recoverAck", "recoverSync", "recoverSave"}
Pc         == CyclePc \cup RecoveryPc \cup {"idle", "down"}

Init ==
    /\ control = NoOrder /\ ack = NoAck /\ status = NoStatus
    /\ disk = BlankState /\ mem = BlankState /\ order = NoOrder
    /\ pc = "down" /\ nextCommand = 1
    /\ journal = [c \in Command |-> "ABSENT"] /\ closeLog = {}
    /\ eaOrder = NoOrder /\ eaAck = NoAck /\ eaLast = NoCommand
    /\ positions = [t \in Ticket |-> 0] /\ nextTicket = 1
    /\ crashes = 0 /\ ioErrors = 0 /\ eaRestarts = 0
    /\ ackFailures = 0 /\ externalCloses = 0
    /\ issued = [c \in Command |-> NoOrder]
    /\ outcome = [c \in Command |-> {}]
    /\ repeats = 0

(***************************************************************************)
(* InstanceState operations                                                *)
(***************************************************************************)
UpdateExecution(state, id, verdict) ==
    [state EXCEPT !.last_command_id = id, !.last_ack_status = verdict]

UpdatePosition(state, ticket, volume) ==
    [state EXCEPT !.open_ticket = ticket, !.position_volume = volume,
                  !.partial_close_applied = FALSE]

ClearPosition(state) == UpdatePosition(state, NoTicket, 0)

ReducePosition(state, volume) ==
    IF state.position_volume <= volume
      THEN ClearPosition(state)
      ELSE [state EXCEPT !.position_volume = @ - volume, !.partial_close_applied = TRUE]

\* apply_ack_to_instance_state: the belief after the ack a of the order o.
ApplyAck(state, o, a) ==
    LET confirmed == UpdateExecution(state, a.id, a.status)
    IN  IF a.status # "SUCCESS" THEN confirmed
        ELSE IF o.action = "OPEN" /\ a.ticket # NoTicket
               THEN UpdatePosition(confirmed, a.ticket, o.volume)
        ELSE IF o.action = "CLOSE"
               THEN IF o.volume < state.position_volume
                      THEN ReducePosition(confirmed, o.volume)
                      ELSE ClearPosition(confirmed)
        ELSE confirmed

(***************************************************************************)
(* reconcile_position_with_status: status wins over the belief, except     *)
(* that a different ticket is only adopted one reconciliation later.       *)
(***************************************************************************)
LostInStatus(state, st) ==
    state.open_ticket # NoTicket /\ state.open_ticket # st.ticket

\* A faulty variant for the runs: a status position unknown to Python is ignored.
ReconcileNeverAdopts(state, st) ==
    IF LostInStatus(state, st) THEN ClearPosition(state)
    ELSE IF state.open_ticket # NoTicket /\ st.volume < state.position_volume
           THEN ReducePosition(state, state.position_volume - st.volume)
    ELSE state

Reconcile(state, st) ==
    IF LostInStatus(state, st) THEN ClearPosition(state)
    ELSE IF state.open_ticket = NoTicket /\ st.ticket # NoTicket
           THEN UpdatePosition(state, st.ticket, st.volume)
    ELSE IF st.volume < state.position_volume
           THEN ReducePosition(state, state.position_volume - st.volume)
    ELSE IF st.volume > state.position_volume
           THEN UpdatePosition(state, st.ticket, st.volume)
    ELSE state

LogExternalClose(state, st) ==
    closeLog' = IF LostInStatus(state, st) THEN closeLog \cup {state.open_ticket} ELSE closeLog

(***************************************************************************)
(* Guards of the execution engine and of recovery                          *)
(***************************************************************************)
\* Faulty: any ack in the file is taken for the awaited one.
AckMatchesAny(a, o) == a.id # NoCommand

AckMatches(a, o) == a.id = o.id

Unconfirmed(state, ctl) ==
    /\ ctl # NoOrder
    /\ ~(state.last_command_id = ctl.id /\ state.last_ack_status \in Verdict)
    /\ ctl.action # "NONE"

RepublishAllowed(state, ctl, id) ==
    \/ ~Unconfirmed(state, ctl)
    \/ /\ ctl.id # id
       /\ state.last_command_id # ctl.id \/ state.last_ack_status \in Verdict

(***************************************************************************)
(* resolve_order_command: what decision, risk and trade management can ask *)
(* for, given the belief.  A position blocks OPEN (the position limit of   *)
(* the risk rules counts the belief, and is one); MODIFY and CLOSE need    *)
(* the believed ticket; a partial close needs partial_close_applied unset. *)
(***************************************************************************)
\* Faulty: a command that timed out is sent again under its old id.
ProposalsRetryTimeouts(state, id) ==
    LET Reused == IF state.last_ack_status = "TIMEOUT" THEN state.last_command_id ELSE id
    IN  {[id |-> Reused, action |-> "OPEN", ticket |-> NoTicket, volume |-> FullVolume]}

Proposals(state, id) ==
    LET Trade(action, volume) ==
            [id |-> id, action |-> action, ticket |-> state.open_ticket, volume |-> volume]
    IN  {[NoOrder EXCEPT !.id = id]}
        \cup (IF state.open_ticket = NoTicket
                THEN {Trade("OPEN", FullVolume)}
                ELSE {Trade("MODIFY", 0), Trade("CLOSE", state.position_volume)}
                     \cup {Trade("CLOSE", v) : v \in
                            {w \in 1..(state.position_volume - 1) : ~state.partial_close_applied}})

(***************************************************************************)
(* The Python cycle of the instance                                        *)
(***************************************************************************)
Goto(target) == pc' = target

\* run_instance_cycle up to the decision: reload the saved state and bring it
\* in line with the status file.  Without a status file loading fails and the
\* cycle changes nothing.
BeginCycle ==
    /\ pc = "idle"
    /\ status.exported
    /\ mem' = Reconcile(disk, status)
    /\ LogExternalClose(disk, status)
    /\ Goto("decided")
    /\ UNCHANGED <<files, disk, order, nextCommand, journal, ea, terminal, faults, history>>

\* A timeout guard, allow_control_writes = False or the bound on command ids:
\* the cycle saves its state without running the execution engine.
SkipExecution ==
    /\ pc = "decided"
    /\ Goto("save")
    /\ UNCHANGED <<files, disk, mem, order, nextCommand, journals, ea, terminal, faults, history>>

\* Faulty: the intent line is not written.
PublishWithoutIntent ==
    /\ pc = "decided"
    /\ nextCommand <= MaxCommands
    /\ \E o \in Proposals(mem, nextCommand) :
          /\ control' = o /\ order' = o
          /\ issued' = [issued EXCEPT ![o.id] = o]
          /\ nextCommand' = nextCommand + 1
          /\ Goto(IF o.action = "NONE" THEN "save" ELSE "waiting")
    /\ UNCHANGED <<ack, status, disk, mem, journals, ea, terminal, faults, outcome, repeats>>

\* run_execution_engine up to publish_control.
Publish ==
    /\ pc = "decided"
    /\ nextCommand <= MaxCommands
    /\ \E o \in Proposals(mem, nextCommand) :
          IF RepublishAllowed(mem, control, o.id)
            THEN /\ control' = o
                 /\ order' = o
                 /\ issued' = [issued EXCEPT ![o.id] = o]
                 /\ nextCommand' = nextCommand + 1
                 /\ Goto(IF o.action = "NONE" THEN "save" ELSE "published")
            ELSE /\ Goto("save")
                 /\ UNCHANGED <<control, order, issued, nextCommand>>
    /\ UNCHANGED <<ack, status, disk, mem, journals, ea, terminal, faults, outcome, repeats>>

LogIntent ==
    /\ pc = "published"
    /\ journal' = [journal EXCEPT ![order.id] = "INTENT"]
    /\ Goto("waiting")
    /\ UNCHANGED <<files, disk, mem, order, nextCommand, closeLog, ea, terminal, faults, history>>

\* wait_for_ack finds the ack of its own command.
AckArrives ==
    /\ pc = "waiting"
    /\ ack # NoAck
    /\ AckMatches(ack, order)
    /\ mem' = ApplyAck(mem, order, ack)
    /\ Goto("recordAck")
    /\ UNCHANGED <<files, disk, order, nextCommand, journals, ea, terminal, faults, history>>

\* wait_for_ack finds the ack of another command: read_ack_for_command raises
\* an ExecutionError, which the handler (the built-in SystemError) lets pass,
\* and the cycle ends there.
StaleAckRaises ==
    /\ pc = "waiting"
    /\ ack # NoAck
    /\ ~AckMatches(ack, order)
    /\ order' = NoOrder
    /\ Goto("idle")
    /\ UNCHANGED <<files, disk, mem, nextCommand, journals, ea, terminal, faults, history>>

\* Faulty: the timeout is recorded while the control file is still offered.
AckTimesOutNotWithdrawn ==
    /\ pc = "waiting"
    /\ ack = NoAck
    /\ mem' = UpdateExecution(mem, order.id, "TIMEOUT")
    /\ Goto("recordTimeout")
    /\ UNCHANGED <<files, disk, order, nextCommand, journals, ea, terminal, faults, history>>

\* No ack file at the last poll.
AckTimesOut ==
    /\ pc = "waiting"
    /\ ack = NoAck
    /\ mem' = UpdateExecution(mem, order.id, "TIMEOUT")
    /\ Goto("timeoutControl")
    /\ UNCHANGED <<files, disk, order, nextCommand, journals, ea, terminal, faults, history>>

\* log_trade_ack and log_trade_ack_timeout rewrite the intent line.
SettleLine(at, target) ==
    /\ pc = at
    /\ journal' = [journal EXCEPT ![order.id] = mem.last_ack_status]
    /\ Goto(target)
    /\ UNCHANGED <<files, disk, mem, order, nextCommand, closeLog, ea, terminal, faults, history>>

\* Faulty: the timeout never reaches the journal.
TimeoutUnrecorded ==
    /\ pc = "recordTimeout"
    /\ Goto("save")
    /\ UNCHANGED <<files, disk, mem, order, nextCommand, journals, ea, terminal, faults, history>>

RecordAck     == SettleLine("recordAck", "ackControl")
RecordTimeout == SettleLine("recordTimeout", "save")

\* archive_processed_control and archive_processed_ack move the file away,
\* whichever command it belongs to.
ArchiveControl(at, target) ==
    /\ pc = at
    /\ control' = NoOrder
    /\ Goto(target)
    /\ UNCHANGED <<ack, status, disk, mem, order, nextCommand, journals,
                   ea, terminal, faults, history>>

ArchiveAck(at, target) ==
    /\ pc = at
    /\ ack' = NoAck
    /\ Goto(target)
    /\ UNCHANGED <<control, status, disk, mem, order, nextCommand, journals,
                   ea, terminal, faults, history>>

Archive ==
    \/ ArchiveControl("ackControl", "ackAck")
    \/ ArchiveAck("ackAck", "save")
    \/ ArchiveControl("timeoutControl", "timeoutAck")
    \/ ArchiveAck("timeoutAck", "recordTimeout")
    \/ ArchiveControl("recoverControl", "recoverAck")
    \/ ArchiveAck("recoverAck", "recoverSync")

SaveState ==
    /\ pc \in {"save", "recoverSave"}
    /\ disk' = mem
    /\ order' = NoOrder
    /\ Goto("idle")
    /\ UNCHANGED <<files, mem, nextCommand, journals, ea, terminal, faults, history>>

(***************************************************************************)
(* Stopping, startup and recovery                                          *)
(***************************************************************************)
\* Faulty: without an ack a pending command is left as it is.
RecoverOnlyAcked ==
    /\ pc = "down"
    /\ IF Unconfirmed(disk, control) /\ ack # NoAck /\ AckMatches(ack, control)
         THEN mem' = ApplyAck(disk, control, ack) /\ Goto("recoverControl")
         ELSE mem' = disk /\ Goto("recoverSync")
    /\ UNCHANGED <<files, disk, order, nextCommand, journals, ea, terminal, faults, history>>

\* recover_pending_ack: the belief and the commands to withdraw.  The branch
\* for a command already recorded as TIMEOUT is not reached: such a command is
\* not unconfirmed.  The trade journal is not touched.
Recover ==
    /\ pc = "down"
    /\ IF ~Unconfirmed(disk, control)
         THEN mem' = disk /\ Goto("recoverSync")
         ELSE /\ mem' = IF ack # NoAck /\ AckMatches(ack, control)
                         THEN ApplyAck(disk, control, ack)
                         ELSE UpdateExecution(disk, control.id, "TIMEOUT")
              /\ Goto("recoverControl")
    /\ UNCHANGED <<files, disk, order, nextCommand, journals, ea, terminal, faults, history>>

RecoverSync ==
    /\ pc = "recoverSync"
    /\ IF status.exported
         THEN mem' = Reconcile(mem, status) /\ LogExternalClose(mem, status)
         ELSE UNCHANGED <<mem, closeLog>>
    /\ Goto("recoverSave")
    /\ UNCHANGED <<files, disk, order, nextCommand, journal, ea, terminal, faults, history>>

\* The joint bound on faults.
FaultsLeft == crashes + ioErrors + eaRestarts + ackFailures + externalCloses < MaxFaults

\* The process is killed.
Crash ==
    /\ pc # "down"
    /\ crashes < MaxCrashes /\ FaultsLeft
    /\ crashes' = crashes + 1
    /\ mem' = BlankState /\ order' = NoOrder
    /\ Goto("down")
    /\ UNCHANGED <<files, disk, nextCommand, journals, ea, terminal,
                   ioErrors, eaRestarts, ackFailures, externalCloses, history>>

\* shutdown between two cycles: persist_runtime_state saves what is in memory.
Shutdown ==
    /\ pc = "idle"
    /\ crashes < MaxCrashes /\ FaultsLeft
    /\ crashes' = crashes + 1
    /\ disk' = mem
    /\ mem' = BlankState /\ order' = NoOrder
    /\ Goto("down")
    /\ UNCHANGED <<files, nextCommand, journals, ea, terminal,
                   ioErrors, eaRestarts, ackFailures, externalCloses, history>>

\* run_instance_cycle_isolated catches an exception: nothing is saved.
CycleRaises ==
    /\ pc \in CyclePc
    /\ ioErrors < MaxIoErrors /\ FaultsLeft
    /\ ioErrors' = ioErrors + 1
    /\ order' = NoOrder
    /\ Goto("idle")
    /\ UNCHANGED <<files, disk, mem, nextCommand, journals, ea, terminal,
                   crashes, eaRestarts, ackFailures, externalCloses, history>>

(***************************************************************************)
(* The EA: OnTick exports on a new bar, then looks at the control file     *)
(***************************************************************************)
\* Faulty: no memory of the processed command.
NeverProcessed(o) == o.id = NoCommand

AlreadyProcessed(o) == o.id = eaLast

EaPickUp ==
    /\ eaOrder = NoOrder
    /\ control # NoOrder
    /\ ~AlreadyProcessed(control)
    /\ eaOrder' = control
    /\ UNCHANGED <<files, python, journals, eaAck, eaLast, terminal, faults, history>>

\* The EA reaches an outcome for the order it holds.
Acknowledge(verdict, ticket) ==
    LET result == [id |-> eaOrder.id, status |-> verdict, ticket |-> ticket]
    IN  /\ eaAck' = result
        /\ outcome' = [outcome EXCEPT ![eaOrder.id] = @ \cup {result}]
        /\ repeats' = IF outcome[eaOrder.id] = {} THEN repeats ELSE repeats + 1
        /\ UNCHANGED <<files, python, journals, eaOrder, eaLast, faults, issued>>

OpenVolume(ticket) == IF ticket \in Ticket THEN positions[ticket] ELSE 0

\* Faulty: the position is opened but reported as failed.
EaOpensReportsFailure ==
    /\ eaOrder.action = "OPEN"
    /\ nextTicket <= MaxTickets
    /\ positions' = [positions EXCEPT ![nextTicket] = eaOrder.volume]
    /\ nextTicket' = nextTicket + 1
    /\ Acknowledge("FAILED", NoTicket)

EaOpens ==
    /\ eaOrder.action = "OPEN"
    /\ nextTicket <= MaxTickets
    /\ positions' = [positions EXCEPT ![nextTicket] = eaOrder.volume]
    /\ nextTicket' = nextTicket + 1
    /\ Acknowledge("SUCCESS", nextTicket)

\* Faulty: the close is not compared with what is open of the ticket.
EaClosesUnchecked ==
    /\ eaOrder.action = "CLOSE"
    /\ positions' = [positions EXCEPT ![eaOrder.ticket] = @ - eaOrder.volume]
    /\ UNCHANGED nextTicket
    /\ Acknowledge("SUCCESS", eaOrder.ticket)

\* A part of a position can be closed.  The terminal (external) is taken to keep the ticket
\* for the rest, as the EA, which acks the ticket it closed, and reduce_position_volume do;
\* a terminal that gives the rest a new ticket makes the belief end and be adopted anew.
EaCloses ==
    /\ eaOrder.action = "CLOSE"
    /\ OpenVolume(eaOrder.ticket) > 0
    /\ eaOrder.volume <= OpenVolume(eaOrder.ticket)
    /\ positions' = [positions EXCEPT ![eaOrder.ticket] = @ - eaOrder.volume]
    /\ UNCHANGED nextTicket
    /\ Acknowledge("SUCCESS", eaOrder.ticket)

EaModifies ==
    /\ eaOrder.action = "MODIFY"
    /\ OpenVolume(eaOrder.ticket) > 0
    /\ UNCHANGED terminal
    /\ Acknowledge("SUCCESS", eaOrder.ticket)

EaConfirmsNone ==
    /\ eaOrder.action = "NONE"
    /\ UNCHANGED terminal
    /\ Acknowledge("SUCCESS", NoTicket)

\* The terminal refuses the order (FAILED), or the EA rejects it: trading is
\* not allowed, or the ticket is not an order of this instance.
EaRefuses ==
    /\ eaOrder.action # "NONE"
    /\ \E verdict \in {"FAILED", "REJECTED"} :
          /\ verdict = "REJECTED" =>
               eaOrder.action = "OPEN" \/ OpenVolume(eaOrder.ticket) = 0
          /\ Acknowledge(verdict, NoTicket)
    /\ UNCHANGED terminal

EaExecute ==
    /\ eaOrder # NoOrder
    /\ eaAck = NoAck
    /\ EaOpens \/ EaCloses \/ EaModifies \/ EaConfirmsNone \/ EaRefuses

EaWriteAck ==
    /\ eaAck # NoAck
    /\ ack' = eaAck
    /\ eaLast' = eaOrder.id
    /\ eaOrder' = NoOrder /\ eaAck' = NoAck
    /\ UNCHANGED <<control, status, python, journals, terminal, faults, history>>

OpenTickets == {t \in Ticket : positions[t] > 0}

\* The pool is listed from its last order to its first, so the newest open
\* ticket of the instance comes first in open_positions.
NewestTicket ==
    IF OpenTickets = {} THEN NoTicket
    ELSE CHOOSE t \in OpenTickets : \A u \in OpenTickets : u <= t

Snapshot == [exported |-> TRUE, ticket |-> NewestTicket, volume |-> OpenVolume(NewestTicket)]

\* The ack cannot be written: the EA exports status with the error and does
\* not remember the command.
EaAckWriteFails ==
    /\ eaAck # NoAck
    /\ ackFailures < MaxAckFailures /\ FaultsLeft
    /\ ackFailures' = ackFailures + 1
    /\ status' = Snapshot
    /\ eaOrder' = NoOrder /\ eaAck' = NoAck
    /\ UNCHANGED <<control, ack, python, journals, eaLast, terminal,
                   crashes, ioErrors, eaRestarts, externalCloses, history>>

EaExport ==
    /\ eaOrder = NoOrder
    /\ status' = Snapshot
    /\ UNCHANGED <<control, ack, python, journals, ea, terminal, faults, history>>

\* The EA or the terminal restarts: its globals are lost.
EaRestart ==
    /\ eaRestarts < MaxEaRestarts /\ FaultsLeft
    /\ eaRestarts' = eaRestarts + 1
    /\ eaOrder' = NoOrder /\ eaAck' = NoAck /\ eaLast' = NoCommand
    /\ UNCHANGED <<files, python, journals, terminal,
                   crashes, ioErrors, ackFailures, externalCloses, history>>

\* SL, TP or the user closes a position.
ExternalClose ==
    /\ externalCloses < MaxExternalCloses /\ FaultsLeft
    /\ externalCloses' = externalCloses + 1
    /\ \E t \in OpenTickets : positions' = [positions EXCEPT ![t] = 0]
    /\ UNCHANGED <<files, python, journals, ea, nextTicket,
                   crashes, ioErrors, eaRestarts, ackFailures, history>>

(***************************************************************************)
(* Specification                                                           *)
(***************************************************************************)
ExecutionEngine ==
    \/ Publish \/ LogIntent \/ AckArrives \/ StaleAckRaises \/ AckTimesOut
    \/ RecordAck \/ RecordTimeout \/ Archive

PythonStep == BeginCycle \/ SkipExecution \/ ExecutionEngine \/ SaveState
                \/ Recover \/ RecoverSync

EaStep == EaPickUp \/ EaExecute \/ EaWriteAck

Fault == Crash \/ Shutdown \/ CycleRaises \/ EaAckWriteFails \/ EaRestart \/ ExternalClose

Next == PythonStep \/ EaStep \/ EaExport \/ Fault

Spec == Init /\ [][Next]_vars

\* The Python loop runs a cycle every cycle_interval_ms and is restarted after
\* a stop; ticks keep arriving, and every new M1 bar exports the status.  Every step
\* of each changes what stands below its WF, or exports the same status again.
FairSpec ==
    /\ Spec
    /\ WF_pc(PythonStep)
    /\ WF_ea(EaStep)
    /\ WF_status(EaExport)

-----------------------------------------------------------------------------
\* Files, memory, the EA's variables and the counters keep their types; no
\* position ever has a negative volume.
TypeOK ==
    /\ control \in Order /\ ack \in Ack /\ status \in Status
    /\ disk \in InstanceState /\ mem \in InstanceState /\ order \in Order
    /\ pc \in Pc /\ nextCommand \in 1..(MaxCommands + 1)
    /\ journal \in [Command -> {"ABSENT", "INTENT"} \cup Verdict]
    /\ closeLog \subseteq Ticket
    /\ eaOrder \in Order /\ eaAck \in Ack /\ eaLast \in Command \cup {NoCommand}
    /\ positions \in [Ticket -> Volume] /\ nextTicket \in 1..(MaxTickets + 1)
    /\ crashes \in 0..MaxCrashes /\ ioErrors \in 0..MaxIoErrors
    /\ eaRestarts \in 0..MaxEaRestarts /\ ackFailures \in 0..MaxAckFailures
    /\ externalCloses \in 0..MaxExternalCloses
    /\ issued \in [Command -> Order]
    /\ outcome \in [Command -> SUBSET Ack]
    /\ repeats \in Nat

Produced(c, verdict) == \E a \in outcome[c] : a.status = verdict

\* A recorded SUCCESS, FAILED or REJECTED - saved, in memory or in the trade
\* journal - is an outcome the EA really reached for that very command.  The
\* hazard is the single ack file, which is overwritten by every command.
AckProvenance ==
    /\ \A state \in {disk, mem} :
          state.last_ack_status \in AckStatus =>
            /\ state.last_command_id \in Command
            /\ Produced(state.last_command_id, state.last_ack_status)
    /\ \A c \in Command : journal[c] \in AckStatus => Produced(c, journal[c])

\* A position Python believes in was really opened by an OPEN command of this
\* instance, whatever mix of acks, recovery and status snapshots led there.
TicketProvenance ==
    disk.open_ticket # NoTicket =>
        \E c \in Command : /\ issued[c].action = "OPEN"
                          /\ \E a \in outcome[c] : /\ a.status = "SUCCESS"
                                                   /\ a.ticket = disk.open_ticket

\* The terminal carries every command out once.  All the commands together are carried
\* out again no more often than the EA restarts or fails to write an ack: command ids
\* are all that prevents a repeat, and no fault repeats two commands.
ExecutionBound == repeats <= eaRestarts + ackFailures

\* The EA only ever starts on the command published last: neither archiving,
\* recovery nor a crash brings an older control file back.
PicksUpNewest == [][eaOrder = NoOrder /\ eaOrder' # NoOrder
                      => eaOrder'.id = nextCommand - 1]_vars

\* The EA never starts on a command whose journal line is settled: a timeout
\* withdraws the control file before it is recorded, and whatever cuts the cycle
\* short in between, no settled command is left behind that the EA does not
\* remember as its last.  Only an EA that lost that memory can break it.
NeverPicksUpSettled ==
    [][eaOrder = NoOrder /\ eaOrder' # NoOrder /\ eaRestarts = 0
         => journal[eaOrder'.id] \notin Verdict]_vars

\* Unless a cycle was cut short, the saved verdict and the trade journal tell
\* the same story of the last command between cycles.
StateAndJournalAgree ==
    pc = "idle" /\ disk.last_command_id # NoCommand /\ crashes + ioErrors = 0
        => journal[disk.last_command_id] = disk.last_ack_status

\* Recovery leaves no command pending when it synchronises with status.
RecoveryResolves ==
    pc \in {"recoverSync", "recoverSave"} => ~Unconfirmed(mem, control)

\* The trade journal is an OrderLedger: one intent per command, settled at most
\* once, by a timeout or by what the terminal produced.
Ledger == INSTANCE OrderLedger WITH
            issuedCount <- nextCommand - 1,
            produced <- [c \in Command |-> {a.status : a \in outcome[c]}],
            line <- journal
ImplementsLedger == Ledger!LedgerSpec

\* Once nothing new happens the saved belief settles on what the terminal holds.
BeliefConverges == <>[](disk.open_ticket = NewestTicket
                         /\ disk.position_volume = OpenVolume(NewestTicket))
=============================================================================
