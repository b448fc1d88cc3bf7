----------------------- MODULE ExecutionChannelProofs -----------------------
(***************************************************************************)
(* What holds of ExecutionChannel for every value of its constants.  The   *)
(* inductive invariant is ChannelInv: the types, where every order and ack *)
(* comes from, how far the journal is at each point of the cycle, and what *)
(* is left of the EA's budget of repeated executions.  Four parts more,    *)
(* inductive given ChannelInv, carry recovery, the tickets, the agreement  *)
(* of journal and state, and what the EA remembers.                        *)
(***************************************************************************)
EXTENDS ExecutionChannel, WellFoundedInduction, TLAPS

-----------------------------------------------------------------------------
\* Every order in the system is the one issued under its id.
IssuedOrder(o) == o.id \in Command /\ o.id < nextCommand /\ issued[o.id] = o

OrdersIssued ==
    /\ order # NoOrder => IssuedOrder(order)
    /\ control # NoOrder => IssuedOrder(control) /\ control.id = nextCommand - 1
    /\ eaOrder # NoOrder => IssuedOrder(eaOrder)

\* Every ack in the system is an outcome of the order that it names.
AcksProduced ==
    /\ ack # NoAck => ack.id \in Command /\ ack \in outcome[ack.id]
    /\ eaAck # NoAck => /\ eaOrder # NoOrder
                        /\ eaAck.id = eaOrder.id /\ eaAck \in outcome[eaAck.id]
    /\ \A c \in Command : \A a \in outcome[c] : a.id = c

\* The command in progress, its journal line and the verdict in memory.
Unsettled == {"waiting", "recordAck", "timeoutControl", "timeoutAck", "recordTimeout"}
JournalInStep ==
    /\ pc \in Unsettled \cup {"published"} => order # NoOrder
    /\ pc = "published" => journal[order.id] = "ABSENT"
    /\ pc \in Unsettled => journal[order.id] = "INTENT"
    /\ pc = "recordAck" =>
         mem.last_ack_status \in AckStatus /\ mem.last_command_id = order.id
    /\ pc \in {"timeoutControl", "timeoutAck", "recordTimeout"} =>
         mem.last_ack_status = "TIMEOUT"
    /\ \A c \in Command : c >= nextCommand => journal[c] = "ABSENT"

\* The EA is about to repeat a command: the one it holds, or the newest, which it
\* does not remember.
Ran(c) == outcome[c] # {}
HeldAgain == eaOrder # NoOrder /\ eaAck = NoAck /\ Ran(eaOrder.id)
Forgotten(c) == c = nextCommand - 1 /\ c # eaLast /\ c # eaOrder.id /\ Ran(c)
MayRepeat == HeldAgain \/ \E c \in Command : Forgotten(c)

\* It repeats a command only after its memory of it was lost, each loss counts once, and
\* nothing newer than what it holds has run.
Losses == eaRestarts + ackFailures
EaBudget ==
    /\ eaLast < nextCommand
    /\ eaOrder # NoOrder => eaLast < eaOrder.id
    /\ \A c \in Command : c >= nextCommand => ~Ran(c)
    /\ eaOrder # NoOrder => \A c \in Command : c > eaOrder.id => ~Ran(c)
    /\ repeats <= Losses
    /\ MayRepeat => repeats < Losses

ChannelInv ==
    /\ TypeOK
    /\ OrdersIssued
    /\ AcksProduced
    /\ JournalInStep
    /\ EaBudget
    /\ AckProvenance

-----------------------------------------------------------------------------
(* The operators on InstanceState, statuses and orders.                    *)

\* update_execution keeps a record an InstanceState.
LEMMA UpdateExecutionType ==
    ASSUME NEW s \in InstanceState, NEW id \in Command \cup {NoCommand}, NEW v \in Verdict
    PROVE  UpdateExecution(s, id, v) \in InstanceState
BY DEF UpdateExecution, InstanceState

\* update_position and clear_position do, too.
LEMMA UpdatePositionType ==
    ASSUME NEW s \in InstanceState, NEW t \in Ticket \cup {NoTicket}, NEW v \in Volume
    PROVE  UpdatePosition(s, t, v) \in InstanceState
BY DEF UpdatePosition, InstanceState

LEMMA ClearPositionType ==
    ASSUME NEW s \in InstanceState
    PROVE  ClearPosition(s) \in InstanceState
BY ConstantsAssumption, UpdatePositionType DEF ClearPosition, Volume

\* reduce_position_volume never leaves a volume below one lot.
LEMMA ReducePositionType ==
    ASSUME NEW s \in InstanceState, NEW v \in Nat
    PROVE  ReducePosition(s, v) \in InstanceState
<1>1. CASE s.position_volume <= v
  BY <1>1, ClearPositionType DEF ReducePosition
<1>2. CASE ~(s.position_volume <= v)
  <2>1. s.position_volume \in Volume  BY DEF InstanceState
  <2>2. s.position_volume - v \in Volume
    BY <1>2, <2>1, ConstantsAssumption DEF Volume
  <2> QED BY <1>2, <2>2 DEF ReducePosition, InstanceState
<1> QED BY <1>1, <1>2

\* apply_ack_to_instance_state leaves an InstanceState with the verdict of the ack.
LEMMA ApplyAckType ==
    ASSUME NEW s \in InstanceState, NEW o \in Order, NEW a \in Ack
    PROVE  ApplyAck(s, o, a) \in InstanceState
<1> DEFINE c == UpdateExecution(s, a.id, a.status)
<1>1. /\ a.id \in Command \cup {NoCommand} /\ a.status \in Verdict
      /\ a.ticket \in Ticket \cup {NoTicket}
  BY DEF Ack, Verdict
<1>2. o.volume \in Volume /\ o.volume \in Nat
  BY ConstantsAssumption DEF Order, Volume
<1>3. c \in InstanceState  BY <1>1, UpdateExecutionType
<1> HIDE DEF c
<1>4. /\ UpdatePosition(c, a.ticket, o.volume) \in InstanceState
      /\ ReducePosition(c, o.volume) \in InstanceState
      /\ ClearPosition(c) \in InstanceState
  BY <1>1, <1>2, <1>3, UpdatePositionType, ReducePositionType, ClearPositionType
<1> QED BY <1>3, <1>4 DEF ApplyAck, c

LEMMA ApplyAckVerdict ==
    ASSUME NEW s \in InstanceState, NEW o, NEW a
    PROVE  /\ ApplyAck(s, o, a).last_command_id = a.id
           /\ ApplyAck(s, o, a).last_ack_status = a.status
<1> DEFINE c == UpdateExecution(s, a.id, a.status)
<1>1. /\ c.last_command_id = a.id /\ c.last_ack_status = a.status
      /\ DOMAIN c = DOMAIN s
  BY DEF UpdateExecution, InstanceState
<1>2. DOMAIN s = {"open_ticket", "position_volume", "partial_close_applied",
                  "last_command_id", "last_ack_status"}
  BY DEF InstanceState
<1> HIDE DEF c
<1>3. ASSUME NEW t, NEW v
      PROVE  /\ UpdatePosition(c, t, v).last_command_id = a.id
             /\ UpdatePosition(c, t, v).last_ack_status = a.status
             /\ ReducePosition(c, v).last_command_id = a.id
             /\ ReducePosition(c, v).last_ack_status = a.status
  BY <1>1, <1>2 DEF UpdatePosition, ReducePosition, ClearPosition
<1>4. /\ ClearPosition(c).last_command_id = a.id
      /\ ClearPosition(c).last_ack_status = a.status
  BY <1>3 DEF ClearPosition
<1> QED BY <1>1, <1>3, <1>4 DEF ApplyAck, c

\* reconcile_position_with_status changes the position only.
LEMMA ReconcileType ==
    ASSUME NEW s \in InstanceState, NEW st \in Status
    PROVE  Reconcile(s, st) \in InstanceState
<1>1. st.ticket \in Ticket \cup {NoTicket} /\ st.volume \in Volume
  BY DEF Status
<1>2. ClearPosition(s) \in InstanceState  BY ClearPositionType
<1>3. UpdatePosition(s, st.ticket, st.volume) \in InstanceState
  BY <1>1, UpdatePositionType
<1>4. st.volume < s.position_volume =>
        ReducePosition(s, s.position_volume - st.volume) \in InstanceState
  <2>1. s.position_volume \in Volume  BY DEF InstanceState
  <2>2. s.position_volume \in Nat /\ st.volume \in Nat
    BY <1>1, <2>1, ConstantsAssumption DEF Volume
  <2> QED BY <2>2, ReducePositionType
<1> QED BY <1>2, <1>3, <1>4 DEF Reconcile

LEMMA ReconcileVerdict ==
    ASSUME NEW s \in InstanceState, NEW st
    PROVE  /\ Reconcile(s, st).last_command_id = s.last_command_id
           /\ Reconcile(s, st).last_ack_status = s.last_ack_status
BY DEF Reconcile, ReducePosition, ClearPosition, UpdatePosition, InstanceState

\* resolve_order_command: every proposal is an order with the fresh id.
LEMMA ProposalsType ==
    ASSUME NEW s \in InstanceState, NEW id \in Command, NEW o \in Proposals(s, id)
    PROVE  o \in Order /\ o.id = id
<1>1. /\ s.open_ticket \in Ticket \cup {NoTicket} /\ s.position_volume \in Volume
      /\ FullVolume \in Volume /\ 0 \in Volume
  <2>1. s.open_ticket \in Ticket \cup {NoTicket} /\ s.position_volume \in Volume
    BY DEF InstanceState
  <2>2. FullVolume \in Volume /\ 0 \in Volume  BY ConstantsAssumption DEF Volume
  <2> QED BY <2>1, <2>2
<1>2. \A w \in 1..(s.position_volume - 1) : w \in Volume
  BY <1>1, ConstantsAssumption DEF Volume
<1> QED BY <1>1, <1>2 DEF Proposals, Order, NoOrder, Action

\* A non-empty set of tickets has a newest one.
LEMMA MaxExists ==
    ASSUME NEW N \in Nat, NEW S \in SUBSET (1..N), S # {}
    PROVE  \E t \in S : \A u \in S : u <= t
<1> DEFINE R == OpToRel(<, Nat)
           Mirror == {k \in Nat : \E t \in S : k = N - t}
<1>1. PICK k \in Mirror : \A l \in Mirror : ~(<<l, k>> \in R)
  <2>1. Mirror # {}
    <3>1. PICK t \in S : TRUE  OBVIOUS
    <3>2. N - t \in Mirror  BY <3>1
    <3> QED BY <3>2
  <2>2. IsWellFoundedOn(R, Nat)  BY NatLessThanWellFounded
  <2>3. Mirror \subseteq Nat  OBVIOUS
  <2> HIDE DEF R, Mirror
  <2> QED BY <2>1, <2>2, <2>3, WFMin
<1>2. \A l \in Mirror : ~(l < k)  BY <1>1 DEF OpToRel
<1>3. PICK t \in S : k = N - t  BY <1>1
<1>4. ASSUME NEW u \in S  PROVE u <= t
  <2>1. N - u \in Mirror  OBVIOUS
  <2>2. ~(N - u < N - t)  BY <2>1, <1>2, <1>3
  <2> QED BY <2>2
<1> QED BY <1>4

LEMMA SnapshotType ==
    ASSUME positions \in [Ticket -> Volume]
    PROVE  Snapshot \in Status /\ NewestTicket \in OpenTickets \cup {NoTicket}
<1>1. NewestTicket \in OpenTickets \cup {NoTicket}
  <2>1. OpenTickets \in SUBSET (1..MaxTickets)  BY DEF OpenTickets, Ticket
  <2>2. CASE OpenTickets = {}  BY <2>2 DEF NewestTicket
  <2>3. CASE OpenTickets # {}
    <3>1. \E t \in OpenTickets : \A u \in OpenTickets : u <= t
      BY <2>1, <2>3, MaxExists, ConstantsAssumption
    <3> QED BY <2>3, <3>1 DEF NewestTicket
  <2> QED BY <2>2, <2>3
<1>2. OpenVolume(NewestTicket) \in Volume
  BY ConstantsAssumption DEF OpenVolume, Volume
<1> QED BY <1>1, <1>2 DEF Snapshot, Status, OpenTickets

-----------------------------------------------------------------------------
(* Type correctness.                                                       *)

LEMMA BlankTypes ==
    /\ NoOrder \in Order /\ NoAck \in Ack /\ NoStatus \in Status
    /\ BlankState \in InstanceState
BY ConstantsAssumption
   DEF NoOrder, Order, NoAck, Ack, NoStatus, Status, BlankState, InstanceState,
       Action, AckStatus, Volume

LEMMA InitType == Init => TypeOK
<1>1. /\ 1 \in 1..(MaxCommands + 1) /\ 1 \in 1..(MaxTickets + 1) /\ 0 \in Volume
      /\ 0 \in 0..MaxCrashes /\ 0 \in 0..MaxIoErrors /\ 0 \in 0..MaxEaRestarts
      /\ 0 \in 0..MaxAckFailures /\ 0 \in 0..MaxExternalCloses
  BY ConstantsAssumption DEF Volume
<1> QED BY <1>1, BlankTypes DEF Init, TypeOK, Pc

\* No step of the system leaves the types, given that a journal line is only
\* settled once a verdict is in memory.
LEMMA TypeStep ==
    ASSUME TypeOK, JournalInStep, [Next]_vars
    PROVE  TypeOK'
<1> USE DEF files, python, journals, ea, terminal, faults, history
<1>0. /\ control \in Order /\ ack \in Ack /\ status \in Status
      /\ disk \in InstanceState /\ mem \in InstanceState /\ order \in Order
      /\ eaOrder \in Order /\ eaAck \in Ack
      /\ positions \in [Ticket -> Volume]
  BY DEF TypeOK
<1>1. CASE UNCHANGED vars  BY <1>1 DEF TypeOK, vars
<1>2. CASE BeginCycle
  <2>1. mem' \in InstanceState  BY <1>0, <1>2, ReconcileType DEF BeginCycle
  <2>2. closeLog' \subseteq Ticket
    BY <1>0, <1>2 DEF BeginCycle, LogExternalClose, LostInStatus, InstanceState, TypeOK
  <2> QED BY <1>2, <2>1, <2>2 DEF BeginCycle, TypeOK, Goto, Pc, CyclePc
<1>3. CASE SkipExecution  BY <1>3 DEF SkipExecution, TypeOK, Goto, Pc, CyclePc
<1>4. CASE Publish
  <2>1. nextCommand \in Command  BY <1>4, ConstantsAssumption DEF Publish, TypeOK, Command
  <2>2. nextCommand + 1 \in 1..(MaxCommands + 1)
    BY <2>1, ConstantsAssumption DEF Command
  <2>3. PICK o \in Proposals(mem, nextCommand) :
            IF RepublishAllowed(mem, control, o.id)
              THEN /\ control' = o
                   /\ order' = o
                   /\ issued' = [issued EXCEPT ![o.id] = o]
                   /\ nextCommand' = nextCommand + 1
                   /\ Goto(IF o.action = "NONE" THEN "save" ELSE "published")
              ELSE /\ Goto("save")
                   /\ UNCHANGED <<control, order, issued, nextCommand>>
    BY <1>4 DEF Publish
  <2>4. o \in Order  BY <1>0, <2>1, ProposalsType
  <2>5. /\ control' \in Order /\ order' \in Order
        /\ issued' \in [Command -> Order] /\ nextCommand' \in 1..(MaxCommands + 1)
    BY <2>2, <2>3, <2>4 DEF TypeOK
  <2>6. pc' \in Pc  BY <2>3 DEF Goto, Pc, CyclePc
  <2> QED BY <1>4, <2>5, <2>6 DEF Publish, TypeOK
<1>5. CASE LogIntent  BY <1>5 DEF LogIntent, TypeOK, Goto, Pc, CyclePc
<1>6. CASE AckArrives
  <2>1. mem' \in InstanceState  BY <1>0, <1>6, ApplyAckType DEF AckArrives
  <2> QED BY <1>6, <2>1 DEF AckArrives, TypeOK, Goto, Pc, CyclePc
<1>7. CASE StaleAckRaises
  BY <1>7, BlankTypes DEF StaleAckRaises, TypeOK, Goto, Pc
<1>8. CASE AckTimesOut
  <2>1. order.id \in Command \cup {NoCommand}  BY <1>0 DEF Order
  <2>2. mem' \in InstanceState
    BY <1>0, <1>8, <2>1, UpdateExecutionType DEF AckTimesOut, Verdict
  <2> QED BY <1>8, <2>2 DEF AckTimesOut, TypeOK, Goto, Pc, CyclePc
<1>9. ASSUME NEW at \in {"recordAck", "recordTimeout"}, NEW target \in {"ackControl", "save"},
             SettleLine(at, target)
      PROVE  TypeOK'
  <2>1. mem.last_ack_status \in Verdict
    BY <1>9 DEF SettleLine, JournalInStep, Verdict
  <2>2. journal' \in [Command -> {"ABSENT", "INTENT"} \cup Verdict]
    BY <1>9, <2>1 DEF SettleLine, TypeOK
  <2> QED BY <1>9, <2>2 DEF SettleLine, TypeOK, Goto, Pc, CyclePc
<1>10. CASE RecordAck \/ RecordTimeout  BY <1>9, <1>10 DEF RecordAck, RecordTimeout
<1>11. ASSUME NEW at, NEW target \in Pc, ArchiveControl(at, target)  PROVE TypeOK'
  BY <1>11, BlankTypes DEF ArchiveControl, TypeOK, Goto
<1>12. ASSUME NEW at, NEW target \in Pc, ArchiveAck(at, target)  PROVE TypeOK'
  BY <1>12, BlankTypes DEF ArchiveAck, TypeOK, Goto
<1>13. CASE Archive
  <2>1. {"ackAck", "save", "timeoutAck", "recordTimeout", "recoverAck", "recoverSync"} \subseteq Pc
    BY DEF Pc, CyclePc, RecoveryPc
  <2> QED BY <1>11, <1>12, <1>13, <2>1 DEF Archive
<1>14. CASE SaveState  BY <1>14, BlankTypes DEF SaveState, TypeOK, Goto, Pc
<1>15. CASE Recover
  <2>1. control.id \in Command \cup {NoCommand}  BY <1>0 DEF Order
  <2>2. /\ ApplyAck(disk, control, ack) \in InstanceState
        /\ UpdateExecution(disk, control.id, "TIMEOUT") \in InstanceState
    BY <1>0, <2>1, ApplyAckType, UpdateExecutionType DEF Verdict
  <2>3. mem' \in InstanceState  BY <1>0, <1>15, <2>2 DEF Recover
  <2>4. pc' \in Pc  BY <1>15 DEF Recover, Goto, Pc, RecoveryPc
  <2> QED BY <1>15, <2>3, <2>4 DEF Recover, TypeOK
<1>16. CASE RecoverSync
  <2>1. mem' \in InstanceState  BY <1>0, <1>16, ReconcileType DEF RecoverSync
  <2>2. closeLog' \subseteq Ticket
    BY <1>0, <1>16 DEF RecoverSync, LogExternalClose, LostInStatus, InstanceState, TypeOK
  <2> QED BY <1>16, <2>1, <2>2 DEF RecoverSync, TypeOK, Goto, Pc, RecoveryPc
<1>17. CASE Crash
  <2>1. crashes' \in 0..MaxCrashes  BY <1>17, ConstantsAssumption DEF Crash, TypeOK
  <2> QED BY <1>17, <2>1, BlankTypes DEF Crash, TypeOK, Goto, Pc
<1>18. CASE Shutdown
  <2>1. crashes' \in 0..MaxCrashes  BY <1>18, ConstantsAssumption DEF Shutdown, TypeOK
  <2> QED BY <1>18, <2>1, BlankTypes DEF Shutdown, TypeOK, Goto, Pc
<1>19. CASE CycleRaises
  <2>1. ioErrors' \in 0..MaxIoErrors  BY <1>19, ConstantsAssumption DEF CycleRaises, TypeOK
  <2> QED BY <1>19, <2>1, BlankTypes DEF CycleRaises, TypeOK, Goto, Pc
<1>20. CASE EaPickUp  BY <1>20 DEF EaPickUp, TypeOK
<1>21. CASE EaExecute
  <2>1. ASSUME NEW v \in AckStatus, NEW t \in Ticket \cup {NoTicket}, Acknowledge(v, t),
               positions' \in [Ticket -> Volume], nextTicket' \in 1..(MaxTickets + 1)
        PROVE  TypeOK'
    <3>1. [id |-> eaOrder.id, status |-> v, ticket |-> t] \in Ack
      BY <1>0, <2>1 DEF Order, Ack
    <3>2. eaAck' \in Ack /\ outcome' \in [Command -> SUBSET Ack]
      BY <2>1, <3>1 DEF Acknowledge, TypeOK
    <3>3. repeats' \in Nat  BY <2>1 DEF Acknowledge, TypeOK
    <3> QED BY <2>1, <3>2, <3>3 DEF Acknowledge, TypeOK
  <2>2. eaOrder.ticket \in Ticket \cup {NoTicket} /\ eaOrder.volume \in Volume
    BY <1>0 DEF Order
  <2>3. CASE EaOpens
    <3>1. nextTicket \in Ticket /\ nextTicket + 1 \in 1..(MaxTickets + 1)
      BY <2>3, ConstantsAssumption DEF EaOpens, TypeOK, Ticket
    <3>2. positions' \in [Ticket -> Volume]  BY <1>0, <2>2, <2>3 DEF EaOpens
    <3> QED BY <2>1, <2>3, <3>1, <3>2 DEF EaOpens, AckStatus
  <2>4. CASE EaCloses
    <3>1. eaOrder.ticket \in Ticket  BY <2>4 DEF EaCloses, OpenVolume
    <3>2. positions[eaOrder.ticket] \in Volume  BY <1>0, <3>1
    <3>3. positions[eaOrder.ticket] - eaOrder.volume \in Volume
      BY <2>2, <2>4, <3>1, <3>2, ConstantsAssumption DEF EaCloses, OpenVolume, Volume
    <3>4. positions' \in [Ticket -> Volume]  BY <1>0, <2>4, <3>3 DEF EaCloses
    <3> QED BY <2>1, <2>2, <2>4, <3>4 DEF EaCloses, AckStatus, TypeOK
  <2>5. CASE EaModifies  BY <1>0, <2>1, <2>2, <2>5 DEF EaModifies, AckStatus, TypeOK
  <2>6. CASE EaConfirmsNone  BY <1>0, <2>1, <2>6 DEF EaConfirmsNone, AckStatus, TypeOK
  <2>7. CASE EaRefuses  BY <1>0, <2>1, <2>7 DEF EaRefuses, AckStatus, TypeOK
  <2> QED BY <1>21, <2>3, <2>4, <2>5, <2>6, <2>7 DEF EaExecute
<1>22. CASE EaWriteAck
  <2>1. eaLast' \in Command \cup {NoCommand}  BY <1>0, <1>22 DEF EaWriteAck, Order
  <2> QED BY <1>22, <2>1, BlankTypes DEF EaWriteAck, TypeOK
<1>23. CASE EaAckWriteFails
  <2>1. ackFailures' \in 0..MaxAckFailures
    BY <1>23, ConstantsAssumption DEF EaAckWriteFails, TypeOK
  <2> QED BY <1>0, <1>23, <2>1, BlankTypes, SnapshotType DEF EaAckWriteFails, TypeOK
<1>24. CASE EaExport  BY <1>0, <1>24, SnapshotType DEF EaExport, TypeOK
<1>25. CASE EaRestart
  <2>1. eaRestarts' \in 0..MaxEaRestarts  BY <1>25, ConstantsAssumption DEF EaRestart, TypeOK
  <2> QED BY <1>25, <2>1, BlankTypes DEF EaRestart, TypeOK
<1>26. CASE ExternalClose
  <2>1. externalCloses' \in 0..MaxExternalCloses
    BY <1>26, ConstantsAssumption DEF ExternalClose, TypeOK
  <2>2. positions' \in [Ticket -> Volume]
    <3>1. 0 \in Volume  BY ConstantsAssumption DEF Volume
    <3> QED BY <1>0, <1>26, <3>1 DEF ExternalClose
  <2> QED BY <1>26, <2>1, <2>2 DEF ExternalClose, TypeOK
<1> QED
  BY <1>1, <1>2, <1>3, <1>4, <1>5, <1>6, <1>7, <1>8, <1>10, <1>13, <1>14, <1>15, <1>16,
     <1>17, <1>18, <1>19, <1>20, <1>21, <1>22, <1>23, <1>24, <1>25, <1>26
     DEF Next, PythonStep, ExecutionEngine, EaStep, Fault

-----------------------------------------------------------------------------
(* The parts of the invariant, one after the other.                        *)

\* The histories only grow: ids are not reused, outcomes are not forgotten.
LEMMA HistoryGrows ==
    ASSUME TypeOK, OrdersIssued, [Next]_vars
    PROVE  /\ \A c \in Command : outcome[c] \subseteq outcome'[c]
           /\ eaOrder = NoOrder => UNCHANGED <<outcome, repeats>>
<1> USE DEF files, python, journals, ea, terminal, faults, history
<1>1. CASE EaExecute
  <2>1. /\ eaOrder # NoOrder
        /\ \E v, t : Acknowledge(v, t)
    BY <1>1 DEF EaExecute, EaOpens, EaCloses, EaModifies, EaConfirmsNone, EaRefuses
  <2>2. PICK v, t : Acknowledge(v, t)  BY <2>1
  <2>3. outcome \in [Command -> SUBSET Ack]  BY DEF TypeOK
  <2> QED BY <2>1, <2>2, <2>3 DEF Acknowledge
<1>2. CASE UNCHANGED <<outcome, repeats>>  BY <1>2
<1>3. ~EaExecute => UNCHANGED <<outcome, repeats>>
  BY DEF Next, PythonStep, ExecutionEngine, EaStep, Fault, vars, BeginCycle, SkipExecution,
         Publish, LogIntent, AckArrives, StaleAckRaises, AckTimesOut, RecordAck, RecordTimeout,
         SettleLine, Archive, ArchiveControl, ArchiveAck, SaveState, Recover, RecoverSync,
         Crash, Shutdown, CycleRaises, EaPickUp, EaWriteAck, EaAckWriteFails, EaExport,
         EaRestart, ExternalClose
<1> QED BY <1>1, <1>2, <1>3

\* Orders: only Publish makes one, under a fresh id, and it replaces the
\* control file at once.
LEMMA OrdersStep ==
    ASSUME TypeOK, OrdersIssued, [Next]_vars
    PROVE  OrdersIssued'
<1> USE DEF files, python, journals, ea, terminal, faults, history
<1>1. CASE Publish
  <2>1. nextCommand \in Command  BY <1>1, ConstantsAssumption DEF Publish, TypeOK, Command
  <2>2. PICK o \in Proposals(mem, nextCommand) :
            IF RepublishAllowed(mem, control, o.id)
              THEN /\ control' = o
                   /\ order' = o
                   /\ issued' = [issued EXCEPT ![o.id] = o]
                   /\ nextCommand' = nextCommand + 1
                   /\ Goto(IF o.action = "NONE" THEN "save" ELSE "published")
              ELSE /\ Goto("save")
                   /\ UNCHANGED <<control, order, issued, nextCommand>>
    BY <1>1 DEF Publish
  <2>3. o.id = nextCommand  BY <2>1, ProposalsType DEF TypeOK
  <2>4. UNCHANGED eaOrder  BY <1>1 DEF Publish
  <2>5. CASE ~RepublishAllowed(mem, control, o.id)
    BY <2>2, <2>4, <2>5 DEF OrdersIssued, IssuedOrder
  <2>6. CASE RepublishAllowed(mem, control, o.id)
    <3>1. nextCommand' = nextCommand + 1 /\ nextCommand \in Nat
      BY <2>1, <2>2, <2>6, ConstantsAssumption DEF Command
    <3>2. issued' = [issued EXCEPT ![nextCommand] = o]  BY <2>2, <2>3, <2>6
    <3>3. issued \in [Command -> Order]  BY DEF TypeOK
    <3>4. IssuedOrder(eaOrder) => IssuedOrder(eaOrder)'
      BY <2>4, <3>1, <3>2, <3>3, ConstantsAssumption DEF IssuedOrder, Command
    <3>5. IssuedOrder(control)' /\ IssuedOrder(order)' /\ control'.id = nextCommand' - 1
      BY <2>1, <2>2, <2>3, <2>6, <3>1, <3>2, <3>3 DEF IssuedOrder
    <3> QED BY <2>4, <3>4, <3>5 DEF OrdersIssued
  <2> QED BY <2>5, <2>6
<1>2. CASE EaPickUp  BY <1>2 DEF EaPickUp, OrdersIssued, IssuedOrder
<1>3. ASSUME order' \in {order, NoOrder}, control' \in {control, NoOrder},
             eaOrder' \in {eaOrder, NoOrder}, UNCHANGED <<nextCommand, issued>>
      PROVE  OrdersIssued'
  BY <1>3 DEF OrdersIssued, IssuedOrder
<1>4. CASE PythonStep /\ ~Publish
  BY <1>3, <1>4 DEF PythonStep, ExecutionEngine, BeginCycle, SkipExecution,
     LogIntent, AckArrives, StaleAckRaises, AckTimesOut, RecordAck, RecordTimeout, SettleLine,
     Archive, ArchiveControl, ArchiveAck, SaveState, Recover, RecoverSync
<1>5. CASE EaExecute \/ EaWriteAck \/ EaExport
  BY <1>3, <1>5 DEF EaExecute, EaOpens, EaCloses, EaModifies, EaConfirmsNone, EaRefuses,
     Acknowledge, EaWriteAck, EaExport
<1>6. CASE Fault
  BY <1>3, <1>6 DEF Fault, Crash, Shutdown, CycleRaises, EaAckWriteFails, EaRestart, ExternalClose
<1>7. CASE UNCHANGED vars  BY <1>3, <1>7 DEF vars
<1> QED BY <1>1, <1>2, <1>4, <1>5, <1>6, <1>7 DEF Next, PythonStep, EaStep, ExecutionEngine

\* Acks: made by EaExecute for the order the EA holds, passed on by EaWriteAck.
LEMMA AcksStep ==
    ASSUME TypeOK, OrdersIssued, AcksProduced, [Next]_vars
    PROVE  AcksProduced'
<1> USE DEF files, python, journals, ea, terminal, faults, history
<1>1. CASE EaExecute
  <2>1. PICK v, t : Acknowledge(v, t)
    BY <1>1 DEF EaExecute, EaOpens, EaCloses, EaModifies, EaConfirmsNone, EaRefuses
  <2>2. eaOrder # NoOrder /\ eaOrder.id \in Command
    BY <1>1 DEF EaExecute, OrdersIssued, IssuedOrder
  <2>3. outcome \in [Command -> SUBSET Ack]  BY DEF TypeOK
  <2>4. /\ eaAck'.id = eaOrder.id /\ UNCHANGED <<eaOrder, ack>>
        /\ outcome' = [outcome EXCEPT ![eaOrder.id] = @ \cup {eaAck'}]
    BY <2>1 DEF Acknowledge
  <2>5. ack # NoAck => ack.id \in Command /\ ack \in outcome[ack.id]  BY DEF AcksProduced
  <2>6. \A c \in Command : \A a \in outcome'[c] : a.id = c
    BY <2>2, <2>3, <2>4 DEF AcksProduced
  <2> QED BY <2>2, <2>3, <2>4, <2>5, <2>6 DEF AcksProduced
<1>2. ASSUME UNCHANGED outcome,
             \/ ack' \in {ack, NoAck} /\ UNCHANGED <<eaOrder, eaAck>>
             \/ ack' \in {ack, eaAck} /\ eaAck' = NoAck
      PROVE  AcksProduced'
  BY <1>2 DEF AcksProduced, OrdersIssued, IssuedOrder
<1>3. CASE EaPickUp
  BY <1>2, <1>3 DEF EaPickUp, AcksProduced
<1>4. CASE PythonStep
  BY <1>2, <1>4 DEF PythonStep, ExecutionEngine, BeginCycle, SkipExecution, Publish,
     LogIntent, AckArrives, StaleAckRaises, AckTimesOut, RecordAck, RecordTimeout, SettleLine,
     Archive, ArchiveControl, ArchiveAck, SaveState, Recover, RecoverSync
<1>5. CASE EaWriteAck \/ EaExport  BY <1>2, <1>5 DEF EaWriteAck, EaExport
<1>6. CASE Fault
  BY <1>2, <1>6 DEF Fault, Crash, Shutdown, CycleRaises, EaAckWriteFails, EaRestart, ExternalClose
<1>7. CASE UNCHANGED vars  BY <1>2, <1>7 DEF vars
<1> QED BY <1>1, <1>3, <1>4, <1>5, <1>6, <1>7 DEF Next, EaStep

\* The journal line of the command in progress.
LEMMA JournalStep ==
    ASSUME TypeOK, OrdersIssued, AcksProduced, JournalInStep, [Next]_vars
    PROVE  JournalInStep'
<1> USE DEF files, python, journals, ea, terminal, faults, history
<1>1. CASE Publish
  <2>1. nextCommand \in Command  BY <1>1, ConstantsAssumption DEF Publish, TypeOK, Command
  <2>2. PICK o \in Proposals(mem, nextCommand) :
            IF RepublishAllowed(mem, control, o.id)
              THEN /\ control' = o
                   /\ order' = o
                   /\ issued' = [issued EXCEPT ![o.id] = o]
                   /\ nextCommand' = nextCommand + 1
                   /\ Goto(IF o.action = "NONE" THEN "save" ELSE "published")
              ELSE /\ Goto("save")
                   /\ UNCHANGED <<control, order, issued, nextCommand>>
    BY <1>1 DEF Publish
  <2>3. o.id = nextCommand  BY <2>1, ProposalsType DEF TypeOK
  <2>4. UNCHANGED <<journal, mem>>  BY <1>1 DEF Publish
  <2>5. CASE ~RepublishAllowed(mem, control, o.id)
    BY <2>2, <2>4, <2>5 DEF JournalInStep, Goto, Unsettled
  <2>6. CASE RepublishAllowed(mem, control, o.id)
    <3>1. order' = o /\ nextCommand' = nextCommand + 1 /\ pc' \in {"save", "published"}
      BY <2>2, <2>6 DEF Goto
    <3>2. journal[nextCommand] = "ABSENT"
      BY <2>1, ConstantsAssumption DEF JournalInStep, Command
    <3>3. o # NoOrder  BY <2>1, <2>3, ConstantsAssumption DEF NoOrder, NoCommand, Command
    <3>4. \A c \in Command : c >= nextCommand' => c >= nextCommand
      BY <2>1, <3>1, ConstantsAssumption DEF Command
    <3> QED BY <2>3, <2>4, <3>1, <3>2, <3>3, <3>4 DEF JournalInStep, Unsettled
  <2> QED BY <2>5, <2>6
<1>2. CASE LogIntent
  <2>1. order # NoOrder /\ IssuedOrder(order)
    BY <1>2 DEF LogIntent, JournalInStep, OrdersIssued
  <2>2. /\ journal' = [journal EXCEPT ![order.id] = "INTENT"] /\ pc' = "waiting"
        /\ UNCHANGED <<order, nextCommand>>
    BY <1>2 DEF LogIntent, Goto
  <2>3. journal \in [Command -> {"ABSENT", "INTENT"} \cup Verdict] /\ nextCommand \in Nat
    BY ConstantsAssumption DEF TypeOK
  <2>4. journal'[order.id] = "INTENT"  BY <2>1, <2>2, <2>3 DEF IssuedOrder
  <2>5. \A c \in Command : c >= nextCommand => journal'[c] = "ABSENT"
    <3>1. \A c \in Command : c >= nextCommand => c # order.id
      BY <2>1, <2>3, ConstantsAssumption DEF IssuedOrder, Command
    <3> QED BY <2>2, <2>3, <3>1 DEF JournalInStep
  <2> QED BY <2>1, <2>2, <2>4, <2>5 DEF JournalInStep, Unsettled
<1>3. CASE AckArrives
  <2>1. mem'.last_ack_status \in AckStatus /\ mem'.last_command_id = order.id
    BY <1>3, ApplyAckVerdict DEF AckArrives, AckMatches, TypeOK, Ack
  <2> QED BY <1>3, <2>1 DEF AckArrives, Goto, JournalInStep, Unsettled
<1>4. CASE AckTimesOut
  <2>1. mem'.last_ack_status = "TIMEOUT"
    BY <1>4 DEF AckTimesOut, UpdateExecution, TypeOK, InstanceState
  <2> QED BY <1>4, <2>1 DEF AckTimesOut, Goto, JournalInStep, Unsettled
<1>5. ASSUME NEW at \in {"recordAck", "recordTimeout"}, NEW target \in {"ackControl", "save"},
             SettleLine(at, target)
      PROVE  JournalInStep'
  <2>1. order # NoOrder /\ IssuedOrder(order)
    BY <1>5 DEF SettleLine, JournalInStep, Unsettled, OrdersIssued
  <2>2. /\ journal' = [journal EXCEPT ![order.id] = mem.last_ack_status]
        /\ pc' \in {"ackControl", "save"} /\ UNCHANGED nextCommand
    BY <1>5 DEF SettleLine, Goto
  <2>3. journal \in [Command -> {"ABSENT", "INTENT"} \cup Verdict] /\ nextCommand \in Nat
    BY ConstantsAssumption DEF TypeOK
  <2>4. \A c \in Command : c >= nextCommand => c # order.id
    BY <2>1, <2>3, ConstantsAssumption DEF IssuedOrder, Command
  <2>5. \A c \in Command : c >= nextCommand => journal'[c] = "ABSENT"
    BY <2>2, <2>3, <2>4 DEF JournalInStep
  <2> QED BY <2>2, <2>5 DEF JournalInStep, Unsettled
<1>6. CASE RecordAck \/ RecordTimeout  BY <1>5, <1>6 DEF RecordAck, RecordTimeout
<1>7. ASSUME UNCHANGED <<journal, nextCommand, mem, order>>,
             \/ pc' = pc
             \/ pc = "timeoutControl" /\ pc' = "timeoutAck"
             \/ pc = "timeoutAck" /\ pc' = "recordTimeout"
      PROVE  JournalInStep'
  BY <1>7 DEF JournalInStep, Unsettled
<1>8. ASSUME UNCHANGED <<journal, nextCommand>>, pc' \notin Unsettled \cup {"published"}
      PROVE  JournalInStep'
  BY <1>8 DEF JournalInStep, Unsettled
<1>9. CASE Archive
  BY <1>7, <1>8, <1>9 DEF Archive, ArchiveControl, ArchiveAck, Goto, Unsettled
<1>10. CASE BeginCycle \/ SkipExecution \/ StaleAckRaises \/ SaveState \/ Recover \/ RecoverSync
  BY <1>8, <1>10 DEF BeginCycle, SkipExecution, StaleAckRaises, SaveState, Recover, RecoverSync,
     Goto, Unsettled
<1>11. CASE Crash \/ Shutdown \/ CycleRaises
  BY <1>8, <1>11 DEF Crash, Shutdown, CycleRaises, Goto, Unsettled
<1>12. CASE EaStep \/ EaExport
  BY <1>7, <1>12 DEF EaStep, EaPickUp, EaExecute, EaOpens, EaCloses, EaModifies, EaConfirmsNone,
     EaRefuses, Acknowledge, EaWriteAck, EaExport
<1>13. CASE EaAckWriteFails \/ EaRestart \/ ExternalClose
  BY <1>7, <1>13 DEF EaAckWriteFails, EaRestart, ExternalClose
<1>14. CASE UNCHANGED vars  BY <1>7, <1>14 DEF vars
<1> QED
  BY <1>1, <1>2, <1>3, <1>4, <1>6, <1>9, <1>10, <1>11, <1>12, <1>13, <1>14
     DEF Next, PythonStep, ExecutionEngine, Fault

\* The verdicts: what is saved, believed or journalled was produced.
LEMMA ProvenanceStep ==
    ASSUME ChannelInv, [Next]_vars
    PROVE  AckProvenance'
<1> USE DEF files, python, journals, ea, terminal, faults, history
<1> DEFINE Backed(s) == s.last_ack_status \in AckStatus =>
                /\ s.last_command_id \in Command
                /\ Produced(s.last_command_id, s.last_ack_status)
           ProducedNext(c, v) == \E a \in outcome'[c] : a.status = v
           BackedNext(s) == s.last_ack_status \in AckStatus =>
                /\ s.last_command_id \in Command
                /\ ProducedNext(s.last_command_id, s.last_ack_status)
<1>1. \A c \in Command : outcome[c] \subseteq outcome'[c]
  BY HistoryGrows DEF ChannelInv
<1>2. \A c \in Command : \A v : Produced(c, v) => ProducedNext(c, v)
  BY <1>1 DEF Produced
<1>3. Backed(disk) /\ Backed(mem) /\ \A c \in Command : journal[c] \in AckStatus => Produced(c, journal[c])
  BY DEF ChannelInv, AckProvenance
<1>4. disk \in InstanceState /\ mem \in InstanceState /\ ack \in Ack
  BY DEF ChannelInv, TypeOK
<1>5. ASSUME BackedNext(disk'), BackedNext(mem'), UNCHANGED journal
      PROVE  AckProvenance'
  BY <1>2, <1>3, <1>5 DEF AckProvenance, Produced
<1>6. ASSUME UNCHANGED disk PROVE BackedNext(disk')  BY <1>2, <1>3, <1>6
<1>7. ASSUME UNCHANGED mem PROVE BackedNext(mem')  BY <1>2, <1>3, <1>7
<1>8. ASSUME NEW s \in InstanceState, NEW o, ack # NoAck, mem' = ApplyAck(s, o, ack)
      PROVE  BackedNext(mem')
  <2>1. ack.id \in Command /\ ack \in outcome[ack.id]
    BY <1>8 DEF ChannelInv, AcksProduced
  <2>2. ProducedNext(ack.id, ack.status)  BY <1>1, <2>1
  <2>3. mem'.last_command_id = ack.id /\ mem'.last_ack_status = ack.status
    BY <1>8, ApplyAckVerdict
  <2> QED BY <2>1, <2>2, <2>3
<1>9. ASSUME NEW s \in InstanceState, NEW id, mem' = UpdateExecution(s, id, "TIMEOUT")
      PROVE  BackedNext(mem')
  BY <1>9 DEF UpdateExecution, InstanceState, AckStatus
<1>10. ASSUME NEW s \in InstanceState, Backed(s), mem' = Reconcile(s, status)
       PROVE  BackedNext(mem')
  <2>1. /\ mem'.last_command_id = s.last_command_id
        /\ mem'.last_ack_status = s.last_ack_status
    BY <1>10, ReconcileVerdict
  <2> QED BY <1>2, <1>10, <2>1
<1>11. ASSUME mem' = BlankState PROVE BackedNext(mem')  BY <1>11 DEF BlankState, AckStatus
<1> HIDE DEF Backed, BackedNext
<1>12. CASE BeginCycle  BY <1>3, <1>4, <1>5, <1>6, <1>10, <1>12 DEF BeginCycle
<1>13. CASE AckArrives  BY <1>4, <1>5, <1>6, <1>8, <1>13 DEF AckArrives
<1>14. CASE AckTimesOut  BY <1>4, <1>5, <1>6, <1>9, <1>14 DEF AckTimesOut
<1>15. CASE Recover
  <2>1. UNCHANGED <<disk, journal>>  BY <1>15 DEF Recover
  <2>2. CASE ~Unconfirmed(disk, control)
    <3>1. mem' = disk  BY <1>15, <2>2 DEF Recover
    <3>2. BackedNext(mem')  BY <1>2, <1>3, <3>1 DEF Backed, BackedNext
    <3> QED BY <1>5, <1>6, <2>1, <3>2
  <2>3. CASE Unconfirmed(disk, control) /\ ack # NoAck /\ AckMatches(ack, control)
    BY <1>4, <1>5, <1>6, <1>8, <1>15, <2>1, <2>3 DEF Recover
  <2>4. CASE Unconfirmed(disk, control) /\ ~(ack # NoAck /\ AckMatches(ack, control))
    BY <1>4, <1>5, <1>6, <1>9, <1>15, <2>1, <2>4 DEF Recover
  <2> QED BY <2>2, <2>3, <2>4
<1>16. CASE RecoverSync
  BY <1>3, <1>4, <1>5, <1>6, <1>7, <1>10, <1>16 DEF RecoverSync
<1>17. CASE SaveState \/ Shutdown
  <2>1. disk' = mem /\ UNCHANGED journal  BY <1>17 DEF SaveState, Shutdown
  <2>2. BackedNext(disk')  BY <1>2, <1>3, <2>1 DEF Backed, BackedNext
  <2>3. BackedNext(mem')  BY <1>7, <1>11, <1>17 DEF SaveState, Shutdown
  <2> QED BY <1>5, <2>1, <2>2, <2>3
<1>18. CASE Crash  BY <1>5, <1>6, <1>11, <1>18 DEF Crash
<1>19. ASSUME NEW at \in {"recordAck", "recordTimeout"}, NEW target, SettleLine(at, target)
       PROVE  AckProvenance'
  <2>1. journal' = [journal EXCEPT ![order.id] = mem.last_ack_status] /\ UNCHANGED <<disk, mem>>
    BY <1>19 DEF SettleLine
  <2>2. mem.last_ack_status \in AckStatus => Produced(order.id, mem.last_ack_status)
    BY <1>3, <1>19 DEF Backed, SettleLine, ChannelInv, JournalInStep, AckStatus
  <2>3. journal \in [Command -> {"ABSENT", "INTENT"} \cup Verdict]
    BY DEF ChannelInv, TypeOK
  <2>4. ASSUME NEW c \in Command, journal'[c] \in AckStatus  PROVE ProducedNext(c, journal'[c])
    BY <1>2, <1>3, <2>1, <2>2, <2>3, <2>4
  <2>5. BackedNext(disk') /\ BackedNext(mem')  BY <1>6, <1>7, <2>1
  <2> QED BY <2>4, <2>5 DEF AckProvenance, Produced, BackedNext
<1>20. CASE RecordAck \/ RecordTimeout  BY <1>19, <1>20 DEF RecordAck, RecordTimeout
<1>21. CASE LogIntent
  <2>1. journal' = [journal EXCEPT ![order.id] = "INTENT"] /\ UNCHANGED <<disk, mem>>
    BY <1>21 DEF LogIntent
  <2>2. journal \in [Command -> {"ABSENT", "INTENT"} \cup Verdict]
    BY DEF ChannelInv, TypeOK
  <2>3. ASSUME NEW c \in Command, journal'[c] \in AckStatus  PROVE ProducedNext(c, journal'[c])
    BY <1>2, <1>3, <2>1, <2>2, <2>3 DEF AckStatus
  <2>4. BackedNext(disk') /\ BackedNext(mem')  BY <1>6, <1>7, <2>1
  <2> QED BY <2>3, <2>4 DEF AckProvenance, Produced, BackedNext
<1>22. ASSUME UNCHANGED <<disk, mem, journal>>  PROVE AckProvenance'
  BY <1>5, <1>6, <1>7, <1>22
<1>23. CASE SkipExecution \/ Publish \/ StaleAckRaises \/ Archive
  BY <1>22, <1>23 DEF SkipExecution, Publish, StaleAckRaises, Archive, ArchiveControl, ArchiveAck
<1>24. CASE EaStep \/ EaExport
  BY <1>22, <1>24 DEF EaStep, EaPickUp, EaExecute, EaOpens, EaCloses, EaModifies, EaConfirmsNone,
     EaRefuses, Acknowledge, EaWriteAck, EaExport
<1>25. CASE CycleRaises \/ EaAckWriteFails \/ EaRestart \/ ExternalClose
  BY <1>22, <1>25 DEF CycleRaises, EaAckWriteFails, EaRestart, ExternalClose
<1>26. CASE UNCHANGED vars  BY <1>22, <1>26 DEF vars
<1> QED
  BY <1>12, <1>13, <1>14, <1>15, <1>16, <1>17, <1>18, <1>20, <1>21, <1>23, <1>24, <1>25, <1>26
     DEF Next, PythonStep, ExecutionEngine, Fault

\* The budget: only the newest command can be picked up, and a command the EA
\* does not remember has lost an ack write or a restart for every run.
LEMMA BudgetStep ==
    ASSUME TypeOK, OrdersIssued, AcksProduced, EaBudget, [Next]_vars
    PROVE  EaBudget'
<1> USE DEF files, python, journals, ea, terminal, faults, history
<1>1. /\ nextCommand \in Nat /\ eaLast \in Nat /\ eaOrder.id \in Nat
      /\ eaRestarts \in Nat /\ ackFailures \in Nat /\ Losses \in Nat /\ repeats \in Nat
      /\ Command \subseteq Nat /\ NoOrder.id = NoCommand /\ NoCommand \notin Command
  <2>1. eaOrder.id \in Command \cup {NoCommand}  BY DEF TypeOK, Order
  <2>2. Command \subseteq Nat /\ NoCommand \in Nat
    BY ConstantsAssumption DEF Command, NoCommand
  <2>3. eaRestarts \in Nat /\ ackFailures \in Nat  BY ConstantsAssumption DEF TypeOK
  <2>4. nextCommand \in Nat  BY ConstantsAssumption DEF TypeOK
  <2>5. eaLast \in Nat /\ repeats \in Nat  BY <2>2 DEF TypeOK
  <2>6. Losses \in Nat  BY <2>3 DEF Losses
  <2>7. NoOrder.id = NoCommand /\ NoCommand \notin Command
    BY DEF NoOrder, NoCommand, Command
  <2> QED BY <2>1, <2>2, <2>3, <2>4, <2>5, <2>6, <2>7
<1>2. ASSUME UNCHANGED <<ea, nextCommand, outcome, repeats, eaRestarts, ackFailures>>
      PROVE  EaBudget'
  BY <1>2 DEF EaBudget, Losses, MayRepeat, HeldAgain, Forgotten, Ran
<1>3. CASE Publish
  <2>1. UNCHANGED <<ea, outcome, repeats, eaRestarts, ackFailures>>  BY <1>3 DEF Publish
  <2>2. nextCommand' \in {nextCommand, nextCommand + 1}  BY <1>3 DEF Publish
  <2>3. CASE nextCommand' = nextCommand + 1
    <3>1. eaLast < nextCommand'  BY <1>1, <2>3 DEF EaBudget
    <3>2. \A c \in Command : c >= nextCommand' => ~Ran(c)
      BY <1>1, <2>3 DEF EaBudget
    <3>3. \A c \in Command : c = nextCommand' - 1 => ~Ran(c)
      BY <1>1, <2>3 DEF EaBudget
    <3>4. HeldAgain => repeats < Losses  BY DEF EaBudget, MayRepeat
    <3> QED BY <2>1, <3>1, <3>2, <3>3, <3>4
            DEF EaBudget, Losses, MayRepeat, HeldAgain, Forgotten, Ran
  <2> QED BY <1>2, <2>1, <2>2, <2>3
<1>4. CASE EaPickUp
  <2>1. /\ control # NoOrder /\ control.id # eaLast /\ eaOrder = NoOrder /\ eaOrder' = control
        /\ UNCHANGED <<eaLast, eaAck, outcome, repeats, nextCommand, eaRestarts, ackFailures>>
    BY <1>4 DEF EaPickUp, AlreadyProcessed
  <2>2. control.id \in Command /\ control.id = nextCommand - 1
    BY <2>1 DEF OrdersIssued, IssuedOrder
  <2>3. eaLast < control.id  BY <1>1, <2>1, <2>2 DEF EaBudget
  <2>4. \A c \in Command : c > control.id => ~Ran(c)  BY <1>1, <2>2 DEF EaBudget
  <2>5. Ran(control.id) => repeats < Losses
    BY <1>1, <2>1, <2>2 DEF EaBudget, MayRepeat, Forgotten
  <2>6. \A c \in Command : ~(c = nextCommand - 1 /\ c # control.id)  BY <2>2
  <2> QED BY <2>1, <2>2, <2>3, <2>4, <2>5, <2>6
          DEF EaBudget, Losses, MayRepeat, HeldAgain, Forgotten, Ran
<1>5. CASE EaExecute
  <2>1. PICK v, t : Acknowledge(v, t)
    BY <1>5 DEF EaExecute, EaOpens, EaCloses, EaModifies, EaConfirmsNone, EaRefuses
  <2>2. /\ eaOrder # NoOrder /\ eaAck = NoAck /\ eaOrder.id \in Command
        /\ eaOrder.id < nextCommand
    BY <1>5 DEF EaExecute, OrdersIssued, IssuedOrder
  <2>3. /\ outcome' = [outcome EXCEPT ![eaOrder.id] = @ \cup {eaAck'}]
        /\ repeats' = IF outcome[eaOrder.id] = {} THEN repeats ELSE repeats + 1
        /\ eaAck'.id = eaOrder.id
        /\ UNCHANGED <<eaOrder, eaLast, nextCommand, eaRestarts, ackFailures>>
    BY <2>1 DEF Acknowledge
  <2>4. eaAck' # NoAck  BY <2>2, <2>3 DEF NoAck, NoCommand, Command
  <2>5. \A c \in Command : c # eaOrder.id => outcome'[c] = outcome[c]  BY <2>3 DEF TypeOK
  <2>6. Losses' = Losses  BY <2>3 DEF Losses
  <2>7. Ran(eaOrder.id) => repeats < Losses
    BY <2>2 DEF EaBudget, MayRepeat, HeldAgain
  <2>8. repeats' <= Losses
    BY <1>1, <2>3, <2>7 DEF EaBudget, Ran
  <2>9. ASSUME NEW c \in Command, c >= nextCommand \/ c > eaOrder.id
        PROVE  ~Ran(c)'
    <3>1. ~Ran(c)  BY <2>2, <2>9 DEF EaBudget
    <3>2. c # eaOrder.id  BY <1>1, <2>2, <2>9
    <3> QED BY <2>5, <3>1, <3>2 DEF Ran
  <2>10. ~MayRepeat'
    <3>1. ~HeldAgain'  BY <2>4 DEF HeldAgain
    <3>2. ASSUME NEW c \in Command, Forgotten(c)'  PROVE FALSE
      <4>1. c = nextCommand - 1 /\ c # eaOrder.id /\ Ran(c)'
        BY <2>3, <3>2 DEF Forgotten
      <4>2. c > eaOrder.id  BY <1>1, <2>2, <4>1
      <4> QED BY <2>9, <4>1, <4>2
    <3> QED BY <3>1, <3>2 DEF MayRepeat
  <2> QED BY <2>2, <2>3, <2>6, <2>8, <2>9, <2>10 DEF EaBudget, Ran
<1>6. CASE EaWriteAck
  <2>1. /\ eaAck # NoAck /\ eaLast' = eaOrder.id /\ eaOrder' = NoOrder /\ eaAck' = NoAck
        /\ UNCHANGED <<outcome, repeats, nextCommand, eaRestarts, ackFailures>>
    BY <1>6 DEF EaWriteAck
  <2>2. /\ eaOrder # NoOrder /\ eaOrder.id \in Command /\ eaOrder.id < nextCommand
    BY <2>1 DEF AcksProduced, OrdersIssued, IssuedOrder
  <2>3. Losses' = Losses  BY <2>1 DEF Losses
  <2>4. ~MayRepeat'
    <3>1. ~HeldAgain'  BY <2>1 DEF HeldAgain
    <3>2. ASSUME NEW c \in Command, Forgotten(c)'  PROVE FALSE
      <4>1. c = nextCommand - 1 /\ c # eaOrder.id /\ Ran(c)
        BY <2>1, <3>2 DEF Forgotten, Ran
      <4>2. c > eaOrder.id  BY <1>1, <2>2, <4>1
      <4> QED BY <2>2, <4>1, <4>2 DEF EaBudget
    <3> QED BY <3>1, <3>2 DEF MayRepeat
  <2> QED BY <2>1, <2>2, <2>3, <2>4 DEF EaBudget, Ran
<1>7. CASE EaAckWriteFails \/ EaRestart
  <2>1. /\ eaOrder' = NoOrder /\ eaAck' = NoAck /\ eaLast' \in {eaLast, NoCommand}
        /\ UNCHANGED <<outcome, repeats, nextCommand>>
    BY <1>7 DEF EaAckWriteFails, EaRestart
  <2>2. Losses' = Losses + 1
    BY <1>1, <1>7 DEF EaAckWriteFails, EaRestart, Losses
  <2>3. repeats < Losses' /\ repeats <= Losses'  BY <1>1, <2>2 DEF EaBudget
  <2>4. nextCommand >= 1  BY ConstantsAssumption DEF TypeOK
  <2>5. eaLast' < nextCommand  BY <1>1, <2>1, <2>4 DEF EaBudget, NoCommand
  <2> QED BY <2>1, <2>3, <2>5 DEF EaBudget, Ran
<1>8. CASE PythonStep /\ ~Publish
  BY <1>2, <1>8 DEF PythonStep, ExecutionEngine, BeginCycle, SkipExecution,
     LogIntent, AckArrives, StaleAckRaises, AckTimesOut, RecordAck, RecordTimeout, SettleLine,
     Archive, ArchiveControl, ArchiveAck, SaveState, Recover, RecoverSync
<1>9. CASE Crash \/ Shutdown \/ CycleRaises \/ ExternalClose \/ EaExport
  BY <1>2, <1>9 DEF Crash, Shutdown, CycleRaises, ExternalClose, EaExport
<1>10. CASE UNCHANGED vars  BY <1>2, <1>10 DEF vars
<1> QED BY <1>3, <1>4, <1>5, <1>6, <1>7, <1>8, <1>9, <1>10
        DEF Next, PythonStep, ExecutionEngine, EaStep, Fault

-----------------------------------------------------------------------------
(* The invariant and what follows from it.                                 *)

LEMMA InitInv == Init => ChannelInv
<1> SUFFICES ASSUME Init PROVE ChannelInv  OBVIOUS
<1>1. TypeOK  BY InitType
<1>2. OrdersIssued /\ AcksProduced /\ JournalInStep
  BY DEF Init, OrdersIssued, AcksProduced, JournalInStep, Unsettled
<1>3. EaBudget
  BY ConstantsAssumption
     DEF Init, EaBudget, MayRepeat, HeldAgain, Forgotten, Ran, Losses, NoOrder, NoAck,
         NoCommand, Command
<1>4. AckProvenance
  <2>1. BlankState.last_ack_status \notin AckStatus  BY DEF BlankState, AckStatus
  <2>2. \A c \in Command : journal[c] \notin AckStatus  BY DEF Init, AckStatus
  <2>3. disk = BlankState /\ mem = BlankState  BY DEF Init
  <2> QED BY <2>1, <2>2, <2>3 DEF AckProvenance
<1> QED BY <1>1, <1>2, <1>3, <1>4 DEF ChannelInv

LEMMA InvStep == ChannelInv /\ [Next]_vars => ChannelInv'
<1> SUFFICES ASSUME ChannelInv, [Next]_vars PROVE ChannelInv'  OBVIOUS
<1>1. TypeOK /\ OrdersIssued /\ AcksProduced /\ JournalInStep /\ EaBudget
  BY DEF ChannelInv
<1>2. TypeOK' /\ OrdersIssued' /\ AcksProduced' /\ JournalInStep' /\ EaBudget'
  BY <1>1, TypeStep, OrdersStep, AcksStep, JournalStep, BudgetStep
<1> QED BY <1>2, ProvenanceStep DEF ChannelInv

\* The inductive invariant holds in every reachable state.
THEOREM ChannelInvariant == Spec => []ChannelInv
BY InitInv, InvStep, PTL DEF Spec

\* Files, state, journal and EA memory keep their types.
THEOREM TypeCorrect == Spec => []TypeOK
<1>1. ChannelInv => TypeOK  BY DEF ChannelInv
<1> QED BY <1>1, ChannelInvariant, PTL

\* A recorded SUCCESS, FAILED or REJECTED is an outcome of that very command,
\* however many commands, crashes and lost acks there are.
THEOREM AcksAreGenuine == Spec => []AckProvenance
<1>1. ChannelInv => AckProvenance  BY DEF ChannelInv
<1> QED BY <1>1, ChannelInvariant, PTL

\* Repeats of all commands together are paid for by EA restarts and failed ack writes.
THEOREM BoundedExecution == Spec => []ExecutionBound
<1>1. ChannelInv => ExecutionBound  BY DEF ChannelInv, EaBudget, Losses, ExecutionBound
<1> QED BY <1>1, ChannelInvariant, PTL

\* The EA only ever starts on the command published last.
THEOREM NewestCommandOnly == Spec => PicksUpNewest
<1>1. ChannelInv /\ [Next]_vars =>
        [eaOrder = NoOrder /\ eaOrder' # NoOrder => eaOrder'.id = nextCommand - 1]_vars
  <2> SUFFICES ASSUME ChannelInv, Next, eaOrder = NoOrder, eaOrder' # NoOrder
               PROVE  eaOrder'.id = nextCommand - 1
    OBVIOUS
  <2> USE DEF files, python, journals, ea, terminal, faults, history
  <2>1. EaPickUp
    BY DEF Next, PythonStep, ExecutionEngine, EaStep, Fault, BeginCycle, SkipExecution, Publish,
       LogIntent, AckArrives, StaleAckRaises, AckTimesOut, RecordAck, RecordTimeout, SettleLine,
       Archive, ArchiveControl, ArchiveAck, SaveState, Recover, RecoverSync, Crash, Shutdown,
       CycleRaises, EaExecute, EaOpens, EaCloses, EaModifies, EaConfirmsNone, EaRefuses,
       Acknowledge, EaWriteAck, EaAckWriteFails, EaExport, EaRestart, ExternalClose
  <2> QED BY <2>1 DEF EaPickUp, ChannelInv, OrdersIssued
<1> QED BY <1>1, ChannelInvariant, PTL DEF Spec, PicksUpNewest

-----------------------------------------------------------------------------
(* Recovery, tickets, the story of the journal and the EA's memory: parts  *)
(* that rest on ChannelInv and not on each other.                          *)

\* Recovery goes on to the status only when no command is pending.
RecoverySettles ==
    /\ pc = "recoverAck" => control = NoOrder
    /\ RecoveryResolves

\* Every ticket anywhere was handed out for an OPEN of this instance.
Opened(t) ==
    \E c \in Command : /\ issued[c].action = "OPEN"
                       /\ \E a \in outcome[c] : a.status = "SUCCESS" /\ a.ticket = t
TicketsOpened ==
    /\ \A c \in Command : c >= nextCommand => outcome[c] = {}
    /\ \A t \in Ticket : positions[t] > 0 => Opened(t)
    /\ status.ticket # NoTicket => Opened(status.ticket)
    /\ disk.open_ticket # NoTicket => Opened(disk.open_ticket)
    /\ mem.open_ticket # NoTicket => Opened(mem.open_ticket)

\* The journal agrees with the saved verdict, and with the one in memory but for
\* the command in progress.
Withdrawing == {"timeoutControl", "timeoutAck", "recordTimeout"}
Agreed(state) ==
    state.last_command_id # NoCommand =>
        journal[state.last_command_id] = state.last_ack_status
OneStory ==
    /\ pc \in Withdrawing => mem.last_command_id = order.id
    /\ crashes + ioErrors = 0 =>
         /\ Agreed(disk)
         /\ pc \notin Withdrawing \cup {"recordAck", "idle", "down"} => Agreed(mem)
         /\ pc = "down" => control = NoOrder
         /\ pc \notin {"recoverControl", "recoverAck"}

\* A settled command is out of the control file or known to the EA.
Remembered ==
    /\ pc \in {"timeoutAck", "recordTimeout"} => control = NoOrder
    /\ control # NoOrder => journal[control.id] # "TIMEOUT"
    /\ eaRestarts = 0 =>
         /\ ack # NoAck => ack.id <= eaLast
         /\ pc = "recordAck" => order.id <= eaLast
         /\ \A c \in Command : journal[c] \in AckStatus => c <= eaLast

LEMMA RecoverySettlesStep ==
    ASSUME ChannelInv, RecoverySettles, [Next]_vars
    PROVE  RecoverySettles'
<1> USE DEF files, python, journals, ea, terminal, faults, history
<1>1. ASSUME pc' \notin {"recoverAck", "recoverSync", "recoverSave"}
      PROVE  RecoverySettles'
  BY <1>1 DEF RecoverySettles, RecoveryResolves
<1>2. ASSUME UNCHANGED <<pc, control, mem>>  PROVE RecoverySettles'
  BY <1>2 DEF RecoverySettles, RecoveryResolves, Unconfirmed
<1>3. CASE Archive
  <2>1. ASSUME control' = NoOrder  PROVE RecoverySettles'
    BY <2>1 DEF RecoverySettles, RecoveryResolves, Unconfirmed
  <2>2. CASE ArchiveAck("recoverAck", "recoverSync")
    BY <2>1, <2>2 DEF ArchiveAck, RecoverySettles
  <2>3. CASE ArchiveAck("ackAck", "save") \/ ArchiveAck("timeoutAck", "recordTimeout")
    BY <1>1, <2>3 DEF ArchiveAck, Goto
  <2> QED BY <1>3, <2>1, <2>2, <2>3 DEF Archive, ArchiveControl
<1>4. CASE Recover
  BY <1>4 DEF Recover, Goto, RecoverySettles, RecoveryResolves, Unconfirmed
<1>5. CASE RecoverSync
  <2>1. mem' = mem \/ mem' = Reconcile(mem, status)  BY <1>5 DEF RecoverSync
  <2>2. mem'.last_command_id = mem.last_command_id /\ mem'.last_ack_status = mem.last_ack_status
    BY <2>1, ReconcileVerdict DEF ChannelInv, TypeOK
  <2> QED BY <1>5, <2>2 DEF RecoverSync, Goto, RecoverySettles, RecoveryResolves, Unconfirmed
<1>6. CASE \/ BeginCycle \/ SkipExecution \/ Publish \/ LogIntent \/ AckArrives
           \/ StaleAckRaises \/ AckTimesOut \/ RecordAck \/ RecordTimeout \/ SaveState
  BY <1>1, <1>6 DEF BeginCycle, SkipExecution, Publish, LogIntent, AckArrives, StaleAckRaises,
     AckTimesOut, RecordAck, RecordTimeout, SettleLine, SaveState, Goto
<1>7. CASE Crash \/ Shutdown \/ CycleRaises
  BY <1>1, <1>7 DEF Crash, Shutdown, CycleRaises, Goto
<1>8. CASE EaStep \/ EaExport
  BY <1>2, <1>8 DEF EaStep, EaPickUp, EaExecute, EaOpens, EaCloses, EaModifies, EaConfirmsNone,
     EaRefuses, Acknowledge, EaWriteAck, EaExport
<1>9. CASE EaAckWriteFails \/ EaRestart \/ ExternalClose
  BY <1>2, <1>9 DEF EaAckWriteFails, EaRestart, ExternalClose
<1>10. CASE UNCHANGED vars  BY <1>2, <1>10 DEF vars
<1> QED
  BY <1>3, <1>4, <1>5, <1>6, <1>7, <1>8, <1>9, <1>10
     DEF Next, PythonStep, ExecutionEngine, Fault

\* What makes a ticket Opened is never forgotten: ids are not reused.
OpenedNext(t) ==
    \E c \in Command : /\ issued'[c].action = "OPEN"
                       /\ \E a \in outcome'[c] : a.status = "SUCCESS" /\ a.ticket = t
LEMMA OpenedStays ==
    ASSUME ChannelInv, TicketsOpened, [Next]_vars
    PROVE  /\ \A t : Opened(t) => OpenedNext(t)
           /\ \A c \in Command : c >= nextCommand' => outcome'[c] = {}
<1> USE DEF files, python, journals, ea, terminal, faults, history
<1>0. /\ nextCommand \in Nat /\ Command \subseteq Nat
      /\ issued \in [Command -> Order] /\ outcome \in [Command -> SUBSET Ack]
  <2>1. nextCommand \in Nat  BY ConstantsAssumption DEF ChannelInv, TypeOK
  <2> QED BY <2>1, ConstantsAssumption DEF ChannelInv, TypeOK, Command
<1>1. CASE Publish
  <2>1. PICK o \in Proposals(mem, nextCommand) :
            \/ issued' = [issued EXCEPT ![o.id] = o] /\ nextCommand' = nextCommand + 1
            \/ UNCHANGED <<issued, nextCommand>>
    BY <1>1 DEF Publish
  <2>2. nextCommand \in Command /\ UNCHANGED outcome
    BY <1>1, ConstantsAssumption DEF Publish, ChannelInv, TypeOK, Command
  <2>3. o.id = nextCommand  BY <2>2, ProposalsType DEF ChannelInv, TypeOK
  <2>4. \A c \in Command : outcome[c] # {} => issued'[c] = issued[c]
    BY <1>0, <2>1, <2>2, <2>3 DEF TicketsOpened
  <2>5. \A c \in Command : c >= nextCommand' => c >= nextCommand
    BY <1>0, <2>1
  <2> QED BY <2>2, <2>4, <2>5 DEF Opened, OpenedNext, TicketsOpened
<1>2. CASE EaExecute
  <2>1. PICK v, t : Acknowledge(v, t)
    BY <1>2 DEF EaExecute, EaOpens, EaCloses, EaModifies, EaConfirmsNone, EaRefuses
  <2>2. eaOrder.id \in Command /\ eaOrder.id < nextCommand
    BY <1>2 DEF EaExecute, ChannelInv, OrdersIssued, IssuedOrder
  <2>3. \A c \in Command : c # eaOrder.id => outcome'[c] = outcome[c]
    BY <1>0, <2>1 DEF Acknowledge
  <2>4. \A c \in Command : c >= nextCommand => c # eaOrder.id  BY <1>0, <2>2
  <2>5. \A c \in Command : outcome[c] \subseteq outcome'[c]
    BY HistoryGrows DEF ChannelInv
  <2>6. UNCHANGED <<issued, nextCommand>>  BY <2>1 DEF Acknowledge
  <2> QED BY <2>3, <2>4, <2>5, <2>6 DEF Opened, OpenedNext, TicketsOpened
<1>3. ~Publish /\ ~EaExecute => UNCHANGED <<issued, outcome, nextCommand>>
  BY DEF Next, PythonStep, ExecutionEngine, EaStep, Fault, vars, BeginCycle, SkipExecution,
         LogIntent, AckArrives, StaleAckRaises, AckTimesOut, RecordAck, RecordTimeout,
         SettleLine, Archive, ArchiveControl, ArchiveAck, SaveState, Recover, RecoverSync,
         Crash, Shutdown, CycleRaises, EaPickUp, EaWriteAck, EaAckWriteFails, EaExport,
         EaRestart, ExternalClose
<1> QED BY <1>1, <1>2, <1>3 DEF Opened, OpenedNext, TicketsOpened

\* Which ticket the operators on InstanceState leave behind.
StateFields == {"open_ticket", "position_volume", "partial_close_applied",
                "last_command_id", "last_ack_status"}
LEMMA StateDomain ==
    ASSUME NEW s \in InstanceState
    PROVE  DOMAIN s = StateFields
BY DEF InstanceState, StateFields

LEMMA PositionTicket ==
    ASSUME NEW r, DOMAIN r = StateFields
    PROVE  /\ \A t, v : UpdatePosition(r, t, v).open_ticket = t
           /\ ClearPosition(r).open_ticket = NoTicket
           /\ \A v : ReducePosition(r, v).open_ticket \in {r.open_ticket, NoTicket}
BY DEF UpdatePosition, ClearPosition, ReducePosition, StateFields

LEMMA ExecutionTicket ==
    ASSUME NEW s \in InstanceState, NEW id, NEW v
    PROVE  /\ UpdateExecution(s, id, v).open_ticket = s.open_ticket
           /\ DOMAIN UpdateExecution(s, id, v) = StateFields
BY StateDomain DEF UpdateExecution, StateFields

LEMMA ReconcileTicket ==
    ASSUME NEW s \in InstanceState, NEW st
    PROVE  Reconcile(s, st).open_ticket \in {s.open_ticket, st.ticket, NoTicket}
<1>1. DOMAIN s = StateFields  BY StateDomain
<1> QED BY <1>1, PositionTicket DEF Reconcile

LEMMA ApplyAckTicket ==
    ASSUME NEW s \in InstanceState, NEW o, NEW a
    PROVE  \/ ApplyAck(s, o, a).open_ticket \in {s.open_ticket, NoTicket}
           \/ /\ a.status = "SUCCESS" /\ o.action = "OPEN"
              /\ ApplyAck(s, o, a).open_ticket = a.ticket
<1> DEFINE c == UpdateExecution(s, a.id, a.status)
<1>1. c.open_ticket = s.open_ticket /\ DOMAIN c = StateFields  BY ExecutionTicket
<1> HIDE DEF c
<1>2. /\ UpdatePosition(c, a.ticket, o.volume).open_ticket = a.ticket
      /\ ClearPosition(c).open_ticket = NoTicket
      /\ ReducePosition(c, o.volume).open_ticket \in {s.open_ticket, NoTicket}
  BY <1>1, PositionTicket
<1> QED BY <1>1, <1>2 DEF ApplyAck, c

\* The newest open ticket is open.
LEMMA SnapshotOpened ==
    ASSUME ChannelInv, TicketsOpened, status' = Snapshot, status'.ticket # NoTicket
    PROVE  Opened(status'.ticket)
<1>1. NewestTicket \in OpenTickets \cup {NoTicket}  BY SnapshotType DEF ChannelInv, TypeOK
<1> QED BY <1>1 DEF Snapshot, TicketsOpened, OpenTickets

LEMMA TicketsStep ==
    ASSUME ChannelInv, TicketsOpened, [Next]_vars
    PROVE  TicketsOpened'
<1> USE DEF files, python, journals, ea, terminal, faults, history
<1> DEFINE Good(t) == t # NoTicket => OpenedNext(t)
<1>0. /\ \A t : Opened(t) => OpenedNext(t)
      /\ \A c \in Command : c >= nextCommand' => outcome'[c] = {}
  BY OpenedStays
<1>1. /\ Good(status.ticket) /\ Good(disk.open_ticket) /\ Good(mem.open_ticket)
      /\ \A t \in Ticket : positions[t] > 0 => OpenedNext(t)
      /\ Good(NoTicket)
  BY <1>0 DEF TicketsOpened
<1>2. mem \in InstanceState /\ disk \in InstanceState  BY DEF ChannelInv, TypeOK
<1>3. ASSUME Good(status'.ticket), Good(disk'.open_ticket), Good(mem'.open_ticket),
             \A t \in Ticket : positions'[t] > 0 => OpenedNext(t)
      PROVE  TicketsOpened'
  BY <1>0, <1>3 DEF TicketsOpened, Opened, OpenedNext
<1>4. ASSUME UNCHANGED <<status, positions>>, Good(disk'.open_ticket), Good(mem'.open_ticket)
      PROVE  TicketsOpened'
  BY <1>1, <1>3, <1>4
<1>5. ASSUME UNCHANGED <<disk, mem>>, Good(status'.ticket),
             \A t \in Ticket : positions'[t] > 0 => OpenedNext(t)
      PROVE  TicketsOpened'
  BY <1>1, <1>3, <1>5
<1>6. ASSUME NEW s \in {disk, mem}
      PROVE  Good(Reconcile(s, status).open_ticket)
  <2>1. Reconcile(s, status).open_ticket \in {s.open_ticket, status.ticket, NoTicket}
    BY <1>2, ReconcileTicket
  <2>2. Good(s.open_ticket)  BY <1>1
  <2> HIDE DEF Good
  <2> QED BY <1>1, <2>1, <2>2
<1>7. ASSUME NEW s \in {disk, mem}, NEW o, IssuedOrder(o), ack # NoAck, ack.id = o.id,
             UNCHANGED <<issued, outcome>>
      PROVE  Good(ApplyAck(s, o, ack).open_ticket)
  <2>1. o.id \in Command /\ issued'[o.id] = o /\ ack \in outcome'[o.id]
    BY <1>7 DEF IssuedOrder, ChannelInv, AcksProduced
  <2>2. ack.status = "SUCCESS" /\ o.action = "OPEN" => OpenedNext(ack.ticket)
    BY <2>1 DEF OpenedNext
  <2>3. Good(s.open_ticket)  BY <1>1
  <2>4. \/ ApplyAck(s, o, ack).open_ticket \in {s.open_ticket, NoTicket}
        \/ /\ ack.status = "SUCCESS" /\ o.action = "OPEN"
           /\ ApplyAck(s, o, ack).open_ticket = ack.ticket
    BY <1>2, ApplyAckTicket
  <2>5. ack.status = "SUCCESS" /\ o.action = "OPEN" => Good(ack.ticket)  BY <2>2
  <2> HIDE DEF Good
  <2> QED BY <1>1, <2>3, <2>4, <2>5
<1>8. ASSUME NEW s \in {disk, mem}, NEW id, NEW v
      PROVE  Good(UpdateExecution(s, id, v).open_ticket)
  <2>1. UpdateExecution(s, id, v).open_ticket = s.open_ticket  BY <1>2, ExecutionTicket
  <2>2. Good(s.open_ticket)  BY <1>1
  <2> HIDE DEF Good
  <2> QED BY <2>1, <2>2
<1>9. Good(BlankState.open_ticket)  BY <1>1 DEF BlankState
<1> HIDE DEF Good
<1>10. CASE BeginCycle \/ RecoverSync
  BY <1>1, <1>4, <1>6, <1>10 DEF BeginCycle, RecoverSync
<1>11. CASE AckArrives
  <2>1. order # NoOrder  BY <1>11 DEF AckArrives, ChannelInv, JournalInStep, Unsettled
  <2>2. IssuedOrder(order)  BY <2>1 DEF ChannelInv, OrdersIssued
  <2> QED BY <1>1, <1>4, <1>7, <1>11, <2>2 DEF AckArrives, AckMatches
<1>12. CASE AckTimesOut  BY <1>1, <1>4, <1>8, <1>12 DEF AckTimesOut
<1>13. CASE Recover
  <2>1. Unconfirmed(disk, control) => IssuedOrder(control)
    BY DEF Unconfirmed, ChannelInv, OrdersIssued
  <2> QED BY <1>1, <1>4, <1>7, <1>8, <1>13, <2>1 DEF Recover, AckMatches
<1>14. CASE SaveState \/ Shutdown \/ Crash
  BY <1>1, <1>4, <1>9, <1>14 DEF SaveState, Shutdown, Crash
<1>15. CASE EaExport \/ EaAckWriteFails
  <2>1. status' = Snapshot /\ UNCHANGED <<disk, mem, positions>>
    BY <1>15 DEF EaExport, EaAckWriteFails
  <2>2. Good(status'.ticket)  BY <1>0, <2>1, SnapshotOpened DEF Good
  <2> QED BY <1>1, <1>5, <2>1, <2>2
<1>16. CASE EaExecute
  <2>1. UNCHANGED <<disk, mem, status>>
    BY <1>16 DEF EaExecute, EaOpens, EaCloses, EaModifies, EaConfirmsNone, EaRefuses, Acknowledge
  <2>2. CASE EaOpens
    <3>1. /\ eaOrder.id \in Command /\ issued[eaOrder.id] = eaOrder /\ eaOrder.action = "OPEN"
      BY <1>16, <2>2 DEF EaExecute, EaOpens, ChannelInv, OrdersIssued, IssuedOrder
    <3>2. Acknowledge("SUCCESS", nextTicket)  BY <2>2 DEF EaOpens
    <3>3. OpenedNext(nextTicket)
      BY <3>1, <3>2 DEF Acknowledge, OpenedNext, ChannelInv, TypeOK
    <3>4. \A t \in Ticket : positions'[t] > 0 => OpenedNext(t)
      BY <1>1, <2>2, <3>3 DEF EaOpens, ChannelInv, TypeOK
    <3> QED BY <1>1, <1>5, <2>1, <3>4
  <2>3. CASE EaCloses
    <3>1. eaOrder.ticket \in Ticket /\ positions[eaOrder.ticket] > 0
      BY <2>3 DEF EaCloses, OpenVolume
    <3>2. \A t \in Ticket : t # eaOrder.ticket => positions'[t] = positions[t]
      BY <2>3 DEF EaCloses, ChannelInv, TypeOK
    <3>3. \A t \in Ticket : positions'[t] > 0 => OpenedNext(t)  BY <1>1, <3>1, <3>2
    <3> QED BY <1>1, <1>5, <2>1, <3>3
  <2>4. CASE EaModifies \/ EaConfirmsNone \/ EaRefuses
    <3>1. UNCHANGED positions  BY <2>4 DEF EaModifies, EaConfirmsNone, EaRefuses
    <3> QED BY <1>1, <1>5, <2>1, <3>1
  <2> QED BY <1>16, <2>2, <2>3, <2>4 DEF EaExecute
<1>17. CASE ExternalClose
  <2>1. PICK u \in OpenTickets : positions' = [positions EXCEPT ![u] = 0]
    BY <1>17 DEF ExternalClose
  <2>2. \A t \in Ticket : positions'[t] > 0 => positions[t] > 0
    BY <2>1 DEF OpenTickets, ChannelInv, TypeOK
  <2> QED BY <1>1, <1>5, <1>17, <2>2 DEF ExternalClose
<1>18. ASSUME UNCHANGED <<disk, mem, status, positions>>  PROVE TicketsOpened'
  BY <1>1, <1>4, <1>18
<1>19. CASE \/ SkipExecution \/ Publish \/ LogIntent \/ StaleAckRaises \/ RecordAck
            \/ RecordTimeout \/ Archive
  BY <1>18, <1>19 DEF SkipExecution, Publish, LogIntent, StaleAckRaises, RecordAck,
     RecordTimeout, SettleLine, Archive, ArchiveControl, ArchiveAck
<1>20. CASE EaPickUp \/ EaWriteAck \/ EaRestart \/ CycleRaises
  BY <1>18, <1>20 DEF EaPickUp, EaWriteAck, EaRestart, CycleRaises
<1>21. CASE UNCHANGED vars  BY <1>18, <1>21 DEF vars
<1> QED
  BY <1>10, <1>11, <1>12, <1>13, <1>14, <1>15, <1>16, <1>17, <1>19, <1>20, <1>21
     DEF Next, PythonStep, ExecutionEngine, EaStep, Fault

\* A line that is not settled agrees with no state.
AgreedNext(state) ==
    state.last_command_id # NoCommand =>
        journal'[state.last_command_id] = state.last_ack_status
LEMMA UnsettledStatus ==
    ASSUME NEW s \in InstanceState
    PROVE  s.last_ack_status \notin {"ABSENT", "INTENT"}
BY DEF InstanceState, Verdict, AckStatus

LEMMA AgreedKept ==
    ASSUME TypeOK, NEW s \in InstanceState, Agreed(s), NEW c \in Command,
           journal[c] \in {"ABSENT", "INTENT"}, NEW v, journal' = [journal EXCEPT ![c] = v]
    PROVE  AgreedNext(s)
<1>1. s.last_command_id # NoCommand => s.last_command_id # c  BY UnsettledStatus DEF Agreed
<1>2. s.last_command_id \in Command \cup {NoCommand}  BY DEF InstanceState
<1>3. journal \in [Command -> {"ABSENT", "INTENT"} \cup Verdict]  BY DEF TypeOK
<1>4. s.last_command_id # NoCommand => journal'[s.last_command_id] = journal[s.last_command_id]
  BY <1>1, <1>2, <1>3
<1> QED BY <1>4 DEF Agreed, AgreedNext

LEMMA StoryStep ==
    ASSUME ChannelInv, OneStory, [Next]_vars
    PROVE  OneStory'
<1> USE DEF files, python, journals, ea, terminal, faults, history
<1> DEFINE Clean == crashes + ioErrors = 0
           Telling == Withdrawing \cup {"recordAck", "idle", "down"}
<1>0. /\ mem \in InstanceState /\ disk \in InstanceState
      /\ crashes \in Nat /\ ioErrors \in Nat /\ TypeOK
  BY ConstantsAssumption DEF ChannelInv, TypeOK
<1>1. ASSUME UNCHANGED <<crashes, ioErrors>>,
             pc' \in Withdrawing => mem'.last_command_id = order'.id,
             Clean => AgreedNext(disk'),
             Clean => (pc' \notin Telling => AgreedNext(mem')),
             Clean => pc' \notin {"down", "recoverControl", "recoverAck"}
      PROVE  OneStory'
  BY <1>1 DEF OneStory, Agreed, AgreedNext
<1>2. ASSUME UNCHANGED journal
      PROVE  /\ UNCHANGED disk => (Clean => AgreedNext(disk'))
             /\ UNCHANGED mem /\ pc \notin Telling => (Clean => AgreedNext(mem'))
  BY <1>2 DEF OneStory, Agreed, AgreedNext
<1>3. Clean => pc \notin {"recoverControl", "recoverAck"}  BY DEF OneStory
<1>4. CASE BeginCycle
  <2>1. /\ mem'.last_command_id = disk.last_command_id
        /\ mem'.last_ack_status = disk.last_ack_status
    BY <1>0, <1>4, ReconcileVerdict DEF BeginCycle
  <2>2. Clean => AgreedNext(mem')
    BY <1>4, <2>1 DEF BeginCycle, OneStory, Agreed, AgreedNext
  <2> QED BY <1>1, <1>2, <1>4, <2>2 DEF BeginCycle, Goto, Withdrawing
<1>5. CASE SkipExecution \/ Publish
  <2>1. pc = "decided" /\ pc' \in {"save", "published"}
    BY <1>5 DEF SkipExecution, Publish, Goto
  <2> QED BY <1>1, <1>2, <1>5, <2>1 DEF SkipExecution, Publish, Withdrawing
<1>6. CASE LogIntent
  <2>1. /\ order.id \in Command /\ journal[order.id] = "ABSENT"
        /\ journal' = [journal EXCEPT ![order.id] = "INTENT"]
    BY <1>6 DEF LogIntent, ChannelInv, JournalInStep, OrdersIssued, IssuedOrder
  <2>2. /\ Clean => Agreed(disk) /\ Agreed(mem)
        /\ UNCHANGED <<disk, mem, crashes, ioErrors>> /\ pc' = "waiting"
    BY <1>6 DEF LogIntent, OneStory, Withdrawing, Goto
  <2>3. Clean => AgreedNext(disk) /\ AgreedNext(mem)  BY <1>0, <2>1, <2>2, AgreedKept
  <2> QED BY <1>1, <2>2, <2>3 DEF Withdrawing
<1>7. CASE AckArrives
  BY <1>1, <1>2, <1>7 DEF AckArrives, Goto, Withdrawing
<1>8. CASE StaleAckRaises
  BY <1>1, <1>2, <1>8 DEF StaleAckRaises, Goto, Withdrawing
<1>9. CASE AckTimesOut
  <2>1. mem'.last_command_id = order.id
    BY <1>0, <1>9 DEF AckTimesOut, UpdateExecution, InstanceState
  <2> QED BY <1>1, <1>2, <1>9, <2>1 DEF AckTimesOut, Goto, Withdrawing
<1>10. ASSUME NEW at \in {"recordAck", "recordTimeout"}, NEW target \in {"ackControl", "save"},
              SettleLine(at, target)
       PROVE  OneStory'
  <2>1. /\ order.id \in Command /\ journal[order.id] = "INTENT"
        /\ journal' = [journal EXCEPT ![order.id] = mem.last_ack_status]
        /\ UNCHANGED <<disk, mem, crashes, ioErrors>> /\ pc' \in {"ackControl", "save"}
    BY <1>10 DEF SettleLine, Goto, ChannelInv, JournalInStep, Unsettled, OrdersIssued, IssuedOrder
  <2>2. Clean => AgreedNext(disk)  BY <1>0, <2>1, AgreedKept DEF OneStory
  <2>3. mem.last_command_id = order.id
    BY <1>10 DEF SettleLine, ChannelInv, JournalInStep, OneStory, Withdrawing
  <2>4. AgreedNext(mem)  BY <2>1, <2>3 DEF AgreedNext, ChannelInv, TypeOK
  <2> QED BY <1>1, <2>1, <2>2, <2>4 DEF Withdrawing
<1>11. CASE RecordAck \/ RecordTimeout  BY <1>10, <1>11 DEF RecordAck, RecordTimeout
<1>12. CASE Archive
  <2>1. UNCHANGED <<disk, mem, journal, order, crashes, ioErrors>>
    BY <1>12 DEF Archive, ArchiveControl, ArchiveAck
  <2>2. \/ pc \in {"ackControl", "ackAck"} /\ pc' \in {"ackAck", "save"}
        \/ pc \in {"timeoutControl", "timeoutAck"} /\ pc' \in {"timeoutAck", "recordTimeout"}
        \/ pc \in {"recoverControl", "recoverAck"} /\ pc' \in {"recoverAck", "recoverSync"}
    BY <1>12 DEF Archive, ArchiveControl, ArchiveAck, Goto
  <2>3. pc' \in Withdrawing => mem'.last_command_id = order'.id
    BY <2>1, <2>2 DEF OneStory, Withdrawing
  <2>4. Clean => (pc' \notin Telling => AgreedNext(mem'))
    BY <1>2, <1>3, <2>1, <2>2 DEF Withdrawing
  <2> QED BY <1>1, <1>2, <1>3, <2>1, <2>2, <2>3, <2>4
<1>13. CASE SaveState
  <2>1. Clean => AgreedNext(disk')
    BY <1>13 DEF SaveState, OneStory, Withdrawing, Agreed, AgreedNext
  <2> QED BY <1>1, <1>13, <2>1 DEF SaveState, Goto, Withdrawing
<1>14. CASE Recover
  <2>1. Clean => ~Unconfirmed(disk, control)
    BY <1>14 DEF Recover, OneStory, Unconfirmed
  <2>2. Clean => AgreedNext(mem') /\ pc' = "recoverSync"
    BY <1>14, <2>1 DEF Recover, Goto, OneStory, Agreed, AgreedNext
  <2>3. pc' \notin Withdrawing  BY <1>14 DEF Recover, Goto, Withdrawing
  <2> QED BY <1>1, <1>2, <1>14, <2>2, <2>3 DEF Recover
<1>15. CASE RecoverSync
  <2>1. mem' = mem \/ mem' = Reconcile(mem, status)  BY <1>15 DEF RecoverSync
  <2>2. mem'.last_command_id = mem.last_command_id /\ mem'.last_ack_status = mem.last_ack_status
    BY <1>0, <2>1, ReconcileVerdict
  <2>3. Clean => AgreedNext(mem')
    BY <1>15, <2>2 DEF RecoverSync, OneStory, Withdrawing, Agreed, AgreedNext
  <2> QED BY <1>1, <1>2, <1>15, <2>3 DEF RecoverSync, Goto, Withdrawing
<1>16. CASE Crash \/ Shutdown \/ CycleRaises
  <2>1. crashes' + ioErrors' # 0
    BY <1>0, <1>16 DEF Crash, Shutdown, CycleRaises
  <2> QED BY <1>16, <2>1 DEF Crash, Shutdown, CycleRaises, Goto, OneStory, Withdrawing
<1>17. ASSUME UNCHANGED <<pc, control, mem, disk, order, journal, crashes, ioErrors>>
       PROVE  OneStory'
  BY <1>17 DEF OneStory, Agreed
<1>18. CASE EaStep \/ EaExport
  BY <1>17, <1>18 DEF EaStep, EaPickUp, EaExecute, EaOpens, EaCloses, EaModifies,
     EaConfirmsNone, EaRefuses, Acknowledge, EaWriteAck, EaExport
<1>19. CASE EaAckWriteFails \/ EaRestart \/ ExternalClose
  BY <1>17, <1>19 DEF EaAckWriteFails, EaRestart, ExternalClose
<1>20. CASE UNCHANGED vars  BY <1>17, <1>20 DEF vars
<1> QED
  BY <1>4, <1>5, <1>6, <1>7, <1>8, <1>9, <1>11, <1>12, <1>13, <1>14, <1>15, <1>16,
     <1>18, <1>19, <1>20
     DEF Next, PythonStep, ExecutionEngine, Fault

LEMMA RememberedStep ==
    ASSUME ChannelInv, Remembered, [Next]_vars
    PROVE  Remembered'
<1> USE DEF files, python, journals, ea, terminal, faults, history
<1> DEFINE Loyal == eaRestarts = 0
           Late == {"timeoutAck", "recordTimeout"}
<1>0. /\ eaLast \in Nat /\ eaRestarts \in Nat /\ Command \subseteq Nat
      /\ journal \in [Command -> {"ABSENT", "INTENT"} \cup Verdict]
      /\ control # NoOrder => control.id \in Command
      /\ order # NoOrder => order.id \in Command
      /\ ack # NoAck => ack.id \in Command
      /\ eaOrder # NoOrder => eaOrder.id \in Command /\ eaLast < eaOrder.id
  <2>1. Command \subseteq Nat  BY ConstantsAssumption DEF Command
  <2> QED BY <2>1, ConstantsAssumption
          DEF ChannelInv, TypeOK, OrdersIssued, IssuedOrder, AcksProduced, EaBudget, NoCommand
\* Python without the journal: what it leaves of control and ack is as before.
<1>1. ASSUME control' \in {control, NoOrder}, ack' \in {ack, NoAck},
             UNCHANGED <<journal, eaLast>>, eaRestarts' = 0 => eaRestarts = 0,
             pc' \in Late => control' = NoOrder,
             Loyal => (pc' = "recordAck" => order'.id <= eaLast)
      PROVE  Remembered'
  BY <1>1 DEF Remembered
<1>2. CASE Publish
  <2>1. nextCommand \in Command  BY <1>2, ConstantsAssumption DEF Publish, ChannelInv, TypeOK, Command
  <2>2. PICK o \in Proposals(mem, nextCommand) : control' = o \/ control' = control
    BY <1>2 DEF Publish
  <2>3. o.id = nextCommand /\ journal[nextCommand] = "ABSENT"
    BY <1>0, <2>1, ProposalsType DEF ChannelInv, TypeOK, JournalInStep
  <2>4. UNCHANGED <<journal, ack, ea, eaRestarts>> /\ pc' \in {"save", "published"}
    BY <1>2 DEF Publish, Goto
  <2>5. control' # NoOrder => journal[control'.id] # "TIMEOUT"
    BY <2>2, <2>3 DEF Remembered
  <2> QED BY <2>4, <2>5 DEF Remembered
<1>3. ASSUME NEW c \in Command, NEW v, journal' = [journal EXCEPT ![c] = v],
             UNCHANGED <<control, ack, ea, eaRestarts>>,
             pc' \in {"waiting", "ackControl", "save"},
             v = "TIMEOUT" => control = NoOrder,
             Loyal => (v \in AckStatus => c <= eaLast)
      PROVE  Remembered'
  <2>1. \A d \in Command : journal'[d] = IF d = c THEN v ELSE journal[d]  BY <1>0, <1>3
  <2>2. control # NoOrder => journal'[control.id] # "TIMEOUT"
    BY <1>0, <1>3, <2>1 DEF Remembered
  <2>3. Loyal => \A d \in Command : journal'[d] \in AckStatus => d <= eaLast
    BY <1>3, <2>1 DEF Remembered
  <2> QED BY <1>3, <2>2, <2>3 DEF Remembered
<1>4. CASE LogIntent
  <2>1. order.id \in Command
    BY <1>0, <1>4 DEF LogIntent, ChannelInv, JournalInStep
  <2> QED BY <1>3, <1>4, <2>1 DEF LogIntent, Goto, AckStatus
<1>5. CASE RecordAck
  <2>1. order.id \in Command /\ mem.last_ack_status \in AckStatus
    BY <1>0, <1>5 DEF RecordAck, SettleLine, ChannelInv, JournalInStep, Unsettled
  <2>2. mem.last_ack_status = "TIMEOUT" => control = NoOrder  BY <2>1 DEF AckStatus
  <2>3. Loyal => (mem.last_ack_status \in AckStatus => order.id <= eaLast)
    BY <1>5 DEF RecordAck, SettleLine, Remembered
  <2>4. /\ journal' = [journal EXCEPT ![order.id] = mem.last_ack_status]
        /\ UNCHANGED <<control, ack, ea, eaRestarts>> /\ pc' = "ackControl"
    BY <1>5 DEF RecordAck, SettleLine, Goto
  <2> QED BY <1>3, <2>1, <2>2, <2>3, <2>4
<1>6. CASE RecordTimeout
  <2>1. order.id \in Command /\ mem.last_ack_status = "TIMEOUT" /\ control = NoOrder
    BY <1>0, <1>6 DEF RecordTimeout, SettleLine, ChannelInv, JournalInStep, Unsettled, Remembered
  <2> QED BY <1>3, <1>6, <2>1 DEF RecordTimeout, SettleLine, Goto, AckStatus
<1>7. CASE AckArrives
  <2>1. Loyal => order.id <= eaLast  BY <1>7 DEF AckArrives, AckMatches, Remembered
  <2> QED BY <1>1, <1>7, <2>1 DEF AckArrives, Goto
<1>8. CASE Archive
  <2>1. /\ control' \in {control, NoOrder} /\ ack' \in {ack, NoAck} /\ pc' # "recordAck"
        /\ UNCHANGED <<journal, eaLast, eaRestarts>>
    BY <1>8 DEF Archive, ArchiveControl, ArchiveAck, Goto
  <2>2. pc' \in Late => control' = NoOrder
    BY <1>8 DEF Archive, ArchiveControl, ArchiveAck, Goto, Remembered
  <2> QED BY <1>1, <2>1, <2>2
<1>9. CASE \/ BeginCycle \/ SkipExecution \/ StaleAckRaises \/ AckTimesOut \/ SaveState
           \/ Recover \/ RecoverSync
  <2>1. /\ UNCHANGED <<control, ack, journal, eaLast, eaRestarts>>
        /\ pc' \notin Late \cup {"recordAck"}
    BY <1>9 DEF BeginCycle, SkipExecution, StaleAckRaises, AckTimesOut, SaveState, Recover,
       RecoverSync, Goto
  <2> QED BY <1>1, <2>1
<1>10. CASE Crash \/ Shutdown \/ CycleRaises
  <2>1. /\ UNCHANGED <<control, ack, journal, eaLast, eaRestarts>>
        /\ pc' \notin Late \cup {"recordAck"}
    BY <1>10 DEF Crash, Shutdown, CycleRaises, Goto
  <2> QED BY <1>1, <2>1
<1>11. CASE EaWriteAck
  <2>1. /\ eaAck # NoAck /\ ack' = eaAck /\ eaLast' = eaOrder.id
        /\ UNCHANGED <<control, journal, pc, order, eaRestarts>>
    BY <1>11 DEF EaWriteAck
  <2>2. /\ eaAck.id = eaOrder.id /\ eaOrder.id \in Nat /\ eaLast < eaOrder.id
    BY <1>0, <2>1 DEF ChannelInv, AcksProduced
  <2>3. pc = "recordAck" => order.id \in Command
    BY <1>0 DEF ChannelInv, JournalInStep, Unsettled
  <2>4. \A n \in Nat : n <= eaLast => n <= eaLast'  BY <1>0, <2>1, <2>2
  <2>5. ack'.id <= eaLast'  BY <2>1, <2>2
  <2>6. Loyal => /\ pc = "recordAck" => order.id <= eaLast'
                 /\ \A c \in Command : journal[c] \in AckStatus => c <= eaLast'
    BY <1>0, <2>3, <2>4 DEF Remembered
  <2> QED BY <2>1, <2>5, <2>6 DEF Remembered
<1>12. CASE EaRestart
  <2>1. eaRestarts' # 0 /\ UNCHANGED <<control, journal, pc>>  BY <1>0, <1>12 DEF EaRestart
  <2> QED BY <2>1 DEF Remembered
<1>13. ASSUME UNCHANGED <<pc, control, ack, order, journal, eaLast, eaRestarts>>
       PROVE  Remembered'
  BY <1>13 DEF Remembered
<1>14. CASE EaPickUp \/ EaExecute \/ EaExport \/ EaAckWriteFails \/ ExternalClose
  BY <1>13, <1>14 DEF EaPickUp, EaExecute, EaOpens, EaCloses, EaModifies, EaConfirmsNone,
     EaRefuses, Acknowledge, EaExport, EaAckWriteFails, ExternalClose
<1>15. CASE UNCHANGED vars  BY <1>13, <1>15 DEF vars
<1> QED
  BY <1>2, <1>4, <1>5, <1>6, <1>7, <1>8, <1>9, <1>10, <1>11, <1>12, <1>14, <1>15
     DEF Next, PythonStep, ExecutionEngine, EaStep, Fault

LEMMA PartsInitial == Init => RecoverySettles /\ TicketsOpened /\ OneStory /\ Remembered
<1> SUFFICES ASSUME Init PROVE RecoverySettles /\ TicketsOpened /\ OneStory /\ Remembered
  OBVIOUS
<1>1. RecoverySettles  BY DEF Init, RecoverySettles, RecoveryResolves
<1>2. TicketsOpened
  <2>1. BlankState.open_ticket = NoTicket  BY DEF BlankState
  <2>2. NoStatus.ticket = NoTicket  BY DEF NoStatus
  <2>3. \A t \in Ticket : ~(positions[t] > 0)  BY DEF Init
  <2> QED BY <2>1, <2>2, <2>3 DEF Init, TicketsOpened
<1>3. OneStory
  <2>1. BlankState.last_command_id = NoCommand  BY DEF BlankState
  <2> QED BY <2>1 DEF Init, OneStory, Withdrawing, Agreed
<1>4. Remembered  BY DEF Init, Remembered, AckStatus
<1> QED BY <1>1, <1>2, <1>3, <1>4

\* The parts hold in every reachable state.
THEOREM PartsInvariant == Spec => [](RecoverySettles /\ TicketsOpened /\ OneStory /\ Remembered)
<1> DEFINE Parts == RecoverySettles /\ TicketsOpened /\ OneStory /\ Remembered
<1>1. Init => Parts  BY PartsInitial
<1>2. ChannelInv /\ Parts /\ [Next]_vars => Parts'
  BY RecoverySettlesStep, TicketsStep, StoryStep, RememberedStep
<1> QED BY <1>1, <1>2, ChannelInvariant, PTL DEF Spec

\* Recovery resolves a pending command before it looks at the status.
THEOREM NothingPending == Spec => []RecoveryResolves
<1>1. RecoverySettles => RecoveryResolves  BY DEF RecoverySettles
<1> QED BY <1>1, PartsInvariant, PTL

\* Python believes only in tickets that were handed out for an OPEN of its own.
THEOREM TicketsAreGenuine == Spec => []TicketProvenance
<1>1. TicketsOpened => TicketProvenance  BY DEF TicketsOpened, TicketProvenance, Opened
<1> QED BY <1>1, PartsInvariant, PTL

\* Between uncut cycles the saved verdict and the journal agree.
THEOREM StateMatchesJournal == Spec => []StateAndJournalAgree
<1>1. OneStory => StateAndJournalAgree  BY DEF OneStory, StateAndJournalAgree, Agreed
<1> QED BY <1>1, PartsInvariant, PTL

\* No command runs again that the journal has settled, unless the EA restarted.
THEOREM SettledStaysSettled == Spec => NeverPicksUpSettled
<1>1. ChannelInv /\ Remembered /\ [Next]_vars =>
        [eaOrder = NoOrder /\ eaOrder' # NoOrder /\ eaRestarts = 0
           => journal[eaOrder'.id] \notin Verdict]_vars
  <2> SUFFICES ASSUME ChannelInv, Remembered, Next, eaOrder = NoOrder, eaOrder' # NoOrder,
                      eaRestarts = 0
               PROVE  journal[eaOrder'.id] \notin Verdict
    OBVIOUS
  <2> USE DEF files, python, journals, ea, terminal, faults, history
  <2>1. EaPickUp
    BY DEF Next, PythonStep, ExecutionEngine, EaStep, Fault, BeginCycle, SkipExecution, Publish,
       LogIntent, AckArrives, StaleAckRaises, AckTimesOut, RecordAck, RecordTimeout, SettleLine,
       Archive, ArchiveControl, ArchiveAck, SaveState, Recover, RecoverSync, Crash, Shutdown,
       CycleRaises, EaExecute, EaOpens, EaCloses, EaModifies, EaConfirmsNone, EaRefuses,
       Acknowledge, EaWriteAck, EaAckWriteFails, EaExport, EaRestart, ExternalClose
  <2>2. control # NoOrder /\ eaOrder' = control /\ control.id # eaLast
    BY <2>1 DEF EaPickUp, AlreadyProcessed
  <2>3. control.id \in Command /\ control.id = nextCommand - 1 /\ eaLast < nextCommand
    BY <2>2 DEF ChannelInv, OrdersIssued, IssuedOrder, EaBudget
  <2>4. eaLast \in Nat /\ nextCommand \in Nat /\ Command \subseteq Nat
    <3>1. Command \subseteq Nat  BY ConstantsAssumption DEF Command
    <3> QED BY <3>1, ConstantsAssumption DEF ChannelInv, TypeOK, NoCommand
  <2>5. ~(control.id <= eaLast)  BY <2>2, <2>3, <2>4
  <2>6. journal[control.id] \notin AckStatus \cup {"TIMEOUT"}
    BY <2>2, <2>3, <2>5 DEF Remembered
  <2> QED BY <2>2, <2>6 DEF Verdict
<1> QED BY <1>1, ChannelInvariant, PartsInvariant, PTL DEF Spec, NeverPicksUpSettled

-----------------------------------------------------------------------------
(* Refinement: the trade journal is an OrderLedger.                        *)

LedgerProduced == [c \in Command |-> {a.status : a \in outcome[c]}]

LEMMA LedgerSets ==
    /\ Ledger!Command = Command /\ Ledger!AckStatus = AckStatus
    /\ Ledger!Settlement = Verdict
BY DEF Ledger!Command, Command, Ledger!AckStatus, AckStatus, Ledger!Settlement, Verdict

\* A step that leaves the ids, the outcomes and the lines alone is a stutter.
LEMMA LedgerStutter ==
    ASSUME UNCHANGED <<nextCommand, outcome, journal>>
    PROVE  UNCHANGED Ledger!ledgerVars
BY DEF Ledger!ledgerVars

LEMMA LedgerInitial == Init => Ledger!LedgerInit
<1> SUFFICES ASSUME Init PROVE Ledger!LedgerInit  OBVIOUS
<1>1. nextCommand - 1 = 0 /\ journal = [c \in Command |-> "ABSENT"]  BY DEF Init
<1>2. \A c \in Command : {a.status : a \in outcome[c]} = {}  BY DEF Init
<1> QED BY <1>1, <1>2, LedgerSets DEF Ledger!LedgerInit

LEMMA LedgerStep == ChannelInv /\ [Next]_vars => [Ledger!LedgerNext]_(Ledger!ledgerVars)
<1> SUFFICES ASSUME ChannelInv, [Next]_vars PROVE [Ledger!LedgerNext]_(Ledger!ledgerVars)
  OBVIOUS
<1> USE DEF files, python, journals, ea, terminal, faults, history
<1>0. /\ nextCommand \in Nat /\ Command \subseteq Nat /\ MaxCommands \in Nat
      /\ outcome \in [Command -> SUBSET Ack]
      /\ journal \in [Command -> {"ABSENT", "INTENT"} \cup Verdict]
      /\ TypeOK /\ OrdersIssued
  <2>1. TypeOK /\ OrdersIssued  BY DEF ChannelInv
  <2>2. nextCommand \in Nat  BY <2>1, ConstantsAssumption DEF TypeOK
  <2> QED BY <2>1, <2>2, ConstantsAssumption DEF TypeOK, Command
<1>1. CASE Publish
  <2>1. nextCommand <= MaxCommands /\ UNCHANGED <<outcome, journal>>
    BY <1>1 DEF Publish
  <2>2. CASE nextCommand' = nextCommand + 1
    <3>1. nextCommand - 1 < MaxCommands /\ nextCommand' - 1 = (nextCommand - 1) + 1
      BY <1>0, <2>1, <2>2
    <3>2. Ledger!Issue  BY <2>1, <3>1 DEF Ledger!Issue
    <3> QED BY <3>2 DEF Ledger!LedgerNext
  <2>3. CASE nextCommand' = nextCommand  BY <2>1, <2>3, LedgerStutter
  <2> QED BY <1>1, <2>2, <2>3 DEF Publish
<1>2. CASE LogIntent
  <2>1. IssuedOrder(order) /\ journal[order.id] = "ABSENT"
    BY <1>2 DEF LogIntent, ChannelInv, JournalInStep, OrdersIssued
  <2>2. /\ journal' = [journal EXCEPT ![order.id] = "INTENT"]
        /\ UNCHANGED <<nextCommand, outcome>>
    BY <1>2 DEF LogIntent
  <2>3. order.id \in Command /\ order.id <= nextCommand - 1
    <3>1. order.id \in Command /\ order.id < nextCommand  BY <2>1 DEF IssuedOrder
    <3>2. order.id \in Nat  BY <1>0, <3>1
    <3> QED BY <1>0, <3>1, <3>2
  <2>4. Ledger!WriteIntent(order.id)
    BY <2>1, <2>2, <2>3 DEF Ledger!WriteIntent
  <2> QED BY <2>3, <2>4, LedgerSets DEF Ledger!LedgerNext
<1>3. ASSUME NEW at \in {"recordAck", "recordTimeout"}, NEW target, SettleLine(at, target)
      PROVE  Ledger!LedgerNext
  <2>1. /\ IssuedOrder(order) /\ journal[order.id] = "INTENT"
        /\ mem.last_ack_status \in Verdict
        /\ mem.last_ack_status \in AckStatus => mem.last_command_id = order.id
    BY <1>3 DEF SettleLine, ChannelInv, JournalInStep, Unsettled, OrdersIssued, Verdict, AckStatus
  <2>2. /\ journal' = [journal EXCEPT ![order.id] = mem.last_ack_status]
        /\ UNCHANGED <<nextCommand, outcome>>
    BY <1>3 DEF SettleLine
  <2>3. order.id \in Command  BY <2>1 DEF IssuedOrder
  <2>4. mem.last_ack_status \in AckStatus =>
          mem.last_ack_status \in LedgerProduced[order.id]
    <3>1. mem.last_ack_status \in AckStatus => Produced(order.id, mem.last_ack_status)
      BY <2>1 DEF ChannelInv, AckProvenance
    <3> QED BY <2>3, <3>1 DEF LedgerProduced, Produced
  <2>5. Ledger!Settle(order.id, mem.last_ack_status)
    BY <2>1, <2>2, <2>4, LedgerSets DEF Ledger!Settle, LedgerProduced
  <2> QED BY <2>1, <2>3, <2>5, LedgerSets DEF Ledger!LedgerNext
<1>4. CASE RecordAck \/ RecordTimeout  BY <1>3, <1>4 DEF RecordAck, RecordTimeout
<1>5. CASE EaExecute
  <2>1. PICK v, t : v \in AckStatus /\ Acknowledge(v, t)
    BY <1>5 DEF EaExecute, EaOpens, EaCloses, EaModifies, EaConfirmsNone, EaRefuses, AckStatus
  <2>2. IssuedOrder(eaOrder)  BY <1>0, <1>5 DEF EaExecute, OrdersIssued
  <2>3. eaOrder.id \in Command /\ eaOrder.id <= nextCommand - 1
    <3>1. eaOrder.id \in Command /\ eaOrder.id < nextCommand  BY <2>2 DEF IssuedOrder
    <3>2. eaOrder.id \in Nat  BY <1>0, <3>1
    <3> QED BY <1>0, <3>1, <3>2
  <2>4. UNCHANGED <<nextCommand, journal>>  BY <2>1 DEF Acknowledge
  <2>5. /\ outcome' = [outcome EXCEPT ![eaOrder.id] = @ \cup {eaAck'}]
        /\ eaAck'.status = v
    BY <2>1 DEF Acknowledge
  <2>6. /\ outcome'[eaOrder.id] = outcome[eaOrder.id] \cup {eaAck'}
        /\ \A c \in Command : c # eaOrder.id => outcome'[c] = outcome[c]
    BY <1>0, <2>3, <2>5
  <2>7. LedgerProduced' = [LedgerProduced EXCEPT ![eaOrder.id] = @ \cup {v}]
    <3>1. ASSUME NEW c \in Command
          PROVE  {a.status : a \in outcome'[c]}
                   = IF c = eaOrder.id THEN {a.status : a \in outcome[c]} \cup {v}
                     ELSE {a.status : a \in outcome[c]}
      BY <2>5, <2>6
    <3> QED BY <2>3, <3>1 DEF LedgerProduced
  <2>8. Ledger!Execute(eaOrder.id, v)
    BY <2>3, <2>4, <2>7 DEF Ledger!Execute, LedgerProduced
  <2> QED BY <2>1, <2>3, <2>8, LedgerSets DEF Ledger!LedgerNext
<1>6. CASE /\ PythonStep /\ ~Publish /\ ~LogIntent /\ ~RecordAck /\ ~RecordTimeout
  <2>1. UNCHANGED <<nextCommand, outcome, journal>>
    BY <1>6 DEF PythonStep, ExecutionEngine, BeginCycle, SkipExecution, AckArrives,
       StaleAckRaises, AckTimesOut, Archive, ArchiveControl, ArchiveAck, SaveState,
       Recover, RecoverSync
  <2> QED BY <2>1, LedgerStutter
<1>7. CASE EaPickUp \/ EaWriteAck \/ EaExport \/ Fault
  <2>1. UNCHANGED <<nextCommand, outcome, journal>>
    BY <1>7 DEF EaPickUp, EaWriteAck, EaExport, Fault, Crash, Shutdown, CycleRaises,
       EaAckWriteFails, EaRestart, ExternalClose
  <2> QED BY <2>1, LedgerStutter
<1>8. CASE UNCHANGED vars  BY <1>8, LedgerStutter DEF vars
<1> QED BY <1>1, <1>2, <1>4, <1>5, <1>6, <1>7, <1>8 DEF Next, PythonStep, ExecutionEngine, EaStep

\* Every behaviour of the channel is one of the ledger: an intent line before
\* the outcome, one settlement at most, and none the terminal did not produce.
THEOREM JournalIsLedger == Spec => ImplementsLedger
BY LedgerInitial, LedgerStep, ChannelInvariant, PTL DEF Spec, ImplementsLedger, Ledger!LedgerSpec
=============================================================================
