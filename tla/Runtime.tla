------------------------------- MODULE Runtime -------------------------------
(***************************************************************************)
(* The live process: startup, the passes over the instances, and shutdown. *)
(* What a pass does with an instance that fails, with one that appears,    *)
(* and with the spread model that each of them keeps in memory and on disk.*)
(*                                                                         *)
(* Of a cycle there is what concerns the others: whether it reaches the    *)
(* spread model, whether it saves, how it ends.  ExecutionChannel has the  *)
(* rest.  Rotation at the end of a pass is in InstanceFiles.               *)
(***************************************************************************)
EXTENDS SpreadModel, FiniteSetsExt

CONSTANTS
    NumInstances,
    MaxSpread,       \* bound on spreads
    MaxRows,         \* bound on the sensor rows exported
    MaxRequests,     \* bound on the shutdown signals
    MaxKills,        \* bound on process kills
    MaxIoErrors      \* bound on errors that no handler of an instance takes

ASSUME RuntimeAssumption ==
    /\ NumInstances \in Nat \ {0} /\ MaxSpread \in Nat
    /\ MaxRows \in Nat /\ MaxRequests \in Nat /\ MaxKills \in Nat /\ MaxIoErrors \in Nat

\* In the order of their keys; the first is configured, the others are discovered.
Instance == 1..NumInstances
Spread   == 0..MaxSpread

VARIABLES
    exported,        \* the instances whose market file exists
    sensor,          \* of the rows of each sensor file the last LookbackBars
    spreadFile,      \* the spread state on disk
    obstructed,      \* a directory of another name under clients, or a new instance whose
                     \* files cannot be read
    pc,              \* what the process does
    queue,           \* instances that the present loop has still to visit
    registered,      \* the instances in memory
    record, model,   \* their spread state and the history of their spread model
    shutdownRequested,
    exitCode,        \* 0 after a shutdown that ran to its end
    rows, requests, kills, ioErrors

disk    == <<exported, sensor, spreadFile, obstructed>>
memory  == <<registered, record, model>>
counts  == <<rows, requests, kills, ioErrors>>
vars    == <<disk, pc, queue, memory, shutdownRequested, exitCode, counts>>

Current == Min(queue)

\* discover_instances
Discovered == {1} \cup exported

Init ==
    /\ exported = {} /\ sensor = [i \in Instance |-> << >>]
    /\ spreadFile = [i \in Instance |-> NoRecord] /\ obstructed = FALSE
    /\ pc = "down" /\ queue = {}
    /\ registered = {}
    /\ record = [i \in Instance |-> NoRecord] /\ model = [i \in Instance |-> << >>]
    /\ shutdownRequested = FALSE /\ exitCode = 0
    /\ rows = 0 /\ requests = 0 /\ kills = 0 /\ ioErrors = 0

(***************************************************************************)
(* Around the process                                                      *)
(***************************************************************************)
\* The EA of an instance appends a row to its sensor file.
EaExports ==
    /\ rows < MaxRows /\ rows' = rows + 1
    /\ \E i \in Instance, spread \in Spread :
          /\ sensor' = [sensor EXCEPT ![i] = Updated(@, spread)]
          /\ exported' = exported \cup {i}
    /\ UNCHANGED <<spreadFile, obstructed, pc, queue, memory, shutdownRequested, exitCode,
                   requests, kills, ioErrors>>

\* Something that ends discovery or registration comes, and is taken away, outside the system.
Obstruction ==
    /\ obstructed' = ~obstructed
    /\ UNCHANGED <<exported, sensor, spreadFile, pc, queue, memory, shutdownRequested, exitCode,
                   counts>>

\* SIGINT or SIGTERM; the handlers are installed when startup is over.
RequestShutdown ==
    /\ requests < MaxRequests /\ requests' = requests + 1
    /\ pc \notin {"down", "recovering"}
    /\ shutdownRequested' = TRUE
    /\ UNCHANGED <<disk, pc, queue, memory, exitCode, rows, kills, ioErrors>>

Kill ==
    /\ kills < MaxKills /\ kills' = kills + 1
    /\ pc # "down"
    /\ pc' = "down" /\ queue' = {} /\ exitCode' = 1
    /\ UNCHANGED <<disk, memory, shutdownRequested, rows, requests, ioErrors>>

\* An error that ends the loop it happens in.
IoError ==
    /\ ioErrors < MaxIoErrors
    /\ ioErrors' = ioErrors + 1
    /\ UNCHANGED <<disk, memory, shutdownRequested, rows, requests, kills>>

(***************************************************************************)
(* Startup                                                                 *)
(***************************************************************************)
Startup ==
    /\ pc = "down" /\ ~obstructed
    /\ pc' = "recovering" /\ queue' = Discovered
    /\ registered' = Discovered
    /\ record' = [i \in Instance |-> IF i \in Discovered THEN spreadFile[i] ELSE NoRecord]
    /\ model' = [i \in Instance |-> FromRecord(record'[i])]
    /\ shutdownRequested' = FALSE /\ exitCode' = 1
    /\ UNCHANGED <<disk, counts>>

StartupFails ==
    /\ pc = "down" /\ obstructed
    /\ exitCode' = 1
    /\ UNCHANGED <<disk, pc, queue, memory, shutdownRequested, counts>>

\* recover_instance: the spread model is rebuilt from the sensor file, unless that
\* has no rows or cannot be read, and saved.
RecoverInstance ==
    /\ pc = "recovering"
    /\ \/ UNCHANGED <<record, model>>
       \/ /\ sensor[Current] # << >>
          /\ record' = [record EXCEPT ![Current] = RecordOf(sensor[Current])]
          /\ model' = [model EXCEPT ![Current] = sensor[Current]]
    /\ spreadFile' = [spreadFile EXCEPT ![Current] = record'[Current]]
    /\ queue' = queue \ {Current}
    /\ pc' = IF queue' = {} THEN "idle" ELSE "recovering"
    /\ UNCHANGED <<exported, sensor, obstructed, registered, shutdownRequested, exitCode, counts>>

\* Recovery is not isolated: the process ends.
RecoveryFails ==
    /\ pc = "recovering"
    /\ IoError
    /\ pc' = "down" /\ queue' = {} /\ UNCHANGED exitCode

(***************************************************************************)
(* A pass                                                                  *)
(***************************************************************************)
\* register_runtime_instances: one that is new is loaded from disk; the model of
\* every one is made from its record again.
Register(instances) ==
    /\ registered' = registered \cup instances
    /\ record' = [i \in Instance |-> IF i \in instances \ registered
                                       THEN spreadFile[i] ELSE record[i]]
    /\ model' = [i \in Instance |-> IF i \in instances /\ record'[i] # NoRecord
                                      THEN FromRecord(record'[i]) ELSE model[i]]

\* Faulty: every turn of the loop begins a pass.
BeginPassAnyway ==
    /\ pc = "idle" /\ ~obstructed
    /\ Register(Discovered)
    /\ pc' = "cycle" /\ queue' = Discovered
    /\ UNCHANGED <<disk, shutdownRequested, exitCode, counts>>

BeginPass ==
    /\ pc = "idle" /\ ~shutdownRequested /\ ~obstructed
    /\ Register(Discovered)
    /\ pc' = "cycle" /\ queue' = Discovered
    /\ UNCHANGED <<disk, shutdownRequested, exitCode, counts>>

\* The pass ends before its first cycle, and so does every other until the obstruction
\* is gone: discovery registers nobody, a new instance keeps itself and the ones after it
\* from being registered.
RegistrationFails ==
    /\ pc = "idle" /\ ~shutdownRequested /\ obstructed
    /\ \E before \in {{}} \cup {{i \in Discovered : i < new} : new \in Discovered \ registered} :
          Register(before)
    /\ UNCHANGED <<disk, pc, queue, shutdownRequested, exitCode, counts>>

\* No data, invalid data or data too old: the cycle is over.
CycleSkipped ==
    /\ pc = "cycle"
    /\ pc' = "observe"
    /\ UNCHANGED <<disk, queue, memory, shutdownRequested, exitCode, counts>>

\* update_instance_spread_model with the latest row of the sensor file.
CycleJudgesSpread ==
    /\ pc = "cycle" /\ sensor[Current] # << >>
    /\ LET i == Current
       IN  /\ model' = [model EXCEPT ![i] = Updated(@, Last(sensor[i]))]
           /\ record' = [record EXCEPT ![i] = RecordOf(model'[i])]
    /\ pc' = "decide"
    /\ UNCHANGED <<disk, queue, registered, shutdownRequested, exitCode, counts>>

\* The end of the cycle, in time or not: _finalize_cycle_state, and
\* _abort_cycle_timeout, which may come before the spread is judged.
CycleSaves ==
    /\ pc \in {"cycle", "decide"}
    /\ pc' = "observe"
    /\ spreadFile' = [spreadFile EXCEPT ![Current] = record[Current]]
    /\ UNCHANGED <<exported, sensor, obstructed, queue, memory, shutdownRequested, exitCode, counts>>

\* An error of the decision phase ends the cycle, and nothing is saved.
DecisionFails ==
    /\ pc = "decide"
    /\ pc' = "observe"
    /\ UNCHANGED <<disk, queue, memory, shutdownRequested, exitCode, counts>>

\* Anything else that goes wrong in a cycle.
CycleRaises ==
    /\ pc \in {"cycle", "decide"}
    /\ pc' = "logError"
    /\ UNCHANGED <<disk, queue, memory, shutdownRequested, exitCode, counts>>

\* Faulty: the error of one instance ends the pass.
ErrorEndsPass ==
    /\ pc = "logError"
    /\ pc' = "idle" /\ queue' = {}
    /\ UNCHANGED <<disk, memory, shutdownRequested, exitCode, counts>>

\* run_instance_cycle_isolated
ErrorLogged ==
    /\ pc = "logError"
    /\ pc' = "observe"
    /\ UNCHANGED <<disk, queue, memory, shutdownRequested, exitCode, counts>>

\* observe_instance_cycle, and on to the next instance unless the process is to stop.
Observed ==
    /\ pc = "observe"
    /\ queue' = IF shutdownRequested THEN {} ELSE queue \ {Current}
    /\ pc' = IF queue' = {} THEN "idle" ELSE "cycle"
    /\ UNCHANGED <<disk, memory, shutdownRequested, exitCode, counts>>

\* An error while an error is logged or a cycle observed: the main loop takes it,
\* the rest of the pass is lost.
PassCrashes ==
    /\ pc \in {"logError", "observe"}
    /\ IoError
    /\ pc' = "idle" /\ queue' = {} /\ UNCHANGED exitCode

(***************************************************************************)
(* Shutdown                                                                *)
(***************************************************************************)
BeginShutdown ==
    /\ pc = "idle" /\ shutdownRequested
    /\ pc' = "stopping" /\ queue' = registered
    /\ UNCHANGED <<disk, memory, shutdownRequested, exitCode, counts>>

\* Faulty: only the first instance is saved.
PersistConfigured ==
    /\ pc = "stopping"
    /\ spreadFile' = [spreadFile EXCEPT ![Current] = record[Current]]
    /\ queue' = {}
    /\ pc' = "down" /\ exitCode' = 0
    /\ UNCHANGED <<exported, sensor, obstructed, memory, shutdownRequested, counts>>

\* persist_runtime_state, one instance after the other.
Persist ==
    /\ pc = "stopping"
    /\ spreadFile' = [spreadFile EXCEPT ![Current] = record[Current]]
    /\ queue' = queue \ {Current}
    /\ pc' = IF queue' = {} THEN "down" ELSE "stopping"
    /\ exitCode' = IF queue' = {} THEN 0 ELSE exitCode
    /\ UNCHANGED <<exported, sensor, obstructed, memory, shutdownRequested, counts>>

PersistFails ==
    /\ pc = "stopping"
    /\ IoError
    /\ pc' = "down" /\ queue' = {} /\ exitCode' = 1

-----------------------------------------------------------------------------
Pass ==
    \/ BeginPass \/ RegistrationFails
    \/ CycleSkipped \/ CycleJudgesSpread \/ CycleSaves \/ DecisionFails
    \/ CycleRaises \/ ErrorLogged \/ Observed \/ PassCrashes

Process ==
    \/ Startup \/ StartupFails \/ RecoverInstance \/ RecoveryFails
    \/ Pass
    \/ BeginShutdown \/ Persist \/ PersistFails

Next == EaExports \/ Obstruction \/ RequestShutdown \/ Kill \/ Process

Spec == Init /\ [][Next]_vars

\* The process runs and is started again; nothing is assumed of the EAs.
FairSpec == Spec /\ WF_vars(Process)

-----------------------------------------------------------------------------
\* Every variable keeps its type; loops over instances end with an empty queue.
TypeOK ==
    /\ exported \subseteq Instance
    /\ \A i \in Instance : /\ Len(sensor[i]) <= LookbackBars /\ Len(model[i]) <= LookbackBars
                           /\ spreadFile[i] \in SpreadRecord /\ record[i] \in SpreadRecord
    /\ pc \in {"down", "recovering", "idle", "cycle", "decide", "logError", "observe", "stopping"}
    /\ queue \subseteq registered /\ registered \subseteq Instance
    /\ queue = {} <=> pc \in {"down", "idle"}
    /\ shutdownRequested \in BOOLEAN /\ obstructed \in BOOLEAN /\ exitCode \in 0..1

\* A shutdown that ends well has saved the spread of every instance as it was in
\* memory, those whose last cycle failed before its save included.
CleanExitSaves ==
    pc = "down" /\ exitCode = 0 => \A i \in registered : spreadFile[i] = record[i]

\* Cycles of one instance that always fail do not keep the process from the others:
\* each instance that has been discovered is visited again and again, provided that
\* nothing obstructs discovery for ever.
EveryInstanceVisited ==
    \A i \in Instance :
        <>[](i \in Discovered /\ ~obstructed) => []<>(pc = "observe" /\ Current = i)

\* A request to shut down ends the process, in the middle of a pass as well.
ShutdownEnds == shutdownRequested ~> pc = "down"
=============================================================================
