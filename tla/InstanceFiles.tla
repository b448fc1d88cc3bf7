---------------------------- MODULE InstanceFiles ----------------------------
(***************************************************************************)
(* The files the Python process keeps on disk for its instances: the       *)
(* InstanceState file, the trade journal, and the history files that       *)
(* journal rotation fills, one per day.  One process works through startup *)
(* recovery, cycles, rotation and shutdown, one instance after the other,  *)
(* and can be killed, or stopped by an I/O error, at every step.           *)
(*                                                                         *)
(* atomic_io writes `{file}.tmp` and then replaces the file; atomic_read   *)
(* refuses a file whose .tmp exists, and nothing removes a .tmp that a     *)
(* failed write left but the next write of that file.                      *)
(*                                                                         *)
(* Abstracted: a state is the number of updates it has seen, a journal     *)
(* line its id, day and whether it was settled; lines are kept in the      *)
(* order of their ids by every rewrite, so a journal is a set of lines.    *)
(* The instances belong to one account; the retries of a read end as the   *)
(* first try did, since no other process writes these files.               *)
(***************************************************************************)
EXTENDS Naturals, FiniteSets

CONSTANTS
    NumInstances,    \* instances, in the order of their keys
    Retention,       \* journal.retention_days, in ticks of the clock
    MaxLines,        \* bound on the lines of all journals
    MaxUpdates,      \* bound on the counted updates of a state
    MaxTime,         \* bound on the clock
    MaxKills,        \* process kills
    MaxShutdowns,    \* orderly stops
    MaxErrors,       \* OSErrors and other exceptions in a cycle or a write
    MaxFaults        \* bound on kills and errors together

ASSUME FilesAssumption ==
    /\ NumInstances \in Nat \ {0} /\ Retention \in Nat \ {0}
    /\ MaxLines \in Nat /\ MaxUpdates \in Nat \ {0} /\ MaxTime \in Nat \ {0}
    /\ MaxKills \in Nat /\ MaxShutdowns \in Nat /\ MaxErrors \in Nat
    /\ MaxFaults \in Nat

Instance == 1..NumInstances
Time     == 1..MaxTime
Day      == 1..MaxTime   \* a day is at least one tick long
Line     == [id : 1..MaxLines, at : Time, settled : BOOLEAN]
NoFile   == 0            \* a state that was never saved
Blank    == 1            \* the InstanceState of a new instance
Version  == NoFile..MaxUpdates

VARIABLES
    state,        \* the saved InstanceState of each instance
    journal,      \* the lines in its trade journal
    archive,      \* the lines in its history file of each day
    stateTmp, journalTmp, archiveTmp,   \* the files whose .tmp exists
    memory,       \* the InstanceState in memory
    mode,         \* what the process is doing
    step,         \* and where in it, for the instance
    current,      \* that it works on
    now, today,   \* resolved_timestamp of the pass, and its date
    nextLine,     \* the next line id
    kills, shutdowns, errors,
    logged        \* history: the last form of every line written

final  == <<state, journal, archive>>
tmps   == <<stateTmp, journalTmp, archiveTmp>>
clock  == <<now, today>>
faults == <<kills, shutdowns, errors>>
vars   == <<final, tmps, memory, mode, step, current, clock, nextLine, faults, logged>>

Mode == {"down", "recover", "idle", "cycle", "rotate", "persist"}

\* The step at which a mode takes up an instance, and the mode that follows.
First(m) == CASE m \in {"recover", "persist"} -> "save"
              [] m = "cycle"  -> "load"
              [] m = "rotate" -> "scan"
              [] OTHER -> "none"
After(m) == CASE m = "recover" -> "idle"
              [] m = "cycle"   -> "rotate"
              [] m = "rotate"  -> "idle"
              [] OTHER -> "down"

Steps(m) == CASE m \in {"recover", "persist"} -> {"save", "saveCommit"}
              [] m = "cycle"  -> {"load", "sync", "trade", "settle", "settleCommit",
                                  "finalize", "saveCommit"}
              [] m = "rotate" -> {"scan", "archiveCommit", "prune", "pruneCommit"}
              [] OTHER -> {"none"}

Init ==
    /\ state = [i \in Instance |-> NoFile]
    /\ journal = [i \in Instance |-> {}]
    /\ archive = [i \in Instance |-> [d \in Day |-> {}]]
    /\ stateTmp = {} /\ journalTmp = {} /\ archiveTmp = {}
    /\ memory = [i \in Instance |-> Blank]
    /\ mode = "down" /\ step = "none" /\ current = 1 /\ now = 1 /\ today = 1
    /\ nextLine = 1
    /\ kills = 0 /\ shutdowns = 0 /\ errors = 0
    /\ logged = [i \in Instance |-> {}]

(***************************************************************************)
(* Moving on                                                               *)
(***************************************************************************)
Enter(m) == mode' = m /\ step' = First(m) /\ current' = 1

Advance ==
    IF current < NumInstances
      THEN current' = current + 1 /\ step' = First(mode) /\ UNCHANGED mode
      ELSE Enter(After(mode))

At(m, s) == mode = m /\ step = s
Goto(s)  == step' = s /\ UNCHANGED <<mode, current>>

\* Where an exception ends: run_instance_cycle_isolated and the rotation
\* handler of run_runtime_cycles catch it; startup and shutdown do not.
Raise ==
    CASE mode = "cycle"  -> Advance
      [] mode = "rotate" -> Enter("idle")
      [] OTHER -> Enter("down")

(***************************************************************************)
(* Reading: a file that is not there is no error, one with a .tmp is       *)
(***************************************************************************)
StateReadable(i)      == state[i] = NoFile \/ i \notin stateTmp
JournalReadable(i)    == journal[i] = {} \/ i \notin journalTmp
ArchiveReadable(i, d) == archive[i][d] = {} \/ <<i, d>> \notin archiveTmp

\* Faulty: a state that was never saved is loaded as it is.
LoadedAsFound(i) == state[i]

Loaded(i) == IF state[i] = NoFile THEN Blank ELSE state[i]

(***************************************************************************)
(* Startup, recovery and shutdown                                          *)
(***************************************************************************)
\* startup: load_runtime_memory loads every instance; an unreadable state ends
\* the process before it has done anything.
Startup ==
    /\ mode = "down"
    /\ IF \A i \in Instance : StateReadable(i)
         THEN memory' = [i \in Instance |-> Loaded(i)] /\ Enter("recover")
         ELSE UNCHANGED <<memory, mode, step, current>>
    /\ UNCHANGED <<final, tmps, clock, nextLine, faults, logged>>

\* InstanceState.save of recover_instance and of persist_runtime_state.
SaveMemory ==
    /\ step = "save"
    /\ stateTmp' = stateTmp \cup {current}
    /\ Goto("saveCommit")
    /\ UNCHANGED <<final, journalTmp, archiveTmp, memory, clock, nextLine, faults, logged>>

CommitState ==
    /\ step = "saveCommit"
    /\ state' = [state EXCEPT ![current] = memory[current]]
    /\ stateTmp' = stateTmp \ {current}
    /\ Advance
    /\ UNCHANGED <<journal, archive, journalTmp, archiveTmp, memory, clock, nextLine, faults, logged>>

Shutdown ==
    /\ mode = "idle"
    /\ shutdowns < MaxShutdowns
    /\ shutdowns' = shutdowns + 1
    /\ Enter("persist")
    /\ UNCHANGED <<final, tmps, memory, clock, nextLine, kills, errors, logged>>

(***************************************************************************)
(* The cycle of an instance                                                *)
(***************************************************************************)
\* run_runtime_cycles
BeginPass ==
    /\ mode = "idle"
    /\ Enter("cycle")
    /\ UNCHANGED <<final, tmps, memory, clock, nextLine, faults, logged>>

\* Faulty: an unreadable state is replaced by a blank one.
LoadOrBlank ==
    /\ At("cycle", "load")
    /\ memory' = [memory EXCEPT ![current] = IF StateReadable(current) THEN Loaded(current)
                                                                      ELSE Blank]
    /\ Goto("sync")
    /\ UNCHANGED <<final, tmps, clock, nextLine, faults, logged>>

\* sync_instance_state
Load ==
    /\ At("cycle", "load")
    /\ IF StateReadable(current)
         THEN memory' = [memory EXCEPT ![current] = Loaded(current)] /\ Goto("sync")
         ELSE UNCHANGED memory /\ Raise
    /\ UNCHANGED <<final, tmps, clock, nextLine, faults, logged>>

\* append_trade_journal_entry: the file is opened for appending, its .tmp is
\* not looked at.
AppendLine(settled) ==
    LET line == [id |-> nextLine, at |-> now, settled |-> settled]
    IN  /\ nextLine <= MaxLines
        /\ nextLine' = nextLine + 1
        /\ journal' = [journal EXCEPT ![current] = @ \cup {line}]
        /\ logged' = [logged EXCEPT ![current] = @ \cup {line}]
        /\ UNCHANGED <<state, archive, tmps, memory, clock, faults>>

\* Reconciliation logs an external close.
LogExternalClose == At("cycle", "sync") /\ AppendLine(TRUE) /\ Goto("trade")

NothingToLog ==
    /\ At("cycle", "sync")
    /\ Goto("trade")
    /\ UNCHANGED <<final, tmps, memory, clock, nextLine, faults, logged>>

\* The cycle returns before its end: input data is missing or invalid.
ReturnEarly ==
    /\ At("cycle", "sync")
    /\ Advance
    /\ UNCHANGED <<final, tmps, memory, clock, nextLine, faults, logged>>

LogIntent == At("cycle", "trade") /\ AppendLine(FALSE) /\ Goto("settle")

NoTrade ==
    /\ At("cycle", "trade")
    /\ Goto("finalize")
    /\ UNCHANGED <<final, tmps, memory, clock, nextLine, faults, logged>>

\* The wait for the ack ends with an exception (see StaleAckRaises in
\* ExecutionChannel).
WaitRaises ==
    /\ At("cycle", "settle")
    /\ Raise
    /\ UNCHANGED <<final, tmps, memory, clock, nextLine, faults, logged>>

\* log_trade_ack and log_trade_ack_timeout read the journal and rewrite it with
\* the intent line of this cycle settled.
Settle ==
    /\ At("cycle", "settle")
    /\ IF JournalReadable(current)
         THEN journalTmp' = journalTmp \cup {current} /\ Goto("settleCommit")
         ELSE UNCHANGED journalTmp /\ Raise
    /\ UNCHANGED <<final, stateTmp, archiveTmp, memory, clock, nextLine, faults, logged>>

Settled(lines) ==
    {IF l.id = nextLine - 1 THEN [l EXCEPT !.settled = TRUE] ELSE l : l \in lines}

CommitSettled ==
    /\ At("cycle", "settleCommit")
    /\ journal' = [journal EXCEPT ![current] = Settled(@)]
    /\ logged' = [logged EXCEPT ![current] = Settled(@)]
    /\ journalTmp' = journalTmp \ {current}
    /\ Goto("finalize")
    /\ UNCHANGED <<state, archive, stateTmp, archiveTmp, memory, clock, nextLine, faults>>

\* _finalize_cycle_state: update_cycle, then save.
Finalize ==
    /\ At("cycle", "finalize")
    /\ memory' = [memory EXCEPT ![current] = IF @ < MaxUpdates THEN @ + 1 ELSE @]
    /\ stateTmp' = stateTmp \cup {current}
    /\ Goto("saveCommit")
    /\ UNCHANGED <<final, journalTmp, archiveTmp, clock, nextLine, faults, logged>>

(***************************************************************************)
(* rotate_account_journals                                                 *)
(***************************************************************************)
\* Faulty: the newer lines are taken for the old ones.
ExpiresTooEarly(l) == l.at + Retention > now

Expired(l) == l.at + Retention < now

Old(i) == {l \in journal[i] : Expired(l)}

\* Faulty: the rotation ends at the first journal that has nothing to archive.
ScanEndsEarly ==
    /\ At("rotate", "scan")
    /\ IF ~JournalReadable(current) \/ Old(current) = {}
         THEN UNCHANGED archiveTmp /\ Raise
         ELSE archiveTmp' = archiveTmp \cup {<<current, today>>} /\ Goto("archiveCommit")
    /\ UNCHANGED <<final, stateTmp, journalTmp, memory, clock, nextLine, faults, logged>>

\* rotate_journal_file up to the write of the history file of the day.
Scan ==
    /\ At("rotate", "scan")
    /\ IF ~JournalReadable(current)
         THEN UNCHANGED archiveTmp /\ Raise
       ELSE IF Old(current) = {}
         THEN UNCHANGED archiveTmp /\ Advance
       ELSE IF ~ArchiveReadable(current, today)
         THEN UNCHANGED archiveTmp /\ Raise
       ELSE archiveTmp' = archiveTmp \cup {<<current, today>>} /\ Goto("archiveCommit")
    /\ UNCHANGED <<final, stateTmp, journalTmp, memory, clock, nextLine, faults, logged>>

\* Faulty: what the history file of the day already holds is dropped.
CommitArchiveOverwrites ==
    /\ At("rotate", "archiveCommit")
    /\ archive' = [archive EXCEPT ![current][today] = Old(current)]
    /\ archiveTmp' = archiveTmp \ {<<current, today>>}
    /\ Goto("prune")
    /\ UNCHANGED <<state, journal, stateTmp, journalTmp, memory, clock, nextLine, faults, logged>>

CommitArchive ==
    /\ At("rotate", "archiveCommit")
    /\ archive' = [archive EXCEPT ![current][today] = @ \cup Old(current)]
    /\ archiveTmp' = archiveTmp \ {<<current, today>>}
    /\ Goto("prune")
    /\ UNCHANGED <<state, journal, stateTmp, journalTmp, memory, clock, nextLine, faults, logged>>

\* Then the journal is rewritten with the lines that stay.
Prune ==
    /\ At("rotate", "prune")
    /\ journalTmp' = journalTmp \cup {current}
    /\ Goto("pruneCommit")
    /\ UNCHANGED <<final, stateTmp, archiveTmp, memory, clock, nextLine, faults, logged>>

\* Faulty: the journal keeps what was archived.
CommitPrunedKeepsAll ==
    /\ At("rotate", "pruneCommit")
    /\ journalTmp' = journalTmp \ {current}
    /\ Advance
    /\ UNCHANGED <<final, stateTmp, archiveTmp, memory, clock, nextLine, faults, logged>>

CommitPruned ==
    /\ At("rotate", "pruneCommit")
    /\ journal' = [journal EXCEPT ![current] = @ \ Old(current)]
    /\ journalTmp' = journalTmp \ {current}
    /\ Advance
    /\ UNCHANGED <<state, archive, stateTmp, archiveTmp, memory, clock, nextLine, faults, logged>>

(***************************************************************************)
(* Time and faults                                                         *)
(***************************************************************************)
Tick ==
    /\ mode \in {"idle", "down"}
    /\ now < MaxTime
    /\ now' = now + 1
    /\ today' \in {today, today + 1}
    /\ UNCHANGED <<final, tmps, memory, mode, step, current, nextLine, faults, logged>>

FaultsLeft == kills + errors < MaxFaults

\* The process is killed; a .tmp that was begun stays.
Kill ==
    /\ mode # "down"
    /\ kills < MaxKills /\ FaultsLeft
    /\ kills' = kills + 1
    /\ Enter("down")
    /\ UNCHANGED <<final, tmps, memory, clock, nextLine, shutdowns, errors, logged>>

\* The step raises: an append or the first or second half of an atomic write
\* fails, or something between them.  The .tmp stays as well.
StepFails ==
    /\ mode \notin {"down", "idle"}
    /\ errors < MaxErrors /\ FaultsLeft
    /\ errors' = errors + 1
    /\ Raise
    /\ UNCHANGED <<final, tmps, memory, clock, nextLine, kills, shutdowns, logged>>

Cycle == Load \/ LogExternalClose \/ NothingToLog \/ ReturnEarly \/ LogIntent \/ NoTrade
           \/ WaitRaises \/ Settle \/ CommitSettled \/ Finalize
Rotation == Scan \/ CommitArchive \/ Prune \/ CommitPruned
Work == Startup \/ BeginPass \/ Cycle \/ Rotation \/ SaveMemory \/ CommitState

Next == Work \/ Shutdown \/ Tick \/ Kill \/ StepFails

Spec == Init /\ [][Next]_vars

\* The process is started again when it is down, and runs a pass every
\* cycle_interval_ms.
FairSpec == Spec /\ WF_vars(Work)

-----------------------------------------------------------------------------
\* Every variable keeps its type; the state in memory is never an absent file.
TypeOK ==
    /\ state \in [Instance -> Version]
    /\ journal \in [Instance -> SUBSET Line]
    /\ archive \in [Instance -> [Day -> SUBSET Line]]
    /\ stateTmp \subseteq Instance /\ journalTmp \subseteq Instance
    /\ archiveTmp \subseteq Instance \X Day
    /\ memory \in [Instance -> Blank..MaxUpdates]
    /\ mode \in Mode /\ step \in Steps(mode) /\ current \in Instance
    /\ now \in Time /\ today \in 1..now
    /\ nextLine \in 1..(MaxLines + 1)
    /\ kills \in 0..MaxKills /\ shutdowns \in 0..MaxShutdowns /\ errors \in 0..MaxErrors
    /\ logged \in [Instance -> SUBSET Line]

Archived(i) == UNION {archive[i][d] : d \in Day}

\* No line that was logged is lost, and no copy of it is out of date, whatever
\* kill or error cuts a rewrite or a rotation short.
LinesKept == \A i \in Instance : journal[i] \cup Archived(i) = logged[i]

\* Rotation takes the oldest lines: what has left the journal is older than
\* everything still in it.
OldestLeaveFirst ==
    \A i \in Instance :
        \A a \in Archived(i) \ journal[i], l \in journal[i] : a.id < l.id

\* A line is in more than one file only because a kill or an error came between
\* the two writes of a rotation.
Holders(i, l) == Cardinality({d \in Day : l \in archive[i][d]})
                   + Cardinality({j \in {i} : l \in journal[j]})
InRotation(i) == mode = "rotate" /\ current = i
CopiesBounded ==
    \A i \in Instance : \A l \in logged[i] :
        ~InRotation(i) => Holders(i, l) <= 1 + kills + errors

\* The saved state of an instance never goes back to an older one: a state that
\* cannot be read is not replaced.
StateNeverRollsBack == [][\A i \in Instance : state'[i] >= state[i]]_vars

\* Again and again no journal holds a line past the retention time, unless a .tmp
\* that a kill or an error left is in the way: of that journal, its history file or
\* one of an instance before it, or of any state, which keeps the process from
\* starting.
Obstructed(i) ==
    \/ mode \in {"idle", "down"} /\ (i \in journalTmp \/ <<i, today>> \in archiveTmp)
    \/ mode = "down" /\ ~StateReadable(i)
SomeObstructed(i) ==
    \/ \E j \in 1..i : Obstructed(j)
    \/ \E j \in Instance : mode = "down" /\ ~StateReadable(j)
OldLinesLeave ==
    []<>(\A i \in Instance : Old(i) = {} \/ SomeObstructed(i))
=============================================================================
