------------------------- MODULE InstanceFilesProofs -------------------------
(***************************************************************************)
(* What InstanceFiles guarantees for every number of instances, lines,     *)
(* days, kills and errors, proved from one inductive invariant.            *)
(***************************************************************************)
EXTENDS InstanceFiles, FiniteSetTheorems, TLAPS

\* Lines are numbered in the order in which time passed.
LinesInOrder ==
    \A i \in Instance :
        /\ \A l \in logged[i] : l.id < nextLine /\ l.at <= now
        /\ \A l, m \in logged[i] : (l.id = m.id => l = m) /\ (l.id < m.id => l.at <= m.at)

\* Only expired lines are in history files.
ArchivedExpired == \A i \in Instance : \A l \in Archived(i) : Expired(l)

\* The line a cycle is about to settle is of this very pass.
SettlesToday ==
    step \in {"settle", "settleCommit"} =>
        \A l \in logged[current] : l.id = nextLine - 1 => l.at = now

\* The journal is rewritten only once the history file holds what leaves it.
ArchivedBeforePruned ==
    step \in {"prune", "pruneCommit"} => Old(current) \subseteq archive[current][today]

\* Memory is never behind the saved state while the process runs.
MemoryNotBehind == mode # "down" => \A i \in Instance : memory[i] >= state[i]

FilesInv ==
    /\ TypeOK
    /\ LinesKept
    /\ LinesInOrder
    /\ ArchivedExpired
    /\ SettlesToday
    /\ ArchivedBeforePruned
    /\ OldestLeaveFirst
    /\ MemoryNotBehind

(***************************************************************************)
(* Moving on: Enter, Advance, Raise and Goto only change where the process *)
(* is, and all but Goto leave it at the start of an instance.              *)
(***************************************************************************)
AtStart == step' \in {"save", "load", "scan", "none"}
PlaceOK == mode' \in Mode /\ step' \in Steps(mode') /\ current' \in Instance

LEMMA EnterPlace ==
    ASSUME NEW m \in Mode, Enter(m)
    PROVE  PlaceOK /\ AtStart /\ mode' = m
  BY FilesAssumption DEF Enter, PlaceOK, AtStart, Mode, Steps, First, Instance

LEMMA AdvancePlace ==
    ASSUME TypeOK, Advance
    PROVE  PlaceOK /\ AtStart
  <1>1. mode \in Mode /\ current \in Instance
    BY DEF TypeOK
  <1>2. CASE current < NumInstances
    <2>1. current' = current + 1 /\ step' = First(mode) /\ mode' = mode
      BY <1>2 DEF Advance
    <2>2. current' \in Instance
      BY <1>1, <1>2, <2>1, FilesAssumption DEF Instance
    <2> QED
      BY <1>1, <2>1, <2>2 DEF PlaceOK, AtStart, Mode, Steps, First
  <1>3. CASE ~(current < NumInstances)
    <2>1. Enter(After(mode))
      BY <1>3 DEF Advance
    <2>2. After(mode) \in Mode
      BY <1>1 DEF After, Mode
    <2> QED
      BY <2>1, <2>2, EnterPlace
  <1> QED
    BY <1>2, <1>3

LEMMA RaisePlace ==
    ASSUME TypeOK, Raise
    PROVE  PlaceOK /\ AtStart
  <1>1. CASE mode = "cycle"
    BY <1>1, AdvancePlace DEF Raise
  <1>2. CASE mode = "rotate"
    <2>1. Enter("idle")
      BY <1>2 DEF Raise
    <2> QED
      BY <2>1, EnterPlace DEF Mode
  <1>3. CASE mode # "cycle" /\ mode # "rotate"
    <2>1. Enter("down")
      BY <1>3 DEF Raise
    <2> QED
      BY <2>1, EnterPlace DEF Mode
  <1> QED
    BY <1>1, <1>2, <1>3

\* Every action leaves the process at a step of its mode.
LEMMA NextPlace ==
    ASSUME TypeOK, Next
    PROVE  PlaceOK
  <1> USE DEF At, Goto, PlaceOK
  <1>0. mode \in Mode /\ step \in Steps(mode) /\ current \in Instance
    BY DEF TypeOK
  <1>1. CASE Startup
    BY <1>0, <1>1, EnterPlace DEF Startup, Mode
  <1>2. CASE BeginPass
    BY <1>2, EnterPlace DEF BeginPass, Mode
  <1>3. CASE Load
    BY <1>0, <1>3, RaisePlace DEF Load, Steps
  <1>4. CASE LogExternalClose \/ NothingToLog \/ LogIntent \/ NoTrade \/ CommitSettled \/ Finalize
    BY <1>0, <1>4 DEF LogExternalClose, NothingToLog, LogIntent, NoTrade, CommitSettled,
                      Finalize, Steps
  <1>5. CASE ReturnEarly
    BY <1>5, AdvancePlace DEF ReturnEarly
  <1>6. CASE WaitRaises
    BY <1>6, RaisePlace DEF WaitRaises
  <1>7. CASE Settle
    BY <1>0, <1>7, RaisePlace DEF Settle, Steps
  <1>8. CASE Scan
    BY <1>0, <1>8, RaisePlace, AdvancePlace DEF Scan, Steps
  <1>9. CASE CommitArchive \/ Prune
    BY <1>0, <1>9 DEF CommitArchive, Prune, Steps
  <1>10. CASE CommitPruned
    BY <1>10, AdvancePlace DEF CommitPruned
  <1>11. CASE SaveMemory
    BY <1>0, <1>11 DEF SaveMemory, Steps, Mode
  <1>12. CASE CommitState
    BY <1>12, AdvancePlace DEF CommitState
  <1>13. CASE Shutdown
    BY <1>13, EnterPlace DEF Shutdown, Mode
  <1>14. CASE Tick
    BY <1>0, <1>14 DEF Tick
  <1>15. CASE Kill
    BY <1>15, EnterPlace DEF Kill, Mode
  <1>16. CASE StepFails
    BY <1>16, RaisePlace DEF StepFails
  <1> QED
    BY <1>1, <1>2, <1>3, <1>4, <1>5, <1>6, <1>7, <1>8, <1>9, <1>10, <1>11, <1>12, <1>13,
       <1>14, <1>15, <1>16 DEF Next, Work, Cycle, Rotation

(***************************************************************************)
(* Type correctness                                                        *)
(***************************************************************************)
\* What TypeOK says of everything but the place the process is at.
DataOK ==
    /\ state \in [Instance -> Version]
    /\ journal \in [Instance -> SUBSET Line]
    /\ archive \in [Instance -> [Day -> SUBSET Line]]
    /\ stateTmp \subseteq Instance /\ journalTmp \subseteq Instance
    /\ archiveTmp \subseteq Instance \X Day
    /\ memory \in [Instance -> Blank..MaxUpdates]
    /\ now \in Time /\ today \in 1..now
    /\ nextLine \in 1..(MaxLines + 1)
    /\ kills \in 0..MaxKills /\ shutdowns \in 0..MaxShutdowns /\ errors \in 0..MaxErrors
    /\ logged \in [Instance -> SUBSET Line]

LEMMA TypeParts == TypeOK <=> DataOK /\ mode \in Mode /\ step \in Steps(mode) /\ current \in Instance
  BY DEF TypeOK, DataOK

LEMMA LoadedType ==
    ASSUME DataOK
    PROVE  \A i \in Instance : Loaded(i) \in Blank..MaxUpdates /\ Loaded(i) >= state[i]
  BY FilesAssumption DEF DataOK, Loaded, Version, NoFile, Blank

LEMMA SettledType ==
    ASSUME NEW lines \in SUBSET Line
    PROVE  Settled(lines) \in SUBSET Line
  <1> SUFFICES ASSUME NEW l \in lines
               PROVE  (IF l.id = nextLine - 1 THEN [l EXCEPT !.settled = TRUE] ELSE l) \in Line
    BY DEF Settled
  <1> QED
    BY DEF Line

LEMMA TodayIsDay == ASSUME DataOK PROVE today \in Day
  BY FilesAssumption DEF DataOK, Time, Day

LEMMA AppendType ==
    ASSUME DataOK, current \in Instance, NEW settled \in BOOLEAN, AppendLine(settled)
    PROVE  DataOK'
  <1> DEFINE line == [id |-> nextLine, at |-> now, settled |-> settled]
  <1>1. nextLine <= MaxLines
    BY DEF AppendLine
  <1>2. line \in Line
    BY <1>1, FilesAssumption DEF DataOK, Line, Time
  <1>3. journal' = [journal EXCEPT ![current] = @ \cup {line}]
    BY DEF AppendLine
  <1>4. logged' = [logged EXCEPT ![current] = @ \cup {line}]
    BY DEF AppendLine
  <1>5. journal' \in [Instance -> SUBSET Line] /\ logged' \in [Instance -> SUBSET Line]
    BY <1>2, <1>3, <1>4 DEF DataOK
  <1>6. nextLine' \in 1..(MaxLines + 1)
    BY <1>1, FilesAssumption DEF DataOK, AppendLine
  <1> QED
    BY <1>5, <1>6 DEF DataOK, AppendLine, tmps, clock, faults

LEMMA TypeInductive ==
    ASSUME TypeOK, [Next]_vars
    PROVE  TypeOK'
  <1>0. DataOK /\ mode \in Mode /\ step \in Steps(mode) /\ current \in Instance
    BY TypeParts
  <1>a. CASE Next
    <2>1. PlaceOK
      BY <1>a, NextPlace
    <2>2. DataOK'
      <3> USE <1>0 DEF final, tmps, clock, faults
      <3>1. CASE Startup
        BY <3>1, LoadedType DEF Startup, DataOK
      <3>2. CASE BeginPass \/ NothingToLog \/ ReturnEarly \/ NoTrade \/ WaitRaises
        BY <3>2 DEF BeginPass, NothingToLog, ReturnEarly, NoTrade, WaitRaises, DataOK
      <3>3. CASE Load
        BY <3>3, LoadedType DEF Load, DataOK
      <3>4. CASE LogExternalClose
        BY <3>4, AppendType DEF LogExternalClose
      <3>5. CASE LogIntent
        BY <3>5, AppendType DEF LogIntent
      <3>6. CASE Settle
        BY <3>6 DEF Settle, DataOK
      <3>7. CASE CommitSettled
        <4>1. Settled(journal[current]) \in SUBSET Line /\ Settled(logged[current]) \in SUBSET Line
          BY SettledType DEF DataOK
        <4> QED
          BY <3>7, <4>1 DEF CommitSettled, DataOK
      <3>8. CASE Finalize
        <4>1. memory[current] < MaxUpdates => memory[current] + 1 \in Blank..MaxUpdates
          BY FilesAssumption DEF DataOK, Blank
        <4> QED
          BY <3>8, <4>1 DEF Finalize, DataOK
      <3>9. CASE Scan
        BY <3>9, TodayIsDay DEF Scan, DataOK
      <3>10. CASE CommitArchive
        <4>1. Old(current) \in SUBSET Line
          BY DEF Old, DataOK
        <4> QED
          BY <3>10, <4>1, TodayIsDay DEF CommitArchive, DataOK
      <3>11. CASE Prune
        BY <3>11 DEF Prune, DataOK
      <3>12. CASE CommitPruned
        BY <3>12 DEF CommitPruned, DataOK
      <3>13. CASE SaveMemory
        BY <3>13 DEF SaveMemory, DataOK
      <3>14. CASE CommitState
        <4>1. memory[current] \in Version
          BY FilesAssumption DEF DataOK, Version, NoFile, Blank
        <4> QED
          BY <3>14, <4>1 DEF CommitState, DataOK
      <3>15. CASE Shutdown
        BY <3>15, FilesAssumption DEF Shutdown, DataOK
      <3>16. CASE Tick
        BY <3>16, FilesAssumption DEF Tick, DataOK, Time
      <3>17. CASE Kill
        BY <3>17, FilesAssumption DEF Kill, DataOK
      <3>18. CASE StepFails
        BY <3>18, FilesAssumption DEF StepFails, DataOK
      <3> QED
        BY <1>a, <3>1, <3>2, <3>3, <3>4, <3>5, <3>6, <3>7, <3>8, <3>9, <3>10, <3>11, <3>12,
           <3>13, <3>14, <3>15, <3>16, <3>17, <3>18 DEF Next, Work, Cycle, Rotation
    <2> QED
      BY <2>1, <2>2 DEF PlaceOK, TypeOK, DataOK
  <1>b. CASE UNCHANGED vars
    BY <1>b, <1>0 DEF vars, final, tmps, clock, faults, TypeOK
  <1> QED
    BY <1>a, <1>b

(***************************************************************************)
(* The lines.  Most actions leave the records alone.                       *)
(***************************************************************************)
records == <<journal, archive, logged, nextLine, now, today>>

LEMMA RecordSteps ==
    ASSUME TypeOK, Next
    PROVE  \/ UNCHANGED records
           \/ LogExternalClose \/ LogIntent \/ CommitSettled
           \/ CommitArchive \/ CommitPruned \/ Tick
  <1> USE DEF records, final, clock
  <1>1. Startup \/ BeginPass \/ Shutdown => UNCHANGED records
    BY DEF Startup, BeginPass, Shutdown
  <1>2. Load \/ NothingToLog \/ ReturnEarly \/ NoTrade \/ WaitRaises => UNCHANGED records
    BY DEF Load, NothingToLog, ReturnEarly, NoTrade, WaitRaises
  <1>3. Settle \/ Finalize \/ Scan \/ Prune => UNCHANGED records
    BY DEF Settle, Finalize, Scan, Prune
  <1>4. SaveMemory \/ CommitState \/ Kill \/ StepFails => UNCHANGED records
    BY DEF SaveMemory, CommitState, Kill, StepFails
  <1> QED
    BY <1>1, <1>2, <1>3, <1>4 DEF Next, Work, Cycle, Rotation

\* The steps in the middle of a rewrite are reached one way only.
LEMMA BusySteps ==
    ASSUME TypeOK, Next, step' \in {"settle", "settleCommit", "prune", "pruneCommit"}
    PROVE  \/ LogIntent /\ step' = "settle" /\ current' = current
           \/ /\ Settle /\ step' = "settleCommit" /\ current' = current
              /\ UNCHANGED records
           \/ CommitArchive /\ step' = "prune" /\ current' = current
           \/ Prune /\ step' = "pruneCommit" /\ current' = current /\ UNCHANGED records
  <1> USE DEF Goto, AtStart, records, final, clock
  <1>0. mode \in Mode /\ step \in Steps(mode)
    BY DEF TypeOK
  <1>1. ~Startup /\ ~BeginPass /\ ~Shutdown
    BY <1>0, EnterPlace DEF Startup, BeginPass, Shutdown, Mode, Steps
  <1>2. ~Load /\ ~LogExternalClose /\ ~NothingToLog /\ ~ReturnEarly /\ ~NoTrade /\ ~WaitRaises
    BY RaisePlace, AdvancePlace DEF Load, LogExternalClose, NothingToLog, ReturnEarly, NoTrade,
                                    WaitRaises
  <1>3. ~CommitSettled /\ ~Finalize /\ ~SaveMemory /\ ~CommitState /\ ~CommitPruned
    BY AdvancePlace DEF CommitSettled, Finalize, SaveMemory, CommitState, CommitPruned
  <1>4. ~Scan
    BY RaisePlace, AdvancePlace DEF Scan
  <1>5. ~Kill /\ ~StepFails
    BY RaisePlace, EnterPlace DEF Kill, StepFails, Mode
  <1>6. ~Tick
    BY <1>0 DEF Tick, Mode, Steps
  <1>7. Settle => step' = "settleCommit" /\ current' = current /\ UNCHANGED records
    BY RaisePlace DEF Settle
  <1> QED
    BY <1>1, <1>2, <1>3, <1>4, <1>5, <1>6, <1>7
       DEF Next, Work, Cycle, Rotation, LogIntent, CommitArchive, Prune

Records == LinesKept /\ LinesInOrder /\ ArchivedExpired /\ OldestLeaveFirst

LEMMA ArchivedSame == ASSUME archive' = archive PROVE \A i \in Instance : Archived(i)' = Archived(i)
  BY DEF Archived

LEMMA ArchivedType == ASSUME DataOK PROVE \A i \in Instance : Archived(i) \in SUBSET Line
  BY DEF DataOK, Archived

LEMMA LineFields ==
    ASSUME DataOK, NEW i \in Instance, NEW l \in logged[i]
    PROVE  l \in Line /\ l.id \in 1..MaxLines /\ l.at \in Time
  BY DEF DataOK, Line

\* A new line is newer than all others, and in no history file.
LEMMA RecordsAppend ==
    ASSUME DataOK, current \in Instance, Records, NEW settled \in BOOLEAN, AppendLine(settled)
    PROVE  Records'
  <1> DEFINE line == [id |-> nextLine, at |-> now, settled |-> settled]
  <1>1. /\ journal' = [journal EXCEPT ![current] = @ \cup {line}]
        /\ logged' = [logged EXCEPT ![current] = @ \cup {line}]
        /\ nextLine' = nextLine + 1
        /\ archive' = archive /\ now' = now
    BY DEF AppendLine, clock
  <1>2. \A i \in Instance : Archived(i)' = Archived(i)
    BY <1>1, ArchivedSame
  <1>3. /\ \A i \in Instance \ {current} :
              journal'[i] = journal[i] /\ logged'[i] = logged[i]
        /\ journal'[current] = journal[current] \cup {line}
        /\ logged'[current] = logged[current] \cup {line}
        /\ nextLine' = nextLine + 1
    BY <1>1 DEF DataOK
  <1>4. \A l \in logged[current] : l.id < line.id /\ l.at <= line.at
    BY DEF Records, LinesInOrder
  <1>5. /\ line.id = nextLine /\ line.at = now
        /\ nextLine \in Nat /\ now \in Nat
    BY FilesAssumption DEF DataOK, Time
  <1>6. LinesKept'
    BY <1>2, <1>3 DEF Records, LinesKept
  <1>7. LinesInOrder'
    <2> SUFFICES ASSUME NEW i \in Instance
                 PROVE  /\ \A l \in logged'[i] : l.id < nextLine' /\ l.at <= now'
                        /\ \A l, m \in logged'[i] : (l.id = m.id => l = m) /\ (l.id < m.id => l.at <= m.at)
      BY DEF LinesInOrder
    <2>1. CASE i # current
      <3>1. \A l \in logged[i] : l.id \in Nat
        BY LineFields, FilesAssumption
      <3> QED
        BY <1>1, <1>3, <1>5, <2>1, <3>1 DEF Records, LinesInOrder
    <2>2. CASE i = current
      <3>1. \A l \in logged[current] : l.id \in Nat /\ l.at \in Nat
        BY LineFields, FilesAssumption DEF Time
      <3>2. \A l \in logged'[current] : l.id < nextLine' /\ l.at <= now
        BY <1>3, <1>4, <1>5, <3>1 DEF Records, LinesInOrder
      <3>3. ASSUME NEW l \in logged'[current], NEW m \in logged'[current]
            PROVE  (l.id = m.id => l = m) /\ (l.id < m.id => l.at <= m.at)
        <4> HIDE DEF line
        <4>1. CASE l \in logged[current] /\ m \in logged[current]
          BY <4>1 DEF Records, LinesInOrder
        <4>2. CASE l = line \/ m = line
          BY <1>3, <1>4, <1>5, <3>1, <4>2
        <4> QED
          BY <1>3, <3>3, <4>1, <4>2
      <3> QED
        BY <1>1, <2>2, <3>2, <3>3
    <2> QED
      BY <2>1, <2>2
  <1>8. ArchivedExpired'
    BY <1>1, <1>2 DEF Records, ArchivedExpired, Expired
  <1>9. OldestLeaveFirst'
    <2> SUFFICES ASSUME NEW i \in Instance, NEW a \in Archived(i) \ journal'[i],
                        NEW l \in journal'[i]
                 PROVE  a.id < l.id
      BY <1>2 DEF OldestLeaveFirst
    <2>1. a \in Archived(i) \ journal[i] /\ a \in logged[i]
      BY <1>3 DEF Records, LinesKept
    <2> HIDE DEF line
    <2>2. CASE l \in journal[i]
      BY <2>1, <2>2 DEF Records, OldestLeaveFirst
    <2>3. CASE l \notin journal[i]
      <3>1. i = current /\ l = line
        BY <1>3, <2>3
      <3> QED
        BY <1>4, <2>1, <3>1
    <2> QED
      BY <2>2, <2>3
  <1> QED
    BY <1>6, <1>7, <1>8, <1>9 DEF Records

\* Only the line being settled changes, and it is in no history file.
LEMMA RecordsSettle ==
    ASSUME DataOK, current \in Instance, Records, SettlesToday, CommitSettled
    PROVE  Records'
  <1> DEFINE n == nextLine - 1
             f(l) == IF l.id = n THEN [l EXCEPT !.settled = TRUE] ELSE l
  <1>1. /\ journal' = [journal EXCEPT ![current] = Settled(@)]
        /\ logged' = [logged EXCEPT ![current] = Settled(@)]
        /\ archive' = archive /\ nextLine' = nextLine /\ now' = now
    BY DEF CommitSettled, clock
  <1>2. \A i \in Instance : Archived(i)' = Archived(i)
    BY <1>1, ArchivedSame
  <1>3. /\ \A i \in Instance \ {current} : journal'[i] = journal[i] /\ logged'[i] = logged[i]
        /\ journal'[current] = {f(l) : l \in journal[current]}
        /\ logged'[current] = {f(l) : l \in logged[current]}
    BY <1>1 DEF DataOK, Settled
  <1>4. \A l \in Line : f(l).id = l.id /\ f(l).at = l.at
    BY DEF Line
  <1>5. \A a \in Archived(current) : a.id # n
    <2> SUFFICES ASSUME NEW a \in Archived(current), a.id = n
                 PROVE  FALSE
      OBVIOUS
    <2>1. a \in logged[current] /\ a.at + Retention < now
      BY DEF Records, LinesKept, ArchivedExpired, Expired
    <2>2. a.at = now
      BY <2>1 DEF SettlesToday, CommitSettled, At
    <2> QED
      BY <2>1, <2>2, FilesAssumption DEF DataOK, Time
  <1>6. \A a \in Archived(current) : f(a) = a
    BY <1>5
  <1>7. journal[current] \cup Archived(current) = logged[current]
    BY DEF Records, LinesKept
  <1>8. logged[current] \in SUBSET Line
    BY DEF DataOK
  <1> HIDE DEF n, f
  <1>9. LinesKept'
    <2>1. journal'[current] \cup Archived(current) = logged'[current]
      BY <1>3, <1>6, <1>7
    <2> QED
      BY <1>2, <1>3, <2>1 DEF Records, LinesKept
  <1>10. LinesInOrder'
    <2> SUFFICES ASSUME NEW i \in Instance
                 PROVE  /\ \A l \in logged'[i] : l.id < nextLine /\ l.at <= now
                        /\ \A l, m \in logged'[i] : (l.id = m.id => l = m) /\ (l.id < m.id => l.at <= m.at)
      BY <1>1 DEF LinesInOrder
    <2>1. CASE i # current
      BY <1>3, <2>1 DEF Records, LinesInOrder
    <2>2. CASE i = current
      <3>1. \A l \in logged'[current] : \E k \in logged[current] : l = f(k) /\ l.id = k.id /\ l.at = k.at
        BY <1>3, <1>4, <1>8
      <3>2. \A l \in logged'[current] : l.id < nextLine /\ l.at <= now
        BY <3>1 DEF Records, LinesInOrder
      <3>3. ASSUME NEW l \in logged'[current], NEW m \in logged'[current]
            PROVE  (l.id = m.id => l = m) /\ (l.id < m.id => l.at <= m.at)
        <4>1. PICK k \in logged[current] : l = f(k) /\ l.id = k.id /\ l.at = k.at
          BY <3>1, <3>3
        <4>2. PICK j \in logged[current] : m = f(j) /\ m.id = j.id /\ m.at = j.at
          BY <3>1, <3>3
        <4>3. (k.id = j.id => k = j) /\ (k.id < j.id => k.at <= j.at)
          BY DEF Records, LinesInOrder
        <4> QED
          BY <4>1, <4>2, <4>3
      <3> QED
        BY <2>2, <3>2, <3>3
    <2> QED
      BY <2>1, <2>2
  <1>11. ArchivedExpired'
    BY <1>1, <1>2 DEF Records, ArchivedExpired, Expired
  <1>12. OldestLeaveFirst'
    <2> SUFFICES ASSUME NEW i \in Instance, NEW a \in Archived(i) \ journal'[i],
                        NEW l \in journal'[i]
                 PROVE  a.id < l.id
      BY <1>2 DEF OldestLeaveFirst
    <2>1. CASE i # current
      BY <1>3, <2>1 DEF Records, OldestLeaveFirst
    <2>2. CASE i = current
      <3>1. a \notin journal[current]
        BY <1>3, <1>6, <2>2
      <3>2. PICK k \in journal[current] : l = f(k)
        BY <1>3, <2>2
      <3>3. k \in Line
        BY DEF DataOK
      <3>4. l.id = k.id
        BY <1>4, <3>2, <3>3
      <3> QED
        BY <2>2, <3>1, <3>4 DEF Records, OldestLeaveFirst
    <2> QED
      BY <2>1, <2>2
  <1> QED
    BY <1>9, <1>10, <1>11, <1>12 DEF Records

\* The history file takes a copy of what is expired.
LEMMA RecordsArchive ==
    ASSUME DataOK, current \in Instance, Records, CommitArchive
    PROVE  Records' /\ Old(current)' \subseteq archive'[current][today]
  <1>1. /\ archive' = [archive EXCEPT ![current][today] = @ \cup Old(current)]
        /\ journal' = journal /\ logged' = logged /\ nextLine' = nextLine /\ now' = now
        /\ today' = today /\ current' = current
    BY DEF CommitArchive, clock, Goto
  <1>2. today \in Day
    BY TodayIsDay
  <1>3. /\ \A i \in Instance \ {current} : archive'[i] = archive[i]
        /\ \A d \in Day \ {today} : archive'[current][d] = archive[current][d]
        /\ archive'[current][today] = archive[current][today] \cup Old(current)
    BY <1>1, <1>2 DEF DataOK
  <1>4. \A i \in Instance \ {current} : Archived(i)' = Archived(i)
    BY <1>3 DEF Archived
  <1>5. Archived(current)' = Archived(current) \cup Old(current)
    BY <1>1, <1>2, <1>3 DEF Archived
  <1>6. Old(current) \subseteq journal[current] /\ \A l \in Old(current) : Expired(l)
    BY DEF Old
  <1>7. \A i \in Instance : Archived(i)' = Archived(i) \cup (IF i = current THEN Old(current) ELSE {})
    BY <1>1, <1>4, <1>5
  <1>8. LinesKept'
    BY <1>1, <1>6, <1>7 DEF Records, LinesKept
  <1>9. LinesInOrder'
    BY <1>1 DEF Records, LinesInOrder
  <1>10. ArchivedExpired'
    BY <1>1, <1>6, <1>7 DEF Records, ArchivedExpired, Expired
  <1>11. OldestLeaveFirst'
    BY <1>1, <1>6, <1>7 DEF Records, OldestLeaveFirst
  <1>12. Old(current)' \subseteq archive'[current][today]
    BY <1>1, <1>3 DEF Old, Expired
  <1> QED
    BY <1>8, <1>9, <1>10, <1>11, <1>12 DEF Records

\* What the journal loses is in the history file.
LEMMA RecordsPrune ==
    ASSUME DataOK, current \in Instance, Records, ArchivedBeforePruned, CommitPruned
    PROVE  Records'
  <1>1. /\ journal' = [journal EXCEPT ![current] = @ \ Old(current)]
        /\ archive' = archive /\ logged' = logged /\ nextLine' = nextLine /\ now' = now
    BY DEF CommitPruned, clock
  <1>2. \A i \in Instance : Archived(i)' = Archived(i)
    BY <1>1, ArchivedSame
  <1>3. /\ \A i \in Instance \ {current} : journal'[i] = journal[i]
        /\ journal'[current] = journal[current] \ Old(current)
    BY <1>1 DEF DataOK
  <1>4. Old(current) \subseteq Archived(current)
    <2>1. Old(current) \subseteq archive[current][today]
      BY DEF ArchivedBeforePruned, CommitPruned, At
    <2> QED
      BY <2>1, TodayIsDay DEF Archived
  <1>5. LinesKept'
    BY <1>1, <1>2, <1>3, <1>4 DEF Records, LinesKept
  <1>6. LinesInOrder'
    BY <1>1 DEF Records, LinesInOrder
  <1>7. ArchivedExpired'
    BY <1>1, <1>2 DEF Records, ArchivedExpired, Expired
  <1>8. OldestLeaveFirst'
    <2> SUFFICES ASSUME NEW i \in Instance, NEW a \in Archived(i) \ journal'[i],
                        NEW l \in journal'[i]
                 PROVE  a.id < l.id
      BY <1>2 DEF OldestLeaveFirst
    <2>1. CASE a \notin journal[i]
      BY <1>3, <2>1 DEF Records, OldestLeaveFirst
    <2>2. CASE a \in journal[i]
      <3>1. i = current /\ Expired(a) /\ l \in journal[i] /\ ~Expired(l)
        BY <1>3, <2>2 DEF Old
      <3>2. a \in logged[i] /\ l \in logged[i]
        BY <3>1 DEF Records, LinesKept
      <3>3. a.at < l.at
        BY <3>1, <3>2, LineFields, FilesAssumption DEF Expired, Time, DataOK
      <3>4. (l.id = a.id => l = a) /\ (l.id < a.id => l.at <= a.at)
        BY <3>2 DEF Records, LinesInOrder
      <3> QED
        BY <3>2, <3>3, <3>4, LineFields, FilesAssumption DEF Time
    <2> QED
      BY <2>1, <2>2
  <1> QED
    BY <1>5, <1>6, <1>7, <1>8 DEF Records

LEMMA RecordsTick ==
    ASSUME DataOK, Records, Tick
    PROVE  Records'
  <1>1. /\ now' = now + 1
        /\ journal' = journal /\ archive' = archive /\ logged' = logged /\ nextLine' = nextLine
    BY DEF Tick, final
  <1>2. \A i \in Instance : Archived(i)' = Archived(i)
    BY <1>1, ArchivedSame
  <1>3. now \in Nat
    BY FilesAssumption DEF DataOK, Time
  <1>4. \A i \in Instance : \A l \in logged[i] : l.at \in Nat
    BY LineFields, FilesAssumption DEF Time
  <1>5. LinesInOrder'
    BY <1>1, <1>3, <1>4 DEF Records, LinesInOrder
  <1>6. ArchivedExpired'
    <2> SUFFICES ASSUME NEW i \in Instance, NEW l \in Archived(i)
                 PROVE  l.at + Retention < now + 1
      BY <1>1, <1>2 DEF ArchivedExpired, Expired
    <2>1. l \in logged[i] /\ l.at + Retention < now
      BY DEF Records, LinesKept, ArchivedExpired, Expired
    <2> QED
      BY <1>3, <1>4, <2>1, FilesAssumption
  <1> QED
    BY <1>1, <1>2, <1>5, <1>6 DEF Records, LinesKept, OldestLeaveFirst

(***************************************************************************)
(* The invariant                                                           *)
(***************************************************************************)
LEMMA RecordsKept ==
    ASSUME TypeOK, Records, SettlesToday, ArchivedBeforePruned, Next
    PROVE  Records'
  <1>0. DataOK /\ current \in Instance
    BY TypeParts
  <1>1. CASE UNCHANGED records
    BY <1>1, ArchivedSame DEF records, Records, LinesKept, LinesInOrder, ArchivedExpired,
                             OldestLeaveFirst, Expired
  <1>2. CASE LogExternalClose
    BY <1>0, <1>2, RecordsAppend DEF LogExternalClose
  <1>3. CASE LogIntent
    BY <1>0, <1>3, RecordsAppend DEF LogIntent
  <1>4. CASE CommitSettled
    BY <1>0, <1>4, RecordsSettle
  <1>5. CASE CommitArchive
    BY <1>0, <1>5, RecordsArchive
  <1>6. CASE CommitPruned
    BY <1>0, <1>6, RecordsPrune
  <1>7. CASE Tick
    BY <1>0, <1>7, RecordsTick
  <1> QED
    BY <1>1, <1>2, <1>3, <1>4, <1>5, <1>6, <1>7, RecordSteps

LEMMA SettlesTodayKept ==
    ASSUME TypeOK, Records, SettlesToday, Next
    PROVE  SettlesToday'
  <1> SUFFICES ASSUME step' \in {"settle", "settleCommit"},
                      NEW l \in logged'[current'], l.id = nextLine' - 1
               PROVE  l.at = now'
    BY DEF SettlesToday
  <1>0. DataOK /\ current \in Instance
    BY TypeParts
  <1>1. CASE Settle /\ current' = current /\ UNCHANGED records
    BY <1>1 DEF records, Settle, At, SettlesToday
  <1>2. CASE LogIntent /\ current' = current
    <2> DEFINE line == [id |-> nextLine, at |-> now, settled |-> FALSE]
    <2>1. /\ logged' = [logged EXCEPT ![current] = @ \cup {line}]
          /\ nextLine' = nextLine + 1 /\ now' = now
      BY <1>2 DEF LogIntent, AppendLine, clock
    <2>2. nextLine' - 1 = nextLine
      BY <1>0, <2>1, FilesAssumption DEF DataOK
    <2>3. \A m \in logged[current] : m.id # nextLine
      BY <1>0, FilesAssumption, LineFields DEF Records, LinesInOrder, DataOK
    <2>4. l = line
      BY <1>0, <1>2, <2>1, <2>2, <2>3 DEF DataOK
    <2> QED
      BY <2>1, <2>4
  <1> QED
    BY <1>1, <1>2, BusySteps

LEMMA PruneOrderKept ==
    ASSUME TypeOK, Records, ArchivedBeforePruned, Next
    PROVE  ArchivedBeforePruned'
  <1> SUFFICES ASSUME step' \in {"prune", "pruneCommit"}
               PROVE  Old(current)' \subseteq archive'[current'][today']
    BY DEF ArchivedBeforePruned
  <1>0. DataOK /\ current \in Instance
    BY TypeParts
  <1>1. CASE CommitArchive /\ current' = current
    <2>1. today' = today
      BY <1>1 DEF CommitArchive, clock
    <2> QED
      BY <1>0, <1>1, <2>1, RecordsArchive
  <1>2. CASE Prune /\ current' = current /\ UNCHANGED records
    BY <1>2 DEF Prune, At, ArchivedBeforePruned, records, Old, Expired
  <1> QED
    BY <1>1, <1>2, BusySteps

\* A state is only overwritten with a memory that is not behind it.
LEMMA MemoryKept ==
    ASSUME TypeOK, MemoryNotBehind, Next
    PROVE  MemoryNotBehind' /\ \A i \in Instance : state'[i] >= state[i]
  <1>0. DataOK /\ mode \in Mode /\ step \in Steps(mode) /\ current \in Instance
    BY TypeParts
  <1>1. mode = "down" => step = "none"
    BY DEF Steps, TypeOK
  <1>2. \A i \in Instance : state[i] \in Nat /\ memory[i] \in Nat
    BY <1>0, FilesAssumption DEF DataOK, Version, NoFile, Blank
  <1> USE DEF final, At
  <1>3. CASE Startup
    BY <1>0, <1>2, <1>3, LoadedType DEF Startup, MemoryNotBehind
  <1>4. CASE Load
    BY <1>0, <1>2, <1>4, LoadedType DEF Load, MemoryNotBehind, DataOK
  <1>5. CASE Finalize
    <2>1. \A i \in Instance : memory'[i] >= memory[i]
      BY <1>0, <1>2, <1>5 DEF Finalize, DataOK
    <2>2. \A i \in Instance : memory'[i] \in Nat
      BY <1>0, <1>2, <1>5 DEF Finalize, DataOK
    <2> QED
      BY <1>2, <1>5, <2>1, <2>2 DEF Finalize, MemoryNotBehind
  <1>6. CASE CommitState
    <2>1. mode # "down"
      BY <1>1, <1>6 DEF CommitState
    <2> QED
      BY <1>0, <1>2, <1>6, <2>1 DEF CommitState, MemoryNotBehind, DataOK
  <1>7. CASE Kill
    BY <1>2, <1>7, EnterPlace DEF Kill, MemoryNotBehind, Mode
  <1>8. CASE BeginPass \/ Shutdown \/ Tick \/ StepFails
    BY <1>2, <1>8 DEF BeginPass, Shutdown, Tick, StepFails, MemoryNotBehind
  <1>9. CASE LogExternalClose \/ NothingToLog \/ ReturnEarly \/ LogIntent \/ NoTrade
    BY <1>2, <1>9 DEF LogExternalClose, NothingToLog, ReturnEarly, LogIntent, NoTrade, AppendLine,
                      MemoryNotBehind
  <1>10. CASE WaitRaises \/ Settle \/ CommitSettled
    BY <1>2, <1>10 DEF WaitRaises, Settle, CommitSettled, MemoryNotBehind
  <1>11. CASE Rotation
    BY <1>2, <1>11 DEF Rotation, Scan, CommitArchive, Prune, CommitPruned, MemoryNotBehind
  <1>12. CASE SaveMemory
    BY <1>1, <1>2, <1>12 DEF SaveMemory, MemoryNotBehind
  <1> QED
    BY <1>3, <1>4, <1>5, <1>6, <1>7, <1>8, <1>9, <1>10, <1>11, <1>12 DEF Next, Work, Cycle

LEMMA FilesInit == Init => FilesInv
  <1> SUFFICES ASSUME Init PROVE FilesInv
    OBVIOUS
  <1>1. DataOK
    BY FilesAssumption DEF Init, DataOK, Version, NoFile, Blank, Time
  <1>2. mode \in Mode /\ step \in Steps(mode) /\ current \in Instance
    BY FilesAssumption DEF Init, Mode, Steps, Instance
  <1>3. \A i \in Instance : logged[i] = {} /\ journal[i] = {} /\ Archived(i) = {}
    BY DEF Init, Archived
  <1>4. LinesKept /\ LinesInOrder /\ ArchivedExpired /\ OldestLeaveFirst
    BY <1>3 DEF LinesKept, LinesInOrder, ArchivedExpired, OldestLeaveFirst
  <1> QED
    BY <1>1, <1>2, <1>4, TypeParts
       DEF FilesInv, Init, SettlesToday, ArchivedBeforePruned, MemoryNotBehind

LEMMA FilesStep == FilesInv /\ [Next]_vars => FilesInv'
  <1> SUFFICES ASSUME FilesInv, [Next]_vars PROVE FilesInv'
    OBVIOUS
  <1>1. TypeOK'
    BY TypeInductive DEF FilesInv
  <1>2. CASE Next
    BY <1>1, <1>2, RecordsKept, SettlesTodayKept, PruneOrderKept, MemoryKept DEF FilesInv, Records
  <1>3. CASE UNCHANGED vars
    BY <1>1, <1>3, ArchivedSame
       DEF FilesInv, vars, final, clock, LinesKept, LinesInOrder, ArchivedExpired, OldestLeaveFirst,
           Expired, SettlesToday, ArchivedBeforePruned, Old, MemoryNotBehind
  <1> QED
    BY <1>2, <1>3

\* The inductive invariant of the files.
THEOREM FilesInvariant == Spec => []FilesInv
  BY FilesInit, FilesStep, PTL DEF Spec

\* Type correctness.
THEOREM FilesTypeCorrect == Spec => []TypeOK
  <1>1. FilesInv => TypeOK
    BY DEF FilesInv
  <1> QED
    BY <1>1, FilesInvariant, PTL

\* No kill and no failed write ever loses a journal line or revives an older
\* form of it: the journal and its history files together hold exactly the last
\* form of every line that was written (rotate_journal_file,
\* update_trade_journal_ack and append_trade_journal_entry).
THEOREM NoLineLost == Spec => []LinesKept
  <1>1. FilesInv => LinesKept
    BY DEF FilesInv
  <1> QED
    BY <1>1, FilesInvariant, PTL

\* Rotation moves the oldest lines first (rotate_journal_file).
THEOREM OldestFirst == Spec => []OldestLeaveFirst
  <1>1. FilesInv => OldestLeaveFirst
    BY DEF FilesInv
  <1> QED
    BY <1>1, FilesInvariant, PTL

\* The saved state never goes back, whatever is loaded, killed or not readable
\* (InstanceState.save and load, persist_runtime_state).
THEOREM NoRollBack == Spec => StateNeverRollsBack
  <1>1. FilesInv /\ [Next]_vars => [\A i \in Instance : state'[i] >= state[i]]_vars
    BY MemoryKept DEF FilesInv
  <1> QED
    BY <1>1, FilesInvariant, PTL DEF Spec, StateNeverRollsBack

(***************************************************************************)
(* Copies.  Only between the two writes of a rotation may a line be in one *)
(* file more than the kills and errors so far account for.                 *)
(***************************************************************************)
CopiesIn(files, l) == Cardinality({d \in Day : l \in files[d]})
HoldersIn(files, lines, l) == CopiesIn(files, l) + (IF l \in lines THEN 1 ELSE 0)

Taken(i, l) == step \in {"prune", "pruneCommit"} /\ i = current /\ l \in Old(i)
CopiesPaid ==
    \A i \in Instance : \A l \in logged[i] :
        HoldersIn(archive[i], journal[i], l)
          <= 1 + kills + errors + (IF Taken(i, l) THEN 1 ELSE 0)

LEMMA DaysFinite == ASSUME NEW S \in SUBSET Day PROVE IsFiniteSet(S) /\ Cardinality(S) \in Nat
  <1>1. IsFiniteSet(Day)
    BY FS_Interval, FilesAssumption DEF Day
  <1>2. IsFiniteSet(S)
    BY <1>1, FS_Subset
  <1> QED
    BY <1>2, FS_CardinalityType

LEMMA CopiesNat ==
    ASSUME NEW files, NEW l
    PROVE  /\ CopiesIn(files, l) \in Nat
           /\ (\A d \in Day : l \notin files[d]) => CopiesIn(files, l) = 0
  <1> DEFINE S == {d \in Day : l \in files[d]}
  <1>1. Cardinality(S) \in Nat
    <2>1. S \in SUBSET Day
      OBVIOUS
    <2> QED
      BY <2>1, DaysFinite
  <1>2. (\A d \in Day : l \notin files[d]) => S = {}
    OBVIOUS
  <1> QED
    BY <1>1, <1>2, FS_EmptySet DEF CopiesIn

\* A history file that takes some lines makes one copy of each.
LEMMA OneDayMore ==
    ASSUME NEW S \in SUBSET Day, NEW day, NEW T, T = S \/ T = S \cup {day}
    PROVE  Cardinality(T) <= Cardinality(S) + 1
  <1>1. IsFiniteSet(S) /\ Cardinality(S) \in Nat
    BY DaysFinite
  <1>2. Cardinality(S \cup {day}) = IF day \in S THEN Cardinality(S) ELSE Cardinality(S) + 1
    BY <1>1, FS_AddElement
  <1>3. Cardinality(S \cup {day}) <= Cardinality(S) + 1
    BY <1>1, <1>2
  <1>4. CASE T = S
    BY <1>1, <1>4
  <1>5. CASE T = S \cup {day}
    BY <1>3, <1>5
  <1> QED
    BY <1>4, <1>5

LEMMA CopiesNotTaken ==
    ASSUME TypeOK, CopiesPaid, NEW i \in Instance, NEW l \in logged[i], ~Taken(i, l)
    PROVE  HoldersIn(archive[i], journal[i], l) <= 1 + kills + errors
  <1>1. kills \in Nat /\ errors \in Nat
    BY FilesAssumption DEF TypeOK
  <1>2. HoldersIn(archive[i], journal[i], l)
          <= 1 + kills + errors + (IF Taken(i, l) THEN 1 ELSE 0)
    BY DEF CopiesPaid
  <1> QED
    BY <1>1, <1>2

\* Steps that leave every file alone: those of a rotation's second half either go
\* on with it or are cut short, which is paid for.
LEMMA CopiesUnchanged ==
    ASSUME TypeOK, CopiesPaid, Next, UNCHANGED records
    PROVE  CopiesPaid'
  <1> SUFFICES ASSUME NEW i \in Instance, NEW l \in logged[i]
               PROVE  HoldersIn(archive[i], journal[i], l)
                        <= 1 + kills' + errors' + (IF Taken(i, l)' THEN 1 ELSE 0)
    BY DEF CopiesPaid, records
  <1> DEFINE H == HoldersIn(archive[i], journal[i], l)
  <1>1. H \in Nat
    BY CopiesNat DEF HoldersIn
  <1>2. H <= 1 + kills + errors + (IF Taken(i, l) THEN 1 ELSE 0)
    BY DEF CopiesPaid
  <1> HIDE DEF H
  <1>3. /\ kills \in Nat /\ errors \in Nat
        /\ kills' \in {kills, kills + 1} /\ errors' \in {errors, errors + 1}
    <2>1. kills \in Nat /\ errors \in Nat
      BY FilesAssumption DEF TypeOK
    <2>2. kills' \in {kills, kills + 1} /\ errors' \in {errors, errors + 1}
      BY DEF Next, Work, Cycle, Rotation, Startup, BeginPass, Load, LogExternalClose, NothingToLog,
             ReturnEarly, LogIntent, NoTrade, WaitRaises, Settle, CommitSettled, Finalize, Scan,
             CommitArchive, Prune, CommitPruned, SaveMemory, CommitState, Shutdown, Tick, Kill,
             StepFails, AppendLine, faults
    <2> QED
      BY <2>1, <2>2
  <1>4. CASE ~Taken(i, l)
    BY <1>1, <1>2, <1>3, <1>4 DEF H
  <1>5. CASE Taken(i, l) /\ Taken(i, l)'
    BY <1>1, <1>2, <1>3, <1>5 DEF H
  <1>6. CASE Kill \/ StepFails
    <2>1. \/ kills' = kills + 1 /\ errors' = errors
          \/ kills' = kills /\ errors' = errors + 1
      <3>1. Kill => kills' = kills + 1 /\ errors' = errors
        BY DEF Kill
      <3>2. StepFails => kills' = kills /\ errors' = errors + 1
        BY DEF StepFails
      <3> QED
        BY <1>6, <3>1, <3>2
    <2>2. H <= 2 + kills + errors
      BY <1>1, <1>2, <1>3
    <2>3. kills' \in Nat /\ errors' \in Nat
      BY <1>3
    <2>4. CASE kills' = kills + 1 /\ errors' = errors
      BY <1>1, <1>3, <2>2, <2>3, <2>4 DEF H
    <2>5. CASE kills' = kills /\ errors' = errors + 1
      BY <1>1, <1>3, <2>2, <2>3, <2>5 DEF H
    <2> QED
      BY <2>1, <2>4, <2>5
  <1>7. CASE Prune
    <2>1. Old(i)' = Old(i)
      BY DEF Old, Expired, records
    <2>2. Taken(i, l) => Taken(i, l)'
      BY <1>7, <2>1 DEF Prune, Goto, Taken
    <2> QED
      BY <1>4, <1>5, <2>2
  <1>8. CASE CommitPruned /\ Taken(i, l)
    <2>1. journal' = [journal EXCEPT ![current] = @ \ Old(current)]
      BY <1>8 DEF CommitPruned
    <2>2. l \notin journal'[current]
      BY <1>8, <2>1 DEF Taken, TypeOK
    <2>3. l \in journal[current]
      BY <1>8 DEF Taken, Old
    <2> QED
      BY <2>2, <2>3 DEF records
  <1>9. Taken(i, l) => Prune \/ CommitPruned \/ Kill \/ StepFails
    <2> SUFFICES ASSUME Taken(i, l) PROVE Prune \/ CommitPruned \/ Kill \/ StepFails
      OBVIOUS
    <2>1. mode = "rotate" /\ step \in {"prune", "pruneCommit"}
      BY DEF TypeOK, Taken, Mode, Steps
    <2> QED
      BY <2>1 DEF Next, Work, Cycle, Rotation, Startup, BeginPass, Load, LogExternalClose,
                  NothingToLog, ReturnEarly, LogIntent, NoTrade, WaitRaises, Settle, CommitSettled,
                  Finalize, Scan, CommitArchive, SaveMemory, CommitState, Shutdown, Tick, At
  <1> QED
    BY <1>4, <1>6, <1>7, <1>8, <1>9

LEMMA CopiesArchived ==
    ASSUME TypeOK, CopiesPaid, CommitArchive
    PROVE  CopiesPaid'
  <1> SUFFICES ASSUME NEW i \in Instance, NEW l \in logged[i]
               PROVE  HoldersIn(archive'[i], journal[i], l)
                        <= 1 + kills + errors + (IF Taken(i, l)' THEN 1 ELSE 0)
    BY DEF CopiesPaid, CommitArchive, faults
  <1>1. HoldersIn(archive[i], journal[i], l) <= 1 + kills + errors
    <2>1. ~Taken(i, l)
      BY DEF Taken, CommitArchive, At
    <2> QED
      BY <2>1, CopiesNotTaken
  <1>2. kills \in Nat /\ errors \in Nat /\ today \in Day /\ current \in Instance
        /\ archive \in [Instance -> [Day -> SUBSET Line]]
    BY TypeParts, TodayIsDay, FilesAssumption DEF DataOK
  <1>3. archive' = [archive EXCEPT ![current][today] = @ \cup Old(current)]
    BY DEF CommitArchive
  <1>4. CopiesIn(archive[i], l) \in Nat /\ CopiesIn(archive'[i], l) \in Nat
    BY CopiesNat
  <1>5. CASE i # current
    BY <1>1, <1>2, <1>3, <1>4, <1>5 DEF HoldersIn
  <1>6. CASE i = current
    <2>1. \A d \in Day : archive'[i][d] = IF d = today THEN archive[i][d] \cup Old(i)
                                                       ELSE archive[i][d]
      BY <1>2, <1>3, <1>6
    <2>2. /\ CopiesIn(archive'[i], l) <= CopiesIn(archive[i], l) + 1
          /\ l \notin Old(i) => CopiesIn(archive'[i], l) = CopiesIn(archive[i], l)
      <3> DEFINE S == {d \in Day : l \in archive[i][d]}
                 T == {d \in Day : l \in archive'[i][d]}
      <3>1. l \notin Old(i) => T = S
        BY <2>1
      <3>2. T = S \/ T = S \cup {today}
        BY <1>2, <2>1
      <3>3. S \in SUBSET Day
        OBVIOUS
      <3> HIDE DEF S, T
      <3>4. Cardinality(T) <= Cardinality(S) + 1
        BY <3>2, <3>3, OneDayMore
      <3>5. CopiesIn(archive'[i], l) = Cardinality(T) /\ CopiesIn(archive[i], l) = Cardinality(S)
        BY DEF CopiesIn, S, T
      <3> QED
        BY <3>1, <3>4, <3>5
    <2>3. l \in Old(i) => Taken(i, l)'
      BY <1>6 DEF CommitArchive, Goto, Taken, Old, Expired, clock
    <2> QED
      BY <1>1, <1>2, <1>4, <2>2, <2>3 DEF HoldersIn
  <1> QED
    BY <1>5, <1>6

LEMMA CopiesPruned ==
    ASSUME TypeOK, CopiesPaid, CommitPruned
    PROVE  CopiesPaid'
  <1> SUFFICES ASSUME NEW i \in Instance, NEW l \in logged[i]
               PROVE  HoldersIn(archive[i], journal'[i], l)
                        <= 1 + kills + errors + (IF Taken(i, l)' THEN 1 ELSE 0)
    BY DEF CopiesPaid, CommitPruned, faults
  <1>1. HoldersIn(archive[i], journal[i], l) <= 1 + kills + errors + (IF Taken(i, l) THEN 1 ELSE 0)
    BY DEF CopiesPaid
  <1>2. kills \in Nat /\ errors \in Nat /\ journal \in [Instance -> SUBSET Line]
    BY FilesAssumption DEF TypeOK
  <1>3. journal' = [journal EXCEPT ![current] = @ \ Old(current)]
    BY DEF CommitPruned
  <1>4. CopiesIn(archive[i], l) \in Nat
    BY CopiesNat
  <1>5. CASE Taken(i, l)
    <2>1. l \in journal[i] /\ l \notin journal'[i]
      BY <1>2, <1>3, <1>5 DEF Taken, Old
    <2> QED
      BY <1>1, <1>2, <1>4, <1>5, <2>1 DEF HoldersIn
  <1>6. CASE ~Taken(i, l)
    <2>1. l \in journal'[i] => l \in journal[i]
      BY <1>2, <1>3
    <2> QED
      BY <1>1, <1>2, <1>4, <1>6, <2>1 DEF HoldersIn
  <1> QED
    BY <1>5, <1>6

\* A line that no history file holds is in one file at most.
LEMMA CopiesAppended ==
    ASSUME TypeOK, Records, CopiesPaid, step \notin {"prune", "pruneCommit"},
           NEW settled \in BOOLEAN, AppendLine(settled)
    PROVE  CopiesPaid'
  <1> DEFINE line == [id |-> nextLine, at |-> now, settled |-> settled]
  <1> SUFFICES ASSUME NEW i \in Instance, NEW l \in logged'[i]
               PROVE  HoldersIn(archive[i], journal'[i], l) <= 1 + kills + errors
    <2>1. ASSUME \A i \in Instance : \A l \in logged'[i] :
                   HoldersIn(archive[i], journal'[i], l) <= 1 + kills + errors
          PROVE  CopiesPaid'
      <3>1. kills \in Nat /\ errors \in Nat
        BY FilesAssumption DEF TypeOK
      <3>2. archive' = archive /\ kills' = kills /\ errors' = errors
        BY DEF AppendLine, faults
      <3>3. \A i \in Instance : \A l \in logged'[i] : HoldersIn(archive[i], journal'[i], l) \in Nat
        BY CopiesNat DEF HoldersIn
      <3> QED
        BY <2>1, <3>1, <3>2, <3>3 DEF CopiesPaid
    <2> QED
      BY <2>1
  <1>1. /\ journal' = [journal EXCEPT ![current] = @ \cup {line}]
        /\ logged' = [logged EXCEPT ![current] = @ \cup {line}]
    BY DEF AppendLine
  <1>2. /\ DataOK /\ current \in Instance
        /\ kills \in Nat /\ errors \in Nat /\ CopiesIn(archive[i], l) \in Nat
    BY CopiesNat, TypeParts, FilesAssumption DEF DataOK
  <1>3. CASE l \in logged[i] /\ ~(i = current /\ l = line)
    <2>1. HoldersIn(archive[i], journal[i], l) <= 1 + kills + errors
      BY <1>3, CopiesNotTaken DEF Taken
    <2>2. l \in journal'[i] => l \in journal[i]
      BY <1>1, <1>2, <1>3 DEF DataOK
    <2> QED
      BY <1>2, <2>1, <2>2 DEF HoldersIn
  <1>4. CASE i = current /\ l = line
    <2>1. \A a \in Archived(i) : a.id < nextLine
      BY DEF Records, LinesKept, LinesInOrder
    <2>2. l \notin Archived(i)
      <3>1. l.id = nextLine /\ nextLine \in Nat
        BY <1>2, <1>4, FilesAssumption DEF DataOK
      <3> QED
        BY <2>1, <3>1
    <2>3. CopiesIn(archive[i], l) = 0
      BY <2>2, CopiesNat DEF Archived
    <2> QED
      BY <1>2, <2>3 DEF HoldersIn
  <1>5. l \in logged[i] \/ (i = current /\ l = line)
    <2>1. logged'[i] = IF i = current THEN logged[i] \cup {line} ELSE logged[i]
      BY <1>1, <1>2 DEF DataOK
    <2>2. CASE i = current
      <3>1. l \in logged[i] \cup {line}
        BY <2>1, <2>2
      <3> HIDE DEF line
      <3> QED
        BY <2>2, <3>1
    <2>3. CASE i # current
      BY <2>1, <2>3
    <2> QED
      BY <2>2, <2>3
  <1> QED
    BY <1>3, <1>4, <1>5

LEMMA CopiesSettled ==
    ASSUME TypeOK, Records, SettlesToday, CopiesPaid, CommitSettled
    PROVE  CopiesPaid'
  <1> DEFINE n == nextLine - 1
             f(l) == IF l.id = n THEN [l EXCEPT !.settled = TRUE] ELSE l
  <1> SUFFICES ASSUME NEW i \in Instance, NEW l \in logged'[i]
               PROVE  HoldersIn(archive[i], journal'[i], l) <= 1 + kills + errors
    <2>1. ASSUME \A i \in Instance : \A l \in logged'[i] :
                   HoldersIn(archive[i], journal'[i], l) <= 1 + kills + errors
          PROVE  CopiesPaid'
      <3>1. kills \in Nat /\ errors \in Nat
        BY FilesAssumption DEF TypeOK
      <3>2. archive' = archive /\ kills' = kills /\ errors' = errors
        BY DEF CommitSettled, faults
      <3>3. \A i \in Instance : \A l \in logged'[i] : HoldersIn(archive[i], journal'[i], l) \in Nat
        BY CopiesNat DEF HoldersIn
      <3> QED
        BY <2>1, <3>1, <3>2, <3>3 DEF CopiesPaid
    <2> QED
      BY <2>1
  <1>1. /\ DataOK /\ current \in Instance /\ kills \in Nat /\ errors \in Nat
        /\ CopiesIn(archive[i], l) \in Nat
    BY CopiesNat, TypeParts, FilesAssumption DEF DataOK
  <1>2. /\ journal' = [journal EXCEPT ![current] = Settled(@)]
        /\ logged' = [logged EXCEPT ![current] = Settled(@)]
    BY DEF CommitSettled
  <1>3. /\ i # current => journal'[i] = journal[i] /\ logged'[i] = logged[i]
        /\ i = current => /\ journal'[i] = {f(k) : k \in journal[i]}
                          /\ logged'[i] = {f(k) : k \in logged[i]}
    BY <1>1, <1>2 DEF DataOK, Settled
  <1>4. \A k \in Line : f(k).id = k.id
    BY DEF Line
  <1>5. journal[i] \subseteq Line /\ logged[i] \subseteq Line
    BY <1>1 DEF DataOK
  <1> HIDE DEF f
  <1>6. CASE i = current /\ l.id = n
    <2>1. \A a \in Archived(i) : a.id # n
      <3> SUFFICES ASSUME NEW a \in Archived(i), a.id = n
                   PROVE  FALSE
        OBVIOUS
      <3>1. a \in logged[i] /\ a.at + Retention < now
        BY DEF Records, LinesKept, ArchivedExpired, Expired
      <3>2. a.at = now
        BY <1>6, <3>1 DEF SettlesToday, CommitSettled, At
      <3> QED
        BY <1>1, <3>1, <3>2, FilesAssumption DEF DataOK, Time
    <2>2. CopiesIn(archive[i], l) = 0
      BY <1>6, <2>1, CopiesNat DEF Archived
    <2> QED
      BY <1>1, <2>2 DEF HoldersIn
  <1>7. CASE ~(i = current /\ l.id = n)
    <2>1. l \in logged[i] /\ (l \in journal'[i] => l \in journal[i])
      <3>1. CASE i # current
        BY <1>3, <3>1
      <3>2. CASE i = current
        <4>1. \A k \in Line : k.id # n => f(k) = k
          BY DEF f
        <4>2. \A k \in Line : f(k) = l => k = l
          BY <1>4, <1>7, <3>2, <4>1
        <4> QED
          BY <1>3, <1>5, <3>2, <4>2
      <3> QED
        BY <3>1, <3>2
    <2>2. HoldersIn(archive[i], journal[i], l) <= 1 + kills + errors
      <3>1. ~Taken(i, l)
        BY DEF Taken, CommitSettled, At
      <3> QED
        BY <2>1, <3>1, CopiesNotTaken
    <2> QED
      BY <1>1, <2>1, <2>2 DEF HoldersIn
  <1> QED
    BY <1>6, <1>7

LEMMA CopiesStep ==
    ASSUME FilesInv, CopiesPaid, [Next]_vars
    PROVE  CopiesPaid'
  <1>0. TypeOK /\ Records /\ SettlesToday /\ DataOK
    BY TypeParts DEF FilesInv, Records
  <1>1. CASE UNCHANGED vars
    BY <1>1 DEF vars, final, clock, faults, CopiesPaid, Taken, Old, Expired
  <1>2. CASE Next /\ UNCHANGED records
    BY <1>0, <1>2, CopiesUnchanged
  <1>3. CASE LogExternalClose
    BY <1>0, <1>3, CopiesAppended DEF LogExternalClose, At
  <1>4. CASE LogIntent
    BY <1>0, <1>4, CopiesAppended DEF LogIntent, At
  <1>5. CASE CommitSettled
    BY <1>0, <1>5, CopiesSettled
  <1>6. CASE CommitArchive
    BY <1>0, <1>6, CopiesArchived
  <1>7. CASE CommitPruned
    BY <1>0, <1>7, CopiesPruned
  <1>8. CASE Tick
    <2>1. /\ step = "none" /\ step' = step
          /\ UNCHANGED <<archive, journal, logged, kills, errors>>
      BY <1>0, <1>8 DEF Tick, TypeOK, Steps, final, faults
    <2> QED
      BY <2>1 DEF CopiesPaid, Taken
  <1> QED
    BY <1>0, <1>1, <1>2, <1>3, <1>4, <1>5, <1>6, <1>7, <1>8, RecordSteps

\* A line has one home, but for one more copy for every kill or error and the one
\* that a rotation is just moving (rotate_journal_file).
THEOREM FewCopies == Spec => []CopiesBounded
  <1>1. Init => CopiesPaid
    BY DEF Init, CopiesPaid
  <1>2. FilesInv /\ CopiesPaid => CopiesBounded
    <2> SUFFICES ASSUME FilesInv, CopiesPaid, NEW i \in Instance, NEW l \in logged[i],
                        ~InRotation(i)
                 PROVE  Holders(i, l) <= 1 + kills + errors
      BY DEF CopiesBounded
    <2>1. ~Taken(i, l)
      BY DEF FilesInv, TypeOK, Mode, Steps, Taken, InRotation
    <2>2. kills \in Nat /\ errors \in Nat
      BY FilesAssumption DEF FilesInv, TypeOK
    <2>3. Cardinality({j \in {i} : l \in journal[j]}) = IF l \in journal[i] THEN 1 ELSE 0
      <3>1. CASE l \in journal[i]
        <4>1. {j \in {i} : l \in journal[j]} = {i}
          BY <3>1
        <4> QED
          BY <3>1, <4>1, FS_Singleton
      <3>2. CASE l \notin journal[i]
        <4>1. {j \in {i} : l \in journal[j]} = {}
          BY <3>2
        <4> QED
          BY <3>2, <4>1, FS_EmptySet
      <3> QED
        BY <3>1, <3>2
    <2>4. Holders(i, l) = HoldersIn(archive[i], journal[i], l)
      BY <2>3 DEF Holders, HoldersIn, CopiesIn
    <2>5. HoldersIn(archive[i], journal[i], l) <= 1 + kills + errors
      BY <2>1, <2>2 DEF CopiesPaid
    <2> QED
      BY <2>4, <2>5
  <1> QED
    BY <1>1, <1>2, CopiesStep, FilesInvariant, PTL DEF Spec

=============================================================================
