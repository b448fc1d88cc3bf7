---------------------------- MODULE RuntimeProofs ----------------------------
(***************************************************************************)
(* What holds of Runtime for every number of instances, lookback, signals, *)
(* kills and errors.  The inductive invariant is RuntimeInv: the types     *)
(* with the histories as sequences, and, while the process stops, that the *)
(* instances it has passed are saved.  ModelFresh adds that those a pass   *)
(* has still to judge have a model made of their record: with it,          *)
(* LastSpreadDecides says how far the spread filter is from the dispersion *)
(* that the specification asks for.                                        *)
(***************************************************************************)
EXTENDS Runtime, FiniteSetTheorems, WellFoundedInduction, TLAPS

-----------------------------------------------------------------------------
\* At most LookbackBars samples.
History == {h \in Seq(Nat) : Len(h) <= LookbackBars}

Histories ==
    /\ sensor \in [Instance -> History] /\ model \in [Instance -> History]
    /\ spreadFile \in [Instance -> SpreadRecord] /\ record \in [Instance -> SpreadRecord]

Loops ==
    /\ exported \subseteq Instance
    /\ pc \in {"down", "recovering", "idle", "cycle", "decide", "logError", "observe", "stopping"}
    /\ queue \subseteq registered /\ registered \subseteq Instance
    /\ queue = {} <=> pc \in {"down", "idle"}
    /\ pc # "down" => 1 \in registered

\* An exit code of 0 is set when the last instance has been saved.
Exits ==
    /\ exitCode \in 0..1
    /\ pc # "down" => exitCode = 1
    /\ pc = "stopping" => \A i \in registered \ queue : spreadFile[i] = record[i]

Flag == shutdownRequested \in BOOLEAN /\ obstructed \in BOOLEAN

RuntimeInv == Histories /\ Loops /\ Exits /\ Flag /\ CleanExitSaves

-----------------------------------------------------------------------------
\* A loop that is not over has a first instance.
LEMMA CurrentFacts ==
    ASSUME Loops, queue # {}
    PROVE  Current \in queue /\ Current \in registered /\ Current \in Instance
<1> DEFINE R == OpToRel(<, Nat)
<1>1. queue \subseteq Nat  BY RuntimeAssumption DEF Loops, Instance
<1>2. IsWellFoundedOn(R, Nat)  BY NatLessThanWellFounded
<1>3. \E i \in queue : \A j \in queue : ~(<<j, i>> \in R)
  <2> HIDE DEF R
  <2> QED BY <1>1, <1>2, WFMin
<1>4. PICK i \in queue : \A j \in queue : ~(<<j, i>> \in R)  BY <1>3
<1>5. \A j \in queue : i <= j
  <2> SUFFICES ASSUME NEW j \in queue  PROVE i <= j  OBVIOUS
  <2>1. i \in Nat /\ j \in Nat  BY <1>1
  <2>2. ~(j < i)  BY <1>4, <2>1 DEF OpToRel
  <2> QED BY <2>1, <2>2
<1>6. Current \in queue  BY <1>5 DEF Current, Min
<1> QED BY <1>6 DEF Loops

\* A sample more, and a sample less if there are too many.
LEMMA UpdatedHistory ==
    ASSUME NEW h \in History, NEW spread \in Nat
    PROVE  Updated(h, spread) \in History /\ Updated(h, spread) # << >>
<1> DEFINE c == Append(h, spread)
           surplus == IF Len(c) > LookbackBars THEN Len(c) - LookbackBars ELSE 0
<1>1. h \in Seq(Nat) /\ Len(h) \in Nat /\ Len(h) <= LookbackBars
      /\ LookbackBars \in Nat /\ LookbackBars > 0
  BY SpreadAssumption DEF History
<1>2. c \in Seq(Nat) /\ Len(c) = Len(h) + 1  BY <1>1
<1>3. surplus \in 0..1 /\ surplus < Len(c) /\ Len(c) - surplus <= LookbackBars  BY <1>1, <1>2
<1>4. Updated(h, spread) = SubSeq(c, surplus + 1, Len(c))  BY DEF Updated
<1> HIDE DEF c, surplus
<1>5. SubSeq(c, surplus + 1, Len(c)) \in Seq(Nat)
      /\ Len(SubSeq(c, surplus + 1, Len(c))) = Len(c) - surplus
  BY <1>1, <1>2, <1>3
<1> QED BY <1>1, <1>2, <1>3, <1>4, <1>5 DEF History

\* A history has a record, and a record a history.
LEMMA RecordTypes ==
    /\ NoRecord \in SpreadRecord
    /\ \A h \in History : h # << >> => RecordOf(h) \in SpreadRecord
    /\ \A r \in SpreadRecord : FromRecord(r) \in History
    /\ << >> \in History
<1>0. LookbackBars \in Nat \ {0}  BY SpreadAssumption
<1>1. NoRecord \in SpreadRecord  BY <1>0 DEF NoRecord, SpreadRecord
<1>2. ASSUME NEW h \in History, h # << >>  PROVE RecordOf(h) \in SpreadRecord
  <2>1. h \in Seq(Nat) /\ Len(h) \in 1..LookbackBars  BY <1>0, <1>2 DEF History
  <2>2. Last(h) \in Nat  BY <2>1 DEF Last
  <2>3. Acceptable(h) \in BOOLEAN  BY DEF Acceptable
  <2> QED BY <1>0, <2>1, <2>2, <2>3 DEF RecordOf, SpreadRecord
<1>3. ASSUME NEW r \in SpreadRecord  PROVE FromRecord(r) \in History
  <2>1. r.sample_count \in 0..LookbackBars /\ r.current_spread \in Nat  BY DEF SpreadRecord
  <2>2. FromRecord(r) \in [1..r.sample_count -> Nat]  BY <2>1 DEF FromRecord
  <2>3. r.sample_count \in Nat /\ r.sample_count <= LookbackBars  BY <1>0, <2>1
  <2>4. FromRecord(r) \in Seq(Nat) /\ Len(FromRecord(r)) = r.sample_count
    BY <2>2, <2>3
  <2> QED BY <2>3, <2>4 DEF History
<1>4. << >> \in History  BY <1>0 DEF History
<1> QED BY <1>1, <1>2, <1>3, <1>4

LEMMA DiscoveredFacts ==
    ASSUME Loops
    PROVE  Discovered \subseteq Instance /\ 1 \in Discovered
BY RuntimeAssumption DEF Loops, Discovered, Instance

-----------------------------------------------------------------------------
LEMMA RuntimeInitial == Init => RuntimeInv
<1> SUFFICES ASSUME Init  PROVE RuntimeInv  OBVIOUS
<1>1. Histories  BY RecordTypes DEF Init, Histories
<1>2. Loops /\ Exits  BY DEF Init, Loops, Exits
<1>3. Flag  BY Zenon DEF Init, Flag
<1>4. CleanExitSaves  BY DEF Init, CleanExitSaves
<1> QED BY <1>1, <1>2, <1>3, <1>4 DEF RuntimeInv

\* Only Startup and RequestShutdown set the one flag, to FALSE and to TRUE.
LEMMA RequestKept == shutdownRequested \in BOOLEAN /\ [Next]_vars => shutdownRequested' \in BOOLEAN
BY Zenon DEF Next, Process, Pass, EaExports, Obstruction, RequestShutdown, Kill, Startup,
     StartupFails, RecoverInstance, RecoveryFails, RegistrationFails, IoError, BeginPass, CycleSkipped,
     CycleJudgesSpread, CycleSaves, DecisionFails, CycleRaises, ErrorLogged, Observed, PassCrashes,
     BeginShutdown, Persist, PersistFails, vars

\* Only Obstruction changes the other.
LEMMA ObstructionKept == obstructed \in BOOLEAN /\ [Next]_vars => obstructed' \in BOOLEAN
<1>1. Obstruction => obstructed' \in BOOLEAN
  BY Zenon DEF Obstruction
<1>2. [Next]_vars => Obstruction \/ obstructed' = obstructed
  BY DEF Next, Process, Pass, EaExports, RequestShutdown, Kill, Startup, StartupFails,
     RecoverInstance, RecoveryFails, RegistrationFails, IoError, BeginPass, CycleSkipped,
     CycleJudgesSpread, CycleSaves, DecisionFails, CycleRaises, ErrorLogged, Observed, PassCrashes,
     BeginShutdown, Persist, PersistFails, vars, disk
<1> QED BY <1>1, <1>2, Zenon

\* So both stay flags.
LEMMA FlagKept == Flag /\ [Next]_vars => Flag'
BY RequestKept, ObstructionKept, Zenon DEF Flag

\* The histories and records keep their types.
LEMMA HistoriesKept == RuntimeInv /\ [Next]_vars => Histories'
<1> SUFFICES ASSUME RuntimeInv, [Next]_vars  PROVE Histories'  OBVIOUS
<1> USE DEF RuntimeInv
<1>0. pc \notin {"down", "idle"} => Current \in Instance
  BY CurrentFacts DEF Loops
<1>1. CASE EaExports
  <2>1. PICK i \in Instance, spread \in Spread : sensor' = [sensor EXCEPT ![i] = Updated(@, spread)]
    BY <1>1 DEF EaExports
  <2>2. spread \in Nat  BY RuntimeAssumption DEF Spread
  <2>3. Updated(sensor[i], spread) \in History  BY <2>2, UpdatedHistory DEF Histories
  <2> QED BY <1>1, <2>1, <2>3 DEF EaExports, Histories, memory
<1>2. CASE Startup
  <2>1. record' \in [Instance -> SpreadRecord]
    BY <1>2, RecordTypes DEF Startup, Histories
  <2>2. model' \in [Instance -> History]
    BY <1>2, <2>1, RecordTypes DEF Startup
  <2> QED BY <1>2, <2>1, <2>2 DEF Startup, Histories, disk
<1>3. CASE RecoverInstance
  <2>1. record' \in [Instance -> SpreadRecord] /\ model' \in [Instance -> History]
    <3>1. CASE UNCHANGED <<record, model>>  BY <3>1 DEF Histories
    <3>2. CASE /\ sensor[Current] # << >>
               /\ record' = [record EXCEPT ![Current] = RecordOf(sensor[Current])]
               /\ model' = [model EXCEPT ![Current] = sensor[Current]]
      <4>1. sensor[Current] \in History /\ RecordOf(sensor[Current]) \in SpreadRecord
        BY <1>0, <1>3, <3>2, RecordTypes DEF RecoverInstance, Histories
      <4> QED BY <3>2, <4>1 DEF Histories
    <3> QED BY <1>3, <3>1, <3>2 DEF RecoverInstance
  <2>2. spreadFile' \in [Instance -> SpreadRecord]
    BY <1>0, <1>3, <2>1 DEF RecoverInstance, Histories
  <2> QED BY <1>3, <2>1, <2>2 DEF RecoverInstance, Histories
<1>4. CASE BeginPass \/ RegistrationFails
  <2>1. UNCHANGED disk /\ \E ready : Register(ready)
    BY <1>4 DEF BeginPass, RegistrationFails
  <2>2. record' \in [Instance -> SpreadRecord]  BY <2>1 DEF Register, Histories
  <2>3. model' \in [Instance -> History]  BY <2>1, <2>2, RecordTypes DEF Register, Histories
  <2> QED BY <2>1, <2>2, <2>3 DEF Histories, disk
<1>5. CASE CycleJudgesSpread
  <2>1. sensor[Current] \in History /\ sensor[Current] # << >> /\ model[Current] \in History
        /\ Current \in Instance
    BY <1>0, <1>5 DEF CycleJudgesSpread, Histories
  <2>2. Last(sensor[Current]) \in Nat  BY <2>1 DEF Last, History
  <2>3. Updated(model[Current], Last(sensor[Current])) \in History
        /\ Updated(model[Current], Last(sensor[Current])) # << >>
    BY <2>1, <2>2, UpdatedHistory
  <2>4. model' \in [Instance -> History]
        /\ model'[Current] = Updated(model[Current], Last(sensor[Current]))
    BY <1>5, <2>1, <2>3 DEF CycleJudgesSpread, Histories
  <2>5. RecordOf(model'[Current]) \in SpreadRecord  BY <2>3, <2>4, RecordTypes
  <2>6. record' \in [Instance -> SpreadRecord]
    BY <1>5, <2>1, <2>5 DEF CycleJudgesSpread, Histories
  <2> QED BY <1>5, <2>4, <2>6 DEF CycleJudgesSpread, Histories, disk
<1>6. CASE CycleSaves \/ Persist
  BY <1>0, <1>6 DEF CycleSaves, Persist, Histories, memory
<1>7. CASE UNCHANGED <<sensor, spreadFile, record, model>>
  BY <1>7 DEF Histories
<1> QED
  BY <1>1, <1>2, <1>3, <1>4, <1>5, <1>6, <1>7
  DEF Next, Process, Pass, Obstruction, RequestShutdown, Kill, StartupFails, RecoveryFails, IoError,
      CycleSkipped, DecisionFails, CycleRaises, ErrorLogged, Observed, PassCrashes, BeginShutdown,
      PersistFails, vars, disk, memory

\* Every loop over instances has one to go on with until it is over.
LEMMA LoopsKept == RuntimeInv /\ [Next]_vars => Loops'
<1> SUFFICES ASSUME RuntimeInv, [Next]_vars  PROVE Loops'  OBVIOUS
<1> USE DEF RuntimeInv
<1>1. CASE EaExports
  BY <1>1 DEF EaExports, Loops, memory
<1>2. CASE Startup
  BY <1>2, DiscoveredFacts DEF Startup, Loops, disk
<1>3. CASE BeginPass \/ RegistrationFails
  <2>1. UNCHANGED exported
        /\ \E ready \in SUBSET Discovered : Register(ready)
    BY <1>3 DEF BeginPass, RegistrationFails, disk
  <2>2. registered \subseteq registered' /\ registered' \subseteq Instance
    BY <2>1, DiscoveredFacts DEF Register, Loops
  <2>3. CASE BeginPass
    BY <2>1, <2>2, <2>3, DiscoveredFacts DEF BeginPass, Register, Loops
  <2>4. CASE RegistrationFails
    BY <2>1, <2>2, <2>4 DEF RegistrationFails, Loops
  <2> QED BY <1>3, <2>3, <2>4
<1>4. CASE RecoverInstance \/ Persist
  BY <1>4 DEF RecoverInstance, Persist, Loops, memory
<1>5. CASE BeginShutdown
  BY <1>5 DEF BeginShutdown, Loops, disk, memory
<1>6. CASE CycleSkipped \/ CycleJudgesSpread \/ CycleSaves \/ DecisionFails \/ CycleRaises \/ ErrorLogged
  BY <1>6 DEF CycleSkipped, CycleJudgesSpread, CycleSaves, DecisionFails, CycleRaises, ErrorLogged,
              Loops, disk, memory
<1>7. CASE Observed
  <2>1. queue' \subseteq queue /\ (queue' = {} => pc' = "idle") /\ (queue' # {} => pc' = "cycle")
        /\ UNCHANGED <<exported, registered>> /\ pc = "observe"
    BY <1>7 DEF Observed, disk, memory
  <2> QED BY <2>1 DEF Loops
<1>8. CASE Kill \/ RecoveryFails \/ PassCrashes \/ PersistFails
  BY <1>8 DEF Kill, RecoveryFails, PassCrashes, PersistFails, IoError, Loops, disk, memory
<1>9. CASE UNCHANGED <<exported, pc, queue, registered>>
  BY <1>9 DEF Loops
<1> QED
  BY <1>1, <1>2, <1>3, <1>4, <1>5, <1>6, <1>7, <1>8, <1>9
  DEF Next, Process, Pass, Obstruction, RequestShutdown, StartupFails, vars, disk, memory

\* What a shutdown has passed is saved, and it ends well only at its end.
LEMMA ExitsKept == RuntimeInv /\ [Next]_vars => Exits' /\ CleanExitSaves'
<1> SUFFICES ASSUME RuntimeInv, [Next]_vars  PROVE Exits' /\ CleanExitSaves'  OBVIOUS
<1> USE DEF RuntimeInv
<1>1. CASE EaExports \/ Obstruction \/ RequestShutdown
  BY <1>1 DEF EaExports, Obstruction, RequestShutdown, Exits, CleanExitSaves, disk, memory
<1>2. CASE Kill \/ Startup \/ StartupFails \/ RecoveryFails \/ PersistFails
  BY <1>2 DEF Kill, Startup, StartupFails, RecoveryFails, PersistFails, IoError, Exits, CleanExitSaves, Discovered
<1>3. CASE RecoverInstance
  BY <1>3 DEF RecoverInstance, Exits, CleanExitSaves
<1>4. CASE Pass
  BY <1>4 DEF Pass, BeginPass, RegistrationFails, CycleSkipped, CycleJudgesSpread, CycleSaves,
              DecisionFails, CycleRaises, ErrorLogged, Observed, PassCrashes, IoError, Exits, CleanExitSaves
<1>5. CASE BeginShutdown
  BY <1>5 DEF BeginShutdown, Exits, CleanExitSaves, disk, memory
<1>6. CASE Persist
  <2>1. Current \in queue /\ Current \in Instance  BY <1>6, CurrentFacts DEF Persist, Loops
  <2>2. /\ spreadFile' = [spreadFile EXCEPT ![Current] = record[Current]]
        /\ UNCHANGED <<registered, record>> /\ queue' = queue \ {Current} /\ pc = "stopping"
    BY <1>6 DEF Persist, memory
  <2>3. \A i \in registered \ queue' : spreadFile'[i] = record'[i]
    BY <2>1, <2>2 DEF Exits, Histories, Loops
  <2> QED BY <1>6, <2>2, <2>3 DEF Persist, Exits, CleanExitSaves
<1>7. CASE UNCHANGED vars
  BY <1>7 DEF vars, disk, memory, Exits, CleanExitSaves
<1> QED BY <1>1, <1>2, <1>3, <1>4, <1>5, <1>6, <1>7 DEF Next, Process

-----------------------------------------------------------------------------
\* Process, memory and disk are what RuntimeInv says, in every reachable state.
THEOREM RuntimeInvariant == Spec => []RuntimeInv
<1>1. RuntimeInv /\ [Next]_vars => RuntimeInv'
  BY HistoriesKept, LoopsKept, ExitsKept, FlagKept DEF RuntimeInv
<1> QED BY <1>1, RuntimeInitial, PTL DEF Spec

\* The types, and loops that end with an empty queue.
THEOREM RuntimeTypes == Spec => []TypeOK
<1>1. RuntimeInv => TypeOK
  <2> SUFFICES ASSUME RuntimeInv  PROVE TypeOK  OBVIOUS
  <2>1. shutdownRequested \in BOOLEAN /\ obstructed \in BOOLEAN  BY DEF RuntimeInv, Flag
  <2>2. \A i \in Instance : /\ Len(sensor[i]) <= LookbackBars /\ Len(model[i]) <= LookbackBars
                             /\ spreadFile[i] \in SpreadRecord /\ record[i] \in SpreadRecord
    BY DEF RuntimeInv, Histories, History
  <2> QED BY <2>1, <2>2 DEF RuntimeInv, Loops, Exits, TypeOK
<1> QED BY <1>1, RuntimeInvariant, PTL

\* An exit code of 0 means that every instance is saved (lifecycle.py:292).
THEOREM ExitIsClean == Spec => []CleanExitSaves
<1>1. RuntimeInv => CleanExitSaves  BY DEF RuntimeInv
<1> QED BY <1>1, RuntimeInvariant, PTL

-----------------------------------------------------------------------------
(***************************************************************************)
(* Total and Squares are folds over the samples, so what they are for a    *)
(* history of equal samples and a higher one needs induction.  The library *)
(* states it with an operator parameter; here it is by a least             *)
(* counterexample, for the sets of numbers that the proofs are about.      *)
(***************************************************************************)
LEMMA Induction ==
    ASSUME NEW S \in SUBSET Nat, 0 \in S, \A k \in S : k + 1 \in S
    PROVE  S = Nat
<1> DEFINE R == OpToRel(<, Nat)
<1>1. SUFFICES ASSUME Nat \ S # {}  PROVE FALSE  OBVIOUS
<1>2. IsWellFoundedOn(R, Nat)  BY NatLessThanWellFounded
<1>3. \E i \in Nat \ S : \A j \in Nat \ S : ~(<<j, i>> \in R)
  <2> HIDE DEF R
  <2> QED BY <1>1, <1>2, WFMin
<1>4. PICK i \in Nat \ S : \A j \in Nat \ S : ~(<<j, i>> \in R)  BY <1>3
<1>5. i \in Nat /\ i # 0  OBVIOUS
<1>6. i - 1 \in Nat /\ (i - 1) + 1 = i  BY <1>5
<1>7. i - 1 \in S
  <2>1. SUFFICES ASSUME i - 1 \in Nat \ S  PROVE FALSE  BY <1>6
  <2>2. ~(i - 1 < i)  BY <1>4, <1>5, <1>6, <2>1 DEF OpToRel
  <2> QED BY <1>5, <2>2
<1> QED BY <1>5, <1>6, <1>7

\* The function that a fold iterates: the sum over each set of places.
SumsOf(g, f, n) ==
    g = [s \in SUBSET (1..n) |->
            IF s = {} THEN 0
            ELSE g[s \ {CHOOSE x \in s : TRUE}] + f[CHOOSE x \in s : TRUE]]

\* A set of places is finite, and it is empty when it has no elements.
LEMMA Places ==
    ASSUME NEW n \in Nat, NEW s \in SUBSET (1..n)
    PROVE  /\ IsFiniteSet(s) /\ Cardinality(s) \in Nat /\ Cardinality(s) <= n
           /\ Cardinality(s) = 0 <=> s = {}
<1> DEFINE I == 1..n
<1>1. 1 \in Int /\ n \in Int  OBVIOUS
<1>2. IsFiniteSet(I) /\ Cardinality(I) = n  BY <1>1, FS_Interval
<1>3. s \in SUBSET I  OBVIOUS
<1> HIDE DEF I
<1>4. IsFiniteSet(s) /\ Cardinality(s) <= n  BY <1>2, <1>3, FS_Subset
<1> QED BY <1>4, FS_CardinalityType, FS_EmptySet

\* A set without the place that was chosen is smaller by one.
LEMMA ChosenOut ==
    ASSUME NEW n \in Nat, NEW s \in SUBSET (1..n), s # {}
    PROVE  LET x == CHOOSE x \in s : TRUE
           IN  /\ x \in s /\ s \ {x} \in SUBSET (1..n)
               /\ Cardinality(s) \in Nat /\ Cardinality(s) # 0
               /\ Cardinality(s \ {x}) = Cardinality(s) - 1
<1> DEFINE x == CHOOSE x \in s : TRUE
<1>1. x \in s /\ s \ {x} \in SUBSET (1..n)  OBVIOUS
<1>2. IsFiniteSet(s) /\ Cardinality(s) \in Nat /\ (Cardinality(s) = 0 <=> s = {})
  BY Places
<1>4. Cardinality(s \ {x}) = Cardinality(s) - 1  BY <1>1, <1>2, FS_RemoveElement
<1> QED BY <1>1, <1>2, <1>4

\* There is such a function.
LEMMA SumsExist ==
    ASSUME NEW n \in Nat, NEW f \in [1..n -> Int]
    PROVE  \E g : SumsOf(g, f, n)
<1> DEFINE P == SUBSET (1..n)
           Up(g, k) == \A s \in P : Cardinality(s) <= k =>
                          g[s] = IF s = {} THEN 0
                                 ELSE g[s \ {CHOOSE x \in s : TRUE}] + f[CHOOSE x \in s : TRUE]
           S == {k \in Nat : \E g \in [P -> Int] : Up(g, k)}
<1>1. \A s \in P : Cardinality(s) \in Nat /\ (Cardinality(s) = 0 <=> s = {})
                   /\ Cardinality(s) <= n
  BY Places
<1>2. 0 \in S
  <2>1. Up([s \in P |-> 0], 0)  BY <1>1
  <2>2. [s \in P |-> 0] \in [P -> Int]  OBVIOUS
  <2> HIDE DEF P, Up
  <2> QED BY <2>1, <2>2
<1>3. ASSUME NEW k \in S  PROVE k + 1 \in S
  <2>1. k \in Nat /\ k + 1 \in Nat  OBVIOUS
  <2>2. PICK g \in [P -> Int] : Up(g, k)  OBVIOUS
  <2> DEFINE h == [s \in P |-> IF Cardinality(s) <= k THEN g[s]
                               ELSE g[s \ {CHOOSE x \in s : TRUE}] + f[CHOOSE x \in s : TRUE]]
  <2>3. ASSUME NEW s \in P, s # {}
        PROVE  /\ s \ {CHOOSE x \in s : TRUE} \in P /\ (CHOOSE x \in s : TRUE) \in 1..n
               /\ Cardinality(s) \in Nat
               /\ Cardinality(s \ {CHOOSE x \in s : TRUE}) = Cardinality(s) - 1
    BY <2>3, ChosenOut
  <2>4. h \in [P -> Int]
    <3>1. ASSUME NEW s \in P, ~(Cardinality(s) <= k)
          PROVE  g[s \ {CHOOSE x \in s : TRUE}] + f[CHOOSE x \in s : TRUE] \in Int
      <4>1. s # {}  BY <1>1, <2>1, <3>1
      <4> QED BY <2>3, <4>1
    <3> QED BY <3>1
  <2>5. Up(h, k + 1)
    <3>1. SUFFICES ASSUME NEW s \in P, Cardinality(s) <= k + 1
                   PROVE  h[s] = IF s = {} THEN 0
                                 ELSE h[s \ {CHOOSE x \in s : TRUE}] + f[CHOOSE x \in s : TRUE]
      OBVIOUS
    <3>2. CASE s = {}
      <4>1. Cardinality(s) <= k  BY <1>1, <2>1, <3>2
      <4>2. g[s] = 0  BY <2>2, <3>2, <4>1
      <4> QED BY <3>2, <4>1, <4>2
    <3>3. CASE s # {}
      <4> DEFINE x == CHOOSE x \in s : TRUE
                 t == s \ {x}
      <4>1. /\ t \in P /\ Cardinality(s) \in Nat
            /\ Cardinality(t) = Cardinality(s) - 1
        BY <2>3, <3>3
      <4>2. Cardinality(t) <= k  BY <2>1, <3>1, <4>1
      <4>3. h[t] = g[t]  BY <4>1, <4>2
      <4>4. h[s] = g[t] + f[x]
        <5>1. CASE Cardinality(s) <= k
          <6>1. g[s] = g[t] + f[x]  BY <2>2, <3>3, <5>1
          <6> QED BY <5>1, <6>1
        <5>2. CASE ~(Cardinality(s) <= k)  BY <5>2
        <5> QED BY <5>1, <5>2
      <4> QED BY <3>3, <4>3, <4>4
    <3> QED BY <3>2, <3>3
  <2> HIDE DEF P, Up, h
  <2> QED BY <2>1, <2>4, <2>5
<1>4. n \in S
  <2>1. S \in SUBSET Nat  OBVIOUS
  <2> HIDE DEF S
  <2>2. S = Nat  BY <1>2, <1>3, <2>1, Induction
  <2> QED BY <2>2
<1>5. PICK g \in [P -> Int] : Up(g, n)  BY <1>4
<1>6. SumsOf(g, f, n)  BY <1>1, <1>5 DEF SumsOf
<1> QED BY <1>6

\* Equal values but the last.
FlatTo(f, n, c, x) == f \in [1..n -> Int] /\ \A i \in 1..n : f[i] = IF i = n THEN x ELSE c

\* What any such function makes of all places.
LEMMA FlatSum ==
    ASSUME NEW n \in Nat \ {0}, NEW c \in Int, NEW x \in Int, NEW f, FlatTo(f, n, c, x),
           NEW g, SumsOf(g, f, n)
    PROVE  g[1..n] = (n - 1) * c + x
<1> USE DEF FlatTo
<1> DEFINE P == SUBSET (1..n)
           Value(s) == Cardinality(s) * c + (IF n \in s THEN x - c ELSE 0)
           S == {k \in Nat : \A s \in P : Cardinality(s) = k => g[s] = Value(s)}
<1>1. \A s \in P : Cardinality(s) \in Nat /\ (Cardinality(s) = 0 <=> s = {})
  BY Places
<1>2. \A s \in P : g[s] = IF s = {} THEN 0
                          ELSE g[s \ {CHOOSE y \in s : TRUE}] + f[CHOOSE y \in s : TRUE]
  BY DEF SumsOf
<1>3. 0 \in S
  <2>1. ASSUME NEW s \in P, Cardinality(s) = 0  PROVE g[s] = Value(s)
    <3>1. s = {} /\ n \notin s  BY <1>1, <2>1
    <3>2. g[s] = 0  BY <1>2, <3>1
    <3>3. Value(s) = 0  BY <2>1, <3>1
    <3> QED BY <3>2, <3>3
  <2> QED BY <2>1
<1>4. ASSUME NEW k \in S  PROVE k + 1 \in S
  <2>1. ASSUME NEW s \in P, Cardinality(s) = k + 1  PROVE g[s] = Value(s)
    <3> DEFINE y == CHOOSE y \in s : TRUE
               t == s \ {y}
    <3>1. s # {}
      <4>1. Cardinality(s) # 0
        <5>1. k \in Nat /\ k + 1 # 0  OBVIOUS
        <5> QED BY <2>1, <5>1
      <4> QED BY <1>1, <4>1
    <3>2. y \in s /\ t \in P /\ Cardinality(t) = k
      <4>1. y \in s /\ t \in P  BY <3>1
      <4>2. Cardinality(t) = Cardinality(s) - 1  BY <3>1, ChosenOut
      <4>3. k \in Nat  OBVIOUS
      <4> QED BY <2>1, <4>1, <4>2, <4>3
    <3>3. g[t] = Value(t)  BY <3>2
    <3>4. g[s] = g[t] + f[y] /\ y \in 1..n  BY <1>2, <3>1, <3>2
    <3>5. k \in Nat /\ (k + 1) * c = k * c + c /\ k * c \in Int  OBVIOUS
    <3>6. CASE y = n
      <4>1. n \in s /\ n \notin t /\ f[y] = x  BY <3>2, <3>4, <3>6
      <4>2. g[t] = k * c /\ Value(s) = (k + 1) * c + (x - c)  BY <2>1, <3>2, <3>3, <4>1
      <4> QED BY <3>4, <3>5, <4>1, <4>2
    <3>7. CASE y # n
      <4>1. (n \in s <=> n \in t) /\ f[y] = c  BY <3>2, <3>4, <3>7
      <4>2. CASE n \in s
        <5>1. g[t] = k * c + (x - c) /\ Value(s) = (k + 1) * c + (x - c)
          BY <2>1, <3>2, <3>3, <4>1, <4>2
        <5> QED BY <3>4, <3>5, <4>1, <5>1
      <4>3. CASE n \notin s
        <5>1. g[t] = k * c /\ Value(s) = (k + 1) * c
          BY <2>1, <3>2, <3>3, <3>5, <4>1, <4>3
        <5> QED BY <3>4, <3>5, <4>1, <5>1
      <4> QED BY <4>2, <4>3
    <3> QED BY <3>6, <3>7
  <2>2. k + 1 \in Nat  OBVIOUS
  <2> QED BY <2>1, <2>2
<1>5. n \in S
  <2>1. S \in SUBSET Nat  OBVIOUS
  <2> HIDE DEF S
  <2>2. S = Nat  BY <1>3, <1>4, <2>1, Induction
  <2> QED BY <2>2
<1>6. Cardinality(1..n) = n /\ n \in 1..n
  <2>1. 1 \in Int /\ n \in Int  OBVIOUS
  <2> QED BY <2>1, FS_Interval
<1>7. g[1..n] = n * c + (x - c)  BY <1>5, <1>6
<1>8. n * c = (n - 1) * c + c /\ n * c \in Int /\ (n - 1) * c \in Int  OBVIOUS
<1> QED BY <1>7, <1>8

\* The two folds of a history of equal samples and a last one.
LEMMA FlatTotal ==
    ASSUME NEW n \in Nat \ {0}, NEW c \in Nat, NEW x \in Nat, NEW h, FlatTo(h, n, c, x)
    PROVE  Total(h) = (n - 1) * c + x
<1> DEFINE Sums(g) == g = [s \in SUBSET (DOMAIN h) |->
                    IF s = {} THEN 0
                    ELSE g[s \ {CHOOSE y \in s : TRUE}] + h[CHOOSE y \in s : TRUE]]
<1>1. Total(h) = (CHOOSE g : Sums(g))[DOMAIN h]
  BY Zenon DEF Total, FoldSeq, FoldFunction, FoldFunctionOnSet, MapThenFoldSet
<1>2. DOMAIN h = 1..n /\ h \in [1..n -> Int] /\ n \in Nat  BY DEF FlatTo
<1>3. \A g : Sums(g) <=> SumsOf(g, h, n)  BY <1>2, Zenon DEF SumsOf
<1> HIDE DEF Sums
<1>4. \E g : SumsOf(g, h, n)  BY <1>2, SumsExist
<1>5. \E g : Sums(g)  BY <1>3, <1>4
<1>6. PICK g : g = CHOOSE f : Sums(f)  OBVIOUS
<1>7. SumsOf(g, h, n)  BY <1>3, <1>5, <1>6, Zenon
<1>8. g[1..n] = (n - 1) * c + x
  <2>1. c \in Int /\ x \in Int  OBVIOUS
  <2> QED BY <1>7, <2>1, FlatSum
<1> QED BY <1>1, <1>2, <1>6, <1>8, Zenon

LEMMA FlatSquares ==
    ASSUME NEW n \in Nat \ {0}, NEW c \in Nat, NEW x \in Nat, NEW h, FlatTo(h, n, c, x)
    PROVE  Squares(h) = (n - 1) * (c * c) + x * x
<1> DEFINE Sums(g) == g = [s \in SUBSET (DOMAIN h) |->
                    IF s = {} THEN 0
                    ELSE g[s \ {CHOOSE y \in s : TRUE}]
                           + h[CHOOSE y \in s : TRUE] * h[CHOOSE y \in s : TRUE]]
           sq == [i \in 1..n |-> h[i] * h[i]]
<1>1. Squares(h) = (CHOOSE g : Sums(g))[DOMAIN h]
  BY Zenon DEF Squares, FoldSeq, FoldFunction, FoldFunctionOnSet, MapThenFoldSet
<1>2. DOMAIN h = 1..n /\ n \in Nat  BY DEF FlatTo
<1>3. /\ FlatTo(sq, n, c * c, x * x) /\ sq \in [1..n -> Int]
      /\ x * x \in Int /\ c * c \in Int
  <2>1. x * x \in Int /\ c * c \in Int  OBVIOUS
  <2>2. ASSUME NEW i \in 1..n
        PROVE  sq[i] = IF i = n THEN x * x ELSE c * c
    BY <2>1 DEF FlatTo
  <2>3. ASSUME NEW i \in 1..n  PROVE h[i] * h[i] \in Int  BY <2>1 DEF FlatTo
  <2> HIDE DEF sq
  <2>4. sq \in [1..n -> Int]  BY <2>3 DEF sq
  <2> QED BY <2>1, <2>2, <2>4 DEF FlatTo
<1>4. ASSUME NEW g  PROVE Sums(g) <=> SumsOf(g, sq, n)
  <2>1. ASSUME NEW s \in SUBSET (1..n)
        PROVE  (IF s = {} THEN 0
                ELSE g[s \ {CHOOSE y \in s : TRUE}] + sq[CHOOSE y \in s : TRUE])
               = IF s = {} THEN 0
                 ELSE g[s \ {CHOOSE y \in s : TRUE}]
                        + h[CHOOSE y \in s : TRUE] * h[CHOOSE y \in s : TRUE]
    <3>1. CASE s = {}  BY <3>1
    <3>2. CASE s # {}
      <4>1. (CHOOSE y \in s : TRUE) \in 1..n  BY <3>2
      <4>2. sq[CHOOSE y \in s : TRUE] = h[CHOOSE y \in s : TRUE] * h[CHOOSE y \in s : TRUE]
        BY <4>1
      <4> QED BY <4>2
    <3> QED BY <3>1, <3>2
  <2> HIDE DEF sq
  <2>2. [s \in SUBSET (1..n) |->
           IF s = {} THEN 0
           ELSE g[s \ {CHOOSE y \in s : TRUE}] + sq[CHOOSE y \in s : TRUE]]
        = [s \in SUBSET (1..n) |->
             IF s = {} THEN 0
             ELSE g[s \ {CHOOSE y \in s : TRUE}]
                    + h[CHOOSE y \in s : TRUE] * h[CHOOSE y \in s : TRUE]]
    BY <2>1, Zenon
  <2> QED BY <1>2, <2>2, Zenon DEF SumsOf
<1> HIDE DEF Sums, sq
<1>5. \E g : SumsOf(g, sq, n)  BY <1>2, <1>3, SumsExist
<1>6. \E g : Sums(g)  BY <1>4, <1>5
<1>7. PICK g : g = CHOOSE f : Sums(f)  OBVIOUS
<1>8. SumsOf(g, sq, n)  BY <1>4, <1>6, <1>7, Zenon
<1>9. g[1..n] = (n - 1) * (c * c) + x * x  BY <1>3, <1>8, FlatSum
<1> QED BY <1>1, <1>2, <1>7, <1>9, Zenon

\* A spread more to a record's history: the ones it stands for, and the new one.
LEMMA UpdatedFlat ==
    ASSUME NEW r \in SpreadRecord, r.sample_count # 0, NEW x \in Nat, NEW n,
           n = IF r.sample_count < LookbackBars THEN r.sample_count + 1 ELSE LookbackBars
    PROVE  /\ n \in Nat \ {0}
           /\ FlatTo(Updated(FromRecord(r), x), n, r.current_spread, x)
           /\ Updated(FromRecord(r), x) \in [1..n -> Nat]
<1> DEFINE count == r.sample_count
           c == r.current_spread
           h == Append(FromRecord(r), x)
           surplus == IF Len(h) > LookbackBars THEN Len(h) - LookbackBars ELSE 0
<1>1. /\ count \in Nat \ {0} /\ c \in Nat /\ LookbackBars \in Nat \ {0}
      /\ count <= LookbackBars /\ n \in Nat \ {0}
  BY SpreadAssumption DEF SpreadRecord
<1>2. FromRecord(r) \in [1..count -> Nat] /\ \A i \in 1..count : FromRecord(r)[i] = c
  BY <1>1 DEF FromRecord
<1>3. FromRecord(r) \in Seq(Nat) /\ Len(FromRecord(r)) = count  BY <1>1, <1>2
<1>4. /\ h \in Seq(Nat) /\ Len(h) = count + 1 /\ h[count + 1] = x
      /\ \A i \in 1..count : h[i] = c
  BY <1>1, <1>2, <1>3
<1>5. surplus = count + 1 - n /\ surplus \in 0..1  BY <1>1, <1>4
<1>6. Updated(FromRecord(r), x) = SubSeq(h, surplus + 1, Len(h))  BY DEF Updated
<1> HIDE DEF h, surplus, count, c
<1> DEFINE u == SubSeq(h, surplus + 1, Len(h))
<1>7. /\ u \in Seq(Nat) /\ Len(u) = n
      /\ \A i \in 1..n : u[i] = h[surplus + i]
  <2>1. h \in Seq(Nat) /\ surplus + 1 \in 1..2 /\ Len(h) = count + 1 /\ Len(h) \in Nat
    <3>1. h \in Seq(Nat) /\ Len(h) = count + 1  BY <1>4
    <3>2. surplus + 1 \in 1..2  BY <1>5
    <3>3. Len(h) \in Nat  BY <1>1, <3>1
    <3> QED BY <3>1, <3>2, <3>3
  <2>2. Len(h) - surplus = n /\ surplus + 1 <= Len(h)  BY <1>1, <1>4, <1>5
  <2>3. u \in Seq(Nat) /\ Len(u) = Len(h) - (surplus + 1) + 1
    BY <2>1, <2>2
  <2>4. Len(h) - (surplus + 1) + 1 = n  BY <1>1, <1>5, <2>1, <2>2
  <2>5. ASSUME NEW i \in 1..n  PROVE u[i] = h[surplus + i]
    <3>1. i \in 1..(Len(h) - (surplus + 1) + 1)  BY <2>4
    <3>2. u[i] = h[(surplus + 1) + i - 1]  BY <2>1, <2>2, <3>1
    <3>3. (surplus + 1) + i - 1 = surplus + i  BY <1>1, <1>5, <2>1
    <3> QED BY <3>2, <3>3
  <2> QED BY <2>3, <2>4, <2>5
<1> HIDE DEF u
<1>8. u \in [1..n -> Nat]
  <2>1. u \in [1..Len(u) -> Nat]  BY <1>7
  <2> QED BY <1>7, <2>1
<1>9. ASSUME NEW i \in 1..n  PROVE u[i] = IF i = n THEN x ELSE c
  <2>1. u[i] = h[surplus + i] /\ i \in Nat  BY <1>7
  <2>2. CASE i = n
    <3>1. surplus + i = count + 1  BY <1>1, <1>5, <2>2
    <3> QED BY <1>4, <2>1, <2>2, <3>1
  <2>3. CASE i # n
    <3>1. surplus + i \in 1..count  BY <1>1, <1>5, <2>3
    <3> QED BY <1>4, <2>1, <2>3, <3>1
  <2> QED BY <2>2, <2>3
<1>10. FlatTo(u, n, c, x)  BY <1>8, <1>9 DEF FlatTo
<1> QED BY <1>1, <1>6, <1>8, <1>10, Zenon DEF c, u

\* The deviation and the variance of equal samples and another one.
LEMMA FlatMoments ==
    ASSUME NEW n \in Nat \ {0}, NEW c \in Nat, NEW x \in Nat,
           NEW h \in [1..n -> Nat], FlatTo(h, n, c, x)
    PROVE  /\ Len(h) = n /\ Last(h) = x
           /\ Deviation(h) = (n - 1) * (x - c)
           /\ Variance(h) = (n - 1) * ((x - c) * (x - c))
<1> DEFINE m == n - 1
           d == x - c
<1>1. m \in Nat /\ d \in Int /\ n = m + 1 /\ x = c + d  OBVIOUS
<1>2. h \in Seq(Nat) /\ Len(h) = n /\ h[n] = x  BY DEF FlatTo
<1>3. Last(h) = x  BY <1>2 DEF Last
<1>4. Total(h) = m * c + x  BY FlatTotal
<1>5. Squares(h) = m * (c * c) + x * x  BY FlatSquares
<1> HIDE DEF m, d
<1>6. Deviation(h) = m * d
  <2>1. Deviation(h) = n * x - (m * c + x)  BY <1>2, <1>3, <1>4 DEF Deviation
  <2>2. (m + 1) * (c + d) - (m * c + (c + d)) = m * d  BY <1>1
  <2> QED BY <1>1, <2>1, <2>2
<1>7. Variance(h) = m * (d * d)
  <2>1. Variance(h) = n * (m * (c * c) + x * x) - (m * c + x) * (m * c + x)
    BY <1>2, <1>4, <1>5 DEF Variance
  <2>2. (m + 1) * (m * (c * c) + (c + d) * (c + d))
          - (m * c + (c + d)) * (m * c + (c + d)) = m * (d * d)
    BY <1>1
  <2> QED BY <1>1, <2>1, <2>2
<1> QED BY <1>2, <1>3, <1>6, <1>7 DEF m, d

\* A factor larger than another makes a larger product.
LEMMA TimesOrder ==
    ASSUME NEW v \in Nat \ {0}, NEW a \in Nat, NEW b \in Nat
    PROVE  a * v <= b * v <=> a <= b
<1>1. a > b => a * v > b * v  OBVIOUS
<1>2. a <= b => a * v <= b * v  OBVIOUS
<1>3. a * v \in Nat /\ b * v \in Nat  OBVIOUS
<1> QED BY <1>1, <1>2, <1>3

\* A lower sample than the equal ones before it is accepted.
LEMMA FallAccepted ==
    ASSUME NEW n \in Nat \ {0, 1}, NEW c \in Nat, NEW x \in Nat, x < c,
           NEW h \in [1..n -> Nat], FlatTo(h, n, c, x)
    PROVE  Acceptable(h)
<1>1. Len(h) = n /\ Deviation(h) = (n - 1) * (x - c)  BY FlatMoments
<1>2. (n - 1) * (x - c) <= 0
  <2> DEFINE m == n - 1
             e == c - x
  <2>1. m \in Nat /\ e \in Nat /\ x - c = -e  OBVIOUS
  <2> HIDE DEF m, e
  <2>2. m * e >= 0 /\ m * (-e) = -(m * e)  BY <2>1
  <2>3. m * (-e) <= 0  BY <2>1, <2>2
  <2> QED BY <2>1, <2>3 DEF m
<1> QED BY <1>1, <1>2 DEF Acceptable

\* A higher one is accepted unless it is one of so many that it deviates too much.
LEMMA RiseVerdict ==
    ASSUME NEW n \in Nat \ {0, 1}, NEW c \in Nat, NEW x \in Nat, x > c,
           NEW h \in [1..n -> Nat], FlatTo(h, n, c, x)
    PROVE  Acceptable(h) <=> 10000 * (n - 1) <= SpreadThreshold * SpreadThreshold
<1> DEFINE m == n - 1
           d == x - c
           v == m * (d * d)
           TT == SpreadThreshold * SpreadThreshold
           K == 10000
<1>1. TT \in Nat /\ m \in Nat \ {0} /\ d \in Nat \ {0} /\ K \in Nat  BY SpreadAssumption
<1>2. Len(h) = n /\ Deviation(h) = m * d /\ Variance(h) = v  BY FlatMoments
<1> HIDE DEF m, d, TT, K
<1>3. m * d \in Nat \ {0} /\ d * d \in Nat \ {0}  BY <1>1
<1>4. v \in Nat \ {0}  BY <1>1, <1>3
<1>5. K * m \in Nat  BY <1>1
<1>6. K * Deviation(h) * Deviation(h) = (K * m) * v
  <2>1. K * (m * d) * (m * d) = (K * m) * (m * (d * d))  BY <1>1
  <2>2. \A e, f : e = f => K * e * e = K * f * f  OBVIOUS
  <2>3. K * Deviation(h) * Deviation(h) = K * (m * d) * (m * d)  BY <1>2, <2>2
  <2> QED BY <2>1, <2>3
<1>7. TT * Variance(h) = TT * v  BY <1>2
<1>8. Acceptable(h) <=> K * Deviation(h) * Deviation(h) <= TT * Variance(h)
  <2>1. ~(Len(h) < 2) /\ Len(h) >= 2 /\ ~(Deviation(h) <= 0)  BY <1>2, <1>3
  <2>2. Acceptable(h) <=>
          \/ Len(h) < 2 /\ SpreadThreshold >= 100
          \/ Len(h) >= 2 /\ Deviation(h) <= 0
          \/ /\ Len(h) >= 2
             /\ K * Deviation(h) * Deviation(h) <= TT * Variance(h)
    BY DEF Acceptable, K, TT
  <2> QED BY <2>1, <2>2, Zenon
<1> HIDE DEF v
<1>9. (K * m) * v <= TT * v <=> K * m <= TT  BY <1>1, <1>4, <1>5, TimesOrder
<1>10. Acceptable(h) <=> K * m <= TT  BY <1>6, <1>7, <1>8, <1>9
<1> QED BY <1>10 DEF K, m, TT

-----------------------------------------------------------------------------
(***************************************************************************)
(* A pass begins with a model for each instance that is made of its record *)
(* again, and no other instance's cycle touches it: the history that a     *)
(* sample is judged by is the record's, as many times as it counts.        *)
(***************************************************************************)
\* Those that the pass has still to judge.
Pending == IF pc = "cycle" THEN queue
           ELSE IF pc \in {"decide", "logError", "observe"} THEN queue \ {Current} ELSE {}

ModelFresh == \A i \in Pending : record[i] # NoRecord => model[i] = FromRecord(record[i])

LEMMA FreshKept == RuntimeInv /\ ModelFresh /\ [Next]_vars => ModelFresh'
<1> SUFFICES ASSUME RuntimeInv, ModelFresh, [Next]_vars  PROVE ModelFresh'  OBVIOUS
<1> USE DEF RuntimeInv
<1>1. CASE BeginPass
  <2>1. Pending' = Discovered
    BY <1>1 DEF BeginPass, Pending
  <2>2. \A i \in Discovered : record'[i] # NoRecord => model'[i] = FromRecord(record'[i])
    BY <1>1, DiscoveredFacts DEF BeginPass, Register
  <2> QED BY <2>1, <2>2 DEF ModelFresh
<1>2. CASE CycleJudgesSpread
  <2>1. Pending' = queue \ {Current} /\ Pending = queue /\ queue \subseteq Instance
    BY <1>2 DEF CycleJudgesSpread, Pending, Current, Loops
  <2>2. \A i \in Instance \ {Current} : record'[i] = record[i] /\ model'[i] = model[i]
    BY <1>2 DEF CycleJudgesSpread, Histories
  <2> QED BY <2>1, <2>2 DEF ModelFresh
<1>3. CASE CycleSkipped \/ CycleSaves \/ DecisionFails \/ CycleRaises \/ ErrorLogged
  <2>1. Pending' \subseteq Pending
    BY <1>3 DEF CycleSkipped, CycleSaves, DecisionFails, CycleRaises, ErrorLogged, Pending, Current
  <2>2. UNCHANGED <<record, model>>
    BY <1>3 DEF CycleSkipped, CycleSaves, DecisionFails, CycleRaises, ErrorLogged, memory
  <2> QED BY <2>1, <2>2 DEF ModelFresh
<1>4. CASE Observed
  <2>1. Pending' \subseteq Pending /\ UNCHANGED <<record, model>>
    BY <1>4 DEF Observed, Pending, memory
  <2> QED BY <2>1 DEF ModelFresh
<1>5. CASE EaExports \/ Obstruction \/ RequestShutdown \/ UNCHANGED vars
  <2>1. Pending' = Pending /\ UNCHANGED <<record, model>>
    BY <1>5 DEF EaExports, Obstruction, RequestShutdown, vars, memory, Pending, Current
  <2> QED BY <2>1 DEF ModelFresh
<1>6. CASE Kill \/ Startup \/ RecoverInstance \/ RecoveryFails \/ PassCrashes \/ BeginShutdown
           \/ Persist \/ PersistFails \/ StartupFails \/ RegistrationFails
  <2>1. pc' \in {"down", "recovering", "idle", "stopping"}
    BY <1>6 DEF Kill, Startup, StartupFails, RegistrationFails, RecoverInstance, RecoveryFails,
                PassCrashes, BeginShutdown, Persist, PersistFails
  <2>2. Pending' = {}  BY <2>1 DEF Pending
  <2> QED BY <2>2 DEF ModelFresh
<1> QED BY <1>1, <1>2, <1>3, <1>4, <1>5, <1>6 DEF Next, Process, Pass

\* The history that judges a sample is made of the record, in every reachable state.
THEOREM RuntimeFresh == Spec => [](RuntimeInv /\ ModelFresh)
<1>1. Init => ModelFresh  BY DEF Init, ModelFresh, Pending
<1> QED BY <1>1, FreshKept, RuntimeInvariant, PTL DEF Spec

\* So many equal samples that a higher one deviates by more than the threshold.
Judges(count) ==
    LET n == IF count < LookbackBars THEN count + 1 ELSE LookbackBars
    IN  10000 * (n - 1) > SpreadThreshold * SpreadThreshold

\* All that the code leaves of a history is the last spread: one that differs from it is
\* accepted exactly when it is lower, or when the samples are too few for the threshold,
\* whatever the spreads before were and whatever passes, failed cycles and restarts lie between.
LastSpreadDecides ==
    [][\A i \in registered :
          /\ pc = "cycle" /\ LookbackBars >= 2 /\ record[i].sample_count > 0
          /\ record'[i].current_spread # record[i].current_spread
          => (record'[i].acceptable <=>
                \/ record'[i].current_spread < record[i].current_spread
                \/ ~Judges(record[i].sample_count))]_vars

\* A disagreement, proved: SYSTEM_SPECIFICATION.md:2755 has a spread judged by the dispersion
\* of the spreads before it, and orchestrator.py:77 makes every pass forget it.  What is left
\* is LastSpreadDecides, for every lookback and every threshold.
THEOREM LastSpreadIsAllThatCounts == Spec => LastSpreadDecides
<1> DEFINE Decided == \A i \in registered :
              /\ pc = "cycle" /\ LookbackBars >= 2 /\ record[i].sample_count > 0
              /\ record'[i].current_spread # record[i].current_spread
              => (record'[i].acceptable <=>
                    \/ record'[i].current_spread < record[i].current_spread
                    \/ ~Judges(record[i].sample_count))
<1>1. RuntimeInv /\ ModelFresh /\ [Next]_vars => [Decided]_vars
  <2> SUFFICES ASSUME RuntimeInv, ModelFresh, [Next]_vars  PROVE Decided  OBVIOUS
  <2> SUFFICES ASSUME NEW i \in registered, pc = "cycle", LookbackBars >= 2,
                      record[i].sample_count > 0,
                      record'[i].current_spread # record[i].current_spread
               PROVE  record'[i].acceptable <=>
                        \/ record'[i].current_spread < record[i].current_spread
                        \/ ~Judges(record[i].sample_count)
    OBVIOUS
  <2> USE DEF RuntimeInv
  <2>1. i \in Instance /\ record[i] \in SpreadRecord  BY DEF Loops, Histories
  <2>2. record[i].current_spread \in Nat /\ record[i].sample_count \in 1..LookbackBars
    BY <2>1, SpreadAssumption DEF SpreadRecord
  <2>3. record' # record  OBVIOUS
  <2>4. CycleJudgesSpread
    BY <2>3 DEF Next, Process, Pass, EaExports, Obstruction, RequestShutdown, Kill, Startup,
                StartupFails, RecoverInstance, RecoveryFails, BeginPass, RegistrationFails, CycleSkipped, CycleSaves, DecisionFails, CycleRaises,
                ErrorLogged, Observed, PassCrashes, IoError, BeginShutdown, Persist, PersistFails,
                vars, memory
  <2>5. Current \in queue /\ Current \in Instance  BY CurrentFacts DEF Loops
  <2>6. i = Current
    <3>1. i # Current => record'[i] = record[i]
      BY <2>1, <2>4 DEF CycleJudgesSpread, Histories
    <3> QED BY <3>1
  <2> DEFINE r == record[i]
             n == IF r.sample_count < LookbackBars THEN r.sample_count + 1 ELSE LookbackBars
             x == Last(sensor[i])
             h == Updated(FromRecord(r), x)
  <2>7. /\ n \in Nat \ {0, 1} /\ r.sample_count # 0
        /\ Judges(r.sample_count) <=> 10000 * (n - 1) > SpreadThreshold * SpreadThreshold
    <3>1. Judges(r.sample_count) <=> 10000 * (n - 1) > SpreadThreshold * SpreadThreshold
      BY DEF Judges
    <3>2. n \in Nat \ {0, 1} /\ r.sample_count # 0  BY <2>2, SpreadAssumption
    <3> QED BY <3>1, <3>2
  <2>8. model[i] = FromRecord(r)
    <3>1. r # NoRecord  BY <2>7 DEF NoRecord
    <3>2. i \in Pending  BY <2>5, <2>6 DEF Pending
    <3> QED BY <3>1, <3>2 DEF ModelFresh
  <2>9. x \in Nat
    <3>1. sensor[i] \in History /\ sensor[i] # << >>
      BY <2>1, <2>4, <2>6 DEF CycleJudgesSpread, Histories
    <3> QED BY <3>1 DEF Last, History
  <2>10. record'[i] = RecordOf(h)
    <3>1. model'[i] = Updated(model[i], x)
      BY <2>1, <2>4, <2>6 DEF CycleJudgesSpread, Histories
    <3>2. record'[i] = RecordOf(model'[i])
      BY <2>1, <2>4, <2>6 DEF CycleJudgesSpread, Histories
    <3> QED BY <2>8, <3>1, <3>2
  <2>11. n \in Nat \ {0} /\ FlatTo(h, n, r.current_spread, x) /\ h \in [1..n -> Nat]
    <3>1. r \in SpreadRecord /\ r.sample_count # 0  BY <2>1, <2>7
    <3> HIDE DEF r, x
    <3> QED BY <2>9, <3>1, UpdatedFlat
  <2>12. Last(h) = x
    <3>1. Len(h) = n /\ h[n] = x  BY <2>11 DEF FlatTo
    <3> QED BY <3>1 DEF Last
  <2>13. record'[i].current_spread = x /\ record'[i].acceptable = Acceptable(h)
    BY <2>10, <2>12 DEF RecordOf
  <2> DEFINE s == r.current_spread
  <2>14. s \in Nat /\ x # s  BY <2>2, <2>13
  <2> HIDE DEF r, x, n, h, s
  <2>15. CASE x < s
    <3>1. Acceptable(h)  BY <2>7, <2>9, <2>11, <2>14, <2>15, FallAccepted DEF s
    <3> QED BY <2>13, <2>15, <3>1 DEF r, s
  <2>16. CASE x > s
    <3>1. Acceptable(h) <=> 10000 * (n - 1) <= SpreadThreshold * SpreadThreshold
      BY <2>7, <2>9, <2>11, <2>14, <2>16, RiseVerdict DEF s
    <3>2. n \in Int /\ SpreadThreshold \in Int /\ SpreadThreshold * SpreadThreshold \in Int
      BY <2>7, SpreadAssumption
    <3>3. Acceptable(h) <=> ~Judges(r.sample_count)  BY <2>7, <3>1, <3>2
    <3>4. ~(x < s)  BY <2>9, <2>14, <2>16
    <3> QED BY <2>13, <3>3, <3>4 DEF r, s
  <2> QED BY <2>9, <2>14, <2>15, <2>16
<1> QED BY <1>1, RuntimeFresh, PTL DEF Spec, LastSpreadDecides
=============================================================================
