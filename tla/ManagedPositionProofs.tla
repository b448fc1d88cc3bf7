------------------------ MODULE ManagedPositionProofs ------------------------
(***************************************************************************)
(* ManagedPosition for every position, configuration and bound: the types, *)
(* and the life of the position, with the risk taken at the open.          *)
(***************************************************************************)
EXTENDS ManagedPosition, TLAPS

\* What is kept of every stop that somebody believes in or asks for.
BeliefKeepsRisk(b) == b.open => AtLeastInitial(b.stop)
OrderKeepsRisk(o)  == o.action = "MODIFY" => AtLeastInitial(o.stop)

RiskInv ==
    /\ InitialRiskKept
    /\ status.volume > 0 => AtLeastInitial(status.stop)
    /\ BeliefKeepsRisk(saved) /\ BeliefKeepsRisk(belief)
    /\ OrderKeepsRisk(awaiting) /\ OrderKeepsRisk(offered) /\ OrderKeepsRisk(late)

ManagementInv == TypeOK /\ RiskInv

-----------------------------------------------------------------------------
\* The part to close is a number of volume units.
LEMMA PartialVolumeInt ==
    ASSUME NEW p, p.volume \in Nat
    PROVE  PartialVolume(p, Config) \in Int
<1>1. p.volume * PartialShare \in Int
    BY PositionAssumption
<1>2. 100 * VolumeStep \in Int /\ 100 * VolumeStep > 0
    BY PositionAssumption
<1>3. (p.volume * PartialShare) \div (100 * VolumeStep) \in Int
    BY <1>1, <1>2
<1>4. VolumeStep \in Int
    BY PositionAssumption
<1>5. ((p.volume * PartialShare) \div (100 * VolumeStep)) * VolumeStep \in Int
    BY <1>3, <1>4
<1>. QED
    BY <1>5 DEF PartialVolume, Config

\* A stop that management asks for is further into profit than the believed one.
LEMMA EvaluateOrder ==
    ASSUME NEW b \in Belief,
           NEW price \in Price, NEW swing \in 0..MaxPrice, NEW allowClose \in BOOLEAN
    PROVE  LET order == Evaluate(OpenPosition(b), price, swing, allowClose, Config)
           IN  /\ order \in Order
               /\ order.action = "MODIFY" => Beyond(PositionSide, order.stop, b.stop)
<1>. DEFINE p == OpenPosition(b)
            order == Evaluate(p, price, swing, allowClose, Config)
<1>1. /\ p.side = PositionSide /\ p.stop = b.stop /\ p.volume = b.volume
      /\ p.bars = b.bars /\ p.entry = Entry
    BY DEF OpenPosition
<1>2. b.volume \in Volume /\ b.volume \in Nat /\ b.stop \in Int /\ b.bars \in Int
    BY PositionAssumption, BoundAssumption DEF Belief, Volume
<1>3. NoAction \in Order /\ NoAction.action = "NONE"
    BY PositionAssumption DEF NoAction, Order, Volume
<1>4. CASE TimeStopDue(p, Config)
    <2>1. /\ CloseVolume(p.volume) \in Order
          /\ CloseVolume(p.volume).action = "CLOSE"
        BY <1>1, <1>2 DEF CloseVolume, Order
    <2>2. order = CloseVolume(p.volume) \/ order = NoAction
        BY <1>4 DEF Evaluate, Gate
    <2>. QED
        BY <1>3, <2>1, <2>2
<1>5. CASE ~TimeStopDue(p, Config) /\ PartialCloseDue(p, price, Config)
    <2>. DEFINE part == PartialVolume(p, Config)
    <2>1. part \in Int /\ 0 < part /\ part < b.volume
        BY <1>1, <1>2, <1>5, PartialVolumeInt DEF PartialCloseDue
    <2>2. part \in Volume
        BY <1>2, <2>1, PositionAssumption DEF Volume
    <2>. HIDE DEF part
    <2>3. /\ CloseVolume(part) \in Order
          /\ CloseVolume(part).action = "CLOSE" /\ CloseVolume(part).volume = part
        BY <2>2 DEF CloseVolume, Order
    <2>4. order = CloseVolume(part) \/ order = NoAction
        BY <1>5 DEF Evaluate, Gate, part
    <2>. QED
        BY <1>2, <1>3, <2>1, <2>3, <2>4
<1>6. CASE ~TimeStopDue(p, Config) /\ ~PartialCloseDue(p, price, Config)
    <2>. DEFINE level == TrailingLevel(p, swing, Config)
    <2>1. level \in Int
        BY PositionAssumption, BoundAssumption DEF TrailingLevel, Config
    <2>2. \A x \in Int : /\ MoveStop(x) \in Order
                         /\ MoveStop(x).action = "MODIFY" /\ MoveStop(x).stop = x
        BY PositionAssumption DEF MoveStop, Order, Volume
    <2>3. TrailingDue(p, price, swing, Config) => Beyond(PositionSide, level, b.stop)
        BY <1>1 DEF TrailingDue
    <2>4. BreakevenDue(p, price, Config) => Beyond(PositionSide, Entry, b.stop)
        BY <1>1 DEF BreakevenDue
    <2>5. \/ order = MoveStop(level) /\ TrailingDue(p, price, swing, Config)
          \/ order = MoveStop(Entry) /\ BreakevenDue(p, price, Config)
          \/ order = NoAction
        BY <1>1, <1>6 DEF Evaluate
    <2>. HIDE DEF level
    <2>. QED
        BY <1>3, <2>1, <2>2, <2>3, <2>4, <2>5, PositionAssumption
<1>. QED
    BY <1>4, <1>5, <1>6

\* A stop beyond one that keeps the initial risk keeps it as well.
LEMMA BeyondKeepsRisk ==
    ASSUME NEW x \in Int, NEW y \in Int, AtLeastInitial(y), Beyond(PositionSide, x, y)
    PROVE  AtLeastInitial(x)
BY PositionAssumption DEF AtLeastInitial, Beyond, Side

\* Reconciling takes over the stop of the status, keeps the believed one, or
\* gives the position up.
LEMMA ReconciledFacts ==
    ASSUME NEW b \in Belief, NEW st \in Holding,
           BeliefKeepsRisk(b), st.volume > 0 => AtLeastInitial(st.stop)
    PROVE  /\ Reconciled(b, st) \in Belief
           /\ BeliefKeepsRisk(Reconciled(b, st))
<1>1. b.volume \in Int /\ st.volume \in Int /\ st.volume >= 0 /\ st.volume <= FullVolume
    BY PositionAssumption DEF Belief, Holding, Volume
<1>2. 0 \in 0..MaxBarCount /\ 1 \in 0..MaxBarCount /\ 0 \in Volume
    BY PositionAssumption, BoundAssumption DEF Volume
<1>3. NoPosition \in Belief /\ BeliefKeepsRisk(NoPosition)
    BY <1>2 DEF NoPosition, Belief, BeliefKeepsRisk
<1>4. CASE st.volume = 0
    BY <1>3, <1>4 DEF Reconciled
<1>5. CASE st.volume > 0 /\ (~b.open \/ st.volume > b.volume)
    <2>1. Reconciled(b, st) = Adopted(st)
        BY <1>1, <1>5 DEF Reconciled
    <2>2. Adopted(st) \in Belief /\ BeliefKeepsRisk(Adopted(st))
        BY <1>1, <1>2, <1>5 DEF Adopted, Belief, Holding, BeliefKeepsRisk, Volume
    <2>. QED
        BY <2>1, <2>2
<1>6. CASE st.volume > 0 /\ b.open /\ st.volume < b.volume
    <2>1. Reconciled(b, st) = Reduced(b, b.volume - st.volume)
        BY <1>1, <1>6 DEF Reconciled
    <2>2. Reduced(b, b.volume - st.volume)
            = [b EXCEPT !.volume = st.volume, !.partial_close_applied = TRUE]
        <3>1. ~(b.volume <= b.volume - st.volume)
            BY <1>1, <1>6
        <3>2. b.volume - (b.volume - st.volume) = st.volume
            BY <1>1
        <3>. QED
            BY <3>1, <3>2 DEF Reduced
    <2>. QED
        BY <1>1, <2>1, <2>2 DEF Belief, Holding, BeliefKeepsRisk
<1>7. CASE st.volume > 0 /\ b.open /\ st.volume = b.volume
    <2>1. Reconciled(b, st) = [b EXCEPT !.stop = st.stop]
        BY <1>1, <1>7 DEF Reconciled
    <2>. QED
        BY <1>7, <2>1 DEF Belief, Holding, BeliefKeepsRisk
<1>. QED
    BY <1>1, <1>4, <1>5, <1>6, <1>7

\* Counting a bar keeps everything else.
LEMMA BarCountedFacts ==
    ASSUME NEW b \in Belief, BeliefKeepsRisk(b)
    PROVE  BarCounted(b) \in Belief /\ BeliefKeepsRisk(BarCounted(b))
<1>1. b.bars \in 0..MaxBarCount /\ MaxBarCount \in Nat
    BY BoundAssumption DEF Belief
<1>2. Capped(b.bars + 1) \in 0..MaxBarCount
    BY <1>1 DEF Capped
<1>. QED
    BY <1>2 DEF BarCounted, Belief, BeliefKeepsRisk

\* An acked command moves the believed stop to its own, or shrinks the position.
LEMMA ApplyAckFacts ==
    ASSUME NEW b \in Belief, NEW o \in Order, BeliefKeepsRisk(b), OrderKeepsRisk(o)
    PROVE  /\ ApplyAck(b, o) \in Belief
           /\ BeliefKeepsRisk(ApplyAck(b, o))
<1>1. b.volume \in Volume /\ o.volume \in Volume /\ b.bars \in 0..MaxBarCount
    BY DEF Belief, Order
<1>2. NoPosition \in Belief /\ BeliefKeepsRisk(NoPosition)
    BY <1>1, PositionAssumption, BoundAssumption DEF NoPosition, Belief, BeliefKeepsRisk, Volume
<1>3. CASE o.action = "MODIFY"
    BY <1>1, <1>3 DEF ApplyAck, Belief, Order, BeliefKeepsRisk, OrderKeepsRisk
<1>4. CASE o.action # "MODIFY" /\ o.volume < b.volume
    <2>1. b.volume - o.volume \in Volume
        BY <1>1, <1>4, PositionAssumption DEF Volume
    <2>2. Reduced(b, o.volume)
            = [b EXCEPT !.volume = b.volume - o.volume, !.partial_close_applied = TRUE]
        <3>1. ~(b.volume <= o.volume)
            BY <1>1, <1>4, PositionAssumption DEF Volume
        <3>. QED
            BY <3>1 DEF Reduced
    <2>3. ApplyAck(b, o) = Reduced(b, o.volume)
        BY <1>4 DEF ApplyAck
    <2>. HIDE DEF Volume
    <2>4. [b EXCEPT !.volume = b.volume - o.volume, !.partial_close_applied = TRUE] \in Belief
        BY <2>1 DEF Belief
    <2>. QED
        BY <1>1, <2>2, <2>3, <2>4 DEF Belief, BeliefKeepsRisk
<1>5. CASE o.action # "MODIFY" /\ ~(o.volume < b.volume)
    BY <1>2, <1>5 DEF ApplyAck
<1>. QED
    BY <1>3, <1>4, <1>5

\* What the EA carries out keeps the terminal in type and its stop in bounds.
LEMMA CarriesOutFacts ==
    ASSUME TypeOK, InitialRiskKept, NEW o \in Order, OrderKeepsRisk(o),
           NEW verdict, CarriesOut(o, verdict)
    PROVE  /\ terminal' \in Holding /\ AtLeastInitial(terminal'.stop)
           /\ refusals' \in 0..MaxRefusals
<1>1. terminal.volume \in Volume /\ o.volume \in Volume /\ o.stop \in Int
    BY DEF TypeOK, Holding, Order
<1>2. terminal.volume >= o.volume => terminal.volume - o.volume \in Volume
    BY <1>1, PositionAssumption DEF Volume
<1>3. refusals < MaxRefusals => refusals + 1 \in 0..MaxRefusals
    BY BoundAssumption DEF TypeOK
<1>. QED
    BY <1>1, <1>2, <1>3 DEF CarriesOut, TypeOK, Holding, InitialRiskKept, OrderKeepsRisk
-----------------------------------------------------------------------------
LEMMA InitManagement == Init => ManagementInv
<1>. SUFFICES ASSUME Init PROVE ManagementInv
    OBVIOUS
<1>1. /\ FullVolume \in Volume /\ 0 \in Volume
      /\ 0 \in 0..MaxBarCount /\ 1 \in 0..MaxBarCount
      /\ 0 \in 0..MaxTimeouts /\ 0 \in 0..MaxRefusals /\ 0 \in 0..MaxHeld /\ 0 \in 0..MaxExternal
    BY PositionAssumption, BoundAssumption DEF Volume
<1>2. TypeOK
    BY <1>1, PositionAssumption DEF Init, TypeOK, Holding, Belief
<1>3. RiskInv
    BY DEF Init, RiskInv, InitialRiskKept, AtLeastInitial, BeliefKeepsRisk, OrderKeepsRisk, Absent
<1>. QED
    BY <1>2, <1>3 DEF ManagementInv

LEMMA ManagePreserves ==
    ASSUME ManagementInv, Manage
    PROVE  ManagementInv'
<1>. DEFINE b == BarCounted(Reconciled(saved, status))
<1>1. saved \in Belief /\ status \in Holding
    BY DEF ManagementInv, TypeOK
<1>2. /\ Reconciled(saved, status) \in Belief
      /\ BeliefKeepsRisk(Reconciled(saved, status))
    BY <1>1, ReconciledFacts DEF ManagementInv, RiskInv
<1>3. b \in Belief /\ BeliefKeepsRisk(b)
    BY <1>2, BarCountedFacts
<1>. HIDE DEF b
<1>5. PICK price \in Price, swing \in 0..MaxPrice, allowClose \in BOOLEAN :
          LET order == IF b.open
                         THEN Evaluate(OpenPosition(b), price, swing, allowClose, Config)
                         ELSE NoAction
          IN  /\ allowClose \/ held < MaxHeld
              /\ held' = IF allowClose THEN held ELSE held + 1
              /\ offered' = order
              /\ IF order.action = "NONE"
                   THEN Idle(b)
                   ELSE belief' = b /\ awaiting' = order /\ UNCHANGED saved
    BY DEF Manage, b
<1>. DEFINE order == IF b.open THEN Evaluate(OpenPosition(b), price, swing, allowClose, Config)
                               ELSE NoAction
<1>6. order \in Order /\ OrderKeepsRisk(order)
    <2>1. CASE b.open
        <3>1. order \in Order /\ (order.action = "MODIFY" => Beyond(PositionSide, order.stop, b.stop))
            BY <1>3, <2>1, EvaluateOrder
        <3>2. b.stop \in Int /\ AtLeastInitial(b.stop)
            BY <1>3, <2>1 DEF Belief, BeliefKeepsRisk
        <3>. HIDE DEF order
        <3>3. order.stop \in Int
            BY <3>1 DEF Order
        <3>. QED
            BY <3>1, <3>2, <3>3, BeyondKeepsRisk DEF OrderKeepsRisk
    <2>2. CASE ~b.open
        BY <2>2, PositionAssumption DEF NoAction, Order, OrderKeepsRisk, Volume
    <2>. QED
        BY <2>1, <2>2
<1>7. held' \in 0..MaxHeld
    BY <1>5, BoundAssumption DEF ManagementInv, TypeOK
<1>8. /\ offered' = order
      /\ \/ saved' = b /\ belief' = b /\ awaiting' = Absent
         \/ saved' = saved /\ belief' = b /\ awaiting' = order
    BY <1>5 DEF Idle
<1>. HIDE DEF order
<1>9. OrderKeepsRisk(Absent)
    BY DEF OrderKeepsRisk, Absent
<1>10. UNCHANGED <<terminal, status, late, ack, timeouts, refusals, external>>
    BY DEF Manage
<1>11. TypeOK'
    BY <1>3, <1>6, <1>7, <1>8, <1>10 DEF ManagementInv, TypeOK
<1>12. RiskInv'
    BY <1>3, <1>6, <1>8, <1>9, <1>10
    DEF ManagementInv, RiskInv, InitialRiskKept, AtLeastInitial, BeliefKeepsRisk, OrderKeepsRisk
<1>. QED
    BY <1>11, <1>12 DEF ManagementInv

\* A cycle that ends in a belief without an ack.
LEMMA IdlePreserves ==
    ASSUME NEW b \in Belief, BeliefKeepsRisk(b), Idle(b)
    PROVE  /\ saved' \in Belief /\ belief' \in Belief /\ awaiting' \in Order \cup {Absent}
           /\ BeliefKeepsRisk(saved') /\ BeliefKeepsRisk(belief') /\ OrderKeepsRisk(awaiting')
BY DEF Idle, OrderKeepsRisk, Absent

LEMMA CycleTimesOutPreserves ==
    ASSUME ManagementInv, CycleTimesOut
    PROVE  ManagementInv'
<1>. DEFINE r == Reconciled(saved, status)
<1>1. saved \in Belief /\ status \in Holding
    BY DEF ManagementInv, TypeOK
<1>2. r \in Belief /\ BeliefKeepsRisk(r)
    BY <1>1, ReconciledFacts DEF ManagementInv, RiskInv
<1>3. BarCounted(r) \in Belief /\ BeliefKeepsRisk(BarCounted(r))
    BY <1>2, BarCountedFacts
<1>4. Idle(r) \/ Idle(BarCounted(r))
    BY DEF CycleTimesOut
<1>. HIDE DEF r
<1>5. \E b \in Belief : BeliefKeepsRisk(b) /\ Idle(b)
    BY <1>2, <1>3, <1>4
<1>6. /\ saved' \in Belief /\ belief' \in Belief /\ awaiting' \in Order \cup {Absent}
      /\ BeliefKeepsRisk(saved') /\ BeliefKeepsRisk(belief') /\ OrderKeepsRisk(awaiting')
    BY <1>5, IdlePreserves
<1>7. held' \in 0..MaxHeld
    BY BoundAssumption DEF CycleTimesOut, ManagementInv, TypeOK
<1>8. UNCHANGED <<terminal, status, channel, timeouts, refusals, external>>
    BY DEF CycleTimesOut
<1>9. TypeOK'
    BY <1>6, <1>7, <1>8 DEF ManagementInv, TypeOK, channel
<1>10. RiskInv'
    BY <1>6, <1>8 DEF ManagementInv, RiskInv, InitialRiskKept, AtLeastInitial,
                      BeliefKeepsRisk, OrderKeepsRisk, channel
<1>. QED
    BY <1>9, <1>10 DEF ManagementInv

LEMMA PythonWaitPreserves ==
    ASSUME ManagementInv, AckArrives \/ WaitRaises
    PROVE  ManagementInv'
<1>1. /\ saved \in Belief /\ belief \in Belief /\ awaiting \in Order \cup {Absent}
      /\ BeliefKeepsRisk(saved) /\ BeliefKeepsRisk(belief) /\ OrderKeepsRisk(awaiting)
    BY DEF ManagementInv, TypeOK, RiskInv
<1>2. AckArrives => \E b \in Belief : BeliefKeepsRisk(b) /\ Idle(b)
    <2>. SUFFICES ASSUME AckArrives PROVE \E b \in Belief : BeliefKeepsRisk(b) /\ Idle(b)
        OBVIOUS
    <2>1. awaiting \in Order
        BY <1>1 DEF AckArrives
    <2>2. ApplyAck(belief, awaiting) \in Belief /\ BeliefKeepsRisk(ApplyAck(belief, awaiting))
        BY <1>1, <2>1, ApplyAckFacts
    <2>3. Idle(ApplyAck(belief, awaiting)) \/ Idle(belief)
        BY DEF AckArrives
    <2>. QED
        BY <1>1, <2>2, <2>3
<1>3. WaitRaises => \E b \in Belief : BeliefKeepsRisk(b) /\ Idle(b)
    BY <1>1 DEF WaitRaises
<1>4. /\ saved' \in Belief /\ belief' \in Belief /\ awaiting' \in Order \cup {Absent}
      /\ BeliefKeepsRisk(saved') /\ BeliefKeepsRisk(belief') /\ OrderKeepsRisk(awaiting')
    BY <1>2, <1>3, IdlePreserves
<1>5. /\ UNCHANGED <<terminal, status, late, timeouts, refusals, held, external>>
      /\ offered' \in {offered, Absent}
      /\ ack' \in {"none", "old"}
    BY DEF AckArrives, WaitRaises, channel
<1>6. OrderKeepsRisk(Absent)
    BY DEF OrderKeepsRisk, Absent
<1>7. TypeOK'
    BY <1>4, <1>5 DEF ManagementInv, TypeOK
<1>8. RiskInv'
    BY <1>4, <1>5, <1>6 DEF ManagementInv, RiskInv, InitialRiskKept, AtLeastInitial,
                            BeliefKeepsRisk, OrderKeepsRisk
<1>. QED
    BY <1>7, <1>8 DEF ManagementInv

LEMMA AckTimesOutPreserves ==
    ASSUME ManagementInv, AckTimesOut
    PROVE  ManagementInv'
<1>1. belief \in Belief /\ BeliefKeepsRisk(belief) /\ Idle(belief)
    BY DEF AckTimesOut, ManagementInv, TypeOK, RiskInv
<1>2. /\ saved' \in Belief /\ belief' \in Belief /\ awaiting' \in Order \cup {Absent}
      /\ BeliefKeepsRisk(saved') /\ BeliefKeepsRisk(belief') /\ OrderKeepsRisk(awaiting')
    BY <1>1, IdlePreserves
<1>3. /\ terminal' \in Holding /\ AtLeastInitial(terminal'.stop)
      /\ refusals' \in 0..MaxRefusals
      /\ late' \in {late, offered}
    <2>1. CASE UNCHANGED <<terminal, refusals>> /\ late' \in {late, offered}
        BY <2>1 DEF ManagementInv, TypeOK, RiskInv, InitialRiskKept
    <2>2. CASE UNCHANGED late /\ offered # Absent
                                 /\ \E verdict \in {"SUCCESS", "FAILED"} : CarriesOut(offered, verdict)
        <3>1. offered \in Order
            BY <2>2 DEF ManagementInv, TypeOK
        <3>. QED
            BY <2>2, <3>1, CarriesOutFacts DEF ManagementInv, RiskInv
    <2>. QED
        BY <2>1, <2>2 DEF AckTimesOut
<1>4. timeouts' \in 0..MaxTimeouts
    BY BoundAssumption DEF AckTimesOut, ManagementInv, TypeOK
<1>5. offered' = Absent /\ UNCHANGED <<status, ack, held, external>>
    BY DEF AckTimesOut
<1>6. OrderKeepsRisk(Absent)
    BY DEF OrderKeepsRisk, Absent
<1>7. TypeOK'
    BY <1>2, <1>3, <1>4, <1>5 DEF ManagementInv, TypeOK
<1>8. RiskInv'
    BY <1>2, <1>3, <1>5, <1>6 DEF ManagementInv, RiskInv, InitialRiskKept, AtLeastInitial,
                                  BeliefKeepsRisk, OrderKeepsRisk
<1>. QED
    BY <1>7, <1>8 DEF ManagementInv

LEMMA EaPreserves ==
    ASSUME ManagementInv, Ea
    PROVE  ManagementInv'
<1>1. OrderKeepsRisk(Absent)
    BY DEF OrderKeepsRisk, Absent
<1>2. CASE EaTakesAbandoned
    BY <1>1, <1>2 DEF EaTakesAbandoned, ManagementInv, TypeOK, RiskInv, InitialRiskKept,
                      AtLeastInitial, BeliefKeepsRisk, OrderKeepsRisk, books
<1>3. CASE EaExecutes \/ EaFinishesLate
    <2>1. PICK o \in {offered, late} :
             o # Absent /\ \E verdict \in {"SUCCESS", "FAILED"} : CarriesOut(o, verdict)
        BY <1>3 DEF EaExecutes, EaFinishesLate
    <2>2. o \in Order /\ OrderKeepsRisk(o)
        BY <2>1 DEF ManagementInv, TypeOK, RiskInv
    <2>3. /\ terminal' \in Holding /\ AtLeastInitial(terminal'.stop)
          /\ refusals' \in 0..MaxRefusals
        BY <2>1, <2>2, CarriesOutFacts DEF ManagementInv, RiskInv
    <2>4. /\ UNCHANGED <<status, books, timeouts, held, external>>
          /\ offered' \in {offered, Absent} /\ late' \in {late, Absent}
          /\ ack' \in {"old", "SUCCESS", "FAILED"}
        BY <1>3 DEF EaExecutes, EaFinishesLate
    <2>5. TypeOK'
        BY <2>3, <2>4 DEF ManagementInv, TypeOK, books
    <2>6. RiskInv'
        BY <1>1, <2>3, <2>4 DEF ManagementInv, RiskInv, InitialRiskKept, AtLeastInitial,
                                BeliefKeepsRisk, OrderKeepsRisk, books
    <2>. QED
        BY <2>5, <2>6 DEF ManagementInv
<1>. QED
    BY <1>2, <1>3 DEF Ea

LEMMA EnvironmentPreserves ==
    ASSUME ManagementInv, NewBar \/ ExternalClose
    PROVE  ManagementInv'
<1>1. CASE NewBar
    BY <1>1 DEF NewBar, ManagementInv, TypeOK, RiskInv, InitialRiskKept,
                AtLeastInitial, BeliefKeepsRisk, OrderKeepsRisk, books, channel
<1>2. CASE ExternalClose
    <2>1. external' \in 0..MaxExternal
        BY <1>2, BoundAssumption DEF ExternalClose, ManagementInv, TypeOK
    <2>2. terminal' \in Holding /\ terminal'.stop = terminal.stop
        BY <1>2, PositionAssumption DEF ExternalClose, ManagementInv, TypeOK, Holding, Volume
    <2>. QED
        BY <1>2, <2>1, <2>2 DEF ExternalClose, ManagementInv, TypeOK, RiskInv,
                InitialRiskKept, AtLeastInitial, BeliefKeepsRisk, OrderKeepsRisk,
                books, channel
<1>. QED
    BY <1>1, <1>2

LEMMA StepPreserves == ManagementInv /\ [Next]_vars => ManagementInv'
<1>. SUFFICES ASSUME ManagementInv, [Next]_vars PROVE ManagementInv'
    OBVIOUS
<1>1. CASE UNCHANGED vars
    BY <1>1 DEF vars, ManagementInv, TypeOK, RiskInv, InitialRiskKept,
                AtLeastInitial, BeliefKeepsRisk, OrderKeepsRisk
<1>. QED
    BY <1>1, ManagePreserves, CycleTimesOutPreserves, PythonWaitPreserves, AckTimesOutPreserves,
       EaPreserves, EnvironmentPreserves DEF Next, Python

\* The invariant behind the other theorems: types, and the risk kept in every copy
\* of the stop.
THEOREM ManagementInvariant == Spec => []ManagementInv
BY InitManagement, StepPreserves, PTL DEF Spec

\* The books, the terminal and the files keep their types.
THEOREM ManagementTypes == Spec => []TypeOK
<1>1. ManagementInv => TypeOK
    BY DEF ManagementInv
<1>. QED
    BY <1>1, ManagementInvariant, PTL

\* No stale status, lost wait or late MODIFY ever takes the terminal's stop
\* back behind the one the position was opened with.
THEOREM RiskNeverGrows == Spec => []InitialRiskKept
<1>1. ManagementInv => InitialRiskKept
    BY DEF ManagementInv, RiskInv
<1>. QED
    BY <1>1, ManagementInvariant, PTL

-----------------------------------------------------------------------------
(***************************************************************************)
(* The position lives as PositionLife promises                             *)
(***************************************************************************)
\* The fields of the abstract position.
LEMMA HeldFields ==
    /\ Held.volume = terminal.volume /\ Held.stop = terminal.stop
    /\ Held'.volume = terminal'.volume /\ Held'.stop = terminal'.stop
    /\ Held' = [Held EXCEPT !.stop = terminal'.stop, !.volume = terminal'.volume]
<1>1. Held' = [side |-> PositionSide, entry |-> Entry, initial_stop |-> InitialStop,
               target |-> Target, stop |-> terminal'.stop, volume |-> terminal'.volume]
    BY DEF Held
<1>2. /\ Held.volume = terminal.volume /\ Held.stop = terminal.stop
      /\ Held'.volume = terminal'.volume /\ Held'.stop = terminal'.stop
    BY <1>1 DEF Held
\* Records of one shape with the same fields are equal.
<1>. DEFINE Shape(stops, volumes) ==
              [side : {PositionSide}, entry : {Entry}, initial_stop : {InitialStop},
               target : {Target}, stop : stops, volume : volumes]
<1>3. Held \in Shape({terminal.stop}, {terminal.volume})
    BY DEF Held
<1>4. [Held EXCEPT !.stop = terminal'.stop, !.volume = terminal'.volume]
         \in Shape({terminal'.stop}, {terminal'.volume})
    BY <1>3
<1>5. Held' \in Shape({terminal'.stop}, {terminal'.volume})
    BY <1>1
<1>6. \A x, y, a, b : x \in Shape({a}, {b}) /\ y \in Shape({a}, {b}) => x = y
    OBVIOUS
<1>. QED
    BY <1>2, <1>4, <1>5, <1>6

\* A volume that shrinks to a positive one, or a stop that moves, is Manage; a volume
\* that shrinks to nothing is Close.
LEMMA ShrinksInLife ==
    ASSUME terminal.volume \in Nat, terminal'.volume \in 0..terminal.volume,
           terminal.volume > 0, AtLeastInitial(terminal'.stop)
    PROVE  Life!LifeNext
<1>1. Life!RiskContained(Held')
    BY DEF AtLeastInitial, Life!RiskContained, Life!Beyond, Beyond, Held
<1>2. CASE terminal'.volume = 0
    BY <1>2, HeldFields DEF Life!LifeNext, Life!Close
<1>3. CASE terminal'.volume # 0
    <2>1. Held'.volume \in 1..Held.volume
        BY <1>3, HeldFields
    <2>2. Held' = [Held EXCEPT !.stop = Held'.stop, !.volume = Held'.volume]
        BY HeldFields
    <2>. QED
        BY <1>1, <2>1, <2>2 DEF Life!LifeNext, Life!Manage
<1>. QED
    BY <1>2, <1>3

\* Whatever command the EA carries out, and whenever.
LEMMA CarriesOutInLife ==
    ASSUME ManagementInv, NEW o \in Order, OrderKeepsRisk(o), NEW verdict, CarriesOut(o, verdict)
    PROVE  Life!LifeNext \/ terminal' = terminal
<1>1. /\ terminal.volume \in Nat /\ o.volume \in Nat
      /\ InitialRiskKept /\ TypeOK
    BY PositionAssumption DEF ManagementInv, RiskInv, TypeOK, Holding, Order, Volume
<1>2. AtLeastInitial(terminal'.stop)
    BY <1>1, CarriesOutFacts
<1>3. CASE o.action = "MODIFY" /\ terminal.volume > 0 /\ terminal' = [terminal EXCEPT !.stop = o.stop]
    <2>1. terminal'.volume = terminal.volume
        BY <1>1, <1>3 DEF TypeOK, Holding
    <2>. QED
        BY <1>1, <1>2, <1>3, <2>1, ShrinksInLife
<1>4. CASE /\ o.action = "CLOSE" /\ terminal.volume >= o.volume
           /\ terminal' = [terminal EXCEPT !.volume = @ - o.volume]
    <2>1. terminal'.volume = terminal.volume - o.volume
        BY <1>1, <1>4 DEF TypeOK, Holding
    <2>2. CASE terminal.volume = 0
        <3>1. terminal'.volume = terminal.volume
            BY <1>1, <1>4, <2>1, <2>2
        <3>2. terminal' = terminal
            BY <1>1, <1>4, <2>1, <3>1 DEF TypeOK, Holding
        <3>. QED
            BY <3>2
    <2>3. CASE terminal.volume > 0
        BY <1>1, <1>2, <1>4, <2>1, <2>3, ShrinksInLife
    <2>. QED
        BY <1>1, <2>2, <2>3
<1>. QED
    BY <1>3, <1>4 DEF CarriesOut

LEMMA LifeInitial == Init => Life!LifeInit
BY PositionAssumption DEF Init, Held, Life!LifeInit, Life!JustOpened

LEMMA LifeStep == ManagementInv /\ [Next]_vars => [Life!LifeNext]_Held
<1>. SUFFICES ASSUME ManagementInv, [Next]_vars
              PROVE  Life!LifeNext \/ terminal' = terminal
    BY DEF Held
<1>1. CASE EaExecutes \/ EaFinishesLate \/ AckTimesOut
    <2>1. \/ terminal' = terminal
          \/ \E o \in {offered, late} : /\ o # Absent
                                       /\ \E verdict \in {"SUCCESS", "FAILED"} : CarriesOut(o, verdict)
        BY <1>1 DEF EaExecutes, EaFinishesLate, AckTimesOut
    <2>2. \A o \in {offered, late} : o # Absent => o \in Order /\ OrderKeepsRisk(o)
        BY DEF ManagementInv, TypeOK, RiskInv
    <2>. QED
        BY <2>1, <2>2, CarriesOutInLife
<1>2. CASE ExternalClose
    <2>1. /\ terminal.volume \in Nat /\ terminal.volume > 0
          /\ terminal'.volume = 0 /\ terminal'.stop = terminal.stop
        BY <1>2, PositionAssumption DEF ExternalClose, ManagementInv, TypeOK, Holding, Volume
    <2>2. AtLeastInitial(terminal'.stop)
        BY <2>1 DEF ManagementInv, RiskInv, InitialRiskKept
    <2>. QED
        BY <2>1, <2>2, ShrinksInLife
<1>3. CASE Manage \/ CycleTimesOut \/ AckArrives \/ WaitRaises \/ EaTakesAbandoned \/ NewBar
            \/ UNCHANGED vars
    BY <1>3 DEF Manage, CycleTimesOut, AckArrives, WaitRaises, EaTakesAbandoned, NewBar, vars
<1>. QED
    BY <1>1, <1>2, <1>3 DEF Next, Python, Ea

\* Trade management over the whole channel keeps its promise: the position only shrinks,
\* and its stop stays at the first one or beyond, which is what RiskControl takes a
\* management command to do.
THEOREM PositionLivesAsPromised == Spec => ImplementsLife
BY LifeInitial, LifeStep, ManagementInvariant, PTL DEF Spec, ImplementsLife, Life!LifeSpec
=============================================================================
