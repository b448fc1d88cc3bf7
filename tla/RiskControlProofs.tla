-------------------------- MODULE RiskControlProofs --------------------------
(***************************************************************************)
(* RiskControl for every account, market and configuration: the types, the *)
(* bound on the loss, the consent of the AI layer, when a second position  *)
(* is opened, and what the daily limit is measured from.                   *)
(***************************************************************************)
EXTENDS RiskControl, NaturalsInduction, WellFoundedInduction, TLAPS

\* What a position leaves when it is stopped at its first stop.
Worst(p) == Profit(p, p.initial_stop, p.volume)

\* The price of an open position lies between its stop and its target, and its
\* stop is the first one or further into profit.
PositionsInMarket ==
    \A t \in Ticket : Open(t) =>
        /\ Beyond(positions[t].side, price, positions[t].stop)
        /\ Beyond(positions[t].side, positions[t].target, price)
        /\ \/ positions[t].stop = positions[t].initial_stop
           \/ Beyond(positions[t].side, positions[t].stop, positions[t].initial_stop)

UnusedFlat == \A t \in Ticket : t > trades => positions[t].volume = 0

\* A status that is newer than every OPEN shows a position when there is one.
NewestShown == since.opens = 0 /\ (\E t \in Ticket : Open(t)) => status.ticket # 0

\* What is left at the first stops falls by no more than a risk per trade with every OPEN,
\* measured from the equity of the status that all OPENs since are judged by ...
FloorSince ==
    100 * PointValue * (Floor + since.others + since.stake + since.slipped)
      >= 100 * PointValue * status.equity
           - since.opens * (MaxRiskPerTrade * PointWorth) * status.equity

\* ... which had its share of the peak when the last one was carried out.
FloorHolds ==
    LET history == lastOpen.history
    IN  100 * PointValue * (Floor + history.others + history.stake + history.slipped)
          >= ((100 - MaxDrawdown) * PointValue - history.opens * MaxRiskPerTrade * PointWorth)
               * lastOpen.peak

RiskInv ==
    /\ TypeOK /\ PositionsInMarket /\ UnusedFlat /\ NewestShown
    /\ FloorSince /\ FloorHolds /\ AiConsulted

-----------------------------------------------------------------------------
(***************************************************************************)
(* Arithmetic                                                              *)
(***************************************************************************)
\* A larger factor makes no smaller product.
LEMMA TimesMonotone ==
    ASSUME NEW a \in Nat, NEW x \in Int, NEW y \in Int, x >= y
    PROVE  a * x >= a * y
<1>1. a * (x - y) >= 0
    <2>. DEFINE d == x - y
    <2>1. d \in Nat
        OBVIOUS
    <2>. HIDE DEF d
    <2>2. a * d >= 0
        BY <2>1
    <2>. QED
        BY <2>2 DEF d
<1>2. a * (x - y) = a * x - a * y
    OBVIOUS
<1>. QED
    BY <1>1, <1>2

\* A quotient times the divisor does not exceed the dividend.
LEMMA QuotientBound ==
    ASSUME NEW x \in Nat, NEW d \in Nat \ {0}
    PROVE  x \div d \in Nat /\ (x \div d) * d <= x
OBVIOUS

\* A product of positive numbers is positive.
LEMMA PositiveProduct ==
    ASSUME NEW a \in Nat \ {0}, NEW b \in Nat \ {0}
    PROVE  a * b \in Nat \ {0}
OBVIOUS

\* Induction, by a least counterexample: the library states it with an operator parameter.
LEMMA Induction ==
    ASSUME NEW S \in SUBSET Nat, 0 \in S, \A k \in S : k + 1 \in S
    PROVE  S = Nat
<1>. DEFINE R == OpToRel(<, Nat)
<1>1. SUFFICES ASSUME Nat \ S # {} PROVE FALSE
    OBVIOUS
<1>2. \E i \in Nat \ S : \A j \in Nat \ S : ~(<<j, i>> \in R)
    <2>1. IsWellFoundedOn(R, Nat)
        BY NatLessThanWellFounded
    <2>. HIDE DEF R
    <2>. QED
        BY <1>1, <2>1, WFMin
<1>3. PICK i \in Nat \ S : \A j \in Nat \ S : ~(<<j, i>> \in R)
    BY <1>2
<1>4. i \in Nat /\ i # 0 /\ i - 1 \in Nat /\ (i - 1) + 1 = i
    OBVIOUS
<1>5. i - 1 \in S
    <2>1. SUFFICES ASSUME i - 1 \in Nat \ S PROVE FALSE
        BY <1>4
    <2>2. ~(i - 1 < i)
        BY <1>3, <1>4, <2>1 DEF OpToRel
    <2>. QED
        BY <1>4, <2>2
<1>. QED
    BY <1>4, <1>5

-----------------------------------------------------------------------------
(***************************************************************************)
(* Sums over the tickets                                                   *)
(***************************************************************************)
\* The function that Total iterates, up to a ticket.
SumsTo(sums, f, m) ==
    \A n \in 0..m : sums[n] = IF n = 0 THEN 0 ELSE sums[n - 1] + f[n]

LEMMA SumsExist ==
    ASSUME NEW f \in [Ticket -> Int]
    PROVE  \E sums \in [0..MaxTrades -> Int] :
             SumsTo(sums, f, MaxTrades) /\ Total(f) = sums[MaxTrades]
<1>. DEFINE S == {m \in Nat : m <= MaxTrades =>
                    \E sums \in [0..MaxTrades -> Int] : SumsTo(sums, f, m)}
<1>1. 0 \in S
    <2>1. [n \in 0..MaxTrades |-> 0] \in [0..MaxTrades -> Int]
        OBVIOUS
    <2>2. MaxTrades \in Nat
        BY AccountAssumption
    <2>3. SumsTo([n \in 0..MaxTrades |-> 0], f, 0)
        BY <2>2 DEF SumsTo
    <2>. QED
        BY <2>1, <2>3
<1>2. ASSUME NEW m \in S PROVE m + 1 \in S
    <2>1. SUFFICES ASSUME m + 1 <= MaxTrades
                   PROVE  \E sums \in [0..MaxTrades -> Int] : SumsTo(sums, f, m + 1)
        OBVIOUS
    <2>2. m \in Nat /\ m <= MaxTrades /\ MaxTrades \in Nat /\ m + 1 \in Ticket
        BY <2>1, AccountAssumption DEF Ticket
    <2>3. PICK sums \in [0..MaxTrades -> Int] : SumsTo(sums, f, m)
        BY <2>2
    <2>. DEFINE next == [sums EXCEPT ![m + 1] = sums[m] + f[m + 1]]
    <2>4. next \in [0..MaxTrades -> Int] /\ next[m + 1] = sums[m] + f[m + 1]
        <3>1. sums[m] + f[m + 1] \in Int /\ m + 1 \in 0..MaxTrades
            <4>1. m \in 0..MaxTrades /\ m + 1 \in 0..MaxTrades
                BY <2>2 DEF Ticket
            <4>2. sums[m] \in Int /\ f[m + 1] \in Int
                BY <2>2, <4>1
            <4>. QED
                BY <4>1, <4>2
        <3>. QED
            BY <3>1
    <2>5. SumsTo(next, f, m + 1)
        <3>. SUFFICES ASSUME NEW n \in 0..(m + 1)
                      PROVE  next[n] = IF n = 0 THEN 0 ELSE next[n - 1] + f[n]
            BY DEF SumsTo
        <3>1. CASE n = m + 1
            <4>1. n # 0 /\ n - 1 = m /\ m # m + 1 /\ m \in 0..MaxTrades
                BY <2>2, <3>1
            <4>. QED
                BY <2>4, <3>1, <4>1
        <3>2. CASE n # m + 1
            <4>1. n \in 0..m /\ n \in 0..MaxTrades /\ (n # 0 => n - 1 \in 0..m /\ n - 1 # m + 1)
                BY <2>2, <3>2
            <4>2. sums[n] = IF n = 0 THEN 0 ELSE sums[n - 1] + f[n]
                BY <2>3, <4>1 DEF SumsTo
            <4>. QED
                BY <2>2, <3>2, <4>1, <4>2
        <3>. QED
            BY <3>1, <3>2
    <2>. QED
        BY <2>4, <2>5
<1>3. S = Nat
    <2>1. S \in SUBSET Nat
        OBVIOUS
    <2>. HIDE DEF S
    <2>. QED
        BY <1>1, <1>2, <2>1, Induction
<1>4. MaxTrades \in Nat
    BY AccountAssumption
<1>5. PICK sums \in [0..MaxTrades -> Int] : SumsTo(sums, f, MaxTrades)
    <2>1. MaxTrades \in S
        <3>. HIDE DEF S
        <3>. QED
            BY <1>3, <1>4
    <2>. QED
        BY <1>4, <2>1
<1>. DEFINE Sums(g) == g = [n \in 0..MaxTrades |-> IF n = 0 THEN 0 ELSE g[n - 1] + f[n]]
            total == CHOOSE g : Sums(g)
<1>6. Sums(sums)
    BY <1>5 DEF SumsTo
<1>7. Sums(total)
    <2>. HIDE DEF Sums
    <2>. QED
        BY <1>6
<1>8. Total(f) = total[MaxTrades]
    BY DEF Total
<1>. HIDE DEF total
<1>9. SumsTo(total, f, MaxTrades)
    <2>1. \A n \in 0..MaxTrades : total[n] = IF n = 0 THEN 0 ELSE total[n - 1] + f[n]
        BY <1>7, Zenon
    <2>. QED
        BY <2>1 DEF SumsTo
<1>10. total \in [0..MaxTrades -> Int]
    <2>. DEFINE T == {n \in Nat : n <= MaxTrades => total[n] \in Int}
    <2>1. 0 \in T
        BY <1>4, <1>9 DEF SumsTo
    <2>2. ASSUME NEW n \in T PROVE n + 1 \in T
        <3>1. SUFFICES ASSUME n + 1 <= MaxTrades PROVE total[n + 1] \in Int
            OBVIOUS
        <3>2. n + 1 \in 0..MaxTrades /\ n + 1 # 0 /\ (n + 1) - 1 = n /\ n + 1 \in Ticket
              /\ total[n] \in Int
            BY <1>4, <3>1 DEF Ticket
        <3>3. total[n + 1] = total[n] + f[n + 1]
            BY <1>9, <3>2 DEF SumsTo
        <3>. QED
            BY <3>2, <3>3
    <2>3. T = Nat
        <3>1. T \in SUBSET Nat
            OBVIOUS
        <3>. HIDE DEF T
        <3>. QED
            BY <2>1, <2>2, <3>1, Induction
    <2>4. total = [n \in 0..MaxTrades |-> total[n]]
        BY <1>7, Zenon
    <2>5. \A n \in 0..MaxTrades : total[n] \in Int
        BY <1>4, <2>3
    <2>. QED
        BY <2>4, <2>5
<1>. QED
    BY <1>8, <1>9, <1>10

\* Where one value of f exceeds that of g by d, and no other is smaller, so do the sums.
LEMMA TotalsCompare ==
    ASSUME NEW f \in [Ticket -> Int], NEW g \in [Ticket -> Int], NEW k \in Nat, NEW d \in Int,
           k \in Ticket \/ d = 0,
           \A t \in Ticket : f[t] >= g[t] + (IF t = k THEN d ELSE 0)
    PROVE  Total(f) \in Int /\ Total(g) \in Int /\ Total(f) >= Total(g) + d
<1>1. PICK F \in [0..MaxTrades -> Int] : SumsTo(F, f, MaxTrades) /\ Total(f) = F[MaxTrades]
    BY SumsExist
<1>2. PICK G \in [0..MaxTrades -> Int] : SumsTo(G, g, MaxTrades) /\ Total(g) = G[MaxTrades]
    BY SumsExist
<1>3. MaxTrades \in Nat
    BY AccountAssumption
<1>. DEFINE more(n) == IF k \in 1..n THEN d ELSE 0
            S == {n \in Nat : n <= MaxTrades => F[n] >= G[n] + more(n)}
<1>4. 0 \in S
    <2>1. F[0] = 0 /\ G[0] = 0 /\ more(0) = 0
        BY <1>1, <1>2, <1>3 DEF SumsTo
    <2>. QED
        BY <2>1
<1>5. ASSUME NEW n \in S PROVE n + 1 \in S
    <2>1. SUFFICES ASSUME n + 1 <= MaxTrades PROVE F[n + 1] >= G[n + 1] + more(n + 1)
        OBVIOUS
    <2>2. /\ n \in Nat /\ n \in 0..MaxTrades /\ n + 1 \in 0..MaxTrades /\ n + 1 # 0
          /\ (n + 1) - 1 = n /\ n + 1 \in Ticket
          /\ F[n] >= G[n] + more(n)
        BY <1>3, <2>1 DEF Ticket
    <2>3. F[n + 1] = F[n] + f[n + 1] /\ G[n + 1] = G[n] + g[n + 1]
        BY <1>1, <1>2, <2>2 DEF SumsTo
    <2>4. f[n + 1] >= g[n + 1] + (IF n + 1 = k THEN d ELSE 0)
        BY <2>2
    <2>5. more(n + 1) = more(n) + (IF n + 1 = k THEN d ELSE 0) /\ more(n) \in Int
        BY <2>2
    <2>6. F[n] \in Int /\ G[n] \in Int /\ f[n + 1] \in Int /\ g[n + 1] \in Int
        BY <2>2
    <2>. HIDE DEF more
    <2>. QED
        BY <2>2, <2>3, <2>4, <2>5, <2>6
<1>6. S = Nat
    <2>1. S \in SUBSET Nat
        OBVIOUS
    <2>. HIDE DEF S
    <2>. QED
        BY <1>4, <1>5, <2>1, Induction
<1>7. F[MaxTrades] >= G[MaxTrades] + more(MaxTrades)
    <2>1. MaxTrades \in S
        <3>. HIDE DEF S
        <3>. QED
            BY <1>3, <1>6
    <2>. QED
        BY <1>3, <2>1
<1>8. more(MaxTrades) = d
    BY <1>3 DEF Ticket
<1>. QED
    BY <1>1, <1>2, <1>3, <1>7, <1>8

\* The profit of a volume is a whole number, nothing for no volume, the sum of
\* what its parts earn, and grows with the level the position is left at.
LEMMA ProfitFacts ==
    ASSUME NEW p \in Position, NEW v \in Nat, NEW w \in Nat, w <= v,
           NEW x \in Int, NEW y \in Int
    PROVE  /\ Profit(p, x, v) \in Int
           /\ v = 0 => Profit(p, x, v) = 0
           /\ x = y \/ Beyond(p.side, x, y) => Profit(p, x, v) >= Profit(p, y, v)
           /\ Profit(p, x, v) = Profit(p, x, w) + Profit(p, x, v - w)
<1>. DEFINE g(z) == Gain(p.side, z, p.entry)
<1>1. p.entry \in Int /\ p.side \in Side /\ PointWorth \in Nat
    BY AccountAssumption DEF Position, Level
<1>2. g(x) \in Int /\ g(y) \in Int
    BY <1>1 DEF Gain
<1>3. x = y \/ Beyond(p.side, x, y) => g(x) >= g(y)
    BY <1>1 DEF Gain, Beyond, Side
<1>4. v * PointWorth \in Nat /\ w * PointWorth \in Nat
    BY <1>1
<1>5. \A u : Profit(p, x, u) = u * PointWorth * g(x) /\ Profit(p, y, u) = u * PointWorth * g(y)
    BY DEF Profit
<1>. HIDE DEF g
<1>6. x = y \/ Beyond(p.side, x, y) => Profit(p, x, v) >= Profit(p, y, v)
    <2>1. g(x) >= g(y) => v * PointWorth * g(x) >= v * PointWorth * g(y)
        BY <1>2, <1>4, TimesMonotone
    <2>. QED
        BY <1>3, <1>5, <2>1
<1>7. v * PointWorth * g(x) = w * PointWorth * g(x) + (v - w) * PointWorth * g(x)
    BY <1>1, <1>2
<1>8. v = 0 => v * PointWorth * g(x) = 0
    BY <1>1, <1>2
<1>9. v * PointWorth * g(x) \in Int
    BY <1>2, <1>4
<1>. QED
    BY <1>5, <1>6, <1>7, <1>8, <1>9

-----------------------------------------------------------------------------
(***************************************************************************)
(* The decision                                                            *)
(***************************************************************************)
\* Reconciling makes an InstanceState; its peak is no lower than the equity.
LEMMA ReconciledFacts ==
    ASSUME NEW s \in Metrics, NEW st \in Status
    PROVE  /\ Reconciled(s, st) \in Metrics
           /\ Reconciled(s, st).peak_equity >= st.equity
<1>1. st.ticket \in 0..MaxTrades /\ 0 \in 0..MaxTrades /\ s.ticket \in 0..MaxTrades
    BY AccountAssumption DEF Metrics, Status
<1>2. (IF s.ticket \in {0, st.ticket} THEN st.ticket ELSE 0) \in 0..MaxTrades
    BY <1>1
<1>. QED
    BY <1>2 DEF Reconciled, Metrics, Status

\* An equity that the drawdown limit lets pass keeps its share of the peak.
LEMMA DrawdownKeeps ==
    ASSUME NEW m \in Metrics, NEW st \in Status,
           st.equity > 0, m.peak_equity >= st.equity, DrawdownAllows(m, st)
    PROVE  100 * st.equity >= (100 - MaxDrawdown) * m.peak_equity
<1>. DEFINE e == st.equity
            peak == m.peak_equity
<1>1. e \in Int /\ peak \in Int /\ peak > 0 /\ e > 0 /\ MaxDrawdown \in 0..100
    BY RiskAssumption DEF Metrics, Status
<1>2. LossBelow(peak, e, MaxDrawdown)
    BY <1>1 DEF DrawdownAllows
<1>3. (100 - MaxDrawdown) * peak = 100 * peak - MaxDrawdown * peak
    BY <1>1
<1>4. MaxDrawdown * peak >= 0
    BY <1>1
<1>. HIDE DEF e, peak
<1>5. CASE e >= peak
    BY <1>1, <1>3, <1>4, <1>5 DEF e, peak
<1>6. CASE e < peak
    <2>1. 100 * (peak - e) < MaxDrawdown * peak
        BY <1>1, <1>2, <1>6 DEF LossBelow
    <2>. QED
        BY <1>1, <1>3, <2>1 DEF e, peak
<1>. QED
    BY <1>1, <1>5, <1>6

\* The size of a trade: what it loses at its stop is the allowed share of the equity.
LEMMA SizeBoundsLoss ==
    ASSUME NEW e \in Nat \ {0}, NEW d \in Nat \ {0}
    PROVE  /\ VolumeFor(e, d) \in Nat
           /\ 100 * (VolumeFor(e, d) * PointValue * d) <= e * MaxRiskPerTrade
<1>. DEFINE unit == 100 * d * PointValue * VolumeStep
            q == (e * MaxRiskPerTrade) \div unit
<1>1. /\ PointValue \in Nat \ {0} /\ VolumeStep \in Nat \ {0}
      /\ MaxRiskPerTrade \in Nat \ {0}
    BY RiskAssumption
<1>2. unit \in Nat \ {0}
    <2>1. 100 * d \in Nat \ {0}
        OBVIOUS
    <2>2. 100 * d * PointValue \in Nat \ {0}
        BY <1>1, <2>1, PositiveProduct
    <2>. QED
        BY <1>1, <2>2, PositiveProduct
<1>3. e * MaxRiskPerTrade \in Nat
    BY <1>1
<1>4. VolumeFor(e, d) = q * VolumeStep
    BY DEF VolumeFor
<1>5. q \in Nat /\ q * unit <= e * MaxRiskPerTrade
    <2>. HIDE DEF unit
    <2>. QED
        BY <1>2, <1>3, QuotientBound
<1>. HIDE DEF q
<1>6. 100 * ((q * VolumeStep) * PointValue * d) = q * unit
    BY <1>1, <1>5
<1>7. q * VolumeStep \in Nat
    BY <1>1, <1>5
<1>. QED
    BY <1>4, <1>5, <1>6, <1>7

\* A decision for a side comes with the consent of an AI that has to be asked.
LEMMA OpenHasConsent ==
    ASSUME NEW market, NEW side \in Side, NEW query \in Query, NEW m \in Metrics,
           NEW st \in Status, AiMode = "required" \/ FailClosed,
           Opens(side, market, query, m, st),
           query.kind = "skipped" <=> ~AskAi(SystemDecision(market, st.tradeable), m, st)
    PROVE  query.kind = "answered" /\ AnswerAllows(side, query.answer)
<1>. DEFINE decision == SystemDecision(market, st.tradeable)
<1>1. RulesAllow(m, st) /\ AfterAi(decision, query) = side
    BY DEF Opens, RiskAllows
<1>2. query.kind # "skipped"
    BY <1>1 DEF AskAi
<1>3. side # "BLOCK" /\ side # RejectAction
    BY AiAssumption DEF Side
<1>. HIDE DEF decision
<1>4. query.kind # "missing"
    BY <1>1, <1>2, <1>3 DEF AfterAi
<1>5. query.kind = "answered"
    BY <1>2, <1>4 DEF Query
<1>6. decision = side /\ AnswerAllows(side, query.answer)
    BY <1>1, <1>3, <1>5 DEF AfterAi, AnswerAllows
<1>. QED
    BY <1>5, <1>6

\* An OPEN that the decision lets through: its levels are positive, it is judged without
\* a position, and its size and the peak are within the limits of the equity.
LEMMA OpenFacts ==
    ASSUME NEW close \in Price, NEW market \in MarketAt(close), NEW side \in Side,
           NEW query \in Query, NEW m \in Metrics, NEW st \in Status, m.peak_equity >= st.equity,
           Opens(side, market, query, m, st)
    PROVE  LET stop     == CandidateStop(side, market)
               distance == Gain(side, close, stop)
               volume   == VolumeFor(st.equity, distance)
           IN  /\ m.ticket = 0 /\ RulesAllow(m, st)
               /\ stop \in Level /\ CandidateTarget(side, market) \in Level /\ volume \in Nat
               /\ distance \in Nat
               /\ st.equity \in Nat /\ m.peak_equity \in Nat
               /\ 100 * (volume * PointValue * distance) <= st.equity * MaxRiskPerTrade
               /\ 100 * st.equity >= (100 - MaxDrawdown) * m.peak_equity
<1>. DEFINE stop     == CandidateStop(side, market)
            target   == CandidateTarget(side, market)
            distance == Gain(side, close, stop)
            volume   == VolumeFor(st.equity, distance)
            e        == st.equity
<1>1. /\ close \in Nat /\ close > StopLossBuffer /\ StopLossBuffer \in Nat
      /\ market.close = close /\ market.swing_low \in Price /\ market.swing_high \in Price
    BY RiskAssumption, AccountAssumption DEF Price, MarketAt
<1>2. stop \in Level
    BY <1>1, RiskAssumption, AccountAssumption DEF CandidateStop, Price, Level
<1>3. target \in Int
    BY <1>1, <1>2, RiskAssumption DEF CandidateTarget, Gain, Level
<1>4. RulesAllow(m, st) /\ LevelsValid(side, market) /\ volume > 0
    BY <1>1 DEF Opens, RiskAllows
<1>5. m.ticket = 0
    BY <1>4, RiskAssumption DEF RulesAllow
<1>6. target > 0 /\ Beyond(side, close, stop)
    BY <1>1, <1>4 DEF LevelsValid
<1>7. distance \in Nat \ {0}
    BY <1>1, <1>2, <1>6 DEF Beyond, Gain, Level
<1>8. e \in Nat \ {0} /\ m.peak_equity \in Nat
    BY <1>4 DEF VolumeFor, Status, Metrics
<1>9. 100 * e >= (100 - MaxDrawdown) * m.peak_equity
    BY <1>4, <1>8, DrawdownKeeps DEF RulesAllow
<1>10. volume \in Nat /\ 100 * (volume * PointValue * distance) <= e * MaxRiskPerTrade
    BY <1>7, <1>8, SizeBoundsLoss
<1>11. target \in Level
    BY <1>3, <1>6 DEF Level
<1>. QED
    BY <1>2, <1>4, <1>5, <1>7, <1>8, <1>9, <1>10, <1>11

-----------------------------------------------------------------------------
(***************************************************************************)
(* The floor                                                               *)
(***************************************************************************)
\* A position has numbers for levels, and what it is worth at one is a number.
LEMMA PositionFields ==
    ASSUME NEW p \in Position, NEW level \in Int
    PROVE  /\ p.side \in Side /\ p.stop \in Int /\ p.target \in Int /\ p.initial_stop \in Int
           /\ p.entry \in Int /\ p.volume \in Nat
           /\ Profit(p, level, p.volume) \in Int /\ Worst(p) \in Int
<1>1. /\ p.side \in Side /\ p.stop \in Int /\ p.target \in Int /\ p.initial_stop \in Int
      /\ p.entry \in Int /\ p.volume \in Nat
    BY DEF Position, Level
<1>. QED
    BY <1>1, ProfitFacts DEF Worst

LEMMA FlatFields == Flat \in Position /\ Flat.volume = 0 /\ Worst(Flat) = 0
<1>1. Flat \in Position /\ Flat.volume = 0
    BY RiskAssumption, AccountAssumption DEF Flat, Position, Level, Side
<1>. QED
    BY <1>1, PositionFields, ProfitFacts DEF Worst

\* One position changes, and may have less to leave.
LEMMA FloorChanges ==
    ASSUME TypeOK, positions' \in [Ticket -> Position], balance' \in Int,
           NEW k \in Ticket, NEW d \in Int,
           \A t \in Ticket : t # k => positions'[t] = positions[t],
           Worst(positions'[k]) >= Worst(positions[k]) + d
    PROVE  Floor \in Int /\ Floor' \in Int /\ Floor' >= Floor + (balance' - balance) + d
<1>. DEFINE f == [t \in Ticket |-> Worst(positions'[t])]
            g == [t \in Ticket |-> Worst(positions[t])]
<1>1. positions \in [Ticket -> Position] /\ balance \in Int
    BY DEF TypeOK
<1>2. f \in [Ticket -> Int] /\ g \in [Ticket -> Int]
    BY <1>1, PositionFields
<1>3. \A t \in Ticket : f[t] >= g[t] + (IF t = k THEN d ELSE 0)
    <2>. TAKE t \in Ticket
    <2>1. g[t] \in Int /\ f[t] \in Int
        BY <1>2
    <2>2. CASE t = k
        BY <2>2
    <2>3. CASE t # k
        BY <2>1, <2>3
    <2>. QED
        BY <2>2, <2>3
<1>4. Floor = balance + Total(g) /\ Floor' = balance' + Total(f)
    BY DEF Floor, Worst
<1>5. k \in Nat
    BY DEF Ticket
<1>. HIDE DEF f, g
<1>6. Total(f) \in Int /\ Total(g) \in Int /\ Total(f) >= Total(g) + d
    BY <1>2, <1>3, <1>5, TotalsCompare
<1>. QED
    BY <1>1, <1>4, <1>6

\* An open position is worth more than at its first stop.
LEMMA EquityAboveFloor ==
    ASSUME TypeOK, PositionsInMarket
    PROVE  Equity \in Int /\ Floor \in Int /\ Equity >= Floor
<1>. DEFINE f == [t \in Ticket |-> Profit(positions[t], price, positions[t].volume)]
            g == [t \in Ticket |-> Worst(positions[t])]
<1>1. positions \in [Ticket -> Position] /\ balance \in Int /\ price \in Int
    BY RiskAssumption, AccountAssumption DEF TypeOK, Price
<1>2. f \in [Ticket -> Int] /\ g \in [Ticket -> Int]
    BY <1>1, PositionFields
<1>3. \A t \in Ticket : f[t] >= g[t] + (IF t = 0 THEN 0 ELSE 0)
    <2>. TAKE t \in Ticket
    <2>. DEFINE p == positions[t]
    <2>1. /\ p \in Position /\ p.volume \in Nat /\ p.initial_stop \in Int /\ p.stop \in Int
          /\ p.side \in Side /\ Worst(p) \in Int /\ Profit(p, price, p.volume) \in Int
        BY <1>1, PositionFields
    <2>2. CASE p.volume = 0
        <3>1. Profit(p, price, p.volume) = 0 /\ Worst(p) = 0
            BY <1>1, <2>1, <2>2, ProfitFacts DEF Worst
        <3>. QED
            BY <3>1
    <2>3. CASE p.volume > 0
        <3>1. Beyond(p.side, price, p.initial_stop)
            BY <1>1, <2>1, <2>3 DEF PositionsInMarket, Open, Beyond, Side
        <3>2. Profit(p, price, p.volume) >= Worst(p)
            BY <1>1, <2>1, <3>1, ProfitFacts DEF Worst
        <3>. QED
            BY <2>1, <3>2
    <2>. QED
        BY <2>1, <2>2, <2>3
<1>4. Equity = balance + Total(f) /\ Floor = balance + Total(g)
    BY DEF Equity, Floor, Worst
<1>. HIDE DEF f, g
<1>5. Total(f) \in Int /\ Total(g) \in Int /\ Total(f) >= Total(g) + 0
    BY <1>2, <1>3, TotalsCompare
<1>. QED
    BY <1>1, <1>4, <1>5

\* The histories are numbers.
LEMMA HistoryInt ==
    ASSUME TypeOK
    PROVE  /\ since.others \in Int /\ since.stake \in Int /\ since.slipped \in Int
           /\ since.opens \in Nat /\ status.equity \in Int
           /\ lastOpen.history.others \in Int /\ lastOpen.history.stake \in Int
           /\ lastOpen.history.slipped \in Int /\ lastOpen.history.opens \in Nat
           /\ lastOpen.peak \in Nat
           /\ since.opens * (MaxRiskPerTrade * PointWorth) * status.equity \in Int
           /\ ((100 - MaxDrawdown) * PointValue
                 - lastOpen.history.opens * MaxRiskPerTrade * PointWorth) * lastOpen.peak \in Int
<1>1. /\ since.others \in Int /\ since.stake \in Int /\ since.slipped \in Int
      /\ since.opens \in Nat /\ status.equity \in Int
      /\ lastOpen.history.others \in Int /\ lastOpen.history.stake \in Int
      /\ lastOpen.history.slipped \in Int /\ lastOpen.history.opens \in Nat
      /\ lastOpen.peak \in Nat
    BY DEF TypeOK, History, Status
<1>2. /\ MaxRiskPerTrade \in Nat /\ PointWorth \in Nat /\ PointValue \in Nat
      /\ 100 - MaxDrawdown \in Int
    BY RiskAssumption, AccountAssumption
<1>3. since.opens * (MaxRiskPerTrade * PointWorth) * status.equity \in Int
    BY <1>1, <1>2
<1>4. ((100 - MaxDrawdown) * PointValue
         - lastOpen.history.opens * MaxRiskPerTrade * PointWorth) * lastOpen.peak \in Int
    <2>1. /\ (100 - MaxDrawdown) * PointValue \in Int
          /\ lastOpen.history.opens * MaxRiskPerTrade * PointWorth \in Int
        BY <1>1, <1>2
    <2>. QED
        BY <1>1, <2>1
<1>. QED
    BY <1>1, <1>3, <1>4

\* A larger sum, a larger multiple.
LEMMA SizedMonotone ==
    ASSUME NEW x \in Int, NEW y \in Int, x >= y
    PROVE  100 * PointValue * x >= 100 * PointValue * y
BY RiskAssumption, TimesMonotone

\* As long as no OPEN is carried out and no status written, a floor that does not fall
\* keeps both bounds.
LEMMA FloorKept ==
    ASSUME RiskInv, Floor \in Int, Floor' \in Int, Floor' >= Floor,
           UNCHANGED <<status, since, lastOpen>>
    PROVE  FloorSince' /\ FloorHolds'
<1>. DEFINE now    == since.others + since.stake + since.slipped
            history == lastOpen.history
            then   == history.others + history.stake + history.slipped
<1>1. TypeOK /\ FloorSince /\ FloorHolds
    BY DEF RiskInv
<1>2. now \in Int /\ then \in Int
    BY <1>1, HistoryInt
<1>3. /\ Floor + since.others + since.stake + since.slipped = Floor + now
      /\ Floor' + since.others + since.stake + since.slipped = Floor' + now
      /\ Floor + history.others + history.stake + history.slipped = Floor + then
      /\ Floor' + history.others + history.stake + history.slipped = Floor' + then
    BY <1>1, HistoryInt
<1>. HIDE DEF now, then
<1>4. /\ 100 * PointValue * (Floor' + now) >= 100 * PointValue * (Floor + now)
      /\ 100 * PointValue * (Floor' + then) >= 100 * PointValue * (Floor + then)
    BY <1>2, SizedMonotone
<1>5. /\ 100 * PointValue * (Floor' + now) \in Int /\ 100 * PointValue * (Floor + now) \in Int
      /\ 100 * PointValue * (Floor' + then) \in Int /\ 100 * PointValue * (Floor + then) \in Int
      /\ 100 * PointValue * status.equity \in Int
    BY <1>1, <1>2, HistoryInt, RiskAssumption
<1>6. FloorSince'
    <2>1. 100 * PointValue * (Floor + now)
            >= 100 * PointValue * status.equity
                 - since.opens * (MaxRiskPerTrade * PointWorth) * status.equity
        BY <1>1, <1>3 DEF FloorSince
    <2>2. since.opens * (MaxRiskPerTrade * PointWorth) * status.equity \in Int
        BY <1>1, HistoryInt
    <2>3. 100 * PointValue * (Floor' + now)
            >= 100 * PointValue * status.equity
                 - since.opens * (MaxRiskPerTrade * PointWorth) * status.equity
        BY <1>4, <1>5, <2>1, <2>2
    <2>. QED
        BY <1>3, <2>3 DEF FloorSince
<1>7. FloorHolds'
    <2>. DEFINE promised == ((100 - MaxDrawdown) * PointValue
                               - lastOpen.history.opens * MaxRiskPerTrade * PointWorth)
                              * lastOpen.peak
    <2>1. 100 * PointValue * (Floor + then) >= promised
        BY <1>1, <1>3 DEF FloorHolds
    <2>2. promised \in Int
        BY <1>1, HistoryInt
    <2>. HIDE DEF promised
    <2>3. 100 * PointValue * (Floor' + then) >= promised
        BY <1>4, <1>5, <2>1, <2>2
    <2>. QED
        BY <1>3, <2>3 DEF FloorHolds, promised
<1>. QED
    BY <1>6, <1>7

-----------------------------------------------------------------------------
(***************************************************************************)
(* The steps                                                               *)
(***************************************************************************)
\* An account without a position keeps the bounds on the loss.
LEMMA InitInv == Init => RiskInv
<1>. SUFFICES ASSUME Init PROVE RiskInv
    OBVIOUS
<1>1. /\ positions \in [Ticket -> Position] /\ \A t \in Ticket : positions[t].volume = 0
      /\ \A t \in Ticket : Worst(positions[t]) = 0
    BY FlatFields DEF Init
<1>2. /\ status \in Status /\ status.balance = balance /\ status.equity = balance
      /\ status.ticket = 0 /\ balance \in Nat
    BY AccountAssumption DEF Init, Status
<1>3. saved \in Metrics
    <2>. DEFINE none == [ticket |-> 0, day_start_balance |-> 0, peak_equity |-> 0]
    <2>1. none \in Metrics
        BY AccountAssumption DEF Metrics
    <2>2. saved = Reconciled(none, status)
        BY DEF Init
    <2>. HIDE DEF none
    <2>. QED
        BY <1>2, <2>1, <2>2, ReconciledFacts
<1>4. NoHistory \in History
    BY DEF NoHistory, History
<1>5. TypeOK
    BY <1>1, <1>2, <1>3, <1>4, AccountAssumption DEF Init, TypeOK
<1>6. Floor = balance
    <2>. DEFINE g == [t \in Ticket |-> Worst(positions[t])]
                z == [t \in Ticket |-> 0]
    <2>1. g = z
        BY <1>1
    <2>2. Floor = balance + Total(g)
        BY DEF Floor, Worst
    <2>3. z \in [Ticket -> Int] /\ \A t \in Ticket : z[t] = 0
        OBVIOUS
    <2>. HIDE DEF g, z
    <2>4. Total(z) = 0
        <3>1. PICK sums \in [0..MaxTrades -> Int] :
                SumsTo(sums, z, MaxTrades) /\ Total(z) = sums[MaxTrades]
            BY <2>3, SumsExist
        <3>. DEFINE S == {n \in Nat : n <= MaxTrades => sums[n] = 0}
        <3>2. MaxTrades \in Nat
            BY AccountAssumption
        <3>3. 0 \in S
            BY <3>1, <3>2 DEF SumsTo
        <3>4. ASSUME NEW n \in S PROVE n + 1 \in S
            <4>1. SUFFICES ASSUME n + 1 <= MaxTrades PROVE sums[n + 1] = 0
                OBVIOUS
            <4>2. n + 1 \in 0..MaxTrades /\ n + 1 # 0 /\ (n + 1) - 1 = n /\ n + 1 \in Ticket
                  /\ sums[n] = 0
                BY <3>2, <4>1 DEF Ticket
            <4>3. sums[n + 1] = sums[n] + z[n + 1]
                BY <3>1, <4>2 DEF SumsTo
            <4>. QED
                BY <2>3, <4>2, <4>3
        <3>5. MaxTrades \in S
            <4>1. S \in SUBSET Nat
                OBVIOUS
            <4>. HIDE DEF S
            <4>. QED
                BY <3>2, <3>3, <3>4, <4>1, Induction
        <3>. QED
            BY <3>1, <3>2, <3>5
    <2>. QED
        BY <1>2, <2>1, <2>2, <2>4
<1>7. FloorSince
    <2>1. since = NoHistory
        BY DEF Init
    <2>2. Floor + since.others + since.stake + since.slipped = balance
          /\ since.opens * (MaxRiskPerTrade * PointWorth) * status.equity = 0
        BY <1>2, <1>6, <2>1, RiskAssumption, AccountAssumption DEF NoHistory
    <2>3. 100 * PointValue * balance \in Int
        BY <1>2, RiskAssumption
    <2>. QED
        BY <1>2, <2>2, <2>3 DEF FloorSince
<1>8. FloorHolds
    <2>1. lastOpen = [peak |-> 0, history |-> NoHistory, consent |-> TRUE]
        BY DEF Init
    <2>2. Floor + lastOpen.history.others + lastOpen.history.stake + lastOpen.history.slipped = balance
        BY <1>2, <1>6, <2>1 DEF NoHistory
    <2>3. 100 * PointValue * balance >= 0
        BY <1>2, RiskAssumption
    <2>4. ((100 - MaxDrawdown) * PointValue
             - lastOpen.history.opens * MaxRiskPerTrade * PointWorth) * lastOpen.peak = 0
        <3>1. (100 - MaxDrawdown) * PointValue \in Int /\ lastOpen.history.opens = 0
              /\ lastOpen.peak = 0 /\ MaxRiskPerTrade \in Int /\ PointWorth \in Int
            BY <2>1, RiskAssumption, AccountAssumption DEF NoHistory
        <3>. QED
            BY <3>1
    <2>. QED
        BY <2>2, <2>3, <2>4 DEF FloorHolds
<1>9. PositionsInMarket /\ UnusedFlat /\ NewestShown
    BY <1>1 DEF PositionsInMarket, UnusedFlat, NewestShown, Open
<1>. QED
    BY <1>5, <1>7, <1>8, <1>9 DEF Init, RiskInv, AiConsulted

\* The market moves between the stops and the targets.
LEMMA PriceMovesInv == RiskInv /\ PriceMoves => RiskInv'
<1>. SUFFICES ASSUME RiskInv, PriceMoves PROVE RiskInv'
    OBVIOUS
<1>1. /\ TypeOK /\ price' \in Price
      /\ UNCHANGED <<balance, positions, status, saved, since, lastOpen, trades>>
    BY DEF RiskInv, PriceMoves
<1>2. TypeOK' /\ UnusedFlat' /\ NewestShown' /\ AiConsulted'
    BY <1>1 DEF RiskInv, TypeOK, UnusedFlat, NewestShown, AiConsulted, Open
<1>3. FloorSince' /\ FloorHolds'
    BY <1>1 DEF RiskInv, FloorSince, FloorHolds, Floor
<1>4. PositionsInMarket'
    BY <1>1 DEF RiskInv, PositionsInMarket, PriceMoves, Open
<1>. QED
    BY <1>2, <1>3, <1>4 DEF RiskInv

\* A close at the stop or beyond it, in full or in part, does not lower the floor.
LEMMA ClosedFacts ==
    ASSUME RiskInv, NEW k \in Ticket, Open(k), NEW w \in 1..positions[k].volume, NEW level \in Int,
           \/ level = positions[k].stop
           \/ Beyond(positions[k].side, level, positions[k].stop),
           ClosedAt(k, level, w), UNCHANGED <<price, status, since, lastOpen, trades>>
    PROVE  /\ balance' \in Int /\ positions' \in [Ticket -> Position]
           /\ PositionsInMarket' /\ UnusedFlat' /\ NewestShown' /\ FloorSince' /\ FloorHolds'
           /\ AiConsulted'
<1>. DEFINE p == positions[k]
            v == p.volume
<1>1. /\ TypeOK /\ positions \in [Ticket -> Position] /\ balance \in Int
      /\ p \in Position /\ p.side \in Side /\ p.stop \in Int /\ p.initial_stop \in Int
      /\ v \in Nat /\ w \in Nat /\ w <= v /\ v - w \in Nat /\ Worst(p) \in Int
    BY PositionFields DEF RiskInv, TypeOK
<1>2. level = p.initial_stop \/ Beyond(p.side, level, p.initial_stop)
    BY <1>1 DEF RiskInv, PositionsInMarket, Beyond, Side
<1>3. /\ Profit(p, level, w) \in Int
      /\ Profit(p, level, w) >= Profit(p, p.initial_stop, w)
      /\ Profit(p, p.initial_stop, w) \in Int /\ Profit(p, p.initial_stop, v - w) \in Int
      /\ Worst(p) = Profit(p, p.initial_stop, w) + Profit(p, p.initial_stop, v - w)
    BY <1>1, <1>2, ProfitFacts DEF Worst
<1>4. balance' = balance + Profit(p, level, w) /\ balance' \in Int
    BY <1>1, <1>3 DEF ClosedAt
<1>. DEFINE q == IF w = v THEN Flat ELSE [p EXCEPT !.volume = @ - w]
<1>5. positions' = [positions EXCEPT ![k] = q]
    BY <1>1 DEF ClosedAt
<1>6. /\ q \in Position /\ Worst(q) = Profit(p, p.initial_stop, v - w)
      /\ q.volume <= v
      /\ q.volume > 0 => /\ q.side = p.side /\ q.stop = p.stop /\ q.target = p.target
                         /\ q.initial_stop = p.initial_stop
    <2>1. CASE w = v
        <3>1. v - w = 0
            BY <1>1, <2>1
        <3>2. Profit(p, p.initial_stop, v - w) = 0
            BY <1>1, <3>1, ProfitFacts
        <3>3. q = Flat
            BY <2>1
        <3>. HIDE DEF q
        <3>. QED
            BY <1>1, <3>2, <3>3, FlatFields
    <2>2. CASE w # v
        <3>1. q = [p EXCEPT !.volume = v - w]
            BY <2>2
        <3>. HIDE DEF q
        <3>2. /\ q \in Position /\ q.volume = v - w /\ q.initial_stop = p.initial_stop
              /\ q.side = p.side /\ q.entry = p.entry /\ q.stop = p.stop /\ q.target = p.target
            BY <1>1, <3>1 DEF Position
        <3>3. Worst(q) = Profit(p, p.initial_stop, v - w)
            BY <3>2 DEF Worst, Profit
        <3>. QED
            BY <1>1, <3>2, <3>3
    <2>. QED
        BY <2>1, <2>2
<1>. HIDE DEF q
<1>7. positions' \in [Ticket -> Position] /\ positions'[k] = q
      /\ \A t \in Ticket : t # k => positions'[t] = positions[t]
    BY <1>1, <1>5, <1>6
<1>8. Floor \in Int /\ Floor' \in Int /\ Floor' >= Floor
    <2>. DEFINE d == Worst(q) - Worst(p)
    <2>1. d \in Int /\ d = -Profit(p, p.initial_stop, w) /\ Worst(q) = Worst(p) + d
        BY <1>1, <1>3, <1>6
    <2>. HIDE DEF d
    <2>2. Worst(positions'[k]) >= Worst(positions[k]) + d
        BY <1>1, <1>3, <1>6, <1>7, <2>1
    <2>3. Floor \in Int /\ Floor' \in Int /\ Floor' >= Floor + (balance' - balance) + d
        BY <1>1, <1>4, <1>7, <2>1, <2>2, FloorChanges
    <2>. QED
        BY <1>1, <1>3, <1>4, <2>1, <2>3
<1>9. FloorSince' /\ FloorHolds'
    BY <1>8, FloorKept
<1>10. \A t \in Ticket : positions'[t].volume > 0 =>
         /\ positions[t].volume > 0
         /\ positions'[t].side = positions[t].side /\ positions'[t].stop = positions[t].stop
         /\ positions'[t].target = positions[t].target
         /\ positions'[t].initial_stop = positions[t].initial_stop
    <2>. TAKE t \in Ticket
    <2>1. CASE t = k
        <3>1. q.volume \in Nat
            BY <1>6 DEF Position
        <3>. QED
            BY <1>1, <1>6, <1>7, <2>1, <3>1
    <2>2. CASE t # k
        BY <1>7, <2>2
    <2>. QED
        BY <2>1, <2>2
<1>11. PositionsInMarket'
    BY <1>10 DEF RiskInv, PositionsInMarket, Open
<1>12. NewestShown'
    BY <1>10 DEF RiskInv, NewestShown, Open
<1>13. UnusedFlat'
    <2>. SUFFICES ASSUME NEW t \in Ticket, t > trades PROVE positions'[t].volume = 0
        BY DEF UnusedFlat
    <2>1. positions[t].volume = 0
        BY DEF RiskInv, UnusedFlat
    <2>2. positions'[t].volume \in Nat
        BY <1>7 DEF Position
    <2>. QED
        BY <1>10, <2>1, <2>2
<1>14. AiConsulted'
    BY DEF RiskInv, AiConsulted
<1>. QED
    BY <1>4, <1>7, <1>9, <1>11, <1>12, <1>13, <1>14

\* The terminal fills a stop or a target.
LEMMA LevelFilledInv == RiskInv /\ LevelFilled => RiskInv'
<1>. SUFFICES ASSUME RiskInv, LevelFilled PROVE RiskInv'
    OBVIOUS
<1>1. TypeOK /\ UNCHANGED <<price, status, saved, since, lastOpen, trades>>
    BY DEF RiskInv, LevelFilled
<1>1a. PICK k \in Ticket :
         /\ Open(k)
         /\ \E level \in {positions[k].stop, positions[k].target} :
               ClosedAt(k, level, positions[k].volume)
    BY DEF LevelFilled
<1>2. PICK level \in {positions[k].stop, positions[k].target} :
        Open(k) /\ ClosedAt(k, level, positions[k].volume)
    BY <1>1a
<1>3. /\ positions[k].side \in Side /\ positions[k].stop \in Int /\ positions[k].target \in Int
      /\ positions[k].volume \in Nat /\ price \in Int
    BY <1>1, PositionFields, RiskAssumption, AccountAssumption DEF TypeOK, Price
<1>4. level \in Int /\ positions[k].volume \in 1..positions[k].volume
    BY <1>2, <1>3 DEF Open
<1>5. level = positions[k].stop \/ Beyond(positions[k].side, level, positions[k].stop)
    <2>1. /\ Beyond(positions[k].side, price, positions[k].stop)
          /\ Beyond(positions[k].side, positions[k].target, price)
        BY <1>2 DEF RiskInv, PositionsInMarket
    <2>. QED
        BY <1>2, <1>3, <2>1 DEF Beyond
<1>6. /\ balance' \in Int /\ positions' \in [Ticket -> Position]
      /\ PositionsInMarket' /\ UnusedFlat' /\ NewestShown' /\ FloorSince' /\ FloorHolds'
      /\ AiConsulted'
    BY <1>1, <1>2, <1>4, <1>5, ClosedFacts
<1>7. TypeOK'
    BY <1>1, <1>6 DEF TypeOK
<1>. QED
    BY <1>6, <1>7 DEF RiskInv

\* The newest ticket is a ticket, and none only when no position is open.
LEMMA NewestFacts ==
    ASSUME positions \in [Ticket -> Position]
    PROVE  NewestTicket \in 0..MaxTrades /\ ((\E t \in Ticket : Open(t)) => NewestTicket # 0)
<1>. DEFINE Newest(n, t) == /\ t = 0 \/ positions[t].volume > 0
                            /\ \A u \in Ticket : u > t /\ u <= n => positions[u].volume = 0
            S == {n \in Nat : n <= MaxTrades => \E t \in 0..MaxTrades : Newest(n, t)}
<1>1. MaxTrades \in Nat /\ 0 \in 0..MaxTrades
    BY AccountAssumption
<1>2. 0 \in S
    <2>1. Newest(0, 0)
        BY DEF Ticket
    <2>. QED
        BY <1>1, <2>1
<1>3. ASSUME NEW n \in S PROVE n + 1 \in S
    <2>1. SUFFICES ASSUME n + 1 <= MaxTrades PROVE \E t \in 0..MaxTrades : Newest(n + 1, t)
        OBVIOUS
    <2>2. n \in Nat /\ n <= MaxTrades /\ n + 1 \in Ticket /\ n + 1 \in 0..MaxTrades
        BY <1>1, <2>1 DEF Ticket
    <2>3. PICK t \in 0..MaxTrades : Newest(n, t)
        BY <2>2
    <2>4. positions[n + 1].volume \in Nat
        BY <2>2 DEF Position
    <2>5. CASE positions[n + 1].volume > 0
        <3>1. Newest(n + 1, n + 1)
            BY <2>2, <2>5 DEF Ticket
        <3>. QED
            BY <2>2, <3>1
    <2>6. CASE positions[n + 1].volume = 0
        <3>1. ASSUME NEW u \in Ticket, u > t, u <= n + 1 PROVE positions[u].volume = 0
            <4>1. u = n + 1 \/ u <= n
                BY <2>2, <3>1 DEF Ticket
            <4>. QED
                BY <2>3, <2>6, <3>1, <4>1
        <3>2. Newest(n + 1, t)
            BY <2>3, <3>1
        <3>. QED
            BY <3>2
    <2>. QED
        BY <2>4, <2>5, <2>6
<1>4. MaxTrades \in S
    <2>1. S \in SUBSET Nat
        OBVIOUS
    <2>. HIDE DEF S
    <2>. QED
        BY <1>1, <1>2, <1>3, <2>1, Induction
<1>5. PICK t \in 0..MaxTrades : Newest(MaxTrades, t)
    BY <1>1, <1>4
<1>. DEFINE IsNewest(z) == /\ z = 0 \/ positions[z].volume > 0
                           /\ \A u \in Ticket : u > z => positions[u].volume = 0
<1>6. IsNewest(t)
    BY <1>1, <1>5 DEF Ticket
<1>7. NewestTicket \in 0..MaxTrades /\ IsNewest(NewestTicket)
    BY <1>6 DEF NewestTicket
<1>8. ASSUME NewestTicket = 0, NEW u \in Ticket PROVE ~Open(u)
    BY <1>7, <1>8 DEF Ticket, Open
<1>. QED
    BY <1>7, <1>8

\* An export starts the history anew; it touches nothing else.
LEMMA ExportInv == RiskInv /\ Export => RiskInv'
<1>. SUFFICES ASSUME RiskInv, Export PROVE RiskInv'
    OBVIOUS
<1>1. TypeOK /\ PositionsInMarket /\ UNCHANGED <<price, balance, positions, saved, lastOpen, trades>>
    BY DEF RiskInv, Export
<1>2. Equity \in Int /\ Floor \in Int /\ balance \in Int
    BY <1>1, EquityAboveFloor DEF TypeOK
<1>3. PICK tradeable \in BOOLEAN, others \in OthersShares :
        /\ status' = [tradeable |-> tradeable, ticket |-> NewestTicket,
                      balance |-> balance + others, equity |-> Equity + others]
        /\ since' = [others |-> others, stake |-> Equity - Floor, opens |-> 0, slipped |-> 0]
    BY DEF Export
<1>4. others \in Int
    BY AccountAssumption
<1>5. NewestTicket \in 0..MaxTrades /\ ((\E t \in Ticket : Open(t)) => NewestTicket # 0)
    BY <1>1, NewestFacts DEF TypeOK
<1>6. status' \in Status /\ since' \in History
    BY <1>2, <1>3, <1>4, <1>5 DEF Status, History
<1>7. TypeOK'
    BY <1>1, <1>6 DEF TypeOK
<1>8. PositionsInMarket' /\ UnusedFlat' /\ AiConsulted'
    BY <1>1 DEF RiskInv, PositionsInMarket, UnusedFlat, AiConsulted, Open
<1>9. FloorHolds'
    BY <1>1 DEF RiskInv, FloorHolds, Floor
<1>10. NewestShown'
    <2>1. status'.ticket = NewestTicket
        BY <1>3
    <2>. QED
        BY <1>1, <1>5, <2>1 DEF NewestShown, Open
<1>11. FloorSince'
    <2>1. Floor' = Floor
        BY <1>1 DEF Floor
    <2>2. /\ status'.equity = Equity + others /\ since'.others = others /\ since'.opens = 0
          /\ since'.stake = Equity - Floor /\ since'.slipped = 0
        BY <1>3
    <2>3. Floor' + since'.others + since'.stake + since'.slipped = Equity + others
        BY <1>2, <1>4, <2>1, <2>2
    <2>4. since'.opens * (MaxRiskPerTrade * PointWorth) * status'.equity = 0
        BY <1>2, <1>4, <2>2, RiskAssumption, AccountAssumption
    <2>5. 100 * PointValue * (Equity + others) \in Int
        BY <1>2, <1>4, RiskAssumption
    <2>. QED
        BY <2>2, <2>3, <2>4, <2>5 DEF FloorSince
<1>. QED
    BY <1>7, <1>8, <1>9, <1>10, <1>11 DEF RiskInv

\* What a cycle makes of the saved metrics are metrics, with any ticket.
LEMMA CurrentFacts ==
    ASSUME TypeOK
    PROVE  /\ Current \in Metrics
           /\ Current.peak_equity >= status.equity
           /\ \A t \in 0..MaxTrades : [Current EXCEPT !.ticket = t] \in Metrics
<1>1. Current \in Metrics /\ Current.peak_equity >= status.equity
    BY ReconciledFacts DEF TypeOK, Current
<1>. QED
    BY <1>1 DEF Metrics

\* A cycle that ends without an order leaves the account alone.
LEMMA QuietInv == RiskInv /\ (CycleEnds \/ UNCHANGED vars) => RiskInv'
<1>. SUFFICES ASSUME RiskInv, CycleEnds \/ UNCHANGED vars PROVE RiskInv'
    OBVIOUS
<1>1. TypeOK /\ UNCHANGED <<price, balance, positions, status, since, lastOpen, trades>>
    BY DEF RiskInv, CycleEnds, vars
<1>2. saved' \in Metrics
    BY <1>1, CurrentFacts DEF CycleEnds, vars, TypeOK
<1>3. TypeOK'
    BY <1>1, <1>2 DEF TypeOK
<1>4. PositionsInMarket' /\ UnusedFlat' /\ NewestShown' /\ AiConsulted'
    BY <1>1 DEF RiskInv, PositionsInMarket, UnusedFlat, NewestShown, AiConsulted, Open
<1>5. FloorSince' /\ FloorHolds'
    BY <1>1 DEF RiskInv, FloorSince, FloorHolds, Floor
<1>. QED
    BY <1>3, <1>4, <1>5 DEF RiskInv

\* The risk of one trade, in the units of the bounds.
LEMMA RiskOfOpen ==
    ASSUME NEW e \in Nat, NEW volume \in Nat, NEW distance \in Nat,
           100 * (volume * PointValue * distance) <= e * MaxRiskPerTrade
    PROVE  100 * PointValue * (volume * PointWorth * distance)
             <= (MaxRiskPerTrade * PointWorth) * e
<1>1. /\ PointValue \in Nat /\ PointWorth \in Nat /\ MaxRiskPerTrade \in Nat
    BY RiskAssumption, AccountAssumption
<1>. DEFINE sized == 100 * (volume * PointValue * distance)
            allowed == e * MaxRiskPerTrade
<1>2. sized \in Int /\ allowed \in Int
    BY <1>1
<1>3. /\ 100 * PointValue * (volume * PointWorth * distance) = PointWorth * sized
      /\ (MaxRiskPerTrade * PointWorth) * e = PointWorth * allowed
    BY <1>1
<1>4. allowed >= sized
    OBVIOUS
<1>. HIDE DEF sized, allowed
<1>5. PointWorth * allowed >= PointWorth * sized
    BY <1>1, <1>2, <1>4, TimesMonotone
<1>6. PointWorth * allowed \in Int /\ PointWorth * sized \in Int
    BY <1>1, <1>2
<1>. QED
    BY <1>3, <1>5, <1>6

\* What the equity of the status bounds, the peak bounds, after any number of OPENs.
LEMMA PeakBounds ==
    ASSUME NEW e \in Nat, NEW peak \in Nat, NEW k \in Nat, peak >= e,
           100 * e >= (100 - MaxDrawdown) * peak
    PROVE  100 * PointValue * e - k * (MaxRiskPerTrade * PointWorth) * e
             >= ((100 - MaxDrawdown) * PointValue - k * MaxRiskPerTrade * PointWorth) * peak
<1>. DEFINE rest == 100 - MaxDrawdown
            risk == k * (MaxRiskPerTrade * PointWorth)
<1>1. /\ PointValue \in Nat /\ rest \in Int /\ MaxRiskPerTrade \in Nat /\ PointWorth \in Nat
    BY RiskAssumption, AccountAssumption
<1>2. MaxRiskPerTrade * PointWorth \in Nat
    BY <1>1
<1>3. risk \in Nat
    <2>. DEFINE r == MaxRiskPerTrade * PointWorth
    <2>1. k * r \in Nat
        <3>. HIDE DEF r
        <3>1. r \in Nat
            BY <1>2 DEF r
        <3>. QED
            BY <3>1
    <2>. QED
        BY <2>1
<1>4. k * MaxRiskPerTrade * PointWorth = risk
    BY <1>1
<1>. HIDE DEF rest, risk
<1>5. PointValue * (100 * e) >= PointValue * (rest * peak)
    BY <1>1, TimesMonotone DEF rest
<1>6. risk * peak >= risk * e
    BY <1>3, TimesMonotone
<1>7. /\ PointValue * (100 * e) = 100 * PointValue * e
      /\ (rest * PointValue - risk) * peak = PointValue * (rest * peak) - risk * peak
    BY <1>1, <1>3
<1>8. /\ PointValue * (100 * e) \in Int /\ PointValue * (rest * peak) \in Int
      /\ risk * peak \in Int /\ risk * e \in Int
    BY <1>1, <1>3
<1>9. 100 * PointValue * e - risk * e >= (rest * PointValue - risk) * peak
    BY <1>5, <1>6, <1>7, <1>8
<1>. QED
    BY <1>4, <1>9 DEF rest, risk

\* An OPEN is judged without a position in the instance's books, and costs the floor no
\* more than the risk of one trade and what the price has moved.
LEMMA CycleOpensInv == RiskInv /\ CycleOpens => RiskInv' /\ Current.ticket = 0
<1>. SUFFICES ASSUME RiskInv, CycleOpens PROVE RiskInv' /\ Current.ticket = 0
    OBVIOUS
<1>1. /\ TypeOK /\ UNCHANGED <<price, balance, status>> /\ trades < MaxTrades
      /\ trades' = trades + 1 /\ trades \in Nat /\ MaxTrades \in Nat
    BY AccountAssumption DEF RiskInv, CycleOpens, TypeOK
<1>2. PICK close \in Price : \E market \in MarketAt(close), side \in Side, query \in Query :
          LET stop   == CandidateStop(side, market)
              target == CandidateTarget(side, market)
              volume == VolumeFor(status.equity, Gain(side, close, stop))
          IN  /\ Opens(side, market, query, Current, status)
              /\ Asks(market, query)
              /\ Beyond(side, price, stop) /\ Beyond(side, target, price)
              /\ positions' = [positions EXCEPT ![trades + 1] =
                                 [side |-> side, entry |-> price, initial_stop |-> stop,
                                  stop |-> stop, target |-> target, volume |-> volume]]
              /\ since' = [since EXCEPT !.opens = @ + 1,
                                        !.slipped = @ + volume * PointWorth * Gain(side, price, close)]
              /\ lastOpen' = [peak |-> Current.peak_equity, history |-> since',
                              consent |-> query.kind = "answered" /\ AnswerAllows(side, query.answer)]
    BY DEF CycleOpens
<1>3. PICK market \in MarketAt(close), side \in Side, query \in Query :
          LET stop   == CandidateStop(side, market)
              target == CandidateTarget(side, market)
              volume == VolumeFor(status.equity, Gain(side, close, stop))
          IN  /\ Opens(side, market, query, Current, status)
              /\ Asks(market, query)
              /\ Beyond(side, price, stop) /\ Beyond(side, target, price)
              /\ positions' = [positions EXCEPT ![trades + 1] =
                                 [side |-> side, entry |-> price, initial_stop |-> stop,
                                  stop |-> stop, target |-> target, volume |-> volume]]
              /\ since' = [since EXCEPT !.opens = @ + 1,
                                        !.slipped = @ + volume * PointWorth * Gain(side, price, close)]
              /\ lastOpen' = [peak |-> Current.peak_equity, history |-> since',
                              consent |-> query.kind = "answered" /\ AnswerAllows(side, query.answer)]
    BY <1>2
<1>. DEFINE stop     == CandidateStop(side, market)
            target   == CandidateTarget(side, market)
            distance == Gain(side, close, stop)
            volume   == VolumeFor(status.equity, distance)
            moved    == Gain(side, price, close)
            new      == [side |-> side, entry |-> price, initial_stop |-> stop,
                         stop |-> stop, target |-> target, volume |-> volume]
            given    == query.kind = "answered" /\ AnswerAllows(side, query.answer)
            e        == status.equity
<1>4. /\ price \in Price /\ price \in Level /\ price \in Int /\ close \in Int /\ status \in Status
    BY <1>1, RiskAssumption, AccountAssumption DEF TypeOK, Price, Level
<1>5. /\ Current \in Metrics /\ Current.peak_equity >= status.equity
      /\ \A t \in 0..MaxTrades : [Current EXCEPT !.ticket = t] \in Metrics
    BY <1>1, CurrentFacts
<1>6. Opens(side, market, query, Current, status) /\ Asks(market, query)
      /\ Beyond(side, price, stop) /\ Beyond(side, target, price)
    BY <1>3
<1>7. /\ Current.ticket = 0
      /\ stop \in Level /\ target \in Level /\ volume \in Nat /\ distance \in Nat
      /\ e \in Nat /\ Current.peak_equity \in Nat
      /\ 100 * (volume * PointValue * distance) <= e * MaxRiskPerTrade
      /\ 100 * e >= (100 - MaxDrawdown) * Current.peak_equity
    BY <1>4, <1>5, <1>6, OpenFacts
<1>8. /\ positions' = [positions EXCEPT ![trades + 1] = new]
      /\ since' = [since EXCEPT !.opens = @ + 1, !.slipped = @ + volume * PointWorth * moved]
      /\ lastOpen' = [peak |-> Current.peak_equity, history |-> since', consent |-> given]
    BY <1>3
<1>9. distance = Gain(side, close, stop) /\ moved = Gain(side, price, close)
    OBVIOUS
<1>10. given \in BOOLEAN /\ e = status.equity
    OBVIOUS
<1>11. AiMode = "required" \/ FailClosed => given
    BY <1>4, <1>5, <1>6, OpenHasConsent DEF Asks
<1>12. new = [side |-> side, entry |-> price, initial_stop |-> stop,
              stop |-> stop, target |-> target, volume |-> volume]
    OBVIOUS
<1>. HIDE DEF stop, target, volume, distance, moved, new, given, e
<1>13. new \in Position
    BY <1>4, <1>7, <1>12 DEF Position
<1>14. trades + 1 \in Ticket /\ trades + 1 \in 0..MaxTrades
    BY <1>1 DEF Ticket
<1>15. /\ positions' \in [Ticket -> Position] /\ positions'[trades + 1] = new
       /\ \A t \in Ticket : t # trades + 1 => positions'[t] = positions[t]
    BY <1>1, <1>8, <1>13, <1>14 DEF TypeOK
<1>16. stop \in Int /\ moved \in Int /\ distance \in Int /\ PointWorth \in Nat /\ PointValue \in Nat
       /\ Gain(side, stop, price) = -(distance + moved)
    <2>1. stop \in Int /\ PointWorth \in Nat /\ PointValue \in Nat
        BY <1>7, RiskAssumption, AccountAssumption DEF Level
    <2>. QED
        BY <1>4, <1>9, <2>1 DEF Gain
<1>17. volume * PointWorth * distance \in Nat /\ volume * PointWorth * moved \in Int
    BY <1>7, <1>16
<1>18. Worst(new) = -(volume * PointWorth * distance) - volume * PointWorth * moved
    <2>1. Worst(new) = volume * PointWorth * Gain(side, stop, price)
        BY <1>12 DEF Worst, Profit
    <2>. QED
        BY <1>7, <1>16, <2>1
<1>19. since' \in History /\ since'.opens = since.opens + 1 /\ since'.others = since.others
       /\ since'.stake = since.stake /\ since'.slipped = since.slipped + volume * PointWorth * moved
    <2>. DEFINE slip == volume * PointWorth * moved
    <2>1. since \in History
        BY <1>1 DEF TypeOK
    <2>2. since' = [since EXCEPT !.opens = @ + 1, !.slipped = @ + slip]
        BY <1>8
    <2>3. slip \in Int
        BY <1>17
    <2>. HIDE DEF slip
    <2>4. /\ since = [others |-> since.others, stake |-> since.stake, opens |-> since.opens,
                     slipped |-> since.slipped]
          /\ since.others \in Int /\ since.stake \in Int
          /\ since.opens \in Nat /\ since.slipped \in Int
        BY <2>1 DEF History
    <2>5. since' = [others |-> since.others, stake |-> since.stake, opens |-> since.opens + 1,
                    slipped |-> since.slipped + slip]
        BY <2>2, <2>4
    <2>6. since.opens + 1 \in Nat /\ since.slipped + slip \in Int
        BY <2>3, <2>4
    <2>7. since' \in History
        BY <2>4, <2>5, <2>6 DEF History
    <2>. QED
        BY <2>5, <2>7 DEF slip
<1>20. TypeOK'
    <2>1. saved' \in Metrics
        BY <1>1, <1>5, <1>14 DEF CycleOpens, TypeOK
    <2>2. lastOpen' \in [peak : Nat, history : History, consent : BOOLEAN]
        BY <1>7, <1>8, <1>10, <1>19
    <2>. QED
        BY <1>1, <1>14, <1>15, <1>19, <2>1, <2>2 DEF TypeOK
<1>21. PositionsInMarket'
    <2>. SUFFICES ASSUME NEW t \in Ticket, positions'[t].volume > 0
                  PROVE  /\ Beyond(positions'[t].side, price, positions'[t].stop)
                         /\ Beyond(positions'[t].side, positions'[t].target, price)
                         /\ \/ positions'[t].stop = positions'[t].initial_stop
                            \/ Beyond(positions'[t].side, positions'[t].stop,
                                      positions'[t].initial_stop)
        BY <1>1 DEF PositionsInMarket, Open
    <2>1. CASE t = trades + 1
        BY <1>6, <1>12, <1>15, <2>1
    <2>2. CASE t # trades + 1
        BY <1>15, <2>2 DEF RiskInv, PositionsInMarket, Open
    <2>. QED
        BY <2>1, <2>2
<1>22. UnusedFlat'
    <2>. SUFFICES ASSUME NEW t \in Ticket, t > trades + 1 PROVE positions'[t].volume = 0
        BY <1>1 DEF UnusedFlat
    <2>1. t # trades + 1 /\ t > trades
        BY <1>1 DEF Ticket
    <2>. QED
        BY <1>15, <2>1 DEF RiskInv, UnusedFlat
<1>23. NewestShown'
    BY <1>1, <1>19, HistoryInt DEF NewestShown
<1>24. Floor \in Int /\ Floor' \in Int /\ Floor' >= Floor + Worst(new)
    <2>1. positions[trades + 1].volume = 0 /\ positions[trades + 1] \in Position
        BY <1>1, <1>14 DEF RiskInv, UnusedFlat, TypeOK
    <2>2. Worst(positions[trades + 1]) = 0
        BY <2>1, PositionFields, ProfitFacts DEF Worst
    <2>3. Worst(new) \in Int
        BY <1>4, <1>13, PositionFields
    <2>4. Worst(positions'[trades + 1]) >= Worst(positions[trades + 1]) + Worst(new)
        BY <1>15, <2>2, <2>3
    <2>5. balance \in Int /\ balance' \in Int
        BY <1>1 DEF TypeOK
    <2>6. Floor \in Int /\ Floor' \in Int /\ Floor' >= Floor + (balance' - balance) + Worst(new)
        BY <1>1, <1>14, <1>15, <2>3, <2>4, <2>5, FloorChanges
    <2>. QED
        BY <1>1, <2>3, <2>5, <2>6
<1>25. FloorSince'
    <2>. DEFINE before == Floor + since.others + since.stake + since.slipped
                after  == Floor' + since'.others + since'.stake + since'.slipped
                lost   == volume * PointWorth * distance
                risk   == MaxRiskPerTrade * PointWorth
    <2>1. before \in Int /\ after \in Int /\ lost \in Int /\ after >= before - lost
        BY <1>1, <1>17, <1>18, <1>19, <1>24, HistoryInt
    <2>2. 100 * PointValue * lost <= risk * e
        BY <1>7, RiskOfOpen
    <2>3. 100 * PointValue * before >= 100 * PointValue * e - since.opens * risk * e
        BY <1>10 DEF RiskInv, FloorSince
    <2>4. risk \in Nat /\ since.opens \in Nat
        BY <1>1, HistoryInt, RiskAssumption, AccountAssumption
    <2>5. since'.opens * risk * e = since.opens * risk * e + risk * e
        <3>1. (since.opens + 1) * risk * e = since.opens * risk * e + risk * e
            BY <1>7, <2>4
        <3>. QED
            BY <1>19, <3>1
    <2>. HIDE DEF before, after, lost, risk
    <2>6. 100 * PointValue * after >= 100 * PointValue * (before - lost)
        BY <2>1, SizedMonotone
    <2>7. 100 * PointValue * (before - lost) = 100 * PointValue * before - 100 * PointValue * lost
        BY <1>16, <2>1
    <2>8. /\ 100 * PointValue * after \in Int /\ 100 * PointValue * before \in Int
          /\ 100 * PointValue * lost \in Int /\ 100 * PointValue * e \in Int
          /\ since.opens * risk * e \in Int /\ risk * e \in Int
        BY <1>7, <1>16, <2>1, <2>4
    <2>9. 100 * PointValue * after >= 100 * PointValue * e - since'.opens * risk * e
        BY <2>2, <2>3, <2>5, <2>6, <2>7, <2>8
    <2>. QED
        BY <1>1, <1>10, <2>9 DEF FloorSince, after, risk
<1>26. FloorHolds'
    <2>. DEFINE left     == 100 * PointValue * (Floor' + since'.others + since'.stake + since'.slipped)
                middle   == 100 * PointValue * e - since'.opens * (MaxRiskPerTrade * PointWorth) * e
                promised == ((100 - MaxDrawdown) * PointValue
                               - since'.opens * MaxRiskPerTrade * PointWorth) * Current.peak_equity
    <2>1. left >= middle
        BY <1>1, <1>10, <1>25 DEF FloorSince
    <2>2. since'.opens \in Nat
        BY <1>1, <1>19, HistoryInt
    <2>3. middle >= promised
        BY <1>5, <1>7, <1>10, <2>2, PeakBounds
    <2>4. left \in Int /\ middle \in Int /\ promised \in Int
        <3>1. /\ Floor' + since'.others + since'.stake + since'.slipped \in Int
            BY <1>1, <1>17, <1>19, <1>24, HistoryInt
        <3>2. left \in Int
            BY <1>16, <3>1
        <3>3. MaxRiskPerTrade \in Nat /\ 100 - MaxDrawdown \in Int
            BY RiskAssumption
        <3>4. middle \in Int
            BY <1>7, <1>16, <2>2, <3>3
        <3>5. (100 - MaxDrawdown) * PointValue - since'.opens * MaxRiskPerTrade * PointWorth \in Int
            BY <1>16, <2>2, <3>3
        <3>6. promised \in Int
            BY <1>7, <3>5
        <3>. QED
            BY <3>2, <3>4, <3>6
    <2>5. left >= promised
        <3>. HIDE DEF left, middle, promised
        <3>. QED
            BY <2>1, <2>3, <2>4
    <2>6. lastOpen'.history = since' /\ lastOpen'.peak = Current.peak_equity
        BY <1>8
    <2>. QED
        BY <2>5, <2>6 DEF FloorHolds
<1>27. AiConsulted'
    <2>1. lastOpen'.consent = given
        BY <1>8
    <2>. QED
        BY <1>11, <2>1 DEF AiConsulted
<1>. QED
    BY <1>7, <1>20, <1>21, <1>22, <1>23, <1>25, <1>26, <1>27 DEF RiskInv

\* Trade management closes at the market price, which is beyond the stop.
LEMMA CycleClosesInv == RiskInv /\ CycleCloses => RiskInv'
<1>. SUFFICES ASSUME RiskInv, CycleCloses PROVE RiskInv'
    OBVIOUS
<1>. DEFINE k == Current.ticket
<1>1. TypeOK /\ UNCHANGED <<price, status, since, lastOpen, trades>> /\ k # 0 /\ Open(k)
    BY DEF RiskInv, CycleCloses
<1>2. /\ Current \in Metrics
      /\ \A t \in 0..MaxTrades : [Current EXCEPT !.ticket = t] \in Metrics
    BY <1>1, CurrentFacts
<1>3. k \in Ticket /\ k \in 0..MaxTrades /\ 0 \in 0..MaxTrades
    BY <1>1, <1>2, AccountAssumption DEF Metrics, Ticket
<1>4. PICK w \in 1..positions[k].volume : ClosedAt(k, price, w)
    BY DEF CycleCloses
<1>5. saved' \in Metrics
    <2>1. PICK ticket \in {Current.ticket, 0} :
            saved' \in {[Current EXCEPT !.ticket = ticket], Current, saved}
        BY DEF CycleCloses
    <2>. QED
        BY <1>1, <1>2, <1>3, <2>1 DEF TypeOK
<1>6. price \in Int /\ Beyond(positions[k].side, price, positions[k].stop)
    BY <1>1, <1>3, RiskAssumption, AccountAssumption DEF RiskInv, PositionsInMarket, TypeOK, Price
<1>. HIDE DEF k
<1>7. /\ balance' \in Int /\ positions' \in [Ticket -> Position]
      /\ PositionsInMarket' /\ UnusedFlat' /\ NewestShown' /\ FloorSince' /\ FloorHolds'
      /\ AiConsulted'
    BY <1>1, <1>3, <1>4, <1>6, ClosedFacts
<1>8. TypeOK'
    BY <1>1, <1>5, <1>7 DEF TypeOK
<1>. QED
    BY <1>7, <1>8 DEF RiskInv

\* A moved stop is no further from profit than the first, which is what the floor
\* is computed from.
LEMMA CycleMovesStopInv == RiskInv /\ CycleMovesStop => RiskInv'
<1>. SUFFICES ASSUME RiskInv, CycleMovesStop PROVE RiskInv'
    OBVIOUS
<1>. DEFINE k == Current.ticket
            p == positions[k]
<1>1. /\ TypeOK /\ UNCHANGED <<price, balance, status, since, lastOpen, trades>>
      /\ k # 0 /\ Open(k)
    BY DEF RiskInv, CycleMovesStop
<1>2. k \in Ticket /\ p \in Position /\ positions \in [Ticket -> Position]
    <2>1. Current \in Metrics
        BY <1>1, CurrentFacts
    <2>2. k \in Ticket
        BY <1>1, <2>1, AccountAssumption DEF Metrics, Ticket
    <2>. QED
        BY <1>1, <2>2 DEF TypeOK
<1>3. PICK level \in Price : /\ Beyond(p.side, level, p.initial_stop)
                             /\ Beyond(p.side, price, level)
                             /\ positions' = [positions EXCEPT ![k].stop = level]
    BY DEF CycleMovesStop
<1>4. saved' \in Metrics
    BY <1>1, CurrentFacts DEF CycleMovesStop, TypeOK
<1>. HIDE DEF k
<1>. DEFINE q == [p EXCEPT !.stop = level]
<1>5. /\ q \in Position /\ q.stop = level /\ q.side = p.side /\ q.target = p.target
      /\ q.initial_stop = p.initial_stop /\ q.entry = p.entry /\ q.volume = p.volume
    BY <1>2, <1>3, RiskAssumption, AccountAssumption DEF Position, Level, Price
<1>6. positions' = [positions EXCEPT ![k] = q]
    BY <1>3
<1>. HIDE DEF q
<1>7. /\ positions' \in [Ticket -> Position] /\ positions'[k] = q
      /\ \A t \in Ticket : t # k => positions'[t] = positions[t]
    BY <1>2, <1>5, <1>6
<1>8. TypeOK'
    BY <1>1, <1>4, <1>7 DEF TypeOK
<1>9. \A t \in Ticket : positions'[t].volume = positions[t].volume
    BY <1>5, <1>7
<1>10. UnusedFlat' /\ NewestShown' /\ AiConsulted'
    BY <1>1, <1>9 DEF RiskInv, UnusedFlat, NewestShown, AiConsulted, Open
<1>11. PositionsInMarket'
    <2>. SUFFICES ASSUME NEW t \in Ticket, positions'[t].volume > 0
                  PROVE  /\ Beyond(positions'[t].side, price, positions'[t].stop)
                         /\ Beyond(positions'[t].side, positions'[t].target, price)
                         /\ \/ positions'[t].stop = positions'[t].initial_stop
                            \/ Beyond(positions'[t].side, positions'[t].stop,
                                      positions'[t].initial_stop)
        BY <1>1 DEF PositionsInMarket, Open
    <2>1. CASE t = k
        <3>1. Beyond(p.side, p.target, price)
            BY <1>1, <1>2 DEF RiskInv, PositionsInMarket
        <3>. QED
            BY <1>3, <1>5, <1>7, <2>1, <3>1
    <2>2. CASE t # k
        BY <1>7, <1>9, <2>2 DEF RiskInv, PositionsInMarket, Open
    <2>. QED
        BY <2>1, <2>2
<1>12. Floor \in Int /\ Floor' \in Int /\ Floor' >= Floor
    <2>1. Worst(q) = Worst(p) /\ Worst(p) \in Int
        <3>1. Worst(q) = Worst(p)
            BY <1>5 DEF Worst, Profit
        <3>. QED
            BY <1>2, <3>1, PositionFields
    <2>2. Worst(positions'[k]) >= Worst(positions[k]) + 0
        BY <1>7, <2>1
    <2>3. balance \in Int /\ balance' \in Int
        BY <1>1 DEF TypeOK
    <2>4. Floor \in Int /\ Floor' \in Int /\ Floor' >= Floor + (balance' - balance) + 0
        BY <1>1, <1>2, <1>7, <2>2, <2>3, FloorChanges
    <2>. QED
        BY <1>1, <2>3, <2>4
<1>13. FloorSince' /\ FloorHolds'
    BY <1>1, <1>12, FloorKept
<1>. QED
    BY <1>8, <1>10, <1>11, <1>13 DEF RiskInv

\* Every step keeps the invariant.
LEMMA NextInv == RiskInv /\ [Next]_vars => RiskInv'
BY PriceMovesInv, LevelFilledInv, ExportInv, QuietInv, CycleOpensInv, CycleClosesInv,
   CycleMovesStopInv
DEF Next

\* The invariant has the bound on the loss: the equity is above the floor.
LEMMA InvContainsLoss == RiskInv => LossContained
<1>. SUFFICES ASSUME RiskInv PROVE LossContained
    OBVIOUS
<1>. DEFINE history  == lastOpen.history
            rest     == history.others + history.stake + history.slipped
            promised == ((100 - MaxDrawdown) * PointValue
                           - history.opens * MaxRiskPerTrade * PointWorth) * lastOpen.peak
<1>1. TypeOK /\ Equity \in Int /\ Floor \in Int /\ Equity >= Floor
    BY EquityAboveFloor DEF RiskInv
<1>2. rest \in Int /\ promised \in Int
    BY <1>1, HistoryInt
<1>3. /\ Floor + history.others + history.stake + history.slipped = Floor + rest
      /\ Equity + history.others + history.stake + history.slipped = Equity + rest
    BY <1>1, HistoryInt
<1>4. 100 * PointValue * (Floor + rest) >= promised
    BY <1>3 DEF RiskInv, FloorHolds
<1>. HIDE DEF rest, promised
<1>5. 100 * PointValue * (Equity + rest) >= 100 * PointValue * (Floor + rest)
    BY <1>1, <1>2, SizedMonotone
<1>6. 100 * PointValue * (Equity + rest) \in Int /\ 100 * PointValue * (Floor + rest) \in Int
    BY <1>1, <1>2, RiskAssumption
<1>7. 100 * PointValue * (Equity + rest) >= promised
    BY <1>2, <1>4, <1>5, <1>6
<1>. QED
    BY <1>3, <1>7 DEF LossContained, promised

-----------------------------------------------------------------------------
(***************************************************************************)
(* The theorems                                                            *)
(***************************************************************************)
\* What the other theorems rest on: the cycles, the market and the status files
\* of one account keep the invariant.
THEOREM RiskInvariant == Spec => []RiskInv
<1>1. Init => RiskInv
    BY InitInv
<1>2. RiskInv /\ [Next]_vars => RiskInv'
    BY NextInv
<1>. QED
    BY <1>1, <1>2, PTL DEF Spec

\* Every variable keeps its type; no stop and no target sent to the terminal is 0.
THEOREM AccountTypes == Spec => []TypeOK
<1>1. RiskInv => TypeOK
    BY DEF RiskInv
<1>. QED
    BY <1>1, RiskInvariant, PTL

\* evaluate_risk_rules and calculate_position_size together, for every limit, every number
\* of positions and whatever a point is really worth.
THEOREM LossIsContained == Spec => []LossContained
BY InvContainsLoss, RiskInvariant, PTL

\* should_call_ai_layer never skips a question whose answer would have mattered.
THEOREM AiIsConsulted == Spec => []AiConsulted
<1>1. RiskInv => AiConsulted
    BY DEF RiskInv
<1>. QED
    BY <1>1, RiskInvariant, PTL

LEMMA OnlyOpensTrade ==
    ASSUME RiskInv, Next, trades' # trades
    PROVE  CycleOpens
BY DEF Next, PriceMoves, LevelFilled, Export, CycleEnds, CycleCloses, CycleMovesStop

\* reconcile_position_with_status: a second position needs a status that is older than an
\* OPEN, or a belief in another ticket than the newest.
THEOREM SecondPositionHasReason == Spec => OpensBesideAnother
<1>1. RiskInv /\ [Next]_vars
        => [trades' # trades /\ (\E t \in Ticket : Open(t))
              => since.opens > 0 \/ saved.ticket \notin {0, status.ticket}]_vars
    <2>. SUFFICES ASSUME RiskInv, Next, trades' # trades, \E t \in Ticket : Open(t),
                         saved.ticket \in {0, status.ticket}
                  PROVE  since.opens > 0
        OBVIOUS
    <2>1. Current.ticket = 0
        BY OnlyOpensTrade, CycleOpensInv
    <2>2. status.ticket = 0
        BY <2>1 DEF Current, Reconciled
    <2>3. since.opens # 0
        BY <2>2 DEF RiskInv, NewestShown
    <2>4. since.opens \in Nat
        BY HistoryInt DEF RiskInv
    <2>. QED
        BY <2>3, <2>4
<1>. QED
    BY <1>1, RiskInvariant, PTL DEF Spec, OpensBesideAnother

-----------------------------------------------------------------------------
(***************************************************************************)
(* What the daily limit does bound                                         *)
(***************************************************************************)
\* The first balance is kept in every saved state (update_risk_metrics of position_sync.py).
FirstBalanceKept == saved.day_start_balance = InitialBalance

\* NoOpenPastDailyLoss of MCDailyLoss fails from the second day on.  What holds on every day
\* is this: no OPEN is carried out by a status whose equity is past the limit from the very
\* first balance.
NoOpenPastLossSinceStart ==
    [][trades' # trades => LossBelow(InitialBalance, status.equity, MaxDailyLoss)]_vars

LEMMA FirstBalanceCurrent ==
    ASSUME FirstBalanceKept
    PROVE  Current.day_start_balance = InitialBalance
BY AccountAssumption DEF FirstBalanceKept, Current, Reconciled

\* The balance of the first status is the reference for ever.
THEOREM FirstBalanceForEver == Spec => []FirstBalanceKept
<1>1. Init => FirstBalanceKept
    BY AccountAssumption DEF Init, FirstBalanceKept, Reconciled
<1>2. FirstBalanceKept /\ [Next]_vars => FirstBalanceKept'
    <2>. SUFFICES ASSUME FirstBalanceKept, [Next]_vars PROVE FirstBalanceKept'
        OBVIOUS
    <2>1. Current.day_start_balance = InitialBalance
        BY FirstBalanceCurrent
    <2>2. \A t : [Current EXCEPT !.ticket = t].day_start_balance = InitialBalance
        BY <2>1 DEF Current, Reconciled
    <2>3. saved' = saved \/ saved' = Current \/ \E t : saved' = [Current EXCEPT !.ticket = t]
        BY DEF Next, vars, PriceMoves, LevelFilled, Export, CycleEnds, CycleOpens, CycleCloses,
               CycleMovesStop
    <2>. QED
        BY <2>1, <2>2, <2>3 DEF FirstBalanceKept
<1>. QED
    BY <1>1, <1>2, PTL DEF Spec

\* compute_daily_loss_percent and its rule, for every account and any number of days.
THEOREM DailyLimitCountsFromTheStart == Spec => NoOpenPastLossSinceStart
<1>1. RiskInv /\ FirstBalanceKept /\ [Next]_vars
        => [trades' # trades => LossBelow(InitialBalance, status.equity, MaxDailyLoss)]_vars
    <2>. SUFFICES ASSUME RiskInv, FirstBalanceKept, Next, trades' # trades
                  PROVE  LossBelow(InitialBalance, status.equity, MaxDailyLoss)
        OBVIOUS
    <2>1. CycleOpens
        BY OnlyOpensTrade
    <2>2. RulesAllow(Current, status)
        BY <2>1 DEF CycleOpens, Opens, RiskAllows
    <2>. QED
        BY <2>2, FirstBalanceCurrent DEF RulesAllow, DailyLossAllows
<1>. QED
    BY <1>1, RiskInvariant, FirstBalanceForEver, PTL DEF Spec, NoOpenPastLossSinceStart
=============================================================================
