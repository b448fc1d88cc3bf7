----------------------------- MODULE RiskControl -----------------------------
(***************************************************************************)
(* An account under the risk limits: the cycles of an instance that        *)
(* trades on it, what it saves of its position and of the equity, and the  *)
(* positions that the limits let it open.                                  *)
(*                                                                         *)
(* Other instances may trade on the account: an export has what they have  *)
(* won or lost by then in balance and equity, and nothing else of them is  *)
(* read, since their positions have another symbol or magic number.        *)
(*                                                                         *)
(* A cycle and the EA's answer to its command are one step.  Cycles run at *)
(* any time, the EA exports on a new M1 bar: the status may be older than  *)
(* an OPEN, and then a second position is opened beside the first.  The    *)
(* terminal, which is external, fills an OPEN at its price, a stop at its  *)
(* level, and leaves the ticket with the rest of a position that is closed *)
(* in part.  There is one price: the spread is left out.                   *)
(***************************************************************************)
EXTENDS TradeDecision

CONSTANTS
    InitialBalance,
    MaxPrice,        \* bound on prices
    PointWorth,      \* what a point of the smallest lot is worth to the account, in its currency
    OthersShares,    \* what the other instances of the account may have made or lost of it
    MaxTrades        \* bound on the OPENs carried out

ASSUME AccountAssumption ==
    /\ InitialBalance \in Nat \ {0} /\ MaxPrice \in Nat /\ MaxPrice > StopLossBuffer
    /\ PointWorth \in Nat \ {0}
    /\ OthersShares \subseteq Int /\ 0 \in OthersShares
    /\ MaxTrades \in Nat

\* Prices are above the buffer: no stop is 0, which the terminal takes for none.
Price == (StopLossBuffer + 1)..MaxPrice

\* What the decision engine makes of bars that end with this close.
MarketAt(close) == [close : {close},
                    swing_low : {p \in Price : p <= close}, swing_high : {p \in Price : p >= close},
                    filters_pass : BOOLEAN, buy_score : 0..1, sell_score : 0..1]

\* The positions of the terminal by ticket; volume 0: none, or none any more.
Ticket   == 1..MaxTrades
Level    == Nat \ {0}
Position == [side : Side, entry : Level, initial_stop : Level, stop : Level, target : Level,
             volume : Nat]
Flat     == [side |-> "BUY", entry |-> MaxPrice, initial_stop |-> MaxPrice, stop |-> MaxPrice,
             target |-> MaxPrice, volume |-> 0]

\* The fields of status.json and of the InstanceState that the limits read; a
\* ticket or a metric of 0 is None.
Status  == [tradeable : BOOLEAN, ticket : 0..MaxTrades, balance : Int, equity : Int]
Metrics == [ticket : 0..MaxTrades, day_start_balance : Nat, peak_equity : Nat]

\* What the last export found: the share of the others, and how far the positions stood
\* above their first stops; what has happened since: the OPENs, and what the
\* prices they were filled at add to their risk.
History == [others : Int, stake : Int, opens : Nat, slipped : Int]

VARIABLES
    price, balance, positions,   \* the market and the terminal
    status, saved,               \* the status file and the InstanceState on disk
    since,                       \* the History of the status file
    lastOpen,                    \* of the last OPEN: its History, the peak it was judged by, the
                                 \* AI's consent
    trades                       \* OPENs carried out

vars == <<price, balance, positions, status, saved, since, lastOpen, trades>>

Profit(p, level, volume) == volume * PointWorth * Gain(p.side, level, p.entry)

\* The sum over all tickets.
Total(f) ==
    LET sums[n \in 0..MaxTrades] == IF n = 0 THEN 0 ELSE sums[n - 1] + f[n]
    IN  sums[MaxTrades]

\* What the instance leaves of the account: its share of AccountEquity() ...
Equity == balance + Total([t \in Ticket |-> Profit(positions[t], price, positions[t].volume)])

\* ... and what that is when its positions end at their first stops.
Floor == balance
           + Total([t \in Ticket |->
                      Profit(positions[t], positions[t].initial_stop, positions[t].volume)])

\* SYSTEM_Status lists the newest order first, and find_status_position takes the first.
NewestTicket ==
    CHOOSE t \in 0..MaxTrades :
        /\ t = 0 \/ positions[t].volume > 0
        /\ \A u \in Ticket : u > t => positions[u].volume = 0

\* Faulty: a position that the status shows is not taken over.
ReconciledWithoutAdoption(s, st) ==
    [ticket |-> IF s.ticket = st.ticket THEN s.ticket ELSE 0,
     day_start_balance |-> IF s.day_start_balance = 0 /\ st.balance > 0
                             THEN st.balance ELSE s.day_start_balance,
     peak_equity |-> IF st.equity > s.peak_equity THEN st.equity ELSE s.peak_equity]

\* reconcile_position_with_status: the balance of the first status is kept for good and
\* the peak rises.  A ticket that is not the one of the status is taken for closed, and
\* nothing is taken over in the same cycle.
Reconciled(s, st) ==
    [ticket |-> IF s.ticket \in {0, st.ticket} THEN st.ticket ELSE 0,
     day_start_balance |-> IF s.day_start_balance = 0 /\ st.balance > 0
                             THEN st.balance ELSE s.day_start_balance,
     peak_equity |-> IF st.equity > s.peak_equity THEN st.equity ELSE s.peak_equity]

NoHistory == [others |-> 0, stake |-> 0, opens |-> 0, slipped |-> 0]

\* Startup recovery has read the status and saved what it made of it.
Init ==
    /\ price \in Price
    /\ balance = InitialBalance
    /\ positions = [t \in Ticket |-> Flat]
    /\ \E tradeable \in BOOLEAN :
          status = [tradeable |-> tradeable, ticket |-> 0,
                    balance |-> InitialBalance, equity |-> InitialBalance]
    /\ saved = Reconciled([ticket |-> 0, day_start_balance |-> 0, peak_equity |-> 0], status)
    /\ since = NoHistory
    /\ lastOpen = [peak |-> 0, history |-> NoHistory, consent |-> TRUE]
    /\ trades = 0

(***************************************************************************)
(* The market and the terminal                                             *)
(***************************************************************************)
Open(t) == positions[t].volume > 0

\* The terminal closes a part of a position, or all of it, at a level.
ClosedAt(t, level, volume) ==
    /\ balance' = balance + Profit(positions[t], level, volume)
    /\ positions' = IF volume = positions[t].volume
                      THEN [positions EXCEPT ![t] = Flat]
                      ELSE [positions EXCEPT ![t].volume = @ - volume]

\* The price moves to where no position has its stop or its target behind it ...
PriceMoves ==
    /\ price' \in Price
    /\ \A t \in Ticket : Open(t) => /\ Beyond(positions[t].side, price', positions[t].stop)
                                    /\ Beyond(positions[t].side, positions[t].target, price')
    /\ UNCHANGED <<balance, positions, status, saved, since, lastOpen, trades>>

\* ... or is on its way past one of them, and the terminal fills it.
LevelFilled ==
    /\ \E t \in Ticket :
          /\ Open(t)
          /\ \E level \in {positions[t].stop, positions[t].target} :
                ClosedAt(t, level, positions[t].volume)
    /\ UNCHANGED <<price, status, saved, since, lastOpen, trades>>

\* The EA writes status.json on a new M1 bar.
Export ==
    /\ \E tradeable \in BOOLEAN, others \in OthersShares :
          /\ status' = [tradeable |-> tradeable, ticket |-> NewestTicket,
                        balance |-> balance + others, equity |-> Equity + others]
          /\ since' = [others |-> others, stake |-> Equity - Floor, opens |-> 0, slipped |-> 0]
    /\ UNCHANGED <<price, balance, positions, saved, lastOpen, trades>>

(***************************************************************************)
(* The cycle                                                               *)
(***************************************************************************)
Current == Reconciled(saved, status)

\* The AI layer is asked unless the precheck says that it need not be.
Asks(market, query) ==
    query.kind = "skipped" <=> ~AskAi(SystemDecision(market, status.tradeable), Current, status)

\* No order, or one that the terminal does not carry out, or no time left for one.
CycleEnds ==
    /\ saved' = Current
    /\ UNCHANGED <<price, balance, positions, status, since, lastOpen, trades>>

\* An OPEN is carried out.  The market file ends with some close: the price has moved
\* since, and the terminal takes the stop and the target when they are still on their
\* sides of it.  The ack is read, or comes too late, or the cycle ends with an exception
\* before anything is saved.
CycleOpens ==
    /\ trades < MaxTrades
    /\ \E close \in Price : \E market \in MarketAt(close), side \in Side, query \in Query :
          LET stop   == CandidateStop(side, market)
              target == CandidateTarget(side, market)
              volume == VolumeFor(status.equity, Gain(side, close, stop))
          IN  /\ Opens(side, market, query, Current, status)
              /\ Asks(market, query)
              /\ Beyond(side, price, stop) /\ Beyond(side, target, price)
              /\ positions' = [positions EXCEPT ![trades + 1] =
                                 [side |-> side, entry |-> price, initial_stop |-> stop,
                                  stop |-> stop, target |-> target, volume |-> volume]]
              /\ since' = [since EXCEPT !.opens = @ + 1,
                                        !.slipped = @ + volume * PointWorth * Gain(side, price, close)]
              /\ lastOpen' = [peak |-> Current.peak_equity, history |-> since',
                              consent |-> query.kind = "answered" /\ AnswerAllows(side, query.answer)]
    /\ trades' = trades + 1
    /\ saved' \in {[Current EXCEPT !.ticket = trades + 1], Current, saved}
    /\ UNCHANGED <<price, balance, status>>

\* Trade management closes a part or all of the position that the instance believes in,
\* or moves its stop to a level that risks no more than the first one (ImplementsLife of
\* ManagedPosition).
CycleCloses ==
    /\ Current.ticket # 0 /\ Open(Current.ticket)
    /\ \E volume \in 1..positions[Current.ticket].volume :
          ClosedAt(Current.ticket, price, volume)
    /\ \E ticket \in {Current.ticket, 0} :
          /\ ticket = 0 <=> positions'[Current.ticket].volume = 0
          /\ saved' \in {[Current EXCEPT !.ticket = ticket], Current, saved}
    /\ UNCHANGED <<price, status, since, lastOpen, trades>>

CycleMovesStop ==
    /\ Current.ticket # 0 /\ Open(Current.ticket)
    /\ \E level \in Price :
          /\ Beyond(positions[Current.ticket].side, level, positions[Current.ticket].initial_stop)
          /\ Beyond(positions[Current.ticket].side, price, level)
          /\ positions' = [positions EXCEPT ![Current.ticket].stop = level]
    /\ saved' \in {Current, saved}
    /\ UNCHANGED <<price, balance, status, since, lastOpen, trades>>

Next ==
    \/ PriceMoves \/ LevelFilled \/ Export
    \/ CycleEnds \/ CycleOpens \/ CycleCloses \/ CycleMovesStop

Spec == Init /\ [][Next]_vars

-----------------------------------------------------------------------------
\* Every variable keeps its type.  In particular no position has a stop or a
\* target of 0 or below, which the terminal would take for none.
TypeOK ==
    /\ price \in Price /\ balance \in Int
    /\ positions \in [Ticket -> Position]
    /\ status \in Status
    /\ saved \in Metrics
    /\ since \in History
    /\ lastOpen \in [peak : Nat, history : History, consent : BOOLEAN]
    /\ trades \in 0..MaxTrades

\* One position per instance is what the limit of open positions is for.  A second one is
\* opened beside another only for one of two reasons: the status is older than an OPEN,
\* so that it cannot show what that OPEN opened; or the instance believed in a ticket that
\* is not the newest, so that it takes it for closed and in that cycle believes in none.
OpensBesideAnother ==
    [][trades' # trades /\ (\E t \in Ticket : Open(t))
         => since.opens > 0 \/ saved.ticket \notin {0, status.ticket}]_vars

\* What the limits of the decision and the size of a trade make of an account together.
\* However the positions end, the instance leaves what the drawdown limit leaves of the
\* peak that the last OPEN was judged by, less
\*   - one risk per trade for every OPEN judged by that status file, at what a point is
\*     really worth (the size is computed with PointValue);
\*   - what the positions that file did not rule out could lose from where they stood;
\*   - what prices had moved against the instance before the OPENs were filled.
\* Nothing bounds the number of OPENs by one file.
LossContained ==
    LET history == lastOpen.history
    IN  100 * PointValue * (Equity + history.others + history.stake + history.slipped)
          >= ((100 - MaxDrawdown) * PointValue - history.opens * MaxRiskPerTrade * PointWorth)
               * lastOpen.peak

\* When the AI layer is required, or fails closed, every OPEN has its consent:
\* the precheck skips the question only when the risk engine blocks as well.
AiConsulted == (AiMode = "required" \/ FailClosed) => lastOpen.consent
=============================================================================
