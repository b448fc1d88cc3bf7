---------------------------- MODULE PositionLife ----------------------------
(***************************************************************************)
(* What an instance promises about a position that it has taken, without   *)
(* status files, cycles, acks or timeouts.  Until it is closed it keeps    *)
(* its side and its levels, its volume only shrinks, and its stop is never *)
(* behind the first one: what it can lose is decided at the open.          *)
(*                                                                         *)
(* ManagedPosition implements it for every message of the channel.         *)
(***************************************************************************)
EXTENDS TradeManagement

VARIABLES
    held      \* the position that the terminal has; volume 0: none any more

JustOpened(p) == p.volume > 0 /\ p.stop = p.initial_stop

RiskContained(p) == p.stop = p.initial_stop \/ Beyond(p.side, p.stop, p.initial_stop)

LifeInit == JustOpened(held)

\* A stop is moved, a part is closed.
Manage ==
    /\ held'.volume \in 1..held.volume
    /\ RiskContained(held')
    /\ held' = [held EXCEPT !.stop = held'.stop, !.volume = held'.volume]

Close ==
    /\ held.volume > 0
    /\ held'.volume = 0

LifeNext == Manage \/ Close

LifeSpec == LifeInit /\ [][LifeNext]_held
=============================================================================
