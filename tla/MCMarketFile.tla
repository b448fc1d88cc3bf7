---------------------------- MODULE MCMarketFile -----------------------------
(* Three shapes of a bar around a close of 40, for MarketFile.              *)
EXTENDS MarketFile

Shape(o, h, l, c) == [open |-> o, high |-> h, low |-> l, close |-> c]

MCFirstBars == {Shape(40, 41, 39, 40)}
MCBars == MCFirstBars \cup
    {Shape(40, 44, 40, 43),    \* up, with an upper wick
     Shape(40, 40, 36, 37)}    \* down, with a lower wick
MCWeights == [k \in ComponentKeys |-> 1]
=============================================================================
