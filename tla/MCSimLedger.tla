---------------------------- MODULE MCSimLedger ----------------------------
(* Instances of SimLedger for TLC: two bars a day, bars that rise, fall, fill *)
(* only part of an order or are suspended.                                    *)
EXTENDS SimLedger

TwoBarsADay == [t \in 0..MaxTime |-> (t + 1) \div 2]

Bar1 == [low |-> 2, high |-> 3, price |-> 3, close |-> 4, cap |-> 1, blocked |-> FALSE]
Bar2 == [low |-> 3, high |-> 4, price |-> 4, close |-> 2, cap |-> 2, blocked |-> FALSE]
Bar3 == [low |-> 4, high |-> 4, price |-> 4, close |-> 4, cap |-> 0, blocked |-> TRUE]
SomeBars == {Bar1, Bar2, Bar3}
FewBars  == {Bar1, Bar2}

SomeAsks == {[target |-> 2, force |-> "GFD", limit |-> 0],
             [target |-> 2, force |-> "IOC", limit |-> 3],
             [target |-> 1, force |-> "FOK", limit |-> 0],
             [target |-> 0, force |-> "GFD", limit |-> 0]}
FewAsks == {a \in SomeAsks : a.force # "FOK"}
=============================================================================
