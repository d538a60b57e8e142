--------------------------- MODULE MCBrokerRouter ---------------------------
(* Instances of BrokerRouter for TLC: a live broker that is told the id of *)
(* the batch, one that is not, and the simulator.                          *)
EXTENDS BrokerRouter

ThreeBrokers == <<"ibkr", "alpaca", "sim">>
LiveBrokers == {"ibkr", "alpaca"}
Alpaca == {"alpaca"}
AllBrokers == {"ibkr", "alpaca", "sim"}

(* One order in several slices, one without a quantity, one in two.        *)
SlicedBatch == <<8, 0, 2>>
=============================================================================
