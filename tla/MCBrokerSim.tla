---------------------------- MODULE MCBrokerSim ----------------------------
(***************************************************************************)
(* BrokerSim for TLC: two batches over two symbols.  The second turns a    *)
(* position and names its symbol twice, as a window with two rebalances    *)
(* does.                                                                   *)
(***************************************************************************)
EXTENDS BrokerSim

CONSTANTS a, b

MCSymbol == {a, b}

MCBatches ==
  << <<[symbol |-> a, units |-> 3], [symbol |-> b, units |-> -1]>>,
     <<[symbol |-> a, units |-> -1], [symbol |-> a, units |-> 1]>> >>
=============================================================================
