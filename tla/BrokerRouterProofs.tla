------------------------- MODULE BrokerRouterProofs -------------------------
(***************************************************************************)
(* For any chain of brokers and any batch: the type invariant of           *)
(* BrokerRouter, what an ok of the router means, that no live broker       *)
(* trades without its gate, that a mark ends the trading of its broker,    *)
(* and that the router implements Dispatch.                                *)
(*                                                                         *)
(* OkMeansAcknowledged is not inductive: that the router answers ok at the *)
(* end of the loop says only that no order failed.  IInv adds the account  *)
(* of the loop: what the broker acknowledged of the order at hand and what *)
(* is left of it make up its quantity, and as long as nothing failed all   *)
(* orders before it are acknowledged in full.  MarkEndsTrading needs two   *)
(* more: who is told the id (Told), and what was traded without a mark     *)
(* (Marked); the refinement needs that no broker's turn comes after its    *)
(* gate has passed (Turned).                                               *)
(***************************************************************************)
EXTENDS BrokerRouter, TLAPS

InLoop == pc \in {"order", "plan"} \/ (pc = "call" /\ Sliced)
AtBroker == pc \in {"order", "plan", "call"}

Places ==
  /\ pc \in {"gate", "order", "plan", "call"} => at \in DOMAIN Chain
  /\ pc \in {"order", "plan"} => Sliced
  /\ pc = "plan" \/ (pc = "call" /\ Sliced) => order \in Orders /\ left > 0
  /\ pc = "call" /\ Sliced => slice \in 1..left

(* The account of the loop over the slices.                                *)
Account ==
  /\ pc = "gate" => order = 0 /\ \A o \in Orders : acked[o] = 0
  /\ InLoop =>
       /\ pc # "order" => acked[order] + left = Qty[order]
       /\ good => \A o \in Orders :
                    o < order \/ (o = order /\ pc = "order") => acked[o] = Qty[o]
       /\ \A o \in Orders : o > order => acked[o] = 0

(* The answer of a call comes with its end.                                *)
Answers ==
  /\ pc # "idle" => result = "none"
  /\ result = "ok" => \A o \in Orders : acked[o] = Qty[o]

(* The router is at a live broker only behind its gate.                    *)
BehindGate == AtBroker /\ Chain[at] \in Live /\ ~dry => at \in passed

IInv == TypeOK /\ Places /\ Account /\ Answers /\ BehindGate

-----------------------------------------------------------------------------
LEMMA Constants ==
  /\ Len(Chain) \in Nat /\ Len(Chain) > 0 /\ DOMAIN Chain = 1..Len(Chain)
  /\ Len(Qty) \in Nat /\ Orders = 1..Len(Qty)
  /\ \A o \in Orders : Qty[o] \in Nat
  /\ Qty \in [Orders -> Nat]
BY ChainAssumption, QtyAssumption DEF Orders

LEMMA SliceIsPart ==
  ASSUME NEW n, left \in Nat, left > 0, SliceSize(n)
  PROVE  n \in 1..left
BY DEF SliceSize

(* What a slice takes from the rest is acknowledged: the sum stays.        *)
LEMMA Moved ==
  ASSUME NEW a \in Nat, NEW rest \in Nat, NEW n \in 1..rest
  PROVE  /\ n \in Nat /\ rest - n \in Nat /\ a + n \in Nat
         /\ (a + n) + (rest - n) = a + rest
OBVIOUS

LEMMA InitIInv == Init => IInv
<1> SUFFICES ASSUME Init
             PROVE  IInv
  OBVIOUS
<1>1. TypeOK
  <2>1. at \in 1..(Len(Chain) + 1) /\ order \in 0..Len(Qty)
        /\ calls \in 0..MaxCalls /\ errors \in 0..MaxErrors
    BY Constants, BoundAssumption DEF Init
  <2>2. acked \in [Orders -> Nat] /\ traded \in [Broker -> SUBSET Orders]
    BY DEF Init
  <2> QED BY <2>1, <2>2 DEF Init, TypeOK, Mode
<1>2. Places /\ Account /\ Answers /\ BehindGate
  BY DEF Init, Places, Account, Answers, BehindGate, InLoop, AtBroker
<1> QED BY <1>1, <1>2 DEF IInv

(* What every call of an adapter has in common.                            *)
LEMMA AdapterCall ==
  ASSUME IInv, pc = "call"
  PROVE  /\ Name \in Broker
         /\ at + 1 \in 1..(Len(Chain) + 1)
         /\ Sliced => order \in Orders
         /\ Given \subseteq Orders
BY Constants DEF IInv, Places, Name, Broker, Given

LEMMA TradeType ==
  ASSUME IInv, pc = "call", NEW T, Trade(T)
  PROVE  traded' \in [Broker -> SUBSET Orders]
BY AdapterCall DEF IInv, TypeOK, Trade, MayTrade

(* The two ways in which an adapter's answer is taken in.                  *)
LEMMA AcknowledgeKeeps ==
  ASSUME IInv, pc = "call", Acknowledge,
         dry' = dry, passed' = passed,
         traded' \in [Broker -> SUBSET Orders],
         mark' \in SUBSET Broker, calls' \in 0..MaxCalls, errors' \in 0..MaxErrors
  PROVE  IInv'
<1> USE Constants, AdapterCall
<1>0. Sliced' = Sliced
  BY DEF Sliced
<1>1. CASE Sliced
  <2>1. /\ order \in Orders /\ left \in Nat /\ slice \in 1..left
        /\ acked[order] + left = Qty[order] /\ acked \in [Orders -> Nat]
    BY <1>1 DEF IInv, Places, Account, InLoop, TypeOK
  <2>2. /\ acked' = [acked EXCEPT ![order] = @ + slice] /\ left' = left - slice
        /\ pc' = (IF left' = 0 THEN "order" ELSE "plan")
        /\ UNCHANGED <<at, order, slice, mode, good, result>>
    BY <1>1 DEF Acknowledge
  <2>3. /\ left' \in Nat /\ acked'[order] + left' = Qty[order]
        /\ \A o \in Orders : o # order => acked'[o] = acked[o]
        /\ acked' \in [Orders -> Nat]
    <3>1. /\ acked[order] \in Nat /\ slice \in Nat /\ left - slice \in Nat
          /\ acked[order] + slice \in Nat
          /\ (acked[order] + slice) + (left - slice) = Qty[order]
      <4>1. acked[order] \in Nat
        BY <2>1, Zenon
      <4> QED BY <2>1, <4>1, Moved
    <3>2. /\ acked'[order] = acked[order] + slice
          /\ \A o \in Orders : o # order => acked'[o] = acked[o]
      BY <2>1, <2>2
    <3>3. acked' \in [Orders -> Nat]
      BY <2>1, <2>2, <3>1
    <3> QED BY <2>2, <3>1, <3>2, <3>3
  <2>4. TypeOK'
    BY <2>2, <2>3 DEF IInv, TypeOK
  <2>5. Places'
    BY <1>0, <1>1, <2>1, <2>2, <2>3 DEF IInv, Places
  <2>6. Account'
    <3>1. /\ good => \A o \in Orders : o < order => acked[o] = Qty[o]
          /\ \A o \in Orders : o > order => acked[o] = 0
      BY <1>1 DEF IInv, Account, InLoop
    <3>2. good' => \A o \in Orders : o < order => acked'[o] = Qty[o]
      BY <2>1, <2>2, <2>3, <3>1
    <3>3. left' = 0 => acked'[order] = Qty[order]
      BY <2>1, <2>3
    <3>4. \A o \in Orders : o > order => acked'[o] = 0
      BY <2>1, <2>3, <3>1
    <3>5. order' = order /\ pc' \in {"order", "plan"} /\ (pc' = "order" => left' = 0)
      BY <2>2
    <3> QED BY <2>3, <3>2, <3>3, <3>4, <3>5 DEF Account, InLoop
  <2>7. Answers' /\ BehindGate'
    BY <2>2 DEF IInv, Answers, BehindGate, AtBroker
  <2> QED BY <2>4, <2>5, <2>6, <2>7 DEF IInv
<1>2. CASE ~Sliced
  <2>1. pc' = "idle" /\ result' = "ok" /\ acked' = Qty /\ UNCHANGED local
    BY <1>2 DEF Acknowledge
  <2> QED BY <2>1 DEF IInv, TypeOK, Places, Account, Answers, BehindGate, InLoop, AtBroker, local
<1> QED BY <1>1, <1>2

LEMMA RejectKeeps ==
  ASSUME IInv, pc = "call", Reject,
         dry' = dry, passed' = passed,
         traded' \in [Broker -> SUBSET Orders],
         mark' \in SUBSET Broker, calls' \in 0..MaxCalls, errors' \in 0..MaxErrors
  PROVE  IInv'
<1> USE Constants, AdapterCall
<1>1. CASE Sliced
  <2>1. pc' = "order" /\ good' = FALSE
        /\ UNCHANGED <<at, order, left, slice, mode, result, acked>>
    BY <1>1 DEF Reject, OrderFails
  <2>2. Sliced'
    BY <1>1 DEF Sliced
  <2>3. TypeOK' /\ Places' /\ Answers' /\ BehindGate'
    BY <1>1, <2>1, <2>2 DEF IInv, TypeOK, Places, Answers, BehindGate, AtBroker
  <2>4. Account'
    BY <1>1, <2>1, <2>2 DEF IInv, Account, InLoop
  <2> QED BY <2>3, <2>4 DEF IInv
<1>2. CASE ~Sliced
  <2>1. pc' = "broker" /\ at' = at + 1
        /\ UNCHANGED <<order, left, slice, mode, good, result, acked>>
    BY <1>2 DEF Reject, Failover
  <2> QED BY <2>1 DEF IInv, TypeOK, Places, Account, Answers, BehindGate, InLoop, AtBroker
<1> QED BY <1>1, <1>2

-----------------------------------------------------------------------------
LEMMA NextIInv == IInv /\ [Next]_vars => IInv'
<1> SUFFICES ASSUME IInv, [Next]_vars
             PROVE  IInv'
  OBVIOUS
<1> USE Constants
<1>1. ASSUME NEW d \in BOOLEAN, Start(d)
      PROVE  IInv'
  BY <1>1, BoundAssumption DEF Start, IInv, TypeOK, Places, Account, Answers, BehindGate, InLoop, AtBroker
<1>2. CASE Attempt
  <2>1. Sliced' = Sliced
    BY <1>2 DEF Attempt, Sliced
  <2>2. /\ order' = 0 /\ left' = 0 /\ slice' = 0 /\ mode' = "given" /\ good' = TRUE
        /\ acked' = [o \in Orders |-> 0] /\ at \in DOMAIN Chain
        /\ pc' = (IF Gated THEN "gate" ELSE IF Sliced THEN "order" ELSE "call")
        /\ UNCHANGED <<dry, at, result, mark, traded, passed, calls, errors>>
    BY <1>2 DEF Attempt, Begin, IInv, TypeOK
  <2>3. TypeOK'
    BY <2>2 DEF IInv, TypeOK, Mode
  <2>4. Places' /\ Answers'
    BY <1>2, <2>1, <2>2 DEF Attempt, IInv, Places, Answers
  <2>5. Account'
    BY <2>1, <2>2 DEF Account, InLoop
  <2>6. BehindGate'
    BY <2>2 DEF BehindGate, AtBroker, Gated, Name
  <2> QED BY <2>3, <2>4, <2>5, <2>6 DEF IInv
<1>3. CASE Exhausted
  BY <1>3 DEF Exhausted, local, ghosts, IInv, TypeOK, Places, Account, Answers, BehindGate, InLoop, AtBroker
<1>4. CASE GatePass
  <2>1. Sliced' = Sliced
    BY <1>4 DEF GatePass, Sliced
  <2>2. TypeOK' /\ Places' /\ Answers'
    BY <1>4, <2>1 DEF GatePass, local, IInv, TypeOK, Places, Answers
  <2>3. Account'
    BY <1>4, <2>1 DEF GatePass, local, IInv, TypeOK, Account, InLoop
  <2>4. BehindGate'
    BY <1>4 DEF GatePass, local, BehindGate
  <2> QED BY <2>2, <2>3, <2>4 DEF IInv
<1>5. CASE GateBlock
  BY <1>5 DEF GateBlock, local, ghosts, IInv, TypeOK, Places, Account, Answers, BehindGate, InLoop, AtBroker
<1>6. CASE GateRaises
  BY <1>6 DEF GateRaises, Failover, ghosts, IInv, TypeOK, Places, Account, Answers, BehindGate, InLoop, AtBroker
<1>7. CASE NextOrder
  <2>1. Sliced' = Sliced /\ order + 1 \in Orders
    BY <1>7 DEF NextOrder, Sliced, IInv, TypeOK
  <2>2. TypeOK' /\ Places'
    BY <1>7, <2>1 DEF NextOrder, ghosts, IInv, TypeOK, Places
  <2>3. Account'
    <3>1. /\ pc = "order" /\ order' = order + 1 /\ left' = Qty[order + 1]
          /\ pc' = (IF Qty[order + 1] = 0 THEN "order" ELSE "plan")
          /\ acked' = acked /\ good' = good
      BY <1>7 DEF NextOrder, ghosts
    <3>2. /\ order \in Nat /\ acked[order + 1] = 0
          /\ good => \A o \in Orders : o < order + 1 => acked[o] = Qty[o]
          /\ \A o \in Orders : o > order + 1 => acked[o] = 0
      BY <2>1, <3>1 DEF IInv, TypeOK, Account, InLoop
    <3>3. 0 + left' = Qty[order'] /\ Qty[order'] \in Nat
      BY <2>1, <3>1
    <3> QED BY <3>1, <3>2, <3>3 DEF Account
  <2>4. Answers' /\ BehindGate'
    BY <1>7 DEF NextOrder, ghosts, IInv, Answers, BehindGate, AtBroker
  <2> QED BY <2>2, <2>3, <2>4 DEF IInv
<1>8. CASE EndOrders
  <2>1. TypeOK' /\ Places'
    <3>1. CASE good
      BY <1>8, <3>1 DEF EndOrders, local, ghosts, IInv, TypeOK, Places
    <3>2. CASE ~good
      <4>1. at + 1 \in 1..(Len(Chain) + 1)
        BY <1>8 DEF EndOrders, IInv, Places
      <4> QED BY <1>8, <3>2, <4>1 DEF EndOrders, Failover, ghosts, IInv, TypeOK, Places
    <3> QED BY <3>1, <3>2
  <2>2. Account' /\ BehindGate'
    BY <1>8 DEF EndOrders, Failover, local, ghosts, Account, InLoop, BehindGate, AtBroker
  <2>3. Answers'
    <3>1. good => \A o \in Orders : acked[o] = Qty[o]
      <4> SUFFICES ASSUME good, NEW o \in Orders
                   PROVE  acked[o] = Qty[o]
        OBVIOUS
      <4>0. order = Len(Qty)
        BY <1>8 DEF EndOrders
      <4>1. o < order \/ o = order
        <5>1. o \in 1..order /\ order \in Nat
          BY <4>0
        <5> QED BY <5>1
      <4>2. pc = "order" /\ Account
        BY <1>8 DEF EndOrders, IInv
      <4>3. \A q \in Orders : q < order \/ (q = order /\ pc = "order") => acked[q] = Qty[q]
        BY <4>2 DEF Account, InLoop
      <4> QED BY <4>1, <4>2, <4>3
    <3> QED BY <1>8, <3>1 DEF EndOrders, Failover, local, ghosts, IInv, Answers
  <2> QED BY <2>1, <2>2, <2>3 DEF IInv
<1>9. CASE PlanAbort
  <2>1. Sliced' = Sliced
    BY <1>9 DEF PlanAbort, Sliced
  <2> QED BY <1>9, <2>1 DEF PlanAbort, OrderFails, ghosts, IInv, TypeOK, Places, Account, Answers, BehindGate, InLoop, AtBroker
<1>10. ASSUME NEW n \in Nat, Plan(n)
       PROVE  IInv'
  <2>1. Sliced' = Sliced
    BY <1>10 DEF Plan, Sliced
  <2>2. n \in 1..left
    BY <1>10, SliceIsPart DEF Plan, IInv, TypeOK, Places
  <2> QED BY <1>10, <2>1, <2>2 DEF Plan, ghosts, IInv, TypeOK, Mode, Places, Account, Answers, BehindGate, InLoop, AtBroker
<1>11. CASE CallUnknownArgument
  <2>1. Sliced' = Sliced
    BY <1>11 DEF CallUnknownArgument, Sliced
  <2> QED BY <1>11, <2>1 DEF CallUnknownArgument, ghosts, IInv, TypeOK, Mode, Places, Account, Answers, BehindGate, InLoop, AtBroker
<1>12. CASE CallAlreadyApplied
  <2>1. pc = "call"
    BY <1>12, AdapterCall DEF CallAlreadyApplied, AcceptsCall, IInv, TypeOK
  <2> QED BY <1>12, <2>1, AcknowledgeKeeps DEF CallAlreadyApplied, IInv, TypeOK
<1>13. ASSUME NEW T \in SUBSET Orders, CallOk(T)
       PROVE  IInv'
  <2>1. pc = "call" /\ Trade(T)
    BY <1>13 DEF CallOk, AcceptsCall
  <2>2. mark' \in SUBSET Broker
    BY <1>13, <2>1, AdapterCall DEF CallOk, IInv, TypeOK
  <2> QED BY <1>13, <2>1, <2>2, TradeType, AcknowledgeKeeps DEF CallOk, IInv, TypeOK
<1>14. ASSUME NEW T \in SUBSET Orders, CallFails(T)
       PROVE  IInv'
  <2>1. pc = "call" /\ Trade(T)
    BY <1>14 DEF CallFails, AcceptsCall
  <2>2. errors' \in 0..MaxErrors
    BY <1>14, BoundAssumption DEF CallFails, IInv, TypeOK
  <2> QED BY <1>14, <2>1, <2>2, TradeType, RejectKeeps DEF CallFails, IInv, TypeOK
<1>15. ASSUME NEW T \in SUBSET Orders, CallTypeError(T)
       PROVE  IInv'
  <2>1. pc = "call" /\ Trade(T) /\ Sliced' = Sliced
    BY <1>15 DEF CallTypeError, AcceptsCall, Sliced
  <2>2. errors' \in 0..MaxErrors
    BY <1>15, BoundAssumption DEF CallTypeError, IInv, TypeOK
  <2>3. TypeOK'
    BY <1>15, <2>1, <2>2, TradeType DEF CallTypeError, IInv, TypeOK, Mode
  <2>4. Places' /\ Account' /\ Answers' /\ BehindGate'
    BY <1>15, <2>1 DEF CallTypeError, IInv, Places, Account, Answers, BehindGate, InLoop, AtBroker
  <2> QED BY <2>3, <2>4 DEF IInv
<1>16. CASE UNCHANGED vars
  <2>1. Sliced' = Sliced
    BY <1>16 DEF vars, Sliced
  <2> QED BY <1>16, <2>1 DEF vars, IInv, TypeOK, Places, Account, Answers, BehindGate, InLoop, AtBroker
<1>17. CASE NoAdapter
  <2>1. at + 1 \in 1..(Len(Chain) + 1)
    BY <1>17 DEF NoAdapter, IInv, Places
  <2> QED
    BY <1>17, <2>1 DEF NoAdapter, Failover, ghosts, IInv, TypeOK, Places, Account,
      Answers, BehindGate, InLoop, AtBroker
<1>18. ASSUME Step
       PROVE  IInv'
  <2>1. ASSUME NEW o \in Orders, NEW n \in 1..Qty[o], Plan(n)
        PROVE  IInv'
    BY <2>1, <1>10
  <2> QED BY <1>18, <2>1, <1>2, <1>3, <1>4, <1>5, <1>6, <1>7, <1>8, <1>9, <1>11,
             <1>12, <1>13, <1>14, <1>15, <1>17 DEF Step
<1> QED BY <1>1, <1>16, <1>18 DEF Next

LEMMA Invariance == Spec => []IInv
BY InitIInv, NextIInv, PTL DEF Spec

(* The type invariant holds in every reachable state.                      *)
THEOREM TypeCorrect == Spec => []TypeOK
<1>1. IInv => TypeOK
  BY DEF IInv
<1> QED BY <1>1, Invariance, PTL

(* A broker whose ok the router returns has acknowledged all of the batch: *)
(* no slice of no order is missing, however the chain came to that broker. *)
THEOREM OkIsAcknowledged == Spec => []OkMeansAcknowledged
<1>1. IInv => OkMeansAcknowledged
  BY DEF IInv, Answers, OkMeansAcknowledged
<1> QED BY <1>1, Invariance, PTL

-----------------------------------------------------------------------------
(* Only a call of an adapter trades, and only at the broker at hand.       *)
LEMMA TradesAreCalls ==
  ASSUME IInv, [Next]_vars, NEW b \in Broker, traded'[b] # traded[b]
  PROVE  pc = "call" /\ ~dry /\ b = Name /\ result = "none"
<1>1. ASSUME NEW T \in SUBSET Orders, pc = "call", Trade(T)
      PROVE  pc = "call" /\ ~dry /\ b = Name /\ result = "none"
  <2>1. traded' = [traded EXCEPT ![Name] = @ \cup T] /\ (T # {} => ~dry)
    BY <1>1 DEF Trade, MayTrade
  <2>2. b = Name /\ T # {}
    BY <2>1 DEF IInv, TypeOK
  <2> QED BY <1>1, <2>1, <2>2 DEF IInv, Answers
<1>2. CASE \E d \in BOOLEAN : Start(d)
  BY <1>2 DEF Start
<1>3. CASE Step
  <2>1. CASE \E T \in SUBSET Orders : CallOk(T) \/ CallFails(T) \/ CallTypeError(T)
    BY <1>1, <2>1 DEF CallOk, CallFails, CallTypeError, AcceptsCall
  <2>2. CASE ~(\E T \in SUBSET Orders : CallOk(T) \/ CallFails(T) \/ CallTypeError(T))
    BY <1>3, <2>2 DEF Step, Attempt, Exhausted, GatePass, GateBlock, GateRaises,
       NoAdapter, NextOrder, EndOrders, PlanAbort, Plan, CallUnknownArgument, CallAlreadyApplied, ghosts
  <2> QED BY <2>1, <2>2
<1>4. CASE UNCHANGED vars
  BY <1>4 DEF vars
<1> QED BY <1>2, <1>3, <1>4 DEF Next

(* On no path through failover, slices and fallbacks does a live broker    *)
(* trade in a call that its gate did not let pass.                         *)
THEOREM LiveIsReconciled == Spec => LiveTradesAreReconciled
<1>1. IInv /\ [Next]_vars =>
        [\A b \in Broker \cap Live : traded'[b] # traded[b] => Name = b /\ at \in passed]_vars
  <2> SUFFICES ASSUME IInv, [Next]_vars, NEW b \in Broker \cap Live, traded'[b] # traded[b]
               PROVE  Name = b /\ at \in passed
    OBVIOUS
  <2>1. pc = "call" /\ ~dry /\ b = Name
    BY TradesAreCalls
  <2> QED BY <2>1 DEF IInv, BehindGate, AtBroker, Name
<1> QED BY <1>1, Invariance, PTL DEF Spec, LiveTradesAreReconciled

(* A call that has its answer is over: no broker of the chain trades       *)
(* after a gate blocked, or after another broker answered ok.              *)
THEOREM AnsweredIsOver == Spec => AnsweredCallsDoNotTrade
<1>1. IInv /\ [Next]_vars =>
        [result # "none" /\ calls' = calls => UNCHANGED <<traded, mark>>]_vars
  <2> SUFFICES ASSUME IInv, [Next]_vars, result # "none", calls' = calls
               PROVE  UNCHANGED <<traded, mark>>
    OBVIOUS
  <2>1. pc = "idle"
    BY DEF IInv, Answers
  <2>2. ASSUME NEW d \in BOOLEAN, Start(d)
        PROVE  UNCHANGED <<traded, mark>>
    BY <2>2 DEF Start
  <2>3. ~Step
    BY <2>1 DEF Step, Attempt, Exhausted, GatePass, GateBlock, GateRaises, NoAdapter, NextOrder,
       EndOrders, PlanAbort, Plan, CallUnknownArgument, CallAlreadyApplied, AcceptsCall,
       CallOk, CallFails, CallTypeError
  <2>4. CASE UNCHANGED vars
    BY <2>4 DEF vars
  <2> QED BY <2>2, <2>3, <2>4 DEF Next
<1> QED BY <1>1, Invariance, PTL DEF Spec, AnsweredCallsDoNotTrade
-----------------------------------------------------------------------------
(* Until an exception makes a fallback drop it, an adapter that knows the  *)
(* argument is told the id of the batch.                                   *)
Told ==
  /\ pc = "gate" => mode = "given"
  /\ pc = "call" /\ errors = 0 /\ Chain[at] \notin OldApi => mode = "given"

(* Such a broker trades only what it then marks, and of a sliced batch it  *)
(* is given one order before it has the mark.                              *)
Marked ==
  HasId /\ errors = 0 =>
    \A b \in Broker \ OldApi :
      /\ b \notin mark => traded[b] = {}
      /\ Slicing /\ Qty # <<>> => \A o, p \in traded[b] : o = p

(* No broker has a mark and none has traded.                               *)
LEMMA InitMarked == Init => Told /\ Marked
BY DEF Init, Told, Marked

(* The id is dropped only after an exception, or for an adapter that       *)
(* does not know it.                                                       *)
LEMMA NextTold ==
  ASSUME IInv, Told, [Next]_vars
  PROVE  Told'
<1>1. CASE UNCHANGED vars
  BY <1>1 DEF vars, Told
<1>2. ASSUME NEW d \in BOOLEAN, Start(d)
      PROVE  Told'
  BY <1>2 DEF Start, Told
<1>3. CASE Attempt
  BY <1>3 DEF Attempt, Begin, Told
<1>4. CASE GatePass
  BY <1>4 DEF GatePass, local, Told
<1>5. CASE Exhausted \/ GateBlock \/ GateRaises \/ NoAdapter \/ NextOrder \/ EndOrders \/ PlanAbort
  BY <1>5 DEF Exhausted, GateBlock, GateRaises, NoAdapter, NextOrder, EndOrders, PlanAbort,
    Failover, Told
<1>6. ASSUME NEW n, Plan(n)
      PROVE  Told'
  BY <1>6 DEF Plan, Told
<1>7. CASE CallUnknownArgument
  BY <1>7 DEF CallUnknownArgument, Name, Told
<1>8. CASE CallAlreadyApplied \/ \E T \in SUBSET Orders : CallOk(T) \/ CallFails(T)
  <2>1. Acknowledge \/ Reject
    BY <1>8 DEF CallAlreadyApplied, CallOk, CallFails
  <2>2. pc' # "call" /\ pc' # "gate"
    BY <2>1 DEF Acknowledge, Reject, Failover
  <2> QED BY <2>2 DEF Told
<1>9. ASSUME NEW T \in SUBSET Orders, CallTypeError(T)
      PROVE  Told'
  <2>1. pc' = "call" /\ errors' # 0
    BY <1>9 DEF CallTypeError, AcceptsCall, IInv, TypeOK
  <2> QED BY <2>1 DEF Told
<1> QED
  BY <1>1, <1>2, <1>3, <1>4, <1>5, <1>6, <1>7, <1>8, <1>9 DEF Next, Step

(* While nothing raised and the adapter at hand knows the argument, its    *)
(* call trades at most the order at hand, or nothing when it has the mark, *)
(* and what it trades it marks.                                            *)
LEMMA CallsOfKnowing ==
  ASSUME IInv, Told, [Next]_vars, errors' = 0, HasId,
         NEW b \in Broker \ OldApi, traded'[b] # traded[b]
  PROVE  /\ b \notin mark /\ b \in mark'
         /\ Slicing /\ Qty # <<>> =>
              \A o \in traded'[b] : o \in traded[b] \/ o = order
<1>1. pc = "call" /\ ~dry /\ b = Name
  BY TradesAreCalls
<1>2. \E T \in SUBSET Orders : CallOk(T) \/ CallFails(T) \/ CallTypeError(T)
  BY <1>1 DEF Next, Step, Start, Attempt, Exhausted, GatePass, GateBlock,
    GateRaises, NoAdapter, NextOrder, EndOrders, PlanAbort, Plan, CallUnknownArgument,
    CallAlreadyApplied, ghosts, vars
<1>3. PICK T \in SUBSET Orders : CallOk(T) \/ CallFails(T) \/ CallTypeError(T)
  BY <1>2
<1>4. Trade(T)
  BY <1>3 DEF CallOk, CallFails, CallTypeError
<1>5. traded'[b] = traded[b] \cup T /\ T # {} /\ T \subseteq Given
  BY <1>1, <1>4 DEF Trade, MayTrade, IInv, TypeOK
<1>6. CallOk(T)
  BY <1>3, <1>5 DEF CallFails, CallTypeError, IInv, TypeOK
<1>7. errors = 0
  BY <1>6 DEF CallOk
<1>8. mode = "given"
  BY <1>1, <1>7 DEF Told, Name
<1>9. Identified
  BY <1>8 DEF Identified
<1>10. b \notin mark /\ b \in mark'
  BY <1>1, <1>6, <1>9 DEF CallOk, Remembers
<1>11. Slicing /\ Qty # <<>> => Given = {order}
  BY <1>1, <1>8 DEF Given, Sliced
<1> QED BY <1>5, <1>10, <1>11

(* Every step keeps what is known of marks and trades.                     *)
LEMMA NextMarked ==
  ASSUME IInv, Told, Marked, [Next]_vars
  PROVE  Marked'
<1> SUFFICES ASSUME HasId, errors' = 0, NEW b \in Broker \ OldApi
             PROVE  /\ b \notin mark' => traded'[b] = {}
                    /\ Slicing /\ Qty # <<>> => \A o, p \in traded'[b] : o = p
  BY DEF Marked
<1>1. errors = 0 /\ mark \subseteq mark'
  <2>1. CASE UNCHANGED vars
    BY <2>1 DEF vars
  <2>2. CASE \E d \in BOOLEAN : Start(d)
    BY <2>2 DEF Start
  <2>3. CASE Attempt \/ Exhausted \/ GatePass \/ GateBlock \/ GateRaises
             \/ NoAdapter \/ NextOrder \/ EndOrders \/ PlanAbort \/ CallUnknownArgument
             \/ CallAlreadyApplied \/ \E n : Plan(n)
    BY <2>3 DEF Attempt, Exhausted, GatePass, GateBlock, GateRaises, NoAdapter,
      NextOrder, EndOrders, PlanAbort, CallUnknownArgument, CallAlreadyApplied, Plan
  <2>4. ASSUME NEW T \in SUBSET Orders,
               CallOk(T) \/ CallFails(T) \/ CallTypeError(T)
        PROVE  errors = 0 /\ mark \subseteq mark'
    BY <2>4 DEF CallOk, CallFails, CallTypeError, IInv, TypeOK
  <2> QED BY <2>1, <2>2, <2>3, <2>4 DEF Next, Step
<1>2. /\ b \notin mark => traded[b] = {}
      /\ Slicing /\ Qty # <<>> => \A o, p \in traded[b] : o = p
  BY <1>1 DEF Marked
<1>3. CASE traded'[b] = traded[b]
  BY <1>1, <1>2, <1>3
<1>4. CASE traded'[b] # traded[b]
  BY <1>2, <1>4, CallsOfKnowing
<1> QED BY <1>3, <1>4

(* A broker that knows the batch by its id trades nothing after its mark,  *)
(* and of a sliced batch one order in all: for any chain, any batch and    *)
(* any number of calls, until an exception makes a fallback drop the id.   *)
THEOREM MarkIsFinal == Spec => MarkEndsTrading
<1> DEFINE Ends == \A b \in mark : errors' = 0 /\ b \notin OldApi /\ HasId
                     => traded'[b] = traded[b]
<1>1. IInv /\ Marked => OneOrderPerMark
  BY DEF IInv, TypeOK, Marked, OneOrderPerMark, Sliced
<1>2. IInv /\ Told /\ [Next]_vars => [Ends]_vars
  <2> SUFFICES ASSUME IInv, Told, [Next]_vars
               PROVE  Ends
    OBVIOUS
  <2> QED BY CallsOfKnowing DEF IInv, TypeOK
<1>3. Init => IInv /\ Told /\ Marked
  BY InitIInv, InitMarked
<1>4. IInv /\ Told /\ Marked /\ [Next]_vars => (IInv /\ Told /\ Marked)'
  BY NextIInv, NextTold, NextMarked
<1> QED BY <1>1, <1>2, <1>3, <1>4, PTL DEF Spec, MarkEndsTrading
-----------------------------------------------------------------------------
(* What a turn of the abstract module needs besides: brokers whose gate    *)
(* passed in this call had their turns, and only live ones have a gate.    *)
Turned ==
  /\ pc # "idle" => \A i \in passed : i < at \/ (i = at /\ AtBroker)
  /\ pc = "gate" => Chain[at] \in Live

LEMMA NextTurned ==
  ASSUME IInv, Turned, [Next]_vars
  PROVE  Turned'
<1>0. at \in Nat /\ passed \in SUBSET Nat /\ pc \in {"idle", "broker", "gate"} \cup {"order", "plan", "call"}
  BY Constants DEF IInv, TypeOK
<1>1. CASE UNCHANGED vars
  BY <1>1 DEF vars, Turned, AtBroker
<1>2. ASSUME NEW d \in BOOLEAN, Start(d)
      PROVE  Turned'
  BY <1>2 DEF Start, Turned
<1>3. CASE Attempt
  <2>1. pc = "broker" /\ at' = at /\ passed' = passed
        /\ (pc' = "gate" => Chain[at] \in Live)
    BY <1>3 DEF Attempt, Gated, Name
  <2>2. \A i \in passed : i < at
    BY <2>1 DEF Turned, AtBroker
  <2> QED BY <2>1, <2>2 DEF Turned
<1>4. CASE Exhausted \/ GateBlock
  BY <1>4 DEF Exhausted, GateBlock, Turned
<1>5. CASE GatePass
  <2>1. pc = "gate" /\ at' = at /\ passed' = passed \cup {at} /\ pc' \in {"order", "call"}
    BY <1>5 DEF GatePass, local
  <2> QED BY <2>1 DEF Turned, AtBroker
<1>6. CASE pc' = "broker" /\ at' = at + 1 /\ passed' = passed /\ pc # "idle"
  BY <1>0, <1>6 DEF Turned
<1>7. CASE AtBroker /\ AtBroker' /\ at' = at /\ passed' = passed
  BY <1>7 DEF Turned, AtBroker
<1>8. CASE pc' = "idle"
  BY <1>8 DEF Turned
<1>9. CASE GateRaises
  BY <1>6, <1>9 DEF GateRaises, Failover, ghosts
<1>10. CASE EndOrders \/ NoAdapter
  BY <1>6, <1>8, <1>10 DEF EndOrders, NoAdapter, Failover, ghosts
<1>11. CASE NextOrder \/ PlanAbort \/ CallUnknownArgument \/ \E n : Plan(n)
  BY <1>7, <1>11 DEF NextOrder, PlanAbort, CallUnknownArgument, Plan, ghosts, AtBroker
<1>12. CASE CallAlreadyApplied \/ \E T \in SUBSET Orders : CallOk(T) \/ CallFails(T)
  <2>1. pc = "call" /\ passed' = passed /\ (Acknowledge \/ Reject)
    BY <1>12 DEF CallAlreadyApplied, CallOk, CallFails, AcceptsCall
  <2>2. \/ AtBroker' /\ at' = at
        \/ pc' = "broker" /\ at' = at + 1
        \/ pc' = "idle"
    BY <2>1 DEF Acknowledge, Reject, Failover, AtBroker
  <2> QED BY <1>6, <1>7, <1>8, <2>1, <2>2 DEF AtBroker
<1>13. CASE \E T \in SUBSET Orders : CallTypeError(T)
  BY <1>7, <1>13 DEF CallTypeError, AcceptsCall, AtBroker
<1> QED
  BY <1>1, <1>2, <1>3, <1>4, <1>5, <1>9, <1>10, <1>11, <1>12, <1>13 DEF Next, Step

(* The orders that the broker at hand has acknowledged in full.            *)
Done == {o \in Orders : acked[o] = Qty[o]}

(* The broker at hand trades, a live one behind its gate.                  *)
TradesAtName ==
  \E T \in SUBSET Orders :
    /\ T # {} /\ Name \in Live => at \in passed
    /\ traded' = [traded EXCEPT ![Name] = @ \cup T]

(* A step that trades nothing is one that trades no orders.                *)
LEMMA NoTrade ==
  ASSUME IInv, traded' = traded
  PROVE  TradesAtName
<1>1. PICK T \in SUBSET Orders : T = {}
  OBVIOUS
<1>2. traded' = [traded EXCEPT ![Name] = @ \cup T]
  BY <1>1 DEF IInv, TypeOK
<1> QED BY <1>1, <1>2 DEF TradesAtName

(* A step of the broker that has the turn: it goes on, or it answers with  *)
(* every order acknowledged, or its turn ends.                             *)
LEMMA BrokerStep ==
  ASSUME IInv, pc \in {"gate", "order", "plan", "call"}, passed' = passed,
         TradesAtName,
         \/ /\ pc' \in {"gate", "order", "plan", "call"}
            /\ at' = at /\ result' = result /\ Done \subseteq Done'
         \/ pc' = "idle" /\ result' = "ok" /\ Done' = Orders
         \/ pc' = "broker" /\ at' = at + 1 /\ result' = result
  PROVE  Dispatching!Next
<1>0. PICK T \in SUBSET Orders :
        /\ T # {} /\ Name \in Live => at \in passed
        /\ traded' = [traded EXCEPT ![Name] = @ \cup T]
  BY DEF TradesAtName
<1>1. Trying /\ result = "none"
  BY DEF Trying, IInv, Answers
<1>2. CASE /\ pc' \in {"gate", "order", "plan", "call"}
           /\ at' = at /\ result' = result /\ Done \subseteq Done'
  <2>1. Trying'
    BY <1>2 DEF Trying
  <2>2. PICK S \in SUBSET Orders : Done' = Done \cup S
    <3>1. Done' \in SUBSET Orders /\ Done' = Done \cup Done'
      BY <1>2 DEF Done
    <3> QED BY <3>1
  <2>3. Dispatching!Serve(T, S)
    BY <1>0, <1>1, <1>2, <2>1, <2>2 DEF Dispatching!Serve, Dispatching!Trade, Name, Done
  <2> QED BY <2>3 DEF Dispatching!Next
<1>3. CASE pc' = "idle" /\ result' = "ok" /\ Done' = Orders
  <2>1. ~Trying' /\ pc' # "broker"
    BY <1>3 DEF Trying
  <2>2. Dispatching!Finish(T)
    BY <1>0, <1>1, <1>3, <2>1
       DEF Dispatching!Finish, Dispatching!Trade, Dispatching!Answer, Name, Done
  <2> QED BY <2>2 DEF Dispatching!Next
<1>4. CASE pc' = "broker" /\ at' = at + 1 /\ result' = result
  <2>1. ~Trying' /\ pc' = "broker" /\ at' - 1 = at
    BY <1>4 DEF Trying, IInv, TypeOK
  <2>2. Dispatching!Fail(T)
    BY <1>0, <1>1, <1>4, <2>1 DEF Dispatching!Fail, Dispatching!Trade, Name
  <2> QED BY <2>2 DEF Dispatching!Next
<1> QED BY <1>2, <1>3, <1>4

(* What is acknowledged stays so, and an ok for the batch is for all of it.*)
LEMMA AcknowledgeServes ==
  ASSUME IInv, pc = "call", Acknowledge, passed' = passed, dry' = dry,
         TradesAtName
  PROVE  Dispatching!Next
<1>1. CASE Sliced
  <2>1. /\ order \in Orders /\ left > 0 /\ slice \in 1..left
        /\ acked[order] + left = Qty[order]
    BY <1>1 DEF IInv, Places, Account, InLoop
  <2>2. /\ acked' = [acked EXCEPT ![order] = @ + slice] /\ left' = left - slice
        /\ pc' \in {"order", "plan"}
        /\ at' = at /\ result' = result
    BY <1>1 DEF Acknowledge
  <2>3. /\ left \in Nat /\ slice \in Nat /\ acked[order] \in Nat
        /\ acked \in [Orders -> Nat]
    BY <2>1 DEF IInv, TypeOK
  <2>4. acked[order] # Qty[order]
    BY <2>1, <2>3
  <2>5. \A o \in Orders : o # order => acked'[o] = acked[o]
    BY <2>2, <2>3
  <2>6. Done \subseteq Done'
    BY <2>4, <2>5 DEF Done
  <2> QED BY <2>2, <2>6, BrokerStep
<1>2. CASE ~Sliced
  <2>1. pc' = "idle" /\ result' = "ok" /\ acked' = Qty
    BY <1>2 DEF Acknowledge
  <2>2. Done' = Orders
    BY <2>1 DEF Done
  <2> QED BY <2>1, <2>2, BrokerStep
<1> QED BY <1>1, <1>2

LEMMA RejectServes ==
  ASSUME IInv, pc = "call", Reject, passed' = passed,
         TradesAtName
  PROVE  Dispatching!Next
<1>1. CASE Sliced
  <2>1. pc' = "order" /\ at' = at /\ result' = result /\ acked' = acked
    BY <1>1 DEF Reject
  <2>2. Done \subseteq Done'
    BY <2>1 DEF Done
  <2> QED BY <2>1, <2>2, BrokerStep
<1>2. CASE ~Sliced
  <2>1. pc' = "broker" /\ at' = at + 1 /\ result' = result
    BY <1>2 DEF Reject, Failover
  <2> QED BY <2>1, BrokerStep
<1> QED BY <1>1, <1>2

(* Every step of the router is a step of Dispatch, or none.                *)
LEMMA NextDispatches ==
  ASSUME IInv, IInv', Turned, [Next]_vars
  PROVE  [Dispatching!Next]_(Dispatching!vars)
<1>0. at \in Nat /\ Len(Chain) \in Nat
  BY Constants DEF IInv, TypeOK
<1>1. CASE UNCHANGED vars
  <2>1. Trying' = Trying
    BY <1>1 DEF Trying, vars
  <2> QED BY <1>1, <2>1 DEF vars, Dispatching!vars
<1>2. ASSUME NEW d \in BOOLEAN, Start(d)
      PROVE  Dispatching!Call
  <2>1. ~Trying /\ ~Trying' /\ at' - 1 = 0
    BY <1>2 DEF Start, Trying
  <2> QED BY <1>2, <2>1 DEF Start, Dispatching!Call
<1>3. CASE Attempt
  <2>1. /\ pc = "broker" /\ at <= Len(Chain)
        /\ pc' \in {"gate", "order", "call"}
        /\ at' = at /\ passed' = passed /\ result' = result /\ traded' = traded
        /\ acked' = [o \in Orders |-> 0]
    BY <1>3 DEF Attempt, Begin
  <2>2. ~Trying /\ Trying' /\ pc' # "broker"
    BY <2>1 DEF Trying
  <2>3. at \notin passed /\ at - 1 < Len(Chain) /\ (at - 1) + 1 = at
    BY <1>0, <2>1 DEF Turned, AtBroker
  <2>4. {o \in Orders : acked'[o] = Qty[o]} = {o \in Orders : Qty[o] = 0}
    BY <2>1
  <2> QED BY <2>1, <2>2, <2>3, <2>4 DEF Dispatching!Turn, Dispatching!Next
<1>4. CASE Exhausted
  <2>1. ~Trying /\ ~Trying' /\ pc = "broker" /\ pc' = "idle"
    BY <1>4 DEF Exhausted, Trying
  <2>2. at - 1 = Len(Chain)
    <3>1. at \in 1..(Len(Chain) + 1)
      BY DEF IInv, TypeOK
    <3>2. at > Len(Chain)
      BY <1>4 DEF Exhausted
    <3> QED BY <1>0, <3>1, <3>2
  <2>3. result' = "failed" /\ traded' = traded
    BY <1>4 DEF Exhausted, ghosts
  <2>4. Dispatching!GiveUp
    BY <2>1, <2>2, <2>3 DEF Dispatching!GiveUp, Dispatching!Answer
  <2> QED BY <2>4 DEF Dispatching!Next
<1>5. CASE GatePass
  <2>1. /\ pc = "gate" /\ pc' \in {"order", "call"} /\ passed' = passed \cup {at}
        /\ UNCHANGED <<at, result, acked, traded>>
    BY <1>5 DEF GatePass, local
  <2>2. Trying /\ Trying'
    BY <2>1 DEF Trying
  <2> QED BY <2>1, <2>2 DEF Dispatching!Clear, Dispatching!Next
<1>6. CASE GateBlock
  <2>1. Trying /\ ~Trying' /\ pc = "gate" /\ pc' = "idle"
    BY <1>6 DEF GateBlock, Trying
  <2>2. Chain[at] \in Live /\ at \notin passed
    BY <1>0, <2>1 DEF Turned, AtBroker
  <2> QED
    BY <1>6, <2>1, <2>2 DEF GateBlock, ghosts, Dispatching!Block, Dispatching!Answer, Dispatching!Next
<1>7. CASE GateRaises \/ NoAdapter
  <2>1. /\ pc \in {"gate", "order", "call"} /\ pc' = "broker" /\ at' = at + 1
        /\ UNCHANGED <<result, acked, traded, passed>>
    BY <1>7 DEF GateRaises, NoAdapter, Failover, ghosts
  <2> QED BY <2>1, NoTrade, BrokerStep
<1>8. CASE EndOrders
  <2>1. pc = "order" /\ UNCHANGED <<acked, traded, passed>>
    BY <1>8 DEF EndOrders, ghosts
  <2>2. CASE good
    <3>1. pc' = "idle" /\ result' = "ok"
      BY <1>8, <2>2 DEF EndOrders
    <3>2. Done' = Orders
      BY <2>1, <3>1 DEF IInv, Answers, Done
    <3> QED BY <2>1, <3>1, <3>2, NoTrade, BrokerStep
  <2>3. CASE ~good
    <3>1. pc' = "broker" /\ at' = at + 1 /\ result' = result
      BY <1>8, <2>3 DEF EndOrders, Failover
    <3> QED BY <2>1, <3>1, NoTrade, BrokerStep
  <2> QED BY <2>2, <2>3
<1>9. CASE NextOrder \/ PlanAbort \/ CallUnknownArgument \/ \E n : Plan(n)
  <2>1. /\ pc \in {"order", "plan", "call"} /\ pc' \in {"order", "plan", "call"}
        /\ UNCHANGED <<at, result, acked, traded, passed>>
    BY <1>9 DEF NextOrder, PlanAbort, CallUnknownArgument, Plan, ghosts
  <2>2. Trying /\ Trying'
    BY <2>1 DEF Trying
  <2> QED BY <2>1, <2>2 DEF Dispatching!vars
<1>10. ASSUME pc = "call", NEW T \in SUBSET Orders, Trade(T)
       PROVE  TradesAtName
  BY <1>10 DEF Trade, MayTrade, IInv, BehindGate, AtBroker, Name, TradesAtName
<1>11. CASE CallAlreadyApplied
  <2>1. pc = "call" /\ Acknowledge /\ UNCHANGED <<dry, traded, passed>>
    BY <1>11 DEF CallAlreadyApplied, AcceptsCall
  <2> QED BY <2>1, NoTrade, AcknowledgeServes
<1>12. ASSUME NEW T \in SUBSET Orders, CallOk(T)
       PROVE  Dispatching!Next
  BY <1>10, <1>12, AcknowledgeServes DEF CallOk, AcceptsCall
<1>13. ASSUME NEW T \in SUBSET Orders, CallFails(T)
       PROVE  Dispatching!Next
  BY <1>10, <1>13, RejectServes DEF CallFails, AcceptsCall
<1>14. ASSUME NEW T \in SUBSET Orders, CallTypeError(T)
       PROVE  Dispatching!Next
  <2>1. /\ pc = "call" /\ pc' = "call" /\ Trade(T)
        /\ UNCHANGED <<at, result, acked, passed>>
    BY <1>14 DEF CallTypeError, AcceptsCall
  <2>2. Done \subseteq Done'
    BY <2>1 DEF Done
  <2> QED BY <1>10, <2>1, <2>2, BrokerStep
<1> QED
  BY <1>1, <1>2, <1>3, <1>4, <1>5, <1>6, <1>7, <1>8, <1>9, <1>11, <1>12, <1>13,
     <1>14 DEF Next, Step, Dispatching!Next

(* The router implements Dispatch, whatever the chain and the batch: the   *)
(* brokers get one turn each and in order, a live one trades only after    *)
(* its positions are reconciled, and only the broker whose turn it is can  *)
(* make the answer ok, by acknowledging every order in full.               *)
THEOREM ImplementsDispatch == Spec => DispatchSpec
<1>1. Init => Dispatching!Init /\ Turned
  <2>1. Init => ~Trying
    BY DEF Init, Trying
  <2> QED BY <2>1 DEF Init, Dispatching!Init, Broker, Turned
<1>2. IInv /\ IInv' /\ Turned /\ [Next]_vars => [Dispatching!Next]_(Dispatching!vars)
  BY NextDispatches
<1>3. IInv /\ Turned /\ [Next]_vars => Turned'
  BY NextTurned
<1> QED
  BY <1>1, <1>2, <1>3, Invariance, PTL DEF Spec, DispatchSpec, Dispatching!Spec
=============================================================================
