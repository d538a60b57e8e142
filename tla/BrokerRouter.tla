---------------------------- MODULE BrokerRouter ----------------------------
(***************************************************************************)
(* The broker router: dev_core/broker_router.py.  A call gives the orders  *)
(* of one batch to the brokers of the failover chain, one after the other, *)
(* until one answers ok.  A live broker is asked only after its positions  *)
(* were reconciled.  Unless the batch is empty or the call a dry run, each *)
(* order is cut into slices and each slice is a call of the adapter.       *)
(*                                                                         *)
(* An adapter is modelled by what broker_sim, broker_ibkr_gateway and      *)
(* broker_alpaca_rest let the router see of it: it answers ok, answers not *)
(* ok or raises, and by then it may have traded any of the orders it was   *)
(* given (an order is a target: whatever the quantity of the slice, the    *)
(* adapter trades the whole difference).  A mark remembers the batch, but  *)
(* only for an adapter that was told its id.                               *)
(*                                                                         *)
(* A quantity is a number of units, 0 when the order has no "qty".         *)
(***************************************************************************)
EXTENDS Integers, Sequences

CONSTANTS
  Chain,       \* BROKER_FAILOVER: the names of the brokers, in order
  Live,        \* the brokers whose positions are reconciled first
  OldApi,      \* the brokers whose adapter takes no override_order_id
  Trading,     \* the brokers whose adapter can get as far as an order
  Qty,         \* the orders of the batch, each by its quantity
  HasId,       \* the caller gives the id of the batch
  Slicing,     \* EXEC_ADAPTIVE_SLICING
  MaxCalls,    \* bound: calls of the router with this batch
  MaxErrors    \* bound: exceptions inside an adapter

Broker == {Chain[i] : i \in DOMAIN Chain}

ASSUME ChainAssumption == Chain \in Seq(STRING) /\ Chain # <<>>
ASSUME QtyAssumption == Qty \in Seq(Nat)
ASSUME SwitchAssumption == HasId \in BOOLEAN /\ Slicing \in BOOLEAN
ASSUME BoundAssumption == MaxCalls \in Nat /\ MaxErrors \in Nat

Orders == DOMAIN Qty
Mode == {"given", "noid", "bare"}

VARIABLES
  pc,          \* where the call is
  dry,         \* dry_run
  at,          \* the index in the chain
  order,       \* the index of the order in the loop over the slices
  left,        \* remaining: what is left of that order
  slice,       \* slice_qty
  mode,        \* the arguments _call_adapter passes
  good,        \* all_ok
  result,      \* what the call returned
  mark,        \* the brokers that remember this batch as applied
  acked,       \* ghost: the units the broker at hand acknowledged, by order
  traded,      \* ghost: the orders each broker has traded so far
  passed,      \* ghost: the indices whose gate let this call pass
  calls, errors

local == <<at, order, left, slice, mode, good>>
ghosts == <<acked, traded, passed>>
vars == <<pc, dry, at, order, left, slice, mode, good, result, mark,
          acked, traded, passed, calls, errors>>

TypeOK ==
  /\ pc \in {"idle", "broker", "gate", "order", "plan", "call"}
  /\ dry \in BOOLEAN
  /\ at \in 1..(Len(Chain) + 1)
  /\ order \in 0..Len(Qty)
  /\ left \in Nat /\ slice \in Nat
  /\ mode \in Mode
  /\ good \in BOOLEAN
  /\ result \in {"none", "ok", "blocked", "failed"}
  /\ mark \in SUBSET Broker
  /\ acked \in [Orders -> Nat]
  /\ traded \in [Broker -> SUBSET Orders]
  /\ passed \in SUBSET DOMAIN Chain
  /\ calls \in 0..MaxCalls
  /\ errors \in 0..MaxErrors

Init ==
  /\ pc = "idle" /\ dry = FALSE
  /\ at = 1 /\ order = 0 /\ left = 0 /\ slice = 0 /\ mode = "given" /\ good = TRUE
  /\ result = "none"
  /\ mark = {}
  /\ acked = [o \in Orders |-> 0] /\ passed = {}
  /\ traded = [b \in Broker |-> {}]
  /\ calls = 0 /\ errors = 0

Name == Chain[at]

(* Slices are cut only for orders that are given and meant.                *)
Sliced == Slicing /\ ~dry /\ Qty # <<>>

-----------------------------------------------------------------------------
(* The chain of brokers.                                                   *)

(* The job is started again while its batch is the latest.                 *)
Start(d) ==
  /\ pc = "idle" /\ calls < MaxCalls
  /\ calls' = calls + 1
  /\ pc' = "broker" /\ dry' = d /\ at' = 1 /\ result' = "none" /\ passed' = {}
  /\ UNCHANGED <<order, left, slice, mode, good, mark, acked, traded, errors>>

Begin ==
  /\ order' = 0 /\ left' = 0 /\ slice' = 0 /\ mode' = "given" /\ good' = TRUE
  /\ acked' = [o \in Orders |-> 0]

(* Live brokers have a gate, except in a dry run.                          *)
(* Mutant: the simulator's exemption for every broker.                     *)
GatedNever == FALSE

Gated == Name \in Live /\ ~dry

Attempt ==
  /\ pc = "broker" /\ at <= Len(Chain)
  /\ pc' = IF Gated THEN "gate" ELSE IF Sliced THEN "order" ELSE "call"
  /\ Begin
  /\ UNCHANGED <<dry, at, result, mark, traded, passed, calls, errors>>

(* all_brokers_failed.                                                     *)
Exhausted ==
  /\ pc = "broker" /\ at > Len(Chain)
  /\ pc' = "idle" /\ result' = "failed"
  /\ UNCHANGED <<dry, local, mark, ghosts, calls, errors>>

(* Mutant: the same broker again.                                          *)
FailoverToSelf ==
  /\ pc' = "broker" /\ at' = at
  /\ UNCHANGED <<order, left, slice, mode, good, result>>

Failover ==
  /\ pc' = "broker" /\ at' = at + 1
  /\ UNCHANGED <<order, left, slice, mode, good, result>>

GatePass ==
  /\ pc = "gate"
  /\ pc' = IF Sliced THEN "order" ELSE "call"
  /\ passed' = passed \cup {at}
  /\ UNCHANGED <<dry, local, result, mark, acked, traded, calls, errors>>

(* "If reconciliation gate trips -> DO NOT failover".                      *)
GateBlock ==
  /\ pc = "gate"
  /\ pc' = "idle" /\ result' = "blocked"
  /\ UNCHANGED <<dry, local, mark, ghosts, calls, errors>>

(* An exception in the gate is one of the broker: failover.                *)
GateRaises ==
  /\ pc = "gate"
  /\ Failover
  /\ UNCHANGED <<dry, mark, ghosts, calls, errors>>

(* The adapter or the slicer could not be imported, or no adapter has the  *)
(* name: the answer is not ok, before anything is sent.                    *)
NoAdapter ==
  /\ \/ pc = "order" /\ order = 0
     \/ pc = "call" /\ ~Sliced /\ mode = "given"
  /\ Failover
  /\ UNCHANGED <<dry, mark, ghosts, calls, errors>>

-----------------------------------------------------------------------------
(* _adaptive_execute_orders.                                               *)

OrderFails == good' = FALSE

(* An order without a quantity is passed over.                             *)
NextOrder ==
  /\ pc = "order" /\ order < Len(Qty)
  /\ order' = order + 1
  /\ left' = Qty[order + 1]
  /\ pc' = IF Qty[order + 1] = 0 THEN "order" ELSE "plan"
  /\ UNCHANGED <<dry, at, slice, mode, good, result, mark, ghosts, calls, errors>>

EndOrders ==
  /\ pc = "order" /\ order = Len(Qty)
  /\ IF good THEN pc' = "idle" /\ result' = "ok" /\ UNCHANGED local
             ELSE Failover
  /\ UNCHANGED <<dry, mark, ghosts, calls, errors>>

(* The spread and the slippage are read once for each order, so only its   *)
(* first plan can abort.                                                   *)
PlanAbort ==
  /\ pc = "plan" /\ left = Qty[order]
  /\ pc' = "order" /\ OrderFails
  /\ UNCHANGED <<dry, at, order, left, slice, mode, result, mark, ghosts, calls, errors>>

(* compute_slice_plan: at most a quarter (SLICE_MAX_PCT), at least one     *)
(* unit (SLICE_MIN_QTY), never more than what is left.                     *)
(* Mutant: three units at least, and no look at what is left.              *)
SliceUncapped(n) == n = 3

SliceSize(n) == n \in 1..(IF left \div 4 > 1 THEN left \div 4 ELSE 1)

Plan(n) ==
  /\ pc = "plan" /\ SliceSize(n)
  /\ slice' = n /\ mode' = "given" /\ pc' = "call"
  /\ UNCHANGED <<dry, at, order, left, good, result, mark, ghosts, calls, errors>>

-----------------------------------------------------------------------------
(* _call_adapter: the adapter, and its fallbacks after a TypeError.        *)

(* The orders the adapter gets: the slice, the batch, or, without any      *)
(* argument, those it reads from the database itself.                      *)
Given == IF Sliced /\ mode # "bare" THEN {order} ELSE Orders

(* The id of the batch, from the router or from the database.              *)
Identified == \/ mode = "given" /\ HasId
              \/ mode = "bare"

(* What the adapter may trade before it ends.                              *)
MayTrade(T) ==
  /\ T \subseteq Given
  /\ T # {} => Name \in Trading /\ ~dry

Trade(T) ==
  /\ MayTrade(T)
  /\ traded' = [traded EXCEPT ![Name] = @ \cup T]

AcceptsCall == pc = "call" /\ ~(mode = "given" /\ Name \in OldApi)

(* The adapter does not know an argument: nothing has happened yet.        *)
CallUnknownArgument ==
  /\ pc = "call" /\ mode = "given" /\ Name \in OldApi
  /\ mode' = "noid"
  /\ UNCHANGED <<pc, dry, at, order, left, slice, good, result, mark, ghosts, calls, errors>>

(* The adapter answered ok.                                                *)
(* Mutant: the order is taken for done after its first slice.              *)
AcknowledgeFirst ==
  IF Sliced
    THEN /\ acked' = [acked EXCEPT ![order] = @ + slice]
         /\ left' = 0 /\ pc' = "order"
         /\ UNCHANGED <<at, order, slice, mode, good, result>>
    ELSE /\ pc' = "idle" /\ result' = "ok" /\ acked' = Qty
         /\ UNCHANGED local

Acknowledge ==
  IF Sliced
    THEN /\ acked' = [acked EXCEPT ![order] = @ + slice]
         /\ left' = left - slice
         /\ pc' = IF left' = 0 THEN "order" ELSE "plan"
         /\ UNCHANGED <<at, order, slice, mode, good, result>>
    ELSE /\ pc' = "idle" /\ result' = "ok" /\ acked' = Qty
         /\ UNCHANGED local

(* The adapter answered not ok, or raised.                                 *)
Reject ==
  IF Sliced
    THEN /\ pc' = "order" /\ OrderFails
         /\ UNCHANGED <<at, order, left, slice, mode, result, acked>>
    ELSE Failover /\ UNCHANGED acked

(* already_applied                                                         *)
(* Mutant: the adapter does not look at its mark.                          *)
RemembersNever == FALSE

Remembers == Identified /\ ~dry /\ Name \in mark

CallAlreadyApplied ==
  /\ AcceptsCall /\ Remembers
  /\ Acknowledge
  /\ UNCHANGED <<dry, mark, traded, passed, calls, errors>>

(* The batch is marked when the adapter is through, even if it skipped     *)
(* some orders or was given only one slice.                                *)
CallOk(T) ==
  /\ AcceptsCall /\ ~Remembers
  /\ Trade(T)
  /\ mark' = IF Identified /\ ~dry THEN mark \cup {Name} ELSE mark
  /\ Acknowledge
  /\ UNCHANGED <<dry, passed, calls, errors>>

CallFails(T) ==
  /\ AcceptsCall /\ (Remembers => T = {})
  /\ Trade(T)
  /\ T # {} => errors < MaxErrors
  /\ errors' = IF T = {} THEN errors ELSE errors + 1
  /\ Reject
  /\ UNCHANGED <<dry, mark, passed, calls>>

(* A TypeError from inside the adapter looks like an unknown argument: it  *)
(* is called again, with fewer of them.                                    *)
CallTypeError(T) ==
  /\ AcceptsCall /\ (Remembers => T = {})
  /\ mode # "bare"
  /\ errors < MaxErrors
  /\ errors' = errors + 1
  /\ Trade(T)
  /\ mode' = IF mode = "given" THEN "noid" ELSE "bare"
  /\ UNCHANGED <<pc, dry, at, order, left, slice, good, result, mark, acked, passed, calls>>

-----------------------------------------------------------------------------
Step ==
  \/ Attempt \/ Exhausted \/ GatePass \/ GateBlock \/ GateRaises \/ NoAdapter
  \/ NextOrder \/ EndOrders \/ PlanAbort
  \/ \E o \in Orders : \E n \in 1..Qty[o] : Plan(n)
  \/ CallUnknownArgument \/ CallAlreadyApplied
  \/ \E T \in SUBSET Orders : CallOk(T) \/ CallFails(T) \/ CallTypeError(T)

Next == (\E d \in BOOLEAN : Start(d)) \/ Step

Spec == Init /\ [][Next]_vars

(* A call that was begun takes its next step.                              *)
FairSpec == Spec /\ WF_vars(Step)

-----------------------------------------------------------------------------
(* An ok of the router is one broker's: it has acknowledged the full       *)
(* quantity of every order, slice by slice, whatever other brokers did     *)
(* before (broker_router.py:486).                                          *)
OkMeansAcknowledged ==
  result = "ok" => \A o \in Orders : acked[o] = Qty[o]

(* A call that has its answer trades nothing more: in particular no other  *)
(* broker of the chain trades what a failed gate held back                 *)
(* (broker_router.py:462).                                                 *)
AnsweredCallsDoNotTrade ==
  [][result # "none" /\ calls' = calls => UNCHANGED <<traded, mark>>]_vars

(* A live broker trades only after its gate passed in the same call, on    *)
(* every path through slices and fallbacks (broker_router.py:349).  This   *)
(* follows from DispatchSpec, which the run checks.                        *)
LiveTradesAreReconciled ==
  [][\A b \in Broker \cap Live : traded'[b] # traded[b] => Name = b /\ at \in passed]_vars

(* The mark of the batch belongs to its first slice: a broker that is told *)
(* the id trades one order of a sliced batch and acknowledges the others   *)
(* unseen, in this call and in all later ones, while no exception leaves   *)
(* it unmarked (broker_router.py:216, broker_ibkr_gateway.py:229).         *)
OneOrderPerMark ==
  Sliced /\ HasId /\ errors = 0 =>
    \A b \in mark \ OldApi : \A o, p \in traded[b] : o = p

(* A broker that has marked the batch trades it no more, as long as        *)
(* nothing made a fallback drop the id; of a sliced batch, whose first     *)
(* slice sets the mark, it has traded one order (broker_sim.py:543,        *)
(* broker_router.py:216).                                                  *)
MarkEndsTrading ==
  /\ []OneOrderPerMark
  /\ [][\A b \in mark : errors' = 0 /\ b \notin OldApi /\ HasId
          => traded'[b] = traded[b]]_vars

(* What a caller of the router is promised, turn by turn: the broker at    *)
(* hand has the turn, and what it acknowledged is served.                  *)
Trying == pc \in {"gate", "order", "plan", "call"}

Dispatching ==
  INSTANCE Dispatch WITH
    Order <- Orders,
    Void <- {o \in Orders : Qty[o] = 0},
    state <- IF Trying THEN "trying" ELSE IF pc = "broker" THEN "between" ELSE "closed",
    turn <- IF Trying THEN at ELSE IF pc = "broker" THEN at - 1 ELSE 0,
    cleared <- Trying /\ at \in passed,
    served <- IF Trying \/ result = "ok" THEN {o \in Orders : acked[o] = Qty[o]} ELSE {},
    answer <- result

DispatchSpec == Dispatching!Spec

(* Every call comes to an answer: the slices of an order run out and the   *)
(* chain does (broker_router.py:175).                                      *)
CallsAreAnswered == pc # "idle" ~> pc = "idle"
=============================================================================
