------------------------------ MODULE Dispatch ------------------------------
(***************************************************************************)
(* What a caller of apply_new_portfolio_orders_router is promised: the     *)
(* brokers of the chain get their turns in order and one turn each; in its *)
(* turn a live broker trades only once its positions are reconciled; the   *)
(* answer is ok only when the broker whose turn it is has acknowledged     *)
(* every order, blocked only in the turn of a live broker, and failed only *)
(* after all turns; and after the answer nothing is traded.  BrokerRouter  *)
(* implements this module.                                                 *)
(***************************************************************************)
EXTENDS Naturals, Sequences

CONSTANTS
  Chain,     \* the brokers, in order
  Live,      \* those whose positions are reconciled first
  Order,     \* the orders of the batch
  Void       \* those that are for nothing

VARIABLES
  state,     \* "closed", "between" two turns, or "trying" a broker
  turn,      \* the turns of this call so far
  cleared,   \* in this turn: the positions are reconciled
  served,    \* in this turn, and by an ok: the orders acknowledged in full
  traded,    \* the orders that each broker has ever traded
  answer     \* the answer of this call

vars == <<state, turn, cleared, served, traded, answer>>

Init ==
  /\ state = "closed" /\ turn = 0 /\ cleared = FALSE /\ served = {}
  /\ traded = [b \in {Chain[i] : i \in DOMAIN Chain} |-> {}]
  /\ answer = "none"

Call ==
  /\ state = "closed"
  /\ state' = "between" /\ served' = {} /\ answer' = "none"
  /\ UNCHANGED <<turn, cleared, traded>>

Turn ==
  /\ state = "between" /\ turn < Len(Chain)
  /\ state' = "trying" /\ turn' = turn + 1
  /\ cleared' = FALSE /\ served' = Void
  /\ UNCHANGED <<traded, answer>>

Clear ==
  /\ state = "trying"
  /\ cleared' = TRUE
  /\ UNCHANGED <<state, turn, served, traded, answer>>

(* The broker that has the turn trades the orders T.                       *)
Trade(T) ==
  /\ state = "trying"
  /\ T # {} /\ Chain[turn] \in Live => cleared
  /\ traded' = [traded EXCEPT ![Chain[turn]] = @ \cup T]

Answer(a, S) ==
  /\ state' = "closed" /\ turn' = 0 /\ cleared' = FALSE
  /\ served' = S /\ answer' = a

(* It acknowledges some orders and goes on, ...                            *)
Serve(T, S) ==
  /\ Trade(T)
  /\ served' = served \cup S
  /\ UNCHANGED <<state, turn, cleared, answer>>

(* ... or acknowledges the last of them, ...                               *)
Finish(T) == Trade(T) /\ Answer("ok", Order)

(* ... or its turn ends, and what it acknowledged is of no account.        *)
Fail(T) ==
  /\ Trade(T)
  /\ state' = "between" /\ cleared' = FALSE /\ served' = {}
  /\ UNCHANGED <<turn, answer>>

Block ==
  /\ state = "trying" /\ Chain[turn] \in Live /\ ~cleared
  /\ Answer("blocked", {})
  /\ UNCHANGED traded

GiveUp ==
  /\ state = "between" /\ turn = Len(Chain)
  /\ Answer("failed", {})
  /\ UNCHANGED traded

Next ==
  \/ Call \/ Turn \/ Clear \/ Block \/ GiveUp
  \/ \E T \in SUBSET Order :
       Finish(T) \/ Fail(T) \/ \E S \in SUBSET Order : Serve(T, S)

Spec == Init /\ [][Next]_vars
=============================================================================
