----------------------------- MODULE Rebalance -----------------------------
(***************************************************************************)
(* What the portfolio job is promised by a paper broker whose passes come  *)
(* one after the other and may be cut off anywhere: only a batch newer     *)
(* than the last one applied is taken up; its orders are taken in turn,    *)
(* and a position moves only towards the target of the order whose turn it *)
(* is; a batch counts as applied when the last order for every symbol is   *)
(* at its target, but for the symbols this pass gave up; and a pass that   *)
(* is cut off leaves nothing behind but the positions, so that the next    *)
(* one completes the batch.  BrokerSim implements this module.             *)
(***************************************************************************)
EXTENDS Integers, Sequences

CONSTANTS
  Symbol,
  Batches    \* the batches in order, each a sequence of orders

VARIABLES
  latest,    \* the newest batch
  applied,   \* the last batch applied
  pos,       \* the position in each symbol
  passes     \* the pass under way, if any: its batch, the order whose turn
             \* it is, and the symbols given up

vars == <<latest, applied, pos, passes>>

Init ==
  /\ latest = 0 /\ applied = 0
  /\ pos = [s \in Symbol |-> 0]
  /\ passes = {}

Publish ==
  /\ latest < Len(Batches)
  /\ latest' = latest + 1
  /\ UNCHANGED <<applied, pos, passes>>

Begin(b) ==
  /\ passes = {}
  /\ applied < b /\ b <= latest
  /\ passes' = {[batch |-> b, order |-> 0, left |-> {}]}
  /\ UNCHANGED <<latest, applied, pos>>

Turn(x) ==
  /\ x.order < Len(Batches[x.batch])
  /\ passes' = {[batch |-> x.batch, order |-> x.order + 1, left |-> x.left]}
  /\ UNCHANGED <<latest, applied, pos>>

(* The symbol of the order is given up, or taken up again, ...             *)
Leave(x, S) ==
  /\ x.order \in DOMAIN Batches[x.batch]
  /\ LET s == Batches[x.batch][x.order].symbol IN
     S \in {x.left \cup {s}, x.left \ {s}}
  /\ passes' = {[batch |-> x.batch, order |-> x.order, left |-> S]}
  /\ UNCHANGED <<latest, applied, pos>>

(* ... or the whole batch is, before its first order.                      *)
Skip(x) ==
  /\ x.order = 0
  /\ passes' = {[batch |-> x.batch, order |-> 0, left |-> Symbol]}
  /\ UNCHANGED <<latest, applied, pos>>

(* The position of the order's symbol moves to a place on its way to the   *)
(* target, and no further.                                                 *)
Way(x) ==
  IF x.order \in DOMAIN Batches[x.batch]
    THEN LET o == Batches[x.batch][x.order] IN
         IF pos[o.symbol] < o.units THEN pos[o.symbol]..o.units
                                    ELSE o.units..pos[o.symbol]
    ELSE {}

Move(x, v) ==
  /\ pos' = [pos EXCEPT ![Batches[x.batch][x.order].symbol] = v]
  /\ UNCHANGED <<latest, applied, passes>>

(* Order i is the last of batch b for its symbol.                          *)
Stands(b, i) ==
  \A k \in DOMAIN Batches[b] : k > i => Batches[b][k].symbol # Batches[b][i].symbol

Apply(x) ==
  /\ applied < x.batch
  /\ \A i \in DOMAIN Batches[x.batch] :
       LET o == Batches[x.batch][i] IN
       Stands(x.batch, i) => o.symbol \in x.left \/ pos[o.symbol] = o.units
  /\ applied' = x.batch /\ passes' = {}
  /\ UNCHANGED <<latest, pos>>

CutOff(x) ==
  /\ passes' = {}
  /\ UNCHANGED <<latest, applied, pos>>

Next ==
  \/ Publish
  \/ \E b \in DOMAIN Batches : Begin(b)
  \/ \E x \in passes :
       \/ Turn(x) \/ Skip(x) \/ Apply(x) \/ CutOff(x)
       \/ \E S \in SUBSET Symbol : Leave(x, S)
       \/ \E v \in Way(x) : Move(x, v)

Spec == Init /\ [][Next]_vars
=============================================================================
