----------------------------- MODULE BrokerSim -----------------------------
(***************************************************************************)
(* The paper broker: apply_new_portfolio_orders of dev_core/broker_sim.py, *)
(* which brings the positions of a simulated account to the targets of the *)
(* latest batch of portfolio orders.                                       *)
(*                                                                         *)
(* The handle is in autocommit mode: every statement is a step of its own, *)
(* and an exception between two of them (a locked database, a handle that  *)
(* a called function closed, the end of the process) leaves the tables as  *)
(* they are.  The next run starts again from the latest batch.             *)
(*                                                                         *)
(* The kill switch that is asked before each order calls init_db, which    *)
(* closes the handle it gets.  shared says whether that is the broker's    *)
(* own one: TRUE is storage.connect as it stands, with one handle for each *)
(* thread; FALSE is what the broker is written for, a handle of its own.   *)
(* NothingIsTraded of Scripts is the answer of the kill switch.            *)
(*                                                                         *)
(* Quantities are units at a constant price of 1 and without costs, so the *)
(* worth of the account, cash plus positions, must not change.  A batch is *)
(* a sequence of orders, each a symbol and the units to hold.              *)
(***************************************************************************)
EXTENDS Integers, SequencesExt, FiniteSetsExt

CONSTANTS
  Handles,     \* the values shared may have
  Proc,        \* the runs of the job, one after the other or at once
  Symbol,      \* the symbols traded
  Batches,     \* the batches the portfolio job writes, in order
  Chunk,       \* the most units one fill may have
  Budget,      \* the most units one pass may trade
  MaxAborts    \* bound: runs that an exception ends

Order == [symbol : Symbol, units : Int]

ASSUME HandlesAssumption == Handles \subseteq BOOLEAN
ASSUME SymbolAssumption == IsFiniteSet(Symbol)
ASSUME BatchesAssumption == Batches \in Seq(Seq(Order))
ASSUME SizesAssumption == Chunk \in Nat \ {0} /\ Budget \in Nat /\ MaxAborts \in Nat

Batch == 1..Len(Batches)

VARIABLES
  latest,      \* the newest batch in portfolio_orders, 0 before the first
  applied,     \* broker_meta.last_portfolio_orders_id
  cash,        \* broker_account.cash
  pos,         \* broker_positions.qty
  fills,       \* the units in broker_fills, by batch and symbol
  state,       \* the states in broker_order_state, by batch and order
  run,         \* the local variables of each run
  aborts,      \* the runs that ended in an exception
  shared       \* the broker and the kill switch share one database handle

vars == <<latest, applied, cash, pos, fills, state, run, aborts, shared>>

-----------------------------------------------------------------------------
(* One run: the batch it read, the order it is at, its copy of the cash    *)
(* and of the position, what is left to trade and of the budget; open, its *)
(* handle is open; cut is a ghost, the symbols whose orders it passed over *)
(* or left half done.                                                      *)
Place ==
  {"idle", "guard", "account", "next", "decide", "trade", "fill", "filled",
   "cash", "mark", "revalue", "meta"}

Run ==
  [pc : Place, batch : Batch \cup {0}, order : Nat, cash : Int, cur : Int, left : Int,
   last : Int, budget : Int, done : BOOLEAN, open : BOOLEAN, cut : SUBSET Symbol]

IdleRun ==
  [pc |-> "idle", batch |-> 0, order |-> 0, cash |-> 0, cur |-> 0, left |-> 0,
   last |-> 0, budget |-> 0, done |-> FALSE, open |-> TRUE, cut |-> {}]

OrderIds == UNION {{<<b, i>> : i \in DOMAIN Batches[b]} : b \in Batch}

TypeOK ==
  /\ latest \in Batch \cup {0}
  /\ applied \in Batch \cup {0}
  /\ cash \in Int
  /\ pos \in [Symbol -> Int]
  /\ fills \in [Batch -> [Symbol -> Int]]
  /\ state \in [OrderIds -> SUBSET {"PENDING", "FILLED", "EXPIRED"}]
  /\ run \in [Proc -> Run]
  /\ aborts \in 0..MaxAborts
  /\ shared \in Handles

Init ==
  /\ latest = 0
  /\ applied = 0
  /\ cash = 0
  /\ pos = [s \in Symbol |-> 0]
  /\ fills = [b \in Batch |-> [s \in Symbol |-> 0]]
  /\ state = [o \in OrderIds |-> {}]
  /\ run = [p \in Proc |-> IdleRun]
  /\ aborts = 0
  /\ shared \in Handles

At(p, pc) == run[p].pc = pc
Id(p) == <<run[p].batch, run[p].order>>
OrderOf(p) == Batches[run[p].batch][run[p].order]
SymbolOf(p) == OrderOf(p).symbol

Set(p, r) == run' = [run EXCEPT ![p] = r]

Smaller(x, y) == IF x < y THEN x ELSE y
Units(x) == IF x < 0 THEN -x ELSE x

-----------------------------------------------------------------------------
(* portfolio.py writes the next batch, with a larger id.                   *)
NewBatch ==
  /\ latest < Len(Batches)
  /\ latest' = latest + 1
  /\ UNCHANGED <<applied, cash, pos, fills, state, run, aborts, shared>>

(* Mutant of Load: the id of the batch is one too large.                   *)
LoadNext(p) ==
  /\ At(p, "idle")
  /\ Set(p, [IdleRun EXCEPT !.pc = "guard", !.batch = latest + 1])
  /\ UNCHANGED <<latest, applied, cash, pos, fills, state, aborts, shared>>

(* load_latest_execution_intents.  Without a batch the account is revalued *)
(* and the run ends.                                                       *)
Load(p) ==
  /\ At(p, "idle")
  /\ Set(p, [IdleRun EXCEPT !.pc = IF latest = 0 THEN "mark" ELSE "guard",
                            !.batch = latest, !.done = latest = 0])
  /\ UNCHANGED <<latest, applied, cash, pos, fills, state, aborts, shared>>

(* A batch whose id is not above the last one applied is only revalued.    *)
(* Mutants: no guard; one batch too early.                                 *)
AlreadyAppliedNever(p) == FALSE

AlreadyAppliedEarly(p) == applied + 1 >= run[p].batch

AlreadyApplied(p) == applied >= run[p].batch

Guard(p) ==
  /\ At(p, "guard")
  /\ IF AlreadyApplied(p)
       THEN Set(p, [run[p] EXCEPT !.pc = "mark", !.done = TRUE])
       ELSE Set(p, [run[p] EXCEPT !.pc = "account"])
  /\ UNCHANGED <<latest, applied, cash, pos, fills, state, aborts, shared>>

ReadAccount(p) ==
  /\ At(p, "account")
  /\ Set(p, [run[p] EXCEPT !.pc = "next", !.cash = cash, !.budget = Budget])
  /\ UNCHANGED <<latest, applied, cash, pos, fills, state, aborts, shared>>

(* The equity is not positive: the account is revalued and the batch is    *)
(* marked as applied without a trade.                                      *)
SkipBatch(p) ==
  /\ At(p, "account")
  /\ Set(p, [run[p] EXCEPT !.pc = "mark", !.cut = Symbol])
  /\ UNCHANGED <<latest, applied, cash, pos, fills, state, aborts, shared>>

(* The head of the loop: a PENDING row for the next order, or the end.     *)
NextOrder(p) ==
  /\ At(p, "next") /\ run[p].open
  /\ IF run[p].order < Len(Batches[run[p].batch])
       THEN LET id == <<run[p].batch, run[p].order + 1>> IN
            /\ Set(p, [run[p] EXCEPT !.pc = "decide", !.order = @ + 1])
            /\ state' = [state EXCEPT ![id] = @ \cup {"PENDING"}]
       ELSE Set(p, [run[p] EXCEPT !.pc = "cash"]) /\ UNCHANGED state
  /\ UNCHANGED <<latest, applied, cash, pos, fills, aborts, shared>>

(* execution_allowed raises on the closed handle, or finds the guard of    *)
(* capital raising on it: on a shared handle no order passes.              *)
MayPass == ~shared

(* The kill switch refuses the symbol, or raises: continue, with the row   *)
(* left PENDING.                                                           *)
Refuse(p) ==
  /\ At(p, "decide")
  /\ Set(p, [run[p] EXCEPT !.pc = "next", !.cut = @ \cup {SymbolOf(p)},
                           !.open = ~shared])
  /\ UNCHANGED <<latest, applied, cash, pos, fills, state, aborts, shared>>

(* "Cannot operate on a closed database": the INSERT for the next order or *)
(* the UPDATE of the cash raises and the run ends.                         *)
ClosedHandle(p) ==
  /\ At(p, "next") /\ ~run[p].open
  /\ Set(p, IdleRun)
  /\ UNCHANGED <<latest, applied, cash, pos, fills, state, aborts, shared>>

(* The price is missing or stale or the weight is no number: continue.     *)
PassOver(p) ==
  /\ At(p, "decide") /\ MayPass
  /\ Set(p, [run[p] EXCEPT !.pc = "next", !.cut = @ \cup {SymbolOf(p)}])
  /\ UNCHANGED <<latest, applied, cash, pos, fills, state, aborts, shared>>

(* delta = target - current, from the position as it is now.               *)
(* Mutant: the target itself is traded.                                    *)
DeltaFromZero(p) == OrderOf(p).units

Delta(p) == OrderOf(p).units - pos[SymbolOf(p)]

ReadPosition(p) ==
  /\ At(p, "decide") /\ MayPass
  /\ Set(p, [run[p] EXCEPT !.pc = IF Delta(p) = 0 THEN "next" ELSE "trade",
                           !.cur = pos[SymbolOf(p)], !.left = Delta(p),
                           !.cut = @ \ {SymbolOf(p)}])
  /\ UNCHANGED <<latest, applied, cash, pos, fills, state, aborts, shared>>

(* TTL enforcement, before each chunk: only a row still PENDING expires.   *)
Expire(p) ==
  /\ At(p, "trade") /\ run[p].left # 0
  /\ state' = [state EXCEPT ![Id(p)] =
       IF "PENDING" \in @ THEN (@ \ {"PENDING"}) \cup {"EXPIRED"} ELSE @]
  /\ Set(p, [run[p] EXCEPT !.pc = "next", !.cut = @ \cup {SymbolOf(p)}])
  /\ UNCHANGED <<latest, applied, cash, pos, fills, aborts, shared>>

(* The loop ends: nothing is left, or the budget of the pass is spent.     *)
EndOrder(p) ==
  /\ At(p, "trade")
  /\ run[p].left = 0 \/ run[p].budget = 0
  /\ Set(p, [run[p] EXCEPT !.pc = "next",
               !.cut = IF run[p].left = 0 THEN @ ELSE @ \cup {SymbolOf(p)}])
  /\ UNCHANGED <<latest, applied, cash, pos, fills, state, aborts, shared>>

(* The size of a chunk: at most what is left, the chunk cap and the        *)
(* budget; a LIMIT order may fill any part of that.                        *)
(* Mutant: what is left does not cap it.                                   *)
ChunkCapOnly(p) == Smaller(Chunk, run[p].budget)

ChunkCap(p) == Smaller(Units(run[p].left), Smaller(Chunk, run[p].budget))

(* _write_position stores the quantity read before, plus the chunk; the    *)
(* cash is debited or credited in a local variable only.                   *)
TradeChunk(p, n) ==
  /\ At(p, "trade") /\ run[p].left # 0
  /\ n \in 1..ChunkCap(p)
  /\ LET q == IF run[p].left > 0 THEN n ELSE -n IN
     /\ pos' = [pos EXCEPT ![SymbolOf(p)] = run[p].cur + q]
     /\ Set(p, [run[p] EXCEPT !.pc = "fill", !.last = q, !.cash = @ - q,
                              !.cur = @ + q, !.left = @ - q, !.budget = @ - n])
  /\ UNCHANGED <<latest, applied, cash, fills, state, aborts, shared>>

(* Mutant: no row.                                                         *)
WriteNoFill(p) ==
  /\ At(p, "fill")
  /\ Set(p, [run[p] EXCEPT !.pc = "filled"])
  /\ UNCHANGED <<latest, applied, cash, pos, fills, state, aborts, shared>>

WriteFill(p) ==
  /\ At(p, "fill")
  /\ fills' = [fills EXCEPT ![run[p].batch][SymbolOf(p)] = @ + run[p].last]
  /\ Set(p, [run[p] EXCEPT !.pc = "filled"])
  /\ UNCHANGED <<latest, applied, cash, pos, state, aborts, shared>>

MarkFilled(p) ==
  /\ At(p, "filled")
  /\ state' = [state EXCEPT ![Id(p)] =
       IF "PENDING" \in @ THEN (@ \ {"PENDING"}) \cup {"FILLED"} ELSE @]
  /\ Set(p, [run[p] EXCEPT !.pc = "trade"])
  /\ UNCHANGED <<latest, applied, cash, pos, fills, aborts, shared>>

(* Mutant: the account keeps the cash it had.                              *)
PersistNothing(p) ==
  /\ At(p, "cash")
  /\ cash' = cash
  /\ Set(p, [run[p] EXCEPT !.pc = "mark"])
  /\ UNCHANGED <<latest, applied, pos, fills, state, aborts, shared>>

PersistCash(p) ==
  /\ At(p, "cash")
  /\ cash' = run[p].cash
  /\ Set(p, [run[p] EXCEPT !.pc = "mark"])
  /\ UNCHANGED <<latest, applied, pos, fills, state, aborts, shared>>

(* _mark_to_market reads the account and writes its cash back with the     *)
(* new equity.                                                             *)
Mark(p) ==
  /\ At(p, "mark")
  /\ Set(p, [run[p] EXCEPT !.pc = "revalue", !.cash = cash])
  /\ UNCHANGED <<latest, applied, cash, pos, fills, state, aborts, shared>>

Revalue(p) ==
  /\ At(p, "revalue")
  /\ cash' = run[p].cash
  /\ Set(p, IF run[p].done THEN IdleRun ELSE [run[p] EXCEPT !.pc = "meta"])
  /\ UNCHANGED <<latest, applied, pos, fills, state, aborts, shared>>

(* The batch is marked as applied, last of all.                            *)
SetMeta(p) ==
  /\ At(p, "meta")
  /\ applied' = run[p].batch
  /\ Set(p, IdleRun)
  /\ UNCHANGED <<latest, cash, pos, fills, state, aborts, shared>>

Abort(p) ==
  /\ ~At(p, "idle")
  /\ aborts < MaxAborts
  /\ aborts' = aborts + 1
  /\ Set(p, IdleRun)
  /\ UNCHANGED <<latest, applied, cash, pos, fills, state, shared>>

Step(p) ==
  \/ Load(p) \/ Guard(p) \/ ReadAccount(p) \/ SkipBatch(p)
  \/ NextOrder(p) \/ Refuse(p) \/ ClosedHandle(p) \/ PassOver(p)
  \/ ReadPosition(p) \/ Expire(p) \/ EndOrder(p)
  \/ \E n \in 1..Chunk : TradeChunk(p, n)
  \/ WriteFill(p) \/ MarkFilled(p) \/ PersistCash(p) \/ Mark(p) \/ Revalue(p)
  \/ SetMeta(p) \/ Abort(p)

Next == NewBatch \/ \E p \in Proc : Step(p)

Spec == Init /\ [][Next]_vars

(* The job is started again and again, and each run takes its next step.   *)
FairSpec == Spec /\ \A p \in Proc : WF_vars(Step(p))

-----------------------------------------------------------------------------
Idle == \A p \in Proc : At(p, "idle")

Filled(s) == SumFunctionOnSet([b \in Batch |-> fills[b][s]], Batch)

Held == SumFunctionOnSet(pos, Symbol)

(* The units a batch asks for: a later order for a symbol stands.          *)
TargetsOf(b) ==
  [s \in {Batches[b][i].symbol : i \in DOMAIN Batches[b]} |->
     Batches[b][SelectLastInSeq(Batches[b], LAMBDA o : o.symbol = s)].units]

(* While the runs come one after the other, a batch is marked as applied   *)
(* at most once (broker_sim.py:543).                                       *)
AppliedOnce ==
  [][\A p \in Proc : SetMeta(p) => applied < run[p].batch]_vars

(* A batch that is marked as applied has brought every symbol to its       *)
(* target, unless the run passed an order over, or ran out of time or of   *)
(* budget: what earlier runs left half done has been completed.            *)
AppliedMeansReached ==
  [][\A p \in Proc : SetMeta(p) =>
       LET want == TargetsOf(run[p].batch) IN
       \A s \in DOMAIN want \ run[p].cut : pos[s] = want[s]]_vars

(* A position moves only towards the target of the order being traded and  *)
(* not beyond it, however often a batch is started again.                  *)
NoOvershoot ==
  [][\A s \in Symbol : pos'[s] # pos[s] =>
       \E p \in Proc :
         /\ At(p, "trade") /\ SymbolOf(p) = s
         /\ LET u == OrderOf(p).units IN
            pos'[s] \in IF pos[s] < u THEN pos[s]..u ELSE u..pos[s]]_vars

(* Trading moves worth between cash and positions and creates none, while  *)
(* no exception ends a run between the two writes.                         *)
WorthIsConserved == aborts = 0 /\ Idle => cash + Held = 0

(* The fills explain the positions, but for one chunk for each run that an *)
(* exception ended between the two writes.                                 *)
FillsExplainPositions ==
  Idle => \A s \in Symbol : Units(pos[s] - Filled(s)) <= aborts * Chunk

(* The pass of a run that got past the guard, as Rebalance has it: the     *)
(* batch, the order and the symbols cut.                                   *)
Working(p) == run[p].pc \notin {"idle", "guard"} /\ ~run[p].done

PassOf(p) ==
  [batch |-> run[p].batch, order |-> run[p].order, left |-> run[p].cut]

Passes == {PassOf(p) : p \in {q \in Proc : Working(q)}}

(* What the portfolio job is promised.                                     *)
Broker == INSTANCE Rebalance WITH passes <- Passes

RebalanceSpec == Broker!Spec

(* With a handle of its own the broker keeps up, though exceptions end     *)
(* some of its runs.                                                       *)
OwnHandleKeepsUp == []<>(shared \/ applied = latest)
=============================================================================
