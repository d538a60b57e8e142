------------------------- MODULE PipelineLockProofs -------------------------
(***************************************************************************)
(* For any set of processes, any TTL and an unbounded clock: the type      *)
(* invariant of PipelineLock, and that the lock does what it is for as     *)
(* long as no two acquires overlap and no run outlives its TTL.            *)
(*                                                                         *)
(* SerialExclusion is not inductive: a process about to write its row must *)
(* know that nobody runs, although it looked at the table before.  IInv    *)
(* says why: the row of a running process has not expired by anybody's     *)
(* clock, so a process that got past its SELECT saw that nobody was        *)
(* running, and nobody can have started since.                             *)
(***************************************************************************)
EXTENDS PipelineLock, TLAPS

(* Nobody carries a clock value from the future.                           *)
PastReads == \A p \in Proc : seen[p] <= now

Entering(p) == pc[p] \in {"select", "insert"}

(* While the history is serial: one process at a time is inside an         *)
(* acquire, a running process finds its own unexpired row, and a process   *)
(* about to write its row is alone.                                        *)
OneEnters ==
  \A p, q \in Proc : Entering(p) /\ Entering(q) => p = q

FreshRow ==
  \A p \in Proc : Running(p) =>
    /\ row # NoRow
    /\ row.owner = p
    /\ row.expires = seen[p] + TTL
    /\ now < seen[p] + TTL

AloneAtInsert ==
  \A p, q \in Proc : pc[p] = "insert" => ~Running(q)

IInv ==
  /\ TypeOK
  /\ PastReads
  /\ serial => OneEnters /\ FreshRow /\ AloneAtInsert

-----------------------------------------------------------------------------
LEMMA NewRowType ==
  ASSUME TypeOK, NEW p \in Proc
  PROVE  NewRow(p) \in Row /\ NewRow(p) # NoRow
BY TTLAssumption, NoRowAssumption DEF TypeOK, NewRow, Row

(* The type invariant holds in every reachable state.                      *)
THEOREM TypeCorrect == Spec => []TypeOK
<1>1. Init => TypeOK
  BY DEF Init, TypeOK
<1>2. TypeOK /\ [Next]_vars => TypeOK'
  <2> SUFFICES ASSUME TypeOK, [Next]_vars
               PROVE  TypeOK'
    OBVIOUS
  <2> USE DEF TypeOK
  <2>1. CASE Tick
    BY <2>1 DEF Tick
  <2>2. ASSUME NEW p \in Proc, Step(p)
        PROVE  TypeOK'
    <3>1. CASE AcquireBegin(p)
      BY <3>1 DEF AcquireBegin
    <3>2. CASE Select(p)
      BY <3>2 DEF Select
    <3>3. CASE Insert(p)
      BY <3>3, NewRowType DEF Insert
    <3>4. CASE InsertFails(p) \/ Release(p) \/ Crash(p)
      BY <3>4 DEF InsertFails, Release, Crash
    <3> QED BY <2>2, <3>1, <3>2, <3>3, <3>4 DEF Step
  <2>3. CASE UNCHANGED vars
    BY <2>3 DEF vars
  <2> QED BY <2>1, <2>2, <2>3 DEF Next
<1> QED BY <1>1, <1>2, PTL DEF Spec

-----------------------------------------------------------------------------
(* One step preserves the strengthening.                                   *)
LEMMA Inductive == IInv /\ [Next]_vars /\ TypeOK' => IInv'
<1> SUFFICES ASSUME IInv, [Next]_vars, TypeOK'
             PROVE  IInv'
  OBVIOUS
<1> USE TTLAssumption DEF IInv, TypeOK, PastReads, OneEnters, FreshRow,
        AloneAtInsert, Entering, Running
<1>1. CASE Tick
  <2>1. serial' => serial /\ WithinTTL(now + 1)
    BY <1>1, Zenon DEF Tick
  <2>2. CASE serial'
    BY <1>1, <2>1, <2>2 DEF Tick, WithinTTL
  <2>3. CASE ~serial'
    BY <1>1, <2>3 DEF Tick
  <2> QED BY <2>2, <2>3
<1>2. ASSUME NEW p \in Proc, Step(p)
      PROVE  IInv'
  <2>1. CASE AcquireBegin(p)
    <3>1. serial' => serial /\ ~Overlap(p)
      BY <2>1, Zenon DEF AcquireBegin
    <3> QED BY <2>1, <3>1 DEF AcquireBegin, Overlap
  <2>2. CASE Select(p)
    <3>1. PastReads' /\ (serial' => OneEnters' /\ FreshRow')
      BY <2>2 DEF Select
    <3>2. ASSUME serial', ~Blocked(p), NEW q \in Proc
          PROVE  ~Running(q)
      BY <2>2, <3>2 DEF Select, Blocked
    <3>3. serial' => AloneAtInsert'
      BY <2>2, <3>2 DEF Select
    <3> QED BY <3>1, <3>3
  <2>3. CASE Insert(p)
    <3>1. /\ row' # NoRow
          /\ row'.owner = p
          /\ row'.expires = seen[p] + TTL
      BY <2>3, NewRowType DEF Insert, NewRow
    <3>2. serial' => serial /\ now - seen[p] < TTL
      BY <2>3, Zenon DEF Insert
    <3>3. PastReads'
      BY <2>3 DEF Insert
    <3>4. ASSUME serial'
          PROVE  \A q \in Proc : ~Entering(q)' /\ (Running(q)' => q = p)
      BY <2>3, <3>2, <3>4 DEF Insert
    <3>5. serial' => FreshRow'
      BY <2>3, <3>1, <3>2, <3>4 DEF Insert
    <3> QED BY <3>3, <3>4, <3>5
  <2>4. CASE InsertFails(p)
    BY <2>4 DEF InsertFails
  <2>5. CASE Release(p)
    BY <2>5 DEF Release
  <2>6. CASE Crash(p)
    BY <2>6 DEF Crash
  <2> QED BY <1>2, <2>1, <2>2, <2>3, <2>4, <2>5, <2>6 DEF Step
<1>3. CASE UNCHANGED vars
  BY <1>3 DEF vars
<1> QED BY <1>1, <1>2, <1>3 DEF Next

LEMMA InvariantHolds == Spec => []IInv
<1>1. Init => IInv
  BY DEF Init, IInv, TypeOK, PastReads, OneEnters, FreshRow, AloneAtInsert,
         Entering, Running
<1> QED BY <1>1, Inductive, TypeCorrect, PTL DEF Spec

(* Two pipelines run together only after two acquires overlapped or a run  *)
(* outlived its TTL.                                                       *)
THEOREM ExclusionWhenSerial == Spec => []SerialExclusion
<1>1. IInv => SerialExclusion
  BY DEF IInv, FreshRow, SerialExclusion
<1> QED BY <1>1, InvariantHolds, PTL

(* While acquires come one by one the row of a running pipeline stays.     *)
THEOREM RowStaysWhenSerial == Spec => []SerialRowStays
<1>1. IInv => SerialRowStays
  BY DEF IInv, FreshRow, SerialRowStays
<1> QED BY <1>1, InvariantHolds, PTL
=============================================================================
