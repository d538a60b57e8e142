--------------------------- MODULE JobLockProofs ---------------------------
(***************************************************************************)
(* For any set of processes, any TTL and an unbounded clock: the type      *)
(* invariant of JobLock, mutual exclusion of the leases, and JobLock       *)
(* implements Lease.                                                       *)
(*                                                                         *)
(* AtMostOneLease follows from LeaseHasRow: the table has one row.         *)
(* LeaseHasRow is not inductive, since a takeover judges the heartbeat in  *)
(* the row while the lease counts from the holder's own last heartbeat,    *)
(* and by a clock read earlier.  IInv adds that the two heartbeats agree   *)
(* as long as the holder runs and that nobody carries a clock value from   *)
(* the future.                                                             *)
(***************************************************************************)
EXTENDS JobLock, TLAPS

(* Clock values that were read or stored are not ahead of the clock.       *)
PastReads ==
  /\ \A p \in Proc : seen[p] <= now /\ beat[p] <= now
  /\ row # NoRow => row.hb <= now

(* The row of a running process holds its last heartbeat.                  *)
RowHasBeat == \A p \in Proc : pc[p] \in Running /\ Holds(p) => row.hb = beat[p]

(* What a process is about to store is not older than what it stored.      *)
ReadsAdvance ==
  /\ \A p \in Proc : pc[p] = "acquiring" /\ Holds(p) => row.hb <= seen[p]
  /\ \A p \in Proc : pc[p] = "touching" => beat[p] <= seen[p]

IInv == TypeOK /\ PastReads /\ RowHasBeat /\ ReadsAdvance /\ LeaseHasRow

-----------------------------------------------------------------------------
LEMMA NotNoRow == \A r \in Row : r # NoRow
  BY NoRowAssumption DEF Row

(* The type invariant holds in every reachable state.                      *)
THEOREM TypeCorrect == Spec => []TypeOK
<1>1. Init => TypeOK
  BY DEF Init, TypeOK, Running
<1>2. TypeOK /\ [Next]_vars => TypeOK'
  <2> SUFFICES ASSUME TypeOK, [Next]_vars
               PROVE  TypeOK'
    OBVIOUS
  <2> USE DEF TypeOK, Running, Row
  <2>1. CASE Tick
    BY <2>1 DEF Tick
  <2>2. ASSUME NEW p \in Proc, Step(p)
        PROVE  TypeOK'
    <3>1. CASE AcquireBegin(p) \/ TouchBegin(p)
      BY <3>1 DEF AcquireBegin, TouchBegin, ReadClock
    <3>2. CASE AcquireCommit(p)
      <4>1. TakenRow(p) \in Row
        BY DEF TakenRow
      <4> QED BY <3>2, <4>1 DEF AcquireCommit
    <3>3. CASE Touch(p)
      BY <3>3 DEF Touch, Holds
    <3>4. CASE Release(p)
      BY <3>4 DEF Release
    <3>5. CASE AcquireRefused(p) \/ AcquireError(p) \/ TouchError(p)
               \/ ReleaseBegin(p) \/ Crash(p)
      BY <3>5 DEF AcquireRefused, AcquireError, TouchError, ReleaseBegin, Crash
    <3> QED BY <2>2, <3>1, <3>2, <3>3, <3>4, <3>5 DEF Step
  <2>3. CASE UNCHANGED vars
    BY <2>3 DEF vars
  <2> QED BY <2>1, <2>2, <2>3 DEF Next
<1> QED BY <1>1, <1>2, PTL DEF Spec

-----------------------------------------------------------------------------
(* One step preserves the strengthening; the interesting case is           *)
(* AcquireCommit, where a takeover must find the former holder outside its *)
(* lease.                                                                  *)
LEMMA Inductive == IInv /\ [Next]_vars /\ TypeOK' => IInv'
<1> SUFFICES ASSUME IInv, [Next]_vars, TypeOK'
             PROVE  IInv'
  OBVIOUS
<1> USE TTLAssumption DEF IInv, TypeOK, PastReads, RowHasBeat, ReadsAdvance,
        LeaseHasRow, InLease, Holds, Running, Row
<1>1. CASE Tick
  BY <1>1 DEF Tick
<1>2. ASSUME NEW p \in Proc, Step(p)
      PROVE  IInv'
  <2>1. CASE AcquireBegin(p) \/ TouchBegin(p)
    BY <2>1 DEF AcquireBegin, TouchBegin, ReadClock
  <2>2. CASE AcquireCommit(p)
    <3>1. row' # NoRow /\ row'.holder = p /\ row'.hb = seen[p]
      BY <2>2, NotNoRow DEF AcquireCommit, TakenRow
    <3>2. PastReads' /\ RowHasBeat' /\ ReadsAdvance'
      BY <2>2, <3>1 DEF AcquireCommit
    <3>3. ASSUME NEW q \in Proc, InLease(q)'
          PROVE  Holds(q)'
      <4>1. CASE q = p
        BY <4>1, <3>1
      <4>2. CASE q # p
        <5>1. InLease(q) /\ Holds(q) /\ row.hb = beat[q]
          BY <4>2, <3>3, <2>2 DEF AcquireCommit
        <5>2. seen[p] - row.hb > TTL
          BY <5>1, <4>2, <2>2 DEF AcquireCommit, MayTake, IsStale
        <5> QED BY <5>1, <5>2
      <4> QED BY <4>1, <4>2
    <3> QED BY <3>2, <3>3
  <2>3. CASE Touch(p)
    <3>1. CASE Holds(p)
      <4>1. row' # NoRow /\ row'.holder = p /\ row'.hb = seen[p]
        BY <2>3, <3>1, NotNoRow DEF Touch
      <4> QED BY <2>3, <3>1, <4>1 DEF Touch
    <3>2. CASE ~Holds(p)
      BY <2>3, <3>2 DEF Touch
    <3> QED BY <3>1, <3>2
  <2>4. CASE Release(p)
    BY <2>4 DEF Release
  <2>5. CASE AcquireRefused(p) \/ AcquireError(p) \/ TouchError(p)
             \/ ReleaseBegin(p) \/ Crash(p)
    BY <2>5 DEF AcquireRefused, AcquireError, TouchError, ReleaseBegin, Crash
  <2> QED BY <1>2, <2>1, <2>2, <2>3, <2>4, <2>5 DEF Step
<1>3. CASE UNCHANGED vars
  BY <1>3 DEF vars
<1> QED BY <1>1, <1>2, <1>3 DEF Next

LEMMA InvariantHolds == Spec => []IInv
<1>1. Init => IInv
  BY DEF Init, IInv, TypeOK, PastReads, RowHasBeat, ReadsAdvance,
         LeaseHasRow, InLease, Holds, Running
<1> QED BY <1>1, Inductive, TypeCorrect, PTL DEF Spec

(* A process inside its lease finds its own row in the table.              *)
THEOREM LeaseKeepsRow == Spec => []LeaseHasRow
BY InvariantHolds, PTL DEF IInv

(* Two processes are never inside their leases together.                   *)
THEOREM MutualExclusion == Spec => []AtMostOneLease
<1>1. IInv => AtMostOneLease
  BY DEF IInv, LeaseHasRow, AtMostOneLease, Holds
<1> QED BY <1>1, InvariantHolds, PTL

-----------------------------------------------------------------------------
(* A row leaves the table only in the release of the process it names.     *)
THEOREM ReleaseIsOwn == Spec => OnlyHolderReleases
<1>1. TypeOK /\ [Next]_vars
        => [row # NoRow /\ row' = NoRow => pc[row.holder] = "releasing"]_vars
  BY NotNoRow
     DEF TypeOK, Next, vars, Tick, Step, AcquireBegin, TouchBegin, ReadClock,
         AcquireCommit, TakenRow, AcquireRefused, AcquireError, Touch, TouchError,
         ReleaseBegin, Release, Crash, Holds, Row
<1> QED BY <1>1, TypeCorrect, PTL DEF Spec, OnlyHolderReleases

(* The heartbeat of a row in the table never goes back.                    *)
THEOREM HeartbeatAdvances == Spec => HeartbeatNeverMovesBack
<1>1. IInv /\ [Next]_vars
        => [row # NoRow /\ row' # NoRow => row'.hb >= row.hb]_vars
  <2> SUFFICES ASSUME IInv, Next, row # NoRow, row' # NoRow
               PROVE  row'.hb >= row.hb
    BY DEF vars
  <2> USE TTLAssumption DEF IInv, TypeOK, PastReads, RowHasBeat, ReadsAdvance,
          Holds, Running, Row
  <2>1. CASE Tick
    BY <2>1 DEF Tick
  <2>2. ASSUME NEW p \in Proc, Step(p)
        PROVE  row'.hb >= row.hb
    <3>1. CASE AcquireCommit(p)
      BY <3>1 DEF AcquireCommit, TakenRow, MayTake, IsStale
    <3>2. CASE Touch(p)
      BY <3>2 DEF Touch
    <3>3. CASE Release(p)
      BY <3>3 DEF Release
    <3>4. CASE AcquireBegin(p) \/ TouchBegin(p) \/ AcquireRefused(p)
               \/ AcquireError(p) \/ TouchError(p) \/ ReleaseBegin(p) \/ Crash(p)
      BY <3>4 DEF AcquireBegin, TouchBegin, ReadClock, AcquireRefused,
                  AcquireError, TouchError, ReleaseBegin, Crash
    <3> QED BY <2>2, <3>1, <3>2, <3>3, <3>4 DEF Step
  <2> QED BY <2>1, <2>2 DEF Next
<1> QED BY <1>1, InvariantHolds, PTL DEF Spec, HeartbeatNeverMovesBack

-----------------------------------------------------------------------------
(* JobLock implements Lease: the processes inside their leases change by   *)
(* a grant to a process when there is none, or by a lapse.                 *)
THEOREM ImplementsLease == Spec => LeaseSpec
<1> DEFINE In == {p \in Proc : InLease(p)}
<1>1. Init => Leases!Init
  BY DEF Init, Leases!Init, InLease, Running
<1>2. IInv /\ AtMostOneLease' /\ [Next]_vars => [Leases!Next]_In
  <2> SUFFICES ASSUME IInv, AtMostOneLease', [Next]_vars
               PROVE  Leases!Next \/ In' = In
    BY DEF IInv
  <2>1. ASSUME NEW q \in Proc, q \in In', q \notin In
        PROVE  In = {}
    <3> SUFFICES ASSUME NEW r \in In
                 PROVE  FALSE
      OBVIOUS
    <3>1. ~InLease(r)'
      BY <2>1 DEF AtMostOneLease
    <3> QED
      BY <2>1, <3>1, TTLAssumption
         DEF IInv, TypeOK, LeaseHasRow, InLease, Holds, Running, Next, vars, Tick,
             Step, AcquireBegin, TouchBegin, ReadClock, AcquireCommit, MayTake,
             IsStale, AcquireRefused, AcquireError, Touch, TouchError,
             ReleaseBegin, Release, Crash, PastReads, RowHasBeat
  <2>2. CASE \E q \in Proc : q \in In' /\ q \notin In
    <3>1. PICK q \in Proc : q \in In' /\ q \notin In
      BY <2>2
    <3>2. In' = {q}
      BY <3>1 DEF AtMostOneLease
    <3> QED BY <2>1, <3>1, <3>2 DEF Leases!Next, Leases!Grant
  <2>3. CASE In' \subseteq In
    <3>1. In' = In \/ In' = {}
      BY <2>3 DEF IInv, LeaseHasRow, Holds
    <3> QED BY <3>1 DEF Leases!Next, Leases!Lapse
  <2> QED BY <2>2, <2>3
<1>3. IInv => AtMostOneLease
  BY DEF IInv, LeaseHasRow, AtMostOneLease, Holds
<1> QED
  BY <1>1, <1>2, <1>3, InvariantHolds, PTL DEF Spec, LeaseSpec, Leases!Spec
=============================================================================
