------------------------------ MODULE JobLock ------------------------------
(***************************************************************************)
(* The single-instance lock of the jobs: one row of the SQLite table       *)
(* job_locks (dev_core/storage.py, acquire_job_lock, touch_job_lock and    *)
(* release_job_lock) and the processes that compete for it.  A process of  *)
(* Proc is one (owner, pid) pair of one job script: it acquires the lock,  *)
(* works in a loop that touches the lock, and releases it in its finally.  *)
(*                                                                         *)
(* Every operation reads the wall clock first and reaches the database     *)
(* later, after waiting up to 30 s for another writer: the two are         *)
(* separate steps here, with the clock value carried between them.  The    *)
(* transaction itself (BEGIN IMMEDIATE .. COMMIT, or one autocommitted     *)
(* statement) is one step.  A process may crash between any two steps; its *)
(* row then stays in the table.  Its identity comes back with another      *)
(* process of Proc (a new pid) or, when the pid is reused, with its own.   *)
(***************************************************************************)
EXTENDS Integers

CONSTANTS
  Proc,      \* the (owner, pid) pairs
  TTL,       \* stale_ms: a heartbeat older than this may be taken over
  NoRow      \* the table holds no row for the job

ASSUME TTLAssumption == TTL \in Nat
ASSUME NoRowAssumption == NoRow \notin [holder : Proc, acquired : Nat, hb : Nat]

VARIABLES
  now,       \* the wall clock, in ms, shared by the processes of the host
  row,       \* the row of job_locks
  pc,        \* what each process is doing
  seen,      \* the now_ms each process read at the start of its operation
  beat       \* ghost: the last heartbeat each process stored in its own row

vars == <<now, row, pc, seen, beat>>

-----------------------------------------------------------------------------
Row == [holder : Proc, acquired : Nat, hb : Nat]

Running == {"running", "touching", "releasing"}   \* acquire returned True

TypeOK ==
  /\ now \in Nat
  /\ row \in Row \cup {NoRow}
  /\ pc \in [Proc -> {"idle", "acquiring"} \cup Running]
  /\ seen \in [Proc -> Nat]
  /\ beat \in [Proc -> Nat]

Holds(p) == row # NoRow /\ row.holder = p

(* A process that runs under the lock and stored a heartbeat at most TTL   *)
(* ago, by the clock it read before it stored it.                          *)
InLease(p) == pc[p] \in Running /\ now - beat[p] <= TTL

Init ==
  /\ now = 0
  /\ row = NoRow
  /\ pc = [p \in Proc |-> "idle"]
  /\ seen = [p \in Proc |-> 0]
  /\ beat = [p \in Proc |-> 0]

-----------------------------------------------------------------------------
Tick ==
  /\ now' = now + 1
  /\ UNCHANGED <<row, pc, seen, beat>>

(* now_ms = int(time.time() * 1000), the first statement of the function.  *)
ReadClock(p, from, to) ==
  /\ pc[p] = from
  /\ pc' = [pc EXCEPT ![p] = to]
  /\ seen' = [seen EXCEPT ![p] = now]
  /\ UNCHANGED <<now, row, beat>>

AcquireBegin(p) == ReadClock(p, "idle", "acquiring")

(* The row may be taken when there is none, when it is the caller's own    *)
(* and when its heartbeat is stale by the clock the caller read.           *)
(* Mutant: >= for >.                                                       *)
IsStaleEarly(p) == seen[p] - row.hb >= TTL

IsStale(p) == seen[p] - row.hb > TTL

(* Mutants: INSERT OR REPLACE without a look at the row; no stale takeover. *)
MayTakeAlways(p) == TRUE

MayTakeOwn(p) == row # NoRow => Holds(p)

MayTake(p) == row # NoRow => Holds(p) \/ IsStale(p)

(* INSERT keeps now_ms twice; the UPDATE of a takeover or of a renewal     *)
(* leaves acquired_ts_ms as it was.                                        *)
(* Mutant: the stale threshold in place of the clock as the heartbeat.     *)
TakenRowCutoff(p) ==
  [holder   |-> p,
   acquired |-> IF row = NoRow THEN seen[p] ELSE row.acquired,
   hb       |-> seen[p] - TTL]

TakenRow(p) ==
  [holder   |-> p,
   acquired |-> IF row = NoRow THEN seen[p] ELSE row.acquired,
   hb       |-> seen[p]]

AcquireCommit(p) ==
  /\ pc[p] = "acquiring"
  /\ MayTake(p)
  /\ row' = TakenRow(p)
  /\ beat' = [beat EXCEPT ![p] = seen[p]]
  /\ pc' = [pc EXCEPT ![p] = "running"]
  /\ UNCHANGED <<now, seen>>

(* ROLLBACK and return False: the lock is another's and is fresh.          *)
AcquireRefused(p) ==
  /\ pc[p] = "acquiring"
  /\ ~MayTake(p)
  /\ pc' = [pc EXCEPT ![p] = "idle"]
  /\ UNCHANGED <<now, row, seen, beat>>

(* The except branch: BEGIN IMMEDIATE timed out, or any other error.       *)
AcquireError(p) ==
  /\ pc[p] = "acquiring"
  /\ pc' = [pc EXCEPT ![p] = "idle"]
  /\ UNCHANGED <<now, row, seen, beat>>

TouchBegin(p) == ReadClock(p, "running", "touching")

(* UPDATE .. WHERE owner = ? AND pid = ?: nothing happens, and nothing is  *)
(* reported, when the row was taken by another process meanwhile.          *)
Touch(p) ==
  /\ pc[p] = "touching"
  /\ IF Holds(p)
       THEN /\ row' = [row EXCEPT !.hb = seen[p]]
            /\ beat' = [beat EXCEPT ![p] = seen[p]]
       ELSE UNCHANGED <<row, beat>>
  /\ pc' = [pc EXCEPT ![p] = "running"]
  /\ UNCHANGED <<now, seen>>

(* The UPDATE timed out or failed: the exception ends the job's loop, whose *)
(* finally releases the lock.                                              *)
TouchError(p) ==
  /\ pc[p] = "touching"
  /\ pc' = [pc EXCEPT ![p] = "releasing"]
  /\ UNCHANGED <<now, row, seen, beat>>

ReleaseBegin(p) ==
  /\ pc[p] = "running"
  /\ pc' = [pc EXCEPT ![p] = "releasing"]
  /\ UNCHANGED <<now, row, seen, beat>>

(* Mutant: DELETE .. WHERE job_name = ? only.                              *)
ReleaseAny(p) ==
  /\ pc[p] = "releasing"
  /\ row' = NoRow
  /\ pc' = [pc EXCEPT ![p] = "idle"]
  /\ UNCHANGED <<now, seen, beat>>

Release(p) ==
  /\ pc[p] = "releasing"
  /\ row' = IF Holds(p) THEN NoRow ELSE row
  /\ pc' = [pc EXCEPT ![p] = "idle"]
  /\ UNCHANGED <<now, seen, beat>>

(* The process dies, or its DELETE raises: either way it no longer runs    *)
(* and its row, if it has one, stays.                                      *)
Crash(p) ==
  /\ pc[p] # "idle"
  /\ pc' = [pc EXCEPT ![p] = "idle"]
  /\ UNCHANGED <<now, row, seen, beat>>

Step(p) ==
  \/ AcquireBegin(p) \/ AcquireCommit(p) \/ AcquireRefused(p) \/ AcquireError(p)
  \/ TouchBegin(p) \/ Touch(p) \/ TouchError(p)
  \/ ReleaseBegin(p) \/ Release(p)
  \/ Crash(p)

Next == Tick \/ \E p \in Proc : Step(p)

Spec == Init /\ [][Next]_vars

-----------------------------------------------------------------------------
(* Two processes are never inside their leases together: whoever else      *)
(* still runs has let its heartbeat go stale (the takeover rule of         *)
(* acquire_job_lock and the owner check of touch and release).             *)
AtMostOneLease ==
  \A p, q \in Proc : InLease(p) /\ InLease(q) => p = q

(* A process inside its lease finds its own row in the table: its row is   *)
(* neither replaced nor deleted before the lease has run out.              *)
LeaseHasRow == \A p \in Proc : InLease(p) => Holds(p)

(* A row leaves the table only in the release of the process it names, so  *)
(* a late release of a former holder frees nobody else's lock.             *)
OnlyHolderReleases ==
  [][row # NoRow /\ row' = NoRow => pc[row.holder] = "releasing"]_vars

(* While a row is in the table its heartbeat never goes back, although     *)
(* each writer stores a clock value it read some time before.              *)
HeartbeatNeverMovesBack ==
  [][row # NoRow /\ row' # NoRow => row'.hb >= row.hb]_vars

(* The implementation of the lease.                                        *)
Leases == INSTANCE Lease WITH leased <- {p \in Proc : InLease(p)}

LeaseSpec == Leases!Spec
=============================================================================
