---------------------------- MODULE PipelineLock ----------------------------
(***************************************************************************)
(* The lock of the auto pipeline: _acquire_lock and _release_lock of       *)
(* jobs_manager.py (dashboard_server.py has the same code) around          *)
(* pipeline_runner.run_pipeline, in every process that runs the loop.      *)
(*                                                                         *)
(* The acquire reads its clock and the row in autocommit mode and writes   *)
(* the row in a later statement, after waiting for the database's write    *)
(* lock; nothing ties the two together.  The release deletes the row       *)
(* whoever wrote it.  The lock is never touched while the pipeline runs.   *)
(***************************************************************************)
EXTENDS Integers

CONSTANTS
  Proc,      \* the processes that run the pipeline loop
  TTL,       \* ttl_ms
  NoRow      \* job_locks holds no row for "pipeline"

ASSUME TTLAssumption == TTL \in Nat \ {0}
ASSUME NoRowAssumption == NoRow \notin [owner : Proc, expires : Nat]

VARIABLES
  now,       \* the wall clock
  row,       \* the row of job_locks
  pc,        \* what each process is doing
  seen,      \* the clock value of its acquire
  serial     \* ghost: no two acquires overlapped, no run outlived its TTL

vars == <<now, row, pc, seen, serial>>

Row == [owner : Proc, expires : Nat]

TypeOK ==
  /\ now \in Nat
  /\ row \in Row \cup {NoRow}
  /\ pc \in [Proc -> {"idle", "select", "insert", "running"}]
  /\ seen \in [Proc -> Nat]
  /\ serial \in BOOLEAN

Init ==
  /\ now = 0
  /\ row = NoRow
  /\ pc = [p \in Proc |-> "idle"]
  /\ seen = [p \in Proc |-> 0]
  /\ serial = TRUE

Running(p) == pc[p] = "running"

(* Two acquires overlap when one is between its SELECT and its INSERT and  *)
(* the other is anywhere between its clock and its INSERT.                 *)
Overlap(p) == \E q \in Proc \ {p} : pc[q] \in {"select", "insert"}

(* Nobody who runs at time t has held the lock for a TTL.                  *)
WithinTTL(t) == \A p \in Proc : Running(p) => t - seen[p] < TTL

-----------------------------------------------------------------------------
Tick ==
  /\ now' = now + 1
  /\ serial' = (serial /\ WithinTTL(now + 1))
  /\ UNCHANGED <<row, pc, seen>>

(* now = int(time.time() * 1000)                                           *)
AcquireBegin(p) ==
  /\ pc[p] = "idle"
  /\ pc' = [pc EXCEPT ![p] = "select"]
  /\ seen' = [seen EXCEPT ![p] = now]
  /\ serial' = (serial /\ ~Overlap(p))
  /\ UNCHANGED <<now, row>>

(* The row blocks the caller until it expires.                             *)
(* Mutants: a row blocks for ever; a row never blocks.                     *)
BlockedForever(p) == row # NoRow

BlockedNever(p) == FALSE

Blocked(p) == row # NoRow /\ row.expires > seen[p]

Select(p) ==
  /\ pc[p] = "select"
  /\ pc' = [pc EXCEPT ![p] = IF Blocked(p) THEN "idle" ELSE "insert"]
  /\ UNCHANGED <<now, row, seen, serial>>

(* INSERT OR REPLACE, whatever the table holds by now.                     *)
(* Mutants: the TTL is subtracted; the TTL is forgotten.                   *)
NewRowExpired(p) == [owner |-> p, expires |-> seen[p] - TTL]

NewRowNow(p) == [owner |-> p, expires |-> seen[p]]

NewRow(p) == [owner |-> p, expires |-> seen[p] + TTL]

Insert(p) ==
  /\ pc[p] = "insert"
  /\ row' = NewRow(p)
  /\ pc' = [pc EXCEPT ![p] = "running"]
  /\ serial' = (serial /\ now - seen[p] < TTL)
  /\ UNCHANGED <<now, seen>>

(* The INSERT timed out or failed: rollback, return False.                 *)
InsertFails(p) ==
  /\ pc[p] = "insert"
  /\ pc' = [pc EXCEPT ![p] = "idle"]
  /\ UNCHANGED <<now, row, seen, serial>>

(* finally: DELETE .. WHERE job_name = ?, on every way out of the pipeline. *)
Release(p) ==
  /\ Running(p)
  /\ row' = NoRow
  /\ pc' = [pc EXCEPT ![p] = "idle"]
  /\ UNCHANGED <<now, seen, serial>>

Crash(p) ==
  /\ pc[p] # "idle"
  /\ pc' = [pc EXCEPT ![p] = "idle"]
  /\ UNCHANGED <<now, row, seen, serial>>

Step(p) ==
  \/ AcquireBegin(p) \/ Select(p) \/ Insert(p) \/ InsertFails(p)
  \/ Release(p) \/ Crash(p)

Next == Tick \/ \E p \in Proc : Step(p)

Spec == Init /\ [][Next]_vars

-----------------------------------------------------------------------------
(* Two pipelines run together only after two acquires overlapped or a run  *)
(* went on past its TTL: the lock works for callers that come one by one.  *)
SerialExclusion ==
  serial => \A p, q \in Proc : Running(p) /\ Running(q) => p = q

(* While acquires come one by one, the row of a running pipeline stays in  *)
(* the table: no other process deletes or replaces it.                     *)
SerialRowStays ==
  serial => \A p \in Proc : Running(p) => row # NoRow /\ row.owner = p

(* jobs_manager.py:25 "SQLITE-BASED JOB LOCKS (cross-process safe)": two   *)
(* processes do not hold the lock together before the TTL is over.         *)
CrossProcessSafe ==
  \A p, q \in Proc :
    Running(p) /\ Running(q) /\ now - seen[p] < TTL /\ now - seen[q] < TTL => p = q
=============================================================================
