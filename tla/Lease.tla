------------------------------- MODULE Lease -------------------------------
(***************************************************************************)
(* What a caller of acquire_job_lock is promised: at any moment at most    *)
(* one process is inside its lease.  A lease is granted when nobody is     *)
(* inside one, and it ends when its holder gives it up, dies, or lets it   *)
(* run out.  JobLock implements this module.                               *)
(***************************************************************************)
EXTENDS Naturals

CONSTANT Proc

VARIABLE leased       \* the processes inside a lease

Init == leased = {}

Grant(p) ==
  /\ leased = {}
  /\ leased' = {p}

Lapse ==
  /\ leased # {}
  /\ leased' = {}

Next == Lapse \/ \E p \in Proc : Grant(p)

Spec == Init /\ [][Next]_leased

=============================================================================
