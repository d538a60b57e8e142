-------------------------- MODULE JobManagerProofs --------------------------
(***************************************************************************)
(* For any callers, any jobs and any interleaving: the type invariant of   *)
(* JobManager, that a job has at most one process, that daemons exclude    *)
(* each other, that exit codes are those of the last process, that the     *)
(* watchdog restarts nothing that was stopped, that only list_jobs can     *)
(* close a circle of waiting threads, and that with a lock which its       *)
(* holder may not take again no job is ever started.                       *)
(*                                                                         *)
(* OneProcess is not inductive: a thread about to start a process looked   *)
(* for a running one some steps before.  IInv says that whoever is inside  *)
(* the lock of a job holds it, that a thread on its way to Popen has seen  *)
(* the last process of its job end, and that only the last process of a    *)
(* job can run.  Most steps move one thread and start nothing: Moved says  *)
(* what such a step may do, and MovedIInv that it keeps IInv.              *)
(*                                                                         *)
(* Each of the other properties has an invariant of its own on top of      *)
(* IInv: Room (the bound on tries), Held (circles), Guarded (exit codes),  *)
(* Exclusive (daemons) and Wanted (restarts).  Moves, Calm and Onward say  *)
(* what a step makes of the locks and of the way to a start; the few steps *)
(* that are not calm or not onward are what these invariants are about.    *)
(***************************************************************************)
EXTENDS JobManager, TLAPS

ThreadState == [pc : Place, op : DOMAIN Body \cup {"list", None}, job : Job, todo : Seq(Job)]

(* What TypeOK says, but for the bound on tries, which is proved last.     *)
RestOK ==
  /\ mgr \in Caller \cup {None}
  /\ gen \in [Job -> 0..MaxStarts]
  /\ alive \subseteq Process /\ term \subseteq Process
  /\ pump \in [Process -> {"none", "reading", "release", "done"}]
  /\ stop \in [Job -> BOOLEAN]
  /\ tries \in [Job -> Nat]
  /\ begun \subseteq Job
  /\ exit \in [Job -> 0..MaxStarts]
  /\ row \subseteq Job \ Daemon
  /\ calls \in 0..MaxCalls
  /\ wish \in [Job -> BOOLEAN] /\ missed \in BOOLEAN /\ raced \in BOOLEAN
  /\ late \subseteq Job \ Daemon

BaseOK ==
  /\ RestOK
  /\ held \in [Job -> Thread \cup {None}]
  /\ th \in [Thread -> ThreadState]

Holders == \A t \in Thread : th[t].pc \in Inside => held[JobOf(t)] = t

Starting(t) == th[t].pc \in {"log", "logmissing", "spawn"}

SawItEnd == \A t \in Thread : Starting(t) => ~Runs(JobOf(t))

LastOnly == \A p \in alive : p[2] = gen[p[1]]

(* The way to Popen leads over append_log.                                 *)
Stuck == ~Reentrant => /\ \A t \in Thread : ~At(t, "spawn")
                       /\ \A j \in Job : gen[j] = 0

(* A thread that goes for the lock of a job knows what it will do there.   *)
Purposeful(r) == r.pc \in {"get", "lock", "each"} => r.op \in DOMAIN Body

Purpose == \A t \in Thread : Purposeful(th[t])

(* Who is about to send a signal has a process to send it to.              *)
HasProcess(r) == r.pc = "terminate" => gen[r.job] > 0

Target == \A t \in Thread : HasProcess(th[t])

IInv == BaseOK /\ Holders /\ SawItEnd /\ LastOnly /\ Stuck /\ Purpose /\ Target

-----------------------------------------------------------------------------
(* What the assumptions say of the sets the types are made of.             *)
LEMMA Constants ==
  /\ AllJobs \in Seq(Job) /\ Daemons \in Seq(Job) /\ AllJobs[1] \in Job
  /\ W \in Thread /\ Caller \subseteq Thread /\ None \notin Thread
  /\ MaxCalls \in Nat /\ MaxStarts \in Nat /\ MaxRestarts \in Nat
<1>1. AllJobs \in Seq(STRING) /\ Len(AllJobs) \in Nat /\ Len(AllJobs) > 0
  BY JobsAssumption DEF AllJobs
<1>2. \A i \in 1..Len(AllJobs) : AllJobs[i] \in Job
  BY <1>1 DEF Job, Names
<1>3. AllJobs \in Seq(Job)
  BY <1>1, <1>2
<1>4. AllJobs[1] \in Job
  <2>1. 1 \in 1..Len(AllJobs)
    BY <1>1
  <2> QED BY <2>1, <1>2
<1>5. Daemons \in Seq(Job)
  <2>1. \A i \in DOMAIN Daemons : i \in DOMAIN AllJobs /\ AllJobs[i] = Daemons[i]
    BY JobsAssumption DEF AllJobs
  <2> QED BY <2>1, JobsAssumption DEF Job, Names
<1> QED BY <1>3, <1>4, <1>5, BoundsAssumption, NamesAssumption DEF Thread

(* A thread that does nothing is of its type.                              *)
LEMMA IdleType == IdleThread \in ThreadState
BY Constants DEF IdleThread, ThreadState, Place

(* The invariant holds at first.                                           *)
LEMMA InitIInv == Init => IInv
<1> SUFFICES ASSUME Init
             PROVE  IInv
  OBVIOUS
<1>1. th \in [Thread -> ThreadState]
  BY IdleType DEF Init
<1>2. gen \in [Job -> 0..MaxStarts] /\ exit \in [Job -> 0..MaxStarts]
  BY Constants DEF Init
<1>3. tries \in [Job -> Nat] /\ calls \in 0..MaxCalls
  BY Constants DEF Init
<1>4. /\ mgr \in Caller \cup {None} /\ held \in [Job -> Thread \cup {None}]
      /\ stop \in [Job -> BOOLEAN] /\ wish \in [Job -> BOOLEAN]
      /\ missed \in BOOLEAN /\ raced \in BOOLEAN
  BY DEF Init
<1>5. /\ pump \in [Process -> {"none", "reading", "release", "done"}]
      /\ begun \subseteq Job
      /\ alive \subseteq Process /\ term \subseteq Process /\ row \subseteq Job \ Daemon
      /\ late \subseteq Job \ Daemon
  BY DEF Init
<1>6. BaseOK
  BY <1>1, <1>2, <1>3, <1>4, <1>5 DEF BaseOK, RestOK
<1>7. \A t \in Thread : th[t].pc = "idle"
  BY DEF Init, IdleThread
<1>8. Holders /\ SawItEnd /\ LastOnly /\ Stuck /\ Purpose /\ Target
  BY <1>7 DEF Init, Holders, SawItEnd, Starting, LastOnly, Stuck, At, Inside,
              Purpose, Purposeful, Target, HasProcess
<1> QED BY <1>6, <1>8 DEF IInv

-----------------------------------------------------------------------------
(* Thread t alone moves.  It is inside a lock afterwards only if it was,   *)
(* for the same job, or takes it now; it is on its way to Popen only if it *)
(* was or sees that its job does not run.                                  *)
Moved(t) ==
  /\ th' \in [Thread -> ThreadState]
  /\ \A u \in Thread : u # t => th'[u] = th[u]
  /\ \/ /\ held' = held
        /\ th'[t].pc \in Inside => th[t].pc \in Inside /\ th'[t].job = th[t].job
     \/ /\ held[JobOf(t)] = None /\ held' = [held EXCEPT ![JobOf(t)] = t]
        /\ th'[t].job = th[t].job
     \/ /\ th[t].pc \in Inside /\ held' = [held EXCEPT ![JobOf(t)] = None]
        /\ th'[t].pc \notin Inside
  /\ th'[t].pc \in {"log", "logmissing", "spawn"} =>
        th'[t].job = th[t].job /\ (Starting(t) \/ ~Runs(JobOf(t)))
  /\ th'[t].pc = "spawn" => Reentrant
  /\ Purposeful(th[t])'
  /\ th'[t].pc = "terminate" => gen[th'[t].job] > 0

(* Such a step keeps the holders of the locks.                             *)
LEMMA MovedHolders ==
  ASSUME IInv, NEW t \in Thread, Moved(t)
  PROVE  Holders' /\ held' \in [Job -> Thread \cup {None}]
<1>1. JobOf(t) \in Job /\ held \in [Job -> Thread \cup {None}]
  BY DEF IInv, BaseOK, ThreadState, JobOf
<1>2. held' \in [Job -> Thread \cup {None}]
  BY <1>1 DEF Moved
<1>3. ASSUME NEW u \in Thread, th'[u].pc \in Inside
      PROVE  held'[th'[u].job] = u
  <2>1. th[u].job \in Job
    BY DEF IInv, BaseOK, ThreadState
  <2>2. CASE u = t
    BY <2>1, <2>2, <1>1, <1>3 DEF Moved, IInv, Holders, JobOf
  <2>3. CASE u # t
    <3>1. th'[u] = th[u] /\ held[th[u].job] = u
      BY <2>3, <1>3 DEF Moved, IInv, Holders, JobOf
    <3>2. th[t].pc \in Inside => held[th[t].job] = t
      BY DEF IInv, Holders, JobOf
    <3> QED BY <3>1, <3>2, <2>1, <2>3, <1>1, Constants DEF Moved, JobOf
  <2> QED BY <2>2, <2>3
<1> QED BY <1>2, <1>3 DEF Holders, JobOf

(* When no process is started, nothing else can go wrong.                  *)
LEMMA MovedRest ==
  ASSUME IInv, NEW t \in Thread, Moved(t), gen' = gen, alive' = alive
  PROVE  SawItEnd' /\ LastOnly' /\ Stuck' /\ Purpose' /\ Target'
<1>1. LastOnly'
  BY DEF IInv, LastOnly
<1>2. Stuck'
  BY DEF IInv, Stuck, Moved, At
<1>3. SawItEnd'
  BY DEF IInv, SawItEnd, Moved, Starting, Runs, JobOf
<1>4. Purpose'
  BY DEF IInv, Purpose, Moved, Purposeful
<1>5. Target'
  BY DEF IInv, Target, Moved, HasProcess
<1> QED BY <1>1, <1>2, <1>3, <1>4, <1>5

(* A step inside the lock, or outside.                                     *)
LEMMA GoMoves ==
  ASSUME IInv, NEW t \in Thread, NEW pc \in Place, Go(t, pc), UNCHANGED held,
         pc \in Inside => th[t].pc \in Inside,
         pc \in {"log", "logmissing", "spawn"} => Starting(t) \/ ~Runs(JobOf(t)),
         pc = "spawn" => Reentrant,
         pc \in {"get", "lock", "each"} => th[t].op \in DOMAIN Body,
         pc = "terminate" => gen[JobOf(t)] > 0
  PROVE  Moved(t)
<1>1. th \in [Thread -> ThreadState]
  BY DEF IInv, BaseOK, ThreadState
<1>2. th' \in [Thread -> ThreadState]
  BY <1>1 DEF Go, ThreadState
<1>3. th'[t].pc = pc /\ th'[t].job = th[t].job /\ th'[t].op = th[t].op
  BY <1>1 DEF Go, ThreadState
<1>4. \A u \in Thread : u # t => th'[u] = th[u]
  BY <1>1 DEF Go
<1> QED BY <1>2, <1>3, <1>4 DEF Moved, Purposeful, JobOf

(* A step out of the lock.                                                 *)
LEMMA GoLeaves ==
  ASSUME IInv, NEW t \in Thread, NEW pc \in Place \ Inside, Go(t, pc),
         th[t].pc \in Inside, Release(t), pc \notin {"get", "lock", "each"}
  PROVE  Moved(t)
<1>1. th \in [Thread -> ThreadState]
  BY DEF IInv, BaseOK, ThreadState
<1>2. th' \in [Thread -> ThreadState]
  BY <1>1 DEF Go, ThreadState
<1>3. th'[t].pc = pc
  BY <1>1 DEF Go, ThreadState
<1>4. \A u \in Thread : u # t => th'[u] = th[u]
  BY <1>1 DEF Go
<1>5. pc \notin {"log", "logmissing", "spawn", "terminate"}
  BY DEF Inside
<1> QED BY <1>2, <1>3, <1>4, <1>5 DEF Moved, Release, Purposeful

(* A new state outside the locks.                                          *)
LEMMA SetMoves ==
  ASSUME IInv, NEW t \in Thread, NEW r \in ThreadState, th' = [th EXCEPT ![t] = r],
         r.pc \notin Inside, Purposeful(r),
         held' = held \/ (th[t].pc \in Inside /\ Release(t))
  PROVE  Moved(t)
<1>1. th \in [Thread -> ThreadState]
  BY DEF IInv, BaseOK, ThreadState
<1>2. /\ th' \in [Thread -> ThreadState] /\ th'[t] = r
      /\ \A u \in Thread : u # t => th'[u] = th[u]
  BY <1>1
<1>3. r.pc \notin {"log", "logmissing", "spawn", "terminate"}
  BY DEF Inside
<1> QED BY <1>2, <1>3 DEF Moved, Release, Purposeful

(* What start and stop leave of a thread is of its type.                   *)
LEMMA ReturnedType ==
  ASSUME IInv, NEW t \in Thread, NEW ok \in BOOLEAN
  PROVE  Returned(t, ok) \in ThreadState /\ Returned(t, ok).pc \notin Inside
         /\ Purposeful(Returned(t, ok))
<1>1. th[t] \in ThreadState
  BY DEF IInv, BaseOK, ThreadState
<1>2. [th[t] EXCEPT !.pc = "lock", !.op = IF ok THEN "restarted" ELSE "failed"] \in ThreadState
  BY <1>1 DEF ThreadState, Place, Body
<1>3. [th[t] EXCEPT !.pc = "each"] \in ThreadState
  BY <1>1 DEF ThreadState, Place
<1>4. Returned(t, ok) \in ThreadState
  BY <1>2, <1>3, IdleType DEF Returned
<1>5. Returned(t, ok).pc \in {"lock", "each", "idle"}
  BY <1>1 DEF Returned, IdleThread, ThreadState
<1>6. Purposeful(Returned(t, ok))
  BY <1>1 DEF Returned, IdleThread, ThreadState, Purposeful, Body
<1> QED BY <1>4, <1>5, <1>6 DEF Inside

(* They return out of the lock.                                            *)
LEMMA ReturnMoves ==
  ASSUME IInv, NEW t \in Thread, NEW ok \in BOOLEAN, Return(t, ok), th[t].pc \in Inside
  PROVE  Moved(t) /\ th'[t].pc \notin Inside
<1>1. Moved(t)
  BY ReturnedType, SetMoves DEF Return
<1>2. th'[t] = Returned(t, ok)
  BY DEF Return, IInv, BaseOK
<1> QED BY <1>1, <1>2, ReturnedType

(* So does an exception.                                                   *)
LEMMA RaiseMoves ==
  ASSUME IInv, NEW t \in Thread, Raise(t), th[t].pc \in Inside
  PROVE  Moved(t) /\ th'[t].pc \notin Inside
<1> DEFINE r == IF t = W THEN IdleThread ELSE Returned(t, FALSE)
<1>1. IdleThread.pc \notin Inside /\ Purposeful(IdleThread)
  BY DEF IdleThread, Inside, Purposeful
<1>2. r \in ThreadState /\ r.pc \notin Inside /\ Purposeful(r)
  BY <1>1, IdleType, ReturnedType
<1>3. th' = [th EXCEPT ![t] = r] /\ Release(t)
  BY DEF Raise
<1> HIDE DEF r
<1>4. Moved(t)
  BY <1>2, <1>3, SetMoves
<1>5. th'[t] = r
  BY <1>3 DEF IInv, BaseOK
<1> QED BY <1>2, <1>4, <1>5

-----------------------------------------------------------------------------
(* Such a step keeps the invariant, if it keeps the other types.           *)
LEMMA MovedIInv ==
  ASSUME IInv, NEW t \in Thread, Moved(t), gen' = gen, alive' = alive, RestOK'
  PROVE  IInv'
<1>1. BaseOK'
  BY MovedHolders DEF BaseOK, Moved
<1> QED BY <1>1, MovedHolders, MovedRest DEF IInv

(* The types in the invariant.                                             *)
LEMMA Rest ==
  ASSUME IInv
  PROVE  RestOK /\ th \in [Thread -> ThreadState] /\ \A t \in Thread : JobOf(t) \in Job
BY DEF IInv, BaseOK, ThreadState, JobOf

(* A call.                                                                 *)
LEMMA CallStep ==
  ASSUME IInv, NEW c \in Caller, NEW op \in Ops, NEW j \in Job, Call(c, op, j)
  PROVE  IInv'
<1> DEFINE r == [pc |-> IF op \in {"start", "stop"} THEN "get" ELSE "jobs",
                 op |-> op, job |-> j, todo |-> AllJobs]
<1>1. r \in ThreadState /\ r.pc \notin Inside /\ Purposeful(r)
  BY Constants, OpsAssumption DEF ThreadState, Place, Inside, AllOps, Body, Purposeful
<1>2. Moved(c)
  <2>1. th' = [th EXCEPT ![c] = r] /\ held' = held
    BY DEF Call
  <2>2. c \in Thread
    BY Constants
  <2> HIDE DEF r
  <2> QED BY <2>1, <2>2, <1>1, SetMoves
<1>3. RestOK'
  <2>1. calls' \in 0..MaxCalls
    <3>1. calls < MaxCalls /\ calls' = calls + 1
      BY DEF Call
    <3>2. calls \in 0..MaxCalls
      BY Rest DEF RestOK
    <3> QED BY <3>1, <3>2, Constants
  <2>2. UNCHANGED <<mgr, gen, alive, term, pump, stop, tries, begun, exit, row, wish, missed, raced, late>>
    BY DEF Call, procs, flags, ghosts
  <2> QED BY <2>1, <2>2, Rest DEF RestOK
<1>4. gen' = gen /\ alive' = alive
  BY DEF Call, procs
<1> QED BY <1>2, <1>3, <1>4, MovedIInv, Constants

(* The steps of start, whoever calls it.                                   *)
LEMMA StartSteps ==
  ASSUME IInv, NEW t \in Thread,
         \/ Get(t) \/ PreflightFails(t) \/ Lock(t) \/ ScriptMissing(t)
         \/ LogMissing(t) \/ Log(t) \/ SpawnRaises(t)
  PROVE  IInv'
<1>1. CASE Get(t)
  <2>1. Moved(t)
    BY <1>1, GoMoves DEF Get, At, Place, Inside, IInv, Purpose, Purposeful
  <2> QED BY <1>1, <2>1, Rest, MovedIInv DEF Get, RestOK, procs, flags, ghosts
<1>2. CASE PreflightFails(t)
  <2>1. Moved(t)
    <3>1. th' = [th EXCEPT ![t] = Returned(t, FALSE)] /\ held' = held
      BY <1>2 DEF PreflightFails
    <3> QED BY <3>1, ReturnedType, SetMoves
  <2> QED BY <1>2, <2>1, Rest, MovedIInv DEF PreflightFails, RestOK, procs, flags, ghosts
<1>3. CASE Lock(t)
  <2>1. Moved(t)
    <3>1. /\ th \in [Thread -> ThreadState]
          /\ held[JobOf(t)] = None /\ held' = [held EXCEPT ![JobOf(t)] = t]
          /\ th' = [th EXCEPT ![t].pc = Body[th[t].op]]
      BY <1>3, Rest DEF Lock, Go
    <3>2. th[t].op \in DOMAIN Body
      BY <1>3 DEF Lock, At, IInv, Purpose, Purposeful
    <3>3. Body[th[t].op] \in {"start", "stop", "check", "recheck", "count", "complain"}
      BY <3>2 DEF Body
    <3>4. /\ th' \in [Thread -> ThreadState] /\ th'[t].job = th[t].job
          /\ th'[t].pc = Body[th[t].op]
          /\ \A u \in Thread : u # t => th'[u] = th[u]
      <4> DEFINE place == Body[th[t].op]
                 state == [th[t] EXCEPT !.pc = place]
      <4>1. place \in Place
        BY <3>3, SMTT(20) DEF Place, Inside
      <4> HIDE DEF place
      <4>2. state \in ThreadState /\ state.job = th[t].job /\ state.pc = place
        BY <3>1, <4>1, ZenonT(30) DEF ThreadState
      <4>3. th' = [th EXCEPT ![t] = state]
        BY <3>1, Zenon DEF place
      <4> HIDE DEF state
      <4> QED BY <3>1, <4>2, <4>3, Zenon DEF place
    <3>5. Purposeful(th[t])'
      BY <3>3, <3>4 DEF Purposeful
    <3> QED BY <3>1, <3>3, <3>4, <3>5 DEF Moved
  <2> QED BY <1>3, <2>1, Rest, MovedIInv DEF Lock, RestOK, procs, flags, ghosts
<1>4. CASE ScriptMissing(t)
  <2>1. Moved(t)
    BY <1>4, GoMoves DEF ScriptMissing, Place, Inside, At, Starting
  <2> QED BY <1>4, <2>1, Rest, MovedIInv DEF ScriptMissing, RestOK, procs, ghosts
<1>5. CASE LogMissing(t)
  <2>1. Moved(t)
    BY <1>5, ReturnMoves DEF LogMissing, At, Inside
  <2> QED BY <1>5, <2>1, Rest, MovedIInv DEF LogMissing, RestOK, procs, flags, ghosts
<1>6. CASE Log(t)
  <2>1. Moved(t)
    BY <1>6, GoMoves DEF Log, MayLog, Place, Inside, At, Starting
  <2>2. JobOf(t) \in Job
    BY Rest
  <2> QED BY <1>6, <2>1, <2>2, Rest, MovedIInv DEF Log, RestOK, procs, ghosts
<1>7. CASE SpawnRaises(t)
  <2>1. Moved(t)
    BY <1>7, RaiseMoves DEF SpawnRaises, At, Inside
  <2> QED BY <1>7, <2>1, Rest, MovedIInv DEF SpawnRaises, RestOK, procs, flags, ghosts
<1> QED BY <1>1, <1>2, <1>3, <1>4, <1>5, <1>6, <1>7

(* The body of start up to its first append_log.                           *)
LEMMA StartBodyStep ==
  ASSUME IInv, NEW t \in Thread, StartBody(t)
  PROVE  IInv'
<1>1. th[t].pc = "start" /\ JobOf(t) \in Job
  BY Rest DEF StartBody, At
<1>2. Moved(t)
  <2>1. CASE Runs(JobOf(t)) \/ Refused(JobOf(t))
    <3>1. Return(t, Runs(JobOf(t)))
      BY <2>1 DEF StartBody
    <3>2. Runs(JobOf(t)) \in BOOLEAN
      BY DEF Runs
    <3> QED BY <3>1, <3>2, <1>1, ReturnMoves DEF Inside
  <2>2. CASE ~(Runs(JobOf(t)) \/ Refused(JobOf(t)))
    <3>1. Go(t, "log") /\ held' = held
      BY <2>2 DEF StartBody
    <3> QED BY <3>1, <2>2, <1>1, GoMoves DEF Place, Inside
  <2> QED BY <2>1, <2>2
<1>3. row' \subseteq Job \ Daemon
  <2>1. row' = row \/ (row' = row \cup {JobOf(t)} /\ JobOf(t) \notin Daemon)
    <3>1. CASE Runs(JobOf(t)) \/ Refused(JobOf(t))
      BY <3>1 DEF StartBody
    <3>2. CASE ~(Runs(JobOf(t)) \/ Refused(JobOf(t)))
      <4>1. row' = IF JobOf(t) \in Daemon THEN row ELSE row \cup {JobOf(t)}
        BY <3>2 DEF StartBody
      <4> QED BY <4>1
    <3> QED BY <3>1, <3>2
  <2> QED BY <2>1, <1>1, Rest DEF RestOK
<1>4. exit' \in [Job -> 0..MaxStarts]
  <2>1. exit' = exit \/ exit' = [exit EXCEPT ![JobOf(t)] = 0]
    BY DEF StartBody
  <2>2. exit \in [Job -> 0..MaxStarts] /\ 0 \in 0..MaxStarts
    BY Rest, Constants DEF RestOK
  <2> QED BY <2>1, <2>2
<1>5. stop' \in [Job -> BOOLEAN] /\ wish' \in [Job -> BOOLEAN]
  <2>1. /\ stop' = [stop EXCEPT ![JobOf(t)] = FALSE]
        /\ wish' = wish \/ wish' = [wish EXCEPT ![JobOf(t)] = TRUE]
    BY DEF StartBody
  <2> QED BY <2>1, Rest DEF RestOK
<1>6. UNCHANGED <<mgr, gen, alive, term, pump, tries, begun, calls, missed, raced, late>>
  BY DEF StartBody
<1>7. RestOK'
  BY <1>3, <1>4, <1>5, <1>6, Rest DEF RestOK
<1> QED BY <1>2, <1>6, <1>7, MovedIInv

(* Popen: the last process of the job has ended, so the new one is alone.  *)
LEMMA SpawnStep ==
  ASSUME IInv, NEW t \in Thread, NEW pumped \in BOOLEAN, Spawn(t, pumped)
  PROVE  IInv'
<1> DEFINE j == JobOf(t)
           p == <<j, gen[j] + 1>>
<1>1. /\ th[t].pc = "spawn" /\ j \in Job /\ gen[j] \in Nat /\ gen[j] + 1 \in 1..MaxStarts
      /\ p \in Process
  <2>1. th[t].pc = "spawn" /\ gen[j] < MaxStarts
    BY DEF Spawn, At
  <2>2. j \in Job /\ gen[j] \in 0..MaxStarts
    BY Rest DEF RestOK
  <2>3. gen[j] \in Nat /\ gen[j] + 1 \in 1..MaxStarts
    BY <2>1, <2>2, Constants
  <2> QED BY <2>1, <2>2, <2>3 DEF Process
<1>2. Moved(t)
  BY <1>1, ReturnMoves, RaiseMoves DEF Spawn, Inside
<1>3. Reentrant
  BY <1>1 DEF IInv, Stuck, At
<1>4. /\ gen' = [gen EXCEPT ![j] = gen[j] + 1] /\ alive' = alive \cup {p}
      /\ pump' = pump \/ pump' = [pump EXCEPT ![p] = "reading"]
      /\ UNCHANGED <<mgr, term, stop, tries, begun, exit, row, calls, wish, missed, late>>
  BY DEF Spawn, flags
<1>5. raced' \in BOOLEAN
  BY Rest DEF Spawn, RestOK
<1>6. RestOK'
  <2>1. gen' \in [Job -> 0..MaxStarts]
    <3>1. gen \in [Job -> 0..MaxStarts]
      BY Rest DEF RestOK
    <3>2. gen[j] + 1 \in 0..MaxStarts
      BY <1>1, Constants
    <3> HIDE DEF j
    <3> QED BY <3>1, <3>2, <1>4
  <2>2. alive' \subseteq Process /\ pump' \in [Process -> {"none", "reading", "release", "done"}]
    BY <1>1, <1>4, Rest DEF RestOK
  <2> QED BY <2>1, <2>2, <1>4, <1>5, Rest DEF RestOK
<1>7. BaseOK'
  BY <1>2, <1>6, MovedHolders DEF BaseOK, Moved
<1>8. p \notin alive /\ <<j, gen[j]>> \notin alive
  <2>1. <<j, gen[j]>> \notin alive
    BY <1>1 DEF IInv, SawItEnd, Starting, Runs
  <2>2. p \in alive => p[2] = gen[p[1]]
    BY DEF IInv, LastOnly
  <2> QED BY <2>1, <2>2, <1>1
<1>9. LastOnly'
  <2>1. ASSUME NEW q \in alive'
        PROVE  q[2] = gen'[q[1]]
    <3>1. gen \in [Job -> 0..MaxStarts] /\ alive \subseteq Process
      BY Rest DEF RestOK
    <3>2. CASE q = p
      BY <3>1, <3>2, <1>1, <1>4
    <3>3. CASE q \in alive
      <4>1. q = <<q[1], q[2]>> /\ q[1] \in Job /\ q[2] = gen[q[1]]
        BY <3>1, <3>3 DEF Process, IInv, LastOnly
      <4>2. q[1] # j
        BY <4>1, <3>3, <1>8
      <4> QED BY <4>1, <4>2, <3>1, <1>1, <1>4
    <3> QED BY <3>2, <3>3, <1>4
  <2> QED BY <2>1 DEF LastOnly
<1>10. SawItEnd'
  <2>1. ASSUME NEW u \in Thread, Starting(u)'
        PROVE  ~Runs(JobOf(u))'
    <3>1. th'[t].pc \notin Inside
      BY <1>1, ReturnMoves, RaiseMoves DEF Spawn, Inside
    <3>2. u # t
      BY <2>1, <3>1 DEF Starting, Inside
    <3>3. th'[u] = th[u] /\ Starting(u) /\ JobOf(u) \in Job
      BY <2>1, <3>2, <1>2, Rest DEF Moved, Starting
    <3>4. JobOf(u) # j
      BY <3>2, <3>3, <1>1 DEF IInv, Holders, Starting, Inside
    <3>5. <<JobOf(u), gen[JobOf(u)]>> \notin alive
      BY <3>3 DEF IInv, SawItEnd, Runs
    <3>6. gen'[JobOf(u)] = gen[JobOf(u)] /\ JobOf(u)' = JobOf(u)
      BY <3>3, <3>4, <1>4, <1>1, Rest DEF RestOK, JobOf
    <3> QED BY <3>4, <3>5, <3>6, <1>4 DEF Runs
  <2> QED BY <2>1 DEF SawItEnd
<1>11. Stuck'
  BY <1>3, ReentrantAssumption DEF Stuck
<1>12. Purpose'
  BY <1>2 DEF IInv, Purpose, Moved, Purposeful
<1>13. Target'
  <2>1. ASSUME NEW u \in Thread, th'[u].pc = "terminate"
        PROVE  gen'[th'[u].job] > 0
    <3>1. gen \in [Job -> 0..MaxStarts]
      BY Rest DEF RestOK
    <3>2. th'[u].job \in Job /\ gen[th'[u].job] > 0
      BY <2>1, <1>2 DEF Moved, ThreadState, IInv, Target, HasProcess
    <3>3. gen'[th'[u].job] \in {gen[th'[u].job], gen[th'[u].job] + 1}
      BY <3>1, <3>2, <1>4
    <3>4. gen[th'[u].job] \in Nat
      BY <3>1, <3>2, Constants
    <3> QED BY <3>2, <3>3, <3>4
  <2> QED BY <2>1 DEF Target, HasProcess
<1> QED BY <1>2, <1>7, <1>9, <1>10, <1>11, <1>12, <1>13, MovedHolders DEF IInv

(* stop, stop_all and list_jobs.                                           *)
LEMMA StopSteps ==
  ASSUME IInv, NEW c \in Caller, StopBody(c) \/ Terminate(c)
  PROVE  IInv'
<1>0. c \in Thread /\ JobOf(c) \in Job
  BY Rest, Constants
<1>1. CASE StopBody(c)
  <2>1. th[c].pc = "stop"
    BY <1>1 DEF StopBody, At
  <2>2. Moved(c)
    <3>1. CASE Runs(JobOf(c))
      <4>1. Go(c, "terminate") /\ held' = held
        BY <1>1, <3>1 DEF StopBody
      <4>2. gen[JobOf(c)] > 0
        <5>1. <<JobOf(c), gen[JobOf(c)]>> \in Process
          BY <3>1, Rest DEF Runs, RestOK
        <5> QED BY <5>1, Constants DEF Process
      <4> QED BY <4>1, <4>2, <1>0, <2>1, GoMoves DEF Place, Inside
    <3>2. CASE ~Runs(JobOf(c))
      <4>1. Return(c, TRUE)
        BY <1>1, <3>2 DEF StopBody
      <4> QED BY <4>1, <1>0, <2>1, ReturnMoves DEF Inside
    <3> QED BY <3>1, <3>2
  <2>3. /\ stop' = [stop EXCEPT ![JobOf(c)] = TRUE]
        /\ wish' = [wish EXCEPT ![JobOf(c)] = FALSE]
        /\ missed' = (missed \/ PastRecheck(JobOf(c)))
        /\ UNCHANGED <<mgr, gen, alive, term, pump, exit, tries, begun, row, calls, raced, late>>
    BY <1>1 DEF StopBody, procs
  <2>4. missed' \in BOOLEAN
    BY <2>3
  <2>5. RestOK'
    BY <2>3, <2>4, Rest DEF RestOK
  <2> QED BY <1>0, <2>2, <2>3, <2>5, MovedIInv
<1>2. CASE Terminate(c)
  <2>1. Moved(c)
    BY <1>2, <1>0, ReturnMoves DEF Terminate, At, Inside
  <2>2. /\ term' = term \cup {<<JobOf(c), gen[JobOf(c)]>>}
        /\ UNCHANGED <<mgr, gen, alive, pump, exit, stop, tries, begun, row, calls, wish, missed, raced, late>>
    BY <1>2 DEF Terminate, flags, ghosts
  <2>3. <<JobOf(c), gen[JobOf(c)]>> \in Process
    <3>1. gen[JobOf(c)] > 0
      BY <1>0, <1>2 DEF Terminate, At, IInv, Target, HasProcess, JobOf
    <3>2. gen[JobOf(c)] \in 0..MaxStarts
      BY <1>0, Rest DEF RestOK
    <3>3. gen[JobOf(c)] \in 1..MaxStarts
      BY <3>1, <3>2, Constants
    <3> QED BY <3>3, <1>0 DEF Process
  <2>4. RestOK'
    BY <2>2, <2>3, Rest DEF RestOK
  <2> QED BY <1>0, <2>1, <2>2, <2>4, MovedIInv
<1> QED BY <1>1, <1>2

(* The steps of stop and stop_all.                                         *)
LEMMA StopAllSteps ==
  ASSUME IInv, NEW c \in Caller,
         StopAll(c) \/ Each(c) \/ Kill(c) \/ LogKill(c) \/ KillEnd(c)
  PROVE  IInv'
<1>0. c \in Thread /\ th[c] \in ThreadState
  BY Rest, Constants
<1>1. CASE StopAll(c)
  <2>1. Moved(c)
    BY <1>0, <1>1, GoMoves DEF StopAll, At, Place, Inside, Body
  <2> QED BY <1>0, <1>1, <2>1, Rest, MovedIInv DEF StopAll, RestOK, procs, flags, ghosts
<1>2. CASE Each(c)
  <2>1. /\ th[c].pc = "each" /\ held' = held
        /\ th' = [th EXCEPT ![c] =
             IF th[c].todo = <<>> THEN [th[c] EXCEPT !.pc = "kill", !.todo = AllJobs]
             ELSE [th[c] EXCEPT !.pc = "get", !.job = Head(th[c].todo), !.todo = Tail(th[c].todo)]]
    BY <1>0, <1>2, Rest DEF Each, At
  <2>2. Moved(c)
    <3>1. CASE th[c].todo = <<>>
      <4> DEFINE r == [th[c] EXCEPT !.pc = "kill", !.todo = AllJobs]
      <4>1. r \in ThreadState /\ r.pc \notin Inside /\ Purposeful(r)
        BY <1>0, Constants DEF ThreadState, Place, Inside, Purposeful
      <4>2. th' = [th EXCEPT ![c] = r]
        BY <2>1, <3>1
      <4> HIDE DEF r
      <4> QED BY <4>1, <4>2, <2>1, <1>0, SetMoves
    <3>2. CASE th[c].todo # <<>>
      <4> DEFINE r == [th[c] EXCEPT !.pc = "get", !.job = Head(th[c].todo), !.todo = Tail(th[c].todo)]
      <4>1. Head(th[c].todo) \in Job /\ Tail(th[c].todo) \in Seq(Job)
        BY <1>0, <3>2 DEF ThreadState
      <4>2. r \in ThreadState /\ r.pc \notin Inside
        BY <1>0, <4>1 DEF ThreadState, Place, Inside
      <4>3. Purposeful(r)
        BY <1>0, <2>1 DEF IInv, Purpose, Purposeful, ThreadState
      <4>4. th' = [th EXCEPT ![c] = r]
        BY <2>1, <3>2
      <4> HIDE DEF r
      <4> QED BY <4>2, <4>3, <4>4, <2>1, <1>0, SetMoves
    <3> QED BY <3>1, <3>2
  <2> QED BY <1>0, <1>2, <2>2, Rest, MovedIInv DEF Each, RestOK, procs, flags, ghosts
<1>3. CASE Kill(c)
  <2> DEFINE j == Head(th[c].todo)
  <2>1. th[c].pc = "kill" /\ held' = held /\ th[c].todo # <<>>
    BY <1>3 DEF Kill, At
  <2>2. j \in Job /\ Tail(th[c].todo) \in Seq(Job)
    BY <1>0, <2>1 DEF ThreadState
  <2>3. CASE /\ Runs(j) /\ term' = term \cup {<<j, gen[j]>>}
             /\ th' = [th EXCEPT ![c].pc = "logkill", ![c].job = j, ![c].todo = Tail(@)]
    <3> DEFINE r == [th[c] EXCEPT !.pc = "logkill", !.job = j, !.todo = Tail(th[c].todo)]
    <3>1. r \in ThreadState /\ r.pc \notin Inside /\ Purposeful(r)
      BY <1>0, <2>2 DEF ThreadState, Place, Inside, Purposeful
    <3>2. th' = [th EXCEPT ![c] = r]
      BY <2>3, <1>0, Rest DEF ThreadState
    <3>3. Moved(c)
      <4> HIDE DEF r
      <4> QED BY <3>1, <3>2, <2>1, <1>0, SetMoves
    <3>4. term' \subseteq Process
      BY <2>3, Rest DEF Runs, RestOK
    <3> QED BY <3>3, <3>4, <1>0, <1>3, Rest, MovedIInv DEF Kill, RestOK, flags, ghosts
  <2>4. CASE term' = term /\ th' = [th EXCEPT ![c].todo = Tail(@)]
    <3> DEFINE r == [th[c] EXCEPT !.todo = Tail(th[c].todo)]
    <3>1. r \in ThreadState /\ r.pc \notin Inside /\ Purposeful(r)
      BY <1>0, <2>1, <2>2 DEF ThreadState, Place, Inside, Purposeful
    <3>2. th' = [th EXCEPT ![c] = r]
      BY <2>4, <1>0, Rest DEF ThreadState
    <3>3. Moved(c)
      <4> HIDE DEF r
      <4> QED BY <3>1, <3>2, <2>1, <1>0, SetMoves
    <3> QED BY <3>3, <2>4, <1>0, <1>3, Rest, MovedIInv DEF Kill, RestOK, flags, ghosts
  <2> QED BY <1>3, <2>3, <2>4 DEF Kill
<1>4. CASE LogKill(c)
  <2>1. Moved(c)
    BY <1>0, <1>4, GoMoves DEF LogKill, Place, Inside
  <2> QED BY <1>0, <1>4, <2>1, Rest, MovedIInv DEF LogKill, RestOK, procs, flags, ghosts
<1>5. CASE KillEnd(c)
  <2>1. IdleThread.pc \notin Inside /\ Purposeful(IdleThread)
    BY DEF IdleThread, Inside, Purposeful
  <2>2. th' = [th EXCEPT ![c] = IdleThread] /\ held' = held
    BY <1>5 DEF KillEnd
  <2>3. Moved(c)
    BY <1>0, <2>1, <2>2, IdleType, SetMoves
  <2> QED BY <1>0, <1>5, <2>3, Rest, MovedIInv DEF KillEnd, RestOK, procs, flags, ghosts
<1> QED BY <1>1, <1>2, <1>3, <1>4, <1>5

(* The steps of list_jobs.                                                 *)
LEMMA ListSteps ==
  ASSUME IInv, NEW c \in Caller, List(c) \/ ListJob(c) \/ ListEnd(c)
  PROVE  IInv'
<1>0. c \in Thread /\ th[c] \in ThreadState
  BY Rest, Constants
<1>1. CASE List(c)
  <2>1. Moved(c)
    BY <1>0, <1>1, GoMoves DEF List, Place, Inside
  <2> QED BY <1>0, <1>1, <2>1, Rest, MovedIInv DEF List, RestOK, procs, flags, ghosts
<1>2. CASE ListJob(c)
  <2> DEFINE r == [th[c] EXCEPT !.todo = Tail(th[c].todo)]
  <2>1. th[c].pc = "list" /\ held' = held /\ th[c].todo # <<>>
    BY <1>2 DEF ListJob, At
  <2>2. Tail(th[c].todo) \in Seq(Job)
    BY <1>0, <2>1 DEF ThreadState
  <2>3. r \in ThreadState /\ r.pc \notin Inside /\ Purposeful(r)
    BY <1>0, <2>1, <2>2 DEF ThreadState, Place, Inside, Purposeful
  <2>4. th' = [th EXCEPT ![c] = r]
    BY <1>2, <1>0, Rest DEF ListJob, ThreadState
  <2>5. Moved(c)
    <3> HIDE DEF r
    <3> QED BY <2>1, <2>3, <2>4, <1>0, SetMoves
  <2> QED BY <1>0, <1>2, <2>5, Rest, MovedIInv DEF ListJob, RestOK, procs, flags, ghosts
<1>3. CASE ListEnd(c)
  <2>1. IdleThread.pc \notin Inside /\ Purposeful(IdleThread)
    BY DEF IdleThread, Inside, Purposeful
  <2>2. th' = [th EXCEPT ![c] = IdleThread] /\ held' = held
    BY <1>3 DEF ListEnd
  <2>3. Moved(c)
    BY <1>0, <2>1, <2>2, IdleType, SetMoves
  <2> QED BY <1>0, <1>3, <2>3, Rest, MovedIInv DEF ListEnd, RestOK, procs, flags, ghosts
<1> QED BY <1>1, <1>2, <1>3

(* The watchdog.                                                           *)
LEMMA WatchdogSteps ==
  ASSUME IInv,
         \/ Sweep \/ NextDaemon \/ Check \/ (\E k \in 0..MaxRestarts : Probe(k))
         \/ GiveUp \/ Schedule \/ Reprobe \/ Count \/ Complain
  PROVE  IInv'
<1>0. /\ W \in Thread /\ th[W] \in ThreadState /\ JobOf(W) \in Job
      /\ th \in [Thread -> ThreadState]
  BY Rest, Constants
<1> HIDE DEF W
<1>1. CASE Sweep
  <2> DEFINE r == [th[W] EXCEPT !.pc = "next", !.todo = Daemons]
  <2>1. r \in ThreadState /\ r.pc \notin Inside /\ Purposeful(r)
    BY <1>0, Constants DEF ThreadState, Place, Inside, Purposeful
  <2>2. th' = [th EXCEPT ![W] = r] /\ held' = held
    BY <1>0, <1>1 DEF Sweep, ThreadState
  <2>3. Moved(W)
    <3> HIDE DEF r
    <3> QED BY <2>1, <2>2, <1>0, SetMoves
  <2> QED BY <1>0, <1>1, <2>3, Rest, MovedIInv DEF Sweep, RestOK, procs, flags, ghosts
<1>2. CASE NextDaemon
  <2>1. /\ held' = held
        /\ th' = [th EXCEPT ![W] =
             IF th[W].todo = <<>> THEN IdleThread
             ELSE [th[W] EXCEPT !.pc = "lock", !.op = "check",
                                !.job = Head(th[W].todo), !.todo = Tail(th[W].todo)]]
    BY <1>0, <1>2 DEF NextDaemon
  <2>2. Moved(W)
    <3>1. CASE th[W].todo = <<>>
      <4>1. IdleThread.pc \notin Inside /\ Purposeful(IdleThread)
        BY DEF IdleThread, Inside, Purposeful
      <4>2. th' = [th EXCEPT ![W] = IdleThread]
        BY <2>1, <3>1
      <4> QED BY <4>1, <4>2, <2>1, <1>0, IdleType, SetMoves
    <3>2. CASE th[W].todo # <<>>
      <4> DEFINE r == [th[W] EXCEPT !.pc = "lock", !.op = "check",
                                    !.job = Head(th[W].todo), !.todo = Tail(th[W].todo)]
      <4>1. Head(th[W].todo) \in Job /\ Tail(th[W].todo) \in Seq(Job)
        BY <1>0, <3>2 DEF ThreadState
      <4>2. r \in ThreadState /\ r.pc \notin Inside /\ Purposeful(r)
        BY <1>0, <4>1 DEF ThreadState, Place, Inside, Purposeful, Body
      <4>3. th' = [th EXCEPT ![W] = r]
        BY <2>1, <3>2
      <4> HIDE DEF r
      <4> QED BY <4>2, <4>3, <2>1, <1>0, SetMoves
    <3> QED BY <3>1, <3>2
  <2> QED BY <1>0, <1>2, <2>2, Rest, MovedIInv DEF NextDaemon, RestOK, procs, flags, ghosts
<1>3. ASSUME LeaveDaemon, th[W].pc \in Inside
      PROVE  Moved(W)
  BY <1>0, <1>3, GoLeaves DEF LeaveDaemon, Place, Inside
<1>4. CASE Check
  <2>1. th[W].pc \in Inside
    BY <1>4 DEF Check, Inside
  <2>2. Moved(W)
    <3>1. CASE stop[JobOf(W)]
      BY <3>1, <2>1, <1>3, <1>4 DEF Check
    <3>2. CASE ~stop[JobOf(W)]
      <4> DEFINE pc == IF At(W, "check") THEN "probe" ELSE "reprobe"
      <4>1. Go(W, pc) /\ held' = held
        BY <3>2, <1>4 DEF Check
      <4>2. pc \in Place /\ pc \in {"probe", "reprobe"}
        BY DEF Place, Inside
      <4> HIDE DEF pc
      <4> QED BY <4>1, <4>2, <2>1, <1>0, GoMoves
    <3> QED BY <3>1, <3>2
  <2> QED BY <1>0, <1>4, <2>2, Rest, MovedIInv DEF Check, RestOK, procs, flags, ghosts
<1>5. ASSUME NEW k \in 0..MaxRestarts, Probe(k)
      PROVE  IInv'
  <2>1. th[W].pc \in Inside
    BY <1>5 DEF Probe, At, Inside
  <2>2. Moved(W)
    <3>1. CASE LeaveDaemon
      BY <3>1, <2>1, <1>3
    <3>2. CASE ~LeaveDaemon
      <4> DEFINE pc == IF TooMany(k) THEN "giveup" ELSE "schedule"
      <4>1. Go(W, pc) /\ held' = held
        BY <3>2, <1>5 DEF Probe
      <4>2. pc \in Place /\ pc \in {"giveup", "schedule"}
        BY DEF Place, Inside
      <4> HIDE DEF pc
      <4> QED BY <4>1, <4>2, <2>1, <1>0, GoMoves
    <3> QED BY <3>1, <3>2
  <2>3. tries' = [tries EXCEPT ![JobOf(W)] = k]
    BY <1>5 DEF Probe
  <2>4. UNCHANGED <<mgr, gen, alive, term, pump, exit, stop, begun, row, calls, wish, missed, raced, late>>
    BY <1>5 DEF Probe, procs, ghosts
  <2>5. RestOK'
    BY <1>0, <1>5, <2>3, <2>4, Rest DEF RestOK
  <2> QED BY <1>0, <2>2, <2>4, <2>5, MovedIInv
<1>6. CASE GiveUp
  <2>1. Moved(W)
    BY <1>3, <1>6 DEF GiveUp, At, Inside
  <2> QED BY <1>0, <1>6, <2>1, Rest, MovedIInv DEF GiveUp, RestOK, procs, ghosts
<1>7. CASE Schedule
  <2> DEFINE r == [th[W] EXCEPT !.pc = "lock", !.op = "recheck"]
  <2>1. r \in ThreadState /\ r.pc \notin Inside /\ Purposeful(r)
    BY <1>0 DEF ThreadState, Place, Inside, Purposeful, Body
  <2>2. th' = [th EXCEPT ![W] = r] /\ th[W].pc \in Inside /\ Release(W)
    BY <1>0, <1>7 DEF Schedule, GoAs, ThreadState, At, Inside
  <2>3. Moved(W)
    <3> HIDE DEF r
    <3> QED BY <2>1, <2>2, <1>0, SetMoves
  <2> QED BY <1>0, <1>7, <2>3, Rest, MovedIInv DEF Schedule, RestOK, procs, flags, ghosts
<1>8. CASE Reprobe
  <2>1. th[W].pc \in Inside
    BY <1>8 DEF Reprobe, At, Inside
  <2>2. Moved(W)
    <3>1. CASE LeaveDaemon
      BY <3>1, <2>1, <1>3
    <3>2. CASE ~LeaveDaemon
      <4> DEFINE r == [th[W] EXCEPT !.pc = "get", !.op = "start"]
      <4>1. r \in ThreadState /\ r.pc \notin Inside /\ Purposeful(r)
        BY <1>0 DEF ThreadState, Place, Inside, Purposeful, Body
      <4>2. th' = [th EXCEPT ![W] = r] /\ Release(W)
        BY <3>2, <1>0, <1>8 DEF Reprobe, GoAs, ThreadState
      <4> HIDE DEF r
      <4> QED BY <4>1, <4>2, <2>1, <1>0, SetMoves
    <3> QED BY <3>1, <3>2
  <2> QED BY <1>0, <1>8, <2>2, Rest, MovedIInv DEF Reprobe, RestOK, procs, flags, ghosts
<1>9. CASE Count
  <2>1. Moved(W)
    BY <1>3, <1>9 DEF Count, At, Inside
  <2>2. tries' = [tries EXCEPT ![JobOf(W)] = tries[JobOf(W)] + 1]
    BY <1>9 DEF Count
  <2>3. tries' \in [Job -> Nat]
    BY <1>0, <2>2, Rest DEF RestOK
  <2>4. UNCHANGED <<mgr, gen, alive, term, pump, exit, stop, begun, row, calls, wish, missed, raced, late>>
    BY <1>9 DEF Count, procs, ghosts
  <2>5. RestOK'
    BY <2>3, <2>4, Rest DEF RestOK
  <2> QED BY <1>0, <2>1, <2>4, <2>5, MovedIInv
<1>10. CASE Complain
  <2>1. Moved(W)
    BY <1>3, <1>10 DEF Complain, At, Inside
  <2> QED BY <1>0, <1>10, <2>1, Rest, MovedIInv DEF Complain, RestOK, procs, flags, ghosts
<1> QED BY <1>1, <1>2, <1>4, <1>5, <1>6, <1>7, <1>8, <1>9, <1>10

(* The steps that no thread takes.                                         *)
LEMMA ProcessSteps ==
  ASSUME IInv, NEW p \in Process, PumpStep(p) \/ Exit(p)
  PROVE  IInv'
<1>1. th' = th /\ held' = held /\ gen' = gen /\ alive' \subseteq alive
  BY DEF PumpStep, PumpExit, PumpRelease, Exit
<1>2. p[1] \in Job /\ p[2] \in 0..MaxStarts
  BY Constants DEF Process
<1>3. RestOK'
  <2>1. CASE Exit(p)
    BY <2>1, Rest DEF Exit, RestOK, flags, ghosts
  <2>2. CASE PumpExit(p)
    BY <2>2, <1>2, Rest DEF PumpExit, RestOK, flags, ghosts
  <2>3. CASE PumpRelease(p)
    BY <2>3, <1>2, Rest DEF PumpRelease, RestOK, ghosts
  <2> QED BY <2>1, <2>2, <2>3 DEF PumpStep
<1>4. BaseOK'
  BY <1>1, <1>3 DEF IInv, BaseOK
<1>5. Holders' /\ Stuck' /\ Purpose' /\ Target'
  BY <1>1 DEF IInv, Holders, JobOf, Stuck, At, Purpose, Purposeful, Target, HasProcess
<1>6. SawItEnd' /\ LastOnly'
  BY <1>1 DEF IInv, SawItEnd, Starting, Runs, JobOf, LastOnly
<1> QED BY <1>4, <1>5, <1>6 DEF IInv

(* Nor does the end of a row move anything but the row.                    *)
LEMMA RowExpiresStep ==
  ASSUME IInv, NEW j \in Job, RowExpires(j)
  PROVE  IInv'
<1>1. UNCHANGED <<th, held, gen, alive>>
  BY DEF RowExpires, procs
<1>2. j \in Job \ Daemon
  BY Rest DEF RowExpires, RestOK
<1>3. RestOK'
  BY <1>2, Rest DEF RowExpires, RestOK, procs
<1>4. BaseOK'
  BY <1>1, <1>3 DEF IInv, BaseOK
<1>5. Holders' /\ Stuck' /\ Purpose' /\ Target'
  BY <1>1 DEF IInv, Holders, JobOf, Stuck, At, Purpose, Purposeful, Target, HasProcess
<1>6. SawItEnd' /\ LastOnly'
  BY <1>1 DEF IInv, SawItEnd, Starting, Runs, JobOf, LastOnly
<1> QED BY <1>4, <1>5, <1>6 DEF IInv

(* No step.                                                                *)
LEMMA StutterStep ==
  ASSUME IInv, UNCHANGED vars
  PROVE  IInv'
<1>1. RestOK' /\ BaseOK'
  BY DEF IInv, BaseOK, RestOK, vars
<1>2. Holders' /\ Stuck' /\ Purpose' /\ Target'
  BY DEF IInv, Holders, JobOf, Stuck, At, Purpose, Purposeful, Target, HasProcess, vars
<1>3. SawItEnd' /\ LastOnly'
  BY DEF IInv, SawItEnd, Starting, Runs, JobOf, LastOnly, vars
<1> QED BY <1>1, <1>2, <1>3 DEF IInv

(* The steps of start together.                                            *)
LEMMA ThreadSteps ==
  ASSUME IInv, NEW t \in Thread, ThreadStep(t)
  PROVE  IInv'
BY StartSteps, StartBodyStep, SpawnStep DEF ThreadStep

(* The invariant is inductive.                                             *)
LEMMA NextIInv == IInv /\ [Next]_vars => IInv'
<1> SUFFICES ASSUME IInv, [Next]_vars
             PROVE  IInv'
  OBVIOUS
<1>1. ASSUME NEW c \in Caller, CallerStep(c)
      PROVE  IInv'
  <2>1. c \in Thread
    BY Constants
  <2> QED BY <1>1, <2>1, ThreadSteps, StopSteps, StopAllSteps, ListSteps DEF CallerStep
<1>2. ASSUME NEW c \in Caller, NEW op \in Ops, NEW j \in Job, Call(c, op, j)
      PROVE  IInv'
  BY <1>2, CallStep
<1>3. CASE WatchdogStep
  BY <1>3, Constants, ThreadSteps, WatchdogSteps DEF WatchdogStep
<1>4. ASSUME NEW p \in Process, PumpStep(p) \/ Exit(p)
      PROVE  IInv'
  BY <1>4, ProcessSteps
<1>5. CASE UNCHANGED vars
  BY <1>5, StutterStep
<1>6. ASSUME NEW j \in Job, RowExpires(j)
      PROVE  IInv'
  BY <1>6, RowExpiresStep
<1> QED BY <1>1, <1>2, <1>3, <1>4, <1>5, <1>6 DEF Next

-----------------------------------------------------------------------------
(* jobs_manager.py:452 - a job has at most one process, whatever starts,   *)
(* stops and restarts meet.                                                *)
THEOREM OneProcessPerJob == Spec => []OneProcess
<1>1. IInv => OneProcess
  <2> SUFFICES ASSUME IInv, NEW p \in alive, NEW q \in alive, p[1] = q[1]
               PROVE  p = q
    BY DEF OneProcess
  <2>1. p \in Process /\ q \in Process
    BY Rest DEF RestOK
  <2>2. p[2] = q[2]
    BY DEF IInv, LastOnly
  <2> QED BY <2>1, <2>2 DEF Process
<1> QED BY <1>1, InitIInv, NextIInv, PTL DEF Spec

(* jobs_manager.py:477 - with the locks as they are no job is ever         *)
(* started.                                                                *)
THEOREM NothingEverStarts == Spec => []NothingStarts
<1>1. IInv => NothingStarts
  BY DEF IInv, Stuck, NothingStarts
<1> QED BY <1>1, InitIInv, NextIInv, PTL DEF Spec

-----------------------------------------------------------------------------
(* The bound on tries: the watchdog that goes on to restart a job found    *)
(* its window not full, and nobody else fills it.                          *)
Restarting(r) ==
  \/ r.pc = "schedule"
  \/ /\ r.op \in {"recheck", "start", "restarted"}
     /\ r.pc \notin {"next", "idle", "check", "probe", "giveup"}

(* The watchdog's place tells what it does.                                *)
Telling(r) ==
  /\ r.pc \in {"start", "log", "logmissing", "spawn"} => r.op = "start"
  /\ r.pc \in {"recheck", "reprobe"} => r.op = "recheck"
  /\ r.pc = "count" => r.op = "restarted"

Room ==
  /\ Restarting(th[W]) => tries[JobOf(W)] < MaxRestarts
  /\ Telling(th[W])
  /\ tries \in [Job -> 0..MaxRestarts]

(* The window of restarts is empty at first.                               *)
LEMMA InitRoom == Init => Room
BY Constants DEF Init, Room, Restarting, Telling, IdleThread

(* Only the watchdog moves the watchdog.                                   *)
LEMMA OthersLeaveTries ==
  ASSUME IInv, Room, UNCHANGED tries, th'[W] = th[W]
  PROVE  Room'
BY DEF Room, JobOf, Restarting, Telling

(* Callers neither move the watchdog nor fill its window.                  *)
LEMMA CallersLeaveTries ==
  ASSUME IInv, NEW c \in Caller, CallerStep(c) \/ \E op \in Ops, j \in Job : Call(c, op, j)
  PROVE  UNCHANGED tries /\ th'[W] = th[W]
<1>1. W # c /\ W \in Thread /\ th \in [Thread -> ThreadState]
  BY NamesAssumption, Constants, Rest
<1> HIDE DEF W
<1>2. CASE ThreadStep(c)
  <2>1. UNCHANGED tries
    BY <1>2 DEF ThreadStep, Get, PreflightFails, Lock, StartBody, ScriptMissing, LogMissing,
                Log, Spawn, SpawnRaises, flags
  <2>2. th'[W] = th[W]
    BY <1>1, <1>2 DEF ThreadStep, Get, PreflightFails, Lock, StartBody, ScriptMissing,
                      LogMissing, Log, Spawn, SpawnRaises, Go, Return, Raise
  <2> QED BY <2>1, <2>2
<1>3. CASE StopBody(c) \/ Terminate(c) \/ StopAll(c) \/ Each(c) \/ Kill(c) \/ LogKill(c) \/ KillEnd(c)
  <2>1. UNCHANGED tries
    BY <1>3 DEF StopBody, Terminate, StopAll, Each, Kill, LogKill, KillEnd, flags
  <2>2. th'[W] = th[W]
    BY <1>1, <1>3 DEF StopBody, Terminate, StopAll, Each, Kill, LogKill, KillEnd, Go, Return
  <2> QED BY <2>1, <2>2
<1>4. CASE List(c) \/ ListJob(c) \/ ListEnd(c)
  BY <1>1, <1>4 DEF List, ListJob, ListEnd, Go, flags
<1>5. CASE \E op \in Ops, j \in Job : Call(c, op, j)
  BY <1>1, <1>5 DEF Call, flags
<1> QED BY <1>2, <1>3, <1>4, <1>5 DEF CallerStep

(* The watchdog fills the window only when it found room in it.            *)
LEMMA WatchdogRoom ==
  ASSUME IInv, Room, WatchdogStep
  PROVE  Room'
<1>0. /\ W \in Thread /\ JobOf(W) \in Job /\ th \in [Thread -> ThreadState]
      /\ th[W] \in ThreadState
  BY Rest, Constants
<1>1. /\ Restarting(th[W]) => tries[JobOf(W)] < MaxRestarts
      /\ Telling(th[W])
      /\ tries \in [Job -> 0..MaxRestarts]
  BY DEF Room
(* The window of the same job, and a place that asks no more of it.        *)
<1>2. ASSUME UNCHANGED tries, th'[W].job = th[W].job,
             Restarting(th'[W]) => Restarting(th[W]), Telling(th'[W])
      PROVE  Room'
  BY <1>1, <1>2 DEF Room, JobOf, Restarting, Telling
<1>3. ASSUME tries' \in [Job -> 0..MaxRestarts], ~Restarting(th'[W]), Telling(th'[W])
      PROVE  Room'
  BY <1>3 DEF Room, Restarting, Telling
<1> HIDE DEF W
<1>4. CASE Get(W) \/ Log(W) \/ ScriptMissing(W)
  BY <1>0, <1>1, <1>2, <1>4
     DEF Get, Log, ScriptMissing, Go, At, flags, ThreadState, Restarting, Telling
<1>5. CASE Lock(W)
  <2>1. th'[W] = [th[W] EXCEPT !.pc = Body[th[W].op]] /\ UNCHANGED tries
    BY <1>0, <1>5 DEF Lock, Go, flags, ThreadState
  <2>2. th[W].op \in DOMAIN Body /\ th[W].pc = "lock"
    BY <1>0, <1>5 DEF Lock, At, IInv, Purpose, Purposeful
  <2>3. th'[W].job = th[W].job /\ th'[W].op = th[W].op /\ th'[W].pc = Body[th[W].op]
    BY <2>1, <1>0 DEF ThreadState
  <2>4. Restarting(th'[W]) => Restarting(th[W])
    BY <2>2, <2>3 DEF Restarting, Body
  <2>5. Telling(th'[W])
    BY <2>2, <2>3 DEF Telling, Body
  <2> QED BY <1>2, <2>1, <2>3, <2>4, <2>5
<1>6. ASSUME NEW ok \in BOOLEAN, th'[W] = Returned(W, ok), UNCHANGED tries,
             th[W].op = "start", th[W].pc \in {"lock", "start", "logmissing", "spawn"}
      PROVE  Room'
  <2>1. th'[W].job = th[W].job /\ th'[W].pc = "lock"
    BY <1>0, <1>6 DEF Returned, ThreadState
  <2>2. Restarting(th[W])
    BY <1>6 DEF Restarting
  <2> QED BY <2>1, <2>2, <1>2, <1>6 DEF Telling
<1>7. CASE PreflightFails(W)
  BY <1>0, <1>6, <1>7 DEF PreflightFails, At, flags
<1>8. ASSUME Raise(W), UNCHANGED tries
      PROVE  Room'
  <2>1. th' = [th EXCEPT ![W] = IdleThread]
    BY <1>8 DEF Raise
  <2>2. th'[W] = IdleThread
    BY <2>1, <1>0
  <2> QED BY <2>2, <1>1, <1>3, <1>8 DEF IdleThread, Restarting, Telling
<1>9. ASSUME NEW pumped \in BOOLEAN, Spawn(W, pumped)
       PROVE  Room'
  <2>1. th[W].pc = "spawn" /\ UNCHANGED tries
    BY <1>9 DEF Spawn, At, flags
  <2>2. CASE pumped
    <3>1. th'[W] = Returned(W, TRUE)
      BY <1>0, <1>9, <2>2 DEF Spawn, Return
    <3> QED BY <3>1, <2>1, <1>1, <1>6 DEF Telling
  <2>3. CASE ~pumped
    BY <1>9, <2>1, <2>3, <1>8 DEF Spawn
  <2> QED BY <2>2, <2>3
<1>10. CASE LogMissing(W)
  <2>1. th[W].pc = "logmissing" /\ UNCHANGED tries
    BY <1>10 DEF LogMissing, At, flags
  <2>2. th'[W] = Returned(W, FALSE)
    BY <1>0, <1>10 DEF LogMissing, Return
  <2> QED BY <2>1, <2>2, <1>1, <1>6 DEF Telling
<1>11. CASE SpawnRaises(W)
  BY <1>8, <1>11 DEF SpawnRaises, flags
<1>12. CASE StartBody(W)
  <2>1. th[W].pc = "start" /\ UNCHANGED tries
    BY <1>12 DEF StartBody, At
  <2>2. CASE Runs(JobOf(W)) \/ Refused(JobOf(W))
    <3>1. th'[W] = Returned(W, Runs(JobOf(W)))
      BY <1>0, <1>12, <2>2 DEF StartBody, Return
    <3>2. Runs(JobOf(W)) \in BOOLEAN
      BY DEF Runs
    <3> QED BY <3>1, <3>2, <2>1, <1>1, <1>6 DEF Telling
  <2>3. CASE ~(Runs(JobOf(W)) \/ Refused(JobOf(W)))
    <3>1. Go(W, "log")
      BY <1>12, <2>3 DEF StartBody
    <3>2. th'[W].pc = "log" /\ th'[W].job = th[W].job /\ th'[W].op = th[W].op
      BY <3>1, <1>0 DEF Go, ThreadState
    <3> QED BY <3>2, <2>1, <1>1, <1>2 DEF Restarting, Telling
  <2> QED BY <2>2, <2>3
<1>13. CASE Sweep \/ NextDaemon
  <2>1. UNCHANGED tries
    BY <1>13 DEF Sweep, NextDaemon, flags
  <2>2. /\ th'[W].pc \in {"idle", "next", "lock"}
        /\ th'[W].pc = "lock" => th'[W].op = "check"
    <3>1. CASE Sweep
      BY <1>0, <3>1 DEF Sweep, ThreadState
    <3>2. CASE NextDaemon
      <4>1. CASE th[W].todo = <<>>
        <5>1. th' = [th EXCEPT ![W] = IdleThread]
          BY <1>0, <3>2, <4>1 DEF NextDaemon
        <5> QED BY <5>1, <1>0 DEF IdleThread
      <4>2. CASE th[W].todo # <<>>
        <5>1. th'[W] = [th[W] EXCEPT !.pc = "lock", !.op = "check",
                                     !.job = Head(th[W].todo), !.todo = Tail(th[W].todo)]
          BY <1>0, <3>2, <4>2 DEF NextDaemon
        <5> QED BY <5>1, <1>0 DEF ThreadState
      <4> QED BY <4>1, <4>2
    <3> QED BY <1>13, <3>1, <3>2
  <2> QED BY <2>1, <2>2, <1>1, <1>3 DEF Restarting, Telling
<1>14. ASSUME LeaveDaemon, tries' \in [Job -> 0..MaxRestarts]
       PROVE  Room'
  <2>1. th'[W].pc = "next"
    BY <1>0, <1>14 DEF LeaveDaemon, Go, ThreadState
  <2> QED BY <2>1, <1>3, <1>14 DEF Restarting, Telling
<1>15. CASE GiveUp \/ Complain
  BY <1>1, <1>14, <1>15 DEF GiveUp, Complain, flags
<1>16. CASE Count
  <2>1. tries[JobOf(W)] < MaxRestarts
    BY <1>16, <1>1 DEF Count, At, Restarting, Telling
  <2>2. tries' = [tries EXCEPT ![JobOf(W)] = tries[JobOf(W)] + 1] /\ LeaveDaemon
    BY <1>16 DEF Count
  <2>3. tries[JobOf(W)] + 1 \in 0..MaxRestarts
    <3>1. tries[JobOf(W)] \in 0..MaxRestarts
      BY <1>0, <1>1
    <3> QED BY <3>1, <2>1, Constants
  <2> QED BY <2>2, <2>3, <1>1, <1>14
<1>17. CASE Check
  <2>1. UNCHANGED tries /\ th[W].pc \in {"check", "recheck"}
    BY <1>17 DEF Check, flags
  <2>2. CASE stop[JobOf(W)]
    BY <1>1, <1>14, <1>17, <2>1, <2>2 DEF Check
  <2>3. CASE ~stop[JobOf(W)]
    <3>1. Go(W, IF At(W, "check") THEN "probe" ELSE "reprobe")
      BY <1>17, <2>3 DEF Check
    <3>2. /\ th'[W].job = th[W].job /\ th'[W].op = th[W].op
          /\ th'[W].pc = IF At(W, "check") THEN "probe" ELSE "reprobe"
      BY <3>1, <1>0 DEF Go, ThreadState
    <3> QED BY <3>2, <2>1, <1>1, <1>2 DEF Restarting, Telling, At
  <2> QED BY <2>2, <2>3
<1>18. ASSUME NEW k \in 0..MaxRestarts, Probe(k)
       PROVE  Room'
  <2>1. tries' = [tries EXCEPT ![JobOf(W)] = k]
    BY <1>18 DEF Probe
  <2>2. tries' \in [Job -> 0..MaxRestarts] /\ tries'[JobOf(W)] = k
    BY <2>1, <1>0, <1>1, <1>18
  <2>3. CASE LeaveDaemon
    BY <2>2, <2>3, <1>14
  <2>4. CASE ~LeaveDaemon
    <3>1. Go(W, IF TooMany(k) THEN "giveup" ELSE "schedule")
      BY <1>18, <2>4 DEF Probe
    <3>2. th'[W].job = th[W].job /\ th'[W].pc = IF TooMany(k) THEN "giveup" ELSE "schedule"
      BY <3>1, <1>0 DEF Go, ThreadState
    <3>3. CASE TooMany(k)
      BY <3>2, <3>3, <2>2, <1>3 DEF Restarting, Telling
    <3>4. CASE ~TooMany(k)
      <4>1. k < MaxRestarts
        BY <3>4, <1>18, Constants DEF TooMany
      <4> QED BY <4>1, <3>2, <3>4, <2>2 DEF Room, JobOf, Telling
    <3> QED BY <3>3, <3>4
  <2> QED BY <2>3, <2>4
<1>19. CASE Schedule
  <2>1. /\ th'[W].job = th[W].job /\ th'[W].pc = "lock" /\ th[W].pc = "schedule"
        /\ UNCHANGED tries
    BY <1>0, <1>19 DEF Schedule, GoAs, At, ThreadState, flags
  <2> QED BY <2>1, <1>2 DEF Restarting, Telling
<1>20. CASE Reprobe
  <2>1. CASE LeaveDaemon
    BY <1>20, <2>1, <1>1, <1>14 DEF Reprobe, flags
  <2>2. CASE ~LeaveDaemon
    <3>1. /\ th'[W].job = th[W].job /\ th'[W].pc = "get" /\ th[W].pc = "reprobe"
          /\ UNCHANGED tries
      BY <1>0, <1>20, <2>2 DEF Reprobe, GoAs, At, ThreadState, flags
    <3> QED BY <3>1, <1>1, <1>2 DEF Restarting, Telling
  <2> QED BY <2>1, <2>2
<1> QED BY <1>4, <1>5, <1>7, <1>9, <1>10, <1>11, <1>12, <1>13, <1>15, <1>16, <1>17, <1>18,
           <1>19, <1>20
        DEF WatchdogStep, ThreadStep

(* The bound on tries is kept.                                             *)
LEMMA NextRoom == IInv /\ Room /\ [Next]_vars => Room'
<1> SUFFICES ASSUME IInv, Room, [Next]_vars
             PROVE  Room'
  OBVIOUS
<1>1. ASSUME NEW c \in Caller, CallerStep(c) \/ \E op \in Ops, j \in Job : Call(c, op, j)
      PROVE  Room'
  BY <1>1, CallersLeaveTries, OthersLeaveTries
<1>2. CASE WatchdogStep
  BY <1>2, WatchdogRoom
<1>3. ASSUME NEW p \in Process, PumpStep(p) \/ Exit(p)
      PROVE  Room'
  <2>1. UNCHANGED tries /\ th' = th
    BY <1>3 DEF PumpStep, PumpExit, PumpRelease, Exit, flags
  <2> QED BY <2>1, OthersLeaveTries
<1>4. CASE UNCHANGED vars
  BY <1>4, OthersLeaveTries DEF vars
<1>5. ASSUME NEW j \in Job, RowExpires(j)
      PROVE  Room'
  <2>1. UNCHANGED tries /\ th' = th
    BY <1>5 DEF RowExpires
  <2> QED BY <2>1, OthersLeaveTries
<1> QED BY <1>1, <1>2, <1>3, <1>4, <1>5 DEF Next

(* The types of the state; among them, that the watchdog counts no more    *)
(* than MaxRestarts restarts of a daemon within its window                 *)
(* (jobs_manager.py:642).  A restart whose heartbeat of the row raises     *)
(* (jobs_manager.py:494) has started a process and is not counted, so      *)
(* this does not bound the processes that the watchdog starts.             *)
THEOREM TypeCorrect == Spec => []TypeOK
<1>1. IInv /\ Room => TypeOK
  BY DEF IInv, BaseOK, RestOK, ThreadState, Room, TypeOK
<1> QED BY <1>1, InitIInv, InitRoom, NextIInv, NextRoom, PTL DEF Spec
-----------------------------------------------------------------------------
(* What a step makes of the locks.                                         *)

(* Thread t alone moves.                                                   *)
Alone(t) == \A u \in Thread : u # t => th'[u] = th[u]

(* The lock of a job is taken on the way in and let go on the way out.     *)
Locks(t) ==
  LET r == th[t]
      s == th'[t]
  IN
  \/ held' = held /\ (r.pc \in Inside <=> s.pc \in Inside)
                  /\ (r.pc \in Inside => s.job = r.job)
  \/ /\ held' = [held EXCEPT ![r.job] = t]
     /\ r.pc \notin Inside /\ s.pc \in Inside /\ s.job = r.job
  \/ held' = [held EXCEPT ![r.job] = None] /\ r.pc \in Inside /\ s.pc \notin Inside

(* So is the manager's, around list.                                       *)
Manager(t) ==
  LET r == th[t]
      s == th'[t]
  IN
  \/ mgr' = mgr /\ (r.pc = "list" => s.pc = "list" /\ s.op = r.op)
  \/ mgr' = t /\ s.pc = "list" /\ s.op = "list"
  \/ mgr' = None

(* A step of thread t.                                                     *)
Moves(t) ==
  /\ Alone(t) /\ Locks(t) /\ Manager(t)
  /\ th'[t].pc \in {"probe", "reprobe"} => t = W

(* What the restarts are about.                                            *)

(* A thread past the checks of start.                                      *)
Launching(r) == r.pc \in {"log", "spawn"}

(* The watchdog is on its way to start a job ...                           *)
Bound(r) ==
  \/ r.pc \in {"start", "log", "spawn"}
  \/ r.pc \in {"get", "lock"} /\ r.op = "start"

(* ... or has found one that had been started.                             *)
Looked(r) ==
  \/ r.pc \in {"schedule", "recheck", "reprobe"}
  \/ r.pc \in {"get", "lock"} /\ r.op = "recheck"

(* A step that starts nothing ...                                          *)
Calm(t) == Launching(th'[t]) => Launching(th[t]) /\ th'[t].job = th[t].job

(* ... and one that decides nothing about a restart.                       *)
Onward(t) ==
  LET r == th[t]
      s == th'[t]
  IN
  t = W => /\ Bound(s) => Bound(r) /\ s.job = r.job
           /\ Looked(s) => Looked(r) /\ s.job = r.job
           /\ s.pc = "reprobe" => r.pc = "reprobe" /\ s.job = r.job

(* A start that goes on to start its job.                                  *)
Begins(t) == StartBody(t) /\ ~Runs(JobOf(t)) /\ ~Refused(JobOf(t))

(* What Go assigns.                                                        *)
LEMMA GoDoes ==
  ASSUME IInv, NEW t \in Thread, NEW pc, Go(t, pc)
  PROVE  /\ Alone(t)
         /\ th'[t].pc = pc /\ th'[t].op = th[t].op /\ th'[t].job = th[t].job
<1>1. th \in [Thread -> ThreadState] /\ th[t] \in ThreadState
  BY Rest
<1> QED BY <1>1 DEF Go, Alone, ThreadState

(* What GoAs assigns.                                                      *)
LEMMA GoAsDoes ==
  ASSUME IInv, NEW t \in Thread, NEW op, NEW pc, GoAs(t, op, pc)
  PROVE  /\ Alone(t)
         /\ th'[t].pc = pc /\ th'[t].op = op /\ th'[t].job = th[t].job
<1>1. th \in [Thread -> ThreadState] /\ th[t] \in ThreadState
  BY Rest
<1> QED BY <1>1 DEF GoAs, Alone, ThreadState

(* One thread is assigned.                                                 *)
LEMMA SetDoes ==
  ASSUME IInv, NEW t \in Thread, NEW r, th' = [th EXCEPT ![t] = r]
  PROVE  Alone(t) /\ th'[t] = r
<1>1. th \in [Thread -> ThreadState]
  BY Rest
<1> QED BY <1>1 DEF Alone

(* Where start and stop return to.                                         *)
LEMMA ReturnedDoes ==
  ASSUME IInv, NEW t \in Thread, NEW ok \in BOOLEAN
  PROVE  LET s == Returned(t, ok) IN
         /\ t = W => s.pc = "lock" /\ s.op \in {"restarted", "failed"}
         /\ t # W => s.pc \in {"each", "idle"}
<1>1. th[t] \in ThreadState
  BY Rest
<1> QED BY <1>1 DEF Returned, IdleThread, ThreadState

(* To leave a start or a stop.                                             *)
LEMMA LeavesOnward ==
  ASSUME IInv, NEW t \in Thread, NEW ok \in BOOLEAN, NEW s, th' = [th EXCEPT ![t] = s],
         s \in {Returned(t, ok), IdleThread}, mgr' = mgr, th[t].pc # "list",
         \/ held' = held /\ th[t].pc \notin Inside
         \/ Release(t) /\ th[t].pc \in Inside
  PROVE  Moves(t) /\ Calm(t) /\ Onward(t)
<1>1. Alone(t) /\ th'[t] = s
  BY SetDoes
<1>2. /\ s.pc \in {"lock", "each", "idle"}
      /\ s.pc = "lock" => s.op \in {"restarted", "failed"}
  BY ReturnedDoes DEF IdleThread
<1>3. Locks(t)
  BY <1>1, <1>2 DEF Locks, Release, JobOf, Inside
<1> QED BY <1>1, <1>2, <1>3 DEF Moves, Manager, Calm, Onward, Launching, Bound, Looked

(* The steps of start: only one of them begins something.                  *)
LEMMA ThreadMoves ==
  ASSUME IInv, NEW t \in Thread, ThreadStep(t)
  PROVE  Moves(t) /\ ((Calm(t) /\ Onward(t)) \/ Begins(t))
<1>1. CASE Get(t)
  BY <1>1, GoDoes
  DEF Get, At, Moves, Locks, Manager, Inside, Calm, Onward, Launching, Bound, Looked
<1>2. CASE PreflightFails(t)
  BY <1>2, LeavesOnward DEF PreflightFails, At, Inside
<1>3. CASE Lock(t)
  <2>1. th[t].op \in DOMAIN Body
    BY <1>3 DEF Lock, At, IInv, Purpose, Purposeful
  <2>2. /\ Body[th[t].op] \in {"start", "stop", "check", "recheck", "count", "complain"}
        /\ Body[th[t].op] = "start" => th[t].op = "start"
        /\ Body[th[t].op] = "recheck" => th[t].op = "recheck"
    BY <2>1 DEF Body
  <2>3. /\ Alone(t) /\ th'[t].pc = Body[th[t].op] /\ th'[t].job = th[t].job
        /\ th[t].pc = "lock" /\ mgr' = mgr /\ held' = [held EXCEPT ![th[t].job] = t]
    BY <1>3, GoDoes DEF Lock, At, JobOf
  <2>4. Moves(t)
    BY <2>2, <2>3 DEF Moves, Locks, Manager, Inside
  <2> QED BY <2>2, <2>3, <2>4 DEF Calm, Onward, Launching, Bound, Looked
<1>4. CASE StartBody(t)
  <2>1. th[t].pc = "start" /\ mgr' = mgr
    BY <1>4 DEF StartBody, At
  <2>2. CASE Runs(JobOf(t)) \/ Refused(JobOf(t))
    <3>1. Return(t, Runs(JobOf(t))) /\ Runs(JobOf(t)) \in BOOLEAN
      BY <1>4, <2>2 DEF StartBody, Runs
    <3> QED BY <2>1, <3>1, LeavesOnward DEF Return, Inside
  <2>3. CASE ~(Runs(JobOf(t)) \/ Refused(JobOf(t)))
    <3>1. Go(t, "log") /\ held' = held
      BY <1>4, <2>3 DEF StartBody
    <3> QED BY <1>4, <2>1, <2>3, <3>1, GoDoes DEF Moves, Locks, Manager, Inside, Begins
  <2> QED BY <2>2, <2>3
<1>5. CASE ScriptMissing(t) \/ Log(t)
  BY <1>5, GoDoes DEF ScriptMissing, Log, At, Moves, Locks, Manager, Inside, Calm, Onward,
    Launching, Bound, Looked
<1>6. CASE LogMissing(t)
  BY <1>6, LeavesOnward DEF LogMissing, Return, At, Inside
<1>7. ASSUME Raise(t), th[t].pc \in Inside, mgr' = mgr
      PROVE  Moves(t) /\ Calm(t) /\ Onward(t)
  <2>1. PICK s \in {Returned(t, FALSE), IdleThread} : th' = [th EXCEPT ![t] = s]
    BY <1>7 DEF Raise
  <2> QED BY <1>7, <2>1, LeavesOnward DEF Raise, Inside
<1>8. ASSUME NEW pumped \in BOOLEAN, Spawn(t, pumped)
      PROVE  Moves(t) /\ Calm(t) /\ Onward(t)
  <2>1. th[t].pc = "spawn" /\ mgr' = mgr
    BY <1>8 DEF Spawn, At
  <2>2. CASE pumped
    BY <1>8, <2>1, <2>2, LeavesOnward DEF Spawn, Return, Inside
  <2>3. CASE ~pumped
    BY <1>7, <1>8, <2>1, <2>3 DEF Spawn, Inside
  <2> QED BY <2>2, <2>3
<1>9. CASE SpawnRaises(t)
  BY <1>7, <1>9 DEF SpawnRaises, At, Inside
<1> QED BY <1>1, <1>2, <1>3, <1>4, <1>5, <1>6, <1>8, <1>9 DEF ThreadStep

(* The steps of the callers.                                               *)
LEMMA CallerMoves ==
  ASSUME IInv, NEW c \in Caller,
         CallerStep(c) \/ \E op \in Ops, j \in Job : Call(c, op, j)
  PROVE  Moves(c) /\ (Calm(c) \/ Begins(c))
<1>1. c \in Thread /\ c # W /\ th[c] \in ThreadState
  BY Constants, NamesAssumption, Rest
<1> HIDE DEF W
<1>2. CASE ThreadStep(c)
  BY <1>1, <1>2, ThreadMoves
<1>3. CASE StopBody(c)
  <2>1. th[c].pc = "stop" /\ mgr' = mgr
    BY <1>3 DEF StopBody, At
  <2>2. CASE Runs(JobOf(c))
    <3>1. Go(c, "terminate") /\ held' = held
      BY <1>3, <2>2 DEF StopBody
    <3> QED BY <1>1, <2>1, <3>1, GoDoes
        DEF Moves, Locks, Manager, Inside, Calm, Onward, Launching
  <2>3. CASE ~Runs(JobOf(c))
    BY <1>1, <1>3, <2>1, <2>3, LeavesOnward DEF StopBody, Return, Inside
  <2> QED BY <2>2, <2>3
<1>4. CASE Terminate(c)
  BY <1>1, <1>4, LeavesOnward DEF Terminate, Return, At, Inside
<1>5. CASE StopAll(c) \/ LogKill(c) \/ List(c)
  BY <1>1, <1>5, GoDoes
  DEF StopAll, LogKill, List, At, Moves, Locks, Manager, Inside, Calm, Onward, Launching
<1>6. ASSUME NEW s, th' = [th EXCEPT ![c] = s], held' = held,
             s.pc \in {"kill", "get", "logkill", "idle", "jobs"}, mgr' = mgr,
             th[c].pc \in {"each", "kill", "idle"}
      PROVE  Moves(c) /\ Calm(c)
  BY <1>1, <1>6, SetDoes DEF Moves, Locks, Manager, Inside, Calm, Onward, Launching
<1>7. CASE Each(c)
  <2> DEFINE s == IF th[c].todo = <<>> THEN [th[c] EXCEPT !.pc = "kill", !.todo = AllJobs]
                  ELSE [th[c] EXCEPT !.pc = "get", !.job = Head(th[c].todo),
                                     !.todo = Tail(th[c].todo)]
  <2>1. th' = [th EXCEPT ![c] = s] /\ held' = held /\ mgr' = mgr /\ th[c].pc = "each"
    BY <1>7 DEF Each, At
  <2>2. s.pc \in {"kill", "get"}
    BY <1>1 DEF ThreadState
  <2> HIDE DEF s
  <2> QED BY <1>6, <2>1, <2>2
<1>8. CASE Kill(c)
  <2> DEFINE j == Head(th[c].todo)
             x == [th[c] EXCEPT !.pc = "logkill", !.job = j, !.todo = Tail(th[c].todo)]
             y == [th[c] EXCEPT !.todo = Tail(th[c].todo)]
  <2>1. /\ th' = [th EXCEPT ![c] = x] \/ th' = [th EXCEPT ![c] = y]
        /\ held' = held /\ mgr' = mgr /\ th[c].pc = "kill"
    BY <1>1, <1>8, Rest DEF Kill, At, ThreadState
  <2>2. x.pc = "logkill" /\ y.pc = "kill"
    BY <1>1, <2>1 DEF ThreadState
  <2> HIDE DEF x, y
  <2> QED BY <1>6, <2>1, <2>2
<1>9. CASE KillEnd(c)
  BY <1>6, <1>9 DEF KillEnd, At, IdleThread
<1>10. CASE ListJob(c)
  <2> DEFINE y == [th[c] EXCEPT !.todo = Tail(th[c].todo)]
  <2>1. th' = [th EXCEPT ![c] = y] /\ held' = held /\ mgr' = mgr /\ th[c].pc = "list"
    BY <1>1, <1>10, Rest DEF ListJob, At, ThreadState
  <2>2. y.pc = "list" /\ y.op = th[c].op
    BY <1>1, <2>1 DEF ThreadState
  <2> HIDE DEF y
  <2> QED BY <1>1, <2>1, <2>2, SetDoes
      DEF Moves, Locks, Manager, Inside, Calm, Onward, Launching
<1>11. CASE ListEnd(c)
  <2>1. /\ th' = [th EXCEPT ![c] = IdleThread] /\ held' = held /\ mgr' = None
        /\ th[c].pc = "list"
    BY <1>11 DEF ListEnd, At
  <2>2. Alone(c) /\ th'[c] = IdleThread
    BY <1>1, <2>1, SetDoes
  <2>3. th'[c].pc = "idle"
    BY <2>2 DEF IdleThread
  <2> QED BY <1>1, <2>1, <2>2, <2>3
      DEF Moves, Locks, Manager, Inside, Calm, Onward, Launching
<1>12. ASSUME NEW op \in Ops, NEW j \in Job, Call(c, op, j)
       PROVE  Moves(c) /\ Calm(c)
  <2> DEFINE s == [pc |-> IF op \in {"start", "stop"} THEN "get" ELSE "jobs",
                   op |-> op, job |-> j, todo |-> AllJobs]
  <2>1. th' = [th EXCEPT ![c] = s] /\ held' = held /\ mgr' = mgr /\ th[c].pc = "idle"
    BY <1>12 DEF Call, At
  <2>2. s.pc \in {"get", "jobs"}
    OBVIOUS
  <2> HIDE DEF s
  <2> QED BY <1>6, <2>1, <2>2
<1> QED BY <1>2, <1>3, <1>4, <1>5, <1>7, <1>8, <1>9, <1>10, <1>11, <1>12 DEF CallerStep

(* The watchdog goes on to the next daemon.                                *)
LEMMA LeaveDaemonDoes ==
  ASSUME IInv, LeaveDaemon, th[W].pc \in Inside, mgr' = mgr
  PROVE  Moves(W) /\ Calm(W) /\ Onward(W)
<1>1. W \in Thread
  BY Constants
<1>2. Alone(W) /\ th'[W].pc = "next" /\ Release(W)
  BY <1>1, GoDoes DEF LeaveDaemon
<1>3. th[W].pc # "list"
  BY DEF Inside
<1> QED BY <1>2, <1>3
    DEF Release, JobOf, Moves, Locks, Manager, Inside, Calm, Onward, Launching, Bound,
        Looked

(* The three steps that decide on a restart are not onward.                *)
LEMMA WatchdogMoves ==
  ASSUME IInv, WatchdogStep
  PROVE  /\ Moves(W)
         /\ Calm(W) \/ Begins(W)
         /\ \/ Onward(W) \/ Begins(W)
            \/ th[W].pc = "recheck" /\ Check
            \/ (\E k \in 0..MaxRestarts : Probe(k)) /\ th'[W].pc = "schedule"
            \/ Reprobe /\ th'[W].pc = "get"
<1>1. W \in Thread /\ th[W] \in ThreadState
  BY Constants, Rest
<1>2. CASE ThreadStep(W)
  BY <1>1, <1>2, ThreadMoves
<1> HIDE DEF W
<1>3. CASE Sweep
  <2> DEFINE s == [th[W] EXCEPT !.pc = "next", !.todo = Daemons]
  <2>1. th' = [th EXCEPT ![W] = s] /\ held' = held /\ mgr' = mgr /\ th[W].pc = "idle"
    BY <1>1, <1>3, Rest DEF Sweep, At, ThreadState
  <2>2. s.pc = "next"
    BY <1>1 DEF ThreadState
  <2> HIDE DEF s
  <2> QED BY <1>1, <2>1, <2>2, SetDoes
      DEF Moves, Locks, Manager, Inside, Calm, Onward, Launching, Bound, Looked
<1>4. CASE NextDaemon
  <2> DEFINE s == IF th[W].todo = <<>> THEN IdleThread
                  ELSE [th[W] EXCEPT !.pc = "lock", !.op = "check",
                                     !.job = Head(th[W].todo), !.todo = Tail(th[W].todo)]
  <2>1. th' = [th EXCEPT ![W] = s] /\ held' = held /\ mgr' = mgr /\ th[W].pc = "next"
    BY <1>4 DEF NextDaemon, At
  <2>2. s.pc \in {"idle", "lock"} /\ (s.pc = "lock" => s.op = "check")
    BY <1>1 DEF ThreadState, IdleThread
  <2> HIDE DEF s
  <2> QED BY <1>1, <2>1, <2>2, SetDoes
      DEF Moves, Locks, Manager, Inside, Calm, Onward, Launching, Bound, Looked
<1>5. CASE Check
  <2>1. th[W].pc \in {"check", "recheck"} /\ mgr' = mgr
    BY <1>5 DEF Check
  <2>2. CASE stop[JobOf(W)]
    BY <1>5, <2>1, <2>2, LeaveDaemonDoes DEF Check, Inside
  <2>3. CASE ~stop[JobOf(W)]
    <3>1. Go(W, IF At(W, "check") THEN "probe" ELSE "reprobe") /\ held' = held
      BY <1>5, <2>3 DEF Check
    <3> QED BY <1>1, <1>5, <2>1, <3>1, GoDoes
        DEF At, Moves, Locks, Manager, Inside, Calm, Onward, Launching, Bound, Looked
  <2> QED BY <2>2, <2>3
<1>6. ASSUME NEW k \in 0..MaxRestarts, Probe(k)
      PROVE  Moves(W) /\ Calm(W) /\ (Onward(W) \/ th'[W].pc = "schedule")
  <2>1. th[W].pc = "probe" /\ mgr' = mgr
    BY <1>6 DEF Probe, At
  <2>2. CASE LeaveDaemon
    BY <2>1, <2>2, LeaveDaemonDoes DEF Inside
  <2>3. CASE ~LeaveDaemon
    <3>1. Go(W, IF TooMany(k) THEN "giveup" ELSE "schedule") /\ held' = held
      BY <1>6, <2>3 DEF Probe
    <3> QED BY <1>1, <2>1, <3>1, GoDoes
        DEF Moves, Locks, Manager, Inside, Calm, Onward, Launching, Bound, Looked
  <2> QED BY <2>2, <2>3
<1>7. CASE GiveUp \/ Count \/ Complain
  BY <1>7, LeaveDaemonDoes DEF GiveUp, Count, Complain, At, Inside
<1>8. CASE Schedule
  BY <1>1, <1>8, GoAsDoes DEF Schedule, Release, JobOf, At, Moves, Locks, Manager, Inside,
    Calm, Onward, Launching, Bound, Looked
<1>9. CASE Reprobe
  <2>1. th[W].pc = "reprobe" /\ mgr' = mgr
    BY <1>9 DEF Reprobe, At
  <2>2. CASE LeaveDaemon
    BY <2>1, <2>2, LeaveDaemonDoes DEF Inside
  <2>3. CASE ~LeaveDaemon
    <3>1. Release(W) /\ GoAs(W, "start", "get")
      BY <1>9, <2>3 DEF Reprobe
    <3>2. Alone(W) /\ th'[W].pc = "get"
      BY <1>1, <3>1, GoAsDoes
    <3> QED BY <1>9, <2>1, <3>1, <3>2
        DEF Release, JobOf, Moves, Locks, Manager, Inside, Calm, Launching
  <2> QED BY <2>2, <2>3
<1> QED BY <1>2, <1>3, <1>4, <1>5, <1>6, <1>7, <1>8, <1>9 DEF WatchdogStep

-----------------------------------------------------------------------------
(* Who holds a lock is inside it, and only the watchdog wants another one  *)
(* there.                                                                  *)
Held ==
  /\ \A j \in Job : held[j] # None => th[held[j]].pc \in Inside /\ JobOf(held[j]) = j
  /\ mgr # None => th[mgr].pc = "list" /\ th[mgr].op = "list"
  /\ \A t \in Thread : th[t].pc \in {"probe", "reprobe"} => t = W

(* A move keeps the locks with those who are inside.                       *)
LEMMA MovesHeld ==
  ASSUME IInv, Held, NEW t \in Thread, Moves(t)
  PROVE  Held'
<1>1. /\ held \in [Job -> Thread \cup {None}] /\ th[t].job \in Job
      /\ mgr \in Thread \cup {None} /\ None \notin Thread
  BY Rest, Constants DEF IInv, BaseOK, RestOK, JobOf
<1>2. \A u \in Thread : u # t => th'[u] = th[u]
  BY DEF Moves, Alone
<1>3. ASSUME NEW j \in Job, held'[j] # None
      PROVE  th'[held'[j]].pc \in Inside /\ th'[held'[j]].job = j
  <2>1. held[j] # None => th[held[j]].pc \in Inside /\ th[held[j]].job = j
    BY DEF Held, JobOf
  <2> QED BY <1>1, <1>2, <1>3, <2>1 DEF Moves, Locks
<1>4. mgr' # None => th'[mgr'].pc = "list" /\ th'[mgr'].op = "list"
  BY <1>1, <1>2 DEF Moves, Manager, Held
<1>5. \A u \in Thread : th'[u].pc \in {"probe", "reprobe"} => u = W
  BY <1>2 DEF Moves, Held
<1> QED BY <1>3, <1>4, <1>5 DEF Held, JobOf

(* Nobody holds a lock at first.                                           *)
LEMMA InitHeld == Init => Held
BY DEF Init, Held, IdleThread

(* Every step moves a thread or none.                                      *)
LEMMA Steps ==
  ASSUME IInv, [Next]_vars
  PROVE  \/ \E c \in Caller : CallerStep(c) \/ \E op \in Ops, j \in Job : Call(c, op, j)
         \/ WatchdogStep
         \/ UNCHANGED <<mgr, held, th>>
<1>1. ASSUME NEW p \in Process, PumpStep(p) \/ Exit(p)
      PROVE  UNCHANGED <<mgr, held, th>>
  BY <1>1 DEF PumpStep, PumpExit, PumpRelease, Exit
<1>2. ASSUME NEW j \in Job, RowExpires(j)
      PROVE  UNCHANGED <<mgr, held, th>>
  BY <1>2 DEF RowExpires
<1> QED BY <1>1, <1>2 DEF Next, vars

(* Held is inductive.                                                      *)
LEMMA NextHeld == IInv /\ Held /\ [Next]_vars => Held'
<1> SUFFICES ASSUME IInv, Held, [Next]_vars
             PROVE  Held'
  OBVIOUS
<1>1. CASE UNCHANGED <<mgr, held, th>>
  BY <1>1 DEF Held, JobOf
<1>2. ASSUME NEW c \in Caller,
             CallerStep(c) \/ \E op \in Ops, j \in Job : Call(c, op, j)
      PROVE  Held'
  <2>1. c \in Thread
    BY Constants
  <2> QED BY <1>2, <2>1, CallerMoves, MovesHeld
<1>3. CASE WatchdogStep
  BY <1>3, WatchdogMoves, MovesHeld, Constants
<1> QED BY <1>1, <1>2, <1>3, Steps

(* Held excludes every other circle.                                       *)
LEMMA HeldCircles == IInv /\ Held => CirclesNeedList
<1> SUFFICES ASSUME IInv, Held, NEW t \in Thread, NEW u \in Thread,
                    t \in WaitsFor(u), u \in WaitsFor(t)
             PROVE  {th[t].op, th[u].op} \cap {"list"} # {} /\ W \in {t, u}
  BY DEF CirclesNeedList
<1>1. ASSUME NEW v \in Thread, NEW x \in Thread, x \in WaitsFor(v)
      PROVE  \/ th[v].pc \in {"lock", "list", "kill"} /\ \E j \in Job : held[j] = x
             \/ th[v].pc \in {"get", "jobs", "probe", "reprobe"} /\ mgr = x
  <2>1. th[v] \in ThreadState /\ JobOf(v) \in Job
    BY Rest
  <2>2. th[v].todo # <<>> => Head(th[v].todo) \in Job
    BY <2>1 DEF ThreadState
  <2> QED BY <1>1, <2>1, <2>2 DEF WaitsFor, At
(* Who waits for the holder of a job's lock waits for the watchdog.        *)
<1>2. ASSUME NEW v \in Thread, NEW x \in Thread, NEW j \in Job, held[j] = x,
             v \in WaitsFor(x)
      PROVE  x = W /\ th[v].op = "list"
  <2>1. x # None /\ th[x].pc \in Inside
    BY <1>2, Constants DEF Held
  <2>2. th[x].pc \in {"probe", "reprobe"} /\ mgr = v
    BY <1>1, <1>2, <2>1 DEF Inside
  <2> QED BY <2>2, <1>2, Constants DEF Held
<1>3. CASE \E j \in Job : held[j] = t
  BY <1>2, <1>3
<1>4. CASE \E j \in Job : held[j] = u
  BY <1>2, <1>4
<1>5. CASE mgr = t /\ mgr = u
  <2>1. th[t].pc = "list"
    BY <1>5, Constants DEF Held
  <2>2. u \in WaitsFor(t)
    OBVIOUS
  <2>3. \E j \in Job : held[j] = u
    BY <1>1, <2>1, <2>2
  <2> QED BY <1>4, <2>3
<1> QED BY <1>1, <1>3, <1>4, <1>5

(* jobs_manager.py:407, 623 - threads wait for each other in a circle only *)
(* when a list_jobs meets the watchdog.                                    *)
THEOREM CirclesAreLists == Spec => []CirclesNeedList
<1> QED BY HeldCircles, InitIInv, NextIInv, InitHeld, NextHeld, PTL DEF Spec

-----------------------------------------------------------------------------
(* Whatever Popen does, the thread leaves the lock.                        *)
LEMMA SpawnDoes ==
  ASSUME IInv, NEW t \in Thread, NEW b \in BOOLEAN, Spawn(t, b)
  PROVE  Alone(t) /\ th'[t].pc \in {"lock", "each", "idle"} /\ ~Launching(th'[t])
<1>1. PICK s \in {Returned(t, TRUE), Returned(t, FALSE), IdleThread} :
        th' = [th EXCEPT ![t] = s]
  BY DEF Spawn, Return, Raise
<1>2. Alone(t) /\ th'[t] = s
  BY <1>1, SetDoes
<1>3. Returned(t, TRUE).pc \in {"lock", "each", "idle"}
  BY ReturnedDoes
<1>4. Returned(t, FALSE).pc \in {"lock", "each", "idle"}
  BY ReturnedDoes
<1>5. IdleThread.pc = "idle"
  BY DEF IdleThread
<1> QED BY <1>2, <1>3, <1>4, <1>5 DEF Launching

(* Two threads are not inside the lock of one job.                         *)
LEMMA OneInside ==
  ASSUME IInv, NEW t \in Thread, NEW u \in Thread, JobOf(t) = JobOf(u),
         th[t].pc \in Inside, th[u].pc \in Inside
  PROVE  t = u
BY DEF IInv, Holders

(* The steps that processes, exit codes and rows are not about.            *)
Quiet ==
  /\ UNCHANGED <<gen, alive, pump, exit, row, raced, late>>
  /\ \A t \in Thread : Launching(th'[t]) => Launching(th[t]) /\ th'[t].job = th[t].job

(* What a step does to processes, exit codes and rows.                     *)
LEMMA Kinds ==
  ASSUME IInv, [Next]_vars
  PROVE  \/ Quiet
         \/ \E t \in Thread :
              Begins(t) \/ ScriptMissing(t) \/ \E b \in BOOLEAN : Spawn(t, b)
         \/ \E p \in Process : Exit(p) \/ PumpExit(p) \/ PumpRelease(p)
         \/ \E j \in Job : RowExpires(j)
<1>1. ASSUME NEW t \in Thread, Moves(t), Calm(t),
             UNCHANGED <<gen, alive, pump, exit, row, raced, late>>
      PROVE  Quiet
  BY <1>1 DEF Moves, Alone, Calm, Quiet
<1>2. ASSUME NEW t \in Thread, ThreadStep(t), ~Begins(t), ~ScriptMissing(t),
             ~\E b \in BOOLEAN : Spawn(t, b)
      PROVE  UNCHANGED <<gen, alive, pump, exit, row, raced, late>>
  <2>1. CASE StartBody(t)
    <3>1. Runs(JobOf(t)) \/ Refused(JobOf(t))
      BY <1>2, <2>1 DEF Begins
    <3> QED BY <2>1, <3>1 DEF StartBody
  <2>2. CASE ~StartBody(t)
    BY <1>2, <2>2 DEF ThreadStep, Get, PreflightFails, Lock, LogMissing, Log, SpawnRaises,
                      procs, flags, ghosts
  <2> QED BY <2>1, <2>2
<1>3. ASSUME NEW c \in Caller,
             CallerStep(c) \/ \E op \in Ops, j \in Job : Call(c, op, j)
      PROVE  \/ Quiet
             \/ Begins(c) \/ ScriptMissing(c) \/ \E b \in BOOLEAN : Spawn(c, b)
  <2>1. c \in Thread
    BY Constants
  <2>2. CASE ThreadStep(c)
    BY <1>1, <1>2, <1>3, <2>1, <2>2, CallerMoves
  <2>3. CASE ~ThreadStep(c)
    <3>1. UNCHANGED <<gen, alive, pump, exit, row, raced, late>>
      BY <1>3, <2>3 DEF CallerStep, StopBody, Terminate, StopAll, Each, Kill, LogKill,
                        KillEnd, List, ListJob, ListEnd, Call, procs, flags, ghosts
    <3> QED BY <1>1, <1>3, <2>1, <3>1, CallerMoves
  <2> QED BY <2>2, <2>3
<1>4. CASE WatchdogStep
  <2>1. W \in Thread
    BY Constants
  <2>2. CASE ThreadStep(W)
    BY <1>1, <1>2, <1>4, <2>1, <2>2, WatchdogMoves
  <2>3. CASE ~ThreadStep(W)
    <3>1. UNCHANGED <<gen, alive, pump, exit, row, raced, late>>
      BY <1>4, <2>3 DEF WatchdogStep, Sweep, NextDaemon, Check, Probe, GiveUp, Schedule,
                        Reprobe, Count, Complain, procs, flags, ghosts
    <3> QED BY <1>1, <1>4, <2>1, <3>1, WatchdogMoves
  <2> QED BY <2>2, <2>3
<1>5. CASE UNCHANGED vars
  BY <1>5 DEF vars, Quiet
<1> QED BY <1>3, <1>4, <1>5, Constants DEF Next, PumpStep

-----------------------------------------------------------------------------
(* The row of a one-shot job stands from the start until the pump has      *)
(* stored the exit code, and no other process is started meanwhile, but    *)
(* for the jobs whose row expired too early.                               *)
Unguarded == Daemon \cup late

Guarded ==
  /\ \A t \in Thread : Launching(th[t]) /\ JobOf(t) \notin Unguarded =>
       JobOf(t) \in row /\ exit[JobOf(t)] = 0
  /\ \A p \in Process : p[1] \notin Unguarded /\ pump[p] \in {"reading", "release"} =>
       /\ p[1] \in row /\ p[2] = gen[p[1]]
       /\ \A t \in Thread : JobOf(t) = p[1] => ~Launching(th[t])
  /\ ExitIsCurrent

(* No exit code is stored at first.                                        *)
LEMMA InitGuarded == Init => Guarded
BY DEF Init, Guarded, ExitIsCurrent, IdleThread, Launching

(* Guarded is inductive.                                                   *)
LEMMA NextGuarded == IInv /\ Guarded /\ [Next]_vars => Guarded'
<1> SUFFICES ASSUME IInv, Guarded, [Next]_vars
             PROVE  Guarded'
  OBVIOUS
<1>1. /\ gen \in [Job -> 0..MaxStarts] /\ exit \in [Job -> 0..MaxStarts]
      /\ pump \in [Process -> {"none", "reading", "release", "done"}]
      /\ \A t \in Thread : JobOf(t) \in Job
      /\ \A p \in Process : p[1] \in Job /\ p = <<p[1], p[2]>>
  BY Rest DEF RestOK, Process
<1>2. CASE Quiet
  BY <1>2 DEF Quiet, Guarded, Unguarded, ExitIsCurrent, JobOf
<1>3. ASSUME NEW t \in Thread, Begins(t)
      PROVE  Guarded'
  <2>1. /\ JobOf(t) \notin row
        /\ row' = IF JobOf(t) \in Daemon THEN row ELSE row \cup {JobOf(t)}
        /\ exit' = [exit EXCEPT ![JobOf(t)] = 0] /\ UNCHANGED <<gen, pump, late>>
        /\ Go(t, "log")
    BY <1>3 DEF Begins, StartBody, Refused
  <2>2. Alone(t) /\ th'[t].pc = "log" /\ th'[t].job = th[t].job
    BY <2>1, GoDoes
  <2> QED BY <1>1, <2>1, <2>2 DEF Alone, Guarded, Unguarded, ExitIsCurrent, JobOf
<1>4. ASSUME NEW t \in Thread, ScriptMissing(t)
      PROVE  Guarded'
  <2>1. /\ th[t].pc = "log" /\ row' = row \ {JobOf(t)} /\ UNCHANGED <<gen, pump, exit, late>>
        /\ Go(t, "logmissing")
    BY <1>4 DEF ScriptMissing, At, procs, ghosts
  <2>2. Alone(t) /\ th'[t].pc = "logmissing" /\ th'[t].job = th[t].job
    BY <2>1, GoDoes
  <2>3. \A u \in Thread : u # t /\ Launching(th[u]) => JobOf(u) # JobOf(t)
    BY <2>1, OneInside DEF Launching, Inside
  <2>4. \A p \in Process : p[1] \notin Unguarded /\ pump[p] \in {"reading", "release"} =>
          p[1] # JobOf(t)
    BY <2>1 DEF Guarded, Unguarded, Launching
  <2> QED BY <2>1, <2>2, <2>3, <2>4 DEF Alone, Guarded, Unguarded, ExitIsCurrent, JobOf, Launching
<1>5. ASSUME NEW t \in Thread, NEW b \in BOOLEAN, Spawn(t, b)
      PROVE  Guarded'
  <2> DEFINE j == JobOf(t)
             q == <<j, gen[j] + 1>>
  <2>1. /\ th[t].pc = "spawn" /\ UNCHANGED <<row, exit, late>>
        /\ gen' = [gen EXCEPT ![j] = gen[j] + 1]
        /\ pump' = pump \/ pump' = [pump EXCEPT ![q] = "reading"]
    BY <1>5 DEF Spawn, At, flags
  <2>2. Alone(t) /\ ~Launching(th'[t])
    BY <1>5, SpawnDoes
  <2>3. \A u \in Thread : u # t /\ Launching(th[u]) => JobOf(u) # JobOf(t)
    BY <2>1, OneInside DEF Launching, Inside
  <2>4. \A p \in Process : p[1] \notin Unguarded /\ pump[p] \in {"reading", "release"} =>
          p[1] # j
    BY <2>1 DEF Guarded, Unguarded, Launching
  <2>5. j \in Job /\ (j \notin Unguarded => j \in row /\ exit[j] = 0)
    BY <1>1, <2>1 DEF Guarded, Unguarded, Launching
  <2>6. gen'[j] = gen[j] + 1 /\ \A k \in Job : k # j => gen'[k] = gen[k]
    BY <1>1, <2>1, <2>5
  <2>7. \A u \in Thread : Launching(th'[u]) => u # t /\ th'[u] = th[u] /\ JobOf(u) # j
    BY <2>2, <2>3 DEF Alone
  <2>8. \A p \in Process : pump'[p] \in {"reading", "release"} =>
          pump[p] \in {"reading", "release"} \/ p = q
    BY <1>1, <2>1
  <2>9. \A u \in Thread : Launching(th'[u]) /\ th'[u].job \notin Unguarded =>
          th'[u].job \in row' /\ exit'[th'[u].job] = 0
    BY <2>1, <2>7 DEF Guarded, JobOf
  <2>10. ASSUME NEW p \in Process, p[1] \notin Unguarded, pump'[p] \in {"reading", "release"}
         PROVE  /\ p[1] \in row' /\ p[2] = gen'[p[1]]
                /\ \A u \in Thread : th'[u].job = p[1] => ~Launching(th'[u])
    <3>1. CASE p = q
      BY <2>1, <2>5, <2>6, <2>7, <2>10, <3>1 DEF JobOf
    <3>2. CASE p # q
      BY <1>1, <2>1, <2>4, <2>6, <2>7, <2>8, <2>10, <3>2 DEF Guarded, JobOf
    <3> QED BY <3>1, <3>2
  <2>11. ExitIsCurrent'
    BY <2>1, <2>5, <2>6 DEF Guarded, Unguarded, ExitIsCurrent
  <2>12. Unguarded' = Unguarded
    BY <2>1 DEF Unguarded
  <2> QED BY <2>9, <2>10, <2>11, <2>12 DEF Guarded, JobOf
<1>6. ASSUME NEW p \in Process, Exit(p) \/ PumpExit(p) \/ PumpRelease(p)
      PROVE  Guarded'
  <2>1. CASE Exit(p)
    BY <2>1 DEF Exit, flags, ghosts, Guarded, Unguarded, ExitIsCurrent, JobOf
  <2>2. CASE PumpExit(p)
    <3>1. /\ pump[p] = "reading" /\ UNCHANGED <<th, gen, row, late>>
          /\ exit' = [exit EXCEPT ![p[1]] = p[2]]
          /\ pump' = [pump EXCEPT ![p] = IF p[1] \in Daemon THEN "done" ELSE "release"]
      BY <2>2 DEF PumpExit, flags, ghosts
    <3>2. p[1] \notin Unguarded => /\ p[2] = gen[p[1]]
                                /\ \A t \in Thread : JobOf(t) = p[1] => ~Launching(th[t])
      BY <3>1 DEF Guarded, Unguarded
    <3>3. \A q \in Process : pump'[q] \in {"reading", "release"} /\ q[1] \notin Unguarded =>
            pump[q] \in {"reading", "release"}
      BY <1>1, <3>1
    <3>4. \A j \in Job \ Unguarded : exit'[j] = exit[j] \/ exit'[j] = gen[j]
      BY <1>1, <3>1, <3>2
    <3>5. \A t \in Thread : Launching(th[t]) /\ JobOf(t) \notin Unguarded =>
            exit'[JobOf(t)] = exit[JobOf(t)]
      BY <1>1, <3>1, <3>2
    <3> QED BY <3>1, <3>3, <3>4, <3>5 DEF Guarded, Unguarded, ExitIsCurrent, JobOf
  <2>3. CASE PumpRelease(p)
    <3>1. /\ pump[p] = "release" /\ UNCHANGED <<th, gen, exit, late>>
          /\ row' \in {row, row \ {p[1]}}
          /\ pump' = [pump EXCEPT ![p] = "done"]
      BY <2>3 DEF PumpRelease, ghosts
    <3>2. \A q \in Process : pump'[q] \in {"reading", "release"} =>
            q # p /\ pump[q] \in {"reading", "release"}
      BY <1>1, <3>1
    <3>3. \A q \in Process : q # p /\ q[1] = p[1] => q[2] # p[2]
      BY <1>1
    <3>4. \A q \in Process : pump'[q] \in {"reading", "release"} /\ q[1] \notin Unguarded =>
            q[1] # p[1]
      BY <3>1, <3>2, <3>3 DEF Guarded, Unguarded
    <3>5. \A t \in Thread : Launching(th[t]) /\ JobOf(t) \notin Unguarded => JobOf(t) # p[1]
      BY <3>1 DEF Guarded, Unguarded
    <3> QED BY <3>1, <3>2, <3>4, <3>5 DEF Guarded, Unguarded, ExitIsCurrent, JobOf
  <2> QED BY <1>6, <2>1, <2>2, <2>3
<1>7. ASSUME NEW j \in Job, RowExpires(j)
      PROVE  Guarded'
  <2>1. /\ UNCHANGED <<th, gen, exit, pump>> /\ row' = row \ {j}
        /\ late' = IF Needed(j) THEN late \cup {j} ELSE late
    BY <1>7 DEF RowExpires, procs
  <2>2. CASE Needed(j)
    BY <2>1, <2>2 DEF Guarded, Unguarded, ExitIsCurrent, JobOf
  <2>3. CASE ~Needed(j)
    <3>1. /\ \A t \in Thread : Launching(th[t]) => JobOf(t) # j
          /\ \A p \in Process : pump[p] \in {"reading", "release"} => p[1] # j
      BY <2>3 DEF Needed, Launching
    <3> QED BY <2>1, <2>3, <3>1 DEF Guarded, Unguarded, ExitIsCurrent, JobOf
  <2> QED BY <2>2, <2>3
<1> QED BY <1>2, <1>3, <1>4, <1>5, <1>6, <1>7, Kinds

(* jobs_manager.py:594 - the exit code of a one-shot job is that of its    *)
(* last process, unless the job's row expired before its pump was done,    *)
(* for any callers and jobs.                                               *)
THEOREM ExitCodesAreCurrent == Spec => []ExitIsCurrent
<1>1. Guarded => ExitIsCurrent
  BY DEF Guarded, Unguarded
<1> QED BY <1>1, InitIInv, NextIInv, InitGuarded, NextGuarded, PTL DEF Spec

-----------------------------------------------------------------------------
(* While no two daemons were started together, the one that is being       *)
(* started is alone.                                                       *)
Exclusive ==
  ~raced =>
    /\ \A p, q \in alive : p[1] \in Daemon /\ q[1] \in Daemon => p = q
    /\ \A t \in Thread : Launching(th[t]) /\ JobOf(t) \in Daemon =>
         \A p \in alive : p[1] \notin Daemon

(* No daemon runs at first.                                                *)
LEMMA InitExclusive == Init => Exclusive
BY DEF Init, Exclusive

(* Exclusive is inductive.                                                 *)
LEMMA NextExclusive == IInv /\ Exclusive /\ [Next]_vars => Exclusive'
<1> SUFFICES ASSUME IInv, Exclusive, [Next]_vars
             PROVE  Exclusive'
  OBVIOUS
<1>1. CASE Quiet
  BY <1>1 DEF Quiet, Exclusive, JobOf
<1>2. ASSUME NEW t \in Thread, Begins(t)
      PROVE  Exclusive'
  <2>1. Go(t, "log") /\ UNCHANGED <<gen, alive, raced>>
    BY <1>2 DEF Begins, StartBody
  <2>2. Alone(t) /\ th'[t].job = th[t].job
    BY <2>1, GoDoes
  <2>3. JobOf(t) \in Daemon => \A d \in Daemon : ~Runs(d)
    BY <1>2 DEF Begins, Refused, OtherDaemonRuns
  <2>4. \A p \in alive : p = <<p[1], gen[p[1]]>>
    BY Rest DEF IInv, LastOnly, RestOK, Process
  <2>5. JobOf(t) \in Daemon => \A p \in alive : p[1] \notin Daemon
    BY <2>3, <2>4 DEF Runs
  <2> QED BY <2>1, <2>2, <2>5 DEF Exclusive, Alone, JobOf
<1>3. ASSUME NEW t \in Thread, ScriptMissing(t)
      PROVE  Exclusive'
  <2>1. Go(t, "logmissing") /\ UNCHANGED <<alive, raced>>
    BY <1>3 DEF ScriptMissing, procs, ghosts
  <2>2. Alone(t) /\ ~Launching(th'[t])
    BY <2>1, GoDoes DEF Launching
  <2> QED BY <2>1, <2>2 DEF Exclusive, Alone, JobOf
<1>4. ASSUME NEW t \in Thread, NEW b \in BOOLEAN, Spawn(t, b)
      PROVE  Exclusive'
  <2> DEFINE j == JobOf(t)
             q == <<j, gen[j] + 1>>
  <2>1. /\ th[t].pc = "spawn" /\ alive' = alive \cup {q}
        /\ raced' = (raced \/ \E u \in Thread \ {t} :
                       {j, JobOf(u)} \subseteq Daemon /\ th[u].pc \in {"log", "spawn"})
    BY <1>4 DEF Spawn, At
  <2>2. Alone(t) /\ ~Launching(th'[t])
    BY <1>4, SpawnDoes
  <2>3. SUFFICES ASSUME ~raced'
                 PROVE  /\ \A x, y \in alive' :
                             x[1] \in Daemon /\ y[1] \in Daemon => x = y
                        /\ \A u \in Thread : Launching(th'[u]) /\ th'[u].job \in Daemon =>
                             \A x \in alive' : x[1] \notin Daemon
    BY DEF Exclusive, JobOf
  <2>4. ~raced
    BY <2>1, <2>3
  <2>5. q[1] = j
    OBVIOUS
  <2>6. j \in Daemon => \A x \in alive : x[1] \notin Daemon
    BY <2>1, <2>4 DEF Exclusive, Launching
  <2>7. \A x, y \in alive' : x[1] \in Daemon /\ y[1] \in Daemon => x = y
    <3> HIDE DEF q, j
    <3> QED BY <2>1, <2>4, <2>5, <2>6 DEF Exclusive
  <2>8. ASSUME NEW u \in Thread, Launching(th'[u]), th'[u].job \in Daemon
        PROVE  \A x \in alive' : x[1] \notin Daemon
    <3>1. u # t /\ th'[u] = th[u]
      BY <2>2, <2>8 DEF Alone
    <3>2. j \notin Daemon
      BY <2>1, <2>3, <2>8, <3>1 DEF Launching, JobOf
    <3>3. \A x \in alive : x[1] \notin Daemon
      BY <2>4, <2>8, <3>1 DEF Exclusive, JobOf
    <3> HIDE DEF q, j
    <3> QED BY <2>1, <2>5, <3>2, <3>3
  <2> QED BY <2>7, <2>8
<1>5. ASSUME NEW p \in Process, Exit(p) \/ PumpExit(p) \/ PumpRelease(p)
      PROVE  Exclusive'
  <2>1. alive' \subseteq alive /\ UNCHANGED <<th, raced>>
    BY <1>5 DEF Exit, PumpExit, PumpRelease, ghosts
  <2> QED BY <2>1 DEF Exclusive, JobOf
<1>6. ASSUME NEW j \in Job, RowExpires(j)
      PROVE  Exclusive'
  <2>1. UNCHANGED <<alive, th, raced>>
    BY <1>6 DEF RowExpires, procs
  <2> QED BY <2>1 DEF Exclusive, JobOf
<1> QED BY <1>1, <1>2, <1>3, <1>4, <1>5, <1>6, Kinds

(* jobs_manager.py:457 - at most one daemon runs, unless two were started  *)
(* at the same time.                                                       *)
THEOREM OneDaemon == Spec => []DaemonsExclude
<1>1. Exclusive => DaemonsExclude
  BY DEF Exclusive, DaemonsExclude
<1> QED BY <1>1, InitIInv, NextIInv, InitExclusive, NextExclusive, PTL DEF Spec

-----------------------------------------------------------------------------
(* A job that was started is wanted, or it was stopped, or a stop was      *)
(* missed; and what the watchdog has looked at is still so, since a stop   *)
(* needs the lock of the job.                                              *)
Wanted ==
  /\ \A j \in begun : wish[j] \/ stop[j] \/ missed
  /\ \A t \in Thread : Launching(th[t]) => wish[JobOf(t)] \/ missed
  /\ Bound(th[W]) => wish[JobOf(W)] \/ missed
  /\ At(W, "reprobe") => ~stop[JobOf(W)]
  /\ Looked(th[W]) => JobOf(W) \in begun

(* Nothing was started at first.                                           *)
LEMMA InitWanted == Init => Wanted
<1> SUFFICES ASSUME Init
             PROVE  Wanted
  OBVIOUS
<1>1. \A t \in Thread : th[t].pc = "idle"
  BY DEF Init, IdleThread
<1>2. W \in Thread /\ begun = {}
  BY Constants DEF Init
<1> QED BY <1>1, <1>2 DEF Wanted, Launching, Bound, Looked, At

(* A step that is calm and onward keeps it.                                *)
LEMMA WantedStays ==
  ASSUME IInv, Wanted, NEW t \in Thread, Moves(t), Calm(t), t = W => Onward(t),
         UNCHANGED <<stop, wish, missed, begun>>
  PROVE  Wanted'
<1>1. W \in Thread /\ (t # W => th'[W] = th[W])
  BY Constants DEF Moves, Alone
<1>2. \A u \in Thread : Launching(th'[u]) => Launching(th[u]) /\ th'[u].job = th[u].job
  BY DEF Moves, Alone, Calm
<1>3. /\ Bound(th'[W]) => Bound(th[W]) /\ th'[W].job = th[W].job
      /\ Looked(th'[W]) => Looked(th[W]) /\ th'[W].job = th[W].job
      /\ th'[W].pc = "reprobe" => th[W].pc = "reprobe" /\ th'[W].job = th[W].job
  BY <1>1 DEF Onward
<1> QED BY <1>2, <1>3 DEF Wanted, JobOf, At

(* A start resets stop_requested, for a caller who wants the job or for    *)
(* a watchdog that knows it is wanted.                                     *)
LEMMA WantedStartBody ==
  ASSUME IInv, Wanted, NEW t \in Thread, StartBody(t), Moves(t),
         (Calm(t) /\ Onward(t)) \/ Begins(t)
  PROVE  Wanted'
<1> DEFINE j == JobOf(t)
<1>1. /\ th[t].pc = "start" /\ stop' = [stop EXCEPT ![j] = FALSE]
      /\ wish' = IF t = W THEN wish ELSE [wish EXCEPT ![j] = TRUE]
      /\ UNCHANGED <<begun, missed>>
  BY DEF StartBody, At
<1>2. j \in Job /\ stop \in [Job -> BOOLEAN] /\ wish \in [Job -> BOOLEAN] /\ W \in Thread
      /\ begun \subseteq Job /\ JobOf(W) \in Job
  BY Rest, Constants DEF RestOK
<1>3. wish'[j] \/ missed'
  <2>1. CASE t = W
    BY <1>1, <2>1 DEF Wanted, Bound
  <2>2. CASE t # W
    BY <1>1, <1>2, <2>2
  <2> QED BY <2>1, <2>2
<1>4. \A k \in Job : k # j => (stop'[k] <=> stop[k]) /\ (wish'[k] <=> wish[k])
  BY <1>1, <1>2
<1>5. \A u \in Thread : u # t => th'[u] = th[u]
  BY DEF Moves, Alone
<1>6. /\ th'[t].job = j \/ ~Launching(th'[t])
      /\ t = W => /\ th'[W].job = j \/ ~Bound(th'[W])
                  /\ ~Looked(th'[W]) /\ th'[W].pc # "reprobe"
  <2>1. CASE Calm(t) /\ Onward(t)
    BY <1>1, <2>1 DEF Calm, Onward, Launching, Looked, JobOf
  <2>2. CASE Begins(t)
    <3>1. Go(t, "log")
      BY <2>2 DEF Begins, StartBody
    <3>2. th'[t].pc = "log" /\ th'[t].job = j
      BY <3>1, GoDoes DEF JobOf
    <3> QED BY <3>2 DEF Looked
  <2> QED BY <2>1, <2>2
<1>7. \A k \in begun : wish'[k] \/ stop'[k] \/ missed'
  BY <1>1, <1>2, <1>3, <1>4 DEF Wanted
<1>8. \A u \in Thread : Launching(th'[u]) => wish'[th'[u].job] \/ missed'
  <2>1. \A u \in Thread : JobOf(u) \in Job
    BY Rest
  <2> QED BY <1>1, <1>3, <1>4, <1>5, <1>6, <2>1 DEF Wanted, JobOf
<1>9. Bound(th'[W]) => wish'[th'[W].job] \/ missed'
  BY <1>1, <1>2, <1>3, <1>4, <1>5, <1>6 DEF Wanted, JobOf
<1>10. th'[W].pc = "reprobe" => ~stop'[th'[W].job]
  <2>1. CASE t = W
    BY <1>6, <2>1
  <2>2. CASE t # W
    <3>1. th'[W] = th[W] /\ (th[W].pc = "reprobe" => ~stop[JobOf(W)])
      BY <1>2, <1>5, <2>2 DEF Wanted, At
    <3>2. ~stop[JobOf(W)] => ~stop'[JobOf(W)]
      BY <1>1, <1>2
    <3> QED BY <3>1, <3>2 DEF JobOf
  <2> QED BY <2>1, <2>2
<1>11. Looked(th'[W]) => th'[W].job \in begun'
  <2>1. CASE t = W
    BY <1>6, <2>1
  <2>2. CASE t # W
    <3>1. th'[W] = th[W]
      BY <1>2, <1>5, <2>2
    <3> QED BY <1>1, <3>1 DEF Wanted, JobOf
  <2> QED BY <2>1, <2>2
<1> QED BY <1>1, <1>7, <1>8, <1>9, <1>10, <1>11 DEF Wanted, JobOf, At

(* What is about to be started is wanted.                                  *)
LEMMA WantedLog ==
  ASSUME IInv, Wanted, NEW t \in Thread, Log(t), Moves(t), Calm(t), Onward(t)
  PROVE  Wanted'
<1>1. /\ th[t].pc = "log" /\ begun' = begun \cup {JobOf(t)}
      /\ UNCHANGED <<stop, wish, missed>>
  BY DEF Log, At, ghosts
<1>2. wish[JobOf(t)] \/ missed
  BY <1>1 DEF Wanted, Launching
<1>3. W \in Thread /\ (t # W => th'[W] = th[W])
  BY Constants DEF Moves, Alone
<1>4. \A u \in Thread : Launching(th'[u]) => Launching(th[u]) /\ th'[u].job = th[u].job
  BY DEF Moves, Alone, Calm
<1>5. /\ Bound(th'[W]) => Bound(th[W]) /\ th'[W].job = th[W].job
      /\ Looked(th'[W]) => Looked(th[W]) /\ th'[W].job = th[W].job
      /\ th'[W].pc = "reprobe" => th[W].pc = "reprobe" /\ th'[W].job = th[W].job
  BY <1>3 DEF Onward
<1> QED BY <1>1, <1>2, <1>4, <1>5 DEF Wanted, JobOf, At

(* A stop finds the watchdog outside the lock of the job: before its       *)
(* last look, or past it and then the stop is missed.                      *)
LEMMA WantedStopBody ==
  ASSUME IInv, Wanted, NEW c \in Caller, StopBody(c), Moves(c), Calm(c)
  PROVE  Wanted'
<1> DEFINE j == JobOf(c)
<1>1. /\ th[c].pc = "stop" /\ stop' = [stop EXCEPT ![j] = TRUE] /\ begun' = begun
      /\ wish' = [wish EXCEPT ![j] = FALSE] /\ missed' = (missed \/ PastRecheck(j))
  BY DEF StopBody, At
<1>2. /\ j \in Job /\ stop \in [Job -> BOOLEAN] /\ wish \in [Job -> BOOLEAN]
      /\ W \in Thread /\ c \in Thread /\ c # W /\ begun \subseteq Job
      /\ \A u \in Thread : JobOf(u) \in Job
  BY Rest, Constants, NamesAssumption DEF RestOK
<1>3. th'[W] = th[W]
  BY <1>2 DEF Moves, Alone
<1>4. \A u \in Thread : Launching(th'[u]) => Launching(th[u]) /\ th'[u].job = th[u].job
  BY DEF Moves, Alone, Calm
<1>5. \A u \in Thread : th[u].pc \in Inside /\ u # c => JobOf(u) # j
  BY <1>1, <1>2, OneInside DEF Inside
<1>6. \A k \in Job : k # j => (stop'[k] <=> stop[k]) /\ (wish'[k] <=> wish[k])
  BY <1>1, <1>2
<1>7. stop'[j] /\ (missed => missed')
  BY <1>1, <1>2
<1>8. \A k \in begun : wish'[k] \/ stop'[k] \/ missed'
  BY <1>2, <1>6, <1>7 DEF Wanted
<1>9. \A u \in Thread : Launching(th[u]) => u # c /\ th[u].pc \in Inside
  BY <1>1 DEF Launching, Inside
<1>10. \A u \in Thread : Launching(th'[u]) => wish'[th'[u].job] \/ missed'
  BY <1>2, <1>4, <1>5, <1>6, <1>7, <1>9 DEF Wanted, JobOf
<1>11. Bound(th[W]) => wish'[JobOf(W)] \/ missed'
  <2>1. CASE JobOf(W) = j
    <3>1. th[W].pc \notin Inside
      BY <1>2, <1>5, <2>1
    <3>2. Bound(th[W]) => PastRecheck(j)
      BY <2>1, <3>1 DEF Bound, PastRecheck, Inside
    <3> QED BY <1>1, <3>2
  <2>2. CASE JobOf(W) # j
    BY <1>2, <1>6, <1>7, <2>2 DEF Wanted
  <2> QED BY <2>1, <2>2
<1>12. th[W].pc = "reprobe" => ~stop'[JobOf(W)]
  <2>1. th[W].pc = "reprobe" => JobOf(W) # j
    BY <1>2, <1>5 DEF Inside
  <2> QED BY <1>2, <1>6, <2>1 DEF Wanted, At
<1> QED BY <1>1, <1>3, <1>8, <1>10, <1>11, <1>12 DEF Wanted, JobOf, At

(* The steps of the watchdog that decide.                                  *)
LEMMA WantedDecides ==
  ASSUME IInv, Wanted, Moves(W), Calm(W),
         UNCHANGED <<wish, missed, begun>>,
         \/ th[W].pc = "recheck" /\ Check
         \/ (\E k \in 0..MaxRestarts : Probe(k)) /\ th'[W].pc = "schedule"
         \/ Reprobe /\ th'[W].pc = "get"
         \/ GiveUp
  PROVE  Wanted'
<1>1. /\ W \in Thread /\ JobOf(W) \in Job
      /\ stop \in [Job -> BOOLEAN] /\ begun \subseteq Job
      /\ \A u \in Thread : JobOf(u) \in Job
  BY Rest, Constants DEF RestOK
<1>2. \A u \in Thread : Launching(th'[u]) => Launching(th[u]) /\ th'[u].job = th[u].job
  BY DEF Moves, Alone, Calm
<1>3. \A u \in Thread : Launching(th'[u]) => wish'[th'[u].job] \/ missed'
  BY <1>2 DEF Wanted, JobOf
<1>4. ASSUME stop' = stop,
             Bound(th'[W]) => wish[th'[W].job] \/ missed,
             th'[W].pc = "reprobe" => ~stop[th'[W].job],
             Looked(th'[W]) => th'[W].job \in begun
      PROVE  Wanted'
  <2>1. \A k \in begun' : wish'[k] \/ stop'[k] \/ missed'
    BY <1>4 DEF Wanted
  <2> QED BY <1>3, <1>4, <2>1 DEF Wanted, JobOf, At
<1>5. ASSUME LeaveDaemon
      PROVE  ~Bound(th'[W]) /\ ~Looked(th'[W]) /\ th'[W].pc # "reprobe"
  <2>1. th'[W].pc = "next"
    BY <1>1, <1>5, GoDoes DEF LeaveDaemon
  <2> QED BY <2>1 DEF Bound, Looked
<1>6. CASE th[W].pc = "recheck" /\ Check
  <2>1. stop' = stop
    BY <1>6 DEF Check, flags
  <2>2. CASE stop[JobOf(W)]
    BY <1>4, <1>5, <1>6, <2>1, <2>2 DEF Check
  <2>3. CASE ~stop[JobOf(W)]
    <3>1. Go(W, "reprobe")
      BY <1>6, <2>3 DEF Check, At
    <3>2. th'[W].pc = "reprobe" /\ th'[W].job = th[W].job
      BY <1>1, <3>1, GoDoes
    <3>3. JobOf(W) \in begun
      BY <1>6 DEF Wanted, Looked
    <3> QED BY <1>4, <2>1, <2>3, <3>2, <3>3 DEF Bound, JobOf
  <2> QED BY <2>2, <2>3
<1>7. ASSUME NEW k \in 0..MaxRestarts, Probe(k), th'[W].pc = "schedule"
      PROVE  Wanted'
  <2>1. stop' = stop
    BY <1>7 DEF Probe
  <2>2. ~LeaveDaemon
    BY <1>5, <1>7 DEF Looked
  <2>3. JobOf(W) \in begun /\ Go(W, IF TooMany(k) THEN "giveup" ELSE "schedule")
    BY <1>7, <2>2 DEF Probe
  <2>4. th'[W].job = th[W].job
    BY <1>1, <2>3, GoDoes
  <2> QED BY <1>4, <1>7, <2>1, <2>3, <2>4 DEF Bound, JobOf
<1>8. CASE Reprobe /\ th'[W].pc = "get"
  <2>1. stop' = stop /\ th[W].pc = "reprobe"
    BY <1>8 DEF Reprobe, flags, At
  <2>2. ~LeaveDaemon
    <3>1. ASSUME LeaveDaemon PROVE FALSE
      <4>1. th'[W].pc = "next"
        BY <1>1, <3>1, GoDoes DEF LeaveDaemon
      <4> QED BY <1>8, <4>1
    <3> QED BY <3>1
  <2>3. GoAs(W, "start", "get")
    BY <1>8, <2>2 DEF Reprobe
  <2>4. th'[W].pc = "get" /\ th'[W].op = "start" /\ th'[W].job = th[W].job
    BY <1>1, <2>3, GoAsDoes
  <2>5. wish[JobOf(W)] \/ missed
    BY <2>1 DEF Wanted, At, Looked
  <2> QED BY <1>4, <2>1, <2>4, <2>5 DEF Looked, JobOf
<1>9. CASE GiveUp
  <2>1. stop' = [stop EXCEPT ![JobOf(W)] = TRUE] /\ LeaveDaemon
    BY <1>9 DEF GiveUp
  <2>2. \A k \in begun' : wish'[k] \/ stop'[k] \/ missed'
    BY <1>1, <2>1 DEF Wanted
  <2> QED BY <1>3, <1>5, <2>1, <2>2 DEF Wanted, JobOf, At
<1> QED BY <1>6, <1>7, <1>8, <1>9

(* Wanted is inductive.                                                    *)
LEMMA NextWanted == IInv /\ Wanted /\ [Next]_vars => Wanted'
<1> SUFFICES ASSUME IInv, Wanted, [Next]_vars
             PROVE  Wanted'
  OBVIOUS
<1>1. ASSUME NEW t \in Thread, ThreadStep(t)
      PROVE  Wanted'
  <2>1. Moves(t) /\ ((Calm(t) /\ Onward(t)) \/ Begins(t))
    BY <1>1, ThreadMoves
  <2>2. CASE StartBody(t)
    BY <2>1, <2>2, WantedStartBody
  <2>3. CASE Log(t)
    <3>1. ~Begins(t)
      BY <2>3 DEF Begins, StartBody, Log, At
    <3> QED BY <2>1, <2>3, <3>1, WantedLog
  <2>4. CASE ~StartBody(t) /\ ~Log(t)
    <3>1. UNCHANGED <<stop, wish, missed, begun>>
      BY <1>1, <2>4 DEF ThreadStep, Get, PreflightFails, Lock, ScriptMissing, LogMissing,
                        Spawn, SpawnRaises, flags, ghosts
    <3> QED BY <2>1, <2>4, <3>1, WantedStays DEF Begins
  <2> QED BY <2>2, <2>3, <2>4
<1>2. ASSUME NEW c \in Caller,
             CallerStep(c) \/ \E op \in Ops, j \in Job : Call(c, op, j), ~ThreadStep(c)
      PROVE  Wanted'
  <2>1. c \in Thread /\ c # W /\ Moves(c) /\ Calm(c)
    BY <1>2, CallerMoves, Constants, NamesAssumption DEF Begins, ThreadStep
  <2>2. CASE StopBody(c)
    BY <2>1, <2>2, WantedStopBody
  <2>3. CASE ~StopBody(c)
    <3>1. UNCHANGED <<stop, wish, missed, begun>>
      BY <1>2, <2>3 DEF CallerStep, Terminate, StopAll, Each, Kill, LogKill, KillEnd,
                        List, ListJob, ListEnd, Call, flags, ghosts
    <3> QED BY <2>1, <3>1, WantedStays
  <2> QED BY <2>2, <2>3
<1>3. CASE WatchdogStep /\ ~ThreadStep(W)
  <2>1. /\ Moves(W) /\ Calm(W) /\ W \in Thread
        /\ \/ Onward(W)
           \/ th[W].pc = "recheck" /\ Check
           \/ (\E k \in 0..MaxRestarts : Probe(k)) /\ th'[W].pc = "schedule"
           \/ Reprobe /\ th'[W].pc = "get"
    BY <1>3, WatchdogMoves, Constants DEF Begins, ThreadStep
  <2>2. UNCHANGED <<wish, missed, begun>> /\ (GiveUp \/ stop' = stop)
    BY <1>3 DEF WatchdogStep, Sweep, NextDaemon, Check, Probe, GiveUp, Schedule, Reprobe,
                Count, Complain, flags, ghosts
  <2>3. CASE GiveUp
    BY <2>1, <2>2, <2>3, WantedDecides
  <2>4. CASE stop' = stop
    <3>1. CASE Onward(W)
      BY <2>1, <2>2, <2>4, <3>1, WantedStays
    <3>2. CASE ~Onward(W)
      BY <2>1, <2>2, <3>2, WantedDecides
    <3> QED BY <3>1, <3>2
  <2> QED BY <2>2, <2>3, <2>4
<1>4. ASSUME NEW p \in Process, PumpStep(p) \/ Exit(p)
      PROVE  Wanted'
  <2>1. UNCHANGED <<th, stop, wish, missed, begun>>
    BY <1>4 DEF PumpStep, PumpExit, PumpRelease, Exit, flags, ghosts
  <2> QED BY <2>1 DEF Wanted, JobOf, At
<1>5. CASE UNCHANGED vars
  BY <1>5 DEF vars, Wanted, JobOf, At
<1>6. ASSUME NEW j \in Job, RowExpires(j)
      PROVE  Wanted'
  <2>1. UNCHANGED <<th, stop, wish, missed, begun>>
    BY <1>6 DEF RowExpires
  <2> QED BY <2>1 DEF Wanted, JobOf, At
<1> QED BY <1>1, <1>2, <1>3, <1>4, <1>5, <1>6, Constants DEF Next, CallerStep, WatchdogStep

(* jobs_manager.py:664, 669 - the watchdog starts no job that the operator *)
(* wants stopped, but for the stop that falls between its last look and    *)
(* the start; jobs_manager.py:642 - nor one whose window is full of        *)
(* restarts that were counted.                                             *)
THEOREM RestartsAreAskedFor == Spec => RestartsAreWanted
<1> DEFINE A == \A j \in Job : gen'[j] # gen[j] /\ At(W, "spawn") /\ ~At(W, "spawn")'
                               /\ JobOf(W) = j
                               => (wish[j] \/ missed) /\ tries[j] < MaxRestarts
<1>1. ASSUME IInv, Wanted, Room, [Next]_vars
      PROVE  [A]_vars
  <2> SUFFICES ASSUME NEW j \in Job, gen'[j] # gen[j], At(W, "spawn"), ~At(W, "spawn")',
                      JobOf(W) = j
               PROVE  (wish[j] \/ missed) /\ tries[j] < MaxRestarts
    OBVIOUS
  <2>1. W \in Thread /\ th[W].pc = "spawn"
    BY Constants DEF At
  <2>2. wish[j] \/ missed
    BY <1>1, <2>1 DEF Wanted, Launching
  <2>3. Restarting(th[W])
    BY <1>1, <2>1 DEF Room, Telling, Restarting
  <2> QED BY <1>1, <2>2, <2>3 DEF Room
<1> QED BY <1>1, InitIInv, NextIInv, InitWanted, NextWanted, InitRoom, NextRoom, PTL
        DEF Spec, RestartsAreWanted
=============================================================================
