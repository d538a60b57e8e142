----------------------------- MODULE JobManager -----------------------------
(***************************************************************************)
(* The job manager of jobs_manager.py: callers (the threads of the         *)
(* dashboard and of the pipeline loop) start, stop and list jobs, a        *)
(* watchdog restarts the daemons that died, and one thread for each        *)
(* process pumps its output.                                               *)
(*                                                                         *)
(* There is a lock for each job and one for the manager.  append_log takes *)
(* the lock of the job and is called by threads that hold it already.      *)
(* Reentrant says whether such a thread gets it: FALSE is threading.Lock,  *)
(* as it stands; TRUE is a lock for which the code would be right, and     *)
(* shows what is left of its hazards.                                      *)
(*                                                                         *)
(* Here a one-shot job has a row in job_locks or not; its row, good for    *)
(* ten minutes and touched by nobody, may expire at any moment.  The rows  *)
(* that other processes write are the subject of PipelineLock.             *)
(***************************************************************************)
EXTENDS Integers, Sequences

CONSTANTS
  Reentrant,   \* a thread may take a lock it holds
  Caller,      \* the threads that call the manager
  Ops,         \* what they call: a subset of AllOps
  Daemons,     \* the daemon jobs, in the order of the sweep
  OneShots,    \* the other jobs, a sequence too
  MaxRestarts, \* DAEMON_RESTART_MAX_IN_WINDOW
  MaxCalls,    \* bound: calls
  MaxStarts    \* bound: processes of each job

AllOps == {"start", "stop", "list", "stopall"}
AllJobs == Daemons \o OneShots
Names(s) == {s[i] : i \in DOMAIN s}
Daemon == Names(Daemons)
Job == Names(AllJobs)
W == "watchdog"
None == "none"
Thread == Caller \cup {W}
Process == Job \X (1..MaxStarts)

ASSUME ReentrantAssumption == Reentrant \in BOOLEAN
ASSUME OpsAssumption == Ops \subseteq AllOps
ASSUME JobsAssumption == Daemons \in Seq(STRING) /\ OneShots \in Seq(STRING) /\ AllJobs # <<>>
ASSUME BoundsAssumption == {MaxRestarts, MaxCalls, MaxStarts} \subseteq Nat
ASSUME NamesAssumption == W \notin Caller /\ None \notin Thread

VARIABLES
  mgr,         \* who holds JobManager._lock
  held,        \* who holds JobState._lock, for each job
  th,          \* the local state of each thread
  gen,         \* how many processes a job has had: the last one is job.proc
  alive,       \* the processes that run
  term,        \* the processes that were sent a signal
  pump,        \* the state of the pump of each process
  stop,        \* stop_requested
  tries,       \* the length of restart_attempts_window
  begun,       \* the jobs with a started_at_ms
  exit,        \* the process whose exit code is in exit_code, or 0
  row,         \* the one-shot jobs with a row in job_locks
  calls,
  wish,        \* ghost: what the operator asked for last, for each job
  missed,      \* ghost: a stop came between the watchdog's check and its start
  raced,       \* ghost: two daemons were started at the same time
  late         \* ghost: the jobs whose row expired on a start or a pump of theirs

vars == <<mgr, held, th, gen, alive, term, pump, stop, tries, begun, exit, row, calls,
          wish, missed, raced, late>>
procs == <<gen, alive, term, pump, exit>>
flags == <<stop, tries, begun, row>>
ghosts == <<wish, missed, raced, late>>

(* Where a thread that has got the lock of a job goes, by what it does.    *)
Body == [start |-> "start", stop |-> "stop", stopall |-> "stop", check |-> "check",
         recheck |-> "recheck", restarted |-> "count", failed |-> "complain"]

(* The places inside the lock of a job, and those outside.                 *)
Inside == {"start", "log", "logmissing", "spawn", "stop", "terminate", "check", "probe",
           "giveup", "schedule", "recheck", "reprobe", "count", "complain"}
Place == Inside \cup {"idle", "get", "lock", "jobs", "each", "kill", "logkill", "list", "next"}

IdleThread == [pc |-> "idle", op |-> None, job |-> AllJobs[1], todo |-> <<>>]

TypeOK ==
  /\ mgr \in Caller \cup {None}
  /\ held \in [Job -> Thread \cup {None}]
  /\ th \in [Thread -> [pc : Place, op : DOMAIN Body \cup {"list", None},
                       job : Job, todo : Seq(Job)]]
  /\ gen \in [Job -> 0..MaxStarts]
  /\ alive \subseteq Process /\ term \subseteq Process
  /\ pump \in [Process -> {"none", "reading", "release", "done"}]
  /\ stop \in [Job -> BOOLEAN]
  /\ tries \in [Job -> 0..MaxRestarts]
  /\ begun \subseteq Job
  /\ exit \in [Job -> 0..MaxStarts]
  /\ row \subseteq Job \ Daemon
  /\ calls \in 0..MaxCalls
  /\ wish \in [Job -> BOOLEAN] /\ missed \in BOOLEAN /\ raced \in BOOLEAN
  /\ late \subseteq Job \ Daemon

Init ==
  /\ mgr = None
  /\ held = [j \in Job |-> None]
  /\ th = [t \in Thread |-> IdleThread]
  /\ gen = [j \in Job |-> 0]
  /\ alive = {} /\ term = {}
  /\ pump = [p \in Process |-> "none"]
  /\ stop = [j \in Job |-> FALSE]
  /\ tries = [j \in Job |-> 0]
  /\ exit = [j \in Job |-> 0]
  /\ begun = {} /\ row = {}
  /\ calls = 0
  /\ wish = [j \in Job |-> FALSE] /\ missed = FALSE /\ raced = FALSE /\ late = {}

At(t, pc) == th[t].pc = pc
JobOf(t) == th[t].job
Go(t, pc) == th' = [th EXCEPT ![t].pc = pc]
GoAs(t, op, pc) == th' = [th EXCEPT ![t].pc = pc, ![t].op = op]

(* job.proc is not None and job.proc.poll() is None                        *)
Runs(j) == <<j, gen[j]>> \in alive

(* append_log, called with the lock of the job held.                       *)
MayLog == Reentrant

Release(t) == held' = [held EXCEPT ![JobOf(t)] = None]

(* Where a thread goes when start or stop returns.                         *)
Returned(t, ok) ==
  IF t = W THEN [th[t] EXCEPT !.pc = "lock", !.op = IF ok THEN "restarted" ELSE "failed"]
  ELSE IF th[t].op = "stopall" THEN [th[t] EXCEPT !.pc = "each"]
  ELSE IdleThread

Return(t, ok) == Release(t) /\ th' = [th EXCEPT ![t] = Returned(t, ok)]

(* An exception in start ends the watchdog's sweep.                        *)
Raise(t) ==
  /\ Release(t)
  /\ th' = [th EXCEPT ![t] = IF t = W THEN IdleThread ELSE Returned(t, FALSE)]

-----------------------------------------------------------------------------
(* Calls, and JobManager.get, which takes and leaves the manager's lock.   *)

Call(c, op, j) ==
  /\ At(c, "idle") /\ calls < MaxCalls
  /\ calls' = calls + 1
  /\ th' = [th EXCEPT ![c] = [pc |-> IF op \in {"start", "stop"} THEN "get" ELSE "jobs",
                              op |-> op, job |-> j, todo |-> AllJobs]]
  /\ UNCHANGED <<mgr, held, procs, flags, ghosts>>

Get(t) ==
  /\ At(t, "get") /\ mgr = None
  /\ Go(t, "lock")
  /\ UNCHANGED <<mgr, held, procs, flags, calls, ghosts>>

(* PREFLIGHT_BLOCK_JOBS: start returns before it takes any lock.           *)
PreflightFails(t) ==
  /\ At(t, "lock") /\ th[t].op = "start"
  /\ th' = [th EXCEPT ![t] = Returned(t, FALSE)]
  /\ UNCHANGED <<mgr, held, procs, flags, calls, ghosts>>

(* Mutant: the lock does not keep others out.                              *)
LockFreely(t) ==
  /\ At(t, "lock")
  /\ held' = [held EXCEPT ![JobOf(t)] = t]
  /\ Go(t, Body[th[t].op])
  /\ UNCHANGED <<mgr, procs, flags, calls, ghosts>>

Lock(t) ==
  /\ At(t, "lock") /\ held[JobOf(t)] = None
  /\ held' = [held EXCEPT ![JobOf(t)] = t]
  /\ Go(t, Body[th[t].op])
  /\ UNCHANGED <<mgr, procs, flags, calls, ghosts>>

-----------------------------------------------------------------------------
(* start                                                                   *)

OtherDaemonRuns(j) == \E d \in Daemon \ {j} : Runs(d)

(* Mutants: no look at the other daemons; none at the row.                 *)
RefusedAlone(j) == j \in row

RefusedDaemon(j) == j \in Daemon /\ OtherDaemonRuns(j)

Refused(j) == \/ j \in Daemon /\ OtherDaemonRuns(j)
              \/ j \in row

(* stop_requested is reset whoever starts the job and whatever follows.    *)
StartBody(t) ==
  /\ At(t, "start")
  /\ LET j == JobOf(t) IN
     /\ stop' = [stop EXCEPT ![j] = FALSE]
     /\ wish' = IF t = W THEN wish ELSE [wish EXCEPT ![j] = TRUE]
     /\ IF Runs(j) \/ Refused(j)
          THEN Return(t, Runs(j)) /\ UNCHANGED <<row, exit>>
          ELSE /\ Go(t, "log")
               /\ row' = IF j \in Daemon THEN row ELSE row \cup {j}
               /\ exit' = [exit EXCEPT ![j] = 0]
               /\ UNCHANGED held
  /\ UNCHANGED <<mgr, gen, alive, term, pump, tries, begun, calls, missed, raced, late>>

ScriptMissing(t) ==
  /\ At(t, "log")
  /\ row' = row \ {JobOf(t)}
  /\ Go(t, "logmissing")
  /\ UNCHANGED <<mgr, held, procs, stop, tries, begun, calls, ghosts>>

LogMissing(t) ==
  /\ At(t, "logmissing") /\ MayLog
  /\ Return(t, FALSE)
  /\ UNCHANGED <<mgr, procs, flags, calls, ghosts>>

Log(t) ==
  /\ At(t, "log") /\ MayLog
  /\ begun' = begun \cup {JobOf(t)}
  /\ Go(t, "spawn")
  /\ UNCHANGED <<mgr, held, procs, stop, tries, row, calls, ghosts>>

(* Popen, the heartbeat of the row and the pump.  When the heartbeat       *)
(* raises, the process runs without a pump.                                *)
Spawn(t, pumped) ==
  /\ At(t, "spawn") /\ gen[JobOf(t)] < MaxStarts
  /\ LET j == JobOf(t)
         p == <<j, gen[j] + 1>>
     IN
     /\ gen' = [gen EXCEPT ![j] = @ + 1]
     /\ alive' = alive \cup {p}
     /\ pump' = IF pumped THEN [pump EXCEPT ![p] = "reading"] ELSE pump
     /\ raced' = (raced \/ \E u \in Thread \ {t} :
                    {j, JobOf(u)} \subseteq Daemon /\ th[u].pc \in {"log", "spawn"})
  /\ IF pumped THEN Return(t, TRUE) ELSE Raise(t)
  /\ UNCHANGED <<mgr, term, exit, flags, calls, wish, missed, late>>

(* Popen raises: the row of a one-shot job stays.                          *)
SpawnRaises(t) ==
  /\ At(t, "spawn")
  /\ Raise(t)
  /\ UNCHANGED <<mgr, procs, flags, calls, ghosts>>

-----------------------------------------------------------------------------
(* stop, stop_all, list_jobs                                               *)

(* The watchdog has looked at stop_requested for the last time and has not *)
(* yet reset it.                                                           *)
PastRecheck(j) == JobOf(W) = j /\ th[W].op = "start" /\ th[W].pc \in {"get", "lock"}

StopBody(t) ==
  /\ At(t, "stop")
  /\ stop' = [stop EXCEPT ![JobOf(t)] = TRUE]
  /\ wish' = [wish EXCEPT ![JobOf(t)] = FALSE]
  /\ missed' = (missed \/ PastRecheck(JobOf(t)))
  /\ IF Runs(JobOf(t)) THEN Go(t, "terminate") /\ UNCHANGED held
                       ELSE Return(t, TRUE)
  /\ UNCHANGED <<mgr, procs, tries, begun, row, calls, raced, late>>

Terminate(t) ==
  /\ At(t, "terminate") /\ MayLog
  /\ term' = term \cup {<<JobOf(t), gen[JobOf(t)]>>}
  /\ Return(t, TRUE)
  /\ UNCHANGED <<mgr, gen, alive, pump, exit, flags, calls, ghosts>>

StopAll(t) ==
  /\ At(t, "jobs") /\ th[t].op = "stopall" /\ mgr = None
  /\ Go(t, "each")
  /\ UNCHANGED <<mgr, held, procs, flags, calls, ghosts>>

Each(t) ==
  /\ At(t, "each")
  /\ th' = [th EXCEPT ![t] =
       IF @.todo = <<>> THEN [@ EXCEPT !.pc = "kill", !.todo = AllJobs]
       ELSE [@ EXCEPT !.pc = "get", !.job = Head(th[t].todo), !.todo = Tail(th[t].todo)]]
  /\ UNCHANGED <<mgr, held, procs, flags, calls, ghosts>>

(* The process is read under the lock; what still runs after the wait is   *)
(* killed without it.                                                      *)
Kill(t) ==
  /\ At(t, "kill") /\ th[t].todo # <<>>
  /\ LET j == Head(th[t].todo) IN
     /\ held[j] = None
     /\ \/ /\ Runs(j)
           /\ term' = term \cup {<<j, gen[j]>>}
           /\ th' = [th EXCEPT ![t].pc = "logkill", ![t].job = j, ![t].todo = Tail(@)]
        \/ /\ ~Runs(j) \/ <<j, gen[j]>> \in term
           /\ th' = [th EXCEPT ![t].todo = Tail(@)]
           /\ UNCHANGED term
  /\ UNCHANGED <<mgr, held, gen, alive, pump, exit, flags, calls, ghosts>>

LogKill(t) ==
  /\ At(t, "logkill") /\ held[JobOf(t)] = None /\ MayLog
  /\ Go(t, "kill")
  /\ UNCHANGED <<mgr, held, procs, flags, calls, ghosts>>

KillEnd(t) ==
  /\ At(t, "kill") /\ th[t].todo = <<>>
  /\ th' = [th EXCEPT ![t] = IdleThread]
  /\ UNCHANGED <<mgr, held, procs, flags, calls, ghosts>>

(* list_jobs keeps the manager's lock while it takes that of each job.     *)
List(t) ==
  /\ At(t, "jobs") /\ th[t].op = "list" /\ mgr = None
  /\ mgr' = t
  /\ Go(t, "list")
  /\ UNCHANGED <<held, procs, flags, calls, ghosts>>

ListJob(t) ==
  /\ At(t, "list") /\ th[t].todo # <<>>
  /\ held[Head(th[t].todo)] = None
  /\ th' = [th EXCEPT ![t].todo = Tail(@)]
  /\ UNCHANGED <<mgr, held, procs, flags, calls, ghosts>>

ListEnd(t) ==
  /\ At(t, "list") /\ th[t].todo = <<>>
  /\ mgr' = None
  /\ th' = [th EXCEPT ![t] = IdleThread]
  /\ UNCHANGED <<held, procs, flags, calls, ghosts>>

-----------------------------------------------------------------------------
(* The watchdog: one sweep over the daemons after the other.               *)

Sweep ==
  /\ At(W, "idle") /\ mgr = None
  /\ th' = [th EXCEPT ![W].pc = "next", ![W].todo = Daemons]
  /\ UNCHANGED <<mgr, held, procs, flags, calls, ghosts>>

NextDaemon ==
  /\ At(W, "next")
  /\ th' = [th EXCEPT ![W] =
       IF @.todo = <<>> THEN IdleThread
       ELSE [@ EXCEPT !.pc = "lock", !.op = "check",
                      !.job = Head(th[W].todo), !.todo = Tail(th[W].todo)]]
  /\ UNCHANGED <<mgr, held, procs, flags, calls, ghosts>>

LeaveDaemon == Release(W) /\ Go(W, "next")

(* The first and the second look at stop_requested.                        *)
(* Mutant: the second is missing.                                          *)
RecheckNothing ==
  /\ th[W].pc \in {"check", "recheck"}
  /\ Go(W, IF At(W, "check") THEN "probe" ELSE "reprobe") /\ UNCHANGED held
  /\ UNCHANGED <<mgr, procs, flags, calls, ghosts>>

Check ==
  /\ th[W].pc \in {"check", "recheck"}
  /\ IF stop[JobOf(W)] THEN LeaveDaemon
     ELSE Go(W, IF At(W, "check") THEN "probe" ELSE "reprobe") /\ UNCHANGED held
  /\ UNCHANGED <<mgr, procs, flags, calls, ghosts>>

(* Mutant: one more.                                                       *)
OneTooMany(k) == k > MaxRestarts

TooMany(k) == k >= MaxRestarts

(* is_running takes the manager's lock while that of the job is held.      *)
(* The window of restarts slides: k of them are left.                      *)
Probe(k) ==
  /\ At(W, "probe") /\ mgr = None
  /\ LET j == JobOf(W) IN
     /\ k <= tries[j]
     /\ IF Runs(j) \/ j \notin begun
          THEN k = tries[j] /\ LeaveDaemon
          ELSE Go(W, IF TooMany(k) THEN "giveup" ELSE "schedule") /\ UNCHANGED held
     /\ tries' = [tries EXCEPT ![j] = k]
  /\ UNCHANGED <<mgr, procs, stop, begun, row, calls, ghosts>>

GiveUp ==
  /\ At(W, "giveup") /\ MayLog
  /\ stop' = [stop EXCEPT ![JobOf(W)] = TRUE]
  /\ LeaveDaemon
  /\ UNCHANGED <<mgr, procs, tries, begun, row, calls, ghosts>>

(* The lock is let go, and the delay passes.                               *)
Schedule ==
  /\ At(W, "schedule") /\ MayLog
  /\ Release(W)
  /\ GoAs(W, "recheck", "lock")
  /\ UNCHANGED <<mgr, procs, flags, calls, ghosts>>

(* Mutant: the job is started inside its lock.                             *)
ReprobeInside ==
  /\ At(W, "reprobe") /\ mgr = None
  /\ IF Runs(JobOf(W)) THEN LeaveDaemon ELSE GoAs(W, "start", "get") /\ UNCHANGED held
  /\ UNCHANGED <<mgr, procs, flags, calls, ghosts>>

Reprobe ==
  /\ At(W, "reprobe") /\ mgr = None
  /\ IF Runs(JobOf(W)) THEN LeaveDaemon ELSE Release(W) /\ GoAs(W, "start", "get")
  /\ UNCHANGED <<mgr, procs, flags, calls, ghosts>>

(* deque.append: "already_running" counts as a restart too.                *)
Count ==
  /\ At(W, "count") /\ MayLog
  /\ tries' = [tries EXCEPT ![JobOf(W)] = @ + 1]
  /\ LeaveDaemon
  /\ UNCHANGED <<mgr, procs, stop, begun, row, calls, ghosts>>

Complain ==
  /\ At(W, "complain") /\ MayLog
  /\ LeaveDaemon
  /\ UNCHANGED <<mgr, procs, flags, calls, ghosts>>

-----------------------------------------------------------------------------
(* Processes and their pumps.                                              *)

Exit(p) ==
  /\ p \in alive
  /\ alive' = alive \ {p}
  /\ UNCHANGED <<mgr, held, th, gen, term, pump, exit, flags, calls, ghosts>>

(* The output ends with the process (the pump is taken to read the job's   *)
(* process before another one replaces it); the exit is stored in the      *)
(* JobState, whichever process it has by now.                              *)
PumpExit(p) ==
  /\ pump[p] = "reading" /\ p \notin alive
  /\ held[p[1]] = None /\ MayLog
  /\ exit' = [exit EXCEPT ![p[1]] = p[2]]
  /\ pump' = [pump EXCEPT ![p] = IF p[1] \in Daemon THEN "done" ELSE "release"]
  /\ UNCHANGED <<mgr, held, th, gen, alive, term, flags, calls, ghosts>>

(* When the DELETE fails, the row stays until it expires.                  *)
PumpRelease(p) ==
  /\ pump[p] = "release"
  /\ row' \in {row, row \ {p[1]}}
  /\ pump' = [pump EXCEPT ![p] = "done"]
  /\ UNCHANGED <<mgr, held, th, gen, alive, term, exit, stop, tries, begun, calls, ghosts>>

-----------------------------------------------------------------------------
(* The row of a one-shot job expires: the next start takes it for gone.    *)
(* Someone still counts on it when a start has taken it and not yet made   *)
(* its process, or the pump of a process has not yet let it go.            *)
Needed(j) ==
  \/ \E t \in Thread : JobOf(t) = j /\ th[t].pc \in {"log", "spawn"}
  \/ \E p \in Process : p[1] = j /\ pump[p] \in {"reading", "release"}

RowExpires(j) ==
  /\ j \in row
  /\ row' = row \ {j}
  /\ late' = IF Needed(j) THEN late \cup {j} ELSE late
  /\ UNCHANGED <<mgr, held, th, procs, stop, tries, begun, calls, wish, missed, raced>>

-----------------------------------------------------------------------------
ThreadStep(t) ==
  \/ Get(t) \/ PreflightFails(t) \/ Lock(t)
  \/ StartBody(t) \/ ScriptMissing(t) \/ LogMissing(t) \/ Log(t)
  \/ \E pumped \in BOOLEAN : Spawn(t, pumped)
  \/ SpawnRaises(t)

CallerStep(c) ==
  \/ ThreadStep(c)
  \/ StopBody(c) \/ Terminate(c)
  \/ StopAll(c) \/ Each(c) \/ Kill(c) \/ LogKill(c) \/ KillEnd(c)
  \/ List(c) \/ ListJob(c) \/ ListEnd(c)

WatchdogStep ==
  \/ ThreadStep(W)
  \/ Sweep \/ NextDaemon \/ Check \/ (\E k \in 0..MaxRestarts : Probe(k))
  \/ GiveUp \/ Schedule \/ Reprobe \/ Count \/ Complain

PumpStep(p) == PumpExit(p) \/ PumpRelease(p)

Next ==
  \/ \E c \in Caller : CallerStep(c) \/ \E op \in Ops, j \in Job : Call(c, op, j)
  \/ WatchdogStep
  \/ \E p \in Process : PumpStep(p) \/ Exit(p)
  \/ \E j \in Job : RowExpires(j)

Spec == Init /\ [][Next]_vars

(* Threads run, a thread that waits for a lock gets it when it comes free  *)
(* again and again, and a process ends when it is told to.                 *)
FairSpec ==
  /\ Spec
  /\ \A c \in Caller : WF_vars(CallerStep(c)) /\ SF_vars(Lock(c)) /\ SF_vars(LogKill(c))
                       /\ SF_vars(Kill(c))
  /\ WF_vars(WatchdogStep)
  /\ SF_vars(Lock(W))
  /\ \A p \in Process : SF_vars(PumpStep(p)) /\ WF_vars(p \in term /\ Exit(p))

-----------------------------------------------------------------------------
(* A job has at most one process, whatever calls and restarts meet         *)
(* (jobs_manager.py:452).                                                  *)
OneProcess == \A p, q \in alive : p[1] = q[1] => p = q

(* At most one daemon runs ("daemon already running",                      *)
(* jobs_manager.py:457), unless two were started at the same time: the     *)
(* start looks at the other daemons without their locks.                   *)
DaemonsExclude ==
  ~raced => \A p, q \in alive : p[1] \in Daemon /\ q[1] \in Daemon => p = q

(* The exit code of a one-shot job is that of its last process: the row in *)
(* job_locks keeps a new start out until the pump has stored it            *)
(* (jobs_manager.py:594), unless the row expired before (its ten minutes,  *)
(* jobs_manager.py:461, are less than a job may take).  For a daemon       *)
(* nothing does.                                                           *)
ExitIsCurrent == \A j \in (Job \ Daemon) \ late : exit[j] \in {0, gen[j]}

(* The watchdog starts no job that the operator wants stopped, unless the  *)
(* stop fell between its last check and the start, which forgets it        *)
(* (jobs_manager.py:664, 669); and it starts one only while fewer restarts *)
(* than the window allows have been counted (jobs_manager.py:642).         *)
RestartsAreWanted ==
  [][\A j \in Job : gen'[j] # gen[j] /\ At(W, "spawn") /\ ~At(W, "spawn")' /\ JobOf(W) = j
       => (wish[j] \/ missed) /\ tries[j] < MaxRestarts]_vars

(* Threads wait for each other in a circle only when a list_jobs, which    *)
(* holds the manager's lock and wants a job's, meets the watchdog, which   *)
(* holds the job's and wants the manager's (jobs_manager.py:407, 623).     *)
WaitsFor(t) ==
  CASE At(t, "lock") -> {held[JobOf(t)]}
    [] At(t, "list") /\ th[t].todo # <<>> -> {held[Head(th[t].todo)]}
    [] At(t, "kill") /\ th[t].todo # <<>> -> {held[Head(th[t].todo)]}
    [] th[t].pc \in {"get", "jobs", "probe", "reprobe"} -> {mgr}
    [] OTHER -> {}

CirclesNeedList ==
  \A t, u \in Thread :
    t \in WaitsFor(u) /\ u \in WaitsFor(t) => {th[t].op, th[u].op} \cap {"list"} # {} /\ W \in {t, u}

(* With the locks as they are no job is ever started: start waits for      *)
(* itself at its first append_log (jobs_manager.py:477).                   *)
NothingStarts == ~Reentrant => \A j \in Job : gen[j] = 0

(* dashboard_server.py:1251 "perform restart outside job lock to avoid     *)
(* long holding": who takes the lock of a job lets it go.                  *)
JobLocksAreLetGo == \A j \in Job : held[j] # None ~> held[j] = None
=============================================================================
