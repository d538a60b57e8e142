---------------------------- MODULE RiskControls ----------------------------
(***************************************************************************)
(* The halt of trading and the preservation mode: dev_core/capital_guard.py*)
(* on the key-value table of dev_core/risk_state.py.                       *)
(*                                                                         *)
(* trading_allowed halts trading in a deep drawdown, maybe_release_cooldown*)
(* ends the halt when it has lasted and the drawdown is over, and          *)
(* update_capital_preservation_mode enters and leaves the preservation mode*)
(* with a minimum duration and a streak of good updates.  Every get_state  *)
(* and set_state is a transaction of its own; several processes call the   *)
(* three functions and may die between any two of them.                    *)
(*                                                                         *)
(* The functions are called without a handle of the caller (Scripts shows  *)
(* what happens to a caller's).  The texts of the reasons are left out.    *)
(* What velocity, stress and execution costs add up to is open: bad (enter)*)
(* good (counts for the exit) or neither.                                  *)
(***************************************************************************)
EXTENDS Integers

CONSTANTS
  Proc,        \* the processes
  Cooldown,    \* COOLDOWN_DAYS
  MinDuration, \* CAPITAL_PRESERVE_MIN_DURATION_S
  ExitStreak   \* CAPITAL_PRESERVE_EXIT_STREAK

ASSUME CooldownAssumption == Cooldown \in Nat
ASSUME MinDurationAssumption == MinDuration \in Nat
ASSUME ExitStreakAssumption == ExitStreak \in Nat \ {0}

VARIABLES
  now,         \* the wall clock
  drawdown,    \* "deep": MAX_DRAWDOWN or more; "low": under 0.75 of it
  state,       \* trading_state
  stopTs,      \* stop_ts_ms, 0 when it was never written
  mode,        \* capital_mode
  modeTs,      \* capital_mode_ts_ms
  streak,      \* capital_mode_exit_streak
  pc,          \* what each process does next
  seen,        \* what its update has read: the time, the mode, the streak
  haltedAt,    \* ghost: when trading was halted last
  enteredAt,   \* ghost: the start of the update that entered the mode last
  goods,       \* ghost: the good updates in a row since then
  haltsApart,  \* ghost: no release met a halt, no halt was cut off
  updatesApart \* ghost: no two updates met, none was cut off

trading == <<drawdown, state, stopTs, haltedAt>>
preserve == <<mode, modeTs, streak, seen, enteredAt, goods>>
ghosts == <<haltsApart, updatesApart>>
vars == <<now, trading, preserve, pc, ghosts>>

-----------------------------------------------------------------------------
Asking == {"ask_drawdown"}
Halting == {"set_stopped", "set_stop_ts"}
Releasing == {"get_stop_ts", "get_drawdown", "set_enabled"}
Entering == {"set_preserve", "set_enter_ts", "set_enter_streak"}
Leaving == {"set_normal", "set_exit_ts", "set_exit_streak"}
Updating ==
  {"get_mode_ts", "get_streak", "set_streak"} \cup Entering \cup Leaving

TypeOK ==
  /\ now \in Nat /\ stopTs \in 0..now /\ modeTs \in 0..now
  /\ drawdown \in {"low", "between", "deep"}
  /\ state \in {"enabled", "stopped"}
  /\ mode \in {"normal", "preserve"}
  /\ streak \in Nat
  /\ pc \in [Proc -> {"idle"} \cup Asking \cup Halting \cup Releasing
                       \cup Updating]
  /\ seen \in [Proc -> [now : 0..now, mode : {"normal", "preserve"},
                        good : BOOLEAN, streak : Nat]]
  /\ haltedAt \in 0..now /\ enteredAt \in 0..now
  /\ goods \in 0..ExitStreak
  /\ haltsApart \in BOOLEAN /\ updatesApart \in BOOLEAN

NothingSeen == [now |-> 0, mode |-> "normal", good |-> FALSE, streak |-> 0]

Init ==
  /\ now = 1
  /\ drawdown = "low"
  /\ state = "enabled" /\ stopTs = 0
  /\ mode = "normal" /\ modeTs = 0 /\ streak = 0
  /\ pc = [p \in Proc |-> "idle"]
  /\ seen = [p \in Proc |-> NothingSeen]
  /\ haltedAt = 0 /\ enteredAt = 0 /\ goods = 0
  /\ haltsApart = TRUE /\ updatesApart = TRUE

Forget(p) == seen' = [seen EXCEPT ![p] = NothingSeen]

Go(p, from, to) == pc[p] = from /\ pc' = [pc EXCEPT ![p] = to]

(* The way on from a condition.                                            *)
Branch(p, from, condition, then, else) ==
  Go(p, from, IF condition THEN then ELSE else)

-----------------------------------------------------------------------------
(* trading_allowed: the state, the drawdown, and the halt.                 *)
Ask(p) ==
  /\ Branch(p, "idle", state = "enabled", "ask_drawdown", "idle")
  /\ UNCHANGED <<trading, preserve>>

AskDrawdown(p) ==
  /\ Branch(p, "ask_drawdown", drawdown = "deep", "set_stopped", "idle")
  /\ UNCHANGED <<trading, preserve>>

SetStopped(p) ==
  /\ Go(p, "set_stopped", "set_stop_ts")
  /\ state' = "stopped"
  /\ haltedAt' = IF state = "enabled" THEN now ELSE haltedAt
  /\ UNCHANGED <<drawdown, stopTs, preserve>>

(* Mutants: the end of the cooldown is stored; only the first halt is      *)
(* timed.                                                                  *)
StopTsAhead == now + Cooldown

StopTsOnce == IF stopTs = 0 THEN now ELSE stopTs

StopTs == now

SetStopTs(p) ==
  /\ Go(p, "set_stop_ts", "idle")
  /\ stopTs' = StopTs
  /\ UNCHANGED <<drawdown, state, haltedAt, preserve>>

(* maybe_release_cooldown                                                  *)
Release(p) ==
  /\ Branch(p, "idle", state = "stopped", "get_stop_ts", "idle")
  /\ UNCHANGED <<trading, preserve>>

Served == stopTs > 0 /\ now - stopTs >= Cooldown

GetStopTs(p) ==
  /\ Branch(p, "get_stop_ts", Served, "get_drawdown", "idle")
  /\ UNCHANGED <<trading, preserve>>

GetDrawdown(p) ==
  /\ Branch(p, "get_drawdown", drawdown = "low", "set_enabled", "idle")
  /\ UNCHANGED <<trading, preserve>>

SetEnabled(p) ==
  /\ Go(p, "set_enabled", "idle")
  /\ state' = "enabled"
  /\ haltedAt' = 0
  /\ UNCHANGED <<drawdown, stopTs, preserve>>

-----------------------------------------------------------------------------
(* update_capital_preservation_mode: the mode and the time of the call,    *)
(* the time of the mode, and then the signals.                             *)
Update(p) ==
  /\ Go(p, "idle", "get_mode_ts")
  /\ seen' = [seen EXCEPT ![p] =
                [now |-> now, mode |-> mode, good |-> FALSE, streak |-> 0]]
  /\ UNCHANGED <<trading, mode, modeTs, streak, enteredAt, goods>>

Held(p) == modeTs > 0 /\ seen[p].now - modeTs < MinDuration

(* What an update decides when the signals say signal.                     *)
Decision(p, signal) ==
  CASE seen[p].mode = "normal" /\ signal = "bad" -> "set_preserve"
    [] seen[p].mode = "preserve" /\ ~Held(p) -> "get_streak"
    [] OTHER -> "idle"

GetModeTs(p) ==
  /\ \E signal \in {"bad", "fair", "good"} :
       /\ Go(p, "get_mode_ts", Decision(p, signal))
       /\ seen' = [seen EXCEPT ![p] =
            IF pc'[p] = "idle" THEN NothingSeen
            ELSE [@ EXCEPT !.good = (signal = "good")]]
  /\ UNCHANGED <<trading, mode, modeTs, streak, enteredAt, goods>>

(* The three writes that enter the mode.                                   *)
SetPreserve(p) ==
  /\ Go(p, "set_preserve", "set_enter_ts")
  /\ mode' = "preserve"
  /\ enteredAt' = seen[p].now /\ goods' = 0
  /\ UNCHANGED <<trading, modeTs, streak, seen>>

SetEnterTs(p) ==
  /\ Go(p, "set_enter_ts", "set_enter_streak")
  /\ modeTs' = seen[p].now
  /\ UNCHANGED <<trading, mode, streak, seen, enteredAt, goods>>

SetEnterStreak(p) ==
  /\ Go(p, "set_enter_streak", "idle")
  /\ streak' = 0
  /\ Forget(p)
  /\ UNCHANGED <<trading, mode, modeTs, enteredAt, goods>>

(* The streak grows with a good update and is lost with any other.         *)
(* Mutant: an update that is not good leaves it as it is.                  *)
CountedOn(s, good) == IF good THEN s + 1 ELSE s

Counted(s, good) == IF good THEN s + 1 ELSE 0

GetStreak(p) ==
  /\ Go(p, "get_streak", "set_streak")
  /\ seen' = [seen EXCEPT ![p].streak = Counted(streak, seen[p].good)]
  /\ goods' = IF ~seen[p].good THEN 0
              ELSE IF goods < ExitStreak THEN goods + 1 ELSE goods
  /\ UNCHANGED <<trading, mode, modeTs, streak, enteredAt>>

SetStreak(p) ==
  /\ Branch(p, "set_streak", seen[p].streak >= ExitStreak, "set_normal", "idle")
  /\ streak' = seen[p].streak
  /\ IF pc'[p] = "idle" THEN Forget(p) ELSE UNCHANGED seen
  /\ UNCHANGED <<trading, mode, modeTs, enteredAt, goods>>

(* The three writes that leave the mode.                                   *)
SetNormal(p) ==
  /\ Go(p, "set_normal", "set_exit_ts")
  /\ mode' = "normal"
  /\ enteredAt' = 0 /\ goods' = 0
  /\ UNCHANGED <<trading, modeTs, streak, seen>>

SetExitTs(p) ==
  /\ Go(p, "set_exit_ts", "set_exit_streak")
  /\ modeTs' = seen[p].now
  /\ UNCHANGED <<trading, mode, streak, seen, enteredAt, goods>>

SetExitStreak(p) ==
  /\ Go(p, "set_exit_streak", "idle")
  /\ streak' = 0
  /\ Forget(p)
  /\ UNCHANGED <<trading, mode, modeTs, enteredAt, goods>>

-----------------------------------------------------------------------------
Call(p) ==
  \/ Ask(p) \/ AskDrawdown(p) \/ SetStopped(p) \/ SetStopTs(p)
  \/ Release(p) \/ GetStopTs(p) \/ GetDrawdown(p) \/ SetEnabled(p)
  \/ Update(p) \/ GetModeTs(p) \/ SetPreserve(p) \/ SetEnterTs(p)
  \/ SetEnterStreak(p) \/ GetStreak(p) \/ SetStreak(p) \/ SetNormal(p)
  \/ SetExitTs(p) \/ SetExitStreak(p)

Meet(A, B) == \E p, q \in Proc : p # q /\ pc[p] \in A /\ pc[q] \in B

Step(p) ==
  /\ Call(p)
  /\ haltsApart' = (haltsApart /\ ~Meet(Releasing, Halting)')
  /\ updatesApart' = (updatesApart /\ ~Meet(Updating, Updating)')
  /\ UNCHANGED now

(* The process dies: what it has written stays.                            *)
Die(p) ==
  /\ pc[p] # "idle"
  /\ pc' = [pc EXCEPT ![p] = "idle"]
  /\ haltsApart' = (haltsApart /\ pc[p] # "set_stop_ts")
  /\ updatesApart' = (updatesApart /\ pc[p] \notin Updating)
  /\ Forget(p)
  /\ UNCHANGED <<now, trading, mode, modeTs, streak, enteredAt, goods>>

Tick == now' = now + 1 /\ UNCHANGED <<trading, preserve, pc, ghosts>>

EquityMoves ==
  /\ drawdown' \in {"low", "between", "deep"} \ {drawdown}
  /\ UNCHANGED <<now, state, stopTs, haltedAt, preserve, pc, ghosts>>

Next == Tick \/ EquityMoves \/ \E p \in Proc : Step(p) \/ Die(p)

Spec == Init /\ [][Next]_vars

-----------------------------------------------------------------------------
(* A halt lasts its cooldown however the calls of trading_allowed overlap, *)
(* and whatever dies, as long as no release runs while a halt is being     *)
(* written and no process dies between the state and its time              *)
(* (capital_guard.py:36-38, 50-70).                                        *)
HaltIsServed ==
  [][haltsApart /\ state = "stopped" /\ state' = "enabled" =>
       now - haltedAt >= Cooldown]_vars

(* The preservation mode lasts its minimum and ends after as many good     *)
(* updates in a row as demanded, when updates never meet and are never cut *)
(* off (capital_guard.py:245-300).                                         *)
PreserveIsServed ==
  [][updatesApart /\ mode = "preserve" /\ mode' = "normal" =>
       now - enteredAt >= MinDuration /\ goods >= ExitStreak]_vars
=============================================================================
