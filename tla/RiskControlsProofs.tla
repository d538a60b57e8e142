------------------------- MODULE RiskControlsProofs -------------------------
(***************************************************************************)
(* Proofs about the risk controls: for any processes, cooldown, minimum    *)
(* duration and streak, a halt and a stay in the preservation mode last as *)
(* long as they should, when the calls that would disturb them keep apart. *)
(***************************************************************************)
EXTENDS RiskControls, TLAPS

States ==
  {"idle"} \cup Asking \cup Halting \cup Releasing \cup Updating

Seen == [now : 0..now, mode : {"normal", "preserve"}, good : BOOLEAN,
         streak : Nat]

(* While releases and halts keep apart: no release meets a halt; the time  *)
(* that is stored is not before the halt, once the halt is written; and a  *)
(* release that went on past the stored time has seen the cooldown served. *)
TimeIsStored ==
  state = "stopped" /\ (\A p \in Proc : pc[p] # "set_stop_ts") =>
    stopTs >= haltedAt

ReleasesWaited ==
  \A p \in Proc :
    pc[p] \in {"get_drawdown", "set_enabled"} /\ state = "stopped" =>
      now - haltedAt >= Cooldown

HaltsKept ==
  haltsApart => ~Meet(Releasing, Halting) /\ TimeIsStored /\ ReleasesWaited

(* While updates keep apart: what is stored agrees with what has happened  *)
(* whenever no update runs, and each update knows what it relies on.       *)
Settled ==
  /\ modeTs = enteredAt /\ enteredAt > 0
  /\ streak <= goods \/ goods = ExitStreak

Between ==
  (\A p \in Proc : pc[p] \notin Updating) /\ mode = "preserve" => Settled

Lasted(p) == mode = "preserve" /\ seen[p].now - enteredAt >= MinDuration

Within(p) ==
  /\ pc[p] \in Updating => seen[p].now > 0
  /\ pc[p] = "get_mode_ts" =>
       seen[p].mode = mode /\ (mode = "preserve" => Settled)
  /\ pc[p] = "get_streak" => Lasted(p) /\ Settled
  /\ pc[p] = "set_streak" =>
       /\ Lasted(p) /\ modeTs = enteredAt /\ enteredAt > 0
       /\ seen[p].streak <= goods \/ goods = ExitStreak
  /\ pc[p] = "set_normal" => Lasted(p) /\ goods = ExitStreak
  /\ pc[p] \in {"set_enter_ts", "set_enter_streak"} =>
       mode = "preserve" /\ enteredAt = seen[p].now /\ goods = 0
  /\ pc[p] = "set_enter_streak" => modeTs = enteredAt
  /\ pc[p] \in {"set_exit_ts", "set_exit_streak"} => mode = "normal"

PreserveKept ==
  /\ now > 0
  /\ updatesApart =>
       ~Meet(Updating, Updating) /\ Between /\ \A p \in Proc : Within(p)

pcs == {"idle", "ask_drawdown", "set_stopped", "set_stop_ts", "get_stop_ts",
        "get_drawdown", "set_enabled", "get_mode_ts", "get_streak",
        "set_streak", "set_preserve", "set_enter_ts", "set_enter_streak",
        "set_normal", "set_exit_ts", "set_exit_streak"}

LEMMA Names ==
  /\ States = pcs
  /\ {"idle"} \cup Asking \cup Halting \cup Releasing \cup Updating = pcs
BY SMT DEF States, pcs, Asking, Halting, Releasing, Updating, Entering, Leaving

-----------------------------------------------------------------------------
LEMMA TypeInit == Init => TypeOK
BY ExitStreakAssumption, Names, SMT DEF Init, TypeOK, Seen, NothingSeen, pcs

(* An action of a process leaves the fields TypeOK speaks of well typed.    *)
LEMMA TypeCall ==
  ASSUME TypeOK, NEW p \in Proc, Call(p), UNCHANGED now,
         haltsApart' \in BOOLEAN, updatesApart' \in BOOLEAN
  PROVE  TypeOK'
<1> USE Names, ExitStreakAssumption DEF TypeOK, pcs, Go, Branch
<1>1. CASE Ask(p)
  BY <1>1, SMT DEF Ask, trading, preserve
<1>2. CASE AskDrawdown(p)
  BY <1>2, SMT DEF AskDrawdown, trading, preserve
<1>3. CASE SetStopped(p)
  BY <1>3, SMT DEF SetStopped, trading, preserve
<1>4. CASE SetStopTs(p)
  BY <1>4, SMT DEF SetStopTs, StopTs, trading, preserve
<1>5. CASE Release(p)
  BY <1>5, SMT DEF Release, trading, preserve
<1>6. CASE GetStopTs(p)
  BY <1>6, SMT DEF GetStopTs, trading, preserve
<1>7. CASE GetDrawdown(p)
  BY <1>7, SMT DEF GetDrawdown, trading, preserve
<1>8. CASE SetEnabled(p)
  BY <1>8, SMT DEF SetEnabled, trading, preserve
<1>9. CASE Update(p)
  BY <1>9, SMT DEF Update, NothingSeen, Seen, trading, preserve
<1>10. CASE GetModeTs(p)
  <2>1. PICK signal \in {"bad", "fair", "good"} :
          /\ pc' = [pc EXCEPT ![p] = Decision(p, signal)]
          /\ seen' = [seen EXCEPT ![p] =
               IF pc'[p] = "idle" THEN NothingSeen
               ELSE [@ EXCEPT !.good = (signal = "good")]]
    BY <1>10, Zenon DEF GetModeTs
  <2>2. Decision(p, signal) \in pcs
    BY SMT DEF Decision
  <2>3. pc' \in [Proc -> States]
    BY <2>1, <2>2, Zenon
  <2>4. NothingSeen \in Seen /\ seen[p] \in Seen
    BY SMT DEF NothingSeen, Seen
  <2>5. (signal = "good") \in BOOLEAN
    OBVIOUS
  <2>6. \A b \in BOOLEAN : [seen[p] EXCEPT !.good = b] \in Seen
    BY <2>4, SMT DEF Seen
  <2>7. (IF pc'[p] = "idle" THEN NothingSeen
         ELSE [seen[p] EXCEPT !.good = (signal = "good")]) \in Seen
    BY <2>4, <2>5, <2>6, Zenon
  <2>8. seen' \in [Proc -> Seen]
    <3>1. seen \in [Proc -> Seen]
      BY DEF Seen
    <3> QED BY <3>1, <2>1, <2>7, Zenon
  <2>9. UNCHANGED <<drawdown, state, stopTs, haltedAt, mode, modeTs, streak,
                    enteredAt, goods>>
    BY <1>10 DEF GetModeTs, trading
  <2> QED BY <2>3, <2>8, <2>9, SMT DEF Seen, States
<1>11. CASE SetPreserve(p)
  BY <1>11, SMT DEF SetPreserve, Seen, trading, preserve
<1>12. CASE SetEnterTs(p)
  BY <1>12, SMT DEF SetEnterTs, Seen, trading, preserve
<1>13. CASE SetEnterStreak(p)
  BY <1>13, SMT DEF SetEnterStreak, Forget, NothingSeen, Seen, trading, preserve
<1>14. CASE GetStreak(p)
  BY <1>14, SMT DEF GetStreak, Counted, Seen, trading, preserve
<1>15. CASE SetStreak(p)
  <2>1. seen' = [seen EXCEPT ![p] = NothingSeen] \/ seen' = seen
    BY <1>15, Zenon DEF SetStreak, Forget
  <2>2. NothingSeen \in Seen /\ seen[p].streak \in Nat
    BY SMT DEF NothingSeen, Seen
  <2>3. seen' \in [Proc -> Seen]
    BY <2>1, <2>2, SMT DEF Seen
  <2>4. pc' \in [Proc -> States]
    BY <1>15, SMT DEF SetStreak
  <2>5. UNCHANGED <<drawdown, state, stopTs, haltedAt, mode, modeTs,
                    enteredAt, goods>>
    BY <1>15 DEF SetStreak, trading
  <2> QED BY <1>15, <2>2, <2>3, <2>4, <2>5, SMT DEF SetStreak, Seen, States
<1>16. CASE SetNormal(p)
  BY <1>16, SMT DEF SetNormal, Seen, trading, preserve
<1>17. CASE SetExitTs(p)
  BY <1>17, SMT DEF SetExitTs, Seen, trading, preserve
<1>18. CASE SetExitStreak(p)
  BY <1>18, SMT DEF SetExitStreak, Forget, NothingSeen, Seen, trading, preserve
<1> QED
  BY <1>1, <1>2, <1>3, <1>4, <1>5, <1>6, <1>7, <1>8, <1>9, <1>10,
     <1>11, <1>12, <1>13, <1>14, <1>15, <1>16, <1>17, <1>18 DEF Call

LEMMA TypeNext ==
  ASSUME TypeOK, [Next]_vars
  PROVE  TypeOK'
<1> USE Names DEF TypeOK, pcs
<1>1. ASSUME NEW p \in Proc, Step(p) PROVE TypeOK'
  <2>1. haltsApart' \in BOOLEAN /\ updatesApart' \in BOOLEAN
    BY <1>1, Zenon DEF Step
  <2> QED BY <1>1, <2>1, TypeCall DEF Step
<1>2. ASSUME NEW p \in Proc, Die(p) PROVE TypeOK'
  <2>1. haltsApart' \in BOOLEAN /\ updatesApart' \in BOOLEAN
    BY <1>2, Zenon DEF Die
  <2>2. UNCHANGED <<now, state, stopTs, haltedAt, mode, modeTs, streak,
                    enteredAt, goods>>
    BY <1>2 DEF Die, trading
  <2>3. pc' \in [Proc -> States]
    BY <1>2, SMT DEF Die
  <2>4. seen' \in [Proc -> Seen]
    BY <1>2, SMT DEF Die, Forget, NothingSeen, Seen
  <2>5. UNCHANGED drawdown
    BY <1>2 DEF Die, trading
  <2> QED BY <2>1, <2>2, <2>3, <2>4, <2>5, SMT DEF Seen, States
<1>3. CASE Tick
  BY <1>3, SMT DEF Tick, trading, preserve, ghosts
<1>4. CASE EquityMoves
  BY <1>4, SMT DEF EquityMoves, preserve, ghosts
<1>5. CASE UNCHANGED vars
  BY <1>5, SMT DEF vars, trading, preserve, ghosts
<1> QED BY <1>1, <1>2, <1>3, <1>4, <1>5 DEF Next
-----------------------------------------------------------------------------
(* The update of the preservation mode touches nothing of the halt.        *)
UpdateCall(p) ==
  \/ Update(p) \/ GetModeTs(p) \/ SetPreserve(p) \/ SetEnterTs(p)
  \/ SetEnterStreak(p) \/ GetStreak(p) \/ SetStreak(p) \/ SetNormal(p)
  \/ SetExitTs(p) \/ SetExitStreak(p)

Elsewhere == {"idle"} \cup Updating

LEMMA UpdatesElsewhere ==
  ASSUME TypeOK, NEW p \in Proc, UpdateCall(p)
  PROVE  /\ UNCHANGED <<state, stopTs, haltedAt>>
         /\ pc[p] \in Elsewhere
         /\ \E s \in Elsewhere : pc' = [pc EXCEPT ![p] = s]
<1> USE DEF Go, Branch, trading, Elsewhere, Updating, Entering, Leaving
<1>1. CASE GetModeTs(p)
  <2>1. PICK signal \in {"bad", "fair", "good"} :
          pc[p] = "get_mode_ts" /\ pc' = [pc EXCEPT ![p] = Decision(p, signal)]
    BY <1>1 DEF GetModeTs
  <2>2. Decision(p, signal) \in Elsewhere
    BY SMT DEF Decision
  <2>3. UNCHANGED <<state, stopTs, haltedAt>>
    BY <1>1 DEF GetModeTs
  <2> QED BY <2>1, <2>2, <2>3
<1>2. CASE Update(p)
  BY <1>2, SMT DEF Update
<1>3. CASE SetPreserve(p)
  BY <1>3, SMT DEF SetPreserve
<1>4. CASE SetEnterTs(p)
  BY <1>4, SMT DEF SetEnterTs
<1>5. CASE SetEnterStreak(p)
  BY <1>5, SMT DEF SetEnterStreak
<1>6. CASE GetStreak(p)
  BY <1>6, SMT DEF GetStreak
<1>7. CASE SetStreak(p)
  <2>1. pc[p] = "set_streak" /\ pc' = [pc EXCEPT ![p] =
          IF seen[p].streak >= ExitStreak THEN "set_normal" ELSE "idle"]
    BY <1>7, Zenon DEF SetStreak
  <2>2. UNCHANGED <<state, stopTs, haltedAt>>
    BY <1>7 DEF SetStreak
  <2>3. \A c \in BOOLEAN :
          (IF c THEN "set_normal" ELSE "idle") \in Elsewhere
    BY SMT
  <2>4. (seen[p].streak >= ExitStreak) \in BOOLEAN
    OBVIOUS
  <2> QED BY <2>1, <2>2, <2>3, <2>4, Zenon
<1>8. CASE SetNormal(p)
  BY <1>8, SMT DEF SetNormal
<1>9. CASE SetExitTs(p)
  BY <1>9, SMT DEF SetExitTs
<1>10. CASE SetExitStreak(p)
  BY <1>10, SMT DEF SetExitStreak
<1> QED BY <1>1, <1>2, <1>3, <1>4, <1>5, <1>6, <1>7, <1>8, <1>9,
  <1>10 DEF UpdateCall

LEMMA HaltsInit == Init => HaltsKept
BY SMT DEF Init, HaltsKept, Meet, Releasing, Halting, TimeIsStored,
  ReleasesWaited

(* A step that only moves one process, to where it neither releases nor    *)
(* halts, and leaves the rest of the halt alone.                           *)
LEMMA HaltsMove ==
  ASSUME TypeOK, HaltsKept, haltsApart, NEW p \in Proc,
         NEW s \in States \ {"set_stop_ts", "get_drawdown", "set_enabled"},
         pc[p] # "set_stop_ts", pc' = [pc EXCEPT ![p] = s],
         UNCHANGED <<now, state, stopTs, haltedAt>>
  PROVE  TimeIsStored' /\ ReleasesWaited'
BY SMT DEF TypeOK, HaltsKept, TimeIsStored, ReleasesWaited

LEMMA HaltsNext ==
  ASSUME TypeOK, TypeOK', HaltsKept, [Next]_vars
  PROVE  HaltsKept'
<1> USE DEF Go, Branch, TimeIsStored, ReleasesWaited
<1>1. ASSUME NEW p \in Proc, Step(p), haltsApart'
      PROVE  HaltsKept'
  <2>1. haltsApart /\ ~Meet(Releasing, Halting)' /\ UNCHANGED now
    BY <1>1, Zenon DEF Step
  <2>2. ~Meet(Releasing, Halting) /\ TimeIsStored /\ ReleasesWaited
    BY <2>1 DEF HaltsKept
  <2>3. CASE UpdateCall(p)
    BY <2>1, <2>3, UpdatesElsewhere, HaltsMove, SMT
      DEF HaltsKept, Elsewhere, States, Updating, Entering, Leaving
  <2>4. CASE Ask(p) \/ AskDrawdown(p) \/ Release(p)
    BY <2>1, <2>2, <2>4, SMT
      DEF Ask, AskDrawdown, Release, trading, HaltsKept, TypeOK
  <2>5. CASE SetStopped(p)
    BY <2>1, <2>2, <2>5, SMT
      DEF SetStopped, HaltsKept, TypeOK, Meet, Releasing, Halting
  <2>6. CASE SetStopTs(p)
    BY <2>1, <2>2, <2>6, SMT
      DEF SetStopTs, StopTs, HaltsKept, TypeOK, Meet, Releasing, Halting
  <2>7. CASE GetStopTs(p)
    BY <2>1, <2>2, <2>7, CooldownAssumption, SMT
      DEF GetStopTs, Served, trading, HaltsKept, TypeOK, Meet, Releasing,
        Halting
  <2>8. CASE GetDrawdown(p)
    BY <2>1, <2>2, <2>8, SMT DEF GetDrawdown, trading, HaltsKept, TypeOK
  <2>9. CASE SetEnabled(p)
    BY <2>1, <2>2, <2>9, SMT DEF SetEnabled, HaltsKept, TypeOK
  <2> QED BY <1>1, <2>3, <2>4, <2>5, <2>6, <2>7, <2>8, <2>9
    DEF Step, Call, UpdateCall
<1>2. ASSUME NEW p \in Proc, Die(p), haltsApart'
      PROVE  HaltsKept'
  <2>1. haltsApart /\ pc[p] # "set_stop_ts"
    BY <1>2, Zenon DEF Die
  <2>2. UNCHANGED <<now, state, stopTs, haltedAt>>
    BY <1>2 DEF Die, trading
  <2>3. pc' = [pc EXCEPT ![p] = "idle"]
    BY <1>2 DEF Die
  <2>4. ~Meet(Releasing, Halting)'
    BY <2>1, <2>3, SMT DEF HaltsKept, Meet, Releasing, Halting, TypeOK
  <2> QED BY <2>1, <2>2, <2>3, <2>4, HaltsMove DEF HaltsKept, States
<1>3. CASE Tick
  <2>1. UNCHANGED <<state, stopTs, haltedAt, pc, haltsApart>> /\ now' = now + 1
    BY <1>3 DEF Tick, trading, ghosts
  <2> QED BY <2>1, CooldownAssumption, SMT DEF HaltsKept, Meet, TypeOK
<1>4. CASE EquityMoves
  <2>1. UNCHANGED <<now, state, stopTs, haltedAt, pc, haltsApart>>
    BY <1>4 DEF EquityMoves, ghosts
  <2> QED BY <2>1 DEF HaltsKept, Meet
<1>5. CASE UNCHANGED vars
  <2>1. UNCHANGED <<now, state, stopTs, haltedAt, pc, haltsApart>>
    BY <1>5 DEF vars, trading, ghosts
  <2> QED BY <2>1 DEF HaltsKept, Meet
<1>6. haltsApart' \/ ~haltsApart'
  OBVIOUS
<1> QED BY <1>1, <1>2, <1>3, <1>4, <1>5, <1>6 DEF Next, HaltsKept

(* The state, the times and the streaks stay well typed, and no stored time*)
(* is ahead of the clock (capital_guard.py:29-300).                        *)
THEOREM TypeCorrect == Spec => []TypeOK
<1>1. Init => TypeOK
  BY TypeInit
<1>2. TypeOK /\ [Next]_vars => TypeOK'
  BY TypeNext
<1> QED BY <1>1, <1>2, PTL DEF Spec

(* A halt of trading ends only when its cooldown has passed, for any number*)
(* of processes that ask, release and die, as long as no release meets a   *)
(* halt that is being written (capital_guard.py:36-38, 50-70).             *)
THEOREM HaltsAreServed == Spec => HaltIsServed
<1>1. Init => HaltsKept
  BY HaltsInit
<1>2. TypeOK /\ TypeOK' /\ HaltsKept /\ [Next]_vars => HaltsKept'
  BY HaltsNext
<1>3. ASSUME TypeOK, HaltsKept, [Next]_vars, haltsApart, state = "stopped",
             state' = "enabled"
      PROVE  now - haltedAt >= Cooldown
  <2>1. PICK p \in Proc : Step(p)
    BY <1>3, SMT DEF Next, vars, trading, Die, Tick, EquityMoves
  <2>2. SetEnabled(p)
    BY <1>3, <2>1, SMT DEF Step, Call, trading, Ask, AskDrawdown, SetStopped,
      SetStopTs, Release, GetStopTs, GetDrawdown, Update, GetModeTs,
      SetPreserve, SetEnterTs, SetEnterStreak, GetStreak, SetStreak,
      SetNormal, SetExitTs, SetExitStreak
  <2> QED BY <1>3, <2>2 DEF SetEnabled, Go, HaltsKept, ReleasesWaited
<1>4. TypeOK /\ HaltsKept /\ [Next]_vars
        => [haltsApart /\ state = "stopped" /\ state' = "enabled" =>
              now - haltedAt >= Cooldown]_vars
  BY <1>3
<1> QED BY TypeCorrect, <1>1, <1>2, <1>4, PTL DEF Spec, HaltIsServed
-----------------------------------------------------------------------------
LEMMA PreserveInit == Init => PreserveKept
BY SMT DEF Init, PreserveKept, Meet, Between, Within, Updating, Entering,
  Leaving

HaltCall(p) ==
  \/ Ask(p) \/ AskDrawdown(p) \/ SetStopped(p) \/ SetStopTs(p)
  \/ Release(p) \/ GetStopTs(p) \/ GetDrawdown(p) \/ SetEnabled(p)

Outside == {"idle"} \cup Asking \cup Halting \cup Releasing

(* The functions of the halt touch nothing of the preservation mode.       *)
LEMMA HaltsElsewhere ==
  ASSUME TypeOK, NEW p \in Proc, HaltCall(p)
  PROVE  /\ UNCHANGED <<mode, modeTs, streak, seen, enteredAt, goods>>
         /\ pc[p] \in Outside
         /\ \E s \in Outside : pc' = [pc EXCEPT ![p] = s]
<1> USE DEF Go, Branch, preserve, Outside, Asking, Halting, Releasing
<1>1. CASE Ask(p)
  <2>1. /\ pc[p] = "idle"
        /\ \/ pc' = [pc EXCEPT ![p] = "ask_drawdown"]
           \/ pc' = [pc EXCEPT ![p] = "idle"]
    BY <1>1, Zenon DEF Ask
  <2> QED BY <1>1, <2>1, SMT DEF Ask
<1>2. CASE AskDrawdown(p)
  <2>1. /\ pc[p] = "ask_drawdown"
        /\ \/ pc' = [pc EXCEPT ![p] = "set_stopped"]
           \/ pc' = [pc EXCEPT ![p] = "idle"]
    BY <1>2, Zenon DEF AskDrawdown
  <2> QED BY <1>2, <2>1, SMT DEF AskDrawdown
<1>3. CASE SetStopped(p)
  BY <1>3, SMT DEF SetStopped
<1>4. CASE SetStopTs(p)
  BY <1>4, SMT DEF SetStopTs
<1>5. CASE Release(p)
  <2>1. /\ pc[p] = "idle"
        /\ \/ pc' = [pc EXCEPT ![p] = "get_stop_ts"]
           \/ pc' = [pc EXCEPT ![p] = "idle"]
    BY <1>5, Zenon DEF Release
  <2> QED BY <1>5, <2>1, SMT DEF Release
<1>6. CASE GetStopTs(p)
  <2>1. /\ pc[p] = "get_stop_ts"
        /\ \/ pc' = [pc EXCEPT ![p] = "get_drawdown"]
           \/ pc' = [pc EXCEPT ![p] = "idle"]
    BY <1>6, Zenon DEF GetStopTs
  <2> QED BY <1>6, <2>1, SMT DEF GetStopTs
<1>7. CASE GetDrawdown(p)
  <2>1. /\ pc[p] = "get_drawdown"
        /\ \/ pc' = [pc EXCEPT ![p] = "set_enabled"]
           \/ pc' = [pc EXCEPT ![p] = "idle"]
    BY <1>7, Zenon DEF GetDrawdown
  <2> QED BY <1>7, <2>1, SMT DEF GetDrawdown
<1>8. CASE SetEnabled(p)
  BY <1>8, SMT DEF SetEnabled
<1> QED BY <1>1, <1>2, <1>3, <1>4, <1>5, <1>6, <1>7, <1>8 DEF HaltCall

(* A step that moves one process outside the update.                       *)
LEMMA PreserveMove ==
  ASSUME TypeOK, PreserveKept, updatesApart, NEW p \in Proc,
         NEW s \in Outside, pc[p] \in Outside,
         pc' = [pc EXCEPT ![p] = s],
         \A q \in Proc \ {p} : seen'[q] = seen[q],
         UNCHANGED <<now, mode, modeTs, streak, enteredAt, goods>>
  PROVE  Between' /\ \A q \in Proc : Within(q)'
<1>1. pc \in [Proc -> States] /\ s \notin Updating /\ pc[p] \notin Updating
  BY SMT DEF TypeOK, States, Outside, Asking, Halting, Releasing, Updating,
    Entering, Leaving
<1>2. \A q \in Proc : pc'[q] \in Updating => q # p /\ pc[q] = pc'[q]
  BY <1>1, SMT
<1>3. Between'
  <2>1. (\A q \in Proc : pc'[q] \notin Updating) =>
          \A q \in Proc : pc[q] \notin Updating
    BY <1>1, SMT
  <2> QED BY <2>1, SMT DEF PreserveKept, Between, Settled
<1>4. ASSUME NEW q \in Proc PROVE Within(q)'
  <2>1. CASE q = p
    BY <1>1, <2>1, SMT DEF Within, Updating, Entering, Leaving
  <2>2. CASE q # p
    <3>1. pc'[q] = pc[q] /\ seen'[q] = seen[q] /\ Within(q)
      BY <1>1, <2>2, SMT DEF PreserveKept
    <3> QED BY <3>1, SMT DEF Within, Lasted, Settled
  <2> QED BY <2>1, <2>2
<1> QED BY <1>3, <1>4

LEMMA PreserveNext ==
  ASSUME TypeOK, TypeOK', PreserveKept, [Next]_vars
  PROVE  PreserveKept'
<1> USE ExitStreakAssumption, MinDurationAssumption
<1>1. ASSUME NEW p \in Proc, Step(p), updatesApart'
      PROVE  PreserveKept'
  <2>1. updatesApart /\ ~Meet(Updating, Updating)' /\ UNCHANGED now
    BY <1>1, Zenon DEF Step
  <2>2. ~Meet(Updating, Updating) /\ Between /\ (\A q \in Proc : Within(q))
        /\ now > 0
    BY <2>1 DEF PreserveKept
  <2>3. CASE HaltCall(p)
    BY <2>1, <2>2, <2>3, HaltsElsewhere, PreserveMove DEF PreserveKept
  <2>4. CASE UpdateCall(p)
    <3>1. SUFFICES Between' /\ \A q \in Proc : Within(q)'
      BY <2>1, <2>2 DEF PreserveKept
    <3>2. \A q \in Proc \ {p} : pc'[q] \notin Updating
      <4>1. pc[p] \in Updating \/ pc'[p] \in Updating
        <5> USE DEF Go, Branch, Updating, Entering, Leaving, TypeOK
        <5>1. CASE Update(p)
          BY <5>1, SMT DEF Update
        <5>2. CASE GetModeTs(p)
          BY <5>2, SMT DEF GetModeTs
        <5>3. CASE SetPreserve(p) \/ SetEnterTs(p) \/ SetEnterStreak(p)
          BY <5>3, SMT DEF SetPreserve, SetEnterTs, SetEnterStreak
        <5>4. CASE GetStreak(p) \/ SetStreak(p)
          BY <5>4, SMT DEF GetStreak, SetStreak
        <5>5. CASE SetNormal(p) \/ SetExitTs(p) \/ SetExitStreak(p)
          BY <5>5, SMT DEF SetNormal, SetExitTs, SetExitStreak
        <5> QED BY <2>4, <5>1, <5>2, <5>3, <5>4, <5>5 DEF UpdateCall
      <4>2. \A q \in Proc \ {p} : pc'[q] = pc[q]
        BY <2>4, UpdatesElsewhere, SMT DEF TypeOK
      <4> QED BY <2>1, <2>2, <4>1, <4>2, SMT DEF Meet
    <3>3. \A q \in Proc \ {p} : Within(q)'
      BY <3>2, SMT DEF Within, Updating, Entering, Leaving
    <3>4. Between' /\ Within(p)'
      <4> USE DEF TypeOK, Go, Branch, Between, Within, Lasted, Settled,
        Updating, Entering, Leaving
      <4>1. CASE Update(p)
        <5>1. pc[p] = "idle" /\ pc'[p] = "get_mode_ts"
          BY <4>1, SMT DEF Update
        <5>2. \A q \in Proc \ {p} : pc'[q] = pc[q]
          BY <4>1, SMT DEF Update
        <5>3. \A q \in Proc : pc[q] \notin Updating
          BY <3>2, <5>1, <5>2, SMT
        <5>4. mode = "preserve" => Settled
          BY <2>2, <5>3 DEF Between
        <5>5. seen'[p].now = now /\ seen'[p].mode = mode
          BY <4>1, SMT DEF Update
        <5>6. UNCHANGED <<mode, modeTs, streak, enteredAt, goods>>
          BY <4>1 DEF Update
        <5> QED BY <2>2, <5>1, <5>4, <5>5, <5>6, SMT
      <4>2. CASE GetModeTs(p)
        <5>1. PICK signal \in {"bad", "fair", "good"} :
                /\ pc[p] = "get_mode_ts"
                /\ pc' = [pc EXCEPT ![p] = Decision(p, signal)]
                /\ seen' = [seen EXCEPT ![p] =
                     IF pc'[p] = "idle" THEN NothingSeen
                     ELSE [@ EXCEPT !.good = (signal = "good")]]
          BY <4>2, Zenon DEF GetModeTs
        <5>2. UNCHANGED <<mode, modeTs, streak, enteredAt, goods>>
          BY <4>2, Zenon DEF GetModeTs
        <5>3. Within(p)
          BY <2>2
        <5>4. pc'[p] = Decision(p, signal)
          BY <5>1, SMT
        <5>5. pc'[p] # "idle" => seen'[p].now = seen[p].now
          BY <5>1, SMT
        <5>6. CASE pc'[p] = "set_preserve"
          BY <5>5, <5>3, <5>1, <5>2, <5>6, SMT
        <5>7. CASE pc'[p] = "get_streak"
          <6>1. seen[p].mode = "preserve" /\ ~Held(p)
            BY <5>4, <5>7, SMT DEF Decision
          <6> QED BY <6>1, <5>5, <5>3, <5>1, <5>2, <5>7, SMT DEF Held
        <5>8. CASE pc'[p] = "idle"
          BY <5>3, <5>1, <5>2, <5>8, SMT
        <5> QED BY <5>4, <5>6, <5>7, <5>8, SMT DEF Decision
      <4>3. CASE SetPreserve(p)
        BY <2>2, <4>3, SMT DEF SetPreserve
      <4>4. CASE SetEnterTs(p)
        BY <2>2, <4>4, SMT DEF SetEnterTs
      <4>5. CASE SetEnterStreak(p)
        BY <2>2, <4>5, SMT DEF SetEnterStreak
      <4>6. CASE GetStreak(p)
        BY <2>2, <4>6, SMT DEF GetStreak, Counted
      <4>7. CASE SetStreak(p)
        BY <2>2, <4>7, SMT DEF SetStreak
      <4>8. CASE SetNormal(p)
        BY <2>2, <4>8, SMT DEF SetNormal
      <4>9. CASE SetExitTs(p)
        BY <2>2, <4>9, SMT DEF SetExitTs
      <4>10. CASE SetExitStreak(p)
        BY <2>2, <4>10, SMT DEF SetExitStreak
      <4> QED BY <2>4, <4>1, <4>2, <4>3, <4>4, <4>5, <4>6, <4>7, <4>8, <4>9,
        <4>10 DEF UpdateCall
    <3> QED BY <3>3, <3>4
  <2> QED BY <1>1, <2>3, <2>4 DEF Step, Call, UpdateCall, HaltCall
<1>2. ASSUME NEW p \in Proc, Die(p), updatesApart'
      PROVE  PreserveKept'
  <2>1. updatesApart /\ pc[p] \notin Updating
    BY <1>2, Zenon DEF Die
  <2>2. UNCHANGED <<now, mode, modeTs, streak, enteredAt, goods>>
    BY <1>2 DEF Die
  <2>3. pc' = [pc EXCEPT ![p] = "idle"]
    BY <1>2 DEF Die
  <2>4. \A q \in Proc \ {p} : seen'[q] = seen[q]
    BY <1>2, SMT DEF Die, Forget, TypeOK
  <2>5. ~Meet(Updating, Updating)'
    BY <2>1, <2>3, SMT
      DEF PreserveKept, Meet, Updating, Entering, Leaving, TypeOK
  <2>6. "idle" \in Outside /\ pc[p] \in Outside
    BY <2>1, SMT DEF Outside, TypeOK
  <2> QED BY <2>1, <2>2, <2>3, <2>4, <2>5, <2>6, PreserveMove DEF PreserveKept
<1>3. CASE Tick
  <2>1. UNCHANGED <<mode, modeTs, streak, seen, enteredAt, goods, pc,
                    updatesApart>>
        /\ now' = now + 1
    BY <1>3 DEF Tick, preserve, ghosts
  <2> QED BY <2>1, SMT DEF PreserveKept, Meet, Between, Within, Lasted, Settled,
    TypeOK
<1>4. CASE EquityMoves
  <2>1. UNCHANGED <<now, mode, modeTs, streak, seen, enteredAt, goods, pc,
                    updatesApart>>
    BY <1>4 DEF EquityMoves, preserve, ghosts
  <2> QED BY <2>1 DEF PreserveKept, Meet, Between, Within, Lasted, Settled
<1>5. CASE UNCHANGED vars
  <2>1. UNCHANGED <<now, mode, modeTs, streak, seen, enteredAt, goods, pc,
                    updatesApart>>
    BY <1>5 DEF vars, preserve, ghosts
  <2> QED BY <2>1 DEF PreserveKept, Meet, Between, Within, Lasted, Settled
<1>6. ASSUME ~updatesApart', [Next]_vars PROVE PreserveKept'
  <2>1. now' \in {now, now + 1}
    BY <1>6, Zenon DEF Next, Step, Die, Tick, EquityMoves, vars
  <2> QED BY <1>6, <2>1, SMT DEF PreserveKept, TypeOK
<1> QED BY <1>1, <1>2, <1>3, <1>4, <1>5, <1>6 DEF Next

(* The preservation mode ends only after its minimum duration and as many  *)
(* good updates in a row as demanded, as long as no two updates meet and   *)
(* none is cut off (capital_guard.py:245-300).                             *)
THEOREM PreserveLasts == Spec => PreserveIsServed
<1>1. Init => PreserveKept
  BY PreserveInit
<1>2. TypeOK /\ TypeOK' /\ PreserveKept /\ [Next]_vars => PreserveKept'
  BY PreserveNext
<1>3. ASSUME TypeOK, PreserveKept, [Next]_vars, updatesApart,
             mode = "preserve", mode' = "normal"
      PROVE  now - enteredAt >= MinDuration /\ goods >= ExitStreak
  <2>1. PICK p \in Proc : Step(p)
    BY <1>3, SMT DEF Next, vars, preserve, Die, Tick, EquityMoves
  <2>2. SetNormal(p)
    <3>1. CASE HaltCall(p)
      BY <1>3, <3>1, HaltsElsewhere
    <3>2. CASE UpdateCall(p)
      BY <1>3, <3>2, SMT DEF UpdateCall, Update, GetModeTs, SetPreserve,
        SetEnterTs, SetEnterStreak, GetStreak, SetStreak, SetExitTs,
        SetExitStreak
    <3> QED BY <2>1, <3>1, <3>2 DEF Step, Call, HaltCall, UpdateCall
  <2>3. Lasted(p) /\ goods = ExitStreak
    BY <1>3, <2>2 DEF SetNormal, Go, PreserveKept, Within
  <2> QED BY <1>3, <2>3, ExitStreakAssumption, MinDurationAssumption, SMT
    DEF Lasted, TypeOK
<1>4. TypeOK /\ PreserveKept /\ [Next]_vars
        => [updatesApart /\ mode = "preserve" /\ mode' = "normal" =>
              now - enteredAt >= MinDuration /\ goods >= ExitStreak]_vars
  BY <1>3
<1> QED BY TypeCorrect, <1>1, <1>2, <1>4, PTL DEF Spec, PreserveIsServed
=============================================================================
