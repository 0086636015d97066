-------------------------- MODULE LocalPlannerProofs --------------------------
(***************************************************************************)
(* Proofs about the local planner, for every number of commands and all    *)
(* confirmation counts.                                                    *)
(*                                                                         *)
(* The properties compare what a status says with what earlier cycles      *)
(* found.  They follow from an invariant that ties the two streaks of the  *)
(* dynamic-obstacle decision to those findings: the blocked streak never   *)
(* counts more than the cycles of this command that found that blockage,   *)
(* and the clear streak never less than the current run of clear cycles.   *)
(***************************************************************************)
EXTENDS LocalPlanner, TLAPS

DecisionType ==
    [decision : {"ok"} \cup Blockages, streak : 0 .. Limit, clear : 0 .. ClearConfirm - 1]

HistoryType ==
    [blocked : [Blockages -> 0 .. Limit], clearRun : 0 .. Limit,
     last : (Observations \cup {"none"}) \X Guards, beat : BOOLEAN]

\* The blocked streak counts only cycles that found the pending blockage.
StreakIsEarned(from, past) ==
    from.decision # "ok" => from.streak <= past.blocked[from.decision]

\* The clear streak counts at least the current run of clear cycles.
ClearCounts(from, past) ==
    from.decision # "ok" => past.clearRun <= from.clear

Tied(from, past) == StreakIsEarned(from, past) /\ ClearCounts(from, past)

\* The status is of the current command or of an earlier one.
OutIsOld ==
    /\ out.id <= command
    /\ out.id = 0 => ~out.required

Inv ==
    /\ TypeOK
    /\ Tied(dynamic, history)
    /\ OutIsOld
    /\ RecoveryKeepsPlan
    /\ RecoveryBelongsToCommand

-----------------------------------------------------------------------------
(* The values                                                              *)

LEMMA LimitBounds ==
    /\ Limit \in Nat \ {0}
    /\ RecoveryConfirm <= Limit /\ ProximityConfirm <= Limit
    /\ CorridorConfirm <= Limit /\ ClearConfirm <= Limit
BY ConfirmAssumption DEF Limit, Largest

LEMMA StartType ==
    /\ NoDecision \in DecisionType
    /\ NoHistory \in HistoryType
    /\ Tied(NoDecision, NoHistory)
BY ConfirmAssumption, LimitBounds
   DEF NoDecision, NoHistory, DecisionType, HistoryType, Tied, StreakIsEarned,
       ClearCounts, Observations, Guards

\* What a cycle makes of the streaks is of their type.
LEMMA JudgeType ==
    ASSUME NEW from \in DecisionType, NEW seen \in Observations
    PROVE  Judge(from, seen) \in DecisionType
<1>1. NoDecision \in DecisionType
  BY StartType
<1>2. ConfirmClear(from) \in DecisionType
  BY <1>1, ConfirmAssumption, LimitBounds DEF ConfirmClear, DecisionType
<1>3. ASSUME NEW b \in Blockages
      PROVE  ConfirmBlocked(from, b) \in DecisionType
  <2>1. from.streak \in 0 .. Limit /\ from.clear \in 0 .. ClearConfirm - 1
    BY DEF DecisionType
  <2>2. Up(from.streak) \in 0 .. Limit /\ 1 \in 0 .. Limit
    BY <2>1, LimitBounds DEF Up
  <2> DEFINE streak == IF from.decision = b THEN Up(from.streak) ELSE 1
  <2>3. streak \in 0 .. Limit
    BY <2>2
  <2>4. ConfirmBlocked(from, b) = [from EXCEPT !.decision = b, !.streak = streak]
    BY DEF ConfirmBlocked, DecisionType
  <2> HIDE DEF streak
  <2> QED
    BY <2>1, <2>3, <2>4 DEF DecisionType
<1>4. BlockageOf(seen) \in Blockages
  BY DEF BlockageOf, Blockages
<1> QED
  BY <1>1, <1>2, <1>3, <1>4 DEF Judge

LEMMA RememberType ==
    ASSUME NEW past \in HistoryType, NEW seen \in Observations, NEW guard \in Guards
    PROVE  Remember(past, seen, guard) \in HistoryType
<1>1. ASSUME NEW n \in 0 .. Limit
      PROVE  Up(n) \in 0 .. Limit
  BY LimitBounds DEF Up
<1>2. past.clearRun \in 0 .. Limit /\ past.blocked \in [Blockages -> 0 .. Limit]
      /\ past.beat \in BOOLEAN
  BY DEF HistoryType
<1>3. Remember(past, seen, guard).blocked \in [Blockages -> 0 .. Limit]
  BY <1>1, <1>2 DEF Remember
<1>4. Remember(past, seen, guard).clearRun \in 0 .. Limit
  BY <1>1, <1>2, LimitBounds DEF Remember
<1> QED
  BY <1>2, <1>3, <1>4 DEF Remember, HistoryType

\* A cycle keeps the streaks tied to what the cycles of the command found.
LEMMA CycleKeepsTied ==
    ASSUME NEW from \in DecisionType, NEW past \in HistoryType,
           NEW seen \in Observations, NEW guard \in Guards, Tied(from, past)
    PROVE  Tied(Judge(from, seen), Remember(past, seen, guard))
<1> DEFINE after == Judge(from, seen)
           later == Remember(past, seen, guard)
<1>1. /\ \A b \in Blockages : past.blocked[b] \in 0 .. Limit
      /\ past.clearRun \in 0 .. Limit
      /\ from.streak \in 0 .. Limit /\ from.clear \in 0 .. ClearConfirm - 1
  BY DEF DecisionType, HistoryType
<1>2. CASE seen \in {"mismatch", "goal"}
  <2>1. after = NoDecision
    BY <1>2 DEF Judge
  <2> QED
    BY <2>1 DEF Tied, StreakIsEarned, ClearCounts, NoDecision
<1>3. CASE seen = "clear"
  <2>1. after = ConfirmClear(from)
    BY <1>3 DEF Judge
  <2>2. later.blocked = [b \in Blockages |-> past.blocked[b]] /\ later.clearRun = Up(past.clearRun)
    BY <1>3 DEF Remember, Blocked
  <2>3. CASE from.decision = "ok"
    BY <2>1, <2>3 DEF Tied, StreakIsEarned, ClearCounts, ConfirmClear, DecisionType
  <2>4. CASE from.decision # "ok" /\ from.clear + 1 < ClearConfirm
    <3>1. after = [from EXCEPT !.clear = @ + 1]
      BY <2>1, <2>4 DEF ConfirmClear
    <3>2. from.decision \in Blockages
      BY <2>4 DEF DecisionType
    <3>3. after.decision = from.decision /\ after.streak = from.streak
          /\ after.clear = from.clear + 1
      BY <3>1 DEF DecisionType
    <3>4. past.clearRun <= from.clear /\ from.streak <= past.blocked[from.decision]
      BY <2>4 DEF Tied, StreakIsEarned, ClearCounts
    <3>5. Up(past.clearRun) <= from.clear + 1
      BY <1>1, <3>4, ConfirmAssumption DEF Up
    <3> QED
      BY <2>2, <3>2, <3>3, <3>4, <3>5 DEF Tied, StreakIsEarned, ClearCounts
  <2>5. CASE from.decision # "ok" /\ ~(from.clear + 1 < ClearConfirm)
    <3>1. after = NoDecision
      BY <2>1, <2>5 DEF ConfirmClear
    <3> QED
      BY <3>1 DEF Tied, StreakIsEarned, ClearCounts, NoDecision
  <2> QED
    BY <2>3, <2>4, <2>5
<1>4. CASE Blocked(seen)
  <2> DEFINE b == BlockageOf(seen)
  <2>1. after = ConfirmBlocked(from, b) /\ b \in Blockages
    BY <1>4 DEF Judge, Blocked, BlockageOf, Blockages
  <2>2. later.blocked[b] = Up(past.blocked[b]) /\ later.clearRun = 0
    BY <1>4, <2>1 DEF Remember, Blocked
  <2>3. /\ after.decision = b /\ after.clear = from.clear
        /\ after.streak = IF from.decision = b THEN Up(from.streak) ELSE 1
    BY <2>1 DEF ConfirmBlocked, DecisionType
  <2>4. b # "ok"
    BY DEF BlockageOf
  <2>5. from.decision = b => from.streak <= past.blocked[b]
    BY <2>4 DEF Tied, StreakIsEarned
  <2>6. past.blocked[b] \in 0 .. Limit
    BY <1>1, <2>1
  <2>7. after.streak <= later.blocked[b]
    BY <1>1, <2>2, <2>3, <2>5, <2>6, LimitBounds DEF Up
  <2> QED
    BY <1>1, <2>2, <2>3, <2>7, ConfirmAssumption DEF Tied, StreakIsEarned, ClearCounts
<1> QED
  BY <1>2, <1>3, <1>4 DEF Observations, Blocked

\* A required recovery has been confirmed by the pending streak.
LEMMA RequiredIsConfirmed ==
    ASSUME NEW next \in DecisionType, NEW seen \in Observations, NEW guard \in Guards,
           NEW id, Report(id, next, seen, guard).required
    PROVE  /\ Report(id, next, seen, guard).decision = BlockageOf(seen)
           /\ Blocked(seen)
           /\ next.streak >= IF BlockageOf(seen) = "proximity"
                             THEN ProximityConfirm ELSE RecoveryConfirm
<1>1. Blocked(seen) /\ Confirmed(next, seen) /\ guard = "kept"
  BY DEF Report
<1>2. Report(id, next, seen, guard).decision = BlockageOf(seen)
  BY <1>1 DEF Report, Blocked
<1>3. next.streak >= RequiredCycles(seen) /\ next.streak \in Int
  BY <1>1 DEF Confirmed, DecisionType
<1>4. /\ RequiredCycles(seen) \in Int
      /\ RequiredCycles(seen) >= IF BlockageOf(seen) = "proximity"
                                THEN ProximityConfirm ELSE RecoveryConfirm
  <2>1. {RecoveryConfirm, ProximityConfirm, CorridorConfirm} \subseteq Int
    BY ConfirmAssumption
  <2>2. CASE seen = "proximity"
    BY <2>1, <2>2 DEF RequiredCycles, BlockageOf
  <2>3. CASE seen = "near"
    BY <2>1, <2>3 DEF RequiredCycles, BlockageOf
  <2>4. CASE seen = "far"
    BY <2>1, <2>4 DEF RequiredCycles, BlockageOf
  <2> QED
    BY <1>1, <2>2, <2>3, <2>4 DEF Blocked
<1> DEFINE least == IF BlockageOf(seen) = "proximity" THEN ProximityConfirm ELSE RecoveryConfirm
<1>5. least \in Int
  BY ConfirmAssumption
<1>6. next.streak >= least
  <2> HIDE DEF least
  <2> DEFINE cycles == RequiredCycles(seen)
  <2>1. cycles \in Int /\ cycles >= least /\ next.streak >= cycles
    BY <1>3, <1>4 DEF least
  <2> HIDE DEF cycles
  <2> QED
    BY <1>3, <1>5, <2>1
<1> QED
  BY <1>1, <1>2, <1>6

-----------------------------------------------------------------------------
(* The steps                                                               *)

OutType ==
    [id : 0 .. MaxCommandId, valid : BOOLEAN, required : BOOLEAN, decision : Decisions]

\* A cycle that starts from streaks tied to its past publishes a status that
\* is earned, whoever calls it.
LEMMA CycleStep ==
    ASSUME NEW id \in 1 .. MaxCommandId, NEW from \in DecisionType,
           NEW past \in HistoryType, NEW seen \in Observations, NEW guard \in Guards,
           Tied(from, past), Cycle(id, from, past, seen, guard)
    PROVE  /\ dynamic' \in DecisionType /\ history' \in HistoryType
           /\ Tied(dynamic', history')
           /\ out' \in OutType /\ out'.id = id
           /\ RecoveryKeepsPlan'
           /\ RecoveryBelongsToCommand'
<1> USE BoundsAssumption
<1>1. /\ dynamic' = Judge(from, seen)
      /\ out' = Report(id, dynamic', seen, guard)
      /\ history' = Remember(past, seen, guard)
      /\ Possible(seen, guard)
  BY DEF Cycle
<1>2. dynamic' \in DecisionType /\ history' \in HistoryType /\ Tied(dynamic', history')
  BY <1>1, JudgeType, RememberType, CycleKeepsTied
<1>3. out' \in OutType /\ out'.id = id
  <2>1. id \in 0 .. MaxCommandId /\ BlockageOf(seen) \in Decisions
    BY DEF BlockageOf, Decisions
  <2>2. out' = [id |-> id, valid |-> out'.valid, required |-> out'.required,
                decision |-> out'.decision]
        /\ out'.valid \in BOOLEAN /\ out'.required \in BOOLEAN
    BY <1>1 DEF Report
  <2>3. out'.decision \in Decisions /\ out'.id = id
    BY <1>1, <2>1 DEF Report, Decisions
  <2> QED
    BY <2>1, <2>2, <2>3 DEF OutType
<1>4. RecoveryKeepsPlan'
  <2> DEFINE dropped == seen = "mismatch" \/ guard = "dropped"
             required == Blocked(seen) /\ Confirmed(dynamic', seen) /\ guard = "kept"
  <2>1. BlockageOf(seen) \in Blockages /\ "hard" \notin Blockages
    BY DEF BlockageOf, Blockages
  <2>2. CASE dropped
    <3>1. out'.valid = FALSE /\ out'.required = FALSE /\ out'.decision = "hard"
      BY <1>1, <2>2 DEF Report, Blocked
    <3> QED
      BY <3>1 DEF RecoveryKeepsPlan
  <2>3. CASE ~dropped /\ required
    <3>1. out'.valid = TRUE /\ out'.decision = BlockageOf(seen)
      BY <1>1, <2>3 DEF Report
    <3> QED
      BY <2>1, <3>1 DEF RecoveryKeepsPlan
  <2>4. CASE ~dropped /\ ~required
    <3>1. out'.valid = TRUE /\ out'.required = FALSE /\ out'.decision = "ok"
      BY <1>1, <2>4 DEF Report
    <3> QED
      BY <3>1 DEF RecoveryKeepsPlan
  <2> QED
    BY <2>2, <2>3, <2>4
<1>5. RecoveryBelongsToCommand'
  <2> SUFFICES ASSUME out'.required
      PROVE  history'.blocked[out'.decision] >=
                 IF out'.decision = "proximity" THEN ProximityConfirm ELSE RecoveryConfirm
    BY DEF RecoveryBelongsToCommand
  <2> DEFINE b == BlockageOf(seen)
             least == IF b = "proximity" THEN ProximityConfirm ELSE RecoveryConfirm
  <2>1. out'.decision = b /\ Blocked(seen) /\ dynamic'.streak >= least
    BY <1>1, <1>2, RequiredIsConfirmed
  <2>2. b \in Blockages /\ b # "ok"
    BY DEF BlockageOf, Blockages
  <2>3. dynamic'.decision = b
    <3>1. dynamic' = ConfirmBlocked(from, b)
      BY <1>1, <2>1 DEF Judge, Blocked
    <3> QED
      BY <3>1 DEF ConfirmBlocked, DecisionType
  <2>4. dynamic'.streak <= history'.blocked[b]
    BY <1>2, <2>2, <2>3 DEF Tied, StreakIsEarned
  <2>5. dynamic'.streak \in Int /\ history'.blocked[b] \in Int /\ least \in Int
    BY <1>2, <2>2, ConfirmAssumption DEF DecisionType, HistoryType
  <2>6. history'.blocked[b] >= least
    <3> HIDE DEF least
    <3> QED BY <2>1, <2>4, <2>5
  <2> QED
    BY <2>1, <2>6
<1> QED
  BY <1>2, <1>3, <1>4, <1>5

LEMMA InitInv == Init => Inv
<1> SUFFICES ASSUME Init PROVE Inv
  OBVIOUS
<1>1. TypeOK
  BY StartType, BoundsAssumption DEF Init, TypeOK, NoStatus, Decisions, DecisionType, HistoryType
<1>2. Tied(dynamic, history)
  BY StartType DEF Init
<1> QED
  BY <1>1, <1>2 DEF Init, Inv, OutIsOld, RecoveryKeepsPlan, RecoveryBelongsToCommand, NoStatus

LEMMA NextInv == Inv /\ [Next]_vars => Inv'
<1> SUFFICES ASSUME Inv, [Next]_vars PROVE Inv'
  OBVIOUS
<1> USE BoundsAssumption
<1>1. /\ dynamic \in DecisionType /\ history \in HistoryType /\ out \in OutType
      /\ Tied(dynamic, history)
      /\ command \in 0 .. MaxCommandId
  BY DEF Inv, TypeOK, DecisionType, HistoryType, OutType
<1>2. ASSUME NEW seen \in Observations, NEW guard \in Guards, PublishLocalPlan(seen, guard)
      PROVE  Inv'
  <2>1. command \in 1 .. MaxCommandId /\ Cycle(command, dynamic, history, seen, guard)
        /\ UNCHANGED <<node, command>>
    BY <1>1, <1>2 DEF PublishLocalPlan
  <2> DEFINE id == command
  <2>2. /\ dynamic' \in DecisionType /\ history' \in HistoryType
        /\ Tied(dynamic', history') /\ out' \in OutType /\ out'.id = command
        /\ RecoveryKeepsPlan' /\ RecoveryBelongsToCommand'
    BY <1>1, <2>1, CycleStep
  <2>3. TypeOK'
    BY <2>1, <2>2 DEF Inv, TypeOK, node, DecisionType, HistoryType, OutType
  <2>4. OutIsOld'
    BY <2>1, <2>2 DEF OutIsOld
  <2> QED
    BY <2>2, <2>3, <2>4 DEF Inv
<1>3. ASSUME NEW id \in 1 .. MaxCommandId, id >= command, HandleMotionCommand(id)
      PROVE  Inv'
  <2> DEFINE from == IF id = command THEN dynamic ELSE NoDecision
             past == IF id = command THEN history ELSE NoHistory
  <2>1. from \in DecisionType /\ past \in HistoryType /\ Tied(from, past)
    BY <1>1, StartType
  <2>2. command' = id /\ UNCHANGED node
    BY <1>3 DEF HandleMotionCommand
  <2>3. ASSUME NEW seen \in Observations, NEW guard \in Guards,
               Cycle(id, from, past, seen, guard)
        PROVE  Inv'
    <3>1. /\ dynamic' \in DecisionType /\ history' \in HistoryType
          /\ Tied(dynamic', history') /\ out' \in OutType /\ out'.id = id
          /\ RecoveryKeepsPlan' /\ RecoveryBelongsToCommand'
      <4> HIDE DEF from, past
      <4> QED BY <2>1, <2>3, CycleStep
    <3>2. TypeOK'
      BY <2>2, <3>1 DEF Inv, TypeOK, node, DecisionType, HistoryType, OutType
    <3>3. OutIsOld'
      BY <2>2, <3>1 DEF OutIsOld
    <3> QED
      BY <3>1, <3>2, <3>3 DEF Inv
  <2>4. ASSUME dynamic' = from, history' = past, UNCHANGED out
        PROVE  Inv'
    <3>1. dynamic' \in DecisionType /\ history' \in HistoryType /\ Tied(dynamic', history')
      <4> HIDE DEF from, past
      <4> QED BY <2>1, <2>4
    <3>2. TypeOK'
      BY <1>1, <2>2, <2>4, <3>1 DEF Inv, TypeOK, node, DecisionType, HistoryType, OutType
    <3>3. OutIsOld'
      BY <1>1, <1>3, <2>2, <2>4 DEF Inv, OutIsOld, OutType
    <3>4. RecoveryKeepsPlan'
      BY <2>4 DEF Inv, RecoveryKeepsPlan
    <3>5. RecoveryBelongsToCommand'
      <4>1. CASE id = command
        BY <2>2, <2>4, <4>1 DEF Inv, RecoveryBelongsToCommand
      <4>2. CASE id # command
        <5>1. out'.id # command'
          BY <1>1, <1>3, <2>2, <2>4, <4>2 DEF Inv, OutIsOld, OutType
        <5> QED
          BY <5>1 DEF RecoveryBelongsToCommand
      <4> QED
        BY <4>1, <4>2
    <3> QED
      BY <3>1, <3>2, <3>3, <3>4, <3>5 DEF Inv
  <2> QED
    BY <1>3, <2>3, <2>4 DEF HandleMotionCommand
<1>4. ASSUME UNCHANGED <<command, dynamic, out, history>>,
             lifecycle' \in {"unconfigured", "inactive", "active", "finalized"},
             deactivations' \in 0 .. MaxDeactivations
      PROVE  Inv'
  BY <1>4 DEF Inv, TypeOK, OutIsOld, RecoveryKeepsPlan, RecoveryBelongsToCommand, Tied,
              StreakIsEarned, ClearCounts
<1>5. ASSUME NEW to \in {"unconfigured", "finalized"}, ReleaseResources(to)
      PROVE  Inv'
  <2>1. /\ dynamic' = [NoDecision EXCEPT !.clear = dynamic.clear]
        /\ history' = NoHistory /\ out' = NoStatus /\ command' = 0 /\ lifecycle' = to
        /\ UNCHANGED deactivations
    BY <1>5 DEF ReleaseResources
  <2>2. dynamic.clear \in 0 .. ClearConfirm - 1
    BY <1>1 DEF DecisionType
  <2>3. dynamic' = [decision |-> "ok", streak |-> 0, clear |-> dynamic.clear]
    BY <2>1 DEF NoDecision
  <2>4. dynamic' \in DecisionType /\ history' \in HistoryType
    BY <2>1, <2>2, <2>3, StartType, LimitBounds DEF DecisionType
  <2>5. Tied(dynamic', history')
    BY <2>3 DEF Tied, StreakIsEarned, ClearCounts
  <2>6. TypeOK'
    BY <2>1, <2>4 DEF Inv, TypeOK, DecisionType, HistoryType, NoStatus, Decisions
  <2> QED
    BY <2>1, <2>5, <2>6
       DEF Inv, OutIsOld, RecoveryKeepsPlan, RecoveryBelongsToCommand, NoStatus
<1>6. CASE OnConfigure
  BY <1>4, <1>6 DEF OnConfigure, Inv, TypeOK
<1>7. CASE OnActivate
  BY <1>4, <1>7 DEF OnActivate, Inv, TypeOK
<1>8. CASE OnDeactivate
  BY <1>4, <1>8 DEF OnDeactivate, Inv, TypeOK
<1>9. CASE OnCleanup \/ OnShutdown
  BY <1>5, <1>9 DEF OnCleanup, OnShutdown
<1>10. CASE UNCHANGED vars
  BY <1>4, <1>10 DEF vars, node, Inv, TypeOK
<1> QED
  BY <1>2, <1>3, <1>6, <1>7, <1>8, <1>9, <1>10 DEF Next, Timer, Topics, Lifecycle

\* The invariant holds in every reachable state.
LEMMA SpecInv == Spec => []Inv
BY InitInv, NextInv, PTL DEF Spec

-----------------------------------------------------------------------------
(* The theorems                                                            *)

\* Every variable of the local planner stays in its type; the clear streak is
\* always short of the number of cycles that would have reset it.
THEOREM TypeCorrect == Spec => []TypeOK
<1>1. Inv => TypeOK
  BY DEF Inv
<1> QED
  BY <1>1, SpecInv, PTL

\* No status requires a recovery for blocked cycles of another command or of
\* another kind.
THEOREM RecoveryIsEarned == Spec => []RecoveryBelongsToCommand
<1>1. Inv => RecoveryBelongsToCommand
  BY DEF Inv
<1> QED
  BY <1>1, SpecInv, PTL

\* A required recovery always comes with a valid plan, a dropped plan never
\* with a recovery.
THEOREM RecoveryHasPlan == Spec => []RecoveryKeepsPlan
<1>1. Inv => RecoveryKeepsPlan
  BY DEF Inv
<1> QED
  BY <1>1, SpecInv, PTL

\* No pending decision outlives ClearConfirm clear cycles in a row.
THEOREM ClearIsConfirmed == Spec => []ClearForgets
<1>1. Inv => ClearForgets
  <2> SUFFICES ASSUME Inv, history.clearRun >= ClearConfirm, dynamic.decision # "ok"
      PROVE  FALSE
    BY DEF ClearForgets
  <2>1. history.clearRun <= dynamic.clear
    BY DEF Inv, Tied, ClearCounts
  <2>2. dynamic.clear \in 0 .. ClearConfirm - 1 /\ history.clearRun \in Int
    BY DEF Inv, TypeOK
  <2> QED
    BY <2>1, <2>2, ConfirmAssumption
<1> QED
  BY <1>1, SpecInv, PTL

-----------------------------------------------------------------------------
(* The confirmation of a blockage                                          *)

\* What a blocked cycle that keeps its path leaves: the recovery is required
\* of its command, or the streak of its blockage is longer than before.
LEMMA BlockedCycle ==
    ASSUME NEW id, NEW from \in DecisionType, NEW past,
           NEW seen \in Observations, Blocked(seen), Cycle(id, from, past, seen, "kept")
    PROVE  \/ out'.required /\ out'.id = id
           \/ from.decision = BlockageOf(seen) => from.streak < dynamic'.streak
<1>1. /\ dynamic' = ConfirmBlocked(from, BlockageOf(seen))
      /\ out' = Report(id, dynamic', seen, "kept")
  BY DEF Cycle, Judge, Blocked
<1>2. out'.required <=> Confirmed(dynamic', seen)
  BY <1>1 DEF Report, Blocked
<1>3. out'.id = id
  BY <1>1 DEF Report
<1>4. CASE from.decision = BlockageOf(seen)
  <2>1. from.streak \in 0 .. Limit /\ dynamic'.streak = Up(from.streak)
    BY <1>1, <1>4 DEF ConfirmBlocked, DecisionType
  <2>2. RequiredCycles(seen) <= Limit
    BY LimitBounds DEF RequiredCycles
  <2>3. from.streak < dynamic'.streak \/ dynamic'.streak = Limit
    BY <2>1, LimitBounds DEF Up
  <2>4. CASE dynamic'.streak = Limit
    <3>1. Confirmed(dynamic', seen)
      BY <2>2, <2>4 DEF Confirmed
    <3> QED BY <1>2, <1>3, <3>1
  <2> QED BY <2>3, <2>4
<1> QED BY <1>4

\* Of the report of a blockage all but the fairness.  While a command lasts,
\* nothing but a cycle touches the decision and the status.  A blocked cycle
\* leaves its own kind of blockage pending; one that keeps its path requires the
\* recovery of its command, or finds the streak longer than the last cycle of
\* that kind left it.  As no streak is above the largest of the confirmation
\* counts, the same blockage is not found for ever without being reported.
THEOREM BlockageIsCounted ==
    Spec => [][command # 0 /\ command' = command =>
                 \/ UNCHANGED <<dynamic, out, history>>
                 \/ \E seen \in Observations, guard \in Guards :
                      /\ history'.last = <<seen, guard>>
                      /\ Blocked(seen) => dynamic'.decision = BlockageOf(seen)
                      /\ Blocked(seen) /\ guard = "kept" =>
                           \/ out'.required /\ out'.id = command
                           \/ dynamic.decision = BlockageOf(seen) =>
                                  dynamic.streak < dynamic'.streak]_vars
<1>1. ASSUME Inv, Next, command # 0, command' = command, ~UNCHANGED <<dynamic, out, history>>
      PROVE  \E seen \in Observations, guard \in Guards :
               /\ history'.last = <<seen, guard>>
               /\ Blocked(seen) => dynamic'.decision = BlockageOf(seen)
               /\ Blocked(seen) /\ guard = "kept" =>
                    \/ out'.required /\ out'.id = command
                    \/ dynamic.decision = BlockageOf(seen) => dynamic.streak < dynamic'.streak
  <2>1. \E seen \in Observations, guard \in Guards :
          Cycle(command, dynamic, history, seen, guard)
    <3>1. CASE Timer
      BY <3>1 DEF Timer, PublishLocalPlan
    <3>2. CASE Topics
      <4>1. PICK id \in 1 .. MaxCommandId : HandleMotionCommand(id)
        BY <3>2 DEF Topics
      <4>2. id = command
        BY <1>1, <4>1 DEF HandleMotionCommand
      <4> QED BY <1>1, <4>1, <4>2 DEF HandleMotionCommand
    <3>3. CASE OnCleanup \/ OnShutdown
      BY <1>1, <3>3 DEF OnCleanup, OnShutdown, ReleaseResources
    <3> QED
      BY <1>1, <3>1, <3>2, <3>3 DEF Next, Lifecycle, OnConfigure, OnActivate, OnDeactivate
  <2>2. PICK seen \in Observations, guard \in Guards :
          Cycle(command, dynamic, history, seen, guard)
    BY <2>1
  <2>3. history'.last = <<seen, guard>>
    BY <2>2 DEF Cycle, Remember
  <2>4. dynamic \in DecisionType
    BY <1>1 DEF Inv, TypeOK, DecisionType
  <2>5. Blocked(seen) => dynamic'.decision = BlockageOf(seen)
    BY <2>2, <2>4 DEF Cycle, Judge, Blocked, ConfirmBlocked, DecisionType
  <2> QED BY <2>2, <2>3, <2>4, <2>5, BlockedCycle
<1>2. Inv /\ [Next]_vars =>
        [command # 0 /\ command' = command =>
           \/ UNCHANGED <<dynamic, out, history>>
           \/ \E seen \in Observations, guard \in Guards :
                /\ history'.last = <<seen, guard>>
                /\ Blocked(seen) => dynamic'.decision = BlockageOf(seen)
                /\ Blocked(seen) /\ guard = "kept" =>
                     \/ out'.required /\ out'.id = command
                     \/ dynamic.decision = BlockageOf(seen) =>
                            dynamic.streak < dynamic'.streak]_vars
  BY <1>1
<1> QED BY <1>2, SpecInv, PTL DEF Spec
=============================================================================
