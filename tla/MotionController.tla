--------------------------- MODULE MotionController ---------------------------
(***************************************************************************)
(* The motion controller (amr_controller_server).                          *)
(*                                                                         *)
(* A timer calls publish_control once per control period.  Each tick looks *)
(* the robot up in TF, judges the goal, the safety gate and the progress,  *)
(* and publishes one velocity and one MotionStatus.  Commands and local    *)
(* plans arrive between the ticks; one executor thread serves everything.  *)
(*                                                                         *)
(* Time is counted in control periods.  Geometry is reduced to the tests   *)
(* publish_control makes of it: how far the goal is, whether the robot     *)
(* moved, whether its heading has settled, whether the scan is inside the  *)
(* stop distance.  Of a velocity the model keeps whether it may drive the  *)
(* robot forward or in reverse; steering, speed regulation and the rejoin  *)
(* context only scale it.                                                  *)
(***************************************************************************)
EXTENDS Integers

CONSTANTS
    MaxCommandId,      \* bound: the largest command id that is dispatched
    Durations,         \* recovery_duration of commands, in control periods
    SettleTicks,       \* status_semantics.command_settle_time_sec
    BlockedConfirm,    \* status_semantics.blocked_confirm_cycles
    BlockedClear,      \* status_semantics.blocked_clear_cycles
    StalledConfirm,    \* status_semantics.stalled_confirm_cycles
    AllowanceTicks,    \* progress_checker.time_allowance_sec
    AlignTicks,        \* final_align_settle_time_sec
    HoldTicks,         \* goal_checker.hold_time_sec
    Lags,              \* control periods that may pass from tick to tick
    MaxDeactivations,  \* bound: lifecycle deactivations
    AllowCleanup       \* whether the node may be cleaned up or shut down

\* A count of cycles is taken as max(1, parameter), so 0 never occurs.
ASSUME ConfirmAssumption ==
    {BlockedConfirm, BlockedClear, StalledConfirm} \subseteq Nat \ {0}

\* The executor is never late by as much as the progress allowance.
ASSUME TimeAssumption ==
    /\ {SettleTicks, AllowanceTicks, AlignTicks, HoldTicks} \subseteq Nat
    /\ Lags \subseteq Nat \ {0}
    /\ \A lag \in Lags : lag < AllowanceTicks

\* The recovery server's durations are parameters, so one of them is longest.
ASSUME DurationsAssumption ==
    /\ Durations \subseteq Nat
    /\ \E d \in Durations \cup {0} : \A e \in Durations : d >= e

ASSUME BoundsAssumption ==
    /\ MaxCommandId \in Nat
    /\ MaxDeactivations \in Nat
    /\ AllowCleanup \in BOOLEAN

VARIABLES
    lifecycle,      \* the node's state
    deactivations,  \* how often it was deactivated
    command,        \* latest_command_ while has_command_ holds, else NoCommand
    lastId,         \* id of the last command that arrived; 0 before the first
    plan,           \* has_local_plan_ and latest_local_plan_.poses
    settling,       \* periods left of the settle time after latest_command_time_
    xyLatched,      \* goal_xy_latched_
    holds,          \* ages of the final-align and goal holds; Off when not held
    blocked,        \* blocked_latched_ and its two streaks
    stalledStreak,  \* stalled_streak_
    progress,       \* age of the progress reference; Off without one
    recovery,       \* age of the recovery reference; Off without one
    twist,          \* the linear part of the last published velocity
    out,            \* the last published MotionStatus
    history         \* what the properties remember of earlier ticks

node == <<lifecycle, deactivations>>
goal == <<xyLatched, holds>>
semantics == <<settling, blocked, stalledStreak>>
references == <<progress, recovery>>
outputs == <<twist, out>>
vars == <<node, command, lastId, plan, goal, semantics, references, outputs, history>>

-----------------------------------------------------------------------------
(* Values                                                                  *)

Off == -1

Modes == {"navigate", "backup", "spin", "wait"}

NoCommand == [id |-> 0, mode |-> "wait", align |-> FALSE, duration |-> 0]

HasCommand == command # NoCommand

\* What the recovery server plans, and the navigator's stop, a wait of no
\* duration: a spin has no duration, and a backup of no distance has none.
RecoveryCommands ==
    [id : 1 .. MaxCommandId, mode : {"wait", "backup"}, align : {FALSE}, duration : Durations]
        \cup [id : 1 .. MaxCommandId, mode : {"spin"}, align : {FALSE}, duration : {0}]

\* Of a recovery the heading at the goal is never looked at.
Commands ==
    [id : 1 .. MaxCommandId, mode : {"navigate"}, align : BOOLEAN, duration : {0}]
        \cup RecoveryCommands

\* How far the goal is: within the xy tolerance, within its hysteresis, within
\* rotate_in_place_goal_distance, or farther.  The configured distances are
\* ordered this way.
Zones == {"inside", "release", "approach", "far"}

NotBlocked == [latched |-> FALSE, streak |-> 0, clear |-> 0]

NoHolds == [align |-> Off, goal |-> Off]

NoStatus ==
    [id |-> 0, active |-> FALSE, done |-> FALSE, blocked |-> FALSE,
     stalled |-> FALSE, valid |-> FALSE]

\* ended: ids whose completion was published before the last status.
\* gateRun: the run of ticks of one command with the gate triggered.
\* trackRun: the same, of ticks that were not in a final alignment.
\* overdueRun: the run of motionless, overdue ticks of one command.
\* confirmed: whether gateRun has reached BlockedConfirm for the command.
NoHistory ==
    [ended |-> {}, gateRun |-> 0, trackRun |-> 0, overdueRun |-> 0,
     confirmed |-> FALSE]

Least(a, b) == IF a < b THEN a ELSE b

\* Streaks and ages count no further than the limit they are compared with.
Older(age, lag, limit) == IF age = Off THEN Off ELSE Least(age + lag, limit)

Longest(durations) ==
    CHOOSE d \in durations \cup {0} : \A e \in durations : d >= e

Configured == lifecycle \in {"inactive", "active"}

-----------------------------------------------------------------------------
Init ==
    /\ lifecycle = "inactive"
    /\ deactivations = 0
    /\ command = NoCommand
    /\ lastId = 0
    /\ plan = "none"
    /\ settling = 0
    /\ xyLatched = FALSE
    /\ holds = NoHolds
    /\ blocked = NotBlocked
    /\ stalledStreak = 0
    /\ progress = Off
    /\ recovery = Off
    /\ twist = "hold"
    /\ out = NoStatus
    /\ history = NoHistory

ResetGoalChecker == xyLatched' = FALSE /\ holds' = NoHolds

ResetProgressChecker == progress' = Off /\ recovery' = Off

\* latest_command_time_ is cleared too, which ends the settle time.
ResetStatusSemantics ==
    settling' = 0 /\ blocked' = NotBlocked /\ stalledStreak' = 0

-----------------------------------------------------------------------------
(* Topics                                                                  *)

\* Mutant: a new command does not reset the blocked and stalled semantics.
HandleMotionCommandKeepingStreaks ==
    /\ Configured
    /\ \E next \in Commands :
         /\ next.id > lastId
         /\ command' = next
         /\ lastId' = next.id
         /\ plan' = IF next.mode = "navigate" THEN "none" ELSE plan
    /\ settling' = SettleTicks
    /\ ResetGoalChecker
    /\ ResetProgressChecker
    /\ history' = [NoHistory EXCEPT !.ended = history.ended]
    /\ UNCHANGED <<node, blocked, stalledStreak, outputs>>

\* A new command replaces the current one; ids grow, some may be lost.
HandleMotionCommand ==
    /\ Configured
    /\ \E next \in Commands :
         /\ next.id > lastId
         /\ command' = next
         /\ lastId' = next.id
         /\ plan' = IF next.mode = "navigate" THEN "none" ELSE plan
    /\ ResetGoalChecker
    /\ ResetProgressChecker
    /\ settling' = SettleTicks
    /\ blocked' = NotBlocked
    /\ stalledStreak' = 0
    /\ history' = [NoHistory EXCEPT !.ended = history.ended]
    /\ UNCHANGED <<node, outputs>>

\* Mutant: every local plan restarts the settle time.
HandleLocalPlanSettling ==
    /\ Configured
    /\ plan' \in {"empty", "path"}
    /\ settling' = SettleTicks
    /\ UNCHANGED <<node, command, lastId, goal, blocked, stalledStreak, references,
                   outputs, history>>

\* The message carries no command id; an invalid plan is an empty one.
HandleLocalPlan ==
    /\ Configured
    /\ plan' \in {"empty", "path"}
    /\ UNCHANGED <<node, command, lastId, goal, semantics, references,
                   outputs, history>>

-----------------------------------------------------------------------------
(* The control tick: judging                                               *)

\* update_blocked_state.
UpdateBlocked(candidate) ==
    LET streak == Least(blocked.streak + 1, BlockedConfirm)
        clear == blocked.clear + 1 IN
      IF candidate
      THEN [latched |-> blocked.latched \/ streak >= BlockedConfirm,
            streak |-> streak, clear |-> 0]
      ELSE IF ~blocked.latched
      THEN [blocked EXCEPT !.streak = 0]
      ELSE IF clear >= BlockedClear THEN NotBlocked
      ELSE [blocked EXCEPT !.streak = 0, !.clear = clear]

\* Mutant: a tick with progress in time does not clear the streak.
UpdateStalledKeepingStreak(candidate) ==
    IF candidate THEN Least(stalledStreak + 1, StalledConfirm) ELSE stalledStreak

\* update_stalled_state: the new streak; stalled once it is long enough.
UpdateStalled(candidate) ==
    IF candidate THEN Least(stalledStreak + 1, StalledConfirm) ELSE 0

\* check_goal with its hysteresis on the xy tolerance.
DistanceReached(zone) ==
    zone = "inside" \/ (xyLatched /\ zone = "release")

\* A hold starts at age 0 and ends when its condition does.
Hold(age, condition, lag, limit) ==
    IF ~condition THEN Off
    ELSE IF age = Off THEN 0
    ELSE Older(age, lag, limit)

\* The gate counts once the command has settled, outside a final alignment.
BlockedCandidate(gate, settled, held) == gate /\ settled /\ ~held

\* The final alignment is over once the heading has held for AlignTicks.
Stable(final, steady, age) == ~final \/ (steady /\ age >= AlignTicks)

\* The progress reference is renewed when there is none, by a move, and for as
\* long as the robot is within the xy tolerance.
Renewed(moved, xy) == progress = Off \/ moved \/ xy

\* Whatever the steering and the speed regulations make of it, the robot is
\* held at the goal and while blocked or stalled, and may be driven otherwise.
Twists(xy, halted) == IF xy \/ halted THEN {"hold"} ELSE {"hold", "drive"}

Publish(id, active, done, isBlocked, isStalled, valid) ==
    out' = [id |-> id, active |-> active, done |-> done, blocked |-> isBlocked,
            stalled |-> isStalled, valid |-> valid]

\* What has been published is remembered before the next status goes out.
Ended == IF out.done /\ out.id # 0 THEN history.ended \cup {out.id} ELSE history.ended

Run(length, goesOn, limit) == IF goesOn THEN Least(length + 1, limit) ELSE 0

-----------------------------------------------------------------------------
(* The control tick: the four kinds                                        *)

\* Mutant: the completed command stays the current one.
CompleteKeepingCommand(planLeft) ==
    /\ plan' = planLeft
    /\ twist' = "hold"
    /\ UNCHANGED command
    /\ ResetGoalChecker
    /\ ResetProgressChecker
    /\ ResetStatusSemantics

\* The command is over: everything about it is forgotten.
Complete(planLeft) ==
    /\ plan' = planLeft
    /\ twist' = "hold"
    /\ command' = NoCommand
    /\ ResetGoalChecker
    /\ ResetProgressChecker
    /\ ResetStatusSemantics

\* Mutant: a tick without TF drops the start of the recovery as well.
WaitForgettingRecovery(pose) ==
    /\ lifecycle = "active"
    /\ \/ ~HasCommand
       \/ ~pose
       \/ command.mode = "navigate" /\ plan = "none"
    /\ ResetStatusSemantics
    /\ twist' = "hold"
    /\ Publish(command.id, HasCommand, ~HasCommand, FALSE, FALSE, FALSE)
    /\ history' = [history EXCEPT !.ended = Ended, !.gateRun = 0, !.trackRun = 0,
                                  !.overdueRun = 0]
    /\ \E lag \in Lags :
         /\ progress' = Older(progress, lag, AllowanceTicks)
         /\ recovery' = Off
         /\ holds' = [align |-> Older(holds.align, lag, AlignTicks),
                      goal |-> Older(holds.goal, lag, HoldTicks)]
    /\ UNCHANGED <<node, command, lastId, plan, xyLatched>>

\* Nothing to navigate with: no command, no pose, or no local plan yet.
WaitForInputs(pose) ==
    /\ lifecycle = "active"
    /\ \/ ~HasCommand
       \/ ~pose
       \/ command.mode = "navigate" /\ plan = "none"
    /\ ResetStatusSemantics
    /\ twist' = "hold"
    /\ Publish(command.id, HasCommand, ~HasCommand, FALSE, FALSE, FALSE)
    /\ history' = [history EXCEPT !.ended = Ended, !.gateRun = 0, !.trackRun = 0,
                                  !.overdueRun = 0]
    /\ \E lag \in Lags :
         /\ progress' = Older(progress, lag, AllowanceTicks)
         /\ recovery' = Older(recovery, lag, Longest(Durations))
         /\ holds' = [align |-> Older(holds.align, lag, AlignTicks),
                      goal |-> Older(holds.goal, lag, HoldTicks)]
    /\ UNCHANGED <<node, command, lastId, plan, xyLatched>>

\* One tick of a navigate command.  `steady` says that the heading error is
\* within the final-align deadband, `moved` that the robot left the radius of
\* the progress reference.
Navigate(lag, zone, gate, moved, steady) ==
    /\ lifecycle = "active"
    /\ command.mode = "navigate"
    /\ plan # "none"
    /\ LET align == command.align
           left == IF settling > lag THEN settling - lag ELSE 0
           xy == DistanceReached(zone)
           final == align /\ xy
           held == align /\ (xy \/ zone # "far")
           alignAge == Hold(holds.align, final /\ steady, lag, AlignTicks)
           goalAge == Hold(holds.goal, xy /\ ~align, lag, HoldTicks)
           stable == Stable(final, steady, alignAge)
           reached == xy /\ IF align THEN stable ELSE goalAge >= HoldTicks
           judged == UpdateBlocked(BlockedCandidate(gate, left = 0, held))
           age == Older(progress, lag, AllowanceTicks)
           renewed == Renewed(moved, xy)
           overdue == /\ ~renewed /\ ~judged.latched /\ left = 0 /\ ~held
                      /\ age >= AllowanceTicks
           streak == IF renewed THEN stalledStreak ELSE UpdateStalled(overdue)
           stalled == overdue /\ streak >= StalledConfirm
           gateRun == Run(history.gateRun, gate, SettleTicks + BlockedConfirm)
       IN
         /\ Publish(command.id, TRUE, reached, judged.latched, stalled, plan = "path")
         /\ history' =
              [ended |-> Ended,
               gateRun |-> gateRun,
               trackRun |-> Run(history.trackRun, gate /\ ~held,
                                SettleTicks + BlockedConfirm),
               overdueRun |-> Run(history.overdueRun, overdue, StalledConfirm),
               confirmed |-> history.confirmed \/ gateRun >= BlockedConfirm]
         /\ IF reached
            THEN Complete("none")
            ELSE /\ settling' = left
                 /\ blocked' = judged
                 /\ stalledStreak' = streak
                 /\ xyLatched' = xy
                 /\ holds' = [align |-> alignAge, goal |-> goalAge]
                 /\ progress' = IF renewed THEN 0 ELSE age
                 /\ twist' \in Twists(xy, judged.latched \/ stalled)
                 /\ UNCHANGED <<command, plan, recovery>>
    /\ UNCHANGED <<node, lastId>>

\* One tick of a recovery command.  `arrived` says that the backup distance or
\* the spin angle has been covered; the recovery starts with its first tick.
Recover(lag, arrived) ==
    /\ lifecycle = "active"
    /\ HasCommand
    /\ command.mode # "navigate"
    /\ LET age == IF recovery = Off THEN 0
                  ELSE Older(recovery, lag, Longest(Durations))
           elapsed == age >= command.duration
           done == CASE command.mode = "backup" ->
                          arrived \/ (command.duration > 0 /\ elapsed)
                     [] command.mode = "spin" -> arrived
                     [] OTHER -> elapsed
       IN
         /\ Publish(command.id, TRUE, done, FALSE, FALSE, FALSE)
         /\ IF done
            THEN Complete(plan)
            ELSE /\ recovery' = age
                 /\ twist' = IF command.mode = "backup" THEN "reverse" ELSE "hold"
                 /\ ResetStatusSemantics
                 /\ UNCHANGED <<command, plan, goal, progress>>
    /\ history' = [NoHistory EXCEPT !.ended = Ended]
    /\ UNCHANGED <<node, lastId>>

-----------------------------------------------------------------------------
(* Lifecycle                                                               *)

OnConfigure ==
    /\ lifecycle = "unconfigured"
    /\ lifecycle' = "inactive"
    /\ UNCHANGED <<deactivations, command, lastId, plan, goal, semantics,
                   references, outputs, history>>

\* The timer runs again; whatever time passed has aged what is timed.
OnActivate ==
    /\ lifecycle = "inactive"
    /\ lifecycle' = "active"
    /\ \/ UNCHANGED <<settling, references, holds>>
       \/ /\ settling' = 0
          /\ progress' = Older(progress, AllowanceTicks, AllowanceTicks)
          /\ recovery' = Older(recovery, Longest(Durations), Longest(Durations))
          /\ holds' = [align |-> Older(holds.align, AlignTicks, AlignTicks),
                       goal |-> Older(holds.goal, HoldTicks, HoldTicks)]
    /\ UNCHANGED <<deactivations, command, lastId, plan, xyLatched, blocked,
                   stalledStreak, outputs, history>>

\* The robot is stopped, but the command and the plan stay.
OnDeactivate ==
    /\ lifecycle = "active"
    /\ deactivations < MaxDeactivations
    /\ lifecycle' = "inactive"
    /\ deactivations' = deactivations + 1
    /\ twist' = "hold"
    /\ UNCHANGED <<command, lastId, plan, goal, semantics, references, out, history>>

ReleaseResources(to) ==
    /\ AllowCleanup
    /\ lifecycle' = to
    /\ command' = NoCommand
    /\ plan' = "none"
    /\ twist' = "hold"
    /\ ResetGoalChecker
    /\ ResetProgressChecker
    /\ ResetStatusSemantics
    /\ history' = [NoHistory EXCEPT !.ended = history.ended]
    /\ UNCHANGED <<deactivations, lastId, out>>

OnCleanup == lifecycle = "inactive" /\ ReleaseResources("unconfigured")

OnShutdown ==
    /\ lifecycle \in {"unconfigured", "inactive", "active"}
    /\ ReleaseResources("finalized")

-----------------------------------------------------------------------------
NavigateTick ==
    \E lag \in Lags, zone \in Zones, gate \in BOOLEAN, moved \in BOOLEAN,
       steady \in BOOLEAN : Navigate(lag, zone, gate, moved, steady)

RecoverTick == \E lag \in Lags, arrived \in BOOLEAN : Recover(lag, arrived)

WaitTick == \E pose \in BOOLEAN : WaitForInputs(pose)

Topics == HandleMotionCommand \/ HandleLocalPlan

Lifecycle ==
    OnConfigure \/ OnActivate \/ OnDeactivate \/ OnCleanup \/ OnShutdown

Next == Topics \/ NavigateTick \/ RecoverTick \/ WaitTick \/ Lifecycle

Spec == Init /\ [][Next]_vars

\* The timer keeps firing, and TF does not fail at every tick for ever.
FairSpec == Spec /\ WF_vars(RecoverTick)

-----------------------------------------------------------------------------
(* Properties                                                              *)

Ages(limit) == {Off} \cup 0 .. limit

\* Every variable stays in its type, and every streak and age within the
\* limit it is compared with.
TypeOK ==
    /\ lifecycle \in {"unconfigured", "inactive", "active", "finalized"}
    /\ deactivations \in 0 .. MaxDeactivations
    /\ command \in Commands \cup {NoCommand}
    /\ lastId \in 0 .. MaxCommandId
    /\ plan \in {"none", "empty", "path"}
    /\ settling \in 0 .. SettleTicks
    /\ xyLatched \in BOOLEAN
    /\ holds \in [align : Ages(AlignTicks), goal : Ages(HoldTicks)]
    /\ blocked \in [latched : BOOLEAN, streak : 0 .. BlockedConfirm,
                    clear : 0 .. BlockedClear - 1]
    /\ stalledStreak \in 0 .. StalledConfirm
    /\ progress \in Ages(AllowanceTicks)
    /\ recovery \in Ages(Longest(Durations))
    /\ twist \in {"hold", "drive", "reverse"}
    /\ out \in [id : 0 .. MaxCommandId, active : BOOLEAN, done : BOOLEAN,
                blocked : BOOLEAN, stalled : BOOLEAN, valid : BOOLEAN]
    /\ history \in [ended : SUBSET (1 .. MaxCommandId),
                    gateRun : 0 .. SettleTicks + BlockedConfirm,
                    trackRun : 0 .. SettleTicks + BlockedConfirm,
                    overdueRun : 0 .. StalledConfirm,
                    confirmed : BOOLEAN]

\* A status calls its command blocked only if the safety gate was triggered in
\* BlockedConfirm ticks of that very command with no clear tick in between: no
\* streak survives from the command before, from a tick without TF or from a
\* recovery.
BlockedIsEarned ==
    out.blocked /\ out.id = command.id => history.confirmed

\* A status says stalled only after StalledConfirm ticks in a row in which the
\* robot was overdue, unblocked and motionless.  stalled_streak_ is not reset
\* when the progress reference is renewed, so this rests on the executor being
\* late by less than the allowance, and fails once the node was deactivated for
\* longer than that.
StalledIsEarned ==
    deactivations = 0 /\ out.stalled /\ out.id = command.id =>
        history.overdueRun = StalledConfirm

\* Away from its final alignment, a robot whose gate stays triggered is no
\* longer driven forward once the settle time and the confirmation are over.
GateStopsTracking ==
    history.trackRun = SettleTicks + BlockedConfirm => twist # "drive"

\* The completion of a command is published once: no later status carries its
\* id, and it never moves the robot again, not even after a deactivation.
CompletionIsFinal ==
    /\ out.id \notin history.ended
    /\ HasCommand => command.id \notin history.ended /\ ~(out.done /\ out.id = command.id)

\* A stop or wait command, and a backup with a duration, comes to its end
\* unless another command replaces it or the node is deactivated.
BoundedRecoveryEnds ==
    \A id \in 1 .. MaxCommandId :
        (/\ command.id = id
         /\ \/ command.mode = "wait"
            \/ command.mode = "backup" /\ command.duration > 0)
            ~> (command.id # id \/ lifecycle # "active")
=============================================================================
