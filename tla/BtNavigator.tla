----------------------------- MODULE BtNavigator -----------------------------
(***************************************************************************)
(* The behavior-tree navigator (amr_bt_navigator).                         *)
(*                                                                         *)
(* One executor thread serves the callbacks: goal and cancel requests, the *)
(* /motion_status and /local_plan_status topics, and the lifecycle         *)
(* transitions.  Every accepted goal gets a detached thread that plans,    *)
(* dispatches a MotionCommand, monitors the controller and runs recovery   *)
(* cycles.  The two sides share the latest statuses, the terminal latch,   *)
(* the command counter and the weak handle of the active goal.             *)
(*                                                                         *)
(* A goal thread is a program counter that stops wherever the code blocks  *)
(* or re-reads something another thread writes.  Clocks are reduced to     *)
(* whether a delay has elapsed, messages to the few fields the navigator   *)
(* branches on, and the answers of the planner, recovery and costmap       *)
(* services to success or failure.                                         *)
(***************************************************************************)
EXTENDS Integers, Sequences

CONSTANTS
    Goals,            \* the action goals clients send, by UUID
    KindOf,           \* KindOf[g]: the action g is sent to, "pose" or "poses"
    PoseCount,        \* PoseCount[g]: the poses of g; 1 for a "pose" goal
    NoGoal,           \* an expired weak goal handle
    MaxRetries,       \* recovery.max_retries
    PlanReports,      \* what a local planner may report of a navigate command
    MaxCommandId,     \* bound: no new recovery cycle once this id is in use
    StatusLag,        \* bound: how many commands a status may lag behind
    MaxDeactivations, \* bound: lifecycle deactivations
    AllowCleanup,     \* whether the navigator may be cleaned up or shut down
    AllowExceptions   \* whether a behavior-tree tick may throw

Kinds == {"pose", "poses"}

Lifecycles == {"unconfigured", "inactive", "active", "finalized", "crashed"}

AllPlanReports == {"clear", "pending", "proximity", "replan", "hard"}

ASSUME GoalsAssumption ==
    /\ KindOf \in [Goals -> Kinds]
    /\ PoseCount \in [Goals -> Nat \ {0}]
    /\ \A g \in Goals : KindOf[g] = "pose" => PoseCount[g] = 1
    /\ NoGoal \notin Goals

ASSUME BoundsAssumption ==
    /\ MaxRetries \in Nat
    /\ PlanReports \subseteq AllPlanReports
    /\ MaxCommandId \in Nat
    /\ StatusLag \in Nat \ {0}
    /\ MaxDeactivations \in Nat
    /\ AllowCleanup \in BOOLEAN
    /\ AllowExceptions \in BOOLEAN

VARIABLES
    lifecycle,      \* the node's state, "crashed" when the process died
    orphans,        \* goals whose action server was destroyed under them
    deactivations,  \* how often the node was deactivated
    status,         \* status[g]: the goal's state in its action server
    handle,         \* handle[k]: active_goal_handle_ / active_goals_handle_
    finalized,      \* finalized_goal_ids_
    nextId,         \* next_command_id_
    recent,         \* the last StatusLag published commands, newest first
    motionStatus,   \* latest_motion_status_: [id, kind]
    planStatus,     \* latest_local_plan_status_: [id, kind]
    latch,          \* last_terminal_command_id_; 0 when no flag is latched
    pc,             \* pc[g]: where the goal's thread is
    bb,             \* bb[g]: the thread's blackboard
    completed,      \* completed[g]: waypoints counted as completed
    reached         \* history: waypoints whose own command was reported done

shared == <<lifecycle, orphans, deactivations, handle, finalized>>
dispatch == <<nextId, recent, latch>>
reports == <<motionStatus, planStatus>>
vars == <<shared, dispatch, reports, status, pc, bb, completed, reached>>

-----------------------------------------------------------------------------
(* Messages and blackboard                                                 *)

Modes == {"navigate", "recovery", "stop"}

Command(id, mode, g) == [id |-> id, mode |-> mode, goal |-> g]

\* What the controller can say of a command.  "tracking" is active with a
\* valid plan, "other" active without one, "trouble" blocked or stalled, and
\* "done" sets goal_reached or command_completed.
ReportsOf(command) ==
    IF command.mode = "navigate"
    THEN {"tracking", "other", "trouble", "done"}
    ELSE {"other", "done"}

NoReport == [id |-> 0, kind |-> "idle"]
NoPlanReport == [id |-> 0, kind |-> "pending"]

\* The kinds of LocalPlanStatus that set recovery_required.
Required == {"proximity", "replan", "hard"}

\* The first statements of execute_goal_pose.
FreshBlackboard ==
    [active |-> 0,         \* active_command.command_id
     outcome |-> "running",\* bt_outcome
     attempts |-> 0,       \* recovery_attempts
     settled |-> FALSE,    \* the settle time since dispatch has passed
     since |-> "zero",     \* recovery_condition_since_ns and its debounce
     window |-> "off",     \* the post-recovery reacquire window
     escaped |-> FALSE,    \* local_escape_dispatched
     snap |-> NoPlanReport,\* local_plan_status copied when a cycle starts
     behavior |-> "none",  \* the recovery behavior being executed
     awaited |-> 0,        \* recovery_command.command_id
     canceling |-> FALSE]  \* is_canceling() as finalize_goal read it

Steps == {"none", "start", "ready", "planner", "plan", "dispatch", "cancel",
          "goal", "stop", "recovery", "cycle", "services", "clear", "escape",
          "replan", "behavior", "await", "tail", "freshplan", "result",
          "finalize", "commit", "release", "done"}

\* Steps that call a client of the node without testing it for null.
ClientCalls == {"plan", "clear", "escape", "behavior"}

\* Steps outside the two ticks of the behavior tree.
OutsideTicks == {"none", "start", "result", "finalize", "commit", "release", "done"}

Live(g) == pc[g] \notin {"none", "done"}

Canceling(g) == status[g] = "canceling"

Publishing == lifecycle = "active"

Configured == lifecycle \in {"active", "inactive"}

-----------------------------------------------------------------------------
Init ==
    /\ lifecycle = "inactive"
    /\ orphans = {}
    /\ deactivations = 0
    /\ status = [g \in Goals |-> "unknown"]
    /\ handle = [k \in Kinds |-> NoGoal]
    /\ finalized = {}
    /\ nextId = 1
    /\ recent = <<>>
    /\ motionStatus = NoReport
    /\ planStatus = NoPlanReport
    /\ latch = 0
    /\ pc = [g \in Goals |-> "none"]
    /\ bb = [g \in Goals |-> FreshBlackboard]
    /\ completed = [g \in Goals |-> 0]
    /\ reached = [g \in Goals |-> 0]

Goto(g, step) == pc' = [pc EXCEPT ![g] = step]

-----------------------------------------------------------------------------
(* Executor: goals and cancellation                                        *)

\* Mutant: each action server asks only for a goal of the first action.
HasActiveSingleGoal == handle["pose"] # NoGoal

HasActiveGoal == \E k \in Kinds : handle[k] # NoGoal

\* handle_accepted of either action: the goal gets its detached thread.  Ticks
\* and finalize_goal catch what they throw, so that the thread's own handlers,
\* which would abort the goal, are not reached.
HandleAccepted(g) ==
    /\ handle' = [handle EXCEPT ![KindOf[g]] = g]
    /\ Goto(g, "start")

\* Both action servers reject a goal while either action has one.
HandleGoal(g) ==
    /\ Configured
    /\ status[g] = "unknown"
    /\ IF HasActiveGoal \/ lifecycle # "active"
       THEN /\ status' = [status EXCEPT ![g] = "rejected"]
            /\ UNCHANGED <<handle, pc>>
       ELSE /\ status' = [status EXCEPT ![g] = "executing"]
            /\ HandleAccepted(g)
    /\ UNCHANGED <<lifecycle, orphans, deactivations, finalized, dispatch,
                   reports, bb, completed, reached>>

\* A request with no frame id, or a route with no pose or with a frameless
\* one, is refused whatever the node is doing.
RefuseMalformedGoal(g) ==
    /\ Configured
    /\ status[g] = "unknown"
    /\ status' = [status EXCEPT ![g] = "rejected"]
    /\ UNCHANGED <<shared, dispatch, reports, pc, bb, completed, reached>>

\* Every cancel request the goal's own server receives is accepted.
HandleCancel(g) ==
    /\ Configured
    /\ g \notin orphans
    /\ status[g] = "executing"
    /\ status' = [status EXCEPT ![g] = "canceling"]
    /\ UNCHANGED <<shared, dispatch, reports, pc, bb, completed, reached>>

-----------------------------------------------------------------------------
(* Executor: topics                                                        *)

\* A status of a command is delivered; a terminal one is latched.
HandleMotionStatus ==
    /\ Configured
    /\ \E i \in DOMAIN recent : \E kind \in ReportsOf(recent[i]) :
         LET command == recent[i] IN
           /\ motionStatus' = [id |-> command.id, kind |-> kind]
           /\ latch' = IF kind = "done" THEN command.id ELSE latch
           /\ reached' =
                IF /\ kind = "done"
                   /\ command.mode = "navigate"
                   /\ bb[command.goal].active = command.id
                   /\ pc[command.goal] \notin OutsideTicks
                THEN [reached EXCEPT ![command.goal] =
                        completed[command.goal] + 1]
                ELSE reached
    /\ UNCHANGED <<shared, nextId, recent, planStatus, status, pc, bb, completed>>

\* The controller idles with command id 0, which is never latched although
\* its goal_reached flag is set.
HandleIdleStatus ==
    /\ Configured
    /\ motionStatus' = NoReport
    /\ UNCHANGED <<shared, dispatch, planStatus, status, pc, bb, completed, reached>>

\* Of a plan status for a stop or recovery command, which can be any report,
\* the navigator only ever uses that its id is not the active one.
HandleLocalPlanStatus ==
    /\ Configured
    /\ \E i \in DOMAIN recent :
         \E kind \in IF recent[i].mode = "navigate"
                     THEN PlanReports ELSE {"pending"} :
           planStatus' = [id |-> recent[i].id, kind |-> kind]
    /\ UNCHANGED <<shared, dispatch, motionStatus, status, pc, bb, completed, reached>>

-----------------------------------------------------------------------------
(* Executor: lifecycle                                                     *)

OnConfigure ==
    /\ lifecycle = "unconfigured"
    /\ lifecycle' = "inactive"
    /\ UNCHANGED <<orphans, deactivations, handle, finalized, dispatch,
                   reports, status, pc, bb, completed, reached>>

OnActivate ==
    /\ lifecycle = "inactive"
    /\ lifecycle' = "active"
    /\ UNCHANGED <<orphans, deactivations, handle, finalized, dispatch,
                   reports, status, pc, bb, completed, reached>>

\* Only the command publisher is deactivated; goal threads keep running.
OnDeactivate ==
    /\ lifecycle = "active"
    /\ deactivations < MaxDeactivations
    /\ lifecycle' = "inactive"
    /\ deactivations' = deactivations + 1
    /\ UNCHANGED <<orphans, handle, finalized, dispatch,
                   reports, status, pc, bb, completed, reached>>

\* A thread that is about to reset its handle does so under another mutex than
\* on_cleanup and on_shutdown: the two may reset it at once.
HandleRace == \E g \in Goals : pc[g] = "release" /\ handle[KindOf[g]] = g

\* on_cleanup and on_shutdown: servers, clients, publisher, cached statuses
\* and active goal handles go, whatever the goal threads are doing.
ReleaseResources(to) ==
    /\ AllowCleanup
    /\ lifecycle' = to \/ (HandleRace /\ lifecycle' = "crashed")
    /\ orphans' = {g \in Goals : status[g] # "unknown"}
    /\ handle' = [k \in Kinds |-> NoGoal]
    /\ motionStatus' = NoReport
    /\ planStatus' = NoPlanReport
    /\ UNCHANGED <<deactivations, finalized, dispatch, status, pc, bb,
                   completed, reached>>

OnCleanup == lifecycle = "inactive" /\ ReleaseResources("unconfigured")

OnShutdown ==
    /\ lifecycle \in {"unconfigured", "inactive", "active"}
    /\ ReleaseResources("finalized")

-----------------------------------------------------------------------------
(* Goal thread: what it publishes                                          *)

\* The thread is at this step of a process that is still alive.
At(g, step) == pc[g] = step /\ lifecycle # "crashed"

\* publish_motion_command / publish_stop_command while the publisher is
\* active: the command joins the topic and the latch is cleared for it.
Send(command) ==
    /\ recent' = SubSeq(<<command>> \o recent, 1,
                        IF Len(recent) < StatusLag THEN Len(recent) + 1
                        ELSE StatusLag)
    /\ latch' = 0

\* A command built by the node takes an id whether or not it is published.
SendNew(g, mode) ==
    /\ nextId' = nextId + 1
    /\ IF Publishing THEN Send(Command(nextId, mode, g))
                     ELSE UNCHANGED <<recent, latch>>

\* A stop command is not even built when the publisher is inactive.
PublishStop(g) ==
    IF Publishing THEN SendNew(g, "stop") ELSE UNCHANGED dispatch

\* Leave the monitor loop with an outcome.
Conclude(g, board, outcome) ==
    /\ bb' = [bb EXCEPT ![g] = [board EXCEPT !.outcome = outcome]]
    /\ Goto(g, "result")

\* Mutant: the cancel path of a recovery cycle forgets the stop command.
FinishCanceledWithoutStop(g) ==
    /\ Conclude(g, bb[g], "canceled")
    /\ UNCHANGED dispatch

\* finish_canceled: stop the robot, forget the recovery, report canceled.
FinishCanceled(g) ==
    /\ PublishStop(g)
    /\ Conclude(g, [bb[g] EXCEPT !.since = "zero", !.window = "off"], "canceled")

\* Retries are spent or recovery is impossible: stop and abort.
StopAndAbort(g, attempts) ==
    /\ PublishStop(g)
    /\ Conclude(g, [bb[g] EXCEPT !.attempts = attempts], "aborted")

\* The locals of one recovery cycle go out of scope.
CycleOver(board) ==
    [board EXCEPT !.snap = NoPlanReport, !.behavior = "none", !.awaited = 0]

\* Send a navigate command and arm the reacquire window for it.
Redispatch(g, board) ==
    /\ SendNew(g, "navigate")
    /\ bb' = [bb EXCEPT ![g] = [CycleOver(board) EXCEPT !.active = nextId,
                                                        !.settled = FALSE,
                                                        !.window = "open"]]
    /\ Goto(g, "cancel")

-----------------------------------------------------------------------------
(* Goal thread: plan and dispatch                                          *)

\* The outcome of PlanAndDispatch when one of its nodes fails.
PlanFails(g) ==
    /\ Conclude(g, bb[g], IF Canceling(g) THEN "canceled" ELSE "aborted")
    /\ UNCHANGED dispatch

\* One pass of the waypoint loop; a single goal has no check before its pose.
StartPose(g) ==
    /\ At(g, "start")
    /\ IF KindOf[g] = "poses" /\ Canceling(g)
       THEN Conclude(g, FreshBlackboard, "canceled")
       ELSE /\ bb' = [bb EXCEPT ![g] = FreshBlackboard]
            /\ Goto(g, "ready")
    /\ UNCHANGED <<shared, dispatch, reports, status, completed, reached>>

\* CheckNavigatorReady, then CheckCurrentPose: TF may or may not have a pose.
CheckReady(g) ==
    /\ At(g, "ready")
    /\ \/ Publishing /\ Goto(g, "planner") /\ UNCHANGED <<bb, dispatch>>
       \/ PlanFails(g)
    /\ UNCHANGED <<shared, reports, status, completed, reached>>

\* wait_for_planner_service: present, or absent until the timeout, or the
\* client is gone, or a cancel request ends the wait.
WaitForPlannerService(g) ==
    /\ At(g, "planner")
    /\ \/ Configured /\ Goto(g, "plan") /\ UNCHANGED <<bb, dispatch>>
       \/ PlanFails(g)
    /\ UNCHANGED <<shared, reports, status, completed, reached>>

RequestGlobalPlan(g) ==
    /\ At(g, "plan")
    /\ Configured
    /\ \/ Goto(g, "dispatch") /\ UNCHANGED <<bb, dispatch>>
       \/ PlanFails(g)
    /\ UNCHANGED <<shared, reports, status, completed, reached>>

PublishMotionCommand(g) ==
    /\ At(g, "dispatch")
    /\ SendNew(g, "navigate")
    /\ bb' = [bb EXCEPT ![g].active = nextId, ![g].settled = FALSE,
                        ![g].since = "zero", ![g].escaped = FALSE,
                        ![g].attempts = 0]
    /\ Goto(g, "cancel")
    /\ UNCHANGED <<shared, reports, status, completed, reached>>

-----------------------------------------------------------------------------
(* Goal thread: monitor                                                    *)

\* Mutant: the monitor leaves cancellation to the recovery cycle.
IgnoreCancelRequest(g) ==
    /\ At(g, "cancel")
    /\ Goto(g, "goal")
    /\ UNCHANGED <<shared, dispatch, reports, status, bb, completed, reached>>

CheckCancelRequested(g) ==
    /\ At(g, "cancel")
    /\ IF Canceling(g)
       THEN /\ bb' = [bb EXCEPT ![g].outcome = "canceled"]
            /\ Goto(g, "stop")
       ELSE Goto(g, "goal") /\ UNCHANGED bb
    /\ UNCHANGED <<shared, dispatch, reports, status, completed, reached>>

\* Mutant: the id of a terminal status is not compared.
EndsAnyCommand(id) == motionStatus.kind = "done"

EndsCommand(id) == motionStatus = [id |-> id, kind |-> "done"]

\* The latest status is latched once more if it ends the active command.
CheckGoalReached(g) ==
    /\ At(g, "goal")
    /\ LET active == bb[g].active
           ended == EndsCommand(active) IN
         /\ latch' = IF ended THEN active ELSE latch
         /\ IF latch' = active /\ active # 0
            THEN /\ bb' = [bb EXCEPT ![g].outcome = "succeeded"]
                 /\ Goto(g, "stop")
            ELSE Goto(g, "recovery") /\ UNCHANGED bb
    /\ UNCHANGED <<shared, nextId, recent, reports, status, completed, reached>>

\* PublishStopCommand, then MarkCanceled or MarkSucceeded.
StopAndMark(g) ==
    /\ At(g, "stop")
    /\ PublishStop(g)
    /\ Goto(g, "result")
    /\ UNCHANGED <<shared, reports, status, bb, completed, reached>>

Reacquired(g) ==
    /\ motionStatus = [id |-> bb[g].active, kind |-> "tracking"]
    /\ planStatus = [id |-> bb[g].active, kind |-> "clear"]

PlannerOwned(g, report) == report.id = bb[g].active /\ report.kind \in Required

RecoveryWanted(g) ==
    \/ motionStatus.kind = "trouble"
    \/ PlannerOwned(g, planStatus)

\* One evaluation; unless it starts a cycle the tick ends in the feedback
\* sleep and the loop comes back to the cancel check.
CheckRecoveryNeeded(g) ==
    /\ At(g, "recovery")
    /\ LET board == bb[g]
           Sleep(next) == bb' = [bb EXCEPT ![g] = next] /\ Goto(g, "cancel")
           judged == board.window = "off"
           credible == motionStatus.id = board.active /\ board.settled
           wanted == credible /\ RecoveryWanted(g) IN
         \/ /\ board.window # "off"
            /\ Reacquired(g)
            /\ Sleep([board EXCEPT !.window = "off", !.since = "zero",
                                   !.escaped = FALSE])
         \/ board.window = "open" /\ ~Reacquired(g) /\ Sleep(board)
         \/ /\ board.window = "expired"
            /\ ~Reacquired(g)
            /\ Sleep([board EXCEPT !.window = "off", !.since = "running"])
         \/ judged /\ ~wanted /\ Sleep([board EXCEPT !.since = "zero"])
         \/ /\ judged /\ wanted /\ board.since # "elapsed"
            /\ Sleep([board EXCEPT !.since = "running"])
         \/ /\ judged /\ wanted /\ board.since = "elapsed"
            /\ Goto(g, "cycle")
            /\ UNCHANGED bb
    /\ UNCHANGED <<shared, dispatch, reports, status, completed, reached>>

\* The delays the monitor compares with now().
Monitoring(g) == pc[g] \in {"cancel", "goal", "recovery"}

SettleElapses(g) ==
    /\ Monitoring(g)
    /\ ~bb[g].settled
    /\ bb' = [bb EXCEPT ![g].settled = TRUE]
    /\ UNCHANGED <<shared, dispatch, reports, status, pc, completed, reached>>

DebounceElapses(g) ==
    /\ Monitoring(g)
    /\ bb[g].since = "running"
    /\ nextId <= MaxCommandId
    /\ bb' = [bb EXCEPT ![g].since = "elapsed"]
    /\ UNCHANGED <<shared, dispatch, reports, status, pc, completed, reached>>

ReacquireWindowElapses(g) ==
    /\ Monitoring(g)
    /\ bb[g].window = "open"
    /\ bb' = [bb EXCEPT ![g].window = "expired"]
    /\ UNCHANGED <<shared, dispatch, reports, status, pc, completed, reached>>

-----------------------------------------------------------------------------
(* Goal thread: HandleRecoveryCycle                                        *)

\* A blocking call of the cycle that did not succeed: canceled if a cancel
\* request is there by now, otherwise the cycle goes on at `step`.
CallFails(g, step) ==
    IF Canceling(g)
    THEN FinishCanceled(g)
    ELSE Goto(g, step) /\ UNCHANGED <<bb, dispatch>>

\* The planner's report is copied here and judged after the waits below.
StartCycle(g) ==
    /\ At(g, "cycle")
    /\ IF Canceling(g)
       THEN FinishCanceled(g)
       ELSE IF Reacquired(g)
       THEN /\ bb' = [bb EXCEPT ![g].since = "zero", ![g].window = "off",
                                ![g].escaped = FALSE]
            /\ Goto(g, "cancel")
            /\ UNCHANGED dispatch
       ELSE /\ PublishStop(g)
            /\ bb' = [bb EXCEPT ![g].snap = planStatus]
            /\ Goto(g, "services")
    /\ UNCHANGED <<shared, reports, status, completed, reached>>

WaitForRecoveryServices(g) ==
    /\ At(g, "services")
    /\ \/ Configured /\ Goto(g, "clear") /\ UNCHANGED <<bb, dispatch>>
       \/ Canceling(g) /\ FinishCanceled(g)
       \/ /\ ~Canceling(g)
          /\ Conclude(g, bb[g], "aborted")
          /\ UNCHANGED dispatch
    /\ UNCHANGED <<shared, reports, status, completed, reached>>

ShouldTryLocalEscape(g) ==
    /\ ~bb[g].escaped
    /\ PlannerOwned(g, bb[g].snap)
    /\ bb[g].snap.kind = "hard"

\* The step after the escape has been ruled out or has failed.
AfterEscape(g) ==
    IF PlannerOwned(g, bb[g].snap) /\ bb[g].snap.kind = "replan"
    THEN "replan" ELSE "behavior"

\* A failed clear is only logged.
ClearLocalCostmap(g) ==
    /\ At(g, "clear")
    /\ Configured
    /\ LET next == IF ShouldTryLocalEscape(g) THEN "escape" ELSE AfterEscape(g)
       IN \/ Goto(g, next) /\ UNCHANGED <<bb, dispatch>>
          \/ CallFails(g, next)
    /\ UNCHANGED <<shared, reports, status, completed, reached>>

\* A dispatched escape does not count as a recovery attempt.
RequestLocalEscape(g) ==
    /\ At(g, "escape")
    /\ Configured
    /\ \/ Redispatch(g, [bb[g] EXCEPT !.escaped = TRUE])
       \/ CallFails(g, AfterEscape(g))
    /\ UNCHANGED <<shared, reports, status, completed, reached>>

\* Mutant: the attempt is counted after the limit was tested.
SpendAttemptLate(g) ==
    IF bb[g].attempts >= MaxRetries
    THEN StopAndAbort(g, bb[g].attempts)
    ELSE Redispatch(g, [bb[g] EXCEPT !.attempts = @ + 1])

\* A plan was obtained for one more attempt: dispatch it if one is left.
SpendAttempt(g) ==
    LET attempts == bb[g].attempts + 1 IN
      IF attempts >= MaxRetries
      THEN StopAndAbort(g, attempts)
      ELSE Redispatch(g, [bb[g] EXCEPT !.attempts = attempts])

\* The planner asked for a global replan: wait for the service and call it.
ReplanForPlanner(g) ==
    /\ At(g, "replan")
    /\ \/ Configured /\ SpendAttempt(g)
       \/ CallFails(g, "tail")
    /\ UNCHANGED <<shared, reports, status, completed, reached>>

Behavior(g) ==
    LET index == bb[g].attempts % 3
        byIndex == CASE index = 0 -> "wait" [] index = 1 -> "backup"
                     [] OTHER -> "spin" IN
      IF ~PlannerOwned(g, bb[g].snap) THEN byIndex
      ELSE CASE bb[g].snap.kind = "proximity" ->
                  IF index < 2 THEN "wait" ELSE "backup"
             [] bb[g].snap.kind = "hard" ->
                  IF index = 0 THEN "backup" ELSE "spin"
             [] OTHER -> byIndex

RequestRecoveryCommand(g) ==
    /\ At(g, "behavior")
    /\ Configured
    /\ \/ /\ SendNew(g, "recovery")
          /\ bb' = [bb EXCEPT ![g].behavior = Behavior(g),
                                  ![g].awaited = nextId]
          /\ Goto(g, "await")
       \/ CallFails(g, "tail")
    /\ UNCHANGED <<shared, reports, status, completed, reached>>

ShouldRedispatch(g) ==
    /\ PlannerOwned(g, bb[g].snap)
    /\ bb[g].snap.kind = "proximity"
    /\ bb[g].behavior = "wait"

\* wait_for_command_completion polls the latest status, not the latch.
AwaitRecoveryCommand(g) ==
    /\ At(g, "await")
    /\ \/ /\ EndsCommand(bb[g].awaited)
          /\ ~Canceling(g)
          /\ IF ShouldRedispatch(g)
             THEN SpendAttempt(g)
             ELSE Goto(g, "tail") /\ UNCHANGED <<bb, dispatch>>
       \/ CallFails(g, "tail")
    /\ UNCHANGED <<shared, reports, status, completed, reached>>

\* The recovery did not lead to a new command by itself.
CountAttempt(g) ==
    /\ At(g, "tail")
    /\ LET attempts == bb[g].attempts + 1 IN
         IF attempts >= MaxRetries
         THEN StopAndAbort(g, attempts)
         ELSE /\ bb' = [bb EXCEPT ![g] =
                          [CycleOver(bb[g]) EXCEPT !.attempts = attempts]]
              /\ Goto(g, "freshplan")
              /\ UNCHANGED dispatch
    /\ UNCHANGED <<shared, reports, status, completed, reached>>

\* When no plan comes the monitor resumes with the command it had.
ReplanAfterRecovery(g) ==
    /\ At(g, "freshplan")
    /\ \/ Configured /\ Redispatch(g, bb[g])
       \/ CallFails(g, "cancel")
    /\ UNCHANGED <<shared, reports, status, completed, reached>>

\* A client was reset by on_cleanup or on_shutdown and is dereferenced.
CallNullClient(g) ==
    /\ pc[g] \in ClientCalls
    /\ lifecycle \in {"unconfigured", "finalized"}
    /\ lifecycle' = "crashed"
    /\ UNCHANGED <<orphans, deactivations, handle, finalized, dispatch,
                   reports, status, pc, bb, completed, reached>>

\* Whatever a node of either tree throws is caught around the tick: the pose
\* is aborted on the spot, with no stop command.
TickThrows(g) ==
    /\ AllowExceptions
    /\ lifecycle # "crashed"
    /\ pc[g] \notin OutsideTicks
    /\ Conclude(g, bb[g], "aborted")
    /\ UNCHANGED <<shared, dispatch, reports, status, completed, reached>>

-----------------------------------------------------------------------------
(* Goal thread: the end of a waypoint and of the goal                      *)

\* execute / execute_goals look at what one pose came to.
WaypointResult(g) ==
    /\ At(g, "result")
    /\ IF bb[g].outcome = "succeeded"
       THEN /\ completed' = [completed EXCEPT ![g] = @ + 1]
            /\ Goto(g, IF completed[g] + 1 < PoseCount[g]
                       THEN "start" ELSE "finalize")
       ELSE /\ Goto(g, "finalize")
            /\ UNCHANGED completed
    /\ UNCHANGED <<shared, dispatch, reports, status, bb, reached>>

\* finalize_goal reads the goal's state before it takes result_mutex_.
FinalizeRead(g) ==
    /\ At(g, "finalize")
    /\ bb' = [bb EXCEPT ![g].canceling = Canceling(g)]
    /\ Goto(g, "commit")
    /\ UNCHANGED <<shared, dispatch, reports, status, completed, reached>>

\* Mutant: the thread's own conclusion is reported, canceled or not.
FinalStatusOfThread(g) == bb[g].outcome

FinalStatus(g) == IF bb[g].canceling THEN "canceled" ELSE bb[g].outcome

\* A second finalization of the same UUID is ignored.
FinalizeCommit(g) ==
    /\ At(g, "commit")
    /\ finalized' = finalized \cup {g}
    /\ status' = IF g \in finalized THEN status
                 ELSE [status EXCEPT ![g] = FinalStatus(g)]
    /\ Goto(g, "release")
    /\ UNCHANGED <<lifecycle, orphans, deactivations, handle, dispatch,
                   reports, bb, completed, reached>>

\* clear_active_goal, and the thread ends.
ReleaseHandle(g) ==
    /\ At(g, "release")
    /\ handle' = [handle EXCEPT ![KindOf[g]] = IF @ = g THEN NoGoal ELSE @]
    /\ bb' = [bb EXCEPT ![g] = FreshBlackboard]
    /\ Goto(g, "done")
    /\ UNCHANGED <<lifecycle, orphans, deactivations, finalized, dispatch,
                   reports, status, completed, reached>>

-----------------------------------------------------------------------------
ClientRequest(g) == HandleGoal(g) \/ RefuseMalformedGoal(g) \/ HandleCancel(g)

Callback ==
    \/ HandleMotionStatus \/ HandleIdleStatus \/ HandleLocalPlanStatus

Lifecycle ==
    \/ OnConfigure \/ OnActivate \/ OnDeactivate \/ OnCleanup \/ OnShutdown

Delay(g) == SettleElapses(g) \/ DebounceElapses(g) \/ ReacquireWindowElapses(g)

Planning(g) ==
    \/ StartPose(g) \/ CheckReady(g) \/ WaitForPlannerService(g)
    \/ RequestGlobalPlan(g) \/ PublishMotionCommand(g)

Monitor(g) ==
    \/ CheckCancelRequested(g) \/ CheckGoalReached(g) \/ StopAndMark(g)
    \/ CheckRecoveryNeeded(g)

RecoveryCycle(g) ==
    \/ StartCycle(g) \/ WaitForRecoveryServices(g) \/ ClearLocalCostmap(g)
    \/ RequestLocalEscape(g) \/ ReplanForPlanner(g) \/ RequestRecoveryCommand(g)
    \/ AwaitRecoveryCommand(g) \/ CountAttempt(g) \/ ReplanAfterRecovery(g)

Completion(g) ==
    WaypointResult(g) \/ FinalizeRead(g) \/ FinalizeCommit(g) \/ ReleaseHandle(g)

GoalThread(g) ==
    \/ Planning(g) \/ Monitor(g) \/ RecoveryCycle(g) \/ Completion(g)
    \/ CallNullClient(g) \/ TickThrows(g)

Environment == Callback \/ Lifecycle \/ \E g \in Goals : ClientRequest(g)

Next ==
    /\ lifecycle # "crashed"
    /\ \/ Environment
       \/ \E g \in Goals : Delay(g) \/ GoalThread(g)

Spec == Init /\ [][Next]_vars

\* The operating system runs every goal thread that can take a step; every
\* blocking call in it has a timeout.  Nothing is assumed of clients, topics,
\* TF or operators.
FairSpec == Spec /\ \A g \in Goals : WF_vars(GoalThread(g))

-----------------------------------------------------------------------------
(* Properties                                                              *)

Reports == [id : Nat, kind : {"idle", "tracking", "other", "trouble", "done"}]
PlanStatuses == [id : Nat, kind : AllPlanReports]
Behaviors == {"none", "wait", "backup", "spin"}
Outcomes == {"running", "succeeded", "canceled", "aborted"}
Statuses == {"unknown", "rejected", "executing", "canceling",
             "succeeded", "canceled", "aborted"}
Terminal == {"succeeded", "canceled", "aborted"}
Commands == [id : Nat, mode : Modes, goal : Goals]

Blackboards ==
    [active : Nat, outcome : Outcomes, attempts : Nat, settled : BOOLEAN,
     since : {"zero", "running", "elapsed"}, window : {"off", "open", "expired"},
     escaped : BOOLEAN, snap : PlanStatuses, behavior : Behaviors,
     awaited : Nat, canceling : BOOLEAN]

\* Every variable stays in its type.
TypeOK ==
    /\ lifecycle \in Lifecycles
    /\ orphans \subseteq Goals
    /\ deactivations \in Nat
    /\ status \in [Goals -> Statuses]
    /\ handle \in [Kinds -> Goals \cup {NoGoal}]
    /\ finalized \subseteq Goals
    /\ nextId \in Nat \ {0}
    /\ recent \in Seq(Commands)
    /\ motionStatus \in Reports
    /\ planStatus \in PlanStatuses
    /\ latch \in Nat
    /\ pc \in [Goals -> Steps]
    /\ bb \in [Goals -> Blackboards]
    /\ completed \in [Goals -> Nat]
    /\ reached \in [Goals -> Nat]

Last == recent[1]

InFlight == {g \in Goals : status[g] \in {"executing", "canceling"}}

\* A waypoint is counted, and a goal succeeds, only when the controller
\* reported the end of the navigate command of every one of its waypoints:
\* the terminal latch never carries the end of a stop, of a recovery command,
\* of an earlier waypoint or of another goal over to the active command.
SuccessIsEarned ==
    \A g \in Goals :
        /\ completed[g] <= reached[g]
        /\ status[g] = "succeeded" => reached[g] = PoseCount[g]

\* Once a client holds a terminal result, the last command on the topic is
\* not a navigate command of that goal: whichever path the thread left by,
\* publish_stop_command came after the last dispatch.
TerminalGoalIsStopped ==
    \A g \in Goals :
        status[g] \in Terminal /\ recent # <<>> =>
            ~(Last.mode = "navigate" /\ Last.goal = g)

\* The active handles know every goal that is executing, so the reject of
\* handle_goal keeps a second goal thread out.
ActiveGoalIsKnown == InFlight # {} => HasActiveGoal

\* At most one goal thread runs at any time, so the command counter, the
\* latch and the topic have one writer.
OneGoalThread == \A g, h \in Goals : Live(g) /\ Live(h) => g = h

\* A cancel request accepted before finalize_goal samples the goal's state is
\* reported as canceled, whatever the thread had concluded by then.
EarlyCancelWins ==
    \A g \in Goals :
        [](/\ status[g] = "canceling"
           /\ pc[g] # "commit"
           => [](status[g] \in {"canceling", "canceled"}))

\* No navigate command leaves a thread whose outcome is decided or whose
\* recovery attempts are spent.
NoDriveAfterConclusion ==
    [][\A g \in Goals :
         /\ recent' # recent
         /\ recent'[1].mode = "navigate"
         /\ recent'[1].goal = g
         => /\ bb[g].outcome = "running"
            /\ bb'[g].attempts < MaxRetries]_vars

\* A canceled goal ends: every wait of the thread polls the cancel request or
\* times out, in the planning, monitoring and recovery phases alike.
CancelEnds ==
    \A g \in Goals :
        status[g] = "canceling" ~> (status[g] \in Terminal \/ lifecycle = "crashed")

\* The navigator is a NavigateAction server for both of its actions at once.
Contract == INSTANCE NavigateAction
ContractSafety == Contract!Safety
=============================================================================
