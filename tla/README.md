# Verification of the AMR navigation stack

This directory holds a TLA+ development of `ros-amr-navigation`: models of the
components that decide what the robot does, TLC configurations that check them
on small instances, and proofs, checked by TLAPS, that their main properties
hold for every value of their parameters.

The code is the reference. Every definition that stands for code is listed under
`map` in `PROJECT.json` with the lines it was translated from.

- [The system](#the-system): inventory of components, state, interactions, hazards
- [The modules](#the-modules): what each module models and how it corresponds to the code
- [What is checked](#what-is-checked): runs, bounds, fairness, findings
- [What is proved](#what-is-proved): theorems, assumptions, the argument
- [What is not modelled](#what-is-not-modelled)
- [Plan](#plan)

## The system

A robot runs SLAM and its drivers elsewhere; this stack consumes `/map`, `/scan`
and TF and turns navigation goals into `/cmd_vel`.

```
 client -- NavigateToPose(s) --> BtNavigator -- /motion_command --> LocalPlanner, MotionController
                                   |   ^  ^                             |              |
                  /plan_segment ---+   |  +---- /local_plan_status -----+  /local_plan |
                 /plan_recovery ---+   +------- /motion_status ----------------<-------+--> /cmd_vel
            /plan_local_escape ----+
               /clear_costmap -----+      LifecycleManager: configure/activate of all of them
```

### Components

| component | state it keeps | operations | hard behaviour | what makes it correct |
|---|---|---|---|---|
| **BtNavigator** (`amr_bt_navigator`) | active goal handles of two action servers, finalized goal ids, command counter, latest statuses, terminal latch; per goal a behaviour tree with its blackboard | goal, cancel and accepted handlers; a detached thread per goal: plan, dispatch, monitor, recover, finalize; topic callbacks; lifecycle | callbacks against goal threads; cancel at any point of a blocking cycle; statuses that belong to earlier commands; lifecycle transitions under a running goal; retries | one goal thread; success only for commands that were reported done; every end leaves a stop behind; a cancel is reported as canceled and ends the goal |
| **MotionController** (`amr_controller_server`) | current command and local plan, goal-checker latch and holds, settle time, blocked and stalled streaks, progress and recovery references, last velocity | command and plan handlers, control timer (four kinds of tick), lifecycle | streaks that outlive what they counted; ticks late or without TF; the safety gate against settle times and alignment phases; a completion that is published exactly once | blocked and stalled are confirmed; a closed gate stops the robot; a completed command never moves it again; recoveries end |
| **LocalPlanner** (`amr_controller_server`) | current command, dynamic-obstacle decision and its streaks, maps, last plan | planning cycle by timer and by command, map/plan/escape handlers, lifecycle | counters over interleaved verdicts with different confirmation counts; guards that rewrite a verdict after it was counted | a recovery is required only for this command's own confirmed blockage; a lasting blockage is reported |
| **ControllerServer** (`amr_controller_server`) | none; runs the two nodes above on one single-threaded executor | `spin` | `/local_plan` carries no command id | no plan is used for a command it was not made for |
| **RecoveryServer** (`amr_recovery_server`) | none | `/plan_recovery`: a command with a mode and a duration, or a refusal | unknown behaviours; a spin has no duration | every recovery command can end |
| **LifecycleManager** (`amr_lifecycle_manager`) | the bringup thread, `shutdown_requested_` | for every managed node in order: wait for its services, configure, activate, wait for each state; then the initial pose; a destructor that joins the thread | requests that time out are executed later; nodes and managers die and come back; a shutdown falls into a wait whose answers nobody takes any more | nodes come up in order; the pose comes last; a shutdown ends |
| **PlannerServer, A\*** (`amr_global_planner`) | the last global costmap; per request the legs planned so far; per search the open and closed cells with costs and parents | `/plan_segment`, `/plan_route`, costmap subscription, lifecycle | occupied ends are snapped, straight lines replace searches, headings decide what collides; penalties make the costs depend on the parent | a plan never collides; a refusal is true; every request is answered |
| **CostmapServer** (`amr_costmap_server`) | last map and scan, both costmaps, time of the last local publication | map, scan, `/clear_costmap`, publication at a limited rate, lifecycle | what was cleared may come back with the next map; what was rebuilt while inactive, or too soon after a publication, is not published | the published costmaps are those of the map; a clear holds until a scan; an obstacle in sight is shown |
| **FrontierNavigator** (`amr_frontier_navigator`) | active goal handle, handle of the delegated `NavigateToPose` goal, stop flag, latest map | goal, cancel and accepted handlers; a worker thread that stages the robot until the map knows the requested pose; overlay and feedback callbacks; lifecycle | cancel against a delegated goal that is being accepted; a delegated result that comes late or never; a join inside a lifecycle transition, and an exception before it | success only for the original pose; the node knows every delegated goal it may have to cancel; a cancel and a transition end although the navigator is silent |
| **RuntimeObservation** (`amr_runtime_observation`) | last message of five topics, best distance and its time, active escape command, previous snapshot | one handler per topic; a timer that publishes a summary and an event for every part that changed | no order between topics; two verdicts computed by two chains of conditions; ages and limits | the verdicts of a summary agree; a stall takes a whole window; the events also tell the parts they do not compare |
| **MqttServer** (`amr_mqtt_server`) | client and link, robot id and the one it is to become, the one delegated route (active flag, handle, request id) | poll the link and serve the command topics, delegate and cancel routes, answer, forward telemetry, change the robot id | everything published without a link is lost; results arrive under the id the node has by then; ids repeat or are empty; the robot id changes under a running route | answers are true of their own request; the route that drives is never forgotten; the bridge becomes free again |
| **McpServer** (`amr_mcp_server`) | topic snapshot | prompts to tool calls over HTTP | text processing, little state | — |
| **SpatialSegmenter** (`amr_spatial_segmenter`) | last map | connected components, distance map, classification | pure image analysis in floating point | components partition the free cells |
| **Visualization** (`amr_visualization`, `amr_rviz`) | waypoint schedule with selection and aim, editing lock, joystick, the queue of the GUI thread with signals of the ROS thread and velocities of the stick | clicks and buttons, send and cancel, drive by stick, statuses and results | statuses and results reach the window later than they happen, the stick's commands leave it later than they are given; the lock may come while a button is held | a stick let go stops the robot; a locked schedule does not grow; editing comes back |
| **Geometry, messages, launch** (`amr_geometry`, `amr_msgs`, `amr_bringup`, `amr_navigation`) | none | — | — | used by the models of their users |

### Interactions and hazards

Five properties of the interfaces make this system hard, and the hazards in
`PROJECT.json` are mostly of one of these kinds:

1. **Statuses are asynchronous and carry a command id.** The navigator judges a
   command by the latest `/motion_status` and `/local_plan_status`, which may
   belong to an earlier command, a stop or a recovery. Only ids tell them apart.
2. **Goal threads are detached.** They run next to the executor callbacks, sleep
   in service waits and debounces, and re-read shared state afterwards. A
   lifecycle transition or a cancel may fall between any two of their steps.
3. **Judgements are counted.** Blocked, stalled and dynamic-obstacle verdicts
   must be confirmed over several cycles, and the counters live in a different
   place from the commands they are counted for. Each reset that is forgotten,
   or made too often, is a spurious recovery or a robot that does not stop.
4. **Single messages matter.** A completion is published in one tick and a
   velocity is held until the next one.
5. **Topics keep no order between each other.** The observer, the operator's
   window and the MQTT bridge hear of one goal on several channels, and combine
   the last message of each.

## The modules

| module | models | extends |
|---|---|---|
| `NavigateAction` | abstract: what a client of the two actions is promised | |
| `BtNavigator` | `amr_bt_navigator`: action servers, goal threads, behaviour tree, recovery policy, topics, lifecycle | instantiates `NavigateAction` |
| `MCBtNavigator` | instances for TLC | `BtNavigator` |
| `BtNavigatorProofs` | theorems on threads, handles and the contract; on commands, waypoints, stops and cancellations | `BtNavigator` |
| `MotionController`, `MCMotionController`, `MotionControllerProofs` | the motion controller, its instances, its theorems | |
| `LocalPlanner`, `MCLocalPlanner`, `LocalPlannerProofs` | the local planner, its instances, its theorems | |
| `FrontierNavigator`, `MCFrontierNavigator`, `FrontierNavigatorProofs` | `amr_frontier_navigator`: its action server, its worker, the goals it delegates, its lifecycle; its instances, its theorems | instantiates `NavigateAction` twice: for its own clients, and for the navigator it is a client of |
| `Bringup`, `MCBringup`, `BringupProofs` | `amr_lifecycle_manager` and the lifecycle of the nodes it manages; its instances, its theorems | |
| `AStar` | the search of `a_star.cpp` as a record with tests and steps, the footprint tests | |
| `GlobalPlanner`, `MCGlobalPlanner`, `GlobalPlannerProofs` | `planner_server.cpp`; its instances, its theorems | extends `AStar` |
| `CostmapServer`, `MCCostmapServer` | `amr_costmap_server` in a world with a robot and an obstacle; its instances | |
| `MqttServer`, `MCMqttServer`, `MqttServerProofs` | `amr_mqtt_server`, the link, the broker and the navigator as its neighbours; its instances, its theorems | instantiates `NavigateAction` for the navigator it is a client of |
| `RuntimeObservation`, `MCRuntimeObservation` | `amr_runtime_observation` and what it may hear; its instances | |
| `OperatorConsole`, `MCOperatorConsole` | the window of `amr_visualization` with its ROS thread; its instances | |
| `ViewProofs` | theorems on the three components that show the world and the drive to others | `CostmapServer`, `RuntimeObservation`, `OperatorConsole` |

`ViewProofs` extends three components at once, so the specifications of these three
have names of their own (`CostmapSpec`, `ObserverSpec`, `ConsoleSpec`, and so on)
where the other modules say `Spec`.

The models contain operators named `...Without...`, `...Keeping...`, `...Late`
and so on, marked *Mutant* in their comment. They are plausible mistakes in the
definition that follows them; nothing uses them in the specification. Each
property of a passing run is violated when one of them takes the place of the
definition (`mutants` in `PROJECT.json`), which shows that the property depends
on the code behaving as it does.

### BtNavigator

*State.* `status[g]` is the goal's state in its action server and `handle[k]` the
weak goal handle of the action `k`; `nextId`, `recent` and `latch` are
`next_command_id_`, the `/motion_command` topic (its last `StatusLag` messages)
and `last_terminal_command_id_`; `motionStatus` and `planStatus` are the two
latest statuses. `pc[g]` and `bb[g]` are the goal's thread and its blackboard.

*Steps of a goal thread.* The thread stops where the code blocks or reads
something another thread writes:

| `pc` | code (`bt_navigator.cpp`) |
|---|---|
| `start` | waypoint loop of `execute_goals`, first statements of `execute_goal_pose` |
| `ready`, `planner`, `plan`, `dispatch` | the nodes of the plan-and-dispatch tree |
| `cancel`, `goal`, `recovery` | one tick of the monitor tree: `CheckCancelRequested`, `CheckGoalReached`, `CheckRecoveryNeeded` |
| `stop` | `PublishStopCommand` followed by `MarkCanceled` or `MarkSucceeded` |
| `cycle` ... `freshplan` | `HandleRecoveryCycle`, one step per blocking call |
| `result` | what `execute`/`execute_goals` makes of one pose |
| `finalize`, `commit`, `release` | `finalize_goal` before and after `result_mutex_`, `clear_active_goal` |

*Data.* A status is an id and a kind: `tracking`, `other`, `trouble` (blocked or
stalled), `done`. A plan status is an id and a decision; the instances choose
which decisions a planner reports. Delays are actions of their own that may fire
at any time while the thread monitors. Every service call succeeds or fails. A
client that `on_cleanup` or `on_shutdown` reset is null, and a call through it
ends the process (`CallNullClient`).

*History.* `reached[g]` counts the waypoints whose own navigate command was
reported done while the thread was driving it; it is what `SuccessIsEarned`
compares the navigator's count with, and no action reads it.

### MotionController

*State.* Time is counted in control periods. A tick is taken every `lag ∈ Lags`
periods. `settling` is what is left of the settle time after a command,
`progress` and `recovery` are the ages of the two references, `holds` those of
the alignment and goal holds; each age stops at the limit it is compared with.
`blocked` is `blocked_latched_` with its streaks.

*The tick.* `publish_control` returns early without a command, a pose or a plan
(`WaitForInputs`), and otherwise does one of two things: track the path
(`Navigate`) or run a recovery (`Recover`). Both can complete the command
(`Complete`). The order inside `Navigate` is the code's: goal, gate, blocked
latch, progress, stall, velocity.

*Data.* The goal is `inside` the tolerance, within its hysteresis (`release`),
within `rotate_in_place_goal_distance` (`approach`) or `far`. `gate`, `moved` and
`steady` are what the scan, the odometry and the heading say in that tick; they
are unconstrained from tick to tick. Of the velocity the model keeps `hold`,
`drive` or `reverse`. Everything `publish_control` does to choose a steering
angle or to slow down is behind that.

*History.* `gateRun`, `trackRun` and `overdueRun` are runs of ticks of the
current command, `ended` the ids whose completion was published.

### LocalPlanner

A cycle is an observation and a guard. The observation is what `build_local_plan`
found: a plan that does not fit, the goal, a free path, or a collision near the
goal, near the robot or far away. The guard is what the degenerate-path checks
then do: keep the path, replace it by a fallback, drop it. `dynamic` is the
decision with its two streaks. `HandleMotionCommand` runs a cycle at once, as the
code does, and resets the streaks only for a new id.

`handle_map`, `handle_global_plan` and the costmap callbacks only change what a
later cycle observes, so they have no action of their own.

### FrontierNavigator

*State.* `status[g]` and `active` are a frontier goal in the action server and
`active_goal_handle_`. A *delegate* `<<g, i>>` is the `/navigate_to_pose` goal of
iteration `i`; `target`, `delegate` and `cancelSent` say where it was sent, what
the navigator made of it and whether the node asked to cancel it, `nested` is
`nested_goal_handle_`. `worker` is the execution thread with the locals it keeps
over a blocking call.

*Three concurrent sides.* The node's default callback group is mutually
exclusive: goal and cancel requests, the map and the lifecycle exclude one
another, so a transition that joins the worker (`Joined`) holds the group. The
worker and the reentrant client group run next to it.

*Transitions that fail.* `cancel_nested_goal` calls `async_cancel_goal` without a
`try`, which throws when the delegate's result has already arrived
(`CancelMayThrow`). The exception leaves `stop_and_join_execution` before the
join: the stop flag is raised, the worker runs on, and `rclcpp_lifecycle` takes
the node to finalized by its error path. `lifecycle = "failed"` is that state.

| `pc` | code (`frontier_navigator.cpp`) |
|---|---|
| `start`, `map`, `iterate` | `execute`: transform, `wait_for_map`, one pass of its loop |
| `server`, `sending`, `watch` | `navigate_to_pose`: wait for the server, for the acceptance, for the result |
| `withdraw` | `cancel_and_wait` |
| `expand` | `wait_for_original_goal_known` |
| `verdict`, `finalize`, `clear` | `is_canceling()`, `finalize_result`, `clear_active_goal` |

*Data.* The map may change between any two reads, so what a read finds (the
original pose is known, occupied or unknown, a staging pose exists) is a choice.
A delegate ends as the navigator likes, or never. An exception is the action
`Throw`. Overlays, statuses and feedback decide nothing and are left out; that a
feedback callback may be publishing when `on_cleanup` resets the publishers is one
of the outcomes of `CleanedUp` (`FeedbackMayRun`).

*History.* `lost` holds the delegates whose handle came too late or was dropped
by `on_cleanup`. The first of them is a goal that no one will cancel: the
acceptance that arrives after the send timeout is ignored.

### NavigateAction

The contract has one variable, the state of each goal. It says that one goal is
in flight over both actions, that a goal ends once, that `canceled` is only for
goals that were asked to cancel, and that such a goal ends. `BtNavigator`
implements its safety part (`ContractSafety`, with `status` for `status`), and
its liveness part is the property `CancelEnds`.

### Bringup

`pc` is where `run_bringup` is: before a node (`node`), waiting for its services
(`clients`), sending a transition (`send`), waiting for its answer (`answer`) and
for the state (`state`), pausing (`delay`), publishing the pose (`pose`). A
request and its answer are messages: a request that timed out is still in
`requests` and its node may execute it at any later time, also when another
manager runs. A node may be absent, start, refuse, die and start again; the
manager may be told to stop (`shutdown`), when its executor no longer spins and
no answer arrives, or be killed and started again (`life`). `crashed` is the
history of dead nodes, from which no order can be expected.

### AStar and GlobalPlanner

A grid says of each cell in which headings the footprint fits there (`any`, along
the `row`, along the `column`, `none`); `Collides` is the one test that the
search, the snap, the straight line and the diagonal rule all use, each with
its own heading as in the code. Costs are integers, `DiagonalCost` stands for
the square root of two; the heap is a set of which `Best` are the cells that may
come out, so ties are broken in every way.

The node is single-threaded: `phase` is `idle` between callbacks, and a request
goes through `plan` (per leg: costmap, bounds, snap, straight line or search),
`search` (one expansion a step), `trace` (one parent a step) and `respond`. The
response stays readable until the next callback.

### CostmapServer

The world is a strip of cells along which the robot looks, with one obstacle the
map does not know. The scan is the distance of its echo; it is placed from the
pose of the moment a costmap is rebuilt, as in `rebuild_local_costmap`. `shown`
holds the two last published costmaps, `due` whether the publication period has
passed (`Elapse`). Maps and clears are rarer than that period (`MaxUpdates`
counts them): each restarts it, and a stream of clears faster than the period
would hold back every scan, which is what the code does.

### MqttServer

One step is one callback of the node's only thread. `Poll` serves the next
command of the broker's queue or handles a lost link; `Handle` has the commands
that navigate, cancel, change the robot id, and those that leave nothing behind.
`awaiting` and `following` are the goal and result callbacks still to come.
`LinkLost`, the navigator's answers and the clients (`Ask`) run next to it. Everything
published without a link is gone (`PublishPayload`). The navigator is
`NavigateAction`: the bridge is a client of the contract that `BtNavigator` implements.

`answer` is the last message that was published on `navigation/result`: those about
navigation commands, and those to cancels, which go out there too, under the
cancel's own `request_id`. An id is what the client wrote: commands may share one,
or have none (`IdOf`, `NoId`). The history `about` says which goals a message is
about; an answer to a cancel is about the goals that drive the robot when it is
given, as far as their acceptance was handled. A cancel reaches the navigator in the
step that sends it.

### RuntimeObservation

The handlers keep the last message of each topic, the baseline of the distance
and the active escape command; `Snapshot` is `make_snapshot`, a chain of
operators named after the functions they translate. Time passes with the
publishing timer. What may be heard is what the stack can publish: statuses
follow the navigator's commands (`MayFollow`), but any topic may lag behind the
others. `told` is the picture somebody has who only follows the events.

A motion status has the raw safety gate (`gate`) and what holds the robot (`hold`)
apart, as the controller has: its `blocked` is a latch that is set after the gate
was confirmed and stays set while the clear cycles are counted. `Watched` is the
list that `publish_event_if_needed` compares; `Fields`, the part of the snapshot
that an instance keeps, has members of that list and others. `least` and `still`
are the history a stall is judged by: the least distance said since the command
was heard, and for how long nothing showed the robot closer.

### OperatorConsole

Each click, key or queued signal is a step of the window. `signals` is the event
queue of the GUI thread. The ROS thread posts statuses and results to it, and the
joystick its velocities: `commandRequested` and `stopRequested` are queued
connections, so a stop is published when its turn comes, behind the commands
before it. `velocity` is what was published last. Closing the window drops the
queue and publishes a stop of its own. `sent`, `running`, `driving` and `stopping`
are what the navigator and the controller do meanwhile; goals of other clients are
not modelled. `locked` is `waypoint_editing_locked_`, `heading` the state between
pressing and releasing the button on the scene, `dragging` the joystick.

## What is checked

### Runs

Twelve runs, all of which TLC finishes without an error. States are distinct
ones; each run takes between half a minute and three and a half minutes with two
workers.

| run | instance | states | properties |
|---|---|---|---|
| `BtNavigator_recovery` | a route of two poses; any decision of the planner, also ones the real one never makes; `MaxRetries` 2; statuses up to two commands late | 2,791,309 | `SuccessIsEarned`, `TerminalGoalIsStopped`, `NoDriveAfterConclusion` |
| `BtNavigator_contract` | a pose goal and a route compete; a deactivation; ticks may throw | 587,356 | `OneGoalThread`, `ContractSafety`, `EarlyCancelWins` |
| `BtNavigator_cancel` | a pose goal; recoveries with and without an escape, two of them in a row; exceptions, a shutdown under the thread; fair threads | 408,102 | `CancelEnds` |
| `MotionController` | three commands of any mode; ticks on time or one period late; a deactivation; cleanup | 76,820 | `BlockedIsEarned`, `StalledIsEarned`, `GateStopsTracking`, `CompletionIsFinal`, `BoundedRecoveryEnds` |
| `LocalPlanner` | two commands, delivered again at will; the confirmation counts of `amr.yaml`; a deactivation; cleanup | 32,757 | `RecoveryBelongsToCommand`, `ClearForgets`, `RecoveryKeepsPlan`, `BlockageIsReported` |
| `FrontierNavigator` | two goals, one of which may stage before its last leg; two transitions, cleanup and shutdown among them, which may fail before their join; exceptions; a fair worker, a navigator that may stay silent | 488,022 | `SuccessIsEarned`, `DelegateIsKnown`, `CanceledGoalWithdrew`, `OutOfUseIsQuiet`, `ContractSafety`, `CancelEnds`, `TransitionEnds` |
| `MqttServer` | two navigation commands, one without an id; cancels with either id; two robot ids, one change of them; the link fails at any time | 406,894 | `TruthfulAnswers`, `BridgeHoldsItsGoal`, `BridgeIsFreed` |
| `GlobalPlanner` | all costmaps of 3 x 3 cells with free ends, some with cells that are passable in one heading only; segments and routes | 19,700 | `PlanIsDrivable`, `NoPathIsTrue`, `RequestsAreAnswered` |
| `CostmapServer` | five cells, three maps, two places of the robot, an obstacle that comes and goes | 123,504 | `ShownMapIsCurrent`, `ClearHolds`, `ObstacleIsShown` |
| `RuntimeObservation` | two commands of two plans, a blockage near the goal, distances up to two units, the gate and its latch in every combination; the fields `route_active` and `runtime_state`, which events compare, and `local_recovery_required`, which they do not | 549,455 | `VerdictsAgree`, `StallTakesAWindow`, `EventsTellTheRest` |
| `OperatorConsole` | two places, two waypoints, two goals sent, two signals or velocities in the queue | 817,344 | `ReleasedStickStops`, `LockedScheduleDoesNotGrow`, `EditingComesBack` |
| `Bringup` | three nodes, two lives of the manager, two polls of a state | 857,332 | `StartedInOrder`, `ShutdownEnds` |

The type invariants of all modules are theorems and in no configuration; whoever
changes a module adds its type invariant to the configuration first.

What they show, beyond the names:

- *Success is earned.* A waypoint is counted only when the controller reported the
  end of that waypoint's own command. The end of a stop, of a recovery, of the
  waypoint before or of a goal before, arriving at any later time, is never taken
  for it. This rests on the id comparison in `CheckGoalReached` and on the latch
  being cleared by every dispatch.
- *A terminal goal is stopped.* Whatever path the thread takes, a client that
  holds a result finds no navigate command of that goal last on the topic.
- *Spent attempts dispatch nothing.* The attempt counter is tested in two places
  of the recovery cycle; no dispatch slips past both.
- *An early cancel wins*, even when the thread has concluded success or failure
  and has not yet entered `finalize_goal`'s critical section.
- *Blocked and stalled are earned.* `stalled_streak_` is not reset when the
  progress reference is renewed, so the claim is not obvious: it holds because a
  tick that finds a reference renewed in the tick before cannot be overdue as
  long as the executor is late by less than the allowance.
- *A gate stops a tracking robot* after the settle time and the confirmation, and
  nothing that arrives meanwhile restarts the settle time.
- *A lasting blockage is reported*, although the number of cycles it needs
  depends on the distance and changes between cycles.
- *A frontier goal succeeds at its own pose*: the end of a staging leg never
  passes for it, also when the map changes between the choice and the result.
- *No delegate drives unknown to the node*, except one whose acceptance came
  after the send timeout and one that a cleanup dropped. That the handle
  survives the timeout of `cancel_and_wait` is what makes this true.
- *Out of use is quiet*: when a transition has joined the worker, each delegate
  that may still drive was asked to cancel, although the transition and the
  worker both send cancels and either may run first. When a transition failed
  before its join, that is true as well, and the worker that runs on sends no other.
- *The stack starts in order* although a transition that timed out is executed
  late: the manager gives up then, and one that is started again starts at the
  first node. *A shutdown ends* because each wait has a timeout of its own.
- *Plans are drivable* along the straight line and along the search, which
  judge different headings and start from different poses (asked for, snapped).
  *No path is true* in spite of an inconsistent heuristic: closed cells are never
  reopened, which costs optimality, not completeness. *Requests are answered*:
  re-parenting an open cell never makes a ring of parents.
- *What is shown is current*: an activation publishes what was rebuilt before it.
  *A clear holds*, because it forgets the scan and not only the cells. *An
  obstacle is shown* because the period restarts with publications and not with
  scans.
- *Answers are true*: `result_callback` reads `current_request_id_` when it runs,
  and that is right because the next request is refused until it ran. A cancel is
  told that there is no goal only while none drives whose acceptance was handled.
- *The bridge is freed* when nothing can be published: the state is cleared first.
- *Verdicts agree*: on a route that is under way, `runtime_state` and
  `recovery_reason` agree on whether something is wrong, with one exception: a
  blocked latch that outlives its gate. *A stall takes a window*, also for
  statuses of the old command that are heard after the new one, and for a robot that
  creeps. *The events tell the rest*: what an event does not compare never changes
  alone while a route is active.
- *A stick let go stops the robot* once what waits in the queue is published: no
  way to let go leaves a velocity behind its stop.
- *Editing comes back*: the last status of a drive is one without a command,
  and it is heard last.

### Observations

Behaviour of the code that came up while modelling and that a reader of the
properties should know of. It is in the models; the properties do not claim the
opposite, and the conditions they carry say so.

*Navigator.* When the planner has no plan after a recovery, the monitor goes back
to a command that the recovery's stop made the controller drop: no status can
match its id again and the goal waits until it is canceled
(`ReplanAfterRecovery`). `on_cleanup` forgets the active handles while a goal
thread runs on, so a second goal is accepted next to it: `OneGoalThread` is for
nodes that are not cleaned up. A goal that ends after a deactivation cannot
publish its stop, and a tick that throws aborts the pose without one
(`TickThrows`): `TerminalGoalIsStopped` is for active nodes whose ticks do not
throw.

*Controller.* In the approach band of a final alignment the safety gate is not
counted (`BlockedCandidate`) and the robot drives on: `GateStopsTracking` is for
the rest of the path.

*Frontier navigator.* `async_cancel_goal` throws `UnknownGoalHandleError` for a goal
whose result has arrived. `cancel_and_wait` catches that
(`frontier_navigator.cpp:1204`), `cancel_nested_goal` does not (line 1313). A
deactivation, cleanup or shutdown that finds the handle of such a delegate fails,
and the node is finalized without a join of its worker; so it is also with no worker
at all, when `nested_cancel_timeout_ms` left the handle behind and the delegate
ended since. `OutOfUseIsQuiet` says what holds then. Overlays and feedback are
published after a test without a lock, so a stale one may be the last that is shown.

*Planner.* The leg before a waypoint that is occupied in its own heading ends at
the snapped cell, the next one may start at the waypoint itself, and the merged
path that is published jumps there: `planner_server.hpp:138` calls it "one
continuous global plan". A searched leg of a single cell is dropped altogether, so
that the jump can be of two snap radii (from one cell of that leg's surroundings to
another), and by `PublishedPathHolds` it is never more, however many legs are dropped.

*Bringup.* A manager that is started again while its nodes are active asks the
first of them to configure, is refused, and gives up: nodes behind one that
failed stay down. Both launch files switch the initial pose off.

*MQTT.* A cancel that is polled between a route's dispatch and its acceptance is
answered "no active navigate_to_poses goal" while the route goes on to drive, and
another navigate command is told in the same moment that one is active. Nothing
keeps a client from using a `request_id` twice or leaving it out, and the answers to
cancels and to commands share a topic: then a client cannot tell them apart. A latched endpoint counts as published
although the link was down. After a change of the robot id the telemetry goes on
under the old topics. Velocities are forwarded while a route drives.

*Observer.* An idle controller, or one that waits for a local plan, reports distance
0, so the baseline of a new route starts at 0 and progress counts only when one
status is a whole `progress_clear_delta_m` closer than the last one. While the
controller's blocked latch outlives its gate (`controller_server.cpp:4366`, 4381,
5806; three cycles in `amr.yaml:250`), the summary says `motion_blocked` as
its state and no reason for a recovery. `motion_stalled` and `controller_phase` may
change without an event. `is_route_active` ignores how
old the feedback is. A status of an earlier command heard late cancels the local
escape. A goal that the action server forgets leaves the status array, and the
observer keeps what it last said.

*Window.* Closing the window drops the stop of the stick with the queue; the one that
`RosWorker::stop` publishes takes its place. The success of any goal empties the schedule, also one edited since.
A cancel pressed right after sending misses the goal that is not accepted yet. A
`blocked` or `stalled` status unlocks editing on the way. `parse_runtime_summary`
reads `action_status` as text while the observer publishes a number.

### Bounds

| constant | value | why it is enough |
|---|---|---|
| `Goals` | one or two | a second goal is what the exclusion is about; a third is in the place of the second. The theorems cover any set |
| `PoseCount` | 1 and 2 | a route needs a first and a last pose: `align` and the result depend on which one it is |
| `MaxRetries` | 2 (4 in `amr.yaml`) | one attempt that is followed by another and one that is the last. Of the behavior, which depends on the attempt modulo 3, only a `wait` for a proximity is told apart from the rest; both occur |
| `MaxCommandId` | 5 for recoveries and cancels, 0 for the contract | stops the third recovery cycle of a pose, not the commands: dispatch, stop, recovery, redispatch and the next waypoint all fit. The contract is about accepts and ends, and its run has no recoveries |
| `StatusLag` | 2 | a status of the command before the last is the first that can be confused; older ones compare the same |
| `MaxDeactivations` | 1 for the contract, else 0 | two deactivations differ from one only by their number. No step of a goal thread waits for the node to be active, so a deactivation keeps no cancel from ending; a shutdown takes the same resources from the thread as a cleanup, which needs a deactivation before. The other two properties are for nodes that stay active. `CancelIsNear` is for any number |
| `SettleTicks`, `AllowanceTicks`, `Lags` | 2, 4, {1,2} | the order of the configured values: the settle time is shorter than the allowance, a lag is shorter than both |
| `BlockedConfirm`, `BlockedClear`, `StalledConfirm` | 3, 2, 2 | more than one cycle each and different from one another |
| confirmation counts of `LocalPlanner` | 3, 2, 5, 2 | those of `amr.yaml` |
| `MaxIterations` | 1 (8 in the code) | a staging leg and a last one; an iteration forgets the one before except for its delegate |
| `MaxTransitions` | 2 | a deactivation followed by a cleanup or a shutdown is the longest sequence out of use |
| goals of `FrontierNavigator`, `LimitOf` | two, one stages | a goal that finds another in flight, or the delegate it left behind; the theorems cover any set of goals and any limits |
| `N`, `MaxLives`, `MaxPolls` of `Bringup` | 3, 2, 2 | a first node, one between and a last; a manager and the one after it; a poll that is not the last |
| requests, robots, `MaxQueue`, `MaxSwitches` of `MqttServer` | 2, 2, 1, 1 | the request that is delegated and one that must not disturb it; the queue of a robot that is not served keeps one command |
| `Ids`, `IdOf` of `MqttServer` | one id, one request without | an id of its own and none at all; requests that share an id can be told apart less. The theorems are for any `IdOf` |
| `Width`, `Height` | 3, 3 | a middle, a way around it, corners to cut; the theorems are for every grid |
| `Size`, maps, places of `CostmapServer` | 5, 3, 2 | an open map, one with unknown cells, one with a wall next to the obstacle; places from which the window ends inside and outside the map |
| `MaxUpdates` | 3 | a map, a clear and another map, in every order with scans |
| `MaxDistance`, `ClearDelta`, `Epsilon`, `StallWindow` of `RuntimeObservation` | 2, 2, 0, 1 | at the goal, near it, away from it; a creep of less than the clear delta and a move of a whole one; an age that reaches its limit |
| `Fields` of `RuntimeObservation` | 3 | a field that events do not compare and the two compared ones that have to tell it; the theorem is for any fields among which these two are |
| `MaxWaypoints`, `MaxQueue`, `MaxSent` of `OperatorConsole` | 2, 2, 2 | an order to change; a status behind a result, a stop behind a velocity; a goal sent while one is not answered |

Counters in the state that only a property reads stop at the number it compares
them with, so they restrict no behaviour.

### Fairness

- `WF_vars(GoalThread(g))`: a goal thread that can take a step takes one. It is a
  `std::thread` of its own; every wait in it polls with a timeout. Nothing is
  assumed of clients, topics, TF or operators, so `CancelEnds` holds if all of
  them are silent.
- `WF_vars(RecoverTick)` and `WF_vars(Timer)`: timers of an active node fire
  again and TF does not fail at every tick. Without the second half no recovery
  command can end, since a tick without TF returns early. Commands and plans need
  no fairness.

- `WF_vars(Work)`: the worker of the frontier navigator runs on; each of its waits
  has a deadline, and where it ends is the choice of the step. Its progress
  messages and exceptions need no fairness. `WF_vars(FinishTransition)`: a callback
  that was entered returns. Nothing is assumed of the navigator, which may accept a delegate and never end it.
- `WF_vars(RunBringup)` and `WF_vars(Join)`: the bringup thread runs and its waits
  have timeouts. Nothing is assumed of the nodes.
- `WF_vars(Handler)` of the planner: a callback that was entered runs on.
- `WF_vars(HandleScan)` and `WF_vars(Elapse)` of the costmap server: the laser goes
  on and time passes.
- The bridge's action callbacks run (`GoalResponse`, `NavigationResult`), and the
  navigator keeps its contract: it answers a request and ends a canceled goal.
  Nothing is assumed of the link, of clients or of goals that are not canceled.
- The window serves its queue (`WF` on `ProcessSignal`), the ROS thread hears the
  controller (`HearMotionStatus`), which follows the navigator (`WF` on
  `ControllerFollows`: a command starts it and a stop stops it,
  `controller_server.cpp:3830`). `HearMotionStatus` is strongly fair because of the
  bound alone: the queue of the code takes every status, that of the model only
  between two others. `EditingComesBack` also rests on there being no goals but the
  window's own.

`CHECK_DEADLOCK FALSE` appears in the runs with shutdown: `finalized` is the end
of a node, and in `BtNavigator` and `FrontierNavigator` so is a crash. In the
others all requests have been made (`MqttServer`), all commands given and heard
(`RuntimeObservation`), the window is closed (`OperatorConsole`) or the last
manager has ended (`Bringup`). Only `CostmapServer` never stops.

## What is proved

All theorems hold for every value of the constants that satisfies the named
assumptions of the module, none of which limits the bounds above:
`GoalsAssumption` (a pose goal has one pose), `FrontierAssumption` (types), `ConfirmAssumption` (counts are at
least 1, as `std::max(1, ...)` makes them), `TimeAssumption` (the executor is
never late by as much as the progress allowance), `DurationsAssumption` (one of
the configured durations is longest), `StripAssumption` (there is a cell, and robot,
obstacles and maps are in the grid), `ObservationAssumption` (types, a stall window
that is not empty, decisions that are those `controller_server.cpp` names, and the two fields
the events rest on),
`BoundsAssumption`, `ParameterAssumption`, `ConsoleAssumption` (types).

### BtNavigatorProofs

| theorem | statement |
|---|---|
| `TypeCorrect` | `Spec => []TypeOK` |
| `SingleThread` | without cleanup and shutdown, `Spec => []OneGoalThread` |
| `GoalStaysKnown` | without cleanup and shutdown, `Spec => []ActiveGoalIsKnown` |
| `ImplementsContract` | without cleanup and shutdown, `Spec => ContractSafety`: the navigator implements `NavigateAction` |
| `CancelIsReported` | `Spec => EarlyCancelWins`, cleanup and shutdown included |

`TypeOK` alone is not inductive: `FinalizeCommit` writes `bb[g].outcome` into
`status[g]`, so it must be known that a thread past its monitor loop has decided
its outcome. `TypeInv` adds that. The exclusion needs more: the invariant `Inv`
adds `Progress`, which ties a goal's state to its thread's position (an accepted
goal has no result while its thread is before `release` and one from then on, it
is finalized exactly then, and a thread concludes `canceled` only for a goal that
was asked to cancel), and `Handles`, which ties the thread to the
active handle of its action and allows one handle at a time. Most of the thirty
actions touch neither; the lemmas about `QuietStep` show once that such a step
keeps the invariant, and what is left are the handlers of goals and cancels and
the four steps of the completion. The condition on cleanup and shutdown cannot be
dropped from the first three: `on_cleanup` forgets the handles of running goals.
`CancelIsReported` needs none of the handles, only `Progress`, which holds anyway.

On the route from command to command:

| theorem | statement |
|---|---|
| `SuccessEarned` | `Spec => []SuccessIsEarned`, cleanup, shutdown and exceptions included |
| `ConcludedThreadNeverDrives` | for `MaxRetries # 0`, `Spec => NoDriveAfterConclusion` |
| `FinishedGoalIsStopped` | while no tick throws and the node stays active, `Spec => []TerminalGoalIsStopped` |

A thread believes a report because its id is the active one, so the invariant
`RouteInv` says why it may: `Ids` (ids are drawn in order and whatever refers to a
command was drawn before), `Owned` (a command on the topic with a thread's active
id is that thread's own, and drives), `Judged` (a thread inside a waypoint has no
outcome yet and an attempt left) and `Waypoints` (a thread that sees its command
ended has had its waypoint reported; a thread that ends a route with success has
counted all of it). `Owned` is what a late status of an earlier command would
break if ids were reused: a redispatched command takes a new id *before* anybody
can report of it. The twenty steps inside a waypoint are handled once, as
`RouteStep`, which says that such a step builds no command, a stop, a recovery
command, or a navigate command that becomes the active one.
`FinishedGoalIsStopped` adds that only a monitored command drives; its conditions
cannot be dropped, as the observations below say: an exception leaves the
last command driving, and an inactive node publishes no stop. With
`MaxRetries = 0` the first dispatch would already break `NoDriveAfterConclusion`.

`CancelIsNear` is the safety half of `CancelEnds`: once a goal is asked to cancel,
`StepsLeft`, a number from 1 to 12 that its position gives, falls with every
step of its thread and rises with nobody's. A waypoint that was reported just
before takes the thread back to the head of its loop once (`result` with success
stands above `cycle`), and nothing else leads back.

### MotionControllerProofs

| theorem | statement |
|---|---|
| `TypeCorrect` | `Spec => []TypeOK` |
| `BlockedConfirmed` | `Spec => []BlockedIsEarned` |
| `StalledConfirmed` | `Spec => []StalledIsEarned` |
| `GateStops` | `Spec => []GateStopsTracking` |
| `CompletedOnce` | `Spec => []CompletionIsFinal` |
| `RecoveryGrowsOld` | while a timed recovery lasts, its age never falls and each `RecoverTick` raises it or ends the command |

The properties compare a published status with the ticks before it, so the
invariant has to tie each counter of the controller to those ticks:

- `IdsOld`: no id is larger than the last that arrived, so a new command's id
  differs from all that were completed or published.
- `GateTied`: the streak is at most the run of triggered ticks, and a latch is
  the trace of a run that was long enough.
- `TrackTied`: in the other direction, a run of triggered ticks outside an
  alignment first uses up the settle time and then grows the streak:
  `settling + trackRun <= SettleTicks` or `settling = 0`, and
  `trackRun <= SettleTicks + streak`.
- `StallTied`: the streak is at most the run of overdue ticks, *or* the progress
  reference is new, in which case the next tick cannot be overdue. This is where
  `TimeAssumption` is used.

`NavigateInv` proves that one tick keeps it; the other steps are easy.
`RecoveryGrowsOld` is the safety half of `BoundedRecoveryEnds`: the age is at most
the longest of the durations, so only so many ticks can serve one recovery.

### LocalPlannerProofs

| theorem | statement |
|---|---|
| `TypeCorrect` | `Spec => []TypeOK` |
| `RecoveryIsEarned` | `Spec => []RecoveryBelongsToCommand` |
| `RecoveryHasPlan` | `Spec => []RecoveryKeepsPlan` |
| `ClearIsConfirmed` | `Spec => []ClearForgets` |
| `BlockageIsCounted` | while a command lasts only a cycle touches the decision and the status; a blocked cycle that keeps its path requires the recovery of its command or lengthens the streak of its kind |

The invariant ties the streaks to the history in both directions: the blocked
streak never counts more than the cycles that found the pending blockage
(`StreakIsEarned`), the clear streak never less than the current run of clear
cycles (`ClearCounts`). `OutIsOld` keeps a status of an earlier command from
being taken for one of the current. `BlockageIsCounted` is what `BlockageIsReported`
rests on: no streak is above the largest of the confirmation counts, whichever of
them the distance of the moment asks for.

### FrontierNavigatorProofs

| theorem | statement |
|---|---|
| `TypeCorrect` | `Spec => []TypeOK` |
| `SuccessEarned` | `Spec => []SuccessIsEarned` |
| `CanceledWithdrew` | `Spec => []CanceledGoalWithdrew` |
| `DelegateKnown` | `Spec => []DelegateIsKnown` |
| `QuietOutOfUse` | `Spec => []OutOfUseIsQuiet` |
| `ImplementsContract` | `Spec => ContractSafety`, cleanup and shutdown included |
| `StopIsNear` | a worker that was told to stop stays told and has at most eight phases to leave, each once |

None of the properties is inductive, since each says something of the end of a
goal that is decided many steps earlier. The invariant follows a goal through its
worker, in parts that rest on one another: `Located` (the worker's locals),
`Service` (the active handle is the worker's goal, and that goal is in flight
exactly until `finalize_result`), `Sending` (which iterations have sent a
delegate, and to which pose), `Earning` (an outcome `succeeded` on its way to the
client is earned already), `Withdrawal` (the iterations before the current one
are over, and a worker that stops has withdrawn the current one), `Knowing`
(every delegate that was sent and has not ended is held, being sent or lost; the
handle is empty whenever a new delegate may be sent) and `Stopping` (from the
begin of a transition the handle is held uncanceled only while the wait for the
result has not yet looked at the flag; a transition that failed found an ended
delegate in the handle, so its worker is past sending). That the frontier navigator
joins its worker before it forgets anything, and forgets nothing when it fails to, is
what lets `ImplementsContract` hold with cleanup, where the theorem of `BtNavigator`
has to exclude it. `StopIsNear` is the safety half of
`CancelEnds` and `TransitionEnds`: `PhasesLeft` falls with every step of a worker that
was told to stop (`Told`), and neither a goal nor the next transition untells it.

### GlobalPlannerProofs

| theorem | statement |
|---|---|
| `PlansAreDrivable` | `Spec => []PlanIsDrivable` |
| `SearchIsComplete` | `Spec => []NoPathIsTrue` |
| `PathHasNoRing` | a path that is traced visits no cell twice |
| `SearchGoesOn` | an open set that is not empty has a best cell |
| `RequestsShrink` | each step of a handler lowers `StepsLeft`, a natural number |
| `OccupiedHolds` | a request turned down as occupied has an end with no free cell in its whole square |
| `PublishedPathHolds` | the published path runs along the legs of the response, with gaps of at most two snap radii, and only where two legs meet |
| `TypeCorrect` | `Spec => []TypeOK` |

The invariant says what a search knows at any time, whatever the costs are:
every opened cell but the start has a closed parent from which it can be entered,
and every cell that can be entered from a closed one was opened. When all that was
opened is closed, the closed cells are the enclosed set that `NoPathIsTrue` asks
for. While a path is traced, what is traced already is a drivable end of it. The
costs do not occur in the invariant: that the search does not depend on them is
the point.

The end of a request needs more (`EndInv`). Parents and costs of open cells are
lowered again and again, so that a walk along the parents ends is not obvious: the
order in which the cells were *closed* is a rank that falls from each closed cell
to its parent, and it does not change any more. From it follow `PathHasNoRing` and, as
the path is then no longer than the grid, `RequestsShrink`: a request of n
waypoints takes at most `n * LegBudget + 1` steps, where `LegBudget` is twice the
number of cells and two. `SearchGoesOn` says that such a step is there as long as
anything is open. Together they are `RequestsAreAnswered` without its fairness.

`PublishedPathHolds` follows `merge_paths` over any number of legs. A leg ends at
the cell its waypoint is snapped to or at the waypoint itself (`LegJoins`), the snap is
the same for the next leg (`SnapFindsOne`), and a leg that is dropped because it is a
single cell was that very cell; hence what the path ends with stays within one
radius of the current snap, and gaps do not add up. The recursive function in
`Merge` is shown to exist and to be what it seems (`MergeIs`). The library's
induction theorems cannot be used for that; every induction here is a least element
of a set of numbers (`WFMin`), packed into `UpTo`.

### BringupProofs

| theorem | statement |
|---|---|
| `StackStartsInOrder` | `Spec => []StartedInOrder` |
| `PoseFindsTheStackUp` | `Spec => []PoseComesLast` |
| `TypeCorrect` | `Spec => []TypeOK` |
| `ShutdownIsNear` | once shutdown is requested, each step of `run_bringup` lowers `StepsToDone`, which is at most 3, and nobody raises it |

The invariant follows the requests: one that is on its way, of whichever manager,
was sent when all nodes before its own were active, and these stay active unless
they crash; the thread is at a node only when those before it are up.
`ShutdownIsNear` is the safety half of `ShutdownEnds`: a manager that is told to stop
may still send a request, whose answer times out, and that is all.

### MqttServerProofs

| theorem | statement |
|---|---|
| `TypeCorrect` | `Spec => []TypeOK` |
| `AnswersAreTruthful` | `Spec => []TruthfulAnswers` |
| `GoalIsHeld` | `Spec => []BridgeHoldsItsGoal` |
| `FreedomIsNear` | while the bridge holds a navigation on its way out, what it waits for (`AnswersLeft`) only shrinks |

Three facts carry each other. `QueueInv`: a request waits at one place of one
queue and has left no trace in the node while it does, so what is said of a
request that was turned away stays true. `Bridge`: the node awaits or follows the
goal of the request it holds and no other, which is why `result_callback` may
publish under `current_request_id_`. `AnswerInv`: goals move one way, so an
answer that was true remains so. None of them assumes that ids differ: a request is
known by its goal, and its id is only what it carries. The link occurs in none of them
either: whatever it loses, only the delivery of an answer depends on it. `FreedomIsNear`
is the safety half of `BridgeIsFreed`.

### ViewProofs

| theorem | statement |
|---|---|
| `CostmapTypeCorrect` | `CostmapSpec => []CostmapTypeOK` |
| `ShownFitsTheMap` | `CostmapSpec => []ShownMapIsCurrent` |
| `ClearedStaysClear` | `CostmapSpec => []ClearHolds` |
| `SightIsMarked` | a scan that is due and has the obstacle in plain sight leaves it marked in what is shown: the safety half of `ObstacleIsShown` |
| `ObserverTypeCorrect` | `ObserverSpec => []ObserverTypeOK` |
| `OneVerdict` | `ObserverSpec => []VerdictsAgree` |
| `StallIsEarned` | `ObserverSpec => []StallTakesAWindow` |
| `EventsSuffice` | `ObserverSpec => []EventsTellTheRest` |
| `ConsoleTypeCorrect` | `ConsoleSpec => []ConsoleTypeOK` |
| `StickLetGoStops` | `ConsoleSpec => []ReleasedStickStops` |
| `LockHolds` | `ConsoleSpec => LockedScheduleDoesNotGrow` |
| `EditingIsNear` | while no route runs: the controller only stops, no status of the drive is sent then, each signal that is served brings the last of them nearer, the first behind them that is no velocity unlocks, and nothing locks again: the safety half of `EditingComesBack` |

*Costmap server.* What is shown may be older than what was built, so `CostmapInv`
says of both that they show the map: `Built` of the costmaps of the node, which
change with every map and scan whether or not anything is published, and
`ShownMapIsCurrent` of those published. An activation publishes what was built;
that is the only reason why the second follows. `Forgotten` carries a clear: there
is no scan from then on, so nothing that is rebuilt can mark a cell.
`SightIsMarked` computes one scan: its echo lies where the obstacle is, the window
reaches it, and neither the static clearance nor the unknown cells hide it.

*Observer.* `VerdictsAgree` needs no history: it follows from what the topics can
say at all (`MotionShape`, `PlanShape`), for instance that only a navigate command
is ever in trouble. `StallTakesAWindow` compares two ages that different messages
reset; `Ages` says that the best distance is never below all that was said, so
whatever comes closer than that, or by a whole clear delta, renews both, and the age
of the best is never the larger one. `EventsTellTheRest` holds because of what the
compared fields give away of the others while a route is active
(`SnapshotGivesAway`): that the goal is reached and that the planner asks for a
recovery show in `runtime_state`, that the controller executes one in
`recovery_phase`. `Summarised` carries that from one summary to the next.

*Window.* `LockEndsAdding` says that a locked window is not in the mode that adds
waypoints; without it the release of a button pressed before the lock would add
one. `StickLetGoStops` rests on the order of the queue (`StopIsLast`): while the stick
is not held, each velocity that waits has a stop behind it, and a robot that was told
to move has one waiting. Serving the queue, adding to it and clicking in between keep
that, and an open window without velocities in its queue has published the stop.

### Only model-checked

Every invariant and every action property of the runs is also a theorem. Liveness
depends on fairness and ENABLED, which the prover does not handle, so the leads-to
itself stays with TLC. What a theorem can say of it, and says for all values of the
constants, is that each step counts and nobody takes it back:

| checked by TLC | proved of it | what is left to TLC |
|---|---|---|
| `CancelEnds` (`BtNavigator`) | `CancelIsNear` | that a thread whose goal was canceled always has a step to take |
| `BoundedRecoveryEnds` | `RecoveryGrowsOld` | that `RecoverTick` comes again |
| `BlockageIsReported` | `BlockageIsCounted` | that cycles go on and find the blockage again |
| `CancelEnds`, `TransitionEnds` (`FrontierNavigator`) | `StopIsNear` | that the worker, told to stop, always has a step to take |
| `BridgeIsFreed` | `FreedomIsNear` | that the callbacks run and the navigator ends its goal |
| `RequestsAreAnswered` | `RequestsShrink`, `SearchGoesOn` | that outside the search one of the cases always applies |
| `ObstacleIsShown` | `SightIsMarked` | that scans and time go on |
| `EditingComesBack` | `EditingIsNear` | that the controller follows, is heard, and the queue is served |
| `ShutdownEnds` | `ShutdownIsNear` | that each wait of `run_bringup` times out |

## What is not modelled

- *Geometry*: polygons, tracking targets, steering, speed regulation, the rejoin
  context, sampling distances below a cell. The models take their verdicts as
  inputs; the planner and the costmap server work on cells.
- *The composition of the controller's two nodes, and of the navigator with the
  controller*: each model leaves the other side's messages free, so its
  properties hold against any partner, but end-to-end claims (the plan that is
  tracked is the command's own; a completion is polled before it is
  overwritten) are not made.
- `SpatialSegmenter`: floating-point scores over one map with tuned thresholds, of
  which nothing is promised that a small instance could decide.
- `McpServer`: prompts, HTTP and text; its only effect on the stack is through the
  interfaces modelled with `MqttServer` and `OperatorConsole`.
- *Time in the navigator*: a debounce, a settle time or a timeout may elapse at
  any moment. This admits more behaviours than a clock would; what a longer
  timeout would prevent cannot be shown with it.
- *Real concurrency of memory*: the navigator's shared fields are guarded by
  mutexes in the code, and a step of the model is one critical section or one
  read of an atomic. The active handles are read and written under
  `active_goal_mutex_`, the finalized ids under `result_mutex_`, but
  `on_cleanup` and `on_shutdown` reset the handles under another mutex than
  `clear_active_goal`: that data race may crash the model (`HandleRace`).
- *Lost commands*: the command topic is reliable and both ends run in one system;
  the controller may miss commands (ids may skip), the navigator does not know.
- *Logging, parameters, message layout*, and the `status_message` texts.
- The components without a module are listed in `PROJECT.json` with the reason.

## Plan

What a continuation would add, in this order.

1. **ControllerServer** (composition): `LocalPlanner` and `MotionController` over
   `/local_plan` and `/motion_command` on one executor. To show: for how long a
   plan made for the previous command can be tracked for the new one, and what the
   robot does with an empty plan.
2. **NavigationStack** (composition): `BtNavigator` with the controller's status
   stream. To show: when a recovery that succeeded counts as failed because its
   completion was overwritten between two polls; that a stop always reaches a
   robot that was told to drive.
3. The map layers and the chat of the window, whose request stays pending when its
   client is replaced.
4. Connected components and the distance map of **SpatialSegmenter** against
   reference definitions, if something comes to rely on them.
5. Proofs: the two compositions above, once they exist, from the theorems of their
   parts. Of the modules that exist, what is left to TLC is out of the prover's
   reach (see "Only model-checked").

## Running it

```
tlc -config BtNavigator_recovery.cfg MCBtNavigator.tla
tlc -config CostmapServer.cfg MCCostmapServer.tla
tlapm BtNavigatorProofs.tla
```

and likewise for the other runs and proof modules.
