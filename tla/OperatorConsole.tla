---------------------------- MODULE OperatorConsole ----------------------------
(***************************************************************************)
(* The operator's window (amr_visualization): the schedule of waypoints,   *)
(* the buttons that send and cancel it, and the joystick.                  *)
(*                                                                         *)
(* The window lives in the GUI thread, where every click, key and queued   *)
(* signal is one step.  What the ROS thread hears, and what the joystick   *)
(* asks the worker to publish, are queued connections: events that wait in *)
(* one queue of this thread, in order, while the operator may click in     *)
(* between.  Drawing, camera and labels are left out.                      *)
(***************************************************************************)
EXTENDS Integers, Sequences, SequencesExt

CONSTANTS
    Spots,        \* where the operator may click
    NoPose,        \* an invalid pose
    MaxWaypoints,  \* bound: waypoints in the schedule
    MaxQueue,      \* bound: signals that wait for the GUI thread
    MaxSent        \* bound: goals sent and not answered

ASSUME ConsoleAssumption ==
    /\ NoPose \notin Spots
    /\ {MaxWaypoints, MaxQueue, MaxSent} \subseteq Nat

VARIABLES
    waypoints,   \* waypoints_ of the scene
    selected,    \* selected_waypoint_index_, counted from 1, 0 if none
    aim,         \* aim_pose_, NoPose while it is invalid
    heading,     \* setting_aim_heading_: the button is held on the scene
    adding,      \* the add button is checked, which is add_waypoint_mode_
    locked,      \* waypoint_editing_locked_
    panel,       \* the manual panel: "shown", "hiding" or "hidden"
    dragging,    \* dragging_ of the joystick, and its publish timer
    velocity,    \* whether the last velocity published was not zero
    signals,     \* the signals that wait for the GUI thread
    sent,        \* how many goals were sent and not answered
    running,     \* a goal of the window runs in the navigator
    driving,     \* the controller executes its command
    stopping,    \* a cancel request is on its way
    open         \* the window exists

schedule == <<waypoints, selected, aim, heading>>
joystick == <<dragging, velocity>>
navigator == <<sent, running, driving, stopping>>
consoleVars == <<schedule, adding, locked, panel, joystick, signals, navigator, open>>

\* A velocity for the worker to publish: commandRequested with the stick off
\* its center, or commandRequested with zeros and stopRequested.
Velocities == {"move", "halt"}

Signals ==
    Velocities \cup {"running", "not_running", "succeeded", "failed", "summary_idle"}

ConsoleInit ==
    /\ waypoints = <<>>
    /\ selected = 0
    /\ aim = NoPose
    /\ heading = FALSE
    /\ adding = FALSE
    /\ locked = FALSE
    /\ panel = "shown"
    /\ dragging = FALSE
    /\ velocity = FALSE
    /\ signals = <<>>
    /\ sent = 0
    /\ running = FALSE
    /\ driving = FALSE
    /\ stopping = FALSE
    /\ open = TRUE

-----------------------------------------------------------------------------
(* The schedule.                                                           *)

\* emitWaypointState; the list that shows the schedule is refilled with its
\* signals off, so that it selects nothing by itself.
Schedule(points, index) ==
    /\ waypoints' = points
    /\ selected' = index

\* setWaypointEditingLocked.
SetLocked(lock) ==
    /\ locked' = lock
    /\ adding' = (adding /\ ~lock)

ToggleAdding ==
    /\ open /\ panel # "hidden" /\ ~locked
    /\ adding' = ~adding
    /\ UNCHANGED <<schedule, locked, panel, joystick, signals, navigator, open>>

\* waypointAt: the topmost waypoint of the place, 0 if there is none.
WaypointAt(place) == Max({0} \cup {i \in DOMAIN waypoints : waypoints[i] = place})

\* mousePressEvent with the left button: a waypoint under it is selected.
PressScene(place) ==
    /\ open /\ adding /\ ~heading
    /\ IF WaypointAt(place) = 0
       THEN /\ aim' = place
            /\ heading' = TRUE
            /\ UNCHANGED <<waypoints, selected>>
       ELSE /\ Schedule(waypoints, WaypointAt(place))
            /\ UNCHANGED <<aim, heading>>
    /\ UNCHANGED <<adding, locked, panel, joystick, signals, navigator, open>>

\* Mutant: a release adds the aim whatever became of the add mode.
ReleaseSceneAlways ==
    /\ open /\ heading
    /\ heading' = FALSE
    /\ Len(waypoints) < MaxWaypoints
    /\ IF aim # NoPose
       THEN /\ Schedule(Append(waypoints, aim), Len(waypoints) + 1)
            /\ aim' = NoPose
       ELSE UNCHANGED <<waypoints, selected, aim>>
    /\ UNCHANGED <<adding, locked, panel, joystick, signals, navigator, open>>

\* mouseReleaseEvent.
ReleaseScene ==
    /\ open /\ heading
    /\ heading' = FALSE
    /\ Len(waypoints) < MaxWaypoints
    /\ IF adding /\ aim # NoPose
       THEN /\ Schedule(Append(waypoints, aim), Len(waypoints) + 1)
            /\ aim' = NoPose
       ELSE UNCHANGED <<waypoints, selected, aim>>
    /\ UNCHANGED <<adding, locked, panel, joystick, signals, navigator, open>>

\* The waypoint button of the chat panel: addAimAsWaypoint.
AddAimAsWaypoint ==
    /\ open /\ panel # "shown" /\ ~locked
    /\ aim # NoPose
    /\ Len(waypoints) < MaxWaypoints
    /\ Schedule(Append(waypoints, aim), Len(waypoints) + 1)
    /\ aim' = NoPose
    /\ UNCHANGED <<heading, adding, locked, panel, joystick, signals, navigator, open>>

\* removeSelectedWaypoint, which is not locked.
RemoveSelectedWaypoint ==
    /\ open /\ selected \in DOMAIN waypoints
    /\ LET rest == RemoveAt(waypoints, selected)
       IN  Schedule(rest, IF selected > Len(rest) THEN Len(rest) ELSE selected)
    /\ aim' = NoPose
    /\ UNCHANGED <<heading, adding, locked, panel, joystick, signals, navigator, open>>

\* moveSelectedWaypointUp with -1, moveSelectedWaypointDown with 1.
MoveSelectedWaypoint(by) ==
    /\ open /\ {selected, selected + by} \subseteq DOMAIN waypoints
    /\ Schedule([waypoints EXCEPT ![selected] = waypoints[selected + by],
                                  ![selected + by] = waypoints[selected]],
                selected + by)
    /\ UNCHANGED <<aim, heading, adding, locked, panel, joystick, signals, navigator, open>>

\* A click into the list: currentRowChanged, selectWaypoint.
SelectWaypoint(index) ==
    /\ open /\ index \in DOMAIN waypoints
    /\ Schedule(waypoints, index)
    /\ UNCHANGED <<aim, heading, adding, locked, panel, joystick, signals, navigator, open>>

\* clearSchedule.
EmptySchedule ==
    /\ Schedule(<<>>, 0)
    /\ aim' = NoPose

ClearSchedule ==
    /\ open
    /\ EmptySchedule
    /\ UNCHANGED <<heading, adding, locked, panel, joystick, signals, navigator, open>>

-----------------------------------------------------------------------------
(* Goals.                                                                  *)

\* sendSingleGoal, sendUnknownGoal: dropped when the pose is invalid or no
\* action server is ready.
SendSingleGoal(pose) == sent' = sent \/ (pose # NoPose /\ sent' = sent + 1)

\* sendRoute: dropped when the action server is not ready.
SendRoute == sent' \in {sent, sent + 1}

\* sendGoal: the schedule, or the aim when it is empty.
SendGoal ==
    /\ open /\ sent < MaxSent
    /\ adding' = FALSE
    /\ CASE Len(waypoints) = 0 -> SendSingleGoal(aim)
         [] Len(waypoints) = 1 -> SendSingleGoal(waypoints[1])
         [] OTHER -> SendRoute
    /\ UNCHANGED <<schedule, locked, panel, joystick, signals, running, driving,
                   stopping, open>>

\* cancelNavigation: all goals of the three clients.
CancelNavigation ==
    /\ open
    /\ stopping' = TRUE
    /\ SetLocked(FALSE)
    /\ UNCHANGED <<schedule, panel, joystick, signals, sent, running, driving, open>>

Emit(signal) ==
    /\ Len(signals) < MaxQueue
    /\ signals' = Append(signals, signal)

\* The action server rejects a goal while it runs another.
GoalResponse ==
    /\ open /\ sent > 0
    /\ sent' = sent - 1
    /\ \/ running' = TRUE
       \/ running' = running
    /\ UNCHANGED <<schedule, adding, locked, panel, joystick, signals, driving,
                   stopping, open>>

\* A cancel request ends what runs when it comes, and nothing sent later.
CancelArrives ==
    /\ open /\ stopping
    /\ stopping' = FALSE
    /\ running' = FALSE
    /\ IF running THEN Emit("failed") ELSE UNCHANGED signals
    /\ UNCHANGED <<schedule, adding, locked, panel, joystick, sent, driving, open>>

\* result_callback: goalStateChanged and navigationCompleted.
GoalResult(outcome) ==
    /\ open /\ running
    /\ running' = FALSE
    /\ Emit(outcome)
    /\ UNCHANGED <<schedule, adding, locked, panel, joystick, sent, driving,
                   stopping, open>>

\* The controller starts after the navigator, and stops after it.
ControllerFollows ==
    /\ open /\ driving # running
    /\ driving' = running
    /\ UNCHANGED <<schedule, adding, locked, panel, joystick, signals, sent,
                   running, stopping, open>>

\* A motion status says that the robot drives, or that it is blocked, stalled
\* or done.
HearMotionStatus ==
    /\ open
    /\ \/ driving /\ Emit("running")
       \/ Emit("not_running")
    /\ UNCHANGED <<schedule, adding, locked, panel, joystick, navigator, open>>

\* The summary says idle when no goal runs; its action status, a number, never
\* parses as the text that is looked for.
HearRuntimeSummary ==
    /\ open /\ ~running
    /\ Emit("summary_idle")
    /\ UNCHANGED <<schedule, adding, locked, panel, joystick, navigator, open>>

\* Mutant: a motion status locks the schedule and never gives it back.
UpdateMotionStatusLocking(signal) ==
    IF signal = "running" THEN SetLocked(TRUE) ELSE UNCHANGED <<locked, adding>>

\* updateMotionStatus.
UpdateMotionStatus(signal) == SetLocked(signal = "running")

\* updateRuntimeSummary with an idle runtime state.
UpdateRuntimeSummary ==
    /\ SetLocked(FALSE)
    /\ UNCHANGED <<waypoints, selected, aim>>

\* What navigationCompleted is connected to.
NavigationCompleted(succeeded) ==
    /\ SetLocked(FALSE)
    /\ IF succeeded THEN EmptySchedule ELSE UNCHANGED <<waypoints, selected, aim>>

\* publishVelocityCommand: zero, or the speeds of the stick within the limits.
PublishVelocityCommand(moving) == velocity' = moving

ProcessSignal ==
    /\ open /\ signals # <<>>
    /\ signals' = Tail(signals)
    /\ IF Head(signals) \in Velocities
       THEN /\ PublishVelocityCommand(Head(signals) = "move")
            /\ UNCHANGED <<waypoints, selected, aim, locked, adding>>
       ELSE /\ CASE Head(signals) \in {"running", "not_running"} ->
                       /\ UpdateMotionStatus(Head(signals))
                       /\ UNCHANGED <<waypoints, selected, aim>>
                 [] Head(signals) = "summary_idle" -> UpdateRuntimeSummary
                 [] OTHER -> NavigationCompleted(Head(signals) = "succeeded")
            /\ UNCHANGED velocity
    /\ UNCHANGED <<heading, panel, dragging, navigator, open>>

-----------------------------------------------------------------------------
(* The joystick.                                                           *)

\* commandRequested, with the speeds where the stick is.
RequestCommand(off) == Emit(IF off THEN "move" ELSE "halt")

\* Mutant: the stop is not queued, and is published before what waits.
ResetControlAtOnce ==
    /\ dragging' = FALSE
    /\ PublishVelocityCommand(FALSE)
    /\ UNCHANGED signals

\* resetControl, with stopRequested.
ResetControl ==
    /\ dragging' = FALSE
    /\ Emit("halt")
    /\ UNCHANGED velocity

\* mousePressEvent, publishCurrentCommand.
PressStick(off) ==
    /\ open /\ panel # "hidden" /\ ~dragging
    /\ dragging' = TRUE
    /\ RequestCommand(off)
    /\ UNCHANGED <<velocity, schedule, adding, locked, panel, navigator, open>>

\* publish_timer_: publishCurrentCommand, wherever mouseMoveEvent left the stick.
PublishCurrentCommand(off) ==
    /\ open /\ dragging
    /\ RequestCommand(off)
    /\ UNCHANGED <<dragging, velocity, schedule, adding, locked, panel, navigator, open>>

\* mouseReleaseEvent, leaveEvent, changeEvent.  A button released after the
\* pointer left the stick stops once more.
ReleaseStick ==
    /\ open
    /\ ResetControl
    /\ UNCHANGED <<schedule, adding, locked, panel, navigator, open>>

\* setControlMode: the panel stays there until the animation ended.
SetControlMode(ai) ==
    /\ open
    /\ panel' = IF ai THEN "hiding" ELSE "shown"
    /\ IF ai THEN ResetControl ELSE UNCHANGED <<joystick, signals>>
    /\ UNCHANGED <<schedule, adding, locked, navigator, open>>

AnimationFinished ==
    /\ open /\ panel = "hiding"
    /\ panel' = "hidden"
    /\ UNCHANGED <<schedule, adding, locked, joystick, signals, navigator, open>>

\* ~MainWindow, RosWorker::stop: a stop is published directly; whatever waits
\* in the queue, the joystick's own stop as well, is lost with the window.
Close ==
    /\ open
    /\ open' = FALSE
    /\ dragging' = FALSE
    /\ PublishVelocityCommand(FALSE)
    /\ signals' = <<>>
    /\ UNCHANGED <<schedule, adding, locked, panel, navigator>>

-----------------------------------------------------------------------------
ConsoleNext ==
    \/ \E place \in Spots : PressScene(place)
    \/ \E index \in 1 .. MaxWaypoints : SelectWaypoint(index)
    \/ \E by \in {-1, 1} : MoveSelectedWaypoint(by)
    \/ ToggleAdding \/ ReleaseScene \/ AddAimAsWaypoint
    \/ RemoveSelectedWaypoint \/ ClearSchedule
    \/ SendGoal \/ CancelNavigation
    \/ GoalResponse \/ CancelArrives
    \/ \E outcome \in {"succeeded", "failed"} : GoalResult(outcome)
    \/ ControllerFollows \/ HearMotionStatus \/ HearRuntimeSummary \/ ProcessSignal
    \/ \E off \in BOOLEAN : PressStick(off) \/ PublishCurrentCommand(off)
    \/ ReleaseStick
    \/ \E ai \in BOOLEAN : SetControlMode(ai)
    \/ AnimationFinished \/ Close

ConsoleSpec == ConsoleInit /\ [][ConsoleNext]_consoleVars

\* The controller runs its loop and publishes its status in every period, and
\* the GUI thread works its signals off.  The queue of the code has no bound: a
\* status that finds it full again and again here is posted there.
ConsoleFairSpec ==
    /\ ConsoleSpec
    /\ WF_consoleVars(ControllerFollows)
    /\ SF_consoleVars(HearMotionStatus)
    /\ WF_consoleVars(ProcessSignal)

-----------------------------------------------------------------------------
ConsoleTypeOK ==
    /\ waypoints \in Seq(Spots)
    /\ Len(waypoints) <= MaxWaypoints
    /\ selected \in 0 .. Len(waypoints)
    /\ aim \in Spots \cup {NoPose}
    /\ panel \in {"shown", "hiding", "hidden"}
    /\ heading \in BOOLEAN /\ adding \in BOOLEAN /\ locked \in BOOLEAN
    /\ dragging \in BOOLEAN /\ velocity \in BOOLEAN
    /\ sent \in 0 .. MaxSent /\ running \in BOOLEAN /\ driving \in BOOLEAN
    /\ stopping \in BOOLEAN /\ open \in BOOLEAN
    /\ signals \in Seq(Signals)
    /\ Len(signals) <= MaxQueue

\* Whoever lets go of the stick, by releasing it, leaving it or switching to
\* the chat, leaves a robot that was told to stop as soon as the commands that
\* wait are published: none of them is published behind the stop.  Closing the
\* window drops what waits, and has published a stop of its own.
ReleasedStickStops ==
    \/ ~dragging /\ \A i \in DOMAIN signals : signals[i] \notin Velocities
    \/ ~open
    => ~velocity

\* Editing that is locked adds no waypoint, not even one whose button was
\* pressed on the scene before the lock came.
LockedScheduleDoesNotGrow ==
    [][locked => Len(waypoints') <= Len(waypoints)]_consoleVars

\* When the route is over for good, the operator can add waypoints again,
\* though statuses of the drive are still on their way when it ends.
EditingComesBack ==
    <>[](~running /\ open) => <>[]~locked
=============================================================================
