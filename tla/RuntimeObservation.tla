--------------------------- MODULE RuntimeObservation ---------------------------
(***************************************************************************)
(* The runtime observer (amr_runtime_observation).                         *)
(*                                                                         *)
(* A single-threaded node that hears five topics of the navigation stack   *)
(* and, on a timer, publishes a summary of the route and an event for      *)
(* every part of it that changed.  The topics keep no order between each   *)
(* other: a command may be heard before or after the statuses of the one   *)
(* it replaces.  Each topic alone is reliable and in order.                *)
(*                                                                         *)
(* Time passes with the publish timer.  The counters that are copied from  *)
(* the feedback (goal index, goal count, recoveries) and the texts are     *)
(* left out.                                                               *)
(***************************************************************************)
EXTENDS Integers, Sequences

CONSTANTS
    Goals,           \* goals of /navigate_to_poses that are ever heard of
    Plans,           \* sequences of [mode, align]: what the navigator commands
    Decisions,       \* local planner decisions that are heard
    Fields,          \* bound: the snapshot fields that are kept track of
    MaxDistance,     \* bound: distances that are reported
    RouteDistances,  \* bound: those that the navigator's feedback reports
    Epsilon,         \* progress_epsilon
    ClearDelta,      \* progress_clear_delta_m
    GoalApproach,    \* goal_approach_distance
    FinalAlignment,  \* final_heading_alignment_distance
    StallWindow      \* progress_stall_window_sec, in publish periods

ASSUME ObservationAssumption ==
    /\ {MaxDistance, Epsilon, GoalApproach, FinalAlignment} \subseteq Nat
    /\ {ClearDelta, StallWindow} \subseteq Nat \ {0}
    /\ RouteDistances \subseteq 0 .. MaxDistance
    /\ {"route_active", "runtime_state"} \subseteq Fields
    /\ "controller_recovery" \in Fields => "recovery_phase" \in Fields
    /\ Plans \subseteq Seq([mode : STRING, align : BOOLEAN])
    /\ Decisions \subseteq {"ok", "goal_proximity_blocked", "global_replan_required",
                            "hard_blocked"}

VARIABLES
    commands,     \* what the navigator commands, one of Plans; ids count up
    command,      \* latest_motion_command_, 0 before the first
    motion,       \* latest_motion_status_, Unheard before the first
    plan,         \* latest_local_plan_status_, Unheard before the first
    feedback,     \* latest_navigate_feedback_, Unheard before the first
    statuses,     \* latest_navigate_status_: what it says of each goal
    best,         \* best_distance_remaining_, NoBaseline without a baseline
    sinceBest,    \* age of best_progress_time_, at most StallWindow
    compared,     \* has_previous_motion_distance_
    gaining,      \* last_dist_goal_delta_m_ is at least ClearDelta
    escape,       \* local_escape_command_id_ while it is active, else 0
    previous,     \* the Fields of previous_snapshot_, the last summary too
    told,         \* history: the Fields of the snapshot of the last event
    least,        \* history: the least distance said since the command was heard
    still         \* history: periods since a status showed the robot closer,
                  \* or since a new command came; at most StallWindow

heard == <<commands, command, motion, plan, feedback, statuses>>
progress == <<best, sinceBest, compared, gaining>>
history == <<least, still>>
observerVars == <<heard, progress, escape, previous, told, history>>

Unheard == [none |-> TRUE]
NoBaseline == -1

\* Farther than any distance that is said.
Far == MaxDistance + Epsilon + 1

\* Ages are compared with a limit and not counted past it.
Older(age, limit) == IF age < limit THEN age + 1 ELSE limit

-----------------------------------------------------------------------------
(* What the stack publishes.                                               *)

\* What holds the robot.  blocked is a latch: the safety gate (gate) may stand
\* before it is confirmed, and may be gone while the latch still counts its clear
\* cycles.  A blocked robot is not called stalled, one before a gate may be;
\* costmap_blocked is never set by the controller.
Holds == {"none", "blocked", "stalled"}

\* A controller without a command says the goal is reached, at distance 0,
\* with command id 0; one that waits for a local plan says distance 0 too.
IdleStatus ==
    [id |-> 0, mode |-> "navigate", active |-> FALSE, reached |-> TRUE,
     completed |-> FALSE, gate |-> FALSE, hold |-> "none", distance |-> 0]

WaitingStatus(id) ==
    [IdleStatus EXCEPT !.id = id, !.active = TRUE, !.reached = FALSE]

DrivingStatus(id, distance, gate, hold) ==
    [WaitingStatus(id) EXCEPT !.distance = distance, !.gate = gate, !.hold = hold]

ReachedStatus(id, gate, hold) ==
    [DrivingStatus(id, 0, gate, hold) EXCEPT !.reached = TRUE, !.completed = TRUE]

RecoveryStatus(id, mode, completed) ==
    [DrivingStatus(id, MaxDistance, FALSE, "none")
        EXCEPT !.mode = mode, !.completed = completed]

StatusesOf(id) ==
    IF commands[id].mode = "navigate"
    THEN {WaitingStatus(id)}
            \cup {DrivingStatus(id, d, g, h) :
                     d \in 0 .. MaxDistance, g \in BOOLEAN, h \in Holds}
            \cup {ReachedStatus(id, g, h) : g \in BOOLEAN, h \in Holds \ {"stalled"}}
    ELSE {RecoveryStatus(id, commands[id].mode, c) : c \in BOOLEAN}

MotionMessages == {IdleStatus} \cup UNION {StatusesOf(id) : id \in DOMAIN commands}

\* The local planner asks for a recovery with every blockage it confirmed; a
\* plan it had to drop is hard blocked and asks for none.
PlanMessages ==
    {[id |-> i, decision |-> d, required |-> d \notin {"ok", "hard_blocked"}] :
        i \in DOMAIN commands, d \in Decisions}

FeedbackMessages == [goal : Goals, distance : RouteDistances]

\* The goals that the status array lists; the action server drops an ended
\* goal from it when its result expires.
Terminal == {"succeeded", "canceled", "aborted"}
StatusMessages == [Goals -> {"unlisted", "executing"} \cup Terminal]

-----------------------------------------------------------------------------
(* The verdicts of make_snapshot, each from the messages heard last.       *)

ActionStatus ==
    IF feedback = Unheard THEN "unlisted" ELSE statuses[feedback.goal]

\* The feedback's age makes no difference: it only names route_active_state,
\* which is left out with the other texts.
IsRouteActive == feedback # Unheard /\ ActionStatus \notin Terminal

IsActive == motion # Unheard /\ motion.active

IsReached == motion # Unheard /\ motion.reached

IsHeld == motion # Unheard /\ motion.hold # "none"

IsGated == motion # Unheard /\ motion.gate

IsControllerRecovery == IsActive /\ motion.mode # "navigate"

\* Mutant: a stalled controller counts as clear.
ClearUnlessBlocked ==
    motion # Unheard /\ motion.hold # "blocked" /\ ~IsControllerRecovery

IsControllerClear == motion # Unheard /\ ~IsHeld /\ ~IsControllerRecovery

IsLocalPlanStatusCurrent ==
    plan # Unheard /\ (motion # Unheard => plan.id = motion.id)

HasExplicitRecovery == IsLocalPlanStatusCurrent /\ plan.required

IsGoalApproach ==
    /\ IsActive
    /\ motion.mode = "navigate"
    /\ ~motion.reached
    /\ ~IsHeld
    /\ motion.distance <= GoalApproach

IsFinalHeadingAlignment ==
    /\ command # 0
    /\ IsGoalApproach
    /\ command = motion.id
    /\ commands[command].align
    /\ motion.distance <= FinalAlignment

IsProgressStalled ==
    /\ IsRouteActive
    /\ best # NoBaseline
    /\ IsActive
    /\ ~motion.reached
    /\ ~IsGoalApproach
    /\ ~gaining
    /\ IsControllerClear => HasExplicitRecovery
    /\ sinceBest >= StallWindow

ControllerPhase ==
    CASE motion = Unheard -> "idle"
      [] IsReached -> "reached"
      [] ~IsActive /\ ~IsReached -> "idle"
      [] IsControllerRecovery /\ ~IsReached -> "recovery"
      [] IsFinalHeadingAlignment -> "final_heading_align"
      [] IsGoalApproach /\ ~IsFinalHeadingAlignment -> "goal_approach"
      [] OTHER -> IF IsHeld THEN motion.hold ELSE "tracking"

\* The phases in which the robot stands at its goal.
HoldPhases == {"goal_approach", "final_heading_align", "reached"}

BlockedContext(stalled) ==
    CASE IsControllerClear /\ (ControllerPhase \in HoldPhases \/ ~HasExplicitRecovery)
           -> "clear"
      [] OTHER ->
         IF IsGated THEN "safety_gate"
         ELSE IF HasExplicitRecovery /\ ControllerPhase \notin HoldPhases THEN plan.decision
         ELSE IF IsHeld /\ motion.hold = "stalled" THEN "motion_stalled"
         ELSE IF stalled THEN "progress_stalled"
         ELSE "clear"

IsLocalEscape ==
    /\ escape # 0
    /\ IsActive
    /\ motion.mode = "navigate"
    /\ motion.id = escape

RecoveryPhase(active, triggered) ==
    IF ~active THEN "idle"
    ELSE IF IsLocalEscape THEN "local_escape_executing"
    ELSE IF IsControllerRecovery THEN "recovery_executing"
    ELSE IF triggered THEN "recovery_requested"
    ELSE "navigating"

RuntimeState(active, stalled) ==
    IF ActionStatus \in Terminal THEN ActionStatus
    ELSE IF ~active THEN (IF IsReached THEN "goal_reached" ELSE "idle")
    ELSE IF IsFinalHeadingAlignment THEN "final_heading_align"
    ELSE IF IsGoalApproach THEN "goal_approach"
    ELSE IF IsReached THEN "goal_reached"
    ELSE IF HasExplicitRecovery THEN "recovery_required"
    ELSE IF IsHeld THEN "motion_blocked"
    ELSE IF stalled THEN "progress_stalled"
    ELSE IF ControllerPhase = "tracking" THEN "tracking"
    ELSE "navigating"

\* make_snapshot: a route that succeeded clears every complaint.
Snapshot ==
    LET succeeded == ActionStatus = "succeeded"
        stalled == IsProgressStalled /\ ~succeeded
        reason == IF succeeded THEN "clear" ELSE BlockedContext(stalled)
    IN  [route_active |-> IsRouteActive,
         action_status |-> ActionStatus,
         planner_decision |-> IF IsLocalPlanStatusCurrent THEN plan.decision ELSE "ok",
         motion_blocked |-> IsHeld /\ motion.hold = "blocked" /\ ~succeeded,
         motion_goal_reached |-> IsReached,
         controller_recovery |-> IsControllerRecovery /\ ~succeeded,
         local_recovery_required |->
             HasExplicitRecovery /\ ControllerPhase \notin HoldPhases /\ ~succeeded,
         progress_stalled |-> stalled,
         blocked_context |-> reason,
         local_escape_active |-> IsLocalEscape,
         recovery_phase |-> RecoveryPhase(IsRouteActive, reason # "clear"),
         runtime_state |-> RuntimeState(IsRouteActive, stalled)]

-----------------------------------------------------------------------------
ObserverInit ==
    /\ commands \in Plans
    /\ command = 0
    /\ motion = Unheard
    /\ plan = Unheard
    /\ feedback = Unheard
    /\ statuses = [g \in Goals |-> "unlisted"]
    /\ best = NoBaseline
    /\ sinceBest = 0
    /\ compared = FALSE
    /\ gaining = FALSE
    /\ escape = 0
    /\ previous = Unheard
    /\ told = Unheard
    /\ least = Far
    /\ still = 0

\* Mutant: the baseline of the command before stays.
HandleMotionCommandKeepingBaseline ==
    /\ command < Len(commands)
    /\ command' = command + 1
    /\ compared' = FALSE
    /\ gaining' = FALSE
    /\ escape' = 0
    /\ least' = Far
    /\ still' = 0
    /\ UNCHANGED <<commands, motion, plan, feedback, statuses, best, sinceBest,
                   previous, told>>

\* handle_motion_command.  Ids grow with every command the navigator sends.
HandleMotionCommand ==
    /\ command < Len(commands)
    /\ command' = command + 1
    /\ best' = NoBaseline
    /\ sinceBest' = 0
    /\ compared' = FALSE
    /\ gaining' = FALSE
    /\ escape' =
         IF commands[command'].mode = "navigate" /\ plan # Unheard /\ plan.required
                /\ plan.decision # "global_replan_required"
         THEN command' ELSE 0
    /\ least' = Far
    /\ still' = 0
    /\ UNCHANGED <<commands, motion, plan, feedback, statuses, previous, told>>

\* Statuses come from the command heard last, from an earlier one, or from the
\* next, which the observer has not heard of; never from one before theirs.
MayFollow(message, heardBefore) ==
    /\ message.id <= command + 1
    /\ heardBefore # Unheard => message.id >= heardBefore.id

\* The status shows the robot closer than the one before, on the same command.
ShownDelta(message) ==
    IF compared /\ motion # Unheard /\ message.id = motion.id
    THEN motion.distance - message.distance
    ELSE 0

Lesser(a, b) == IF a < b THEN a ELSE b

\* handle_motion_status.
HandleMotionStatus(message) ==
    /\ message # IdleStatus => MayFollow(message, motion)
    /\ LET moved == ShownDelta(message)
           driving == message.active /\ message.mode = "navigate"
           improved == \/ best = NoBaseline
                       \/ message.distance < best - Epsilon
                       \/ moved >= ClearDelta
           renewed == (driving /\ improved) \/ message.reached \/ message.completed
           closer == moved >= ClearDelta \/ message.distance < least - Epsilon
       IN  /\ gaining' = (moved >= ClearDelta)
           /\ best' = IF renewed THEN message.distance ELSE best
           /\ sinceBest' = IF renewed THEN 0 ELSE sinceBest
           /\ least' = IF driving \/ renewed THEN Lesser(least, message.distance) ELSE least
           /\ still' = IF driving /\ closer THEN 0 ELSE still
    /\ compared' = TRUE
    /\ motion' = message
    /\ escape' =
         IF message.id # escape \/ ~message.active \/ message.completed THEN 0 ELSE escape
    /\ UNCHANGED <<commands, command, plan, feedback, statuses, previous, told>>

\* handle_local_plan_status.
HandleLocalPlanStatus(message) ==
    /\ MayFollow(message, plan)
    /\ plan' = message
    /\ UNCHANGED <<commands, command, motion, feedback, statuses, progress,
                   escape, previous, told, history>>

\* handle_navigate_feedback, of a goal that may have ended since.
HandleNavigateFeedback(message) ==
    /\ LET threshold == IF IsControllerClear THEN ClearDelta ELSE Epsilon
           renewed == best = NoBaseline \/ message.distance < best - threshold
       IN  /\ best' = IF renewed THEN message.distance ELSE best
           /\ sinceBest' = IF renewed THEN 0 ELSE sinceBest
    /\ least' = Lesser(least, message.distance)
    /\ feedback' = message
    /\ UNCHANGED <<commands, command, motion, plan, statuses, compared, gaining, escape,
                   previous, told, still>>

\* A goal is listed when it is accepted, ends once, and drops out afterwards.
ListedNext(old, new) ==
    \/ new = old
    \/ old = "unlisted" /\ new = "executing"
    \/ old = "executing" /\ new \in Terminal
    \/ old \in Terminal /\ new = "unlisted"

\* handle_navigate_status.
HandleNavigateStatus(message) ==
    /\ \A g \in Goals : ListedNext(statuses[g], message[g])
    /\ statuses' = message
    /\ UNCHANGED <<commands, command, motion, plan, feedback, progress,
                   escape, previous, told, history>>

\* The fields whose change makes an event.
Watched ==
    {"route_active", "blocked_context", "recovery_phase", "local_escape_active",
     "planner_decision", "motion_blocked", "progress_stalled", "action_status",
     "runtime_state"}

\* Mutant: no event when only the runtime state changed.
IsWatchedButState(snapshot, other) ==
    \E field \in (Watched \cap Fields) \ {"runtime_state"} : snapshot[field] # other[field]

\* publish_event_if_needed compares field by field.
IsWatched(snapshot, other) ==
    \E field \in Watched \cap Fields : snapshot[field] # other[field]

PublishEventIfNeeded(snapshot) ==
    /\ told' = IF previous = Unheard THEN snapshot
               ELSE IF IsWatched(snapshot, previous) THEN snapshot ELSE told
    /\ previous' = snapshot

\* publish_observation; one period passes until the next.
PublishObservation ==
    /\ LET snapshot == Snapshot IN PublishEventIfNeeded([f \in Fields |-> snapshot[f]])
    /\ sinceBest' = Older(sinceBest, StallWindow)
    /\ still' = Older(still, StallWindow)
    /\ UNCHANGED <<heard, best, compared, gaining, escape, least>>

ObserverNext ==
    \/ HandleMotionCommand
    \/ \E message \in MotionMessages : HandleMotionStatus(message)
    \/ \E message \in PlanMessages : HandleLocalPlanStatus(message)
    \/ \E message \in FeedbackMessages : HandleNavigateFeedback(message)
    \/ \E message \in StatusMessages : HandleNavigateStatus(message)
    \/ PublishObservation

ObserverSpec == ObserverInit /\ [][ObserverNext]_observerVars

-----------------------------------------------------------------------------
ObserverTypeOK ==
    /\ commands \in Plans
    /\ command \in 0 .. Len(commands)
    /\ motion \in MotionMessages \cup {Unheard}
    /\ plan \in PlanMessages \cup {Unheard}
    /\ feedback \in FeedbackMessages \cup {Unheard}
    /\ statuses \in StatusMessages
    /\ best \in NoBaseline .. MaxDistance
    /\ sinceBest \in 0 .. StallWindow
    /\ compared \in BOOLEAN
    /\ gaining \in BOOLEAN
    /\ escape \in 0 .. Len(commands)
    /\ least \in 0 .. Far
    /\ still \in 0 .. StallWindow

\* The robot is still held although the gate that blocked it is gone: the latch
\* counts its clear cycles.
LatchOutlivesGate == IsHeld /\ motion.hold = "blocked" /\ ~motion.gate

\* Two chains of conditions judge the same messages, one for recovery_reason
\* and one for runtime_state.  On a route that is still under way and not at a
\* goal they agree on whether something is wrong, or runtime_state alone says
\* motion_blocked, for a latch that outlives its gate.
VerdictsAgree ==
    LET s == Snapshot
        reason == s.blocked_context # "clear"
        state == s.runtime_state \in {"recovery_required", "motion_blocked", "progress_stalled"}
    IN  s.route_active /\ s.runtime_state # "goal_reached" =>
            \/ reason <=> state
            \/ LatchOutlivesGate /\ ~reason /\ s.runtime_state = "motion_blocked"

\* progress_stalled is said only after a whole window in which no command came
\* and no status showed the robot a whole progress_clear_delta_m closer than the
\* one before, or more than progress_epsilon closer than all that was said since
\* the command was heard, whatever earlier commands and goals left behind and
\* however slowly the robot creeps.
StallTakesAWindow == Snapshot.progress_stalled => still >= StallWindow

\* What publish_event_if_needed does not compare.
Uncompared == {"motion_goal_reached", "controller_recovery", "local_recovery_required"}

\* While a route is active, whoever follows the events alone knows whether the
\* goal is reached, whether the controller executes a recovery and whether the
\* planner asks for one: no event is about these, but their changes always show
\* in a field that is compared.
EventsTellTheRest ==
    previous # Unheard /\ previous.route_active =>
        \A field \in Uncompared \cap Fields : told[field] = previous[field]
=============================================================================
