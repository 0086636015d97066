------------------------------ MODULE MqttServer ------------------------------
(***************************************************************************)
(* The MQTT bridge (amr_mqtt_server): commands that arrive under the topics*)
(* of one robot id become /navigate_to_poses goals, velocities, poses and  *)
(* service requests; answers and telemetry go back.                        *)
(*                                                                         *)
(* The node spins on one thread, so each timer, subscription and action    *)
(* callback is one step.  The broker, the link to it and the navigator run *)
(* next to it.  Whatever is published while the link is down is dropped.   *)
(* poll_mqtt serves up to eight messages in one callback; here each is a   *)
(* step of its own, which only adds interleavings.  A cancel request       *)
(* reaches the navigator in the step that sends it.                        *)
(***************************************************************************)
EXTENDS Integers, Sequences

CONSTANTS
    Robots,         \* valid robot ids
    FirstRobot,     \* the configured one
    NoRobot,        \* an empty pending_robot_id_
    Requests,       \* the navigation commands clients send, and their goals
    NoRequest,      \* a null goal handle
    Ids,            \* what clients write as request_id
    NoId,           \* an empty request_id, and how a missing one is read
    IdOf,           \* the request_id of each navigation command, not always its own
    MaxQueue,       \* bound: commands the broker holds for one robot
    MaxSwitches     \* bound: robot id changes that are scheduled

ASSUME MqttAssumption ==
    /\ FirstRobot \in Robots
    /\ NoRobot \notin Robots
    /\ NoRequest \notin Requests
    /\ NoId \notin Ids
    /\ IdOf \in [Requests -> Ids \cup {NoId}]
    /\ MaxQueue \in Nat
    /\ MaxSwitches \in Nat

VARIABLES
    robot,          \* mqtt_.robot_id, with the topics and client id built from it
    pendingRobot,   \* pending_robot_id_
    client,         \* mqtt_client_: null, or whether it is connected
    sessions,       \* robots whose command topics are subscribed at the broker
    queue,          \* queue[b]: commands the broker's session of b holds
    sentOnce,       \* viz_published_once of the latched endpoints
    activeNavigation,  \* active_navigation_
    handle,         \* active_goal_handle_
    current,        \* current_request_id_
    asked,          \* the navigation commands that were published
    goal,           \* goal[q]: the state of q's goal in the navigator
    awaiting,       \* goals sent whose goal response was not handled
    following,      \* goals whose result was requested and not handled
    answer,         \* history: what was last published on navigation/result
    switches        \* robot id changes scheduled so far

connection == <<client, sessions>>
identity == <<robot, pendingRobot, switches>>
navigation == <<activeNavigation, handle, current, goal, awaiting, following>>
vars == <<identity, connection, queue, sentOnce,
          navigation, asked, answer>>

Navigator == INSTANCE NavigateAction WITH Goals <- Requests, status <- goal

InFlight == Navigator!InFlight
Ended == Navigator!Outcomes
InFlightStates == {"executing", "canceling"}

\* The commands that leave nothing in the node: velocities, and what is only
\* answered (pose, ping, map save, plan requests).
Stateless == {"velocity", "service"}

Commands ==
    [kind : {"navigate"}, request : Requests]
        \cup [kind : {"cancel"}, request_id : Ids \cup {NoId}]
        \cup [kind : Stateless]
        \cup [kind : {"robot"}, id : Robots]

\* What navigation/result may say of a navigation command, and to a cancel.
Verdicts == {"invalid", "busy", "unavailable", "accepted", "rejected"} \cup Ended
CancelVerdicts == {"no active goal", "dispatched"}

\* The message has a request_id and a verdict.  History: the goals it is about,
\* of a navigation command its own.
Answers == [request_id : Ids \cup {NoId}, verdict : Verdicts \cup CancelVerdicts,
            about : SUBSET Requests]
NoAnswer == [request_id |-> NoId, verdict |-> "none", about |-> {}]

TypeOK ==
    /\ robot \in Robots
    /\ pendingRobot \in Robots \cup {NoRobot}
    /\ client \in {"null", "down", "up"}
    /\ sessions \subseteq Robots
    /\ queue \in [Robots -> Seq(Commands)]
    /\ \A b \in Robots : Len(queue[b]) <= MaxQueue
    /\ sentOnce \in BOOLEAN
    /\ activeNavigation \in BOOLEAN
    /\ handle \in Requests \cup {NoRequest}
    /\ current \in Ids \cup {NoId}
    /\ asked \subseteq Requests
    /\ goal \in [Requests -> Navigator!Statuses]
    /\ awaiting \subseteq Requests
    /\ following \subseteq Requests
    /\ answer \in Answers \cup {NoAnswer}
    /\ switches \in 0..MaxSwitches

-----------------------------------------------------------------------------
(* The connection.                                                         *)

\* ensure_connected, with its answer.  A missing client is created; a client
\* that lost its link is reconnected at most once per second, with the session
\* it had.  The broker may refuse either.
EnsureConnected(online) ==
    /\ client = "up" => online
    /\ client' = IF online THEN "up" ELSE client
    /\ sessions' = IF online THEN sessions \cup {robot} ELSE sessions

\* publish_payload: dropped without a connection or when the client refuses the
\* message, and nobody is told.
PublishPayload(delivered) ==
    \E online \in BOOLEAN : EnsureConnected(online) /\ (delivered => online)

\* publish_simple_response and publish_navigation_result on navigation/result.
Publish(id, verdict, about) ==
    \E delivered \in BOOLEAN :
        /\ PublishPayload(delivered)
        /\ answer' = IF delivered
                     THEN [request_id |-> id, verdict |-> verdict, about |-> about]
                     ELSE answer

\* The answers on other topics leave no trace in the model.
Respond == PublishPayload(FALSE) /\ UNCHANGED answer

\* The link fails in between; the node finds out when it next uses it.
LinkLost ==
    /\ client = "up"
    /\ client' = "down"
    /\ UNCHANGED <<identity, sessions, queue, sentOnce,
                   navigation, asked, answer>>

\* connect_mqtt: whatever client there was is destroyed and a new one created
\* for the current robot's client id.
Connect(id, online) ==
    /\ client' = IF online THEN "up" ELSE "null"
    /\ sessions' = IF online THEN sessions \cup {id} ELSE sessions

\* Messages the destroyed client had received but not handed over are lost.
LoseReceived(lost) ==
    /\ lost \in 0..Len(queue[robot])
    /\ queue' = [queue EXCEPT ![robot] = SubSeq(@, lost + 1, Len(@))]

\* apply_pending_robot_id_change: switch, or go back when the broker refuses.
ApplyPendingRobotId ==
    /\ pendingRobot # NoRobot
    /\ pendingRobot' = NoRobot
    /\ \E lost \in 0..MaxQueue : LoseReceived(lost)
    /\ \/ /\ Connect(pendingRobot, TRUE)
          /\ robot' = pendingRobot
       \/ /\ \E online \in BOOLEAN : Connect(robot, online)
          /\ UNCHANGED robot
    /\ UNCHANGED <<switches, sentOnce, navigation,
                   asked, answer>>

-----------------------------------------------------------------------------
(* Telemetry.                                                              *)

\* The endpoints: map, tf_static and robot_description are latched, the others
\* are streams.
Endpoints == {"latched", "stream"}

\* The subscription of an endpoint: rate limits let a message through or not;
\* the endpoint keeps the topic it was registered with.  A latched endpoint is
\* published once, and counts as published whether or not it got out.
Telemetry(endpoint) ==
    /\ endpoint = "latched" => ~sentOnce
    /\ Respond
    /\ sentOnce' = (sentOnce \/ endpoint = "latched")
    /\ UNCHANGED <<identity, queue, navigation, asked>>

\* status_subscription_ and the feedback callback, which pass on what the
\* navigator says while a navigation is active.
NavigationTelemetry ==
    /\ activeNavigation
    /\ Respond
    /\ UNCHANGED <<identity, queue, sentOnce, navigation,
                   asked>>

-----------------------------------------------------------------------------
(* Commands.                                                               *)

\* A client publishes a command under the topics of robot b.  The broker keeps
\* it while the session exists: clean_session is off.
Ask(b, m) ==
    /\ b \in sessions
    /\ Len(queue[b]) < MaxQueue
    /\ IF m.kind = "navigate"
       THEN m.request \notin asked /\ asked' = asked \cup {m.request}
       ELSE UNCHANGED asked
    /\ queue' = [queue EXCEPT ![b] = Append(@, m)]
    /\ UNCHANGED <<identity, connection, sentOnce,
                   navigation, answer>>

Forget ==
    /\ activeNavigation' = FALSE
    /\ current' = NoId

Dispatch(q) ==
    /\ activeNavigation' = TRUE
    /\ current' = IdOf[q]
    /\ handle' = NoRequest
    /\ awaiting' = awaiting \cup {q}
    /\ UNCHANGED <<goal, following, answer, connection>>

Refuse(q, verdict) ==
    /\ Publish(IdOf[q], verdict, {q})
    /\ UNCHANGED navigation

\* Mutant: a second command replaces the first.
NavigateWithoutExclusion(q) ==
    \/ Refuse(q, "invalid") \/ Refuse(q, "unavailable")
    \/ Dispatch(q)

\* handle_navigation_command: one navigation at a time.  A command without a
\* request_id is invalid; one whose request_id is empty, or was used before, is not.
HandleNavigation(q) ==
    \/ Refuse(q, "invalid")
    \/ activeNavigation /\ Refuse(q, "busy")
    \/ ~activeNavigation /\ (Refuse(q, "unavailable") \/ Dispatch(q))

\* The goals that drive the robot and whose acceptance the node has handled.
Driving == InFlight \ awaiting

\* handle_navigation_cancel: nothing to cancel until the acceptance was handled.
\* The answer goes out on navigation/result too, under the cancel's own id.
HandleCancel(id) ==
    /\ \/ /\ activeNavigation /\ handle # NoRequest
          /\ goal' = IF goal[handle] = "executing"
                     THEN [goal EXCEPT ![handle] = "canceling"] ELSE goal
          /\ Publish(id, "dispatched", Driving)
       \/ /\ ~activeNavigation \/ handle = NoRequest
          /\ Publish(id, "no active goal", Driving)
          /\ UNCHANGED goal
    /\ UNCHANGED <<activeNavigation, handle, current, awaiting, following>>

\* handle_set_robot_id: an invalid or unchanged id is answered and dropped,
\* another one is left for the other timer, in place of one still pending.
HandleSetRobotId(id) ==
    /\ \/ UNCHANGED <<pendingRobot, switches>>
       \/ /\ id # robot
          /\ switches < MaxSwitches
          /\ pendingRobot' = id
          /\ switches' = switches + 1
    /\ Respond
    /\ UNCHANGED robot

\* Velocities and poses are forwarded as they come; a save writes the temporary
\* map, if one was received; a plan request is sent and what the planner says
\* dropped; each but the velocity is answered.
HandleStateless(kind) ==
    IF kind = "velocity" THEN UNCHANGED <<connection, answer>> ELSE Respond

Handle(m) ==
    \/ /\ m.kind = "navigate"
       /\ HandleNavigation(m.request)
       /\ UNCHANGED identity
    \/ /\ m.kind = "cancel"
       /\ HandleCancel(m.request_id)
       /\ UNCHANGED identity
    \/ /\ m.kind = "robot"
       /\ HandleSetRobotId(m.id)
       /\ UNCHANGED navigation
    \/ /\ m.kind \in Stateless
       /\ HandleStateless(m.kind)
       /\ UNCHANGED <<identity, navigation>>

\* poll_mqtt: reconnect, then take the next command of this robot's session.
Poll ==
    /\ \/ /\ client # "up"
          /\ EnsureConnected(TRUE)
          /\ UNCHANGED <<identity, queue, navigation, answer>>
       \/ /\ client = "up"
          /\ queue[robot] # <<>>
          /\ queue' = [queue EXCEPT ![robot] = Tail(@)]
          /\ Handle(Head(queue[robot]))
    /\ UNCHANGED <<sentOnce, asked>>

-----------------------------------------------------------------------------
(* The delegated goal.                                                     *)

\* Mutant: the busy flag survives a rejection.
ResponseKeepingActive(q) ==
    /\ q \in awaiting
    /\ awaiting' = awaiting \ {q}
    /\ \/ /\ goal[q] = "rejected"
          /\ Publish(IdOf[q], "rejected", {q})
          /\ UNCHANGED <<activeNavigation, current, handle, following>>
       \/ /\ goal[q] \in InFlightStates \cup Ended
          /\ handle' = q
          /\ following' = following \cup {q}
          /\ Publish(IdOf[q], "accepted", {q})
          /\ UNCHANGED <<activeNavigation, current>>
    /\ UNCHANGED <<identity, queue, sentOnce, goal, asked>>

\* goal_response_callback.
GoalResponse(q) ==
    /\ q \in awaiting
    /\ awaiting' = awaiting \ {q}
    /\ \/ /\ goal[q] = "rejected"
          /\ Forget
          /\ Publish(IdOf[q], "rejected", {q})
          /\ UNCHANGED <<handle, following>>
       \/ /\ goal[q] \in InFlightStates \cup Ended
          /\ handle' = q
          /\ following' = following \cup {q}
          /\ Publish(IdOf[q], "accepted", {q})
          /\ UNCHANGED <<activeNavigation, current>>
    /\ UNCHANGED <<identity, queue, sentOnce, goal, asked>>

\* Mutant: nothing is cleared when the result cannot be published.
ResultOnlyWhenDelivered(q) ==
    /\ q \in following
    /\ goal[q] \in Ended
    /\ following' = following \ {q}
    /\ Publish(current, goal[q], {q})
    /\ IF answer' # answer
       THEN Forget /\ handle' = NoRequest
       ELSE UNCHANGED <<activeNavigation, current, handle>>
    /\ UNCHANGED <<identity, queue, sentOnce, goal,
                   awaiting, asked>>

\* result_callback: published under the request id the node holds by now.
NavigationResult(q) ==
    /\ q \in following
    /\ goal[q] \in Ended
    /\ following' = following \ {q}
    /\ Publish(current, goal[q], {q})
    /\ Forget
    /\ handle' = NoRequest
    /\ UNCHANGED <<identity, queue, sentOnce, goal,
                   awaiting, asked>>

\* The navigator answers a goal it was sent and ends one it runs.
NavigatorAnswers(q) ==
    /\ q \in awaiting
    /\ Navigator!Accept(q) \/ Navigator!Reject(q)

NavigatorEnds(q) == Navigator!Finish(q)

NavigatorStep ==
    /\ \E q \in Requests : NavigatorAnswers(q) \/ NavigatorEnds(q)
    /\ UNCHANGED <<identity, connection, queue, sentOnce,
                   activeNavigation, handle, current, awaiting, following, asked,
                   answer>>

-----------------------------------------------------------------------------
(* The node starts and connects; the broker may not be there.              *)
Init ==
    /\ robot = FirstRobot
    /\ pendingRobot = NoRobot
    /\ \E online \in BOOLEAN :
          /\ client = IF online THEN "up" ELSE "null"
          /\ sessions = IF online THEN {FirstRobot} ELSE {}
    /\ queue = [b \in Robots |-> <<>>]
    /\ sentOnce = FALSE
    /\ activeNavigation = FALSE
    /\ handle = NoRequest
    /\ current = NoId
    /\ asked = {}
    /\ goal = [q \in Requests |-> "unknown"]
    /\ awaiting = {}
    /\ following = {}
    /\ answer = NoAnswer
    /\ switches = 0

Next ==
    \/ LinkLost
    \/ ApplyPendingRobotId
    \/ \E endpoint \in Endpoints : Telemetry(endpoint)
    \/ NavigationTelemetry
    \/ \E b \in Robots, m \in Commands : Ask(b, m)
    \/ Poll
    \/ \E q \in Requests : GoalResponse(q)
    \/ \E q \in Requests : NavigationResult(q)
    \/ NavigatorStep

Spec == Init /\ [][Next]_vars

\* The node's executor runs the callbacks of the action client, and the
\* navigator answers goals and ends those it was asked to cancel
\* (NavigateAction).  Nothing is assumed of the link, the broker or clients.
FairSpec ==
    /\ Spec
    /\ \A q \in Requests :
          /\ WF_vars(GoalResponse(q))
          /\ WF_vars(NavigationResult(q))
          /\ WF_vars(NavigatorStep /\ (NavigatorAnswers(q)
                        \/ (goal[q] = "canceling" /\ NavigatorEnds(q))))

-----------------------------------------------------------------------------
(* Properties.                                                             *)

\* What navigation/result says is true.  About a navigation command: the answer
\* bears the command's own request_id, although result_callback uses the one the
\* node holds by then; an outcome is the outcome of the command's own goal;
\* "accepted" is said only of a goal the navigator took; and a command that was
\* turned away was never sent.  To a cancel: "no active goal" is said only while
\* no goal whose acceptance was handled drives the robot, and "dispatched" only
\* when the goal that drove it was asked to cancel.
TruthfulAnswers ==
    /\ answer.verdict \in Verdicts =>
          \A q \in answer.about :
              /\ answer.request_id = IdOf[q]
              /\ answer.verdict \in Ended => goal[q] = answer.verdict
              /\ answer.verdict = "rejected" => goal[q] = "rejected"
              /\ answer.verdict = "accepted" => goal[q] \in InFlightStates \cup Ended
              /\ answer.verdict \in {"invalid", "busy", "unavailable"} => goal[q] = "unknown"
    /\ answer.verdict = "no active goal" => answer.about = {}
    /\ answer.verdict = "dispatched" =>
          \A q \in answer.about : goal[q] \in {"canceling"} \cup Ended

\* The node never loses a goal that drives the robot, whatever the link, the
\* robot id and the order of callbacks: the node is busy, holds the goal's
\* request_id, and once its acceptance was handled a cancel reaches it.  And
\* the node is busy only with a goal whose answer is still to come.
BridgeHoldsItsGoal ==
    /\ \A q \in InFlight :
          /\ activeNavigation
          /\ current = IdOf[q]
          /\ q \in awaiting \/ (q \in following /\ handle = q)
    /\ activeNavigation => awaiting \cup following # {}

\* A navigation that was canceled or rejected makes room for the next one,
\* also when the answer about it cannot be delivered and the link stays down.
BridgeIsFreed ==
    \A q \in Requests :
        (q \in awaiting \cup following /\ goal[q] \in {"canceling", "rejected"})
            ~> ~activeNavigation
=============================================================================
