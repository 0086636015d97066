-------------------------------- MODULE Bringup --------------------------------
(***************************************************************************)
(* Bringup: amr_lifecycle_manager configures and activates the managed     *)
(* nodes one after the other, from a thread of its own, over services that *)
(* answer late, or refuse, or die.                                         *)
(*                                                                         *)
(* The nodes are 1 .. N in the order of managed_nodes.  A request that     *)
(* timed out is not withdrawn: its node may still execute it.  The manager *)
(* may be stopped, killed and started again while the nodes run on.        *)
(***************************************************************************)
EXTENDS Integers, FiniteSets

CONSTANTS
    N,             \* the number of managed nodes
    PoseEnabled,   \* initial_pose.enabled
    MaxPolls,      \* bound: states asked for within the service timeout
    MaxLives       \* bound: processes of the manager, one after the other

ASSUME BringupAssumption ==
    /\ {N, MaxPolls, MaxLives} \subseteq Nat
    /\ PoseEnabled \in BOOLEAN

Nodes == 1 .. N
NodeStates == {"absent", "unconfigured", "inactive", "active", "finalized"}

VARIABLES
    node,      \* the lifecycle state of every node, "absent" without a process
    crashed,   \* the nodes whose process died at some time
    requests,  \* change_state requests on their way to their node
    answers,   \* responses of change_state on their way to the manager
    life,      \* the number of the manager's process
    alive,     \* the manager object exists
    spinning,  \* the executor of the manager spins
    shutdown,  \* shutdown_requested_
    pc,        \* where run_bringup is
    at,        \* the node it works on
    goal,      \* the state it asked that node for
    polls,     \* states asked for in wait_for_state
    posted     \* the initial pose was published

stack == <<node, crashed>>
services == <<requests, answers>>
process == <<life, alive, spinning, shutdown>>
thread == <<pc, at, goal, polls>>
vars == <<stack, services, process, thread, posted>>

Request(n, target) == [to |-> n, target |-> target, by |-> life]

Init ==
    /\ node \in [Nodes -> {"absent", "unconfigured"}]
    /\ crashed = {}
    /\ requests = {}
    /\ answers = {}
    /\ life = 1
    /\ alive = TRUE
    /\ spinning = TRUE
    /\ shutdown = FALSE
    /\ pc = "node"
    /\ at = 1
    /\ goal = "inactive"
    /\ polls = 0
    /\ posted = FALSE

-----------------------------------------------------------------------------
(* The nodes.                                                              *)

NodeStarts(n) ==
    /\ node[n] = "absent"
    /\ node' = [node EXCEPT ![n] = "unconfigured"]
    /\ UNCHANGED <<crashed, services, process, thread, posted>>

\* What was asked of a process that died is lost with it.
NodeDies(n) ==
    /\ node[n] # "absent"
    /\ node' = [node EXCEPT ![n] = "absent"]
    /\ crashed' = crashed \cup {n}
    /\ requests' = {r \in requests : r.to # n}
    /\ UNCHANGED <<answers, process, thread, posted>>

\* on_configure takes an unconfigured node to inactive, on_activate an inactive
\* one to active.
From(target) == IF target = "inactive" THEN "unconfigured" ELSE "inactive"

Respond(r, success) ==
    answers' = answers \cup {[request |-> r, success |-> success]}

\* The callback succeeds, fails, or throws and leaves the node finalized.  A
\* transition that the state does not allow is refused.
ExecuteTransition(r) ==
    /\ r \in requests
    /\ requests' = requests \ {r}
    /\ \/ /\ node[r.to] = From(r.target)
          /\ node' = [node EXCEPT ![r.to] = r.target]
          /\ Respond(r, TRUE)
       \/ /\ node[r.to] = From(r.target)
          /\ node' = [node EXCEPT ![r.to] = "finalized"]
          /\ Respond(r, FALSE)
       \/ /\ UNCHANGED node
          /\ Respond(r, FALSE)
    /\ UNCHANGED <<crashed, process, thread, posted>>

-----------------------------------------------------------------------------
(* run_bringup.                                                            *)

Return ==
    /\ pc' = "done"
    /\ UNCHANGED <<at, goal, polls>>

\* The head of the loop over managed_nodes_.
NextNode ==
    /\ alive /\ pc = "node"
    /\ pc' = CASE at \in Nodes /\ shutdown -> "done"
                [] at \in Nodes /\ ~shutdown -> "clients"
                [] OTHER -> IF PoseEnabled THEN "delay" ELSE "done"
    /\ UNCHANGED <<at, goal, polls, stack, services, process, posted>>

\* wait_for_service_clients.
WaitForServiceClients ==
    /\ alive /\ pc = "clients"
    /\ IF node[at] # "absent"
       THEN /\ pc' = "send"
            /\ goal' = "inactive"
            /\ UNCHANGED <<at, polls>>
       ELSE Return
    /\ UNCHANGED <<stack, services, process, posted>>

\* request_transition: the request, then the wait for its future.
RequestTransition ==
    /\ alive /\ pc = "send"
    /\ requests' = IF node[at] = "absent" THEN requests
                   ELSE requests \cup {Request(at, goal)}
    /\ pc' = "answer"
    /\ UNCHANGED <<at, goal, polls, stack, answers, process, posted>>

\* Mutant: whatever the node answers, the manager goes on.
ReceiveAnyAnswer ==
    /\ alive /\ pc = "answer" /\ spinning
    /\ \E answer \in answers :
         /\ answer.request = Request(at, goal)
         /\ answers' = answers \ {answer}
    /\ pc' = IF goal = "inactive" THEN "send" ELSE "node"
    /\ goal' = "active"
    /\ at' = IF goal = "inactive" THEN at ELSE at + 1
    /\ UNCHANGED <<polls, stack, requests, process, posted>>

ReceiveAnswer ==
    /\ alive /\ pc = "answer" /\ spinning
    /\ \E answer \in answers :
         /\ answer.request = Request(at, goal)
         /\ answers' = answers \ {answer}
         /\ IF answer.success
            THEN /\ pc' = "state"
                 /\ polls' = 0
                 /\ UNCHANGED <<at, goal>>
            ELSE Return
    /\ UNCHANGED <<stack, requests, process, posted>>

AnswerTimesOut ==
    /\ alive /\ pc = "answer"
    /\ Return
    /\ UNCHANGED <<stack, services, process, posted>>

\* Mutant: a node that does not get there is waited for as long as it takes.
PollStateForEver ==
    /\ alive /\ pc = "state"
    /\ spinning /\ node[at] = goal
    /\ pc' = IF goal = "inactive" THEN "send" ELSE "node"
    /\ goal' = "active"
    /\ at' = IF goal = "inactive" THEN at ELSE at + 1
    /\ UNCHANGED <<polls, stack, services, process, posted>>

\* wait_for_state: shutdown_requested_, the time left, and one get_state, which
\* may come back too late.
PollState ==
    /\ alive /\ pc = "state"
    /\ \/ /\ shutdown \/ polls > 0
          /\ Return
       \/ /\ ~shutdown /\ polls < MaxPolls
          /\ polls' = polls + 1
          /\ UNCHANGED <<pc, at, goal>>
       \/ /\ ~shutdown /\ polls < MaxPolls
          /\ spinning /\ node[at] = goal
          /\ pc' = IF goal = "inactive" THEN "send" ELSE "node"
          /\ goal' = "active"
          /\ at' = IF goal = "inactive" THEN at ELSE at + 1
          /\ UNCHANGED polls
    /\ UNCHANGED <<stack, services, process, posted>>

\* The delay of the initial pose, then shutdown_requested_.
Delay ==
    /\ alive /\ pc = "delay"
    /\ pc' = IF shutdown THEN "done" ELSE "pose"
    /\ UNCHANGED <<at, goal, polls, stack, services, process, posted>>

PublishInitialPose ==
    /\ alive /\ pc = "pose"
    /\ posted' = TRUE
    /\ Return
    /\ UNCHANGED <<stack, services, process>>

-----------------------------------------------------------------------------
(* The manager's process.                                                  *)

\* rclcpp::spin returns.
SpinEnds ==
    /\ alive /\ spinning
    /\ spinning' = FALSE
    /\ UNCHANGED <<life, alive, shutdown, stack, services, thread, posted>>

\* ~LifecycleManager sets the flag and joins the thread.
RequestShutdown ==
    /\ alive /\ ~spinning /\ ~shutdown
    /\ shutdown' = TRUE
    /\ UNCHANGED <<life, alive, spinning, stack, services, thread, posted>>

Join ==
    /\ alive /\ shutdown /\ pc = "done"
    /\ alive' = FALSE
    /\ UNCHANGED <<life, spinning, shutdown, stack, services, thread, posted>>

ManagerDies ==
    /\ alive
    /\ alive' = FALSE
    /\ UNCHANGED <<life, spinning, shutdown, stack, services, thread, posted>>

ManagerStarts ==
    /\ ~alive /\ life < MaxLives
    /\ life' = life + 1
    /\ alive' = TRUE
    /\ spinning' = TRUE
    /\ shutdown' = FALSE
    /\ pc' = "node"
    /\ at' = 1
    /\ goal' = "inactive"
    /\ polls' = 0
    /\ UNCHANGED <<stack, services, posted>>

-----------------------------------------------------------------------------
RunBringup ==
    \/ NextNode
    \/ WaitForServiceClients
    \/ RequestTransition
    \/ ReceiveAnswer
    \/ AnswerTimesOut
    \/ PollState
    \/ Delay
    \/ PublishInitialPose

Next ==
    \/ \E n \in Nodes : NodeStarts(n) \/ NodeDies(n)
    \/ \E r \in requests : ExecuteTransition(r)
    \/ RunBringup
    \/ SpinEnds \/ RequestShutdown \/ Join \/ ManagerDies \/ ManagerStarts

Spec == Init /\ [][Next]_vars

\* The thread runs, and its waits end by their timeouts.
FairSpec ==
    /\ Spec
    /\ WF_vars(RunBringup)
    /\ WF_vars(Join)

-----------------------------------------------------------------------------
Up(n) == node[n] = "active" \/ n \in crashed

TypeOK ==
    /\ node \in [Nodes -> NodeStates]
    /\ crashed \subseteq Nodes
    /\ requests \subseteq [to : Nodes, target : {"inactive", "active"}, by : Nat]
    /\ answers \subseteq [request : [to : Nodes, target : {"inactive", "active"}, by : Nat],
                          success : BOOLEAN]
    /\ life \in Nat
    /\ alive \in BOOLEAN
    /\ spinning \in BOOLEAN
    /\ shutdown \in BOOLEAN
    /\ pc \in {"node", "clients", "send", "answer", "state", "delay", "pose", "done"}
    /\ at \in 1 .. N + 1
    /\ goal \in {"inactive", "active"}
    /\ polls \in Nat
    /\ posted \in BOOLEAN

\* A node is only configured when every node before it in managed_nodes is
\* active, though requests that timed out are executed late and the manager is
\* restarted: bt_navigator finds the services of the planner and of the
\* recovery server.
StartedInOrder ==
    \A n \in Nodes : node[n] \in {"inactive", "active"} =>
        \A m \in 1 .. n - 1 : Up(m)

\* The initial pose is published into a stack that is up.
PoseComesLast == posted => \A n \in Nodes : Up(n)

\* A manager that is told to stop does stop, whatever its nodes answer.
ShutdownEnds == shutdown ~> ~alive
=============================================================================
