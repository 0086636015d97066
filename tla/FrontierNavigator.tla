-------------------------- MODULE FrontierNavigator --------------------------
(***************************************************************************)
(* The unknown-goal orchestrator (amr_frontier_navigator).                 *)
(*                                                                         *)
(* A frontier goal names a pose the map may not know yet.  One worker      *)
(* thread drives the robot to known staging poses until the map knows the  *)
(* original pose, and then to the original pose; every such leg is a goal  *)
(* delegated to /navigate_to_pose, at most one per iteration.              *)
(*                                                                         *)
(* Three sides run concurrently: the node's callback group, which serves   *)
(* goal and cancel requests, the map and the lifecycle one at a time; the  *)
(* worker; and the reentrant client group, which delivers the delegated    *)
(* action's answers.  The map may change between any two reads of it, so   *)
(* what a read finds is a choice.  Overlays, status and feedback are left  *)
(* out, for no decision depends on what they show.                         *)
(*                                                                         *)
(* The navigator behind /navigate_to_pose is known by what NavigateAction  *)
(* says of one goal; that it runs one goal at a time is not relied on.     *)
(***************************************************************************)
EXTENDS Integers

CONSTANTS
    Goals,          \* frontier goals clients send, by UUID
    NoGoal,         \* a null goal handle
    MaxIterations,  \* the greatest max_iterations of a goal
    LimitOf,        \* max_iterations of each goal, or the node's default
    MaxTransitions, \* bound: lifecycle transitions out of use
    AllowCleanup    \* whether the node may be cleaned up or shut down

ASSUME FrontierAssumption ==
    /\ NoGoal \notin Goals
    /\ MaxIterations \in Nat
    /\ LimitOf \in [Goals -> 0..MaxIterations]
    /\ MaxTransitions \in Nat
    /\ AllowCleanup \in BOOLEAN

\* The delegated goal of a frontier goal's iteration.
Delegates == Goals \X (0..MaxIterations)
NoDelegate == <<NoGoal, 0>>

VARIABLES
    lifecycle,      \* the node's state or the transition being served; "failed"
                    \* is finalized by an exception out of a transition
    transitions,    \* transitions out of use so far
    status,         \* status[g]: the goal's state in the action server
    active,         \* active_goal_handle_
    stop,           \* execution_stop_requested_
    worker,         \* the execution thread and its locals
    nested,         \* nested_goal_handle_
    target,         \* target[d]: the pose delegate d was sent to
    delegate,       \* delegate[d]: its state in the delegated action server
    cancelSent,     \* delegates the node asked to cancel
    lost            \* history: delegates whose handle was never had or dropped

node == <<lifecycle, transitions>>
delegation == <<nested, target, delegate, cancelSent, lost>>
vars == <<node, status, active, stop, worker, delegation>>

Navigator == INSTANCE NavigateAction WITH Goals <- Delegates, status <- delegate

Outcomes == {"succeeded", "canceled", "aborted"}
Statuses == {"unknown", "rejected", "executing", "canceling"} \cup Outcomes

Transitioning == {"deactivating", "cleaning", "shutting"}
Lifecycles == {"active", "inactive", "unconfigured", "finalized", "failed", "crashed"}
                  \cup Transitioning

\* Steps of execute, navigate_to_pose and of every path that ends a goal.
Running == {"start", "map", "iterate", "server", "sending", "watch", "withdraw", "expand"}
Ending == {"verdict", "finalize", "clear"}

Idle == [pc |-> "none", goal |-> NoGoal, iteration |-> 0,
         target |-> "none",    \* the leg navigate_to_pose was called for
         why |-> "none",       \* why cancel_and_wait was called
         outcome |-> "none"]   \* the state finalize_result is called with

TypeOK ==
    /\ lifecycle \in Lifecycles
    /\ transitions \in 0..MaxTransitions
    /\ status \in [Goals -> Statuses]
    /\ active \in Goals \cup {NoGoal}
    /\ stop \in BOOLEAN
    /\ worker \in [pc : {"none"} \cup Running \cup Ending,
                   goal : Goals \cup {NoGoal},
                   iteration : 0..MaxIterations,
                   target : {"none", "staging", "original"},
                   why : {"none", "stop", "preempt"},
                   outcome : {"none", "stopped"} \cup Outcomes]
    /\ nested \in Delegates \cup {NoDelegate}
    /\ target \in [Delegates -> {"none", "staging", "original"}]
    /\ delegate \in [Delegates -> Statuses]
    /\ cancelSent \subseteq Delegates
    /\ lost \subseteq Delegates

Init ==
    /\ lifecycle = "inactive"
    /\ transitions = 0
    /\ status = [g \in Goals |-> "unknown"]
    /\ active = NoGoal
    /\ stop = FALSE
    /\ worker = Idle
    /\ nested = NoDelegate
    /\ target = [d \in Delegates |-> "none"]
    /\ delegate = [d \in Delegates |-> "unknown"]
    /\ cancelSent = {}
    /\ lost = {}

-----------------------------------------------------------------------------
(* The handle of the delegated goal                                        *)

Ended(d) == delegate[d] \in Outcomes
Live(d) == delegate[d] \in {"executing", "canceling"}

\* nested_goal_handle_, as the set of the delegates it holds.
Held == {nested} \ {NoDelegate}
HeldEnded == \A d \in Held : Ended(d)

CancelNestedGoal == cancelSent' = cancelSent \cup Held

\* async_cancel_goal throws for a goal whose result its client has received;
\* the result of a delegate that ended may have arrived or not.
CancelMayThrow == \E d \in Held : Ended(d)

-----------------------------------------------------------------------------
(* The node's callback group                                               *)

\* No other callback of the group runs.
GroupFree == lifecycle \notin Transitioning \cup {"crashed"}

\* Mutant: handle_goal does not look at the active goal.
HandleSecondGoal(g) ==
    /\ GroupFree
    /\ lifecycle = "active"
    /\ status[g] = "unknown"
    /\ HeldEnded
    /\ status' = [status EXCEPT ![g] = "executing"]
    /\ active' = g
    /\ nested' = NoDelegate
    /\ stop' = FALSE
    /\ worker' = [Idle EXCEPT !.pc = "start", !.goal = g]
    /\ UNCHANGED <<node, target, delegate, cancelSent, lost>>

\* handle_goal and handle_accepted: one executor callback runs both, and the
\* thread of the goal before has left execute when the handle is free.
HandleGoal(g) ==
    /\ GroupFree
    /\ lifecycle = "active"
    /\ status[g] = "unknown"
    /\ active = NoGoal
    /\ HeldEnded
    /\ status' = [status EXCEPT ![g] = "executing"]
    /\ active' = g
    /\ nested' = NoDelegate
    /\ stop' = FALSE
    /\ worker' = [Idle EXCEPT !.pc = "start", !.goal = g]
    /\ UNCHANGED <<node, target, delegate, cancelSent, lost>>

\* The handle is taken; the delegate it holds is unfinished, or seems to be
\* while its status message is late; or the node is not active.  A goal with
\* an empty frame is refused with the same effect and is left out.
RejectGoal(g) ==
    /\ GroupFree
    /\ lifecycle # "unconfigured"
    /\ status[g] = "unknown"
    /\ status' = [status EXCEPT ![g] = "rejected"]
    /\ \/ (active # NoGoal \/ Held # {}) /\ UNCHANGED nested
       \/ active = NoGoal /\ HeldEnded /\ lifecycle # "active" /\ nested' = NoDelegate
    /\ UNCHANGED <<node, active, stop, worker, target, delegate, cancelSent, lost>>

HandleCancel(g) ==
    /\ GroupFree
    /\ lifecycle # "unconfigured"
    /\ status[g] = "executing"
    /\ status' = [status EXCEPT ![g] = "canceling"]
    /\ UNCHANGED <<node, active, stop, worker, delegation>>

-----------------------------------------------------------------------------
(* The lifecycle.  stop_and_join_execution raises the flag, passes the     *)
(* stop on to the delegated goal and joins the worker, unless passing it   *)
(* on throws: then the transition ends in an error, with the flag raised   *)
(* and nothing else done, and the node is finalized.                       *)

OnConfigure ==
    /\ GroupFree
    /\ lifecycle = "unconfigured"
    /\ lifecycle' = "inactive"
    /\ UNCHANGED <<transitions, status, active, stop, worker, delegation>>

OnActivate ==
    /\ GroupFree
    /\ lifecycle = "inactive"
    /\ lifecycle' = "active"
    /\ stop' = FALSE
    /\ UNCHANGED <<transitions, status, active, worker, delegation>>

StopExecution(from, transition) ==
    /\ GroupFree
    /\ lifecycle \in from
    /\ transitions < MaxTransitions
    /\ transitions' = transitions + 1
    /\ stop' = TRUE
    /\ \/ lifecycle' = transition /\ CancelNestedGoal
       \/ CancelMayThrow /\ lifecycle' = "failed" /\ UNCHANGED cancelSent
    /\ UNCHANGED <<status, active, worker, nested, target, delegate,
                   lost>>

\* Mutant: the worker is not joined.
NotJoined(transition) == lifecycle = transition

Joined(transition) == lifecycle = transition /\ worker.pc = "none"

Deactivated ==
    /\ Joined("deactivating")
    /\ lifecycle' = "inactive"
    /\ UNCHANGED <<transitions, status, active, stop, worker, delegation>>

\* A feedback callback of a delegate, which no join waits for, may be publishing.
FeedbackMayRun == \E d \in Delegates : Live(d) \/ Ended(d)

\* on_cleanup resets the publishers under whoever uses them.
CleanedUp ==
    /\ Joined("cleaning")
    /\ lifecycle' = "unconfigured" \/ (FeedbackMayRun /\ lifecycle' = "crashed")
    /\ nested' = NoDelegate
    /\ lost' = lost \cup Held
    /\ active' = NoGoal
    /\ UNCHANGED <<transitions, status, stop, worker, target, delegate,
                   cancelSent>>

ShutDown ==
    /\ Joined("shutting")
    /\ lifecycle' = "finalized"
    /\ UNCHANGED <<transitions, status, active, stop, worker, delegation>>

Lifecycle ==
    \/ OnConfigure
    \/ OnActivate
    \/ StopExecution({"active"}, "deactivating")
    \/ AllowCleanup /\ StopExecution({"inactive"}, "cleaning")
    \/ AllowCleanup /\ StopExecution({"active", "inactive", "unconfigured"}, "shutting")

FinishTransition == Deactivated \/ CleanedUp \/ ShutDown

-----------------------------------------------------------------------------
(* The worker: execute                                                     *)

At(step) == worker.pc = step
Go(step) == worker' = [worker EXCEPT !.pc = step]

\* "stopped" stands for is_canceling() ? "canceled" : "aborted".
EndAs(outcome) == worker' = [worker EXCEPT !.pc = "verdict", !.outcome = outcome]

\* Mutants: one of the two requests is not looked at.
ShouldStopExecution == stop \/ active # worker.goal
ShouldStopGoal == active # worker.goal \/ status[worker.goal] = "canceling"

ShouldStop ==
    \/ stop
    \/ active # worker.goal
    \/ status[worker.goal] = "canceling"

Current == <<worker.goal, worker.iteration>>

workerFrame == <<node, status, active, stop, delegate>>

\* The goal cannot be transformed, or the map is awaited.
Start ==
    /\ At("start")
    /\ \/ worker' = [worker EXCEPT !.pc = "finalize", !.outcome = "aborted"]
       \/ Go("map")
    /\ UNCHANGED <<workerFrame, nested, target, cancelSent, lost>>

\* wait_for_map, and the lookup of the current pose, which may fail.
WaitForMap ==
    /\ At("map")
    /\ Go("iterate") \/ EndAs("stopped") \/ EndAs("aborted")
    /\ UNCHANGED <<workerFrame, nested, target, cancelSent, lost>>

CallNavigateToPose(leg) ==
    worker' = [worker EXCEPT !.pc = "server", !.target = leg]

MayStage == worker.iteration < LimitOf[worker.goal]

\* resolve_staging_goal scans the map and asks the planner for each candidate: it
\* finds a pose, or none, or is stopped; without a pose the goal ends.
ResolveStagingGoal ==
    \/ CallNavigateToPose("staging")
    \/ EndAs("stopped")

\* The original pose is unknown, free or occupied in the map just read.
Iterate ==
    /\ At("iterate")
    /\ \/ /\ ShouldStop
          /\ EndAs("stopped")
          /\ CancelNestedGoal
       \* no map, an occupied goal, no current pose, no iterations left
       \/ /\ ~ShouldStop
          /\ EndAs("aborted")
          /\ UNCHANGED cancelSent
       \/ /\ ~ShouldStop
          /\ CallNavigateToPose("original")
          /\ UNCHANGED cancelSent
       \/ /\ ~ShouldStop
          /\ MayStage
          /\ ResolveStagingGoal
          /\ UNCHANGED cancelSent
    /\ UNCHANGED <<workerFrame, nested, target, lost>>

NextIteration ==
    worker' = [worker EXCEPT !.pc = "iterate", !.iteration = @ + 1,
                             !.target = "none", !.why = "none"]

\* wait_for_original_goal_known: however it ends, the next iteration decides.
AwaitExpansion ==
    /\ At("expand")
    /\ NextIteration
    /\ UNCHANGED <<workerFrame, nested, target, cancelSent, lost>>

\* An exception thrown while a status is published, in the wait for a result
\* only after the test for a stop; the handle is kept.
Throw ==
    /\ worker.pc \in {"start", "map", "iterate", "watch", "expand"}
    /\ At("watch") => ~ShouldStop
    /\ EndAs("aborted")
    /\ UNCHANGED <<workerFrame, nested, target, cancelSent, lost>>

-----------------------------------------------------------------------------
(* The worker: navigate_to_pose                                            *)

\* Only an action server that is not ready makes the worker look at the stop.
AwaitServer ==
    /\ At("server")
    /\ \/ ShouldStop /\ EndAs("stopped") /\ UNCHANGED target
       \/ EndAs("aborted") /\ UNCHANGED target
       \/ Go("sending") /\ target' = [target EXCEPT ![Current] = worker.target]
    /\ UNCHANGED <<workerFrame, nested, cancelSent, lost>>

AwaitAcceptance ==
    /\ At("sending")
    /\ \/ /\ delegate[Current] = "rejected"
          /\ EndAs("aborted")
          /\ UNCHANGED <<nested, lost>>
       \/ /\ Live(Current) \/ Ended(Current)
          /\ Go("watch")
          /\ nested' = Current
          /\ UNCHANGED lost
       \* the answer is late: nobody will cancel this delegate any more
       \/ /\ EndAs("aborted")
          /\ lost' = lost \cup {Current}
          /\ UNCHANGED nested
    /\ UNCHANGED <<workerFrame, target, cancelSent>>

ClearNestedHandle == nested' = IF nested = Current THEN NoDelegate ELSE nested

\* Mutant: reaching a staging pose counts as reaching the goal.
TakeResultOfAnyLeg ==
    /\ At("watch")
    /\ Ended(Current)
    /\ ClearNestedHandle
    /\ EndAs(IF delegate[Current] = "canceled" THEN "stopped" ELSE delegate[Current])
    /\ UNCHANGED <<workerFrame, target, cancelSent, lost>>

TakeResult ==
    /\ At("watch")
    /\ Ended(Current)
    /\ ClearNestedHandle
    /\ \/ delegate[Current] = "aborted" /\ EndAs("aborted")
       \/ delegate[Current] = "canceled" /\ EndAs("stopped")
       \/ /\ delegate[Current] = "succeeded"
          /\ IF worker.target = "original" THEN EndAs("succeeded") ELSE Go("expand")
    /\ UNCHANGED <<workerFrame, target, cancelSent, lost>>

\* Mutant: the wait begins without the cancel request.
BeginWithdrawSilently ==
    /\ At("watch")
    /\ ShouldStop
    /\ worker' = [worker EXCEPT !.pc = "withdraw", !.why = "stop"]
    /\ UNCHANGED <<workerFrame, nested, target, cancelSent, lost>>

\* cancel_and_wait is entered on a stop, and when the map knows the original.
\* It catches what async_cancel_goal throws and ends like after a timeout.
BeginWithdraw ==
    /\ At("watch")
    /\ \E why \in {"stop", "preempt"} :
          /\ IF why = "stop" THEN ShouldStop ELSE worker.target = "staging"
          /\ worker' = [worker EXCEPT !.pc = "withdraw", !.why = why]
    /\ cancelSent' = cancelSent \cup {Current}
    /\ UNCHANGED <<workerFrame, nested, target, lost>>

\* Mutant: the handle is dropped after the timeout as well.
EndWithdrawForgetting ==
    /\ At("withdraw")
    /\ ClearNestedHandle
    /\ EndAs(IF worker.why = "stop" THEN "stopped" ELSE "aborted")
    /\ UNCHANGED <<workerFrame, target, cancelSent, lost>>

\* After nested_cancel_timeout_ms the handle is left for handle_goal to see.
EndWithdraw ==
    /\ At("withdraw")
    /\ \/ /\ Ended(Current)
          /\ ClearNestedHandle
          /\ IF worker.why = "stop" THEN EndAs("stopped") ELSE NextIteration
       \/ /\ EndAs(IF worker.why = "stop" THEN "stopped" ELSE "aborted")
          /\ UNCHANGED nested
    /\ UNCHANGED <<workerFrame, target, cancelSent, lost>>

-----------------------------------------------------------------------------
(* The worker: how every goal ends                                         *)

\* goal_handle->is_canceling() is read before finalize_result is entered.
Verdict ==
    /\ At("verdict")
    /\ worker' = [worker EXCEPT !.pc = "finalize",
                                !.outcome =
                                    IF @ # "stopped" THEN @
                                    ELSE IF status[worker.goal] = "canceling" THEN "canceled"
                                    ELSE "aborted"]
    /\ UNCHANGED <<workerFrame, nested, target, cancelSent, lost>>

FinalizeResult ==
    /\ At("finalize")
    /\ Go("clear")
    /\ status' = [status EXCEPT ![worker.goal] = worker.outcome]
    /\ UNCHANGED <<node, active, stop, delegate, nested, target,
                   cancelSent, lost>>

ClearActiveGoal ==
    /\ At("clear")
    /\ worker' = Idle
    /\ active' = IF active = worker.goal THEN NoGoal ELSE active
    /\ UNCHANGED <<node, status, stop, delegate, nested, target,
                   cancelSent, lost>>

Work ==
    \/ Start
    \/ WaitForMap
    \/ Iterate
    \/ AwaitExpansion
    \/ AwaitServer
    \/ AwaitAcceptance
    \/ TakeResult
    \/ BeginWithdraw
    \/ EndWithdraw
    \/ Verdict
    \/ FinalizeResult
    \/ ClearActiveGoal

-----------------------------------------------------------------------------
(* The delegated action                                                    *)

\* The navigator accepts or rejects what was sent, may be asked to cancel by
\* anyone, and ends a goal as it likes.
Navigate ==
    /\ \E d \in Delegates :
          /\ target[d] # "none"
          /\ \/ Navigator!Move(d, {"unknown"}, "executing")
             \/ Navigator!Reject(d)
             \/ Navigator!RequestCancel(d)
             \/ Navigator!Finish(d)
    /\ UNCHANGED <<node, status, active, stop, worker, nested, target, cancelSent,
                   lost>>

-----------------------------------------------------------------------------
Next ==
    \/ \E g \in Goals : HandleGoal(g) \/ RejectGoal(g) \/ HandleCancel(g)
    \/ Lifecycle
    \/ FinishTransition
    \/ Work
    \/ Throw
    \/ Navigate

Spec == Init /\ [][Next]_vars

\* The worker's thread runs on, its deadlines pass, and the executor returns
\* to a callback that can go on.  Nothing is assumed of the navigator.
FairSpec ==
    /\ Spec
    /\ WF_vars(Work)
    /\ WF_vars(FinishTransition)

-----------------------------------------------------------------------------
(* Properties                                                              *)

\* The node keeps the promise of NavigateAction to its own clients: one goal
\* in flight, every goal ends once, "canceled" only after a cancel request
\* (handle_goal, finalize_result and the is_canceling() reads before it).
Contract == INSTANCE NavigateAction
ContractSafety == Contract!Safety

\* A frontier goal that succeeded has driven to its own original pose: a
\* delegate of that goal to that pose succeeded, not a staging leg and not a
\* delegate of an earlier goal or iteration (execute, navigate_to_pose).
SuccessIsEarned ==
    \A g \in Goals :
        status[g] = "succeeded" =>
            \E i \in 0..MaxIterations :
                target[<<g, i>>] = "original" /\ delegate[<<g, i>>] = "succeeded"

\* A delegate that drives the robot is the one nested_goal_handle_ holds or
\* the one being sent, unless its acceptance came too late or a cleanup
\* dropped it: the node can cancel it, sees it before it accepts a goal, and
\* never runs a second delegate next to it (clear_nested_handle,
\* has_active_nested_goal).
DelegateIsKnown ==
    \A d \in Delegates :
        Live(d) =>
            \/ d \in Held \cup lost
            \/ At("sending") /\ d = Current

\* A frontier goal that ended as canceled has no delegate left that nobody
\* asked to cancel (amr_frontier_navigator/README.md on CANCELED).
CanceledGoalWithdrew ==
    \A d \in Delegates :
        status[d[1]] = "canceled" /\ target[d] # "none" =>
            d \in cancelSent \/ Ended(d) \/ delegate[d] = "rejected"

\* Out of use the node has asked every delegate that still drives to cancel,
\* the lost ones apart, and sends no other; and unless its last transition
\* failed, it has no goal in flight and no worker (stop_and_join_execution
\* against an accept, a send or a wait in progress, and against the exception
\* that leaves it before the join).
OutOfUseIsQuiet ==
    /\ lifecycle \in {"inactive", "unconfigured", "finalized"} =>
           worker.pc = "none" /\ Contract!InFlight = {}
    /\ lifecycle \in {"inactive", "unconfigured", "finalized", "failed"} =>
           /\ worker.pc \notin {"server", "sending"}
           /\ \A d \in Delegates : Live(d) => d \in cancelSent \cup lost

\* A canceled frontier goal ends although the navigator may never answer:
\* every wait of the worker sees the request or runs into a deadline.
CancelEnds == \A g \in Goals : Contract!CancelServed(g)

\* A deactivation, cleanup or shutdown does not hang in its join, which holds
\* the node's callback group, although the navigator may never answer; and one
\* that failed before the join leaves a worker that ends by itself.
TransitionEnds ==
    (lifecycle \in Transitioning \cup {"failed"}) ~>
        (lifecycle \notin Transitioning /\ worker.pc = "none")
=============================================================================
