---------------------------- MODULE NavigateAction ----------------------------
(***************************************************************************)
(* What the navigator promises to a client of /navigate_to_pose and        *)
(* /navigate_to_poses, and nothing of how it keeps the promise.            *)
(*                                                                         *)
(* A goal is rejected or executes; while it executes it may be asked to    *)
(* cancel; it ends exactly once, as succeeded, canceled or aborted.  One   *)
(* goal is in flight at a time over both actions, and a goal that was      *)
(* asked to cancel does end.                                               *)
(***************************************************************************)
EXTENDS FiniteSets

CONSTANT Goals

VARIABLE status

Outcomes == {"succeeded", "canceled", "aborted"}

Statuses == {"unknown", "rejected", "executing", "canceling"} \cup Outcomes

InFlight == {g \in Goals : status[g] \in {"executing", "canceling"}}

Init == status = [g \in Goals |-> "unknown"]

Move(g, from, to) ==
    /\ status[g] \in from
    /\ status' = [status EXCEPT ![g] = to]

Accept(g) ==
    /\ InFlight = {}
    /\ Move(g, {"unknown"}, "executing")

Reject(g) == Move(g, {"unknown"}, "rejected")

RequestCancel(g) == Move(g, {"executing"}, "canceling")

\* A goal that nobody asked to cancel never ends as canceled.
Finish(g) ==
    \/ Move(g, {"executing"}, "succeeded")
    \/ Move(g, {"executing"}, "aborted")
    \/ \E outcome \in Outcomes : Move(g, {"canceling"}, outcome)

Next == \E g \in Goals : Accept(g) \/ Reject(g) \/ RequestCancel(g) \/ Finish(g)

CancelServed(g) == (status[g] = "canceling") ~> (status[g] \in Outcomes)

Safety == Init /\ [][Next]_status

Spec == Safety /\ \A g \in Goals : CancelServed(g)
=============================================================================
