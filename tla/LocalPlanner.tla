----------------------------- MODULE LocalPlanner -----------------------------
(***************************************************************************)
(* The local planner (amr_controller_server).                              *)
(*                                                                         *)
(* A timer, and every command that arrives, run one planning cycle: build  *)
(* a path from the command, judge whether it is blocked, confirm the       *)
(* judgement over several cycles, guard against degenerate paths, publish  *)
(* the path and a LocalPlanStatus.  A cycle without a command, without a   *)
(* pose or on an inactive node does nothing.                               *)
(*                                                                         *)
(* The geometry of a cycle is reduced to what it finds (its observation)   *)
(* and to what the degenerate-path guards make of it (its guard).          *)
(***************************************************************************)
EXTENDS Integers

CONSTANTS
    MaxCommandId,      \* bound: the largest command id that is dispatched
    RecoveryConfirm,   \* dynamic_obstacle.recovery_confirm_cycles
    ProximityConfirm,  \* dynamic_obstacle.goal_proximity_confirm_cycles
    CorridorConfirm,   \* dynamic_obstacle.corridor_confirm_cycles
    ClearConfirm,      \* dynamic_obstacle.clear_confirm_cycles
    MaxDeactivations,  \* bound: lifecycle deactivations
    AllowCleanup       \* whether the node may be cleaned up or shut down

\* A count of cycles is taken as max(1, parameter), so 0 never occurs.
ASSUME ConfirmAssumption ==
    {RecoveryConfirm, ProximityConfirm, CorridorConfirm, ClearConfirm} \subseteq Nat \ {0}

ASSUME BoundsAssumption ==
    /\ MaxCommandId \in Nat
    /\ MaxDeactivations \in Nat
    /\ AllowCleanup \in BOOLEAN

VARIABLES
    lifecycle,      \* the node's state
    deactivations,  \* how often it was deactivated
    command,        \* latest_command_.command_id; 0 while has_command_ is false
    dynamic,        \* the dynamic-obstacle decision and its two streaks
    out,            \* the last LocalPlanStatus its publisher sent
    history         \* what the properties remember of earlier cycles

node == <<lifecycle, deactivations>>
vars == <<node, command, dynamic, out, history>>

-----------------------------------------------------------------------------
(* Values                                                                  *)

Blockages == {"proximity", "replan"}

\* What a cycle finds.  "mismatch": the source plan is empty, or in another
\* frame than the pose; "goal": the robot is within the goal tolerance;
\* "clear": the built path is free; otherwise a pose of it collides, near the
\* goal ("proximity") or not, and then near the robot or far from it.
Observations == {"mismatch", "goal", "clear", "proximity", "near", "far"}

BlockageOf(seen) == IF seen = "proximity" THEN "proximity" ELSE "replan"

\* The built path passes the guards, is replaced by a collision-free fallback
\* path, or is dropped.
Guards == {"kept", "fallback", "dropped"}

NoDecision == [decision |-> "ok", streak |-> 0, clear |-> 0]

NoStatus == [id |-> 0, valid |-> FALSE, required |-> FALSE, decision |-> "ok"]

\* blocked[b]: cycles of this command that found the path blocked in way b.
\* clearRun: the run of cycles that found it clear.
\* last: what the last cycle found and made of it.
\* beat: changes at every cycle, so that a cycle is never a stuttering step.
NoHistory ==
    [blocked |-> [b \in Blockages |-> 0], clearRun |-> 0, last |-> <<"none", "kept">>,
     beat |-> FALSE]

Largest(a, b) == IF a > b THEN a ELSE b

\* History counts and streaks stop here: no limit is larger.
Limit ==
    Largest(Largest(RecoveryConfirm, ProximityConfirm),
            Largest(CorridorConfirm, ClearConfirm))

Up(count) == IF count < Limit THEN count + 1 ELSE count

Configured == lifecycle \in {"inactive", "active"}

-----------------------------------------------------------------------------
Init ==
    /\ lifecycle = "inactive"
    /\ deactivations = 0
    /\ command = 0
    /\ dynamic = NoDecision
    /\ out = NoStatus
    /\ history = NoHistory

-----------------------------------------------------------------------------
(* The confirmation counters                                               *)

\* Mutant: every blocked cycle starts a new streak.
ConfirmBlockedAnew(from, blockage) ==
    [from EXCEPT !.decision = blockage, !.streak = 1]

\* confirm_dynamic_recovery_decision: a clear cycle in between does not
\* restart the streak, another kind of blockage does.
ConfirmBlocked(from, blockage) ==
    [from EXCEPT !.decision = blockage,
                 !.streak = IF from.decision = blockage THEN Up(@) ELSE 1]

\* Mutant: the run of clear cycles restarts at each of them.
ConfirmClearRestarting(from) == [from EXCEPT !.clear = 0]

\* confirm_dynamic_clear: a blocked cycle in between does not restart it.
ConfirmClear(from) ==
    IF from.decision = "ok" THEN [from EXCEPT !.clear = 0]
    ELSE IF from.clear + 1 < ClearConfirm THEN [from EXCEPT !.clear = @ + 1]
    ELSE NoDecision

\* required_dynamic_recovery_cycles.
RequiredCycles(seen) ==
    CASE seen = "proximity" -> ProximityConfirm
      [] seen = "far" /\ CorridorConfirm > RecoveryConfirm -> CorridorConfirm
      [] OTHER -> RecoveryConfirm

Confirmed(next, seen) == next.streak >= RequiredCycles(seen)

-----------------------------------------------------------------------------
(* One planning cycle                                                      *)

\* build_local_plan: what it does to the counters.
Judge(from, seen) ==
    CASE seen \in {"mismatch", "goal"} -> NoDecision
      [] seen = "clear" -> ConfirmClear(from)
      [] OTHER -> ConfirmBlocked(from, BlockageOf(seen))

Blocked(seen) == seen \in {"proximity", "near", "far"}

\* Mutant: a dropped path leaves the required recovery standing.
ReportKeepingRecovery(id, next, seen, guard) ==
    LET required == Blocked(seen) /\ Confirmed(next, seen)
        dropped == seen = "mismatch" \/ guard = "dropped" IN
      [id |-> id, valid |-> ~dropped,
       required |-> required /\ guard # "fallback",
       decision |-> CASE dropped -> "hard"
                      [] required /\ guard # "fallback" -> BlockageOf(seen)
                      [] OTHER -> "ok"]

\* The status; a dropped path is a hard blockage, a blocked path that is not
\* confirmed yet is reported as if it were free.
Report(id, next, seen, guard) ==
    LET dropped == seen = "mismatch" \/ guard = "dropped"
        required == /\ Blocked(seen)
                    /\ Confirmed(next, seen)
                    /\ guard = "kept" IN
      [id |-> id, valid |-> ~dropped, required |-> required /\ ~dropped,
       decision |-> CASE dropped -> "hard"
                      [] required -> BlockageOf(seen)
                      [] OTHER -> "ok"]

\* Within the goal tolerance and without a usable plan the guards do not apply.
Possible(seen, guard) == seen \in {"mismatch", "goal"} => guard = "kept"

Remember(past, seen, guard) ==
    [blocked |-> [b \in Blockages |->
                    IF Blocked(seen) /\ BlockageOf(seen) = b
                    THEN Up(past.blocked[b]) ELSE past.blocked[b]],
     clearRun |-> IF seen = "clear" THEN Up(past.clearRun) ELSE 0,
     last |-> <<seen, guard>>,
     beat |-> ~past.beat]

Cycle(id, from, past, seen, guard) ==
    /\ Possible(seen, guard)
    /\ dynamic' = Judge(from, seen)
    /\ out' = Report(id, dynamic', seen, guard)
    /\ history' = Remember(past, seen, guard)

-----------------------------------------------------------------------------
(* Timer and topics                                                        *)

PublishLocalPlan(seen, guard) ==
    /\ lifecycle = "active"
    /\ command # 0
    /\ Cycle(command, dynamic, history, seen, guard)
    /\ UNCHANGED <<node, command>>

\* Mutant: the counters survive a new command.
HandleMotionCommandKeepingStreaks(id) ==
    /\ Configured
    /\ command' = id
    /\ LET past == IF id = command THEN history ELSE NoHistory IN
         \/ /\ lifecycle = "active"
            /\ \E seen \in Observations, guard \in Guards :
                 Cycle(id, dynamic, past, seen, guard)
         \/ history' = past /\ UNCHANGED <<dynamic, out>>
    /\ UNCHANGED node

\* A new id starts from scratch; the cycle runs at once unless the node is
\* inactive or has no pose.
HandleMotionCommand(id) ==
    /\ Configured
    /\ command' = id
    /\ LET from == IF id = command THEN dynamic ELSE NoDecision
           past == IF id = command THEN history ELSE NoHistory IN
         \/ /\ lifecycle = "active"
            /\ \E seen \in Observations, guard \in Guards :
                 Cycle(id, from, past, seen, guard)
         \/ dynamic' = from /\ history' = past /\ UNCHANGED out
    /\ UNCHANGED node

-----------------------------------------------------------------------------
(* Lifecycle                                                               *)

OnConfigure ==
    /\ lifecycle = "unconfigured"
    /\ lifecycle' = "inactive"
    /\ UNCHANGED <<deactivations, command, dynamic, out, history>>

OnActivate ==
    /\ lifecycle = "inactive"
    /\ lifecycle' = "active"
    /\ UNCHANGED <<deactivations, command, dynamic, out, history>>

\* The command stays.
OnDeactivate ==
    /\ lifecycle = "active"
    /\ deactivations < MaxDeactivations
    /\ lifecycle' = "inactive"
    /\ deactivations' = deactivations + 1
    /\ UNCHANGED <<command, dynamic, out, history>>

\* The publisher goes; the clear streak is not among what is reset.
ReleaseResources(to) ==
    /\ AllowCleanup
    /\ lifecycle' = to
    /\ command' = 0
    /\ dynamic' = [NoDecision EXCEPT !.clear = dynamic.clear]
    /\ out' = NoStatus
    /\ history' = NoHistory
    /\ UNCHANGED deactivations

OnCleanup == lifecycle = "inactive" /\ ReleaseResources("unconfigured")

OnShutdown ==
    /\ lifecycle \in {"unconfigured", "inactive", "active"}
    /\ ReleaseResources("finalized")

-----------------------------------------------------------------------------
Timer == \E seen \in Observations, guard \in Guards : PublishLocalPlan(seen, guard)

\* The navigator's ids grow; a command may be delivered again.
Topics ==
    \E id \in 1 .. MaxCommandId : id >= command /\ HandleMotionCommand(id)

Lifecycle ==
    OnConfigure \/ OnActivate \/ OnDeactivate \/ OnCleanup \/ OnShutdown

Next == Timer \/ Topics \/ Lifecycle

Spec == Init /\ [][Next]_vars

\* The timer keeps firing and TF does not fail at every cycle for ever.
FairSpec == Spec /\ WF_vars(Timer)

-----------------------------------------------------------------------------
(* Properties                                                              *)

Decisions == {"ok", "proximity", "replan", "hard"}

\* Every variable stays in its type; the clear streak is always short of the
\* number of cycles that would have reset it.
TypeOK ==
    /\ lifecycle \in {"unconfigured", "inactive", "active", "finalized"}
    /\ deactivations \in 0 .. MaxDeactivations
    /\ command \in 0 .. MaxCommandId
    /\ dynamic \in [decision : {"ok"} \cup Blockages, streak : 0 .. Limit,
                    clear : 0 .. ClearConfirm - 1]
    /\ out \in [id : 0 .. MaxCommandId, valid : BOOLEAN, required : BOOLEAN,
                decision : Decisions]
    /\ history \in [blocked : [Blockages -> 0 .. Limit], clearRun : 0 .. Limit,
                    last : (Observations \cup {"none"}) \X Guards,
                    beat : BOOLEAN]

\* Recovery is required of a command only for blocked cycles of that command:
\* as many of the reported kind as that kind's smallest confirmation asks for.
\* No streak of the command before, and none of the other kind, counts.
RecoveryBelongsToCommand ==
    out.required /\ out.decision \in Blockages /\ out.id = command =>
        history.blocked[out.decision] >=
            IF out.decision = "proximity" THEN ProximityConfirm ELSE RecoveryConfirm

\* A pending decision does not outlive ClearConfirm clear cycles in a row: the
\* next obstacle has to be confirmed from the start.
ClearForgets == history.clearRun >= ClearConfirm => dynamic.decision = "ok"

\* When a recovery is required the blocked plan is still published as a valid
\* one; a plan that was dropped is a hard blockage without a recovery.
RecoveryKeepsPlan ==
    /\ out.required => out.valid /\ out.decision \in Blockages
    /\ out.id # 0 => (out.decision = "hard" <=> ~out.valid)

\* A path that stays blocked the same way leads to a required recovery.
BlockageIsReported ==
    \A seen \in {"proximity", "near", "far"} :
        <>[](lifecycle = "active" /\ history.last = <<seen, "kept">>)
            => <>[](out.required /\ out.id = command)
=============================================================================
