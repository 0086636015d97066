-------------------------- MODULE BtNavigatorProofs --------------------------
(***************************************************************************)
(* Theorems about BtNavigator, for any set of goals and any bounds.        *)
(*                                                                         *)
(* The type invariant needs one fact more, that a thread past its monitor  *)
(* loop has decided its outcome.  The rest follows from an invariant that  *)
(* ties a goal's state, its thread's position and the active handles to    *)
(* each other.  Most steps of a goal thread touch none of these: they are  *)
(* shown to be quiet once, and then handled together.                      *)
(***************************************************************************)
EXTENDS BtNavigator, TLAPS

-----------------------------------------------------------------------------
(* What the helpers of the goal thread do to the types                     *)

\* The variables of the group dispatch have their types.
DispatchOK ==
    /\ nextId \in Nat \ {0}
    /\ recent \in Seq(Commands)
    /\ latch \in Nat

\* A sent command is one more element of a sequence of commands.
LEMMA SendTypes ==
    ASSUME DispatchOK, NEW command \in Commands, Send(command)
    PROVE  recent' \in Seq(Commands) /\ latch' \in Nat
<1> DEFINE all == <<command>> \o recent
           n == IF Len(recent) < StatusLag THEN Len(recent) + 1 ELSE StatusLag
<1>1. all \in Seq(Commands) /\ Len(all) = Len(recent) + 1
  BY DEF DispatchOK
<1>2. n \in Nat /\ n <= Len(recent) + 1
  BY BoundsAssumption DEF DispatchOK, BoundsAssumption
<1>3. SubSeq(all, 1, n) \in Seq(Commands)
  <2> HIDE DEF all, n
  <2> QED BY <1>1, <1>2
<1> QED BY <1>3 DEF Send

\* Building and publishing a command keeps the counter, topic and latch typed.
LEMMA SendNewTypes ==
    ASSUME DispatchOK, NEW g \in Goals, NEW mode \in Modes, SendNew(g, mode)
    PROVE  DispatchOK'
<1>1. nextId' \in Nat \ {0}
  BY DEF DispatchOK, SendNew
<1>2. Command(nextId, mode, g) \in Commands
  BY DEF DispatchOK, Command, Commands
<1>3. CASE Publishing
  BY <1>1, <1>2, <1>3, SendTypes DEF SendNew, DispatchOK
<1>4. CASE ~Publishing
  BY <1>1, <1>4 DEF SendNew, DispatchOK
<1> QED BY <1>3, <1>4

\* So does a stop command, which is dropped while the node is inactive.
LEMMA PublishStopTypes ==
    ASSUME DispatchOK, NEW g \in Goals, PublishStop(g)
    PROVE  DispatchOK'
<1>1. "stop" \in Modes
  BY DEF Modes
<1>2. CASE Publishing
  BY <1>1, <1>2, SendNewTypes DEF PublishStop
<1>3. CASE ~Publishing
  BY <1>3 DEF PublishStop, dispatch, DispatchOK
<1> QED BY <1>2, <1>3

\* The variables of a goal thread have their types, and a thread past its
\* monitor loop has an outcome.
ThreadOK ==
    /\ pc \in [Goals -> Steps]
    /\ bb \in [Goals -> Blackboards]
    /\ \A g \in Goals :
         pc[g] \in {"stop", "result", "finalize", "commit"} =>
             bb[g].outcome # "running"

\* A step keeps the threads well formed if it writes a well-formed board and
\* goes where that board may be.
LEMMA BoardTypes ==
    ASSUME ThreadOK, NEW g \in Goals, NEW board \in Blackboards, NEW step \in Steps,
           bb' = [bb EXCEPT ![g] = board],
           pc' = [pc EXCEPT ![g] = step],
           step \in {"stop", "result", "finalize", "commit"} =>
               board.outcome # "running"
    PROVE  ThreadOK'
  BY DEF ThreadOK

\* A step that leaves the board alone and moves on within the monitor loop.
LEMMA GotoTypes ==
    ASSUME ThreadOK, NEW g \in Goals, NEW step \in Steps, Goto(g, step),
           UNCHANGED bb,
           step \in {"stop", "result", "finalize", "commit"} =>
               bb[g].outcome # "running"
    PROVE  ThreadOK'
  BY DEF ThreadOK, Goto

\* Leaving the monitor loop decides the outcome.
LEMMA ConcludeTypes ==
    ASSUME ThreadOK, NEW g \in Goals, NEW board \in Blackboards,
           NEW outcome \in {"succeeded", "canceled", "aborted"},
           Conclude(g, board, outcome)
    PROVE  ThreadOK'
<1>1. [board EXCEPT !.outcome = outcome] \in Blackboards
  BY DEF Blackboards, Outcomes
<1>2. [board EXCEPT !.outcome = outcome].outcome # "running"
  BY DEF Blackboards
<1>3. "result" \in Steps
  BY DEF Steps
<1> QED
  <2> DEFINE next == [board EXCEPT !.outcome = outcome]
  <2>1. bb' = [bb EXCEPT ![g] = next] /\ pc' = [pc EXCEPT ![g] = "result"]
    BY DEF Conclude, Goto
  <2> HIDE DEF next
  <2>2. next \in Blackboards /\ next.outcome # "running"
    BY <1>1, <1>2 DEF next
  <2> QED BY <1>3, <2>1, <2>2, BoardTypes

\* The three ways out of a recovery cycle that more than one step takes.
LEMMA FinishCanceledTypes ==
    ASSUME ThreadOK, DispatchOK, NEW g \in Goals, FinishCanceled(g)
    PROVE  ThreadOK' /\ DispatchOK'
<1>1. [bb[g] EXCEPT !.since = "zero", !.window = "off"] \in Blackboards
  BY DEF ThreadOK, Blackboards
<1>2. ThreadOK'
  BY <1>1, ConcludeTypes DEF FinishCanceled
<1> QED BY <1>2, PublishStopTypes DEF FinishCanceled

\* Aborting a recovery keeps the types.
LEMMA StopAndAbortTypes ==
    ASSUME ThreadOK, DispatchOK, NEW g \in Goals, NEW n \in Nat, StopAndAbort(g, n)
    PROVE  ThreadOK' /\ DispatchOK'
<1>1. [bb[g] EXCEPT !.attempts = n] \in Blackboards
  BY DEF ThreadOK, Blackboards
<1>2. ThreadOK'
  BY <1>1, ConcludeTypes DEF StopAndAbort
<1> QED BY <1>2, PublishStopTypes DEF StopAndAbort

\* Redispatching keeps the types.
LEMMA RedispatchTypes ==
    ASSUME ThreadOK, DispatchOK, NEW g \in Goals, NEW board \in Blackboards,
           Redispatch(g, board)
    PROVE  ThreadOK' /\ DispatchOK'
<1> DEFINE next == [CycleOver(board) EXCEPT !.active = nextId,
                                            !.settled = FALSE, !.window = "open"]
<1>1. next \in Blackboards
  BY DEF Blackboards, CycleOver, NoPlanReport, PlanStatuses, AllPlanReports,
         Behaviors, DispatchOK
<1>2. bb' = [bb EXCEPT ![g] = next] /\ pc' = [pc EXCEPT ![g] = "cancel"]
  BY DEF Redispatch, Goto
<1>3. ThreadOK'
  <2> HIDE DEF next
  <2>1. "cancel" \in Steps
    BY DEF Steps
  <2> QED BY <1>1, <1>2, <2>1, BoardTypes
<1>4. "navigate" \in Modes
  BY DEF Modes
<1> QED BY <1>3, <1>4, SendNewTypes DEF Redispatch

\* A failed call keeps the types.
LEMMA CallFailsTypes ==
    ASSUME ThreadOK, DispatchOK, NEW g \in Goals,
           NEW step \in {"cancel", "escape", "replan", "behavior", "tail"},
           CallFails(g, step)
    PROVE  ThreadOK' /\ DispatchOK'
<1>1. CASE Canceling(g)
  BY <1>1, FinishCanceledTypes DEF CallFails
<1>2. CASE ~Canceling(g)
  <2>1. step \in Steps
    BY DEF Steps
  <2>2. ThreadOK'
    BY <1>2, <2>1, GotoTypes DEF CallFails
  <2> QED BY <1>2, <2>2 DEF CallFails, DispatchOK, dispatch
<1> QED BY <1>1, <1>2

\* A spent attempt keeps the types.
LEMMA SpendAttemptTypes ==
    ASSUME ThreadOK, DispatchOK, NEW g \in Goals, SpendAttempt(g)
    PROVE  ThreadOK' /\ DispatchOK'
<1>1. bb[g].attempts + 1 \in Nat
  BY DEF ThreadOK, Blackboards
<1>2. [bb[g] EXCEPT !.attempts = bb[g].attempts + 1] \in Blackboards
  BY <1>1 DEF ThreadOK, Blackboards
<1>3. CASE bb[g].attempts + 1 >= MaxRetries
  BY <1>1, <1>3, StopAndAbortTypes DEF SpendAttempt
<1>4. CASE ~(bb[g].attempts + 1 >= MaxRetries)
  BY <1>2, <1>4, RedispatchTypes DEF SpendAttempt
<1> QED BY <1>3, <1>4

-----------------------------------------------------------------------------
(* Type correctness                                                        *)

\* The variables that no step of the monitor or of a recovery cycle writes.
WorldOK ==
    /\ lifecycle \in Lifecycles
    /\ orphans \subseteq Goals
    /\ deactivations \in Nat
    /\ status \in [Goals -> Statuses]
    /\ handle \in [Kinds -> Goals \cup {NoGoal}]
    /\ finalized \subseteq Goals
    /\ motionStatus \in Reports
    /\ planStatus \in PlanStatuses
    /\ completed \in [Goals -> Nat]
    /\ reached \in [Goals -> Nat]

TypeInv == WorldOK /\ DispatchOK /\ ThreadOK

\* The first board of a goal is well formed.
LEMMA FreshBoardType == FreshBlackboard \in Blackboards
  BY DEF FreshBlackboard, Blackboards, Outcomes, NoPlanReport, PlanStatuses,
         AllPlanReports, Behaviors

\* The initial state is well typed.
LEMMA TypeInit == Init => TypeInv
<1> SUFFICES ASSUME Init PROVE TypeInv
  OBVIOUS
<1>1. WorldOK
  BY DEF Init, WorldOK, Lifecycles, Statuses, NoReport, Reports, NoPlanReport,
         PlanStatuses, AllPlanReports
<1>2. DispatchOK
  BY DEF Init, DispatchOK
<1>3. ThreadOK
  BY FreshBoardType DEF Init, ThreadOK, Steps
<1> QED BY <1>1, <1>2, <1>3 DEF TypeInv

\* A request of a client keeps the types.
LEMMA ClientTypes ==
    ASSUME TypeInv, NEW g \in Goals, ClientRequest(g)
    PROVE  TypeInv'
<1> USE DEF TypeInv, WorldOK, shared, dispatch, reports
<1>1. CASE HandleGoal(g)
  <2>1. WorldOK'
    BY <1>1, GoalsAssumption DEF HandleGoal, HandleAccepted, Statuses, Kinds
  <2>2. DispatchOK'
    BY <1>1 DEF HandleGoal, HandleAccepted, DispatchOK
  <2>3. ThreadOK'
    <3>1. CASE HasActiveGoal \/ lifecycle # "active"
      BY <1>1, <3>1 DEF HandleGoal, HandleAccepted, ThreadOK
    <3>2. CASE ~(HasActiveGoal \/ lifecycle # "active")
      <4>1. Goto(g, "start") /\ UNCHANGED bb
        BY <1>1, <3>2 DEF HandleGoal, HandleAccepted
      <4>2. "start" \in Steps
        BY DEF Steps
      <4> QED BY <4>1, <4>2, GotoTypes
    <3> QED BY <3>1, <3>2
  <2> QED BY <2>1, <2>2, <2>3
<1>2. CASE RefuseMalformedGoal(g)
  BY <1>2 DEF RefuseMalformedGoal, DispatchOK, ThreadOK, Statuses
<1>3. CASE HandleCancel(g)
  BY <1>3 DEF HandleCancel, DispatchOK, ThreadOK, Statuses
<1> QED BY <1>1, <1>2, <1>3 DEF ClientRequest

\* A delivered status keeps the types.
LEMMA CallbackTypes ==
    ASSUME TypeInv, Callback
    PROVE  TypeInv'
<1> USE DEF TypeInv, shared, dispatch, reports
<1>1. CASE HandleMotionStatus
  <2>1. PICK i \in DOMAIN recent : \E kind \in ReportsOf(recent[i]) :
           /\ motionStatus' = [id |-> recent[i].id, kind |-> kind]
           /\ latch' = IF kind = "done" THEN recent[i].id ELSE latch
           /\ \/ reached' = reached
              \/ reached' = [reached EXCEPT ![recent[i].goal] =
                               completed[recent[i].goal] + 1]
    BY <1>1 DEF HandleMotionStatus
  <2>2. recent[i] \in Commands
    BY DEF DispatchOK
  <2>3. recent[i].id \in Nat /\ recent[i].goal \in Goals
    BY <2>2 DEF Commands
  <2>4. reached' \in [Goals -> Nat]
    BY <2>1, <2>3 DEF WorldOK
  <2>5. motionStatus' \in Reports /\ latch' \in Nat
    BY <2>1, <2>3 DEF DispatchOK, Reports, ReportsOf
  <2> QED BY <1>1, <2>4, <2>5 DEF HandleMotionStatus, WorldOK, DispatchOK, ThreadOK
<1>2. CASE HandleIdleStatus
  BY <1>2 DEF HandleIdleStatus, WorldOK, DispatchOK, ThreadOK, NoReport, Reports
<1>3. CASE HandleLocalPlanStatus
  <2>1. PICK i \in DOMAIN recent : \E kind \in PlanReports \cup {"pending"} :
           planStatus' = [id |-> recent[i].id, kind |-> kind]
    BY <1>3 DEF HandleLocalPlanStatus
  <2>2. recent[i] \in Commands
    BY DEF DispatchOK
  <2>3. planStatus' \in PlanStatuses
    BY <2>1, <2>2, BoundsAssumption
    DEF Commands, PlanStatuses, BoundsAssumption, AllPlanReports
  <2> QED BY <1>3, <2>3 DEF HandleLocalPlanStatus, WorldOK, DispatchOK, ThreadOK
<1> QED BY <1>1, <1>2, <1>3 DEF Callback

\* A lifecycle transition keeps the types.
LEMMA LifecycleTypes ==
    ASSUME TypeInv, Lifecycle
    PROVE  TypeInv'
<1> USE DEF TypeInv, WorldOK, DispatchOK, ThreadOK, Lifecycles, shared, dispatch, reports
<1>1. CASE OnConfigure
  BY <1>1 DEF OnConfigure
<1>2. CASE OnActivate
  BY <1>2 DEF OnActivate
<1>3. CASE OnDeactivate
  BY <1>3 DEF OnDeactivate
<1>4. ASSUME NEW to \in {"unconfigured", "finalized"}, ReleaseResources(to)
      PROVE  TypeInv'
  BY <1>4 DEF ReleaseResources, NoReport, Reports, NoPlanReport, PlanStatuses,
              AllPlanReports
<1> QED BY <1>1, <1>2, <1>3, <1>4 DEF Lifecycle, OnCleanup, OnShutdown

\* An elapsed delay keeps the types.
LEMMA DelayTypes ==
    ASSUME TypeInv, NEW g \in Goals, Delay(g)
    PROVE  TypeInv'
<1>1. WorldOK' /\ DispatchOK'
  BY DEF Delay, SettleElapses, DebounceElapses, ReacquireWindowElapses,
         TypeInv, WorldOK, DispatchOK, shared, dispatch, reports
<1>2. bb[g] \in Blackboards
  BY DEF TypeInv, ThreadOK
<1>3. /\ [bb[g] EXCEPT !.settled = TRUE] \in Blackboards
      /\ [bb[g] EXCEPT !.since = "elapsed"] \in Blackboards
      /\ [bb[g] EXCEPT !.window = "expired"] \in Blackboards
  BY <1>2 DEF Blackboards
<1>4. PICK board \in Blackboards : bb' = [bb EXCEPT ![g] = board]
  BY <1>3 DEF Delay, SettleElapses, DebounceElapses, ReacquireWindowElapses
<1>5. UNCHANGED pc /\ pc[g] \in {"cancel", "goal", "recovery"}
  BY DEF Delay, SettleElapses, DebounceElapses, ReacquireWindowElapses, Monitoring
<1>6. ThreadOK'
  BY <1>4, <1>5 DEF TypeInv, ThreadOK
<1> QED BY <1>1, <1>6 DEF TypeInv

\* The steps up to the dispatch keep the types.
LEMMA PlanningTypes ==
    ASSUME TypeInv, NEW g \in Goals, Planning(g)
    PROVE  TypeInv'
<1> USE DEF TypeInv
<1>1. WorldOK'
  BY DEF Planning, StartPose, CheckReady, WaitForPlannerService,
         RequestGlobalPlan, PublishMotionCommand, WorldOK, shared, reports
<1>2. ASSUME PlanFails(g) PROVE ThreadOK' /\ DispatchOK'
  BY <1>2, ConcludeTypes DEF PlanFails, ThreadOK, DispatchOK, dispatch
<1>3. ASSUME NEW step \in {"planner", "plan", "dispatch"},
             Goto(g, step), UNCHANGED <<bb, dispatch>>
      PROVE  ThreadOK' /\ DispatchOK'
  <2>1. step \in Steps
    BY DEF Steps
  <2> QED BY <1>3, <2>1, GotoTypes DEF DispatchOK, dispatch
<1>4. CASE StartPose(g)
  <2>1. DispatchOK'
    BY <1>4 DEF StartPose, DispatchOK, dispatch
  <2>2. CASE Conclude(g, FreshBlackboard, "canceled")
    BY <1>1, <2>1, <2>2, ConcludeTypes, FreshBoardType
  <2>3. CASE bb' = [bb EXCEPT ![g] = FreshBlackboard] /\ Goto(g, "ready")
    <3>1. "ready" \in Steps
      BY DEF Steps
    <3> QED BY <1>1, <2>1, <2>3, <3>1, FreshBoardType, BoardTypes DEF Goto
  <2> QED BY <1>4, <2>2, <2>3 DEF StartPose
<1>5. CASE CheckReady(g)
  BY <1>1, <1>2, <1>3, <1>5 DEF CheckReady
<1>6. CASE WaitForPlannerService(g)
  BY <1>1, <1>2, <1>3, <1>6 DEF WaitForPlannerService
<1>7. CASE RequestGlobalPlan(g)
  BY <1>1, <1>2, <1>3, <1>7 DEF RequestGlobalPlan
<1>8. CASE PublishMotionCommand(g)
  <2>1. DispatchOK'
    <3>1. "navigate" \in Modes
      BY DEF Modes
    <3> QED BY <1>8, <3>1, SendNewTypes DEF PublishMotionCommand
  <2> DEFINE board == [bb[g] EXCEPT !.active = nextId, !.settled = FALSE,
                         !.since = "zero", !.escaped = FALSE, !.attempts = 0]
  <2>2. board \in Blackboards
    BY DEF ThreadOK, DispatchOK, Blackboards
  <2>3. bb' = [bb EXCEPT ![g] = board] /\ pc' = [pc EXCEPT ![g] = "cancel"]
    BY <1>8 DEF PublishMotionCommand, Goto, ThreadOK, Blackboards
  <2>4. "cancel" \in Steps
    BY DEF Steps
  <2>5. ThreadOK'
    <3> HIDE DEF board
    <3> QED BY <2>2, <2>3, <2>4, BoardTypes
  <2> QED BY <1>1, <2>1, <2>5
<1> QED BY <1>1, <1>4, <1>5, <1>6, <1>7, <1>8 DEF Planning

\* The steps of the monitor loop keep the types.
LEMMA MonitorTypes ==
    ASSUME TypeInv, NEW g \in Goals, Monitor(g)
    PROVE  TypeInv'
<1> USE DEF TypeInv
<1>1. WorldOK'
  BY DEF Monitor, CheckCancelRequested, CheckGoalReached, StopAndMark,
         CheckRecoveryNeeded, WorldOK, shared, reports
<1>a. /\ "goal" \in Steps /\ "stop" \in Steps /\ "cycle" \in Steps
      /\ "cancel" \in Steps /\ "recovery" \in Steps
  BY DEF Steps
<1>b. bb[g] \in Blackboards
  BY DEF ThreadOK
<1>c. ASSUME NEW outcome \in {"succeeded", "canceled"},
             bb' = [bb EXCEPT ![g].outcome = outcome], Goto(g, "stop")
      PROVE  ThreadOK'
  <2> DEFINE board == [bb[g] EXCEPT !.outcome = outcome]
  <2>1. board \in Blackboards /\ board.outcome # "running"
    BY <1>b DEF Blackboards, Outcomes
  <2>2. bb' = [bb EXCEPT ![g] = board] /\ pc' = [pc EXCEPT ![g] = "stop"]
    BY <1>c DEF Goto
  <2> HIDE DEF board
  <2> QED BY <1>a, <2>1, <2>2, BoardTypes
<1>2. CASE CheckCancelRequested(g)
  <2>1. DispatchOK'
    BY <1>2 DEF CheckCancelRequested, DispatchOK, dispatch
  <2>2. CASE bb' = [bb EXCEPT ![g].outcome = "canceled"] /\ Goto(g, "stop")
    BY <1>1, <1>c, <2>1, <2>2
  <2>3. CASE Goto(g, "goal") /\ UNCHANGED bb
    BY <1>1, <1>a, <2>1, <2>3, GotoTypes
  <2> QED BY <1>2, <2>2, <2>3 DEF CheckCancelRequested
<1>3. CASE CheckGoalReached(g)
  <2>1. bb[g].active \in Nat
    BY <1>b DEF Blackboards
  <2>2. DispatchOK'
    BY <1>3, <2>1 DEF CheckGoalReached, DispatchOK
  <2>3. \/ bb' = [bb EXCEPT ![g].outcome = "succeeded"] /\ Goto(g, "stop")
        \/ Goto(g, "recovery") /\ UNCHANGED bb
    BY <1>3 DEF CheckGoalReached
  <2> QED BY <1>1, <1>a, <1>c, <2>2, <2>3, GotoTypes
<1>4. CASE StopAndMark(g)
  BY <1>1, <1>4, PublishStopTypes DEF StopAndMark, At, Goto, ThreadOK, Steps
<1>5. CASE CheckRecoveryNeeded(g)
  <2>1. DispatchOK'
    BY <1>5 DEF CheckRecoveryNeeded, DispatchOK, dispatch
  <2>2. /\ [bb[g] EXCEPT !.window = "off", !.since = "zero", !.escaped = FALSE]
              \in Blackboards
        /\ [bb[g] EXCEPT !.window = "off", !.since = "running"] \in Blackboards
        /\ [bb[g] EXCEPT !.since = "zero"] \in Blackboards
        /\ [bb[g] EXCEPT !.since = "running"] \in Blackboards
    BY <1>b DEF Blackboards
  <2>3. \/ Goto(g, "cycle") /\ UNCHANGED bb
        \/ \E board \in Blackboards :
             bb' = [bb EXCEPT ![g] = board] /\ Goto(g, "cancel")
    BY <1>5, <1>b, <2>2 DEF CheckRecoveryNeeded
  <2>4. ThreadOK'
    BY <1>a, <2>3, GotoTypes, BoardTypes DEF Goto
  <2> QED BY <1>1, <2>1, <2>4
<1> QED BY <1>2, <1>3, <1>4, <1>5 DEF Monitor

\* The steps of a recovery cycle keep the types.
LEMMA RecoveryTypes ==
    ASSUME TypeInv, NEW g \in Goals, RecoveryCycle(g)
    PROVE  TypeInv'
<1> USE DEF TypeInv
<1>0. WorldOK'
  BY DEF RecoveryCycle, StartCycle, WaitForRecoveryServices, ClearLocalCostmap,
         RequestLocalEscape, ReplanForPlanner, RequestRecoveryCommand,
         AwaitRecoveryCommand, CountAttempt, ReplanAfterRecovery,
         WorldOK, shared, reports
<1>a. ASSUME NEW step \in {"cancel", "clear", "escape", "replan", "behavior", "tail"},
             Goto(g, step), UNCHANGED <<bb, dispatch>>
      PROVE  ThreadOK' /\ DispatchOK'
  <2>1. step \in Steps
    BY DEF Steps
  <2> QED BY <1>a, <2>1, GotoTypes DEF DispatchOK, dispatch
<1>b. bb[g] \in Blackboards /\ planStatus \in PlanStatuses
  BY DEF ThreadOK, WorldOK
<1>c. AfterEscape(g) \in {"replan", "behavior"}
  BY DEF AfterEscape
<1>1. CASE StartCycle(g)
  <2>1. CASE FinishCanceled(g)
    BY <1>0, <2>1, FinishCanceledTypes
  <2>2. CASE /\ bb' = [bb EXCEPT ![g].since = "zero", ![g].window = "off",
                                 ![g].escaped = FALSE]
             /\ Goto(g, "cancel") /\ UNCHANGED dispatch
    <3> DEFINE board == [bb[g] EXCEPT !.since = "zero", !.window = "off",
                                      !.escaped = FALSE]
    <3>1. board \in Blackboards /\ "cancel" \in Steps
      BY <1>b DEF Blackboards, Steps
    <3>2. bb' = [bb EXCEPT ![g] = board] /\ pc' = [pc EXCEPT ![g] = "cancel"]
      BY <2>2 DEF Goto, ThreadOK
    <3>3. ThreadOK'
      <4> HIDE DEF board
      <4> QED BY <3>1, <3>2, BoardTypes
    <3> QED BY <1>0, <2>2, <3>3 DEF DispatchOK, dispatch
  <2>3. CASE /\ PublishStop(g) /\ bb' = [bb EXCEPT ![g].snap = planStatus]
             /\ Goto(g, "services")
    <3>1. ThreadOK'
      BY <1>b, <2>3 DEF ThreadOK, Goto, Blackboards, Steps
    <3> QED BY <1>0, <2>3, <3>1, PublishStopTypes
  <2> QED BY <1>1, <2>1, <2>2, <2>3 DEF StartCycle
<1>2. CASE WaitForRecoveryServices(g)
  <2>1. CASE Conclude(g, bb[g], "aborted") /\ UNCHANGED dispatch
    BY <1>0, <1>b, <2>1, ConcludeTypes DEF DispatchOK, dispatch
  <2> QED BY <1>0, <1>2, <1>a, <2>1, FinishCanceledTypes DEF WaitForRecoveryServices
<1>3. CASE ClearLocalCostmap(g)
  BY <1>0, <1>3, <1>a, <1>c, CallFailsTypes DEF ClearLocalCostmap
<1>4. CASE RequestLocalEscape(g)
  <2>1. [bb[g] EXCEPT !.escaped = TRUE] \in Blackboards
    BY <1>b DEF Blackboards
  <2> QED BY <1>0, <1>4, <1>c, <2>1, RedispatchTypes, CallFailsTypes
          DEF RequestLocalEscape
<1>5. CASE ReplanForPlanner(g)
  BY <1>0, <1>5, SpendAttemptTypes, CallFailsTypes DEF ReplanForPlanner
<1>6. CASE RequestRecoveryCommand(g)
  <2>1. CASE CallFails(g, "tail")
    BY <1>0, <2>1, CallFailsTypes
  <2>2. CASE /\ SendNew(g, "recovery")
             /\ bb' = [bb EXCEPT ![g].behavior = Behavior(g), ![g].awaited = nextId]
             /\ Goto(g, "await")
    <3>1. "recovery" \in Modes
      BY DEF Modes
    <3>2. Behavior(g) \in Behaviors
      BY DEF Behavior, Behaviors
    <3>3. ThreadOK'
      <4> DEFINE board == [bb[g] EXCEPT !.behavior = Behavior(g), !.awaited = nextId]
      <4>1. board \in Blackboards /\ "await" \in Steps
        BY <1>b, <3>2 DEF DispatchOK, Blackboards, Steps
      <4>2. bb' = [bb EXCEPT ![g] = board] /\ pc' = [pc EXCEPT ![g] = "await"]
        BY <2>2 DEF Goto, ThreadOK
      <4> HIDE DEF board
      <4> QED BY <4>1, <4>2, BoardTypes
    <3> QED BY <1>0, <2>2, <3>1, <3>3, SendNewTypes
  <2> QED BY <1>6, <2>1, <2>2 DEF RequestRecoveryCommand
<1>7. CASE AwaitRecoveryCommand(g)
  BY <1>0, <1>7, <1>a, SpendAttemptTypes, CallFailsTypes DEF AwaitRecoveryCommand
<1>8. CASE CountAttempt(g)
  <2> DEFINE n == bb[g].attempts + 1
             board == [CycleOver(bb[g]) EXCEPT !.attempts = n]
  <2>1. n \in Nat
    BY <1>b DEF Blackboards
  <2>2. CASE StopAndAbort(g, n)
    BY <1>0, <2>1, <2>2, StopAndAbortTypes
  <2>3. CASE /\ bb' = [bb EXCEPT ![g] = board]
             /\ Goto(g, "freshplan") /\ UNCHANGED dispatch
    <3>1. board \in Blackboards
      BY <1>b, <2>1 DEF Blackboards, CycleOver, NoPlanReport, PlanStatuses,
                        AllPlanReports, Behaviors
    <3>2. "freshplan" \in Steps
      BY DEF Steps
    <3>3. ThreadOK'
      <4> HIDE DEF board
      <4> QED BY <2>3, <3>1, <3>2, BoardTypes DEF Goto
    <3> QED BY <1>0, <2>3, <3>3 DEF DispatchOK, dispatch
  <2> QED BY <1>8, <2>2, <2>3 DEF CountAttempt
<1>9. CASE ReplanAfterRecovery(g)
  BY <1>0, <1>9, <1>b, RedispatchTypes, CallFailsTypes DEF ReplanAfterRecovery
<1> QED
  BY <1>1, <1>2, <1>3, <1>4, <1>5, <1>6, <1>7, <1>8, <1>9 DEF RecoveryCycle

\* The end of a waypoint and of a goal keeps the types.
LEMMA CompletionTypes ==
    ASSUME TypeInv, NEW g \in Goals, Completion(g)
    PROVE  TypeInv'
<1> USE DEF TypeInv
<1>1. DispatchOK'
  BY DEF Completion, WaypointResult, FinalizeRead, FinalizeCommit, ReleaseHandle,
         DispatchOK, dispatch
<1>2. CASE WaypointResult(g)
  BY <1>1, <1>2 DEF WaypointResult, At, Goto, WorldOK, ThreadOK, Steps, shared, reports
<1>3. CASE FinalizeRead(g)
  <2> DEFINE board == [bb[g] EXCEPT !.canceling = Canceling(g)]
  <2>1. board \in Blackboards /\ board.outcome = bb[g].outcome
    BY DEF ThreadOK, Blackboards, Canceling
  <2>2. bb' = [bb EXCEPT ![g] = board] /\ pc' = [pc EXCEPT ![g] = "commit"]
    BY <1>3 DEF FinalizeRead, Goto
  <2>3. "commit" \in Steps /\ bb[g].outcome # "running"
    BY <1>3 DEF Steps, FinalizeRead, At, ThreadOK
  <2>4. ThreadOK'
    <3> HIDE DEF board
    <3> QED BY <2>1, <2>2, <2>3, BoardTypes
  <2>5. WorldOK'
    BY <1>3 DEF FinalizeRead, WorldOK, shared, reports
  <2> QED BY <1>1, <2>4, <2>5
<1>4. CASE FinalizeCommit(g)
  <2>1. FinalStatus(g) \in Statuses
    BY <1>4 DEF FinalizeCommit, At, ThreadOK, FinalStatus, Statuses, Blackboards, Outcomes
  <2>2. WorldOK'
    BY <1>4, <2>1 DEF FinalizeCommit, WorldOK, reports
  <2> QED BY <1>1, <1>4, <2>2 DEF FinalizeCommit, Goto, ThreadOK, Steps
<1>5. CASE ReleaseHandle(g)
  <2>1. ThreadOK'
    <3>1. "done" \in Steps
      BY DEF Steps
    <3> QED BY <1>5, <3>1, FreshBoardType, BoardTypes DEF ReleaseHandle, Goto
  <2>2. WorldOK'
    BY <1>5, GoalsAssumption DEF ReleaseHandle, WorldOK, reports
  <2> QED BY <1>1, <2>1, <2>2
<1> QED BY <1>2, <1>3, <1>4, <1>5 DEF Completion

\* Every step keeps the types.
LEMMA TypeStep == TypeInv /\ [Next]_vars => TypeInv'
<1> SUFFICES ASSUME TypeInv, [Next]_vars PROVE TypeInv'
  OBVIOUS
<1>1. CASE UNCHANGED vars
  BY <1>1 DEF vars, shared, dispatch, reports, TypeInv, WorldOK, DispatchOK, ThreadOK
<1>2. CASE Environment
  BY <1>2, ClientTypes, CallbackTypes, LifecycleTypes DEF Environment
<1>3. ASSUME NEW g \in Goals, GoalThread(g) PROVE TypeInv'
  <2>1. CASE CallNullClient(g)
    BY <2>1 DEF CallNullClient, TypeInv, WorldOK, DispatchOK, ThreadOK, Lifecycles,
                dispatch, reports
  <2>2. CASE TickThrows(g)
    <3>1. WorldOK' /\ DispatchOK'
      BY <2>2 DEF TickThrows, TypeInv, WorldOK, DispatchOK, shared, dispatch, reports
    <3>2. bb[g] \in Blackboards
      BY DEF TypeInv, ThreadOK
    <3> QED BY <2>2, <3>1, <3>2, ConcludeTypes DEF TickThrows, TypeInv
  <2> QED BY <1>3, <2>1, <2>2, PlanningTypes, MonitorTypes, RecoveryTypes,
             CompletionTypes DEF GoalThread
<1>4. ASSUME NEW g \in Goals, Delay(g) PROVE TypeInv'
  BY <1>4, DelayTypes
<1> QED BY <1>1, <1>2, <1>3, <1>4 DEF Next

\* Every variable of the navigator stays in its type, whatever the goals, the
\* bounds and the order of callbacks, transitions and goal threads.
THEOREM TypeCorrect == Spec => []TypeOK
<1>1. TypeInv => TypeOK
  BY DEF TypeInv, WorldOK, DispatchOK, ThreadOK, TypeOK
<1> QED BY <1>1, TypeInit, TypeStep, PTL DEF Spec

-----------------------------------------------------------------------------
(* The steps of a goal thread before it finalizes                          *)

\* Where a goal thread is while its goal still has no result.
Busy == Steps \ {"none", "commit", "release", "done"}

\* A step of g's thread that leaves the action state alone and concludes
\* "canceled" only because of a cancel request.
QuietStep(g) ==
    /\ UNCHANGED <<status, handle, finalized>>
    /\ pc[g] \in Busy /\ pc'[g] \in Busy
    /\ \A h \in Goals \ {g} : pc'[h] = pc[h] /\ bb'[h] = bb[h]
    /\ bb'[g].outcome = "canceled" =>
          bb[g].outcome = "canceled" \/ Canceling(g)

\* A move that leaves the board alone, or writes one that has the outcome of
\* the old one or concludes "canceled" for a canceled goal, is quiet.
LEMMA QuietMove ==
    ASSUME TypeInv, TypeInv', NEW g \in Goals, NEW step \in Busy,
           UNCHANGED <<status, handle, finalized>>,
           pc[g] \in Busy, Goto(g, step),
           NEW board \in Blackboards, bb' = [bb EXCEPT ![g] = board],
           board.outcome = "canceled" =>
               bb[g].outcome = "canceled" \/ Canceling(g)
    PROVE  QuietStep(g)
  BY DEF TypeInv, ThreadOK, QuietStep, Goto

\* A move alone is quiet.
LEMMA QuietGoto ==
    ASSUME TypeInv, NEW g \in Goals, NEW step \in Busy,
           UNCHANGED <<status, handle, finalized>>,
           pc[g] \in Busy, Goto(g, step), UNCHANGED bb
    PROVE  QuietStep(g)
  BY DEF TypeInv, ThreadOK, QuietStep, Goto

\* Concluding a pose is quiet if "canceled" answers a cancel request.
LEMMA QuietConclude ==
    ASSUME TypeInv, TypeInv', NEW g \in Goals, NEW board \in Blackboards,
           NEW outcome \in {"succeeded", "canceled", "aborted"},
           UNCHANGED <<status, handle, finalized>>,
           pc[g] \in Busy, Conclude(g, board, outcome),
           outcome = "canceled" => Canceling(g)
    PROVE  QuietStep(g)
<1> DEFINE next == [board EXCEPT !.outcome = outcome]
<1>1. next \in Blackboards /\ next.outcome = outcome
  BY DEF Blackboards, Outcomes
<1>2. bb' = [bb EXCEPT ![g] = next] /\ Goto(g, "result")
  BY DEF Conclude
<1>3. "result" \in Busy
  BY DEF Busy, Steps
<1> HIDE DEF next
<1> QED BY <1>1, <1>2, <1>3, QuietMove

\* Ending a recovery cycle on a cancel request is quiet.
LEMMA QuietFinishCanceled ==
    ASSUME TypeInv, TypeInv', NEW g \in Goals, Canceling(g), FinishCanceled(g),
           UNCHANGED <<status, handle, finalized>>, pc[g] \in Busy
    PROVE  QuietStep(g)
<1>1. [bb[g] EXCEPT !.since = "zero", !.window = "off"] \in Blackboards
  BY DEF TypeInv, ThreadOK, Blackboards
<1> QED BY <1>1, QuietConclude DEF FinishCanceled

\* A call of the cycle that fails is quiet.
LEMMA QuietCallFails ==
    ASSUME TypeInv, TypeInv', NEW g \in Goals, NEW step \in Busy,
           CallFails(g, step),
           UNCHANGED <<status, handle, finalized>>, pc[g] \in Busy
    PROVE  QuietStep(g)
  BY QuietFinishCanceled, QuietGoto DEF CallFails

\* Aborting a recovery is quiet.
LEMMA QuietStopAndAbort ==
    ASSUME TypeInv, TypeInv', NEW g \in Goals, NEW n \in Nat, StopAndAbort(g, n),
           UNCHANGED <<status, handle, finalized>>, pc[g] \in Busy
    PROVE  QuietStep(g)
<1>1. [bb[g] EXCEPT !.attempts = n] \in Blackboards
  BY DEF TypeInv, ThreadOK, Blackboards
<1> QED BY <1>1, QuietConclude DEF StopAndAbort

\* Redispatching is quiet.
LEMMA QuietRedispatch ==
    ASSUME TypeInv, TypeInv', NEW g \in Goals, NEW board \in Blackboards,
           board.outcome = bb[g].outcome, Redispatch(g, board),
           UNCHANGED <<status, handle, finalized>>, pc[g] \in Busy
    PROVE  QuietStep(g)
<1> DEFINE next == [CycleOver(board) EXCEPT !.active = nextId,
                                            !.settled = FALSE, !.window = "open"]
<1>1. next \in Blackboards /\ next.outcome = bb[g].outcome
  BY DEF Blackboards, CycleOver, NoPlanReport, PlanStatuses, AllPlanReports,
         Behaviors, TypeInv, DispatchOK
<1>2. bb' = [bb EXCEPT ![g] = next] /\ Goto(g, "cancel")
  BY DEF Redispatch
<1>3. "cancel" \in Busy
  BY DEF Busy, Steps
<1> HIDE DEF next
<1> QED BY <1>1, <1>2, <1>3, QuietMove

\* Spending an attempt is quiet.
LEMMA QuietSpendAttempt ==
    ASSUME TypeInv, TypeInv', NEW g \in Goals, SpendAttempt(g),
           UNCHANGED <<status, handle, finalized>>, pc[g] \in Busy
    PROVE  QuietStep(g)
<1>1. bb[g].attempts + 1 \in Nat
  BY DEF TypeInv, ThreadOK, Blackboards
<1>2. /\ [bb[g] EXCEPT !.attempts = bb[g].attempts + 1] \in Blackboards
      /\ [bb[g] EXCEPT !.attempts = bb[g].attempts + 1].outcome = bb[g].outcome
  BY <1>1 DEF TypeInv, ThreadOK, Blackboards
<1>3. CASE bb[g].attempts + 1 >= MaxRetries
  BY <1>1, <1>3, QuietStopAndAbort DEF SpendAttempt
<1>4. CASE ~(bb[g].attempts + 1 >= MaxRetries)
  BY <1>2, <1>4, QuietRedispatch DEF SpendAttempt
<1> QED BY <1>3, <1>4

\* The steps up to the dispatch are quiet.
LEMMA QuietPlanning ==
    ASSUME TypeInv, TypeInv', NEW g \in Goals, Planning(g)
    PROVE  QuietStep(g)
<1>1. UNCHANGED <<status, handle, finalized>> /\ pc[g] \in Busy
  BY DEF Planning, StartPose, CheckReady, WaitForPlannerService,
         RequestGlobalPlan, PublishMotionCommand, shared, At, Busy, Steps
<1>2. bb[g] \in Blackboards
  BY DEF TypeInv, ThreadOK
<1>3. ASSUME PlanFails(g) PROVE QuietStep(g)
  BY <1>1, <1>2, <1>3, QuietConclude DEF PlanFails
<1>4. /\ "ready" \in Busy /\ "planner" \in Busy /\ "plan" \in Busy
      /\ "dispatch" \in Busy /\ "cancel" \in Busy
  BY DEF Busy, Steps
<1>5. CASE StartPose(g)
  <2>1. FreshBlackboard.outcome = "running"
    BY DEF FreshBlackboard
  <2>2. CASE Canceling(g) /\ Conclude(g, FreshBlackboard, "canceled")
    BY <1>1, <2>2, FreshBoardType, QuietConclude
  <2>3. CASE bb' = [bb EXCEPT ![g] = FreshBlackboard] /\ Goto(g, "ready")
    BY <1>1, <1>4, <2>1, <2>3, FreshBoardType, QuietMove
  <2> QED BY <1>5, <2>2, <2>3 DEF StartPose
<1>6. CASE CheckReady(g)
  BY <1>1, <1>3, <1>4, <1>6, QuietGoto DEF CheckReady
<1>7. CASE WaitForPlannerService(g)
  BY <1>1, <1>3, <1>4, <1>7, QuietGoto DEF WaitForPlannerService
<1>8. CASE RequestGlobalPlan(g)
  BY <1>1, <1>3, <1>4, <1>8, QuietGoto DEF RequestGlobalPlan
<1>9. CASE PublishMotionCommand(g)
  <2> DEFINE board == [bb[g] EXCEPT !.active = nextId, !.settled = FALSE,
                         !.since = "zero", !.escaped = FALSE, !.attempts = 0]
  <2>1. board \in Blackboards /\ board.outcome = bb[g].outcome
    BY <1>2 DEF TypeInv, DispatchOK, Blackboards
  <2>2. bb' = [bb EXCEPT ![g] = board] /\ Goto(g, "cancel")
    BY <1>9 DEF PublishMotionCommand
  <2> HIDE DEF board
  <2> QED BY <1>1, <1>4, <2>1, <2>2, QuietMove
<1> QED BY <1>5, <1>6, <1>7, <1>8, <1>9 DEF Planning

\* The steps of the monitor loop are quiet.
LEMMA QuietMonitor ==
    ASSUME TypeInv, TypeInv', NEW g \in Goals, Monitor(g)
    PROVE  QuietStep(g)
<1>1. UNCHANGED <<status, handle, finalized>> /\ pc[g] \in Busy
  BY DEF Monitor, CheckCancelRequested, CheckGoalReached, StopAndMark,
         CheckRecoveryNeeded, shared, At, Busy, Steps
<1>2. bb[g] \in Blackboards
  BY DEF TypeInv, ThreadOK
<1>3. /\ "goal" \in Busy /\ "stop" \in Busy /\ "cycle" \in Busy
      /\ "cancel" \in Busy /\ "recovery" \in Busy /\ "result" \in Busy
  BY DEF Busy, Steps
<1>4. ASSUME NEW outcome \in {"succeeded", "canceled"},
             bb' = [bb EXCEPT ![g].outcome = outcome], Goto(g, "stop"),
             outcome = "canceled" => Canceling(g)
      PROVE  QuietStep(g)
  <2> DEFINE board == [bb[g] EXCEPT !.outcome = outcome]
  <2>1. board \in Blackboards /\ board.outcome = outcome
    BY <1>2 DEF Blackboards, Outcomes
  <2>2. bb' = [bb EXCEPT ![g] = board]
    BY <1>4
  <2> HIDE DEF board
  <2> QED BY <1>1, <1>3, <1>4, <2>1, <2>2, QuietMove
<1>5. CASE CheckCancelRequested(g)
  BY <1>1, <1>3, <1>4, <1>5, QuietGoto DEF CheckCancelRequested
<1>6. CASE CheckGoalReached(g)
  <2>1. \/ bb' = [bb EXCEPT ![g].outcome = "succeeded"] /\ Goto(g, "stop")
        \/ Goto(g, "recovery") /\ UNCHANGED bb
    BY <1>6 DEF CheckGoalReached
  <2> QED BY <1>1, <1>3, <1>4, <2>1, QuietGoto
<1>7. CASE StopAndMark(g)
  BY <1>1, <1>3, <1>7, QuietGoto DEF StopAndMark
<1>8. CASE CheckRecoveryNeeded(g)
  <2> DEFINE Kept(board) == board \in Blackboards /\ board.outcome = bb[g].outcome
  <2>1. /\ Kept([bb[g] EXCEPT !.window = "off", !.since = "zero", !.escaped = FALSE])
        /\ Kept([bb[g] EXCEPT !.window = "off", !.since = "running"])
        /\ Kept([bb[g] EXCEPT !.since = "zero"])
        /\ Kept([bb[g] EXCEPT !.since = "running"])
        /\ Kept(bb[g])
    BY <1>2 DEF Blackboards
  <2> HIDE DEF Kept
  <2>2. \/ Goto(g, "cycle") /\ UNCHANGED bb
        \/ \E board : /\ Kept(board) /\ Goto(g, "cancel")
                      /\ bb' = [bb EXCEPT ![g] = board]
    BY <1>8, <2>1 DEF CheckRecoveryNeeded
  <2> QED BY <1>1, <1>3, <2>2, QuietGoto, QuietMove DEF Kept
<1> QED BY <1>5, <1>6, <1>7, <1>8 DEF Monitor

\* The steps of a recovery cycle are quiet.
LEMMA QuietRecovery ==
    ASSUME TypeInv, TypeInv', NEW g \in Goals, RecoveryCycle(g)
    PROVE  QuietStep(g)
<1>1. UNCHANGED <<status, handle, finalized>> /\ pc[g] \in Busy
  BY DEF RecoveryCycle, StartCycle, WaitForRecoveryServices, ClearLocalCostmap,
         RequestLocalEscape, ReplanForPlanner, RequestRecoveryCommand,
         AwaitRecoveryCommand, CountAttempt, ReplanAfterRecovery,
         shared, At, Busy, Steps
<1>2. bb[g] \in Blackboards /\ planStatus \in PlanStatuses /\ nextId \in Nat
  BY DEF TypeInv, ThreadOK, WorldOK, DispatchOK
<1>3. /\ "cancel" \in Busy /\ "services" \in Busy /\ "clear" \in Busy
      /\ "escape" \in Busy /\ "replan" \in Busy /\ "behavior" \in Busy
      /\ "await" \in Busy /\ "tail" \in Busy /\ "freshplan" \in Busy
  BY DEF Busy, Steps
<1>4. AfterEscape(g) \in Busy
  BY <1>3 DEF AfterEscape
<1>5. ASSUME NEW board \in Blackboards, board.outcome = bb[g].outcome,
             NEW step \in Busy, bb' = [bb EXCEPT ![g] = board], Goto(g, step)
      PROVE  QuietStep(g)
  BY <1>1, <1>5, QuietMove
<1>6. CASE StartCycle(g)
  <2>1. CASE Canceling(g) /\ FinishCanceled(g)
    BY <1>1, <2>1, QuietFinishCanceled
  <2>2. CASE /\ bb' = [bb EXCEPT ![g].since = "zero", ![g].window = "off",
                                 ![g].escaped = FALSE]
             /\ Goto(g, "cancel")
    <3> DEFINE board == [bb[g] EXCEPT !.since = "zero", !.window = "off",
                                      !.escaped = FALSE]
    <3>1. board \in Blackboards /\ board.outcome = bb[g].outcome
      BY <1>2 DEF Blackboards
    <3>2. bb' = [bb EXCEPT ![g] = board]
      BY <2>2
    <3> HIDE DEF board
    <3> QED BY <1>3, <1>5, <2>2, <3>1, <3>2
  <2>3. CASE bb' = [bb EXCEPT ![g].snap = planStatus] /\ Goto(g, "services")
    <3> DEFINE board == [bb[g] EXCEPT !.snap = planStatus]
    <3>1. board \in Blackboards /\ board.outcome = bb[g].outcome
      BY <1>2 DEF Blackboards
    <3>2. bb' = [bb EXCEPT ![g] = board]
      BY <2>3
    <3> HIDE DEF board
    <3> QED BY <1>3, <1>5, <2>3, <3>1, <3>2
  <2> QED BY <1>6, <2>1, <2>2, <2>3 DEF StartCycle
<1>7. CASE WaitForRecoveryServices(g)
  <2>1. CASE Conclude(g, bb[g], "aborted")
    BY <1>1, <1>2, <2>1, QuietConclude
  <2> QED BY <1>1, <1>3, <1>7, <2>1, QuietGoto, QuietFinishCanceled
          DEF WaitForRecoveryServices
<1>8. CASE ClearLocalCostmap(g)
  BY <1>1, <1>3, <1>4, <1>8, QuietGoto, QuietCallFails DEF ClearLocalCostmap
<1>9. CASE RequestLocalEscape(g)
  <2>1. /\ [bb[g] EXCEPT !.escaped = TRUE] \in Blackboards
        /\ [bb[g] EXCEPT !.escaped = TRUE].outcome = bb[g].outcome
    BY <1>2 DEF Blackboards
  <2> QED BY <1>1, <1>4, <1>9, <2>1, QuietRedispatch, QuietCallFails
          DEF RequestLocalEscape
<1>10. CASE ReplanForPlanner(g)
  BY <1>1, <1>3, <1>10, QuietSpendAttempt, QuietCallFails DEF ReplanForPlanner
<1>11. CASE RequestRecoveryCommand(g)
  <2>1. CASE CallFails(g, "tail")
    BY <1>1, <1>3, <2>1, QuietCallFails
  <2>2. CASE /\ bb' = [bb EXCEPT ![g].behavior = Behavior(g), ![g].awaited = nextId]
             /\ Goto(g, "await")
    <3> DEFINE board == [bb[g] EXCEPT !.behavior = Behavior(g), !.awaited = nextId]
    <3>1. Behavior(g) \in Behaviors
      BY DEF Behavior, Behaviors
    <3>2. board \in Blackboards /\ board.outcome = bb[g].outcome
      BY <1>2, <3>1 DEF Blackboards
    <3>3. bb' = [bb EXCEPT ![g] = board]
      BY <2>2
    <3> HIDE DEF board
    <3> QED BY <1>3, <1>5, <2>2, <3>2, <3>3
  <2> QED BY <1>11, <2>1, <2>2 DEF RequestRecoveryCommand
<1>12. CASE AwaitRecoveryCommand(g)
  BY <1>1, <1>3, <1>12, QuietGoto, QuietSpendAttempt, QuietCallFails
  DEF AwaitRecoveryCommand
<1>13. CASE CountAttempt(g)
  <2> DEFINE n == bb[g].attempts + 1
             board == [CycleOver(bb[g]) EXCEPT !.attempts = n]
  <2>1. n \in Nat
    BY <1>2 DEF Blackboards
  <2>2. CASE StopAndAbort(g, n)
    BY <1>1, <2>1, <2>2, QuietStopAndAbort
  <2>3. CASE bb' = [bb EXCEPT ![g] = board] /\ Goto(g, "freshplan")
    <3>1. board \in Blackboards /\ board.outcome = bb[g].outcome
      BY <1>2, <2>1 DEF Blackboards, CycleOver, NoPlanReport, PlanStatuses,
                        AllPlanReports, Behaviors
    <3> HIDE DEF board
    <3> QED BY <1>3, <1>5, <2>3, <3>1
  <2> QED BY <1>13, <2>2, <2>3 DEF CountAttempt
<1>14. CASE ReplanAfterRecovery(g)
  BY <1>1, <1>2, <1>3, <1>14, QuietRedispatch, QuietCallFails DEF ReplanAfterRecovery
<1> QED
  BY <1>6, <1>7, <1>8, <1>9, <1>10, <1>11, <1>12, <1>13, <1>14 DEF RecoveryCycle

\* So are an exception, a waypoint's result and an elapsed delay.
LEMMA QuietOthers ==
    ASSUME TypeInv, TypeInv', NEW g \in Goals,
           TickThrows(g) \/ WaypointResult(g) \/ Delay(g)
    PROVE  QuietStep(g)
<1>1. bb[g] \in Blackboards /\ pc[g] \in Steps
  BY DEF TypeInv, ThreadOK
<1>2. CASE TickThrows(g)
  <2>1. UNCHANGED <<status, handle, finalized>> /\ pc[g] \in Busy
    BY <1>1, <1>2 DEF TickThrows, shared, OutsideTicks, Busy, Steps
  <2> QED BY <1>1, <1>2, <2>1, QuietConclude DEF TickThrows
<1>3. CASE WaypointResult(g)
  <2>1. UNCHANGED <<status, handle, finalized, bb>> /\ pc[g] \in Busy
    BY <1>3 DEF WaypointResult, shared, At, Busy, Steps
  <2>2. "start" \in Busy /\ "finalize" \in Busy
    BY DEF Busy, Steps
  <2>3. Goto(g, "start") \/ Goto(g, "finalize")
    BY <1>3 DEF WaypointResult
  <2> QED BY <2>1, <2>2, <2>3, QuietGoto
<1>4. CASE Delay(g)
  <2>1. UNCHANGED <<status, handle, finalized, pc>> /\ pc[g] \in Busy
    BY <1>4 DEF Delay, SettleElapses, DebounceElapses, ReacquireWindowElapses,
                Monitoring, shared, Busy, Steps
  <2>2. bb'[g].outcome = bb[g].outcome
    BY <1>1, <1>4 DEF Delay, SettleElapses, DebounceElapses,
                      ReacquireWindowElapses, Blackboards, TypeInv, ThreadOK
  <2>3. \A h \in Goals \ {g} : bb'[h] = bb[h]
    BY <1>4 DEF Delay, SettleElapses, DebounceElapses, ReacquireWindowElapses,
                TypeInv, ThreadOK
  <2> QED BY <2>1, <2>2, <2>3 DEF QuietStep
<1> QED BY <1>2, <1>3, <1>4

-----------------------------------------------------------------------------
(* Thread, action state and handle of a goal                               *)

\* A goal's action state follows its thread.
Progress ==
    \A g \in Goals :
        /\ pc[g] = "none" <=> status[g] \in {"unknown", "rejected"}
        /\ pc[g] = "none" => bb[g].outcome # "canceled"
        /\ pc[g] \in Busy \cup {"commit"} =>
             /\ status[g] \in {"executing", "canceling"}
             /\ bb[g].outcome = "canceled" => Canceling(g)
        /\ pc[g] = "commit" /\ bb[g].canceling => Canceling(g)
        /\ pc[g] \in {"release", "done"} => status[g] \in Terminal
        /\ g \in finalized <=> pc[g] \in {"release", "done"}

\* A quiet step keeps that.
LEMMA QuietProgress ==
    ASSUME TypeInv, TypeInv', Progress, NEW g \in Goals, QuietStep(g)
    PROVE  Progress'
<1>1. ASSUME NEW h \in Goals, h # g
      PROVE  pc'[h] = pc[h] /\ bb'[h] = bb[h] /\ status'[h] = status[h]
  BY <1>1 DEF QuietStep
<1>2. "none" \notin Busy /\ "commit" \notin Busy /\ "release" \notin Busy
      /\ "done" \notin Busy
  BY DEF Busy
<1> QED BY <1>1, <1>2 DEF Progress, QuietStep, Canceling

\* The two last steps of a goal thread keep it too.
LEMMA EndProgress ==
    ASSUME TypeInv, TypeInv', Progress, NEW g \in Goals,
           FinalizeRead(g) \/ FinalizeCommit(g) \/ ReleaseHandle(g)
    PROVE  Progress'
<1>1. pc \in [Goals -> Steps] /\ bb \in [Goals -> Blackboards]
      /\ status \in [Goals -> Statuses]
  BY DEF TypeInv, WorldOK, ThreadOK
<1>2. CASE FinalizeRead(g)
  <2>1. pc[g] = "finalize" /\ pc' = [pc EXCEPT ![g] = "commit"]
    BY <1>2 DEF FinalizeRead, At, Goto
  <2>2. /\ bb'[g].canceling = Canceling(g) /\ bb'[g].outcome = bb[g].outcome
        /\ \A h \in Goals \ {g} : bb'[h] = bb[h]
    BY <1>1, <1>2 DEF FinalizeRead, Blackboards
  <2>3. UNCHANGED <<status, finalized>>
    BY <1>2 DEF FinalizeRead, shared
  <2>4. "finalize" \in Busy /\ "commit" \notin Busy
    BY DEF Busy, Steps
  <2> QED BY <1>1, <2>1, <2>2, <2>3, <2>4 DEF Progress, Canceling
<1>3. CASE FinalizeCommit(g)
  <2>1. /\ pc[g] = "commit" /\ pc' = [pc EXCEPT ![g] = "release"]
        /\ bb' = bb /\ finalized' = finalized \cup {g} /\ g \notin finalized
    BY <1>3 DEF FinalizeCommit, At, Goto, Progress
  <2>2. status' = [status EXCEPT ![g] = FinalStatus(g)]
    BY <1>3, <2>1 DEF FinalizeCommit
  <2>3. FinalStatus(g) \in Terminal
    BY <1>1, <2>1 DEF FinalStatus, Terminal, Blackboards, Outcomes, TypeInv, ThreadOK
  <2>4. "release" \notin Busy
    BY DEF Busy
  <2> QED BY <1>1, <2>1, <2>2, <2>3, <2>4 DEF Progress, Canceling, Terminal
<1>4. CASE ReleaseHandle(g)
  <2>1. /\ pc[g] = "release" /\ pc' = [pc EXCEPT ![g] = "done"]
        /\ UNCHANGED <<status, finalized>>
        /\ \A h \in Goals \ {g} : bb'[h] = bb[h]
    BY <1>1, <1>4 DEF ReleaseHandle, At, Goto
  <2>2. "done" \notin Busy
    BY DEF Busy
  <2> QED BY <1>1, <2>1, <2>2 DEF Progress, Canceling
<1> QED BY <1>2, <1>3, <1>4

\* So do requests of clients.
LEMMA ClientProgress ==
    ASSUME TypeInv, TypeInv', Progress, NEW g \in Goals, ClientRequest(g)
    PROVE  Progress'
<1>1. pc \in [Goals -> Steps] /\ status \in [Goals -> Statuses]
  BY DEF TypeInv, WorldOK, ThreadOK
<1>2. UNCHANGED <<bb, finalized>>
  BY DEF ClientRequest, HandleGoal, HandleAccepted, RefuseMalformedGoal, HandleCancel,
         shared
<1>3. "none" \notin Busy /\ "start" \in Busy
  BY DEF Busy, Steps
<1>4. \/ /\ status[g] = "unknown" /\ pc' = pc
         /\ status' = [status EXCEPT ![g] = "rejected"]
      \/ /\ status[g] = "unknown" /\ pc' = [pc EXCEPT ![g] = "start"]
         /\ status' = [status EXCEPT ![g] = "executing"]
      \/ /\ status[g] = "executing" /\ pc' = pc
         /\ status' = [status EXCEPT ![g] = "canceling"]
  BY DEF ClientRequest, HandleGoal, HandleAccepted, RefuseMalformedGoal, HandleCancel, Goto
<1>5. ASSUME NEW h \in Goals, h # g
      PROVE  pc'[h] = pc[h] /\ status'[h] = status[h]
  BY <1>1, <1>4, <1>5
<1>6. CASE status[g] = "unknown"
  <2>1. pc[g] = "none" /\ g \notin finalized
    BY <1>6 DEF Progress
  <2> QED BY <1>1, <1>2, <1>3, <1>4, <1>5, <1>6, <2>1 DEF Progress, Canceling
<1>7. CASE status[g] # "unknown"
  <2>1. /\ status[g] = "executing" /\ pc' = pc
        /\ status' = [status EXCEPT ![g] = "canceling"]
    BY <1>4, <1>7
  <2>2. pc[g] \notin {"none", "release", "done"}
    BY <2>1 DEF Progress, Terminal
  <2> QED BY <1>1, <1>2, <1>5, <2>1, <2>2 DEF Progress, Canceling
<1> QED BY <1>6, <1>7

\* The remaining steps do not touch a thread or an action state.
LEMMA OtherProgress ==
    ASSUME Progress, UNCHANGED <<status, finalized, pc, bb>>
    PROVE  Progress'
  BY DEF Progress, Canceling

\* Every step keeps Progress, cleanup and shutdown included.
LEMMA ProgressStep == TypeInv /\ TypeInv' /\ Progress /\ [Next]_vars => Progress'
<1> SUFFICES ASSUME TypeInv, TypeInv', Progress, [Next]_vars PROVE Progress'
  OBVIOUS
<1>1. CASE UNCHANGED vars
  BY <1>1, OtherProgress DEF vars, shared
<1>2. CASE Callback \/ Lifecycle
  BY <1>2, OtherProgress
  DEF Callback, HandleMotionStatus, HandleIdleStatus, HandleLocalPlanStatus,
      Lifecycle, OnConfigure, OnActivate, OnDeactivate, OnCleanup, OnShutdown,
      ReleaseResources, shared
<1>3. ASSUME NEW g \in Goals, GoalThread(g) PROVE Progress'
  <2>1. CASE CallNullClient(g)
    BY <2>1, OtherProgress DEF CallNullClient
  <2> QED BY <1>3, <2>1, QuietPlanning, QuietMonitor, QuietRecovery, QuietOthers,
             QuietProgress, EndProgress DEF GoalThread, Completion
<1>4. ASSUME NEW g \in Goals, Delay(g) PROVE Progress'
  BY <1>4, QuietOthers, QuietProgress
<1> QED BY <1>1, <1>2, <1>3, <1>4, ClientProgress DEF Next, Environment

\* Exactly the goal whose thread runs is held by the handle of its action,
\* and the other action's handle is free.
Handles ==
    /\ \A k \in Kinds : handle[k] # NoGoal =>
          KindOf[handle[k]] = k /\ Live(handle[k])
    /\ \A g \in Goals : Live(g) => handle[KindOf[g]] = g
    /\ \A j, k \in Kinds : handle[j] # NoGoal /\ handle[k] # NoGoal => j = k

\* A step keeps Handles when it changes neither a handle nor which threads run.
LEMMA SameHandles ==
    ASSUME TypeInv, TypeInv', Handles, UNCHANGED handle,
           \A g \in Goals : Live(g)' = Live(g)
    PROVE  Handles'
<1>1. \A k \in Kinds : handle[k] # NoGoal => handle[k] \in Goals
  BY DEF TypeInv, WorldOK
<1> QED BY <1>1 DEF Handles

\* A quiet step runs a thread that was running.
LEMMA QuietHandles ==
    ASSUME TypeInv, TypeInv', Handles, NEW g \in Goals, QuietStep(g)
    PROVE  Handles'
<1>1. \A h \in Goals : Live(h)' = Live(h)
  BY DEF QuietStep, Live, Busy
<1> QED BY <1>1, SameHandles DEF QuietStep

\* Accepting a goal takes the only handle.
LEMMA AcceptHandles ==
    ASSUME TypeInv, TypeInv', Handles, NEW g \in Goals, HandleGoal(g)
    PROVE  Handles'
<1>1. CASE HasActiveGoal \/ lifecycle # "active"
  <2>1. UNCHANGED <<handle, pc>>
    BY <1>1 DEF HandleGoal, HandleAccepted
  <2> QED BY <2>1, SameHandles DEF Live
<1>2. CASE ~(HasActiveGoal \/ lifecycle # "active")
  <2>1. handle' = [handle EXCEPT ![KindOf[g]] = g] /\ pc' = [pc EXCEPT ![g] = "start"]
    BY <1>2 DEF HandleGoal, HandleAccepted, Goto
  <2>2. \A k \in Kinds : handle[k] = NoGoal
    BY <1>2 DEF HasActiveGoal
  <2>3. KindOf[g] \in Kinds /\ g # NoGoal
    BY GoalsAssumption
  <2>4. \A h \in Goals : ~Live(h)
    BY <2>2, GoalsAssumption DEF Handles
  <2>5. \A h \in Goals : Live(h)' <=> h = g
    BY <2>1, <2>4 DEF Live, TypeInv, ThreadOK
  <2>6. \A k \in Kinds : handle'[k] = IF k = KindOf[g] THEN g ELSE NoGoal
    BY <2>1, <2>2 DEF TypeInv, WorldOK
  <2> QED BY <2>3, <2>5, <2>6 DEF Handles
<1> QED BY <1>1, <1>2

\* Releasing the handle ends the thread, so the other goal may come.
LEMMA ReleaseHandles ==
    ASSUME TypeInv, TypeInv', Handles, NEW g \in Goals, ReleaseHandle(g)
    PROVE  Handles'
<1>1. pc[g] = "release" /\ pc' = [pc EXCEPT ![g] = "done"]
  BY DEF ReleaseHandle, At, Goto
<1>2. Live(g) /\ handle[KindOf[g]] = g /\ KindOf[g] \in Kinds /\ g # NoGoal
  BY <1>1, GoalsAssumption DEF Live, Handles
<1>3. \A k \in Kinds : handle'[k] = NoGoal
  BY <1>2 DEF ReleaseHandle, Handles, TypeInv, WorldOK
<1>4. \A h \in Goals : Live(h) => h = g
  BY <1>2, GoalsAssumption DEF Handles
<1>5. \A h \in Goals : ~Live(h)'
  BY <1>1, <1>4 DEF Live, TypeInv, ThreadOK
<1> QED BY <1>3, <1>5 DEF Handles

\* Without a cleanup or a shutdown every step keeps the handles exact.
LEMMA HandlesStep ==
    ASSUME AllowCleanup = FALSE
    PROVE  TypeInv /\ TypeInv' /\ Handles /\ [Next]_vars => Handles'
<1> SUFFICES ASSUME TypeInv, TypeInv', Handles, [Next]_vars PROVE Handles'
  OBVIOUS
<1>1. ASSUME UNCHANGED <<handle, pc>> PROVE Handles'
  BY <1>1, SameHandles DEF Live
<1>2. CASE UNCHANGED vars
  BY <1>1, <1>2 DEF vars, shared
<1>3. CASE Callback \/ Lifecycle
  BY <1>1, <1>3
  DEF Callback, HandleMotionStatus, HandleIdleStatus, HandleLocalPlanStatus,
      Lifecycle, OnConfigure, OnActivate, OnDeactivate, OnCleanup, OnShutdown,
      ReleaseResources, shared
<1>4. ASSUME NEW g \in Goals, ClientRequest(g) PROVE Handles'
  <2>1. CASE RefuseMalformedGoal(g) \/ HandleCancel(g)
    BY <1>1, <2>1 DEF RefuseMalformedGoal, HandleCancel, shared
  <2> QED BY <1>4, <2>1, AcceptHandles DEF ClientRequest
<1>5. ASSUME NEW g \in Goals, FinalizeRead(g) \/ FinalizeCommit(g) PROVE Handles'
  <2>1. UNCHANGED handle /\ \A h \in Goals : Live(h)' = Live(h)
    BY <1>5 DEF FinalizeRead, FinalizeCommit, At, Goto, Live, shared, TypeInv, ThreadOK
  <2> QED BY <2>1, SameHandles
<1>6. ASSUME NEW g \in Goals, GoalThread(g) PROVE Handles'
  <2>1. CASE CallNullClient(g)
    BY <1>1, <2>1 DEF CallNullClient
  <2> QED BY <1>5, <1>6, <2>1, QuietPlanning, QuietMonitor, QuietRecovery, QuietOthers,
             QuietHandles, ReleaseHandles DEF GoalThread, Completion
<1>7. ASSUME NEW g \in Goals, Delay(g) PROVE Handles'
  BY <1>7, QuietOthers, QuietHandles
<1> QED BY <1>2, <1>3, <1>4, <1>6, <1>7 DEF Next, Environment

\* The inductive invariant behind the theorems below.
Inv == TypeInv /\ Progress /\ Handles

\* It holds initially.
LEMMA InvInit == Init => Inv
<1> SUFFICES ASSUME Init PROVE Inv
  OBVIOUS
<1>1. Progress
  BY DEF Init, Progress, FreshBlackboard, Busy
<1>2. Handles
  BY GoalsAssumption DEF Init, Handles, Live
<1> QED BY <1>1, <1>2, TypeInit DEF Inv

\* Progress, by itself, needs no assumption about the lifecycle.
LEMMA ProgressInit == Init => Progress
  BY InvInit DEF Inv

LEMMA ProgressAlways == Spec => [](TypeInv /\ Progress)
  BY TypeInit, TypeStep, ProgressInit, ProgressStep, PTL DEF Spec

\* It is an invariant while the navigator is neither cleaned up nor shut down.
LEMMA Invariance ==
    ASSUME AllowCleanup = FALSE
    PROVE  Spec => []Inv
<1>1. Inv /\ [Next]_vars => Inv'
  BY TypeStep, ProgressStep, HandlesStep DEF Inv
<1> QED BY <1>1, InvInit, PTL DEF Spec

-----------------------------------------------------------------------------
(* What follows                                                            *)

\* Unless the node is cleaned up or shut down, at most one goal thread runs,
\* so the command counter, the latch and the command topic have one writer.
THEOREM SingleThread ==
    ASSUME AllowCleanup = FALSE
    PROVE  Spec => []OneGoalThread
<1>1. Inv => OneGoalThread
  <2> SUFFICES ASSUME Inv, NEW g \in Goals, NEW h \in Goals, Live(g), Live(h)
               PROVE  g = h
    BY DEF OneGoalThread
  <2>1. handle[KindOf[g]] = g /\ handle[KindOf[h]] = h
    BY DEF Inv, Handles
  <2>2. KindOf[g] \in Kinds /\ KindOf[h] \in Kinds /\ g # NoGoal /\ h # NoGoal
    BY GoalsAssumption
  <2> QED BY <2>1, <2>2 DEF Inv, Handles
<1> QED BY <1>1, Invariance, PTL

\* Unless the node is cleaned up or shut down, has_active_goal knows of every
\* goal without a result, so handle_goal rejects a second one.
THEOREM GoalStaysKnown ==
    ASSUME AllowCleanup = FALSE
    PROVE  Spec => []ActiveGoalIsKnown
<1>1. Inv => ActiveGoalIsKnown
  <2> SUFFICES ASSUME Inv, NEW g \in InFlight
               PROVE  HasActiveGoal
    BY DEF ActiveGoalIsKnown
  <2>1. g \in Goals /\ status[g] \in {"executing", "canceling"}
    BY DEF InFlight
  <2>2. Live(g)
    BY <2>1 DEF Inv, Progress, Live, Terminal
  <2>3. handle[KindOf[g]] = g /\ KindOf[g] \in Kinds /\ g # NoGoal
    BY <2>1, <2>2, GoalsAssumption DEF Inv, Handles
  <2> QED BY <2>3 DEF HasActiveGoal
<1> QED BY <1>1, Invariance, PTL

\* A step of the navigator is a step of the action contract, or none.
LEMMA ContractStep == Inv /\ Inv' /\ [Next]_vars => [Contract!Next]_status
<1> SUFFICES ASSUME Inv, Inv', [Next]_vars PROVE [Contract!Next]_status
  OBVIOUS
<1>1. status \in [Goals -> Statuses]
  BY DEF Inv, TypeInv, WorldOK
<1>2. CASE UNCHANGED vars \/ Callback \/ Lifecycle
  BY <1>2
  DEF vars, Callback, HandleMotionStatus, HandleIdleStatus, HandleLocalPlanStatus,
      Lifecycle, OnConfigure, OnActivate, OnDeactivate, OnCleanup, OnShutdown,
      ReleaseResources, shared
<1>3. ASSUME NEW g \in Goals, HandleGoal(g) PROVE [Contract!Next]_status
  <2>1. CASE status' = [status EXCEPT ![g] = "rejected"]
    BY <1>3, <2>1 DEF HandleGoal, Contract!Next, Contract!Reject, Contract!Move
  <2>2. CASE /\ ~(HasActiveGoal \/ lifecycle # "active")
             /\ status' = [status EXCEPT ![g] = "executing"]
    <3>1. Contract!InFlight = {}
      <4> SUFFICES ASSUME NEW h \in Contract!InFlight PROVE FALSE
        OBVIOUS
      <4>1. h \in Goals /\ status[h] \in {"executing", "canceling"}
        BY DEF Contract!InFlight
      <4>2. Live(h)
        BY <4>1 DEF Inv, Progress, Live, Terminal
      <4> QED BY <2>2, <4>1, <4>2, GoalsAssumption DEF Inv, Handles, HasActiveGoal
    <3> QED BY <1>3, <2>2, <3>1
            DEF HandleGoal, HandleAccepted, Contract!Next, Contract!Accept, Contract!Move
  <2> QED BY <1>3, <2>1, <2>2 DEF HandleGoal, HandleAccepted
<1>4. ASSUME NEW g \in Goals, ClientRequest(g) PROVE [Contract!Next]_status
  BY <1>3, <1>4 DEF ClientRequest, RefuseMalformedGoal, HandleCancel,
     Contract!Next, Contract!Reject, Contract!RequestCancel, Contract!Move
<1>5. ASSUME NEW g \in Goals, FinalizeCommit(g) PROVE [Contract!Next]_status
  <2>1. pc[g] = "commit" /\ bb[g] \in Blackboards /\ bb[g].outcome # "running"
    BY <1>5 DEF FinalizeCommit, At, Inv, TypeInv, ThreadOK
  <2>2. /\ status[g] \in {"executing", "canceling"}
        /\ bb[g].outcome = "canceled" \/ bb[g].canceling => status[g] = "canceling"
        /\ g \notin finalized
    BY <2>1 DEF Inv, Progress, Canceling
  <2>3. status' = [status EXCEPT ![g] = FinalStatus(g)]
    BY <1>5, <2>2 DEF FinalizeCommit
  <2>4. /\ FinalStatus(g) \in {"succeeded", "canceled", "aborted"}
        /\ FinalStatus(g) = "canceled" => status[g] = "canceling"
    BY <2>1, <2>2 DEF FinalStatus, Blackboards, Outcomes
  <2>5. Contract!Finish(g)
    BY <2>2, <2>3, <2>4 DEF Contract!Finish, Contract!Move, Contract!Outcomes
  <2> QED BY <2>5 DEF Contract!Next
<1>6. ASSUME NEW g \in Goals, GoalThread(g) PROVE [Contract!Next]_status
  <2>1. CASE CallNullClient(g) \/ FinalizeRead(g) \/ ReleaseHandle(g)
    BY <2>1 DEF CallNullClient, FinalizeRead, ReleaseHandle, shared
  <2> QED BY <1>5, <1>6, <2>1, QuietPlanning, QuietMonitor, QuietRecovery, QuietOthers
          DEF GoalThread, Completion, QuietStep, Inv
<1>7. ASSUME NEW g \in Goals, Delay(g) PROVE [Contract!Next]_status
  BY <1>7, QuietOthers DEF QuietStep, Inv
<1> QED BY <1>2, <1>4, <1>6, <1>7 DEF Next, Environment

\* Unless the node is cleaned up or shut down, the navigator implements the
\* safety of the action contract: one goal in flight over both actions, one
\* result per goal, and "canceled" only for a goal that was asked to cancel.
THEOREM ImplementsContract ==
    ASSUME AllowCleanup = FALSE
    PROVE  Spec => ContractSafety
<1>1. Init => Contract!Init
  BY DEF Init, Contract!Init
<1> QED BY <1>1, ContractStep, Invariance, PTL DEF Spec, ContractSafety, Contract!Safety

\* A cancel request that finalize_goal will see, or has seen.
CancelSeen(g) ==
    /\ status[g] \in {"canceling", "canceled"}
    /\ pc[g] = "commit" => bb[g].canceling

\* Nothing but the finalization ends it.
LEMMA CancelSeenStep ==
    ASSUME NEW g \in Goals, TypeInv, TypeInv', Progress, CancelSeen(g), [Next]_vars
    PROVE  CancelSeen(g)'
<1>1. status \in [Goals -> Statuses] /\ bb \in [Goals -> Blackboards]
      /\ pc \in [Goals -> Steps]
  BY DEF TypeInv, WorldOK, ThreadOK
<1>2. ASSUME UNCHANGED <<status, pc, bb>> PROVE CancelSeen(g)'
  BY <1>2 DEF CancelSeen
<1>3. CASE UNCHANGED vars \/ Callback \/ Lifecycle
  BY <1>2, <1>3
  DEF vars, Callback, HandleMotionStatus, HandleIdleStatus, HandleLocalPlanStatus,
      Lifecycle, OnConfigure, OnActivate, OnDeactivate, OnCleanup, OnShutdown,
      ReleaseResources, shared
<1>4. ASSUME NEW h \in Goals, ClientRequest(h) PROVE CancelSeen(g)'
  <2>1. CASE h = g
    BY <1>4, <2>1 DEF ClientRequest, HandleGoal, HandleAccepted, RefuseMalformedGoal,
                      HandleCancel, CancelSeen
  <2>2. CASE h # g
    BY <1>1, <1>4, <2>2 DEF ClientRequest, HandleGoal, HandleAccepted, RefuseMalformedGoal,
                            HandleCancel, CancelSeen, Goto
  <2> QED BY <2>1, <2>2
<1>5. ASSUME NEW h \in Goals, QuietStep(h) PROVE CancelSeen(g)'
  BY <1>5 DEF QuietStep, CancelSeen, Busy
<1>6. ASSUME NEW h \in Goals, FinalizeRead(h) PROVE CancelSeen(g)'
  <2>1. status[h] = "canceled" => pc[h] \in {"release", "done"}
    BY <1>1 DEF Progress, Busy, Steps
  <2>2. pc[h] = "finalize" /\ pc' = [pc EXCEPT ![h] = "commit"]
        /\ bb' = [bb EXCEPT ![h].canceling = Canceling(h)] /\ status' = status
    BY <1>6 DEF FinalizeRead, At, Goto
  <2>3. bb'[h].canceling = Canceling(h) /\ \A i \in Goals \ {h} : bb'[i] = bb[i]
    BY <1>1, <2>2 DEF Blackboards
  <2> QED BY <1>1, <2>1, <2>2, <2>3 DEF CancelSeen, Canceling
<1>7. ASSUME NEW h \in Goals, FinalizeCommit(h) PROVE CancelSeen(g)'
  <2>1. pc[h] = "commit" /\ pc' = [pc EXCEPT ![h] = "release"] /\ bb' = bb
    BY <1>7 DEF FinalizeCommit, At, Goto
  <2>2. \/ status' = status
        \/ status' = [status EXCEPT ![h] = FinalStatus(h)]
    BY <1>7 DEF FinalizeCommit
  <2>3. CASE h = g
    BY <1>1, <2>1, <2>2, <2>3 DEF CancelSeen, FinalStatus
  <2>4. CASE h # g
    BY <1>1, <2>1, <2>2, <2>4 DEF CancelSeen
  <2> QED BY <2>3, <2>4
<1>8. ASSUME NEW h \in Goals, ReleaseHandle(h) PROVE CancelSeen(g)'
  BY <1>1, <1>8 DEF ReleaseHandle, At, Goto, CancelSeen
<1>9. ASSUME NEW h \in Goals, GoalThread(h) PROVE CancelSeen(g)'
  <2>1. CASE CallNullClient(h)
    BY <1>2, <2>1 DEF CallNullClient
  <2> QED BY <1>5, <1>6, <1>7, <1>8, <1>9, <2>1, QuietPlanning, QuietMonitor,
             QuietRecovery, QuietOthers DEF GoalThread, Completion
<1>10. ASSUME NEW h \in Goals, Delay(h) PROVE CancelSeen(g)'
  BY <1>5, <1>10, QuietOthers
<1> QED BY <1>3, <1>4, <1>9, <1>10 DEF Next, Environment

\* A goal that is asked to cancel before finalize_goal reads its state ends as
\* canceled or not at all, also when the node is cleaned up or shut down.
THEOREM CancelIsReported == Spec => EarlyCancelWins
<1>1. ASSUME NEW g \in Goals
      PROVE  Spec => [](/\ status[g] = "canceling"
                        /\ pc[g] # "commit"
                        => [](status[g] \in {"canceling", "canceled"}))
  <2>1. status[g] = "canceling" /\ pc[g] # "commit" => CancelSeen(g)
    BY DEF CancelSeen
  <2>2. CancelSeen(g) => status[g] \in {"canceling", "canceled"}
    BY DEF CancelSeen
  <2>3. TypeInv /\ TypeInv' /\ Progress /\ CancelSeen(g) /\ [Next]_vars => CancelSeen(g)'
    BY CancelSeenStep
  <2> QED BY <2>1, <2>2, <2>3, ProgressAlways, PTL DEF Spec
<1> QED BY <1>1 DEF EarlyCancelWins

-----------------------------------------------------------------------------
(* The route from command to command                                       *)
(*                                                                         *)
(* A goal's thread believes a report because its id is the active one.     *)
(* That is sound because ids are never used twice (Ids), because the       *)
(* commands of the topic that carry a thread's active id are its own       *)
(* navigate commands (Owned), and because a thread that sees its command   *)
(* ended has had its waypoint reported (Waypoints).  All steps of a thread *)
(* inside a waypoint do one of four things to the commands, and RouteStep  *)
(* says which; the invariants are then shown once for all these steps.     *)

-----------------------------------------------------------------------------
(* What a step of a thread does to the commands                            *)

\* The steps of the two behavior-tree ticks, and those without an outcome.
InTicks == Steps \ OutsideTicks
Undecided == InTicks \ {"stop"}

\* The thread can see that its command is at its end.
Ended(g) ==
    /\ bb[g].active # 0
    /\ latch = bb[g].active \/ EndsCommand(bb[g].active)

\* The topic begins with a new command.
Joins(command) ==
    /\ recent' # <<>>
    /\ recent'[1] = command
    /\ \A i \in DOMAIN recent' :
         recent'[i] = command \/ \E j \in DOMAIN recent : recent'[i] = recent[j]

\* A command was built, and published unless the node is inactive.
Dispatched(g, mode) ==
    /\ nextId' = nextId + 1
    /\ latch' \in {0, latch}
    /\ recent' = recent \/ Joins(Command(nextId, mode, g))

\* No command was built.
Silent(g) ==
    /\ UNCHANGED <<nextId, recent>>
    /\ latch' = latch \/ (latch' = bb[g].active /\ EndsCommand(latch'))

\* A thread without an outcome has an attempt left, if there are attempts.
MayDrive(board) ==
    board.outcome = "running" /\ (board.attempts < MaxRetries \/ MaxRetries = 0)

\* A step of g's thread inside a waypoint.
RouteStep(g) ==
    /\ UNCHANGED <<lifecycle, status, finalized, motionStatus, completed, reached>>
    /\ \A h \in Goals \ {g} : pc'[h] = pc[h] /\ bb'[h] = bb[h]
    /\ pc[g] \in InTicks \cup {"start"}
    /\ pc'[g] \in InTicks \cup {"result"}
    /\ pc[g] = "start" => bb'[g].active = 0
    /\ pc'[g] \in Undecided => MayDrive(bb'[g])
    /\ pc'[g] \in {"stop", "result"} /\ bb'[g].outcome = "succeeded" =>
         \/ pc[g] = "stop" /\ bb[g].outcome = "succeeded"
         \/ pc[g] \in InTicks /\ Ended(g)
    /\ \/ Silent(g) /\ bb'[g].active \in {0, bb[g].active}
       \/ \E mode \in {"stop", "recovery"} :
            Dispatched(g, mode) /\ bb'[g].active = bb[g].active
       \/ /\ Dispatched(g, "navigate")
          /\ bb'[g].active = nextId
          /\ pc'[g] = "cancel"
          /\ bb[g].outcome = "running"

\* Publishing puts the command first and keeps only commands that were there.
LEMMA SendJoins ==
    ASSUME DispatchOK, NEW command \in Commands, Send(command)
    PROVE  Joins(command) /\ latch' = 0
<1> DEFINE all == <<command>> \o recent
           n == IF Len(recent) < StatusLag THEN Len(recent) + 1 ELSE StatusLag
<1>1. /\ all \in Seq(Commands) /\ Len(all) = Len(recent) + 1
      /\ all[1] = command
      /\ \A i \in 2 .. Len(recent) + 1 : all[i] = recent[i - 1]
  BY DEF DispatchOK
<1>2. n \in Nat /\ 1 <= n /\ n <= Len(recent) + 1
  BY BoundsAssumption DEF DispatchOK, BoundsAssumption
<1>3. recent' = SubSeq(all, 1, n) /\ latch' = 0
  BY DEF Send
<1> HIDE DEF all, n
<1>4. /\ DOMAIN recent' = 1 .. n
      /\ \A i \in 1 .. n : recent'[i] = all[i]
  BY <1>1, <1>2, <1>3
<1>5. DOMAIN recent = 1 .. Len(recent) /\ Len(recent) \in Nat
  BY DEF DispatchOK
<1>6. ASSUME NEW i \in DOMAIN recent'
      PROVE  recent'[i] = command \/ \E j \in DOMAIN recent : recent'[i] = recent[j]
  <2>1. CASE i = 1
    BY <1>1, <1>4, <2>1
  <2>2. CASE i # 1
    <3>1. i \in 2 .. Len(recent) + 1 /\ i - 1 \in DOMAIN recent
      BY <1>2, <1>4, <1>5, <2>2
    <3> QED BY <1>1, <1>4, <3>1
  <2> QED BY <2>1, <2>2
<1>7. recent'[1] = command /\ recent' # <<>>
  BY <1>1, <1>2, <1>4
<1> QED BY <1>3, <1>6, <1>7 DEF Joins

\* Building a command dispatches it.
LEMMA SendNewDispatches ==
    ASSUME DispatchOK, NEW g \in Goals, NEW mode \in Modes, SendNew(g, mode)
    PROVE  Dispatched(g, mode)
<1>1. Command(nextId, mode, g) \in Commands
  BY DEF DispatchOK, Command, Commands
<1>2. CASE Publishing
  BY <1>1, <1>2, SendJoins DEF SendNew, Dispatched
<1>3. CASE ~Publishing
  BY <1>3 DEF SendNew, Dispatched
<1> QED BY <1>2, <1>3

\* A step that builds no command, or a stop command, moves on with a board
\* that keeps or forgets the active command.
LEMMA RouteMove ==
    ASSUME TypeInv, NEW g \in Goals,
           UNCHANGED <<shared, reports, status, completed, reached>>,
           pc[g] \in InTicks,
           NEW step \in InTicks \cup {"result"}, Goto(g, step),
           NEW board \in Blackboards, bb' = [bb EXCEPT ![g] = board],
           board.active = bb[g].active,
           step \in Undecided => MayDrive(board),
           step \in {"stop", "result"} => board.outcome # "succeeded",
           UNCHANGED dispatch \/ PublishStop(g)
    PROVE  RouteStep(g)
<1>1. /\ UNCHANGED <<lifecycle, status, finalized, motionStatus, completed, reached>>
      /\ \A h \in Goals \ {g} : pc'[h] = pc[h] /\ bb'[h] = bb[h]
      /\ pc'[g] = step /\ bb'[g] = board
  BY DEF TypeInv, ThreadOK, Goto, shared, reports
<1>2. "start" \notin InTicks
  BY DEF InTicks, OutsideTicks
<1>3. CASE UNCHANGED dispatch
  BY <1>1, <1>2, <1>3 DEF RouteStep, Silent, dispatch
<1>4. CASE ~UNCHANGED dispatch /\ PublishStop(g)
  <2>1. "stop" \in Modes /\ SendNew(g, "stop")
    BY <1>4 DEF Modes, PublishStop
  <2>2. Dispatched(g, "stop")
    BY <2>1, SendNewDispatches DEF TypeInv
  <2> QED BY <1>1, <1>2, <2>2 DEF RouteStep
<1> QED BY <1>3, <1>4

\* Leaving the monitor without success.
LEMMA RouteConclude ==
    ASSUME TypeInv, NEW g \in Goals, NEW board \in Blackboards,
           NEW outcome \in {"canceled", "aborted"},
           UNCHANGED <<shared, reports, status, completed, reached>>,
           pc[g] \in InTicks, board.active = bb[g].active,
           Conclude(g, board, outcome),
           UNCHANGED dispatch \/ PublishStop(g)
    PROVE  RouteStep(g)
<1> DEFINE next == [board EXCEPT !.outcome = outcome]
<1>1. /\ next \in Blackboards /\ next.outcome # "succeeded"
      /\ next.active = bb[g].active
  BY DEF Blackboards, Outcomes
<1>2. bb' = [bb EXCEPT ![g] = next] /\ Goto(g, "result")
  BY DEF Conclude
<1>3. "result" \notin Undecided
  BY DEF Undecided, InTicks, OutsideTicks
<1> HIDE DEF next
<1> QED BY <1>1, <1>2, <1>3, RouteMove

\* Ending a recovery cycle on a cancel request, or for want of attempts.
LEMMA RouteFinishCanceled ==
    ASSUME TypeInv, NEW g \in Goals, FinishCanceled(g),
           UNCHANGED <<shared, reports, status, completed, reached>>,
           pc[g] \in InTicks
    PROVE  RouteStep(g)
<1>1. /\ [bb[g] EXCEPT !.since = "zero", !.window = "off"] \in Blackboards
      /\ [bb[g] EXCEPT !.since = "zero", !.window = "off"].active = bb[g].active
  BY DEF TypeInv, ThreadOK, Blackboards
<1> QED BY <1>1, RouteConclude DEF FinishCanceled

\* The attempts a thread gives up with do not matter.
LEMMA RouteStopAndAbort ==
    ASSUME TypeInv, NEW g \in Goals, NEW n \in Nat, StopAndAbort(g, n),
           UNCHANGED <<shared, reports, status, completed, reached>>,
           pc[g] \in InTicks
    PROVE  RouteStep(g)
<1>1. /\ [bb[g] EXCEPT !.attempts = n] \in Blackboards
      /\ [bb[g] EXCEPT !.attempts = n].active = bb[g].active
  BY DEF TypeInv, ThreadOK, Blackboards
<1> QED BY <1>1, RouteConclude DEF StopAndAbort

\* A move that leaves the board alone.
LEMMA RouteGoto ==
    ASSUME TypeInv, NEW g \in Goals, NEW step \in Undecided, Goto(g, step),
           UNCHANGED <<shared, reports, status, completed, reached>>,
           UNCHANGED <<bb, dispatch>>,
           pc[g] \in Undecided, MayDrive(bb[g])
    PROVE  RouteStep(g)
<1>1. step \in InTicks /\ step \notin {"stop", "result"} /\ pc[g] \in InTicks
  BY DEF Undecided, InTicks, OutsideTicks
<1>2. bb[g] \in Blackboards /\ bb' = [bb EXCEPT ![g] = bb[g]]
  BY DEF TypeInv, ThreadOK
<1> QED BY <1>1, <1>2, RouteMove

\* A failed call of a recovery cycle.
LEMMA RouteCallFails ==
    ASSUME TypeInv, NEW g \in Goals, NEW step \in Undecided, CallFails(g, step),
           UNCHANGED <<shared, reports, status, completed, reached>>,
           pc[g] \in Undecided, MayDrive(bb[g])
    PROVE  RouteStep(g)
<1>1. pc[g] \in InTicks
  BY DEF Undecided
<1> QED BY <1>1, RouteFinishCanceled, RouteGoto DEF CallFails

\* A navigate command is dispatched only with an attempt left.
LEMMA RouteRedispatch ==
    ASSUME TypeInv, NEW g \in Goals, NEW board \in Blackboards, MayDrive(board),
           Redispatch(g, board),
           UNCHANGED <<shared, reports, status, completed, reached>>,
           pc[g] \in Undecided, MayDrive(bb[g])
    PROVE  RouteStep(g)
<1> DEFINE next == [CycleOver(board) EXCEPT !.active = nextId,
                                            !.settled = FALSE, !.window = "open"]
<1>1. next.active = nextId /\ MayDrive(next)
  BY DEF Blackboards, CycleOver, MayDrive
<1>2. bb' = [bb EXCEPT ![g] = next] /\ pc' = [pc EXCEPT ![g] = "cancel"]
  BY DEF Redispatch, Goto
<1> HIDE DEF next
<1>3. /\ \A h \in Goals \ {g} : pc'[h] = pc[h] /\ bb'[h] = bb[h]
      /\ pc'[g] = "cancel" /\ bb'[g] = next
  BY <1>2 DEF TypeInv, ThreadOK
<1>4. "navigate" \in Modes /\ SendNew(g, "navigate")
  BY DEF Modes, Redispatch
<1>5. Dispatched(g, "navigate")
  BY <1>4, SendNewDispatches DEF TypeInv
<1>6. "cancel" \in InTicks /\ pc[g] \in InTicks /\ "start" \notin InTicks
  BY DEF Undecided, InTicks, OutsideTicks, Steps
<1>7. UNCHANGED <<lifecycle, status, finalized, motionStatus, completed, reached>>
  BY DEF shared, reports
<1> QED BY <1>1, <1>3, <1>5, <1>6, <1>7 DEF RouteStep, MayDrive

\* Spending an attempt dispatches a command or gives up.
LEMMA RouteSpendAttempt ==
    ASSUME TypeInv, NEW g \in Goals, SpendAttempt(g),
           UNCHANGED <<shared, reports, status, completed, reached>>,
           pc[g] \in Undecided, MayDrive(bb[g])
    PROVE  RouteStep(g)
<1> DEFINE n == bb[g].attempts + 1
           board == [bb[g] EXCEPT !.attempts = n]
<1>1. n \in Nat /\ MaxRetries \in Nat
  BY BoundsAssumption DEF TypeInv, ThreadOK, Blackboards, BoundsAssumption
<1>2. board \in Blackboards /\ (n < MaxRetries => MayDrive(board))
  BY <1>1 DEF TypeInv, ThreadOK, Blackboards, MayDrive
<1>3. pc[g] \in InTicks
  BY DEF Undecided
<1>4. IF n >= MaxRetries THEN StopAndAbort(g, n) ELSE Redispatch(g, board)
  BY DEF SpendAttempt
<1> HIDE DEF n, board
<1>5. CASE n >= MaxRetries
  BY <1>1, <1>3, <1>4, <1>5, RouteStopAndAbort
<1>6. CASE n < MaxRetries
  BY <1>1, <1>2, <1>4, <1>6, RouteRedispatch
<1> QED BY <1>1, <1>5, <1>6

-----------------------------------------------------------------------------
(* Every step inside a waypoint is such a step                             *)

\* A thread that has not left its waypoint may still drive.
Judged == \A g \in Goals : pc[g] \in Undecided => MayDrive(bb[g])

\* The steps up to the dispatch.
LEMMA RoutePlanning ==
    ASSUME TypeInv, Judged, NEW g \in Goals, Planning(g)
    PROVE  RouteStep(g)
<1>1. UNCHANGED <<shared, reports, status, completed, reached>>
  BY DEF Planning, StartPose, CheckReady, WaitForPlannerService,
         RequestGlobalPlan, PublishMotionCommand
<1>2. bb[g] \in Blackboards /\ MaxRetries \in Nat
  BY BoundsAssumption DEF TypeInv, ThreadOK, BoundsAssumption
<1>3. CASE StartPose(g)
  <2>1. /\ pc[g] = "start" /\ UNCHANGED dispatch
        /\ \/ /\ pc' = [pc EXCEPT ![g] = "result"]
              /\ bb' = [bb EXCEPT ![g] = [FreshBlackboard EXCEPT !.outcome = "canceled"]]
           \/ /\ pc' = [pc EXCEPT ![g] = "ready"]
              /\ bb' = [bb EXCEPT ![g] = FreshBlackboard]
    BY <1>3 DEF StartPose, At, Conclude, Goto
  <2>2. /\ FreshBlackboard.active = 0 /\ MayDrive(FreshBlackboard)
        /\ [FreshBlackboard EXCEPT !.outcome = "canceled"].active = 0
        /\ [FreshBlackboard EXCEPT !.outcome = "canceled"].outcome = "canceled"
    BY <1>2 DEF FreshBlackboard, MayDrive
  <2>3. "ready" \in Undecided /\ "result" \notin Undecided
    BY DEF Undecided, InTicks, OutsideTicks, Steps
  <2>4. /\ \A h \in Goals \ {g} : pc'[h] = pc[h] /\ bb'[h] = bb[h]
        /\ bb'[g].active = 0
        /\ \/ pc'[g] = "result" /\ bb'[g].outcome = "canceled"
           \/ pc'[g] = "ready" /\ MayDrive(bb'[g])
    BY <2>1, <2>2 DEF TypeInv, ThreadOK
  <2>5. Silent(g)
    BY <2>1 DEF Silent, dispatch
  <2> QED BY <1>1, <2>1, <2>3, <2>4, <2>5 DEF RouteStep, Undecided, shared, reports
<1>4. pc[g] \in {"ready", "planner", "plan", "dispatch"} =>
        pc[g] \in Undecided /\ pc[g] \in InTicks /\ MayDrive(bb[g])
  BY DEF Judged, Undecided, InTicks, OutsideTicks, Steps
<1>5. ASSUME pc[g] \in InTicks, PlanFails(g) PROVE RouteStep(g)
  BY <1>1, <1>2, <1>5, RouteConclude DEF PlanFails
<1>6. "planner" \in Undecided /\ "plan" \in Undecided /\ "dispatch" \in Undecided
  BY DEF Undecided, InTicks, OutsideTicks, Steps
<1>7. CASE CheckReady(g)
  BY <1>1, <1>4, <1>5, <1>6, <1>7, RouteGoto DEF CheckReady, At
<1>8. CASE WaitForPlannerService(g)
  BY <1>1, <1>4, <1>5, <1>6, <1>8, RouteGoto DEF WaitForPlannerService, At
<1>9. CASE RequestGlobalPlan(g)
  BY <1>1, <1>4, <1>5, <1>6, <1>9, RouteGoto DEF RequestGlobalPlan, At
<1>10. CASE PublishMotionCommand(g)
  <2> DEFINE board == [bb[g] EXCEPT !.active = nextId, !.settled = FALSE,
                         !.since = "zero", !.escaped = FALSE, !.attempts = 0]
  <2>1. pc[g] = "dispatch" /\ bb[g].outcome = "running"
    BY <1>4, <1>10 DEF PublishMotionCommand, At, MayDrive
  <2>2. board.active = nextId /\ MayDrive(board)
    BY <1>2, <2>1 DEF Blackboards, MayDrive
  <2>3. bb' = [bb EXCEPT ![g] = board] /\ pc' = [pc EXCEPT ![g] = "cancel"]
    BY <1>10 DEF PublishMotionCommand, Goto
  <2> HIDE DEF board
  <2>4. /\ \A h \in Goals \ {g} : pc'[h] = pc[h] /\ bb'[h] = bb[h]
        /\ pc'[g] = "cancel" /\ bb'[g] = board
    BY <2>3 DEF TypeInv, ThreadOK
  <2>5. "navigate" \in Modes /\ SendNew(g, "navigate")
    BY <1>10 DEF Modes, PublishMotionCommand
  <2>6. Dispatched(g, "navigate")
    BY <2>5, SendNewDispatches DEF TypeInv
  <2>7. "cancel" \in InTicks
    BY DEF InTicks, OutsideTicks, Steps
  <2> QED BY <1>1, <1>4, <2>1, <2>2, <2>4, <2>6, <2>7 DEF RouteStep, shared, reports
<1> QED BY <1>3, <1>7, <1>8, <1>9, <1>10 DEF Planning

\* The steps of the monitor loop.
LEMMA RouteMonitor ==
    ASSUME TypeInv, Judged, NEW g \in Goals, Monitor(g)
    PROVE  RouteStep(g)
<1>1. UNCHANGED <<shared, reports, status, completed, reached>>
  BY DEF Monitor, CheckCancelRequested, CheckGoalReached, StopAndMark,
         CheckRecoveryNeeded
<1>2. bb[g] \in Blackboards
  BY DEF TypeInv, ThreadOK
<1>3. /\ "cancel" \in Undecided /\ "goal" \in Undecided /\ "recovery" \in Undecided
      /\ "cycle" \in Undecided /\ "stop" \notin Undecided /\ "result" \notin Undecided
      /\ "stop" \in InTicks /\ "result" \notin InTicks /\ "start" \notin InTicks
      /\ Undecided \subseteq InTicks
  BY DEF Undecided, InTicks, OutsideTicks, Steps
<1>4. pc[g] \in {"cancel", "goal", "recovery"} =>
        pc[g] \in Undecided /\ pc[g] \in InTicks /\ MayDrive(bb[g])
  BY <1>3 DEF Judged
<1>5. CASE CheckCancelRequested(g)
  <2>1. CASE bb' = [bb EXCEPT ![g].outcome = "canceled"] /\ Goto(g, "stop")
    <3> DEFINE board == [bb[g] EXCEPT !.outcome = "canceled"]
    <3>1. /\ board \in Blackboards /\ board.outcome = "canceled"
          /\ board.active = bb[g].active
      BY <1>2 DEF Blackboards, Outcomes
    <3>2. bb' = [bb EXCEPT ![g] = board]
      BY <2>1
    <3>3. pc[g] \in InTicks /\ UNCHANGED dispatch
      BY <1>3, <1>5 DEF CheckCancelRequested, At
    <3> HIDE DEF board
    <3> QED BY <1>1, <1>3, <2>1, <3>1, <3>2, <3>3, RouteMove
  <2>2. CASE Goto(g, "goal") /\ UNCHANGED bb
    BY <1>1, <1>3, <1>4, <1>5, <2>2, RouteGoto DEF CheckCancelRequested, At
  <2> QED BY <1>5, <2>1, <2>2 DEF CheckCancelRequested
<1>6. CASE CheckGoalReached(g)
  <2>1. /\ pc[g] = "goal" /\ UNCHANGED <<nextId, recent>>
        /\ latch' = IF EndsCommand(bb[g].active) THEN bb[g].active ELSE latch
        /\ IF latch' = bb[g].active /\ bb[g].active # 0
           THEN /\ bb' = [bb EXCEPT ![g].outcome = "succeeded"]
                /\ pc' = [pc EXCEPT ![g] = "stop"]
           ELSE pc' = [pc EXCEPT ![g] = "recovery"] /\ UNCHANGED bb
    BY <1>6 DEF CheckGoalReached, At, Goto
  <2>2. Silent(g)
    BY <2>1 DEF Silent
  <2>3. /\ \A h \in Goals \ {g} : pc'[h] = pc[h] /\ bb'[h] = bb[h]
        /\ bb'[g].active = bb[g].active
        /\ \/ pc'[g] = "stop" /\ Ended(g)
           \/ pc'[g] = "recovery" /\ bb'[g] = bb[g]
    BY <1>2, <2>1 DEF TypeInv, ThreadOK, Blackboards, Ended
  <2> QED BY <1>1, <1>3, <1>4, <2>1, <2>2, <2>3 DEF RouteStep, shared, reports
<1>7. CASE StopAndMark(g)
  <2>1. pc[g] = "stop" /\ pc' = [pc EXCEPT ![g] = "result"] /\ UNCHANGED bb
        /\ PublishStop(g)
    BY <1>7 DEF StopAndMark, At, Goto
  <2>2. \/ Silent(g)
        \/ Dispatched(g, "stop")
    BY <2>1, SendNewDispatches DEF PublishStop, Silent, dispatch, Modes, TypeInv
  <2>3. pc'[g] = "result" /\ \A h \in Goals \ {g} : pc'[h] = pc[h]
    BY <2>1 DEF TypeInv, ThreadOK
  <2> QED BY <1>1, <1>3, <2>1, <2>2, <2>3 DEF RouteStep, shared, reports
<1>8. CASE CheckRecoveryNeeded(g)
  <2> DEFINE Kept(board) == /\ board \in Blackboards /\ board.active = bb[g].active
                            /\ board.outcome = bb[g].outcome
                            /\ board.attempts = bb[g].attempts
  <2>1. /\ Kept([bb[g] EXCEPT !.window = "off", !.since = "zero", !.escaped = FALSE])
        /\ Kept([bb[g] EXCEPT !.window = "off", !.since = "running"])
        /\ Kept([bb[g] EXCEPT !.since = "zero"])
        /\ Kept([bb[g] EXCEPT !.since = "running"])
        /\ Kept(bb[g])
    BY <1>2 DEF Blackboards
  <2> HIDE DEF Kept
  <2>2. \/ Goto(g, "cycle") /\ UNCHANGED bb
        \/ \E board : /\ Kept(board) /\ Goto(g, "cancel")
                      /\ bb' = [bb EXCEPT ![g] = board]
    BY <1>8, <2>1 DEF CheckRecoveryNeeded
  <2>3. pc[g] = "recovery" /\ UNCHANGED dispatch
    BY <1>8 DEF CheckRecoveryNeeded, At
  <2>4. CASE Goto(g, "cycle") /\ UNCHANGED bb
    BY <1>1, <1>3, <1>4, <2>3, <2>4, RouteGoto
  <2>5. ASSUME NEW board, Kept(board), Goto(g, "cancel"), bb' = [bb EXCEPT ![g] = board]
        PROVE  RouteStep(g)
    <3>1. MayDrive(board) /\ board \in Blackboards /\ board.active = bb[g].active
      BY <1>4, <2>3, <2>5 DEF Kept, MayDrive
    <3> QED BY <1>1, <1>3, <1>4, <2>3, <2>5, <3>1, RouteMove
  <2> QED BY <2>2, <2>4, <2>5
<1> QED BY <1>5, <1>6, <1>7, <1>8 DEF Monitor

\* The steps of a recovery cycle.
LEMMA RouteRecovery ==
    ASSUME TypeInv, Judged, NEW g \in Goals, RecoveryCycle(g)
    PROVE  RouteStep(g)
<1>1. UNCHANGED <<shared, reports, status, completed, reached>>
  BY DEF RecoveryCycle, StartCycle, WaitForRecoveryServices, ClearLocalCostmap,
         RequestLocalEscape, ReplanForPlanner, RequestRecoveryCommand,
         AwaitRecoveryCommand, CountAttempt, ReplanAfterRecovery
<1>2. bb[g] \in Blackboards /\ planStatus \in PlanStatuses /\ nextId \in Nat
      /\ MaxRetries \in Nat
  BY BoundsAssumption DEF TypeInv, ThreadOK, WorldOK, DispatchOK, BoundsAssumption
<1>3. /\ "cancel" \in Undecided /\ "services" \in Undecided /\ "clear" \in Undecided
      /\ "escape" \in Undecided /\ "replan" \in Undecided /\ "behavior" \in Undecided
      /\ "await" \in Undecided /\ "tail" \in Undecided /\ "freshplan" \in Undecided
      /\ "cycle" \in Undecided /\ Undecided \subseteq InTicks
      /\ "start" \notin InTicks /\ "result" \notin InTicks
      /\ "stop" \notin Undecided
  BY DEF Undecided, InTicks, OutsideTicks, Steps
<1>4. AfterEscape(g) \in Undecided
  BY <1>3 DEF AfterEscape
<1>5. pc[g] \in Undecided /\ pc[g] \in InTicks /\ MayDrive(bb[g])
  BY <1>3 DEF Judged, RecoveryCycle, StartCycle, WaitForRecoveryServices,
     ClearLocalCostmap, RequestLocalEscape, ReplanForPlanner, RequestRecoveryCommand,
     AwaitRecoveryCommand, CountAttempt, ReplanAfterRecovery, At
<1>6. ASSUME NEW board \in Blackboards, board.active = bb[g].active, MayDrive(board),
             NEW step \in Undecided, bb' = [bb EXCEPT ![g] = board], Goto(g, step),
             UNCHANGED dispatch \/ PublishStop(g)
      PROVE  RouteStep(g)
  <2>1. step \in InTicks \cup {"result"} /\ step \notin {"stop", "result"}
    BY <1>3
  <2> QED BY <1>1, <1>5, <1>6, <2>1, RouteMove
<1>7. CASE StartCycle(g)
  <2>1. CASE FinishCanceled(g)
    BY <1>1, <1>5, <2>1, RouteFinishCanceled
  <2>2. CASE /\ bb' = [bb EXCEPT ![g].since = "zero", ![g].window = "off",
                                 ![g].escaped = FALSE]
             /\ Goto(g, "cancel") /\ UNCHANGED dispatch
    <3> DEFINE board == [bb[g] EXCEPT !.since = "zero", !.window = "off",
                                      !.escaped = FALSE]
    <3>1. board \in Blackboards /\ board.active = bb[g].active /\ MayDrive(board)
      BY <1>2, <1>5 DEF Blackboards, MayDrive
    <3>2. bb' = [bb EXCEPT ![g] = board]
      BY <2>2
    <3> HIDE DEF board
    <3> QED BY <1>3, <1>6, <2>2, <3>1, <3>2
  <2>3. CASE /\ PublishStop(g) /\ bb' = [bb EXCEPT ![g].snap = planStatus]
             /\ Goto(g, "services")
    <3> DEFINE board == [bb[g] EXCEPT !.snap = planStatus]
    <3>1. board \in Blackboards /\ board.active = bb[g].active /\ MayDrive(board)
      BY <1>2, <1>5 DEF Blackboards, MayDrive
    <3>2. bb' = [bb EXCEPT ![g] = board]
      BY <2>3
    <3> HIDE DEF board
    <3> QED BY <1>3, <1>6, <2>3, <3>1, <3>2
  <2> QED BY <1>7, <2>1, <2>2, <2>3 DEF StartCycle
<1>8. CASE WaitForRecoveryServices(g)
  <2>1. CASE Conclude(g, bb[g], "aborted") /\ UNCHANGED dispatch
    BY <1>1, <1>2, <1>5, <2>1, RouteConclude
  <2> QED BY <1>1, <1>3, <1>5, <1>8, <2>1, RouteGoto, RouteFinishCanceled
          DEF WaitForRecoveryServices
<1>9. CASE ClearLocalCostmap(g)
  BY <1>1, <1>3, <1>4, <1>5, <1>9, RouteGoto, RouteCallFails DEF ClearLocalCostmap
<1>10. CASE RequestLocalEscape(g)
  <2>1. /\ [bb[g] EXCEPT !.escaped = TRUE] \in Blackboards
        /\ MayDrive([bb[g] EXCEPT !.escaped = TRUE])
    BY <1>2, <1>5 DEF Blackboards, MayDrive
  <2> QED BY <1>1, <1>4, <1>5, <1>10, <2>1, RouteRedispatch, RouteCallFails
          DEF RequestLocalEscape
<1>11. CASE ReplanForPlanner(g)
  BY <1>1, <1>3, <1>5, <1>11, RouteSpendAttempt, RouteCallFails DEF ReplanForPlanner
<1>12. CASE RequestRecoveryCommand(g)
  <2>1. CASE CallFails(g, "tail")
    BY <1>1, <1>3, <1>5, <2>1, RouteCallFails
  <2>2. CASE /\ SendNew(g, "recovery")
             /\ bb' = [bb EXCEPT ![g].behavior = Behavior(g), ![g].awaited = nextId]
             /\ Goto(g, "await")
    <3> DEFINE board == [bb[g] EXCEPT !.behavior = Behavior(g), !.awaited = nextId]
    <3>1. board.active = bb[g].active /\ MayDrive(board)
      BY <1>2, <1>5 DEF Blackboards, MayDrive
    <3>2. bb' = [bb EXCEPT ![g] = board] /\ pc' = [pc EXCEPT ![g] = "await"]
      BY <2>2 DEF Goto
    <3> HIDE DEF board
    <3>3. /\ \A h \in Goals \ {g} : pc'[h] = pc[h] /\ bb'[h] = bb[h]
          /\ pc'[g] = "await" /\ bb'[g] = board
      BY <3>2 DEF TypeInv, ThreadOK
    <3>4. Dispatched(g, "recovery")
      BY <2>2, SendNewDispatches DEF Modes, TypeInv
    <3> QED BY <1>1, <1>3, <1>5, <3>1, <3>3, <3>4 DEF RouteStep, shared, reports
  <2> QED BY <1>12, <2>1, <2>2 DEF RequestRecoveryCommand
<1>13. CASE AwaitRecoveryCommand(g)
  BY <1>1, <1>3, <1>5, <1>13, RouteGoto, RouteSpendAttempt, RouteCallFails
  DEF AwaitRecoveryCommand
<1>14. CASE CountAttempt(g)
  <2> DEFINE n == bb[g].attempts + 1
             board == [CycleOver(bb[g]) EXCEPT !.attempts = n]
  <2>1. n \in Nat
    BY <1>2 DEF Blackboards
  <2>2. CASE n >= MaxRetries
    BY <1>1, <1>5, <1>14, <2>1, <2>2, RouteStopAndAbort DEF CountAttempt
  <2>3. CASE n < MaxRetries
    <3>1. ~(n >= MaxRetries)
      BY <1>2, <2>1, <2>3
    <3>2. bb' = [bb EXCEPT ![g] = board] /\ Goto(g, "freshplan") /\ UNCHANGED dispatch
      BY <1>14, <3>1 DEF CountAttempt
    <3>3. board \in Blackboards /\ board.active = bb[g].active
      BY <1>2, <2>1 DEF Blackboards, CycleOver, NoPlanReport, PlanStatuses,
                        AllPlanReports, Behaviors
    <3>4. board.outcome = bb[g].outcome /\ board.attempts = n
      BY <1>2, <2>1 DEF Blackboards, CycleOver
    <3>5. MayDrive(board)
      BY <1>5, <2>3, <3>4 DEF MayDrive
    <3> HIDE DEF board
    <3> QED BY <1>3, <1>6, <3>2, <3>3, <3>5
  <2> QED BY <1>2, <2>1, <2>2, <2>3
<1>15. CASE ReplanAfterRecovery(g)
  BY <1>1, <1>2, <1>3, <1>5, <1>15, RouteRedispatch, RouteCallFails
  DEF ReplanAfterRecovery
<1> QED
  BY <1>7, <1>8, <1>9, <1>10, <1>11, <1>12, <1>13, <1>14, <1>15 DEF RecoveryCycle

\* An exception inside a tick.
LEMMA RouteThrow ==
    ASSUME TypeInv, NEW g \in Goals, TickThrows(g)
    PROVE  RouteStep(g)
<1>1. bb[g] \in Blackboards /\ pc[g] \in Steps
  BY DEF TypeInv, ThreadOK
<1>2. /\ UNCHANGED <<shared, reports, status, completed, reached>>
      /\ UNCHANGED dispatch /\ pc[g] \in InTicks
  BY <1>1 DEF TickThrows, InTicks
<1> QED BY <1>1, <1>2, RouteConclude DEF TickThrows

-----------------------------------------------------------------------------
(* The invariant                                                           *)

\* Ids are drawn in order: whatever refers to a command was drawn before.
Ids ==
    /\ \A i \in DOMAIN recent : recent[i].id # 0 /\ recent[i].id < nextId
    /\ latch < nextId /\ motionStatus.id < nextId
    /\ \A g \in Goals : bb[g].active < nextId

\* A command of the topic with a thread's active id is its own, to navigate.
Owned ==
    \A g \in Goals : \A i \in DOMAIN recent :
        recent[i].id = bb[g].active =>
            recent[i].mode = "navigate" /\ recent[i].goal = g

\* Waypoints are counted once they were reached, and up to the route's length.
Waypoint(g) ==
    /\ completed[g] <= reached[g] /\ reached[g] <= PoseCount[g]
    /\ pc[g] = "none" => completed[g] = 0
    /\ pc[g] \in InTicks \cup {"start", "result"} => completed[g] < PoseCount[g]
    /\ pc[g] \in InTicks /\ Ended(g) => completed[g] < reached[g]
    /\ pc[g] \in {"stop", "result"} /\ bb[g].outcome = "succeeded" =>
         completed[g] < reached[g]
    /\ pc[g] \in {"finalize", "commit"} /\ bb[g].outcome = "succeeded" =>
         completed[g] = PoseCount[g]
    /\ status[g] = "succeeded" => completed[g] = PoseCount[g]

Waypoints == \A g \in Goals : Waypoint(g)

RouteInv == Ids /\ Owned /\ Judged /\ Waypoints

\* The initial state has no command and no waypoint behind it.
LEMMA RouteInit == Init => RouteInv
<1> SUFFICES ASSUME Init PROVE RouteInv
  OBVIOUS
<1>1. Ids /\ Owned
  BY DEF Init, Ids, Owned, NoReport, FreshBlackboard
<1>2. Judged
  BY DEF Init, Judged, Undecided, InTicks, OutsideTicks
<1>3. ASSUME NEW g \in Goals PROVE Waypoint(g)
  <2>1. /\ pc[g] = "none" /\ status[g] = "unknown"
        /\ completed[g] = 0 /\ reached[g] = 0
    BY DEF Init
  <2>2. PoseCount[g] \in Nat \ {0}
    BY GoalsAssumption
  <2>3. "none" \notin InTicks
    BY DEF InTicks, OutsideTicks
  <2> QED BY <2>1, <2>2, <2>3 DEF Waypoint
<1> QED BY <1>1, <1>2, <1>3 DEF RouteInv, Waypoints

\* The types the arithmetic below needs.
LEMMA RouteTypes ==
    ASSUME TypeInv
    PROVE  /\ nextId \in Nat \ {0} /\ latch \in Nat /\ motionStatus.id \in Nat
           /\ \A i \in DOMAIN recent : recent[i] \in Commands /\ recent[i].id \in Nat
           /\ \A g \in Goals : /\ bb[g].active \in Nat /\ PoseCount[g] \in Nat \ {0}
                               /\ completed[g] \in Nat /\ reached[g] \in Nat
<1>1. nextId \in Nat \ {0} /\ latch \in Nat /\ motionStatus.id \in Nat
  BY DEF TypeInv, WorldOK, DispatchOK, Reports
<1>2. \A i \in DOMAIN recent : recent[i] \in Commands
  BY DEF TypeInv, DispatchOK
<1>3. \A i \in DOMAIN recent : recent[i].id \in Nat
  BY <1>2 DEF Commands
<1>4. ASSUME NEW g \in Goals
      PROVE  /\ bb[g].active \in Nat /\ PoseCount[g] \in Nat \ {0}
             /\ completed[g] \in Nat /\ reached[g] \in Nat
  <2>1. bb[g] \in Blackboards
    BY DEF TypeInv, ThreadOK
  <2> QED BY <2>1, GoalsAssumption DEF TypeInv, WorldOK, Blackboards
<1> QED BY <1>1, <1>2, <1>3, <1>4

\* A step inside a waypoint draws ids in order.
LEMMA RouteIds ==
    ASSUME TypeInv, TypeInv', Ids, NEW g \in Goals, RouteStep(g)
    PROVE  Ids'
<1>1. nextId' \in Nat /\ nextId <= nextId' /\ nextId # 0
  BY RouteTypes DEF RouteStep, Silent, Dispatched
<1>2. ASSUME NEW h \in Goals PROVE bb'[h].active < nextId'
  <2>1. CASE h # g
    BY <1>1, <2>1, RouteTypes DEF RouteStep, Ids
  <2>2. CASE h = g
    BY <1>1, <2>2, RouteTypes DEF RouteStep, Ids, Silent, Dispatched
  <2> QED BY <2>1, <2>2
<1>3. latch' < nextId'
  BY <1>1, RouteTypes DEF RouteStep, Ids, Silent, Dispatched
<1>4. ASSUME NEW i \in DOMAIN recent' PROVE recent'[i].id # 0 /\ recent'[i].id < nextId'
  <2>1. CASE recent' = recent
    BY <1>1, <2>1, RouteTypes DEF Ids
  <2>2. CASE recent' # recent
    <3>1. PICK mode \in Modes : nextId' = nextId + 1 /\ Joins(Command(nextId, mode, g))
      BY <2>2 DEF RouteStep, Silent, Dispatched, Modes
    <3>2. Command(nextId, mode, g).id = nextId
      BY DEF Command
    <3> QED BY <1>1, <3>1, <3>2, RouteTypes DEF Joins, Ids
  <2> QED BY <2>1, <2>2
<1>5. motionStatus'.id < nextId'
  BY <1>1, RouteTypes DEF RouteStep, Ids
<1> QED BY <1>2, <1>3, <1>4, <1>5 DEF Ids

\* It makes a command its own before anyone can report of it.
LEMMA RouteOwned ==
    ASSUME TypeInv, TypeInv', Ids, Ids', Owned, NEW g \in Goals, RouteStep(g)
    PROVE  Owned'
<1> SUFFICES ASSUME NEW h \in Goals, NEW i \in DOMAIN recent',
                    recent'[i].id = bb'[h].active
             PROVE  recent'[i].mode = "navigate" /\ recent'[i].goal = h
  BY DEF Owned
<1>1. recent'[i].id # 0
  BY DEF Ids
<1>2. ASSUME NEW j \in DOMAIN recent, recent'[i] = recent[j],
             bb'[h].active = bb[h].active
      PROVE  recent'[i].mode = "navigate" /\ recent'[i].goal = h
  BY <1>2 DEF Owned
<1>3. CASE recent' = recent /\ bb'[h].active \in {0, bb[h].active}
  BY <1>1, <1>2, <1>3
<1>4. ASSUME NEW mode \in Modes, Dispatched(g, mode), recent' = recent \/ Joins(Command(nextId, mode, g)),
             mode = "navigate" => bb'[g].active = nextId,
             mode # "navigate" => bb'[g].active = bb[g].active
      PROVE  recent'[i].mode = "navigate" /\ recent'[i].goal = h
  <2>1. /\ Command(nextId, mode, g).id = nextId /\ Command(nextId, mode, g).mode = mode
        /\ Command(nextId, mode, g).goal = g
    BY DEF Command
  <2>2. recent'[i] = Command(nextId, mode, g) \/ \E j \in DOMAIN recent : recent'[i] = recent[j]
    BY <1>4 DEF Joins
  <2>3. bb[h].active < nextId /\ bb[h].active \in Nat /\ nextId \in Nat
    BY RouteTypes DEF Ids
  <2>4. h # g => bb'[h].active = bb[h].active
    BY DEF RouteStep
  <2>5. CASE recent'[i] = Command(nextId, mode, g)
    <3>1. h = g /\ mode = "navigate"
      BY <1>4, <2>1, <2>3, <2>4, <2>5
    <3> QED BY <2>1, <2>5, <3>1
  <2>6. ASSUME NEW j \in DOMAIN recent, recent'[i] = recent[j]
        PROVE  recent'[i].mode = "navigate" /\ recent'[i].goal = h
    <3>1. recent[j].id < nextId /\ recent[j].id \in Nat
      BY RouteTypes DEF Ids
    <3>2. bb'[h].active = bb[h].active
      BY <1>4, <2>3, <2>4, <2>6, <3>1
    <3> QED BY <1>2, <2>6, <3>2
  <2> QED BY <2>2, <2>5, <2>6
<1>5. h # g => bb'[h].active = bb[h].active
  BY DEF RouteStep
<1> QED BY <1>3, <1>4, <1>5 DEF RouteStep, Silent, Dispatched, Modes

\* It keeps Judged.
LEMMA RouteJudged ==
    ASSUME Judged, NEW g \in Goals, RouteStep(g)
    PROVE  Judged'
<1> SUFFICES ASSUME NEW h \in Goals, pc'[h] \in Undecided PROVE MayDrive(bb'[h])
  BY DEF Judged, MayDrive
<1> QED BY DEF Judged, RouteStep

\* It sees a command ended only when the waypoint was reported.
LEMMA RouteWaypoints ==
    ASSUME TypeInv, TypeInv', Ids, Waypoints, NEW g \in Goals, RouteStep(g)
    PROVE  Waypoints'
<1> SUFFICES ASSUME NEW h \in Goals PROVE Waypoint(h)'
  BY DEF Waypoints
<1>1. UNCHANGED <<status, motionStatus, completed, reached>>
  BY DEF RouteStep
<1>2. /\ nextId \in Nat \ {0} /\ latch \in Nat /\ motionStatus.id \in Nat
      /\ latch < nextId /\ motionStatus.id < nextId
  BY RouteTypes DEF Ids
<1>3. ASSUME NEW id, EndsCommand(id) PROVE motionStatus.id = id /\ EndsCommand(id)'
  BY <1>1, <1>3 DEF EndsCommand
<1>4. CASE h # g
  <2>1. pc'[h] = pc[h] /\ bb'[h] = bb[h]
    BY <1>4 DEF RouteStep
  <2>2. Ended(h)' => Ended(h)
    <3>1. latch' \in {0, latch} \/ (latch' = bb[g].active /\ EndsCommand(latch'))
      BY DEF RouteStep, Silent, Dispatched
    <3>2. \A id : EndsCommand(id)' => EndsCommand(id)
      BY <1>1 DEF EndsCommand
    <3>3. Ended(h)' => bb[h].active # 0 /\ (latch' = bb[h].active \/ EndsCommand(bb[h].active))
      BY <2>1, <3>2 DEF Ended, EndsCommand
    <3> QED BY <3>1, <3>3 DEF Ended
  <2> QED BY <1>1, <2>1, <2>2 DEF Waypoints, Waypoint
<1>5. CASE h = g
  <2>1. pc[g] \in InTicks \cup {"start"} /\ pc'[g] \in InTicks \cup {"result"}
    BY DEF RouteStep
  <2>2. completed[g] < PoseCount[g]
    BY <2>1 DEF Waypoints, Waypoint
  <2>3. "none" \notin InTicks /\ "finalize" \notin InTicks /\ "commit" \notin InTicks
        /\ "start" \notin InTicks
    BY DEF InTicks, OutsideTicks
  <2>4. pc[g] \in InTicks /\ Ended(g)' => Ended(g)
    <3>1. \A id : EndsCommand(id)' <=> EndsCommand(id)
      BY <1>1 DEF EndsCommand
    <3>2. Ended(g)' <=> /\ bb'[g].active # 0
                        /\ latch' = bb'[g].active \/ EndsCommand(bb'[g].active)
      BY <1>1 DEF Ended, EndsCommand
    <3>3. CASE Silent(g) /\ bb'[g].active \in {0, bb[g].active}
      BY <3>2, <3>3 DEF Silent, Ended
    <3>4. ASSUME NEW mode, Dispatched(g, mode), bb'[g].active = bb[g].active
          PROVE  Ended(g)' => Ended(g)
      BY <3>2, <3>4 DEF Dispatched, Ended
    <3>5. CASE Dispatched(g, "navigate") /\ bb'[g].active = nextId
      <4>1. latch' # nextId /\ ~EndsCommand(nextId)
        BY <1>2, <1>3, <3>5 DEF Dispatched
      <4> QED BY <3>2, <3>5, <4>1
    <3> QED BY <3>3, <3>4, <3>5 DEF RouteStep
  <2>5. pc[g] = "start" => ~Ended(g)'
    BY DEF RouteStep, Ended
  <2>6. Ended(g)' => completed[g] < reached[g]
    BY <2>1, <2>4, <2>5 DEF Waypoints, Waypoint
  <2>7. pc'[g] \in {"stop", "result"} /\ bb'[g].outcome = "succeeded" =>
          completed[g] < reached[g]
    BY DEF RouteStep, Waypoints, Waypoint
  <2>8. Waypoint(g)' <=>
          /\ completed[g] <= reached[g] /\ reached[g] <= PoseCount[g]
          /\ pc'[g] = "none" => completed[g] = 0
          /\ pc'[g] \in InTicks \cup {"start", "result"} => completed[g] < PoseCount[g]
          /\ pc'[g] \in InTicks /\ Ended(g)' => completed[g] < reached[g]
          /\ pc'[g] \in {"stop", "result"} /\ bb'[g].outcome = "succeeded" =>
               completed[g] < reached[g]
          /\ pc'[g] \in {"finalize", "commit"} /\ bb'[g].outcome = "succeeded" =>
               completed[g] = PoseCount[g]
          /\ status[g] = "succeeded" => completed[g] = PoseCount[g]
    BY <1>1 DEF Waypoint, Ended
  <2> QED BY <1>5, <2>1, <2>2, <2>3, <2>6, <2>7, <2>8 DEF Waypoints, Waypoint
<1> QED BY <1>4, <1>5

\* The four parts together.
LEMMA RouteStepInv ==
    ASSUME TypeInv, TypeInv', RouteInv, NEW g \in Goals, RouteStep(g)
    PROVE  RouteInv'
<1>1. Ids'
  BY RouteIds DEF RouteInv
<1> QED BY <1>1, RouteOwned, RouteJudged, RouteWaypoints DEF RouteInv

\* A step that leaves commands, counts and threads alone, and may drop the
\* latest status, keeps the invariant.
LEMMA SameRoute ==
    ASSUME TypeInv, RouteInv,
           UNCHANGED <<nextId, recent, latch, completed, reached, pc>>,
           motionStatus' \in {motionStatus, NoReport},
           \A g \in Goals : /\ bb'[g].active = bb[g].active
                            /\ bb'[g].outcome = bb[g].outcome
                            /\ bb'[g].attempts = bb[g].attempts
                            /\ status'[g] = "succeeded" => status[g] = "succeeded"
    PROVE  RouteInv'
<1>1. \A id : EndsCommand(id)' => EndsCommand(id)
  <2>1. NoReport.kind # "done"
    BY DEF NoReport
  <2> QED BY <2>1 DEF EndsCommand
<1>2. \A g \in Goals : Ended(g)' => Ended(g)
  BY <1>1 DEF Ended, EndsCommand
<1>3. Ids'
  BY RouteTypes DEF RouteInv, Ids, NoReport
<1>4. Owned'
  BY DEF RouteInv, Owned
<1>5. Judged'
  BY DEF RouteInv, Judged, MayDrive
<1>6. Waypoints'
  BY <1>2 DEF RouteInv, Waypoints, Waypoint
<1> QED BY <1>3, <1>4, <1>5, <1>6 DEF RouteInv

\* A status of a command ends the command of the thread that owns it.
LEMMA StatusRoute ==
    ASSUME TypeInv, TypeInv', RouteInv, HandleMotionStatus
    PROVE  RouteInv'
<1>1. UNCHANGED <<nextId, recent, completed, pc, bb, status>>
  BY DEF HandleMotionStatus, shared
<1>2. PICK i \in DOMAIN recent : \E kind \in ReportsOf(recent[i]) :
         /\ motionStatus' = [id |-> recent[i].id, kind |-> kind]
         /\ latch' = IF kind = "done" THEN recent[i].id ELSE latch
         /\ reached' =
              IF /\ kind = "done"
                 /\ recent[i].mode = "navigate"
                 /\ bb[recent[i].goal].active = recent[i].id
                 /\ pc[recent[i].goal] \notin OutsideTicks
              THEN [reached EXCEPT ![recent[i].goal] = completed[recent[i].goal] + 1]
              ELSE reached
  BY DEF HandleMotionStatus
<1>3. PICK kind \in ReportsOf(recent[i]) :
         /\ motionStatus' = [id |-> recent[i].id, kind |-> kind]
         /\ latch' = IF kind = "done" THEN recent[i].id ELSE latch
         /\ reached' =
              IF /\ kind = "done"
                 /\ recent[i].mode = "navigate"
                 /\ bb[recent[i].goal].active = recent[i].id
                 /\ pc[recent[i].goal] \notin OutsideTicks
              THEN [reached EXCEPT ![recent[i].goal] = completed[recent[i].goal] + 1]
              ELSE reached
  BY <1>2
<1>4. Ids'
  BY <1>1, <1>3, RouteTypes DEF RouteInv, Ids
<1>5. Owned' /\ Judged'
  BY <1>1 DEF RouteInv, Owned, Judged, MayDrive
<1>6. ASSUME NEW g \in Goals PROVE Waypoint(g)'
  <2>1. reached'[g] = reached[g] \/ (reached'[g] = completed[g] + 1 /\ pc[g] \in InTicks)
    BY <1>3 DEF TypeInv, WorldOK, ThreadOK, InTicks
  <2>2. ASSUME Ended(g)', pc[g] \in InTicks, ~Ended(g)
        PROVE  reached'[g] = completed[g] + 1
    <3>1. bb[g].active # 0 /\ kind = "done" /\ recent[i].id = bb[g].active
      BY <1>1, <1>3, <2>2 DEF Ended, EndsCommand
    <3>2. recent[i].mode = "navigate" /\ recent[i].goal = g
      BY <3>1 DEF RouteInv, Owned
    <3>3. reached' = [reached EXCEPT ![g] = completed[g] + 1]
      BY <1>3, <2>2, <3>1, <3>2 DEF InTicks
    <3> QED BY <3>3 DEF TypeInv, WorldOK
  <2>3. /\ completed[g] \in Nat /\ reached[g] \in Nat /\ PoseCount[g] \in Nat
        /\ reached'[g] \in Nat
    BY RouteTypes DEF TypeInv, WorldOK
  <2>4. pc[g] \in InTicks => completed[g] < PoseCount[g]
    BY DEF RouteInv, Waypoints, Waypoint
  <2>5. completed[g] <= reached'[g] /\ reached'[g] <= PoseCount[g]
    BY <2>1, <2>3, <2>4 DEF RouteInv, Waypoints, Waypoint
  <2>6. pc[g] \in InTicks /\ Ended(g)' => completed[g] < reached'[g]
    BY <2>1, <2>2, <2>3 DEF RouteInv, Waypoints, Waypoint
  <2>7. pc[g] \in {"stop", "result"} /\ bb[g].outcome = "succeeded" =>
          completed[g] < reached'[g]
    BY <2>1, <2>3 DEF RouteInv, Waypoints, Waypoint
  <2> QED BY <1>1, <2>5, <2>6, <2>7 DEF RouteInv, Waypoints, Waypoint
<1> QED BY <1>4, <1>5, <1>6 DEF RouteInv, Waypoints

\* An accepted goal starts with no waypoint behind it.
LEMMA AcceptRoute ==
    ASSUME TypeInv, Progress, RouteInv, NEW g \in Goals, HandleGoal(g)
    PROVE  RouteInv'
<1>1. UNCHANGED <<nextId, recent, latch, motionStatus, completed, reached, bb>>
  BY DEF HandleGoal, dispatch, reports
<1>2. \A h \in Goals : status'[h] = "succeeded" => status[h] = "succeeded"
  BY DEF HandleGoal, TypeInv, WorldOK
<1>3. CASE UNCHANGED pc
  BY <1>1, <1>2, <1>3, SameRoute
<1>4. CASE pc' = [pc EXCEPT ![g] = "start"]
  <2>1. pc[g] = "none"
    BY DEF HandleGoal, Progress
  <2>2. completed[g] < PoseCount[g]
    BY <2>1, RouteTypes DEF RouteInv, Waypoints, Waypoint
  <2>3. "start" \notin InTicks /\ "start" \notin Undecided
    BY DEF Undecided, InTicks, OutsideTicks
  <2>4. pc'[g] = "start" /\ \A h \in Goals \ {g} : pc'[h] = pc[h]
    BY <1>4 DEF TypeInv, ThreadOK
  <2>5. Ids' /\ Owned'
    BY <1>1 DEF RouteInv, Ids, Owned
  <2>6. Judged'
    BY <1>1, <2>3, <2>4 DEF RouteInv, Judged, MayDrive
  <2>7. \A h \in Goals : Ended(h)' <=> Ended(h)
    BY <1>1 DEF Ended, EndsCommand
  <2>8. Waypoint(g)'
    BY <1>1, <1>2, <2>2, <2>3, <2>4 DEF RouteInv, Waypoints, Waypoint
  <2>9. ASSUME NEW h \in Goals, h # g PROVE Waypoint(h)'
    BY <1>1, <1>2, <2>4, <2>7, <2>9 DEF RouteInv, Waypoints, Waypoint
  <2> QED BY <2>5, <2>6, <2>8, <2>9 DEF RouteInv, Waypoints
<1> QED BY <1>3, <1>4 DEF HandleGoal, HandleAccepted, Goto

\* The end of a waypoint and of a goal counts what was reached.
LEMMA CompletionRoute ==
    ASSUME TypeInv, TypeInv', Progress, RouteInv, NEW g \in Goals, Completion(g)
    PROVE  RouteInv'
<1>1. UNCHANGED <<nextId, recent, latch, motionStatus, reached>>
  BY DEF Completion, WaypointResult, FinalizeRead, FinalizeCommit, ReleaseHandle,
         dispatch, reports
<1>2. bb[g] \in Blackboards
  BY DEF TypeInv, ThreadOK
<1>3. /\ \A h \in Goals \ {g} : /\ pc'[h] = pc[h] /\ bb'[h] = bb[h]
                                /\ status'[h] = status[h] /\ completed'[h] = completed[h]
      /\ bb'[g].active \in {0, bb[g].active}
      /\ pc[g] \in {"result", "finalize", "commit", "release"}
  BY <1>2 DEF Completion, WaypointResult, FinalizeRead, FinalizeCommit, ReleaseHandle,
              At, Goto, TypeInv, WorldOK, ThreadOK, shared, FreshBlackboard, Blackboards
<1>4. pc'[g] \in {"start", "finalize", "commit", "release", "done"}
  BY DEF Completion, WaypointResult, FinalizeRead, FinalizeCommit, ReleaseHandle,
         Goto, TypeInv, ThreadOK
<1>5. pc'[g] \notin InTicks /\ Undecided \subseteq InTicks
  BY <1>4 DEF Undecided, InTicks, OutsideTicks
<1>6. ASSUME NEW h \in Goals PROVE bb'[h].active \in {0, bb[h].active}
  BY <1>3
<1>7. Ids'
  BY <1>1, <1>6, RouteTypes DEF RouteInv, Ids
<1>8. Owned'
  BY <1>1, <1>6 DEF RouteInv, Owned, Ids
<1>9. Judged'
  BY <1>3, <1>5 DEF RouteInv, Judged, MayDrive
<1>10. ASSUME NEW h \in Goals, h # g PROVE Waypoint(h)'
  <2>1. Ended(h)' <=> Ended(h)
    BY <1>1, <1>3, <1>10 DEF Ended, EndsCommand
  <2> QED BY <1>1, <1>3, <1>10, <2>1 DEF RouteInv, Waypoints, Waypoint
<1>11. Waypoint(g)'
  <2>a. /\ completed[g] \in Nat /\ reached[g] \in Nat /\ PoseCount[g] \in Nat
        /\ completed[g] <= reached[g] /\ reached[g] <= PoseCount[g]
    BY RouteTypes DEF RouteInv, Waypoints, Waypoint
  <2>1. CASE WaypointResult(g)
    <3>1. pc[g] = "result" /\ UNCHANGED <<status, bb>>
      BY <2>1 DEF WaypointResult, At, shared
    <3>2. status[g] # "succeeded"
      BY <3>1 DEF Progress, Busy, Steps
    <3>3. CASE bb[g].outcome = "succeeded"
      <4>1. /\ completed'[g] = completed[g] + 1
            /\ pc'[g] = IF completed[g] + 1 < PoseCount[g] THEN "start" ELSE "finalize"
        BY <2>1, <3>3 DEF WaypointResult, Goto, TypeInv, WorldOK, ThreadOK
      <4>2. completed[g] < reached[g]
        BY <3>1, <3>3 DEF RouteInv, Waypoints, Waypoint
      <4> QED BY <1>1, <1>5, <2>a, <3>1, <3>2, <4>1, <4>2 DEF Waypoint
    <3>4. CASE bb[g].outcome # "succeeded"
      <4>1. pc'[g] = "finalize" /\ completed' = completed
        BY <2>1, <3>4 DEF WaypointResult, Goto, TypeInv, ThreadOK
      <4> QED BY <1>1, <1>5, <2>a, <3>1, <3>2, <3>4, <4>1 DEF Waypoint
    <3> QED BY <3>3, <3>4
  <2>2. CASE FinalizeRead(g)
    <3>1. /\ pc[g] = "finalize" /\ pc'[g] = "commit" /\ UNCHANGED <<status, completed>>
          /\ bb'[g].outcome = bb[g].outcome
      BY <1>2, <2>2 DEF FinalizeRead, At, Goto, TypeInv, ThreadOK, Blackboards
    <3> QED BY <1>1, <1>5, <2>a, <3>1 DEF RouteInv, Waypoints, Waypoint
  <2>3. CASE FinalizeCommit(g)
    <3>1. /\ pc[g] = "commit" /\ pc'[g] = "release" /\ UNCHANGED <<bb, completed>>
          /\ status'[g] \in {status[g], FinalStatus(g)}
      BY <2>3 DEF FinalizeCommit, At, Goto, TypeInv, WorldOK, ThreadOK
    <3>2. FinalStatus(g) = "succeeded" => bb[g].outcome = "succeeded"
      BY DEF FinalStatus
    <3> QED BY <1>1, <1>5, <2>a, <3>1, <3>2 DEF RouteInv, Waypoints, Waypoint
  <2>4. CASE ReleaseHandle(g)
    <3>1. pc'[g] = "done" /\ UNCHANGED <<status, completed>>
      BY <2>4 DEF ReleaseHandle, Goto, TypeInv, ThreadOK
    <3> QED BY <1>1, <1>5, <2>a, <3>1 DEF RouteInv, Waypoints, Waypoint
  <2> QED BY <2>1, <2>2, <2>3, <2>4 DEF Completion
<1> QED BY <1>7, <1>8, <1>9, <1>10, <1>11 DEF RouteInv, Waypoints

\* Every step keeps the invariant, cleanup and shutdown included.
LEMMA RouteNext ==
    TypeInv /\ TypeInv' /\ Progress /\ RouteInv /\ [Next]_vars => RouteInv'
<1> SUFFICES ASSUME TypeInv, TypeInv', Progress, RouteInv, [Next]_vars PROVE RouteInv'
  OBVIOUS
<1>1. ASSUME UNCHANGED <<nextId, recent, latch, completed, reached, pc, bb, status>>,
             motionStatus' \in {motionStatus, NoReport}
      PROVE  RouteInv'
  BY <1>1, SameRoute
<1>2. CASE UNCHANGED vars
  BY <1>1, <1>2 DEF vars, dispatch, reports
<1>3. CASE Callback \/ Lifecycle
  <2>1. CASE HandleMotionStatus
    BY <2>1, StatusRoute
  <2>2. CASE HandleIdleStatus \/ HandleLocalPlanStatus
    BY <1>1, <2>2 DEF HandleIdleStatus, HandleLocalPlanStatus, dispatch
  <2>3. CASE Lifecycle
    BY <1>1, <2>3 DEF Lifecycle, OnConfigure, OnActivate, OnDeactivate, OnCleanup,
                      OnShutdown, ReleaseResources, dispatch, reports
  <2> QED BY <1>3, <2>1, <2>2, <2>3 DEF Callback
<1>4. ASSUME NEW g \in Goals, ClientRequest(g) PROVE RouteInv'
  <2>1. CASE RefuseMalformedGoal(g) \/ HandleCancel(g)
    <3>1. UNCHANGED <<nextId, recent, latch, motionStatus, completed, reached, pc, bb>>
      BY <2>1 DEF RefuseMalformedGoal, HandleCancel, dispatch, reports
    <3>2. \A h \in Goals : status'[h] = "succeeded" => status[h] = "succeeded"
      BY <2>1 DEF RefuseMalformedGoal, HandleCancel, TypeInv, WorldOK
    <3> QED BY <3>1, <3>2, SameRoute
  <2> QED BY <1>4, <2>1, AcceptRoute DEF ClientRequest
<1>5. ASSUME NEW g \in Goals, GoalThread(g) PROVE RouteInv'
  <2>1. CASE CallNullClient(g)
    BY <1>1, <2>1 DEF CallNullClient, dispatch, reports
  <2>2. Judged
    BY DEF RouteInv
  <2> QED BY <1>5, <2>1, <2>2, RoutePlanning, RouteMonitor, RouteRecovery, RouteThrow,
             RouteStepInv, CompletionRoute DEF GoalThread
<1>6. ASSUME NEW g \in Goals, Delay(g) PROVE RouteInv'
  <2>1. UNCHANGED <<nextId, recent, latch, motionStatus, completed, reached, pc, status>>
    BY <1>6 DEF Delay, SettleElapses, DebounceElapses, ReacquireWindowElapses,
                dispatch, reports
  <2>2. ASSUME NEW h \in Goals
        PROVE  /\ bb'[h].active = bb[h].active /\ bb'[h].outcome = bb[h].outcome
               /\ bb'[h].attempts = bb[h].attempts
    BY <1>6 DEF Delay, SettleElapses, DebounceElapses, ReacquireWindowElapses,
                TypeInv, ThreadOK, Blackboards
  <2> QED BY <2>1, <2>2, SameRoute
<1> QED BY <1>2, <1>3, <1>4, <1>5, <1>6 DEF Next, Environment

-----------------------------------------------------------------------------
(* What follows                                                            *)

\* The invariant holds whatever the lifecycle does to the goal threads.
LEMMA RouteInvariance == Spec => [](TypeInv /\ Progress /\ RouteInv)
  BY TypeInit, TypeStep, ProgressInit, ProgressStep, RouteInit, RouteNext, PTL DEF Spec

\* A waypoint is counted, and a goal succeeds, only when the controller has
\* reported the end of the navigate command of each of its waypoints, whatever
\* statuses are late, whichever goals follow each other, and also when the
\* node is deactivated, cleaned up or shut down under the thread.
THEOREM SuccessEarned == Spec => []SuccessIsEarned
<1>1. TypeInv /\ Progress /\ RouteInv => SuccessIsEarned
  <2> SUFFICES ASSUME TypeInv, RouteInv, NEW g \in Goals
               PROVE  /\ completed[g] <= reached[g]
                      /\ status[g] = "succeeded" => reached[g] = PoseCount[g]
    BY DEF SuccessIsEarned
  <2>1. /\ completed[g] <= reached[g] /\ reached[g] <= PoseCount[g]
        /\ status[g] = "succeeded" => completed[g] = PoseCount[g]
    BY DEF RouteInv, Waypoints, Waypoint
  <2> QED BY <2>1, RouteTypes
<1> QED BY <1>1, RouteInvariance, PTL

\* A step that changes the topic is one inside a waypoint.
LEMMA OnlyRouteSends ==
    ASSUME TypeInv, Judged, Next, recent' # recent
    PROVE  \E g \in Goals : RouteStep(g)
<1>1. CASE Environment
  BY <1>1 DEF Environment, Callback, HandleMotionStatus, HandleIdleStatus,
     HandleLocalPlanStatus, Lifecycle, OnConfigure, OnActivate, OnDeactivate,
     OnCleanup, OnShutdown, ReleaseResources, ClientRequest, HandleGoal,
     RefuseMalformedGoal, HandleCancel, dispatch
<1>2. ASSUME NEW g \in Goals, Delay(g) PROVE FALSE
  BY <1>2 DEF Delay, SettleElapses, DebounceElapses, ReacquireWindowElapses, dispatch
<1>3. ASSUME NEW g \in Goals, Completion(g) \/ CallNullClient(g) PROVE FALSE
  BY <1>3 DEF Completion, WaypointResult, FinalizeRead, FinalizeCommit, ReleaseHandle,
     CallNullClient, dispatch
<1> QED BY <1>1, <1>2, <1>3, RoutePlanning, RouteMonitor, RouteRecovery, RouteThrow
        DEF Next, GoalThread

\* A command that joins the topic carries the goal and the mode it was built for.
LEMMA HeadOfTopic ==
    ASSUME NEW g \in Goals, NEW mode \in Modes, Joins(Command(nextId, mode, g))
    PROVE  recent'[1].mode = mode /\ recent'[1].goal = g
  BY DEF Joins, Command

\* A navigate command leaves a thread only while its outcome is open and an
\* attempt is left, for any limit of at least one attempt.
THEOREM ConcludedThreadNeverDrives ==
    ASSUME MaxRetries # 0
    PROVE  Spec => NoDriveAfterConclusion
<1> DEFINE Drive == \A g \in Goals :
                      /\ recent' # recent
                      /\ recent'[1].mode = "navigate"
                      /\ recent'[1].goal = g
                      => /\ bb[g].outcome = "running"
                         /\ bb'[g].attempts < MaxRetries
<1>1. ASSUME TypeInv, RouteInv, [Next]_vars PROVE [Drive]_vars
  <2> SUFFICES ASSUME Next, NEW g \in Goals, recent' # recent,
                      recent'[1].mode = "navigate", recent'[1].goal = g
               PROVE  bb[g].outcome = "running" /\ bb'[g].attempts < MaxRetries
    BY <1>1
  <2>1. PICK h \in Goals : RouteStep(h)
    BY <1>1, OnlyRouteSends DEF RouteInv
  <2>2. ASSUME NEW mode \in Modes, Dispatched(h, mode) PROVE mode = "navigate" /\ g = h
    BY <2>2, HeadOfTopic DEF Dispatched
  <2>3. g = h /\ pc'[g] = "cancel" /\ bb[g].outcome = "running"
    BY <2>1, <2>2 DEF RouteStep, Silent, Modes
  <2>4. "cancel" \in Undecided
    BY DEF Undecided, InTicks, OutsideTicks, Steps
  <2>5. MayDrive(bb'[g])
    BY <2>1, <2>3, <2>4 DEF RouteStep
  <2> QED BY <2>3, <2>5 DEF MayDrive
<1> HIDE DEF Drive
<1>2. Spec => [][Drive]_vars
  BY <1>1, RouteInvariance, PTL DEF Spec
<1> QED BY <1>2 DEF Drive, NoDriveAfterConclusion

-----------------------------------------------------------------------------
(* The robot of a finished goal is stopped                                 *)

\* The steps at which a thread's own navigate command may be the last one.
Driving == {"cancel", "goal", "stop", "recovery", "cycle"}

\* The last command on the topic drives the robot for g.
Drives(g) == recent # <<>> /\ Last.mode = "navigate" /\ Last.goal = g

\* Threads run while the node is active, and only a monitored command drives.
StopInv ==
    /\ \A g \in Goals : Live(g) => lifecycle = "active"
    /\ \A g \in Goals : Drives(g) => pc[g] \in Driving

\* A step of a thread that does not throw stops the robot before it leaves the
\* monitor.
LEMMA StopBeforeLeaving ==
    ASSUME TypeInv, NEW g \in Goals, Publishing, pc[g] \in Driving,
           Monitor(g) \/ RecoveryCycle(g), Drives(g)'
    PROVE  pc'[g] \in Driving
<1>1. ASSUME PublishStop(g) PROVE ~Drives(g)'
  <2>1. "stop" \in Modes /\ Command(nextId, "stop", g) \in Commands
    BY DEF Modes, TypeInv, DispatchOK, Command, Commands
  <2>2. Joins(Command(nextId, "stop", g))
    BY <1>1, <2>1, SendJoins DEF PublishStop, SendNew, TypeInv
  <2> QED BY <2>1, <2>2, HeadOfTopic DEF Drives, Last
<1>2. pc \in [Goals -> Steps]
  BY DEF TypeInv, ThreadOK
<1>3. CASE CheckCancelRequested(g)
  BY <1>2, <1>3 DEF CheckCancelRequested, Goto, Driving
<1>4. CASE CheckGoalReached(g)
  BY <1>2, <1>4 DEF CheckGoalReached, Goto, Driving
<1>5. CASE StopAndMark(g)
  BY <1>1, <1>5 DEF StopAndMark
<1>6. CASE CheckRecoveryNeeded(g)
  BY <1>2, <1>6 DEF CheckRecoveryNeeded, Goto, Driving
<1>7. CASE StartCycle(g)
  BY <1>1, <1>2, <1>7 DEF StartCycle, FinishCanceled, Goto, Driving
<1>8. CASE pc[g] # "cycle" /\ RecoveryCycle(g)
  BY <1>8 DEF RecoveryCycle, StartCycle, WaitForRecoveryServices,
     ClearLocalCostmap, RequestLocalEscape, ReplanForPlanner, RequestRecoveryCommand,
     AwaitRecoveryCommand, CountAttempt, ReplanAfterRecovery, At, Driving
<1>9. CASE pc[g] = "cycle" /\ RecoveryCycle(g)
  BY <1>7, <1>9 DEF RecoveryCycle, WaitForRecoveryServices,
     ClearLocalCostmap, RequestLocalEscape, ReplanForPlanner, RequestRecoveryCommand,
     AwaitRecoveryCommand, CountAttempt, ReplanAfterRecovery, At
<1> QED BY <1>3, <1>4, <1>5, <1>6, <1>8, <1>9 DEF Monitor

\* Nor does any other step inside a waypoint leave a driving command behind.
LEMMA RouteStops ==
    ASSUME TypeInv, Judged, StopInv, NEW g \in Goals, RouteStep(g),
           Planning(g) \/ Monitor(g) \/ RecoveryCycle(g)
    PROVE  StopInv'
<1>1. pc[g] \in InTicks \cup {"start"} /\ pc'[g] \in InTicks \cup {"result"}
  BY DEF RouteStep
<1>2. Live(g) /\ lifecycle = "active" /\ lifecycle' = lifecycle
  BY <1>1 DEF Live, InTicks, OutsideTicks, StopInv, RouteStep
<1>3. \A h \in Goals : Live(h)' => lifecycle' = "active"
  BY <1>2
<1>4. ASSUME NEW mode \in Modes, Joins(Command(nextId, mode, g)), NEW h \in Goals, Drives(h)'
      PROVE  h = g /\ mode = "navigate"
  BY <1>4, HeadOfTopic DEF Drives, Last
<1>5. recent' = recent \/ \E mode \in Modes : Joins(Command(nextId, mode, g))
  BY DEF RouteStep, Silent, Dispatched, Modes
<1>6. ASSUME NEW h \in Goals, Drives(h)', h # g PROVE pc'[h] \in Driving
  <2>1. recent' = recent
    BY <1>4, <1>5, <1>6
  <2> QED BY <1>6, <2>1 DEF RouteStep, StopInv, Drives, Last
<1>7. ASSUME Drives(g)' PROVE pc'[g] \in Driving
  <2>1. CASE pc[g] \in Driving
    <3>1. ~Planning(g)
      BY <2>1 DEF Planning, StartPose, CheckReady, WaitForPlannerService,
         RequestGlobalPlan, PublishMotionCommand, At, Driving
    <3> QED BY <1>2, <1>7, <2>1, <3>1, StopBeforeLeaving DEF Publishing
  <2>2. CASE pc[g] \notin Driving
    <3>1. recent' # recent
      BY <1>7, <2>2 DEF StopInv, Drives, Last
    <3>2. ASSUME NEW mode \in Modes, Dispatched(g, mode) PROVE mode = "navigate"
      BY <1>4, <1>7, <3>1, <3>2 DEF Dispatched
    <3>3. pc'[g] = "cancel"
      BY <3>1, <3>2 DEF RouteStep, Silent, Modes
    <3> QED BY <3>3 DEF Driving
  <2> QED BY <2>1, <2>2
<1> QED BY <1>3, <1>6, <1>7 DEF StopInv

\* No exception is thrown, and the node stays active once it is.
NoFaults == AllowCleanup = FALSE /\ AllowExceptions = FALSE /\ MaxDeactivations = 0

\* Then every step keeps StopInv.
LEMMA StopStep ==
    ASSUME NoFaults
    PROVE  TypeInv /\ Progress /\ RouteInv /\ StopInv /\ [Next]_vars => StopInv'
<1> SUFFICES ASSUME TypeInv, Progress, RouteInv, StopInv, [Next]_vars PROVE StopInv'
  OBVIOUS
<1>1. ASSUME UNCHANGED <<lifecycle, recent, pc>> PROVE StopInv'
  BY <1>1 DEF StopInv, Live, Drives, Last
<1>2. CASE UNCHANGED vars
  BY <1>1, <1>2 DEF vars, shared, dispatch
<1>3. CASE Callback
  BY <1>1, <1>3 DEF Callback, HandleMotionStatus, HandleIdleStatus,
     HandleLocalPlanStatus, shared, dispatch
<1>4. CASE Lifecycle
  <2>1. ~OnDeactivate /\ ~OnCleanup /\ ~OnShutdown
    BY DEF NoFaults, OnDeactivate, OnCleanup, OnShutdown, ReleaseResources,
           TypeInv, WorldOK
  <2>2. lifecycle # "active" /\ UNCHANGED <<recent, pc>>
    BY <1>4, <2>1 DEF Lifecycle, OnConfigure, OnActivate, dispatch
  <2>3. \A g \in Goals : ~Live(g)
    BY <2>2 DEF StopInv
  <2> QED BY <2>2, <2>3 DEF StopInv, Live, Drives, Last
<1>5. ASSUME NEW g \in Goals, ClientRequest(g) PROVE StopInv'
  <2>1. UNCHANGED <<lifecycle, recent>>
    BY <1>5 DEF ClientRequest, HandleGoal, RefuseMalformedGoal, HandleCancel,
                shared, dispatch
  <2>2. CASE UNCHANGED pc
    BY <1>1, <2>1, <2>2
  <2>3. CASE ~UNCHANGED pc
    <3>1. /\ HandleGoal(g) /\ lifecycle = "active" /\ pc' = [pc EXCEPT ![g] = "start"]
      BY <1>5, <2>3 DEF ClientRequest, HandleGoal, HandleAccepted, RefuseMalformedGoal,
                        HandleCancel, Goto
    <3>2. pc[g] = "none" /\ "none" \notin Driving
      BY <3>1 DEF HandleGoal, Progress, Driving
    <3>3. \A h \in Goals : Drives(h)' => Drives(h)
      BY <2>1 DEF Drives, Last
    <3>4. \A h \in Goals \ {g} : pc'[h] = pc[h]
      BY <3>1 DEF TypeInv, ThreadOK
    <3> QED BY <2>1, <3>1, <3>2, <3>3, <3>4 DEF StopInv
  <2> QED BY <2>2, <2>3
<1>6. ASSUME NEW g \in Goals, GoalThread(g) PROVE StopInv'
  <2>1. ~TickThrows(g)
    BY DEF NoFaults, TickThrows
  <2>2. ~CallNullClient(g)
    BY DEF CallNullClient, ClientCalls, StopInv, Live
  <2>3. CASE Completion(g)
    <3>1. /\ UNCHANGED <<lifecycle, recent>>
          /\ pc[g] \in {"result", "finalize", "commit", "release"}
          /\ \A h \in Goals \ {g} : pc'[h] = pc[h]
      BY <2>3 DEF Completion, WaypointResult, FinalizeRead, FinalizeCommit,
                  ReleaseHandle, At, Goto, TypeInv, ThreadOK, shared, dispatch
    <3>2. lifecycle = "active" /\ ~Drives(g)
      BY <3>1 DEF StopInv, Live, Driving
    <3>3. \A h \in Goals : Drives(h)' => Drives(h)
      BY <3>1 DEF Drives, Last
    <3> QED BY <3>1, <3>2, <3>3 DEF StopInv
  <2>4. CASE Planning(g) \/ Monitor(g) \/ RecoveryCycle(g)
    BY <2>4, RoutePlanning, RouteMonitor, RouteRecovery, RouteStops DEF RouteInv
  <2> QED BY <1>6, <2>1, <2>2, <2>3, <2>4 DEF GoalThread
<1>7. ASSUME NEW g \in Goals, Delay(g) PROVE StopInv'
  BY <1>1, <1>7 DEF Delay, SettleElapses, DebounceElapses, ReacquireWindowElapses,
                    shared, dispatch
<1> QED BY <1>2, <1>3, <1>4, <1>5, <1>6, <1>7 DEF Next, Environment

\* When a client holds a result, the robot has been told to stop since the last
\* navigate command of that goal, however the thread came to its result, if no
\* tick throws and the node stays active.
THEOREM FinishedGoalIsStopped ==
    ASSUME NoFaults
    PROVE  Spec => []TerminalGoalIsStopped
<1>1. Init => StopInv
  BY DEF Init, StopInv, Live, Drives
<1>2. TypeInv /\ Progress /\ RouteInv /\ StopInv => TerminalGoalIsStopped
  <2> SUFFICES ASSUME TypeInv, Progress, StopInv, NEW g \in Goals,
                      status[g] \in Terminal, Drives(g)
               PROVE  FALSE
    BY DEF TerminalGoalIsStopped, Drives
  <2>1. pc[g] \in Driving
    BY DEF StopInv
  <2>2. pc[g] \in Busy
    BY <2>1 DEF Driving, Busy, Steps
  <2> QED BY <2>2 DEF Progress, Terminal
<1> QED BY <1>1, <1>2, StopStep, RouteInvariance, PTL DEF Spec

-----------------------------------------------------------------------------
(* The end of a canceled goal                                              *)

\* The steps that the thread of a canceled goal still takes at most until its
\* verdict is out.  A waypoint that was reached just before takes it back to
\* the head of the loop once, and no other way leads back.
StepsLeft(g) ==
    CASE pc[g] = "commit" -> 1
      [] pc[g] = "finalize" -> 2
      [] pc[g] = "result" /\ bb[g].outcome # "succeeded" -> 3
      [] pc[g] = "start" /\ KindOf[g] = "poses" -> 4
      [] pc[g] = "result" /\ bb[g].outcome = "succeeded" -> 5
      [] pc[g] = "stop" -> 6
      [] pc[g] \in {"cancel", "cycle"} -> 7
      [] pc[g] \in {"recovery", "dispatch", "escape", "replan", "await", "freshplan"} -> 8
      [] pc[g] \in {"goal", "plan", "behavior", "tail"} -> 9
      [] pc[g] \in {"planner", "clear"} -> 10
      [] pc[g] \in {"ready", "services"} -> 11
      [] pc[g] = "start" /\ KindOf[g] = "pose" -> 12
      [] OTHER -> 0

\* The thread has left its monitor loop for good.
Leaves(g) == pc'[g] = "result" /\ bb'[g].outcome # "succeeded"

\* A thread inside the two ticks that concludes, or moves on within them.
LEMMA LeavesTicks ==
    ASSUME NEW g \in Goals, pc[g] \in InTicks, Leaves(g)
    PROVE  StepsLeft(g)' \in 1 .. StepsLeft(g) - 1
<1>1. StepsLeft(g)' = 3
  BY DEF Leaves, StepsLeft
<1>2. StepsLeft(g) \in 6 .. 11
  BY DEF InTicks, OutsideTicks, Steps, StepsLeft
<1> QED BY <1>1, <1>2

LEMMA GotoGoes ==
    ASSUME TypeInv, NEW g \in Goals, NEW step, Goto(g, step)
    PROVE  pc'[g] = step
  BY DEF TypeInv, ThreadOK, Goto

LEMMA ConcludeLeaves ==
    ASSUME TypeInv, NEW g \in Goals, NEW board \in Blackboards,
           NEW outcome \in {"canceled", "aborted"}, Conclude(g, board, outcome)
    PROVE  Leaves(g)
<1>1. bb'[g].outcome = outcome
  BY DEF TypeInv, ThreadOK, Conclude, Blackboards
<1>2. pc'[g] = "result"
  BY GotoGoes DEF Conclude
<1> QED BY <1>1, <1>2 DEF Leaves

LEMMA FinishCanceledLeaves ==
    ASSUME TypeInv, NEW g \in Goals, FinishCanceled(g)
    PROVE  Leaves(g)
<1>1. [bb[g] EXCEPT !.since = "zero", !.window = "off"] \in Blackboards
  BY DEF TypeInv, ThreadOK, Blackboards
<1> QED BY <1>1, ConcludeLeaves DEF FinishCanceled

\* No call of a recovery cycle that fails keeps a canceled goal in its cycle.
LEMMA CallFailsLeaves ==
    ASSUME TypeInv, NEW g \in Goals, NEW step, Canceling(g), CallFails(g, step)
    PROVE  Leaves(g)
  BY FinishCanceledLeaves DEF CallFails

LEMMA RedispatchGoes ==
    ASSUME TypeInv, NEW g \in Goals, NEW board, Redispatch(g, board)
    PROVE  pc'[g] = "cancel"
  BY GotoGoes DEF Redispatch

LEMMA StopAndAbortLeaves ==
    ASSUME TypeInv, NEW g \in Goals, NEW n \in Nat, StopAndAbort(g, n)
    PROVE  Leaves(g)
<1>1. [bb[g] EXCEPT !.attempts = n] \in Blackboards
  BY DEF TypeInv, ThreadOK, Blackboards
<1> QED BY <1>1, ConcludeLeaves DEF StopAndAbort

LEMMA SpendAttemptGoes ==
    ASSUME TypeInv, NEW g \in Goals, SpendAttempt(g)
    PROVE  Leaves(g) \/ pc'[g] = "cancel"
<1>1. bb[g].attempts + 1 \in Nat
  BY DEF TypeInv, ThreadOK, Blackboards
<1> QED BY <1>1, StopAndAbortLeaves, RedispatchGoes DEF SpendAttempt

LEMMA CanceledPlanning ==
    ASSUME TypeInv, NEW g \in Goals, Canceling(g), Planning(g)
    PROVE  StepsLeft(g)' \in 1 .. StepsLeft(g) - 1
<1>1. KindOf[g] \in {"pose", "poses"}
  BY GoalsAssumption DEF Kinds
<1>2. PlanFails(g) => Leaves(g)
  <2>1. bb[g] \in Blackboards
    BY DEF TypeInv, ThreadOK
  <2> QED BY <2>1, ConcludeLeaves DEF PlanFails
<1>3. \/ pc[g] = "start" /\ KindOf[g] = "poses" /\ Leaves(g)
      \/ pc[g] = "start" /\ KindOf[g] = "pose" /\ pc'[g] = "ready"
      \/ pc[g] \in InTicks /\ Leaves(g)
      \/ pc[g] = "ready" /\ pc'[g] = "planner"
      \/ pc[g] = "planner" /\ pc'[g] = "plan"
      \/ pc[g] = "plan" /\ pc'[g] = "dispatch"
      \/ pc[g] = "dispatch" /\ pc'[g] = "cancel"
  <2>1. CASE StartPose(g)
    BY <1>1, <2>1, FreshBoardType, ConcludeLeaves, GotoGoes DEF StartPose, At
  <2>2. CASE CheckReady(g) \/ WaitForPlannerService(g) \/ RequestGlobalPlan(g)
    <3>1. pc[g] \in InTicks
      BY <2>2 DEF CheckReady, WaitForPlannerService, RequestGlobalPlan, At, InTicks,
                  OutsideTicks, Steps
    <3> QED BY <1>2, <2>2, <3>1, GotoGoes
            DEF CheckReady, WaitForPlannerService, RequestGlobalPlan, At
  <2>3. CASE PublishMotionCommand(g)
    BY <2>3, GotoGoes DEF PublishMotionCommand, At
  <2> QED BY <2>1, <2>2, <2>3 DEF Planning
<1>4. CASE pc[g] \in InTicks /\ Leaves(g)
  BY <1>4, LeavesTicks
<1>5. CASE pc[g] = "start" /\ KindOf[g] = "poses" /\ Leaves(g)
  BY <1>5 DEF Leaves, StepsLeft
<1> QED BY <1>3, <1>4, <1>5 DEF StepsLeft

LEMMA CanceledMonitor ==
    ASSUME TypeInv, NEW g \in Goals, Canceling(g), Monitor(g)
    PROVE  StepsLeft(g)' \in 1 .. StepsLeft(g) - 1
<1>1. \/ pc[g] = "cancel" /\ pc'[g] = "stop"
      \/ pc[g] = "goal" /\ pc'[g] \in {"stop", "recovery"}
      \/ pc[g] = "stop" /\ pc'[g] = "result"
      \/ pc[g] = "recovery" /\ pc'[g] \in {"cancel", "cycle"}
  <2>1. CASE CheckCancelRequested(g)
    BY <2>1, GotoGoes DEF CheckCancelRequested, At
  <2>2. CASE CheckGoalReached(g)
    BY <2>2, GotoGoes DEF CheckGoalReached, At
  <2>3. CASE StopAndMark(g)
    BY <2>3, GotoGoes DEF StopAndMark, At
  <2>4. CASE CheckRecoveryNeeded(g)
    BY <2>4, GotoGoes DEF CheckRecoveryNeeded, At
  <2> QED BY <2>1, <2>2, <2>3, <2>4 DEF Monitor
<1> QED BY <1>1 DEF StepsLeft

LEMMA CanceledRecovery ==
    ASSUME TypeInv, NEW g \in Goals, Canceling(g), RecoveryCycle(g)
    PROVE  StepsLeft(g)' \in 1 .. StepsLeft(g) - 1
<1>1. pc[g] \in InTicks
  BY DEF RecoveryCycle, StartCycle, WaitForRecoveryServices, ClearLocalCostmap,
         RequestLocalEscape, ReplanForPlanner, RequestRecoveryCommand,
         AwaitRecoveryCommand, CountAttempt, ReplanAfterRecovery, At, InTicks,
         OutsideTicks, Steps
<1>2. \/ Leaves(g)
      \/ pc[g] = "services" /\ pc'[g] = "clear"
      \/ pc[g] = "clear" /\ pc'[g] \in {"escape", "replan", "behavior"}
      \/ pc[g] \in {"escape", "replan", "freshplan"} /\ pc'[g] = "cancel"
      \/ pc[g] = "behavior" /\ pc'[g] = "await"
      \/ pc[g] = "tail" /\ pc'[g] = "freshplan"
  <2>1. CASE StartCycle(g)
    BY <2>1, FinishCanceledLeaves DEF StartCycle
  <2>2. CASE WaitForRecoveryServices(g)
    BY <2>2, FinishCanceledLeaves, GotoGoes DEF WaitForRecoveryServices, At
  <2>3. CASE ClearLocalCostmap(g)
    BY <2>3, CallFailsLeaves, GotoGoes DEF ClearLocalCostmap, AfterEscape, At
  <2>4. CASE RequestLocalEscape(g)
    BY <2>4, CallFailsLeaves, RedispatchGoes DEF RequestLocalEscape, At
  <2>5. CASE ReplanForPlanner(g)
    BY <2>5, CallFailsLeaves, SpendAttemptGoes DEF ReplanForPlanner, At
  <2>6. CASE RequestRecoveryCommand(g)
    BY <2>6, CallFailsLeaves, GotoGoes DEF RequestRecoveryCommand, At
  <2>7. CASE AwaitRecoveryCommand(g)
    BY <2>7, CallFailsLeaves DEF AwaitRecoveryCommand
  <2>8. CASE CountAttempt(g)
    <3>1. bb[g].attempts + 1 \in Nat
      BY DEF TypeInv, ThreadOK, Blackboards
    <3> QED BY <2>8, <3>1, StopAndAbortLeaves, GotoGoes DEF CountAttempt, At
  <2>9. CASE ReplanAfterRecovery(g)
    BY <2>9, CallFailsLeaves, RedispatchGoes DEF ReplanAfterRecovery, At
  <2> QED BY <2>1, <2>2, <2>3, <2>4, <2>5, <2>6, <2>7, <2>8, <2>9 DEF RecoveryCycle
<1>3. CASE Leaves(g)
  BY <1>1, <1>3, LeavesTicks
<1> QED BY <1>2, <1>3 DEF StepsLeft

\* The way from a waypoint's end to the verdict.
LEMMA CanceledCompletion ==
    ASSUME TypeInv, Progress, NEW g \in Goals, Canceling(g), Completion(g)
    PROVE  status'[g] \in Terminal \/ StepsLeft(g)' \in 1 .. StepsLeft(g) - 1
<1>1. CASE WaypointResult(g)
  <2>1. pc[g] = "result" /\ bb' = bb
    BY <1>1 DEF WaypointResult, At
  <2>2. pc'[g] = "start" => bb[g].outcome = "succeeded" /\ completed[g] + 1 < PoseCount[g]
    BY <1>1, GotoGoes DEF WaypointResult
  <2>3. pc'[g] = "start" => KindOf[g] = "poses"
    <3>1. completed[g] \in Nat /\ KindOf[g] \in {"pose", "poses"}
      BY GoalsAssumption DEF TypeInv, WorldOK, Kinds
    <3>2. KindOf[g] = "pose" => PoseCount[g] = 1
      BY GoalsAssumption
    <3> QED BY <2>2, <3>1, <3>2
  <2>4. pc'[g] \in {"start", "finalize"}
    BY <1>1, GotoGoes DEF WaypointResult
  <2> QED BY <2>1, <2>2, <2>3, <2>4 DEF StepsLeft
<1>2. CASE FinalizeRead(g)
  <2>1. pc[g] = "finalize" /\ pc'[g] = "commit"
    BY <1>2, GotoGoes DEF FinalizeRead, At
  <2> QED BY <2>1 DEF StepsLeft
<1>3. CASE FinalizeCommit(g)
  <2>1. pc[g] = "commit" /\ status' = [status EXCEPT ![g] = FinalStatus(g)]
    BY <1>3 DEF FinalizeCommit, At, Progress
  <2>2. FinalStatus(g) \in Terminal
    BY <2>1 DEF FinalStatus, Terminal, Blackboards, Outcomes, TypeInv, ThreadOK
  <2> QED BY <2>1, <2>2 DEF TypeInv, WorldOK
<1>4. ~ReleaseHandle(g)
  BY DEF ReleaseHandle, At, Progress, Canceling, Terminal
<1> QED BY <1>1, <1>2, <1>3, <1>4 DEF Completion

LEMMA CanceledThread ==
    ASSUME TypeInv, Progress, NEW g \in Goals, Canceling(g), GoalThread(g)
    PROVE  \/ status'[g] \in Terminal
           \/ lifecycle' = "crashed"
           \/ StepsLeft(g)' \in 1 .. StepsLeft(g) - 1
<1>1. CASE CallNullClient(g)
  BY <1>1 DEF CallNullClient
<1>2. CASE TickThrows(g)
  <2>1. bb[g] \in Blackboards /\ pc[g] \in InTicks
    BY <1>2 DEF TypeInv, ThreadOK, TickThrows, InTicks
  <2> QED BY <1>2, <2>1, ConcludeLeaves, LeavesTicks DEF TickThrows
<1> QED BY <1>1, <1>2, CanceledPlanning, CanceledMonitor, CanceledRecovery,
           CanceledCompletion DEF GoalThread

\* A canceled goal has a thread, which is before its verdict.
LEMMA CanceledHasSteps ==
    ASSUME TypeInv, Progress, NEW g \in Goals, Canceling(g)
    PROVE  StepsLeft(g) \in 1 .. 12
<1>1. pc[g] \in Busy \cup {"commit"}
  BY DEF Progress, Canceling, Terminal, Busy, TypeInv, ThreadOK
<1>2. KindOf[g] \in {"pose", "poses"}
  BY GoalsAssumption DEF Kinds
<1> QED BY <1>1, <1>2 DEF StepsLeft, Busy, Steps

\* What everybody else does leaves the thread where it is, and the goal canceled.
LEMMA CanceledOthers ==
    ASSUME TypeInv, TypeInv', Progress, NEW g \in Goals, Canceling(g), Next, ~GoalThread(g)
    PROVE  Canceling(g)' /\ StepsLeft(g)' = StepsLeft(g)
<1>1. /\ status \in [Goals -> Statuses] /\ bb \in [Goals -> Blackboards]
      /\ pc \in [Goals -> Steps]
  BY DEF TypeInv, WorldOK, ThreadOK
<1>2. ASSUME status'[g] = status[g], pc'[g] = pc[g], bb'[g].outcome = bb[g].outcome
      PROVE  Canceling(g)' /\ StepsLeft(g)' = StepsLeft(g)
  BY <1>2 DEF Canceling, StepsLeft
<1>3. CASE Callback \/ Lifecycle
  BY <1>2, <1>3
  DEF Callback, HandleMotionStatus, HandleIdleStatus, HandleLocalPlanStatus,
      Lifecycle, OnConfigure, OnActivate, OnDeactivate, OnCleanup, OnShutdown,
      ReleaseResources
<1>4. ASSUME NEW h \in Goals, ClientRequest(h)
      PROVE  Canceling(g)' /\ StepsLeft(g)' = StepsLeft(g)
  <2>1. h # g
    BY <1>4 DEF ClientRequest, HandleGoal, RefuseMalformedGoal, HandleCancel, Canceling
  <2>2. bb' = bb /\ status'[g] = status[g] /\ pc'[g] = pc[g]
    BY <1>1, <1>4, <2>1 DEF ClientRequest, HandleGoal, HandleAccepted, RefuseMalformedGoal,
                            HandleCancel, Goto
  <2> QED BY <1>2, <2>2
<1>5. ASSUME NEW h \in Goals, h # g, QuietStep(h)
      PROVE  Canceling(g)' /\ StepsLeft(g)' = StepsLeft(g)
  BY <1>2, <1>5 DEF QuietStep
<1>6. ASSUME NEW h \in Goals, Delay(h)
      PROVE  Canceling(g)' /\ StepsLeft(g)' = StepsLeft(g)
  <2>1. CASE h = g
    <3>1. UNCHANGED <<status, pc>>
      BY <1>6 DEF Delay, SettleElapses, DebounceElapses, ReacquireWindowElapses
    <3>2. bb'[g].outcome = bb[g].outcome
      BY <1>1, <1>6, <2>1 DEF Delay, SettleElapses, DebounceElapses, ReacquireWindowElapses,
                              Blackboards
    <3> QED BY <1>2, <3>1, <3>2
  <2> QED BY <1>5, <1>6, <2>1, QuietOthers
<1>7. ASSUME NEW h \in Goals, h # g, GoalThread(h)
      PROVE  Canceling(g)' /\ StepsLeft(g)' = StepsLeft(g)
  <2>1. CASE CallNullClient(h)
    BY <1>2, <2>1 DEF CallNullClient
  <2>2. CASE FinalizeRead(h) \/ FinalizeCommit(h) \/ ReleaseHandle(h)
    <3>1. bb'[g] = bb[g] /\ status'[g] = status[g] /\ pc'[g] = pc[g]
      BY <1>1, <1>7, <2>2 DEF FinalizeRead, FinalizeCommit, ReleaseHandle, Goto
    <3> QED BY <1>2, <3>1
  <2> QED BY <1>5, <1>7, <2>1, <2>2, QuietPlanning, QuietMonitor, QuietRecovery, QuietOthers
          DEF GoalThread, Completion
<1> QED BY <1>3, <1>4, <1>6, <1>7 DEF Next, Environment

\* Of the end of a canceled goal all but the fairness, and how far off it is.
\* Once a goal is asked to cancel, its thread has at most twelve steps to its
\* verdict, wherever in planning, monitoring or recovery it was; each of them
\* brings the verdict closer, and no report, no other goal, no delay and no
\* lifecycle transition puts it off.
THEOREM CancelIsNear ==
    Spec => [][\A g \in Goals : Canceling(g) =>
                 /\ StepsLeft(g) \in 1 .. 12
                 /\ \/ status'[g] \in Terminal
                    \/ lifecycle' = "crashed"
                    \/ /\ Canceling(g)'
                       /\ StepsLeft(g)' \in 1 .. StepsLeft(g)
                       /\ GoalThread(g) => StepsLeft(g)' # StepsLeft(g)]_vars
<1>1. ASSUME TypeInv, TypeInv', Progress, Progress', Next, NEW g \in Goals, Canceling(g)
      PROVE  /\ StepsLeft(g) \in 1 .. 12
             /\ \/ status'[g] \in Terminal
                \/ lifecycle' = "crashed"
                \/ /\ Canceling(g)'
                   /\ StepsLeft(g)' \in 1 .. StepsLeft(g)
                   /\ GoalThread(g) => StepsLeft(g)' # StepsLeft(g)
  <2>1. StepsLeft(g) \in 1 .. 12
    BY <1>1, CanceledHasSteps
  <2>2. CASE GoalThread(g)
    <3>1. CASE StepsLeft(g)' \in 1 .. StepsLeft(g) - 1 /\ status'[g] \notin Terminal
      <4>1. Canceling(g)'
        <5>1. CASE status' = status
          BY <1>1, <5>1 DEF Canceling
        <5>2. CASE FinalizeCommit(g)
          <6>1. status' = status \/ status'[g] = FinalStatus(g)
            BY <1>1, <5>2 DEF FinalizeCommit, TypeInv, WorldOK
          <6>2. pc[g] = "commit" /\ FinalStatus(g) \in Terminal
            BY <1>1, <5>2 DEF FinalizeCommit, At, FinalStatus, Terminal, Blackboards, Outcomes,
                              TypeInv, ThreadOK
          <6> QED BY <1>1, <3>1, <6>1, <6>2 DEF Canceling
        <5>3. CASE CallNullClient(g) \/ FinalizeRead(g) \/ ReleaseHandle(g)
          BY <5>1, <5>3 DEF CallNullClient, FinalizeRead, ReleaseHandle
        <5>4. QuietStep(g) => status' = status
          BY DEF QuietStep
        <5> QED BY <1>1, <2>2, <5>1, <5>2, <5>3, <5>4, QuietPlanning, QuietMonitor,
                   QuietRecovery, QuietOthers DEF GoalThread, Completion
      <4> QED BY <2>1, <3>1, <4>1
    <3> QED BY <1>1, <2>1, <2>2, <3>1, CanceledThread
  <2>3. CASE ~GoalThread(g)
    BY <1>1, <2>1, <2>3, CanceledOthers
  <2> QED BY <2>2, <2>3
<1>2. TypeInv /\ TypeInv' /\ Progress /\ Progress' /\ [Next]_vars =>
        [\A g \in Goals : Canceling(g) =>
           /\ StepsLeft(g) \in 1 .. 12
           /\ \/ status'[g] \in Terminal
              \/ lifecycle' = "crashed"
              \/ /\ Canceling(g)'
                 /\ StepsLeft(g)' \in 1 .. StepsLeft(g)
                 /\ GoalThread(g) => StepsLeft(g)' # StepsLeft(g)]_vars
  BY <1>1
<1> QED BY <1>2, RouteInvariance, PTL DEF Spec
=============================================================================
