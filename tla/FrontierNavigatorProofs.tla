------------------------ MODULE FrontierNavigatorProofs ------------------------
(***************************************************************************)
(* Theorems about FrontierNavigator, for any goals, iterations and         *)
(* lifecycle transitions.                                                  *)
(*                                                                         *)
(* The invariant follows a goal through its worker.  Service ties the      *)
(* goal's state to the worker, Sending says which iterations have sent a   *)
(* delegate, and on these rest what a result means (Earning), whom nobody  *)
(* asked to cancel (Withdrawal), which delegates the node can still reach  *)
(* (Knowing) and what a transition leaves behind (Stopping, Failing).      *)
(***************************************************************************)
EXTENDS FrontierNavigator, TLAPS

\* The steps in which a delegate of the current iteration exists or not.
BeforeSending == {"start", "map", "iterate", "server"}
Legs == {"server", "sending", "watch", "withdraw", "expand"}

\* The worker's locals hold what its step needs.
Located ==
    /\ At("none") => worker = Idle
    /\ ~At("none") => worker.goal \in Goals
    /\ worker.pc \in Legs =>
         /\ worker.target \in {"staging", "original"}
         /\ worker.target = "staging" => worker.iteration < MaxIterations
    /\ At("expand") => worker.target = "staging"
    /\ At("withdraw") =>
         /\ worker.why \in {"stop", "preempt"}
         /\ worker.why = "preempt" => worker.target = "staging"
    /\ At("verdict") => worker.outcome \in {"stopped", "succeeded", "aborted"}
    /\ worker.pc \in {"finalize", "clear"} => worker.outcome \in Outcomes

TypeInv == TypeOK /\ Located

\* The worker serves the active goal, which is in flight until it is finalized.
Service ==
    /\ active = worker.goal
    /\ \A g \in Goals : status[g] \in {"executing", "canceling"} =>
         worker.goal = g /\ worker.pc \notin {"none", "clear"}
    /\ worker.pc \notin {"none", "clear"} => status[worker.goal] \in {"executing", "canceling"}
    /\ At("clear") => status[worker.goal] = worker.outcome
    /\ At("finalize") /\ worker.outcome = "canceled" => status[worker.goal] = "canceling"

\* Which iterations have sent a delegate.
Sending ==
    /\ \A g \in Goals : status[g] \in {"unknown", "rejected"} =>
         \A i \in 0..MaxIterations : target[<<g, i>>] = "none"
    /\ ~At("none") => \A i \in 0..MaxIterations :
         i > worker.iteration => target[<<worker.goal, i>>] = "none"
    /\ worker.pc \in BeforeSending => target[Current] = "none"
    /\ worker.pc \in {"sending", "watch"} => target[Current] = worker.target
    /\ \A d \in Delegates : target[d] = "none" => delegate[d] = "unknown"

Earned(g) ==
    \E i \in 0..MaxIterations :
        target[<<g, i>>] = "original" /\ delegate[<<g, i>>] = "succeeded"

\* A success that is under way is earned as well.
Earning ==
    /\ \A g \in Goals : status[g] = "succeeded" => Earned(g)
    /\ worker.pc \in Ending /\ worker.outcome = "succeeded" => Earned(worker.goal)

Withdrawn(d) == d \in cancelSent \/ Ended(d) \/ delegate[d] = "rejected"

\* Nothing a goal sent is left uncanceled.
Settled(g) == \A i \in 0..MaxIterations :
    target[<<g, i>>] # "none" => Withdrawn(<<g, i>>)

\* The iterations before are over, and when the worker stops so is the last.
Withdrawal ==
    /\ \A g \in Goals : status[g] = "canceled" => Settled(g)
    /\ ~At("none") => \A i \in 0..MaxIterations :
         i < worker.iteration /\ target[<<worker.goal, i>>] # "none" =>
             Withdrawn(<<worker.goal, i>>)
    /\ worker.pc \in {"withdraw", "expand"} => Withdrawn(Current)
    /\ worker.pc \in Ending /\ worker.outcome \in {"stopped", "canceled"} =>
         Settled(worker.goal)

\* A delegate that may still drive, or come to.
Open(d) == target[d] # "none" /\ delegate[d] \in {"unknown", "executing", "canceling"}

\* Every open delegate is held, being sent, or lost.
Knowing ==
    /\ \A d \in Delegates : Open(d) =>
         d = nested \/ d \in lost \/ (At("sending") /\ d = Current)
    /\ worker.pc \in BeforeSending \cup {"sending", "expand"} => nested = NoDelegate
    /\ worker.pc \in {"watch", "withdraw"} => nested = Current

\* From the begin of a transition the handle is only held uncanceled while
\* the wait for the result has not yet looked at the stop.
Stopping ==
    /\ lifecycle \in Transitioning => stop /\ (~At("watch") => Held \subseteq cancelSent)
    /\ lifecycle \in {"inactive", "unconfigured", "finalized"} =>
         At("none") /\ Held \subseteq cancelSent

\* The steps a worker whose delegate has ended takes once it has to stop.
Leaving == {"none", "watch", "withdraw", "expand", "iterate"} \cup Ending

\* A transition that failed found a delegate that had ended, and the worker it
\* did not join does not send again.
Failing == lifecycle = "failed" => stop /\ HeldEnded /\ worker.pc \in Leaving

Inv ==
    /\ TypeInv
    /\ Service
    /\ Sending
    /\ Earning
    /\ Withdrawal
    /\ Knowing
    /\ Stopping
    /\ Failing

-----------------------------------------------------------------------------
(* Types                                                                   *)

\* The type of the variable worker.
Workers == [pc : {"none"} \cup Running \cup Ending,
            goal : Goals \cup {NoGoal},
            iteration : 0..MaxIterations,
            target : {"none", "staging", "original"},
            why : {"none", "stop", "preempt"},
            outcome : {"none", "stopped"} \cup Outcomes]

\* The steps that are not the worker's.
Environment ==
    \/ \E g \in Goals : HandleGoal(g) \/ RejectGoal(g) \/ HandleCancel(g)
    \/ Lifecycle
    \/ FinishTransition
    \/ Navigate

\* All of TypeOK that is not the worker.
OthersOK ==
    /\ lifecycle \in Lifecycles
    /\ transitions \in 0..MaxTransitions
    /\ status \in [Goals -> Statuses]
    /\ active \in Goals \cup {NoGoal}
    /\ stop \in BOOLEAN
    /\ nested \in Delegates \cup {NoDelegate}
    /\ target \in [Delegates -> {"none", "staging", "original"}]
    /\ delegate \in [Delegates -> Statuses]
    /\ cancelSent \subseteq Delegates
    /\ lost \subseteq Delegates

\* TypeOK in two parts.
LEMMA TypeParts == TypeOK <=> worker \in Workers /\ OthersOK
  BY DEF TypeOK, Workers, OthersOK

\* A worker that does not run has its type.
LEMMA IdleType == Idle \in Workers
<1>1. 0 \in 0..MaxIterations
  BY FrontierAssumption DEF FrontierAssumption
<1> QED BY <1>1 DEF Idle, Workers

\* The same of the next state.
LEMMA NextTypes ==
    ASSUME worker' \in Workers, OthersOK', Located'
    PROVE  TypeInv'
  BY DEF TypeInv, TypeOK, Workers, OthersOK

\* The delegate of the worker's iteration is a delegate.
LEMMA CurrentType ==
    ASSUME TypeInv, ~At("none")
    PROVE  Current \in Delegates
  BY DEF TypeInv, TypeOK, Located, Current, Delegates, At

\* The node's callbacks, the lifecycle and the navigator keep the types.
LEMMA EnvironmentTypes ==
    ASSUME TypeInv, Environment
    PROVE  TypeInv'
<1>0. worker \in Workers /\ OthersOK /\ Located
  BY TypeParts DEF TypeInv
<1>1. ASSUME NEW g \in Goals, HandleGoal(g) PROVE TypeInv'
  <2>1. worker' = [Idle EXCEPT !.pc = "start", !.goal = g]
    BY <1>1 DEF HandleGoal
  <2>2. worker' \in Workers /\ Located'
    BY <1>1, <2>1, IdleType
    DEF Workers, Idle, Running, Ending, Located, At, Legs
  <2>3. OthersOK'
    BY <1>0, <1>1 DEF OthersOK, HandleGoal, Statuses, node
  <2> QED BY <2>2, <2>3, NextTypes
<1>2. ASSUME UNCHANGED worker, OthersOK' PROVE TypeInv'
  <2>1. worker' \in Workers /\ Located'
    BY <1>0, <1>2 DEF Located, At
  <2> QED BY <1>2, <2>1, NextTypes
<1>3. ASSUME NEW g \in Goals, RejectGoal(g) \/ HandleCancel(g) PROVE TypeInv'
  BY <1>0, <1>2, <1>3
  DEF OthersOK, RejectGoal, HandleCancel, Statuses, node, delegation
<1>5. CASE OnConfigure \/ OnActivate
  BY <1>0, <1>2, <1>5
  DEF OthersOK, OnConfigure, OnActivate, Lifecycles, delegation
<1>6. ASSUME NEW from, NEW transition \in Transitioning, StopExecution(from, transition)
      PROVE  TypeInv'
  <2>1. UNCHANGED worker
    BY <1>6 DEF StopExecution
  <2>2. Held \subseteq Delegates
    BY <1>0 DEF OthersOK, Held
  <2>3. OthersOK'
    BY <1>0, <1>6, <2>2, FrontierAssumption
    DEF OthersOK, StopExecution, CancelNestedGoal, Lifecycles, FrontierAssumption
  <2> QED BY <1>2, <2>1, <2>3
<1>7. CASE FinishTransition
  <2>1. UNCHANGED worker
    BY <1>7 DEF FinishTransition, Deactivated, CleanedUp, ShutDown
  <2>2. Held \subseteq Delegates
    BY <1>0 DEF OthersOK, Held
  <2>3. OthersOK'
    BY <1>0, <1>7, <2>2
    DEF OthersOK, FinishTransition, Deactivated, CleanedUp, ShutDown, Lifecycles, delegation
  <2> QED BY <1>2, <2>1, <2>3
<1>9. CASE Navigate
  <2>1. UNCHANGED worker
    BY <1>9 DEF Navigate
  <2>2. delegate' \in [Delegates -> Statuses]
    BY <1>0, <1>9
    DEF OthersOK, Navigate, Statuses, Outcomes, Navigator!Move, Navigator!Reject,
        Navigator!RequestCancel, Navigator!Finish, Navigator!Outcomes
  <2>3. OthersOK'
    BY <1>0, <1>9, <2>2 DEF OthersOK, Navigate, node
  <2> QED BY <1>2, <2>1, <2>3
<1> QED
  BY <1>1, <1>3, <1>5, <1>6, <1>7, <1>9
  DEF Environment, Lifecycle, Transitioning

\* The worker keeps the types, and its locals are there when it needs them.
LEMMA WorkTypes ==
    ASSUME TypeInv, Work \/ Throw
    PROVE  TypeInv'
<1>0. worker \in Workers /\ OthersOK /\ Located
  BY TypeParts DEF TypeInv
<1>1. ~At("none") /\ worker.goal \in Goals /\ Current \in Delegates
  BY CurrentType DEF TypeInv, Located, At, Work, Throw, Start, WaitForMap, Iterate,
                     ResolveStagingGoal, AwaitExpansion, AwaitServer, AwaitAcceptance,
                     TakeResult, BeginWithdraw, EndWithdraw, Verdict, FinalizeResult,
                     ClearActiveGoal
<1>2. worker' \in Workers /\ Located'
  <2> USE DEF Workers, Located, At, Legs, Running, Ending, Go, EndAs, Outcomes
  <2>1. CASE Start \/ WaitForMap
    BY <1>0, <1>1, <2>1 DEF Start, WaitForMap
  <2>2. CASE Iterate
    <3>1. MayStage => worker.iteration < MaxIterations
      <4>1. LimitOf[worker.goal] \in 0..MaxIterations /\ worker.iteration \in 0..MaxIterations
        BY <1>0, <1>1, FrontierAssumption DEF FrontierAssumption
      <4> QED BY <4>1, FrontierAssumption DEF MayStage, FrontierAssumption
    <3> QED BY <1>0, <1>1, <2>2, <3>1 DEF Iterate, ResolveStagingGoal, CallNavigateToPose
  <2>3. ASSUME NextIteration, worker.iteration < MaxIterations
        PROVE  worker' \in Workers /\ Located'
    <3>1. worker.iteration + 1 \in 0..MaxIterations
      BY <1>0, <2>3, FrontierAssumption DEF FrontierAssumption
    <3> QED BY <1>0, <1>1, <2>3, <3>1 DEF NextIteration
  <2>4. CASE AwaitExpansion
    BY <1>0, <2>3, <2>4 DEF AwaitExpansion
  <2>5. CASE AwaitServer \/ AwaitAcceptance
    BY <1>0, <1>1, <2>5 DEF AwaitServer, AwaitAcceptance
  <2>6. CASE TakeResult
    BY <1>0, <1>1, <2>6 DEF TakeResult
  <2>7. CASE BeginWithdraw
    BY <1>0, <1>1, <2>7 DEF BeginWithdraw
  <2>8. CASE EndWithdraw
    <3>1. CASE NextIteration
      BY <1>0, <2>3, <2>8, <3>1 DEF EndWithdraw
    <3>2. CASE ~NextIteration
      BY <1>0, <1>1, <2>8, <3>2 DEF EndWithdraw
    <3> QED BY <3>1, <3>2
  <2>9. CASE Verdict
    BY <1>0, <1>1, <2>9 DEF Verdict
  <2>10. CASE FinalizeResult
    BY <1>0, <1>1, <2>10 DEF FinalizeResult
  <2>11. CASE ClearActiveGoal
    BY <1>0, <1>1, <2>11, FrontierAssumption DEF ClearActiveGoal, Idle, FrontierAssumption
  <2>12. CASE Throw
    BY <1>0, <1>1, <2>12 DEF Throw
  <2> QED
    BY <2>1, <2>2, <2>3, <2>4, <2>5, <2>6, <2>7, <2>8, <2>9, <2>10, <2>11, <2>12
    DEF Work
<1>3. OthersOK'
  <2>0. Held \subseteq Delegates
    BY <1>0 DEF OthersOK, Held
  <2> USE <1>0, <1>1, <2>0 DEF OthersOK, workerFrame, node
  <2>1. CASE Start
    BY <2>1 DEF Start
  <2>2. CASE WaitForMap \/ AwaitExpansion \/ Throw \/ Verdict
    BY <2>2 DEF WaitForMap, AwaitExpansion, Throw, Verdict
  <2>3. CASE Iterate
    BY <2>3 DEF Iterate, ResolveStagingGoal, CallNavigateToPose, CancelNestedGoal
  <2>4. CASE AwaitServer
    <3>1. worker.target \in {"none", "staging", "original"}
      BY DEF Workers
    <3> QED BY <2>4, <3>1 DEF AwaitServer
  <2>5. CASE AwaitAcceptance
    BY <2>5 DEF AwaitAcceptance
  <2>6. CASE TakeResult \/ EndWithdraw
    BY <2>6 DEF TakeResult, EndWithdraw, ClearNestedHandle
  <2>7. CASE BeginWithdraw
    BY <2>7 DEF BeginWithdraw
  <2>9. CASE FinalizeResult
    <3>1. worker.outcome \in Statuses
      BY <2>9 DEF FinalizeResult, Located, At, Statuses
    <3> QED BY <2>9, <3>1 DEF FinalizeResult
  <2>10. CASE ClearActiveGoal
    BY <2>10 DEF ClearActiveGoal
  <2> QED
    BY <2>1, <2>2, <2>3, <2>4, <2>5, <2>6, <2>7, <2>9, <2>10 DEF Work
<1> QED BY <1>2, <1>3, NextTypes

\* Every step is one of the worker's or one of the others.
LEMMA Sides == Next => Environment \/ Work \/ Throw
  BY DEF Next, Environment

\* Every step keeps the types.
LEMMA TypesKept ==
    ASSUME TypeInv, [Next]_vars
    PROVE  TypeInv'
<1>1. CASE Next
  BY <1>1, Sides, EnvironmentTypes, WorkTypes
<1>2. CASE UNCHANGED vars
  BY <1>2 DEF vars, node, delegation, TypeInv, TypeOK, Located, At
<1> QED BY <1>1, <1>2

\* The initial state has them.
LEMMA InitTypes ==
    ASSUME Init
    PROVE  TypeInv
<1>1. worker \in Workers /\ Located
  BY IdleType DEF Init, Located, At, Idle, Legs
<1>2. OthersOK
  <2>1. transitions \in 0..MaxTransitions
    BY FrontierAssumption DEF Init, FrontierAssumption
  <2>2. /\ status \in [Goals -> Statuses]
        /\ target \in [Delegates -> {"none", "staging", "original"}]
        /\ delegate \in [Delegates -> Statuses]
    BY DEF Init, Statuses
  <2> QED BY <2>1, <2>2 DEF Init, OthersOK, Lifecycles
<1> QED BY <1>1, <1>2, TypeParts DEF TypeInv

-----------------------------------------------------------------------------
(* The invariant, part by part                                             *)

\* A transition begins with a cancel request, or with none where that fails, and
\* leaves all else as it is.
LEMMA LifecycleSteps ==
    ASSUME Lifecycle \/ FinishTransition
    PROVE  /\ UNCHANGED <<status, worker, target, delegate>>
           /\ cancelSent \subseteq cancelSent'
           /\ lost \subseteq lost'
           /\ CleanedUp \/ UNCHANGED <<active, nested>>
<1>1. ASSUME NEW from, NEW transition, StopExecution(from, transition)
      PROVE  /\ UNCHANGED <<status, worker, target, delegate, active, nested, lost>>
             /\ cancelSent \subseteq cancelSent'
  BY <1>1 DEF StopExecution, CancelNestedGoal
<1>2. CASE OnConfigure \/ OnActivate \/ Deactivated \/ ShutDown
  BY <1>2 DEF OnConfigure, OnActivate, Deactivated, ShutDown, delegation
<1>3. CASE CleanedUp
  BY <1>3 DEF CleanedUp
<1> QED BY <1>1, <1>2, <1>3 DEF Lifecycle, FinishTransition

\* The navigator only ever moves one delegate that was sent, and not from an end.
LEMMA NavigateSteps ==
    ASSUME Navigate, TypeInv
    PROVE  /\ UNCHANGED <<lifecycle, stop, status, active, worker, nested, target, cancelSent,
                          lost>>
           /\ \A d \in Delegates :
                \/ delegate'[d] = delegate[d]
                \/ /\ target[d] # "none"
                   /\ delegate[d] \in {"unknown", "executing", "canceling"}
                   /\ delegate[d] # "unknown" => delegate'[d] \in {"canceling"} \cup Outcomes
<1>1. UNCHANGED <<lifecycle, stop, status, active, worker, nested, target, cancelSent, lost>>
  BY DEF Navigate, node
<1>2. delegate \in [Delegates -> Statuses]
  BY DEF TypeInv, TypeOK
<1>3. PICK e \in Delegates :
        /\ target[e] # "none"
        /\ \/ Navigator!Move(e, {"unknown"}, "executing")
           \/ Navigator!Reject(e)
           \/ Navigator!RequestCancel(e)
           \/ Navigator!Finish(e)
  BY DEF Navigate
<1>4. \A d \in Delegates : d # e => delegate'[d] = delegate[d]
  BY <1>2, <1>3 DEF Navigator!Move, Navigator!Reject, Navigator!RequestCancel,
     Navigator!Finish, Navigator!Outcomes
<1>5. /\ delegate[e] \in {"unknown", "executing", "canceling"}
      /\ delegate[e] # "unknown" => delegate'[e] \in {"canceling"} \cup Outcomes
  BY <1>2, <1>3 DEF Navigator!Move, Navigator!Reject, Navigator!RequestCancel,
     Navigator!Finish, Navigator!Outcomes, Outcomes
<1> QED BY <1>1, <1>3, <1>4, <1>5

\* A goal enters an idle node whose last delegate has ended.
LEMMA HandleGoalSteps ==
    ASSUME TypeInv, Service, NEW g \in Goals, HandleGoal(g)
    PROVE  /\ At("none")
           /\ \A h \in Goals : status[h] \notin {"executing", "canceling"}
           /\ worker' = [Idle EXCEPT !.pc = "start", !.goal = g]
<1>1. worker.goal = NoGoal
  BY DEF HandleGoal, Service
<1>2. At("none")
  BY <1>1, FrontierAssumption DEF TypeInv, Located, FrontierAssumption
<1> QED BY <1>2 DEF Service, At, HandleGoal

\* A goal's state, its worker and the active handle agree.
LEMMA ServiceKept ==
    ASSUME TypeInv, Service, Next
    PROVE  Service'
<1>0. /\ status \in [Goals -> Statuses]
      /\ ~At("none") => worker.goal \in Goals
      /\ worker \in Workers
  BY TypeParts DEF TypeInv, OthersOK, Located
<1>1. ASSUME NEW g \in Goals, HandleGoal(g) PROVE Service'
  <2>1. worker'.pc = "start" /\ worker'.goal = g
    BY <1>1, HandleGoalSteps DEF Idle
  <2>2. active' = g /\ status' = [status EXCEPT ![g] = "executing"]
    BY <1>1 DEF HandleGoal
  <2> QED BY <1>0, <1>1, <2>1, <2>2, HandleGoalSteps DEF Service, At
<1>2. ASSUME NEW g \in Goals, RejectGoal(g) \/ HandleCancel(g) PROVE Service'
  <2>1. At("clear") => worker.outcome \in Outcomes
    BY DEF TypeInv, Located, At
  <2>2. UNCHANGED <<active, worker>>
    BY <1>2 DEF RejectGoal, HandleCancel, node
  <2>3. CASE RejectGoal(g)
    BY <1>0, <2>1, <2>2, <2>3 DEF Service, At, RejectGoal, Outcomes
  <2>4. CASE HandleCancel(g)
    BY <1>0, <2>1, <2>2, <2>4 DEF Service, At, HandleCancel, Outcomes
  <2> QED BY <1>2, <2>3, <2>4
<1>3. CASE UNCHANGED <<status, active, worker>>
  BY <1>3 DEF Service, At
<1>4. CASE Lifecycle \/ FinishTransition
  <2>1. CASE CleanedUp
    <3>1. worker.goal = NoGoal
      BY <2>1 DEF CleanedUp, Joined, TypeInv, Located, At, Idle
    <3> QED BY <2>1, <3>1 DEF CleanedUp, Service, At
  <2> QED BY <1>3, <1>4, <2>1, LifecycleSteps
<1>5. ASSUME UNCHANGED <<status, active>>, worker.pc \notin {"none", "clear"},
             worker'.goal = worker.goal, worker'.pc \notin {"none", "clear", "finalize"}
      PROVE  Service'
  BY <1>5 DEF Service, At
<1>6. CASE Start
  <2>1. CASE worker' = [worker EXCEPT !.pc = "finalize", !.outcome = "aborted"]
    BY <1>0, <1>6, <2>1 DEF Start, Service, At, workerFrame, Workers
  <2>2. CASE Go("map")
    BY <1>0, <1>5, <1>6, <2>2 DEF Start, Go, At, workerFrame, Workers
  <2> QED BY <1>6, <2>1, <2>2 DEF Start
<1>7. CASE WaitForMap \/ Iterate \/ AwaitExpansion \/ AwaitServer \/ AwaitAcceptance
  BY <1>0, <1>5, <1>7
  DEF WaitForMap, Iterate, ResolveStagingGoal, AwaitExpansion, AwaitServer, AwaitAcceptance,
      CallNavigateToPose, NextIteration, Go, EndAs, At, workerFrame, Workers
<1>8. CASE TakeResult \/ BeginWithdraw \/ EndWithdraw
  BY <1>0, <1>5, <1>8
  DEF TakeResult, BeginWithdraw, EndWithdraw, NextIteration, Go, EndAs, At, workerFrame,
      Workers
<1>9. CASE Throw
  BY <1>0, <1>5, <1>9
  DEF Throw, Go, EndAs, At, workerFrame, Workers
<1>10. CASE Verdict
  BY <1>0, <1>10 DEF Verdict, Service, At, workerFrame, Workers, TypeInv, Located
<1>11. CASE FinalizeResult
  BY <1>0, <1>11
  DEF FinalizeResult, Service, At, Go, Workers, TypeInv, Located, Outcomes
<1>12. CASE ClearActiveGoal
  BY <1>0, <1>12 DEF ClearActiveGoal, Service, At, Idle
<1> QED
  BY <1>1, <1>2, <1>3, <1>4, <1>6, <1>7, <1>8, <1>9, <1>10, <1>11, <1>12,
     NavigateSteps
  DEF Next, Work


-----------------------------------------------------------------------------
(* What the worker does to the delegates                                   *)

\* A goal that is being served has sent what it has sent; every other unserved
\* goal has sent nothing.
LEMMA SendingKept ==
    ASSUME TypeInv, Service, Sending, Next
    PROVE  Sending'
<1>0. /\ status \in [Goals -> Statuses]
      /\ target \in [Delegates -> {"none", "staging", "original"}]
      /\ worker \in Workers
      /\ ~At("none") => worker.goal \in Goals
  BY TypeParts DEF TypeInv, OthersOK, Located
<1>1. ASSUME NEW g \in Goals, HandleGoal(g) PROVE Sending'
  <2>1. worker'.pc = "start" /\ worker'.goal = g /\ worker'.iteration = 0
    BY <1>1, HandleGoalSteps DEF Idle
  <2>2. /\ status[g] = "unknown"
        /\ status' = [status EXCEPT ![g] = "executing"]
        /\ UNCHANGED <<target, delegate>>
    BY <1>1 DEF HandleGoal
  <2>3. 0 \in 0..MaxIterations
    BY FrontierAssumption DEF FrontierAssumption
  <2> QED BY <1>0, <2>1, <2>2, <2>3 DEF Sending, At, Current, BeforeSending
<1>2. ASSUME NEW g \in Goals, RejectGoal(g) \/ HandleCancel(g) PROVE Sending'
  <2>1. /\ UNCHANGED <<worker, target, delegate>>
        /\ \A h \in Goals : status'[h] \in {"unknown", "rejected"} =>
             status[h] \in {"unknown", "rejected"}
    BY <1>0, <1>2 DEF RejectGoal, HandleCancel, node, delegation
  <2> QED BY <2>1 DEF Sending, At, Current
<1>3. CASE UNCHANGED <<status, worker, target, delegate>>
  BY <1>3 DEF Sending, At, Current
<1>4. CASE Navigate
  BY <1>4, NavigateSteps DEF Sending, At, Current
<1>5. ASSUME UNCHANGED <<status, target, delegate>>, ~At("none"),
             worker'.goal = worker.goal, worker'.iteration = worker.iteration,
             worker'.target = worker.target,
             worker'.pc \in BeforeSending => worker.pc \in BeforeSending,
             worker'.pc \in {"sending", "watch"} => worker.pc \in {"sending", "watch"}
      PROVE  Sending'
  BY <1>5 DEF Sending, At, Current
<1>6. ASSUME UNCHANGED <<status, target, delegate>>, ~At("none"), NextIteration,
             worker.iteration < MaxIterations
      PROVE  Sending'
  <2>1. /\ worker'.goal = worker.goal
        /\ worker'.iteration = worker.iteration + 1
        /\ worker'.pc = "iterate"
        /\ worker.iteration + 1 \in 0..MaxIterations
    BY <1>0, <1>6, FrontierAssumption DEF NextIteration, Workers, FrontierAssumption
  <2>2. worker.iteration \in Nat
    BY <1>0, FrontierAssumption DEF Workers, FrontierAssumption
  <2> QED BY <1>6, <2>1, <2>2 DEF Sending, At, Current, BeforeSending
<1>7. CASE Start \/ WaitForMap \/ Throw \/ Verdict
  BY <1>0, <1>5, <1>7
  DEF Start, WaitForMap, Throw, Verdict, Go, EndAs, At, Workers, workerFrame, BeforeSending
<1>8. CASE Iterate
  <2>1. /\ UNCHANGED <<status, target, delegate>>
        /\ At("iterate")
        /\ worker'.goal = worker.goal
        /\ worker'.iteration = worker.iteration
        /\ worker'.pc \in {"verdict", "server"}
    BY <1>0, <1>8 DEF Iterate, ResolveStagingGoal, CallNavigateToPose, EndAs, At, Workers,
                      workerFrame
  <2> QED BY <2>1 DEF Sending, At, Current, BeforeSending
<1>9. CASE AwaitExpansion
  BY <1>0, <1>6, <1>9 DEF AwaitExpansion, At, workerFrame, TypeInv, Located, Legs
<1>10. CASE AwaitServer
  <2>1. ASSUME NEW outcome \in {"stopped", "aborted"}, EndAs(outcome), UNCHANGED target
        PROVE  Sending'
    BY <1>0, <1>5, <1>10, <2>1
    DEF AwaitServer, EndAs, At, Workers, workerFrame, BeforeSending
  <2>2. CASE Go("sending") /\ target' = [target EXCEPT ![Current] = worker.target]
    <3>1. /\ UNCHANGED <<status, delegate>>
          /\ At("server")
          /\ worker'.goal = worker.goal
          /\ worker'.iteration = worker.iteration
          /\ worker'.target = worker.target
          /\ worker'.pc = "sending"
          /\ worker.target \in {"staging", "original"}
          /\ worker.goal \in Goals
          /\ worker.iteration \in 0..MaxIterations
      BY <1>0, <1>10, <2>2 DEF AwaitServer, Go, At, Workers, workerFrame, TypeInv, Located,
         Legs
    <3>2. \A d \in Delegates : d # Current => target'[d] = target[d]
      BY <1>0, <2>2
    <3>3. target'[Current] = worker.target
      BY <1>0, <2>2, <3>1 DEF Current, Delegates
    <3>4. status[worker.goal] \notin {"unknown", "rejected"}
      BY <3>1 DEF Service, At
    <3>5. \A g \in Goals, i \in 0..MaxIterations :
             g # worker.goal \/ i > worker.iteration => <<g, i>> # Current
      BY <3>1 DEF Current
    <3>6. \A g \in Goals, i \in 0..MaxIterations : <<g, i>> \in Delegates
      BY DEF Delegates
    <3> QED BY <3>1, <3>2, <3>3, <3>4, <3>5, <3>6 DEF Sending, At, Current, BeforeSending
  <2> QED BY <1>10, <2>1, <2>2 DEF AwaitServer
<1>11. CASE AwaitAcceptance \/ BeginWithdraw
  BY <1>0, <1>5, <1>11
  DEF AwaitAcceptance, BeginWithdraw, Go, EndAs, At, Workers, workerFrame, BeforeSending
<1>12. CASE TakeResult
  BY <1>0, <1>5, <1>12
  DEF TakeResult, Go, EndAs, At, Workers, workerFrame, BeforeSending
<1>13. CASE EndWithdraw
  <2>1. CASE NextIteration /\ worker.why = "preempt"
    BY <1>6, <1>13, <2>1 DEF EndWithdraw, At, workerFrame, TypeInv, Located, Legs
  <2>2. CASE \E outcome \in {"stopped", "aborted"} : EndAs(outcome)
    BY <1>0, <1>5, <1>13, <2>2
    DEF EndWithdraw, EndAs, At, Workers, workerFrame, BeforeSending
  <2> QED BY <1>13, <2>1, <2>2 DEF EndWithdraw, At, TypeInv, Located
<1>14. CASE FinalizeResult
  <2>1. /\ UNCHANGED <<target, delegate>>
        /\ worker' = [worker EXCEPT !.pc = "clear"]
        /\ At("finalize")
    BY <1>14 DEF FinalizeResult, Go
  <2>2. worker.outcome \in Outcomes
    BY <2>1 DEF TypeInv, Located, At
  <2>3. \A g \in Goals : status'[g] \in {"unknown", "rejected"} =>
             status[g] \in {"unknown", "rejected"}
    BY <1>0, <1>14, <2>2 DEF FinalizeResult, Outcomes
  <2> QED BY <1>0, <2>1, <2>3 DEF Sending, At, Current, BeforeSending, Workers
<1>15. CASE ClearActiveGoal
  BY <1>15 DEF ClearActiveGoal, Sending, At, Idle, BeforeSending
<1> QED
  BY <1>1, <1>2, <1>3, <1>4, <1>7, <1>8, <1>9, <1>10, <1>11, <1>12, <1>13, <1>14, <1>15,
     LifecycleSteps
  DEF Next, Work

\* What ended stays ended, and who was asked to cancel stays asked.
Lasting ==
    /\ \A d \in Delegates : delegate[d] \in {"succeeded", "canceled", "aborted", "rejected"} =>
         delegate'[d] = delegate[d]
    /\ cancelSent \subseteq cancelSent'

\* Every step is lasting.
LEMMA DelegatesLast ==
    ASSUME TypeInv, Next
    PROVE  Lasting
<1>1. CASE Navigate
  BY <1>1, NavigateSteps DEF Lasting
<1>2. CASE Work \/ Throw
  BY <1>2
  DEF Work, Throw, Start, WaitForMap, Iterate, ResolveStagingGoal, AwaitExpansion, AwaitServer,
      AwaitAcceptance, TakeResult, BeginWithdraw, EndWithdraw, Verdict, FinalizeResult,
      ClearActiveGoal, CancelNestedGoal, workerFrame, Lasting
<1>3. ASSUME NEW g \in Goals, HandleGoal(g) \/ RejectGoal(g) \/ HandleCancel(g)
      PROVE  Lasting
  BY <1>3 DEF HandleGoal, RejectGoal, HandleCancel, delegation, Lasting
<1>4. CASE UNCHANGED <<delegate, cancelSent>>
  BY <1>4 DEF Lasting
<1>5. CASE Lifecycle \/ FinishTransition
  BY <1>5, LifecycleSteps DEF Lasting
<1> QED BY <1>1, <1>2, <1>3, <1>4, <1>5 DEF Next

\* Only the worker sends.
LEMMA SendsOnly ==
    ASSUME Next
    PROVE  AwaitServer \/ UNCHANGED target
<1>1. CASE (Work \/ Throw) /\ ~AwaitServer
  BY <1>1
  DEF Work, Throw, Start, WaitForMap, Iterate, ResolveStagingGoal, AwaitExpansion,
      AwaitAcceptance, TakeResult, BeginWithdraw, EndWithdraw, Verdict, FinalizeResult,
      ClearActiveGoal
<1>2. ASSUME NEW g \in Goals, HandleGoal(g) \/ RejectGoal(g) \/ HandleCancel(g)
      PROVE  UNCHANGED target
  BY <1>2 DEF HandleGoal, RejectGoal, HandleCancel, delegation
<1>3. CASE Navigate
  BY <1>3 DEF Navigate
<1> QED BY <1>1, <1>2, <1>3, LifecycleSteps DEF Next

\* The pose of a delegate does not change once it was sent.
LEMMA TargetsLast ==
    ASSUME TypeInv, Sending, Next, NEW d \in Delegates, target[d] # "none"
    PROVE  target'[d] = target[d]
<1>1. CASE AwaitServer
  <2>1. target[Current] = "none"
    BY <1>1 DEF AwaitServer, Sending, At, BeforeSending
  <2>2. target \in [Delegates -> {"none", "staging", "original"}]
    BY DEF TypeInv, TypeOK
  <2> QED BY <1>1, <2>1, <2>2 DEF AwaitServer
<1> QED BY <1>1, SendsOnly

\* What a goal earned it keeps.
LEMMA EarnedLasts ==
    ASSUME TypeInv, Sending, Next, NEW g \in Goals, Earned(g)
    PROVE  Earned(g)'
<1>1. PICK i \in 0..MaxIterations :
         target[<<g, i>>] = "original" /\ delegate[<<g, i>>] = "succeeded"
  BY DEF Earned
<1>2. <<g, i>> \in Delegates
  BY DEF Delegates
<1>3. target'[<<g, i>>] = "original" /\ delegate'[<<g, i>>] = "succeeded"
  BY <1>1, <1>2, DelegatesLast, TargetsLast DEF Lasting
<1> QED BY <1>3 DEF Earned

-----------------------------------------------------------------------------
(* Success                                                                 *)

\* A goal ends as succeeded only at finalize_result, with the worker's outcome,
\* which is a success only after the delegate to the original pose succeeded.
LEMMA EarningKept ==
    ASSUME TypeInv, Service, Sending, Earning, Next
    PROVE  Earning'
<1>0. /\ status \in [Goals -> Statuses]
      /\ worker \in Workers
      /\ ~At("none") => worker.goal \in Goals
      /\ \A g \in Goals : Earned(g) => Earned(g)'
  BY TypeParts, EarnedLasts DEF TypeInv, OthersOK, Located
<1>1. ASSUME \A g \in Goals : status'[g] = "succeeded" =>
                 status[g] = "succeeded" \/ (g = worker.goal /\ At("finalize")
                                               /\ worker.outcome = "succeeded"),
             worker'.pc \in Ending /\ worker'.outcome = "succeeded" =>
                 /\ worker'.goal = worker.goal
                 /\ worker.goal \in Goals
                 /\ \/ worker.pc \in Ending /\ worker.outcome = "succeeded"
                    \/ Earned(worker.goal)
      PROVE  Earning'
  <2>1. \A g \in Goals : status'[g] = "succeeded" => Earned(g)'
    BY <1>0, <1>1 DEF Earning, At, Ending
  <2>2. worker'.pc \in Ending /\ worker'.outcome = "succeeded" => Earned(worker.goal)'
    BY <1>0, <1>1, <2>1 DEF Earning
  <2> QED BY <2>1, <2>2 DEF Earning
<1>2. ASSUME NEW g \in Goals, HandleGoal(g) \/ RejectGoal(g) \/ HandleCancel(g)
      PROVE  Earning'
  <2>1. \A h \in Goals : status'[h] = "succeeded" => status[h] = "succeeded"
    BY <1>0, <1>2 DEF HandleGoal, RejectGoal, HandleCancel
  <2>2. CASE HandleGoal(g)
    BY <1>1, <2>1, <2>2, HandleGoalSteps DEF Idle, Ending
  <2>3. CASE ~HandleGoal(g)
    BY <1>0, <1>1, <1>2, <2>1, <2>3 DEF RejectGoal, HandleCancel, node, At, Ending
  <2> QED BY <2>2, <2>3
<1>3. CASE UNCHANGED <<status, worker>>
  BY <1>0, <1>1, <1>3 DEF At, Ending
<1>4. ASSUME UNCHANGED status, ~At("none"), worker'.goal = worker.goal,
             \/ worker'.pc \notin Ending
             \/ worker'.outcome # "succeeded"
             \/ worker.pc \in Ending /\ worker.outcome = "succeeded"
             \/ Earned(worker.goal)
      PROVE  Earning'
  BY <1>0, <1>1, <1>4
<1>5. CASE Start \/ WaitForMap \/ Iterate \/ AwaitExpansion \/ AwaitServer
             \/ AwaitAcceptance \/ BeginWithdraw \/ EndWithdraw \/ Throw
  BY <1>0, <1>4, <1>5
  DEF Start, WaitForMap, Iterate, ResolveStagingGoal, AwaitExpansion, AwaitServer,
      AwaitAcceptance, BeginWithdraw, EndWithdraw, Throw, NextIteration, CallNavigateToPose, Go,
      EndAs, At, Workers, workerFrame, Ending
<1>7. CASE Verdict
  BY <1>0, <1>4, <1>7 DEF Verdict, At, Workers, workerFrame, Ending
<1>8. CASE TakeResult
  <2>1. /\ UNCHANGED status
        /\ At("watch")
        /\ worker'.goal = worker.goal
        /\ worker'.pc \in {"verdict", "expand"}
        /\ worker'.pc = "verdict" /\ worker'.outcome = "succeeded" =>
             worker.target = "original" /\ delegate[Current] = "succeeded"
    BY <1>0, <1>8 DEF TakeResult, Go, EndAs, At, Workers, workerFrame
  <2>2. target[Current] = "original" /\ delegate[Current] = "succeeded" => Earned(worker.goal)
    BY <1>0 DEF Earned, Current, Workers
  <2> QED BY <1>4, <2>1, <2>2 DEF Sending, At, Ending
<1>9. CASE FinalizeResult
  BY <1>0, <1>1, <1>9 DEF FinalizeResult, Go, At, Workers, Ending
<1>10. CASE ClearActiveGoal
  BY <1>1, <1>10 DEF ClearActiveGoal, Idle, Ending
<1> QED
  BY <1>2, <1>3, <1>5, <1>7, <1>8, <1>9, <1>10, LifecycleSteps, NavigateSteps
  DEF Next, Work

-----------------------------------------------------------------------------
(* Cancellation                                                            *)

\* A delegate that was withdrawn stays so, unless it is sent again.
LEMMA WithdrawnLasts ==
    ASSUME TypeInv, Next, NEW d \in Delegates, Withdrawn(d)
    PROVE  Withdrawn(d)'
  BY DelegatesLast DEF Lasting, Withdrawn, Ended, Outcomes

\* A goal stays settled unless its worker sends.
LEMMA SettledLasts ==
    ASSUME TypeInv, Next, NEW g \in Goals, Settled(g),
           UNCHANGED target \/ worker.goal # g
    PROVE  Settled(g)'
<1>1. \A i \in 0..MaxIterations : <<g, i>> \in Delegates
  BY DEF Delegates
<1>2. \A i \in 0..MaxIterations : target'[<<g, i>>] # "none" => target[<<g, i>>] # "none"
  <2>1. CASE UNCHANGED target
    BY <2>1
  <2>2. CASE AwaitServer /\ worker.goal # g
    <3>1. \A i \in 0..MaxIterations : <<g, i>> # Current
      BY <2>2 DEF Current
    <3>2. target \in [Delegates -> {"none", "staging", "original"}]
      BY DEF TypeInv, TypeOK
    <3> QED BY <1>1, <2>2, <3>1, <3>2 DEF AwaitServer
  <2>3. AwaitServer \/ UNCHANGED target
    BY SendsOnly
  <2> QED BY <2>1, <2>2, <2>3
<1> QED BY <1>1, <1>2, WithdrawnLasts DEF Settled

\* A worker whose iteration has not sent, or has ended, has settled its goal.
LEMMA StopSettles ==
    ASSUME TypeInv, Sending, Withdrawal, ~At("none"),
           worker.pc \in BeforeSending \/ Withdrawn(Current)
    PROVE  Settled(worker.goal)
<1>1. worker.iteration \in 0..MaxIterations
  BY TypeParts DEF TypeInv, Workers
<1> SUFFICES ASSUME NEW i \in 0..MaxIterations, target[<<worker.goal, i>>] # "none"
             PROVE  Withdrawn(<<worker.goal, i>>)
  BY DEF Settled
<1>2. CASE i = worker.iteration
  BY <1>2 DEF Sending, Current
<1>3. CASE i > worker.iteration
  BY <1>3 DEF Sending
<1>4. CASE i < worker.iteration
  BY <1>4 DEF Withdrawal
<1> QED BY <1>1, <1>2, <1>3, <1>4, FrontierAssumption DEF FrontierAssumption

\* A goal ends as canceled only when everything it sent was withdrawn.
LEMMA WithdrawalKept ==
    ASSUME TypeInv, Service, Sending, Withdrawal, Next
    PROVE  Withdrawal'
<1>0. /\ status \in [Goals -> Statuses]
      /\ target \in [Delegates -> {"none", "staging", "original"}]
      /\ worker \in Workers
      /\ ~At("none") => worker.goal \in Goals
      /\ \A g \in Goals, i \in 0..MaxIterations : <<g, i>> \in Delegates
  BY TypeParts DEF TypeInv, OthersOK, Located, Delegates
<1>1. ASSUME UNCHANGED target, ~At("none"), worker'.goal = worker.goal,
             status' = status \/ (At("finalize") /\ FinalizeResult),
             \/ worker'.iteration = worker.iteration
             \/ worker'.iteration = worker.iteration + 1 /\ Withdrawn(Current),
             worker'.pc \in {"withdraw", "expand"} =>
                 worker'.iteration = worker.iteration /\ Withdrawn(Current)',
             worker'.pc \in Ending /\ worker'.outcome \in {"stopped", "canceled"} =>
                 Settled(worker.goal)
      PROVE  Withdrawal'
  <2>1. \A g \in Goals : Settled(g) => Settled(g)'
    BY <1>1, SettledLasts
  <2>2. \A g \in Goals : status'[g] = "canceled" => Settled(g)
    BY <1>0, <1>1 DEF Withdrawal, FinalizeResult, At, Ending
  <2>3. ASSUME NEW i \in 0..MaxIterations, i < worker'.iteration,
               target'[<<worker'.goal, i>>] # "none"
        PROVE  Withdrawn(<<worker.goal, i>>)
    <3>1. worker.iteration \in 0..MaxIterations
      BY <1>0 DEF Workers
    <3>2. i < worker.iteration \/ (i = worker.iteration /\ Withdrawn(Current))
      BY <1>1, <2>3, <3>1, FrontierAssumption DEF FrontierAssumption
    <3> QED BY <1>1, <2>3, <3>2 DEF Withdrawal, Current
  <2>4. \A i \in 0..MaxIterations :
           i < worker'.iteration /\ target'[<<worker'.goal, i>>] # "none" =>
               Withdrawn(<<worker.goal, i>>)'
    BY <1>0, <1>1, <2>3, WithdrawnLasts
  <2>5. worker'.pc \in Ending /\ worker'.outcome \in {"stopped", "canceled"} =>
           Settled(worker.goal)'
    BY <1>0, <1>1, <2>1
  <2> QED BY <1>1, <2>1, <2>2, <2>4, <2>5 DEF Withdrawal
<1>2. ASSUME UNCHANGED <<target, worker>>,
             \A g \in Goals : status'[g] = "canceled" => status[g] = "canceled"
      PROVE  Withdrawal'
  <2>1. \A g \in Goals : Settled(g) => Settled(g)'
    BY <1>2, SettledLasts
  <2>2. At("none") \/ Current \in Delegates
    BY CurrentType
  <2>3. ~At("none") => \A i \in 0..MaxIterations :
           i < worker.iteration /\ target[<<worker.goal, i>>] # "none" =>
               Withdrawn(<<worker.goal, i>>)'
    BY <1>0, <1>2, WithdrawnLasts DEF Withdrawal
  <2>4. worker.pc \in {"withdraw", "expand"} => Withdrawn(Current)'
    BY <1>2, <2>2, WithdrawnLasts DEF Withdrawal, At, Current
  <2>5. ~At("none") /\ Settled(worker.goal) => Settled(worker.goal)'
    BY <1>0, <1>2, <2>1
  <2> QED BY <1>2, <2>1, <2>3, <2>4, <2>5 DEF Withdrawal, At, Current, Ending
<1>3. ASSUME NEW g \in Goals, HandleGoal(g) PROVE Withdrawal'
  <2>1. worker' = [Idle EXCEPT !.pc = "start", !.goal = g]
    BY <1>3, HandleGoalSteps
  <2>2. /\ worker'.pc = "start" /\ worker'.goal = g /\ worker'.iteration = 0
        /\ worker'.outcome = "none"
    BY <2>1 DEF Idle
  <2>3. UNCHANGED target /\ status' = [status EXCEPT ![g] = "executing"]
    BY <1>3 DEF HandleGoal
  <2>4. \A h \in Goals : Settled(h) => Settled(h)'
    BY <2>3, SettledLasts
  <2> QED BY <1>0, <2>2, <2>3, <2>4, FrontierAssumption
      DEF Withdrawal, At, Ending, FrontierAssumption
<1>4. ASSUME NEW g \in Goals, RejectGoal(g) \/ HandleCancel(g) PROVE Withdrawal'
  BY <1>0, <1>2, <1>4 DEF RejectGoal, HandleCancel, node, delegation
<1>5. ASSUME UNCHANGED <<target, status>>, ~At("none"), worker'.goal = worker.goal,
             worker'.iteration = worker.iteration,
             worker'.pc \notin {"withdraw", "expand"},
             worker'.pc \in Ending /\ worker'.outcome \in {"stopped", "canceled"} =>
                 Settled(worker.goal)
      PROVE  Withdrawal'
  BY <1>1, <1>5
<1>6. CASE Start \/ WaitForMap \/ Iterate
  <2>1. ~At("none") /\ worker.pc \in BeforeSending
    BY <1>6 DEF Start, WaitForMap, Iterate, ResolveStagingGoal, At, BeforeSending
  <2>2. Settled(worker.goal)
    BY <2>1, StopSettles
  <2> QED BY <1>0, <1>5, <1>6, <2>1, <2>2
      DEF Start, WaitForMap, Iterate, ResolveStagingGoal, CallNavigateToPose, Go, EndAs,
          Workers, workerFrame, At
<1>7. CASE AwaitExpansion
  <2>1. UNCHANGED <<target, status>> /\ At("expand") /\ NextIteration
    BY <1>7 DEF AwaitExpansion, workerFrame
  <2>2. worker'.pc = "iterate" /\ worker'.goal = worker.goal
    BY <1>0, <2>1 DEF NextIteration, Workers
  <2>3. worker'.iteration = worker.iteration + 1
    BY <1>0, <2>1 DEF NextIteration, Workers
  <2>4. Withdrawn(Current)
    BY <2>1 DEF Withdrawal, At
  <2> QED BY <1>1, <2>1, <2>2, <2>3, <2>4 DEF At, Ending
<1>8. CASE AwaitServer
  <2>1. /\ At("server")
        /\ UNCHANGED status
        /\ Settled(worker.goal)
    BY <1>8, StopSettles DEF AwaitServer, workerFrame, At, BeforeSending
  <2>2. ASSUME NEW outcome \in {"stopped", "aborted"}, EndAs(outcome), UNCHANGED target
        PROVE  Withdrawal'
    BY <1>0, <1>5, <2>1, <2>2 DEF EndAs, Workers, At
  <2>3. CASE Go("sending")
    <3>1. \A g \in Goals : status[g] = "canceled" => Settled(g)'
      BY <2>1, SettledLasts DEF Withdrawal, Service, At
    <3>2. worker'.pc = "sending" /\ worker'.goal = worker.goal
              /\ worker'.iteration = worker.iteration
      BY <1>0, <2>3 DEF Go, Workers
    <3>3. worker.iteration \in 0..MaxIterations /\ worker.goal \in Goals
      BY <1>0, <2>1 DEF Workers, At
    <3>4. \A i \in 0..MaxIterations : i < worker.iteration =>
             target'[<<worker.goal, i>>] = target[<<worker.goal, i>>]
      <4>1. \A i \in 0..MaxIterations : i < worker.iteration => <<worker.goal, i>> # Current
        BY <3>3 DEF Current
      <4> QED BY <1>0, <1>8, <3>3, <4>1 DEF AwaitServer
    <3>5. \A i \in 0..MaxIterations :
             i < worker.iteration /\ target'[<<worker.goal, i>>] # "none" =>
                 Withdrawn(<<worker.goal, i>>)'
      BY <1>0, <2>1, <3>2, <3>3, <3>4, WithdrawnLasts DEF Withdrawal, At
    <3> QED BY <2>1, <3>1, <3>2, <3>5 DEF Withdrawal, At, Ending
  <2> QED BY <1>8, <2>2, <2>3 DEF AwaitServer
<1>9. CASE AwaitAcceptance
  BY <1>0, <1>5, <1>9 DEF AwaitAcceptance, Go, EndAs, At, Workers, workerFrame, Ending
<1>10. CASE TakeResult
  <2>1. /\ UNCHANGED <<target, status, delegate, cancelSent>>
        /\ At("watch")
        /\ Withdrawn(Current)
    BY <1>10 DEF TakeResult, workerFrame, Withdrawn
  <2>2. Settled(worker.goal)
    BY <2>1, StopSettles DEF At
  <2>3. /\ worker'.goal = worker.goal
        /\ worker'.iteration = worker.iteration
        /\ worker'.pc \in {"verdict", "expand"}
    BY <1>0, <1>10 DEF TakeResult, Go, EndAs, Workers
  <2>4. Withdrawn(Current)'
    BY <2>1, <2>3 DEF Withdrawn, Ended, Current
  <2> QED BY <1>1, <2>1, <2>2, <2>3, <2>4 DEF At
<1>11. CASE BeginWithdraw
  <2>1. /\ UNCHANGED <<target, status>>
        /\ At("watch")
        /\ Current \in cancelSent'
    BY <1>11 DEF BeginWithdraw, workerFrame
  <2>2. /\ worker'.goal = worker.goal
        /\ worker'.iteration = worker.iteration
        /\ worker'.pc = "withdraw"
    BY <1>0, <1>11 DEF BeginWithdraw, Workers
  <2>3. Withdrawn(Current)'
    BY <2>1, <2>2 DEF Withdrawn, Current
  <2> QED BY <1>1, <2>1, <2>2, <2>3 DEF At, Ending
<1>12. CASE EndWithdraw
  <2>1. /\ UNCHANGED <<target, status>>
        /\ At("withdraw")
        /\ Withdrawn(Current)
    BY <1>12 DEF EndWithdraw, workerFrame, Withdrawal, At
  <2>2. Settled(worker.goal)
    BY <2>1, StopSettles DEF At
  <2>3. CASE NextIteration
    <3>1. /\ worker'.pc = "iterate"
          /\ worker'.goal = worker.goal
          /\ worker'.iteration = worker.iteration + 1
      BY <1>0, <2>3 DEF NextIteration, Workers
    <3> QED BY <1>1, <2>1, <3>1 DEF At, Ending
  <2>4. CASE \E outcome \in {"stopped", "aborted"} : EndAs(outcome)
    BY <1>0, <1>5, <2>1, <2>2, <2>4 DEF EndAs, Workers, At
  <2> QED BY <1>12, <2>3, <2>4 DEF EndWithdraw
<1>13. CASE Throw
  BY <1>0, <1>5, <1>13 DEF Throw, EndAs, Workers, workerFrame, At
<1>14. CASE Verdict
  BY <1>0, <1>5, <1>14
  DEF Verdict, Go, Workers, workerFrame, At, Withdrawal, Ending, TypeInv, Located
<1>15. CASE FinalizeResult
  BY <1>0, <1>1, <1>15 DEF FinalizeResult, Go, Workers, At, Withdrawal, Ending
<1>16. CASE ClearActiveGoal
  <2>1. \A g \in Goals : Settled(g) => Settled(g)'
    BY <1>16, SettledLasts DEF ClearActiveGoal
  <2> QED BY <1>16, <2>1 DEF ClearActiveGoal, Withdrawal, At, Idle, Ending
<1> QED
  BY <1>2, <1>3, <1>4, <1>6, <1>7, <1>8, <1>9, <1>10, <1>11, <1>12, <1>13, <1>14, <1>15,
     <1>16, LifecycleSteps, NavigateSteps
  DEF Next, Work

-----------------------------------------------------------------------------
(* Reach: the handle of the delegated goal                                 *)

\* The handle holds a delegate or none.
LEMMA HeldIs ==
    /\ \A d \in Delegates : d # NoDelegate
    /\ \A d \in Delegates : d \in Held <=> d = nested
    /\ nested = NoDelegate => Held = {}
  BY FrontierAssumption DEF Held, Delegates, NoDelegate, FrontierAssumption

\* The steps of the worker that only move it on.
Onward ==
    /\ UNCHANGED <<target, delegate, nested, lost>>
    /\ worker'.goal = worker.goal
    /\ worker'.iteration = worker.iteration

\* An open delegate is held, being sent, or lost.
LEMMA KnowingKept ==
    ASSUME TypeInv, Service, Sending, Knowing, Next
    PROVE  Knowing'
<1>0. /\ target \in [Delegates -> {"none", "staging", "original"}]
      /\ worker \in Workers
      /\ ~At("none") => Current \in Delegates
  BY TypeParts, CurrentType DEF TypeInv, OthersOK
<1>1. ASSUME UNCHANGED <<target, delegate>>,
             \/ nested' = nested
             \/ /\ nested' = NoDelegate
                /\ nested \in Delegates => ~Open(nested) \/ nested \in lost',
             lost \subseteq lost',
             At("none"),
             worker' = worker \/ (worker'.pc = "start" /\ nested' = NoDelegate)
      PROVE  Knowing'
  <2>1. \A d \in Delegates : Open(d) => d = nested \/ d \in lost
    BY <1>1 DEF Knowing, At
  <2>2. \A d \in Delegates : Open(d) => d = nested' \/ d \in lost'
    BY <1>1, <2>1
  <2>3. \A d \in Delegates : Open(d)' => Open(d)
    BY <1>1 DEF Open
  <2>4. worker'.pc = "none" \/ (worker'.pc = "start" /\ nested' = NoDelegate)
    BY <1>1 DEF At
  <2> QED BY <2>2, <2>3, <2>4 DEF Knowing, BeforeSending
<1>2. ASSUME NEW g \in Goals, HandleGoal(g) PROVE Knowing'
  <2>1. /\ UNCHANGED <<target, delegate, lost>>
        /\ nested' = NoDelegate
        /\ HeldEnded
    BY <1>2 DEF HandleGoal
  <2>2. At("none") /\ worker'.pc = "start"
    BY <1>2, HandleGoalSteps DEF Idle
  <2>3. nested \in Delegates => ~Open(nested)
    BY <2>1, HeldIs DEF HeldEnded, Open, Ended, Outcomes
  <2> QED BY <1>1, <2>1, <2>2, <2>3
<1>3. ASSUME UNCHANGED <<worker, nested, lost, target>>,
             \A d \in Delegates : Open(d)' => Open(d)
      PROVE  Knowing'
  BY <1>3 DEF Knowing, At, Current
<1>4. CASE UNCHANGED <<worker, nested, lost, target, delegate>>
  BY <1>3, <1>4 DEF Open
<1>5. ASSUME NEW g \in Goals, RejectGoal(g) \/ HandleCancel(g) PROVE Knowing'
  <2>1. CASE UNCHANGED nested
    BY <1>4, <1>5, <2>1 DEF RejectGoal, HandleCancel, node, delegation
  <2>2. CASE active = NoGoal /\ HeldEnded /\ nested' = NoDelegate /\ RejectGoal(g)
    <3>1. At("none")
      BY <2>2, FrontierAssumption DEF Service, TypeInv, Located, FrontierAssumption
    <3>2. nested \in Delegates => ~Open(nested)
      BY <2>2, HeldIs DEF HeldEnded, Open, Ended, Outcomes
    <3> QED BY <1>1, <2>2, <3>1, <3>2 DEF RejectGoal
  <2> QED BY <1>5, <2>1, <2>2 DEF RejectGoal, HandleCancel, delegation
<1>6. CASE Navigate
  BY <1>3, <1>6, NavigateSteps DEF Open
<1>7. CASE Lifecycle \/ FinishTransition
  <2>1. CASE CleanedUp
    <3>1. nested \in Delegates => nested \in lost'
      BY <2>1, HeldIs DEF CleanedUp
    <3> QED BY <1>1, <2>1, <3>1 DEF CleanedUp, Joined, At
  <2>2. CASE ~CleanedUp
    <3>1. UNCHANGED lost
      BY <1>7, <2>2 DEF Lifecycle, FinishTransition, OnConfigure, OnActivate, StopExecution,
         Deactivated, ShutDown, delegation
    <3> QED BY <1>4, <1>7, <2>2, <3>1, LifecycleSteps
  <2> QED BY <2>1, <2>2
<1>8. ASSUME Onward, ~At("sending"), worker'.pc # "sending",
             worker'.pc \in BeforeSending \cup {"expand"} =>
                 worker.pc \in BeforeSending \cup {"expand"},
             worker'.pc \in {"watch", "withdraw"} => worker.pc \in {"watch", "withdraw"}
      PROVE  Knowing'
  BY <1>8 DEF Onward, Knowing, Open, At, Current
<1>9. ASSUME UNCHANGED <<target, delegate, lost>>, nested = Current, ~Open(Current),
             nested' = NoDelegate, ~At("sending"), ~At("none"),
             worker'.pc \notin {"sending", "watch", "withdraw"}
      PROVE  Knowing'
  <2>1. \A d \in Delegates : Open(d)' => Open(d)
    BY <1>9 DEF Open
  <2>2. \A d \in Delegates : Open(d) => d \in lost
    BY <1>9 DEF Knowing
  <2> QED BY <1>9, <2>1, <2>2 DEF Knowing, BeforeSending
<1>10. CASE Start \/ WaitForMap \/ Throw
  <2>1. CASE Start
    BY <1>0, <1>8, <2>1 DEF Start, Go, At, Workers, workerFrame, BeforeSending, Onward
  <2>2. CASE WaitForMap
    BY <1>0, <1>8, <2>2 DEF WaitForMap, Go, EndAs, At, Workers, workerFrame, BeforeSending, Onward
  <2>3. CASE Throw
    BY <1>0, <1>8, <2>3 DEF Throw, EndAs, At, Workers, workerFrame, BeforeSending, Onward
  <2> QED BY <1>10, <2>1, <2>2, <2>3
<1>11. CASE Iterate
  BY <1>0, <1>8, <1>11
  DEF Iterate, ResolveStagingGoal, CallNavigateToPose, EndAs, At, Workers, workerFrame,
      BeforeSending, Onward
<1>12. CASE BeginWithdraw
  BY <1>0, <1>8, <1>12
  DEF BeginWithdraw, At, Workers, workerFrame, BeforeSending, Onward
<1>13. CASE Verdict \/ FinalizeResult
  <2>3. CASE Verdict
    BY <1>0, <1>8, <2>3 DEF Verdict, Go, At, Workers, workerFrame, BeforeSending, Onward
  <2>4. CASE FinalizeResult
    BY <1>0, <1>8, <2>4 DEF FinalizeResult, Go, At, Workers, workerFrame, BeforeSending, Onward
  <2> QED BY <1>13, <2>3, <2>4
<1>14. CASE ClearActiveGoal
  BY <1>14 DEF ClearActiveGoal, Knowing, Open, At, Idle, BeforeSending
<1>15. CASE AwaitExpansion
  <2>1. /\ UNCHANGED <<target, delegate, nested, lost>>
        /\ At("expand")
        /\ worker'.pc = "iterate"
    BY <1>0, <1>15 DEF AwaitExpansion, NextIteration, workerFrame, Workers
  <2> QED BY <2>1 DEF Knowing, Open, At, BeforeSending
<1>16. CASE AwaitServer
  <2>1. ASSUME NEW outcome \in {"stopped", "aborted"}, EndAs(outcome), UNCHANGED target
        PROVE  Knowing'
    BY <1>0, <1>8, <1>16, <2>1
    DEF AwaitServer, EndAs, Workers, At, BeforeSending, workerFrame, Onward
  <2>2. CASE Go("sending") /\ target' = [target EXCEPT ![Current] = worker.target]
    <3>1. /\ UNCHANGED <<delegate, nested, lost>>
          /\ At("server")
          /\ worker'.pc = "sending"
          /\ Current' = Current
      BY <1>0, <1>16, <2>2 DEF AwaitServer, Go, Workers, workerFrame, Current
    <3>2. \A d \in Delegates : Open(d)' => Open(d) \/ d = Current
      BY <1>0, <2>2, <3>1 DEF Open
    <3>3. nested = NoDelegate
      BY <3>1 DEF Knowing, At, BeforeSending
    <3> QED BY <3>1, <3>2, <3>3 DEF Knowing, At, BeforeSending
  <2> QED BY <1>16, <2>1, <2>2 DEF AwaitServer
<1>17. CASE AwaitAcceptance
  <2>1. /\ UNCHANGED <<target, delegate>>
        /\ At("sending")
        /\ worker'.pc \in {"verdict", "watch"}
        /\ Current' = Current
        /\ nested = NoDelegate
    BY <1>0, <1>17
    DEF AwaitAcceptance, Go, EndAs, Workers, workerFrame, Current, Knowing, At, BeforeSending
  <2>2. \A d \in Delegates : Open(d)' => d \in lost \/ d = Current
    BY <2>1, HeldIs DEF Open, Knowing
  <2>3. CASE delegate[Current] = "rejected" /\ worker'.pc = "verdict"
    <3>1. ~Open(Current)'
      BY <2>1, <2>3 DEF Open
    <3> QED BY <1>17, <2>1, <2>2, <2>3, <3>1
        DEF AwaitAcceptance, Knowing, At, BeforeSending, Open
  <2>4. CASE worker'.pc = "watch" /\ nested' = Current
    BY <1>0, <1>17, <2>1, <2>2, <2>4
    DEF AwaitAcceptance, EndAs, Knowing, At, BeforeSending
  <2>5. CASE worker'.pc = "verdict" /\ lost' = lost \cup {Current}
    BY <2>1, <2>2, <2>5 DEF Knowing, At, BeforeSending
  <2> QED BY <1>0, <1>17, <2>3, <2>4, <2>5 DEF AwaitAcceptance, Go, EndAs, Workers
<1>18. CASE TakeResult
  <2>1. /\ UNCHANGED <<target, delegate, lost>>
        /\ At("watch")
        /\ nested = Current
        /\ nested' = NoDelegate
        /\ ~Open(Current)
        /\ worker'.pc \in {"verdict", "expand"}
    BY <1>0, <1>18 DEF TakeResult, ClearNestedHandle, Go, EndAs, workerFrame, Workers, Knowing,
       At, Open, Ended, Outcomes
  <2> QED BY <1>9, <2>1 DEF At
<1>19. CASE EndWithdraw
  <2>1. UNCHANGED <<target, delegate, lost>> /\ At("withdraw") /\ nested = Current
    BY <1>19 DEF EndWithdraw, workerFrame, Knowing, At
  <2>2. CASE Ended(Current) /\ ClearNestedHandle
    <3>1. worker'.pc \in {"verdict", "iterate"}
      BY <1>0, <1>19 DEF EndWithdraw, NextIteration, EndAs, Workers
    <3> QED BY <1>9, <2>1, <2>2, <3>1 DEF ClearNestedHandle, Open, Ended, Outcomes, At
  <2>3. CASE UNCHANGED nested /\ \E outcome \in {"stopped", "aborted"} : EndAs(outcome)
    BY <1>0, <1>8, <2>1, <2>3 DEF EndAs, Workers, At, BeforeSending, Onward
  <2> QED BY <1>19, <2>2, <2>3 DEF EndWithdraw
<1> QED
  BY <1>2, <1>4, <1>5, <1>6, <1>7, <1>10, <1>11, <1>12, <1>13, <1>14, <1>15, <1>16, <1>17,
     <1>18, <1>19
  DEF Next, Work

\* From the begin of a transition on, the handle the worker leaves behind is
\* one that was asked to cancel.
LEMMA StoppingKept ==
    ASSUME TypeInv, Service, Knowing, Stopping, Next
    PROVE  Stopping'
<1>0. worker \in Workers
  BY TypeParts DEF TypeInv
<1>1. ASSUME NEW g \in Goals, HandleGoal(g) PROVE Stopping'
  BY <1>1 DEF HandleGoal, node, Stopping, Transitioning
<1>2. ASSUME NEW g \in Goals, RejectGoal(g) \/ HandleCancel(g) PROVE Stopping'
  <2>1. /\ UNCHANGED <<lifecycle, worker, cancelSent>>
        /\ lifecycle \notin Transitioning
        /\ nested' = nested \/ nested' = NoDelegate
    BY <1>2 DEF RejectGoal, HandleCancel, GroupFree, node, delegation
  <2>2. Held' \subseteq Held
    BY <2>1 DEF Held
  <2> QED BY <2>1, <2>2 DEF Stopping, At
<1>3. CASE UNCHANGED <<lifecycle, stop, worker, nested, cancelSent>>
  BY <1>3 DEF Stopping, At, Held
<1>4. CASE OnConfigure \/ OnActivate
  BY <1>4 DEF OnConfigure, OnActivate, delegation, Stopping, Transitioning, At, Held
<1>5. ASSUME NEW from, NEW transition \in Transitioning, StopExecution(from, transition)
      PROVE  Stopping'
  <2>1. CASE lifecycle' = transition /\ CancelNestedGoal
    BY <1>5, <2>1 DEF StopExecution, CancelNestedGoal, Stopping, Transitioning, At, Held
  <2>2. CASE lifecycle' = "failed"
    BY <2>2 DEF Stopping, Transitioning
  <2> QED BY <1>5, <2>1, <2>2 DEF StopExecution
<1>6. CASE FinishTransition
  <2>1. At("none") /\ lifecycle \in Transitioning
    BY <1>6 DEF FinishTransition, Deactivated, CleanedUp, ShutDown, Joined, At, Transitioning
  <2>2. Held \subseteq cancelSent
    BY <2>1 DEF Stopping, At
  <2>3. CASE Deactivated \/ ShutDown
    BY <2>1, <2>2, <2>3
    DEF Deactivated, ShutDown, delegation, Stopping, Transitioning, At, Held
  <2>4. CASE CleanedUp
    BY <2>1, <2>4 DEF CleanedUp, Stopping, Transitioning, At, Held
  <2> QED BY <1>6, <2>3, <2>4 DEF FinishTransition
<1>7. CASE Work \/ Throw
  <2>1. UNCHANGED <<lifecycle, stop>> /\ ~At("none") /\ cancelSent \subseteq cancelSent'
    BY <1>7
    DEF Work, Throw, Start, WaitForMap, Iterate, ResolveStagingGoal, AwaitExpansion, AwaitServer,
        AwaitAcceptance, TakeResult, BeginWithdraw, EndWithdraw, Verdict, FinalizeResult,
        ClearActiveGoal, CancelNestedGoal, workerFrame, node, At
  <2>2. lifecycle \notin {"inactive", "unconfigured", "finalized"}
    BY <2>1 DEF Stopping
  <2> SUFFICES ASSUME lifecycle \in Transitioning
               PROVE  stop /\ (worker'.pc # "watch" => Held' \subseteq cancelSent')
    BY <2>1, <2>2 DEF Stopping, At
  <2>3. stop /\ (~At("watch") => Held \subseteq cancelSent)
    BY DEF Stopping
  <2>4. CASE At("watch")
    <3>1. nested = Current
      BY <2>4 DEF Knowing, At
    <3>2. CASE TakeResult
      BY <2>3, <3>1, <3>2 DEF TakeResult, ClearNestedHandle, Held
    <3>3. CASE BeginWithdraw
      BY <2>3, <3>1, <3>3 DEF BeginWithdraw, Held
    <3>4. ~Throw
      BY <2>3, <2>4 DEF Throw, ShouldStop
    <3> QED
      BY <1>7, <2>4, <3>2, <3>3, <3>4
      DEF Work, Start, WaitForMap, Iterate, ResolveStagingGoal, AwaitExpansion, AwaitServer,
          AwaitAcceptance, EndWithdraw, Verdict, FinalizeResult, ClearActiveGoal, At
  <2>5. CASE ~At("watch")
    <3>1. \/ nested' \in {nested, NoDelegate}
          \/ AwaitAcceptance /\ worker'.pc \in {"verdict", "watch"}
      BY <1>0, <1>7, <2>5
      DEF Work, Throw, Start, WaitForMap, Iterate, ResolveStagingGoal, AwaitExpansion,
          AwaitServer, AwaitAcceptance, TakeResult, BeginWithdraw, EndWithdraw, Verdict,
          FinalizeResult, ClearActiveGoal, ClearNestedHandle, Go, EndAs, Workers, At
    <3>2. worker'.pc # "watch" => nested' \in {nested, NoDelegate}
      BY <1>0, <3>1 DEF AwaitAcceptance, Go, Workers
    <3>3. worker'.pc # "watch" => Held' \subseteq Held
      BY <3>2 DEF Held
    <3> QED BY <2>1, <2>3, <2>5, <3>3
  <2> QED BY <2>4, <2>5
<1> QED
  BY <1>1, <1>2, <1>3, <1>4, <1>5, <1>6, <1>7, NavigateSteps
  DEF Next, Lifecycle, Transitioning

\* A transition that fails finds a delegate that has ended, and so a worker that
\* is past sending; from there the raised flag keeps it from sending again.
LEMMA FailingKept ==
    ASSUME TypeInv, Knowing, Failing, Next
    PROVE  Failing'
<1>0. worker \in Workers
  BY TypeParts DEF TypeInv
<1>1. ASSUME NEW from, NEW transition \in Transitioning, StopExecution(from, transition)
      PROVE  Failing'
  <2>1. CASE lifecycle' = transition
    BY <2>1 DEF Failing, Transitioning
  <2>2. CASE CancelMayThrow /\ lifecycle' = "failed"
    <3>1. nested # NoDelegate /\ HeldEnded
      BY <2>2 DEF CancelMayThrow, HeldEnded, Held
    <3>2. worker.pc \in Leaving
      BY <1>0, <3>1 DEF Knowing, Workers, BeforeSending, Leaving, Running
    <3>3. stop' /\ UNCHANGED <<worker, nested, delegate>>
      BY <1>1 DEF StopExecution
    <3> QED BY <3>1, <3>2, <3>3 DEF Failing, HeldEnded, Held, Ended
  <2> QED BY <1>1, <2>1, <2>2 DEF StopExecution
<1>2. CASE OnConfigure \/ OnActivate \/ FinishTransition
  BY <1>2 DEF OnConfigure, OnActivate, FinishTransition, Deactivated, CleanedUp, ShutDown,
     Failing
<1>3. ASSUME lifecycle' = lifecycle, stop' = stop, nested' \in {nested, NoDelegate},
             \A d \in Held : Ended(d) => Ended(d)',
             lifecycle = "failed" => worker'.pc \in Leaving
      PROVE  Failing'
  BY <1>3 DEF Failing, HeldEnded, Held
<1>4. ASSUME NEW g \in Goals, HandleGoal(g) \/ RejectGoal(g) \/ HandleCancel(g)
      PROVE  Failing'
  <2>1. ~HandleGoal(g) \/ lifecycle' # "failed"
    BY DEF HandleGoal, node
  <2>2. CASE RejectGoal(g) \/ HandleCancel(g)
    BY <1>3, <2>2 DEF RejectGoal, HandleCancel, node, delegation, Failing, Ended
  <2> QED BY <1>4, <2>1, <2>2 DEF Failing
<1>5. CASE Navigate
  <2>1. UNCHANGED <<lifecycle, stop, nested, worker>>
    BY <1>5, NavigateSteps
  <2>2. Held \subseteq Delegates
    BY DEF TypeInv, TypeOK, Held
  <2>3. \A d \in Held : Ended(d) => Ended(d)'
    BY <1>5, <2>2, NavigateSteps DEF Ended, Outcomes
  <2> QED BY <1>3, <2>1, <2>3 DEF Failing
<1>6. CASE Work \/ Throw
  <2> SUFFICES ASSUME lifecycle = "failed"
               PROVE  /\ UNCHANGED <<lifecycle, stop, delegate>>
                      /\ nested' \in {nested, NoDelegate}
                      /\ worker'.pc \in Leaving
    BY <1>3, <1>6
    DEF Work, Throw, Start, WaitForMap, Iterate, AwaitExpansion, AwaitServer, AwaitAcceptance,
        TakeResult, BeginWithdraw, EndWithdraw, Verdict, FinalizeResult, ClearActiveGoal,
        workerFrame, node, Failing, Ended
  <2>1. stop /\ ShouldStop /\ worker.pc \in Leaving
    BY DEF Failing, ShouldStop
  <2>2. CASE Iterate \/ AwaitExpansion \/ Throw
    BY <1>0, <2>1, <2>2
    DEF Iterate, AwaitExpansion, Throw, NextIteration, EndAs, At, Workers, workerFrame, node,
        Leaving, Ending
  <2>3. CASE TakeResult \/ BeginWithdraw \/ EndWithdraw
    BY <1>0, <2>3
    DEF TakeResult, BeginWithdraw, EndWithdraw, NextIteration, ClearNestedHandle, Go, EndAs,
        Workers, workerFrame, node, Leaving, Ending
  <2>4. CASE Verdict \/ FinalizeResult \/ ClearActiveGoal
    <3>1. worker'.pc \in {"finalize", "clear", "none"}
      <4>1. CASE Verdict
        BY <1>0, <4>1 DEF Verdict, At, Workers
      <4>2. CASE FinalizeResult \/ ClearActiveGoal
        BY <1>0, <4>2 DEF FinalizeResult, ClearActiveGoal, Go, Workers, Idle
      <4> QED BY <2>4, <4>1, <4>2
    <3> QED BY <2>4, <3>1
        DEF Verdict, FinalizeResult, ClearActiveGoal, workerFrame, node, Leaving, Ending
  <2>5. ~Start /\ ~WaitForMap /\ ~AwaitServer /\ ~AwaitAcceptance
    BY <2>1 DEF Start, WaitForMap, AwaitServer, AwaitAcceptance, At, Leaving, Ending
  <2> QED BY <1>6, <2>2, <2>3, <2>4, <2>5 DEF Work
<1> QED BY <1>1, <1>2, <1>4, <1>5, <1>6 DEF Next, Lifecycle, Transitioning

-----------------------------------------------------------------------------
(* The theorems                                                            *)

\* The invariant is one.
LEMMA Invariance == Spec => []Inv
<1>1. Init => Inv
  <2> SUFFICES ASSUME Init PROVE Inv
    OBVIOUS
  <2>1. TypeInv
    BY InitTypes
  <2>2. Service /\ Sending /\ Earning
    BY DEF Init, Service, Sending, Earning, Earned, Idle, At, BeforeSending, Ending, Delegates
  <2>3. Withdrawal /\ Knowing /\ Stopping /\ Failing
    BY DEF Init, Withdrawal, Knowing, Stopping, Failing, Open, Idle, At, BeforeSending, Ending,
       Held, Transitioning
  <2> QED BY <2>1, <2>2, <2>3 DEF Inv
<1>2. Inv /\ [Next]_vars => Inv'
  <2> SUFFICES ASSUME Inv, [Next]_vars PROVE Inv'
    OBVIOUS
  <2>1. CASE Next
    BY <2>1, TypesKept, ServiceKept, SendingKept, EarningKept, WithdrawalKept, KnowingKept,
       StoppingKept, FailingKept
    DEF Inv
  <2>2. CASE UNCHANGED vars
    <3>1. TypeInv'
      BY <2>2, TypesKept DEF Inv
    <3>2. UNCHANGED <<lifecycle, stop, status, active, worker, nested, target, delegate,
                      cancelSent, lost>>
      BY <2>2 DEF vars, node, delegation
    <3>3. Service' /\ Sending' /\ Earning'
      BY <3>2 DEF Inv, Service, Sending, Earning, Earned, At, Current
    <3>4. Withdrawal' /\ Knowing' /\ Stopping'
      BY <3>2 DEF Inv, Withdrawal, Settled, Withdrawn, Ended, Knowing, Open, Stopping, Held,
         At, Current
    <3>5. Failing'
      BY <3>2 DEF Inv, Failing, Held, HeldEnded, Ended
    <3> QED BY <3>1, <3>3, <3>4, <3>5 DEF Inv
  <2> QED BY <2>1, <2>2
<1> QED BY <1>1, <1>2, PTL DEF Spec

\* Every variable of the specification has its type in every reachable state.
THEOREM TypeCorrect == Spec => []TypeOK
<1>1. Inv => TypeOK
  BY DEF Inv, TypeInv
<1> QED BY <1>1, Invariance, PTL

\* A frontier goal that succeeded drove to its own original pose, however many
\* staging legs, late results and earlier goals there were.
THEOREM SuccessEarned == Spec => []SuccessIsEarned
<1>1. Inv => SuccessIsEarned
  BY DEF Inv, Earning, Earned, SuccessIsEarned
<1> QED BY <1>1, Invariance, PTL

\* A goal that ended as canceled leaves no delegate that nobody asked to cancel.
THEOREM CanceledWithdrew == Spec => []CanceledGoalWithdrew
<1>1. Inv => CanceledGoalWithdrew
  <2> SUFFICES ASSUME Inv, NEW d \in Delegates, status[d[1]] = "canceled",
                      target[d] # "none"
               PROVE  d \in cancelSent \/ Ended(d) \/ delegate[d] = "rejected"
    BY DEF CanceledGoalWithdrew
  <2>1. PICK g \in Goals, i \in 0..MaxIterations : d = <<g, i>>
    BY DEF Delegates
  <2> QED BY <2>1 DEF Inv, Withdrawal, Settled, Withdrawn
<1> QED BY <1>1, Invariance, PTL

\* The node knows every delegate that drives, except one whose acceptance came
\* too late and one that a cleanup dropped.
THEOREM DelegateKnown == Spec => []DelegateIsKnown
<1>1. Inv => DelegateIsKnown
  <2> SUFFICES ASSUME Inv, NEW d \in Delegates, Live(d)
               PROVE  d \in Held \cup lost \/ (At("sending") /\ d = Current)
    BY DEF DelegateIsKnown
  <2>1. Open(d)
    BY DEF Inv, Sending, Open, Live
  <2> QED BY <2>1, HeldIs DEF Inv, Knowing
<1> QED BY <1>1, Invariance, PTL

\* Out of use the node has asked every delegate it knows to cancel and sends no
\* other, and unless its last transition failed before the join it has no goal and
\* no worker, whatever the transition found the worker doing.
THEOREM QuietOutOfUse == Spec => []OutOfUseIsQuiet
<1>1. ASSUME Inv, lifecycle \in {"inactive", "unconfigured", "finalized"}
      PROVE  /\ worker.pc = "none"
             /\ Contract!InFlight = {}
             /\ Held \subseteq cancelSent
  <2>1. At("none") /\ Held \subseteq cancelSent
    BY <1>1 DEF Inv, Stopping
  <2> QED BY <1>1, <2>1 DEF Inv, Service, At, Contract!InFlight
<1>2. ASSUME Inv, lifecycle = "failed"
      PROVE  worker.pc \notin {"server", "sending"} /\ HeldEnded
  BY <1>2 DEF Inv, Failing, Leaving, Ending
<1>3. ASSUME Inv, lifecycle \in {"inactive", "unconfigured", "finalized", "failed"},
             NEW d \in Delegates, Live(d)
      PROVE  d \in cancelSent \cup lost
  <2>1. Open(d)
    BY <1>3 DEF Inv, Sending, Open, Live
  <2>2. d \in Held \cup lost
    BY <1>1, <1>2, <1>3, <2>1, HeldIs DEF Inv, Knowing, At
  <2>3. d \in Held => d \in cancelSent
    BY <1>1, <1>2, <1>3 DEF HeldEnded, Ended, Live, Outcomes
  <2> QED BY <2>2, <2>3
<1>4. Inv => OutOfUseIsQuiet
  BY <1>1, <1>2, <1>3 DEF OutOfUseIsQuiet
<1> QED BY <1>4, Invariance, PTL

\* The node implements NavigateAction for its own clients: one goal in flight,
\* one end for each, "canceled" only for a goal that was asked to cancel.
THEOREM ImplementsContract == Spec => ContractSafety
<1>1. Init => Contract!Init
  BY DEF Init, Contract!Init
<1>2. Inv /\ [Next]_vars => [Contract!Next]_status
  <2> SUFFICES ASSUME Inv, [Next]_vars PROVE Contract!Next \/ UNCHANGED status
    OBVIOUS
  <2>0. TypeInv /\ Service
    BY DEF Inv
  <2>1. ASSUME NEW g \in Goals, HandleGoal(g) PROVE Contract!Next
    <3>1. Contract!InFlight = {}
      BY <2>0, <2>1, HandleGoalSteps DEF Contract!InFlight
    <3>2. Contract!Accept(g)
      BY <2>1, <3>1 DEF HandleGoal, Contract!Accept, Contract!Move
    <3> QED BY <3>2 DEF Contract!Next
  <2>2. ASSUME NEW g \in Goals, RejectGoal(g) PROVE Contract!Next
    BY <2>2 DEF RejectGoal, Contract!Next, Contract!Reject, Contract!Move
  <2>3. ASSUME NEW g \in Goals, HandleCancel(g) PROVE Contract!Next
    BY <2>3 DEF HandleCancel, Contract!Next, Contract!RequestCancel, Contract!Move
  <2>4. CASE FinalizeResult
    <3>1. /\ At("finalize")
          /\ worker.goal \in Goals
          /\ worker.outcome \in Outcomes
          /\ status[worker.goal] \in {"executing", "canceling"}
          /\ worker.outcome = "canceled" => status[worker.goal] = "canceling"
      BY <2>0, <2>4 DEF FinalizeResult, TypeInv, Located, Service, At
    <3>2. Contract!Finish(worker.goal)
      BY <2>4, <3>1
      DEF FinalizeResult, Contract!Finish, Contract!Move, Contract!Outcomes, Outcomes
    <3> QED BY <3>1, <3>2 DEF Contract!Next
  <2>5. CASE (Work \/ Throw) /\ ~FinalizeResult
    BY <2>5
    DEF Work, Throw, Start, WaitForMap, Iterate, ResolveStagingGoal, AwaitExpansion, AwaitServer,
        AwaitAcceptance, TakeResult, BeginWithdraw, EndWithdraw, Verdict, ClearActiveGoal,
        workerFrame
  <2>6. CASE UNCHANGED vars
    BY <2>6 DEF vars
  <2> QED
    BY <2>0, <2>1, <2>2, <2>3, <2>4, <2>5, <2>6, LifecycleSteps,
       NavigateSteps
    DEF Next
<1> QED BY <1>1, <1>2, Invariance, PTL DEF Spec, ContractSafety, Contract!Safety

-----------------------------------------------------------------------------
(* The end of a goal                                                       *)

\* The worker has been asked to stop, or is past asking: it ends its goal.
Told ==
    \/ worker.pc \in Running /\ ShouldStop
    \/ worker.pc \in Ending

\* The phases of its goal that a worker that was told to stop has still to leave.
PhasesLeft ==
    CASE At("none") -> 0
      [] At("clear") -> 1
      [] At("finalize") -> 2
      [] At("verdict") -> 3
      [] At("iterate") -> 4
      [] At("map") \/ At("expand") \/ At("withdraw") -> 5
      [] At("watch") \/ At("start") -> 6
      [] At("sending") -> 7
      [] OTHER -> 8

\* A new goal has no effect on a worker that has one, and no lifecycle step
\* lowers the flag while there is a worker.
LEMMA ToldByOthers ==
    ASSUME TypeInv, Service, Stopping, Told, Environment
    PROVE  Told' /\ worker' = worker
<1>1. worker.goal \in Goals /\ ~At("none") /\ active = worker.goal
  BY DEF Told, TypeInv, Located, At, Running, Ending, Service
<1>2. ASSUME UNCHANGED <<worker, stop, active, status>> PROVE Told' /\ worker' = worker
  BY <1>2 DEF Told, ShouldStop
<1>3. ASSUME NEW g \in Goals PROVE ~HandleGoal(g)
  BY <1>1, FrontierAssumption DEF HandleGoal
<1>4. ASSUME NEW g \in Goals, RejectGoal(g) \/ HandleCancel(g)
      PROVE  Told' /\ worker' = worker
  <2>1. UNCHANGED <<worker, stop, active>>
    BY <1>4 DEF RejectGoal, HandleCancel
  <2>2. status[worker.goal] = "canceling" => status'[worker.goal] = "canceling"
    <3>1. status \in [Goals -> Statuses]
      BY DEF TypeInv, TypeOK
    <3>2. \/ status' = [status EXCEPT ![g] = "rejected"] /\ status[g] = "unknown"
          \/ status' = [status EXCEPT ![g] = "canceling"]
      BY <1>4 DEF RejectGoal, HandleCancel
    <3> QED BY <1>1, <3>1, <3>2
  <2> QED BY <2>1, <2>2 DEF Told, ShouldStop
<1>5. ASSUME Lifecycle \/ FinishTransition PROVE Told' /\ worker' = worker
  <2>1. UNCHANGED <<status, worker>>
    BY <1>5, LifecycleSteps
  <2>2. ~Deactivated /\ ~CleanedUp /\ ~ShutDown /\ ~OnActivate
    BY <1>1 DEF Deactivated, CleanedUp, ShutDown, Joined, At, OnActivate, Stopping
  <2>3. UNCHANGED active /\ (stop => stop')
    BY <1>5, <2>2 DEF Lifecycle, FinishTransition, OnConfigure, StopExecution
  <2> QED BY <2>1, <2>3 DEF Told, ShouldStop
<1>7. CASE Navigate
  BY <1>2, <1>7 DEF Navigate
<1> QED BY <1>3, <1>4, <1>5, <1>7 DEF Environment

\* Where a worker that was told to stop goes: always on.
LEMMA ToldGoesOn ==
    ASSUME TypeInv, Told, Work \/ Throw
    PROVE  /\ PhasesLeft' \in 0 .. PhasesLeft - 1
           /\ At("none")' \/ Told'
<1>1. worker \in Workers
  BY TypeParts DEF TypeInv
<1>2. \/ At("start") /\ worker'.pc \in {"map", "finalize", "verdict"}
      \/ worker.pc \in {"map", "expand", "withdraw"} /\ worker'.pc \in {"iterate", "verdict"}
      \/ At("iterate") /\ worker'.pc = "verdict"
      \/ At("server") /\ worker'.pc \in {"sending", "verdict"}
      \/ At("sending") /\ worker'.pc \in {"watch", "verdict"}
      \/ At("watch") /\ worker'.pc \in {"withdraw", "expand", "verdict"}
      \/ At("verdict") /\ worker'.pc = "finalize"
      \/ At("finalize") /\ worker'.pc = "clear"
      \/ At("clear") /\ worker'.pc = "none"
  <2> USE <1>1 DEF Workers, At, Go, EndAs
  <2>1. CASE Start \/ WaitForMap
    BY <2>1 DEF Start, WaitForMap
  <2>2. CASE Iterate
    <3>1. ShouldStop
      BY <2>2 DEF Iterate, Told, Ending
    <3> QED BY <2>2, <3>1 DEF Iterate
  <2>3. CASE AwaitExpansion \/ EndWithdraw
    BY <2>3 DEF AwaitExpansion, EndWithdraw, NextIteration
  <2>4. CASE AwaitServer \/ AwaitAcceptance
    BY <2>4 DEF AwaitServer, AwaitAcceptance
  <2>5. CASE TakeResult \/ BeginWithdraw
    BY <2>5 DEF TakeResult, BeginWithdraw
  <2>6. CASE Verdict
    BY <2>6 DEF Verdict
  <2>7. CASE FinalizeResult \/ ClearActiveGoal
    BY <2>7 DEF FinalizeResult, ClearActiveGoal, Idle
  <2>8. CASE Throw
    BY <2>8 DEF Throw
  <2> QED BY <2>1, <2>2, <2>3, <2>4, <2>5, <2>6, <2>7, <2>8 DEF Work
<1>3. PhasesLeft' \in 0 .. PhasesLeft - 1
  BY <1>2 DEF PhasesLeft, At
<1>4. worker.pc \in Ending => At("none")' \/ worker'.pc \in Ending
  BY <1>2 DEF At, Ending
<1>5. worker.pc \in Running /\ worker'.pc \in Running =>
        worker'.goal = worker.goal /\ UNCHANGED <<stop, active, status>>
  <2> USE <1>1 DEF Workers, At, Go, EndAs, Running, workerFrame
  <2>1. CASE Start \/ WaitForMap \/ Throw
    BY <2>1 DEF Start, WaitForMap, Throw
  <2>2. CASE Iterate
    BY <2>2 DEF Iterate, ResolveStagingGoal, CallNavigateToPose
  <2>3. CASE AwaitExpansion \/ EndWithdraw
    BY <2>3 DEF AwaitExpansion, EndWithdraw, NextIteration
  <2>4. CASE AwaitServer \/ AwaitAcceptance
    BY <2>4 DEF AwaitServer, AwaitAcceptance
  <2>5. CASE TakeResult \/ BeginWithdraw
    BY <2>5 DEF TakeResult, BeginWithdraw
  <2>6. CASE Verdict \/ FinalizeResult \/ ClearActiveGoal
    BY <2>6 DEF Verdict, FinalizeResult, ClearActiveGoal
  <2> QED BY <2>1, <2>2, <2>3, <2>4, <2>5, <2>6 DEF Work
<1>6. worker'.pc \in {"none"} \cup Running \cup Ending
  BY <1>2 DEF Running, Ending
<1>7. worker.pc \in Running => At("none")' \/ Told'
  BY <1>5, <1>6 DEF Told, ShouldStop, At, Running, Ending
<1> QED BY <1>3, <1>4, <1>7 DEF Told

\* Of the end of a stopped or canceled goal all but the fairness, and how far
\* off it is.  A worker that was told to stop stays told until it is gone, each
\* phase it leaves brings it closer, and it has no more than eight to leave: no
\* further iteration, no lifecycle transition, no new goal and nothing the
\* navigator does, or does not do, takes it back.
THEOREM StopIsNear ==
    Spec => [][Told => /\ At("none")' \/ Told'
                       /\ PhasesLeft' \in 0 .. PhasesLeft
                       /\ PhasesLeft <= 8
                       /\ Work => PhasesLeft' # PhasesLeft]_vars
<1>1. ASSUME Inv, Next, Told
      PROVE  /\ At("none")' \/ Told'
             /\ PhasesLeft' \in 0 .. PhasesLeft
             /\ PhasesLeft <= 8
             /\ Work => PhasesLeft' # PhasesLeft
  <2>1. PhasesLeft \in 0 .. 8
    BY DEF PhasesLeft
  <2>2. CASE Work \/ Throw
    <3>1. PhasesLeft' \in 0 .. PhasesLeft - 1 /\ (At("none")' \/ Told')
      BY <1>1, <2>2, ToldGoesOn DEF Inv
    <3> QED BY <2>1, <3>1
  <2>3. CASE Environment /\ ~Work
    <3>1. Told' /\ worker' = worker
      BY <1>1, <2>3, ToldByOthers DEF Inv
    <3>2. PhasesLeft' = PhasesLeft
      BY <3>1 DEF PhasesLeft, At
    <3> QED BY <2>1, <2>3, <3>1, <3>2
  <2> QED BY <1>1, <2>2, <2>3, Sides
<1>2. Inv /\ [Next]_vars =>
        [Told => /\ At("none")' \/ Told'
                 /\ PhasesLeft' \in 0 .. PhasesLeft
                 /\ PhasesLeft <= 8
                 /\ Work => PhasesLeft' # PhasesLeft]_vars
  BY <1>1
<1> QED BY <1>2, Invariance, PTL DEF Spec
=============================================================================
