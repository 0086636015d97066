----------------------------- MODULE BringupProofs -----------------------------
(***************************************************************************)
(* Proofs about Bringup: for any number of nodes, any number of lives of   *)
(* the manager and any loss, delay or refusal, the stack comes up in order *)
(* and the initial pose is published last.                                 *)
(*                                                                         *)
(* The argument: a node that is up stays up, or is known to have died, so  *)
(* what the manager saw of the nodes behind it still holds when a request  *)
(* of its is executed late, even after its process is gone.                *)
(***************************************************************************)
EXTENDS Bringup, TLAPS

\* What a request promises about the nodes before its own.
RequestsInOrder == \A r \in requests : \A m \in 1 .. r.to - 1 : Up(m)

\* What the thread knows of the nodes behind it.
ThreadInOrder == \A m \in 1 .. at - 1 : Up(m)

\* It works on a node until none is left.
ThreadPlace ==
    /\ pc \in {"clients", "send", "answer", "state"} => at \in Nodes
    /\ pc \in {"delay", "pose"} => at = N + 1

IInv ==
    /\ TypeOK
    /\ ThreadPlace
    /\ RequestsInOrder
    /\ ThreadInOrder
    /\ StartedInOrder
    /\ PoseComesLast

Transitions == [to : Nodes, target : {"inactive", "active"}, by : Nat]

-----------------------------------------------------------------------------
\* A node that is up leaves "active" only by dying.
LEMMA UpIsKept ==
    ASSUME TypeOK, [Next]_vars, NEW n \in Nodes, Up(n)
    PROVE  Up(n)'
<1>1. ASSUME NEW k \in Nodes, NodeStarts(k) PROVE Up(n)'
  BY <1>1 DEF NodeStarts, Up, TypeOK
<1>2. ASSUME NEW k \in Nodes, NodeDies(k) PROVE Up(n)'
  BY <1>2 DEF NodeDies, Up, TypeOK
<1>3. ASSUME NEW r \in requests, ExecuteTransition(r) PROVE Up(n)'
  BY <1>3 DEF ExecuteTransition, From, Up, TypeOK
<1>4. CASE UNCHANGED stack
  BY <1>4 DEF stack, Up
<1>5. RunBringup => UNCHANGED stack
  BY DEF RunBringup, NextNode, WaitForServiceClients, RequestTransition, stack,
         ReceiveAnswer, AnswerTimesOut, PollState, Delay, PublishInitialPose
<1>6. SpinEnds \/ RequestShutdown \/ Join \/ ManagerDies \/ ManagerStarts
        => UNCHANGED stack
  BY DEF SpinEnds, RequestShutdown, Join, ManagerDies, ManagerStarts
<1>7. UNCHANGED vars => UNCHANGED stack
  BY DEF vars
<1> QED  BY <1>1, <1>2, <1>3, <1>4, <1>5, <1>6, <1>7 DEF Next

LEMMA FirstPlace == N \in Nat /\ 1 \in 1 .. N + 1
  BY BringupAssumption

\* The state of Bringup is of its type.
LEMMA TypeInit ==
    ASSUME Init
    PROVE  TypeOK /\ ThreadPlace
<1>2. node \in [Nodes -> NodeStates]
  BY DEF Init, NodeStates
<1>3. /\ crashed \subseteq Nodes
      /\ requests \subseteq Transitions
      /\ answers \subseteq [request : Transitions, success : BOOLEAN]
  BY DEF Init
<1> QED  BY FirstPlace, <1>2, <1>3 DEF Init, TypeOK, ThreadPlace, Transitions

LEMMA TypeNext ==
    ASSUME TypeOK, ThreadPlace, [Next]_vars
    PROVE  TypeOK' /\ ThreadPlace'
<1> USE BringupAssumption DEF TypeOK, ThreadPlace
<1>1. ASSUME NEW n \in Nodes, NodeStarts(n) PROVE TypeOK' /\ ThreadPlace'
  BY <1>1 DEF NodeStarts, services, process, thread, NodeStates
<1>2. ASSUME NEW n \in Nodes, NodeDies(n) PROVE TypeOK' /\ ThreadPlace'
  BY <1>2 DEF NodeDies, process, thread, NodeStates
<1>3. ASSUME NEW r \in requests, ExecuteTransition(r) PROVE TypeOK' /\ ThreadPlace'
  <2>1. r \in Transitions
    BY DEF Transitions
  <2>2. node' \in [Nodes -> NodeStates]
    BY <1>3, <2>1 DEF ExecuteTransition, Transitions, NodeStates
  <2>3. requests' \subseteq Transitions
    BY <1>3 DEF ExecuteTransition, Transitions
  <2>4. ASSUME NEW success \in BOOLEAN
        PROVE  [request |-> r, success |-> success] \in [request : Transitions, success : BOOLEAN]
    BY <2>1
  <2>5. answers' \subseteq [request : Transitions, success : BOOLEAN]
    BY <1>3, <2>4 DEF ExecuteTransition, Respond, Transitions
  <2> QED  BY <1>3, <2>2, <2>3, <2>5 DEF ExecuteTransition, Transitions, process, thread
<1>4. CASE NextNode
  BY <1>4 DEF NextNode, stack, services, process, Nodes
<1>5. CASE WaitForServiceClients
  BY <1>5 DEF WaitForServiceClients, Return, stack, services, process
<1>6. CASE RequestTransition
  <2>1. at \in Nodes
    BY <1>6 DEF RequestTransition
  <2>2. Request(at, goal) \in Transitions
    BY <2>1 DEF Request, Transitions
  <2>3. requests' \subseteq Transitions
    BY <1>6, <2>2 DEF RequestTransition, Transitions
  <2> QED  BY <1>6, <2>1, <2>3 DEF RequestTransition, Transitions, stack, process
<1>7. CASE ReceiveAnswer
  BY <1>7 DEF ReceiveAnswer, Return, stack, process
<1>8. CASE AnswerTimesOut
  BY <1>8 DEF AnswerTimesOut, Return, stack, services, process
<1>9. CASE PollState
  <2>1. at \in Nodes /\ at \in Int /\ at + 1 \in 1 .. N + 1
    BY <1>9 DEF PollState, Nodes
  <2>2. at' \in 1 .. N + 1 /\ polls' \in Nat /\ goal' \in {"inactive", "active"}
    BY <1>9, <2>1 DEF PollState, Return
  <2>3. pc' \in {"done", "state", "send", "node"} /\ (pc' \in {"state", "send"} => at' = at)
    BY <1>9 DEF PollState, Return
  <2> QED  BY <1>9, <2>1, <2>2, <2>3 DEF PollState, stack, services, process
<1>10. CASE Delay
  BY <1>10 DEF Delay, stack, services, process
<1>11. CASE PublishInitialPose
  BY <1>11 DEF PublishInitialPose, Return, stack, services, process
<1>12. CASE SpinEnds \/ RequestShutdown \/ Join \/ ManagerDies
  BY <1>12 DEF SpinEnds, RequestShutdown, Join, ManagerDies, stack, services, thread
<1>13. CASE ManagerStarts
  <2>1. UNCHANGED <<node, crashed, requests, answers, posted>>
    BY <1>13 DEF ManagerStarts, stack, services
  <2>2. at' \in 1 .. N + 1 /\ life' \in Nat /\ polls' \in Nat
    BY <1>13, FirstPlace DEF ManagerStarts
  <2>3. alive' = TRUE /\ spinning' = TRUE /\ shutdown' = FALSE
    BY <1>13 DEF ManagerStarts
  <2>4. pc' = "node" /\ goal' = "inactive"
    BY <1>13 DEF ManagerStarts
  <2> QED  BY <2>1, <2>2, <2>3, <2>4
<1>14. CASE UNCHANGED vars
  BY <1>14 DEF vars, stack, services, process, thread
<1> HIDE DEF TypeOK, ThreadPlace
<1> QED  BY <1>1, <1>2, <1>3, <1>4, <1>5, <1>6, <1>7, <1>8, <1>9, <1>10, <1>11,
            <1>12, <1>13, <1>14 DEF Next, RunBringup

-----------------------------------------------------------------------------
LEMMA InvInit == Init => IInv
<1> SUFFICES ASSUME Init PROVE IInv
  OBVIOUS
<1>1. RequestsInOrder /\ PoseComesLast
  BY DEF Init, RequestsInOrder, PoseComesLast
<1>2. 1 .. at - 1 = {}
  BY DEF Init
<1>3. StartedInOrder
  BY DEF Init, StartedInOrder
<1> QED  BY TypeInit, <1>1, <1>2, <1>3 DEF IInv, ThreadInOrder

\* A request is only made for the node the thread works on.
LEMMA RequestsNext ==
    ASSUME IInv, [Next]_vars
    PROVE  RequestsInOrder'
<1>1. ASSUME NEW r \in requests, NEW m \in 1 .. r.to - 1 PROVE Up(m)'
  <2>1. r.to \in Nodes
    BY DEF IInv, TypeOK
  <2>2. m \in Nodes
    BY <2>1, FirstPlace DEF Nodes
  <2> QED  BY <1>1, <2>2, UpIsKept DEF IInv, RequestsInOrder
<1>2. requests' \subseteq requests \cup {Request(at, goal)}
  <2>1. CASE \E n \in Nodes : NodeStarts(n) \/ NodeDies(n)
    BY <2>1 DEF NodeStarts, NodeDies, services
  <2>2. CASE \E r \in requests : ExecuteTransition(r)
    BY <2>2 DEF ExecuteTransition
  <2>3. CASE RunBringup
    BY <2>3 DEF RunBringup, NextNode, WaitForServiceClients, RequestTransition,
           ReceiveAnswer, AnswerTimesOut, PollState, Delay, PublishInitialPose, services
  <2>4. CASE SpinEnds \/ RequestShutdown \/ Join \/ ManagerDies \/ ManagerStarts \/ UNCHANGED vars
    BY <2>4 DEF SpinEnds, RequestShutdown, Join, ManagerDies, ManagerStarts, vars, services
  <2> QED  BY <2>1, <2>2, <2>3, <2>4 DEF Next
<1>3. ASSUME NEW m \in 1 .. at - 1 PROVE Up(m)'
  <2>1. m \in Nodes
    BY FirstPlace DEF IInv, TypeOK, Nodes
  <2> QED  BY <2>1, UpIsKept DEF IInv, ThreadInOrder
<1>4. Request(at, goal).to = at
  BY DEF Request
<1> QED  BY <1>1, <1>2, <1>3, <1>4 DEF RequestsInOrder

\* The thread leaves a node behind when it saw it active.
LEMMA ThreadNext ==
    ASSUME IInv, [Next]_vars
    PROVE  ThreadInOrder'
<1>1. ASSUME NEW m \in 1 .. at - 1 PROVE Up(m)'
  <2>1. m \in Nodes
    BY FirstPlace DEF IInv, TypeOK, Nodes
  <2> QED  BY <2>1, UpIsKept DEF IInv, ThreadInOrder
<1>2. CASE at' = at
  BY <1>1, <1>2 DEF ThreadInOrder
<1>3. CASE at' = 1
  BY <1>3 DEF ThreadInOrder
<1>4. CASE PollState /\ at' = at + 1 /\ at' # at
  <2>1. at \in Nodes /\ at \in Int
    BY <1>4 DEF PollState, IInv, ThreadPlace, Nodes
  <2>2. goal = "active" /\ node[at] = "active"
    BY <1>4 DEF PollState, Return, IInv, TypeOK
  <2>3. PICK k \in Nodes : k = at
    BY <2>1
  <2>4. Up(k)
    BY <2>2, <2>3 DEF Up
  <2>5. Up(k)'
    BY <2>4, UpIsKept DEF IInv
  <2>6. \A m \in 1 .. at' - 1 : m \in 1 .. at - 1 \/ m = k
    BY <1>4, <2>1, <2>3
  <2> QED  BY <1>1, <2>5, <2>6 DEF ThreadInOrder
<1>5. at' = at \/ at' = 1 \/ (PollState /\ at' = at + 1)
  <2>1. CASE \E n \in Nodes : NodeStarts(n) \/ NodeDies(n)
    BY <2>1 DEF NodeStarts, NodeDies, thread
  <2>2. CASE \E r \in requests : ExecuteTransition(r)
    BY <2>2 DEF ExecuteTransition, thread
  <2>3. CASE RunBringup /\ ~PollState
    BY <2>3 DEF RunBringup, NextNode, WaitForServiceClients, RequestTransition,
           ReceiveAnswer, AnswerTimesOut, Delay, PublishInitialPose, Return
  <2>4. CASE PollState
    BY <2>4 DEF PollState, Return
  <2>5. CASE SpinEnds \/ RequestShutdown \/ Join \/ ManagerDies \/ ManagerStarts \/ UNCHANGED vars
    BY <2>5 DEF SpinEnds, RequestShutdown, Join, ManagerDies, ManagerStarts, vars, thread
  <2> QED  BY <2>1, <2>2, <2>3, <2>4, <2>5 DEF Next
<1> QED  BY <1>2, <1>3, <1>4, <1>5

\* Only a request takes a node out of unconfigured.
LEMMA StartedNext ==
    ASSUME IInv, [Next]_vars
    PROVE  StartedInOrder'
<1> SUFFICES ASSUME NEW n \in Nodes, node'[n] \in {"inactive", "active"},
                    NEW m \in 1 .. n - 1
             PROVE  Up(m)'
  BY DEF StartedInOrder
<1>1. m \in Nodes
  BY FirstPlace DEF Nodes
<1>2. SUFFICES Up(m)
  BY <1>1, UpIsKept DEF IInv
<1>3. CASE node[n] \in {"inactive", "active"}
  BY <1>3 DEF IInv, StartedInOrder
<1>4. CASE node[n] \notin {"inactive", "active"}
  <2>1. PICK r \in requests : r.to = n
    <3>1. CASE \E k \in Nodes : NodeStarts(k) \/ NodeDies(k)
      BY <3>1, <1>4 DEF NodeStarts, NodeDies, IInv, TypeOK
    <3>2. CASE \E r \in requests : ExecuteTransition(r)
      BY <3>2, <1>4 DEF ExecuteTransition, IInv, TypeOK
    <3>3. CASE RunBringup
      BY <3>3, <1>4 DEF RunBringup, NextNode, WaitForServiceClients, RequestTransition,
             ReceiveAnswer, AnswerTimesOut, PollState, Delay, PublishInitialPose, stack
    <3>4. CASE SpinEnds \/ RequestShutdown \/ Join \/ ManagerDies \/ ManagerStarts \/ UNCHANGED vars
      BY <3>4, <1>4 DEF SpinEnds, RequestShutdown, Join, ManagerDies, ManagerStarts, vars, stack
    <3> QED  BY <3>1, <3>2, <3>3, <3>4 DEF Next
  <2> QED  BY <2>1 DEF IInv, RequestsInOrder
<1> QED  BY <1>3, <1>4

\* The pose is published behind the last node.
LEMMA PoseNext ==
    ASSUME IInv, [Next]_vars
    PROVE  PoseComesLast'
<1> SUFFICES ASSUME posted', NEW n \in Nodes PROVE Up(n)'
  BY DEF PoseComesLast
<1>1. SUFFICES Up(n)
  BY UpIsKept DEF IInv
<1>2. CASE posted
  BY <1>2 DEF IInv, PoseComesLast
<1>3. CASE ~posted
  <2>1. pc = "pose"
    <3>1. CASE \E k \in Nodes : NodeStarts(k) \/ NodeDies(k)
      BY <3>1, <1>3 DEF NodeStarts, NodeDies
    <3>2. CASE \E r \in requests : ExecuteTransition(r)
      BY <3>2, <1>3 DEF ExecuteTransition
    <3>3. CASE RunBringup
      BY <3>3, <1>3 DEF RunBringup, NextNode, WaitForServiceClients, RequestTransition,
             ReceiveAnswer, AnswerTimesOut, PollState, Delay, PublishInitialPose
    <3>4. CASE SpinEnds \/ RequestShutdown \/ Join \/ ManagerDies \/ ManagerStarts \/ UNCHANGED vars
      BY <3>4, <1>3 DEF SpinEnds, RequestShutdown, Join, ManagerDies, ManagerStarts, vars
    <3> QED  BY <3>1, <3>2, <3>3, <3>4 DEF Next
  <2>2. at = N + 1 /\ N \in Nat
    BY <2>1, FirstPlace DEF IInv, ThreadPlace
  <2> QED  BY <2>2 DEF IInv, ThreadInOrder, Nodes
<1> QED  BY <1>2, <1>3

LEMMA InvNext == IInv /\ [Next]_vars => IInv'
<1> SUFFICES ASSUME IInv, [Next]_vars PROVE IInv'
  OBVIOUS
<1>1. TypeOK' /\ ThreadPlace'
  BY TypeNext DEF IInv
<1> QED  BY <1>1, RequestsNext, ThreadNext, StartedNext, PoseNext DEF IInv

\* The inductive invariant of Bringup.
LEMMA Invariance == Spec => []IInv
  BY InvInit, InvNext, PTL DEF Spec

-----------------------------------------------------------------------------
\* However late a request is executed and however often the manager is
\* restarted, no node is configured before those it depends on are active.
THEOREM StackStartsInOrder == Spec => []StartedInOrder
  BY Invariance, PTL DEF IInv

\* The initial pose is only published when every managed node came up.
THEOREM PoseFindsTheStackUp == Spec => []PoseComesLast
  BY Invariance, PTL DEF IInv

-----------------------------------------------------------------------------
\* Every variable of Bringup stays in its type.
THEOREM TypeCorrect == Spec => []TypeOK
  BY Invariance, PTL DEF IInv

-----------------------------------------------------------------------------
(* The end of a manager                                                    *)

\* ~LifecycleManager runs when the executor is done.
ShutdownAfterSpin == shutdown => ~spinning

LEMMA ShutdownOrder == Spec => []ShutdownAfterSpin
<1>1. Init => ShutdownAfterSpin
  BY DEF Init, ShutdownAfterSpin
<1>2. ShutdownAfterSpin /\ [Next]_vars => ShutdownAfterSpin'
  <2> SUFFICES ASSUME ShutdownAfterSpin, [Next]_vars PROVE ShutdownAfterSpin'
    OBVIOUS
  <2>1. CASE UNCHANGED process
    BY <2>1 DEF process, ShutdownAfterSpin
  <2>2. RunBringup => UNCHANGED process
    BY DEF RunBringup, NextNode, WaitForServiceClients, RequestTransition, process,
           ReceiveAnswer, AnswerTimesOut, PollState, Delay, PublishInitialPose
  <2>3. (\E n \in Nodes : NodeStarts(n) \/ NodeDies(n)) => UNCHANGED process
    BY DEF NodeStarts, NodeDies
  <2>4. (\E r \in requests : ExecuteTransition(r)) => UNCHANGED process
    BY DEF ExecuteTransition
  <2>5. SpinEnds \/ RequestShutdown \/ Join \/ ManagerDies \/ ManagerStarts
          => ShutdownAfterSpin'
    BY DEF SpinEnds, RequestShutdown, Join, ManagerDies, ManagerStarts, ShutdownAfterSpin
  <2> QED BY <2>1, <2>2, <2>3, <2>4, <2>5 DEF Next, vars
<1> QED BY <1>1, <1>2, PTL DEF Spec

\* The steps run_bringup takes at most before it returns, once it has been told
\* to: a request may still be sent, its answer times out.
StepsToDone ==
    CASE pc = "done" -> 0
      [] pc \in {"answer", "state", "pose"} -> 1
      [] pc \in {"send", "delay"} -> 2
      [] OTHER -> 3

\* Of the end of a stopped manager all but the fairness.  ~LifecycleManager
\* only has to wait for a few steps of the thread it joins: each step that
\* run_bringup takes after shutdown_requested_ is set brings it closer to its
\* return, nothing else moves it, and there is nothing the nodes can answer, or
\* fail to answer, that sends it back.
THEOREM ShutdownIsNear ==
    Spec => [][shutdown /\ alive =>
                 \/ ~alive'
                 \/ /\ shutdown'
                    /\ StepsToDone' \in 0 .. StepsToDone
                    /\ RunBringup => StepsToDone' # StepsToDone]_vars
<1>1. ASSUME TypeOK, ThreadPlace, ShutdownAfterSpin, Next, shutdown, alive, alive'
      PROVE  /\ shutdown'
             /\ StepsToDone' \in 0 .. StepsToDone
             /\ RunBringup => StepsToDone' # StepsToDone
  <2>1. CASE RunBringup
    <3>1. shutdown' = shutdown
      BY <2>1 DEF RunBringup, NextNode, WaitForServiceClients, RequestTransition, process,
             ReceiveAnswer, AnswerTimesOut, PollState, Delay, PublishInitialPose
    <3>2. \/ pc \in {"node", "clients"} /\ pc' \in {"send", "delay", "done", "answer"}
          \/ pc = "node" /\ pc' \in {"done", "delay"}
          \/ pc = "send" /\ pc' = "answer"
          \/ pc \in {"answer", "state", "pose", "delay"} /\ pc' = "done"
      <4>1. CASE NextNode
        BY <1>1, <4>1 DEF NextNode
      <4>2. CASE WaitForServiceClients
        BY <4>2 DEF WaitForServiceClients, Return
      <4>3. CASE RequestTransition
        BY <4>3 DEF RequestTransition
      <4>4. CASE ReceiveAnswer
        BY <1>1, <4>4 DEF ReceiveAnswer, ShutdownAfterSpin
      <4>5. CASE AnswerTimesOut
        BY <4>5 DEF AnswerTimesOut, Return
      <4>6. CASE PollState
        BY <1>1, <4>6 DEF PollState, Return
      <4>7. CASE Delay
        BY <1>1, <4>7 DEF Delay
      <4>8. CASE PublishInitialPose
        BY <4>8 DEF PublishInitialPose, Return
      <4> QED BY <2>1, <4>1, <4>2, <4>3, <4>4, <4>5, <4>6, <4>7, <4>8 DEF RunBringup
    <3>3. StepsToDone' \in 0 .. StepsToDone /\ StepsToDone' # StepsToDone
      BY <3>2 DEF StepsToDone
    <3> QED BY <1>1, <3>1, <3>3
  <2>2. CASE ~RunBringup
    <3>1. shutdown' /\ pc' = pc
      BY <1>1, <2>2 DEF Next, NodeStarts, NodeDies, ExecuteTransition, SpinEnds,
             RequestShutdown, Join, ManagerDies, ManagerStarts, process, thread
    <3>2. StepsToDone' = StepsToDone /\ StepsToDone \in 0 .. 3
      BY <3>1 DEF StepsToDone
    <3> QED BY <2>2, <3>1, <3>2
  <2> QED BY <2>1, <2>2
<1>2. TypeOK /\ ThreadPlace /\ ShutdownAfterSpin /\ [Next]_vars =>
        [shutdown /\ alive =>
           \/ ~alive'
           \/ /\ shutdown'
              /\ StepsToDone' \in 0 .. StepsToDone
              /\ RunBringup => StepsToDone' # StepsToDone]_vars
  BY <1>1
<1>3. IInv => TypeOK /\ ThreadPlace
  BY DEF IInv
<1> QED BY <1>2, <1>3, Invariance, ShutdownOrder, PTL DEF Spec
=============================================================================
