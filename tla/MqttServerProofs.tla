--------------------------- MODULE MqttServerProofs ---------------------------
(***************************************************************************)
(* Theorems about MqttServer, for any robots, requests and bounds.         *)
(*                                                                         *)
(* Three facts carry each other.  A request that is still with the broker  *)
(* has left no trace in the node or the navigator (QueueInv).  The node    *)
(* follows at most one goal and holds its request_id (Bridge), so          *)
(* result_callback may publish under it, and a cancel reaches that goal.   *)
(* And goals move one way, which keeps the last answer true (AnswerInv).   *)
(* The link appears in none of them, and request_ids may repeat.           *)
(***************************************************************************)
EXTENDS MqttServer, TLAPS

-----------------------------------------------------------------------------
(* Types                                                                   *)

\* The variables that only commands and goals change.
NavigationOK ==
    /\ activeNavigation \in BOOLEAN
    /\ handle \in Requests \cup {NoRequest}
    /\ current \in Ids \cup {NoId}
    /\ goal \in [Requests -> Navigator!Statuses]
    /\ awaiting \subseteq Requests
    /\ following \subseteq Requests

\* The variables of the identity.
IdentityOK ==
    /\ robot \in Robots
    /\ pendingRobot \in Robots \cup {NoRobot}
    /\ switches \in 0..MaxSwitches

\* The variables of the connection.
ConnectionOK ==
    /\ client \in {"null", "down", "up"}
    /\ sessions \subseteq Robots

\* The broker's queues.
QueuesOK ==
    /\ queue \in [Robots -> Seq(Commands)]
    /\ \A b \in Robots : Len(queue[b]) <= MaxQueue

\* What was asked and answered.
HistoryOK ==
    /\ asked \subseteq Requests
    /\ answer \in Answers \cup {NoAnswer}
    /\ sentOnce \in BOOLEAN

\* The parts make up the type invariant.
LEMMA TypeParts ==
    TypeOK <=> NavigationOK /\ IdentityOK /\ ConnectionOK /\ QueuesOK /\ HistoryOK
  BY DEF TypeOK, NavigationOK, IdentityOK, ConnectionOK, QueuesOK, HistoryOK

\* A message with the given parts.
Message(id, v, about) == [request_id |-> id, verdict |-> v, about |-> about]

\* A published answer is the last one, or it was dropped.
LEMMA PublishSays ==
    ASSUME ConnectionOK, IdentityOK, HistoryOK,
           NEW id \in Ids \cup {NoId}, NEW v \in Verdicts \cup CancelVerdicts,
           NEW about \in SUBSET Requests, Publish(id, v, about)
    PROVE  /\ ConnectionOK'
           /\ answer' \in Answers \cup {NoAnswer}
           /\ answer' = answer \/ answer' = Message(id, v, about)
  BY DEF ConnectionOK, IdentityOK, HistoryOK, Publish, PublishPayload, EnsureConnected, Answers,
         Message

\* The answers on other topics keep the types.
LEMMA RespondTypes ==
    ASSUME ConnectionOK, IdentityOK, Respond
    PROVE  ConnectionOK' /\ UNCHANGED answer
  BY DEF ConnectionOK, IdentityOK, Respond, PublishPayload, EnsureConnected

\* Dropping commands from the front of a queue keeps the queues typed.
LEMMA DropTypes ==
    ASSUME QueuesOK, NEW b \in Robots, NEW k \in 0 .. Len(queue[b]),
           queue' = [queue EXCEPT ![b] = SubSeq(@, k + 1, Len(@))]
    PROVE  QueuesOK'
<1> DEFINE rest == SubSeq(queue[b], k + 1, Len(queue[b]))
<1>1. queue[b] \in Seq(Commands) /\ Len(queue[b]) \in Nat /\ k \in Nat
      /\ k <= Len(queue[b]) /\ Len(queue[b]) <= MaxQueue /\ MaxQueue \in Nat
  BY MqttAssumption DEF QueuesOK, MqttAssumption
<1>2. rest \in Seq(Commands) /\ Len(rest) <= MaxQueue
  BY <1>1
<1>3. queue' = [queue EXCEPT ![b] = rest]
  OBVIOUS
<1> HIDE DEF rest
<1> QED BY <1>2, <1>3 DEF QueuesOK

\* How goals move: they are answered while awaited, canceled and ended.
GoalsMove ==
    /\ goal' \in [Requests -> Navigator!Statuses]
    /\ \A q \in Requests :
         \/ goal'[q] = goal[q]
         \/ /\ q \in awaiting /\ goal[q] = "unknown"
            /\ goal'[q] \in {"executing", "rejected"}
         \/ goal[q] \in InFlightStates /\ goal'[q] \in {"canceling"} \cup Ended

\* The navigator moves goals in this way.
LEMMA NavigatorMoves ==
    ASSUME NavigationOK, NavigatorStep
    PROVE  GoalsMove
<1>1. PICK q \in Requests : NavigatorAnswers(q) \/ NavigatorEnds(q)
  BY DEF NavigatorStep
<1>2. \/ /\ q \in awaiting /\ goal[q] = "unknown"
         /\ goal' = [goal EXCEPT ![q] = "executing"]
      \/ /\ q \in awaiting /\ goal[q] = "unknown"
         /\ goal' = [goal EXCEPT ![q] = "rejected"]
      \/ /\ goal[q] \in InFlightStates
         /\ \E outcome \in Ended : goal' = [goal EXCEPT ![q] = outcome]
  BY <1>1 DEF NavigatorAnswers, NavigatorEnds, Navigator!Accept, Navigator!Reject,
     Navigator!Finish, Navigator!Move, Navigator!Outcomes, InFlightStates, Ended
<1>3. {"executing", "rejected"} \cup Ended \subseteq Navigator!Statuses
  BY DEF Navigator!Statuses, Ended
<1> QED BY <1>2, <1>3 DEF GoalsMove, NavigationOK

\* So does a cancel request that the node forwards.
LEMMA CancelMoves ==
    ASSUME NavigationOK, NEW id, HandleCancel(id)
    PROVE  GoalsMove
<1>1. goal' = goal \/ \E q \in Requests :
        goal[q] = "executing" /\ goal' = [goal EXCEPT ![q] = "canceling"]
  BY DEF HandleCancel, NavigationOK
<1>2. "canceling" \in Navigator!Statuses
  BY DEF Navigator!Statuses
<1> QED BY <1>1, <1>2 DEF GoalsMove, NavigationOK, InFlightStates

\* The initial state is well typed.
LEMMA TypeInit == Init => TypeOK
<1> SUFFICES ASSUME Init PROVE TypeOK
  OBVIOUS
<1>1. NavigationOK
  BY DEF Init, NavigationOK, Navigator!Statuses
<1>2. IdentityOK /\ ConnectionOK
  BY MqttAssumption DEF Init, IdentityOK, ConnectionOK, MqttAssumption
<1>3. QueuesOK
  <2>1. <<>> \in Seq(Commands) /\ Len(<<>>) <= MaxQueue
    BY MqttAssumption DEF MqttAssumption
  <2> QED BY <2>1 DEF Init, QueuesOK
<1>4. HistoryOK
  BY DEF Init, HistoryOK
<1> QED BY <1>1, <1>2, <1>3, <1>4, TypeParts

\* Goals of the navigator and outcomes are verdicts.
LEMMA EndedVerdicts == Ended \subseteq Verdicts
  BY DEF Verdicts

-----------------------------------------------------------------------------
(* What a handled command does                                             *)

\* The handling of a navigation command keeps the types and, unless it sends
\* the goal, only answers.
LEMMA NavigationTypes ==
    ASSUME TypeOK, NEW q \in Requests, HandleNavigation(q)
    PROVE  /\ NavigationOK' /\ ConnectionOK' /\ answer' \in Answers \cup {NoAnswer}
           /\ \/ /\ UNCHANGED navigation
                 /\ \E v \in {"invalid", "busy", "unavailable"} :
                      answer' = answer \/ answer' = Message(IdOf[q], v, {q})
              \/ ~activeNavigation /\ Dispatch(q)
<1>1. NavigationOK /\ IdentityOK /\ ConnectionOK /\ HistoryOK
  BY TypeParts
<1>2. IdOf[q] \in Ids \cup {NoId} /\ {q} \in SUBSET Requests
  BY MqttAssumption DEF MqttAssumption
<1>3. ASSUME NEW v \in {"invalid", "busy", "unavailable"}, Refuse(q, v)
      PROVE  /\ NavigationOK' /\ ConnectionOK' /\ answer' \in Answers \cup {NoAnswer}
             /\ UNCHANGED navigation
             /\ answer' = answer \/ answer' = Message(IdOf[q], v, {q})
  <2>1. v \in Verdicts \cup CancelVerdicts
    BY DEF Verdicts
  <2>2. Publish(IdOf[q], v, {q}) /\ UNCHANGED navigation
    BY <1>3 DEF Refuse
  <2>3. NavigationOK'
    BY <1>1, <2>2 DEF NavigationOK, navigation
  <2> QED BY <1>1, <1>2, <2>1, <2>2, <2>3, PublishSays
<1>4. ASSUME ~activeNavigation, Dispatch(q)
      PROVE  NavigationOK' /\ ConnectionOK' /\ answer' \in Answers \cup {NoAnswer}
  BY <1>1, <1>2, <1>4 DEF Dispatch, NavigationOK, ConnectionOK, HistoryOK, connection
<1> QED BY <1>3, <1>4 DEF HandleNavigation

\* A cancel that is answered "dispatched" has reached the goal the node holds;
\* one that is answered "no active goal" found none.
CancelSays ==
    \/ answer' = answer
    \/ \E id \in Ids \cup {NoId} :
         \/ /\ answer' = Message(id, "dispatched", Driving)
            /\ activeNavigation /\ handle \in Requests
            /\ goal'[handle] # "executing"
         \/ /\ answer' = Message(id, "no active goal", Driving)
            /\ ~activeNavigation \/ handle = NoRequest
            /\ UNCHANGED goal

\* The handling of a cancel.
LEMMA CancelTypes ==
    ASSUME TypeOK, NEW id \in Ids \cup {NoId}, HandleCancel(id)
    PROVE  /\ ConnectionOK' /\ answer' \in Answers \cup {NoAnswer}
           /\ CancelSays
<1>1. NavigationOK /\ IdentityOK /\ ConnectionOK /\ HistoryOK
  BY TypeParts
<1>2. Driving \in SUBSET Requests
  BY DEF Driving, InFlight, Navigator!InFlight
<1>3. {"dispatched", "no active goal"} \subseteq Verdicts \cup CancelVerdicts
  BY DEF CancelVerdicts
<1>4. CASE /\ activeNavigation /\ handle # NoRequest
           /\ goal' = IF goal[handle] = "executing"
                      THEN [goal EXCEPT ![handle] = "canceling"] ELSE goal
           /\ Publish(id, "dispatched", Driving)
  <2>1. handle \in Requests /\ goal'[handle] # "executing"
    BY <1>1, <1>4 DEF NavigationOK
  <2> QED BY <1>1, <1>2, <1>3, <1>4, <2>1, PublishSays DEF CancelSays
<1>5. CASE /\ ~activeNavigation \/ handle = NoRequest
           /\ Publish(id, "no active goal", Driving)
           /\ UNCHANGED goal
  BY <1>1, <1>2, <1>3, <1>5, PublishSays DEF CancelSays
<1> QED BY <1>4, <1>5 DEF HandleCancel

\* Every other command keeps the types and says nothing on navigation/result,
\* unless it is a cancel.
LEMMA OtherCommandTypes ==
    ASSUME TypeOK, NEW m \in Commands, m.kind # "navigate", Handle(m)
    PROVE  /\ NavigationOK' /\ ConnectionOK' /\ IdentityOK'
           /\ answer' \in Answers \cup {NoAnswer}
           /\ CancelSays
           /\ UNCHANGED <<activeNavigation, handle, current, awaiting, following>>
           /\ GoalsMove
<1>1. NavigationOK /\ IdentityOK /\ ConnectionOK /\ HistoryOK
  BY TypeParts
<1>2. CASE m.kind = "cancel" /\ HandleCancel(m.request_id) /\ UNCHANGED identity
  <2>1. GoalsMove
    BY <1>1, <1>2, CancelMoves
  <2>2. UNCHANGED <<activeNavigation, handle, current, awaiting, following>>
    BY <1>2 DEF HandleCancel
  <2>3. NavigationOK' /\ IdentityOK'
    BY <1>1, <1>2, <2>1, <2>2 DEF NavigationOK, IdentityOK, GoalsMove, identity
  <2>4. m.request_id \in Ids \cup {NoId}
    BY <1>2 DEF Commands, Stateless
  <2> QED BY <1>2, <2>1, <2>2, <2>3, <2>4, CancelTypes
<1>3. ASSUME UNCHANGED navigation
      PROVE  /\ NavigationOK' /\ GoalsMove
             /\ UNCHANGED <<activeNavigation, handle, current, awaiting, following>>
  BY <1>1, <1>3 DEF NavigationOK, GoalsMove, navigation
<1>4. CASE m.kind = "robot" /\ HandleSetRobotId(m.id) /\ UNCHANGED navigation
  <2>1. m.id \in Robots
    BY <1>4 DEF Commands, Stateless
  <2>2. IdentityOK'
    BY <1>1, <1>4, <2>1, MqttAssumption DEF HandleSetRobotId, IdentityOK, MqttAssumption
  <2>3. ConnectionOK' /\ UNCHANGED answer
    BY <1>1, <1>4, RespondTypes DEF HandleSetRobotId
  <2> QED BY <1>1, <1>3, <1>4, <2>2, <2>3 DEF HistoryOK, CancelSays
<1>5. CASE /\ m.kind \in Stateless /\ HandleStateless(m.kind)
           /\ UNCHANGED <<identity, navigation>>
  <2>1. IdentityOK'
    BY <1>1, <1>5 DEF IdentityOK, identity
  <2>2. ConnectionOK' /\ UNCHANGED answer
    BY <1>1, <1>5, RespondTypes DEF HandleStateless, ConnectionOK, connection
  <2> QED BY <1>1, <1>3, <1>5, <2>1, <2>2 DEF HistoryOK, CancelSays
<1> QED BY <1>2, <1>4, <1>5 DEF Handle

-----------------------------------------------------------------------------
(* The invariant                                                           *)

\* Nothing happened to the request yet.
Unseen(q) ==
    /\ goal[q] = "unknown"
    /\ q \notin awaiting \cup following
    /\ q \notin answer.about

\* The broker holds the command for q at place i of b's queue.
Queued(b, i, q) ==
    /\ i \in DOMAIN queue[b]
    /\ queue[b][i].kind = "navigate"
    /\ queue[b][i].request = q

\* A request that was not asked yet is nowhere; one that waits at the broker
\* waits at one place and has left no trace elsewhere.
QueueInv ==
    /\ \A q \in Requests : q \notin asked =>
          Unseen(q) /\ \A b \in Robots, i \in Nat : ~Queued(b, i, q)
    /\ \A q \in Requests, b \in Robots, i \in Nat : Queued(b, i, q) => Unseen(q)
    /\ \A q \in Requests, b, c \in Robots, i, j \in Nat :
          Queued(b, i, q) /\ Queued(c, j, q) => b = c /\ i = j

\* The node awaits or follows one goal, holds its request_id, and no other.
Bridge ==
    /\ \A q \in Requests : q \in awaiting \cup following =>
          activeNavigation /\ current = IdOf[q]
    /\ \A q, x \in awaiting \cup following : q = x
    /\ activeNavigation => awaiting \cup following # {}
    /\ awaiting \cap following = {}
    /\ \A q \in following : handle = q /\ goal[q] \in InFlightStates \cup Ended
    /\ \A q \in Requests : goal[q] \in InFlightStates => q \in awaiting \cup following

\* What was answered last is true, and who was turned away is not being served.
AnswerInv ==
    /\ TruthfulAnswers
    /\ answer.verdict \in {"invalid", "busy", "unavailable"} =>
          answer.about \cap (awaiting \cup following) = {}

Inv == TypeOK /\ QueueInv /\ Bridge /\ AnswerInv

\* It holds initially.
LEMMA InvInit == Init => Inv
<1> SUFFICES ASSUME Init PROVE Inv
  OBVIOUS
<1>1. QueueInv
  BY DEF Init, QueueInv, Unseen, Queued, NoAnswer
<1>2. Bridge
  BY DEF Init, Bridge, InFlightStates
<1>3. AnswerInv
  BY DEF Init, AnswerInv, TruthfulAnswers, NoAnswer, Verdicts, Ended, Navigator!Outcomes
<1> QED BY <1>1, <1>2, <1>3, TypeInit DEF Inv

\* A queue that drops commands from its front holds no new one.
LEMMA DropQueued ==
    ASSUME QueuesOK, NEW b \in Robots, NEW k \in 0 .. Len(queue[b]),
           queue' = [queue EXCEPT ![b] = SubSeq(@, k + 1, Len(@))],
           NEW c \in Robots, NEW i \in Nat, NEW q, Queued(c, i, q)'
    PROVE  Queued(c, IF c = b THEN i + k ELSE i, q)
<1>1. queue[c] \in Seq(Commands) /\ queue[b] \in Seq(Commands)
  BY DEF QueuesOK
<1>2. CASE c # b
  BY <1>2 DEF Queued, QueuesOK
<1>3. CASE c = b
  <2>1. queue'[b] = SubSeq(queue[b], k + 1, Len(queue[b]))
    BY DEF QueuesOK
  <2>2. i \in DOMAIN queue'[b]
    BY <1>3 DEF Queued
  <2>3. i \in 1 .. Len(queue[b]) - k /\ queue'[b][i] = queue[b][i + k]
    BY <1>1, <2>1, <2>2
  <2>4. i + k \in DOMAIN queue[b]
    BY <1>1, <2>3
  <2> QED BY <1>3, <2>3, <2>4 DEF Queued
<1> QED BY <1>2, <1>3

\* The queues may shrink, as long as what is still queued stays unseen.
LEMMA ShrinkQueues ==
    ASSUME QueuesOK, QueueInv, NEW b \in Robots, NEW k \in 0 .. Len(queue[b]),
           queue' = [queue EXCEPT ![b] = SubSeq(@, k + 1, Len(@))],
           UNCHANGED asked,
           \A q \in Requests :
              \/ Unseen(q) => Unseen(q)'
              \/ q \in asked /\ \A c \in Robots, i \in Nat : ~Queued(c, i, q)'
    PROVE  QueueInv'
<1>1. k \in Nat
  BY DEF QueuesOK
<1>2. ASSUME NEW c \in Robots, NEW i \in Nat, NEW q \in Requests, Queued(c, i, q)'
      PROVE  \E j \in Nat : j = (IF c = b THEN i + k ELSE i) /\ Queued(c, j, q)
  <2>1. Queued(c, IF c = b THEN i + k ELSE i, q)
    BY <1>2, DropQueued
  <2>2. (IF c = b THEN i + k ELSE i) \in Nat
    BY <1>1
  <2> QED BY <2>1, <2>2
<1>3. ASSUME NEW q \in Requests, q \notin asked'
      PROVE  Unseen(q)' /\ \A c \in Robots, i \in Nat : ~Queued(c, i, q)'
  <2>1. Unseen(q) /\ \A c \in Robots, i \in Nat : ~Queued(c, i, q)
    BY <1>3 DEF QueueInv
  <2> QED BY <1>2, <1>3, <2>1
<1>4. ASSUME NEW q \in Requests, NEW c \in Robots, NEW i \in Nat, Queued(c, i, q)'
      PROVE  Unseen(q)'
  <2>1. Unseen(q)
    BY <1>2, <1>4 DEF QueueInv
  <2> QED BY <1>4, <2>1
<1>5. ASSUME NEW q \in Requests, NEW c \in Robots, NEW d \in Robots,
             NEW i \in Nat, NEW j \in Nat, Queued(c, i, q)', Queued(d, j, q)'
      PROVE  c = d /\ i = j
  <2>1. PICK x \in Nat : x = (IF c = b THEN i + k ELSE i) /\ Queued(c, x, q)
    BY <1>2, <1>5
  <2>2. PICK y \in Nat : y = (IF d = b THEN j + k ELSE j) /\ Queued(d, y, q)
    BY <1>2, <1>5
  <2>3. c = d /\ x = y
    BY <2>1, <2>2 DEF QueueInv
  <2> QED BY <1>1, <2>1, <2>2, <2>3
<1> QED BY <1>3, <1>4, <1>5 DEF QueueInv

\* In particular they may stay as they are.
LEMMA SameQueues ==
    ASSUME QueuesOK, QueueInv, UNCHANGED <<queue, asked>>,
           \A q \in Requests : Unseen(q) => Unseen(q)'
    PROVE  QueueInv'
  BY DEF QueueInv, Queued

\* The movement of goals that the node is busy with, and what it says to a cancel,
\* keep the invariant's other parts.
LEMMA GoalsMoveInv ==
    ASSUME TypeOK, Bridge, AnswerInv, GoalsMove, CancelSays,
           UNCHANGED <<activeNavigation, handle, current, awaiting, following>>
    PROVE  /\ Bridge' /\ AnswerInv'
           /\ \A q \in Requests : Unseen(q) => Unseen(q)'
<1>1. InFlightStates \cap Ended = {} /\ "unknown" \notin InFlightStates \cup Ended
      /\ "rejected" \notin InFlightStates \cup Ended
      /\ {"executing", "canceling"} = InFlightStates
  BY DEF InFlightStates, Ended, Navigator!Outcomes
<1>2. Bridge'
  <2>1. following \subseteq Requests /\ awaiting \subseteq Requests
    BY DEF TypeOK
  <2>2. \A q \in following : handle' = q /\ goal'[q] \in InFlightStates \cup Ended
    BY <1>1, <2>1 DEF Bridge, GoalsMove
  <2>3. \A q \in Requests : goal'[q] \in InFlightStates => q \in awaiting \cup following
    BY <1>1 DEF Bridge, GoalsMove
  <2> QED BY <2>2, <2>3 DEF Bridge
<1>3. ASSUME answer' = answer PROVE AnswerInv'
  <2>1. answer.about \subseteq Requests
    BY DEF TypeOK, Answers, NoAnswer
  <2>2. \A q \in answer.about :
          /\ goal[q] \in Ended \cup {"rejected"} => goal'[q] = goal[q]
          /\ goal[q] \in InFlightStates => goal'[q] \in InFlightStates \cup Ended
          /\ goal[q] = "canceling" => goal'[q] \in {"canceling"} \cup Ended
          /\ goal[q] = "unknown" /\ q \notin awaiting => goal'[q] = "unknown"
    BY <1>1, <2>1 DEF GoalsMove
  <2>3. answer.verdict \in {"invalid", "busy", "unavailable"} =>
          \A q \in answer.about : q \notin awaiting
    BY DEF AnswerInv
  <2>4. TruthfulAnswers'
    BY <1>3, <2>2, <2>3 DEF AnswerInv, TruthfulAnswers
  <2> QED BY <1>3, <2>4 DEF AnswerInv
<1>4. {"dispatched", "no active goal"} \cap Verdicts = {}
  BY DEF Verdicts, Ended, Navigator!Outcomes
<1>5. \A q \in Driving : q \in following /\ q \in Requests /\ goal[q] \in InFlightStates
  BY <1>1 DEF Driving, InFlight, Navigator!InFlight, Bridge
<1>6. ASSUME NEW id \in Ids \cup {NoId}, answer' = Message(id, "dispatched", Driving),
             goal'[handle] # "executing"
      PROVE  AnswerInv'
  <2>1. \A q \in Driving : goal'[q] \in {"canceling"} \cup Ended
    BY <1>1, <1>5, <1>6 DEF Bridge, GoalsMove
  <2> QED BY <1>4, <1>6, <2>1 DEF AnswerInv, TruthfulAnswers, Message
<1>7. ASSUME NEW id \in Ids \cup {NoId}, answer' = Message(id, "no active goal", Driving),
             ~activeNavigation \/ handle = NoRequest
      PROVE  AnswerInv'
  <2>1. Driving = {}
    BY <1>5, <1>7, MqttAssumption DEF Bridge, MqttAssumption
  <2> QED BY <1>4, <1>7, <2>1 DEF AnswerInv, TruthfulAnswers, Message
<1>8. AnswerInv'
  BY <1>3, <1>6, <1>7 DEF CancelSays
<1>9. ASSUME NEW q \in Requests, Unseen(q) PROVE Unseen(q)'
  <2>1. q \notin Driving /\ q \notin answer.about
    BY <1>1, <1>5, <1>9 DEF Unseen
  <2>2. answer'.about \in {answer.about, Driving}
    <3>1. ASSUME NEW id \in Ids \cup {NoId}, NEW v, answer' = Message(id, v, Driving)
          PROVE  answer'.about = Driving
      BY <3>1 DEF Message
    <3> QED BY <3>1 DEF CancelSays
  <2>3. q \notin answer'.about
    BY <2>1, <2>2
  <2> QED BY <1>1, <1>9, <2>3 DEF GoalsMove, Unseen
<1> QED BY <1>2, <1>8, <1>9

-----------------------------------------------------------------------------
(* Every step keeps the invariant                                          *)

\* The connection, the identity and the telemetry leave goals and answers alone.
LEMMA QuietInv ==
    ASSUME Inv, TypeOK',
           UNCHANGED <<navigation, asked, answer>>,
           \E b \in Robots, k \in Nat :
              /\ k \in 0 .. Len(queue[b])
              /\ queue' = [queue EXCEPT ![b] = SubSeq(@, k + 1, Len(@))]
    PROVE  Inv'
<1>1. \A q \in Requests : Unseen(q) => Unseen(q)'
  BY DEF Unseen, navigation
<1>2. QueueInv'
  BY <1>1, ShrinkQueues, TypeParts DEF Inv
<1>3. Bridge' /\ AnswerInv'
  BY DEF Inv, Bridge, AnswerInv, TruthfulAnswers, navigation
<1> QED BY <1>2, <1>3 DEF Inv

\* Queues that stay as they are drop nothing.
LEMMA DropNothing ==
    ASSUME QueuesOK, UNCHANGED queue
    PROVE  \E b \in Robots, k \in Nat :
              /\ k \in 0 .. Len(queue[b])
              /\ queue' = [queue EXCEPT ![b] = SubSeq(@, k + 1, Len(@))]
<1>1. FirstRobot \in Robots
  BY MqttAssumption DEF MqttAssumption
<1>2. queue[FirstRobot] \in Seq(Commands)
  BY <1>1 DEF QueuesOK
<1>3. /\ 0 \in 0 .. Len(queue[FirstRobot])
      /\ SubSeq(queue[FirstRobot], 0 + 1, Len(queue[FirstRobot])) = queue[FirstRobot]
  BY <1>2
<1>4. queue' = [queue EXCEPT ![FirstRobot] = SubSeq(@, 0 + 1, Len(@))]
  BY <1>3 DEF QueuesOK
<1> QED BY <1>1, <1>3, <1>4

\* The steps that only touch the connection, the identity or the telemetry.
LEMMA ConnectionInv ==
    ASSUME Inv,
           \/ LinkLost \/ ApplyPendingRobotId \/ NavigationTelemetry
           \/ \E endpoint \in Endpoints : Telemetry(endpoint)
           \/ UNCHANGED vars
    PROVE  Inv'
<1>1. NavigationOK /\ IdentityOK /\ ConnectionOK /\ QueuesOK /\ HistoryOK
  BY TypeParts DEF Inv
<1>2. ASSUME UNCHANGED <<identity, queue, navigation, asked, answer>>,
             ConnectionOK', sentOnce' \in BOOLEAN
      PROVE  Inv'
  <2>1. NavigationOK' /\ IdentityOK' /\ QueuesOK' /\ HistoryOK'
    BY <1>1, <1>2 DEF NavigationOK, IdentityOK, QueuesOK, HistoryOK, navigation, identity
  <2>2. TypeOK'
    BY <1>2, <2>1 DEF TypeOK, NavigationOK, IdentityOK, ConnectionOK, QueuesOK, HistoryOK
  <2> QED BY <1>1, <1>2, <2>2, QuietInv, DropNothing
<1>3. CASE LinkLost
  BY <1>1, <1>2, <1>3 DEF LinkLost, ConnectionOK, HistoryOK
<1>4. CASE NavigationTelemetry
  BY <1>1, <1>2, <1>4, RespondTypes DEF NavigationTelemetry, HistoryOK
<1>5. ASSUME NEW endpoint \in Endpoints, Telemetry(endpoint) PROVE Inv'
  BY <1>1, <1>2, <1>5, RespondTypes DEF Telemetry, HistoryOK
<1>6. CASE UNCHANGED vars
  BY <1>1, <1>2, <1>6 DEF vars, connection, ConnectionOK, HistoryOK
<1>7. CASE ApplyPendingRobotId
  <2>1. PICK lost \in 0 .. MaxQueue : LoseReceived(lost)
    BY <1>7 DEF ApplyPendingRobotId
  <2>2. /\ lost \in 0 .. Len(queue[robot]) /\ robot \in Robots /\ lost \in Nat
        /\ queue' = [queue EXCEPT ![robot] = SubSeq(@, lost + 1, Len(@))]
    BY <1>1, <2>1 DEF LoseReceived, IdentityOK
  <2>3. QueuesOK'
    BY <1>1, <2>2, DropTypes
  <2>4. IdentityOK' /\ ConnectionOK'
    BY <1>1, <1>7 DEF ApplyPendingRobotId, Connect, IdentityOK, ConnectionOK
  <2>5. UNCHANGED <<navigation, asked, answer, sentOnce>>
    BY <1>7 DEF ApplyPendingRobotId
  <2>6. NavigationOK' /\ HistoryOK'
    BY <1>1, <2>5 DEF NavigationOK, HistoryOK, navigation
  <2>7. TypeOK'
    BY <2>3, <2>4, <2>6 DEF TypeOK, NavigationOK, IdentityOK, ConnectionOK, QueuesOK, HistoryOK
  <2> QED BY <2>2, <2>5, <2>7, QuietInv
<1> QED BY <1>3, <1>4, <1>5, <1>6, <1>7

\* A command that joins a queue is at its end.
LEMMA AppendQueued ==
    ASSUME QueuesOK, NEW b \in Robots, NEW m \in Commands,
           queue' = [queue EXCEPT ![b] = Append(@, m)],
           NEW c \in Robots, NEW i \in Nat, NEW q, Queued(c, i, q)'
    PROVE  \/ Queued(c, i, q)
           \/ /\ c = b /\ i = Len(queue[b]) + 1
              /\ m.kind = "navigate" /\ m.request = q
<1>1. queue[b] \in Seq(Commands)
  BY DEF QueuesOK
<1>2. CASE c # b
  BY <1>2 DEF Queued, QueuesOK
<1>3. CASE c = b
  <2>1. queue'[b] = Append(queue[b], m)
    BY DEF QueuesOK
  <2>2. i \in 1 .. Len(queue[b]) + 1
    BY <1>1, <1>3, <2>1 DEF Queued
  <2>3. CASE i = Len(queue[b]) + 1
    BY <1>1, <1>3, <2>1, <2>3 DEF Queued
  <2>4. CASE i \in 1 .. Len(queue[b])
    <3>1. queue'[b][i] = queue[b][i] /\ i \in DOMAIN queue[b]
      BY <1>1, <2>1, <2>4
    <3> QED BY <1>3, <3>1 DEF Queued
  <2> QED BY <1>1, <2>2, <2>3, <2>4
<1> QED BY <1>2, <1>3

\* A client's command: a request is asked once.
LEMMA AskInv ==
    ASSUME Inv, NEW b \in Robots, NEW m \in Commands, Ask(b, m)
    PROVE  Inv'
<1>1. NavigationOK /\ IdentityOK /\ ConnectionOK /\ QueuesOK /\ HistoryOK
  BY TypeParts DEF Inv
<1>2. /\ UNCHANGED <<identity, connection, sentOnce, navigation, answer>>
      /\ queue' = [queue EXCEPT ![b] = Append(@, m)]
      /\ Len(queue[b]) < MaxQueue
  BY DEF Ask
<1>3. m.kind = "navigate" => m.request \in Requests
  BY DEF Commands, Stateless
<1>4. IF m.kind = "navigate"
      THEN m.request \notin asked /\ asked' = asked \cup {m.request}
      ELSE UNCHANGED asked
  BY DEF Ask
<1>5. TypeOK'
  <2>1. QueuesOK'
    <3>1. queue[b] \in Seq(Commands) /\ MaxQueue \in Nat
      BY <1>1, MqttAssumption DEF QueuesOK, MqttAssumption
    <3>2. Append(queue[b], m) \in Seq(Commands) /\ Len(Append(queue[b], m)) <= MaxQueue
      BY <1>2, <3>1
    <3> QED BY <1>1, <1>2, <3>2 DEF QueuesOK
  <2>2. NavigationOK' /\ IdentityOK' /\ ConnectionOK'
    BY <1>1, <1>2 DEF NavigationOK, IdentityOK, ConnectionOK, navigation, identity, connection
  <2>3. HistoryOK'
    BY <1>1, <1>2, <1>3, <1>4 DEF HistoryOK
  <2> QED BY <2>1, <2>2, <2>3 DEF TypeOK, NavigationOK, IdentityOK, ConnectionOK,
             QueuesOK, HistoryOK
<1>6. \A q \in Requests : Unseen(q)' <=> Unseen(q)
  BY <1>2 DEF Unseen, navigation
<1>8. ASSUME NEW q \in Requests, NEW c \in Robots, NEW i \in Nat, Queued(c, i, q)'
      PROVE  \/ Queued(c, i, q)
             \/ /\ c = b /\ i = Len(queue[b]) + 1
                /\ m.kind = "navigate" /\ m.request = q /\ q \notin asked
  <2>1. \/ Queued(c, i, q)
        \/ /\ c = b /\ i = Len(queue[b]) + 1
           /\ m.kind = "navigate" /\ m.request = q
    BY <1>1, <1>2, <1>8, AppendQueued
  <2> QED BY <1>4, <2>1
<1>9. ASSUME NEW q \in Requests, q \notin asked'
      PROVE  Unseen(q)' /\ \A c \in Robots, i \in Nat : ~Queued(c, i, q)'
  <2>1. q \notin asked /\ ~(m.kind = "navigate" /\ m.request = q)
    BY <1>4, <1>9
  <2> QED BY <1>6, <1>8, <2>1 DEF Inv, QueueInv
<1>10. ASSUME NEW q \in Requests, NEW c \in Robots, NEW i \in Nat, Queued(c, i, q)'
       PROVE  Unseen(q)'
  BY <1>6, <1>8, <1>10 DEF Inv, QueueInv
<1>11. ASSUME NEW q \in Requests, NEW c \in Robots, NEW d \in Robots,
              NEW i \in Nat, NEW j \in Nat, Queued(c, i, q)', Queued(d, j, q)'
       PROVE  c = d /\ i = j
  BY <1>8, <1>11 DEF Inv, QueueInv
<1>12. QueueInv'
  BY <1>9, <1>10, <1>11 DEF QueueInv
<1>13. Bridge' /\ AnswerInv'
  BY <1>2 DEF Inv, Bridge, AnswerInv, TruthfulAnswers, navigation
<1> QED BY <1>5, <1>12, <1>13 DEF Inv

\* What is true of a request may be said of it.
Says(q, v) ==
    /\ v \in Ended => goal[q] = v
    /\ v = "rejected" => goal[q] = "rejected"
    /\ v = "accepted" => goal[q] \in InFlightStates \cup Ended
    /\ v \in {"invalid", "busy", "unavailable"} =>
         goal[q] = "unknown" /\ q \notin awaiting \cup following

\* Saying it keeps the answer true while the node follows no new goal.
LEMMA AnswerTrue ==
    ASSUME AnswerInv, UNCHANGED goal, NEW q \in Requests, NEW v \in Verdicts, Says(q, v),
           answer' = answer \/ answer' = Message(IdOf[q], v, {q}),
           awaiting' \cup following' \subseteq awaiting \cup following
    PROVE  AnswerInv'
<1>1. CASE answer' = answer
  BY <1>1 DEF AnswerInv, TruthfulAnswers
<1>2. CASE answer' = Message(IdOf[q], v, {q})
  <2>1. v \notin {"dispatched", "no active goal"}
    BY DEF Verdicts, Ended, Navigator!Outcomes
  <2> QED BY <1>2, <2>1 DEF AnswerInv, TruthfulAnswers, Message, Says
<1> QED BY <1>1, <1>2

\* A navigation command leaves its queue and is refused or sent.
LEMMA PollInv ==
    ASSUME Inv, Poll
    PROVE  Inv'
<1>1. NavigationOK /\ IdentityOK /\ ConnectionOK /\ QueuesOK /\ HistoryOK
  BY TypeParts DEF Inv
<1>2. UNCHANGED <<sentOnce, asked>>
  BY DEF Poll
<1>3. CASE /\ EnsureConnected(TRUE)
           /\ UNCHANGED <<identity, queue, navigation, answer>>
  <2>1. ConnectionOK'
    BY <1>1, <1>3 DEF EnsureConnected, ConnectionOK, IdentityOK
  <2>2. NavigationOK' /\ IdentityOK' /\ QueuesOK' /\ HistoryOK'
    BY <1>1, <1>2, <1>3 DEF NavigationOK, IdentityOK, QueuesOK, HistoryOK, navigation, identity
  <2>3. TypeOK'
    BY <2>1, <2>2 DEF TypeOK, NavigationOK, IdentityOK, ConnectionOK, QueuesOK, HistoryOK
  <2> QED BY <1>1, <1>2, <1>3, <2>3, QuietInv, DropNothing
<1>4. ASSUME queue[robot] # <<>>, queue' = [queue EXCEPT ![robot] = Tail(@)],
             NEW m \in Commands, m = Head(queue[robot]), Handle(m)
      PROVE  Inv'
  <2> DEFINE s == queue[robot]
  <2>1. robot \in Robots /\ s \in Seq(Commands) /\ s # <<>>
    BY <1>1, <1>4 DEF QueuesOK, IdentityOK
  <2>2. 1 \in DOMAIN s /\ 1 \in 0 .. Len(s) /\ m = s[1]
    BY <1>4, <2>1
  <2>3. Tail(s) = SubSeq(s, 1 + 1, Len(s))
    BY <2>1
  <2>4. queue' = [queue EXCEPT ![robot] = SubSeq(@, 1 + 1, Len(@))]
    BY <1>4, <2>3
  <2>5. QueuesOK'
    BY <1>1, <2>1, <2>2, <2>4, DropTypes
  <2>6. CASE m.kind # "navigate"
    <3>1. /\ NavigationOK' /\ ConnectionOK' /\ IdentityOK'
          /\ answer' \in Answers \cup {NoAnswer}
          /\ CancelSays
          /\ UNCHANGED <<activeNavigation, handle, current, awaiting, following>>
          /\ GoalsMove
      BY <1>4, <2>6, OtherCommandTypes DEF Inv
    <3>2. HistoryOK'
      BY <1>1, <1>2, <3>1 DEF HistoryOK
    <3>3. TypeOK'
      BY <2>5, <3>1, <3>2 DEF TypeOK, NavigationOK, IdentityOK, ConnectionOK, QueuesOK, HistoryOK
    <3>4. /\ Bridge' /\ AnswerInv'
          /\ \A q \in Requests : Unseen(q) => Unseen(q)'
      BY <3>1, GoalsMoveInv DEF Inv
    <3>5. QueueInv'
      BY <1>1, <1>2, <2>1, <2>2, <2>4, <3>4, ShrinkQueues DEF Inv
    <3> QED BY <3>3, <3>4, <3>5 DEF Inv
  <2>7. CASE m.kind = "navigate"
    <3> DEFINE q == m.request
    <3>1. q \in Requests
      BY <1>4, <2>7 DEF Commands, Stateless
    <3>2. HandleNavigation(q) /\ UNCHANGED identity
      BY <1>4, <2>7 DEF Handle, Stateless
    <3>3. Queued(robot, 1, q)
      BY <2>2, <2>7 DEF Queued
    <3>4. Unseen(q) /\ q \in asked
      BY <2>1, <3>1, <3>3 DEF Inv, QueueInv
    <3>5. ASSUME NEW c \in Robots, NEW i \in Nat PROVE ~Queued(c, i, q)'
      <4> SUFFICES ASSUME Queued(c, i, q)' PROVE FALSE
        OBVIOUS
      <4>1. Queued(c, IF c = robot THEN i + 1 ELSE i, q)
        BY <1>1, <2>1, <2>2, <2>4, DropQueued
      <4>2. (IF c = robot THEN i + 1 ELSE i) \in Nat
        OBVIOUS
      <4>3. c = robot /\ i + 1 = 1
        BY <2>1, <3>1, <3>3, <4>1, <4>2 DEF Inv, QueueInv
      <4>4. i \in DOMAIN queue'[robot] /\ queue'[robot] \in Seq(Commands)
        BY <2>1, <2>5, <4>3 DEF Queued, QueuesOK
      <4> QED BY <4>3, <4>4
    <3>6. /\ NavigationOK' /\ ConnectionOK' /\ answer' \in Answers \cup {NoAnswer}
          /\ \/ /\ UNCHANGED navigation
                /\ \E v \in {"invalid", "busy", "unavailable"} :
                     answer' = answer \/ answer' = Message(IdOf[q], v, {q})
             \/ ~activeNavigation /\ Dispatch(q)
      BY <3>1, <3>2, NavigationTypes DEF Inv
    <3> HIDE DEF q
    <3>7. TypeOK'
      <4>1. HistoryOK' /\ IdentityOK'
        BY <1>1, <1>2, <3>2, <3>6 DEF HistoryOK, IdentityOK, identity
      <4> QED BY <2>5, <3>6, <4>1 DEF TypeOK, NavigationOK, IdentityOK, ConnectionOK,
                 QueuesOK, HistoryOK
    <3>8. ASSUME \A x \in Requests \ {q} : Unseen(x) => Unseen(x)' PROVE QueueInv'
      BY <1>1, <1>2, <2>1, <2>2, <2>4, <3>4, <3>5, <3>8, ShrinkQueues DEF Inv
    <3>9. ASSUME UNCHANGED navigation, NEW v \in {"invalid", "busy", "unavailable"},
                 answer' = answer \/ answer' = Message(IdOf[q], v, {q})
          PROVE  Inv'
      <4>1. Says(q, v)
        BY <3>4, <3>9 DEF Says, Unseen, Ended, Navigator!Outcomes
      <4>2. AnswerInv'
        BY <3>1, <3>9, <4>1, AnswerTrue DEF Inv, navigation, Verdicts
      <4>3. Bridge'
        BY <3>9 DEF Inv, Bridge, navigation
      <4>4. \A x \in Requests \ {q} : Unseen(x) => Unseen(x)'
        BY <3>9 DEF Unseen, navigation, Message
      <4> QED BY <3>7, <3>8, <4>2, <4>3, <4>4 DEF Inv
    <3>10. CASE ~activeNavigation /\ Dispatch(q)
      <4>1. /\ activeNavigation' /\ current' = IdOf[q] /\ awaiting' = awaiting \cup {q}
            /\ UNCHANGED <<goal, following, answer>>
        BY <3>10 DEF Dispatch
      <4>2. awaiting = {} /\ following = {}
        BY <1>1, <3>10 DEF Inv, Bridge, NavigationOK
      <4>3. goal[q] = "unknown"
        BY <3>4 DEF Unseen
      <4>4. Bridge'
        BY <3>1, <4>1, <4>2, <4>3 DEF Inv, Bridge
      <4>5. AnswerInv'
        <5>1. answer.verdict \in {"invalid", "busy", "unavailable"} => q \notin answer.about
          BY <3>4 DEF Unseen
        <5> QED BY <4>1, <4>2, <4>3, <5>1 DEF Inv, AnswerInv, TruthfulAnswers
      <4>6. \A x \in Requests \ {q} : Unseen(x) => Unseen(x)'
        BY <4>1, <4>2 DEF Unseen
      <4> QED BY <3>7, <3>8, <4>4, <4>5, <4>6 DEF Inv
    <3> QED BY <3>6, <3>9, <3>10
  <2> QED BY <2>6, <2>7
<1>5. queue[robot] # <<>> => Head(queue[robot]) \in Commands
  BY <1>1 DEF QueuesOK, IdentityOK
<1> QED BY <1>3, <1>4, <1>5 DEF Poll

\* The answer and the result of the one goal the node is busy with.
LEMMA GoalInv ==
    ASSUME Inv, NEW q \in Requests, GoalResponse(q) \/ NavigationResult(q)
    PROVE  Inv'
<1>1. NavigationOK /\ IdentityOK /\ ConnectionOK /\ QueuesOK /\ HistoryOK
  BY TypeParts DEF Inv
<1>2. UNCHANGED <<identity, queue, sentOnce, goal, asked>>
  BY DEF GoalResponse, NavigationResult
<1>3. q \in awaiting \cup following /\ activeNavigation /\ current = IdOf[q]
  BY DEF Inv, Bridge, GoalResponse, NavigationResult
<1>4. \A x \in awaiting \cup following : x = q
  BY <1>3 DEF Inv, Bridge
<1>5. IdentityOK' /\ QueuesOK'
  BY <1>1, <1>2 DEF IdentityOK, QueuesOK, identity
<1>6. ASSUME NEW v \in Verdicts, Publish(IdOf[q], v, {q}), NavigationOK', Says(q, v), Bridge',
             awaiting' \cup following' \subseteq awaiting \cup following
      PROVE  Inv'
  <2>1. /\ ConnectionOK' /\ answer' \in Answers \cup {NoAnswer}
        /\ answer' = answer \/ answer' = Message(IdOf[q], v, {q})
    <3>1. IdOf[q] \in Ids \cup {NoId} /\ {q} \in SUBSET Requests
      BY MqttAssumption DEF MqttAssumption
    <3> QED BY <1>1, <1>6, <3>1, PublishSays
  <2>2. HistoryOK'
    BY <1>1, <1>2, <2>1 DEF HistoryOK
  <2>3. TypeOK'
    BY <1>5, <1>6, <2>1, <2>2 DEF TypeOK, NavigationOK, IdentityOK, ConnectionOK,
       QueuesOK, HistoryOK
  <2>4. AnswerInv'
    BY <1>2, <1>6, <2>1, AnswerTrue DEF Inv
  <2>5. ASSUME NEW x \in Requests, Unseen(x) PROVE Unseen(x)'
    BY <1>2, <1>3, <1>6, <2>1, <2>5 DEF Unseen, Message
  <2>6. QueueInv'
    BY <1>1, <1>2, <2>5, SameQueues DEF Inv
  <2> QED BY <1>6, <2>3, <2>4, <2>6 DEF Inv
<1>7. /\ "rejected" \notin InFlightStates \cup Ended /\ InFlightStates \cap Ended = {}
      /\ "accepted" \notin Ended /\ "accepted" \in Verdicts /\ "rejected" \in Verdicts
      /\ Ended \cap {"invalid", "busy", "unavailable", "rejected"} = {}
  BY DEF InFlightStates, Ended, Navigator!Outcomes, Verdicts
<1>8. CASE GoalResponse(q) /\ goal[q] = "rejected"
  <2>1. /\ q \in awaiting /\ awaiting' = awaiting \ {q}
        /\ activeNavigation' = FALSE /\ current' = NoId
        /\ Publish(IdOf[q], "rejected", {q}) /\ UNCHANGED <<handle, following>>
    BY <1>7, <1>8 DEF GoalResponse, Forget
  <2>2. awaiting' = {} /\ following' = {}
    BY <1>4, <2>1 DEF Inv, Bridge
  <2>3. Bridge'
    BY <1>2, <1>4, <1>7, <1>8, <2>1, <2>2 DEF Inv, Bridge
  <2>4. NavigationOK'
    BY <1>1, <1>2, <2>1 DEF NavigationOK
  <2>5. Says(q, "rejected")
    BY <1>7, <1>8 DEF Says
  <2> QED BY <1>6, <1>7, <2>1, <2>2, <2>3, <2>4, <2>5
<1>9. CASE GoalResponse(q) /\ goal[q] # "rejected"
  <2>1. /\ q \in awaiting /\ awaiting' = awaiting \ {q} /\ following' = following \cup {q}
        /\ handle' = q /\ goal[q] \in InFlightStates \cup Ended
        /\ Publish(IdOf[q], "accepted", {q}) /\ UNCHANGED <<activeNavigation, current>>
    BY <1>9 DEF GoalResponse
  <2>2. awaiting' = {} /\ following' = {q}
    BY <1>4, <2>1
  <2>3. Bridge'
    BY <1>2, <1>3, <1>4, <2>1, <2>2 DEF Inv, Bridge
  <2>4. NavigationOK'
    BY <1>1, <1>2, <2>1 DEF NavigationOK
  <2>5. Says(q, "accepted")
    BY <1>7, <2>1 DEF Says
  <2> QED BY <1>3, <1>6, <1>7, <2>1, <2>2, <2>3, <2>4, <2>5
<1>10. CASE NavigationResult(q)
  <2>1. /\ q \in following /\ following' = following \ {q} /\ goal[q] \in Ended
        /\ activeNavigation' = FALSE /\ current' = NoId /\ handle' = NoRequest
        /\ Publish(IdOf[q], goal[q], {q}) /\ UNCHANGED awaiting
    BY <1>3, <1>10 DEF NavigationResult, Forget
  <2>2. awaiting' = {} /\ following' = {}
    BY <1>4, <2>1 DEF Inv, Bridge
  <2>3. Bridge'
    BY <1>2, <1>4, <1>7, <2>1, <2>2 DEF Inv, Bridge
  <2>4. NavigationOK'
    BY <1>1, <1>2, <2>1 DEF NavigationOK
  <2>5. Says(q, goal[q])
    BY <1>7, <2>1 DEF Says
  <2>6. goal[q] \in Verdicts
    BY <2>1, EndedVerdicts
  <2> QED BY <1>6, <2>1, <2>2, <2>3, <2>4, <2>5, <2>6
<1> QED BY <1>8, <1>9, <1>10

\* The navigator's own steps.
LEMMA NavigatorInv ==
    ASSUME Inv, NavigatorStep
    PROVE  Inv'
<1>1. NavigationOK /\ IdentityOK /\ ConnectionOK /\ QueuesOK /\ HistoryOK
  BY TypeParts DEF Inv
<1>2. UNCHANGED <<identity, connection, queue, sentOnce, activeNavigation, handle,
                  current, awaiting, following, asked, answer>>
  BY DEF NavigatorStep
<1>3. GoalsMove
  BY <1>1, NavigatorMoves
<1>4. TypeOK'
  BY <1>1, <1>2, <1>3 DEF TypeOK, NavigationOK, IdentityOK, ConnectionOK, QueuesOK,
     HistoryOK, GoalsMove, identity, connection
<1>5. /\ Bridge' /\ AnswerInv'
      /\ \A q \in Requests : Unseen(q) => Unseen(q)'
  BY <1>2, <1>3, GoalsMoveInv DEF Inv, CancelSays
<1>6. QueueInv'
  BY <1>1, <1>2, <1>5, SameQueues DEF Inv
<1> QED BY <1>4, <1>5, <1>6 DEF Inv

\* The invariant holds always.
LEMMA Invariance == Spec => []Inv
<1>1. Inv /\ [Next]_vars => Inv'
  BY ConnectionInv, AskInv, PollInv, GoalInv, NavigatorInv DEF Next
<1> QED BY <1>1, InvInit, PTL DEF Spec

-----------------------------------------------------------------------------
(* What follows                                                            *)

\* Every variable of the bridge stays in its type.
THEOREM TypeCorrect == Spec => []TypeOK
<1>1. Inv => TypeOK
  BY DEF Inv
<1> QED BY <1>1, Invariance, PTL

\* What was last said on navigation/result is true and stays so until something
\* else is said: of navigation commands and to cancels, whatever is lost on the
\* way, for any request_ids, repeated and empty ones too, and however often the
\* robot id changes.
THEOREM AnswersAreTruthful == Spec => []TruthfulAnswers
<1>1. Inv => TruthfulAnswers
  BY DEF Inv, AnswerInv
<1> QED BY <1>1, Invariance, PTL

\* The node is busy with a goal exactly from its dispatch to its answer, and it
\* never loses one that drives the robot.
THEOREM GoalIsHeld == Spec => []BridgeHoldsItsGoal
<1>1. Inv => BridgeHoldsItsGoal
  BY DEF Inv, Bridge, BridgeHoldsItsGoal, InFlight, Navigator!InFlight, InFlightStates
<1> QED BY <1>1, Invariance, PTL

-----------------------------------------------------------------------------
(* The end of a navigation                                                 *)

\* What a step does to the navigation: it dispatches a goal to an idle bridge,
\* handles an answer, or moves goals and leaves the bridge's own part.
LEMMA NavigationSteps ==
    ASSUME Inv, Next
    PROVE  \/ \E q \in Requests : ~activeNavigation /\ Dispatch(q)
           \/ \E q \in Requests : GoalResponse(q) \/ NavigationResult(q)
           \/ UNCHANGED <<activeNavigation, awaiting, following>> /\ GoalsMove
<1>1. NavigationOK /\ IdentityOK /\ ConnectionOK /\ QueuesOK /\ HistoryOK
  BY TypeParts DEF Inv
<1>2. UNCHANGED goal => GoalsMove
  BY <1>1 DEF NavigationOK, GoalsMove
<1>3. CASE UNCHANGED navigation
  BY <1>2, <1>3 DEF navigation
<1>4. CASE \/ LinkLost \/ ApplyPendingRobotId \/ NavigationTelemetry
           \/ \E endpoint \in Endpoints : Telemetry(endpoint)
           \/ \E b \in Robots, m \in Commands : Ask(b, m)
  BY <1>3, <1>4 DEF LinkLost, ApplyPendingRobotId, NavigationTelemetry, Telemetry, Ask
<1>5. CASE NavigatorStep
  BY <1>1, <1>5, NavigatorMoves DEF NavigatorStep
<1>6. CASE Poll
  <2>1. CASE client # "up"
    BY <1>3, <1>6, <2>1 DEF Poll
  <2>2. CASE client = "up"
    <3>1. queue[robot] # <<>> /\ Handle(Head(queue[robot]))
      BY <1>6, <2>2 DEF Poll
    <3>2. Head(queue[robot]) \in Commands
      <4>1. queue[robot] \in Seq(Commands)
        BY <1>1 DEF IdentityOK, QueuesOK
      <4> QED BY <3>1, <4>1
    <3> DEFINE m == Head(queue[robot])
    <3>3. CASE m.kind = "navigate" /\ HandleNavigation(m.request)
      <4>1. m.request \in Requests
        BY <3>2, <3>3 DEF Commands, Stateless
      <4> QED BY <1>3, <3>3, <4>1, NavigationTypes DEF Inv
    <3>4. CASE HandleCancel(m.request_id)
      BY <1>1, <3>4, CancelMoves DEF HandleCancel
    <3>5. CASE UNCHANGED navigation
      BY <1>3, <3>5
    <3> QED BY <3>1, <3>3, <3>4, <3>5 DEF Handle
  <2> QED BY <2>1, <2>2
<1> QED BY <1>4, <1>5, <1>6 DEF Next

\* The node's navigation was canceled, was rejected or is over.
Leaving(q) ==
    /\ q \in awaiting \cup following
    /\ goal[q] \in {"canceling", "rejected"} \cup Ended

\* What it still has to go through before its last answer: its goal's response,
\* and the end of its goal.
AnswersLeft(q) ==
    (IF q \in awaiting THEN 1 ELSE 0) + (IF goal[q] = "canceling" THEN 1 ELSE 0)

LEMMA EndedIs == Ended = {"succeeded", "canceled", "aborted"}
  BY DEF Ended, Navigator!Outcomes

\* Of the return of a bridge to its clients all but the fairness.  A navigation
\* that is on its way out stays on it until the bridge is free; no command, no
\* loss of the link and no change of the robot id adds to what it waits for, and
\* each callback of its goal, and the end of it, takes one thing off.
THEOREM FreedomIsNear ==
    Spec => [][\A q \in Requests : Leaving(q) =>
                 \/ ~activeNavigation'
                 \/ /\ Leaving(q)'
                    /\ AnswersLeft(q)' \in 0 .. AnswersLeft(q)
                    /\ GoalResponse(q) \/ NavigationResult(q)
                         \/ (NavigatorStep /\ goal[q] = "canceling" /\ NavigatorEnds(q))
                         => AnswersLeft(q)' # AnswersLeft(q)]_vars
<1>1. ASSUME Inv, Next, NEW q \in Requests, Leaving(q), activeNavigation'
      PROVE  /\ Leaving(q)'
             /\ AnswersLeft(q)' \in 0 .. AnswersLeft(q)
             /\ GoalResponse(q) \/ NavigationResult(q)
                  \/ (NavigatorStep /\ goal[q] = "canceling" /\ NavigatorEnds(q))
                  => AnswersLeft(q)' # AnswersLeft(q)
  <2>1. activeNavigation
    BY <1>1 DEF Inv, Bridge, Leaving
  <2>2. ~NavigationResult(q)
    BY <1>1 DEF NavigationResult, Forget
  <2>3. ~\E r \in Requests : ~activeNavigation /\ Dispatch(r)
    BY <2>1
  <2>4. CASE \E r \in Requests : GoalResponse(r) \/ NavigationResult(r)
    <3>1. PICK r \in Requests : GoalResponse(r) \/ NavigationResult(r)
      BY <2>4
    <3>2. r = q
      BY <1>1, <3>1 DEF Inv, Bridge, GoalResponse, NavigationResult, Leaving
    <3>3. /\ GoalResponse(q) /\ q \in awaiting /\ awaiting' = awaiting \ {q} /\ goal' = goal
          /\ following' = following \cup {q}
      BY <1>1, <2>2, <3>1, <3>2 DEF GoalResponse, Forget
    <3>4. AnswersLeft(q)' \in 0 .. AnswersLeft(q) /\ AnswersLeft(q)' # AnswersLeft(q)
      BY <3>3 DEF AnswersLeft
    <3> QED BY <1>1, <3>3, <3>4 DEF Leaving
  <2>5. CASE UNCHANGED <<activeNavigation, awaiting, following>> /\ GoalsMove
    <3>1. \/ goal'[q] = goal[q]
          \/ goal[q] = "canceling" /\ goal'[q] \in {"canceling"} \cup Ended
      BY <1>1, <2>5, EndedIs DEF GoalsMove, Leaving, InFlightStates
    <3>2. Leaving(q)'
      BY <1>1, <2>5, <3>1, EndedIs DEF Leaving
    <3>3. AnswersLeft(q)' \in 0 .. AnswersLeft(q)
      BY <2>5, <3>1 DEF AnswersLeft
    <3>4. ~GoalResponse(q)
      <4> SUFFICES ASSUME GoalResponse(q) PROVE FALSE
        OBVIOUS
      <4>1. q \in awaiting /\ awaiting' = awaiting \ {q}
        BY DEF GoalResponse
      <4> QED BY <2>5, <4>1
    <3>5. goal[q] = "canceling" /\ NavigatorEnds(q) => goal'[q] # "canceling"
      <4> SUFFICES ASSUME goal[q] = "canceling", NavigatorEnds(q) PROVE goal'[q] # "canceling"
        OBVIOUS
      <4>1. goal \in [Requests -> Navigator!Statuses]
        BY <1>1 DEF Inv, TypeOK
      <4>2. PICK outcome \in Ended : goal' = [goal EXCEPT ![q] = outcome]
        BY DEF NavigatorEnds, Navigator!Finish, Navigator!Move, Ended, Navigator!Outcomes
      <4> QED BY <4>1, <4>2, EndedIs
    <3>6. goal[q] = "canceling" /\ NavigatorEnds(q) => AnswersLeft(q)' # AnswersLeft(q)
      BY <2>5, <3>5 DEF AnswersLeft
    <3> QED BY <2>2, <3>2, <3>3, <3>4, <3>6
  <2> QED BY <1>1, <2>3, <2>4, <2>5, NavigationSteps
<1>2. Inv /\ [Next]_vars =>
        [\A q \in Requests : Leaving(q) =>
           \/ ~activeNavigation'
           \/ /\ Leaving(q)'
              /\ AnswersLeft(q)' \in 0 .. AnswersLeft(q)
              /\ GoalResponse(q) \/ NavigationResult(q)
                   \/ (NavigatorStep /\ goal[q] = "canceling" /\ NavigatorEnds(q))
                   => AnswersLeft(q)' # AnswersLeft(q)]_vars
  BY <1>1
<1> QED BY <1>2, Invariance, PTL DEF Spec
=============================================================================
