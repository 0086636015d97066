------------------------ MODULE MotionControllerProofs ------------------------
(***************************************************************************)
(* Proofs about the motion controller, for every number of commands, all   *)
(* confirmation counts and all times.                                      *)
(*                                                                         *)
(* What a status says is compared with the ticks before it.  The invariant *)
(* ties every counter of the controller to those ticks: the blocked streak *)
(* is never longer than the run of ticks with the gate triggered, and not  *)
(* much shorter than the run of those outside a final alignment; the       *)
(* stalled streak is never longer than the run of overdue ticks, or the    *)
(* progress reference has just been renewed.                               *)
(***************************************************************************)
EXTENDS MotionController, TLAPS

HistoryType ==
    [ended : SUBSET (1 .. MaxCommandId),
     gateRun : 0 .. SettleTicks + BlockedConfirm,
     trackRun : 0 .. SettleTicks + BlockedConfirm,
     overdueRun : 0 .. StalledConfirm, confirmed : BOOLEAN]

BlockedType ==
    [latched : BOOLEAN, streak : 0 .. BlockedConfirm, clear : 0 .. BlockedClear - 1]

OutType ==
    [id : 0 .. MaxCommandId, active : BOOLEAN, done : BOOLEAN,
     blocked : BOOLEAN, stalled : BOOLEAN, valid : BOOLEAN]

HoldsType == [align : Ages(AlignTicks), goal : Ages(HoldTicks)]

\* The type invariant, by the types above.
TypeInv ==
    /\ lifecycle \in {"unconfigured", "inactive", "active", "finalized"}
    /\ deactivations \in 0 .. MaxDeactivations
    /\ command \in Commands \cup {NoCommand}
    /\ lastId \in 0 .. MaxCommandId
    /\ plan \in {"none", "empty", "path"}
    /\ settling \in 0 .. SettleTicks
    /\ xyLatched \in BOOLEAN
    /\ holds \in HoldsType
    /\ blocked \in BlockedType
    /\ stalledStreak \in 0 .. StalledConfirm
    /\ progress \in Ages(AllowanceTicks)
    /\ recovery \in Ages(Longest(Durations))
    /\ twist \in {"hold", "drive", "reverse"}
    /\ out \in OutType
    /\ history \in HistoryType

\* Ids grow: nothing carries an id that was not dispatched.
IdsOld ==
    /\ command.id <= lastId
    /\ out.id <= lastId
    /\ \A id \in history.ended : id <= lastId
    /\ out.id = 0 => ~out.blocked /\ ~out.stalled

\* The latch and the blocked streak are the work of the gate.
GateTied ==
    /\ blocked.latched => history.confirmed
    /\ blocked.streak <= history.gateRun

\* While a command lasts, a run of triggered ticks outside a final alignment
\* first uses up the settle time and then grows the streak.
TrackTied ==
    HasCommand =>
        /\ settling + history.trackRun <= SettleTicks \/ settling = 0
        /\ history.trackRun <= SettleTicks + blocked.streak
        /\ blocked.streak = BlockedConfirm => blocked.latched

\* Without a deactivation, the stalled streak is the run of overdue ticks, or
\* the progress reference was renewed in the last tick.
StallTied ==
    deactivations = 0 =>
        /\ stalledStreak <= history.overdueRun \/ progress = 0
        /\ lifecycle # "active" => stalledStreak = 0

Inv ==
    /\ TypeInv
    /\ IdsOld
    /\ CompletionIsFinal
    /\ GateTied
    /\ BlockedIsEarned
    /\ TrackTied
    /\ GateStopsTracking
    /\ StallTied
    /\ StalledIsEarned

-----------------------------------------------------------------------------
(* The values                                                              *)

LEMMA LongestType == Longest(Durations) \in Nat
<1>1. PICK d \in Durations \cup {0} : \A e \in Durations : d >= e
  BY DurationsAssumption
<1>2. Longest(Durations) \in Durations \cup {0}
  BY <1>1, Zenon DEF Longest
<1>3. Durations \cup {0} \subseteq Nat
  BY DurationsAssumption
<1> QED
  BY <1>2, <1>3

LEMMA OlderType ==
    ASSUME NEW limit \in Nat, NEW age \in Ages(limit), NEW lag \in Nat
    PROVE  Older(age, lag, limit) \in Ages(limit)
BY DEF Older, Ages, Least, Off

LEMMA HoldType ==
    ASSUME NEW limit \in Nat, NEW age \in Ages(limit), NEW lag \in Nat,
           NEW condition \in BOOLEAN
    PROVE  Hold(age, condition, lag, limit) \in Ages(limit)
<1>1. Older(age, lag, limit) \in Ages(limit)
  BY OlderType
<1>2. Off \in Ages(limit) /\ 0 \in Ages(limit)
  BY DEF Ages
<1> QED
  BY <1>1, <1>2 DEF Hold

LEMMA RunType ==
    ASSUME NEW limit \in Nat, NEW length \in 0 .. limit, NEW goesOn \in BOOLEAN
    PROVE  Run(length, goesOn, limit) \in 0 .. limit
BY DEF Run, Least

LEMMA NotBlockedType == NotBlocked \in BlockedType
BY ConfirmAssumption DEF NotBlocked, BlockedType

\* What a judgement makes of the latch and its streaks.
LEMMA UpdateBlockedFacts ==
    ASSUME blocked \in BlockedType, NEW candidate \in BOOLEAN
    PROVE  /\ UpdateBlocked(candidate) \in BlockedType
           /\ ~candidate => UpdateBlocked(candidate).streak = 0
           /\ candidate => UpdateBlocked(candidate).streak =
                               Least(blocked.streak + 1, BlockedConfirm)
           /\ UpdateBlocked(candidate).streak = BlockedConfirm
                => UpdateBlocked(candidate).latched
           /\ UpdateBlocked(candidate).latched
                => blocked.latched \/ UpdateBlocked(candidate).streak = BlockedConfirm
<1> DEFINE streak == Least(blocked.streak + 1, BlockedConfirm)
           clear == blocked.clear + 1
<1>1. /\ blocked.streak \in 0 .. BlockedConfirm
      /\ blocked.clear \in 0 .. BlockedClear - 1 /\ blocked.latched \in BOOLEAN
      /\ blocked = [latched |-> blocked.latched, streak |-> blocked.streak,
                    clear |-> blocked.clear]
      /\ BlockedConfirm \in Nat \ {0} /\ BlockedClear \in Nat \ {0}
  BY ConfirmAssumption DEF BlockedType
<1>2. streak \in 0 .. BlockedConfirm /\ clear \in Nat
  BY <1>1 DEF Least
<1>3. CASE candidate
  <2>1. UpdateBlocked(candidate) =
            [latched |-> blocked.latched \/ streak >= BlockedConfirm,
             streak |-> streak, clear |-> 0]
    BY <1>3 DEF UpdateBlocked
  <2> HIDE DEF streak
  <2>2. UpdateBlocked(candidate) \in BlockedType
    BY <1>1, <1>2, <2>1 DEF BlockedType
  <2>3. UpdateBlocked(candidate).streak = streak
    BY <2>1
  <2>4. UpdateBlocked(candidate).latched <=> blocked.latched \/ streak >= BlockedConfirm
    <3> DEFINE l == blocked.latched \/ streak >= BlockedConfirm
    <3>1. UpdateBlocked(candidate).latched = l
      BY <2>1
    <3> HIDE DEF l
    <3>2. UpdateBlocked(candidate).latched <=> l
      BY <3>1
    <3> QED
      BY <3>2 DEF l
  <2>5. streak >= BlockedConfirm <=> streak = BlockedConfirm
    BY <1>1, <1>2
  <2> QED
    BY <1>3, <2>2, <2>3, <2>4, <2>5 DEF streak
<1>4. CASE ~candidate /\ ~blocked.latched
  <2>1. UpdateBlocked(candidate) =
            [latched |-> FALSE, streak |-> 0, clear |-> blocked.clear]
    BY <1>1, <1>4 DEF UpdateBlocked
  <2> QED
    BY <1>1, <1>4, <2>1 DEF BlockedType
<1>5. CASE ~candidate /\ blocked.latched /\ clear >= BlockedClear
  <2>1. UpdateBlocked(candidate) = NotBlocked
    BY <1>5 DEF UpdateBlocked
  <2> QED
    BY <1>1, <1>5, <2>1, NotBlockedType DEF NotBlocked
<1>6. CASE ~candidate /\ blocked.latched /\ ~(clear >= BlockedClear)
  <2>1. UpdateBlocked(candidate) = [latched |-> TRUE, streak |-> 0, clear |-> clear]
    BY <1>1, <1>6 DEF UpdateBlocked
  <2> QED
    BY <1>1, <1>2, <1>6, <2>1 DEF BlockedType
<1> QED
  BY <1>3, <1>4, <1>5, <1>6

-----------------------------------------------------------------------------
(* Ids and completions                                                     *)

LEMMA CommandFacts ==
    ASSUME TypeInv
    PROVE  /\ command.id \in 0 .. MaxCommandId
           /\ HasCommand => command \in Commands /\ command.id # 0
           /\ command.mode = "navigate" => HasCommand
           /\ command.align \in BOOLEAN
           /\ NoCommand.id = 0
<1>1. CASE command = NoCommand
  BY <1>1, BoundsAssumption DEF NoCommand, HasCommand
<1>2. CASE command # NoCommand
  <2>1. command \in Commands
    BY <1>2 DEF TypeInv
  <2>2. command.id \in 1 .. MaxCommandId
    BY <2>1 DEF Commands, RecoveryCommands
  <2>3. command.align \in BOOLEAN
    BY <2>1 DEF Commands, RecoveryCommands
  <2> QED
    BY <1>2, <2>1, <2>2, <2>3, BoundsAssumption DEF HasCommand, NoCommand
<1> QED
  BY <1>1, <1>2

\* Every tick publishes a status of the command it found; if it is a
\* completion, the command is dropped.
LEMMA PublishIds ==
    ASSUME TypeInv, IdsOld, CompletionIsFinal,
           out' \in OutType, out'.id = command.id, history'.ended = Ended,
           UNCHANGED lastId,
           \/ UNCHANGED command /\ (HasCommand => ~out'.done)
           \/ command' = NoCommand,
           out'.id = 0 => ~out'.blocked /\ ~out'.stalled
    PROVE  /\ CompletionIsFinal' /\ IdsOld'
           /\ history'.ended \in SUBSET (1 .. MaxCommandId)
<1>1. /\ command.id \in 0 .. MaxCommandId /\ (HasCommand => command.id # 0)
      /\ NoCommand.id = 0
  BY CommandFacts
<1>2. /\ out.id \in 0 .. MaxCommandId /\ history.ended \in SUBSET (1 .. MaxCommandId)
      /\ lastId \in 0 .. MaxCommandId /\ out.done \in BOOLEAN
  BY DEF TypeInv, OutType, HistoryType
<1>3. history'.ended \in SUBSET (1 .. MaxCommandId)
  BY <1>2, BoundsAssumption DEF Ended
<1>4. command.id \notin history'.ended
  <2>1. CASE HasCommand
    BY <2>1, <1>1, <1>2 DEF CompletionIsFinal, Ended
  <2>2. CASE ~HasCommand
    <3>1. command.id = 0
      BY <2>2, <1>1 DEF HasCommand
    <3> QED
      BY <3>1, <1>3
  <2> QED
    BY <2>1, <2>2
<1>5. CompletionIsFinal'
  <2>1. CASE UNCHANGED command /\ (HasCommand => ~out'.done)
    BY <1>4, <2>1 DEF CompletionIsFinal, HasCommand
  <2>2. CASE command' = NoCommand
    BY <1>4, <2>2 DEF CompletionIsFinal, HasCommand
  <2> QED
    BY <2>1, <2>2
<1>6. command'.id = command.id \/ command'.id = 0
  BY <1>1
<1>7. \A id \in history'.ended : id <= lastId
  BY <1>2 DEF Ended, IdsOld
<1>8. IdsOld'
  BY <1>1, <1>2, <1>6, <1>7 DEF IdsOld
<1> QED
  BY <1>3, <1>5, <1>8

-----------------------------------------------------------------------------
(* The steps                                                               *)

\* A step that touches none of the judgements.
LEMMA QuietInv ==
    ASSUME Inv, UNCHANGED <<command, lastId, blocked, stalledStreak, out, history>>,
           lifecycle' \in {"unconfigured", "inactive", "active", "finalized"},
           deactivations' \in 0 .. MaxDeactivations, plan' \in {"none", "empty", "path"},
           settling' \in {settling, 0}, xyLatched' = xyLatched, holds' \in HoldsType,
           progress' \in Ages(AllowanceTicks), recovery' \in Ages(Longest(Durations)),
           twist' \in {twist, "hold"},
           deactivations' = 0 => /\ deactivations = 0
                                 /\ progress' = progress \/ stalledStreak = 0
                                 /\ lifecycle' # "active" => stalledStreak = 0
    PROVE  Inv'
<1> USE DEF Inv
<1>1. TypeInv'
  BY TimeAssumption DEF TypeInv
<1>2. IdsOld' /\ CompletionIsFinal' /\ GateTied' /\ BlockedIsEarned'
  BY DEF IdsOld, CompletionIsFinal, HasCommand, GateTied, BlockedIsEarned
<1>3. TrackTied' /\ GateStopsTracking'
  BY DEF TrackTied, HasCommand, GateStopsTracking
<1>4. StallTied'
  <2>1. history.overdueRun \in 0 .. StalledConfirm /\ stalledStreak \in 0 .. StalledConfirm
    BY DEF TypeInv, HistoryType
  <2>2. stalledStreak = 0 => stalledStreak <= history.overdueRun
    BY <2>1, ConfirmAssumption
  <2> QED
    BY <2>2 DEF StallTied
<1>5. StalledIsEarned'
  BY DEF StalledIsEarned
<1> QED
  BY <1>1, <1>2, <1>3, <1>4, <1>5

LEMMA HandleMotionCommandInv ==
    ASSUME Inv, HandleMotionCommand
    PROVE  Inv'
<1> USE DEF Inv
<1>1. PICK next \in Commands :
        /\ next.id > lastId /\ command' = next /\ lastId' = next.id
        /\ plan' = IF next.mode = "navigate" THEN "none" ELSE plan
  BY DEF HandleMotionCommand
<1>2. /\ xyLatched' = FALSE /\ holds' = NoHolds /\ progress' = Off /\ recovery' = Off
      /\ settling' = SettleTicks /\ blocked' = NotBlocked /\ stalledStreak' = 0
      /\ history' = [NoHistory EXCEPT !.ended = history.ended]
      /\ UNCHANGED <<node, outputs>>
  BY DEF HandleMotionCommand, ResetGoalChecker, ResetProgressChecker
<1>3. /\ next.id \in 1 .. MaxCommandId /\ lastId \in 0 .. MaxCommandId
      /\ out.id \in 0 .. MaxCommandId /\ history.ended \in SUBSET (1 .. MaxCommandId)
  BY DEF Commands, RecoveryCommands, TypeInv, OutType, HistoryType
<1>4. history' = [ended |-> history.ended, gateRun |-> 0, trackRun |-> 0,
                  overdueRun |-> 0, confirmed |-> FALSE]
  BY <1>2 DEF NoHistory
<1>5. TypeInv'
  <2>1. holds' \in HoldsType /\ progress' \in Ages(AllowanceTicks)
        /\ recovery' \in Ages(Longest(Durations))
    BY <1>2 DEF HoldsType, NoHolds, Ages
  <2>2. history' \in HistoryType
    BY <1>3, <1>4, ConfirmAssumption, TimeAssumption DEF HistoryType
  <2>3. plan' \in {"none", "empty", "path"} /\ settling' \in 0 .. SettleTicks
    BY <1>1, <1>2, TimeAssumption DEF TypeInv
  <2>4. command' \in Commands \cup {NoCommand} /\ lastId' \in 0 .. MaxCommandId
    BY <1>1, <1>3
  <2>5. blocked' \in BlockedType /\ stalledStreak' \in 0 .. StalledConfirm
    BY <1>2, NotBlockedType, ConfirmAssumption
  <2>6. UNCHANGED <<lifecycle, deactivations, twist, out>>
    BY <1>2 DEF node, outputs
  <2> QED
    BY <1>2, <2>1, <2>2, <2>3, <2>4, <2>5, <2>6 DEF TypeInv
<1>6. \A id \in history.ended : id <= lastId /\ id \in Nat
  BY <1>3 DEF IdsOld
<1>7. next.id \notin history.ended /\ next.id # out.id
  BY <1>1, <1>3, <1>6 DEF IdsOld
<1>8. IdsOld' /\ CompletionIsFinal'
  BY <1>1, <1>2, <1>3, <1>4, <1>6, <1>7 DEF IdsOld, CompletionIsFinal, outputs, HasCommand
<1>9. BlockedIsEarned' /\ StalledIsEarned'
  BY <1>1, <1>2, <1>7 DEF BlockedIsEarned, StalledIsEarned, outputs
<1>10. GateTied' /\ TrackTied'
  BY <1>2, <1>4, ConfirmAssumption, TimeAssumption DEF GateTied, TrackTied, NotBlocked
<1>11. GateStopsTracking'
  BY <1>4, ConfirmAssumption, TimeAssumption DEF GateStopsTracking
<1>12. StallTied'
  BY <1>2, <1>4 DEF StallTied
<1> QED
  BY <1>5, <1>8, <1>9, <1>10, <1>11, <1>12

LEMMA WaitForInputsInv ==
    ASSUME Inv, NEW pose \in BOOLEAN, WaitForInputs(pose)
    PROVE  Inv'
<1> USE DEF Inv
<1>1. PICK lag \in Lags :
        /\ progress' = Older(progress, lag, AllowanceTicks)
        /\ recovery' = Older(recovery, lag, Longest(Durations))
        /\ holds' = [align |-> Older(holds.align, lag, AlignTicks),
                     goal |-> Older(holds.goal, lag, HoldTicks)]
  BY DEF WaitForInputs
<1>2. /\ settling' = 0 /\ blocked' = NotBlocked /\ stalledStreak' = 0
      /\ twist' = "hold" /\ lifecycle = "active"
      /\ out' = [id |-> command.id, active |-> HasCommand, done |-> ~HasCommand,
                 blocked |-> FALSE, stalled |-> FALSE, valid |-> FALSE]
      /\ history' = [history EXCEPT !.ended = Ended, !.gateRun = 0, !.trackRun = 0,
                                    !.overdueRun = 0]
      /\ UNCHANGED <<node, command, lastId, plan, xyLatched>>
  BY DEF WaitForInputs, ResetStatusSemantics, Publish
<1>3. /\ out' \in OutType /\ out'.id = command.id /\ ~out'.blocked /\ ~out'.stalled
      /\ (HasCommand => ~out'.done)
  BY <1>2, CommandFacts DEF OutType, HasCommand
<1>4. history'.ended = Ended /\ history'.confirmed = history.confirmed
      /\ history'.gateRun = 0 /\ history'.trackRun = 0 /\ history'.overdueRun = 0
      /\ history' = [ended |-> Ended, gateRun |-> 0, trackRun |-> 0, overdueRun |-> 0,
                     confirmed |-> history.confirmed]
  BY <1>2 DEF TypeInv, HistoryType
<1>5. CompletionIsFinal' /\ IdsOld' /\ history'.ended \in SUBSET (1 .. MaxCommandId)
  BY <1>2, <1>3, <1>4, PublishIds
<1>6. TypeInv'
  <2>1. /\ progress' \in Ages(AllowanceTicks) /\ recovery' \in Ages(Longest(Durations))
        /\ holds' \in HoldsType
    <3>1. /\ progress \in Ages(AllowanceTicks) /\ recovery \in Ages(Longest(Durations))
          /\ holds.align \in Ages(AlignTicks) /\ holds.goal \in Ages(HoldTicks)
          /\ lag \in Nat /\ AllowanceTicks \in Nat /\ AlignTicks \in Nat /\ HoldTicks \in Nat
      BY TimeAssumption DEF TypeInv, HoldsType
    <3> QED
      BY <1>1, <3>1, OlderType, LongestType DEF HoldsType
  <2>2. history' \in HistoryType
    BY <1>4, <1>5, ConfirmAssumption, TimeAssumption DEF HistoryType, TypeInv
  <2> QED
    BY <1>2, <1>3, <2>1, <2>2, NotBlockedType, ConfirmAssumption, TimeAssumption
       DEF TypeInv, node
<1>7. BlockedIsEarned' /\ StalledIsEarned'
  BY <1>3 DEF BlockedIsEarned, StalledIsEarned
<1>8. GateTied' /\ TrackTied' /\ StallTied'
  BY <1>2, <1>4, ConfirmAssumption, TimeAssumption DEF GateTied, TrackTied, StallTied, NotBlocked
<1>9. GateStopsTracking'
  BY <1>2 DEF GateStopsTracking
<1> QED
  BY <1>5, <1>6, <1>7, <1>8, <1>9

\* A tick that completes its command, whatever it leaves of the plan.
LEMMA CompleteInv ==
    ASSUME Inv, NEW planLeft \in {"none", "empty", "path"}, Complete(planLeft),
           UNCHANGED <<node, lastId>>, lifecycle = "active",
           out' \in OutType, out'.id = command.id, HasCommand,
           history'.ended = Ended, history' \in HistoryType
    PROVE  Inv'
<1> USE DEF Inv
<1>1. /\ plan' = planLeft /\ twist' = "hold" /\ command' = NoCommand
      /\ xyLatched' = FALSE /\ holds' = NoHolds /\ progress' = Off /\ recovery' = Off
      /\ settling' = 0 /\ blocked' = NotBlocked /\ stalledStreak' = 0
  BY DEF Complete, ResetGoalChecker, ResetProgressChecker, ResetStatusSemantics
<1>2. out'.id # 0 /\ out'.id # command'.id
  BY <1>1, CommandFacts
<1>3. CompletionIsFinal' /\ IdsOld'
  BY <1>1, <1>2, PublishIds
<1>4. TypeInv'
  <2>1. holds' \in HoldsType /\ progress' \in Ages(AllowanceTicks)
        /\ recovery' \in Ages(Longest(Durations))
    BY <1>1 DEF HoldsType, NoHolds, Ages
  <2>2. UNCHANGED <<lifecycle, deactivations, lastId>>
    BY DEF node
  <2>3. settling' \in 0 .. SettleTicks /\ blocked' \in BlockedType
        /\ stalledStreak' \in 0 .. StalledConfirm
    BY <1>1, NotBlockedType, ConfirmAssumption, TimeAssumption
  <2> QED
    BY <1>1, <2>1, <2>2, <2>3 DEF TypeInv
<1>5. BlockedIsEarned' /\ StalledIsEarned'
  BY <1>2 DEF BlockedIsEarned, StalledIsEarned
<1>6. history'.gateRun \in Nat /\ history'.overdueRun \in Nat
  BY ConfirmAssumption, TimeAssumption DEF HistoryType
<1>7. GateTied' /\ TrackTied' /\ StallTied'
  BY <1>1, <1>6 DEF GateTied, TrackTied, StallTied, NotBlocked, HasCommand
<1>8. GateStopsTracking'
  BY <1>1 DEF GateStopsTracking
<1> QED
  BY <1>3, <1>4, <1>5, <1>7, <1>8

LEMMA RecoverInv ==
    ASSUME Inv, NEW lag \in Lags, NEW arrived \in BOOLEAN, Recover(lag, arrived)
    PROVE  Inv'
<1> USE DEF Inv
<1> DEFINE age == IF recovery = Off THEN 0
                  ELSE Older(recovery, lag, Longest(Durations))
           elapsed == age >= command.duration
           done == CASE command.mode = "backup" ->
                          arrived \/ (command.duration > 0 /\ elapsed)
                     [] command.mode = "spin" -> arrived
                     [] OTHER -> elapsed
<1>1. /\ lifecycle = "active" /\ HasCommand /\ command.mode # "navigate"
      /\ Publish(command.id, TRUE, done, FALSE, FALSE, FALSE)
      /\ IF done
         THEN Complete(plan)
         ELSE /\ recovery' = age
              /\ twist' = IF command.mode = "backup" THEN "reverse" ELSE "hold"
              /\ ResetStatusSemantics
              /\ UNCHANGED <<command, plan, goal, progress>>
      /\ history' = [NoHistory EXCEPT !.ended = Ended]
      /\ UNCHANGED <<node, lastId>>
  BY DEF Recover
<1>2. age \in Ages(Longest(Durations))
  <2>1. recovery \in Ages(Longest(Durations)) /\ lag \in Nat
    BY TimeAssumption DEF TypeInv
  <2> QED
    BY <2>1, OlderType, LongestType DEF Ages
<1>3. done \in BOOLEAN
  <2>1. command \in Commands /\ command.mode \in {"backup", "spin", "wait"}
    BY <1>1, CommandFacts DEF Commands, RecoveryCommands, Modes
  <2>2. CASE command.mode = "backup"
    <3> DEFINE either == arrived \/ (command.duration > 0 /\ elapsed)
    <3>1. done = either
      BY <2>2
    <3>2. either \in BOOLEAN
      OBVIOUS
    <3> QED
      BY <3>1, <3>2, Zenon
  <2>3. CASE command.mode = "spin"
    <3>1. done = arrived
      BY <2>3
    <3> HIDE DEF done
    <3> QED
      BY <3>1
  <2>4. CASE command.mode = "wait"
    <3>1. done = elapsed
      BY <2>4
    <3>2. elapsed \in BOOLEAN
      OBVIOUS
    <3> HIDE DEF done, elapsed
    <3> QED
      BY <3>1, <3>2
  <2> QED
    BY <2>1, <2>2, <2>3, <2>4
<1> HIDE DEF done, age
<1>4. /\ out' = [id |-> command.id, active |-> TRUE, done |-> done, blocked |-> FALSE,
                 stalled |-> FALSE, valid |-> FALSE]
      /\ history' = [ended |-> Ended, gateRun |-> 0, trackRun |-> 0, overdueRun |-> 0,
                     confirmed |-> FALSE]
  BY <1>1 DEF Publish, NoHistory
<1>5. /\ out' \in OutType /\ out'.id = command.id /\ ~out'.blocked /\ ~out'.stalled
      /\ (out'.done <=> done)
  <2>1. command.id \in 0 .. MaxCommandId
    BY CommandFacts
  <2>2. out'.done = done
    BY <1>4
  <2> QED
    BY <1>3, <1>4, <2>1, <2>2 DEF OutType
<1>6. history' \in HistoryType
  <2>1. Ended \in SUBSET (1 .. MaxCommandId)
    BY BoundsAssumption DEF Ended, TypeInv, OutType, HistoryType
  <2> QED
    BY <1>4, <2>1, ConfirmAssumption, TimeAssumption DEF HistoryType
<1>7. CASE done
  <2>1. plan \in {"none", "empty", "path"}
    BY DEF TypeInv
  <2> QED
    BY <1>1, <1>4, <1>5, <1>6, <1>7, <2>1, CompleteInv
<1>8. CASE ~done
  <2>1. /\ recovery' = age /\ twist' \in {"hold", "reverse"}
        /\ settling' = 0 /\ blocked' = NotBlocked /\ stalledStreak' = 0
        /\ UNCHANGED <<command, plan, xyLatched, holds, progress>>
        /\ UNCHANGED <<lifecycle, deactivations, lastId>>
    BY <1>1, <1>8 DEF ResetStatusSemantics, goal, node
  <2>2. CompletionIsFinal' /\ IdsOld'
    BY <1>4, <1>5, <1>8, <2>1, PublishIds
  <2>3. settling' \in 0 .. SettleTicks /\ blocked' \in BlockedType
        /\ stalledStreak' \in 0 .. StalledConfirm /\ twist' \in {"hold", "drive", "reverse"}
        /\ recovery' \in Ages(Longest(Durations))
    BY <1>2, <2>1, NotBlockedType, ConfirmAssumption, TimeAssumption
  <2>4. TypeInv'
    BY <1>5, <1>6, <2>1, <2>3 DEF TypeInv
  <2>5. BlockedIsEarned' /\ StalledIsEarned'
    BY <1>5 DEF BlockedIsEarned, StalledIsEarned
  <2>6. GateTied' /\ TrackTied' /\ StallTied'
    BY <1>4, <2>1, ConfirmAssumption, TimeAssumption
       DEF GateTied, TrackTied, StallTied, NotBlocked
  <2>7. GateStopsTracking'
    BY <2>1 DEF GateStopsTracking
  <2> QED
    BY <2>2, <2>4, <2>5, <2>6, <2>7
<1> QED
  BY <1>7, <1>8, <1>3

\* The heart of the matter: one tick of a navigate command.
LEMMA NavigateInv ==
    ASSUME Inv, NEW lag \in Lags, NEW zone \in Zones, NEW gate \in BOOLEAN,
           NEW moved \in BOOLEAN, NEW steady \in BOOLEAN,
           Navigate(lag, zone, gate, moved, steady)
    PROVE  Inv'
<1> USE DEF Inv
<1> DEFINE align == command.align
           left == IF settling > lag THEN settling - lag ELSE 0
           xy == DistanceReached(zone)
           final == align /\ xy
           held == align /\ (xy \/ zone # "far")
           alignAge == Hold(holds.align, final /\ steady, lag, AlignTicks)
           goalAge == Hold(holds.goal, xy /\ ~align, lag, HoldTicks)
           stable == ~final \/ (steady /\ alignAge >= AlignTicks)
           reached == xy /\ IF align THEN stable ELSE goalAge >= HoldTicks
           candidate == BlockedCandidate(gate, left = 0, held)
           judged == UpdateBlocked(candidate)
           age == Older(progress, lag, AllowanceTicks)
           renewed == progress = Off \/ moved \/ xy
           overdue == /\ ~renewed /\ ~judged.latched /\ left = 0 /\ ~held
                      /\ age >= AllowanceTicks
           streak == IF renewed THEN stalledStreak ELSE UpdateStalled(overdue)
           stalled == overdue /\ streak >= StalledConfirm
           gateRun == Run(history.gateRun, gate, SettleTicks + BlockedConfirm)
           trackRun == Run(history.trackRun, gate /\ ~held, SettleTicks + BlockedConfirm)
           overdueRun == Run(history.overdueRun, overdue, StalledConfirm)
           confirmed == history.confirmed \/ gateRun >= BlockedConfirm
<1>1. /\ lifecycle = "active" /\ command.mode = "navigate" /\ plan # "none"
      /\ Publish(command.id, TRUE, reached, judged.latched, stalled, plan = "path")
      /\ history' = [ended |-> Ended, gateRun |-> gateRun, trackRun |-> trackRun,
                     overdueRun |-> overdueRun, confirmed |-> confirmed]
      /\ IF reached
         THEN Complete("none")
         ELSE /\ settling' = left
              /\ blocked' = judged
              /\ stalledStreak' = streak
              /\ xyLatched' = xy
              /\ holds' = [align |-> alignAge, goal |-> goalAge]
              /\ progress' = IF renewed THEN 0 ELSE age
              /\ twist' \in IF xy \/ judged.latched \/ stalled
                            THEN {"hold"} ELSE {"hold", "drive"}
              /\ UNCHANGED <<command, plan, recovery>>
      /\ UNCHANGED <<node, lastId>>
  BY DEF Navigate, Stable, Renewed, Twists
<1>2. /\ lag \in Nat /\ lag > 0 /\ lag < AllowanceTicks
      /\ SettleTicks \in Nat /\ AllowanceTicks \in Nat
      /\ AlignTicks \in Nat /\ HoldTicks \in Nat
      /\ BlockedConfirm \in Nat \ {0} /\ StalledConfirm \in Nat \ {0}
  BY TimeAssumption, ConfirmAssumption
<1>3. /\ settling \in 0 .. SettleTicks /\ xyLatched \in BOOLEAN
      /\ holds.align \in Ages(AlignTicks) /\ holds.goal \in Ages(HoldTicks)
      /\ blocked \in BlockedType /\ blocked.streak \in 0 .. BlockedConfirm
      /\ stalledStreak \in 0 .. StalledConfirm /\ progress \in Ages(AllowanceTicks)
      /\ history.gateRun \in 0 .. SettleTicks + BlockedConfirm
      /\ history.trackRun \in 0 .. SettleTicks + BlockedConfirm
      /\ history.overdueRun \in 0 .. StalledConfirm
      /\ history.confirmed \in BOOLEAN
  BY DEF TypeInv, HoldsType, BlockedType, HistoryType
<1>4. HasCommand /\ align \in BOOLEAN /\ command.id \in 0 .. MaxCommandId
      /\ command.id # 0
  BY <1>1, CommandFacts
<1>5. left \in 0 .. SettleTicks /\ xy \in BOOLEAN /\ held \in BOOLEAN
  BY <1>2, <1>3, <1>4 DEF DistanceReached
<1>6. left > 0 => settling > 0 /\ left < settling
  BY <1>2, <1>3
<1> HIDE DEF left, xy, held, align
<1>7. final \in BOOLEAN /\ renewed \in BOOLEAN /\ candidate \in BOOLEAN
      /\ (candidate <=> gate /\ left = 0 /\ ~held)
  BY <1>4, <1>5 DEF BlockedCandidate
<1>8. age \in Ages(AllowanceTicks)
  BY <1>2, <1>3, OlderType
<1>9. progress = 0 => age < AllowanceTicks
  BY <1>2 DEF Older, Least, Off
<1>10. alignAge \in Ages(AlignTicks) /\ goalAge \in Ages(HoldTicks)
  <2>1. (final /\ steady) \in BOOLEAN /\ (xy /\ ~align) \in BOOLEAN
    BY <1>4, <1>5
  <2> QED
    BY <1>2, <1>3, <2>1, HoldType
<1>11. reached \in BOOLEAN
  BY <1>4, <1>5
<1> HIDE DEF final, alignAge, goalAge, stable, reached, candidate, age
<1>12. /\ judged \in BlockedType /\ judged.streak \in 0 .. BlockedConfirm
       /\ (~candidate => judged.streak = 0)
       /\ (candidate => judged.streak = Least(blocked.streak + 1, BlockedConfirm))
       /\ (judged.streak = BlockedConfirm => judged.latched)
       /\ (judged.latched => blocked.latched \/ judged.streak = BlockedConfirm)
       /\ judged.latched \in BOOLEAN
  BY <1>3, <1>7, UpdateBlockedFacts DEF BlockedType
<1> HIDE DEF judged
<1>13. overdue \in BOOLEAN /\ (overdue => ~renewed /\ progress # 0)
  <2>1. age >= AllowanceTicks => ~(age < AllowanceTicks)
    BY <1>2, <1>8 DEF Ages, Off
  <2> QED
    BY <1>9, <2>1, Zenon
<1>14. renewed => progress' = 0 \/ reached
  BY <1>1
<1> HIDE DEF renewed, overdue
<1>15. /\ gateRun \in 0 .. SettleTicks + BlockedConfirm
       /\ trackRun \in 0 .. SettleTicks + BlockedConfirm
       /\ overdueRun \in 0 .. StalledConfirm
  <2>1. (gate /\ ~held) \in BOOLEAN
    BY <1>5
  <2>2. SettleTicks + BlockedConfirm \in Nat /\ StalledConfirm \in Nat
    BY <1>2
  <2> QED
    BY <1>3, <1>13, <2>1, <2>2, RunType, Zenon
<1>16. streak \in 0 .. StalledConfirm
  BY <1>2, <1>3 DEF UpdateStalled, Least
<1>17. confirmed \in BOOLEAN /\ stalled \in BOOLEAN
       /\ (confirmed <=> history.confirmed \/ gateRun >= BlockedConfirm)
       /\ (stalled <=> overdue /\ streak >= StalledConfirm)
  BY <1>3, <1>13
\* The counters against the ticks.
<1>18. judged.streak <= gateRun /\ (judged.latched => confirmed)
  <2>1. blocked.streak <= history.gateRun /\ (blocked.latched => history.confirmed)
    BY DEF GateTied
  <2>2. judged.streak <= gateRun
    BY <1>2, <1>3, <1>7, <1>12, <1>15, <2>1 DEF Run, Least
  <2>3. judged.streak = BlockedConfirm => gateRun >= BlockedConfirm
    BY <1>2, <1>12, <1>15, <2>2
  <2> QED
    BY <1>12, <1>17, <2>1, <2>2, <2>3, Zenon
<1>19. /\ left + trackRun <= SettleTicks \/ left = 0
       /\ trackRun <= SettleTicks + judged.streak
  <2>1. /\ settling + history.trackRun <= SettleTicks \/ settling = 0
        /\ history.trackRun <= SettleTicks + blocked.streak
    BY <1>4 DEF TrackTied
  <2>2. CASE ~(gate /\ ~held)
    <3>1. trackRun = 0
      BY <2>2 DEF Run
    <3> QED
      BY <1>2, <1>5, <1>12, <3>1
  <2>3. CASE gate /\ ~held
    <3>1. trackRun = Least(history.trackRun + 1, SettleTicks + BlockedConfirm)
      BY <2>3 DEF Run
    <3> HIDE DEF trackRun
    <3>2. CASE left = 0
      BY <1>2, <1>3, <1>7, <1>12, <2>1, <2>3, <3>1, <3>2 DEF Least
    <3>3. CASE left > 0
      BY <1>2, <1>3, <1>5, <1>6, <1>12, <2>1, <3>1, <3>3 DEF Least
    <3> QED
      BY <1>5, <3>2, <3>3
  <2> QED
    BY <2>2, <2>3
<1>20. deactivations = 0 /\ ~renewed => streak <= overdueRun
  <2>1. deactivations = 0 => stalledStreak <= history.overdueRun \/ progress = 0
    BY DEF StallTied
  <2>2. CASE overdue /\ ~renewed
    <3>1. streak = Least(stalledStreak + 1, StalledConfirm)
          /\ overdueRun = Least(history.overdueRun + 1, StalledConfirm)
      BY <2>2 DEF UpdateStalled, Run
    <3> HIDE DEF streak, overdueRun
    <3> QED
      BY <1>2, <1>3, <1>13, <2>1, <2>2, <3>1 DEF Least
  <2>3. CASE ~overdue /\ ~renewed
    <3>1. streak = 0
      BY <2>3 DEF UpdateStalled
    <3> HIDE DEF streak, overdueRun
    <3> QED
      BY <1>2, <1>15, <3>1
  <2> QED
    BY <1>13, <2>2, <2>3
<1>21. deactivations = 0 /\ stalled => overdueRun = StalledConfirm
  <2> HIDE DEF streak, overdueRun, stalled
  <2> QED
    BY <1>2, <1>13, <1>15, <1>16, <1>17, <1>20
<1> HIDE DEF gateRun, trackRun, overdueRun, confirmed, streak, stalled
<1>22. /\ out' = [id |-> command.id, active |-> TRUE, done |-> reached,
                  blocked |-> judged.latched, stalled |-> stalled,
                  valid |-> (plan = "path")]
       /\ history' = [ended |-> Ended, gateRun |-> gateRun, trackRun |-> trackRun,
                      overdueRun |-> overdueRun, confirmed |-> confirmed]
  BY <1>1 DEF Publish
<1>23. out' \in OutType
  BY <1>4, <1>11, <1>12, <1>17, <1>22 DEF OutType
<1>24. out'.id = command.id /\ out'.done = reached /\ out'.blocked = judged.latched
       /\ out'.stalled = stalled
  BY <1>22
<1>25. /\ history'.ended = Ended /\ history'.gateRun = gateRun
       /\ history'.trackRun = trackRun /\ history'.overdueRun = overdueRun
       /\ history'.confirmed = confirmed
  BY <1>22
<1>26. history' \in HistoryType
  <2>1. Ended \in SUBSET (1 .. MaxCommandId)
    BY BoundsAssumption DEF Ended, TypeInv, OutType, HistoryType
  <2> QED
    BY <1>15, <1>17, <1>22, <2>1 DEF HistoryType
<1>27. CASE reached
  BY <1>1, <1>4, <1>23, <1>24, <1>25, <1>26, <1>27, CompleteInv
<1>28. CASE ~reached
  <2>1. /\ settling' = left /\ blocked' = judged /\ stalledStreak' = streak
        /\ xyLatched' = xy /\ holds' = [align |-> alignAge, goal |-> goalAge]
        /\ progress' = IF renewed THEN 0 ELSE age
        /\ twist' \in IF xy \/ judged.latched \/ stalled
                      THEN {"hold"} ELSE {"hold", "drive"}
        /\ UNCHANGED <<command, plan, recovery, lifecycle, deactivations, lastId>>
    BY <1>1, <1>28 DEF node
  <2>2. ~out'.done
    BY <1>24, <1>28
  <2>3. out'.id # 0
    BY <1>4, <1>24
  <2>4. CompletionIsFinal' /\ IdsOld'
    BY <1>1, <1>23, <1>24, <1>25, <2>1, <2>2, <2>3, PublishIds
  <2>5. TypeInv'
    <3>1. holds' \in HoldsType
      BY <1>10, <2>1 DEF HoldsType
    <3>2. progress' \in Ages(AllowanceTicks)
      BY <1>2, <1>8, <2>1 DEF Ages
    <3>3. twist' \in {"hold", "drive", "reverse"}
      BY <2>1
    <3>4. settling' \in 0 .. SettleTicks /\ xyLatched' \in BOOLEAN
          /\ blocked' \in BlockedType /\ stalledStreak' \in 0 .. StalledConfirm
      BY <1>5, <1>12, <1>16, <2>1
    <3> QED
      BY <1>23, <1>26, <2>1, <3>1, <3>2, <3>3, <3>4 DEF TypeInv
  <2>6. GateTied' /\ BlockedIsEarned'
    BY <1>18, <1>24, <1>25, <2>1 DEF GateTied, BlockedIsEarned
  <2>7. TrackTied'
    BY <1>12, <1>19, <1>25, <2>1 DEF TrackTied
  <2>8. GateStopsTracking'
    <3>1. trackRun = SettleTicks + BlockedConfirm => judged.streak = BlockedConfirm
      BY <1>2, <1>12, <1>15, <1>19
    <3>2. judged.latched => twist' = "hold"
      BY <2>1
    <3> QED
      BY <1>12, <1>25, <3>1, <3>2 DEF GateStopsTracking
  <2>9. StallTied'
    <3>1. renewed => progress' = 0
      BY <2>1
    <3> QED
      BY <1>1, <1>20, <1>25, <2>1, <3>1 DEF StallTied
  <2>10. StalledIsEarned'
    BY <1>21, <1>24, <1>25, <2>1 DEF StalledIsEarned
  <2> QED
    BY <2>4, <2>5, <2>6, <2>7, <2>8, <2>9, <2>10
<1> QED
  BY <1>11, <1>27, <1>28

-----------------------------------------------------------------------------
(* The lifecycle and the specification                                     *)

LEMMA LifecycleInv ==
    ASSUME Inv, Lifecycle \/ HandleLocalPlan
    PROVE  Inv'
<1> USE DEF Inv
<1>1. /\ settling \in 0 .. SettleTicks /\ holds \in HoldsType
      /\ holds.align \in Ages(AlignTicks) /\ holds.goal \in Ages(HoldTicks)
      /\ progress \in Ages(AllowanceTicks) /\ recovery \in Ages(Longest(Durations))
      /\ plan \in {"none", "empty", "path"} /\ deactivations \in 0 .. MaxDeactivations
      /\ lifecycle \in {"unconfigured", "inactive", "active", "finalized"}
  BY DEF TypeInv, HoldsType
<1>2. CASE OnConfigure
  BY <1>1, <1>2, QuietInv
     DEF OnConfigure, goal, semantics, references, outputs, StallTied
<1>3. CASE HandleLocalPlan
  BY <1>1, <1>3, QuietInv
     DEF HandleLocalPlan, node, goal, semantics, references, outputs, StallTied
<1>4. CASE OnDeactivate
  <2>1. deactivations' \in 0 .. MaxDeactivations /\ deactivations' # 0
    BY <1>1, <1>4, BoundsAssumption DEF OnDeactivate
  <2> QED
    BY <1>1, <1>4, <2>1, QuietInv
       DEF OnDeactivate, goal, semantics, references
<1>5. CASE OnActivate
  <2>1. AllowanceTicks \in Nat /\ AlignTicks \in Nat /\ HoldTicks \in Nat
        /\ Longest(Durations) \in Nat
    BY TimeAssumption, LongestType
  <2>2. /\ progress' \in Ages(AllowanceTicks) /\ recovery' \in Ages(Longest(Durations))
        /\ holds' \in HoldsType /\ settling' \in {settling, 0}
    <3>1. CASE UNCHANGED <<settling, references, holds>>
      BY <1>1, <3>1 DEF references
    <3>2. CASE /\ settling' = 0
               /\ progress' = Older(progress, AllowanceTicks, AllowanceTicks)
               /\ recovery' = Older(recovery, Longest(Durations), Longest(Durations))
               /\ holds' = [align |-> Older(holds.align, AlignTicks, AlignTicks),
                            goal |-> Older(holds.goal, HoldTicks, HoldTicks)]
      BY <1>1, <2>1, <3>2, OlderType DEF HoldsType
    <3> QED
      BY <1>5, <3>1, <3>2 DEF OnActivate
  <2>3. deactivations = 0 => stalledStreak = 0
    BY <1>5 DEF OnActivate, StallTied
  <2> QED
    BY <1>1, <1>5, <2>2, <2>3, QuietInv DEF OnActivate, outputs
<1>6. CASE OnCleanup \/ OnShutdown
  <2>1. PICK to \in {"unconfigured", "finalized"} : ReleaseResources(to)
    BY <1>6 DEF OnCleanup, OnShutdown
  <2>2. /\ lifecycle' = to /\ command' = NoCommand /\ plan' = "none" /\ twist' = "hold"
        /\ xyLatched' = FALSE /\ holds' = NoHolds /\ progress' = Off /\ recovery' = Off
        /\ settling' = 0 /\ blocked' = NotBlocked /\ stalledStreak' = 0
        /\ history' = [ended |-> history.ended, gateRun |-> 0, trackRun |-> 0,
                       overdueRun |-> 0, confirmed |-> FALSE]
        /\ UNCHANGED <<deactivations, lastId, out>>
    BY <2>1 DEF ReleaseResources, ResetGoalChecker, ResetProgressChecker,
                ResetStatusSemantics, NoHistory
  <2>3. /\ NoCommand.id = 0 /\ lastId \in 0 .. MaxCommandId /\ out.id \in 0 .. MaxCommandId
        /\ history.ended \in SUBSET (1 .. MaxCommandId)
    BY CommandFacts DEF TypeInv, OutType, HistoryType
  <2>4. TypeInv'
    <3>1. holds' \in HoldsType /\ progress' \in Ages(AllowanceTicks)
          /\ recovery' \in Ages(Longest(Durations))
      BY <2>2 DEF HoldsType, NoHolds, Ages
    <3>2. history' \in HistoryType
      BY <2>2, <2>3, ConfirmAssumption, TimeAssumption DEF HistoryType
    <3>3. settling' \in 0 .. SettleTicks /\ blocked' \in BlockedType
          /\ stalledStreak' \in 0 .. StalledConfirm
      BY <2>2, NotBlockedType, ConfirmAssumption, TimeAssumption
    <3> QED
      BY <2>1, <2>2, <3>1, <3>2, <3>3 DEF TypeInv
  <2>5. IdsOld' /\ CompletionIsFinal'
    BY <2>2, <2>3 DEF IdsOld, CompletionIsFinal, HasCommand
  <2>6. BlockedIsEarned' /\ StalledIsEarned'
    BY <2>2, <2>3 DEF BlockedIsEarned, StalledIsEarned, IdsOld
  <2>7. GateTied' /\ TrackTied' /\ StallTied'
    BY <2>2 DEF GateTied, TrackTied, StallTied, NotBlocked, HasCommand
  <2>8. GateStopsTracking'
    BY <2>2 DEF GateStopsTracking
  <2> QED
    BY <2>4, <2>5, <2>6, <2>7, <2>8
<1> QED
  BY <1>2, <1>3, <1>4, <1>5, <1>6 DEF Lifecycle

LEMMA InitInv == Init => Inv
<1> SUFFICES ASSUME Init PROVE Inv
  OBVIOUS
<1> USE DEF Init
<1>1. TypeInv
  <2>1. holds \in HoldsType /\ progress \in Ages(AllowanceTicks)
        /\ recovery \in Ages(Longest(Durations))
    BY DEF HoldsType, NoHolds, Ages
  <2>2. history \in HistoryType
    BY ConfirmAssumption, TimeAssumption DEF HistoryType, NoHistory
  <2>3. out \in OutType
    BY BoundsAssumption DEF OutType, NoStatus
  <2>4. settling \in 0 .. SettleTicks /\ blocked \in BlockedType
        /\ stalledStreak \in 0 .. StalledConfirm /\ lastId \in 0 .. MaxCommandId
        /\ deactivations \in 0 .. MaxDeactivations
    BY NotBlockedType, ConfirmAssumption, TimeAssumption, BoundsAssumption
  <2> QED
    BY <2>1, <2>2, <2>3, <2>4 DEF TypeInv
<1>2. IdsOld /\ CompletionIsFinal
  BY DEF IdsOld, CompletionIsFinal, HasCommand, NoCommand, NoStatus, NoHistory
<1>3. GateTied /\ TrackTied /\ StallTied
  BY DEF GateTied, TrackTied, StallTied, NotBlocked, NoHistory, HasCommand
<1>4. BlockedIsEarned /\ StalledIsEarned /\ GateStopsTracking
  BY DEF BlockedIsEarned, StalledIsEarned, GateStopsTracking, NoStatus
<1> QED
  BY <1>1, <1>2, <1>3, <1>4 DEF Inv

LEMMA NextInv == Inv /\ [Next]_vars => Inv'
<1> SUFFICES ASSUME Inv, [Next]_vars PROVE Inv'
  OBVIOUS
<1>1. CASE HandleMotionCommand
  BY <1>1, HandleMotionCommandInv
<1>2. CASE HandleLocalPlan \/ Lifecycle
  BY <1>2, LifecycleInv
<1>3. CASE NavigateTick
  BY <1>3, NavigateInv DEF NavigateTick
<1>4. CASE RecoverTick
  BY <1>4, RecoverInv DEF RecoverTick
<1>5. CASE WaitTick
  BY <1>5, WaitForInputsInv DEF WaitTick
<1>6. CASE UNCHANGED vars
  BY <1>6 DEF vars, node, goal, semantics, references, outputs, Inv, TypeInv, IdsOld,
              CompletionIsFinal, GateTied, BlockedIsEarned, TrackTied, HasCommand,
              GateStopsTracking, StallTied, StalledIsEarned
<1> QED
  BY <1>1, <1>2, <1>3, <1>4, <1>5, <1>6 DEF Next, Topics

\* The invariant holds in every reachable state.
LEMMA SpecInv == Spec => []Inv
BY InitInv, NextInv, PTL DEF Spec

-----------------------------------------------------------------------------
(* The theorems                                                            *)

\* Every streak, age and id stays in its range, whatever the parameters of the
\* status semantics and of the goal checker are (motion_status_semantics.hpp).
THEOREM TypeCorrect == Spec => []TypeOK
<1>1. Inv => TypeOK
  BY DEF Inv, TypeInv, TypeOK, HistoryType, BlockedType, OutType, HoldsType
<1> QED
  BY <1>1, SpecInv, PTL

\* For every number of confirmation cycles: a status calls its command blocked
\* only if the gate was triggered in that many ticks of that very command.
THEOREM BlockedConfirmed == Spec => []BlockedIsEarned
<1>1. Inv => BlockedIsEarned
  BY DEF Inv
<1> QED
  BY <1>1, SpecInv, PTL

\* Without a deactivation a status says stalled only after the confirmed number
\* of overdue ticks in a row, although the streak outlives a renewed reference.
THEOREM StalledConfirmed == Spec => []StalledIsEarned
<1>1. Inv => StalledIsEarned
  BY DEF Inv
<1> QED
  BY <1>1, SpecInv, PTL

\* Whatever the settle time and the confirmation are, a robot that is tracking
\* its path is stopped once the gate has been triggered for their sum.
THEOREM GateStops == Spec => []GateStopsTracking
<1>1. Inv => GateStopsTracking
  BY DEF Inv
<1> QED
  BY <1>1, SpecInv, PTL

\* No command is completed twice, however many commands follow each other.
THEOREM CompletedOnce == Spec => []CompletionIsFinal
<1>1. Inv => CompletionIsFinal
  BY DEF Inv
<1> QED
  BY <1>1, SpecInv, PTL
-----------------------------------------------------------------------------
(* The end of a recovery                                                   *)

\* A command that time alone brings to its end: a stop or wait, or a backup
\* with a duration.
Timed ==
    /\ HasCommand
    /\ \/ command.mode = "wait"
       \/ command.mode = "backup" /\ command.duration > 0

\* An age that is not off grows by what passed, up to its limit.
LEMMA OlderGrows ==
    ASSUME NEW limit \in Nat, NEW age \in Ages(limit), NEW lag \in Nat
    PROVE  /\ age <= Older(age, lag, limit)
           /\ age # Off /\ age < limit /\ lag # 0 => age < Older(age, lag, limit)
  BY DEF Older, Least, Ages, Off

\* No duration is longer than the longest.
LEMMA LongestIsLongest == \A d \in Durations : d <= Longest(Durations)
<1>1. \E d \in Durations \cup {0} : \A e \in Durations : d >= e
  BY DurationsAssumption
<1>2. \A e \in Durations : Longest(Durations) >= e
  BY <1>1 DEF Longest
<1> QED BY <1>2, LongestType, DurationsAssumption

\* A tick of a timed recovery ends it, or its age grows.
LEMMA TimedTick ==
    ASSUME Inv, Timed, NEW lag \in Lags, NEW arrived \in BOOLEAN, Recover(lag, arrived)
    PROVE  command' # command \/ recovery < recovery'
<1> DEFINE age == IF recovery = Off THEN 0
                  ELSE Older(recovery, lag, Longest(Durations))
           elapsed == age >= command.duration
           done == CASE command.mode = "backup" ->
                          arrived \/ (command.duration > 0 /\ elapsed)
                     [] command.mode = "spin" -> arrived
                     [] OTHER -> elapsed
<1>1. IF done THEN Complete(plan)
      ELSE recovery' = age
  BY DEF Recover
<1>2. CASE done
  <2>1. command' = NoCommand
    BY <1>1, <1>2 DEF Complete
  <2> QED BY <2>1 DEF Timed, HasCommand
<1>3. CASE ~done
  <2>1. recovery' = age
    BY <1>1, <1>3
  <2>2. ~elapsed
    BY <1>3 DEF Timed
  <2>3. recovery \in Ages(Longest(Durations)) /\ Longest(Durations) \in Nat
        /\ lag \in Nat \ {0}
    BY LongestType, TimeAssumption DEF Inv, TypeInv
  <2>4. command.duration \in Nat /\ command.duration <= Longest(Durations)
    <3>1. command \in Commands
      BY DEF Inv, TypeInv, Timed, HasCommand
    <3>2. command.duration \in Durations \cup {0}
      BY <3>1 DEF Commands, RecoveryCommands
    <3>3. CASE command.duration = 0
      BY <3>3, LongestType
    <3>4. CASE command.duration \in Durations
      <4>1. Durations \subseteq Nat
        BY DurationsAssumption
      <4> QED BY <3>4, <4>1, LongestIsLongest, LongestType
    <3> QED BY <3>2, <3>3, <3>4
  <2>5. CASE recovery = Off
    <3>1. age = 0
      BY <2>5
    <3> HIDE DEF age
    <3> QED BY <2>1, <2>5, <3>1 DEF Off
  <2>6. CASE recovery # Off
    <3>1. age = Older(recovery, lag, Longest(Durations)) /\ recovery \in Nat
      BY <2>3, <2>6 DEF Ages
    <3>2. recovery <= age /\ age \in Int
      BY <2>3, <3>1, OlderGrows, OlderType DEF Ages, Off
    <3>3. recovery < Longest(Durations)
      <4> HIDE DEF age
      <4> QED BY <2>2, <2>3, <2>4, <3>1, <3>2
    <3> QED BY <2>1, <2>3, <2>6, <3>1, <3>3, OlderGrows
  <2> QED BY <2>5, <2>6
<1> QED BY <1>2, <1>3

\* Of the end of a timed recovery all but the fairness: nothing but the end of
\* the command makes the age of its recovery smaller, not a tick without TF, a
\* plan, a deactivation or the return from one; and each tick of publish_control
\* that serves the recovery makes it larger or ends the command.  As no age is
\* above the longest of the durations, the ticks that serve one are bounded.
THEOREM RecoveryGrowsOld ==
    Spec => [][Timed => \/ command' # command
                        \/ recovery <= recovery' /\ (RecoverTick => recovery < recovery')]_vars
<1>1. ASSUME Inv, Next, Timed, command' = command
      PROVE  recovery <= recovery' /\ (RecoverTick => recovery < recovery')
  <2>1. recovery \in Ages(Longest(Durations)) /\ Longest(Durations) \in Nat
        /\ \A lag \in Lags : lag \in Nat
    BY <1>1, LongestType, TimeAssumption DEF Inv, TypeInv
  <2>2. recovery \in Int
    BY <2>1 DEF Ages, Off
  <2>3. CASE RecoverTick
    <3>1. recovery < recovery'
      BY <1>1, <2>3, TimedTick DEF RecoverTick
    <3>2. recovery' \in Int
      <4>1. Inv'
        BY <1>1, NextInv
      <4> QED BY <4>1, LongestType DEF Inv, TypeInv, Ages, Off
    <3> QED BY <2>2, <3>1, <3>2
  <2>4. CASE recovery' = recovery /\ ~RecoverTick
    BY <2>2, <2>4
  <2>5. CASE \E lag \in Nat : recovery' = Older(recovery, lag, Longest(Durations)) /\ ~RecoverTick
    <3>1. PICK lag \in Nat : recovery' = Older(recovery, lag, Longest(Durations))
      BY <2>5
    <3>2. recovery <= recovery'
      BY <2>1, <3>1, OlderGrows
    <3> QED BY <2>5, <3>2
  <2>6. CASE HandleMotionCommand
    <3>1. PICK next \in Commands : next.id > lastId /\ command' = next
      BY <2>6 DEF HandleMotionCommand
    <3>2. command.id <= lastId /\ command.id \in Nat /\ lastId \in Nat
      BY <1>1, CommandFacts, BoundsAssumption DEF Inv, IdsOld, TypeInv
    <3>3. next.id \in 1 .. MaxCommandId
      BY DEF Commands, RecoveryCommands
    <3>4. command' # command
      BY <3>1, <3>2, <3>3, BoundsAssumption
    <3> QED BY <1>1, <3>4
  <2>7. CASE ~RecoverTick /\ (NavigateTick \/ HandleLocalPlan \/ OnConfigure \/ OnDeactivate)
    <3>1. ~NavigateTick
      <4>1. NavigateTick => command.mode = "navigate"
        BY DEF NavigateTick, Navigate
      <4>2. command.mode # "navigate"
        BY <1>1 DEF Timed
      <4> QED BY <4>1, <4>2
    <3> QED BY <2>4, <2>7, <3>1
            DEF HandleLocalPlan, OnConfigure, OnDeactivate, references
  <2>8. CASE ~RecoverTick /\ WaitTick
    <3>1. \E lag \in Lags : recovery' = Older(recovery, lag, Longest(Durations))
      BY <2>8 DEF WaitTick, WaitForInputs
    <3> QED BY <2>1, <2>5, <2>8, <3>1
  <2>9. CASE ~RecoverTick /\ OnActivate
    <3>1. recovery' = recovery \/ recovery' = Older(recovery, Longest(Durations), Longest(Durations))
      BY <2>9 DEF OnActivate, references
    <3> QED BY <2>1, <2>4, <2>5, <2>9, <3>1
  <2>10. CASE OnCleanup \/ OnShutdown
    BY <1>1, <2>10 DEF OnCleanup, OnShutdown, ReleaseResources, Timed, HasCommand
  <2> QED BY <1>1, <2>3, <2>6, <2>7, <2>8, <2>9, <2>10 DEF Next, Topics, Lifecycle
<1>2. Inv /\ [Next]_vars =>
        [Timed => \/ command' # command
                  \/ recovery <= recovery' /\ (RecoverTick => recovery < recovery')]_vars
  BY <1>1
<1> QED BY <1>2, SpecInv, PTL DEF Spec
=============================================================================
