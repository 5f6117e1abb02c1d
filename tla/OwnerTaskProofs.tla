--------------------------- MODULE OwnerTaskProofs ---------------------------
(***************************************************************************)
(* Both async drivers, for every number of calls, every tmux and every     *)
(* line it may print, in either build: types, what Disconnected says,      *)
(* whose result a call returns, and that the task implements Correlator.   *)
(***************************************************************************)
EXTENDS OwnerTask, TmuxProofs

(* As long as the task is in its loop, nobody holds a Disconnected, and    *)
(* the reply sender of a call that waits is somewhere to be used.          *)
NoEarlyEnd ==
    InLoop =>
      /\ \A call \in CommandId : replies[call] # None => replies[call][1] # Disconnected
      /\ \A call \in CommandId : callers[call] = "returned" => replies[call] # None
      /\ \A call \in CommandId :
           callers[call] = "awaiting" /\ replies[call] = None => ~SenderDropped(call)
      /\ \A x \in ToSet(out) : x.type = "reply" => x.result # Disconnected

InProgress == task = "writing" => next_id > 0

TaskInv == TaskTypeOK /\ FifoIntact /\ InProgress /\ NoEarlyEnd

----------------------------------------------------------------------------
LEMMA Parts ==
    TaskInv <=> IInv /\ TmuxTypeOK /\ OwnTypeOK /\ InProgress /\ NoEarlyEnd
  BY DEF TaskInv, TaskTypeOK, IInv

LEMMA InitInv == Init => TaskInv
  <1> SUFFICES ASSUME Init PROVE TaskInv
    OBVIOUS
  <1>1. IInv /\ TmuxTypeOK
    BY InitIInv, TmuxInitType DEF Init
  <1>2. OwnTypeOK
    <2>1. dropped \in BOOLEAN
      BY Zenon DEF Init
    <2>2. /\ callers \in [CommandId -> {"unsent", "awaiting", "returned", "cancelled"}]
          /\ replies \in [CommandId -> Option(CommandResult)]
      BY OptionIntro DEF Init
    <2> QED
      BY <2>1, <2>2, EmptySeq, OptionIntro DEF Init, OwnTypeOK, InLoop
  <1>3. NoEarlyEnd
    BY NoElements DEF Init, NoEarlyEnd
  <1> QED
    BY <1>1, <1>2, <1>3 DEF Init, InProgress, TaskInv, TaskTypeOK, IInv

(* Out of the loop there is nothing to keep but types.                     *)
LEMMA OutOfLoop == ASSUME task' \notin {"selecting", "writing", "feeding", "resolving"}
                   PROVE  NoEarlyEnd' /\ InProgress'
  BY DEF NoEarlyEnd, InLoop, InProgress

----------------------------------------------------------------------------
(* The calls. *)

LEMMA CallType ==
    ASSUME TaskInv, CallStep \/ DropClient
    PROVE  IInv' /\ TmuxTypeOK' /\ OwnTypeOK' /\ InProgress'
  <1>1. IInv' /\ TmuxTypeOK' /\ UNCHANGED <<next_id, driver, replies, taskVars>>
    BY KeepsIInv, KeepsTmuxType, Parts
       DEF CallStep, Call, Return, Cancel, DropClient, engineVars
  <1>2. dropped' \in BOOLEAN
    <2>1. CASE DropClient
      BY <2>1, Zenon DEF DropClient
    <2>2. CASE CallStep
      BY <2>2, Parts, Zenon DEF CallStep, Call, Return, Cancel, OwnTypeOK
    <2> QED
      BY <2>1, <2>2
  <1>3. callers' \in [CommandId -> {"unsent", "awaiting", "returned", "cancelled"}]
    BY Parts DEF CallStep, Call, Return, Cancel, DropClient, OwnTypeOK
  <1>4. requests' \in Seq(CommandId)
    <2>1. requests \in Seq(CommandId)
      BY Parts DEF OwnTypeOK
    <2>2. ASSUME NEW call \in CommandId, Call(call) PROVE requests' \in Seq(CommandId)
      <3>1. requests' = requests \/ requests' = Append(requests, call)
        BY <2>2 DEF Call
      <3> QED
        BY <2>1, <3>1, AppendElements
    <2> QED
      BY <2>1, <2>2 DEF CallStep, Return, Cancel, DropClient
  <1>5. OwnTypeOK'
    BY <1>1, <1>2, <1>3, <1>4, Parts DEF OwnTypeOK, taskVars, InLoop
  <1>6. InProgress'
    BY <1>1, Parts DEF InProgress, taskVars
  <1> QED
    BY <1>1, <1>5, <1>6

LEMMA CallKeeps ==
    ASSUME TaskInv, CallStep \/ DropClient
    PROVE  NoEarlyEnd'
  <1> SUFFICES ASSUME InLoop' PROVE NoEarlyEnd'
    BY DEF NoEarlyEnd
  <1>1. UNCHANGED <<replies, taskVars>> /\ InLoop
    BY DEF CallStep, Call, Return, Cancel, DropClient, taskVars, InLoop
  <1>2. /\ \A call \in CommandId : replies[call] # None => replies[call][1] # Disconnected
        /\ \A call \in CommandId : callers[call] = "returned" => replies[call] # None
        /\ \A call \in CommandId :
             callers[call] = "awaiting" /\ replies[call] = None => ~SenderDropped(call)
        /\ \A x \in ToSet(out) : x.type = "reply" => x.result # Disconnected
    BY <1>1, Parts DEF NoEarlyEnd
  <1>3. callers \in [CommandId -> {"unsent", "awaiting", "returned", "cancelled"}]
    BY Parts DEF OwnTypeOK
  <1>4. ASSUME NEW call \in CommandId, Call(call) PROVE NoEarlyEnd'
    <2>1. /\ callers' = [callers EXCEPT ![call] = "awaiting"]
          /\ ToSet(requests') = ToSet(requests) \cup {call}
      <3>1. task \notin Ended /\ requests \in Seq(CommandId)
        BY <1>1, Parts DEF InLoop, Ended, OwnTypeOK
      <3>2. requests' = Append(requests, call) /\ callers' = [callers EXCEPT ![call] = "awaiting"]
        BY <1>4, <3>1 DEF Call
      <3> QED
        BY <3>1, <3>2, AppendElements
    <2>2. \A c \in CommandId : SenderDropped(c)' => SenderDropped(c) /\ c # call
      BY <1>1, <2>1 DEF SenderDropped, taskVars
    <2> QED
      BY <1>1, <1>2, <1>3, <2>1, <2>2 DEF NoEarlyEnd, taskVars
  <1>5. ASSUME NEW call \in CommandId, Return(call) PROVE NoEarlyEnd'
    <2>1. /\ callers' = [callers EXCEPT ![call] = "returned"] /\ UNCHANGED requests
          /\ callers[call] = "awaiting" /\ (replies[call] # None \/ SenderDropped(call))
      BY <1>5 DEF Return
    <2>2. replies[call] # None
      BY <1>2, <2>1
    <2>3. \A c \in CommandId : SenderDropped(c)' => SenderDropped(c)
      BY <1>1, <2>1 DEF SenderDropped, taskVars
    <2> QED
      BY <1>1, <1>2, <1>3, <2>1, <2>2, <2>3 DEF NoEarlyEnd, taskVars
  <1>6. ASSUME NEW call \in CommandId, Cancel(call) PROVE NoEarlyEnd'
    <2>1. callers' = [callers EXCEPT ![call] = "cancelled"] /\ UNCHANGED requests
      BY <1>6 DEF Cancel
    <2>2. \A c \in CommandId : SenderDropped(c)' => SenderDropped(c)
      BY <1>1, <2>1 DEF SenderDropped, taskVars
    <2> QED
      BY <1>1, <1>2, <1>3, <2>1, <2>2 DEF NoEarlyEnd, taskVars
  <1>7. CASE DropClient
    <2>1. UNCHANGED <<callers, requests>>
      BY <1>7 DEF DropClient
    <2>2. \A c \in CommandId : SenderDropped(c)' => SenderDropped(c)
      BY <1>1, <2>1 DEF SenderDropped, taskVars
    <2> QED
      BY <1>1, <1>2, <2>1, <2>2 DEF NoEarlyEnd, taskVars
  <1> QED
    BY <1>4, <1>5, <1>6, <1>7 DEF CallStep

----------------------------------------------------------------------------
(* The task. *)

(* Steps within the loop that leave the calls and their reply channels     *)
(* alone: enough that nobody's sender is dropped by them.                  *)
LEMMA SendersKept ==
    ASSUME TaskInv, InLoop, UNCHANGED <<callers, replies>>,
           \A call \in CommandId : SenderDropped(call)' => SenderDropped(call),
           \A x \in ToSet(out') : x.type = "reply" => x.result # Disconnected
    PROVE  NoEarlyEnd'
  BY Parts DEF NoEarlyEnd

LEMMA TakeRequestStep == ASSUME TaskInv, TakeRequest PROVE TaskInv'
  <1>1. IInv' /\ TmuxTypeOK'
    BY RegisterCommandIInv, KeepsTmuxType, Parts DEF TakeRequest
  <1>2. /\ Head(requests) \in CommandId /\ Tail(requests) \in Seq(CommandId)
        /\ ToSet(requests) = {Head(requests)} \cup ToSet(Tail(requests))
    BY TailElements, Parts DEF TakeRequest, OwnTypeOK
  <1>3. /\ task = "selecting" /\ task' = "writing" /\ writing' = Some(Head(requests))
        /\ requests' = Tail(requests)
        /\ UNCHANGED <<callVars, stdin, waiters, chunk, out, events, told>>
    BY DEF TakeRequest
  <1>4. writing' \in Option(CommandId) /\ writing' # None
    BY <1>2, <1>3, OptionIntro DEF Some, None
  <1>5. OwnTypeOK'
    BY <1>2, <1>3, <1>4, Parts DEF callVars, OwnTypeOK, InLoop
  <1>6. InProgress'
    <2>1. next_id \in 0 .. MaxCommands /\ next_id' = next_id + 1
      BY Parts DEF IInv, TypeOK, TakeRequest, RegisterCommand
    <2> QED
      BY <2>1, BoundAssumption DEF InProgress
  <1>7. NoEarlyEnd'
    <2>1. InLoop /\ writing = None /\ UNCHANGED <<callers, replies>>
      BY <1>3, Parts DEF InLoop, OwnTypeOK, callVars
    <2>2. ASSUME NEW call \in CommandId, SenderDropped(call)' PROVE SenderDropped(call)
      <3>1. writing # Some(call)
        BY <2>1 DEF None, Some
      <3>2. call # Head(requests) /\ call \notin ToSet(Tail(requests))
        BY <1>3, <2>2 DEF SenderDropped
      <3> QED
        BY <1>2, <1>3, <2>2, <3>1, <3>2 DEF SenderDropped
    <2>3. \A x \in ToSet(out') : x.type = "reply" => x.result # Disconnected
      BY <1>3, <2>1, Parts DEF NoEarlyEnd
    <2> QED
      BY <2>1, <2>2, <2>3, SendersKept
  <1> QED
    BY <1>1, <1>5, <1>6, <1>7 DEF TaskInv, TaskTypeOK, IInv

LEMMA WrittenStep == ASSUME TaskInv, Written PROVE TaskInv'
  <1>1. IInv' /\ next_id' = next_id
    BY KeepsIInv, Parts DEF Written, engineVars
  <1>2. TmuxTypeOK'
    <2>1. toTmux' \in Seq(Nat)
      BY AppendProperties, Parts DEF Written, TmuxTypeOK
    <2> QED
      BY <2>1, Parts DEF Written, InputUnchanged, TmuxTypeOK
  <1>3. /\ task = "writing" /\ task' = "selecting" /\ writing' = None
        /\ waiters' = waiters \cup {[id |-> Current, call |-> writing[1]]}
        /\ UNCHANGED <<callVars, requests, stdin, chunk, out, events, told>>
    BY DEF Written
  <1>4. writing \in Option(CommandId) /\ writing # None
    BY <1>3, Parts DEF OwnTypeOK
  <1>5. writing = Some(writing[1]) /\ writing[1] \in CommandId
    BY <1>4, OptionCases
  <1>6. Current \in CommandId
    BY <1>3, BoundAssumption, Parts DEF InProgress, Current, CommandId, IInv, TypeOK
  <1>7. OwnTypeOK'
    <2>1. [id |-> Current, call |-> writing[1]] \in [id : CommandId, call : CommandId]
      BY <1>5, <1>6
    <2>2. writing' \in Option(CommandId)
      BY <1>3, OptionIntro
    <2> QED
      BY <1>3, <2>1, <2>2, Parts DEF callVars, OwnTypeOK, InLoop
  <1>8. NoEarlyEnd'
    <2>1. InLoop /\ UNCHANGED <<callers, replies>>
      BY <1>3 DEF InLoop, callVars
    <2>2. ASSUME NEW call \in CommandId, SenderDropped(call)' PROVE SenderDropped(call)
      <3>1. [id |-> Current, call |-> writing[1]].call # call
        BY <1>3, <2>2 DEF SenderDropped
      <3>2. writing # Some(call)
        BY <1>5, <3>1 DEF Some
      <3> QED
        BY <1>3, <2>2, <3>2 DEF SenderDropped
    <2>3. \A x \in ToSet(out') : x.type = "reply" => x.result # Disconnected
      BY <1>3, <2>1, Parts DEF NoEarlyEnd
    <2> QED
      BY <2>1, <2>2, <2>3, SendersKept
  <1> QED
    BY <1>1, <1>2, <1>3, <1>7, <1>8 DEF InProgress, TaskInv, TaskTypeOK, IInv

(* The steps that leave the loop, or are taken out of it.                  *)
LEMMA LeavingSteps ==
    ASSUME TaskInv, HandlesDropped \/ WriteFails \/ ReadEnds \/ Teardown \/ Reap
    PROVE  TaskInv'
  <1>1. NoEarlyEnd' /\ InProgress'
    BY OutOfLoop DEF HandlesDropped, WriteFails, ReadEnds, Teardown, Reap
  <1>2. CASE HandlesDropped \/ ReadEnds
    <2>1. IInv' /\ TmuxTypeOK'
      BY <1>2, KeepsIInv, KeepsTmuxType, Parts DEF HandlesDropped, ReadEnds
    <2>2. OwnTypeOK'
      BY <1>2, Parts DEF HandlesDropped, ReadEnds, ReadWins, callVars, OwnTypeOK, InLoop
    <2> QED
      BY <1>1, <2>1, <2>2 DEF TaskInv, TaskTypeOK, IInv
  <1>3. CASE WriteFails
    <2>1. IInv' /\ TmuxTypeOK'
      <3>1. toTmux \in Seq(Nat) /\ (UNCHANGED toTmux \/ toTmux' = Append(toTmux, 1))
        BY <1>3, Parts DEF WriteFails, TmuxTypeOK
      <3>2. toTmux' \in Seq(Nat)
        BY <3>1, AppendElements
      <3> QED
        BY <1>3, <3>2, KeepsIInv, Parts DEF WriteFails, InputUnchanged, TmuxTypeOK
    <2>2. Disconnected \in CommandResult
      BY EmptySeq DEF Disconnected, CommandResult
    <2>3. Some(Disconnected) \in Option(CommandResult) /\ None \in Option(CommandId)
      BY <2>2, OptionIntro
    <2>4. replies' \in [CommandId -> Option(CommandResult)]
      BY <1>3, <2>3, Parts DEF WriteFails, OwnTypeOK
    <2>5. OwnTypeOK'
      BY <1>3, <2>3, <2>4, Parts DEF WriteFails, OwnTypeOK, InLoop
    <2> QED
      BY <1>1, <2>1, <2>5 DEF TaskInv, TaskTypeOK, IInv
  <1>4. CASE Teardown
    <2>1. IInv'
      BY <1>4, OnEofIInv, Parts DEF Teardown
    <2>2. TmuxTypeOK'
      <3>1. /\ toTmux \in Seq(Nat)
            /\ UNCHANGED toTmux \/ toTmux' = Append(toTmux, 0) \/ toTmux' = Append(toTmux, 1)
        BY <1>4, Parts DEF Teardown, TmuxTypeOK
      <3>2. toTmux' \in Seq(Nat)
        BY <3>1, AppendElements
      <3> QED
        BY <1>4, <3>2, Parts DEF Teardown, InputUnchanged, TmuxTypeOK
    <2>3. out' \in Seq(Incoming)
      BY <1>4, <2>1 DEF Teardown, IInv, TypeOK
    <2>4. OwnTypeOK'
      BY <1>4, <2>3, Parts DEF Teardown, callVars, OwnTypeOK, InLoop
    <2> QED
      BY <1>1, <2>1, <2>2, <2>4 DEF TaskInv, TaskTypeOK, IInv
  <1>5. CASE Reap
    <2>1. IInv' /\ TmuxTypeOK'
      BY <1>5, KeepsIInv, KeepsTmuxType, Parts DEF Reap
    <2>2. requests' \in Seq(CommandId)
      BY <1>5, EmptySeq, Parts DEF Reap, CloseChannel, OwnTypeOK
    <2>3. OwnTypeOK'
      BY <1>5, <2>2, Parts DEF Reap, callVars, OwnTypeOK, InLoop, Ended
    <2> QED
      BY <1>1, <2>1, <2>3 DEF TaskInv, TaskTypeOK, IInv
  <1> QED
    BY <1>2, <1>3, <1>4, <1>5

LEMMA ReadStep == ASSUME TaskInv, Read PROVE TaskInv'
  <1>1. IInv' /\ next_id' = next_id
    BY KeepsIInv, Parts DEF Read, engineVars
  <1>2. PICK n \in 1 .. Len(toClient) :
           /\ chunk' = SubSeq(toClient, 1, n)
           /\ toClient' = SubSeq(toClient, n + 1, Len(toClient))
    BY DEF Read
  <1>3. chunk' \in Seq(Line) /\ toClient' \in Seq(Line)
    BY <1>2, ReadType, Parts
  <1>4. TmuxTypeOK'
    BY <1>3, Parts DEF Read, TmuxTypeOK
  <1>5. /\ task = "selecting" /\ task' = "feeding"
        /\ UNCHANGED <<callVars, requests, writing, stdin, waiters, out, events, told>>
    BY DEF Read, ReadWins
  <1>6. OwnTypeOK'
    BY <1>3, <1>5, Parts DEF callVars, OwnTypeOK, InLoop
  <1>7. NoEarlyEnd'
    BY <1>5, SendersKept, Parts DEF callVars, InLoop, SenderDropped, NoEarlyEnd
  <1> QED
    BY <1>1, <1>4, <1>5, <1>6, <1>7 DEF InProgress, TaskInv, TaskTypeOK, IInv

LEMMA FeedLineStep == ASSUME TaskInv, FeedLine PROVE TaskInv'
  <1>1. /\ Head(chunk) \in Line /\ OnLine(Head(chunk)) /\ Tail(chunk) \in Seq(Line)
        /\ task = "feeding" /\ UNCHANGED <<callVars, writing, stdin, events, told>>
    BY TailElements, Parts DEF FeedLine, OwnTypeOK
  <1>2. IInv' /\ TmuxTypeOK'
    BY <1>1, OnLineIInv, KeepsTmuxType, Parts DEF FeedLine
  <1>3. incoming' \in Seq(Incoming) /\ out \in Seq(Incoming)
    BY <1>2, Parts DEF IInv, TypeOK, OwnTypeOK
  <1>4. ToSet(out \o incoming') = ToSet(out) \cup ToSet(incoming')
          /\ out \o incoming' \in Seq(Incoming)
    BY <1>3, ConcatElements
  <1>5. \A x \in ToSet(incoming') : x.type = "reply" => x.result # Disconnected
    BY <1>1, OnLineAnswers, Parts DEF RepliesIn, ToSet
  <1>6. CASE panicked'
    <2>1. /\ task' = "unwound" /\ waiters' = {} /\ chunk' = << >> /\ out' = << >>
          /\ CloseChannel
      BY <1>6 DEF FeedLine
    <2>2. requests' \in Seq(CommandId)
      BY <2>1, EmptySeq, Parts DEF CloseChannel, OwnTypeOK
    <2>3. OwnTypeOK'
      BY <1>1, <2>1, <2>2, EmptySeq, Parts DEF callVars, OwnTypeOK, InLoop, Ended
    <2>4. NoEarlyEnd' /\ InProgress'
      BY <2>1, OutOfLoop
    <2> QED
      BY <1>2, <2>3, <2>4 DEF TaskInv, TaskTypeOK, IInv
  <1>7. CASE ~panicked'
    <2>1. /\ out' = out \o incoming' /\ chunk' = Tail(chunk)
          /\ task' \in {"resolving", "feeding"} /\ UNCHANGED <<requests, waiters>>
      BY <1>7 DEF FeedLine
    <2>2. OwnTypeOK'
      BY <1>1, <1>4, <2>1, Parts DEF callVars, OwnTypeOK, InLoop
    <2>3. \A x \in ToSet(out) : x.type = "reply" => x.result # Disconnected
      BY <1>1, Parts DEF NoEarlyEnd, InLoop
    <2>4. \A x \in ToSet(out') : x.type = "reply" => x.result # Disconnected
      BY <1>4, <1>5, <2>1, <2>3
    <2>5. NoEarlyEnd'
      BY <1>1, <2>1, <2>4, SendersKept DEF InLoop, callVars, SenderDropped
    <2>6. InProgress'
      BY <2>1 DEF InProgress
    <2> QED
      BY <1>2, <2>2, <2>5, <2>6 DEF TaskInv, TaskTypeOK, IInv
  <1> QED
    BY <1>6, <1>7

(* A reply: the only step that takes a sender away for good, and what it   *)
(* was for is then in the reply channel.                                   *)
LEMMA ResolveStep ==
    ASSUME TaskInv, HandOut, Head(out).type = "reply",
           Resolve(Head(out).id, Head(out).result), UNCHANGED events
    PROVE  OwnTypeOK' /\ NoEarlyEnd'
  <1> DEFINE id == Head(out).id
             result == Head(out).result
  <1>1. /\ Head(out) \in Incoming /\ Tail(out) \in Seq(Incoming)
        /\ ToSet(out) = {Head(out)} \cup ToSet(Tail(out))
        /\ out' = Tail(out) /\ task \in {"resolving", "draining"}
        /\ UNCHANGED <<driver, callers, dropped, requests, task, writing, stdin, chunk,
                       events>>
    BY TailElements, Parts DEF HandOut, OwnTypeOK
  <1>2. id \in CommandId /\ result \in CommandResult
    BY <1>1 DEF Incoming
  <1>3. /\ waiters' = {waiter \in waiters : waiter.id # id}
        /\ replies' = [call \in CommandId |->
                         IF [id |-> id, call |-> call] \in waiters THEN Some(result)
                         ELSE replies[call]]
        /\ told' = told \/ told' = Append(told, AnswerTo(id, result))
    BY DEF Resolve
  <1>4. Some(result) \in Option(CommandResult) /\ Some(result) # None /\ Some(result)[1] = result
    BY <1>2, OptionIntro DEF Some, None
  <1>5. InLoop => result # Disconnected
    BY <1>1, Parts DEF NoEarlyEnd
  <1>6. /\ replies \in [CommandId -> Option(CommandResult)]
        /\ waiters \subseteq [id : CommandId, call : CommandId]
    BY Parts DEF OwnTypeOK
  <1> HIDE DEF id, result
  <1>7. replies' \in [CommandId -> Option(CommandResult)]
    BY <1>3, <1>4, <1>6
  <1>8. told' \in Seq(Answer)
    <2>1. AnswerTo(id, result) \in Answer /\ told \in Seq(Answer)
      BY <1>2, Parts DEF AnswerTo, Answer, OwnTypeOK
    <2> QED
      BY <1>3, <2>1, AppendElements
  <1>9. OwnTypeOK'
    <2>1. dropped' \in BOOLEAN
      BY <1>1, Parts, Zenon DEF OwnTypeOK
    <2>2. waiters' \subseteq [id : CommandId, call : CommandId]
      BY <1>3, <1>6
    <2> QED
      BY <1>1, <1>7, <1>8, <2>1, <2>2, Parts DEF OwnTypeOK, InLoop
  <1>10. ASSUME NEW call \in CommandId, SenderDropped(call)', replies'[call] = None
         PROVE  SenderDropped(call) /\ replies[call] = None
    <2>1. replies[call] = None /\ [id |-> id, call |-> call] \notin waiters
      BY <1>3, <1>4, <1>10
    <2>2. ASSUME NEW waiter \in waiters PROVE waiter.call # call
      <3>1. CASE waiter.id = id
        <4>1. waiter = [id |-> waiter.id, call |-> waiter.call]
          BY <1>6
        <4> QED
          BY <2>1, <3>1, <4>1
      <3>2. CASE waiter.id # id
        BY <1>3, <1>10, <3>2 DEF SenderDropped
      <3> QED
        BY <3>1, <3>2
    <2> QED
      BY <1>1, <1>10, <2>1, <2>2 DEF SenderDropped
  <1>11. NoEarlyEnd'
    <2> SUFFICES ASSUME InLoop PROVE NoEarlyEnd'
      BY <1>1 DEF NoEarlyEnd, InLoop
    <2>1. /\ \A call \in CommandId : replies[call] # None => replies[call][1] # Disconnected
          /\ \A call \in CommandId : callers[call] = "returned" => replies[call] # None
          /\ \A call \in CommandId :
               callers[call] = "awaiting" /\ replies[call] = None => ~SenderDropped(call)
          /\ \A x \in ToSet(out) : x.type = "reply" => x.result # Disconnected
      BY Parts DEF NoEarlyEnd
    <2>2. \A call \in CommandId : replies'[call] # None => replies'[call][1] # Disconnected
      BY <1>3, <1>4, <1>5, <2>1
    <2>3. \A call \in CommandId : callers'[call] = "returned" => replies'[call] # None
      BY <1>1, <1>3, <1>4, <2>1
    <2>4. \A call \in CommandId :
            callers'[call] = "awaiting" /\ replies'[call] = None => ~SenderDropped(call)'
      BY <1>1, <1>10, <2>1
    <2>5. \A x \in ToSet(out') : x.type = "reply" => x.result # Disconnected
      BY <1>1, <2>1
    <2> QED
      BY <2>2, <2>3, <2>4, <2>5 DEF NoEarlyEnd
  <1> QED
    BY <1>9, <1>11

LEMMA HandOutStep == ASSUME TaskInv, HandOut PROVE TaskInv'
  <1>1. IInv' /\ TmuxTypeOK' /\ InProgress'
    BY KeepsIInv, KeepsTmuxType, Parts DEF HandOut, InProgress
  <1>2. OwnTypeOK' /\ NoEarlyEnd'
    <2>1. CASE /\ Head(out).type = "reply"
               /\ Resolve(Head(out).id, Head(out).result) /\ UNCHANGED events
      BY <2>1, ResolveStep
    <2>2. CASE /\ Head(out).type = "notification"
               /\ events' = Append(events, Head(out).line)
               /\ UNCHANGED <<waiters, replies, told>>
      <3>1. /\ Head(out) \in Incoming /\ Tail(out) \in Seq(Incoming)
            /\ ToSet(out) = {Head(out)} \cup ToSet(Tail(out))
            /\ out' = Tail(out) /\ task \in {"resolving", "draining"}
            /\ UNCHANGED <<driver, callers, dropped, requests, task, writing, stdin, chunk>>
        BY TailElements, Parts DEF HandOut, OwnTypeOK
      <3>2. Head(out).line \in Line
        BY <2>2, <3>1 DEF Incoming
      <3>3. events' \in Seq(Line)
        BY <2>2, <3>2, AppendElements, Parts DEF OwnTypeOK
      <3>4. dropped' \in BOOLEAN
        BY <3>1, Parts, Zenon DEF OwnTypeOK
      <3>5. OwnTypeOK'
        BY <2>2, <3>1, <3>3, <3>4, Parts DEF OwnTypeOK, InLoop
      <3>6. NoEarlyEnd'
        BY <2>2, <3>1, Parts DEF NoEarlyEnd, SenderDropped, InLoop
      <3> QED
        BY <3>5, <3>6
    <2> QED
      BY <2>1, <2>2 DEF HandOut
  <1> QED
    BY <1>1, <1>2 DEF TaskInv, TaskTypeOK, IInv

LEMMA HandedOutStep == ASSUME TaskInv, HandedOut PROVE TaskInv'
  <1>1. IInv' /\ TmuxTypeOK'
    BY KeepsIInv, KeepsTmuxType, Parts DEF HandedOut
  <1>2. /\ task \in {"resolving", "draining"}
        /\ task' = IF task = "resolving" THEN "selecting" ELSE "reaping"
        /\ UNCHANGED <<callVars, requests, writing, stdin, waiters, chunk, out, events, told>>
    BY DEF HandedOut
  <1>3. OwnTypeOK'
    BY <1>2, Parts DEF callVars, OwnTypeOK, InLoop
  <1>4. NoEarlyEnd' /\ InProgress'
    BY <1>2, Parts DEF callVars, NoEarlyEnd, SenderDropped, InLoop, InProgress
  <1> QED
    BY <1>1, <1>3, <1>4 DEF TaskInv, TaskTypeOK, IInv

LEMMA PeerStep == ASSUME TaskInv, Peer \/ UNCHANGED vars PROVE TaskInv'
  <1>1. UNCHANGED <<engineVars, callVars, requests, taskVars>>
    BY DEF Peer, vars
  <1>2. IInv' /\ TmuxTypeOK'
    BY KeepsIInv, KeepsTmuxType, TmuxStepType, Parts DEF Peer, vars
  <1>3. OwnTypeOK'
    BY <1>1, Parts DEF callVars, taskVars, OwnTypeOK, InLoop
  <1>4. NoEarlyEnd' /\ InProgress'
    BY <1>1, Parts
       DEF callVars, taskVars, engineVars, NoEarlyEnd, SenderDropped, InLoop, InProgress
  <1> QED
    BY <1>2, <1>3, <1>4 DEF TaskInv, TaskTypeOK, IInv

(* Every step, of a call, of the task or of tmux, keeps the invariant.     *)
LEMMA NextInv == TaskInv /\ [Next]_vars => TaskInv'
  <1> SUFFICES ASSUME TaskInv, [Next]_vars PROVE TaskInv'
    OBVIOUS
  <1>1. CASE CallStep \/ DropClient
    BY <1>1, CallType, CallKeeps DEF TaskInv, TaskTypeOK, IInv
  <1>2. CASE TaskStep
    BY <1>2, TakeRequestStep, WrittenStep, LeavingSteps, ReadStep, FeedLineStep, HandOutStep,
       HandedOutStep DEF TaskStep
  <1>3. CASE Peer \/ UNCHANGED vars
    BY <1>3, PeerStep
  <1> QED
    BY <1>1, <1>2, <1>3 DEF Next

LEMMA SpecInv == Spec => []TaskInv
  BY InitInv, NextInv, PTL DEF Spec

(* Every value of the engine, of the pipes, of the channels and of the     *)
(* owner task keeps its type: in both drivers and either build, whatever   *)
(* tmux prints and however many calls are in flight or cancelled.          *)
THEOREM TaskTypeCorrect == Spec => []TaskTypeOK
  <1>1. TaskInv => TaskTypeOK
    BY DEF TaskInv
  <1> QED
    BY <1>1, SpecInv, PTL

(* A call is told Disconnected only when the loop is left for good, so     *)
(* that no later call can succeed (tokio_rt.rs:86).                        *)
THEOREM DisconnectedAlwaysFinal == Spec => []DisconnectedIsFinal
  <1>1. TaskInv => DisconnectedIsFinal
    BY DEF TaskInv, NoEarlyEnd, DisconnectedIsFinal, Returned
  <1> QED
    BY <1>1, SpecInv, PTL
----------------------------------------------------------------------------
(* The commands that print no line shaped like a guard.  Once one has,     *)
(* NoEcho stays false, provided no block is forgotten: those of tmux's own *)
(* account are, so either they or the lines must be ruled out.             *)

Tame == Echoed = {} \/ MaxInternal = 0

Steady ==
    /\ Echoed = {} => NoEcho
    /\ MaxInternal = 0 /\ running # None => running[1].control
    /\ lost = 0 => \A outcome \in ToSet(served) : outcome.status # "lost"

Guardless(lines) == \A l \in ToSet(lines) : ~IsGuard(l)

LEMMA NoEchoMeans ==
    NoEcho <=> /\ \A block \in ToSet(served) : Guardless(block.lines)
               /\ running # None => Guardless(running[1].lines)
  BY DEF NoEcho, Guardless

LEMMA GuardlessType ==
    ASSUME NEW lines \in Seq(Line), Guardless(lines)
    PROVE  lines \in Seq(ContentLine)
  <1>1. \A l \in Line : ~IsGuard(l) => l \in ContentLine
    BY DEF Line, ContentLine, IsGuard, Guard
  <1>2. Len(lines) \in Nat /\ \A i \in 1 .. Len(lines) : lines[i] \in ContentLine
    BY <1>1, LenProperties, ElementOfSeq DEF Guardless, ToSet
  <1>3. SubSeq(lines, 1, Len(lines)) \in Seq(ContentLine)
    BY <1>2, SubSeqProperties
  <1> QED
    BY <1>3, SubSeqFull

(* Whatever is printed and served while NoEcho holds is plain.             *)
LEMMA QuietIsPlain == ASSUME TmuxTypeOK, Steady, NoEcho PROVE PlainLines
  <1>1. ASSUME running # None PROVE running[1].lines \in Seq(ContentLine)
    <2>1. running[1] \in RunningBlock
      BY <1>1, OptionCases DEF TmuxTypeOK, RunningBlock
    <2>2. running[1].lines \in Seq(Line) /\ Guardless(running[1].lines)
      BY <1>1, <2>1, NoEchoMeans DEF RunningBlock
    <2> QED
      BY <2>2, GuardlessType
  <1>2. ASSUME lost = 0 PROVE served \in Seq(PlainOutcome)
    <2>1. served \in Seq(Outcome) /\ Len(served) \in Nat
      BY LenProperties DEF TmuxTypeOK, Outcome
    <2>2. ASSUME NEW i \in 1 .. Len(served) PROVE served[i] \in PlainOutcome
      <3>1. served[i] \in Outcome /\ served[i] \in ToSet(served)
        BY <2>1, ElementOfSeq, LenProperties DEF ToSet
      <3>2. served[i].lines \in Seq(Line) /\ Guardless(served[i].lines)
        BY <3>1, NoEchoMeans DEF Outcome
      <3>3. served[i].lines \in Seq(ContentLine)
        BY <3>2, GuardlessType
      <3>4. served[i].status # "lost"
        BY <1>2, <3>1 DEF Steady
      <3> QED
        BY <3>1, <3>3, <3>4 DEF Outcome, PlainOutcome
    <2>3. SubSeq(served, 1, Len(served)) \in Seq(PlainOutcome)
      BY <2>1, <2>2, SubSeqProperties
    <2> QED
      BY <2>1, <2>3, SubSeqFull
  <1> QED
    BY <1>1, <1>2 DEF PlainLines

LEMMA PrintsInBlock ==
    ASSUME TmuxTypeOK, PrintLine
    PROVE  /\ running # None /\ running' # None /\ running[1] \in RunningBlock
           /\ running'[1].control = running[1].control
           /\ \E line \in Line : /\ line \in Printable(running[1].owner)
                                 /\ running'[1].lines = Append(running[1].lines, line)
                                 /\ ToSet(running'[1].lines) = ToSet(running[1].lines) \cup {line}
  <1>1. running # None /\ running[1] \in RunningBlock
    BY OptionCases DEF PrintLine, TmuxTypeOK, RunningBlock
  <1>2. PICK line \in Printable(running[1].owner) :
           running' = Some([running[1] EXCEPT !.lines = Append(@, line)])
    BY DEF PrintLine
  <1>3. line \in Line
    BY <1>1, <1>2, PrintableIsLine DEF RunningBlock
  <1>4. /\ running' # None /\ running'[1].lines = Append(running[1].lines, line)
        /\ running'[1].control = running[1].control
    BY <1>1, <1>2 DEF Some, None, RunningBlock
  <1>5. ToSet(Append(running[1].lines, line)) = ToSet(running[1].lines) \cup {line}
    BY <1>1, <1>3, AppendElements DEF RunningBlock
  <1> QED
    BY <1>1, <1>2, <1>3, <1>4, <1>5

(* What closing a block adds to the books. *)
LEMMA ServesBlock ==
    ASSUME TmuxTypeOK, NEW status \in {"ok", "failed", "lost"}, Serve(status)
    PROVE  /\ running # None /\ running' = None
           /\ \/ ~running[1].control /\ ToSet(served') = ToSet(served)
              \/ /\ running[1].control
                 /\ ToSet(served') =
                      ToSet(served) \cup {[status |-> status, lines |-> running[1].lines]}
  <1>1. running # None /\ running' = None
    BY DEF Serve
  <1>2. served \in Seq(Outcome)
    BY DEF TmuxTypeOK, Outcome
  <1>3. CASE ~InControl /\ served' = served
    BY <1>1, <1>3 DEF InControl
  <1>4. CASE /\ InControl
             /\ [status |-> status, lines |-> running[1].lines] \in Outcome
             /\ served' = Append(served, [status |-> status, lines |-> running[1].lines])
    BY <1>1, <1>2, <1>4, AppendElements DEF InControl
  <1> QED
    BY <1>3, <1>4, ServeServes

LEMMA EchoStays ==
    ASSUME TmuxTypeOK, Steady, TmuxNext, NoEcho', Tame
    PROVE  NoEcho
  <1>1. CASE Echoed = {}
    BY <1>1 DEF Steady
  <1>2. /\ \A block \in ToSet(served') : Guardless(block.lines)
        /\ running' # None => Guardless(running'[1].lines)
    BY DEF NoEcho, Guardless
  <1>3. ASSUME MaxInternal = 0, NEW status \in {"ok", "failed", "lost"}, Serve(status)
        PROVE  NoEcho
    <2>1. running # None /\ running[1].control
      BY <1>3, ServesBlock DEF Steady
    <2>2. ToSet(served') = ToSet(served) \cup {[status |-> status, lines |-> running[1].lines]}
      BY <1>3, <2>1, ServesBlock
    <2>3. Guardless([status |-> status, lines |-> running[1].lines].lines)
      BY <1>2, <2>2
    <2> QED
      BY <1>2, <2>2, <2>3, NoEchoMeans
  <1>4. CASE MaxInternal = 0 /\ (End \/ LoseEnd)
    <2>1. CASE End
      <3>1. PICK kind \in {"end", "error"} : Serve(IF kind = "end" THEN "ok" ELSE "failed")
        BY <2>1 DEF End
      <3> QED
        BY <1>3, <1>4, <3>1
    <2>2. CASE LoseEnd
      BY <1>3, <1>4, <2>2 DEF LoseEnd
    <2> QED
      BY <1>4, <2>1, <2>2
  <1>5. CASE PrintLine
    <2>1. served' = served
      BY <1>5 DEF PrintLine
    <2> QED
      BY <1>2, <1>5, <2>1, PrintsInBlock, NoEchoMeans DEF Guardless
  <1>6. CASE Begin \/ BeginInternal
    <2>1. served' = served /\ running = None
      BY <1>6 DEF Begin, BeginInternal, Open
    <2> QED
      BY <1>2, <2>1, NoEchoMeans
  <1>7. CASE Notify \/ Detach \/ Exit
    <2>1. UNCHANGED <<served, running>>
      BY <1>7 DEF Notify, Detach, Exit
    <2> QED
      BY <1>2, <2>1, NoEchoMeans
  <1> QED
    BY <1>1, <1>4, <1>5, <1>6, <1>7 DEF TmuxNext, Tame

LEMMA SteadyStays == ASSUME TmuxTypeOK, Steady, TmuxNext PROVE Steady'
  <1>1. CASE Begin \/ BeginInternal
    <2>1. /\ UNCHANGED <<served, lost>> /\ running'[1].lines = << >>
          /\ MaxInternal = 0 => running'[1].control
      <3>1. CASE Begin
        BY <1>1, <3>1 DEF Begin, Open, Some
      <3>2. CASE BeginInternal
        BY <1>1, <3>2 DEF BeginInternal, Open, Some, TmuxTypeOK
      <3> QED
        BY <1>1, <3>1, <3>2
    <2> QED
      BY <2>1, NoElements DEF Steady, NoEcho
  <1>2. CASE PrintLine
    <2>1. UNCHANGED <<served, lost>>
      BY <1>2 DEF PrintLine
    <2>2. Echoed = {} => \A line \in Printable(running[1].owner) : ~IsGuard(line)
      BY DEF Printable, Blank, IsGuard, GuardKind
    <2> QED
      BY <1>2, <2>1, <2>2, PrintsInBlock DEF Steady, NoEcho
  <1>3. ASSUME NEW status \in {"ok", "failed", "lost"}, Serve(status),
               lost' = 0 => lost = 0 /\ status # "lost"
        PROVE  Steady'
    <2>1. /\ running # None /\ running' = None
          /\ \/ ToSet(served') = ToSet(served)
             \/ ToSet(served') = ToSet(served) \cup {[status |-> status, lines |-> running[1].lines]}
      BY <1>3, ServesBlock
    <2>2. Echoed = {} => Guardless([status |-> status, lines |-> running[1].lines].lines)
      BY <2>1 DEF Steady, NoEcho, Guardless
    <2>3. Echoed = {} => NoEcho'
      BY <2>1, <2>2 DEF Steady, NoEcho, Guardless
    <2>4. lost' = 0 => \A outcome \in ToSet(served') : outcome.status # "lost"
      BY <1>3, <2>1 DEF Steady
    <2> QED
      BY <2>1, <2>3, <2>4 DEF Steady
  <1>4. CASE End
    <2>1. PICK kind \in {"end", "error"} :
             Serve(IF kind = "end" THEN "ok" ELSE "failed") /\ UNCHANGED lost
      BY <1>4 DEF End
    <2> QED
      BY <1>3, <2>1
  <1>5. CASE LoseEnd
    <2>1. lost' # 0 /\ Serve("lost")
      BY <1>5 DEF LoseEnd, TmuxTypeOK
    <2> QED
      BY <1>3, <2>1
  <1>6. CASE Notify \/ Detach \/ Exit
    <2>1. UNCHANGED <<served, running, lost>>
      BY <1>6 DEF Notify, Detach, Exit
    <2> QED
      BY <2>1 DEF Steady, NoEcho
  <1> QED
    BY <1>1, <1>2, <1>4, <1>5, <1>6 DEF TmuxNext

----------------------------------------------------------------------------
(* The task and tmux together: the calls get the ids of their own numbers, *)
(* commands are written in that order, and what the task reads from tmux,  *)
(* hands out and answers with is what tmux did for that very command.      *)

(* The future of call c is the c-th command, if it ever becomes one.       *)
Numbered ==
    /\ \A waiter \in waiters : waiter.id = waiter.call
    /\ InLoop =>
         /\ \A i \in 1 .. Len(requests) : requests[i] = next_id + i - 1
         /\ \A call \in CommandId : callers[call] # "unsent" <=> call < next_id + Len(requests)
         /\ writing # None => writing[1] = Current

(* The id of a torn line has none in the pipe. *)
Owed ==
    /\ InLoop => /\ taken + Len(toTmux) <= next_id
                 /\ task = "writing" => taken + Len(toTmux) < next_id
    /\ stdin = "torn" => /\ ~InLoop
                         /\ task = "detaching" => taken + Len(toTmux) < next_id

Honest ==
    /\ \A x \in ToSet(out) : x.type = "reply" => Right(x.id, x.result)
    /\ \A call \in CommandId : replies[call] # None => Right(call, replies[call][1])

Reading ==
    InLoop => /\ NoEcho => StreamFits(chunk \o toClient)
              /\ task # "feeding" => chunk = << >>

WireInv ==
    /\ TaskInv
    /\ InStep /\ Steady
    /\ Numbered /\ Owed /\ (NoEcho => Honest) /\ Reading

LEMMA InitWireInv == Init => WireInv
  <1> SUFFICES ASSUME Init PROVE WireInv
    OBVIOUS
  <1>1. TaskInv
    BY InitInv
  <1>2. TmuxInit /\ EngineInit /\ chunk = << >> /\ toClient = << >>
    BY DEF Init, TmuxInit
  <1>3. InStep /\ StreamFits(<< >>)
    BY <1>1, <1>2, StreamStarts, Parts
  <1>4. Len(<< >>) = 0
    OBVIOUS
  <1>5. Steady
    BY <1>2, NoElements DEF TmuxInit, Steady, NoEcho
  <1>6. Numbered
    BY <1>2, <1>4, BoundAssumption DEF Init, EngineInit, Numbered, CommandId
  <1>7. Owed
    BY <1>2, <1>4 DEF Init, TmuxInit, EngineInit, Owed
  <1>8. Honest
    BY NoElements DEF Init, Honest
  <1>9. Reading
    <2>1. << >> \o << >> = << >>
      BY ConcatEmptySeq, EmptySeq
    <2>2. StreamFits(chunk \o toClient)
      BY <1>2, <1>3, <2>1, Zenon
    <2> QED
      BY <1>2, <2>2 DEF Reading
  <1> QED
    BY <1>1, <1>3, <1>5, <1>6, <1>7, <1>8, <1>9 DEF WireInv

(* What the steps that follow use of the invariant. *)
LEMMA WireParts ==
    ASSUME WireInv
    PROVE  /\ IInv /\ TmuxTypeOK /\ OwnTypeOK /\ InStep
           /\ Len(served) \in Nat /\ taken \in Nat /\ next_id \in Nat /\ Len(toTmux) \in Nat
           /\ Len(served) <= taken /\ Len(requests) \in Nat
  <1>1. requests \in Seq(CommandId)
    BY Parts DEF WireInv, OwnTypeOK
  <1> QED
    BY <1>1, Parts, InStepCounts, LenProperties DEF WireInv

LEMMA SameHere ==
    ASSUME UNCHANGED engineVars PROVE Here' = Here /\ next_id' = next_id
  BY DEF engineVars, Here, Answered

(* The steps of a call or of the task leave what tmux did alone. *)
LEMMA TmuxStill ==
    ASSUME WireInv, UNCHANGED <<running, served, lost>>
    PROVE  (NoEcho' <=> NoEcho) /\ Steady'
  BY DEF WireInv, Steady, NoEcho

(* Nobody is told anything new, and no line moves.                         *)
LEMMA StillHonest ==
    ASSUME WireInv, UNCHANGED <<running, served, lost>>,
           ToSet(out') \subseteq ToSet(out), replies' = replies
    PROVE  NoEcho' => Honest'
  BY DEF WireInv, NoEcho, Honest, Right

LEMMA StillReading ==
    ASSUME WireInv, TmuxTypeOK', Here' = Here,
           UNCHANGED <<toClient, alive, number, running, served, lost, chunk>>,
           InLoop' => InLoop, task' # "feeding" => task # "feeding" \/ chunk = << >>
    PROVE  Reading'
  <1>1. PICK pre \in Seq(Line) : pre = chunk
    BY WireParts DEF OwnTypeOK
  <1>2. ASSUME InLoop', NoEcho' PROVE StreamFits(chunk \o toClient)'
    <2>1. NoEcho
      BY <1>2, TmuxStill
    <2>2. StreamFits(chunk \o toClient) /\ TmuxTypeOK
      BY <1>2, <2>1, WireParts DEF WireInv, Reading
    <2>3. StreamFits(pre \o toClient)
      BY <1>1, <2>2, Zenon
    <2>4. StreamFits(pre \o toClient)'
      BY <2>2, <2>3, StreamWaits
    <2>5. pre = chunk'
      BY <1>1
    <2> QED
      BY <2>4, <2>5, Zenon
  <1>3. ASSUME InLoop', task' # "feeding" PROVE chunk' = << >>
    BY <1>3 DEF WireInv, Reading
  <1> QED
    BY <1>2, <1>3 DEF Reading

(* Nothing is written and no command registered. *)
LEMMA StillInStep ==
    ASSUME WireInv, UNCHANGED <<next_id, toTmux, taken, running, served>>,
           InLoop' => InLoop, task' = "writing" => task = "writing", UNCHANGED stdin,
           task' = "detaching" => InLoop \/ task = "detaching"
    PROVE  InStep' /\ Owed'
  BY DEF WireInv, InStep, InControl, Owed

LEMMA StillNumbered ==
    ASSUME WireInv, UNCHANGED <<next_id, callers>>, waiters' \subseteq waiters,
           InLoop' => InLoop /\ UNCHANGED <<requests, writing>>
    PROVE  Numbered'
  BY DEF WireInv, Numbered, Current

LEMMA CallWire ==
    ASSUME WireInv, TaskInv', CallStep \/ DropClient
    PROVE  WireInv'
  <1>1. UNCHANGED engineVars /\ UNCHANGED tmuxVars /\ UNCHANGED taskVars /\ replies' = replies
    BY DEF CallStep, Call, Return, Cancel, DropClient
  <1>2. /\ UNCHANGED <<toTmux, toClient, taken, running, served, number, alive, lost>>
        /\ UNCHANGED <<task, writing, stdin, waiters, chunk, out>> /\ InLoop' = InLoop
        /\ next_id' = next_id /\ Here' = Here /\ TmuxTypeOK'
    BY <1>1, SameHere DEF tmuxVars, taskVars, InLoop, TaskInv, TaskTypeOK
  <1>3. InStep' /\ Owed' /\ Steady' /\ (NoEcho' => Honest') /\ Reading'
    BY <1>1, <1>2, StillInStep, TmuxStill, StillHonest, StillReading
  <1>4. Numbered'
    <2>1. CASE ~InLoop
      BY <1>2, <2>1 DEF WireInv, Numbered
    <2>2. ASSUME InLoop, UNCHANGED requests,
                 \A call \in CommandId : callers'[call] = "unsent" <=> callers[call] = "unsent"
          PROVE  Numbered'
      BY <1>2, <2>2 DEF WireInv, Numbered, Current
    <2>3. callers \in [CommandId -> {"unsent", "awaiting", "returned", "cancelled"}]
      BY WireParts DEF OwnTypeOK
    <2>4. ASSUME NEW call \in CommandId, Return(call) \/ Cancel(call), InLoop
          PROVE  Numbered'
      <3>1. /\ callers[call] = "awaiting" /\ UNCHANGED requests
            /\ callers' = [callers EXCEPT ![call] = "returned"]
                 \/ callers' = [callers EXCEPT ![call] = "cancelled"]
        BY <2>4 DEF Return, Cancel
      <3> QED
        BY <2>2, <2>3, <2>4, <3>1
    <2>5. CASE DropClient /\ InLoop
      BY <2>2, <2>5 DEF DropClient
    <2>6. ASSUME NEW call \in CommandId, Call(call), InLoop
          PROVE  Numbered'
      <3>1. /\ callers[call] = "unsent"
            /\ \A earlier \in 0 .. call - 1 : callers[earlier] # "unsent"
            /\ callers' = [callers EXCEPT ![call] = "awaiting"]
            /\ requests' = Append(requests, call)
        BY <2>6 DEF Call, InLoop, Ended
      <3>2. requests \in Seq(CommandId) /\ Len(requests) \in Nat /\ next_id \in Nat
        BY WireParts DEF OwnTypeOK
      <3>3. /\ Len(requests') = Len(requests) + 1 /\ requests'[Len(requests) + 1] = call
            /\ \A i \in 1 .. Len(requests) : requests'[i] = requests[i]
        BY <3>1, <3>2, AppendProperties
      <3>4. \A c \in CommandId : callers[c] # "unsent" <=> c < next_id + Len(requests)
        BY <2>6 DEF WireInv, Numbered
      <3>5. call = next_id + Len(requests)
        <4>1. call \in Nat /\ ~(call < next_id + Len(requests))
          BY <3>1, <3>4, BoundAssumption DEF CommandId
        <4>2. ASSUME next_id + Len(requests) < call PROVE FALSE
          <5>1. /\ next_id + Len(requests) \in 0 .. call - 1
                /\ next_id + Len(requests) \in CommandId
            BY <3>2, <4>1, <4>2, BoundAssumption DEF CommandId
          <5>2. callers[next_id + Len(requests)] = "unsent"
            BY <3>2, <3>4, <5>1
          <5> QED
            BY <3>1, <5>1, <5>2
        <4> QED
          BY <3>2, <4>1, <4>2
      <3>6. ASSUME NEW c \in CommandId
            PROVE  callers'[c] # "unsent" <=> c < next_id' + Len(requests')
        <4>1. c \in Nat
          BY BoundAssumption DEF CommandId
        <4>2. CASE c = call
          BY <1>2, <2>3, <3>1, <3>2, <3>3, <3>5, <4>2
        <4>3. CASE c # call
          BY <1>2, <2>3, <3>1, <3>2, <3>3, <3>4, <3>5, <4>1, <4>3
        <4> QED
          BY <4>2, <4>3
      <3>7. ASSUME NEW i \in 1 .. Len(requests')
            PROVE  requests'[i] = next_id' + i - 1
        <4>1. CASE i \in 1 .. Len(requests)
          BY <1>2, <2>6, <3>3, <4>1 DEF WireInv, Numbered
        <4>2. CASE i = Len(requests) + 1
          BY <1>2, <3>2, <3>3, <3>5, <4>2
        <4> QED
          BY <3>2, <3>3, <4>1, <4>2
      <3>8. /\ writing' # None => writing'[1] = Current'
            /\ \A waiter \in waiters' : waiter.id = waiter.call
        BY <1>2, <2>6 DEF WireInv, Numbered, Current
      <3> QED
        BY <3>6, <3>7, <3>8 DEF Numbered
    <2> QED
      BY <2>1, <2>4, <2>5, <2>6 DEF CallStep
  <1> QED
    BY <1>3, <1>4 DEF WireInv

LEMMA TakeRequestWire == ASSUME WireInv, TaskInv', TakeRequest PROVE WireInv'
  <1>1. next_id' = next_id + 1 /\ Here' = Here
    <2>1. RegisterCommand
      BY DEF TakeRequest
    <2>2. Answered' = Answered
      BY <2>1, RegisterKeepsAnswered, WireParts
    <2> QED
      BY <2>1, <2>2 DEF RegisterCommand, Here
  <1>2. /\ UNCHANGED <<toTmux, toClient, taken, running, served, number, alive, lost>>
        /\ UNCHANGED <<callers, replies, stdin, waiters, chunk, out>> /\ TmuxTypeOK'
        /\ task = "selecting" /\ task' = "writing" /\ InLoop /\ InLoop'
        /\ requests # << >> /\ requests' = Tail(requests) /\ writing' = Some(Head(requests))
    BY DEF TakeRequest, tmuxVars, callVars, InLoop, TaskInv, TaskTypeOK
  <1>3. InStep'
    <2>1. next_id' \in Nat /\ next_id <= next_id' /\ IInv /\ TmuxTypeOK /\ InStep
      BY <1>1, WireParts
    <2> QED
      BY <1>2, <2>1, KeepsInStep
  <1>4. Owed'
    BY <1>1, <1>2, WireParts DEF WireInv, Owed
  <1>5. Steady' /\ (NoEcho' => Honest') /\ Reading'
    BY <1>1, <1>2, TmuxStill, StillHonest, StillReading
  <1>6. Numbered'
    <2>1. requests \in Seq(CommandId) /\ next_id \in Nat
      BY WireParts DEF OwnTypeOK
    <2>2. /\ Len(requests) \in Nat \ {0} /\ Len(Tail(requests)) = Len(requests) - 1
          /\ Head(requests) = requests[1]
          /\ \A i \in 1 .. Len(requests) - 1 : Tail(requests)[i] = requests[i + 1]
      BY <1>2, <2>1, HeadTailProperties, EmptySeq
    <2>3. /\ \A i \in 1 .. Len(requests) : requests[i] = next_id + i - 1
          /\ \A call \in CommandId : callers[call] # "unsent" <=> call < next_id + Len(requests)
      BY <1>2 DEF WireInv, Numbered
    <2>4. ASSUME NEW i \in 1 .. Len(requests') PROVE requests'[i] = next_id' + i - 1
      <3>1. i + 1 \in 1 .. Len(requests) /\ requests'[i] = requests[i + 1]
        BY <1>2, <2>2
      <3> QED
        BY <1>1, <2>1, <2>3, <3>1
    <2>5. writing'[1] = Current'
      <3>1. writing'[1] = requests[1] /\ requests[1] = next_id + 1 - 1
        BY <1>2, <2>2, <2>3 DEF Some
      <3> QED
        BY <1>1, <2>1, <3>1 DEF Current
    <2>6. next_id' + Len(requests') = next_id + Len(requests)
      <3>1. Len(requests') = Len(requests) - 1
        BY <1>2, <2>2
      <3>2. Len(requests) \in Nat
        BY <2>2
      <3> QED
        BY <1>1, <2>1, <3>1, <3>2
    <2>7. \A call \in CommandId : callers'[call] # "unsent" <=> call < next_id' + Len(requests')
      BY <1>2, <2>3, <2>6
    <2>8. \A waiter \in waiters' : waiter.id = waiter.call
      BY <1>2 DEF WireInv, Numbered
    <2> QED
      BY <2>4, <2>5, <2>7, <2>8 DEF Numbered
  <1> QED
    BY <1>3, <1>4, <1>5, <1>6 DEF WireInv

LEMMA WrittenWire == ASSUME WireInv, TaskInv', Written PROVE WireInv'
  <1>1. UNCHANGED engineVars
    BY DEF Written
  <1>2. /\ UNCHANGED <<toClient, taken, running, served, number, alive, lost>>
        /\ UNCHANGED <<callers, replies, requests, stdin, chunk, out>> /\ TmuxTypeOK'
        /\ task = "writing" /\ task' = "selecting" /\ InLoop /\ InLoop' /\ writing' = None
        /\ toTmux' = Append(toTmux, 1)
        /\ waiters' = waiters \cup {[id |-> Current, call |-> writing[1]]}
    BY DEF Written, InputUnchanged, callVars, InLoop, TaskInv, TaskTypeOK
  <1>3. next_id' = next_id /\ Here' = Here
    BY <1>1, SameHere
  <1>4. taken + Len(toTmux) < next_id
    BY <1>2 DEF WireInv, Owed
  <1>5. InStep' /\ Len(toTmux') = Len(toTmux) + 1
    <2>1. IInv /\ TmuxTypeOK /\ InStep /\ next_id' \in Nat /\ next_id <= next_id'
      BY <1>3, WireParts
    <2>2. taken + Len(toTmux) < next_id'
      BY <1>3, <1>4
    <2> QED
      BY <1>2, <2>1, <2>2, WriteKeepsInStep
  <1>6. Owed'
    <2>1. taken + (Len(toTmux) + 1) <= next_id
      BY <1>4, WireParts
    <2>2. stdin # "torn"
      BY <1>2 DEF WireInv, Owed
    <2> QED
      BY <1>2, <1>3, <1>5, <2>1, <2>2 DEF Owed
  <1>7. Steady' /\ (NoEcho' => Honest') /\ Reading'
    <2>1. task # "feeding"
      BY <1>2
    <2> QED
      BY <1>2, <1>3, <2>1, TmuxStill, StillHonest, StillReading
  <1>8. Numbered'
    <2>1. writing # None
      BY <1>2, WireParts DEF OwnTypeOK
    <2>2. writing[1] = Current
      BY <1>2, <2>1 DEF WireInv, Numbered
    <2>3. \A waiter \in waiters' : waiter.id = waiter.call
      BY <1>2, <2>2 DEF WireInv, Numbered
    <2> QED
      BY <1>2, <1>3, <2>3 DEF WireInv, Numbered
  <1> QED
    BY <1>5, <1>6, <1>7, <1>8 DEF WireInv

(* The steps that leave the loop: only Disconnected is told after them.    *)
LEMMA LeavingWire ==
    ASSUME WireInv, TaskInv', HandlesDropped \/ WriteFails \/ ReadEnds \/ Reap
    PROVE  WireInv'
  <1>1. UNCHANGED engineVars /\ InputUnchanged
    BY DEF HandlesDropped, WriteFails, ReadEnds, Reap, InputUnchanged, tmuxVars
  <1>2. /\ UNCHANGED <<toClient, taken, running, served, number, alive, lost>>
        /\ UNCHANGED <<callers, out>> /\ waiters' \subseteq waiters
        /\ next_id' = next_id /\ ~InLoop' /\ task' # "writing"
    BY <1>1, SameHere
       DEF HandlesDropped, WriteFails, ReadEnds, Reap, InputUnchanged, callVars, InLoop
  <1>3. Steady' /\ Reading' /\ Numbered'
    BY <1>2, TmuxStill, StillNumbered DEF Reading
  <1>5. InStep' /\ Owed'
    <2>1. CASE HandlesDropped \/ ReadEnds \/ Reap
      <3>1. /\ UNCHANGED <<toTmux, stdin>>
            /\ task' = "detaching" => InLoop
        BY <2>1 DEF HandlesDropped, ReadEnds, ReadWins, Reap, tmuxVars, InLoop
      <3> QED
        BY <1>2, <3>1, StillInStep
    <2>2. CASE WriteFails
      <3>1. /\ task = "writing" /\ InLoop
            /\ \/ UNCHANGED toTmux
               \/ toTmux' = Append(toTmux, 1) /\ stdin' = "failed"
        BY <2>2 DEF WriteFails, InLoop
      <3>2. taken + Len(toTmux) < next_id
        BY <3>1 DEF WireInv, Owed
      <3>3. InStep'
        <4>1. IInv /\ TmuxTypeOK /\ InStep /\ next_id' \in Nat /\ next_id <= next_id'
          BY <1>2, WireParts
        <4>2. taken + Len(toTmux) < next_id'
          BY <1>2, <3>2
        <4>3. CASE toTmux' = toTmux
          BY <1>2, <4>1, <4>3, KeepsInStep
        <4>4. CASE toTmux' = Append(toTmux, 1)
          BY <1>2, <4>1, <4>2, <4>4, WriteKeepsInStep
        <4> QED
          BY <3>1, <4>3, <4>4
      <3>4. Owed'
        BY <1>2, <3>1, <3>2 DEF Owed
      <3> QED
        BY <3>3, <3>4
    <2> QED
      BY <2>1, <2>2
  <1>4. NoEcho' => Honest'
    <2>1. CASE replies' = replies
      BY <1>2, <2>1, StillHonest
    <2>2. CASE WriteFails
      <3>1. replies' = [replies EXCEPT ![writing[1]] = Some(Disconnected)]
            /\ replies \in [CommandId -> Option(CommandResult)]
        BY <2>2, WireParts DEF WriteFails, OwnTypeOK
      <3>2. ASSUME NoEcho', NEW call \in CommandId, replies'[call] # None
            PROVE  Right(call, replies[call][1])'
        <4>1. NoEcho
          BY <1>2, <3>2, TmuxStill
        <4>2. CASE replies'[call] = replies[call]
          BY <1>2, <3>2, <4>1, <4>2 DEF WireInv, Honest, Right
        <4>3. CASE replies'[call] = Some(Disconnected)
          <5>1. replies'[call][1] = Disconnected
            BY <4>3 DEF Some
          <5> QED
            BY <5>1 DEF Right
        <4> QED
          BY <3>1, <4>2, <4>3
      <3>3. ASSUME NoEcho'
            PROVE  (\A x \in ToSet(out) : x.type = "reply" => Right(x.id, x.result))'
        <4>1. NoEcho
          BY <1>2, <3>3, TmuxStill
        <4> QED
          BY <1>2, <4>1 DEF WireInv, Honest, Right
      <3> QED
        BY <3>2, <3>3 DEF Honest
    <2> QED
      BY <2>1, <2>2 DEF HandlesDropped, ReadEnds, Reap, callVars
  <1> QED
    BY <1>3, <1>4, <1>5 DEF WireInv

LEMMA TeardownWire == ASSUME WireInv, TaskInv', Teardown PROVE WireInv'
  <1>1. /\ OnEof /\ out' = incoming' /\ ~InLoop' /\ UNCHANGED <<callers, replies, waiters>>
        /\ UNCHANGED <<taken, running, served, lost>>
        /\ \/ toTmux' = toTmux
           \/ toTmux' = Append(toTmux, 0)
           \/ stdin = "torn" /\ toTmux' = Append(toTmux, 1)
        /\ task = "detaching" /\ task' = "draining"
    BY DEF Teardown, InputUnchanged, callVars, InLoop
  <1>2. next_id' = next_id
    BY <1>1 DEF OnEof
  <1>3. InStep'
    <2>1. IInv /\ TmuxTypeOK /\ InStep /\ next_id' \in Nat /\ next_id <= next_id'
      BY <1>2, WireParts
    <2>2. CASE toTmux' = toTmux
      BY <1>1, <2>1, <2>2, KeepsInStep
    <2>3. CASE toTmux' = Append(toTmux, 0)
      BY <1>1, <2>1, <2>3, WriteKeepsInStep
    <2>4. CASE stdin = "torn" /\ toTmux' = Append(toTmux, 1)
      <3>1. taken + Len(toTmux) < next_id'
        BY <1>1, <1>2, <2>4 DEF WireInv, Owed
      <3> QED
        BY <1>1, <2>1, <2>4, <3>1, WriteKeepsInStep
    <2> QED
      BY <1>1, <2>2, <2>3, <2>4
  <1>4. Owed' /\ Reading' /\ Numbered' /\ Steady'
    BY <1>1, <1>2, TmuxStill, StillNumbered DEF Owed, Reading
  <1>5. NoEcho' => Honest'
    <2>1. \A x \in ToSet(incoming') : x.result = Disconnected
      BY <1>1, EofSurfaces, WireParts DEF ToSet
    <2> QED
      BY <1>1, <2>1, TmuxStill DEF WireInv, Honest, Right
  <1> QED
    BY <1>3, <1>4, <1>5 DEF WireInv

LEMMA ReadWire == ASSUME WireInv, TaskInv', Read PROVE WireInv'
  <1>1. UNCHANGED engineVars
    BY DEF Read
  <1>2. /\ UNCHANGED <<toTmux, taken, running, served, number, alive, lost>>
        /\ UNCHANGED <<callers, replies, requests, writing, stdin, waiters, out>>
        /\ task = "selecting" /\ task' = "feeding" /\ InLoop /\ InLoop'
    BY DEF Read, ReadWins, callVars, InLoop
  <1>3. next_id' = next_id /\ Here' = Here /\ TmuxTypeOK /\ TmuxTypeOK'
    BY <1>1, SameHere, WireParts DEF TaskInv, TaskTypeOK
  <1>4. InStep' /\ Owed' /\ Steady' /\ Numbered' /\ (NoEcho' => Honest')
    BY <1>2, <1>3, StillInStep, TmuxStill, StillNumbered, StillHonest
  <1>5. ASSUME NoEcho' PROVE StreamFits(chunk \o toClient)'
    <2>1. NoEcho
      BY <1>2, <1>5, TmuxStill
    <2>2. chunk = << >> /\ StreamFits(chunk \o toClient)
      BY <1>2, <2>1 DEF WireInv, Reading
    <2>3. StreamFits(<< >> \o toClient)
      BY <2>2, Zenon
    <2>4. PICK n \in 1 .. Len(toClient) : /\ chunk' = SubSeq(toClient, 1, n)
                                          /\ toClient' = SubSeq(toClient, n + 1, Len(toClient))
      BY DEF Read
    <2>5. PICK pre : pre = SubSeq(toClient, 1, n)
      OBVIOUS
    <2>6. StreamFits(pre \o toClient)'
      BY <1>2, <1>3, <2>3, <2>4, <2>5, StreamIsRead
    <2>7. pre = chunk'
      BY <2>4, <2>5
    <2> QED
      BY <2>6, <2>7, Zenon
  <1> QED
    BY <1>2, <1>4, <1>5 DEF WireInv, Reading

(* What feeding the next line does to the stream and to the books.         *)
LEMMA FeedsRight ==
    ASSUME WireInv, NoEcho, FeedLine
    PROVE  /\ ~panicked' /\ StreamFits(chunk \o toClient)'
           /\ \A x \in ToSet(incoming') : x.type = "reply" => Right(x.id, x.result)
  <1>1. PICK pre \in Seq(Line) : pre = chunk
    BY WireParts DEF OwnTypeOK
  <1>2. /\ pre # << >> /\ UNCHANGED tmuxVars /\ task = "feeding" /\ OnLine(Head(pre))
        /\ ~panicked' => chunk' = Tail(pre)
    BY <1>1, Zenon DEF FeedLine
  <1>3. StreamFits(pre \o toClient)
    <2>1. StreamFits(chunk \o toClient)
      BY <1>2 DEF WireInv, Reading, InLoop
    <2> QED
      BY <1>1, <2>1, Zenon
  <1>4. UNCHANGED <<toClient, alive, number, running, served>>
    BY <1>2 DEF tmuxVars
  <1>5. TmuxTypeOK'
    BY <1>2, WireParts, KeepsTmuxType
  <1>6. IInv /\ TmuxTypeOK /\ InStep
    BY WireParts
  <1>7. /\ StreamFits(Tail(pre) \o toClient)' /\ panicked' = panicked
        /\ \A x \in ToSet(incoming') : x.type = "reply" => Right(x.id, x.result)
    BY <1>2, <1>3, <1>4, <1>5, <1>6, StreamIsFed
  <1>8. ~panicked
    BY <1>2 DEF OnLine
  <1>9. StreamFits(chunk \o toClient)'
    BY <1>2, <1>7, <1>8, Zenon
  <1> QED
    BY <1>7, <1>8, <1>9

LEMMA FeedWire == ASSUME WireInv, TaskInv', FeedLine PROVE WireInv'
  <1>1. /\ UNCHANGED tmuxVars /\ UNCHANGED <<callers, replies, writing, stdin>>
        /\ task' # "detaching" /\ task = "feeding" /\ InLoop /\ next_id' = next_id
        /\ \/ panicked' /\ ~InLoop' /\ waiters' = {} /\ out' = << >> /\ task' # "writing"
           \/ /\ ~panicked' /\ InLoop' /\ UNCHANGED <<requests, waiters>> /\ task' # "writing"
              /\ out' = out \o incoming' /\ (task' # "feeding" => chunk' = << >>)
    BY DEF FeedLine, OnLine, callVars, InLoop
  <1>2. UNCHANGED <<toTmux, taken, running, served, lost>>
    BY <1>1 DEF tmuxVars
  <1>3. Steady' /\ (NoEcho' => NoEcho)
    BY <1>2, TmuxStill
  <1>4. InStep' /\ Owed'
    BY <1>1, <1>2, StillInStep
  <1>5. waiters' \subseteq waiters /\ (InLoop' => UNCHANGED <<requests, writing>>)
    BY <1>1
  <1>6. Numbered'
    BY <1>1, <1>5, StillNumbered
  <1>7. Reading'
    BY <1>1, <1>3, FeedsRight DEF Reading
  <1>8. ASSUME NoEcho' PROVE Honest'
    <2>1. NoEcho /\ Honest
      BY <1>3, <1>8 DEF WireInv
    <2>2. \A x \in ToSet(incoming') : x.type = "reply" => Right(x.id, x.result)
      BY <2>1, FeedsRight
    <2>3. incoming' \in Seq(Incoming) /\ out \in Seq(Incoming)
      BY WireParts DEF TaskInv, TaskTypeOK, TypeOK, OwnTypeOK
    <2>4. ToSet(out') = {} \/ ToSet(out') = ToSet(out) \cup ToSet(incoming')
      <3>1. CASE out' = << >>
        BY <3>1, NoElements
      <3>2. CASE out' = out \o incoming'
        BY <2>3, <3>2, ConcatElements
      <3> QED
        BY <1>1, <3>1, <3>2
    <2>5. ASSUME NEW x \in ToSet(out'), x.type = "reply" PROVE Right(x.id, x.result)
      BY <2>1, <2>2, <2>4, <2>5 DEF Honest
    <2> QED
      BY <1>1, <1>2, <2>1, <2>5 DEF Honest, Right
  <1> QED
    BY <1>3, <1>4, <1>6, <1>7, <1>8 DEF WireInv

LEMMA HandOutWire == ASSUME WireInv, TaskInv', HandOut PROVE WireInv'
  <1>1. /\ UNCHANGED engineVars /\ UNCHANGED tmuxVars
        /\ UNCHANGED <<callers, requests, task, writing, stdin, chunk>>
        /\ waiters' \subseteq waiters
    BY DEF HandOut, Resolve
  <1>2. /\ next_id' = next_id /\ Here' = Here /\ TmuxTypeOK' /\ InLoop' = InLoop
        /\ UNCHANGED <<toTmux, toClient, taken, running, served, number, alive, lost>>
    BY <1>1, SameHere DEF tmuxVars, InLoop, TaskInv, TaskTypeOK
  <1>3. InStep' /\ Owed' /\ Steady' /\ Numbered' /\ Reading' /\ (NoEcho' => NoEcho)
    <2>1. task' # "feeding" => task # "feeding"
      BY <1>1
    <2> QED
      BY <1>1, <1>2, <2>1, StillInStep, TmuxStill, StillNumbered, StillReading
  <1>4. ASSUME NoEcho' PROVE Honest'
    <2>1. Honest
      BY <1>3, <1>4 DEF WireInv
    <2>2. /\ out # << >> /\ out' = Tail(out) /\ out \in Seq(Incoming)
      BY WireParts DEF HandOut, OwnTypeOK
    <2>3. ToSet(out) = {Head(out)} \cup ToSet(out')
      BY <2>2, TailElements
    <2>4. (\A x \in ToSet(out) : x.type = "reply" => Right(x.id, x.result))'
      BY <1>2, <2>1, <2>3 DEF Honest, Right
    <2>5. ASSUME NEW call \in CommandId, replies'[call] # None
          PROVE  Right(call, replies[call][1])'
      <3>1. CASE replies'[call] = replies[call]
        BY <1>2, <2>1, <2>5, <3>1 DEF Honest, Right
      <3>2. ASSUME replies'[call] # replies[call] PROVE Right(call, replies[call][1])'
        <4>1. /\ Head(out).type = "reply" /\ [id |-> Head(out).id, call |-> call] \in waiters
              /\ replies'[call] = Some(Head(out).result)
          BY <3>2 DEF HandOut, Resolve
        <4>2. Head(out).id = call
          BY <4>1 DEF WireInv, Numbered
        <4>3. Right(Head(out).id, Head(out).result)
          BY <2>1, <2>3, <4>1 DEF Honest
        <4>4. replies'[call][1] = Head(out).result
          BY <4>1 DEF Some
        <4> QED
          BY <1>2, <4>2, <4>3, <4>4 DEF Right
      <3> QED
        BY <3>1, <3>2
    <2> QED
      BY <2>4, <2>5 DEF Honest
  <1> QED
    BY <1>3, <1>4 DEF WireInv

LEMMA HandedOutWire == ASSUME WireInv, TaskInv', HandedOut PROVE WireInv'
  <1>1. /\ UNCHANGED engineVars /\ UNCHANGED tmuxVars
        /\ UNCHANGED <<callers, replies, requests, writing, stdin, waiters, chunk, out>>
        /\ task' \in {"selecting", "reaping"} /\ (InLoop' => InLoop) /\ task # "feeding"
    BY DEF HandedOut, callVars, InLoop
  <1>2. /\ next_id' = next_id /\ Here' = Here /\ TmuxTypeOK'
        /\ UNCHANGED <<toTmux, toClient, taken, running, served, number, alive, lost>>
    BY <1>1, SameHere DEF tmuxVars, TaskInv, TaskTypeOK
  <1> QED
    BY <1>1, <1>2, StillInStep, TmuxStill, StillNumbered, StillReading, StillHonest DEF WireInv

LEMMA PeerWire == ASSUME WireInv, TaskInv', Peer, Tame PROVE WireInv'
  <1>1. /\ TmuxNext /\ UNCHANGED engineVars
        /\ UNCHANGED <<callers, replies, requests, task, writing, stdin, waiters, chunk, out>>
    BY DEF Peer, callVars, taskVars
  <1>2. /\ next_id' = next_id /\ Here' = Here /\ IInv /\ TmuxTypeOK /\ InStep /\ TmuxTypeOK'
        /\ InLoop' = InLoop
    BY <1>1, SameHere, WireParts DEF InLoop, TaskInv, TaskTypeOK
  <1>3. InStep' /\ taken' + Len(toTmux') <= taken + Len(toTmux)
    BY <1>1, <1>2, PeerInStep
  <1>4. Steady' /\ (NoEcho' => NoEcho)
    BY <1>1, <1>2, SteadyStays, EchoStays DEF WireInv
  <1>5. Numbered'
    BY <1>1, <1>2, StillNumbered
  <1>6. Owed'
    <2>1. /\ taken \in Nat /\ Len(toTmux) \in Nat /\ next_id \in Nat
          /\ taken' \in Nat /\ Len(toTmux') \in Nat
      BY <1>2, WireParts, LenProperties DEF TmuxTypeOK
    <2> QED
      BY <1>1, <1>2, <1>3, <2>1 DEF WireInv, Owed
  <1>7. Reading'
    <2>1. PICK pre \in Seq(Line) : pre = chunk
      BY WireParts DEF OwnTypeOK
    <2>2. ASSUME InLoop, NoEcho' PROVE StreamFits(chunk \o toClient)'
      <3>1. StreamFits(chunk \o toClient)
        BY <1>4, <2>2 DEF WireInv, Reading
      <3>2. StreamFits(pre \o toClient)
        BY <2>1, <3>1, Zenon
      <3>3. running' # None => running'[1].lines \in Seq(ContentLine)
        <4>1. (TmuxTypeOK /\ Steady /\ NoEcho => PlainLines)'
          BY QuietIsPlain, PTL
        <4> QED
          BY <1>2, <1>4, <2>2, <4>1 DEF PlainLines
      <3>4. StreamFits(pre \o toClient)'
        BY <1>1, <1>2, <3>2, <3>3, StreamStep
      <3>5. pre = chunk'
        BY <1>1, <2>1
      <3> QED
        BY <3>4, <3>5, Zenon
    <2> QED
      BY <1>1, <1>2, <2>2 DEF WireInv, Reading
  <1>8. ASSUME NoEcho' PROVE Honest'
    <2>1. ServedGrows /\ Len(served') \in Nat
      BY <1>1, <1>2, PeerGrows, LenProperties DEF TmuxTypeOK
    <2>2. \A id \in Nat, result \in CommandResult : Right(id, result) => Right(id, result)'
      BY <1>2, <2>1, StaysRight
    <2>3. CommandId \subseteq Nat
      BY BoundAssumption DEF CommandId
    <2>4. Honest
      BY <1>4, <1>8 DEF WireInv
    <2>5. ASSUME NEW x \in ToSet(out), x.type = "reply" PROVE Right(x.id, x.result)'
      <3>1. x \in Incoming
        BY WireParts, LenProperties DEF OwnTypeOK, ToSet
      <3>2. x.id \in CommandId /\ x.result \in CommandResult
        BY <2>5, <3>1 DEF Incoming
      <3>3. Right(x.id, x.result)
        BY <2>4, <2>5 DEF Honest
      <3> QED
        BY <2>2, <2>3, <3>2, <3>3
    <2>6. ASSUME NEW call \in CommandId, replies[call] # None
          PROVE  Right(call, replies[call][1])'
      <3>1. Right(call, replies[call][1])
        BY <2>4, <2>6 DEF Honest
      <3>2. replies[call] \in Option(CommandResult)
        BY WireParts DEF OwnTypeOK
      <3>3. PICK result \in CommandResult : result = replies[call][1]
        BY <2>6, <3>2, OptionCases
      <3>4. Right(call, result)
        BY <3>1, <3>3, Zenon
      <3>5. Right(call, result)'
        BY <2>2, <2>3, <3>4
      <3>6. result = replies'[call][1]
        BY <1>1, <3>3
      <3> QED
        BY <3>5, <3>6, Zenon
    <2> QED
      BY <1>1, <2>5, <2>6 DEF Honest
  <1> QED
    BY <1>3, <1>4, <1>5, <1>6, <1>7, <1>8 DEF WireInv

LEMMA NextWireInv == ASSUME Tame PROVE WireInv /\ [Next]_vars => WireInv'
  <1> SUFFICES ASSUME WireInv, [Next]_vars PROVE WireInv'
    OBVIOUS
  <1>1. TaskInv'
    BY NextInv DEF WireInv
  <1>2. CASE CallStep \/ DropClient
    BY <1>1, <1>2, CallWire
  <1>3. CASE TaskStep
    BY <1>1, <1>3, TakeRequestWire, LeavingWire, WrittenWire, ReadWire, FeedWire, HandOutWire,
       HandedOutWire, TeardownWire DEF TaskStep
  <1>4. CASE Peer
    BY <1>1, <1>4, PeerWire
  <1>5. CASE UNCHANGED vars
    <2>1. UNCHANGED engineVars /\ UNCHANGED tmuxVars /\ UNCHANGED callVars /\ UNCHANGED taskVars
          /\ UNCHANGED requests
      BY <1>5 DEF vars
    <2>2. /\ UNCHANGED <<toTmux, toClient, taken, running, served, number, alive, lost>>
          /\ UNCHANGED <<callers, replies, task, writing, stdin, waiters, chunk, out>>
      BY <2>1 DEF tmuxVars, callVars, taskVars
    <2>3. Here' = Here /\ next_id' = next_id /\ TmuxTypeOK' /\ InLoop' = InLoop
      BY <1>1, <2>1, <2>2, SameHere DEF InLoop, TaskInv, TaskTypeOK
    <2> QED
      BY <1>1, <2>1, <2>2, <2>3, StillInStep, TmuxStill, StillNumbered, StillReading, StillHonest
         DEF WireInv
  <1> QED
    BY <1>2, <1>3, <1>4, <1>5 DEF Next

LEMMA SpecWireInv == ASSUME Tame PROVE Spec => []WireInv
  BY InitWireInv, NextWireInv, PTL DEF Spec

(* A call returns the outcome of its own command, complete, and only after *)
(* tmux has closed that command's block, whatever other calls are in       *)
(* flight, are cancelled or come after it (tokio_rt.rs:6-7, 85-86), as     *)
(* long as no closing guard gets lost.                                     *)
THEOREM AlwaysReturnsItsOwn == ASSUME Tame PROVE Spec => [](lost = 0 => ReturnsItsOwn)
  <1>1. WireInv => (lost = 0 => ReturnsItsOwn)
    <2> SUFFICES ASSUME WireInv, lost = 0, NoEcho, NEW call \in CommandId,
                        Returned(call) # Disconnected
                 PROVE  call < Len(served) /\ Returned(call) = served[call + 1]
      BY DEF ReturnsItsOwn
    <2>1. replies[call] # None /\ Returned(call) = replies[call][1]
      BY DEF Returned
    <2>2. Right(call, replies[call][1])
      BY <2>1 DEF WireInv, Honest
    <2>3. call \in Nat /\ TmuxTypeOK /\ PlainLines
      BY WireParts, QuietIsPlain, BoundAssumption DEF WireInv, CommandId
    <2> QED
      BY <2>1, <2>2, <2>3, RightIsOutcome
  <1> QED
    BY <1>1, SpecWireInv, PTL

----------------------------------------------------------------------------
(* The driver and its promise (Correlator).  The calls told in the loop    *)
(* are the first ones, in order; those answered and not yet told are in    *)
(* out, in order; those not told and written are the waiters.              *)

(* The id of the next waiter. *)
NextWaiter == IF task = "writing" THEN Current ELSE next_id

Waiting(first, next) == {[id |-> i, call |-> i] : i \in first .. next - 1}

OldestFirst ==
    \A i, j \in 1 .. Len(out) :
      i < j /\ out[i].type = "reply" /\ out[j].type = "reply" => out[i].id < out[j].id

Books ==
    /\ \A i \in 1 .. Len(told) : told[i].id = i - 1
    /\ InLoop =>
         /\ waiters = Waiting(Len(told), NextWaiter)
         /\ \A x \in ToSet(out) : x.type = "reply" => Len(told) <= x.id /\ x.id < Answered
         /\ \A id \in Len(told) .. Answered - 1 : \E x \in ToSet(out) : x.type = "reply" /\ x.id = id
         /\ OldestFirst
         /\ Len(told) <= Answered /\ Answered <= NextWaiter

LEMMA InitBooks == Init => Books
  <1> SUFFICES ASSUME Init PROVE Books
    OBVIOUS
  <1>1. /\ Len(<< >>) = 0 /\ 0 .. 0 - 1 = {} /\ 0 - 0 = 0
    OBVIOUS
  <1>2. /\ next_id = 0 /\ pending = << >> /\ waiters = {} /\ out = << >> /\ told = << >>
        /\ task = "selecting"
    BY DEF Init, EngineInit
  <1>3. Answered = 0 /\ NextWaiter = 0
    BY <1>1, <1>2 DEF Answered, NextWaiter
  <1> QED
    BY <1>1, <1>2, <1>3, NoElements DEF Books, Waiting, OldestFirst

LEMMA BooksParts ==
    ASSUME WireInv
    PROVE  /\ told \in Seq(Answer) /\ Len(told) \in Nat /\ next_id \in Nat
           /\ out \in Seq(Incoming) /\ Len(out) \in Nat
           /\ Answered \in Int /\ Answered <= next_id
  <1>1. told \in Seq(Answer) /\ out \in Seq(Incoming) /\ IInv
    BY WireParts DEF OwnTypeOK
  <1>2. Len(pending) \in Nat /\ next_id \in Nat
    BY <1>1, LenProperties DEF IInv, TypeOK
  <1> QED
    BY <1>1, <1>2, LenProperties DEF Answered

(* Steps at which nobody is answered, told or written for.                 *)
LEMMA QuietBooks ==
    ASSUME Books, UNCHANGED told,
           InLoop' => /\ InLoop /\ UNCHANGED <<waiters, out>>
                      /\ Answered' = Answered /\ NextWaiter' = NextWaiter
    PROVE  Books'
  BY DEF Books, OldestFirst

LEMMA TakeRequestBooks == ASSUME WireInv, Books, TakeRequest PROVE Books'
  <1>1. /\ next_id' = next_id + 1 /\ task = "selecting" /\ task' = "writing"
        /\ UNCHANGED <<told, waiters, out>> /\ RegisterCommand
    BY DEF TakeRequest, RegisterCommand
  <1>2. Answered' = Answered
    BY <1>1, RegisterKeepsAnswered, WireParts
  <1>3. NextWaiter' = NextWaiter
    BY <1>1, BooksParts DEF NextWaiter, Current
  <1> QED
    BY <1>1, <1>2, <1>3, QuietBooks DEF InLoop

LEMMA WrittenBooks == ASSUME WireInv, Books, Written PROVE Books'
  <1>1. /\ UNCHANGED <<next_id, pending, told, out>> /\ task = "writing" /\ task' = "selecting"
        /\ waiters' = waiters \cup {[id |-> Current, call |-> writing[1]]}
    BY DEF Written, engineVars
  <1>2. writing[1] = Current
    <2>1. writing # None
      BY <1>1, WireParts DEF OwnTypeOK
    <2> QED
      BY <1>1, <2>1 DEF WireInv, Numbered, InLoop
  <1>3. waiters = Waiting(Len(told), Current)
    BY <1>1 DEF Books, InLoop, NextWaiter
  <1>4. waiters' = Waiting(Len(told), next_id)
    <2>1. Len(told) <= Current /\ Current = next_id - 1 /\ Len(told) \in Nat /\ next_id \in Nat
      <3>1. Len(told) <= Answered /\ Answered <= Current
        BY <1>1 DEF Books, InLoop, NextWaiter
      <3> QED
        BY <3>1, BooksParts DEF Current
    <2>2. Len(told) .. next_id - 1 = (Len(told) .. Current - 1) \cup {Current}
      BY <2>1
    <2> QED
      BY <1>1, <1>2, <1>3, <2>2 DEF Waiting
  <1>5. Answered' = Answered /\ NextWaiter' = next_id /\ Answered <= next_id
    BY <1>1, BooksParts DEF Answered, NextWaiter
  <1> QED
    BY <1>1, <1>4, <1>5 DEF Books, InLoop, OldestFirst

LEMMA FeedBooks == ASSUME WireInv, TaskInv', Books, FeedLine PROVE Books'
  <1>1. CASE ~InLoop'
    BY <1>1, QuietBooks DEF FeedLine
  <1>2. ASSUME InLoop' PROVE Books'
    <2>1. /\ UNCHANGED <<told, waiters, next_id>> /\ OnLine(Head(chunk)) /\ task = "feeding"
          /\ out' = out \o incoming' /\ task' # "writing" /\ InLoop
          /\ chunk # << >> /\ chunk \in Seq(Line) /\ IInv
      BY <1>2, WireParts DEF FeedLine, OnLine, InLoop, OwnTypeOK
    <2>2. Head(chunk) \in Line /\ incoming' \in Seq(Incoming)
      BY <2>1, HeadTailProperties DEF TaskInv, TaskTypeOK, TypeOK
    <2>3. /\ NextWaiter' = next_id /\ NextWaiter = next_id /\ Len(told) \in Nat /\ next_id \in Nat
          /\ Answered \in Int /\ out \in Seq(Incoming)
      BY <2>1, BooksParts DEF NextWaiter
    <2>4. Answered' <= next_id'
      <3>1. IInv' /\ next_id \in Nat
        BY <2>3 DEF TaskInv, TaskTypeOK, IInv
      <3>2. Len(pending') \in Nat
        BY <3>1, LenProperties DEF IInv, TypeOK
      <3> QED
        BY <2>1, <3>1, <3>2 DEF Answered
    <2>5. /\ waiters' = Waiting(Len(told), next_id) /\ Len(told) <= Answered
          /\ \A x \in ToSet(out) : x.type = "reply" => Len(told) <= x.id /\ x.id < Answered
          /\ \A id \in Len(told) .. Answered - 1 :
               \E x \in ToSet(out) : x.type = "reply" /\ x.id = id
          /\ OldestFirst
      BY <2>1, <2>3 DEF Books
    <2>6. ASSUME out' = out, Answered' = Answered PROVE Books'
      BY <2>1, <2>3, <2>4, <2>5, <2>6 DEF Books, OldestFirst
    <2>7. ASSUME NEW x \in Incoming, incoming' = <<x>>,
                 \/ x.type # "reply" /\ Answered' = Answered
                 \/ x.type = "reply" /\ x.id = Answered /\ Answered' = Answered + 1
          PROVE  Books'
      <3>1. out' = Append(out, x)
        BY <2>1, <2>3, <2>7, AppendIsConcat
      <3>2. /\ Len(out') = Len(out) + 1 /\ Len(out) \in Nat /\ out'[Len(out) + 1] = x
            /\ \A i \in 1 .. Len(out) : out'[i] = out[i]
            /\ ToSet(out') = ToSet(out) \cup {x}
        BY <2>3, <3>1, AppendProperties, AppendElements, LenProperties
      <3>3. ASSUME NEW y \in ToSet(out'), y.type = "reply"
            PROVE  Len(told) <= y.id /\ y.id < Answered'
        <4>1. CASE y = x
          BY <2>3, <2>5, <2>7, <3>3, <4>1
        <4>2. CASE y \in ToSet(out)
          <5>1. y \in Incoming
            BY <2>3, <4>2, LenProperties, ElementOfSeq DEF ToSet
          <5>2. y.id \in Nat
            BY <3>3, <5>1, BoundAssumption DEF Incoming, CommandId
          <5> QED
            BY <2>3, <2>5, <2>7, <3>3, <4>2, <5>2
        <4> QED
          BY <3>2, <4>1, <4>2
      <3>4. ASSUME NEW id \in Len(told) .. Answered' - 1
            PROVE  \E y \in ToSet(out') : y.type = "reply" /\ y.id = id
        <4>1. CASE id \in Len(told) .. Answered - 1
          BY <2>5, <3>2, <4>1
        <4>2. CASE ~(id \in Len(told) .. Answered - 1)
          BY <2>3, <2>7, <3>2, <4>2
        <4> QED
          BY <4>1, <4>2
      <3>5. ASSUME NEW i \in 1 .. Len(out'), NEW j \in 1 .. Len(out'), i < j,
                   out'[i].type = "reply", out'[j].type = "reply"
            PROVE  out'[i].id < out'[j].id
        <4>1. i \in 1 .. Len(out) /\ out'[i] = out[i]
          BY <3>2, <3>5
        <4>2. CASE j \in 1 .. Len(out)
          BY <2>5, <3>2, <3>5, <4>1, <4>2 DEF OldestFirst
        <4>3. CASE j = Len(out) + 1
          <5>1. out[i] \in ToSet(out)
            BY <2>3, <4>1, LenProperties DEF ToSet
          <5>2. out[i].id < Answered
            BY <2>5, <3>5, <4>1, <5>1
          <5>3. out'[j].id = Answered
            BY <2>7, <3>2, <3>5, <4>3
          <5> QED
            BY <4>1, <5>2, <5>3
        <4> QED
          BY <3>2, <4>2, <4>3
      <3>6. Len(told) <= Answered'
        BY <2>3, <2>5, <2>7
      <3>7. OldestFirst'
        BY <3>5 DEF OldestFirst
      <3> QED
        BY <2>1, <2>3, <2>4, <2>5, <3>3, <3>4, <3>6, <3>7 DEF Books
    <2>8. CASE incoming' = << >> /\ Answered' = Answered
      <3>1. out' = out
        BY <2>1, <2>3, <2>8, ConcatEmptySeq
      <3> QED
        BY <2>6, <2>8, <3>1
    <2> QED
      BY <2>1, <2>2, <2>7, <2>8, LineSurfaces
  <1> QED
    BY <1>1, <1>2

(* out as HandOut takes it apart. *)
LEMMA OutParts ==
    ASSUME WireInv, out # << >>
    PROVE  /\ Head(out) \in Incoming /\ Head(out) = out[1] /\ Head(out) \in ToSet(out)
           /\ Len(out) \in Nat /\ Tail(out) \in Seq(Incoming) /\ Len(Tail(out)) = Len(out) - 1
           /\ \A i \in 1 .. Len(Tail(out)) : i + 1 \in 1 .. Len(out) /\ Tail(out)[i] = out[i + 1]
           /\ ToSet(out) = {Head(out)} \cup ToSet(Tail(out))
           /\ Head(out).type = "reply" => Head(out).id \in Nat /\ Head(out).result \in CommandResult
           /\ \A x \in ToSet(Tail(out)) : \E j \in 1 .. Len(out) : j > 1 /\ x = out[j]
  <1>1. out \in Seq(Incoming) /\ Len(out) \in Nat
    BY BooksParts
  <1>2. /\ Head(out) \in Incoming /\ Tail(out) \in Seq(Incoming)
        /\ ToSet(out) = {Head(out)} \cup ToSet(Tail(out))
    BY <1>1, TailElements
  <1>3. /\ Head(out) = out[1] /\ Len(Tail(out)) = Len(out) - 1
        /\ \A i \in 1 .. Len(Tail(out)) : i + 1 \in 1 .. Len(out) /\ Tail(out)[i] = out[i + 1]
    BY <1>1, HeadTailProperties
  <1>4. Head(out).type = "reply" => Head(out).id \in Nat /\ Head(out).result \in CommandResult
    BY <1>2, BoundAssumption DEF Incoming, CommandId
  <1>5. ASSUME NEW x \in ToSet(Tail(out))
        PROVE  \E j \in 1 .. Len(out) : j > 1 /\ x = out[j]
    <2>1. PICK i \in 1 .. Len(Tail(out)) : x = Tail(out)[i]
      BY <1>2, LenProperties DEF ToSet
    <2>2. i + 1 \in 1 .. Len(out) /\ i + 1 > 1 /\ x = out[i + 1]
      BY <1>1, <1>3, <2>1
    <2> QED
      BY <2>2
  <1> QED
    BY <1>1, <1>2, <1>3, <1>4, <1>5

(* The first reply in out is for the call that is told next, which waits.  *)
LEMMA NextTold ==
    ASSUME WireInv, Books, task = "resolving", out # << >>, Head(out).type = "reply"
    PROVE  /\ Head(out).id = Len(told) /\ Len(told) < next_id
           /\ [id |-> Len(told), call |-> Len(told)] \in waiters
           /\ waiters = Waiting(Len(told), next_id)
           /\ Waiting(Len(told) + 1, next_id) = {w \in waiters : w.id # Len(told)}
  <1>1. /\ waiters = Waiting(Len(told), next_id) /\ Answered <= next_id /\ OldestFirst
        /\ \A x \in ToSet(out) : x.type = "reply" => Len(told) <= x.id /\ x.id < Answered
        /\ \A id \in Len(told) .. Answered - 1 : \E x \in ToSet(out) : x.type = "reply" /\ x.id = id
    BY DEF Books, InLoop, NextWaiter
  <1>2. Len(told) \in Nat /\ next_id \in Nat /\ Answered \in Int /\ Head(out).id \in Nat
    BY BooksParts, OutParts
  <1>3. Len(told) <= Head(out).id /\ Head(out).id < Answered
    BY <1>1, OutParts
  <1>4. ASSUME Head(out).id # Len(told) PROVE FALSE
    <2>1. PICK x \in ToSet(out) : x.type = "reply" /\ x.id = Len(told)
      BY <1>1, <1>2, <1>3
    <2>2. x \in ToSet(Tail(out))
      BY <1>4, <2>1, OutParts
    <2>3. PICK j \in 1 .. Len(out) : j > 1 /\ x = out[j]
      BY <2>2, OutParts
    <2>4. 1 \in 1 .. Len(out) /\ 1 < j
      BY <2>3, OutParts
    <2>5. out[1].id < out[j].id
      BY <1>1, <2>1, <2>3, <2>4, OutParts DEF OldestFirst
    <2> QED
      BY <1>2, <1>3, <2>1, <2>3, <2>5, OutParts
  <1>5. Head(out).id = Len(told) /\ Len(told) < next_id
    BY <1>1, <1>2, <1>3, <1>4
  <1>6. [id |-> Len(told), call |-> Len(told)] \in waiters
    BY <1>1, <1>2, <1>5 DEF Waiting
  <1>7. ASSUME NEW w PROVE w \in Waiting(Len(told) + 1, next_id)
                             <=> w \in Waiting(Len(told), next_id) /\ w.id # Len(told)
    <2>1. ASSUME w \in Waiting(Len(told) + 1, next_id)
          PROVE  w \in Waiting(Len(told), next_id) /\ w.id # Len(told)
      <3>1. PICK i \in Len(told) + 1 .. next_id - 1 : w = [id |-> i, call |-> i]
        BY <2>1 DEF Waiting
      <3>2. i \in Len(told) .. next_id - 1 /\ i # Len(told)
        BY <1>2
      <3> QED
        BY <3>1, <3>2 DEF Waiting
    <2>2. ASSUME w \in Waiting(Len(told), next_id), w.id # Len(told)
          PROVE  w \in Waiting(Len(told) + 1, next_id)
      <3>1. PICK i \in Len(told) .. next_id - 1 : w = [id |-> i, call |-> i]
        BY <2>2 DEF Waiting
      <3>2. i # Len(told)
        BY <2>2, <3>1
      <3>3. i \in Len(told) + 1 .. next_id - 1
        BY <1>2, <3>2
      <3> QED
        BY <3>1, <3>3 DEF Waiting
    <2> QED
      BY <2>1, <2>2
  <1> QED
    BY <1>1, <1>5, <1>6, <1>7

LEMMA HandOutBooks == ASSUME WireInv, Books, HandOut PROVE Books'
  <1>1. /\ UNCHANGED <<next_id, pending, task>> /\ InLoop' = InLoop
        /\ out # << >> /\ out' = Tail(out)
    BY DEF HandOut, engineVars, InLoop
  <1>2. Answered' = Answered /\ NextWaiter' = NextWaiter
    BY <1>1 DEF Answered, NextWaiter, Current
  <1>3. CASE ~InLoop
    <2>1. told' = told
      BY <1>3 DEF HandOut, Resolve
    <2> QED
      BY <1>1, <1>3, <2>1, QuietBooks
  <1>4. ASSUME InLoop PROVE Books'
    <2>1. task = "resolving" /\ NextWaiter = next_id
      BY <1>4 DEF HandOut, InLoop, NextWaiter
    <2>2. /\ \A i \in 1 .. Len(told) : told[i].id = i - 1
          /\ waiters = Waiting(Len(told), next_id)
          /\ \A x \in ToSet(out) : x.type = "reply" => Len(told) <= x.id /\ x.id < Answered
          /\ \A id \in Len(told) .. Answered - 1 :
               \E x \in ToSet(out) : x.type = "reply" /\ x.id = id
          /\ OldestFirst
          /\ Len(told) <= Answered /\ Answered <= next_id
      BY <1>4, <2>1 DEF Books
    <2>3. Len(told) \in Nat /\ told \in Seq(Answer) /\ Answered \in Int /\ next_id \in Nat
      BY BooksParts
    <2>4. ASSUME NEW i \in 1 .. Len(out'), NEW j \in 1 .. Len(out'), i < j,
                 out'[i].type = "reply", out'[j].type = "reply"
          PROVE  out'[i].id < out'[j].id
      <3>1. /\ i + 1 \in 1 .. Len(out) /\ j + 1 \in 1 .. Len(out)
            /\ out'[i] = out[i + 1] /\ out'[j] = out[j + 1]
        BY <1>1, OutParts
      <3>2. i + 1 < j + 1
        BY <2>4
      <3> QED
        BY <2>2, <2>4, <3>1, <3>2 DEF OldestFirst
    <2>5. OldestFirst'
      BY <2>4 DEF OldestFirst
    <2>6. CASE Head(out).type = "notification"
      <3>1. UNCHANGED <<waiters, told>>
        BY <2>6 DEF HandOut
      <3>2. \A x : x \in ToSet(out') => x \in ToSet(out)
        BY <1>1, OutParts
      <3>3. \A x \in ToSet(out) : x.type = "reply" => x \in ToSet(out')
        BY <1>1, <2>6, OutParts
      <3> QED
        BY <1>1, <1>2, <1>4, <2>1, <2>2, <2>5, <3>1, <3>2, <3>3 DEF Books
    <2>7. CASE Head(out).type = "reply"
      <3>1. /\ Head(out).id = Len(told) /\ Len(told) < next_id
            /\ [id |-> Len(told), call |-> Len(told)] \in waiters
            /\ Waiting(Len(told) + 1, next_id) = {w \in waiters : w.id # Len(told)}
        BY <1>1, <2>1, <2>7, NextTold
      <3>2. /\ waiters' = {waiter \in waiters : waiter.id # Head(out).id}
            /\ told' = IF waiters' # waiters /\ InLoop
                       THEN Append(told, AnswerTo(Head(out).id, Head(out).result)) ELSE told
        BY <2>7 DEF HandOut, Resolve
      <3>3. waiters' = Waiting(Len(told) + 1, next_id) /\ waiters' # waiters
        BY <3>1, <3>2
      <3>4. told' = Append(told, AnswerTo(Len(told), Head(out).result))
        BY <1>4, <3>1, <3>2, <3>3
      <3>5. AnswerTo(Len(told), Head(out).result) \in Answer
        <4>1. Head(out) \in Incoming
          BY <1>1, OutParts
        <4> QED
          BY <2>7, <3>1, <4>1 DEF Incoming, Answer, AnswerTo
      <3>6. /\ Len(told') = Len(told) + 1
            /\ \A i \in 1 .. Len(told) : told'[i] = told[i]
            /\ told'[Len(told) + 1] = AnswerTo(Len(told), Head(out).result)
        BY <2>3, <3>4, <3>5, AppendProperties
      <3>7. ASSUME NEW i \in 1 .. Len(told') PROVE told'[i].id = i - 1
        <4>1. CASE i \in 1 .. Len(told)
          BY <2>2, <3>6, <4>1
        <4>2. CASE i = Len(told) + 1
          BY <2>3, <3>6, <4>2 DEF AnswerTo
        <4> QED
          BY <2>3, <3>6, <4>1, <4>2
      <3>8. ASSUME NEW x \in ToSet(out'), x.type = "reply"
            PROVE  Len(told') <= x.id /\ x.id < Answered'
        <4>1. PICK j \in 1 .. Len(out) : j > 1 /\ x = out[j]
          BY <1>1, <3>8, OutParts
        <4>2. x \in ToSet(out) /\ x \in Incoming
          BY <1>1, <3>8, OutParts, BooksParts, ElementOfSeq, LenProperties DEF ToSet
        <4>3. x.id \in Nat
          BY <3>8, <4>2, BoundAssumption DEF Incoming, CommandId
        <4>4. 1 \in 1 .. Len(out) /\ 1 < j
          BY <1>1, <4>1, OutParts
        <4>5. out[1].id < out[j].id
          BY <1>1, <2>2, <2>7, <3>8, <4>1, <4>4, OutParts DEF OldestFirst
        <4>6. Len(told) < x.id
          BY <1>1, <3>1, <4>1, <4>5, OutParts
        <4>7. Len(told) + 1 <= x.id
          BY <2>3, <4>3, <4>6
        <4> QED
          BY <1>2, <2>2, <3>6, <3>8, <4>2, <4>7
      <3>9. ASSUME NEW id \in Len(told') .. Answered' - 1
            PROVE  \E x \in ToSet(out') : x.type = "reply" /\ x.id = id
        <4>1. id \in Len(told) .. Answered - 1 /\ id # Len(told)
          BY <1>2, <2>3, <3>6
        <4>2. PICK x \in ToSet(out) : x.type = "reply" /\ x.id = id
          BY <2>2, <4>1
        <4>3. x \in ToSet(out')
          BY <1>1, <3>1, <4>1, <4>2, OutParts
        <4> QED
          BY <4>2, <4>3
      <3>10. Len(told') <= Answered'
        <4>1. Head(out).id < Answered
          BY <1>1, <2>2, <2>7, OutParts
        <4> QED
          BY <1>2, <2>3, <3>1, <3>6, <4>1
      <3> QED
        BY <1>1, <1>2, <2>1, <2>2, <2>5, <3>3, <3>6, <3>7, <3>8, <3>9, <3>10 DEF Books
    <2> QED
      BY <2>6, <2>7 DEF HandOut
  <1> QED
    BY <1>3, <1>4

LEMMA NextBooks == ASSUME WireInv, WireInv', Books, [Next]_vars PROVE Books'
  <1>1. ASSUME UNCHANGED <<told, next_id, pending>>,
               InLoop' => InLoop /\ UNCHANGED <<waiters, out>> /\ task # "writing" /\ task' # "writing"
        PROVE  Books'
    <2>1. InLoop' => Answered' = Answered /\ NextWaiter' = NextWaiter
      BY <1>1 DEF Answered, NextWaiter
    <2> QED
      BY <1>1, <2>1, QuietBooks
  <1>2. ASSUME UNCHANGED <<told, next_id, pending, waiters, out, task>> PROVE Books'
    <2>1. Answered' = Answered /\ NextWaiter' = NextWaiter /\ InLoop' = InLoop
      BY <1>2 DEF Answered, NextWaiter, Current, InLoop
    <2> QED
      BY <1>2, <2>1, QuietBooks
  <1>3. CASE CallStep \/ DropClient \/ Peer \/ UNCHANGED vars
    BY <1>2, <1>3
       DEF CallStep, Call, Return, Cancel, DropClient, Peer, vars, taskVars, engineVars
  <1>4. CASE HandlesDropped \/ WriteFails \/ ReadEnds \/ Teardown \/ Reap
    <2>1. told' = told /\ ~InLoop'
      BY <1>4 DEF HandlesDropped, WriteFails, ReadEnds, Teardown, Reap, InLoop
    <2> QED
      BY <2>1, QuietBooks
  <1>5. CASE Read \/ HandedOut
    BY <1>1, <1>5 DEF Read, ReadWins, HandedOut, engineVars, InLoop
  <1>6. CASE TakeRequest \/ Written \/ FeedLine \/ HandOut
    BY <1>6, TakeRequestBooks, WrittenBooks, FeedBooks, HandOutBooks DEF WireInv
  <1> QED
    BY <1>3, <1>4, <1>5, <1>6 DEF Next, TaskStep

Untold == [i \in 1 .. next_id - Len(told) |-> AnswerTo(Len(told) + i - 1, Disconnected)]

Answers == told \o (IF InLoop THEN << >> ELSE Untold)

LEMMA AnswersInLoop == ASSUME WireInv, InLoop PROVE Answers = told
  BY BooksParts, ConcatEmptySeq DEF Answers

LEMMA AbstractMeans ==
    /\ Abstract!Send <=>
         InLoop /\ next_id' = next_id + 1 /\ served' = served /\ Answers' = Answers
           /\ (~InLoop)' = ~InLoop
    /\ Abstract!Answer <=>
         /\ InLoop
         /\ Len(Answers) < Len(served)
         /\ Answers' = Append(Answers, AnswerTo(Len(Answers), served[Len(Answers) + 1]))
         /\ next_id' = next_id /\ served' = served /\ (~InLoop)' = ~InLoop
    /\ Abstract!EndSession <=>
         /\ InLoop /\ (~InLoop)' = TRUE
         /\ Answers' = Answers \o [i \in 1 .. next_id - Len(Answers) |->
                                    AnswerTo(Len(Answers) + i - 1, Disconnected)]
         /\ next_id' = next_id /\ served' = served
    /\ Abstract!vars = <<next_id, served, Answers, ~InLoop>>
  BY DEF Abstract!Send, Abstract!Answer, Abstract!EndSession, Abstract!vars, InLoop, Answers,
         Untold, AnswerTo

(* What every step of the refinement starts from. *)
Kept == WireInv /\ Books

Keeping == [Abstract!Next]_Abstract!vars

LEMMA PromiseStays == ASSUME UNCHANGED <<next_id, served, told>>, InLoop' <=> InLoop PROVE Keeping
  <1>1. (~InLoop)' = ~InLoop
    OBVIOUS
  <1>2. Answers' = Answers
    BY DEF Answers, Untold
  <1> QED
    BY <1>1, <1>2 DEF Keeping, Abstract!vars, InLoop, Answers, Untold

(* The loop is left: whoever is not told yet is told Disconnected.         *)
LEMMA PromiseEnds ==
    ASSUME Kept, InLoop, ~InLoop', UNCHANGED <<next_id, served, told>> PROVE Keeping
  <1>1. Answers = told /\ Answers' = told \o Untold
    BY AnswersInLoop DEF Kept, Answers, Untold
  <1>2. Answers' = Answers \o [i \in 1 .. next_id - Len(Answers) |->
                                 AnswerTo(Len(Answers) + i - 1, Disconnected)]
    BY <1>1 DEF Untold
  <1>3. Abstract!EndSession
    BY <1>2, AbstractMeans
  <1> QED
    BY <1>3 DEF Keeping, Abstract!Next

LEMMA PromiseSends == ASSUME Kept, Kept', TakeRequest PROVE Keeping
  <1>1. next_id' = next_id + 1 /\ UNCHANGED <<told, served>> /\ InLoop /\ InLoop'
    BY DEF TakeRequest, RegisterCommand, tmuxVars, InLoop
  <1>2. Answers' = Answers /\ (~InLoop)' = ~InLoop
    BY <1>1 DEF Answers
  <1>3. Abstract!Send
    BY <1>1, <1>2, AbstractMeans
  <1> QED
    BY <1>3 DEF Keeping, Abstract!Next

LEMMA PromiseAnswers ==
    ASSUME Kept, HandOut, task = "resolving", Head(out).type = "reply", NoEcho, lost = 0
    PROVE  Keeping
  <1>1. /\ UNCHANGED <<next_id, served, task>> /\ out # << >> /\ InLoop /\ InLoop' /\ WireInv /\ Books
    BY DEF HandOut, engineVars, tmuxVars, InLoop, Kept
  <1>2. /\ Head(out).id = Len(told) /\ waiters = Waiting(Len(told), next_id)
        /\ [id |-> Len(told), call |-> Len(told)] \in waiters
    BY <1>1, NextTold
  <1>3. told' = Append(told, AnswerTo(Len(told), Head(out).result))
    <2>1. /\ waiters' = {waiter \in waiters : waiter.id # Head(out).id}
          /\ told' = IF waiters' # waiters /\ InLoop
                     THEN Append(told, AnswerTo(Head(out).id, Head(out).result)) ELSE told
      BY DEF HandOut, Resolve
    <2>2. waiters' # waiters
      BY <1>2, <2>1
    <2> QED
      BY <1>1, <1>2, <2>1, <2>2
  <1>4. Head(out) \in ToSet(out) /\ Len(told) \in Nat
    BY <1>1, OutParts, BooksParts
  <1>5. Head(out).result # Disconnected
    BY <1>1, <1>4 DEF WireInv, TaskInv, NoEarlyEnd
  <1>6. Right(Len(told), Head(out).result)
    BY <1>1, <1>2, <1>4 DEF WireInv, Honest
  <1>7. Len(told) < Len(served) /\ Head(out).result = served[Len(told) + 1]
    <2>1. TmuxTypeOK /\ PlainLines
      BY <1>1, WireParts, QuietIsPlain DEF WireInv
    <2> QED
      BY <1>4, <1>5, <1>6, <2>1, RightIsOutcome
  <1>8. Answers = told /\ Answers' = told'
    <2>1. Answers = told
      BY <1>1, AnswersInLoop
    <2>2. AnswerTo(Len(told), Head(out).result) \in Answer
      <3>1. Head(out) \in Incoming /\ Head(out).id \in CommandId
        BY <1>1, OutParts DEF Incoming
      <3> QED
        BY <1>2, <3>1 DEF Incoming, Answer, AnswerTo
    <2>3. told' \in Seq(Answer)
      BY <1>1, <1>3, <2>2, BooksParts, AppendProperties
    <2>4. told' \o << >> = told'
      BY <2>3, ConcatEmptySeq
    <2> QED
      BY <1>1, <2>1, <2>4 DEF Answers
  <1>9. Answers' = Append(Answers, AnswerTo(Len(Answers), served[Len(Answers) + 1]))
    BY <1>3, <1>7, <1>8
  <1>10. Abstract!Answer
    BY <1>1, <1>7, <1>8, <1>9, AbstractMeans
  <1> QED
    BY <1>10 DEF Keeping, Abstract!Next

LEMMA PromisePeer == ASSUME Kept, Kept', Peer, NoEcho', lost' = 0 PROVE Keeping
  <1>1. /\ UNCHANGED <<next_id, told, task>> /\ TmuxNext /\ IInv /\ TmuxTypeOK /\ InStep
    BY WireParts DEF Peer, taskVars, engineVars, Kept
  <1>2. InLoop' <=> InLoop
    BY <1>1 DEF InLoop
  <1>3. PlainLines'
    <2>1. (TmuxTypeOK /\ Steady /\ NoEcho => PlainLines)'
      BY QuietIsPlain, PTL
    <2>2. TmuxTypeOK' /\ Steady'
      BY DEF Kept, WireInv, TaskInv, TaskTypeOK
    <2> QED
      BY <2>1, <2>2
  <1>4. CASE served' = served
    BY <1>1, <1>2, <1>4, PromiseStays
  <1>5. CASE served' # served
    <2>1. Answers' = Answers /\ (~InLoop)' = ~InLoop
      BY <1>1, <1>2 DEF Answers, Untold
    <2>2. Abstract!Execute
      BY <1>1, <1>3, <1>5, <2>1, PeerExecutes
         DEF Abstract!Execute, PlainOutcome, Answers, Untold, InLoop
    <2> QED
      BY <2>2 DEF Keeping, Abstract!Next
  <1> QED
    BY <1>4, <1>5

LEMMA PromiseStep == ASSUME Kept, Kept', [Next]_vars, NoEcho', lost' = 0 PROVE Keeping
  <1>1. CASE CallStep \/ DropClient \/ UNCHANGED vars
    <2>1. UNCHANGED <<next_id, served, told, task>>
      BY <1>1 DEF CallStep, Call, Return, Cancel, DropClient, vars, taskVars, engineVars, tmuxVars
    <2> QED
      BY <2>1, PromiseStays DEF InLoop
  <1>2. CASE HandlesDropped \/ WriteFails \/ ReadEnds
    <2>1. UNCHANGED <<next_id, served, told>> /\ InLoop /\ ~InLoop'
      BY <1>2 DEF HandlesDropped, WriteFails, ReadEnds, ReadWins, InputUnchanged, engineVars,
                  tmuxVars, InLoop
    <2> QED
      BY <2>1, PromiseEnds
  <1>3. CASE Written \/ Read \/ HandedOut \/ Teardown \/ Reap
    <2>1. UNCHANGED <<next_id, served, told>> /\ (InLoop' <=> InLoop)
      BY <1>3 DEF Written, Read, ReadWins, HandedOut, Teardown, Reap, OnEof, InputUnchanged,
                  engineVars, tmuxVars, InLoop
    <2> QED
      BY <2>1, PromiseStays
  <1>4. CASE FeedLine
    <2>1. UNCHANGED <<next_id, served, told>> /\ InLoop
      BY <1>4 DEF FeedLine, OnLine, tmuxVars, InLoop
    <2> QED
      BY <2>1, PromiseStays, PromiseEnds
  <1>5. CASE HandOut
    <2>1. /\ UNCHANGED <<next_id, running, served, lost, task>> /\ task \in {"resolving", "draining"}
          /\ InLoop' <=> InLoop
      BY <1>5 DEF HandOut, engineVars, tmuxVars, InLoop
    <2>2. NoEcho /\ lost = 0
      BY <2>1, TmuxStill DEF Kept
    <2>3. CASE task = "resolving" /\ Head(out).type = "reply"
      BY <1>5, <2>2, <2>3, PromiseAnswers
    <2>4. CASE ~(task = "resolving" /\ Head(out).type = "reply")
      <3>1. told' = told
        BY <1>5, <2>1, <2>4 DEF HandOut, Resolve, InLoop
      <3> QED
        BY <2>1, <3>1, PromiseStays
    <2> QED
      BY <2>3, <2>4
  <1>6. CASE Peer
    BY <1>6, PromisePeer
  <1> QED
    BY <1>1, <1>2, <1>3, <1>4, <1>5, <1>6, PromiseSends DEF Next, TaskStep

LEMMA PromiseInit == Init => Abstract!Init
  <1> SUFFICES ASSUME Init PROVE Abstract!Init
    OBVIOUS
  <1>1. next_id = 0 /\ served = << >> /\ told = << >> /\ InLoop
    BY DEF Init, EngineInit, TmuxInit, InLoop
  <1>2. Answers = << >>
    BY <1>1 DEF Answers
  <1>3. (~InLoop) = FALSE
    BY <1>1
  <1>4. Abstract!Init <=>
          next_id = 0 /\ served = << >> /\ Answers = << >> /\ (~InLoop) = FALSE
    BY DEF Abstract!Init, InLoop, Answers, Untold
  <1> QED
    BY <1>1, <1>2, <1>3, <1>4

(* Both async clients and tmux implement Correlator until a closing guard  *)
(* is lost or a guard printed: commands are executed in the order taken    *)
(* from the queue, each is told its own outcome, in order, and the end of  *)
(* the loop tells the rest that the session is over (tokio_rt.rs:140-195,  *)
(* smol_rt.rs:144-198).                                                    *)
THEOREM PromiseAlwaysKept ==
    ASSUME Tame PROVE Spec /\ [](lost = 0) => KeepsPromise
  <1>1. Init => Books
    BY InitBooks
  <1>2. WireInv /\ WireInv' /\ Books /\ [Next]_vars => Books'
    BY NextBooks
  <1>3. WireInv /\ WireInv' /\ Books /\ Books' /\ [Next]_vars /\ (lost = 0)'
          => (NoEcho' => [Abstract!Next]_Abstract!vars)
    BY PromiseStep DEF Kept, Keeping
  <1> QED
    BY <1>1, <1>2, <1>3, PromiseInit, SpecWireInv, PTL DEF Spec, KeepsPromise

=============================================================================
