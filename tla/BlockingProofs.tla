--------------------------- MODULE BlockingProofs ---------------------------
(***************************************************************************)
(* The blocking driver for every number of commands, every tmux and every  *)
(* line it may print: types, what Disconnected says, whose result command  *)
(* returns, that its writes never interleave, that no waiter is orphaned   *)
(* where nothing panics, and that the threads implement Correlator.        *)
(***************************************************************************)
EXTENDS Blocking, TmuxProofs

ReplyTo(id) == {x \in ToSet(out) : x.type = "reply" /\ x.id = id}

(* Nobody holds a Disconnected before the flag is down. *)
NoEarlyEnd ==
    /\ DisconnectedIsFinal
    /\ rx # None /\ rx[1] = Disconnected => ~connected
    /\ \A x \in ToSet(out) : x.type = "reply" /\ x.result = Disconnected => ~connected

(* The id of the command in progress is one that was handed out. *)
InProgress == caller \in {"writing", "waiting"} => next_id > 0

BlockingInv == BlockingTypeOK /\ FifoIntact /\ InProgress /\ NoEarlyEnd

(* A command that waits is in both books or its answer is being handed     *)
(* out, and out is empty whenever the lock is free.                        *)
Accounted ==
    /\ ~panicked /\ reader # "unwound"
    /\ reader \in {"draining", "done"} => pending = << >> /\ ~connected
    /\ out # << >> => reader \in {"feeding", "resolving", "draining"}
    /\ caller = "writing" => connected /\ pending # << >> /\ rx = None
    /\ waiters = IF caller = "waiting" /\ rx = None THEN {Current} ELSE {}
    /\ caller = "waiting" /\ rx = None => pending # << >> \/ ReplyTo(Current) # {}

----------------------------------------------------------------------------
LEMMA InitInv == Init => BlockingInv
  <1> SUFFICES ASSUME Init PROVE BlockingInv
    OBVIOUS
  <1>1. IInv /\ TmuxTypeOK
    BY InitIInv, TmuxInitType DEF Init
  <1>2. poisoned \in BOOLEAN /\ connected \in BOOLEAN
    BY Zenon DEF Init
  <1>3. ThreadTypeOK
    BY <1>2, EmptySeq, OptionIntro DEF Init, ThreadTypeOK, CallerStep, ReaderStep
  <1>4. NoEarlyEnd
    BY NoElements DEF Init, NoEarlyEnd, DisconnectedIsFinal, None
  <1>5. InProgress
    BY DEF Init, InProgress
  <1> QED
    BY <1>1, <1>3, <1>4, <1>5 DEF BlockingInv, IInv, BlockingTypeOK

(* The parts of the invariant, as the steps below use them.                *)
LEMMA Parts ==
    BlockingInv <=> IInv /\ TmuxTypeOK /\ ThreadTypeOK /\ InProgress /\ NoEarlyEnd
  BY DEF BlockingInv, BlockingTypeOK, IInv

(* Steps that neither answer nor register: what the invariant says of      *)
(* results stays as it is.                                                 *)
LEMMA QuietStep ==
    ASSUME NoEarlyEnd, UNCHANGED <<returned, rx, out, connected, next_id>>
    PROVE  NoEarlyEnd'
  BY DEF NoEarlyEnd, DisconnectedIsFinal, Current

LEMMA RegisterStep ==
    ASSUME BlockingInv, CommandRegister
    PROVE  BlockingInv'
  <1>1. IInv' /\ TmuxTypeOK'
    BY RegisterCommandIInv, KeepsTmuxType, Parts DEF CommandRegister
  <1>2. ThreadTypeOK'
    <2>1. poisoned' \in BOOLEAN /\ connected' \in BOOLEAN
      BY Parts, Zenon DEF CommandRegister, ThreadTypeOK
    <2> QED
      BY <2>1, Parts, OptionIntro DEF CommandRegister, ThreadTypeOK, CallerStep, ReaderStep
  <1>3. InProgress'
    <2>1. next_id \in 0 .. MaxCommands /\ next_id' = next_id + 1
      BY Parts DEF IInv, TypeOK, CommandRegister, RegisterCommand
    <2> QED
      BY <2>1, BoundAssumption DEF InProgress
  <1>4. NoEarlyEnd'
    BY Parts DEF CommandRegister, NoEarlyEnd, DisconnectedIsFinal, None
  <1> QED
    BY <1>1, <1>2, <1>3, <1>4 DEF BlockingInv, BlockingTypeOK, IInv

LEMMA WrittenStep ==
    ASSUME BlockingInv, CommandWritten
    PROVE  BlockingInv'
  <1>1. IInv' /\ UNCHANGED engineVars
    BY KeepsIInv, Parts DEF CommandWritten
  <1>2. TmuxTypeOK'
    <2>1. toTmux' \in Seq(Nat)
      BY AppendProperties, Parts DEF CommandWritten, TmuxTypeOK
    <2> QED
      BY <2>1, Parts DEF CommandWritten, InputUnchanged, TmuxTypeOK
  <1>3. ThreadTypeOK'
    <2>1. Current \in CommandId
      BY BoundAssumption, Parts
         DEF CommandWritten, InProgress, Current, CommandId, IInv, TypeOK
    <2>2. poisoned' \in BOOLEAN /\ connected' \in BOOLEAN
      BY Parts, Zenon DEF CommandWritten, ThreadTypeOK
    <2> QED
      BY <2>1, <2>2, Parts DEF CommandWritten, ThreadTypeOK, CallerStep, ReaderStep
  <1>4. NoEarlyEnd' /\ InProgress'
    BY <1>1, Parts, QuietStep DEF CommandWritten, InProgress, engineVars
  <1> QED
    BY <1>1, <1>2, <1>3, <1>4 DEF BlockingInv, BlockingTypeOK, IInv

(* What is appended to the history of results is one of them.              *)
LEMMA AnswerType ==
    ASSUME BlockingInv, caller \in {"writing", "waiting"}, NEW result \in CommandResult
    PROVE  /\ AnswerTo(Current, result) \in Answer
           /\ Append(returned, AnswerTo(Current, result)) \in Seq(Answer)
           /\ Append(told, AnswerTo(Current, result)) \in Seq(Answer)
           /\ ToSet(Append(returned, AnswerTo(Current, result)))
                = ToSet(returned) \cup {AnswerTo(Current, result)}
  <1>1. Current \in CommandId
    BY BoundAssumption, Parts DEF InProgress, Current, CommandId, IInv, TypeOK
  <1>2. AnswerTo(Current, result) \in Answer
    BY <1>1 DEF AnswerTo, Answer
  <1> QED
    BY <1>2, AppendElements, Parts DEF ThreadTypeOK

(* What a write may add to the pipe. *)
LEMMA WritesType ==
    ASSUME BlockingInv, InputUnchanged, NEW line \in Nat,
           toTmux' = toTmux \/ toTmux' = Append(toTmux, line)
    PROVE  TmuxTypeOK'
  <1>1. TmuxTypeOK /\ toTmux \in Seq(Nat)
    BY Parts DEF TmuxTypeOK
  <1>2. toTmux' \in Seq(Nat)
    BY <1>1, AppendProperties
  <1> QED
    BY <1>1, <1>2 DEF InputUnchanged, TmuxTypeOK

LEMMA WriteFailsStep ==
    ASSUME BlockingInv, CommandWriteFails
    PROVE  BlockingInv'
  <1>1. IInv' /\ TmuxTypeOK' /\ UNCHANGED engineVars
    <2>1. InputUnchanged /\ (toTmux' = toTmux \/ toTmux' = Append(toTmux, 1))
      BY DEF CommandWriteFails, MayArrive
    <2> QED
      BY <2>1, WritesType, KeepsIInv, Parts DEF CommandWriteFails
  <1>2. /\ Disconnected \in CommandResult /\ caller = "writing"
        /\ returned' = Append(returned, AnswerTo(Current, Disconnected))
        /\ told' = Append(told, AnswerTo(Current, Disconnected))
        /\ ~connected'
    BY EmptySeq DEF CommandWriteFails, Disconnected, CommandResult
  <1>3. ThreadTypeOK'
    <2>1. poisoned' \in BOOLEAN /\ connected' \in BOOLEAN
      BY Parts, Zenon DEF CommandWriteFails, ThreadTypeOK
    <2>2. returned' \in Seq(Answer) /\ told' \in Seq(Answer)
      BY <1>2, AnswerType
    <2>3. stdin' \in {"whole", "failed", "torn"}
      BY DEF CommandWriteFails
    <2> QED
      BY <2>1, <2>2, <2>3, Parts DEF CommandWriteFails, ThreadTypeOK, CallerStep, ReaderStep
  <1>4. InProgress'
    BY DEF CommandWriteFails, InProgress
  <1>5. NoEarlyEnd'
    <2>1. ToSet(returned') = ToSet(returned) \cup {AnswerTo(Current, Disconnected)}
      BY <1>2, AnswerType
    <2>2. Current' = Current /\ AnswerTo(Current, Disconnected).id = Current
      BY <1>1 DEF Current, engineVars, AnswerTo
    <2>3. DisconnectedIsFinal'
      BY <1>2, <2>1, <2>2, Parts DEF DisconnectedIsFinal, NoEarlyEnd
    <2> QED
      BY <1>2, <2>3 DEF NoEarlyEnd
  <1> QED
    BY <1>1, <1>3, <1>4, <1>5 DEF BlockingInv, BlockingTypeOK, IInv

LEMMA ReturnsStep ==
    ASSUME BlockingInv, CommandReturns
    PROVE  BlockingInv'
  <1>1. IInv' /\ TmuxTypeOK' /\ UNCHANGED engineVars
    BY KeepsIInv, KeepsTmuxType, Parts DEF CommandReturns
  <1>2. /\ rx[1] \in CommandResult /\ caller = "waiting" /\ rx # None
        /\ returned' = Append(returned, AnswerTo(Current, rx[1]))
    BY OptionCases, Parts DEF CommandReturns, ThreadTypeOK
  <1>3. ThreadTypeOK'
    <2>1. poisoned' \in BOOLEAN /\ connected' \in BOOLEAN
      BY Parts, Zenon DEF CommandReturns, ThreadTypeOK
    <2>2. returned' \in Seq(Answer)
      BY <1>2, AnswerType
    <2> QED
      BY <2>1, <2>2, OptionIntro, Parts DEF CommandReturns, ThreadTypeOK, CallerStep, ReaderStep
  <1>4. InProgress'
    BY DEF CommandReturns, InProgress
  <1>5. NoEarlyEnd'
    <2>1. ToSet(returned') = ToSet(returned) \cup {AnswerTo(Current, rx[1])}
      BY <1>2, AnswerType
    <2>2. /\ Current' = Current /\ AnswerTo(Current, rx[1]).id = Current
          /\ AnswerTo(Current, rx[1]).result = rx[1]
      BY <1>1 DEF Current, engineVars, AnswerTo
    <2>3. UNCHANGED <<connected, out>> /\ rx' = None
      BY DEF CommandReturns
    <2>4. DisconnectedIsFinal'
      BY <1>2, <2>1, <2>2, <2>3, Parts DEF DisconnectedIsFinal, NoEarlyEnd
    <2> QED
      BY <2>3, <2>4, Parts DEF NoEarlyEnd
  <1> QED
    BY <1>1, <1>3, <1>4, <1>5 DEF BlockingInv, BlockingTypeOK, IInv

(* Steps that move a thread, the lock or the chunk, and nothing that the   *)
(* invariant relates.                                                      *)
LEMMA MoveStep ==
    ASSUME BlockingInv, UNCHANGED engineVars, TmuxTypeOK',
           UNCHANGED <<connected, waiters, rx, out, events, told, returned>>,
           caller' \in CallerStep, reader' \in ReaderStep, poisoned' \in BOOLEAN,
           stdin' \in {"whole", "failed", "torn"},
           lock' \in {"free", "caller", "reader"}, chunk' \in Seq(Line),
           lock' = "caller" <=> caller' = "writing",
           lock' = "reader" <=> reader' \in {"feeding", "resolving", "draining"},
           caller' \in {"writing", "waiting"} => caller' = caller
    PROVE  BlockingInv'
  <1>1. IInv' /\ UNCHANGED next_id
    BY KeepsIInv, Parts DEF engineVars
  <1>2. connected' \in BOOLEAN
    BY Parts, Zenon DEF ThreadTypeOK
  <1>3. ThreadTypeOK'
    BY <1>2, Parts DEF ThreadTypeOK
  <1>4. InProgress'
    BY <1>1, Parts DEF InProgress
  <1>5. NoEarlyEnd'
    BY <1>1, Parts, QuietStep
  <1> QED
    BY <1>1, <1>3, <1>4, <1>5 DEF BlockingInv, BlockingTypeOK, IInv

LEMMA PanicsStep == ASSUME BlockingInv, CommandPanics PROVE BlockingInv'
  <1>1. poisoned' \in BOOLEAN
    BY Zenon DEF CommandPanics
  <1>2. TmuxTypeOK'
    <2>1. InputUnchanged /\ (toTmux' = toTmux \/ toTmux' = Append(toTmux, 1))
      BY DEF CommandPanics, MayArrive
    <2> QED
      BY <2>1, WritesType
  <1> QED
    BY <1>1, <1>2, MoveStep, Parts DEF CommandPanics, ThreadTypeOK, CallerStep

LEMMA DropSteps ==
    ASSUME BlockingInv, DropClient \/ DropDetach \/ DropJoin \/ DropReap
    PROVE  BlockingInv'
  <1>1. poisoned' \in BOOLEAN
    BY Parts, Zenon DEF DropClient, DropDetach, DropJoin, DropReap, ThreadTypeOK
  <1>2. TmuxTypeOK'
    <2>1. CASE DropDetach
      <3>1. InputUnchanged
        BY <2>1 DEF DropDetach
      <3>2. \/ toTmux' = toTmux \/ toTmux' = Append(toTmux, 0)
            \/ toTmux' = Append(toTmux, 1)
        BY <2>1 DEF DropDetach
      <3> QED
        BY <3>1, <3>2, WritesType
    <2>2. CASE DropClient \/ DropJoin \/ DropReap
      BY <2>2, KeepsTmuxType, Parts DEF DropClient, DropJoin, DropReap
    <2> QED
      BY <2>1, <2>2
  <1>3. CASE DropClient
    BY <1>1, <1>2, <1>3, MoveStep, Parts DEF DropClient, ThreadTypeOK, CallerStep
  <1>4. CASE DropDetach
    BY <1>1, <1>2, <1>4, MoveStep, Parts DEF DropDetach, ThreadTypeOK, CallerStep
  <1>5. CASE DropJoin
    BY <1>1, <1>2, <1>5, MoveStep, Parts DEF DropJoin, ThreadTypeOK, CallerStep
  <1>6. CASE DropReap
    BY <1>1, <1>2, <1>6, MoveStep, Parts DEF DropReap, ThreadTypeOK, CallerStep
  <1> QED
    BY <1>3, <1>4, <1>5, <1>6

LEMMA ReadSteps ==
    ASSUME BlockingInv, ReadLines \/ ReadEnds \/ DispatchLock \/ FeedReturns \/ Unlock
    PROVE  BlockingInv'
  <1>1. poisoned' \in BOOLEAN
    BY Parts, Zenon DEF ReadLines, ReadEnds, DispatchLock, FeedReturns, Unlock, ThreadTypeOK
  <1>2. CASE ReadLines
    <2>1. PICK n \in 1 .. Len(toClient) :
             /\ chunk' = SubSeq(toClient, 1, n)
             /\ toClient' = SubSeq(toClient, n + 1, Len(toClient))
      BY <1>2 DEF ReadLines
    <2>2. chunk' \in Seq(Line) /\ toClient' \in Seq(Line)
      BY <2>1, ReadType, Parts
    <2>3. TmuxTypeOK'
      BY <1>2, <2>2, Parts DEF ReadLines, TmuxTypeOK
    <2> QED
      BY <1>1, <1>2, <2>2, <2>3, MoveStep, Parts DEF ReadLines, ThreadTypeOK, ReaderStep
  <1>3. CASE ReadEnds \/ DispatchLock \/ FeedReturns \/ Unlock
    <2>1. TmuxTypeOK'
      BY <1>3, KeepsTmuxType, Parts DEF ReadEnds, DispatchLock, FeedReturns, Unlock
    <2>2. CASE ReadEnds
      BY <1>1, <2>1, <2>2, MoveStep, Parts DEF ReadEnds, ThreadTypeOK, ReaderStep
    <2>3. CASE DispatchLock
      BY <1>1, <2>1, <2>3, MoveStep, Parts DEF DispatchLock, ThreadTypeOK, ReaderStep
    <2>4. CASE FeedReturns
      BY <1>1, <2>1, <2>4, MoveStep, Parts DEF FeedReturns, ThreadTypeOK, ReaderStep
    <2>5. CASE Unlock
      BY <1>1, <2>1, <2>5, MoveStep, Parts DEF Unlock, ThreadTypeOK, ReaderStep
    <2> QED
      BY <1>3, <2>2, <2>3, <2>4, <2>5
  <1> QED
    BY <1>2, <1>3

LEMMA FeedLineStep ==
    ASSUME BlockingInv, FeedLine
    PROVE  BlockingInv'
  <1>1. /\ Head(chunk) \in Line /\ OnLine(Head(chunk)) /\ chunk' = Tail(chunk)
        /\ Tail(chunk) \in Seq(Line)
    BY TailElements, Parts DEF FeedLine, ThreadTypeOK
  <1>2. IInv' /\ TmuxTypeOK' /\ next_id' = next_id
    BY <1>1, OnLineIInv, KeepsTmuxType, Parts DEF FeedLine, OnLine
  <1>3. incoming' \in Seq(Incoming) /\ out \in Seq(Incoming)
    BY <1>2, Parts DEF IInv, TypeOK, ThreadTypeOK
  <1>4. ToSet(out \o incoming') = ToSet(out) \cup ToSet(incoming')
          /\ out \o incoming' \in Seq(Incoming)
    BY <1>3, ConcatElements
  <1>5. \A x \in ToSet(incoming') : x.type = "reply" => x.result # Disconnected
    BY <1>1, OnLineAnswers, Parts DEF RepliesIn, ToSet
  <1>6. UNCHANGED <<caller, connected, waiters, stdin, rx, events, told, returned>>
    BY DEF FeedLine
  <1>7. connected' \in BOOLEAN
    BY <1>6, Parts, Zenon DEF ThreadTypeOK
  <1>8. CASE panicked'
    <2>1. out' = << >> /\ reader' = "unwound" /\ lock' = "free" /\ poisoned' = TRUE
      BY <1>8 DEF FeedLine
    <2>2. poisoned' \in BOOLEAN
      BY <2>1, Zenon
    <2>3. reader = "feeding" /\ lock = "reader"
      BY Parts DEF FeedLine, ThreadTypeOK
    <2>4. ThreadTypeOK'
      BY <1>1, <1>6, <1>7, <2>1, <2>2, <2>3, EmptySeq, Parts DEF ThreadTypeOK, ReaderStep
    <2>5. NoEarlyEnd'
      BY <1>2, <1>6, <2>1, NoElements, Parts DEF NoEarlyEnd, DisconnectedIsFinal, Current
    <2> QED
      BY <1>2, <1>6, <2>4, <2>5, Parts DEF InProgress, BlockingInv, BlockingTypeOK, IInv
  <1>9. CASE ~panicked'
    <2>1. out' = out \o incoming' /\ UNCHANGED <<reader, poisoned, lock>>
      BY <1>9 DEF FeedLine
    <2>2. poisoned' \in BOOLEAN
      BY <2>1, Parts, Zenon DEF ThreadTypeOK
    <2>3. ThreadTypeOK'
      BY <1>1, <1>4, <1>6, <1>7, <2>1, <2>2, Parts DEF ThreadTypeOK
    <2>4. NoEarlyEnd'
      BY <1>2, <1>4, <1>5, <1>6, <2>1, Parts DEF NoEarlyEnd, DisconnectedIsFinal, Current
    <2> QED
      BY <1>2, <1>6, <2>3, <2>4, Parts DEF InProgress, BlockingInv, BlockingTypeOK, IInv
  <1> QED
    BY <1>8, <1>9

LEMMA HandOutStep ==
    ASSUME BlockingInv, HandOut
    PROVE  BlockingInv'
  <1>1. IInv' /\ TmuxTypeOK' /\ next_id' = next_id
    BY KeepsIInv, KeepsTmuxType, Parts DEF HandOut, engineVars
  <1>2. /\ Head(out) \in Incoming /\ Tail(out) \in Seq(Incoming)
        /\ ToSet(out) = {Head(out)} \cup ToSet(Tail(out))
        /\ out' = Tail(out)
    BY TailElements, Parts DEF HandOut, ThreadTypeOK
  <1>3. UNCHANGED <<caller, reader, lock, poisoned, connected, stdin, chunk, returned>>
    BY DEF HandOut
  <1>4. connected' \in BOOLEAN /\ poisoned' \in BOOLEAN
    BY <1>3, Parts, Zenon DEF ThreadTypeOK
  <1>5. CASE Resolve /\ UNCHANGED events
    <2> DEFINE head == Head(out)
    <2>1. head.id \in CommandId /\ head.result \in CommandResult /\ head.type = "reply"
      BY <1>2, <1>5 DEF Resolve, Incoming
    <2>2. /\ waiters' = waiters \ {head.id} /\ rx' = Some(head.result)
          /\ told' = Append(told, AnswerTo(head.id, head.result))
      BY <1>5 DEF Resolve
    <2>3. AnswerTo(head.id, head.result) \in Answer
      BY <2>1 DEF AnswerTo, Answer
    <2>4. told' \in Seq(Answer)
      BY <2>2, <2>3, AppendElements, Parts DEF ThreadTypeOK
    <2>5. rx' \in Option(CommandResult) /\ rx'[1] = head.result
      BY <2>1, <2>2, OptionIntro DEF Some
    <2> HIDE DEF head
    <2>6. ThreadTypeOK'
      BY <1>2, <1>3, <1>4, <1>5, <2>2, <2>4, <2>5, Parts DEF ThreadTypeOK
    <2>7. head.result = Disconnected => ~connected
      BY <1>2, <2>1, Parts DEF NoEarlyEnd, head
    <2>8. NoEarlyEnd'
      BY <1>1, <1>2, <1>3, <2>5, <2>7, Parts DEF NoEarlyEnd, DisconnectedIsFinal, Current
    <2> QED
      BY <1>1, <1>3, <2>6, <2>8, Parts DEF InProgress, BlockingInv, BlockingTypeOK, IInv
  <1>6. CASE UNCHANGED <<waiters, rx, told>> /\ events' \in Seq(Line)
    <2>1. ThreadTypeOK'
      BY <1>2, <1>3, <1>4, <1>6, Parts DEF ThreadTypeOK
    <2>2. NoEarlyEnd'
      BY <1>1, <1>2, <1>3, <1>6, Parts DEF NoEarlyEnd, DisconnectedIsFinal, Current
    <2> QED
      BY <1>1, <1>3, <2>1, <2>2, Parts DEF InProgress, BlockingInv, BlockingTypeOK, IInv
  <1>7. ASSUME Head(out).type = "notification" PROVE Append(events, Head(out).line) \in Seq(Line)
    <2>1. Head(out).line \in Line
      BY <1>2, <1>7 DEF Incoming
    <2> QED
      BY <2>1, AppendElements, Parts DEF ThreadTypeOK
  <1>8. events \in Seq(Line)
    BY Parts DEF ThreadTypeOK
  <1> QED
    BY <1>5, <1>6, <1>7, <1>8 DEF HandOut

LEMMA DisconnectStep ==
    ASSUME BlockingInv, Disconnect
    PROVE  BlockingInv'
  <1>1. IInv' /\ TmuxTypeOK' /\ next_id' = next_id
    BY OnEofIInv, OnEofAnswers, KeepsTmuxType, Parts DEF Disconnect
  <1>2. out' \in Seq(Incoming) /\ ~connected'
    BY <1>1 DEF Disconnect, IInv, TypeOK
  <1>3. connected' \in BOOLEAN /\ poisoned' \in BOOLEAN
    BY Parts, Zenon DEF Disconnect, ThreadTypeOK
  <1>4. ThreadTypeOK'
    BY <1>2, <1>3, Parts DEF Disconnect, ThreadTypeOK, ReaderStep
  <1>5. NoEarlyEnd'
    BY <1>1, <1>2, Parts DEF Disconnect, NoEarlyEnd, DisconnectedIsFinal, Current
  <1> QED
    BY <1>1, <1>4, <1>5, Parts DEF Disconnect, InProgress, BlockingInv, BlockingTypeOK, IInv

(* Every step, of either thread or of tmux, keeps the invariant.           *)
LEMMA NextInv == BlockingInv /\ [Next]_vars => BlockingInv'
  <1> SUFFICES ASSUME BlockingInv, [Next]_vars PROVE BlockingInv'
    OBVIOUS
  <1>1. CASE CommandStep
    BY <1>1, RegisterStep, WrittenStep, WriteFailsStep, PanicsStep, ReturnsStep DEF CommandStep
  <1>2. CASE DropClient \/ DropStep
    BY <1>2, DropSteps DEF DropStep
  <1>3. CASE ReaderStepTaken
    BY <1>3, ReadSteps, FeedLineStep, HandOutStep, DisconnectStep DEF ReaderStepTaken
  <1>4. CASE Peer
    <2>1. TmuxTypeOK'
      BY <1>4, TmuxStepType, Parts DEF Peer
    <2>2. ThreadTypeOK'
      BY <1>4, Parts DEF Peer, threadVars, ThreadTypeOK
    <2>3. InProgress'
      BY <1>4, Parts DEF Peer, threadVars, engineVars, InProgress
    <2> QED
      BY <1>4, <2>1, <2>2, <2>3, KeepsIInv, QuietStep, Parts
         DEF Peer, threadVars, engineVars, BlockingInv, BlockingTypeOK, IInv
  <1>5. CASE UNCHANGED vars
    <2>1. ThreadTypeOK'
      BY <1>5, Parts DEF vars, threadVars, ThreadTypeOK
    <2>2. InProgress'
      BY <1>5, Parts DEF vars, threadVars, engineVars, InProgress
    <2> QED
      BY <1>5, <2>1, <2>2, KeepsIInv, KeepsTmuxType, QuietStep, Parts
         DEF vars, threadVars, engineVars, BlockingInv, BlockingTypeOK, IInv
  <1> QED
    BY <1>1, <1>2, <1>3, <1>4, <1>5 DEF Next

LEMMA SpecInv == Spec => []BlockingInv
  BY InitInv, NextInv, PTL DEF Spec

(* Every value of the engine, of the pipes and of the two threads keeps    *)
(* its type, in either build and whatever tmux prints.                     *)
THEOREM BlockingTypeCorrect == Spec => []BlockingTypeOK
  <1>1. BlockingInv => BlockingTypeOK
    BY DEF BlockingInv
  <1> QED
    BY <1>1, SpecInv, PTL

(* A command is told Disconnected only when no later one can succeed, in   *)
(* either build and whatever tmux prints (blocking.rs:113).                *)
THEOREM DisconnectedAlwaysFinal == Spec => []DisconnectedIsFinal
  <1>1. BlockingInv => DisconnectedIsFinal
    BY DEF BlockingInv, NoEarlyEnd
  <1> QED
    BY <1>1, SpecInv, PTL

----------------------------------------------------------------------------
(* No waiter is orphaned, in a release build. *)

LEMMA InitAccounted == Init => Accounted
  BY NoElements DEF Init, EngineInit, Accounted, ReplyTo

(* The steps of command and drop: only the caller's side of the books.     *)
LEMMA CallerAccounted ==
    ASSUME BlockingInv, Accounted, CommandStep \/ DropClient \/ DropStep
    PROVE  Accounted'
  <1>1. UNCHANGED <<reader, out>>
    BY DEF CommandStep, CommandRegister, CommandWritten, CommandWriteFails, CommandPanics,
           CommandReturns, DropClient, DropStep, DropDetach, DropJoin, DropReap
  <1>2. CASE CommandRegister
    <2>1. pending' # << >>
      <3>1. pending \in Seq(CommandId) /\ next_id \in CommandId
        BY <1>2, BoundAssumption, Parts
           DEF IInv, TypeOK, CommandRegister, RegisterCommand, CommandId
      <3>2. Len(pending') = Len(pending) + 1 /\ Len(pending) \in Nat
        BY <1>2, <3>1, AppendProperties, LenProperties DEF CommandRegister, RegisterCommand
      <3> QED
        BY <3>2
    <2> QED
      BY <1>1, <1>2, <2>1 DEF CommandRegister, RegisterCommand, Accounted
  <1>3. CASE CommandWritten
    BY <1>1, <1>3 DEF CommandWritten, engineVars, Accounted, Current
  <1>4. CASE CommandWriteFails \/ CommandPanics \/ CommandReturns
    BY <1>1, <1>4
       DEF CommandWriteFails, CommandPanics, CommandReturns, engineVars, Accounted, None
  <1>5. CASE DropClient \/ DropStep
    BY <1>1, <1>5
       DEF DropClient, DropStep, DropDetach, DropJoin, DropReap, engineVars, Accounted
  <1> QED
    BY <1>2, <1>3, <1>4, <1>5 DEF CommandStep

LEMMA ReadAccounted ==
    ASSUME BlockingInv, Accounted, ReadLines \/ ReadEnds \/ DispatchLock \/ FeedReturns \/ Unlock
    PROVE  Accounted'
  <1>1. /\ UNCHANGED <<panicked, pending, next_id, connected, caller, rx, waiters, out>>
        /\ reader' # "unwound"
        /\ reader' \in {"draining", "done"} => reader \in {"draining", "done"}
        /\ out # << >> => reader' \in {"feeding", "resolving", "draining"}
    BY DEF ReadLines, ReadEnds, DispatchLock, FeedReturns, Unlock, engineVars, Accounted
  <1>2. ReplyTo(Current)' = ReplyTo(Current) /\ Current' = Current
    BY <1>1 DEF ReplyTo, Current
  <1> QED
    BY <1>1, <1>2 DEF Accounted

(* A command whose id leaves the FIFO is in what the line surfaced.        *)
LEMMA FeedLineAccounted ==
    ASSUME BlockingInv, Accounted, FeedLine, ~panicked'
    PROVE  Accounted'
  <1>1. Head(chunk) \in Line /\ OnLine(Head(chunk)) /\ reader = "feeding"
    BY TailElements, Parts DEF FeedLine, ThreadTypeOK
  <1>2. ~panicked' /\ next_id' = next_id /\ Current' = Current
    BY <1>1, OnLineAnswers, Parts DEF Accounted, OnLine, Current
  <1>3. /\ out' = out \o incoming' /\ UNCHANGED <<reader, lock>>
        /\ UNCHANGED <<caller, connected, waiters, rx>>
    BY <1>2 DEF FeedLine
  <1>4. incoming' \in Seq(Incoming) /\ out \in Seq(Incoming)
    BY <1>1, OnLineIInv, Parts DEF IInv, TypeOK, ThreadTypeOK
  <1>5. ToSet(out') = ToSet(out) \cup ToSet(incoming')
    BY <1>3, <1>4, ConcatElements
  <1>6. caller # "writing"
    BY <1>1, Parts DEF ThreadTypeOK
  <1>7. ReplyTo(Current) \subseteq ReplyTo(Current)'
    BY <1>2, <1>5 DEF ReplyTo
  <1>8. ASSUME pending # << >>, pending' = << >> PROVE ReplyTo(Current)' # {}
    <2>1. PICK k \in RepliesIn(incoming') : incoming'[k].id = Current
      BY <1>1, <1>8, OnLineAnswers, Parts DEF Current
    <2>2. incoming'[k] \in ToSet(incoming') /\ incoming'[k].type = "reply"
      BY <2>1 DEF RepliesIn, ToSet
    <2> QED
      BY <1>2, <1>5, <2>1, <2>2 DEF ReplyTo
  <1>9. caller = "waiting" /\ rx = None => pending' # << >> \/ ReplyTo(Current)' # {}
    BY <1>7, <1>8 DEF Accounted
  <1> QED
    BY <1>1, <1>2, <1>3, <1>6, <1>9 DEF Accounted

LEMMA HandOutAccounted ==
    ASSUME BlockingInv, Accounted, HandOut
    PROVE  Accounted'
  <1>1. ToSet(out) = {Head(out)} \cup ToSet(out')
    BY TailElements, Parts DEF HandOut, ThreadTypeOK
  <1>2. /\ UNCHANGED <<panicked, pending, next_id, caller, reader, connected>>
        /\ reader \in {"resolving", "draining"} /\ Current' = Current
    BY DEF HandOut, engineVars, Current
  <1>3. caller # "writing"
    BY <1>2, Parts DEF ThreadTypeOK
  <1>4. CASE Resolve
    <2>1. waiters' = waiters \ {Head(out).id} /\ rx' # None /\ Head(out).id \in waiters
      BY <1>4 DEF Resolve, Some, None
    <2>2. waiters = {Current} /\ waiters' = {}
      BY <2>1 DEF Accounted
    <2> QED
      BY <1>2, <1>3, <2>1, <2>2 DEF Accounted
  <1>5. CASE /\ UNCHANGED <<waiters, rx>>
             /\ Head(out).type = "reply" => Head(out).id \notin waiters
    <2>1. ASSUME caller = "waiting", rx = None PROVE ReplyTo(Current)' = ReplyTo(Current)
      <3>1. Head(out) \notin ReplyTo(Current)
        BY <1>5, <2>1 DEF Accounted, ReplyTo
      <3> QED
        BY <1>1, <1>2, <3>1 DEF ReplyTo
    <2> QED
      BY <1>2, <1>3, <1>5, <2>1 DEF Accounted
  <1> QED
    BY <1>4, <1>5 DEF HandOut

(* The end of the stream moves the whole FIFO into what is handed out.     *)
LEMMA DisconnectAccounted ==
    ASSUME BlockingInv, Accounted, Disconnect
    PROVE  Accounted'
  <1>1. /\ pending' = << >> /\ UNCHANGED <<next_id, panicked>> /\ Current' = Current
        /\ pending # << >> => \E k \in RepliesIn(incoming') : incoming'[k].id = Current
    BY OnEofAnswers, Parts DEF Disconnect, Current
  <1>2. /\ out' = incoming' /\ reader = "eof" /\ reader' = "draining" /\ ~connected'
        /\ lock = "free" /\ UNCHANGED <<caller, waiters, rx>>
    BY DEF Disconnect
  <1>3. caller # "writing"
    BY <1>2, Parts DEF ThreadTypeOK
  <1>4. out = << >>
    BY <1>2 DEF Accounted
  <1>5. ASSUME caller = "waiting", rx = None PROVE ReplyTo(Current)' # {}
    <2>1. pending # << >>
      BY <1>4, <1>5, NoElements DEF Accounted, ReplyTo
    <2>2. PICK k \in RepliesIn(incoming') : incoming'[k].id = Current
      BY <1>1, <2>1
    <2>3. incoming'[k] \in ToSet(incoming') /\ incoming'[k].type = "reply"
      BY <2>2 DEF RepliesIn, ToSet
    <2> QED
      BY <1>1, <1>2, <2>2, <2>3 DEF ReplyTo
  <1> QED
    BY <1>1, <1>2, <1>3, <1>5 DEF Accounted

LEMMA NextAccounted ==
    ASSUME BlockingInv, Accounted, [Next]_vars, ~panicked'
    PROVE  Accounted'
  <1>1. CASE CommandStep \/ DropClient \/ DropStep
    BY <1>1, CallerAccounted
  <1>2. CASE ReaderStepTaken
    BY <1>2, ReadAccounted, FeedLineAccounted, HandOutAccounted, DisconnectAccounted
       DEF ReaderStepTaken
  <1>3. CASE Peer \/ UNCHANGED vars
    <2>1. UNCHANGED <<panicked, pending, next_id, connected, caller, reader, rx, waiters, out>>
      BY <1>3 DEF Peer, vars, threadVars, engineVars
    <2>2. ReplyTo(Current)' = ReplyTo(Current) /\ Current' = Current
      BY <2>1 DEF ReplyTo, Current
    <2> QED
      BY <2>1, <2>2 DEF Accounted
  <1> QED
    BY <1>1, <1>2, <1>3 DEF Next

LEMMA StrandsNobody == BlockingInv /\ Accounted => NobodyStranded
  <1> SUFFICES ASSUME BlockingInv, Accounted, caller = "waiting", rx = None, lock = "free"
               PROVE  /\ pending # << >> /\ pending[Len(pending)] = Current
                      /\ waiters = {Current} /\ reader \notin {"done", "unwound"}
    BY DEF NobodyStranded
  <1>1. out = << >>
    BY Parts DEF ThreadTypeOK, Accounted
  <1>2. pending # << >>
    BY <1>1, NoElements DEF Accounted, ReplyTo
  <1>3. pending[Len(pending)] = Current
    BY <1>2, NewestIsLast, Parts DEF Current
  <1> QED
    BY <1>2, <1>3 DEF Accounted

(* The assertion is compiled out. *)
LEMMA ReleaseKeepsOn ==
    ASSUME BlockingInv, Accounted, [Next]_vars, ~DebugAssertions
    PROVE  ~panicked'
  <1>1. CASE FeedLine
    <2>1. Head(chunk) \in Line /\ OnLine(Head(chunk))
      BY <1>1, TailElements, Parts DEF FeedLine, ThreadTypeOK
    <2> QED
      BY <2>1, OnLineAnswers, Parts DEF Accounted, OnLine
  <1>2. CASE panicked' = panicked
    BY <1>2 DEF Accounted
  <1> QED
    BY <1>1, <1>2
       DEF Next, CommandStep, CommandRegister, RegisterCommand, CommandWritten, CommandWriteFails,
           CommandPanics, CommandReturns, DropClient, DropStep, DropDetach, DropJoin, DropReap,
           ReaderStepTaken, ReadLines, ReadEnds, DispatchLock, FeedReturns, HandOut, Unlock,
           Disconnect, OnEof, Peer, vars, engineVars

(* Out of the critical section a command that waits is in both books and   *)
(* the reader that must answer it is alive, in every release build and     *)
(* whatever tmux prints, guard-shaped output and lost guards included      *)
(* (docs/roadmap.md:68-70).                                                *)
THEOREM NobodyEverStranded == ~DebugAssertions => (Spec => []NobodyStranded)
  <1> SUFFICES ASSUME ~DebugAssertions PROVE Spec => []NobodyStranded
    OBVIOUS
  <1>1. Init => BlockingInv /\ Accounted
    BY InitInv, InitAccounted
  <1>2. BlockingInv /\ Accounted /\ [Next]_vars => BlockingInv' /\ Accounted'
    BY NextInv, NextAccounted, ReleaseKeepsOn
  <1> QED
    BY <1>1, <1>2, StrandsNobody, PTL DEF Spec

----------------------------------------------------------------------------
(* The driver and tmux together, when no command prints a line shaped like *)
(* a guard: what has been written and not yet served, what is being handed *)
(* out, and the lines between tmux and the engine.                         *)

(* A command is registered only when tmux has served all earlier ones; the *)
(* id of a torn line has none in the pipe.                                 *)
Owed ==
    /\ caller \in {"idle", "writing", "waiting"} => taken + Len(toTmux) <= next_id
    /\ caller = "writing" => toTmux = << >> /\ taken < next_id
    /\ caller = "idle" /\ connected /\ ~poisoned => toTmux = << >>
    /\ stdin = "torn" =>
         /\ ~connected /\ caller \notin {"writing", "waiting"}
         /\ caller \in {"idle", "detaching"} => taken + Len(toTmux) < next_id

Honest ==
    /\ \A x \in ToSet(out) : x.type = "reply" => Right(x.id, x.result)
    /\ \A a \in ToSet(returned) : Right(a.id, a.result)
    /\ rx # None => caller = "waiting" /\ Right(Current, rx[1])

Reading ==
    /\ reader \notin {"draining", "done"} => StreamFits(chunk \o toClient)
    /\ reader \notin {"dispatching", "feeding"} => chunk = << >>

WireInv ==
    /\ BlockingInv /\ Accounted
    /\ InStep /\ PlainLines
    /\ Owed /\ Honest /\ Reading

LEMMA InitWireInv == Init => WireInv
  <1> SUFFICES ASSUME Init PROVE WireInv
    OBVIOUS
  <1>1. BlockingInv /\ Accounted
    BY InitInv, InitAccounted
  <1>2. TmuxInit /\ EngineInit /\ chunk = << >> /\ toClient = << >>
    BY DEF Init, TmuxInit
  <1>3. InStep /\ PlainLines /\ StreamFits(<< >>)
    BY <1>1, <1>2, StreamStarts, Parts
  <1>4. Owed
    <2>1. Len(<< >>) = 0
      OBVIOUS
    <2> QED
      BY <2>1 DEF Init, TmuxInit, EngineInit, Owed
  <1>5. Honest
    BY NoElements DEF Init, Honest
  <1>6. Reading
    <2>1. << >> \o << >> = << >>
      BY ConcatEmptySeq, EmptySeq
    <2>2. StreamFits(chunk \o toClient)
      BY <1>2, <1>3, <2>1, Zenon
    <2> QED
      BY <1>2, <2>2 DEF Reading
  <1> QED
    BY <1>1, <1>3, <1>4, <1>5, <1>6 DEF WireInv

(* Neither tmux nor the engine moves on the stream. *)
LEMMA StillReading ==
    ASSUME WireInv, TmuxTypeOK', Here' = Here,
           UNCHANGED <<toClient, alive, number, running, served, lost, chunk>>,
           reader' \notin {"draining", "done"} => reader \notin {"draining", "done"},
           reader' \notin {"dispatching", "feeding"} => chunk = << >>
    PROVE  Reading' /\ PlainLines'
  <1>1. PICK pre \in Seq(Line) : pre = chunk
    BY Parts DEF WireInv, ThreadTypeOK
  <1>2. ASSUME reader' \notin {"draining", "done"} PROVE StreamFits(chunk \o toClient)'
    <2>1. StreamFits(pre \o toClient)
      BY <1>1, <1>2, Zenon DEF WireInv, Reading
    <2>2. TmuxTypeOK
      BY Parts DEF WireInv
    <2>3. StreamFits(pre \o toClient)'
      BY <2>1, <2>2, StreamWaits
    <2>4. pre = chunk'
      BY <1>1
    <2> QED
      BY <2>3, <2>4, Zenon
  <1> QED
    BY <1>2 DEF Reading, WireInv, PlainLines

LEMMA SameHere ==
    ASSUME UNCHANGED engineVars PROVE Here' = Here /\ next_id' = next_id
  BY DEF engineVars, Here, Answered

(* What the steps that follow use of the invariant. *)
LEMMA WireParts ==
    ASSUME WireInv
    PROVE  /\ IInv /\ TmuxTypeOK /\ InStep
           /\ Len(served) \in Nat /\ taken \in Nat /\ next_id \in Nat /\ Len(toTmux) \in Nat
           /\ Len(served) <= taken /\ Len(<< >>) = 0
  <1>1. Len(<< >>) = 0
    OBVIOUS
  <1> QED
    BY <1>1, Parts, InStepCounts DEF WireInv

LEMMA RegisterWire ==
    ASSUME WireInv, BlockingInv', Accounted', CommandRegister
    PROVE  WireInv'
  <1>1. next_id' = next_id + 1 /\ Here' = Here
    <2>1. RegisterCommand
      BY DEF CommandRegister
    <2>2. Answered' = Answered
      BY <2>1, RegisterKeepsAnswered, WireParts
    <2> QED
      BY <2>1, <2>2 DEF RegisterCommand, Here
  <1>2. UNCHANGED tmuxVars
    BY DEF CommandRegister
  <1>3. InStep'
    <2>1. next_id' \in Nat /\ next_id <= next_id' /\ IInv /\ TmuxTypeOK /\ InStep
      BY <1>1, WireParts
    <2>2. UNCHANGED <<toTmux, taken, running, served>>
      BY <1>2 DEF tmuxVars
    <2> QED
      BY <2>1, <2>2, KeepsInStep
  <1>4. Reading' /\ PlainLines'
    <2>1. chunk' = chunk /\ reader' = reader /\ TmuxTypeOK'
      BY DEF CommandRegister, BlockingInv, BlockingTypeOK
    <2> QED
      BY <1>1, <1>2, <2>1, StillReading DEF tmuxVars, WireInv, Reading
  <1>5. Owed'
    <2>1. toTmux = << >> /\ taken + Len(toTmux) <= next_id /\ caller' = "writing"
          /\ stdin' # "torn"
      BY DEF CommandRegister, WireInv, Owed
    <2>2. UNCHANGED <<toTmux, taken>>
      BY <1>2 DEF tmuxVars
    <2> QED
      BY <1>1, <2>1, <2>2, WireParts DEF Owed
  <1>6. Honest'
    <2>1. rx' = None /\ UNCHANGED <<out, returned, served>>
      BY <1>2 DEF CommandRegister, tmuxVars
    <2> QED
      BY <2>1 DEF WireInv, Honest, Right
  <1> QED
    BY <1>3, <1>4, <1>5, <1>6 DEF WireInv

LEMMA WrittenWire ==
    ASSUME WireInv, BlockingInv', Accounted', CommandWritten
    PROVE  WireInv'
  <1>1. next_id' = next_id /\ Here' = Here
    BY SameHere DEF CommandWritten
  <1>2. /\ toTmux = << >> /\ taken < next_id /\ toTmux' = Append(toTmux, 1)
        /\ UNCHANGED <<taken, running, served, number, alive, toClient, lost>>
        /\ caller' = "waiting" /\ UNCHANGED <<reader, chunk, out, returned, rx>>
        /\ caller = "writing" /\ stdin' # "torn"
    BY DEF CommandWritten, InputUnchanged, WireInv, Owed
  <1>3. InStep' /\ Len(toTmux') = Len(toTmux) + 1
    <2>1. taken + Len(toTmux) < next_id' /\ next_id' \in Nat /\ next_id <= next_id'
      BY <1>1, <1>2, WireParts
    <2>2. IInv /\ TmuxTypeOK /\ InStep
      BY WireParts
    <2> QED
      BY <1>2, <2>1, <2>2, WriteKeepsInStep
  <1>4. Reading' /\ PlainLines'
    <2>1. TmuxTypeOK'
      BY DEF BlockingInv, BlockingTypeOK
    <2> QED
      BY <1>1, <1>2, <2>1, StillReading DEF WireInv, Reading
  <1>5. Owed'
    BY <1>1, <1>2, <1>3, WireParts DEF Owed
  <1>6. Honest'
    BY <1>2 DEF WireInv, Honest, Right
  <1> QED
    BY <1>3, <1>4, <1>5, <1>6 DEF WireInv

(* The steps that at most write the line of the command in progress, tell  *)
(* Disconnected or return what the waiter was told.                        *)
LEMMA CallerWire ==
    ASSUME WireInv, BlockingInv', Accounted',
           CommandWriteFails \/ CommandPanics \/ CommandReturns \/ DropClient \/ DropJoin \/ DropReap
    PROVE  WireInv'
  <1>1. UNCHANGED engineVars /\ UNCHANGED <<reader, chunk, out>>
    BY DEF CommandWriteFails, CommandPanics, CommandReturns, DropClient, DropJoin, DropReap
  <1>2. next_id' = next_id /\ Here' = Here /\ Current' = Current
    BY <1>1, SameHere DEF Current
  <1>3. /\ UNCHANGED <<toClient, taken, running, served, number, alive, lost>>
        /\ next_id' \in Nat /\ next_id <= next_id' /\ TmuxTypeOK'
    <2>1. TmuxTypeOK'
      BY DEF BlockingInv, BlockingTypeOK
    <2>2. next_id' \in Nat /\ next_id <= next_id'
      BY <1>2, WireParts
    <2>3. UNCHANGED <<toClient, taken, running, served, number, alive, lost>>
      BY DEF CommandWriteFails, CommandPanics, CommandReturns, DropClient, DropJoin, DropReap,
             InputUnchanged, tmuxVars
    <2> QED
      BY <2>1, <2>2, <2>3
  <1>4. \/ toTmux' = toTmux
        \/ /\ toTmux' = Append(toTmux, 1) /\ Len(toTmux') = Len(toTmux) + 1
           /\ taken + Len(toTmux) < next_id
    <2>1. \/ toTmux' = toTmux
          \/ toTmux' = Append(toTmux, 1) /\ caller = "writing"
      BY DEF CommandWriteFails, CommandPanics, CommandReturns, DropClient, DropJoin, DropReap,
             MayArrive, tmuxVars
    <2>2. caller = "writing" => taken + Len(toTmux) < next_id
      BY WireParts DEF WireInv, Owed
    <2>3. Len(Append(toTmux, 1)) = Len(toTmux) + 1
      BY WireParts, AppendProperties DEF TmuxTypeOK
    <2> QED
      BY <2>1, <2>2, <2>3
  <1>5. taken' = taken /\ next_id' = next_id
    BY <1>2, <1>3
  <1>6. caller = "writing" => taken + Len(toTmux') <= next_id
    <2>1. caller = "writing" => taken + Len(toTmux) <= next_id
      BY DEF WireInv, Owed
    <2> QED
      BY <1>4, <2>1, WireParts
  <1>7. InStep'
    <2>1. IInv /\ TmuxTypeOK /\ InStep
      BY WireParts
    <2>2. CASE toTmux' = toTmux
      BY <1>3, <2>1, <2>2, KeepsInStep
    <2>3. CASE toTmux' = Append(toTmux, 1) /\ taken + Len(toTmux) < next_id
      BY <1>3, <1>5, <2>1, <2>3, WriteKeepsInStep
    <2> QED
      BY <1>4, <2>2, <2>3
  <1>8. Reading' /\ PlainLines'
    BY <1>1, <1>2, <1>3, StillReading DEF WireInv, Reading
  <1>9. CASE CommandWriteFails
    <2>1. caller = "writing" /\ ~connected' /\ caller' = "idle" /\ rx' = rx
          /\ returned' = Append(returned, AnswerTo(Current, Disconnected))
      BY <1>9 DEF CommandWriteFails
    <2>2. Owed'
      <3>1. ASSUME stdin' = "torn" PROVE taken + Len(toTmux') < next_id
        <4>1. toTmux' = toTmux
          BY <1>9, <3>1 DEF CommandWriteFails
        <4>2. taken + Len(toTmux) < next_id
          BY <2>1, WireParts DEF WireInv, Owed
        <4> QED
          BY <4>1, <4>2
      <3> QED
        BY <1>5, <1>6, <2>1, <3>1 DEF Owed
    <2>3. Honest'
      <3>1. Disconnected \in CommandResult
        BY EmptySeq DEF Disconnected, CommandResult
      <3>2. ToSet(returned') = ToSet(returned) \cup {AnswerTo(Current, Disconnected)}
        BY <2>1, <3>1, AnswerType DEF WireInv
      <3>3. rx = None
        BY <2>1 DEF WireInv, Accounted
      <3>4. \A a \in ToSet(returned) : Right(a.id, a.result)'
        BY <1>3 DEF WireInv, Honest, Right
      <3>5. \A x \in ToSet(out') : x.type = "reply" => Right(x.id, x.result)'
        BY <1>1, <1>3 DEF WireInv, Honest, Right
      <3>6. \A a \in ToSet(returned') : Right(a.id, a.result)'
        <4> SUFFICES ASSUME NEW a \in ToSet(returned') PROVE Right(a.id, a.result)'
          OBVIOUS
        <4>1. CASE a \in ToSet(returned)
          BY <3>4, <4>1
        <4>2. CASE a = AnswerTo(Current, Disconnected)
          BY <4>2 DEF Right, AnswerTo
        <4> QED
          BY <3>2, <4>1, <4>2
      <3>7. rx' = None
        BY <2>1, <3>3
      <3> QED
        BY <3>5, <3>6, <3>7 DEF Honest
    <2> QED
      BY <1>7, <1>8, <2>2, <2>3 DEF WireInv
  <1>10. CASE CommandReturns
    <2>1. caller = "waiting" /\ caller' = "idle" /\ rx # None /\ rx' = None
          /\ returned' = Append(returned, AnswerTo(Current, rx[1]))
          /\ UNCHANGED <<connected, poisoned, stdin, toTmux>>
      BY <1>10 DEF CommandReturns, tmuxVars
    <2>2. Right(Current, rx[1]) /\ rx[1] \in CommandResult
      BY <2>1, OptionCases, Parts DEF WireInv, Honest, ThreadTypeOK
    <2>3. Owed'
      <3>1. taken + Len(toTmux) <= next_id
        BY <2>1 DEF WireInv, Owed
      <3>2. ASSUME connected PROVE toTmux = << >>
        <4>1. rx[1] # Disconnected
          BY <2>1, <3>2, Parts DEF WireInv, NoEarlyEnd
        <4>2. Current < Len(served)
          BY <2>2, <4>1 DEF Right
        <4>3. Len(toTmux) = 0
          BY <3>1, <4>2, WireParts DEF Current
        <4>4. toTmux \in Seq(Nat)
          BY WireParts DEF TmuxTypeOK
        <4> QED
          BY <4>3, <4>4, EmptySeq
      <3>3. stdin # "torn"
        BY <2>1 DEF WireInv, Owed
      <3> QED
        BY <1>5, <2>1, <3>1, <3>2, <3>3 DEF Owed
    <2>4. Honest'
      <3>1. ToSet(returned') = ToSet(returned) \cup {AnswerTo(Current, rx[1])}
        BY <2>1, <2>2, AnswerType DEF WireInv
      <3>2. Right(AnswerTo(Current, rx[1]).id, AnswerTo(Current, rx[1]).result)
        BY <2>2 DEF AnswerTo
      <3> QED
        BY <1>1, <1>3, <2>1, <3>1, <3>2 DEF WireInv, Honest, Right
    <2> QED
      BY <1>7, <1>8, <2>3, <2>4 DEF WireInv
  <1>11. CASE CommandPanics \/ DropClient \/ DropJoin \/ DropReap
    <2>1. /\ rx' = rx /\ returned' = returned
          /\ \/ caller = "writing" /\ caller' = "idle" /\ poisoned'
             \/ /\ caller # "waiting" /\ caller' \notin {"idle", "writing", "waiting"}
                /\ toTmux' = toTmux
                /\ caller' = "detaching" => caller = "idle"
          /\ UNCHANGED <<stdin, connected>>
      BY <1>11 DEF CommandPanics, DropClient, DropJoin, DropReap, tmuxVars
    <2>2. rx = None
      BY <2>1 DEF WireInv, Honest
    <2>3. Owed'
      <3>1. CASE caller = "writing" /\ caller' = "idle" /\ poisoned'
        <4>1. stdin # "torn"
          BY <3>1 DEF WireInv, Owed
        <4> QED
          BY <1>5, <1>6, <2>1, <3>1, <4>1 DEF Owed
      <3>2. CASE /\ caller' \notin {"idle", "writing", "waiting"} /\ toTmux' = toTmux
                 /\ caller' = "detaching" => caller = "idle"
        BY <1>5, <2>1, <3>2 DEF WireInv, Owed
      <3> QED
        BY <2>1, <3>1, <3>2
    <2>4. Honest'
      BY <1>1, <1>3, <2>1, <2>2 DEF WireInv, Honest, Right
    <2> QED
      BY <1>7, <1>8, <2>3, <2>4 DEF WireInv
  <1> QED
    BY <1>9, <1>10, <1>11

LEMMA DetachWire ==
    ASSUME WireInv, BlockingInv', Accounted', DropDetach
    PROVE  WireInv'
  <1>1. /\ UNCHANGED engineVars /\ UNCHANGED <<reader, chunk, out, returned, rx>>
        /\ UNCHANGED <<toClient, taken, running, served, number, alive, lost>>
        /\ caller = "detaching" /\ caller' = "joining" /\ TmuxTypeOK'
        /\ \/ toTmux' = toTmux
           \/ toTmux' = Append(toTmux, 0)
           \/ stdin = "torn" /\ toTmux' = Append(toTmux, 1)
        /\ connected' = connected
    BY DEF DropDetach, InputUnchanged, BlockingInv, BlockingTypeOK
  <1>2. next_id' = next_id /\ Here' = Here
    BY <1>1, SameHere
  <1>3. InStep'
    <2>1. IInv /\ TmuxTypeOK /\ InStep /\ next_id' \in Nat /\ next_id <= next_id'
      BY <1>2, WireParts
    <2>2. CASE toTmux' = toTmux
      BY <1>1, <2>1, <2>2, KeepsInStep
    <2>3. CASE toTmux' = Append(toTmux, 0)
      BY <1>1, <2>1, <2>3, WriteKeepsInStep
    <2>4. CASE stdin = "torn" /\ toTmux' = Append(toTmux, 1)
      <3>1. taken + Len(toTmux) < next_id'
        BY <1>1, <1>2, <2>4 DEF WireInv, Owed
      <3> QED
        BY <1>1, <2>1, <2>4, <3>1, WriteKeepsInStep
    <2> QED
      BY <1>1, <2>2, <2>3, <2>4
  <1>4. Reading' /\ PlainLines'
    BY <1>1, <1>2, StillReading DEF WireInv, Reading
  <1>5. Owed'
    <2>1. stdin' = "torn" => ~connected
      BY DEF DropDetach, WireInv, Owed
    <2> QED
      BY <1>1, <2>1 DEF Owed
  <1>6. Honest'
    BY <1>1 DEF WireInv, Honest, Right
  <1> QED
    BY <1>3, <1>4, <1>5, <1>6 DEF WireInv

(* The reader's steps write nothing and take no command. *)
LEMMA CallerStays ==
    ASSUME WireInv,
           UNCHANGED <<next_id, toTmux, taken, running, served, caller, poisoned, stdin>>,
           connected' => connected
    PROVE  InStep' /\ Owed'
  BY DEF WireInv, InStep, InControl, Owed

LEMMA ReadWire ==
    ASSUME WireInv, BlockingInv', Accounted',
           ReadLines \/ ReadEnds \/ DispatchLock \/ FeedReturns \/ Unlock
    PROVE  WireInv'
  <1>1. /\ UNCHANGED engineVars
        /\ UNCHANGED <<toTmux, taken, running, served, number, alive, lost>>
        /\ UNCHANGED <<caller, poisoned, connected, stdin, out, returned, rx>>
    BY DEF ReadLines, ReadEnds, DispatchLock, FeedReturns, Unlock, tmuxVars
  <1>2. next_id' = next_id /\ Here' = Here /\ TmuxTypeOK /\ TmuxTypeOK'
    BY <1>1, SameHere, WireParts DEF BlockingInv, BlockingTypeOK
  <1>3. InStep' /\ Owed'
    BY <1>1, <1>2, CallerStays
  <1>4. Honest'
    BY <1>1, <1>2 DEF WireInv, Honest, Right, Current
  <1>5. CASE ReadLines
    <2>1. reader = "reading" /\ reader' = "dispatching" /\ chunk = << >>
      BY <1>5 DEF ReadLines, WireInv, Reading
    <2>2. StreamFits(chunk \o toClient)
      BY <2>1 DEF WireInv, Reading
    <2>3. StreamFits(<< >> \o toClient)
      BY <2>1, <2>2, Zenon
    <2>4. PICK n \in 1 .. Len(toClient) : /\ chunk' = SubSeq(toClient, 1, n)
                                          /\ toClient' = SubSeq(toClient, n + 1, Len(toClient))
      BY <1>5 DEF ReadLines
    <2>5. PICK pre : pre = SubSeq(toClient, 1, n)
      OBVIOUS
    <2>6. StreamFits(pre \o toClient)'
      BY <1>1, <1>2, <2>3, <2>4, <2>5, StreamIsRead
    <2>7. pre = chunk'
      BY <2>4, <2>5
    <2>8. StreamFits(chunk \o toClient)'
      BY <2>6, <2>7, Zenon
    <2> QED
      BY <1>1, <1>3, <1>4, <2>1, <2>8 DEF WireInv, Reading, PlainLines
  <1>6. CASE ReadEnds \/ DispatchLock \/ FeedReturns \/ Unlock
    <2>1. /\ UNCHANGED <<toClient, chunk>>
          /\ reader' \notin {"draining", "done"} => reader \notin {"draining", "done"}
          /\ reader' \notin {"dispatching", "feeding"} =>
               reader \notin {"dispatching", "feeding"} \/ chunk = << >>
      BY <1>6 DEF ReadEnds, DispatchLock, FeedReturns, Unlock, tmuxVars
    <2>2. reader' \notin {"dispatching", "feeding"} => chunk = << >>
      BY <2>1 DEF WireInv, Reading
    <2> QED
      BY <1>1, <1>2, <1>3, <1>4, <2>1, <2>2, StillReading DEF WireInv
  <1> QED
    BY <1>5, <1>6

(* What feeding the next line does to the stream and to the books.         *)
LEMMA FeedsRight ==
    ASSUME WireInv, FeedLine
    PROVE  /\ ~panicked' /\ StreamFits(chunk \o toClient)'
           /\ \A x \in ToSet(incoming') : x.type = "reply" => Right(x.id, x.result)
  <1>1. PICK pre \in Seq(Line) : pre = chunk
    BY Parts DEF WireInv, ThreadTypeOK
  <1>2. /\ pre # << >> /\ UNCHANGED tmuxVars /\ chunk' = Tail(pre) /\ reader = "feeding"
        /\ OnLine(Head(pre))
    BY <1>1, Zenon DEF FeedLine
  <1>3. StreamFits(pre \o toClient)
    <2>1. StreamFits(chunk \o toClient)
      BY <1>2 DEF WireInv, Reading
    <2> QED
      BY <1>1, <2>1, Zenon
  <1>4. UNCHANGED <<toClient, alive, number, running, served>>
    BY <1>2 DEF tmuxVars
  <1>5. TmuxTypeOK'
    BY <1>2, WireParts, KeepsTmuxType
  <1>6. IInv /\ TmuxTypeOK /\ InStep
    BY WireParts
  <1>7. /\ StreamFits(Tail(pre) \o toClient)' /\ panicked' = panicked
        /\ \A x \in ToSet(incoming') : x.type = "reply" => Right(x.id, x.result)
    BY <1>2, <1>3, <1>4, <1>5, <1>6, StreamIsFed
  <1>8. ~panicked
    BY DEF WireInv, Accounted
  <1>9. StreamFits(chunk \o toClient)'
    BY <1>2, <1>7, Zenon
  <1> QED
    BY <1>7, <1>8, <1>9

LEMMA FeedWire ==
    ASSUME WireInv, BlockingInv', Accounted', FeedLine
    PROVE  WireInv'
  <1>1. /\ ~panicked' /\ StreamFits(chunk \o toClient)'
        /\ \A x \in ToSet(incoming') : x.type = "reply" => Right(x.id, x.result)
    BY FeedsRight
  <1>2. /\ UNCHANGED tmuxVars /\ UNCHANGED <<caller, connected, stdin, rx, returned>>
        /\ UNCHANGED <<reader, poisoned>> /\ out' = out \o incoming' /\ reader = "feeding"
        /\ next_id' = next_id
    BY <1>1 DEF FeedLine, OnLine
  <1>3. UNCHANGED <<toTmux, taken, running, served, lost>>
    BY <1>2 DEF tmuxVars
  <1>4. InStep' /\ Owed'
    BY <1>2, <1>3, CallerStays
  <1>5. PlainLines'
    BY <1>3 DEF WireInv, PlainLines
  <1>6. Reading'
    BY <1>1, <1>2 DEF Reading
  <1>7. Honest'
    <2>1. incoming' \in Seq(Incoming) /\ out \in Seq(Incoming)
      BY Parts DEF WireInv, BlockingInv, BlockingTypeOK, TypeOK, ThreadTypeOK
    <2>2. ToSet(out') = ToSet(out) \cup ToSet(incoming')
      BY <1>2, <2>1, ConcatElements
    <2>3. ASSUME NEW x \in ToSet(out'), x.type = "reply" PROVE Right(x.id, x.result)
      BY <1>1, <2>2, <2>3 DEF WireInv, Honest
    <2> QED
      BY <1>2, <1>3, <2>3 DEF WireInv, Honest, Right, Current
  <1> QED
    BY <1>4, <1>5, <1>6, <1>7 DEF WireInv

LEMMA HandOutWire ==
    ASSUME WireInv, BlockingInv', Accounted', HandOut
    PROVE  WireInv'
  <1>1. /\ UNCHANGED engineVars /\ UNCHANGED tmuxVars
        /\ UNCHANGED <<caller, reader, poisoned, connected, stdin, chunk, returned>>
        /\ reader \in {"resolving", "draining"}
    BY DEF HandOut
  <1>2. /\ next_id' = next_id /\ Here' = Here /\ TmuxTypeOK'
        /\ UNCHANGED <<toTmux, toClient, taken, running, served, number, alive, lost>>
    BY <1>1, SameHere DEF tmuxVars, BlockingInv, BlockingTypeOK
  <1>3. InStep' /\ Owed'
    BY <1>1, <1>2, CallerStays
  <1>4. Reading' /\ PlainLines'
    BY <1>1, <1>2, StillReading DEF WireInv, Reading
  <1>5. Honest'
    <2>1. /\ out # << >> /\ out' = Tail(out) /\ out \in Seq(Incoming)
      BY Parts DEF HandOut, WireInv, ThreadTypeOK
    <2>2. ToSet(out) = {Head(out)} \cup ToSet(out')
      BY <2>1, TailElements
    <2>3. \A x \in ToSet(out') : x.type = "reply" => Right(x.id, x.result)'
      BY <1>2, <2>2 DEF WireInv, Honest, Right
    <2>4. \A a \in ToSet(returned') : Right(a.id, a.result)'
      BY <1>1, <1>2 DEF WireInv, Honest, Right
    <2>5. CASE Resolve
      <3>1. Right(Head(out).id, Head(out).result)
        BY <2>2, <2>5 DEF WireInv, Honest, Resolve
      <3>2. Head(out).id = Current /\ caller = "waiting"
        BY <2>5 DEF WireInv, Accounted, Resolve
      <3>3. rx'[1] = Head(out).result
        BY <2>5 DEF Resolve, Some
      <3> QED
        BY <1>1, <1>2, <2>3, <2>4, <3>1, <3>2, <3>3 DEF Honest, Right, Current
    <2>6. CASE rx' = rx
      BY <1>1, <1>2, <2>3, <2>4, <2>6 DEF WireInv, Honest, Right, Current
    <2> QED
      BY <2>5, <2>6 DEF HandOut
  <1> QED
    BY <1>3, <1>4, <1>5 DEF WireInv

LEMMA DisconnectWire ==
    ASSUME WireInv, BlockingInv', Accounted', Disconnect
    PROVE  WireInv'
  <1>1. /\ OnEof /\ UNCHANGED tmuxVars /\ reader = "eof" /\ reader' = "draining"
        /\ UNCHANGED <<caller, poisoned, stdin, rx, chunk, returned>> /\ ~connected'
        /\ out' = incoming'
    BY DEF Disconnect
  <1>2. next_id' = next_id /\ UNCHANGED <<toTmux, taken, running, served, lost>>
    BY <1>1 DEF OnEof, tmuxVars
  <1>3. InStep' /\ Owed'
    BY <1>1, <1>2, CallerStays
  <1>4. PlainLines' /\ Reading'
    BY <1>1, <1>2 DEF WireInv, PlainLines, Reading
  <1>5. Honest'
    <2>1. \A x \in ToSet(incoming') : x.result = Disconnected
      BY <1>1, EofSurfaces, WireParts DEF ToSet
    <2> QED
      BY <1>1, <1>2, <2>1 DEF WireInv, Honest, Right, Current
  <1> QED
    BY <1>3, <1>4, <1>5 DEF WireInv

LEMMA PeerWire ==
    ASSUME WireInv, BlockingInv', Accounted', Peer, Echoed = {}
    PROVE  WireInv'
  <1>1. /\ TmuxNext /\ UNCHANGED engineVars
        /\ UNCHANGED <<caller, reader, poisoned, connected, stdin, chunk, out, rx, returned>>
    BY DEF Peer, threadVars
  <1>2. next_id' = next_id /\ Here' = Here /\ IInv /\ TmuxTypeOK /\ InStep /\ TmuxTypeOK'
    BY <1>1, SameHere, WireParts DEF BlockingInv, BlockingTypeOK
  <1>3. InStep' /\ taken' + Len(toTmux') <= taken + Len(toTmux) /\ (toTmux = << >> => toTmux' = << >>)
    BY <1>1, <1>2, PeerInStep
  <1>4. PlainLines'
    BY <1>1, <1>2, PeerLines DEF WireInv
  <1>5. Owed'
    <2>1. /\ taken \in Nat /\ Len(toTmux) \in Nat /\ next_id \in Nat
          /\ taken' \in Nat /\ Len(toTmux') \in Nat /\ Len(<< >>) = 0
      BY <1>2, WireParts, LenProperties DEF TmuxTypeOK
    <2>2. ASSUME caller = "writing" PROVE toTmux' = << >> /\ taken' < next_id
      <3>1. toTmux = << >> /\ taken < next_id
        BY <2>2 DEF WireInv, Owed
      <3>2. toTmux' = << >>
        BY <1>3, <3>1
      <3>3. taken' = taken
        BY <1>1, <3>1, NothingToRead
      <3> QED
        BY <3>1, <3>2, <3>3
    <2>3. caller \in {"idle", "writing", "waiting"} => taken' + Len(toTmux') <= next_id
      BY <1>3, <2>1 DEF WireInv, Owed
    <2>4. taken + Len(toTmux) < next_id => taken' + Len(toTmux') < next_id
      BY <1>3, <2>1
    <2> QED
      BY <1>1, <1>2, <1>3, <2>2, <2>3, <2>4 DEF WireInv, Owed
  <1>6. Reading'
    <2>1. PICK pre \in Seq(Line) : pre = chunk
      BY Parts DEF WireInv, ThreadTypeOK
    <2>2. ASSUME reader \notin {"draining", "done"} PROVE StreamFits(chunk \o toClient)'
      <3>1. StreamFits(chunk \o toClient)
        BY <2>2 DEF WireInv, Reading
      <3>2. StreamFits(pre \o toClient)
        BY <2>1, <3>1, Zenon
      <3>3. running' # None => running'[1].lines \in Seq(ContentLine)
        BY <1>4 DEF PlainLines
      <3>4. StreamFits(pre \o toClient)'
        BY <1>1, <1>2, <3>2, <3>3, StreamStep
      <3>5. pre = chunk'
        BY <1>1, <2>1
      <3> QED
        BY <3>4, <3>5, Zenon
    <2> QED
      BY <1>1, <2>2 DEF WireInv, Reading
  <1>7. Honest'
    <2>1. ServedGrows /\ Len(served') \in Nat
      BY <1>1, <1>2, PeerGrows, LenProperties DEF TmuxTypeOK
    <2>2. \A id \in Nat, result \in CommandResult : Right(id, result) => Right(id, result)'
      BY <1>2, <2>1, StaysRight
    <2>3. CommandId \subseteq Nat
      BY BoundAssumption DEF CommandId
    <2>4. ASSUME NEW x \in ToSet(out), x.type = "reply" PROVE Right(x.id, x.result)'
      <3>1. x \in Incoming
        BY Parts, LenProperties DEF WireInv, ThreadTypeOK, ToSet
      <3>2. x.id \in CommandId /\ x.result \in CommandResult
        BY <2>4, <3>1 DEF Incoming
      <3>3. Right(x.id, x.result)
        BY <2>4 DEF WireInv, Honest
      <3> QED
        BY <2>2, <2>3, <3>2, <3>3
    <2>5. ASSUME NEW a \in ToSet(returned) PROVE Right(a.id, a.result)'
      <3>1. a \in Answer
        BY Parts, LenProperties DEF WireInv, ThreadTypeOK, ToSet
      <3>2. a.id \in CommandId /\ a.result \in CommandResult
        BY <3>1 DEF Answer
      <3>3. Right(a.id, a.result)
        BY DEF WireInv, Honest
      <3> QED
        BY <2>2, <2>3, <3>2, <3>3
    <2>6. ASSUME rx # None PROVE caller = "waiting" /\ Right(Current, rx[1])'
      <3>1. caller = "waiting" /\ Right(Current, rx[1])
        BY <2>6 DEF WireInv, Honest
      <3>2. Current \in Nat /\ rx[1] \in CommandResult
        BY <2>6, <3>1, OptionCases, WireParts, Parts
           DEF WireInv, ThreadTypeOK, InProgress, Current
      <3>3. PICK id \in Nat, result \in CommandResult : id = Current /\ result = rx[1]
        BY <3>2
      <3>4. Right(id, result)'
        BY <2>2, <3>1, <3>3, Zenon
      <3>5. id = Current' /\ result = rx'[1]
        BY <1>1, <1>2, <3>3 DEF Current
      <3> QED
        BY <3>1, <3>4, <3>5, Zenon
    <2> QED
      BY <1>1, <2>4, <2>5, <2>6 DEF Honest
  <1> QED
    BY <1>3, <1>4, <1>5, <1>6, <1>7 DEF WireInv

(* Against such a tmux the assertion stays silent in a debug build, too.   *)
LEMMA WireKeepsOn == ASSUME WireInv, [Next]_vars PROVE ~panicked'
  <1>1. CASE FeedLine
    BY <1>1, FeedsRight
  <1>2. CASE panicked' = panicked
    BY <1>2 DEF WireInv, Accounted
  <1> QED
    BY <1>1, <1>2
       DEF Next, CommandStep, CommandRegister, RegisterCommand, CommandWritten, CommandWriteFails,
           CommandPanics, CommandReturns, DropClient, DropStep, DropDetach, DropJoin, DropReap,
           ReaderStepTaken, ReadLines, ReadEnds, DispatchLock, FeedReturns, HandOut, Unlock,
           Disconnect, OnEof, Peer, vars, engineVars

LEMMA NextWireInv == ASSUME Echoed = {} PROVE WireInv /\ [Next]_vars => WireInv'
  <1> SUFFICES ASSUME WireInv, [Next]_vars PROVE WireInv'
    OBVIOUS
  <1>1. BlockingInv' /\ Accounted'
    BY NextInv, NextAccounted, WireKeepsOn DEF WireInv
  <1>2. CASE CommandStep
    BY <1>1, <1>2, RegisterWire, WrittenWire, CallerWire DEF CommandStep
  <1>3. CASE DropClient \/ DropStep
    BY <1>1, <1>3, DetachWire, CallerWire DEF DropStep
  <1>4. CASE ReaderStepTaken
    BY <1>1, <1>4, ReadWire, FeedWire, HandOutWire, DisconnectWire DEF ReaderStepTaken
  <1>5. CASE Peer
    BY <1>1, <1>5, PeerWire
  <1>6. CASE UNCHANGED vars
    <2>1. UNCHANGED engineVars /\ UNCHANGED tmuxVars /\ UNCHANGED threadVars
      BY <1>6 DEF vars
    <2>2. /\ UNCHANGED <<toTmux, toClient, taken, running, served, number, alive, lost>>
          /\ UNCHANGED <<caller, reader, poisoned, connected, stdin, chunk, out, rx, returned>>
      BY <2>1 DEF tmuxVars, threadVars
    <2>3. Here' = Here /\ next_id' = next_id /\ TmuxTypeOK'
      BY <1>1, <2>1, SameHere DEF BlockingInv, BlockingTypeOK
    <2>4. InStep' /\ Owed'
      BY <2>2, <2>3, CallerStays
    <2>5. Reading' /\ PlainLines'
      BY <2>2, <2>3, StillReading DEF WireInv, Reading
    <2>6. Honest'
      BY <2>2, <2>3 DEF WireInv, Honest, Right, Current
    <2> QED
      BY <1>1, <2>4, <2>5, <2>6 DEF WireInv
  <1> QED
    BY <1>2, <1>3, <1>4, <1>5, <1>6 DEF Next

LEMMA SpecWireInv == ASSUME Echoed = {} PROVE Spec => []WireInv
  BY InitWireInv, NextWireInv, PTL DEF Spec

(* command returns the outcome of its own command, complete, and only      *)
(* after tmux has closed that command's block (engine.rs:52), as long as   *)
(* no closing guard gets lost.                                             *)
THEOREM AlwaysReturnsItsOwn == ASSUME Echoed = {} PROVE Spec => [](lost = 0 => ReturnsItsOwn)
  <1>1. WireInv => (lost = 0 => ReturnsItsOwn)
    <2> SUFFICES ASSUME WireInv, lost = 0, NEW a \in ToSet(returned), a.result # Disconnected
                 PROVE  a.id < Len(served) /\ a.result = served[a.id + 1]
      BY DEF ReturnsItsOwn
    <2>1. a \in Answer
      BY Parts, LenProperties DEF WireInv, ThreadTypeOK, ToSet
    <2>2. a.id \in Nat
      BY <2>1, BoundAssumption DEF Answer, CommandId
    <2>3. Right(a.id, a.result) /\ TmuxTypeOK /\ PlainLines
      BY WireParts DEF WireInv, Honest
    <2> QED
      BY <2>2, <2>3, RightIsOutcome
  <1> QED
    BY <1>1, SpecWireInv, PTL

(* A command is written only into a pipe tmux has emptied, so the write    *)
(* that keeps the reader from dispatching waits for this one command at    *)
(* most (blocking.rs:126-131,188-192), lost guards or not.                 *)
THEOREM AlwaysWritesAlone == ASSUME Echoed = {} PROVE Spec => []WritesAlone
  <1>1. WireInv => WritesAlone
    BY DEF WireInv, Owed, WritesAlone
  <1> QED
    BY <1>1, SpecWireInv, PTL

(* No waiter is orphaned in a debug build either, as long as no command    *)
(* prints a line shaped like a guard (docs/roadmap.md:68-70).              *)
THEOREM NobodyStrandedInDebug == ASSUME Echoed = {} PROVE Spec => []NobodyStranded
  <1>1. WireInv => NobodyStranded
    BY StrandsNobody DEF WireInv
  <1> QED
    BY <1>1, SpecWireInv, PTL

----------------------------------------------------------------------------
(* The session as the callers see it: every command was told in the order  *)
(* sent, but for the one in flight and the one a panic cut short, and      *)
(* Disconnected is the last thing anybody is told.                         *)

InFlight == caller = "writing" \/ (caller = "waiting" /\ rx = None)

Gone == \E a \in ToSet(told) : a.result = Disconnected

Books ==
    /\ \A i \in 1 .. Len(told) : told[i].id = i - 1
    /\ InFlight \/ poisoned => Len(told) + 1 = next_id
    /\ ~(InFlight \/ poisoned) => Len(told) = next_id
    /\ poisoned => caller \notin {"writing", "waiting"}
    /\ \A a \in ToSet(told) : a.result = Disconnected => a.id = Current /\ ~connected
    /\ ~connected => Gone \/ reader \in {"draining", "done"}
    /\ reader = "draining" => \A x \in ToSet(out) : x.type = "reply" => x.result = Disconnected

LEMMA InitBooks == Init => Books
  <1>1. Len(<< >>) = 0
    OBVIOUS
  <1> QED
    BY <1>1, NoElements DEF Init, EngineInit, Books, InFlight

LEMMA BooksParts ==
    ASSUME BlockingInv
    PROVE  /\ told \in Seq(Answer) /\ Len(told) \in Nat /\ next_id \in Nat
           /\ out \in Seq(Incoming)
  BY Parts, LenProperties DEF ThreadTypeOK, IInv, TypeOK

(* Steps at which nobody is told anything and no id is handed out. *)
LEMMA QuietBooks ==
    ASSUME Books, UNCHANGED <<next_id, told, connected, poisoned>>,
           InFlight' <=> InFlight,
           caller' \in {"writing", "waiting"} => caller \in {"writing", "waiting"},
           reader' = "draining" => reader = "draining" /\ ToSet(out') \subseteq ToSet(out),
           reader \in {"draining", "done"} => reader' \in {"draining", "done"}
    PROVE  Books'
  <1>1. poisoned' <=> poisoned
    OBVIOUS
  <1>2. connected' <=> connected
    OBVIOUS
  <1>3. Gone' <=> Gone
    BY DEF Gone
  <1>4. next_id' = next_id /\ told' = told /\ Current' = Current
    BY DEF Current
  <1> QED
    BY <1>1, <1>2, <1>3, <1>4 DEF Books

LEMMA RegisterBooks ==
    ASSUME BlockingInv, Accounted, Books, CommandRegister
    PROVE  Books' /\ ~Gone
  <1>1. /\ next_id' = next_id + 1 /\ UNCHANGED <<told, connected, poisoned, reader, out>>
        /\ connected /\ ~poisoned /\ caller = "idle" /\ caller' = "writing"
    BY DEF CommandRegister, RegisterCommand
  <1>2. ~Gone /\ ~InFlight /\ InFlight'
    BY <1>1 DEF Books, Gone, InFlight
  <1>3. \A a \in ToSet(told') : a.result # Disconnected
    BY <1>1, <1>2 DEF Gone
  <1>4. Len(told') + 1 = next_id'
    BY <1>1, <1>2, BooksParts DEF Books
  <1>5. ~poisoned' /\ connected'
    BY <1>1
  <1> QED
    BY <1>1, <1>2, <1>3, <1>4, <1>5 DEF Books

(* The command in flight is told.                                          *)
LEMMA ToldNext ==
    ASSUME BlockingInv, Books, InFlight, ~poisoned, NEW result \in CommandResult,
           told' = Append(told, AnswerTo(Current, result)), next_id' = next_id
    PROVE  /\ Current = Len(told) /\ Len(told') = Len(told) + 1 /\ Len(told') = next_id
           /\ \A i \in 1 .. Len(told') : told'[i].id = i - 1
           /\ ToSet(told') = ToSet(told) \cup {AnswerTo(Current, result)}
           /\ ~Gone
  <1>1. /\ Len(told) + 1 = next_id /\ Len(told) \in Nat /\ next_id \in Nat
        /\ Current = Len(told) /\ told \in Seq(Answer)
    BY BooksParts DEF Books, Current
  <1>2. caller \in {"writing", "waiting"}
    BY DEF InFlight
  <1>3. AnswerTo(Current, result) \in Answer
    BY <1>2, AnswerType
  <1>4. /\ Len(told') = Len(told) + 1
        /\ \A i \in 1 .. Len(told) : told'[i] = told[i]
        /\ told'[Len(told) + 1] = AnswerTo(Current, result)
        /\ ToSet(told') = ToSet(told) \cup {AnswerTo(Current, result)}
    BY <1>1, <1>3, AppendProperties, AppendElements
  <1>5. ASSUME NEW i \in 1 .. Len(told') PROVE told'[i].id = i - 1
    <2>1. CASE i \in 1 .. Len(told)
      BY <1>4, <2>1 DEF Books
    <2>2. CASE i = Len(told) + 1
      BY <1>1, <1>4, <2>2 DEF AnswerTo
    <2> QED
      BY <1>1, <1>4, <2>1, <2>2
  <1>6. ~Gone
    <2> SUFFICES ASSUME NEW a \in ToSet(told), a.result = Disconnected PROVE FALSE
      BY DEF Gone
    <2>1. a.id = Len(told)
      BY <1>1 DEF Books
    <2>2. PICK i \in 1 .. Len(told) : a = told[i]
      BY DEF ToSet
    <2>3. a.id = i - 1
      BY <2>2 DEF Books
    <2> QED
      BY <1>1, <2>1, <2>3
  <1> QED
    BY <1>1, <1>4, <1>5, <1>6

LEMMA WriteFailsBooks ==
    ASSUME BlockingInv, Accounted, Books, CommandWriteFails
    PROVE  Books' /\ Gone'
  <1>1. /\ UNCHANGED <<next_id, poisoned, reader, out>>
        /\ caller = "writing" /\ caller' = "idle" /\ ~connected'
        /\ told' = Append(told, AnswerTo(Current, Disconnected))
        /\ Disconnected \in CommandResult
    BY EmptySeq DEF CommandWriteFails, engineVars, Disconnected, CommandResult
  <1>2. InFlight /\ ~poisoned /\ ~InFlight' /\ ~poisoned'
    BY <1>1 DEF Books, InFlight
  <1>3. /\ Len(told') = next_id
        /\ \A i \in 1 .. Len(told') : told'[i].id = i - 1
        /\ ToSet(told') = ToSet(told) \cup {AnswerTo(Current, Disconnected)}
        /\ ~Gone
    BY <1>1, <1>2, ToldNext
  <1>4. \A a \in ToSet(told') : a.result = Disconnected => a.id = Current' /\ ~connected'
    BY <1>1, <1>3 DEF Gone, AnswerTo, Current
  <1>5. Gone'
    <2>1. AnswerTo(Current, Disconnected) \in ToSet(told')
      BY <1>3
    <2>2. AnswerTo(Current, Disconnected).result = Disconnected
      BY DEF AnswerTo
    <2> QED
      BY <2>1, <2>2 DEF Gone
  <1>6. reader' = "draining" =>
          \A x \in ToSet(out') : x.type = "reply" => x.result = Disconnected
    BY <1>1 DEF Books
  <1> QED
    BY <1>1, <1>2, <1>3, <1>4, <1>5, <1>6 DEF Books

LEMMA PanicsBooks == ASSUME BlockingInv, Accounted, Books, CommandPanics PROVE Books' /\ ~Gone
  <1>1. /\ UNCHANGED <<next_id, told, connected, reader, out>>
        /\ caller = "writing" /\ caller' = "idle" /\ poisoned' /\ connected
    BY DEF CommandPanics, engineVars, Accounted
  <1>2. Len(told') + 1 = next_id' /\ ~Gone
    BY <1>1 DEF Books, InFlight, Gone
  <1>3. /\ \A a \in ToSet(told') : a.result # Disconnected
        /\ connected'
    BY <1>1, <1>2 DEF Gone
  <1> QED
    BY <1>1, <1>2, <1>3 DEF Books

LEMMA HandOutBooks ==
    ASSUME BlockingInv, Accounted, Books, HandOut
    PROVE  Books'
  <1>1. /\ UNCHANGED <<next_id, poisoned, reader, connected, caller>>
        /\ out # << >> /\ out' = Tail(out) /\ out \in Seq(Incoming)
    BY BooksParts DEF HandOut, engineVars
  <1>2. ToSet(out) = {Head(out)} \cup ToSet(out') /\ Head(out) \in Incoming
    BY <1>1, TailElements
  <1>3. CASE Resolve
    <2>1. /\ told' = Append(told, AnswerTo(Head(out).id, Head(out).result)) /\ rx' # None
          /\ Head(out).type = "reply" /\ Head(out).id \in waiters
      BY <1>3 DEF Resolve, Some, None
    <2>2. caller = "waiting" /\ rx = None /\ Head(out).id = Current
      BY <2>1 DEF Accounted
    <2>3. InFlight /\ ~poisoned /\ ~InFlight' /\ ~poisoned'
      BY <1>1, <2>1, <2>2 DEF Books, InFlight
    <2>4. Head(out).result \in CommandResult
      BY <1>2, <2>1 DEF Incoming
    <2>5. /\ Len(told') = next_id
          /\ \A i \in 1 .. Len(told') : told'[i].id = i - 1
          /\ ToSet(told') = ToSet(told) \cup {AnswerTo(Current, Head(out).result)}
          /\ ~Gone
      BY <1>1, <2>1, <2>2, <2>3, <2>4, ToldNext
    <2>6. Head(out).result = Disconnected => ~connected
      BY <1>2, <2>1 DEF BlockingInv, NoEarlyEnd
    <2>7. \A a \in ToSet(told') : a.result = Disconnected => a.id = Current' /\ ~connected'
      BY <1>1, <2>5, <2>6 DEF Gone, AnswerTo, Current
    <2>8. ~connected' => Gone' \/ reader' \in {"draining", "done"}
      BY <1>1, <2>5 DEF Books
    <2>9. reader' = "draining" =>
            \A x \in ToSet(out') : x.type = "reply" => x.result = Disconnected
      BY <1>1, <1>2 DEF Books
    <2> QED
      BY <1>1, <2>2, <2>3, <2>5, <2>7, <2>8, <2>9 DEF Books
  <1>4. CASE UNCHANGED <<told, rx>>
    <2>1. InFlight' <=> InFlight
      BY <1>1, <1>4 DEF InFlight
    <2> QED
      BY <1>1, <1>2, <1>4, <2>1, QuietBooks
  <1> QED
    BY <1>3, <1>4 DEF HandOut

LEMMA DisconnectBooks ==
    ASSUME BlockingInv, Accounted, Books, Disconnect
    PROVE  Books'
  <1>1. /\ UNCHANGED <<next_id, told, poisoned, caller, rx>> /\ ~connected'
        /\ reader' = "draining" /\ out' = incoming' /\ OnEof
    BY DEF Disconnect, OnEof
  <1>2. \A x \in ToSet(out') : x.result = Disconnected
    BY <1>1, EofSurfaces, Parts DEF ToSet
  <1>3. (InFlight' <=> InFlight) /\ (poisoned' <=> poisoned) /\ Current' = Current
    BY <1>1 DEF InFlight, Current
  <1> QED
    BY <1>1, <1>2, <1>3 DEF Books

LEMMA NextBooks ==
    ASSUME BlockingInv, Accounted, Books, [Next]_vars, ~panicked'
    PROVE  Books'
  <1>1. CASE CommandStep
    <2>1. CASE CommandWritten
      <3>1. InFlight' /\ InFlight
        BY <2>1 DEF CommandWritten, InFlight, Accounted
      <3> QED
        BY <2>1, <3>1, QuietBooks DEF CommandWritten, engineVars
    <2>2. CASE CommandReturns
      <3>1. ~InFlight' /\ ~InFlight
        BY <2>2 DEF CommandReturns, InFlight
      <3> QED
        BY <2>2, <3>1, QuietBooks DEF CommandReturns, engineVars
    <2> QED
      BY <1>1, <2>1, <2>2, RegisterBooks, WriteFailsBooks, PanicsBooks DEF CommandStep
  <1>2. CASE DropClient \/ DropStep
    <2>1. /\ UNCHANGED <<next_id, told, connected, poisoned, reader, out>>
          /\ {caller, caller'} \subseteq {"idle", "detaching", "joining", "reaping", "gone"}
      BY <1>2 DEF DropClient, DropStep, DropDetach, DropJoin, DropReap, engineVars
    <2>2. ~InFlight' /\ ~InFlight
      BY <2>1 DEF InFlight
    <2> QED
      BY <2>1, <2>2, QuietBooks
  <1>3. CASE ReadLines \/ ReadEnds \/ DispatchLock \/ FeedLine \/ FeedReturns \/ Unlock
    <2>1. /\ UNCHANGED <<next_id, told, connected, poisoned, caller, rx>>
          /\ reader' # "draining"
          /\ reader \in {"draining", "done"} => reader' \in {"draining", "done"}
      BY <1>3
         DEF ReadLines, ReadEnds, DispatchLock, FeedLine, FeedReturns, Unlock, engineVars, OnLine
    <2>2. InFlight' <=> InFlight
      BY <2>1 DEF InFlight
    <2> QED
      BY <2>1, <2>2, QuietBooks
  <1>4. CASE Peer \/ UNCHANGED vars
    <2>1. /\ UNCHANGED <<next_id, told, connected, poisoned, caller, rx, reader, out>>
      BY <1>4 DEF Peer, vars, threadVars, engineVars
    <2>2. InFlight' <=> InFlight
      BY <2>1 DEF InFlight
    <2> QED
      BY <2>1, <2>2, QuietBooks
  <1> QED
    BY <1>1, <1>2, <1>3, <1>4, HandOutBooks, DisconnectBooks DEF Next, ReaderStepTaken

----------------------------------------------------------------------------
(* The refinement of Correlator: Ended is what it calls over, and Answers  *)
(* what it calls answers.                                                  *)

Ended == Gone \/ (~connected /\ lock = "free") \/ poisoned

Untold(n) == [i \in 1 .. n |-> AnswerTo(Len(told) + i - 1, Disconnected)]

Answers == IF poisoned THEN told \o Untold(next_id - Len(told)) ELSE told

LEMMA EndedMeans ==
    BlockingInv /\ Accounted /\ Books => (Ended <=> Gone \/ poisoned \/ reader = "done")
  <1> SUFFICES ASSUME BlockingInv, Accounted, Books
               PROVE  Ended <=> Gone \/ poisoned \/ reader = "done"
    OBVIOUS
  <1>1. reader = "done" => ~connected /\ lock = "free"
    BY Parts DEF ThreadTypeOK, Accounted
  <1>2. ~connected /\ lock = "free" => Gone \/ reader = "done"
    BY Parts DEF ThreadTypeOK, Books
  <1> QED
    BY <1>1, <1>2 DEF Ended

(* The rest of the session, when it is one command and when it is none.    *)
LEMMA OneUntold ==
    ASSUME BlockingInv, InFlight
    PROVE  told \o Untold(1) = Append(told, AnswerTo(Len(told), Disconnected))
  <1>1. told \in Seq(Answer) /\ Len(told) \in Nat
    BY BooksParts
  <1> DEFINE x == AnswerTo(Len(told), Disconnected)
             S == Answer \cup {x}
  <1>2. told \in Seq(S) /\ x \in S
    BY <1>1, SeqMonotonic
  <1>3. Untold(1) = <<x>>
    <2>1. 1 .. 1 = {1} /\ Len(told) + 1 - 1 = Len(told)
      BY <1>1
    <2>2. Untold(1) = [i \in {1} |-> x]
      BY <2>1 DEF Untold
    <2>3. <<x>> = [i \in {1} |-> x]
      OBVIOUS
    <2> QED
      BY <2>2, <2>3
  <1>4. Append(told, x) = told \o <<x>>
    BY <1>2, AppendIsConcat
  <1> QED
    BY <1>3, <1>4

LEMMA NoneUntold ==
    ASSUME BlockingInv
    PROVE  told \o Untold(0) = told
  <1>1. told \in Seq(Answer)
    BY BooksParts
  <1>2. Untold(0) = << >>
    <2>1. 1 .. 0 = {}
      OBVIOUS
    <2>2. Untold(0) = [i \in {} |-> AnswerTo(Len(told) + i - 1, Disconnected)]
      BY <2>1 DEF Untold
    <2> QED
      BY <2>2
  <1> QED
    BY <1>1, <1>2, ConcatEmptySeq

LEMMA AbstractMeans ==
    /\ Abstract!Send <=>
         ~Ended /\ next_id' = next_id + 1 /\ served' = served /\ Answers' = Answers
           /\ Ended' = Ended
    /\ Abstract!Answer <=>
         /\ ~Ended
         /\ Len(Answers) < Len(served)
         /\ Answers' = Append(Answers, AnswerTo(Len(Answers), served[Len(Answers) + 1]))
         /\ next_id' = next_id /\ served' = served /\ Ended' = Ended
    /\ Abstract!EndSession <=>
         /\ ~Ended /\ Ended' = TRUE
         /\ Answers' = Answers \o [i \in 1 .. next_id - Len(Answers) |->
                                    AnswerTo(Len(Answers) + i - 1, Disconnected)]
         /\ next_id' = next_id /\ served' = served
    /\ Abstract!vars = <<next_id, served, Answers, Ended>>
  BY DEF Abstract!Send, Abstract!Answer, Abstract!EndSession, Abstract!vars, Ended, Gone, Answers,
         Untold, AnswerTo

(* What every step of the refinement starts from. *)
Kept == WireInv /\ Books

Keeping == [Abstract!Next]_Abstract!vars

LEMMA PromiseStays == ASSUME UNCHANGED <<next_id, served, Answers, Ended>> PROVE Keeping
  BY DEF Keeping, Abstract!vars, Ended, Gone, Answers, Untold

(* Nobody is told anything, and the session does not end. *)
LEMMA PromiseQuiet ==
    ASSUME Kept, Kept', UNCHANGED <<next_id, told, served, poisoned>>,
           reader' = "done" <=> reader = "done"
    PROVE  Keeping
  <1>1. Answers' = Answers
    BY DEF Answers, Untold
  <1>2. (Gone' <=> Gone) /\ (poisoned' <=> poisoned)
    BY DEF Gone
  <1>3. Ended <=> Gone \/ poisoned \/ reader = "done"
    BY EndedMeans DEF Kept, WireInv
  <1>4. Ended' <=> Gone' \/ poisoned' \/ reader' = "done"
    <2>1. (BlockingInv /\ Accounted /\ Books => (Ended <=> Gone \/ poisoned \/ reader = "done"))'
      BY EndedMeans, PTL
    <2> QED
      BY <2>1 DEF Kept, WireInv
  <1>5. Ended' = Ended
    BY <1>2, <1>3, <1>4 DEF Ended
  <1> QED
    BY <1>1, <1>5, PromiseStays

LEMMA PromiseRegister == ASSUME Kept, Kept', CommandRegister PROVE Keeping
  <1>1. /\ next_id' = next_id + 1 /\ UNCHANGED <<told, poisoned, connected, served>>
        /\ connected /\ ~poisoned
    BY DEF CommandRegister, RegisterCommand, tmuxVars
  <1>2. ~Gone /\ ~Gone' /\ ~poisoned' /\ connected'
    BY <1>1, RegisterBooks DEF Kept, WireInv, Gone
  <1>3. ~Ended /\ ~Ended' /\ Answers' = Answers
    BY <1>1, <1>2 DEF Ended, Answers
  <1>4. Ended' = Ended
    BY <1>3 DEF Ended
  <1>5. Abstract!Send
    BY <1>1, <1>3, <1>4, AbstractMeans
  <1> QED
    BY <1>5 DEF Keeping, Abstract!Next

(* The command in flight is told that the session ended, and it is the     *)
(* only one that was left.                                                 *)
LEMMA PromiseEnds ==
    ASSUME Kept, InFlight, ~Ended, Gone',
           told' = Append(told, AnswerTo(Current, Disconnected)),
           UNCHANGED <<next_id, served, poisoned>>
    PROVE  Keeping
  <1>1. ~poisoned /\ ~poisoned' /\ BlockingInv /\ Books
    BY DEF Ended, Kept, WireInv
  <1>2. Current = Len(told) /\ next_id - Len(told) = 1
    BY <1>1, BooksParts DEF Books, Current
  <1>3. Answers = told /\ Answers' = told'
    BY <1>1 DEF Answers
  <1>4. told' = told \o Untold(1)
    BY <1>1, <1>2, OneUntold
  <1>5. Ended' = TRUE
    BY DEF Ended
  <1>6. Answers' = Answers \o [k \in 1 .. next_id - Len(Answers) |->
                                 AnswerTo(Len(Answers) + k - 1, Disconnected)]
    BY <1>2, <1>3, <1>4 DEF Untold
  <1>7. Abstract!EndSession
    BY <1>5, <1>6, AbstractMeans
  <1> QED
    BY <1>7 DEF Keeping, Abstract!Next

LEMMA PromiseWriteFails == ASSUME Kept, CommandWriteFails PROVE Keeping
  <1>1. /\ UNCHANGED <<next_id, served, poisoned>> /\ caller = "writing" /\ InFlight
        /\ told' = Append(told, AnswerTo(Current, Disconnected))
    BY DEF CommandWriteFails, InFlight, InputUnchanged, engineVars
  <1>2. Gone' /\ connected /\ ~poisoned
    BY <1>1, WriteFailsBooks DEF Kept, WireInv, Accounted, Books
  <1>3. ~Gone
    BY <1>2 DEF Kept, Books, Gone
  <1>4. ~Ended
    BY <1>2, <1>3 DEF Ended
  <1> QED
    BY <1>1, <1>2, <1>4, PromiseEnds

LEMMA PromisePanics == ASSUME Kept, CommandPanics PROVE Keeping
  <1>1. /\ UNCHANGED <<next_id, told, served>> /\ poisoned' /\ connected /\ ~poisoned
    BY DEF CommandPanics, InputUnchanged, engineVars, Kept, WireInv, Accounted, Books
  <1>2. ~Ended /\ Ended' = TRUE
    BY <1>1, PanicsBooks DEF Ended, Kept, WireInv
  <1>3. Answers = told /\ Answers' = told \o Untold(next_id - Len(told))
    BY <1>1 DEF Answers, Untold
  <1>4. Answers' = Answers \o [k \in 1 .. next_id - Len(Answers) |->
                                 AnswerTo(Len(Answers) + k - 1, Disconnected)]
    BY <1>3 DEF Untold
  <1>5. Abstract!EndSession
    BY <1>1, <1>2, <1>4, AbstractMeans
  <1> QED
    BY <1>5 DEF Keeping, Abstract!Next

LEMMA PromiseResolves == ASSUME Kept, Kept', HandOut, Resolve, lost' = 0 PROVE Keeping
  <1>1. /\ UNCHANGED <<next_id, served, poisoned, reader, connected, caller, lost>>
        /\ out # << >> /\ reader \in {"resolving", "draining"}
        /\ Head(out).type = "reply" /\ Head(out).id \in waiters
        /\ told' = Append(told, AnswerTo(Head(out).id, Head(out).result))
    BY DEF HandOut, Resolve, tmuxVars, engineVars
  <1>2. /\ caller = "waiting" /\ rx = None /\ Head(out).id = Current /\ ~poisoned /\ InFlight
        /\ BlockingInv /\ Books /\ Accounted
    BY <1>1 DEF Kept, WireInv, Accounted, Books, InFlight
  <1>3. Head(out) \in ToSet(out) /\ Head(out).result \in CommandResult
    BY <1>1, <1>2, BooksParts, TailElements DEF Incoming
  <1>4. /\ ~Gone /\ Current = Len(told) /\ Len(told) \in Nat
        /\ ToSet(told') = ToSet(told) \cup {AnswerTo(Current, Head(out).result)}
    BY <1>1, <1>2, <1>3, ToldNext, BooksParts
  <1>5. ~Ended
    BY <1>1, <1>2, <1>4, EndedMeans
  <1>6. CASE Head(out).result = Disconnected
    <2>1. AnswerTo(Current, Disconnected) \in ToSet(told')
      BY <1>4, <1>6
    <2>2. Gone'
      BY <2>1 DEF Gone, AnswerTo
    <2> QED
      BY <1>1, <1>2, <1>5, <1>6, <2>2, PromiseEnds
  <1>7. CASE Head(out).result # Disconnected
    <2>1. reader = "resolving"
      BY <1>1, <1>2, <1>3, <1>7 DEF Books
    <2>2. connected
      BY <1>2, <1>4, <2>1 DEF Books
    <2>3. ~Gone'
      BY <1>4, <1>7 DEF Gone, AnswerTo
    <2>4. ~Ended' /\ ~poisoned'
      BY <1>1, <1>2, <2>2, <2>3 DEF Ended
    <2>5. Right(Current, Head(out).result) /\ TmuxTypeOK /\ PlainLines
      BY <1>1, <1>2, <1>3, WireParts DEF Kept, WireInv, Honest
    <2>6. Len(told) < Len(served) /\ Head(out).result = served[Len(told) + 1]
      BY <1>1, <1>4, <1>7, <2>5, RightIsOutcome
    <2>7. Answers = told /\ Answers' = told'
      BY <1>2, <2>4 DEF Answers
    <2>8. Ended' = Ended
      BY <1>5, <2>4 DEF Ended
    <2>9. Answers' = Append(Answers, AnswerTo(Len(Answers), served[Len(Answers) + 1]))
      BY <1>1, <1>2, <1>4, <2>6, <2>7
    <2>10. Abstract!Answer
      BY <1>1, <1>5, <2>6, <2>7, <2>8, <2>9, AbstractMeans
    <2> QED
      BY <2>10 DEF Keeping, Abstract!Next
  <1> QED
    BY <1>6, <1>7

(* The last thing the reader does: it finds nobody left to tell. *)
LEMMA PromiseUnlock == ASSUME Kept, Kept', Unlock PROVE Keeping
  <1>1. UNCHANGED <<next_id, served, told, poisoned, caller, rx>> /\ BlockingInv /\ Books
        /\ Accounted /\ reader \in {"resolving", "draining"} /\ out = << >>
    BY DEF Unlock, tmuxVars, engineVars, Kept, WireInv
  <1>2. CASE reader = "resolving"
    <2>1. reader' = "reading"
      BY <1>2 DEF Unlock
    <2> QED
      BY <1>1, <1>2, <2>1, PromiseQuiet
  <1>3. CASE reader = "draining" /\ Ended
    <2>1. Gone \/ poisoned
      BY <1>1, <1>3, EndedMeans
    <2>2. Gone' \/ poisoned'
      BY <1>1, <2>1 DEF Gone
    <2>3. Ended' = Ended
      BY <1>3, <2>2 DEF Ended
    <2>4. Answers' = Answers
      BY <1>1 DEF Answers, Untold
    <2> QED
      BY <1>1, <2>3, <2>4, PromiseStays
  <1>4. CASE reader = "draining" /\ ~Ended
    <2>1. ~poisoned /\ ~poisoned' /\ reader' = "done"
      BY <1>1, <1>4 DEF Ended, Unlock
    <2>2. ~InFlight
      BY <1>1, <1>4, NoElements DEF Accounted, InFlight, ReplyTo
    <2>3. next_id - Len(told) = 0
      BY <1>1, <2>1, <2>2, BooksParts DEF Books
    <2>4. Answers = told /\ Answers' = told
      BY <1>1, <2>1 DEF Answers
    <2>5. Ended' = TRUE
      <3>1. ~connected' /\ lock' = "free"
        BY <1>1, <1>4 DEF Unlock, Accounted
      <3> QED
        BY <3>1 DEF Ended
    <2>6. Answers' = Answers \o [k \in 1 .. next_id - Len(Answers) |->
                                   AnswerTo(Len(Answers) + k - 1, Disconnected)]
      BY <1>1, <2>3, <2>4, NoneUntold DEF Untold
    <2>7. Abstract!EndSession
      BY <1>1, <1>4, <2>5, <2>6, AbstractMeans
    <2> QED
      BY <2>7 DEF Keeping, Abstract!Next
  <1> QED
    BY <1>1, <1>2, <1>3, <1>4

LEMMA PromisePeer == ASSUME Kept, Kept', Peer, lost' = 0 PROVE Keeping
  <1>1. /\ UNCHANGED <<next_id, told, poisoned, reader, connected, lock>> /\ TmuxNext
        /\ IInv /\ TmuxTypeOK /\ InStep /\ PlainLines'
    BY WireParts DEF Peer, threadVars, engineVars, Kept, WireInv
  <1>2. CASE served' = served
    BY <1>1, <1>2, PromiseQuiet
  <1>3. CASE served' # served
    <2>1. Answers' = Answers /\ Ended' = Ended
      BY <1>1 DEF Answers, Untold, Ended, Gone
    <2>2. Abstract!Execute
      BY <1>1, <1>3, <2>1, PeerExecutes
         DEF Abstract!Execute, PlainOutcome, Answers, Untold, Ended, Gone
    <2> QED
      BY <2>2 DEF Keeping, Abstract!Next
  <1> QED
    BY <1>2, <1>3

LEMMA PromiseStep == ASSUME Kept, Kept', [Next]_vars, lost' = 0 PROVE Keeping
  <1>1. CASE CommandWritten \/ CommandReturns \/ DropClient \/ DropStep
    <2>1. UNCHANGED <<next_id, told, served, poisoned, reader>>
      BY <1>1 DEF CommandWritten, CommandReturns, DropClient, DropStep, DropDetach, DropJoin,
                  DropReap, InputUnchanged, engineVars, tmuxVars
    <2> QED
      BY <2>1, PromiseQuiet
  <1>2. CASE ReadLines \/ ReadEnds \/ DispatchLock \/ FeedLine \/ FeedReturns \/ Disconnect
    <2>1. UNCHANGED <<next_id, told, served>> /\ reader # "done" /\ reader' # "done"
      BY <1>2 DEF ReadLines, ReadEnds, DispatchLock, FeedLine, FeedReturns, Disconnect, OnLine,
                  OnEof, engineVars, tmuxVars
    <2>2. poisoned' = poisoned
      BY <1>2 DEF ReadLines, ReadEnds, DispatchLock, FeedLine, FeedReturns, Disconnect, Kept,
                  WireInv, Accounted
    <2> QED
      BY <2>1, <2>2, PromiseQuiet
  <1>3. CASE HandOut
    <2>1. CASE Resolve
      BY <1>3, <2>1, PromiseResolves
    <2>2. CASE told' = told
      BY <1>3, <2>2, PromiseQuiet DEF HandOut, engineVars, tmuxVars
    <2> QED
      BY <1>3, <2>1, <2>2 DEF HandOut
  <1>4. CASE UNCHANGED vars
    <2>1. UNCHANGED <<next_id, told, served, poisoned, reader>>
      BY <1>4 DEF vars, engineVars, tmuxVars, threadVars
    <2> QED
      BY <2>1, PromiseQuiet
  <1> QED
    BY <1>1, <1>2, <1>3, <1>4, PromiseRegister, PromiseWriteFails, PromisePanics, PromiseUnlock,
       PromisePeer
       DEF Next, CommandStep, ReaderStepTaken

LEMMA PromiseInit == Init => Abstract!Init
  <1> SUFFICES ASSUME Init PROVE Abstract!Init
    OBVIOUS
  <1>1. next_id = 0 /\ served = << >> /\ told = << >> /\ ~poisoned /\ connected
    BY DEF Init, EngineInit, TmuxInit
  <1>2. ~Gone
    BY <1>1, NoElements DEF Gone
  <1>3. Answers = << >>
    BY <1>1 DEF Answers
  <1>4. Ended = FALSE
    BY <1>1, <1>2 DEF Ended
  <1>5. Abstract!Init <=>
          next_id = 0 /\ served = << >> /\ Answers = << >> /\ Ended = FALSE
    BY DEF Abstract!Init, Ended, Gone, Answers, Untold
  <1> QED
    BY <1>1, <1>3, <1>4, <1>5

(* The blocking client and tmux implement Correlator until a closing guard *)
(* is lost: commands are executed in the order sent, each is told its own  *)
(* outcome, in order, or that the session is over, whatever the reader,    *)
(* drop and panicking callers do meanwhile (blocking.rs:114-131,170-241).  *)
THEOREM PromiseAlwaysKept ==
    ASSUME Echoed = {} PROVE Spec /\ [](lost = 0) => KeepsPromise
  <1>1. Init => Books
    BY InitBooks
  <1>2. WireInv /\ WireInv' /\ Books /\ [Next]_vars => Books'
    BY NextBooks DEF WireInv, Accounted
  <1>3. WireInv /\ WireInv' /\ Books /\ Books' /\ [Next]_vars /\ (lost = 0)'
          => [Abstract!Next]_Abstract!vars
    BY PromiseStep DEF Kept, Keeping
  <1> QED
    BY <1>1, <1>2, <1>3, PromiseInit, SpecWireInv, PTL DEF Spec, KeepsPromise, Abstract!Spec

=============================================================================
