---------------------------- MODULE EngineProofs ----------------------------
(***************************************************************************)
(* What every use of the engine's API guarantees, for every set of command *)
(* numbers and line texts, every bound, and both builds.                   *)
(***************************************************************************)
EXTENDS Engine, SequenceTheorems, TLAPS

(* An Option is empty or holds one element of its set. *)
LEMMA OptionCases ==
    ASSUME NEW S, NEW o \in Option(S), o # None
    PROVE  o = Some(o[1]) /\ o[1] \in S /\ DOMAIN o = {1}
  <1>0. o \in Seq(S) /\ Len(o) <= 1 /\ o # << >>
    BY DEF Option, None
  <1>1. o \in Seq(S) /\ Len(o) = 1
    BY <1>0, EmptySeq, Len(o) \in Nat
  <1>2. o[1] \in S /\ DOMAIN o = {1}
    BY <1>1
  <1>3. <<o[1]>> \in Seq(S) /\ Len(<<o[1]>>) = 1 /\ <<o[1]>>[1] = o[1]
    BY <1>2
  <1>4. o = <<o[1]>>
    BY <1>1, <1>3, SeqEqual
  <1> QED
    BY <1>2, <1>4 DEF Some

LEMMA OptionIntro ==
    ASSUME NEW S
    PROVE  /\ None \in Option(S)
           /\ \A x \in S : Some(x) \in Option(S)
  BY DEF Option, None, Some

(* A line is a guard, and then has a number and a control flag, or content. *)
LEMMA LineCases ==
    ASSUME NEW line \in Line
    PROVE  /\ IsGuard(line) => line \in Guard
           /\ ~IsGuard(line) => line \in ContentLine
  BY DEF Line, IsGuard, Guard, GuardKind, Text, Blank, ContentLine

(* push keeps the parser's state well typed and surfaces a typed event. *)
LEMMA PushType ==
    ASSUME NEW p \in Option(PendingReply), NEW line \in Line
    PROVE  /\ Push(p, line).parser \in Option(PendingReply)
           /\ Push(p, line).event \in Option(Event)
  <1>1. CASE p = None
    <2>1. NotificationEvent(line) \in Event
      BY DEF NotificationEvent, Event
    <2>2. ASSUME line.kind = "begin" PROVE OpenBlock(line) \in PendingReply
      BY <2>2, LineCases DEF OpenBlock, PendingReply, IsGuard, GuardKind, Guard
    <2> QED
      BY <1>1, <2>1, <2>2, OptionIntro DEF Push, PushAtTopLevel
  <1>2. CASE p # None
    <2> DEFINE block == p[1]
    <2>1. block \in PendingReply
      BY <1>2, OptionCases
    <2>2. \A error \in BOOLEAN : CloseBlock(block, error) \in Event
      BY <2>1 DEF CloseBlock, ReplyEvent, Event, Reply, PendingReply
    <2>3. CASE line.kind \in {"end", "error"}
      <3>1. Push(p, line) = [parser |-> None,
                             event |-> Some(CloseBlock(block, line.kind = "error"))]
        BY <1>2, <2>3 DEF Push, PushWithinBlock
      <3>2. (line.kind = "error") \in BOOLEAN
        OBVIOUS
      <3>3. CloseBlock(block, line.kind = "error") \in Event
        BY <2>2, <3>2
      <3> QED
        BY <3>1, <3>3, OptionIntro
    <2>4. CASE line.kind = "begin"
      <3>1. OpenBlock(line) \in PendingReply
        BY <2>4, LineCases DEF OpenBlock, PendingReply, IsGuard, GuardKind, Guard
      <3>2. /\ Push(p, line).parser = Some(OpenBlock(line))
            /\ Push(p, line).event = Some(CloseBlock(block, TRUE))
        BY <1>2, <2>4 DEF Push, PushWithinBlock
      <3>3. Some(CloseBlock(block, TRUE)) \in Option(Event)
        BY <2>2, OptionIntro
      <3>4. Some(OpenBlock(line)) \in Option(PendingReply)
        BY <3>1, OptionIntro
      <3> QED
        BY <3>2, <3>3, <3>4
    <2>5. CASE ~IsGuard(line)
      <3>1. [block EXCEPT !.output = Append(@, line)] \in PendingReply
        <4>1. Append(block.output, line) \in Seq(ContentLine)
          BY <2>1, <2>5, LineCases DEF PendingReply
        <4> QED
          BY <2>1, <4>1 DEF PendingReply
      <3>2. Push(p, line) = [parser |-> Some([block EXCEPT !.output = Append(@, line)]),
                             event |-> None]
        BY <1>2, <2>5 DEF Push, PushWithinBlock, IsGuard, GuardKind
      <3> QED
        BY <3>1, <3>2, OptionIntro
    <2> QED
      BY <2>3, <2>4, <2>5 DEF IsGuard, GuardKind
  <1> QED
    BY <1>1, <1>2

----------------------------------------------------------------------------
(* The inductive invariant. *)

IInv == TypeOK /\ FifoIntact

(* The part of the state Surface may change. *)
SurfaceInv ==
    /\ pending \in Seq(CommandId)
    /\ last_number \in Option(Number)
    /\ panicked \in BOOLEAN
    /\ incoming \in Seq(Incoming)
    /\ FifoIntact

LEMMA InitIInv == EngineInit => IInv
  <1> SUFFICES ASSUME EngineInit PROVE IInv
    OBVIOUS
  <1>1. TypeOK
    <2>1. parser \in Option(PendingReply) /\ last_number \in Option(Number)
      BY OptionIntro DEF EngineInit
    <2>2. pending \in Seq(CommandId) /\ incoming \in Seq(Incoming)
      BY EmptySeq DEF EngineInit
    <2>3. next_id \in 0 .. MaxCommands
      BY BoundAssumption DEF EngineInit
    <2>4. panicked \in BOOLEAN
      BY Zenon DEF EngineInit
    <2> QED
      BY <2>1, <2>2, <2>3, <2>4 DEF TypeOK
  <1>2. FifoIntact
    BY DEF EngineInit, FifoIntact, Answered
  <1> QED
    BY <1>1, <1>2 DEF IInv

(* Taking the front off the FIFO keeps it intact and answers a valid id. *)
LEMMA PopFrontIInv ==
    ASSUME IInv, NEW reply \in Reply, PopFront(reply), next_id' = next_id
    PROVE  SurfaceInv'
  <1>1. last_number' \in Option(Number) /\ panicked' \in BOOLEAN
    BY OptionIntro DEF IInv, TypeOK, PopFront, Reply
  <1>2. CASE pending = << >>
    BY <1>1, <1>2, EmptySeq DEF IInv, TypeOK, PopFront, SurfaceInv, FifoIntact, Answered
  <1>3. CASE pending # << >>
    <2>1. /\ pending' = Tail(pending)
          /\ incoming' = << IncomingReply(Head(pending), ResultOf(reply)) >>
      BY <1>3 DEF PopFront
    <2>2. /\ pending' \in Seq(CommandId)
          /\ Len(pending') = Len(pending) - 1
          /\ \A i \in 1 .. Len(pending') : pending'[i] = pending[i + 1]
          /\ Head(pending) \in CommandId
          /\ Len(pending) \in Nat
      BY <1>3, <2>1, HeadTailProperties, LenProperties DEF IInv, TypeOK
    <2>3. ResultOf(reply) \in CommandResult
      BY DEF ResultOf, CommandResult, Ok, Failed, Reply
    <2>4. incoming' \in Seq(Incoming)
      BY <2>1, <2>2, <2>3 DEF IncomingReply, Incoming
    <2>5. FifoIntact'
      BY <2>2 DEF IInv, TypeOK, FifoIntact, Answered
    <2> QED
      BY <1>1, <2>2, <2>4, <2>5 DEF SurfaceInv
  <1> QED
    BY <1>2, <1>3

(* The steps that leave the FIFO alone. *)
LEMMA PassOverIInv ==
    ASSUME IInv, next_id' = next_id, pending' = pending, last_number' = last_number,
           panicked' \in BOOLEAN, incoming' \in Seq(Incoming)
    PROVE  SurfaceInv'
  BY DEF IInv, TypeOK, SurfaceInv, FifoIntact, Answered

LEMMA SurfaceIInv ==
    ASSUME IInv, NEW event \in Option(Event), Surface(event), next_id' = next_id
    PROVE  SurfaceInv'
  <1>1. CASE event = None /\ PassOver
    BY <1>1, PassOverIInv, EmptySeq DEF PassOver, IInv, TypeOK
  <1>2. CASE /\ event # None /\ event[1].type = "notification"
             /\ incoming' = << IncomingNotification(event[1].line) >>
             /\ UNCHANGED <<pending, last_number, panicked>>
    <2>1. event[1] \in [type : {"notification"}, line : Line]
      BY <1>2, OptionCases DEF Event
    <2>2. incoming' \in Seq(Incoming)
      BY <1>2, <2>1 DEF IncomingNotification, Incoming
    <2> QED
      BY <1>2, <2>2, PassOverIInv DEF IInv, TypeOK
  <1>3. CASE event # None /\ event[1].type = "reply" /\ Correlate(event[1].reply)
    <2>1. event[1].reply \in Reply
      BY <1>3, OptionCases DEF Event
    <2>2. CASE PassOver
      BY <2>2, PassOverIInv, EmptySeq DEF PassOver, IInv, TypeOK
    <2>3. CASE Tripwire(event[1].reply)
      BY <2>3, PassOverIInv, EmptySeq DEF Tripwire
    <2>4. CASE PopFront(event[1].reply)
      BY <2>1, <2>4, PopFrontIInv
    <2> QED
      BY <1>3, <2>2, <2>3, <2>4 DEF Correlate
  <1> QED
    BY <1>1, <1>2, <1>3 DEF Surface

LEMMA RegisterCommandIInv ==
    ASSUME IInv, RegisterCommand
    PROVE  IInv'
  <1>1. next_id \in CommandId /\ next_id' = next_id + 1 /\ next_id' \in 0 .. MaxCommands
    BY BoundAssumption DEF IInv, TypeOK, RegisterCommand, CommandId
  <1>2. /\ pending' \in Seq(CommandId)
        /\ Len(pending') = Len(pending) + 1
        /\ \A i \in 1 .. Len(pending) : pending'[i] = pending[i]
        /\ pending'[Len(pending) + 1] = next_id
        /\ Len(pending) \in Nat
    BY <1>1, AppendProperties, LenProperties DEF IInv, TypeOK, RegisterCommand
  <1>3. FifoIntact'
    <2>1. next_id \in Nat /\ Answered' = Answered /\ Answered \in Nat
      BY <1>1, <1>2 DEF IInv, FifoIntact, Answered, CommandId
    <2>2. Len(pending') <= next_id'
      BY <1>1, <1>2, <2>1 DEF IInv, FifoIntact
    <2>3. ASSUME NEW i \in 1 .. Len(pending') PROVE pending'[i] = Answered' + i - 1
      <3>1. CASE i \in 1 .. Len(pending)
        BY <1>2, <2>1, <3>1 DEF IInv, FifoIntact
      <3>2. CASE i = Len(pending) + 1
        BY <1>2, <2>1, <3>2 DEF Answered
      <3> QED
        BY <1>2, <3>1, <3>2
    <2> QED
      BY <2>2, <2>3 DEF FifoIntact
  <1>4. TypeOK'
    BY <1>1, <1>2, EmptySeq DEF IInv, TypeOK, RegisterCommand
  <1> QED
    BY <1>3, <1>4 DEF IInv

LEMMA OnLineIInv ==
    ASSUME IInv, NEW line \in Line, OnLine(line)
    PROVE  IInv'
  <1>1. parser' \in Option(PendingReply) /\ Push(parser, line).event \in Option(Event)
    BY PushType DEF IInv, TypeOK, OnLine
  <1>2. Surface(Push(parser, line).event) /\ next_id' = next_id
    BY DEF OnLine
  <1>3. SurfaceInv'
    BY <1>1, <1>2, SurfaceIInv
  <1> QED
    BY <1>1, <1>2, <1>3 DEF IInv, TypeOK, SurfaceInv

LEMMA OnEofIInv ==
    ASSUME IInv, OnEof
    PROVE  IInv'
  <1>1. Len(pending) \in Nat /\ \A i \in 1 .. Len(pending) : pending[i] \in CommandId
    BY LenProperties, ElementOfSeq DEF IInv, TypeOK
  <1>2. \A i \in 1 .. Len(pending) : IncomingReply(pending[i], Disconnected) \in Incoming
    <2>1. Disconnected \in CommandResult
      BY EmptySeq DEF Disconnected, CommandResult
    <2> QED
      BY <1>1, <2>1 DEF IncomingReply, Incoming
  <1>3. incoming' \in Seq(Incoming)
    BY <1>1, <1>2 DEF OnEof
  <1>4. pending' = << >> /\ next_id' = next_id
    BY DEF OnEof
  <1>5. FifoIntact'
    BY <1>4, EmptySeq DEF FifoIntact, Answered, IInv, TypeOK
  <1> QED
    BY <1>3, <1>4, <1>5, EmptySeq DEF IInv, TypeOK, OnEof

LEMMA NextIInv == IInv /\ [EngineNext]_engineVars => IInv'
  <1> SUFFICES ASSUME IInv, [EngineNext]_engineVars PROVE IInv'
    OBVIOUS
  <1>1. CASE RegisterCommand
    BY <1>1, RegisterCommandIInv
  <1>2. ASSUME NEW line \in Feedable, OnLine(line) PROVE IInv'
    BY <1>2, OnLineIInv DEF Feedable, Line
  <1>3. CASE OnEof
    BY <1>3, OnEofIInv
  <1>4. CASE UNCHANGED engineVars
    BY <1>4 DEF engineVars, IInv, TypeOK, FifoIntact, Answered
  <1> QED
    BY <1>1, <1>2, <1>3, <1>4 DEF EngineNext

LEMMA SpecIInv == EngineSpec => []IInv
  BY InitIInv, NextIInv, PTL DEF EngineSpec

(* Every value keeps its type under every use of the API. *)
THEOREM TypeCorrect == EngineSpec => []TypeOK
  <1>1. IInv => TypeOK
    BY DEF IInv
  <1> QED
    BY <1>1, SpecIInv, PTL

(* The FIFO never loses, duplicates or reorders an outstanding command,    *)
(* whatever lines arrive and in whatever order the calls are made.         *)
THEOREM FifoAlwaysIntact == EngineSpec => []FifoIntact
  <1>1. IInv => FifoIntact
    BY DEF IInv
  <1> QED
    BY <1>1, SpecIInv, PTL

----------------------------------------------------------------------------
(* What a step surfaces. *)

(* A step that surfaces no reply and leaves the number of answered         *)
(* commands as it is satisfies both.                                       *)
LEMMA NoReply ==
    ASSUME RepliesIn(incoming') = {}, Answered' = Answered, Answered \in Int
    PROVE  OldestAnswered /\ AnswerFromControlBlock
  BY DEF OldestAnswered, AnswerFromControlBlock

LEMMA NoneSurfaced ==
    ASSUME incoming' = << >>
    PROVE  RepliesIn(incoming') = {}
  BY DEF RepliesIn

(* push surfaces a reply only when it closes the open block: the reply is  *)
(* the block's own.                                                        *)
LEMMA ReplyIsOpenBlock ==
    ASSUME NEW p \in Option(PendingReply), NEW line \in Line,
           Push(p, line).event # None, Push(p, line).event[1].type = "reply"
    PROVE  /\ p # None
           /\ Push(p, line).event[1].reply.number = p[1].number
           /\ Push(p, line).event[1].reply.control = p[1].control
           /\ Push(p, line).event[1].reply.output = p[1].output
  <1>1. CASE p = None
    BY <1>1 DEF Push, PushAtTopLevel, NotificationEvent, Some, None
  <1>2. CASE p # None
    <2>1. CASE line.kind \in {"end", "error"}
      <3>1. Push(p, line).event = Some(CloseBlock(p[1], line.kind = "error"))
        BY <1>2, <2>1 DEF Push, PushWithinBlock
      <3> QED
        BY <1>2, <3>1 DEF CloseBlock, ReplyEvent, Some
    <2>2. CASE line.kind = "begin"
      <3>1. Push(p, line).event = Some(CloseBlock(p[1], TRUE))
        BY <1>2, <2>2 DEF Push, PushWithinBlock
      <3> QED
        BY <1>2, <3>1 DEF CloseBlock, ReplyEvent, Some
    <2>3. CASE line.kind \notin {"begin", "end", "error"}
      BY <1>2, <2>3 DEF Push, PushWithinBlock
    <2> QED
      BY <2>1, <2>2, <2>3
  <1> QED
    BY <1>1, <1>2

LEMMA OnLineSurfaces ==
    ASSUME IInv, NEW line \in Line, OnLine(line)
    PROVE  OldestAnswered /\ AnswerFromControlBlock
  <1> DEFINE event == Push(parser, line).event
             reply == event[1].reply
  <1>1. /\ Surface(event) /\ next_id' = next_id
        /\ next_id \in Nat /\ Len(pending) \in Nat /\ pending \in Seq(CommandId)
        /\ parser \in Option(PendingReply)
    BY LenProperties DEF OnLine, IInv, TypeOK
  <1>2. Answered \in Int
    BY <1>1 DEF Answered
  <1>3. ASSUME incoming' = << >>, pending' = pending
        PROVE  OldestAnswered /\ AnswerFromControlBlock
    BY <1>1, <1>2, <1>3, NoReply, NoneSurfaced DEF Answered
  <1>4. CASE event = None /\ PassOver
    BY <1>3, <1>4 DEF PassOver
  <1>5. CASE /\ event # None /\ event[1].type = "notification"
             /\ incoming' = << IncomingNotification(event[1].line) >>
             /\ UNCHANGED <<pending, last_number, panicked>>
    <2>1. RepliesIn(incoming') = {}
      BY <1>5 DEF RepliesIn, IncomingNotification
    <2> QED
      BY <1>1, <1>2, <1>5, <2>1, NoReply DEF Answered
  <1>6. CASE event # None /\ event[1].type = "reply" /\ Correlate(reply)
    <2>1. CASE PassOver
      BY <1>3, <2>1 DEF PassOver
    <2>2. CASE Tripwire(reply)
      BY <1>3, <2>2 DEF Tripwire
    <2>3. CASE reply.control /\ PopFront(reply)
      <3>1. CASE pending = << >>
        BY <1>3, <2>3, <3>1 DEF PopFront
      <3>2. CASE pending # << >>
        <4>1. /\ incoming' = << IncomingReply(Head(pending), ResultOf(reply)) >>
              /\ pending' = Tail(pending)
              /\ last_number' = Some(reply.number)
          BY <2>3, <3>2 DEF PopFront
        <4>2. Head(pending) = Answered /\ Len(pending') = Len(pending) - 1
          <5>1. Head(pending) = pending[1] /\ 1 \in 1 .. Len(pending)
            BY <1>1, <3>2, EmptySeq
          <5>2. Len(pending') = Len(pending) - 1
            BY <1>1, <3>2, <4>1, HeadTailProperties
          <5>3. pending[1] = Answered
            BY <1>2, <5>1 DEF IInv, FifoIntact
          <5> QED
            BY <5>1, <5>2, <5>3
        <4>3. RepliesIn(incoming') = {1} /\ Len(incoming') = 1
          BY <4>1 DEF RepliesIn, IncomingReply
        <4>4. OldestAnswered
          <5>1. Answered' = Answered + 1
            BY <1>1, <4>2 DEF Answered
          <5>2. incoming'[1].id = Answered
            BY <4>1, <4>2 DEF IncomingReply
          <5> QED
            BY <1>2, <4>3, <5>1, <5>2 DEF OldestAnswered
        <4>5. /\ parser # None /\ reply.number = parser[1].number
              /\ reply.control = parser[1].control /\ reply.output = parser[1].output
          BY <1>1, <1>6, ReplyIsOpenBlock
        <4>6. incoming'[1].result.lines = parser[1].output
          BY <4>1, <4>5 DEF IncomingReply, ResultOf, Ok, Failed
        <4>7. AnswerFromControlBlock
          BY <2>3, <4>1, <4>3, <4>5, <4>6 DEF AnswerFromControlBlock
        <4> QED
          BY <4>4, <4>7
      <3> QED
        BY <3>1, <3>2
    <2> QED
      BY <1>6, <2>1, <2>2, <2>3 DEF Correlate
  <1> QED
    BY <1>1, <1>4, <1>5, <1>6 DEF Surface

LEMMA OnEofSurfaces ==
    ASSUME IInv, OnEof
    PROVE  OldestAnswered /\ AnswerFromControlBlock
  <1>1. /\ Len(pending) \in Nat /\ next_id \in Nat /\ next_id' = next_id
        /\ pending' = << >> /\ Len(pending') = 0
        /\ incoming' = [i \in 1 .. Len(pending) |-> IncomingReply(pending[i], Disconnected)]
        /\ Len(incoming') = Len(pending)
    BY LenProperties, EmptySeq DEF OnEof, IInv, TypeOK
  <1>2. RepliesIn(incoming') = 1 .. Len(pending)
    BY <1>1 DEF RepliesIn, IncomingReply
  <1>3. Answered' = Answered + Len(pending)
    BY <1>1 DEF Answered
  <1>4. \A i \in 1 .. Len(pending) : /\ incoming'[i].id = Answered + i - 1
                                    /\ incoming'[i].result = Disconnected
    BY <1>1 DEF IncomingReply, IInv, FifoIntact
  <1>5. OldestAnswered
    <2>1. CASE Len(pending) = 0
      BY <1>1, <1>2, <1>3, <2>1 DEF OldestAnswered
    <2>2. CASE Len(pending) # 0
      <3>1. RepliesIn(incoming') # {}
        BY <1>1, <1>2, <2>2
      <3> QED
        BY <1>1, <1>2, <1>3, <1>4, <3>1 DEF OldestAnswered
    <2> QED
      BY <2>1, <2>2
  <1>6. AnswerFromControlBlock
    BY <1>2, <1>4 DEF AnswerFromControlBlock
  <1> QED
    BY <1>5, <1>6

LEMMA StepSurfaces ==
    ASSUME IInv, EngineNext
    PROVE  OldestAnswered /\ AnswerFromControlBlock
  <1>1. CASE RegisterCommand
    <2>1. incoming' = << >> /\ pending' = Append(pending, next_id) /\ next_id' = next_id + 1
      BY <1>1 DEF RegisterCommand
    <2>2. next_id \in Nat /\ Len(pending) \in Nat /\ Len(pending') = Len(pending) + 1
      <3>1. next_id \in CommandId
        BY <1>1, BoundAssumption DEF RegisterCommand, IInv, TypeOK, CommandId
      <3> QED
        BY <2>1, <3>1, AppendProperties, LenProperties DEF IInv, TypeOK, CommandId
    <2> QED
      BY <2>1, <2>2, NoReply, NoneSurfaced DEF Answered
  <1>2. ASSUME NEW line \in Feedable, OnLine(line)
        PROVE  OldestAnswered /\ AnswerFromControlBlock
    BY <1>2, OnLineSurfaces DEF Feedable, Line
  <1>3. CASE OnEof
    BY <1>3, OnEofSurfaces
  <1> QED
    BY <1>1, <1>2, <1>3 DEF EngineNext

(* Each call answers the oldest outstanding commands, each exactly once.   *)
THEOREM AnswersOldestAlways == EngineSpec => AnswersOldest
  <1>1. IInv /\ [EngineNext]_engineVars => [OldestAnswered]_engineVars
    BY StepSurfaces
  <1> QED
    BY <1>1, SpecIInv, PTL DEF EngineSpec, AnswersOldest

(* An answer other than Disconnected is the output of the control block    *)
(* that closed in that very call.                                          *)
THEOREM OnlyControlBlocksAnswerAlways == EngineSpec => OnlyControlBlocksAnswer
  <1>1. IInv /\ [EngineNext]_engineVars => [AnswerFromControlBlock]_engineVars
    BY StepSurfaces
  <1> QED
    BY <1>1, SpecIInv, PTL DEF EngineSpec, OnlyControlBlocksAnswer
----------------------------------------------------------------------------
(* What the drivers use of it, whatever the line says. *)

LEMMA KeepsIInv == ASSUME IInv, UNCHANGED engineVars PROVE IInv'
  BY DEF engineVars, IInv, TypeOK, FifoIntact, Answered

(* The newest outstanding command is the last one registered.              *)
LEMMA NewestIsLast ==
    ASSUME IInv, pending # << >>
    PROVE  /\ Len(pending) \in 1 .. next_id /\ next_id \in Nat
           /\ pending[Len(pending)] = next_id - 1 /\ next_id - 1 \in CommandId
  <1>1. Len(pending) \in Nat \ {0} /\ next_id \in 0 .. MaxCommands
    BY EmptySeq DEF IInv, TypeOK
  <1>2. next_id \in Nat
    BY <1>1, BoundAssumption
  <1>3. pending[Len(pending)] = Answered + Len(pending) - 1 /\ Len(pending) <= next_id
    BY <1>1, <1>2 DEF IInv, FifoIntact
  <1>4. pending[Len(pending)] = next_id - 1
    BY <1>1, <1>2, <1>3 DEF Answered
  <1>5. pending[Len(pending)] \in CommandId
    BY <1>1, ElementOfSeq DEF IInv, TypeOK
  <1> QED
    BY <1>1, <1>2, <1>3, <1>4, <1>5

(* A line never answers Disconnected, never unwinds a release build, and   *)
(* takes the newest command off the FIFO only to answer it.                *)
LEMMA OnLineAnswers ==
    ASSUME IInv, NEW line \in Line, OnLine(line)
    PROVE  /\ \A k \in RepliesIn(incoming') : incoming'[k].result # Disconnected
           /\ ~DebugAssertions => panicked' = panicked
           /\ pending # << >> /\ pending' = << >> =>
                \E k \in RepliesIn(incoming') : incoming'[k].id = next_id - 1
  <1> DEFINE event == Push(parser, line).event
             reply == event[1].reply
  <1>1. Surface(event) /\ pending \in Seq(CommandId)
    BY DEF OnLine, IInv, TypeOK
  <1>2. CASE incoming' = << >> /\ UNCHANGED <<pending, panicked>>
    BY <1>2, NoneSurfaced
  <1>3. CASE /\ event # None /\ event[1].type = "notification"
             /\ incoming' = << IncomingNotification(event[1].line) >>
             /\ UNCHANGED <<pending, last_number, panicked>>
    <2>1. RepliesIn(incoming') = {}
      BY <1>3 DEF RepliesIn, IncomingNotification
    <2> QED
      BY <1>3, <2>1
  <1>4. CASE event # None /\ event[1].type = "reply" /\ Correlate(reply)
    <2>1. CASE PassOver
      BY <1>2, <2>1 DEF PassOver
    <2>2. CASE Tripwire(reply)
      BY <2>2, NoneSurfaced DEF Tripwire
    <2>3. CASE PopFront(reply) /\ pending = << >>
      BY <1>2, <2>3 DEF PopFront
    <2>4. CASE PopFront(reply) /\ pending # << >>
      <3>1. /\ incoming' = << IncomingReply(Head(pending), ResultOf(reply)) >>
            /\ pending' = Tail(pending) /\ panicked' = panicked
        BY <2>4 DEF PopFront
      <3>2. RepliesIn(incoming') = {1} /\ incoming'[1].id = Head(pending)
        BY <3>1 DEF RepliesIn, IncomingReply
      <3>3. incoming'[1].result = ResultOf(reply)
        BY <3>1 DEF IncomingReply
      <3>4. ResultOf(reply) # Disconnected
        BY DEF ResultOf, Ok, Failed, Disconnected
      <3>5. ASSUME pending' = << >> PROVE Head(pending) = next_id - 1
        <4>1. Len(Tail(pending)) = Len(pending) - 1 /\ Len(pending) \in Nat
          BY <1>1, <2>4, HeadTailProperties, LenProperties
        <4>2. Len(pending') = 0 /\ Len(pending') = Len(pending) - 1
          <5>1. Len(<< >>) = 0
            OBVIOUS
          <5> QED
            BY <3>1, <3>5, <4>1, <5>1
        <4>3. Len(pending) = 1
          BY <4>1, <4>2
        <4>4. Head(pending) = pending[1]
          BY <1>1, <2>4
        <4> QED
          BY <2>4, <4>3, <4>4, NewestIsLast
      <3> QED
        BY <3>1, <3>2, <3>3, <3>4, <3>5
    <2> QED
      BY <1>4, <2>1, <2>2, <2>3, <2>4 DEF Correlate
  <1> QED
    BY <1>1, <1>2, <1>3, <1>4 DEF Surface, PassOver

(* The end of the session answers the newest command, if it is outstanding. *)
LEMMA OnEofAnswers ==
    ASSUME IInv, OnEof
    PROVE  /\ pending' = << >> /\ UNCHANGED <<next_id, panicked>>
           /\ pending # << >> =>
                \E k \in RepliesIn(incoming') : incoming'[k].id = next_id - 1
  <1>1. /\ incoming' = [i \in 1 .. Len(pending) |-> IncomingReply(pending[i], Disconnected)]
        /\ pending' = << >> /\ UNCHANGED <<next_id, panicked>>
    BY DEF OnEof
  <1>2. ASSUME pending # << >>
        PROVE  \E k \in RepliesIn(incoming') : incoming'[k].id = next_id - 1
    <2>1. Len(pending) \in 1 .. Len(pending) /\ pending[Len(pending)] = next_id - 1
      BY <1>2, NewestIsLast
    <2>2. incoming'[Len(pending)] = IncomingReply(next_id - 1, Disconnected)
      BY <1>1, <2>1
    <2>3. Len(pending) \in RepliesIn(incoming') /\ incoming'[Len(pending)].id = next_id - 1
      BY <1>1, <2>1, <2>2 DEF RepliesIn, IncomingReply
    <2> QED
      BY <2>3
  <1> QED
    BY <1>1, <1>2
=============================================================================
