-------------------------- MODULE CorrelationProofs --------------------------
(***************************************************************************)
(* The client and tmux together, for any number of commands in flight, any *)
(* tmux and any loss of closing guards: every answer is what tmux produced *)
(* for that very command, carries no line of another, and every            *)
(* notification tmux wrote comes through in its place.                     *)
(***************************************************************************)
EXTENDS Correlation, TmuxProofs

----------------------------------------------------------------------------
(* The books of the client, whatever tmux writes: as many answers as the   *)
(* engine took commands off its FIFO.                                      *)

Answer == [id : CommandId, result : CommandResult]

ClientTypeOK == connected \in BOOLEAN /\ ended \in BOOLEAN /\ answers \in Seq(Answer)

Told ==
    /\ Len(answers) = Answered
    /\ ended => pending = << >> /\ ~connected

ClientInv == IInv /\ TmuxTypeOK /\ ClientTypeOK /\ Told

LEMMA HandsOut ==
    ASSUME ClientInv, IInv', OldestAnswered, HandOut,
           RepliesIn(incoming') = {} \/ RepliesIn(incoming') = DOMAIN incoming'
    PROVE  answers' \in Seq(Answer) /\ Len(answers') = Answered'
  <1>1. answers \in Seq(Answer) /\ Len(answers) \in Nat /\ Len(answers) = Answered
    BY LenProperties DEF ClientInv, ClientTypeOK, Told
  <1>2. CASE RepliesIn(incoming') = {}
    BY <1>1, <1>2 DEF HandOut, OldestAnswered
  <1>3. CASE RepliesIn(incoming') # {}
    <2> DEFINE out == [i \in DOMAIN incoming' |-> AnswerTo(incoming'[i].id, incoming'[i].result)]
    <2>1. /\ incoming' \in Seq(Incoming) /\ Len(incoming') \in Nat
          /\ DOMAIN incoming' = 1 .. Len(incoming')
      BY LenProperties DEF IInv, TypeOK
    <2>2. \A i \in 1 .. Len(incoming') : AnswerTo(incoming'[i].id, incoming'[i].result) \in Answer
      <3> SUFFICES ASSUME NEW i \in 1 .. Len(incoming')
                   PROVE  AnswerTo(incoming'[i].id, incoming'[i].result) \in Answer
        OBVIOUS
      <3>1. incoming'[i] \in Incoming /\ incoming'[i].type = "reply"
        BY <1>3, <2>1, ElementOfSeq DEF RepliesIn
      <3>2. incoming'[i].id \in CommandId /\ incoming'[i].result \in CommandResult
        BY <3>1 DEF Incoming
      <3> QED
        BY <3>2 DEF AnswerTo, Answer
    <2>3. out \in Seq(Answer) /\ Len(out) = Len(incoming')
      BY <2>1, <2>2
    <2>4. answers' = answers \o out
      BY <1>3 DEF HandOut
    <2>5. Answered' = Answered + Len(incoming')
      BY <1>3 DEF OldestAnswered
    <2> HIDE DEF out
    <2>6. answers \o out \in Seq(Answer) /\ Len(answers \o out) = Len(answers) + Len(out)
      BY <1>1, <2>3, ConcatProperties
    <2> QED
      BY <1>1, <2>3, <2>4, <2>5, <2>6
  <1> QED
    BY <1>2, <1>3

LEMMA InitClientInv == Init => ClientInv
  <1> SUFFICES ASSUME Init PROVE ClientInv
    OBVIOUS
  <1>1. IInv /\ TmuxTypeOK
    BY InitIInv, TmuxInitType DEF Init
  <1>2. connected \in BOOLEAN /\ ended \in BOOLEAN /\ ~ended
    BY Zenon DEF Init
  <1>3. answers \in Seq(Answer) /\ Len(answers) = 0
    BY EmptySeq DEF Init
  <1>4. Answered = 0
    <2>1. Len(<< >>) = 0
      OBVIOUS
    <2>2. Len(pending) = 0 /\ next_id = 0
      BY <2>1 DEF Init, EngineInit
    <2> QED
      BY <2>2 DEF Answered
  <1> QED
    BY <1>1, <1>2, <1>3, <1>4 DEF ClientInv, ClientTypeOK, Told

LEMMA RegisterClient ==
    ASSUME ClientInv, connected, RegisterCommand, TmuxTypeOK', connected' \in BOOLEAN,
           UNCHANGED <<ended, answers>>
    PROVE  ClientInv'
  <1>1. IInv' /\ Answered' = Answered
    BY RegisterKeepsAnswered DEF ClientInv
  <1>2. ~ended'
    BY DEF ClientInv, Told
  <1> QED
    BY <1>1, <1>2 DEF ClientInv, ClientTypeOK, Told

LEMMA QuietClient ==
    ASSUME ClientInv, UNCHANGED <<engineVars, ended, answers>>, TmuxTypeOK',
           connected' \in BOOLEAN, connected' => connected
    PROVE  ClientInv'
  <1>1. IInv' /\ Answered' = Answered /\ pending' = pending
    BY KeepsIInv DEF ClientInv, engineVars, Answered
  <1> QED
    BY <1>1 DEF ClientInv, ClientTypeOK, Told

LEMMA ReadClient == ASSUME ClientInv, ReadLine PROVE ClientInv'
  <1>1. /\ toClient \in Seq(Line) /\ toClient # << >> /\ Head(toClient) \in Line
        /\ Tail(toClient) \in Seq(Line) /\ OnLine(Head(toClient))
    BY HeadTailProperties DEF ClientInv, TmuxTypeOK, ReadLine
  <1>2. IInv'
    BY <1>1, OnLineIInv DEF ClientInv
  <1>3. TmuxTypeOK'
    BY <1>1 DEF ClientInv, TmuxTypeOK, ReadLine
  <1>4. answers' \in Seq(Answer) /\ Len(answers') = Answered'
    <2>1. OldestAnswered
      BY <1>1, OnLineSurfaces DEF ClientInv
    <2>2. RepliesIn(incoming') = {} \/ RepliesIn(incoming') = DOMAIN incoming'
      BY <1>1, LineSurfacesOne DEF ClientInv
    <2>3. HandOut
      BY DEF ReadLine
    <2> QED
      BY <1>2, <2>1, <2>2, <2>3, HandsOut
  <1>5. ~ended' /\ UNCHANGED <<connected, ended>>
    BY DEF ReadLine
  <1> QED
    BY <1>2, <1>3, <1>4, <1>5 DEF ClientInv, ClientTypeOK, Told

LEMMA DrainClient == ASSUME ClientInv, Drain PROVE ClientInv'
  <1>1. IInv' /\ pending' = << >>
    BY OnEofIInv DEF ClientInv, Drain, OnEof
  <1>2. TmuxTypeOK'
    BY KeepsTmuxType DEF ClientInv, Drain
  <1>3. answers' \in Seq(Answer) /\ Len(answers') = Answered'
    BY <1>1, OnEofSurfaces, EofSurfaces, HandsOut DEF ClientInv, Drain
  <1>4. ended' \in BOOLEAN /\ connected' \in BOOLEAN /\ ~connected'
    BY Zenon DEF Drain
  <1> QED
    BY <1>1, <1>2, <1>3, <1>4 DEF ClientInv, ClientTypeOK, Told

(* A failed write, and the empty line at the end: what reaches tmux of the *)
(* two.                                                                    *)
Reaches(w) ==
    /\ toTmux' = toTmux \o w
    /\ MaxPerLine <= 1 => \A k \in 1 .. Len(w) : w[k] = 0 \/ (k = 1 /\ w[k] = 1)

LEMMA FailedWrite ==
    ASSUME SendFails, toTmux \in Seq(Nat)
    PROVE  \E w \in Seq(Nat) : Reaches(w)
  <1>1. CASE UNCHANGED toTmux
    <2>1. << >> \in Seq(Nat) /\ toTmux \o << >> = toTmux /\ Len(<< >>) = 0
      OBVIOUS
    <2>2. Reaches(<< >>)
      BY <1>1, <2>1 DEF Reaches
    <2> QED
      BY <2>1, <2>2
  <1>2. CASE toTmux' = Append(toTmux, 0)
    <2>1. << 0 >> \in Seq(Nat) /\ toTmux \o << 0 >> = Append(toTmux, 0)
      OBVIOUS
    <2>2. Reaches(<< 0 >>)
      BY <1>2, <2>1 DEF Reaches
    <2> QED
      BY <2>1, <2>2
  <1>3. ASSUME NEW n \in 1 .. MaxPerLine, toTmux' = toTmux \o << n >> \o << >>
        PROVE  \E w \in Seq(Nat) : Reaches(w)
    <2>1. /\ << n >> \in Seq(Nat) /\ toTmux \o << n >> \o << >> = toTmux \o << n >>
          /\ MaxPerLine <= 1 => n = 1
      BY CorrelationAssumption
    <2>2. Reaches(<< n >>)
      BY <1>3, <2>1 DEF Reaches
    <2> QED
      BY <2>1, <2>2
  <1>4. ASSUME NEW n \in 1 .. MaxPerLine, toTmux' = toTmux \o << n >> \o << 0 >>
        PROVE  \E w \in Seq(Nat) : Reaches(w)
    <2>1. /\ << n, 0 >> \in Seq(Nat) /\ toTmux \o << n >> \o << 0 >> = toTmux \o << n, 0 >>
          /\ MaxPerLine <= 1 => n = 1
      BY CorrelationAssumption
    <2>2. Reaches(<< n, 0 >>)
      BY <1>4, <2>1 DEF Reaches
    <2> QED
      BY <2>1, <2>2
  <1>5. \/ UNCHANGED toTmux \/ toTmux' = Append(toTmux, 0)
        \/ \E n \in 1 .. MaxPerLine, rest \in {<< >>, << 0 >>} :
             toTmux' = toTmux \o << n >> \o rest
    BY DEF SendFails
  <1> QED
    BY <1>1, <1>2, <1>3, <1>4, <1>5

LEMMA NextClientInv == ClientInv /\ [Next]_vars => ClientInv'
  <1> SUFFICES ASSUME ClientInv, [Next]_vars PROVE ClientInv'
    OBVIOUS
  <1>0. connected \in BOOLEAN /\ FALSE \in BOOLEAN
    BY DEF ClientInv, ClientTypeOK
  <1>1. CASE Send
    <2>1. PICK n \in 1 .. MaxPerLine : toTmux' = Append(toTmux, n)
      BY <1>1 DEF Send
    <2>2. n \in Nat
      BY <2>1, CorrelationAssumption
    <2>3. toTmux' \in Seq(Nat)
      BY <2>1, <2>2, AppendProperties DEF ClientInv, TmuxTypeOK
    <2>4. TmuxTypeOK'
      BY <1>1, <2>3 DEF ClientInv, TmuxTypeOK, Send
    <2> QED
      BY <1>0, <1>1, <2>4, RegisterClient DEF Send
  <1>2. CASE SendFails
    <2>1. PICK w \in Seq(Nat) : toTmux' = toTmux \o w
      BY <1>2, FailedWrite DEF ClientInv, TmuxTypeOK, Reaches
    <2>2. toTmux' \in Seq(Nat)
      BY <2>1, ConcatProperties DEF ClientInv, TmuxTypeOK
    <2>3. TmuxTypeOK'
      BY <1>2, <2>2 DEF ClientInv, TmuxTypeOK, SendFails
    <2>4. connected' = FALSE
      BY <1>2, Zenon DEF SendFails
    <2> QED
      BY <1>0, <1>2, <2>3, <2>4, RegisterClient DEF SendFails
  <1>3. CASE Drop
    <2>0. toTmux \in Seq(Nat) /\ (UNCHANGED toTmux \/ toTmux' = Append(toTmux, 0))
      BY <1>3 DEF Drop, ClientInv, TmuxTypeOK
    <2>1. toTmux' \in Seq(Nat)
      BY <2>0, AppendElements
    <2>2. TmuxTypeOK'
      BY <1>3, <2>1 DEF ClientInv, TmuxTypeOK, Drop
    <2>3. connected' = FALSE
      BY <1>3, Zenon DEF Drop
    <2> QED
      BY <1>0, <1>3, <2>2, <2>3, QuietClient DEF Drop
  <1>4. CASE ReadLine
    BY <1>4, ReadClient
  <1>5. CASE ReadEof \/ Teardown
    BY <1>5, DrainClient DEF ReadEof, Teardown
  <1>6. CASE Peer
    <2>1. TmuxTypeOK'
      BY <1>6, TmuxStepType DEF ClientInv, Peer
    <2> QED
      BY <1>0, <1>6, <2>1, QuietClient DEF Peer
  <1>7. CASE UNCHANGED vars
    <2>1. TmuxTypeOK'
      BY <1>7, KeepsTmuxType DEF ClientInv, vars
    <2> QED
      BY <1>0, <1>7, <2>1, QuietClient DEF vars
  <1> QED
    BY <1>1, <1>2, <1>3, <1>4, <1>5, <1>6, <1>7 DEF Next

(* After the drain every command ever registered has its answer, whatever  *)
(* tmux wrote, lost or echoed, and whenever the session ended              *)
(* (engine.rs:145-148).                                                    *)
THEOREM NobodyEverLeftWaiting == Spec => []NobodyLeftWaiting
  <1>1. ClientInv => NobodyLeftWaiting
    <2> SUFFICES ASSUME ClientInv, ended PROVE Len(answers) = next_id
      BY DEF NobodyLeftWaiting
    <2>1. Len(pending) = 0 /\ next_id \in Nat
      <3>1. Len(<< >>) = 0
        OBVIOUS
      <3> QED
        BY <3>1, BoundAssumption DEF ClientInv, Told, IInv, TypeOK
    <2> QED
      BY <2>1 DEF ClientInv, Told, Answered
  <1> QED
    BY <1>1, InitClientInv, NextClientInv, PTL DEF Spec

----------------------------------------------------------------------------
(* Both ends together, when a line holds one command and no command prints *)
(* a line shaped like a guard.                                             *)

Plain == Echoed = {} /\ MaxPerLine <= 1

(* As long as the driver takes commands, tmux owes it every one it wrote.  *)
Owed == connected => taken + Len(toTmux) <= next_id

Honest == \A a \in ToSet(answers) : Right(a.id, a.result)

WireInv ==
    /\ ClientInv
    /\ InStep /\ Owed
    /\ PlainLines
    /\ ~ended => StreamFits(toClient)
    /\ ~panicked
    /\ Honest

LEMMA StaysHonest ==
    ASSUME ClientInv, TmuxTypeOK', Honest, ServedGrows, answers' = answers
    PROVE  Honest'
  <1> SUFFICES ASSUME NEW a \in ToSet(answers) PROVE Right(a.id, a.result)'
    BY DEF Honest
  <1>1. a.id \in Nat
    <2>1. a \in Answer
      BY LenProperties DEF ClientInv, ClientTypeOK, ToSet
    <2> QED
      BY <2>1, BoundAssumption DEF Answer, CommandId
  <1>2. Right(a.id, a.result)
    BY DEF Honest
  <1>3. Len(served') \in Nat
    BY LenProperties DEF TmuxTypeOK
  <1> QED
    BY <1>1, <1>2, <1>3, StaysRight DEF ClientInv

LEMMA InitWireInv == Init => WireInv
  <1> SUFFICES ASSUME Init PROVE WireInv
    OBVIOUS
  <1>1. ClientInv
    BY InitClientInv
  <1>2. EngineInit /\ TmuxInit /\ toClient = << >> /\ answers = << >>
        /\ toTmux = << >> /\ taken = 0 /\ next_id = 0
    BY DEF Init, EngineInit, TmuxInit
  <1>3. InStep /\ PlainLines /\ StreamFits(<< >>)
    BY <1>1, <1>2, StreamStarts DEF ClientInv
  <1>4. StreamFits(toClient)
    BY <1>2, <1>3, Zenon
  <1>5. ~panicked
    BY Zenon DEF Init, EngineInit
  <1>6. Owed
    <2>1. Len(<< >>) = 0
      OBVIOUS
    <2> QED
      BY <1>2, <2>1 DEF Owed
  <1>7. Honest
    BY <1>2, NoElements DEF Honest
  <1> QED
    BY <1>1, <1>3, <1>4, <1>5, <1>6, <1>7 DEF WireInv

(* The client writes or registers; tmux has not moved, nor has the stream. *)
LEMMA ClientStep ==
    ASSUME WireInv, ClientInv', Here' = Here,
           UNCHANGED <<toClient, alive, number, running, served, lost, panicked, answers>>,
           ~ended' => ~ended
    PROVE  /\ PlainLines' /\ (~ended' => StreamFits(toClient)') /\ ~panicked' /\ Honest'
  <1>1. ServedGrows /\ TmuxTypeOK /\ TmuxTypeOK'
    BY LenProperties DEF WireInv, ClientInv, TmuxTypeOK, ServedGrows
  <1>2. Honest'
    BY <1>1, StaysHonest DEF WireInv
  <1>3. ASSUME ~ended' PROVE StreamFits(toClient)'
    <2>1. PICK s \in Seq(Line) : s = toClient
      BY <1>1 DEF TmuxTypeOK
    <2>2. StreamFits(s)
      BY <1>3, <2>1, Zenon DEF WireInv
    <2>3. \A point \in Point : alive' /\ Meets(point) => Meets(point)'
      BY DEF Meets, LeftOpen
    <2>4. StreamFits(s)'
      BY <1>1, <2>2, <2>3, StreamStays
    <2>5. s = toClient'
      BY <2>1
    <2> QED
      BY <2>4, <2>5, Zenon
  <1> QED
    BY <1>2, <1>3 DEF WireInv, PlainLines

LEMMA SendStep == ASSUME WireInv, Plain, ClientInv', Send PROVE WireInv'
  <1>1. Here' = Here /\ next_id' = next_id + 1 /\ panicked' = panicked
    <2>1. RegisterCommand
      BY DEF Send
    <2>2. Answered' = Answered
      BY <2>1, RegisterKeepsAnswered DEF WireInv, ClientInv
    <2> QED
      BY <2>1, <2>2 DEF Here, RegisterCommand
  <1>2. PICK n \in 1 .. MaxPerLine : toTmux' = Append(toTmux, n)
    BY DEF Send
  <1>3. n = 1
    BY <1>2, CorrelationAssumption DEF Plain
  <1>4. /\ IInv /\ TmuxTypeOK /\ InStep /\ taken + Len(toTmux) <= next_id
        /\ taken \in Nat /\ next_id \in Nat /\ Len(toTmux) \in Nat
        /\ UNCHANGED <<taken, running, served, connected>>
    BY InStepCounts DEF WireInv, ClientInv, Owed, Send
  <1>5. InStep' /\ Len(toTmux') = Len(toTmux) + 1
    <2>1. toTmux' = Append(toTmux, 1)
      BY <1>2, <1>3
    <2>2. next_id' \in Nat /\ next_id <= next_id' /\ taken + Len(toTmux) < next_id'
      BY <1>1, <1>4
    <2> QED
      BY <1>4, <2>1, <2>2, WriteKeepsInStep
  <1>6. Owed'
    BY <1>1, <1>4, <1>5 DEF Owed
  <1>7. PlainLines' /\ (~ended' => StreamFits(toClient)') /\ ~panicked' /\ Honest'
    BY <1>1, ClientStep DEF Send
  <1> QED
    BY <1>5, <1>6, <1>7 DEF WireInv

LEMMA SendFailsStep == ASSUME WireInv, Plain, ClientInv', SendFails PROVE WireInv'
  <1>1. Here' = Here /\ next_id' = next_id + 1 /\ panicked' = panicked
    <2>1. RegisterCommand
      BY DEF SendFails
    <2>2. Answered' = Answered
      BY <2>1, RegisterKeepsAnswered DEF WireInv, ClientInv
    <2> QED
      BY <2>1, <2>2 DEF Here, RegisterCommand
  <1>2. /\ UNCHANGED <<toClient, alive, number, taken, running, served, lost, ended, answers>>
        /\ ~connected' /\ InControl' = InControl
    BY Zenon DEF SendFails, InControl
  <1>3. PICK w \in Seq(Nat) :
             /\ toTmux' = toTmux \o w
             /\ \A k \in 1 .. Len(w) : w[k] = 0 \/ (k = 1 /\ w[k] = 1)
    BY FailedWrite DEF WireInv, ClientInv, TmuxTypeOK, Reaches, Plain
  <1>4. /\ taken \in Nat /\ next_id \in Nat /\ Len(toTmux) \in Nat /\ toTmux \in Seq(Nat)
        /\ taken + Len(toTmux) <= next_id
    BY InStepCounts DEF WireInv, ClientInv, Owed, SendFails
  <1>5. /\ Len(toTmux') = Len(toTmux) + Len(w) /\ Len(w) \in Nat
        /\ \A i \in 1 .. Len(toTmux) : toTmux'[i] = toTmux[i]
        /\ \A k \in 1 .. Len(w) : toTmux'[Len(toTmux) + k] = w[k]
    BY <1>3, <1>4
  <1>6. ASSUME NEW i \in 1 .. Len(toTmux')
        PROVE  toTmux'[i] <= 1 /\ (toTmux'[i] > 0 => taken + i <= next_id')
    <2>1. CASE i \in 1 .. Len(toTmux)
      <3>1. toTmux'[i] = toTmux[i] /\ toTmux[i] <= 1 /\ (toTmux[i] > 0 => taken + i <= next_id)
        BY <1>5, <2>1 DEF WireInv, InStep
      <3> QED
        BY <1>1, <1>4, <2>1, <3>1
    <2>2. CASE i \notin 1 .. Len(toTmux)
      <3>1. PICK k \in 1 .. Len(w) : i = Len(toTmux) + k
        <4>1. i - Len(toTmux) \in 1 .. Len(w) /\ i = Len(toTmux) + (i - Len(toTmux))
          BY <1>4, <1>5, <2>2
        <4> QED
          BY <4>1
      <3>2. toTmux'[i] = 0 \/ (k = 1 /\ toTmux'[i] = 1)
        BY <1>3, <1>5, <3>1
      <3> QED
        BY <1>1, <1>4, <3>1, <3>2
    <2> QED
      BY <2>1, <2>2
  <1>7. InStep' /\ Owed'
    BY <1>1, <1>2, <1>4, <1>6 DEF WireInv, InStep, Owed, SendFails
  <1>8. PlainLines' /\ (~ended' => StreamFits(toClient)') /\ ~panicked' /\ Honest'
    BY <1>1, <1>2, ClientStep
  <1> QED
    BY <1>7, <1>8 DEF WireInv

LEMMA DropStep == ASSUME WireInv, ClientInv', Drop PROVE WireInv'
  <1>1. Here' = Here /\ next_id' = next_id /\ panicked' = panicked /\ ~connected'
    BY Zenon DEF Drop, engineVars, Here, Answered
  <1>2. InStep' /\ Owed'
    <2>1. /\ IInv /\ TmuxTypeOK /\ InStep /\ UNCHANGED <<taken, running, served>>
          /\ next_id' \in Nat /\ next_id <= next_id'
      BY <1>1, InStepCounts DEF WireInv, ClientInv, Drop
    <2>2. CASE toTmux' = toTmux
      BY <1>1, <2>1, <2>2, KeepsInStep DEF Owed
    <2>3. CASE toTmux' = Append(toTmux, 0)
      <3>1. InStep'
        BY <2>1, <2>3, WriteKeepsInStep
      <3> QED
        BY <1>1, <3>1 DEF Owed
    <2> QED
      BY <2>2, <2>3 DEF Drop
  <1>3. PlainLines' /\ (~ended' => StreamFits(toClient)') /\ ~panicked' /\ Honest'
    BY <1>1, ClientStep DEF Drop
  <1> QED
    BY <1>2, <1>3 DEF WireInv

(* What reading a line does to the answers: nothing, or the oldest command *)
(* gets the outcome of that command.                                       *)
LEMMA ReadAnswers ==
    ASSUME WireInv, ReadLine
    PROVE  /\ StreamFits(toClient)' /\ panicked' = panicked
           /\ \/ answers' = answers
              \/ \E result \in CommandResult :
                   /\ answers' = Append(answers, AnswerTo(Len(answers), result))
                   /\ result # Disconnected /\ Len(answers) < Len(served)
                   /\ Fits(result, served[Len(answers) + 1])
                   /\ Own(result.lines, Len(answers))
  <1>1. PICK s \in Seq(Line) : s = toClient
    BY DEF WireInv, ClientInv, TmuxTypeOK
  <1>2. /\ s # << >> /\ OnLine(Head(s)) /\ toClient' = Tail(s) /\ ~ended /\ HandOut
        /\ UNCHANGED <<alive, number, running, served>>
    BY <1>1 DEF ReadLine
  <1>3. StreamFits(s)
    BY <1>1, <1>2, Zenon DEF WireInv
  <1>4. /\ StreamFits(Tail(s))' /\ panicked' = panicked
        /\ \/ RepliesIn(incoming') = {} /\ Answered' = Answered
           \/ \E result \in CommandResult :
                /\ incoming' = << IncomingReply(Answered, result) >>
                /\ result # Disconnected /\ Answered < Len(served)
                /\ Fits(result, served[Answered + 1]) /\ Answered' = Answered + 1
                /\ Own(result.lines, Answered)
    <2>1. IInv /\ TmuxTypeOK /\ Len(served) <= next_id
      BY InStepCounts DEF WireInv, ClientInv
    <2> QED
      BY <1>2, <1>3, <2>1, LineStep
  <1>5. StreamFits(toClient)'
    BY <1>2, <1>4, Zenon
  <1>6. CASE RepliesIn(incoming') = {}
    BY <1>2, <1>4, <1>5, <1>6 DEF HandOut
  <1>7. ASSUME NEW result \in CommandResult, incoming' = << IncomingReply(Answered, result) >>
        PROVE  answers' = Append(answers, AnswerTo(Len(answers), result))
    <2> DEFINE out == [i \in DOMAIN incoming' |-> AnswerTo(incoming'[i].id, incoming'[i].result)]
    <2>1. RepliesIn(incoming') # {} /\ DOMAIN incoming' = 1 .. 1
          /\ incoming'[1].id = Answered /\ incoming'[1].result = result
      BY <1>7 DEF RepliesIn, IncomingReply
    <2>2. answers' = answers \o out
      BY <1>2, <2>1 DEF HandOut
    <2>3. out = << AnswerTo(Answered, result) >>
      BY <2>1
    <2>4. Answered = Len(answers) /\ answers \in Seq(Answer)
      BY DEF WireInv, ClientInv, ClientTypeOK, Told
    <2> HIDE DEF out
    <2>5. AnswerTo(Answered, result) \in Answer
      <3>1. Answered \in CommandId
        <4>1. IInv'
          BY NextClientInv DEF WireInv, Next, ClientInv
        <4>2. incoming'[1] \in Incoming /\ incoming'[1] = IncomingReply(Answered, result)
          BY <1>7, <2>1, <4>1 DEF IInv, TypeOK
        <4> QED
          BY <4>2 DEF Incoming, IncomingReply
      <3> QED
        BY <3>1 DEF AnswerTo, Answer
    <2> QED
      BY <2>2, <2>3, <2>4, <2>5
  <1>8. Answered = Len(answers)
    BY DEF WireInv, ClientInv, Told
  <1> QED
    BY <1>4, <1>5, <1>6, <1>7, <1>8

LEMMA ReadStep == ASSUME WireInv, ClientInv', ReadLine PROVE WireInv'
  <1>1. /\ UNCHANGED <<toTmux, alive, number, taken, running, served, lost, connected, ended>>
        /\ next_id' = next_id
    BY DEF ReadLine, OnLine
  <1>2. InStep' /\ Owed' /\ PlainLines'
    BY <1>1 DEF WireInv, InStep, Owed, PlainLines, InControl
  <1>3. ServedGrows /\ TmuxTypeOK'
    BY <1>1, InStepCounts DEF WireInv, ClientInv, ServedGrows
  <1>4. Honest'
    <2>1. CASE answers' = answers
      BY <1>3, <2>1, StaysHonest DEF WireInv
    <2>2. ASSUME NEW result \in CommandResult,
                 answers' = Append(answers, AnswerTo(Len(answers), result)),
                 Len(answers) < Len(served), Fits(result, served[Len(answers) + 1]),
                 Own(result.lines, Len(answers))
          PROVE  Honest'
      <3> DEFINE told == AnswerTo(Len(answers), result)
      <3>1. told.id = Len(answers) /\ told.result = result
        BY DEF AnswerTo
      <3>2. answers \in Seq(Answer) /\ answers' \in Seq(Answer) /\ Len(answers) \in Nat
        BY LenProperties DEF WireInv, ClientInv, ClientTypeOK
      <3>3. told \in Answer
        <4>1. answers'[Len(answers) + 1] = told /\ Len(answers') = Len(answers) + 1
          BY <2>2, <3>2
        <4> QED
          BY <3>2, <4>1, ElementOfSeq
      <3>4. ToSet(answers') = ToSet(answers) \cup {told}
        BY <2>2, <3>2, <3>3, AppendElements
      <3> HIDE DEF told
      <3> SUFFICES ASSUME NEW a \in ToSet(answers') PROVE Right(a.id, a.result)'
        BY DEF Honest
      <3>5. CASE a \in ToSet(answers)
        <4>1. Right(a.id, a.result)
          BY <3>5 DEF WireInv, Honest
        <4> QED
          BY <1>1, <4>1 DEF Right
      <3>6. CASE a = told
        BY <1>1, <2>2, <3>1, <3>6 DEF Right
      <3> QED
        BY <3>4, <3>5, <3>6
    <2> QED
      BY <2>1, <2>2, ReadAnswers
  <1>5. StreamFits(toClient)' /\ ~panicked'
    BY ReadAnswers DEF WireInv
  <1> QED
    BY <1>2, <1>4, <1>5 DEF WireInv

(* What the drain does to the answers: Disconnected for those who wait.    *)
LEMMA DrainAnswers ==
    ASSUME ClientInv, Drain
    PROVE  /\ answers' = answers \o [i \in 1 .. next_id - Len(answers) |->
                                       AnswerTo(Len(answers) + i - 1, Disconnected)]
           /\ next_id - Len(answers) \in Nat
  <1> DEFINE out == [i \in DOMAIN incoming' |-> AnswerTo(incoming'[i].id, incoming'[i].result)]
             gone == [i \in 1 .. next_id - Len(answers) |->
                        AnswerTo(Len(answers) + i - 1, Disconnected)]
  <1>1. Answered = Len(answers) /\ OnEof /\ HandOut /\ IInv
        /\ answers \in Seq(Answer) /\ Len(answers) \in Nat
    BY LenProperties DEF ClientInv, ClientTypeOK, Told, Drain
  <1>2. /\ RepliesIn(incoming') = DOMAIN incoming' /\ DOMAIN incoming' = 1 .. Len(pending)
        /\ \A i \in 1 .. Len(pending) : /\ incoming'[i].id = Answered + i - 1
                                       /\ incoming'[i].result = Disconnected
        /\ Len(pending) = next_id - Len(answers) /\ Len(pending) \in Nat
    BY <1>1, EofSurfaces
  <1>3. out = gone
    BY <1>1, <1>2
  <1>4. CASE RepliesIn(incoming') # {}
    BY <1>1, <1>2, <1>3, <1>4 DEF HandOut
  <1>5. CASE RepliesIn(incoming') = {}
    <2>1. answers' = answers
      BY <1>1, <1>5 DEF HandOut
    <2>2. next_id - Len(answers) = 0
      <3>1. 1 .. Len(pending) = {}
        BY <1>2, <1>5
      <3> QED
        BY <1>2, <3>1
    <2>3. gone = << >>
      BY <2>2
    <2> HIDE DEF gone
    <2>4. answers \o gone = answers
      BY <1>1, <2>3, ConcatEmptySeq
    <2> QED
      BY <1>2, <2>1, <2>4 DEF gone
  <1> QED
    BY <1>4, <1>5

LEMMA DrainStep == ASSUME WireInv, ClientInv', Drain PROVE WireInv'
  <1>1. UNCHANGED tmuxVars /\ next_id' = next_id /\ panicked' = panicked /\ ended' /\ ~connected'
    BY Zenon DEF Drain, OnEof
  <1>2. UNCHANGED <<toTmux, taken, running, served, lost>>
    BY <1>1 DEF tmuxVars
  <1>3. InStep' /\ Owed' /\ PlainLines'
    BY <1>1, <1>2 DEF WireInv, InStep, Owed, PlainLines, InControl
  <1>4. Honest'
    <2> DEFINE gone == [i \in 1 .. next_id - Len(answers) |->
                          AnswerTo(Len(answers) + i - 1, Disconnected)]
    <2>1. /\ answers' = answers \o gone /\ next_id - Len(answers) \in Nat
          /\ answers \in Seq(Answer) /\ answers' \in Seq(Answer)
      BY DrainAnswers DEF WireInv, ClientInv, ClientTypeOK
    <2>2. \A i \in 1 .. next_id - Len(answers) : gone[i].result = Disconnected
      BY DEF AnswerTo
    <2>3. DOMAIN gone = 1 .. next_id - Len(answers)
      OBVIOUS
    <2> DEFINE All == Answer \cup {AnswerTo(k, Disconnected) : k \in Int}
    <2>4. \A i \in 1 .. next_id - Len(answers) : AnswerTo(Len(answers) + i - 1, Disconnected) \in All
      BY <2>1, LenProperties
    <2>5. answers \in Seq(All) /\ gone \in Seq(All)
      <3>1. Answer \subseteq All
        OBVIOUS
      <3> HIDE DEF All
      <3>2. gone \in Seq(All)
        <4>1. PICK n \in Nat : n = next_id - Len(answers)
          BY <2>1
        <4>2. gone = [i \in 1 .. n |-> AnswerTo(Len(answers) + i - 1, Disconnected)]
          BY <4>1
        <4>3. \A i \in 1 .. n : AnswerTo(Len(answers) + i - 1, Disconnected) \in All
          BY <2>4, <4>1
        <4>4. [i \in 1 .. n |-> AnswerTo(Len(answers) + i - 1, Disconnected)] \in Seq(All)
          BY <4>3
        <4> QED
          BY <4>2, <4>4
      <3> HIDE DEF gone
      <3>3. answers \in Seq(All)
        BY <2>1, <3>1, SeqMonotonic
      <3> QED
        BY <3>2, <3>3
    <2> HIDE DEF gone, All
    <2>6. ToSet(answers') = ToSet(answers) \cup ToSet(gone)
      BY <2>1, <2>5, ConcatElements
    <2> SUFFICES ASSUME NEW a \in ToSet(answers'), a.result # Disconnected
                 PROVE  Right(a.id, a.result)'
      BY DEF Honest, Right
    <2>7. a \notin ToSet(gone)
      BY <2>2, <2>3 DEF ToSet
    <2>8. a \in ToSet(answers)
      BY <2>6, <2>7
    <2>9. Right(a.id, a.result)
      BY <2>8 DEF WireInv, Honest
    <2> QED
      BY <1>2, <2>9 DEF Right
  <1> QED
    BY <1>1, <1>3, <1>4 DEF WireInv

LEMMA PeerStep == ASSUME WireInv, Plain, ClientInv', Peer PROVE WireInv'
  <1>1. /\ TmuxNext /\ UNCHANGED engineVars /\ UNCHANGED <<connected, ended, answers>>
        /\ next_id' = next_id /\ panicked' = panicked
    BY DEF Peer, engineVars
  <1>2. IInv /\ TmuxTypeOK /\ InStep
    BY DEF WireInv, ClientInv
  <1>3. InStep' /\ Owed'
    <2>1. InStep' /\ taken' + Len(toTmux') <= taken + Len(toTmux)
      BY <1>1, <1>2, PeerInStep
    <2>2. /\ taken \in Nat /\ Len(toTmux) \in Nat /\ next_id \in Nat
          /\ taken' \in Nat /\ Len(toTmux') \in Nat
      BY <1>2, InStepCounts, LenProperties DEF ClientInv, TmuxTypeOK
    <2> QED
      BY <1>1, <2>1, <2>2 DEF WireInv, Owed
  <1>4. PlainLines'
    BY <1>1, <1>2, PeerLines DEF WireInv, Plain
  <1>5. ASSUME ~ended' PROVE StreamFits(toClient)'
    <2>1. \A s \in Seq(Line) : << >> \o s = s
      BY ConcatEmptySeq
    <2>2. << >> \o toClient = toClient /\ << >> \o toClient' = toClient'
      BY <1>2, <2>1 DEF ClientInv, TmuxTypeOK
    <2>3. StreamFits(<< >> \o toClient)
      BY <1>1, <1>5, <2>2, Zenon DEF WireInv
    <2>4. << >> \in Seq(Line) /\ (running' # None => running'[1].lines \in Seq(ContentLine))
      BY <1>4, EmptySeq DEF PlainLines
    <2>5. StreamFits(<< >> \o toClient)'
      BY <1>1, <1>2, <2>3, <2>4, StreamStep
    <2> QED
      BY <2>2, <2>5, Zenon
  <1>6. Honest'
    BY <1>1, <1>2, PeerGrows, StaysHonest DEF WireInv, ClientInv
  <1> QED
    BY <1>1, <1>3, <1>4, <1>5, <1>6 DEF WireInv

LEMMA NextWireInv == ASSUME Plain PROVE WireInv /\ [Next]_vars => WireInv'
  <1> SUFFICES ASSUME WireInv, [Next]_vars PROVE WireInv'
    OBVIOUS
  <1>0. ClientInv'
    BY NextClientInv DEF WireInv
  <1>1. CASE Send
    BY <1>0, <1>1, SendStep
  <1>2. CASE SendFails
    BY <1>0, <1>2, SendFailsStep
  <1>3. CASE Drop
    BY <1>0, <1>3, DropStep
  <1>4. CASE ReadLine
    BY <1>0, <1>4, ReadStep
  <1>5. CASE ReadEof \/ Teardown
    BY <1>0, <1>5, DrainStep DEF ReadEof, Teardown
  <1>6. CASE Peer
    BY <1>0, <1>6, PeerStep
  <1>7. CASE UNCHANGED vars
    <2>1. Here' = Here /\ UNCHANGED <<engineVars, tmuxVars, connected, ended, answers>>
      BY <1>7 DEF vars, engineVars, Here, Answered
    <2>2. InStep' /\ Owed'
      BY <2>1 DEF WireInv, InStep, Owed, InControl, engineVars, tmuxVars
    <2>3. PlainLines' /\ (~ended' => StreamFits(toClient)') /\ ~panicked' /\ Honest'
      BY <1>0, <2>1, ClientStep DEF engineVars, tmuxVars
    <2> QED
      BY <1>0, <2>2, <2>3 DEF WireInv
  <1> QED
    BY <1>1, <1>2, <1>3, <1>4, <1>5, <1>6, <1>7 DEF Next

LEMMA SpecWireInv == ASSUME Plain PROVE Spec => []WireInv
  BY InitWireInv, NextWireInv, PTL DEF Spec

(* Every answer but Disconnected is the outcome of the very command it is  *)
(* for, however many are in flight (engine.rs:9-13, parser.rs:114-118).    *)
THEOREM AlwaysRightAnswer == ASSUME Plain PROVE Spec => []RightAnswer
  <1>1. WireInv => RightAnswer
    BY DEF WireInv, Honest, Right, Fits, RightAnswer
  <1> QED
    BY <1>1, SpecWireInv, PTL

(* No answer carries a line some other command printed, not even where a   *)
(* lost guard leaves two blocks' worth of lines in one (engine.rs:52).     *)
THEOREM AlwaysAnswersOwn == ASSUME Plain PROVE Spec => []AnswersOwn
  <1>1. WireInv => AnswersOwn
    <2> SUFFICES ASSUME WireInv, NEW a \in ToSet(answers)
                 PROVE  \A line \in ToSet(a.result.lines) : line \in Text => line.body \in {a.id, Server}
      BY DEF AnswersOwn
    <2>1. CASE a.result = Disconnected
      BY <2>1, NoElements DEF Disconnected
    <2>2. CASE a.result # Disconnected
      BY <2>2 DEF WireInv, Honest, Right, Own
    <2> QED
      BY <2>1, <2>2
  <1> QED
    BY <1>1, SpecWireInv, PTL

(* A block closes at the %end or %error with its own number, or at the     *)
(* next %begin after its guard was lost (parser.rs:114-125).               *)
THEOREM AlwaysClosesAtOwnEnd == ASSUME Plain PROVE Spec => ClosesAtOwnEnd
  <1>1. WireInv /\ [Next]_vars
          => [parser # None /\ parser' = None => Head(toClient).number = parser[1].number]_vars
    <2> SUFFICES ASSUME WireInv, [Next]_vars, vars' # vars, parser # None, parser' = None
                 PROVE  Head(toClient).number = parser[1].number
      BY Zenon
    <2>1. ReadLine
      BY DEF Next, Send, SendFails, Drop, ReadEof, Teardown, Drain, Peer, RegisterCommand, OnEof,
             engineVars
    <2>2. PICK s \in Seq(Line) : s = toClient
      BY DEF WireInv, ClientInv, TmuxTypeOK
    <2>3. s # << >> /\ OnLine(Head(s)) /\ StreamFits(s)
      BY <2>1, <2>2, Zenon DEF WireInv, ReadLine
    <2>4. ClosesOwn(Here, Head(s)) /\ Head(s) \in Line
      BY <2>3, FirstSound DEF Sound
    <2>5. Head(s).kind \in {"end", "error"}
      <3>1. Push(parser, Head(s)).parser = None
        BY <2>3 DEF OnLine
      <3>2. \A x : Some(x) # None
        BY DEF Some, None
      <3>3. CASE Head(s).kind = "begin"
        <4>1. Push(parser, Head(s)).parser = Some(OpenBlock(Head(s)))
          BY <3>3, PushBegin
        <4> QED
          BY <3>1, <3>2, <4>1
      <3>4. CASE Head(s) \in ContentLine
        <4>1. Push(parser, Head(s)).parser = Some([parser[1] EXCEPT !.output = Append(@, Head(s))])
          BY <3>4, PushContent
        <4> QED
          BY <3>1, <3>2, <4>1
      <3> QED
        BY <2>4, <3>3, <3>4, LineCases DEF IsGuard, GuardKind
    <2> QED
      BY <2>2, <2>4, <2>5 DEF ClosesOwn, Here
  <1> QED
    BY <1>1, SpecWireInv, PTL DEF Spec, ClosesAtOwnEnd

(* The desync assertion stays silent, lost guards or not                   *)
(* (engine.rs:120-130).                                                    *)
THEOREM TripwireAlwaysSilent == ASSUME Plain PROVE Spec => []TripwireSilent
  <1>1. WireInv => TripwireSilent
    BY DEF WireInv, TripwireSilent
  <1> QED
    BY <1>1, SpecWireInv, PTL

----------------------------------------------------------------------------
(* Until a closing guard gets lost, every step is one the abstract client  *)
(* takes, or leaves it where it is.                                        *)

LEMMA PromiseInit == Init => Abstract!Init
  BY DEF Init, EngineInit, TmuxInit, Abstract!Init

LEMMA PromiseRegister ==
    ASSUME ClientInv, connected, RegisterCommand, UNCHANGED <<served, answers, ended>>
    PROVE  Abstract!Next
  <1>1. ~ended /\ next_id' = next_id + 1
    BY DEF ClientInv, Told, RegisterCommand
  <1>2. Abstract!Send
    BY <1>1 DEF Abstract!Send
  <1> QED
    BY <1>2 DEF Abstract!Next

LEMMA PromiseRead ==
    ASSUME WireInv, ReadLine, lost' = 0
    PROVE  [Abstract!Next]_Abstract!vars
  <1>1. UNCHANGED <<next_id, served, ended>> /\ ~ended /\ lost = 0
    BY DEF ReadLine, OnLine
  <1>2. CASE answers' = answers
    BY <1>1, <1>2 DEF Abstract!vars
  <1>3. ASSUME NEW result \in CommandResult,
               answers' = Append(answers, AnswerTo(Len(answers), result)),
               Len(answers) < Len(served), Fits(result, served[Len(answers) + 1])
        PROVE  Abstract!Next
    <2>1. served \in Seq(PlainOutcome) /\ Len(answers) \in Nat /\ Len(served) \in Nat
      BY <1>1, LenProperties DEF WireInv, PlainLines, ClientInv, ClientTypeOK, TmuxTypeOK
    <2>2. served[Len(answers) + 1] \in PlainOutcome
      <3>1. Len(answers) + 1 \in 1 .. Len(served)
        BY <1>3, <2>1
      <3> QED
        BY <2>1, <3>1, ElementOfSeq
    <2>3. result = served[Len(answers) + 1]
      <3>1. served[Len(answers) + 1].status # "lost"
        BY <2>2 DEF PlainOutcome
      <3> QED
        BY <1>3, <3>1 DEF Fits
    <2>4. Abstract!Answer
      BY <1>1, <1>3, <2>3 DEF Abstract!Answer, AnswerTo
    <2> QED
      BY <2>4 DEF Abstract!Next
  <1> QED
    BY <1>2, <1>3, ReadAnswers

LEMMA PromiseDrain == ASSUME ClientInv, Drain PROVE Abstract!Next
  <1>1. /\ ~ended /\ ended' = TRUE /\ UNCHANGED <<next_id, served>>
    BY DEF Drain, OnEof, tmuxVars
  <1>2. answers' = answers \o [i \in 1 .. next_id - Len(answers) |->
                                 [id |-> Len(answers) + i - 1, result |-> Disconnected]]
    BY DrainAnswers DEF AnswerTo
  <1>3. Abstract!EndSession
    BY <1>1, <1>2 DEF Abstract!EndSession
  <1> QED
    BY <1>3 DEF Abstract!Next

LEMMA PromisePeer ==
    ASSUME WireInv, WireInv', Peer, lost' = 0
    PROVE  [Abstract!Next]_Abstract!vars
  <1>1. /\ UNCHANGED <<next_id, answers, ended>> /\ TmuxNext
        /\ IInv /\ TmuxTypeOK /\ InStep /\ PlainLines'
    BY DEF Peer, engineVars, WireInv, ClientInv
  <1>2. CASE served' = served
    BY <1>1, <1>2 DEF Abstract!vars
  <1>3. CASE served' # served
    <2>1. Abstract!Execute
      BY <1>1, <1>3, PeerExecutes DEF Abstract!Execute, PlainOutcome
    <2> QED
      BY <2>1 DEF Abstract!Next
  <1> QED
    BY <1>2, <1>3

LEMMA PromiseStep ==
    ASSUME WireInv, WireInv', [Next]_vars, lost' = 0
    PROVE  [Abstract!Next]_Abstract!vars
  <1>1. CASE Send
    BY <1>1, PromiseRegister DEF Send, WireInv
  <1>2. CASE SendFails
    BY <1>2, PromiseRegister DEF SendFails, WireInv, tmuxVars
  <1>3. CASE Drop
    BY <1>3 DEF Drop, engineVars, Abstract!vars
  <1>4. CASE ReadLine
    BY <1>4, PromiseRead
  <1>5. CASE ReadEof \/ Teardown
    BY <1>5, PromiseDrain DEF ReadEof, Teardown, WireInv
  <1>6. CASE Peer
    BY <1>6, PromisePeer
  <1>7. CASE UNCHANGED vars
    BY <1>7 DEF vars, engineVars, tmuxVars, Abstract!vars
  <1> QED
    BY <1>1, <1>2, <1>3, <1>4, <1>5, <1>6, <1>7 DEF Next

(* The client and tmux implement Correlator until a closing guard is lost: *)
(* commands are executed in the order sent and each is answered with its   *)
(* own outcome, in order, or told that the session is over.                *)
THEOREM PromiseAlwaysKept == ASSUME Plain PROVE Spec => KeepsPromise
  <1>1. WireInv /\ WireInv' /\ [Next]_vars
          => [lost' = 0 => [Abstract!Next]_Abstract!vars]_vars
    BY PromiseStep
  <1> QED
    BY <1>1, PromiseInit, SpecWireInv, PTL DEF Spec, KeepsPromise
----------------------------------------------------------------------------
(* Notifications.  The lines on their way lead from the notifications      *)
(* heard to those due: a point says whether a line finds the client in a   *)
(* block, and how many notifications it was due before it.                 *)

NotePoint == [at : {"inside", "between"}, notes : Nat]

Passed(p, line, q) ==
    \/ line.kind = "begin" /\ q.at = "inside" /\ q.notes = p.notes
    \/ line.kind \in {"end", "error"} /\ p.at = "inside" /\ q.at = "between" /\ q.notes = p.notes
    \/ line \in ContentLine /\ p.at = "inside" /\ q.at = "inside" /\ q.notes = p.notes
    \/ /\ line \in Text /\ p.at = "between" /\ q.at = "between"
       /\ p.notes < Len(due) /\ line = due[p.notes + 1] /\ q.notes = p.notes + 1

(* The last block tmux wrote looks open to the client. *)
Inside == running # None \/ number \in cut

(* The point the client is at, and the one tmux is at. *)
Departs(p) == (p.at = "inside" <=> parser # None) /\ p.notes = Len(heard)
Arrives(p) == (p.at = "inside" <=> Inside) /\ p.notes = Len(due)

(* With exits = "flushed" tmux does not die on output it still buffers.    *)
NotesFit(s, exits) ==
    \E t \in [0 .. Len(s) -> NotePoint] :
      /\ Departs(t[0])
      /\ \A i \in 1 .. Len(s) : Passed(t[i - 1], s[i], t[i])
      /\ alive => Arrives(t[Len(s)])
      /\ exits = "flushed" => t[Len(s)].notes = Len(due)

HeardInOrder ==
    Len(heard) <= Len(due) /\ \A i \in 1 .. Len(heard) : heard[i] = due[i]

NotesInv(exits) ==
    /\ ClientInv
    /\ heard \in Seq(Line) /\ due \in Seq(Line)
    /\ cut \subseteq 0 .. number /\ (running # None => number \notin cut)
    /\ HeardInOrder /\ NotesFit(toClient, exits)

DueGrows ==
    /\ due \in Seq(Line) /\ due' \in Seq(Line)
    /\ Len(due) <= Len(due') /\ \A i \in 1 .. Len(due) : due'[i] = due[i]

LEMMA StaysPassed ==
    ASSUME DueGrows, NEW p \in NotePoint, NEW line, NEW q,
           Passed(p, line, q)
    PROVE  Passed(p, line, q)'
  <1>1. Len(due) \in Nat /\ Len(due') \in Nat /\ p.notes \in Nat
    BY LenProperties DEF DueGrows, NotePoint
  <1>2. ASSUME p.notes < Len(due), line = due[p.notes + 1]
        PROVE  p.notes < Len(due') /\ line = due'[p.notes + 1]
    <2>1. p.notes + 1 \in 1 .. Len(due)
      BY <1>1, <1>2
    <2> QED
      BY <1>1, <1>2, <2>1 DEF DueGrows
  <1> QED
    BY <1>2 DEF Passed

(* The lines stay, though the ends may move.                               *)
LEMMA NotesStay ==
    ASSUME UNCHANGED due, NEW s \in Seq(Line), NEW exits,
           NotesFit(s, exits), parser' # None <=> parser # None, heard' = heard,
           alive' => alive /\ Inside' = Inside
    PROVE  NotesFit(s, exits)'
  <1>1. PICK t \in [0 .. Len(s) -> NotePoint] :
           /\ Departs(t[0])
           /\ \A i \in 1 .. Len(s) : Passed(t[i - 1], s[i], t[i])
           /\ alive => Arrives(t[Len(s)])
           /\ exits = "flushed" => t[Len(s)].notes = Len(due)
    BY DEF NotesFit
  <1>2. Departs(t[0])' /\ (alive' => Arrives(t[Len(s)])')
    BY <1>1 DEF Departs, Arrives
  <1>3. \A i \in 1 .. Len(s) : Passed(t[i - 1], s[i], t[i])'
    BY <1>1 DEF Passed
  <1> QED
    BY <1>1, <1>2, <1>3 DEF NotesFit

(* tmux writes a line.                                                     *)
LEMMA NotesGrow ==
    ASSUME DueGrows, NEW s \in Seq(Line), NEW exits,
           NotesFit(s, exits), UNCHANGED <<parser, heard>>, alive, NEW line \in Line,
           \A p \in NotePoint :
             Arrives(p) => \E q \in NotePoint : Passed(p, line, q)' /\ Arrives(q)'
    PROVE  NotesFit(Append(s, line), exits)'
  <1>1. PICK t \in [0 .. Len(s) -> NotePoint] :
           /\ Departs(t[0])
           /\ \A i \in 1 .. Len(s) : Passed(t[i - 1], s[i], t[i])
           /\ Arrives(t[Len(s)])
    BY DEF NotesFit
  <1>2. /\ Len(s) \in Nat /\ Len(Append(s, line)) = Len(s) + 1
        /\ \A i \in 1 .. Len(s) : Append(s, line)[i] = s[i]
        /\ Append(s, line)[Len(s) + 1] = line
    BY LenProperties, AppendProperties
  <1>3. t[Len(s)] \in NotePoint
    BY <1>1, <1>2
  <1>4. PICK q \in NotePoint : Passed(t[Len(s)], line, q)' /\ Arrives(q)'
    BY <1>1, <1>3
  <1> DEFINE u == [i \in 0 .. Len(s) + 1 |-> IF i <= Len(s) THEN t[i] ELSE q]
  <1>5. /\ u \in [0 .. Len(s) + 1 -> NotePoint]
        /\ \A i \in 0 .. Len(s) : u[i] = t[i]
        /\ u[Len(s) + 1] = q
    BY <1>2
  <1> HIDE DEF u
  <1>6. ASSUME NEW i \in 1 .. Len(s) + 1
        PROVE  Passed(u[i - 1], Append(s, line)[i], u[i])'
    <2>1. CASE i \in 1 .. Len(s)
      <3>1. /\ u[i] = t[i] /\ u[i - 1] = t[i - 1] /\ t[i - 1] \in NotePoint
            /\ Append(s, line)[i] = s[i]
        BY <1>2, <1>5, <2>1
      <3>2. Passed(t[i - 1], s[i], t[i])'
        BY <1>1, <2>1, <3>1, StaysPassed
      <3> QED
        BY <3>1, <3>2
    <2>2. CASE i = Len(s) + 1
      <3>1. u[i - 1] = t[Len(s)] /\ u[i] = q /\ Append(s, line)[i] = line
        BY <1>2, <1>5, <2>2
      <3> QED
        BY <1>4, <3>1
    <2> QED
      BY <1>2, <2>1, <2>2
  <1>7. Departs(u[0])' /\ Arrives(u[Len(s) + 1])' /\ u[Len(s) + 1].notes = Len(due')
    BY <1>1, <1>2, <1>4, <1>5 DEF Departs, Arrives
  <1> QED
    BY <1>2, <1>5, <1>6, <1>7 DEF NotesFit

(* tmux is gone, and what its pipe had no room for with it. *)
LEMMA NotesCut ==
    ASSUME UNCHANGED <<due, parser, heard>>, NEW s \in Seq(Line), NEW exits,
           NotesFit(s, exits), exits # "flushed", ~alive', NEW n \in 0 .. Len(s)
    PROVE  NotesFit(SubSeq(s, 1, n), exits)'
  <1>1. PICK t \in [0 .. Len(s) -> NotePoint] :
           Departs(t[0]) /\ \A i \in 1 .. Len(s) : Passed(t[i - 1], s[i], t[i])
    BY DEF NotesFit
  <1>2. /\ Len(s) \in Nat /\ Len(SubSeq(s, 1, n)) = n
        /\ \A i \in 1 .. n : SubSeq(s, 1, n)[i] = s[i]
    BY LenProperties, SubSeqProperties
  <1> DEFINE u == [i \in 0 .. n |-> t[i]]
  <1>3. u \in [0 .. n -> NotePoint] /\ \A i \in 0 .. n : u[i] = t[i]
    BY <1>2
  <1> HIDE DEF u
  <1>4. ASSUME NEW i \in 1 .. n PROVE Passed(u[i - 1], SubSeq(s, 1, n)[i], u[i])'
    <2>1. /\ u[i] = t[i] /\ u[i - 1] = t[i - 1]
          /\ SubSeq(s, 1, n)[i] = s[i] /\ i \in 1 .. Len(s)
      BY <1>2, <1>3
    <2>2. Passed(t[i - 1], s[i], t[i])'
      BY <1>1, <2>1 DEF Passed
    <2> QED
      BY <2>1, <2>2
  <1>5. Departs(u[0])'
    BY <1>1, <1>2, <1>3 DEF Departs
  <1> QED
    BY <1>2, <1>3, <1>4, <1>5 DEF NotesFit

(* What handing out one outcome, or none, does to the notifications.       *)
LEMMA HearsNothing ==
    ASSUME HandOut, heard \in Seq(Line), \A i \in DOMAIN incoming' : incoming'[i].type = "reply"
    PROVE  heard' = heard
  <1>1. CASE RepliesIn(incoming') # {}
    BY <1>1 DEF HandOut
  <1>2. CASE RepliesIn(incoming') = {}
    <2>1. DOMAIN incoming' = {}
      BY <1>2 DEF RepliesIn
    <2>2. [i \in DOMAIN incoming' |-> incoming'[i].line] = << >>
      BY <2>1
    <2>3. heard' = heard \o << >>
      BY <1>2, <2>2 DEF HandOut
    <2> QED
      BY <2>3, ConcatEmptySeq
  <1> QED
    BY <1>1, <1>2

LEMMA HearsNote ==
    ASSUME HandOut, heard \in Seq(Line), NEW line \in Line,
           incoming' = << IncomingNotification(line) >>
    PROVE  heard' = Append(heard, line)
  <1>1. RepliesIn(incoming') = {}
    BY DEF RepliesIn, IncomingNotification
  <1>2. [i \in DOMAIN incoming' |-> incoming'[i].line] = <<line>>
    <2>1. DOMAIN incoming' = {1} /\ incoming'[1].line = line
      BY DEF IncomingNotification
    <2>2. [i \in {1} |-> line] = <<line>>
      OBVIOUS
    <2>3. [i \in DOMAIN incoming' |-> incoming'[i].line] = [i \in {1} |-> line]
      BY <2>1
    <2> QED
      BY <2>2, <2>3
  <1>3. heard' = heard \o <<line>>
    BY <1>1, <1>2 DEF HandOut
  <1> QED
    BY <1>3, AppendIsConcat

(* What feeding a line makes of a client that is where the line finds it.  *)
LEMMA LineNotes ==
    ASSUME IInv, NEW p \in NotePoint, NEW line \in Line, NEW q \in NotePoint,
           Passed(p, line, q), Departs(p), heard \in Seq(Line), OnLine(line), HandOut
    PROVE  /\ Departs(q)'
           /\ \/ heard' = heard
              \/ Len(heard) < Len(due) /\ heard' = Append(heard, due[Len(heard) + 1])
  <1> DEFINE event == Push(parser, line).event
  <1>1. parser' = Push(parser, line).parser /\ Surface(event)
    BY DEF OnLine
  <1>2. (\E x : parser' = Some(x)) => parser' # None
    BY DEF Some, None
  <1>3. p.notes = Len(heard) /\ (p.at = "inside" <=> parser # None)
    BY DEF Departs
  <1>4. ASSUME incoming' = << >> PROVE heard' = heard
    <2>1. \A i \in DOMAIN incoming' : incoming'[i].type = "reply"
      BY <1>4
    <2> QED
      BY <2>1, HearsNothing
  <1>9. ASSUME event # None, event[1].type = "reply" PROVE heard' = heard
    <2>1. Correlate(event[1].reply)
      BY <1>1, <1>9 DEF Surface
    <2> HIDE DEF event
    <2>2. \/ incoming' = << >>
          \/ incoming' = << IncomingReply(Head(pending), ResultOf(event[1].reply)) >>
      BY <2>1 DEF Correlate, PassOver, Tripwire, PopFront
    <2>3. \A i \in DOMAIN incoming' : incoming'[i].type = "reply"
      BY <2>2 DEF IncomingReply
    <2> QED
      BY <2>3, HearsNothing
  <1>5. CASE line.kind = "begin" /\ q.at = "inside" /\ q.notes = p.notes
    <2>1. CASE parser = None
      <3>1. event = None /\ parser' = Some(OpenBlock(line))
        BY <1>1, <1>5, <2>1, PushBegin
      <3>2. incoming' = << >>
        BY <1>1, <3>1 DEF Surface, PassOver
      <3> QED
        BY <1>2, <1>3, <1>4, <1>5, <3>1, <3>2 DEF Departs
    <2>2. CASE parser # None
      <3>1. parser' = Some(OpenBlock(line)) /\ event = Some(CloseBlock(parser[1], TRUE))
        BY <1>1, <1>5, <2>2 DEF Push, PushWithinBlock
      <3>2. event # None /\ event[1].type = "reply"
        BY <3>1 DEF Some, None, CloseBlock, ReplyEvent
      <3>3. heard' = heard
        BY <1>9, <3>2
      <3> QED
        BY <1>2, <1>3, <1>5, <3>1, <3>3 DEF Departs
    <2> QED
      BY <2>1, <2>2
  <1>6. CASE line.kind \in {"end", "error"} /\ p.at = "inside" /\ q.at = "between" /\ q.notes = p.notes
    <2>1. parser # None
      BY <1>3, <1>6
    <2>2. parser' = None /\ event = Some(CloseBlock(parser[1], line.kind = "error"))
      BY <1>1, <1>6, <2>1 DEF Push, PushWithinBlock
    <2>3. event # None /\ event[1].type = "reply"
      BY <2>2 DEF Some, None, CloseBlock, ReplyEvent
    <2>4. heard' = heard
      BY <1>9, <2>3
    <2> QED
      BY <1>3, <1>6, <2>2, <2>4 DEF Departs
  <1>7. CASE line \in ContentLine /\ p.at = "inside" /\ q.at = "inside" /\ q.notes = p.notes
    <2>1. parser # None /\ line.kind \notin {"begin", "end", "error"}
      BY <1>3, <1>7 DEF ContentLine, Text, Blank
    <2>2. event = None /\ parser' = Some([parser[1] EXCEPT !.output = Append(@, line)])
      BY <1>1, <2>1 DEF Push, PushWithinBlock
    <2>3. incoming' = << >>
      BY <1>1, <2>2 DEF Surface, PassOver
    <2> QED
      BY <1>2, <1>3, <1>4, <1>7, <2>2, <2>3 DEF Departs
  <1>8. CASE /\ line \in Text /\ p.at = "between" /\ q.at = "between"
             /\ p.notes < Len(due) /\ line = due[p.notes + 1] /\ q.notes = p.notes + 1
    <2>1. parser = None /\ line.kind \notin {"begin", "blank"}
      BY <1>3, <1>8 DEF Text
    <2>2. event = Some(NotificationEvent(line)) /\ parser' = None
      BY <1>1, <2>1 DEF Push, PushAtTopLevel
    <2>3. event # None /\ event[1].type = "notification" /\ event[1].line = line
      BY <2>2 DEF Some, None, NotificationEvent
    <2>4. incoming' = << IncomingNotification(line) >>
      BY <1>1, <2>3 DEF Surface
    <2>5. heard' = Append(heard, line)
      BY <2>4, HearsNote
    <2>6. Len(heard') = Len(heard) + 1
      BY <2>5, AppendProperties
    <2> QED
      BY <1>3, <1>8, <2>2, <2>5, <2>6 DEF Departs
  <1> HIDE DEF event
  <1> QED
    BY <1>5, <1>6, <1>7, <1>8 DEF Passed

LEMMA ReadNotes ==
    ASSUME NEW exits, NotesInv(exits), ClientInv', ReadLine
    PROVE  NotesInv(exits)'
  <1>1. PICK s \in Seq(Line) : s = toClient
    BY DEF NotesInv, ClientInv, TmuxTypeOK
  <1>2. /\ s # << >> /\ OnLine(Head(s)) /\ toClient' = Tail(s) /\ HandOut /\ IInv
        /\ UNCHANGED <<alive, running, number, due, cut>> /\ heard \in Seq(Line)
    BY <1>1 DEF ReadLine, NotesInv, ClientInv
  <1>3. /\ Head(s) \in Line /\ Head(s) = s[1] /\ Tail(s) \in Seq(Line)
        /\ Len(s) \in Nat \ {0} /\ Len(Tail(s)) = Len(s) - 1
        /\ \A i \in 1 .. Len(s) - 1 : Tail(s)[i] = s[i + 1]
    BY <1>2, HeadTailProperties, LenProperties, EmptySeq
  <1>4. due \in Seq(Line) /\ Len(due) \in Nat /\ Len(heard) \in Nat
    BY <1>2, LenProperties DEF NotesInv
  <1>5. heard' \in Seq(Line)
    <2>1. CASE RepliesIn(incoming') # {}
      BY <1>2, <2>1 DEF HandOut
    <2>2. CASE RepliesIn(incoming') = {}
      <3> DEFINE notes == [i \in DOMAIN incoming' |-> incoming'[i].line]
      <3>1. /\ incoming' \in Seq(Incoming) /\ Len(incoming') \in Nat
            /\ DOMAIN incoming' = 1 .. Len(incoming')
        BY LenProperties DEF ClientInv, IInv, TypeOK
      <3>2. ASSUME NEW i \in 1 .. Len(incoming') PROVE incoming'[i].line \in Line
        <4>1. incoming'[i] \in Incoming /\ incoming'[i].type # "reply"
          BY <2>2, <3>1, ElementOfSeq DEF RepliesIn
        <4> QED
          BY <4>1 DEF Incoming
      <3>3. notes \in Seq(Line)
        BY <3>1, <3>2
      <3>4. heard' = heard \o notes
        BY <1>2, <2>2 DEF HandOut
      <3> HIDE DEF notes
      <3> QED
        BY <1>2, <3>3, <3>4, ConcatProperties
    <2> QED
      BY <2>1, <2>2
  <1>6. HeardInOrder' /\ NotesFit(Tail(s), exits)'
    <2>1. HeardInOrder /\ NotesFit(s, exits)
      BY <1>1, Zenon DEF NotesInv
    <2>2. PICK t \in [0 .. Len(s) -> NotePoint] :
             /\ Departs(t[0])
             /\ \A i \in 1 .. Len(s) : Passed(t[i - 1], s[i], t[i])
             /\ alive => Arrives(t[Len(s)])
             /\ exits = "flushed" => t[Len(s)].notes = Len(due)
      BY <2>1 DEF NotesFit
    <2>3. /\ t[0] \in NotePoint /\ t[1] \in NotePoint /\ Passed(t[0], Head(s), t[1])
      <3>1. 1 \in 1 .. Len(s) /\ 0 \in 0 .. Len(s) /\ 1 \in 0 .. Len(s) /\ 1 - 1 = 0
        BY <1>3
      <3> QED
        BY <1>3, <2>2, <3>1
    <2>4. /\ Departs(t[1])'
          /\ \/ heard' = heard
             \/ Len(heard) < Len(due) /\ heard' = Append(heard, due[Len(heard) + 1])
      BY <1>2, <1>3, <2>2, <2>3, LineNotes
    <2>5. HeardInOrder'
      <3>1. CASE heard' = heard
        BY <1>2, <2>1, <3>1 DEF HeardInOrder
      <3>2. CASE Len(heard) < Len(due) /\ heard' = Append(heard, due[Len(heard) + 1])
        <4>1. due[Len(heard) + 1] \in Line
          <5>1. Len(heard) + 1 \in 1 .. Len(due)
            BY <1>4, <3>2
          <5> QED
            BY <1>4, <5>1, ElementOfSeq
        <4>2. /\ Len(heard') = Len(heard) + 1
              /\ \A i \in 1 .. Len(heard) : heard'[i] = heard[i]
              /\ heard'[Len(heard) + 1] = due[Len(heard) + 1]
          BY <1>2, <3>2, <4>1, AppendProperties
        <4> QED
          BY <1>2, <1>4, <2>1, <3>2, <4>2 DEF HeardInOrder
      <3> QED
        BY <2>4, <3>1, <3>2
    <2> DEFINE u == [i \in 0 .. Len(s) - 1 |-> t[i + 1]]
    <2>6. /\ u \in [0 .. Len(s) - 1 -> NotePoint]
          /\ \A i \in 0 .. Len(s) - 1 : u[i] = t[i + 1]
      <3>1. \A i \in 0 .. Len(s) - 1 : i + 1 \in 0 .. Len(s)
        BY <1>3
      <3> QED
        BY <2>2, <3>1
    <2> HIDE DEF u
    <2>7. u[0] = t[1] /\ u[Len(s) - 1] = t[Len(s)]
      <3>1. 0 \in 0 .. Len(s) - 1 /\ Len(s) - 1 \in 0 .. Len(s) - 1 /\ 0 + 1 = 1
            /\ Len(s) - 1 + 1 = Len(s)
        BY <1>3
      <3> QED
        BY <2>6, <3>1
    <2>8. ASSUME NEW i \in 1 .. Len(s) - 1 PROVE Passed(u[i - 1], Tail(s)[i], u[i])'
      <3>1. /\ i + 1 \in 1 .. Len(s) /\ i - 1 \in 0 .. Len(s) - 1 /\ i \in 0 .. Len(s) - 1
            /\ i - 1 + 1 = i /\ i + 1 - 1 = i
        BY <1>3
      <3>2. u[i - 1] = t[i] /\ u[i] = t[i + 1] /\ Tail(s)[i] = s[i + 1]
        BY <1>3, <2>6, <3>1
      <3>3. Passed(t[i], s[i + 1], t[i + 1])
        <4>1. Passed(t[i + 1 - 1], s[i + 1], t[i + 1])
          BY <2>2, <3>1
        <4> QED
          BY <3>1, <4>1
      <3> QED
        BY <1>2, <3>2, <3>3 DEF Passed
    <2>9. Departs(u[0])'
      BY <2>4, <2>7
    <2>10. /\ alive' => Arrives(u[Len(s) - 1])'
           /\ exits = "flushed" => u[Len(s) - 1].notes = Len(due')
      BY <1>2, <2>2, <2>7 DEF Arrives, Inside
    <2>11. NotesFit(Tail(s), exits)'
      BY <1>3, <2>6, <2>8, <2>9, <2>10 DEF NotesFit
    <2> QED
      BY <2>5, <2>11
  <1>7. NotesFit(toClient, exits)'
    <2>1. Tail(s) = toClient'
      BY <1>2
    <2> QED
      BY <1>6, <2>1, Zenon
  <1> QED
    BY <1>2, <1>4, <1>5, <1>6, <1>7 DEF NotesInv

LEMMA PeerNotes ==
    ASSUME NEW exits, NotesInv(exits), Echoed = {}, ClientInv', Peer,
           exits = "flushed" => (Buffered => alive' = alive)
    PROVE  NotesInv(exits)'
  <1>1. PICK s \in Seq(Line) : s = toClient
    BY DEF NotesInv, ClientInv, TmuxTypeOK
  <1>2. /\ TmuxNext /\ Watch /\ UNCHANGED <<parser, heard>> /\ heard \in Seq(Line)
        /\ TmuxTypeOK /\ TmuxTypeOK' /\ HeardInOrder /\ NotesFit(s, exits)
    <2>1. NotesFit(s, exits)
      BY <1>1, Zenon DEF NotesInv
    <2> QED
      BY <2>1 DEF Peer, engineVars, NotesInv, ClientInv
  <1>3. /\ due \in Seq(Line) /\ Len(due) \in Nat /\ Len(heard) \in Nat /\ number \in Nat
        /\ cut \subseteq 0 .. number /\ (running # None => number \notin cut)
    BY <1>2, LenProperties DEF NotesInv, TmuxTypeOK
  <1>4. ASSUME due' = due PROVE DueGrows
    BY <1>3, <1>4 DEF DueGrows
  <1>5. ASSUME DueGrows, alive, NEW line \in Line, toClient' = Append(s, line),
               \A p \in NotePoint :
                 Arrives(p) => \E q \in NotePoint : Passed(p, line, q)' /\ Arrives(q)'
        PROVE  HeardInOrder' /\ NotesFit(toClient, exits)'
    <2>1. NotesFit(Append(s, line), exits)'
      BY <1>2, <1>5, NotesGrow
    <2>2. Append(s, line) = toClient'
      BY <1>5
    <2>3. NotesFit(toClient, exits)'
      BY <2>1, <2>2, Zenon
    <2>4. Len(due') \in Nat
      BY <1>5, LenProperties DEF DueGrows
    <2>5. HeardInOrder'
      <3>1. Len(heard') <= Len(due')
        BY <1>2, <1>3, <1>5, <2>4 DEF HeardInOrder, DueGrows
      <3>2. \A i \in 1 .. Len(heard) : i \in 1 .. Len(due)
        BY <1>2, <1>3 DEF HeardInOrder
      <3> QED
        BY <1>2, <1>5, <3>1, <3>2 DEF HeardInOrder, DueGrows
    <2> QED
      BY <2>3, <2>5
  <1>6. /\ HeardInOrder' /\ NotesFit(toClient, exits)' /\ due' \in Seq(Line)
        /\ cut' \subseteq 0 .. number' /\ (running' # None => number' \notin cut')
    <2>1. CASE Begin \/ BeginInternal
      <3>1. /\ UNCHANGED <<due, cut>> /\ alive /\ running' # None /\ number' = number + 1
            /\ \E control \in BOOLEAN :
                 toClient' = Append(s, GuardLine("begin", number + 1, control))
            /\ number + 1 \in Number
        <4>1. CASE Begin
          BY <1>1, <1>2, <2>1, <4>1 DEF Begin, Open, Write, Watch, Some, None
        <4>2. CASE BeginInternal
          BY <1>1, <1>2, <2>1, <4>2 DEF BeginInternal, Open, Write, Watch, Some, None
        <4> QED
          BY <2>1, <4>1, <4>2
      <3>2. PICK control \in BOOLEAN :
               toClient' = Append(s, GuardLine("begin", number + 1, control))
        BY <3>1
      <3>3. PICK line \in Line : line.kind = "begin" /\ toClient' = Append(s, line)
        <4>1. "begin" \in GuardKind /\ GuardLine("begin", number + 1, control).kind = "begin"
          BY DEF GuardKind, GuardLine
        <4>2. GuardLine("begin", number + 1, control) \in Line
          BY <3>1, <4>1, GuardLineIsLine
        <4> QED
          BY <3>2, <4>1, <4>2
      <3>4. ASSUME NEW p \in NotePoint, Arrives(p)
            PROVE  \E q \in NotePoint : Passed(p, line, q)' /\ Arrives(q)'
        <4> DEFINE q == [at |-> "inside", notes |-> p.notes]
        <4>1. q \in NotePoint
          BY DEF NotePoint
        <4>2. Passed(p, line, q)' /\ Arrives(q)'
          BY <3>1, <3>3, <3>4, <4>1 DEF Passed, Arrives, Inside
        <4> QED
          BY <4>1, <4>2
      <3>5. cut' \subseteq 0 .. number' /\ number' \notin cut'
        BY <1>3, <3>1
      <3> QED
        BY <1>3, <1>4, <1>5, <3>1, <3>3, <3>4, <3>5
    <2>2. CASE PrintLine
      <3>1. /\ UNCHANGED <<due, cut, number>> /\ alive /\ running # None /\ running' # None
        BY <1>2, <2>2 DEF PrintLine, Watch, Some, None
      <3>2. PICK line \in Printable(running[1].owner) : toClient' = Append(s, line)
        BY <1>1, <2>2 DEF PrintLine, Write
      <3>3. line \in Line /\ line \in ContentLine
        <4>1. running[1] \in RunningBlock
          BY <1>2, <3>1, OptionCases DEF TmuxTypeOK, RunningBlock
        <4>2. line \in Line
          BY <3>2, <4>1, PrintableIsLine DEF RunningBlock
        <4> QED
          BY <3>2, <4>2 DEF Printable, Line, Guard, GuardKind, ContentLine, Blank
      <3>4. ASSUME NEW p \in NotePoint, Arrives(p)
            PROVE  \E q \in NotePoint : Passed(p, line, q)' /\ Arrives(q)'
        <4>1. Passed(p, line, p)' /\ Arrives(p)'
          BY <3>1, <3>3, <3>4 DEF Passed, Arrives, Inside
        <4> QED
          BY <4>1
      <3> QED
        BY <1>3, <1>4, <1>5, <3>1, <3>2, <3>3, <3>4
    <2>3. CASE End
      <3>1. PICK kind \in {"end", "error"} :
               /\ Serve(IF kind = "end" THEN "ok" ELSE "failed")
               /\ Write(GuardLine(kind, number, running[1].control)) /\ UNCHANGED lost
        BY <2>3 DEF End
      <3>2. /\ UNCHANGED <<due, cut, number>> /\ alive /\ running # None /\ running' = None
            /\ toClient' = Append(s, GuardLine(kind, number, running[1].control))
        BY <1>1, <1>2, <3>1 DEF Serve, Watch, Write
      <3>3. PICK line \in Line : line.kind \in {"end", "error"} /\ toClient' = Append(s, line)
        <4>1. running[1] \in RunningBlock /\ number \in Number
          BY <1>2, <3>2, OptionCases DEF TmuxTypeOK, RunningBlock
        <4>2. kind \in GuardKind /\ running[1].control \in BOOLEAN
          BY <4>1 DEF GuardKind, RunningBlock
        <4>3. GuardLine(kind, number, running[1].control).kind = kind
          BY DEF GuardLine
        <4>4. GuardLine(kind, number, running[1].control) \in Line
          BY <4>1, <4>2, GuardLineIsLine
        <4> QED
          BY <3>2, <4>3, <4>4
      <3>4. ASSUME NEW p \in NotePoint, Arrives(p)
            PROVE  \E q \in NotePoint : Passed(p, line, q)' /\ Arrives(q)'
        <4> DEFINE q == [at |-> "between", notes |-> p.notes]
        <4>1. q \in NotePoint /\ p.at = "inside"
          BY <3>2, <3>4 DEF NotePoint, Arrives, Inside
        <4>2. Passed(p, line, q)' /\ Arrives(q)'
          BY <1>3, <3>2, <3>3, <3>4, <4>1 DEF Passed, Arrives, Inside
        <4> QED
          BY <4>1, <4>2
      <3> QED
        BY <1>3, <1>4, <1>5, <3>2, <3>3, <3>4
    <2>4. CASE LoseEnd
      <3>1. /\ UNCHANGED <<noted, number, toClient, alive>> /\ alive
            /\ running # None /\ running' = None /\ lost' = lost + 1
        BY <2>4 DEF LoseEnd, Serve
      <3>2. lost' # lost
        BY <1>2, <3>1 DEF TmuxTypeOK
      <3>3. due' = due /\ cut' = cut \cup {number}
        BY <1>2, <3>1, <3>2 DEF Watch
      <3>4. Inside /\ Inside'
        BY <3>1, <3>3 DEF Inside
      <3>5. Inside' = Inside
        BY <3>1, <3>3, Zenon DEF Inside
      <3>6. NotesFit(s, exits)'
        BY <1>2, <3>1, <3>3, <3>5, NotesStay
      <3>7. s = toClient'
        BY <1>1, <3>1
      <3>8. NotesFit(toClient, exits)'
        BY <3>6, <3>7, Zenon
      <3> QED
        BY <1>2, <1>3, <3>1, <3>3, <3>8 DEF HeardInOrder
    <2>5. CASE Notify
      <3>1. alive /\ running = None /\ UNCHANGED <<running, lost, number>> /\ cut' = cut
        BY <1>2, <2>5 DEF Notify, Watch
      <3>2. PICK kind \in {"output", "text"} :
               /\ noted' = Append(noted, [kind |-> kind, body |-> Server])
               /\ toClient' = Append(s, [kind |-> kind, body |-> Server])
        BY <1>1, <1>2, <2>5, NotifyWrites DEF Write
      <3>3. PICK line \in Line : line = [kind |-> kind, body |-> Server] /\ line \in Text
        <4>1. /\ [kind |-> kind, body |-> Server] \in Text
              /\ [kind |-> kind, body |-> Server] \in Line
          BY TmuxAssumption DEF Text, Line
        <4> QED
          BY <4>1
      <3>4. /\ noted' = Append(noted, line) /\ noted \in Seq(Line) /\ toClient' = Append(s, line)
        BY <1>2, <3>2, <3>3 DEF TmuxTypeOK
      <3>5. noted' # noted /\ Last(noted') = line
        <4>1. Len(noted') = Len(noted) + 1 /\ noted'[Len(noted) + 1] = line /\ Len(noted) \in Nat
          BY <3>4, AppendProperties, LenProperties
        <4> QED
          BY <4>1 DEF Last
      <3>6. CASE number \in cut
        <4>1. due' = due
          BY <1>2, <3>6 DEF Watch
        <4>2. ASSUME NEW p \in NotePoint, Arrives(p)
              PROVE  \E q \in NotePoint : Passed(p, line, q)' /\ Arrives(q)'
          <5>1. p.at = "inside" /\ line \in ContentLine
            BY <3>3, <3>6, <4>2 DEF Arrives, Inside, ContentLine
          <5>2. Passed(p, line, p)' /\ Arrives(p)'
            BY <3>1, <3>6, <4>1, <4>2, <5>1 DEF Passed, Arrives, Inside
          <5> QED
            BY <5>2
        <4> QED
          BY <1>3, <1>4, <1>5, <3>1, <3>4, <4>1, <4>2
      <3>7. CASE number \notin cut
        <4>1. due' = Append(due, line)
          BY <1>2, <3>5, <3>7 DEF Watch
        <4>2. /\ Len(due') = Len(due) + 1 /\ due'[Len(due) + 1] = line /\ due' \in Seq(Line)
              /\ \A i \in 1 .. Len(due) : due'[i] = due[i]
          BY <1>3, <4>1, AppendProperties
        <4>3. DueGrows
          BY <1>3, <4>2 DEF DueGrows
        <4>4. ASSUME NEW p \in NotePoint, Arrives(p)
              PROVE  \E q \in NotePoint : Passed(p, line, q)' /\ Arrives(q)'
          <5> DEFINE q == [at |-> "between", notes |-> p.notes + 1]
          <5>1. q \in NotePoint /\ p.at = "between" /\ p.notes = Len(due)
            BY <3>1, <3>7, <4>4 DEF NotePoint, Arrives, Inside
          <5>2. Passed(p, line, q)'
            BY <1>3, <3>3, <4>2, <5>1 DEF Passed
          <5>3. Arrives(q)'
            BY <3>1, <3>7, <4>2, <5>1 DEF Arrives, Inside
          <5> QED
            BY <5>1, <5>2, <5>3
        <4> QED
          BY <1>3, <1>5, <3>1, <3>4, <4>2, <4>3, <4>4
      <3> QED
        BY <3>6, <3>7
    <2>6. CASE Detach \/ Exit
      <3>1. UNCHANGED <<due, cut, running, number>> /\ ~alive' /\ alive
        BY <1>2, <2>6 DEF Detach, Exit, Watch
      <3>2. Inside' = Inside
        BY <3>1, Zenon DEF Inside
      <3>3. CASE toClient' = toClient
        <4>1. NotesFit(s, exits)'
          BY <1>2, <3>1, <3>2, NotesStay
        <4>2. s = toClient'
          BY <1>1, <3>3
        <4>3. NotesFit(toClient, exits)'
          BY <4>1, <4>2, Zenon
        <4> QED
          BY <1>2, <1>3, <3>1, <4>3 DEF HeardInOrder
      <3>4. CASE Buffered /\ \E n \in PipeSize .. Len(toClient) : toClient' = SubSeq(toClient, 1, n)
        <4>1. PICK n \in PipeSize .. Len(s) : toClient' = SubSeq(s, 1, n)
          BY <1>1, <3>4
        <4>2. n \in 0 .. Len(s)
          <5>1. PipeSize \in Nat /\ Len(s) \in Nat
            BY TmuxAssumption, LenProperties
          <5> QED
            BY <4>1, <5>1
        <4>3. exits # "flushed"
          BY <3>1, <3>4, Zenon
        <4>4. NotesFit(SubSeq(s, 1, n), exits)'
          BY <1>2, <3>1, <4>2, <4>3, NotesCut
        <4>5. SubSeq(s, 1, n) = toClient'
          BY <4>1
        <4>6. NotesFit(toClient, exits)'
          BY <4>4, <4>5, Zenon
        <4> QED
          BY <1>2, <1>3, <3>1, <4>6 DEF HeardInOrder
      <3> QED
        BY <2>6, <3>3, <3>4 DEF Detach, Exit
    <2> QED
      BY <1>2, <2>1, <2>2, <2>3, <2>4, <2>5, <2>6 DEF TmuxNext
  <1> QED
    BY <1>2, <1>6 DEF NotesInv

(* Whatever else the client does, it neither reads nor surfaces a line.    *)
LEMMA QuietNotes ==
    ASSUME NEW exits, NotesInv(exits), ClientInv',
           UNCHANGED <<toClient, alive, running, number, cut, due, parser, heard>>
    PROVE  NotesInv(exits)'
  <1>1. PICK s \in Seq(Line) : s = toClient
    BY DEF NotesInv, ClientInv, TmuxTypeOK
  <1>2. HeardInOrder /\ NotesFit(s, exits)
    BY <1>1, Zenon DEF NotesInv
  <1>3. Inside' = Inside
    BY Zenon DEF Inside
  <1>4. NotesFit(s, exits)'
    BY <1>2, <1>3, NotesStay
  <1>5. s = toClient'
    BY <1>1
  <1>6. NotesFit(toClient, exits)'
    BY <1>4, <1>5, Zenon
  <1> QED
    BY <1>2, <1>6 DEF NotesInv, HeardInOrder

LEMMA NextNotes ==
    ASSUME NEW exits, NotesInv(exits), Echoed = {}, [Next]_vars,
           exits = "flushed" => (Buffered => alive' = alive)
    PROVE  NotesInv(exits)'
  <1>1. ClientInv' /\ ClientInv
    BY NextClientInv DEF NotesInv
  <1>2. CASE Send \/ SendFails \/ Drop \/ UNCHANGED vars
    BY <1>1, <1>2, QuietNotes DEF Send, SendFails, Drop, RegisterCommand, vars, tmuxVars, engineVars
  <1>3. CASE Drain
    <2>1. /\ UNCHANGED <<toClient, alive, running, number, cut, due, parser>> /\ OnEof /\ HandOut
      BY <1>3 DEF Drain, OnEof, tmuxVars
    <2>2. \A i \in DOMAIN incoming' : incoming'[i].type = "reply"
      BY <1>1, <2>1, EofSurfaces DEF ClientInv, RepliesIn
    <2>3. heard' = heard
      BY <2>1, <2>2, HearsNothing DEF NotesInv
    <2> QED
      BY <1>1, <2>1, <2>3, QuietNotes
  <1> QED
    BY <1>1, <1>2, <1>3, ReadNotes, PeerNotes DEF Next, ReadEof, Teardown

LEMMA InitNotes == ASSUME NEW exits PROVE Init => NotesInv(exits)
  <1> SUFFICES ASSUME Init PROVE NotesInv(exits)
    OBVIOUS
  <1>1. /\ toClient = << >> /\ due = << >> /\ heard = << >> /\ parser = None /\ running = None
        /\ cut = {} /\ ClientInv
    BY InitClientInv DEF Init, EngineInit, TmuxInit
  <1>2. Len(<< >>) = 0
    OBVIOUS
  <1> DEFINE p == [at |-> "between", notes |-> 0]
             t == [i \in 0 .. 0 |-> p]
  <1>3. p \in NotePoint /\ Departs(p) /\ Arrives(p) /\ p.notes = Len(due)
    BY <1>1, <1>2 DEF NotePoint, Departs, Arrives, Inside
  <1>4. t \in [0 .. 0 -> NotePoint] /\ t[0] = p
    BY <1>3
  <1> HIDE DEF p, t
  <1>5. NotesFit(toClient, exits)
    BY <1>1, <1>2, <1>3, <1>4 DEF NotesFit
  <1>6. HeardInOrder
    BY <1>1, <1>2 DEF HeardInOrder
  <1>7. heard \in Seq(Line)
    BY <1>1, EmptySeq
  <1> QED
    BY <1>1, <1>5, <1>6, <1>7 DEF NotesInv

(* HeardInOrder is what NotesSurvive says first, and when nothing is left  *)
(* to read the two ends are at the same point.                             *)
LEMMA NotesMean ==
    ASSUME NEW exits, NotesInv(exits)
    PROVE  /\ IsPrefix(heard, due)
           /\ exits = "flushed" /\ toClient = << >> => heard = due
  <1>1. /\ heard \in Seq(Line) /\ due \in Seq(Line) /\ Len(heard) \in Nat /\ Len(due) \in Nat
        /\ Len(heard) <= Len(due) /\ \A i \in 1 .. Len(heard) : heard[i] = due[i]
    BY LenProperties DEF NotesInv, HeardInOrder
  <1>2. IsPrefix(heard, due)
    <2>1. \A i \in 1 .. Len(heard) : due[i] \in Line
      BY <1>1, ElementOfSeq
    <2>2. /\ SubSeq(due, 1, Len(heard)) \in Seq(Line)
          /\ Len(SubSeq(due, 1, Len(heard))) = Len(heard)
          /\ \A i \in 1 .. Len(heard) : SubSeq(due, 1, Len(heard))[i] = due[i]
      BY <1>1, <2>1, SubSeqProperties
    <2>3. SubSeq(due, 1, Len(heard)) = heard
      BY <1>1, <2>2, SeqEqual
    <2>4. SubSeq(heard, 1, Len(heard)) = heard
      BY <1>1, SubSeqFull
    <2> QED
      BY <1>1, <2>3, <2>4 DEF IsPrefix
  <1>3. ASSUME exits = "flushed", toClient = << >> PROVE heard = due
    <2>1. Len(<< >>) = 0
      OBVIOUS
    <2>2. NotesFit(<< >>, exits)
      BY <1>3, Zenon DEF NotesInv
    <2>3. PICK p : Departs(p) /\ p.notes = Len(due)
      BY <1>3, <2>1, <2>2 DEF NotesFit
    <2>4. Len(heard) = Len(due)
      BY <2>3 DEF Departs
    <2> QED
      BY <1>1, <2>4, SeqEqual
  <1> QED
    BY <1>2, <1>3

(* The notifications surfaced are the first of those due, in their order   *)
(* and with nothing of a reply block among them, whenever the session ends *)
(* and whichever closing guards get lost (parser.rs:65-126).               *)
THEOREM NotesAlwaysInOrder ==
    ASSUME Echoed = {} PROVE Spec => []IsPrefix(heard, due)
  <1> DEFINE Inv == NotesInv("any")
  <1>1. Init => Inv
    BY InitNotes
  <1>2. Inv /\ [Next]_vars => Inv'
    BY NextNotes
  <1>3. Inv => IsPrefix(heard, due)
    BY NotesMean
  <1> HIDE DEF Inv
  <1> QED
    BY <1>1, <1>2, <1>3, PTL DEF Spec

(* Against a tmux that does not die on output it still buffers, none is    *)
(* missing when all is read.                                               *)
THEOREM NotesAlwaysSurvive ==
    ASSUME Echoed = {} PROVE Spec /\ [][Buffered => alive' = alive]_vars => []NotesSurvive
  <1> DEFINE Inv == NotesInv("flushed")
             Flushes == Buffered => alive' = alive
  <1>1. Init => Inv
    BY InitNotes
  <1>2. Inv /\ [Next]_vars /\ [Flushes]_vars => Inv'
    <2> SUFFICES ASSUME Inv, [Next]_vars, [Flushes]_vars PROVE Inv'
      OBVIOUS
    <2>1. Buffered => alive' = alive
      BY DEF vars, tmuxVars
    <2> QED
      BY <2>1, NextNotes
  <1>3. Inv => NotesSurvive
    BY NotesMean DEF NotesSurvive
  <1> HIDE DEF Inv
  <1> QED
    BY <1>1, <1>2, <1>3, PTL DEF Spec
=============================================================================
