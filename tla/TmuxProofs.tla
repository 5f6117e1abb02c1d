---------------------------- MODULE TmuxProofs ----------------------------
(***************************************************************************)
(* What tmux does, for whoever reads its output: the types of the two      *)
(* pipes, for every set of texts and numbers; the stream of lines on its   *)
(* way, which leads from where the engine is to where tmux is; and what    *)
(* the engine makes of the next line of such a stream.                     *)
(***************************************************************************)
EXTENDS Tmux, EngineProofs, SequencesExt

RunningBlock == [control : BOOLEAN, owner : Body, lines : Seq(Line)]

LEMMA TmuxInitType == TmuxInit => TmuxTypeOK
  <1> SUFFICES ASSUME TmuxInit PROVE TmuxTypeOK
    OBVIOUS
  <1>1. running \in Option([control : BOOLEAN, owner : Body, lines : Seq(Line)])
    BY OptionIntro DEF TmuxInit
  <1>2. alive \in BOOLEAN
    BY Zenon DEF TmuxInit
  <1> QED
    BY <1>1, <1>2, EmptySeq DEF TmuxInit, TmuxTypeOK, None

(* The guards and the lines tmux writes are lines. *)
LEMMA GuardLineIsLine ==
    ASSUME NEW kind \in GuardKind, NEW n \in Number, NEW control \in BOOLEAN
    PROVE  GuardLine(kind, n, control) \in Line
  <1>1. GuardLine(kind, n, control) \in Guard
    BY DEF GuardLine, Guard
  <1> QED
    BY <1>1 DEF Line

LEMMA PrintableIsLine ==
    ASSUME NEW owner \in Body, NEW line \in Printable(owner)
    PROVE  line \in Line
  <1>1. CASE line \in Echoed
    BY <1>1, TmuxAssumption DEF Line
  <1>2. CASE line \in [kind : {"output", "text"}, body : {owner}]
    <2>1. line \in Text
      BY <1>2 DEF Text
    <2> QED
      BY <2>1 DEF Line
  <1>3. CASE line = Blank
    BY <1>3 DEF Line
  <1> QED
    BY <1>1, <1>2, <1>3 DEF Printable

LEMMA WriteType ==
    ASSUME TmuxTypeOK, NEW line \in Line, Write(line)
    PROVE  toClient' \in Seq(Line)
  BY AppendProperties DEF TmuxTypeOK, Write

LEMMA OpenType ==
    ASSUME TmuxTypeOK, NEW control \in BOOLEAN, NEW owner, Open(control, owner)
    PROVE  /\ toClient' \in Seq(Line) /\ number' \in Number
           /\ running' \in Option(RunningBlock)
  <1>1. number' \in Number /\ owner \in Body /\ Write(GuardLine("begin", number + 1, control))
    BY DEF Open
  <1>2. [control |-> control, owner |-> owner, lines |-> << >>] \in RunningBlock
    BY <1>1, EmptySeq DEF RunningBlock
  <1>3. running' \in Option(RunningBlock)
    BY <1>2, OptionIntro DEF Open
  <1>4. GuardLine("begin", number + 1, control) \in Line
    BY GuardLineIsLine DEF Open, GuardKind
  <1> QED
    BY <1>1, <1>3, <1>4, WriteType

LEMMA ServeType ==
    ASSUME TmuxTypeOK, NEW status \in {"ok", "failed", "lost"}, Serve(status)
    PROVE  /\ running' = None
           /\ served' \in Seq([status : {"ok", "failed", "lost"}, lines : Seq(Line)])
           /\ running[1] \in RunningBlock /\ number \in Number
  <1>1. running[1] \in RunningBlock /\ number \in Number
    BY OptionCases DEF Serve, TmuxTypeOK, RunningBlock
  <1>2. [status |-> status, lines |-> running[1].lines]
          \in [status : {"ok", "failed", "lost"}, lines : Seq(Line)]
    BY <1>1 DEF RunningBlock
  <1>3. served' \in Seq([status : {"ok", "failed", "lost"}, lines : Seq(Line)])
    BY <1>2, AppendProperties DEF Serve, TmuxTypeOK
  <1> QED
    BY <1>1, <1>3 DEF Serve

LEMMA NotifyWrites ==
    ASSUME TmuxTypeOK, Notify
    PROVE  \E kind \in {"output", "text"} :
             /\ noted' = Append(noted, [kind |-> kind, body |-> Server])
             /\ Write([kind |-> kind, body |-> Server])
  <1>1. Len(noted) \in Nat /\ Len(noted) < Len(Notes) /\ Len(Notes) \in Nat
    BY TmuxAssumption, LenProperties DEF Notify, TmuxTypeOK
  <1>2. Len(noted) + 1 \in 1 .. Len(Notes)
    BY <1>1
  <1>3. Notes[Len(noted) + 1] \in {"output", "text"}
    BY <1>2, ElementOfSeq, TmuxAssumption
  <1> QED
    BY <1>3 DEF Notify

(* Whatever tmux does, the pipes hold what their types say. *)
LEMMA TmuxStepType ==
    ASSUME TmuxTypeOK, TmuxNext
    PROVE  TmuxTypeOK'
  <1> USE DEF RunningBlock
  <1>0. None \in Option(RunningBlock) /\ Number \subseteq Nat
    BY OptionIntro, NumberAssumption
  <1>1. CASE Begin
    <2>1. Open(TRUE, taken)
      BY <1>1 DEF Begin
    <2>2. toTmux' \in Seq(Nat) /\ taken' \in Nat
      <3>1. CASE Head(toTmux) = 1
        <4>1. toTmux # << >> /\ toTmux \in Seq(Nat) /\ taken \in Nat
          BY <1>1 DEF Begin, TmuxTypeOK
        <4>2. toTmux' = Tail(toTmux) /\ taken' = taken + 1
          BY <1>1, <3>1 DEF Begin
        <4>3. Tail(toTmux) \in Seq(Nat)
          BY <4>1, HeadTailProperties
        <4> QED
          BY <4>1, <4>2, <4>3
      <3>2. CASE Head(toTmux) # 1
        <4>1. toTmux # << >> /\ toTmux \in Seq(Nat) /\ Head(toTmux) > 0
          BY <1>1 DEF Begin, TmuxTypeOK
        <4>2. toTmux[1] - 1 \in Nat
          BY <4>1
        <4>3. toTmux' = [toTmux EXCEPT ![1] = toTmux[1] - 1]
          BY <1>1, <3>2 DEF Begin
        <4> QED
          BY <1>1, <3>2, <4>1, <4>2, <4>3 DEF Begin, TmuxTypeOK
      <3> QED
        BY <3>1, <3>2
    <2>3. toClient' \in Seq(Line) /\ number' \in Number /\ running' \in Option(RunningBlock)
      BY <2>1, OpenType
    <2> QED
      BY <1>0, <1>1, <2>2, <2>3 DEF Begin, TmuxTypeOK
  <1>2. CASE BeginInternal
    <2>1. toClient' \in Seq(Line) /\ number' \in Number /\ running' \in Option(RunningBlock)
      BY <1>2, OpenType DEF BeginInternal
    <2> QED
      BY <1>0, <1>2, <2>1 DEF BeginInternal, TmuxTypeOK
  <1>3. CASE PrintLine
    <2>1. running[1] \in RunningBlock
      BY <1>3, OptionCases DEF PrintLine, TmuxTypeOK
    <2>2. PICK line \in Printable(running[1].owner) :
             /\ running' = Some([running[1] EXCEPT !.lines = Append(@, line)])
             /\ Write(line)
      BY <1>3 DEF PrintLine
    <2>3. line \in Line
      BY <2>1, <2>2, PrintableIsLine
    <2>4. Append(running[1].lines, line) \in Seq(Line)
      BY <2>1, <2>3, AppendProperties
    <2>5. [running[1] EXCEPT !.lines = Append(@, line)] \in RunningBlock
      BY <2>1, <2>4
    <2>6. running' \in Option(RunningBlock)
      BY <2>2, <2>5, OptionIntro
    <2>7. toClient' \in Seq(Line)
      BY <2>2, <2>3, WriteType
    <2> QED
      BY <1>3, <2>6, <2>7 DEF PrintLine, TmuxTypeOK
  <1>4. CASE End
    <2>1. PICK kind \in {"end", "error"} :
             /\ Serve(IF kind = "end" THEN "ok" ELSE "failed")
             /\ Write(GuardLine(kind, number, running[1].control))
             /\ UNCHANGED lost
      BY <1>4 DEF End
    <2>2. /\ running' = None /\ running[1] \in RunningBlock /\ number \in Number
          /\ served' \in Seq([status : {"ok", "failed", "lost"}, lines : Seq(Line)])
      BY <2>1, ServeType
    <2>3. GuardLine(kind, number, running[1].control) \in Line
      <3>1. running[1].control \in BOOLEAN /\ kind \in GuardKind
        BY <2>2 DEF GuardKind
      <3> QED
        BY <2>2, <3>1, GuardLineIsLine
    <2>4. toClient' \in Seq(Line)
      BY <2>1, <2>3, WriteType
    <2>5. UNCHANGED <<toTmux, alive, number, taken, noted, internals, lost>>
      BY <2>1 DEF Serve
    <2> QED
      BY <1>0, <2>2, <2>4, <2>5 DEF TmuxTypeOK
  <1>5. CASE LoseEnd
    <2>1. /\ running' = None
          /\ served' \in Seq([status : {"ok", "failed", "lost"}, lines : Seq(Line)])
      BY <1>5, ServeType DEF LoseEnd
    <2>2. lost' \in Nat /\ UNCHANGED <<toTmux, toClient, alive, number, taken, noted, internals>>
      BY <1>5 DEF LoseEnd, Serve, TmuxTypeOK
    <2> QED
      BY <1>0, <2>1, <2>2 DEF TmuxTypeOK
  <1>6. CASE Notify
    <2>1. PICK kind \in {"output", "text"} :
             /\ noted' = Append(noted, [kind |-> kind, body |-> Server])
             /\ Write([kind |-> kind, body |-> Server])
      BY <1>6, NotifyWrites
    <2>2. [kind |-> kind, body |-> Server] \in Line
      <3>1. [kind |-> kind, body |-> Server] \in Text
        BY TmuxAssumption DEF Text
      <3> QED
        BY <3>1 DEF Line
    <2>3. toClient' \in Seq(Line) /\ noted' \in Seq(Line)
      BY <2>1, <2>2, WriteType, AppendProperties DEF TmuxTypeOK
    <2> QED
      BY <1>6, <2>3 DEF Notify, TmuxTypeOK
  <1>7. CASE Detach
    <2>1. alive' \in BOOLEAN
      BY <1>7, Zenon DEF Detach
    <2> QED
      BY <1>7, <2>1 DEF Detach, TmuxTypeOK
  <1>8. CASE Exit
    <2>1. alive' \in BOOLEAN
      BY <1>8, Zenon DEF Exit
    <2>2. toClient' \in Seq(Line)
      <3>1. CASE Buffered
        <4>1. PICK n \in PipeSize .. Len(toClient) : toClient' = SubSeq(toClient, 1, n)
          BY <1>8, <3>1 DEF Exit
        <4>2. n \in 0 .. Len(toClient) /\ toClient \in Seq(Line)
          BY <4>1, TmuxAssumption, LenProperties DEF TmuxTypeOK
        <4> QED
          BY <4>1, <4>2, SubSeqProperties
      <3>2. CASE ~Buffered
        BY <1>8, <3>2 DEF Exit, TmuxTypeOK
      <3> QED
        BY <3>1, <3>2
    <2> QED
      BY <1>8, <2>1, <2>2 DEF Exit, TmuxTypeOK
  <1> QED
    BY <1>1, <1>2, <1>3, <1>4, <1>5, <1>6, <1>7, <1>8 DEF TmuxNext

(* A read takes the first lines and leaves the rest. *)
LEMMA ReadType ==
    ASSUME TmuxTypeOK, NEW n \in 1 .. Len(toClient)
    PROVE  /\ SubSeq(toClient, 1, n) \in Seq(Line)
           /\ SubSeq(toClient, n + 1, Len(toClient)) \in Seq(Line)
  <1>1. toClient \in Seq(Line) /\ Len(toClient) \in Nat
    BY LenProperties DEF TmuxTypeOK
  <1> QED
    BY <1>1, SubSeqProperties

LEMMA KeepsTmuxType == ASSUME TmuxTypeOK, UNCHANGED tmuxVars PROVE TmuxTypeOK'
  BY DEF tmuxVars, TmuxTypeOK

----------------------------------------------------------------------------
(* The elements of a sequence as it is used. *)

LEMMA NoElements == ToSet(<< >>) = {}
  BY DEF ToSet

LEMMA AppendElements ==
    ASSUME NEW S, NEW s \in Seq(S), NEW x \in S
    PROVE  Append(s, x) \in Seq(S) /\ ToSet(Append(s, x)) = ToSet(s) \cup {x}
  BY AppendProperties, LenProperties DEF ToSet

LEMMA ConcatElements ==
    ASSUME NEW S, NEW s \in Seq(S), NEW t \in Seq(S)
    PROVE  s \o t \in Seq(S) /\ ToSet(s \o t) = ToSet(s) \cup ToSet(t)
  <1>1. /\ s \o t \in Seq(S) /\ Len(s \o t) = Len(s) + Len(t)
        /\ \A k \in 1 .. Len(s) + Len(t) : (s \o t)[k] = IF k <= Len(s) THEN s[k] ELSE t[k - Len(s)]
        /\ Len(s) \in Nat /\ Len(t) \in Nat
        /\ DOMAIN s = 1 .. Len(s) /\ DOMAIN t = 1 .. Len(t) /\ DOMAIN (s \o t) = 1 .. Len(s \o t)
    BY ConcatProperties, LenProperties
  <1>2. ToSet(s \o t) \subseteq ToSet(s) \cup ToSet(t)
    <2> SUFFICES ASSUME NEW k \in 1 .. Len(s) + Len(t)
                 PROVE  (s \o t)[k] \in ToSet(s) \cup ToSet(t)
      BY <1>1 DEF ToSet
    <2>1. CASE k <= Len(s)
      BY <1>1, <2>1 DEF ToSet
    <2>2. CASE ~(k <= Len(s))
      <3>1. k - Len(s) \in 1 .. Len(t) /\ (s \o t)[k] = t[k - Len(s)]
        BY <1>1, <2>2
      <3> QED
        BY <1>1, <3>1 DEF ToSet
    <2> QED
      BY <2>1, <2>2
  <1>3. ToSet(s) \subseteq ToSet(s \o t)
    BY <1>1 DEF ToSet
  <1>4. ToSet(t) \subseteq ToSet(s \o t)
    <2> SUFFICES ASSUME NEW k \in 1 .. Len(t) PROVE t[k] \in ToSet(s \o t)
      BY <1>1 DEF ToSet
    <2>1. Len(s) + k \in 1 .. Len(s) + Len(t) /\ (s \o t)[Len(s) + k] = t[k]
      BY <1>1
    <2> QED
      BY <1>1, <2>1 DEF ToSet
  <1> QED
    BY <1>1, <1>2, <1>3, <1>4

LEMMA TailElements ==
    ASSUME NEW S, NEW s \in Seq(S), s # << >>
    PROVE  Head(s) \in S /\ Tail(s) \in Seq(S) /\ ToSet(s) = {Head(s)} \cup ToSet(Tail(s))
  <1>1. /\ Head(s) \in S /\ Tail(s) \in Seq(S) /\ Len(Tail(s)) = Len(s) - 1
        /\ \A k \in 1 .. Len(Tail(s)) : Tail(s)[k] = s[k + 1]
        /\ Head(s) = s[1] /\ Len(s) \in Nat \ {0}
        /\ DOMAIN s = 1 .. Len(s) /\ DOMAIN Tail(s) = 1 .. Len(Tail(s))
    BY HeadTailProperties, LenProperties, EmptySeq
  <1>2. ToSet(s) \subseteq {Head(s)} \cup ToSet(Tail(s))
    <2> SUFFICES ASSUME NEW k \in 1 .. Len(s) PROVE s[k] \in {Head(s)} \cup ToSet(Tail(s))
      BY <1>1 DEF ToSet
    <2>1. CASE k = 1
      BY <1>1, <2>1
    <2>2. CASE k # 1
      <3>1. k - 1 \in 1 .. Len(Tail(s)) /\ Tail(s)[k - 1] = s[k]
        BY <1>1, <2>2
      <3> QED
        BY <1>1, <3>1 DEF ToSet
    <2> QED
      BY <2>1, <2>2
  <1>3. {Head(s)} \cup ToSet(Tail(s)) \subseteq ToSet(s)
    <2>1. Head(s) \in ToSet(s)
      BY <1>1 DEF ToSet
    <2>2. ASSUME NEW k \in 1 .. Len(Tail(s)) PROVE Tail(s)[k] \in ToSet(s)
      <3>1. k + 1 \in 1 .. Len(s) /\ Tail(s)[k] = s[k + 1]
        BY <1>1
      <3> QED
        BY <1>1, <3>1 DEF ToSet
    <2> QED
      BY <1>1, <2>1, <2>2 DEF ToSet
  <1> QED
    BY <1>1, <1>2, <1>3

----------------------------------------------------------------------------
(* The stream on its way to a client, when no command prints a guard.  A   *)
(* point is what the engine knows after so many lines of it.  The stream   *)
(* fits if the points lead, line by line, from where the engine is to      *)
(* where tmux is, every %end and %error closes the block of its own        *)
(* number, and every control block that closes on the way carries a number *)
(* above the last, the outcome of the command it answers, and nothing some *)
(* other command printed.                                                  *)

Point == [parser : Option(PendingReply), answered : Nat, last : Option(Number)]

ClosesControl(event) == event # None /\ event[1].type = "reply" /\ event[1].reply.control

After(point, line) ==
    LET step == Push(point.parser, line) IN
    [parser |-> step.parser,
     answered |-> IF ClosesControl(step.event) THEN point.answered + 1 ELSE point.answered,
     last |-> IF ClosesControl(step.event) THEN Some(step.event[1].reply.number)
              ELSE point.last]

(* A command whose closing guard got lost fails, with at least its output. *)
Fits(result, outcome) ==
    IF outcome.status = "lost"
    THEN result.status = "failed" /\ IsPrefix(outcome.lines, result.lines)
    ELSE result = outcome

(* Lines the command printed, or tmux on its own account.                  *)
Own(lines, id) == \A line \in ToSet(lines) : line \in Text => line.body \in {id, Server}

Below(last, n) == \A k \in DOMAIN last : last[k] < n

ClosesOwn(point, line) ==
    line.kind \in {"end", "error"} =>
      point.parser # None /\ line.number = point.parser[1].number

Sound(point, line) ==
    LET event == Push(point.parser, line).event IN
    /\ ClosesOwn(point, line)
    /\ ClosesControl(event) =>
         /\ Below(point.last, event[1].reply.number)
         /\ point.answered < Len(served)
         /\ Fits(ResultOf(event[1].reply), served[point.answered + 1])
         /\ Own(event[1].reply.output, point.answered)

Here == [parser |-> parser, answered |-> Answered, last |-> last_number]

(* A control block whose guard got lost: it is open to the parser alone.   *)
LeftOpen(point) == running = None /\ point.parser # None /\ point.parser[1].control

Meets(point) ==
    /\ Below(point.last, number + 1)
    /\ point.parser # None =>
         point.parser[1].number <= number /\ Below(point.last, point.parser[1].number)
    /\ running # None =>
         point.parser = Some([number |-> number, control |-> running[1].control,
                              output |-> running[1].lines])
    /\ ~LeftOpen(point) => point.answered = Len(served)
    /\ LeftOpen(point) =>
         /\ point.answered + 1 = Len(served)
         /\ served[Len(served)].status = "lost"
         /\ IsPrefix(served[Len(served)].lines, point.parser[1].output)
         /\ Own(point.parser[1].output, point.answered)

Leads(t, s) == \A i \in 1 .. Len(s) : t[i] = After(t[i - 1], s[i]) /\ Sound(t[i - 1], s[i])

StreamFits(s) ==
    \E t \in [0 .. Len(s) -> Point] :
        t[0] = Here /\ Leads(t, s) /\ (alive => Meets(t[Len(s)]))

ServedGrows ==
    /\ Len(served) <= Len(served')
    /\ \A k \in 1 .. Len(served) : served'[k] = served[k]

----------------------------------------------------------------------------
(* What tmux serves, when a line of its input holds one command. *)

InControl == running # None /\ running[1].control

(* tmux never runs a command nobody sent, and serves them one by one; what *)
(* it has printed for the one it runs carries that command's number.       *)
InStep ==
    /\ \A i \in 1 .. Len(toTmux) : toTmux[i] <= 1 /\ (toTmux[i] > 0 => taken + i <= next_id)
    /\ taken <= next_id
    /\ InControl => Len(served) + 1 = taken
    /\ ~InControl => Len(served) = taken
    /\ InControl => running[1].owner = Len(served) /\ Own(running[1].lines, Len(served))

Outcome == [status : {"ok", "failed", "lost"}, lines : Seq(Line)]
PlainOutcome == [status : {"ok", "failed"}, lines : Seq(ContentLine)]

PlainLines ==
    /\ running # None => running[1].lines \in Seq(ContentLine)
    /\ lost = 0 => served \in Seq(PlainOutcome)

LEMMA ServeServes ==
    ASSUME TmuxTypeOK, NEW status \in {"ok", "failed", "lost"}, Serve(status)
    PROVE  \/ ~InControl /\ served' = served
           \/ /\ InControl
              /\ [status |-> status, lines |-> running[1].lines] \in Outcome
              /\ served' = Append(served, [status |-> status, lines |-> running[1].lines])
  <1>1. running # None /\ running[1] \in RunningBlock
    BY OptionCases DEF Serve, TmuxTypeOK, RunningBlock
  <1>2. [status |-> status, lines |-> running[1].lines] \in Outcome
    BY <1>1 DEF RunningBlock, Outcome
  <1>3. CASE running[1].control
    BY <1>1, <1>2, <1>3 DEF Serve, InControl
  <1>4. CASE ~running[1].control
    BY <1>4 DEF Serve, InControl
  <1> QED
    BY <1>3, <1>4

(* tmux serves one command at a time, the one it runs.                     *)
LEMMA PeerServes ==
    ASSUME TmuxTypeOK, TmuxNext
    PROVE  \/ served' = served
           \/ /\ InControl
              /\ \E outcome \in Outcome :
                   served' = Append(served, outcome)
  <1>1. CASE End
    <2>1. PICK kind \in {"end", "error"} : Serve(IF kind = "end" THEN "ok" ELSE "failed")
      BY <1>1 DEF End
    <2> QED
      BY <2>1, ServeServes
  <1>2. CASE LoseEnd
    BY <1>2, ServeServes DEF LoseEnd
  <1>3. CASE served' = served
    BY <1>3
  <1> QED
    BY <1>1, <1>2, <1>3
       DEF TmuxNext, Begin, BeginInternal, PrintLine, Notify, Detach, Exit

LEMMA PeerGrows == ASSUME TmuxTypeOK, TmuxNext PROVE ServedGrows
  <1>1. CASE served' = served
    BY <1>1, LenProperties DEF TmuxTypeOK, Outcome, ServedGrows
  <1>2. ASSUME NEW outcome \in Outcome,
               served' = Append(served, outcome)
        PROVE  ServedGrows
    BY <1>2, AppendProperties, LenProperties DEF TmuxTypeOK, Outcome, ServedGrows
  <1> QED
    BY <1>1, <1>2, PeerServes

(* The numbers the bookkeeping is about, once and for all.                 *)
LEMMA InStepCounts ==
    ASSUME IInv, TmuxTypeOK, InStep
    PROVE  /\ Len(served) <= next_id /\ Len(served) <= taken
           /\ Len(served) \in Nat /\ taken \in Nat /\ next_id \in Nat
           /\ toTmux \in Seq(Nat) /\ Len(toTmux) \in Nat
           /\ InControl => Len(served) < next_id
  <1>1. /\ Len(served) \in Nat /\ taken \in Nat /\ next_id \in Nat /\ Len(toTmux) \in Nat
    BY LenProperties, BoundAssumption DEF TmuxTypeOK, IInv, TypeOK
  <1> QED
    BY <1>1 DEF InStep, TmuxTypeOK

(* A client that writes one command, one of which tmux has not heard, or   *)
(* the empty line, or registers a command, keeps in step.                  *)
LEMMA WriteKeepsInStep ==
    ASSUME IInv, TmuxTypeOK, InStep, UNCHANGED <<taken, running, served>>,
           next_id' \in Nat, next_id <= next_id', NEW n \in {0, 1},
           toTmux' = Append(toTmux, n), n = 1 => taken + Len(toTmux) < next_id'
    PROVE  InStep' /\ Len(toTmux') = Len(toTmux) + 1
  <1>1. /\ taken \in Nat /\ next_id \in Nat /\ Len(toTmux) \in Nat /\ toTmux \in Seq(Nat)
        /\ InControl' = InControl
    BY InStepCounts DEF InControl
  <1>2. /\ Len(toTmux') = Len(toTmux) + 1 /\ toTmux'[Len(toTmux) + 1] = n
        /\ \A k \in 1 .. Len(toTmux) : toTmux'[k] = toTmux[k]
    <2>1. n \in Nat
      OBVIOUS
    <2> QED
      BY <1>1, <2>1, AppendProperties
  <1>3. ASSUME NEW i \in 1 .. Len(toTmux')
        PROVE  toTmux'[i] <= 1 /\ (toTmux'[i] > 0 => taken + i <= next_id')
    <2>1. CASE i \in 1 .. Len(toTmux)
      <3>1. toTmux'[i] = toTmux[i] /\ toTmux[i] <= 1 /\ (toTmux[i] > 0 => taken + i <= next_id)
        BY <1>2, <2>1 DEF InStep
      <3> QED
        BY <1>1, <3>1
    <2>2. CASE i = Len(toTmux) + 1
      BY <1>1, <1>2, <2>2
    <2> QED
      BY <1>1, <1>2, <2>1, <2>2
  <1> QED
    BY <1>1, <1>2, <1>3 DEF InStep

LEMMA KeepsInStep ==
    ASSUME IInv, TmuxTypeOK, InStep, UNCHANGED <<toTmux, taken, running, served>>,
           next_id' \in Nat, next_id <= next_id'
    PROVE  InStep'
  <1>1. taken \in Nat /\ next_id \in Nat /\ Len(toTmux) \in Nat /\ InControl' = InControl
    BY InStepCounts DEF InControl
  <1>2. ASSUME NEW i \in 1 .. Len(toTmux)
        PROVE  toTmux[i] <= 1 /\ (toTmux[i] > 0 => taken + i <= next_id')
    <2>1. toTmux[i] <= 1 /\ (toTmux[i] > 0 => taken + i <= next_id)
      BY DEF InStep
    <2> QED
      BY <1>1, <2>1
  <1> QED
    BY <1>1, <1>2 DEF InStep

(* What tmux does keeps in step, and it takes no more than is there.       *)
LEMMA PeerInStep ==
    ASSUME IInv, TmuxTypeOK, InStep, TmuxNext, next_id' = next_id
    PROVE  /\ InStep'
           /\ taken' + Len(toTmux') <= taken + Len(toTmux)
           /\ toTmux = << >> => toTmux' = << >>
  <1>0. /\ Len(served) \in Nat /\ taken \in Nat /\ next_id \in Nat /\ Len(toTmux) \in Nat
        /\ toTmux \in Seq(Nat)
    BY InStepCounts
  <1>1. CASE Begin
    <2>1. /\ toTmux # << >> /\ Head(toTmux) > 0 /\ Open(TRUE, taken) /\ served' = served
      BY <1>1 DEF Begin
    <2>2. /\ Head(toTmux) = toTmux[1] /\ 1 \in 1 .. Len(toTmux)
          /\ Len(Tail(toTmux)) = Len(toTmux) - 1
          /\ \A i \in 1 .. Len(toTmux) - 1 : Tail(toTmux)[i] = toTmux[i + 1]
      BY <1>0, <2>1, HeadTailProperties, EmptySeq
    <2>3. Head(toTmux) = 1 /\ taken + 1 <= next_id
      <3>1. toTmux[1] \in Nat
        BY <1>0, <2>2, ElementOfSeq
      <3> QED
        BY <2>1, <2>2, <3>1 DEF InStep
    <2>4. toTmux' = Tail(toTmux) /\ taken' = taken + 1
      BY <1>1, <2>3 DEF Begin
    <2>5. ~InControl /\ InControl' /\ running'[1].owner = taken /\ running'[1].lines = << >>
      <3>1. running = None /\ running' = Some([control |-> TRUE, owner |-> taken, lines |-> << >>])
        BY <2>1 DEF Open
      <3>2. /\ running' # None /\ running'[1].control
            /\ running'[1].owner = taken /\ running'[1].lines = << >>
        BY <3>1 DEF Some, None
      <3> QED
        BY <3>1, <3>2 DEF InControl
    <2>6. ASSUME NEW i \in 1 .. Len(toTmux')
          PROVE  toTmux'[i] <= 1 /\ (toTmux'[i] > 0 => taken' + i <= next_id)
      <3>1. i + 1 \in 1 .. Len(toTmux) /\ toTmux'[i] = toTmux[i + 1] /\ i \in Nat
        BY <1>0, <2>2, <2>4
      <3>2. toTmux[i + 1] <= 1 /\ (toTmux[i + 1] > 0 => taken + (i + 1) <= next_id)
        BY <3>1 DEF InStep
      <3> QED
        BY <1>0, <2>4, <3>1, <3>2
    <2>7. Own(running'[1].lines, Len(served'))
      BY <2>5, NoElements DEF Own
    <2>8. Len(served') = taken /\ Len(served') + 1 = taken'
      BY <1>0, <2>1, <2>4, <2>5 DEF InStep
    <2>9. taken' + Len(toTmux') <= taken + Len(toTmux)
      <3>1. Len(toTmux') = Len(toTmux) - 1
        BY <2>2, <2>4
      <3>2. taken' = taken + 1
        BY <2>4
      <3> QED
        BY <1>0, <3>1, <3>2
    <2>10. InStep'
      BY <1>0, <2>3, <2>4, <2>5, <2>6, <2>7, <2>8 DEF InStep
    <2> QED
      BY <2>1, <2>9, <2>10
  <1>3. CASE BeginInternal
    <2>1. running = None /\ running' = Some([control |-> FALSE, owner |-> Server, lines |-> << >>])
      BY <1>3 DEF BeginInternal, Open
    <2>2. ~InControl /\ ~InControl'
      BY <2>1 DEF InControl, Some, None
    <2>3. UNCHANGED <<toTmux, taken, served>>
      BY <1>3 DEF BeginInternal
    <2> QED
      BY <1>0, <2>2, <2>3 DEF InStep
  <1>4. CASE PrintLine
    <2>1. PICK line \in Printable(running[1].owner) :
             running' = Some([running[1] EXCEPT !.lines = Append(@, line)])
      BY <1>4 DEF PrintLine
    <2>2. running # None /\ running[1] \in RunningBlock
      BY <1>0, <1>4, OptionCases DEF PrintLine, TmuxTypeOK, RunningBlock
    <2>3. /\ running' # None /\ running'[1].control = running[1].control
          /\ running'[1].owner = running[1].owner
          /\ running'[1].lines = Append(running[1].lines, line)
      BY <2>1, <2>2 DEF Some, None, RunningBlock
    <2>4. InControl' = InControl /\ UNCHANGED <<toTmux, taken, served>>
      BY <1>4, <2>2, <2>3 DEF InControl, PrintLine
    <2>5. ASSUME InControl PROVE Own(running'[1].lines, Len(served))
      <3>1. running[1].owner = Len(served) /\ Own(running[1].lines, Len(served))
        BY <2>5 DEF InStep
      <3>2. line \in Line /\ running[1].lines \in Seq(Line)
        BY <2>1, <2>2, PrintableIsLine DEF RunningBlock
      <3>3. ToSet(running'[1].lines) = ToSet(running[1].lines) \cup {line}
        BY <2>3, <3>2, AppendElements
      <3>4. line \in Text => line.body = Len(served)
        <4>1. CASE line \in Echoed
          <5>1. line.kind \in GuardKind
            BY <4>1, TmuxAssumption DEF Guard
          <5> QED
            BY <5>1 DEF Text, GuardKind
        <4>2. CASE line \in [kind : {"output", "text"}, body : {running[1].owner}]
          BY <3>1, <4>2
        <4>3. CASE line = Blank
          BY <4>3 DEF Text, Blank
        <4> QED
          BY <2>1, <4>1, <4>2, <4>3 DEF Printable
      <3> QED
        BY <3>1, <3>3, <3>4 DEF Own
    <2> QED
      BY <1>0, <2>3, <2>4, <2>5 DEF InStep
  <1>5. ASSUME NEW status \in {"ok", "failed", "lost"}, Serve(status)
        PROVE  InStep' /\ UNCHANGED <<toTmux, taken>>
    <2>1. ~InControl' /\ UNCHANGED <<toTmux, taken>>
      BY <1>5 DEF Serve, InControl
    <2>2. Len(served') = taken
      <3>1. CASE ~InControl /\ served' = served
        BY <3>1 DEF InStep
      <3>2. ASSUME InControl, NEW outcome \in Outcome, served' = Append(served, outcome)
            PROVE  Len(served') = taken
        <4>1. Len(served') = Len(served) + 1
          BY <1>0, <3>2, AppendProperties DEF TmuxTypeOK, Outcome
        <4> QED
          BY <3>2, <4>1 DEF InStep
      <3> QED
        BY <1>0, <1>5, <3>1, <3>2, ServeServes
    <2> QED
      BY <1>0, <2>1, <2>2 DEF InStep
  <1>6. CASE End
    <2>1. PICK kind \in {"end", "error"} : Serve(IF kind = "end" THEN "ok" ELSE "failed")
      BY <1>6 DEF End
    <2> QED
      BY <1>0, <1>5, <2>1
  <1>7. CASE LoseEnd
    BY <1>0, <1>5, <1>7 DEF LoseEnd
  <1>8. CASE Notify \/ Detach \/ Exit
    <2>1. UNCHANGED <<toTmux, taken, running, served>>
      BY <1>8 DEF Notify, Detach, Exit
    <2> QED
      BY <1>0, <2>1 DEF InStep, InControl
  <1> QED
    BY <1>1, <1>3, <1>4, <1>6, <1>7, <1>8 DEF TmuxNext

(* tmux reads no line of input where none waits. *)
LEMMA NothingToRead == ASSUME TmuxNext, toTmux = << >> PROVE taken' = taken
  BY DEF TmuxNext, Begin, BeginInternal, PrintLine, End, LoseEnd, Serve, Notify, Detach, Exit

LEMMA PeerLines ==
    ASSUME TmuxTypeOK, PlainLines, Echoed = {}, TmuxNext
    PROVE  PlainLines'
  <1>1. ASSUME NEW control, NEW owner, Open(control, owner), UNCHANGED <<served, lost>>
        PROVE  PlainLines'
    <2>1. running'[1].lines = << >>
      BY <1>1 DEF Open, Some
    <2> QED
      BY <1>1, <2>1, EmptySeq DEF PlainLines
  <1>2. CASE Begin
    BY <1>1, <1>2 DEF Begin
  <1>3. CASE BeginInternal
    BY <1>1, <1>3 DEF BeginInternal
  <1>4. CASE PrintLine
    <2>1. running # None /\ running[1] \in RunningBlock /\ running[1].lines \in Seq(ContentLine)
      BY <1>4, OptionCases DEF PrintLine, TmuxTypeOK, RunningBlock, PlainLines
    <2>2. PICK line \in Printable(running[1].owner) :
             running' = Some([running[1] EXCEPT !.lines = Append(@, line)])
      BY <1>4 DEF PrintLine
    <2>3. line \in ContentLine
      <3>1. line \in [kind : {"output", "text"}, body : {running[1].owner}] \cup {Blank}
        BY <2>2 DEF Printable
      <3> QED
        BY <2>1, <3>1 DEF ContentLine, Text, RunningBlock
    <2>4. running'[1].lines = Append(running[1].lines, line)
      BY <2>1, <2>2 DEF Some, RunningBlock
    <2>5. Append(running[1].lines, line) \in Seq(ContentLine)
      BY <2>1, <2>3, AppendProperties
    <2> QED
      BY <1>4, <2>4, <2>5 DEF PlainLines, PrintLine
  <1>5. CASE End
    <2>1. PICK kind \in {"end", "error"} :
             Serve(IF kind = "end" THEN "ok" ELSE "failed") /\ UNCHANGED lost
      BY <1>5 DEF End
    <2> DEFINE status == IF kind = "end" THEN "ok" ELSE "failed"
    <2>2. running # None /\ running' = None
      BY <2>1 DEF Serve
    <2>3. ASSUME lost' = 0 PROVE served' \in Seq(PlainOutcome)
      <3>1. served \in Seq(PlainOutcome) /\ running[1].lines \in Seq(ContentLine)
        BY <2>1, <2>2, <2>3 DEF PlainLines
      <3>2. CASE served' = served
        BY <3>1, <3>2
      <3>3. CASE served' = Append(served, [status |-> status, lines |-> running[1].lines])
        <4>1. [status |-> status, lines |-> running[1].lines] \in PlainOutcome
          BY <3>1 DEF PlainOutcome
        <4> QED
          BY <3>1, <3>3, <4>1, AppendProperties
      <3> QED
        BY <2>1, <3>2, <3>3, ServeServes
    <2> QED
      BY <2>2, <2>3 DEF PlainLines
  <1>6. CASE LoseEnd
    <2>1. running' = None /\ lost' # 0
      BY <1>6 DEF LoseEnd, Serve, TmuxTypeOK
    <2> QED
      BY <2>1 DEF PlainLines
  <1>7. CASE Notify \/ Detach \/ Exit
    <2>1. UNCHANGED <<running, served, lost>>
      BY <1>7 DEF Notify, Detach, Exit
    <2> QED
      BY <2>1 DEF PlainLines
  <1> QED
    BY <1>2, <1>3, <1>4, <1>5, <1>6, <1>7 DEF TmuxNext

----------------------------------------------------------------------------
(* Points, and what becomes of the stream. *)

LEMMA AfterType ==
    ASSUME NEW point \in Point, NEW line \in Line
    PROVE  After(point, line) \in Point
  <1>1. /\ Push(point.parser, line).parser \in Option(PendingReply)
        /\ Push(point.parser, line).event \in Option(Event)
    BY PushType DEF Point
  <1>2. CASE ClosesControl(Push(point.parser, line).event)
    <2>1. Push(point.parser, line).event[1] \in Event
      BY <1>1, <1>2, OptionCases DEF ClosesControl
    <2>2. Push(point.parser, line).event[1].reply.number \in Number
      BY <1>2, <2>1 DEF ClosesControl, Event, Reply
    <2>3. Some(Push(point.parser, line).event[1].reply.number) \in Option(Number)
      BY <2>2, OptionIntro
    <2> QED
      BY <1>1, <1>2, <2>3 DEF After, Point
  <1>3. CASE ~ClosesControl(Push(point.parser, line).event)
    BY <1>1, <1>3 DEF After, Point
  <1> QED
    BY <1>2, <1>3

LEMMA StaysSound ==
    ASSUME NEW point \in Point, NEW line, Sound(point, line), ServedGrows, TmuxTypeOK, TmuxTypeOK'
    PROVE  Sound(point, line)'
  <1>1. Len(served) \in Nat /\ Len(served') \in Nat /\ point.answered \in Nat
    BY LenProperties DEF TmuxTypeOK, Point
  <1>2. ASSUME ClosesControl(Push(point.parser, line).event)
        PROVE  /\ point.answered < Len(served') /\ served'[point.answered + 1] = served[point.answered + 1]
    BY <1>1, <1>2 DEF Sound, ServedGrows
  <1> QED
    BY <1>2 DEF Sound

(* tmux goes on writing nothing. *)
LEMMA StreamStays ==
    ASSUME TmuxTypeOK, TmuxTypeOK', NEW s \in Seq(Line), StreamFits(s), ServedGrows,
           Here' = Here,
           \A point \in Point : alive' /\ Meets(point) => Meets(point)',
           alive' => alive
    PROVE  StreamFits(s)'
  <1>1. PICK t \in [0 .. Len(s) -> Point] :
           t[0] = Here /\ Leads(t, s) /\ (alive => Meets(t[Len(s)]))
    BY DEF StreamFits
  <1>2. Len(s) \in Nat
    BY LenProperties
  <1>3. Leads(t, s)'
    <2> SUFFICES ASSUME NEW i \in 1 .. Len(s)
                 PROVE  t[i] = After(t[i - 1], s[i]) /\ Sound(t[i - 1], s[i])'
      BY DEF Leads
    <2>1. t[i - 1] \in Point
      BY <1>2
    <2> QED
      BY <1>1, <2>1, StaysSound DEF Leads
  <1>4. alive' => Meets(t[Len(s)])'
    BY <1>1, <1>2
  <1> QED
    BY <1>1, <1>3, <1>4 DEF StreamFits

(* tmux writes a line. *)
LEMMA StreamGrows ==
    ASSUME TmuxTypeOK, TmuxTypeOK', NEW s \in Seq(Line), StreamFits(s), ServedGrows,
           Here' = Here, alive, NEW line \in Line,
           \A point \in Point :
               Meets(point) => Sound(point, line)' /\ Meets(After(point, line))'
    PROVE  StreamFits(Append(s, line))'
  <1>1. PICK t \in [0 .. Len(s) -> Point] :
           t[0] = Here /\ Leads(t, s) /\ (alive => Meets(t[Len(s)]))
    BY DEF StreamFits
  <1>2. /\ Len(s) \in Nat /\ Len(Append(s, line)) = Len(s) + 1
        /\ \A i \in 1 .. Len(s) : Append(s, line)[i] = s[i]
        /\ Append(s, line)[Len(s) + 1] = line
    BY LenProperties, AppendProperties
  <1> DEFINE u == [i \in 0 .. Len(s) + 1 |->
                     IF i <= Len(s) THEN t[i] ELSE After(t[Len(s)], line)]
  <1>3. t[Len(s)] \in Point /\ Meets(t[Len(s)])
    BY <1>1, <1>2
  <1>4. u \in [0 .. Len(s) + 1 -> Point]
    BY <1>2, <1>3, AfterType
  <1>5. /\ \A i \in 0 .. Len(s) : u[i] = t[i]
        /\ u[Len(s) + 1] = After(t[Len(s)], line)
    BY <1>2
  <1> HIDE DEF u
  <1>6. Leads(u, Append(s, line))'
    <2> SUFFICES ASSUME NEW i \in 1 .. Len(s) + 1
                 PROVE  /\ u[i] = After(u[i - 1], Append(s, line)[i])
                        /\ Sound(u[i - 1], Append(s, line)[i])'
      BY <1>2 DEF Leads
    <2>1. CASE i \in 1 .. Len(s)
      <3>1. /\ u[i] = t[i] /\ u[i - 1] = t[i - 1] /\ t[i - 1] \in Point
            /\ Append(s, line)[i] = s[i]
        BY <1>2, <1>5, <2>1
      <3>2. t[i] = After(t[i - 1], s[i]) /\ Sound(t[i - 1], s[i])'
        BY <1>1, <2>1, <3>1, StaysSound DEF Leads
      <3> QED
        BY <3>1, <3>2
    <2>2. CASE i = Len(s) + 1
      <3>1. u[i - 1] = t[Len(s)] /\ u[i] = After(t[Len(s)], line) /\ Append(s, line)[i] = line
        BY <1>2, <1>5, <2>2
      <3>2. Sound(t[Len(s)], line)'
        BY <1>3
      <3> QED
        BY <3>1, <3>2
    <2> QED
      BY <1>2, <2>1, <2>2
  <1>7. Meets(u[Len(s) + 1])'
    BY <1>3, <1>5
  <1>8. u[0] = Here'
    BY <1>1, <1>2, <1>5
  <1> QED
    BY <1>2, <1>4, <1>6, <1>7, <1>8 DEF StreamFits

(* tmux is gone, and what its pipe had no room for with it. *)
LEMMA StreamEnds ==
    ASSUME TmuxTypeOK, TmuxTypeOK', NEW s \in Seq(Line), StreamFits(s), ServedGrows,
           Here' = Here, ~alive', NEW n \in 0 .. Len(s)
    PROVE  StreamFits(SubSeq(s, 1, n))'
  <1>1. PICK t \in [0 .. Len(s) -> Point] : t[0] = Here /\ Leads(t, s)
    BY DEF StreamFits
  <1>2. /\ Len(s) \in Nat /\ Len(SubSeq(s, 1, n)) = n
        /\ \A i \in 1 .. n : SubSeq(s, 1, n)[i] = s[i]
    BY LenProperties, SubSeqProperties
  <1> DEFINE u == [i \in 0 .. n |-> t[i]]
  <1>3. u \in [0 .. n -> Point] /\ \A i \in 0 .. n : u[i] = t[i]
    BY <1>2
  <1> HIDE DEF u
  <1>4. Leads(u, SubSeq(s, 1, n))'
    <2> SUFFICES ASSUME NEW i \in 1 .. n
                 PROVE  /\ u[i] = After(u[i - 1], SubSeq(s, 1, n)[i])
                        /\ Sound(u[i - 1], SubSeq(s, 1, n)[i])'
      BY <1>2 DEF Leads
    <2>1. /\ u[i] = t[i] /\ u[i - 1] = t[i - 1] /\ t[i - 1] \in Point
          /\ SubSeq(s, 1, n)[i] = s[i] /\ i \in 1 .. Len(s)
      BY <1>2, <1>3
    <2>2. t[i] = After(t[i - 1], s[i]) /\ Sound(t[i - 1], s[i])'
      BY <1>1, <2>1, StaysSound DEF Leads
    <2> QED
      BY <2>1, <2>2
  <1>5. u[0] = Here'
    BY <1>1, <1>2, <1>3
  <1> QED
    BY <1>2, <1>3, <1>4, <1>5 DEF StreamFits

----------------------------------------------------------------------------
(* What push makes of the lines tmux writes. *)

LEMMA PushBegin ==
    ASSUME NEW p, NEW line, line.kind = "begin"
    PROVE  /\ Push(p, line).parser = Some(OpenBlock(line))
           /\ p = None => Push(p, line).event = None
           /\ p # None => Push(p, line).event = Some(CloseBlock(p[1], TRUE))
  BY DEF Push, PushAtTopLevel, PushWithinBlock

LEMMA PushEnd ==
    ASSUME NEW p, p # None, NEW kind \in {"end", "error"}, NEW n, NEW control,
           NEW line, line = GuardLine(kind, n, control)
    PROVE  /\ Push(p, line).parser = None
           /\ Push(p, line).event = Some(CloseBlock(p[1], kind = "error"))
  <1>1. line.kind = kind
    BY DEF GuardLine
  <1> QED
    BY <1>1 DEF Push, PushWithinBlock

LEMMA PushContent ==
    ASSUME NEW p, NEW line \in ContentLine
    PROVE  /\ ~ClosesControl(Push(p, line).event)
           /\ p = None => Push(p, line).parser = None
           /\ p # None => Push(p, line).parser = Some([p[1] EXCEPT !.output = Append(@, line)])
  <1>1. line.kind \in {"output", "text", "blank"}
    BY DEF ContentLine, Text, Blank
  <1>2. CASE p = None
    <2>1. CASE line.kind = "blank"
      BY <1>2, <2>1 DEF Push, PushAtTopLevel, ClosesControl
    <2>2. CASE line.kind # "blank"
      <3>1. Push(p, line) = [parser |-> None, event |-> Some(NotificationEvent(line))]
        BY <1>1, <1>2, <2>2 DEF Push, PushAtTopLevel
      <3>2. Some(NotificationEvent(line))[1].type = "notification"
        BY DEF Some, NotificationEvent
      <3> QED
        BY <1>2, <3>1, <3>2 DEF ClosesControl
    <2> QED
      BY <2>1, <2>2
  <1>3. CASE p # None
    <2>1. Push(p, line) = [parser |-> Some([p[1] EXCEPT !.output = Append(@, line)]),
                           event |-> None]
      BY <1>1, <1>3 DEF Push, PushWithinBlock
    <2> QED
      BY <1>3, <2>1 DEF ClosesControl
  <1> QED
    BY <1>2, <1>3

(* A block closed as a control reply or not at all.                        *)
LEMMA ClosedBlock ==
    ASSUME NEW block, NEW error
    PROVE  /\ ClosesControl(Some(CloseBlock(block, error))) <=> block.control
           /\ Some(CloseBlock(block, error))[1].reply
                = [number |-> block.number, control |-> block.control,
                   output |-> block.output, error |-> error]
  <1>1. Some(CloseBlock(block, error)) # None
    BY DEF Some, None
  <1>2. Some(CloseBlock(block, error))[1] = CloseBlock(block, error)
    BY DEF Some
  <1> QED
    BY <1>1, <1>2 DEF ClosesControl, CloseBlock, ReplyEvent

LEMMA PrefixSelf == ASSUME NEW S, NEW s \in Seq(S) PROVE IsPrefix(s, s)
  BY LenProperties DEF IsPrefix

LEMMA PrefixGrows ==
    ASSUME NEW S, NEW s \in Seq(S), NEW t \in Seq(S), NEW x \in S, IsPrefix(s, t)
    PROVE  IsPrefix(s, Append(t, x))
  <1>1. /\ Len(s) \in Nat /\ Len(t) \in Nat /\ Len(s) <= Len(t)
        /\ Append(t, x) \in Seq(S) /\ Len(Append(t, x)) = Len(t) + 1
        /\ \A i \in 1 .. Len(t) : Append(t, x)[i] = t[i]
    BY LenProperties, AppendProperties DEF IsPrefix
  <1>2. \A i \in 1 .. Len(s) : t[i] \in S /\ Append(t, x)[i] \in S
    BY <1>1, ElementOfSeq
  <1>3. /\ SubSeq(t, 1, Len(s)) \in Seq(S) /\ Len(SubSeq(t, 1, Len(s))) = Len(s)
        /\ \A i \in 1 .. Len(s) : SubSeq(t, 1, Len(s))[i] = t[i]
    BY <1>1, <1>2, SubSeqProperties
  <1>4. /\ SubSeq(Append(t, x), 1, Len(s)) \in Seq(S)
        /\ Len(SubSeq(Append(t, x), 1, Len(s))) = Len(s)
        /\ \A i \in 1 .. Len(s) : SubSeq(Append(t, x), 1, Len(s))[i] = Append(t, x)[i]
    BY <1>1, <1>2, SubSeqProperties
  <1>5. SubSeq(Append(t, x), 1, Len(s)) = SubSeq(t, 1, Len(s))
    BY <1>1, <1>3, <1>4, SeqEqual
  <1> QED
    BY <1>1, <1>5 DEF IsPrefix

----------------------------------------------------------------------------
(* What tmux does, the stream goes on fitting. *)

LEMMA PointParts ==
    ASSUME NEW point \in Point, TmuxTypeOK
    PROVE  /\ point.parser \in Option(PendingReply) /\ point.answered \in Nat
           /\ point.last \in Option(Number) /\ \A k \in DOMAIN point.last : point.last[k] \in Nat
           /\ point.parser # None => /\ point.parser[1] \in PendingReply
                                     /\ point.parser[1].number \in Nat
                                     /\ point.parser[1].control \in BOOLEAN
           /\ Len(served) \in Nat /\ number \in Nat
  <1>1. /\ point.parser \in Option(PendingReply) /\ point.answered \in Nat
        /\ point.last \in Option(Number)
    BY DEF Point
  <1>2. \A k \in DOMAIN point.last : point.last[k] \in Nat
    <2>1. CASE point.last = None
      BY <2>1 DEF None
    <2>2. CASE point.last # None
      BY <1>1, <2>2, OptionCases, NumberAssumption
    <2> QED
      BY <2>1, <2>2
  <1>3. point.parser # None => point.parser[1] \in PendingReply
    BY <1>1, OptionCases
  <1>4. point.parser # None => point.parser[1].number \in Nat /\ point.parser[1].control \in BOOLEAN
    BY <1>3, NumberAssumption DEF PendingReply
  <1>5. Len(served) \in Nat /\ number \in Nat
    BY LenProperties DEF TmuxTypeOK
  <1> QED
    BY <1>1, <1>2, <1>3, <1>4, <1>5

LEMMA BeginFollows ==
    ASSUME TmuxTypeOK, NEW control \in BOOLEAN, NEW owner, Open(control, owner),
           served' = served, NEW line, line = GuardLine("begin", number + 1, control),
           NEW point \in Point, Meets(point)
    PROVE  Sound(point, line)' /\ Meets(After(point, line))'
  <1> DEFINE p == point.parser
             next == After(point, line)
             event == Push(p, line).event
  <1>0. ClosesOwn(point, line)
    BY DEF ClosesOwn, GuardLine
  <1>1. /\ running = None /\ number' = number + 1
        /\ running' = Some([control |-> control, owner |-> owner, lines |-> << >>])
    BY DEF Open
  <1>2. /\ Push(p, line).parser
             = Some([number |-> number + 1, control |-> control, output |-> << >>])
        /\ p = None => event = None
        /\ p # None => event = Some(CloseBlock(p[1], TRUE))
    <2>1. line.kind = "begin" /\ line.number = number + 1 /\ line.control = control
      BY DEF GuardLine
    <2>2. OpenBlock(line) = [number |-> number + 1, control |-> control, output |-> << >>]
      BY <2>1 DEF OpenBlock
    <2> QED
      BY <2>1, <2>2, PushBegin
  <1>3. next.parser = Some([number |-> number + 1, control |-> control, output |-> << >>])
    BY <1>2 DEF After
  <1>4. /\ running' # None /\ running'[1].control = control /\ running'[1].lines = << >>
        /\ next.parser[1].number = number + 1
    BY <1>1, <1>3 DEF Some, None
  <1>5. ASSUME Below(next.last, number + 1), next.answered = Len(served)
        PROVE  Meets(next)'
    <2>1. ~LeftOpen(next)'
      BY <1>4 DEF LeftOpen
    <2>2. Below(next.last, number' + 1)
      <3>1. next.last \in Option(Number) /\ number \in Nat
        <4>1. line \in Line
          BY GuardLineIsLine DEF Open, GuardKind
        <4> QED
          BY <4>1, AfterType, PointParts DEF Point
      <3>2. \A k \in DOMAIN next.last : next.last[k] \in Nat
        <4>1. CASE next.last = None
          BY <4>1 DEF None
        <4>2. CASE next.last # None
          BY <3>1, <4>2, OptionCases, NumberAssumption
        <4> QED
          BY <4>1, <4>2
      <3> QED
        BY <1>1, <1>5, <3>1, <3>2 DEF Below
    <2>3. next.parser = Some([number |-> number', control |-> running'[1].control,
                              output |-> running'[1].lines])
      BY <1>1, <1>3, <1>4
    <2>4. next.parser[1].number <= number' /\ Below(next.last, next.parser[1].number)
      BY <1>1, <1>4, <1>5, PointParts
    <2> HIDE DEF next
    <2> QED
      BY <1>5, <2>1, <2>2, <2>3, <2>4 DEF Meets
  <1>6. CASE ~ClosesControl(event)
    <2>1. next.last = point.last /\ next.answered = point.answered
      BY <1>6 DEF After
    <2>2. ~LeftOpen(point)
      <3>1. CASE p = None
        BY <3>1 DEF LeftOpen
      <3>2. CASE p # None
        BY <1>2, <1>6, <3>2, ClosedBlock, ZenonT(60) DEF LeftOpen
      <3> QED
        BY <3>1, <3>2
    <2>3. Below(next.last, number + 1) /\ next.answered = Len(served)
      BY <2>1, <2>2 DEF Meets
    <2> QED
      BY <1>0, <1>5, <1>6, <2>3 DEF Sound
  <1>7. CASE ClosesControl(event)
    <2>1. p # None /\ event = Some(CloseBlock(p[1], TRUE)) /\ p[1].control
      <3>1. p # None
        BY <1>2, <1>7 DEF ClosesControl
      <3>2. event = Some(CloseBlock(p[1], TRUE))
        BY <1>2, <3>1
      <3>3. p[1].control
        <4> HIDE DEF event
        <4> QED
          BY <1>7, <3>2 DEF ClosesControl, CloseBlock, ReplyEvent, Some
      <3> QED
        BY <3>1, <3>2, <3>3, Zenon
    <2>2. event[1].reply = [number |-> p[1].number, control |-> p[1].control,
                            output |-> p[1].output, error |-> TRUE]
      <3> HIDE DEF event
      <3> QED
        BY <2>1 DEF CloseBlock, ReplyEvent, Some
    <2>3. LeftOpen(point)
      BY <1>1, <2>1 DEF LeftOpen
    <2>4. /\ point.answered + 1 = Len(served) /\ served[Len(served)].status = "lost"
          /\ IsPrefix(served[Len(served)].lines, p[1].output)
          /\ Own(p[1].output, point.answered)
          /\ p[1].number <= number /\ Below(point.last, p[1].number)
      BY <2>1, <2>3 DEF Meets
    <2>5. next.last = Some(p[1].number) /\ next.answered = point.answered + 1
      BY <1>7, <2>2 DEF After
    <2>6. Below(next.last, number + 1)
      <3>1. DOMAIN next.last = {1} /\ next.last[1] = p[1].number
        BY <2>5 DEF Some
      <3>2. p[1].number \in Nat /\ number \in Nat
        BY <2>1, PointParts
      <3> QED
        BY <2>4, <3>1, <3>2 DEF Below
    <2>7. Meets(next)'
      BY <1>5, <2>4, <2>5, <2>6
    <2>8. Fits(ResultOf(event[1].reply), served[point.answered + 1])
      <3>1. ResultOf(event[1].reply) = [status |-> "failed", lines |-> p[1].output]
        BY <2>2 DEF ResultOf, Failed
      <3> QED
        BY <2>4, <3>1 DEF Fits
    <2>9. point.answered < Len(served')
      BY <2>4, PointParts
    <2> QED
      BY <1>0, <2>2, <2>4, <2>7, <2>8, <2>9 DEF Sound
  <1> QED
    BY <1>6, <1>7

LEMMA PrintFollows ==
    ASSUME TmuxTypeOK, running # None, UNCHANGED <<number, served>>, NEW line \in ContentLine,
           running' = Some([running[1] EXCEPT !.lines = Append(@, line)]),
           NEW point \in Point, Meets(point)
    PROVE  Sound(point, line)' /\ Meets(After(point, line))'
  <1> DEFINE next == After(point, line)
             block == [number |-> number, control |-> running[1].control,
                       output |-> running[1].lines]
  <1>0. running[1] \in RunningBlock
    BY OptionCases DEF TmuxTypeOK, RunningBlock
  <1>1. point.parser = Some(block) /\ ~LeftOpen(point)
    BY DEF Meets, LeftOpen
  <1>2. point.parser # None /\ point.parser[1] = block
    BY <1>1 DEF Some, None
  <1>3. /\ ~ClosesControl(Push(point.parser, line).event)
        /\ Push(point.parser, line).parser = Some([block EXCEPT !.output = Append(@, line)])
    BY <1>2, PushContent
  <1>4. /\ next.parser = Some([block EXCEPT !.output = Append(@, line)])
        /\ next.answered = point.answered /\ next.last = point.last
    BY <1>3 DEF After
  <1>5. /\ running' # None /\ running'[1].control = running[1].control
        /\ running'[1].lines = Append(running[1].lines, line)
    BY <1>0 DEF Some, None, RunningBlock
  <1>6. [block EXCEPT !.output = Append(@, line)]
          = [number |-> number', control |-> running'[1].control, output |-> running'[1].lines]
    <2>1. [block EXCEPT !.output = Append(@, line)]
            = [number |-> number, control |-> running[1].control,
               output |-> Append(running[1].lines, line)]
      OBVIOUS
    <2> HIDE DEF block
    <2>2. number' = number
      OBVIOUS
    <2> QED
      BY <1>5, <2>1, <2>2, Zenon
  <1>7. next.parser[1].number = number /\ next.parser # None
    BY <1>4 DEF Some, None
  <1>8. Below(point.last, number + 1) /\ Below(point.last, number) /\ point.answered = Len(served)
    BY <1>1, <1>2 DEF Meets
  <1> HIDE DEF next, block
  <1>9. ~LeftOpen(next)'
    BY <1>5 DEF LeftOpen
  <1>10. Meets(next)'
    BY <1>4, <1>5, <1>6, <1>7, <1>8, <1>9, PointParts DEF Meets
  <1> USE DEF next
  <1>11. ClosesOwn(point, line)
    BY DEF ClosesOwn, ContentLine, Text, Blank
  <1> QED
    BY <1>3, <1>10, <1>11 DEF Sound

LEMMA EndFollows ==
    ASSUME TmuxTypeOK, InStep, NEW kind \in {"end", "error"},
           Serve(IF kind = "end" THEN "ok" ELSE "failed"),
           NEW line, line = GuardLine(kind, number, running[1].control),
           NEW point \in Point, Meets(point)
    PROVE  Sound(point, line)' /\ Meets(After(point, line))'
  <1> DEFINE next == After(point, line)
             block == [number |-> number, control |-> running[1].control,
                       output |-> running[1].lines]
             event == Push(point.parser, line).event
  <1>0. /\ running # None /\ running' = None /\ number' = number
        /\ running[1] \in RunningBlock
    BY OptionCases DEF Serve, TmuxTypeOK, RunningBlock
  <1>1. point.parser = Some(block) /\ ~LeftOpen(point)
    BY <1>0 DEF Meets, LeftOpen
  <1>2. point.parser # None /\ point.parser[1] = block
    BY <1>1 DEF Some, None
  <1>3. Push(point.parser, line).parser = None /\ event = Some(CloseBlock(block, kind = "error"))
    BY <1>2, PushEnd
  <1>4. /\ ClosesControl(event) <=> running[1].control
        /\ event[1].reply = [number |-> number, control |-> running[1].control,
                             output |-> running[1].lines, error |-> (kind = "error")]
    BY <1>3, ClosedBlock
  <1>5. Below(point.last, number + 1) /\ Below(point.last, number) /\ point.answered = Len(served)
    BY <1>1, <1>2 DEF Meets
  <1>6. next.parser = None
    BY <1>3 DEF After
  <1>10. ClosesOwn(point, line)
    BY <1>2 DEF ClosesOwn, GuardLine
  <1>7. ASSUME Below(next.last, number + 1), next.answered = Len(served')
        PROVE  Meets(next)'
    <2>1. ~LeftOpen(next)'
      BY <1>6 DEF LeftOpen
    <2> HIDE DEF next
    <2> QED
      BY <1>0, <1>6, <1>7, <2>1 DEF Meets
  <1>8. CASE ~running[1].control
    <2>1. served' = served
      BY <1>8 DEF Serve
    <2>2. next.last = point.last /\ next.answered = point.answered
      BY <1>4, <1>8 DEF After
    <2>3. Meets(next)'
      BY <1>5, <1>7, <2>1, <2>2
    <2> QED
      BY <1>4, <1>8, <1>10, <2>3 DEF Sound
  <1>9. CASE running[1].control
    <2> DEFINE outcome == [status |-> (IF kind = "end" THEN "ok" ELSE "failed"),
                           lines |-> running[1].lines]
    <2>1. served' = Append(served, outcome)
      BY <1>9 DEF Serve
    <2>2. outcome \in [status : {"ok", "failed", "lost"}, lines : Seq(Line)]
      BY <1>0 DEF RunningBlock
    <2>3. /\ Len(served') = Len(served) + 1 /\ served'[Len(served) + 1] = outcome
          /\ Len(served) \in Nat
      BY <2>1, <2>2, AppendProperties, LenProperties DEF TmuxTypeOK
    <2>4. next.last = Some(number) /\ next.answered = point.answered + 1
      BY <1>4, <1>9 DEF After
    <2>5. Below(next.last, number + 1)
      <3>1. DOMAIN next.last = {1} /\ next.last[1] = number
        BY <2>4 DEF Some
      <3> QED
        BY <3>1, PointParts DEF Below
    <2>6. Meets(next)'
      BY <1>5, <1>7, <2>3, <2>4, <2>5
    <2>7. ResultOf(event[1].reply) = outcome
      <3>0. event[1].reply.error = (kind = "error") /\ event[1].reply.output = running[1].lines
        BY <1>4
      <3> HIDE DEF event
      <3>1. CASE kind = "end"
        <4>1. ~event[1].reply.error
          BY <3>0, <3>1
        <4>2. ResultOf(event[1].reply) = Ok(event[1].reply.output)
          BY <4>1, Zenon DEF ResultOf
        <4> QED
          BY <3>0, <3>1, <4>2 DEF Ok
      <3>2. CASE kind = "error"
        <4>1. event[1].reply.error
          BY <3>0, <3>2
        <4>2. ResultOf(event[1].reply) = Failed(event[1].reply.output)
          BY <4>1, Zenon DEF ResultOf
        <4> QED
          BY <3>0, <3>2, <4>2 DEF Failed
      <3> QED
        BY <3>1, <3>2
    <2>8. Fits(ResultOf(event[1].reply), served'[point.answered + 1])
      BY <1>5, <2>3, <2>7 DEF Fits
    <2>9. Own(event[1].reply.output, point.answered)
      BY <1>0, <1>4, <1>5, <1>9 DEF InStep, InControl
    <2> QED
      BY <1>4, <1>5, <1>10, <2>3, <2>6, <2>8, <2>9 DEF Sound
  <1> QED
    BY <1>8, <1>9

LEMMA NotifyFollows ==
    ASSUME TmuxTypeOK, running = None, UNCHANGED <<number, served, running>>,
           NEW line \in ContentLine, line \in Text => line.body = Server, NEW point \in Point, Meets(point)
    PROVE  Sound(point, line)' /\ Meets(After(point, line))'
  <1> DEFINE next == After(point, line)
  <1>0. ClosesOwn(point, line)
    BY DEF ClosesOwn, ContentLine, Text, Blank
  <1>1. ~ClosesControl(Push(point.parser, line).event)
    BY PushContent
  <1>2. next.last = point.last /\ next.answered = point.answered
    BY <1>1 DEF After
  <1>3. CASE point.parser = None
    <2>1. next.parser = None
      BY <1>3, PushContent DEF After
    <2> HIDE DEF next
    <2>2. ~LeftOpen(point) /\ ~LeftOpen(next)'
      BY <1>3, <2>1 DEF LeftOpen
    <2> QED
      BY <1>0, <1>1, <1>2, <2>1, <2>2 DEF Meets, Sound, next
  <1>4. CASE point.parser # None
    <2> DEFINE block == point.parser[1]
    <2>1. next.parser = Some([block EXCEPT !.output = Append(@, line)])
      BY <1>4, PushContent DEF After
    <2>2. block \in PendingReply
      BY <1>4, PointParts
    <2>3. /\ next.parser # None /\ next.parser[1].number = block.number
          /\ next.parser[1].control = block.control
          /\ next.parser[1].output = Append(block.output, line)
      <3>1. next.parser # None /\ next.parser[1] = [block EXCEPT !.output = Append(@, line)]
        BY <2>1 DEF Some, None
      <3> HIDE DEF next, block
      <3> QED
        BY <2>2, <3>1 DEF PendingReply
    <2>4. LeftOpen(next)' <=> LeftOpen(point)
      <3> HIDE DEF next
      <3> QED
        BY <1>4, <2>3 DEF LeftOpen
    <2>5. ASSUME LeftOpen(point)
          PROVE  /\ IsPrefix(served[Len(served)].lines, Append(block.output, line))
                 /\ Own(Append(block.output, line), point.answered)
      <3>1. /\ point.answered + 1 = Len(served)
            /\ IsPrefix(served[Len(served)].lines, block.output)
            /\ Own(block.output, point.answered)
        BY <2>5 DEF Meets
      <3>2. served[Len(served)].lines \in Seq(Line)
        <4>1. Len(served) \in 1 .. Len(served)
          BY <3>1, PointParts
        <4>2. served \in Seq([status : {"ok", "failed", "lost"}, lines : Seq(Line)])
          BY DEF TmuxTypeOK
        <4>3. served[Len(served)] \in [status : {"ok", "failed", "lost"}, lines : Seq(Line)]
          BY <4>1, <4>2, ElementOfSeq
        <4> QED
          BY <4>3
      <3>3. block.output \in Seq(Line) /\ line \in Line
        <4>1. ContentLine \subseteq Line
          BY DEF ContentLine, Line
        <4>2. block.output \in Seq(ContentLine)
          BY <2>2 DEF PendingReply
        <4> QED
          BY <4>1, <4>2, SeqMonotonic
      <3>4. Own(Append(block.output, line), point.answered)
        <4>1. ToSet(Append(block.output, line)) = ToSet(block.output) \cup {line}
          BY <3>3, AppendElements
        <4> HIDE DEF block
        <4> QED
          BY <3>1, <4>1 DEF Own
      <3> QED
        BY <3>1, <3>2, <3>3, <3>4, PrefixGrows
    <2> HIDE DEF next
    <2>6. Meets(next)'
      BY <1>2, <1>4, <2>3, <2>4, <2>5 DEF Meets
    <2> USE DEF next
    <2> QED
      BY <1>0, <1>1, <2>6 DEF Sound
  <1> QED
    BY <1>3, <1>4

(* A control block whose guard gets lost is left open. *)
LEMMA LoseMeets ==
    ASSUME TmuxTypeOK, InStep, Serve("lost"), NEW point \in Point, Meets(point)
    PROVE  Meets(point)'
  <1> DEFINE block == [number |-> number, control |-> running[1].control,
                       output |-> running[1].lines]
  <1>0. /\ running # None /\ running' = None /\ number' = number
        /\ running[1] \in RunningBlock
    BY OptionCases DEF Serve, TmuxTypeOK, RunningBlock
  <1>1. point.parser = Some(block) /\ ~LeftOpen(point)
    BY <1>0 DEF Meets, LeftOpen
  <1>2. point.parser # None /\ point.parser[1] = block
    BY <1>1 DEF Some, None
  <1>3. /\ Below(point.last, number + 1) /\ Below(point.last, number)
        /\ point.answered = Len(served)
    BY <1>1, <1>2 DEF Meets
  <1>4. CASE ~running[1].control
    <2>1. served' = served /\ ~LeftOpen(point)'
      BY <1>0, <1>2, <1>4 DEF Serve, LeftOpen
    <2> QED
      BY <1>0, <1>2, <1>3, <2>1, PointParts DEF Meets
  <1>5. CASE running[1].control
    <2> DEFINE outcome == [status |-> "lost", lines |-> running[1].lines]
    <2>1. served' = Append(served, outcome)
      BY <1>5 DEF Serve
    <2>2. outcome \in [status : {"ok", "failed", "lost"}, lines : Seq(Line)]
      BY <1>0 DEF RunningBlock
    <2>3. /\ Len(served') = Len(served) + 1 /\ served'[Len(served')] = outcome
          /\ Len(served) \in Nat
      BY <2>1, <2>2, AppendProperties, LenProperties DEF TmuxTypeOK
    <2>4. LeftOpen(point)'
      BY <1>0, <1>2, <1>5 DEF LeftOpen
    <2>5. IsPrefix(served'[Len(served')].lines, point.parser[1].output)
      <3>1. running[1].lines \in Seq(Line)
        BY <1>0 DEF RunningBlock
      <3> QED
        BY <1>2, <2>3, <3>1, PrefixSelf
    <2>6. Own(point.parser[1].output, point.answered)
      BY <1>0, <1>2, <1>3, <1>5 DEF InStep, InControl
    <2> QED
      BY <1>0, <1>2, <1>3, <2>3, <2>4, <2>5, <2>6, PointParts DEF Meets
  <1> QED
    BY <1>4, <1>5

(* The cases above, at the end of the stream on its way: the lines the     *)
(* client has read and not yet fed, and those still in the pipe.           *)
LEMMA ConcatAppend ==
    ASSUME NEW S, NEW s \in Seq(S), NEW t \in Seq(S), NEW x \in S
    PROVE  s \o t \in Seq(S) /\ s \o Append(t, x) = Append(s \o t, x)
  <1>1. /\ s \o t \in Seq(S) /\ Len(s \o t) = Len(s) + Len(t) /\ Len(s) \in Nat /\ Len(t) \in Nat
        /\ \A i \in 1 .. Len(s) + Len(t) : (s \o t)[i] = IF i <= Len(s) THEN s[i] ELSE t[i - Len(s)]
    BY ConcatProperties, LenProperties
  <1>2. /\ Append(t, x) \in Seq(S) /\ Len(Append(t, x)) = Len(t) + 1
        /\ \A i \in 1 .. Len(t) : Append(t, x)[i] = t[i]
        /\ Append(t, x)[Len(t) + 1] = x
    BY AppendProperties
  <1> DEFINE u == Append(t, x)
             v == s \o t
  <1>3. /\ s \o u \in Seq(S) /\ Len(s \o u) = Len(s) + Len(t) + 1
        /\ \A i \in 1 .. Len(s) + (Len(t) + 1) :
             (s \o u)[i] = IF i <= Len(s) THEN s[i] ELSE u[i - Len(s)]
    <2> HIDE DEF u, v
    <2>1. u \in Seq(S) /\ Len(u) = Len(t) + 1
      BY <1>2 DEF u
    <2>2. /\ s \o u \in Seq(S) /\ Len(s \o u) = Len(s) + Len(u)
          /\ \A i \in 1 .. Len(s) + Len(u) :
               (s \o u)[i] = IF i <= Len(s) THEN s[i] ELSE u[i - Len(s)]
      BY <2>1, ConcatProperties
    <2> QED
      BY <1>1, <2>1, <2>2
  <1>4. /\ Append(v, x) \in Seq(S) /\ Len(Append(v, x)) = Len(s) + Len(t) + 1
        /\ \A i \in 1 .. Len(s) + Len(t) : Append(v, x)[i] = v[i]
        /\ Append(v, x)[Len(s) + Len(t) + 1] = x
    BY <1>1, AppendProperties
  <1>5. ASSUME NEW i \in 1 .. Len(s) + Len(t) + 1 PROVE (s \o u)[i] = Append(v, x)[i]
    <2>1. CASE i <= Len(s)
      BY <1>1, <1>3, <1>4, <2>1
    <2>2. CASE i \in Len(s) + 1 .. Len(s) + Len(t)
      <3>1. (s \o u)[i] = u[i - Len(s)] /\ Append(v, x)[i] = v[i] /\ v[i] = t[i - Len(s)]
        BY <1>1, <1>3, <1>4, <2>2
      <3>2. i - Len(s) \in 1 .. Len(t)
        BY <1>1, <2>2
      <3>3. u[i - Len(s)] = t[i - Len(s)]
        BY <1>2, <3>2
      <3> QED
        BY <3>1, <3>3
    <2>3. CASE i = Len(s) + Len(t) + 1
      <3>1. (s \o u)[i] = u[i - Len(s)] /\ i - Len(s) = Len(t) + 1
        BY <1>1, <1>3, <2>3
      <3> QED
        BY <1>2, <1>4, <2>3, <3>1
    <2> QED
      BY <1>1, <2>1, <2>2, <2>3
  <1> HIDE DEF u, v
  <1>6. s \o u = Append(v, x)
    BY <1>1, <1>3, <1>4, <1>5, SeqEqual
  <1> QED
    BY <1>1, <1>6 DEF u, v

LEMMA ConcatCut ==
    ASSUME NEW S, NEW s \in Seq(S), NEW t \in Seq(S), NEW n \in 0 .. Len(t)
    PROVE  /\ s \o t \in Seq(S) /\ Len(s) + n \in 0 .. Len(s \o t)
           /\ s \o SubSeq(t, 1, n) = SubSeq(s \o t, 1, Len(s) + n)
  <1> DEFINE u == SubSeq(t, 1, n)
             v == s \o t
  <1>1. /\ v \in Seq(S) /\ Len(v) = Len(s) + Len(t) /\ Len(s) \in Nat /\ Len(t) \in Nat
        /\ \A i \in 1 .. Len(s) + Len(t) : v[i] = IF i <= Len(s) THEN s[i] ELSE t[i - Len(s)]
    BY ConcatProperties, LenProperties
  <1>2. u \in Seq(S) /\ Len(u) = n /\ \A i \in 1 .. n : u[i] = t[i]
    BY <1>1, SubSeqProperties
  <1> HIDE DEF u, v
  <1>3. /\ s \o u \in Seq(S) /\ Len(s \o u) = Len(s) + n
        /\ \A i \in 1 .. Len(s) + n : (s \o u)[i] = IF i <= Len(s) THEN s[i] ELSE u[i - Len(s)]
    <2>1. /\ s \o u \in Seq(S) /\ Len(s \o u) = Len(s) + Len(u)
          /\ \A i \in 1 .. Len(s) + Len(u) :
               (s \o u)[i] = IF i <= Len(s) THEN s[i] ELSE u[i - Len(s)]
      BY <1>2, ConcatProperties
    <2> QED
      BY <1>2, <2>1
  <1>4. /\ SubSeq(v, 1, Len(s) + n) \in Seq(S) /\ Len(SubSeq(v, 1, Len(s) + n)) = Len(s) + n
        /\ \A i \in 1 .. Len(s) + n : SubSeq(v, 1, Len(s) + n)[i] = v[i]
        /\ Len(s) + n \in 0 .. Len(v)
    BY <1>1, SubSeqProperties
  <1>5. ASSUME NEW i \in 1 .. Len(s) + n PROVE (s \o u)[i] = SubSeq(v, 1, Len(s) + n)[i]
    <2>1. CASE i <= Len(s)
      BY <1>1, <1>3, <1>4, <2>1
    <2>2. CASE ~(i <= Len(s))
      <3>1. i - Len(s) \in 1 .. n /\ (s \o u)[i] = u[i - Len(s)]
        BY <1>1, <1>3, <2>2
      <3>2. v[i] = t[i - Len(s)]
        BY <1>1, <2>2
      <3> QED
        BY <1>2, <1>4, <3>1, <3>2
    <2> QED
      BY <2>1, <2>2
  <1>6. s \o u = SubSeq(v, 1, Len(s) + n)
    BY <1>1, <1>3, <1>4, <1>5, SeqEqual
  <1> QED
    BY <1>1, <1>4, <1>6 DEF u, v

LEMMA WriteStep ==
    ASSUME TmuxTypeOK, TmuxTypeOK', NEW pre \in Seq(Line), StreamFits(pre \o toClient),
           ServedGrows, Here' = Here, alive, NEW line \in Line, Write(line),
           \A point \in Point : Meets(point) => Sound(point, line)' /\ Meets(After(point, line))'
    PROVE  StreamFits(pre \o toClient)'
  <1>1. PICK s \in Seq(Line) : s = toClient
    BY DEF TmuxTypeOK
  <1>2. pre \o s \in Seq(Line) /\ pre \o Append(s, line) = Append(pre \o s, line)
    BY ConcatAppend
  <1>3. StreamFits(pre \o s)
    BY <1>1, Zenon
  <1>4. StreamFits(Append(pre \o s, line))'
    BY <1>2, <1>3, StreamGrows
  <1>5. toClient' = Append(s, line)
    BY <1>1 DEF Write
  <1> QED
    BY <1>2, <1>4, <1>5, Zenon

LEMMA SilentStep ==
    ASSUME TmuxTypeOK, TmuxTypeOK', NEW pre \in Seq(Line), StreamFits(pre \o toClient),
           ServedGrows, Here' = Here, toClient' = toClient, alive' => alive,
           \A point \in Point : alive' /\ Meets(point) => Meets(point)'
    PROVE  StreamFits(pre \o toClient)'
  <1>1. PICK s \in Seq(Line) : s = toClient
    BY DEF TmuxTypeOK
  <1>2. StreamFits(pre \o s)
    BY <1>1, Zenon
  <1>3. pre \o s \in Seq(Line)
    BY ConcatProperties
  <1>4. StreamFits(pre \o s)'
    BY <1>2, <1>3, StreamStays
  <1> QED
    BY <1>1, <1>4, Zenon

LEMMA ServeGrows ==
    ASSUME TmuxTypeOK, NEW status \in {"ok", "failed", "lost"}, Serve(status)
    PROVE  ServedGrows
  <1>1. running # None /\ running[1] \in RunningBlock
    BY OptionCases DEF Serve, TmuxTypeOK, RunningBlock
  <1>2. CASE running[1].control
    <2> DEFINE outcome == [status |-> status, lines |-> running[1].lines]
    <2>1. outcome \in [status : {"ok", "failed", "lost"}, lines : Seq(Line)]
      BY <1>1 DEF RunningBlock
    <2>2. served' = Append(served, outcome)
      BY <1>2 DEF Serve
    <2> HIDE DEF outcome
    <2> QED
      BY <2>1, <2>2, AppendProperties, LenProperties DEF TmuxTypeOK, ServedGrows
  <1>3. CASE ~running[1].control
    BY <1>3, LenProperties DEF Serve, ServedGrows, TmuxTypeOK
  <1> QED
    BY <1>2, <1>3

LEMMA StreamStep ==
    ASSUME TmuxTypeOK, InStep, TmuxNext, UNCHANGED engineVars,
           running' # None => running'[1].lines \in Seq(ContentLine),
           NEW pre \in Seq(Line), StreamFits(pre \o toClient)
    PROVE  StreamFits(pre \o toClient)'
  <1>1. TmuxTypeOK' /\ Here' = Here
    BY TmuxStepType DEF Here, Answered, engineVars
  <1>2. ASSUME served' = served PROVE ServedGrows
    BY <1>2, LenProperties DEF TmuxTypeOK, ServedGrows
  <1>3. \A kind \in {"output", "text"}, body \in Body : [kind |-> kind, body |-> body] \in ContentLine
    BY DEF ContentLine, Text
  <1>4. ContentLine \subseteq Line
    BY DEF ContentLine, Line
  <1>5. ASSUME NEW control \in BOOLEAN, NEW owner, Open(control, owner), served' = served
        PROVE  StreamFits(pre \o toClient)'
    <2>1. GuardLine("begin", number + 1, control) \in Line
      BY <1>5, GuardLineIsLine DEF Open, GuardKind
    <2>2. PICK line \in Line : line = GuardLine("begin", number + 1, control)
      BY <2>1
    <2>3. Write(line) /\ alive
      BY <1>5, <2>2 DEF Open
    <2>4. \A point \in Point : Meets(point) => Sound(point, line)' /\ Meets(After(point, line))'
      BY <1>5, <2>2, BeginFollows
    <2> QED
      BY <1>1, <1>2, <1>5, <2>3, <2>4, WriteStep
  <1>6. CASE Begin
    BY <1>5, <1>6 DEF Begin
  <1>7. CASE BeginInternal
    BY <1>5, <1>7 DEF BeginInternal
  <1>8. CASE PrintLine
    <2>1. running # None /\ running[1] \in RunningBlock
      BY <1>8, OptionCases DEF PrintLine, TmuxTypeOK, RunningBlock
    <2>2. PICK line \in Printable(running[1].owner) :
             running' = Some([running[1] EXCEPT !.lines = Append(@, line)]) /\ Write(line)
      BY <1>8 DEF PrintLine
    <2>3. line \in ContentLine
      <3>1. running' # None /\ running'[1].lines = Append(running[1].lines, line)
        BY <2>1, <2>2 DEF Some, None, RunningBlock
      <3>2. line \in Line /\ running[1].lines \in Seq(Line)
        BY <2>1, <2>2, PrintableIsLine DEF RunningBlock
      <3>3. line \in ToSet(running'[1].lines)
        BY <3>1, <3>2, AppendElements
      <3> QED
        BY <3>1, <3>3 DEF ToSet
    <2>4. alive /\ UNCHANGED <<number, served>>
      BY <1>8 DEF PrintLine
    <2>5. \A point \in Point : Meets(point) => Sound(point, line)' /\ Meets(After(point, line))'
      BY <2>1, <2>2, <2>3, <2>4, PrintFollows
    <2> QED
      BY <1>1, <1>2, <1>4, <2>2, <2>3, <2>4, <2>5, WriteStep
  <1>9. CASE End
    <2>1. PICK kind \in {"end", "error"} :
             /\ Serve(IF kind = "end" THEN "ok" ELSE "failed")
             /\ Write(GuardLine(kind, number, running[1].control))
      BY <1>9 DEF End
    <2>2. running # None /\ alive
      BY <2>1 DEF Serve
    <2>3. GuardLine(kind, number, running[1].control) \in Line
      <3>1. running[1].control \in BOOLEAN /\ kind \in GuardKind /\ number \in Number
        <4>1. running[1] \in RunningBlock /\ number \in Number
          BY <2>2, OptionCases DEF TmuxTypeOK, RunningBlock
        <4> QED
          BY <4>1 DEF GuardKind, RunningBlock
      <3> QED
        BY <3>1, GuardLineIsLine
    <2>4. PICK line \in Line : line = GuardLine(kind, number, running[1].control)
      BY <2>3
    <2>5. \A point \in Point : Meets(point) => Sound(point, line)' /\ Meets(After(point, line))'
      BY <2>1, <2>4, EndFollows
    <2>6. ServedGrows
      BY <2>1, ServeGrows
    <2> QED
      BY <1>1, <2>1, <2>2, <2>4, <2>5, <2>6, WriteStep
  <1>10. CASE LoseEnd
    <2>1. Serve("lost") /\ toClient' = toClient
      BY <1>10 DEF LoseEnd
    <2>2. ServedGrows /\ alive
      BY <2>1, ServeGrows DEF Serve
    <2>3. \A point \in Point : Meets(point) => Meets(point)'
      BY <2>1, LoseMeets
    <2> QED
      BY <1>1, <2>1, <2>2, <2>3, SilentStep
  <1>11. CASE Notify
    <2>1. PICK kind \in {"output", "text"} : Write([kind |-> kind, body |-> Server])
      BY <1>11, NotifyWrites
    <2>2. PICK line \in ContentLine : line = [kind |-> kind, body |-> Server]
      BY <1>3, TmuxAssumption
    <2>3. alive /\ running = None /\ UNCHANGED <<number, served, running>> /\ line.body = Server
      BY <1>11, <2>2 DEF Notify
    <2>4. \A point \in Point : Meets(point) => Sound(point, line)' /\ Meets(After(point, line))'
      BY <2>3, NotifyFollows
    <2> QED
      BY <1>1, <1>2, <1>4, <2>1, <2>2, <2>3, <2>4, WriteStep
  <1>12. CASE Detach
    <2>1. ~alive' /\ toClient' = toClient /\ served' = served
      BY <1>12, Zenon DEF Detach
    <2> QED
      BY <1>1, <1>2, <2>1, SilentStep
  <1>13. CASE Exit
    <2>1. ~alive' /\ served' = served
      BY <1>13, Zenon DEF Exit
    <2>2. CASE ~Buffered
      <3>1. toClient' = toClient
        BY <1>13, <2>2 DEF Exit
      <3> QED
        BY <1>1, <1>2, <2>1, <3>1, SilentStep
    <2>3. CASE Buffered
      <3>1. PICK n \in PipeSize .. Len(toClient) : toClient' = SubSeq(toClient, 1, n)
        BY <1>13, <2>3 DEF Exit
      <3>2. PICK s \in Seq(Line) : s = toClient
        BY DEF TmuxTypeOK
      <3>3. n \in 0 .. Len(s) /\ toClient' = SubSeq(s, 1, n)
        BY <3>1, <3>2, TmuxAssumption, LenProperties
      <3>4. StreamFits(pre \o s)
        BY <3>2, Zenon
      <3>5. /\ pre \o s \in Seq(Line) /\ Len(pre) + n \in 0 .. Len(pre \o s)
            /\ pre \o SubSeq(s, 1, n) = SubSeq(pre \o s, 1, Len(pre) + n)
        BY <3>3, ConcatCut
      <3>6. StreamFits(SubSeq(pre \o s, 1, Len(pre) + n))'
        BY <1>1, <1>2, <2>1, <3>4, <3>5, StreamEnds
      <3> QED
        BY <3>3, <3>5, <3>6, Zenon
    <2> QED
      BY <2>2, <2>3
  <1> QED
    BY <1>6, <1>7, <1>8, <1>9, <1>10, <1>11, <1>12, <1>13 DEF TmuxNext

----------------------------------------------------------------------------
(* What the client reads of it. *)

LEMMA HereIsPoint == ASSUME IInv PROVE Here \in Point
  <1>1. Len(pending) \in Nat /\ Len(pending) <= next_id /\ next_id \in 0 .. MaxCommands
    BY LenProperties DEF IInv, TypeOK, FifoIntact
  <1>2. Answered \in Nat
    BY <1>1, BoundAssumption DEF Answered
  <1> QED
    BY <1>2 DEF Here, Point, IInv, TypeOK

(* A line that closes a control block answers the oldest command with the  *)
(* outcome of that very command, and the assertion holds.                  *)
LEMMA LineAnswers ==
    ASSUME IInv, NEW line \in Line, OnLine(line), Sound(Here, line), Len(served) <= next_id,
           TmuxTypeOK
    PROVE  /\ Here' = After(Here, line) /\ panicked' = panicked
           /\ \/ RepliesIn(incoming') = {} /\ Answered' = Answered
              \/ \E result \in CommandResult :
                   /\ incoming' = << IncomingReply(Answered, result) >>
                   /\ result # Disconnected /\ Answered < Len(served)
                   /\ Fits(result, served[Answered + 1]) /\ Answered' = Answered + 1
                   /\ Own(result.lines, Answered)
  <1> DEFINE event == Push(parser, line).event
             reply == event[1].reply
  <1>1. /\ Surface(event) /\ parser' = Push(parser, line).parser /\ next_id' = next_id
        /\ event \in Option(Event) /\ pending \in Seq(CommandId) /\ next_id \in Nat
        /\ Len(pending) \in Nat
    <2>1. next_id \in Nat
      BY BoundAssumption DEF IInv, TypeOK
    <2> QED
      BY <2>1, PushType, LenProperties DEF OnLine, IInv, TypeOK
  <1>2. /\ Here.parser = parser /\ Here.answered = Answered /\ Here.last = last_number
        /\ Answered \in Int
    BY <1>1 DEF Here, Answered
  <1>3. ASSUME ~ClosesControl(event), UNCHANGED <<pending, last_number, panicked>>,
               RepliesIn(incoming') = {}
        PROVE  /\ Here' = After(Here, line) /\ panicked' = panicked
               /\ RepliesIn(incoming') = {} /\ Answered' = Answered
    <2>1. Answered' = Answered
      BY <1>1, <1>3 DEF Answered
    <2>2. After(Here, line) = [parser |-> parser', answered |-> Answered, last |-> last_number]
      BY <1>1, <1>2, <1>3 DEF After
    <2> QED
      BY <1>3, <2>1, <2>2 DEF Here
  <1>4. CASE event = None /\ PassOver
    <2>1. ~ClosesControl(event)
      BY <1>4 DEF ClosesControl
    <2> HIDE DEF event
    <2> QED
      BY <1>3, <1>4, <2>1, NoneSurfaced DEF PassOver
  <1>5. CASE /\ event # None /\ event[1].type = "notification"
             /\ incoming' = << IncomingNotification(event[1].line) >>
             /\ UNCHANGED <<pending, last_number, panicked>>
    <2>1. ~ClosesControl(event)
      BY <1>5 DEF ClosesControl
    <2>2. RepliesIn(incoming') = {}
      BY <1>5 DEF RepliesIn, IncomingNotification
    <2> HIDE DEF event
    <2> QED
      BY <1>3, <1>5, <2>1, <2>2
  <1>6. CASE event # None /\ event[1].type = "reply" /\ ~reply.control /\ PassOver
    <2>1. ~ClosesControl(event)
      BY <1>6 DEF ClosesControl
    <2> HIDE DEF event
    <2> QED
      BY <1>3, <1>6, <2>1, NoneSurfaced DEF PassOver
  <1>7. CASE /\ event # None /\ event[1].type = "reply" /\ reply.control
             /\ Tripwire(reply) \/ PopFront(reply)
    <2>1. ClosesControl(event)
      BY <1>7 DEF ClosesControl
    <2>2. /\ Below(last_number, reply.number) /\ Answered < Len(served)
          /\ Fits(ResultOf(reply), served[Answered + 1])
          /\ Own(reply.output, Answered)
      BY <1>2, <2>1, Zenon DEF Sound
    <2>3. reply \in Reply
      BY <1>1, <1>7, OptionCases DEF Event
    <2>4. Increasing(reply.number)
      <3>1. reply.number \in Nat
        BY <2>3, NumberAssumption DEF Reply
      <3>2. \A k \in DOMAIN last_number : last_number[k] \in Nat
        BY <1>2, HereIsPoint, PointParts
      <3> HIDE DEF reply
      <3> QED
        BY <2>2, <3>1, <3>2 DEF Below, Increasing
    <2>5. PopFront(reply)
      BY <1>7, <2>4, Zenon DEF Tripwire
    <2>6. Len(pending) > 0 /\ pending # << >>
      <3>1. Len(pending) > 0
        BY <1>1, <2>2, LenProperties DEF Answered, TmuxTypeOK
      <3> QED
        BY <3>1
    <2> HIDE DEF reply, event
    <2>7. /\ incoming' = << IncomingReply(Head(pending), ResultOf(reply)) >>
          /\ pending' = Tail(pending) /\ last_number' = Some(reply.number)
          /\ panicked' = panicked
      BY <2>5, <2>6 DEF PopFront
    <2>8. Head(pending) = Answered /\ Answered' = Answered + 1
      <3>1. Head(pending) = pending[1] /\ Len(Tail(pending)) = Len(pending) - 1
        BY <1>1, <2>6, HeadTailProperties
      <3>2. pending[1] = Answered
        BY <1>1, <1>2, <2>6 DEF IInv, FifoIntact
      <3>3. Len(pending') = Len(pending) - 1 /\ next_id' = next_id
        BY <1>1, <2>7, <3>1
      <3>4. Answered' = Answered + 1
        BY <1>1, <3>3 DEF Answered
      <3> QED
        BY <3>1, <3>2, <3>4
    <2>9. After(Here, line) = [parser |-> parser', answered |-> Answered + 1,
                               last |-> Some(reply.number)]
      BY <1>1, <1>2, <2>1 DEF After, event, reply
    <2>10. Here' = After(Here, line)
      BY <2>7, <2>8, <2>9 DEF Here
    <2>11. ResultOf(reply) \in CommandResult /\ ResultOf(reply) # Disconnected
      BY <2>3 DEF ResultOf, Ok, Failed, Disconnected, CommandResult, Reply
    <2>12. ResultOf(reply).lines = reply.output
      BY DEF ResultOf, Ok, Failed
    <2> QED
      BY <2>2, <2>7, <2>8, <2>10, <2>11, <2>12
  <1> QED
    BY <1>1, <1>4, <1>5, <1>6, <1>7, Zenon DEF Surface, Correlate

(* The next line of a stream that fits is one the engine can take.         *)
LEMMA FirstSound ==
    ASSUME NEW s \in Seq(Line), s # << >>, StreamFits(s)
    PROVE  Sound(Here, Head(s)) /\ Head(s) \in Line
  <1>1. PICK t \in [0 .. Len(s) -> Point] : t[0] = Here /\ Leads(t, s)
    BY DEF StreamFits
  <1>2. 1 \in 1 .. Len(s) /\ Head(s) = s[1] /\ s[1] \in Line
    BY HeadTailProperties, EmptySeq, ElementOfSeq
  <1>3. Sound(t[1 - 1], s[1])
    BY <1>1, <1>2 DEF Leads
  <1> QED
    BY <1>1, <1>2, <1>3

LEMMA LineStep ==
    ASSUME IInv, TmuxTypeOK, NEW s \in Seq(Line), s # << >>, StreamFits(s), OnLine(Head(s)),
           Len(served) <= next_id, UNCHANGED <<alive, number, running, served>>
    PROVE  /\ StreamFits(Tail(s))' /\ panicked' = panicked
           /\ \/ RepliesIn(incoming') = {} /\ Answered' = Answered
              \/ \E result \in CommandResult :
                   /\ incoming' = << IncomingReply(Answered, result) >>
                   /\ result # Disconnected /\ Answered < Len(served)
                   /\ Fits(result, served[Answered + 1]) /\ Answered' = Answered + 1
                   /\ Own(result.lines, Answered)
  <1>1. PICK t \in [0 .. Len(s) -> Point] :
           t[0] = Here /\ Leads(t, s) /\ (alive => Meets(t[Len(s)]))
    BY DEF StreamFits
  <1>2. /\ Len(s) \in Nat \ {0} /\ Head(s) = s[1] /\ s[1] \in Line
        /\ Tail(s) \in Seq(Line) /\ Len(Tail(s)) = Len(s) - 1
        /\ \A i \in 1 .. Len(s) - 1 : Tail(s)[i] = s[i + 1]
    BY HeadTailProperties, EmptySeq, ElementOfSeq
  <1>3. t[1] = After(Here, Head(s)) /\ Sound(Here, Head(s))
    <2>1. 1 \in 1 .. Len(s)
      BY <1>2
    <2>2. t[1] = After(t[1 - 1], s[1]) /\ Sound(t[1 - 1], s[1])
      BY <1>1, <2>1 DEF Leads
    <2> QED
      BY <1>1, <1>2, <2>2
  <1>4. /\ Here' = t[1] /\ panicked' = panicked
        /\ \/ RepliesIn(incoming') = {} /\ Answered' = Answered
           \/ \E result \in CommandResult :
                /\ incoming' = << IncomingReply(Answered, result) >>
                /\ result # Disconnected /\ Answered < Len(served)
                /\ Fits(result, served[Answered + 1]) /\ Answered' = Answered + 1
                /\ Own(result.lines, Answered)
    BY <1>2, <1>3, LineAnswers
  <1> DEFINE u == [i \in 0 .. Len(s) - 1 |-> t[i + 1]]
  <1>5. /\ u \in [0 .. Len(s) - 1 -> Point]
        /\ \A i \in 0 .. Len(s) - 1 : u[i] = t[i + 1]
    BY <1>2
  <1> HIDE DEF u
  <1>6. Leads(u, Tail(s))'
    <2> SUFFICES ASSUME NEW i \in 1 .. Len(s) - 1
                 PROVE  u[i] = After(u[i - 1], Tail(s)[i]) /\ Sound(u[i - 1], Tail(s)[i])'
      BY <1>2 DEF Leads
    <2>1. /\ u[i] = t[i + 1] /\ u[i - 1] = t[i] /\ Tail(s)[i] = s[i + 1]
          /\ i + 1 \in 1 .. Len(s)
      BY <1>2, <1>5
    <2>2. t[i + 1] = After(t[i], s[i + 1]) /\ Sound(t[i], s[i + 1])
      <3>1. t[i + 1] = After(t[(i + 1) - 1], s[i + 1]) /\ Sound(t[(i + 1) - 1], s[i + 1])
        BY <1>1, <2>1 DEF Leads
      <3>2. (i + 1) - 1 = i
        BY <1>2
      <3> QED
        BY <3>1, <3>2
    <2>3. Sound(t[i], s[i + 1])'
      BY <2>2 DEF Sound
    <2> QED
      BY <2>1, <2>2, <2>3
  <1>7. alive' => Meets(u[Len(s) - 1])'
    <2>1. u[Len(s) - 1] = t[Len(s)]
      BY <1>2, <1>5
    <2> QED
      BY <1>1, <2>1 DEF Meets, LeftOpen
  <1>8. u[0] = Here'
    BY <1>2, <1>4, <1>5
  <1> QED
    BY <1>2, <1>4, <1>5, <1>6, <1>7, <1>8 DEF StreamFits

(* tmux executes at most one command at a time, the oldest sent that it    *)
(* has not served; no guard lost so far, with a plain outcome.             *)
LEMMA PeerExecutes ==
    ASSUME IInv, TmuxTypeOK, InStep, TmuxNext, PlainLines', lost' = 0
    PROVE  \/ served' = served
           \/ /\ Len(served) < next_id /\ Len(served') = Len(served) + 1
              /\ SubSeq(served', 1, Len(served)) = served
              /\ served' \in Seq(PlainOutcome)
  <1>1. CASE served' = served
    BY <1>1
  <1>2. ASSUME InControl, NEW outcome \in Outcome, served' = Append(served, outcome)
        PROVE  /\ Len(served) < next_id /\ Len(served') = Len(served) + 1
               /\ SubSeq(served', 1, Len(served)) = served
    <2>1. Len(served) < next_id
      BY <1>2, InStepCounts
    <2>2. served \in Seq(Outcome)
      BY DEF TmuxTypeOK, Outcome
    <2>3. /\ served' \in Seq(Outcome) /\ Len(served') = Len(served) + 1 /\ Len(served) \in Nat
          /\ \A i \in 1 .. Len(served) : served'[i] = served[i]
      BY <1>2, <2>2, AppendProperties, LenProperties
    <2>4. \A i \in 1 .. Len(served) : served'[i] \in Outcome
      <3>1. 1 .. Len(served) \subseteq 1 .. Len(served')
        BY <2>3
      <3> QED
        BY <2>3, <3>1, ElementOfSeq
    <2>5. /\ SubSeq(served', 1, Len(served)) \in Seq(Outcome)
          /\ Len(SubSeq(served', 1, Len(served))) = Len(served)
          /\ \A i \in 1 .. Len(served) : SubSeq(served', 1, Len(served))[i] = served'[i]
      BY <2>3, <2>4, SubSeqProperties
    <2> QED
      BY <2>1, <2>2, <2>3, <2>5, SeqEqual
  <1>3. served' \in Seq(PlainOutcome)
    BY DEF PlainLines
  <1> QED
    BY <1>1, <1>2, <1>3, PeerServes

(* A reply is right for a command if it is the outcome tmux served for it, *)
(* and carries nothing some other command printed; and stays so.           *)
Right(id, result) ==
    result # Disconnected =>
      id < Len(served) /\ Fits(result, served[id + 1]) /\ Own(result.lines, id)

LEMMA StaysRight ==
    ASSUME TmuxTypeOK, ServedGrows, NEW id \in Nat, NEW result, Right(id, result),
           Len(served') \in Nat
    PROVE  Right(id, result)'
  <1> SUFFICES ASSUME result # Disconnected
               PROVE  id < Len(served') /\ Fits(result, served'[id + 1]) /\ Own(result.lines, id)
    BY DEF Right
  <1>1. id < Len(served) /\ Fits(result, served[id + 1]) /\ Own(result.lines, id)
    BY DEF Right
  <1>2. Len(served) \in Nat
    BY LenProperties DEF TmuxTypeOK
  <1>3. id + 1 \in 1 .. Len(served)
    BY <1>1, <1>2
  <1>4. served'[id + 1] = served[id + 1] /\ id < Len(served')
    BY <1>1, <1>2, <1>3 DEF ServedGrows
  <1> QED
    BY <1>1, <1>4

(* Until a guard gets lost, a reply that is right is the outcome.          *)
LEMMA RightIsOutcome ==
    ASSUME TmuxTypeOK, PlainLines, lost = 0, NEW id \in Nat, NEW result, result # Disconnected,
           Right(id, result)
    PROVE  id < Len(served) /\ result = served[id + 1]
  <1>1. id < Len(served) /\ Fits(result, served[id + 1])
    BY DEF Right
  <1>2. served \in Seq(PlainOutcome) /\ Len(served) \in Nat
    BY LenProperties DEF PlainLines, TmuxTypeOK
  <1>3. served[id + 1] \in PlainOutcome
    <2>1. id + 1 \in 1 .. Len(served)
      BY <1>1, <1>2
    <2> QED
      BY <1>2, <2>1, ElementOfSeq
  <1>4. served[id + 1].status # "lost"
    BY <1>3 DEF PlainOutcome
  <1> QED
    BY <1>1, <1>4 DEF Fits

----------------------------------------------------------------------------
(* The stream as a driver moves it: it reads a chunk of lines off the pipe *)
(* and feeds it to the engine line by line.                                *)

LEMMA ConcatHead ==
    ASSUME NEW S, NEW s \in Seq(S), s # << >>, NEW t \in Seq(S)
    PROVE  /\ s \o t \in Seq(S) /\ s \o t # << >>
           /\ Head(s \o t) = Head(s) /\ Tail(s \o t) = Tail(s) \o t
  <1>1. /\ s \o t \in Seq(S) /\ Len(s \o t) = Len(s) + Len(t)
        /\ \A i \in 1 .. Len(s) + Len(t) : (s \o t)[i] = IF i <= Len(s) THEN s[i] ELSE t[i - Len(s)]
    BY ConcatProperties
  <1>2. /\ Head(s) = s[1] /\ Tail(s) \in Seq(S) /\ Len(Tail(s)) = Len(s) - 1
        /\ \A i \in 1 .. Len(Tail(s)) : Tail(s)[i] = s[i + 1]
        /\ Len(s) \in Nat \ {0} /\ Len(t) \in Nat
    BY HeadTailProperties, LenProperties, EmptySeq
  <1> DEFINE u == s \o t
             v == Tail(s) \o t
  <1>3. u \in Seq(S) /\ Len(u) = Len(s) + Len(t) /\ u # << >>
    <2>1. Len(<< >>) = 0
      OBVIOUS
    <2> QED
      BY <1>1, <1>2, <2>1
  <1>4. /\ v \in Seq(S) /\ Len(v) = Len(Tail(s)) + Len(t)
        /\ \A i \in 1 .. Len(Tail(s)) + Len(t) :
             v[i] = IF i <= Len(Tail(s)) THEN Tail(s)[i] ELSE t[i - Len(Tail(s))]
    BY <1>2, ConcatProperties
  <1> HIDE DEF u, v
  <1>5. /\ Head(u) = u[1] /\ Tail(u) \in Seq(S) /\ Len(Tail(u)) = Len(u) - 1
        /\ \A i \in 1 .. Len(Tail(u)) : Tail(u)[i] = u[i + 1]
    BY <1>3, HeadTailProperties
  <1>6. Head(u) = Head(s)
    BY <1>1, <1>2, <1>5 DEF u
  <1>7. ASSUME NEW i \in 1 .. Len(s) + Len(t) - 1 PROVE Tail(u)[i] = v[i]
    <2>1. Tail(u)[i] = u[i + 1] /\ i + 1 \in 1 .. Len(s) + Len(t)
      BY <1>2, <1>3, <1>5
    <2>2. CASE i + 1 <= Len(s)
      <3>1. Tail(u)[i] = s[i + 1]
        BY <1>1, <2>1, <2>2 DEF u
      <3>2. i \in 1 .. Len(Tail(s)) /\ v[i] = Tail(s)[i]
        BY <1>2, <1>4, <2>2
      <3> QED
        BY <1>2, <3>1, <3>2
    <2>3. CASE ~(i + 1 <= Len(s))
      <3>1. Tail(u)[i] = t[i + 1 - Len(s)]
        BY <1>1, <2>1, <2>3 DEF u
      <3>2. v[i] = t[i - Len(Tail(s))] /\ i - Len(Tail(s)) = i + 1 - Len(s)
        BY <1>2, <1>4, <2>3
      <3> QED
        BY <3>1, <3>2
    <2> QED
      BY <2>2, <2>3
  <1>8. Tail(u) = v
    BY <1>2, <1>3, <1>4, <1>5, <1>7, SeqEqual
  <1> QED
    BY <1>3, <1>6, <1>8 DEF u, v

LEMMA ConcatSplit ==
    ASSUME NEW S, NEW s \in Seq(S), NEW n \in 1 .. Len(s)
    PROVE  /\ SubSeq(s, 1, n) \in Seq(S) /\ SubSeq(s, n + 1, Len(s)) \in Seq(S)
           /\ SubSeq(s, 1, n) \o SubSeq(s, n + 1, Len(s)) = s
  <1> DEFINE u == SubSeq(s, 1, n)
             v == SubSeq(s, n + 1, Len(s))
  <1>1. Len(s) \in Nat /\ n \in Nat /\ n <= Len(s)
    BY LenProperties
  <1>2. u \in Seq(S) /\ Len(u) = n /\ \A i \in 1 .. n : u[i] = s[i]
    BY <1>1, SubSeqProperties
  <1>3. /\ v \in Seq(S) /\ Len(v) = Len(s) - n
        /\ \A i \in 1 .. Len(s) - n : v[i] = s[n + i]
    <2>1. CASE n = Len(s)
      BY <1>1, <2>1, SubSeqProperties
    <2>2. CASE n < Len(s)
      BY <1>1, <2>2, SubSeqProperties
    <2> QED
      BY <1>1, <2>1, <2>2
  <1> HIDE DEF u, v
  <1>4. /\ u \o v \in Seq(S) /\ Len(u \o v) = Len(u) + Len(v)
        /\ \A i \in 1 .. Len(u) + Len(v) : (u \o v)[i] = IF i <= Len(u) THEN u[i] ELSE v[i - Len(u)]
    BY <1>2, <1>3, ConcatProperties
  <1>5. ASSUME NEW i \in 1 .. Len(s) PROVE (u \o v)[i] = s[i]
    <2>1. CASE i <= n
      BY <1>1, <1>2, <1>3, <1>4, <2>1
    <2>2. CASE ~(i <= n)
      <3>1. i - n \in 1 .. Len(s) - n /\ (u \o v)[i] = v[i - n]
        BY <1>1, <1>2, <1>3, <1>4, <2>2
      <3>2. v[i - n] = s[n + (i - n)] /\ n + (i - n) = i
        BY <1>1, <1>3, <3>1
      <3> QED
        BY <3>1, <3>2
    <2> QED
      BY <2>1, <2>2
  <1>6. u \o v = s
    <2>1. u \o v \in Seq(S) /\ Len(u \o v) = Len(s)
      BY <1>1, <1>2, <1>3, <1>4
    <2>2. \A i \in 1 .. Len(u \o v) : (u \o v)[i] = s[i]
      BY <1>5, <2>1
    <2> QED
      BY <2>1, <2>2, SeqEqual
  <1> QED
    BY <1>2, <1>3, <1>6 DEF u, v

(* The client goes on, and neither reads nor feeds. *)
LEMMA StreamWaits ==
    ASSUME TmuxTypeOK, TmuxTypeOK', NEW pre \in Seq(Line), StreamFits(pre \o toClient),
           Here' = Here, UNCHANGED <<toClient, alive, number, running, served>>
    PROVE  StreamFits(pre \o toClient)'
  <1>1. ServedGrows
    BY LenProperties DEF TmuxTypeOK, ServedGrows
  <1>2. \A point \in Point : alive' /\ Meets(point) => Meets(point)'
    BY DEF Meets, LeftOpen
  <1> QED
    BY <1>1, <1>2, SilentStep

(* A read moves lines from the pipe to the chunk, in their order.          *)
LEMMA StreamIsRead ==
    ASSUME TmuxTypeOK, TmuxTypeOK', StreamFits(<< >> \o toClient), NEW n \in 1 .. Len(toClient),
           NEW pre, pre = SubSeq(toClient, 1, n),
           toClient' = SubSeq(toClient, n + 1, Len(toClient)),
           Here' = Here, UNCHANGED <<alive, number, running, served>>
    PROVE  StreamFits(pre \o toClient)'
  <1>1. PICK s \in Seq(Line) : s = toClient
    BY DEF TmuxTypeOK
  <1>2. << >> \o s = s
    BY ConcatEmptySeq
  <1>3. StreamFits(s)
    BY <1>1, <1>2, Zenon
  <1>4. ServedGrows
    BY LenProperties DEF TmuxTypeOK, ServedGrows
  <1>5. \A point \in Point : alive' /\ Meets(point) => Meets(point)'
    BY DEF Meets, LeftOpen
  <1>6. StreamFits(s)'
    BY <1>3, <1>4, <1>5, StreamStays
  <1>7. pre \o toClient' = s
    BY <1>1, ConcatSplit
  <1> QED
    BY <1>6, <1>7, Zenon

(* Feeding the next line of the chunk answers, if anything, the oldest     *)
(* command, and answers it right.                                          *)
LEMMA StreamIsFed ==
    ASSUME IInv, TmuxTypeOK, TmuxTypeOK', InStep, NEW pre \in Seq(Line), pre # << >>,
           StreamFits(pre \o toClient), OnLine(Head(pre)),
           UNCHANGED <<toClient, alive, number, running, served>>
    PROVE  /\ StreamFits(Tail(pre) \o toClient)' /\ panicked' = panicked
           /\ \/ RepliesIn(incoming') = {} /\ Answered' = Answered
              \/ \E result \in CommandResult :
                   /\ incoming' = << IncomingReply(Answered, result) >>
                   /\ result # Disconnected /\ Answered' = Answered + 1
           /\ \A x \in ToSet(incoming') : x.type = "reply" => Right(x.id, x.result)
  <1>1. PICK t \in Seq(Line) : t = toClient
    BY DEF TmuxTypeOK
  <1>2. PICK s \in Seq(Line) : s = pre \o t
    BY ConcatHead
  <1>3. s # << >> /\ Head(s) = Head(pre) /\ Tail(s) = Tail(pre) \o t
    BY <1>2, ConcatHead
  <1>4. StreamFits(s)
    BY <1>1, <1>2, Zenon
  <1>5. Len(served) <= next_id
    BY InStepCounts
  <1>6. OnLine(Head(s))
    BY <1>3, Zenon
  <1>7. /\ StreamFits(Tail(s))' /\ panicked' = panicked
        /\ \/ RepliesIn(incoming') = {} /\ Answered' = Answered
           \/ \E result \in CommandResult :
                /\ incoming' = << IncomingReply(Answered, result) >>
                /\ result # Disconnected /\ Answered < Len(served)
                /\ Fits(result, served[Answered + 1]) /\ Answered' = Answered + 1
                /\ Own(result.lines, Answered)
    BY <1>3, <1>4, <1>5, <1>6, LineStep
  <1>8. StreamFits(Tail(pre) \o toClient)'
    <2>1. Tail(s) = Tail(pre) \o toClient'
      BY <1>1, <1>3
    <2> QED
      BY <1>7, <2>1, Zenon
  <1>9. ASSUME NEW x \in ToSet(incoming'), x.type = "reply" PROVE Right(x.id, x.result)
    <2>1. CASE RepliesIn(incoming') = {}
      BY <1>9, <2>1 DEF RepliesIn, ToSet
    <2>2. ASSUME NEW result \in CommandResult,
                 incoming' = << IncomingReply(Answered, result) >>,
                 Answered < Len(served), Fits(result, served[Answered + 1]),
                 Own(result.lines, Answered)
          PROVE  Right(x.id, x.result)
      <3>1. x = IncomingReply(Answered, result)
        BY <1>9, <2>2 DEF ToSet
      <3>2. x.id = Answered /\ x.result = result
        BY <3>1 DEF IncomingReply
      <3> QED
        BY <2>2, <3>2 DEF Right
    <2> QED
      BY <1>7, <2>1, <2>2
  <1> QED
    BY <1>7, <1>8, <1>9

(* At first there is no line on its way, and nothing to serve.             *)
LEMMA StreamStarts ==
    ASSUME EngineInit, TmuxInit, IInv
    PROVE  InStep /\ PlainLines /\ StreamFits(<< >>)
  <1>1. Len(<< >>) = 0
    OBVIOUS
  <1>2. /\ toTmux = << >> /\ served = << >> /\ running = None /\ parser = None
        /\ last_number = None /\ number = 0 /\ taken = 0 /\ next_id = 0 /\ pending = << >>
    BY DEF EngineInit, TmuxInit
  <1>3. ~InControl
    BY <1>2 DEF InControl
  <1>4. InStep
    BY <1>1, <1>2, <1>3 DEF InStep
  <1>5. PlainLines
    <2>1. << >> \in Seq(PlainOutcome)
      BY EmptySeq
    <2> QED
      BY <1>2, <2>1 DEF PlainLines
  <1>6. Here \in Point /\ Here.parser = None /\ Here.last = None /\ Here.answered = 0
    <2>1. Answered = 0
      <3>1. Len(pending) = 0
        BY <1>1, <1>2
      <3>2. next_id = 0
        BY <1>2
      <3> QED
        BY <3>1, <3>2 DEF Answered
    <2> QED
      BY <1>2, <2>1, HereIsPoint DEF Here
  <1>7. Meets(Here)
    <2>1. ~LeftOpen(Here)
      BY <1>6 DEF LeftOpen
    <2>2. Below(Here.last, number + 1)
      BY <1>6 DEF Below, None
    <2> QED
      BY <1>1, <1>2, <1>6, <2>1, <2>2 DEF Meets
  <1> DEFINE t == [i \in 0 .. 0 |-> Here]
  <1>8. t \in [0 .. 0 -> Point] /\ t[0] = Here
    BY <1>6
  <1> HIDE DEF t
  <1>9. Leads(t, << >>)
    BY <1>1 DEF Leads
  <1> QED
    BY <1>1, <1>4, <1>5, <1>7, <1>8, <1>9 DEF StreamFits

LEMMA RegisterKeepsAnswered == ASSUME IInv, RegisterCommand PROVE IInv' /\ Answered' = Answered
  <1>1. next_id \in CommandId /\ next_id' = next_id + 1 /\ pending' = Append(pending, next_id)
    BY BoundAssumption DEF IInv, TypeOK, RegisterCommand, CommandId
  <1>2. Len(pending') = Len(pending) + 1 /\ Len(pending) \in Nat /\ next_id \in Nat
    BY <1>1, AppendProperties, LenProperties DEF IInv, TypeOK, CommandId
  <1> QED
    BY <1>1, <1>2, RegisterCommandIInv DEF Answered

(* A line surfaces a reply or a notification, never both. *)
LEMMA LineSurfacesOne ==
    ASSUME IInv, NEW line \in Line, OnLine(line)
    PROVE  RepliesIn(incoming') = {} \/ RepliesIn(incoming') = DOMAIN incoming'
  <1> DEFINE event == Push(parser, line).event
  <1>1. Surface(event)
    BY DEF OnLine
  <1>2. CASE incoming' = << >>
    BY <1>2, NoneSurfaced
  <1>3. CASE incoming' = << IncomingNotification(event[1].line) >>
    BY <1>3 DEF RepliesIn, IncomingNotification
  <1>4. CASE incoming' = << IncomingReply(Head(pending), ResultOf(event[1].reply)) >>
    BY <1>4 DEF RepliesIn, IncomingReply
  <1> HIDE DEF event
  <1> QED
    BY <1>1, <1>2, <1>3, <1>4 DEF Surface, Correlate, PassOver, Tripwire, PopFront

(* Of the reply a line surfaces: it answers the oldest command.            *)
LEMMA LineSurfaces ==
    ASSUME IInv, NEW line \in Line, OnLine(line), incoming' \in Seq(Incoming)
    PROVE  \/ incoming' = << >> /\ Answered' = Answered
           \/ \E x \in Incoming :
                /\ incoming' = <<x>>
                /\ \/ x.type # "reply" /\ Answered' = Answered
                   \/ x.type = "reply" /\ x.id = Answered /\ Answered' = Answered + 1
  <1> DEFINE event == Push(parser, line).event
  <1>1. Surface(event) /\ OldestAnswered
    BY OnLineSurfaces DEF OnLine
  <1>2. Answered \in Int
    BY LenProperties DEF IInv, TypeOK, Answered
  <1>3. CASE incoming' = << >>
    BY <1>1, <1>2, <1>3, NoneSurfaced DEF OldestAnswered
  <1>4. ASSUME NEW x, incoming' = <<x>> PROVE x \in Incoming /\ incoming'[1] = x
    BY <1>4
  <1>5. CASE incoming' = << IncomingNotification(event[1].line) >>
    <2>1. RepliesIn(incoming') = {} /\ IncomingNotification(event[1].line).type # "reply"
      BY <1>5 DEF RepliesIn, IncomingNotification
    <2>2. Answered' = Answered
      BY <1>1, <1>2, <2>1 DEF OldestAnswered
    <2> QED
      BY <1>4, <1>5, <2>1, <2>2
  <1>6. CASE incoming' = << IncomingReply(Head(pending), ResultOf(event[1].reply)) >>
    <2> DEFINE x == IncomingReply(Head(pending), ResultOf(event[1].reply))
    <2>1. x.type = "reply"
      BY DEF IncomingReply
    <2>2. incoming' = <<x>>
      BY <1>6
    <2> HIDE DEF x
    <2>3. RepliesIn(incoming') = {1} /\ Len(incoming') = 1 /\ incoming'[1] = x
      BY <2>1, <2>2 DEF RepliesIn
    <2>4. Answered' = Answered + 1 /\ x.id = Answered + 1 - 1
      BY <1>1, <2>3 DEF OldestAnswered
    <2> QED
      BY <1>2, <1>4, <2>1, <2>2, <2>4
  <1> HIDE DEF event
  <1> QED
    BY <1>1, <1>3, <1>5, <1>6 DEF Surface, Correlate, PassOver, Tripwire, PopFront

LEMMA EofSurfaces ==
    ASSUME IInv, OnEof
    PROVE  /\ RepliesIn(incoming') = DOMAIN incoming'
           /\ DOMAIN incoming' = 1 .. Len(pending) /\ Len(pending) \in Nat
           /\ \A i \in 1 .. Len(pending) : /\ incoming'[i].id = Answered + i - 1
                                          /\ incoming'[i].result = Disconnected
           /\ Len(pending) = next_id - Answered
  <1>1. /\ Len(pending) \in Nat /\ next_id \in Nat
        /\ incoming' = [i \in 1 .. Len(pending) |-> IncomingReply(pending[i], Disconnected)]
    BY LenProperties, BoundAssumption DEF OnEof, IInv, TypeOK
  <1>2. \A i \in 1 .. Len(pending) : incoming'[i] = IncomingReply(Answered + i - 1, Disconnected)
    BY <1>1 DEF IInv, FifoIntact
  <1>3. RepliesIn(incoming') = DOMAIN incoming' /\ DOMAIN incoming' = 1 .. Len(pending)
    BY <1>1 DEF RepliesIn, IncomingReply
  <1>4. Len(pending) = next_id - Answered
    BY <1>1 DEF Answered
  <1> QED
    BY <1>1, <1>2, <1>3, <1>4 DEF IncomingReply

=============================================================================
