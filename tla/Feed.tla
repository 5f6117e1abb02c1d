-------------------------------- MODULE Feed --------------------------------
(***************************************************************************)
(* Engine::feed (src/engine.rs): framing lines out of arbitrary chunks of  *)
(* the byte stream.  A call appends the chunk to buf, hands every complete *)
(* line to on_line, one NextLine step each, and returns what they          *)
(* surfaced.  &mut self makes calls exclusive, so a driver registers a     *)
(* command or signals EOF only between two calls.                          *)
(*                                                                         *)
(* stream, lines and marks are history: every byte fed, every line handed  *)
(* to on_line, and the position in stream of the newline that ended it.    *)
(***************************************************************************)
EXTENDS Engine

CONSTANTS
    Byte,
    NL,             \* the newline byte
    LineOf(_),      \* what the parser makes of the bytes between two newlines
    MaxStream,      \* bound on the bytes fed
    MaxChunk        \* bound on the bytes of one chunk

ASSUME ByteAssumption == NL \in Byte
ASSUME StreamAssumption == MaxStream \in Nat /\ MaxChunk \in Nat /\ MaxStream <= MaxOutput
ASSUME LineOfAssumption ==
         \A n \in 0 .. MaxStream : \A s \in [1 .. n -> Byte \ {NL}] : LineOf(s) \in Line

VARIABLES
    buf,            \* the bytes fed and not yet handed to on_line
    out,            \* the outcomes the call has collected
    feeding,        \* TRUE while a call of feed runs
    stream, lines, marks

feedVars == <<engineVars, buf, out, feeding, stream, lines, marks>>

FeedTypeOK ==
    /\ TypeOK
    /\ buf \in Seq(Byte)
    /\ out \in Seq(Incoming)
    /\ feeding \in BOOLEAN
    /\ stream \in Seq(Byte) /\ Len(stream) <= MaxStream
    /\ lines \in Seq(Line)
    /\ marks \in Seq(1 .. MaxStream)

FeedInit ==
    /\ EngineInit
    /\ buf = << >> /\ out = << >> /\ feeding = FALSE
    /\ stream = << >> /\ lines = << >> /\ marks = << >>

Newlines == {i \in DOMAIN buf : buf[i] = NL}

----------------------------------------------------------------------------
(* Mutant of Call. *)

(* Each chunk starts afresh: the partial trailing line is forgotten. *)
BadCall(bytes) ==
    /\ ~feeding /\ ~panicked
    /\ feeding' = TRUE
    /\ buf' = bytes
    /\ out' = << >>
    /\ stream' = stream \o bytes
    /\ UNCHANGED <<engineVars, lines, marks>>
----------------------------------------------------------------------------

Call(bytes) ==
    /\ ~feeding /\ ~panicked
    /\ feeding' = TRUE
    /\ buf' = buf \o bytes
    /\ out' = << >>
    /\ stream' = stream \o bytes
    /\ UNCHANGED <<engineVars, lines, marks>>

(* One turn of the loop: drain up to the first newline.  An unwinding      *)
(* debug_assert ends the loop: OnLine is never enabled again.              *)
NextLine ==
    \E n \in Newlines :
      LET line == LineOf(SubSeq(buf, 1, n - 1)) IN
      /\ feeding
      /\ \A i \in Newlines : n <= i
      /\ OnLine(line)
      /\ buf' = SubSeq(buf, n + 1, Len(buf))
      /\ out' = out \o incoming'
      /\ lines' = Append(lines, line)
      /\ marks' = Append(marks, Len(stream) - Len(buf) + n)
      /\ UNCHANGED <<feeding, stream>>

Return ==
    /\ feeding /\ ~panicked
    /\ Newlines = {}
    /\ feeding' = FALSE
    /\ UNCHANGED <<engineVars, buf, out, stream, lines, marks>>

Register ==
    /\ ~feeding
    /\ RegisterCommand
    /\ UNCHANGED <<buf, out, feeding, stream, lines, marks>>

Eof ==
    /\ ~feeding
    /\ OnEof
    /\ UNCHANGED <<buf, out, feeding, stream, lines, marks>>

Chunk == UNION {[1 .. n -> Byte] : n \in 1 .. MaxChunk}

FeedNext ==
    \/ \E bytes \in Chunk : Len(stream) + Len(bytes) <= MaxStream /\ Call(bytes)
    \/ NextLine
    \/ Return
    \/ Register
    \/ Eof

FeedSpec == FeedInit /\ [][FeedNext]_feedVars

----------------------------------------------------------------------------
(* Where line k starts: after the newline that ended line k - 1. *)
Mark(k) == IF k = 0 THEN 0 ELSE marks[k]
Consumed == Mark(Len(marks))

(* However the stream is cut into chunks, the lines handed to on_line are  *)
(* exactly those between consecutive newlines of the whole stream, blank   *)
(* ones included, and buf holds exactly the rest; when feed has returned   *)
(* no complete line waits (engine.rs:83-102).                              *)
LinesAreTheStreams ==
    /\ Len(lines) = Len(marks)
    /\ \A k \in 1 .. Len(marks) :
         /\ Mark(k - 1) < marks[k] /\ marks[k] <= Len(stream)
         /\ stream[marks[k]] = NL
         /\ \A i \in Mark(k - 1) + 1 .. marks[k] - 1 : stream[i] # NL
         /\ lines[k] = LineOf(SubSeq(stream, Mark(k - 1) + 1, marks[k] - 1))
    /\ buf = SubSeq(stream, Consumed + 1, Len(stream))
    /\ ~feeding => Newlines = {}

(* The lines that are the last %begin before position n with no guard      *)
(* between: the block open when line n arrives.                            *)
OpenAt(ls, n) ==
    {i \in 1 .. n - 1 : /\ ls[i].kind = "begin"
                        /\ \A j \in i + 1 .. n - 1 : ~IsGuard(ls[j])}

(* What line n of a stream means, from the lines before it alone. *)
EventAt(ls, n) ==
    IF OpenAt(ls, n) = {}
    THEN IF ls[n].kind \in {"blank", "begin"} THEN None ELSE Some(NotificationEvent(ls[n]))
    ELSE IF ~IsGuard(ls[n]) THEN None
    ELSE LET i == CHOOSE j \in OpenAt(ls, n) : TRUE IN
         Some(ReplyEvent([number |-> ls[i].number, control |-> ls[i].control,
                          output |-> SubSeq(ls, i + 1, n - 1),
                          error |-> ls[n].kind # "end"]))

(* An outcome says what an event says. *)
Conveys(outcome, event) ==
    \/ /\ outcome.type = "notification"
       /\ event = NotificationEvent(outcome.line)
    \/ /\ outcome.type = "reply" /\ event.type = "reply"
       /\ event.reply.control
       /\ outcome.result = ResultOf(event.reply)

LineMeaning ==
    lines' # lines =>
      LET event == EventAt(lines', Len(lines')) IN
      /\ \A i \in DOMAIN incoming' : event # None /\ Conveys(incoming'[i], event[1])
      /\ incoming' = << >> =>
           \/ event = None
           \/ /\ event[1].type = "reply"
              /\ event[1].reply.control => pending = << >> \/ panicked'

(* Each line surfaces what its whole history says it means: a notification *)
(* only outside a block, a reply only at the guard after a %begin, holding *)
(* every line in between verbatim, an error when that guard is not %end;   *)
(* and nothing is swallowed but a stray blank, a server-internal block and *)
(* a control block nobody waits for (parser.rs:79-135, engine.rs:108-143). *)
LinesMeanWhatTheyFrame == [][LineMeaning]_feedVars
=============================================================================
