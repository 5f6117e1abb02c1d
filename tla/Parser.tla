------------------------------- MODULE Parser -------------------------------
(***************************************************************************)
(* The incremental line parser (src/parser.rs): what one call of push does *)
(* to the reply block in progress, and which Event it surfaces.            *)
(*                                                                         *)
(* A line is what the parser tells apart in it: a %begin/%end/%error guard *)
(* with its command number and control flag, a %output line (taken on the  *)
(* byte path), a blank line, or any other text (a notification at top      *)
(* level, output inside a block).  A body stands for the rest of the text. *)
(* An Option is a sequence of at most one element.                         *)
(***************************************************************************)
EXTENDS Naturals, Sequences

CONSTANTS
    Number,     \* the command numbers a guard may carry (u64 in the code)
    Body        \* the texts a line that is neither blank nor a guard may carry

ASSUME NumberAssumption == Number \subseteq Nat

None == << >>
Some(x) == << x >>
Option(S) == {s \in Seq(S) : Len(s) <= 1}

GuardKind == {"begin", "end", "error"}
Guard == [kind : GuardKind, number : Number, control : BOOLEAN]
Text == [kind : {"output", "text"}, body : Body]
Blank == [kind |-> "blank"]
Line == Guard \cup Text \cup {Blank}
ContentLine == Text \cup {Blank}

PendingReply == [number : Number, control : BOOLEAN, output : Seq(ContentLine)]
Reply == [number : Number, control : BOOLEAN, output : Seq(ContentLine), error : BOOLEAN]

NotificationEvent(line) == [type |-> "notification", line |-> line]
ReplyEvent(reply) == [type |-> "reply", reply |-> reply]
Event == [type : {"notification"}, line : Line] \cup [type : {"reply"}, reply : Reply]

(* parse_guard: the lines of the exact form %<kind> <ts> <number> <flags>. *)
IsGuard(line) == line.kind \in GuardKind

OpenBlock(line) == [number |-> line.number, control |-> line.control, output |-> << >>]

CloseBlock(block, error) ==
    ReplyEvent([number |-> block.number, control |-> block.control,
                output |-> block.output, error |-> error])

(* A parse error, a stray %end and an unknown keyword are all surfaced, as *)
(* Notification::Unknown.                                                  *)
PushAtTopLevel(line) ==
    CASE line.kind = "blank" -> [parser |-> None, event |-> None]
      [] line.kind = "begin" -> [parser |-> Some(OpenBlock(line)), event |-> None]
      [] OTHER -> [parser |-> None, event |-> Some(NotificationEvent(line))]

----------------------------------------------------------------------------
(* Mutants of PushWithinBlock. *)

(* A block is abandoned, not flushed, when the next %begin arrives. *)
BadPushDropsTruncated(block, line) ==
    CASE line.kind \in {"end", "error"} ->
           [parser |-> None, event |-> Some(CloseBlock(block, line.kind = "error"))]
      [] line.kind = "begin" -> [parser |-> Some(OpenBlock(line)), event |-> None]
      [] OTHER ->
           [parser |-> Some([block EXCEPT !.output = Append(@, line)]), event |-> None]

(* The truncated block is flushed after its number was overwritten. *)
BadPushFlushesLate(block, line) ==
    CASE line.kind \in {"end", "error"} ->
           [parser |-> None, event |-> Some(CloseBlock(block, line.kind = "error"))]
      [] line.kind = "begin" ->
           [parser |-> Some(OpenBlock(line)),
            event |-> Some(CloseBlock([block EXCEPT !.number = line.number], TRUE))]
      [] OTHER ->
           [parser |-> Some([block EXCEPT !.output = Append(@, line)]), event |-> None]

(* The blank line is skipped before the parser knows it is in a block. *)
BadPushSkipsBlank(block, line) ==
    CASE line.kind \in {"end", "error"} ->
           [parser |-> None, event |-> Some(CloseBlock(block, line.kind = "error"))]
      [] line.kind = "begin" ->
           [parser |-> Some(OpenBlock(line)), event |-> Some(CloseBlock(block, TRUE))]
      [] line.kind = "blank" -> [parser |-> Some(block), event |-> None]
      [] OTHER ->
           [parser |-> Some([block EXCEPT !.output = Append(@, line)]), event |-> None]

(* %output is taken on the byte path even while a block is open. *)
BadPushLeaksOutput(block, line) ==
    CASE line.kind \in {"end", "error"} ->
           [parser |-> None, event |-> Some(CloseBlock(block, line.kind = "error"))]
      [] line.kind = "begin" ->
           [parser |-> Some(OpenBlock(line)), event |-> Some(CloseBlock(block, TRUE))]
      [] line.kind = "output" ->
           [parser |-> Some(block), event |-> Some(NotificationEvent(line))]
      [] OTHER ->
           [parser |-> Some([block EXCEPT !.output = Append(@, line)]), event |-> None]

----------------------------------------------------------------------------
(* Any guard ends the open block, whatever number it carries; a %begin     *)
(* flushes the truncated block as an error and opens its own.              *)
PushWithinBlock(block, line) ==
    CASE line.kind \in {"end", "error"} ->
           [parser |-> None, event |-> Some(CloseBlock(block, line.kind = "error"))]
      [] line.kind = "begin" ->
           [parser |-> Some(OpenBlock(line)), event |-> Some(CloseBlock(block, TRUE))]
      [] OTHER ->
           [parser |-> Some([block EXCEPT !.output = Append(@, line)]), event |-> None]

Push(parser, line) ==
    IF parser = None THEN PushAtTopLevel(line) ELSE PushWithinBlock(parser[1], line)
=============================================================================
