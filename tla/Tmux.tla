-------------------------------- MODULE Tmux --------------------------------
(***************************************************************************)
(* The peer at the other end of the two pipes: tmux -C, as the client's    *)
(* code and docs (docs/reference/tmux-source-map.md, section 2) rely on    *)
(* it.  It runs its command queue serially and wraps every command in one  *)
(* %begin .. %end/%error block; numbers grow; notifications, and blocks of *)
(* commands it runs on its own account, appear between blocks.  An empty   *)
(* input line detaches.  It may exit at any moment, even inside a block.   *)
(* It buffers the output its pipe has no room for and goes on; it leaves   *)
(* in order only when its buffer is empty, and a crash may lose that.      *)
(*                                                                         *)
(* A line of input is the number of commands it holds: 1 for a command, 0  *)
(* for the empty line, more for a "a ; b" sequence.  What it prints for    *)
(* line k of the input carries k as its body.                              *)
(***************************************************************************)
EXTENDS Parser

CONSTANTS
    Server,         \* the body of what no client command printed
    PrintKinds,     \* the kinds of line a command prints
    Echoed,         \* guard-shaped lines a command may print as its output
    PipeSize,       \* the lines its output pipe holds
    MaxPrint,       \* bound on the lines one command prints
    MaxInternal,    \* bound on the server-internal blocks
    Notes,          \* the kinds of the notifications it writes, in order
    MaxLost         \* bound on the %end/%error lines that get lost

ASSUME TmuxAssumption ==
    /\ Server \in Body
    /\ PrintKinds \subseteq {"output", "text", "blank"}
    /\ Echoed \subseteq Guard
    /\ Notes \in Seq({"output", "text"})
    /\ {PipeSize, MaxPrint, MaxInternal, MaxLost} \subseteq Nat

VARIABLES
    toTmux,         \* the lines written to its stdin and not yet read
    toClient,       \* the lines it wrote and the client has not yet read: those in the
                    \* pipe, then those in its buffer
    alive,
    number,         \* the last command number handed out
    taken,          \* how many input lines it has read
    running,        \* Option: the block being written
    served,         \* history: status and output of each control block it closed
    noted,          \* history: the notifications it wrote
    internals, lost

tmuxVars == <<toTmux, toClient, alive, number, taken, running, served, noted,
              internals, lost>>

TmuxInit ==
    /\ toTmux = << >> /\ toClient = << >>
    /\ alive = TRUE
    /\ number = 0 /\ taken = 0
    /\ running = None
    /\ served = << >> /\ noted = << >>
    /\ internals = 0 /\ lost = 0

TmuxTypeOK ==
    /\ toTmux \in Seq(Nat) /\ toClient \in Seq(Line)
    /\ alive \in BOOLEAN
    /\ number \in Nat /\ taken \in Nat /\ internals \in Nat /\ lost \in Nat
    /\ running \in Option([control : BOOLEAN, owner : Body, lines : Seq(Line)])
    /\ served \in Seq([status : {"ok", "failed", "lost"}, lines : Seq(Line)])
    /\ noted \in Seq(Line)
    /\ running # None => number \in Number

GuardLine(kind, n, control) == [kind |-> kind, number |-> n, control |-> control]
Write(line) == toClient' = Append(toClient, line)

(* Both are within their bounds: a number a guard can carry, a body that   *)
(* stands for what the command prints.                                     *)
Open(control, owner) ==
    /\ alive /\ running = None
    /\ number + 1 \in Number /\ owner \in Body
    /\ number' = number + 1
    /\ running' = Some([control |-> control, owner |-> owner, lines |-> << >>])
    /\ Write(GuardLine("begin", number + 1, control))

Begin ==
    /\ toTmux # << >> /\ Head(toTmux) > 0
    /\ Open(TRUE, taken)
    /\ IF Head(toTmux) = 1
       THEN toTmux' = Tail(toTmux) /\ taken' = taken + 1
       ELSE toTmux' = [toTmux EXCEPT ![1] = @ - 1] /\ UNCHANGED taken
    /\ UNCHANGED <<alive, served, noted, internals, lost>>

BeginInternal ==
    /\ internals < MaxInternal
    /\ Open(FALSE, Server)
    /\ internals' = internals + 1
    /\ UNCHANGED <<toTmux, alive, taken, served, noted, lost>>

Printable(owner) ==
    {line \in [kind : {"output", "text"}, body : {owner}] \cup {Blank} : line.kind \in PrintKinds}
      \cup Echoed

PrintLine ==
    /\ alive /\ running # None /\ Len(running[1].lines) < MaxPrint
    /\ \E line \in Printable(running[1].owner) :
         /\ running' = Some([running[1] EXCEPT !.lines = Append(@, line)])
         /\ Write(line)
    /\ UNCHANGED <<toTmux, alive, number, taken, served, noted, internals, lost>>

Serve(status) ==
    /\ alive /\ running # None
    /\ running' = None
    /\ served' = IF running[1].control
                 THEN Append(served, [status |-> status, lines |-> running[1].lines])
                 ELSE served
    /\ UNCHANGED <<toTmux, alive, number, taken, noted, internals>>

End ==
    \E kind \in {"end", "error"} :
      /\ Serve(IF kind = "end" THEN "ok" ELSE "failed")
      /\ Write(GuardLine(kind, number, running[1].control))
      /\ UNCHANGED lost

(* The closing guard does not reach the client (parser.rs:114-118). *)
LoseEnd ==
    /\ lost < MaxLost
    /\ lost' = lost + 1
    /\ Serve("lost")
    /\ UNCHANGED toClient

Notify ==
    /\ alive /\ running = None /\ Len(noted) < Len(Notes)
    /\ LET line == [kind |-> Notes[Len(noted) + 1], body |-> Server] IN
         /\ noted' = Append(noted, line)
         /\ Write(line)
    /\ UNCHANGED <<toTmux, alive, number, taken, running, served, internals, lost>>

Buffered == Len(toClient) > PipeSize

Detach ==
    /\ alive /\ running = None
    /\ toTmux # << >> /\ Head(toTmux) = 0
    /\ ~Buffered
    /\ alive' = FALSE
    /\ UNCHANGED <<toTmux, toClient, number, taken, running, served, noted, internals, lost>>

Exit ==
    /\ alive
    /\ alive' = FALSE
    /\ IF Buffered
       THEN \E n \in PipeSize .. Len(toClient) : toClient' = SubSeq(toClient, 1, n)
       ELSE UNCHANGED toClient
    /\ UNCHANGED <<toTmux, number, taken, running, served, noted, internals, lost>>

TmuxNext ==
    \/ Begin \/ BeginInternal \/ PrintLine \/ End \/ LoseEnd \/ Notify \/ Detach \/ Exit
=============================================================================
