---------------------------- MODULE Correlation ----------------------------
(***************************************************************************)
(* Engine and Tmux over two pipes, with the parts of a driver all three    *)
(* drivers share: a command is registered and written in one step (the     *)
(* lock of blocking.rs:117-132, the owner task's arm of tokio_rt.rs and    *)
(* smol_rt.rs), lines are read and fed, and the FIFO is drained at the end *)
(* of the session.  Any number of commands may be in flight, as with the   *)
(* async drivers.                                                          *)
(***************************************************************************)
EXTENDS Engine, Tmux, SequencesExt

CONSTANTS
    MaxPerLine,     \* bound on the commands one line of input holds
    WriteMayFail    \* TRUE if a write or flush may fail while tmux is alive

ASSUME CorrelationAssumption ==
    /\ CommandId \subseteq Body
    /\ MaxPerLine \in Nat
    /\ WriteMayFail \in BOOLEAN

VARIABLES
    connected,      \* FALSE once the driver accepts no further command
    ended,          \* TRUE once the driver has called on_eof
    answers,        \* history: the ids answered, with their results, in order
    heard,          \* history: the notifications surfaced, in order
    cut,            \* history: the blocks tmux wrote whose closing guard got lost, by number
    due             \* history: the notifications tmux wrote with no such block still open

AnswerTo(id, result) == [id |-> id, result |-> result]

vars == <<engineVars, tmuxVars, connected, ended, answers, heard, cut, due>>

Init ==
    /\ EngineInit /\ TmuxInit
    /\ connected = TRUE /\ ended = FALSE
    /\ answers = << >> /\ heard = << >>
    /\ cut = {} /\ due = << >>

(* Replies go to whoever waits for their id, notifications to the events   *)
(* channel, in the order the engine surfaced them; a call surfaces the one  *)
(* or the other.                                                           *)
HandOut ==
    IF RepliesIn(incoming') = {}
    THEN /\ heard' = heard \o [i \in DOMAIN incoming' |-> incoming'[i].line]
         /\ UNCHANGED answers
    ELSE /\ answers' = answers \o [i \in DOMAIN incoming' |->
                                     AnswerTo(incoming'[i].id, incoming'[i].result)]
         /\ UNCHANGED heard

Send ==
    /\ connected /\ alive
    /\ RegisterCommand
    /\ \E n \in 1 .. MaxPerLine : toTmux' = Append(toTmux, n)
    /\ UNCHANGED <<toClient, alive, number, taken, running, served, noted, internals, lost>>
    /\ UNCHANGED <<connected, ended, answers, heard, cut, due>>

(* The write fails: the id stays behind in pending (docs/roadmap.md:93).   *)
(* What reaches tmux may be the line all the same (only the flush failed,  *)
(* or the newline the driver writes to detach ended what there was of it), *)
(* and the empty line the driver writes in the end.                        *)
SendFails ==
    /\ connected
    /\ alive => WriteMayFail
    /\ RegisterCommand
    /\ connected' = FALSE
    /\ \/ UNCHANGED toTmux
       \/ alive /\ toTmux' = Append(toTmux, 0)
       \/ /\ alive
          /\ \E n \in 1 .. MaxPerLine, rest \in {<< >>, << 0 >>} :
               toTmux' = toTmux \o << n >> \o rest
    /\ UNCHANGED <<toClient, alive, number, taken, running, served, noted, internals, lost>>
    /\ UNCHANGED <<ended, answers, heard, cut, due>>

(* The last handle is dropped: the driver writes the empty line. *)
Drop ==
    /\ connected
    /\ connected' = FALSE
    /\ \/ alive /\ toTmux' = Append(toTmux, 0)
       \/ (alive => WriteMayFail) /\ UNCHANGED toTmux
    /\ UNCHANGED <<toClient, alive, number, taken, running, served, noted, internals, lost>>
    /\ UNCHANGED <<engineVars, ended, answers, heard, cut, due>>

ReadLine ==
    /\ ~ended /\ toClient # << >>
    /\ OnLine(Head(toClient))
    /\ toClient' = Tail(toClient)
    /\ HandOut
    /\ UNCHANGED <<toTmux, alive, number, taken, running, served, noted, internals, lost>>
    /\ UNCHANGED <<connected, ended, cut, due>>

(* Mutant of Drain: commands are still accepted afterwards. *)
BadDrain ==
    /\ ~ended
    /\ OnEof
    /\ ended' = TRUE
    /\ HandOut
    /\ UNCHANGED <<tmuxVars, connected, cut, due>>

Drain ==
    /\ ~ended
    /\ OnEof
    /\ ended' = TRUE
    /\ connected' = FALSE
    /\ HandOut
    /\ UNCHANGED <<tmuxVars, cut, due>>

ReadEof == ~alive /\ toClient = << >> /\ Drain

(* The async drivers drain as soon as they leave their loop, whatever is   *)
(* still to be read.                                                       *)
Teardown == ~connected /\ Drain

(* A block whose closing guard got lost is open until the next %begin. *)
Watch ==
    /\ cut' = IF lost' = lost THEN cut ELSE cut \cup {number}
    /\ due' = IF noted' = noted \/ number \in cut THEN due ELSE Append(due, Last(noted'))

Peer == TmuxNext /\ Watch /\ UNCHANGED <<engineVars, connected, ended, answers, heard>>

Next ==
    \/ Send \/ SendFails \/ Drop
    \/ ReadLine \/ ReadEof \/ Teardown
    \/ Peer

Spec == Init /\ [][Next]_vars

(* A driver keeps reading, and tmux finishes the command it runs and runs  *)
(* the next one that waits.                                                *)
Fairness ==
    /\ WF_vars(ReadLine)
    /\ WF_vars(ReadEof)
    /\ WF_vars((Begin \/ End \/ LoseEnd \/ Detach) /\ Watch
                 /\ UNCHANGED <<engineVars, connected, ended, answers, heard>>)

FairSpec == Spec /\ Fairness

----------------------------------------------------------------------------
(* Every answer is what tmux produced for that very command: its status    *)
(* and every line of its output.  A command whose %end got lost fails, with *)
(* at least what it printed (engine.rs:9-13, parser.rs:114-118).           *)
RightAnswer ==
    \A a \in ToSet(answers) :
      a.result # Disconnected =>
        /\ a.id < Len(served)
        /\ LET outcome == served[a.id + 1] IN
           IF outcome.status = "lost"
           THEN a.result.status = "failed" /\ IsPrefix(outcome.lines, a.result.lines)
           ELSE a.result = outcome

(* No answer carries a line some other command printed: a reply is         *)
(* "correlated to the command that produced it" (engine.rs:52).            *)
AnswersOwn ==
    \A a \in ToSet(answers) :
      \A line \in ToSet(a.result.lines) : line \in Text => line.body \in {a.id, Server}

(* A block gathers lines until the %end or %error with its own number      *)
(* (docs/reference/tmux-source-map.md:191-194), or until the next %begin.  *)
ClosesAtOwnEnd ==
    [][parser # None /\ parser' = None => Head(toClient).number = parser[1].number]_vars

(* Against a tmux that keeps its numbers growing, the desync tripwire      *)
(* never fires (engine.rs:120-130).                                        *)
TripwireSilent == ~panicked

(* Notifications come through complete, in order and with nothing of a     *)
(* reply block among them; a lost closing guard costs those written before *)
(* the next %begin, which ends the block left open, and no later one       *)
(* (parser.rs:114-118).                                                    *)
NotesSurvive ==
    /\ IsPrefix(heard, due)
    /\ toClient = << >> => heard = due

(* Once the driver has drained the FIFO, every command ever registered has *)
(* its answer and no later one can be registered: nobody is left waiting   *)
(* for a session that is gone (engine.rs:145-148, docs/roadmap.md:68-70).  *)
NobodyLeftWaiting == ended => Len(answers) = next_id

(* tmux rests, and the guard that would have closed the block got lost.    *)
Withheld == alive /\ running = None /\ toTmux = << >> /\ toClient = << >> /\ parser # None

(* Its line never reached a live tmux: its caller was told so when the     *)
(* write failed.                                                           *)
NeverReached(id) == alive /\ ~connected /\ toTmux = << >> /\ taken <= id

(* Every command sent is answered in the end, by its reply block or by the *)
(* end of the session (docs/guides/cookbook.md:95-98); where its closing   *)
(* guard gets lost, by the next %begin (parser.rs:114-118), and it waits   *)
(* only as long as tmux has nothing more to say.                           *)
EventuallyAnswered ==
    \A id \in CommandId :
        next_id > id ~> Len(answers) > id \/ Withheld \/ NeverReached(id)

Abstract == INSTANCE Correlator WITH
    Outcome <- [status : {"ok", "failed"}, lines : Seq(ContentLine)],
    Gone <- Disconnected,
    sent <- next_id,
    outcomes <- served,
    over <- ended

(* The client keeps the promise of Correlator, step by step, until a       *)
(* closing guard gets lost.                                                *)
KeepsPromise == Abstract!Init /\ [][lost' = 0 => [Abstract!Next]_Abstract!vars]_vars
=============================================================================
