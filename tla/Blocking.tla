------------------------------ MODULE Blocking ------------------------------
(***************************************************************************)
(* The blocking driver (src/blocking.rs): the thread that owns the Client  *)
(* and calls command and, in the end, drop; the reader thread; and the     *)
(* Shared state behind one mutex between them.  Client is not Sync, so one *)
(* call runs at a time.                                                    *)
(*                                                                         *)
(* The lock is a variable only where a thread holds it over several steps. *)
(* rx is the channel of the command in flight.  told and returned are      *)
(* history: the results handed to waiters, and those command returned.     *)
(***************************************************************************)
EXTENDS Engine, Tmux, SequencesExt

CONSTANTS
    HasChild,           \* TRUE after spawn, FALSE after with_transport
    WriterMayPanic,     \* TRUE if the injected writer may panic
    WriteMayFail,       \* TRUE if a write or flush may fail while tmux is alive
    ReadMayFail         \* TRUE if read may return an error other than Interrupted

ASSUME BlockingAssumption ==
    /\ {HasChild, WriterMayPanic, WriteMayFail, ReadMayFail} \subseteq BOOLEAN
    /\ CommandId \subseteq Body

VARIABLES
    caller,         \* where the owning thread is
    reader,         \* where the reader thread is
    lock,           \* who holds the mutex: "free", "caller" or "reader"
    poisoned,       \* a thread panicked while it held the mutex
    connected,      \* Shared.connected
    waiters,        \* the keys of Shared.waiters
    stdin,          \* how the writes went: "whole", "failed", or "torn" where a failed one
                    \* left a line without its end in the pipe
    rx,             \* Option: the result sent to the command in flight
    chunk,          \* the lines read and not yet fed
    out,            \* what feed or on_eof returned and dispatch has yet to hand out
    events,         \* the notifications sent to the events channel
    told, returned

threadVars == <<caller, reader, lock, poisoned, connected, waiters, stdin, rx, chunk, out,
                events, told, returned>>
vars == <<engineVars, tmuxVars, threadVars>>

CallerStep == {"idle", "writing", "waiting", "detaching", "joining", "reaping", "gone"}
ReaderStep == {"reading", "dispatching", "feeding", "resolving", "eof", "draining",
               "done", "unwound"}
Answer == [id : CommandId, result : CommandResult]

ThreadTypeOK ==
    /\ caller \in CallerStep /\ reader \in ReaderStep
    /\ lock \in {"free", "caller", "reader"}
    /\ lock = "caller" <=> caller = "writing"
    /\ lock = "reader" <=> reader \in {"feeding", "resolving", "draining"}
    /\ poisoned \in BOOLEAN /\ connected \in BOOLEAN
    /\ waiters \subseteq CommandId
    /\ stdin \in {"whole", "failed", "torn"}
    /\ rx \in Option(CommandResult)
    /\ chunk \in Seq(Line) /\ out \in Seq(Incoming) /\ events \in Seq(Line)
    /\ told \in Seq(Answer) /\ returned \in Seq(Answer)

BlockingTypeOK == TypeOK /\ TmuxTypeOK /\ ThreadTypeOK

Init ==
    /\ EngineInit /\ TmuxInit
    /\ caller = "idle" /\ reader = "reading"
    /\ lock = "free" /\ poisoned = FALSE /\ connected = TRUE
    /\ waiters = {} /\ stdin = "whole" /\ rx = None
    /\ chunk = << >> /\ out = << >> /\ events = << >>
    /\ told = << >> /\ returned = << >>

Current == next_id - 1
AnswerTo(id, result) == [id |-> id, result |-> result]
InputUnchanged == UNCHANGED <<toClient, alive, number, taken, running, served, noted,
                              internals, lost>>

(* A line whose write failed has not reached tmux, or it has, and only the *)
(* flush after it failed.                                                  *)
MayArrive == toTmux' = toTmux \/ (alive /\ toTmux' = Append(toTmux, 1))

----------------------------------------------------------------------------
(* command.  A poisoned lock or a session that ended returns Disconnected  *)
(* at once and changes nothing: that path is a stuttering step.            *)

(* Mutant of CommandRegister: connected is not looked at. *)
BadCommandRegister ==
    /\ caller = "idle" /\ lock = "free"
    /\ ~poisoned
    /\ lock' = "caller" /\ caller' = "writing"
    /\ RegisterCommand
    /\ rx' = None
    /\ UNCHANGED <<tmuxVars, reader, poisoned, connected, waiters, stdin, chunk, out, events,
                   told, returned>>

(* Mutant of CommandRegister: the lock is released before the write. *)
BadCommandUnlocks ==
    /\ caller = "idle" /\ lock = "free"
    /\ ~poisoned /\ connected
    /\ caller' = "writing"
    /\ RegisterCommand
    /\ rx' = None
    /\ UNCHANGED <<tmuxVars, reader, lock, poisoned, connected, waiters, stdin, chunk, out, events,
                   told, returned>>

CommandRegister ==
    /\ caller = "idle" /\ lock = "free"
    /\ ~poisoned /\ connected
    /\ lock' = "caller" /\ caller' = "writing"
    /\ RegisterCommand
    /\ rx' = None
    /\ UNCHANGED <<tmuxVars, reader, poisoned, connected, waiters, stdin, chunk, out, events,
                   told, returned>>

CommandWritten ==
    /\ caller = "writing" /\ alive
    /\ toTmux' = Append(toTmux, 1)
    /\ waiters' = waiters \cup {Current}
    /\ lock' = "free" /\ caller' = "waiting"
    /\ InputUnchanged
    /\ UNCHANGED <<engineVars, reader, poisoned, connected, stdin, rx, chunk, out, events,
                   told, returned>>

(* The id stays in pending with no waiter (docs/roadmap.md:93), whatever   *)
(* of the line is in the pipe: nothing, all of it, or a part of it.        *)
CommandWriteFails ==
    /\ caller = "writing"
    /\ alive => WriteMayFail
    /\ \/ MayArrive /\ stdin' = "failed"
       \/ alive /\ UNCHANGED toTmux /\ stdin' = "torn"
    /\ connected' = FALSE
    /\ lock' = "free" /\ caller' = "idle"
    /\ told' = Append(told, AnswerTo(Current, Disconnected))
    /\ returned' = Append(returned, AnswerTo(Current, Disconnected))
    /\ InputUnchanged
    /\ UNCHANGED <<engineVars, reader, poisoned, waiters, rx, chunk, out, events>>

(* The panic unwinds out of command; whoever catches it still has the      *)
(* Client.                                                                 *)
CommandPanics ==
    /\ WriterMayPanic
    /\ caller = "writing"
    /\ MayArrive
    /\ poisoned' = TRUE
    /\ lock' = "free" /\ caller' = "idle"
    /\ InputUnchanged
    /\ UNCHANGED <<engineVars, reader, connected, waiters, stdin, rx, chunk, out, events,
                   told, returned>>

(* recv: the sender is never dropped unused, it lives in Shared. *)
CommandReturns ==
    /\ caller = "waiting" /\ rx # None
    /\ returned' = Append(returned, AnswerTo(Current, rx[1]))
    /\ caller' = "idle"
    /\ rx' = None
    /\ UNCHANGED <<engineVars, tmuxVars, reader, lock, poisoned, connected, waiters, stdin, chunk,
                   out, events, told>>

----------------------------------------------------------------------------
(* Drop. *)

DropClient ==
    /\ caller = "idle"
    /\ caller' = "detaching"
    /\ UNCHANGED <<engineVars, tmuxVars, reader, lock, poisoned, connected, waiters, stdin, rx,
                   chunk, out, events, told, returned>>

(* Mutant of DropDetach: the empty line is not written. *)
BadDropDetach ==
    /\ caller = "detaching" /\ lock = "free"
    /\ caller' = "joining"
    /\ UNCHANGED <<engineVars, tmuxVars, reader, lock, poisoned, connected, waiters, stdin, rx,
                   chunk, out, events, told, returned>>

(* "if let Ok": a poisoned lock writes nothing; a failed write is ignored. *)
(* What is written ends the torn line, if there is one.                    *)
DropDetach ==
    /\ caller = "detaching" /\ lock = "free"
    /\ caller' = "joining"
    /\ \/ poisoned /\ UNCHANGED <<toTmux, stdin>>
       \/ /\ ~poisoned /\ alive
          /\ toTmux' = Append(toTmux, IF stdin = "torn" THEN 1 ELSE 0)
          /\ UNCHANGED stdin
       \/ /\ ~poisoned /\ (alive => WriteMayFail)
          /\ stdin' = "failed"
          /\ UNCHANGED toTmux
    /\ InputUnchanged
    /\ UNCHANGED <<engineVars, reader, lock, poisoned, connected, waiters, rx, chunk, out,
                   events, told, returned>>

DropJoin ==
    /\ caller = "joining" /\ reader \in {"done", "unwound"}
    /\ caller' = "reaping"
    /\ UNCHANGED <<engineVars, tmuxVars, reader, lock, poisoned, connected, waiters, stdin, rx,
                   chunk, out, events, told, returned>>

DropReap ==
    /\ caller = "reaping"
    /\ HasChild => ~alive
    /\ caller' = "gone"
    /\ UNCHANGED <<engineVars, tmuxVars, reader, lock, poisoned, connected, waiters, stdin, rx,
                   chunk, out, events, told, returned>>

----------------------------------------------------------------------------
(* read_loop.  A read returns any number of the lines that wait; one that  *)
(* ends inside a line leaves the rest for the next (see Feed).             *)

ReadLines ==
    /\ reader = "reading"
    /\ \E n \in 1 .. Len(toClient) :
         /\ chunk' = SubSeq(toClient, 1, n)
         /\ toClient' = SubSeq(toClient, n + 1, Len(toClient))
    /\ reader' = "dispatching"
    /\ UNCHANGED <<toTmux, alive, number, taken, running, served, noted, internals, lost>>
    /\ UNCHANGED <<engineVars, caller, lock, poisoned, connected, waiters, stdin, rx, out, events,
                   told, returned>>

ReadEnds ==
    /\ reader = "reading"
    /\ ReadMayFail \/ (~alive /\ toClient = << >>)
    /\ reader' = "eof"
    /\ UNCHANGED <<engineVars, tmuxVars, caller, lock, poisoned, connected, waiters, stdin, rx,
                   chunk, out, events, told, returned>>

(* Mutant of DispatchLock: the reader gives up on a poisoned lock. *)
BadDispatchLock ==
    /\ reader = "dispatching" /\ lock = "free" /\ ~poisoned
    /\ lock' = "reader" /\ reader' = "feeding"
    /\ UNCHANGED <<engineVars, tmuxVars, caller, poisoned, connected, waiters, stdin, rx, chunk,
                   out, events, told, returned>>

(* dispatch takes the lock even when it is poisoned. *)
DispatchLock ==
    /\ reader = "dispatching" /\ lock = "free"
    /\ lock' = "reader" /\ reader' = "feeding"
    /\ UNCHANGED <<engineVars, tmuxVars, caller, poisoned, connected, waiters, stdin, rx, chunk,
                   out, events, told, returned>>

(* One line of feed's loop.  A failed debug_assert unwinds the thread: the *)
(* outcomes feed had collected go with it, the waiters stay.               *)
FeedLine ==
    /\ reader = "feeding" /\ chunk # << >>
    /\ OnLine(Head(chunk))
    /\ chunk' = Tail(chunk)
    /\ IF panicked'
       THEN reader' = "unwound" /\ poisoned' = TRUE /\ lock' = "free" /\ out' = << >>
       ELSE out' = out \o incoming' /\ UNCHANGED <<reader, poisoned, lock>>
    /\ UNCHANGED <<tmuxVars, caller, connected, waiters, stdin, rx, events, told, returned>>

FeedReturns ==
    /\ reader = "feeding" /\ chunk = << >>
    /\ reader' = "resolving"
    /\ UNCHANGED <<engineVars, tmuxVars, caller, lock, poisoned, connected, waiters, stdin, rx,
                   chunk, out, events, told, returned>>

(* Mutant of Resolve: the waiter is taken out and never told. *)
BadResolve ==
    /\ Head(out).type = "reply" /\ Head(out).id \in waiters
    /\ waiters' = waiters \ {Head(out).id}
    /\ UNCHANGED <<rx, told>>

(* A result goes to the waiter that is registered for its id. *)
Resolve ==
    /\ Head(out).type = "reply" /\ Head(out).id \in waiters
    /\ waiters' = waiters \ {Head(out).id}
    /\ rx' = Some(Head(out).result)
    /\ told' = Append(told, AnswerTo(Head(out).id, Head(out).result))

(* The loop over feed's, or on_eof's, outcomes. *)
HandOut ==
    /\ reader \in {"resolving", "draining"} /\ out # << >>
    /\ out' = Tail(out)
    /\ \/ Resolve /\ UNCHANGED events
       \/ /\ Head(out).type = "reply" /\ Head(out).id \notin waiters
          /\ UNCHANGED <<waiters, rx, told, events>>
       \/ /\ Head(out).type = "notification"
          /\ events' = Append(events, Head(out).line)
          /\ UNCHANGED <<waiters, rx, told>>
    /\ UNCHANGED <<engineVars, tmuxVars, caller, reader, lock, poisoned, connected, stdin,
                   chunk, returned>>

Unlock ==
    /\ reader \in {"resolving", "draining"} /\ out = << >>
    /\ lock' = "free"
    /\ reader' = IF reader = "resolving" THEN "reading" ELSE "done"
    /\ UNCHANGED <<engineVars, tmuxVars, caller, poisoned, connected, waiters, stdin, rx, chunk,
                   out, events, told, returned>>

(* Mutant of Disconnect: the flag stays up, so commands are still taken. *)
BadDisconnect ==
    /\ reader = "eof" /\ lock = "free"
    /\ lock' = "reader" /\ reader' = "draining"
    /\ OnEof
    /\ out' = incoming'
    /\ UNCHANGED <<tmuxVars, caller, poisoned, connected, waiters, stdin, rx, chunk, events, told,
                   returned>>

Disconnect ==
    /\ reader = "eof" /\ lock = "free"
    /\ lock' = "reader" /\ reader' = "draining"
    /\ connected' = FALSE
    /\ OnEof
    /\ out' = incoming'
    /\ UNCHANGED <<tmuxVars, caller, poisoned, waiters, stdin, rx, chunk, events, told,
                   returned>>

----------------------------------------------------------------------------
Peer == TmuxNext /\ UNCHANGED <<engineVars, threadVars>>

CommandStep ==
    CommandRegister \/ CommandWritten \/ CommandWriteFails \/ CommandPanics \/ CommandReturns
DropStep == DropDetach \/ DropJoin \/ DropReap
ReaderStepTaken ==
    ReadLines \/ ReadEnds \/ DispatchLock \/ FeedLine \/ FeedReturns \/ HandOut \/ Unlock
      \/ Disconnect

Next == CommandStep \/ DropClient \/ DropStep \/ ReaderStepTaken \/ Peer

Spec == Init /\ [][Next]_vars

(* Both threads keep running, though the owner need not call command or    *)
(* drop again; tmux finishes what it runs, runs what waits, and detaches.  *)
Fairness ==
    /\ WF_vars(CommandWritten \/ CommandWriteFails)
    /\ WF_vars(CommandReturns)
    /\ WF_vars(DropStep)
    /\ WF_vars(ReaderStepTaken)
    /\ WF_vars((Begin \/ End \/ LoseEnd \/ Detach) /\ UNCHANGED <<engineVars, threadVars>>)

FairSpec == Spec /\ Fairness

----------------------------------------------------------------------------
(* Whenever nobody is inside the critical section, a command still waiting *)
(* is in both books: the engine has it outstanding and its waiter is       *)
(* registered, and the reader thread that must answer it is alive          *)
(* (docs/roadmap.md:68-70, "rule out an orphaned waiter").                 *)
NobodyStranded ==
    caller = "waiting" /\ rx = None /\ lock = "free" =>
      /\ pending # << >> /\ pending[Len(pending)] = Current
      /\ waiters = {Current}
      /\ reader \notin {"done", "unwound"}

(* command returns what its own command produced, complete, and only after *)
(* tmux closed that command's block (engine.rs:52).                        *)
ReturnsItsOwn ==
    \A a \in ToSet(returned) :
      a.result # Disconnected => a.id < Len(served) /\ a.result = served[a.id + 1]

(* Disconnected is final: once a command was told so, no later command is  *)
(* accepted (blocking.rs:113, "once the session has ended").               *)
DisconnectedIsFinal ==
    \A a \in ToSet(returned) :
      a.result = Disconnected => ~connected /\ a.id = Current

(* A command that was written returns, whatever tmux and the reader do     *)
(* (docs/roadmap.md:68, "command() cannot hang").                          *)
EveryCommandReturns == caller = "waiting" ~> caller # "waiting"

(* The reader thread outlives a caller's panic and still drains the FIFO   *)
(* when the stream ends (blocking.rs:214-217).                             *)
ReaderDrains == ~alive ~> reader = "done"

(* Dropping the client detaches tmux, joins the reader and reaps the child *)
(* (blocking.rs:171-173, "so the join below terminates rather than hanging *)
(* on a live session").                                                    *)
DropTerminates == caller = "detaching" ~> caller = "gone"

(* tmux cannot flush what it printed, and nobody reads it any more.        *)
BacksUp == alive /\ Buffered /\ reader = "done"

(* A write failed, and what drop wrote did not reach a live tmux as an      *)
(* empty line: it failed too, or it ended a torn command.                  *)
Unheard == caller = "joining" /\ alive /\ stdin # "whole" /\ 0 \notin ToSet(toTmux)

(* The same for a client none of whose callers panicked, unless tmux does  *)
(* not get the empty line.  The reader goes on reading while drop joins    *)
(* it, so tmux gets rid of its output; only where a read failed is there   *)
(* nobody left to read it.                                                 *)
CleanDropTerminates ==
    caller = "detaching" /\ ~poisoned ~> caller = "gone" \/ BacksUp \/ Unheard

(* A command is never written into a pipe that still holds an earlier one, *)
(* so the write, which keeps the reader from dispatching, waits for tmux   *)
(* to read this one command at most (blocking.rs:126-131,188-192).         *)
WritesAlone == caller = "writing" => toTmux = << >>

Abstract == INSTANCE Correlator WITH
    Outcome <- [status : {"ok", "failed"}, lines : Seq(ContentLine)],
    Gone <- Disconnected,
    sent <- next_id,
    outcomes <- served,
    answers <- IF poisoned
               THEN told \o [i \in 1 .. next_id - Len(told) |->
                               AnswerTo(Len(told) + i - 1, Disconnected)]
               ELSE told,
    over <- \/ \E a \in ToSet(told) : a.result = Disconnected
            \/ ~connected /\ lock = "free"
            \/ poisoned

(* The driver keeps the promise of Correlator.  A caller's panic ends the  *)
(* session: it tells the command that was being written, and no later one  *)
(* is accepted (blocking.rs:115-121).                                      *)
KeepsPromise == Abstract!Spec
=============================================================================
