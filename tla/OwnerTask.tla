----------------------------- MODULE OwnerTask -----------------------------
(***************************************************************************)
(* The async drivers (src/tokio_rt.rs, src/smol_rt.rs): calls of command   *)
(* as futures that queue a request and wait for its reply channel, and the *)
(* owner task that owns the engine, the waiters and the transport.  A call *)
(* may be cancelled, and the client dropped, at any point.                 *)
(*                                                                         *)
(* The two drivers differ in how the race between a request and a read is  *)
(* decided (select! at random, future::or in favour of the request) and in *)
(* what becomes of the requests still queued when the task drops its end   *)
(* of the channel.  Calls are numbered from 0.                             *)
(***************************************************************************)
EXTENDS Engine, Tmux, SequencesExt

CONSTANTS
    HasChild,       \* TRUE after spawn, FALSE after with_transport
    WriteMayFail,   \* TRUE if a write or flush may fail while tmux is alive
    ReadMayFail,    \* TRUE if read may return an error
    Drivers         \* the drivers a run is about

(* biased: future::or tries the request first, select! picks at random.    *)
(* dropsQueued: the receiver of tokio's mpsc drops what is queued when it  *)
(* goes; what is in an async-channel lives as long as a sender.            *)
Tokio == [biased |-> FALSE, dropsQueued |-> TRUE]
Smol == [biased |-> TRUE, dropsQueued |-> FALSE]

ASSUME OwnerTaskAssumption ==
    /\ {HasChild, WriteMayFail, ReadMayFail} \subseteq BOOLEAN
    /\ Drivers \subseteq {Tokio, Smol}
    /\ CommandId \subseteq Body

VARIABLES
    driver,         \* which driver this is; never changes
    callers,        \* where the future of each call is
    replies,        \* the reply channel of each call: Option(CommandResult)
    dropped,        \* TRUE once the last handle is dropped
    requests,       \* the calls queued to the owner task
    task,           \* where the owner task is
    writing,        \* Option: the call whose command is being written
    stdin,          \* how the writes went: "whole", "failed", or "torn" where a failed one
                    \* left a line without its end in the pipe
    waiters,        \* the pairs of the waiter map
    chunk, out,     \* the lines read and not yet fed; the outcomes not yet handed out
    events,         \* the notifications sent to the events channel
    told            \* history: the outcomes sent to waiters before the loop was left

callVars == <<driver, callers, replies, dropped>>
taskVars == <<task, writing, stdin, waiters, chunk, out, events, told>>
vars == <<engineVars, tmuxVars, callVars, requests, taskVars>>

Ended == {"done", "unwound"}
InLoop == task \in {"selecting", "writing", "feeding", "resolving"}
Answer == [id : CommandId, result : CommandResult]

OwnTypeOK ==
    /\ driver \in Drivers
    /\ callers \in [CommandId -> {"unsent", "awaiting", "returned", "cancelled"}]
    /\ replies \in [CommandId -> Option(CommandResult)]
    /\ dropped \in BOOLEAN
    /\ requests \in Seq(CommandId)
    /\ InLoop \/ task \in {"detaching", "draining", "reaping"} \cup Ended
    /\ writing \in Option(CommandId) /\ (writing # None <=> task = "writing")
    /\ stdin \in {"whole", "failed", "torn"}
    /\ waiters \subseteq [id : CommandId, call : CommandId]
    /\ chunk \in Seq(Line) /\ out \in Seq(Incoming) /\ events \in Seq(Line)
    /\ told \in Seq(Answer)

TaskTypeOK == TypeOK /\ TmuxTypeOK /\ OwnTypeOK

Init ==
    /\ EngineInit /\ TmuxInit
    /\ driver \in Drivers
    /\ callers = [call \in CommandId |-> "unsent"]
    /\ replies = [call \in CommandId |-> None]
    /\ dropped = FALSE /\ requests = << >>
    /\ task = "selecting" /\ writing = None /\ stdin = "whole" /\ waiters = {}
    /\ chunk = << >> /\ out = << >> /\ events = << >> /\ told = << >>

Current == next_id - 1
AnswerTo(id, result) == [id |-> id, result |-> result]
InputUnchanged == UNCHANGED <<toClient, alive, number, taken, running, served, noted,
                              internals, lost>>

----------------------------------------------------------------------------
(* command: a closed channel is told at once, otherwise the call waits.    *)

Call(call) ==
    /\ ~dropped
    /\ callers[call] = "unsent"
    /\ \A earlier \in 0 .. call - 1 : callers[earlier] # "unsent"
    /\ IF task \in Ended
       THEN callers' = [callers EXCEPT ![call] = "returned"] /\ UNCHANGED requests
       ELSE /\ callers' = [callers EXCEPT ![call] = "awaiting"]
            /\ requests' = Append(requests, call)
    /\ UNCHANGED <<engineVars, tmuxVars, driver, replies, dropped, taskVars>>

(* Nobody can send the reply any more. *)
SenderDropped(call) ==
    /\ call \notin ToSet(requests)
    /\ writing # Some(call)
    /\ \A waiter \in waiters : waiter.call # call

Return(call) ==
    /\ callers[call] = "awaiting"
    /\ replies[call] # None \/ SenderDropped(call)
    /\ callers' = [callers EXCEPT ![call] = "returned"]
    /\ UNCHANGED <<engineVars, tmuxVars, driver, replies, dropped, requests, taskVars>>

(* The future is dropped; its request, or its waiter, stays. *)
Cancel(call) ==
    /\ callers[call] = "awaiting"
    /\ callers' = [callers EXCEPT ![call] = "cancelled"]
    /\ UNCHANGED <<engineVars, tmuxVars, driver, replies, dropped, requests, taskVars>>

(* The futures borrow the client, so none is left when it is dropped. *)
DropClient ==
    /\ ~dropped
    /\ \A call \in CommandId : callers[call] # "awaiting"
    /\ dropped' = TRUE
    /\ UNCHANGED <<engineVars, tmuxVars, driver, callers, replies, requests, taskVars>>

Returned(call) == IF replies[call] = None THEN Disconnected ELSE replies[call][1]

----------------------------------------------------------------------------
(* The loop of owner_task. *)

(* Mutant of TakeRequest: a call cancelled while queued is written, but it *)
(* gets no id.                                                             *)
BadTakeRequest ==
    /\ task = "selecting" /\ requests # << >>
    /\ requests' = Tail(requests)
    /\ IF callers[Head(requests)] = "cancelled"
       THEN toTmux' = Append(toTmux, 1) /\ UNCHANGED <<engineVars, task, writing>>
       ELSE /\ task' = "writing" /\ writing' = Some(Head(requests))
            /\ RegisterCommand /\ UNCHANGED toTmux
    /\ InputUnchanged
    /\ UNCHANGED <<callVars, stdin, waiters, chunk, out, events, told>>

TakeRequest ==
    /\ task = "selecting" /\ requests # << >>
    /\ task' = "writing" /\ writing' = Some(Head(requests))
    /\ requests' = Tail(requests)
    /\ RegisterCommand
    /\ UNCHANGED <<tmuxVars, callVars, stdin, waiters, chunk, out, events, told>>

HandlesDropped ==
    /\ task = "selecting" /\ requests = << >> /\ dropped
    /\ task' = "detaching"
    /\ UNCHANGED <<engineVars, tmuxVars, callVars, requests, writing, stdin, waiters, chunk, out,
                   events, told>>

(* The write is an await: calls are queued meanwhile, nothing is read. *)
Written ==
    /\ task = "writing" /\ alive
    /\ task' = "selecting" /\ writing' = None
    /\ toTmux' = Append(toTmux, 1)
    /\ waiters' = waiters \cup {[id |-> Current, call |-> writing[1]]}
    /\ InputUnchanged
    /\ UNCHANGED <<engineVars, callVars, requests, stdin, chunk, out, events, told>>

(* Mutant of WriteFails: the loop goes on. *)
BadWriteFails ==
    /\ task = "writing"
    /\ alive => WriteMayFail
    /\ task' = "selecting" /\ writing' = None
    /\ stdin' = "failed"
    /\ replies' = [replies EXCEPT ![writing[1]] = Some(Disconnected)]
    /\ UNCHANGED <<engineVars, tmuxVars, driver, callers, dropped, requests, waiters, chunk, out,
                   events, told>>

(* The pipe then holds nothing of the line, all of it (only the flush      *)
(* failed), or a part of it.                                               *)
WriteFails ==
    /\ task = "writing"
    /\ alive => WriteMayFail
    /\ task' = "detaching" /\ writing' = None
    /\ \/ UNCHANGED toTmux /\ stdin' = "failed"
       \/ alive /\ toTmux' = Append(toTmux, 1) /\ stdin' = "failed"
       \/ alive /\ UNCHANGED toTmux /\ stdin' = "torn"
    /\ replies' = [replies EXCEPT ![writing[1]] = Some(Disconnected)]
    /\ InputUnchanged
    /\ UNCHANGED <<engineVars, driver, callers, dropped, requests, waiters, chunk, out, events,
                   told>>

(* Whether the read can win the race. *)
ReadWins == task = "selecting" /\ (driver.biased => requests = << >> /\ ~dropped)

Read ==
    /\ ReadWins
    /\ \E n \in 1 .. Len(toClient) :
         /\ chunk' = SubSeq(toClient, 1, n)
         /\ toClient' = SubSeq(toClient, n + 1, Len(toClient))
    /\ task' = "feeding"
    /\ UNCHANGED <<toTmux, alive, number, taken, running, served, noted, internals, lost>>
    /\ UNCHANGED <<engineVars, callVars, requests, writing, stdin, waiters, out, events, told>>

ReadEnds ==
    /\ ReadWins
    /\ ReadMayFail \/ (~alive /\ toClient = << >>)
    /\ task' = "detaching"
    /\ UNCHANGED <<engineVars, tmuxVars, callVars, requests, writing, stdin, waiters, chunk, out,
                   events, told>>

(* What the end of the task leaves of the queue. *)
CloseChannel == requests' = IF driver.dropsQueued THEN << >> ELSE requests

(* One line of feed's loop.  A failed debug_assert unwinds the task, and   *)
(* the runtime drops all it owns.                                          *)
FeedLine ==
    /\ task = "feeding" /\ chunk # << >>
    /\ OnLine(Head(chunk))
    /\ IF panicked'
       THEN /\ task' = "unwound"
            /\ waiters' = {} /\ chunk' = << >> /\ out' = << >>
            /\ CloseChannel
       ELSE /\ chunk' = Tail(chunk)
            /\ out' = out \o incoming'
            /\ task' = IF chunk' = << >> THEN "resolving" ELSE "feeding"
            /\ UNCHANGED <<requests, waiters>>
    /\ UNCHANGED <<tmuxVars, callVars, writing, stdin, events, told>>

(* resolve: a reply goes to the waiter of its id, if there is one. *)
Resolve(id, result) ==
    /\ waiters' = {waiter \in waiters : waiter.id # id}
    /\ replies' = [call \in CommandId |->
                     IF [id |-> id, call |-> call] \in waiters THEN Some(result)
                     ELSE replies[call]]
    /\ told' = IF waiters' # waiters /\ InLoop THEN Append(told, AnswerTo(id, result)) ELSE told

HandOut ==
    /\ task \in {"resolving", "draining"} /\ out # << >>
    /\ out' = Tail(out)
    /\ \/ /\ Head(out).type = "reply"
          /\ Resolve(Head(out).id, Head(out).result)
          /\ UNCHANGED events
       \/ /\ Head(out).type = "notification"
          /\ events' = Append(events, Head(out).line)
          /\ UNCHANGED <<waiters, replies, told>>
    /\ UNCHANGED <<engineVars, tmuxVars, driver, callers, dropped, requests, task, writing, stdin,
                   chunk>>

HandedOut ==
    /\ task \in {"resolving", "draining"} /\ out = << >>
    /\ task' = IF task = "resolving" THEN "selecting" ELSE "reaping"
    /\ UNCHANGED <<engineVars, tmuxVars, callVars, requests, writing, stdin, waiters, chunk, out,
                   events, told>>

----------------------------------------------------------------------------
(* Teardown. *)

(* Mutant of Teardown: the empty line is not written. *)
BadTeardown ==
    /\ task = "detaching"
    /\ task' = "draining"
    /\ OnEof
    /\ out' = incoming'
    /\ UNCHANGED <<tmuxVars, callVars, requests, writing, stdin, waiters, chunk, events, told>>

(* The empty line, and on_eof.  A failed write is ignored; what is written *)
(* ends the torn line, if there is one.                                    *)
Teardown ==
    /\ task = "detaching"
    /\ task' = "draining"
    /\ \/ /\ alive
          /\ toTmux' = Append(toTmux, IF stdin = "torn" THEN 1 ELSE 0)
          /\ UNCHANGED stdin
       \/ /\ alive => WriteMayFail
          /\ stdin' = "failed"
          /\ UNCHANGED toTmux
    /\ OnEof
    /\ out' = incoming'
    /\ InputUnchanged
    /\ UNCHANGED <<callVars, requests, writing, waiters, chunk, events, told>>

Reap ==
    /\ task = "reaping"
    /\ HasChild => ~alive
    /\ task' = "done"
    /\ waiters' = {}
    /\ CloseChannel
    /\ UNCHANGED <<engineVars, tmuxVars, callVars, writing, stdin, chunk, out, events, told>>

----------------------------------------------------------------------------
Peer == TmuxNext /\ UNCHANGED <<engineVars, callVars, requests, taskVars>>

CallStep ==
    \E call \in CommandId : Call(call) \/ Return(call) \/ Cancel(call)
TaskStep ==
    TakeRequest \/ HandlesDropped \/ Written \/ WriteFails \/ Read \/ ReadEnds \/ FeedLine
      \/ HandOut \/ HandedOut \/ Teardown \/ Reap

Next == CallStep \/ DropClient \/ TaskStep \/ Peer

Spec == Init /\ [][Next]_vars

(* The executor runs the task and the futures that can run; tmux finishes  *)
(* the command it runs, runs the next that waits, and detaches.            *)
Fairness ==
    /\ WF_vars(TaskStep)
    /\ \A call \in CommandId : WF_vars(Return(call))
    /\ WF_vars((Begin \/ End \/ LoseEnd \/ Detach)
                 /\ UNCHANGED <<engineVars, callVars, requests, taskVars>>)

FairSpec == Spec /\ Fairness

----------------------------------------------------------------------------
(* A command printed no line shaped like a guard.                          *)
NoEcho ==
    /\ \A block \in ToSet(served) : \A l \in ToSet(block.lines) : ~IsGuard(l)
    /\ running # None => \A l \in ToSet(running[1].lines) : ~IsGuard(l)

(* A call returns what its own command produced, complete, whatever other  *)
(* calls are in flight or were cancelled (tokio_rt.rs:6-7, 85-86).         *)
ReturnsItsOwn ==
    NoEcho =>
      \A call \in CommandId :
        callers[call] = "returned" /\ Returned(call) # Disconnected =>
          call < Len(served) /\ Returned(call) = served[call + 1]

(* Disconnected is only said once the loop is left: no later call can then *)
(* succeed (tokio_rt.rs:86, "once the session has ended").                 *)
DisconnectedIsFinal ==
    (\E call \in CommandId : callers[call] = "returned" /\ Returned(call) = Disconnected)
      => ~InLoop

(* Every call returns, or is cancelled by its caller; those still queued   *)
(* or waiting when the session ends are told so (tokio_rt.rs:184-185, "so  *)
(* awaiting callers unblock").                                             *)
EveryCommandReturns ==
    \A call \in CommandId : callers[call] = "awaiting" ~> callers[call] # "awaiting"

(* tmux cannot flush what it printed, and the task does not read any more. *)
BacksUp == alive /\ Buffered /\ task = "reaping"

(* A write failed, and what the teardown wrote did not reach a live tmux   *)
(* as an empty line: it failed too, or it ended a torn command.            *)
Unheard ==
    task \in {"draining", "reaping"} /\ alive /\ stdin # "whole" /\ 0 \notin ToSet(toTmux)

(* A call waits only on two accounts: it was queued to a smol task that    *)
(* has ended, or to a task that itself waits for a tmux that backs up or   *)
(* was never told to detach.                                               *)
WaitsOnlyIfLeftBehind ==
    \A call \in CommandId :
        callers[call] = "awaiting" ~>
          \/ callers[call] # "awaiting"
          \/ BacksUp \/ Unheard
          \/ task \in Ended /\ ~driver.dropsQueued /\ call \in ToSet(requests)

(* After the client is dropped the task detaches tmux, reaps the child and *)
(* ends (tokio_rt.rs:38-40, "the empty-line detach on teardown exits it    *)
(* cleanly").                                                              *)
DropTerminates == dropped ~> task \in Ended

(* The same where tmux has room for the output nobody reads, and gets the  *)
(* empty line.                                                             *)
DropTerminatesIfFlushed == dropped ~> task \in Ended \/ BacksUp \/ Unheard

Abstract == INSTANCE Correlator WITH
    Outcome <- [status : {"ok", "failed"}, lines : Seq(ContentLine)],
    Gone <- Disconnected,
    sent <- next_id,
    outcomes <- served,
    answers <- told \o (IF InLoop THEN << >>
                        ELSE [i \in 1 .. next_id - Len(told) |->
                                AnswerTo(Len(told) + i - 1, Disconnected)]),
    over <- ~InLoop

(* The driver keeps the promise of Correlator, step by step; the end of    *)
(* the session is the step that leaves the loop, though the calls are told *)
(* later.                                                                  *)
KeepsPromise == Abstract!Init /\ [][NoEcho' => [Abstract!Next]_Abstract!vars]_vars
=============================================================================
