------------------------------- MODULE Engine -------------------------------
(***************************************************************************)
(* The sans-IO engine (src/engine.rs): the parser, the FIFO of outstanding *)
(* command ids, and one action per call a driver makes.  incoming is the   *)
(* value the last call returned.  The module constrains neither the order  *)
(* of the calls nor the lines fed: EngineNext is every use of the API.       *)
(*                                                                         *)
(* A failed debug_assert unwinds out of the call: panicked records it, and *)
(* no driver calls the engine again.                                       *)
(***************************************************************************)
EXTENDS Parser

CONSTANTS
    DebugAssertions,    \* TRUE in a build with debug assertions, FALSE in a release
    MaxCommands,        \* bound on next_id
    MaxOutput           \* bound on the output lines of one block

ASSUME DebugAssumption == DebugAssertions \in BOOLEAN
ASSUME BoundAssumption == MaxCommands \in Nat /\ MaxOutput \in Nat

VARIABLES
    parser,         \* Option(PendingReply)
    pending,        \* the ids of the outstanding commands, oldest first
    next_id,
    last_number,    \* Option(Number): the last control reply's number
    panicked,
    incoming        \* the Incoming values the last call returned

engineVars == <<parser, pending, next_id, last_number, panicked, incoming>>

CommandId == 0 .. MaxCommands - 1

Ok(lines) == [status |-> "ok", lines |-> lines]
Failed(lines) == [status |-> "failed", lines |-> lines]
Disconnected == [status |-> "disconnected", lines |-> << >>]
CommandResult == [status : {"ok", "failed", "disconnected"}, lines : Seq(ContentLine)]

IncomingNotification(line) == [type |-> "notification", line |-> line]
IncomingReply(id, result) == [type |-> "reply", id |-> id, result |-> result]
Incoming == [type : {"notification"}, line : Line]
              \cup [type : {"reply"}, id : CommandId, result : CommandResult]

TypeOK ==
    /\ parser \in Option(PendingReply)
    /\ pending \in Seq(CommandId)
    /\ next_id \in 0 .. MaxCommands
    /\ last_number \in Option(Number)
    /\ panicked \in BOOLEAN
    /\ incoming \in Seq(Incoming)

EngineInit ==
    /\ parser = None
    /\ pending = << >>
    /\ next_id = 0
    /\ last_number = None
    /\ panicked = FALSE
    /\ incoming = << >>

(* Mutant of RegisterCommand: the counter is bumped before the id is taken. *)
BadRegister ==
    /\ ~panicked
    /\ next_id < MaxCommands
    /\ next_id' = next_id + 1
    /\ pending' = Append(pending, next_id + 1)
    /\ incoming' = << >>
    /\ UNCHANGED <<parser, last_number, panicked>>

RegisterCommand ==
    /\ ~panicked
    /\ next_id < MaxCommands
    /\ next_id' = next_id + 1
    /\ pending' = Append(pending, next_id)
    /\ incoming' = << >>
    /\ UNCHANGED <<parser, last_number, panicked>>

ResultOf(reply) == IF reply.error THEN Failed(reply.output) ELSE Ok(reply.output)

(* The debug_assert's condition: control numbers strictly increase. *)
Increasing(number) == \A i \in DOMAIN last_number : number > last_number[i]

(* The call of debug_assert fails: it unwinds before last_number is set. *)
Tripwire(reply) ==
    /\ DebugAssertions
    /\ ~Increasing(reply.number)
    /\ panicked' = TRUE
    /\ incoming' = << >>
    /\ UNCHANGED <<pending, last_number>>

PassOver ==
    /\ incoming' = << >>
    /\ UNCHANGED <<pending, last_number, panicked>>

PopFront(reply) ==
    /\ DebugAssertions => Increasing(reply.number)
    /\ last_number' = Some(reply.number)
    /\ IF pending = << >>
       THEN incoming' = << >> /\ UNCHANGED pending
       ELSE /\ incoming' = << IncomingReply(Head(pending), ResultOf(reply)) >>
            /\ pending' = Tail(pending)
    /\ UNCHANGED panicked

(* Mutants of Correlate. *)
BadCorrelateIgnoresFlag(reply) == Tripwire(reply) \/ PopFront(reply)
BadCorrelatePopsBack(reply) ==
    \/ ~reply.control /\ PassOver
    \/ reply.control /\ Tripwire(reply)
    \/ /\ reply.control
       /\ DebugAssertions => Increasing(reply.number)
       /\ last_number' = Some(reply.number)
       /\ IF pending = << >>
          THEN incoming' = << >> /\ UNCHANGED pending
          ELSE /\ incoming' = << IncomingReply(pending[Len(pending)], ResultOf(reply)) >>
               /\ pending' = SubSeq(pending, 1, Len(pending) - 1)
       /\ UNCHANGED panicked

Correlate(reply) ==
    \/ ~reply.control /\ PassOver
    \/ reply.control /\ Tripwire(reply)
    \/ reply.control /\ PopFront(reply)

(* push's event: nothing, a notification handed on, or a reply correlated. *)
Surface(event) ==
    \/ /\ event = None
       /\ PassOver
    \/ /\ event # None /\ event[1].type = "notification"
       /\ incoming' = << IncomingNotification(event[1].line) >>
       /\ UNCHANGED <<pending, last_number, panicked>>
    \/ /\ event # None /\ event[1].type = "reply"
       /\ Correlate(event[1].reply)

OnLine(line) ==
    LET step == Push(parser, line) IN
    /\ ~panicked
    /\ parser' = step.parser
    /\ Surface(step.event)
    /\ UNCHANGED next_id

(* Mutant of OnEof: only the oldest command is told. *)
BadOnEof ==
    /\ ~panicked
    /\ incoming' = [i \in 1 .. (IF pending = << >> THEN 0 ELSE 1) |->
                      IncomingReply(pending[i], Disconnected)]
    /\ pending' = SubSeq(pending, 2, Len(pending))
    /\ UNCHANGED <<parser, next_id, last_number, panicked>>

OnEof ==
    /\ ~panicked
    /\ incoming' = [i \in 1 .. Len(pending) |-> IncomingReply(pending[i], Disconnected)]
    /\ pending' = << >>
    /\ UNCHANGED <<parser, next_id, last_number, panicked>>

----------------------------------------------------------------------------
(* Every use of the API, within the bounds. *)

Feedable == IF parser = None \/ Len(parser[1].output) < MaxOutput THEN Line ELSE Guard

EngineNext ==
    \/ RegisterCommand
    \/ \E line \in Feedable : OnLine(line)
    \/ OnEof

EngineSpec == EngineInit /\ [][EngineNext]_engineVars

----------------------------------------------------------------------------
(* How many commands have been answered: ids are handed out from 0. *)
Answered == next_id - Len(pending)

(* The outstanding ids are exactly the last Len(pending) that              *)
(* register_command handed out, in the order it handed them out: no id is  *)
(* lost, duplicated or overtaken (engine.rs, "Correlation is FIFO").       *)
FifoIntact ==
    /\ Len(pending) <= next_id
    /\ \A i \in 1 .. Len(pending) : pending[i] = Answered + i - 1

RepliesIn(s) == {i \in DOMAIN s : s[i].type = "reply"}

OldestAnswered ==
    /\ Answered' = Answered + (IF RepliesIn(incoming') = {} THEN 0 ELSE Len(incoming'))
    /\ \A i \in RepliesIn(incoming') : incoming'[i].id = Answered + i - 1

(* A call that surfaces replies answers the oldest outstanding commands,   *)
(* in order, and takes exactly those off the FIFO: with FifoIntact, every  *)
(* command is answered at most once and in send order.                     *)
AnswersOldest == [][OldestAnswered]_engineVars

AnswerFromControlBlock ==
    \A i \in RepliesIn(incoming') :
      incoming'[i].result # Disconnected =>
        /\ parser # None
        /\ parser[1].control
        /\ incoming'[i].result.lines = parser[1].output
        /\ last_number' = Some(parser[1].number)

(* Only a control block that was open answers a command with output, and   *)
(* the answer is that block's own lines; a server-internal block, a        *)
(* notification or an unsolicited guard leaves the FIFO alone              *)
(* (engine.rs:115-143, "cannot desync correlation").                       *)
OnlyControlBlocksAnswer == [][AnswerFromControlBlock]_engineVars
=============================================================================
