# tmuxctl: verification project

TLA+ models of `tmuxctl`, a Rust client for tmux's control mode (`tmux -C`), the
TLC configurations that check them, and TLAPS proofs about its protocol engine, its
drivers and its decoders.
Paths below are relative to the crate (`src/parser.rs`, `docs/...`).

`tlc -config X.cfg M` checks a configuration, `tlapm M.tla` the proofs.
`PROJECT.json` lists runs, mutants, theorems, hazards, and the source lines
every definition translates.

## The system

A client writes command lines to tmux's stdin and reads one line stream from its
stdout, in which reply blocks (`%begin` ... `%end`/`%error`) and asynchronous
notifications are mixed. Replies carry no identity of ours: the k-th control
block answers the k-th command sent.

| Component | State | Operations | Correct when |
|---|---|---|---|
| Line parser (`parser.rs`) | the open reply block, if any | `push` one line | a line inside a block is output and nothing else; a block ends once; a lost `%end` does not swallow the next block |
| Line grammar (`parser.rs`, `notification.rs`, `ids.rs`) | none | `parse_guard`, `parse_notification`, `parse_output_line` | what tmux reports is what is read; malformed lines degrade to `Unknown` and lose nothing |
| Engine (`engine.rs`) | parser, FIFO of outstanding ids, id counter, partial line, last control number | `register_command`, `feed`, `on_line`, `on_eof` | each command is answered at most once, in order, by its own block; chunking does not matter |
| Blocking driver (`blocking.rs`) | `Shared` behind a mutex (engine, writer, waiters, connected), reader thread, child | `command`, reader loop, `Drop` | no waiter is orphaned, `command` returns its own reply, everything terminates |
| Async drivers (`tokio_rt.rs`, `smol_rt.rs`) | owner task with engine, waiters, request channel | `command`, the owner task's loop, teardown | as above, with cancelled futures and dropped handles |
| Layout (`layout.rs`) | none | `parse`, `render`, `checksum` | parse inverts render; depth and number ranges are bounded |
| Output decoding (`output.rs`) | none | `decode_output` | inverts tmux's escaping, total on any bytes |
| Commands, spawn options (`commands.rs`, `spawn.rs`) | none | formatting | the words tmux expects |
| tmux | external | runs its queue serially | what the client relies on, `docs/reference/tmux-source-map.md` |

How they interact: a driver owns one engine. It calls `register_command` in the
order it writes commands (the mutex in the blocking driver, the single owner task
in the async ones make the two one step), feeds every chunk it reads, hands each
`Incoming` to the waiter or to the events channel, and calls `on_eof` once.

What is hard here: positional correlation (one block too many or too few shifts
every later answer), chunk boundaries, a lost guard, the end of the session
racing with a command, panics while the mutex is held, `Drop` waiting for a
thread that waits for tmux that waits for `Drop`, and a tmux that cannot leave because
nobody reads what it has printed. The list, line by line and with
the properties that watch each point, is under `hazards` in `PROJECT.json`.

## Modules

| Module | Models |
|---|---|
| `Parser` | `push` as operators on the open block: `PushAtTopLevel`, `PushWithinBlock`, `CloseBlock` |
| `Engine` (extends `Parser`) | the engine's variables, `RegisterCommand`, `OnLine` (with `Correlate` and the `debug_assert`), `OnEof`; `EngineSpec` is every use of the API |
| `Feed` (extends `Engine`) | `Engine::feed` over bytes: `Call`, one `NextLine` per turn of the loop, `Return` |
| `Tmux` (extends `Parser`) | the peer: two pipes, the one it writes to bounded, serial command queue, internal blocks, notifications, exit at any moment, loss of a closing guard |
| `Correlator` | the abstract promise: commands are executed and answered in order, each with its own outcome, and at the end of the session the rest are told so |
| `Correlation` (extends `Engine`, `Tmux`) | both ends together, with the part of a driver all three share; commands may be pipelined |
| `Blocking` (extends `Engine`, `Tmux`) | the blocking driver: caller, reader thread, mutex, poisoning, `Drop` |
| `OwnerTask` (extends `Engine`, `Tmux`) | the tokio and smol drivers: calls as futures, the request channel, the owner task at its await points, teardown |
| `LineGrammar` (extends `Enumeration`, instantiates `Parser`) | what one line says: guards, the two `%output` paths over bytes, the table of notifications, `push` over such lines; and what tmux writes, with words of it changed |
| `Checksum` | the 16-bit rotate-and-add loop of `checksum`, over a layout and a changed copy of it |
| `Layout` (instantiates `Checksum`) | `render`, `to_layout_string`, `parse` over tokens, and edits of a rendered string |
| `Output` (extends `Enumeration`) | the loop of `decode_output`, with tmux's escaping and a declarative reading of any payload as the references |
| `Enumeration` | what it means that a sequence lists a set in ascending order, for `Output` and `LineGrammar` |
| `EngineProofs`, `FeedProofs`, `CorrelationProofs`, `BlockingProofs`, `OwnerTaskProofs` | theorems about `Engine`, `Feed`, `Correlation`, `Blocking`, `OwnerTask` |
| `LayoutProofs` | theorems about `Layout` and `Checksum` |
| `GrammarProofs` | theorems about `LineGrammar` and `Output` |
| `TmuxProofs` | lemmas about the steps of `Tmux` and about sequences, for the proofs of what is composed with it |
| `MC*` | constants for TLC |

Conventions. An `Option` is a sequence of at most one element. A line is a record
that keeps what the parser tells apart (a guard with number and control flag, an
`%output` line, a blank line, other text) and a `body` for the rest; in the models
with tmux the body names the command that printed it, so an answer that holds
another command's line is visible. Operators named `Bad...` are variants of the
definition after them with a plausible mistake; no specification uses them.
History variables (`stream`, `lines`, `marks`, `served`, `noted`, `answers`,
`heard`, `told`, `returned`) are only read by properties.

Correspondence of actions and code:

* `Engine`: `RegisterCommand` is `register_command`; `OnLine(line)` is `on_line`,
  where `Surface` is its `match` and `PassOver`, `Tripwire`, `PopFront` are the
  paths through `correlate` (not a control reply; the assertion fails; the rest,
  with the early return on an empty FIFO). `OnEof` is `on_eof`. `incoming` is the
  value the call returns. `DebugAssertions` selects the build; a failed assertion
  sets `panicked`, after which no driver calls the engine.
* `Feed`: `Call` is `feed` up to its loop, `NextLine` one turn, `Return` its exit.
  Exclusive borrowing makes the calls atomic for the driver, so `Register` and
  `Eof` happen between calls. `LineOf` is what the parser makes of the bytes of one
  line, an arbitrary function.
* `Correlation`: `Send` is register-and-write in one step. `SendFails` leaves the id
  in the FIFO; the line may have reached tmux all the same. `Watch` is no code: `cut` and `due`
  are history, of the blocks whose closing guard got lost and of the notifications that no such
  block swallows. `ReadLine` feeds one line; `ReadEof` drains at the end of the stream
  (blocking driver), `Teardown` as soon as the driver leaves its loop (async ones).
* `Blocking`: `CommandRegister`, then `CommandWritten`, `CommandWriteFails` or
  `CommandPanics`, then `CommandReturns` are the stretches of `command`; the lock is
  held from the first to the second. `ReadLines`/`ReadEnds` are the outcomes of
  `read` (`Interrupted` is a stuttering step); `DispatchLock`, `FeedLine`...,
  `FeedReturns`, `HandOut`..., `Unlock` are `dispatch`; `Disconnect`, `HandOut`...,
  `Unlock` are `disconnect`; `DropClient`, `DropDetach`, `DropJoin`, `DropReap` are
  `Drop`. A `command` that finds the lock poisoned or the session over returns
  `Disconnected` at once and changes nothing, which is a stuttering step.
  A write or flush may fail while tmux lives (`WriteMayFail`), and then nothing of the line
  is in the pipe, all of it, or a part without its end; `stdin` remembers which
  (`MayArrive`). What `drop` writes to detach is in the last case the end of that torn line: tmux
  runs a command instead of detaching, and the join waits for it to exit on its own. The write of
  the empty line may fail as well, and the code ignores it. `OwnerTask` has the same.
  `Client` holds an `mpsc::Receiver` and is not `Sync`, so one caller runs at a time.

  In the mapping to `Correlator` a caller's panic ends the session: the poisoned lock
  refuses every later command.
* `OwnerTask`: `Call` is `command` up to its first await, `Return` its end, `Cancel`
  the drop of its future (the request, or the waiter, stays behind). `TakeRequest` or
  `HandlesDropped` is the request arm of the race, `Read` or `ReadEnds` the read arm;
  `Written`/`WriteFails` resume after the write; `FeedLine`... then `HandOut`...,
  `HandedOut` are the loop over `feed`. `Teardown` writes the empty line and calls
  `on_eof`; `Reap` waits for the child and ends the task. The two drivers are one
  module and a variable `driver` that never changes, `Tokio` or `Smol`: `biased` is who wins
  the race (`future::or` polls the requests first, `select!` picks at random),
  `dropsQueued` what becomes of requests queued when the receiver goes (tokio's `mpsc`
  drops them, async-channel keeps them until the last sender goes; both are facts about
  the libraries that `Cargo.lock` pins). `Drivers` says which of them a run is about. A task
  that unwinds is dropped with all it owns.
* `Tmux`: `toClient` is the pipe, of `PipeSize` lines, and behind it tmux's own buffer: tmux
  never waits for the pipe and goes on running commands, but it leaves in order
  (`Detach`) only when its buffer has gone out, and what a crash (`Exit`) finds in the
  buffer is lost.
* `LineGrammar`: a line is the sequence of words `split(' ')` yields, a word a sequence of
  chunks. The `Parse...` operators are the functions of that name; `Id` is
  `pane_id`/`window_id`/`session_id`, `TwoIds` the two `parse_..._changed` functions that are
  alike, `FirstSeparator` is `find_subslice` and `split_once`, `PushLine`, `TextAtTopLevel`
  and `TextWithinBlock` are `push` and its two halves. Layout strings and octal escapes are
  single chunks, their insides are modules `Layout` and `Output`. `Arguments` and `Wires` say
  what tmux writes for a message (`docs/reference/tmux-source-map.md`), `Reportable` which messages
  it has; `ReplaceWord`,
  `DropWord`, `InsertWord` are not code, they make lines tmux would not write.
* `Checksum`: `RotateAdd` is the body of the loop, `ReadByte` a turn of it over both
  strings at once. `Layout`: a parser is given a place in the text and yields the place of
  the rest, where the code passes slices. `ParseNode` is `parse_node`, `ParseChild` one turn
  of the loop of `parse_children`, with the return or the next turn that ends it;
  `ParseChildren` is the function of the number of turns still allowed that the two recurse
  by, and as every turn consumes a token the length of the text is turns enough. In the same
  way `RenderWithin` is `write_tree` for the trees of `LayoutsWithin`, those with so many nested
  splits. `IsNumeral` is `take_dimension`/`take_pane`, `Body` and `HasChecksum` are
  `split_checksum`. A split has at least one child, as in tmux: the type also allows none,
  and what `render` makes of that no `parse` accepts. A token is the bytes it is made of: a run
  of hexadecimal digits (`Num` writes a number in decimal, `HexWord` a checksum in four small digits;
  `Number` and `HexValue` read any spelling of them), or one separator. `Replace`, `Delete`,
  `Insert`, `Capitalise` are not code: they make the strings `parse` is tried on, in which no two
  words touch, as they would be one.
* `Output`: `Escape` and `Literal` are the two ways through a turn of the loop,
  `ParsesOctal` and `Value` are `parse_octal`, indices are the code's.

## Runs

| Run | Question | Result |
|---|---|---|
| `feed` | Is framing independent of how the stream is cut, does each line mean what its history says (a declarative reference, `EventAt`), does the FIFO stay intact, and does each call answer exactly the oldest commands from the control block that just closed? | holds |
| `correlation` | With pipelined commands, internal blocks, notifications, failing writes, exits, detaches and a lost closing guard: is each answer its own command's, does the desync assertion stay silent, do notifications come through in order but for those the lost guard costs, is nobody left waiting after the drain? Does the system implement `Correlator` until a guard is lost, and is every command answered that reached tmux and that no lost guard withholds? | holds |
| `blocking` | With a tmux that exits or backs up, reads and writes that fail, and a writer that panics: is any waiter orphaned, is a command ever written before all earlier ones are served, does `command` return its own result and always return, does the reader outlive a caller's panic, does a client nobody panicked in drop cleanly if its empty line arrives, and does the driver implement `Correlator`? | holds |
| `async` | For both async drivers, with cancellation, failing reads and writes, a dropped client, a pipe that is full and output that unwinds the task: does each call get its own answer whatever is cancelled, is `Disconnected` only said of an ended session, is `Correlator` implemented, and do calls wait, and tasks live on, for no other reason than those `teardown` and `smol_queue` show, or that tmux never got the empty line? | holds |
| `strings` | Does one changed byte always change the checksum? Does `parse` read back every rendering down to the nesting limit, accept nothing else but other spellings of its numbers, and reject a string with a checksum and one byte changed? Does `decode_output` undo tmux's escaping, and find the escapes that a declarative reading finds in any bytes? Is every line tmux writes read as what it reports, is of any other line nothing made up and nothing lost but what is named, is every window flag kept, and does `push` over such lines implement `Parser`? | holds |
| `guard_shaped_output` | Does a block end at the `%end` with its own number, as the source map asks? | violated |
| `command_sequence` | Does every reply go to the command that produced it, even if a line holds `a ; b`? | violated |
| `drop_after_panic` | Does `Drop` terminate after a caller panicked? | violated |
| `reader_unwinds` | Does `command` return in a build with debug assertions when output looks like a `%begin`? | violated |
| `smol_queue` | Does every call on the smol driver return once the session has ended? | violated |
| `teardown` | Does the owner task of a dropped client end? | violated |
| `subscription_drift` | Is a `%subscription-changed` line that has lost the shape of its header kept as `Unknown`? | violated |

The seven violations are disagreements between the code and what a comment or a
document says of it; `findings` in `PROJECT.json` quotes the lines. `guard_shaped_output`,
`command_sequence`, `drop_after_panic` and `reader_unwinds` do not appear with output free of
guard-shaped lines, one command per line, and a writer that does not panic, which is
what the passing runs assume where they must and say so in their constants (`Echoed = {}`,
`MaxPerLine = 1`) or properties (`NoEcho`, `CleanDropTerminates`); `async` is checked with
guard-shaped output and a task that unwinds.
`smol_queue` needs only a call that is queued between the last `recv` of the owner task and
its end: the reply channel inside the request lives as long as the queue, the queue as
long as the client that waits. `teardown` needs a tmux with more output than its pipe
holds when the client is dropped: the task has left its loop, so nothing empties the
pipe, and it keeps the reading end open while it waits for the child. `subscription_drift`
needs a header with a word too few or too many: the value is then what is behind the first
` : ` wherever that is, or empty. (In the other direction the code is stricter than the
decision record, which says that extra trailing fields are ignored: behind the two ids of
`%window-pane-changed` and `%session-window-changed`, `parser.rs:319,328`, one more field makes the
line `Unknown`.)

Bounds. `feed`: two commands (a front and a back of the FIFO), two numbers (increasing,
equal, decreasing), every stream of up to nine bytes over three byte values, in chunks
of up to three; nine bytes hold two whole blocks, a truncated block, a stray guard, and
a blank line inside a block.
`correlation`: two commands in flight, one line of output each, which the text path cannot
be mistaken for, one internal block, two notifications of different kinds (so that their order
shows), one lost guard and writes that may fail; its pipe never
fills up, as no property of it is about a full one.
`blocking`: two commands, so that one follows a failure of the other; only one is
ever in flight. `async`: two calls, so that one can be cancelled, queued or
written while the other is anywhere. A block has at least two lines, so a pipe of one
(`blocking`) or two (`async`) is full both in the middle of a block and at its end, and
empties in between. `strings` takes one decoder at a time. Checksum: four
bytes of four values, with both values of the top bit; the theorem covers the rest.
Layout: one split level beyond `MaxDepth = 2`, numbers of one and two digits up to
`MaxDim = 12` and `MaxPane = 13` and one beyond, with and without zeros in front, a word that is
no numeral and one that passes for a checksum (`EditWords`), capitals; every string one edit away
from a tree of up to one split and two edits from one with one leaf; the code's limit of 128 enters `parse_node` only through the comparison, and
the theorems hold for any. `MaxNesting = 3` is the depth of the deepest of these trees.
Output: five bytes hold an escape and a byte on either side of it, and two escapes that
overlap; the byte values are the edges of the escaping and of `u8`.
Grammar: every kind of notification and guard; numbers that fit `u32`, only `u64` (`MaxU32 = 1`,
`MaxU64 = 2`: the two widths enter only through comparisons), and neither; names, values
and payloads of up to three words that are empty, a separator, not UTF-8, or plain; and
lines one word away from those (two for the shortest), where the words put in are one
or more of each class a function tests for. `MaxOutput` only bounds `EngineSpec`'s inputs.

Deadlock is not checked: the client may stop calling, tmux may exit and both
sides rest, which is a normal end of every model.

Fairness. The drivers' own steps are weakly fair: a thread or task that can run is
run, the mutex is released after finitely many steps and commands are bounded, so
weak fairness of the reader is enough. Calling `command` or `drop` is never assumed.
tmux is assumed to finish the command it runs, to run the next that waits and to
honour a detach once its output has gone out; nothing is assumed of notifications, or of
its exiting.

Four waits have no end, and the liveness properties name each of them instead of
assuming it away. If the closing guard of the last block is lost, its command waits for
the next `%begin` or for the end of the session (`Withheld`; with the blocking driver no
other command can be sent meanwhile, so `blocking` and `async` are checked without lost
guards). If nobody reads any more and tmux cannot flush, it does not leave (`BacksUp`: in
the blocking driver only after a read failed, in the async ones after any end of the
loop). What is queued to a smol task that has ended stays queued. And if a write fails while
tmux lives, the empty line that should detach it may fail too, or end a torn command: tmux, and
whoever joins or reaps it, then goes on until it exits by itself (`Unheard`). `NeverReached` is
about `Correlation`, which does not make its driver drain after such a write: its caller was told
`Disconnected` when the write failed.

## Proofs

`EngineProofs` proves, for every set of numbers and bodies, every bound and both
builds, from `NumberAssumption`, `DebugAssumption` and `BoundAssumption`:

* `TypeCorrect`: `EngineSpec => []TypeOK`
* `FifoAlwaysIntact`: `EngineSpec => []FifoIntact`
* `AnswersOldestAlways`, `OnlyControlBlocksAnswerAlways`: the two action properties

The inductive invariant is `IInv == TypeOK /\ FifoIntact`. `FifoIntact` alone is not
inductive: that an appended id extends the interval needs `next_id` to be a natural
number and the FIFO a sequence. The action properties need it too: `pop_front`
returns id `Answered` only because the FIFO is the interval above it. `PushType` and
`ReplyIsOpenBlock` carry what is needed of the parser; each action has one lemma.

`FeedProofs` proves, for every alphabet, every reading of lines and every way of cutting
the stream, from the engine's assumptions and `StreamAssumption` and `LineOfAssumption`:

* `FeedTypeCorrect`: `FeedSpec => []FeedTypeOK`
* `LinesAlwaysTheStreams`: `FeedSpec => []LinesAreTheStreams`
* `EngineKeepsBehindFeed`: what `EngineProofs` proves of every use of the engine holds of it
  behind `feed` (`FeedUsesEngine`: `FeedSpec => EngineSpec`)
* `LinesAlwaysMeanWhatTheyFrame`: `FeedSpec => LinesMeanWhatTheyFrame`, that what each line conveys
  is what the history of lines says of it

The invariant is `FInv`: types, `FifoIntact`, `LinesAreTheStreams` and `WithinStream` (a
block holds fewer lines than were handed on, and those fewer than the bytes consumed).
`LinesAreTheStreams` needs no strengthening of its own beyond types; `WithinStream` is
what shows that a block never reaches the bound on its output before the stream
ends, so that every `NextLine` is an `OnLine` the engine's specification allows. The
lemmas relate slices of `buf` to slices of `stream` (`SliceOfConcat` when a chunk is
appended, `SliceOfRest` when a line is drained). The last theorem compares a parser that
knows only its own block with `EventAt`, which looks back over all the lines. The invariant
that connects them, `BlockIsOpen`, says that the block in progress is the guard and the output of
the one `%begin` in `lines` that is still open, and that there is none if the parser has none.

`LayoutProofs` is about `Checksum` and `Layout`. `OneChangeAlwaysDetected: ChecksumSpec =>
[]OneChangeDetected` holds for layouts of any length. The invariant is that the accumulators are
equal before the changed byte is read and different after it: `RotateAdd` is injective in the
accumulator (`RotatedIsOneToOne`, `RotateAddWraps`, hence `KeepsDifference`) and, for bytes, in
the byte (`SeesByte`). For layouts with any number of children at every split, any depth, any
nesting limit, and any number of edits, from `LayoutAssumption`:

* `AlwaysReadsWhatRenders`: `LayoutSpec => []ReadsWhatRenders`
* `OnlyRenderingsEverAccepted`: `LayoutSpec => []AcceptsOnlyRenderings`
* `CorruptionAlwaysDetected`: `LayoutSpec => CorruptionDetected`

The constants stand for no more than natural numbers: the theorems hold for `u16::MAX`, `u32::MAX`
and `MAX_LAYOUT_DEPTH` = 128. The machine matters little: `Underway` says that the string under
test is a string of tokens and, until it is edited, one of the layout's own. What matters is said of
any text. `NumReadBack` and `DecimalWords` are the arithmetic of one numeral (its decimal digits read
back give the number, and are a word), `HexWords` that of the checksum's four digits. That a layout's
tokens stand at a place of the text, its numbers in any spelling (`SameToken`), is `Stands`;
`StandsConcat` splits it along a concatenation, which is how `LeafThere`, `SplitThere` and
`ChildrenThere` take a rendering apart just where the parsers do. From left to right: where a
rendering stands, `ParseNode` yields the layout and the place behind it, or an error if it does not
fit under the limit (`NodeComplete`, `ChildComplete`, `AllTurnsComplete`, for texts that the turns
allowed suffice for, `Enough`). And back: whatever `ParseNode` yields, its rendering stands there and
the rest is what follows (`NodeSound`, `ChildSound`, `AllTurnsSound`). A text that is one node and
nothing else is therefore its rendering (`StandsWhole`, `AcceptedIsRendering`). Both directions go by
the number of turns, and `CountingUp`, from a least counterexample, takes the place of the library's
induction. `RecursionExists` shows that there are functions which satisfy the recursions of
`LayoutsWithin`, `RenderWithin`, `Num`, `Number`, `ParseChildren`, `Checksum` and `FlattenSeq`. For
corruption, `ChangeSeen` repeats the argument of the first theorem over the bytes of two
texts, which may be cut into tokens differently.

The part of `GrammarProofs` about `Output` proves, for payloads of any length over all 256 values:

* `OutputTypeCorrect`: `OutputSpec => []OutputTypeOK`, the loop stays within the payload
* `RoundTripAlways`: `OutputSpec => []RoundTrip`
* `EveryEscapeDecoded`: `OutputSpec => []DecodesEveryEscape`

The invariant of the second, `BetweenCodes`, says that the cursor stands at the start of the
code of some byte k + 1 and that the first k bytes are out; `ReadsItsCode` is the arithmetic of
one code. No induction over the data is needed, as the payload's own offsets say where
codes start. The third is about payloads that nobody escaped: `BetweenEscapes` says that no
escape spans the cursor and that `out` lists what the bytes before it mean, in order (`Lists`,
of `Enumeration`, counts the places of a set, so that one more byte is one more place).

Of `LineGrammar`, `GrammarProofs` proves, for every set of chunks that `GrammarAssumption` allows, for every set of
messages tmux may report (`MessagesAssumption`), every line that any number of changed words leads
to, and every bound on the changes:

* `GrammarTypeCorrect`: `GrammarSpec => []GrammarTypeOK`
* `NothingEverLostOrMadeUp`: `GrammarSpec => []NothingLostOrMadeUp`
* `AlwaysFramesAsParser`: `GrammarSpec => []FramesAsParser`, and the same of every block in progress,
  where the invariant has a sample of them
* `AlwaysReadsWhatTmuxWrites`: `GrammarSpec => []ReadsWhatTmuxWrites`

The machine matters little here: the invariant `Heard` says that what is heard is a line, and
`HeardAsWritten` that until a word is changed it is one tmux writes for the message. What matters
are two lemmas about all lines. `ReadsAnyLine` says that any line is read as a well-formed
notification that says what stands in it, or is kept verbatim. It goes kind by kind: where a
parser of the code succeeds, the notification written out again is `Alike` the line, word by
word, up to the spelling of numbers and bytes. For the two kinds that skip blanks or search
(`exit`, `subscription-changed`) the place found is the first or the last of its kind
(`Smallest`, `Largest`), and for the flags field `FlagsKept` follows the fold over its characters, by
`SetInduction` on the number of those taken, one character at a time. `MessageComesBack` is the
converse: the line tmux writes for a message is read as that message, after the lossy conversion
that text passes through and the pane's bytes do not. It too has a lemma per kind; those for flags
(`FlagsComeBack`) and for the separator in a subscription need that tmux writes no known flag among
the unknown ones and no bare `:` in the header, which `MessagesAssumption` says.

The proof found a line the property had wrong: `%subscription-changed` with nothing behind it is read as
a subscription with an empty name and an empty value, as `split` of an empty string yields one empty
word (the property asked for the words to be there). The run `strings` has that line now.

`BlockingProofs` proves, for every number of commands and every tmux the constants of
`Tmux` describe, guard-shaped output and lost guards included:

* `BlockingTypeCorrect`: `Spec => []BlockingTypeOK`
* `DisconnectedAlwaysFinal`: `Spec => []DisconnectedIsFinal`
* `NobodyEverStranded`: `~DebugAssertions => (Spec => []NobodyStranded)`

The first two follow from `BlockingInv`: types, `FifoIntact`, that a command in progress has
an id (`InProgress`), and that a `Disconnected` on its way to anybody, in `out` or in the
channel, means that the flag is down (`NoEarlyEnd`); that no line makes the engine say
`Disconnected` is `OnLineAnswers` of `EngineProofs`. `NobodyStranded` is not inductive: between
the lock and the unlock the books differ. `Accounted` says how: a command that waits is in
`waiters`, and its id is in the FIFO or its answer is still in `out`; `out` is empty whenever
the lock is free; the reader that drains leaves an empty FIFO and no way to register. It
needs a build without debug assertions, as the run `reader_unwinds` shows. That the newest
id is the last of the FIFO (`NewestIsLast`) is where `FifoIntact` comes in.

If no command prints a guard-shaped line (`Echoed = {}`), and in either build:

* `NobodyStrandedInDebug`: `Spec => []NobodyStranded`, as the assertion never fires
* `AlwaysWritesAlone`: `Spec => []WritesAlone`
* `AlwaysReturnsItsOwn`: `Spec => [](lost = 0 => ReturnsItsOwn)`
* `PromiseAlwaysKept`: `Spec /\ [](lost = 0) => KeepsPromise`, the refinement of `Correlator`

`lost = 0` says that no closing guard was lost: a block that ends without one is read as
`failed`, which is not what tmux calls it. Their invariant is `WireInv`. It joins `BlockingInv` and
`Accounted` with what lies between the two ends: `StreamFits` of `CorrelationProofs` (below) for the
lines the reader has read and not fed together with those in the pipe (`Reading`); that a
command is registered only when tmux has served all earlier ones (`Owed`, which the lock and the
caller that waits make true, and which is what keeps a writer alone); and that what the reader
hands out, what is in the channel and what was returned is what tmux did for that command
(`Honest`). `ReturnsItsOwn` alone mentions only the last of these three places. The refinement needs
`Books` too: the answers told so far are those of the ids 0, 1, ... without a gap, all
commands are told but the one in flight, and `Disconnected` is the last thing anybody is told.
`Answers` maps a poisoned driver, whose last command is never told anything, to one that told
it `Disconnected`.

`OwnerTaskProofs` proves of both async drivers, in either build, with any number of calls in
flight, cancelled or dropped:

* `TaskTypeCorrect`: `Spec => []TaskTypeOK`
* `DisconnectedAlwaysFinal`: `Spec => []DisconnectedIsFinal`

A call returns `Disconnected` when it is sent one or when the sender of its reply channel is
dropped, so the invariant `TaskInv` follows the senders: as long as the task is in its loop,
the sender of every call that waits is in the queue, with the write in progress, or in a
waiter, unless the reply is already in the channel (`NoEarlyEnd`). `SendersKept` is the
argument for the steps that only move a sender, `ResolveStep` for the one that uses it up.

From `Tame`, which says that no command prints a guard-shaped line or that tmux runs no blocks of
its own account:

* `AlwaysReturnsItsOwn`: `Spec => [](lost = 0 => ReturnsItsOwn)`
* `PromiseAlwaysKept`: `Spec /\ [](lost = 0) => KeepsPromise`, the refinement of `Correlator`

Both properties claim nothing once a guard-shaped line was printed (`NoEcho`), and `NoEcho` must then
stay false or the invariant would have to speak of a stream that was misread before. It does if the line is in
a block of `served`, not if it is in an internal block, which is forgotten; hence `Tame` (the run `async`
has no internal blocks and does echo guards). `WireInv` is that of the blocking driver with many
calls at once: `Numbered` says that the c-th call that reaches the queue becomes the c-th command,
which requests whose future was cancelled do too; `Owed` that tmux never owes more than
was registered, `Honest` that replies in `out` and in the channels are what tmux did, `Reading` that the
stream fits as long as the task is in its loop. `Books` says that the waiters are those of the
ids not told yet, and that `out` holds the replies of exactly the ids the engine has answered
and nobody was told, oldest first. Leaving the loop is the step that the abstract
specification sees as the end; whoever was not told is then mapped to `Disconnected` at once.

`CorrelationProofs` proves of the client and tmux together, with any number of commands in
flight, internal blocks, notifications, exits, detaches and lost closing guards:

* `NobodyEverLeftWaiting`: `Spec => []NobodyLeftWaiting`, whatever tmux prints
* `AlwaysRightAnswer`: `Plain => (Spec => []RightAnswer)`
* `TripwireAlwaysSilent`: `Plain => (Spec => []TripwireSilent)`
* `PromiseAlwaysKept`: `Plain => (Spec => KeepsPromise)`, the refinement of `Correlator`
* `AlwaysAnswersOwn`: `Plain => (Spec => []AnswersOwn)`
* `AlwaysClosesAtOwnEnd`: `Plain => (Spec => ClosesAtOwnEnd)`, the property `guard_shaped_output` refutes
  without that assumption
* `NotesAlwaysInOrder`: `Echoed = {} => (Spec => []IsPrefix(heard, due))`, lost guards or not
* `NotesAlwaysSurvive`: `Echoed = {} => (Spec /\ [][Buffered => alive' = alive]_vars => []NotesSurvive)`

`Plain` says that no command prints a guard-shaped line and that a line of input holds one
command; the runs `guard_shaped_output` and `command_sequence` show that neither can be spared.
The first theorem follows from the client's books alone (`ClientInv`: as many answers as the
engine took off its FIFO, which a drain leaves empty). The others need the stream on its
way between tmux and the parser, and `RightAnswer` says nothing of it. `StreamFits` does:
there is a sequence of points, one per line of the pipe, of what the engine will know
after it (open block, commands answered, last number). It starts where the engine is
(`Here`); each point follows from the one before and its line (`After`); each control block
that closes on the way has a number above the last and the outcome of the command it
will answer (`Sound`); and, as long as tmux lives, the last point is where tmux is (`Meets`): its open block
is the one tmux writes, or one whose guard got lost. A line written extends the sequence by one
point (`StreamGrows`), a line read takes the first away (`LineStep`), a crash cuts it short
(`StreamEnds`); quantifying over the points replaces an induction along the pipe. `InStep` adds that tmux never serves more commands than were sent, so that the
FIFO is not empty when a control block closes, and `PlainLines` what the outcomes are made of.

Notifications have a sequence of points of their own (`NotesInv`): after each line of the pipe,
whether a block is open in the parser's eyes and how many of the notifications due have gone by;
`Departs` is the point where the engine is, `Arrives` the one where tmux is. `due` are the
notifications tmux wrote when the last block it had begun was closed by a guard that did reach the
pipe; those written after a lost guard and before the next `%begin` are taken for output of the block left
open, and that is all a lost guard costs. `NotesSurvive` says that what is heard is what was due,
without a gap and, once all is read, to the end. That is false of a tmux that dies with output it has
not been able to write (`Buffered`): what a crash finds in its buffer is lost, which is the peer's doing and no
step of the client's. The theorem therefore assumes a tmux that does not (the run `correlation`
has a pipe that never fills up, so it makes the same assumption), and `NotesAlwaysInOrder` says
what holds of any tmux: nothing due is skipped, doubled or reordered.

`TmuxProofs` holds what these need of tmux: every step keeps `TmuxTypeOK` (`TmuxStepType`).

Only model-checked:

* liveness: `EventuallyAnswered`, `EveryCommandReturns`, `ReaderDrains`, `CleanDropTerminates`,
  `WaitsOnlyIfLeftBehind`, `DropTerminatesIfFlushed`. The prover has no rules for fairness and `ENABLED`.
* what happens after a closing guard is lost, beyond the properties above that hold regardless
  (`RightAnswer` and `NotesSurvive` in `Correlation`, `WritesAlone` and `NobodyStranded` in `Blocking`).

## Plan

1. Done: all modules above; every invariant and every action property of the passing runs
   proved, those about guards and answers under the assumptions named above; all refinements of
   `Correlator`, of the engine by `feed` and of the framing by `push`.
2. Left: liveness, which is beyond the prover.

Not modelled: process spawning, argument lists and command strings (`spawn.rs`,
`commands.rs`: pure I/O and formatting, no state and no decisions beyond optional fields);
a command longer than tmux's input pipe holds, or a peer that stops reading its input (in the
models a write ends at once, well or not; tmux reads its input whatever its output does); `%exit` as the last line of an orderly end, which the tmux client
process prints; `events()` handing over its receiver, and the channel behind it, which is
unbounded in all three drivers; whitespace other than spaces in an exit reason; sigils and
numerals glued together differently than as words of the chunks above; u64 overflow of
ids.
