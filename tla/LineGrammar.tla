----------------------------- MODULE LineGrammar -----------------------------
(***************************************************************************)
(* What one line of the control stream says (src/parser.rs:160-394): the   *)
(* guards, the raw %output path and the text notifications, and push over  *)
(* such lines.                                                             *)
(*                                                                         *)
(* A line is the sequence of its words, the pieces split(' ') yields: two  *)
(* spaces in a row make an empty word, the empty line is one empty word.   *)
(* A word is a sequence of chunks: sigils, keywords, numerals, layouts,    *)
(* single flags, other text.  An Option is a sequence of at most one       *)
(* element.                                                                *)
(*                                                                         *)
(* The machine holds what tmux reports and the line under test: first the  *)
(* line tmux writes for it, then what changes of single words make of it.  *)
(***************************************************************************)
EXTENDS Enumeration, SequencesExt

CONSTANTS
    Chunk,
    Numeral,            \* the chunks Rust parses as an unsigned integer of some width
    Worth,              \* what they are worth; 7, 07 and +7 are worth the same
    Shown,              \* the numeral Display and printf write for a value
    MaxU32, MaxU64,     \* u32::MAX and u64::MAX
    LayoutText,         \* the chunks Layout::parse accepts (module Layout)
    Lossy,              \* from_utf8_lossy, chunk by chunk
    Encode, Decode,     \* tmux's octal escaping and decode_output (module Output)
    SubscriptionHeader, \* <session> <window> <index> <pane>, as tmux fills them in
    Messages,           \* what tmux reports, as the records below
    ChangedWord,        \* the words a change puts into a line
    MaxChanges(_)       \* bound on the changes of a message's line

None == << >>
Some(x) == << x >>
Option(S) == {s \in Seq(S) : Len(s) <= 1}

Word == Seq(Chunk)
Words == Seq(Word) \ {<< >>}
EmptyText == << << >> >>

GuardKind == {"begin", "end", "error"}
OutputKinds == {"output", "extended-output"}
WindowKinds == {"window-add", "window-close", "unlinked-window-add", "unlinked-window-close"}
PaneKinds == {"pane-mode-changed", "pause", "continue"}
WindowNameKinds == {"window-renamed", "unlinked-window-renamed"}
SessionNameKinds == {"session-changed", "session-renamed"}
TwoIdKinds == {"window-pane-changed", "session-window-changed"}
OtherKinds == {"client-session-changed", "sessions-changed", "subscription-changed",
               "layout-change", "exit"}
Keyword ==
    {"%", "@", "$", ":"} \cup GuardKind \cup OutputKinds \cup WindowKinds \cup PaneKinds
      \cup WindowNameKinds \cup SessionNameKinds \cup TwoIdKinds \cup OtherKinds
KnownFlag == {"*", "-", "#", "!", "~", "M", "Z"}

(* What is ASCII comes out of from_utf8_lossy as it went in and nothing    *)
(* else does, and a digit or a sign is not escaped.                        *)
ASSUME GrammarAssumption ==
    /\ MaxU32 \in Nat /\ MaxU64 \in Nat /\ MaxU32 <= MaxU64
    /\ Numeral \subseteq Chunk /\ Worth \in [Numeral -> Nat]
    /\ Shown \in [0 .. MaxU64 -> Numeral]
    /\ \A n \in 0 .. MaxU64 : Worth[Shown[n]] = n
    /\ LayoutText \subseteq Chunk
    /\ Lossy \in [Chunk -> Chunk]
    /\ \A c \in Chunk : Lossy[Lossy[c]] = Lossy[c]
    /\ \A c \in Chunk, k \in Keyword : Lossy[c] = k <=> c = k
    /\ \A c \in Numeral \cup LayoutText \cup (KnownFlag \cap Chunk) : Lossy[c] = c
    /\ Encode \in [Chunk -> Chunk] /\ Decode \in [Chunk -> Chunk]
    /\ \A c \in Chunk : Decode[Encode[c]] = c
    /\ \A c \in Numeral : Encode[Decode[c]] = c
    /\ \A word \in ChangedWord : word \in Word
    /\ \A message \in Messages : MaxChanges(message) \in Nat

Each(f, words) == [w \in DOMAIN words |-> [c \in DOMAIN words[w] |-> f[words[w][c]]]]
Text(words) == Each(Lossy, words)
Bytes(words) == Each(Decode, words)
Escaped(words) == Each(Encode, words)

----------------------------------------------------------------------------
(* Numbers and ids.  parse::<uN> fails on any other chunk, and on a value  *)
(* the type cannot hold.                                                   *)

(* Mutant: a value too large for the type is taken.                        *)
BadParseNumber(word, max) ==
    IF Len(word) = 1 /\ word[1] \in Numeral THEN Some(Worth[word[1]]) ELSE None

ParseNumber(word, max) ==
    IF Len(word) = 1 /\ word[1] \in Numeral /\ Worth[word[1]] <= max
    THEN Some(Worth[word[1]]) ELSE None

Id(sigil, word) ==
    IF Len(word) = 2 /\ word[1] = sigil THEN ParseNumber(<< word[2] >>, MaxU32) ELSE None

Shows(sigil, id) == << sigil, Shown[id] >>

(* The first " : ", which has a space on both sides (find_subslice and     *)
(* split_once).                                                            *)
Separators(words) == {k \in 2 .. Len(words) - 1 : words[k] = << ":" >>}
FirstSeparator(words) == CHOOSE k \in Separators(words) : \A j \in Separators(words) : k <= j

----------------------------------------------------------------------------
(* parse_guard. *)

ParseGuard(line) ==
    IF /\ Len(line) = 4
       /\ \E kind \in GuardKind : line[1] = << "%", kind >>
       /\ ParseNumber(line[3], MaxU64) # None
       /\ ParseNumber(line[4], MaxU32) # None
    THEN Some([kind |-> line[1][2], number |-> ParseNumber(line[3], MaxU64)[1],
               control |-> ParseNumber(line[4], MaxU32)[1] # 0])
    ELSE None

----------------------------------------------------------------------------
(* The byte path.  Words before the separator other than the age make the  *)
(* age unparsable.                                                         *)

Unknown(line) == [tag |-> "unknown", line |-> line]

ParseOutput(rest) ==
    LET pane == Id("%", rest[1]) IN
    IF pane = None THEN None
    ELSE Some([tag |-> "output", pane |-> pane[1],
               bytes |-> IF Len(rest) = 1 THEN EmptyText ELSE Bytes(Tail(rest))])

ExtendedOutput(pane, age, tail) ==
    [tag |-> "extended-output", pane |-> pane, ms_behind |-> age,
     bytes |-> Bytes(SubSeq(tail, 3, Len(tail)))]

(* Mutant: the age is read as a u32.                                       *)
BadParseExtendedOutput(rest) ==
    LET tail == Tail(rest) IN
    IF /\ Len(rest) > 1 /\ Id("%", rest[1]) # None
       /\ Separators(tail) # {} /\ FirstSeparator(tail) = 2
       /\ ParseNumber(tail[1], MaxU32) # None
    THEN Some(ExtendedOutput(Id("%", rest[1])[1], ParseNumber(tail[1], MaxU32)[1], tail))
    ELSE None

ParseExtendedOutput(rest) ==
    LET tail == Tail(rest) IN
    IF /\ Len(rest) > 1 /\ Id("%", rest[1]) # None
       /\ Separators(tail) # {} /\ FirstSeparator(tail) = 2
       /\ ParseNumber(tail[1], MaxU64) # None
    THEN Some(ExtendedOutput(Id("%", rest[1])[1], ParseNumber(tail[1], MaxU64)[1], tail))
    ELSE None

OrUnknown(parsed, line) == IF parsed = None THEN Unknown(line) ELSE parsed[1]

(* None is a line for the text path; a malformed output line is not one.   *)
IsOutputLine(line) ==
    Len(line) > 1 /\ \E kind \in OutputKinds : line[1] = << "%", kind >>

ParseOutputLine(line) ==
    IF ~IsOutputLine(line) THEN None
    ELSE Some(OrUnknown(IF line[1][2] = "output" THEN ParseOutput(Tail(line))
                        ELSE ParseExtendedOutput(Tail(line)), Text(line)))

----------------------------------------------------------------------------
(* The text path. *)

(* first_window, first_pane: whatever follows the id is ignored.           *)
FirstId(kind, sigil, args) ==
    LET id == Id(sigil, args[1]) IN
    IF id = None THEN None ELSE Some([tag |-> kind, id |-> id[1]])

(* parse_id_name: the name is all the rest, spaces and all.                *)
IdName(kind, sigil, args) ==
    IF Len(args) = 1 \/ Id(sigil, args[1]) = None THEN None
    ELSE Some([tag |-> kind, id |-> Id(sigil, args[1])[1], name |-> Tail(args)])

(* Both take the whole rest for the second id.                             *)
TwoIds(kind, first, second, args) ==
    IF Len(args) # 2 \/ Id(first, args[1]) = None \/ Id(second, args[2]) = None THEN None
    ELSE Some([tag |-> kind, first |-> Id(first, args[1])[1], second |-> Id(second, args[2])[1]])

ParseClientSessionChanged(args) ==
    IF Len(args) < 3 \/ Id("$", args[2]) = None THEN None
    ELSE Some([tag |-> "client-session-changed", client |-> args[1],
               session |-> Id("$", args[2])[1], name |-> SubSeq(args, 3, Len(args))])

ParseSubscription(args) ==
    Some([tag |-> "subscription-changed", name |-> args[1],
          value |-> IF Separators(args) = {} THEN EmptyText
                    ELSE SubSeq(args, FirstSeparator(args) + 1, Len(args))])

(* trim: the words that are left are those between two that are not empty. *)
OptionalReason(args) ==
    LET ink == {k \in DOMAIN args : args[k] # << >>} IN
    IF ink = {} THEN None
    ELSE Some(SubSeq(args, CHOOSE k \in ink : \A j \in ink : k <= j,
                           CHOOSE k \in ink : \A j \in ink : j <= k))

NoFlags == [set |-> {}, unknown |-> << >>]

(* Mutant: of the characters not modelled, only the last is retained.      *)
BadTakeFlag(flags, c) ==
    IF c \in KnownFlag THEN [flags EXCEPT !.set = @ \cup {c}]
    ELSE [flags EXCEPT !.unknown = << c >>]

TakeFlag(flags, c) ==
    IF c \in KnownFlag THEN [flags EXCEPT !.set = @ \cup {c}]
    ELSE [flags EXCEPT !.unknown = Append(@, c)]

ParseWindowFlags(field) == FoldLeft(TakeFlag, NoFlags, field)

ParseLayout(word) == IF Len(word) = 1 /\ word[1] \in LayoutText THEN Some(word[1]) ELSE None

LayoutChange(args, visible) ==
    [tag |-> "layout-change", window |-> Id("@", args[1])[1], layout |-> args[2][1],
     visible |-> visible,
     flags |-> IF Len(args) < 4 THEN None ELSE Some(ParseWindowFlags(args[4]))]

(* Mutant: a visible layout that does not parse is left out.               *)
BadParseLayoutChange(args) ==
    IF Len(args) < 2 \/ Id("@", args[1]) = None \/ ParseLayout(args[2]) = None THEN None
    ELSE Some(LayoutChange(args, IF Len(args) = 2 THEN None ELSE ParseLayout(args[3])))

ParseLayoutChange(args) ==
    IF \/ Len(args) < 2
       \/ Id("@", args[1]) = None
       \/ ParseLayout(args[2]) = None
       \/ Len(args) > 2 /\ ParseLayout(args[3]) = None
    THEN None
    ELSE Some(LayoutChange(args, IF Len(args) = 2 THEN None ELSE ParseLayout(args[3])))

(* A line with no space has the arguments "".                              *)
Args(line) == IF Len(line) = 1 THEN EmptyText ELSE Tail(line)

ParseKind(kind, args) ==
    CASE kind \in WindowKinds -> FirstId(kind, "@", args)
      [] kind \in PaneKinds -> FirstId(kind, "%", args)
      [] kind \in WindowNameKinds -> IdName(kind, "@", args)
      [] kind \in SessionNameKinds -> IdName(kind, "$", args)
      [] kind = "window-pane-changed" -> TwoIds(kind, "@", "%", args)
      [] kind = "session-window-changed" -> TwoIds(kind, "$", "@", args)
      [] kind = "client-session-changed" -> ParseClientSessionChanged(args)
      [] kind = "sessions-changed" -> Some([tag |-> kind])
      [] kind = "subscription-changed" -> ParseSubscription(args)
      [] kind = "layout-change" -> ParseLayoutChange(args)
      [] kind = "exit" -> Some([tag |-> kind, reason |-> OptionalReason(args)])
      [] OTHER -> None

ParseNotification(line) ==
    IF Len(line[1]) = 2 /\ line[1][1] = "%"
    THEN OrUnknown(ParseKind(line[1][2], Args(line)), line)
    ELSE Unknown(line)

----------------------------------------------------------------------------
(* push over lines: the blocks and events are those of module Parser, the  *)
(* notifications are decoded.  parser is the block in progress.            *)

Framing == INSTANCE Parser WITH Number <- 0 .. MaxU64, Body <- Words

Outcome(parser, event) == [parser |-> parser, event |-> event]
Notify(notification) == Some([type |-> "notification", notification |-> notification])

TextAtTopLevel(line) ==
    LET guard == ParseGuard(line) IN
    CASE line = EmptyText -> Outcome(None, None)
      [] guard # None /\ guard[1].kind = "begin" ->
           Outcome(Some(Framing!OpenBlock(guard[1])), None)
      [] OTHER -> Outcome(None, Notify(ParseNotification(line)))

TextWithinBlock(block, line) ==
    LET guard == ParseGuard(line) IN
    IF guard = None THEN Outcome(Some([block EXCEPT !.output = Append(@, line)]), None)
    ELSE IF guard[1].kind = "begin"
    THEN Outcome(Some(Framing!OpenBlock(guard[1])), Some(Framing!CloseBlock(block, TRUE)))
    ELSE Outcome(None, Some(Framing!CloseBlock(block, guard[1].kind = "error")))

(* Mutant: the byte path is tried inside a block, too.                     *)
BadPushLine(parser, line) ==
    CASE IsOutputLine(line) -> Outcome(parser, Notify(ParseOutputLine(line)[1]))
      [] ~IsOutputLine(line) /\ parser = None -> TextAtTopLevel(Text(line))
      [] OTHER -> TextWithinBlock(parser[1], Text(line))

PushLine(parser, line) ==
    CASE parser = None /\ IsOutputLine(line) -> Outcome(None, Notify(ParseOutputLine(line)[1]))
      [] parser = None /\ ~IsOutputLine(line) -> TextAtTopLevel(Text(line))
      [] OTHER -> TextWithinBlock(parser[1], Text(line))

WireId == 0 .. MaxU32
Notification ==
    [tag : {"output"}, pane : WireId, bytes : Words]
      \cup [tag : {"extended-output"}, pane : WireId, ms_behind : 0 .. MaxU64, bytes : Words]
      \cup [tag : {"layout-change"}, window : WireId, layout : LayoutText,
            visible : Option(LayoutText),
            flags : Option([set : SUBSET KnownFlag, unknown : Word])]
      \cup [tag : WindowKinds \cup PaneKinds, id : WireId]
      \cup [tag : WindowNameKinds \cup SessionNameKinds, id : WireId, name : Words]
      \cup [tag : TwoIdKinds, first : WireId, second : WireId]
      \cup [tag : {"client-session-changed"}, client : Word, session : WireId, name : Words]
      \cup [tag : {"sessions-changed"}]
      \cup [tag : {"subscription-changed"}, name : Word, value : Words]
      \cup [tag : {"exit"}, reason : Option(Words)]
      \cup [tag : {"unknown"}, line : Words]

(* The notification a line is at top level, guards aside.                  *)
Reading(line) ==
    IF IsOutputLine(line) THEN ParseOutputLine(line)[1] ELSE ParseNotification(Text(line))

----------------------------------------------------------------------------
(* What tmux writes for a message (docs/reference/tmux-source-map.md,      *)
(* sections 1 and 2): the lines it may be.                                 *)

FlagWord(flags) ==
    LET Mark(c) == IF c \in flags.set THEN << c >> ELSE << >> IN
    Mark("#") \o Mark("!") \o Mark("~") \o Mark("*") \o Mark("-") \o Mark("M") \o Mark("Z")
      \o flags.unknown

Arguments(message) ==
    LET tag == message.tag IN
    CASE tag \in GuardKind ->
           {<< << "time" >>, << Shown[message.number] >>, << Shown[message.flags] >> >>}
      [] tag = "output" -> {<< Shows("%", message.pane) >> \o Escaped(message.bytes)}
      [] tag = "extended-output" ->
           {<< Shows("%", message.pane), << Shown[message.ms_behind] >>, << ":" >> >>
              \o Escaped(message.bytes)}
      [] tag \in WindowKinds -> {<< Shows("@", message.id) >>}
      [] tag \in PaneKinds -> {<< Shows("%", message.id) >>}
      [] tag \in WindowNameKinds -> {<< Shows("@", message.id) >> \o message.name}
      [] tag \in SessionNameKinds -> {<< Shows("$", message.id) >> \o message.name}
      [] tag = "window-pane-changed" ->
           {<< Shows("@", message.first), Shows("%", message.second) >>}
      [] tag = "session-window-changed" ->
           {<< Shows("$", message.first), Shows("@", message.second) >>}
      [] tag = "client-session-changed" ->
           {<< message.client, Shows("$", message.session) >> \o message.name}
      [] tag = "sessions-changed" -> {<< >>}
      [] tag = "subscription-changed" ->
           {<< message.name >> \o header \o << << ":" >> >> \o message.value :
              header \in SubscriptionHeader}
      [] tag = "layout-change" ->
           {<< Shows("@", message.window), << message.layout >> >>
              \o (IF message.visible = None THEN << >> ELSE << message.visible >>)
              \o (IF message.flags = None THEN << >> ELSE << FlagWord(message.flags[1]) >>)}
      [] tag = "exit" -> {IF message.reason = None THEN << >> ELSE message.reason[1]}

Wires(message) ==
    IF message.tag = "unknown" THEN {message.line}
    ELSE {<< << "%", message.tag >> >> \o arguments : arguments \in Arguments(message)}

----------------------------------------------------------------------------
(* What tmux reports: a reason it gives has no blank at either end, flags   *)
(* it writes behind both layouts, and what the client does not know is no  *)
(* line it does.                                                           *)
Reportable(message) ==
    LET tag == message.tag IN
    CASE tag = "exit" /\ message.reason # None ->
           LET reason == message.reason[1] IN reason[1] # << >> /\ reason[Len(reason)] # << >>
      [] tag = "layout-change" /\ message.flags # None ->
           LET flags == message.flags[1] IN
           /\ message.visible # None
           /\ flags.set \subseteq Chunk
           /\ \A c \in ToSet(flags.unknown) : c \notin KnownFlag /\ Lossy[c] = c
      [] tag = "unknown" -> \A kind \in Keyword : message.line[1] # << "%", kind >>
      [] OTHER -> TRUE

Message == Notification \cup [tag : GuardKind, number : 0 .. MaxU64, flags : 0 .. MaxU32]

ASSUME MessagesAssumption ==
    /\ \A message \in Messages : message \in Message /\ Reportable(message)
    /\ Keyword \subseteq Chunk /\ "time" \in Chunk
    /\ \A header \in SubscriptionHeader :
         header \in Words /\ \A k \in DOMAIN header : header[k] # << ":" >>

VARIABLES told, heard, changes

grammarVars == <<told, heard, changes>>

GrammarInit == told \in Messages /\ heard \in Wires(told) /\ changes = 0

Change(words) ==
    /\ changes < MaxChanges(told)
    /\ heard' = words
    /\ changes' = changes + 1
    /\ UNCHANGED told

ReplaceWord == \E k \in DOMAIN heard, word \in ChangedWord : Change(ReplaceAt(heard, k, word))
DropWord == Len(heard) > 1 /\ \E k \in DOMAIN heard : Change(RemoveAt(heard, k))
InsertWord == \E k \in 1 .. Len(heard) + 1, word \in ChangedWord : Change(InsertAt(heard, k, word))

GrammarNext == ReplaceWord \/ DropWord \/ InsertWord

GrammarSpec == GrammarInit /\ [][GrammarNext]_grammarVars

----------------------------------------------------------------------------
GrammarTypeOK ==
    /\ told \in Messages /\ heard \in Words
    /\ changes \in 0 .. MaxChanges(told)
    /\ Reading(heard) \in Notification

(* The text a notification is made of passes through from_utf8_lossy, the  *)
(* bytes of a pane do not.                                                 *)
AsText(message) ==
    LET tag == message.tag IN
    CASE tag \in WindowNameKinds \cup SessionNameKinds ->
           [message EXCEPT !.name = Text(@)]
      [] tag = "client-session-changed" ->
           [message EXCEPT !.client = Text(<< @ >>)[1], !.name = Text(@)]
      [] tag = "subscription-changed" ->
           [message EXCEPT !.name = Text(<< @ >>)[1], !.value = Text(@)]
      [] tag = "exit" /\ message.reason # None -> [message EXCEPT !.reason = Some(Text(@[1]))]
      [] tag = "unknown" -> Unknown(Text(message.line))
      [] OTHER -> message

(* Whatever tmux reports is read as just that: a name keeps its spaces and *)
(* may be empty, a value may contain the separator, an age may exceed u32, *)
(* a pane's bytes are exact although the line is no UTF-8, and a guard is  *)
(* a guard with its number and flag (notification.rs:17-90).               *)
ReadsWhatTmuxWrites ==
    changes = 0 =>
      IF told.tag \in GuardKind
      THEN ParseGuard(Text(heard)) = Some([kind |-> told.tag, number |-> told.number,
                                           control |-> told.flags # 0])
      ELSE ParseGuard(Text(heard)) = None /\ Reading(heard) = AsText(told)

(* Two lines are the same but for how a number or a byte is spelled.       *)
Spelling(c) ==
    LET d == Encode[Decode[c]] IN
    IF d \in Numeral /\ Worth[d] <= MaxU64 THEN Shown[Worth[d]] ELSE d
Spelled(words) == [w \in DOMAIN words |-> [c \in DOMAIN words[w] |-> Spelling(words[w][c])]]

(* Whose lines may have more fields behind those read: they are ignored    *)
(* (docs/decisions/2026-06-18-lock-step-tmux-and-robustness.md:32).        *)
IgnoresTheRest(notification) ==
    notification.tag \in WindowKinds \cup PaneKinds \cup {"sessions-changed"}

(* Every character of the field shows: as a known flag or, in order, among *)
(* the unknown.                                                            *)
KeepsEveryFlag(flags, field) ==
    /\ flags.set = ToSet(field) \cap KnownFlag
    /\ Lists(flags.unknown, {k \in DOMAIN field : field[k] \notin KnownFlag}, field)

(* The words are the line with empty words before and behind its arguments.*)
Pads(line, words) ==
    \E skipped \in 0 .. Len(words) - Len(line) :
       /\ line = << words[1] >> \o SubSeq(words, skipped + 2, skipped + Len(line))
       /\ \A k \in 2 .. skipped + 1 : words[k] = << >>
       /\ \A k \in skipped + Len(line) + 1 .. Len(words) : words[k] = << >>

(* The words between a subscription's name and its value end here.         *)
HeaderEnds(words) ==
    {k \in 3 .. Len(words) - 1 : words[k] = << ":" >> /\ \A j \in 3 .. k - 1 : words[j] # << ":" >>}

(* Does the notification say what stands in the words?                     *)
Says(notification, words) ==
    LET tag == notification.tag IN
    CASE tag = "unknown" -> notification.line = Text(words)
      [] tag = "subscription-changed" ->
           /\ IsPrefix(<< << "%", tag >>, notification.name >>, words \o EmptyText)
           /\ \A k \in HeaderEnds(words) : notification.value = SubSeq(words, k + 1, Len(words))
           /\ HeaderEnds(words) = {} => notification.value = EmptyText
      [] tag = "exit" -> \E wire \in Wires(notification) : Pads(wire, words)
      [] tag = "output" /\ Len(words) = 2 ->
           \E wire \in Wires(notification) : Spelled(wire) = Spelled(words \o EmptyText)
      [] tag = "layout-change" /\ notification.flags # None ->
           /\ \E wire \in Wires([notification EXCEPT !.flags = None]) :
                IsPrefix(Spelled(wire), Spelled(words))
           /\ KeepsEveryFlag(notification.flags[1], words[5])
      [] OTHER ->
           \E wire \in Wires(notification) :
               /\ IsPrefix(Spelled(wire), Spelled(words))
               /\ Len(wire) = Len(words) \/ IgnoresTheRest(notification)

(* Whatever the line, it is kept verbatim as Unknown, or what it is read as*)
(* is what stands in it: written out again it is the line, up to how       *)
(* numbers are spelled.  What does get lost is named: fields behind those  *)
(* of an id line and behind the flags of a layout line; the header of a    *)
(* subscription, which its notification has no place for, and every word of*)
(* one without a header's end (see ChangedShapeSurfaces).  Of the flags    *)
(* every character is kept (notification.rs:8-10,88,92-95;                 *)
(* parser.rs:281-283,298-299).                                             *)
NothingLostOrMadeUp ==
    LET words == IF IsOutputLine(heard) THEN heard ELSE Text(heard) IN
    Says(Reading(heard), words)

----------------------------------------------------------------------------
(* The line as module Parser sees it, and a block in progress over lines   *)
(* as one over those.                                                      *)
Framed(words) ==
    LET text == Text(words)
        guard == ParseGuard(text)
    IN  CASE text = EmptyText -> Framing!Blank
          [] guard # None -> guard[1]
          [] OTHER -> [kind |-> IF IsOutputLine(words) THEN "output" ELSE "text", body |-> text]

FramedBlock(block) ==
    [block EXCEPT !.output = [k \in DOMAIN block.output |-> Framed(block.output[k])]]
FramedParser(parser) == IF parser = None THEN None ELSE Some(FramedBlock(parser[1]))

(* push on the line does to the block in progress, and surfaces, what      *)
(* Parser!Push says of the framed line.                                    *)
Implements(parser, words) ==
    LET concrete == PushLine(parser, words)
        abstract == Framing!Push(FramedParser(parser), Framed(words))
    IN  /\ FramedParser(concrete.parser) = abstract.parser
        /\ \/ concrete.event = None /\ abstract.event = None
           \/ /\ concrete.event # None /\ concrete.event[1].type = "notification"
              /\ abstract.event = Some(Framing!NotificationEvent(Framed(words)))
              /\ concrete.event[1].notification = Reading(words)
           \/ /\ concrete.event # None /\ concrete.event[1].type = "reply"
              /\ abstract.event = Some([type |-> "reply",
                                        reply |-> FramedBlock(concrete.event[1].reply)])

(* The framing the rest of the crate is built on: whatever the line, push  *)
(* with no block open and with one open implements Parser!Push, so a line  *)
(* is content inside a block even if it looks like output, and only exact  *)
(* guards frame (parser.rs:66-135,160-179).                                *)
FramesAsParser ==
    \A parser \in {None, Some([number |-> 0, control |-> TRUE, output |-> << EmptyText >>])} :
        Implements(parser, heard)

(* tmux writes four words between a subscription's name and the colon      *)
(* (docs/reference/tmux-source-map.md:116-128).                            *)
HasSubscriptionShape(words) == 7 \in HeaderEnds(words)

(* A subscription line that has lost this shape is kept as Unknown: "never *)
(* reinterpret a recognized line whose required shape changed - that drift *)
(* must surface" (docs/decisions/                                          *)
(* 2026-06-18-lock-step-tmux-and-robustness.md:32-34).                     *)
ChangedShapeSurfaces ==
    told.tag = "subscription-changed" =>
      LET words == Text(heard) IN
      words[1] = << "%", told.tag >> /\ ~HasSubscriptionShape(words)
        => Reading(heard) = Unknown(words)
=============================================================================
