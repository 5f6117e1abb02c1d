----------------------------- MODULE MCStrings -----------------------------
(***************************************************************************)
(* The crate's pure decoders, one at a time: a behaviour takes an input of *)
(* one of Checksum, Layout, Output and LineGrammar, and the others rest.   *)
(***************************************************************************)
EXTENDS Checksum, Layout, Output, LineGrammar

(* Checksum: every string of up to four bytes out of four values: two      *)
(* digits, a comma, and a byte with the top bit set.                       *)
MCLayouts == BoundedSeq({44, 48, 49, 255}, 4)

----------------------------------------------------------------------------
(* Layout: layouts of up to two nested splits with one or two children     *)
(* each, and their enclosures in one more split, which exceed MaxDepth = 2.*)
(* Strings with one leaf are edited twice, those with one split once.      *)
(* The words edits write: numerals of one and two digits, with a zero in   *)
(* front, the greatest dimension and pane id and the next number, a word   *)
(* that is no numeral, and one that passes for a checksum.                 *)
Splits(children) ==
    {Split(t, <<12, 1, 0, 1>>, s) : t \in {"h", "v"}, s \in BoundedSeq(children, 2) \ {<< >>}}

MCEditWords ==
    {<<48>>, <<49>>, <<48, 51>>, <<49, 50>>, <<49, 51>>, <<49, 52>>, <<49, 97>>, <<48, 48, 49, 50>>}

Leaves == {Leaf(<<1, 12, 0, 1>>, 0), Leaf(<<0, 1, 2, 0>>, 13)}
Shallow == Leaves \cup Splits(Leaves)
Deep == Shallow \cup Splits(Shallow)

MCTrees == Deep \cup {Split("h", <<1, 1, 0, 0>>, << inner >>) : inner \in Deep}

OneLeaf == Leaves \cup {Split("v", <<12, 1, 0, 1>>, << leaf >>) : leaf \in Leaves}
MCMaxEdits(layout) == CASE layout \in OneLeaf -> 2 [] layout \in Shallow -> 1 [] OTHER -> 0

----------------------------------------------------------------------------
(* Output: every string of up to five bytes out of a backslash, octal      *)
(* digits on both sides of \377, and 8; and what tmux writes for every     *)
(* string of up to three bytes at the edges of its escaping.               *)
Code(byte) ==
    IF Special(byte) THEN <<92, 48 + byte \div 64, 48 + ((byte \div 8) % 8), 48 + (byte % 8)>>
    ELSE << byte >>

Encoded(s) ==
    LET codes == [k \in DOMAIN s |-> Code(s[k])] IN
    [original |-> s, escaped |-> FlattenSeq(codes),
     off |-> [k \in 1 .. Len(s) + 1 |-> Len(FlattenSeq(SubSeq(codes, 1, k - 1)))]]

Stray(s) == [original |-> << >>, escaped |-> s, off |-> << 0 >>]

MCPayloads ==
    {Encoded(s) : s \in BoundedSeq({0, 27, 31, 32, 48, 55, 92, 255}, 3)}
      \cup {Stray(s) : s \in BoundedSeq({92, 48, 51, 52, 55, 56}, 5)}

----------------------------------------------------------------------------
(* LineGrammar: every kind of notification and guard, with numerals that   *)
(* fit both widths, only the wider one, and neither, a padded numeral, and *)
(* names, values and payloads with leading, trailing and repeated spaces,  *)
(* the separator, an escaped byte, and a byte that is not UTF-8.           *)
MCNumerals == {"0", "7", "+7", "9", "99"}
MCWorth == [c \in MCNumerals |->
              CASE c = "0" -> 0 [] c \in {"7", "+7"} -> 1 [] c = "9" -> 2 [] c = "99" -> 3]
MCShown == [n \in 0 .. 2 |-> CASE n = 0 -> "0" [] n = 1 -> "7" [] n = 2 -> "9"]

MCFlags == {"*", "-", "#", "!", "~", "M", "Z", "f", "g"}
MCChunk ==
    MCNumerals \cup MCFlags \cup {"%", "@", "$", ":", "time", "a", "raw", "utf", "esc", "033", "lay"}
      \cup Keyword \cup {"message"}

MCLossy == [c \in MCChunk |-> IF c = "raw" THEN "utf" ELSE c]
MCEncode == [c \in MCChunk |-> CASE c = "esc" -> "033" [] c = "033" -> "esc" [] OTHER -> c]
MCHeaders ==
    {<< << "$", "7" >>, << "-" >>, << "-" >>, << "-" >> >>,
     << << "$", "7" >>, << "@", "0" >>, << "9" >>, << "%", "7" >> >>}

MCWord == {<< >>, << "a" >>, << ":" >>, << "raw" >>}
MCText == BoundedSeq(MCWord, 3) \ {<< >>}
MCBytes == BoundedSeq(MCWord \cup {<< "a", "esc" >>}, 3) \ {<< >>}
MCFlagFields == {[set |-> S, unknown |-> u] :
                    S \in SUBSET {"*", "-", "Z"}, u \in {<< >>, << "f" >>, << "f", "g" >>}}

MCMessages ==
    [tag : GuardKind, number : 0 .. 2, flags : 0 .. 1]
      \cup [tag : {"output"}, pane : 0 .. 1, bytes : MCBytes]
      \cup [tag : {"extended-output"}, pane : {1}, ms_behind : 0 .. 2, bytes : MCBytes]
      \cup [tag : WindowKinds \cup PaneKinds, id : 0 .. 1]
      \cup [tag : WindowNameKinds \cup SessionNameKinds, id : {1}, name : MCText]
      \cup [tag : TwoIdKinds, first : 0 .. 1, second : {1}]
      \cup [tag : {"client-session-changed"}, client : {<< "a" >>, << "raw" >>}, session : {1},
            name : MCText]
      \cup [tag : {"sessions-changed"}]
      \cup [tag : {"subscription-changed"}, name : {<< "a" >>, << "raw" >>}, value : MCText]
      \cup [tag : {"layout-change"}, window : {1}, layout : {"lay"}, visible : {None}, flags : {None}]
      \cup [tag : {"layout-change"}, window : {1}, layout : {"lay"}, visible : {Some("lay")},
            flags : {Some(f) : f \in MCFlagFields}]
      \cup [tag : {"exit"}, reason : {None, Some(<< << "a" >> >>), Some(<< << "a" >>, << >>, << "raw" >> >>)}]
      \cup [tag : {"unknown"}, line : {<< << "%", "message" >>, << "a" >> >>, << << "a" >> >>}]

NoMessage == Unknown(<< << "a" >> >>)

MCChangedWord ==
    {<< >>, << "%" >>, << "a" >>, << ":" >>, << "9" >>, << "99" >>, << "%", "+7" >>, << "@", "9" >>,
     << "@", "+7" >>, << "$", "0" >>, << "lay" >>, << "Z", "f", "g" >>, << "%", "begin" >>,
     << "%", "end" >>, << "%", "output" >>, << "%", "extended-output" >>,
     << "%", "layout-change" >>, << "%", "subscription-changed" >>}

(* Lines with three words of free text are not changed, most others once;  *)
(* the shortest ones, one guard, one flags field and one pair of ids twice.*)
ChangedTwice ==
    {[tag |-> "begin", number |-> 0, flags |-> 1],
     [tag |-> "layout-change", window |-> 1, layout |-> "lay", visible |-> None, flags |-> None],
     [tag |-> "layout-change", window |-> 1, layout |-> "lay", visible |-> Some("lay"),
      flags |-> Some([set |-> {"-", "Z"}, unknown |-> << "f" >>])],
     [tag |-> "window-pane-changed", first |-> 0, second |-> 1],
     [tag |-> "sessions-changed"], [tag |-> "exit", reason |-> None]}
      \cup [tag : {"window-add", "pause"}, id : {1}]
MCMaxChanges(message) ==
    CASE message = NoMessage -> 0
      [] \E field \in {"bytes", "name", "value"} \cap DOMAIN message : Len(message[field]) = 3 -> 0
      [] message \in ChangedTwice -> 2 [] OTHER -> 1

----------------------------------------------------------------------------
NoLayout == Leaf(<<0, 0, 0, 0>>, 0)

ChecksumIdle == dumped = << >> /\ received = << >> /\ read = 0 /\ expected = 0 /\ actual = 0
LayoutIdle == original = NoLayout /\ wire = Render(NoLayout) /\ edits = 0
GrammarIdle == told = NoMessage /\ heard = NoMessage.line /\ changes = 0
OutputIdle == payload = Stray(<< >>) /\ i = 0 /\ out = << >>

Init ==
    \/ ChecksumInit /\ LayoutIdle /\ OutputIdle /\ GrammarIdle
    \/ LayoutInit /\ ChecksumIdle /\ OutputIdle /\ GrammarIdle
    \/ OutputInit /\ ChecksumIdle /\ LayoutIdle /\ GrammarIdle
    \/ GrammarInit /\ ChecksumIdle /\ LayoutIdle /\ OutputIdle

Next ==
    \/ ReadByte /\ UNCHANGED <<layoutVars, outputVars, grammarVars>>
    \/ LayoutNext /\ UNCHANGED <<checksumVars, outputVars, grammarVars>>
    \/ OutputNext /\ UNCHANGED <<checksumVars, layoutVars, grammarVars>>
    \/ GrammarNext /\ UNCHANGED <<checksumVars, layoutVars, outputVars>>

Spec == Init /\ [][Next]_<<checksumVars, layoutVars, outputVars, grammarVars>>
=============================================================================
