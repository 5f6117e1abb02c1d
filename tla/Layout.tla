------------------------------- MODULE Layout -------------------------------
(***************************************************************************)
(* tmux layout strings (src/layout.rs): render, the checksum prefix, and   *)
(* the recursive-descent parse.                                            *)
(*                                                                         *)
(* A string is a sequence of tokens, a token the bytes it is made of: a    *)
(* word is a run of hexadecimal digits (a numeral when they are decimal, a *)
(* checksum when there are four), a separator a single other byte.         *)
(* MaxDim, MaxPane and MaxDepth stand for u16::MAX, u32::MAX and           *)
(* MAX_LAYOUT_DEPTH.  All errors are one.                                  *)
(*                                                                         *)
(* The machine holds a tree and the string under test: first the tree's    *)
(* own rendering, then what single-token edits make of it.                 *)
(***************************************************************************)
EXTENDS Naturals, Sequences, SequencesExt

CONSTANTS
    Trees,          \* the layouts rendered
    MaxNesting,     \* splits nest no deeper in them
    MaxDim, MaxPane, MaxDepth,
    EditWords,      \* the words that edits write into a string
    MaxEdits(_)     \* bound on the edits of a tree's string

(* Only the loop of checksum is taken from the machine in Checksum. *)
Loop == INSTANCE Checksum WITH
    Layouts <- {}, dumped <- << >>, received <- << >>, read <- 0, expected <- 0, actual <- 0

AsciiOf ==
    [c \in {"x", ",", "{", "}", "[", "]"} |->
        CASE c = "x" -> 120 [] c = "," -> 44 [] c = "{" -> 123 [] c = "}" -> 125
          [] c = "[" -> 91 [] c = "]" -> 93]
Sep(c) == << AsciiOf[c] >>

Leaf(cell, pane) == [t |-> "leaf", cell |-> cell, pane |-> pane]
Split(t, cell, children) == [t |-> t, cell |-> cell, children |-> children]

(* The layouts whose splits nest no deeper than depth. *)
Cell == [1 .. 4 -> 0 .. MaxDim]
LayoutsWithin[depth \in Nat] ==
    [t : {"leaf"}, cell : Cell, pane : 0 .. MaxPane]
      \cup IF depth = 0 THEN {}
           ELSE [t : {"h", "v"}, cell : Cell, children : Seq(LayoutsWithin[depth - 1]) \ {<< >>}]

ASSUME LayoutAssumption ==
    /\ MaxDim \in Nat /\ MaxPane \in Nat /\ EditWords \subseteq Seq(0 .. 255)
    /\ MaxDepth \in Nat /\ MaxNesting \in Nat /\ MaxDepth <= MaxNesting
    /\ \A tree \in Trees : tree \in LayoutsWithin[MaxNesting] /\ MaxEdits(tree) \in Nat

----------------------------------------------------------------------------
(* render and to_layout_string. *)

(* The decimal digits of a number.                                         *)
Num[n \in Nat] ==
    IF n < 10 THEN << 48 + n >> ELSE Num[n \div 10] \o << 48 + (n % 10) >>

CellText(cell) ==
    << Num[cell[1]], Sep("x"), Num[cell[2]], Sep(","), Num[cell[3]], Sep(","), Num[cell[4]] >>

Brackets(t) == IF t = "h" THEN <<"{", "}">> ELSE <<"[", "]">>

RenderWithin[depth \in Nat] ==
    [tree \in LayoutsWithin[depth] |->
        IF tree.t = "leaf" THEN CellText(tree.cell) \o << Sep(","), Num[tree.pane] >>
        ELSE CellText(tree.cell) \o << Sep(Brackets(tree.t)[1]) >>
               \o FlattenSeq([k \in DOMAIN tree.children |->
                                (IF k > 1 THEN << Sep(",") >> ELSE << >>)
                                  \o RenderWithin[depth - 1][tree.children[k]]])
               \o << Sep(Brackets(tree.t)[2]) >>]

Render(tree) == RenderWithin[MaxNesting][tree]

Checksum(text) ==
    LET bytes == FlattenSeq(text)
        csum[n \in Nat] == IF n = 0 THEN 0 ELSE Loop!RotateAdd(csum[n - 1], bytes[n])
    IN  csum[Len(bytes)]

(* {:04x}. *)
HexCode(digit) == IF digit < 10 THEN 48 + digit ELSE 87 + digit
HexWord(n) ==
    << HexCode(n \div 4096), HexCode((n \div 256) % 16), HexCode((n \div 16) % 16), HexCode(n % 16) >>

ToLayoutString(tree) == << HexWord(Checksum(Render(tree))), Sep(",") >> \o Render(tree)

----------------------------------------------------------------------------
(* parse.  A parser starts at a place of the text and yields the value it  *)
(* read and the place of the rest.                                         *)

Error == [ok |-> FALSE]
Parsed(value, rest) == [ok |-> TRUE, value |-> value, rest |-> rest]
IsSep(text, at, c) == at <= Len(text) /\ text[at] = Sep(c)

(* take_dimension and take_pane: a run of digits, zeros in front included, *)
(* whose number its type holds.  They stop at a letter, which nothing takes*)
(* as a delimiter.                                                         *)
IsDecimal(token) == token # << >> /\ \A k \in DOMAIN token : token[k] \in 48 .. 57
Number(token) ==
    LET number[k \in Nat] == IF k = 0 THEN 0 ELSE 10 * number[k - 1] + (token[k] - 48)
    IN  number[Len(token)]

IsNumeral(text, at, max) == at <= Len(text) /\ IsDecimal(text[at]) /\ Number(text[at]) <= max

IsCell(text, at) ==
    /\ \A k \in {0, 2, 4, 6} : IsNumeral(text, at + k, MaxDim)
    /\ IsSep(text, at + 1, "x") /\ IsSep(text, at + 3, ",") /\ IsSep(text, at + 5, ",")
CellOf(text, at) ==
    << Number(text[at]), Number(text[at + 2]), Number(text[at + 4]), Number(text[at + 6]) >>

SplitOf(t, cell, children) ==
    IF children.ok THEN Parsed(Split(t, cell, children.value), children.rest) ELSE Error

(* Mutant of ParseNode: the depth limit is off by one.                     *)
BadParseNode(children, text, at, depth) ==
    IF depth >= MaxDepth \/ ~IsCell(text, at) THEN Error
    ELSE CASE IsSep(text, at + 7, "{") ->
                SplitOf("h", CellOf(text, at), children[<<at + 8, "}", depth + 1>>])
           [] IsSep(text, at + 7, "[") ->
                SplitOf("v", CellOf(text, at), children[<<at + 8, "]", depth + 1>>])
           [] IsSep(text, at + 7, ",") /\ IsNumeral(text, at + 8, MaxPane) ->
                Parsed(Leaf(CellOf(text, at), Number(text[at + 8])), at + 9)
           [] OTHER -> Error

(* parse_node, which reads the children of a split by the function given.  *)
ParseNode(children, text, at, depth) ==
    IF depth > MaxDepth \/ ~IsCell(text, at) THEN Error
    ELSE CASE IsSep(text, at + 7, "{") ->
                SplitOf("h", CellOf(text, at), children[<<at + 8, "}", depth + 1>>])
           [] IsSep(text, at + 7, "[") ->
                SplitOf("v", CellOf(text, at), children[<<at + 8, "]", depth + 1>>])
           [] IsSep(text, at + 7, ",") /\ IsNumeral(text, at + 8, MaxPane) ->
                Parsed(Leaf(CellOf(text, at), Number(text[at + 8])), at + 9)
           [] OTHER -> Error

(* One turn of the loop of parse_children; more is what it and the calls   *)
(* within it go on by.                                                     *)
ParseChild(more, text, at, close, depth) ==
    LET child == ParseNode(more, text, at, depth) IN
    IF ~child.ok THEN Error
    ELSE CASE IsSep(text, child.rest, close) -> Parsed(<< child.value >>, child.rest + 1)
           [] IsSep(text, child.rest, ",") ->
                LET others == more[<<child.rest + 1, close, depth>>] IN
                IF others.ok THEN Parsed(<< child.value >> \o others.value, others.rest) ELSE Error
           [] OTHER -> Error

(* parse_children.  Every turn, in this call or in one it makes, consumes  *)
(* some of the text, so there are no more turns than tokens.               *)
ParseChildren(text) ==
    LET parse[turns \in Nat] ==
          [call \in Nat \X {"}", "]"} \X Nat |->
              IF turns = 0 THEN Error
              ELSE ParseChild(parse[turns - 1], text, call[1], call[2], call[3])]
    IN  parse[Len(text)]

(* split_checksum: four hexadecimal digits of either case before a comma.   *)
HexDigit == (48 .. 57) \cup (65 .. 70) \cup (97 .. 102)
HasChecksum(text) ==
    Len(text) >= 2 /\ Len(text[1]) = 4 /\ (\A k \in 1 .. 4 : text[1][k] \in HexDigit)
      /\ text[2] = Sep(",")

(* from_str_radix(head, 16). *)
HexValue(word) ==
    LET digit(c) == CASE c \in 48 .. 57 -> c - 48 [] c \in 65 .. 70 -> c - 55 [] OTHER -> c - 87
    IN  4096 * digit(word[1]) + 256 * digit(word[2]) + 16 * digit(word[3]) + digit(word[4])

Body(text) == IF HasChecksum(text) THEN SubSeq(text, 3, Len(text)) ELSE text

(* Mutants of Parse: input after the tree is ignored; the checksum is not  *)
(* compared.                                                               *)
BadParseTrailing(text) ==
    LET body == Body(text) IN
    IF HasChecksum(text) /\ HexValue(text[1]) # Checksum(body) THEN Error
    ELSE ParseNode(ParseChildren(body), body, 1, 0)
BadParseUnverified(text) ==
    LET body == Body(text)
        node == ParseNode(ParseChildren(body), body, 1, 0) IN
    IF node.ok /\ node.rest = Len(body) + 1 THEN node ELSE Error

Parse(text) ==
    LET body == Body(text)
        node == ParseNode(ParseChildren(body), body, 1, 0) IN
    IF HasChecksum(text) /\ HexValue(text[1]) # Checksum(body) THEN Error
    ELSE IF node.ok /\ node.rest = Len(body) + 1 THEN node ELSE Error

----------------------------------------------------------------------------
VARIABLES original, wire, edits

layoutVars == <<original, wire, edits>>

LayoutInit ==
    /\ original \in Trees
    /\ wire \in {Render(original), ToLayoutString(original)}
    /\ edits = 0

Token == EditWords \cup {Sep(c) : c \in DOMAIN AsciiOf}

(* Two words in a row would be one. *)
IsWord(token) == \A k \in DOMAIN token : token[k] \in HexDigit
Lexical(s) == \A k \in 1 .. Len(s) - 1 : ~(IsWord(s[k]) /\ IsWord(s[k + 1]))

Upper(token) ==
    [k \in DOMAIN token |-> IF token[k] \in 97 .. 102 THEN token[k] - 32 ELSE token[k]]

Edit(s) ==
    /\ edits < MaxEdits(original)
    /\ Lexical(s)
    /\ wire' = s
    /\ edits' = edits + 1
    /\ UNCHANGED original

Replace == \E k \in 1 .. Len(wire), token \in Token : Edit(ReplaceAt(wire, k, token))
Delete == \E k \in 1 .. Len(wire) : Edit(RemoveAt(wire, k))
Insert == \E k \in 1 .. Len(wire) + 1, token \in Token : Edit(InsertAt(wire, k, token))
Capitalise == \E k \in 1 .. Len(wire) : Edit(ReplaceAt(wire, k, Upper(wire[k])))

LayoutNext == Replace \/ Delete \/ Insert \/ Capitalise

LayoutSpec == LayoutInit /\ [][LayoutNext]_layoutVars

----------------------------------------------------------------------------
(* parse reads back the tree a string was rendered from, with and without  *)
(* checksum, down to the nesting limit and not beyond it                   *)
(* (docs/spec/overview.md:222, layout.rs:148-152).                         *)
ReadsWhatRenders ==
    edits = 0 =>
      Parse(wire) = IF original \in LayoutsWithin[MaxDepth]
                    THEN Parsed(original, Len(Render(original)) + 1) ELSE Error

(* parse accepts nothing but the rendering of the tree it yields, bare or  *)
(* with its checksum, no token skipped, misplaced or left over, except that*)
(* it takes any spelling of a number: zeros in front of a dimension or pane*)
(* (layout.rs:237-246, 257-265), capitals in the checksum (layout.rs:140). *)
SameToken(token, other) ==
    \/ token = other
    \/ IsDecimal(token) /\ IsDecimal(other) /\ Number(token) = Number(other)
SameText(text, other) ==
    Len(text) = Len(other) /\ \A k \in 1 .. Len(text) : SameToken(text[k], other[k])

AcceptsOnlyRenderings ==
    LET node == Parse(wire) IN
    node.ok => /\ SameText(Body(wire), Render(node.value))
               /\ HasChecksum(wire) => HexValue(wire[1]) = Checksum(Body(wire))

(* A string accepted with its checksum is rejected once any one byte behind*)
(* the checksum is another, digits within a number included (layout.rs:44).*)
OneByteApart(bytes, other) ==
    /\ Len(bytes) = Len(other)
    /\ \E k \in 1 .. Len(bytes) : /\ bytes[k] # other[k]
                                  /\ \A j \in 1 .. Len(bytes) \ {k} : bytes[j] = other[j]

OneByteChanged(text, other) ==
    /\ HasChecksum(text) /\ HasChecksum(other) /\ HexValue(text[1]) = HexValue(other[1])
    /\ OneByteApart(FlattenSeq(Body(text)), FlattenSeq(Body(other)))

CorruptionDetected ==
    [][Parse(wire).ok /\ OneByteChanged(wire, wire') => ~Parse(wire').ok]_layoutVars
=============================================================================
