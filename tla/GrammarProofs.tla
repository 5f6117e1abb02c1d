--------------------------- MODULE GrammarProofs ---------------------------
(***************************************************************************)
(* The bytes of a line and its words.  decode_output gives back what the   *)
(* pane printed and decodes every escape in any bytes; and what any line at*)
(* all is read as, whatever its words (ReadsAnyLine), that push frames it  *)
(* as Parser does (AlwaysFramesAsParser), and that what tmux writes is read*)
(* as what it reports (MessageComesBack).                                  *)
(***************************************************************************)
EXTENDS LineGrammar, Output, FiniteSetTheorems, SequenceTheorems, WellFoundedInduction, TLAPS

----------------------------------------------------------------------------
(* Three octal digits that parse are worth a byte. *)
LEMMA ParsedIsByte ==
    ASSUME NEW s \in Seq(Byte), NEW j \in Nat, j + 3 < Len(s), ParsesOctal(s, j)
    PROVE  Value(s, j) \in Byte
  <1> DEFINE a == s[j + 2]  b == s[j + 3]  c == s[j + 4]
  <1>1. a \in Byte /\ b \in Byte /\ c \in Byte
    BY LenProperties
  <1>2. /\ 48 <= a /\ 48 <= b /\ 48 <= c
        /\ Value(s, j) = 64 * (a - 48) + 8 * (b - 48) + (c - 48) /\ Value(s, j) < 256
    BY DEF ParsesOctal, IsOctal, Value
  <1>3. a \in Nat /\ b \in Nat /\ c \in Nat
    BY <1>1 DEF Byte
  <1> HIDE DEF a, b, c
  <1> QED
    BY <1>2, <1>3 DEF Byte

(* Every payload the machine is given stays a payload, the cursor never    *)
(* passes its end, and only bytes are put out (output.rs:18-31).           *)
THEOREM OutputTypeCorrect == OutputSpec => []OutputTypeOK
  <1>1. OutputInit => OutputTypeOK
    BY PayloadsAssumption DEF OutputInit, OutputTypeOK, IsPayload
  <1>2. OutputTypeOK /\ [OutputNext]_outputVars => OutputTypeOK'
    <2> SUFFICES ASSUME OutputTypeOK, [OutputNext]_outputVars PROVE OutputTypeOK'
      OBVIOUS
    <2>1. CASE Escape
      <3>1. /\ payload.escaped \in Seq(Byte) /\ i \in Nat
            /\ i + 3 < Len(payload.escaped) /\ ParsesOctal(payload.escaped, i)
        BY <2>1 DEF Escape, IsEscape, OutputTypeOK, IsPayload
      <3>2. Value(payload.escaped, i) \in Byte
        BY <3>1, ParsedIsByte
      <3>3. i' \in Nat /\ i' <= Len(payload.escaped)
        BY <2>1, <3>1 DEF Escape
      <3> QED
        BY <2>1, <3>2, <3>3, AppendProperties DEF Escape, OutputTypeOK, IsPayload
    <2>2. CASE Literal
      <3>1. payload.escaped[i + 1] \in Byte
        BY <2>2 DEF Literal, OutputTypeOK, IsPayload
      <3> QED
        BY <2>2, <3>1, AppendProperties DEF Literal, OutputTypeOK, IsPayload
    <2>3. CASE UNCHANGED outputVars
      BY <2>3 DEF outputVars, OutputTypeOK
    <2> QED
      BY <2>1, <2>2, <2>3 DEF OutputNext
  <1> QED
    BY <1>1, <1>2, PTL DEF OutputSpec

----------------------------------------------------------------------------
(* A byte is the sum of its three octal digits. *)
LEMMA DigitsMakeTheByte ==
    ASSUME NEW byte \in Byte
    PROVE  /\ byte \div 64 \in 0 .. 3 /\ (byte \div 8) % 8 \in 0 .. 7 /\ byte % 8 \in 0 .. 7
           /\ byte = 64 * (byte \div 64) + 8 * ((byte \div 8) % 8) + (byte % 8)
  BY DEF Byte

(* An escape code is taken for an escape, and read as the byte it encodes; *)
(* the code of a byte that needs none is not taken for an escape.          *)
LEMMA ReadsItsCode ==
    ASSUME NEW s \in Seq(Byte), NEW j \in Nat, NEW byte \in Byte, IsCode(s, j, byte)
    PROVE  IF Special(byte) THEN IsEscape(s, j) /\ Value(s, j) = byte
           ELSE ~IsEscape(s, j) /\ s[j + 1] = byte
  <1>1. CASE Special(byte)
    <2> DEFINE a == byte \div 64  b == (byte \div 8) % 8  c == byte % 8
    <2>1. /\ a \in 0 .. 3 /\ b \in 0 .. 7 /\ c \in 0 .. 7
          /\ byte = 64 * a + 8 * b + c
      BY DigitsMakeTheByte
    <2>2. /\ j + 3 < Len(s) /\ s[j + 1] = 92
          /\ s[j + 2] = 48 + a /\ s[j + 3] = 48 + b /\ s[j + 4] = 48 + c
      BY <1>1 DEF IsCode
    <2> HIDE DEF a, b, c
    <2>3. byte < 256
      BY DEF Byte
    <2> QED
      BY <1>1, <2>1, <2>2, <2>3 DEF IsEscape, ParsesOctal, IsOctal, Value
  <1>2. CASE ~Special(byte)
    BY <1>2 DEF IsCode, IsEscape, Special
  <1> QED
    BY <1>1, <1>2

----------------------------------------------------------------------------
(* In a payload tmux wrote, the cursor is always at the start of a code or *)
(* at the end, and what was put out is what the codes before it encode.    *)
AtCode(k) ==
    /\ i = payload.off[k + 1]
    /\ out = SubSeq(payload.original, 1, k)
BetweenCodes == WrittenByTmux(payload) => \E k \in 0 .. Len(payload.original) : AtCode(k)

LEMMA NextCode ==
    ASSUME OutputTypeOK, OutputNext, WrittenByTmux(payload),
           NEW k \in 0 .. Len(payload.original), AtCode(k)
    PROVE  k < Len(payload.original) /\ AtCode(k + 1)'
  <1> DEFINE original == payload.original  escaped == payload.escaped
  <1>1. original \in Seq(Byte) /\ escaped \in Seq(Byte) /\ i \in Nat
    BY DEF OutputTypeOK, IsPayload
  <1>2. payload' = payload /\ i < Len(escaped)
    BY DEF OutputNext, Escape, Literal
  <1>3. k < Len(original)
    <2>1. SUFFICES ASSUME k = Len(original) PROVE FALSE
      BY <1>1
    <2> QED
      BY <1>1, <1>2, <2>1 DEF AtCode, WrittenByTmux
  <1> DEFINE byte == original[k + 1]
  <1>4. k + 1 \in 1 .. Len(original) /\ byte \in Byte
    BY <1>1, <1>3
  <1>5. /\ IsCode(escaped, i, byte)
        /\ payload.off[k + 1 + 1] = i + (IF Special(byte) THEN 4 ELSE 1)
    BY <1>4 DEF WrittenByTmux, AtCode
  <1>6. IF Special(byte) THEN IsEscape(escaped, i) /\ Value(escaped, i) = byte
        ELSE ~IsEscape(escaped, i) /\ escaped[i + 1] = byte
    BY <1>1, <1>4, <1>5, ReadsItsCode
  <1>7. i' = payload.off[k + 1 + 1] /\ out' = Append(out, byte)
    <2>1. CASE Special(byte)
      BY <1>5, <1>6, <2>1 DEF OutputNext, Escape, Literal
    <2>2. CASE ~Special(byte)
      BY <1>5, <1>6, <2>2 DEF OutputNext, Escape, Literal
    <2> QED
      BY <2>1, <2>2
  <1>8. Append(SubSeq(original, 1, k), byte) = SubSeq(original, 1, k + 1)
    BY <1>1, <1>3
  <1> QED
    BY <1>2, <1>3, <1>7, <1>8 DEF AtCode

(* For every payload that tmux wrote, when the loop ends it has put out    *)
(* the bytes the pane printed (output.rs:18-34).                           *)
THEOREM RoundTripAlways == OutputSpec => []RoundTrip
  <1>1. OutputInit => BetweenCodes
    <2> SUFFICES ASSUME OutputInit, WrittenByTmux(payload)
                 PROVE  \E k \in 0 .. Len(payload.original) : AtCode(k)
      BY DEF BetweenCodes
    <2>1. payload.original \in Seq(Byte)
      BY PayloadsAssumption DEF OutputInit, IsPayload
    <2>2. AtCode(0)
      BY <2>1 DEF OutputInit, AtCode, WrittenByTmux
    <2> QED
      BY <2>1, <2>2
  <1>2. OutputTypeOK /\ BetweenCodes /\ [OutputNext]_outputVars => BetweenCodes'
    <2> SUFFICES ASSUME OutputTypeOK, BetweenCodes, [OutputNext]_outputVars, WrittenByTmux(payload)'
                 PROVE  (\E k \in 0 .. Len(payload.original) : AtCode(k))'
      BY DEF BetweenCodes
    <2>1. payload' = payload
      BY DEF OutputNext, Escape, Literal, outputVars
    <2>2. WrittenByTmux(payload)
      BY <2>1
    <2>3. PICK k \in 0 .. Len(payload.original) : AtCode(k)
      BY <2>2 DEF BetweenCodes
    <2>4. CASE OutputNext
      <3>1. k < Len(payload.original) /\ AtCode(k + 1)'
        BY <2>2, <2>3, <2>4, NextCode
      <3>2. k + 1 \in 0 .. Len(payload.original)
        BY <3>1 DEF OutputTypeOK, IsPayload
      <3> QED
        BY <2>1, <3>1, <3>2
    <2>5. CASE UNCHANGED outputVars
      BY <2>3, <2>5 DEF outputVars, AtCode
    <2> QED
      BY <2>4, <2>5
  <1>3. OutputTypeOK /\ BetweenCodes => RoundTrip
    <2> SUFFICES ASSUME OutputTypeOK, BetweenCodes, WrittenByTmux(payload), Done
                 PROVE  out = payload.original
      BY DEF RoundTrip
    <2>1. PICK k \in 0 .. Len(payload.original) : AtCode(k)
      BY DEF BetweenCodes
    <2>2. payload.original \in Seq(Byte) /\ payload.escaped \in Seq(Byte)
      BY DEF OutputTypeOK, IsPayload
    <2>3. k = Len(payload.original)
      <3>1. SUFFICES ASSUME k + 1 \in 1 .. Len(payload.original) PROVE FALSE
        BY <2>2
      <3>2. IsCode(payload.escaped, i, payload.original[k + 1])
        BY <2>1, <3>1 DEF WrittenByTmux, AtCode
      <3>3. i < Len(payload.escaped)
        BY <2>2, <3>2 DEF IsCode, OutputTypeOK
      <3> QED
        BY <2>2, <3>3 DEF Done, OutputTypeOK
    <2> QED
      BY <2>1, <2>2, <2>3 DEF AtCode
  <1> QED
    BY <1>1, <1>2, <1>3, OutputTypeCorrect, PTL DEF OutputSpec

----------------------------------------------------------------------------
(* The rank of an element is a place in the list. *)
LEMMA RankType ==
    ASSUME NEW S \in SUBSET Nat, IsFiniteSet(S), NEW k \in S
    PROVE  Rank(S, k) \in 1 .. Cardinality(S)
  <1> DEFINE T == {j \in S : j <= k}
  <1>1. T \in SUBSET S /\ k \in T
    OBVIOUS
  <1>2. IsFiniteSet(T) /\ Cardinality(T) <= Cardinality(S)
    BY <1>1, FS_Subset
  <1>3. Cardinality(T) \in Nat /\ Cardinality(S) \in Nat
    BY <1>2, FS_CardinalityType
  <1>4. Cardinality(T) # 0
    BY <1>1, <1>2, FS_EmptySet
  <1> QED
    BY <1>2, <1>3, <1>4 DEF Rank

(* A list grows at its end by an element above all others. *)
LEMMA ListsOneMore ==
    ASSUME NEW V, NEW seq \in Seq(V), NEW S \in SUBSET Nat, IsFiniteSet(S),
           NEW f, NEW g, Lists(seq, S, f),
           NEW k \in Nat, \A j \in S : j < k /\ g[j] = f[j], g[k] \in V
    PROVE  Lists(Append(seq, g[k]), S \cup {k}, g)
  <1> DEFINE T == S \cup {k}
             longer == Append(seq, g[k])
  <1>0. k \notin S /\ \A x \in T : x \in Nat /\ x <= k
    OBVIOUS
  <1>1. Cardinality(T) = Cardinality(S) + 1 /\ Len(seq) = Cardinality(S)
    <2>1. Cardinality(T) = IF k \in S THEN Cardinality(S) ELSE Cardinality(S) + 1
      BY FS_AddElement
    <2> QED
      BY <1>0, <2>1 DEF Lists
  <1>2. /\ Len(longer) = Len(seq) + 1 /\ longer[Len(seq) + 1] = g[k]
        /\ \A n \in 1 .. Len(seq) : longer[n] = seq[n]
    BY AppendProperties
  <1>3. ASSUME NEW j \in S PROVE longer[Rank(T, j)] = g[j]
    <2>1. {x \in T : x <= j} = {x \in S : x <= j}
      OBVIOUS
    <2>2. Rank(T, j) = Rank(S, j)
      BY <2>1 DEF Rank
    <2>3. Rank(S, j) \in 1 .. Len(seq)
      BY <1>1, RankType
    <2>4. seq[Rank(S, j)] = g[j]
      BY DEF Lists
    <2> QED
      BY <1>2, <2>2, <2>3, <2>4
  <1>4. longer[Rank(T, k)] = g[k]
    <2>1. {x \in T : x <= k} = T
      BY <1>0
    <2>2. Rank(T, k) = Len(seq) + 1
      BY <1>1, <2>1 DEF Rank
    <2> QED
      BY <1>2, <2>2
  <1> HIDE DEF longer
  <1>5. \A j \in T : longer[Rank(T, j)] = g[j]
    BY <1>3, <1>4
  <1>6. Len(longer) = Cardinality(T)
    BY <1>1, <1>2
  <1> QED
    BY <1>5, <1>6 DEF Lists, longer

(* The list of nothing is empty. *)
LEMMA ListsNothing == ASSUME NEW f PROVE Lists(<< >>, {}, f)
  BY FS_EmptySet DEF Lists

----------------------------------------------------------------------------
(* The loop looks for escapes where the declarative reading finds them. *)
LEMMA FindsEscapes ==
    ASSUME NEW s \in Seq(Byte), NEW n \in Nat, n < Len(s)
    PROVE  /\ IsEscape(s, n) <=> n + 1 \in Escapes(s)
           /\ n + 1 \in Outside(s)
                => IF IsEscape(s, n) THEN Means(s)[n + 1] = Value(s, n)
                   ELSE Means(s)[n + 1] = s[n + 1]
  <1>1. Len(s) \in Nat
    OBVIOUS
  <1>2. IsEscape(s, n) <=> n + 1 \in Escapes(s)
    <2>1. CASE n + 3 < Len(s)
      <3> DEFINE a == s[n + 2]  b == s[n + 3]  c == s[n + 4]
      <3>1. a \in Nat /\ b \in Nat /\ c \in Nat
        BY <1>1, <2>1, ElementOfSeq DEF Byte
      <3>2. n + 1 \in 1 .. Len(s) - 3
        BY <1>1, <2>1
      <3>3. (\A d \in 1 .. 3 : s[n + 1 + d] \in 48 .. 55) <=> IsOctal(a) /\ IsOctal(b) /\ IsOctal(c)
        <4>1. 1 .. 3 = {1, 2, 3}
          OBVIOUS
        <4>2. n + 1 + 1 = n + 2 /\ n + 1 + 2 = n + 3 /\ n + 1 + 3 = n + 4
          OBVIOUS
        <4> QED
          <5>1. (\A d \in 1 .. 3 : s[n + 1 + d] \in 48 .. 55)
                  <=> a \in 48 .. 55 /\ b \in 48 .. 55 /\ c \in 48 .. 55
            BY <4>1, <4>2
          <5> HIDE DEF a, b, c
          <5> QED
            BY <3>1, <5>1 DEF IsOctal
      <3>4. IsOctal(a) /\ IsOctal(b) /\ IsOctal(c) => (Value(s, n) < 256 <=> a <= 51)
        <4>1. Value(s, n) = 64 * (a - 48) + 8 * (b - 48) + (c - 48)
          BY DEF Value
        <4> HIDE DEF a, b, c
        <4> QED
          BY <3>1, <4>1 DEF IsOctal
      <3>5. n + 1 + 1 = n + 2
        OBVIOUS
      <3> QED
        BY <2>1, <3>2, <3>3, <3>4, <3>5 DEF IsEscape, ParsesOctal, Escapes
    <2>2. CASE ~(n + 3 < Len(s))
      <3>1. n + 1 \notin 1 .. Len(s) - 3
        BY <1>1, <2>2
      <3> QED
        BY <2>2, <3>1 DEF IsEscape, Escapes
    <2> QED
      BY <2>1, <2>2
  <1>3. ASSUME n + 1 \in Outside(s)
        PROVE  IF IsEscape(s, n) THEN Means(s)[n + 1] = Value(s, n)
               ELSE Means(s)[n + 1] = s[n + 1]
    <2>1. CASE IsEscape(s, n)
      <3>1. s[n + 2] \in Nat /\ s[n + 3] \in Nat /\ s[n + 4] \in Nat
        BY <1>1, <2>1, ElementOfSeq DEF Byte, IsEscape
      <3>2. /\ n + 1 + 1 = n + 2 /\ n + 1 + 2 = n + 3 /\ n + 1 + 3 = n + 4
        OBVIOUS
      <3>3. Means(s)[n + 1] = ((s[n + 2] - 48) * 8 + s[n + 3] - 48) * 8 + s[n + 4] - 48
        BY <1>2, <1>3, <2>1, <3>2 DEF Means
      <3>4. Value(s, n) = 64 * (s[n + 2] - 48) + 8 * (s[n + 3] - 48) + (s[n + 4] - 48)
        BY DEF Value
      <3>5. PICK a, b, c \in Nat : a = s[n + 2] /\ b = s[n + 3] /\ c = s[n + 4]
        BY <3>1
      <3>6. Value(s, n) = 64 * (a - 48) + 8 * (b - 48) + (c - 48)
        BY <3>4, <3>5
      <3>7. Means(s)[n + 1] = ((a - 48) * 8 + b - 48) * 8 + c - 48
        BY <3>3, <3>5
      <3>8. Means(s)[n + 1] = Value(s, n)
        BY <3>6, <3>7
      <3> QED
        BY <2>1, <3>8
    <2>2. CASE ~IsEscape(s, n)
      BY <1>2, <1>3, <2>2 DEF Means
    <2> QED
      BY <2>1, <2>2
  <1> QED
    BY <1>2, <1>3

(* The cursor stands outside of every escape, or before one, and what is   *)
(* out lists the bytes it has passed.                                      *)
Passed == {k \in Outside(payload.escaped) : k <= i}
BetweenEscapes ==
    /\ i < Len(payload.escaped) => i + 1 \in Outside(payload.escaped)
    /\ Lists(out, Passed, Means(payload.escaped))

LEMMA InitBetweenEscapes == OutputInit => BetweenEscapes
  <1> SUFFICES ASSUME OutputInit PROVE BetweenEscapes
    OBVIOUS
  <1> DEFINE s == payload.escaped
  <1>1. Len(s) \in Nat /\ i = 0 /\ out = << >>
    BY PayloadsAssumption DEF OutputInit, IsPayload
  <1> HIDE DEF s
  <1>2. Passed = {}
    BY <1>1 DEF Passed, Outside, s
  <1>3. 0 < Len(s) => 0 + 1 \in Outside(s)
    BY <1>1 DEF Outside, Escapes
  <1> QED
    BY <1>1, <1>2, <1>3, ListsNothing DEF BetweenEscapes, s

LEMMA StepBetweenEscapes ==
    ASSUME OutputTypeOK, BetweenEscapes, OutputNext
    PROVE  BetweenEscapes'
  <1> DEFINE s == payload.escaped
             S == {k \in Outside(s) : k <= i}
  <1>1. s \in Seq(Byte) /\ i \in Nat /\ out \in Seq(Byte) /\ i < Len(s) /\ Len(s) \in Nat
    BY DEF OutputTypeOK, IsPayload, OutputNext, Escape, Literal
  <1>2. payload' = payload
    BY DEF OutputNext, Escape, Literal
  <1>3. i + 1 \in Outside(s) /\ Lists(out, S, Means(s))
    BY <1>1 DEF BetweenEscapes, Passed
  <1>4. /\ i' = (IF IsEscape(s, i) THEN i + 4 ELSE i + 1)
        /\ out' = Append(out, Means(s)[i + 1])
        /\ Means(s)[i + 1] \in Byte
    <2>1. CASE Escape
      <3>1. IsEscape(s, i) /\ out' = Append(out, Value(s, i)) /\ i' = i + 4
        BY <2>1 DEF Escape
      <3>2. Means(s)[i + 1] = Value(s, i)
        BY <1>1, <1>3, <3>1, FindsEscapes
      <3>3. Value(s, i) \in Byte
        BY <1>1, <3>1, ParsedIsByte DEF IsEscape
      <3> QED
        BY <3>1, <3>2, <3>3
    <2>2. CASE Literal
      <3>1. ~IsEscape(s, i) /\ out' = Append(out, s[i + 1]) /\ i' = i + 1
        BY <2>2 DEF Literal
      <3>2. Means(s)[i + 1] = s[i + 1]
        BY <1>1, <1>3, <3>1, FindsEscapes
      <3>3. s[i + 1] \in Byte
        BY <1>1, ElementOfSeq
      <3> QED
        BY <3>1, <3>2, <3>3
    <2> QED
      BY <2>1, <2>2 DEF OutputNext
  <1>5. i + 1 \in Escapes(s) => i + 3 < Len(s) /\ \A d \in 1 .. 3 : s[i + 1 + d] \in 48 .. 55
    BY <1>1 DEF Escapes
  <1>6. /\ IsEscape(s, i) <=> i + 1 \in Escapes(s)
        /\ \A e \in Escapes(s) : e \in Nat /\ s[e] = 92 /\ i + 1 \notin e + 1 .. e + 3
    <2>1. IsEscape(s, i) <=> i + 1 \in Escapes(s)
      BY <1>1, FindsEscapes
    <2>2. \A e \in Escapes(s) : e \in Nat /\ s[e] = 92
      BY <1>1 DEF Escapes
    <2>3. \A e \in Escapes(s) : i + 1 \notin e + 1 .. e + 3
      BY <1>3 DEF Outside
    <2> QED
      BY <2>1, <2>2, <2>3
  <1>7. {k \in Outside(s) : k <= i'} = S \cup {i + 1}
    <2>1. CASE IsEscape(s, i)
      <3>1. i' = i + 4 /\ \A k \in Outside(s) : k \in Nat /\ k \notin i + 2 .. i + 4
        BY <1>1, <1>4, <1>6, <2>1 DEF Outside
      <3> QED
        BY <1>1, <1>3, <3>1
    <2>2. CASE ~IsEscape(s, i)
      <3>1. i' = i + 1 /\ \A k \in Outside(s) : k \in Nat
        BY <1>4, <2>2 DEF Outside
      <3> QED
        BY <1>1, <1>3, <3>1
    <2> QED
      BY <2>1, <2>2
  <1>8. ASSUME i' < Len(s) PROVE i' + 1 \in Outside(s)
    <2>1. SUFFICES ASSUME NEW e \in Escapes(s), i' + 1 \in e + 1 .. e + 3 PROVE FALSE
      <3>1. i' + 1 \in 1 .. Len(s)
        BY <1>1, <1>4, <1>8
      <3> HIDE DEF s
      <3> QED
        BY <3>1 DEF Outside
    <2>2. e \in Nat /\ s[e] = 92 /\ (i + 1 < e + 1 \/ e + 3 < i + 1)
      BY <1>1, <1>6
    <2>3. CASE IsEscape(s, i)
      <3>1. e \in i + 2 .. i + 4
        BY <1>1, <1>4, <2>1, <2>2, <2>3
      <3>2. e - (i + 1) \in 1 .. 3 /\ i + 1 + (e - (i + 1)) = e
        BY <1>1, <2>2, <3>1
      <3>3. s[e] \in 48 .. 55
        BY <1>5, <1>6, <2>3, <3>2
      <3> QED
        BY <2>2, <3>3
    <2>4. CASE ~IsEscape(s, i)
      <3>1. e = i + 1
        BY <1>1, <1>4, <2>1, <2>2, <2>4
      <3> QED
        BY <1>6, <2>4, <3>1
    <2> QED
      BY <2>3, <2>4
  <1>9. Lists(out', S \cup {i + 1}, Means(s))
    <2>1. S \in SUBSET Nat /\ \A k \in S : k < i + 1
      BY <1>1 DEF Outside
    <2>2. IsFiniteSet(S)
      BY <1>1, <2>1, FS_BoundedSetOfNaturals
    <2> HIDE DEF S, s
    <2>3. i + 1 \in Nat
      BY <1>1
    <2>4. PICK f : f = Means(s)
      OBVIOUS
    <2>5. Lists(Append(out, f[i + 1]), S \cup {i + 1}, f)
      BY <1>1, <1>3, <1>4, <2>1, <2>2, <2>3, <2>4, ListsOneMore
    <2> QED
      BY <1>4, <2>4, <2>5
  <1>10. Passed' = S \cup {i + 1}
    BY <1>2, <1>7 DEF Passed
  <1> QED
    BY <1>2, <1>8, <1>9, <1>10 DEF BetweenEscapes

(* For any payload at all, when the loop ends it has put out the bytes a   *)
(* declarative reading finds in it (output.rs:18-34).                      *)
THEOREM EveryEscapeDecoded == OutputSpec => []DecodesEveryEscape
  <1>1. OutputTypeOK /\ BetweenEscapes /\ [OutputNext]_outputVars => BetweenEscapes'
    <2>1. ASSUME BetweenEscapes, UNCHANGED outputVars PROVE BetweenEscapes'
      BY <2>1 DEF outputVars, BetweenEscapes, Passed
    <2> QED
      BY <2>1, StepBetweenEscapes
  <1>2. OutputTypeOK /\ BetweenEscapes => DecodesEveryEscape
    <2> SUFFICES ASSUME OutputTypeOK, BetweenEscapes, Done
                 PROVE  Lists(out, Outside(payload.escaped), Means(payload.escaped))
      BY DEF DecodesEveryEscape
    <2>1. Len(payload.escaped) \in Nat /\ i \in Nat /\ Len(payload.escaped) <= i
      BY DEF OutputTypeOK, IsPayload, Done
    <2>2. Passed = Outside(payload.escaped)
      BY <2>1 DEF Passed, Outside
    <2> QED
      BY <2>2 DEF BetweenEscapes
  <1> QED
    BY <1>1, <1>2, InitBetweenEscapes, OutputTypeCorrect, PTL DEF OutputSpec

----------------------------------------------------------------------------
(* The lines. *)
LEMMA Smallest ==
    ASSUME NEW S \in SUBSET Nat, S # {}
    PROVE  \E n \in S : \A m \in S : n <= m
  <1> DEFINE R == OpToRel(<, Nat)
  <1>1. IsWellFoundedOn(R, Nat)
    BY NatLessThanWellFounded
  <1> HIDE DEF R
  <1>2. PICK n \in S : \A m \in S : ~(<<m, n>> \in R)
    BY <1>1, WFMin
  <1>3. ASSUME NEW m \in S PROVE n <= m
    <2>1. m \in Nat /\ n \in Nat /\ ~(<<m, n>> \in R)
      BY <1>2
    <2> QED
      BY <2>1 DEF R, OpToRel
  <1> QED
    BY <1>2, <1>3

LEMMA Largest ==
    ASSUME NEW l \in Nat, NEW S \in SUBSET (1 .. l), S # {}
    PROVE  \E n \in S : \A m \in S : m <= n
  <1> DEFINE T == {l - k : k \in S}
  <1>1. T \in SUBSET Nat /\ T # {}
    <2>1. \A k \in S : l - k \in Nat
      OBVIOUS
    <2>2. PICK k : k \in S
      OBVIOUS
    <2>3. l - k \in T
      BY <2>2
    <2> QED
      BY <2>1, <2>3
  <1> HIDE DEF T
  <1>2. PICK t \in T : \A u \in T : t <= u
    BY <1>1, Smallest
  <1>3. PICK n \in S : t = l - n
    BY <1>2 DEF T
  <1>4. ASSUME NEW m \in S PROVE m <= n
    <2>1. l - m \in T
      BY DEF T
    <2>2. l - n <= l - m
      BY <1>2, <1>3, <2>1
    <2> QED
      BY <2>2
  <1> QED
    BY <1>3, <1>4

(* What holds of 0 and of each successor holds of all naturals. *)
LEMMA SetInduction ==
    ASSUME NEW T \in SUBSET Nat, 0 \in T, \A n \in T : n + 1 \in T
    PROVE  T = Nat
  <1> DEFINE Missing == Nat \ T
  <1>1. SUFFICES ASSUME Missing # {} PROVE FALSE
    OBVIOUS
  <1>2. PICK n \in Missing : \A m \in Missing : n <= m
    BY <1>1, Smallest
  <1>3. n \in Nat /\ n # 0 /\ n - 1 \in Nat
    BY <1>2
  <1>4. n - 1 \in T
    BY <1>2, <1>3
  <1>5. (n - 1) + 1 \in T
    BY <1>4
  <1> QED
    BY <1>2, <1>3, <1>5

----------------------------------------------------------------------------
(* Lines and their words. *)
LEMMA LineWords ==
    ASSUME NEW line \in Words
    PROVE  /\ line \in Seq(Word) /\ Len(line) \in Nat /\ Len(line) > 0
           /\ DOMAIN line = 1 .. Len(line)
           /\ \A k \in 1 .. Len(line) : line[k] \in Word
           /\ line = EmptyText <=> Len(line) = 1 /\ line[1] = << >>
           /\ Tail(line) \in Seq(Word) /\ Len(Tail(line)) = Len(line) - 1
           /\ \A k \in 1 .. Len(line) - 1 : Tail(line)[k] = line[k + 1]
  <1>1. line \in Seq(Word) /\ line # << >>
    BY DEF Words
  <1>2. Len(line) \in Nat /\ Len(line) > 0 /\ DOMAIN line = 1 .. Len(line)
    BY <1>1, EmptySeq, LenProperties
  <1>3. \A k \in 1 .. Len(line) : line[k] \in Word
    BY <1>1, ElementOfSeq
  <1>4. line = EmptyText <=> Len(line) = 1 /\ line[1] = << >>
    <2>1. Len(EmptyText) = 1 /\ EmptyText[1] = << >>
      BY DEF EmptyText
    <2>2. ASSUME Len(line) = 1, line[1] = << >> PROVE line = EmptyText
      <3>1. EmptyText \in Seq(Word)
        <4>1. << >> \in Word
          BY EmptySeq DEF Word
        <4> QED
          BY <4>1 DEF EmptyText
      <3>2. \A k \in 1 .. Len(line) : line[k] = EmptyText[k]
        BY <2>1, <2>2
      <3> QED
        BY <1>1, <2>1, <2>2, <3>1, <3>2, SeqEqual
    <2> QED
      BY <2>1, <2>2
  <1>5. /\ Tail(line) \in Seq(Word) /\ Len(Tail(line)) = Len(line) - 1
        /\ \A k \in 1 .. Len(line) - 1 : Tail(line)[k] = line[k + 1]
    BY <1>1, HeadTailProperties
  <1> QED
    BY <1>1, <1>2, <1>3, <1>4, <1>5

(* A conversion of chunks keeps the words and their lengths. *)
LEMMA EachMeans ==
    ASSUME NEW f \in [Chunk -> Chunk], NEW words \in Seq(Word)
    PROVE  /\ Each(f, words) \in Seq(Word) /\ Len(Each(f, words)) = Len(words)
           /\ \A w \in 1 .. Len(words) :
                /\ Each(f, words)[w] \in Word /\ Len(Each(f, words)[w]) = Len(words[w])
                /\ \A c \in 1 .. Len(words[w]) : Each(f, words)[w][c] = f[words[w][c]]
  <1> DEFINE Converted(w) == [c \in DOMAIN words[w] |-> f[words[w][c]]]
  <1>1. DOMAIN words = 1 .. Len(words) /\ Len(words) \in Nat
    BY LenProperties
  <1>2. ASSUME NEW w \in 1 .. Len(words)
        PROVE  /\ Converted(w) \in Word /\ Len(Converted(w)) = Len(words[w])
               /\ \A c \in 1 .. Len(words[w]) : Converted(w)[c] = f[words[w][c]]
    <2>1. words[w] \in Seq(Chunk)
      BY <1>2, ElementOfSeq DEF Word
    <2>2. DOMAIN words[w] = 1 .. Len(words[w]) /\ Len(words[w]) \in Nat
      BY <2>1, LenProperties
    <2>3. \A c \in 1 .. Len(words[w]) : f[words[w][c]] \in Chunk
      BY <2>1, ElementOfSeq
    <2>4. Converted(w) \in [1 .. Len(words[w]) -> Chunk]
      BY <2>2, <2>3
    <2> QED
      BY <2>2, <2>4, SeqDef, LenProperties DEF Word
  <1>3. Each(f, words) = [w \in 1 .. Len(words) |-> Converted(w)]
    BY <1>1 DEF Each
  <1> HIDE DEF Converted
  <1>4. Each(f, words) \in [1 .. Len(words) -> Word]
    BY <1>2, <1>3
  <1>5. Each(f, words) \in Seq(Word) /\ Len(Each(f, words)) = Len(words)
    BY <1>1, <1>4, SeqDef, LenProperties
  <1> QED
    BY <1>2, <1>3, <1>5

LEMMA EachLine ==
    ASSUME NEW f \in [Chunk -> Chunk], NEW line \in Words
    PROVE  Each(f, line) \in Words
  <1>1. Each(f, line) \in Seq(Word) /\ Len(Each(f, line)) > 0
    BY EachMeans, LineWords
  <1>2. Len(<< >>) = 0
    OBVIOUS
  <1> QED
    BY <1>1, <1>2 DEF Words

LEMMA TwoChunks ==
    ASSUME NEW word \in Word, Len(word) = 2
    PROVE  word = << word[1], word[2] >>
  <1>1. word \in Seq(Chunk) /\ word[1] \in Chunk /\ word[2] \in Chunk
    BY ElementOfSeq DEF Word
  <1>2. PICK pair \in Seq(Chunk) : pair = << word[1], word[2] >>
    BY <1>1
  <1>3. Len(pair) = 2 /\ \A k \in 1 .. 2 : pair[k] = word[k]
    BY <1>2
  <1> QED
    BY <1>1, <1>2, <1>3, SeqEqual

(* The lossy conversion is idempotent and keeps what the parser tests for. *)
LEMMA TextMeans ==
    ASSUME NEW line \in Words
    PROVE  /\ Text(line) \in Words /\ Len(Text(line)) = Len(line)
           /\ Text(Text(line)) = Text(line)
           /\ \A w \in 1 .. Len(line), a, b \in Keyword :
                Text(line)[w] = << a, b >> <=> line[w] = << a, b >>
           /\ IsOutputLine(Text(line)) <=> IsOutputLine(line)
  <1> DEFINE text == Text(line)
  <1>1. /\ Lossy \in [Chunk -> Chunk] /\ \A c \in Chunk : Lossy[Lossy[c]] = Lossy[c]
        /\ \A c \in Chunk, k \in Keyword : Lossy[c] = k <=> c = k
    BY GrammarAssumption
  <1>2. line \in Seq(Word) /\ Len(line) \in Nat /\ Len(line) > 0
    BY LineWords
  <1>3. /\ text \in Words /\ text \in Seq(Word) /\ Len(text) = Len(line)
        /\ \A w \in 1 .. Len(line) :
             /\ text[w] \in Word /\ Len(text[w]) = Len(line[w])
             /\ \A c \in 1 .. Len(line[w]) : text[w][c] = Lossy[line[w][c]]
    BY <1>1, <1>2, EachMeans, EachLine DEF Text, Words
  <1>4. /\ Text(text) \in Seq(Word) /\ Len(Text(text)) = Len(line)
        /\ \A w \in 1 .. Len(line) :
             /\ Text(text)[w] \in Word /\ Len(Text(text)[w]) = Len(line[w])
             /\ \A c \in 1 .. Len(line[w]) : Text(text)[w][c] = Lossy[text[w][c]]
    <2>1. PICK words \in Seq(Word) : words = text
      BY <1>3
    <2>2. PICK twice : twice = Each(Lossy, words)
      OBVIOUS
    <2>3. /\ twice \in Seq(Word) /\ Len(twice) = Len(words)
          /\ \A w \in 1 .. Len(words) :
               /\ twice[w] \in Word /\ Len(twice[w]) = Len(words[w])
               /\ \A c \in 1 .. Len(words[w]) : twice[w][c] = Lossy[words[w][c]]
      BY <1>1, <2>2, EachMeans
    <2>4. Text(text) = twice
      BY <2>1, <2>2 DEF Text
    <2> HIDE DEF text
    <2> QED
      BY <1>3, <2>1, <2>3, <2>4
  <1> HIDE DEF text
  <1>5. \A w \in 1 .. Len(line) : line[w] \in Seq(Chunk) /\ \A c \in 1 .. Len(line[w]) : line[w][c] \in Chunk
    BY <1>2, ElementOfSeq DEF Word
  <1>6. Text(text) = text
    <2>1. ASSUME NEW w \in 1 .. Len(line) PROVE Text(text)[w] = text[w]
      <3>1. \A c \in 1 .. Len(line[w]) : Text(text)[w][c] = text[w][c]
        BY <1>1, <1>3, <1>4, <1>5
      <3>2. PICK u, v \in Seq(Chunk) : u = Text(text)[w] /\ v = text[w]
        BY <1>3, <1>4 DEF Word
      <3>3. Len(u) = Len(v) /\ \A c \in 1 .. Len(u) : u[c] = v[c]
        BY <1>3, <1>4, <3>1, <3>2
      <3>4. u = v
        BY <3>3, SeqEqual
      <3> QED
        BY <3>2, <3>4
    <2>2. PICK u, v \in Seq(Word) : u = Text(text) /\ v = text
      BY <1>3, <1>4
    <2>3. Len(u) = Len(v) /\ \A w \in 1 .. Len(u) : u[w] = v[w]
      BY <1>3, <1>4, <2>1, <2>2
    <2>4. u = v
      BY <2>3, SeqEqual
    <2> QED
      BY <2>2, <2>4
  <1>7. ASSUME NEW w \in 1 .. Len(line), NEW a \in Keyword, NEW b \in Keyword
        PROVE  text[w] = << a, b >> <=> line[w] = << a, b >>
    <2>1. text[w] = << a, b >> <=> Len(text[w]) = 2 /\ text[w][1] = a /\ text[w][2] = b
      <3>1. PICK word \in Word : word = text[w]
        BY <1>3
      <3>2. word = << a, b >> <=> Len(word) = 2 /\ word[1] = a /\ word[2] = b
        <4>1. Len(word) = 2 => word = << word[1], word[2] >>
          BY <3>1, TwoChunks
        <4>2. word = << a, b >> => Len(word) = 2 /\ word[1] = a /\ word[2] = b
          OBVIOUS
        <4> QED
          BY <4>1, <4>2
      <3> QED
        BY <3>1, <3>2
    <2>2. line[w] = << a, b >> <=> Len(line[w]) = 2 /\ line[w][1] = a /\ line[w][2] = b
      <3>1. PICK word \in Word : word = line[w]
        BY <1>2, ElementOfSeq
      <3>2. word = << a, b >> <=> Len(word) = 2 /\ word[1] = a /\ word[2] = b
        <4>1. Len(word) = 2 => word = << word[1], word[2] >>
          BY <3>1, TwoChunks
        <4>2. word = << a, b >> => Len(word) = 2 /\ word[1] = a /\ word[2] = b
          OBVIOUS
        <4> QED
          BY <4>1, <4>2
      <3> QED
        BY <3>1, <3>2
    <2>3. Len(line[w]) = 2 => text[w][1] = Lossy[line[w][1]] /\ text[w][2] = Lossy[line[w][2]]
                              /\ line[w][1] \in Chunk /\ line[w][2] \in Chunk
      BY <1>3, <1>5
    <2> QED
      BY <1>1, <1>3, <2>1, <2>2, <2>3
  <1>8. IsOutputLine(text) <=> IsOutputLine(line)
    <2>1. "%" \in Keyword /\ OutputKinds \subseteq Keyword /\ 1 \in 1 .. Len(line)
      BY <1>2 DEF Keyword
    <2> QED
      BY <1>3, <1>7, <2>1 DEF IsOutputLine
  <1> QED
    BY <1>3, <1>6, <1>7, <1>8 DEF text

----------------------------------------------------------------------------
(* Numbers, ids and guards. *)
LEMMA NumberMeans ==
    ASSUME NEW word, NEW max
    PROVE  \/ ParseNumber(word, max) = None
           \/ /\ Len(word) = 1 /\ word[1] \in Numeral /\ Worth[word[1]] <= max
              /\ Worth[word[1]] \in Nat
              /\ ParseNumber(word, max) = Some(Worth[word[1]])
              /\ ParseNumber(word, max) # None
  <1>1. \A n : Some(n) # None
    BY DEF Some, None
  <1> QED
    BY <1>1, GrammarAssumption DEF ParseNumber

LEMMA IdMeans ==
    ASSUME NEW sigil, NEW word \in Word
    PROVE  \/ Id(sigil, word) = None
           \/ /\ Id(sigil, word) # None
              /\ Len(word) = 2 /\ word[1] = sigil /\ word[2] \in Numeral
              /\ Id(sigil, word)[1] = Worth[word[2]] /\ Worth[word[2]] \in WireId
  <1>1. CASE Id(sigil, word) # None
    <2>1. /\ Len(word) = 2 /\ word[1] = sigil
          /\ Id(sigil, word) = ParseNumber(<< word[2] >>, MaxU32)
      BY <1>1 DEF Id
    <2>2. PICK digits : digits = << word[2] >>
      OBVIOUS
    <2>3. /\ digits[1] \in Numeral /\ Worth[digits[1]] <= MaxU32 /\ Worth[digits[1]] \in Nat
          /\ ParseNumber(digits, MaxU32) = Some(Worth[digits[1]])
      BY <1>1, <2>1, <2>2, NumberMeans
    <2>4. digits[1] = word[2]
      BY <2>2
    <2>5. Id(sigil, word)[1] = Worth[word[2]]
      BY <2>1, <2>2, <2>3, <2>4 DEF Some
    <2> QED
      BY <1>1, <2>1, <2>3, <2>4, <2>5, GrammarAssumption DEF WireId
  <1> QED
    BY <1>1

(* A guard is a line of four words that opens with its keyword.            *)
LEMMA GuardMeans ==
    ASSUME NEW line \in Words
    PROVE  \/ ParseGuard(line) = None
           \/ /\ ParseGuard(line) # None
              /\ ParseGuard(line) = Some(ParseGuard(line)[1])
              /\ ParseGuard(line)[1] \in Framing!Guard
              /\ line[1] = << "%", ParseGuard(line)[1].kind >>
              /\ line # EmptyText /\ ~IsOutputLine(line)
  <1> SUFFICES ASSUME ParseGuard(line) # None
               PROVE  /\ ParseGuard(line) = Some(ParseGuard(line)[1])
                      /\ ParseGuard(line)[1] \in Framing!Guard
                      /\ line[1] = << "%", ParseGuard(line)[1].kind >>
                      /\ line # EmptyText /\ ~IsOutputLine(line)
    OBVIOUS
  <1> DEFINE guard == [kind |-> line[1][2], number |-> ParseNumber(line[3], MaxU64)[1],
                       control |-> ParseNumber(line[4], MaxU32)[1] # 0]
  <1>1. /\ Len(line) = 4 /\ \E kind \in GuardKind : line[1] = << "%", kind >>
        /\ ParseNumber(line[3], MaxU64) # None
        /\ ParseGuard(line) = Some(guard)
    BY DEF ParseGuard
  <1>2. PICK kind \in GuardKind : line[1] = << "%", kind >>
    BY <1>1
  <1>3. ParseNumber(line[3], MaxU64)[1] \in 0 .. MaxU64
    BY <1>1, NumberMeans, GrammarAssumption DEF Some
  <1>4. guard.kind = kind /\ guard \in Framing!Guard
    BY <1>2, <1>3 DEF Framing!Guard, Framing!GuardKind, GuardKind
  <1> HIDE DEF guard
  <1>5. ParseGuard(line)[1] = guard
    BY <1>1 DEF Some
  <1>6. Len(EmptyText) = 1
    BY DEF EmptyText
  <1>7. ~IsOutputLine(line)
    <2>1. \A other \in OutputKinds : line[1] # << "%", other >>
      BY <1>2 DEF GuardKind, OutputKinds
    <2> QED
      BY <2>1 DEF IsOutputLine
  <1> QED
    BY <1>1, <1>2, <1>4, <1>5, <1>6, <1>7

----------------------------------------------------------------------------
(* The fold over the characters of a flags field.  Folded says that it is  *)
(* the function FoldLeft recurses by; there is one, and along the initial  *)
(* segments of the field it takes one character after the other.           *)
Folded(it, n, field) ==
    it = [s \in SUBSET (1 .. n) |->
            IF s = {} THEN NoFlags ELSE TakeFlag(it[s \ {Max(s)}], field[Max(s)])]

LEMMA MaxIs ==
    ASSUME NEW n \in Nat, NEW s \in SUBSET (1 .. n), n \in s
    PROVE  Max(s) = n
  <1>1. \A y \in s : n >= y
    OBVIOUS
  <1>2. \A x \in s : (\A y \in s : x >= y) => x = n
    OBVIOUS
  <1> QED
    BY <1>1, <1>2 DEF Max

LEMMA FoldedOneMore ==
    ASSUME NEW n \in Nat, NEW it, NEW field, Folded(it, n, field)
    PROVE  \E longer : Folded(longer, n + 1, field)
  <1> DEFINE Body(g, s) == IF s = {} THEN NoFlags ELSE TakeFlag(g[s \ {Max(s)}], field[Max(s)])
  <1>1. PICK longer :
          longer = [s \in SUBSET (1 .. n + 1) |->
                      IF n + 1 \in s THEN TakeFlag(it[s \ {n + 1}], field[n + 1]) ELSE it[s]]
    OBVIOUS
  <1>2. \A s \in SUBSET (1 .. n) : it[s] = Body(it, s)
    BY DEF Folded
  <1>3. \A s \in SUBSET (1 .. n) : s \in SUBSET (1 .. n + 1) /\ n + 1 \notin s
    OBVIOUS
  <1>4. \A s \in SUBSET (1 .. n) : longer[s] = it[s]
    BY <1>1, <1>3
  <1>5. ASSUME NEW s \in SUBSET (1 .. n + 1) PROVE longer[s] = Body(longer, s)
    <2>1. CASE n + 1 \in s
      <3>1. Max(s) = n + 1
        BY <2>1, MaxIs
      <3>2. s \ {n + 1} \in SUBSET (1 .. n)
        OBVIOUS
      <3>3. longer[s] = TakeFlag(it[s \ {n + 1}], field[n + 1])
        BY <1>1, <2>1
      <3>4. longer[s \ {n + 1}] = it[s \ {n + 1}]
        BY <1>4, <3>2
      <3> QED
        BY <2>1, <3>1, <3>3, <3>4
    <2>2. CASE n + 1 \notin s
      <3>1. s \in SUBSET (1 .. n)
        BY <2>2
      <3>2. \A m : s \ {m} \in SUBSET (1 .. n)
        BY <3>1
      <3>3. longer[s] = Body(it, s)
        BY <1>2, <1>4, <3>1
      <3>4. longer[s \ {Max(s)}] = it[s \ {Max(s)}]
        BY <1>4, <3>2
      <3> QED
        BY <3>3, <3>4
    <2> QED
      BY <2>1, <2>2
  <1>6. longer = [s \in SUBSET (1 .. n + 1) |-> longer[s]]
    BY <1>1
  <1>7. longer = [s \in SUBSET (1 .. n + 1) |-> Body(longer, s)]
    BY <1>5, <1>6
  <1> QED
    BY <1>7 DEF Folded

LEMMA FoldedExists ==
    ASSUME NEW field, NEW n \in Nat
    PROVE  \E it : Folded(it, n, field)
  <1> DEFINE T == {k \in Nat : \E it : Folded(it, k, field)}
  <1>1. 0 \in T
    <2>1. PICK it : it = [s \in SUBSET (1 .. 0) |-> NoFlags]
      OBVIOUS
    <2>2. \A s \in SUBSET (1 .. 0) : s = {}
      OBVIOUS
    <2>3. Folded(it, 0, field)
      BY <2>1, <2>2 DEF Folded
    <2> QED
      BY <2>3
  <1>2. \A k \in T : k + 1 \in T
    BY FoldedOneMore
  <1>3. T \in SUBSET Nat
    OBVIOUS
  <1> HIDE DEF T
  <1>4. T = Nat
    BY <1>1, <1>2, <1>3, SetInduction
  <1> QED
    BY <1>4 DEF T

LEMMA FlagsByChar ==
    ASSUME NEW field \in Word
    PROVE  \E flags :
             /\ flags[0] = NoFlags
             /\ \A k \in 0 .. Len(field) - 1 : flags[k + 1] = TakeFlag(flags[k], field[k + 1])
             /\ ParseWindowFlags(field) = flags[Len(field)]
  <1> DEFINE n == Len(field)
             it == CHOOSE g : Folded(g, n, field)
  <1>1. n \in Nat /\ DOMAIN field = 1 .. n
    BY LenProperties DEF Word
  <1>2. ParseWindowFlags(field) = it[1 .. n]
    BY <1>1 DEF ParseWindowFlags, FoldLeft, MapThenFoldSet, Folded
  <1>3. Folded(it, n, field)
    BY <1>1, FoldedExists
  <1> HIDE DEF it, n
  <1>4. \A s \in SUBSET (1 .. n) :
          it[s] = IF s = {} THEN NoFlags ELSE TakeFlag(it[s \ {Max(s)}], field[Max(s)])
    BY <1>3 DEF Folded
  <1>5. PICK flags : flags = [k \in 0 .. n |-> it[1 .. k]]
    OBVIOUS
  <1>6. flags[0] = NoFlags
    <2>1. 1 .. 0 = {} /\ {} \in SUBSET (1 .. n) /\ 0 \in 0 .. n
      BY <1>1
    <2> QED
      BY <1>4, <1>5, <2>1
  <1>7. ASSUME NEW k \in 0 .. n - 1 PROVE flags[k + 1] = TakeFlag(flags[k], field[k + 1])
    <2>1. /\ k + 1 \in Nat /\ 1 .. k + 1 \in SUBSET (1 .. n) /\ k + 1 \in 1 .. k + 1
          /\ (1 .. k + 1) \ {k + 1} = 1 .. k /\ k + 1 \in 0 .. n /\ k \in 0 .. n
      BY <1>1
    <2>2. Max(1 .. k + 1) = k + 1
      BY <2>1, MaxIs
    <2>3. it[1 .. k + 1] = TakeFlag(it[1 .. k], field[k + 1])
      BY <1>4, <2>1, <2>2
    <2> QED
      BY <1>5, <2>1, <2>3
  <1>8. flags[n] = it[1 .. n]
    BY <1>1, <1>5
  <1> QED
    BY <1>2, <1>6, <1>7, <1>8 DEF n

FlagSet == [set : SUBSET KnownFlag, unknown : Word]

(* What is unknown among the first k characters, and the flags among them. *)
Unknowns(field, k) == {j \in 1 .. k : field[j] \notin KnownFlag}
Knowns(field, k) == {field[j] : j \in 1 .. k} \cap KnownFlag

KeepsUpTo(flags, field, k) ==
    /\ flags \in FlagSet
    /\ flags.set = Knowns(field, k)
    /\ Lists(flags.unknown, Unknowns(field, k), field)

LEMMA TakeFlagKeeps ==
    ASSUME NEW field \in Word, NEW k \in 0 .. Len(field) - 1, NEW flags,
           KeepsUpTo(flags, field, k)
    PROVE  KeepsUpTo(TakeFlag(flags, field[k + 1]), field, k + 1)
  <1> DEFINE c == field[k + 1]
             taken == TakeFlag(flags, c)
  <1>1. field \in Seq(Chunk) /\ Len(field) \in Nat /\ k \in Nat /\ c \in Chunk
    <2>1. field \in Seq(Chunk) /\ Len(field) \in Nat
      BY LenProperties DEF Word
    <2>2. k \in Nat /\ k + 1 \in 1 .. Len(field)
      BY <2>1
    <2> QED
      BY <2>1, <2>2, ElementOfSeq
  <1>2. 1 .. k + 1 = (1 .. k) \cup {k + 1}
    BY <1>1
  <1>3. flags \in FlagSet /\ flags.unknown \in Seq(Chunk) /\ flags.set \in SUBSET KnownFlag
    BY DEF KeepsUpTo, FlagSet, Word
  <1>4. CASE c \in KnownFlag
    <2>1. taken = [flags EXCEPT !.set = @ \cup {c}]
      BY <1>4 DEF TakeFlag
    <2>2. taken \in FlagSet /\ taken.set = flags.set \cup {c} /\ taken.unknown = flags.unknown
      BY <1>3, <1>4, <2>1 DEF FlagSet
    <2>3. Unknowns(field, k + 1) = Unknowns(field, k)
      BY <1>2, <1>4 DEF Unknowns
    <2>4. Knowns(field, k + 1) = Knowns(field, k) \cup {c}
      BY <1>2, <1>4 DEF Knowns
    <2> QED
      BY <2>2, <2>3, <2>4 DEF KeepsUpTo
  <1>5. CASE c \notin KnownFlag
    <2>1. taken = [flags EXCEPT !.unknown = Append(@, c)]
      BY <1>5 DEF TakeFlag
    <2>2. Append(flags.unknown, c) \in Seq(Chunk)
      BY <1>1, <1>3, AppendProperties
    <2>3. taken \in FlagSet /\ taken.set = flags.set /\ taken.unknown = Append(flags.unknown, c)
      BY <1>3, <2>1, <2>2 DEF FlagSet, Word
    <2>4. Unknowns(field, k + 1) = Unknowns(field, k) \cup {k + 1}
      BY <1>2, <1>5 DEF Unknowns
    <2>5. Knowns(field, k + 1) = Knowns(field, k)
      BY <1>2, <1>5 DEF Knowns
    <2>6. Lists(Append(flags.unknown, c), Unknowns(field, k) \cup {k + 1}, field)
      <3>1. PICK S \in SUBSET Nat : S = Unknowns(field, k)
        <4>1. Unknowns(field, k) \subseteq 1 .. k
          BY DEF Unknowns
        <4> QED
          BY <4>1
      <3>2. \A j \in S : j < k + 1 /\ j <= k
        BY <1>1, <3>1 DEF Unknowns
      <3>3. IsFiniteSet(S)
        BY <1>1, <3>1, <3>2, FS_BoundedSetOfNaturals
      <3>4. Lists(flags.unknown, S, field)
        BY <3>1 DEF KeepsUpTo
      <3>5. k + 1 \in Nat
        BY <1>1
      <3>6. PICK unknown \in Seq(Chunk) : unknown = flags.unknown
        BY <1>3
      <3>7. field[k + 1] \in Chunk
        BY <1>1
      <3>8. Lists(Append(unknown, field[k + 1]), S \cup {k + 1}, field)
        BY <3>1, <3>2, <3>3, <3>4, <3>5, <3>6, <3>7, ListsOneMore
      <3> QED
        BY <3>1, <3>6, <3>8
    <2> QED
      BY <2>3, <2>4, <2>5, <2>6 DEF KeepsUpTo
  <1> QED
    BY <1>4, <1>5

(* Every character of the field shows in the flags, and nothing else does. *)
LEMMA FlagsKept ==
    ASSUME NEW field \in Word
    PROVE  /\ ParseWindowFlags(field) \in FlagSet
           /\ KeepsEveryFlag(ParseWindowFlags(field), field)
  <1>1. Len(field) \in Nat /\ DOMAIN field = 1 .. Len(field)
    BY LenProperties DEF Word
  <1>2. PICK flags :
          /\ flags[0] = NoFlags
          /\ \A k \in 0 .. Len(field) - 1 : flags[k + 1] = TakeFlag(flags[k], field[k + 1])
          /\ ParseWindowFlags(field) = flags[Len(field)]
    BY FlagsByChar
  <1> DEFINE T == {k \in Nat : k <= Len(field) => KeepsUpTo(flags[k], field, k)}
  <1>3. 0 \in T
    <2>1. /\ Unknowns(field, 0) = {} /\ Knowns(field, 0) = {}
      BY DEF Unknowns, Knowns
    <2>2. NoFlags.set = {} /\ NoFlags.unknown = << >> /\ NoFlags \in FlagSet
      BY EmptySeq DEF NoFlags, FlagSet, Word
    <2>3. KeepsUpTo(NoFlags, field, 0)
      BY <2>1, <2>2, ListsNothing DEF KeepsUpTo
    <2> QED
      BY <1>2, <2>3
  <1>4. ASSUME NEW k \in T PROVE k + 1 \in T
    <2>1. k \in Nat /\ (k <= Len(field) => KeepsUpTo(flags[k], field, k))
      OBVIOUS
    <2>2. SUFFICES ASSUME k + 1 <= Len(field) PROVE KeepsUpTo(flags[k + 1], field, k + 1)
      BY <2>1
    <2>3. k \in 0 .. Len(field) - 1 /\ KeepsUpTo(flags[k], field, k)
      BY <1>1, <2>1, <2>2
    <2>4. KeepsUpTo(TakeFlag(flags[k], field[k + 1]), field, k + 1)
      BY <2>3, TakeFlagKeeps
    <2> QED
      BY <1>2, <2>3, <2>4
  <1>5. T \in SUBSET Nat
    OBVIOUS
  <1> HIDE DEF T
  <1>6. T = Nat
    BY <1>3, <1>4, <1>5, SetInduction
  <1>7. KeepsUpTo(ParseWindowFlags(field), field, Len(field))
    BY <1>1, <1>2, <1>6 DEF T
  <1>8. Knowns(field, Len(field)) = ToSet(field) \cap KnownFlag
    BY <1>1 DEF Knowns, ToSet
  <1> QED
    BY <1>1, <1>7, <1>8 DEF KeepsUpTo, KeepsEveryFlag, Unknowns

----------------------------------------------------------------------------
(* Spelling: two words that differ in how a number is written at most.     *)
Alike(u, v) == Len(u) = Len(v) /\ \A c \in 1 .. Len(u) : Spelling(u[c]) = Spelling(v[c])

LEMMA SpellingType == ASSUME NEW c \in Chunk PROVE Spelling(c) \in Chunk
  <1>1. Encode[Decode[c]] \in Chunk
    BY GrammarAssumption
  <1>2. \A d \in Numeral : Worth[d] <= MaxU64 => Shown[Worth[d]] \in Chunk
    BY GrammarAssumption
  <1> QED
    BY <1>1, <1>2 DEF Spelling

LEMMA SpellingOfNumber ==
    ASSUME NEW c \in Numeral, Worth[c] <= MaxU64
    PROVE  /\ Shown[Worth[c]] \in Numeral
           /\ Spelling(Shown[Worth[c]]) = Spelling(c)
  <1>1. Worth[c] \in 0 .. MaxU64
    BY GrammarAssumption
  <1>2. Shown[Worth[c]] \in Numeral /\ Worth[Shown[Worth[c]]] = Worth[c]
    BY <1>1, GrammarAssumption
  <1>3. \A d \in Numeral : Encode[Decode[d]] = d
    BY GrammarAssumption
  <1>4. \A d \in Numeral : Worth[d] <= MaxU64 => Spelling(d) = Shown[Worth[d]]
    BY <1>3 DEF Spelling
  <1> QED
    BY <1>2, <1>4

LEMMA SpellingOfBytes ==
    ASSUME NEW c \in Chunk
    PROVE  /\ Encode[Decode[c]] \in Chunk
           /\ Spelling(Encode[Decode[c]]) = Spelling(c)
  <1>1. Decode[c] \in Chunk /\ Encode[Decode[c]] \in Chunk
    BY GrammarAssumption
  <1>2. Decode[Encode[Decode[c]]] = Decode[c]
    BY <1>1, GrammarAssumption
  <1> QED
    BY <1>1, <1>2 DEF Spelling

LEMMA SpelledMeans ==
    ASSUME NEW words \in Seq(Word)
    PROVE  /\ Spelled(words) \in Seq(Word) /\ Len(Spelled(words)) = Len(words)
           /\ \A w \in 1 .. Len(words) :
                /\ Spelled(words)[w] \in Word /\ Len(Spelled(words)[w]) = Len(words[w])
                /\ \A c \in 1 .. Len(words[w]) : Spelled(words)[w][c] = Spelling(words[w][c])
  <1>1. PICK f \in [Chunk -> Chunk] : \A c \in Chunk : f[c] = Spelling(c)
    <2>1. [c \in Chunk |-> Spelling(c)] \in [Chunk -> Chunk]
      BY SpellingType
    <2> QED
      BY <2>1
  <1>2. \A w \in DOMAIN words : \A c \in DOMAIN words[w] : f[words[w][c]] = Spelling(words[w][c])
    <2>1. ASSUME NEW w \in DOMAIN words, NEW c \in DOMAIN words[w]
          PROVE  words[w][c] \in Chunk
      <3>1. words[w] \in Seq(Chunk)
        BY ElementOfSeq, LenProperties DEF Word
      <3> QED
        BY <3>1, ElementOfSeq, LenProperties
    <2> QED
      BY <1>1, <2>1
  <1>3. Spelled(words) = Each(f, words)
    BY <1>2 DEF Spelled, Each
  <1>4. \A w \in 1 .. Len(words) : \A c \in 1 .. Len(words[w]) :
          f[words[w][c]] = Spelling(words[w][c])
    <2>1. ASSUME NEW w \in 1 .. Len(words), NEW c \in 1 .. Len(words[w])
          PROVE  w \in DOMAIN words /\ c \in DOMAIN words[w]
      <3>1. words[w] \in Seq(Chunk)
        BY ElementOfSeq DEF Word
      <3> QED
        BY <3>1, LenProperties
    <2> QED
      BY <1>2, <2>1
  <1> QED
    BY <1>1, <1>3, <1>4, EachMeans, SMTT(60)

LEMMA PrefixIs ==
    ASSUME NEW s \in Seq(Word), NEW t \in Seq(Word), Len(s) <= Len(t),
           \A k \in 1 .. Len(s) : s[k] = t[k]
    PROVE  IsPrefix(s, t)
  <1>1. Len(s) \in Nat /\ Len(t) \in Nat
    BY LenProperties
  <1>2. SubSeq(s, 1, Len(s)) \in Seq(Word) /\ SubSeq(t, 1, Len(s)) \in Seq(Word)
    BY <1>1, SubSeqProperties
  <1>3. PICK u, v \in Seq(Word) : u = SubSeq(s, 1, Len(s)) /\ v = SubSeq(t, 1, Len(s))
    BY <1>2
  <1>4. /\ Len(u) = Len(s) /\ Len(v) = Len(s)
        /\ \A k \in 1 .. Len(s) : u[k] = s[k] /\ v[k] = t[k]
    BY <1>1, <1>3, SubSeqProperties
  <1>5. u = v
    BY <1>4, SeqEqual
  <1> QED
    BY <1>3, <1>5 DEF IsPrefix

(* Lines whose words are alike are spelled alike. *)
LEMMA AlikeSpelled ==
    ASSUME NEW wire \in Seq(Word), NEW words \in Seq(Word), Len(wire) <= Len(words),
           \A w \in 1 .. Len(wire) : Alike(wire[w], words[w])
    PROVE  /\ IsPrefix(Spelled(wire), Spelled(words))
           /\ Len(wire) = Len(words) => Spelled(wire) = Spelled(words)
  <1>1. PICK S, T \in Seq(Word) : S = Spelled(wire) /\ T = Spelled(words)
    BY SpelledMeans
  <1>2. Len(S) = Len(wire) /\ Len(T) = Len(words) /\ Len(wire) \in Nat /\ Len(words) \in Nat
    BY <1>1, SpelledMeans, LenProperties
  <1>3. ASSUME NEW w \in 1 .. Len(wire) PROVE S[w] = T[w]
    <2>1. w \in 1 .. Len(words)
      BY <1>2
    <2>2. PICK u, v \in Seq(Chunk) : u = S[w] /\ v = T[w]
      BY <1>1, <1>2, <2>1, ElementOfSeq DEF Word
    <2>3. /\ Len(u) = Len(wire[w]) /\ Len(v) = Len(words[w])
          /\ \A c \in 1 .. Len(wire[w]) : u[c] = Spelling(wire[w][c])
          /\ \A c \in 1 .. Len(words[w]) : v[c] = Spelling(words[w][c])
      BY <1>1, <2>1, <2>2, SpelledMeans
    <2>4. Len(u) = Len(v) /\ \A c \in 1 .. Len(u) : u[c] = v[c]
      BY <2>3 DEF Alike
    <2>5. u = v
      BY <2>4, SeqEqual
    <2> QED
      BY <2>2, <2>5
  <1>4. IsPrefix(S, T)
    BY <1>2, <1>3, PrefixIs
  <1>5. Len(wire) = Len(words) => S = T
    BY <1>1, <1>2, <1>3, SeqEqual
  <1> QED
    BY <1>1, <1>4, <1>5

LEMMA AlikeSelf == ASSUME NEW u PROVE Alike(u, u)
  BY DEF Alike

(* An id written out again is alike the word it was read from. *)
LEMMA IdAlike ==
    ASSUME NEW sigil, NEW word \in Word, Id(sigil, word) # None
    PROVE  /\ Id(sigil, word)[1] \in WireId
           /\ Shows(sigil, Id(sigil, word)[1]) \in Word
           /\ Alike(Shows(sigil, Id(sigil, word)[1]), word)
  <1>1. /\ Len(word) = 2 /\ word[1] = sigil /\ word[2] \in Numeral
        /\ Id(sigil, word)[1] = Worth[word[2]] /\ Worth[word[2]] \in WireId
    BY IdMeans
  <1>2. Worth[word[2]] <= MaxU64
    BY <1>1, GrammarAssumption DEF WireId
  <1>3. PICK d : d = Shown[Worth[word[2]]]
    OBVIOUS
  <1>4. d \in Numeral /\ Spelling(d) = Spelling(word[2])
    BY <1>1, <1>2, <1>3, SpellingOfNumber
  <1>5. sigil \in Chunk /\ d \in Chunk
    <2>1. word \in Seq(Chunk) /\ 1 \in 1 .. Len(word)
      BY <1>1 DEF Word
    <2>2. word[1] \in Chunk
      BY <2>1, ElementOfSeq
    <2> QED
      BY <1>1, <1>4, <2>2, GrammarAssumption
  <1>6. PICK shown \in Word : shown = << sigil, d >>
    <2>1. << sigil, d >> \in Seq(Chunk)
      BY <1>5
    <2> QED
      BY <2>1 DEF Word
  <1>7. Len(shown) = 2 /\ shown[1] = sigil /\ shown[2] = d
    BY <1>6
  <1>8. Alike(shown, word)
    <2>1. 1 .. 2 = {1, 2}
      OBVIOUS
    <2> QED
      BY <1>1, <1>4, <1>7, <2>1 DEF Alike
  <1>9. Shows(sigil, Id(sigil, word)[1]) = shown
    BY <1>1, <1>3, <1>6, SMTT(60) DEF Shows
  <1> QED
    BY <1>1, <1>6, <1>8, <1>9

----------------------------------------------------------------------------
(* The disjuncts of the definitions by kind, each on its own. *)
LEMMA ArgumentsOf ==
    ASSUME NEW n
    PROVE  /\ n.tag \in GuardKind
                => Arguments(n) = {<< << "time" >>, << Shown[n.number] >>, << Shown[n.flags] >> >>}
           /\ n.tag = "output" => Arguments(n) = {<< Shows("%", n.pane) >> \o Escaped(n.bytes)}
           /\ n.tag = "extended-output"
                => Arguments(n) = {<< Shows("%", n.pane), << Shown[n.ms_behind] >>, << ":" >> >>
                                     \o Escaped(n.bytes)}
           /\ n.tag \in WindowKinds => Arguments(n) = {<< Shows("@", n.id) >>}
           /\ n.tag \in PaneKinds => Arguments(n) = {<< Shows("%", n.id) >>}
           /\ n.tag \in WindowNameKinds => Arguments(n) = {<< Shows("@", n.id) >> \o n.name}
           /\ n.tag \in SessionNameKinds => Arguments(n) = {<< Shows("$", n.id) >> \o n.name}
           /\ n.tag = "window-pane-changed"
                => Arguments(n) = {<< Shows("@", n.first), Shows("%", n.second) >>}
           /\ n.tag = "session-window-changed"
                => Arguments(n) = {<< Shows("$", n.first), Shows("@", n.second) >>}
           /\ n.tag = "client-session-changed"
                => Arguments(n) = {<< n.client, Shows("$", n.session) >> \o n.name}
           /\ n.tag = "sessions-changed" => Arguments(n) = {<< >>}
           /\ n.tag = "subscription-changed"
                => Arguments(n) = {<< n.name >> \o header \o << << ":" >> >> \o n.value :
                                     header \in SubscriptionHeader}
           /\ n.tag = "layout-change"
                => Arguments(n) =
                     {<< Shows("@", n.window), << n.layout >> >>
                        \o (IF n.visible = None THEN << >> ELSE << n.visible >>)
                        \o (IF n.flags = None THEN << >> ELSE << FlagWord(n.flags[1]) >>)}
           /\ n.tag = "exit" => Arguments(n) = {IF n.reason = None THEN << >> ELSE n.reason[1]}
  BY ZenonT(60) DEF Arguments, GuardKind, WindowKinds, PaneKinds, WindowNameKinds, SessionNameKinds

LEMMA ParseKindOf ==
    ASSUME NEW kind, NEW args
    PROVE  /\ kind \in WindowKinds => ParseKind(kind, args) = FirstId(kind, "@", args)
           /\ kind \in PaneKinds => ParseKind(kind, args) = FirstId(kind, "%", args)
           /\ kind \in WindowNameKinds => ParseKind(kind, args) = IdName(kind, "@", args)
           /\ kind \in SessionNameKinds => ParseKind(kind, args) = IdName(kind, "$", args)
           /\ kind = "window-pane-changed" => ParseKind(kind, args) = TwoIds(kind, "@", "%", args)
           /\ kind = "session-window-changed" => ParseKind(kind, args) = TwoIds(kind, "$", "@", args)
           /\ kind = "client-session-changed"
                => ParseKind(kind, args) = ParseClientSessionChanged(args)
           /\ kind = "sessions-changed" => ParseKind(kind, args) = Some([tag |-> kind])
           /\ kind = "subscription-changed" => ParseKind(kind, args) = ParseSubscription(args)
           /\ kind = "layout-change" => ParseKind(kind, args) = ParseLayoutChange(args)
           /\ kind = "exit"
                => ParseKind(kind, args) = Some([tag |-> kind, reason |-> OptionalReason(args)])
           /\ kind \notin WindowKinds \cup PaneKinds \cup WindowNameKinds \cup SessionNameKinds
                            \cup TwoIdKinds \cup OtherKinds
                => ParseKind(kind, args) = None
  BY DEF ParseKind, WindowKinds, PaneKinds, WindowNameKinds, SessionNameKinds, TwoIdKinds, OtherKinds

(* The tags whose notifications are written out as a whole. *)
Plainly(notification) ==
    /\ notification.tag \notin {"unknown", "subscription-changed", "exit", "output"}
    /\ notification.tag = "layout-change" => notification.flags = None

LEMMA SaysOf ==
    ASSUME NEW n, NEW words
    PROVE  /\ n.tag = "unknown" => (Says(n, words) <=> n.line = Text(words))
           /\ n.tag = "subscription-changed"
                => (Says(n, words)
                      <=> /\ IsPrefix(<< << "%", n.tag >>, n.name >>, words \o EmptyText)
                          /\ \A k \in HeaderEnds(words) :
                               n.value = SubSeq(words, k + 1, Len(words))
                          /\ HeaderEnds(words) = {} => n.value = EmptyText)
           /\ n.tag = "exit" => (Says(n, words) <=> \E wire \in Wires(n) : Pads(wire, words))
           /\ n.tag = "output" /\ Len(words) = 2
                => (Says(n, words)
                      <=> \E wire \in Wires(n) : Spelled(wire) = Spelled(words \o EmptyText))
           /\ n.tag = "layout-change" /\ n.flags # None
                => (Says(n, words)
                      <=> /\ \E wire \in Wires([n EXCEPT !.flags = None]) :
                               IsPrefix(Spelled(wire), Spelled(words))
                          /\ KeepsEveryFlag(n.flags[1], words[5]))
           /\ Plainly(n) \/ (n.tag = "output" /\ Len(words) # 2)
                => (Says(n, words)
                      <=> \E wire \in Wires(n) :
                            /\ IsPrefix(Spelled(wire), Spelled(words))
                            /\ Len(wire) = Len(words) \/ IgnoresTheRest(n))
  BY DEF Says, Plainly
----------------------------------------------------------------------------
(* What is read of a line, if anything is, is a notification that says all *)
(* that stands in the line.                                                *)
Faithful(notification, words) ==
    notification \in Notification /\ Says(notification, words)
ReadWell(parsed, words) == parsed = None \/ Faithful(parsed[1], words)

LEMMA ArgsMeans ==
    ASSUME NEW words \in Words
    PROVE  /\ Args(words) \in Words
           /\ Len(words) = 1 => Args(words) = EmptyText /\ Args(words)[1] = << >>
           /\ Len(words) > 1
                => /\ Args(words) = Tail(words) /\ Len(Args(words)) = Len(words) - 1
                   /\ \A k \in 1 .. Len(words) - 1 : Args(words)[k] = words[k + 1]
           /\ Args(words)[1] \in Word
           /\ Args(words)[1] # << >> => Len(words) > 1 /\ Args(words)[1] = words[2]
  <1>1. CASE Len(words) = 1
    <2>1. << >> \in Word
      BY EmptySeq DEF Word
    <2>2. EmptyText \in Seq(Word) /\ Len(EmptyText) = 1 /\ EmptyText[1] = << >>
      BY <2>1 DEF EmptyText
    <2>3. Len(<< >>) = 0
      OBVIOUS
    <2> QED
      BY <1>1, <2>1, <2>2, <2>3 DEF Args, Words
  <1>2. CASE Len(words) > 1
    <2>1. /\ Tail(words) \in Seq(Word) /\ Len(Tail(words)) = Len(words) - 1
          /\ \A k \in 1 .. Len(words) - 1 : Tail(words)[k] = words[k + 1]
          /\ Len(words) \in Nat
      BY LineWords
    <2>2. Len(<< >>) = 0
      OBVIOUS
    <2>3. 1 \in 1 .. Len(words) - 1 /\ Len(words) # 1
      BY <1>2, <2>1
    <2>4. Args(words) = Tail(words)
      BY <2>3 DEF Args
    <2>5. Tail(words)[1] = words[2] /\ words[2] \in Word
      BY <1>2, <2>1, <2>3, LineWords
    <2>6. Tail(words) \in Words
      <3>1. Len(Tail(words)) # 0
        BY <1>2, <2>1
      <3> QED
        BY <2>1, <2>2, <3>1 DEF Words
    <2>7. Len(words) # 1
      BY <1>2, <2>1
    <2> QED
      BY <1>2, <2>1, <2>4, <2>5, <2>6, <2>7
  <1>3. Len(words) = 1 \/ Len(words) > 1
    <2>1. PICK n \in Nat : n = Len(words) /\ n > 0
      BY LineWords
    <2>2. n = 1 \/ n > 1
      BY <2>1
    <2> QED
      BY <2>1, <2>2
  <1> QED
    BY <1>1, <1>2, <1>3

LEMMA NoIdInNothing == ASSUME NEW sigil PROVE Id(sigil, << >>) = None
  <1>1. Len(<< >>) # 2
    OBVIOUS
  <1> QED
    BY <1>1 DEF Id

LEMMA WireLine ==
    ASSUME NEW tag, << "%", tag >> \in Word, NEW arguments \in Seq(Word)
    PROVE  \E wire \in Seq(Word) :
             /\ wire = << << "%", tag >> >> \o arguments
             /\ Len(wire) = Len(arguments) + 1 /\ wire[1] = << "%", tag >>
             /\ \A k \in 1 .. Len(arguments) : wire[k + 1] = arguments[k]
  <1>1. PICK first \in Seq(Word) : first = << << "%", tag >> >>
    <2>1. << << "%", tag >> >> \in Seq(Word)
      OBVIOUS
    <2> QED
      BY <2>1
  <1>2. Len(first) = 1 /\ first[1] = << "%", tag >>
    BY <1>1
  <1>3. PICK wire : wire = first \o arguments
    OBVIOUS
  <1>4. Len(arguments) \in Nat
    BY LenProperties
  <1>5. /\ wire \in Seq(Word) /\ Len(wire) = 1 + Len(arguments)
        /\ \A k \in 1 .. 1 + Len(arguments) :
             wire[k] = IF k <= 1 THEN first[k] ELSE arguments[k - 1]
    BY <1>2, <1>3, ConcatProperties
  <1>6. wire[1] = << "%", tag >> /\ \A k \in 1 .. Len(arguments) : wire[k + 1] = arguments[k]
    BY <1>2, <1>4, <1>5
  <1>7. wire = << << "%", tag >> >> \o arguments
    BY <1>1, <1>3
  <1>8. Len(wire) = Len(arguments) + 1
    BY <1>4, <1>5
  <1> QED
    BY <1>5, <1>6, <1>7, <1>8

(* Arguments that are alike the words make a line that is. *)
LEMMA WritesAlike ==
    ASSUME NEW words \in Words, NEW notification, notification.tag # "unknown",
           words[1] = << "%", notification.tag >>,
           NEW arguments \in Arguments(notification), arguments \in Seq(Word),
           Len(arguments) <= Len(words) - 1,
           \A k \in 1 .. Len(arguments) : Alike(arguments[k], words[k + 1])
    PROVE  \E wire \in Wires(notification) :
             /\ IsPrefix(Spelled(wire), Spelled(words))
             /\ Len(wire) = Len(arguments) + 1
             /\ Len(wire) = Len(words) => Spelled(wire) = Spelled(words)
  <1>1. words \in Seq(Word) /\ Len(words) \in Nat /\ words[1] \in Word /\ Len(arguments) \in Nat
    <2>1. words \in Seq(Word) /\ Len(words) \in Nat /\ Len(words) > 0
          /\ \A k \in 1 .. Len(words) : words[k] \in Word
      BY LineWords
    <2>2. Len(arguments) \in Nat
      BY LenProperties
    <2>3. 1 \in 1 .. Len(words)
      BY <2>1
    <2> QED
      BY <2>1, <2>2, <2>3
  <1>2. PICK wire \in Seq(Word) :
          /\ wire = << << "%", notification.tag >> >> \o arguments
          /\ Len(wire) = Len(arguments) + 1 /\ wire[1] = << "%", notification.tag >>
          /\ \A k \in 1 .. Len(arguments) : wire[k + 1] = arguments[k]
    BY <1>1, WireLine
  <1>3. wire \in Wires(notification)
    BY <1>2 DEF Wires
  <1>4. ASSUME NEW w \in 1 .. Len(wire) PROVE Alike(wire[w], words[w])
    <2>1. CASE w = 1
      BY <1>2, <2>1, AlikeSelf
    <2>2. CASE w # 1
      <3>1. w - 1 \in 1 .. Len(arguments) /\ (w - 1) + 1 = w
        BY <1>1, <1>2, <2>2
      <3>2. wire[w] = arguments[w - 1] /\ Alike(arguments[w - 1], words[w])
        BY <1>2, <3>1
      <3> QED
        BY <3>2
    <2> QED
      BY <2>1, <2>2
  <1>5. Len(wire) <= Len(words)
    BY <1>1, <1>2
  <1> QED
    BY <1>1, <1>2, <1>3, <1>4, <1>5, AlikeSpelled

LEMMA SaysPlainly ==
    ASSUME NEW words \in Words, NEW notification,
           words[1] = << "%", notification.tag >>,
           NEW arguments \in Arguments(notification), arguments \in Seq(Word),
           Len(arguments) <= Len(words) - 1,
           Len(arguments) = Len(words) - 1 \/ IgnoresTheRest(notification),
           \A k \in 1 .. Len(arguments) : Alike(arguments[k], words[k + 1]),
           \/ Plainly(notification)
           \/ notification.tag = "output" /\ Len(words) # 2
    PROVE  Says(notification, words)
  <1>1. Len(words) \in Nat /\ Len(arguments) \in Nat
    BY LineWords, LenProperties
  <1>2. notification.tag # "unknown"
    BY DEF Plainly
  <1>3. PICK wire \in Wires(notification) :
          IsPrefix(Spelled(wire), Spelled(words)) /\ Len(wire) = Len(arguments) + 1
    BY <1>2, WritesAlike
  <1>4. Len(wire) = Len(words) \/ IgnoresTheRest(notification)
    BY <1>1, <1>3
  <1>5. \E line \in Wires(notification) :
          /\ IsPrefix(Spelled(line), Spelled(words))
          /\ Len(line) = Len(words) \/ IgnoresTheRest(notification)
    BY <1>3, <1>4
  <1> QED
    BY <1>5, SaysOf

----------------------------------------------------------------------------
(* Each kind of line in turn.  None of them reads a line that has no       *)
(* argument as an id.                                                      *)
LEMMA FirstIdReads ==
    ASSUME NEW words \in Words, NEW kind, NEW sigil, words[1] = << "%", kind >>,
           (kind \in WindowKinds /\ sigil = "@") \/ (kind \in PaneKinds /\ sigil = "%")
    PROVE  ReadWell(FirstId(kind, sigil, Args(words)), words)
  <1> DEFINE word == Args(words)[1]
             id == Id(sigil, word)
  <1> SUFFICES ASSUME FirstId(kind, sigil, Args(words)) # None
               PROVE  Faithful(FirstId(kind, sigil, Args(words))[1], words)
    BY DEF ReadWell
  <1>1. id # None
    BY DEF FirstId
  <1>2. PICK n : n = [tag |-> kind, id |-> id[1]]
    OBVIOUS
  <1>3. FirstId(kind, sigil, Args(words))[1] = n
    BY <1>1, <1>2 DEF FirstId, Some
  <1>4. word # << >>
    BY <1>1, NoIdInNothing
  <1>5. Len(words) > 1 /\ word = words[2] /\ word \in Word /\ Len(words) \in Nat
    BY <1>4, ArgsMeans, LineWords
  <1>6. id[1] \in WireId /\ Shows(sigil, id[1]) \in Word /\ Alike(Shows(sigil, id[1]), word)
    BY <1>1, <1>5, IdAlike
  <1>7. n.tag = kind /\ n.id = id[1] /\ n.tag \in WindowKinds \cup PaneKinds
    BY <1>2
  <1>8. n \in Notification
    BY <1>2, <1>6, <1>7 DEF Notification
  <1> HIDE DEF id, word
  <1>9. Arguments(n) = {<< Shows(sigil, n.id) >>}
    BY <1>7, ArgumentsOf
  <1>10. PICK arguments \in Seq(Word) : arguments = << Shows(sigil, n.id) >>
    <2>1. << Shows(sigil, n.id) >> \in Seq(Word)
      BY <1>6, <1>7
    <2> QED
      BY <2>1
  <1>11. /\ arguments \in Arguments(n) /\ Len(arguments) = 1
         /\ \A k \in 1 .. Len(arguments) : Alike(arguments[k], words[k + 1])
    <2>1. Len(arguments) = 1 /\ arguments[1] = Shows(sigil, n.id)
      BY <1>10
    <2>2. 1 .. 1 = {1} /\ 1 + 1 = 2
      OBVIOUS
    <2> QED
      BY <1>5, <1>6, <1>7, <1>9, <1>10, <2>1, <2>2
  <1>12. IgnoresTheRest(n) /\ Plainly(n)
    BY <1>7 DEF IgnoresTheRest, Plainly, WindowKinds, PaneKinds
  <1>13. Says(n, words)
    <2>1. Len(arguments) <= Len(words) - 1
      BY <1>5, <1>11
    <2>2. words[1] = << "%", n.tag >>
      BY <1>7
    <2> QED
      BY <1>10, <1>11, <1>12, <2>1, <2>2, SaysPlainly
  <1> QED
    BY <1>3, <1>8, <1>13 DEF Faithful

LEMMA OneWord ==
    ASSUME NEW u \in Word
    PROVE  \E s \in Seq(Word) : s = << u >> /\ Len(s) = 1 /\ s[1] = u
  <1>1. << u >> \in Seq(Word)
    OBVIOUS
  <1>2. PICK s \in Seq(Word) : s = << u >>
    BY <1>1
  <1> QED
    BY <1>2

LEMMA TwoWords ==
    ASSUME NEW u \in Word, NEW v \in Word
    PROVE  \E s \in Seq(Word) : s = << u, v >> /\ Len(s) = 2 /\ s[1] = u /\ s[2] = v
  <1>1. << u, v >> \in Seq(Word)
    OBVIOUS
  <1>2. PICK s \in Seq(Word) : s = << u, v >>
    BY <1>1
  <1> QED
    BY <1>2

LEMMA ThreeWords ==
    ASSUME NEW u \in Word, NEW v \in Word, NEW w \in Word
    PROVE  \E s \in Seq(Word) :
             s = << u, v, w >> /\ Len(s) = 3 /\ s[1] = u /\ s[2] = v /\ s[3] = w
  <1>1. << u, v, w >> \in Seq(Word)
    OBVIOUS
  <1>2. PICK s \in Seq(Word) : s = << u, v, w >>
    BY <1>1
  <1> QED
    BY <1>2

LEMMA OneChunk ==
    ASSUME NEW c \in Chunk
    PROVE  \E s \in Word : s = << c >> /\ Len(s) = 1 /\ s[1] = c
  <1>1. << c >> \in Seq(Chunk)
    OBVIOUS
  <1>2. PICK s \in Word : s = << c >>
    BY <1>1 DEF Word
  <1> QED
    BY <1>2

LEMMA FrontAndRest ==
    ASSUME NEW front \in Seq(Word), NEW rest \in Seq(Word)
    PROVE  \E s \in Seq(Word) :
             /\ s = front \o rest /\ Len(s) = Len(front) + Len(rest)
             /\ \A k \in 1 .. Len(front) : s[k] = front[k]
             /\ \A k \in Len(front) + 1 .. Len(s) : s[k] = rest[k - Len(front)]
  <1>1. Len(front) \in Nat /\ Len(rest) \in Nat
    BY LenProperties
  <1>2. PICK s : s = front \o rest
    OBVIOUS
  <1>3. /\ s \in Seq(Word) /\ Len(s) = Len(front) + Len(rest)
        /\ \A k \in 1 .. Len(front) + Len(rest) :
             s[k] = IF k <= Len(front) THEN front[k] ELSE rest[k - Len(front)]
    BY <1>2, ConcatProperties
  <1>4. \A k \in 1 .. Len(front) : s[k] = front[k]
    BY <1>1, <1>3
  <1>5. \A k \in Len(front) + 1 .. Len(s) : s[k] = rest[k - Len(front)]
    BY <1>1, <1>3
  <1> QED
    BY <1>2, <1>3, <1>4, <1>5

LEMMA IdNameReads ==
    ASSUME NEW words \in Words, NEW kind, NEW sigil, words[1] = << "%", kind >>,
           \/ kind \in WindowNameKinds /\ sigil = "@"
           \/ kind \in SessionNameKinds /\ sigil = "$"
    PROVE  ReadWell(IdName(kind, sigil, Args(words)), words)
  <1> DEFINE args == Args(words)
             id == Id(sigil, args[1])
  <1> SUFFICES ASSUME IdName(kind, sigil, args) # None
               PROVE  Faithful(IdName(kind, sigil, args)[1], words)
    BY DEF ReadWell
  <1>1. Len(args) # 1 /\ id # None
    BY DEF IdName
  <1>2. PICK n : n = [tag |-> kind, id |-> id[1], name |-> Tail(args)]
    OBVIOUS
  <1>3. IdName(kind, sigil, args)[1] = n
    BY <1>1, <1>2 DEF IdName, Some
  <1>4. args[1] # << >>
    BY <1>1, NoIdInNothing
  <1>5. /\ Len(words) > 1 /\ args[1] = words[2] /\ args[1] \in Word /\ Len(words) \in Nat
        /\ args \in Words /\ Len(args) = Len(words) - 1
        /\ \A k \in 1 .. Len(words) - 1 : args[k] = words[k + 1]
    BY <1>4, ArgsMeans, LineWords
  <1>6. id[1] \in WireId /\ Shows(sigil, id[1]) \in Word /\ Alike(Shows(sigil, id[1]), words[2])
    BY <1>1, <1>5, IdAlike
  <1> HIDE DEF id, args
  <1>7. /\ n.tag = kind /\ n.id = id[1] /\ n.name = Tail(args)
        /\ n.tag \in WindowNameKinds \cup SessionNameKinds
    BY <1>2
  <1>8. /\ Tail(args) \in Words /\ Tail(args) \in Seq(Word) /\ Len(Tail(args)) = Len(words) - 2
        /\ \A k \in 1 .. Len(words) - 2 : Tail(args)[k] = words[k + 2]
    <2>1. /\ Tail(args) \in Seq(Word) /\ Len(Tail(args)) = Len(words) - 2
          /\ \A k \in 1 .. Len(words) - 2 : Tail(args)[k] = args[k + 1] /\ args[k + 1] = words[k + 2]
      BY <1>5, LineWords
    <2>2. Len(Tail(args)) # 0
      BY <1>1, <1>5, <2>1
    <2>3. Len(<< >>) = 0
      OBVIOUS
    <2> QED
      BY <2>1, <2>2, <2>3 DEF Words
  <1>9. n \in Notification
    BY <1>2, <1>6, <1>7, <1>8 DEF Notification
  <1>10. PICK name \in Seq(Word) :
           /\ name = n.name /\ Len(name) = Len(words) - 2
           /\ \A k \in 1 .. Len(words) - 2 : name[k] = words[k + 2]
    BY <1>7, <1>8
  <1>11. PICK front \in Seq(Word) :
           front = << Shows(sigil, id[1]) >> /\ Len(front) = 1 /\ front[1] = Shows(sigil, id[1])
    BY <1>6, OneWord
  <1>12. PICK arguments \in Seq(Word) :
           /\ arguments = front \o name /\ Len(arguments) = Len(front) + Len(name)
           /\ \A k \in 1 .. Len(front) : arguments[k] = front[k]
           /\ \A k \in Len(front) + 1 .. Len(arguments) : arguments[k] = name[k - Len(front)]
    BY <1>10, <1>11, FrontAndRest
  <1>13. arguments \in Arguments(n) /\ Len(arguments) = Len(words) - 1
    <2>1. Arguments(n) = {<< Shows(sigil, n.id) >> \o n.name}
      BY <1>7, ArgumentsOf, ZenonT(60)
    <2> QED
      BY <1>5, <1>7, <1>10, <1>11, <1>12, <2>1
  <1>14. ASSUME NEW k \in 1 .. Len(arguments) PROVE Alike(arguments[k], words[k + 1])
    <2>1. CASE k = 1
      BY <1>6, <1>11, <1>12, <2>1
    <2>2. CASE k # 1
      <3>1. /\ k \in Len(front) + 1 .. Len(arguments) /\ k - 1 \in 1 .. Len(words) - 2
            /\ (k - 1) + 2 = k + 1 /\ k - Len(front) = k - 1
        BY <1>5, <1>11, <1>13, <2>2
      <3>2. arguments[k] = name[k - 1]
        BY <1>12, <3>1
      <3>3. name[k - 1] = words[k + 1]
        BY <1>10, <3>1
      <3> QED
        BY <3>2, <3>3, AlikeSelf
    <2> QED
      BY <2>1, <2>2
  <1>15. Plainly(n)
    BY <1>7 DEF Plainly, WindowNameKinds, SessionNameKinds
  <1>16. Says(n, words)
    <2>1. Len(arguments) <= Len(words) - 1 /\ words[1] = << "%", n.tag >>
      BY <1>5, <1>7, <1>13
    <2> QED
      BY <1>12, <1>13, <1>14, <1>15, <2>1, SaysPlainly
  <1> QED
    BY <1>3, <1>9, <1>16 DEF Faithful

LEMMA TwoIdsReads ==
    ASSUME NEW words \in Words, NEW kind, NEW first, NEW second, words[1] = << "%", kind >>,
           \/ kind = "window-pane-changed" /\ first = "@" /\ second = "%"
           \/ kind = "session-window-changed" /\ first = "$" /\ second = "@"
    PROVE  ReadWell(TwoIds(kind, first, second, Args(words)), words)
  <1> DEFINE args == Args(words)
             id1 == Id(first, args[1])
             id2 == Id(second, args[2])
  <1> SUFFICES ASSUME TwoIds(kind, first, second, args) # None
               PROVE  Faithful(TwoIds(kind, first, second, args)[1], words)
    BY DEF ReadWell
  <1>1. Len(args) = 2 /\ id1 # None /\ id2 # None
    BY DEF TwoIds
  <1>2. PICK n : n = [tag |-> kind, first |-> id1[1], second |-> id2[1]]
    OBVIOUS
  <1>3. TwoIds(kind, first, second, args)[1] = n
    BY <1>1, <1>2 DEF TwoIds, Some
  <1>4. args[1] # << >>
    BY <1>1, NoIdInNothing
  <1>5. /\ Len(words) > 1 /\ Len(words) \in Nat
        /\ Len(args) = Len(words) - 1
        /\ \A k \in 1 .. Len(words) - 1 : args[k] = words[k + 1]
    BY <1>4, ArgsMeans, LineWords
  <1>6. Len(words) = 3 /\ args[1] = words[2] /\ args[2] = words[3]
    <2>1. Len(words) = 3
      <3>1. \A m \in Nat : m - 1 = 2 => m = 3
        OBVIOUS
      <3> QED
        BY <1>1, <1>5, <3>1, Zenon
    <2>2. 1 \in 1 .. Len(words) - 1 /\ 2 \in 1 .. Len(words) - 1
      BY <2>1
    <2>3. args[1] = words[1 + 1] /\ args[2] = words[2 + 1]
      BY <1>5, <2>2
    <2> QED
      BY <2>1, <2>3
  <1>7. words[2] \in Word /\ words[3] \in Word
    BY <1>6, LineWords
  <1>8. /\ id1[1] \in WireId /\ Shows(first, id1[1]) \in Word
        /\ Alike(Shows(first, id1[1]), words[2])
    BY <1>1, <1>6, <1>7, IdAlike
  <1>9. /\ id2[1] \in WireId /\ Shows(second, id2[1]) \in Word
        /\ Alike(Shows(second, id2[1]), words[3])
    BY <1>1, <1>6, <1>7, IdAlike
  <1> HIDE DEF id1, id2, args
  <1>10. n.tag = kind /\ n.first = id1[1] /\ n.second = id2[1] /\ n.tag \in TwoIdKinds
    BY <1>2 DEF TwoIdKinds
  <1>11. n \in Notification
    BY <1>2, <1>8, <1>9, <1>10 DEF Notification
  <1>12. PICK arguments \in Seq(Word) :
           /\ arguments = << Shows(first, id1[1]), Shows(second, id2[1]) >> /\ Len(arguments) = 2
           /\ arguments[1] = Shows(first, id1[1]) /\ arguments[2] = Shows(second, id2[1])
    <2>1. PICK u, v \in Word : u = Shows(first, id1[1]) /\ v = Shows(second, id2[1])
      BY <1>8, <1>9
    <2>2. PICK s \in Seq(Word) : s = << u, v >> /\ Len(s) = 2 /\ s[1] = u /\ s[2] = v
      BY TwoWords
    <2>3. s = << Shows(first, id1[1]), Shows(second, id2[1]) >>
      BY <2>1, <2>2
    <2> QED
      BY <2>1, <2>2, <2>3
  <1>13. arguments \in Arguments(n)
    <2>1. Arguments(n) = {<< Shows(first, n.first), Shows(second, n.second) >>}
      BY <1>10, ArgumentsOf, ZenonT(60)
    <2> QED
      BY <1>10, <1>12, <2>1
  <1>14. ASSUME NEW k \in 1 .. Len(arguments) PROVE Alike(arguments[k], words[k + 1])
    <2>1. (k = 1 /\ k + 1 = 2) \/ (k = 2 /\ k + 1 = 3)
      BY <1>12
    <2> QED
      BY <1>8, <1>9, <1>12, <2>1
  <1>15. Plainly(n)
    BY <1>10 DEF Plainly, TwoIdKinds
  <1>16. Says(n, words)
    <2>1. /\ Len(arguments) <= Len(words) - 1 /\ words[1] = << "%", n.tag >>
          /\ Len(arguments) = Len(words) - 1
      BY <1>6, <1>10, <1>12
    <2> QED
      BY <1>12, <1>13, <1>14, <1>15, <2>1, SaysPlainly
  <1> QED
    BY <1>3, <1>11, <1>16 DEF Faithful

LEMMA ClientSessionReads ==
    ASSUME NEW words \in Words, words[1] = << "%", "client-session-changed" >>
    PROVE  ReadWell(ParseClientSessionChanged(Args(words)), words)
  <1> DEFINE args == Args(words)
             id == Id("$", args[2])
             rest == SubSeq(args, 3, Len(args))
  <1> SUFFICES ASSUME ParseClientSessionChanged(args) # None
               PROVE  Faithful(ParseClientSessionChanged(args)[1], words)
    BY DEF ReadWell
  <1>1. ~(Len(args) < 3) /\ id # None
    BY DEF ParseClientSessionChanged
  <1>2. PICK n : n = [tag |-> "client-session-changed", client |-> args[1], session |-> id[1],
                      name |-> rest]
    OBVIOUS
  <1>3. ParseClientSessionChanged(args)[1] = n
    BY <1>1, <1>2 DEF ParseClientSessionChanged, Some
  <1>4. Len(words) \in Nat /\ Len(words) > 0 /\ \A k \in 1 .. Len(words) : words[k] \in Word
    BY LineWords
  <1>5. Len(words) > 3 /\ Len(args) = Len(words) - 1
        /\ \A k \in 1 .. Len(words) - 1 : args[k] = words[k + 1]
    <2>1. Len(words) # 1
      <3>1. Len(words) = 1 => args = EmptyText
        BY ArgsMeans
      <3>2. Len(EmptyText) = 1
        BY DEF EmptyText
      <3> QED
        BY <1>1, <3>1, <3>2
    <2>2. Len(words) > 1
      BY <1>4, <2>1
    <2>3. Len(args) = Len(words) - 1 /\ \A k \in 1 .. Len(words) - 1 : args[k] = words[k + 1]
      BY <2>2, ArgsMeans
    <2> QED
      BY <1>1, <1>4, <2>3
  <1>6. args[1] = words[2] /\ args[2] = words[3] /\ words[2] \in Word /\ words[3] \in Word
    <2>1. 1 \in 1 .. Len(words) - 1 /\ 2 \in 1 .. Len(words) - 1 /\ 2 \in 1 .. Len(words)
          /\ 3 \in 1 .. Len(words)
      BY <1>4, <1>5
    <2>2. args[1] = words[1 + 1] /\ args[2] = words[2 + 1]
      BY <1>5, <2>1
    <2> QED
      BY <1>4, <2>1, <2>2
  <1>7. PICK name \in Seq(Word) :
          /\ name = rest /\ Len(name) = Len(words) - 3
          /\ \A k \in 1 .. Len(words) - 3 : name[k] = words[k + 3]
    <2>1. \A k \in 3 .. Len(words) - 1 : args[k] = words[k + 1] /\ args[k] \in Word
      BY <1>4, <1>5
    <2>2. PICK m \in Nat : m = Len(words) - 1 /\ m >= 3
      BY <1>4, <1>5
    <2>3. /\ SubSeq(args, 3, m) \in Seq(Word) /\ Len(SubSeq(args, 3, m)) = m - 2
          /\ \A k \in 1 .. m - 2 : SubSeq(args, 3, m)[k] = args[3 + k - 1]
      BY <2>1, <2>2, SubSeqProperties
    <2>4. \A k \in 1 .. m - 2 : 3 + k - 1 \in 3 .. Len(words) - 1 /\ (3 + k - 1) + 1 = k + 3
      BY <1>4, <2>2
    <2>5. \A k \in 1 .. m - 2 : args[3 + k - 1] = words[k + 3]
      BY <2>1, <2>4
    <2>6. m - 2 = Len(words) - 3 /\ rest = SubSeq(args, 3, m)
      BY <1>4, <1>5, <2>2
    <2> QED
      BY <2>3, <2>5, <2>6
  <1>8. name \in Words
    <2>1. Len(<< >>) = 0
      OBVIOUS
    <2>2. Len(name) # 0
      BY <1>4, <1>5, <1>7
    <2> QED
      BY <1>7, <2>1, <2>2 DEF Words
  <1>9. id[1] \in WireId /\ Shows("$", id[1]) \in Word /\ Alike(Shows("$", id[1]), words[3])
    BY <1>1, <1>6, IdAlike
  <1> HIDE DEF id, args, rest
  <1>10. /\ n.tag = "client-session-changed" /\ n.client = words[2] /\ n.session = id[1]
         /\ n.name = name
    BY <1>2, <1>6, <1>7
  <1>11. n \in Notification
    BY <1>2, <1>6, <1>7, <1>8, <1>9 DEF Notification
  <1>12. PICK front \in Seq(Word) :
           /\ front = << words[2], Shows("$", id[1]) >> /\ Len(front) = 2
           /\ front[1] = words[2] /\ front[2] = Shows("$", id[1])
    BY <1>6, <1>9, TwoWords, ZenonT(60)
  <1>13. PICK arguments \in Seq(Word) :
           /\ arguments = front \o name /\ Len(arguments) = Len(front) + Len(name)
           /\ \A k \in 1 .. Len(front) : arguments[k] = front[k]
           /\ \A k \in Len(front) + 1 .. Len(arguments) : arguments[k] = name[k - Len(front)]
    BY <1>7, <1>12, FrontAndRest
  <1>14. arguments \in Arguments(n) /\ Len(arguments) = Len(words) - 1
    <2>1. Arguments(n) = {<< n.client, Shows("$", n.session) >> \o n.name}
      BY <1>10, ArgumentsOf
    <2> QED
      BY <1>4, <1>7, <1>10, <1>12, <1>13, <2>1
  <1>15. ASSUME NEW k \in 1 .. Len(arguments) PROVE Alike(arguments[k], words[k + 1])
    <2>1. CASE k = 1
      BY <1>12, <1>13, <2>1, AlikeSelf
    <2>2. CASE k = 2
      BY <1>9, <1>12, <1>13, <2>2
    <2>3. CASE k \notin {1, 2}
      <3>1. /\ k \in Len(front) + 1 .. Len(arguments) /\ k - 2 \in 1 .. Len(words) - 3
            /\ (k - 2) + 3 = k + 1 /\ k - Len(front) = k - 2
        BY <1>4, <1>12, <1>14, <2>3
      <3>2. arguments[k] = name[k - 2]
        BY <1>13, <3>1
      <3>3. name[k - 2] = words[k + 1]
        BY <1>7, <3>1
      <3> QED
        BY <3>2, <3>3, AlikeSelf
    <2> QED
      BY <2>1, <2>2, <2>3
  <1>16. Plainly(n)
    BY <1>10 DEF Plainly
  <1>17. Says(n, words)
    <2>1. Len(arguments) <= Len(words) - 1 /\ words[1] = << "%", n.tag >>
      BY <1>4, <1>10, <1>14
    <2> QED
      BY <1>13, <1>14, <1>15, <1>16, <2>1, SaysPlainly
  <1> QED
    BY <1>3, <1>11, <1>17 DEF Faithful

LEMMA SessionsChangedReads ==
    ASSUME NEW words \in Words, words[1] = << "%", "sessions-changed" >>
    PROVE  ReadWell(Some([tag |-> "sessions-changed"]), words)
  <1>1. PICK n : n = [tag |-> "sessions-changed"]
    OBVIOUS
  <1>2. n.tag = "sessions-changed" /\ n \in Notification
    BY <1>1 DEF Notification
  <1>3. PICK arguments \in Seq(Word) : arguments = << >>
    BY EmptySeq
  <1>4. Len(arguments) = 0
    BY <1>3
  <1>5. arguments \in Arguments(n)
    <2>1. Arguments(n) = {<< >>}
      BY <1>2, ArgumentsOf
    <2> QED
      BY <1>3, <2>1
  <1>6. Plainly(n) /\ IgnoresTheRest(n)
    BY <1>2 DEF Plainly, IgnoresTheRest
  <1>7. Len(arguments) <= Len(words) - 1 /\ \A k \in 1 .. Len(arguments) : Alike(arguments[k], words[k + 1])
    <2>1. Len(words) \in Nat /\ Len(words) > 0
      BY LineWords
    <2> QED
      BY <1>4, <2>1
  <1>8. Says(n, words)
    BY <1>2, <1>3, <1>5, <1>6, <1>7, SaysPlainly
  <1> QED
    BY <1>1, <1>2, <1>8 DEF ReadWell, Faithful, Some

(* A run of the arguments is one of the words, one place further on. *)
LEMMA ArgsPiece ==
    ASSUME NEW words \in Words, Len(words) > 1,
           NEW a \in Nat, NEW b \in Nat, 1 <= a, a <= b, b <= Len(words) - 1
    PROVE  \E s \in Words :
             /\ s \in Seq(Word) /\ s = SubSeq(Args(words), a, b)
             /\ s = SubSeq(words, a + 1, b + 1) /\ Len(s) = b - a + 1
             /\ \A k \in 1 .. Len(s) : s[k] = words[a + k]
  <1>1. /\ Len(words) \in Nat /\ \A k \in 1 .. Len(words) : words[k] \in Word
        /\ \A k \in 1 .. Len(words) - 1 : Args(words)[k] = words[k + 1]
    BY LineWords, ArgsMeans
  <1>2. \A k \in a .. b : Args(words)[k] = words[k + 1] /\ words[k + 1] \in Word
    BY <1>1
  <1>3. \A k \in a + 1 .. b + 1 : words[k] \in Word
    BY <1>1
  <1>4. PICK s \in Seq(Word) :
          /\ s = SubSeq(Args(words), a, b) /\ Len(s) = b - a + 1
          /\ \A k \in 1 .. b - a + 1 : s[k] = Args(words)[a + k - 1]
    <2>1. PICK args, s : args = Args(words) /\ s = SubSeq(args, a, b)
      OBVIOUS
    <2>2. \A k \in a .. b : args[k] \in Word
      BY <1>2, <2>1
    <2>3. /\ s \in Seq(Word) /\ Len(s) = b - a + 1
          /\ \A k \in 1 .. b - a + 1 : s[k] = args[a + k - 1]
      BY <2>1, <2>2, SubSeqProperties
    <2> QED
      BY <2>1, <2>3
  <1>5. PICK t \in Seq(Word) :
          /\ t = SubSeq(words, a + 1, b + 1) /\ Len(t) = b - a + 1
          /\ \A k \in 1 .. b - a + 1 : t[k] = words[(a + 1) + k - 1]
    <2>1. PICK c, d \in Nat : c = a + 1 /\ d = b + 1 /\ d - c + 1 = b - a + 1 /\ c <= d
      OBVIOUS
    <2>2. PICK t : t = SubSeq(words, c, d)
      OBVIOUS
    <2>3. \A k \in c .. d : words[k] \in Word
      BY <1>3, <2>1
    <2>4. /\ t \in Seq(Word) /\ Len(t) = d - c + 1
          /\ \A k \in 1 .. d - c + 1 : t[k] = words[c + k - 1]
      BY <2>1, <2>2, <2>3, SubSeqProperties
    <2> QED
      BY <2>1, <2>2, <2>4
  <1>6. ASSUME NEW k \in 1 .. b - a + 1 PROVE s[k] = words[a + k] /\ t[k] = words[a + k]
    <2>1. a + k - 1 \in a .. b /\ (a + k - 1) + 1 = a + k /\ (a + 1) + k - 1 = a + k
      OBVIOUS
    <2> QED
      BY <1>2, <1>4, <1>5, <2>1
  <1>7. s = t
    BY <1>4, <1>5, <1>6, SeqEqual, ZenonT(60)
  <1>8. s \in Words
    <2>1. Len(<< >>) = 0
      OBVIOUS
    <2>2. Len(s) # 0
      BY <1>4
    <2> QED
      BY <2>1, <2>2 DEF Words
  <1> QED
    BY <1>4, <1>5, <1>6, <1>7, <1>8

LEMMA FirstSeparatorMeans ==
    ASSUME NEW args \in Words, Separators(args) # {}
    PROVE  /\ FirstSeparator(args) \in 2 .. Len(args) - 1
           /\ args[FirstSeparator(args)] = << ":" >>
           /\ \A j \in 2 .. Len(args) - 1 : args[j] = << ":" >> => FirstSeparator(args) <= j
  <1>1. Len(args) \in Nat
    BY LineWords
  <1>2. PICK S \in SUBSET Nat : S = Separators(args)
    <2>1. Separators(args) \subseteq 2 .. Len(args) - 1
      BY DEF Separators
    <2> QED
      BY <1>1, <2>1
  <1>3. \E k \in S : \A j \in S : k <= j
    BY <1>2, Smallest
  <1>4. /\ FirstSeparator(args) \in Separators(args)
        /\ \A j \in Separators(args) : FirstSeparator(args) <= j
    BY <1>2, <1>3 DEF FirstSeparator
  <1> QED
    BY <1>4 DEF Separators

LEMMA SubscriptionReads ==
    ASSUME NEW words \in Words, words[1] = << "%", "subscription-changed" >>
    PROVE  ReadWell(ParseSubscription(Args(words)), words)
  <1> DEFINE args == Args(words)
             value == IF Separators(args) = {} THEN EmptyText
                      ELSE SubSeq(args, FirstSeparator(args) + 1, Len(args))
             tag == "subscription-changed"
  <1>1. PICK n : n = [tag |-> tag, name |-> args[1], value |-> value]
    OBVIOUS
  <1>2. ParseSubscription(args)[1] = n
    BY <1>1 DEF ParseSubscription, Some
  <1>3. /\ Len(words) \in Nat /\ Len(words) > 0 /\ words \in Seq(Word)
        /\ \A k \in 1 .. Len(words) : words[k] \in Word
    BY LineWords
  <1>4. args \in Words /\ args[1] \in Word
    BY ArgsMeans
  <1>5. EmptyText \in Words /\ EmptyText \in Seq(Word) /\ Len(EmptyText) = 1 /\ EmptyText[1] = << >>
    <2>1. << >> \in Word /\ Len(<< >>) = 0
      BY EmptySeq DEF Word
    <2>2. EmptyText \in Seq(Word) /\ Len(EmptyText) = 1 /\ EmptyText[1] = << >>
      BY <2>1 DEF EmptyText
    <2>3. EmptyText # << >>
      BY <2>1, <2>2
    <2> QED
      BY <2>2, <2>3 DEF Words
  <1>6. /\ value \in Words
        /\ \A k \in HeaderEnds(words) : value = SubSeq(words, k + 1, Len(words))
        /\ HeaderEnds(words) = {} => value = EmptyText
    <2>1. CASE Separators(args) = {}
      <3>1. ASSUME NEW k \in 3 .. Len(words) - 1 PROVE words[k] # << ":" >>
        <4>1. Len(words) > 1 /\ k - 1 \in 1 .. Len(words) - 1
          BY <1>3
        <4>2. Len(args) = Len(words) - 1 /\ args[k - 1] = words[(k - 1) + 1]
          BY <4>1, ArgsMeans
        <4>3. k - 1 \in 2 .. Len(args) - 1 /\ (k - 1) + 1 = k
          BY <1>3, <4>2
        <4> QED
          BY <2>1, <4>2, <4>3 DEF Separators
      <3>2. HeaderEnds(words) = {}
        BY <3>1, Zenon DEF HeaderEnds
      <3> QED
        BY <1>5, <2>1, <3>2, Zenon
    <2>2. CASE Separators(args) # {}
      <3> DEFINE first == FirstSeparator(args)
      <3>1. /\ first \in 2 .. Len(args) - 1 /\ args[first] = << ":" >>
            /\ \A j \in 2 .. Len(args) - 1 : args[j] = << ":" >> => first <= j
        BY <1>4, <2>2, FirstSeparatorMeans
      <3> HIDE DEF first
      <3>2. Len(words) > 1
        <4>1. Len(words) = 1 => Len(args) = 1
          BY <1>5, ArgsMeans
        <4>2. Len(args) \in Nat
          BY <1>4, LineWords
        <4>3. Len(args) # 1
          BY <3>1, <4>2
        <4>4. \A m \in Nat : m > 0 /\ m # 1 => m > 1
          OBVIOUS
        <4> QED
          BY <1>3, <4>1, <4>3, <4>4, Zenon
      <3>3. Len(args) = Len(words) - 1 /\ \A k \in 1 .. Len(words) - 1 : args[k] = words[k + 1]
        BY <3>2, ArgsMeans
      <3>4. first \in Nat /\ first + 1 \in 3 .. Len(words) - 1 /\ first \in 1 .. Len(words) - 1
        BY <1>3, <3>1, <3>3
      <3>5. words[first + 1] = << ":" >>
        BY <3>1, <3>3, <3>4
      <3>6. PICK b \in Nat : b = Len(words) - 1 /\ first + 1 <= b /\ b + 1 = Len(words)
        <4>1. Len(words) \in Nat /\ first \in Nat /\ first + 1 \in 3 .. Len(words) - 1
          BY <1>3, <3>4, Zenon
        <4>2. \A l, f \in Nat :
                f + 1 \in 3 .. l - 1 => l - 1 \in Nat /\ f + 1 <= l - 1 /\ (l - 1) + 1 = l
          OBVIOUS
        <4> QED
          BY <4>1, <4>2, Zenon
      <3>7. PICK s \in Words :
              /\ s = SubSeq(args, first + 1, b) /\ s = SubSeq(words, (first + 1) + 1, b + 1)
        <4>1. PICK a \in Nat : a = first + 1 /\ 1 <= a /\ a <= b /\ b <= Len(words) - 1
          BY <1>3, <3>4, <3>6
        <4>2. PICK s \in Words :
                /\ s \in Seq(Word) /\ s = SubSeq(args, a, b)
                /\ s = SubSeq(words, a + 1, b + 1) /\ Len(s) = b - a + 1
                /\ \A k \in 1 .. Len(s) : s[k] = words[a + k]
          BY <3>2, <3>6, <4>1, ArgsPiece, Zenon
        <4> QED
          BY <4>1, <4>2
      <3>8. value = s
        BY <2>2, <3>3, <3>6, <3>7 DEF first
      <3>9. value = SubSeq(words, (first + 1) + 1, Len(words))
        BY <3>6, <3>7, <3>8
      <3>10. ASSUME NEW k \in HeaderEnds(words) PROVE k = first + 1
        <4>1. /\ k \in 3 .. Len(words) - 1 /\ words[k] = << ":" >>
              /\ \A j \in 3 .. k - 1 : words[j] # << ":" >>
          BY Zenon DEF HeaderEnds
        <4>2. PICK l \in Nat : l = Len(words)
          BY <1>3
        <4>3. k - 1 \in 1 .. l - 1 /\ k - 1 \in 2 .. (l - 1) - 1 /\ (k - 1) + 1 = k
          BY <4>1, <4>2
        <4>4. args[k - 1] = << ":" >>
          BY <3>3, <4>1, <4>2, <4>3, Zenon
        <4>5. first <= k - 1
          BY <3>1, <3>3, <4>2, <4>3, <4>4, Zenon
        <4>6. ~(first + 1 \in 3 .. k - 1)
          BY <3>5, <4>1, Zenon
        <4> QED
          BY <3>4, <4>1, <4>2, <4>5, <4>6
      <3>11. \A k \in HeaderEnds(words) : value = SubSeq(words, k + 1, Len(words))
        BY <3>9, <3>10, Zenon
      <3>12. first + 1 \in HeaderEnds(words)
        <4>1. ASSUME NEW j \in 3 .. (first + 1) - 1, words[j] = << ":" >> PROVE FALSE
          <5>1. PICK l \in Nat : l = Len(words)
            BY <1>3
          <5>2. /\ j - 1 \in 1 .. l - 1 /\ j - 1 \in 2 .. (l - 1) - 1 /\ (j - 1) + 1 = j
                /\ ~(first <= j - 1)
            BY <3>4, <4>1, <5>1
          <5>3. args[j - 1] = << ":" >>
            BY <3>3, <4>1, <5>1, <5>2, Zenon
          <5> QED
            BY <3>1, <3>3, <5>1, <5>2, <5>3, Zenon
        <4> QED
          BY <3>4, <3>5, <4>1, Zenon DEF HeaderEnds
      <3> QED
        BY <3>7, <3>8, <3>11, <3>12, Zenon
    <2> QED
      BY <2>1, <2>2
  <1> HIDE DEF value
  <1>7. n.tag = tag /\ n.name = args[1] /\ n.value = value /\ value \in Words
    BY <1>1, <1>5, <1>6
  <1>8. n \in Notification
    BY <1>1, <1>4, <1>7 DEF Notification
  <1>9. IsPrefix(<< << "%", tag >>, args[1] >>, words \o EmptyText)
    <2>1. 1 \in 1 .. Len(words)
      BY <1>3
    <2>2. PICK u, v \in Word : u = << "%", tag >> /\ v = args[1]
      BY <1>3, <1>4, <2>1
    <2>3. PICK s \in Seq(Word) : s = << u, v >> /\ Len(s) = 2 /\ s[1] = u /\ s[2] = v
      BY TwoWords
    <2>4. PICK t \in Seq(Word) :
            /\ t = words \o EmptyText /\ Len(t) = Len(words) + Len(EmptyText)
            /\ \A k \in 1 .. Len(words) : t[k] = words[k]
            /\ \A k \in Len(words) + 1 .. Len(t) : t[k] = EmptyText[k - Len(words)]
      BY <1>3, <1>5, FrontAndRest
    <2>5. t[1] = u
      BY <2>1, <2>2, <2>4
    <2>6. t[2] = v
      <3>1. CASE Len(words) = 1
        <4>1. 2 \in Len(words) + 1 .. Len(t) /\ 2 - Len(words) = 1
          BY <1>5, <2>4, <3>1
        <4>2. t[2] = EmptyText[1]
          BY <2>4, <4>1
        <4>3. args[1] = << >>
          BY <3>1, ArgsMeans
        <4> QED
          BY <1>5, <2>2, <4>2, <4>3
      <3>2. CASE Len(words) # 1
        <4>0. \A m \in Nat : m > 0 /\ m # 1 => m > 1 /\ 2 \in 1 .. m /\ 1 \in 1 .. m - 1
          OBVIOUS
        <4>1. Len(words) > 1 /\ 2 \in 1 .. Len(words) /\ 1 \in 1 .. Len(words) - 1
          BY <1>3, <3>2, <4>0, Zenon
        <4>2. args[1] = words[1 + 1]
          BY <4>1, ArgsMeans
        <4> QED
          BY <2>2, <2>4, <4>1, <4>2
      <3> QED
        BY <3>1, <3>2
    <2>7. Len(s) <= Len(t) /\ \A k \in 1 .. Len(s) : s[k] = t[k]
      <3>1. Len(t) >= 2
        BY <1>3, <1>5, <2>4
      <3>2. \A k \in 1 .. 2 : k = 1 \/ k = 2
        OBVIOUS
      <3> QED
        BY <2>3, <2>5, <2>6, <3>1, <3>2
    <2>8. IsPrefix(s, t)
      BY <2>7, PrefixIs
    <2> QED
      BY <2>2, <2>3, <2>4, <2>8
  <1>10. Says(n, words)
    <2>1. /\ IsPrefix(<< << "%", n.tag >>, n.name >>, words \o EmptyText)
          /\ \A k \in HeaderEnds(words) : n.value = SubSeq(words, k + 1, Len(words))
          /\ HeaderEnds(words) = {} => n.value = EmptyText
      BY <1>6, <1>7, <1>9, Zenon
    <2> QED
      BY <1>7, <2>1, SaysOf
  <1> QED
    BY <1>2, <1>8, <1>10 DEF ReadWell, Faithful

LEMMA Options ==
    ASSUME NEW S
    PROVE  None \in Option(S) /\ \A x \in S : Some(x) \in Option(S) /\ Some(x)[1] = x
  <1>1. None \in Option(S)
    <2>1. PICK s \in Seq(S) : s = << >>
      BY EmptySeq
    <2>2. Len(s) = 0
      BY <2>1
    <2> QED
      BY <2>1, <2>2 DEF None, Option
  <1>2. ASSUME NEW x \in S PROVE Some(x) \in Option(S) /\ Some(x)[1] = x
    <2>1. << x >> \in Seq(S)
      OBVIOUS
    <2>2. PICK s \in Seq(S) : s = << x >>
      BY <2>1
    <2>3. Len(s) = 1 /\ s[1] = x
      BY <2>2
    <2> QED
      BY <2>2, <2>3 DEF Some, Option
  <1> QED
    BY <1>1, <1>2

LEMMA LayoutMeans ==
    ASSUME NEW word \in Word, ParseLayout(word) # None
    PROVE  /\ word[1] \in LayoutText /\ word = << word[1] >>
           /\ ParseLayout(word) = << word[1] >>
  <1>1. Len(word) = 1 /\ word[1] \in LayoutText /\ ParseLayout(word) = << word[1] >>
    BY DEF ParseLayout, Some
  <1>2. word[1] \in Chunk
    BY <1>1, GrammarAssumption
  <1>3. PICK s \in Word : s = << word[1] >> /\ Len(s) = 1 /\ s[1] = word[1]
    BY <1>2, OneChunk
  <1>4. word \in Seq(Chunk) /\ s \in Seq(Chunk) /\ Len(word) = Len(s)
        /\ \A k \in 1 .. Len(word) : word[k] = s[k]
    BY <1>1, <1>3 DEF Word
  <1>5. word = s
    BY <1>4, SeqEqual
  <1> QED
    BY <1>1, <1>3, <1>5

(* The fields before the flags, as tmux writes them. *)
LEMMA LayoutWrites ==
    ASSUME NEW words \in Words, NEW n, n.tag = "layout-change", n.flags = None,
           Id("@", words[2]) # None, n.window = Id("@", words[2])[1],
           ParseLayout(words[3]) # None, n.layout = words[3][1],
           \/ Len(words) = 3 /\ n.visible = None
           \/ Len(words) > 3 /\ ParseLayout(words[4]) # None /\ n.visible = ParseLayout(words[4])
    PROVE  \E arguments \in Arguments(n) :
             /\ arguments \in Seq(Word) /\ Len(arguments) <= Len(words) - 1
             /\ \A k \in 1 .. Len(arguments) : Alike(arguments[k], words[k + 1])
             /\ Len(words) <= 4 => Len(arguments) = Len(words) - 1
  <1>1. Len(words) \in Nat /\ Len(words) >= 3 /\ \A k \in 1 .. Len(words) : words[k] \in Word
    BY LineWords
  <1>2. words[2] \in Word /\ words[3] \in Word
    BY <1>1
  <1>3. PICK window \in Word : window = Shows("@", n.window) /\ Alike(window, words[2])
    BY <1>2, IdAlike
  <1>4. << n.layout >> = words[3]
    BY <1>2, LayoutMeans
  <1>5. PICK front \in Seq(Word) :
          front = << window, words[3] >> /\ Len(front) = 2 /\ front[1] = window /\ front[2] = words[3]
    BY <1>2, TwoWords
  <1>6. Arguments(n) = {front \o (IF n.visible = None THEN << >> ELSE << n.visible >>) \o << >>}
    <2>1. Arguments(n) =
            {<< Shows("@", n.window), << n.layout >> >>
               \o (IF n.visible = None THEN << >> ELSE << n.visible >>)
               \o (IF n.flags = None THEN << >> ELSE << FlagWord(n.flags[1]) >>)}
      BY ArgumentsOf
    <2> QED
      BY <1>3, <1>4, <1>5, <2>1
  <1>7. 1 .. 2 = {1, 2} /\ 1 .. 3 = {1, 2, 3}
    OBVIOUS
  <1>8. CASE Len(words) = 3
    <2>1. n.visible = None
      BY <1>8
    <2>2. front \o << >> \o << >> = front
      BY ConcatEmptySeq
    <2>3. front \in Arguments(n)
      BY <1>6, <2>1, <2>2
    <2>4. \A k \in 1 .. Len(front) : Alike(front[k], words[k + 1])
      <3>1. Alike(front[1], words[2]) /\ Alike(front[2], words[3])
        BY <1>3, <1>5, AlikeSelf
      <3> QED
        BY <1>5, <1>7, <3>1
    <2>5. \A m \in Nat : m = 3 => 2 <= m - 1 /\ 2 = m - 1
      OBVIOUS
    <2>6. 2 <= Len(words) - 1 /\ 2 = Len(words) - 1
      BY <1>1, <1>8, <2>5, Zenon
    <2>7. Len(front) <= Len(words) - 1 /\ Len(front) = Len(words) - 1
      BY <1>5, <2>6, Zenon
    <2> QED
      BY <2>3, <2>4, <2>7
  <1>9. CASE Len(words) > 3
    <2>1. words[4] \in Word /\ ParseLayout(words[4]) # None /\ n.visible = ParseLayout(words[4])
      BY <1>1, <1>9
    <2>2. n.visible = words[4] /\ n.visible # None
      BY <2>1, LayoutMeans
    <2>3. PICK back \in Seq(Word) : back = << words[4] >> /\ Len(back) = 1 /\ back[1] = words[4]
      BY <2>1, OneWord
    <2>4. PICK arguments \in Seq(Word) :
            /\ arguments = front \o back /\ Len(arguments) = Len(front) + Len(back)
            /\ \A k \in 1 .. Len(front) : arguments[k] = front[k]
            /\ \A k \in Len(front) + 1 .. Len(arguments) : arguments[k] = back[k - Len(front)]
      BY FrontAndRest
    <2>5. arguments \o << >> = arguments
      BY ConcatEmptySeq
    <2>6. arguments \in Arguments(n)
      BY <1>6, <2>2, <2>3, <2>4, <2>5
    <2>7. Len(arguments) = 3
      BY <1>5, <2>3, <2>4
    <2>8. arguments[1] = window /\ arguments[2] = words[3] /\ arguments[3] = words[4]
      <3>1. 1 \in 1 .. Len(front) /\ 2 \in 1 .. Len(front) /\ 3 \in Len(front) + 1 .. Len(arguments)
            /\ 3 - Len(front) = 1
        BY <1>5, <2>7
      <3> QED
        BY <1>5, <2>3, <2>4, <3>1
    <2>9. \A k \in 1 .. Len(arguments) : Alike(arguments[k], words[k + 1])
      <3>1. Alike(arguments[1], words[2]) /\ Alike(arguments[2], words[3])
            /\ Alike(arguments[3], words[4])
        BY <1>3, <2>8, AlikeSelf
      <3> QED
        BY <1>7, <2>7, <3>1
    <2>10. Len(arguments) <= Len(words) - 1
           /\ (Len(words) <= 4 => Len(arguments) = Len(words) - 1)
      <3>1. \A m \in Nat : m > 3 => 3 <= m - 1 /\ (m <= 4 => 3 = m - 1)
        OBVIOUS
      <3>2. 3 <= Len(words) - 1 /\ (Len(words) <= 4 => 3 = Len(words) - 1)
        BY <1>1, <1>9, <3>1, Zenon
      <3> QED
        BY <2>7, <3>2, Zenon
    <2> QED
      BY <2>4, <2>6, <2>9, <2>10
  <1> QED
    BY <1>8, <1>9

LEMMA LayoutChangeReads ==
    ASSUME NEW words \in Words, words[1] = << "%", "layout-change" >>
    PROVE  ReadWell(ParseLayoutChange(Args(words)), words)
  <1> DEFINE args == Args(words)
             visible == IF Len(args) = 2 THEN None ELSE ParseLayout(args[3])
             flags == IF Len(args) < 4 THEN None ELSE Some(ParseWindowFlags(args[4]))
             n == [tag |-> "layout-change", window |-> Id("@", args[1])[1], layout |-> args[2][1],
                   visible |-> visible, flags |-> flags]
             bare == [tag |-> "layout-change", window |-> Id("@", args[1])[1],
                      layout |-> args[2][1], visible |-> visible, flags |-> None]
  <1> SUFFICES ASSUME ParseLayoutChange(args) # None
               PROVE  Faithful(ParseLayoutChange(args)[1], words)
    BY DEF ReadWell
  <1>1. /\ ~(Len(args) < 2) /\ Id("@", args[1]) # None /\ ParseLayout(args[2]) # None
        /\ Len(args) > 2 => ParseLayout(args[3]) # None
        /\ ParseLayoutChange(args)[1] = n
    BY DEF ParseLayoutChange, LayoutChange, Some
  <1>2. Len(words) \in Nat /\ Len(words) > 0 /\ \A k \in 1 .. Len(words) : words[k] \in Word
    BY LineWords
  <1>3. Len(words) >= 3 /\ Len(args) = Len(words) - 1
        /\ \A k \in 1 .. Len(words) - 1 : args[k] = words[k + 1]
    <2>1. Len(words) # 1
      <3>1. Len(words) = 1 => args = EmptyText
        BY ArgsMeans
      <3>2. Len(EmptyText) = 1
        BY DEF EmptyText
      <3> QED
        BY <1>1, <3>1, <3>2
    <2>2. Len(words) > 1
      BY <1>2, <2>1, SMTT(60)
    <2>3. Len(args) = Len(words) - 1 /\ \A k \in 1 .. Len(words) - 1 : args[k] = words[k + 1]
      BY <2>2, ArgsMeans
    <2> QED
      BY <1>1, <1>2, <2>3
  <1>4. /\ args[1] = words[2] /\ args[2] = words[3] /\ words[2] \in Word /\ words[3] \in Word
        /\ Len(words) > 3 => args[3] = words[4] /\ words[4] \in Word
        /\ Len(words) > 4 => args[4] = words[5] /\ words[5] \in Word
    <2>1. 1 + 1 = 2 /\ 2 + 1 = 3 /\ 3 + 1 = 4 /\ 4 + 1 = 5
      OBVIOUS
    <2>2. args[1] = words[1 + 1] /\ args[2] = words[2 + 1]
      BY <1>2, <1>3
    <2>3. Len(words) > 3 => args[3] = words[3 + 1]
      BY <1>2, <1>3
    <2>4. Len(words) > 4 => args[4] = words[4 + 1]
      BY <1>2, <1>3
    <2>5. words[2] \in Word /\ words[3] \in Word
      BY <1>2, <1>3
    <2>6. (Len(words) > 3 => words[4] \in Word) /\ (Len(words) > 4 => words[5] \in Word)
      BY <1>2
    <2> QED
      BY <2>1, <2>2, <2>3, <2>4, <2>5, <2>6
  <1> HIDE DEF args
  <1>5. /\ Len(words) = 3 => visible = None
        /\ Len(words) > 3 => ParseLayout(words[4]) # None /\ visible = ParseLayout(words[4])
        /\ Len(words) <= 4 => flags = None
        /\ Len(words) > 4 => flags = Some(ParseWindowFlags(words[5]))
    <2>1. \A m \in Nat : /\ m = 3 => m - 1 = 2
                         /\ m > 3 => m - 1 # 2 /\ m - 1 > 2
                         /\ m <= 4 => m - 1 < 4
                         /\ m > 4 => ~(m - 1 < 4)
      OBVIOUS
    <2>2. /\ Len(words) = 3 => Len(args) = 2
          /\ Len(words) > 3 => Len(args) # 2 /\ Len(args) > 2
          /\ Len(words) <= 4 => Len(args) < 4
          /\ Len(words) > 4 => ~(Len(args) < 4)
      BY <1>2, <1>3, <2>1, Zenon
    <2> QED
      BY <1>1, <1>4, <2>2
  <1> HIDE DEF visible, flags
  <1>6. Id("@", words[2])[1] \in WireId /\ words[3][1] \in LayoutText
    BY <1>1, <1>4, IdAlike, LayoutMeans
  <1>7. visible \in Option(LayoutText)
    <2>1. CASE Len(words) = 3
      BY <1>5, <2>1, Options
    <2>2. CASE Len(words) > 3
      <3>1. words[4] \in Word /\ ParseLayout(words[4]) # None /\ visible = ParseLayout(words[4])
        BY <1>4, <1>5, <2>2
      <3>2. words[4][1] \in LayoutText /\ visible = Some(words[4][1])
        BY <3>1, LayoutMeans DEF Some
      <3> QED
        BY <3>2, Options
    <2> QED
      BY <1>2, <1>3, <2>1, <2>2
  <1>8. flags \in Option([set : SUBSET KnownFlag, unknown : Word])
        /\ (flags # None => Len(words) > 4 /\ KeepsEveryFlag(flags[1], words[5]))
    <2>1. CASE Len(words) <= 4
      BY <1>5, <2>1, Options
    <2>2. CASE Len(words) > 4
      <3>1. words[5] \in Word /\ flags = Some(ParseWindowFlags(words[5]))
        BY <1>4, <1>5, <2>2
      <3>2. PICK f : f = ParseWindowFlags(words[5])
        OBVIOUS
      <3>3. f \in FlagSet /\ KeepsEveryFlag(f, words[5])
        BY <3>1, <3>2, FlagsKept
      <3>4. flags \in Option(FlagSet) /\ flags[1] = f
        BY <3>1, <3>2, <3>3, Options
      <3> QED
        BY <2>2, <3>3, <3>4 DEF FlagSet
    <2> QED
      BY <1>2, <2>1, <2>2
  <1>9. n \in Notification
    BY <1>4, <1>6, <1>7, <1>8 DEF Notification
  <1>10. PICK arguments \in Arguments(bare) :
           /\ arguments \in Seq(Word) /\ Len(arguments) <= Len(words) - 1
           /\ \A k \in 1 .. Len(arguments) : Alike(arguments[k], words[k + 1])
           /\ Len(words) <= 4 => Len(arguments) = Len(words) - 1
    <2>1. PICK m : m = bare
      OBVIOUS
    <2>2. /\ m.tag = "layout-change" /\ m.flags = None
          /\ m.window = Id("@", words[2])[1] /\ m.layout = words[3][1]
          /\ m.visible = visible
      BY <1>4, <2>1
    <2>3. \/ Len(words) = 3 /\ m.visible = None
          \/ Len(words) > 3 /\ ParseLayout(words[4]) # None /\ m.visible = ParseLayout(words[4])
      <3>1. Len(words) = 3 \/ Len(words) > 3
        BY <1>2, <1>3
      <3> QED
        BY <1>5, <2>2, <3>1
    <2>4. Id("@", words[2]) # None /\ ParseLayout(words[3]) # None
      BY <1>1, <1>4
    <2> QED
      BY <2>1, <2>2, <2>3, <2>4, LayoutWrites
  <1>11. CASE flags = None
    <2>1. n = bare /\ n.tag = "layout-change" /\ n.flags = None
      BY <1>11
    <2>2. Len(words) <= 4
      <3>1. Some(ParseWindowFlags(words[5])) # None
        BY DEF Some, None
      <3>2. ~(Len(words) > 4)
        BY <1>5, <1>11, <3>1
      <3> QED
        BY <1>2, <3>2
    <2>3. Plainly(n)
      BY <2>1 DEF Plainly
    <2>4. PICK m : m = n
      OBVIOUS
    <2>5. Says(m, words)
      BY <1>10, <2>1, <2>2, <2>3, <2>4, SaysPlainly
    <2> QED
      BY <1>1, <1>9, <2>4, <2>5 DEF Faithful
  <1>12. CASE flags # None
    <2>1. n.tag = "layout-change" /\ n.flags = flags /\ [n EXCEPT !.flags = None] = bare
      OBVIOUS
    <2>2. bare.tag = "layout-change"
      OBVIOUS
    <2>3. PICK m, l : m = n /\ l = bare
      OBVIOUS
    <2>4. l.tag # "unknown" /\ words[1] = << "%", l.tag >>
      BY <2>2, <2>3
    <2>5. PICK wire \in Wires(l) : IsPrefix(Spelled(wire), Spelled(words))
      BY <1>10, <2>3, <2>4, WritesAlike
    <2>6. m.tag = "layout-change" /\ m.flags = flags /\ [m EXCEPT !.flags = None] = l
      BY <2>1, <2>3
    <2>7. /\ \E line \in Wires([m EXCEPT !.flags = None]) : IsPrefix(Spelled(line), Spelled(words))
          /\ KeepsEveryFlag(m.flags[1], words[5])
      BY <1>8, <1>12, <2>5, <2>6
    <2>8. Says(m, words)
      BY <1>12, <2>6, <2>7, SaysOf
    <2> QED
      BY <1>1, <1>9, <2>3, <2>8 DEF Faithful
  <1> QED
    BY <1>11, <1>12

(* What trim leaves of the arguments: all between the first word that is   *)
(* not empty and the last.                                                 *)
LEMMA ReasonMeans ==
    ASSUME NEW words \in Words
    PROVE  \/ /\ OptionalReason(Args(words)) = None
              /\ \A k \in 2 .. Len(words) : words[k] = << >>
           \/ \E a, b \in Nat, s \in Words :
                /\ 1 <= a /\ a <= b /\ b + 1 <= Len(words)
                /\ s = SubSeq(words, a + 1, b + 1) /\ s \in Seq(Word) /\ Len(s) = b - a + 1
                /\ OptionalReason(Args(words)) = Some(s)
                /\ \A k \in 2 .. a : words[k] = << >>
                /\ \A k \in b + 2 .. Len(words) : words[k] = << >>
  <1> DEFINE args == Args(words)
             ink == {k \in DOMAIN args : args[k] # << >>}
  <1>1. Len(words) \in Nat /\ Len(words) > 0
    BY LineWords
  <1>2. args \in Words /\ DOMAIN args = 1 .. Len(args) /\ Len(args) \in Nat
    BY ArgsMeans, LineWords
  <1>3. CASE ink = {}
    <2>1. OptionalReason(args) = None
      BY <1>3 DEF OptionalReason
    <2>2. ASSUME NEW k \in 2 .. Len(words) PROVE words[k] = << >>
      <3>1. Len(words) > 1 /\ k - 1 \in 1 .. Len(words) - 1 /\ (k - 1) + 1 = k
        BY <1>1
      <3>2. args[k - 1] = words[k] /\ k - 1 \in DOMAIN args
        BY <1>2, <3>1, ArgsMeans
      <3> QED
        BY <1>3, <3>2
    <2> QED
      BY <2>1, <2>2
  <1>4. CASE ink # {}
    <2>1. PICK S \in SUBSET (1 .. Len(args)) : S = ink
      BY <1>2
    <2>2. S \in SUBSET Nat /\ S # {}
      BY <1>2, <1>4, <2>1
    <2> DEFINE a == CHOOSE k \in S : \A j \in S : k <= j
               b == CHOOSE k \in S : \A j \in S : j <= k
    <2>3. a \in S /\ \A j \in S : a <= j
      BY <2>2, Smallest
    <2>4. b \in S /\ \A j \in S : j <= b
      BY <1>2, <2>2, Largest
    <2>5. OptionalReason(args) = Some(SubSeq(args, a, b))
      BY <1>4, <2>1 DEF OptionalReason
    <2> HIDE DEF a, b
    <2>6. a \in Nat /\ b \in Nat /\ 1 <= a /\ a <= b /\ b <= Len(args)
      BY <1>2, <2>1, <2>3, <2>4
    <2>7. Len(words) > 1
      <3>1. CASE Len(words) = 1
        <4>1. args = EmptyText /\ args[1] = << >> /\ Len(EmptyText) = 1
          BY <3>1, ArgsMeans DEF EmptyText
        <4>2. \A m \in Nat : 1 <= m /\ m <= 1 => m = 1
          OBVIOUS
        <4>3. a = 1
          <5>1. a \in 1 .. Len(args) /\ Len(args) = 1
            BY <2>1, <2>3, <4>1
          <5> QED
            BY <5>1
        <4> QED
          BY <2>1, <2>3, <4>1, <4>3
      <3>2. \A m \in Nat : m > 0 /\ m # 1 => m > 1
        OBVIOUS
      <3> QED
        BY <1>1, <3>1, <3>2, Zenon
    <2>8. Len(args) = Len(words) - 1 /\ \A k \in 1 .. Len(words) - 1 : args[k] = words[k + 1]
      BY <2>7, ArgsMeans
    <2>9. b <= Len(words) - 1 /\ b + 1 <= Len(words)
      BY <1>1, <2>6, <2>8
    <2>10. PICK s \in Words :
             /\ s \in Seq(Word) /\ s = SubSeq(Args(words), a, b)
             /\ s = SubSeq(words, a + 1, b + 1) /\ Len(s) = b - a + 1
             /\ \A k \in 1 .. Len(s) : s[k] = words[a + k]
      BY <2>6, <2>7, <2>9, ArgsPiece, Zenon
    <2>11. \A k \in 1 .. Len(words) - 1 : k \notin S => words[k + 1] = << >>
      BY <1>2, <2>1, <2>8
    <2>12. ASSUME NEW k \in 2 .. a PROVE words[k] = << >>
      <3>1. k - 1 \in 1 .. Len(words) - 1 /\ (k - 1) + 1 = k /\ k - 1 < a
        BY <1>1, <2>6, <2>9
      <3>2. k - 1 \notin S
        BY <2>3, <2>6, <3>1
      <3> QED
        BY <2>11, <3>1, <3>2
    <2>13. ASSUME NEW k \in b + 2 .. Len(words) PROVE words[k] = << >>
      <3>1. k - 1 \in 1 .. Len(words) - 1 /\ (k - 1) + 1 = k /\ k - 1 > b
        BY <1>1, <2>6, <2>9
      <3>2. k - 1 \notin S
        BY <2>4, <2>6, <3>1
      <3> QED
        BY <2>11, <3>1, <3>2
    <2>14. OptionalReason(Args(words)) = Some(s)
      BY <2>5, <2>10
    <2> QED
      BY <2>6, <2>9, <2>10, <2>12, <2>13, <2>14
  <1> QED
    BY <1>3, <1>4

LEMMA ExitReads ==
    ASSUME NEW words \in Words, words[1] = << "%", "exit" >>
    PROVE  ReadWell(Some([tag |-> "exit", reason |-> OptionalReason(Args(words))]), words)
  <1> DEFINE reason == OptionalReason(Args(words))
  <1>1. PICK n : n = [tag |-> "exit", reason |-> reason]
    OBVIOUS
  <1>2. n.tag = "exit" /\ n.reason = reason
    BY <1>1
  <1>3. /\ Len(words) \in Nat /\ Len(words) > 0 /\ words \in Seq(Word)
        /\ \A k \in 1 .. Len(words) : words[k] \in Word
    BY LineWords
  <1>4. << "%", "exit" >> \in Word
    <2>1. 1 \in 1 .. Len(words)
      BY <1>3
    <2> QED
      BY <1>3, <2>1
  <1>5. PICK first \in Seq(Word) :
          first = << words[1] >> /\ Len(first) = 1 /\ first[1] = words[1]
    BY <1>4, OneWord
  <1>6. /\ n.reason = None => Wires(n) = {first \o << >>}
        /\ n.reason # None => Wires(n) = {first \o n.reason[1]}
    <2>1. Wires(n) = {<< << "%", n.tag >> >> \o arguments : arguments \in Arguments(n)}
      BY <1>2 DEF Wires
    <2>2. Arguments(n) = {IF n.reason = None THEN << >> ELSE n.reason[1]}
      BY <1>2, ArgumentsOf
    <2>3. << << "%", n.tag >> >> = first
      BY <1>2, <1>5
    <2> QED
      BY <2>1, <2>2, <2>3
  <1> HIDE DEF reason
  <1>7. CASE reason = None /\ \A k \in 2 .. Len(words) : words[k] = << >>
    <2>1. n \in Notification
      <3>1. reason \in Option(Words)
        BY <1>7, Options
      <3> QED
        BY <1>1, <3>1 DEF Notification
    <2>2. first \in Wires(n)
      BY <1>2, <1>5, <1>6, <1>7, ConcatEmptySeq
    <2>3. Pads(first, words)
      <3>1. SubSeq(words, 2, 1) = << >>
        BY SubSeqEmpty
      <3>2. first = << words[1] >> \o SubSeq(words, 0 + 2, 0 + Len(first))
        <4>1. 0 + 2 = 2 /\ 0 + Len(first) = 1
          BY <1>5
        <4>2. first \o << >> = first
          BY ConcatEmptySeq
        <4> QED
          BY <1>5, <3>1, <4>1, <4>2
      <3>3. 0 \in 0 .. Len(words) - Len(first)
        BY <1>3, <1>5
      <3>4. \A k \in 2 .. 0 + 1 : words[k] = << >>
        OBVIOUS
      <3>5. \A k \in 0 + Len(first) + 1 .. Len(words) : words[k] = << >>
        BY <1>5, <1>7
      <3> QED
        BY <3>2, <3>3, <3>4, <3>5 DEF Pads
    <2>4. Says(n, words)
      BY <1>2, <2>2, <2>3, SaysOf
    <2> QED
      BY <1>1, <2>1, <2>4 DEF reason, ReadWell, Faithful, Some
  <1>8. CASE \E a, b \in Nat, s \in Words :
               /\ 1 <= a /\ a <= b /\ b + 1 <= Len(words)
               /\ s = SubSeq(words, a + 1, b + 1) /\ s \in Seq(Word) /\ Len(s) = b - a + 1
               /\ reason = Some(s)
               /\ \A k \in 2 .. a : words[k] = << >>
               /\ \A k \in b + 2 .. Len(words) : words[k] = << >>
    <2>1. PICK a \in Nat, b \in Nat, s \in Words :
               /\ 1 <= a /\ a <= b /\ b + 1 <= Len(words)
               /\ s = SubSeq(words, a + 1, b + 1) /\ s \in Seq(Word) /\ Len(s) = b - a + 1
               /\ reason = Some(s)
               /\ \A k \in 2 .. a : words[k] = << >>
               /\ \A k \in b + 2 .. Len(words) : words[k] = << >>
      BY <1>8
    <2>2. reason \in Option(Words) /\ reason[1] = s /\ reason # None
      <3>1. reason \in Option(Words) /\ reason[1] = s
        BY <2>1, Options
      <3>2. Some(s) # None
        BY DEF Some, None
      <3> QED
        BY <2>1, <3>1, <3>2
    <2>3. n \in Notification
      BY <1>1, <2>2 DEF Notification
    <2>4. PICK wire \in Seq(Word) : wire = first \o s /\ Len(wire) = Len(first) + Len(s)
      BY <2>1, FrontAndRest
    <2>5. wire \in Wires(n)
      BY <1>2, <1>6, <2>2, <2>4
    <2>6. Pads(wire, words)
      <3>1. PICK skipped \in Nat : skipped = a - 1
        BY <2>1
      <3>2. Len(wire) = b - a + 2
        BY <1>5, <2>1, <2>4
      <3>3. skipped + 2 = a + 1 /\ skipped + Len(wire) = b + 1 /\ skipped + 1 = a
            /\ skipped + Len(wire) + 1 = b + 2
        BY <2>1, <3>1, <3>2
      <3>4. skipped \in 0 .. Len(words) - Len(wire)
        BY <1>3, <2>1, <3>1, <3>2, SMTT(60)
      <3>5. wire = << words[1] >> \o SubSeq(words, skipped + 2, skipped + Len(wire))
        BY <1>5, <2>1, <2>4, <3>3
      <3> QED
        BY <2>1, <3>3, <3>4, <3>5 DEF Pads
    <2>7. Says(n, words)
      BY <1>2, <2>5, <2>6, SaysOf
    <2> QED
      BY <1>1, <2>3, <2>7 DEF reason, ReadWell, Faithful, Some
  <1>9. \/ reason = None /\ \A k \in 2 .. Len(words) : words[k] = << >>
        \/ \E a, b \in Nat, s \in Words :
             /\ 1 <= a /\ a <= b /\ b + 1 <= Len(words)
             /\ s = SubSeq(words, a + 1, b + 1) /\ s \in Seq(Word) /\ Len(s) = b - a + 1
             /\ reason = Some(s)
             /\ \A k \in 2 .. a : words[k] = << >>
             /\ \A k \in b + 2 .. Len(words) : words[k] = << >>
    BY ReasonMeans DEF reason
  <1> QED
    BY <1>7, <1>8, <1>9

----------------------------------------------------------------------------
(* The byte path: a payload written out again is the payload, but for how  *)
(* a byte was written.                                                     *)
LEMMA BytesAlike ==
    ASSUME NEW payloadWords \in Words
    PROVE  /\ Bytes(payloadWords) \in Words
           /\ Escaped(Bytes(payloadWords)) \in Seq(Word)
           /\ Len(Escaped(Bytes(payloadWords))) = Len(payloadWords)
           /\ \A w \in 1 .. Len(payloadWords) :
                Alike(Escaped(Bytes(payloadWords))[w], payloadWords[w])
  <1>1. Encode \in [Chunk -> Chunk] /\ Decode \in [Chunk -> Chunk]
    BY GrammarAssumption
  <1>2. payloadWords \in Seq(Word)
    BY LineWords
  <1>3. PICK bytes \in Words : bytes = Bytes(payloadWords)
    BY <1>1, EachLine DEF Bytes
  <1>4. /\ Len(bytes) = Len(payloadWords)
        /\ \A w \in 1 .. Len(payloadWords) :
             /\ Len(bytes[w]) = Len(payloadWords[w])
             /\ \A c \in 1 .. Len(payloadWords[w]) : bytes[w][c] = Decode[payloadWords[w][c]]
    BY <1>1, <1>2, <1>3, EachMeans DEF Bytes
  <1>5. bytes \in Seq(Word)
    BY LineWords
  <1>6. PICK again : again = Each(Encode, bytes)
    OBVIOUS
  <1>7. /\ again \in Seq(Word) /\ Len(again) = Len(bytes)
        /\ \A w \in 1 .. Len(bytes) :
             /\ Len(again[w]) = Len(bytes[w])
             /\ \A c \in 1 .. Len(bytes[w]) : again[w][c] = Encode[bytes[w][c]]
    BY <1>1, <1>5, <1>6, EachMeans
  <1>8. ASSUME NEW w \in 1 .. Len(payloadWords) PROVE Alike(again[w], payloadWords[w])
    <2>1. payloadWords[w] \in Seq(Chunk)
      BY <1>2, ElementOfSeq DEF Word
    <2>2. Len(again[w]) = Len(payloadWords[w])
      BY <1>4, <1>7
    <2>3. ASSUME NEW c \in 1 .. Len(payloadWords[w])
          PROVE  Spelling(again[w][c]) = Spelling(payloadWords[w][c])
      <3>1. again[w][c] = Encode[Decode[payloadWords[w][c]]]
        BY <1>4, <1>7
      <3>2. payloadWords[w][c] \in Chunk
        BY <2>1, ElementOfSeq
      <3> QED
        BY <3>1, <3>2, SpellingOfBytes
    <2> QED
      BY <2>2, <2>3 DEF Alike
  <1>9. Escaped(Bytes(payloadWords)) = again
    BY <1>3, <1>6 DEF Escaped
  <1> QED
    BY <1>3, <1>4, <1>7, <1>8, <1>9

LEMMA NumberAlike ==
    ASSUME NEW word \in Word, ParseNumber(word, MaxU64) # None
    PROVE  \E shown \in Word :
             /\ ParseNumber(word, MaxU64)[1] \in 0 .. MaxU64
             /\ shown = << Shown[ParseNumber(word, MaxU64)[1]] >> /\ Alike(shown, word)
  <1>1. /\ Len(word) = 1 /\ word[1] \in Numeral /\ Worth[word[1]] <= MaxU64
        /\ Worth[word[1]] \in Nat /\ ParseNumber(word, MaxU64)[1] = Worth[word[1]]
    BY NumberMeans DEF Some
  <1>2. PICK c : c = Shown[Worth[word[1]]]
    OBVIOUS
  <1>3. c \in Numeral /\ Spelling(c) = Spelling(word[1])
    BY <1>1, <1>2, SpellingOfNumber
  <1>4. c \in Chunk
    BY <1>3, GrammarAssumption
  <1>5. PICK shown \in Word : shown = << c >> /\ Len(shown) = 1 /\ shown[1] = c
    BY <1>4, OneChunk
  <1>6. Alike(shown, word)
    <2>1. 1 .. 1 = {1}
      OBVIOUS
    <2> QED
      BY <1>1, <1>3, <1>5, <2>1 DEF Alike
  <1>7. Worth[word[1]] \in 0 .. MaxU64
    BY <1>1, GrammarAssumption
  <1> QED
    BY <1>1, <1>2, <1>5, <1>6, <1>7

LEMMA OutputReads ==
    ASSUME NEW words \in Words, words[1] = << "%", "output" >>, Len(words) > 1
    PROVE  ReadWell(ParseOutput(Tail(words)), words)
  <1> DEFINE rest == Tail(words)
             id == Id("%", rest[1])
             bytes == IF Len(rest) = 1 THEN EmptyText ELSE Bytes(Tail(rest))
  <1> SUFFICES ASSUME ParseOutput(rest) # None
               PROVE  Faithful(ParseOutput(rest)[1], words)
    BY DEF ReadWell
  <1>1. PICK n : n = [tag |-> "output", pane |-> id[1], bytes |-> bytes]
    OBVIOUS
  <1>2. id # None /\ ParseOutput(rest)[1] = n
    BY <1>1 DEF ParseOutput, Some
  <1>3. /\ Len(words) \in Nat /\ words \in Seq(Word) /\ \A k \in 1 .. Len(words) : words[k] \in Word
        /\ rest \in Seq(Word) /\ Len(rest) = Len(words) - 1
        /\ \A k \in 1 .. Len(words) - 1 : rest[k] = words[k + 1]
    BY LineWords
  <1>4. rest[1] = words[2] /\ words[1] \in Word /\ words[2] \in Word
    <2>1. 1 \in 1 .. Len(words) - 1 /\ 1 + 1 = 2 /\ 1 \in 1 .. Len(words) /\ 2 \in 1 .. Len(words)
      BY <1>3
    <2>2. rest[1] = words[1 + 1]
      BY <1>3, <2>1
    <2> QED
      BY <1>3, <2>1, <2>2
  <1>5. PICK shown \in Word : id[1] \in WireId /\ shown = Shows("%", id[1]) /\ Alike(shown, words[2])
    BY <1>2, <1>4, IdAlike
  <1>6. PICK front \in Seq(Word) : front = << shown >> /\ Len(front) = 1 /\ front[1] = shown
    BY OneWord
  <1>7. EmptyText \in Words /\ EmptyText \in Seq(Word) /\ Len(EmptyText) = 1 /\ EmptyText[1] = << >>
    <2>1. << >> \in Word /\ Len(<< >>) = 0
      BY EmptySeq DEF Word
    <2>2. EmptyText \in Seq(Word) /\ Len(EmptyText) = 1 /\ EmptyText[1] = << >>
      BY <2>1 DEF EmptyText
    <2>3. EmptyText # << >>
      BY <2>1, <2>2, SMTT(60)
    <2> QED
      BY <2>2, <2>3 DEF Words
  <1>8. Tail(rest) \in Words \/ Len(rest) = 1
    <2>1. rest \in Words
      <3>1. Len(rest) # 0
        BY <1>3
      <3>2. Len(<< >>) = 0
        OBVIOUS
      <3> QED
        BY <1>3, <3>1, <3>2 DEF Words
    <2> QED
      <3>1. CASE Len(rest) # 1
        <4>1. Tail(rest) \in Seq(Word) /\ Len(Tail(rest)) = Len(rest) - 1 /\ Len(rest) \in Nat
              /\ Len(rest) > 0
          BY <2>1, LineWords
        <4>2. Len(Tail(rest)) # 0
          BY <3>1, <4>1
        <4>3. Len(<< >>) = 0
          OBVIOUS
        <4> QED
          BY <4>1, <4>2, <4>3 DEF Words
      <3> QED
        BY <3>1
  <1>9. bytes \in Words
    BY <1>7, <1>8, BytesAlike
  <1> HIDE DEF rest, id, bytes
  <1>10. n.tag = "output" /\ n.pane = id[1] /\ n.bytes = bytes /\ n \in Notification
    BY <1>1, <1>5, <1>9 DEF Notification
  <1>11. Arguments(n) = {front \o Escaped(bytes)}
    <2>1. Arguments(n) = {<< Shows("%", n.pane) >> \o Escaped(n.bytes)}
      BY <1>10, ArgumentsOf
    <2> QED
      BY <1>5, <1>6, <1>10, <2>1
  <1>12. CASE Len(words) = 2
    <2>1. bytes = EmptyText
      <3>1. \A m \in Nat : m = 2 => m - 1 = 1
        OBVIOUS
      <3>2. Len(rest) = 1
        BY <1>3, <1>12, <3>1, Zenon
      <3> QED
        BY <3>2 DEF bytes
    <2>2. PICK escaped \in Seq(Word) :
            escaped = Escaped(bytes) /\ Len(escaped) = 1 /\ escaped[1] = << >>
      <3>1. Encode \in [Chunk -> Chunk]
        BY GrammarAssumption
      <3>2. PICK escaped : escaped = Each(Encode, EmptyText)
        OBVIOUS
      <3>3. escaped \in Seq(Word) /\ Len(escaped) = 1 /\ escaped[1] \in Word
            /\ Len(escaped[1]) = Len(<< >>)
        <4>1. 1 \in 1 .. Len(EmptyText)
          BY <1>7
        <4> QED
          BY <1>7, <3>1, <3>2, <4>1, EachMeans
      <3>4. escaped[1] = << >>
        <4>1. Len(<< >>) = 0
          OBVIOUS
        <4>2. PICK u \in Seq(Chunk) : u = escaped[1] /\ Len(u) = 0
          BY <3>3, <4>1 DEF Word
        <4>3. u = << >>
          BY <4>2, EmptySeq
        <4> QED
          BY <4>2, <4>3
      <3> QED
        BY <2>1, <3>2, <3>3, <3>4 DEF Escaped
    <2>3. PICK arguments \in Seq(Word) :
            /\ arguments = front \o escaped /\ Len(arguments) = Len(front) + Len(escaped)
            /\ \A k \in 1 .. Len(front) : arguments[k] = front[k]
            /\ \A k \in Len(front) + 1 .. Len(arguments) : arguments[k] = escaped[k - Len(front)]
      BY FrontAndRest
    <2>4. Len(arguments) = 2 /\ arguments[1] = shown /\ arguments[2] = << >>
      <3>1. Len(arguments) = 2
        BY <1>6, <2>2, <2>3
      <3>2. 1 \in 1 .. Len(front) /\ 2 \in Len(front) + 1 .. Len(arguments) /\ 2 - Len(front) = 1
        BY <1>6, <3>1
      <3> QED
        BY <1>6, <2>2, <2>3, <3>1, <3>2
    <2>5. arguments \in Arguments(n)
      BY <1>11, <2>2, <2>3
    <2>6. PICK padded \in Seq(Word) :
            /\ padded = words \o EmptyText /\ Len(padded) = Len(words) + Len(EmptyText)
            /\ \A k \in 1 .. Len(words) : padded[k] = words[k]
            /\ \A k \in Len(words) + 1 .. Len(padded) : padded[k] = EmptyText[k - Len(words)]
      BY <1>3, <1>7, FrontAndRest
    <2>7. Len(padded) = 3 /\ padded[1] = words[1] /\ padded[2] = words[2] /\ padded[3] = << >>
      <3>1. Len(padded) = 3
        BY <1>7, <1>12, <2>6
      <3>2. 1 \in 1 .. Len(words) /\ 2 \in 1 .. Len(words) /\ 3 \in Len(words) + 1 .. Len(padded)
            /\ 3 - Len(words) = 1
        BY <1>12, <3>1
      <3> QED
        BY <1>7, <2>6, <3>1, <3>2
    <2>8. padded \in Words
      <3>1. Len(<< >>) = 0
        OBVIOUS
      <3> QED
        BY <2>6, <2>7, <3>1 DEF Words
    <2>9. /\ padded[1] = << "%", n.tag >> /\ n.tag # "unknown"
          /\ Len(arguments) <= Len(padded) - 1 /\ Len(arguments) + 1 = Len(padded)
      BY <1>10, <2>4, <2>7
    <2>10. \A k \in 1 .. Len(arguments) : Alike(arguments[k], padded[k + 1])
      <3>1. Alike(arguments[1], padded[2]) /\ Alike(arguments[2], padded[3])
        BY <1>5, <2>4, <2>7, AlikeSelf
      <3>2. 1 .. 2 = {1, 2} /\ 1 + 1 = 2 /\ 2 + 1 = 3
        OBVIOUS
      <3> QED
        BY <2>4, <3>1, <3>2
    <2>11. PICK wire \in Wires(n) :
             /\ Len(wire) = Len(arguments) + 1
             /\ Len(wire) = Len(padded) => Spelled(wire) = Spelled(padded)
      BY <2>5, <2>8, <2>9, <2>10, WritesAlike
    <2>12. Spelled(wire) = Spelled(words \o EmptyText)
      BY <2>6, <2>9, <2>11
    <2>13. Says(n, words)
      BY <1>10, <1>12, <2>12, SaysOf
    <2> QED
      BY <1>2, <1>10, <2>13 DEF Faithful
  <1>13. CASE Len(words) # 2
    <2>1. /\ Tail(rest) \in Words /\ bytes = Bytes(Tail(rest))
          /\ Len(Tail(rest)) = Len(words) - 2
          /\ \A k \in 1 .. Len(words) - 2 : Tail(rest)[k] = words[k + 2]
      <3>1. \A m \in Nat : m > 1 /\ m # 2 => m - 1 # 1 /\ m - 1 > 0
        OBVIOUS
      <3>2. Len(rest) # 1 /\ Len(rest) > 0
        BY <1>3, <1>13, <3>1, Zenon
      <3>3. rest \in Words
        <4>1. Len(<< >>) = 0
          OBVIOUS
        <4>2. rest # << >>
          BY <3>2, <4>1
        <4> QED
          BY <1>3, <4>2 DEF Words
      <3>4. Len(Tail(rest)) = Len(rest) - 1 /\ \A k \in 1 .. Len(rest) - 1 : Tail(rest)[k] = rest[k + 1]
        BY <3>3, LineWords
      <3>5. \A k \in 1 .. Len(words) - 2 : rest[k + 1] = words[k + 2]
        BY <1>3
      <3> QED
        BY <1>3, <1>8, <3>2, <3>4, <3>5 DEF bytes
    <2>2. PICK data \in Words : data = Tail(rest)
      BY <2>1
    <2>3. PICK escaped \in Seq(Word) :
            /\ escaped = Escaped(bytes) /\ Len(escaped) = Len(data)
            /\ \A w \in 1 .. Len(data) : Alike(escaped[w], data[w])
      BY <2>1, <2>2, BytesAlike
    <2>4. PICK arguments \in Seq(Word) :
            /\ arguments = front \o escaped /\ Len(arguments) = Len(front) + Len(escaped)
            /\ \A k \in 1 .. Len(front) : arguments[k] = front[k]
            /\ \A k \in Len(front) + 1 .. Len(arguments) : arguments[k] = escaped[k - Len(front)]
      BY FrontAndRest
    <2>5. arguments \in Arguments(n) /\ Len(arguments) = Len(words) - 1
      BY <1>3, <1>6, <1>11, <2>1, <2>2, <2>3, <2>4
    <2>6. ASSUME NEW k \in 1 .. Len(arguments) PROVE Alike(arguments[k], words[k + 1])
      <3>1. CASE k = 1
        BY <1>5, <1>6, <2>4, <3>1
      <3>2. CASE k # 1
        <4>1. /\ k \in Len(front) + 1 .. Len(arguments) /\ k - 1 \in 1 .. Len(words) - 2
              /\ (k - 1) + 2 = k + 1 /\ k - Len(front) = k - 1
          BY <1>3, <1>6, <2>5, <3>2
        <4>2. arguments[k] = escaped[k - 1] /\ Len(data) = Len(words) - 2
          BY <2>1, <2>2, <2>4, <4>1
        <4>3. Alike(escaped[k - 1], data[k - 1]) /\ data[k - 1] = words[k + 1]
          BY <2>1, <2>2, <2>3, <4>1, <4>2
        <4> QED
          BY <4>2, <4>3
      <3> QED
        BY <3>1, <3>2
    <2>7. Says(n, words)
      <3>1. Len(arguments) <= Len(words) - 1 /\ words[1] = << "%", n.tag >>
        BY <1>3, <1>10, <2>5
      <3>2. n.tag = "output" /\ Len(words) # 2
        BY <1>10, <1>13
      <3> QED
        BY <2>4, <2>5, <2>6, <3>1, <3>2, SaysPlainly
    <2> QED
      BY <1>2, <1>10, <2>7 DEF Faithful
  <1> QED
    BY <1>12, <1>13

LEMMA ExtendedOutputReads ==
    ASSUME NEW words \in Words, words[1] = << "%", "extended-output" >>, Len(words) > 1
    PROVE  ReadWell(ParseExtendedOutput(Tail(words)), words)
  <1> DEFINE rest == Tail(words)
             tail == Tail(rest)
             id == Id("%", rest[1])
             age == ParseNumber(tail[1], MaxU64)
             bytes == Bytes(SubSeq(tail, 3, Len(tail)))
  <1> SUFFICES ASSUME ParseExtendedOutput(rest) # None
               PROVE  Faithful(ParseExtendedOutput(rest)[1], words)
    BY DEF ReadWell
  <1>1. PICK n : n = [tag |-> "extended-output", pane |-> id[1], ms_behind |-> age[1],
                      bytes |-> bytes]
    OBVIOUS
  <1>2. /\ Len(rest) > 1 /\ id # None /\ Separators(tail) # {} /\ FirstSeparator(tail) = 2
        /\ age # None /\ ParseExtendedOutput(rest)[1] = n
    BY <1>1 DEF ParseExtendedOutput, ExtendedOutput, Some
  <1>3. /\ Len(words) \in Nat /\ words \in Seq(Word) /\ \A k \in 1 .. Len(words) : words[k] \in Word
        /\ rest \in Seq(Word) /\ Len(rest) = Len(words) - 1
        /\ \A k \in 1 .. Len(words) - 1 : rest[k] = words[k + 1]
    BY LineWords
  <1>4. rest \in Words /\ Len(rest) \in Nat
    <2>1. Len(<< >>) = 0
      OBVIOUS
    <2>2. Len(rest) # 0
      BY <1>2, <1>3
    <2>3. rest \in Words
      BY <1>3, <2>1, <2>2 DEF Words
    <2>4. Len(rest) \in Nat
      BY <1>3, <1>2
    <2> QED
      BY <2>3, <2>4
  <1>5. /\ tail \in Words /\ Len(tail) \in Nat /\ Len(tail) = Len(words) - 2
        /\ \A k \in 1 .. Len(words) - 2 : tail[k] = words[k + 2]
    <2>1. tail \in Seq(Word) /\ Len(tail) = Len(rest) - 1
          /\ \A k \in 1 .. Len(rest) - 1 : tail[k] = rest[k + 1]
      BY <1>4, LineWords
    <2>2. \A k \in 1 .. Len(words) - 2 : rest[k + 1] = words[k + 2]
      BY <1>3
    <2>3. Len(tail) # 0
      BY <1>2, <1>4, <2>1
    <2>4. Len(<< >>) = 0
      OBVIOUS
    <2>5. tail \in Words
      BY <2>1, <2>3, <2>4 DEF Words
    <2> QED
      BY <1>3, <1>4, <2>1, <2>2, <2>5
  <1> HIDE DEF rest, tail
  <1>6. 2 \in 2 .. Len(tail) - 1 /\ tail[2] = << ":" >>
    BY <1>2, <1>5, FirstSeparatorMeans
  <1>7. Len(words) >= 5
    BY <1>3, <1>5, <1>6
  <1>8. /\ rest[1] = words[2] /\ tail[1] = words[3] /\ words[4] = << ":" >>
        /\ words[1] \in Word /\ words[2] \in Word /\ words[3] \in Word /\ words[4] \in Word
    <2>1. /\ 1 \in 1 .. Len(words) - 1 /\ 1 \in 1 .. Len(words) - 2 /\ 2 \in 1 .. Len(words) - 2
          /\ 1 + 1 = 2 /\ 1 + 2 = 3 /\ 2 + 2 = 4
          /\ 1 \in 1 .. Len(words) /\ 2 \in 1 .. Len(words) /\ 3 \in 1 .. Len(words)
          /\ 4 \in 1 .. Len(words)
      BY <1>3, <1>7
    <2>2. rest[1] = words[1 + 1] /\ tail[1] = words[1 + 2] /\ tail[2] = words[2 + 2]
      BY <1>3, <1>5, <2>1
    <2> QED
      BY <1>3, <1>6, <2>1, <2>2
  <1>9. PICK pane \in Word : id[1] \in WireId /\ pane = Shows("%", id[1]) /\ Alike(pane, words[2])
    BY <1>2, <1>8, IdAlike
  <1>10. PICK shown \in Word :
           age[1] \in 0 .. MaxU64 /\ shown = << Shown[age[1]] >> /\ Alike(shown, words[3])
    BY <1>2, <1>8, NumberAlike
  <1>11. PICK data \in Words :
           /\ data = SubSeq(tail, 3, Len(tail)) /\ Len(data) = Len(words) - 4
           /\ \A k \in 1 .. Len(data) : data[k] = words[k + 4]
    <2>1. tail = Args(rest)
      BY <1>2, <1>4, ArgsMeans DEF tail
    <2>2. PICK a, b \in Nat : a = 3 /\ b = Len(tail) /\ 1 <= a /\ a <= b /\ b <= Len(rest) - 1
      BY <1>3, <1>5, <1>6
    <2>3. PICK data \in Words :
            /\ data \in Seq(Word) /\ data = SubSeq(Args(rest), a, b)
            /\ data = SubSeq(rest, a + 1, b + 1) /\ Len(data) = b - a + 1
            /\ \A k \in 1 .. Len(data) : data[k] = rest[a + k]
      BY <1>2, <1>4, <2>2, ArgsPiece, ZenonT(60)
    <2>4. Len(data) = Len(words) - 4
      BY <1>3, <1>5, <2>2, <2>3
    <2>5. ASSUME NEW k \in 1 .. Len(data) PROVE data[k] = words[k + 4]
      <3>1. a + k \in 1 .. Len(words) - 1 /\ (a + k) + 1 = k + 4
        BY <1>3, <2>2, <2>4
      <3> QED
        BY <1>3, <2>3, <3>1
    <2> QED
      BY <2>1, <2>2, <2>3, <2>4, <2>5
  <1>12. bytes \in Words /\ bytes = Bytes(data)
    BY <1>11, BytesAlike
  <1>13. PICK escaped \in Seq(Word) :
           /\ escaped = Escaped(bytes) /\ Len(escaped) = Len(data)
           /\ \A w \in 1 .. Len(data) : Alike(escaped[w], data[w])
    BY <1>12, BytesAlike
  <1> HIDE DEF id, age, bytes
  <1>14. /\ n.tag = "extended-output" /\ n.pane = id[1] /\ n.ms_behind = age[1]
         /\ n.bytes = bytes /\ n \in Notification
    BY <1>1, <1>9, <1>10, <1>12 DEF Notification
  <1>15. PICK front \in Seq(Word) :
           /\ front = << pane, shown, words[4] >> /\ Len(front) = 3
           /\ front[1] = pane /\ front[2] = shown /\ front[3] = words[4]
    <2>1. PICK last \in Word : last = words[4]
      BY <1>8
    <2>2. PICK front \in Seq(Word) :
            /\ front = << pane, shown, last >> /\ Len(front) = 3
            /\ front[1] = pane /\ front[2] = shown /\ front[3] = last
      BY ThreeWords
    <2> QED
      BY <2>1, <2>2
  <1>16. PICK arguments \in Seq(Word) :
           /\ arguments = front \o escaped /\ Len(arguments) = Len(front) + Len(escaped)
           /\ \A k \in 1 .. Len(front) : arguments[k] = front[k]
           /\ \A k \in Len(front) + 1 .. Len(arguments) : arguments[k] = escaped[k - Len(front)]
    BY FrontAndRest
  <1>17. arguments \in Arguments(n) /\ Len(arguments) = Len(words) - 1
    <2>1. Arguments(n) = {<< Shows("%", n.pane), << Shown[n.ms_behind] >>, << ":" >> >>
                            \o Escaped(n.bytes)}
      BY <1>14, ArgumentsOf
    <2>2. arguments \in Arguments(n)
      BY <1>8, <1>9, <1>10, <1>13, <1>14, <1>15, <1>16, <2>1
    <2> QED
      BY <1>3, <1>11, <1>13, <1>15, <1>16, <2>2
  <1>18. ASSUME NEW k \in 1 .. Len(arguments) PROVE Alike(arguments[k], words[k + 1])
    <2>1. CASE k = 1
      BY <1>9, <1>15, <1>16, <2>1
    <2>2. CASE k = 2
      BY <1>10, <1>15, <1>16, <2>2
    <2>3. CASE k = 3
      BY <1>15, <1>16, <2>3, AlikeSelf
    <2>4. CASE k \notin {1, 2, 3}
      <3>1. /\ k \in Len(front) + 1 .. Len(arguments) /\ k - 3 \in 1 .. Len(data)
            /\ (k - 3) + 4 = k + 1 /\ k - Len(front) = k - 3
        <4>1. k \in Nat /\ k >= 4 /\ k <= Len(words) - 1
          BY <1>3, <1>17, <2>4
        <4>2. k - 3 \in 1 .. Len(words) - 4 /\ k \in 3 + 1 .. Len(words) - 1 /\ (k - 3) + 4 = k + 1
          BY <1>3, <4>1
        <4> QED
          BY <1>11, <1>15, <1>17, <4>2
      <3>2. arguments[k] = escaped[k - 3]
        BY <1>16, <3>1
      <3>3. Alike(escaped[k - 3], data[k - 3]) /\ data[k - 3] = words[k + 1]
        BY <1>11, <1>13, <3>1
      <3> QED
        BY <3>2, <3>3
    <2> QED
      BY <2>1, <2>2, <2>3, <2>4
  <1>19. Says(n, words)
    <2>1. Len(arguments) <= Len(words) - 1 /\ words[1] = << "%", n.tag >>
      BY <1>3, <1>14, <1>17
    <2>2. Plainly(n)
      BY <1>14 DEF Plainly
    <2> QED
      BY <1>16, <1>17, <1>18, <2>1, <2>2, SaysPlainly
  <1> QED
    BY <1>2, <1>14, <1>19 DEF Faithful

----------------------------------------------------------------------------
(* Any line at all. *)
LEMMA UnknownReads ==
    ASSUME NEW words \in Words
    PROVE  Faithful(Unknown(Text(words)), words)
  <1>1. PICK n : n = Unknown(Text(words))
    OBVIOUS
  <1>2. n.tag = "unknown" /\ n.line = Text(words) /\ n = [tag |-> "unknown", line |-> Text(words)]
    BY <1>1 DEF Unknown
  <1>3. Text(words) \in Words
    BY TextMeans
  <1>4. n \in Notification
    BY <1>2, <1>3 DEF Notification
  <1>5. Says(n, words)
    BY <1>2, SaysOf
  <1> QED
    BY <1>1, <1>4, <1>5 DEF Faithful

LEMMA OrUnknownReads ==
    ASSUME NEW words \in Words, NEW parsed, ReadWell(parsed, words)
    PROVE  Faithful(OrUnknown(parsed, Text(words)), words)
  <1>1. CASE parsed = None
    BY <1>1, UnknownReads DEF OrUnknown
  <1>2. CASE parsed # None
    BY <1>2 DEF OrUnknown, ReadWell
  <1> QED
    BY <1>1, <1>2

LEMMA NothingReads == ASSUME NEW words PROVE ReadWell(None, words)
  BY DEF ReadWell

LEMMA KindReads ==
    ASSUME NEW words \in Words, NEW kind, words[1] = << "%", kind >>
    PROVE  ReadWell(ParseKind(kind, Args(words)), words)
  <1>1. CASE kind \in WindowKinds
    <2>1. ParseKind(kind, Args(words)) = FirstId(kind, "@", Args(words))
      BY <1>1, ParseKindOf
    <2> QED
      BY <1>1, <2>1, FirstIdReads
  <1>2. CASE kind \in PaneKinds
    <2>1. ParseKind(kind, Args(words)) = FirstId(kind, "%", Args(words))
      BY <1>2, ParseKindOf
    <2> QED
      BY <1>2, <2>1, FirstIdReads
  <1>3. CASE kind \in WindowNameKinds
    <2>1. ParseKind(kind, Args(words)) = IdName(kind, "@", Args(words))
      BY <1>3, ParseKindOf
    <2> QED
      BY <1>3, <2>1, IdNameReads
  <1>4. CASE kind \in SessionNameKinds
    <2>1. ParseKind(kind, Args(words)) = IdName(kind, "$", Args(words))
      BY <1>4, ParseKindOf
    <2> QED
      BY <1>4, <2>1, IdNameReads
  <1>5. CASE kind = "window-pane-changed"
    <2>1. ParseKind(kind, Args(words)) = TwoIds(kind, "@", "%", Args(words))
      BY <1>5, ParseKindOf
    <2> QED
      BY <1>5, <2>1, TwoIdsReads
  <1>6. CASE kind = "session-window-changed"
    <2>1. ParseKind(kind, Args(words)) = TwoIds(kind, "$", "@", Args(words))
      BY <1>6, ParseKindOf
    <2> QED
      BY <1>6, <2>1, TwoIdsReads
  <1>7. CASE kind = "client-session-changed"
    BY <1>7, ParseKindOf, ClientSessionReads
  <1>8. CASE kind = "sessions-changed"
    BY <1>8, ParseKindOf, SessionsChangedReads
  <1>9. CASE kind = "subscription-changed"
    BY <1>9, ParseKindOf, SubscriptionReads
  <1>10. CASE kind = "layout-change"
    BY <1>10, ParseKindOf, LayoutChangeReads
  <1>11. CASE kind = "exit"
    BY <1>11, ParseKindOf, ExitReads
  <1>12. CASE kind \notin WindowKinds \cup PaneKinds \cup WindowNameKinds \cup SessionNameKinds
                            \cup TwoIdKinds \cup OtherKinds
    BY <1>12, ParseKindOf, NothingReads
  <1> QED
    BY <1>1, <1>2, <1>3, <1>4, <1>5, <1>6, <1>7, <1>8, <1>9, <1>10, <1>11, <1>12
       DEF TwoIdKinds, OtherKinds

LEMMA TextReads ==
    ASSUME NEW text \in Words, Text(text) = text
    PROVE  Faithful(ParseNotification(text), text)
  <1>1. text[1] \in Word
    BY LineWords
  <1>2. CASE Len(text[1]) = 2 /\ text[1][1] = "%"
    <2>1. PICK word, kind : word \in Word /\ word = text[1] /\ kind = text[1][2]
      BY <1>1
    <2>2. text[1] = << "%", kind >>
      <3>1. word = << word[1], word[2] >>
        BY <1>2, <2>1, TwoChunks
      <3> QED
        BY <1>2, <2>1, <3>1
    <2>3. ReadWell(ParseKind(kind, Args(text)), text)
      BY <2>2, KindReads
    <2>4. ParseNotification(text) = OrUnknown(ParseKind(kind, Args(text)), text)
      BY <1>2, <2>1 DEF ParseNotification
    <2> QED
      BY <2>3, <2>4, OrUnknownReads
  <1>3. CASE ~(Len(text[1]) = 2 /\ text[1][1] = "%")
    BY <1>3, UnknownReads DEF ParseNotification
  <1> QED
    BY <1>2, <1>3

LEMMA OutputLineReads ==
    ASSUME NEW words \in Words, IsOutputLine(words)
    PROVE  Faithful(ParseOutputLine(words)[1], words)
  <1>1. Len(words) > 1 /\ words[1] \in {<< "%", "output" >>, << "%", "extended-output" >>}
    BY DEF IsOutputLine, OutputKinds
  <1>2. CASE words[1] = << "%", "output" >>
    <2>1. ParseOutputLine(words)[1] = OrUnknown(ParseOutput(Tail(words)), Text(words))
      BY <1>2 DEF ParseOutputLine, Some
    <2> QED
      BY <1>1, <1>2, <2>1, OutputReads, OrUnknownReads
  <1>3. CASE words[1] = << "%", "extended-output" >>
    <2>1. ParseOutputLine(words)[1] = OrUnknown(ParseExtendedOutput(Tail(words)), Text(words))
      <3>1. words[1][2] # "output"
        BY <1>3
      <3> QED
        BY <3>1 DEF ParseOutputLine, Some
    <2> QED
      BY <1>1, <1>3, <2>1, ExtendedOutputReads, OrUnknownReads
  <1> QED
    BY <1>1, <1>2, <1>3

(* Whatever the line, it is read as a notification that says what stands   *)
(* in it, or kept verbatim (parser.rs:187-394).                            *)
LEMMA ReadsAnyLine ==
    ASSUME NEW words \in Words
    PROVE  Faithful(Reading(words), IF IsOutputLine(words) THEN words ELSE Text(words))
  <1>1. CASE IsOutputLine(words)
    BY <1>1, OutputLineReads DEF Reading
  <1>2. CASE ~IsOutputLine(words)
    <2>1. PICK text \in Words : text = Text(words) /\ Text(text) = text
      BY TextMeans
    <2>2. Faithful(ParseNotification(text), text)
      BY <2>1, TextReads
    <2> QED
      BY <1>2, <2>1, <2>2 DEF Reading
  <1> QED
    BY <1>1, <1>2

----------------------------------------------------------------------------
(* The machine: the line under test is a line throughout. *)
LEMMA PieceOf ==
    ASSUME NEW words \in Seq(Word), NEW a \in Int, NEW b \in Int, 1 <= a, b <= Len(words)
    PROVE  /\ SubSeq(words, a, b) \in Seq(Word)
           /\ Len(SubSeq(words, a, b)) = IF a <= b THEN b - a + 1 ELSE 0
           /\ \A k \in 1 .. b - a + 1 : SubSeq(words, a, b)[k] = words[a + k - 1]
  <1>1. Len(words) \in Nat
    BY LenProperties
  <1>2. \A k \in a .. b : words[k] \in Word
    BY <1>1, ElementOfSeq
  <1> QED
    BY <1>2, SubSeqProperties

LEMMA ChangedLine ==
    ASSUME NEW words \in Words, NEW k \in 1 .. Len(words) + 1, NEW word \in Word
    PROVE  /\ k <= Len(words) => ReplaceAt(words, k, word) \in Words
           /\ Len(words) > 1 /\ k <= Len(words) => RemoveAt(words, k) \in Words
           /\ InsertAt(words, k, word) \in Words
  <1>1. /\ words \in Seq(Word) /\ Len(words) \in Nat /\ Len(words) > 0
        /\ DOMAIN words = 1 .. Len(words) /\ k \in Nat /\ 1 <= k
    BY LineWords
  <1>2. Len(<< >>) = 0
    OBVIOUS
  <1>3. ASSUME k <= Len(words) PROVE ReplaceAt(words, k, word) \in Words
    <2>1. PICK changed : changed = [words EXCEPT ![k] = word]
      OBVIOUS
    <2>2. changed \in Seq(Word) /\ Len(changed) = Len(words)
      <3>1. k \in 1 .. Len(words)
        BY <1>1, <1>3
      <3> QED
        BY <1>1, <2>1, <3>1, ExceptSeq
    <2>3. Len(changed) # 0
      BY <1>1, <2>2
    <2> QED
      BY <1>2, <2>1, <2>2, <2>3 DEF ReplaceAt, Words
  <1>4. PICK before \in Seq(Word) : before = SubSeq(words, 1, k - 1) /\ Len(before) = k - 1
    <2>1. k - 1 \in Int /\ k - 1 <= Len(words) /\ 1 <= k
      BY <1>1
    <2>2. SubSeq(words, 1, k - 1) \in Seq(Word)
          /\ Len(SubSeq(words, 1, k - 1)) = IF 1 <= k - 1 THEN k - 1 - 1 + 1 ELSE 0
      BY <1>1, <2>1, PieceOf
    <2>3. (IF 1 <= k - 1 THEN k - 1 - 1 + 1 ELSE 0) = k - 1
      BY <1>1
    <2> QED
      BY <2>2, <2>3
  <1>5. ASSUME Len(words) > 1, k <= Len(words) PROVE RemoveAt(words, k) \in Words
    <2>1. PICK after \in Seq(Word) :
            after = SubSeq(words, k + 1, Len(words)) /\ Len(after) = Len(words) - k
      <3>1. 1 <= k + 1 /\ Len(words) <= Len(words) /\ k + 1 \in Int /\ Len(words) \in Int
        BY <1>1
      <3>2. SubSeq(words, k + 1, Len(words)) \in Seq(Word)
            /\ Len(SubSeq(words, k + 1, Len(words)))
                 = IF k + 1 <= Len(words) THEN Len(words) - (k + 1) + 1 ELSE 0
        BY <1>1, <3>1, PieceOf
      <3>3. \A l, j \in Nat : j <= l => (IF j + 1 <= l THEN l - (j + 1) + 1 ELSE 0) = l - j
        OBVIOUS
      <3>4. (IF k + 1 <= Len(words) THEN Len(words) - (k + 1) + 1 ELSE 0) = Len(words) - k
        BY <1>1, <1>5, <3>3, Zenon
      <3> QED
        BY <3>2, <3>4
    <2>2. PICK changed \in Seq(Word) :
            changed = before \o after /\ Len(changed) = Len(before) + Len(after)
      BY FrontAndRest
    <2>3. Len(changed) # 0
      <3>1. \A l, j \in Nat : l > 1 => (j - 1) + (l - j) # 0
        OBVIOUS
      <3>2. Len(changed) = (k - 1) + (Len(words) - k)
        BY <1>4, <2>1, <2>2, Zenon
      <3> QED
        BY <1>1, <1>5, <3>1, <3>2, Zenon
    <2> QED
      BY <1>2, <1>4, <2>1, <2>2, <2>3 DEF RemoveAt, Words
  <1>6. InsertAt(words, k, word) \in Words
    <2>1. PICK after \in Seq(Word) : after = SubSeq(words, k, Len(words)) /\ Len(after) \in Nat
      <3>1. 1 <= k /\ Len(words) <= Len(words) /\ k \in Int /\ Len(words) \in Int
        BY <1>1
      <3>2. SubSeq(words, k, Len(words)) \in Seq(Word)
        BY <1>1, <3>1, PieceOf
      <3> QED
        BY <3>2, LenProperties
    <2>2. PICK one \in Seq(Word) : one = << word >> /\ Len(one) = 1
      BY OneWord
    <2>3. PICK front \in Seq(Word) : front = before \o one /\ Len(front) = Len(before) + Len(one)
      BY <1>4, <2>2, FrontAndRest, ZenonT(60)
    <2>4. PICK changed \in Seq(Word) :
            changed = front \o after /\ Len(changed) = Len(front) + Len(after)
      BY <2>1, <2>3, FrontAndRest
    <2>5. Len(changed) # 0
      <3>1. \A l, j \in Nat : 1 <= j => ((j - 1) + 1) + l # 0
        OBVIOUS
      <3>2. Len(changed) = ((k - 1) + 1) + Len(after)
        BY <1>4, <2>2, <2>3, <2>4, Zenon
      <3> QED
        BY <1>1, <2>1, <3>1, <3>2, Zenon
    <2> QED
      BY <1>2, <1>4, <2>1, <2>2, <2>3, <2>4, <2>5 DEF InsertAt, Words
  <1> QED
    BY <1>3, <1>5, <1>6

LEMMA KeywordWord ==
    ASSUME NEW a \in Keyword, NEW b \in Keyword
    PROVE  << a, b >> \in Word
  <1>1. a \in Chunk /\ b \in Chunk
    BY MessagesAssumption
  <1>2. << a, b >> \in Seq(Chunk)
    BY <1>1
  <1> QED
    BY <1>2 DEF Word

LEMMA ShowsWord ==
    ASSUME NEW sigil \in {"%", "@", "$"}, NEW id \in WireId
    PROVE  Shows(sigil, id) \in Word
  <1>1. Shown[id] \in Chunk /\ sigil \in Chunk
    <2>1. id \in 0 .. MaxU64
      BY GrammarAssumption DEF WireId
    <2>2. Shown[id] \in Numeral /\ sigil \in Keyword
      BY <2>1, GrammarAssumption DEF Keyword
    <2> QED
      BY <2>2, GrammarAssumption, MessagesAssumption
  <1>2. << sigil, Shown[id] >> \in Seq(Chunk)
    BY <1>1
  <1> QED
    BY <1>2 DEF Shows, Word

LEMMA NumberWord ==
    ASSUME NEW n \in 0 .. MaxU64
    PROVE  << Shown[n] >> \in Word
  <1>1. Shown[n] \in Chunk
    BY GrammarAssumption
  <1>2. << Shown[n] >> \in Seq(Chunk)
    BY <1>1
  <1> QED
    BY <1>2 DEF Word

LEMMA FlagWordType ==
    ASSUME NEW flags \in FlagSet, flags.set \subseteq Chunk
    PROVE  FlagWord(flags) \in Word
  <1> DEFINE Mark(c) == IF c \in flags.set THEN << c >> ELSE << >>
  <1>1. ASSUME NEW c PROVE Mark(c) \in Seq(Chunk)
    <2>1. CASE c \in flags.set
      <3>1. << c >> \in Seq(Chunk)
        BY <2>1
      <3> QED
        BY <2>1, <3>1
    <2>2. CASE c \notin flags.set
      BY <2>2, EmptySeq
    <2> QED
      BY <2>1, <2>2
  <1>2. \A s, t \in Seq(Chunk) : s \o t \in Seq(Chunk)
    BY ConcatProperties
  <1>3. flags.unknown \in Seq(Chunk)
    BY DEF FlagSet, Word
  <1>4. FlagWord(flags)
          = Mark("#") \o Mark("!") \o Mark("~") \o Mark("*") \o Mark("-") \o Mark("M") \o Mark("Z")
              \o flags.unknown
    BY DEF FlagWord
  <1> HIDE DEF Mark
  <1>5. PICK a, b, c, d, e, f, g \in Seq(Chunk) :
          /\ a = Mark("#") /\ b = Mark("!") /\ c = Mark("~") /\ d = Mark("*")
          /\ e = Mark("-") /\ f = Mark("M") /\ g = Mark("Z")
    BY <1>1
  <1>6. a \o b \o c \o d \in Seq(Chunk)
    BY <1>2, <1>5
  <1>7. a \o b \o c \o d \o e \o f \o g \in Seq(Chunk)
    BY <1>2, <1>5, <1>6
  <1> QED
    BY <1>2, <1>3, <1>4, <1>5, <1>7 DEF Word

LEMMA ArgumentsType ==
    ASSUME NEW message \in Messages, message.tag # "unknown"
    PROVE  Arguments(message) \subseteq Seq(Word)
  <1>1. message \in Message /\ Reportable(message)
    BY MessagesAssumption
  <1>2. \A s, t \in Seq(Word) : s \o t \in Seq(Word)
    BY ConcatProperties
  <1>3. \A line \in Words : line \in Seq(Word)
    BY DEF Words
  <1>4. MaxU32 \in Nat /\ MaxU64 \in Nat /\ MaxU32 <= MaxU64
    BY GrammarAssumption
  <1>5. \A u \in Word : << u >> \in Seq(Word)
    OBVIOUS
  <1>6. \A u, v \in Word : << u, v >> \in Seq(Word)
    OBVIOUS
  <1>7. \A u, v, w \in Word : << u, v, w >> \in Seq(Word)
    OBVIOUS
  <1>8. << ":" >> \in Word /\ << "time" >> \in Word
    <2>1. ":" \in Chunk /\ "time" \in Chunk
      BY MessagesAssumption DEF Keyword
    <2>2. << ":" >> \in Seq(Chunk) /\ << "time" >> \in Seq(Chunk)
      BY <2>1
    <2> QED
      BY <2>2 DEF Word
  <1>9. \A bytes \in Words : Escaped(bytes) \in Seq(Word)
    BY <1>3, EachLine, GrammarAssumption DEF Escaped
  <1>10. CASE message \in [tag : GuardKind, number : 0 .. MaxU64, flags : 0 .. MaxU32]
    <2>1. << Shown[message.number] >> \in Word /\ << Shown[message.flags] >> \in Word
      BY <1>4, <1>10, NumberWord
    <2>2. PICK u, v, w \in Word :
            u = << "time" >> /\ v = << Shown[message.number] >> /\ w = << Shown[message.flags] >>
      BY <1>8, <2>1
    <2>3. << u, v, w >> \in Seq(Word)
      BY <1>7
    <2>4. Arguments(message) = {<< u, v, w >>}
      BY <1>10, <2>2, ArgumentsOf
    <2> QED
      BY <2>3, <2>4
  <1>11. CASE message \in [tag : {"output"}, pane : WireId, bytes : Words]
    <2>1. PICK u \in Word, s \in Seq(Word) : u = Shows("%", message.pane) /\ s = Escaped(message.bytes)
      BY <1>9, <1>11, ShowsWord
    <2>2. << u >> \o s \in Seq(Word)
      BY <1>2, <1>5
    <2>3. Arguments(message) = {<< u >> \o s}
      BY <1>11, <2>1, ArgumentsOf
    <2> QED
      BY <2>2, <2>3
  <1>12. CASE message \in [tag : {"extended-output"}, pane : WireId, ms_behind : 0 .. MaxU64,
                           bytes : Words]
    <2>1. PICK u, v, w \in Word, s \in Seq(Word) :
            /\ u = Shows("%", message.pane) /\ v = << Shown[message.ms_behind] >>
            /\ w = << ":" >> /\ s = Escaped(message.bytes)
      BY <1>8, <1>9, <1>12, ShowsWord, NumberWord
    <2>2. << u, v, w >> \o s \in Seq(Word)
      BY <1>2, <1>7
    <2>3. Arguments(message) = {<< u, v, w >> \o s}
      BY <1>12, <2>1, ArgumentsOf
    <2> QED
      BY <2>2, <2>3
  <1>13. CASE message \in [tag : WindowKinds \cup PaneKinds, id : WireId]
    <2>1. PICK u, v \in Word : u = Shows("@", message.id) /\ v = Shows("%", message.id)
      BY <1>13, ShowsWord
    <2>2. Arguments(message) = {<< u >>} \/ Arguments(message) = {<< v >>}
      <3>1. CASE message.tag \in WindowKinds
        BY <2>1, <3>1, ArgumentsOf
      <3>2. CASE message.tag \in PaneKinds
        BY <2>1, <3>2, ArgumentsOf
      <3> QED
        BY <1>13, <3>1, <3>2
    <2> QED
      BY <1>5, <2>1, <2>2
  <1>14. CASE message \in [tag : WindowNameKinds \cup SessionNameKinds, id : WireId, name : Words]
    <2>1. PICK u, v \in Word, s \in Seq(Word) :
            u = Shows("@", message.id) /\ v = Shows("$", message.id) /\ s = message.name
      BY <1>3, <1>14, ShowsWord
    <2>2. Arguments(message) = {<< u >> \o s} \/ Arguments(message) = {<< v >> \o s}
      <3>1. CASE message.tag \in WindowNameKinds
        BY <2>1, <3>1, ArgumentsOf
      <3>2. CASE message.tag \in SessionNameKinds
        BY <2>1, <3>2, ArgumentsOf
      <3> QED
        BY <1>14, <3>1, <3>2
    <2>3. << u >> \in Seq(Word) /\ << v >> \in Seq(Word)
      BY <1>5
    <2>4. << u >> \o s \in Seq(Word) /\ << v >> \o s \in Seq(Word)
      BY <1>2, <2>3
    <2> QED
      BY <2>2, <2>4
  <1>15. CASE message \in [tag : TwoIdKinds, first : WireId, second : WireId]
    <2>1. PICK t, u, v, w \in Word :
            /\ t = Shows("@", message.first) /\ u = Shows("%", message.second)
            /\ v = Shows("$", message.first) /\ w = Shows("@", message.second)
      BY <1>15, ShowsWord
    <2>2. Arguments(message) = {<< t, u >>} \/ Arguments(message) = {<< v, w >>}
      <3>1. CASE message.tag = "window-pane-changed"
        BY <2>1, <3>1, ArgumentsOf
      <3>2. CASE message.tag = "session-window-changed"
        BY <2>1, <3>2, ArgumentsOf
      <3> QED
        BY <1>15, <3>1, <3>2 DEF TwoIdKinds
    <2> QED
      BY <1>6, <2>1, <2>2
  <1>16. CASE message \in [tag : {"client-session-changed"}, client : Word, session : WireId,
                           name : Words]
    <2>1. PICK u, v \in Word, s \in Seq(Word) :
            u = message.client /\ v = Shows("$", message.session) /\ s = message.name
      BY <1>3, <1>16, ShowsWord
    <2>2. Arguments(message) = {<< u, v >> \o s}
      BY <1>16, <2>1, ArgumentsOf
    <2> QED
      BY <1>2, <1>6, <2>2
  <1>17. CASE message \in [tag : {"sessions-changed"}]
    <2>1. Arguments(message) = {<< >>}
      BY <1>17, ArgumentsOf
    <2> QED
      BY <2>1, EmptySeq
  <1>18. CASE message \in [tag : {"subscription-changed"}, name : Word, value : Words]
    <2>1. PICK u, v \in Word, s \in Seq(Word) :
            u = message.name /\ v = << ":" >> /\ s = message.value
      BY <1>3, <1>8, <1>18
    <2>2. Arguments(message)
            = {<< message.name >> \o header \o << << ":" >> >> \o message.value :
                 header \in SubscriptionHeader}
      <3>1. message.tag = "subscription-changed"
        BY <1>18
      <3> QED
        BY <3>1, ArgumentsOf, ZenonT(60)
    <2>3. ASSUME NEW header \in SubscriptionHeader
          PROVE  << u >> \o header \o << v >> \o s \in Seq(Word)
      <3>1. header \in Seq(Word)
        BY <1>3, MessagesAssumption
      <3>2. << u >> \o header \in Seq(Word)
        BY <1>2, <1>5, <3>1
      <3>3. << u >> \o header \o << v >> \in Seq(Word)
        BY <1>2, <1>5, <3>2
      <3> QED
        BY <1>2, <2>1, <3>3
    <2> QED
      BY <2>1, <2>2, <2>3
  <1>19. CASE message \in [tag : {"layout-change"}, window : WireId, layout : LayoutText,
                           visible : Option(LayoutText),
                           flags : Option([set : SUBSET KnownFlag, unknown : Word])]
    <2>1. LayoutText \subseteq Chunk
      BY GrammarAssumption
    <2>2. << message.layout >> \in Word
      <3>1. << message.layout >> \in Seq(Chunk)
        BY <1>19, <2>1
      <3> QED
        BY <3>1 DEF Word
    <2>3. message.visible \in Word
      <3>1. message.visible \in Seq(LayoutText)
        BY <1>19 DEF Option
      <3>2. message.visible \in Seq(Chunk)
        BY <2>1, <3>1
      <3> QED
        BY <3>2 DEF Word
    <2>4. message.flags # None => FlagWord(message.flags[1]) \in Word
      <3>1. SUFFICES ASSUME message.flags # None PROVE FlagWord(message.flags[1]) \in Word
        OBVIOUS
      <3>2. message.flags \in Seq(FlagSet)
        BY <1>19 DEF Option, FlagSet
      <3>3. message.flags[1] \in FlagSet
        <4>1. PICK s \in Seq(FlagSet) : s = message.flags /\ s # << >>
          BY <3>1, <3>2 DEF None
        <4>2. Len(s) \in Nat /\ Len(s) # 0
          BY <4>1, EmptySeq, LenProperties
        <4>3. 1 \in 1 .. Len(s)
          BY <4>2
        <4> QED
          BY <4>1, <4>3, ElementOfSeq
      <3>4. message.flags[1].set \subseteq Chunk
        BY <1>1, <1>19, <3>1 DEF Reportable
      <3> QED
        BY <3>3, <3>4, FlagWordType
    <2>5. PICK u, v \in Word : u = Shows("@", message.window) /\ v = << message.layout >>
      BY <1>19, <2>2, ShowsWord
    <2>6. PICK s, t \in Seq(Word) :
            /\ s = IF message.visible = None THEN << >> ELSE << message.visible >>
            /\ t = IF message.flags = None THEN << >> ELSE << FlagWord(message.flags[1]) >>
      <3>1. << >> \in Seq(Word)
        BY EmptySeq
      <3>2. << message.visible >> \in Seq(Word)
        BY <1>5, <2>3
      <3>3. message.flags # None => << FlagWord(message.flags[1]) >> \in Seq(Word)
        BY <1>5, <2>4
      <3> QED
        BY <3>1, <3>2, <3>3
    <2>7. << u, v >> \o s \o t \in Seq(Word)
      <3>1. << u, v >> \o s \in Seq(Word)
        BY <1>2, <1>6, <2>6
      <3> QED
        BY <1>2, <2>6, <3>1
    <2>8. Arguments(message) = {<< u, v >> \o s \o t}
      BY <1>19, <2>5, <2>6, ArgumentsOf
    <2> QED
      BY <2>7, <2>8
  <1>20. CASE message \in [tag : {"exit"}, reason : Option(Words)]
    <2>1. Arguments(message) = {IF message.reason = None THEN << >> ELSE message.reason[1]}
      BY <1>20, ArgumentsOf
    <2>2. message.reason # None => message.reason[1] \in Words
      <3>1. SUFFICES ASSUME message.reason # None PROVE message.reason[1] \in Words
        OBVIOUS
      <3>2. PICK s \in Seq(Words) : s = message.reason /\ s # << >>
        BY <1>20, <3>1 DEF Option, None
      <3>3. Len(s) \in Nat /\ Len(s) # 0
        BY <3>2, EmptySeq, LenProperties
      <3>4. 1 \in 1 .. Len(s)
        BY <3>3
      <3> QED
        BY <3>2, <3>4, ElementOfSeq
    <2>3. << >> \in Seq(Word)
      BY EmptySeq
    <2> QED
      BY <1>3, <2>1, <2>2, <2>3
  <1> QED
    <2>1. ~(message \in [tag : {"unknown"}, line : Words])
      OBVIOUS
    <2> QED
      BY <1>1, <1>10, <1>11, <1>12, <1>13, <1>14, <1>15, <1>16, <1>17, <1>18, <1>19, <1>20, <2>1
         DEF Message, Notification

LEMMA WiresAreLines ==
    ASSUME NEW message \in Messages
    PROVE  Wires(message) \subseteq Words
  <1>1. message \in Message /\ Reportable(message)
    BY MessagesAssumption
  <1>2. CASE message.tag = "unknown"
    <2>1. message \in [tag : {"unknown"}, line : Words]
      BY <1>1, <1>2 DEF Message, Notification, GuardKind, WindowKinds, PaneKinds,
                        WindowNameKinds, SessionNameKinds, TwoIdKinds
    <2> QED
      BY <1>2, <2>1 DEF Wires
  <1>3. CASE message.tag # "unknown"
    <2>1. message.tag \in Keyword
      BY <1>1, <1>3 DEF Message, Notification, Keyword, OutputKinds, OtherKinds
    <2>2. << "%", message.tag >> \in Word
      BY <2>1, KeywordWord DEF Keyword
    <2>3. Arguments(message) \subseteq Seq(Word)
      BY <1>3, ArgumentsType
    <2>4. ASSUME NEW arguments \in Arguments(message)
          PROVE  << << "%", message.tag >> >> \o arguments \in Words
      <3>1. PICK t : t = message.tag
        OBVIOUS
      <3>2. << "%", t >> \in Word /\ arguments \in Seq(Word)
        BY <2>2, <2>3, <2>4, <3>1
      <3>3. PICK wire \in Seq(Word) :
              wire = << << "%", t >> >> \o arguments /\ Len(wire) = Len(arguments) + 1
        BY <3>2, WireLine
      <3>4. Len(arguments) \in Nat
        BY <3>2, LenProperties
      <3>5. wire # << >>
        BY <3>3, <3>4, EmptySeq
      <3> QED
        BY <3>1, <3>3, <3>5 DEF Words
    <2> QED
      BY <1>3, <2>4 DEF Wires
  <1> QED
    BY <1>2, <1>3

(* What is told and heard, without what it is read as. *)
Heard == /\ told \in Messages
         /\ heard \in Words
         /\ changes \in 0 .. MaxChanges(told)

LEMMA HeardInitially == GrammarInit => Heard
  <1> SUFFICES ASSUME GrammarInit PROVE Heard
    OBVIOUS
  <1>1. told \in Messages /\ heard \in Wires(told) /\ changes = 0
    BY DEF GrammarInit
  <1>2. heard \in Words
    BY <1>1, WiresAreLines
  <1>3. MaxChanges(told) \in Nat
    BY <1>1, GrammarAssumption
  <1> QED
    BY <1>1, <1>2, <1>3 DEF Heard

LEMMA HeardNext == Heard /\ [GrammarNext]_grammarVars => Heard'
  <1> SUFFICES ASSUME Heard, [GrammarNext]_grammarVars PROVE Heard'
    OBVIOUS
  <1>1. told \in Messages /\ heard \in Words /\ changes \in 0 .. MaxChanges(told)
    BY DEF Heard
  <1>2. MaxChanges(told) \in Nat
    BY <1>1, GrammarAssumption
  <1>3. Len(heard) \in Nat /\ DOMAIN heard = 1 .. Len(heard)
    BY <1>1, LineWords
  <1>4. ASSUME NEW words \in Words, Change(words) PROVE Heard'
    <2>1. changes < MaxChanges(told) /\ heard' = words /\ changes' = changes + 1 /\ told' = told
      BY <1>4 DEF Change
    <2>2. changes + 1 \in 0 .. MaxChanges(told)
      BY <1>1, <1>2, <2>1
    <2>3. changes' \in 0 .. MaxChanges(told)
      BY <2>1, <2>2
    <2> QED
      BY <1>1, <1>4, <2>1, <2>3 DEF Heard
  <1>5. \A word \in ChangedWord : word \in Word
    BY GrammarAssumption
  <1>6. CASE ReplaceWord
    <2>1. PICK k \in DOMAIN heard, word \in ChangedWord : Change(ReplaceAt(heard, k, word))
      BY <1>6 DEF ReplaceWord
    <2>2. k \in 1 .. Len(heard) + 1 /\ k <= Len(heard)
      BY <1>3, <2>1
    <2>3. ReplaceAt(heard, k, word) \in Words
      BY <1>1, <1>5, <2>1, <2>2, ChangedLine
    <2> QED
      BY <1>4, <2>1, <2>3
  <1>7. CASE DropWord
    <2>1. Len(heard) > 1
      BY <1>7 DEF DropWord
    <2>2. PICK k \in DOMAIN heard : Change(RemoveAt(heard, k))
      BY <1>7 DEF DropWord
    <2>3. k \in 1 .. Len(heard) + 1 /\ k <= Len(heard)
      BY <1>3, <2>2
    <2>4. << >> \in Word
      BY EmptySeq DEF Word
    <2>5. RemoveAt(heard, k) \in Words
      BY <1>1, <2>1, <2>3, <2>4, ChangedLine
    <2> QED
      BY <1>4, <2>2, <2>5
  <1>8. CASE InsertWord
    <2>1. PICK k \in 1 .. Len(heard) + 1, word \in ChangedWord : Change(InsertAt(heard, k, word))
      BY <1>8 DEF InsertWord
    <2>2. InsertAt(heard, k, word) \in Words
      BY <1>1, <1>5, <2>1, ChangedLine
    <2> QED
      BY <1>4, <2>1, <2>2
  <1>9. CASE UNCHANGED grammarVars
    BY <1>9 DEF Heard, grammarVars
  <1> QED
    BY <1>6, <1>7, <1>8, <1>9 DEF GrammarNext

(* What is told, heard and counted has its type, and whatever is heard is  *)
(* read as a well-formed notification (parser.rs:187-394).                 *)
THEOREM GrammarTypeCorrect == GrammarSpec => []GrammarTypeOK
  <1>1. Heard => GrammarTypeOK
    BY ReadsAnyLine DEF Heard, GrammarTypeOK, Faithful
  <1> QED
    BY <1>1, HeardInitially, HeardNext, PTL DEF GrammarSpec

(* Of no line is anything lost or made up: it is kept verbatim, or what it *)
(* is read as, written out again, is the line (notification.rs:8-10,       *)
(* 92-95).                                                                 *)
THEOREM NothingEverLostOrMadeUp == GrammarSpec => []NothingLostOrMadeUp
  <1>1. Heard => NothingLostOrMadeUp
    BY ReadsAnyLine DEF Heard, NothingLostOrMadeUp, Faithful
  <1> QED
    BY <1>1, HeardInitially, HeardNext, PTL DEF GrammarSpec

----------------------------------------------------------------------------
(* The framing: every line, seen as module Parser sees it, and any block   *)
(* in progress.                                                            *)
Block == [number : 0 .. MaxU64, control : BOOLEAN, output : Seq(Words)]
Content == {Framed(words) : words \in Words}

(* A line is blank, a guard or content, and what is kept of it is too.     *)
LEMMA FramedMeans ==
    ASSUME NEW words \in Words
    PROVE  /\ Framed(Text(words)) = Framed(words)
           /\ \/ /\ Text(words) = EmptyText /\ ParseGuard(Text(words)) = None
                 /\ ~IsOutputLine(words) /\ Framed(words) = Framing!Blank
              \/ /\ Text(words) # EmptyText /\ ParseGuard(Text(words)) # None
                 /\ ~IsOutputLine(words)
                 /\ Framed(words) = ParseGuard(Text(words))[1]
                 /\ Framed(words) \in Framing!Guard
              \/ /\ Text(words) # EmptyText /\ ParseGuard(Text(words)) = None
                 /\ Framed(words).kind \in {"output", "text"}
  <1>1. PICK text \in Words :
          /\ text = Text(words) /\ Text(text) = text
          /\ IsOutputLine(text) <=> IsOutputLine(words)
    BY TextMeans
  <1>2. PICK guard : guard = ParseGuard(text)
    OBVIOUS
  <1>3. \/ guard = None
        \/ /\ guard # None /\ guard[1] \in Framing!Guard
           /\ text # EmptyText /\ ~IsOutputLine(text)
    BY <1>1, <1>2, GuardMeans
  <1>4. CASE text = EmptyText
    <2>1. guard = None
      BY <1>3, <1>4
    <2>2. ~IsOutputLine(text)
      <3>1. Len(EmptyText) = 1
        BY DEF EmptyText
      <3> QED
        BY <1>4, <3>1 DEF IsOutputLine
    <2>3. Framed(words) = Framing!Blank /\ Framed(text) = Framing!Blank
      BY <1>1, <1>2, <1>4, <2>1 DEF Framed
    <2> QED
      BY <1>1, <1>2, <1>4, <2>1, <2>2, <2>3
  <1>5. CASE text # EmptyText /\ guard # None
    <2>1. Framed(words) = guard[1] /\ Framed(text) = guard[1]
      BY <1>1, <1>2, <1>5 DEF Framed
    <2> QED
      BY <1>1, <1>2, <1>3, <1>5, <2>1
  <1>6. CASE text # EmptyText /\ guard = None
    <2>1. Framed(words) = [kind |-> IF IsOutputLine(words) THEN "output" ELSE "text",
                           body |-> text]
      BY <1>1, <1>2, <1>6 DEF Framed
    <2>2. Framed(text) = [kind |-> IF IsOutputLine(text) THEN "output" ELSE "text",
                          body |-> text]
      BY <1>1, <1>2, <1>6 DEF Framed
    <2>3. Framed(text) = Framed(words)
      <3>1. CASE IsOutputLine(words)
        BY <1>1, <2>1, <2>2, <3>1
      <3>2. CASE ~IsOutputLine(words)
        BY <1>1, <2>1, <2>2, <3>2
      <3> QED
        BY <3>1, <3>2
    <2>4. Framed(words).kind \in {"output", "text"}
      BY <2>1
    <2> QED
      BY <1>1, <1>2, <1>6, <2>3, <2>4
  <1> QED
    BY <1>4, <1>5, <1>6

LEMMA BlockWithLine ==
    ASSUME NEW block, NEW line,
           block = [number |-> block.number, control |-> block.control, output |-> block.output]
    PROVE  [block EXCEPT !.output = Append(@, line)]
             = [number |-> block.number, control |-> block.control,
                output |-> Append(block.output, line)]
  <1>1. PICK number, control, output, lines :
          /\ number = block.number /\ control = block.control /\ output = block.output
          /\ lines = Append(block.output, line)
    OBVIOUS
  <1>2. block = [number |-> number, control |-> control, output |-> output]
    BY <1>1
  <1>3. [block EXCEPT !.output = lines]
          = [number |-> number, control |-> control, output |-> lines]
    BY <1>2
  <1> QED
    BY <1>1, <1>3

LEMMA AppendedFramed ==
    ASSUME NEW block \in Block, NEW text \in Words
    PROVE  FramedBlock([block EXCEPT !.output = Append(@, text)])
             = [FramedBlock(block) EXCEPT !.output = Append(@, Framed(text))]
  <1>1. PICK lines \in Seq(Words) : lines = block.output
    BY DEF Block
  <1>2. PICK longer \in Seq(Words) :
          /\ longer = Append(lines, text) /\ Len(longer) = Len(lines) + 1
          /\ \A k \in 1 .. Len(lines) : longer[k] = lines[k]
          /\ longer[Len(lines) + 1] = text
    BY AppendProperties
  <1>3. /\ Len(lines) \in Nat /\ DOMAIN lines = 1 .. Len(lines)
        /\ DOMAIN longer = 1 .. Len(lines) + 1
    BY <1>2, LenProperties
  <1>4. /\ \A k \in 1 .. Len(lines) : lines[k] \in Words
        /\ \A k \in 1 .. Len(lines) + 1 : longer[k] \in Words
    BY <1>2, <1>3, ElementOfSeq
  <1>5. PICK framed : framed = [k \in DOMAIN lines |-> Framed(lines[k])]
    OBVIOUS
  <1>6. PICK extended : extended = [k \in DOMAIN longer |-> Framed(longer[k])]
    OBVIOUS
  <1>7. framed \in Seq(Content) /\ Len(framed) = Len(lines)
    BY <1>3, <1>4, <1>5 DEF Content
  <1>8. extended \in Seq(Content) /\ Len(extended) = Len(lines) + 1
    BY <1>3, <1>4, <1>6 DEF Content
  <1>9. Framed(text) \in Content
    BY DEF Content
  <1>10. PICK appended \in Seq(Content) :
           /\ appended = Append(framed, Framed(text)) /\ Len(appended) = Len(framed) + 1
           /\ \A k \in 1 .. Len(framed) : appended[k] = framed[k]
           /\ appended[Len(framed) + 1] = Framed(text)
    BY <1>7, <1>9, AppendProperties, ZenonT(60)
  <1>11. ASSUME NEW k \in 1 .. Len(lines) + 1 PROVE extended[k] = appended[k]
    <2>1. CASE k = Len(lines) + 1
      BY <1>2, <1>3, <1>6, <1>7, <1>10, <2>1
    <2>2. CASE k # Len(lines) + 1
      <3>1. k \in 1 .. Len(lines)
        BY <1>3, <2>2
      <3>2. extended[k] = Framed(longer[k]) /\ framed[k] = Framed(lines[k])
        BY <1>3, <1>5, <1>6, <3>1
      <3> QED
        BY <1>2, <1>7, <1>10, <3>1, <3>2
    <2> QED
      BY <2>1, <2>2
  <1>12. extended = appended
    BY <1>7, <1>8, <1>10, <1>11, SeqEqual
  <1>13. PICK before : before = [number |-> block.number, control |-> block.control,
                                output |-> lines]
    OBVIOUS
  <1>14. PICK after : after = [number |-> block.number, control |-> block.control,
                               output |-> longer]
    OBVIOUS
  <1>15. before = block /\ after = [block EXCEPT !.output = Append(@, text)]
    <2>1. block = [number |-> block.number, control |-> block.control, output |-> lines]
      BY <1>1 DEF Block
    <2>2. before = block
      BY <1>13, <2>1
    <2>3. [block EXCEPT !.output = Append(@, text)]
            = [number |-> block.number, control |-> block.control,
               output |-> Append(block.output, text)]
      <3>1. block = [number |-> block.number, control |-> block.control, output |-> block.output]
        BY <1>1, <2>1
      <3> QED
        BY <3>1, BlockWithLine
    <2> QED
      BY <1>1, <1>2, <1>14, <2>2, <2>3
  <1>16. FramedBlock(before) = [before EXCEPT !.output = framed]
    <2>1. before.output = lines
      BY <1>13
    <2> QED
      BY <1>5, <2>1 DEF FramedBlock
  <1>17. FramedBlock(after) = [after EXCEPT !.output = extended]
    <2>1. after.output = longer
      BY <1>14
    <2> QED
      BY <1>6, <2>1 DEF FramedBlock
  <1>18. [FramedBlock(before) EXCEPT !.output = Append(@, Framed(text))]
           = [number |-> block.number, control |-> block.control, output |-> appended]
    <2>1. FramedBlock(before)
            = [number |-> block.number, control |-> block.control, output |-> framed]
      BY <1>13, <1>16
    <2>2. PICK b : b = FramedBlock(before)
      OBVIOUS
    <2>3. /\ b.number = block.number /\ b.control = block.control /\ b.output = framed
          /\ b = [number |-> b.number, control |-> b.control, output |-> b.output]
      BY <2>1, <2>2
    <2>4. [b EXCEPT !.output = Append(@, Framed(text))]
            = [number |-> b.number, control |-> b.control,
               output |-> Append(b.output, Framed(text))]
      BY <2>3, BlockWithLine
    <2> QED
      BY <1>10, <2>2, <2>3, <2>4
  <1>19. FramedBlock(after)
           = [number |-> block.number, control |-> block.control, output |-> extended]
    BY <1>14, <1>17
  <1> QED
    BY <1>12, <1>15, <1>18, <1>19

LEMMA OpenedFramed ==
    ASSUME NEW guard \in Framing!Guard
    PROVE  FramedBlock(Framing!OpenBlock(guard)) = Framing!OpenBlock(guard)
  <1>1. [k \in DOMAIN << >> |-> Framed(<< >>[k])] = << >>
    OBVIOUS
  <1> QED
    BY <1>1 DEF FramedBlock, Framing!OpenBlock

LEMMA ClosedFramed ==
    ASSUME NEW block \in Block, NEW error \in BOOLEAN
    PROVE  /\ Framing!CloseBlock(block, error).type = "reply"
           /\ Framing!CloseBlock(FramedBlock(block), error)
                = [type |-> "reply",
                   reply |-> FramedBlock(Framing!CloseBlock(block, error).reply)]
  BY DEF FramedBlock, Framing!CloseBlock, Framing!ReplyEvent, Block

(* One push at top level and one inside a block, whatever the line.        *)
LEMMA TopLevelImplements ==
    ASSUME NEW words \in Words
    PROVE  Implements(None, words)
  <1>1. PICK text \in Words : text = Text(words)
    BY TextMeans
  <1>2. PICK guard : guard = ParseGuard(text)
    OBVIOUS
  <1>3. FramedParser(None) = None
    BY DEF FramedParser
  <1>4. Framing!Push(None, Framed(words)) = Framing!PushAtTopLevel(Framed(words))
    BY DEF Framing!Push, Framing!None, None
  <1>5. ASSUME PushLine(None, words) = Outcome(None, None),
               Framing!PushAtTopLevel(Framed(words)) = [parser |-> None, event |-> None]
        PROVE  Implements(None, words)
    BY <1>3, <1>4, <1>5 DEF Implements, Outcome
  <1>6. ASSUME PushLine(None, words) = Outcome(None, Notify(Reading(words))),
               Framing!PushAtTopLevel(Framed(words))
                 = [parser |-> None, event |-> Some(Framing!NotificationEvent(Framed(words)))]
        PROVE  Implements(None, words)
    <2>1. PICK concrete, abstract :
            /\ concrete = PushLine(None, words)
            /\ abstract = Framing!Push(FramedParser(None), Framed(words))
      OBVIOUS
    <2>2. /\ concrete.parser = None /\ concrete.event # None
          /\ concrete.event[1].type = "notification"
          /\ concrete.event[1].notification = Reading(words)
      BY <1>6, <2>1 DEF Outcome, Notify, Some, None
    <2>3. /\ abstract.parser = None
          /\ abstract.event = Some(Framing!NotificationEvent(Framed(words)))
      BY <1>3, <1>4, <1>6, <2>1
    <2> QED
      BY <1>3, <2>1, <2>2, <2>3 DEF Implements
  <1>7. CASE IsOutputLine(words)
    <2>1. PushLine(None, words) = Outcome(None, Notify(Reading(words)))
      BY <1>7 DEF PushLine, Reading
    <2>2. Framed(words).kind \in {"output", "text"}
      BY <1>7, FramedMeans
    <2>3. Framing!PushAtTopLevel(Framed(words))
            = [parser |-> None, event |-> Some(Framing!NotificationEvent(Framed(words)))]
      BY <2>2 DEF Framing!PushAtTopLevel, Framing!None, Framing!Some, None, Some
    <2> QED
      BY <1>6, <2>1, <2>3
  <1>8. CASE ~IsOutputLine(words)
    <2>1. PushLine(None, words) = TextAtTopLevel(text)
      BY <1>1, <1>8 DEF PushLine
    <2>2. Reading(words) = ParseNotification(text)
      BY <1>1, <1>8 DEF Reading
    <2>3. CASE text = EmptyText
      <3>1. guard = None /\ Framed(words) = Framing!Blank
        BY <1>1, <1>2, <2>3, FramedMeans
      <3>2. TextAtTopLevel(text) = Outcome(None, None)
        BY <1>2, <2>3, <3>1 DEF TextAtTopLevel
      <3>3. Framing!PushAtTopLevel(Framed(words)) = [parser |-> None, event |-> None]
        BY <3>1 DEF Framing!PushAtTopLevel, Framing!Blank, Framing!None, None
      <3> QED
        BY <1>5, <2>1, <3>2, <3>3
    <2>4. CASE text # EmptyText /\ guard # None
      <3>1. Framed(words) = guard[1] /\ guard[1] \in Framing!Guard
        BY <1>1, <1>2, <2>4, FramedMeans
      <3>2. guard[1].kind \in {"begin", "end", "error"}
        BY <3>1 DEF Framing!Guard, Framing!GuardKind
      <3>3. CASE guard[1].kind = "begin"
        <4>1. TextAtTopLevel(text) = Outcome(Some(Framing!OpenBlock(guard[1])), None)
          BY <1>2, <2>4, <3>3 DEF TextAtTopLevel
        <4>2. Framing!PushAtTopLevel(Framed(words))
                = [parser |-> Some(Framing!OpenBlock(guard[1])), event |-> None]
          BY <3>1, <3>3 DEF Framing!PushAtTopLevel, Framing!None, Framing!Some, None, Some
        <4>3. FramedParser(Some(Framing!OpenBlock(guard[1]))) = Some(Framing!OpenBlock(guard[1]))
          <5>1. FramedBlock(Framing!OpenBlock(guard[1])) = Framing!OpenBlock(guard[1])
            BY <3>1, OpenedFramed
          <5> QED
            BY <5>1 DEF FramedParser, Some, None
        <4> QED
          BY <1>3, <1>4, <2>1, <4>1, <4>2, <4>3 DEF Implements, Outcome
      <3>4. CASE guard[1].kind # "begin"
        <4>1. TextAtTopLevel(text) = Outcome(None, Notify(ParseNotification(text)))
          BY <1>2, <2>4, <3>4 DEF TextAtTopLevel
        <4>2. Framing!PushAtTopLevel(Framed(words))
                = [parser |-> None, event |-> Some(Framing!NotificationEvent(Framed(words)))]
          BY <3>1, <3>2, <3>4 DEF Framing!PushAtTopLevel, Framing!None, Framing!Some, None, Some
        <4> QED
          BY <1>6, <2>1, <2>2, <4>1, <4>2
      <3> QED
        BY <3>3, <3>4
    <2>5. CASE text # EmptyText /\ guard = None
      <3>1. Framed(words).kind \in {"output", "text"}
        BY <1>1, <1>2, <2>5, FramedMeans
      <3>2. TextAtTopLevel(text) = Outcome(None, Notify(ParseNotification(text)))
        BY <1>2, <2>5 DEF TextAtTopLevel
      <3>3. Framing!PushAtTopLevel(Framed(words))
              = [parser |-> None, event |-> Some(Framing!NotificationEvent(Framed(words)))]
        BY <3>1 DEF Framing!PushAtTopLevel, Framing!None, Framing!Some, None, Some
      <3> QED
        BY <1>6, <2>1, <2>2, <3>2, <3>3
    <2> QED
      BY <2>3, <2>4, <2>5
  <1> QED
    BY <1>7, <1>8

LEMMA WithinBlockImplements ==
    ASSUME NEW block \in Block, NEW words \in Words
    PROVE  Implements(Some(block), words)
  <1>1. PICK text \in Words : text = Text(words)
    BY TextMeans
  <1>2. PICK guard : guard = ParseGuard(text)
    OBVIOUS
  <1>3. FramedParser(Some(block)) = Some(FramedBlock(block))
    BY DEF FramedParser, Some, None
  <1>4. PICK concrete, abstract :
          /\ concrete = PushLine(Some(block), words)
          /\ abstract = Framing!Push(FramedParser(Some(block)), Framed(words))
    OBVIOUS
  <1>5. concrete = TextWithinBlock(block, text)
    BY <1>1, <1>4 DEF PushLine, Some, None
  <1>6. abstract = Framing!PushWithinBlock(FramedBlock(block), Framed(words))
    BY <1>3, <1>4 DEF Framing!Push, Framing!None, Some
  <1>7. CASE guard = None
    <2>1. Framed(text) = Framed(words) /\ Framed(words).kind \in {"output", "text", "blank"}
      <3>1. Framing!Blank.kind = "blank"
        BY DEF Framing!Blank
      <3>2. ParseGuard(Text(words)) = None
        BY <1>1, <1>2, <1>7
      <3>3. Framed(Text(words)) = Framed(words)
        BY FramedMeans
      <3>4. Framed(words) = Framing!Blank \/ Framed(words).kind \in {"output", "text"}
        BY <3>2, FramedMeans
      <3> QED
        BY <1>1, <3>1, <3>3, <3>4
    <2>2. concrete = Outcome(Some([block EXCEPT !.output = Append(@, text)]), None)
      BY <1>2, <1>5, <1>7 DEF TextWithinBlock
    <2>3. abstract = [parser |-> Some([FramedBlock(block) EXCEPT
                                         !.output = Append(@, Framed(words))]),
                      event |-> None]
      BY <1>6, <2>1 DEF Framing!PushWithinBlock, Framing!None, Framing!Some, None, Some
    <2>4. FramedBlock([block EXCEPT !.output = Append(@, text)])
            = [FramedBlock(block) EXCEPT !.output = Append(@, Framed(words))]
      BY <2>1, AppendedFramed
    <2>5. FramedParser(concrete.parser) = abstract.parser
      BY <2>2, <2>3, <2>4 DEF FramedParser, Outcome, Some, None
    <2> QED
      BY <1>4, <2>2, <2>3, <2>5 DEF Implements, Outcome
  <1>8. CASE guard # None
    <2>1. Framed(words) = guard[1] /\ guard[1] \in Framing!Guard
      BY <1>1, <1>2, <1>8, FramedMeans
    <2>2. guard[1].kind \in {"begin", "end", "error"}
      BY <2>1 DEF Framing!Guard, Framing!GuardKind
    <2>3. ASSUME NEW error \in BOOLEAN,
                 concrete.event = Some(Framing!CloseBlock(block, error)),
                 abstract.event = Some(Framing!CloseBlock(FramedBlock(block), error)),
                 FramedParser(concrete.parser) = abstract.parser
          PROVE  Implements(Some(block), words)
      <3>1. concrete.event # None /\ concrete.event[1] = Framing!CloseBlock(block, error)
        BY <2>3 DEF Some, None
      <3> QED
        BY <1>4, <2>3, <3>1, ClosedFramed DEF Implements
    <2>4. CASE guard[1].kind = "begin"
      <3>1. concrete = Outcome(Some(Framing!OpenBlock(guard[1])),
                               Some(Framing!CloseBlock(block, TRUE)))
        BY <1>2, <1>5, <1>8, <2>4 DEF TextWithinBlock
      <3>2. abstract = [parser |-> Some(Framing!OpenBlock(guard[1])),
                        event |-> Some(Framing!CloseBlock(FramedBlock(block), TRUE))]
        BY <1>6, <2>1, <2>4 DEF Framing!PushWithinBlock, Framing!Some, Some
      <3>3. FramedBlock(Framing!OpenBlock(guard[1])) = Framing!OpenBlock(guard[1])
        BY <2>1, OpenedFramed
      <3>4. FramedParser(concrete.parser) = abstract.parser
        BY <3>1, <3>2, <3>3 DEF FramedParser, Outcome, Some, None
      <3> QED
        BY <2>3, <3>1, <3>2, <3>4 DEF Outcome
    <2>5. CASE guard[1].kind # "begin"
      <3>1. PICK error \in BOOLEAN : error = (guard[1].kind = "error")
        OBVIOUS
      <3>2. concrete = Outcome(None, Some(Framing!CloseBlock(block, error)))
        BY <1>2, <1>5, <1>8, <2>5, <3>1 DEF TextWithinBlock
      <3>3. abstract = [parser |-> None,
                        event |-> Some(Framing!CloseBlock(FramedBlock(block), error))]
        BY <1>6, <2>1, <2>2, <2>5, <3>1
           DEF Framing!PushWithinBlock, Framing!Some, Framing!None, Some, None
      <3>4. FramedParser(concrete.parser) = abstract.parser
        BY <3>2, <3>3 DEF FramedParser, Outcome
      <3> QED
        BY <2>3, <3>2, <3>3, <3>4 DEF Outcome
    <2> QED
      BY <2>4, <2>5
  <1> QED
    BY <1>7, <1>8

(* push on any line, with no block open and with any block open, does what *)
(* Parser!Push says of the framed line (parser.rs:66-135,160-179): the     *)
(* framing the rest of the development is built on.                        *)
THEOREM AlwaysFramesAsParser ==
    GrammarSpec => [](/\ FramesAsParser
                      /\ \A block \in Block : Implements(Some(block), heard))
  <1>1. [number |-> 0, control |-> TRUE, output |-> << EmptyText >>] \in Block
    <2>1. 0 \in 0 .. MaxU64
      BY GrammarAssumption
    <2>2. EmptyText \in Words
      <3>1. << >> \in Word
        BY EmptySeq DEF Word
      <3>2. << << >> >> \in Seq(Word) /\ << << >> >> # << >>
        BY <3>1
      <3> QED
        BY <3>2 DEF EmptyText, Words
    <2>3. << EmptyText >> \in Seq(Words)
      BY <2>2
    <2> QED
      BY <2>1, <2>3 DEF Block
  <1>2. Heard => /\ FramesAsParser
                 /\ \A block \in Block : Implements(Some(block), heard)
    BY <1>1, TopLevelImplements, WithinBlockImplements DEF Heard, FramesAsParser
  <1> QED
    BY <1>2, HeardInitially, HeardNext, PTL DEF GrammarSpec

----------------------------------------------------------------------------
(* What tmux writes comes back: a conversion word by word, and the line    *)
(* that is its keyword and its arguments.                                  *)
Converted(f, word) == [c \in DOMAIN word |-> f[word[c]]]

LEMMA EachWord ==
    ASSUME NEW f \in [Chunk -> Chunk], NEW words \in Seq(Word), NEW w \in 1 .. Len(words)
    PROVE  Each(f, words)[w] = Converted(f, words[w])
  <1>1. DOMAIN words = 1 .. Len(words)
    BY LenProperties
  <1> QED
    BY <1>1 DEF Each, Converted

LEMMA ConvertedWord ==
    ASSUME NEW f \in [Chunk -> Chunk], NEW word \in Word
    PROVE  /\ Converted(f, word) \in Word
           /\ (\A c \in 1 .. Len(word) : f[word[c]] = word[c]) => Converted(f, word) = word
  <1>1. word \in Seq(Chunk) /\ DOMAIN word = 1 .. Len(word) /\ Len(word) \in Nat
    BY LenProperties DEF Word
  <1>2. \A c \in 1 .. Len(word) : word[c] \in Chunk
    BY <1>1, ElementOfSeq
  <1>3. Converted(f, word) = [c \in 1 .. Len(word) |-> f[word[c]]]
    BY <1>1 DEF Converted
  <1>4. Converted(f, word) \in Seq(Chunk) /\ Len(Converted(f, word)) = Len(word)
    BY <1>1, <1>2, <1>3
  <1>5. ASSUME \A c \in 1 .. Len(word) : f[word[c]] = word[c] PROVE Converted(f, word) = word
    <2>1. \A c \in 1 .. Len(word) : Converted(f, word)[c] = word[c]
      BY <1>3, <1>5
    <2> QED
      BY <1>1, <1>4, <2>1, SeqEqual
  <1> QED
    BY <1>4, <1>5 DEF Word

LEMMA EachOne ==
    ASSUME NEW f \in [Chunk -> Chunk], NEW u \in Word
    PROVE  Each(f, << u >>) = << Converted(f, u) >>
  <1>1. PICK s \in Seq(Word) : s = << u >> /\ Len(s) = 1 /\ s[1] = u
    BY OneWord
  <1>2. DOMAIN s = {1}
    BY <1>1
  <1> QED
    BY <1>1, <1>2 DEF Each, Converted

LEMMA EachJoined ==
    ASSUME NEW f \in [Chunk -> Chunk], NEW s \in Seq(Word), NEW t \in Seq(Word)
    PROVE  Each(f, s \o t) = Each(f, s) \o Each(f, t)
  <1>1. PICK st \in Seq(Word) :
          /\ st = s \o t /\ Len(st) = Len(s) + Len(t)
          /\ \A k \in 1 .. Len(s) : st[k] = s[k]
          /\ \A k \in Len(s) + 1 .. Len(st) : st[k] = t[k - Len(s)]
    BY FrontAndRest
  <1>2. PICK a, b \in Seq(Word) :
          a = Each(f, s) /\ b = Each(f, t) /\ Len(a) = Len(s) /\ Len(b) = Len(t)
    BY EachMeans
  <1>3. PICK ab \in Seq(Word) :
          /\ ab = a \o b /\ Len(ab) = Len(a) + Len(b)
          /\ \A k \in 1 .. Len(a) : ab[k] = a[k]
          /\ \A k \in Len(a) + 1 .. Len(ab) : ab[k] = b[k - Len(a)]
    BY FrontAndRest
  <1>4. PICK e \in Seq(Word) : e = Each(f, st) /\ Len(e) = Len(st)
    BY EachMeans
  <1>5. Len(s) \in Nat /\ Len(t) \in Nat
    BY LenProperties
  <1>6. ASSUME NEW k \in 1 .. Len(e) PROVE e[k] = ab[k]
    <2>1. e[k] = Converted(f, st[k])
      BY <1>4, EachWord
    <2>2. CASE k \in 1 .. Len(s)
      <3>1. a[k] = Converted(f, s[k])
        BY <1>2, <2>2, EachWord
      <3> QED
        BY <1>1, <1>2, <1>3, <2>1, <2>2, <3>1
    <2>3. CASE k \in Len(s) + 1 .. Len(st)
      <3>1. k - Len(s) \in 1 .. Len(t)
        BY <1>1, <1>5, <2>3
      <3>2. b[k - Len(s)] = Converted(f, t[k - Len(s)])
        BY <1>2, <3>1, EachWord
      <3> QED
        BY <1>1, <1>2, <1>3, <2>1, <2>3, <3>2
    <2> QED
      BY <1>1, <1>4, <1>5, <2>2, <2>3
  <1> QED
    BY <1>1, <1>2, <1>3, <1>4, <1>6, SeqEqual, SMTT(60)

LEMMA EachUndone ==
    ASSUME NEW f \in [Chunk -> Chunk], NEW g \in [Chunk -> Chunk], \A c \in Chunk : g[f[c]] = c,
           NEW words \in Seq(Word)
    PROVE  Each(g, Each(f, words)) = words
  <1>1. PICK there \in Seq(Word) : there = Each(f, words) /\ Len(there) = Len(words)
    BY EachMeans
  <1>2. PICK back \in Seq(Word) : back = Each(g, there) /\ Len(back) = Len(there)
    BY EachMeans
  <1>3. ASSUME NEW w \in 1 .. Len(words) PROVE back[w] = words[w]
    <2>1. words[w] \in Word /\ back[w] \in Word
      BY <1>1, <1>2, <1>3, ElementOfSeq
    <2>2. /\ Len(there[w]) = Len(words[w])
          /\ \A c \in 1 .. Len(words[w]) : there[w][c] = f[words[w][c]]
      BY <1>1, <1>3, EachMeans
    <2>3. /\ Len(back[w]) = Len(there[w])
          /\ \A c \in 1 .. Len(there[w]) : back[w][c] = g[there[w][c]]
      BY <1>1, <1>2, <1>3, EachMeans
    <2>4. \A c \in 1 .. Len(words[w]) : words[w][c] \in Chunk
      BY <2>1, ElementOfSeq DEF Word
    <2>5. \A c \in 1 .. Len(words[w]) : back[w][c] = words[w][c]
      BY <2>2, <2>3, <2>4
    <2>6. words[w] \in Seq(Chunk) /\ back[w] \in Seq(Chunk) /\ Len(back[w]) = Len(words[w])
      BY <2>1, <2>2, <2>3 DEF Word
    <2> QED
      BY <2>5, <2>6, SeqEqual
  <1> QED
    BY <1>1, <1>2, <1>3, SeqEqual

(* What is made of keywords, numerals and the like is text as it stands.   *)
Verbatim(word) == \A c \in 1 .. Len(word) : Lossy[word[c]] = word[c]

LEMMA ShowsVerbatim ==
    ASSUME NEW sigil \in {"%", "@", "$"}, NEW id \in WireId
    PROVE  Shows(sigil, id) \in Word /\ Verbatim(Shows(sigil, id))
  <1>1. id \in 0 .. MaxU64 /\ Shown[id] \in Numeral /\ sigil \in Keyword
    BY GrammarAssumption DEF WireId, Keyword
  <1>2. Lossy[Shown[id]] = Shown[id]
    BY <1>1, GrammarAssumption
  <1>3. Lossy[sigil] = sigil
    BY <1>1, GrammarAssumption, MessagesAssumption
  <1>4. PICK u : u = Shows(sigil, id)
    OBVIOUS
  <1>5. Len(u) = 2 /\ u[1] = sigil /\ u[2] = Shown[id]
    BY <1>4 DEF Shows
  <1>6. Verbatim(u)
    BY <1>2, <1>3, <1>5 DEF Verbatim
  <1> QED
    BY <1>4, <1>6, ShowsWord

LEMMA IdComesBack ==
    ASSUME NEW sigil, NEW id \in WireId
    PROVE  Id(sigil, Shows(sigil, id)) = Some(id) /\ Some(id) # None /\ Some(id)[1] = id
  <1>1. id \in 0 .. MaxU64 /\ id <= MaxU32
    BY GrammarAssumption DEF WireId
  <1>2. Shown[id] \in Numeral /\ Worth[Shown[id]] = id
    BY <1>1, GrammarAssumption
  <1>3. PICK u, digits : u = Shows(sigil, id) /\ digits = << Shown[id] >>
    OBVIOUS
  <1>4. /\ Len(u) = 2 /\ u[1] = sigil /\ u[2] = Shown[id]
        /\ Len(digits) = 1 /\ digits[1] = Shown[id]
    BY <1>3 DEF Shows
  <1>5. ParseNumber(digits, MaxU32) = Some(id)
    BY <1>1, <1>2, <1>4 DEF ParseNumber
  <1>6. Id(sigil, u) = Some(id)
    BY <1>3, <1>4, <1>5 DEF Id
  <1> QED
    BY <1>3, <1>6 DEF Some, None

LEMMA NumberComesBack ==
    ASSUME NEW max \in {MaxU32, MaxU64}, NEW n \in 0 .. max
    PROVE  /\ ParseNumber(<< Shown[n] >>, max) = Some(n) /\ Some(n) # None /\ Some(n)[1] = n
           /\ << Shown[n] >> \in Word /\ Verbatim(<< Shown[n] >>)
  <1>1. n \in 0 .. MaxU64 /\ n <= max
    BY GrammarAssumption
  <1>2. Shown[n] \in Numeral /\ Worth[Shown[n]] = n
    BY <1>1, GrammarAssumption
  <1>3. PICK digits : digits = << Shown[n] >>
    OBVIOUS
  <1>4. Len(digits) = 1 /\ digits[1] = Shown[n]
    BY <1>3
  <1>5. ParseNumber(digits, max) = Some(n)
    BY <1>1, <1>2, <1>4 DEF ParseNumber
  <1>6. Lossy[Shown[n]] = Shown[n]
    BY <1>2, GrammarAssumption
  <1>7. Verbatim(digits)
    BY <1>4, <1>6 DEF Verbatim
  <1>8. digits \in Word
    BY <1>1, <1>3, NumberWord
  <1> QED
    BY <1>3, <1>5, <1>7, <1>8 DEF Some, None

LEMMA TextVerbatim ==
    ASSUME NEW u \in Word, Verbatim(u)
    PROVE  Text(<< u >>) = << u >>
  <1>1. Lossy \in [Chunk -> Chunk]
    BY GrammarAssumption
  <1>2. Converted(Lossy, u) = u
    BY <1>1, ConvertedWord DEF Verbatim
  <1> QED
    BY <1>1, <1>2, EachOne DEF Text

LEMMA TextJoined ==
    ASSUME NEW s \in Seq(Word), NEW t \in Seq(Word)
    PROVE  /\ Text(s) \in Seq(Word) /\ Len(Text(s)) = Len(s)
           /\ Text(s \o t) = Text(s) \o Text(t)
  <1>1. Lossy \in [Chunk -> Chunk]
    BY GrammarAssumption
  <1>2. Text(s) \in Seq(Word) /\ Len(Text(s)) = Len(s)
    BY <1>1, EachMeans DEF Text
  <1>3. Text(s \o t) = Text(s) \o Text(t)
    BY <1>1, EachJoined DEF Text
  <1> QED
    BY <1>2, <1>3

LEMMA TailOfLine ==
    ASSUME NEW u \in Word, NEW s \in Seq(Word)
    PROVE  /\ << u >> \o s \in Seq(Word) /\ Len(<< u >> \o s) = Len(s) + 1
           /\ (<< u >> \o s)[1] = u /\ Tail(<< u >> \o s) = s
           /\ \A k \in 1 .. Len(s) : (<< u >> \o s)[k + 1] = s[k]
  <1>1. PICK one \in Seq(Word) : one = << u >> /\ Len(one) = 1 /\ one[1] = u
    BY OneWord
  <1>2. PICK line \in Seq(Word) :
          /\ line = one \o s /\ Len(line) = Len(one) + Len(s)
          /\ \A k \in 1 .. Len(one) : line[k] = one[k]
          /\ \A k \in Len(one) + 1 .. Len(line) : line[k] = s[k - Len(one)]
    BY FrontAndRest
  <1>3. Len(s) \in Nat
    BY LenProperties
  <1>4. Len(line) = Len(s) + 1 /\ line[1] = u
    BY <1>1, <1>2, <1>3
  <1>5. ASSUME NEW k \in 1 .. Len(s) PROVE line[k + 1] = s[k]
    <2>1. k + 1 \in 2 .. Len(line) /\ (k + 1) - 1 = k
      BY <1>3, <1>4
    <2> QED
      BY <1>1, <1>2, <2>1
  <1>6. line # << >>
    BY <1>3, <1>4, EmptySeq
  <1>7. PICK rest \in Seq(Word) :
          /\ rest = Tail(line) /\ Len(rest) = Len(line) - 1
          /\ \A k \in 1 .. Len(line) - 1 : rest[k] = line[k + 1]
    BY <1>6, LineWords DEF Words
  <1>8. rest = s
    <2>1. Len(rest) = Len(s) /\ \A k \in 1 .. Len(rest) : rest[k] = s[k]
      BY <1>3, <1>4, <1>5, <1>7
    <2> QED
      BY <2>1, SeqEqual
  <1> QED
    BY <1>1, <1>2, <1>4, <1>5, <1>7, <1>8

LEMMA KeywordVerbatim ==
    ASSUME NEW a \in Keyword, NEW b \in Keyword
    PROVE  << a, b >> \in Word /\ Verbatim(<< a, b >>)
  <1>1. Lossy[a] = a /\ Lossy[b] = b
    BY GrammarAssumption, MessagesAssumption
  <1>2. PICK u : u = << a, b >>
    OBVIOUS
  <1>3. Len(u) = 2 /\ u[1] = a /\ u[2] = b
    BY <1>2
  <1>4. Verbatim(u)
    BY <1>1, <1>3 DEF Verbatim
  <1> QED
    BY <1>2, <1>4, KeywordWord

LEMMA WireText ==
    ASSUME NEW tag \in Keyword, NEW arguments \in Seq(Word)
    PROVE  \E wire, text \in Words :
             /\ wire = << << "%", tag >> >> \o arguments /\ text = Text(wire)
             /\ Len(wire) = Len(arguments) + 1 /\ Len(text) = Len(arguments) + 1
             /\ wire[1] = << "%", tag >> /\ text[1] = << "%", tag >>
             /\ Tail(wire) = arguments
             /\ \A k \in 1 .. Len(arguments) : text[k + 1] = Text(arguments)[k]
             /\ Args(text) = IF arguments = << >> THEN EmptyText ELSE Text(arguments)
  <1>1. "%" \in Keyword
    BY DEF Keyword
  <1>2. PICK word \in Word : word = << "%", tag >> /\ Verbatim(word)
    BY <1>1, KeywordVerbatim
  <1>3. PICK wire : wire = << word >> \o arguments
    OBVIOUS
  <1>4. /\ wire \in Seq(Word) /\ Len(wire) = Len(arguments) + 1
        /\ wire[1] = word /\ Tail(wire) = arguments
    BY <1>3, TailOfLine
  <1>5. Len(arguments) \in Nat
    BY LenProperties
  <1>6. wire \in Words
    BY <1>4, <1>5, EmptySeq DEF Words
  <1>7. PICK args \in Seq(Word) : args = Text(arguments) /\ Len(args) = Len(arguments)
    BY TextJoined
  <1>8. Text(wire) = << word >> \o args
    <2>1. << word >> \in Seq(Word)
      OBVIOUS
    <2>2. Text(<< word >> \o arguments) = Text(<< word >>) \o Text(arguments)
      BY <2>1, TextJoined
    <2>3. Text(<< word >>) = << word >>
      BY <1>2, TextVerbatim
    <2> QED
      BY <1>3, <1>7, <2>2, <2>3
  <1>9. PICK text \in Words : text = Text(wire)
    BY <1>6, TextMeans
  <1>10. /\ Len(text) = Len(args) + 1 /\ text[1] = word /\ Tail(text) = args
         /\ \A k \in 1 .. Len(args) : text[k + 1] = args[k]
    BY <1>8, <1>9, TailOfLine
  <1>11. Args(text) = IF arguments = << >> THEN EmptyText ELSE args
    <2>1. CASE arguments = << >>
      <3>1. Len(arguments) = 0
        BY <2>1
      <3> QED
        BY <1>7, <1>10, <2>1, <3>1 DEF Args
    <2>2. CASE arguments # << >>
      <3>1. Len(arguments) # 0
        BY <2>2, EmptySeq
      <3>2. Len(text) # 1
        BY <1>5, <1>7, <1>10, <3>1
      <3> QED
        BY <1>10, <2>2, <3>2 DEF Args
    <2> QED
      BY <2>1, <2>2
  <1>12. /\ wire = << << "%", tag >> >> \o arguments
         /\ wire[1] = << "%", tag >> /\ text[1] = << "%", tag >>
    BY <1>2, <1>3, <1>4, <1>10
  <1>13. Len(text) = Len(arguments) + 1
    BY <1>7, <1>10
  <1>14. \A k \in 1 .. Len(arguments) : text[k + 1] = Text(arguments)[k]
    BY <1>7, <1>10
  <1>15. Args(text) = IF arguments = << >> THEN EmptyText ELSE Text(arguments)
    BY <1>7, <1>11
  <1> QED
    BY <1>4, <1>6, <1>9, <1>12, <1>13, <1>14, <1>15

(* A line of the text path is read by its keyword.                         *)
LEMMA ReadsKind ==
    ASSUME NEW tag \in Keyword, tag \notin GuardKind, tag \notin OutputKinds,
           NEW arguments \in Seq(Word), NEW notification,
           ParseKind(tag, IF arguments = << >> THEN EmptyText ELSE Text(arguments))
             = Some(notification)
    PROVE  /\ ParseGuard(Text(<< << "%", tag >> >> \o arguments)) = None
           /\ Reading(<< << "%", tag >> >> \o arguments) = notification
  <1>1. PICK wire, text \in Words :
             /\ wire = << << "%", tag >> >> \o arguments /\ text = Text(wire)
             /\ Len(wire) = Len(arguments) + 1 /\ Len(text) = Len(arguments) + 1
             /\ wire[1] = << "%", tag >> /\ text[1] = << "%", tag >>
             /\ Tail(wire) = arguments
             /\ \A k \in 1 .. Len(arguments) : text[k + 1] = Text(arguments)[k]
             /\ Args(text) = IF arguments = << >> THEN EmptyText ELSE Text(arguments)
    BY WireText
  <1>2. \A other : << "%", tag >> = << "%", other >> => tag = other
    OBVIOUS
  <1>3. ~IsOutputLine(wire)
    BY <1>1, <1>2 DEF IsOutputLine
  <1>4. ParseGuard(text) = None
    BY <1>1, <1>2 DEF ParseGuard
  <1>5. ParseNotification(text) = notification
    <2>1. PICK word : word = << "%", tag >>
      OBVIOUS
    <2>2. Len(word) = 2 /\ word[1] = "%" /\ word[2] = tag
      BY <2>1
    <2>3. text[1] = word
      BY <1>1, <2>1
    <2>4. ParseKind(tag, Args(text)) = Some(notification)
      BY <1>1
    <2>5. Some(notification) # None /\ Some(notification)[1] = notification
      BY DEF Some, None
    <2> QED
      BY <2>2, <2>3, <2>4, <2>5 DEF ParseNotification, OrUnknown
  <1> QED
    BY <1>1, <1>3, <1>4, <1>5 DEF Reading

(* What tmux wrote is read as what it reports.                             *)
ComesBack(message, words) ==
    IF message.tag \in GuardKind
    THEN ParseGuard(Text(words)) = Some([kind |-> message.tag, number |-> message.number,
                                         control |-> message.flags # 0])
    ELSE ParseGuard(Text(words)) = None /\ Reading(words) = AsText(message)

LEMMA AsTextOf ==
    ASSUME NEW n
    PROVE  /\ n.tag \in WindowNameKinds \cup SessionNameKinds
                => AsText(n) = [n EXCEPT !.name = Text(@)]
           /\ n.tag = "client-session-changed"
                => AsText(n) = [n EXCEPT !.client = Text(<< @ >>)[1], !.name = Text(@)]
           /\ n.tag = "subscription-changed"
                => AsText(n) = [n EXCEPT !.name = Text(<< @ >>)[1], !.value = Text(@)]
           /\ n.tag = "exit" /\ n.reason # None
                => AsText(n) = [n EXCEPT !.reason = Some(Text(@[1]))]
           /\ n.tag = "unknown" => AsText(n) = Unknown(Text(n.line))
           /\ n.tag \notin WindowNameKinds \cup SessionNameKinds
                             \cup {"client-session-changed", "subscription-changed", "exit", "unknown"}
                => AsText(n) = n
           /\ n.tag = "exit" /\ n.reason = None => AsText(n) = n
  BY DEF AsText, WindowNameKinds, SessionNameKinds

LEMMA KindComesBack ==
    ASSUME NEW message, message.tag \in Keyword, message.tag \notin GuardKind,
           message.tag \notin OutputKinds, NEW arguments \in Seq(Word),
           ParseKind(message.tag, IF arguments = << >> THEN EmptyText ELSE Text(arguments))
             = Some(AsText(message))
    PROVE  ComesBack(message, << << "%", message.tag >> >> \o arguments)
  <1>1. PICK tag : tag = message.tag
    OBVIOUS
  <1>2. /\ ParseGuard(Text(<< << "%", tag >> >> \o arguments)) = None
        /\ Reading(<< << "%", tag >> >> \o arguments) = AsText(message)
    BY <1>1, ReadsKind
  <1> QED
    BY <1>1, <1>2 DEF ComesBack

LEMMA IdMessageComesBack ==
    ASSUME NEW message \in [tag : WindowKinds \cup PaneKinds, id : WireId],
           NEW arguments \in Arguments(message)
    PROVE  ComesBack(message, << << "%", message.tag >> >> \o arguments)
  <1>1. message.tag \in Keyword /\ message.tag \notin GuardKind /\ message.tag \notin OutputKinds
    BY SMTT(60) DEF Keyword, WindowKinds, PaneKinds, GuardKind, OutputKinds
  <1>2. AsText(message) = message
    <2>1. message.tag \notin WindowNameKinds \cup SessionNameKinds
                  \cup {"client-session-changed", "subscription-changed", "exit", "unknown"}
      BY DEF WindowKinds, PaneKinds, WindowNameKinds, SessionNameKinds
    <2> QED
      BY <2>1, AsTextOf
  <1>3. message = [tag |-> message.tag, id |-> message.id]
    OBVIOUS
  <1>4. ASSUME NEW sigil \in {"%", "@", "$"}, arguments = << Shows(sigil, message.id) >>,
               \A args : ParseKind(message.tag, args) = FirstId(message.tag, sigil, args)
        PROVE  ComesBack(message, << << "%", message.tag >> >> \o arguments)
    <2>1. PICK u \in Word : u = Shows(sigil, message.id) /\ Verbatim(u)
      BY ShowsVerbatim
    <2>2. /\ Id(sigil, u) = Some(message.id)
          /\ Some(message.id) # None /\ Some(message.id)[1] = message.id
      BY <2>1, IdComesBack
    <2>3. PICK args \in Seq(Word) : args = << u >> /\ Len(args) = 1 /\ args[1] = u
      BY OneWord
    <2>4. Text(args) = args /\ args # << >>
      BY <2>1, <2>3, TextVerbatim
    <2>5. FirstId(message.tag, sigil, args) = Some([tag |-> message.tag, id |-> message.id])
      BY <2>2, <2>3 DEF FirstId
    <2>6. arguments = args
      BY <1>4, <2>1, <2>3
    <2>7. ParseKind(message.tag, IF args = << >> THEN EmptyText ELSE Text(args))
            = Some(AsText(message))
      BY <1>2, <1>3, <1>4, <2>4, <2>5
    <2> QED
      BY <1>1, <2>6, <2>7, KindComesBack
  <1>5. CASE message.tag \in WindowKinds
    <2>1. arguments = << Shows("@", message.id) >>
      <3>1. Arguments(message) = {<< Shows("@", message.id) >>}
        BY <1>5, ArgumentsOf
      <3> QED
        BY <3>1
    <2> QED
      BY <1>4, <1>5, <2>1, ParseKindOf
  <1>6. CASE message.tag \in PaneKinds
    <2>1. arguments = << Shows("%", message.id) >>
      <3>1. Arguments(message) = {<< Shows("%", message.id) >>}
        BY <1>6, ArgumentsOf
      <3> QED
        BY <3>1
    <2> QED
      BY <1>4, <1>6, <2>1, ParseKindOf
  <1> QED
    BY <1>5, <1>6

LEMMA NameMessageComesBack ==
    ASSUME NEW message \in [tag : WindowNameKinds \cup SessionNameKinds, id : WireId, name : Words],
           NEW arguments \in Arguments(message)
    PROVE  ComesBack(message, << << "%", message.tag >> >> \o arguments)
  <1>1. message.tag \in Keyword /\ message.tag \notin GuardKind /\ message.tag \notin OutputKinds
    BY DEF Keyword, WindowNameKinds, SessionNameKinds, GuardKind, OutputKinds
  <1>2. PICK name \in Words : name = Text(message.name)
    BY TextMeans
  <1>3. AsText(message) = [tag |-> message.tag, id |-> message.id, name |-> name]
    <2>1. message = [tag |-> message.tag, id |-> message.id, name |-> message.name]
      OBVIOUS
    <2>2. [message EXCEPT !.name = name]
            = [tag |-> message.tag, id |-> message.id, name |-> name]
      BY <2>1, SMTT(60)
    <2>3. AsText(message) = [message EXCEPT !.name = Text(message.name)]
      BY AsTextOf, ZenonT(60)
    <2> QED
      BY <1>2, <2>2, <2>3
  <1>4. ASSUME NEW sigil \in {"%", "@", "$"},
               arguments = << Shows(sigil, message.id) >> \o message.name,
               \A args : ParseKind(message.tag, args) = IdName(message.tag, sigil, args)
        PROVE  ComesBack(message, << << "%", message.tag >> >> \o arguments)
    <2>1. PICK u \in Word : u = Shows(sigil, message.id) /\ Verbatim(u)
      BY ShowsVerbatim
    <2>2. /\ Id(sigil, u) = Some(message.id)
          /\ Some(message.id) # None /\ Some(message.id)[1] = message.id
      BY <2>1, IdComesBack
    <2>3. message.name \in Seq(Word) /\ name \in Seq(Word)
          /\ Len(message.name) \in Nat /\ Len(name) \in Nat /\ Len(name) > 0
      BY LineWords
    <2>4. /\ << u >> \o message.name \in Seq(Word)
          /\ Len(<< u >> \o message.name) = Len(message.name) + 1
      BY <2>3, TailOfLine
    <2>5. Text(<< u >> \o message.name) = << u >> \o name
      <3>1. << u >> \in Seq(Word)
        OBVIOUS
      <3>2. Text(<< u >> \o message.name) = Text(<< u >>) \o Text(message.name)
        BY <2>3, <3>1, TextJoined
      <3> QED
        BY <1>2, <2>1, <3>2, TextVerbatim
    <2>6. PICK args \in Seq(Word) :
            args = << u >> \o name /\ Len(args) = Len(name) + 1 /\ args[1] = u /\ Tail(args) = name
      BY <2>3, TailOfLine
    <2>7. Len(args) # 1
      BY <2>3, <2>6
    <2>8. IdName(message.tag, sigil, args)
            = Some([tag |-> message.tag, id |-> message.id, name |-> name])
      BY <2>2, <2>6, <2>7 DEF IdName
    <2>9. arguments \in Seq(Word) /\ arguments # << >> /\ Text(arguments) = args
      <3>1. Len(arguments) # 0
        BY <1>4, <2>1, <2>3, <2>4
      <3> QED
        BY <1>4, <2>1, <2>4, <2>5, <2>6, <3>1, EmptySeq
    <2>10. ParseKind(message.tag, IF arguments = << >> THEN EmptyText ELSE Text(arguments))
             = Some(AsText(message))
      BY <1>3, <1>4, <2>8, <2>9
    <2> QED
      BY <1>1, <2>9, <2>10, KindComesBack
  <1>5. CASE message.tag \in WindowNameKinds
    <2>1. arguments = << Shows("@", message.id) >> \o message.name
      <3>1. Arguments(message) = {<< Shows("@", message.id) >> \o message.name}
        BY <1>5, ArgumentsOf
      <3> QED
        BY <3>1
    <2> QED
      BY <1>4, <1>5, <2>1, ParseKindOf
  <1>6. CASE message.tag \in SessionNameKinds
    <2>1. arguments = << Shows("$", message.id) >> \o message.name
      <3>1. Arguments(message) = {<< Shows("$", message.id) >> \o message.name}
        BY <1>6, ArgumentsOf
      <3> QED
        BY <3>1
    <2> QED
      BY <1>4, <1>6, <2>1, ParseKindOf
  <1> QED
    BY <1>5, <1>6

LEMMA TextOfTwo ==
    ASSUME NEW u \in Word, NEW v \in Word
    PROVE  Text(<< u, v >>) = << Converted(Lossy, u), Converted(Lossy, v) >>
  <1>1. PICK s \in Seq(Word) : s = << u, v >> /\ Len(s) = 2 /\ s[1] = u /\ s[2] = v
    BY TwoWords
  <1>2. Lossy \in [Chunk -> Chunk]
    BY GrammarAssumption
  <1>3. PICK a, b \in Word : a = Converted(Lossy, u) /\ b = Converted(Lossy, v)
    BY <1>2, ConvertedWord
  <1>4. PICK t \in Seq(Word) : t = << a, b >> /\ Len(t) = 2 /\ t[1] = a /\ t[2] = b
    BY TwoWords
  <1>5. PICK e \in Seq(Word) : e = Text(s) /\ Len(e) = 2
    BY <1>1, TextJoined
  <1>6. e[1] = a /\ e[2] = b
    <2>1. 1 \in 1 .. Len(s) /\ 2 \in 1 .. Len(s)
      BY <1>1
    <2> QED
      BY <1>1, <1>2, <1>3, <1>5, <2>1, EachWord DEF Text
  <1>7. e = t
    BY <1>4, <1>5, <1>6, SeqEqual
  <1> QED
    BY <1>1, <1>3, <1>4, <1>5, <1>7

LEMMA TwoIdMessageComesBack ==
    ASSUME NEW message \in [tag : TwoIdKinds, first : WireId, second : WireId],
           NEW arguments \in Arguments(message)
    PROVE  ComesBack(message, << << "%", message.tag >> >> \o arguments)
  <1>1. message.tag \in Keyword /\ message.tag \notin GuardKind /\ message.tag \notin OutputKinds
    BY SMTT(60) DEF Keyword, TwoIdKinds, GuardKind, OutputKinds
  <1>2. AsText(message) = message
    <2>1. message.tag \notin WindowNameKinds \cup SessionNameKinds
                  \cup {"client-session-changed", "subscription-changed", "exit", "unknown"}
      BY DEF TwoIdKinds, WindowNameKinds, SessionNameKinds
    <2> QED
      BY <2>1, AsTextOf
  <1>3. message = [tag |-> message.tag, first |-> message.first, second |-> message.second]
    OBVIOUS
  <1>4. ASSUME NEW first \in {"%", "@", "$"}, NEW second \in {"%", "@", "$"},
               arguments = << Shows(first, message.first), Shows(second, message.second) >>,
               \A args : ParseKind(message.tag, args) = TwoIds(message.tag, first, second, args)
        PROVE  ComesBack(message, << << "%", message.tag >> >> \o arguments)
    <2>1. PICK u, v \in Word :
            /\ u = Shows(first, message.first) /\ Verbatim(u)
            /\ v = Shows(second, message.second) /\ Verbatim(v)
      BY ShowsVerbatim
    <2>2. /\ Id(first, u) = Some(message.first) /\ Id(second, v) = Some(message.second)
          /\ Some(message.first) # None /\ Some(message.first)[1] = message.first
          /\ Some(message.second) # None /\ Some(message.second)[1] = message.second
      BY <2>1, IdComesBack
    <2>3. PICK args \in Seq(Word) :
            args = << u, v >> /\ Len(args) = 2 /\ args[1] = u /\ args[2] = v
      BY TwoWords
    <2>4. Text(args) = args /\ args # << >>
      <3>1. Converted(Lossy, u) = u /\ Converted(Lossy, v) = v
        <4>1. Lossy \in [Chunk -> Chunk]
          BY GrammarAssumption
        <4> QED
          BY <2>1, <4>1, ConvertedWord DEF Verbatim
      <3> QED
        BY <2>3, <3>1, TextOfTwo
    <2>5. TwoIds(message.tag, first, second, args)
            = Some([tag |-> message.tag, first |-> message.first, second |-> message.second])
      BY <2>2, <2>3 DEF TwoIds
    <2>6. arguments = args
      BY <1>4, <2>1, <2>3
    <2>7. ParseKind(message.tag, IF args = << >> THEN EmptyText ELSE Text(args))
            = Some(AsText(message))
      BY <1>2, <1>3, <1>4, <2>4, <2>5
    <2> QED
      BY <1>1, <2>6, <2>7, KindComesBack
  <1>5. CASE message.tag = "window-pane-changed"
    <2>1. arguments = << Shows("@", message.first), Shows("%", message.second) >>
      <3>1. Arguments(message) = {<< Shows("@", message.first), Shows("%", message.second) >>}
        BY <1>5, ArgumentsOf
      <3> QED
        BY <3>1
    <2>2. \A args : ParseKind(message.tag, args) = TwoIds(message.tag, "@", "%", args)
      BY <1>5, ParseKindOf
    <2> QED
      BY <1>4, <2>1, <2>2
  <1>6. CASE message.tag = "session-window-changed"
    <2>1. arguments = << Shows("$", message.first), Shows("@", message.second) >>
      <3>1. Arguments(message) = {<< Shows("$", message.first), Shows("@", message.second) >>}
        BY <1>6, ArgumentsOf
      <3> QED
        BY <3>1
    <2>2. \A args : ParseKind(message.tag, args) = TwoIds(message.tag, "$", "@", args)
      BY <1>6, ParseKindOf
    <2> QED
      BY <1>4, <2>1, <2>2
  <1> QED
    BY <1>5, <1>6 DEF TwoIdKinds

LEMMA RestOf ==
    ASSUME NEW front \in Seq(Word), NEW rest \in Seq(Word), NEW line, line = front \o rest
    PROVE  SubSeq(line, Len(front) + 1, Len(line)) = rest
  <1>1. PICK s \in Seq(Word) :
          /\ s = front \o rest /\ Len(s) = Len(front) + Len(rest)
          /\ \A k \in 1 .. Len(front) : s[k] = front[k]
          /\ \A k \in Len(front) + 1 .. Len(s) : s[k] = rest[k - Len(front)]
    BY FrontAndRest
  <1>2. PICK m, n \in Nat : m = Len(front) /\ n = Len(rest)
    BY LenProperties
  <1>3. PICK a, b \in Int : a = m + 1 /\ b = m + n
    BY <1>2
  <1>4. 1 <= a /\ b <= Len(s) /\ b = Len(s)
    BY <1>1, <1>2, <1>3
  <1>5. PICK t \in Seq(Word) :
          /\ t = SubSeq(s, a, b) /\ Len(t) = (IF a <= b THEN b - a + 1 ELSE 0)
          /\ \A k \in 1 .. b - a + 1 : t[k] = s[a + k - 1]
    <2>1. PICK t : t = SubSeq(s, a, b)
      OBVIOUS
    <2>2. /\ SubSeq(s, a, b) \in Seq(Word)
          /\ Len(SubSeq(s, a, b)) = IF a <= b THEN b - a + 1 ELSE 0
          /\ \A k \in 1 .. b - a + 1 : SubSeq(s, a, b)[k] = s[a + k - 1]
      BY <1>4, PieceOf
    <2> QED
      BY <2>1, <2>2
  <1>6. Len(t) = n
    <2>1. (IF a <= b THEN b - a + 1 ELSE 0) = n
      BY <1>2, <1>3
    <2> QED
      BY <1>5, <2>1
  <1>7. ASSUME NEW k \in 1 .. n PROVE t[k] = rest[k]
    <2>1. a + k - 1 \in m + 1 .. m + n /\ (a + k - 1) - m = k /\ k \in 1 .. b - a + 1
      BY <1>2, <1>3
    <2>2. t[k] = s[a + k - 1]
      BY <1>5, <2>1
    <2>3. s[a + k - 1] = rest[(a + k - 1) - m]
      BY <1>1, <1>2, <2>1
    <2> QED
      BY <2>1, <2>2, <2>3
  <1>8. t = rest
    BY <1>2, <1>6, <1>7, SeqEqual
  <1> QED
    BY <1>1, <1>2, <1>3, <1>4, <1>5, <1>8

LEMMA ClientMessageComesBack ==
    ASSUME NEW message \in [tag : {"client-session-changed"}, client : Word, session : WireId,
                            name : Words],
           NEW arguments \in Arguments(message)
    PROVE  ComesBack(message, << << "%", message.tag >> >> \o arguments)
  <1>1. message.tag \in Keyword /\ message.tag \notin GuardKind /\ message.tag \notin OutputKinds
    BY DEF Keyword, OtherKinds, GuardKind, OutputKinds
  <1>2. Lossy \in [Chunk -> Chunk]
    BY GrammarAssumption
  <1>3. PICK name \in Words : name = Text(message.name)
    BY TextMeans
  <1>4. PICK client \in Word : client = Converted(Lossy, message.client)
    BY <1>2, ConvertedWord
  <1>5. PICK u \in Word : u = Shows("$", message.session) /\ Verbatim(u)
    BY ShowsVerbatim
  <1>6. AsText(message) = [tag |-> message.tag, client |-> client, session |-> message.session,
                           name |-> name]
    <2>1. message = [tag |-> message.tag, client |-> message.client,
                     session |-> message.session, name |-> message.name]
      OBVIOUS
    <2>2. [message EXCEPT !.client = client, !.name = name]
            = [tag |-> message.tag, client |-> client, session |-> message.session, name |-> name]
      <3>1. PICK n : n = [message EXCEPT !.client = client]
        BY ZenonT(60)
      <3>2. n = [tag |-> message.tag, client |-> client, session |-> message.session,
                 name |-> message.name]
        BY <2>1, <3>1
      <3>3. [n EXCEPT !.name = name]
              = [tag |-> message.tag, client |-> client, session |-> message.session,
                 name |-> name]
        BY <3>2
      <3> QED
        BY <3>1, <3>3
    <2>3. AsText(message) = [message EXCEPT !.client = Text(<< message.client >>)[1],
                                            !.name = Text(message.name)]
      BY AsTextOf, ZenonT(60)
    <2>4. Text(<< message.client >>)[1] = client
      BY <1>2, <1>4, EachOne DEF Text
    <2> QED
      BY <1>3, <2>2, <2>3, <2>4
  <1>7. arguments = << message.client, u >> \o message.name
    <2>1. Arguments(message) = {<< message.client, Shows("$", message.session) >> \o message.name}
      BY ArgumentsOf
    <2> QED
      BY <1>5, <2>1
  <1>8. PICK said \in Seq(Word) : said = << message.client, u >> /\ Len(said) = 2
    BY TwoWords
  <1>9. PICK front \in Seq(Word) :
          front = << client, u >> /\ Len(front) = 2 /\ front[1] = client /\ front[2] = u
    BY TwoWords
  <1>10. message.name \in Seq(Word) /\ name \in Seq(Word) /\ Len(name) \in Nat /\ Len(name) > 0
    BY LineWords
  <1>11. PICK args \in Seq(Word) :
           /\ args = front \o name /\ Len(args) = Len(front) + Len(name)
           /\ \A k \in 1 .. Len(front) : args[k] = front[k]
           /\ \A k \in Len(front) + 1 .. Len(args) : args[k] = name[k - Len(front)]
    BY <1>10, FrontAndRest
  <1>12. Text(said \o message.name) = args
    <2>1. Text(said) = front
      <3>1. Converted(Lossy, u) = u
        BY <1>2, <1>5, ConvertedWord DEF Verbatim
      <3> QED
        BY <1>4, <1>8, <1>9, <3>1, TextOfTwo
    <2>2. Text(said \o message.name) = Text(said) \o Text(message.name)
      BY <1>10, TextJoined
    <2> QED
      BY <1>3, <1>11, <2>1, <2>2
  <1>13. Len(args) >= 3 /\ args[1] = client /\ args[2] = u
    BY <1>9, <1>10, <1>11
  <1>14. SubSeq(args, 3, Len(args)) = name
    <2>1. SubSeq(args, Len(front) + 1, Len(args)) = name
      BY <1>10, <1>11, RestOf
    <2>2. Len(front) + 1 = 3
      BY <1>9
    <2> QED
      BY <2>1, <2>2
  <1>15. ParseClientSessionChanged(args)
           = Some([tag |-> message.tag, client |-> client, session |-> message.session,
                   name |-> name])
    <2>1. /\ Id("$", u) = Some(message.session)
          /\ Some(message.session) # None /\ Some(message.session)[1] = message.session
      BY <1>5, IdComesBack
    <2>2. ~(Len(args) < 3)
      BY <1>10, <1>11, <1>13
    <2> QED
      BY <1>13, <1>14, <2>1, <2>2 DEF ParseClientSessionChanged
  <1>16. PICK line \in Seq(Word) : line = said \o message.name /\ line = arguments
    <2>1. said \o message.name \in Seq(Word)
      BY <1>10, ConcatProperties
    <2> QED
      BY <1>7, <1>8, <2>1
  <1>17. arguments # << >>
    <2>1. Len(Text(line)) = Len(line)
      BY TextJoined
    <2>2. Len(line) # 0
      BY <1>12, <1>13, <1>16, <2>1
    <2> QED
      BY <1>16, <2>2, EmptySeq
  <1>18. ParseKind(message.tag, IF arguments = << >> THEN EmptyText ELSE Text(arguments))
           = Some(AsText(message))
    <2>1. ParseKind(message.tag, args) = ParseClientSessionChanged(args)
      BY ParseKindOf
    <2> QED
      BY <1>6, <1>12, <1>15, <1>16, <1>17, <2>1
  <1> QED
    BY <1>1, <1>16, <1>18, KindComesBack

LEMMA SessionsMessageComesBack ==
    ASSUME NEW message \in [tag : {"sessions-changed"}],
           NEW arguments \in Arguments(message)
    PROVE  ComesBack(message, << << "%", message.tag >> >> \o arguments)
  <1>1. message.tag \in Keyword /\ message.tag \notin GuardKind /\ message.tag \notin OutputKinds
    BY DEF Keyword, OtherKinds, GuardKind, OutputKinds
  <1>2. arguments = << >>
    <2>1. Arguments(message) = {<< >>}
      BY ArgumentsOf
    <2> QED
      BY <2>1
  <1>3. AsText(message) = message /\ message = [tag |-> message.tag]
    <2>1. message.tag \notin WindowNameKinds \cup SessionNameKinds
                  \cup {"client-session-changed", "subscription-changed", "exit", "unknown"}
      BY DEF WindowNameKinds, SessionNameKinds
    <2> QED
      BY <2>1, AsTextOf
  <1>4. ParseKind(message.tag, EmptyText) = Some([tag |-> message.tag])
    BY ParseKindOf
  <1>5. arguments \in Seq(Word)
    BY <1>2, EmptySeq
  <1> QED
    BY <1>1, <1>2, <1>3, <1>4, <1>5, KindComesBack

LEMMA UnknownMessageComesBack ==
    ASSUME NEW message \in [tag : {"unknown"}, line : Words], Reportable(message)
    PROVE  ComesBack(message, message.line)
  <1>1. PICK line, text \in Words : line = message.line /\ text = Text(line)
    BY TextMeans
  <1>2. \A kind \in Keyword : line[1] # << "%", kind >>
    BY <1>1 DEF Reportable
  <1>3. Len(line) \in Nat /\ Len(line) > 0 /\ text[1] \in Word
    BY LineWords
  <1>4. ASSUME NEW kind \in Keyword PROVE text[1] # << "%", kind >>
    <2>1. "%" \in Keyword
      BY DEF Keyword
    <2>2. 1 \in 1 .. Len(line)
      BY <1>3
    <2> QED
      BY <1>1, <1>2, <2>1, <2>2, TextMeans
  <1>5. ~IsOutputLine(line)
    BY <1>2 DEF IsOutputLine, OutputKinds, Keyword
  <1>6. ParseGuard(text) = None
    BY <1>4 DEF ParseGuard, GuardKind, Keyword
  <1>7. ParseNotification(text) = Unknown(text)
    <2>1. CASE Len(text[1]) = 2 /\ text[1][1] = "%"
      <3>1. PICK word, kind : word \in Word /\ word = text[1] /\ kind = text[1][2]
        BY <1>3
      <3>2. word = << word[1], word[2] >>
        BY <2>1, <3>1, TwoChunks
      <3>3. text[1] = << "%", kind >>
        BY <2>1, <3>1, <3>2
      <3>4. kind \notin Keyword
        BY <1>4, <3>3
      <3>5. kind \notin WindowKinds \cup PaneKinds \cup WindowNameKinds \cup SessionNameKinds
                            \cup TwoIdKinds \cup OtherKinds
        BY <3>4 DEF Keyword
      <3>6. ParseKind(kind, Args(text)) = None
        BY <3>5, ParseKindOf, ZenonT(60)
      <3> QED
        BY <2>1, <3>1, <3>6 DEF ParseNotification, OrUnknown
    <2>2. CASE ~(Len(text[1]) = 2 /\ text[1][1] = "%")
      BY <2>2 DEF ParseNotification
    <2> QED
      BY <2>1, <2>2
  <1>8. AsText(message) = Unknown(text)
    BY <1>1, AsTextOf
  <1>9. Reading(line) = AsText(message)
    BY <1>1, <1>5, <1>7, <1>8 DEF Reading
  <1>10. message.tag \notin GuardKind
    BY DEF GuardKind
  <1> QED
    BY <1>1, <1>6, <1>9, <1>10 DEF ComesBack

LEMMA JoinedAgain ==
    ASSUME NEW s \in Seq(Word), NEW t \in Seq(Word), NEW u \in Seq(Word)
    PROVE  (s \o t) \o u = s \o (t \o u)
  <1>1. PICK st \in Seq(Word) :
          /\ st = s \o t /\ Len(st) = Len(s) + Len(t)
          /\ \A k \in 1 .. Len(s) : st[k] = s[k]
          /\ \A k \in Len(s) + 1 .. Len(st) : st[k] = t[k - Len(s)]
    BY FrontAndRest
  <1>2. PICK tu \in Seq(Word) :
          /\ tu = t \o u /\ Len(tu) = Len(t) + Len(u)
          /\ \A k \in 1 .. Len(t) : tu[k] = t[k]
          /\ \A k \in Len(t) + 1 .. Len(tu) : tu[k] = u[k - Len(t)]
    BY FrontAndRest
  <1>3. PICK a \in Seq(Word) :
          /\ a = st \o u /\ Len(a) = Len(st) + Len(u)
          /\ \A k \in 1 .. Len(st) : a[k] = st[k]
          /\ \A k \in Len(st) + 1 .. Len(a) : a[k] = u[k - Len(st)]
    BY FrontAndRest
  <1>4. PICK b \in Seq(Word) :
          /\ b = s \o tu /\ Len(b) = Len(s) + Len(tu)
          /\ \A k \in 1 .. Len(s) : b[k] = s[k]
          /\ \A k \in Len(s) + 1 .. Len(b) : b[k] = tu[k - Len(s)]
    BY FrontAndRest
  <1>5. PICK l, m, n \in Nat : l = Len(s) /\ m = Len(t) /\ n = Len(u)
    BY LenProperties
  <1>6. Len(a) = l + m + n /\ Len(b) = l + m + n
    BY <1>1, <1>2, <1>3, <1>4, <1>5
  <1>7. ASSUME NEW k \in 1 .. l + m + n PROVE a[k] = b[k]
    <2>1. CASE k \in 1 .. l
      BY <1>1, <1>3, <1>4, <1>5, <2>1
    <2>2. CASE k \in l + 1 .. l + m
      <3>1. a[k] = t[k - l]
        BY <1>1, <1>3, <1>5, <2>2
      <3>2. b[k] = tu[k - l] /\ k - l \in 1 .. m
        BY <1>2, <1>4, <1>5, <2>2
      <3> QED
        BY <1>2, <1>5, <3>1, <3>2
    <2>3. CASE k \in l + m + 1 .. l + m + n
      <3>1. a[k] = u[k - (l + m)]
        BY <1>1, <1>3, <1>5, <2>3
      <3>2. b[k] = tu[k - l] /\ k - l \in m + 1 .. m + n
        BY <1>2, <1>4, <1>5, <2>3
      <3>3. tu[k - l] = u[(k - l) - m]
        BY <1>2, <1>5, <3>2
      <3>4. (k - l) - m = k - (l + m)
        BY <1>5
      <3> QED
        BY <3>1, <3>2, <3>3, <3>4
    <2> QED
      BY <1>5, <2>1, <2>2, <2>3
  <1>8. a = b
    BY <1>6, <1>7, SeqEqual
  <1> QED
    BY <1>1, <1>2, <1>3, <1>4, <1>8

LEMMA FirstSeparatorIs ==
    ASSUME NEW args, Len(args) \in Nat, NEW k \in Separators(args),
           \A j \in Separators(args) : k <= j
    PROVE  FirstSeparator(args) = k
  <1>1. PICK S \in SUBSET Nat : S = Separators(args)
    <2>1. Separators(args) \subseteq 2 .. Len(args) - 1
      BY DEF Separators
    <2> QED
      BY <2>1
  <1>2. PICK first : first = CHOOSE j \in S : \A l \in S : j <= l
    OBVIOUS
  <1>3. first \in S /\ \A j \in S : first <= j
    BY <1>1, <1>2
  <1>4. first = k
    BY <1>1, <1>3
  <1> QED
    BY <1>1, <1>2, <1>4 DEF FirstSeparator

LEMMA OutputMessageComesBack ==
    ASSUME NEW message \in [tag : {"output"}, pane : WireId, bytes : Words],
           NEW arguments \in Arguments(message)
    PROVE  ComesBack(message, << << "%", message.tag >> >> \o arguments)
  <1>1. "output" \in Keyword /\ message.tag = "output" /\ message.tag \notin GuardKind
    BY DEF Keyword, OutputKinds, GuardKind
  <1>2. Encode \in [Chunk -> Chunk] /\ Decode \in [Chunk -> Chunk]
        /\ \A c \in Chunk : Decode[Encode[c]] = c
    BY GrammarAssumption
  <1>3. PICK u \in Word : u = Shows("%", message.pane)
    BY ShowsVerbatim
  <1>4. message.bytes \in Seq(Word) /\ Len(message.bytes) \in Nat /\ Len(message.bytes) > 0
    BY LineWords
  <1>5. PICK e \in Seq(Word) : e = Escaped(message.bytes) /\ Len(e) = Len(message.bytes)
    BY <1>2, <1>4, EachMeans DEF Escaped
  <1>6. Bytes(e) = message.bytes
    BY <1>2, <1>4, <1>5, EachUndone DEF Bytes, Escaped
  <1>7. arguments = << u >> \o e
    <2>1. Arguments(message) = {<< Shows("%", message.pane) >> \o Escaped(message.bytes)}
      BY ArgumentsOf
    <2> QED
      BY <1>3, <1>5, <2>1
  <1>8. PICK args \in Seq(Word) :
          args = arguments /\ Len(args) = Len(e) + 1 /\ args[1] = u /\ Tail(args) = e
    BY <1>7, TailOfLine
  <1>9. PICK wire, text \in Words :
             /\ wire = << << "%", "output" >> >> \o args /\ text = Text(wire)
             /\ Len(wire) = Len(args) + 1 /\ Len(text) = Len(args) + 1
             /\ wire[1] = << "%", "output" >> /\ text[1] = << "%", "output" >>
             /\ Tail(wire) = args
             /\ \A k \in 1 .. Len(args) : text[k + 1] = Text(args)[k]
             /\ Args(text) = IF args = << >> THEN EmptyText ELSE Text(args)
    BY <1>1, WireText
  <1>10. ParseGuard(text) = None
    <2>1. \A kind \in GuardKind : << "%", "output" >> # << "%", kind >>
      BY DEF GuardKind
    <2> QED
      BY <1>9, <2>1 DEF ParseGuard
  <1>11. IsOutputLine(wire)
    <2>1. Len(wire) = (Len(message.bytes) + 1) + 1
      BY <1>5, <1>8, <1>9, ZenonT(60)
    <2>2. \A n \in Nat : n > 0 => (n + 1) + 1 > 1
      OBVIOUS
    <2>3. Len(wire) > 1
      BY <1>4, <2>1, <2>2, Zenon
    <2> QED
      BY <1>9, <2>3, SMTT(60) DEF IsOutputLine, OutputKinds
  <1>12. ParseOutput(args)
           = Some([tag |-> "output", pane |-> message.pane, bytes |-> message.bytes])
    <2>1. /\ Id("%", u) = Some(message.pane)
          /\ Some(message.pane) # None /\ Some(message.pane)[1] = message.pane
      BY <1>3, IdComesBack
    <2>2. Len(args) # 1
      BY <1>4, <1>5, <1>8
    <2> QED
      BY <1>6, <1>8, <2>1, <2>2 DEF ParseOutput
  <1>13. message = [tag |-> "output", pane |-> message.pane, bytes |-> message.bytes]
    BY <1>1, SMTT(60)
  <1>14. AsText(message) = message
    <2>1. message.tag \notin WindowNameKinds \cup SessionNameKinds
                  \cup {"client-session-changed", "subscription-changed", "exit", "unknown"}
      BY <1>1 DEF WindowNameKinds, SessionNameKinds
    <2> QED
      BY <2>1, AsTextOf
  <1>15. Reading(wire) = message
    <2>1. wire[1][2] = "output"
      BY <1>9
    <2>2. ParseOutput(Tail(wire)) = Some(message)
      BY <1>9, <1>12, <1>13
    <2>3. Some(message) # None /\ Some(message)[1] = message
      BY DEF Some, None
    <2>4. ParseOutputLine(wire) = Some(message)
      BY <1>11, <2>1, <2>2, <2>3 DEF ParseOutputLine, OrUnknown
    <2> QED
      BY <1>11, <2>3, <2>4 DEF Reading
  <1>16. ComesBack(message, wire)
    BY <1>1, <1>9, <1>10, <1>14, <1>15 DEF ComesBack
  <1> QED
    BY <1>1, <1>8, <1>9, <1>16

LEMMA ExtendedMessageComesBack ==
    ASSUME NEW message \in [tag : {"extended-output"}, pane : WireId, ms_behind : 0 .. MaxU64,
                            bytes : Words],
           NEW arguments \in Arguments(message)
    PROVE  ComesBack(message, << << "%", message.tag >> >> \o arguments)
  <1>1. "extended-output" \in Keyword /\ message.tag = "extended-output"
        /\ message.tag \notin GuardKind
    BY DEF Keyword, OutputKinds, GuardKind
  <1>2. Encode \in [Chunk -> Chunk] /\ Decode \in [Chunk -> Chunk]
        /\ \A c \in Chunk : Decode[Encode[c]] = c
    BY GrammarAssumption
  <1>3. PICK u, v, w \in Word :
          u = Shows("%", message.pane) /\ v = << Shown[message.ms_behind] >> /\ w = << ":" >>
    <2>1. Shows("%", message.pane) \in Word
      BY ShowsVerbatim
    <2>2. << Shown[message.ms_behind] >> \in Word
      BY NumberWord
    <2>3. << ":" >> \in Word
      <3>1. ":" \in Chunk
        BY MessagesAssumption DEF Keyword
      <3> QED
        BY <3>1, OneChunk
    <2> QED
      BY <2>1, <2>2, <2>3
  <1>4. message.bytes \in Seq(Word) /\ Len(message.bytes) \in Nat /\ Len(message.bytes) > 0
    BY LineWords
  <1>5. PICK e \in Seq(Word) : e = Escaped(message.bytes) /\ Len(e) = Len(message.bytes)
    BY <1>2, <1>4, EachMeans DEF Escaped
  <1>6. Bytes(e) = message.bytes
    BY <1>2, <1>4, <1>5, EachUndone DEF Bytes, Escaped
  <1>7. arguments = << u, v, w >> \o e
    <2>1. Arguments(message)
            = {<< Shows("%", message.pane), << Shown[message.ms_behind] >>, << ":" >> >>
                 \o Escaped(message.bytes)}
      BY ArgumentsOf
    <2> QED
      BY <1>3, <1>5, <2>1
  <1>8. PICK front \in Seq(Word) :
          front = << v, w >> /\ Len(front) = 2 /\ front[1] = v /\ front[2] = w
    BY TwoWords
  <1>9. PICK tail \in Seq(Word) :
           /\ tail = front \o e /\ Len(tail) = Len(front) + Len(e)
           /\ \A k \in 1 .. Len(front) : tail[k] = front[k]
           /\ \A k \in Len(front) + 1 .. Len(tail) : tail[k] = e[k - Len(front)]
    BY FrontAndRest
  <1>10. PICK args \in Seq(Word) :
          args = << u >> \o tail /\ Len(args) = Len(tail) + 1 /\ args[1] = u /\ Tail(args) = tail
    BY TailOfLine
  <1>11. arguments = args
    <2>1. << u, v, w >> = << u >> \o << v, w >>
      OBVIOUS
    <2>2. << u >> \in Seq(Word)
      OBVIOUS
    <2>3. PICK one \in Seq(Word) : one = << u >>
      BY <2>2
    <2>4. (one \o front) \o e = one \o (front \o e)
      BY <1>5, <1>8, <2>3, JoinedAgain
    <2> QED
      BY <1>7, <1>8, <1>9, <1>10, <2>1, <2>3, <2>4
  <1>12. PICK wire, text \in Words :
             /\ wire = << << "%", "extended-output" >> >> \o args /\ text = Text(wire)
             /\ Len(wire) = Len(args) + 1 /\ Len(text) = Len(args) + 1
             /\ wire[1] = << "%", "extended-output" >> /\ text[1] = << "%", "extended-output" >>
             /\ Tail(wire) = args
             /\ \A k \in 1 .. Len(args) : text[k + 1] = Text(args)[k]
             /\ Args(text) = IF args = << >> THEN EmptyText ELSE Text(args)
    BY <1>1, WireText, ZenonT(60)
  <1>13. ParseGuard(text) = None
    <2>1. \A kind \in GuardKind : << "%", "extended-output" >> # << "%", kind >>
      BY DEF GuardKind
    <2> QED
      BY <1>12, <2>1 DEF ParseGuard
  <1>14. Len(tail) \in Nat /\ Len(tail) >= 3 /\ Len(args) > 1 /\ Len(wire) > 1
    BY <1>4, <1>5, <1>8, <1>9, <1>10, <1>12
  <1>15. IsOutputLine(wire)
    BY <1>12, <1>14 DEF IsOutputLine, OutputKinds
  <1>16. Separators(tail) # {} /\ FirstSeparator(tail) = 2
    <2>1. tail[2] = << ":" >>
      BY <1>3, <1>8, <1>9
    <2>2. 2 \in Separators(tail) /\ \A j \in Separators(tail) : 2 <= j
      BY <1>14, <2>1 DEF Separators
    <2> QED
      BY <1>14, <2>2, FirstSeparatorIs
  <1>17. SubSeq(tail, 3, Len(tail)) = e
    <2>1. SubSeq(tail, Len(front) + 1, Len(tail)) = e
      BY <1>9, RestOf
    <2>2. Len(front) + 1 = 3
      BY <1>8
    <2> QED
      BY <2>1, <2>2
  <1>18. message = [tag |-> "extended-output", pane |-> message.pane,
                    ms_behind |-> message.ms_behind, bytes |-> message.bytes]
    BY <1>1
  <1>19. ParseExtendedOutput(args) = Some(message)
    <2>1. /\ Id("%", u) = Some(message.pane)
          /\ Some(message.pane) # None /\ Some(message.pane)[1] = message.pane
      BY <1>3, IdComesBack
    <2>2. /\ ParseNumber(v, MaxU64) = Some(message.ms_behind)
          /\ Some(message.ms_behind) # None /\ Some(message.ms_behind)[1] = message.ms_behind
      BY <1>3, NumberComesBack
    <2>3. tail[1] = v
      BY <1>8, <1>9
    <2>4. ExtendedOutput(message.pane, message.ms_behind, tail) = message
      BY <1>6, <1>17, <1>18, ZenonT(60) DEF ExtendedOutput
    <2> QED
      BY <1>10, <1>14, <1>16, <2>1, <2>2, <2>3, <2>4 DEF ParseExtendedOutput
  <1>20. AsText(message) = message
    <2>1. message.tag \notin WindowNameKinds \cup SessionNameKinds
                  \cup {"client-session-changed", "subscription-changed", "exit", "unknown"}
      BY <1>1 DEF WindowNameKinds, SessionNameKinds
    <2> QED
      BY <2>1, AsTextOf, ZenonT(60)
  <1>21. Reading(wire) = message
    <2>1. wire[1][2] # "output"
      BY <1>12
    <2>2. ParseExtendedOutput(Tail(wire)) = Some(message)
      BY <1>12, <1>19
    <2>3. Some(message) # None /\ Some(message)[1] = message
      BY DEF Some, None
    <2>4. ParseOutputLine(wire) = Some(message)
      BY <1>15, <2>1, <2>2, <2>3 DEF ParseOutputLine, OrUnknown
    <2> QED
      BY <1>15, <2>3, <2>4 DEF Reading
  <1>22. ComesBack(message, wire)
    BY <1>1, <1>12, <1>13, <1>20, <1>21 DEF ComesBack
  <1> QED
    BY <1>1, <1>11, <1>12, <1>22

LEMMA GuardMessageComesBack ==
    ASSUME NEW message \in [tag : GuardKind, number : 0 .. MaxU64, flags : 0 .. MaxU32],
           NEW arguments \in Arguments(message)
    PROVE  ComesBack(message, << << "%", message.tag >> >> \o arguments)
  <1>1. message.tag \in Keyword /\ message.tag \in GuardKind
    BY DEF Keyword
  <1>2. Lossy \in [Chunk -> Chunk]
    BY GrammarAssumption
  <1>3. PICK t \in Word : t = << "time" >>
    <2>1. "time" \in Chunk
      BY MessagesAssumption
    <2> QED
      BY <2>1, OneChunk
  <1>4. PICK u \in Word : u = << Shown[message.number] >> /\ Verbatim(u)
                          /\ ParseNumber(u, MaxU64) = Some(message.number)
    BY NumberComesBack
  <1>5. PICK v \in Word : v = << Shown[message.flags] >> /\ Verbatim(v)
                          /\ ParseNumber(v, MaxU32) = Some(message.flags)
    BY NumberComesBack
  <1>6. PICK args \in Seq(Word) :
          args = << t, u, v >> /\ Len(args) = 3 /\ args[1] = t /\ args[2] = u /\ args[3] = v
    BY ThreeWords
  <1>7. arguments = args
    <2>1. Arguments(message)
            = {<< << "time" >>, << Shown[message.number] >>, << Shown[message.flags] >> >>}
      BY <1>1, ArgumentsOf
    <2> QED
      BY <1>3, <1>4, <1>5, <1>6, <2>1
  <1>8. PICK tag \in Keyword : tag = message.tag
    BY <1>1
  <1>9. PICK wire, text \in Words :
             /\ wire = << << "%", tag >> >> \o args /\ text = Text(wire)
             /\ Len(wire) = Len(args) + 1 /\ Len(text) = Len(args) + 1
             /\ wire[1] = << "%", tag >> /\ text[1] = << "%", tag >>
             /\ Tail(wire) = args
             /\ \A k \in 1 .. Len(args) : text[k + 1] = Text(args)[k]
             /\ Args(text) = IF args = << >> THEN EmptyText ELSE Text(args)
    BY <1>6, <1>8, WireText
  <1>10. Len(text) = 4 /\ text[3] = u /\ text[4] = v
    <2>1. 2 \in 1 .. Len(args) /\ 3 \in 1 .. Len(args)
      BY <1>6
    <2>2. Text(args)[2] = Converted(Lossy, u) /\ Text(args)[3] = Converted(Lossy, v)
      BY <1>2, <1>6, <2>1, EachWord DEF Text
    <2>3. Converted(Lossy, u) = u /\ Converted(Lossy, v) = v
      BY <1>2, <1>4, <1>5, ConvertedWord DEF Verbatim
    <2>4. text[2 + 1] = u /\ text[3 + 1] = v
      BY <1>9, <2>1, <2>2, <2>3
    <2> QED
      BY <1>6, <1>9, <2>4
  <1>11. ParseGuard(text) = Some([kind |-> tag, number |-> message.number,
                                  control |-> message.flags # 0])
    <2>1. /\ Some(message.number) # None /\ Some(message.number)[1] = message.number
          /\ Some(message.flags) # None /\ Some(message.flags)[1] = message.flags
      BY DEF Some, None
    <2>2. \E kind \in GuardKind : text[1] = << "%", kind >>
      BY <1>1, <1>8, <1>9
    <2>3. ParseGuard(text) = Some([kind |-> text[1][2], number |-> ParseNumber(text[3], MaxU64)[1],
                                   control |-> ParseNumber(text[4], MaxU32)[1] # 0])
      BY <1>4, <1>5, <1>10, <2>1, <2>2 DEF ParseGuard
    <2>4. text[1][2] = tag
      <3>1. << "%", tag >>[2] = tag
        OBVIOUS
      <3> QED
        BY <1>9, <3>1
    <2>5. ParseNumber(text[3], MaxU64)[1] = message.number
      BY <1>4, <1>10, <2>1
    <2>6. ParseNumber(text[4], MaxU32)[1] = message.flags
      BY <1>5, <1>10, <2>1
    <2> QED
      BY <2>3, <2>4, <2>5, <2>6
  <1> QED
    BY <1>1, <1>7, <1>8, <1>9, <1>11 DEF ComesBack

LEMMA ExitMessageComesBack ==
    ASSUME NEW message \in [tag : {"exit"}, reason : Option(Words)], Reportable(message),
           NEW arguments \in Arguments(message)
    PROVE  ComesBack(message, << << "%", message.tag >> >> \o arguments)
  <1>1. message.tag \in Keyword /\ message.tag \notin GuardKind /\ message.tag \notin OutputKinds
    BY DEF Keyword, OtherKinds, GuardKind, OutputKinds
  <1>2. Arguments(message) = {IF message.reason = None THEN << >> ELSE message.reason[1]}
    BY ArgumentsOf
  <1>3. \A args : ParseKind(message.tag, args)
                    = Some([tag |-> message.tag, reason |-> OptionalReason(args)])
    BY ParseKindOf
  <1>4. message = [tag |-> message.tag, reason |-> message.reason]
    OBVIOUS
  <1>5. CASE message.reason = None
    <2>1. arguments = << >>
      BY <1>2, <1>5
    <2>2. OptionalReason(EmptyText) = None
      <3>1. DOMAIN EmptyText = {1} /\ EmptyText[1] = << >>
        BY DEF EmptyText
      <3>2. {k \in DOMAIN EmptyText : EmptyText[k] # << >>} = {}
        BY <3>1, SMTT(60)
      <3> QED
        BY <3>2 DEF OptionalReason
    <2>3. AsText(message) = message
      BY <1>5, AsTextOf
    <2>4. ParseKind(message.tag, EmptyText) = Some(AsText(message))
      BY <1>3, <1>4, <1>5, <2>2, <2>3
    <2>5. arguments \in Seq(Word)
      BY <2>1, EmptySeq
    <2> QED
      BY <1>1, <2>1, <2>4, <2>5, KindComesBack
  <1>6. CASE message.reason # None
    <2>1. PICK reason \in Words : reason = message.reason[1]
      <3>1. PICK s \in Seq(Words) : s = message.reason /\ s # << >>
        BY <1>6 DEF Option, None
      <3>2. Len(s) \in Nat /\ Len(s) # 0
        BY <3>1, EmptySeq, LenProperties
      <3>3. 1 \in 1 .. Len(s)
        BY <3>2
      <3> QED
        BY <3>1, <3>3, ElementOfSeq
    <2>2. arguments = reason
      BY <1>2, <1>6, <2>1
    <2>3. reason[1] # << >> /\ reason[Len(reason)] # << >>
      BY <1>6, <2>1 DEF Reportable
    <2>4. reason \in Seq(Word) /\ reason # << >> /\ Len(reason) \in Nat /\ Len(reason) > 0
      BY LineWords DEF Words
    <2>5. PICK text \in Words : text = Text(reason) /\ Len(text) = Len(reason)
      BY TextMeans
    <2>6. /\ text \in Seq(Word) /\ DOMAIN text = 1 .. Len(text)
      BY LineWords
    <2>7. ASSUME NEW k \in 1 .. Len(reason), reason[k] # << >> PROVE text[k] # << >>
      <3>1. reason[k] \in Seq(Chunk)
        BY <2>4, <2>7, ElementOfSeq DEF Word
      <3>2. Len(reason[k]) # 0
        BY <2>7, <3>1, EmptySeq
      <3>3. Len(text[k]) = Len(reason[k])
        <4>1. Lossy \in [Chunk -> Chunk]
          BY GrammarAssumption
        <4> QED
          BY <2>4, <2>5, <2>7, <4>1, EachMeans DEF Text
      <3>4. Len(<< >>) = 0
        OBVIOUS
      <3> QED
        BY <3>2, <3>3, <3>4
    <2>8. text[1] # << >> /\ text[Len(text)] # << >>
      <3>1. 1 \in 1 .. Len(reason) /\ Len(reason) \in 1 .. Len(reason)
        BY <2>4
      <3> QED
        BY <2>3, <2>5, <2>7, <3>1
    <2>9. PICK ink \in SUBSET Nat : ink = {k \in DOMAIN text : text[k] # << >>}
      <3>1. {k \in DOMAIN text : text[k] # << >>} \subseteq 1 .. Len(text)
        BY <2>6
      <3>2. 1 .. Len(text) \subseteq Nat
        OBVIOUS
      <3> QED
        BY <3>1, <3>2
    <2>10. ink \subseteq 1 .. Len(text) /\ 1 \in ink /\ Len(text) \in ink
      <3>1. 1 \in 1 .. Len(text) /\ Len(text) \in 1 .. Len(text)
        BY <2>4, <2>5
      <3> QED
        BY <2>6, <2>8, <2>9, <3>1
    <2>11. (CHOOSE k \in ink : \A j \in ink : k <= j) = 1
      <3>1. PICK least : least = CHOOSE k \in ink : \A j \in ink : k <= j
        OBVIOUS
      <3>2. \A j \in ink : 1 <= j
        BY <2>10
      <3>3. least \in ink /\ \A j \in ink : least <= j
        BY <2>10, <3>1, <3>2
      <3>4. least = 1
        BY <2>9, <2>10, <3>2, <3>3
      <3> QED
        BY <3>1, <3>4
    <2>12. (CHOOSE k \in ink : \A j \in ink : j <= k) = Len(text)
      <3>1. PICK most : most = CHOOSE k \in ink : \A j \in ink : j <= k
        OBVIOUS
      <3>2. \A j \in ink : j <= Len(text)
        BY <2>10
      <3>3. most \in ink /\ \A j \in ink : j <= most
        BY <2>10, <3>1, <3>2
      <3>4. most = Len(text)
        BY <2>9, <2>10, <3>2, <3>3
      <3> QED
        BY <3>1, <3>4
    <2>13. SubSeq(text, 1, Len(text)) = text
      <3>1. PICK s \in Seq(Word) :
              /\ s = SubSeq(text, 1, Len(text)) /\ Len(s) = Len(text)
              /\ \A k \in 1 .. Len(text) : s[k] = text[k]
        <4>1. PICK n \in Nat : n = Len(text) /\ 1 <= n
          BY <2>4, <2>5
        <4>2. PICK s : s = SubSeq(text, 1, n)
          OBVIOUS
        <4>3. /\ SubSeq(text, 1, n) \in Seq(Word)
              /\ Len(SubSeq(text, 1, n)) = IF 1 <= n THEN n - 1 + 1 ELSE 0
              /\ \A k \in 1 .. n - 1 + 1 : SubSeq(text, 1, n)[k] = text[1 + k - 1]
          BY <2>6, <4>1, PieceOf
        <4>4. (IF 1 <= n THEN n - 1 + 1 ELSE 0) = n /\ n - 1 + 1 = n
          BY <4>1
        <4>5. \A k \in 1 .. n : 1 + k - 1 = k
          OBVIOUS
        <4> QED
          BY <4>1, <4>2, <4>3, <4>4, <4>5
      <3> QED
        BY <2>6, <3>1, SeqEqual
    <2>14. OptionalReason(text) = Some(text)
      BY <2>9, <2>10, <2>11, <2>12, <2>13 DEF OptionalReason
    <2>15. AsText(message) = [tag |-> message.tag, reason |-> Some(text)]
      <3>1. [message EXCEPT !.reason = Some(text)] = [tag |-> message.tag, reason |-> Some(text)]
        BY <1>4
      <3>2. AsText(message) = [message EXCEPT !.reason = Some(Text(message.reason[1]))]
        BY <1>6, AsTextOf, ZenonT(60)
      <3> QED
        BY <2>1, <2>5, <3>1, <3>2
    <2>16. ParseKind(message.tag, text) = Some(AsText(message))
      BY <1>3, <2>14, <2>15
    <2>17. ParseKind(message.tag, IF arguments = << >> THEN EmptyText ELSE Text(arguments))
             = Some(AsText(message))
      BY <2>2, <2>4, <2>5, <2>16
    <2> QED
      BY <1>1, <2>2, <2>4, <2>17, KindComesBack
  <1> QED
    BY <1>5, <1>6

LEMMA SubscriptionArguments ==
    ASSUME NEW n, n.tag = "subscription-changed"
    PROVE  Arguments(n) = {<< n.name >> \o header \o << << ":" >> >> \o n.value :
                             header \in SubscriptionHeader}
  BY ArgumentsOf, ZenonT(60)

LEMMA SubscriptionMessageComesBack ==
    ASSUME NEW message \in [tag : {"subscription-changed"}, name : Word, value : Words],
           NEW arguments \in Arguments(message)
    PROVE  ComesBack(message, << << "%", message.tag >> >> \o arguments)
  <1>1. message.tag \in Keyword /\ message.tag \notin GuardKind /\ message.tag \notin OutputKinds
    BY DEF Keyword, OtherKinds, GuardKind, OutputKinds
  <1>2. Lossy \in [Chunk -> Chunk] /\ ":" \in Chunk /\ \A c \in Chunk : Lossy[c] = ":" <=> c = ":"
    BY GrammarAssumption, MessagesAssumption DEF Keyword
  <1>3. PICK header \in SubscriptionHeader :
          arguments = << message.name >> \o header \o << << ":" >> >> \o message.value
    <2>1. Arguments(message)
            = {<< message.name >> \o header \o << << ":" >> >> \o message.value :
                 header \in SubscriptionHeader}
      BY SubscriptionArguments
    <2> QED
      BY <2>1
  <1>4. header \in Words /\ \A k \in DOMAIN header : header[k] # << ":" >>
    BY <1>3, MessagesAssumption
  <1>5. /\ header \in Seq(Word) /\ Len(header) \in Nat /\ DOMAIN header = 1 .. Len(header)
        /\ \A k \in 1 .. Len(header) : header[k] \in Word
    BY <1>4, LineWords
  <1>6. PICK colon \in Word : colon = << ":" >> /\ Len(colon) = 1 /\ colon[1] = ":"
    BY <1>2, OneChunk
  <1>7. PICK name \in Word : name = Converted(Lossy, message.name)
    BY <1>2, ConvertedWord
  <1>8. PICK value \in Words : value = Text(message.value)
    BY TextMeans
  <1>9. /\ message.value \in Seq(Word) /\ value \in Seq(Word)
        /\ Len(value) \in Nat /\ Len(value) > 0
    BY LineWords
  <1>10. PICK fields \in Seq(Word) : fields = Text(header) /\ Len(fields) = Len(header)
    BY <1>5, TextJoined
  <1>11. ASSUME NEW k \in 1 .. Len(header) PROVE fields[k] # colon
    <2>1. /\ fields[k] \in Word /\ Len(fields[k]) = Len(header[k])
          /\ \A c \in 1 .. Len(header[k]) : fields[k][c] = Lossy[header[k][c]]
      BY <1>2, <1>5, <1>10, <1>11, EachMeans DEF Text
    <2>2. header[k] \in Seq(Chunk)
      BY <1>5 DEF Word
    <2>3. SUFFICES ASSUME fields[k] = colon PROVE FALSE
      OBVIOUS
    <2>4. Len(header[k]) = 1 /\ Lossy[header[k][1]] = ":"
      BY <1>6, <2>1, <2>3
    <2>5. header[k][1] \in Chunk
      BY <2>2, <2>4, ElementOfSeq
    <2>6. header[k][1] = ":"
      BY <1>2, <2>4, <2>5
    <2>7. colon \in Seq(Chunk)
      BY DEF Word
    <2>8. header[k] = colon
      BY <1>6, <2>2, <2>4, <2>6, <2>7, SeqEqual
    <2> QED
      BY <1>4, <1>5, <1>6, <2>8
  <1>12. PICK named \in Seq(Word) :
           /\ named = << name >> \o fields /\ Len(named) = Len(fields) + 1
           /\ named[1] = name /\ \A k \in 1 .. Len(fields) : named[k + 1] = fields[k]
    <2>1. PICK line : line = << name >> \o fields
      OBVIOUS
    <2>2. /\ << name >> \o fields \in Seq(Word) /\ Len(<< name >> \o fields) = Len(fields) + 1
          /\ (<< name >> \o fields)[1] = name
          /\ \A k \in 1 .. Len(fields) : (<< name >> \o fields)[k + 1] = fields[k]
      BY <1>7, <1>10, TailOfLine
    <2> QED
      BY <2>1, <2>2
  <1>13. PICK one \in Seq(Word) : one = << colon >> /\ Len(one) = 1 /\ one[1] = colon
    BY OneWord
  <1>14. PICK front \in Seq(Word) :
           /\ front = named \o one /\ Len(front) = Len(named) + Len(one)
           /\ \A k \in 1 .. Len(named) : front[k] = named[k]
           /\ \A k \in Len(named) + 1 .. Len(front) : front[k] = one[k - Len(named)]
    BY FrontAndRest
  <1>15. PICK args \in Seq(Word) :
           /\ args = front \o value /\ Len(args) = Len(front) + Len(value)
           /\ \A k \in 1 .. Len(front) : args[k] = front[k]
           /\ \A k \in Len(front) + 1 .. Len(args) : args[k] = value[k - Len(front)]
    BY <1>9, FrontAndRest
  <1>16. PICK n \in Nat : n = Len(header)
    BY <1>5
  <1>17. Len(named) = n + 1 /\ Len(front) = n + 2 /\ Len(args) = n + 2 + Len(value)
    <2>1. Len(named) = n + 1
      BY <1>10, <1>12, <1>16
    <2>2. Len(front) = n + 2
      BY <1>13, <1>14, <1>16, <2>1
    <2> QED
      BY <1>15, <2>1, <2>2
  <1>18. args[1] = name
    BY <1>12, <1>14, <1>15, <1>16, <1>17
  <1>19. args[n + 2] = << ":" >>
    <2>1. front[n + 2] = one[1]
      <3>1. n + 2 \in Len(named) + 1 .. Len(front) /\ (n + 2) - Len(named) = 1
        BY <1>16, <1>17
      <3> QED
        BY <1>14, <3>1
    <2>2. n + 2 \in 1 .. Len(front)
      BY <1>16, <1>17
    <2> QED
      BY <1>6, <1>13, <1>15, <2>1, <2>2
  <1>20. ASSUME NEW k \in 2 .. n + 1 PROVE args[k] # << ":" >>
    <2>1. k - 1 \in 1 .. n /\ (k - 1) + 1 = k /\ k \in 1 .. n + 1 /\ k \in 1 .. n + 2
      BY <1>16
    <2>2. named[(k - 1) + 1] = fields[k - 1]
      BY <1>10, <1>12, <1>16, <2>1
    <2>3. args[k] = fields[k - 1]
      BY <1>14, <1>15, <1>17, <2>1, <2>2
    <2> QED
      BY <1>6, <1>11, <1>16, <2>1, <2>3
  <1>21. Separators(args) # {} /\ FirstSeparator(args) = n + 2
    <2>1. Len(args) \in Nat
      BY LenProperties
    <2>2. n + 2 \in Separators(args)
      BY <1>9, <1>17, <1>19, SMTT(60) DEF Separators
    <2>3. \A j \in Separators(args) : n + 2 <= j
      BY <1>16, <1>20, <2>1 DEF Separators
    <2> QED
      BY <2>1, <2>2, <2>3, FirstSeparatorIs
  <1>22. SubSeq(args, n + 2 + 1, Len(args)) = value
    <2>1. SubSeq(args, Len(front) + 1, Len(args)) = value
      BY <1>9, <1>15, RestOf
    <2> QED
      BY <1>17, <2>1
  <1>23. ParseSubscription(args) = Some([tag |-> message.tag, name |-> name, value |-> value])
    BY <1>18, <1>21, <1>22 DEF ParseSubscription
  <1>24. PICK said \in Seq(Word) : said = << message.name >> /\ Text(said) = << name >>
    <2>1. << message.name >> \in Seq(Word)
      OBVIOUS
    <2>2. Text(<< message.name >>) = << name >>
      BY <1>2, <1>7, EachOne DEF Text
    <2> QED
      BY <2>1, <2>2
  <1>25. arguments \in Seq(Word) /\ Text(arguments) = args
    <2>1. PICK a \in Seq(Word) : a = said \o header /\ Text(a) = named
      <3>1. said \o header \in Seq(Word)
        BY <1>5, ConcatProperties
      <3>2. Text(said \o header) = Text(said) \o Text(header)
        BY <1>5, TextJoined
      <3> QED
        BY <1>10, <1>12, <1>24, <3>1, <3>2
    <2>2. PICK b \in Seq(Word) : b = a \o one /\ Text(b) = front
      <3>1. a \o one \in Seq(Word)
        BY ConcatProperties
      <3>2. Text(a \o one) = Text(a) \o Text(one)
        BY TextJoined
      <3>3. Text(one) = one
        <4>1. ":" \in Keyword
          BY DEF Keyword
        <4>2. Verbatim(colon)
          BY <1>2, <1>6 DEF Verbatim
        <4> QED
          BY <1>13, <4>2, TextVerbatim
      <3> QED
        BY <1>14, <2>1, <3>1, <3>2, <3>3
    <2>3. /\ b \o message.value \in Seq(Word)
          /\ Text(b \o message.value) = Text(b) \o Text(message.value)
      BY <1>9, ConcatProperties, TextJoined
    <2>4. arguments = b \o message.value
      BY <1>3, <1>6, <1>13, <1>24, <2>1, <2>2
    <2> QED
      BY <1>8, <1>15, <2>2, <2>3, <2>4
  <1>26. arguments # << >>
    <2>1. PICK line \in Seq(Word) : line = arguments
      BY <1>25
    <2>2. Len(Text(line)) = Len(line)
      BY TextJoined
    <2>3. Len(line) # 0
      BY <1>9, <1>16, <1>17, <1>25, <2>1, <2>2
    <2> QED
      BY <2>1, <2>3, EmptySeq
  <1>27. AsText(message) = [tag |-> message.tag, name |-> name, value |-> value]
    <2>1. message = [tag |-> message.tag, name |-> message.name, value |-> message.value]
      OBVIOUS
    <2>2. PICK m : m = [message EXCEPT !.value = value]
      OBVIOUS
    <2>3. m = [tag |-> message.tag, name |-> message.name, value |-> value]
      BY <2>1, <2>2
    <2>4. [m EXCEPT !.name = name] = [tag |-> message.tag, name |-> name, value |-> value]
      <3>1. PICK tag, old : tag = message.tag /\ old = message.name
        OBVIOUS
      <3>2. m = [tag |-> tag, name |-> old, value |-> value]
        BY <2>3, <3>1
      <3>3. [m EXCEPT !.name = name] = [tag |-> tag, name |-> name, value |-> value]
        BY <3>2, SMTT(60)
      <3> QED
        BY <3>1, <3>3
    <2>5. AsText(message) = [message EXCEPT !.name = Text(<< message.name >>)[1],
                                            !.value = Text(message.value)]
      BY AsTextOf, ZenonT(60)
    <2>6. Text(<< message.name >>)[1] = name
      BY <1>24
    <2> QED
      BY <1>8, <2>2, <2>4, <2>5, <2>6
  <1>28. ParseKind(message.tag, args) = ParseSubscription(args)
    BY ParseKindOf
  <1>29. ParseKind(message.tag, IF arguments = << >> THEN EmptyText ELSE Text(arguments))
           = Some(AsText(message))
    BY <1>23, <1>25, <1>26, <1>27, <1>28
  <1> QED
    BY <1>1, <1>25, <1>29, KindComesBack

LEMMA MembersJoined ==
    ASSUME NEW s \in Seq(Chunk), NEW t \in Seq(Chunk)
    PROVE  \E st \in Seq(Chunk) : st = s \o t /\ ToSet(st) = ToSet(s) \cup ToSet(t)
  <1>1. PICK st : st = s \o t
    OBVIOUS
  <1>2. /\ st \in Seq(Chunk) /\ Len(st) = Len(s) + Len(t)
        /\ \A k \in 1 .. Len(s) + Len(t) : st[k] = IF k <= Len(s) THEN s[k] ELSE t[k - Len(s)]
    BY <1>1, ConcatProperties
  <1>3. /\ Len(s) \in Nat /\ DOMAIN s = 1 .. Len(s) /\ Len(t) \in Nat /\ DOMAIN t = 1 .. Len(t)
        /\ DOMAIN st = 1 .. Len(s) + Len(t)
    BY <1>2, LenProperties
  <1>4. ASSUME NEW k \in DOMAIN st PROVE st[k] \in ToSet(s) \cup ToSet(t)
    <2>1. CASE k <= Len(s)
      BY <1>2, <1>3, <2>1 DEF ToSet
    <2>2. CASE ~(k <= Len(s))
      <3>1. k - Len(s) \in 1 .. Len(t) /\ st[k] = t[k - Len(s)]
        BY <1>2, <1>3, <2>2
      <3> QED
        BY <1>3, <3>1 DEF ToSet
    <2> QED
      BY <2>1, <2>2
  <1>5. ASSUME NEW k \in DOMAIN s PROVE s[k] \in ToSet(st)
    <2>1. k \in DOMAIN st /\ st[k] = s[k]
      BY <1>2, <1>3
    <2> QED
      BY <2>1 DEF ToSet
  <1>6. ASSUME NEW k \in DOMAIN t PROVE t[k] \in ToSet(st)
    <2>1. k + Len(s) \in 1 .. Len(s) + Len(t) /\ ~(k + Len(s) <= Len(s))
          /\ (k + Len(s)) - Len(s) = k
      BY <1>3
    <2>2. k + Len(s) \in DOMAIN st /\ st[k + Len(s)] = t[k]
      BY <1>2, <1>3, <2>1
    <2> QED
      BY <2>2 DEF ToSet
  <1>7. ToSet(st) = ToSet(s) \cup ToSet(t)
    <2>1. ToSet(st) \subseteq ToSet(s) \cup ToSet(t)
      BY <1>4 DEF ToSet
    <2>2. ToSet(s) \subseteq ToSet(st)
      BY <1>5 DEF ToSet
    <2>3. ToSet(t) \subseteq ToSet(st)
      BY <1>6 DEF ToSet
    <2> QED
      BY <2>1, <2>2, <2>3
  <1> QED
    BY <1>1, <1>2, <1>7

(* The marks of the flags that are set, then the unknown ones.             *)
LEMMA FlagWordMeans ==
    ASSUME NEW flags \in FlagSet, flags.set \subseteq Chunk
    PROVE  \E marks \in Seq(Chunk) : FlagWord(flags) = marks \o flags.unknown
                                     /\ ToSet(marks) = flags.set
  <1> DEFINE Mark(c) == IF c \in flags.set THEN << c >> ELSE << >>
  <1>1. ASSUME NEW c PROVE Mark(c) \in Seq(Chunk) /\ ToSet(Mark(c)) = {c} \cap flags.set
    <2>1. CASE c \in flags.set
      <3>1. PICK s : s = << c >>
        OBVIOUS
      <3>2. s \in Seq(Chunk) /\ DOMAIN s = {1} /\ s[1] = c
        BY <2>1, <3>1
      <3>3. ToSet(s) = {c}
        BY <3>2 DEF ToSet
      <3> QED
        BY <2>1, <3>1, <3>2, <3>3
    <2>2. CASE c \notin flags.set
      <3>1. PICK s \in Seq(Chunk) : s = << >>
        BY EmptySeq
      <3>2. DOMAIN s = {}
        BY <3>1
      <3>3. ToSet(s) = {}
        BY <3>2 DEF ToSet
      <3> QED
        BY <2>2, <3>1, <3>3
    <2> QED
      BY <2>1, <2>2
  <1>2. FlagWord(flags)
          = Mark("#") \o Mark("!") \o Mark("~") \o Mark("*") \o Mark("-") \o Mark("M") \o Mark("Z")
              \o flags.unknown
    BY DEF FlagWord
  <1> HIDE DEF Mark
  <1>3. PICK a, b, c, d, e, f, g \in Seq(Chunk) :
          /\ a = Mark("#") /\ b = Mark("!") /\ c = Mark("~") /\ d = Mark("*")
          /\ e = Mark("-") /\ f = Mark("M") /\ g = Mark("Z")
    BY <1>1
  <1>4. /\ ToSet(a) = {"#"} \cap flags.set /\ ToSet(b) = {"!"} \cap flags.set
        /\ ToSet(c) = {"~"} \cap flags.set /\ ToSet(d) = {"*"} \cap flags.set
        /\ ToSet(e) = {"-"} \cap flags.set /\ ToSet(f) = {"M"} \cap flags.set
        /\ ToSet(g) = {"Z"} \cap flags.set
    BY <1>1, <1>3
  <1>5. PICK ab \in Seq(Chunk) : ab = a \o b /\ ToSet(ab) = ToSet(a) \cup ToSet(b)
    BY <1>3, MembersJoined, ZenonT(60)
  <1>6. PICK abc \in Seq(Chunk) : abc = ab \o c /\ ToSet(abc) = ToSet(ab) \cup ToSet(c)
    BY <1>3, <1>5, MembersJoined, ZenonT(60)
  <1>7. PICK abcd \in Seq(Chunk) : abcd = abc \o d /\ ToSet(abcd) = ToSet(abc) \cup ToSet(d)
    BY <1>3, <1>6, MembersJoined
  <1>8. PICK p \in Seq(Chunk) : p = abcd \o e /\ ToSet(p) = ToSet(abcd) \cup ToSet(e)
    BY <1>3, <1>7, MembersJoined
  <1>9. PICK q \in Seq(Chunk) : q = p \o f /\ ToSet(q) = ToSet(p) \cup ToSet(f)
    BY <1>3, <1>8, MembersJoined
  <1>10. PICK marks \in Seq(Chunk) : marks = q \o g /\ ToSet(marks) = ToSet(q) \cup ToSet(g)
    BY <1>3, <1>9, MembersJoined
  <1>11. FlagWord(flags) = marks \o flags.unknown
    BY <1>2, <1>3, <1>5, <1>6, <1>7, <1>8, <1>9, <1>10
  <1>12. flags.set \subseteq {"#", "!", "~", "*", "-", "M", "Z"}
    BY DEF FlagSet, KnownFlag
  <1>13. ToSet(marks) = flags.set
    <2>1. ToSet(marks) = ({"#"} \cap flags.set) \cup ({"!"} \cap flags.set)
                           \cup ({"~"} \cap flags.set) \cup ({"*"} \cap flags.set)
                           \cup ({"-"} \cap flags.set) \cup ({"M"} \cap flags.set)
                           \cup ({"Z"} \cap flags.set)
      BY <1>4, <1>5, <1>6, <1>7, <1>8, <1>9, <1>10
    <2> QED
      BY <1>12, <2>1
  <1> QED
    BY <1>11, <1>13

LEMMA FlagsComeBack ==
    ASSUME NEW flags \in FlagSet, flags.set \subseteq Chunk,
           \A c \in ToSet(flags.unknown) : c \notin KnownFlag /\ Lossy[c] = c
    PROVE  /\ FlagWord(flags) \in Word /\ Verbatim(FlagWord(flags))
           /\ ParseWindowFlags(FlagWord(flags)) = flags
  <1>1. PICK marks \in Seq(Chunk) :
          FlagWord(flags) = marks \o flags.unknown /\ ToSet(marks) = flags.set
    BY FlagWordMeans
  <1>2. PICK rest \in Seq(Chunk) : rest = flags.unknown
    BY DEF FlagSet, Word
  <1>3. PICK m, n \in Nat : m = Len(marks) /\ n = Len(rest)
    BY LenProperties
  <1>4. PICK field : field = marks \o rest
    OBVIOUS
  <1>5. /\ field \in Seq(Chunk) /\ Len(field) = m + n
        /\ \A k \in 1 .. m + n : field[k] = IF k <= m THEN marks[k] ELSE rest[k - m]
    BY <1>3, <1>4, ConcatProperties
  <1>6. DOMAIN field = 1 .. m + n /\ DOMAIN marks = 1 .. m /\ DOMAIN rest = 1 .. n
    BY <1>3, <1>5, LenProperties
  <1>7. field = FlagWord(flags) /\ field \in Word
    BY <1>1, <1>2, <1>4, <1>5 DEF Word
  <1>8. flags.set \subseteq KnownFlag
    BY DEF FlagSet
  <1>9. ASSUME NEW k \in 1 .. m
        PROVE  field[k] \in KnownFlag /\ field[k] \in Chunk /\ field[k] = marks[k]
    <2>1. k \in 1 .. m + n /\ k <= m
      BY <1>3
    <2>2. field[k] = marks[k] /\ marks[k] \in ToSet(marks)
      BY <1>5, <1>6, <2>1 DEF ToSet
    <2> QED
      BY <1>1, <1>8, <2>2
  <1>10. ASSUME NEW k \in m + 1 .. m + n
         PROVE  /\ field[k] \notin KnownFlag /\ Lossy[field[k]] = field[k]
                /\ field[k] = rest[k - m] /\ k - m \in 1 .. n
    <2>1. k \in 1 .. m + n /\ ~(k <= m) /\ k - m \in 1 .. n
      BY <1>3
    <2>2. field[k] = rest[k - m] /\ rest[k - m] \in ToSet(rest)
      BY <1>5, <1>6, <2>1 DEF ToSet
    <2> QED
      BY <1>2, <2>1, <2>2
  <1>11. \A k \in 1 .. m + n : k \in 1 .. m \/ k \in m + 1 .. m + n
    BY <1>3
  <1>12. Verbatim(field)
    <2>1. ASSUME NEW k \in 1 .. m + n PROVE Lossy[field[k]] = field[k]
      <3>1. CASE k \in 1 .. m
        BY <1>9, <3>1, GrammarAssumption
      <3>2. CASE k \in m + 1 .. m + n
        BY <1>10, <3>2
      <3> QED
        BY <1>11, <3>1, <3>2
    <2> QED
      BY <1>5, <2>1 DEF Verbatim
  <1>13. PICK S : S = {k \in DOMAIN field : field[k] \notin KnownFlag}
    OBVIOUS
  <1>14. S = m + 1 .. m + n
    <2>1. m + 1 .. m + n \subseteq 1 .. m + n
      BY <1>3
    <2> QED
      BY <1>6, <1>9, <1>10, <1>11, <1>13, <2>1
  <1>15. PICK p \in FlagSet : p = ParseWindowFlags(field) /\ KeepsEveryFlag(p, field)
    BY <1>7, FlagsKept
  <1>16. p.set = flags.set
    <2>1. p.set = ToSet(field) \cap KnownFlag
      BY <1>15 DEF KeepsEveryFlag
    <2>2. ToSet(field) = ToSet(marks) \cup ToSet(rest)
      BY <1>4, MembersJoined
    <2>3. \A c \in ToSet(rest) : c \notin KnownFlag
      BY <1>2
    <2> QED
      BY <1>1, <1>8, <2>1, <2>2, <2>3
  <1>17. p.unknown = flags.unknown
    <2>1. Lists(p.unknown, S, field)
      BY <1>13, <1>15 DEF KeepsEveryFlag
    <2>2. PICK unknown \in Seq(Chunk) : unknown = p.unknown
      BY <1>15 DEF FlagSet, Word
    <2>3. Len(unknown) = n
      <3>1. Cardinality(m + 1 .. m + n) = n
        <4>1. m + 1 \in Int /\ m + n \in Int
          BY <1>3
        <4>2. Cardinality(m + 1 .. m + n) = IF m + 1 > m + n THEN 0 ELSE (m + n) - (m + 1) + 1
          BY <4>1, FS_Interval
        <4>3. (IF m + 1 > m + n THEN 0 ELSE (m + n) - (m + 1) + 1) = n
          BY <1>3
        <4> QED
          BY <4>2, <4>3
      <3> QED
        BY <1>14, <2>1, <2>2, <3>1 DEF Lists
    <2>4. ASSUME NEW k \in 1 .. n PROVE unknown[k] = rest[k]
      <3>1. m + k \in m + 1 .. m + n /\ (m + k) - m = k
        BY <1>3
      <3>2. Rank(S, m + k) = k
        <4>1. {j \in m + 1 .. m + n : j <= m + k} = m + 1 .. m + k
          BY <1>3
        <4>2. m + 1 \in Int /\ m + k \in Int
          BY <1>3
        <4>3. Cardinality(m + 1 .. m + k) = IF m + 1 > m + k THEN 0 ELSE (m + k) - (m + 1) + 1
          BY <4>2, FS_Interval
        <4>4. (IF m + 1 > m + k THEN 0 ELSE (m + k) - (m + 1) + 1) = k
          BY <1>3
        <4> QED
          BY <1>14, <4>1, <4>3, <4>4 DEF Rank
      <3>3. unknown[k] = field[m + k]
        BY <1>14, <2>1, <2>2, <3>1, <3>2 DEF Lists
      <3>4. field[m + k] = rest[k]
        BY <1>10, <3>1
      <3> QED
        BY <3>3, <3>4
    <2>5. unknown = rest
      BY <1>3, <2>3, <2>4, SeqEqual
    <2> QED
      BY <1>2, <2>2, <2>5
  <1>18. p = flags
    <2>1. p = [set |-> p.set, unknown |-> p.unknown]
      BY <1>15 DEF FlagSet
    <2>2. flags = [set |-> flags.set, unknown |-> flags.unknown]
      BY DEF FlagSet
    <2> QED
      BY <1>16, <1>17, <2>1, <2>2
  <1> QED
    BY <1>7, <1>12, <1>15, <1>18

LEMMA OptionIs ==
    ASSUME NEW S, NEW x \in Option(S), x # None
    PROVE  \E y \in S : x = Some(y) /\ x[1] = y
  <1>1. PICK s \in Seq(S) : s = x /\ Len(s) <= 1 /\ s # << >>
    BY DEF Option, None
  <1>2. Len(s) = 1
    <2>1. s \in Seq(S)
      BY <1>1
    <2>2. Len(s) \in Nat
      BY <2>1, LenProperties
    <2>3. Len(s) # 0
      BY <1>1, <2>1, EmptySeq
    <2>4. Len(s) <= 1
      BY <1>1
    <2>5. \A m \in Nat : m <= 1 /\ m # 0 => m = 1
      OBVIOUS
    <2> QED
      BY <2>2, <2>3, <2>4, <2>5, Zenon
  <1>3. s[1] \in S
    BY <1>2, ElementOfSeq
  <1>4. PICK one : one = << s[1] >>
    OBVIOUS
  <1>5. one \in Seq(S) /\ Len(one) = 1 /\ one[1] = s[1]
    BY <1>3, <1>4
  <1>6. s = one
    BY <1>2, <1>5, SeqEqual
  <1> QED
    BY <1>1, <1>3, <1>4, <1>6 DEF Some

LEMMA LayoutTextVerbatim ==
    ASSUME NEW layout \in LayoutText
    PROVE  \E word \in Word : /\ word = << layout >> /\ Verbatim(word)
                              /\ ParseLayout(word) = Some(layout) /\ ParseLayout(word) # None
  <1>1. layout \in Chunk /\ Lossy[layout] = layout
    BY GrammarAssumption
  <1>2. PICK word \in Word : word = << layout >> /\ Len(word) = 1 /\ word[1] = layout
    BY <1>1, OneChunk
  <1>3. Verbatim(word)
    BY <1>1, <1>2 DEF Verbatim
  <1>4. ParseLayout(word) = Some(layout)
    BY <1>2 DEF ParseLayout
  <1>5. Some(layout) # None
    BY DEF Some, None
  <1> QED
    BY <1>2, <1>3, <1>4, <1>5

LEMMA LineVerbatim ==
    ASSUME NEW words \in Seq(Word), \A w \in 1 .. Len(words) : Verbatim(words[w])
    PROVE  Text(words) = words
  <1>1. Lossy \in [Chunk -> Chunk]
    BY GrammarAssumption
  <1>2. PICK text \in Seq(Word) : text = Text(words) /\ Len(text) = Len(words)
    BY TextJoined
  <1>3. ASSUME NEW w \in 1 .. Len(words) PROVE text[w] = words[w]
    <2>1. words[w] \in Word
      BY <1>3, ElementOfSeq
    <2>2. text[w] = Converted(Lossy, words[w])
      BY <1>1, <1>2, <1>3, EachWord DEF Text
    <2> QED
      BY <1>1, <2>1, <2>2, ConvertedWord DEF Verbatim
  <1> QED
    BY <1>2, <1>3, SeqEqual

LEMMA LayoutMessageComesBack ==
    ASSUME NEW message \in [tag : {"layout-change"}, window : WireId, layout : LayoutText,
                            visible : Option(LayoutText),
                            flags : Option([set : SUBSET KnownFlag, unknown : Word])],
           Reportable(message), NEW arguments \in Arguments(message)
    PROVE  ComesBack(message, << << "%", message.tag >> >> \o arguments)
  <1>1. message.tag \in Keyword /\ message.tag \notin GuardKind /\ message.tag \notin OutputKinds
    BY SMTT(60) DEF Keyword, OtherKinds, GuardKind, OutputKinds
  <1>2. AsText(message) = message
    <2>1. message.tag \notin WindowNameKinds \cup SessionNameKinds
                  \cup {"client-session-changed", "subscription-changed", "exit", "unknown"}
      BY DEF WindowNameKinds, SessionNameKinds
    <2> QED
      BY <2>1, AsTextOf, ZenonT(60)
  <1>3. PICK u \in Word : u = Shows("@", message.window) /\ Verbatim(u)
    BY ShowsVerbatim
  <1>4. /\ Id("@", u) = Some(message.window)
        /\ Some(message.window) # None /\ Some(message.window)[1] = message.window
    BY <1>3, IdComesBack
  <1>5. PICK l \in Word : /\ l = << message.layout >> /\ Verbatim(l)
                          /\ ParseLayout(l) = Some(message.layout) /\ ParseLayout(l) # None
    BY LayoutTextVerbatim
  <1>6. PICK front \in Seq(Word) : front = << u, l >> /\ Len(front) = 2 /\ front[1] = u /\ front[2] = l
    BY TwoWords
  <1>7. arguments = front \o (IF message.visible = None THEN << >> ELSE << message.visible >>)
                          \o (IF message.flags = None THEN << >>
                              ELSE << FlagWord(message.flags[1]) >>)
    <2>1. Arguments(message)
            = {<< Shows("@", message.window), << message.layout >> >>
                 \o (IF message.visible = None THEN << >> ELSE << message.visible >>)
                 \o (IF message.flags = None THEN << >> ELSE << FlagWord(message.flags[1]) >>)}
      BY ArgumentsOf
    <2> QED
      BY <1>3, <1>5, <1>6, <2>1
  <1>8. message = [tag |-> "layout-change", window |-> message.window, layout |-> message.layout,
                   visible |-> message.visible, flags |-> message.flags]
    OBVIOUS
  <1>9. ASSUME NEW args \in Seq(Word), Len(args) \in Nat, Len(args) >= 2,
               args[1] = u, args[2] = l, args = arguments,
               \A w \in 1 .. Len(args) : Verbatim(args[w]),
               \/ Len(args) = 2 /\ message.visible = None
               \/ /\ Len(args) > 2 /\ ParseLayout(args[3]) # None
                  /\ ParseLayout(args[3]) = message.visible,
               \/ Len(args) < 4 /\ message.flags = None
               \/ Len(args) >= 4 /\ message.flags = Some(ParseWindowFlags(args[4]))
        PROVE  ComesBack(message, << << "%", message.tag >> >> \o arguments)
    <2>1. PICK visible, flags :
            /\ visible = IF Len(args) = 2 THEN None ELSE ParseLayout(args[3])
            /\ flags = IF Len(args) < 4 THEN None ELSE Some(ParseWindowFlags(args[4]))
      OBVIOUS
    <2>2. visible = message.visible
      BY <1>9, <2>1
    <2>3. flags = message.flags
      BY <1>9, <2>1
    <2>4. ParseLayoutChange(args) = Some(LayoutChange(args, visible))
      <3>1. ~(Len(args) < 2) /\ Id("@", args[1]) # None /\ ParseLayout(args[2]) # None
        BY <1>4, <1>5, <1>9
      <3>2. ~(Len(args) > 2 /\ ParseLayout(args[3]) = None)
        BY <1>9
      <3> QED
        BY <2>1, <3>1, <3>2 DEF ParseLayoutChange
    <2>5. LayoutChange(args, visible)
            = [tag |-> "layout-change", window |-> message.window, layout |-> message.layout,
               visible |-> visible, flags |-> flags]
      <3>1. Id("@", args[1])[1] = message.window
        BY <1>4, <1>9
      <3>2. args[2][1] = message.layout
        BY <1>5, <1>9
      <3> QED
        BY <2>1, <3>1, <3>2 DEF LayoutChange
    <2>6. LayoutChange(args, visible) = message
      BY <1>8, <2>2, <2>3, <2>5
    <2>7. ParseKind(message.tag, args) = ParseLayoutChange(args)
      BY ParseKindOf
    <2>8. Text(args) = args /\ args # << >>
      BY <1>9, LineVerbatim, EmptySeq
    <2>9. ParseKind(message.tag, IF args = << >> THEN EmptyText ELSE Text(args))
            = Some(AsText(message))
      BY <1>2, <2>4, <2>6, <2>7, <2>8
    <2> QED
      BY <1>1, <1>9, <2>9, KindComesBack
  <1>10. 1 .. 2 = {1, 2} /\ 1 .. 3 = {1, 2, 3} /\ 1 .. 4 = {1, 2, 3, 4}
    OBVIOUS
  <1>11. CASE message.visible = None
    <2>1. message.flags = None
      BY <1>11 DEF Reportable
    <2>2. front \o << >> \o << >> = front
      BY ConcatEmptySeq
    <2>3. arguments = front
      BY <1>7, <1>11, <2>1, <2>2
    <2>4. \A w \in 1 .. Len(front) : Verbatim(front[w])
      BY <1>3, <1>5, <1>6, <1>10
    <2>5. /\ Len(front) \in Nat /\ Len(front) >= 2
          /\ Len(front) = 2 /\ Len(front) < 4
      BY <1>6
    <2> QED
      BY <1>6, <1>9, <1>11, <2>1, <2>3, <2>4, <2>5
  <1>12. CASE message.visible # None
    <2>1. PICK shown \in LayoutText : message.visible = Some(shown)
      BY <1>12, OptionIs
    <2>2. PICK v \in Word : /\ v = << shown >> /\ Verbatim(v)
                            /\ ParseLayout(v) = Some(shown) /\ ParseLayout(v) # None
      BY LayoutTextVerbatim
    <2>3. v = message.visible
      BY <2>1, <2>2 DEF Some
    <2>4. PICK one \in Seq(Word) : one = << v >> /\ Len(one) = 1 /\ one[1] = v
      BY OneWord
    <2>5. PICK three \in Seq(Word) :
            /\ three = front \o one /\ Len(three) = Len(front) + Len(one)
            /\ \A k \in 1 .. Len(front) : three[k] = front[k]
            /\ \A k \in Len(front) + 1 .. Len(three) : three[k] = one[k - Len(front)]
      BY FrontAndRest
    <2>6. Len(three) = 3
      BY <1>6, <2>4, <2>5
    <2>7. three[1] = u /\ three[2] = l /\ three[3] = v
      <3>1. 1 \in 1 .. Len(front) /\ 2 \in 1 .. Len(front) /\ 3 \in Len(front) + 1 .. Len(three)
            /\ 3 - Len(front) = 1
        BY <1>6, <2>6
      <3> QED
        BY <1>6, <2>4, <2>5, <3>1
    <2>8. CASE message.flags = None
      <3>1. three \o << >> = three
        BY ConcatEmptySeq
      <3>2. arguments = three
        BY <1>7, <1>12, <2>3, <2>4, <2>5, <2>8, <3>1
      <3>3. \A w \in 1 .. Len(three) : Verbatim(three[w])
        BY <1>3, <1>5, <1>10, <2>2, <2>6, <2>7
      <3>4. Len(three) \in Nat /\ Len(three) >= 2 /\ Len(three) > 2 /\ Len(three) < 4
        BY <2>6
      <3>5. ParseLayout(three[3]) # None /\ ParseLayout(three[3]) = message.visible
        BY <2>1, <2>2, <2>7
      <3> QED
        BY <1>9, <2>7, <2>8, <3>2, <3>3, <3>4, <3>5
    <2>9. CASE message.flags # None
      <3>1. PICK flags \in FlagSet : message.flags = Some(flags) /\ message.flags[1] = flags
        <4>1. message.flags \in Option(FlagSet)
          BY DEF FlagSet
        <4> QED
          BY <2>9, <4>1, OptionIs
      <3>2. flags.set \subseteq Chunk /\ \A c \in ToSet(flags.unknown) : c \notin KnownFlag /\ Lossy[c] = c
        BY <2>9, <3>1 DEF Reportable
      <3>3. PICK f \in Word : /\ f = FlagWord(flags) /\ Verbatim(f)
                              /\ ParseWindowFlags(f) = flags
        BY <3>2, FlagsComeBack
      <3>4. PICK last \in Seq(Word) : last = << f >> /\ Len(last) = 1 /\ last[1] = f
        BY OneWord
      <3>5. PICK four \in Seq(Word) :
              /\ four = three \o last /\ Len(four) = Len(three) + Len(last)
              /\ \A k \in 1 .. Len(three) : four[k] = three[k]
              /\ \A k \in Len(three) + 1 .. Len(four) : four[k] = last[k - Len(three)]
        BY FrontAndRest
      <3>6. Len(four) = 4
        BY <2>6, <3>4, <3>5
      <3>7. four[1] = u /\ four[2] = l /\ four[3] = v /\ four[4] = f
        <4>1. 1 \in 1 .. Len(three) /\ 2 \in 1 .. Len(three) /\ 3 \in 1 .. Len(three)
              /\ 4 \in Len(three) + 1 .. Len(four) /\ 4 - Len(three) = 1
          BY <2>6, <3>6
        <4> QED
          BY <2>7, <3>4, <3>5, <4>1
      <3>8. arguments = four
        BY <1>7, <1>12, <2>3, <2>4, <2>5, <2>9, <3>1, <3>3, <3>4, <3>5
      <3>9. \A w \in 1 .. Len(four) : Verbatim(four[w])
        BY <1>3, <1>5, <1>10, <2>2, <3>3, <3>6, <3>7, ZenonT(60)
      <3>10. Len(four) \in Nat /\ Len(four) >= 2 /\ Len(four) > 2 /\ Len(four) >= 4
        BY <3>6
      <3>11. ParseLayout(four[3]) # None /\ ParseLayout(four[3]) = message.visible
        BY <2>1, <2>2, <3>7
      <3>12. message.flags = Some(ParseWindowFlags(four[4]))
        BY <3>1, <3>3, <3>7
      <3> QED
        BY <1>9, <3>7, <3>8, <3>9, <3>10, <3>11, <3>12
    <2> QED
      BY <2>8, <2>9
  <1> QED
    BY <1>11, <1>12

(* Whatever tmux writes for a message it may report is read as just that.  *)
LEMMA MessageComesBack ==
    ASSUME NEW message \in Messages, NEW words \in Wires(message)
    PROVE  ComesBack(message, words)
  <1>1. message \in Message /\ Reportable(message)
    BY MessagesAssumption
  <1>2. CASE message \in [tag : {"unknown"}, line : Words]
    <2>1. words = message.line
      BY <1>2 DEF Wires
    <2> QED
      BY <1>1, <1>2, <2>1, UnknownMessageComesBack
  <1>3. ASSUME message.tag # "unknown",
               \A arguments \in Arguments(message) :
                 ComesBack(message, << << "%", message.tag >> >> \o arguments)
        PROVE  ComesBack(message, words)
    <2>1. PICK arguments \in Arguments(message) :
            words = << << "%", message.tag >> >> \o arguments
      BY <1>3 DEF Wires
    <2> QED
      BY <1>3, <2>1
  <1>4. CASE message \in [tag : GuardKind, number : 0 .. MaxU64, flags : 0 .. MaxU32]
    BY <1>3, <1>4, GuardMessageComesBack DEF GuardKind
  <1>5. CASE message \in [tag : {"output"}, pane : WireId, bytes : Words]
    BY <1>3, <1>5, OutputMessageComesBack
  <1>6. CASE message \in [tag : {"extended-output"}, pane : WireId, ms_behind : 0 .. MaxU64,
                          bytes : Words]
    BY <1>3, <1>6, ExtendedMessageComesBack
  <1>7. CASE message \in [tag : {"layout-change"}, window : WireId, layout : LayoutText,
                          visible : Option(LayoutText),
                          flags : Option([set : SUBSET KnownFlag, unknown : Word])]
    BY <1>1, <1>3, <1>7, LayoutMessageComesBack
  <1>8. CASE message \in [tag : WindowKinds \cup PaneKinds, id : WireId]
    BY <1>3, <1>8, IdMessageComesBack DEF WindowKinds, PaneKinds
  <1>9. CASE message \in [tag : WindowNameKinds \cup SessionNameKinds, id : WireId, name : Words]
    BY <1>3, <1>9, NameMessageComesBack DEF WindowNameKinds, SessionNameKinds
  <1>10. CASE message \in [tag : TwoIdKinds, first : WireId, second : WireId]
    BY <1>3, <1>10, TwoIdMessageComesBack DEF TwoIdKinds
  <1>11. CASE message \in [tag : {"client-session-changed"}, client : Word, session : WireId,
                           name : Words]
    BY <1>3, <1>11, ClientMessageComesBack
  <1>12. CASE message \in [tag : {"sessions-changed"}]
    BY <1>3, <1>12, SessionsMessageComesBack
  <1>13. CASE message \in [tag : {"subscription-changed"}, name : Word, value : Words]
    BY <1>3, <1>13, SubscriptionMessageComesBack
  <1>14. CASE message \in [tag : {"exit"}, reason : Option(Words)]
    BY <1>1, <1>3, <1>14, ExitMessageComesBack
  <1> QED
    BY <1>1, <1>2, <1>4, <1>5, <1>6, <1>7, <1>8, <1>9, <1>10, <1>11, <1>12, <1>13, <1>14
       DEF Message, Notification

(* Until a word is changed, the line under test is one tmux writes.        *)
HeardAsWritten == changes = 0 => heard \in Wires(told)

LEMMA WrittenInitially == GrammarInit => HeardAsWritten
  BY DEF GrammarInit, HeardAsWritten

LEMMA WrittenNext == Heard /\ HeardAsWritten /\ [GrammarNext]_grammarVars => HeardAsWritten'
  <1> SUFFICES ASSUME Heard, HeardAsWritten, [GrammarNext]_grammarVars PROVE HeardAsWritten'
    OBVIOUS
  <1>1. ASSUME NEW words, Change(words) PROVE HeardAsWritten'
    <2>1. changes' = changes + 1 /\ changes \in 0 .. MaxChanges(told)
          /\ MaxChanges(told) \in Nat
      BY <1>1, GrammarAssumption DEF Change, Heard
    <2>2. changes' # 0
      BY <2>1
    <2> QED
      BY <2>2 DEF HeardAsWritten
  <1>2. CASE GrammarNext
    BY <1>1, <1>2 DEF GrammarNext, ReplaceWord, DropWord, InsertWord
  <1>3. CASE UNCHANGED grammarVars
    BY <1>3 DEF HeardAsWritten, grammarVars
  <1> QED
    BY <1>2, <1>3

(* Whatever tmux reports is read as just that (notification.rs:17-90): a   *)
(* guard with its number and flag, a name with its spaces, a value with    *)
(* separators in it, an age beyond u32, a pane's exact bytes.              *)
THEOREM AlwaysReadsWhatTmuxWrites == GrammarSpec => []ReadsWhatTmuxWrites
  <1>1. Heard /\ HeardAsWritten => ReadsWhatTmuxWrites
    <2> SUFFICES ASSUME Heard, HeardAsWritten, changes = 0
                 PROVE  ComesBack(told, heard)
      BY DEF ReadsWhatTmuxWrites, ComesBack
    <2> QED
      BY MessageComesBack DEF Heard, HeardAsWritten
  <1> QED
    BY <1>1, HeardInitially, HeardNext, WrittenInitially, WrittenNext, PTL DEF GrammarSpec
=============================================================================
