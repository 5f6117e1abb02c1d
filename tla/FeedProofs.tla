----------------------------- MODULE FeedProofs -----------------------------
(***************************************************************************)
(* Framing does not depend on how the stream is cut, and feed uses the     *)
(* engine as its API allows: for every alphabet, every reading of lines,   *)
(* every bound, and both builds.                                           *)
(***************************************************************************)
EXTENDS Feed, EngineProofs

----------------------------------------------------------------------------
(* Sequences. *)

(* A slice within s is the same slice of any s \o t. *)
LEMMA SliceOfConcat ==
    ASSUME NEW S, NEW s \in Seq(S), NEW t \in Seq(S),
           NEW m \in Nat, NEW n \in Nat, 1 <= m, n <= Len(s)
    PROVE  SubSeq(s \o t, m, n) = SubSeq(s, m, n)
  <1>1. /\ s \o t \in Seq(S) /\ Len(s) \in Nat /\ Len(t) \in Nat
        /\ Len(s \o t) = Len(s) + Len(t)
        /\ \A i \in 1 .. Len(s) : (s \o t)[i] = s[i]
    BY ConcatProperties, LenProperties
  <1>2. \A i \in m .. n : s[i] \in S /\ (s \o t)[i] = s[i] /\ (s \o t)[i] \in S
    BY <1>1, ElementOfSeq
  <1>3. /\ SubSeq(s, m, n) \in Seq(S)
        /\ Len(SubSeq(s, m, n)) = (IF m <= n THEN n - m + 1 ELSE 0)
        /\ \A i \in 1 .. n - m + 1 : SubSeq(s, m, n)[i] = s[m + i - 1]
    BY <1>2, SubSeqProperties
  <1>4. /\ SubSeq(s \o t, m, n) \in Seq(S)
        /\ Len(SubSeq(s \o t, m, n)) = (IF m <= n THEN n - m + 1 ELSE 0)
        /\ \A i \in 1 .. n - m + 1 : SubSeq(s \o t, m, n)[i] = (s \o t)[m + i - 1]
    BY <1>2, SubSeqProperties
  <1>5. \A i \in 1 .. Len(SubSeq(s, m, n)) : SubSeq(s \o t, m, n)[i] = SubSeq(s, m, n)[i]
    BY <1>2, <1>3, <1>4
  <1> QED
    BY <1>3, <1>4, <1>5, SeqEqual

(* The rest of s behind c, as a sequence. *)
LEMMA RestOf ==
    ASSUME NEW S, NEW s \in Seq(S), NEW c \in 0 .. Len(s)
    PROVE  /\ SubSeq(s, c + 1, Len(s)) \in Seq(S)
           /\ Len(SubSeq(s, c + 1, Len(s))) = Len(s) - c
           /\ \A i \in 1 .. Len(s) - c : SubSeq(s, c + 1, Len(s))[i] = s[c + i]
  <1>1. Len(s) \in Nat /\ \A i \in c + 1 .. Len(s) : s[i] \in S
    BY LenProperties, ElementOfSeq
  <1> QED
    BY <1>1, SubSeqProperties

(* Appending to s appends to its rest. *)
LEMMA RestOfConcat ==
    ASSUME NEW S, NEW s \in Seq(S), NEW t \in Seq(S), NEW c \in 0 .. Len(s)
    PROVE  SubSeq(s, c + 1, Len(s)) \o t = SubSeq(s \o t, c + 1, Len(s \o t))
  <1> DEFINE rest == SubSeq(s, c + 1, Len(s))
             u == s \o t
             restU == SubSeq(u, c + 1, Len(u))
  <1>1. /\ Len(s) \in Nat /\ Len(t) \in Nat /\ c \in Nat /\ c <= Len(s)
        /\ u \in Seq(S) /\ Len(u) = Len(s) + Len(t)
        /\ \A i \in 1 .. Len(s) + Len(t) : u[i] = IF i <= Len(s) THEN s[i] ELSE t[i - Len(s)]
    BY ConcatProperties, LenProperties
  <1>2. /\ rest \in Seq(S) /\ Len(rest) = Len(s) - c
        /\ \A i \in 1 .. Len(s) - c : rest[i] = s[c + i]
    BY RestOf
  <1>3. c \in 0 .. Len(u)
    BY <1>1
  <1>4. /\ restU \in Seq(S) /\ Len(restU) = Len(u) - c
        /\ \A i \in 1 .. Len(u) - c : restU[i] = u[c + i]
    BY <1>1, <1>3, RestOf
  <1> HIDE DEF rest, u, restU
  <1>5. /\ rest \o t \in Seq(S) /\ Len(rest \o t) = Len(rest) + Len(t)
        /\ \A i \in 1 .. Len(rest) + Len(t) :
              (rest \o t)[i] = IF i <= Len(rest) THEN rest[i] ELSE t[i - Len(rest)]
    BY <1>2, ConcatProperties
  <1>6. Len(rest \o t) = Len(restU)
    BY <1>1, <1>2, <1>4, <1>5
  <1>7. ASSUME NEW i \in 1 .. Len(restU) PROVE (rest \o t)[i] = restU[i]
    <2>1. restU[i] = u[c + i] /\ c + i \in 1 .. Len(s) + Len(t)
      BY <1>1, <1>4
    <2>2. CASE i <= Len(s) - c
      BY <1>1, <1>2, <1>5, <2>1, <2>2
    <2>3. CASE i > Len(s) - c
      <3>1. (rest \o t)[i] = t[i - Len(rest)]
        BY <1>1, <1>2, <1>4, <1>5, <2>3, SMTT(60)
      <3>2. restU[i] = t[c + i - Len(s)] /\ i - Len(rest) = c + i - Len(s)
        BY <1>1, <1>2, <2>1, <2>3
      <3> QED
        BY <3>1, <3>2
    <2>4. i <= Len(s) - c \/ i > Len(s) - c
      BY <1>1, <1>4
    <2> QED
      BY <2>2, <2>3, <2>4, Zenon
  <1>8. rest \o t = restU
    BY <1>4, <1>5, <1>6, <1>7, SeqEqual
  <1> QED
    BY <1>8 DEF rest, u, restU

(* A slice of the rest is a slice further on in s, and so is the rest of   *)
(* the rest.                                                               *)
LEMMA SliceOfRest ==
    ASSUME NEW S, NEW s \in Seq(S), NEW c \in 0 .. Len(s), NEW n \in 1 .. Len(s) - c,
           NEW rest, rest = SubSeq(s, c + 1, Len(s))
    PROVE  /\ SubSeq(rest, 1, n - 1) = SubSeq(s, c + 1, c + n - 1)
           /\ SubSeq(rest, n + 1, Len(rest)) = SubSeq(s, c + n + 1, Len(s))
  <1>1. /\ rest \in Seq(S) /\ Len(rest) = Len(s) - c /\ Len(s) \in Nat
        /\ \A i \in 1 .. Len(s) - c : rest[i] = s[c + i]
    BY RestOf, LenProperties
  <1>2. c \in Nat /\ n \in Nat /\ 1 <= n /\ c + n <= Len(s)
    BY <1>1
  <1> DEFINE a == SubSeq(rest, 1, n - 1)  b == SubSeq(s, c + 1, c + n - 1)
  <1>3. /\ a \in Seq(S) /\ Len(a) = n - 1
        /\ \A i \in 1 .. n - 1 : a[i] = rest[i]
    <2>1. \A i \in 1 .. n - 1 : rest[i] \in S
      BY <1>1, <1>2, ElementOfSeq
    <2>2. /\ a \in Seq(S) /\ Len(a) = (IF 1 <= n - 1 THEN n - 1 - 1 + 1 ELSE 0)
          /\ \A i \in 1 .. n - 1 - 1 + 1 : a[i] = rest[1 + i - 1]
      BY <1>2, <2>1, SubSeqProperties
    <2> QED
      BY <1>2, <2>2
  <1>4. /\ b \in Seq(S) /\ Len(b) = n - 1
        /\ \A i \in 1 .. n - 1 : b[i] = s[c + i]
    <2>1. \A i \in c + 1 .. c + n - 1 : s[i] \in S
      BY <1>1, <1>2, ElementOfSeq
    <2>2. /\ b \in Seq(S)
          /\ Len(b) = (IF c + 1 <= c + n - 1 THEN c + n - 1 - (c + 1) + 1 ELSE 0)
          /\ \A i \in 1 .. c + n - 1 - (c + 1) + 1 : b[i] = s[c + 1 + i - 1]
      BY <1>2, <2>1, SubSeqProperties
    <2> QED
      BY <1>2, <2>2
  <1>5. a = b
    <2> HIDE DEF a, b
    <2>1. \A i \in 1 .. Len(a) : a[i] = b[i]
      BY <1>1, <1>2, <1>3, <1>4, SMTT(60)
    <2> QED
      BY <1>3, <1>4, <2>1, SeqEqual
  <1> DEFINE d == SubSeq(rest, n + 1, Len(rest))  e == SubSeq(s, c + n + 1, Len(s))
  <1>6. /\ d \in Seq(S) /\ Len(d) = Len(s) - c - n
        /\ \A i \in 1 .. Len(s) - c - n : d[i] = rest[n + i]
    <2>1. n \in 0 .. Len(rest)
      BY <1>1, <1>2
    <2> QED
      BY <1>1, <2>1, RestOf
  <1>7. /\ e \in Seq(S) /\ Len(e) = Len(s) - c - n
        /\ \A i \in 1 .. Len(s) - c - n : e[i] = s[c + n + i]
    <2>1. c + n \in 0 .. Len(s)
      BY <1>1, <1>2
    <2> QED
      BY <1>1, <1>2, <2>1, RestOf
  <1>8. d = e
    <2> HIDE DEF d, e
    <2>1. ASSUME NEW i \in 1 .. Len(d) PROVE d[i] = e[i]
      <3>1. n + i \in 1 .. Len(s) - c /\ c + (n + i) = c + n + i
        BY <1>1, <1>2, <1>6
      <3>2. d[i] = rest[n + i] /\ e[i] = s[c + n + i]
        BY <1>6, <1>7
      <3> QED
        BY <1>1, <3>1, <3>2
    <2> QED
      BY <1>6, <1>7, <2>1, SeqEqual
  <1> QED
    BY <1>5, <1>8

----------------------------------------------------------------------------
(* The framing invariant. *)

(* Line k is what stands between two newlines of the stream. *)
Framed(k) ==
    /\ Mark(k - 1) < marks[k] /\ marks[k] <= Len(stream)
    /\ stream[marks[k]] = NL
    /\ \A i \in Mark(k - 1) + 1 .. marks[k] - 1 : stream[i] # NL
    /\ lines[k] = LineOf(SubSeq(stream, Mark(k - 1) + 1, marks[k] - 1))

Rest == SubSeq(stream, Consumed + 1, Len(stream))

LEMMA FramedParts ==
    LinesAreTheStreams <=>
      /\ Len(lines) = Len(marks)
      /\ \A k \in 1 .. Len(marks) : Framed(k)
      /\ buf = Rest
      /\ ~feeding => Newlines = {}
  BY DEF LinesAreTheStreams, Framed, Rest

(* Marks lie in the stream; what is not consumed is in buf. *)
LEMMA ConsumedInStream ==
    ASSUME FeedTypeOK, LinesAreTheStreams
    PROVE  /\ Len(marks) \in Nat /\ Len(stream) \in Nat
           /\ \A k \in 0 .. Len(marks) : Mark(k) \in 0 .. Len(stream)
           /\ Consumed \in 0 .. Len(stream)
           /\ Len(buf) = Len(stream) - Consumed
           /\ \A i \in 1 .. Len(buf) : buf[i] = stream[Consumed + i]
  <1>1. Len(marks) \in Nat /\ Len(stream) \in Nat /\ stream \in Seq(Byte)
    BY LenProperties DEF FeedTypeOK
  <1>2. ASSUME NEW k \in 0 .. Len(marks) PROVE Mark(k) \in 0 .. Len(stream)
    <2>1. CASE k = 0
      BY <1>1, <2>1 DEF Mark
    <2>2. CASE k # 0
      <3>1. k \in 1 .. Len(marks)
        BY <2>2
      <3>2. marks[k] \in 1 .. MaxStream /\ marks[k] <= Len(stream)
        BY <3>1, ElementOfSeq, FramedParts DEF FeedTypeOK, Framed
      <3> QED
        BY <1>1, <2>2, <3>2, StreamAssumption DEF Mark
    <2> QED
      BY <2>1, <2>2
  <1>3. Consumed \in 0 .. Len(stream)
    BY <1>1, <1>2 DEF Consumed
  <1>4. /\ Len(buf) = Len(stream) - Consumed
        /\ \A i \in 1 .. Len(stream) - Consumed : buf[i] = stream[Consumed + i]
    BY <1>1, <1>3, RestOf, FramedParts DEF Rest
  <1> QED
    BY <1>1, <1>2, <1>3, <1>4

(* A framed line stays framed when the stream grows. *)
LEMMA FramedStays ==
    ASSUME NEW k, NEW t \in Seq(Byte), stream \in Seq(Byte), Framed(k),
           Mark(k - 1) \in Nat, marks[k] \in Nat,
           stream' = stream \o t,
           marks'[k] = marks[k], lines'[k] = lines[k], Mark(k - 1)' = Mark(k - 1)
    PROVE  Framed(k)'
  <1> DEFINE m == Mark(k - 1)  e == marks[k]
  <1>1. /\ Len(stream) \in Nat /\ Len(t) \in Nat
        /\ Len(stream') = Len(stream) + Len(t)
        /\ \A i \in 1 .. Len(stream) : stream'[i] = stream[i]
    BY ConcatProperties, LenProperties
  <1>2. m \in Nat /\ e \in Nat /\ m < e /\ e <= Len(stream)
    BY DEF Framed
  <1>3. stream'[e] = NL /\ \A i \in m + 1 .. e - 1 : stream'[i] # NL
    BY <1>1, <1>2 DEF Framed
  <1>4. SubSeq(stream', m + 1, e - 1) = SubSeq(stream, m + 1, e - 1)
    <2>1. m + 1 \in Nat /\ e - 1 \in Nat /\ 1 <= m + 1 /\ e - 1 <= Len(stream)
      BY <1>1, <1>2
    <2> QED
      BY <2>1, SliceOfConcat, ZenonT(60)
  <1>5. e <= Len(stream')
    BY <1>1, <1>2
  <1> QED
    BY <1>2, <1>3, <1>4, <1>5 DEF Framed

LEMMA CallFrames ==
    ASSUME FeedTypeOK, LinesAreTheStreams, NEW bytes \in Seq(Byte), Call(bytes)
    PROVE  LinesAreTheStreams'
  <1>1. /\ stream' = stream \o bytes /\ marks' = marks /\ lines' = lines
        /\ buf' = buf \o bytes /\ feeding' = TRUE
    BY DEF Call
  <1>2. Consumed' = Consumed /\ \A k \in Int : Mark(k)' = Mark(k)
    BY <1>1 DEF Consumed, Mark
  <1>3. stream \in Seq(Byte)
    BY DEF FeedTypeOK
  <1>4. ASSUME NEW k \in 1 .. Len(marks) PROVE Framed(k)'
    <2>1. k - 1 \in 0 .. Len(marks) /\ k \in 0 .. Len(marks) /\ k \in Int /\ k # 0
      BY ConsumedInStream
    <2>2. Mark(k - 1) \in Nat /\ marks[k] \in Nat
      <3>1. Mark(k - 1) \in Nat /\ Mark(k) \in Nat
        BY <2>1, ConsumedInStream
      <3> QED
        BY <2>1, <3>1 DEF Mark
    <2>3. Mark(k - 1)' = Mark(k - 1)
      BY <1>1 DEF Mark
    <2>4. Framed(k)
      BY FramedParts
    <2> QED
      BY <1>1, <1>3, <2>2, <2>3, <2>4, FramedStays
  <1>5. buf' = Rest'
    BY <1>1, <1>2, <1>3, ConsumedInStream, RestOfConcat, FramedParts DEF Rest
  <1>6. Len(lines') = Len(marks')
    BY <1>1, FramedParts
  <1> QED
    BY <1>1, <1>4, <1>5, <1>6 DEF LinesAreTheStreams, Framed, Rest

----------------------------------------------------------------------------
(* One turn of the loop. *)

(* n is where the first newline of buf stands. *)
FirstNewline(n) == n \in Newlines /\ \A i \in Newlines : n <= i

(* The line drained is one the parser reads, and its place in the stream.  *)
LEMMA FirstLine ==
    ASSUME FeedTypeOK, LinesAreTheStreams, NEW n, FirstNewline(n)
    PROVE  /\ n \in 1 .. Len(stream) - Consumed
           /\ stream[Consumed + n] = NL
           /\ \A i \in Consumed + 1 .. Consumed + n - 1 : stream[i] # NL
           /\ SubSeq(buf, 1, n - 1) = SubSeq(stream, Consumed + 1, Consumed + n - 1)
           /\ SubSeq(buf, n + 1, Len(buf)) = SubSeq(stream, Consumed + n + 1, Len(stream))
           /\ Len(stream) - Len(buf) + n = Consumed + n
           /\ LineOf(SubSeq(buf, 1, n - 1)) \in Line
  <1>1. /\ Len(stream) \in Nat /\ Consumed \in 0 .. Len(stream)
        /\ Len(buf) = Len(stream) - Consumed
        /\ \A i \in 1 .. Len(buf) : buf[i] = stream[Consumed + i]
    BY ConsumedInStream
  <1>2. buf \in Seq(Byte) /\ stream \in Seq(Byte) /\ Len(stream) <= MaxStream
    BY DEF FeedTypeOK
  <1>3. n \in 1 .. Len(buf) /\ buf[n] = NL
    BY <1>2 DEF FirstNewline, Newlines
  <1>4. \A i \in 1 .. n - 1 : i \in 1 .. Len(buf) /\ buf[i] # NL
    BY <1>1, <1>2, <1>3 DEF FirstNewline, Newlines
  <1>5. \A i \in Consumed + 1 .. Consumed + n - 1 : stream[i] # NL
    <2> SUFFICES ASSUME NEW i \in Consumed + 1 .. Consumed + n - 1 PROVE stream[i] # NL
      OBVIOUS
    <2> DEFINE j == i - Consumed
    <2>1. j \in 1 .. n - 1 /\ Consumed + j = i
      BY <1>1, <1>3
    <2> HIDE DEF j
    <2>2. buf[j] # NL /\ buf[j] = stream[Consumed + j]
      BY <1>1, <1>4, <2>1
    <2> QED
      BY <2>1, <2>2
  <1>6. n \in 1 .. Len(stream) - Consumed /\ stream[Consumed + n] = NL
    BY <1>1, <1>3
  <1>7. /\ SubSeq(buf, 1, n - 1) = SubSeq(stream, Consumed + 1, Consumed + n - 1)
        /\ SubSeq(buf, n + 1, Len(buf)) = SubSeq(stream, Consumed + n + 1, Len(stream))
    BY <1>1, <1>2, <1>6, SliceOfRest, FramedParts DEF Rest
  <1>8. LineOf(SubSeq(buf, 1, n - 1)) \in Line
    <2> DEFINE s == SubSeq(buf, 1, n - 1)
    <2>1. n - 1 \in 0 .. MaxStream
      BY <1>1, <1>2, <1>3, StreamAssumption
    <2>2. \A i \in 1 .. n - 1 : buf[i] \in Byte \ {NL}
      BY <1>2, <1>4, ElementOfSeq
    <2>3. s \in Seq(Byte \ {NL}) /\ Len(s) = (IF 1 <= n - 1 THEN n - 1 - 1 + 1 ELSE 0)
      BY <2>1, <2>2, SubSeqProperties
    <2>4. Len(s) = n - 1
      BY <2>1, <2>3
    <2> HIDE DEF s
    <2>5. s \in [1 .. n - 1 -> Byte \ {NL}]
      BY <2>3, <2>4, LenProperties
    <2>6. LineOf(s) \in Line
      BY <2>1, <2>5, LineOfAssumption
    <2> QED
      BY <2>6 DEF s
  <1>9. Len(stream) - Len(buf) + n = Consumed + n
    BY <1>1, <1>3
  <1> QED
    BY <1>5, <1>6, <1>7, <1>8, <1>9

(* The lines already framed stay framed when one more is marked. *)
LEMMA NextLineFrames ==
    ASSUME FeedTypeOK, LinesAreTheStreams, NextLine
    PROVE  LinesAreTheStreams'
  <1> PICK n \in Newlines :
        LET line == LineOf(SubSeq(buf, 1, n - 1)) IN
        /\ feeding
        /\ \A i \in Newlines : n <= i
        /\ OnLine(line)
        /\ buf' = SubSeq(buf, n + 1, Len(buf))
        /\ out' = out \o incoming'
        /\ lines' = Append(lines, line)
        /\ marks' = Append(marks, Len(stream) - Len(buf) + n)
        /\ UNCHANGED <<feeding, stream>>
    BY Zenon DEF NextLine
  <1> DEFINE line == LineOf(SubSeq(buf, 1, n - 1))
             last == Len(marks) + 1
  <1>1. /\ feeding' = feeding /\ feeding /\ stream' = stream
        /\ buf' = SubSeq(buf, n + 1, Len(buf))
        /\ lines' = Append(lines, line)
        /\ marks' = Append(marks, Len(stream) - Len(buf) + n)
    OBVIOUS
  <1>2. /\ n \in 1 .. Len(stream) - Consumed
        /\ stream[Consumed + n] = NL
        /\ \A i \in Consumed + 1 .. Consumed + n - 1 : stream[i] # NL
        /\ SubSeq(buf, 1, n - 1) = SubSeq(stream, Consumed + 1, Consumed + n - 1)
        /\ SubSeq(buf, n + 1, Len(buf)) = SubSeq(stream, Consumed + n + 1, Len(stream))
        /\ Len(stream) - Len(buf) + n = Consumed + n
        /\ line \in Line
    BY FirstLine DEF FirstNewline
  <1>3. /\ Len(marks) \in Nat /\ Len(stream) \in Nat /\ Consumed \in 0 .. Len(stream)
        /\ Len(lines) = Len(marks)
        /\ marks \in Seq(1 .. MaxStream) /\ lines \in Seq(Line)
        /\ stream \in Seq(Byte) /\ Len(stream) <= MaxStream
    BY ConsumedInStream, FramedParts DEF FeedTypeOK
  <1> HIDE DEF line
  <1>4. /\ Len(lines') = last /\ lines'[last] = line
        /\ \A k \in 1 .. Len(marks) : lines'[k] = lines[k]
    BY <1>1, <1>2, <1>3, AppendProperties, SMTT(60)
  <1>5. /\ Len(marks') = last /\ marks'[last] = Consumed + n
        /\ \A k \in 1 .. Len(marks) : marks'[k] = marks[k]
    <2>1. Consumed + n \in 1 .. MaxStream
      BY <1>2, <1>3, StreamAssumption
    <2>2. marks' = Append(marks, Consumed + n)
      BY <1>1, <1>2
    <2> QED
      BY <1>3, <2>1, <2>2, AppendProperties
  <1>6. \A k \in 0 .. Len(marks) : Mark(k)' = Mark(k)
    BY <1>3, <1>5 DEF Mark
  <1>7. Consumed' = Consumed + n
    BY <1>3, <1>5 DEF Consumed, Mark
  <1>8. ASSUME NEW k \in 1 .. Len(marks) PROVE Framed(k)'
    <2>1. k - 1 \in 0 .. Len(marks) /\ k \in 0 .. Len(marks) /\ k # 0
      BY <1>3
    <2>2. Mark(k - 1) \in Nat /\ marks[k] \in Nat
      <3>1. Mark(k - 1) \in 0 .. Len(stream) /\ Mark(k) \in 0 .. Len(stream)
        BY <2>1, ConsumedInStream
      <3> QED
        BY <1>3, <2>1, <3>1 DEF Mark
    <2>3. << >> \in Seq(Byte) /\ stream' = stream \o << >>
      BY <1>1, <1>3, EmptySeq, ConcatEmptySeq
    <2>4. marks'[k] = marks[k] /\ lines'[k] = lines[k] /\ Mark(k - 1)' = Mark(k - 1)
      BY <1>4, <1>5, <1>6, <2>1
    <2>5. Framed(k)
      BY FramedParts
    <2> QED
      BY <1>3, <2>2, <2>3, <2>4, <2>5, FramedStays
  <1>9. ASSUME NEW k, k = last PROVE Framed(k)'
    <2>1. k - 1 = Len(marks) /\ k - 1 \in 0 .. Len(marks)
      BY <1>3, <1>9
    <2>2. Mark(k - 1)' = Consumed
      BY <1>6, <2>1 DEF Consumed
    <2>3. marks'[k] = Consumed + n /\ lines'[k] = line
      BY <1>4, <1>5, <1>9
    <2>4. Consumed < Consumed + n /\ Consumed + n <= Len(stream)
      BY <1>2, <1>3
    <2>5. line = LineOf(SubSeq(stream, Consumed + 1, Consumed + n - 1))
      BY <1>2 DEF line
    <2>6. Mark(k - 1)' < marks'[k] /\ marks'[k] <= Len(stream')
      BY <1>1, <2>2, <2>3, <2>4
    <2>7. stream'[marks'[k]] = NL
      BY <1>1, <1>2, <2>3
    <2>8. Mark(k - 1)' + 1 = Consumed + 1 /\ marks'[k] - 1 = Consumed + n - 1
      <3>1. Consumed \in Int /\ n \in Int
        BY <1>2, <1>3
      <3>2. (Consumed + n) - 1 = Consumed + n - 1
        BY <3>1
      <3> QED
        BY <2>2, <2>3, <3>2, Zenon
    <2>9. \A i \in Mark(k - 1)' + 1 .. marks'[k] - 1 : stream'[i] # NL
      BY <1>1, <1>2, <2>8, Zenon
    <2>10. lines'[k] = LineOf(SubSeq(stream', Mark(k - 1)' + 1, marks'[k] - 1))
      BY <1>1, <2>3, <2>5, <2>8, Zenon
    <2> QED
      BY <2>6, <2>7, <2>9, <2>10 DEF Framed
  <1>10. ASSUME NEW k \in 1 .. Len(marks') PROVE Framed(k)'
    <2>1. k \in 1 .. Len(marks) \/ k = last
      BY <1>3, <1>5
    <2> QED
      BY <1>8, <1>9, <2>1
  <1>11. buf' = Rest'
    BY <1>1, <1>2, <1>7 DEF Rest
  <1>12. Len(lines') = Len(marks') /\ feeding'
    BY <1>1, <1>4, <1>5
  <1> QED
    BY <1>10, <1>11, <1>12 DEF LinesAreTheStreams, Framed, Rest

----------------------------------------------------------------------------
(* The inductive invariant. *)

(* Every line in the open block came out of the stream, behind the %begin  *)
(* that opened it: so a block never outgrows the stream.                   *)
WithinStream ==
    /\ Len(lines) <= Consumed
    /\ parser # None => Len(parser[1].output) < Len(lines)

FInv == FeedTypeOK /\ FifoIntact /\ LinesAreTheStreams /\ WithinStream

(* push opens an empty block, or adds the line to the one open. *)
LEMMA PushGrows ==
    ASSUME NEW p \in Option(PendingReply), NEW line \in Line,
           NEW block, Push(p, line).parser = Some(block)
    PROVE  \/ block.output = << >>
           \/ p # None /\ Len(block.output) = Len(p[1].output) + 1
  <1>0. Some(block) # None /\ Some(block)[1] = block
    BY DEF Some, None
  <1>1. CASE line.kind = "begin"
    <2>1. Push(p, line).parser = Some(OpenBlock(line))
      BY <1>1 DEF Push, PushAtTopLevel, PushWithinBlock
    <2>2. block = OpenBlock(line)
      BY <1>0, <2>1 DEF Some
    <2> QED
      BY <2>2 DEF OpenBlock
  <1>2. CASE line.kind # "begin"
    <2>1. p # None
      BY <1>0, <1>2 DEF Push, PushAtTopLevel
    <2>2. line.kind \notin {"end", "error"}
      BY <1>0, <2>1 DEF Push, PushWithinBlock
    <2>3. Push(p, line).parser = Some([p[1] EXCEPT !.output = Append(@, line)])
      BY <1>2, <2>1, <2>2 DEF Push, PushWithinBlock
    <2>4. block = [p[1] EXCEPT !.output = Append(@, line)]
      BY <1>0, <2>3 DEF Some
    <2>5. p[1] \in PendingReply /\ line \in ContentLine
      BY <1>2, <2>1, <2>2, OptionCases, LineCases DEF IsGuard, GuardKind
    <2>6. block.output = Append(p[1].output, line) /\ p[1].output \in Seq(ContentLine)
      BY <2>4, <2>5 DEF PendingReply
    <2> QED
      BY <2>1, <2>5, <2>6, AppendProperties
  <1> QED
    BY <1>1, <1>2

LEMMA InitFInv == FeedInit => FInv
  <1> SUFFICES ASSUME FeedInit PROVE FInv
    OBVIOUS
  <1>1. TypeOK /\ FifoIntact
    BY InitIInv DEF FeedInit, IInv
  <1>2. FeedTypeOK
    <2>1. /\ << >> \in Seq(Byte) /\ << >> \in Seq(Incoming) /\ << >> \in Seq(Line)
          /\ << >> \in Seq(1 .. MaxStream) /\ Len(<< >>) <= MaxStream
      BY EmptySeq, StreamAssumption
    <2>2. feeding \in BOOLEAN
      BY Zenon DEF FeedInit
    <2> QED
      BY <1>1, <2>1, <2>2 DEF FeedInit, FeedTypeOK
  <1>3. Consumed = 0 /\ Len(marks) = 0 /\ Len(lines) = 0 /\ Len(stream) = 0
    BY DEF FeedInit, Consumed, Mark
  <1>4. WithinStream
    BY <1>3 DEF WithinStream, FeedInit, EngineInit
  <1>5. LinesAreTheStreams
    <2>1. buf = Rest
      BY <1>3, SubSeqEmpty DEF Rest, FeedInit
    <2>2. Newlines = {}
      BY DEF Newlines, FeedInit
    <2> QED
      BY <1>3, <2>1, <2>2, FramedParts
  <1> QED
    BY <1>1, <1>2, <1>4, <1>5 DEF FInv

LEMMA CallFInv ==
    ASSUME FInv, NEW bytes \in Seq(Byte), Len(stream) + Len(bytes) <= MaxStream, Call(bytes)
    PROVE  FInv'
  <1>1. /\ UNCHANGED <<engineVars, lines, marks>> /\ out' = << >> /\ feeding' = TRUE
        /\ buf' = buf \o bytes /\ stream' = stream \o bytes
    BY DEF Call
  <1>2. /\ buf' \in Seq(Byte) /\ stream' \in Seq(Byte) /\ out' \in Seq(Incoming)
        /\ Len(stream') <= MaxStream
    BY <1>1, ConcatProperties, EmptySeq DEF FInv, FeedTypeOK
  <1>3. feeding' \in BOOLEAN
    BY <1>1, Zenon
  <1>4. TypeOK' /\ FifoIntact'
    BY <1>1 DEF FInv, FeedTypeOK, TypeOK, FifoIntact, Answered, engineVars
  <1>5. FeedTypeOK'
    BY <1>1, <1>2, <1>3, <1>4 DEF FInv, FeedTypeOK
  <1>6. WithinStream'
    BY <1>1 DEF FInv, WithinStream, Consumed, Mark, engineVars
  <1> QED
    BY <1>4, <1>5, <1>6, CallFrames DEF FInv

(* Calls that leave feed's own state alone, or only end the call. *)
LEMMA FeedUntouched ==
    ASSUME FInv, TypeOK', FifoIntact', parser' = parser, feeding' \in BOOLEAN,
           ~feeding' => Newlines = {},
           UNCHANGED <<buf, out, stream, lines, marks>>
    PROVE  FInv'
  <1>1. FeedTypeOK' /\ WithinStream'
    BY DEF FInv, FeedTypeOK, WithinStream, Consumed, Mark
  <1>2. LinesAreTheStreams'
    <2>1. Consumed' = Consumed /\ Newlines' = Newlines /\ \A k \in Int : Mark(k)' = Mark(k)
      BY DEF Consumed, Mark, Newlines
    <2>2. ~feeding' => Newlines' = {}
      BY <2>1
    <2>3. ASSUME NEW k \in 1 .. Len(marks) PROVE Framed(k)'
      <3>1. Framed(k) /\ Mark(k - 1)' = Mark(k - 1)
        BY FramedParts DEF FInv, Mark
      <3> QED
        BY <3>1 DEF Framed
    <2>4. Len(lines') = Len(marks') /\ buf' = Rest'
      BY <2>1, FramedParts DEF FInv, Rest
    <2> QED
      BY <2>2, <2>3, <2>4 DEF LinesAreTheStreams, Framed, Rest
  <1> QED
    BY <1>1, <1>2 DEF FInv

(* What NextLine does, with the line it hands to on_line named. *)
LEMMA NextLineParts ==
    ASSUME FInv, NextLine
    PROVE  \E line \in Line, n \in Nat :
             /\ OnLine(line)
             /\ n >= 1 /\ Consumed + n \in 1 .. MaxStream
             /\ buf' = SubSeq(stream, Consumed + n + 1, Len(stream))
             /\ out' = out \o incoming'
             /\ lines' = Append(lines, line)
             /\ marks' = Append(marks, Consumed + n)
             /\ Consumed + n <= Len(stream)
             /\ UNCHANGED <<feeding, stream>>
  <1> PICK n \in Newlines :
        LET line == LineOf(SubSeq(buf, 1, n - 1)) IN
        /\ feeding
        /\ \A i \in Newlines : n <= i
        /\ OnLine(line)
        /\ buf' = SubSeq(buf, n + 1, Len(buf))
        /\ out' = out \o incoming'
        /\ lines' = Append(lines, line)
        /\ marks' = Append(marks, Len(stream) - Len(buf) + n)
        /\ UNCHANGED <<feeding, stream>>
    BY Zenon DEF NextLine
  <1> DEFINE line == LineOf(SubSeq(buf, 1, n - 1))
  <1>1. FeedTypeOK /\ LinesAreTheStreams
    BY DEF FInv
  <1>2. /\ n \in 1 .. Len(stream) - Consumed
        /\ SubSeq(buf, n + 1, Len(buf)) = SubSeq(stream, Consumed + n + 1, Len(stream))
        /\ Len(stream) - Len(buf) + n = Consumed + n
        /\ line \in Line
    BY <1>1, FirstLine DEF FirstNewline
  <1>3. /\ Consumed \in 0 .. Len(stream) /\ Len(stream) \in Nat /\ Len(stream) <= MaxStream
    BY <1>1, ConsumedInStream DEF FeedTypeOK
  <1>4. /\ n \in Nat /\ n >= 1 /\ Consumed + n \in 1 .. MaxStream
        /\ Consumed + n <= Len(stream)
    BY <1>2, <1>3, StreamAssumption
  <1>5. /\ OnLine(line) /\ out' = out \o incoming' /\ lines' = Append(lines, line)
        /\ UNCHANGED <<feeding, stream>>
        /\ buf' = SubSeq(stream, Consumed + n + 1, Len(stream))
        /\ marks' = Append(marks, Consumed + n)
    BY <1>2
  <1> HIDE DEF line
  <1> QED
    BY <1>2, <1>4, <1>5

LEMMA NextLineFInv ==
    ASSUME FInv, NextLine
    PROVE  FInv'
  <1> PICK line \in Line, n \in Nat :
        /\ OnLine(line)
        /\ n >= 1 /\ Consumed + n \in 1 .. MaxStream
        /\ buf' = SubSeq(stream, Consumed + n + 1, Len(stream))
        /\ out' = out \o incoming'
        /\ lines' = Append(lines, line)
        /\ marks' = Append(marks, Consumed + n)
        /\ Consumed + n <= Len(stream)
        /\ UNCHANGED <<feeding, stream>>
    BY NextLineParts
  <1>1. /\ TypeOK /\ out \in Seq(Incoming) /\ stream \in Seq(Byte)
        /\ lines \in Seq(Line) /\ marks \in Seq(1 .. MaxStream)
        /\ Len(stream) <= MaxStream /\ feeding \in BOOLEAN /\ FifoIntact
        /\ FeedTypeOK /\ LinesAreTheStreams
    BY DEF FInv, FeedTypeOK
  <1>2. TypeOK' /\ FifoIntact'
    BY <1>1, OnLineIInv DEF IInv
  <1>3. out' \in Seq(Incoming)
    <2>1. incoming' \in Seq(Incoming)
      BY <1>2 DEF TypeOK
    <2> QED
      BY <1>1, <2>1, ConcatProperties
  <1>4. /\ lines' \in Seq(Line) /\ Len(lines') = Len(lines) + 1
        /\ marks' \in Seq(1 .. MaxStream) /\ Len(marks') = Len(marks) + 1
        /\ marks'[Len(marks) + 1] = Consumed + n /\ Len(marks) \in Nat /\ Len(lines) \in Nat
    BY <1>1, AppendProperties, LenProperties
  <1>5. buf' \in Seq(Byte)
    <2>1. Consumed + n \in 0 .. Len(stream)
      BY <1>1
    <2> QED
      BY <1>1, <2>1, RestOf
  <1>6. FeedTypeOK'
    <2>1. feeding' \in BOOLEAN
      BY <1>1
    <2> QED
      BY <1>1, <1>2, <1>3, <1>4, <1>5, <2>1 DEF FeedTypeOK
  <1>7. WithinStream'
    <2>1. Consumed' = Consumed + n
      BY <1>4 DEF Consumed, Mark
    <2>2. Consumed \in Nat
      BY <1>1, ConsumedInStream, LenProperties
    <2>3. Len(lines') <= Consumed'
      BY <1>4, <2>1, <2>2 DEF FInv, WithinStream
    <2>4. ASSUME parser' # None PROVE Len(parser'[1].output) < Len(lines')
      <3>1. parser' = Push(parser, line).parser
        BY DEF OnLine
      <3>2. parser' = Some(parser'[1])
        BY <1>2, <2>4, OptionCases DEF TypeOK
      <3>3. \/ parser'[1].output = << >>
            \/ parser # None /\ Len(parser'[1].output) = Len(parser[1].output) + 1
        BY <1>1, <3>1, <3>2, PushGrows DEF TypeOK
      <3>4. CASE parser'[1].output = << >>
        BY <1>4, <3>4, EmptySeq
      <3>5. CASE parser # None /\ Len(parser'[1].output) = Len(parser[1].output) + 1
        <4>1. Len(parser[1].output) < Len(lines)
          BY <3>5 DEF FInv, WithinStream
        <4>2. Len(parser[1].output) \in Nat
          BY <1>1, <3>5, OptionCases, LenProperties DEF TypeOK, PendingReply
        <4> QED
          BY <1>4, <3>5, <4>1, <4>2, SMTT(60)
      <3> QED
        BY <3>3, <3>4, <3>5
    <2> QED
      BY <2>3, <2>4 DEF WithinStream
  <1>8. LinesAreTheStreams'
    BY <1>1, NextLineFrames
  <1> QED
    BY <1>2, <1>6, <1>7, <1>8 DEF FInv

(* A chunk is a sequence of bytes. *)
LEMMA ChunkSeq == Chunk \subseteq Seq(Byte)
  BY StreamAssumption DEF Chunk

LEMMA NextFInv == FInv /\ [FeedNext]_feedVars => FInv'
  <1> SUFFICES ASSUME FInv, [FeedNext]_feedVars PROVE FInv'
    OBVIOUS
  <1>1. IInv /\ feeding \in BOOLEAN /\ (~feeding => Newlines = {})
    BY FramedParts DEF FInv, FeedTypeOK, IInv
  <1>2. ASSUME NEW bytes \in Chunk, Len(stream) + Len(bytes) <= MaxStream, Call(bytes)
        PROVE  FInv'
    BY <1>2, ChunkSeq, CallFInv
  <1>3. CASE NextLine
    BY <1>3, NextLineFInv
  <1>4. CASE Return
    <2>1. TypeOK' /\ FifoIntact' /\ parser' = parser
      BY <1>1, <1>4 DEF Return, engineVars, IInv, TypeOK, FifoIntact, Answered
    <2>2. feeding' \in BOOLEAN /\ Newlines = {} /\ UNCHANGED <<buf, out, stream, lines, marks>>
      BY <1>4 DEF Return
    <2> QED
      BY <2>1, <2>2, FeedUntouched
  <1>5. CASE Register
    <2>1. TypeOK' /\ FifoIntact' /\ parser' = parser
      BY <1>1, <1>5, RegisterCommandIInv DEF Register, RegisterCommand, IInv
    <2> QED
      BY <1>1, <1>5, <2>1, FeedUntouched DEF Register
  <1>6. CASE Eof
    <2>1. TypeOK' /\ FifoIntact' /\ parser' = parser
      BY <1>1, <1>6, OnEofIInv DEF Eof, OnEof, IInv
    <2> QED
      BY <1>1, <1>6, <2>1, FeedUntouched DEF Eof
  <1>7. CASE UNCHANGED feedVars
    <2>1. TypeOK' /\ FifoIntact' /\ parser' = parser
      BY <1>1, <1>7 DEF feedVars, engineVars, IInv, TypeOK, FifoIntact, Answered
    <2> QED
      BY <1>1, <1>7, <2>1, FeedUntouched DEF feedVars
  <1> QED
    BY <1>2, <1>3, <1>4, <1>5, <1>6, <1>7 DEF FeedNext

LEMMA SpecFInv == FeedSpec => []FInv
  BY InitFInv, NextFInv, PTL DEF FeedSpec

(* Every value keeps its type, whatever is fed, registered and ended. *)
THEOREM FeedTypeCorrect == FeedSpec => []FeedTypeOK
  <1>1. FInv => FeedTypeOK
    BY DEF FInv
  <1> QED
    BY <1>1, SpecFInv, PTL

(* However the stream is cut into chunks, on_line gets exactly the lines   *)
(* between its newlines, and buf keeps exactly the rest.                   *)
THEOREM LinesAlwaysTheStreams == FeedSpec => []LinesAreTheStreams
  <1>1. FInv => LinesAreTheStreams
    BY DEF FInv
  <1> QED
    BY <1>1, SpecFInv, PTL

(* Every action of Feed makes one call of the engine or none; what remains *)
(* to show is that the lines it hands on are within EngineSpec's bounds.   *)
LEMMA FeedUsesEngine == FeedSpec => EngineSpec
  <1>1. FeedInit => EngineInit
    BY DEF FeedInit
  <1>2. FInv /\ [FeedNext]_feedVars => [EngineNext]_engineVars
    <2> SUFFICES ASSUME FInv, [FeedNext]_feedVars PROVE [EngineNext]_engineVars
      OBVIOUS
    <2>1. ASSUME NEW bytes \in Chunk, Call(bytes) PROVE UNCHANGED engineVars
      BY <2>1 DEF Call
    <2>2. CASE NextLine
      <3> PICK line \in Line, n \in Nat : OnLine(line) /\ Consumed + n <= Len(stream)
        BY <2>2, NextLineParts
      <3>1. line \in Feedable
        <4>1. ASSUME parser # None PROVE Len(parser[1].output) < MaxOutput
          <5>1. Len(parser[1].output) \in Nat
            BY <4>1, OptionCases, LenProperties DEF FInv, FeedTypeOK, TypeOK, PendingReply
          <5>2. /\ Len(parser[1].output) < Len(lines) /\ Len(lines) <= Consumed
            BY <4>1 DEF FInv, WithinStream
          <5>3. Consumed \in 0 .. Len(stream) /\ Len(stream) \in Nat /\ Len(stream) <= MaxStream
            BY ConsumedInStream DEF FInv, FeedTypeOK
          <5>4. Len(lines) \in Nat
            BY LenProperties DEF FInv, FeedTypeOK
          <5> QED
            BY <5>1, <5>2, <5>3, <5>4, StreamAssumption, BoundAssumption
        <4> QED
          BY <4>1 DEF Feedable
      <3> QED
        BY <3>1 DEF EngineNext
    <2>3. CASE Return
      BY <2>3 DEF Return
    <2>4. CASE Register \/ Eof
      BY <2>4 DEF Register, Eof, EngineNext
    <2>5. CASE UNCHANGED feedVars
      BY <2>5 DEF feedVars
    <2> QED
      BY <2>1, <2>2, <2>3, <2>4, <2>5 DEF FeedNext
  <1> QED
    BY <1>1, <1>2, SpecFInv, PTL DEF FeedSpec, EngineSpec

(* What is proved of the engine holds of it behind feed, where whole chunks*)
(* of lines are handed on between two calls of a driver (engine.rs:83-159).*)
THEOREM EngineKeepsBehindFeed ==
    FeedSpec => []FifoIntact /\ AnswersOldest /\ OnlyControlBlocksAnswer
  BY FeedUsesEngine, FifoAlwaysIntact, AnswersOldestAlways, OnlyControlBlocksAnswerAlways, PTL

----------------------------------------------------------------------------
(* What a line means, from the lines before it alone. *)

(* The block in progress is the one the lines handed over so far opened,   *)
(* with every line behind its %begin in it.                                *)
Gathered(i) ==
    [number |-> lines[i].number, control |-> lines[i].control,
     output |-> SubSeq(lines, i + 1, Len(lines))]
BlockIsOpen ==
    \/ parser = None /\ OpenAt(lines, Len(lines) + 1) = {}
    \/ \E i \in OpenAt(lines, Len(lines) + 1) : parser = Some(Gathered(i))

(* At most one block is open. *)
LEMMA OneIsOpen ==
    ASSUME NEW ls, NEW n \in Nat, NEW i \in OpenAt(ls, n), NEW j \in OpenAt(ls, n)
    PROVE  i = j
  <1>1. /\ i \in 1 .. n - 1 /\ j \in 1 .. n - 1
        /\ IsGuard(ls[i]) /\ IsGuard(ls[j])
        /\ \A k \in i + 1 .. n - 1 : ~IsGuard(ls[k])
        /\ \A k \in j + 1 .. n - 1 : ~IsGuard(ls[k])
    BY DEF OpenAt, IsGuard, GuardKind
  <1> QED
    BY <1>1

(* One more line: who is open before it stays open until a guard.          *)
LEMMA OpenBefore ==
    ASSUME NEW ls \in Seq(Line), NEW line \in Line
    PROVE  OpenAt(Append(ls, line), Len(ls) + 1) = OpenAt(ls, Len(ls) + 1)
  <1>1. /\ Len(ls) \in Nat
        /\ \A i \in 1 .. Len(ls) : Append(ls, line)[i] = ls[i]
    BY LenProperties, AppendProperties
  <1> QED
    BY <1>1 DEF OpenAt

LEMMA OpenBehind ==
    ASSUME NEW ls \in Seq(Line), NEW line \in Line
    PROVE  /\ line.kind = "begin" =>
                Len(ls) + 1 \in OpenAt(Append(ls, line), Len(ls) + 1 + 1)
           /\ IsGuard(line) /\ line.kind # "begin" =>
                OpenAt(Append(ls, line), Len(ls) + 1 + 1) = {}
           /\ ~IsGuard(line) =>
                OpenAt(Append(ls, line), Len(ls) + 1 + 1) = OpenAt(ls, Len(ls) + 1)
  <1> DEFINE n == Len(ls) + 1  grown == Append(ls, line)
  <1>1. /\ Len(ls) \in Nat /\ n \in Nat /\ n = Len(ls) + 1 /\ n + 1 - 1 = n
        /\ \A i \in 1 .. n - 1 : grown[i] = ls[i]
        /\ grown[n] = line
    BY LenProperties, AppendProperties
  <1> HIDE DEF n, grown
  <1>2. ASSUME line.kind = "begin" PROVE n \in OpenAt(grown, n + 1)
    BY <1>1, <1>2 DEF OpenAt
  <1>3. ASSUME IsGuard(line), line.kind # "begin" PROVE OpenAt(grown, n + 1) = {}
    <2> SUFFICES ASSUME NEW i \in OpenAt(grown, n + 1) PROVE FALSE
      OBVIOUS
    <2>1. /\ i \in 1 .. n /\ grown[i].kind = "begin"
          /\ \A j \in i + 1 .. n : ~IsGuard(grown[j])
      BY <1>1 DEF OpenAt
    <2> QED
      BY <1>1, <1>3, <2>1
  <1>4. ASSUME ~IsGuard(line) PROVE OpenAt(grown, n + 1) = OpenAt(ls, n)
    <2>1. line.kind # "begin"
      BY <1>4 DEF IsGuard, GuardKind
    <2>2. ASSUME NEW i \in OpenAt(grown, n + 1) PROVE i \in OpenAt(ls, n)
      <3>1. /\ i \in 1 .. n /\ grown[i].kind = "begin"
            /\ \A j \in i + 1 .. n : ~IsGuard(grown[j])
        BY <1>1 DEF OpenAt
      <3>2. i \in 1 .. n - 1
        BY <1>1, <2>1, <3>1
      <3> QED
        BY <1>1, <3>1, <3>2 DEF OpenAt
    <2>3. ASSUME NEW i \in OpenAt(ls, n) PROVE i \in OpenAt(grown, n + 1)
      <3>1. /\ i \in 1 .. n - 1 /\ ls[i].kind = "begin"
            /\ \A j \in i + 1 .. n - 1 : ~IsGuard(ls[j])
        BY DEF OpenAt
      <3>2. \A j \in i + 1 .. n : ~IsGuard(grown[j])
        BY <1>1, <1>4, <3>1
      <3> QED
        BY <1>1, <3>1, <3>2 DEF OpenAt
    <2> QED
      BY <2>2, <2>3
  <1> QED
    BY <1>2, <1>3, <1>4 DEF n, grown

(* The lines behind a %begin, before and with the next one.                *)
LEMMA BehindBegin ==
    ASSUME NEW ls \in Seq(Line), NEW line \in Line, NEW i \in 1 .. Len(ls)
    PROVE  /\ SubSeq(Append(ls, line), i + 1, Len(ls)) = SubSeq(ls, i + 1, Len(ls))
           /\ SubSeq(Append(ls, line), i + 1, Len(ls) + 1)
                = Append(SubSeq(ls, i + 1, Len(ls)), line)
  <1>1. Len(ls) \in Nat /\ <<line>> \in Seq(Line)
    BY LenProperties
  <1>2. Append(ls, line) = ls \o <<line>> /\ Len(Append(ls, line)) = Len(ls) + 1
    BY AppendIsConcat, AppendProperties
  <1>3. i + 1 \in Nat /\ 1 <= i + 1 /\ i \in 0 .. Len(ls)
    BY <1>1
  <1>4. SubSeq(ls \o <<line>>, i + 1, Len(ls)) = SubSeq(ls, i + 1, Len(ls))
    BY <1>1, <1>3, SliceOfConcat
  <1>5. SubSeq(ls, i + 1, Len(ls)) \o <<line>>
          = SubSeq(ls \o <<line>>, i + 1, Len(ls \o <<line>>))
    BY <1>1, <1>3, RestOfConcat
  <1>6. SubSeq(ls, i + 1, Len(ls)) \in Seq(Line)
    BY <1>3, RestOf
  <1>7. Append(SubSeq(ls, i + 1, Len(ls)), line) = SubSeq(ls, i + 1, Len(ls)) \o <<line>>
    BY <1>6, AppendIsConcat
  <1> QED
    BY <1>2, <1>4, <1>5, <1>7

(* A line that is no guard goes to the end of the block in progress.       *)
LEMMA OneMoreLine ==
    ASSUME NEW i, NEW line, ~IsGuard(line)
    PROVE  Push(Some(Gathered(i)), line)
             = [parser |-> Some([number |-> lines[i].number, control |-> lines[i].control,
                                 output |-> Append(SubSeq(lines, i + 1, Len(lines)), line)]),
                event |-> None]
  <1>1. PICK number, control, output :
          /\ number = lines[i].number /\ control = lines[i].control
          /\ output = SubSeq(lines, i + 1, Len(lines))
    OBVIOUS
  <1>2. PICK block : block = [number |-> number, control |-> control, output |-> output]
    OBVIOUS
  <1>3. [block EXCEPT !.output = Append(@, line)]
          = [number |-> number, control |-> control, output |-> Append(output, line)]
    BY <1>2, SMTT(60)
  <1>4. line.kind \notin {"begin", "end", "error"}
    BY DEF IsGuard, GuardKind
  <1>5. Push(Some(block), line)
          = [parser |-> Some([block EXCEPT !.output = Append(@, line)]), event |-> None]
    BY <1>4 DEF Push, PushWithinBlock, Some, None
  <1>6. block = Gathered(i)
    BY <1>1, <1>2 DEF Gathered
  <1> QED
    BY <1>1, <1>3, <1>5, <1>6

(* push keeps to what the lines say, and surfaces what they mean.          *)
LEMMA PushMeans ==
    ASSUME lines \in Seq(Line), BlockIsOpen, NEW line \in Line,
           lines' = Append(lines, line), parser' = Push(parser, line).parser
    PROVE  /\ BlockIsOpen'
           /\ Push(parser, line).event = EventAt(lines', Len(lines'))
  <1>0. PICK n \in Nat : n = Len(lines) + 1
    BY LenProperties
  <1>1. /\ n - 1 = Len(lines) /\ Len(lines') = n /\ lines'[n] = line
        /\ \A i \in 1 .. n - 1 : lines'[i] = lines[i]
        /\ Len(lines) \in Nat
    BY <1>0, LenProperties, AppendProperties
  <1>2. OpenAt(lines', n) = OpenAt(lines, n)
    BY <1>0, OpenBefore
  <1>3. /\ line.kind = "begin" => n \in OpenAt(lines', n + 1)
        /\ IsGuard(line) /\ line.kind # "begin" => OpenAt(lines', n + 1) = {}
        /\ ~IsGuard(line) => OpenAt(lines', n + 1) = OpenAt(lines, n)
    BY <1>0, OpenBehind
  <1>4. ASSUME line.kind = "begin", parser' = Some(OpenBlock(line)) PROVE BlockIsOpen'
    <2>1. SubSeq(lines', n + 1, n) = << >>
      BY <1>1
    <2>2. Gathered(n)' = OpenBlock(line)
      BY <1>1, <2>1 DEF Gathered, OpenBlock
    <2> QED
      BY <1>1, <1>3, <1>4, <2>2 DEF BlockIsOpen
  <1>5. CASE parser = None /\ OpenAt(lines, n) = {}
    <2>1. /\ line.kind = "blank" => Push(parser, line) = [parser |-> None, event |-> None]
          /\ line.kind = "begin" =>
               Push(parser, line) = [parser |-> Some(OpenBlock(line)), event |-> None]
          /\ line.kind \notin {"blank", "begin"} =>
               Push(parser, line) = [parser |-> None, event |-> Some(NotificationEvent(line))]
      BY <1>5 DEF Push, PushAtTopLevel
    <2>2. Push(parser, line).event = EventAt(lines', n)
      BY <1>1, <1>2, <1>5, <2>1 DEF EventAt
    <2>3. CASE line.kind = "begin"
      BY <1>1, <1>4, <2>1, <2>2, <2>3
    <2>4. CASE line.kind # "begin"
      <3>1. parser' = None /\ OpenAt(lines', n + 1) = {}
        BY <1>3, <1>5, <2>1, <2>4
      <3> QED
        BY <1>1, <2>2, <3>1 DEF BlockIsOpen
    <2> QED
      BY <2>3, <2>4
  <1>6. ASSUME NEW i \in OpenAt(lines, n), parser = Some(Gathered(i))
        PROVE  BlockIsOpen' /\ Push(parser, line).event = EventAt(lines', n)
    <2>1. i \in 1 .. Len(lines) /\ parser # None /\ parser[1] = Gathered(i)
      BY <1>1, <1>6 DEF OpenAt, Some, None
    <2>2. (CHOOSE j \in OpenAt(lines', n) : TRUE) = i
      BY <1>1, <1>2, <1>6, OneIsOpen
    <2>3. /\ SubSeq(lines', i + 1, n - 1) = SubSeq(lines, i + 1, Len(lines))
          /\ SubSeq(lines', i + 1, n) = Append(SubSeq(lines, i + 1, Len(lines)), line)
      BY <1>0, <1>1, <2>1, BehindBegin
    <2>4. CASE IsGuard(line)
      <3>1. EventAt(lines', n) = Some(CloseBlock(Gathered(i), line.kind # "end"))
        <4>1. EventAt(lines', n)
                = Some(ReplyEvent([number |-> lines'[i].number, control |-> lines'[i].control,
                                   output |-> SubSeq(lines', i + 1, n - 1),
                                   error |-> line.kind # "end"]))
          BY <1>1, <1>2, <1>6, <2>2, <2>4 DEF EventAt
        <4> QED
          BY <1>1, <2>1, <2>3, <4>1 DEF CloseBlock, Gathered
      <3>2. CASE line.kind = "begin"
        <4>1. Push(parser, line) = [parser |-> Some(OpenBlock(line)),
                                    event |-> Some(CloseBlock(Gathered(i), TRUE))]
          BY <2>1, <3>2 DEF Push, PushWithinBlock
        <4>2. (line.kind # "end") = TRUE
          BY <3>2
        <4>3. BlockIsOpen'
          BY <1>4, <3>2, <4>1
        <4>4. EventAt(lines', n) = Some(CloseBlock(Gathered(i), TRUE))
          BY <3>1, <4>2
        <4> QED
          BY <4>1, <4>3, <4>4
      <3>3. CASE line.kind \in {"end", "error"}
        <4>1. Push(parser, line) = [parser |-> None,
                                    event |-> Some(CloseBlock(Gathered(i), line.kind = "error"))]
          BY <2>1, <3>3 DEF Push, PushWithinBlock
        <4>2. (line.kind # "end") = (line.kind = "error")
          BY <3>3
        <4>3. parser' = None /\ OpenAt(lines', n + 1) = {}
          BY <1>3, <2>4, <3>3, <4>1
        <4> QED
          BY <1>1, <3>1, <4>1, <4>2, <4>3 DEF BlockIsOpen
      <3> QED
        BY <2>4, <3>2, <3>3 DEF IsGuard, GuardKind
    <2>5. CASE ~IsGuard(line)
      <3> DEFINE block == [number |-> lines[i].number, control |-> lines[i].control,
                           output |-> Append(SubSeq(lines, i + 1, Len(lines)), line)]
      <3>1. Push(Some(Gathered(i)), line) = [parser |-> Some(block), event |-> None]
        BY <2>5, OneMoreLine
      <3> HIDE DEF block
      <3>2. Push(parser, line) = [parser |-> Some(block), event |-> None]
        BY <1>6, <3>1
      <3>3. EventAt(lines', n) = None
        BY <1>1, <1>2, <1>6, <2>5 DEF EventAt
      <3>4. Gathered(i)' = block
        <4>1. /\ lines'[i] = lines[i]
              /\ SubSeq(lines', i + 1, Len(lines')) = Append(SubSeq(lines, i + 1, Len(lines)), line)
          BY <1>1, <2>1, <2>3
        <4> QED
          BY <4>1 DEF Gathered, block
      <3>5. parser' = Some(Gathered(i)')
        BY <3>2, <3>4
      <3>6. BlockIsOpen'
        BY <1>1, <1>3, <1>6, <2>5, <3>5 DEF BlockIsOpen
      <3> QED
        BY <3>2, <3>3, <3>6
    <2> QED
      BY <2>4, <2>5
  <1> QED
    BY <1>0, <1>1, <1>5, <1>6 DEF BlockIsOpen

(* The engine conveys the event, or swallows it for one of three reasons.  *)
LEMMA SurfaceConveys ==
    ASSUME NEW event \in Option(Event), Surface(event)
    PROVE  /\ \A i \in DOMAIN incoming' : event # None /\ Conveys(incoming'[i], event[1])
           /\ incoming' = << >> =>
                \/ event = None
                \/ /\ event[1].type = "reply"
                   /\ event[1].reply.control => pending = << >> \/ panicked'
  <1>1. ASSUME incoming' = << >> PROVE DOMAIN incoming' = {}
    BY <1>1
  <1>2. ASSUME NEW x, incoming' = <<x>>
        PROVE  DOMAIN incoming' = {1} /\ incoming'[1] = x /\ incoming' # << >>
    BY <1>2
  <1>3. CASE event = None /\ PassOver
    BY <1>1, <1>3 DEF PassOver
  <1>4. CASE /\ event # None /\ event[1].type = "notification"
             /\ incoming' = << IncomingNotification(event[1].line) >>
    <2>1. Conveys(IncomingNotification(event[1].line), event[1])
      <3>1. event[1] \in Event
        BY <1>4, OptionCases
      <3>2. event[1] = NotificationEvent(event[1].line)
        BY <1>4, <3>1 DEF Event, NotificationEvent
      <3> QED
        BY <3>2 DEF Conveys, IncomingNotification
    <2> QED
      BY <1>2, <1>4, <2>1
  <1>5. CASE event # None /\ event[1].type = "reply" /\ Correlate(event[1].reply)
    <2> DEFINE reply == event[1].reply
    <2>1. CASE ~reply.control /\ PassOver
      BY <1>1, <1>5, <2>1 DEF PassOver
    <2>2. CASE reply.control /\ Tripwire(reply)
      BY <1>1, <1>5, <2>2, Zenon DEF Tripwire
    <2>3. CASE reply.control /\ PopFront(reply)
      <3>1. CASE pending = << >>
        BY <1>1, <1>5, <2>3, <3>1 DEF PopFront
      <3>2. CASE pending # << >>
        <4>1. incoming' = << IncomingReply(Head(pending), ResultOf(reply)) >>
          BY <2>3, <3>2 DEF PopFront
        <4>2. Conveys(IncomingReply(Head(pending), ResultOf(reply)), event[1])
          BY <1>5, <2>3 DEF Conveys, IncomingReply
        <4> QED
          BY <1>2, <1>5, <4>1, <4>2
      <3> QED
        BY <3>1, <3>2
    <2> QED
      BY <1>5, <2>1, <2>2, <2>3 DEF Correlate
  <1> QED
    BY <1>3, <1>4, <1>5 DEF Surface

LEMMA NextMeans ==
    ASSUME FInv, BlockIsOpen, [FeedNext]_feedVars
    PROVE  BlockIsOpen' /\ LineMeaning
  <1>1. CASE NextLine
    <2>1. PICK line \in Line : OnLine(line) /\ lines' = Append(lines, line)
      BY <1>1, NextLineParts
    <2>2. lines \in Seq(Line)
      BY DEF FInv, FeedTypeOK
    <2>3. parser' = Push(parser, line).parser /\ Surface(Push(parser, line).event)
      BY <2>1 DEF OnLine
    <2>4. BlockIsOpen' /\ Push(parser, line).event = EventAt(lines', Len(lines'))
      BY <2>1, <2>2, <2>3, PushMeans
    <2>5. /\ Surface(EventAt(lines', Len(lines')))
          /\ EventAt(lines', Len(lines')) \in Option(Event)
      BY <2>3, <2>4, PushType DEF FInv, FeedTypeOK, TypeOK
    <2> QED
      BY <2>4, <2>5, SurfaceConveys DEF LineMeaning
  <1>2. CASE ~NextLine
    <2>1. UNCHANGED <<lines, parser>>
      BY <1>2 DEF FeedNext, Call, Return, Register, Eof, RegisterCommand, OnEof,
                  feedVars, engineVars
    <2>2. BlockIsOpen'
      BY <2>1 DEF BlockIsOpen, Gathered
    <2> QED
      BY <2>1, <2>2 DEF LineMeaning
  <1> QED
    BY <1>1, <1>2

(* Every line handed over surfaces what the lines before it say it means,  *)
(* and nothing is swallowed but a stray blank, a server-internal block and *)
(* a control block nobody waits for (parser.rs:79-135, engine.rs:108-143), *)
(* for streams, blocks and numbers of commands of any length.              *)
THEOREM LinesAlwaysMeanWhatTheyFrame == FeedSpec => LinesMeanWhatTheyFrame
  <1>1. FeedInit => BlockIsOpen
    BY DEF FeedInit, EngineInit, BlockIsOpen, OpenAt
  <1>2. FInv /\ BlockIsOpen /\ [FeedNext]_feedVars => BlockIsOpen'
    BY NextMeans
  <1>3. FInv /\ BlockIsOpen /\ [FeedNext]_feedVars => [LineMeaning]_feedVars
    BY NextMeans
  <1> QED
    BY <1>1, <1>2, <1>3, SpecFInv, PTL DEF FeedSpec, LinesMeanWhatTheyFrame
=============================================================================
