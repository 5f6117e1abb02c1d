---------------------------- MODULE LayoutProofs ----------------------------
(***************************************************************************)
(* Layout strings of any length, of layouts nested to any depth: what      *)
(* parse reads is what render wrote and nothing else, and a changed byte   *)
(* changes the checksum.                                                   *)
(***************************************************************************)
EXTENDS Layout, Checksum, SequenceTheorems, WellFoundedInduction, TLAPS

LEMMA LeastIn ==
    ASSUME NEW S \in SUBSET Nat, S # {}
    PROVE  \E n \in S : \A m \in S : n <= m
  <1> DEFINE Below == OpToRel(<, Nat)
  <1>1. IsWellFoundedOn(Below, Nat)
    BY NatLessThanWellFounded
  <1> HIDE DEF Below
  <1>2. PICK n \in S : \A m \in S : ~(<<m, n>> \in Below)
    BY <1>1, WFMin
  <1>3. ASSUME NEW m \in S PROVE n <= m
    <2>1. m \in Nat /\ n \in Nat /\ ~(<<m, n>> \in Below)
      BY <1>2
    <2> QED
      BY <2>1 DEF Below, OpToRel
  <1> QED
    BY <1>2, <1>3

(* Induction on the numbers that a recursion counts down. *)
LEMMA CountingUp ==
    ASSUME NEW T \in SUBSET Nat, 0 \in T, \A n \in T : n + 1 \in T
    PROVE  T = Nat
  <1>1. SUFFICES ASSUME Nat \ T # {} PROVE FALSE
    OBVIOUS
  <1>2. PICK n \in Nat \ T : \A m \in Nat \ T : n <= m
    BY <1>1, LeastIn
  <1>3. n # 0 /\ n - 1 \in Nat /\ n - 1 < n
    BY <1>2
  <1>4. n - 1 \in T
    BY <1>2, <1>3
  <1> QED
    BY <1>2, <1>3, <1>4

----------------------------------------------------------------------------
(* The recursive functions of Layout, and that of FlattenSeq: what each    *)
(* makes of its value one step below.  That there is a function with such  *)
(* an equation takes one proof for all of them.                            *)
LeafLayouts == [t : {"leaf"}, cell : Cell, pane : 0 .. MaxPane]
SplitsOver(S) == [t : {"h", "v"}, cell : Cell, children : Seq(S) \ {<< >>}]

(* The texts of the children, the separators between them included.        *)
ChildTexts(rendered, children) ==
    [k \in DOMAIN children |->
        (IF k > 1 THEN << Sep(",") >> ELSE << >>) \o rendered[children[k]]]

LeafText(tree) == CellText(tree.cell) \o << Sep(","), Num[tree.pane] >>
SplitText(tree, texts) ==
    CellText(tree.cell) \o << Sep(Brackets(tree.t)[1]) >> \o FlattenSeq(texts)
      \o << Sep(Brackets(tree.t)[2]) >>

Within(below, depth) == LeafLayouts \cup IF depth = 0 THEN {} ELSE SplitsOver(below)

Rendered(below, depth) ==
    [tree \in LayoutsWithin[depth] |->
        IF tree.t = "leaf" THEN LeafText(tree)
        ELSE SplitText(tree, ChildTexts(below, tree.children))]

Turns(below, text, turns) ==
    [call \in Nat \X {"}", "]"} \X Nat |->
        IF turns = 0 THEN Error ELSE ParseChild(below, text, call[1], call[2], call[3])]

Summed(below, bytes, n) == IF n = 0 THEN 0 ELSE Loop!RotateAdd(below, bytes[n])

Spelled(below, n) == IF n < 10 THEN << 48 + n >> ELSE below \o << 48 + (n % 10) >>

Counted(below, token, n) == IF n = 0 THEN 0 ELSE 10 * below + (token[n] - 48)

Flattened(below, seqs, n) == IF n <= 1 THEN seqs[n] ELSE below \o seqs[n]

StepOf(kind, arg, below, n) ==
    CASE kind = "layouts" -> Within(below, n)
      [] kind = "render" -> Rendered(below, n)
      [] kind = "parse" -> Turns(below, arg, n)
      [] kind = "sum" -> Summed(below, arg, n)
      [] kind = "flat" -> Flattened(below, arg, n)
      [] kind = "spell" -> Spelled(below, n)
      [] kind = "count" -> Counted(below, arg, n)

(* The value each step starts from is that of the number one below, or of  *)
(* the number without its last digit.                                      *)
Back(kind, n) == IF kind = "spell" THEN n \div 10 ELSE n - 1

Recursion(kind, arg, f, n) == StepOf(kind, arg, IF n = 0 THEN {} ELSE f[Back(kind, n)], n)

UpTo(kind, arg, f, n) == f = [m \in 0 .. n |-> Recursion(kind, arg, f, m)]

LEMMA BackIsBelow ==
    ASSUME NEW kind, NEW n \in Nat, n # 0
    PROVE  /\ Back(kind, n) \in Nat /\ Back(kind, n) < n
           /\ Back(kind, n) \in 0 .. n - 1
           /\ Back(kind, n) \in 0 .. n
  <1>1. CASE kind = "spell"
    <2>1. n \div 10 \in Nat /\ n \div 10 < n
      OBVIOUS
    <2> QED
      BY <1>1, <2>1 DEF Back
  <1>2. CASE kind # "spell"
    <2>1. n - 1 \in Nat /\ n - 1 < n
      OBVIOUS
    <2> QED
      BY <1>2, <2>1 DEF Back
  <1> QED
    BY <1>1, <1>2

LEMMA UpToOneMore ==
    ASSUME NEW kind, NEW arg, NEW n \in Nat, NEW f, UpTo(kind, arg, f, n)
    PROVE  \E longer : UpTo(kind, arg, longer, n + 1)
  <1>1. PICK longer :
          longer = [m \in 0 .. n + 1 |->
                      IF m = n + 1 THEN StepOf(kind, arg, f[Back(kind, n + 1)], n + 1) ELSE f[m]]
    OBVIOUS
  <1>2. \A m \in 0 .. n : longer[m] = f[m]
    BY <1>1
  <1>3. \A m \in 0 .. n : f[m] = Recursion(kind, arg, f, m)
    BY DEF UpTo
  <1>4. ASSUME NEW m \in 0 .. n + 1 PROVE longer[m] = Recursion(kind, arg, longer, m)
    <2>1. CASE m = n + 1
      <3>1. longer[m] = StepOf(kind, arg, f[Back(kind, n + 1)], n + 1)
        BY <1>1, <2>1
      <3>2. m # 0 /\ longer[Back(kind, m)] = f[Back(kind, m)]
        <4>1. n + 1 \in Nat /\ n + 1 # 0 /\ (n + 1) - 1 = n
          OBVIOUS
        <4>2. Back(kind, n + 1) \in 0 .. n
          BY <4>1, BackIsBelow
        <4> QED
          BY <1>2, <2>1, <4>1, <4>2
      <3> QED
        BY <2>1, <3>1, <3>2 DEF Recursion
    <2>2. CASE m = 0
      <3>1. m \in 0 .. n
        BY <2>2
      <3> QED
        BY <1>2, <1>3, <2>2, <3>1 DEF Recursion
    <2>3. CASE m \in 1 .. n
      <3>1. m \in Nat /\ m \in 0 .. n /\ m # 0
        BY <2>3
      <3>2. longer[m] = f[m] /\ longer[Back(kind, m)] = f[Back(kind, m)]
        <4>1. Back(kind, m) \in 0 .. m
          BY <3>1, BackIsBelow
        <4>2. \A j \in 0 .. m : j \in 0 .. n
          BY <3>1
        <4> QED
          BY <1>2, <3>1, <4>1, <4>2
      <3> QED
        BY <1>3, <3>1, <3>2 DEF Recursion
    <2> QED
      BY <2>1, <2>2, <2>3
  <1>5. longer = [m \in 0 .. n + 1 |-> longer[m]]
    BY <1>1
  <1>6. longer = [m \in 0 .. n + 1 |-> Recursion(kind, arg, longer, m)]
    BY <1>4, <1>5
  <1> QED
    BY <1>6 DEF UpTo

LEMMA UpToExists ==
    ASSUME NEW kind, NEW arg, NEW n \in Nat
    PROVE  \E f : UpTo(kind, arg, f, n)
  <1> DEFINE T == {m \in Nat : \E f : UpTo(kind, arg, f, m)}
  <1>1. 0 \in T
    <2>1. PICK f : f = [m \in 0 .. 0 |-> StepOf(kind, arg, {}, 0)]
      OBVIOUS
    <2>2. \A m \in 0 .. 0 : m = 0
      OBVIOUS
    <2>3. \A m \in 0 .. 0 : Recursion(kind, arg, f, m) = StepOf(kind, arg, {}, 0)
      BY <2>2 DEF Recursion
    <2>4. UpTo(kind, arg, f, 0)
      BY <2>1, <2>3 DEF UpTo
    <2> QED
      BY <2>4
  <1>2. \A m \in T : m + 1 \in T
    BY UpToOneMore
  <1>3. T \in SUBSET Nat
    OBVIOUS
  <1> HIDE DEF T
  <1>4. T = Nat
    BY <1>1, <1>2, <1>3, CountingUp
  <1> QED
    BY <1>4 DEF T

(* Two of them agree as far as both go. *)
LEMMA UpToUnique ==
    ASSUME NEW kind, NEW arg, NEW n \in Nat, NEW k \in Nat, n <= k,
           NEW f, UpTo(kind, arg, f, n), NEW g, UpTo(kind, arg, g, k),
           NEW m \in 0 .. n
    PROVE  f[m] = g[m]
  <1> DEFINE S == {j \in 0 .. n : f[j] # g[j]}
  <1>1. SUFFICES ASSUME S # {} PROVE FALSE
    OBVIOUS
  <1>2. S \in SUBSET Nat
    OBVIOUS
  <1>3. PICK j \in S : \A l \in S : j <= l
    BY <1>1, <1>2, LeastIn
  <1>4. j \in 0 .. n /\ j \in 0 .. k /\ f[j] # g[j]
    BY <1>3
  <1>5. f[j] = Recursion(kind, arg, f, j) /\ g[j] = Recursion(kind, arg, g, j)
    BY <1>4 DEF UpTo
  <1>6. j = 0 \/ f[Back(kind, j)] = g[Back(kind, j)]
    <2>1. SUFFICES ASSUME j # 0 PROVE f[Back(kind, j)] = g[Back(kind, j)]
      OBVIOUS
    <2>2. PICK b \in 0 .. n : b = Back(kind, j) /\ b < j
      <3>1. Back(kind, j) \in 0 .. j /\ Back(kind, j) < j
        BY <1>4, <2>1, BackIsBelow
      <3>2. \A b \in 0 .. j : b \in 0 .. n
        BY <1>4
      <3> QED
        BY <3>1, <3>2
    <2>3. b \notin S
      BY <1>3, <2>2
    <2> QED
      BY <2>2, <2>3
  <1> QED
    BY <1>4, <1>5, <1>6 DEF Recursion

LEMMA RecursionExists ==
    ASSUME NEW kind, NEW arg
    PROVE  \E f : f = [n \in Nat |-> Recursion(kind, arg, f, n)]
  <1> DEFINE part(n) == CHOOSE g : UpTo(kind, arg, g, n)
  <1>1. PICK f : f = [n \in Nat |-> part(n)[n]]
    OBVIOUS
  <1>2. \A n \in Nat : UpTo(kind, arg, part(n), n)
    BY UpToExists
  <1> HIDE DEF part
  <1>3. ASSUME NEW n \in Nat PROVE f[n] = Recursion(kind, arg, f, n)
    <2>1. f[n] = part(n)[n]
      BY <1>1
    <2>2. part(n)[n] = Recursion(kind, arg, part(n), n)
      <3>1. n \in 0 .. n
        OBVIOUS
      <3> QED
        BY <1>2, <3>1 DEF UpTo
    <2>3. n = 0 \/ part(n)[Back(kind, n)] = f[Back(kind, n)]
      <3>1. SUFFICES ASSUME n # 0 PROVE part(n)[Back(kind, n)] = f[Back(kind, n)]
        OBVIOUS
      <3>2. PICK b \in Nat : b = Back(kind, n) /\ b <= n /\ b \in 0 .. b
        <4>1. Back(kind, n) \in Nat /\ Back(kind, n) < n
          BY <3>1, BackIsBelow
        <4> QED
          BY <4>1
      <3>3. part(b)[b] = part(n)[b]
        BY <1>2, <3>2, UpToUnique
      <3> QED
        BY <1>1, <3>2, <3>3
    <2> QED
      BY <2>1, <2>2, <2>3 DEF Recursion
  <1>4. f = [n \in Nat |-> f[n]]
    BY <1>1
  <1>5. f = [n \in Nat |-> Recursion(kind, arg, f, n)]
    BY <1>3, <1>4
  <1> QED
    BY <1>5

----------------------------------------------------------------------------
(* What each of them is worth. *)
LEMMA LayoutsAt ==
    ASSUME NEW n \in Nat
    PROVE  LayoutsWithin[n] = LeafLayouts \cup IF n = 0 THEN {} ELSE SplitsOver(LayoutsWithin[n - 1])
  <1> DEFINE Layers(f) ==
               [depth \in Nat |->
                  [t : {"leaf"}, cell : Cell, pane : 0 .. MaxPane]
                    \cup IF depth = 0 THEN {}
                         ELSE [t : {"h", "v"}, cell : Cell,
                               children : Seq(f[depth - 1]) \ {<< >>}]]
  <1>1. \E f : f = Layers(f)
    <2>1. PICK f : f = [m \in Nat |-> Recursion("layouts", {}, f, m)]
      BY RecursionExists
    <2>2. ASSUME NEW m \in Nat
          PROVE  Recursion("layouts", {}, f, m)
                   = [t : {"leaf"}, cell : Cell, pane : 0 .. MaxPane]
                       \cup IF m = 0 THEN {}
                            ELSE [t : {"h", "v"}, cell : Cell, children : Seq(f[m - 1]) \ {<< >>}]
      BY DEF Recursion, StepOf, Within, LeafLayouts, SplitsOver, Back
    <2>3. f = Layers(f)
      BY <2>1, <2>2
    <2> QED
      BY <2>3
  <1>2. LayoutsWithin = CHOOSE f : f = Layers(f)
    BY DEF LayoutsWithin
  <1>3. LayoutsWithin = Layers(LayoutsWithin)
    <2> HIDE DEF Layers
    <2> QED
      BY <1>1, <1>2
  <1>4. LayoutsWithin[n] = Layers(LayoutsWithin)[n]
    BY <1>3
  <1> QED
    BY <1>4 DEF LeafLayouts, SplitsOver

LEMMA RenderAt ==
    ASSUME NEW n \in Nat
    PROVE  RenderWithin[n] = Rendered(IF n = 0 THEN {} ELSE RenderWithin[n - 1], n)
  <1> DEFINE Layers(f) ==
               [depth \in Nat |->
                  [tree \in LayoutsWithin[depth] |->
                     IF tree.t = "leaf"
                     THEN CellText(tree.cell) \o << Sep(","), Num[tree.pane] >>
                     ELSE CellText(tree.cell) \o << Sep(Brackets(tree.t)[1]) >>
                            \o FlattenSeq([k \in DOMAIN tree.children |->
                                             (IF k > 1 THEN << Sep(",") >> ELSE << >>)
                                               \o f[depth - 1][tree.children[k]]])
                            \o << Sep(Brackets(tree.t)[2]) >>]]
  <1>1. \E f : f = Layers(f)
    <2>1. PICK f : f = [m \in Nat |-> Recursion("render", {}, f, m)]
      BY RecursionExists
    <2>2. ASSUME NEW m \in Nat PROVE Recursion("render", {}, f, m) = Layers(f)[m]
      <3>0. m = 0 => \A tree \in LayoutsWithin[m] : tree.t = "leaf"
        BY LayoutsAt DEF LeafLayouts
      <3>1. Recursion("render", {}, f, m) = Rendered(IF m = 0 THEN {} ELSE f[m - 1], m)
        BY DEF Recursion, StepOf, Back
      <3>2. CASE m = 0
        BY <3>0, <3>1, <3>2, ZenonT(60) DEF Rendered, LeafText
      <3>3. CASE m # 0
        BY <3>1, <3>3, ZenonT(60) DEF Rendered, LeafText, SplitText, ChildTexts
      <3> QED
        BY <3>2, <3>3
    <2>3. f = Layers(f)
      BY <2>1, <2>2
    <2> QED
      BY <2>3, ZenonT(60)
  <1>2. RenderWithin = CHOOSE f : f = Layers(f)
    BY DEF RenderWithin
  <1>3. RenderWithin = Layers(RenderWithin)
    <2> HIDE DEF Layers
    <2> QED
      BY <1>1, <1>2
  <1>4. RenderWithin[n] = Layers(RenderWithin)[n]
    BY <1>3
  <1>5. n = 0 => \A tree \in LayoutsWithin[n] : tree.t = "leaf"
    BY LayoutsAt DEF LeafLayouts
  <1>6. CASE n = 0
    BY <1>4, <1>5, <1>6 DEF Rendered, LeafText
  <1>7. CASE n # 0
    BY <1>4, <1>7 DEF Rendered, LeafText, SplitText, ChildTexts
  <1> QED
    BY <1>6, <1>7, SMTT(30)

Closing == {"}", "]"}

ParsesBy(p, text) ==
    /\ ParseChildren(text) = p[Len(text)]
    /\ \A at \in Nat, close \in Closing, depth \in Nat : p[0][<<at, close, depth>>] = Error
    /\ \A n \in Nat, at \in Nat, close \in Closing, depth \in Nat :
         p[n + 1][<<at, close, depth>>] = ParseChild(p[n], text, at, close, depth)

LEMMA ParseAt ==
    ASSUME NEW text
    PROVE  \E p : ParsesBy(p, text)
  <1> DEFINE Layers(f) ==
               [turns \in Nat |->
                  [call \in Nat \X {"}", "]"} \X Nat |->
                     IF turns = 0 THEN Error
                     ELSE ParseChild(f[turns - 1], text, call[1], call[2], call[3])]]
             p == CHOOSE f : f = Layers(f)
  <1>1. \E f : f = Layers(f)
    <2>1. PICK f : f = [m \in Nat |-> Recursion("parse", text, f, m)]
      BY RecursionExists
    <2>2. ASSUME NEW m \in Nat PROVE Recursion("parse", text, f, m) = Layers(f)[m]
      BY DEF Recursion, StepOf, Turns, Back
    <2>3. f = Layers(f)
      <3>1. Layers(f) = [m \in Nat |-> Layers(f)[m]]
        OBVIOUS
      <3> HIDE DEF Layers
      <3> QED
        BY <2>1, <2>2, <3>1
    <2> QED
      BY <2>3
  <1>2. p = Layers(p)
    <2> HIDE DEF Layers
    <2> QED
      BY <1>1
  <1>3. ParseChildren(text) = p[Len(text)]
    BY DEF ParseChildren
  <1> HIDE DEF p
  <1>4. ASSUME NEW n \in Nat, NEW at \in Nat, NEW close \in Closing, NEW depth \in Nat
        PROVE  p[n][<<at, close, depth>>]
                 = IF n = 0 THEN Error ELSE ParseChild(p[n - 1], text, at, close, depth)
    <2> DEFINE call == <<at, close, depth>>
    <2>1. call \in Nat \X {"}", "]"} \X Nat
      BY DEF Closing
    <2>2. call[1] = at /\ call[2] = close /\ call[3] = depth
      OBVIOUS
    <2> HIDE DEF call
    <2>3. p[n] = Layers(p)[n]
      BY <1>2
    <2>4. p[n][call] = IF n = 0 THEN Error
                       ELSE ParseChild(p[n - 1], text, call[1], call[2], call[3])
      BY <2>1, <2>3
    <2> QED
      BY <2>2, <2>4 DEF call
  <1>5. \A at \in Nat, close \in Closing, depth \in Nat : p[0][<<at, close, depth>>] = Error
    BY <1>4
  <1>6. ASSUME NEW n \in Nat, NEW at \in Nat, NEW close \in Closing, NEW depth \in Nat
        PROVE  p[n + 1][<<at, close, depth>>] = ParseChild(p[n], text, at, close, depth)
    <2>1. n + 1 \in Nat /\ n + 1 # 0 /\ (n + 1) - 1 = n
      OBVIOUS
    <2> QED
      BY <1>4, <2>1
  <1> HIDE DEF Layers
  <1>7. ParsesBy(p, text)
    BY <1>3, <1>5, <1>6 DEF ParsesBy
  <1> QED
    BY <1>7

LEMMA SumAt ==
    ASSUME NEW text
    PROVE  \E s : /\ Checksum(text) = s[Len(FlattenSeq(text))]
                  /\ s = [n \in Nat |->
                            Summed(IF n = 0 THEN {} ELSE s[n - 1], FlattenSeq(text), n)]
  <1> DEFINE bytes == FlattenSeq(text)
             Layers(f) ==
               [n \in Nat |-> IF n = 0 THEN 0 ELSE Loop!RotateAdd(f[n - 1], bytes[n])]
             s == CHOOSE f : f = Layers(f)
  <1>1. \E f : f = Layers(f)
    <2>1. PICK f : f = [m \in Nat |-> Recursion("sum", bytes, f, m)]
      BY RecursionExists
    <2>2. ASSUME NEW m \in Nat PROVE Recursion("sum", bytes, f, m) = Layers(f)[m]
      BY DEF Recursion, StepOf, Summed, Back
    <2>3. f = Layers(f)
      BY <2>1, <2>2
    <2> QED
      BY <2>3
  <1>2. s = Layers(s)
    <2> HIDE DEF Layers
    <2> QED
      BY <1>1
  <1>3. Checksum(text) = s[Len(bytes)]
    BY DEF Checksum
  <1>4. s = [n \in Nat |-> Summed(IF n = 0 THEN {} ELSE s[n - 1], bytes, n)]
    BY <1>2 DEF Summed
  <1> QED
    BY <1>3, <1>4

LEMMA FlatAt ==
    ASSUME NEW seqs, Len(seqs) \in Nat, Len(seqs) # 0
    PROVE  \E f : /\ FlattenSeq(seqs) = f[Len(seqs)]
                  /\ f[1] = seqs[1]
                  /\ \A k \in 1 .. Len(seqs) - 1 : f[k + 1] = f[k] \o seqs[k + 1]
  <1> DEFINE Layers(f) ==
               [i \in 1 .. Len(seqs) |-> IF i = 1 THEN seqs[i] ELSE f[i - 1] \o seqs[i]]
             flat == CHOOSE f : f = Layers(f)
  <1>1. \E f : f = Layers(f)
    <2>1. PICK g : g = [m \in Nat |-> Recursion("flat", seqs, g, m)]
      BY RecursionExists
    <2>2. PICK f : f = [i \in 1 .. Len(seqs) |-> g[i]]
      OBVIOUS
    <2>3. ASSUME NEW m \in 1 .. Len(seqs)
          PROVE  f[m] = IF m = 1 THEN seqs[m] ELSE f[m - 1] \o seqs[m]
      <3>1. m \in Nat /\ m # 0 /\ (m = 1 \/ m - 1 \in 1 .. Len(seqs)) /\ (m <= 1 <=> m = 1)
        OBVIOUS
      <3>2. f[m] = Recursion("flat", seqs, g, m)
        BY <2>1, <2>2, <3>1
      <3>3. Recursion("flat", seqs, g, m) = Flattened(g[m - 1], seqs, m)
        BY <3>1 DEF Recursion, StepOf, Back
      <3>4. m = 1 \/ f[m - 1] = g[m - 1]
        BY <2>2, <3>1
      <3> QED
        BY <3>1, <3>2, <3>3, <3>4 DEF Flattened
    <2>4. f = [i \in 1 .. Len(seqs) |-> f[i]]
      BY <2>2
    <2>5. f = Layers(f)
      BY <2>3, <2>4
    <2> QED
      BY <2>5
  <1>2. flat = Layers(flat)
    <2> HIDE DEF Layers
    <2> QED
      BY <1>1
  <1>3. FlattenSeq(seqs) = flat[Len(seqs)]
    BY DEF FlattenSeq
  <1> HIDE DEF flat
  <1>4. ASSUME NEW m \in 1 .. Len(seqs)
        PROVE  flat[m] = IF m = 1 THEN seqs[m] ELSE flat[m - 1] \o seqs[m]
    BY <1>2
  <1>5. flat[1] = seqs[1]
    BY <1>4
  <1>6. ASSUME NEW k \in 1 .. Len(seqs) - 1 PROVE flat[k + 1] = flat[k] \o seqs[k + 1]
    <2>1. k + 1 \in 1 .. Len(seqs) /\ k + 1 # 1 /\ (k + 1) - 1 = k
      OBVIOUS
    <2> QED
      BY <1>4, <2>1
  <1> QED
    BY <1>3, <1>5, <1>6

----------------------------------------------------------------------------
(* Sequences. *)
LEMMA ConcatParts ==
    ASSUME NEW S, NEW s \in Seq(S), NEW t \in Seq(S)
    PROVE  /\ s \o t \in Seq(S)
           /\ Len(s \o t) = Len(s) + Len(t)
           /\ Len(s) \in Nat /\ Len(t) \in Nat
           /\ \A k \in 1 .. Len(s) : (s \o t)[k] = s[k]
           /\ \A k \in 1 .. Len(t) : (s \o t)[Len(s) + k] = t[k]
  <1>1. s \o t \in Seq(S) /\ Len(s \o t) = Len(s) + Len(t) /\ Len(s) \in Nat /\ Len(t) \in Nat
    BY ConcatProperties, LenProperties
  <1>2. \A k \in 1 .. Len(s) : (s \o t)[k] = s[k]
    BY <1>1, ConcatProperties
  <1>3. ASSUME NEW k \in 1 .. Len(t) PROVE (s \o t)[Len(s) + k] = t[k]
    <2>1. Len(s) + k \in 1 .. Len(s) + Len(t) /\ ~(Len(s) + k <= Len(s)) /\ (Len(s) + k) - Len(s) = k
      BY <1>1
    <2> QED
      BY <2>1, ConcatProperties
  <1> QED
    BY <1>1, <1>2, <1>3

LEMMA Associate ==
    ASSUME NEW S, NEW s \in Seq(S), NEW t \in Seq(S), NEW u \in Seq(S)
    PROVE  (s \o t) \o u = s \o (t \o u)
  <1> DEFINE l == (s \o t) \o u
             r == s \o (t \o u)
  <1>1. /\ l \in Seq(S) /\ r \in Seq(S) /\ s \o t \in Seq(S) /\ t \o u \in Seq(S)
        /\ Len(l) = Len(s) + Len(t) + Len(u) /\ Len(r) = Len(s) + Len(t) + Len(u)
        /\ Len(s) \in Nat /\ Len(t) \in Nat /\ Len(u) \in Nat
        /\ Len(s \o t) = Len(s) + Len(t) /\ Len(t \o u) = Len(t) + Len(u)
    BY ConcatParts
  <1>2. ASSUME NEW k \in 1 .. Len(s) + Len(t) + Len(u) PROVE l[k] = r[k]
    <2>1. CASE k \in 1 .. Len(s)
      <3>1. l[k] = (s \o t)[k]
        BY <1>1, <2>1, ConcatParts
      <3>2. (s \o t)[k] = s[k] /\ r[k] = s[k]
        BY <1>1, <2>1, ConcatParts
      <3> QED
        BY <3>1, <3>2
    <2>2. CASE k \in Len(s) + 1 .. Len(s) + Len(t)
      <3>1. PICK j \in 1 .. Len(t) : k = Len(s) + j
        <4>1. k - Len(s) \in 1 .. Len(t) /\ k = Len(s) + (k - Len(s))
          BY <1>1, <2>2
        <4> QED
          BY <4>1
      <3>2. k \in 1 .. Len(s \o t) /\ j \in 1 .. Len(t \o u)
        BY <1>1, <2>2, <3>1
      <3>3. l[k] = (s \o t)[k] /\ (s \o t)[k] = t[j]
        BY <1>1, <3>1, <3>2, ConcatParts
      <3>4. r[k] = (t \o u)[j] /\ (t \o u)[j] = t[j]
        BY <1>1, <3>1, <3>2, ConcatParts
      <3> QED
        BY <3>3, <3>4
    <2>3. CASE k \in Len(s) + Len(t) + 1 .. Len(s) + Len(t) + Len(u)
      <3>1. PICK j \in 1 .. Len(u) : k = (Len(s) + Len(t)) + j
        <4>1. k - (Len(s) + Len(t)) \in 1 .. Len(u) /\ k = (Len(s) + Len(t)) + (k - (Len(s) + Len(t)))
          BY <1>1, <2>3
        <4> QED
          BY <4>1
      <3>2. k = Len(s) + (Len(t) + j) /\ Len(t) + j \in 1 .. Len(t \o u)
        BY <1>1, <3>1
      <3>3. l[k] = u[j]
        BY <1>1, <3>1, ConcatParts
      <3>4. r[k] = (t \o u)[Len(t) + j] /\ (t \o u)[Len(t) + j] = u[j]
        BY <1>1, <3>1, <3>2, ConcatParts
      <3> QED
        BY <3>3, <3>4
    <2> QED
      BY <1>1, <2>1, <2>2, <2>3
  <1> HIDE DEF l, r
  <1>3. l = r
    BY <1>1, <1>2, SeqEqual
  <1> QED
    BY <1>3 DEF l, r

LEMMA OneToken ==
    ASSUME NEW S, NEW x \in S
    PROVE  << x >> \in Seq(S) /\ Len(<< x >>) = 1 /\ << x >>[1] = x
  OBVIOUS

LEMMA NothingBefore ==
    ASSUME NEW S, NEW s \in Seq(S)
    PROVE  << >> \o s = s
  <1>1. << >> \in Seq(S) /\ Len(<< >>) = 0
    BY EmptySeq
  <1>2. << >> \o s \in Seq(S) /\ Len(<< >> \o s) = Len(s) /\ Len(s) \in Nat
    BY <1>1, ConcatParts
  <1>3. ASSUME NEW k \in 1 .. Len(s) PROVE (<< >> \o s)[k] = s[k]
    <2>1. k = 0 + k
      BY <1>2
    <2>2. (<< >> \o s)[0 + k] = s[k]
      BY <1>1, <1>3, ConcatParts
    <2> QED
      BY <2>1, <2>2
  <1> QED
    BY <1>2, <1>3, SeqEqual

LEMMA FirstAndRest ==
    ASSUME NEW S, NEW s \in Seq(S), s # << >>
    PROVE  /\ s[1] \in S /\ Tail(s) \in Seq(S)
           /\ Len(s) \in Nat /\ Len(s) # 0 /\ Len(Tail(s)) = Len(s) - 1
           /\ \A k \in 1 .. Len(Tail(s)) : Tail(s)[k] = s[k + 1]
           /\ s = << s[1] >> \o Tail(s)
           /\ Tail(s) = << >> => s = << s[1] >>
  <1>1. Len(s) \in Nat /\ Len(s) # 0 /\ DOMAIN s = 1 .. Len(s)
    BY LenProperties, EmptySeq
  <1>2. s[1] \in S
    BY <1>1, ElementOfSeq
  <1>3. Tail(s) \in Seq(S) /\ Len(Tail(s)) = Len(s) - 1
    BY HeadTailProperties
  <1>4. \A k \in 1 .. Len(Tail(s)) : Tail(s)[k] = s[k + 1]
    BY <1>1, <1>3, HeadTailProperties
  <1> DEFINE u == << s[1] >> \o Tail(s)
  <1>5. << s[1] >> \in Seq(S) /\ Len(<< s[1] >>) = 1 /\ << s[1] >>[1] = s[1]
    BY <1>2, OneToken
  <1>6. u \in Seq(S) /\ Len(u) = Len(s)
    <2>1. u \in Seq(S) /\ Len(u) = 1 + Len(Tail(s))
      BY <1>3, <1>5, ConcatParts
    <2> QED
      BY <1>1, <1>3, <2>1
  <1>7. ASSUME NEW k \in 1 .. Len(s) PROVE u[k] = s[k]
    <2>1. CASE k = 1
      BY <1>3, <1>5, <2>1, ConcatParts
    <2>2. CASE k # 1
      <3>1. k - 1 \in 1 .. Len(Tail(s)) /\ k = 1 + (k - 1) /\ k = (k - 1) + 1
        BY <1>1, <1>3, <2>2
      <3>2. u[1 + (k - 1)] = Tail(s)[k - 1]
        BY <1>3, <1>5, <3>1, ConcatParts
      <3>3. Tail(s)[k - 1] = s[(k - 1) + 1]
        BY <1>4, <3>1
      <3> QED
        BY <3>1, <3>2, <3>3
    <2> QED
      BY <2>1, <2>2
  <1> HIDE DEF u
  <1>8. u = s
    BY <1>1, <1>6, <1>7, SeqEqual
  <1>9. ASSUME Tail(s) = << >> PROVE s = << s[1] >>
    <2>1. Len(s) = 1
      <3>1. \A m \in Nat : m - 1 = 0 => m = 1
        OBVIOUS
      <3>2. Len(Tail(s)) = 0
        BY <1>9, EmptySeq
      <3> QED
        BY <1>1, <1>3, <3>1, <3>2
    <2>2. \A k \in 1 .. Len(s) : s[k] = << s[1] >>[k]
      BY <1>5, <2>1
    <2> QED
      BY <1>5, <2>1, <2>2, SeqEqual
  <1> QED
    BY <1>1, <1>2, <1>3, <1>4, <1>8, <1>9 DEF u

----------------------------------------------------------------------------
(* The layouts of a level are among those of the levels above.             *)
LEMMA TreeParts ==
    ASSUME NEW n \in Nat, NEW tree \in LayoutsWithin[n]
    PROVE  /\ tree.cell \in Cell
           /\ tree.t = "leaf" => tree.pane \in 0 .. MaxPane /\ tree = Leaf(tree.cell, tree.pane)
           /\ tree.t # "leaf" => /\ n # 0 /\ n - 1 \in Nat
                                 /\ tree.t \in {"h", "v"}
                                 /\ tree.children \in Seq(LayoutsWithin[n - 1])
                                 /\ tree.children # << >>
                                 /\ tree = Split(tree.t, tree.cell, tree.children)
  <1>1. tree \in LeafLayouts \/ (n # 0 /\ tree \in SplitsOver(LayoutsWithin[n - 1]))
    BY LayoutsAt
  <1>2. CASE tree \in LeafLayouts
    BY <1>2 DEF LeafLayouts, Leaf
  <1>3. CASE n # 0 /\ tree \in SplitsOver(LayoutsWithin[n - 1])
    <2>1. n # 0 /\ n - 1 \in Nat
      BY <1>3
    <2>2. /\ tree.t \in {"h", "v"} /\ tree.cell \in Cell
          /\ tree.children \in Seq(LayoutsWithin[n - 1]) /\ tree.children # << >>
          /\ tree = Split(tree.t, tree.cell, tree.children)
      BY <1>3 DEF SplitsOver, Split
    <2>3. tree.t # "leaf"
      BY <2>2
    <2> QED
      BY <2>1, <2>2, <2>3
  <1> QED
    BY <1>1, <1>2, <1>3

LEMMA MakesLeaf ==
    ASSUME NEW n \in Nat, NEW cell \in Cell, NEW pane \in 0 .. MaxPane
    PROVE  Leaf(cell, pane) \in LayoutsWithin[n]
  <1>1. Leaf(cell, pane) \in LeafLayouts
    BY DEF Leaf, LeafLayouts
  <1> QED
    BY <1>1, LayoutsAt

LEMMA MakesSplit ==
    ASSUME NEW n \in Nat, n # 0, NEW t \in {"h", "v"}, NEW cell \in Cell,
           NEW cs \in Seq(LayoutsWithin[n - 1]), cs # << >>
    PROVE  Split(t, cell, cs) \in LayoutsWithin[n]
  <1>1. Split(t, cell, cs) \in SplitsOver(LayoutsWithin[n - 1])
    BY DEF Split, SplitsOver
  <1> QED
    BY <1>1, LayoutsAt

LEMMA Widen ==
    ASSUME NEW A, NEW B, A \subseteq B, NEW s \in Seq(A)
    PROVE  s \in Seq(B)
  <1>1. Len(s) \in Nat /\ s \in [1 .. Len(s) -> A]
    BY LenProperties
  <1>2. s \in [1 .. Len(s) -> B]
    BY <1>1
  <1> QED
    BY <1>1, <1>2, SeqDef

LEMMA OneLevelUp ==
    ASSUME NEW n \in Nat
    PROVE  LayoutsWithin[n] \subseteq LayoutsWithin[n + 1]
  <1> DEFINE T == {m \in Nat : LayoutsWithin[m] \subseteq LayoutsWithin[m + 1]}
  <1>1. 0 \in T
    <2>1. ASSUME NEW tree \in LayoutsWithin[0] PROVE tree \in LayoutsWithin[0 + 1]
      <3>1. tree.t = "leaf"
        BY TreeParts
      <3>2. tree.cell \in Cell /\ tree.pane \in 0 .. MaxPane /\ tree = Leaf(tree.cell, tree.pane)
        BY <3>1, TreeParts
      <3>3. 0 + 1 \in Nat
        OBVIOUS
      <3> QED
        BY <3>2, <3>3, MakesLeaf
    <2> QED
      BY <2>1
  <1>2. ASSUME NEW m \in T PROVE m + 1 \in T
    <2>0. m \in Nat /\ m + 1 \in Nat /\ (m + 1) + 1 \in Nat /\ (m + 1) + 1 # 0
          /\ ((m + 1) + 1) - 1 = m + 1 /\ (m + 1) - 1 = m
      OBVIOUS
    <2>1. ASSUME NEW tree \in LayoutsWithin[m + 1] PROVE tree \in LayoutsWithin[(m + 1) + 1]
      <3>1. CASE tree.t = "leaf"
        <4>1. tree.cell \in Cell /\ tree.pane \in 0 .. MaxPane /\ tree = Leaf(tree.cell, tree.pane)
          BY <2>0, <3>1, TreeParts
        <4> QED
          BY <2>0, <4>1, MakesLeaf
      <3>2. CASE tree.t # "leaf"
        <4>1. /\ tree.t \in {"h", "v"} /\ tree.cell \in Cell
              /\ tree.children \in Seq(LayoutsWithin[(m + 1) - 1]) /\ tree.children # << >>
              /\ tree = Split(tree.t, tree.cell, tree.children)
          BY <2>0, <3>2, TreeParts
        <4>2. LayoutsWithin[m] \subseteq LayoutsWithin[m + 1]
          OBVIOUS
        <4>3. tree.children \in Seq(LayoutsWithin[((m + 1) + 1) - 1])
          BY <2>0, <4>1, <4>2, Widen
        <4>4. Split(tree.t, tree.cell, tree.children) \in LayoutsWithin[(m + 1) + 1]
          BY <2>0, <4>1, <4>3, MakesSplit
        <4> QED
          BY <4>1, <4>4
      <3> QED
        BY <3>1, <3>2
    <2> QED
      BY <2>0, <2>1
  <1>3. T \in SUBSET Nat
    OBVIOUS
  <1> HIDE DEF T
  <1>4. T = Nat
    BY <1>1, <1>2, <1>3, CountingUp
  <1> QED
    BY <1>4 DEF T

(* And are rendered there as they are below. *)
LEMMA RenderLeafAt ==
    ASSUME NEW n \in Nat, NEW tree \in LayoutsWithin[n], tree.t = "leaf"
    PROVE  RenderWithin[n][tree] = LeafText(tree)
  BY RenderAt DEF Rendered

LEMMA RenderSplitAt ==
    ASSUME NEW n \in Nat, NEW tree \in LayoutsWithin[n], tree.t # "leaf"
    PROVE  RenderWithin[n][tree] = SplitText(tree, ChildTexts(RenderWithin[n - 1], tree.children))
  <1>1. n # 0
    BY TreeParts
  <1> QED
    BY <1>1, RenderAt DEF Rendered

LEMMA RenderOneLevelUp ==
    ASSUME NEW n \in Nat, NEW tree \in LayoutsWithin[n]
    PROVE  RenderWithin[n + 1][tree] = RenderWithin[n][tree]
  <1> DEFINE Same(m) == \A x \in LayoutsWithin[m] : RenderWithin[m + 1][x] = RenderWithin[m][x]
             T == {m \in Nat : Same(m)}
  <1>1. 0 \in T
    <2>1. ASSUME NEW x \in LayoutsWithin[0] PROVE RenderWithin[0 + 1][x] = RenderWithin[0][x]
      <3>1. x.t = "leaf" /\ x \in LayoutsWithin[0 + 1] /\ 0 + 1 \in Nat
        BY TreeParts, OneLevelUp
      <3> QED
        BY <3>1, RenderLeafAt
    <2> QED
      BY <2>1
  <1>2. ASSUME NEW m \in T PROVE m + 1 \in T
    <2>0. m \in Nat /\ m + 1 \in Nat /\ (m + 1) + 1 \in Nat
          /\ ((m + 1) + 1) - 1 = m + 1 /\ (m + 1) - 1 = m
      OBVIOUS
    <2>1. ASSUME NEW x \in LayoutsWithin[m + 1]
          PROVE  RenderWithin[(m + 1) + 1][x] = RenderWithin[m + 1][x]
      <3>0. x \in LayoutsWithin[(m + 1) + 1]
        BY <2>0, OneLevelUp
      <3>1. CASE x.t = "leaf"
        BY <2>0, <3>0, <3>1, RenderLeafAt
      <3>2. CASE x.t # "leaf"
        <4>1. x.children \in Seq(LayoutsWithin[m])
          BY <2>0, <3>2, TreeParts
        <4>2. ASSUME NEW k \in DOMAIN x.children
              PROVE  RenderWithin[m + 1][x.children[k]] = RenderWithin[m][x.children[k]]
          <5>1. x.children[k] \in LayoutsWithin[m]
            BY <4>1, LenProperties, ElementOfSeq
          <5>2. Same(m)
            OBVIOUS
          <5> QED
            BY <5>1, <5>2
        <4>3. ChildTexts(RenderWithin[m + 1], x.children) = ChildTexts(RenderWithin[m], x.children)
          BY <4>2 DEF ChildTexts
        <4>4. /\ RenderWithin[(m + 1) + 1][x] = SplitText(x, ChildTexts(RenderWithin[m + 1], x.children))
              /\ RenderWithin[m + 1][x] = SplitText(x, ChildTexts(RenderWithin[m], x.children))
          BY <2>0, <3>0, <3>2, RenderSplitAt
        <4> QED
          BY <4>3, <4>4
      <3> QED
        BY <3>1, <3>2
    <2> QED
      BY <2>0, <2>1
  <1>3. T \in SUBSET Nat
    OBVIOUS
  <1> HIDE DEF T
  <1>4. T = Nat
    BY <1>1, <1>2, <1>3, CountingUp
  <1> QED
    BY <1>4 DEF T

LEMMA LevelsUp ==
    ASSUME NEW n \in Nat, NEW k \in Nat, n <= k, NEW tree \in LayoutsWithin[n]
    PROVE  tree \in LayoutsWithin[k] /\ RenderWithin[k][tree] = RenderWithin[n][tree]
  <1> DEFINE T == {j \in Nat : /\ tree \in LayoutsWithin[n + j]
                               /\ RenderWithin[n + j][tree] = RenderWithin[n][tree]}
  <1>1. 0 \in T
    <2>1. n + 0 = n
      OBVIOUS
    <2> QED
      BY <2>1
  <1>2. ASSUME NEW j \in T PROVE j + 1 \in T
    <2>1. j \in Nat /\ j + 1 \in Nat /\ n + j \in Nat /\ (n + j) + 1 = n + (j + 1)
      OBVIOUS
    <2>2. tree \in LayoutsWithin[n + j] /\ RenderWithin[n + j][tree] = RenderWithin[n][tree]
      OBVIOUS
    <2>3. /\ tree \in LayoutsWithin[(n + j) + 1]
          /\ RenderWithin[(n + j) + 1][tree] = RenderWithin[n + j][tree]
      BY <2>1, <2>2, OneLevelUp, RenderOneLevelUp
    <2>4. /\ tree \in LayoutsWithin[n + (j + 1)]
          /\ RenderWithin[n + (j + 1)][tree] = RenderWithin[n][tree]
      BY <2>1, <2>2, <2>3
    <2> QED
      BY <2>1, <2>4
  <1>3. T \in SUBSET Nat
    OBVIOUS
  <1>4. k - n \in Nat /\ n + (k - n) = k
    OBVIOUS
  <1> HIDE DEF T
  <1>5. T = Nat
    BY <1>1, <1>2, <1>3, CountingUp
  <1>6. k - n \in T
    BY <1>4, <1>5
  <1>7. /\ tree \in LayoutsWithin[n + (k - n)]
        /\ RenderWithin[n + (k - n)][tree] = RenderWithin[n][tree]
    BY <1>6 DEF T
  <1> QED
    BY <1>4, <1>7

----------------------------------------------------------------------------
(* The words: a number's digits, and the number that digits make.          *)
Decimal == 48 .. 57

LEMMA NumAt ==
    ASSUME NEW n \in Nat
    PROVE  Num[n] = Spelled(Num[n \div 10], n)
  <1> DEFINE Layers(f) ==
               [m \in Nat |-> IF m < 10 THEN << 48 + m >> ELSE f[m \div 10] \o << 48 + (m % 10) >>]
  <1>1. \E f : f = Layers(f)
    <2>1. PICK f : f = [m \in Nat |-> Recursion("spell", {}, f, m)]
      BY RecursionExists
    <2>2. ASSUME NEW m \in Nat PROVE Recursion("spell", {}, f, m) = Layers(f)[m]
      <3>1. Back("spell", m) = m \div 10
        BY DEF Back
      <3>2. Recursion("spell", {}, f, m) = Spelled(IF m = 0 THEN {} ELSE f[m \div 10], m)
        BY <3>1 DEF Recursion, StepOf
      <3>3. m = 0 => m < 10
        OBVIOUS
      <3> QED
        BY <3>2, <3>3 DEF Spelled
    <2>3. f = Layers(f)
      BY <2>1, <2>2
    <2> QED
      BY <2>3
  <1>2. Num = CHOOSE f : f = Layers(f)
    BY DEF Num
  <1>3. Num = Layers(Num)
    <2> HIDE DEF Layers
    <2> QED
      BY <1>1, <1>2
  <1>4. Num[n] = Layers(Num)[n]
    BY <1>3
  <1> QED
    BY <1>4 DEF Spelled

CountsBy(f, token) ==
    f[0] = 0 /\ \A k \in Nat : f[k + 1] = 10 * f[k] + (token[k + 1] - 48)

LEMMA NumberAt ==
    ASSUME NEW token
    PROVE  \E f : CountsBy(f, token) /\ Number(token) = f[Len(token)]
  <1> DEFINE Layers(f) ==
               [k \in Nat |-> IF k = 0 THEN 0 ELSE 10 * f[k - 1] + (token[k] - 48)]
             s == CHOOSE f : f = Layers(f)
  <1>1. \E f : f = Layers(f)
    <2>1. PICK f : f = [m \in Nat |-> Recursion("count", token, f, m)]
      BY RecursionExists
    <2>2. ASSUME NEW m \in Nat PROVE Recursion("count", token, f, m) = Layers(f)[m]
      BY DEF Recursion, StepOf, Counted, Back
    <2>3. f = Layers(f)
      BY <2>1, <2>2
    <2> QED
      BY <2>3
  <1>2. s = Layers(s)
    <2> HIDE DEF Layers
    <2> QED
      BY <1>1
  <1>3. Number(token) = s[Len(token)]
    BY DEF Number
  <1> HIDE DEF s
  <1>4. s[0] = 0
    BY <1>2
  <1>5. ASSUME NEW k \in Nat PROVE s[k + 1] = 10 * s[k] + (token[k + 1] - 48)
    <2>1. k + 1 \in Nat /\ k + 1 # 0 /\ (k + 1) - 1 = k
      OBVIOUS
    <2>2. s[k + 1] = Layers(s)[k + 1]
      BY <1>2
    <2>3. Layers(s)[k + 1] = 10 * s[(k + 1) - 1] + (token[k + 1] - 48)
      BY <2>1
    <2> QED
      BY <2>1, <2>2, <2>3
  <1> QED
    BY <1>3, <1>4, <1>5 DEF CountsBy

(* What digits count up to, as far as they go, is a number, and the same   *)
(* for every sequence that begins with them.                               *)
Begins(token, other) ==
    Len(token) <= Len(other) /\ \A k \in 1 .. Len(token) : token[k] = other[k]

CountAlike(token, other) ==
    \A f, g : CountsBy(f, token) /\ CountsBy(g, other) =>
                \A n \in 0 .. Len(token) : f[n] \in Nat /\ g[n] = f[n]

LEMMA CountsSame ==
    ASSUME NEW token \in Seq(Decimal), NEW other \in Seq(Decimal), Begins(token, other)
    PROVE  CountAlike(token, other)
  <1> SUFFICES ASSUME NEW f, CountsBy(f, token), NEW g, CountsBy(g, other),
                      NEW n \in 0 .. Len(token)
               PROVE  f[n] \in Nat /\ g[n] = f[n]
    BY Zenon DEF CountAlike
  <1>0. PICK l \in Nat : l = Len(token)
    BY LenProperties
  <1> DEFINE T == {k \in Nat : k <= l => f[k] \in Nat /\ g[k] = f[k]}
  <1>1. 0 \in T
    <2>1. f[0] = 0 /\ g[0] = 0
      BY Zenon DEF CountsBy
    <2> QED
      BY <2>1
  <1>2. ASSUME NEW k \in T PROVE k + 1 \in T
    <2>1. SUFFICES ASSUME k + 1 <= l PROVE f[k + 1] \in Nat /\ g[k + 1] = f[k + 1]
      OBVIOUS
    <2>2. k \in Nat /\ k <= l /\ k + 1 \in 1 .. l
      BY <2>1
    <2>3. f[k] \in Nat /\ g[k] = f[k]
      BY <2>2
    <2>4. token[k + 1] \in Decimal /\ other[k + 1] = token[k + 1]
      BY <1>0, <2>2, ElementOfSeq DEF Begins
    <2>5. f[k + 1] = 10 * f[k] + (token[k + 1] - 48) /\ g[k + 1] = 10 * g[k] + (other[k + 1] - 48)
      BY <2>2 DEF CountsBy
    <2>6. PICK d \in Nat, m \in Nat : token[k + 1] = 48 + d /\ m = f[k]
      <3>1. \A w \in Decimal : w - 48 \in Nat /\ w = 48 + (w - 48)
        BY DEF Decimal
      <3>2. token[k + 1] - 48 \in Nat /\ token[k + 1] = 48 + (token[k + 1] - 48)
        BY <2>4, <3>1, Zenon
      <3> QED
        BY <2>3, <3>2, Zenon
    <2>7. 10 * m + ((48 + d) - 48) \in Nat
      OBVIOUS
    <2> QED
      BY <2>3, <2>4, <2>5, <2>6, <2>7
  <1>3. T \in SUBSET Nat
    OBVIOUS
  <1> HIDE DEF T
  <1>4. T = Nat
    BY <1>1, <1>2, <1>3, CountingUp
  <1>5. n \in Nat /\ n <= l
    BY <1>0
  <1> QED
    BY <1>4, <1>5 DEF T

LEMMA NumberType ==
    ASSUME NEW token \in Seq(Decimal)
    PROVE  Number(token) \in Nat
  <1>1. PICK f : CountsBy(f, token) /\ Number(token) = f[Len(token)]
    BY NumberAt
  <1>2. Len(token) \in 0 .. Len(token) /\ Len(token) <= Len(token)
    BY LenProperties
  <1> QED
    <2>1. CountAlike(token, token)
      BY <1>2, CountsSame DEF Begins
    <2> QED
      BY <1>1, <1>2, <2>1, Zenon DEF CountAlike

LEMMA OneDigitMore ==
    ASSUME NEW token \in Seq(Decimal), NEW d \in 0 .. 9
    PROVE  /\ token \o << 48 + d >> \in Seq(Decimal) /\ token \o << 48 + d >> # << >>
           /\ Number(token \o << 48 + d >>) = 10 * Number(token) + d
  <1> DEFINE last == << 48 + d >>
             longer == token \o last
  <1>1. last \in Seq(Decimal) /\ Len(last) = 1 /\ last[1] = 48 + d
    <2>1. 48 + d \in Decimal
      BY DEF Decimal
    <2> QED
      BY <2>1, OneToken
  <1> HIDE DEF last
  <1>2. /\ longer \in Seq(Decimal) /\ Len(longer) = Len(token) + Len(last)
        /\ Len(token) \in Nat
        /\ \A k \in 1 .. Len(token) : longer[k] = token[k]
        /\ \A k \in 1 .. Len(last) : longer[Len(token) + k] = last[k]
    <2>1. \A s \in Seq(Decimal), t \in Seq(Decimal) :
            /\ s \o t \in Seq(Decimal) /\ Len(s \o t) = Len(s) + Len(t)
            /\ Len(s) \in Nat
            /\ \A k \in 1 .. Len(s) : (s \o t)[k] = s[k]
            /\ \A k \in 1 .. Len(t) : (s \o t)[Len(s) + k] = t[k]
      BY ConcatParts
    <2> QED
      BY <1>1, <2>1, Zenon
  <1> HIDE DEF longer
  <1>3. PICK m \in Nat : m = Len(token)
    BY <1>2
  <1>4. PICK f : CountsBy(f, token) /\ Number(token) = f[Len(token)]
    BY NumberAt
  <1>5. PICK g : CountsBy(g, longer) /\ Number(longer) = g[Len(longer)]
    BY NumberAt
  <1>6. Len(longer) = m + 1 /\ longer[m + 1] = 48 + d
    BY <1>1, <1>2, <1>3
  <1>7. m \in 0 .. Len(token) /\ Len(token) <= Len(longer)
    BY <1>3, <1>6
  <1>8. f[m] \in Nat /\ g[m] = f[m]
    <2>1. Begins(token, longer)
      <3>1. \A k \in 1 .. Len(token) : token[k] = longer[k]
        BY <1>2
      <3> QED
        BY <1>7, <3>1, Zenon DEF Begins
    <2> QED
      <3>1. CountAlike(token, longer)
        BY <1>2, <2>1, CountsSame, Zenon
      <3> QED
        BY <1>4, <1>5, <1>7, <3>1, Zenon DEF CountAlike
  <1>9. g[m + 1] = 10 * g[m] + (longer[m + 1] - 48)
    BY <1>5 DEF CountsBy
  <1>10. PICK v \in Nat : v = f[m]
    BY <1>8
  <1>11. 10 * v + ((48 + d) - 48) = 10 * v + d
    OBVIOUS
  <1>12. Number(longer) = 10 * Number(token) + d
    BY <1>3, <1>4, <1>5, <1>6, <1>8, <1>9, <1>10, <1>11
  <1>13. longer # << >>
    BY <1>6
  <1> QED
    BY <1>2, <1>12, <1>13 DEF longer, last

LEMMA NoDigits == << >> \in Seq(Decimal) /\ Number(<< >>) = 0
  <1>1. PICK f : CountsBy(f, << >>) /\ Number(<< >>) = f[Len(<< >>)]
    BY NumberAt
  <1> QED
    BY <1>1 DEF CountsBy

ReadBack(n) == Num[n] \in Seq(Decimal) /\ Num[n] # << >> /\ Number(Num[n]) = n

LEMMA NumReadBack ==
    ASSUME NEW n \in Nat
    PROVE  ReadBack(n)
  <1> DEFINE S == {m \in Nat : ~ReadBack(m)}
  <1>1. SUFFICES ASSUME S # {} PROVE FALSE
    OBVIOUS
  <1>2. S \in SUBSET Nat
    OBVIOUS
  <1>3. PICK m \in S : \A k \in S : m <= k
    BY <1>1, <1>2, LeastIn
  <1>4. m \in Nat /\ ~ReadBack(m)
    BY <1>3
  <1>5. CASE m < 10
    <2>1. Num[m] = << 48 + m >> /\ m \in 0 .. 9
      <3>1. Num[m] = Spelled(Num[m \div 10], m)
        BY <1>4, NumAt
      <3>2. Spelled(Num[m \div 10], m) = << 48 + m >>
        BY <1>5, Zenon DEF Spelled
      <3>3. m \in 0 .. 9
        BY <1>4, <1>5
      <3> QED
        BY <3>1, <3>2, <3>3, Zenon
    <2>2. << >> \o << 48 + m >> = << 48 + m >>
      OBVIOUS
    <2>3. /\ << >> \o << 48 + m >> \in Seq(Decimal) /\ << >> \o << 48 + m >> # << >>
          /\ Number(<< >> \o << 48 + m >>) = 10 * Number(<< >>) + m
      BY <2>1, NoDigits, OneDigitMore
    <2>4. 10 * 0 + m = m
      BY <1>4
    <2>5. ReadBack(m)
      BY <2>1, <2>2, <2>3, <2>4, NoDigits DEF ReadBack
    <2> QED
      BY <1>4, <2>5
  <1>6. CASE ~(m < 10)
    <2>1. PICK q \in Nat, d \in 0 .. 9 : q = m \div 10 /\ d = m % 10 /\ m = 10 * q + d /\ q < m
      <3>1. m \div 10 \in Nat /\ m % 10 \in 0 .. 9 /\ m = 10 * (m \div 10) + (m % 10) /\ m \div 10 < m
        BY <1>4, <1>6
      <3> QED
        BY <3>1
    <2>2. q \notin S
      BY <1>3, <1>4, <2>1
    <2>3. ReadBack(q)
      BY <2>2
    <2>4. Num[m] = Num[q] \o << 48 + d >>
      BY <1>4, <1>6, <2>1, NumAt DEF Spelled
    <2>5. /\ Num[q] \o << 48 + d >> \in Seq(Decimal) /\ Num[q] \o << 48 + d >> # << >>
          /\ Number(Num[q] \o << 48 + d >>) = 10 * Number(Num[q]) + d
      BY <2>3, OneDigitMore DEF ReadBack
    <2>6. ReadBack(m)
      BY <2>1, <2>3, <2>4, <2>5, Zenon DEF ReadBack
    <2> QED
      BY <1>4, <2>6
  <1> QED
    BY <1>5, <1>6

LEMMA DecimalWords ==
    /\ \A token \in Seq(U8) : IsDecimal(token) <=> token \in Seq(Decimal) /\ token # << >>
    /\ \A n \in Nat : IsDecimal(Num[n]) /\ Number(Num[n]) = n /\ Num[n] \in Seq(U8)
  <1>1. ASSUME NEW token \in Seq(U8) PROVE IsDecimal(token) <=> token \in Seq(Decimal) /\ token # << >>
    <2>1. DOMAIN token = 1 .. Len(token) /\ Len(token) \in Nat
      BY LenProperties
    <2>2. (\A k \in 1 .. Len(token) : token[k] \in 48 .. 57) <=> token \in Seq(Decimal)
      BY <2>1 DEF Decimal
    <2> QED
      BY <2>1, <2>2 DEF IsDecimal
  <1>2. ASSUME NEW n \in Nat PROVE IsDecimal(Num[n]) /\ Number(Num[n]) = n /\ Num[n] \in Seq(U8)
    <2>1. ReadBack(n)
      BY NumReadBack
    <2>2. Decimal \subseteq U8
      BY DEF Decimal, U8
    <2>3. Num[n] \in Seq(U8)
      BY <2>1, <2>2, Widen DEF ReadBack
    <2> QED
      BY <1>1, <2>1, <2>3 DEF ReadBack
  <1> QED
    BY <1>1, <1>2

LEMMA Ascii ==
    /\ DOMAIN AsciiOf = {"x", ",", "{", "}", "[", "]"}
    /\ AsciiOf["x"] = 120 /\ AsciiOf[","] = 44 /\ AsciiOf["{"] = 123 /\ AsciiOf["}"] = 125
    /\ AsciiOf["["] = 91 /\ AsciiOf["]"] = 93
  BY Zenon DEF AsciiOf

KeyedBy(f, a, b, c, d, e, g) ==
    f[a] = 120 /\ f[b] = 44 /\ f[c] = 123 /\ f[d] = 125 /\ f[e] = 91 /\ f[g] = 93

(* Bytes that are no digits, and each that of one key only.                *)
Tells(f, keys) ==
    /\ \A k \in keys : f[k] \in U8 /\ f[k] \notin Decimal
    /\ \A k, m \in keys : f[k] = f[m] => k = m

LEMMA SixKeys ==
    ASSUME NEW f, NEW a, NEW b, NEW c, NEW d, NEW e, NEW g, KeyedBy(f, a, b, c, d, e, g)
    PROVE  Tells(f, {a, b, c, d, e, g})
  BY DEF U8, Decimal, KeyedBy, Tells

LEMMA AsciiBytes == Tells(AsciiOf, DOMAIN AsciiOf)
  <1>1. KeyedBy(AsciiOf, "x", ",", "{", "}", "[", "]")
    BY Ascii, Zenon DEF KeyedBy
  <1>2. Tells(AsciiOf, {"x", ",", "{", "}", "[", "]"})
    BY <1>1, SixKeys, Zenon
  <1> QED
    BY <1>2, Ascii, Zenon

LEMMA OneByte ==
    ASSUME NEW b \in U8
    PROVE  /\ << b >> \in Seq(U8) /\ << b >> # << >> /\ Len(<< b >>) = 1 /\ << b >>[1] = b
           /\ b \notin Decimal => ~IsDecimal(<< b >>)
  <1>1. << b >> \in Seq(U8) /\ << b >> # << >> /\ Len(<< b >>) = 1 /\ << b >>[1] = b
    OBVIOUS
  <1>2. ASSUME IsDecimal(<< b >>) PROVE b \in Decimal
    <2>1. << b >> \in Seq(Decimal)
      BY <1>1, <1>2, DecimalWords
    <2>2. 1 \in 1 .. Len(<< b >>)
      OBVIOUS
    <2> QED
      BY <2>1, <2>2, ElementOfSeq
  <1> QED
    BY <1>1, <1>2

LEMMA Separators ==
    ASSUME NEW c \in DOMAIN AsciiOf
    PROVE  /\ Sep(c) \in Seq(U8) /\ ~IsDecimal(Sep(c))
           /\ \A d \in DOMAIN AsciiOf : Sep(c) = Sep(d) => c = d
  <1>1. Sep(c) = << AsciiOf[c] >>
    BY DEF Sep
  <1>2. AsciiOf[c] \in U8 /\ AsciiOf[c] \notin Decimal
    BY AsciiBytes DEF Tells
  <1>3. ASSUME NEW d \in DOMAIN AsciiOf, Sep(c) = Sep(d) PROVE c = d
    <2>1. Sep(d) = << AsciiOf[d] >> /\ AsciiOf[d] \in U8
      BY AsciiBytes DEF Sep, Tells
    <2>2. AsciiOf[c] = AsciiOf[d]
      BY <1>1, <1>2, <1>3, <2>1, OneByte
    <2> QED
      BY <2>2, AsciiBytes DEF Tells
  <1>4. Sep(c) \in Seq(U8) /\ ~IsDecimal(Sep(c))
    BY <1>1, <1>2, OneByte
  <1> QED
    BY <1>3, <1>4

----------------------------------------------------------------------------
(* What is rendered, and what a text may hold. *)
Printable == {Num[v] : v \in Nat} \cup {Sep(c) : c \in DOMAIN AsciiOf}
Symbol == Seq(U8)
Text == Seq(Symbol)

Nested == LayoutsWithin[MaxNesting]

(* The children of a split as its rendering has them. *)
Written(cs) ==
    FlattenSeq([k \in DOMAIN cs |-> (IF k > 1 THEN << Sep(",") >> ELSE << >>) \o Render(cs[k])])

LEMMA PrintableIsText ==
    ASSUME NEW s \in Seq(Printable)
    PROVE  s \in Text
  <1>1. Printable \subseteq Symbol
    BY DecimalWords, Separators, Zenon DEF Symbol, Printable
  <1> QED
    BY <1>1, Widen DEF Text

LEMMA Seps ==
    /\ \A c \in {"x", ",", "{", "}", "[", "]"} : Sep(c) \in Printable /\ c \in DOMAIN AsciiOf
    /\ \A v \in Nat : Num[v] \in Printable
  <1>1. DOMAIN AsciiOf = {"x", ",", "{", "}", "[", "]"}
    BY Ascii
  <1> QED
    BY <1>1, Zenon DEF Printable

LEMMA SevenTokens ==
    ASSUME NEW S, NEW a \in S, NEW b \in S, NEW c \in S, NEW d \in S, NEW e \in S, NEW f \in S,
           NEW g \in S
    PROVE  <<a, b, c, d, e, f, g>> \in Seq(S)
  OBVIOUS

LEMMA TwoTokens ==
    ASSUME NEW S, NEW a \in S, NEW b \in S
    PROVE  /\ <<a, b>> \in Seq(S) /\ Len(<<a, b>>) = 2
           /\ <<a, b>>[1] = a /\ <<a, b>>[2] = b
  OBVIOUS

LEMMA CellTextParts ==
    ASSUME NEW cell \in Cell
    PROVE  /\ CellText(cell) \in Seq(Printable)
           /\ Len(CellText(cell)) = 7
           /\ CellText(cell)[1] = Num[cell[1]] /\ CellText(cell)[2] = Sep("x")
           /\ CellText(cell)[3] = Num[cell[2]] /\ CellText(cell)[4] = Sep(",")
           /\ CellText(cell)[5] = Num[cell[3]] /\ CellText(cell)[6] = Sep(",")
           /\ CellText(cell)[7] = Num[cell[4]]
  <1>1. \A k \in 1 .. 4 : cell[k] \in Nat
    BY LayoutAssumption DEF Cell
  <1>2. \A k \in 1 .. 4 : Num[cell[k]] \in Printable
    BY <1>1, Seps
  <1>3. Num[cell[1]] \in Printable /\ Num[cell[2]] \in Printable /\ Num[cell[3]] \in Printable
        /\ Num[cell[4]] \in Printable
    BY <1>2
  <1>s. Sep("x") \in Printable /\ Sep(",") \in Printable
    BY Seps
  <1>4. CellText(cell) \in Seq(Printable)
    BY <1>3, <1>s, SevenTokens DEF CellText
  <1>5. /\ Len(CellText(cell)) = 7
        /\ CellText(cell)[1] = Num[cell[1]] /\ CellText(cell)[2] = Sep("x")
        /\ CellText(cell)[3] = Num[cell[2]] /\ CellText(cell)[4] = Sep(",")
        /\ CellText(cell)[5] = Num[cell[3]] /\ CellText(cell)[6] = Sep(",")
        /\ CellText(cell)[7] = Num[cell[4]]
    BY DEF CellText
  <1> QED
    BY <1>4, <1>5

LEMMA PaneText ==
    ASSUME NEW pane \in 0 .. MaxPane
    PROVE  /\ << Sep(","), Num[pane] >> \in Seq(Printable)
           /\ Len(<< Sep(","), Num[pane] >>) = 2
           /\ << Sep(","), Num[pane] >>[1] = Sep(",") /\ << Sep(","), Num[pane] >>[2] = Num[pane]
  <1>1. pane \in Nat
    BY LayoutAssumption
  <1>2. Sep(",") \in Printable /\ Num[pane] \in Printable
    BY <1>1, Seps
  <1> QED
    BY <1>2, TwoTokens

LEMMA LeafTextType ==
    ASSUME NEW n \in Nat, NEW tree \in LayoutsWithin[n], tree.t = "leaf"
    PROVE  LeafText(tree) \in Seq(Printable) /\ Len(LeafText(tree)) = 9
  <1> DEFINE c == CellText(tree.cell)
             p == << Sep(","), Num[tree.pane] >>
  <1>1. tree.cell \in Cell /\ tree.pane \in 0 .. MaxPane
    BY TreeParts
  <1>2. c \in Seq(Printable) /\ Len(c) = 7
    BY <1>1, CellTextParts
  <1>3. p \in Seq(Printable) /\ Len(p) = 2
    BY <1>1, PaneText
  <1>4. LeafText(tree) = c \o p
    BY DEF LeafText
  <1> HIDE DEF c, p
  <1>5. c \o p \in Seq(Printable) /\ Len(c \o p) = Len(c) + Len(p)
    BY <1>2, <1>3, ConcatParts
  <1> QED
    BY <1>2, <1>3, <1>4, <1>5

LEMMA FlatType ==
    ASSUME NEW S, NEW seqs, Len(seqs) \in Nat, Len(seqs) # 0,
           \A k \in 1 .. Len(seqs) : seqs[k] \in Seq(S)
    PROVE  FlattenSeq(seqs) \in Seq(S)
  <1>1. PICK f : /\ FlattenSeq(seqs) = f[Len(seqs)]
                 /\ f[1] = seqs[1]
                 /\ \A k \in 1 .. Len(seqs) - 1 : f[k + 1] = f[k] \o seqs[k + 1]
    BY FlatAt
  <1> DEFINE T == {k \in Nat : k + 1 <= Len(seqs) => f[k + 1] \in Seq(S)}
  <1>2. 0 \in T
    <2>1. 1 \in 1 .. Len(seqs)
      OBVIOUS
    <2> QED
      BY <1>1, <2>1
  <1>3. ASSUME NEW k \in T PROVE k + 1 \in T
    <2>1. SUFFICES ASSUME (k + 1) + 1 <= Len(seqs) PROVE f[(k + 1) + 1] \in Seq(S)
      OBVIOUS
    <2>2. k + 1 \in 1 .. Len(seqs) - 1 /\ k + 1 <= Len(seqs) /\ (k + 1) + 1 \in 1 .. Len(seqs)
      BY <2>1
    <2>3. f[k + 1] \in Seq(S) /\ seqs[(k + 1) + 1] \in Seq(S)
      BY <2>2
    <2>4. f[(k + 1) + 1] = f[k + 1] \o seqs[(k + 1) + 1]
      BY <1>1, <2>2
    <2> QED
      BY <2>3, <2>4, ConcatParts
  <1>4. T \in SUBSET Nat
    OBVIOUS
  <1>5. Len(seqs) - 1 \in Nat /\ (Len(seqs) - 1) + 1 = Len(seqs) /\ Len(seqs) <= Len(seqs)
    OBVIOUS
  <1> HIDE DEF T
  <1>6. Len(seqs) - 1 \in T
    BY <1>2, <1>3, <1>4, <1>5, CountingUp
  <1> QED
    BY <1>1, <1>5, <1>6 DEF T

LEMMA ChildTextsType ==
    ASSUME NEW S, NEW rendered, NEW cs \in Seq(S), cs # << >>,
           \A x \in S : rendered[x] \in Seq(Printable)
    PROVE  FlattenSeq(ChildTexts(rendered, cs)) \in Seq(Printable)
  <1> DEFINE texts == ChildTexts(rendered, cs)
  <1>1. Len(cs) \in Nat /\ Len(cs) # 0 /\ DOMAIN cs = 1 .. Len(cs)
    BY LenProperties, EmptySeq
  <1>2. ASSUME NEW k \in 1 .. Len(cs) PROVE texts[k] \in Seq(Printable)
    <2>1. cs[k] \in S /\ texts[k] = (IF k > 1 THEN << Sep(",") >> ELSE << >>) \o rendered[cs[k]]
      BY <1>1, ElementOfSeq DEF ChildTexts
    <2>2. rendered[cs[k]] \in Seq(Printable)
      BY <2>1
    <2>3. << Sep(",") >> \in Seq(Printable) /\ << >> \in Seq(Printable)
      BY Seps, OneToken, EmptySeq
    <2> DEFINE front == IF k > 1 THEN << Sep(",") >> ELSE << >>
               one == rendered[cs[k]]
    <2>4. front \in Seq(Printable)
      BY <2>3
    <2>5. texts[k] = front \o one
      BY <2>1
    <2> HIDE DEF texts, front
    <2>6. one \in Seq(Printable)
      BY <2>2
    <2> HIDE DEF one
    <2>7. front \o one \in Seq(Printable)
      BY <2>4, <2>6, ConcatParts
    <2> QED
      BY <2>5, <2>7, Zenon
  <1>3. Len(texts) = Len(cs)
    <2>1. texts \in Seq(Seq(Printable))
      <3>1. texts \in [1 .. Len(cs) -> Seq(Printable)]
        BY <1>1, <1>2 DEF ChildTexts
      <3> QED
        BY <1>1, <3>1, SeqDef
    <2>2. DOMAIN texts = 1 .. Len(cs)
      BY <1>1 DEF ChildTexts
    <2> QED
      BY <1>1, <2>1, <2>2, LenProperties
  <1> HIDE DEF texts
  <1>4. FlattenSeq(texts) \in Seq(Printable)
    BY <1>1, <1>2, <1>3, FlatType
  <1> QED
    BY <1>4 DEF texts

LEMMA Keys ==
    /\ "{" \in DOMAIN AsciiOf /\ "[" \in DOMAIN AsciiOf /\ "," \in DOMAIN AsciiOf
    /\ Closing \subseteq DOMAIN AsciiOf
  BY Ascii, Zenon DEF Closing

LEMMA BracketSeps ==
    ASSUME NEW t \in {"h", "v"}
    PROVE  /\ Brackets(t)[1] \in {"{", "["} /\ Brackets(t)[2] \in Closing
           /\ << Sep(Brackets(t)[1]) >> \in Seq(Printable) /\ << Sep(Brackets(t)[2]) >> \in Seq(Printable)
           /\ Len(<< Sep(Brackets(t)[1]) >>) = 1 /\ Len(<< Sep(Brackets(t)[2]) >>) = 1
  <1>1. Brackets(t)[1] \in {"{", "["} /\ Brackets(t)[2] \in Closing
    BY DEF Brackets, Closing
  <1>2. Sep(Brackets(t)[1]) \in Printable /\ Sep(Brackets(t)[2]) \in Printable
    BY <1>1, Seps DEF Closing
  <1> QED
    BY <1>1, <1>2, OneToken

LEMMA RenderWithinType ==
    ASSUME NEW n \in Nat, NEW tree \in LayoutsWithin[n]
    PROVE  RenderWithin[n][tree] \in Seq(Printable)
  <1> DEFINE T == {m \in Nat : \A x \in LayoutsWithin[m] : RenderWithin[m][x] \in Seq(Printable)}
  <1>1. 0 \in T
    <2>1. ASSUME NEW x \in LayoutsWithin[0] PROVE RenderWithin[0][x] \in Seq(Printable)
      <3>1. x.t = "leaf"
        BY TreeParts
      <3> QED
        BY <3>1, RenderLeafAt, LeafTextType
    <2> QED
      BY <2>1
  <1>2. ASSUME NEW m \in T PROVE m + 1 \in T
    <2>0. m \in Nat /\ m + 1 \in Nat /\ (m + 1) - 1 = m
      OBVIOUS
    <2>1. ASSUME NEW x \in LayoutsWithin[m + 1] PROVE RenderWithin[m + 1][x] \in Seq(Printable)
      <3>1. CASE x.t = "leaf"
        BY <2>0, <3>1, RenderLeafAt, LeafTextType
      <3>2. CASE x.t # "leaf"
        <4> DEFINE flat == FlattenSeq(ChildTexts(RenderWithin[m], x.children))
        <4>1. /\ x.t \in {"h", "v"} /\ x.cell \in Cell
              /\ x.children \in Seq(LayoutsWithin[m]) /\ x.children # << >>
          BY <2>0, <3>2, TreeParts
        <4>2. flat \in Seq(Printable)
          <5>1. \A y \in LayoutsWithin[m] : RenderWithin[m][y] \in Seq(Printable)
            OBVIOUS
          <5> QED
            BY <4>1, <5>1, ChildTextsType
        <4>3. RenderWithin[m + 1][x] = SplitText(x, ChildTexts(RenderWithin[m], x.children))
          BY <2>0, <3>2, RenderSplitAt
        <4>4. RenderWithin[m + 1][x]
                = CellText(x.cell) \o << Sep(Brackets(x.t)[1]) >> \o flat \o << Sep(Brackets(x.t)[2]) >>
          BY <4>3 DEF SplitText
        <4>5. CellText(x.cell) \in Seq(Printable)
          BY <4>1, CellTextParts
        <4>6. << Sep(Brackets(x.t)[1]) >> \in Seq(Printable) /\ << Sep(Brackets(x.t)[2]) >> \in Seq(Printable)
          BY <4>1, BracketSeps
        <4> HIDE DEF flat
        <4> QED
          BY <4>2, <4>4, <4>5, <4>6, ConcatParts
      <3> QED
        BY <3>1, <3>2
    <2> QED
      BY <2>0, <2>1
  <1>3. T \in SUBSET Nat
    OBVIOUS
  <1> HIDE DEF T
  <1>4. T = Nat
    BY <1>1, <1>2, <1>3, CountingUp
  <1> QED
    BY <1>4 DEF T

LEMMA RenderIs ==
    ASSUME NEW n \in Nat, n <= MaxNesting, NEW tree \in LayoutsWithin[n]
    PROVE  tree \in Nested /\ Render(tree) = RenderWithin[n][tree]
  BY LevelsUp, LayoutAssumption DEF Nested, Render

LEMMA RenderType ==
    ASSUME NEW tree \in Nested
    PROVE  Render(tree) \in Seq(Printable) /\ Render(tree) \in Text
  BY RenderWithinType, PrintableIsText, LayoutAssumption DEF Nested, Render

LEMMA RenderLeaf ==
    ASSUME NEW tree \in Nested, tree.t = "leaf"
    PROVE  /\ tree.cell \in Cell /\ tree.pane \in 0 .. MaxPane
           /\ tree = Leaf(tree.cell, tree.pane)
           /\ Render(tree) = CellText(tree.cell) \o << Sep(","), Num[tree.pane] >>
  BY TreeParts, RenderLeafAt, LayoutAssumption DEF Nested, Render, LeafText

LEMMA RenderSplit ==
    ASSUME NEW tree \in Nested, tree.t # "leaf"
    PROVE  /\ tree.t \in {"h", "v"} /\ tree.cell \in Cell
           /\ tree.children \in Seq(Nested) /\ tree.children # << >>
           /\ tree = Split(tree.t, tree.cell, tree.children)
           /\ Render(tree) = CellText(tree.cell) \o << Sep(Brackets(tree.t)[1]) >>
                               \o Written(tree.children) \o << Sep(Brackets(tree.t)[2]) >>
  <1> DEFINE cs == tree.children
  <1>1. /\ MaxNesting \in Nat /\ MaxNesting # 0 /\ MaxNesting - 1 \in Nat
        /\ tree.t \in {"h", "v"} /\ tree.cell \in Cell
        /\ cs \in Seq(LayoutsWithin[MaxNesting - 1]) /\ cs # << >>
        /\ tree = Split(tree.t, tree.cell, cs)
    BY TreeParts, LayoutAssumption DEF Nested
  <1>2. MaxNesting - 1 <= MaxNesting
    BY <1>1
  <1>3. \A x \in LayoutsWithin[MaxNesting - 1] :
          x \in Nested /\ Render(x) = RenderWithin[MaxNesting - 1][x]
    BY <1>1, <1>2, RenderIs
  <1>4. cs \in Seq(Nested)
    BY <1>1, <1>3, Widen
  <1>5. Render(tree) = SplitText(tree, ChildTexts(RenderWithin[MaxNesting - 1], cs))
    BY <1>1, RenderSplitAt DEF Nested, Render
  <1>6. \A k \in DOMAIN cs : RenderWithin[MaxNesting - 1][cs[k]] = Render(cs[k])
    <2>1. DOMAIN cs = 1 .. Len(cs) /\ \A k \in 1 .. Len(cs) : cs[k] \in LayoutsWithin[MaxNesting - 1]
      BY <1>1, LenProperties, ElementOfSeq
    <2> QED
      BY <1>3, <2>1
  <1>7. ChildTexts(RenderWithin[MaxNesting - 1], cs)
          = [k \in DOMAIN cs |-> (IF k > 1 THEN << Sep(",") >> ELSE << >>) \o Render(cs[k])]
    BY <1>6 DEF ChildTexts
  <1> QED
    BY <1>1, <1>4, <1>5, <1>7 DEF SplitText, Written

LEMMA RenderOfLeaf ==
    ASSUME NEW cell \in Cell, NEW pane \in 0 .. MaxPane
    PROVE  /\ Leaf(cell, pane) \in Nested
           /\ Render(Leaf(cell, pane)) = CellText(cell) \o << Sep(","), Num[pane] >>
  <1>1. Leaf(cell, pane) \in Nested
    BY MakesLeaf, LayoutAssumption DEF Nested
  <1>2. Leaf(cell, pane).t = "leaf" /\ Leaf(cell, pane).cell = cell /\ Leaf(cell, pane).pane = pane
    BY DEF Leaf
  <1> QED
    BY <1>1, <1>2, RenderLeaf

(* The children of a split, read from the first. *)
LEMMA WrittenTexts ==
    ASSUME NEW cs \in Seq(Nested), cs # << >>
    PROVE  \E texts :
             /\ Written(cs) = FlattenSeq(texts)
             /\ Len(texts) = Len(cs) /\ Len(cs) \in Nat /\ Len(cs) # 0
             /\ \A k \in 1 .. Len(cs) : texts[k] \in Seq(Printable)
             /\ texts[1] = Render(cs[1])
             /\ \A k \in 2 .. Len(cs) : texts[k] = << Sep(",") >> \o Render(cs[k])
  <1> DEFINE texts == [k \in DOMAIN cs |-> (IF k > 1 THEN << Sep(",") >> ELSE << >>) \o Render(cs[k])]
  <1>1. Len(cs) \in Nat /\ Len(cs) # 0 /\ DOMAIN cs = 1 .. Len(cs)
    BY LenProperties, EmptySeq
  <1>2. \A k \in 1 .. Len(cs) : Render(cs[k]) \in Seq(Printable)
    BY <1>1, ElementOfSeq, RenderType
  <1>3. << Sep(",") >> \in Seq(Printable) /\ << >> \in Seq(Printable)
    BY Seps, OneToken, EmptySeq
  <1>4. \A k \in 1 .. Len(cs) : texts[k] \in Seq(Printable)
    BY <1>1, <1>2, <1>3, ConcatParts
  <1>5. Len(texts) = Len(cs)
    <2>1. texts \in Seq(Seq(Printable))
      <3>1. texts \in [1 .. Len(cs) -> Seq(Printable)]
        BY <1>1, <1>4
      <3> HIDE DEF texts
      <3> QED
        BY <1>1, <3>1, SeqDef
    <2>2. DOMAIN texts = 1 .. Len(cs)
      BY <1>1
    <2> HIDE DEF texts
    <2> QED
      BY <1>1, <2>1, <2>2, LenProperties
  <1>6. texts[1] = Render(cs[1])
    <2>1. 1 \in 1 .. Len(cs)
      BY <1>1
    <2>2. texts[1] = << >> \o Render(cs[1])
      BY <1>1, <2>1
    <2> QED
      BY <1>2, <2>1, <2>2, NothingBefore
  <1>7. ASSUME NEW k \in 2 .. Len(cs) PROVE texts[k] = << Sep(",") >> \o Render(cs[k])
    <2>1. k \in DOMAIN cs /\ k > 1
      BY <1>1
    <2> QED
      BY <2>1
  <1>8. Written(cs) = FlattenSeq(texts)
    BY DEF Written
  <1> HIDE DEF texts
  <1> QED
    BY <1>1, <1>4, <1>5, <1>6, <1>7, <1>8

LEMMA WrittenType ==
    ASSUME NEW cs \in Seq(Nested), cs # << >>
    PROVE  Written(cs) \in Seq(Printable)
  <1>1. PICK texts :
             /\ Written(cs) = FlattenSeq(texts)
             /\ Len(texts) = Len(cs) /\ Len(cs) \in Nat /\ Len(cs) # 0
             /\ \A k \in 1 .. Len(cs) : texts[k] \in Seq(Printable)
             /\ texts[1] = Render(cs[1])
             /\ \A k \in 2 .. Len(cs) : texts[k] = << Sep(",") >> \o Render(cs[k])
    BY WrittenTexts
  <1> QED
    BY <1>1, FlatType

LEMMA WrittenOne ==
    ASSUME NEW tree \in Nested
    PROVE  Written(<< tree >>) = Render(tree)
  <1> DEFINE cs == << tree >>
  <1>0. cs \in Seq(Nested) /\ Len(cs) = 1 /\ cs[1] = tree
    BY OneToken
  <1>1. cs # << >>
    BY <1>0, EmptySeq
  <1> HIDE DEF cs
  <1>2. PICK texts :
             /\ Written(cs) = FlattenSeq(texts)
             /\ Len(texts) = Len(cs) /\ Len(cs) \in Nat /\ Len(cs) # 0
             /\ \A k \in 1 .. Len(cs) : texts[k] \in Seq(Printable)
             /\ texts[1] = Render(cs[1])
             /\ \A k \in 2 .. Len(cs) : texts[k] = << Sep(",") >> \o Render(cs[k])
    BY <1>0, <1>1, WrittenTexts
  <1>3. PICK f : /\ FlattenSeq(texts) = f[Len(texts)]
                 /\ f[1] = texts[1]
                 /\ \A k \in 1 .. Len(texts) - 1 : f[k + 1] = f[k] \o texts[k + 1]
    BY <1>2, FlatAt
  <1>4. Written(cs) = Render(tree)
    BY <1>0, <1>2, <1>3
  <1> QED
    BY <1>4 DEF cs

LEMMA WrittenMore ==
    ASSUME NEW cs \in Seq(Nested), cs # << >>, Tail(cs) # << >>
    PROVE  Written(cs) = (Render(cs[1]) \o << Sep(",") >>) \o Written(Tail(cs))
  <1> DEFINE ds == Tail(cs)
             first == Render(cs[1]) \o << Sep(",") >>
  <1>0. /\ ds \in Seq(Nested) /\ Len(cs) \in Nat /\ Len(ds) = Len(cs) - 1 /\ cs[1] \in Nested
        /\ \A k \in 1 .. Len(ds) : ds[k] = cs[k + 1]
    BY FirstAndRest
  <1>a. ds # << >>
    OBVIOUS
  <1>b. Render(cs[1]) \in Seq(Printable) /\ << Sep(",") >> \in Seq(Printable)
    BY <1>0, RenderType, Seps, OneToken
  <1>c. first \in Seq(Printable)
    BY <1>b, ConcatParts
  <1>1. PICK ct :
             /\ Written(cs) = FlattenSeq(ct)
             /\ Len(ct) = Len(cs) /\ Len(cs) \in Nat /\ Len(cs) # 0
             /\ \A k \in 1 .. Len(cs) : ct[k] \in Seq(Printable)
             /\ ct[1] = Render(cs[1])
             /\ \A k \in 2 .. Len(cs) : ct[k] = << Sep(",") >> \o Render(cs[k])
    BY WrittenTexts
  <1> HIDE DEF ds
  <1>2. PICK dt :
             /\ Written(ds) = FlattenSeq(dt)
             /\ Len(dt) = Len(ds) /\ Len(ds) \in Nat /\ Len(ds) # 0
             /\ \A k \in 1 .. Len(ds) : dt[k] \in Seq(Printable)
             /\ dt[1] = Render(ds[1])
             /\ \A k \in 2 .. Len(ds) : dt[k] = << Sep(",") >> \o Render(ds[k])
    BY <1>0, <1>a, WrittenTexts
  <1>d. \A l, m \in Nat : (l = m - 1 /\ l # 0) => m = l + 1 /\ l \in 1 .. l
    OBVIOUS
  <1>e. PICK m \in Nat : m # 0 /\ Len(ds) = m /\ Len(dt) = m /\ Len(ct) = m + 1 /\ Len(cs) = m + 1
    BY <1>0, <1>1, <1>2, <1>d
  <1>3. PICK f : /\ FlattenSeq(ct) = f[m + 1]
                 /\ f[1] = ct[1]
                 /\ \A k \in 1 .. m : f[k + 1] = f[k] \o ct[k + 1]
    <2>1. PICK f : /\ FlattenSeq(ct) = f[Len(ct)]
                   /\ f[1] = ct[1]
                   /\ \A k \in 1 .. Len(ct) - 1 : f[k + 1] = f[k] \o ct[k + 1]
      BY <1>1, FlatAt
    <2>2. (m + 1) - 1 = m
      OBVIOUS
    <2>3. /\ FlattenSeq(ct) = f[m + 1]
          /\ f[1] = ct[1]
          /\ \A k \in 1 .. m : f[k + 1] = f[k] \o ct[k + 1]
      BY <1>e, <2>1, <2>2
    <2> QED
      BY <2>3
  <1>4. PICK g : /\ FlattenSeq(dt) = g[m]
                 /\ g[1] = dt[1]
                 /\ \A k \in 1 .. m - 1 : g[k + 1] = g[k] \o dt[k + 1]
    <2>1. PICK g : /\ FlattenSeq(dt) = g[Len(dt)]
                   /\ g[1] = dt[1]
                   /\ \A k \in 1 .. Len(dt) - 1 : g[k + 1] = g[k] \o dt[k + 1]
      BY <1>2, FlatAt
    <2>2. /\ FlattenSeq(dt) = g[m]
          /\ g[1] = dt[1]
          /\ \A k \in 1 .. m - 1 : g[k + 1] = g[k] \o dt[k + 1]
      BY <1>e, <2>1
    <2> QED
      BY <2>2
  <1>g. /\ \A k \in 1 .. m : dt[k] \in Seq(Printable) /\ ds[k] = cs[k + 1]
        /\ \A k \in 2 .. m : dt[k] = << Sep(",") >> \o Render(ds[k])
        /\ \A k \in 2 .. m + 1 : ct[k] = << Sep(",") >> \o Render(cs[k])
    BY <1>0, <1>1, <1>2, <1>e
  <1>h. ct[1] = Render(cs[1]) /\ dt[1] = Render(ds[1])
    BY <1>1, <1>2
  <1> DEFINE Shifted(k) == g[k + 1] \in Seq(Printable) /\ f[(k + 1) + 1] = first \o g[k + 1]
             T == {k \in Nat : k + 1 <= m => Shifted(k)}
  <1>5. 0 \in T
    <2>1. 1 \in 1 .. m /\ 2 \in 2 .. m + 1 /\ 1 + 1 = 2 /\ 0 + 1 = 1
      BY <1>e
    <2>2. g[1] = dt[1] /\ dt[1] = Render(cs[2]) /\ dt[1] \in Seq(Printable)
      BY <1>g, <1>h, <1>4, <2>1
    <2>3. f[2] = f[1] \o ct[2] /\ f[1] = Render(cs[1])
      BY <1>h, <1>3, <2>1
    <2>4. ct[2] = << Sep(",") >> \o Render(cs[2])
      BY <1>g, <2>1
    <2>5. f[2] = Render(cs[1]) \o (<< Sep(",") >> \o Render(cs[2]))
      BY <2>3, <2>4
    <2>6. f[2] = (Render(cs[1]) \o << Sep(",") >>) \o Render(cs[2])
      <3>1. Render(cs[2]) \in Seq(Printable)
        BY <2>2
      <3>2. \A s \in Seq(Printable), t \in Seq(Printable), u \in Seq(Printable) :
              (s \o t) \o u = s \o (t \o u)
        BY Associate, SMTT(30)
      <3> QED
        BY <1>b, <2>5, <3>1, <3>2, Zenon
    <2>7. g[0 + 1] \in Seq(Printable) /\ f[(0 + 1) + 1] = first \o g[0 + 1]
      BY <2>1, <2>2, <2>6
    <2> QED
      BY <2>7
  <1> HIDE DEF first
  <1>6. ASSUME NEW k \in T PROVE k + 1 \in T
    <2>1. SUFFICES ASSUME (k + 1) + 1 <= m PROVE Shifted(k + 1)
      BY SMT
    <2>0. PICK n \in Nat : n = k + 1
      BY SMT
    <2>2. /\ n <= m /\ n \in 1 .. m - 1 /\ n + 1 \in 2 .. m
          /\ n + 1 \in 1 .. m /\ (n + 1) + 1 \in 2 .. m + 1
      BY <2>0, <2>1
    <2>3. g[n] \in Seq(Printable) /\ f[n + 1] = first \o g[n]
      BY <2>0, <2>2
    <2> HIDE DEF T
    <2>4. g[n + 1] = g[n] \o dt[n + 1] /\ dt[n + 1] \in Seq(Printable)
      BY <1>g, <1>4, <2>2
    <2>5. f[(n + 1) + 1] = f[n + 1] \o ct[(n + 1) + 1]
      BY <1>3, <2>2
    <2>6. dt[n + 1] = << Sep(",") >> \o Render(ds[n + 1])
      BY <1>g, <2>2
    <2>7. ct[(n + 1) + 1] = << Sep(",") >> \o Render(cs[(n + 1) + 1]) /\ ds[n + 1] = cs[(n + 1) + 1]
      BY <1>g, <2>2
    <2>8. f[(n + 1) + 1] = (first \o g[n]) \o dt[n + 1]
      BY <2>3, <2>5, <2>6, <2>7
    <2>9. f[(n + 1) + 1] = first \o (g[n] \o dt[n + 1])
      <3>1. \A s \in Seq(Printable), t \in Seq(Printable), u \in Seq(Printable) :
              (s \o t) \o u = s \o (t \o u)
        BY Associate, SMTT(30)
      <3> QED
        BY <1>c, <2>3, <2>4, <2>8, <3>1, Zenon
    <2>10. g[n + 1] \in Seq(Printable)
      BY <2>3, <2>4, ConcatParts
    <2> QED
      BY <2>0, <2>4, <2>9, <2>10
  <1>7. T \in SUBSET Nat
    OBVIOUS
  <1>8. T = Nat
    <2> HIDE DEF T
    <2> QED
      BY <1>5, <1>6, <1>7, CountingUp
  <1>9. m - 1 \in Nat /\ (m - 1) + 1 = m /\ m <= m
    BY <1>e
  <1>10. Shifted(m - 1)
    BY <1>8, <1>9
  <1>11. f[m + 1] = first \o g[m]
    BY <1>9, <1>10
  <1>12. Written(cs) = first \o Written(ds)
    BY <1>1, <1>2, <1>3, <1>4, <1>11
  <1> QED
    BY <1>12 DEF first, ds

----------------------------------------------------------------------------
(* What stands at a place of the text, in some spelling of its numbers.    *)
Stands(text, at, w) ==
    at + Len(w) <= Len(text) + 1 /\ \A j \in 0 .. Len(w) - 1 : SameToken(text[at + j], w[j + 1])

LEMMA SameSep ==
    ASSUME NEW token
    PROVE  /\ SameToken(token, token)
           /\ \A c \in DOMAIN AsciiOf : SameToken(token, Sep(c)) <=> token = Sep(c)
           /\ SameToken(token, Sep("x")) <=> token = Sep("x")
           /\ SameToken(token, Sep(",")) <=> token = Sep(",")
  <1>1. \A c \in DOMAIN AsciiOf : SameToken(token, Sep(c)) <=> token = Sep(c)
    BY Separators, Zenon DEF SameToken
  <1>2. "x" \in DOMAIN AsciiOf /\ "," \in DOMAIN AsciiOf
    BY Ascii, Zenon
  <1>3. SameToken(token, token)
    BY DEF SameToken
  <1> QED
    BY <1>1, <1>2, <1>3, Zenon

LEMMA StandsConcat ==
    ASSUME NEW text \in Text, NEW at \in Nat, NEW w \in Text, NEW v \in Text
    PROVE  Stands(text, at, w \o v) <=> Stands(text, at, w) /\ Stands(text, at + Len(w), v)
  <1>1. PICK m \in Nat : m = Len(w)
    BY LenProperties DEF Text
  <1>2. PICK n \in Nat : n = Len(v)
    BY LenProperties DEF Text
  <1>3. PICK l \in Nat : l = Len(text)
    BY LenProperties DEF Text
  <1>4. /\ Len(w \o v) = m + n
        /\ \A k \in 1 .. m : (w \o v)[k] = w[k]
        /\ \A k \in 1 .. n : (w \o v)[m + k] = v[k]
    BY <1>1, <1>2, ConcatParts DEF Text
  <1>5. ASSUME Stands(text, at, w \o v) PROVE Stands(text, at, w) /\ Stands(text, at + Len(w), v)
    <2>1. at + (m + n) <= l + 1 /\ \A j \in 0 .. (m + n) - 1 : SameToken(text[at + j], (w \o v)[j + 1])
      BY <1>3, <1>4, <1>5 DEF Stands
    <2>2. ASSUME NEW j \in 0 .. m - 1 PROVE SameToken(text[at + j], w[j + 1])
      <3>1. j \in 0 .. (m + n) - 1 /\ j + 1 \in 1 .. m
        OBVIOUS
      <3> QED
        BY <1>4, <2>1, <3>1
    <2>3. ASSUME NEW j \in 0 .. n - 1 PROVE SameToken(text[(at + m) + j], v[j + 1])
      <3>1. /\ m + j \in 0 .. (m + n) - 1 /\ j + 1 \in 1 .. n
            /\ at + (m + j) = (at + m) + j /\ (m + j) + 1 = m + (j + 1)
        OBVIOUS
      <3>2. SameToken(text[at + (m + j)], (w \o v)[(m + j) + 1])
        BY <2>1, <3>1
      <3>3. (w \o v)[m + (j + 1)] = v[j + 1]
        BY <1>4, <3>1
      <3> QED
        BY <3>1, <3>2, <3>3
    <2>4. at + m <= l + 1 /\ (at + m) + n <= l + 1
      BY <2>1
    <2> QED
      BY <1>1, <1>2, <1>3, <2>2, <2>3, <2>4 DEF Stands
  <1>6. ASSUME Stands(text, at, w), Stands(text, at + Len(w), v) PROVE Stands(text, at, w \o v)
    <2>1. \A j \in 0 .. m - 1 : SameToken(text[at + j], w[j + 1])
      BY <1>1, <1>6 DEF Stands
    <2>2. (at + m) + n <= l + 1 /\ \A j \in 0 .. n - 1 : SameToken(text[(at + m) + j], v[j + 1])
      BY <1>1, <1>2, <1>3, <1>6 DEF Stands
    <2>3. ASSUME NEW j \in 0 .. (m + n) - 1 PROVE SameToken(text[at + j], (w \o v)[j + 1])
      <3>1. CASE j < m
        <4>1. j \in 0 .. m - 1 /\ j + 1 \in 1 .. m
          BY <3>1
        <4> QED
          BY <1>4, <2>1, <4>1
      <3>2. CASE ~(j < m)
        <4>1. PICK i \in 0 .. n - 1 : j = m + i
          <5>1. j - m \in 0 .. n - 1 /\ j = m + (j - m)
            BY <3>2
          <5> QED
            BY <5>1
        <4>2. at + j = (at + m) + i /\ j + 1 = m + (i + 1) /\ i + 1 \in 1 .. n
          BY <4>1
        <4>3. SameToken(text[(at + m) + i], v[i + 1])
          BY <2>2
        <4>4. (w \o v)[m + (i + 1)] = v[i + 1]
          BY <1>4, <4>2
        <4> QED
          BY <4>2, <4>3, <4>4
      <3> QED
        BY <3>1, <3>2
    <2>4. at + (m + n) <= l + 1
      BY <2>2
    <2> QED
      BY <1>3, <1>4, <2>3, <2>4 DEF Stands
  <1> QED
    BY <1>5, <1>6

LEMMA StandsSep ==
    ASSUME NEW text \in Text, NEW at \in Nat, NEW c \in DOMAIN AsciiOf
    PROVE  Stands(text, at, << Sep(c) >>) <=> IsSep(text, at, c)
  <1>1. PICK l \in Nat : l = Len(text)
    BY LenProperties DEF Text
  <1>2. Len(<< Sep(c) >>) = 1 /\ << Sep(c) >>[1] = Sep(c)
    OBVIOUS
  <1>3. Stands(text, at, << Sep(c) >>)
          <=> at + 1 <= l + 1 /\ \A j \in 0 .. 1 - 1 : SameToken(text[at + j], << Sep(c) >>[j + 1])
    BY <1>1, <1>2 DEF Stands
  <1>4. (\A j \in 0 .. 1 - 1 : SameToken(text[at + j], << Sep(c) >>[j + 1]))
          <=> SameToken(text[at], Sep(c))
    <2>1. at + 0 = at /\ 0 + 1 = 1 /\ \A j \in 0 .. 1 - 1 : j = 0
      OBVIOUS
    <2>2. 0 \in 0 .. 1 - 1
      OBVIOUS
    <2> HIDE DEF Sep
    <2> QED
      BY <1>2, <2>1, <2>2
  <1>5. SameToken(text[at], Sep(c)) <=> text[at] = Sep(c)
    BY SameSep, Zenon
  <1>6. at + 1 <= l + 1 <=> at <= l
    OBVIOUS
  <1> QED
    BY <1>1, <1>3, <1>4, <1>5, <1>6 DEF IsSep

(* A text is what stands in it from its beginning to its end. *)
LEMMA StandsWhole ==
    ASSUME NEW text \in Text, NEW w \in Text
    PROVE  /\ Stands(text, 1, w) /\ Len(w) = Len(text) <=> SameText(text, w)
           /\ text = w => Stands(text, 1, w) /\ Len(w) = Len(text)
  <1>1. PICK l \in Nat : l = Len(text)
    BY LenProperties DEF Text
  <1>2. ASSUME Stands(text, 1, w), Len(w) = Len(text) PROVE SameText(text, w)
    <2>1. ASSUME NEW k \in 1 .. l PROVE SameToken(text[k], w[k])
      <3>1. k - 1 \in 0 .. l - 1 /\ 1 + (k - 1) = k /\ (k - 1) + 1 = k
        OBVIOUS
      <3>2. \A j \in 0 .. l - 1 : SameToken(text[1 + j], w[j + 1])
        BY <1>1, <1>2 DEF Stands
      <3> QED
        BY <3>1, <3>2
    <2> QED
      BY <1>1, <1>2, <2>1 DEF SameText
  <1>3. ASSUME SameText(text, w) PROVE Stands(text, 1, w) /\ Len(w) = Len(text)
    <2>1. 1 + l <= l + 1 /\ \A j \in 0 .. l - 1 : 1 + j = j + 1 /\ j + 1 \in 1 .. l
      OBVIOUS
    <2>2. Len(w) = l /\ \A k \in 1 .. l : SameToken(text[k], w[k])
      BY <1>1, <1>3 DEF SameText
    <2> QED
      BY <1>1, <2>1, <2>2 DEF Stands
  <1>4. text = w => SameText(text, w)
    BY DEF SameText, SameToken
  <1> QED
    BY <1>2, <1>3, <1>4

LEMMA NumeralThere ==
    ASSUME NEW text \in Text, NEW at \in Nat, at # 0, NEW max \in Nat
    PROVE  /\ IsNumeral(text, at, max) =>
                /\ at <= Len(text) /\ Number(text[at]) \in 0 .. max
                /\ SameToken(text[at], Num[Number(text[at])])
           /\ \A v \in 0 .. max : at <= Len(text) /\ SameToken(text[at], Num[v]) =>
                IsNumeral(text, at, max) /\ Number(text[at]) = v
  <1>1. ASSUME IsNumeral(text, at, max)
        PROVE  /\ at <= Len(text) /\ Number(text[at]) \in 0 .. max
               /\ SameToken(text[at], Num[Number(text[at])])
    <2>1. at <= Len(text) /\ IsDecimal(text[at]) /\ Number(text[at]) <= max
      BY <1>1 DEF IsNumeral
    <2>2. text[at] \in Seq(U8)
      <3>1. Len(text) \in Nat /\ at \in 1 .. Len(text)
        BY <2>1, LenProperties DEF Text
      <3> QED
        BY <3>1, ElementOfSeq DEF Text, Symbol
    <2>3. Number(text[at]) \in Nat
      BY <2>1, <2>2, DecimalWords, NumberType
    <2>4. IsDecimal(Num[Number(text[at])]) /\ Number(Num[Number(text[at])]) = Number(text[at])
      BY <2>3, DecimalWords
    <2>5. SameToken(text[at], Num[Number(text[at])])
      BY <2>1, <2>4 DEF SameToken
    <2> QED
      BY <2>1, <2>3, <2>5
  <1>2. ASSUME NEW v \in 0 .. max, at <= Len(text), SameToken(text[at], Num[v])
        PROVE  IsNumeral(text, at, max) /\ Number(text[at]) = v
    <2>1. v \in Nat /\ v <= max
      OBVIOUS
    <2>2. IsDecimal(Num[v]) /\ Number(Num[v]) = v
      BY <2>1, DecimalWords
    <2>3. IsDecimal(text[at]) /\ Number(text[at]) = v
      BY <1>2, <2>2, Zenon DEF SameToken
    <2> QED
      BY <1>2, <2>1, <2>3 DEF IsNumeral
  <1> QED
    BY <1>1, <1>2

LEMMA CellThere ==
    ASSUME NEW text \in Text, NEW at \in Nat, at # 0
    PROVE  /\ IsCell(text, at) =>
                CellOf(text, at) \in Cell /\ Stands(text, at, CellText(CellOf(text, at)))
           /\ \A cell \in Cell : Stands(text, at, CellText(cell)) =>
                IsCell(text, at) /\ CellOf(text, at) = cell
  <1>0. PICK l \in Nat : l = Len(text)
    BY LenProperties DEF Text
  <1>a. MaxDim \in Nat
    BY LayoutAssumption
  <1>b. \A k \in {0, 2, 4, 6} : at + k \in Nat /\ at + k # 0
    OBVIOUS
  <1>1. ASSUME IsCell(text, at)
        PROVE  CellOf(text, at) \in Cell /\ Stands(text, at, CellText(CellOf(text, at)))
    <2> DEFINE cell == CellOf(text, at)
    <2>1. \A k \in {0, 2, 4, 6} : /\ at + k <= l /\ Number(text[at + k]) \in 0 .. MaxDim
                                  /\ SameToken(text[at + k], Num[Number(text[at + k])])
      BY <1>0, <1>1, <1>a, <1>b, NumeralThere DEF IsCell
    <2>2. /\ text[at + 1] = Sep("x") /\ text[at + 3] = Sep(",") /\ text[at + 5] = Sep(",")
      BY <1>1 DEF IsCell, IsSep
    <2>3. at + 0 = at
      OBVIOUS
    <2>4. /\ cell[1] = Number(text[at + 0]) /\ cell[2] = Number(text[at + 2])
          /\ cell[3] = Number(text[at + 4]) /\ cell[4] = Number(text[at + 6])
          /\ cell \in Cell
      BY <2>1, <2>3 DEF CellOf, Cell
    <2> HIDE DEF cell
    <2>5. /\ Len(CellText(cell)) = 7
          /\ CellText(cell)[1] = Num[cell[1]] /\ CellText(cell)[2] = Sep("x")
          /\ CellText(cell)[3] = Num[cell[2]] /\ CellText(cell)[4] = Sep(",")
          /\ CellText(cell)[5] = Num[cell[3]] /\ CellText(cell)[6] = Sep(",")
          /\ CellText(cell)[7] = Num[cell[4]]
      BY <2>4, CellTextParts
    <2>6. /\ SameToken(text[at + 0], CellText(cell)[1]) /\ SameToken(text[at + 1], CellText(cell)[2])
          /\ SameToken(text[at + 2], CellText(cell)[3]) /\ SameToken(text[at + 3], CellText(cell)[4])
          /\ SameToken(text[at + 4], CellText(cell)[5]) /\ SameToken(text[at + 5], CellText(cell)[6])
          /\ SameToken(text[at + 6], CellText(cell)[7])
      <3>1. /\ SameToken(text[at + 1], Sep("x")) /\ SameToken(text[at + 3], Sep(","))
            /\ SameToken(text[at + 5], Sep(","))
        BY <2>2, SameSep, Zenon
      <3>2. /\ SameToken(text[at + 0], Num[cell[1]]) /\ SameToken(text[at + 2], Num[cell[2]])
            /\ SameToken(text[at + 4], Num[cell[3]]) /\ SameToken(text[at + 6], Num[cell[4]])
        BY <2>1, <2>4
      <3> QED
        BY <2>5, <3>1, <3>2, Zenon
    <2>7. at + 7 <= l + 1
      BY <2>1
    <2>8. ASSUME NEW j \in 0 .. 7 - 1 PROVE SameToken(text[at + j], CellText(cell)[j + 1])
      <3>1. j = 0 \/ j = 1 \/ j = 2 \/ j = 3 \/ j = 4 \/ j = 5 \/ j = 6
        OBVIOUS
      <3> QED
        BY <2>6, <3>1
    <2>9. Stands(text, at, CellText(cell))
      BY <1>0, <2>5, <2>7, <2>8 DEF Stands
    <2> QED
      BY <2>4, <2>9 DEF cell
  <1>2. ASSUME NEW cell \in Cell, Stands(text, at, CellText(cell))
        PROVE  IsCell(text, at) /\ CellOf(text, at) = cell
    <2>1. /\ Len(CellText(cell)) = 7
          /\ CellText(cell)[1] = Num[cell[1]] /\ CellText(cell)[2] = Sep("x")
          /\ CellText(cell)[3] = Num[cell[2]] /\ CellText(cell)[4] = Sep(",")
          /\ CellText(cell)[5] = Num[cell[3]] /\ CellText(cell)[6] = Sep(",")
          /\ CellText(cell)[7] = Num[cell[4]]
      BY CellTextParts
    <2>2. at + 7 <= l + 1 /\ \A j \in 0 .. 7 - 1 : SameToken(text[at + j], CellText(cell)[j + 1])
      BY <1>0, <1>2, <2>1 DEF Stands
    <2>3. /\ SameToken(text[at + 0], CellText(cell)[0 + 1]) /\ SameToken(text[at + 1], CellText(cell)[1 + 1])
          /\ SameToken(text[at + 2], CellText(cell)[2 + 1]) /\ SameToken(text[at + 3], CellText(cell)[3 + 1])
          /\ SameToken(text[at + 4], CellText(cell)[4 + 1]) /\ SameToken(text[at + 5], CellText(cell)[5 + 1])
          /\ SameToken(text[at + 6], CellText(cell)[6 + 1])
      <3> HIDE DEF CellText
      <3> QED
        BY <2>2
    <2>4. /\ SameToken(text[at + 0], Num[cell[1]]) /\ text[at + 1] = Sep("x")
          /\ SameToken(text[at + 2], Num[cell[2]]) /\ text[at + 3] = Sep(",")
          /\ SameToken(text[at + 4], Num[cell[3]]) /\ text[at + 5] = Sep(",")
          /\ SameToken(text[at + 6], Num[cell[4]])
      <3>1. 0 + 1 = 1 /\ 1 + 1 = 2 /\ 2 + 1 = 3 /\ 3 + 1 = 4 /\ 4 + 1 = 5 /\ 5 + 1 = 6 /\ 6 + 1 = 7
        OBVIOUS
      <3>2. /\ SameToken(text[at + 1], Sep("x")) /\ SameToken(text[at + 3], Sep(","))
            /\ SameToken(text[at + 5], Sep(","))
        BY <2>1, <2>3, <3>1, Zenon
      <3>3. /\ SameToken(text[at + 0], Num[cell[1]]) /\ SameToken(text[at + 2], Num[cell[2]])
            /\ SameToken(text[at + 4], Num[cell[3]]) /\ SameToken(text[at + 6], Num[cell[4]])
        BY <2>1, <2>3, <3>1, Zenon
      <3> QED
        BY <3>2, <3>3, SameSep, Zenon
    <2>5. /\ cell[1] \in 0 .. MaxDim /\ cell[2] \in 0 .. MaxDim
          /\ cell[3] \in 0 .. MaxDim /\ cell[4] \in 0 .. MaxDim
      BY DEF Cell
    <2>6. \A k \in 0 .. 6 : at + k <= Len(text) /\ at + k \in Nat /\ at + k # 0
      <3>1. at + 7 <= l + 1
        BY <2>2
      <3>2. \A k \in 0 .. 6 : at + k <= l /\ at + k \in Nat /\ at + k # 0
        BY <3>1
      <3> QED
        BY <1>0, <3>2
    <2>7. /\ IsNumeral(text, at + 0, MaxDim) /\ Number(text[at + 0]) = cell[1]
          /\ IsNumeral(text, at + 2, MaxDim) /\ Number(text[at + 2]) = cell[2]
          /\ IsNumeral(text, at + 4, MaxDim) /\ Number(text[at + 4]) = cell[3]
          /\ IsNumeral(text, at + 6, MaxDim) /\ Number(text[at + 6]) = cell[4]
      <3>1. 0 \in 0 .. 6 /\ 2 \in 0 .. 6 /\ 4 \in 0 .. 6 /\ 6 \in 0 .. 6
        OBVIOUS
      <3>2. at + 0 <= Len(text) /\ at + 0 \in Nat /\ at + 0 # 0
        BY <2>6, <3>1
      <3>3. at + 2 <= Len(text) /\ at + 2 \in Nat /\ at + 2 # 0
        BY <2>6, <3>1
      <3>4. at + 4 <= Len(text) /\ at + 4 \in Nat /\ at + 4 # 0
        BY <2>6, <3>1
      <3>5. at + 6 <= Len(text) /\ at + 6 \in Nat /\ at + 6 # 0
        BY <2>6, <3>1
      <3>6. \A place \in Nat, v \in 0 .. MaxDim :
              place # 0 /\ place <= Len(text) /\ SameToken(text[place], Num[v]) =>
                IsNumeral(text, place, MaxDim) /\ Number(text[place]) = v
        BY <1>a, NumeralThere, SMTT(30)
      <3> QED
        BY <2>4, <2>5, <3>2, <3>3, <3>4, <3>5, <3>6, ZenonT(60)
    <2>8. IsSep(text, at + 1, "x") /\ IsSep(text, at + 3, ",") /\ IsSep(text, at + 5, ",")
      <3>1. 1 \in 0 .. 6 /\ 3 \in 0 .. 6 /\ 5 \in 0 .. 6
        OBVIOUS
      <3> QED
        BY <2>4, <2>6, <3>1 DEF IsSep
    <2>9. IsCell(text, at)
      <3>1. \A k \in {0, 2, 4, 6} : IsNumeral(text, at + k, MaxDim)
        BY <2>7
      <3> QED
        BY <2>8, <3>1 DEF IsCell
    <2>10. CellOf(text, at) = <<cell[1], cell[2], cell[3], cell[4]>>
      <3>1. at + 0 = at
        OBVIOUS
      <3> QED
        BY <2>7, <3>1 DEF CellOf
    <2>11. <<cell[1], cell[2], cell[3], cell[4]>> = cell
      BY DEF Cell
    <2> QED
      BY <2>9, <2>10, <2>11
  <1> QED
    BY <1>1, <1>2

----------------------------------------------------------------------------
(* Which layouts parse_node and parse_children have room for at a depth.   *)
Fits(tree, depth) == depth <= MaxDepth /\ tree \in LayoutsWithin[MaxDepth - depth]
AllFit(cs, depth) ==
    depth <= MaxDepth /\ cs \in Seq(LayoutsWithin[MaxDepth - depth]) /\ cs # << >>

LEMMA RoomAt ==
    ASSUME NEW depth \in Nat, depth <= MaxDepth
    PROVE  /\ MaxDepth - depth \in Nat
           /\ MaxDepth - depth <= MaxNesting
           /\ LayoutsWithin[MaxDepth - depth] \subseteq Nested
  <1>1. MaxDepth - depth \in Nat /\ MaxDepth - depth <= MaxNesting
    BY LayoutAssumption
  <1> QED
    BY <1>1, RenderIs

LEMMA FitIsNested ==
    ASSUME NEW depth \in Nat
    PROVE  /\ \A tree : Fits(tree, depth) => tree \in Nested
           /\ \A cs : AllFit(cs, depth) => cs \in Seq(Nested) /\ cs # << >>
  BY RoomAt, Widen DEF Fits, AllFit

LEMMA FitsLeaf ==
    ASSUME NEW depth \in Nat, depth <= MaxDepth, NEW cell \in Cell, NEW pane \in 0 .. MaxPane
    PROVE  Fits(Leaf(cell, pane), depth)
  BY RoomAt, MakesLeaf DEF Fits

LEMMA FitsSplit ==
    ASSUME NEW depth \in Nat, depth <= MaxDepth, NEW t \in {"h", "v"}, NEW cell \in Cell,
           NEW cs \in Seq(Nested), cs # << >>
    PROVE  Fits(Split(t, cell, cs), depth) <=> AllFit(cs, depth + 1)
  <1> DEFINE tree == Split(t, cell, cs)
             n == MaxDepth - depth
  <1>0. n \in Nat /\ depth + 1 \in Nat /\ MaxDepth \in Nat
    BY LayoutAssumption
  <1>1. tree.t # "leaf" /\ tree.children = cs
    BY DEF Split
  <1>2. ASSUME AllFit(cs, depth + 1) PROVE Fits(tree, depth)
    <2>1. n # 0 /\ MaxDepth - (depth + 1) = n - 1
      BY <1>0, <1>2 DEF AllFit
    <2>2. cs \in Seq(LayoutsWithin[n - 1])
      BY <1>2, <2>1 DEF AllFit
    <2> HIDE DEF n
    <2>3. tree \in LayoutsWithin[n]
      BY <1>0, <2>1, <2>2, MakesSplit
    <2> QED
      BY <2>3 DEF Fits, n
  <1>3. ASSUME Fits(tree, depth) PROVE AllFit(cs, depth + 1)
    <2>1. tree \in LayoutsWithin[n]
      BY <1>3 DEF Fits
    <2> HIDE DEF tree
    <2>2. n # 0 /\ cs \in Seq(LayoutsWithin[n - 1])
      BY <1>0, <1>1, <2>1, TreeParts
    <2>3. depth + 1 <= MaxDepth /\ MaxDepth - (depth + 1) = n - 1
      BY <1>0, <2>2
    <2> HIDE DEF n
    <2> QED
      BY <2>2, <2>3 DEF AllFit
  <1> QED
    BY <1>2, <1>3

LEMMA AllFitParts ==
    ASSUME NEW depth \in Nat, NEW cs \in Seq(Nested), cs # << >>
    PROVE  AllFit(cs, depth) <=>
             Fits(cs[1], depth) /\ (Tail(cs) = << >> \/ AllFit(Tail(cs), depth))
  <1> DEFINE L == LayoutsWithin[MaxDepth - depth]
  <1>1. ASSUME AllFit(cs, depth)
        PROVE  Fits(cs[1], depth) /\ (Tail(cs) = << >> \/ AllFit(Tail(cs), depth))
    <2>1. cs \in Seq(L) /\ depth <= MaxDepth
      BY <1>1 DEF AllFit
    <2> HIDE DEF L
    <2>2. cs[1] \in L /\ Tail(cs) \in Seq(L)
      BY <2>1, FirstAndRest
    <2> QED
      BY <2>1, <2>2 DEF Fits, AllFit, L
  <1>2. ASSUME Fits(cs[1], depth), Tail(cs) = << >> \/ AllFit(Tail(cs), depth)
        PROVE  AllFit(cs, depth)
    <2>1. cs[1] \in L /\ depth <= MaxDepth /\ Tail(cs) \in Seq(L)
      <3>1. << >> \in Seq(L)
        BY EmptySeq
      <3> QED
        BY <1>2, <3>1 DEF Fits, AllFit
    <2>2. cs = << cs[1] >> \o Tail(cs)
      BY FirstAndRest
    <2> HIDE DEF L
    <2>3. << cs[1] >> \in Seq(L)
      BY <2>1, OneToken
    <2>4. << cs[1] >> \o Tail(cs) \in Seq(L)
      BY <2>1, <2>3, ConcatParts
    <2>5. cs \in Seq(L)
      BY <2>2, <2>4
    <2> QED
      BY <2>1, <2>5 DEF AllFit, L
  <1> QED
    BY <1>1, <1>2

LEMMA OneBefore ==
    ASSUME NEW S, NEW x \in S, NEW s \in Seq(S)
    PROVE  /\ << x >> \o s \in Seq(S) /\ << x >> \o s # << >>
           /\ (<< x >> \o s)[1] = x /\ Tail(<< x >> \o s) = s
           /\ << x >> \in Seq(S) /\ << x >> # << >> /\ << x >>[1] = x /\ Tail(<< x >>) = << >>
  <1> DEFINE one == << x >>
             all == one \o s
  <1>1. one \in Seq(S) /\ Len(one) = 1 /\ one[1] = x
    BY OneToken
  <1> HIDE DEF one
  <1>2. /\ all \in Seq(S) /\ Len(all) = Len(one) + Len(s) /\ Len(s) \in Nat
        /\ \A k \in 1 .. Len(one) : all[k] = one[k]
        /\ \A k \in 1 .. Len(s) : all[Len(one) + k] = s[k]
    BY <1>1, ConcatParts
  <1> HIDE DEF all
  <1>3. Len(all) = 1 + Len(s) /\ all[1] = x /\ \A k \in 1 .. Len(s) : all[1 + k] = s[k]
    BY <1>1, <1>2
  <1>4. all # << >> /\ one # << >>
    <2>1. \A m \in Nat : 1 + m # 0
      OBVIOUS
    <2>2. Len(all) # 0 /\ Len(one) # 0
      BY <1>1, <1>2, <1>3, <2>1
    <2> QED
      BY <2>2, EmptySeq
  <1>5. /\ Tail(all) \in Seq(S) /\ Len(Tail(all)) = Len(all) - 1
        /\ \A k \in 1 .. Len(Tail(all)) : Tail(all)[k] = all[k + 1]
        /\ Tail(one) \in Seq(S) /\ Len(Tail(one)) = Len(one) - 1
    BY <1>1, <1>2, <1>4, FirstAndRest
  <1>6. Len(Tail(all)) = Len(s)
    BY <1>2, <1>3, <1>5
  <1>7. \A k \in 1 .. Len(s) : Tail(all)[k] = s[k]
    <2>1. \A k \in 1 .. Len(s) : k + 1 = 1 + k
      BY <1>2
    <2> QED
      BY <1>3, <1>5, <1>6, <2>1
  <1>8. Tail(all) = s
    BY <1>5, <1>6, <1>7, SeqEqual
  <1>9. Tail(one) = << >>
    <2>1. Len(Tail(one)) = 0
      BY <1>1, <1>5
    <2> QED
      BY <1>5, <2>1, EmptySeq
  <1> QED
    BY <1>1, <1>2, <1>3, <1>4, <1>8, <1>9 DEF one, all

(* A rendered split, part by part. *)
LEMMA SplitThere ==
    ASSUME NEW text \in Text, NEW at \in Nat, NEW t \in {"h", "v"}, NEW cell \in Cell,
           NEW cs \in Seq(Nested), cs # << >>, Split(t, cell, cs) \in Nested
    PROVE  /\ Stands(text, at, Render(Split(t, cell, cs))) <=>
                /\ Stands(text, at, CellText(cell))
                /\ IsSep(text, at + 7, Brackets(t)[1])
                /\ Stands(text, at + 8, Written(cs) \o << Sep(Brackets(t)[2]) >>)
           /\ Len(Written(cs)) \in Nat
           /\ Len(Render(Split(t, cell, cs))) = 9 + Len(Written(cs))
  <1> DEFINE tree == Split(t, cell, cs)
             c == CellText(cell)
             open == << Sep(Brackets(t)[1]) >>
             w == Written(cs)
             close == << Sep(Brackets(t)[2]) >>
  <1>1. tree.t = t /\ tree.cell = cell /\ tree.children = cs /\ tree.t # "leaf"
    BY DEF Split
  <1>2. Render(tree) = c \o open \o w \o close
    <2> HIDE DEF tree
    <2> QED
      BY <1>1, RenderSplit DEF tree
  <1>3. /\ c \in Seq(Printable) /\ Len(c) = 7
        /\ open \in Seq(Printable) /\ Len(open) = 1
        /\ close \in Seq(Printable) /\ Len(close) = 1
        /\ w \in Seq(Printable)
    BY CellTextParts, BracketSeps, WrittenType
  <1>s. /\ \A place \in Nat : Stands(text, place, open) <=> IsSep(text, place, Brackets(t)[1])
    <2>1. Brackets(t)[1] \in DOMAIN AsciiOf
      BY BracketSeps, Keys, Zenon
    <2> QED
      BY <2>1, StandsSep, Zenon
  <1> HIDE DEF tree, c, open, w, close
  <1>4. c \in Text /\ open \in Text /\ close \in Text /\ w \in Text
    BY <1>3, PrintableIsText
  <1>5. PICK n \in Nat : n = Len(w)
    BY <1>4, LenProperties DEF Text
  <1>6. /\ c \o open \in Seq(Printable) /\ Len(c \o open) = 7 + 1
        /\ w \o close \in Seq(Printable) /\ Len(w \o close) = n + 1
    <2>1. c \o open \in Seq(Printable) /\ Len(c \o open) = Len(c) + Len(open)
      BY <1>3, ConcatParts, ZenonT(60)
    <2>2. w \o close \in Seq(Printable) /\ Len(w \o close) = Len(w) + Len(close)
      BY <1>3, ConcatParts, ZenonT(60)
    <2> QED
      BY <1>3, <1>5, <2>1, <2>2, Zenon
  <1>7. c \o open \in Text /\ w \o close \in Text
    BY <1>6, PrintableIsText
  <1>8. c \o open \o w \o close = (c \o open) \o (w \o close)
    <2>1. \A s \in Seq(Printable), u \in Seq(Printable), v \in Seq(Printable) :
            (s \o u) \o v = s \o (u \o v)
      BY Associate
    <2>2. c \o open \in Seq(Printable) /\ w \in Seq(Printable) /\ close \in Seq(Printable)
      BY <1>3, <1>6
    <2>3. ((c \o open) \o w) \o close = (c \o open) \o (w \o close)
      BY <2>1, <2>2, Zenon
    <2> QED
      BY <2>3
  <1>9. Len((c \o open) \o (w \o close)) = 9 + n
    <2>1. Len((c \o open) \o (w \o close)) = Len(c \o open) + Len(w \o close)
      BY <1>6, ConcatParts
    <2> QED
      BY <1>6, <2>1
  <1>10. Stands(text, at, (c \o open) \o (w \o close))
           <=> Stands(text, at, c \o open) /\ Stands(text, at + 8, w \o close)
    <2>1. Stands(text, at, (c \o open) \o (w \o close))
           <=> Stands(text, at, c \o open) /\ Stands(text, at + Len(c \o open), w \o close)
      BY <1>7, StandsConcat
    <2>2. at + Len(c \o open) = at + 8
      BY <1>6
    <2> QED
      BY <2>1, <2>2
  <1>11. Stands(text, at, c \o open) <=> Stands(text, at, c) /\ Stands(text, at + 7, open)
    <2>1. Stands(text, at, c \o open) <=> Stands(text, at, c) /\ Stands(text, at + Len(c), open)
      BY <1>4, StandsConcat
    <2>2. at + Len(c) = at + 7
      BY <1>3
    <2> QED
      BY <2>1, <2>2
  <1>12. Stands(text, at + 7, open) <=> IsSep(text, at + 7, Brackets(t)[1])
    <2>1. at + 7 \in Nat
      OBVIOUS
    <2> QED
      BY <1>s, <2>1
  <1>13. Stands(text, at, Render(tree)) <=>
                /\ Stands(text, at, c)
                /\ IsSep(text, at + 7, Brackets(t)[1])
                /\ Stands(text, at + 8, w \o close)
    BY <1>2, <1>8, <1>10, <1>11, <1>12
  <1>14. Len(w) \in Nat /\ Len(Render(tree)) = 9 + Len(w)
    BY <1>2, <1>5, <1>8, <1>9
  <1> QED
    BY <1>13, <1>14 DEF tree, c, w, close

LEMMA LeafThere ==
    ASSUME NEW text \in Text, NEW at \in Nat, at # 0, NEW cell \in Cell, NEW pane \in 0 .. MaxPane
    PROVE  /\ Stands(text, at, Render(Leaf(cell, pane))) <=>
                /\ Stands(text, at, CellText(cell))
                /\ IsSep(text, at + 7, ",")
                /\ IsNumeral(text, at + 8, MaxPane) /\ Number(text[at + 8]) = pane
           /\ Len(Render(Leaf(cell, pane))) = 9
  <1> DEFINE tree == Leaf(cell, pane)
             c == CellText(cell)
             p == << Sep(","), Num[pane] >>
  <1>1. tree \in Nested /\ Render(tree) = c \o p
    BY RenderOfLeaf
  <1>2. c \in Seq(Printable) /\ Len(c) = 7
    BY CellTextParts
  <1>3. p \in Seq(Printable) /\ Len(p) = 2 /\ p[1] = Sep(",") /\ p[2] = Num[pane]
    BY PaneText
  <1> HIDE DEF tree, c, p
  <1>4. c \in Text /\ p \in Text
    BY <1>2, <1>3, PrintableIsText
  <1>5. Len(c \o p) = 9
    <2>1. Len(c \o p) = Len(c) + Len(p)
      BY <1>2, <1>3, ConcatParts
    <2>2. Len(c \o p) = 7 + 2
      BY <1>2, <1>3, <2>1, Zenon
    <2> QED
      BY <2>2
  <1>6. Stands(text, at, c \o p) <=> Stands(text, at, c) /\ Stands(text, at + 7, p)
    <2>1. Stands(text, at, c \o p) <=> Stands(text, at, c) /\ Stands(text, at + Len(c), p)
      BY <1>4, StandsConcat
    <2>2. at + Len(c) = at + 7
      BY <1>2
    <2> QED
      BY <2>1, <2>2
  <1>7. PICK l \in Nat : l = Len(text)
    BY LenProperties DEF Text
  <1>8. MaxPane \in Nat /\ at + 8 \in Nat /\ at + 8 # 0
    BY LayoutAssumption
  <1>9. Stands(text, at + 7, p) <=>
          IsSep(text, at + 7, ",") /\ at + 8 <= l /\ SameToken(text[at + 8], Num[pane])
    <2>1. Stands(text, at + 7, p)
            <=> (at + 7) + 2 <= l + 1 /\ \A j \in 0 .. 2 - 1 : SameToken(text[(at + 7) + j], p[j + 1])
      BY <1>3, <1>7 DEF Stands
    <2>2. /\ (at + 7) + 2 <= l + 1 <=> at + 8 <= l
          /\ at + 8 <= l => at + 7 <= l
          /\ (at + 7) + 0 = at + 7 /\ (at + 7) + 1 = at + 8 /\ 0 + 1 = 1 /\ 1 + 1 = 2
          /\ 0 \in 0 .. 2 - 1 /\ 1 \in 0 .. 2 - 1
          /\ \A j \in 0 .. 2 - 1 : j = 0 \/ j = 1
      OBVIOUS
    <2>3. (\A j \in 0 .. 2 - 1 : SameToken(text[(at + 7) + j], p[j + 1]))
            <=> text[at + 7] = Sep(",") /\ SameToken(text[at + 8], Num[pane])
      <3>1. (\A j \in 0 .. 2 - 1 : SameToken(text[(at + 7) + j], p[j + 1]))
              <=> SameToken(text[at + 7], Sep(",")) /\ SameToken(text[at + 8], Num[pane])
        BY <1>3, <2>2, Zenon
      <3> QED
        BY <3>1, SameSep, Zenon
    <2> QED
      BY <1>7, <2>1, <2>2, <2>3 DEF IsSep
  <1>10. at + 8 <= l /\ SameToken(text[at + 8], Num[pane])
          <=> IsNumeral(text, at + 8, MaxPane) /\ Number(text[at + 8]) = pane
    <2>1. at + 8 <= l /\ SameToken(text[at + 8], Num[pane])
            => IsNumeral(text, at + 8, MaxPane) /\ Number(text[at + 8]) = pane
      BY <1>7, <1>8, NumeralThere
    <2>2. IsNumeral(text, at + 8, MaxPane)
            => at + 8 <= Len(text) /\ SameToken(text[at + 8], Num[Number(text[at + 8])])
      BY <1>8, NumeralThere
    <2> QED
      BY <1>7, <2>1, <2>2
  <1>11. Stands(text, at, Render(tree)) <=>
                /\ Stands(text, at, c)
                /\ IsSep(text, at + 7, ",")
                /\ IsNumeral(text, at + 8, MaxPane) /\ Number(text[at + 8]) = pane
    BY <1>1, <1>6, <1>9, <1>10
  <1> QED
    BY <1>1, <1>5, <1>11 DEF tree, c

----------------------------------------------------------------------------
(* Soundness: a parser that does not fail has read a rendering.            *)
NodeRead(text, at, depth, tree, rest) ==
    Fits(tree, depth) /\ Stands(text, at, Render(tree)) /\ rest = at + Len(Render(tree))

ChildrenRead(text, at, close, depth, cs, rest) ==
    /\ AllFit(cs, depth)
    /\ Stands(text, at, Written(cs) \o << Sep(close) >>)
    /\ rest = at + Len(Written(cs)) + 1

Sound(more, text) ==
    \A at \in Nat, close \in Closing, depth \in Nat :
      at # 0 => \/ more[<<at, close, depth>>] = Error
                \/ \E cs, rest : /\ ChildrenRead(text, at, close, depth, cs, rest)
                                 /\ more[<<at, close, depth>>] = Parsed(cs, rest)

LEMMA Outcomes ==
    /\ ~Error.ok
    /\ \A value, rest : /\ Parsed(value, rest).ok
                        /\ Parsed(value, rest).value = value
                        /\ Parsed(value, rest).rest = rest
                        /\ Parsed(value, rest) # Error
  <1>1. ~Error.ok
    BY DEF Error
  <1>2. ASSUME NEW value, NEW rest
        PROVE  /\ Parsed(value, rest).ok
               /\ Parsed(value, rest).value = value
               /\ Parsed(value, rest).rest = rest
    BY DEF Parsed
  <1> QED
    BY <1>1, <1>2

LEMMA SplitOutcome ==
    ASSUME NEW t, NEW c, NEW cs, NEW rest
    PROVE  /\ SplitOf(t, c, Error) = Error
           /\ SplitOf(t, c, Parsed(cs, rest)) = Parsed(Split(t, c, cs), rest)
  BY Outcomes DEF SplitOf

LEMMA SplitSound ==
    ASSUME NEW text \in Text, NEW at \in Nat, at # 0, NEW depth \in Nat, depth <= MaxDepth,
           IsCell(text, at), NEW t \in {"h", "v"}, IsSep(text, at + 7, Brackets(t)[1]),
           NEW cs, NEW rest, ChildrenRead(text, at + 8, Brackets(t)[2], depth + 1, cs, rest)
    PROVE  NodeRead(text, at, depth, Split(t, CellOf(text, at), cs), rest)
  <1> DEFINE cell == CellOf(text, at)
             tree == Split(t, cell, cs)
  <1>1. /\ AllFit(cs, depth + 1)
        /\ Stands(text, at + 8, Written(cs) \o << Sep(Brackets(t)[2]) >>)
        /\ rest = (at + 8) + Len(Written(cs)) + 1
    BY DEF ChildrenRead
  <1>2. depth + 1 \in Nat
    OBVIOUS
  <1>3. cs \in Seq(Nested) /\ cs # << >>
    BY <1>1, <1>2, FitIsNested
  <1>4. cell \in Cell /\ Stands(text, at, CellText(cell))
    BY CellThere
  <1> HIDE DEF cell
  <1>5. Fits(tree, depth)
    BY <1>1, <1>3, <1>4, FitsSplit
  <1>6. tree \in Nested
    BY <1>5, FitIsNested
  <1>7. Stands(text, at, Render(tree))
    BY <1>1, <1>3, <1>4, <1>6, SplitThere DEF cell
  <1>8. Len(Written(cs)) \in Nat /\ Len(Render(tree)) = 9 + Len(Written(cs))
    BY <1>3, <1>4, <1>6, SplitThere
  <1>9. rest = at + Len(Render(tree))
    <2>1. \A m \in Nat : (at + 8) + m + 1 = at + (9 + m)
      OBVIOUS
    <2> QED
      BY <1>1, <1>8, <2>1, Zenon
  <1> QED
    BY <1>5, <1>7, <1>9 DEF NodeRead, cell

(* What parse_node does, by the separator after the cell.                  *)
LEMMA OneSep ==
    ASSUME NEW text, NEW at, NEW c \in DOMAIN AsciiOf, NEW d \in DOMAIN AsciiOf,
           IsSep(text, at, c), IsSep(text, at, d)
    PROVE  c = d
  BY Separators, Zenon DEF IsSep

LEMMA NodeFails ==
    ASSUME NEW text, NEW more, NEW at, NEW depth, depth > MaxDepth \/ ~IsCell(text, at)
    PROVE  ParseNode(more, text, at, depth) = Error
  BY DEF ParseNode

SplitAt(text, at, depth, t) ==
    /\ t \in {"h", "v"} /\ ~(depth > MaxDepth) /\ IsCell(text, at)
    /\ IsSep(text, at + 7, Brackets(t)[1])

LEMMA NodeSplits ==
    ASSUME NEW text, NEW more, NEW at, NEW depth, NEW t, SplitAt(text, at, depth, t)
    PROVE  ParseNode(more, text, at, depth)
             = SplitOf(t, CellOf(text, at), more[<<at + 8, Brackets(t)[2], depth + 1>>])
  <1> DEFINE node == ParseNode(more, text, at, depth)
             cell == CellOf(text, at)
  <1>a. /\ t \in {"h", "v"} /\ ~(depth > MaxDepth) /\ IsCell(text, at)
        /\ IsSep(text, at + 7, Brackets(t)[1])
    BY DEF SplitAt
  <1>b. /\ Brackets("h")[1] = "{" /\ Brackets("h")[2] = "}"
        /\ Brackets("v")[1] = "[" /\ Brackets("v")[2] = "]"
    BY DEF Brackets
  <1>s. \A c, d \in {"{", "[", ","} : IsSep(text, at + 7, c) /\ IsSep(text, at + 7, d) => c = d
    <2>1. \A c \in {"{", "[", ","} : c \in DOMAIN AsciiOf
      BY Keys, Zenon
    <2> QED
      BY <2>1, OneSep, Zenon
  <1>1. CASE t = "h"
    <2>1. IsSep(text, at + 7, "{")
      BY <1>a, <1>b, <1>1
    <2>2. ~IsSep(text, at + 7, ",") /\ ~IsSep(text, at + 7, "[")
      BY <1>s, <2>1
    <2>3. node = SplitOf("h", cell, more[<<at + 8, "}", depth + 1>>])
      BY <1>a, <2>1, <2>2 DEF ParseNode
    <2> QED
      BY <1>b, <1>1, <2>3
  <1>2. CASE t = "v"
    <2>1. IsSep(text, at + 7, "[")
      BY <1>a, <1>b, <1>2
    <2>2. ~IsSep(text, at + 7, ",") /\ ~IsSep(text, at + 7, "{")
      BY <1>s, <2>1
    <2>3. node = SplitOf("v", cell, more[<<at + 8, "]", depth + 1>>])
      BY <1>a, <2>1, <2>2 DEF ParseNode
    <2> QED
      BY <1>b, <1>2, <2>3
  <1> QED
    BY <1>a, <1>1, <1>2

LEMMA NodeLeaf ==
    ASSUME NEW text, NEW more, NEW at, NEW depth, ~(depth > MaxDepth), IsCell(text, at),
           \A t \in {"h", "v"} : ~IsSep(text, at + 7, Brackets(t)[1])
    PROVE  ParseNode(more, text, at, depth)
             = IF IsSep(text, at + 7, ",") /\ IsNumeral(text, at + 8, MaxPane)
               THEN Parsed(Leaf(CellOf(text, at), Number(text[at + 8])), at + 9) ELSE Error
  <1>1. ~IsSep(text, at + 7, "{") /\ ~IsSep(text, at + 7, "[")
    <2>1. Brackets("h")[1] = "{" /\ Brackets("v")[1] = "["
      BY DEF Brackets
    <2> QED
      BY <2>1
  <1> QED
    BY <1>1 DEF ParseNode

LEMMA NodeSound ==
    ASSUME NEW text \in Text, NEW more, Sound(more, text),
           NEW at \in Nat, at # 0, NEW depth \in Nat
    PROVE  \/ ParseNode(more, text, at, depth) = Error
           \/ \E tree, rest : /\ NodeRead(text, at, depth, tree, rest)
                              /\ ParseNode(more, text, at, depth) = Parsed(tree, rest)
  <1> DEFINE node == ParseNode(more, text, at, depth)
             cell == CellOf(text, at)
  <1>0. at + 8 \in Nat /\ at + 8 # 0 /\ depth + 1 \in Nat
    OBVIOUS
  <1>1. CASE depth > MaxDepth \/ ~IsCell(text, at)
    BY <1>1, NodeFails
  <1>2. CASE ~(depth > MaxDepth \/ ~IsCell(text, at))
    <2>0. depth <= MaxDepth /\ ~(depth > MaxDepth) /\ IsCell(text, at)
      BY <1>2, LayoutAssumption
    <2>1. ASSUME NEW t \in {"h", "v"}, IsSep(text, at + 7, Brackets(t)[1])
          PROVE  \/ node = Error
                 \/ \E tree, place : NodeRead(text, at, depth, tree, place) /\ node = Parsed(tree, place)
      <3> DEFINE below == more[<<at + 8, Brackets(t)[2], depth + 1>>]
      <3>1. node = SplitOf(t, cell, below)
        <4>1. SplitAt(text, at, depth, t)
          BY <2>0, <2>1 DEF SplitAt
        <4> QED
          BY <4>1, NodeSplits
      <3>2. Brackets(t)[2] \in Closing
        BY BracketSeps
      <3>3. \/ below = Error
            \/ \E cs, rest : /\ ChildrenRead(text, at + 8, Brackets(t)[2], depth + 1, cs, rest)
                             /\ below = Parsed(cs, rest)
        BY <1>0, <3>2 DEF Sound
      <3> HIDE DEF below, node, cell
      <3>4. CASE below = Error
        BY <3>1, <3>4, SplitOutcome
      <3>5. ASSUME NEW cs, NEW rest, ChildrenRead(text, at + 8, Brackets(t)[2], depth + 1, cs, rest),
                   below = Parsed(cs, rest)
            PROVE  \E tree, place : NodeRead(text, at, depth, tree, place) /\ node = Parsed(tree, place)
        <4>1. node = Parsed(Split(t, cell, cs), rest)
          <5>1. SplitOf(t, cell, Parsed(cs, rest)) = Parsed(Split(t, cell, cs), rest)
            BY SplitOutcome
          <5> QED
            BY <3>1, <3>5, <5>1
        <4>2. NodeRead(text, at, depth, Split(t, cell, cs), rest)
          BY <2>0, <2>1, <3>5, SplitSound DEF cell
        <4> QED
          BY <4>1, <4>2
      <3> QED
        BY <3>3, <3>4, <3>5
    <2>2. CASE \A t \in {"h", "v"} : ~IsSep(text, at + 7, Brackets(t)[1])
      <3> DEFINE pane == Number(text[at + 8])
      <3>1. node = IF IsSep(text, at + 7, ",") /\ IsNumeral(text, at + 8, MaxPane)
                   THEN Parsed(Leaf(cell, pane), at + 9) ELSE Error
        BY <2>0, <2>2, NodeLeaf
      <3>2. CASE IsSep(text, at + 7, ",") /\ IsNumeral(text, at + 8, MaxPane)
        <4>1. node = Parsed(Leaf(cell, pane), at + 9)
          BY <3>1, <3>2
        <4>2. cell \in Cell /\ Stands(text, at, CellText(cell))
          BY <2>0, CellThere
        <4>3. pane \in 0 .. MaxPane
          <5>1. MaxPane \in Nat
            BY LayoutAssumption
          <5> QED
            BY <1>0, <3>2, <5>1, NumeralThere
        <4> HIDE DEF cell
        <4>4. Fits(Leaf(cell, pane), depth)
          BY <2>0, <4>2, <4>3, FitsLeaf
        <4>5. /\ Stands(text, at, Render(Leaf(cell, pane))) <=>
                   /\ Stands(text, at, CellText(cell))
                   /\ IsSep(text, at + 7, ",")
                   /\ IsNumeral(text, at + 8, MaxPane) /\ Number(text[at + 8]) = pane
              /\ Len(Render(Leaf(cell, pane))) = 9
          BY <4>2, <4>3, LeafThere, ZenonT(60)
        <4>6. Stands(text, at, Render(Leaf(cell, pane)))
          BY <3>2, <4>2, <4>5
        <4>7. at + 9 = at + Len(Render(Leaf(cell, pane)))
          BY <4>5, Zenon
        <4>8. NodeRead(text, at, depth, Leaf(cell, pane), at + 9)
          BY <4>4, <4>6, <4>7 DEF NodeRead
        <4> HIDE DEF node, pane
        <4> QED
          BY <4>1, <4>8 DEF node
      <3>3. CASE ~(IsSep(text, at + 7, ",") /\ IsNumeral(text, at + 8, MaxPane))
        BY <3>1, <3>3
      <3> QED
        BY <3>2, <3>3
    <2> QED
      BY <2>1, <2>2
  <1> QED
    BY <1>1, <1>2

(* The separator after the first child, and the others after it.           *)
LEMMA ChildrenThere ==
    ASSUME NEW text \in Text, NEW at \in Nat, NEW close \in Closing,
           NEW cs \in Seq(Nested), cs # << >>
    PROVE  LET after == at + Len(Render(cs[1])) IN
           /\ cs[1] \in Nested /\ Len(Render(cs[1])) \in Nat /\ Len(Written(cs)) \in Nat
           /\ Tail(cs) = << >> =>
                /\ Stands(text, at, Written(cs) \o << Sep(close) >>)
                     <=> Stands(text, at, Render(cs[1])) /\ IsSep(text, after, close)
                /\ at + Len(Written(cs)) + 1 = after + 1
           /\ Tail(cs) # << >> =>
                /\ Stands(text, at, Written(cs) \o << Sep(close) >>)
                     <=> /\ Stands(text, at, Render(cs[1]))
                         /\ IsSep(text, after, ",")
                         /\ Stands(text, after + 1, Written(Tail(cs)) \o << Sep(close) >>)
                /\ at + Len(Written(cs)) + 1 = (after + 1) + Len(Written(Tail(cs))) + 1
  <1> DEFINE r == Render(cs[1])
             end == << Sep(close) >>
             comma == << Sep(",") >>
             ds == Tail(cs)
             after == at + Len(r)
  <1>1. cs[1] \in Nested /\ ds \in Seq(Nested) /\ (ds = << >> => cs = << cs[1] >>)
    BY FirstAndRest
  <1>2. r \in Seq(Printable) /\ end \in Seq(Printable) /\ comma \in Seq(Printable)
        /\ Len(end) = 1 /\ Len(comma) = 1
    <2>1. Sep(close) \in Printable /\ Sep(",") \in Printable
      BY Seps DEF Closing
    <2> QED
      BY <1>1, <2>1, RenderType, OneToken
  <1>3. r \in Text /\ end \in Text /\ comma \in Text
    BY <1>2, PrintableIsText
  <1>4. Written(cs) \in Seq(Printable) /\ Len(Written(cs)) \in Nat
    BY WrittenType, LenProperties
  <1>5. PICK m \in Nat : m = Len(r)
    BY <1>2, LenProperties
  <1>a. \A s \in Seq(Printable), u \in Seq(Printable), v \in Seq(Printable) :
          (s \o u) \o v = s \o (u \o v)
    BY Associate
  <1>e. \A place \in Nat : Stands(text, place, end) <=> IsSep(text, place, close)
    <2>1. close \in DOMAIN AsciiOf
      BY Keys, Zenon
    <2> QED
      BY <2>1, StandsSep, Zenon
  <1>c. \A place \in Nat : Stands(text, place, comma) <=> IsSep(text, place, ",")
    BY Keys, StandsSep, Zenon
  <1>6. after \in Nat /\ after = at + m
    <2>1. \A k \in Nat : at + k \in Nat
      OBVIOUS
    <2> QED
      BY <1>5, <2>1, Zenon
  <1> HIDE DEF after
  <1>7. ASSUME ds = << >>
        PROVE  /\ Stands(text, at, Written(cs) \o end) <=> Stands(text, at, r) /\ IsSep(text, after, close)
               /\ at + Len(Written(cs)) + 1 = after + 1
    <2>1. Written(cs) = r
      BY <1>1, <1>7, WrittenOne
    <2> HIDE DEF r, end
    <2>2. Stands(text, at, r \o end) <=> Stands(text, at, r) /\ Stands(text, at + Len(r), end)
      BY <1>3, StandsConcat
    <2>3. at + Len(r) = after
      BY <1>5, <1>6
    <2> QED
      BY <1>e, <1>6, <2>1, <2>2, <2>3
  <1>8. ASSUME ds # << >>
        PROVE  /\ Stands(text, at, Written(cs) \o end)
                    <=> /\ Stands(text, at, r)
                        /\ IsSep(text, after, ",")
                        /\ Stands(text, after + 1, Written(ds) \o end)
               /\ at + Len(Written(cs)) + 1 = (after + 1) + Len(Written(ds)) + 1
    <2> DEFINE w == Written(ds)
    <2>1. Written(cs) = (r \o comma) \o w
      BY <1>8, WrittenMore
    <2>2. w \in Seq(Printable)
      BY <1>1, <1>8, WrittenType
    <2> HIDE DEF r, end, comma, w, ds
    <2>3. PICK n \in Nat : n = Len(w)
      BY <2>2, LenProperties
    <2>4. r \o comma \in Seq(Printable) /\ Len(r \o comma) = Len(r) + Len(comma)
      BY <1>2, ConcatParts
    <2>5. w \o end \in Seq(Printable)
      BY <1>2, <2>2, ConcatParts
    <2>6. Len((r \o comma) \o w) = Len(r \o comma) + Len(w)
      BY <2>2, <2>4, ConcatParts
    <2>7. Len(r \o comma) = m + 1 /\ Len((r \o comma) \o w) = (m + 1) + n
      BY <1>2, <1>5, <2>3, <2>4, <2>6, Zenon
    <2>8. ((r \o comma) \o w) \o end = (r \o comma) \o (w \o end)
      <3>1. \A s \in Seq(Printable), u \in Seq(Printable), v \in Seq(Printable) :
              (s \o u) \o v = s \o (u \o v)
        BY <1>a
      <3>2. r \o comma \in Seq(Printable) /\ w \in Seq(Printable) /\ end \in Seq(Printable)
        BY <1>2, <2>2, <2>4
      <3> QED
        BY <3>1, <3>2, Zenon
    <2>9. r \o comma \in Text /\ w \o end \in Text
      BY <2>4, <2>5, PrintableIsText
    <2>10. Stands(text, at, (r \o comma) \o (w \o end))
             <=> Stands(text, at, r \o comma) /\ Stands(text, at + Len(r \o comma), w \o end)
      BY <2>9, StandsConcat
    <2>11. Stands(text, at, r \o comma) <=> Stands(text, at, r) /\ Stands(text, at + Len(r), comma)
      BY <1>3, StandsConcat
    <2>12. at + Len(r) = after /\ at + Len(r \o comma) = after + 1
      <3>1. at + (m + 1) = after + 1
        BY <1>5, <1>6
      <3> QED
        BY <1>5, <1>6, <2>7, <3>1, Zenon
    <2>13. Stands(text, after, comma) <=> IsSep(text, after, ",")
      BY <1>c, <1>6
    <2>14. at + ((m + 1) + n) + 1 = (after + 1) + n + 1
      BY <1>5, <1>6, <2>3
    <2>15. at + Len(Written(cs)) + 1 = (after + 1) + Len(w) + 1
      BY <2>1, <2>3, <2>7, <2>14, Zenon
    <2>16. Stands(text, at, Written(cs) \o end)
                    <=> /\ Stands(text, at, r)
                        /\ IsSep(text, after, ",")
                        /\ Stands(text, after + 1, w \o end)
      BY <2>1, <2>8, <2>10, <2>11, <2>12, <2>13, Zenon
    <2> QED
      BY <2>15, <2>16 DEF w
  <1> QED
    BY <1>1, <1>4, <1>5, <1>7, <1>8 DEF r, end, ds, after

(* What a turn of parse_children does, by what follows the child.          *)
LEMMA ChildFails ==
    ASSUME NEW text, NEW more, NEW at, NEW close, NEW depth,
           ParseNode(more, text, at, depth) = Error
    PROVE  ParseChild(more, text, at, close, depth) = Error
  BY Outcomes DEF ParseChild

LEMMA ChildIsLast ==
    ASSUME NEW text, NEW more, NEW at, NEW close \in Closing, NEW depth, NEW c, NEW rest,
           ParseNode(more, text, at, depth) = Parsed(c, rest), IsSep(text, rest, close)
    PROVE  ParseChild(more, text, at, close, depth) = Parsed(<< c >>, rest + 1)
  <1>1. close # ","
    BY DEF Closing
  <1>2. ~IsSep(text, rest, ",")
    <2>1. close \in DOMAIN AsciiOf
      BY Keys, Zenon
    <2> QED
      BY <1>1, <2>1, Keys, OneSep, Zenon
  <1>3. Parsed(c, rest).ok /\ Parsed(c, rest).value = c /\ Parsed(c, rest).rest = rest
    BY Outcomes
  <1> QED
    BY <1>2, <1>3 DEF ParseChild

LEMMA ChildIsNotLast ==
    ASSUME NEW text, NEW more, NEW at, NEW close \in Closing, NEW depth, NEW c, NEW rest,
           ParseNode(more, text, at, depth) = Parsed(c, rest), IsSep(text, rest, ",")
    PROVE  LET others == more[<<rest + 1, close, depth>>] IN
           ParseChild(more, text, at, close, depth)
             = IF others.ok THEN Parsed(<< c >> \o others.value, others.rest) ELSE Error
  <1>1. close # ","
    BY DEF Closing
  <1>2. ~IsSep(text, rest, close)
    <2>1. close \in DOMAIN AsciiOf
      BY Keys, Zenon
    <2> QED
      BY <1>1, <2>1, Keys, OneSep, Zenon
  <1>3. Parsed(c, rest).ok /\ Parsed(c, rest).value = c /\ Parsed(c, rest).rest = rest
    BY Outcomes
  <1> QED
    BY <1>2, <1>3 DEF ParseChild

LEMMA ChildAlone ==
    ASSUME NEW text, NEW more, NEW at, NEW close \in Closing, NEW depth, NEW c, NEW rest,
           ParseNode(more, text, at, depth) = Parsed(c, rest),
           ~IsSep(text, rest, close), ~IsSep(text, rest, ",")
    PROVE  ParseChild(more, text, at, close, depth) = Error
  <1>1. Parsed(c, rest).ok /\ Parsed(c, rest).value = c /\ Parsed(c, rest).rest = rest
    BY Outcomes
  <1> QED
    BY <1>1 DEF ParseChild

LEMMA ChildSound ==
    ASSUME NEW text \in Text, NEW more, Sound(more, text),
           NEW at \in Nat, at # 0, NEW close \in Closing, NEW depth \in Nat
    PROVE  \/ ParseChild(more, text, at, close, depth) = Error
           \/ \E cs, rest : /\ ChildrenRead(text, at, close, depth, cs, rest)
                            /\ ParseChild(more, text, at, close, depth) = Parsed(cs, rest)
  <1> DEFINE turn == ParseChild(more, text, at, close, depth)
             Read(cs, rest) == ChildrenRead(text, at, close, depth, cs, rest) /\ turn = Parsed(cs, rest)
  <1>1. \/ ParseNode(more, text, at, depth) = Error
        \/ \E tree, rest : /\ NodeRead(text, at, depth, tree, rest)
                           /\ ParseNode(more, text, at, depth) = Parsed(tree, rest)
    BY NodeSound
  <1>2. CASE ParseNode(more, text, at, depth) = Error
    BY <1>2, ChildFails
  <1>3. ASSUME NEW c, NEW rest, NodeRead(text, at, depth, c, rest),
               ParseNode(more, text, at, depth) = Parsed(c, rest)
        PROVE  turn = Error \/ \E cs, place : Read(cs, place)
    <2>1. Fits(c, depth) /\ Stands(text, at, Render(c)) /\ rest = at + Len(Render(c))
      BY <1>3 DEF NodeRead
    <2>2. c \in Nested /\ << >> \in Seq(Nested)
      BY <2>1, FitIsNested, EmptySeq
    <2>3. Len(Render(c)) \in Nat
      BY <2>2, RenderType, LenProperties
    <2>4. rest \in Nat /\ rest + 1 \in Nat /\ rest + 1 # 0
      <3>1. \A m \in Nat : at + m \in Nat /\ (at + m) + 1 \in Nat /\ (at + m) + 1 # 0
        OBVIOUS
      <3> QED
        BY <2>1, <2>3, <3>1
    <2>5. CASE IsSep(text, rest, close)
      <3> DEFINE cs == << c >>
      <3>1. turn = Parsed(cs, rest + 1)
        BY <1>3, <2>5, ChildIsLast
      <3>2. cs \in Seq(Nested) /\ cs # << >> /\ cs[1] = c /\ Tail(cs) = << >>
        BY <2>2, OneBefore
      <3> HIDE DEF cs
      <3>3. AllFit(cs, depth)
        BY <2>1, <3>2, AllFitParts
      <3>4. /\ Stands(text, at, Written(cs) \o << Sep(close) >>)
                 <=> Stands(text, at, Render(cs[1])) /\ IsSep(text, at + Len(Render(cs[1])), close)
            /\ at + Len(Written(cs)) + 1 = (at + Len(Render(cs[1]))) + 1
        BY <3>2, ChildrenThere
      <3>5. ChildrenRead(text, at, close, depth, cs, rest + 1)
        BY <2>1, <2>5, <3>2, <3>3, <3>4, Zenon DEF ChildrenRead
      <3> HIDE DEF turn
      <3> QED
        BY <3>1, <3>5
    <2>6. CASE IsSep(text, rest, ",")
      <3> DEFINE others == more[<<rest + 1, close, depth>>]
      <3>1. \/ others = Error
            \/ \E ds, place : /\ ChildrenRead(text, rest + 1, close, depth, ds, place)
                              /\ others = Parsed(ds, place)
        BY <2>4 DEF Sound
      <3>a. turn = IF others.ok THEN Parsed(<< c >> \o others.value, others.rest) ELSE Error
        BY <1>3, <2>6, ChildIsNotLast
      <3> HIDE DEF others, turn
      <3>b. others = Error => turn = Error
        BY <3>a, Outcomes
      <3>c. ASSUME NEW ds, NEW place, others = Parsed(ds, place)
            PROVE  turn = Parsed(<< c >> \o ds, place)
        <4>1. others.ok /\ others.value = ds /\ others.rest = place
          BY <3>c, Outcomes
        <4> QED
          BY <3>a, <4>1
      <3>2. /\ others = Error => turn = Error
            /\ \A ds, place : others = Parsed(ds, place) => turn = Parsed(<< c >> \o ds, place)
        BY <3>b, <3>c
      <3>3. ASSUME NEW ds, NEW place, ChildrenRead(text, rest + 1, close, depth, ds, place),
                   others = Parsed(ds, place)
            PROVE  \E cs, l : Read(cs, l)
        <4> DEFINE cs == << c >> \o ds
        <4>1. turn = Parsed(cs, place)
          BY <3>2, <3>3
        <4>2. /\ AllFit(ds, depth)
              /\ Stands(text, rest + 1, Written(ds) \o << Sep(close) >>)
              /\ place = (rest + 1) + Len(Written(ds)) + 1
          BY <3>3 DEF ChildrenRead
        <4>3. ds \in Seq(Nested) /\ ds # << >>
          BY <4>2, FitIsNested
        <4>4. cs \in Seq(Nested) /\ cs # << >> /\ cs[1] = c /\ Tail(cs) = ds
          BY <2>2, <4>3, OneBefore
        <4> HIDE DEF cs
        <4>5. AllFit(cs, depth)
          BY <2>1, <4>2, <4>4, AllFitParts
        <4>6. Tail(cs) # << >> =>
                LET after == at + Len(Render(cs[1])) IN
                /\ Stands(text, at, Written(cs) \o << Sep(close) >>)
                     <=> /\ Stands(text, at, Render(cs[1]))
                         /\ IsSep(text, after, ",")
                         /\ Stands(text, after + 1, Written(Tail(cs)) \o << Sep(close) >>)
                /\ at + Len(Written(cs)) + 1 = (after + 1) + Len(Written(Tail(cs))) + 1
          BY <4>4, ChildrenThere
        <4>7. ChildrenRead(text, at, close, depth, cs, place)
          BY <2>1, <2>6, <4>2, <4>3, <4>4, <4>5, <4>6, Zenon DEF ChildrenRead
        <4> QED
          BY <4>1, <4>7
      <3> HIDE DEF Read
      <3> QED
        BY <3>1, <3>2, <3>3
    <2>7. CASE ~IsSep(text, rest, close) /\ ~IsSep(text, rest, ",")
      BY <1>3, <2>7, ChildAlone
    <2> QED
      BY <2>5, <2>6, <2>7
  <1> HIDE DEF turn
  <1> QED
    BY <1>1, <1>2, <1>3 DEF turn

(* So all that parse_children accepts are renderings of children. *)
LEMMA AllTurnsSound ==
    ASSUME NEW text \in Text
    PROVE  Sound(ParseChildren(text), text)
  <1>0. PICK p : ParsesBy(p, text)
    BY ParseAt
  <1>1. /\ ParseChildren(text) = p[Len(text)]
        /\ \A at \in Nat, close \in Closing, depth \in Nat : p[0][<<at, close, depth>>] = Error
        /\ \A n \in Nat, at \in Nat, close \in Closing, depth \in Nat :
             p[n + 1][<<at, close, depth>>] = ParseChild(p[n], text, at, close, depth)
    BY <1>0 DEF ParsesBy
  <1> DEFINE T == {n \in Nat : Sound(p[n], text)}
  <1>2. 0 \in T
    <2>1. Sound(p[0], text)
      BY <1>1 DEF Sound
    <2> QED
      BY <2>1
  <1>3. ASSUME NEW n \in T PROVE n + 1 \in T
    <2>1. n \in Nat /\ n + 1 \in Nat /\ Sound(p[n], text)
      OBVIOUS
    <2>2. ASSUME NEW at \in Nat, at # 0, NEW close \in Closing, NEW depth \in Nat
          PROVE  \/ p[n + 1][<<at, close, depth>>] = Error
                 \/ \E cs, rest : /\ ChildrenRead(text, at, close, depth, cs, rest)
                                  /\ p[n + 1][<<at, close, depth>>] = Parsed(cs, rest)
      <3>1. p[n + 1][<<at, close, depth>>] = ParseChild(p[n], text, at, close, depth)
        BY <1>1, <2>1
      <3>2. \/ ParseChild(p[n], text, at, close, depth) = Error
            \/ \E cs, rest : /\ ChildrenRead(text, at, close, depth, cs, rest)
                             /\ ParseChild(p[n], text, at, close, depth) = Parsed(cs, rest)
        BY <2>1, <2>2, ChildSound
      <3> QED
        BY <3>1, <3>2
    <2>3. Sound(p[n + 1], text)
      BY <2>2 DEF Sound
    <2> QED
      BY <2>1, <2>3
  <1>4. T \in SUBSET Nat
    OBVIOUS
  <1>5. Len(text) \in Nat
    BY LenProperties DEF Text
  <1> HIDE DEF T
  <1>6. Len(text) \in T
    BY <1>2, <1>3, <1>4, <1>5, CountingUp
  <1> QED
    BY <1>1, <1>6 DEF T

----------------------------------------------------------------------------
(* Completeness: parse_node and parse_children read every rendering they   *)
(* have room for, within as many turns as tokens are left.                 *)
Enough(text, at, turns) == Len(text) + 1 <= at + turns

Reads(more, text, at, close, depth, cs) ==
    more[<<at, close, depth>>]
      = IF AllFit(cs, depth) THEN Parsed(cs, at + Len(Written(cs)) + 1) ELSE Error

Due(text, at, close, cs, turns) ==
    /\ at # 0 /\ cs # << >> /\ Enough(text, at, turns)
    /\ Stands(text, at, Written(cs) \o << Sep(close) >>)

Complete(more, text, turns) ==
    \A at \in Nat, close \in Closing, depth \in Nat, cs \in Seq(Nested) :
      Due(text, at, close, cs, turns) => Reads(more, text, at, close, depth, cs)

LEMMA NodeComplete ==
    ASSUME NEW text \in Text, NEW turns \in Nat, NEW more, Complete(more, text, turns),
           NEW at \in Nat, at # 0, NEW depth \in Nat, Enough(text, at + 8, turns),
           NEW tree \in Nested, Stands(text, at, Render(tree))
    PROVE  ParseNode(more, text, at, depth)
             = IF Fits(tree, depth) THEN Parsed(tree, at + Len(Render(tree))) ELSE Error
  <1> DEFINE node == ParseNode(more, text, at, depth)
             cell == tree.cell
  <1>0. at + 8 \in Nat /\ at + 8 # 0 /\ depth + 1 \in Nat /\ MaxDepth \in Nat
    BY LayoutAssumption
  <1>1. CASE depth > MaxDepth
    <2>1. node = Error
      BY <1>1, NodeFails
    <2>2. ~Fits(tree, depth)
      BY <1>0, <1>1 DEF Fits
    <2> QED
      BY <2>1, <2>2
  <1>2. CASE ~(depth > MaxDepth) /\ tree.t = "leaf"
    <2> DEFINE pane == tree.pane
    <2>1. cell \in Cell /\ pane \in 0 .. MaxPane /\ tree = Leaf(cell, pane)
      BY <1>2, RenderLeaf
    <2> HIDE DEF cell, pane
    <2>2. /\ Stands(text, at, CellText(cell))
          /\ IsSep(text, at + 7, ",")
          /\ IsNumeral(text, at + 8, MaxPane) /\ Number(text[at + 8]) = pane
          /\ Len(Render(tree)) = 9
      <3>1. /\ Stands(text, at, Render(Leaf(cell, pane))) <=>
                 /\ Stands(text, at, CellText(cell))
                 /\ IsSep(text, at + 7, ",")
                 /\ IsNumeral(text, at + 8, MaxPane) /\ Number(text[at + 8]) = pane
            /\ Len(Render(Leaf(cell, pane))) = 9
        BY <2>1, LeafThere
      <3>2. Stands(text, at, Render(Leaf(cell, pane)))
        BY <2>1
      <3> QED
        BY <2>1, <3>1, <3>2
    <2>3. IsCell(text, at) /\ CellOf(text, at) = cell
      BY <2>1, <2>2, CellThere
    <2>4. \A t \in {"h", "v"} : ~IsSep(text, at + 7, Brackets(t)[1])
      <3>1. \A t \in {"h", "v"} : Brackets(t)[1] # ","
        BY DEF Brackets
      <3>2. ASSUME NEW t \in {"h", "v"}, IsSep(text, at + 7, Brackets(t)[1]) PROVE FALSE
        <4>1. Brackets(t)[1] \in DOMAIN AsciiOf /\ "," \in DOMAIN AsciiOf
          BY BracketSeps, Keys, Zenon
        <4>2. Brackets(t)[1] = ","
          BY <2>2, <3>2, <4>1, OneSep, Zenon
        <4> QED
          BY <3>1, <4>2, Zenon
      <3> QED
        BY <3>2, Zenon
    <2>5. node = Parsed(Leaf(CellOf(text, at), Number(text[at + 8])), at + 9)
      <3>1. node = IF IsSep(text, at + 7, ",") /\ IsNumeral(text, at + 8, MaxPane)
                   THEN Parsed(Leaf(CellOf(text, at), Number(text[at + 8])), at + 9) ELSE Error
        BY <1>2, <2>3, <2>4, NodeLeaf
      <3> HIDE DEF node
      <3> QED
        BY <2>2, <3>1
    <2>6. Fits(tree, depth)
      <3>1. depth <= MaxDepth
        BY <1>0, <1>2
      <3> QED
        BY <2>1, <3>1, FitsLeaf
    <2> HIDE DEF node
    <2>7. node = Parsed(tree, at + Len(Render(tree)))
      BY <2>1, <2>2, <2>3, <2>5, Zenon
    <2> QED
      BY <2>6, <2>7 DEF node
  <1>3. CASE ~(depth > MaxDepth) /\ tree.t # "leaf"
    <2> DEFINE cs == tree.children
               way == tree.t
               below == more[<<at + 8, Brackets(way)[2], depth + 1>>]
    <2>1. /\ way \in {"h", "v"} /\ cell \in Cell /\ cs \in Seq(Nested) /\ cs # << >>
          /\ tree = Split(way, cell, cs)
      BY <1>3, RenderSplit
    <2>2. Brackets(way)[2] \in Closing
      BY <2>1, BracketSeps
    <2> HIDE DEF cell, cs, way
    <2>3. /\ Stands(text, at, CellText(cell))
          /\ IsSep(text, at + 7, Brackets(way)[1])
          /\ Stands(text, at + 8, Written(cs) \o << Sep(Brackets(way)[2]) >>)
          /\ Len(Written(cs)) \in Nat
          /\ Len(Render(tree)) = 9 + Len(Written(cs))
      <3>1. Split(way, cell, cs) \in Nested /\ Stands(text, at, Render(Split(way, cell, cs)))
        BY <2>1
      <3>2. /\ Stands(text, at, Render(Split(way, cell, cs))) <=>
                 /\ Stands(text, at, CellText(cell))
                 /\ IsSep(text, at + 7, Brackets(way)[1])
                 /\ Stands(text, at + 8, Written(cs) \o << Sep(Brackets(way)[2]) >>)
            /\ Len(Written(cs)) \in Nat
            /\ Len(Render(Split(way, cell, cs))) = 9 + Len(Written(cs))
        BY <2>1, <3>1, SplitThere
      <3> QED
        BY <2>1, <3>1, <3>2
    <2>4. IsCell(text, at) /\ CellOf(text, at) = cell
      BY <2>1, <2>3, CellThere
    <2>5. node = SplitOf(way, cell, below)
      <3>1. SplitAt(text, at, depth, way)
        BY <1>3, <2>1, <2>3, <2>4 DEF SplitAt
      <3>2. ASSUME NEW t \in {"h", "v"}, SplitAt(text, at, depth, t)
            PROVE  ParseNode(more, text, at, depth)
                     = SplitOf(t, CellOf(text, at), more[<<at + 8, Brackets(t)[2], depth + 1>>])
        BY <3>2, NodeSplits
      <3>3. node = SplitOf(way, CellOf(text, at), below)
        BY <2>1, <3>1, <3>2, Zenon
      <3> HIDE DEF node, below
      <3> QED
        BY <2>4, <3>3
    <2>6. Reads(more, text, at + 8, Brackets(way)[2], depth + 1, cs)
      BY <1>0, <2>1, <2>2, <2>3 DEF Complete, Due
    <2>7. below = IF AllFit(cs, depth + 1) THEN Parsed(cs, (at + 8) + Len(Written(cs)) + 1) ELSE Error
      BY <2>6 DEF Reads
    <2>8. Fits(tree, depth) <=> AllFit(cs, depth + 1)
      <3>1. depth <= MaxDepth
        BY <1>0, <1>3
      <3>2. Fits(Split(way, cell, cs), depth) <=> AllFit(cs, depth + 1)
        BY <2>1, <3>1, FitsSplit
      <3> QED
        BY <2>1, <3>2
    <2>9. (at + 8) + Len(Written(cs)) + 1 = at + Len(Render(tree))
      <3>1. \A m \in Nat : (at + 8) + m + 1 = at + (9 + m)
        OBVIOUS
      <3> QED
        BY <2>3, <3>1, Zenon
    <2> HIDE DEF node, below
    <2>10. CASE Fits(tree, depth)
      <3>1. below = Parsed(cs, at + Len(Render(tree)))
        BY <2>7, <2>8, <2>9, <2>10, Zenon
      <3>2. SplitOf(way, cell, Parsed(cs, at + Len(Render(tree))))
              = Parsed(Split(way, cell, cs), at + Len(Render(tree)))
        BY SplitOutcome
      <3>3. node = Parsed(tree, at + Len(Render(tree)))
        BY <2>1, <2>5, <3>1, <3>2, Zenon
      <3> QED
        BY <2>10, <3>3 DEF node
    <2>11. CASE ~Fits(tree, depth)
      <3>1. below = Error
        BY <2>7, <2>8, <2>11, Zenon
      <3>2. SplitOf(way, cell, Error) = Error
        BY SplitOutcome
      <3>3. node = Error
        BY <2>5, <3>1, <3>2, Zenon
      <3> QED
        BY <2>11, <3>3 DEF node
    <2> QED
      BY <2>10, <2>11
  <1> QED
    BY <1>1, <1>2, <1>3

LEMMA ChildComplete ==
    ASSUME NEW text \in Text, NEW turns \in Nat, NEW more, Complete(more, text, turns),
           NEW at \in Nat, at # 0, NEW close \in Closing, NEW depth \in Nat,
           Enough(text, at, turns + 1),
           NEW cs \in Seq(Nested), cs # << >>, Stands(text, at, Written(cs) \o << Sep(close) >>)
    PROVE  ParseChild(more, text, at, close, depth)
             = IF AllFit(cs, depth) THEN Parsed(cs, at + Len(Written(cs)) + 1) ELSE Error
  <1> DEFINE turn == ParseChild(more, text, at, close, depth)
             c == cs[1]
             ds == Tail(cs)
             after == at + Len(Render(c))
  <1>1. /\ c \in Nested /\ Len(Render(c)) \in Nat /\ Len(Written(cs)) \in Nat
        /\ ds = << >> =>
             /\ Stands(text, at, Written(cs) \o << Sep(close) >>)
                  <=> Stands(text, at, Render(c)) /\ IsSep(text, after, close)
             /\ at + Len(Written(cs)) + 1 = after + 1
        /\ ds # << >> =>
             /\ Stands(text, at, Written(cs) \o << Sep(close) >>)
                  <=> /\ Stands(text, at, Render(c))
                      /\ IsSep(text, after, ",")
                      /\ Stands(text, after + 1, Written(ds) \o << Sep(close) >>)
             /\ at + Len(Written(cs)) + 1 = (after + 1) + Len(Written(ds)) + 1
    BY ChildrenThere
  <1>2. AllFit(cs, depth) <=> Fits(c, depth) /\ (ds = << >> \/ AllFit(ds, depth))
    BY AllFitParts
  <1>3. cs = << c >> \o ds /\ (ds = << >> => cs = << c >>) /\ ds \in Seq(Nested)
    BY FirstAndRest
  <1>4. Enough(text, at + 8, turns)
    <2>1. \A l \in Nat : l + 1 <= at + (turns + 1) => l + 1 <= (at + 8) + turns
      OBVIOUS
    <2>2. Len(text) \in Nat
      BY LenProperties DEF Text
    <2> QED
      BY <2>1, <2>2 DEF Enough
  <1>5. Stands(text, at, Render(c))
    BY <1>1
  <1>6. ParseNode(more, text, at, depth) = IF Fits(c, depth) THEN Parsed(c, after) ELSE Error
    BY <1>1, <1>4, <1>5, NodeComplete
  <1>7. after \in Nat /\ after + 1 \in Nat /\ after + 1 # 0
    <2>1. \A m \in Nat : at + m \in Nat /\ (at + m) + 1 \in Nat /\ (at + m) + 1 # 0
      OBVIOUS
    <2> QED
      BY <1>1, <2>1, Zenon
  <1>e. Enough(text, after + 1, turns)
    <2>1. \A l, m \in Nat : l + 1 <= at + (turns + 1) => l + 1 <= ((at + m) + 1) + turns
      OBVIOUS
    <2>2. Len(text) \in Nat
      BY LenProperties DEF Text
    <2>3. Len(text) + 1 <= at + (turns + 1)
      BY DEF Enough
    <2>4. Len(text) + 1 <= (after + 1) + turns
      BY <1>1, <2>1, <2>2, <2>3, Zenon
    <2> QED
      BY <2>4 DEF Enough
  <1> HIDE DEF after, c, ds
  <1>8. CASE ~Fits(c, depth)
    <2>1. turn = Error
      BY <1>6, <1>8, ChildFails
    <2> HIDE DEF turn
    <2>2. turn = IF AllFit(cs, depth) THEN Parsed(cs, at + Len(Written(cs)) + 1) ELSE Error
      BY <1>2, <1>8, <2>1, Zenon
    <2> QED
      BY <2>2 DEF turn
  <1>9. CASE Fits(c, depth) /\ ds = << >>
    <2>1. ParseNode(more, text, at, depth) = Parsed(c, after) /\ IsSep(text, after, close)
      BY <1>1, <1>6, <1>9, Zenon
    <2>2. turn = Parsed(<< c >>, after + 1)
      BY <2>1, ChildIsLast
    <2> HIDE DEF turn
    <2>3. turn = IF AllFit(cs, depth) THEN Parsed(cs, at + Len(Written(cs)) + 1) ELSE Error
      BY <1>1, <1>2, <1>3, <1>9, <2>2, Zenon
    <2> QED
      BY <2>3 DEF turn
  <1>10. CASE Fits(c, depth) /\ ds # << >>
    <2> DEFINE others == more[<<after + 1, close, depth>>]
               rest == (after + 1) + Len(Written(ds)) + 1
    <2>1. /\ ParseNode(more, text, at, depth) = Parsed(c, after) /\ IsSep(text, after, ",")
          /\ Stands(text, after + 1, Written(ds) \o << Sep(close) >>)
          /\ at + Len(Written(cs)) + 1 = rest
      BY <1>1, <1>6, <1>10, Zenon
    <2>2. turn = IF others.ok THEN Parsed(<< c >> \o others.value, others.rest) ELSE Error
      BY <2>1, ChildIsNotLast
    <2>3. Reads(more, text, after + 1, close, depth, ds)
      BY <1>3, <1>7, <1>e, <1>10, <2>1, Zenon DEF Complete, Due
    <2>4. others = IF AllFit(ds, depth) THEN Parsed(ds, rest) ELSE Error
      BY <2>3 DEF Reads
    <2> HIDE DEF turn, others, rest
    <2>5. CASE AllFit(ds, depth)
      <3>1. others = Parsed(ds, rest)
        BY <2>4, <2>5
      <3>2. others.ok /\ others.value = ds /\ others.rest = rest
        BY <3>1, Outcomes
      <3>3. turn = Parsed(cs, rest)
        BY <1>3, <2>2, <3>2, Zenon
      <3>4. turn = IF AllFit(cs, depth) THEN Parsed(cs, at + Len(Written(cs)) + 1) ELSE Error
        BY <1>2, <1>10, <2>1, <2>5, <3>3, Zenon
      <3> QED
        BY <3>4 DEF turn
    <2>6. CASE ~AllFit(ds, depth)
      <3>1. others = Error
        BY <2>4, <2>6
      <3>2. turn = Error
        BY <2>2, <3>1, Outcomes
      <3>3. turn = IF AllFit(cs, depth) THEN Parsed(cs, at + Len(Written(cs)) + 1) ELSE Error
        BY <1>2, <1>10, <2>6, <3>2, Zenon
      <3> QED
        BY <3>3 DEF turn
    <2> QED
      BY <2>5, <2>6
  <1> QED
    BY <1>8, <1>9, <1>10

LEMMA AllTurnsComplete ==
    ASSUME NEW text \in Text
    PROVE  Complete(ParseChildren(text), text, Len(text))
  <1>0. PICK p : ParsesBy(p, text)
    BY ParseAt
  <1>1. /\ ParseChildren(text) = p[Len(text)]
        /\ \A n \in Nat, at \in Nat, close \in Closing, depth \in Nat :
             p[n + 1][<<at, close, depth>>] = ParseChild(p[n], text, at, close, depth)
    BY <1>0 DEF ParsesBy
  <1> DEFINE T == {n \in Nat : Complete(p[n], text, n)}
  <1>2. 0 \in T
    <2>1. ASSUME NEW at \in Nat, NEW close \in Closing, NEW cs \in Seq(Nested), cs # << >>,
                 Enough(text, at, 0), Stands(text, at, Written(cs) \o << Sep(close) >>)
          PROVE  FALSE
      <3>1. PICK m \in Nat : m = Len(Written(cs))
        BY <2>1, WrittenType, LenProperties
      <3>2. Written(cs) \in Seq(Printable) /\ << Sep(close) >> \in Seq(Printable) /\ Len(<< Sep(close) >>) = 1
        <4>1. Sep(close) \in Printable
          BY Seps DEF Closing
        <4> QED
          BY <2>1, <4>1, WrittenType, OneToken
      <3>3. Len(Written(cs) \o << Sep(close) >>) = m + 1
        <4>1. Len(Written(cs) \o << Sep(close) >>) = Len(Written(cs)) + Len(<< Sep(close) >>)
          BY <3>2, ConcatParts
        <4> QED
          BY <3>1, <3>2, <4>1, Zenon
      <3>4. Len(text) + 1 <= at + 0 /\ at + (m + 1) <= Len(text) + 1
        BY <2>1, <3>3, Zenon DEF Enough, Stands
      <3>5. \A l \in Nat : ~(l + 1 <= at + 0 /\ at + (m + 1) <= l + 1)
        BY <3>1
      <3>6. Len(text) \in Nat
        BY LenProperties DEF Text
      <3> QED
        BY <3>4, <3>5, <3>6, Zenon
    <2>2. ASSUME NEW at \in Nat, NEW close \in Closing, NEW depth \in Nat, NEW cs \in Seq(Nested),
                 Due(text, at, close, cs, 0)
          PROVE  Reads(p[0], text, at, close, depth, cs)
      <3>1. FALSE
        BY <2>1, <2>2 DEF Due
      <3> QED
        BY <3>1
    <2>3. Complete(p[0], text, 0)
      BY <2>2 DEF Complete
    <2> QED
      BY <2>3
  <1>3. ASSUME NEW n \in T PROVE n + 1 \in T
    <2>1. n \in Nat /\ n + 1 \in Nat /\ Complete(p[n], text, n)
      OBVIOUS
    <2>2. ASSUME NEW at \in Nat, NEW close \in Closing, NEW depth \in Nat, NEW cs \in Seq(Nested),
                 Due(text, at, close, cs, n + 1)
          PROVE  Reads(p[n + 1], text, at, close, depth, cs)
      <3>1. p[n + 1][<<at, close, depth>>] = ParseChild(p[n], text, at, close, depth)
        BY <1>1, <2>1
      <3>2. /\ at # 0 /\ cs # << >> /\ Enough(text, at, n + 1)
            /\ Stands(text, at, Written(cs) \o << Sep(close) >>)
        BY <2>2 DEF Due
      <3>3. ParseChild(p[n], text, at, close, depth)
              = IF AllFit(cs, depth) THEN Parsed(cs, at + Len(Written(cs)) + 1) ELSE Error
        BY <2>1, <3>2, ChildComplete
      <3> QED
        BY <3>1, <3>3, Zenon DEF Reads
    <2>3. Complete(p[n + 1], text, n + 1)
      BY <2>2 DEF Complete
    <2> QED
      BY <2>1, <2>3
  <1>4. T \in SUBSET Nat
    OBVIOUS
  <1>5. Len(text) \in Nat
    BY LenProperties DEF Text
  <1> HIDE DEF T
  <1>6. Len(text) \in T
    BY <1>2, <1>3, <1>4, <1>5, CountingUp
  <1> QED
    BY <1>1, <1>6 DEF T

----------------------------------------------------------------------------
(* The rotation, and the addition, without \div and %. *)
Rotated(c) == c \div 2 + (c % 2) * 32768
Wrapped(v) == IF v < 65536 THEN v ELSE v - 65536

LEMMA RotatedIsOneToOne ==
    ASSUME NEW c \in U16, NEW d \in U16
    PROVE  /\ Rotated(c) \in U16
           /\ Rotated(c) = Rotated(d) => c = d
  <1>1. ASSUME NEW x \in U16
        PROVE  /\ x \div 2 \in Nat /\ x \div 2 < 32768
               /\ x % 2 \in Nat /\ x % 2 < 2
               /\ x = 2 * (x \div 2) + (x % 2)
    BY DEF U16
  <1> DEFINE h == c \div 2
             l == c % 2
             k == d \div 2
             m == d % 2
  <1>2. /\ h \in Nat /\ h < 32768 /\ l \in Nat /\ l < 2 /\ c = 2 * h + l
        /\ k \in Nat /\ k < 32768 /\ m \in Nat /\ m < 2 /\ d = 2 * k + m
    BY <1>1
  <1>3. Rotated(c) = h + l * 32768 /\ Rotated(d) = k + m * 32768
    BY DEF Rotated
  <1> HIDE DEF h, l, k, m
  <1>4. Rotated(c) \in U16
    BY <1>2, <1>3 DEF U16
  <1>5. ASSUME Rotated(c) = Rotated(d) PROVE c = d
    <2>1. h = k /\ l = m
      BY <1>2, <1>3, <1>5
    <2> QED
      BY <1>2, <2>1
  <1> QED
    BY <1>4, <1>5

LEMMA RotateAddWraps ==
    ASSUME NEW c \in U16, NEW b \in U8
    PROVE  RotateAdd(c, b) = Wrapped(Rotated(c) + b)
  <1>1. ASSUME NEW v \in Nat, v < 65792 PROVE v % 65536 = Wrapped(v)
    BY <1>1 DEF Wrapped
  <1>2. Rotated(c) + b \in Nat /\ Rotated(c) + b < 65792
    <2>1. Rotated(c) \in U16
      BY RotatedIsOneToOne
    <2> QED
      BY <2>1 DEF U16, U8
  <1>3. RotateAdd(c, b) = (Rotated(c) + b) % 65536
    BY DEF RotateAdd, Rotated
  <1> QED
    BY <1>1, <1>2, <1>3

LEMMA RotateAddType ==
    ASSUME NEW c \in U16, NEW b \in U8
    PROVE  RotateAdd(c, b) \in U16
  <1>1. Rotated(c) \in U16
    BY RotatedIsOneToOne
  <1> QED
    BY <1>1, RotateAddWraps DEF Wrapped, U16, U8

(* One turn of the loop loses nothing of the accumulator. *)
LEMMA KeepsDifference ==
    ASSUME NEW c \in U16, NEW d \in U16, NEW b \in U8,
           RotateAdd(c, b) = RotateAdd(d, b)
    PROVE  c = d
  <1>1. Rotated(c) \in U16 /\ Rotated(d) \in U16
    BY RotatedIsOneToOne
  <1>2. Wrapped(Rotated(c) + b) = Wrapped(Rotated(d) + b)
    BY RotateAddWraps
  <1>3. Rotated(c) = Rotated(d)
    BY <1>1, <1>2 DEF Wrapped, U16, U8
  <1> QED
    BY <1>3, RotatedIsOneToOne

(* Nor of the byte. *)
LEMMA SeesByte ==
    ASSUME NEW c \in U16, NEW a \in U8, NEW b \in U8,
           RotateAdd(c, a) = RotateAdd(c, b)
    PROVE  a = b
  <1>1. Rotated(c) \in U16
    BY RotatedIsOneToOne
  <1>2. Wrapped(Rotated(c) + a) = Wrapped(Rotated(c) + b)
    BY RotateAddWraps
  <1> QED
    BY <1>1, <1>2 DEF Wrapped, U16, U8

----------------------------------------------------------------------------
(* While the loops have not passed a difference their accumulators agree;  *)
(* once they have, they differ for good.                                   *)
LoopInv ==
    /\ dumped \in Seq(U8) /\ received \in Seq(U8)
    /\ Len(dumped) = Len(received)
    /\ \A p, q \in Differences : p = q
    /\ read \in 0 .. Len(dumped)
    /\ expected \in U16 /\ actual \in U16
    /\ expected = actual <=> \A p \in Differences : p > read

LEMMA InitLoopInv == ChecksumInit => LoopInv
  <1> SUFFICES ASSUME ChecksumInit PROVE LoopInv
    OBVIOUS
  <1>1. dumped \in Seq(U8) /\ received \in Seq(U8)
    BY LayoutsAssumption DEF ChecksumInit
  <1>2. Len(dumped) \in Nat
    BY <1>1, LenProperties
  <1> QED
    BY <1>1, <1>2 DEF ChecksumInit, LoopInv, Differences, U16

LEMMA ReadByteLoopInv ==
    ASSUME LoopInv, ReadByte
    PROVE  LoopInv'
  <1> DEFINE d == dumped[read + 1]
             r == received[read + 1]
  <1>1. /\ Len(dumped) \in Nat /\ read \in Nat /\ read + 1 \in 1 .. Len(dumped)
        /\ d \in U8 /\ r \in U8
        /\ read' = read + 1
        /\ expected' = RotateAdd(expected, d) /\ actual' = RotateAdd(actual, r)
        /\ dumped' = dumped /\ received' = received
        /\ Differences' = Differences /\ Differences \subseteq Nat
    <2>1. Len(dumped) \in Nat /\ read \in Nat /\ read + 1 \in 1 .. Len(dumped)
      BY LenProperties DEF LoopInv, ReadByte
    <2>2. d \in U8 /\ r \in U8
      BY <2>1, ElementOfSeq DEF LoopInv
    <2> QED
      BY <2>1, <2>2 DEF ReadByte, Differences
  <1>2. expected' \in U16 /\ actual' \in U16
    BY <1>1, RotateAddType DEF LoopInv
  <1>3. expected' = actual' <=> \A p \in Differences : p > read + 1
    <2>1. CASE read + 1 \in Differences
      <3>1. d # r
        BY <2>1 DEF Differences
      <3>2. \A p \in Differences : p = read + 1
        BY <2>1 DEF LoopInv
      <3>3. expected = actual
        <4>1. read \in Nat
          BY <1>1
        <4>2. \A p \in Differences : p > read
          BY <3>2, <4>1
        <4> QED
          BY <4>2, Zenon DEF LoopInv
      <3>4. expected' # actual'
        BY <1>1, <3>1, <3>3, SeesByte DEF LoopInv
      <3> QED
        BY <1>1, <2>1, <3>4
    <2>2. CASE read + 1 \notin Differences
      <3>1. d = r
        BY <1>1, <2>2 DEF Differences
      <3>2. expected' = actual' <=> expected = actual
        BY <1>1, <3>1, KeepsDifference DEF LoopInv
      <3>3. \A p \in Differences : p > read <=> p > read + 1
        BY <1>1, <2>2
      <3> QED
        BY <3>2, <3>3 DEF LoopInv
    <2> QED
      BY <2>1, <2>2
  <1> QED
    BY <1>1, <1>2, <1>3 DEF LoopInv

(* The checksum sees a single changed byte, wherever it is and however     *)
(* long the layout.                                                        *)
THEOREM OneChangeAlwaysDetected == ChecksumSpec => []OneChangeDetected
  <1>1. LoopInv /\ [ReadByte]_checksumVars => LoopInv'
    <2>1. ASSUME LoopInv, UNCHANGED checksumVars PROVE LoopInv'
      BY <2>1 DEF checksumVars, LoopInv, Differences
    <2> QED
      BY <2>1, ReadByteLoopInv
  <1>2. LoopInv => OneChangeDetected
    <2> SUFFICES ASSUME LoopInv, read = Len(dumped), dumped # received
                 PROVE  actual # expected
      BY DEF OneChangeDetected
    <2>1. PICK p \in 1 .. Len(dumped) : dumped[p] # received[p]
      BY SeqEqual DEF LoopInv
    <2>2. p \in Differences /\ ~(p > read)
      BY <2>1, LenProperties DEF Differences, LoopInv
    <2> QED
      BY <2>2 DEF LoopInv
  <1> QED
    BY <1>1, <1>2, InitLoopInv, PTL DEF ChecksumSpec

----------------------------------------------------------------------------
(* The whole string. *)
Node(text) == ParseNode(ParseChildren(text), text, 1, 0)

LEMMA BodyRead ==
    ASSUME NEW tree \in Nested
    PROVE  Node(Render(tree))
             = IF tree \in LayoutsWithin[MaxDepth] THEN Parsed(tree, Len(Render(tree)) + 1)
               ELSE Error
  <1> DEFINE text == Render(tree)
  <1>1. text \in Text /\ Len(text) \in Nat
    BY RenderType, LenProperties DEF Text
  <1>2. Stands(text, 1, Render(tree))
    BY <1>1, StandsWhole
  <1>3. Complete(ParseChildren(text), text, Len(text))
    BY <1>1, AllTurnsComplete
  <1>4. Enough(text, 1 + 8, Len(text))
    <2>1. \A l \in Nat : l + 1 <= (1 + 8) + l
      OBVIOUS
    <2> QED
      BY <1>1, <2>1 DEF Enough
  <1>5. ParseNode(ParseChildren(text), text, 1, 0)
          = IF Fits(tree, 0) THEN Parsed(tree, 1 + Len(Render(tree))) ELSE Error
    <2>1. 1 \in Nat /\ 1 # 0 /\ 0 \in Nat
      OBVIOUS
    <2> HIDE DEF text
    <2> QED
      BY <1>1, <1>2, <1>3, <1>4, <2>1, NodeComplete
  <1>6. Fits(tree, 0) <=> tree \in LayoutsWithin[MaxDepth]
    <2>1. MaxDepth \in Nat /\ 0 <= MaxDepth /\ MaxDepth - 0 = MaxDepth
      BY LayoutAssumption
    <2> QED
      BY <2>1 DEF Fits
  <1>7. 1 + Len(Render(tree)) = Len(Render(tree)) + 1
    BY <1>1
  <1> QED
    BY <1>5, <1>6, <1>7 DEF Node

LEMMA BodyIsRendering ==
    ASSUME NEW text \in Text, Node(text).ok, Node(text).rest = Len(text) + 1
    PROVE  /\ Node(text).value \in LayoutsWithin[MaxDepth]
           /\ SameText(text, Render(Node(text).value))
  <1>1. Sound(ParseChildren(text), text)
    BY AllTurnsSound
  <1>2. PICK tree, rest : /\ NodeRead(text, 1, 0, tree, rest)
                          /\ Node(text) = Parsed(tree, rest)
    <2>1. Node(text) # Error
      BY Outcomes
    <2>2. 1 \in Nat /\ 1 # 0 /\ 0 \in Nat
      OBVIOUS
    <2>3. \/ ParseNode(ParseChildren(text), text, 1, 0) = Error
          \/ \E tree, rest : /\ NodeRead(text, 1, 0, tree, rest)
                             /\ ParseNode(ParseChildren(text), text, 1, 0) = Parsed(tree, rest)
      BY <1>1, <2>2, NodeSound
    <2> QED
      BY <2>1, <2>3 DEF Node
  <1>3. Node(text).value = tree /\ Node(text).rest = rest
    BY <1>2, Outcomes
  <1>4. tree \in LayoutsWithin[MaxDepth] /\ tree \in Nested
    <2>1. MaxDepth \in Nat /\ 0 <= MaxDepth /\ MaxDepth - 0 = MaxDepth
      BY LayoutAssumption
    <2>2. Fits(tree, 0)
      BY <1>2 DEF NodeRead
    <2> QED
      BY <2>1, <2>2, FitIsNested DEF Fits
  <1>5. Render(tree) \in Text /\ Len(Render(tree)) \in Nat /\ Len(text) \in Nat
    BY <1>4, RenderType, LenProperties DEF Text
  <1>6. Stands(text, 1, Render(tree)) /\ Len(Render(tree)) = Len(text)
    <2>1. Stands(text, 1, Render(tree)) /\ 1 + Len(Render(tree)) = Len(text) + 1
      BY <1>2, <1>3 DEF NodeRead
    <2>2. \A l, m \in Nat : 1 + m = l + 1 => m = l
      OBVIOUS
    <2> QED
      BY <1>5, <2>1, <2>2, Zenon
  <1>7. SameText(text, Render(tree))
    BY <1>5, <1>6, StandsWhole
  <1> QED
    BY <1>3, <1>4, <1>7

(* A rendering starts with a width and an x, so no checksum is seen in it. *)
LEMMA NoChecksumRendered ==
    ASSUME NEW tree \in Nested
    PROVE  Len(Render(tree)) \in Nat /\ Len(Render(tree)) >= 1 /\ ~HasChecksum(Render(tree))
  <1> DEFINE text == Render(tree)
             cell == tree.cell
  <1>1. text \in Text /\ Len(text) \in Nat /\ Stands(text, 1, text)
    <2>1. text \in Text
      BY RenderType
    <2> QED
      BY <2>1, StandsWhole, LenProperties DEF Text
  <1>2. cell \in Cell /\ Stands(text, 1, CellText(cell))
    <2>0. 1 \in Nat /\ 1 # 0
      OBVIOUS
    <2>1. CASE tree.t = "leaf"
      <3> DEFINE pane == tree.pane
      <3>1. cell \in Cell /\ pane \in 0 .. MaxPane /\ tree = Leaf(cell, pane)
        BY <2>1, RenderLeaf
      <3> HIDE DEF cell, pane
      <3>2. Stands(text, 1, Render(Leaf(cell, pane)))
        BY <1>1, <3>1
      <3> HIDE DEF text
      <3>3. Stands(text, 1, CellText(cell))
        BY <1>1, <2>0, <3>1, <3>2, LeafThere
      <3> QED
        BY <3>1, <3>3
    <2>2. CASE tree.t # "leaf"
      <3> DEFINE cs == tree.children
                 way == tree.t
      <3>1. /\ way \in {"h", "v"} /\ cell \in Cell /\ cs \in Seq(Nested) /\ cs # << >>
            /\ tree = Split(way, cell, cs)
        BY <2>2, RenderSplit
      <3> HIDE DEF cell, cs, way
      <3>2. Split(way, cell, cs) \in Nested /\ Stands(text, 1, Render(Split(way, cell, cs)))
        BY <1>1, <3>1
      <3> HIDE DEF text
      <3>3. Stands(text, 1, CellText(cell))
        BY <1>1, <2>0, <3>1, <3>2, SplitThere
      <3> QED
        BY <3>1, <3>3
    <2> QED
      BY <2>1, <2>2
  <1>3. IsCell(text, 1)
    <2> HIDE DEF cell, text
    <2> QED
      BY <1>1, <1>2, CellThere
  <1> HIDE DEF text
  <1>4. IsSep(text, 1 + 1, "x")
    BY <1>3 DEF IsCell
  <1>5. 1 <= Len(text) /\ text[2] = Sep("x")
    <2>1. 1 + 1 = 2 /\ \A l \in Nat : 2 <= l => 1 <= l
      OBVIOUS
    <2> QED
      BY <1>1, <1>4, <2>1, Zenon DEF IsSep
  <1>6. ~HasChecksum(text)
    <2>1. ASSUME Sep("x") = Sep(",") PROVE FALSE
      <3>1. AsciiOf["x"] \in U8 /\ AsciiOf[","] \in U8 /\ AsciiOf["x"] # AsciiOf[","]
        <4>1. AsciiOf["x"] = 120 /\ AsciiOf[","] = 44
          BY Ascii, Zenon
        <4>2. \A b, c : b = 120 /\ c = 44 => b \in U8 /\ c \in U8 /\ b # c
          BY DEF U8
        <4> QED
          BY <4>1, <4>2, Zenon
      <3>2. Sep("x") = << AsciiOf["x"] >> /\ Sep(",") = << AsciiOf[","] >>
        BY Zenon DEF Sep
      <3>3. Sep("x")[1] = AsciiOf["x"] /\ Sep(",")[1] = AsciiOf[","]
        BY <3>1, <3>2, OneByte, Zenon
      <3> QED
        BY <2>1, <3>1, <3>3, Zenon
    <2>2. HasChecksum(text) => text[2] = Sep(",")
      BY Zenon DEF HasChecksum
    <2> QED
      BY <1>5, <2>1, <2>2, Zenon
  <1> QED
    BY <1>1, <1>5, <1>6 DEF text

----------------------------------------------------------------------------
(* The checksum of a text, byte by byte.                                   *)
LEMMA BytesType ==
    ASSUME NEW text \in Text
    PROVE  FlattenSeq(text) \in Seq(U8)
  <1>1. Len(text) \in Nat /\ \A k \in 1 .. Len(text) : text[k] \in Seq(U8)
    BY LenProperties, ElementOfSeq DEF Text, Symbol
  <1>2. CASE Len(text) = 0
    <2>1. FlattenSeq(text) = text
      BY <1>2 DEF FlattenSeq
    <2>2. text = << >>
      BY <1>2, EmptySeq DEF Text
    <2> QED
      BY <2>1, <2>2
  <1>3. CASE Len(text) # 0
    BY <1>1, <1>3, FlatType
  <1> QED
    BY <1>2, <1>3

(* The accumulator after each byte, as checksum runs over them.            *)
SumsBy(s, bytes) ==
    /\ s[0] = 0
    /\ \A n \in Nat : n + 1 <= Len(bytes) => s[n + 1] = RotateAdd(s[n], bytes[n + 1])
    /\ \A n \in Nat : n <= Len(bytes) => s[n] \in U16

LEMMA Sums ==
    ASSUME NEW text \in Text
    PROVE  \E s : SumsBy(s, FlattenSeq(text)) /\ Checksum(text) = s[Len(FlattenSeq(text))]
  <1> DEFINE bytes == FlattenSeq(text)
  <1>0. bytes \in Seq(U8)
    BY BytesType
  <1>1. PICK s : /\ Checksum(text) = s[Len(bytes)]
                 /\ s = [n \in Nat |-> Summed(IF n = 0 THEN {} ELSE s[n - 1], bytes, n)]
    BY SumAt
  <1> HIDE DEF bytes
  <1>2. PICK l \in Nat : l = Len(bytes)
    BY <1>0, LenProperties
  <1>3. ASSUME NEW n \in Nat PROVE s[n] = Summed(IF n = 0 THEN {} ELSE s[n - 1], bytes, n)
    BY <1>1
  <1>4. s[0] = 0
    BY <1>3 DEF Summed
  <1>5. ASSUME NEW n \in Nat PROVE s[n + 1] = RotateAdd(s[n], bytes[n + 1])
    <2>1. n + 1 \in Nat /\ n + 1 # 0 /\ (n + 1) - 1 = n
      OBVIOUS
    <2>2. s[n + 1] = Loop!RotateAdd(s[n], bytes[n + 1])
      BY <1>3, <2>1 DEF Summed
    <2> QED
      BY <2>2 DEF Loop!RotateAdd, RotateAdd
  <1> DEFINE T == {n \in Nat : n <= l => s[n] \in U16}
  <1>6. 0 \in T
    BY <1>4 DEF U16
  <1>7. ASSUME NEW n \in T PROVE n + 1 \in T
    <2>1. n \in Nat /\ n + 1 \in Nat
      OBVIOUS
    <2> SUFFICES ASSUME n + 1 <= l PROVE s[n + 1] \in U16
      BY <2>1
    <2>2. s[n] \in U16
      BY <2>1
    <2>3. n + 1 \in 1 .. l
      BY <2>1
    <2>4. bytes[n + 1] \in U8
      BY <1>0, <1>2, <2>3, ElementOfSeq
    <2>5. RotateAdd(s[n], bytes[n + 1]) \in U16
      BY <2>2, <2>4, RotateAddType
    <2> QED
      BY <1>5, <2>1, <2>5
  <1>8. T \in SUBSET Nat
    OBVIOUS
  <1> HIDE DEF T
  <1>9. T = Nat
    BY <1>6, <1>7, <1>8, CountingUp
  <1>10. \A n \in Nat : n <= l => s[n] \in U16
    BY <1>9 DEF T
  <1>11. SumsBy(s, bytes)
    BY <1>2, <1>4, <1>5, <1>10 DEF SumsBy
  <1> QED
    BY <1>1, <1>11 DEF bytes

LEMMA ChecksumType ==
    ASSUME NEW text \in Text
    PROVE  Checksum(text) \in U16 /\ Checksum(text) \in Nat
  <1>1. PICK s : SumsBy(s, FlattenSeq(text)) /\ Checksum(text) = s[Len(FlattenSeq(text))]
    BY Sums
  <1>2. Len(FlattenSeq(text)) \in Nat /\ Len(FlattenSeq(text)) <= Len(FlattenSeq(text))
    BY BytesType, LenProperties
  <1> QED
    BY <1>1, <1>2 DEF SumsBy, U16

(* Changing one byte of a text changes its checksum.                       *)
LEMMA ChangeSeen ==
    ASSUME NEW text \in Text, NEW other \in Text,
           OneByteApart(FlattenSeq(text), FlattenSeq(other))
    PROVE  Checksum(text) # Checksum(other)
  <1> DEFINE old == FlattenSeq(text)
             new == FlattenSeq(other)
  <1>0. old \in Seq(U8) /\ new \in Seq(U8) /\ OneByteApart(old, new)
    BY BytesType
  <1>1. PICK s : SumsBy(s, old) /\ Checksum(text) = s[Len(old)]
    BY Sums
  <1>2. PICK r : SumsBy(r, new) /\ Checksum(other) = r[Len(new)]
    BY Sums
  <1> HIDE DEF old, new
  <1>3. PICK l \in Nat : l = Len(old) /\ l = Len(new)
    BY <1>0, LenProperties DEF OneByteApart
  <1>4. PICK k \in 1 .. l : old[k] # new[k] /\ \A j \in 1 .. l \ {k} : old[j] = new[j]
    BY <1>0, <1>3 DEF OneByteApart
  <1>5. ASSUME NEW n \in Nat, n + 1 <= l
        PROVE  /\ s[n] \in U16 /\ r[n] \in U16
               /\ s[n + 1] = RotateAdd(s[n], old[n + 1])
               /\ r[n + 1] = RotateAdd(r[n], new[n + 1])
               /\ old[n + 1] \in U8 /\ new[n + 1] \in U8
               /\ old[n + 1] = new[n + 1] <=> n + 1 # k
    <2>1. n <= l /\ n + 1 \in 1 .. l
      BY <1>5
    <2>2. s[n] \in U16 /\ r[n] \in U16
      BY <1>1, <1>2, <1>3, <2>1 DEF SumsBy
    <2>3. s[n + 1] = RotateAdd(s[n], old[n + 1]) /\ r[n + 1] = RotateAdd(r[n], new[n + 1])
      BY <1>1, <1>2, <1>3, <1>5 DEF SumsBy
    <2>4. old[n + 1] \in U8 /\ new[n + 1] \in U8
      BY <1>0, <1>3, <2>1, ElementOfSeq
    <2>5. old[n + 1] = new[n + 1] <=> n + 1 # k
      BY <1>4, <2>1
    <2> QED
      BY <2>2, <2>3, <2>4, <2>5
  <1> DEFINE T == {n \in Nat : n <= l => (s[n] = r[n] <=> n < k)}
  <1>6. 0 \in T
    BY <1>1, <1>2, <1>4 DEF SumsBy
  <1>7. ASSUME NEW n \in T PROVE n + 1 \in T
    <2>1. n \in Nat /\ n + 1 \in Nat
      OBVIOUS
    <2> SUFFICES ASSUME n + 1 <= l PROVE s[n + 1] = r[n + 1] <=> n + 1 < k
      BY <2>1
    <2>2. s[n] = r[n] <=> n < k
      BY <2>1
    <2> DEFINE a == old[n + 1]
               b == new[n + 1]
    <2>3. /\ s[n] \in U16 /\ r[n] \in U16 /\ a \in U8 /\ b \in U8
          /\ s[n + 1] = RotateAdd(s[n], a) /\ r[n + 1] = RotateAdd(r[n], b)
          /\ a = b <=> n + 1 # k
      BY <1>5, <2>1
    <2> HIDE DEF a, b
    <2>4. CASE n + 1 = k
      <3>1. s[n] = r[n] /\ a # b /\ ~(n + 1 < k)
        BY <1>4, <2>1, <2>2, <2>3, <2>4
      <3>2. s[n + 1] # r[n + 1]
        BY <2>3, <3>1, SeesByte, Zenon
      <3> QED
        BY <3>1, <3>2
    <2>5. CASE n + 1 # k
      <3>1. a = b /\ (n < k <=> n + 1 < k)
        BY <1>4, <2>1, <2>3, <2>5
      <3>2. s[n + 1] = r[n + 1] <=> s[n] = r[n]
        BY <2>3, <3>1, KeepsDifference, Zenon
      <3> QED
        BY <2>2, <3>1, <3>2
    <2> QED
      BY <2>4, <2>5
  <1>8. T \in SUBSET Nat
    OBVIOUS
  <1> HIDE DEF T
  <1>9. T = Nat
    BY <1>6, <1>7, <1>8, CountingUp
  <1>10. l <= l => (s[l] = r[l] <=> l < k)
    BY <1>9 DEF T
  <1>11. s[l] # r[l]
    BY <1>4, <1>10
  <1> QED
    BY <1>1, <1>2, <1>3, <1>11

----------------------------------------------------------------------------
(* The checksum before the body, and the body.                             *)
DigitValue(c) == CASE c \in 48 .. 57 -> c - 48 [] c \in 65 .. 70 -> c - 55 [] OTHER -> c - 87

LEMMA HexDigits ==
    ASSUME NEW d \in 0 .. 15
    PROVE  /\ HexCode(d) \in HexDigit /\ HexCode(d) \in U8
           /\ DigitValue(HexCode(d)) = d
  <1>1. CASE d < 10
    <2>1. HexCode(d) = 48 + d /\ 48 + d \in 48 .. 57 /\ (48 + d) - 48 = d
      BY <1>1 DEF HexCode
    <2> QED
      BY <2>1 DEF HexDigit, U8, DigitValue
  <1>2. CASE ~(d < 10)
    <2>1. /\ HexCode(d) = 87 + d /\ 87 + d \in 97 .. 102 /\ (87 + d) - 87 = d
          /\ 87 + d \notin 48 .. 57 /\ 87 + d \notin 65 .. 70
      BY <1>2 DEF HexCode
    <2> QED
      BY <2>1 DEF HexDigit, U8, DigitValue
  <1> QED
    BY <1>1, <1>2

LEMMA HexWords ==
    ASSUME NEW n \in U16
    PROVE  /\ HexWord(n) \in Symbol /\ Len(HexWord(n)) = 4
           /\ \A k \in 1 .. 4 : HexWord(n)[k] \in HexDigit
           /\ HexValue(HexWord(n)) = n
  <1>1. PICK a \in 0 .. 15, b \in 0 .. 15, c \in 0 .. 15, d \in 0 .. 15 :
          /\ a = n \div 4096 /\ b = (n \div 256) % 16 /\ c = (n \div 16) % 16 /\ d = n % 16
          /\ 4096 * a + 256 * b + 16 * c + d = n
    <2>1. n \in Nat /\ n < 65536
      BY DEF U16
    <2>2. PICK q \in Nat, d \in 0 .. 15 : q = n \div 16 /\ d = n % 16 /\ n = 16 * q + d
      BY <2>1
    <2>3. PICK p \in Nat, c \in 0 .. 15 : p = q \div 16 /\ c = q % 16 /\ q = 16 * p + c
      BY <2>2
    <2>4. PICK a \in Nat, b \in 0 .. 15 : a = p \div 16 /\ b = p % 16 /\ p = 16 * a + b
      BY <2>3
    <2>5. p = n \div 256
      BY <2>1, <2>2, <2>3
    <2>6. a = n \div 4096
      BY <2>1, <2>2, <2>3, <2>4
    <2>7. 4096 * a + 256 * b + 16 * c + d = n
      BY <2>2, <2>3, <2>4
    <2>8. a \in 0 .. 15
      BY <2>1, <2>7
    <2>9. b = (n \div 256) % 16 /\ c = (n \div 16) % 16 /\ d = n % 16
      <3>1. b = p % 16 /\ c = q % 16 /\ q = n \div 16 /\ d = n % 16
        BY <2>2, <2>3, <2>4
      <3> HIDE <2>2, <2>3, <2>4
      <3> QED
        BY <2>5, <3>1
    <2> DEFINE Digits(g, h, i, j) ==
                 /\ g = n \div 4096 /\ h = (n \div 256) % 16 /\ i = (n \div 16) % 16 /\ j = n % 16
                 /\ 4096 * g + 256 * h + 16 * i + j = n
    <2>10. Digits(a, b, c, d)
      BY <2>6, <2>7, <2>9
    <2> HIDE DEF Digits
    <2>11. \E g \in 0 .. 15, h \in 0 .. 15, i \in 0 .. 15, j \in 0 .. 15 : Digits(g, h, i, j)
      BY <2>8, <2>10
    <2> QED
      BY <2>11 DEF Digits
  <1> DEFINE word == << HexCode(a), HexCode(b), HexCode(c), HexCode(d) >>
  <1>2. HexWord(n) = word
    BY <1>1 DEF HexWord
  <1>3. /\ word[1] = HexCode(a) /\ word[2] = HexCode(b) /\ word[3] = HexCode(c)
        /\ word[4] = HexCode(d) /\ Len(word) = 4
    OBVIOUS
  <1>4. word \in Seq(U8)
    <2>1. HexCode(a) \in U8 /\ HexCode(b) \in U8 /\ HexCode(c) \in U8 /\ HexCode(d) \in U8
      BY HexDigits
    <2> QED
      BY <2>1
  <1> HIDE DEF word
  <1>5. ASSUME NEW k \in 1 .. 4 PROVE word[k] \in HexDigit
    <2>1. k = 1 \/ k = 2 \/ k = 3 \/ k = 4
      OBVIOUS
    <2>2. /\ HexCode(a) \in HexDigit /\ HexCode(b) \in HexDigit /\ HexCode(c) \in HexDigit
          /\ HexCode(d) \in HexDigit
      BY HexDigits
    <2> QED
      BY <1>3, <2>1, <2>2, Zenon
  <1>6. HexValue(word) = 4096 * DigitValue(word[1]) + 256 * DigitValue(word[2])
                           + 16 * DigitValue(word[3]) + DigitValue(word[4])
    BY Zenon DEF HexValue, DigitValue
  <1>7. HexValue(word) = n
    <2>1. /\ DigitValue(word[1]) = a /\ DigitValue(word[2]) = b
          /\ DigitValue(word[3]) = c /\ DigitValue(word[4]) = d
      BY <1>3, HexDigits
    <2> QED
      BY <1>1, <1>6, <2>1
  <1> QED
    BY <1>2, <1>3, <1>4, <1>5, <1>7, Zenon DEF Symbol

LEMMA BodyParts ==
    ASSUME NEW text \in Text, HasChecksum(text)
    PROVE  /\ Body(text) \in Text
           /\ Len(Body(text)) \in Nat /\ Len(text) = Len(Body(text)) + 2
           /\ \A k \in 1 .. Len(Body(text)) : Body(text)[k] = text[k + 2]
  <1>1. PICK l \in Nat : l = Len(text)
    BY LenProperties DEF Text
  <1>2. l >= 2 /\ Body(text) = SubSeq(text, 3, l)
    BY <1>1 DEF HasChecksum, Body
  <1>3. \A k \in 3 .. l : text[k] \in Symbol
    <2>1. \A k \in 3 .. l : k \in 1 .. Len(text)
      BY <1>1
    <2> QED
      BY <2>1, ElementOfSeq DEF Text
  <1>4. /\ SubSeq(text, 3, l) \in Seq(Symbol)
        /\ Len(SubSeq(text, 3, l)) = IF 3 <= l THEN l - 3 + 1 ELSE 0
        /\ \A i \in 1 .. l - 3 + 1 : SubSeq(text, 3, l)[i] = text[3 + i - 1]
    BY <1>3, SubSeqProperties
  <1>5. (IF 3 <= l THEN l - 3 + 1 ELSE 0) = l - 2 /\ l - 3 + 1 = l - 2 /\ l - 2 \in Nat
    BY <1>2
  <1>6. Len(Body(text)) = l - 2
    BY <1>2, <1>4, <1>5, Zenon
  <1>7. \A k \in 1 .. l - 2 : Body(text)[k] = text[k + 2]
    <2>1. \A k \in 1 .. l - 2 : 3 + k - 1 = k + 2
      OBVIOUS
    <2> QED
      BY <1>2, <1>4, <1>5, <2>1, Zenon
  <1>8. Body(text) \in Text
    BY <1>2, <1>4 DEF Text
  <1>9. l = l - 2 + 2
    OBVIOUS
  <1> QED
    BY <1>1, <1>5, <1>6, <1>7, <1>8, <1>9, Zenon

LEMMA BodyType ==
    ASSUME NEW text \in Text
    PROVE  Body(text) \in Text
  BY BodyParts DEF Body

LEMMA StringParts ==
    ASSUME NEW tree \in Nested
    PROVE  /\ ToLayoutString(tree) \in Text
           /\ HasChecksum(ToLayoutString(tree))
           /\ Body(ToLayoutString(tree)) = Render(tree)
           /\ HexValue(ToLayoutString(tree)[1]) = Checksum(Render(tree))
  <1> DEFINE body == Render(tree)
             csum == Checksum(body)
             front == << HexWord(csum), Sep(",") >>
             text == ToLayoutString(tree)
  <1>1. body \in Text /\ Len(body) \in Nat
    BY RenderType, LenProperties DEF Text
  <1>2. /\ HexWord(csum) \in Symbol /\ Len(HexWord(csum)) = 4
        /\ \A k \in 1 .. 4 : HexWord(csum)[k] \in HexDigit
        /\ HexValue(HexWord(csum)) = csum
    BY <1>1, ChecksumType, HexWords
  <1>3. text = front \o body
    BY DEF ToLayoutString
  <1>4. /\ front \in Text /\ Len(front) = 2
        /\ front[1] = HexWord(csum) /\ front[2] = Sep(",")
    <2>1. Sep(",") \in Symbol
      BY Keys, Separators, Zenon DEF Symbol
    <2> HIDE DEF csum
    <2> QED
      BY <1>2, <2>1, TwoTokens, Zenon DEF Text
  <1> HIDE DEF body, csum, front, text
  <1>5. /\ text \in Text /\ Len(text) = 2 + Len(body)
        /\ text[1] = HexWord(csum) /\ text[2] = Sep(",")
        /\ \A k \in 1 .. Len(body) : text[2 + k] = body[k]
    <2>1. /\ front \o body \in Seq(Symbol) /\ Len(front \o body) = Len(front) + Len(body)
          /\ \A k \in 1 .. Len(front) : (front \o body)[k] = front[k]
          /\ \A k \in 1 .. Len(body) : (front \o body)[Len(front) + k] = body[k]
      <3>1. front \in Seq(Symbol) /\ body \in Seq(Symbol)
        BY <1>1, <1>4, Zenon DEF Text
      <3> QED
        BY <3>1, ConcatParts
    <2>2. 1 \in 1 .. 2 /\ 2 \in 1 .. 2
      OBVIOUS
    <2> QED
      BY <1>3, <1>4, <2>1, <2>2, Zenon DEF Text
  <1>6. HasChecksum(text)
    <2>1. 2 + Len(body) >= 2
      BY <1>1
    <2> QED
      BY <1>2, <1>5, <2>1, Zenon DEF HasChecksum
  <1>7. Body(text) = body
    <2>1. /\ Body(text) \in Text
          /\ Len(Body(text)) \in Nat /\ Len(text) = Len(Body(text)) + 2
          /\ \A k \in 1 .. Len(Body(text)) : Body(text)[k] = text[k + 2]
      BY <1>5, <1>6, BodyParts
    <2>2. Len(Body(text)) = Len(body)
      <3>1. \A a, b \in Nat : 2 + a = b + 2 => a = b
        OBVIOUS
      <3> QED
        BY <1>1, <1>5, <2>1, <3>1, Zenon
    <2>3. \A k \in 1 .. Len(body) : Body(text)[k] = body[k]
      <3>1. \A k \in 1 .. Len(body) : k + 2 = 2 + k
        BY <1>1
      <3> QED
        BY <1>5, <2>1, <2>2, <3>1, Zenon
    <2> QED
      BY <1>1, <2>1, <2>2, <2>3, SeqEqual DEF Text
  <1> QED
    BY <1>2, <1>5, <1>6, <1>7, Zenon DEF body, csum, text

(* What parse makes of the two strings of a layout, and which strings it   *)
(* makes anything of.                                                      *)
LEMMA StringRead ==
    ASSUME NEW tree \in Nested, NEW text \in {Render(tree), ToLayoutString(tree)}
    PROVE  Parse(text) = IF tree \in LayoutsWithin[MaxDepth]
                         THEN Parsed(tree, Len(Render(tree)) + 1) ELSE Error
  <1>1. Body(text) = Render(tree) /\ ~(HasChecksum(text) /\ HexValue(text[1]) # Checksum(Body(text)))
    <2>1. CASE text = Render(tree)
      BY <2>1, NoChecksumRendered DEF Body
    <2>2. CASE text = ToLayoutString(tree)
      <3>1. Body(text) = Render(tree) /\ HexValue(text[1]) = Checksum(Render(tree))
        BY <2>2, StringParts
      <3> QED
        BY <3>1, Zenon
    <2> QED
      BY <2>1, <2>2
  <1> DEFINE node == Node(Render(tree))
             end == Len(Render(tree)) + 1
  <1>2. Parse(text) = IF node.ok /\ node.rest = end THEN node ELSE Error
    BY <1>1, Zenon DEF Parse, Node
  <1>3. node = IF tree \in LayoutsWithin[MaxDepth] THEN Parsed(tree, end) ELSE Error
    BY BodyRead
  <1> HIDE DEF node, end
  <1>4. Parse(text) = IF tree \in LayoutsWithin[MaxDepth] THEN Parsed(tree, end) ELSE Error
    <2>1. CASE tree \in LayoutsWithin[MaxDepth]
      <3>1. node = Parsed(tree, end)
        BY <1>3, <2>1
      <3>2. node.ok /\ node.rest = end
        BY <3>1, Outcomes
      <3> QED
        BY <1>2, <2>1, <3>1, <3>2, Zenon
    <2>2. CASE tree \notin LayoutsWithin[MaxDepth]
      <3>1. node = Error
        BY <1>3, <2>2
      <3>2. ~node.ok
        BY <3>1, Outcomes
      <3> QED
        BY <1>2, <2>2, <3>1, <3>2, Zenon
    <2> QED
      BY <2>1, <2>2
  <1> QED
    BY <1>4 DEF end

LEMMA AcceptedIsRendering ==
    ASSUME NEW text \in Text, Parse(text).ok
    PROVE  /\ SameText(Body(text), Render(Parse(text).value))
           /\ HasChecksum(text) => HexValue(text[1]) = Checksum(Body(text))
  <1> DEFINE body == Body(text)
             node == Node(body)
  <1>1. /\ ~(HasChecksum(text) /\ HexValue(text[1]) # Checksum(body))
        /\ node.ok /\ node.rest = Len(body) + 1
        /\ Parse(text) = node
    <2>1. Parse(text) # Error
      BY Outcomes
    <2>2. Parse(text) = IF HasChecksum(text) /\ HexValue(text[1]) # Checksum(body) THEN Error
                        ELSE IF node.ok /\ node.rest = Len(body) + 1 THEN node ELSE Error
      BY Zenon DEF Parse, Node
    <2> HIDE DEF body, node
    <2> QED
      BY <2>1, <2>2, Zenon
  <1>2. body \in Text
    BY BodyType
  <1>3. SameText(body, Render(node.value))
    <2> HIDE DEF body
    <2> QED
      BY <1>1, <1>2, BodyIsRendering
  <1> QED
    BY <1>1, <1>3, Zenon

----------------------------------------------------------------------------
(* The edits of a string. *)
LEMMA TokenType == Token \subseteq Symbol
  <1>1. 0 .. 255 \subseteq U8
    BY DEF U8
  <1>2. ASSUME NEW word \in EditWords PROVE word \in Symbol
    <2>1. word \in Seq(0 .. 255)
      BY LayoutAssumption
    <2> QED
      BY <1>1, <2>1, Widen DEF Symbol
  <1>3. \A c \in DOMAIN AsciiOf : Sep(c) \in Symbol
    BY Separators, Zenon DEF Symbol
  <1> QED
    BY <1>2, <1>3, Zenon DEF Token

LEMMA UpperType ==
    ASSUME NEW token \in Symbol
    PROVE  Upper(token) \in Symbol
  <1>1. Len(token) \in Nat /\ DOMAIN token = 1 .. Len(token)
    BY LenProperties DEF Symbol
  <1>2. ASSUME NEW k \in 1 .. Len(token)
        PROVE  (IF token[k] \in 97 .. 102 THEN token[k] - 32 ELSE token[k]) \in U8
    <2>1. token[k] \in U8
      BY ElementOfSeq DEF Symbol
    <2> QED
      BY <2>1 DEF U8
  <1> QED
    BY <1>1, <1>2 DEF Upper, Symbol

LEMMA Replaced ==
    ASSUME NEW text \in Text, NEW k \in 1 .. Len(text), NEW token \in Symbol
    PROVE  /\ ReplaceAt(text, k, token) \in Text
           /\ Len(ReplaceAt(text, k, token)) = Len(text)
           /\ \A j \in 1 .. Len(text) : ReplaceAt(text, k, token)[j] = IF j = k THEN token ELSE text[j]
  BY ExceptSeq DEF Text, ReplaceAt

LEMMA Piece ==
    ASSUME NEW text \in Text, NEW a \in Nat, NEW b \in Nat, 1 <= a, b <= Len(text), a <= b + 1
    PROVE  SubSeq(text, a, b) \in Text /\ Len(SubSeq(text, a, b)) = b - a + 1
  <1>1. PICK l \in Nat : l = Len(text)
    BY LenProperties DEF Text
  <1>2. \A k \in a .. b : text[k] \in Symbol
    <2>1. \A k \in a .. b : k \in 1 .. Len(text)
      BY <1>1
    <2> QED
      BY <2>1, ElementOfSeq DEF Text
  <1>3. /\ SubSeq(text, a, b) \in Seq(Symbol)
        /\ Len(SubSeq(text, a, b)) = IF a <= b THEN b - a + 1 ELSE 0
    BY <1>2, SubSeqProperties
  <1>4. (IF a <= b THEN b - a + 1 ELSE 0) = b - a + 1
    OBVIOUS
  <1> QED
    BY <1>3, <1>4, Zenon DEF Text

LEMMA Removed ==
    ASSUME NEW text \in Text, NEW k \in 1 .. Len(text)
    PROVE  RemoveAt(text, k) \in Text /\ Len(RemoveAt(text, k)) # Len(text)
  <1>1. PICK l \in Nat : l = Len(text)
    BY LenProperties DEF Text
  <1>2. /\ k \in Nat /\ k - 1 \in Nat /\ k + 1 \in Nat /\ 1 <= k + 1 /\ l <= Len(text) /\ k + 1 <= l + 1
        /\ 1 <= 1 /\ k - 1 <= Len(text) /\ 1 <= (k - 1) + 1
        /\ (k - 1) - 1 + 1 = k - 1 /\ l - (k + 1) + 1 = l - k /\ (k - 1) + (l - k) # l
    BY <1>1
  <1>3. SubSeq(text, 1, k - 1) \in Text /\ Len(SubSeq(text, 1, k - 1)) = k - 1
    BY <1>2, Piece
  <1>4. SubSeq(text, k + 1, l) \in Text /\ Len(SubSeq(text, k + 1, l)) = l - k
    BY <1>2, Piece
  <1>5. /\ SubSeq(text, 1, k - 1) \o SubSeq(text, k + 1, l) \in Text
        /\ Len(SubSeq(text, 1, k - 1) \o SubSeq(text, k + 1, l)) = (k - 1) + (l - k)
    BY <1>3, <1>4, ConcatParts DEF Text
  <1> QED
    BY <1>1, <1>2, <1>5, Zenon DEF RemoveAt

LEMMA Inserted ==
    ASSUME NEW text \in Text, NEW k \in 1 .. Len(text) + 1, NEW token \in Symbol
    PROVE  InsertAt(text, k, token) \in Text /\ Len(InsertAt(text, k, token)) # Len(text)
  <1>1. PICK l \in Nat : l = Len(text)
    BY LenProperties DEF Text
  <1>2. /\ k \in Nat /\ k - 1 \in Nat /\ 1 <= k /\ l <= Len(text) /\ k <= l + 1 /\ l \in Nat
        /\ 1 \in Nat /\ 1 <= 1 /\ k - 1 <= Len(text) /\ 1 <= (k - 1) + 1
        /\ (k - 1) - 1 + 1 = k - 1 /\ ((k - 1) + 1) + (l - k + 1) # l
    BY <1>1
  <1>3. SubSeq(text, 1, k - 1) \in Text /\ Len(SubSeq(text, 1, k - 1)) = k - 1
    BY <1>2, Piece
  <1>4. SubSeq(text, k, l) \in Text /\ Len(SubSeq(text, k, l)) = l - k + 1
    BY <1>2, Piece
  <1>5. << token >> \in Text /\ Len(<< token >>) = 1
    BY OneToken DEF Text
  <1>6. /\ SubSeq(text, 1, k - 1) \o << token >> \in Text
        /\ Len(SubSeq(text, 1, k - 1) \o << token >>) = (k - 1) + 1
    BY <1>3, <1>5, ConcatParts DEF Text
  <1>7. /\ SubSeq(text, 1, k - 1) \o << token >> \o SubSeq(text, k, l) \in Text
        /\ Len(SubSeq(text, 1, k - 1) \o << token >> \o SubSeq(text, k, l))
             = ((k - 1) + 1) + (l - k + 1)
    BY <1>4, <1>6, ConcatParts DEF Text
  <1> QED
    BY <1>1, <1>2, <1>7, Zenon DEF InsertAt

----------------------------------------------------------------------------
(* The string under test: whatever the edits made of it it is a string of  *)
(* tokens, and until the first of them one of the layout's own.            *)
Underway ==
    /\ original \in Nested
    /\ wire \in Text
    /\ edits \in Nat
    /\ edits = 0 => wire \in {Render(original), ToLayoutString(original)}

LEMMA InitUnderway == LayoutInit => Underway
  <1> SUFFICES ASSUME LayoutInit PROVE Underway
    OBVIOUS
  <1>1. original \in Nested
    BY LayoutAssumption DEF LayoutInit, Nested
  <1>2. Render(original) \in Text /\ ToLayoutString(original) \in Text
    BY <1>1, RenderType, StringParts
  <1> QED
    BY <1>1, <1>2 DEF LayoutInit, Underway

LEMMA EditUnderway ==
    ASSUME Underway, NEW s \in Text, Edit(s)
    PROVE  Underway'
  <1>1. /\ original' = original /\ wire' = s /\ edits' = edits + 1 /\ edits \in Nat
        /\ original \in Nested
    BY DEF Edit, Underway
  <1>2. edits' \in Nat /\ edits' # 0
    BY <1>1
  <1> QED
    BY <1>1, <1>2 DEF Underway

LEMMA NextUnderway == Underway /\ [LayoutNext]_layoutVars => Underway'
  <1> SUFFICES ASSUME Underway, [LayoutNext]_layoutVars PROVE Underway'
    OBVIOUS
  <1>1. wire \in Text
    BY DEF Underway
  <1>2. CASE Replace
    <2>1. PICK k \in 1 .. Len(wire), token \in Token : Edit(ReplaceAt(wire, k, token))
      BY <1>2 DEF Replace
    <2>2. ReplaceAt(wire, k, token) \in Text
      BY <1>1, TokenType, Replaced
    <2> QED
      BY <2>1, <2>2, EditUnderway
  <1>3. CASE Delete
    <2>1. PICK k \in 1 .. Len(wire) : Edit(RemoveAt(wire, k))
      BY <1>3 DEF Delete
    <2>2. RemoveAt(wire, k) \in Text
      BY <1>1, Removed
    <2> QED
      BY <2>1, <2>2, EditUnderway
  <1>4. CASE Insert
    <2>1. PICK k \in 1 .. Len(wire) + 1, token \in Token : Edit(InsertAt(wire, k, token))
      BY <1>4 DEF Insert
    <2>2. InsertAt(wire, k, token) \in Text
      BY <1>1, TokenType, Inserted
    <2> QED
      BY <2>1, <2>2, EditUnderway
  <1>5. CASE Capitalise
    <2>1. PICK k \in 1 .. Len(wire) : Edit(ReplaceAt(wire, k, Upper(wire[k])))
      BY <1>5 DEF Capitalise
    <2>2. Upper(wire[k]) \in Symbol
      BY <1>1, ElementOfSeq, UpperType DEF Text
    <2>3. ReplaceAt(wire, k, Upper(wire[k])) \in Text
      BY <1>1, <2>2, Replaced
    <2> QED
      BY <2>1, <2>3, EditUnderway
  <1>6. CASE UNCHANGED layoutVars
    BY <1>6 DEF layoutVars, Underway
  <1> QED
    BY <1>2, <1>3, <1>4, <1>5, <1>6 DEF LayoutNext

(* parse reads back every layout from what render and to_layout_string     *)
(* make of it, of whatever shape and size, unless it nests deeper than the *)
(* limit: that it always rejects (layout.rs:45-78, 88-115, 152-221).       *)
THEOREM AlwaysReadsWhatRenders == LayoutSpec => []ReadsWhatRenders
  <1>1. Underway => ReadsWhatRenders
    <2> SUFFICES ASSUME Underway, edits = 0
                 PROVE  Parse(wire) = IF original \in LayoutsWithin[MaxDepth]
                                      THEN Parsed(original, Len(Render(original)) + 1) ELSE Error
      BY DEF ReadsWhatRenders
    <2>1. original \in Nested /\ wire \in {Render(original), ToLayoutString(original)}
      BY DEF Underway
    <2> QED
      BY <2>1, StringRead
  <1> QED
    BY <1>1, InitUnderway, NextUnderway, PTL DEF LayoutSpec

(* Of all strings that edits can reach parse accepts only the renderings,  *)
(* their numbers in any spelling, bare or behind their own checksum, and   *)
(* yields just the layout rendered (layout.rs:45-62, 135-266).             *)
THEOREM OnlyRenderingsEverAccepted == LayoutSpec => []AcceptsOnlyRenderings
  <1>1. Underway => AcceptsOnlyRenderings
    BY AcceptedIsRendering DEF Underway, AcceptsOnlyRenderings
  <1> QED
    BY <1>1, InitUnderway, NextUnderway, PTL DEF LayoutSpec

(* However long an accepted string, no change of one of the bytes behind   *)
(* its checksum is accepted (layout.rs:46-54, 124-131).                    *)
THEOREM CorruptionAlwaysDetected == LayoutSpec => CorruptionDetected
  <1> DEFINE Detected == Parse(wire).ok /\ OneByteChanged(wire, wire') => ~Parse(wire').ok
  <1>1. Underway /\ Underway' => Detected
    <2> SUFFICES ASSUME Underway, Underway', Parse(wire).ok, OneByteChanged(wire, wire'),
                        Parse(wire').ok
                 PROVE  FALSE
      OBVIOUS
    <2>1. wire \in Text /\ wire' \in Text
      BY DEF Underway
    <2>2. /\ HasChecksum(wire) /\ HasChecksum(wire') /\ HexValue(wire[1]) = HexValue(wire'[1])
          /\ OneByteApart(FlattenSeq(Body(wire)), FlattenSeq(Body(wire')))
      BY DEF OneByteChanged
    <2>3. HexValue(wire[1]) = Checksum(Body(wire)) /\ HexValue(wire'[1]) = Checksum(Body(wire'))
      BY <2>1, <2>2, AcceptedIsRendering
    <2>4. Checksum(Body(wire)) # Checksum(Body(wire'))
      BY <2>1, <2>2, BodyType, ChangeSeen
    <2> QED
      BY <2>2, <2>3, <2>4, Zenon
  <1> QED
    BY <1>1, InitUnderway, NextUnderway, PTL DEF LayoutSpec, CorruptionDetected

=============================================================================
