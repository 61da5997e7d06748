--------------------------- MODULE IndexTree_proofs ---------------------------
(***************************************************************************)
(* Proofs about IndexTree, for any keys, any number of entries in a page,  *)
(* any number of insertions, deletions, rebuilds and crashes: every page   *)
(* an operation reads, and every link in it, is well formed, no walk along *)
(* the links goes in circles, also after a crash, and every operation on   *)
(* the file comes to an end.                                               *)
(***************************************************************************)
EXTENDS IndexTree, SequenceTheorems, FiniteSetTheorems, TLAPS

-----------------------------------------------------------------------------
(***************************************************************************)
(* Sequences.                                                              *)
(***************************************************************************)
\* A sequence is a function.
LEMMA SeqIs ==
  ASSUME NEW S, NEW s, s \in Seq(S)
  PROVE  Len(s) \in Nat /\ DOMAIN s = 1..Len(s) /\ \A i \in DOMAIN s : s[i] \in S
OBVIOUS

LEMMA SeqMade ==
  ASSUME NEW S, NEW s, NEW n, n \in Nat, s \in [1..n -> S]
  PROVE  s \in Seq(S) /\ Len(s) = n /\ DOMAIN s = 1..n
OBVIOUS

\* A sequence with an element put in.
LEMMA InsertAfterIs ==
  ASSUME NEW S, NEW s, NEW i, NEW x, s \in Seq(S), i \in 0..Len(s), x \in S
  PROVE  /\ InsertAfter(s, i, x) \in Seq(S)
         /\ Len(InsertAfter(s, i, x)) = Len(s) + 1
         /\ \A j \in 1..Len(s) + 1 :
              InsertAfter(s, i, x)[j] = IF j <= i THEN s[j] ELSE IF j = i + 1 THEN x ELSE s[j - 1]
<1> DEFINE a == SubSeq(s, 1, i)
           b == SubSeq(s, i + 1, Len(s))
<1>1. Len(s) \in Nat /\ i \in Nat /\ i <= Len(s) /\ \A j \in 1..Len(s) : s[j] \in S
  OBVIOUS
<1>2. a \in Seq(S) /\ Len(a) = i /\ \A j \in 1..i : a[j] = s[j]
  <2>1. \A j \in 1..i : s[j] \in S
    BY <1>1
  <2>2. /\ a \in Seq(S) /\ Len(a) = IF 1 <= i THEN i - 1 + 1 ELSE 0
        /\ \A j \in 1..i - 1 + 1 : a[j] = s[1 + j - 1]
    BY <1>1, <2>1, SubSeqProperties
  <2> HIDE DEF a
  <2> QED
    BY <1>1, <2>2
<1>3. b \in Seq(S) /\ Len(b) = Len(s) - i /\ \A j \in 1..Len(s) - i : b[j] = s[i + j]
  <2>1. \A j \in i + 1..Len(s) : s[j] \in S
    BY <1>1
  <2>2. /\ b \in Seq(S) /\ Len(b) = IF i + 1 <= Len(s) THEN Len(s) - (i + 1) + 1 ELSE 0
        /\ \A j \in 1..Len(s) - (i + 1) + 1 : b[j] = s[(i + 1) + j - 1]
    BY <1>1, <2>1, SubSeqProperties
  <2> HIDE DEF b
  <2> QED
    BY <1>1, <2>2
<1>4. InsertAfter(s, i, x) = (a \o <<x>>) \o b
  BY DEF InsertAfter
<1> HIDE DEF a, b
<1> DEFINE c == a \o <<x>>
<1>5. c \in Seq(S) /\ Len(c) = i + 1 /\ \A j \in 1..i + 1 : c[j] = IF j <= i THEN s[j] ELSE x
  BY <1>1, <1>2
<1> HIDE DEF c
<1>6. /\ c \o b \in Seq(S) /\ Len(c \o b) = Len(s) + 1
      /\ \A j \in 1..Len(s) + 1 : (c \o b)[j] = IF j <= i + 1 THEN c[j] ELSE b[j - (i + 1)]
  BY <1>1, <1>3, <1>5
<1>7. \A j \in 1..Len(s) + 1 : (c \o b)[j] = IF j <= i THEN s[j] ELSE IF j = i + 1 THEN x ELSE s[j - 1]
  <2> SUFFICES ASSUME NEW j \in 1..Len(s) + 1
               PROVE  (c \o b)[j] = IF j <= i THEN s[j] ELSE IF j = i + 1 THEN x ELSE s[j - 1]
    OBVIOUS
  <2>0. j \in Nat /\ i \in Nat /\ 1 <= j /\ j <= Len(s) + 1
    BY <1>1
  <2>1. CASE j <= i + 1
    BY <1>5, <1>6, <2>0, <2>1
  <2>2. CASE ~ (j <= i + 1)
    <3>1. j - (i + 1) \in 1..Len(s) - i /\ i + (j - (i + 1)) = j - 1
      BY <1>1, <2>0, <2>2
    <3>2. (c \o b)[j] = b[j - (i + 1)] /\ b[j - (i + 1)] = s[i + (j - (i + 1))]
      BY <1>3, <1>6, <2>2, <3>1
    <3>3. (c \o b)[j] = s[j - 1]
      BY <3>1, <3>2
    <3> QED
      BY <2>0, <2>2, <3>3
  <2> QED
    BY <2>1, <2>2
<1> QED
  BY <1>4, <1>6, <1>7 DEF c

\* The first elements of a sequence.
LEMMA FirstIs ==
  ASSUME NEW S, NEW s, NEW n, s \in Seq(S), n \in 0..Len(s)
  PROVE  /\ SubSeq(s, 1, n) \in Seq(S) /\ Len(SubSeq(s, 1, n)) = n
         /\ \A j \in 1..n : SubSeq(s, 1, n)[j] = s[j]
<1>1. Len(s) \in Nat /\ n \in Nat /\ n <= Len(s) /\ \A j \in 1..n : s[j] \in S
  OBVIOUS
<1>2. /\ SubSeq(s, 1, n) \in Seq(S) /\ Len(SubSeq(s, 1, n)) = IF 1 <= n THEN n - 1 + 1 ELSE 0
      /\ \A j \in 1..n - 1 + 1 : SubSeq(s, 1, n)[j] = s[1 + j - 1]
  BY <1>1, SubSeqProperties
<1> QED
  BY <1>1, <1>2

\* The others.
LEMMA FromIs ==
  ASSUME NEW S, NEW s, NEW n, s \in Seq(S), n \in 0..Len(s)
  PROVE  /\ From(s, n + 1) \in Seq(S) /\ Len(From(s, n + 1)) = Len(s) - n
         /\ \A j \in 1..Len(s) - n : From(s, n + 1)[j] = s[n + j]
<1>1. Len(s) \in Nat /\ n \in Nat /\ n <= Len(s) /\ \A j \in n + 1..Len(s) : s[j] \in S
  OBVIOUS
<1> DEFINE t == SubSeq(s, n + 1, Len(s))
<1>2. /\ t \in Seq(S) /\ Len(t) = IF n + 1 <= Len(s) THEN Len(s) - (n + 1) + 1 ELSE 0
      /\ \A j \in 1..Len(s) - (n + 1) + 1 : t[j] = s[(n + 1) + j - 1]
  BY <1>1, SubSeqProperties
<1>3. From(s, n + 1) = t
  BY DEF From
<1> HIDE DEF t
<1> QED
  BY <1>1, <1>2, <1>3

\* The same, told from where the rest starts.
LEMMA RestIs ==
  ASSUME NEW S, NEW s, NEW i, s \in Seq(S), i \in 1..Len(s) + 1
  PROVE  /\ From(s, i) \in Seq(S) /\ Len(From(s, i)) = Len(s) + 1 - i
         /\ \A j : j \in 1..Len(s) + 1 - i => From(s, i)[j] = s[i - 1 + j]
<1>1. Len(s) \in Nat /\ i \in Nat /\ i >= 1 /\ i <= Len(s) + 1 /\ \A j \in i..Len(s) : s[j] \in S
  OBVIOUS
<1> DEFINE t == SubSeq(s, i, Len(s))
<1>2. /\ t \in Seq(S) /\ Len(t) = IF i <= Len(s) THEN Len(s) - i + 1 ELSE 0
      /\ \A j \in 1..Len(s) - i + 1 : t[j] = s[i + j - 1]
  BY <1>1, SubSeqProperties
<1>3. From(s, i) = t
  BY DEF From
<1> HIDE DEF t
<1>4. t \in Seq(S) /\ Len(t) = Len(s) + 1 - i
  BY <1>1, <1>2
<1>5. ASSUME NEW j, j \in 1..Len(s) + 1 - i PROVE t[j] = s[i - 1 + j]
  <2>1. j \in 1..Len(s) - i + 1 /\ i + j - 1 = i - 1 + j
    BY <1>1, <1>5
  <2> QED
    BY <1>2, <2>1
<1> QED
  BY <1>3, <1>4, <1>5

\* Numbers that with each number hold the smaller ones are the first so many.
LEMMA FirstSoMany ==
  ASSUME NEW L \in Nat, NEW T \in SUBSET (1..L), \A i \in T : \A j \in 1..i : j \in T
  PROVE  Cardinality(T) \in 0..L /\ T = 1..Cardinality(T)
<1> DEFINE m == Cardinality(T)
<1>1. IsFiniteSet(1..L) /\ Cardinality(1..L) = L
  BY FS_Interval
<1>2. IsFiniteSet(T) /\ m <= L
  BY <1>1, FS_Subset, ZenonT(60)
<1>3. m \in Nat
  BY <1>2, FS_CardinalityType
<1> HIDE DEF m
<1>4. ASSUME NEW i \in T PROVE i <= m
  <2>1. (1..i) \in SUBSET T /\ i \in Nat /\ i >= 1
    OBVIOUS
  <2>2. Cardinality(1..i) <= Cardinality(T)
    BY <1>2, <2>1, FS_Subset
  <2>3. Cardinality(1..i) = i
    BY <2>1, FS_Interval
  <2> QED
    BY <2>2, <2>3 DEF m
<1>5. T \in SUBSET (1..m)
  BY <1>3, <1>4
<1>6. IsFiniteSet(1..m) /\ Cardinality(1..m) = m
  BY <1>3, FS_Interval
<1>7. T = 1..m
  BY <1>5, <1>6, FS_Subset DEF m
<1> QED
  BY <1>2, <1>3, <1>7 DEF m

\* A set of numbers that is not empty has a least one.
LEMMA Least ==
  ASSUME NEW T \in SUBSET Nat, T # {}
  PROVE  \E x \in T : \A y \in T : x <= y
<1> DEFINE U == {0..t : t \in T}
<1>1. U \subseteq FiniteSubsetsOf(Nat) /\ U # {}
  <2>1. ASSUME NEW t \in T PROVE 0..t \in FiniteSubsetsOf(Nat)
    <3>1. IsFiniteSet(0..t)
      BY FS_Interval
    <3> QED
      BY <3>1 DEF FiniteSubsetsOf
  <2> QED
    BY <2>1
<1>2. PICK u \in U : \A v \in U : ~ (<<v, u>> \in StrictSubsetOrdering(Nat))
  <2> HIDE DEF U
  <2> QED
    BY <1>1, FS_StrictSubsetOrderingWellFounded, WFMin
<1>3. PICK x \in T : u = 0..x
  OBVIOUS
<1>4. ASSUME NEW y \in T, y < x PROVE FALSE
  <2>1. /\ 0..y \in SUBSET Nat /\ 0..x \in SUBSET Nat /\ 0..y \subseteq 0..x
        /\ x \in 0..x /\ x \notin 0..y /\ 0..y \in U
    BY <1>4
  <2> QED
    BY <1>2, <1>3, <2>1 DEF StrictSubsetOrdering
<1> QED
  BY <1>4

\* Induction over the numbers up to L, for a set of them.
LEMMA UpTo ==
  ASSUME NEW L \in Nat, NEW G \in SUBSET (0..L), 0 \in G,
         \A n \in 1..L : n - 1 \in G => n \in G
  PROVE  G = 0..L
<1> SUFFICES ASSUME (0..L) \ G # {} PROVE FALSE
  OBVIOUS
<1> DEFINE T == (0..L) \ G
<1>1. PICK n \in T : \A m \in T : n <= m
  <2>1. T \in SUBSET Nat /\ T # {}
    OBVIOUS
  <2> HIDE DEF T
  <2> QED
    BY <2>1, Least
<1>2. n # 0 /\ n - 1 \in 0..L
  BY <1>1
<1>3. n - 1 \in G
  BY <1>1, <1>2
<1> QED
  BY <1>1, <1>2, <1>3

-----------------------------------------------------------------------------
(***************************************************************************)
(* Types.  A crash leaves any first part of the writes of an operation;    *)
(* what the next one reads is typed because a page is written before it    *)
(* is linked to.                                                           *)
(***************************************************************************)
\* An inner page has one child more than keys, but for one that is not in use yet.
Arity(leaf, entries, kids) ==
  kids = <<>> \/ (~ leaf /\ Len(kids) = Len(entries) + 1)

PageNode == {node \in NodeType : Len(node.entries) <= Order /\ Arity(node.leaf, node.entries, node.kids)}

HeadWrites == [head : {TRUE}, root : Nat \cup {None}, next : Nat]

NodeWrites == [head : {FALSE}, page : Nat, node : PageNode]

PageWrites(writes) == {i \in DOMAIN writes : ~ writes[i].head}

WrittenBy(writes) == {writes[i].page : i \in PageWrites(writes)}

LinksIn(node, known) ==
  /\ node.parent \in known \cup {None}
  /\ node.prev \in known \cup {None} /\ node.next \in known \cup {None}
  /\ \A i \in DOMAIN node.kids : node.kids[i] \in known

\* Each page links only to pages that are known, or written before it.
Ready(S, known, writes) ==
  /\ writes \in Seq(S) /\ S \subseteq HeadWrites \cup NodeWrites
  /\ \A i \in PageWrites(writes) :
       LinksIn(writes[i].node, known \cup {writes[j].page : j \in {x \in PageWrites(writes) : x < i}})

\* The pages have levels: the leaves 0, a page one more than its children.
Fitting(level, p, node) ==
  /\ node.leaf <=> level[p] = 0
  /\ \A i \in DOMAIN node.kids : level[node.kids[i]] + 1 = level[p]

\* The writes of an operation hand out the page numbers below limit.
LevelWrites(level, limit, size) ==
  {w \in HeadWrites \cup NodeWrites :
     IF w.head THEN w.next = limit
     ELSE w.page < limit /\ Fitting(level, w.page, w.node) /\ level[w.page] <= size}

Typed(level, limit, pages, hd, writes, at, l, r, s, held, n) ==
  /\ unique \in BOOLEAN
  /\ hd \in [magic : BOOLEAN, root : Nat \cup {None}, next : Nat]
  /\ DOMAIN pages \subseteq 0..hd.next - 1
  /\ pages \in [DOMAIN pages -> PageNode]
  /\ level \in [Nat -> Nat] /\ limit \in Nat
  /\ limit = hd.next \/ (writes # <<>> /\ Head(writes).head)
  /\ hd.next <= limit
  /\ \A p \in DOMAIN pages :
       /\ LinksIn(pages[p], DOMAIN pages) /\ Fitting(level, p, pages[p])
       /\ level[p] < Cardinality(DOMAIN pages)
  /\ Ready(LevelWrites(level, limit, Cardinality(DOMAIN pages)), DOMAIN pages, writes)
  /\ \/ at = "idle" /\ l = None /\ r = None
     \/ /\ at = "parent" /\ s \in KeySet \X Nat /\ level[l] = level[r]
        /\ l \in DOMAIN pages \cup WrittenBy(writes) /\ r \in DOMAIN pages \cup WrittenBy(writes)
  /\ n \in 0..MaxEntries /\ held \subseteq KeySet \X (1..n)

Types ==
  \E level, limit :
    Typed(level, limit, page, head, todo, pc, left, right, sep, entered, count)

LEMMA TypesGiveTypeOK == Types => TypeOK
<1> SUFFICES ASSUME Types PROVE TypeOK
  OBVIOUS
<1>1. \A p \in DOMAIN page : p \in Nat /\ page[p] \in NodeType /\ Len(page[p].entries) <= Order
  <2>1. \A n \in Nat : 0..n - 1 \subseteq Nat
    OBVIOUS
  <2>2. head.next \in Nat /\ DOMAIN page \subseteq 0..head.next - 1 /\ page \in [DOMAIN page -> PageNode]
    BY DEF Types, Typed
  <2> QED
    BY <2>1, <2>2 DEF PageNode
<1>2. entered \subseteq KeySet \X (1..MaxEntries)
  BY BoundsAssumption DEF Types, Typed
<1> QED
  BY <1>1, <1>2 DEF Types, Typed, TypeOK

\* The type invariant speaks only of what a step may change.
LEMMA TypesNext ==
  ASSUME unique' = unique, NEW level, NEW limit,
         Typed(level, limit, page', head', todo', pc', left', right', sep', entered', count')
  PROVE  Types'
<1>1. KeySet' = KeySet
  BY DEF KeySet
<1>2. PageNode' = PageNode
  BY <1>1 DEF PageNode, NodeType
<1>3. NodeWrites' = NodeWrites
  BY <1>2 DEF NodeWrites
<1>4. Ready(LevelWrites(level, limit, Cardinality(DOMAIN page)), DOMAIN page, todo)'
  BY <1>3 DEF Typed, Ready, LevelWrites
<1>5. Typed(level, limit, page, head, todo, pc, left, right, sep, entered, count)'
  BY <1>1, <1>2, <1>4 DEF Typed
<1> QED
  BY <1>5 DEF Types

\* What a typed page is.
LEMMA NodeIs ==
  ASSUME NEW node \in PageNode
  PROVE  /\ node.leaf \in BOOLEAN
         /\ node.entries \in Seq(KeySet \X Nat) /\ Len(node.entries) \in Nat /\ Len(node.entries) <= Order
         /\ node.kids \in Seq(Nat) /\ Len(node.kids) \in Nat
         /\ node.parent \in Nat \cup {None} /\ node.prev \in Nat \cup {None} /\ node.next \in Nat \cup {None}
         /\ Arity(node.leaf, node.entries, node.kids)
BY DEF PageNode, NodeType

LEMMA NodeMade ==
  ASSUME NEW leaf \in BOOLEAN, NEW entries \in Seq(KeySet \X Nat), NEW kids \in Seq(Nat),
         NEW parent \in Nat \cup {None}, NEW prev \in Nat \cup {None}, NEW next \in Nat \cup {None},
         Len(entries) <= Order, Arity(leaf, entries, kids)
  PROVE  Node(leaf, entries, kids, parent, prev, next) \in PageNode
BY DEF PageNode, NodeType, Node

LEMMA BlankMade ==
  ASSUME NEW leaf \in BOOLEAN, NEW known
  PROVE  Blank(leaf) \in PageNode /\ LinksIn(Blank(leaf), known)
<1>1. <<>> \in Seq(KeySet \X Nat) /\ <<>> \in Seq(Nat) /\ Len(<<>>) <= Order /\ DOMAIN <<>> = {}
  BY OrderAssumption
<1>2. Blank(leaf) \in PageNode
  BY <1>1, NodeMade DEF Blank, Arity
<1>3. LinksIn(Blank(leaf), known)
  BY <1>1 DEF Blank, LinksIn, Node
<1> QED
  BY <1>2, <1>3

\* No writes, one write, and one list of writes after another.
LEMMA ReadyNone ==
  ASSUME NEW S, NEW known, S \subseteq HeadWrites \cup NodeWrites
  PROVE  Ready(S, known, <<>>) /\ WrittenBy(<<>>) = {}
<1>1. DOMAIN <<>> = {} /\ <<>> \in Seq(S)
  OBVIOUS
<1> QED
  BY <1>1 DEF Ready, WrittenBy, PageWrites

LEMMA ReadyHead ==
  ASSUME NEW S, NEW known, NEW w \in S, w.head = TRUE, S \subseteq HeadWrites \cup NodeWrites
  PROVE  Ready(S, known, <<w>>) /\ WrittenBy(<<w>>) = {}
<1>2. <<w>> \in Seq(S) /\ DOMAIN <<w>> = {1} /\ <<w>>[1] = w
  OBVIOUS
<1>3. PageWrites(<<w>>) = {}
  BY <1>2 DEF PageWrites
<1> QED
  BY <1>2, <1>3 DEF Ready, WrittenBy

LEMMA ReadyPage ==
  ASSUME NEW S, NEW known, NEW w \in S, w.head = FALSE, LinksIn(w.node, known),
         S \subseteq HeadWrites \cup NodeWrites
  PROVE  Ready(S, known, <<w>>) /\ WrittenBy(<<w>>) = {w.page}
<1>2. <<w>> \in Seq(S) /\ DOMAIN <<w>> = {1} /\ <<w>>[1] = w
  OBVIOUS
<1>3. PageWrites(<<w>>) = {1}
  BY <1>2 DEF PageWrites
<1>4. LinksIn(<<w>>[1].node, known \cup {<<w>>[j].page : j \in {x \in PageWrites(<<w>>) : x < 1}})
  BY <1>2 DEF LinksIn
<1> QED
  BY <1>2, <1>3, <1>4 DEF Ready, WrittenBy

LEMMA LinksMore ==
  ASSUME NEW node, NEW known, NEW more, known \subseteq more, LinksIn(node, known)
  PROVE  LinksIn(node, more)
BY DEF LinksIn

LEMMA Concat ==
  ASSUME NEW S, NEW s \in Seq(S), NEW t \in Seq(S)
  PROVE  /\ s \o t \in Seq(S) /\ Len(s) \in Nat /\ Len(t) \in Nat
         /\ Len(s \o t) = Len(s) + Len(t) /\ DOMAIN (s \o t) = 1..Len(s) + Len(t)
         /\ DOMAIN s = 1..Len(s) /\ DOMAIN t = 1..Len(t)
         /\ \A i \in DOMAIN s : i \in DOMAIN (s \o t) /\ (s \o t)[i] = s[i]
         /\ \A i \in DOMAIN t : Len(s) + i \in DOMAIN (s \o t) /\ (s \o t)[Len(s) + i] = t[i]
         /\ \A i \in DOMAIN (s \o t) : i \in DOMAIN s \/ (i - Len(s) \in DOMAIN t /\ i = Len(s) + (i - Len(s)))
<1>1. /\ s \o t \in Seq(S) /\ Len(s) \in Nat /\ Len(t) \in Nat
      /\ Len(s \o t) = Len(s) + Len(t) /\ DOMAIN s = 1..Len(s) /\ DOMAIN t = 1..Len(t)
      /\ \A i \in 1..Len(s) + Len(t) : (s \o t)[i] = IF i <= Len(s) THEN s[i] ELSE t[i - Len(s)]
  BY ConcatProperties
<1>2. DOMAIN (s \o t) = 1..Len(s) + Len(t)
  BY <1>1
<1>3. ASSUME NEW i \in DOMAIN t PROVE (s \o t)[Len(s) + i] = t[i]
  <2>1. Len(s) + i \in 1..Len(s) + Len(t) /\ ~ (Len(s) + i <= Len(s)) /\ Len(s) + i - Len(s) = i
    BY <1>1
  <2> QED
    BY <1>1, <2>1
<1>4. ASSUME NEW i \in DOMAIN (s \o t)
      PROVE  i \in DOMAIN s \/ (i - Len(s) \in DOMAIN t /\ i = Len(s) + (i - Len(s)))
  BY <1>1, <1>2
<1>5. \A i \in DOMAIN s : i \in DOMAIN (s \o t) /\ (s \o t)[i] = s[i]
  BY <1>1, <1>2
<1>6. \A i \in DOMAIN t : Len(s) + i \in DOMAIN (s \o t)
  BY <1>1, <1>2
<1> QED
  BY <1>1, <1>2, <1>3, <1>4, <1>5, <1>6

\* The page writes of both lists.
LEMMA ConcatPages ==
  ASSUME NEW S, NEW s \in Seq(S), NEW t \in Seq(S)
  PROVE  /\ PageWrites(s \o t) = PageWrites(s) \cup {Len(s) + i : i \in PageWrites(t)}
         /\ WrittenBy(s \o t) = WrittenBy(s) \cup WrittenBy(t)
<1>1. PageWrites(s \o t) = PageWrites(s) \cup {Len(s) + i : i \in PageWrites(t)}
  <2>1. ASSUME NEW i \in PageWrites(s \o t)
        PROVE  i \in PageWrites(s) \cup {Len(s) + j : j \in PageWrites(t)}
    <3>1. CASE i \in DOMAIN s
      BY <3>1, Concat DEF PageWrites
    <3>2. CASE i \notin DOMAIN s
      <4>1. i - Len(s) \in DOMAIN t /\ i = Len(s) + (i - Len(s))
        BY <3>2, Concat DEF PageWrites
      <4>2. (s \o t)[i] = t[i - Len(s)]
        BY <4>1, Concat
      <4>3. i - Len(s) \in PageWrites(t)
        BY <4>1, <4>2 DEF PageWrites
      <4> QED
        BY <4>1, <4>3
    <3> QED
      BY <3>1, <3>2
  <2>2. ASSUME NEW i \in PageWrites(s) PROVE i \in PageWrites(s \o t)
    BY Concat DEF PageWrites
  <2>3. ASSUME NEW i \in PageWrites(t) PROVE Len(s) + i \in PageWrites(s \o t)
    BY Concat DEF PageWrites
  <2> QED
    BY <2>1, <2>2, <2>3
<1>2. \A i \in PageWrites(s) : (s \o t)[i].page = s[i].page
  BY Concat DEF PageWrites
<1>3. \A i \in PageWrites(t) : (s \o t)[Len(s) + i].page = t[i].page
  BY Concat DEF PageWrites
<1>4. WrittenBy(s \o t) = WrittenBy(s) \cup WrittenBy(t)
  <2>1. ASSUME NEW i \in PageWrites(s \o t) PROVE (s \o t)[i].page \in WrittenBy(s) \cup WrittenBy(t)
    BY <1>1, <1>2, <1>3, ZenonT(60) DEF WrittenBy
  <2>2. ASSUME NEW i \in PageWrites(s) PROVE s[i].page \in WrittenBy(s \o t)
    <3>1. i \in PageWrites(s \o t) /\ s[i].page = (s \o t)[i].page
      BY <1>1, <1>2
    <3> QED
      BY <3>1 DEF WrittenBy
  <2>3. ASSUME NEW i \in PageWrites(t) PROVE t[i].page \in WrittenBy(s \o t)
    <3>1. Len(s) + i \in PageWrites(s \o t) /\ t[i].page = (s \o t)[Len(s) + i].page
      BY <1>1, <1>3
    <3> QED
      BY <3>1 DEF WrittenBy
  <2>4. WrittenBy(s) \cup WrittenBy(t) \subseteq WrittenBy(s \o t)
    <3>1. WrittenBy(s) \subseteq WrittenBy(s \o t)
      BY <2>2 DEF WrittenBy
    <3>2. WrittenBy(t) \subseteq WrittenBy(s \o t)
      BY <2>3 DEF WrittenBy
    <3> QED
      BY <3>1, <3>2
  <2>5. WrittenBy(s \o t) \subseteq WrittenBy(s) \cup WrittenBy(t)
    BY <2>1 DEF WrittenBy
  <2> QED
    BY <2>4, <2>5
<1> QED
  BY <1>1, <1>4

LEMMA ReadyThen ==
  ASSUME NEW S, NEW known, NEW more, NEW s, NEW t,
         Ready(S, known, s), Ready(S, more, t), more \subseteq known \cup WrittenBy(s)
  PROVE  Ready(S, known, s \o t) /\ \A p : p \in WrittenBy(s \o t) <=> p \in WrittenBy(s) \/ p \in WrittenBy(t)
<1> DEFINE u == s \o t
           Before(v, i) == {v[j].page : j \in {x \in PageWrites(v) : x < i}}
<1>1. s \in Seq(S) /\ t \in Seq(S)
  BY DEF Ready
<1>2. PageWrites(u) = PageWrites(s) \cup {Len(s) + i : i \in PageWrites(t)} /\ WrittenBy(u) = WrittenBy(s) \cup WrittenBy(t)
  BY <1>1, ConcatPages
<1>3. u \in Seq(S) /\ Len(s) \in Nat /\ DOMAIN s = 1..Len(s) /\ DOMAIN t = 1..Len(t) /\ Len(t) \in Nat
  BY <1>1, Concat
<1>4. (\A i \in DOMAIN s : u[i] = s[i]) /\ (\A i \in DOMAIN t : u[Len(s) + i] = t[i])
  BY <1>1, Concat
<1>5. PageWrites(s) \subseteq 1..Len(s) /\ PageWrites(t) \subseteq 1..Len(t)
  BY <1>3 DEF PageWrites
<1> HIDE DEF u
<1>6. ASSUME NEW i \in PageWrites(s) PROVE LinksIn(u[i].node, known \cup Before(u, i))
  <2>1. LinksIn(s[i].node, known \cup Before(s, i)) /\ u[i] = s[i]
    BY <1>3, <1>4, <1>5 DEF Ready
  <2>2. Before(s, i) \subseteq Before(u, i)
    <3>1. \A j \in PageWrites(s) : j \in PageWrites(u) /\ u[j].page = s[j].page
      BY <1>2, <1>3, <1>4, <1>5
    <3> QED
      BY <3>1
  <2> HIDE DEF Before
  <2> QED
    BY <2>1, <2>2, LinksMore
<1>7. ASSUME NEW i \in PageWrites(t) PROVE LinksIn(u[Len(s) + i].node, known \cup Before(u, Len(s) + i))
  <2>1. LinksIn(t[i].node, more \cup Before(t, i)) /\ u[Len(s) + i] = t[i]
    BY <1>3, <1>4, <1>5 DEF Ready
  <2>2. WrittenBy(s) \subseteq Before(u, Len(s) + i)
    <3>1. \A j \in PageWrites(s) : j \in PageWrites(u) /\ u[j].page = s[j].page /\ j < Len(s) + i
      BY <1>2, <1>3, <1>4, <1>5
    <3> QED
      BY <3>1 DEF WrittenBy
  <2>3. Before(t, i) \subseteq Before(u, Len(s) + i)
    <3>1. \A j \in PageWrites(t) : Len(s) + j \in PageWrites(u) /\ u[Len(s) + j].page = t[j].page
      BY <1>2, <1>3, <1>4, <1>5
    <3>2. \A j \in PageWrites(t) : j < i => Len(s) + j < Len(s) + i
      BY <1>3, <1>5
    <3> QED
      BY <3>1, <3>2
  <2> HIDE DEF Before
  <2>4. more \cup Before(t, i) \subseteq known \cup Before(u, Len(s) + i)
    BY <2>2, <2>3
  <2> QED
    BY <2>1, <2>4, LinksMore
<1>8. \A i \in PageWrites(u) : LinksIn(u[i].node, known \cup Before(u, i))
  BY <1>2, <1>6, <1>7, ZenonT(60)
<1> QED
  BY <1>2, <1>3, <1>8 DEF Ready, u

\* The first write made.
LEMMA ReadyTail ==
  ASSUME NEW S, NEW known, NEW s, Ready(S, known, s), s # <<>>
  PROVE  /\ Head(s) \in S /\ Head(s) \in HeadWrites \cup NodeWrites
         /\ Head(s).head =>
              /\ Ready(S, known, Tail(s)) /\ WrittenBy(s) = WrittenBy(Tail(s))
              /\ Head(s).root \in Nat \cup {None} /\ Head(s).next \in Nat
         /\ ~ Head(s).head =>
              /\ Ready(S, known \cup {Head(s).page}, Tail(s)) /\ WrittenBy(s) = {Head(s).page} \cup WrittenBy(Tail(s))
              /\ Head(s).page \in Nat /\ Head(s).node \in PageNode /\ LinksIn(Head(s).node, known)
<1> DEFINE t == Tail(s)
           Before(v, i) == {v[j].page : j \in {x \in PageWrites(v) : x < i}}
<1>1. s \in Seq(S) /\ S \subseteq HeadWrites \cup NodeWrites
  BY DEF Ready
<1>2. /\ Len(s) \in Nat \ {0} /\ DOMAIN s = 1..Len(s) /\ Head(s) = s[1] /\ s[1] \in S
      /\ t \in Seq(S) /\ DOMAIN t = 1..Len(s) - 1
      /\ \A i \in 1..Len(s) - 1 : t[i] = s[i + 1]
  BY <1>1, HeadTailProperties
<1> HIDE DEF t
<1>3. \A i \in PageWrites(t) : i \in 1..Len(s) - 1 /\ i + 1 \in PageWrites(s) /\ s[i + 1] = t[i]
  BY <1>2 DEF PageWrites
<1>4. \A i \in PageWrites(s) : i \in 1..Len(s) /\ (i = 1 \/ i - 1 \in PageWrites(t)) /\ (i - 1) + 1 = i
  BY <1>2 DEF PageWrites
<1>5. WrittenBy(s) = WrittenBy(t) \cup {s[i].page : i \in PageWrites(s) \cap {1}}
  <2>1. ASSUME NEW i \in PageWrites(s) PROVE s[i].page \in WrittenBy(t) \cup {s[j].page : j \in PageWrites(s) \cap {1}}
    BY <1>3, <1>4 DEF WrittenBy
  <2>2. ASSUME NEW i \in PageWrites(t) PROVE t[i].page \in WrittenBy(s)
    BY <1>3 DEF WrittenBy
  <2> QED
    BY <2>1, <2>2 DEF WrittenBy
<1>6. ASSUME NEW i \in PageWrites(t)
      PROVE  LinksIn(t[i].node, (known \cup {s[j].page : j \in PageWrites(s) \cap {1}}) \cup Before(t, i))
  <2>1. LinksIn(t[i].node, known \cup Before(s, i + 1))
    BY <1>3 DEF Ready
  <2>2. Before(s, i + 1) \subseteq Before(t, i) \cup {s[j].page : j \in PageWrites(s) \cap {1}}
    <3>1. ASSUME NEW j \in PageWrites(s), j < i + 1
          PROVE  s[j].page \in Before(t, i) \cup {s[x].page : x \in PageWrites(s) \cap {1}}
      <4>1. CASE j = 1
        BY <4>1
      <4>2. CASE j # 1
        <5>1. j - 1 \in PageWrites(t) /\ j - 1 < i /\ t[j - 1] = s[j]
          BY <1>3, <1>4, <3>1, <4>2
        <5> QED
          BY <5>1
      <4> QED
        BY <4>1, <4>2
    <3> QED
      BY <3>1
  <2> HIDE DEF Before
  <2> QED
    BY <2>1, <2>2, LinksMore
<1>7. Ready(S, known \cup {s[j].page : j \in PageWrites(s) \cap {1}}, t)
  BY <1>1, <1>2, <1>6 DEF Ready
<1>8. CASE Head(s).head
  <2>1. PageWrites(s) \cap {1} = {}
    BY <1>2, <1>8 DEF PageWrites
  <2>2. {s[j].page : j \in PageWrites(s) \cap {1}} = {}
    BY <2>1
  <2>3. Head(s) \in HeadWrites
    BY <1>1, <1>2, <1>8 DEF NodeWrites
  <2>4. Head(s).root \in Nat \cup {None} /\ Head(s).next \in Nat
    BY <2>3 DEF HeadWrites
  <2>5. Ready(S, known, t)
    BY <1>7, <2>2
  <2> QED
    BY <1>1, <1>2, <1>5, <1>8, <2>2, <2>4, <2>5 DEF t
<1>9. CASE ~ Head(s).head
  <2>1. PageWrites(s) \cap {1} = {1}
    BY <1>2, <1>9 DEF PageWrites
  <2>2. {s[j].page : j \in PageWrites(s) \cap {1}} = {Head(s).page}
    BY <1>2, <2>1
  <2>3. Head(s) \in NodeWrites
    BY <1>1, <1>2, <1>9 DEF HeadWrites
  <2>4. Head(s).page \in Nat /\ Head(s).node \in PageNode
    BY <2>3 DEF NodeWrites
  <2>5. LinksIn(s[1].node, known \cup Before(s, 1))
    BY <2>1 DEF Ready
  <2>6. Before(s, 1) = {}
    BY <1>4
  <2>7. LinksIn(Head(s).node, known)
    BY <1>2, <2>5, <2>6
  <2> HIDE DEF Before
  <2> QED
    BY <1>1, <1>2, <1>5, <1>7, <1>9, <2>2, <2>4, <2>7 DEF t
<1> QED
  BY <1>8, <1>9

-----------------------------------------------------------------------------
(***************************************************************************)
(* Walks.                                                                  *)
(***************************************************************************)
\* The equations a walk is defined by.
LEMMA WalkIs ==
  ASSUME NEW next, NEW start, Cardinality(DOMAIN page) \in Nat
  PROVE  /\ DOMAIN Walk(next, start) = 0..Cardinality(DOMAIN page) + 2
         /\ Walk(next, start)[0] = start
         /\ \A n \in 1..Cardinality(DOMAIN page) + 2 :
              Walk(next, start)[n] =
                IF Walk(next, start)[n - 1] \in DOMAIN page THEN next[Walk(next, start)[n - 1]] ELSE None
<1> DEFINE L == Cardinality(DOMAIN page) + 2
           On(p) == IF p \in DOMAIN page THEN next[p] ELSE None
           Goes(g, n) == g[0] = start /\ \A k \in 1..n : g[k] = On(g[k - 1])
           G == {n \in 0..L : \E g : Goes(g, n)}
           Body(g) == [n \in 0..L |-> IF n = 0 THEN start ELSE On(g[n - 1])]
<1>0. L \in Nat
  OBVIOUS
<1>w. Walk(next, start) = CHOOSE e : e = Body(e)
  BY DEF Walk
<1> HIDE DEF L, On
<1>1. 0 \in G
  <2>1. Goes([k \in 0..0 |-> start], 0)
    OBVIOUS
  <2>2. 0 \in 0..L
    BY <1>0
  <2> HIDE DEF Goes
  <2> QED
    BY <2>1, <2>2
<1>2. ASSUME NEW n \in 1..L, n - 1 \in G PROVE n \in G
  <2>1. PICK g : Goes(g, n - 1)
    BY <1>2
  <2> DEFINE h == [k \in 0..n |-> IF k = n THEN On(g[n - 1]) ELSE g[k]]
  <2>2. n \in Nat /\ n - 1 \in Nat
    BY <1>0
  <2>3. Goes(h, n)
    <3>1. h[0] = start
      BY <2>1, <2>2
    <3>2. ASSUME NEW k \in 1..n PROVE h[k] = On(h[k - 1])
      <4>1. CASE k = n
        <5>1. n \in 0..n /\ n - 1 \in 0..n /\ n - 1 # n
          BY <2>2
        <5>2. h[n] = On(g[n - 1]) /\ h[n - 1] = g[n - 1]
          BY <5>1
        <5> QED
          BY <4>1, <5>2
      <4>2. CASE k # n
        <5>1. k \in 1..n - 1 /\ k \in 0..n /\ k - 1 \in 0..n /\ k - 1 # n
          BY <2>2, <4>2
        <5>2. h[k] = g[k] /\ h[k - 1] = g[k - 1]
          BY <4>2, <5>1
        <5> QED
          BY <2>1, <5>1, <5>2
      <4> QED
        BY <4>1, <4>2
    <3> QED
      BY <3>1, <3>2
  <2>4. n \in 0..L
    BY <1>0
  <2> HIDE DEF Goes, h
  <2> QED
    BY <2>3, <2>4
<1>3. L \in G
  <2> HIDE DEF G
  <2>1. G = 0..L
    BY <1>0, <1>1, <1>2, UpTo DEF G
  <2> QED
    BY <1>0, <2>1
<1>4. PICK g : Goes(g, L)
  BY <1>3
<1> DEFINE h == [n \in 0..L |-> g[n]]
<1>5. h = Body(h)
  <2>1. \A n \in 0..L : g[n] = IF n = 0 THEN start ELSE On(h[n - 1])
    <3>1. \A n \in 1..L : g[n] = On(g[n - 1]) /\ h[n - 1] = g[n - 1]
      BY <1>0, <1>4
    <3>2. \A n \in 0..L : n = 0 \/ n \in 1..L
      BY <1>0
    <3> HIDE DEF h
    <3> QED
      BY <1>4, <3>1, <3>2
  <2> QED
    BY <2>1
<1> DEFINE w == Walk(next, start)
<1> HIDE DEF h
<1>6. w = Body(w)
  BY <1>5, <1>w
<1> HIDE DEF w
<1>7. DOMAIN w = 0..L /\ \A n \in 0..L : w[n] = IF n = 0 THEN start ELSE On(w[n - 1])
  BY <1>6
<1>8. 0 \in 0..L /\ \A n \in 1..L : n \in 0..L /\ n # 0
  BY <1>0
<1>9. DOMAIN w = 0..L /\ w[0] = start /\ \A n \in 1..L : w[n] = On(w[n - 1])
  BY <1>7, <1>8
<1> QED
  BY <1>9 DEF w, L, On

\* A child is one of the children.
LEMMA ChildIs ==
  ASSUME NEW node, NEW T, NEW U, node.entries \in Seq(T), node.kids \in Seq(U), NEW k
  PROVE  Child(node, k) = None \/ \E i \in DOMAIN node.kids : Child(node, k) = node.kids[i]
<1> DEFINE D == {i \in DOMAIN node.entries : node.entries[i][1] <= k}
           n == Len(node.entries)
<1>1. n \in Nat /\ DOMAIN node.entries = 1..n /\ Len(node.kids) \in Nat /\ DOMAIN node.kids = 1..Len(node.kids)
  OBVIOUS
<1>2. IsFiniteSet(1..n) /\ D \in SUBSET (1..n)
  BY <1>1, FS_Interval, SMTT(60)
<1>3. Cardinality(D) \in Nat
  <2> HIDE DEF D
  <2>1. IsFiniteSet(D)
    BY <1>2, FS_Subset
  <2> QED
    BY <2>1, FS_CardinalityType
<1>4. Child(node, k) = IF Cardinality(D) < Len(node.kids) THEN node.kids[Cardinality(D) + 1] ELSE None
  BY DEF Child
<1> HIDE DEF D
<1> QED
  BY <1>1, <1>3, <1>4

\* A search goes down from level to level and ends at a leaf.
LEMMA Descends ==
  ASSUME NEW level, NEW k, Cardinality(DOMAIN page) \in Nat,
         \A p \in DOMAIN page :
           /\ p \in Nat /\ page[p] \in NodeType /\ level[p] \in Nat
           /\ Fitting(level, p, page[p]) /\ level[p] < Cardinality(DOMAIN page)
  PROVE  FindLeaf(k) \in DOMAIN page => page[FindLeaf(k)].leaf
<1> DEFINE N == Cardinality(DOMAIN page)
           w == ToLeaf(k)
           G == {n \in 0..N + 2 : w[n] \in DOMAIN page => page[w[n]].leaf \/ level[w[n]] + n < N}
<1>0. N \in Nat /\ N + 2 \in Nat /\ None \notin DOMAIN page
  BY DEF None
<1>1. \A n \in 1..N + 2 : w[n] = IF w[n - 1] \in DOMAIN page THEN Down(k)[w[n - 1]] ELSE None
  BY WalkIs DEF ToLeaf
<1>e. FindLeaf(k) = w[N + 2]
  BY DEF FindLeaf, End
<1> HIDE DEF w
<1>2. 0 \in G
  <2>1. \A p \in DOMAIN page : level[p] + 0 < N
    BY <1>0
  <2> HIDE DEF N
  <2> QED
    BY <1>0, <2>1
<1>3. ASSUME NEW n \in 1..N + 2, n - 1 \in G PROVE n \in G
  <2>0. n \in 0..N + 2 /\ n \in Nat
    BY <1>0
  <2> SUFFICES ASSUME w[n] \in DOMAIN page PROVE page[w[n]].leaf \/ level[w[n]] + n < N
    BY <2>0
  <2>1. w[n - 1] \in DOMAIN page /\ w[n] = Down(k)[w[n - 1]]
    BY <1>0, <1>1
  <2>2. CASE page[w[n - 1]].leaf
    BY <2>1, <2>2 DEF Down
  <2>3. CASE ~ page[w[n - 1]].leaf
    <3> DEFINE node == page[w[n - 1]]
    <3>1. w[n] = Child(node, k)
      BY <2>1, <2>3 DEF Down
    <3>2. node.entries \in Seq(KeySet \X Nat) /\ node.kids \in Seq(Nat)
      BY <2>1 DEF NodeType
    <3> HIDE DEF node
    <3>3. PICK i \in DOMAIN node.kids : w[n] = node.kids[i]
      BY <1>0, <3>1, <3>2, ChildIs
    <3>4. level[w[n]] + 1 = level[w[n - 1]]
      BY <2>1, <3>3 DEF node, Fitting
    <3>5. level[w[n - 1]] + (n - 1) < N
      BY <1>3, <2>1, <2>3
    <3>6. level[w[n]] \in Nat
      OBVIOUS
    <3> QED
      BY <1>0, <2>0, <3>4, <3>5, <3>6
  <2> QED
    BY <2>2, <2>3
<1>4. G = 0..N + 2
  <2> DEFINE M == N + 2
  <2>1. M \in Nat /\ G \in SUBSET (0..M) /\ 0 \in G /\ \A n \in 1..M : n - 1 \in G => n \in G
    BY <1>0, <1>2, <1>3
  <2> HIDE DEF G, M
  <2>2. G = 0..M
    BY <2>1, UpTo
  <2> QED
    BY <2>2 DEF M
<1>5. N + 2 \in G
  BY <1>0, <1>4
<1>6. \A p \in DOMAIN page : ~ (level[p] + (N + 2) < N)
  BY <1>0
<1> HIDE DEF N
<1> QED
  BY <1>5, <1>6, <1>e

LEMMA FinitePages ==
  ASSUME NEW n \in Nat, NEW D, D \subseteq 0..n - 1
  PROVE  IsFiniteSet(D) /\ Cardinality(D) \in Nat /\ Cardinality(D) <= n
<1>1. IsFiniteSet(0..n - 1) /\ Cardinality(0..n - 1) = n
  <2>1. 0 \in Int /\ n - 1 \in Int
    OBVIOUS
  <2>2. /\ IsFiniteSet(0..n - 1)
        /\ Cardinality(0..n - 1) = IF 0 > n - 1 THEN 0 ELSE n - 1 - 0 + 1
    BY <2>1, FS_Interval
  <2> QED
    BY <2>2
<1>2. IsFiniteSet(D) /\ Cardinality(D) <= Cardinality(0..n - 1)
  BY <1>1, FS_Subset
<1> QED
  BY <1>1, <1>2, FS_CardinalityType

LEMMA FoundIsLeaf == ASSUME Types, NEW k, FindLeaf(k) \in DOMAIN page PROVE page[FindLeaf(k)].leaf
<1>1. PICK level, limit : Typed(level, limit, page, head, todo, pc, left, right, sep, entered, count)
  BY DEF Types
<1>2. head.next \in Nat /\ DOMAIN page \subseteq 0..head.next - 1 /\ level \in [Nat -> Nat]
  BY <1>1 DEF Typed
<1>3. Cardinality(DOMAIN page) \in Nat
  BY <1>2, FinitePages
<1>4. \A p \in DOMAIN page : p \in Nat
  BY <1>2
<1>5. \A p \in DOMAIN page :
        /\ page[p] \in NodeType /\ level[p] \in Nat
        /\ Fitting(level, p, page[p]) /\ level[p] < Cardinality(DOMAIN page)
  BY <1>1, <1>2, <1>4 DEF Typed, PageNode
<1> QED
  BY <1>3, <1>4, <1>5, Descends
-----------------------------------------------------------------------------
(***************************************************************************)
(* The steps keep the types.                                               *)
(***************************************************************************)
LEMMA TwoWrites == ASSUME NEW w, NEW x PROVE <<w, x>> = <<w>> \o <<x>>
<1> DEFINE S == {w, x}
           c == <<w>> \o <<x>>
<1>1. <<w>> \in Seq(S) /\ <<x>> \in Seq(S) /\ Len(<<w>>) = 1 /\ Len(<<x>>) = 1
  OBVIOUS
<1>2. c \in Seq(S) /\ Len(c) = 2 /\ c[1] = w /\ c[2] = x
  <2>1. c \in Seq(S) /\ Len(c) = 1 + 1 /\ \A i \in 1..1 + 1 : c[i] = IF i <= 1 THEN <<w>>[i] ELSE <<x>>[i - 1]
    <3> HIDE DEF S
    <3> QED
      BY <1>1, ConcatProperties
  <2> QED
    BY <2>1
<1>3. <<w, x>> \in Seq(S) /\ Len(<<w, x>>) = 2 /\ <<w, x>>[1] = w /\ <<w, x>>[2] = x
  OBVIOUS
<1> HIDE DEF c, S
<1>4. \A i \in 1..2 : c[i] = <<w, x>>[i]
  <2>1. \A i \in 1..2 : i = 1 \/ i = 2
    OBVIOUS
  <2> QED
    BY <1>2, <1>3, <2>1
<1>5. c = <<w, x>>
  <2> DEFINE d == <<w, x>>
  <2>1. d \in Seq(S) /\ Len(d) = 2 /\ \A i \in 1..2 : c[i] = d[i]
    BY <1>3, <1>4
  <2> HIDE DEF d
  <2>2. c = d
    BY <1>2, <2>1, SeqEqual
  <2> QED
    BY <2>2 DEF d
<1> QED
  BY <1>5 DEF c

\* The levels with a new page among them.
LeveledUp(level, p, n) == [level EXCEPT ![p] = n]

LEMMA HeadWriteIs ==
  ASSUME NEW level, NEW limit, NEW size, NEW root \in Nat \cup {None}, NEW next \in Nat, next = limit
  PROVE  HeadWrite(root, next) \in LevelWrites(level, limit, size)
BY DEF HeadWrite, HeadWrites, LevelWrites

LEMMA PageWriteIs ==
  ASSUME NEW level, NEW limit, NEW size, NEW p, NEW node,
         level \in [Nat -> Nat], limit \in Nat, size \in Nat, p \in Nat, node \in PageNode,
         p < limit, Fitting(level, p, node), level[p] <= size
  PROVE  PageWrite(p, node) \in LevelWrites(level, limit, size)
BY DEF PageWrite, NodeWrites, LevelWrites

\* What a write consists of.
LEMMA WriteIs ==
  /\ \A root, next : /\ HeadWrite(root, next).head = TRUE
                     /\ HeadWrite(root, next).root = root /\ HeadWrite(root, next).next = next
  /\ \A p, node : /\ PageWrite(p, node).head = FALSE
                  /\ PageWrite(p, node).page = p /\ PageWrite(p, node).node = node
BY DEF HeadWrite, PageWrite

LEMMA LevelWritesAre ==
  ASSUME NEW level, NEW limit, NEW size
  PROVE  LevelWrites(level, limit, size) \subseteq HeadWrites \cup NodeWrites
BY DEF LevelWrites

\* What is so while no write is left to be made.
LEMMA Settled ==
  ASSUME NEW level, NEW limit, todo = <<>>,
         Typed(level, limit, page, head, todo, pc, left, right, sep, entered, count)
  PROVE  /\ limit = head.next /\ head.next \in Nat /\ head.root \in Nat \cup {None} /\ WrittenBy(todo) = {}
         /\ Cardinality(DOMAIN page) \in Nat /\ level \in [Nat -> Nat]
         /\ head.next \notin DOMAIN page
         /\ \A p \in DOMAIN page :
              /\ p \in Nat /\ p < head.next /\ page[p] \in PageNode /\ LinksIn(page[p], DOMAIN page)
              /\ Fitting(level, p, page[p]) /\ level[p] \in Nat /\ level[p] < Cardinality(DOMAIN page)
<1>1. /\ limit = head.next /\ head.next \in Nat /\ head.root \in Nat \cup {None}
      /\ DOMAIN page \subseteq 0..head.next - 1 /\ level \in [Nat -> Nat]
      /\ page \in [DOMAIN page -> PageNode]
  BY DEF Typed
<1>2. WrittenBy(todo) = {}
  BY ReadyNone, LevelWritesAre
<1>3. Cardinality(DOMAIN page) \in Nat
  BY <1>1, FinitePages
<1>4. \A p \in DOMAIN page : p \in Nat /\ p < head.next
  BY <1>1
<1>5. head.next \notin DOMAIN page
  BY <1>4, <1>1
<1>6. \A p \in DOMAIN page : level[p] \in Nat
  BY <1>1, <1>4
<1> QED
  BY <1>1, <1>2, <1>3, <1>4, <1>5, <1>6 DEF Typed

\* A new page gets its level; the header and the empty page are written first.
LEMMA AllocateIs ==
  ASSUME NEW level, NEW limit, todo = <<>>,
         Typed(level, limit, page, head, todo, pc, left, right, sep, entered, count),
         NEW leaf \in BOOLEAN, NEW n \in Nat, n <= Cardinality(DOMAIN page), leaf <=> n = 0
  PROVE  LET level2 == LeveledUp(level, head.next, n)
         IN  /\ level2 \in [Nat -> Nat] /\ level2[head.next] = n /\ head.next + 1 \in Nat
             /\ \A p \in DOMAIN page : level2[p] = level[p] /\ Fitting(level2, p, page[p])
             /\ Ready(LevelWrites(level2, head.next + 1, Cardinality(DOMAIN page)), DOMAIN page, Allocate(leaf))
             /\ WrittenBy(Allocate(leaf)) = {head.next}
             /\ Allocate(leaf) # <<>> /\ Head(Allocate(leaf)).head
<1> DEFINE q == head.next
           level2 == LeveledUp(level, q, n)
           size == Cardinality(DOMAIN page)
           S == LevelWrites(level2, q + 1, size)
           a == HeadWrite(head.root, q + 1)
           b == PageWrite(q, Blank(leaf))
<1>1. /\ q \in Nat /\ head.root \in Nat \cup {None} /\ level \in [Nat -> Nat] /\ size \in Nat
      /\ q \notin DOMAIN page
      /\ \A p \in DOMAIN page :
           /\ p \in Nat /\ page[p] \in PageNode /\ LinksIn(page[p], DOMAIN page) /\ Fitting(level, p, page[p])
  BY Settled
<1>a. Allocate(leaf) = <<a, b>>
  BY DEF Allocate
<1> HIDE DEF q
<1>2. level2 \in [Nat -> Nat] /\ level2[q] = n /\ \A p \in Nat : p # q => level2[p] = level[p]
  BY <1>1 DEF LeveledUp
<1>3. \A p \in DOMAIN page : level2[p] = level[p]
  BY <1>1, <1>2
<1> HIDE DEF level2
<1>4. ASSUME NEW p \in DOMAIN page PROVE Fitting(level2, p, page[p])
  <2> DEFINE node == page[p]
  <2>1. LinksIn(node, DOMAIN page) /\ Fitting(level, p, node)
    BY <1>1
  <2>2. level2[p] = level[p] /\ \A i \in DOMAIN node.kids : level2[node.kids[i]] = level[node.kids[i]]
    BY <1>3, <2>1 DEF LinksIn
  <2> HIDE DEF node
  <2>3. Fitting(level2, p, node)
    BY <2>1, <2>2 DEF Fitting
  <2> QED
    BY <2>3 DEF node
<1>5. Blank(leaf) \in PageNode /\ LinksIn(Blank(leaf), DOMAIN page)
  BY BlankMade
<1>6. Fitting(level2, q, Blank(leaf))
  BY <1>2 DEF Fitting, Blank, Node
<1> DEFINE limit2 == q + 1
<1>l. limit2 \in Nat /\ q < limit2 /\ level2[q] <= size
  BY <1>1, <1>2
<1> HIDE DEF size, limit2
<1>7. a \in LevelWrites(level2, limit2, size) /\ a.head = TRUE
  <2>1. a = HeadWrite(head.root, limit2)
    BY DEF limit2
  <2> HIDE DEF a
  <2> QED
    BY <1>1, <1>l, <2>1, HeadWriteIs, WriteIs
<1>8. b \in LevelWrites(level2, limit2, size) /\ b.head = FALSE /\ b.page = q /\ b.node = Blank(leaf)
  <2> DEFINE node == Blank(leaf)
  <2>1. node \in PageNode /\ Fitting(level2, q, node) /\ b = PageWrite(q, node)
    BY <1>5, <1>6
  <2> HIDE DEF node, b, S, a
  <2>0. q \in Nat /\ level2 \in [Nat -> Nat] /\ size \in Nat
    BY <1>1, <1>2 DEF size
  <2>2. PageWrite(q, node) \in LevelWrites(level2, limit2, size)
    BY <1>l, <2>0, <2>1, PageWriteIs
  <2> QED
    BY <2>1, <2>2, WriteIs DEF node
<1>s. S = LevelWrites(level2, limit2, size)
  BY DEF limit2
<1>9. S \subseteq HeadWrites \cup NodeWrites
  BY LevelWritesAre
<1> HIDE DEF a, b, S
<1>10. Ready(S, DOMAIN page, <<a>>) /\ WrittenBy(<<a>>) = {}
  BY <1>7, <1>9, <1>s, ReadyHead
<1>11. Ready(S, DOMAIN page, <<b>>) /\ WrittenBy(<<b>>) = {q}
  <2>1. LinksIn(b.node, DOMAIN page) /\ b \in S
    BY <1>5, <1>8, <1>s
  <2> QED
    BY <1>8, <1>9, <2>1, ReadyPage
<1>12. <<a, b>> = <<a>> \o <<b>> /\ <<a, b>> # <<>> /\ Head(<<a, b>>) = a
  BY TwoWrites
<1> DEFINE u == <<a>>
           v == <<b>>
<1> HIDE DEF u, v
<1>13. Ready(S, DOMAIN page, u \o v) /\ \A x : x \in WrittenBy(u \o v) <=> x \in WrittenBy(u) \/ x \in WrittenBy(v)
  BY <1>10, <1>11, ReadyThen DEF u, v
<1>14. Ready(S, DOMAIN page, Allocate(leaf)) /\ WrittenBy(Allocate(leaf)) = {q}
  <2>1. Allocate(leaf) = u \o v
    BY <1>12, <1>a DEF u, v
  <2>2. WrittenBy(u) = {} /\ WrittenBy(v) = {q}
    BY <1>10, <1>11 DEF u, v
  <2> QED
    BY <1>13, <2>1, <2>2
<1>15. Ready(LevelWrites(level2, limit2, size), DOMAIN page, Allocate(leaf))
  BY <1>14, <1>s
<1>16. Allocate(leaf) # <<>> /\ Head(Allocate(leaf)).head
  BY <1>7, <1>12, <1>a
<1> QED
  BY <1>2, <1>3, <1>4, <1>14, <1>15, <1>16, <1>l DEF q, level2, limit2, size

LEMMA WithEntryType ==
  ASSUME NEW node \in PageNode, NEW e \in KeySet \X Nat
  PROVE  /\ WithEntry(node, e) \in Seq(KeySet \X Nat)
         /\ Len(WithEntry(node, e)) = Len(node.entries) + 1
<1> DEFINE T == {i \in DOMAIN node.entries : Less(node.entries[i], e)}
<1>1. node.entries \in Seq(KeySet \X Nat) /\ Len(node.entries) \in Nat /\ DOMAIN node.entries = 1..Len(node.entries)
  BY NodeIs
<1>2. Cardinality(T) \in 0..Len(node.entries)
  <2> DEFINE L == Len(node.entries)
  <2>0. L \in Nat
    BY <1>1
  <2>1. IsFiniteSet(1..Len(node.entries)) /\ Cardinality(1..Len(node.entries)) = Len(node.entries)
    BY <1>1, FS_Interval, SMTT(40)
  <2>2. T \in SUBSET (1..Len(node.entries))
    BY <1>1
  <2> HIDE DEF T, L
  <2>3. IsFiniteSet(T) /\ Cardinality(T) <= Cardinality(1..Len(node.entries))
    BY <2>1, <2>2, FS_Subset
  <2>4. Cardinality(T) \in Nat
    BY <2>3, FS_CardinalityType
  <2> QED
    BY <1>1, <2>1, <2>3, <2>4
<1>3. WithEntry(node, e) = InsertAfter(node.entries, Cardinality(T), e)
  BY DEF WithEntry
<1> DEFINE i == Cardinality(T)
           S == KeySet \X Nat
           s == node.entries
<1>4. e \in S /\ s \in Seq(S) /\ i \in 0..Len(s) /\ WithEntry(node, e) = InsertAfter(s, i, e)
  BY <1>1, <1>2, <1>3
<1> HIDE DEF i, S, s
<1>5. InsertAfter(s, i, e) \in Seq(S) /\ Len(InsertAfter(s, i, e)) = Len(s) + 1
  BY <1>4, InsertAfterIs
<1> QED
  BY <1>4, <1>5 DEF S, s

\* What an insertion begins with.
LEMMA Entering ==
  ASSUME Types, NEW k \in KeySet, Enter(k)
  PROVE  /\ FindLeaf(k) \in DOMAIN page /\ page[FindLeaf(k)] \in PageNode /\ FindLeaf(k) \in Nat
         /\ page[FindLeaf(k)].leaf
         /\ <<k, count + 1>> \in KeySet \X Nat
         /\ count' \in 0..MaxEntries /\ entered' \subseteq KeySet \X (1..count')
         /\ page' = page /\ head' = head /\ Len(WithEntry(page[FindLeaf(k)], <<k, count + 1>>)) <= Order + 1
         /\ WithEntry(page[FindLeaf(k)], <<k, count + 1>>) \in Seq(KeySet \X Nat)
<1>1. FindLeaf(k) \in DOMAIN page /\ count < MaxEntries /\ count' = count + 1 /\ todo = <<>>
      /\ entered' = entered \cup {<<k, count + 1>>} /\ page' = page /\ head' = head
  BY DEF Enter, Idle, Refuses, file
<1>2. page[FindLeaf(k)] \in PageNode /\ FindLeaf(k) \in Nat
      /\ count \in 0..MaxEntries /\ entered \subseteq KeySet \X (1..count)
  BY <1>1, Settled DEF Types, Typed
<1>3. count + 1 \in 0..MaxEntries /\ 1..count \subseteq 1..count + 1 /\ count + 1 \in 1..count + 1 /\ count + 1 \in Nat
  BY <1>1, <1>2, BoundsAssumption
<1>4. entered' \subseteq KeySet \X (1..count')
  BY <1>1, <1>2, <1>3
<1>5. <<k, count + 1>> \in KeySet \X Nat
  BY <1>3
<1>6. /\ WithEntry(page[FindLeaf(k)], <<k, count + 1>>) \in Seq(KeySet \X Nat)
      /\ Len(WithEntry(page[FindLeaf(k)], <<k, count + 1>>)) <= Order + 1
  <2>1. Len(page[FindLeaf(k)].entries) \in Nat /\ Len(page[FindLeaf(k)].entries) <= Order
    BY <1>2, NodeIs
  <2>2. /\ WithEntry(page[FindLeaf(k)], <<k, count + 1>>) \in Seq(KeySet \X Nat)
        /\ Len(WithEntry(page[FindLeaf(k)], <<k, count + 1>>)) = Len(page[FindLeaf(k)].entries) + 1
    BY <1>2, <1>5, WithEntryType
  <2> QED
    BY <2>1, <2>2, OrderAssumption
<1>7. page[FindLeaf(k)].leaf
  BY <1>1, FoundIsLeaf
<1> QED
  BY <1>1, <1>2, <1>3, <1>4, <1>5, <1>6, <1>7

\* A page with other entries, next, prev or parent.
LEMMA NodeChanged ==
  ASSUME NEW node \in PageNode, NEW known, LinksIn(node, known)
  PROVE  /\ \A es \in Seq(KeySet \X Nat) : Len(es) <= Order =>
              /\ node.leaf =>
                   /\ [node EXCEPT !.entries = es] \in PageNode /\ LinksIn([node EXCEPT !.entries = es], known)
                   /\ \A n \in Nat \cap known :
                        /\ [node EXCEPT !.entries = es, !.next = n] \in PageNode
                        /\ LinksIn([node EXCEPT !.entries = es, !.next = n], known)
              /\ \A ks \in Seq(Nat) : ~ node.leaf /\ (\A i \in DOMAIN ks : ks[i] \in known) /\ Len(ks) = Len(es) + 1 =>
                   /\ [node EXCEPT !.entries = es, !.kids = ks] \in PageNode
                   /\ LinksIn([node EXCEPT !.entries = es, !.kids = ks], known)
         /\ \A n \in Nat \cap known :
              [node EXCEPT !.prev = n] \in PageNode /\ LinksIn([node EXCEPT !.prev = n], known)
         /\ \A n \in Nat \cap known :
              [node EXCEPT !.parent = n] \in PageNode /\ LinksIn([node EXCEPT !.parent = n], known)
<1>1. ASSUME NEW es \in Seq(KeySet \X Nat), Len(es) <= Order, node.leaf
      PROVE  /\ [node EXCEPT !.entries = es] \in PageNode /\ LinksIn([node EXCEPT !.entries = es], known)
             /\ \A n \in Nat \cap known :
                  /\ [node EXCEPT !.entries = es, !.next = n] \in PageNode
                  /\ LinksIn([node EXCEPT !.entries = es, !.next = n], known)
  BY <1>1 DEF PageNode, NodeType, LinksIn, Arity
<1>2. ASSUME NEW es \in Seq(KeySet \X Nat), Len(es) <= Order, ~ node.leaf,
             NEW ks \in Seq(Nat), \A i \in DOMAIN ks : ks[i] \in known, Len(ks) = Len(es) + 1
      PROVE  /\ [node EXCEPT !.entries = es, !.kids = ks] \in PageNode
             /\ LinksIn([node EXCEPT !.entries = es, !.kids = ks], known)
  BY <1>2 DEF PageNode, NodeType, LinksIn, Arity
<1>3. ASSUME NEW n \in Nat \cap known
      PROVE  [node EXCEPT !.prev = n] \in PageNode /\ LinksIn([node EXCEPT !.prev = n], known)
  BY DEF PageNode, NodeType, LinksIn, Arity
<1>4. ASSUME NEW n \in Nat \cap known
      PROVE  [node EXCEPT !.parent = n] \in PageNode /\ LinksIn([node EXCEPT !.parent = n], known)
  BY DEF PageNode, NodeType, LinksIn, Arity
<1> QED
  BY <1>1, <1>2, <1>3, <1>4

\* Only its children tie a page to a level.
LEMMA FittingChanged ==
  ASSUME NEW level, NEW p, NEW node \in PageNode, Fitting(level, p, node)
  PROVE  /\ \A es : Fitting(level, p, [node EXCEPT !.entries = es])
         /\ \A es, n : Fitting(level, p, [node EXCEPT !.entries = es, !.next = n])
         /\ \A n : Fitting(level, p, [node EXCEPT !.prev = n])
         /\ \A n : Fitting(level, p, [node EXCEPT !.parent = n])
BY DEF PageNode, NodeType, Fitting

LEMMA OnePage ==
  ASSUME NEW level, NEW limit, NEW size, NEW known, NEW p, NEW node,
         level \in [Nat -> Nat], limit \in Nat, size \in Nat, p \in Nat, node \in PageNode,
         p < limit, Fitting(level, p, node), level[p] <= size, LinksIn(node, known)
  PROVE  /\ Ready(LevelWrites(level, limit, size), known, <<PageWrite(p, node)>>)
         /\ WrittenBy(<<PageWrite(p, node)>>) = {p}
<1> DEFINE S == LevelWrites(level, limit, size)
           w == PageWrite(p, node)
<1>1. w \in S
  BY PageWriteIs
<1>2. w.head = FALSE /\ w.page = p /\ w.node = node
  BY WriteIs
<1>3. S \subseteq HeadWrites \cup NodeWrites
  BY LevelWritesAre
<1> HIDE DEF S, w
<1>4. LinksIn(w.node, known)
  BY <1>2
<1>5. Ready(S, known, <<w>>) /\ WrittenBy(<<w>>) = {w.page}
  BY <1>1, <1>2, <1>3, <1>4, ReadyPage
<1> QED
  BY <1>2, <1>5 DEF S, w

LEMMA InsertFitsTypes ==
  ASSUME Types, unique' = unique, NEW k \in KeySet, InsertFits(k)
  PROVE  Types'
<1>0. PICK level, limit : Typed(level, limit, page, head, todo, pc, left, right, sep, entered, count)
  BY DEF Types
<1> DEFINE p == FindLeaf(k)
           all == WithEntry(page[p], <<k, count + 1>>)
           node == [page[p] EXCEPT !.entries = all]
           size == Cardinality(DOMAIN page)
<1>1. /\ Enter(k) /\ Fits(all) /\ todo' = <<PageWrite(p, node)>> /\ todo = <<>> /\ pc = "idle"
      /\ pc' = pc /\ left' = left /\ right' = right /\ sep' = sep
  BY DEF InsertFits, split, Enter, Idle
<1>2. /\ p \in DOMAIN page /\ page[p] \in PageNode /\ page[p].leaf /\ all \in Seq(KeySet \X Nat) /\ p \in Nat
      /\ count' \in 0..MaxEntries /\ entered' \subseteq KeySet \X (1..count') /\ page' = page /\ head' = head
  BY <1>1, Entering
<1>3. /\ limit = head.next /\ level \in [Nat -> Nat] /\ size \in Nat /\ limit \in Nat
      /\ LinksIn(page[p], DOMAIN page) /\ Fitting(level, p, page[p]) /\ p < limit /\ level[p] <= size
  <2>1. /\ limit = head.next /\ level \in [Nat -> Nat] /\ size \in Nat /\ head.next \in Nat
        /\ LinksIn(page[p], DOMAIN page) /\ Fitting(level, p, page[p]) /\ p < head.next
        /\ level[p] \in Nat /\ level[p] < size
    BY <1>0, <1>1, <1>2, Settled
  <2> HIDE DEF size, p
  <2> QED
    BY <2>1
<1> HIDE DEF p, all
<1>4. node \in PageNode /\ LinksIn(node, DOMAIN page)
  BY <1>1, <1>2, <1>3, NodeChanged DEF Fits
<1>5. Fitting(level, p, node)
  BY <1>2, <1>3, FittingChanged
<1> HIDE DEF node
<1>6. Ready(LevelWrites(level, limit, size), DOMAIN page, todo')
  <2> HIDE DEF size
  <2> QED
    BY <1>1, <1>2, <1>3, <1>4, <1>5, OnePage
<1>7. Typed(level, limit, page', head', todo', pc', left', right', sep', entered', count')
  BY <1>0, <1>1, <1>2, <1>3, <1>6 DEF Typed
<1> QED
  BY <1>7, TypesNext

\* A list of writes that allocates a page begins with the header.
LEMMA AllocatesFirst ==
  ASSUME NEW S, NEW T, NEW a \in Seq(S), NEW b \in Seq(T), a # <<>>
  PROVE  a \o b # <<>> /\ Head(a \o b) = Head(a)
<1>1. Len(a) \in Nat /\ Len(a) # 0
  OBVIOUS
<1> QED
  BY <1>1

LEMMA InsertSplitsTypes ==
  ASSUME Types, unique' = unique, NEW k \in KeySet, InsertSplits(k)
  PROVE  Types'
<1>0. PICK level, limit : Typed(level, limit, page, head, todo, pc, left, right, sep, entered, count)
  BY DEF Types
<1> DEFINE p == FindLeaf(k)
           r == head.next
           all == WithEntry(page[p], <<k, count + 1>>)
           half == Len(all) \div 2
           n == page[p].next
           one == [page[p] EXCEPT !.entries = SubSeq(all, 1, half), !.next = r]
           two == Node(TRUE, From(all, half + 1), <<>>, page[p].parent, p, n)
           K == DOMAIN page \cup {r}
           size == Cardinality(DOMAIN page)
           level2 == LeveledUp(level, r, 0)
           limit2 == r + 1
           S == LevelWrites(level2, limit2, size)
<1>1. /\ Enter(k) /\ ~ Fits(all) /\ todo' = Allocate(TRUE) \o LinkPrev(n, r) \o Halves(p, r, all, half)
      /\ pc' = "parent" /\ left' = p /\ right' = r /\ sep' = all[half + 1] /\ todo = <<>>
  BY DEF InsertSplits, Enter, Idle
<1>2. /\ page[p] \in PageNode /\ page[p].leaf /\ all \in Seq(KeySet \X Nat) /\ p \in DOMAIN page
      /\ p \in Nat /\ Len(all) <= Order + 1
      /\ count' \in 0..MaxEntries /\ entered' \subseteq KeySet \X (1..count') /\ page' = page /\ head' = head
  BY <1>1, Entering
<1>3. /\ r \in Nat /\ size \in Nat
      /\ \A q \in DOMAIN page :
           /\ q \in Nat /\ q < r /\ page[q] \in PageNode /\ LinksIn(page[q], DOMAIN page)
           /\ Fitting(level, q, page[q]) /\ level[q] \in Nat /\ level[q] < size
  BY <1>0, <1>1, Settled
<1>4. /\ level2 \in [Nat -> Nat] /\ level2[r] = 0 /\ limit2 \in Nat
      /\ \A q \in DOMAIN page : level2[q] = level[q] /\ Fitting(level2, q, page[q])
      /\ Ready(S, DOMAIN page, Allocate(TRUE)) /\ WrittenBy(Allocate(TRUE)) = {r}
      /\ Allocate(TRUE) # <<>> /\ Head(Allocate(TRUE)).head
  <2>1. 0 <= Cardinality(DOMAIN page) /\ (TRUE <=> 0 = 0) /\ TRUE \in BOOLEAN /\ 0 \in Nat /\ todo = <<>>
    BY <1>1, <1>3
  <2> QED
    BY <1>0, <2>1, AllocateIs
<1>5. n \in DOMAIN page \cup {None} /\ page[p].parent \in Nat \cup {None} /\ n \in Nat \cup {None}
      /\ page[p].parent \in DOMAIN page \cup {None}
  BY <1>2, <1>3, NodeIs DEF LinksIn
<1> HIDE DEF level2, size
<1>6. r < limit2 /\ level2[r] <= size /\ \A q \in DOMAIN page : q < limit2 /\ level2[q] <= size
  <2> HIDE DEF r, S
  <2>1. r < limit2 /\ level2[r] <= size
    BY <1>3, <1>4
  <2>2. ASSUME NEW q \in DOMAIN page PROVE q < limit2 /\ level2[q] <= size
    <3>1. q \in Nat /\ q < r /\ level2[q] = level[q] /\ level[q] \in Nat /\ level[q] < size /\ size \in Nat /\ r \in Nat
      BY <1>3, <1>4
    <3> QED
      BY <3>1
  <2> QED
    BY <2>1, <2>2
<1>t. level2 \in [Nat -> Nat] /\ limit2 \in Nat /\ size \in Nat /\ p \in Nat /\ r \in Nat
  BY <1>2, <1>3, <1>4
<1>s. S \subseteq HeadWrites \cup NodeWrites
  BY LevelWritesAre
<1> HIDE DEF p, r, all, n, limit2
<1>7. half \in 1..Len(all) /\ half + 1 \in 1..Len(all) /\ half <= Order /\ Len(all) - half <= Order /\ half \in Nat
      /\ half \in 0..Len(all)
  <2>0. Len(all) \in Nat
    BY <1>2
  <2>1. Len(all) > Order /\ Len(all) \in Nat
    BY <1>1, <2>0, OrderAssumption DEF Fits
  <2> QED
    BY <1>2, <2>1, OrderAssumption
<1> HIDE DEF half
<1>8. SubSeq(all, 1, half) \in Seq(KeySet \X Nat) /\ Len(SubSeq(all, 1, half)) <= Order
  BY <1>2, <1>7, FirstIs
<1>9. From(all, half + 1) \in Seq(KeySet \X Nat) /\ Len(From(all, half + 1)) <= Order
  <2>2. From(all, half + 1) \in Seq(KeySet \X Nat) /\ Len(From(all, half + 1)) = Len(all) - half
    BY <1>2, <1>7, FromIs
  <2> QED
    BY <1>7, <2>2
<1>10. one \in PageNode /\ LinksIn(one, K) /\ Fitting(level2, p, one)
  <2>1. LinksIn(page[p], K) /\ r \in Nat \cap K
    BY <1>2, <1>3, LinksMore
  <2>2. Fitting(level2, p, page[p])
    BY <1>2, <1>4
  <2> HIDE DEF K
  <2> QED
    BY <1>2, <1>8, <2>1, <2>2, NodeChanged, FittingChanged
<1>11. two \in PageNode /\ LinksIn(two, K) /\ Fitting(level2, r, two)
  <2>1. <<>> \in Seq(Nat) /\ DOMAIN <<>> = {}
    OBVIOUS
  <2>2. two \in PageNode
    BY <1>2, <1>5, <1>9, <2>1, NodeMade DEF Arity
  <2>3. LinksIn(two, K)
    BY <1>2, <1>5, <2>1 DEF LinksIn, Node
  <2>4. Fitting(level2, r, two)
    BY <1>4, <2>1 DEF Fitting, Node
  <2> QED
    BY <2>2, <2>3, <2>4
<1>12. Halves(p, r, all, half) = <<PageWrite(p, one)>> \o <<PageWrite(r, two)>>
  <2> DEFINE w == PageWrite(p, one)
             x == PageWrite(r, two)
  <2>1. Halves(p, r, all, half) = <<w, x>>
    BY DEF Halves, n
  <2> HIDE DEF w, x
  <2>2. <<w, x>> = <<w>> \o <<x>>
    BY TwoWrites
  <2> QED
    BY <2>1, <2>2 DEF w, x
<1> HIDE DEF one, two, K
<1>13. DOMAIN page \subseteq K /\ r \in K /\ \A x \in K : x \in DOMAIN page \/ x = r
  BY DEF K
<1>14. Ready(S, K, LinkPrev(n, r)) /\ WrittenBy(LinkPrev(n, r)) \subseteq K
  <2>1. CASE n = None
    BY <1>s, <2>1, ReadyNone DEF LinkPrev
  <2>2. CASE n # None
    <3> DEFINE node == [page[n] EXCEPT !.prev = r]
    <3>1. n \in DOMAIN page /\ n \in Nat
      BY <1>5, <2>2
    <3>2. page[n] \in PageNode /\ LinksIn(page[n], K) /\ Fitting(level2, n, page[n])
      BY <1>3, <1>4, <1>13, <3>1, LinksMore
    <3>3. node \in PageNode /\ LinksIn(node, K) /\ Fitting(level2, n, node)
      BY <1>t, <1>13, <3>2, NodeChanged, FittingChanged
    <3>4. LinkPrev(n, r) = <<PageWrite(n, node)>>
      BY <2>2 DEF LinkPrev
    <3>5. n < limit2 /\ level2[n] <= size
      BY <1>6, <3>1
    <3> HIDE DEF node
    <3>6. Ready(S, K, <<PageWrite(n, node)>>) /\ WrittenBy(<<PageWrite(n, node)>>) = {n}
      BY <1>t, <3>1, <3>3, <3>5, OnePage
    <3> QED
      BY <1>13, <3>1, <3>4, <3>6
  <2> QED
    BY <2>1, <2>2
<1>15. Ready(S, K, Halves(p, r, all, half)) /\ r \in WrittenBy(Halves(p, r, all, half))
  <2> DEFINE X == <<PageWrite(p, one)>>
             Y == <<PageWrite(r, two)>>
  <2>0. p < limit2 /\ level2[p] <= size
    BY <1>2, <1>6
  <2>1. Ready(S, K, X) /\ WrittenBy(X) = {p}
    BY <1>t, <1>10, <2>0, OnePage
  <2>2. Ready(S, K, Y) /\ WrittenBy(Y) = {r}
    BY <1>t, <1>6, <1>11, OnePage
  <2> HIDE DEF X, Y, S
  <2>3. Ready(S, K, X \o Y) /\ \A x : x \in WrittenBy(X \o Y) <=> x \in WrittenBy(X) \/ x \in WrittenBy(Y)
    <3>1. K \subseteq K \cup WrittenBy(X)
      OBVIOUS
    <3> QED
      BY <2>1, <2>2, <3>1, ReadyThen
  <2>4. Halves(p, r, all, half) = X \o Y
    BY <1>12 DEF X, Y
  <2> QED
    BY <2>2, <2>3, <2>4
<1> DEFINE A == Allocate(TRUE)
           L == LinkPrev(n, r)
           H == Halves(p, r, all, half)
<1>16. /\ Ready(S, DOMAIN page, A) /\ WrittenBy(A) = {r} /\ Ready(S, K, L) /\ Ready(S, K, H)
       /\ r \in WrittenBy(H) /\ todo' = (A \o L) \o H /\ A # <<>> /\ Head(A).head
  BY <1>1, <1>4, <1>14, <1>15
<1> HIDE DEF A, L, H, S
<1>17. Ready(S, DOMAIN page, A \o L) /\ \A x : x \in WrittenBy(A \o L) <=> x \in WrittenBy(A) \/ x \in WrittenBy(L)
  <2>1. K \subseteq DOMAIN page \cup WrittenBy(A)
    BY <1>13, <1>16
  <2> QED
    BY <1>16, <2>1, ReadyThen
<1> DEFINE M == A \o L
<1>18. Ready(S, DOMAIN page, M \o H) /\ \A x : x \in WrittenBy(M \o H) <=> x \in WrittenBy(M) \/ x \in WrittenBy(H)
  <2>1. Ready(S, DOMAIN page, M) /\ K \subseteq DOMAIN page \cup WrittenBy(M)
    BY <1>13, <1>16, <1>17
  <2> HIDE DEF M
  <2> QED
    BY <1>16, <2>1, ReadyThen
<1>19. Ready(S, DOMAIN page, todo') /\ r \in WrittenBy(todo')
  BY <1>16, <1>18
<1>20. todo' # <<>> /\ Head(todo').head
  <2>1. A \in Seq(S) /\ L \in Seq(S) /\ H \in Seq(S) /\ M \in Seq(S)
    BY <1>16, <1>17 DEF Ready
  <2>2. M # <<>> /\ Head(M) = Head(A)
    BY <1>16, <2>1, AllocatesFirst
  <2> HIDE DEF M
  <2>3. M \o H # <<>> /\ Head(M \o H) = Head(M)
    BY <2>1, <2>2, AllocatesFirst
  <2> QED
    BY <1>16, <2>2, <2>3 DEF M
<1>21. sep' \in KeySet \X Nat
  BY <1>1, <1>2, <1>7
<1>22. level2[p] = level2[r]
  <2>1. Fitting(level2, p, page[p])
    BY <1>2, <1>4
  <2> QED
    BY <1>2, <1>4, <2>1 DEF Fitting
<1>23. Typed(level2, limit2, page', head', todo', pc', left', right', sep', entered', count')
  <2>1. page' = page /\ head' = head /\ limit2 = head.next + 1
    BY <1>2 DEF limit2, r
  <2>2. Ready(LevelWrites(level2, limit2, Cardinality(DOMAIN page)), DOMAIN page, todo')
    BY <1>19 DEF S, size
  <2>3. \A q \in DOMAIN page : LinksIn(page[q], DOMAIN page) /\ Fitting(level2, q, page[q]) /\ level2[q] < Cardinality(DOMAIN page)
    BY <1>3, <1>4 DEF size
  <2>4. head.next <= limit2
    BY <1>3, <2>1 DEF r
  <2>5. left' \in DOMAIN page \cup WrittenBy(todo') /\ right' \in DOMAIN page \cup WrittenBy(todo') /\ level2[left'] = level2[right']
    BY <1>1, <1>2, <1>19, <1>22
  <2> QED
    BY <1>0, <1>1, <1>2, <1>4, <1>20, <1>21, <2>1, <2>2, <2>3, <2>4, <2>5 DEF Typed
<1> QED
  BY <1>23, TypesNext

\* Writes that link only to pages already known.
LEMMA ReadyAll ==
  ASSUME NEW S, NEW known, NEW s \in Seq(S), S \subseteq HeadWrites \cup NodeWrites,
         \A i \in DOMAIN s : ~ s[i].head => LinksIn(s[i].node, known)
  PROVE  Ready(S, known, s)
<1>1. ASSUME NEW i \in PageWrites(s)
      PROVE  LinksIn(s[i].node, known \cup {s[j].page : j \in {x \in PageWrites(s) : x < i}})
  <2>1. LinksIn(s[i].node, known)
    BY DEF PageWrites
  <2> QED
    BY <2>1, LinksMore
<1> QED
  BY <1>1 DEF Ready

\* While a split is to be entered in the parent, both halves are on disk.
LEMMA AscendingTypes ==
  ASSUME NEW level, NEW limit, Ascending,
         Typed(level, limit, page, head, todo, pc, left, right, sep, entered, count)
  PROVE  /\ todo = <<>> /\ left \in DOMAIN page /\ right \in DOMAIN page
         /\ sep \in KeySet \X Nat /\ level[left] = level[right]
<1>1. todo = <<>> /\ pc = "parent"
  BY DEF Ascending
<1>2. WrittenBy(todo) = {}
  BY <1>1, Settled
<1> QED
  BY <1>1, <1>2 DEF Typed

LEMMA GrowRootTypes == ASSUME Types, unique' = unique, GrowRoot PROVE Types'
<1>0. PICK level, limit : Typed(level, limit, page, head, todo, pc, left, right, sep, entered, count)
  BY DEF Types
<1> DEFINE q == head.next
           K == DOMAIN page \cup {q}
           N == Node(FALSE, <<sep>>, <<left, right>>, None, None, None)
           nl == [page[left] EXCEPT !.parent = q]
           nr == [page[right] EXCEPT !.parent = q]
           a == HeadWrite(q, q + 1)
           b == PageWrite(q, N)
           c == PageWrite(left, nl)
           d == PageWrite(right, nr)
           s == <<a, b, c, d>>
           size == Cardinality(DOMAIN page)
           n == level[left] + 1
           level2 == LeveledUp(level, q, n)
           limit2 == q + 1
           S == LevelWrites(level2, limit2, size)
           A == Allocate(FALSE)
<1>1. /\ Ascending /\ todo' = A \o s
      /\ pc' = "idle" /\ left' = None /\ right' = None
      /\ page' = page /\ head' = head /\ entered' = entered /\ count' = count
  BY DEF GrowRoot, Settle, file, history
<1>2. /\ todo = <<>> /\ left \in DOMAIN page /\ right \in DOMAIN page
      /\ sep \in KeySet \X Nat /\ level[left] = level[right]
  BY <1>0, <1>1, AscendingTypes
<1>3. /\ q \in Nat /\ size \in Nat
      /\ \A p \in DOMAIN page :
           /\ p \in Nat /\ p < q /\ page[p] \in PageNode /\ LinksIn(page[p], DOMAIN page)
           /\ Fitting(level, p, page[p]) /\ level[p] \in Nat /\ level[p] < size
  BY <1>0, <1>2, Settled
<1>n. n \in Nat /\ n <= size /\ n # 0
  BY <1>2, <1>3
<1>4. /\ level2 \in [Nat -> Nat] /\ level2[q] = n /\ limit2 \in Nat
      /\ \A p \in DOMAIN page : level2[p] = level[p] /\ Fitting(level2, p, page[p])
      /\ Ready(S, DOMAIN page, A) /\ WrittenBy(A) = {q} /\ A # <<>> /\ Head(A).head
  <2>1. n <= Cardinality(DOMAIN page) /\ (FALSE <=> n = 0) /\ FALSE \in BOOLEAN /\ n \in Nat
    BY <1>n
  <2> HIDE DEF n
  <2> QED
    BY <1>0, <1>2, <2>1, AllocateIs
<1>s. S \subseteq HeadWrites \cup NodeWrites
  BY LevelWritesAre
<1> HIDE DEF level2, size
<1>5. q < limit2 /\ level2[q] <= size
  <2>1. q \in Nat /\ level2[q] = n /\ n \in Nat /\ n <= size
    BY <1>3, <1>4, <1>n
  <2> HIDE DEF q, n, S, A, s, K
  <2> QED
    BY <2>1
<1>6. ASSUME NEW p \in DOMAIN page PROVE p < limit2 /\ level2[p] <= size
  <2> HIDE DEF q
  <2>1. p < q /\ p \in Nat /\ q \in Nat /\ level[p] < size /\ level2[p] = level[p] /\ level[p] \in Nat /\ size \in Nat
    BY <1>3, <1>4
  <2> QED
    BY <2>1
<1>t. level2 \in [Nat -> Nat] /\ limit2 \in Nat /\ size \in Nat /\ q \in Nat /\ left \in Nat /\ right \in Nat
  BY <1>2, <1>3, <1>4
<1> HIDE DEF q, n, limit2, A
<1>7. N \in PageNode /\ LinksIn(N, K) /\ Fitting(level2, q, N)
  <2>1. <<sep>> \in Seq(KeySet \X Nat) /\ Len(<<sep>>) <= Order /\ <<left, right>> \in Seq(Nat)
        /\ Len(<<sep>>) = 1 /\ Len(<<left, right>>) = 2 /\ FALSE \in BOOLEAN
    BY <1>2, <1>t, OrderAssumption
  <2>2. Arity(FALSE, <<sep>>, <<left, right>>)
    BY <2>1 DEF Arity
  <2>3. N \in PageNode
    BY <2>1, <2>2, NodeMade
  <2>4. LinksIn(N, K)
    BY <1>2 DEF LinksIn, Node
  <2>5. level2[left] + 1 = level2[q] /\ level2[right] + 1 = level2[q] /\ level2[q] # 0
    BY <1>2, <1>4, <1>n DEF n
  <2>6. Fitting(level2, q, N)
    BY <2>5 DEF Fitting, Node
  <2> QED
    BY <2>3, <2>4, <2>6
<1>8. ASSUME NEW p \in DOMAIN page
      PROVE  /\ [page[p] EXCEPT !.parent = q] \in PageNode /\ LinksIn([page[p] EXCEPT !.parent = q], K)
             /\ Fitting(level2, p, [page[p] EXCEPT !.parent = q])
  <2>1. page[p] \in PageNode /\ LinksIn(page[p], K) /\ Fitting(level2, p, page[p]) /\ q \in Nat \cap K
    BY <1>3, <1>4, LinksMore
  <2> HIDE DEF K
  <2> QED
    BY <2>1, NodeChanged, FittingChanged
<1>9. /\ nl \in PageNode /\ LinksIn(nl, K) /\ Fitting(level2, left, nl) /\ left < limit2 /\ level2[left] <= size
      /\ nr \in PageNode /\ LinksIn(nr, K) /\ Fitting(level2, right, nr) /\ right < limit2 /\ level2[right] <= size
  BY <1>2, <1>6, <1>8
<1> HIDE DEF N, nl, nr, K
<1>10. a \in S /\ a.head = TRUE
  <2>1. HeadWrite(q, limit2) \in S
    BY <1>t, HeadWriteIs
  <2> QED
    BY <2>1, WriteIs DEF limit2
<1>11. b \in S /\ b.head = FALSE /\ LinksIn(b.node, K)
  <2>1. b \in S
    BY <1>5, <1>7, <1>t, PageWriteIs
  <2>2. b.head = FALSE /\ b.node = N
    BY WriteIs
  <2> QED
    BY <1>7, <2>1, <2>2
<1>12. c \in S /\ c.head = FALSE /\ LinksIn(c.node, K)
  <2>1. c \in S
    BY <1>9, <1>t, PageWriteIs
  <2>2. c.head = FALSE /\ c.node = nl
    BY WriteIs
  <2> QED
    BY <1>9, <2>1, <2>2
<1>13. d \in S /\ d.head = FALSE /\ LinksIn(d.node, K)
  <2>1. d \in S
    BY <1>9, <1>t, PageWriteIs
  <2>2. d.head = FALSE /\ d.node = nr
    BY WriteIs
  <2> QED
    BY <1>9, <2>1, <2>2
<1> HIDE DEF a, b, c, d, S
<1>14. Ready(S, K, s)
  <2>1. s \in Seq(S) /\ DOMAIN s = 1..4 /\ s[1] = a /\ s[2] = b /\ s[3] = c /\ s[4] = d
    BY <1>10, <1>11, <1>12, <1>13
  <2>2. \A i \in 1..4 : i = 1 \/ i = 2 \/ i = 3 \/ i = 4
    OBVIOUS
  <2> HIDE DEF s
  <2>3. \A i \in DOMAIN s : ~ s[i].head => LinksIn(s[i].node, K)
    BY <1>10, <1>11, <1>12, <1>13, <2>1, <2>2
  <2> QED
    BY <1>s, <2>1, <2>3, ReadyAll
<1> HIDE DEF s
<1>15. Ready(S, DOMAIN page, A \o s)
  <2>1. K \subseteq DOMAIN page \cup WrittenBy(A)
    BY <1>4 DEF K
  <2> QED
    BY <1>4, <1>14, <2>1, ReadyThen
<1>16. todo' # <<>> /\ Head(todo').head
  <2>1. A \in Seq(S) /\ s \in Seq(S)
    BY <1>4, <1>14 DEF Ready
  <2>2. A \o s # <<>> /\ Head(A \o s) = Head(A)
    BY <1>4, <2>1, AllocatesFirst
  <2> QED
    BY <1>1, <1>4, <2>2
<1>17. Typed(level2, limit2, page', head', todo', pc', left', right', sep', entered', count')
  <2>1. page' = page /\ head' = head /\ limit2 = head.next + 1
    BY <1>1 DEF limit2, q
  <2>2. Ready(LevelWrites(level2, limit2, Cardinality(DOMAIN page)), DOMAIN page, todo')
    BY <1>1, <1>15 DEF S, size
  <2>3. \A p \in DOMAIN page : LinksIn(page[p], DOMAIN page) /\ Fitting(level2, p, page[p]) /\ level2[p] < Cardinality(DOMAIN page)
    BY <1>3, <1>4 DEF size
  <2>4. head.next <= limit2
    BY <1>3, <2>1 DEF q
  <2> QED
    BY <1>0, <1>1, <1>4, <1>16, <2>1, <2>2, <2>3, <2>4 DEF Typed
<1> QED
  BY <1>17, TypesNext

LEMMA ParentLostTypes == ASSUME Types, unique' = unique, ParentLost PROVE Types'
<1>0. PICK level, limit : Typed(level, limit, page, head, todo, pc, left, right, sep, entered, count)
  BY DEF Types
<1>1. /\ todo' = todo /\ pc' = "idle" /\ left' = None /\ right' = None
      /\ page' = page /\ head' = head /\ entered' = entered /\ count' = count
  BY DEF ParentLost, Settle, file, history
<1>2. Typed(level, limit, page', head', todo', pc', left', right', sep', entered', count')
  BY <1>0, <1>1 DEF Typed
<1> QED
  BY <1>2, TypesNext

\* The parent with the split entered, which may be one entry too many.
LEMMA EnteredAbove ==
  ASSUME NEW level, NEW limit, Ascending,
         Typed(level, limit, page, head, todo, pc, left, right, sep, entered, count),
         NEW q, q = page[left].parent, q # None, NEW i \in Position(left, page[q])
  PROVE  /\ q \in DOMAIN page /\ ~ page[q].leaf /\ i \in 1..Len(page[q].entries) + 1
         /\ Len(page[q].entries) \in Nat /\ Len(page[q].entries) <= Order
         /\ KeysAt(q, i) \in Seq(KeySet \X Nat) /\ Len(KeysAt(q, i)) = Len(page[q].entries) + 1
         /\ KidsAt(q, i) \in Seq(Nat) /\ Len(KidsAt(q, i)) = Len(page[q].entries) + 2
         /\ \A j \in DOMAIN KidsAt(q, i) :
              KidsAt(q, i)[j] \in DOMAIN page /\ level[KidsAt(q, i)[j]] + 1 = level[q]
<1> DEFINE node == page[q]
<1>1. todo = <<>> /\ left \in DOMAIN page /\ right \in DOMAIN page /\ sep \in KeySet \X Nat /\ level[left] = level[right]
  BY AscendingTypes
<1>2. \A p \in DOMAIN page :
           /\ p \in Nat /\ page[p] \in PageNode /\ LinksIn(page[p], DOMAIN page)
           /\ Fitting(level, p, page[p])
  BY <1>1, Settled
<1>3. q \in DOMAIN page
  BY <1>1, <1>2 DEF LinksIn
<1>4. node \in PageNode /\ LinksIn(node, DOMAIN page) /\ Fitting(level, q, node) /\ right \in Nat
  BY <1>1, <1>2, <1>3
<1>p. i \in DOMAIN node.kids /\ node.kids[i] = left
  BY DEF Position
<1>k. KeysAt(q, i) = InsertAfter(node.entries, i - 1, sep) /\ KidsAt(q, i) = InsertAfter(node.kids, i, right)
  BY DEF KeysAt, KidsAt
<1> HIDE DEF node
<1>5. /\ node.entries \in Seq(KeySet \X Nat) /\ Len(node.entries) \in Nat /\ Len(node.entries) <= Order
      /\ node.kids \in Seq(Nat) /\ Len(node.kids) \in Nat /\ DOMAIN node.kids = 1..Len(node.kids)
      /\ Arity(node.leaf, node.entries, node.kids)
  BY <1>4, NodeIs
<1>6. ~ node.leaf /\ Len(node.kids) = Len(node.entries) + 1
  BY <1>5, <1>p DEF Arity
<1>7. i \in 1..Len(node.entries) + 1 /\ i - 1 \in 0..Len(node.entries) /\ i \in 0..Len(node.kids)
  BY <1>5, <1>6, <1>p
<1> DEFINE m == i - 1
           S == KeySet \X Nat
<1>8. KeysAt(q, i) \in Seq(S) /\ Len(KeysAt(q, i)) = Len(node.entries) + 1
  <2>1. m \in 0..Len(node.entries) /\ node.entries \in Seq(S) /\ sep \in S /\ KeysAt(q, i) = InsertAfter(node.entries, m, sep)
    BY <1>1, <1>5, <1>7, <1>k
  <2> HIDE DEF m, S
  <2> QED
    BY <2>1, InsertAfterIs
<1>9. /\ KidsAt(q, i) \in Seq(Nat) /\ Len(KidsAt(q, i)) = Len(node.kids) + 1
      /\ \A j \in 1..Len(node.kids) + 1 :
           KidsAt(q, i)[j] = IF j <= i THEN node.kids[j] ELSE IF j = i + 1 THEN right ELSE node.kids[j - 1]
  <2> DEFINE ks == node.kids
  <2>1. right \in Nat /\ ks \in Seq(Nat) /\ i \in 0..Len(ks) /\ KidsAt(q, i) = InsertAfter(ks, i, right)
    BY <1>4, <1>5, <1>7, <1>k
  <2> HIDE DEF ks, m, S
  <2>2. /\ InsertAfter(ks, i, right) \in Seq(Nat)
        /\ Len(InsertAfter(ks, i, right)) = Len(ks) + 1
        /\ \A j \in 1..Len(ks) + 1 :
             InsertAfter(ks, i, right)[j] = IF j <= i THEN ks[j] ELSE IF j = i + 1 THEN right ELSE ks[j - 1]
    <3> HIDE DEF node
    <3>1. InsertAfter(ks, i, right) \in Seq(Nat)
      BY <2>1, InsertAfterIs
    <3>2. Len(InsertAfter(ks, i, right)) = Len(ks) + 1
      BY <2>1, InsertAfterIs
    <3>3. \A j \in 1..Len(ks) + 1 :
            InsertAfter(ks, i, right)[j] = IF j <= i THEN ks[j] ELSE IF j = i + 1 THEN right ELSE ks[j - 1]
      BY <2>1, InsertAfterIs
    <3> QED
      BY <3>1, <3>2, <3>3
  <2> QED
    BY <2>1, <2>2 DEF ks
<1> HIDE DEF m, S
<1>10. \A j \in DOMAIN node.kids : node.kids[j] \in DOMAIN page /\ level[node.kids[j]] + 1 = level[q]
  BY <1>4 DEF LinksIn, Fitting
<1>11. level[right] + 1 = level[q]
  BY <1>1, <1>10, <1>p
<1>12. ASSUME NEW j \in 1..Len(node.kids) + 1
       PROVE  KidsAt(q, i)[j] \in DOMAIN page /\ level[KidsAt(q, i)[j]] + 1 = level[q]
  <2>1. CASE j <= i
    <3>1. j \in DOMAIN node.kids
      BY <1>5, <1>7, <2>1
    <3>2. KidsAt(q, i)[j] = node.kids[j]
      BY <1>9, <2>1
    <3> QED
      BY <1>10, <3>1, <3>2
  <2>2. CASE j = i + 1
    <3>1. KidsAt(q, i)[j] = right
      BY <1>7, <1>9, <2>2
    <3> QED
      BY <1>1, <1>11, <3>1
  <2>3. CASE ~ (j <= i) /\ j # i + 1
    <3>1. j - 1 \in DOMAIN node.kids
      BY <1>5, <1>7, <2>3
    <3>2. KidsAt(q, i)[j] = node.kids[j - 1]
      BY <1>9, <2>3
    <3> QED
      BY <1>10, <3>1, <3>2
  <2> QED
    BY <2>1, <2>2, <2>3
<1>13. DOMAIN KidsAt(q, i) = 1..Len(node.kids) + 1
  BY <1>9
<1>14. \A j \in DOMAIN KidsAt(q, i) :
         KidsAt(q, i)[j] \in DOMAIN page /\ level[KidsAt(q, i)[j]] + 1 = level[q]
  BY <1>12, <1>13
<1>15. Len(KidsAt(q, i)) = Len(node.entries) + 2
  BY <1>5, <1>6, <1>9
<1>16. KidsAt(q, i) \in Seq(Nat) /\ KeysAt(q, i) \in Seq(KeySet \X Nat)
  BY <1>8, <1>9 DEF S
<1> QED
  BY <1>3, <1>5, <1>6, <1>7, <1>8, <1>14, <1>15, <1>16 DEF node
\* A page that takes a parent, one that takes keys and children.
LEMMA ParentTold ==
  ASSUME NEW level, NEW known, NEW p, NEW node, NEW q,
         node \in PageNode, LinksIn(node, known), Fitting(level, p, node), q \in Nat, q \in known
  PROVE  /\ [node EXCEPT !.parent = q] \in PageNode /\ LinksIn([node EXCEPT !.parent = q], known)
         /\ Fitting(level, p, [node EXCEPT !.parent = q])
BY NodeChanged, FittingChanged

LEMMA KidsTaken ==
  ASSUME NEW level, NEW known, NEW p, NEW node, NEW es, NEW ks,
         node \in PageNode, LinksIn(node, known), Fitting(level, p, node), ~ node.leaf,
         es \in Seq(KeySet \X Nat), Len(es) <= Order, ks \in Seq(Nat), Len(ks) = Len(es) + 1,
         \A i \in DOMAIN ks : ks[i] \in known /\ level[ks[i]] + 1 = level[p]
  PROVE  /\ [node EXCEPT !.entries = es, !.kids = ks] \in PageNode
         /\ LinksIn([node EXCEPT !.entries = es, !.kids = ks], known)
         /\ Fitting(level, p, [node EXCEPT !.entries = es, !.kids = ks])
<1>1. Fitting(level, p, [node EXCEPT !.entries = es, !.kids = ks])
  BY DEF PageNode, NodeType, Fitting
<1> QED
  BY <1>1, NodeChanged

LEMMA ParentFitsTypes == ASSUME Types, unique' = unique, ParentFits PROVE Types'
<1>0. PICK level, limit : Typed(level, limit, page, head, todo, pc, left, right, sep, entered, count)
  BY DEF Types
<1> DEFINE q == page[left].parent
           size == Cardinality(DOMAIN page)
           S == LevelWrites(level, limit, size)
           nr == [page[right] EXCEPT !.parent = q]
<1>1. /\ Ascending /\ q # None /\ pc' = "idle" /\ left' = None /\ right' = None
      /\ page' = page /\ head' = head /\ entered' = entered /\ count' = count
  BY DEF ParentFits, Settle, file, history
<1> DEFINE nq(i) == [page[q] EXCEPT !.entries = KeysAt(q, i), !.kids = KidsAt(q, i)]
<1>2. PICK i \in Position(left, page[q]) :
        Fits(KeysAt(q, i)) /\ todo' = <<PageWrite(q, nq(i)), PageWrite(right, nr)>>
  BY DEF ParentFits
<1>3. /\ q \in DOMAIN page /\ ~ page[q].leaf
      /\ KeysAt(q, i) \in Seq(KeySet \X Nat) /\ Len(KidsAt(q, i)) = Len(KeysAt(q, i)) + 1
      /\ KidsAt(q, i) \in Seq(Nat)
      /\ \A j \in DOMAIN KidsAt(q, i) :
           KidsAt(q, i)[j] \in DOMAIN page /\ level[KidsAt(q, i)[j]] + 1 = level[q]
  <2> HIDE DEF q
  <2>1. q = page[left].parent
    BY DEF q
  <2>2. /\ q \in DOMAIN page /\ ~ page[q].leaf /\ Len(page[q].entries) \in Nat
        /\ KeysAt(q, i) \in Seq(KeySet \X Nat) /\ Len(KeysAt(q, i)) = Len(page[q].entries) + 1
        /\ KidsAt(q, i) \in Seq(Nat) /\ Len(KidsAt(q, i)) = Len(page[q].entries) + 2
        /\ \A j \in DOMAIN KidsAt(q, i) :
              KidsAt(q, i)[j] \in DOMAIN page /\ level[KidsAt(q, i)[j]] + 1 = level[q]
    BY <1>0, <1>1, <2>1, EnteredAbove
  <2> QED
    BY <2>2
<1>4. todo = <<>> /\ right \in DOMAIN page
  BY <1>0, <1>1, AscendingTypes
<1>5. /\ limit = head.next /\ limit \in Nat /\ size \in Nat /\ level \in [Nat -> Nat]
      /\ \A p \in DOMAIN page :
           /\ p \in Nat /\ p < limit /\ page[p] \in PageNode /\ LinksIn(page[p], DOMAIN page)
           /\ Fitting(level, p, page[p]) /\ level[p] \in Nat /\ level[p] < size
  <2> HIDE DEF size, q
  <2>1. limit = head.next /\ head.next \in Nat /\ level \in [Nat -> Nat] /\ Cardinality(DOMAIN page) \in Nat
    <3>1. limit = head.next
      BY <1>0, <1>4, Settled
    <3>2. level \in [Nat -> Nat]
      BY <1>0, <1>4, Settled
    <3>3. Cardinality(DOMAIN page) \in Nat
      BY <1>0, <1>4, Settled
    <3>4. head.next \in Nat
      BY <1>0, <1>4, Settled
    <3> QED
      BY <3>1, <3>2, <3>3, <3>4
  <2>2. ASSUME NEW p \in DOMAIN page
        PROVE  /\ p \in Nat /\ p < head.next /\ page[p] \in PageNode /\ LinksIn(page[p], DOMAIN page)
               /\ Fitting(level, p, page[p]) /\ level[p] \in Nat /\ level[p] < Cardinality(DOMAIN page)
    BY <1>0, <1>4, Settled
  <2> QED
    BY <2>1, <2>2 DEF size
<1> HIDE DEF q, size
<1>6. q \in Nat /\ right \in Nat /\ q < limit /\ right < limit /\ level[q] <= size /\ level[right] <= size
      /\ page[q] \in PageNode /\ LinksIn(page[q], DOMAIN page) /\ Fitting(level, q, page[q])
      /\ page[right] \in PageNode /\ LinksIn(page[right], DOMAIN page) /\ Fitting(level, right, page[right])
  <2>1. \A p \in DOMAIN page : p < limit /\ level[p] <= size
    BY <1>5
  <2> QED
    BY <1>3, <1>4, <1>5, <2>1
<1>7. nr \in PageNode /\ LinksIn(nr, DOMAIN page) /\ Fitting(level, right, nr)
  BY <1>3, <1>6, ParentTold
<1>8. nq(i) \in PageNode /\ LinksIn(nq(i), DOMAIN page) /\ Fitting(level, q, nq(i))
  BY <1>2, <1>3, <1>6, KidsTaken DEF Fits
<1> DEFINE n == nq(i)
           X == <<PageWrite(q, n)>>
           Y == <<PageWrite(right, nr)>>
<1> HIDE DEF nq, nr, n
<1>t. level \in [Nat -> Nat] /\ limit \in Nat /\ size \in Nat
  BY <1>5
<1>9. Ready(S, DOMAIN page, X)
  <2>1. n \in PageNode /\ LinksIn(n, DOMAIN page) /\ Fitting(level, q, n)
    BY <1>8 DEF n
  <2> QED
    BY <1>6, <1>t, <2>1, OnePage
<1>10. Ready(S, DOMAIN page, Y)
  BY <1>6, <1>7, <1>t, OnePage
<1>11. todo' = X \o Y
  <2> DEFINE w == PageWrite(q, n)
             x == PageWrite(right, nr)
  <2>1. todo' = <<w, x>>
    BY <1>2 DEF n
  <2> HIDE DEF w, x
  <2>2. <<w, x>> = <<w>> \o <<x>>
    BY TwoWrites
  <2> QED
    BY <2>1, <2>2 DEF w, x
<1> DEFINE K == DOMAIN page
<1>12. Ready(S, K, todo')
  <2> HIDE DEF S, X, Y, K
  <2>1. K \subseteq K \cup WrittenBy(X)
    OBVIOUS
  <2>2. Ready(S, K, X) /\ Ready(S, K, Y)
    BY <1>9, <1>10 DEF K
  <2>3. Ready(S, K, X \o Y)
    BY <2>1, <2>2, ReadyThen
  <2> QED
    BY <1>11, <2>3
<1>13. Typed(level, limit, page', head', todo', pc', left', right', sep', entered', count')
  BY <1>0, <1>1, <1>5, <1>12 DEF Typed, size
<1> QED
  BY <1>13, TypesNext

\* How the children of a page that is halved are told.
LEMMA AdoptIs ==
  ASSUME NEW level, NEW limit, NEW size, NEW known, NEW r, NEW moved,
         level \in [Nat -> Nat], limit \in Nat, size \in Nat, r \in Nat, r \in known,
         moved \in Seq(Nat),
         \A j \in DOMAIN moved :
           LET p == moved[j]
           IN  /\ p < limit /\ level[p] <= size
               /\ page[p] \in PageNode /\ LinksIn(page[p], known) /\ Fitting(level, p, page[p])
  PROVE  /\ Ready(LevelWrites(level, limit, size), known, Adopt(moved, r))
         /\ Len(Adopt(moved, r)) = Len(moved)
<1> DEFINE S == LevelWrites(level, limit, size)
           s == Adopt(moved, r)
           node(j) == [page[moved[j]] EXCEPT !.parent = r]
<1>0. Len(moved) \in Nat /\ DOMAIN moved = 1..Len(moved) /\ \A j \in DOMAIN moved : moved[j] \in Nat
  BY SeqIs
<1>1. s = [j \in DOMAIN moved |-> PageWrite(moved[j], node(j))]
  BY DEF Adopt
<1>2. ASSUME NEW j \in DOMAIN moved
      PROVE  PageWrite(moved[j], node(j)) \in S /\ LinksIn(PageWrite(moved[j], node(j)).node, known)
  <2> DEFINE p == moved[j]
             nd == page[p]
  <2>1. p \in Nat /\ p < limit /\ level[p] <= size /\ nd \in PageNode /\ LinksIn(nd, known) /\ Fitting(level, p, nd)
    BY <1>0
  <2> DEFINE ne == [nd EXCEPT !.parent = r]
  <2> HIDE DEF nd
  <2>2. ne \in PageNode /\ LinksIn(ne, known) /\ Fitting(level, p, ne)
    BY <2>1, ParentTold
  <2> HIDE DEF ne, p
  <2>3. PageWrite(p, ne) \in S
    BY <2>1, <2>2, PageWriteIs
  <2>4. PageWrite(p, ne).node = ne
    BY WriteIs
  <2> QED
    BY <2>2, <2>3, <2>4 DEF ne, nd, p
<1>3. S \subseteq HeadWrites \cup NodeWrites
  BY LevelWritesAre
<1> HIDE DEF S, node
<1>4. s \in Seq(S) /\ DOMAIN s = DOMAIN moved /\ Len(s) = Len(moved)
  <2>1. s \in [1..Len(moved) -> S]
    BY <1>0, <1>1, <1>2
  <2>2. Len(moved) \in Nat
    BY <1>0
  <2> HIDE DEF s
  <2> QED
    BY <1>0, <2>1, <2>2, SeqMade
<1>5. \A i \in DOMAIN s : ~ s[i].head => LinksIn(s[i].node, known)
  BY <1>1, <1>2, <1>4
<1> HIDE DEF s
<1> QED
  BY <1>3, <1>4, <1>5, ReadyAll DEF S, s
LEMMA ParentSplitsTypes == ASSUME Types, unique' = unique, ParentSplits PROVE Types'
<1>0. PICK level, limit : Typed(level, limit, page, head, todo, pc, left, right, sep, entered, count)
  BY DEF Types
<1> DEFINE q == page[left].parent
           r == head.next
           keys(i) == KeysAt(q, i)
           kids(i) == KidsAt(q, i)
           mid(i) == Len(keys(i)) \div 2
           moved(i) == From(kids(i), mid(i) + 2)
           nq(i) == [page[q] EXCEPT !.entries = SubSeq(keys(i), 1, mid(i)), !.kids = SubSeq(kids(i), 1, mid(i) + 1)]
           nr(i) == Node(FALSE, From(keys(i), mid(i) + 2), moved(i), page[q].parent, None, None)
           size == Cardinality(DOMAIN page)
           K == DOMAIN page \cup {r}
           level2 == LeveledUp(level, r, level[q])
           limit2 == r + 1
           S == LevelWrites(level2, limit2, size)
           A == Allocate(FALSE)
<1>1. /\ Ascending /\ q # None /\ pc' = "parent" /\ left' = q /\ right' = r
      /\ page' = page /\ head' = head /\ entered' = entered /\ count' = count
  BY DEF ParentSplits, file, history
<1>2. PICK i \in Position(left, page[q]) :
        /\ ~ Fits(keys(i)) /\ sep' = keys(i)[mid(i) + 1]
        /\ todo' = A \o Adopt(moved(i), r) \o <<PageWrite(q, nq(i)), PageWrite(r, nr(i))>>
  BY DEF ParentSplits
<1>3. /\ q \in DOMAIN page /\ ~ page[q].leaf
      /\ Len(page[q].entries) \in Nat /\ Len(page[q].entries) <= Order
      /\ keys(i) \in Seq(KeySet \X Nat) /\ Len(keys(i)) = Len(page[q].entries) + 1
      /\ kids(i) \in Seq(Nat) /\ Len(kids(i)) = Len(page[q].entries) + 2
      /\ \A j \in DOMAIN kids(i) : kids(i)[j] \in DOMAIN page /\ level[kids(i)[j]] + 1 = level[q]
  <2> HIDE DEF q
  <2>1. q = page[left].parent
    BY DEF q
  <2> QED
    BY <1>0, <1>1, <2>1, EnteredAbove
<1>4. todo = <<>>
  BY <1>0, <1>1, AscendingTypes
<1>5. r \in Nat
  BY <1>0, <1>4, Settled
<1>6. size \in Nat
  BY <1>0, <1>4, Settled
<1>7. \A p \in DOMAIN page :
           /\ p \in Nat /\ p < r /\ page[p] \in PageNode /\ LinksIn(page[p], DOMAIN page)
           /\ Fitting(level, p, page[p]) /\ level[p] \in Nat /\ level[p] < size
  BY <1>0, <1>4, Settled
<1>n. level[q] \in Nat /\ level[q] <= size /\ (FALSE <=> level[q] = 0) /\ q \in Nat /\ q < r
      /\ page[q] \in PageNode /\ LinksIn(page[q], DOMAIN page)
  <2>1. Fitting(level, q, page[q]) /\ level[q] \in Nat /\ level[q] < size /\ q \in Nat /\ q < r
        /\ page[q] \in PageNode /\ LinksIn(page[q], DOMAIN page)
    BY <1>3, <1>7
  <2>2. level[q] # 0
    BY <1>3, <2>1 DEF Fitting
  <2> HIDE DEF q, size, r
  <2> QED
    BY <1>6, <2>1, <2>2
<1>8. /\ level2 \in [Nat -> Nat] /\ level2[r] = level[q] /\ limit2 \in Nat
      /\ \A p \in DOMAIN page : level2[p] = level[p] /\ Fitting(level2, p, page[p])
      /\ Ready(S, DOMAIN page, A) /\ WrittenBy(A) = {r} /\ A # <<>> /\ Head(A).head
  <2> DEFINE n == level[q]
  <2>1. n <= Cardinality(DOMAIN page) /\ (FALSE <=> n = 0) /\ FALSE \in BOOLEAN /\ n \in Nat
    BY <1>n
  <2> HIDE DEF n
  <2>2. LET lv == LeveledUp(level, head.next, n)
        IN  /\ lv \in [Nat -> Nat] /\ lv[head.next] = n /\ head.next + 1 \in Nat
            /\ \A p \in DOMAIN page : lv[p] = level[p] /\ Fitting(lv, p, page[p])
            /\ Ready(LevelWrites(lv, head.next + 1, Cardinality(DOMAIN page)), DOMAIN page, Allocate(FALSE))
            /\ WrittenBy(Allocate(FALSE)) = {head.next}
            /\ Allocate(FALSE) # <<>> /\ Head(Allocate(FALSE)).head
    BY <1>0, <1>4, <2>1, AllocateIs
  <2> QED
    BY <2>2 DEF n
<1>s. S \subseteq HeadWrites \cup NodeWrites
  BY LevelWritesAre
<1> HIDE DEF level2, size, A
<1>9. r < limit2 /\ level2[r] <= size /\ q < limit2 /\ level2[q] <= size
  <2>1. level2[q] = level[q] /\ level2[r] = level[q]
    BY <1>3, <1>8
  <2> HIDE DEF q, r
  <2> QED
    BY <1>5, <1>n, <2>1
<1>10. ASSUME NEW p \in DOMAIN page PROVE p < limit2 /\ level2[p] <= size
  <2> HIDE DEF r
  <2>1. p < r /\ p \in Nat /\ r \in Nat /\ level[p] < size /\ level2[p] = level[p] /\ level[p] \in Nat /\ size \in Nat
    BY <1>5, <1>6, <1>7, <1>8
  <2> QED
    BY <2>1
<1>t. level2 \in [Nat -> Nat] /\ limit2 \in Nat /\ size \in Nat /\ q \in Nat /\ r \in Nat
  BY <1>5, <1>6, <1>8, <1>n
<1> DEFINE ks == keys(i)
           cs == kids(i)
           m == mid(i)
           mv == moved(i)
           L == Len(page[q].entries)
<1>11. /\ L \in Nat /\ L <= Order /\ ks \in Seq(KeySet \X Nat) /\ Len(ks) = L + 1 /\ cs \in Seq(Nat) /\ Len(cs) = L + 2
       /\ m = (L + 1) \div 2 /\ mv = From(cs, m + 2) /\ L + 1 > Order
       /\ \A j \in DOMAIN cs : cs[j] \in DOMAIN page /\ level2[cs[j]] + 1 = level2[q]
       /\ level2[r] = level2[q] /\ sep' = ks[m + 1]
  <2>1. /\ L \in Nat /\ L <= Order /\ ks \in Seq(KeySet \X Nat) /\ Len(ks) = L + 1 /\ cs \in Seq(Nat) /\ Len(cs) = L + 2
        /\ m = Len(ks) \div 2 /\ mv = From(cs, m + 2) /\ sep' = ks[m + 1] /\ ~ Fits(ks)
    BY <1>2, <1>3
  <2>2. ASSUME NEW j \in DOMAIN cs PROVE cs[j] \in DOMAIN page /\ level2[cs[j]] + 1 = level2[q]
    <3>1. cs[j] \in DOMAIN page /\ level[cs[j]] + 1 = level[q]
      BY <1>3
    <3>2. level2[cs[j]] = level[cs[j]] /\ level2[q] = level[q]
      BY <1>3, <1>8, <3>1
    <3> QED
      BY <3>1, <3>2
  <2>3. level2[r] = level2[q]
    BY <1>3, <1>8
  <2> HIDE DEF ks, cs, m, mv, L, q, r
  <2>4. L + 1 > Order /\ m = (L + 1) \div 2
    BY <2>1, OrderAssumption DEF Fits
  <2> QED
    BY <2>1, <2>2, <2>3, <2>4
<1> DEFINE X == <<PageWrite(q, nq(i))>>
           Y == <<PageWrite(r, nr(i))>>
           oq == [page[q] EXCEPT !.entries = SubSeq(ks, 1, m), !.kids = SubSeq(cs, 1, m + 1)]
           or == Node(FALSE, From(ks, m + 2), mv, page[q].parent, None, None)
<1>w. X = <<PageWrite(q, oq)>> /\ Y = <<PageWrite(r, or)>>
  OBVIOUS
<1>v. todo' = A \o Adopt(mv, r) \o <<PageWrite(q, oq), PageWrite(r, or)>>
  BY <1>2
<1> HIDE DEF q, r, keys, kids, mid, moved, nq, nr, limit2, L
<1>12. m \in Nat /\ m >= 1 /\ m + 1 <= L + 1 /\ m + 1 \in 0..Len(ks) /\ m \in 0..Len(ks) /\ m + 1 \in 0..Len(cs) /\ m <= Order
  <2>1. L \in Nat /\ L <= Order /\ Len(ks) = L + 1 /\ Len(cs) = L + 2 /\ m = (L + 1) \div 2 /\ L + 1 > Order
    BY <1>11
  <2> HIDE DEF ks, cs, m
  <2> QED
    BY <2>1, OrderAssumption
<1> HIDE DEF ks, cs, m
<1> DEFINE T == KeySet \X Nat
           n == m + 1
           f == m + 2
<1>x. ks \in Seq(T) /\ cs \in Seq(Nat) /\ n = m + 1 /\ f = m + 2
      /\ m \in 0..Len(ks) /\ n \in 0..Len(cs) /\ f \in 1..Len(ks) + 1 /\ f \in 1..Len(cs) + 1
  BY <1>11, <1>12
<1>y. Len(ks) + 1 - f = L - m /\ Len(cs) + 1 - f = L + 1 - m /\ f - 1 = m + 1
  BY <1>11, <1>12
<1> HIDE DEF T, n, f, oq, or, mv, X, Y
<1>c. SubSeq(ks, 1, m) \in Seq(T) /\ Len(SubSeq(ks, 1, m)) = m
  BY <1>x, FirstIs
<1>d. From(ks, f) \in Seq(T) /\ Len(From(ks, f)) = Len(ks) + 1 - f
  <2>1. ks \in Seq(T) /\ f \in 1..Len(ks) + 1
    BY <1>x
  <2> QED
    BY <2>1, RestIs
<1>e. /\ SubSeq(cs, 1, n) \in Seq(Nat) /\ Len(SubSeq(cs, 1, n)) = n
      /\ \A j \in 1..n : SubSeq(cs, 1, n)[j] = cs[j]
  BY <1>x, FirstIs
<1>f. /\ From(cs, f) \in Seq(Nat) /\ Len(From(cs, f)) = Len(cs) + 1 - f
      /\ \A j : j \in 1..Len(cs) + 1 - f => From(cs, f)[j] = cs[f - 1 + j]
  <2> DEFINE U == Nat
  <2>1. cs \in Seq(U) /\ f \in 1..Len(cs) + 1
    BY <1>x
  <2> HIDE DEF U
  <2>2. /\ From(cs, f) \in Seq(U) /\ Len(From(cs, f)) = Len(cs) + 1 - f
        /\ \A j : j \in 1..Len(cs) + 1 - f => From(cs, f)[j] = cs[f - 1 + j]
    BY <2>1, RestIs
  <2> QED
    BY <2>2 DEF U
<1>13. SubSeq(ks, 1, m) \in Seq(KeySet \X Nat) /\ Len(SubSeq(ks, 1, m)) = m
  BY <1>c DEF T
<1>14. /\ SubSeq(cs, 1, m + 1) \in Seq(Nat) /\ Len(SubSeq(cs, 1, m + 1)) = m + 1
       /\ \A j \in 1..m + 1 : SubSeq(cs, 1, m + 1)[j] = cs[j]
  BY <1>e, <1>x
<1>15. From(ks, m + 2) \in Seq(KeySet \X Nat) /\ Len(From(ks, m + 2)) = L - m
  BY <1>d, <1>x, <1>y DEF T
<1>16. mv \in Seq(Nat) /\ Len(mv) = L + 1 - m /\ \A j \in 1..L + 1 - m : mv[j] = cs[m + 1 + j]
  BY <1>f, <1>x, <1>y, <1>11
<1>17. \A j \in DOMAIN mv : mv[j] \in DOMAIN page /\ level2[mv[j]] + 1 = level2[q]
  <2>1. ASSUME NEW j \in DOMAIN mv PROVE mv[j] \in DOMAIN page /\ level2[mv[j]] + 1 = level2[q]
    <3>1. j \in 1..L + 1 - m /\ m + 1 + j \in DOMAIN cs
      <4>1. L \in Nat /\ m \in Nat /\ m <= L /\ Len(mv) = L + 1 - m /\ mv \in Seq(Nat) /\ cs \in Seq(Nat) /\ Len(cs) = L + 2
        BY <1>11, <1>12, <1>16
      <4> HIDE DEF mv
      <4>2. DOMAIN mv = 1..Len(mv) /\ DOMAIN cs = 1..Len(cs)
        BY <4>1
      <4> QED
        BY <4>1, <4>2
    <3> QED
      BY <1>11, <1>16, <3>1
  <2> QED
    BY <2>1
<1>18. \A j \in DOMAIN SubSeq(cs, 1, m + 1) : SubSeq(cs, 1, m + 1)[j] \in DOMAIN page /\ level2[SubSeq(cs, 1, m + 1)[j]] + 1 = level2[q]
  <2>1. ASSUME NEW j \in DOMAIN SubSeq(cs, 1, m + 1)
        PROVE  SubSeq(cs, 1, m + 1)[j] \in DOMAIN page /\ level2[SubSeq(cs, 1, m + 1)[j]] + 1 = level2[q]
    <3>1. j \in 1..m + 1 /\ j \in DOMAIN cs
      BY <1>11, <1>12, <1>14
    <3> QED
      BY <1>11, <1>14, <3>1
  <2> QED
    BY <2>1
<1> HIDE DEF mv
<1>19. /\ page[q] \in PageNode /\ LinksIn(page[q], K) /\ Fitting(level2, q, page[q]) /\ ~ page[q].leaf
       /\ DOMAIN page \subseteq K /\ r \in K
  <2>1. LinksIn(page[q], DOMAIN page)
    BY <1>n
  <2>2. LinksIn(page[q], K)
    BY <2>1, LinksMore
  <2> QED
    BY <1>3, <1>8, <1>n, <2>2
<1> DEFINE e1 == SubSeq(ks, 1, m)
           c1 == SubSeq(cs, 1, m + 1)
<1>20. oq \in PageNode /\ LinksIn(oq, K) /\ Fitting(level2, q, oq)
  <2>1. e1 \in Seq(KeySet \X Nat) /\ Len(e1) <= Order /\ c1 \in Seq(Nat) /\ Len(c1) = Len(e1) + 1
        /\ \A j \in DOMAIN c1 : c1[j] \in K /\ level2[c1[j]] + 1 = level2[q]
    BY <1>12, <1>13, <1>14, <1>18, <1>19
  <2> DEFINE node == page[q]
  <2>2. node \in PageNode /\ LinksIn(node, K) /\ Fitting(level2, q, node) /\ ~ node.leaf
    BY <1>19
  <2> HIDE DEF e1, c1, K, node
  <2>3. /\ [node EXCEPT !.entries = e1, !.kids = c1] \in PageNode
        /\ LinksIn([node EXCEPT !.entries = e1, !.kids = c1], K)
        /\ Fitting(level2, q, [node EXCEPT !.entries = e1, !.kids = c1])
    BY <2>1, <2>2, KidsTaken
  <2> QED
    BY <2>3 DEF e1, c1, node, oq
<1> DEFINE e2 == From(ks, m + 2)
<1>21. or \in PageNode /\ LinksIn(or, K) /\ Fitting(level2, r, or)
  <2>1. e2 \in Seq(KeySet \X Nat) /\ Len(e2) <= Order /\ mv \in Seq(Nat) /\ Len(mv) = Len(e2) + 1
    <3>1. /\ L \in Nat /\ m \in Nat /\ m >= 1 /\ m <= L /\ L <= Order /\ Len(e2) = L - m /\ Len(mv) = L + 1 - m
          /\ e2 \in Seq(KeySet \X Nat) /\ mv \in Seq(Nat)
      BY <1>11, <1>12, <1>15, <1>16
    <3> HIDE DEF e2
    <3> QED
      BY <3>1, OrderAssumption
  <2>2. Arity(FALSE, e2, mv) /\ None \in Nat \cup {None} /\ FALSE \in BOOLEAN
    BY <2>1 DEF Arity
  <2>3. page[q].parent \in Nat \cup {None} /\ page[q].parent \in K \cup {None}
    BY <1>19, NodeIs DEF LinksIn
  <2> HIDE DEF e2, K
  <2>4. or \in PageNode
    BY <2>1, <2>2, <2>3, NodeMade DEF e2, or
  <2>5. LinksIn(or, K)
    BY <1>17, <1>19, <2>3 DEF LinksIn, Node, or
  <2>6. level2[r] # 0
    BY <1>8, <1>n
  <2>7. Fitting(level2, r, or)
    BY <1>11, <1>17, <2>6 DEF Fitting, Node, or
  <2> QED
    BY <2>4, <2>5, <2>7
<1> HIDE DEF oq, or
<1>22. Ready(S, K, X)
  BY <1>9, <1>20, <1>t, <1>w, OnePage
<1>23. Ready(S, K, Y)
  BY <1>9, <1>21, <1>t, <1>w, OnePage
<1>24. Ready(S, K, Adopt(mv, r))
  <2>1. ASSUME NEW j \in DOMAIN mv
        PROVE  LET p == mv[j]
               IN  /\ p < limit2 /\ level2[p] <= size
                   /\ page[p] \in PageNode /\ LinksIn(page[p], K) /\ Fitting(level2, p, page[p])
    <3> DEFINE p == mv[j]
    <3>1. p \in DOMAIN page
      BY <1>17
    <3> HIDE DEF p
    <3>2. p < limit2 /\ level2[p] <= size /\ page[p] \in PageNode /\ LinksIn(page[p], DOMAIN page) /\ Fitting(level2, p, page[p])
      BY <1>7, <1>8, <1>10, <3>1
    <3>3. LinksIn(page[p], K)
      BY <1>19, <3>2, LinksMore
    <3> QED
      BY <3>2, <3>3 DEF p
  <2> HIDE DEF K
  <2> QED
    BY <1>16, <1>19, <1>t, <2>1, AdoptIs
<1> DEFINE D == Adopt(mv, r)
<1>25. todo' = (A \o D) \o (X \o Y)
  <2> DEFINE w == PageWrite(q, oq)
             x == PageWrite(r, or)
  <2>1. X = <<w>> /\ Y = <<x>> /\ todo' = (A \o D) \o <<w, x>>
    BY <1>v, <1>w
  <2> HIDE DEF w, x, X, Y
  <2>2. <<w, x>> = <<w>> \o <<x>>
    BY TwoWrites
  <2> QED
    BY <2>1, <2>2
<1> HIDE DEF X, Y, D, S, K
<1>26. K \subseteq DOMAIN page \cup WrittenBy(A)
  BY <1>8 DEF K
<1>27. Ready(S, DOMAIN page, A \o D) /\ \A x : x \in WrittenBy(A \o D) <=> x \in WrittenBy(A) \/ x \in WrittenBy(D)
  <2>1. Ready(S, K, D)
    BY <1>24 DEF D
  <2> QED
    BY <1>8, <1>26, <2>1, ReadyThen
<1> DEFINE M == A \o D
           N == X \o Y
<1>28. Ready(S, K, N)
  <2>1. K \subseteq K \cup WrittenBy(X)
    OBVIOUS
  <2> QED
    BY <1>22, <1>23, <2>1, ReadyThen
<1>29. Ready(S, DOMAIN page, M \o N) /\ \A x : x \in WrittenBy(M \o N) <=> x \in WrittenBy(M) \/ x \in WrittenBy(N)
  <2>1. Ready(S, DOMAIN page, M) /\ K \subseteq DOMAIN page \cup WrittenBy(M)
    BY <1>26, <1>27
  <2> HIDE DEF M, N
  <2> QED
    BY <1>28, <2>1, ReadyThen
<1>30. Ready(S, DOMAIN page, todo') /\ r \in WrittenBy(todo')
  BY <1>8, <1>25, <1>27, <1>29
<1>31. todo' # <<>> /\ Head(todo').head
  <2>1. A \in Seq(S) /\ D \in Seq(S) /\ M \in Seq(S) /\ N \in Seq(S)
    BY <1>8, <1>24, <1>27, <1>28 DEF Ready, D
  <2>2. M # <<>> /\ Head(M) = Head(A)
    BY <1>8, <2>1, AllocatesFirst
  <2> HIDE DEF M, N
  <2>3. M \o N # <<>> /\ Head(M \o N) = Head(M)
    BY <2>1, <2>2, AllocatesFirst
  <2>4. todo' = M \o N
    BY <1>25 DEF M, N
  <2> QED
    BY <1>8, <2>2, <2>3, <2>4
<1>32. sep' \in KeySet \X Nat
  <2>1. m + 1 \in DOMAIN ks
    BY <1>11, <1>12
  <2> QED
    BY <1>11, <2>1, SeqIs
<1>33. Typed(level2, limit2, page', head', todo', pc', left', right', sep', entered', count')
  <2>1. page' = page /\ head' = head /\ limit2 = head.next + 1
    BY <1>1 DEF limit2, r
  <2>2. Ready(LevelWrites(level2, limit2, Cardinality(DOMAIN page)), DOMAIN page, todo')
    BY <1>30 DEF S, size
  <2>3. \A p \in DOMAIN page : LinksIn(page[p], DOMAIN page) /\ Fitting(level2, p, page[p]) /\ level2[p] < Cardinality(DOMAIN page)
    BY <1>7, <1>8 DEF size
  <2>4. head.next <= limit2
    BY <1>5, <2>1 DEF r
  <2>5. left' \in DOMAIN page \cup WrittenBy(todo') /\ right' \in DOMAIN page \cup WrittenBy(todo') /\ level2[left'] = level2[right']
    BY <1>1, <1>3, <1>11, <1>30
  <2> QED
    BY <1>0, <1>1, <1>8, <1>31, <1>32, <2>1, <2>2, <2>3, <2>4, <2>5 DEF Typed
<1> QED
  BY <1>33, TypesNext

\* A sequence without one of its elements.
LEMMA WithoutIs ==
  ASSUME NEW S, NEW s, NEW i, s \in Seq(S), i \in DOMAIN s
  PROVE  /\ Without(s, i) \in Seq(S) /\ Len(Without(s, i)) = Len(s) - 1
         /\ \A j : j \in 1..Len(s) - 1 => Without(s, i)[j] = IF j < i THEN s[j] ELSE s[j + 1]
<1> DEFINE n == i - 1
           f == i + 1
           a == SubSeq(s, 1, n)
           b == From(s, f)
<1>1. Len(s) \in Nat /\ i \in Nat /\ i >= 1 /\ i <= Len(s)
  OBVIOUS
<1>2. n \in 0..Len(s) /\ f \in 1..Len(s) + 1 /\ n = i - 1 /\ f = i + 1 /\ Without(s, i) = a \o b
  BY <1>1 DEF Without
<1> HIDE DEF n, f
<1>3. a \in Seq(S) /\ Len(a) = n /\ \A j \in 1..n : a[j] = s[j]
  BY <1>2, FirstIs
<1>4. b \in Seq(S) /\ Len(b) = Len(s) + 1 - f /\ \A j : j \in 1..Len(s) + 1 - f => b[j] = s[f - 1 + j]
  <2>1. f \in 1..Len(s) + 1
    BY <1>2
  <2> HIDE DEF a, n
  <2> QED
    BY <2>1, RestIs, SMTT(40)
<1> HIDE DEF a, b
<1>5. /\ a \o b \in Seq(S) /\ Len(a \o b) = Len(a) + Len(b)
      /\ \A j \in 1..Len(a) + Len(b) : (a \o b)[j] = IF j <= Len(a) THEN a[j] ELSE b[j - Len(a)]
  BY <1>3, <1>4, ConcatProperties
<1>6. Len(a) + Len(b) = Len(s) - 1
  <2>1. Len(a) = n /\ Len(b) = Len(s) + 1 - f
    BY <1>3, <1>4
  <2>2. n + (Len(s) + 1 - f) = Len(s) - 1
    <3>1. n = i - 1 /\ f = i + 1
      BY <1>2
    <3> QED
      BY <1>1, <3>1
  <2> QED
    BY <2>1, <2>2
<1>7. ASSUME NEW j, j \in 1..Len(s) - 1 PROVE (a \o b)[j] = IF j < i THEN s[j] ELSE s[j + 1]
  <2>1. j \in Nat /\ 1 <= j /\ j <= Len(s) - 1 /\ (a \o b)[j] = IF j <= n THEN a[j] ELSE b[j - n]
    BY <1>1, <1>3, <1>5, <1>6, <1>7
  <2>2. CASE j < i
    <3>1. j \in 1..n /\ j <= n
      BY <1>1, <1>2, <2>1, <2>2
    <3> QED
      BY <1>3, <2>1, <2>2, <3>1
  <2>3. CASE ~ (j < i)
    <3>1. ~ (j <= n) /\ j - n \in 1..Len(s) + 1 - f /\ f - 1 + (j - n) = j + 1
      BY <1>1, <1>2, <2>1, <2>3, SMTT(60)
    <3>2. b[j - n] = s[f - 1 + (j - n)]
      BY <1>4, <3>1
    <3> QED
      BY <2>1, <2>3, <3>1, <3>2
  <2> QED
    BY <2>2, <2>3
<1> QED
  BY <1>2, <1>5, <1>6, <1>7

LEMMA DeleteEntryTypes ==
  ASSUME Types, unique' = unique, NEW e \in KeySet \X (1..MaxEntries), DeleteEntry(e)
  PROVE  Types'
<1>0. PICK level, limit : Typed(level, limit, page, head, todo, pc, left, right, sep, entered, count)
  BY DEF Types
<1> DEFINE p == FindLeaf(e[1])
<1>1. /\ todo = <<>> /\ pc = "idle" /\ p \in DOMAIN page /\ entered' = entered \ {e} /\ head' = head /\ todo' = todo
      /\ pc' = pc /\ left' = left /\ right' = right /\ sep' = sep /\ count' = count
  BY DEF DeleteEntry, Idle, split
<1>2. PICK i \in DOMAIN page[p].entries : page' = [page EXCEPT ![p].entries = Without(@, i)]
  BY DEF DeleteEntry
<1>3. page[p].leaf
  BY <1>1, FoundIsLeaf
<1> HIDE DEF p
<1>4. /\ p \in Nat /\ page[p] \in PageNode /\ LinksIn(page[p], DOMAIN page) /\ Fitting(level, p, page[p])
      /\ page \in [DOMAIN page -> PageNode]
  <2>1. page \in [DOMAIN page -> PageNode]
    BY <1>0 DEF Typed
  <2> QED
    BY <1>0, <1>1, <2>1, Settled
<1> DEFINE es == Without(page[p].entries, i)
           node == [page[p] EXCEPT !.entries = es]
<1>5. es \in Seq(KeySet \X Nat) /\ Len(es) <= Order
  <2> DEFINE s == page[p].entries
             T == KeySet \X Nat
  <2>1. s \in Seq(T) /\ Len(s) \in Nat /\ Len(s) <= Order /\ i \in DOMAIN s
    BY <1>4, NodeIs
  <2> HIDE DEF s, T
  <2>2. Without(s, i) \in Seq(T) /\ Len(Without(s, i)) = Len(s) - 1
    BY <2>1, WithoutIs
  <2>3. Without(s, i) \in Seq(T) /\ Len(Without(s, i)) <= Order
    BY <2>1, <2>2, OrderAssumption
  <2> QED
    BY <2>3 DEF s, T
<1>6. page' = [page EXCEPT ![p] = node]
  BY <1>2
<1> HIDE DEF es
<1>7. node \in PageNode /\ LinksIn(node, DOMAIN page) /\ Fitting(level, p, node)
  BY <1>3, <1>4, <1>5, NodeChanged, FittingChanged
<1> HIDE DEF node
<1>8. DOMAIN page' = DOMAIN page /\ page' \in [DOMAIN page -> PageNode]
  BY <1>1, <1>4, <1>6, <1>7
<1>9. \A q \in DOMAIN page : page'[q] = IF q = p THEN node ELSE page[q]
  BY <1>1, <1>4, <1>6
<1>10. \A q \in DOMAIN page : LinksIn(page'[q], DOMAIN page) /\ Fitting(level, q, page'[q])
  BY <1>0, <1>7, <1>9 DEF Typed
<1>11. entered' \subseteq KeySet \X (1..count)
  BY <1>0, <1>1 DEF Typed
<1>12. Typed(level, limit, page', head', todo', pc', left', right', sep', entered', count')
  <2>1. \A q \in DOMAIN page : level[q] < Cardinality(DOMAIN page)
    BY <1>0 DEF Typed
  <2> QED
    BY <1>0, <1>1, <1>8, <1>10, <1>11, <2>1 DEF Typed
<1> QED
  BY <1>12, TypesNext

\* A first page alone is a tree of one level.
LEMMA OneLevel ==
  ASSUME NEW size \in Nat, NEW known
  PROVE  LET level == [n \in Nat |-> 0]
         IN  /\ level \in [Nat -> Nat] /\ level[0] = 0 /\ Fitting(level, 0, Blank(TRUE))
             /\ Ready(LevelWrites(level, 1, size), known, BlankFile)
<1> DEFINE level == [n \in Nat |-> 0]
           S == LevelWrites(level, 1, size)
           a == HeadWrite(0, 1)
           b == PageWrite(0, Blank(TRUE))
<1>1. level \in [Nat -> Nat] /\ level[0] = 0 /\ \A n \in Nat : level[n] = 0
  OBVIOUS
<1> HIDE DEF level
<1>2. Blank(TRUE) \in PageNode /\ LinksIn(Blank(TRUE), known)
  BY BlankMade
<1>3. Fitting(level, 0, Blank(TRUE))
  BY <1>1 DEF Fitting, Blank, Node
<1>4. Ready(S, known, <<b>>)
  <2>1. 0 < 1 /\ 1 \in Nat /\ 0 \in Nat /\ level[0] <= size
    BY <1>1
  <2> QED
    BY <1>1, <1>2, <1>3, <2>1, OnePage
<1>5. a \in S /\ a.head = TRUE /\ S \subseteq HeadWrites \cup NodeWrites
  <2>1. 0 \in Nat \cup {None} /\ 1 \in Nat
    OBVIOUS
  <2> QED
    BY <2>1, HeadWriteIs, WriteIs, LevelWritesAre
<1>6. Ready(S, known, <<a>>) /\ known \subseteq known \cup WrittenBy(<<a>>)
  <2> HIDE DEF S, a
  <2> QED
    BY <1>5, ReadyHead
<1>7. Ready(S, known, <<a>> \o <<b>>)
  <2> HIDE DEF S, a, b
  <2> QED
    BY <1>4, <1>6, ReadyThen
<1>8. BlankFile = <<a>> \o <<b>>
  <2>1. BlankFile = <<a, b>>
    BY DEF BlankFile
  <2> HIDE DEF a, b
  <2> QED
    BY <2>1, TwoWrites
<1> QED
  BY <1>1, <1>3, <1>7, <1>8 DEF level

LEMMA RebuildTypes == ASSUME Types, unique' = unique, Rebuild PROVE Types'
<1>0. PICK level, limit : Typed(level, limit, page, head, todo, pc, left, right, sep, entered, count)
  BY DEF Types
<1> DEFINE lv == [n \in Nat |-> 0]
<1>1. /\ pc = "idle" /\ head' = [magic |-> FALSE, root |-> None, next |-> 0]
      /\ page' = [p \in {} |-> Blank(TRUE)] /\ todo' = BlankFile
      /\ entered' = {} /\ count' = 0 /\ pc' = pc /\ left' = left /\ right' = right
  BY DEF Rebuild, Start, Idle, split
<1>2. DOMAIN page' = {} /\ page' \in [DOMAIN page' -> PageNode] /\ Cardinality({}) = 0
  BY <1>1, FS_EmptySet
<1>3. lv \in [Nat -> Nat] /\ Ready(LevelWrites(lv, 1, 0), {}, BlankFile)
  BY OneLevel
<1> HIDE DEF lv
<1>4. BlankFile # <<>> /\ Head(BlankFile).head
  BY DEF BlankFile, HeadWrite
<1>5. head' \in [magic : BOOLEAN, root : Nat \cup {None}, next : Nat] /\ head'.next = 0
  BY <1>1
<1>6. Typed(lv, 1, page', head', todo', pc', left', right', sep', entered', count')
  <2>1. DOMAIN page' \subseteq 0..head'.next - 1 /\ head'.next <= 1 /\ 1 \in Nat
    BY <1>2, <1>5
  <2>2. Ready(LevelWrites(lv, 1, Cardinality(DOMAIN page')), DOMAIN page', todo') /\ todo' # <<>> /\ Head(todo').head
    BY <1>1, <1>2, <1>3, <1>4
  <2>3. count' \in 0..MaxEntries /\ entered' \subseteq KeySet \X (1..count')
    BY <1>1, BoundsAssumption
  <2>4. unique \in BOOLEAN /\ pc' = "idle" /\ left' = None /\ right' = None
    BY <1>0, <1>1 DEF Typed
  <2> QED
    BY <1>2, <1>3, <1>5, <2>1, <2>2, <2>3, <2>4 DEF Typed
<1> QED
  BY <1>6, TypesNext

LEMMA InitTypes == ASSUME Init PROVE Types
<1> DEFINE lv == [n \in Nat |-> 0]
<1>1. DOMAIN page = {0} /\ page[0] = Blank(TRUE) /\ Blank(TRUE) \in PageNode /\ LinksIn(Blank(TRUE), {0})
  BY BlankMade DEF Init
<1>2. page \in [{0} -> PageNode] /\ Cardinality({0}) = 1
  BY <1>1, FS_Singleton DEF Init
<1>3. lv \in [Nat -> Nat] /\ lv[0] = 0 /\ Fitting(lv, 0, Blank(TRUE))
  BY OneLevel
<1> HIDE DEF lv
<1>4. Ready(LevelWrites(lv, 1, 1), {0}, <<>>)
  BY ReadyNone, LevelWritesAre
<1>5. head \in [magic : BOOLEAN, root : Nat \cup {None}, next : Nat] /\ head.next = 1
  BY DEF Init
<1>6. Typed(lv, 1, page, head, todo, pc, left, right, sep, entered, count)
  <2>1. DOMAIN page \subseteq 0..head.next - 1 /\ head.next <= 1 /\ 1 \in Nat /\ 1 = head.next
    BY <1>1, <1>5
  <2>2. Ready(LevelWrites(lv, 1, Cardinality(DOMAIN page)), DOMAIN page, todo)
    BY <1>1, <1>2, <1>4 DEF Init
  <2>3. count \in 0..MaxEntries /\ entered \subseteq KeySet \X (1..count)
    BY BoundsAssumption DEF Init
  <2>4. unique \in BOOLEAN /\ pc = "idle" /\ left = None /\ right = None
    BY DEF Init
  <2>5. \A p \in DOMAIN page :
          LinksIn(page[p], DOMAIN page) /\ Fitting(lv, p, page[p]) /\ lv[p] < Cardinality(DOMAIN page)
    <3>1. \A p \in DOMAIN page : p = 0 /\ page[p] = Blank(TRUE)
      BY <1>1
    <3>2. LinksIn(Blank(TRUE), DOMAIN page) /\ Fitting(lv, 0, Blank(TRUE))
      BY <1>1, <1>3
    <3>3. Cardinality(DOMAIN page) = 1 /\ lv[0] = 0 /\ 0 < 1
      <4>1. DOMAIN page = {0}
        BY <1>1
      <4> QED
        BY <1>2, <1>3, <4>1
    <3> QED
      BY <3>1, <3>2, <3>3
  <2>6. page \in [DOMAIN page -> PageNode]
    BY <1>1, <1>2
  <2> QED
    BY <1>3, <1>5, <2>1, <2>2, <2>3, <2>4, <2>5, <2>6 DEF Typed
<1> QED
  BY <1>6 DEF Types
LEMMA CrashTypes == ASSUME Types, unique' = unique, Crash PROVE Types'
<1>0. PICK level, limit : Typed(level, limit, page, head, todo, pc, left, right, sep, entered, count)
  BY DEF Types
<1>1. /\ todo' = <<>> /\ pc' = "idle" /\ left' = None /\ right' = None
      /\ page' = page /\ head' = head /\ entered' = entered /\ count' = count
  BY DEF Crash, Settle, file
<1>2. Ready(LevelWrites(level, head.next, Cardinality(DOMAIN page)), DOMAIN page, <<>>)
  BY ReadyNone, LevelWritesAre
<1>3. head.next \in Nat /\ head.next <= head.next
  BY <1>0 DEF Typed
<1>4. Typed(level, head.next, page', head', todo', pc', left', right', sep', entered', count')
  BY <1>0, <1>1, <1>2, <1>3 DEF Typed
<1> QED
  BY <1>4, TypesNext

\* The writes still to be made, once there is one page more.
LEMMA ReadyWider ==
  ASSUME NEW S, NEW T, NEW known, NEW s, Ready(S, known, s), S \subseteq T, T \subseteq HeadWrites \cup NodeWrites
  PROVE  Ready(T, known, s)
<1>1. s \in Seq(S) => s \in Seq(T)
  OBVIOUS
<1> QED
  BY <1>1 DEF Ready

LEMMA MoreSize ==
  ASSUME NEW level, NEW limit, NEW m, NEW n, m \in Nat, n \in Nat, m <= n, level \in [Nat -> Nat]
  PROVE  LevelWrites(level, limit, m) \subseteq LevelWrites(level, limit, n)
<1>1. ASSUME NEW w \in LevelWrites(level, limit, m) PROVE w \in LevelWrites(level, limit, n)
  <2>1. w \in HeadWrites \cup NodeWrites
    BY DEF LevelWrites
  <2>2. CASE w.head
    BY <2>1, <2>2 DEF LevelWrites
  <2>3. CASE ~ w.head
    <3>1. w.page < limit /\ Fitting(level, w.page, w.node) /\ level[w.page] <= m
      BY <2>3 DEF LevelWrites
    <3>2. w \in NodeWrites
      BY <2>1, <2>3 DEF HeadWrites
    <3>3. level[w.page] \in Nat
      BY <3>2 DEF NodeWrites
    <3>4. level[w.page] <= n
      BY <3>1, <3>3
    <3> QED
      BY <2>1, <2>3, <3>1, <3>4 DEF LevelWrites
  <2> QED
    BY <2>2, <2>3
<1> QED
  BY <1>1

LEMMA WriteTypes == ASSUME Types, unique' = unique, Write PROVE Types'
<1>0. PICK level, limit : Typed(level, limit, page, head, todo, pc, left, right, sep, entered, count)
  BY DEF Types
<1> DEFINE w == Head(todo)
           D == DOMAIN page
           S == LevelWrites(level, limit, Cardinality(D))
<1>1. /\ todo # <<>> /\ todo' = Tail(todo) /\ pc' = pc /\ left' = left /\ right' = right /\ sep' = sep
      /\ entered' = entered /\ count' = count
  BY DEF Write, split, history
<1>2. Ready(S, D, todo)
  BY <1>0 DEF Typed
<1>3. /\ w \in S
      /\ w.head => /\ Ready(S, D, todo') /\ WrittenBy(todo) = WrittenBy(todo')
                   /\ w.root \in Nat \cup {None} /\ w.next \in Nat
      /\ ~ w.head => /\ Ready(S, D \cup {w.page}, todo') /\ WrittenBy(todo) = {w.page} \cup WrittenBy(todo')
                     /\ w.page \in Nat /\ w.node \in PageNode /\ LinksIn(w.node, D)
  <2> HIDE DEF S, D
  <2> QED
    BY <1>1, <1>2, ReadyTail
<1>4. CASE w.head
  <2>1. page' = page /\ head' = [magic |-> TRUE, root |-> w.root, next |-> w.next] /\ w.next = limit
    BY <1>3, <1>4 DEF Write, LevelWrites
  <2>2. head' \in [magic : BOOLEAN, root : Nat \cup {None}, next : Nat] /\ head'.next = limit
    BY <1>3, <1>4, <2>1
  <2>3. D \subseteq 0..limit - 1 /\ limit <= limit
    <3>1. D \subseteq 0..head.next - 1 /\ head.next <= limit /\ limit \in Nat /\ head.next \in Nat
      BY <1>0 DEF Typed
    <3>2. 0..head.next - 1 \subseteq 0..limit - 1 /\ limit <= limit
      BY <3>1
    <3> QED
      BY <3>1, <3>2
  <2>4. Typed(level, limit, page', head', todo', pc', left', right', sep', entered', count')
    BY <1>0, <1>1, <1>3, <1>4, <2>1, <2>2, <2>3 DEF Typed
  <2> QED
    BY <2>4, TypesNext
<1>5. CASE ~ w.head
  <2> DEFINE p == w.page
             D2 == D \cup {p}
             S2 == LevelWrites(level, limit, Cardinality(D2))
  <2>1. /\ page' = [q \in D2 |-> IF q = p THEN w.node ELSE page[q]] /\ head' = head
        /\ p < limit /\ Fitting(level, p, w.node) /\ level[p] <= Cardinality(D)
    BY <1>3, <1>5 DEF Write, LevelWrites
  <2>2. p \in Nat /\ w.node \in PageNode /\ LinksIn(w.node, D) /\ Ready(S, D2, todo')
        /\ WrittenBy(todo) = {p} \cup WrittenBy(todo')
    BY <1>3, <1>5
  <2>3. limit = head.next /\ limit \in Nat /\ D \subseteq 0..limit - 1 /\ level \in [Nat -> Nat]
        /\ head \in [magic : BOOLEAN, root : Nat \cup {None}, next : Nat] /\ page \in [D -> PageNode]
        /\ \A q \in D : LinksIn(page[q], D) /\ Fitting(level, q, page[q]) /\ level[q] < Cardinality(D)
    BY <1>0, <1>5 DEF Typed
  <2> HIDE DEF p, w
  <2>4. DOMAIN page' = D2 /\ page' \in [D2 -> PageNode] /\ \A q \in D2 : page'[q] = IF q = p THEN w.node ELSE page[q]
    BY <2>1, <2>2, <2>3
  <2>5. D2 \subseteq 0..limit - 1
    BY <2>1, <2>2, <2>3
  <2>6. Cardinality(D) \in Nat /\ Cardinality(D2) \in Nat /\ Cardinality(D) <= Cardinality(D2)
        /\ (p \notin D => Cardinality(D2) = Cardinality(D) + 1) /\ (p \in D => D2 = D)
    <3> HIDE DEF D
    <3>1. IsFiniteSet(D) /\ Cardinality(D) \in Nat
      BY <2>3, FinitePages
    <3>2. p \notin D => Cardinality(D2) = Cardinality(D) + 1
      BY <3>1, FS_AddElement
    <3>3. p \in D => D2 = D
      OBVIOUS
    <3> HIDE DEF D2
    <3>4. CASE p \in D
      BY <3>1, <3>2, <3>3, <3>4
    <3>5. CASE p \notin D
      BY <3>1, <3>2, <3>5
    <3> QED
      BY <3>4, <3>5
  <2>7. ASSUME NEW q \in D2
        PROVE  LinksIn(page'[q], D2) /\ Fitting(level, q, page'[q]) /\ level[q] < Cardinality(D2)
    <3> HIDE DEF D
    <3>1. D \subseteq D2
      OBVIOUS
    <3>2. CASE q \in D
      <4>1. LinksIn(page'[q], D) /\ Fitting(level, q, page'[q]) /\ level[q] < Cardinality(D) /\ level[q] \in Nat
        BY <2>1, <2>2, <2>3, <2>4, <3>2
      <4> HIDE DEF D2
      <4>2. LinksIn(page'[q], D2)
        BY <3>1, <4>1, LinksMore
      <4> QED
        BY <2>6, <4>1, <4>2
    <3>3. CASE q \notin D
      <4>1. q = p /\ page'[q] = w.node /\ level[q] \in Nat
        BY <2>2, <2>3, <2>4, <3>3
      <4> HIDE DEF D2
      <4>2. LinksIn(page'[q], D2)
        BY <2>2, <3>1, <4>1, LinksMore
      <4>3. level[q] < Cardinality(D2)
        BY <2>1, <2>6, <3>3, <4>1
      <4> QED
        BY <2>1, <4>1, <4>2, <4>3
    <3> QED
      BY <3>2, <3>3
  <2>8. Ready(S2, D2, todo')
    <3> HIDE DEF D, D2
    <3>1. S \subseteq S2 /\ S2 \subseteq HeadWrites \cup NodeWrites
      BY <2>3, <2>6, MoreSize, LevelWritesAre
    <3> HIDE DEF S, S2
    <3> QED
      BY <2>2, <3>1, ReadyWider
  <2>9. \A q : q \in D \cup WrittenBy(todo) => q \in D2 \cup WrittenBy(todo')
    BY <2>2
  <2> HIDE DEF S, S2
  <2>10. Typed(level, limit, page', head', todo', pc', left', right', sep', entered', count')
    <3>1. \/ pc' = "idle" /\ left' = None /\ right' = None
          \/ /\ pc' = "parent" /\ sep' \in KeySet \X Nat /\ level[left'] = level[right']
             /\ left' \in DOMAIN page' \cup WrittenBy(todo') /\ right' \in DOMAIN page' \cup WrittenBy(todo')
      BY <1>0, <1>1, <2>4, <2>9 DEF Typed
    <3>2. unique \in BOOLEAN /\ count' \in 0..MaxEntries /\ entered' \subseteq KeySet \X (1..count')
      BY <1>0, <1>1 DEF Typed
    <3>3. Ready(LevelWrites(level, limit, Cardinality(DOMAIN page')), DOMAIN page', todo')
      BY <2>4, <2>8 DEF S2
    <3>4. DOMAIN page' \subseteq 0..head'.next - 1 /\ limit = head'.next /\ head'.next <= limit
          /\ head' \in [magic : BOOLEAN, root : Nat \cup {None}, next : Nat]
      BY <2>1, <2>3, <2>4, <2>5
    <3>5. page' \in [DOMAIN page' -> PageNode]
      BY <2>4
    <3>6. \A q \in DOMAIN page' : LinksIn(page'[q], DOMAIN page') /\ Fitting(level, q, page'[q]) /\ level[q] < Cardinality(DOMAIN page')
      BY <2>4, <2>7
    <3> HIDE DEF D, D2
    <3> QED
      BY <2>3, <3>1, <3>2, <3>3, <3>4, <3>5, <3>6 DEF Typed
  <2> QED
    BY <2>10, TypesNext
<1> QED
  BY <1>4, <1>5

\* Types is kept by every step.
LEMMA StepTypes == ASSUME Types, [Next]_vars PROVE Types'
<1>1. CASE UNCHANGED vars
  <2>1. unique' = unique /\ page' = page /\ head' = head /\ todo' = todo /\ pc' = pc /\ left' = left
        /\ right' = right /\ sep' = sep /\ entered' = entered /\ count' = count
    BY <1>1 DEF vars, file, split, history
  <2>2. PICK level, limit : Typed(level, limit, page, head, todo, pc, left, right, sep, entered, count)
    BY DEF Types
  <2>3. Typed(level, limit, page', head', todo', pc', left', right', sep', entered', count')
    BY <2>1, <2>2
  <2> QED
    BY <2>1, <2>3, TypesNext
<1>2. CASE Next
  <2>1. unique' = unique
    BY <1>2 DEF Next
  <2>2. CASE \E k \in KeySet : InsertFits(k) \/ InsertSplits(k)
    BY <2>1, <2>2, InsertFitsTypes, InsertSplitsTypes
  <2>3. CASE \E e \in KeySet \X (1..MaxEntries) : DeleteEntry(e)
    BY <2>1, <2>3, DeleteEntryTypes
  <2>4. CASE Rebuild
    BY <2>1, <2>4, RebuildTypes
  <2>5. CASE Step
    BY <2>1, <2>5, WriteTypes, GrowRootTypes, ParentLostTypes, ParentFitsTypes, ParentSplitsTypes DEF Step
  <2>6. CASE Crash
    BY <2>1, <2>6, CrashTypes
  <2> QED
    BY <1>2, <2>2, <2>3, <2>4, <2>5, <2>6 DEF Next
<1> QED
  BY <1>1, <1>2

\* Every page read is typed, whatever part of its writes a crash has let an
\* operation make.
THEOREM TypesKept == Spec => []Types
<1>1. Init => Types
  BY InitTypes
<1>2. Types /\ [Next]_vars => Types'
  BY StepTypes
<1> QED
  BY <1>1, <1>2, PTL DEF Spec

THEOREM TypeCorrect == Spec => []TypeOK
<1>1. Types => TypeOK
  BY TypesGiveTypeOK
<1> QED
  BY <1>1, TypesKept, PTL

-----------------------------------------------------------------------------
(***************************************************************************)
(* Walks end.  The pages can be numbered so that each leaf stands before   *)
(* its next and after its prev, although the two need not be inverse after *)
(* a crash; the writes still to be made keep to the same numbers, so any   *)
(* first part of them does.  A walk that moves on then never comes back.   *)
(***************************************************************************)
\* The page p stands between the leaves it links to.
Between(rank, p, node) ==
  /\ node.next # None => rank[p] < rank[node.next]
  /\ node.prev # None => rank[node.prev] < rank[p]

Lined(rank, writes) ==
  /\ \E S : writes \in Seq(S)
  /\ \A i \in DOMAIN writes : ~ writes[i].head => Between(rank, writes[i].page, writes[i].node)

InLine ==
  \E rank :
    /\ rank \in [Nat -> Int]
    /\ \A p \in DOMAIN page : Between(rank, p, page[p])
    /\ Lined(rank, todo)

\* No writes, one write, one list after another, and the writes after the first.
LEMMA LinedNone == ASSUME NEW rank PROVE Lined(rank, <<>>)
<1>1. <<>> \in Seq({}) /\ DOMAIN <<>> = {}
  OBVIOUS
<1> QED
  BY <1>1 DEF Lined

LEMMA LinedHead == ASSUME NEW rank, NEW root, NEW next PROVE Lined(rank, <<HeadWrite(root, next)>>)
<1> DEFINE w == HeadWrite(root, next)
<1>1. w.head = TRUE
  BY WriteIs
<1> HIDE DEF w
<1>2. <<w>> \in Seq({w}) /\ DOMAIN <<w>> = {1} /\ <<w>>[1] = w
  OBVIOUS
<1>3. Lined(rank, <<w>>)
  BY <1>1, <1>2 DEF Lined
<1> QED
  BY <1>3 DEF w

LEMMA LinedPage ==
  ASSUME NEW rank, NEW p, NEW node, Between(rank, p, node)
  PROVE  Lined(rank, <<PageWrite(p, node)>>)
<1> DEFINE w == PageWrite(p, node)
<1>1. w.page = p /\ w.node = node
  BY WriteIs
<1> HIDE DEF w
<1>2. <<w>> \in Seq({w}) /\ DOMAIN <<w>> = {1} /\ <<w>>[1] = w
  OBVIOUS
<1>3. Lined(rank, <<w>>)
  BY <1>1, <1>2 DEF Lined
<1> QED
  BY <1>3 DEF w

LEMMA LinedThen ==
  ASSUME NEW rank, NEW s, NEW t, Lined(rank, s), Lined(rank, t)
  PROVE  Lined(rank, s \o t)
<1>1. PICK S : s \in Seq(S)
  BY DEF Lined
<1>2. PICK T : t \in Seq(T)
  BY DEF Lined
<1> DEFINE U == S \cup T
           u == s \o t
<1>3. s \in Seq(U) /\ t \in Seq(U)
  BY <1>1, <1>2
<1> HIDE DEF U
<1>4. /\ u \in Seq(U) /\ \A i \in DOMAIN s : u[i] = s[i]
      /\ \A i \in DOMAIN t : u[Len(s) + i] = t[i]
      /\ \A i \in DOMAIN u : i \in DOMAIN s \/ (i - Len(s) \in DOMAIN t /\ i = Len(s) + (i - Len(s)))
  BY <1>3, Concat
<1> HIDE DEF u
<1>5. ASSUME NEW i \in DOMAIN u, ~ u[i].head PROVE Between(rank, u[i].page, u[i].node)
  <2>1. CASE i \in DOMAIN s
    BY <1>4, <1>5, <2>1 DEF Lined
  <2>2. CASE i - Len(s) \in DOMAIN t /\ i = Len(s) + (i - Len(s))
    <3> DEFINE j == i - Len(s)
    <3>1. j \in DOMAIN t /\ u[i] = t[j]
      BY <1>4, <2>2
    <3> HIDE DEF j
    <3> QED
      BY <1>5, <3>1 DEF Lined
  <2> QED
    BY <1>4, <2>1, <2>2
<1> QED
  BY <1>4, <1>5 DEF Lined, u

LEMMA LinedTail ==
  ASSUME NEW rank, NEW s, Lined(rank, s), s # <<>>
  PROVE  /\ Lined(rank, Tail(s))
         /\ ~ Head(s).head => Between(rank, Head(s).page, Head(s).node)
<1>1. PICK S : s \in Seq(S)
  BY DEF Lined
<1>2. /\ Tail(s) \in Seq(S) /\ 1 \in DOMAIN s /\ Head(s) = s[1]
      /\ \A i \in DOMAIN Tail(s) : i + 1 \in DOMAIN s /\ Tail(s)[i] = s[i + 1]
  BY <1>1
<1>3. ASSUME NEW i \in DOMAIN Tail(s), ~ Tail(s)[i].head
      PROVE  Between(rank, Tail(s)[i].page, Tail(s)[i].node)
  BY <1>2, <1>3 DEF Lined
<1>4. ~ Head(s).head => Between(rank, Head(s).page, Head(s).node)
  BY <1>2 DEF Lined
<1> QED
  BY <1>2, <1>3, <1>4 DEF Lined

LEMMA LinedAdopt ==
  ASSUME NEW rank, NEW moved, NEW r, NEW S, moved \in Seq(S),
         \A j \in DOMAIN moved : Between(rank, moved[j], [page[moved[j]] EXCEPT !.parent = r])
  PROVE  Lined(rank, Adopt(moved, r))
<1> DEFINE w(j) == PageWrite(moved[j], [page[moved[j]] EXCEPT !.parent = r])
           T == {w(j) : j \in DOMAIN moved}
           n == Len(moved)
           s == Adopt(moved, r)
<1>1. n \in Nat /\ DOMAIN moved = 1..n
  OBVIOUS
<1>2. s \in [1..n -> T] /\ \A j \in 1..n : s[j] = w(j)
  BY <1>1 DEF Adopt
<1> HIDE DEF n, s, T
<1>3. s \in Seq(T) /\ DOMAIN s = 1..n
  BY <1>1, <1>2, SeqMade
<1>4. ASSUME NEW j \in DOMAIN s PROVE Between(rank, s[j].page, s[j].node)
  <2> DEFINE p == moved[j]
             node == [page[p] EXCEPT !.parent = r]
  <2>1. Between(rank, p, node) /\ s[j] = PageWrite(p, node)
    BY <1>1, <1>2, <1>3
  <2> HIDE DEF p, node
  <2> QED
    BY <2>1, WriteIs
<1> QED
  BY <1>3, <1>4 DEF Lined, s

\* Only next and prev tie a page to a place in the line.
LEMMA BetweenChanged ==
  ASSUME NEW rank, NEW p, NEW node \in PageNode, Between(rank, p, node)
  PROVE  /\ \A es : Between(rank, p, [node EXCEPT !.entries = es])
         /\ \A es, ks : Between(rank, p, [node EXCEPT !.entries = es, !.kids = ks])
         /\ \A n : Between(rank, p, [node EXCEPT !.parent = n])
BY DEF PageNode, NodeType, Between

LEMMA BetweenNone ==
  ASSUME NEW rank, NEW p
  PROVE  /\ \A leaf : Between(rank, p, Blank(leaf))
         /\ \A leaf, es, ks, parent : Between(rank, p, Node(leaf, es, ks, parent, None, None))
BY DEF Blank, Node, Between

LEMMA LinedAllocate == ASSUME NEW rank, NEW leaf PROVE Lined(rank, Allocate(leaf))
<1> DEFINE a == HeadWrite(head.root, head.next + 1)
           b == PageWrite(head.next, Blank(leaf))
<1>1. Lined(rank, <<a>>) /\ Lined(rank, <<b>>)
  BY LinedHead, LinedPage, BetweenNone
<1>2. Allocate(leaf) = <<a, b>>
  BY DEF Allocate
<1> HIDE DEF a, b
<1>3. Allocate(leaf) = <<a>> \o <<b>>
  BY <1>2, TwoWrites
<1> QED
  BY <1>1, <1>3, LinedThen

\* A number for every page, and the writes of a step keep to it.
LEMMA InLineNext ==
  ASSUME NEW rank, rank \in [Nat -> Int], \A p \in DOMAIN page' : Between(rank, p, page'[p]), Lined(rank, todo')
  PROVE  InLine'
BY DEF InLine

LEMMA InitInLine == ASSUME Init PROVE InLine
<1> DEFINE rank == [n \in Nat |-> 0]
<1>1. rank \in [Nat -> Int]
  OBVIOUS
<1> HIDE DEF rank
<1>2. \A p \in DOMAIN page : Between(rank, p, page[p])
  BY BetweenNone DEF Init
<1>3. Lined(rank, todo)
  BY LinedNone DEF Init
<1> QED
  BY <1>1, <1>2, <1>3 DEF InLine

LEMMA RebuildInLine == ASSUME Rebuild PROVE InLine'
<1> DEFINE rank == [n \in Nat |-> 0]
<1>1. rank \in [Nat -> Int]
  OBVIOUS
<1> HIDE DEF rank
<1>2. page' = [p \in {} |-> Blank(TRUE)] /\ todo' = BlankFile
  BY DEF Rebuild, Start
<1>3. DOMAIN page' = {}
  BY <1>2
<1>4. Lined(rank, BlankFile)
  <2> DEFINE a == HeadWrite(0, 1)
             b == PageWrite(0, Blank(TRUE))
  <2>1. Lined(rank, <<a>>) /\ Lined(rank, <<b>>)
    BY LinedHead, LinedPage, BetweenNone
  <2>2. BlankFile = <<a, b>>
    BY DEF BlankFile
  <2> HIDE DEF a, b
  <2>3. BlankFile = <<a>> \o <<b>>
    BY <2>2, TwoWrites
  <2> QED
    BY <2>1, <2>3, LinedThen
<1> QED
  BY <1>1, <1>2, <1>3, <1>4, InLineNext

LEMMA WriteInLine == ASSUME InLine, Write PROVE InLine'
<1>1. PICK rank : /\ rank \in [Nat -> Int] /\ \A p \in DOMAIN page : Between(rank, p, page[p])
                  /\ Lined(rank, todo)
  BY DEF InLine
<1> DEFINE w == Head(todo)
<1>2. Lined(rank, todo') /\ (~ w.head => Between(rank, w.page, w.node))
  BY <1>1, LinedTail DEF Write
<1>3. \A p \in DOMAIN page' : Between(rank, p, page'[p])
  <2>1. CASE w.head
    BY <1>1, <2>1 DEF Write
  <2>2. CASE ~ w.head
    <3>1. page' = [p \in DOMAIN page \cup {w.page} |-> IF p = w.page THEN w.node ELSE page[p]]
      BY <2>2 DEF Write
    <3> HIDE DEF w
    <3> QED
      BY <1>1, <1>2, <2>2, <3>1
  <2> QED
    BY <2>1, <2>2
<1> QED
  BY <1>1, <1>2, <1>3, InLineNext

LEMMA CrashInLine == ASSUME InLine, Crash PROVE InLine'
<1>1. PICK rank : rank \in [Nat -> Int] /\ \A p \in DOMAIN page : Between(rank, p, page[p])
  BY DEF InLine
<1>2. page' = page /\ todo' = <<>>
  BY DEF Crash, file
<1> QED
  BY <1>1, <1>2, LinedNone, InLineNext

LEMMA SameInLine == ASSUME InLine, page' = page, todo' = todo PROVE InLine'
BY DEF InLine

LEMMA DeleteEntryInLine ==
  ASSUME Types, InLine, NEW e \in KeySet \X (1..MaxEntries), DeleteEntry(e)
  PROVE  InLine'
<1>0. PICK level, limit : Typed(level, limit, page, head, todo, pc, left, right, sep, entered, count)
  BY DEF Types
<1>1. PICK rank : /\ rank \in [Nat -> Int] /\ \A p \in DOMAIN page : Between(rank, p, page[p])
                  /\ Lined(rank, todo)
  BY DEF InLine
<1> DEFINE p == FindLeaf(e[1])
<1>2. p \in DOMAIN page /\ todo' = todo
  BY DEF DeleteEntry
<1>3. PICK i \in DOMAIN page[p].entries : page' = [page EXCEPT ![p].entries = Without(@, i)]
  BY DEF DeleteEntry
<1> HIDE DEF p
<1> DEFINE node == [page[p] EXCEPT !.entries = Without(page[p].entries, i)]
<1>4. page' = [page EXCEPT ![p] = node] /\ page \in [DOMAIN page -> PageNode]
  BY <1>0, <1>3 DEF Typed
<1>5. Between(rank, p, node)
  BY <1>1, <1>2, <1>4, BetweenChanged
<1> HIDE DEF node
<1>6. \A q \in DOMAIN page' : Between(rank, q, page'[q])
  BY <1>1, <1>2, <1>4, <1>5
<1> QED
  BY <1>1, <1>2, <1>6, InLineNext

LEMMA InsertFitsInLine ==
  ASSUME Types, InLine, NEW k \in KeySet, InsertFits(k)
  PROVE  InLine'
<1>1. PICK rank : /\ rank \in [Nat -> Int] /\ \A p \in DOMAIN page : Between(rank, p, page[p])
                  /\ Lined(rank, todo)
  BY DEF InLine
<1> DEFINE p == FindLeaf(k)
           all == WithEntry(page[p], <<k, count + 1>>)
           node == [page[p] EXCEPT !.entries = all]
<1>2. p \in DOMAIN page /\ page[p] \in PageNode /\ page' = page
  BY Entering DEF InsertFits
<1>3. todo' = <<PageWrite(p, node)>>
  BY DEF InsertFits
<1> HIDE DEF p, all
<1>4. Between(rank, p, node)
  BY <1>1, <1>2, BetweenChanged
<1> HIDE DEF node
<1>5. Lined(rank, todo')
  BY <1>3, <1>4, LinedPage
<1> QED
  BY <1>1, <1>2, <1>5, InLineNext

\* The number of r put just behind that of p, and all above it moved up.
Behind(rank, p, r) ==
  [x \in Nat |-> IF x = r THEN rank[p] + 1 ELSE IF rank[x] > rank[p] THEN rank[x] + 1 ELSE rank[x]]

\* Pages that are not linked to r stay in their order; r comes behind p, and before
\* whatever was behind p.
LEMMA BehindIs ==
  ASSUME NEW rank, NEW p, NEW r, rank \in [Nat -> Int], p \in Nat, r \in Nat, p # r
  PROVE  /\ Behind(rank, p, r) \in [Nat -> Int]
         /\ \A x, y \in Nat : x # r /\ y # r /\ rank[x] < rank[y] => Behind(rank, p, r)[x] < Behind(rank, p, r)[y]
         /\ Behind(rank, p, r)[p] < Behind(rank, p, r)[r]
         /\ \A y \in Nat : y # r /\ rank[p] < rank[y] => Behind(rank, p, r)[r] < Behind(rank, p, r)[y]
<1> DEFINE new == Behind(rank, p, r)
<1>1. \A x \in Nat : rank[x] \in Int
  OBVIOUS
<1>2. new = [x \in Nat |-> IF x = r THEN rank[p] + 1 ELSE IF rank[x] > rank[p] THEN rank[x] + 1 ELSE rank[x]]
  BY DEF Behind
<1> HIDE DEF new
<1>3. new \in [Nat -> Int]
  BY <1>1, <1>2
<1>4. new[r] = rank[p] + 1 /\ new[p] = rank[p]
  BY <1>1, <1>2
<1>5. \A x \in Nat : x # r => new[x] = IF rank[x] > rank[p] THEN rank[x] + 1 ELSE rank[x]
  BY <1>2
<1>6. ASSUME NEW x \in Nat, NEW y \in Nat, x # r, y # r, rank[x] < rank[y] PROVE new[x] < new[y]
  BY <1>1, <1>5, <1>6
<1>7. ASSUME NEW y \in Nat, y # r, rank[p] < rank[y] PROVE new[r] < new[y]
  BY <1>1, <1>4, <1>5, <1>7
<1>8. new[p] < new[r]
  BY <1>1, <1>4
<1> QED
  BY <1>3, <1>6, <1>7, <1>8 DEF new

LEMMA InsertSplitsInLine ==
  ASSUME Types, InLine, NEW k \in KeySet, InsertSplits(k)
  PROVE  InLine'
<1>0. PICK level, limit : Typed(level, limit, page, head, todo, pc, left, right, sep, entered, count)
  BY DEF Types
<1>1. PICK rank : rank \in [Nat -> Int] /\ \A x \in DOMAIN page : Between(rank, x, page[x])
  BY DEF InLine
<1> DEFINE p == FindLeaf(k)
           r == head.next
           all == WithEntry(page[p], <<k, count + 1>>)
           half == Len(all) \div 2
           n == page[p].next
           one == [page[p] EXCEPT !.entries = SubSeq(all, 1, half), !.next = r]
           two == Node(TRUE, From(all, half + 1), <<>>, page[p].parent, p, n)
           node == [page[n] EXCEPT !.prev = r]
           new == Behind(rank, p, r)
           A == Allocate(TRUE)
           L == LinkPrev(n, r)
           H == Halves(p, r, all, half)
           D == DOMAIN page
<1>2. Enter(k) /\ todo' = A \o L \o H
  BY DEF InsertSplits
<1>3. p \in D /\ page' = page /\ todo = <<>>
  BY <1>2, Entering DEF Enter, Idle
<1>4. /\ r \in Nat /\ r \notin D
      /\ \A x \in D : x \in Nat /\ page[x] \in PageNode /\ page[x].next \in D \cup {None} /\ page[x].prev \in D \cup {None}
  BY <1>0, <1>3, Settled DEF LinksIn
<1>5. p \in Nat /\ p # r /\ None \notin Nat
  BY <1>3, <1>4 DEF None
<1>h. /\ H = <<PageWrite(p, one), PageWrite(r, two)>>
      /\ L = IF n = None THEN <<>> ELSE <<PageWrite(n, node)>>
  BY DEF Halves, LinkPrev
<1>t. /\ two.next = n /\ two.prev = p
      /\ page[p] \in PageNode => one.next = r /\ one.prev = page[p].prev
      /\ page[n] \in PageNode => node.prev = r /\ node.next = page[n].next
  BY DEF Node, PageNode, NodeType
<1>n. n = page[p].next
  OBVIOUS
<1>b. /\ new \in [Nat -> Int] /\ new[p] < new[r]
      /\ \A x, y \in Nat : x # r /\ y # r /\ rank[x] < rank[y] => new[x] < new[y]
      /\ \A y \in Nat : y # r /\ rank[p] < rank[y] => new[r] < new[y]
  <2> HIDE DEF p, r
  <2> QED
    BY <1>1, <1>4, <1>5, BehindIs
<1>s. todo' = (A \o L) \o H
  BY <1>2
<1> HIDE DEF p, r, n, new, one, two, node, A, L, H, all, half, D
<1>6. ASSUME NEW x \in D PROVE Between(new, x, page[x])
  <2>1. Between(rank, x, page[x])
    BY <1>1 DEF D
  <2>2. \A y \in D : y \in Nat /\ y # r
    BY <1>4
  <2> QED
    BY <1>4, <1>b, <2>1, <2>2 DEF Between
<1>7. Between(new, p, one)
  <2>1. page[p].prev # None => new[page[p].prev] < new[p]
    BY <1>3, <1>6 DEF Between
  <2> QED
    BY <1>3, <1>4, <1>b, <1>t, <2>1 DEF Between
<1>8. n # None => n \in D /\ n # r /\ n \in Nat /\ new[r] < new[n] /\ Between(new, n, page[n]) /\ page[n] \in PageNode
  <2>1. n # None => n \in D /\ rank[p] < rank[n]
    BY <1>1, <1>3, <1>4, <1>n DEF Between, D
  <2> QED
    BY <1>4, <1>6, <1>b, <2>1
<1>9. Between(new, r, two)
  BY <1>8, <1>b, <1>t DEF Between
<1>10. n # None => Between(new, n, node)
  BY <1>8, <1>t DEF Between
<1>11. Lined(new, A)
  BY LinedAllocate DEF A
<1>12. Lined(new, L)
  <2>1. CASE n = None
    BY <1>h, <2>1, LinedNone
  <2>2. CASE n # None
    BY <1>10, <1>h, <2>2, LinedPage
  <2> QED
    BY <2>1, <2>2
<1>13. Lined(new, H)
  <2> DEFINE w == PageWrite(p, one)
             x == PageWrite(r, two)
  <2>1. Lined(new, <<w>>) /\ Lined(new, <<x>>)
    BY <1>7, <1>9, LinedPage
  <2>2. H = <<w, x>>
    BY <1>h
  <2> HIDE DEF w, x
  <2>3. H = <<w>> \o <<x>>
    BY <2>2, TwoWrites
  <2> QED
    BY <2>1, <2>3, LinedThen
<1>14. Lined(new, todo')
  BY <1>11, <1>12, <1>13, <1>s, LinedThen
<1>15. \A x \in DOMAIN page' : Between(new, x, page'[x])
  BY <1>3, <1>6 DEF D
<1> QED
  BY <1>14, <1>15, <1>b, InLineNext

LEMMA GrowRootInLine == ASSUME Types, InLine, GrowRoot PROVE InLine'
<1>0. PICK level, limit : Typed(level, limit, page, head, todo, pc, left, right, sep, entered, count)
  BY DEF Types
<1>1. PICK rank : rank \in [Nat -> Int] /\ \A x \in DOMAIN page : Between(rank, x, page[x])
  BY DEF InLine
<1> DEFINE q == head.next
           N == Node(FALSE, <<sep>>, <<left, right>>, None, None, None)
           nl == [page[left] EXCEPT !.parent = q]
           nr == [page[right] EXCEPT !.parent = q]
           a == HeadWrite(q, q + 1)
           b == PageWrite(q, N)
           c == PageWrite(left, nl)
           d == PageWrite(right, nr)
           A == Allocate(FALSE)
<1>2. Ascending /\ todo' = A \o <<a, b, c, d>> /\ page' = page
  BY DEF GrowRoot, file
<1>3. left \in DOMAIN page /\ right \in DOMAIN page /\ todo = <<>>
  BY <1>0, <1>2, AscendingTypes
<1>4. page[left] \in PageNode /\ page[right] \in PageNode
  BY <1>0, <1>3, Settled
<1>5. Between(rank, q, N) /\ Between(rank, left, nl) /\ Between(rank, right, nr)
  BY <1>1, <1>3, <1>4, BetweenChanged, BetweenNone
<1> HIDE DEF N, nl, nr
<1>6. Lined(rank, <<a>>) /\ Lined(rank, <<b>>) /\ Lined(rank, <<c>>) /\ Lined(rank, <<d>>) /\ Lined(rank, A)
  BY <1>5, LinedHead, LinedPage, LinedAllocate
<1> HIDE DEF a, b, c, d, A
<1>7. Lined(rank, <<a>> \o <<b>>) /\ Lined(rank, <<c>> \o <<d>>)
  BY <1>6, LinedThen
<1>8. Lined(rank, (<<a>> \o <<b>>) \o (<<c>> \o <<d>>))
  BY <1>7, LinedThen
<1>9. <<a, b, c, d>> = (<<a>> \o <<b>>) \o (<<c>> \o <<d>>)
  <2>1. <<a, b, c, d>> = <<a, b>> \o <<c, d>>
    <3> DEFINE S == {a, b, c, d}
    <3>1. <<a, b>> \in Seq(S) /\ <<c, d>> \in Seq(S) /\ <<a, b, c, d>> \in Seq(S)
      OBVIOUS
    <3> HIDE DEF S
    <3> QED
      BY <3>1
  <2> QED
    BY <2>1, TwoWrites
<1>10. Lined(rank, todo')
  BY <1>2, <1>6, <1>8, <1>9, LinedThen
<1> QED
  BY <1>1, <1>2, <1>10, InLineNext

LEMMA ParentFitsInLine == ASSUME Types, InLine, ParentFits PROVE InLine'
<1>0. PICK level, limit : Typed(level, limit, page, head, todo, pc, left, right, sep, entered, count)
  BY DEF Types
<1>1. PICK rank : rank \in [Nat -> Int] /\ \A x \in DOMAIN page : Between(rank, x, page[x])
  BY DEF InLine
<1> DEFINE q == page[left].parent
<1>2. Ascending /\ q # None /\ page' = page
  BY DEF ParentFits, file
<1>3. PICK i \in Position(left, page[q]) :
        todo' = <<PageWrite(q, [page[q] EXCEPT !.entries = KeysAt(q, i), !.kids = KidsAt(q, i)]),
                  PageWrite(right, [page[right] EXCEPT !.parent = q])>>
  BY DEF ParentFits
<1> DEFINE one == [page[q] EXCEPT !.entries = KeysAt(q, i), !.kids = KidsAt(q, i)]
           two == [page[right] EXCEPT !.parent = q]
           w == PageWrite(q, one)
           x == PageWrite(right, two)
<1>4. q \in DOMAIN page /\ right \in DOMAIN page /\ todo = <<>>
  BY <1>0, <1>2, <1>3, AscendingTypes, EnteredAbove
<1>5. page[q] \in PageNode /\ page[right] \in PageNode
  BY <1>0, <1>4, Settled
<1>6. todo' = <<w, x>>
  BY <1>3
<1> HIDE DEF q
<1>7. Between(rank, q, one) /\ Between(rank, right, two)
  BY <1>1, <1>4, <1>5, BetweenChanged
<1> HIDE DEF one, two
<1>8. Lined(rank, <<w>>) /\ Lined(rank, <<x>>)
  BY <1>7, LinedPage
<1> HIDE DEF w, x
<1>9. Lined(rank, todo')
  BY <1>6, <1>8, LinedThen, TwoWrites
<1> QED
  BY <1>1, <1>2, <1>9, InLineNext

LEMMA ParentSplitsInLine == ASSUME Types, InLine, ParentSplits PROVE InLine'
<1>0. PICK level, limit : Typed(level, limit, page, head, todo, pc, left, right, sep, entered, count)
  BY DEF Types
<1>1. PICK rank : rank \in [Nat -> Int] /\ \A x \in DOMAIN page : Between(rank, x, page[x])
  BY DEF InLine
<1> DEFINE q == page[left].parent
           r == head.next
           A == Allocate(FALSE)
<1>2. Ascending /\ q # None /\ page' = page
  BY DEF ParentSplits, file
<1>3. PICK i \in Position(left, page[q]) :
        LET keys == KeysAt(q, i)
            kids == KidsAt(q, i)
            mid == Len(keys) \div 2
            moved == From(kids, mid + 2)
        IN  todo' = A \o Adopt(moved, r)
                 \o <<PageWrite(q, [page[q] EXCEPT !.entries = SubSeq(keys, 1, mid),
                                                   !.kids = SubSeq(kids, 1, mid + 1)]),
                      PageWrite(r, Node(FALSE, From(keys, mid + 2), moved, page[q].parent, None, None))>>
  BY DEF ParentSplits
<1> DEFINE keys == KeysAt(q, i)
           kids == KidsAt(q, i)
           mid == Len(keys) \div 2
           moved == From(kids, mid + 2)
           one == [page[q] EXCEPT !.entries = SubSeq(keys, 1, mid), !.kids = SubSeq(kids, 1, mid + 1)]
           two == Node(FALSE, From(keys, mid + 2), moved, page[q].parent, None, None)
           w == PageWrite(q, one)
           x == PageWrite(r, two)
           B == Adopt(moved, r)
           H == <<w, x>>
<1>4. /\ q \in DOMAIN page /\ kids \in Seq(Nat) /\ Len(keys) \in Nat /\ Len(kids) = Len(keys) + 1
      /\ \A j \in DOMAIN kids : kids[j] \in DOMAIN page
  <2>1. /\ q \in DOMAIN page /\ kids \in Seq(Nat) /\ Len(page[q].entries) \in Nat
        /\ Len(keys) = Len(page[q].entries) + 1 /\ Len(kids) = Len(page[q].entries) + 2
        /\ \A j \in DOMAIN kids : kids[j] \in DOMAIN page
    BY <1>0, <1>2, <1>3, EnteredAbove
  <2> HIDE DEF q, keys, kids
  <2> QED
    BY <2>1
<1>5. todo = <<>>
  BY <1>0, <1>2, AscendingTypes
<1>6. \A y \in DOMAIN page : page[y] \in PageNode
  BY <1>0, <1>5, Settled
<1>7. todo' = (A \o B) \o H
  BY <1>3
<1> HIDE DEF q, r, keys, kids
<1>8. moved \in Seq(Nat) /\ \A j \in DOMAIN moved : moved[j] \in DOMAIN page
  <2> DEFINE f == mid + 2
             S == Nat
             L == Len(kids)
  <2>1. f \in 1..Len(kids) + 1 /\ kids \in Seq(S)
    BY <1>4
  <2>2. L \in Nat /\ DOMAIN kids = 1..L /\ moved = From(kids, f)
    BY <1>4
  <2> HIDE DEF f, S, moved, mid
  <2>3. /\ From(kids, f) \in Seq(S) /\ Len(From(kids, f)) = Len(kids) + 1 - f
        /\ \A j : j \in 1..Len(kids) + 1 - f => From(kids, f)[j] = kids[f - 1 + j]
    BY <2>1, RestIs
  <2> HIDE DEF L
  <2>4. moved \in Seq(S) /\ DOMAIN moved = 1..L + 1 - f /\ \A j \in 1..L + 1 - f : moved[j] = kids[f - 1 + j]
    BY <2>2, <2>3 DEF L
  <2>5. ASSUME NEW j \in DOMAIN moved PROVE moved[j] \in DOMAIN page
    <3>1. j \in 1..L + 1 - f /\ f \in 1..L + 1
      BY <2>1, <2>4 DEF L
    <3>2. f - 1 + j \in 1..L
      BY <2>2, <3>1
    <3> QED
      BY <1>4, <2>2, <2>4, <3>1, <3>2
  <2> QED
    BY <2>4, <2>5 DEF S
<1>9. Between(rank, q, one)
  <2> DEFINE es == SubSeq(keys, 1, mid)
             ks == SubSeq(kids, 1, mid + 1)
  <2>1. one = [page[q] EXCEPT !.entries = es, !.kids = ks]
    OBVIOUS
  <2> HIDE DEF es, ks, one
  <2> QED
    BY <1>1, <1>4, <1>6, <2>1, BetweenChanged
<1>10. Between(rank, r, two)
  BY BetweenNone
<1> HIDE DEF moved, mid, one, two
<1>11. Lined(rank, A)
  BY LinedAllocate
<1>12. Lined(rank, B)
  <2>1. \A j \in DOMAIN moved : Between(rank, moved[j], [page[moved[j]] EXCEPT !.parent = r])
    BY <1>1, <1>6, <1>8, BetweenChanged
  <2> QED
    BY <1>8, <2>1, LinedAdopt
<1>13. Lined(rank, <<w>>) /\ Lined(rank, <<x>>)
  BY <1>9, <1>10, LinedPage
<1> HIDE DEF w, x, A, B
<1>14. Lined(rank, H)
  BY <1>13, LinedThen, TwoWrites
<1> HIDE DEF H
<1>15. Lined(rank, todo')
  BY <1>7, <1>11, <1>12, <1>14, LinedThen
<1> QED
  BY <1>1, <1>2, <1>15, InLineNext

LEMMA StepInLine == ASSUME Types, InLine, [Next]_vars PROVE InLine'
<1>1. CASE UNCHANGED vars
  BY <1>1, SameInLine DEF vars, file
<1>2. CASE Next
  <2>1. CASE \E k \in KeySet : InsertFits(k) \/ InsertSplits(k)
    BY <2>1, InsertFitsInLine, InsertSplitsInLine
  <2>2. CASE \E e \in KeySet \X (1..MaxEntries) : DeleteEntry(e)
    BY <2>2, DeleteEntryInLine
  <2>3. CASE Rebuild
    BY <2>3, RebuildInLine
  <2>4. CASE Step
    <3>1. CASE ParentLost
      BY <3>1, SameInLine DEF ParentLost, file
    <3> QED
      BY <2>4, <3>1, WriteInLine, GrowRootInLine, ParentFitsInLine, ParentSplitsInLine DEF Step
  <2>5. CASE Crash
    BY <2>5, CrashInLine
  <2> QED
    BY <1>2, <2>1, <2>2, <2>3, <2>4, <2>5 DEF Next
<1> QED
  BY <1>1, <1>2

\* There are not enough pages to go up in the line as often as there are pages.
LEMMA NoCircle ==
  ASSUME NEW D, IsFiniteSet(D), NEW N, N = Cardinality(D), NEW w, NEW rank, rank \in [D -> Int],
         \A n \in 0..N : w[n] \in D, \A n \in 1..N : rank[w[n - 1]] < rank[w[n]]
  PROVE  FALSE
<1>1. N \in Nat
  BY FS_CardinalityType
<1> DEFINE G == {n \in 0..N : \A i \in 0..N : i < n => rank[w[i]] < rank[w[n]]}
<1>2. \A n \in 0..N : rank[w[n]] \in Int
  OBVIOUS
<1>3. 0 \in G
  BY <1>1
<1>4. ASSUME NEW n \in 1..N, n - 1 \in G PROVE n \in G
  <2>1. n \in 0..N /\ n - 1 \in 0..N /\ rank[w[n - 1]] < rank[w[n]]
    BY <1>1
  <2>2. ASSUME NEW i \in 0..N, i < n PROVE rank[w[i]] < rank[w[n]]
    <3>1. CASE i = n - 1
      BY <2>1, <3>1
    <3>2. CASE i # n - 1
      <4>1. i < n - 1
        BY <1>1, <2>2, <3>2
      <4>2. rank[w[i]] < rank[w[n - 1]]
        BY <1>4, <4>1
      <4> HIDE DEF G
      <4> QED
        BY <1>2, <2>1, <4>2
    <3> QED
      BY <3>1, <3>2
  <2> QED
    BY <2>1, <2>2
<1>5. G \in SUBSET (0..N)
  OBVIOUS
<1> HIDE DEF G
<1>6. G = 0..N
  BY <1>1, <1>3, <1>4, <1>5, UpTo
<1>7. \A i, j \in 0..N : i < j => rank[w[i]] < rank[w[j]]
  BY <1>6 DEF G
<1> DEFINE S == 0..N
           f == [n \in S |-> w[n]]
<1>8. IsFiniteSet(S) /\ Cardinality(S) = N + 1
  <2>1. 0 \in Int /\ N \in Int
    BY <1>1
  <2>2. IsFiniteSet(0..N) /\ Cardinality(0..N) = IF 0 > N THEN 0 ELSE N - 0 + 1
    BY <2>1, FS_Interval
  <2> QED
    BY <1>1, <2>2
<1>9. f \in [S -> D] /\ \A n \in S : f[n] = w[n]
  OBVIOUS
<1>10. Cardinality(D) < Cardinality(S)
  BY <1>1, <1>8
<1>11. \A i, j \in S : i # j => w[i] # w[j]
  <2>1. ASSUME NEW i \in S, NEW j \in S, i < j PROVE w[i] # w[j]
    BY <1>2, <1>7, <2>1
  <2>2. \A i, j \in S : i # j => i < j \/ j < i
    BY <1>1
  <2> QED
    BY <2>1, <2>2
<1> HIDE DEF S, f
<1>12. PICK x, y \in S : x # y /\ f[x] = f[y]
  BY <1>8, <1>9, <1>10, FS_PigeonHole
<1> QED
  BY <1>9, <1>11, <1>12

\* As long as a walk leads on, it has come over pages.
LEMMA WalkStays ==
  ASSUME NEW next, NEW start, Cardinality(DOMAIN page) \in Nat, None \notin DOMAIN page
  PROVE  \A m, n \in 0..Cardinality(DOMAIN page) + 2 :
           m < n /\ Walk(next, start)[n] # None =>
             Walk(next, start)[m] \in DOMAIN page
<1> DEFINE M == Cardinality(DOMAIN page) + 2
           w == Walk(next, start)
           G == {n \in 0..M : \A m \in 0..M : m < n /\ w[n] # None => w[m] \in DOMAIN page}
<1>1. M \in Nat /\ \A n \in 1..M : w[n] = IF w[n - 1] \in DOMAIN page THEN next[w[n - 1]] ELSE None
  BY WalkIs
<1> HIDE DEF M, w
<1>2. 0 \in G
  BY <1>1
<1>3. ASSUME NEW n \in 1..M, n - 1 \in G PROVE n \in G
  <2>1. n \in 0..M /\ n - 1 \in 0..M
    BY <1>1
  <2>2. ASSUME NEW m \in 0..M, m < n, w[n] # None PROVE w[m] \in DOMAIN page
    <3>1. w[n - 1] \in DOMAIN page /\ w[n - 1] # None
      BY <1>1, <2>2
    <3>2. CASE m = n - 1
      BY <3>1, <3>2
    <3>3. CASE m # n - 1
      <4>1. m < n - 1
        BY <1>1, <2>2, <3>3
      <4> QED
        BY <1>3, <3>1, <4>1
    <3> QED
      BY <3>2, <3>3
  <2> QED
    BY <2>1, <2>2
<1>4. G \in SUBSET (0..M)
  OBVIOUS
<1> HIDE DEF G
<1>5. G = 0..M
  BY <1>1, <1>2, <1>3, <1>4, UpTo
<1>6. \A m, n \in 0..M : m < n /\ w[n] # None => w[m] \in DOMAIN page
  BY <1>5 DEF G
<1> QED
  BY <1>6 DEF M, w

\* What the walks read.
LEMMA LinksAre ==
  ASSUME Types
  PROVE  /\ IsFiniteSet(DOMAIN page) /\ Cardinality(DOMAIN page) \in Nat
         /\ None \notin DOMAIN page /\ DOMAIN page \subseteq Nat
         /\ \A p \in DOMAIN page : page[p] \in PageNode /\ LinksIn(page[p], DOMAIN page)
<1>1. PICK level, limit : Typed(level, limit, page, head, todo, pc, left, right, sep, entered, count)
  BY DEF Types
<1>2. head.next \in Nat /\ DOMAIN page \subseteq 0..head.next - 1 /\ page \in [DOMAIN page -> PageNode]
  BY <1>1 DEF Typed
<1>3. IsFiniteSet(DOMAIN page) /\ Cardinality(DOMAIN page) \in Nat
  BY <1>2, FinitePages
<1>4. None \notin DOMAIN page /\ DOMAIN page \subseteq Nat
  BY <1>2 DEF None
<1>5. \A p \in DOMAIN page : page[p] \in PageNode /\ LinksIn(page[p], DOMAIN page)
  BY <1>1, <1>2 DEF Typed
<1> QED
  BY <1>3, <1>4, <1>5

\* findLeafPage: a page that is found is a leaf.
LEMMA LeafOrNone == ASSUME Types, NEW k PROVE FindLeaf(k) # None => page[FindLeaf(k)].leaf
<1> DEFINE N == Cardinality(DOMAIN page)
           M == N + 2
           w == ToLeaf(k)
<1> SUFFICES ASSUME FindLeaf(k) # None PROVE FindLeaf(k) \in DOMAIN page
  BY FoundIsLeaf
<1>1. N \in Nat /\ None \notin DOMAIN page /\ \A p \in DOMAIN page : page[p] \in PageNode /\ LinksIn(page[p], DOMAIN page)
  BY LinksAre
<1>2. \A n \in 1..M : w[n] = IF w[n - 1] \in DOMAIN page THEN Down(k)[w[n - 1]] ELSE None
  BY <1>1, WalkIs DEF ToLeaf
<1>3. FindLeaf(k) = w[M]
  BY DEF FindLeaf, End
<1> HIDE DEF w
<1>4. M \in 1..M
  BY <1>1
<1> DEFINE q == w[M - 1]
<1>5. q \in DOMAIN page /\ w[M] = Down(k)[q]
  BY <1>2, <1>3, <1>4
<1> HIDE DEF q, M, N
<1>6. CASE page[q].leaf
  BY <1>3, <1>5, <1>6 DEF Down
<1>7. CASE ~ page[q].leaf
  <2> DEFINE node == page[q]
             T == KeySet \X Nat
             U == Nat
  <2>1. w[M] = Child(node, k)
    BY <1>5, <1>7 DEF Down
  <2>2. node.entries \in Seq(T) /\ node.kids \in Seq(U) /\ LinksIn(node, DOMAIN page)
    BY <1>1, <1>5, NodeIs
  <2> HIDE DEF node, T, U
  <2>3. PICK i \in DOMAIN node.kids : w[M] = node.kids[i]
    BY <1>3, <2>1, <2>2, ChildIs
  <2> QED
    BY <1>3, <2>2, <2>3 DEF LinksIn
<1> QED
  BY <1>6, <1>7

\* rangeSearch and search: the way along the leaves has an end.
LEMMA RangeEnds == ASSUME Types, InLine, NEW lo, NEW hi, NEW withHi PROVE End(ToRange(lo, hi, withHi)) = None
<1>1. PICK rank : rank \in [Nat -> Int] /\ \A p \in DOMAIN page : Between(rank, p, page[p])
  BY DEF InLine
<1> DEFINE N == Cardinality(DOMAIN page)
           M == N + 2
           w == ToRange(lo, hi, withHi)
           D == DOMAIN page
           on == Onward(hi, withHi)
<1>2. /\ IsFiniteSet(D) /\ N \in Nat /\ None \notin D /\ D \subseteq Nat
  BY LinksAre
<1>3. \A n \in 1..M : w[n] = IF w[n - 1] \in D THEN on[w[n - 1]] ELSE None
  BY <1>2, WalkIs DEF ToRange
<1>4. \A m, n \in 0..M : m < n /\ w[n] # None => w[m] \in D
  BY <1>2, WalkStays DEF ToRange
<1>5. End(w) = w[M]
  BY DEF End
<1>6. \A p \in D : on[p] = None \/ on[p] = page[p].next
  BY DEF Onward
<1> SUFFICES ASSUME w[M] # None PROVE FALSE
  BY <1>5
<1> HIDE DEF w, on
<1>7. \A n \in 0..N + 1 : w[n] \in D
  BY <1>2, <1>4
<1>8. ASSUME NEW n \in 1..N PROVE rank[w[n - 1]] < rank[w[n]]
  <2>1. w[n - 1] \in D /\ w[n] \in D /\ n \in 1..M
    BY <1>2, <1>7
  <2>2. w[n] = page[w[n - 1]].next /\ w[n] # None
    BY <1>2, <1>3, <1>6, <2>1
  <2> QED
    BY <1>1, <2>1, <2>2 DEF Between
<1> DEFINE r == [p \in D |-> rank[p]]
<1>9. r \in [D -> Int] /\ \A p \in D : r[p] = rank[p]
  BY <1>1, <1>2
<1>10. (\A n \in 0..N : w[n] \in D) /\ \A n \in 1..N : r[w[n - 1]] < r[w[n]]
  <2>1. \A n \in 0..N : w[n] \in D
    BY <1>2, <1>7
  <2>2. \A n \in 1..N : n \in 0..N /\ n - 1 \in 0..N
    BY <1>2
  <2> HIDE DEF r
  <2> QED
    BY <1>8, <1>9, <2>1, <2>2
<1>11. N = Cardinality(D)
  OBVIOUS
<1> HIDE DEF r, D, N
<1> QED
  BY <1>2, <1>9, <1>10, <1>11, NoCircle

\* findLeftmostLeafPage: the way back comes to rest, at a leaf that is not its own prev.
LEMMA LeftmostEnds ==
  ASSUME Types, InLine, NEW k, FindLeftmost(k) # None
  PROVE  /\ ToLeftmost(k)[Cardinality(DOMAIN page) + 1] = FindLeftmost(k)
         /\ page[FindLeftmost(k)].prev # FindLeftmost(k)
<1>1. PICK rank : rank \in [Nat -> Int] /\ \A p \in DOMAIN page : Between(rank, p, page[p])
  BY DEF InLine
<1> DEFINE N == Cardinality(DOMAIN page)
           L == N + 1
           M == N + 2
           w == ToLeftmost(k)
           D == DOMAIN page
           on == Back(k)
           p == FindLeftmost(k)
<1>2. /\ IsFiniteSet(D) /\ N \in Nat /\ None \notin D /\ D \subseteq Nat
  BY LinksAre
<1>3. \A n \in 1..M : w[n] = IF w[n - 1] \in D THEN on[w[n - 1]] ELSE None
  BY <1>2, WalkIs DEF ToLeftmost
<1>4. \A m, n \in 0..M : m < n /\ w[n] # None => w[m] \in D
  BY <1>2, WalkStays DEF ToLeftmost
<1>5. p = w[M] /\ p # None
  BY DEF FindLeftmost, End
<1>6. \A q \in D : on[q] = q \/ on[q] = None \/ (on[q] = page[q].prev /\ on[q] \in D)
  BY DEF Back
<1> HIDE DEF w, on, p
<1>7. \A n \in 0..N + 1 : w[n] \in D
  BY <1>2, <1>4, <1>5
<1>8. w[L] = w[M]
  <2> SUFFICES ASSUME w[L] # w[M] PROVE FALSE
    OBVIOUS
  <2> DEFINE G == {n \in 0..L : w[L - n] # w[M - n]}
  <2>1. 0 \in G
    BY <1>2
  <2>2. ASSUME NEW n \in 1..L, n - 1 \in G PROVE n \in G
    <3> DEFINE a == L - n
    <3>1. /\ n \in 0..L /\ a \in 0..N + 1 /\ a + 1 \in 1..M /\ a + 2 \in 1..M /\ M - n = a + 1
          /\ L - (n - 1) = a + 1 /\ M - (n - 1) = a + 2 /\ a + 1 - 1 = a /\ a + 2 - 1 = a + 1
          /\ a + 1 \in 0..N + 1
      BY <1>2
    <3>2. w[a + 1] # w[a + 2]
      BY <2>2, <3>1
    <3> HIDE DEF a, L, M
    <3>3. w[a + 1] = on[w[a]] /\ w[a + 2] = on[w[a + 1]]
      BY <1>3, <1>7, <3>1
    <3>4. w[a] # w[a + 1]
      BY <3>2, <3>3
    <3> QED
      BY <3>1, <3>4 DEF a
  <2>3. G \in SUBSET (0..L) /\ L \in Nat
    BY <1>2
  <2> HIDE DEF G, L
  <2>4. G = 0..L
    BY <2>1, <2>2, <2>3, UpTo
  <2>5. ASSUME NEW n \in 1..L PROVE w[n - 1] # w[n]
    <3> DEFINE j == L - n
    <3>1. j \in 0..L /\ L - j = n /\ M - j = n + 1
      BY <1>2, <2>3 DEF L
    <3> HIDE DEF j
    <3>2. w[L - j] # w[M - j]
      BY <2>4, <3>1 DEF G
    <3>3. CASE w[n - 1] = w[n]
      <4>1. n \in 1..M /\ n + 1 \in 1..M /\ n \in 0..N + 1 /\ n - 1 \in 0..N + 1 /\ n + 1 - 1 = n
        BY <1>2 DEF L
      <4>2. w[n] = on[w[n - 1]] /\ w[n + 1] = on[w[n]]
        BY <1>3, <1>7, <4>1
      <4> QED
        BY <3>1, <3>2, <3>3, <4>2
    <3> QED
      BY <3>3
  <2> DEFINE r == [q \in D |-> 0 - rank[q]]
  <2>6. r \in [D -> Int] /\ \A q \in D : r[q] = 0 - rank[q] /\ rank[q] \in Int
    BY <1>1, <1>2
  <2>7. ASSUME NEW n \in 1..N PROVE r[w[n - 1]] < r[w[n]]
    <3>1. n \in 1..M /\ n \in 1..L /\ w[n - 1] \in D /\ w[n] \in D
      BY <1>2, <1>7 DEF L
    <3>2. w[n] = page[w[n - 1]].prev /\ w[n] # None
      BY <1>2, <1>3, <1>6, <2>5, <3>1
    <3>3. rank[w[n]] < rank[w[n - 1]]
      BY <1>1, <3>1, <3>2 DEF Between
    <3> HIDE DEF r
    <3> QED
      BY <2>6, <3>1, <3>3
  <2>8. (\A n \in 0..N : w[n] \in D) /\ N = Cardinality(D)
    BY <1>2, <1>7
  <2> HIDE DEF r, D, N
  <2> QED
    BY <1>2, <2>6, <2>7, <2>8, NoCircle
<1>9. p \in D /\ w[L] = p
  <2>1. L \in 0..N + 1
    BY <1>2
  <2> QED
    BY <1>5, <1>7, <1>8, <2>1
<1>10. page[p].prev # p
  <2>1. rank[p] \in Int
    BY <1>1, <1>2, <1>9
  <2>2. page[p].prev # None => rank[page[p].prev] < rank[p]
    BY <1>1, <1>9 DEF Between
  <2>3. p # None
    BY <1>5
  <2> QED
    BY <2>1, <2>2, <2>3
<1> QED
  BY <1>9, <1>10 DEF w, p

LEMMA InLineEnds == ASSUME Types, InLine PROVE SearchesEnd
<1> SUFFICES ASSUME NEW lo \in KeySet, NEW hi \in KeySet
             PROVE  /\ FindLeaf(lo) # None => page[FindLeaf(lo)].leaf
                    /\ FindLeftmost(lo) # None =>
                         /\ ToLeftmost(lo)[Cardinality(DOMAIN page) + 1] = FindLeftmost(lo)
                         /\ page[FindLeftmost(lo)].prev # FindLeftmost(lo)
                    /\ End(ToRange(lo, hi, TRUE)) = None
  BY DEF SearchesEnd
<1> QED
  BY LeafOrNone, LeftmostEnds, RangeEnds

\* The leaves stay in line, whatever part of its writes a crash has let an
\* operation make.
THEOREM LineKept == Spec => [](Types /\ InLine)
<1>1. Init => Types /\ InLine
  BY InitTypes, InitInLine
<1>2. Types /\ InLine /\ [Next]_vars => (Types /\ InLine)'
  BY StepTypes, StepInLine
<1> QED
  BY <1>1, <1>2, PTL DEF Spec

\* findLeafPage, findLeftmostLeafPage and rangeSearch come to an end on every
\* file a crash can leave.
THEOREM SearchesComeToAnEnd == Spec => []SearchesEnd
<1>1. Types /\ InLine => SearchesEnd
  BY InLineEnds
<1> QED
  BY <1>1, LineKept, PTL

-----------------------------------------------------------------------------
(***************************************************************************)
(* An operation on the file runs down.  A split is entered in ever higher  *)
(* pages: those over the page just split are fewer each time, although a   *)
(* crash can have left pages whose parent does not know them.  Until they  *)
(* are on disk, the writes of a split change no children but those of the  *)
(* two halves, so nothing comes to stand over them.                        *)
(***************************************************************************)
\* With a page in S, the pages that have it for a child are in S.
Closed(pages, S) ==
  \A q \in DOMAIN pages : (\E i \in DOMAIN pages[q].kids : pages[q].kids[i] \in S) => q \in S

\* p and the pages over it.
Over(pages, p) ==
  {x \in DOMAIN pages : \A S \in SUBSET DOMAIN pages : p \in S /\ Closed(pages, S) => x \in S}

\* The pages a split can still go up to.
Above == IF pc = "parent" THEN Cardinality(Over(page, left)) ELSE 0

Lower ==
  \/ Above' < Above
  \/ Above' = Above /\ Len(todo') < Len(todo)

\* A write is there to be made, or the parent of the split page can be looked at.
HasStep ==
  ~ Idle => \/ todo # <<>>
            \/ Ascending /\ left \in DOMAIN page /\ right \in DOMAIN page
               /\ page[left].parent \in DOMAIN page \cup {None}

KeepsKids(pages, halves, p, node) ==
  p \in halves \/ (p \in DOMAIN pages /\ node.kids = pages[p].kids)

Still(pages, halves, writes) ==
  /\ \E S : writes \in Seq(S)
  /\ \A i \in DOMAIN writes : ~ writes[i].head => KeepsKids(pages, halves, writes[i].page, writes[i].node)

SplitInv == pc = "parent" => left \in DOMAIN page /\ Still(page, {left, right}, todo)

\* No writes, one write, one list after another.
LEMMA StillNone == ASSUME NEW pages, NEW halves PROVE Still(pages, halves, <<>>)
<1>1. <<>> \in Seq({}) /\ DOMAIN <<>> = {}
  OBVIOUS
<1> QED
  BY <1>1 DEF Still

LEMMA StillHead ==
  ASSUME NEW pages, NEW halves, NEW root, NEW next
  PROVE  Still(pages, halves, <<HeadWrite(root, next)>>)
<1> DEFINE w == HeadWrite(root, next)
<1>1. w.head = TRUE
  BY WriteIs
<1> HIDE DEF w
<1>2. <<w>> \in Seq({w}) /\ DOMAIN <<w>> = {1} /\ <<w>>[1] = w
  OBVIOUS
<1>3. Still(pages, halves, <<w>>)
  BY <1>1, <1>2 DEF Still
<1> QED
  BY <1>3 DEF w

LEMMA StillPage ==
  ASSUME NEW pages, NEW halves, NEW p, NEW node, KeepsKids(pages, halves, p, node)
  PROVE  Still(pages, halves, <<PageWrite(p, node)>>)
<1> DEFINE w == PageWrite(p, node)
<1>1. w.page = p /\ w.node = node
  BY WriteIs
<1> HIDE DEF w
<1>2. <<w>> \in Seq({w}) /\ DOMAIN <<w>> = {1} /\ <<w>>[1] = w
  OBVIOUS
<1>3. Still(pages, halves, <<w>>)
  BY <1>1, <1>2 DEF Still
<1> QED
  BY <1>3 DEF w

LEMMA StillThen ==
  ASSUME NEW pages, NEW halves, NEW s, NEW t, Still(pages, halves, s), Still(pages, halves, t)
  PROVE  Still(pages, halves, s \o t)
<1>1. PICK S : s \in Seq(S)
  BY DEF Still
<1>2. PICK T : t \in Seq(T)
  BY DEF Still
<1> DEFINE U == S \cup T
           u == s \o t
<1>3. s \in Seq(U) /\ t \in Seq(U)
  BY <1>1, <1>2
<1> HIDE DEF U
<1>4. /\ u \in Seq(U) /\ \A i \in DOMAIN s : u[i] = s[i]
      /\ \A i \in DOMAIN t : u[Len(s) + i] = t[i]
      /\ \A i \in DOMAIN u : i \in DOMAIN s \/ (i - Len(s) \in DOMAIN t /\ i = Len(s) + (i - Len(s)))
  BY <1>3, Concat
<1> HIDE DEF u
<1>5. ASSUME NEW i \in DOMAIN u, ~ u[i].head PROVE KeepsKids(pages, halves, u[i].page, u[i].node)
  <2>1. CASE i \in DOMAIN s
    BY <1>4, <1>5, <2>1 DEF Still
  <2>2. CASE i - Len(s) \in DOMAIN t /\ i = Len(s) + (i - Len(s))
    <3> DEFINE j == i - Len(s)
    <3>1. j \in DOMAIN t /\ u[i] = t[j]
      BY <1>4, <2>2
    <3> HIDE DEF j
    <3> QED
      BY <1>5, <3>1 DEF Still
  <2> QED
    BY <1>4, <2>1, <2>2
<1> QED
  BY <1>4, <1>5 DEF Still, u

LEMMA StillAllocate ==
  ASSUME NEW pages, NEW halves, NEW leaf, head.next \in halves
  PROVE  Still(pages, halves, Allocate(leaf))
<1> DEFINE a == HeadWrite(head.root, head.next + 1)
           b == PageWrite(head.next, Blank(leaf))
<1>1. Still(pages, halves, <<a>>) /\ Still(pages, halves, <<b>>)
  BY StillHead, StillPage DEF KeepsKids
<1>2. Allocate(leaf) = <<a, b>>
  BY DEF Allocate
<1> HIDE DEF a, b
<1>3. Allocate(leaf) = <<a>> \o <<b>>
  BY <1>2, TwoWrites
<1> QED
  BY <1>1, <1>3, StillThen

LEMMA StillAdopt ==
  ASSUME NEW halves, NEW moved, NEW r, NEW S, moved \in Seq(S),
         \A j \in DOMAIN moved : moved[j] \in DOMAIN page /\ page[moved[j]] \in PageNode
  PROVE  Still(page, halves, Adopt(moved, r))
<1> DEFINE w(j) == PageWrite(moved[j], [page[moved[j]] EXCEPT !.parent = r])
           T == {w(j) : j \in DOMAIN moved}
           n == Len(moved)
           s == Adopt(moved, r)
<1>1. n \in Nat /\ DOMAIN moved = 1..n
  OBVIOUS
<1>2. s \in [1..n -> T] /\ \A j \in 1..n : s[j] = w(j)
  BY <1>1 DEF Adopt
<1> HIDE DEF n, s, T
<1>3. s \in Seq(T) /\ DOMAIN s = 1..n
  BY <1>1, <1>2, SeqMade
<1>4. ASSUME NEW j \in DOMAIN s PROVE KeepsKids(page, halves, s[j].page, s[j].node)
  <2> DEFINE p == moved[j]
             node == [page[p] EXCEPT !.parent = r]
  <2>1. p \in DOMAIN page /\ page[p] \in PageNode /\ s[j] = PageWrite(p, node)
    BY <1>1, <1>2, <1>3
  <2>2. node.kids = page[p].kids
    BY <2>1 DEF PageNode, NodeType
  <2> HIDE DEF p, node
  <2> QED
    BY <2>1, <2>2, WriteIs DEF KeepsKids
<1> QED
  BY <1>3, <1>4 DEF Still, s

LEMMA InsertSplitsStill == ASSUME Types, NEW k \in KeySet, InsertSplits(k) PROVE SplitInv'
<1>0. PICK level, limit : Typed(level, limit, page, head, todo, pc, left, right, sep, entered, count)
  BY DEF Types
<1> DEFINE p == FindLeaf(k)
           r == head.next
           all == WithEntry(page[p], <<k, count + 1>>)
           half == Len(all) \div 2
           n == page[p].next
           one == [page[p] EXCEPT !.entries = SubSeq(all, 1, half), !.next = r]
           two == Node(TRUE, From(all, half + 1), <<>>, page[p].parent, p, n)
           node == [page[n] EXCEPT !.prev = r]
           A == Allocate(TRUE)
           L == LinkPrev(n, r)
           H == Halves(p, r, all, half)
           hs == {p, r}
<1>1. Enter(k) /\ todo' = (A \o L) \o H /\ left' = p /\ right' = r
  BY DEF InsertSplits
<1>2. p \in DOMAIN page /\ page' = page /\ todo = <<>>
  BY <1>1, Entering DEF Enter, Idle
<1>3. n # None => n \in DOMAIN page /\ page[n] \in PageNode
  BY <1>0, <1>2, Settled DEF LinksIn
<1>4. n # None => KeepsKids(page, hs, n, node)
  <2>1. page[n] \in PageNode => node.kids = page[n].kids
    BY DEF PageNode, NodeType
  <2> HIDE DEF node, n
  <2> QED
    BY <1>3, <2>1 DEF KeepsKids
<1>5. KeepsKids(page, hs, p, one) /\ KeepsKids(page, hs, r, two)
  BY DEF KeepsKids
<1>6. /\ H = <<PageWrite(p, one), PageWrite(r, two)>>
      /\ L = IF n = None THEN <<>> ELSE <<PageWrite(n, node)>>
  BY DEF Halves, LinkPrev
<1>7. Still(page, hs, A)
  <2>1. head.next \in hs
    OBVIOUS
  <2> HIDE DEF hs
  <2> QED
    BY <2>1, StillAllocate
<1> HIDE DEF p, r, n, one, two, node, A, L, H, hs
<1>8. Still(page, hs, L)
  <2>1. CASE n = None
    BY <1>6, <2>1, StillNone
  <2>2. CASE n # None
    BY <1>4, <1>6, <2>2, StillPage
  <2> QED
    BY <2>1, <2>2
<1>9. Still(page, hs, H)
  <2> DEFINE w == PageWrite(p, one)
             x == PageWrite(r, two)
  <2>1. Still(page, hs, <<w>>) /\ Still(page, hs, <<x>>)
    BY <1>5, StillPage
  <2>2. H = <<w, x>>
    BY <1>6
  <2> HIDE DEF w, x
  <2>3. H = <<w>> \o <<x>>
    BY <2>2, TwoWrites
  <2> QED
    BY <2>1, <2>3, StillThen
<1>10. Still(page, hs, todo')
  BY <1>1, <1>7, <1>8, <1>9, StillThen
<1> QED
  BY <1>1, <1>2, <1>10 DEF SplitInv, hs

\* The page above is one of those over the page that was split, and has not that page over it.
LEMMA ParentSplitsStill == ASSUME Types, ParentSplits PROVE SplitInv' /\ Above' < Above
<1>0. PICK level, limit : Typed(level, limit, page, head, todo, pc, left, right, sep, entered, count)
  BY DEF Types
<1> DEFINE q == page[left].parent
           r == head.next
           A == Allocate(FALSE)
           hs == {q, r}
<1>2. Ascending /\ q # None /\ page' = page /\ left' = q /\ right' = r /\ pc' = "parent"
  BY DEF ParentSplits, file
<1>3. PICK i \in Position(left, page[q]) :
        LET keys == KeysAt(q, i)
            kids == KidsAt(q, i)
            mid == Len(keys) \div 2
            moved == From(kids, mid + 2)
        IN  todo' = A \o Adopt(moved, r)
                 \o <<PageWrite(q, [page[q] EXCEPT !.entries = SubSeq(keys, 1, mid),
                                                   !.kids = SubSeq(kids, 1, mid + 1)]),
                      PageWrite(r, Node(FALSE, From(keys, mid + 2), moved, page[q].parent, None, None))>>
  BY DEF ParentSplits
<1> DEFINE keys == KeysAt(q, i)
           kids == KidsAt(q, i)
           mid == Len(keys) \div 2
           moved == From(kids, mid + 2)
           one == [page[q] EXCEPT !.entries = SubSeq(keys, 1, mid), !.kids = SubSeq(kids, 1, mid + 1)]
           two == Node(FALSE, From(keys, mid + 2), moved, page[q].parent, None, None)
           w == PageWrite(q, one)
           x == PageWrite(r, two)
           B == Adopt(moved, r)
           H == <<w, x>>
<1>4. /\ q \in DOMAIN page /\ kids \in Seq(Nat) /\ Len(keys) \in Nat /\ Len(kids) = Len(keys) + 1
      /\ \A j \in DOMAIN kids : kids[j] \in DOMAIN page
  <2>1. /\ q \in DOMAIN page /\ kids \in Seq(Nat) /\ Len(page[q].entries) \in Nat
        /\ Len(keys) = Len(page[q].entries) + 1 /\ Len(kids) = Len(page[q].entries) + 2
        /\ \A j \in DOMAIN kids : kids[j] \in DOMAIN page
    BY <1>0, <1>2, <1>3, EnteredAbove
  <2> HIDE DEF q, keys, kids
  <2> QED
    BY <2>1
<1>5. todo = <<>> /\ left \in DOMAIN page
  BY <1>0, <1>2, AscendingTypes
<1>6. \A y \in DOMAIN page : page[y] \in PageNode /\ y \in Nat /\ Fitting(level, y, page[y]) /\ level[y] \in Nat
  BY <1>0, <1>5, Settled
<1>7. todo' = (A \o B) \o H
  BY <1>3
<1>k. i \in DOMAIN page[q].kids /\ page[q].kids[i] = left
  BY <1>3 DEF Position
<1>a. Still(page, hs, A)
  <2>1. head.next \in hs
    OBVIOUS
  <2> HIDE DEF hs
  <2> QED
    BY <2>1, StillAllocate
<1> HIDE DEF q, r, keys, kids
<1>8. moved \in Seq(Nat) /\ \A j \in DOMAIN moved : moved[j] \in DOMAIN page
  <2> DEFINE f == mid + 2
             S == Nat
             L == Len(kids)
  <2>1. f \in 1..Len(kids) + 1 /\ kids \in Seq(S)
    BY <1>4
  <2>2. L \in Nat /\ DOMAIN kids = 1..L /\ moved = From(kids, f)
    BY <1>4
  <2> HIDE DEF f, S, moved, mid
  <2>3. /\ From(kids, f) \in Seq(S) /\ Len(From(kids, f)) = Len(kids) + 1 - f
        /\ \A j : j \in 1..Len(kids) + 1 - f => From(kids, f)[j] = kids[f - 1 + j]
    BY <2>1, RestIs
  <2> HIDE DEF L
  <2>4. moved \in Seq(S) /\ DOMAIN moved = 1..L + 1 - f /\ \A j \in 1..L + 1 - f : moved[j] = kids[f - 1 + j]
    BY <2>2, <2>3 DEF L
  <2>5. ASSUME NEW j \in DOMAIN moved PROVE moved[j] \in DOMAIN page
    <3>1. j \in 1..L + 1 - f /\ f \in 1..L + 1
      BY <2>1, <2>4 DEF L
    <3>2. f - 1 + j \in 1..L
      BY <2>2, <3>1
    <3> QED
      BY <1>4, <2>2, <2>4, <3>1, <3>2
  <2> QED
    BY <2>4, <2>5 DEF S
<1> HIDE DEF moved, mid, one, two
<1>9. Still(page, hs, <<w>>) /\ Still(page, hs, <<x>>)
  BY StillPage DEF KeepsKids
<1>10. Still(page, hs, B)
  BY <1>6, <1>8, StillAdopt
<1> HIDE DEF w, x, A, B
<1>11. Still(page, hs, H)
  BY <1>9, StillThen, TwoWrites
<1> HIDE DEF H
<1>12. Still(page, hs, todo')
  BY <1>7, <1>10, <1>11, <1>a, StillThen
<1>13. SplitInv'
  BY <1>2, <1>4, <1>12 DEF SplitInv
<1> DEFINE O == Over(page, left)
           P == Over(page, q)
<1>14. P \subseteq O
  <2> SUFFICES ASSUME NEW y \in P, NEW S \in SUBSET DOMAIN page, left \in S, Closed(page, S) PROVE y \in S
    BY DEF Over
  <2>1. q \in S
    BY <1>4, <1>k DEF Closed
  <2> QED
    BY <2>1 DEF Over
<1>15. left \in O
  BY <1>5 DEF Over
<1>16. left \notin P
  <2> DEFINE S == {y \in DOMAIN page : level[y] >= level[q]}
  <2>1. Closed(page, S)
    <3> SUFFICES ASSUME NEW y \in DOMAIN page, NEW j \in DOMAIN page[y].kids, page[y].kids[j] \in S
                 PROVE  y \in S
      BY DEF Closed
    <3>1. level[page[y].kids[j]] + 1 = level[y] /\ level[page[y].kids[j]] \in Nat /\ level[y] \in Nat
          /\ level[page[y].kids[j]] >= level[q] /\ level[q] \in Nat
      BY <1>4, <1>6 DEF Fitting
    <3> QED
      BY <3>1
  <2>2. q \in S
    BY <1>4, <1>6
  <2>3. level[left] + 1 = level[q] /\ level[left] \in Nat
    BY <1>4, <1>5, <1>6, <1>k DEF Fitting
  <2>4. left \notin S
    BY <2>3
  <2> QED
    BY <2>1, <2>2, <2>4 DEF Over
<1>17. Cardinality(P) < Cardinality(O)
  <2>1. IsFiniteSet(DOMAIN page) /\ O \subseteq DOMAIN page
    BY LinksAre DEF Over
  <2> HIDE DEF O, P
  <2>2. IsFiniteSet(O)
    BY <2>1, FS_Subset
  <2>3. P # O
    BY <1>15, <1>16
  <2>4. IsFiniteSet(P) /\ Cardinality(P) <= Cardinality(O) /\ Cardinality(P) # Cardinality(O)
    BY <1>14, <2>2, <2>3, FS_Subset
  <2>5. Cardinality(P) \in Nat /\ Cardinality(O) \in Nat
    BY <2>2, <2>4, FS_CardinalityType
  <2> QED
    BY <2>4, <2>5
<1> QED
  BY <1>2, <1>13, <1>17 DEF Above, Ascending

\* After a step the pages have levels too.
LEMMA LevelsNext ==
  ASSUME Types'
  PROVE  \E level : /\ \A p \in DOMAIN page' : Fitting(level, p, page'[p]) /\ level[p] \in Nat
                    /\ pc' = "parent" => level[left'] = level[right']
<1>1. PICK level, limit : Typed(level, limit, page, head, todo, pc, left, right, sep, entered, count)'
  BY DEF Types
<1>2. DOMAIN page' \subseteq 0..head'.next - 1 /\ level \in [Nat -> Nat] /\ head'.next \in Nat
  BY <1>1 DEF Typed
<1>3. \A p \in DOMAIN page' : level[p] \in Nat
  BY <1>2
<1>4. \A p \in DOMAIN page' : Fitting(level, p, page'[p])
  BY <1>1 DEF Typed
<1>5. pc' = "parent" => level[left'] = level[right']
  BY <1>1 DEF Typed
<1> QED
  BY <1>3, <1>4, <1>5

\* A write leaves the writes after it still, and puts no page over the one that was split.
LEMMA WriteStill ==
  ASSUME Types, Types', SplitInv, Write
  PROVE  SplitInv' /\ (Above' < Above \/ Above' = Above) /\ Len(todo') < Len(todo)
<1>0. PICK level : /\ \A p \in DOMAIN page' : Fitting(level, p, page'[p]) /\ level[p] \in Nat
                   /\ pc' = "parent" => level[left'] = level[right']
  BY LevelsNext
<1>1. todo # <<>> /\ todo' = Tail(todo) /\ pc' = pc /\ left' = left /\ right' = right
  BY DEF Write, split
<1>2. PICK S : todo \in Seq(S)
  BY DEF Types, Typed, Ready
<1>3. /\ Tail(todo) \in Seq(S) /\ 1 \in DOMAIN todo /\ Head(todo) = todo[1]
      /\ \A i \in DOMAIN Tail(todo) : i + 1 \in DOMAIN todo /\ Tail(todo)[i] = todo[i + 1]
      /\ Len(Tail(todo)) < Len(todo)
  BY <1>1, <1>2
<1>4. CASE pc # "parent"
  BY <1>1, <1>3, <1>4 DEF SplitInv, Above
<1>5. CASE pc = "parent"
  <2> DEFINE w == Head(todo)
             hs == {left, right}
             D == DOMAIN page
             E == DOMAIN page'
  <2>1. left \in D /\ Still(page, hs, todo)
    BY <1>5 DEF SplitInv
  <2>2. /\ D \subseteq E
        /\ \A p \in E : p \notin hs => p \in D /\ page'[p].kids = page[p].kids
    <3>1. CASE w.head
      BY <3>1 DEF Write
    <3>2. CASE ~ w.head
      <4>1. page' = [p \in D \cup {w.page} |-> IF p = w.page THEN w.node ELSE page[p]]
        BY <3>2 DEF Write
      <4>2. KeepsKids(page, hs, w.page, w.node)
        BY <1>3, <2>1, <3>2 DEF Still
      <4> HIDE DEF w
      <4> QED
        BY <4>1, <4>2 DEF KeepsKids
    <3> QED
      BY <3>1, <3>2
  <2>3. Still(page', hs, todo')
    <3> SUFFICES ASSUME NEW i \in DOMAIN todo', ~ todo'[i].head
                 PROVE  KeepsKids(page', hs, todo'[i].page, todo'[i].node)
      BY <1>1, <1>3 DEF Still
    <3> DEFINE x == todo'[i]
    <3>1. KeepsKids(page, hs, x.page, x.node)
      BY <1>1, <1>3, <2>1 DEF Still
    <3>2. \A p \in D : p \in E /\ (p \notin hs => page'[p].kids = page[p].kids)
      BY <2>2
    <3> HIDE DEF x, hs, D, E
    <3>3. KeepsKids(page', hs, x.page, x.node)
      BY <3>1, <3>2 DEF KeepsKids, D, E
    <3> QED
      BY <3>3 DEF x
  <2>4. SplitInv'
    BY <1>1, <2>1, <2>2, <2>3 DEF SplitInv
  <2> DEFINE O == Over(page, left)
             P == Over(page', left)
             U == O \cap P
  <2>5. /\ \A p \in E : Fitting(level, p, page'[p]) /\ level[p] \in Nat
        /\ level[left] = level[right]
    BY <1>0, <1>1, <1>5
  <2>6. \A y \in P : level[y] >= level[left]
    <3> DEFINE T == {y \in E : level[y] >= level[left]}
    <3>1. Closed(page', T)
      <4> SUFFICES ASSUME NEW y \in E, NEW j \in DOMAIN page'[y].kids, page'[y].kids[j] \in T
                   PROVE  y \in T
        BY DEF Closed
      <4>1. level[page'[y].kids[j]] + 1 = level[y] /\ level[page'[y].kids[j]] \in Nat /\ level[y] \in Nat
            /\ level[page'[y].kids[j]] >= level[left] /\ level[left] \in Nat
        BY <2>1, <2>2, <2>5 DEF Fitting
      <4> QED
        BY <4>1
    <3>2. left \in T
      BY <2>1, <2>2, <2>5
    <3> QED
      BY <3>1, <3>2 DEF Over
  <2>7. Closed(page', U)
    <3> SUFFICES ASSUME NEW y \in E, NEW j \in DOMAIN page'[y].kids, page'[y].kids[j] \in U
                 PROVE  y \in U
      BY DEF Closed
    <3> DEFINE kid == page'[y].kids[j]
    <3>1. y \in P
      <4> SUFFICES ASSUME NEW T \in SUBSET E, left \in T, Closed(page', T) PROVE y \in T
        BY DEF Over
      <4>1. kid \in T
        BY DEF Over
      <4> QED
        BY <4>1 DEF Closed
    <3>2. y # right \/ y = left
      <4> SUFFICES ASSUME y = right PROVE FALSE
        OBVIOUS
      <4>1. level[kid] + 1 = level[y] /\ level[kid] >= level[left] /\ kid \in E /\ level[kid] \in Nat
            /\ level[y] = level[left] /\ level[left] \in Nat
        BY <2>1, <2>2, <2>5, <2>6 DEF Fitting, Over
      <4> HIDE DEF kid
      <4> QED
        BY <4>1
    <3>3. y \in O
      <4> SUFFICES ASSUME NEW T \in SUBSET D, left \in T, Closed(page, T) PROVE y \in T
        <5>1. y = left => y \in D
          BY <2>1
        <5>2. y # left => y \in D
          BY <2>2, <3>2
        <5> QED
          BY <5>1, <5>2 DEF Over
      <4>1. CASE y # left
        <5>1. y \in D /\ page'[y].kids = page[y].kids
          BY <2>2, <3>2, <4>1
        <5>2. kid \in T
          BY DEF Over
        <5> QED
          BY <5>1, <5>2 DEF Closed
      <4> QED
        BY <4>1
    <3> QED
      BY <3>1, <3>3
  <2>8. left \in U
    BY <2>1, <2>2 DEF Over
  <2>9. P \subseteq O
    <3>1. U \in SUBSET E
      BY DEF Over
    <3> HIDE DEF U
    <3>2. P \subseteq U
      BY <2>7, <2>8, <3>1 DEF Over
    <3> QED
      BY <3>2 DEF U
  <2>10. Cardinality(P) < Cardinality(O) \/ Cardinality(P) = Cardinality(O)
    <3>1. IsFiniteSet(D) /\ O \subseteq D
      BY LinksAre DEF Over
    <3> HIDE DEF O, P
    <3>2. IsFiniteSet(O)
      BY <3>1, FS_Subset
    <3>3. IsFiniteSet(P) /\ Cardinality(P) <= Cardinality(O)
      BY <2>9, <3>2, FS_Subset
    <3>4. Cardinality(P) \in Nat /\ Cardinality(O) \in Nat
      BY <3>2, <3>3, FS_CardinalityType
    <3> QED
      BY <3>3, <3>4
  <2> QED
    BY <1>1, <1>3, <1>5, <2>4, <2>10 DEF Above
<1> QED
  BY <1>4, <1>5

LEMMA SplitInit == Init => SplitInv
BY DEF Init, SplitInv

\* After the other steps no split is in hand.
LEMMA SplitStep == ASSUME Types, Types', SplitInv, [Next]_vars PROVE SplitInv'
<1>1. CASE UNCHANGED vars
  BY <1>1 DEF vars, file, split, SplitInv
<1>2. ASSUME NEW k \in KeySet, InsertFits(k) PROVE SplitInv'
  BY <1>2 DEF InsertFits, Enter, Idle, split, SplitInv
<1>3. ASSUME NEW e \in KeySet \X (1..MaxEntries), DeleteEntry(e) PROVE SplitInv'
  BY <1>3 DEF DeleteEntry, Idle, split, SplitInv
<1>4. CASE Rebuild
  BY <1>4 DEF Rebuild, Start, Idle, split, SplitInv
<1>5. CASE GrowRoot \/ ParentLost \/ ParentFits \/ Crash
  BY <1>5 DEF GrowRoot, ParentLost, ParentFits, Crash, Settle, SplitInv
<1> QED
  BY <1>1, <1>2, <1>3, <1>4, <1>5, InsertSplitsStill, ParentSplitsStill, WriteStill DEF Next, Step

\* What is counted is a number, and not 0 while a page above is to be looked at.
LEMMA AboveIs == ASSUME Types PROVE Above \in Nat /\ Len(todo) \in Nat /\ (Ascending => Above # 0)
<1> DEFINE O == Over(page, left)
<1>1. IsFiniteSet(O)
  <2>1. IsFiniteSet(DOMAIN page) /\ O \subseteq DOMAIN page
    BY LinksAre DEF Over
  <2> HIDE DEF O
  <2> QED
    BY <2>1, FS_Subset
<1>2. Cardinality(O) \in Nat
  BY <1>1, FS_CardinalityType
<1>3. Ascending => left \in O
  BY AscendingTypes DEF Over, Types
<1> HIDE DEF O
<1>4. Ascending => Cardinality(O) # 0
  BY <1>1, <1>3, FS_EmptySet
<1>5. Len(todo) \in Nat
  BY DEF Types, Typed, Ready
<1> QED
  BY <1>2, <1>4, <1>5 DEF Above, Ascending, O

\* An operation on the file always has a next step: a write, or a look at the parent page
\* (insertIntoParent reads no page that is not there, whatever a crash has left).
THEOREM OperationHasStep == Spec => []HasStep
<1>1. Types => HasStep
  <2> SUFFICES ASSUME Types PROVE HasStep
    OBVIOUS
  <2>1. pc \in {"idle", "parent"}
    BY TypesGiveTypeOK DEF TypeOK
  <2>2. Ascending => left \in DOMAIN page /\ right \in DOMAIN page
    BY AscendingTypes DEF Types
  <2>3. \A p \in DOMAIN page : page[p].parent \in DOMAIN page \cup {None}
    BY LinksAre DEF LinksIn
  <2> QED
    BY <2>1, <2>2, <2>3 DEF HasStep, Idle, Ascending
<1> QED
  BY <1>1, TypesKept, PTL

\* And it comes to an end: each step leaves fewer pages above the one that was split, or as many
\* and fewer writes, in a file a crash has torn too (the recursion of insertIntoParent).
THEOREM OperationRunsDown ==
  Spec => /\ [](Above \in Nat /\ Len(todo) \in Nat)
          /\ [][~ Idle => Lower]_vars
<1>1. Init => Types /\ SplitInv
  BY InitTypes, SplitInit
<1>2. Types /\ SplitInv /\ [Next]_vars => (Types /\ SplitInv)'
  BY StepTypes, SplitStep
<1>3. Types => Above \in Nat /\ Len(todo) \in Nat
  BY AboveIs
<1>4. Types /\ SplitInv /\ Types' /\ [Next]_vars => [~ Idle => Lower]_vars
  <2> SUFFICES ASSUME Types, SplitInv, Types', Next, ~ Idle PROVE Lower
    OBVIOUS
  <2>0. Above \in Nat /\ Len(todo) \in Nat /\ (Ascending => Above # 0)
    BY AboveIs
  <2>1. CASE Write
    <3>1. (Above' < Above \/ Above' = Above) /\ Len(todo') < Len(todo)
      BY <2>1, WriteStill
    <3> QED
      BY <3>1 DEF Lower
  <2>2. CASE GrowRoot \/ ParentLost \/ ParentFits
    <3>1. Ascending /\ pc' = "idle"
      BY <2>2 DEF GrowRoot, ParentLost, ParentFits, Settle
    <3>2. Above' = 0
      BY <3>1 DEF Above
    <3> QED
      BY <2>0, <3>1, <3>2 DEF Lower
  <2>3. CASE ParentSplits
    BY <2>3, ParentSplitsStill DEF Lower
  <2>4. CASE Crash
    <3>1. Above' = 0 /\ Len(todo') = 0 /\ todo' = <<>>
      BY <2>4 DEF Crash, Settle, Above
    <3>2. CASE todo = <<>>
      <4>1. Ascending
        <5>1. pc \in {"idle", "parent"}
          BY TypesGiveTypeOK DEF TypeOK
        <5> QED
          BY <3>2, <5>1 DEF Idle, Ascending
      <4> QED
        BY <2>0, <3>1, <4>1 DEF Lower
    <3>3. CASE todo # <<>>
      <4>1. Len(todo) # 0
        BY <3>3 DEF Types, Typed, Ready
      <4> QED
        BY <2>0, <3>1, <4>1 DEF Lower
    <3> QED
      BY <3>2, <3>3
  <2> QED
    BY <2>1, <2>2, <2>3, <2>4 DEF Next, Step, InsertFits, InsertSplits, Enter, DeleteEntry, Rebuild, Start
<1> QED
  BY <1>1, <1>2, <1>3, <1>4, PTL DEF Spec

===============================================================================
