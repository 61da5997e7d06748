------------------------- MODULE IndexSearch_proofs -------------------------
(***************************************************************************)
(* Proofs about IndexTree: as long as no crash has cut the file, its pages *)
(* are a balanced tree over one chain of leaves, so a search, a range      *)
(* search and the check of a unique index find exactly what was entered,   *)
(* for any keys, any number of entries in a page and any number of         *)
(* insertions, deletions, rebuilds and crashes.                            *)
(***************************************************************************)
EXTENDS IndexTree_proofs

-----------------------------------------------------------------------------
(***************************************************************************)
(* What the writes of an operation lead to.  The file is one function: its *)
(* header stands at None.                                                  *)
(***************************************************************************)
\* The file: pages and, at None, the header.
Disk(pages, header) == [x \in DOMAIN pages \cup {None} |-> IF x = None THEN header ELSE pages[x]]

\* The file after v is written to place x.
Put(D, x, v) == [y \in DOMAIN D \cup {x} |-> IF y = x THEN v ELSE D[y]]

\* Where a write goes, and what is there afterwards.
Onto(w) == IF w.head THEN None ELSE w.page

What(w) == IF w.head THEN [magic |-> TRUE, root |-> w.root, next |-> w.next] ELSE w.node

\* The last write to a place decides.
Gives(D, writes, E) ==
  /\ \A x : x \in DOMAIN E <=> (x \in DOMAIN D \/ \E i \in DOMAIN writes : Onto(writes[i]) = x)
  /\ \A x \in DOMAIN E :
       \/ E[x] = D[x] /\ \A i \in DOMAIN writes : Onto(writes[i]) # x
       \/ \E i \in DOMAIN writes :
            /\ Onto(writes[i]) = x /\ E[x] = What(writes[i])
            /\ \A j \in DOMAIN writes : j > i => Onto(writes[j]) # x

\* Writing nothing changes nothing: what is led to is on disk already.
LEMMA GivesNothing ==
  ASSUME NEW pages, NEW header, NEW pg, NEW hd, NEW S, NEW T,
         pages \in [DOMAIN pages -> S], pg \in [DOMAIN pg -> T],
         None \notin DOMAIN pages, None \notin DOMAIN pg,
         Gives(Disk(pages, header), <<>>, Disk(pg, hd))
  PROVE  pages = pg /\ header = hd
<1> DEFINE D == Disk(pages, header)
           E == Disk(pg, hd)
<1>1. DOMAIN D = DOMAIN pages \cup {None} /\ DOMAIN E = DOMAIN pg \cup {None}
  BY DEF Disk
<1>2. DOMAIN <<>> = {}
  OBVIOUS
<1>3. (\A x : x \in DOMAIN E <=> x \in DOMAIN D) /\ \A x \in DOMAIN E : E[x] = D[x]
  <2> HIDE DEF D, E
  <2> QED
    BY <1>2 DEF Gives, D, E
<1>4. \A x : x \in DOMAIN pg <=> x \in DOMAIN pages
  BY <1>1, <1>3
<1>5. D[None] = header /\ E[None] = hd
  BY DEF Disk
<1>6. (\A x \in DOMAIN pages : D[x] = pages[x]) /\ (\A x \in DOMAIN pg : E[x] = pg[x])
  BY DEF Disk
<1> HIDE DEF D, E
<1>7. DOMAIN pg = DOMAIN pages /\ \A x \in DOMAIN pages : pg[x] = pages[x]
  BY <1>1, <1>3, <1>4, <1>6
<1>8. header = hd
  BY <1>1, <1>3, <1>5
<1> QED
  BY <1>7, <1>8

\* One write.
LEMMA GivesOne == ASSUME NEW D, NEW w PROVE Gives(D, <<w>>, Put(D, Onto(w), What(w)))
<1>1. DOMAIN <<w>> = {1} /\ <<w>>[1] = w
  OBVIOUS
<1> QED
  BY <1>1 DEF Gives, Put

\* What two operations lead to, one after the other.
LEMMA GivesThen ==
  ASSUME NEW S, NEW s, NEW t, NEW D, NEW E, NEW F, s \in Seq(S), t \in Seq(S),
         Gives(D, s, E), Gives(E, t, F)
  PROVE  Gives(D, s \o t, F)
<1> DEFINE u == s \o t
           n == Len(s)
<1>1. /\ n \in Nat /\ DOMAIN s = 1..n /\ Len(t) \in Nat /\ DOMAIN t = 1..Len(t) /\ DOMAIN u = 1..n + Len(t)
      /\ \A i \in DOMAIN s : i \in DOMAIN u /\ u[i] = s[i]
      /\ \A i \in DOMAIN t : n + i \in DOMAIN u /\ u[n + i] = t[i]
      /\ \A i \in DOMAIN u : i \in DOMAIN s \/ (i - n \in DOMAIN t /\ i = n + (i - n))
  BY Concat
<1> HIDE DEF u, n
<1>2. \A i \in DOMAIN u : (i \in DOMAIN s /\ u[i] = s[i]) \/ \E k \in DOMAIN t : i = n + k /\ u[i] = t[k]
  BY <1>1
<1>3. \A x : (\E i \in DOMAIN u : Onto(u[i]) = x) <=>
               ((\E i \in DOMAIN s : Onto(s[i]) = x) \/ \E i \in DOMAIN t : Onto(t[i]) = x)
  <2> TAKE x
  <2>1. ASSUME NEW i \in DOMAIN u, Onto(u[i]) = x
        PROVE  (\E j \in DOMAIN s : Onto(s[j]) = x) \/ \E j \in DOMAIN t : Onto(t[j]) = x
    BY <1>2, <2>1
  <2>2. ASSUME NEW i \in DOMAIN s, Onto(s[i]) = x PROVE \E j \in DOMAIN u : Onto(u[j]) = x
    BY <1>1, <2>2
  <2>3. ASSUME NEW i \in DOMAIN t, Onto(t[i]) = x PROVE \E j \in DOMAIN u : Onto(u[j]) = x
    <3>1. n + i \in DOMAIN u /\ u[n + i] = t[i]
      BY <1>1
    <3> QED
      BY <2>3, <3>1
  <2> QED
    BY <2>1, <2>2, <2>3
<1>4. \A x : x \in DOMAIN F <=> (x \in DOMAIN D \/ \E i \in DOMAIN u : Onto(u[i]) = x)
  BY <1>3 DEF Gives
<1>5. ASSUME NEW x \in DOMAIN F
      PROVE  \/ F[x] = D[x] /\ \A i \in DOMAIN u : Onto(u[i]) # x
             \/ \E i \in DOMAIN u :
                  /\ Onto(u[i]) = x /\ F[x] = What(u[i])
                  /\ \A j \in DOMAIN u : j > i => Onto(u[j]) # x
  <2>1. CASE \E i \in DOMAIN t :
               /\ Onto(t[i]) = x /\ F[x] = What(t[i])
               /\ \A j \in DOMAIN t : j > i => Onto(t[j]) # x
    <3>1. PICK i \in DOMAIN t :
            /\ Onto(t[i]) = x /\ F[x] = What(t[i])
            /\ \A j \in DOMAIN t : j > i => Onto(t[j]) # x
      BY <2>1
    <3>2. n + i \in DOMAIN u /\ u[n + i] = t[i]
      BY <1>1
    <3>3. ASSUME NEW j \in DOMAIN u, j > n + i PROVE Onto(u[j]) # x
      <4>1. j \notin DOMAIN s /\ \A k \in DOMAIN t : j = n + k => k > i
        BY <1>1, <3>3
      <4> QED
        BY <1>2, <3>1, <4>1
    <3> QED
      BY <3>1, <3>2, <3>3
  <2>2. CASE F[x] = E[x] /\ \A i \in DOMAIN t : Onto(t[i]) # x
    <3>1. x \in DOMAIN E
      BY <2>2 DEF Gives
    <3>2. CASE E[x] = D[x] /\ \A i \in DOMAIN s : Onto(s[i]) # x
      <4>1. \A i \in DOMAIN u : Onto(u[i]) # x
        BY <1>3, <2>2, <3>2
      <4> QED
        BY <2>2, <3>2, <4>1
    <3>3. CASE \E i \in DOMAIN s :
                 /\ Onto(s[i]) = x /\ E[x] = What(s[i])
                 /\ \A j \in DOMAIN s : j > i => Onto(s[j]) # x
      <4>1. PICK i \in DOMAIN s :
              /\ Onto(s[i]) = x /\ E[x] = What(s[i])
              /\ \A j \in DOMAIN s : j > i => Onto(s[j]) # x
        BY <3>3
      <4>2. i \in DOMAIN u /\ u[i] = s[i]
        BY <1>1
      <4>3. ASSUME NEW j \in DOMAIN u, j > i PROVE Onto(u[j]) # x
        BY <1>2, <2>2, <4>1, <4>3
      <4> QED
        BY <2>2, <4>1, <4>2, <4>3
    <3> QED
      BY <3>1, <3>2, <3>3 DEF Gives
  <2> QED
    BY <2>1, <2>2 DEF Gives
<1> QED
  BY <1>4, <1>5 DEF Gives, u

\* The first write done, the others lead where they all led.
LEMMA GivesTail ==
  ASSUME NEW S, NEW s, NEW D, NEW E, s \in Seq(S), s # <<>>, Gives(D, s, E)
  PROVE  Gives(Put(D, Onto(Head(s)), What(Head(s))), Tail(s), E)
<1> DEFINE t == Tail(s)
           w == Head(s)
           C == Put(D, Onto(w), What(w))
<1>1. /\ Len(s) \in Nat \ {0} /\ DOMAIN s = 1..Len(s) /\ w = s[1]
      /\ t \in Seq(S) /\ DOMAIN t = 1..Len(s) - 1
      /\ \A i \in 1..Len(s) - 1 : t[i] = s[i + 1]
  BY HeadTailProperties
<1> HIDE DEF t, w
<1>2. \A i \in DOMAIN t : i + 1 \in DOMAIN s /\ i + 1 # 1 /\ s[i + 1] = t[i]
  BY <1>1
<1>3. \A i \in DOMAIN s : i = 1 \/ (i - 1 \in DOMAIN t /\ t[i - 1] = s[i])
  BY <1>1
<1>4. 1 \in DOMAIN s /\ \A i \in DOMAIN s : i \in Nat /\ i >= 1
  BY <1>1
<1>d. \A x : x \in DOMAIN C <=> x \in DOMAIN D \/ x = Onto(w)
  BY DEF Put
<1>c. \A x \in DOMAIN C : C[x] = IF x = Onto(w) THEN What(w) ELSE D[x]
  BY DEF Put
<1> HIDE DEF C
<1>5. \A x : (\E i \in DOMAIN s : Onto(s[i]) = x) <=> (x = Onto(w) \/ \E i \in DOMAIN t : Onto(t[i]) = x)
  <2> TAKE x
  <2>1. ASSUME NEW i \in DOMAIN s, Onto(s[i]) = x
        PROVE  x = Onto(w) \/ \E j \in DOMAIN t : Onto(t[j]) = x
    BY <1>1, <1>3, <2>1
  <2>2. ASSUME NEW i \in DOMAIN t, Onto(t[i]) = x PROVE \E j \in DOMAIN s : Onto(s[j]) = x
    BY <1>2, <2>2
  <2>3. ASSUME x = Onto(w) PROVE \E j \in DOMAIN s : Onto(s[j]) = x
    BY <1>1, <1>4, <2>3
  <2> QED
    BY <2>1, <2>2, <2>3
<1>6. \A x : x \in DOMAIN E <=> (x \in DOMAIN C \/ \E i \in DOMAIN t : Onto(t[i]) = x)
  BY <1>5, <1>d DEF Gives
<1>7. ASSUME NEW x \in DOMAIN E
      PROVE  \/ E[x] = C[x] /\ \A i \in DOMAIN t : Onto(t[i]) # x
             \/ \E i \in DOMAIN t :
                  /\ Onto(t[i]) = x /\ E[x] = What(t[i])
                  /\ \A j \in DOMAIN t : j > i => Onto(t[j]) # x
  <2>1. CASE E[x] = D[x] /\ \A i \in DOMAIN s : Onto(s[i]) # x
    <3>1. x # Onto(w) /\ \A i \in DOMAIN t : Onto(t[i]) # x
      BY <1>5, <2>1
    <3>2. x \in DOMAIN C
      BY <1>6, <3>1
    <3> QED
      BY <1>c, <2>1, <3>1, <3>2
  <2>2. CASE \E i \in DOMAIN s :
               /\ Onto(s[i]) = x /\ E[x] = What(s[i])
               /\ \A j \in DOMAIN s : j > i => Onto(s[j]) # x
    <3>1. PICK i \in DOMAIN s :
            /\ Onto(s[i]) = x /\ E[x] = What(s[i])
            /\ \A j \in DOMAIN s : j > i => Onto(s[j]) # x
      BY <2>2
    <3>2. CASE i = 1
      <4>1. ASSUME NEW j \in DOMAIN t PROVE Onto(t[j]) # x
        <5>1. j + 1 \in DOMAIN s /\ j + 1 > 1 /\ s[j + 1] = t[j]
          BY <1>1, <1>2
        <5> QED
          BY <3>1, <3>2, <5>1
      <4>2. x = Onto(w) /\ E[x] = What(w)
        BY <1>1, <3>1, <3>2
      <4> QED
        BY <1>c, <1>d, <4>1, <4>2
    <3>3. CASE i # 1
      <4>1. i - 1 \in DOMAIN t /\ t[i - 1] = s[i]
        BY <1>3, <3>3
      <4>2. ASSUME NEW j \in DOMAIN t, j > i - 1 PROVE Onto(t[j]) # x
        <5>1. j + 1 \in DOMAIN s /\ j + 1 > i /\ s[j + 1] = t[j]
          BY <1>1, <1>2, <1>4, <4>2
        <5> QED
          BY <3>1, <5>1
      <4> QED
        BY <3>1, <4>1, <4>2
    <3> QED
      BY <3>2, <3>3
  <2> QED
    BY <2>1, <2>2 DEF Gives
<1> QED
  BY <1>6, <1>7 DEF Gives, C, t, w

\* The header, one page, and the children of a new page.
LEMMA GivesHead ==
  ASSUME NEW pages, NEW header, NEW root, NEW next, None \notin DOMAIN pages
  PROVE  Gives(Disk(pages, header), <<HeadWrite(root, next)>>, Disk(pages, [magic |-> TRUE, root |-> root, next |-> next]))
<1> DEFINE w == HeadWrite(root, next)
           h == [magic |-> TRUE, root |-> root, next |-> next]
<1>1. Onto(w) = None /\ What(w) = h
  BY WriteIs DEF Onto, What
<1> HIDE DEF w, h
<1>2. Put(Disk(pages, header), None, h) = Disk(pages, h)
  BY DEF Put, Disk
<1>3. Gives(Disk(pages, header), <<w>>, Disk(pages, h))
  BY <1>1, <1>2, GivesOne
<1> QED
  BY <1>3 DEF w, h

\* A page written.
LEMMA GivesPage ==
  ASSUME NEW pages, NEW header, NEW p, NEW node, p # None
  PROVE  Gives(Disk(pages, header), <<PageWrite(p, node)>>, Disk(Put(pages, p, node), header))
<1> DEFINE w == PageWrite(p, node)
<1>1. Onto(w) = p /\ What(w) = node
  BY WriteIs DEF Onto, What
<1> HIDE DEF w
<1>2. Put(Disk(pages, header), p, node) = Disk(Put(pages, p, node), header)
  <2> DEFINE E == Put(Disk(pages, header), p, node)
             F == Disk(Put(pages, p, node), header)
  <2>1. DOMAIN E = (DOMAIN pages \cup {None}) \cup {p} /\ DOMAIN F = (DOMAIN pages \cup {p}) \cup {None}
    BY DEF Put, Disk
  <2>2. E = [x \in (DOMAIN pages \cup {None}) \cup {p} |-> IF x = p THEN node ELSE IF x = None THEN header ELSE pages[x]]
    BY DEF Put, Disk
  <2>3. F = [x \in (DOMAIN pages \cup {p}) \cup {None} |-> IF x = None THEN header ELSE IF x = p THEN node ELSE pages[x]]
    BY DEF Put, Disk
  <2>4. (DOMAIN pages \cup {None}) \cup {p} = (DOMAIN pages \cup {p}) \cup {None}
    OBVIOUS
  <2> HIDE DEF E, F
  <2> QED
    BY <2>2, <2>3, <2>4 DEF E, F
<1>3. Gives(Disk(pages, header), <<w>>, Disk(Put(pages, p, node), header))
  BY <1>1, <1>2, GivesOne
<1> QED
  BY <1>3 DEF w

\* The pages after moveRightChildren has given those of moved the parent r.
Adopted(pages, moved, r) ==
  [x \in DOMAIN pages |-> IF \E j \in DOMAIN moved : moved[j] = x THEN [page[x] EXCEPT !.parent = r] ELSE pages[x]]

\* The pages of a list given a new parent.
LEMMA GivesAdopt ==
  ASSUME NEW pages, NEW header, NEW moved, NEW r, moved \in Seq(Nat),
         \A j \in DOMAIN moved : moved[j] \in DOMAIN pages,
         \A i, j \in DOMAIN moved : moved[i] = moved[j] => i = j
  PROVE  Gives(Disk(pages, header), Adopt(moved, r), Disk(Adopted(pages, moved, r), header))
<1> DEFINE D == Disk(pages, header)
           E == Disk(Adopted(pages, moved, r), header)
           A == Adopt(moved, r)
           node(x) == [page[x] EXCEPT !.parent = r]
<1>1. DOMAIN A = DOMAIN moved /\ \A j \in DOMAIN moved : A[j] = PageWrite(moved[j], node(moved[j]))
  BY DEF Adopt
<1>n. \A j \in DOMAIN moved : moved[j] # None
  BY DEF None
<1> HIDE DEF A, node
<1>2. \A j \in DOMAIN moved : Onto(A[j]) = moved[j] /\ What(A[j]) = node(moved[j])
  BY <1>1, WriteIs DEF Onto, What
<1>3. DOMAIN D = DOMAIN pages \cup {None} /\ DOMAIN E = DOMAIN pages \cup {None}
  BY DEF Disk, Adopted
<1>4. \A x \in DOMAIN pages \cup {None} :
        /\ D[x] = IF x = None THEN header ELSE pages[x]
        /\ E[x] = IF x = None THEN header
                  ELSE IF \E j \in DOMAIN moved : moved[j] = x THEN node(x) ELSE pages[x]
  BY DEF Disk, Adopted, node
<1> HIDE DEF D, E
<1>5. ASSUME NEW x \in DOMAIN E
      PROVE  \/ E[x] = D[x] /\ \A i \in DOMAIN A : Onto(A[i]) # x
             \/ \E i \in DOMAIN A :
                  /\ Onto(A[i]) = x /\ E[x] = What(A[i])
                  /\ \A j \in DOMAIN A : j > i => Onto(A[j]) # x
  <2>1. CASE \E j \in DOMAIN moved : moved[j] = x
    <3>1. PICK j \in DOMAIN moved : moved[j] = x
      BY <2>1
    <3>2. E[x] = node(x)
      BY <1>3, <1>4, <1>n, <3>1
    <3>3. \A i \in DOMAIN A : i # j => Onto(A[i]) # x
      BY <1>1, <1>2, <3>1
    <3>4. \A i \in DOMAIN A : i > j => i # j
      <4>1. j \in Nat /\ DOMAIN A \subseteq Nat
        BY <1>1
      <4> QED
        BY <4>1
    <3> QED
      BY <1>1, <1>2, <3>1, <3>2, <3>3, <3>4
  <2>2. CASE ~ \E j \in DOMAIN moved : moved[j] = x
    BY <1>1, <1>2, <1>3, <1>4, <2>2
  <2> QED
    BY <2>1, <2>2
<1>6. \A x : x \in DOMAIN E <=> (x \in DOMAIN D \/ \E i \in DOMAIN A : Onto(A[i]) = x)
  BY <1>1, <1>2, <1>3
<1> QED
  BY <1>5, <1>6 DEF Gives, D, E, A

-----------------------------------------------------------------------------
(***************************************************************************)
(* The tree.  When no crash has cut an operation short, the pages pg and   *)
(* the header hd, as they will be when its writes are made, are a tree:    *)
(* level gives the height of a page over the leaves, lo and hi the keys it *)
(* is for, chain the leaves in their order.  A split of l into l and r is  *)
(* still to be entered in the parent, unless l and r are None.             *)
(***************************************************************************)
Key(node, i) == node.entries[i][1]

\* The pages allocated are there and the root has no parent.
Pages(pg, hd) ==
  /\ hd.magic = TRUE /\ hd.next \in Nat
  /\ pg \in [0..hd.next - 1 -> NodeType]
  /\ hd.root \in DOMAIN pg /\ pg[hd.root].parent = None

\* Every page but the root, and the new half of a split root, is below the root.
Levels(pg, hd, level, l, r) ==
  /\ level \in [DOMAIN pg -> Nat]
  /\ level[hd.root] < hd.next
  /\ \A p \in DOMAIN pg :
       /\ pg[p].leaf <=> level[p] = 0
       /\ level[p] < level[hd.root] \/ p = hd.root \/ (p = r /\ l = hd.root)

\* The children of a page name it as their parent and are one level below it.
Kids(pg, level) ==
  \A p \in DOMAIN pg : ~ pg[p].leaf =>
    /\ Len(pg[p].kids) = Len(pg[p].entries) + 1
    /\ \A i \in DOMAIN pg[p].kids :
         /\ pg[p].kids[i] \in DOMAIN pg
         /\ pg[pg[p].kids[i]].parent = p /\ level[pg[p].kids[i]] + 1 = level[p]
    /\ \A i, j \in DOMAIN pg[p].kids : pg[p].kids[i] = pg[p].kids[j] => i = j

IsKid(pg, c, p) == \E i \in DOMAIN pg[p].kids : pg[p].kids[i] = c

\* A page is a child of its parent, but for the half of a split not entered there yet.
Parents(pg, hd, l, r) ==
  \A c \in DOMAIN pg :
    IF pg[c].parent = None
      THEN c = hd.root \/ (c = r /\ l = hd.root)
      ELSE /\ pg[c].parent \in DOMAIN pg /\ ~ pg[pg[c].parent].leaf
           /\ c = r \/ IsKid(pg, c, pg[c].parent)

\* Entries in a leaf ascend by key and, of one key, by age; separators by key.
Ordered(pg) ==
  \A p \in DOMAIN pg : \A i, j \in DOMAIN pg[p].entries : i < j =>
    IF pg[p].leaf THEN Less(pg[p].entries[i], pg[p].entries[j]) ELSE Key(pg[p], i) <= Key(pg[p], j)

\* A page is for the keys in lo and not in hi; as equal keys may be on both
\* sides of a separator, an entry may also be the least of hi.
UpSets == {U \in SUBSET Int : \A k \in U, m \in Int : k <= m => m \in U}

\* The keys from k on.
AtLeast(k) == {m \in Int : k <= m}

\* Every entry of a page is in its range.
Ranges(pg, lo, hi) ==
  /\ lo \in [DOMAIN pg -> UpSets] /\ hi \in [DOMAIN pg -> UpSets]
  /\ \A p \in DOMAIN pg :
       /\ hi[p] \subseteq lo[p]
       /\ \A i \in DOMAIN pg[p].entries :
            Key(pg[p], i) \in lo[p] /\ \A k \in hi[p] : Key(pg[p], i) <= k

\* Both halves of a split are found in the place of the left one.
Upper(hi, p, l, r) == IF p = l THEN hi[r] ELSE hi[p]

\* The separators of a page part its range between its children.
Parted(pg, hd, lo, hi, l, r) ==
  /\ lo[hd.root] = Int /\ Upper(hi, hd.root, l, r) = {}
  /\ \A p \in DOMAIN pg : ~ pg[p].leaf => \A i \in DOMAIN pg[p].kids :
       /\ lo[pg[p].kids[i]] = IF i = 1 THEN lo[p] ELSE AtLeast(Key(pg[p], i - 1))
       /\ Upper(hi, pg[p].kids[i], l, r) =
            IF i = Len(pg[p].kids) THEN hi[p] ELSE AtLeast(Key(pg[p], i))

\* What a split that has not been entered in the parent leaves there to be done.
Halved(pg, hd, level, lo, hi, l, r, s) ==
  \/ l = None /\ r = None
  \/ /\ l \in DOMAIN pg /\ r \in DOMAIN pg /\ l # r /\ r # hd.root
     /\ level[r] = level[l] /\ pg[r].parent = pg[l].parent
     /\ s \in KeySet \X Nat /\ hi[l] = AtLeast(s[1]) /\ lo[r] = AtLeast(s[1])
     /\ \A p \in DOMAIN pg : ~ pg[p].leaf => ~ IsKid(pg, r, p)

\* The leaves form a chain.
Chained(pg, hd, chain) ==
  /\ chain \in Seq(DOMAIN pg) /\ Len(chain) <= hd.next
  /\ \A i \in DOMAIN chain :
       /\ pg[chain[i]].leaf
       /\ pg[chain[i]].next = IF i = Len(chain) THEN None ELSE chain[i + 1]
       /\ pg[chain[i]].prev = IF i = 1 THEN None ELSE chain[i - 1]
  /\ \A i, j \in DOMAIN chain : chain[i] = chain[j] => i = j
  /\ \A p \in DOMAIN pg : pg[p].leaf => \E i \in DOMAIN chain : chain[i] = p

\* Along the chain the entries ascend.
Ascends(pg, lo, hi, chain) ==
  \A i, j \in DOMAIN chain : i < j =>
    /\ lo[chain[j]] \subseteq hi[chain[i]]
    /\ \A x \in DOMAIN pg[chain[i]].entries : \A y \in DOMAIN pg[chain[j]].entries :
         Less(pg[chain[i]].entries[x], pg[chain[j]].entries[y])

Occurs(entries, e) == \E i \in DOMAIN entries : entries[i] = e

\* The leaves hold the entries held and no other.
Holds(pg, held) == \A e : e \in held <=> \E p \in DOMAIN pg : pg[p].leaf /\ Occurs(pg[p].entries, e)

Tree(pg, hd, level, lo, hi, chain, l, r, s, held) ==
  /\ Pages(pg, hd) /\ Levels(pg, hd, level, l, r) /\ Kids(pg, level) /\ Parents(pg, hd, l, r)
  /\ Ordered(pg) /\ Ranges(pg, lo, hi) /\ Parted(pg, hd, lo, hi, l, r)
  /\ Halved(pg, hd, level, lo, hi, l, r, s)
  /\ Chained(pg, hd, chain) /\ Ascends(pg, lo, hi, chain) /\ Holds(pg, held)

\* The writes still to be made lead to such a tree.
TreeAt(l, r, s, held) ==
  \E pg, hd, level, lo, hi, chain :
    /\ Gives(Disk(page, head), todo, Disk(pg, hd))
    /\ Tree(pg, hd, level, lo, hi, chain, l, r, s, held)

\* The inductive invariant; a crash within an operation excuses the file until a rebuild.
TreeInv == torn \/ (TreeAt(left, right, sep, entered) /\ (pc = "idle" <=> left = None))

-----------------------------------------------------------------------------
(***************************************************************************)
(* Searching the tree.                                                     *)
(***************************************************************************)
\* The pages of a tree, one property each.
LEMMA PagesAre ==
  ASSUME NEW pg, NEW hd, Pages(pg, hd)
  PROVE  /\ hd.next \in Nat /\ DOMAIN pg = 0..hd.next - 1 /\ hd.magic = TRUE /\ hd.root \in DOMAIN pg
         /\ IsFiniteSet(DOMAIN pg) /\ Cardinality(DOMAIN pg) = hd.next /\ None \notin DOMAIN pg
         /\ \A p \in DOMAIN pg :
              /\ p \in Nat /\ p < hd.next /\ pg[p].leaf \in BOOLEAN
              /\ pg[p].entries \in Seq(KeySet \X Nat) /\ pg[p].kids \in Seq(Nat)
<1>1. hd.next \in Nat /\ DOMAIN pg = 0..hd.next - 1 /\ hd.magic = TRUE /\ hd.root \in DOMAIN pg
  BY DEF Pages
<1>2. IsFiniteSet(0..hd.next - 1) /\ Cardinality(0..hd.next - 1) = hd.next
  <2> DEFINE n == hd.next
  <2>1. 0 \in Int /\ n - 1 \in Int /\ n \in Nat
    BY <1>1
  <2> HIDE DEF n
  <2>2. /\ IsFiniteSet(0..n - 1)
        /\ Cardinality(0..n - 1) = IF 0 > n - 1 THEN 0 ELSE n - 1 - 0 + 1
    BY <2>1, FS_Interval
  <2> QED
    BY <2>1, <2>2 DEF n
<1>3. \A p \in DOMAIN pg : p \in Nat /\ p < hd.next
  BY <1>1
<1>4. None \notin DOMAIN pg
  BY <1>3 DEF None
<1>5. \A p \in DOMAIN pg : pg[p] \in NodeType
  BY DEF Pages
<1>6. \A p \in DOMAIN pg :
        pg[p].leaf \in BOOLEAN /\ pg[p].entries \in Seq(KeySet \X Nat) /\ pg[p].kids \in Seq(Nat)
  BY <1>5 DEF NodeType
<1> QED
  BY <1>1, <1>2, <1>3, <1>4, <1>6

\* What a key is.
LEMMA KeyIs ==
  ASSUME NEW s, NEW i, s \in Seq(KeySet \X Nat), i \in DOMAIN s
  PROVE  s[i] \in KeySet \X Nat /\ s[i][1] \in Int /\ s[i][1] \in KeySet /\ s[i][2] \in Nat
<1>1. KeySet \subseteq Int
  BY KeysAssumption DEF KeySet
<1>2. s[i] \in KeySet \X Nat
  OBVIOUS
<1> QED
  BY <1>1, <1>2

\* The keys up to k come first.
LEMMA FirstKeys ==
  ASSUME NEW s, NEW k, s \in Seq(KeySet \X Nat), k \in Int,
         \A i, j \in DOMAIN s : i < j => s[i][1] <= s[j][1]
  PROVE  LET n == Cardinality({i \in DOMAIN s : s[i][1] <= k})
         IN  n \in 0..Len(s) /\ \A i \in DOMAIN s : s[i][1] <= k <=> i <= n
<1> DEFINE T == {i \in DOMAIN s : s[i][1] <= k}
           L == Len(s)
<1>1. L \in Nat /\ DOMAIN s = 1..L
  OBVIOUS
<1>2. \A i \in DOMAIN s : s[i][1] \in Int
  BY KeyIs
<1> HIDE DEF L
<1>3. \A i \in T : \A j \in 1..i : j \in T
  <2> SUFFICES ASSUME NEW i \in T, NEW j \in 1..i PROVE j \in T
    OBVIOUS
  <2>1. i \in DOMAIN s /\ s[i][1] <= k /\ j \in DOMAIN s /\ (j < i \/ j = i)
    BY <1>1
  <2>2. s[j][1] <= k
    <3>1. CASE j = i
      BY <2>1, <3>1
    <3>2. CASE j < i
      <4>1. s[j][1] <= s[i][1] /\ s[j][1] \in Int /\ s[i][1] \in Int
        BY <1>2, <2>1, <3>2
      <4> QED
        BY <2>1, <4>1
    <3> QED
      BY <2>1, <3>1, <3>2
  <2> QED
    BY <2>1, <2>2
<1>4. T \in SUBSET (1..L)
  BY <1>1
<1>5. \A i \in DOMAIN s : s[i][1] <= k <=> i \in T
  OBVIOUS
<1> HIDE DEF T
<1>6. Cardinality(T) \in 0..L /\ T = 1..Cardinality(T)
  BY <1>1, <1>3, <1>4, FirstSoMany
<1>7. \A i \in DOMAIN s : i \in T <=> i <= Cardinality(T)
  BY <1>1, <1>6
<1> QED
  BY <1>5, <1>6, <1>7 DEF T, L

\* The child findLeafPage goes on to is for the key.
LEMMA ChildFits ==
  ASSUME NEW pg, NEW hd, NEW level, NEW lo, NEW hi, NEW p, NEW k,
         Pages(pg, hd), Kids(pg, level), Ordered(pg), Parted(pg, hd, lo, hi, None, None),
         p \in DOMAIN pg, ~ pg[p].leaf, k \in Int, k \in lo[p], k \notin hi[p]
  PROVE  LET c == Child(pg[p], k)
         IN  c \in DOMAIN pg /\ level[c] + 1 = level[p] /\ k \in lo[c] /\ k \notin hi[c]
<1> DEFINE es == pg[p].entries
           ks == pg[p].kids
           n == Cardinality({i \in DOMAIN es : es[i][1] <= k})
           c == Child(pg[p], k)
<1>1. es \in Seq(KeySet \X Nat) /\ ks \in Seq(Nat) /\ None \notin DOMAIN pg
  BY PagesAre
<1>2. Len(ks) = Len(es) + 1 /\ \A i \in DOMAIN ks : ks[i] \in DOMAIN pg /\ level[ks[i]] + 1 = level[p]
  BY DEF Kids
<1>3. \A i, j \in DOMAIN es : i < j => es[i][1] <= es[j][1]
  BY DEF Ordered, Key
<1>4. \A i \in DOMAIN ks :
        /\ lo[ks[i]] = IF i = 1 THEN lo[p] ELSE AtLeast(es[i - 1][1])
        /\ Upper(hi, ks[i], None, None) = IF i = Len(ks) THEN hi[p] ELSE AtLeast(es[i][1])
  BY DEF Parted, Key
<1>5. c = IF n < Len(ks) THEN ks[n + 1] ELSE None
  BY DEF Child
<1>6. n \in 0..Len(es) /\ \A i \in DOMAIN es : es[i][1] <= k <=> i <= n
  <2> HIDE DEF es
  <2> QED
    BY <1>1, <1>3, FirstKeys
<1> HIDE DEF es, ks, n, c
<1>7. Len(es) \in Nat /\ DOMAIN es = 1..Len(es) /\ DOMAIN ks = 1..Len(ks) /\ Len(ks) \in Nat /\ n \in Nat /\ n <= Len(es)
  BY <1>1, <1>6
<1>8. n + 1 \in DOMAIN ks /\ c = ks[n + 1]
  BY <1>2, <1>5, <1>7
<1>9. c \in DOMAIN pg /\ level[c] + 1 = level[p]
  BY <1>2, <1>8
<1>10. Upper(hi, c, None, None) = hi[c]
  BY <1>1, <1>9 DEF Upper
<1>11. k \in lo[c]
  <2>1. CASE n = 0
    BY <1>4, <1>8, <2>1
  <2>2. CASE n # 0
    <3>1. n \in DOMAIN es /\ n + 1 # 1 /\ n + 1 - 1 = n
      BY <1>7, <2>2
    <3>2. lo[c] = AtLeast(es[n][1]) /\ es[n][1] <= k
      BY <1>4, <1>6, <1>7, <1>8, <3>1
    <3> QED
      BY <3>2 DEF AtLeast
  <2> QED
    BY <2>1, <2>2
<1>12. k \notin hi[c]
  <2>1. CASE n + 1 = Len(ks)
    BY <1>4, <1>8, <1>10, <2>1
  <2>2. CASE n + 1 # Len(ks)
    <3>1. n + 1 \in DOMAIN es
      BY <1>2, <1>7, <1>8, <2>2
    <3>2. hi[c] = AtLeast(es[n + 1][1])
      BY <1>4, <1>8, <1>10, <2>2
    <3>3. ~ (n + 1 <= n)
      BY <1>7
    <3>4. ~ (es[n + 1][1] <= k)
      BY <1>6, <3>1, <3>3
    <3> QED
      BY <3>2, <3>4 DEF AtLeast
  <2> QED
    BY <2>1, <2>2
<1> QED
  BY <1>9, <1>11, <1>12 DEF c

\* findLeafPage ends at the one leaf that is for the key.
LEMMA FindLeafIs ==
  ASSUME NEW level, NEW lo, NEW hi, NEW k, k \in Int,
         Pages(page, head), Levels(page, head, level, None, None), Kids(page, level), Ordered(page),
         Parted(page, head, lo, hi, None, None)
  PROVE  LET p == FindLeaf(k)
         IN  p \in DOMAIN page /\ page[p].leaf /\ k \in lo[p] /\ k \notin hi[p]
<1> DEFINE N == Cardinality(DOMAIN page)
           M == N + 2
           w == ToLeaf(k)
           Right(p) == p \in DOMAIN page /\ k \in lo[p] /\ k \notin hi[p]
           G == {n \in 0..M : Right(w[n]) /\ (page[w[n]].leaf \/ level[w[n]] + n < N)}
<1>0. /\ N \in Nat /\ M \in Nat /\ N = head.next /\ head.magic = TRUE /\ head.root \in DOMAIN page
      /\ None \notin DOMAIN page
  <2>1. N = head.next /\ head.next \in Nat
    BY PagesAre
  <2>2. head.magic = TRUE /\ head.root \in DOMAIN page /\ None \notin DOMAIN page
    BY PagesAre
  <2> HIDE DEF N
  <2> QED
    BY <2>1, <2>2
<1>1. w[0] = head.root /\ \A n \in 1..M : w[n] = IF w[n - 1] \in DOMAIN page THEN Down(k)[w[n - 1]] ELSE None
  BY <1>0, WalkIs DEF ToLeaf
<1>e. FindLeaf(k) = w[M]
  BY DEF FindLeaf, End
<1>l. level \in [DOMAIN page -> Nat] /\ level[head.root] < N /\ \A p \in DOMAIN page : level[p] \in Nat /\ (page[p].leaf <=> level[p] = 0)
  BY <1>0 DEF Levels
<1>r. Right(head.root)
  <2>1. lo[head.root] = Int /\ Upper(hi, head.root, None, None) = {}
    BY DEF Parted
  <2>2. Upper(hi, head.root, None, None) = hi[head.root]
    BY <1>0 DEF Upper
  <2> QED
    BY <1>0, <2>1, <2>2
<1>n. N + 2 = M
  OBVIOUS
<1> HIDE DEF w, N, M
<1>2. 0 \in G
  <2>1. level[w[0]] + 0 < N /\ 0 \in 0..M
    BY <1>0, <1>1, <1>l
  <2> QED
    BY <1>1, <1>r, <2>1
<1>3. ASSUME NEW n \in 1..M, n - 1 \in G PROVE n \in G
  <2> DEFINE q == w[n - 1]
  <2>0. n \in 0..M /\ n \in Nat /\ n >= 1
    BY <1>0
  <2>1. Right(q) /\ (page[q].leaf \/ level[q] + (n - 1) < N) /\ w[n] = Down(k)[q]
    BY <1>1, <1>3
  <2> HIDE DEF q
  <2>2. CASE page[q].leaf
    <3>1. w[n] = q
      BY <2>1, <2>2 DEF Down
    <3> QED
      BY <2>0, <2>1, <2>2, <3>1
  <2>3. CASE ~ page[q].leaf
    <3>1. w[n] = Child(page[q], k)
      BY <2>1, <2>3 DEF Down
    <3> DEFINE c == Child(page[q], k)
    <3>c. c \in DOMAIN page /\ level[c] + 1 = level[q] /\ k \in lo[c] /\ k \notin hi[c]
      <4>1. q \in DOMAIN page /\ k \in lo[q] /\ k \notin hi[q]
        BY <2>1
      <4> HIDE DEF Right, G
      <4> QED
        BY <2>3, <4>1, ChildFits
    <3>2. w[n] \in DOMAIN page /\ level[w[n]] + 1 = level[q] /\ k \in lo[w[n]] /\ k \notin hi[w[n]]
      BY <3>1, <3>c
    <3>3. level[w[n]] \in Nat
      BY <1>l, <3>2
    <3>4. level[w[n]] + n < N
      BY <1>0, <2>0, <2>1, <2>3, <3>2, <3>3
    <3> QED
      BY <2>0, <3>2, <3>4
  <2> QED
    BY <2>2, <2>3
<1>4. G = 0..M
  <2>1. G \in SUBSET (0..M)
    OBVIOUS
  <2> HIDE DEF G
  <2> QED
    BY <1>0, <1>2, <1>3, <2>1, UpTo
<1>5. Right(w[M]) /\ (page[w[M]].leaf \/ level[w[M]] + M < N)
  <2>1. M \in 0..M
    BY <1>0
  <2> QED
    BY <1>4, <2>1
<1>6. page[w[M]].leaf
  <2>1. level[w[M]] \in Nat
    BY <1>5, <1>l
  <2> HIDE DEF Right, G
  <2> QED
    BY <1>0, <1>5, <1>n, <2>1
<1> QED
  BY <1>5, <1>6, <1>e

\* A walk stays among the pages its steps lead to.
LEMMA WalkKeeps ==
  ASSUME NEW next, NEW start, NEW X, Cardinality(DOMAIN page) \in Nat, start \in X, None \in X,
         \A p \in DOMAIN page : p \in X => next[p] \in X
  PROVE  \A n \in DOMAIN Walk(next, start) : Walk(next, start)[n] \in X
<1> DEFINE M == Cardinality(DOMAIN page) + 2
           w == Walk(next, start)
           G == {n \in 0..M : w[n] \in X}
<1>1. M \in Nat /\ DOMAIN w = 0..M /\ w[0] = start
      /\ \A n \in 1..M : w[n] = IF w[n - 1] \in DOMAIN page THEN next[w[n - 1]] ELSE None
  BY WalkIs
<1> HIDE DEF w, M
<1>2. 0 \in G
  BY <1>1
<1>3. \A n \in 1..M : n - 1 \in G => n \in G
  <2> SUFFICES ASSUME NEW n \in 1..M, n - 1 \in G PROVE n \in G
    OBVIOUS
  <2>1. n \in 0..M /\ w[n - 1] \in X
    BY <1>1
  <2>2. w[n] \in X
    BY <1>1, <2>1
  <2> QED
    BY <2>1, <2>2
<1>4. G \in SUBSET (0..M)
  OBVIOUS
<1> HIDE DEF G
<1>5. G = 0..M
  BY <1>1, <1>2, <1>3, <1>4, UpTo
<1>6. \A n \in 0..M : w[n] \in X
  BY <1>5 DEF G
<1> QED
  BY <1>1, <1>6 DEF w

\* The place of a leaf in the chain, and its neighbours.
LEMMA ChainIs ==
  ASSUME NEW pg, NEW hd, NEW chain, Pages(pg, hd), Chained(pg, hd, chain)
  PROVE  /\ Len(chain) \in Nat /\ DOMAIN chain = 1..Len(chain) /\ Len(chain) <= hd.next
         /\ \A i \in DOMAIN chain :
              /\ chain[i] \in DOMAIN pg /\ pg[chain[i]].leaf
              /\ pg[chain[i]].next = IF i = Len(chain) THEN None ELSE chain[i + 1]
              /\ pg[chain[i]].prev = IF i = 1 THEN None ELSE chain[i - 1]
         /\ \A i, j \in DOMAIN chain : chain[i] = chain[j] => i = j
         /\ \A p \in DOMAIN pg : pg[p].leaf => \E i \in DOMAIN chain : chain[i] = p
<1>1. chain \in Seq(DOMAIN pg)
  BY DEF Chained
<1>2. Len(chain) \in Nat /\ DOMAIN chain = 1..Len(chain) /\ \A i \in DOMAIN chain : chain[i] \in DOMAIN pg
  BY <1>1, SeqIs
<1> QED
  BY <1>2 DEF Chained

\* findLeftmostLeafPage: all entries of the leaves before it have smaller keys.
LEMMA FindLeftmostIs ==
  ASSUME NEW level, NEW lo, NEW hi, NEW chain, NEW k, k \in Int,
         Pages(page, head), Levels(page, head, level, None, None), Kids(page, level), Ordered(page),
         Parted(page, head, lo, hi, None, None), Chained(page, head, chain), Ascends(page, lo, hi, chain)
  PROVE  \E i \in DOMAIN chain :
           /\ FindLeftmost(k) = chain[i]
           /\ \A j \in DOMAIN chain : j < i =>
                \A x \in DOMAIN page[chain[j]].entries : page[chain[j]].entries[x][1] < k
<1> DEFINE N == Cardinality(DOMAIN page)
           M == N + 2
           w == ToLeftmost(k)
           L == Len(chain)
<1>0. N \in Nat /\ M \in Nat /\ N = head.next /\ None \notin DOMAIN page
  <2>1. N = head.next /\ head.next \in Nat /\ None \notin DOMAIN page
    BY PagesAre
  <2> HIDE DEF N
  <2> QED
    BY <2>1
<1>1. w[0] = FindLeaf(k) /\ \A n \in 1..M : w[n] = IF w[n - 1] \in DOMAIN page THEN Back(k)[w[n - 1]] ELSE None
  BY <1>0, WalkIs DEF ToLeftmost
<1>e. FindLeftmost(k) = w[M]
  BY DEF FindLeftmost, End
<1>n. N + 2 = M
  OBVIOUS
<1>c. /\ L \in Nat /\ DOMAIN chain = 1..L /\ L <= N
      /\ \A i \in DOMAIN chain :
           /\ chain[i] \in DOMAIN page /\ page[chain[i]].leaf
           /\ page[chain[i]].prev = IF i = 1 THEN None ELSE chain[i - 1]
      /\ \A p \in DOMAIN page : page[p].leaf => \E i \in DOMAIN chain : chain[i] = p
  <2>1. L \in Nat /\ DOMAIN chain = 1..L /\ L <= head.next
    BY ChainIs
  <2>2. \A i \in DOMAIN chain :
           /\ chain[i] \in DOMAIN page /\ page[chain[i]].leaf
           /\ page[chain[i]].prev = IF i = 1 THEN None ELSE chain[i - 1]
    BY ChainIs
  <2>3. \A p \in DOMAIN page : page[p].leaf => \E i \in DOMAIN chain : chain[i] = p
    BY ChainIs
  <2> HIDE DEF L
  <2> QED
    BY <1>0, <2>1, <2>2, <2>3
<1> HIDE DEF w, N, M, L
<1>f. PICK j \in DOMAIN chain : FindLeaf(k) = chain[j]
  <2>1. FindLeaf(k) \in DOMAIN page /\ page[FindLeaf(k)].leaf
    BY FindLeafIs
  <2> QED
    BY <1>c, <2>1
<1> DEFINE Fixed(i) == i = 1 \/ ~ MayHold(page[chain[i - 1]], k)
           G == {n \in 0..M : \E i \in 1..j : w[n] = chain[i] /\ (Fixed(i) \/ i + n <= j)}
<1>j. j \in Nat /\ j >= 1 /\ j <= L /\ \A i \in 1..j : i \in DOMAIN chain /\ i \in Nat
  BY <1>c
<1>2. 0 \in G
  <2>1. j \in 1..j /\ j + 0 <= j /\ 0 \in 0..M
    BY <1>0, <1>j
  <2> QED
    BY <1>1, <1>f, <2>1
<1>3. \A n \in 1..M : n - 1 \in G => n \in G
  <2> SUFFICES ASSUME NEW n \in 1..M, n - 1 \in G PROVE n \in G
    OBVIOUS
  <2>0. n \in 0..M /\ n \in Nat /\ n >= 1
    BY <1>0
  <2>1. PICK i \in 1..j : w[n - 1] = chain[i] /\ (Fixed(i) \/ i + (n - 1) <= j)
    OBVIOUS
  <2>2. i \in DOMAIN chain /\ i \in Nat /\ i >= 1 /\ chain[i] \in DOMAIN page
    BY <1>c, <1>j
  <2> DEFINE p == chain[i]
  <2>3. w[n] = Back(k)[p] /\ p \in DOMAIN page
    BY <1>1, <2>1, <2>2
  <2>4. page[p].prev = IF i = 1 THEN None ELSE chain[i - 1]
    BY <1>c, <2>2
  <2>5. Back(k)[p] = IF page[p].prev = None THEN p
                     ELSE IF page[p].prev \notin DOMAIN page THEN None
                     ELSE IF MayHold(page[page[p].prev], k) THEN page[p].prev ELSE p
    BY <2>3 DEF Back
  <2>6. i # 1 => i - 1 \in DOMAIN chain /\ i - 1 \in 1..j /\ chain[i - 1] \in DOMAIN page /\ chain[i - 1] # None
    <3> SUFFICES ASSUME i # 1 PROVE i - 1 \in DOMAIN chain /\ i - 1 \in 1..j /\ chain[i - 1] \in DOMAIN page /\ chain[i - 1] # None
      OBVIOUS
    <3>1. i - 1 \in DOMAIN chain /\ i - 1 \in 1..j
      BY <1>c, <1>j, <2>2
    <3> QED
      BY <1>0, <1>c, <3>1
  <2> HIDE DEF p
  <2>7. CASE Fixed(i)
    <3>1. w[n] = p
      <4>1. CASE i = 1
        BY <2>3, <2>4, <2>5, <4>1
      <4>2. CASE i # 1
        <5>1. ~ MayHold(page[chain[i - 1]], k)
          BY <2>7, <4>2
        <5> QED
          BY <2>3, <2>4, <2>5, <2>6, <4>2, <5>1
      <4> QED
        BY <4>1, <4>2
    <3> QED
      BY <2>0, <2>7, <3>1 DEF p
  <2>8. CASE ~ Fixed(i)
    <3>1. i # 1 /\ MayHold(page[chain[i - 1]], k)
      BY <2>8
    <3>2. w[n] = chain[i - 1]
      BY <2>3, <2>4, <2>5, <2>6, <3>1
    <3>3. (i - 1) + n <= j
      BY <1>j, <2>0, <2>1, <2>2, <2>8
    <3>4. i - 1 \in 1..j
      BY <2>6, <3>1
    <3> QED
      BY <2>0, <3>2, <3>3, <3>4
  <2> QED
    BY <2>7, <2>8
<1>4. G \in SUBSET (0..M)
  OBVIOUS
<1>5. \E i \in 1..j : w[M] = chain[i] /\ (Fixed(i) \/ i + M <= j)
  <2> HIDE DEF G
  <2>1. G = 0..M
    BY <1>0, <1>2, <1>3, <1>4, UpTo
  <2>2. M \in G
    BY <1>0, <2>1
  <2> QED
    BY <2>2 DEF G
<1>6. PICK i \in 1..j : w[M] = chain[i] /\ Fixed(i)
  <2>1. \A i \in 1..j : ~ (i + M <= j)
    <3>1. j <= N /\ M = N + 2
      BY <1>0, <1>c, <1>j, <1>n
    <3> QED
      BY <1>0, <1>j, <3>1
  <2> HIDE DEF Fixed
  <2> QED
    BY <1>5, <2>1
<1>7. i \in DOMAIN chain /\ i \in Nat /\ i >= 1
  BY <1>j
<1>8. ASSUME NEW m \in DOMAIN chain, m < i, NEW x \in DOMAIN page[chain[m]].entries
      PROVE  page[chain[m]].entries[x][1] < k
  <2> DEFINE q == chain[i - 1]
             es == page[q].entries
             fs == page[chain[m]].entries
             y == Len(es)
  <2>1. i # 1 /\ i - 1 \in DOMAIN chain /\ m \in Nat /\ (m = i - 1 \/ m < i - 1)
    <3>1. L \in Nat /\ m \in 1..L /\ i \in 1..L /\ m < i
      BY <1>c, <1>7, <1>8
    <3> HIDE DEF G, Fixed, q, es, fs, y
    <3>2. i # 1 /\ i - 1 \in 1..L /\ m \in Nat /\ (m = i - 1 \/ m < i - 1)
      BY <3>1
    <3> QED
      BY <1>c, <3>2
  <2>2. ~ MayHold(page[q], k)
    BY <1>6, <2>1
  <2>3. q \in DOMAIN page /\ page[q].leaf /\ chain[m] \in DOMAIN page /\ page[chain[m]].leaf
    BY <1>c, <2>1
  <2>4. es # <<>> /\ ~ (es[y][1] >= k)
    BY <2>2 DEF MayHold
  <2>5. es \in Seq(KeySet \X Nat) /\ fs \in Seq(KeySet \X Nat)
    BY <2>3, PagesAre
  <2>6. m = i - 1 => es = fs
    OBVIOUS
  <2>7. m < i - 1 => \A u \in DOMAIN fs : \A v \in DOMAIN es : Less(fs[u], es[v])
    BY <2>1 DEF Ascends
  <2>8. \A u, v \in DOMAIN es : u < v => Less(es[u], es[v])
    BY <2>3 DEF Ordered
  <2> HIDE DEF es, fs, q
  <2>9. y \in DOMAIN es /\ DOMAIN es = 1..y /\ y \in Nat
    BY <2>4, <2>5
  <2>10. es[y][1] \in Int /\ fs[x][1] \in Int
    <3>1. x \in DOMAIN fs
      BY DEF fs
    <3> QED
      BY <2>5, <2>9, <3>1, KeyIs
  <2>11. fs[x][1] <= es[y][1]
    <3>1. x \in DOMAIN fs
      BY DEF fs
    <3>2. CASE m = i - 1 /\ x = y
      BY <2>6, <2>10, <3>2
    <3>3. CASE m = i - 1 /\ x # y
      <4>1. x \in DOMAIN es /\ x < y /\ es[x] = fs[x]
        BY <2>6, <2>9, <3>1, <3>3
      <4>2. Less(fs[x], es[y])
        BY <2>8, <2>9, <4>1
      <4> QED
        BY <2>10, <4>2 DEF Less
    <3>4. CASE m < i - 1
      <4>2. Less(fs[x], es[y])
        BY <2>7, <2>9, <3>1, <3>4
      <4> QED
        BY <2>10, <4>2 DEF Less
    <3> QED
      BY <2>1, <3>2, <3>3, <3>4
  <2>12. fs[x][1] < k
    BY <2>4, <2>10, <2>11
  <2> QED
    BY <2>12 DEF fs
<1> QED
  BY <1>6, <1>7, <1>8, <1>e

\* rangeSearch returns the entries between its bounds.
LEMMA RangeSearchIs ==
  ASSUME NEW level, NEW lo, NEW hi, NEW chain, NEW held, NEW a, NEW b, NEW withA, NEW withB,
         a \in Int, b \in Int,
         Pages(page, head), Levels(page, head, level, None, None), Kids(page, level), Ordered(page),
         Parted(page, head, lo, hi, None, None), Chained(page, head, chain), Ascends(page, lo, hi, chain),
         Holds(page, held)
  PROVE  \A e : e \in RangeSearch(a, b, withA, withB) <=>
                  /\ e \in held /\ a <= e[1] /\ e[1] <= b
                  /\ e[1] = a => withA
                  /\ e[1] = b => withB
<1> DEFINE N == Cardinality(DOMAIN page)
           M == N + 2
           next == Onward(b, withB)
           start == FindLeftmost(a)
           w == Walk(next, start)
           X == {chain[i] : i \in DOMAIN chain} \cup {None}
           V == Visited(w)
           In(p, e) == \E x \in DOMAIN page[p].entries : page[p].entries[x] = e
<1>0. N \in Nat /\ M \in Nat /\ N = head.next /\ None \notin DOMAIN page
  <2>1. N = head.next /\ head.next \in Nat /\ None \notin DOMAIN page
    BY PagesAre
  <2> HIDE DEF N
  <2> QED
    BY <2>1
<1>n. M = N + 2
  OBVIOUS
<1>1. /\ DOMAIN w = 0..M /\ w[0] = start
      /\ \A n \in 1..M : w[n] = IF w[n - 1] \in DOMAIN page THEN next[w[n - 1]] ELSE None
  <2> HIDE DEF next, start
  <2> QED
    BY <1>0, WalkIs
<1>c. /\ Len(chain) \in Nat /\ DOMAIN chain = 1..Len(chain) /\ Len(chain) <= N
      /\ \A i \in DOMAIN chain :
           /\ chain[i] \in DOMAIN page /\ page[chain[i]].leaf
           /\ page[chain[i]].next = IF i = Len(chain) THEN None ELSE chain[i + 1]
      /\ \A p \in DOMAIN page : page[p].leaf => \E i \in DOMAIN chain : chain[i] = p
  <2>1. Len(chain) \in Nat /\ DOMAIN chain = 1..Len(chain) /\ Len(chain) <= head.next
    BY ChainIs
  <2>2. \A i \in DOMAIN chain :
           /\ chain[i] \in DOMAIN page /\ page[chain[i]].leaf
           /\ page[chain[i]].next = IF i = Len(chain) THEN None ELSE chain[i + 1]
    BY ChainIs
  <2>3. \A p \in DOMAIN page : page[p].leaf => \E i \in DOMAIN chain : chain[i] = p
    BY ChainIs
  <2> HIDE DEF N
  <2> QED
    BY <1>0, <2>1, <2>2, <2>3
<1>s. PICK i \in DOMAIN chain :
        /\ start = chain[i]
        /\ \A j \in DOMAIN chain : j < i =>
             \A x \in DOMAIN page[chain[j]].entries : page[chain[j]].entries[x][1] < a
  BY FindLeftmostIs
<1>2. \A p \in DOMAIN page :
        next[p] = IF \A x \in DOMAIN page[p].entries : InReach(page[p].entries[x][1], b, withB)
                    THEN page[p].next ELSE None
  BY DEF Onward
<1>3. \A e : e \in RangeSearch(a, b, withA, withB) <=>
               /\ \E p \in V : In(p, e)
               /\ InReach(e[1], b, withB) /\ (e[1] > a \/ (withA /\ e[1] = a))
  <2>1. \A e : e \in EntriesIn(V) <=> \E p \in V : In(p, e)
    <3> HIDE DEF V
    <3> QED
      BY DEF EntriesIn
  <2>2. RangeSearch(a, b, withA, withB) =
          {e \in EntriesIn(V) : InReach(e[1], b, withB) /\ (e[1] > a \/ (withA /\ e[1] = a))}
    BY DEF RangeSearch, ToRange
  <2> HIDE DEF V, In
  <2> QED
    BY <2>1, <2>2
<1>v. \A p : p \in V <=> p \in DOMAIN page /\ \E n \in 0..M : w[n] = p
  BY <1>1 DEF Visited
<1>4. \A n \in 0..M : w[n] \in X
  <2>1. start \in X /\ None \in X
    BY <1>s
  <2>2. ASSUME NEW p \in DOMAIN page, p \in X PROVE next[p] \in X
    <3>1. PICK j \in DOMAIN chain : p = chain[j]
      BY <1>0, <2>2
    <3>2. page[p].next \in X
      <4>1. j # Len(chain) => j + 1 \in DOMAIN chain
        BY <1>c
      <4> QED
        BY <1>c, <3>1, <4>1
    <3> QED
      BY <1>2, <3>2
  <2>3. Cardinality(DOMAIN page) \in Nat
    BY <1>0
  <2> HIDE DEF X, next, start, M, N
  <2>4. \A n \in DOMAIN Walk(next, start) : Walk(next, start)[n] \in X
    BY <2>1, <2>2, <2>3, WalkKeeps
  <2> QED
    BY <1>1, <2>4 DEF w
<1>i. \A p \in DOMAIN page : \A e : In(p, e) => e[1] \in Int
  <2> SUFFICES ASSUME NEW p \in DOMAIN page, NEW x \in DOMAIN page[p].entries
               PROVE  page[p].entries[x][1] \in Int
    OBVIOUS
  <2> DEFINE es == page[p].entries
  <2>1. es \in Seq(KeySet \X Nat) /\ x \in DOMAIN es
    BY PagesAre
  <2> HIDE DEF es
  <2>2. es[x][1] \in Int
    BY <2>1, KeyIs
  <2> QED
    BY <2>2 DEF es
<1> HIDE DEF w, V, next, start, N, M
\* What is found was entered.
<1>5. ASSUME NEW e, e \in RangeSearch(a, b, withA, withB)
      PROVE  /\ e \in held /\ a <= e[1] /\ e[1] <= b
             /\ e[1] = a => withA
             /\ e[1] = b => withB
  <2>1. PICK p \in V : In(p, e)
    BY <1>3, <1>5
  <2>2. p \in DOMAIN page /\ p \in X
    BY <1>4, <1>v
  <2>3. page[p].leaf
    BY <1>0, <1>c, <2>2
  <2>4. e \in held
    BY <2>1, <2>2, <2>3 DEF Holds, Occurs
  <2>5. e[1] \in Int
    BY <1>i, <2>1, <2>2
  <2>6. InReach(e[1], b, withB) /\ (e[1] > a \/ (withA /\ e[1] = a))
    BY <1>3, <1>5
  <2> QED
    BY <2>4, <2>5, <2>6 DEF InReach
\* What was entered is found.
<1>6. ASSUME NEW e, e \in held, a <= e[1], e[1] <= b, e[1] = a => withA, e[1] = b => withB
      PROVE  e \in RangeSearch(a, b, withA, withB)
  <2>1. PICK p \in DOMAIN page : page[p].leaf /\ In(p, e)
    BY <1>6 DEF Holds, Occurs
  <2>2. PICK m \in DOMAIN chain : chain[m] = p
    BY <1>c, <2>1
  <2>3. PICK y \in DOMAIN page[p].entries : page[p].entries[y] = e
    BY <2>1
  <2>4. e[1] \in Int
    BY <1>i, <2>1
  <2>5. ~ (m < i)
    <3> SUFFICES ASSUME m < i PROVE FALSE
      OBVIOUS
    <3>1. page[chain[m]].entries[y][1] < a
      BY <1>s, <2>2, <2>3
    <3>2. e[1] < a
      BY <2>2, <2>3, <3>1
    <3> QED
      BY <1>6, <2>4, <3>2
  <2>6. m \in Nat /\ i \in Nat /\ i >= 1 /\ m >= i /\ m <= Len(chain)
    BY <1>c, <2>5
  <2> DEFINE K == m - i
             G == {n \in 0..K : w[n] = chain[i + n]}
  <2>7. K \in Nat /\ K <= M
    BY <1>0, <1>c, <1>n, <2>6
  <2>k. i + K = m /\ \A n \in 0..K : i + n \in DOMAIN chain
    BY <1>c, <2>6
  <2>8. 0 \in G
    BY <1>1, <1>s, <2>6, <2>7
  <2>9. \A n \in 1..K : n - 1 \in G => n \in G
    <3> SUFFICES ASSUME NEW n \in 1..K, n - 1 \in G PROVE n \in G
      OBVIOUS
    <3> DEFINE j == i + (n - 1)
               q == chain[j]
               es == page[q].entries
    <3>1. n \in 0..K /\ n - 1 \in 0..K /\ n \in 1..M
      BY <1>0, <2>7
    <3>2. j \in DOMAIN chain /\ j < m /\ j + 1 = i + n /\ j # Len(chain)
      BY <1>c, <2>6, <2>7, <2>k, <3>1
    <3> HIDE DEF j
    <3>3. w[n - 1] = q /\ q \in DOMAIN page /\ page[q].leaf /\ page[q].next = chain[j + 1]
      BY <1>c, <3>2 DEF j
    <3> HIDE DEF q
    <3>4. ASSUME NEW x \in DOMAIN es PROVE InReach(es[x][1], b, withB)
      <4>1. Less(es[x], e)
        <5>1. Less(page[chain[j]].entries[x], page[chain[m]].entries[y])
          BY <2>2, <2>3, <3>2 DEF Ascends, q
        <5> QED
          BY <2>2, <2>3, <5>1 DEF q
      <4>2. es[x][1] \in Int
        <5>1. es \in Seq(KeySet \X Nat)
          BY <3>3, PagesAre
        <5> HIDE DEF es
        <5> QED
          BY <5>1, KeyIs
      <4> HIDE DEF es
      <4> QED
        BY <1>6, <2>4, <4>1, <4>2 DEF Less, InReach
    <3>5. next[q] = chain[j + 1]
      BY <1>2, <3>3, <3>4
    <3>6. w[n] = chain[i + n]
      BY <1>1, <3>1, <3>2, <3>3, <3>5
    <3> QED
      BY <3>1, <3>6
  <2>10. G \in SUBSET (0..K)
    OBVIOUS
  <2> HIDE DEF K, G
  <2>11. G = 0..K
    BY <2>7, <2>8, <2>9, <2>10, UpTo
  <2>12. w[K] = p /\ K \in 0..M
    <3>1. K \in 0..K
      BY <2>7
    <3>2. w[K] = chain[i + K]
      BY <2>11, <3>1 DEF G
    <3> QED
      BY <1>0, <2>2, <2>7, <2>k, <3>2
  <2>13. p \in V
    BY <1>v, <2>12
  <2>14. InReach(e[1], b, withB) /\ (e[1] > a \/ (withA /\ e[1] = a))
    BY <1>6, <2>4 DEF InReach
  <2> QED
    BY <1>3, <2>1, <2>13, <2>14
<1> QED
  BY <1>5, <1>6

-----------------------------------------------------------------------------
(***************************************************************************)
(* What the operations make of a tree.                                     *)
(***************************************************************************)
\* The parts of a tree, one by one.
LEMMA TreeIs ==
  ASSUME NEW pg, NEW hd, NEW level, NEW lo, NEW hi, NEW chain, NEW l, NEW r, NEW s, NEW held,
         Tree(pg, hd, level, lo, hi, chain, l, r, s, held)
  PROVE  /\ Pages(pg, hd) /\ Levels(pg, hd, level, l, r) /\ Kids(pg, level) /\ Parents(pg, hd, l, r)
         /\ Ordered(pg) /\ Ranges(pg, lo, hi) /\ Parted(pg, hd, lo, hi, l, r)
         /\ Halved(pg, hd, level, lo, hi, l, r, s)
         /\ Chained(pg, hd, chain) /\ Ascends(pg, lo, hi, chain) /\ Holds(pg, held)
BY DEF Tree

\* A page whose entries change.
LEMMA EntriesAre ==
  ASSUME NEW D, NEW pg, NEW p, NEW es, NEW pg2, pg \in [D -> NodeType], p \in D, es \in Seq(KeySet \X Nat),
         DOMAIN pg2 = D, \A x \in D : pg2[x] = IF x = p THEN [pg[p] EXCEPT !.entries = es] ELSE pg[x],
         pg2 = [x \in D |-> pg2[x]]
  PROVE  /\ pg2 \in [D -> NodeType]
         /\ \A x \in D :
              /\ pg2[x].entries = IF x = p THEN es ELSE pg[x].entries
              /\ pg2[x].leaf = pg[x].leaf /\ pg2[x].kids = pg[x].kids
              /\ pg2[x].parent = pg[x].parent /\ pg2[x].prev = pg[x].prev /\ pg2[x].next = pg[x].next
<1>1. pg[p] \in NodeType
  OBVIOUS
<1>2. [pg[p] EXCEPT !.entries = es] \in NodeType
  BY <1>1 DEF NodeType
<1>3. LET n == [pg[p] EXCEPT !.entries = es]
      IN  /\ n.entries = es /\ n.leaf = pg[p].leaf /\ n.kids = pg[p].kids
          /\ n.parent = pg[p].parent /\ n.prev = pg[p].prev /\ n.next = pg[p].next
  BY <1>1 DEF NodeType
<1>4. \A x \in D : pg2[x] \in NodeType
  BY <1>2
<1>5. pg2 \in [D -> NodeType]
  BY <1>4
<1>6. \A x \in D :
        /\ pg2[x].entries = IF x = p THEN es ELSE pg[x].entries
        /\ pg2[x].leaf = pg[x].leaf /\ pg2[x].kids = pg[x].kids
        /\ pg2[x].parent = pg[x].parent /\ pg2[x].prev = pg[x].prev /\ pg2[x].next = pg[x].next
  BY <1>3
<1> QED
  BY <1>5, <1>6

\* A leaf with other entries.
LEMMA LeafChanged ==
  ASSUME NEW pg, NEW hd, NEW level, NEW lo, NEW hi, NEW chain, NEW l, NEW r, NEW s, NEW held,
         Tree(pg, hd, level, lo, hi, chain, l, r, s, held),
         NEW pg2, NEW p, NEW es, NEW held2, p \in DOMAIN pg, pg[p].leaf, pg2 \in [DOMAIN pg -> NodeType],
         \A x \in DOMAIN pg :
           /\ pg2[x].entries = IF x = p THEN es ELSE pg[x].entries
           /\ pg2[x].leaf = pg[x].leaf /\ pg2[x].kids = pg[x].kids
           /\ pg2[x].parent = pg[x].parent /\ pg2[x].prev = pg[x].prev /\ pg2[x].next = pg[x].next,
         \A i, j \in DOMAIN es : i < j => Less(es[i], es[j]),
         \A i \in DOMAIN es : es[i][1] \in lo[p] /\ \A k \in hi[p] : es[i][1] <= k,
         \A c, j \in DOMAIN chain : chain[c] = p =>
           \A i \in DOMAIN es : \A y \in DOMAIN pg[chain[j]].entries :
             /\ c < j => Less(es[i], pg[chain[j]].entries[y])
             /\ j < c => Less(pg[chain[j]].entries[y], es[i]),
         \A e : e \in held2 <=>
                  Occurs(es, e) \/ \E x \in DOMAIN pg : x # p /\ pg[x].leaf /\ Occurs(pg[x].entries, e)
  PROVE  Tree(pg2, hd, level, lo, hi, chain, l, r, s, held2)
<1>0. /\ Pages(pg, hd) /\ Levels(pg, hd, level, l, r) /\ Kids(pg, level) /\ Parents(pg, hd, l, r)
      /\ Ordered(pg) /\ Ranges(pg, lo, hi) /\ Parted(pg, hd, lo, hi, l, r)
      /\ Halved(pg, hd, level, lo, hi, l, r, s)
      /\ Chained(pg, hd, chain) /\ Ascends(pg, lo, hi, chain) /\ Holds(pg, held)
  BY TreeIs
<1>1. pg \in [0..hd.next - 1 -> NodeType] /\ hd.root \in DOMAIN pg
  BY <1>0 DEF Pages
<1>2. pg2 \in [0..hd.next - 1 -> NodeType] /\ DOMAIN pg2 = DOMAIN pg
      /\ \A x \in DOMAIN pg :
           /\ pg2[x].entries = IF x = p THEN es ELSE pg[x].entries
           /\ pg2[x].leaf = pg[x].leaf /\ pg2[x].kids = pg[x].kids
           /\ pg2[x].parent = pg[x].parent /\ pg2[x].prev = pg[x].prev /\ pg2[x].next = pg[x].next
  <2>1. DOMAIN pg = 0..hd.next - 1
    BY <1>1
  <2> QED
    BY <2>1
<1>3. Pages(pg2, hd)
  BY <1>0, <1>1, <1>2 DEF Pages
<1>4. Levels(pg2, hd, level, l, r)
  BY <1>0, <1>2 DEF Levels
<1>5. Kids(pg2, level)
  <2>1. ASSUME NEW x \in DOMAIN pg, ~ pg[x].leaf
        PROVE  /\ pg2[x].entries = pg[x].entries /\ pg2[x].kids = pg[x].kids
               /\ Len(pg[x].kids) = Len(pg[x].entries) + 1
               /\ \A i \in DOMAIN pg[x].kids :
                    /\ pg[x].kids[i] \in DOMAIN pg
                    /\ pg2[pg[x].kids[i]].parent = x /\ level[pg[x].kids[i]] + 1 = level[x]
               /\ \A i, j \in DOMAIN pg[x].kids : pg[x].kids[i] = pg[x].kids[j] => i = j
    BY <1>0, <1>2, <2>1 DEF Kids
  <2>2. ASSUME NEW x \in DOMAIN pg2, ~ pg2[x].leaf
        PROVE  /\ Len(pg2[x].kids) = Len(pg2[x].entries) + 1
               /\ \A i \in DOMAIN pg2[x].kids :
                    /\ pg2[x].kids[i] \in DOMAIN pg2
                    /\ pg2[pg2[x].kids[i]].parent = x /\ level[pg2[x].kids[i]] + 1 = level[x]
               /\ \A i, j \in DOMAIN pg2[x].kids : pg2[x].kids[i] = pg2[x].kids[j] => i = j
    <3>1. x \in DOMAIN pg /\ ~ pg[x].leaf
      BY <1>2, <2>2
    <3>2. pg2[x].entries = pg[x].entries /\ pg2[x].kids = pg[x].kids
      BY <2>1, <3>1
    <3> QED
      BY <1>2, <2>1, <3>1, <3>2
  <2> QED
    BY <2>2 DEF Kids
<1>6. Parents(pg2, hd, l, r)
  BY <1>0, <1>2 DEF Parents, IsKid
<1>7. Ordered(pg2)
  BY <1>0, <1>2 DEF Ordered, Key
<1>8. Ranges(pg2, lo, hi)
  BY <1>0, <1>2 DEF Ranges, Key
<1>9. Parted(pg2, hd, lo, hi, l, r)
  <2>1. lo[hd.root] = Int /\ Upper(hi, hd.root, l, r) = {}
    BY <1>0 DEF Parted
  <2>2. ASSUME NEW x \in DOMAIN pg, ~ pg[x].leaf, NEW i \in DOMAIN pg[x].kids
        PROVE  /\ lo[pg[x].kids[i]] = IF i = 1 THEN lo[x] ELSE AtLeast(Key(pg2[x], i - 1))
               /\ Upper(hi, pg[x].kids[i], l, r) = IF i = Len(pg[x].kids) THEN hi[x] ELSE AtLeast(Key(pg2[x], i))
    <3>1. pg2[x].entries = pg[x].entries
      BY <1>2, <2>2
    <3> QED
      BY <1>0, <2>2, <3>1 DEF Parted, Key
  <2> QED
    BY <1>2, <2>1, <2>2 DEF Parted
<1>10. Halved(pg2, hd, level, lo, hi, l, r, s)
  BY <1>0, <1>2 DEF Halved, IsKid
<1>11. Chained(pg2, hd, chain)
  <2>1. \A i \in DOMAIN chain :
          /\ chain[i] \in DOMAIN pg /\ pg[chain[i]].leaf
          /\ pg[chain[i]].next = IF i = Len(chain) THEN None ELSE chain[i + 1]
          /\ pg[chain[i]].prev = IF i = 1 THEN None ELSE chain[i - 1]
    BY <1>0, ChainIs
  <2>2. \A i \in DOMAIN chain :
          /\ pg2[chain[i]].leaf
          /\ pg2[chain[i]].next = IF i = Len(chain) THEN None ELSE chain[i + 1]
          /\ pg2[chain[i]].prev = IF i = 1 THEN None ELSE chain[i - 1]
    BY <1>2, <2>1
  <2>3. chain \in Seq(DOMAIN pg2) /\ Len(chain) <= hd.next
    BY <1>0, <1>2 DEF Chained
  <2>4. /\ \A i, j \in DOMAIN chain : chain[i] = chain[j] => i = j
        /\ \A x \in DOMAIN pg2 : pg2[x].leaf => \E i \in DOMAIN chain : chain[i] = x
    BY <1>0, <1>2 DEF Chained
  <2> QED
    BY <2>2, <2>3, <2>4 DEF Chained
<1>12. Ascends(pg2, lo, hi, chain)
  <2> SUFFICES ASSUME NEW i \in DOMAIN chain, NEW j \in DOMAIN chain, i < j
               PROVE  /\ lo[chain[j]] \subseteq hi[chain[i]]
                      /\ \A x \in DOMAIN pg2[chain[i]].entries : \A y \in DOMAIN pg2[chain[j]].entries :
                           Less(pg2[chain[i]].entries[x], pg2[chain[j]].entries[y])
    BY DEF Ascends
  <2>1. chain[i] \in DOMAIN pg /\ chain[j] \in DOMAIN pg /\ (chain[i] = chain[j] => i = j) /\ i \in Int /\ j \in Int
    BY <1>0, ChainIs
  <2>2. chain[i] # chain[j]
    BY <2>1
  <2>3. /\ lo[chain[j]] \subseteq hi[chain[i]]
        /\ \A x \in DOMAIN pg[chain[i]].entries : \A y \in DOMAIN pg[chain[j]].entries :
             Less(pg[chain[i]].entries[x], pg[chain[j]].entries[y])
    BY <1>0 DEF Ascends
  <2>4. CASE chain[i] = p
    BY <1>2, <2>1, <2>2, <2>3, <2>4
  <2>5. CASE chain[j] = p
    BY <1>2, <2>1, <2>2, <2>3, <2>5
  <2>6. CASE chain[i] # p /\ chain[j] # p
    BY <1>2, <2>1, <2>3, <2>6
  <2> QED
    BY <2>4, <2>5, <2>6
<1>13. Holds(pg2, held2)
  BY <1>2 DEF Holds
<1> QED
  BY <1>3, <1>4, <1>5, <1>6, <1>7, <1>8, <1>9, <1>10, <1>11, <1>12, <1>13 DEF Tree

\* The key and the record number of an entry.
LEMMA EntryIs ==
  ASSUME NEW e, e \in KeySet \X Nat PROVE e[1] \in KeySet /\ e[1] \in Int /\ e[2] \in Nat /\ e[2] \in Int
<1>1. KeySet \subseteq Int
  BY KeysAssumption DEF KeySet
<1>2. e[1] \in KeySet /\ e[2] \in Nat
  OBVIOUS
<1> DEFINE a == e[1]
           b == e[2]
<1> HIDE DEF a, b
<1>3. a \in KeySet /\ b \in Nat
  BY <1>2 DEF a, b
<1>4. a \in Int /\ b \in Int
  BY <1>1, <1>3
<1> QED
  BY <1>3, <1>4 DEF a, b

\* What a sequence holds once an element is put in.
LEMMA InsertHolds ==
  ASSUME NEW S, NEW s, NEW i, NEW x, s \in Seq(S), i \in 0..Len(s), x \in S
  PROVE  /\ InsertAfter(s, i, x) \in Seq(S)
         /\ \A e : Occurs(InsertAfter(s, i, x), e) <=> e = x \/ Occurs(s, e)
<1> DEFINE t == InsertAfter(s, i, x)
           L == Len(s)
<1>1. /\ t \in Seq(S) /\ Len(t) = L + 1
      /\ \A j \in 1..L + 1 : t[j] = IF j <= i THEN s[j] ELSE IF j = i + 1 THEN x ELSE s[j - 1]
  BY InsertAfterIs
<1>2. L \in Nat /\ DOMAIN s = 1..L
  BY SeqIs
<1> HIDE DEF t, L
<1>3. DOMAIN t = 1..L + 1 /\ i \in Nat /\ i <= L
  BY <1>1, <1>2 DEF L
<1>4. ASSUME NEW j \in DOMAIN t PROVE t[j] = x \/ \E m \in DOMAIN s : s[m] = t[j]
  <2>1. CASE j <= i
    BY <1>1, <1>2, <1>3, <2>1
  <2>2. CASE j = i + 1
    BY <1>1, <1>2, <1>3, <2>2
  <2>3. CASE j > i + 1
    <3>1. j - 1 \in DOMAIN s
      BY <1>2, <1>3, <2>3
    <3>2. t[j] = s[j - 1]
      BY <1>1, <1>2, <1>3, <2>3
    <3> QED
      BY <3>1, <3>2
  <2> QED
    BY <1>2, <1>3, <2>1, <2>2, <2>3
<1>5. ASSUME NEW j \in DOMAIN s PROVE \E m \in DOMAIN t : t[m] = s[j]
  <2>1. CASE j <= i
    BY <1>1, <1>2, <1>3, <2>1
  <2>2. CASE j > i
    <3>1. j + 1 \in DOMAIN t /\ t[j + 1] = s[j]
      BY <1>1, <1>2, <1>3, <2>2
    <3> QED
      BY <3>1
  <2> QED
    BY <1>2, <1>3, <2>1, <2>2
<1>6. i + 1 \in DOMAIN t /\ t[i + 1] = x
  BY <1>1, <1>2, <1>3
<1> QED
  BY <1>1, <1>4, <1>5, <1>6 DEF t, Occurs

\* A later offset goes behind all the entries with keys up to its own.
LEMMA WithEntryIs ==
  ASSUME NEW node, NEW e, node.entries \in Seq(KeySet \X Nat), e \in KeySet \X Nat,
         \A i, j \in DOMAIN node.entries : i < j => Less(node.entries[i], node.entries[j]),
         \A i \in DOMAIN node.entries : node.entries[i][2] < e[2]
  PROVE  LET es == WithEntry(node, e)
         IN  /\ es \in Seq(KeySet \X Nat) /\ Len(es) = Len(node.entries) + 1
             /\ \A i, j \in DOMAIN es : i < j => Less(es[i], es[j])
             /\ \A x : Occurs(es, x) <=> x = e \/ Occurs(node.entries, x)
<1> DEFINE T == KeySet \X Nat
           A == node.entries
           k == e[1]
           n == e[2]
           m == Cardinality({i \in DOMAIN A : Less(A[i], e)})
           es == InsertAfter(A, m, e)
           L == Len(A)
<1>0. k \in Int /\ n \in Int /\ e \in T /\ e[1] = k /\ e[2] = n /\ A \in Seq(T)
  BY EntryIs
<1>1. \A i \in DOMAIN A : A[i][1] \in Int /\ A[i][2] \in Int
  <2> HIDE DEF A
  <2>1. \A i \in DOMAIN A : A[i][1] \in Int /\ A[i][2] \in Nat
    BY <1>0, KeyIs DEF T
  <2> QED
    BY <2>1
<1>w. WithEntry(node, e) = es
  BY DEF WithEntry
<1>p. (\A i, j \in DOMAIN A : i < j => Less(A[i], A[j])) /\ \A i \in DOMAIN A : A[i][2] < n
  OBVIOUS
<1> HIDE DEF A, k, n
<1>2. \A i \in DOMAIN A : Less(A[i], e) <=> A[i][1] <= k
  BY <1>0, <1>1, <1>p DEF Less
<1>3. {i \in DOMAIN A : Less(A[i], e)} = {i \in DOMAIN A : A[i][1] <= k}
  BY <1>2
<1>4. \A i, j \in DOMAIN A : i < j => A[i][1] <= A[j][1]
  BY <1>1, <1>p DEF Less
<1>5. m \in 0..L /\ \A i \in DOMAIN A : A[i][1] <= k <=> i <= m
  <2>1. A \in Seq(KeySet \X Nat)
    BY <1>0
  <2> DEFINE mm == Cardinality({i \in DOMAIN A : A[i][1] <= k})
  <2>2. mm \in 0..Len(A) /\ \A i \in DOMAIN A : A[i][1] <= k <=> i <= mm
    BY <1>0, <1>4, <2>1, FirstKeys
  <2>3. m = mm
    BY <1>3
  <2> HIDE DEF m, mm
  <2> QED
    BY <2>2, <2>3
<1> HIDE DEF m, T
<1>6. /\ es \in Seq(T) /\ Len(es) = L + 1
      /\ \A j \in 1..L + 1 : es[j] = IF j <= m THEN A[j] ELSE IF j = m + 1 THEN e ELSE A[j - 1]
  <2>1. A \in Seq(T) /\ m \in 0..Len(A) /\ e \in T
    BY <1>0, <1>5
  <2> HIDE DEF es, L
  <2>2. /\ InsertAfter(A, m, e) \in Seq(T)
        /\ Len(InsertAfter(A, m, e)) = Len(A) + 1
        /\ \A j \in 1..Len(A) + 1 :
             InsertAfter(A, m, e)[j] = IF j <= m THEN A[j] ELSE IF j = m + 1 THEN e ELSE A[j - 1]
    BY <2>1, InsertAfterIs
  <2> QED
    BY <2>2 DEF es, L
<1>7. \A x : Occurs(es, x) <=> x = e \/ Occurs(A, x)
  <2>1. A \in Seq(T) /\ m \in 0..Len(A) /\ e \in T
    BY <1>0, <1>5
  <2> HIDE DEF es, L
  <2>2. \A x : Occurs(InsertAfter(A, m, e), x) <=> x = e \/ Occurs(A, x)
    BY <2>1, InsertHolds
  <2> QED
    BY <2>2 DEF es
<1>8. L \in Nat /\ DOMAIN A = 1..L
  BY <1>0, SeqIs
<1> HIDE DEF es, L
<1>9. DOMAIN es = 1..L + 1 /\ m \in Nat /\ m <= L
  BY <1>5, <1>6, <1>8
<1>10. \A i \in DOMAIN A : i <= m => Less(A[i], e)
  BY <1>2, <1>5
<1>11. \A i \in DOMAIN A : i > m => Less(e, A[i])
  <2> SUFFICES ASSUME NEW i \in DOMAIN A, i > m PROVE Less(e, A[i])
    OBVIOUS
  <2>1. ~ (i <= m)
    BY <1>8, <1>9
  <2>2. ~ (A[i][1] <= k)
    BY <1>5, <2>1
  <2> QED
    BY <1>0, <1>1, <2>2 DEF Less
<1>12. ASSUME NEW i \in DOMAIN es, NEW j \in DOMAIN es, i < j PROVE Less(es[i], es[j])
  <2>0. i \in Nat /\ j \in Nat /\ i >= 1 /\ j <= L + 1
    BY <1>9
  <2>1. CASE j <= m
    <3>1. i \in DOMAIN A /\ j \in DOMAIN A /\ es[i] = A[i] /\ es[j] = A[j]
      BY <1>6, <1>8, <1>9, <1>12, <2>0, <2>1
    <3> QED
      BY <1>p, <1>12, <3>1
  <2>2. CASE j = m + 1
    <3>1. i \in DOMAIN A /\ i <= m /\ es[i] = A[i] /\ es[j] = e
      BY <1>6, <1>8, <1>9, <1>12, <2>0, <2>2
    <3> QED
      BY <1>10, <3>1
  <2>3. CASE j > m + 1 /\ i <= m
    <3>1. i \in DOMAIN A /\ j - 1 \in DOMAIN A /\ i < j - 1
      BY <1>8, <1>9, <1>12, <2>0, <2>3
    <3>2. es[i] = A[i] /\ es[j] = A[j - 1]
      BY <1>6, <1>8, <1>9, <1>12, <2>0, <2>3
    <3> QED
      BY <1>p, <3>1, <3>2
  <2>4. CASE j > m + 1 /\ i = m + 1
    <3>1. j - 1 \in DOMAIN A /\ j - 1 > m
      BY <1>8, <1>9, <1>12, <2>0, <2>4
    <3>2. es[i] = e /\ es[j] = A[j - 1]
      BY <1>6, <1>8, <1>9, <1>12, <2>0, <2>4
    <3> QED
      BY <1>11, <3>1, <3>2
  <2>5. CASE i > m + 1
    <3>1. i - 1 \in DOMAIN A /\ j - 1 \in DOMAIN A /\ i - 1 < j - 1
      BY <1>8, <1>9, <1>12, <2>0, <2>5
    <3>2. es[i] = A[i - 1] /\ es[j] = A[j - 1]
      BY <1>6, <1>8, <1>9, <1>12, <2>0, <2>5
    <3> QED
      BY <1>p, <3>1, <3>2
  <2> QED
    BY <1>9, <1>12, <2>0, <2>1, <2>2, <2>3, <2>4, <2>5
<1> QED
  BY <1>6, <1>7, <1>12, <1>w DEF A, T, L

\* A leaf is in one place of the chain, its neighbours' keys lie around its own.
LEMMA AroundLeaf ==
  ASSUME NEW pg, NEW hd, NEW lo, NEW hi, NEW chain, NEW p, NEW c, NEW j,
         Pages(pg, hd), Ranges(pg, lo, hi), Chained(pg, hd, chain), Ascends(pg, lo, hi, chain),
         c \in DOMAIN chain, j \in DOMAIN chain, chain[c] = p,
         NEW k, k \in Int, k \in lo[p], k \notin hi[p]
  PROVE  \A y \in DOMAIN pg[chain[j]].entries :
           /\ c < j => pg[chain[j]].entries[y][1] > k
           /\ j < c => pg[chain[j]].entries[y][1] <= k
<1> SUFFICES ASSUME NEW y \in DOMAIN pg[chain[j]].entries
             PROVE  /\ c < j => pg[chain[j]].entries[y][1] > k
                    /\ j < c => pg[chain[j]].entries[y][1] <= k
  OBVIOUS
<1> DEFINE q == chain[j]
           x == pg[q].entries[y][1]
<1>1. p \in DOMAIN pg /\ q \in DOMAIN pg
  BY ChainIs
<1>2. x \in Int
  <2> DEFINE es == pg[q].entries
  <2>1. es \in Seq(KeySet \X Nat) /\ y \in DOMAIN es
    BY <1>1, PagesAre
  <2> HIDE DEF es
  <2>2. es[y][1] \in Int
    BY <2>1, KeyIs
  <2> QED
    BY <2>2 DEF es
<1>3. x \in lo[q] /\ \A m \in hi[q] : x <= m
  BY <1>1 DEF Ranges, Key
<1>4. \A u \in hi[p], v \in Int : u <= v => v \in hi[p]
  BY <1>1 DEF Ranges, UpSets
<1>5. c < j => lo[q] \subseteq hi[p]
  BY DEF Ascends
<1>6. j < c => lo[p] \subseteq hi[q]
  BY DEF Ascends
<1> HIDE DEF x, q
<1>7. c < j => x > k
  BY <1>2, <1>3, <1>4, <1>5
<1>8. j < c => x <= k
  BY <1>3, <1>6
<1> QED
  BY <1>7, <1>8 DEF x, q

\* An entry put in the leaf that is for its key.
LEMMA LeafEnter ==
  ASSUME NEW pg, NEW hd, NEW level, NEW lo, NEW hi, NEW chain, NEW l, NEW r, NEW s, NEW held,
         Tree(pg, hd, level, lo, hi, chain, l, r, s, held),
         NEW pg2, NEW p, NEW e, p \in DOMAIN pg, pg[p].leaf, pg2 \in [DOMAIN pg -> NodeType],
         e \in KeySet \X Nat, e[1] \in lo[p], e[1] \notin hi[p], \A f \in held : f[2] < e[2],
         \A x \in DOMAIN pg :
           /\ pg2[x].entries = IF x = p THEN WithEntry(pg[p], e) ELSE pg[x].entries
           /\ pg2[x].leaf = pg[x].leaf /\ pg2[x].kids = pg[x].kids
           /\ pg2[x].parent = pg[x].parent /\ pg2[x].prev = pg[x].prev /\ pg2[x].next = pg[x].next
  PROVE  Tree(pg2, hd, level, lo, hi, chain, l, r, s, held \cup {e})
<1> DEFINE es == WithEntry(pg[p], e)
           A == pg[p].entries
           k == e[1]
           n == e[2]
<1>0. /\ Pages(pg, hd) /\ Ordered(pg) /\ Ranges(pg, lo, hi)
      /\ Chained(pg, hd, chain) /\ Ascends(pg, lo, hi, chain) /\ Holds(pg, held)
  BY TreeIs
<1>1. A \in Seq(KeySet \X Nat) /\ k \in Int /\ n \in Int /\ e[1] = k /\ e[2] = n
  <2>1. k \in Int /\ n \in Int /\ e[1] = k /\ e[2] = n
    BY EntryIs
  <2>2. A \in Seq(KeySet \X Nat)
    BY <1>0, PagesAre
  <2> QED
    BY <2>1, <2>2
<1> HIDE DEF k, n
<1>2. \A i, j \in DOMAIN A : i < j => Less(A[i], A[j])
  BY <1>0 DEF Ordered
<1>3. \A x \in DOMAIN pg : pg[x].leaf => \A i \in DOMAIN pg[x].entries : pg[x].entries[i][2] < n
  BY <1>0 DEF Holds, Occurs, n
<1>4. /\ es \in Seq(KeySet \X Nat)
      /\ \A i, j \in DOMAIN es : i < j => Less(es[i], es[j])
      /\ \A x : Occurs(es, x) <=> x = e \/ Occurs(A, x)
  <2> DEFINE node == pg[p]
             fs == WithEntry(node, e)
  <2>1. /\ node.entries \in Seq(KeySet \X Nat)
        /\ \A i, j \in DOMAIN node.entries : i < j => Less(node.entries[i], node.entries[j])
        /\ \A i \in DOMAIN node.entries : node.entries[i][2] < e[2]
    BY <1>1, <1>2, <1>3 DEF n
  <2> HIDE DEF node, es, A
  <2>2. /\ fs \in Seq(KeySet \X Nat) /\ Len(fs) = Len(node.entries) + 1
        /\ \A i, j \in DOMAIN fs : i < j => Less(fs[i], fs[j])
        /\ \A x : Occurs(fs, x) <=> x = e \/ Occurs(node.entries, x)
    <3> HIDE DEF fs
    <3>1. LET gs == WithEntry(node, e)
          IN  /\ gs \in Seq(KeySet \X Nat) /\ Len(gs) = Len(node.entries) + 1
              /\ \A i, j \in DOMAIN gs : i < j => Less(gs[i], gs[j])
              /\ \A x : Occurs(gs, x) <=> x = e \/ Occurs(node.entries, x)
      BY <2>1, WithEntryIs
    <3> QED
      BY <3>1 DEF fs
  <2> QED
    BY <2>2 DEF node, es, A
<1>5. \A i \in DOMAIN es : es[i] = e \/ \E j \in DOMAIN A : A[j] = es[i]
  <2> HIDE DEF es, A
  <2> QED
    BY <1>4 DEF Occurs
<1> HIDE DEF es
<1>6. \A i \in DOMAIN es : es[i][1] \in lo[p] /\ \A m \in hi[p] : es[i][1] <= m
  <2>1. \A j \in DOMAIN A : A[j][1] \in lo[p] /\ \A m \in hi[p] : A[j][1] <= m
    BY <1>0 DEF Ranges, Key
  <2>2. \A m \in hi[p] : k <= m
    <3>1. hi[p] \in UpSets /\ k \notin hi[p]
      BY <1>0 DEF Ranges, k
    <3> QED
      BY <1>1, <3>1 DEF UpSets
  <2> QED
    BY <1>1, <1>5, <2>1, <2>2 DEF k
<1>7. ASSUME NEW c \in DOMAIN chain, NEW j \in DOMAIN chain, chain[c] = p,
             NEW i \in DOMAIN es, NEW y \in DOMAIN pg[chain[j]].entries
      PROVE  /\ c < j => Less(es[i], pg[chain[j]].entries[y])
             /\ j < c => Less(pg[chain[j]].entries[y], es[i])
  <2> DEFINE f == pg[chain[j]].entries[y]
  <2>1. CASE es[i] = e
    <3>1. /\ c < j => f[1] > k
          /\ j < c => f[1] <= k
      <4>1. k \in lo[p] /\ k \notin hi[p] /\ k \in Int
        BY <1>1 DEF k
      <4>2. c \in DOMAIN chain /\ j \in DOMAIN chain /\ chain[c] = p /\ y \in DOMAIN pg[chain[j]].entries
        BY <1>7
      <4> HIDE DEF es, A
      <4>3. /\ c < j => pg[chain[j]].entries[y][1] > k
            /\ j < c => pg[chain[j]].entries[y][1] <= k
        BY <1>0, <4>1, <4>2, AroundLeaf
      <4> QED
        BY <4>3
    <3>2. f[2] < n /\ f[1] \in Int /\ f[2] \in Int
      <4>1. chain[j] \in DOMAIN pg /\ pg[chain[j]].leaf
        BY <1>0, ChainIs
      <4>2. f[2] < n
        BY <1>3, <4>1
      <4> DEFINE fs == pg[chain[j]].entries
      <4>3. fs \in Seq(KeySet \X Nat) /\ y \in DOMAIN fs
        BY <1>0, <4>1, PagesAre
      <4> HIDE DEF fs
      <4>4. fs[y][1] \in Int /\ fs[y][2] \in Nat
        BY <4>3, KeyIs
      <4> QED
        BY <4>2, <4>4 DEF fs
    <3> HIDE DEF f
    <3>3. /\ c < j => Less(es[i], f)
          /\ j < c => Less(f, es[i])
      BY <1>1, <2>1, <3>1, <3>2 DEF Less
    <3> QED
      BY <3>3 DEF f
  <2>2. CASE \E m \in DOMAIN A : A[m] = es[i]
    <3>1. PICK m \in DOMAIN A : A[m] = es[i]
      BY <2>2
    <3> QED
      BY <1>0, <1>7, <3>1 DEF Ascends
  <2> QED
    BY <1>5, <2>1, <2>2
<1>8. ASSUME NEW x
      PROVE  x \in held \cup {e} <=>
               Occurs(es, x) \/ \E z \in DOMAIN pg : z # p /\ pg[z].leaf /\ Occurs(pg[z].entries, x)
  <2>1. x \in held <=> \E z \in DOMAIN pg : pg[z].leaf /\ Occurs(pg[z].entries, x)
    BY <1>0 DEF Holds
  <2>2. Occurs(es, x) <=> x = e \/ Occurs(pg[p].entries, x)
    BY <1>4
  <2> QED
    BY <2>1, <2>2
<1>9. \A x \in DOMAIN pg :
           /\ pg2[x].entries = IF x = p THEN es ELSE pg[x].entries
           /\ pg2[x].leaf = pg[x].leaf /\ pg2[x].kids = pg[x].kids
           /\ pg2[x].parent = pg[x].parent /\ pg2[x].prev = pg[x].prev /\ pg2[x].next = pg[x].next
  BY DEF es
<1> DEFINE held2 == held \cup {e}
<1> HIDE DEF held2, A
<1>10. \A x : x \in held2 <=>
               Occurs(es, x) \/ \E z \in DOMAIN pg : z # p /\ pg[z].leaf /\ Occurs(pg[z].entries, x)
  BY <1>8 DEF held2
<1>11. \A c, j \in DOMAIN chain : chain[c] = p =>
           \A i \in DOMAIN es : \A y \in DOMAIN pg[chain[j]].entries :
             /\ c < j => Less(es[i], pg[chain[j]].entries[y])
             /\ j < c => Less(pg[chain[j]].entries[y], es[i])
  BY <1>7
<1>12. Tree(pg2, hd, level, lo, hi, chain, l, r, s, held2)
  <2>1. es \in Seq(KeySet \X Nat) /\ \A i, j \in DOMAIN es : i < j => Less(es[i], es[j])
    BY <1>4
  <2> QED
    BY <1>6, <1>9, <1>10, <1>11, <2>1, LeafChanged, SMTT(60)
<1> QED
  BY <1>12 DEF held2

\* No entry is in two places.
LEMMA Once ==
  ASSUME NEW pg, NEW hd, NEW lo, NEW hi, NEW chain, NEW x, NEW y, NEW i, NEW j,
         Pages(pg, hd), Ordered(pg), Chained(pg, hd, chain), Ascends(pg, lo, hi, chain),
         x \in DOMAIN pg, y \in DOMAIN pg, pg[x].leaf, pg[y].leaf,
         i \in DOMAIN pg[x].entries, j \in DOMAIN pg[y].entries,
         pg[x].entries[i] = pg[y].entries[j]
  PROVE  x = y /\ i = j
<1> DEFINE e == pg[x].entries[i]
           f == pg[y].entries[j]
<1>1. e[1] \in Int /\ e[2] \in Int
  <2> DEFINE es == pg[x].entries
  <2>1. es \in Seq(KeySet \X Nat) /\ i \in DOMAIN es
    BY PagesAre
  <2> HIDE DEF es
  <2>2. es[i] \in KeySet \X Nat
    BY <2>1
  <2>3. es[i][1] \in Int /\ es[i][2] \in Int
    BY <2>2, EntryIs
  <2> QED
    BY <2>3 DEF es
<1>2. ~ Less(e, f) /\ ~ Less(f, e)
  <2>1. e = f
    OBVIOUS
  <2> HIDE DEF e, f
  <2> QED
    BY <1>1, <2>1 DEF Less
<1>3. x = y
  <2>1. PICK a \in DOMAIN chain : chain[a] = x
    BY ChainIs
  <2>2. PICK b \in DOMAIN chain : chain[b] = y
    BY ChainIs
  <2>3. a \in Int /\ b \in Int
    BY ChainIs
  <2>4. ~ (a < b) /\ ~ (b < a)
    BY <1>2, <2>1, <2>2 DEF Ascends
  <2> QED
    BY <2>1, <2>2, <2>3, <2>4
<1>4. i = j
  <2>1. i \in Int /\ j \in Int
    <3> DEFINE es == pg[x].entries
               fs == pg[y].entries
    <3>1. es \in Seq(KeySet \X Nat) /\ i \in DOMAIN es /\ fs \in Seq(KeySet \X Nat) /\ j \in DOMAIN fs
      BY PagesAre
    <3> HIDE DEF es, fs
    <3> QED
      BY <3>1, SeqIs
  <2>2. ~ (i < j) /\ ~ (j < i)
    BY <1>2, <1>3 DEF Ordered
  <2> QED
    BY <2>1, <2>2
<1> QED
  BY <1>3, <1>4

\* What a sequence holds once an element is taken out.
LEMMA WithoutHolds ==
  ASSUME NEW S, NEW s, NEW i, s \in Seq(S), i \in DOMAIN s
  PROVE  /\ Without(s, i) \in Seq(S)
         /\ \A e : Occurs(Without(s, i), e) <=> \E j \in DOMAIN s : j # i /\ s[j] = e
         /\ \A j \in DOMAIN Without(s, i) : \E m \in DOMAIN s : m # i /\ Without(s, i)[j] = s[m]
         /\ \A j, k \in DOMAIN Without(s, i) : j < k =>
              \E m, n \in DOMAIN s : m < n /\ Without(s, i)[j] = s[m] /\ Without(s, i)[k] = s[n]
<1> DEFINE t == Without(s, i)
           L == Len(s)
<1>1. /\ t \in Seq(S) /\ Len(t) = L - 1
      /\ \A j : j \in 1..L - 1 => t[j] = IF j < i THEN s[j] ELSE s[j + 1]
  BY WithoutIs
<1>2. L \in Nat /\ DOMAIN s = 1..L
  BY SeqIs
<1> HIDE DEF t, L
<1>3. DOMAIN t = 1..L - 1 /\ i \in Nat /\ i >= 1 /\ i <= L
  BY <1>1, <1>2
<1> DEFINE at(j) == IF j < i THEN j ELSE j + 1
<1>4. \A j \in DOMAIN t : at(j) \in DOMAIN s /\ at(j) # i /\ t[j] = s[at(j)]
  BY <1>1, <1>2, <1>3
<1>5. \A j, k \in DOMAIN t : j < k => at(j) < at(k)
  BY <1>3
<1>6. ASSUME NEW j \in DOMAIN s, j # i PROVE \E k \in DOMAIN t : t[k] = s[j]
  <2>1. CASE j < i
    <3>1. j \in DOMAIN t /\ t[j] = s[j]
      BY <1>1, <1>2, <1>3, <2>1
    <3> QED
      BY <3>1
  <2>2. CASE j > i
    <3>1. j - 1 \in DOMAIN t /\ t[j - 1] = s[j]
      BY <1>1, <1>2, <1>3, <2>2
    <3> QED
      BY <3>1
  <2> QED
    BY <1>2, <1>3, <1>6, <2>1, <2>2
<1> HIDE DEF at
<1>7. \A e : Occurs(t, e) <=> \E j \in DOMAIN s : j # i /\ s[j] = e
  BY <1>4, <1>6 DEF Occurs
<1>8. \A j \in DOMAIN t : \E m \in DOMAIN s : m # i /\ t[j] = s[m]
  BY <1>4
<1>9. \A j, k \in DOMAIN t : j < k => \E m, n \in DOMAIN s : m < n /\ t[j] = s[m] /\ t[k] = s[n]
  BY <1>4, <1>5
<1> QED
  BY <1>1, <1>7, <1>8, <1>9 DEF t

\* An entry taken out of its leaf.
LEMMA LeafLess ==
  ASSUME NEW pg, NEW hd, NEW level, NEW lo, NEW hi, NEW chain, NEW l, NEW r, NEW s, NEW held,
         Tree(pg, hd, level, lo, hi, chain, l, r, s, held),
         NEW pg2, NEW p, NEW i, p \in DOMAIN pg, pg[p].leaf, pg2 \in [DOMAIN pg -> NodeType],
         i \in DOMAIN pg[p].entries,
         \A x \in DOMAIN pg :
           /\ pg2[x].entries = IF x = p THEN Without(pg[p].entries, i) ELSE pg[x].entries
           /\ pg2[x].leaf = pg[x].leaf /\ pg2[x].kids = pg[x].kids
           /\ pg2[x].parent = pg[x].parent /\ pg2[x].prev = pg[x].prev /\ pg2[x].next = pg[x].next
  PROVE  Tree(pg2, hd, level, lo, hi, chain, l, r, s, held \ {pg[p].entries[i]})
<1> DEFINE A == pg[p].entries
           es == Without(A, i)
           e == A[i]
           held2 == held \ {e}
<1>0. /\ Pages(pg, hd) /\ Ordered(pg) /\ Ranges(pg, lo, hi)
      /\ Chained(pg, hd, chain) /\ Ascends(pg, lo, hi, chain) /\ Holds(pg, held)
  BY TreeIs
<1>1. A \in Seq(KeySet \X Nat) /\ i \in DOMAIN A
  BY <1>0, PagesAre
<1>2. /\ \A j, k \in DOMAIN A : j < k => Less(A[j], A[k])
      /\ \A j \in DOMAIN A : A[j][1] \in lo[p] /\ \A m \in hi[p] : A[j][1] <= m
  BY <1>0 DEF Ordered, Ranges, Key
<1>3. \A c, j \in DOMAIN chain : chain[c] = p =>
           \A m \in DOMAIN A : \A y \in DOMAIN pg[chain[j]].entries :
             /\ c < j => Less(A[m], pg[chain[j]].entries[y])
             /\ j < c => Less(pg[chain[j]].entries[y], A[m])
  BY <1>0 DEF Ascends
<1>4. \A x \in DOMAIN pg : pg[x].leaf => \A j \in DOMAIN pg[x].entries : pg[x].entries[j] = e => x = p /\ i = j
  <2> SUFFICES ASSUME NEW x \in DOMAIN pg, pg[x].leaf, NEW j \in DOMAIN pg[x].entries, pg[x].entries[j] = pg[p].entries[i]
               PROVE  x = p /\ j = i
    OBVIOUS
  <2>1. p \in DOMAIN pg /\ pg[p].leaf /\ i \in DOMAIN pg[p].entries
    OBVIOUS
  <2> HIDE DEF A, e, es, held2
  <2> QED
    BY <1>0, <2>1, Once, SMTT(60)
<1>o. Occurs(A, e)
  BY <1>1 DEF Occurs
<1>f. \A x \in DOMAIN pg :
           /\ pg2[x].entries = IF x = p THEN es ELSE pg[x].entries
           /\ pg2[x].leaf = pg[x].leaf /\ pg2[x].kids = pg[x].kids
           /\ pg2[x].parent = pg[x].parent /\ pg2[x].prev = pg[x].prev /\ pg2[x].next = pg[x].next
  OBVIOUS
<1>5. \A x : x \in held <=> \E z \in DOMAIN pg : pg[z].leaf /\ Occurs(pg[z].entries, x)
  BY <1>0 DEF Holds
<1>a. A = pg[p].entries
  OBVIOUS
<1>e. e = A[i]
  OBVIOUS
<1> HIDE DEF A, e
<1>6. /\ es \in Seq(KeySet \X Nat)
      /\ \A x : Occurs(es, x) <=> \E j \in DOMAIN A : j # i /\ A[j] = x
      /\ \A j \in DOMAIN es : \E m \in DOMAIN A : m # i /\ es[j] = A[m]
      /\ \A j, k \in DOMAIN es : j < k => \E m, n \in DOMAIN A : m < n /\ es[j] = A[m] /\ es[k] = A[n]
  BY <1>1, WithoutHolds
<1> HIDE DEF es
<1>7. \A j, k \in DOMAIN es : j < k => Less(es[j], es[k])
  BY <1>2, <1>6
<1>8. \A j \in DOMAIN es : es[j][1] \in lo[p] /\ \A k \in hi[p] : es[j][1] <= k
  BY <1>2, <1>6
<1>9. \A c, j \in DOMAIN chain : chain[c] = p =>
           \A m \in DOMAIN es : \A y \in DOMAIN pg[chain[j]].entries :
             /\ c < j => Less(es[m], pg[chain[j]].entries[y])
             /\ j < c => Less(pg[chain[j]].entries[y], es[m])
  BY <1>3, <1>6
<1>10. ASSUME NEW x
       PROVE  x \in held2 <=>
                Occurs(es, x) \/ \E z \in DOMAIN pg : z # p /\ pg[z].leaf /\ Occurs(pg[z].entries, x)
  <2>1. ASSUME x \in held2
        PROVE  Occurs(es, x) \/ \E z \in DOMAIN pg : z # p /\ pg[z].leaf /\ Occurs(pg[z].entries, x)
    <3>1. PICK z \in DOMAIN pg : pg[z].leaf /\ Occurs(pg[z].entries, x)
      BY <1>5, <2>1
    <3>2. CASE z = p
      <4>1. PICK j \in DOMAIN A : A[j] = x
        BY <1>a, <3>1, <3>2 DEF Occurs
      <4>2. j # i
        BY <1>e, <2>1, <4>1
      <4> QED
        BY <1>6, <4>1, <4>2
    <3> QED
      BY <3>1, <3>2
  <2>2. ASSUME Occurs(es, x) PROVE x \in held2
    <3>1. PICK j \in DOMAIN A : j # i /\ A[j] = x
      BY <1>6, <2>2
    <3>2. x # e
      BY <1>4, <1>a, <3>1
    <3>3. x \in held
      BY <1>5, <1>a, <3>1 DEF Occurs
    <3> QED
      BY <3>2, <3>3
  <2>3. ASSUME NEW z \in DOMAIN pg, z # p, pg[z].leaf, Occurs(pg[z].entries, x) PROVE x \in held2
    <3>1. x \in held
      BY <1>5, <2>3
    <3>2. x # e
      BY <1>4, <2>3 DEF Occurs
    <3> QED
      BY <3>1, <3>2
  <2> QED
    BY <2>1, <2>2, <2>3
<1> HIDE DEF held2
<1>11. \A x : x \in held2 <=>
                Occurs(es, x) \/ \E z \in DOMAIN pg : z # p /\ pg[z].leaf /\ Occurs(pg[z].entries, x)
  BY <1>10
<1>12. Tree(pg2, hd, level, lo, hi, chain, l, r, s, held2)
  <2>1. es \in Seq(KeySet \X Nat)
    BY <1>6
  <2>2. p \in DOMAIN pg /\ pg[p].leaf /\ pg2 \in [DOMAIN pg -> NodeType]
    OBVIOUS
  <2> QED
    BY <1>7, <1>8, <1>9, <1>11, <1>f, <2>1, <2>2, LeafChanged, SMTT(60)
<1> QED
  BY <1>12 DEF held2, e, A

\* The two parts of a sequence.
LEMMA PartsAre ==
  ASSUME NEW S, NEW s, NEW h, s \in Seq(S), h \in 0..Len(s)
  PROVE  /\ SubSeq(s, 1, h) \in Seq(S) /\ From(s, h + 1) \in Seq(S)
         /\ Len(SubSeq(s, 1, h)) = h /\ Len(From(s, h + 1)) = Len(s) - h
         /\ \A j \in DOMAIN SubSeq(s, 1, h) : j \in Int /\ j \in DOMAIN s /\ j <= h /\ SubSeq(s, 1, h)[j] = s[j]
         /\ \A j \in DOMAIN From(s, h + 1) : j \in Int /\ h + j \in DOMAIN s /\ j >= 1 /\ From(s, h + 1)[j] = s[h + j]
         /\ \A e : Occurs(s, e) <=> Occurs(SubSeq(s, 1, h), e) \/ Occurs(From(s, h + 1), e)
<1> DEFINE a == SubSeq(s, 1, h)
           b == From(s, h + 1)
           L == Len(s)
<1>1. a \in Seq(S) /\ Len(a) = h /\ \A j \in 1..h : a[j] = s[j]
  BY FirstIs
<1>2. b \in Seq(S) /\ Len(b) = L - h /\ \A j \in 1..L - h : b[j] = s[h + j]
  <2> DEFINE g == h + 1
  <2>1. g \in 1..L + 1 /\ h \in Nat /\ L \in Nat
    OBVIOUS
  <2>2. From(s, h + 1) = From(s, g)
    OBVIOUS
  <2>g. g = h + 1
    OBVIOUS
  <2> HIDE DEF g, a, b
  <2>3. /\ From(s, g) \in Seq(S) /\ Len(From(s, g)) = Len(s) + 1 - g
        /\ \A j : j \in 1..Len(s) + 1 - g => From(s, g)[j] = s[g - 1 + j]
    <3>1. g \in 1..Len(s) + 1
      BY <2>1
    <3> HIDE DEF L
    <3> QED
      BY <3>1, RestIs
  <2>4. Len(s) + 1 - g = L - h /\ g - 1 = h
    BY <2>1, <2>g
  <2> QED
    BY <2>2, <2>3, <2>4 DEF b
<1>3. L \in Nat /\ DOMAIN s = 1..L
  BY SeqIs
<1> HIDE DEF a, b, L
<1>4. DOMAIN a = 1..h /\ DOMAIN b = 1..L - h /\ h \in Nat /\ h <= L
  BY <1>1, <1>2, <1>3 DEF L
<1>5. \A j \in DOMAIN a : j \in Int /\ j \in DOMAIN s /\ j <= h /\ a[j] = s[j]
  BY <1>1, <1>3, <1>4
<1>6. \A j \in DOMAIN b : j \in Int /\ h + j \in DOMAIN s /\ j >= 1 /\ b[j] = s[h + j]
  BY <1>2, <1>3, <1>4
<1>7. ASSUME NEW i \in DOMAIN s PROVE Occurs(a, s[i]) \/ Occurs(b, s[i])
  <2>1. CASE i <= h
    <3>1. i \in DOMAIN a /\ a[i] = s[i]
      BY <1>1, <1>3, <1>4, <2>1
    <3> QED
      BY <3>1 DEF Occurs
  <2>2. CASE i > h
    <3>1. i - h \in DOMAIN b /\ h + (i - h) = i
      BY <1>3, <1>4, <2>2
    <3>2. b[i - h] = s[i]
      BY <1>6, <3>1
    <3> QED
      BY <3>1, <3>2 DEF Occurs
  <2> QED
    BY <1>3, <1>4, <2>1, <2>2
<1>8. \A e : Occurs(s, e) <=> Occurs(a, e) \/ Occurs(b, e)
  <2> TAKE e
  <2>1. Occurs(s, e) => Occurs(a, e) \/ Occurs(b, e)
    BY <1>7 DEF Occurs
  <2>2. Occurs(a, e) => Occurs(s, e)
    BY <1>5 DEF Occurs
  <2>3. Occurs(b, e) => Occurs(s, e)
    <3> SUFFICES ASSUME NEW j \in DOMAIN b, b[j] = e PROVE Occurs(s, e)
      BY DEF Occurs
    <3>1. h + j \in DOMAIN s /\ s[h + j] = e
      BY <1>6
    <3> QED
      BY <3>1 DEF Occurs
  <2> QED
    BY <2>1, <2>2, <2>3
<1> QED
  BY <1>1, <1>2, <1>5, <1>6, <1>8 DEF a, b, L

\* No page that is not there is part of a tree.
LEMMA WholeTree ==
  ASSUME NEW pg, NEW hd, NEW level, NEW lo, NEW hi, NEW chain, NEW s, NEW held,
         Tree(pg, hd, level, lo, hi, chain, None, None, s, held)
  PROVE  /\ \A x \in DOMAIN pg : x # None /\ x # hd.next /\ x \in Nat /\ x < hd.next
         /\ \A x \in DOMAIN pg : level[x] < level[hd.root] \/ x = hd.root
         /\ \A x \in DOMAIN pg :
              IF pg[x].parent = None THEN x = hd.root
              ELSE pg[x].parent \in DOMAIN pg /\ ~ pg[pg[x].parent].leaf /\ IsKid(pg, x, pg[x].parent)
         /\ \A x \in DOMAIN pg : Upper(hi, x, None, None) = hi[x]
<1>0. Pages(pg, hd) /\ Levels(pg, hd, level, None, None) /\ Parents(pg, hd, None, None)
  BY TreeIs
<1>1. \A x \in DOMAIN pg : x \in Nat /\ x < hd.next
  BY <1>0, PagesAre
<1>2. \A x \in DOMAIN pg : x # None /\ x # hd.next
  <2>1. hd.next \in Nat
    BY <1>0, PagesAre
  <2> QED
    BY <1>1, <2>1 DEF None
<1>3. \A x \in DOMAIN pg : level[x] < level[hd.root] \/ x = hd.root
  BY <1>0, <1>2 DEF Levels
<1>4. \A x \in DOMAIN pg :
        IF pg[x].parent = None THEN x = hd.root
        ELSE pg[x].parent \in DOMAIN pg /\ ~ pg[pg[x].parent].leaf /\ IsKid(pg, x, pg[x].parent)
  BY <1>0, <1>2 DEF Parents
<1>5. \A x \in DOMAIN pg : Upper(hi, x, None, None) = hi[x]
  BY <1>2 DEF Upper
<1> QED
  BY <1>1, <1>2, <1>3, <1>4, <1>5

\* A page put into a file.
LEMMA PutIs ==
  ASSUME NEW f, NEW x, NEW v
  PROVE  /\ DOMAIN Put(f, x, v) = DOMAIN f \cup {x}
         /\ \A y \in DOMAIN f \cup {x} : Put(f, x, v)[y] = IF y = x THEN v ELSE f[y]
BY DEF Put

\* A page put into a file, its type.
LEMMA PutType ==
  ASSUME NEW D, NEW T, NEW f, NEW x, NEW v, f \in [D -> T], v \in T
  PROVE  Put(f, x, v) \in [D \cup {x} -> T]
BY DEF Put

\* The keys from one on.
LEMMA AtLeastIs ==
  ASSUME NEW k, k \in Int
  PROVE  AtLeast(k) \in UpSets /\ AtLeast(k) \subseteq Int /\ \A m : m \in AtLeast(k) <=> m \in Int /\ k <= m
<1>1. AtLeast(k) \subseteq Int /\ \A m : m \in AtLeast(k) <=> m \in Int /\ k <= m
  BY DEF AtLeast
<1>2. \A m \in AtLeast(k), n \in Int : m <= n => n \in AtLeast(k)
  BY <1>1
<1> QED
  BY <1>1, <1>2 DEF UpSets

\* A leaf p halved after its entry h, the new page being the next one.
LeafHalved(pg, pg2, hd, p, h) ==
  /\ p \in DOMAIN pg /\ pg[p].leaf /\ h \in 1..Len(pg[p].entries) - 1
  /\ pg2 \in [0..hd.next -> NodeType]
  /\ \A x \in DOMAIN pg :
       /\ pg2[x].leaf = pg[x].leaf /\ pg2[x].kids = pg[x].kids /\ pg2[x].parent = pg[x].parent
       /\ pg2[x].entries = IF x = p THEN SubSeq(pg[p].entries, 1, h) ELSE pg[x].entries
       /\ pg2[x].prev = IF x = pg[p].next THEN hd.next ELSE pg[x].prev
       /\ pg2[x].next = IF x = p THEN hd.next ELSE pg[x].next
  /\ pg2[hd.next].leaf = TRUE /\ pg2[hd.next].kids = <<>> /\ pg2[hd.next].parent = pg[p].parent
  /\ pg2[hd.next].entries = From(pg[p].entries, h + 1)
  /\ pg2[hd.next].prev = p /\ pg2[hd.next].next = pg[p].next

\* The keys the halves are for.
RangesHalved(pg, hd, p, lo, hi, lo2, hi2) ==
  /\ hi2[p] = lo2[hd.next] /\ hi2[hd.next] = hi[p] /\ lo2[hd.next] \subseteq lo[p] /\ hi[p] \subseteq lo2[hd.next]
  /\ \A x \in DOMAIN pg : lo2[x] = lo[x]
  /\ \A x \in DOMAIN pg : x # p => hi2[x] = hi[x]

\* The entries of a page halved after its entry h.
LEMMA HalfEntries ==
  ASSUME NEW pg, NEW pg2, NEW hd, NEW p, NEW h, LeafHalved(pg, pg2, hd, p, h),
         Pages(pg, hd)
  PROVE  LET es == pg[p].entries
         IN  /\ es \in Seq(KeySet \X Nat) /\ h \in Int /\ h \in DOMAIN es /\ h + 1 \in DOMAIN es
             /\ \A i \in DOMAIN es : i \in Int /\ es[i] \in KeySet \X Nat /\ es[i][1] \in Int /\ es[i][2] \in Int
             /\ \A j \in DOMAIN pg2[p].entries :
                  j \in Int /\ j \in DOMAIN es /\ j <= h /\ pg2[p].entries[j] = es[j]
             /\ \A j \in DOMAIN pg2[hd.next].entries :
                  j \in Int /\ h + j \in DOMAIN es /\ j >= 1 /\ pg2[hd.next].entries[j] = es[h + j]
             /\ \A e : Occurs(es, e) <=> Occurs(pg2[p].entries, e) \/ Occurs(pg2[hd.next].entries, e)
             /\ \A x \in DOMAIN pg : x # p => pg2[x].entries = pg[x].entries
<1> DEFINE T == KeySet \X Nat
           es == pg[p].entries
           a == pg2[p].entries
           b == pg2[hd.next].entries
<1>0. p \in DOMAIN pg
  BY DEF LeafHalved
<1>1. es \in Seq(T)
  BY <1>0, PagesAre
<1>2. a = SubSeq(es, 1, h) /\ b = From(es, h + 1) /\ \A x \in DOMAIN pg : x # p => pg2[x].entries = pg[x].entries
  BY DEF LeafHalved
<1>3. h \in 1..Len(es) - 1
  BY DEF LeafHalved
<1> HIDE DEF es, a, b
<1>4. \A i \in DOMAIN es : i \in Int /\ es[i] \in KeySet \X Nat /\ es[i][1] \in Int /\ es[i][2] \in Int
  <2> SUFFICES ASSUME NEW i \in DOMAIN es
               PROVE  i \in Int /\ es[i] \in KeySet \X Nat /\ es[i][1] \in Int /\ es[i][2] \in Int
    OBVIOUS
  <2>1. i \in Int
    BY <1>1, SeqIs
  <2> DEFINE e == es[i]
  <2>2. e \in KeySet \X Nat
    BY <1>1, SeqIs
  <2> HIDE DEF e
  <2>3. e[1] \in Int /\ e[2] \in Int
    BY <2>2, EntryIs
  <2> QED
    BY <2>1, <2>2, <2>3 DEF e
<1> HIDE DEF T
<1>5. h \in 0..Len(es) /\ h \in Int /\ h \in DOMAIN es /\ h + 1 \in DOMAIN es
  <2>1. Len(es) \in Nat /\ DOMAIN es = 1..Len(es)
    BY <1>1, SeqIs
  <2> QED
    BY <1>3, <2>1
<1>6. /\ \A j \in DOMAIN SubSeq(es, 1, h) : j \in Int /\ j \in DOMAIN es /\ j <= h /\ SubSeq(es, 1, h)[j] = es[j]
      /\ \A j \in DOMAIN From(es, h + 1) : j \in Int /\ h + j \in DOMAIN es /\ j >= 1 /\ From(es, h + 1)[j] = es[h + j]
      /\ \A e : Occurs(es, e) <=> Occurs(SubSeq(es, 1, h), e) \/ Occurs(From(es, h + 1), e)
  BY <1>1, <1>5, PartsAre
<1> QED
  BY <1>1, <1>2, <1>4, <1>5, <1>6 DEF es, a, b, T

\* The new leaf stands behind the halved one in the chain.
LEMMA HalveChained ==
  ASSUME NEW pg, NEW pg2, NEW hd, NEW hd2, NEW p, NEW h, NEW chain, NEW c,
         LeafHalved(pg, pg2, hd, p, h), Pages(pg, hd), Chained(pg, hd, chain),
         c \in DOMAIN chain, chain[c] = p, hd2.next = hd.next + 1
  PROVE  Chained(pg2, hd2, InsertAfter(chain, c, hd.next))
<1> DEFINE r == hd.next
           n == pg[p].next
           ch == InsertAfter(chain, c, r)
           L == Len(chain)
           D == 0..hd.next
<1>0. hd.next \in Nat /\ DOMAIN pg = 0..hd.next - 1 /\ r \notin DOMAIN pg /\ None \notin DOMAIN pg /\ r # None
  <2>1. hd.next \in Nat /\ DOMAIN pg = 0..hd.next - 1 /\ None \notin DOMAIN pg
    BY PagesAre
  <2>2. r \notin DOMAIN pg /\ r # None
    BY <2>1 DEF None
  <2> QED
    BY <2>1, <2>2
<1>p. p \in DOMAIN pg
  BY DEF LeafHalved
<1>1. /\ L \in Nat /\ DOMAIN chain = 1..L /\ L <= hd.next
      /\ \A i \in DOMAIN chain :
           /\ chain[i] \in DOMAIN pg /\ pg[chain[i]].leaf
           /\ pg[chain[i]].next = IF i = L THEN None ELSE chain[i + 1]
           /\ pg[chain[i]].prev = IF i = 1 THEN None ELSE chain[i - 1]
      /\ \A i, j \in DOMAIN chain : chain[i] = chain[j] => i = j
      /\ \A x \in DOMAIN pg : pg[x].leaf => \E i \in DOMAIN chain : chain[i] = x
  <2> HIDE DEF D, ch, r, n
  <2>1. L \in Nat /\ DOMAIN chain = 1..L /\ L <= hd.next
    BY ChainIs
  <2>2. \A i \in DOMAIN chain :
           /\ chain[i] \in DOMAIN pg /\ pg[chain[i]].leaf
           /\ pg[chain[i]].next = IF i = L THEN None ELSE chain[i + 1]
           /\ pg[chain[i]].prev = IF i = 1 THEN None ELSE chain[i - 1]
    BY ChainIs
  <2>3. \A i, j \in DOMAIN chain : chain[i] = chain[j] => i = j
    BY ChainIs
  <2>4. \A x \in DOMAIN pg : pg[x].leaf => \E i \in DOMAIN chain : chain[i] = x
    BY ChainIs
  <2> QED
    BY <2>1, <2>2, <2>3, <2>4
<1>2. /\ DOMAIN pg2 = D
      /\ \A x \in DOMAIN pg :
           /\ pg2[x].leaf = pg[x].leaf
           /\ pg2[x].prev = IF x = n THEN r ELSE pg[x].prev
           /\ pg2[x].next = IF x = p THEN r ELSE pg[x].next
      /\ pg2[r].leaf = TRUE /\ pg2[r].prev = p /\ pg2[r].next = n
  BY DEF LeafHalved
<1>3. c \in Nat /\ c >= 1 /\ c <= L /\ c \in 0..L
  BY <1>1
<1>4. chain \in Seq(D) /\ r \in D /\ \A x \in DOMAIN pg : x \in D
  <2>1. r \in D /\ \A x \in DOMAIN pg : x \in D
    BY <1>0
  <2>2. chain \in Seq(DOMAIN pg)
    BY DEF Chained
  <2> HIDE DEF D, r
  <2> QED
    BY <2>1, <2>2
<1>d. \A x \in D : x \in DOMAIN pg \/ x = r
  BY <1>0
<1> HIDE DEF D, r, n
<1>5. /\ ch \in Seq(D) /\ Len(ch) = L + 1
      /\ \A j \in 1..L + 1 : ch[j] = IF j <= c THEN chain[j] ELSE IF j = c + 1 THEN r ELSE chain[j - 1]
  BY <1>3, <1>4, InsertAfterIs
<1> HIDE DEF ch, L
<1>6. DOMAIN ch = 1..L + 1
  BY <1>1, <1>5
<1>7. n = IF c = L THEN None ELSE chain[c + 1]
  BY <1>1, <1>p DEF n
<1>8. ASSUME NEW i \in DOMAIN ch
      PROVE  /\ pg2[ch[i]].leaf
             /\ pg2[ch[i]].next = IF i = Len(ch) THEN None ELSE ch[i + 1]
             /\ pg2[ch[i]].prev = IF i = 1 THEN None ELSE ch[i - 1]
  <2>0. i \in Int /\ i >= 1 /\ i <= L + 1
    BY <1>1, <1>6
  <2>1. CASE i <= c
    <3> DEFINE x == chain[i]
    <3>1. i \in DOMAIN chain /\ ch[i] = x
      BY <1>1, <1>3, <1>5, <2>0, <2>1
    <3>2. x \in DOMAIN pg /\ pg[x].leaf /\ pg[x].prev = IF i = 1 THEN None ELSE chain[i - 1]
      BY <1>1, <3>1
    <3>3. x # n
      <4>1. CASE c = L
        BY <1>0, <1>7, <3>2, <4>1
      <4>2. CASE c # L
        <5>1. c + 1 \in DOMAIN chain /\ c + 1 # i
          BY <1>1, <1>3, <2>0, <2>1, <4>2
        <5> QED
          BY <1>1, <1>7, <3>1, <4>2, <5>1
      <4> QED
        BY <4>1, <4>2
    <3>4. pg2[x].prev = IF i = 1 THEN None ELSE ch[i - 1]
      <4>1. i # 1 => ch[i - 1] = chain[i - 1]
        BY <1>1, <1>3, <1>5, <2>0, <2>1
      <4> QED
        BY <1>2, <3>2, <3>3, <4>1
    <3>5. pg2[x].next = IF i = Len(ch) THEN None ELSE ch[i + 1]
      <4>1. CASE i = c
        <5>1. x = p /\ i # Len(ch) /\ ch[i + 1] = r
          BY <1>1, <1>3, <1>5, <4>1
        <5> QED
          BY <1>2, <3>2, <5>1
      <4>2. CASE i # c
        <5>1. x # p
          BY <1>1, <3>1, <4>2
        <5>2. i # Len(ch) /\ ch[i + 1] = chain[i + 1] /\ i # L
          BY <1>1, <1>3, <1>5, <2>0, <2>1, <4>2
        <5>3. pg[x].next = chain[i + 1]
          BY <1>1, <3>1, <5>2
        <5> QED
          BY <1>2, <3>2, <5>1, <5>2, <5>3
      <4> QED
        BY <4>1, <4>2
    <3> QED
      BY <1>2, <3>1, <3>2, <3>4, <3>5
  <2>2. CASE i = c + 1
    <3>1. ch[i] = r /\ i # 1 /\ ch[i - 1] = p
      BY <1>1, <1>3, <1>5, <2>0, <2>2
    <3>2. n = IF i = Len(ch) THEN None ELSE ch[i + 1]
      <4>1. CASE c = L
        <5>1. i = Len(ch)
          BY <1>1, <1>3, <1>5, <2>2, <4>1
        <5> QED
          BY <1>7, <4>1, <5>1
      <4>2. CASE c # L
        <5>1. i \in 1..L /\ i # L + 1 /\ i + 1 \in 1..L + 1 /\ ~ (i + 1 <= c) /\ i + 1 # c + 1 /\ (i + 1) - 1 = c + 1
          BY <1>1, <1>3, <2>2, <4>2
        <5>2. ch[i + 1] = chain[(i + 1) - 1]
          BY <1>5, <5>1
        <5>3. i # Len(ch) /\ ch[i + 1] = chain[c + 1]
          BY <1>5, <5>1, <5>2
        <5> QED
          BY <1>7, <4>2, <5>3
      <4> QED
        BY <4>1, <4>2
    <3> QED
      BY <1>2, <3>1, <3>2
  <2>3. CASE i > c + 1
    <3> DEFINE x == chain[i - 1]
    <3>1. i - 1 \in DOMAIN chain /\ ch[i] = x /\ i - 1 # c /\ i # 1 /\ i - 1 # 1
      BY <1>1, <1>3, <1>5, <2>0, <2>3
    <3>2. /\ x \in DOMAIN pg /\ pg[x].leaf /\ x # p
          /\ pg[x].next = IF i - 1 = L THEN None ELSE chain[i - 1 + 1]
          /\ pg[x].prev = chain[i - 1 - 1]
      BY <1>1, <3>1
    <3>3. pg2[x].next = IF i = Len(ch) THEN None ELSE ch[i + 1]
      <4>1. CASE i = L + 1
        BY <1>1, <1>2, <1>5, <2>0, <3>2, <4>1
      <4>2. CASE i # L + 1
        <5>1. i - 1 # L /\ i # Len(ch) /\ ch[i + 1] = chain[i] /\ i - 1 + 1 = i
          BY <1>1, <1>3, <1>5, <2>0, <2>3, <4>2
        <5> QED
          BY <1>2, <3>2, <5>1
      <4> QED
        BY <4>1, <4>2
    <3>4. pg2[x].prev = ch[i - 1]
      <4>1. CASE i = c + 2
        <5>1. c # L /\ x = chain[c + 1] /\ ch[i - 1] = r
          BY <1>1, <1>3, <1>5, <2>0, <4>1
        <5> QED
          BY <1>2, <1>7, <3>2, <5>1
      <4>2. CASE i # c + 2
        <5>1. x # n
          <6>1. CASE c = L
            BY <1>0, <1>7, <3>2, <6>1
          <6>2. CASE c # L
            <7>1. c + 1 \in DOMAIN chain /\ c + 1 # i - 1
              BY <1>1, <1>3, <2>0, <4>2, <6>2
            <7> QED
              BY <1>1, <1>7, <3>1, <6>2, <7>1
          <6> QED
            BY <6>1, <6>2
        <5>2. ch[i - 1] = chain[i - 1 - 1]
          BY <1>1, <1>3, <1>5, <2>0, <2>3, <4>2
        <5> QED
          BY <1>2, <3>2, <5>1, <5>2
      <4> QED
        BY <4>1, <4>2
    <3> QED
      BY <1>2, <3>1, <3>2, <3>3, <3>4
  <2> QED
    BY <1>3, <2>0, <2>1, <2>2, <2>3
<1>9. ASSUME NEW i \in DOMAIN ch, NEW j \in DOMAIN ch, ch[i] = ch[j] PROVE i = j
  <2> DEFINE at(m) == IF m <= c THEN m ELSE m - 1
  <2>1. \A m \in DOMAIN ch : m # c + 1 => at(m) \in DOMAIN chain /\ ch[m] = chain[at(m)]
    BY <1>1, <1>3, <1>5, <1>6
  <2>2. ch[c + 1] = r /\ c + 1 \in DOMAIN ch
    BY <1>1, <1>3, <1>5, <1>6
  <2>3. \A m \in DOMAIN ch : m # c + 1 => ch[m] # r
    BY <1>0, <1>1, <2>1
  <2>4. CASE i = c + 1 \/ j = c + 1
    BY <1>9, <2>2, <2>3, <2>4
  <2>5. CASE i # c + 1 /\ j # c + 1
    <3>1. at(i) = at(j)
      BY <1>1, <1>9, <2>1, <2>5
    <3> QED
      BY <1>1, <1>3, <1>6, <2>5, <3>1
  <2> QED
    BY <2>4, <2>5
<1>10. ASSUME NEW x \in D, pg2[x].leaf PROVE \E i \in DOMAIN ch : ch[i] = x
  <2>1. CASE x = r
    <3>1. c + 1 \in DOMAIN ch /\ ch[c + 1] = r
      BY <1>1, <1>3, <1>5, <1>6
    <3> QED
      BY <2>1, <3>1
  <2>2. CASE x \in DOMAIN pg
    <3>1. PICK i \in DOMAIN chain : chain[i] = x
      BY <1>1, <1>2, <1>10, <2>2
    <3>2. CASE i <= c
      <4>1. i \in DOMAIN ch /\ ch[i] = chain[i]
        BY <1>1, <1>3, <1>5, <1>6, <3>2
      <4> QED
        BY <3>1, <4>1
    <3>3. CASE i > c
      <4>1. i + 1 \in DOMAIN ch /\ ch[i + 1] = chain[i]
        BY <1>1, <1>3, <1>5, <1>6, <3>3
      <4> QED
        BY <3>1, <4>1
    <3> QED
      BY <1>1, <1>3, <3>2, <3>3
  <2> QED
    BY <1>d, <2>1, <2>2
<1>11. Len(ch) <= hd2.next
  BY <1>0, <1>1, <1>5
<1>12. Chained(pg2, hd2, ch)
  BY <1>2, <1>5, <1>8, <1>9, <1>10, <1>11 DEF Chained
<1> QED
  BY <1>12 DEF ch, r

\* A halved leaf: the ranges of the leaves still ascend along the chain.
LEMMA HalveAscends ==
  ASSUME NEW pg, NEW pg2, NEW hd, NEW p, NEW h, NEW chain, NEW c, NEW lo, NEW hi, NEW lo2, NEW hi2,
         LeafHalved(pg, pg2, hd, p, h), Pages(pg, hd), Ordered(pg), Ranges(pg, lo, hi),
         Chained(pg, hd, chain), Ascends(pg, lo, hi, chain),
         RangesHalved(pg, hd, p, lo, hi, lo2, hi2), c \in DOMAIN chain, chain[c] = p
  PROVE  Ascends(pg2, lo2, hi2, InsertAfter(chain, c, hd.next))
<1> DEFINE r == hd.next
           ch == InsertAfter(chain, c, r)
           L == Len(chain)
           D == 0..hd.next
           es == pg[p].entries
           a == pg2[p].entries
           b == pg2[r].entries
<1>0. hd.next \in Nat /\ DOMAIN pg = 0..hd.next - 1 /\ r \notin DOMAIN pg
  <2>1. hd.next \in Nat /\ DOMAIN pg = 0..hd.next - 1
    BY PagesAre
  <2>2. r \notin DOMAIN pg
    BY <2>1
  <2> QED
    BY <2>1, <2>2
<1>p. p \in DOMAIN pg /\ pg[p].leaf
  BY DEF LeafHalved
<1>k. /\ hi2[p] = lo2[r] /\ hi2[r] = hi[p] /\ lo2[r] \subseteq lo[p] /\ hi[p] \subseteq lo2[r]
      /\ \A x \in DOMAIN pg : lo2[x] = lo[x]
      /\ \A x \in DOMAIN pg : x # p => hi2[x] = hi[x]
  BY DEF RangesHalved
<1>1. /\ L \in Nat /\ DOMAIN chain = 1..L
      /\ \A i \in DOMAIN chain : chain[i] \in DOMAIN pg /\ pg[chain[i]].leaf
      /\ \A i, j \in DOMAIN chain : chain[i] = chain[j] => i = j
  BY ChainIs
<1>3. c \in Nat /\ c >= 1 /\ c <= L /\ c \in 0..L
  BY <1>1
<1>4. chain \in Seq(D) /\ r \in D
  <2>1. r \in D /\ \A x \in DOMAIN pg : x \in D
    BY <1>0
  <2>2. chain \in Seq(DOMAIN pg)
    BY DEF Chained
  <2> HIDE DEF D, r
  <2> QED
    BY <2>1, <2>2
<1> HIDE DEF D
<1>5. /\ Len(ch) = L + 1
      /\ \A j \in 1..L + 1 : ch[j] = IF j <= c THEN chain[j] ELSE IF j = c + 1 THEN r ELSE chain[j - 1]
  <2> HIDE DEF r
  <2>1. /\ ch \in Seq(D) /\ Len(ch) = Len(chain) + 1
        /\ \A j \in 1..Len(chain) + 1 : ch[j] = IF j <= c THEN chain[j] ELSE IF j = c + 1 THEN r ELSE chain[j - 1]
    BY <1>3, <1>4, InsertAfterIs
  <2> QED
    BY <2>1
<1>6. /\ h \in Int
      /\ \A j \in DOMAIN a : j \in Int /\ j \in DOMAIN es /\ j <= h /\ a[j] = es[j]
      /\ \A j \in DOMAIN b : j \in Int /\ h + j \in DOMAIN es /\ j >= 1 /\ b[j] = es[h + j]
      /\ \A x \in DOMAIN pg : x # p => pg2[x].entries = pg[x].entries
  BY HalfEntries
<1>7. \A i, j \in DOMAIN es : i < j => Less(es[i], es[j])
  BY <1>p DEF Ordered
<1>8. \A i, j \in DOMAIN chain : i < j =>
        /\ lo[chain[j]] \subseteq hi[chain[i]]
        /\ \A x \in DOMAIN pg[chain[i]].entries : \A y \in DOMAIN pg[chain[j]].entries :
             Less(pg[chain[i]].entries[x], pg[chain[j]].entries[y])
  BY DEF Ascends
<1>9. DOMAIN ch = 1..L + 1
  <2>1. ch \in Seq(D)
    <3> HIDE DEF r
    <3> QED
      BY <1>3, <1>4, InsertAfterIs
  <2> HIDE DEF ch
  <2> QED
    BY <1>5, <2>1, SeqIs
<1>c. \A x \in DOMAIN a, y \in DOMAIN b : Less(a[x], b[y])
  <2> SUFFICES ASSUME NEW x \in DOMAIN a, NEW y \in DOMAIN b PROVE Less(a[x], b[y])
    OBVIOUS
  <2> HIDE DEF a, b, es
  <2>1. x < h + y /\ x \in DOMAIN es /\ h + y \in DOMAIN es /\ a[x] = es[x] /\ b[y] = es[h + y]
    BY <1>6
  <2> QED
    BY <1>7, <2>1
<1> HIDE DEF ch, L
\* Where a leaf was in the chain, and where its entries were.
<1> DEFINE at(m) == IF m <= c THEN m ELSE m - 1
<1>10. \A m \in DOMAIN ch :
         /\ at(m) \in DOMAIN chain /\ m \in Int /\ at(m) \in Int
         /\ m = c + 1 => ch[m] = r /\ at(m) = c
         /\ m # c + 1 => ch[m] = chain[at(m)] /\ (m = c <=> at(m) = c)
  BY <1>1, <1>3, <1>5, <1>9
<1>11. \A i, j \in DOMAIN ch : i < j => at(i) < at(j) \/ (i = c /\ j = c + 1)
  BY <1>3, <1>10
<1> HIDE DEF at
<1>12. \A m \in DOMAIN ch :
         /\ lo2[ch[m]] \subseteq lo[chain[at(m)]]
         /\ hi[chain[at(m)]] \subseteq hi2[ch[m]]
         /\ \A x \in DOMAIN pg2[ch[m]].entries :
              \E y \in DOMAIN pg[chain[at(m)]].entries : pg2[ch[m]].entries[x] = pg[chain[at(m)]].entries[y]
  <2> SUFFICES ASSUME NEW m \in DOMAIN ch
               PROVE  /\ lo2[ch[m]] \subseteq lo[chain[at(m)]]
                      /\ hi[chain[at(m)]] \subseteq hi2[ch[m]]
                      /\ \A x \in DOMAIN pg2[ch[m]].entries :
                           \E y \in DOMAIN pg[chain[at(m)]].entries : pg2[ch[m]].entries[x] = pg[chain[at(m)]].entries[y]
    OBVIOUS
  <2>1. CASE m = c + 1
    <3>1. ch[m] = r /\ chain[at(m)] = p
      BY <1>10, <2>1
    <3>2. \A x \in DOMAIN b : \E y \in DOMAIN es : b[x] = es[y]
      BY <1>6
    <3> QED
      BY <1>k, <1>p, <3>1, <3>2
  <2>2. CASE m # c + 1 /\ m = c
    <3>1. ch[m] = p /\ chain[at(m)] = p
      BY <1>10, <2>2
    <3>2. \A x \in DOMAIN a : \E y \in DOMAIN es : a[x] = es[y]
      BY <1>6
    <3> QED
      BY <1>k, <1>p, <3>1, <3>2
  <2>3. CASE m # c + 1 /\ m # c
    <3>1. ch[m] = chain[at(m)] /\ ch[m] \in DOMAIN pg /\ ch[m] # p
      BY <1>1, <1>10, <2>3
    <3>2. pg2[ch[m]].entries = pg[ch[m]].entries
      BY <1>6, <3>1
    <3> QED
      BY <1>k, <1>p, <3>1, <3>2
  <2> QED
    BY <2>1, <2>2, <2>3
<1>13. ASSUME NEW i \in DOMAIN ch, NEW j \in DOMAIN ch, i < j
       PROVE  /\ lo2[ch[j]] \subseteq hi2[ch[i]]
              /\ \A x \in DOMAIN pg2[ch[i]].entries : \A y \in DOMAIN pg2[ch[j]].entries :
                   Less(pg2[ch[i]].entries[x], pg2[ch[j]].entries[y])
  <2>1. CASE i = c /\ j = c + 1
    <3>1. ch[i] = p /\ ch[j] = r
      BY <1>3, <1>10, <2>1
    <3>2. lo2[r] \subseteq hi2[p]
      BY <1>k
    <3> QED
      BY <1>c, <3>1, <3>2
  <2>2. CASE at(i) < at(j)
    <3>1. /\ lo[chain[at(j)]] \subseteq hi[chain[at(i)]]
          /\ \A x \in DOMAIN pg[chain[at(i)]].entries : \A y \in DOMAIN pg[chain[at(j)]].entries :
               Less(pg[chain[at(i)]].entries[x], pg[chain[at(j)]].entries[y])
      BY <1>8, <1>10, <2>2
    <3>2. /\ lo2[ch[j]] \subseteq lo[chain[at(j)]] /\ hi[chain[at(i)]] \subseteq hi2[ch[i]]
      BY <1>12
    <3>3. \A x \in DOMAIN pg2[ch[i]].entries :
              \E y \in DOMAIN pg[chain[at(i)]].entries : pg2[ch[i]].entries[x] = pg[chain[at(i)]].entries[y]
      BY <1>12
    <3>4. \A x \in DOMAIN pg2[ch[j]].entries :
              \E y \in DOMAIN pg[chain[at(j)]].entries : pg2[ch[j]].entries[x] = pg[chain[at(j)]].entries[y]
      BY <1>12
    <3>5. \A x \in DOMAIN pg2[ch[i]].entries : \A y \in DOMAIN pg2[ch[j]].entries :
            Less(pg2[ch[i]].entries[x], pg2[ch[j]].entries[y])
      BY <3>1, <3>3, <3>4
    <3> QED
      BY <3>1, <3>2, <3>5
  <2> QED
    BY <1>11, <1>13, <2>1, <2>2
<1> QED
  BY <1>13 DEF Ascends, ch, r

\* A leaf halved: both halves are found in its place until the parent knows.
LEMMA HalveLeaf ==
  ASSUME NEW pg, NEW hd, NEW level, NEW lo, NEW hi, NEW chain, NEW s, NEW held,
         Tree(pg, hd, level, lo, hi, chain, None, None, s, held),
         NEW pg2, NEW hd2, NEW p, NEW h, LeafHalved(pg, pg2, hd, p, h),
         hd2.magic = TRUE, hd2.root = hd.root, hd2.next = hd.next + 1
  PROVE  \E level2, lo2, hi2, chain2 :
           Tree(pg2, hd2, level2, lo2, hi2, chain2, p, hd.next, pg[p].entries[h + 1], held)
<1> DEFINE r == hd.next
           D == DOMAIN pg
           es == pg[p].entries
           t == es[h + 1]
           K == AtLeast(t[1])
           level2 == Put(level, r, 0)
           lo2 == Put(lo, r, K)
           hi2 == Put(Put(hi, p, K), r, hi[p])
<1>0. /\ Pages(pg, hd) /\ Levels(pg, hd, level, None, None) /\ Kids(pg, level) /\ Parents(pg, hd, None, None)
      /\ Ordered(pg) /\ Ranges(pg, lo, hi) /\ Parted(pg, hd, lo, hi, None, None)
      /\ Chained(pg, hd, chain) /\ Ascends(pg, lo, hi, chain) /\ Holds(pg, held)
  BY TreeIs
<1>1. hd.next \in Nat /\ D = 0..hd.next - 1 /\ hd.root \in D /\ hd.magic = TRUE
  BY <1>0, PagesAre
<1>p. p \in D /\ pg[p].leaf
  BY DEF LeafHalved
<1>2. r \notin D /\ r \in Nat /\ hd2.next - 1 = hd.next /\ hd2.next \in Nat
  BY <1>p, <1>1
<1>3. \A x : x \in 0..hd.next <=> x \in D \/ x = r
  BY <1>p, <1>1
<1>f. /\ pg2 \in [0..hd.next -> NodeType] /\ DOMAIN pg2 = 0..hd.next
      /\ \A x \in D :
           pg2[x].leaf = pg[x].leaf /\ pg2[x].kids = pg[x].kids /\ pg2[x].parent = pg[x].parent
      /\ pg2[r].leaf = TRUE /\ pg2[r].kids = <<>> /\ pg2[r].parent = pg[p].parent
  BY DEF LeafHalved
<1>w. /\ \A x \in D : level[x] < level[hd.root] \/ x = hd.root
      /\ \A x \in D :
           IF pg[x].parent = None THEN x = hd.root
           ELSE pg[x].parent \in D /\ ~ pg[pg[x].parent].leaf /\ IsKid(pg, x, pg[x].parent)
      /\ \A x \in D : Upper(hi, x, None, None) = hi[x]
  BY WholeTree
<1>e. /\ es \in Seq(KeySet \X Nat) /\ h \in Int /\ h \in DOMAIN es /\ h + 1 \in DOMAIN es
      /\ \A i \in DOMAIN es : i \in Int /\ es[i] \in KeySet \X Nat /\ es[i][1] \in Int /\ es[i][2] \in Int
      /\ \A j \in DOMAIN pg2[p].entries :
           j \in Int /\ j \in DOMAIN es /\ j <= h /\ pg2[p].entries[j] = es[j]
      /\ \A j \in DOMAIN pg2[r].entries :
           j \in Int /\ h + j \in DOMAIN es /\ j >= 1 /\ pg2[r].entries[j] = es[h + j]
      /\ \A e : Occurs(es, e) <=> Occurs(pg2[p].entries, e) \/ Occurs(pg2[r].entries, e)
      /\ \A x \in D : x # p => pg2[x].entries = pg[x].entries
  <2> HIDE DEF D, es, t, K, level2, lo2, hi2, r
  <2>0. LeafHalved(pg, pg2, hd, p, h) /\ Pages(pg, hd)
    BY <1>p, <1>0
  <2>1. pg[p].entries \in Seq(KeySet \X Nat)
    BY <2>0, HalfEntries
  <2>2. h \in Int /\ h \in DOMAIN pg[p].entries
    BY <2>0, HalfEntries
  <2>3. h + 1 \in DOMAIN pg[p].entries
    BY <2>0, HalfEntries
  <2>4. \A i \in DOMAIN pg[p].entries :
          /\ i \in Int /\ pg[p].entries[i] \in KeySet \X Nat
          /\ pg[p].entries[i][1] \in Int /\ pg[p].entries[i][2] \in Int
    BY <2>0, HalfEntries
  <2>5. \A j \in DOMAIN pg2[p].entries :
          j \in Int /\ j \in DOMAIN pg[p].entries /\ j <= h /\ pg2[p].entries[j] = pg[p].entries[j]
    BY <2>0, HalfEntries
  <2>6. \A j \in DOMAIN pg2[hd.next].entries :
          /\ j \in Int /\ h + j \in DOMAIN pg[p].entries /\ j >= 1
          /\ pg2[hd.next].entries[j] = pg[p].entries[h + j]
    BY <2>0, HalfEntries
  <2>7. \A e : Occurs(pg[p].entries, e) <=> Occurs(pg2[p].entries, e) \/ Occurs(pg2[hd.next].entries, e)
    BY <2>0, HalfEntries
  <2>8. \A x \in DOMAIN pg : x # p => pg2[x].entries = pg[x].entries
    BY <2>0, HalfEntries
  <2> QED
    BY <2>1, <2>2, <2>3, <2>4, <2>5, <2>6, <2>7, <2>8 DEF es, r, D
<1>t. t \in KeySet \X Nat /\ t[1] \in Int
  BY <1>p, <1>e
<1>k. K \in UpSets /\ K \subseteq Int /\ \A m : m \in K <=> m \in Int /\ t[1] <= m
  BY <1>p, <1>t, AtLeastIs
<1>o. \A i, j \in DOMAIN es : i < j => Less(es[i], es[j])
  BY <1>p, <1>0 DEF Ordered
<1>a. \A i \in DOMAIN es : (i <= h => es[i][1] <= t[1]) /\ (i >= h + 1 => t[1] <= es[i][1])
  <2> SUFFICES ASSUME NEW i \in DOMAIN es PROVE (i <= h => es[i][1] <= t[1]) /\ (i >= h + 1 => t[1] <= es[i][1])
    OBVIOUS
  <2>1. i \in Int /\ es[i][1] \in Int /\ es[i][2] \in Int /\ t[2] \in Int
    BY <1>p, <1>e
  <2>2. (i < h + 1 => Less(es[i], t)) /\ (h + 1 < i => Less(t, es[i]))
    BY <1>p, <1>e, <1>o
  <2>3. i = h + 1 => es[i] = t
    OBVIOUS
  <2> HIDE DEF es, t
  <2> QED
    BY <1>p, <1>e, <1>t, <2>1, <2>2, <2>3, SMTT(60) DEF Less
<1>l. level \in [D -> Nat] /\ level[hd.root] < hd.next /\ \A x \in D : level[x] \in Nat /\ (pg[x].leaf <=> level[x] = 0)
  BY <1>p, <1>0 DEF Levels
<1>r. /\ lo \in [D -> UpSets] /\ hi \in [D -> UpSets]
      /\ \A x \in D :
           /\ hi[x] \subseteq lo[x] /\ lo[x] \subseteq Int
           /\ \A i \in DOMAIN pg[x].entries :
                pg[x].entries[i][1] \in lo[x] /\ \A k \in hi[x] : pg[x].entries[i][1] <= k
  <2>1. lo \in [D -> UpSets] /\ hi \in [D -> UpSets]
    BY <1>p, <1>0 DEF Ranges
  <2>2. \A x \in D : lo[x] \subseteq Int
    BY <2>1 DEF UpSets
  <2>3. \A x \in D :
           /\ hi[x] \subseteq lo[x]
           /\ \A i \in DOMAIN pg[x].entries :
                pg[x].entries[i][1] \in lo[x] /\ \A k \in hi[x] : pg[x].entries[i][1] <= k
    BY <1>p, <1>0 DEF Ranges, Key
  <2> QED
    BY <2>1, <2>2, <2>3
<1>s. K \subseteq lo[p] /\ hi[p] \subseteq K
  <2>1. t[1] \in lo[p] /\ \A k \in hi[p] : t[1] <= k
    BY <1>p, <1>e, <1>r
  <2>2. \A u \in lo[p], v \in Int : u <= v => v \in lo[p]
    BY <1>p, <1>r DEF UpSets
  <2>3. hi[p] \subseteq Int
    BY <1>p, <1>r
  <2> HIDE DEF t, K
  <2> QED
    BY <1>p, <1>k, <2>1, <2>2, <2>3
<1>g. /\ DOMAIN level2 = 0..hd.next /\ DOMAIN lo2 = 0..hd.next /\ DOMAIN hi2 = 0..hd.next
      /\ level2 \in [0..hd.next -> Nat] /\ lo2 \in [0..hd.next -> UpSets] /\ hi2 \in [0..hd.next -> UpSets]
      /\ level2[r] = 0 /\ lo2[r] = K /\ hi2[r] = hi[p]
      /\ \A x \in D : level2[x] = level[x] /\ lo2[x] = lo[x] /\ hi2[x] = IF x = p THEN K ELSE hi[x]
  <2>1. D \cup {r} = 0..hd.next /\ D \cup {p} = D
    BY <1>p, <1>3
  <2>2. 0 \in Nat /\ hi[p] \in UpSets
    BY <1>p, <1>r
  <2>d. DOMAIN level = D /\ DOMAIN lo = D /\ DOMAIN hi = D
    BY <1>p, <1>l, <1>r
  <2> HIDE DEF D, K, r
  <2>3. level2 \in [0..hd.next -> Nat] /\ DOMAIN level2 = 0..hd.next /\ \A x \in D \cup {r} : level2[x] = IF x = r THEN 0 ELSE level[x]
    <3>1. level2 \in [D \cup {r} -> Nat]
      BY <1>p, <1>l, <2>2, PutType
    <3>2. DOMAIN level2 = DOMAIN level \cup {r} /\ \A x \in DOMAIN level \cup {r} : level2[x] = IF x = r THEN 0 ELSE level[x]
      BY DEF Put
    <3> QED
      BY <2>1, <2>d, <3>1, <3>2
  <2>4. lo2 \in [0..hd.next -> UpSets] /\ DOMAIN lo2 = 0..hd.next /\ \A x \in D \cup {r} : lo2[x] = IF x = r THEN K ELSE lo[x]
    <3>1. lo2 \in [D \cup {r} -> UpSets]
      BY <1>p, <1>k, <1>r, PutType
    <3>2. DOMAIN lo2 = DOMAIN lo \cup {r} /\ \A x \in DOMAIN lo \cup {r} : lo2[x] = IF x = r THEN K ELSE lo[x]
      BY DEF Put
    <3> QED
      BY <2>1, <2>d, <3>1, <3>2
  <2> DEFINE hi1 == Put(hi, p, K)
  <2>5. hi1 \in [D -> UpSets] /\ DOMAIN hi1 = D /\ \A x \in D : hi1[x] = IF x = p THEN K ELSE hi[x]
    <3>1. hi1 \in [D \cup {p} -> UpSets]
      BY <1>p, <1>k, <1>r, PutType
    <3>2. DOMAIN hi1 = DOMAIN hi \cup {p} /\ \A x \in DOMAIN hi \cup {p} : hi1[x] = IF x = p THEN K ELSE hi[x]
      BY DEF Put
    <3> QED
      BY <2>1, <2>d, <3>1, <3>2
  <2>h. hi2 = Put(hi1, r, hi[p])
    OBVIOUS
  <2> HIDE DEF hi1, hi2
  <2>6. hi2 \in [0..hd.next -> UpSets] /\ DOMAIN hi2 = 0..hd.next /\ \A x \in D \cup {r} : hi2[x] = IF x = r THEN hi[p] ELSE hi1[x]
    <3>1. hi2 \in [D \cup {r} -> UpSets]
      BY <2>2, <2>5, <2>h, PutType
    <3>2. DOMAIN hi2 = DOMAIN hi1 \cup {r} /\ \A x \in DOMAIN hi1 \cup {r} : hi2[x] = IF x = r THEN hi[p] ELSE hi1[x]
      BY <2>h DEF Put
    <3> QED
      BY <2>1, <2>5, <3>1, <3>2
  <2> HIDE DEF level2, lo2
  <2> QED
    BY <1>p, <1>2, <2>3, <2>4, <2>5, <2>6 DEF r, D
<1> HIDE DEF level2, lo2, hi2, K, t, r
<1>5. Pages(pg2, hd2)
  <2>1. hd2.root \in 0..hd.next /\ pg2[hd2.root].parent = None
    BY <1>p, <1>0, <1>1, <1>3, <1>f DEF Pages
  <2> QED
    BY <1>p, <1>2, <1>f, <2>1 DEF Pages
<1>6. Levels(pg2, hd2, level2, p, r)
  <2>1. level2[hd.root] < hd2.next
    BY <1>p, <1>1, <1>g, <1>l
  <2>2. ASSUME NEW x \in D
        PROVE  (pg2[x].leaf <=> level2[x] = 0) /\ (level2[x] < level2[hd.root] \/ x = hd.root)
    <3>1. level2[x] = level[x] /\ level2[hd.root] = level[hd.root]
      <4>1. hd.root \in D
        BY <1>1
      <4>2. \A z \in D : level2[z] = level[z]
        BY <1>g
      <4> QED
        BY <4>1, <4>2
    <3>2. pg2[x].leaf <=> level[x] = 0
      <4>1. x \in DOMAIN pg /\ pg2[x].leaf = pg[x].leaf
        BY <1>p, <1>1, <1>f
      <4> QED
        BY <1>l, <4>1
    <3>3. level[x] < level[hd.root] \/ x = hd.root
      BY <1>w
    <3> QED
      BY <3>1, <3>2, <3>3
  <2>3. level2[r] < level2[hd.root] \/ p = hd.root
    <3>1. CASE p = hd.root
      BY <3>1
    <3>2. CASE p # hd.root
      <4>1. level[p] = 0 /\ level[p] < level[hd.root]
        BY <1>p, <1>l, <1>w, <3>2
      <4> QED
        BY <1>p, <1>1, <1>g, <4>1
    <3> QED
      BY <3>1, <3>2
  <2> QED
    BY <1>p, <1>3, <1>f, <1>g, <2>1, <2>2, <2>3 DEF Levels
<1>7. \A x \in 0..hd.next : ~ pg2[x].leaf => x \in D /\ x # p /\ ~ pg[x].leaf /\ pg2[x].entries = pg[x].entries /\ pg2[x].kids = pg[x].kids
  BY <1>p, <1>3, <1>e, <1>f
<1>8. \A x \in D : ~ pg[x].leaf => \A i \in DOMAIN pg[x].kids : pg[x].kids[i] \in D
  BY <1>p, <1>0 DEF Kids
<1>9. Kids(pg2, level2)
  <2> SUFFICES ASSUME NEW x \in 0..hd.next, ~ pg2[x].leaf
               PROVE  /\ Len(pg2[x].kids) = Len(pg2[x].entries) + 1
                      /\ \A i \in DOMAIN pg2[x].kids :
                           /\ pg2[x].kids[i] \in 0..hd.next
                           /\ pg2[pg2[x].kids[i]].parent = x /\ level2[pg2[x].kids[i]] + 1 = level2[x]
                      /\ \A i, j \in DOMAIN pg2[x].kids : pg2[x].kids[i] = pg2[x].kids[j] => i = j
    BY <1>p, <1>f DEF Kids
  <2>1. x \in D /\ ~ pg[x].leaf /\ pg2[x].entries = pg[x].entries /\ pg2[x].kids = pg[x].kids
    BY <1>p, <1>7
  <2>2. /\ Len(pg[x].kids) = Len(pg[x].entries) + 1
        /\ \A i \in DOMAIN pg[x].kids :
             /\ pg[x].kids[i] \in D
             /\ pg[pg[x].kids[i]].parent = x /\ level[pg[x].kids[i]] + 1 = level[x]
        /\ \A i, j \in DOMAIN pg[x].kids : pg[x].kids[i] = pg[x].kids[j] => i = j
    BY <1>p, <1>0, <2>1 DEF Kids
  <2>3. \A i \in DOMAIN pg[x].kids :
             /\ pg[x].kids[i] \in 0..hd.next
             /\ pg2[pg[x].kids[i]].parent = x /\ level2[pg[x].kids[i]] + 1 = level2[x]
    <3> SUFFICES ASSUME NEW i \in DOMAIN pg[x].kids
                 PROVE  /\ pg[x].kids[i] \in 0..hd.next
                        /\ pg2[pg[x].kids[i]].parent = x /\ level2[pg[x].kids[i]] + 1 = level2[x]
      OBVIOUS
    <3> DEFINE y == pg[x].kids[i]
    <3>1. y \in D /\ pg[y].parent = x /\ level[y] + 1 = level[x]
      BY <2>2
    <3> HIDE DEF y
    <3>2. y \in 0..hd.next
      BY <1>p, <1>3, <3>1
    <3>3. pg2[y].parent = x
      BY <1>p, <1>f, <3>1
    <3>4. level2[y] = level[y] /\ level2[x] = level[x]
      BY <1>p, <1>g, <2>1, <3>1
    <3> QED
      BY <3>1, <3>2, <3>3, <3>4 DEF y
  <2> QED
    BY <2>1, <2>2, <2>3
<1>10. \A x, y \in D : IsKid(pg, y, x) => IsKid(pg2, y, x)
  BY <1>p, <1>f DEF IsKid
<1>11. Parents(pg2, hd2, p, r)
  <2> SUFFICES ASSUME NEW x \in 0..hd.next
               PROVE  IF pg2[x].parent = None
                        THEN x = hd.root \/ (x = r /\ p = hd.root)
                        ELSE /\ pg2[x].parent \in 0..hd.next /\ ~ pg2[pg2[x].parent].leaf
                             /\ x = r \/ IsKid(pg2, x, pg2[x].parent)
    BY <1>p, <1>f DEF Parents
  <2>1. CASE x \in D
    <3>1. pg2[x].parent = pg[x].parent
      BY <1>p, <1>f, <2>1
    <3> QED
      BY <1>p, <1>3, <1>10, <1>f, <1>w, <2>1, <3>1
  <2>2. CASE x = r
    BY <1>p, <1>3, <1>f, <1>w, <2>2
  <2> QED
    BY <1>p, <1>3, <2>1, <2>2
<1>12. Ordered(pg2)
  <2> SUFFICES ASSUME NEW x \in 0..hd.next, NEW i \in DOMAIN pg2[x].entries, NEW j \in DOMAIN pg2[x].entries, i < j
               PROVE  IF pg2[x].leaf THEN Less(pg2[x].entries[i], pg2[x].entries[j]) ELSE Key(pg2[x], i) <= Key(pg2[x], j)
    BY <1>p, <1>f DEF Ordered
  <2>1. CASE x = r
    <3>1. h + i < h + j /\ h + i \in DOMAIN es /\ h + j \in DOMAIN es
      BY <1>p, <1>e, <2>1
    <3>2. pg2[x].entries[i] = es[h + i] /\ pg2[x].entries[j] = es[h + j]
      BY <1>p, <1>e, <2>1
    <3> HIDE DEF es
    <3> QED
      BY <1>p, <1>f, <1>o, <2>1, <3>1, <3>2
  <2>2. CASE x = p
    <3>1. pg2[x].entries[i] = es[i] /\ pg2[x].entries[j] = es[j] /\ i \in DOMAIN es /\ j \in DOMAIN es
      BY <1>p, <1>e, <2>2
    <3> HIDE DEF es
    <3> QED
      BY <1>p, <1>f, <1>o, <2>2, <3>1
  <2>3. CASE x \in D /\ x # p
    <3>1. pg2[x].entries = pg[x].entries /\ pg2[x].leaf = pg[x].leaf
      BY <1>p, <1>e, <1>f, <2>3
    <3> QED
      BY <1>p, <1>0, <2>3, <3>1 DEF Ordered, Key
  <2> QED
    BY <1>p, <1>3, <2>1, <2>2, <2>3
<1>13. Ranges(pg2, lo2, hi2)
  <2> SUFFICES ASSUME NEW x \in 0..hd.next
               PROVE  /\ hi2[x] \subseteq lo2[x]
                      /\ \A i \in DOMAIN pg2[x].entries :
                           pg2[x].entries[i][1] \in lo2[x] /\ \A k \in hi2[x] : pg2[x].entries[i][1] <= k
    BY <1>p, <1>f, <1>g DEF Ranges, Key
  <2>1. CASE x = r
    <3>1. hi2[x] = hi[p] /\ lo2[x] = K
      BY <1>p, <1>g, <2>1
    <3>2. ASSUME NEW i \in DOMAIN pg2[x].entries
          PROVE  pg2[x].entries[i][1] \in K /\ \A k \in hi[p] : pg2[x].entries[i][1] <= k
      <4>1. h + i \in DOMAIN es /\ pg2[x].entries[i] = es[h + i] /\ h + i >= h + 1
        BY <1>p, <1>e, <2>1
      <4> DEFINE m == h + i
      <4> HIDE DEF m
      <4>2. m \in DOMAIN es /\ pg2[x].entries[i] = es[m] /\ m >= h + 1
        BY <4>1 DEF m
      <4> QED
        BY <1>p, <1>a, <1>e, <1>k, <1>r, <4>2
    <3> QED
      BY <1>p, <1>s, <3>1, <3>2
  <2>2. CASE x = p
    <3>1. hi2[x] = K /\ lo2[x] = lo[p]
      BY <1>p, <1>g, <2>2
    <3>2. ASSUME NEW i \in DOMAIN pg2[x].entries
          PROVE  pg2[x].entries[i][1] \in lo[p] /\ \A k \in K : pg2[x].entries[i][1] <= k
      <4>1. i \in DOMAIN es /\ pg2[x].entries[i] = es[i] /\ i <= h
        BY <1>p, <1>e, <2>2
      <4>2. es[i][1] \in lo[p] /\ es[i][1] <= t[1] /\ es[i][1] \in Int
        BY <1>p, <1>a, <1>e, <1>r, <4>1
      <4> HIDE DEF es
      <4> QED
        BY <1>p, <1>k, <1>t, <4>1, <4>2
    <3> QED
      BY <1>p, <1>s, <3>1, <3>2
  <2>3. CASE x \in D /\ x # p
    <3>1. pg2[x].entries = pg[x].entries /\ hi2[x] = hi[x] /\ lo2[x] = lo[x]
      BY <1>p, <1>e, <1>g, <2>3
    <3> QED
      BY <1>p, <1>r, <2>3, <3>1
  <2> QED
    BY <1>p, <1>3, <2>1, <2>2, <2>3
<1>u. \A x \in D : Upper(hi2, x, p, r) = hi[x]
  BY <1>p, <1>2, <1>g DEF Upper, r
<1>14. Parted(pg2, hd2, lo2, hi2, p, r)
  <2>1. lo2[hd2.root] = Int /\ Upper(hi2, hd2.root, p, r) = {}
    BY <1>p, <1>0, <1>1, <1>g, <1>u, <1>w DEF Parted
  <2>2. ASSUME NEW x \in 0..hd.next, ~ pg2[x].leaf, NEW i \in DOMAIN pg2[x].kids
        PROVE  /\ lo2[pg2[x].kids[i]] = IF i = 1 THEN lo2[x] ELSE AtLeast(Key(pg2[x], i - 1))
               /\ Upper(hi2, pg2[x].kids[i], p, r) = IF i = Len(pg2[x].kids) THEN hi2[x] ELSE AtLeast(Key(pg2[x], i))
    <3>1. x \in D /\ ~ pg[x].leaf /\ pg2[x].entries = pg[x].entries /\ pg2[x].kids = pg[x].kids /\ x # p
      BY <1>p, <1>7, <2>2
    <3>2. pg[x].kids[i] \in D
      BY <1>p, <1>8, <2>2, <3>1
    <3>3. /\ lo[pg[x].kids[i]] = IF i = 1 THEN lo[x] ELSE AtLeast(Key(pg[x], i - 1))
          /\ Upper(hi, pg[x].kids[i], None, None) = IF i = Len(pg[x].kids) THEN hi[x] ELSE AtLeast(Key(pg[x], i))
      BY <1>p, <1>0, <2>2, <3>1 DEF Parted
    <3>4. \A m : Key(pg2[x], m) = Key(pg[x], m)
      BY <3>1 DEF Key
    <3>5. lo2[x] = lo[x] /\ hi2[x] = hi[x] /\ lo2[pg[x].kids[i]] = lo[pg[x].kids[i]]
      BY <1>p, <1>g, <3>1, <3>2
    <3>6. Upper(hi2, pg[x].kids[i], p, r) = Upper(hi, pg[x].kids[i], None, None)
      BY <1>p, <1>u, <1>w, <3>2
    <3> QED
      BY <3>1, <3>3, <3>4, <3>5, <3>6
  <2> QED
    BY <1>p, <1>f, <2>1, <2>2 DEF Parted
<1>15. Halved(pg2, hd2, level2, lo2, hi2, p, r, t)
  <2>1. \A x \in 0..hd.next : ~ pg2[x].leaf => ~ IsKid(pg2, r, x)
    BY <1>p, <1>2, <1>7, <1>8 DEF IsKid, r
  <2>2. p \in 0..hd.next /\ r \in 0..hd.next /\ p # r /\ r # hd.root
    BY <1>p, <1>1, <1>2, <1>3 DEF r
  <2>3. level2[r] = level2[p] /\ pg2[r].parent = pg2[p].parent
    BY <1>p, <1>f, <1>g, <1>l
  <2>4. hi2[p] = AtLeast(t[1]) /\ lo2[r] = AtLeast(t[1])
    BY <1>p, <1>g DEF K
  <2> QED
    BY <1>p, <1>f, <1>t, <2>1, <2>2, <2>3, <2>4 DEF Halved
<1>16. PICK c \in DOMAIN chain : chain[c] = p
  BY <1>p, <1>0, ChainIs
<1> DEFINE chain2 == InsertAfter(chain, c, r)
<1>17. Chained(pg2, hd2, chain2)
  BY <1>p, <1>0, <1>16, HalveChained DEF r
<1>18. Ascends(pg2, lo2, hi2, chain2)
  <2>1. RangesHalved(pg, hd, p, lo, hi, lo2, hi2)
    BY <1>g, <1>p, <1>s DEF r, RangesHalved
  <2>2. /\ LeafHalved(pg, pg2, hd, p, h) /\ Pages(pg, hd) /\ Ordered(pg) /\ Ranges(pg, lo, hi)
        /\ Chained(pg, hd, chain) /\ Ascends(pg, lo, hi, chain)
    BY <1>p, <1>0
  <2> HIDE DEF D, es, chain2
  <2>3. Ascends(pg2, lo2, hi2, InsertAfter(chain, c, hd.next))
    BY <1>16, <2>1, <2>2, HalveAscends
  <2> QED
    BY <2>3 DEF r, chain2
<1>19. Holds(pg2, held)
  <2> SUFFICES ASSUME NEW e PROVE e \in held <=> \E x \in 0..hd.next : pg2[x].leaf /\ Occurs(pg2[x].entries, e)
    BY <1>p, <1>f DEF Holds
  <2>1. e \in held <=> \E x \in D : pg[x].leaf /\ Occurs(pg[x].entries, e)
    BY <1>p, <1>0 DEF Holds
  <2>2. ASSUME NEW x \in D, pg[x].leaf, Occurs(pg[x].entries, e)
        PROVE  \E y \in 0..hd.next : pg2[y].leaf /\ Occurs(pg2[y].entries, e)
    <3>1. CASE x = p
      <4>1. Occurs(pg2[p].entries, e) \/ Occurs(pg2[r].entries, e)
        BY <1>p, <1>e, <2>2, <3>1
      <4> QED
        BY <1>p, <1>3, <1>f, <2>2, <3>1, <4>1
    <3>2. CASE x # p
      <4>1. pg2[x].leaf /\ Occurs(pg2[x].entries, e) /\ x \in 0..hd.next
        BY <1>p, <1>3, <1>e, <1>f, <2>2, <3>2
      <4> QED
        BY <1>p, <4>1
    <3> QED
      BY <3>1, <3>2
  <2>3. ASSUME NEW x \in 0..hd.next, pg2[x].leaf, Occurs(pg2[x].entries, e)
        PROVE  \E y \in D : pg[y].leaf /\ Occurs(pg[y].entries, e)
    <3>1. CASE x = p \/ x = r
      <4>1. Occurs(es, e)
        BY <1>p, <1>e, <2>3, <3>1
      <4> QED
        BY <1>p, <4>1
    <3>2. CASE x # p /\ x # r
      <4>1. x \in D /\ pg[x].leaf /\ Occurs(pg[x].entries, e)
        BY <1>p, <1>3, <1>e, <1>f, <2>3, <3>2
      <4> QED
        BY <1>p, <4>1
    <3> QED
      BY <3>1, <3>2
  <2> QED
    BY <2>1, <2>2, <2>3
<1>20. Tree(pg2, hd2, level2, lo2, hi2, chain2, p, r, t, held)
  <2> HIDE DEF chain2
  <2> QED
    BY <1>p, <1>5, <1>6, <1>9, <1>11, <1>12, <1>13, <1>14, <1>15, <1>17, <1>18, <1>19 DEF Tree
<1> QED
  <2>1. \E level3, lo3, hi3, chain3 : Tree(pg2, hd2, level3, lo3, hi3, chain3, p, r, t, held)
    <3> HIDE DEF chain2
    <3> QED
      BY <1>p, <1>20
  <2> QED
    BY <2>1 DEF r, t

\* What only changes pages above the leaves keeps their chain and what they hold.
SameLeaves(pg, pg2, lo, hi, lo2, hi2) ==
  /\ DOMAIN pg \subseteq DOMAIN pg2
  /\ \A x \in DOMAIN pg2 : pg2[x].leaf => x \in DOMAIN pg /\ pg[x].leaf
  /\ \A x \in DOMAIN pg : pg[x].leaf =>
       /\ pg2[x].leaf /\ pg2[x].entries = pg[x].entries /\ pg2[x].next = pg[x].next /\ pg2[x].prev = pg[x].prev
       /\ lo2[x] = lo[x] /\ hi2[x] = hi[x]

\* What leaves the leaves alone keeps their chain and what they hold.
LEMMA LeavesKept ==
  ASSUME NEW pg, NEW hd, NEW pg2, NEW hd2, NEW lo, NEW hi, NEW lo2, NEW hi2, NEW chain, NEW held,
         SameLeaves(pg, pg2, lo, hi, lo2, hi2), Pages(pg, hd), hd2.next \in Nat, hd.next <= hd2.next,
         Chained(pg, hd, chain), Ascends(pg, lo, hi, chain), Holds(pg, held)
  PROVE  Chained(pg2, hd2, chain) /\ Ascends(pg2, lo2, hi2, chain) /\ Holds(pg2, held)
<1>1. /\ DOMAIN pg \subseteq DOMAIN pg2
      /\ \A x \in DOMAIN pg2 : pg2[x].leaf => x \in DOMAIN pg /\ pg[x].leaf
      /\ \A x \in DOMAIN pg : pg[x].leaf =>
           /\ pg2[x].leaf /\ pg2[x].entries = pg[x].entries /\ pg2[x].next = pg[x].next /\ pg2[x].prev = pg[x].prev
           /\ lo2[x] = lo[x] /\ hi2[x] = hi[x]
  BY DEF SameLeaves
<1>2. /\ Len(chain) \in Nat /\ Len(chain) <= hd.next /\ hd.next \in Nat
      /\ \A i \in DOMAIN chain : chain[i] \in DOMAIN pg /\ pg[chain[i]].leaf
  BY ChainIs, PagesAre
<1>3. /\ \A i \in DOMAIN chain :
           /\ pg[chain[i]].next = IF i = Len(chain) THEN None ELSE chain[i + 1]
           /\ pg[chain[i]].prev = IF i = 1 THEN None ELSE chain[i - 1]
  BY ChainIs
<1>4. Chained(pg2, hd2, chain)
  <2>1. chain \in Seq(DOMAIN pg2)
    <3>1. chain \in Seq(DOMAIN pg)
      BY DEF Chained
    <3> QED
      BY <1>1, <3>1
  <2>2. Len(chain) <= hd2.next
    BY <1>2
  <2>3. \A i \in DOMAIN chain :
           /\ pg2[chain[i]].leaf
           /\ pg2[chain[i]].next = IF i = Len(chain) THEN None ELSE chain[i + 1]
           /\ pg2[chain[i]].prev = IF i = 1 THEN None ELSE chain[i - 1]
    BY <1>1, <1>2, <1>3
  <2>4. /\ \A i, j \in DOMAIN chain : chain[i] = chain[j] => i = j
        /\ \A x \in DOMAIN pg2 : pg2[x].leaf => \E i \in DOMAIN chain : chain[i] = x
    BY <1>1 DEF Chained
  <2> QED
    BY <2>1, <2>2, <2>3, <2>4 DEF Chained
<1>5. Ascends(pg2, lo2, hi2, chain)
  <2> SUFFICES ASSUME NEW i \in DOMAIN chain, NEW j \in DOMAIN chain, i < j
               PROVE  /\ lo2[chain[j]] \subseteq hi2[chain[i]]
                      /\ \A x \in DOMAIN pg2[chain[i]].entries : \A y \in DOMAIN pg2[chain[j]].entries :
                           Less(pg2[chain[i]].entries[x], pg2[chain[j]].entries[y])
    BY DEF Ascends
  <2>1. /\ lo[chain[j]] \subseteq hi[chain[i]]
        /\ \A x \in DOMAIN pg[chain[i]].entries : \A y \in DOMAIN pg[chain[j]].entries :
             Less(pg[chain[i]].entries[x], pg[chain[j]].entries[y])
    BY DEF Ascends
  <2> QED
    BY <1>1, <1>2, <2>1
<1>6. Holds(pg2, held)
  <2> SUFFICES ASSUME NEW e PROVE e \in held <=> \E x \in DOMAIN pg2 : pg2[x].leaf /\ Occurs(pg2[x].entries, e)
    BY DEF Holds
  <2>1. e \in held <=> \E x \in DOMAIN pg : pg[x].leaf /\ Occurs(pg[x].entries, e)
    BY DEF Holds
  <2> QED
    BY <1>1, <2>1
<1> QED
  BY <1>4, <1>5, <1>6

\* The split of l into l and r entered behind the i-th child of their parent q.
ParentEntered(pg, pg2, q, i, l, r, s) ==
  /\ q \in DOMAIN pg /\ ~ pg[q].leaf /\ i \in DOMAIN pg[q].kids /\ pg[q].kids[i] = l /\ pg[l].parent = q
  /\ l # None /\ pg2 \in [DOMAIN pg -> NodeType]
  /\ \A x \in DOMAIN pg :
       /\ pg2[x].leaf = pg[x].leaf /\ pg2[x].parent = pg[x].parent
       /\ pg2[x].prev = pg[x].prev /\ pg2[x].next = pg[x].next
       /\ pg2[x].entries = IF x = q THEN InsertAfter(pg[q].entries, i - 1, s) ELSE pg[x].entries
       /\ pg2[x].kids = IF x = q THEN InsertAfter(pg[q].kids, i, r) ELSE pg[x].kids

\* The keys and children of the parent before and after.
LEMMA ParentIs ==
  ASSUME NEW pg, NEW hd, NEW level, NEW lo, NEW hi, NEW pg2, NEW q, NEW i, NEW l, NEW r, NEW s,
         ParentEntered(pg, pg2, q, i, l, r, s), Pages(pg, hd), Kids(pg, level), Halved(pg, hd, level, lo, hi, l, r, s)
  PROVE  LET n == Len(pg[q].entries)
         IN  /\ n \in Nat /\ i \in Nat /\ i >= 1 /\ i <= n + 1 /\ s \in KeySet \X Nat
             /\ DOMAIN pg[q].entries = 1..n /\ DOMAIN pg[q].kids = 1..n + 1 /\ Len(pg[q].kids) = n + 1
             /\ DOMAIN pg2[q].entries = 1..n + 1 /\ DOMAIN pg2[q].kids = 1..n + 2
             /\ Len(pg2[q].entries) = n + 1 /\ Len(pg2[q].kids) = n + 2
             /\ \A j \in 1..n + 1 :
                  pg2[q].entries[j] = IF j < i THEN pg[q].entries[j] ELSE IF j = i THEN s ELSE pg[q].entries[j - 1]
             /\ \A j \in 1..n + 2 :
                  pg2[q].kids[j] = IF j <= i THEN pg[q].kids[j] ELSE IF j = i + 1 THEN r ELSE pg[q].kids[j - 1]
<1> DEFINE n == Len(pg[q].entries)
           es == pg[q].entries
           ks == pg[q].kids
           i1 == i - 1
           U == Nat
           T == KeySet \X Nat
<1>1. q \in DOMAIN pg /\ ~ pg[q].leaf /\ i \in DOMAIN ks /\ l # None
  BY DEF ParentEntered
<1>2. pg2[q].entries = InsertAfter(es, i1, s) /\ pg2[q].kids = InsertAfter(ks, i, r)
  BY DEF ParentEntered
<1>3. es \in Seq(T) /\ ks \in Seq(U)
  BY <1>1, PagesAre
<1>4. Len(ks) = n + 1
  BY <1>1 DEF Kids
<1>5. s \in T /\ r \in DOMAIN pg
  BY <1>1 DEF Halved
<1>6. r \in U
  BY <1>5, PagesAre
<1>n. n = Len(es)
  OBVIOUS
<1>i. i1 = i - 1
  OBVIOUS
<1> HIDE DEF T, U, es, ks, n, i1
<1>7. n \in Nat /\ DOMAIN es = 1..n /\ DOMAIN ks = 1..n + 1
  BY <1>3, <1>4, <1>n, SeqIs
<1>8. i \in Nat /\ i >= 1 /\ i <= n + 1 /\ i1 \in 0..Len(es) /\ i \in 0..Len(ks)
  BY <1>1, <1>4, <1>7, <1>i, <1>n
<1>9. /\ InsertAfter(es, i1, s) \in Seq(T) /\ Len(InsertAfter(es, i1, s)) = Len(es) + 1
      /\ \A j \in 1..Len(es) + 1 :
           InsertAfter(es, i1, s)[j] = IF j <= i1 THEN es[j] ELSE IF j = i1 + 1 THEN s ELSE es[j - 1]
  BY <1>3, <1>5, <1>8, InsertAfterIs
<1>10. /\ InsertAfter(ks, i, r) \in Seq(U) /\ Len(InsertAfter(ks, i, r)) = Len(ks) + 1
       /\ \A j \in 1..Len(ks) + 1 :
            InsertAfter(ks, i, r)[j] = IF j <= i THEN ks[j] ELSE IF j = i + 1 THEN r ELSE ks[j - 1]
  BY <1>3, <1>6, <1>8, InsertAfterIs
<1>11. DOMAIN pg2[q].entries = 1..n + 1 /\ DOMAIN pg2[q].kids = 1..n + 2 /\ Len(pg2[q].entries) = n + 1 /\ Len(pg2[q].kids) = n + 2
  <2>1. Len(es) + 1 = n + 1 /\ Len(ks) + 1 = n + 2
    BY <1>4, <1>7, <1>n
  <2> QED
    BY <1>2, <1>9, <1>10, <2>1, SeqIs
<1>12. \A j \in 1..n + 1 : pg2[q].entries[j] = IF j < i THEN es[j] ELSE IF j = i THEN s ELSE es[j - 1]
  BY <1>2, <1>7, <1>8, <1>9, <1>i, <1>n
<1>13. \A j \in 1..n + 2 : pg2[q].kids[j] = IF j <= i THEN ks[j] ELSE IF j = i + 1 THEN r ELSE ks[j - 1]
  BY <1>2, <1>4, <1>7, <1>8, <1>10
<1> QED
  BY <1>4, <1>5, <1>7, <1>8, <1>11, <1>12, <1>13 DEF n, es, ks, T

\* The halves of a split that the parent does not know yet.
LEMMA HalvesAre ==
  ASSUME NEW pg, NEW hd, NEW level, NEW lo, NEW hi, NEW chain, NEW l, NEW r, NEW s, NEW held,
         NEW pg2, NEW q, NEW i,
         Tree(pg, hd, level, lo, hi, chain, l, r, s, held), ParentEntered(pg, pg2, q, i, l, r, s)
  PROVE  LET n == Len(pg[q].entries)
         IN  /\ l \in DOMAIN pg /\ r \in DOMAIN pg /\ l # r /\ r # hd.root /\ l # hd.root
             /\ level[r] = level[l] /\ level[l] + 1 = level[q] /\ level[l] < level[hd.root]
             /\ level[l] \in Nat /\ level[hd.root] \in Nat /\ level[q] \in Nat
             /\ pg[r].parent = q /\ pg[l].parent = q
             /\ s[1] \in Int /\ hi[l] = AtLeast(s[1]) /\ lo[r] = AtLeast(s[1])
             /\ hi[l] \subseteq lo[l] /\ hi[r] \subseteq lo[r]
             /\ lo[l] = IF i = 1 THEN lo[q] ELSE AtLeast(pg[q].entries[i - 1][1])
             /\ hi[r] = IF i = n + 1 THEN hi[q] ELSE AtLeast(pg[q].entries[i][1])
             /\ \A x \in DOMAIN pg : ~ pg[x].leaf => ~ IsKid(pg, r, x)
<1> DEFINE es == pg[q].entries
           n == Len(es)
<1>0. /\ Pages(pg, hd) /\ Levels(pg, hd, level, l, r) /\ Kids(pg, level)
      /\ Ranges(pg, lo, hi) /\ Parted(pg, hd, lo, hi, l, r) /\ Halved(pg, hd, level, lo, hi, l, r, s)
  BY TreeIs
<1>1. q \in DOMAIN pg /\ ~ pg[q].leaf /\ i \in DOMAIN pg[q].kids /\ pg[q].kids[i] = l /\ pg[l].parent = q /\ l # None
  BY DEF ParentEntered
<1>2. /\ l \in DOMAIN pg /\ r \in DOMAIN pg /\ l # r /\ r # hd.root
      /\ level[r] = level[l] /\ pg[r].parent = pg[l].parent
      /\ s \in KeySet \X Nat /\ hi[l] = AtLeast(s[1]) /\ lo[r] = AtLeast(s[1])
      /\ \A p \in DOMAIN pg : ~ pg[p].leaf => ~ IsKid(pg, r, p)
  BY <1>0, <1>1 DEF Halved
<1>3. l # hd.root
  <2>1. pg[hd.root].parent = None /\ q # None
    BY <1>0, <1>1, PagesAre DEF Pages
  <2> QED
    BY <1>1, <2>1
<1>4. level[l] + 1 = level[q]
  BY <1>0, <1>1 DEF Kids
<1>5. \A x \in DOMAIN pg : level[x] \in Nat /\ (level[x] < level[hd.root] \/ x = hd.root)
  BY <1>0, <1>3 DEF Levels
<1>6. level[hd.root] \in Nat
  BY <1>0, <1>5, PagesAre
<1>7. level[l] < level[hd.root]
  BY <1>1, <1>2, <1>4, <1>5, <1>6
<1>8. hi[l] \subseteq lo[l] /\ hi[r] \subseteq lo[r]
  BY <1>0, <1>2 DEF Ranges
<1>9. s[1] \in Int
  BY <1>2, EntryIs
<1>10. Len(pg[q].kids) = n + 1
  BY <1>0, <1>1 DEF Kids
<1>11. /\ lo[pg[q].kids[i]] = IF i = 1 THEN lo[q] ELSE AtLeast(Key(pg[q], i - 1))
       /\ Upper(hi, pg[q].kids[i], l, r) = IF i = Len(pg[q].kids) THEN hi[q] ELSE AtLeast(Key(pg[q], i))
  <2> HIDE DEF n, es
  <2> QED
    BY <1>0, <1>1 DEF Parted
<1>12. lo[l] = IF i = 1 THEN lo[q] ELSE AtLeast(es[i - 1][1])
  BY <1>1, <1>11 DEF Key
<1>13. hi[r] = IF i = n + 1 THEN hi[q] ELSE AtLeast(es[i][1])
  BY <1>1, <1>10, <1>11 DEF Key, Upper
<1> QED
  BY <1>1, <1>2, <1>3, <1>4, <1>5, <1>6, <1>7, <1>8, <1>9, <1>12, <1>13

\* The children of the parent.
LEMMA ParentKids ==
  ASSUME NEW pg, NEW hd, NEW level, NEW lo, NEW hi, NEW chain, NEW l, NEW r, NEW s, NEW held,
         NEW pg2, NEW q, NEW i,
         Tree(pg, hd, level, lo, hi, chain, l, r, s, held), ParentEntered(pg, pg2, q, i, l, r, s)
  PROVE  Kids(pg2, level)
<1> DEFINE n == Len(pg[q].entries)
           ks == pg[q].kids
           k2 == pg2[q].kids
<1>0. Pages(pg, hd) /\ Kids(pg, level) /\ Halved(pg, hd, level, lo, hi, l, r, s)
  BY TreeIs
<1>1. /\ q \in DOMAIN pg /\ ~ pg[q].leaf /\ DOMAIN pg2 = DOMAIN pg
      /\ \A x \in DOMAIN pg : pg2[x].leaf = pg[x].leaf /\ pg2[x].parent = pg[x].parent
      /\ \A x \in DOMAIN pg : x # q => pg2[x].entries = pg[x].entries /\ pg2[x].kids = pg[x].kids
  BY DEF ParentEntered
<1>2. /\ n \in Nat /\ i \in Nat /\ i >= 1 /\ i <= n + 1 /\ DOMAIN ks = 1..n + 1
      /\ DOMAIN k2 = 1..n + 2 /\ Len(pg2[q].entries) = n + 1 /\ Len(k2) = n + 2
      /\ \A j \in 1..n + 2 : k2[j] = IF j <= i THEN ks[j] ELSE IF j = i + 1 THEN r ELSE ks[j - 1]
  BY <1>0, ParentIs
<1>3. r \in DOMAIN pg /\ pg[r].parent = q /\ level[r] + 1 = level[q] /\ ~ IsKid(pg, r, q)
  <2>1. r \in DOMAIN pg /\ pg[r].parent = q
    BY HalvesAre
  <2>2. level[r] = level[l] /\ level[l] + 1 = level[q]
    BY HalvesAre
  <2>3. \A x \in DOMAIN pg : ~ pg[x].leaf => ~ IsKid(pg, r, x)
    BY HalvesAre
  <2> QED
    BY <1>1, <2>1, <2>2, <2>3
<1>4. \A x \in DOMAIN pg : ~ pg[x].leaf =>
        /\ Len(pg[x].kids) = Len(pg[x].entries) + 1
        /\ \A j \in DOMAIN pg[x].kids :
             /\ pg[x].kids[j] \in DOMAIN pg
             /\ pg[pg[x].kids[j]].parent = x /\ level[pg[x].kids[j]] + 1 = level[x]
        /\ \A j, m \in DOMAIN pg[x].kids : pg[x].kids[j] = pg[x].kids[m] => j = m
  BY <1>0 DEF Kids
<1>5. \A j \in DOMAIN ks : ks[j] \in DOMAIN pg /\ pg[ks[j]].parent = q /\ level[ks[j]] + 1 = level[q] /\ ks[j] # r
  BY <1>1, <1>3, <1>4 DEF IsKid
<1>6. \A j, m \in DOMAIN ks : ks[j] = ks[m] => j = m
  BY <1>1, <1>4
<1> SUFFICES ASSUME NEW x \in DOMAIN pg, ~ pg[x].leaf
             PROVE  /\ Len(pg2[x].kids) = Len(pg2[x].entries) + 1
                    /\ \A j \in DOMAIN pg2[x].kids :
                         /\ pg2[x].kids[j] \in DOMAIN pg
                         /\ pg2[pg2[x].kids[j]].parent = x /\ level[pg2[x].kids[j]] + 1 = level[x]
                    /\ \A j, m \in DOMAIN pg2[x].kids : pg2[x].kids[j] = pg2[x].kids[m] => j = m
  BY <1>1 DEF Kids
<1> HIDE DEF n, ks, k2
<1>7. CASE x = q
  <2>1. \A j \in DOMAIN k2 : (k2[j] = r /\ j = i + 1) \/ \E m \in DOMAIN ks : k2[j] = ks[m] /\ j = IF m <= i THEN m ELSE m + 1
    <3> SUFFICES ASSUME NEW j \in DOMAIN k2, j # i + 1
                 PROVE  \E m \in DOMAIN ks : k2[j] = ks[m] /\ j = IF m <= i THEN m ELSE m + 1
      BY <1>2
    <3>1. CASE j <= i
      <4>1. j \in DOMAIN ks /\ k2[j] = ks[j]
        BY <1>2, <3>1
      <4> QED
        BY <3>1, <4>1
    <3>2. CASE j > i + 1
      <4>1. j - 1 \in DOMAIN ks /\ k2[j] = ks[j - 1] /\ ~ (j - 1 <= i) /\ (j - 1) + 1 = j
        BY <1>2, <3>2
      <4> QED
        BY <4>1
    <3> QED
      BY <1>2, <3>1, <3>2
  <2>2. \A j \in DOMAIN k2 : k2[j] \in DOMAIN pg /\ pg[k2[j]].parent = q /\ level[k2[j]] + 1 = level[q]
    BY <1>3, <1>5, <2>1
  <2>3. \A j, m \in DOMAIN k2 : k2[j] = k2[m] => j = m
    <3> SUFFICES ASSUME NEW j \in DOMAIN k2, NEW m \in DOMAIN k2, k2[j] = k2[m] PROVE j = m
      OBVIOUS
    <3>1. CASE k2[j] = r
      BY <1>5, <2>1, <3>1
    <3>2. CASE k2[j] # r
      <4>1. PICK a \in DOMAIN ks : k2[j] = ks[a] /\ j = IF a <= i THEN a ELSE a + 1
        BY <2>1, <3>2
      <4>2. PICK b \in DOMAIN ks : k2[m] = ks[b] /\ m = IF b <= i THEN b ELSE b + 1
        BY <2>1, <3>2
      <4>3. a = b
        BY <1>6, <4>1, <4>2
      <4> QED
        BY <4>1, <4>2, <4>3
    <3> QED
      BY <3>1, <3>2
  <2>4. Len(k2) = Len(pg2[q].entries) + 1
    BY <1>2
  <2>5. \A j \in DOMAIN k2 : pg2[k2[j]].parent = q
    BY <1>1, <2>2
  <2> QED
    BY <1>7, <2>2, <2>3, <2>4, <2>5 DEF k2
<1>8. CASE x # q
  <2>1. pg2[x].kids = pg[x].kids /\ pg2[x].entries = pg[x].entries
    BY <1>1, <1>8
  <2>2. \A j \in DOMAIN pg[x].kids :
             /\ pg[x].kids[j] \in DOMAIN pg
             /\ pg2[pg[x].kids[j]].parent = x /\ level[pg[x].kids[j]] + 1 = level[x]
    <3> SUFFICES ASSUME NEW j \in DOMAIN pg[x].kids
                 PROVE  /\ pg[x].kids[j] \in DOMAIN pg
                        /\ pg2[pg[x].kids[j]].parent = x /\ level[pg[x].kids[j]] + 1 = level[x]
      OBVIOUS
    <3> DEFINE y == pg[x].kids[j]
    <3>1. y \in DOMAIN pg /\ pg[y].parent = x /\ level[y] + 1 = level[x]
      BY <1>4
    <3> HIDE DEF y
    <3>2. pg2[y].parent = x
      BY <1>1, <3>1
    <3> QED
      BY <3>1, <3>2 DEF y
  <2> QED
    BY <1>4, <2>1, <2>2
<1> QED
  BY <1>7, <1>8

\* The key of the split between those of the parent.
LEMMA SplitKey ==
  ASSUME NEW pg, NEW hd, NEW level, NEW lo, NEW hi, NEW chain, NEW l, NEW r, NEW s, NEW held,
         NEW pg2, NEW q, NEW i,
         Tree(pg, hd, level, lo, hi, chain, l, r, s, held), ParentEntered(pg, pg2, q, i, l, r, s)
  PROVE  LET es == pg[q].entries
         IN  /\ \A j \in DOMAIN es : es[j][1] \in Int /\ es[j][1] \in lo[q] /\ \A k \in hi[q] : es[j][1] <= k
             /\ \A j, m \in DOMAIN es : j < m => es[j][1] <= es[m][1]
             /\ \A j \in DOMAIN es : (j < i => es[j][1] <= s[1]) /\ (j >= i => s[1] <= es[j][1])
             /\ s[1] \in lo[q] /\ \A k \in hi[q] : s[1] <= k
<1> DEFINE es == pg[q].entries
           n == Len(es)
           t == s[1]
<1>0. Pages(pg, hd) /\ Kids(pg, level) /\ Halved(pg, hd, level, lo, hi, l, r, s) /\ Ordered(pg) /\ Ranges(pg, lo, hi)
  BY TreeIs
<1>1. q \in DOMAIN pg /\ ~ pg[q].leaf
  BY DEF ParentEntered
<1>2. n \in Nat /\ i \in Nat /\ i >= 1 /\ i <= n + 1 /\ DOMAIN es = 1..n
  BY <1>0, ParentIs
<1>3. \A j \in DOMAIN es : es[j][1] \in Int
  <2>1. es \in Seq(KeySet \X Nat)
    BY <1>0, <1>1, PagesAre
  <2> HIDE DEF es
  <2> QED
    BY <2>1, KeyIs
<1>4. \A j \in DOMAIN es : es[j][1] \in lo[q] /\ \A k \in hi[q] : es[j][1] <= k
  BY <1>0, <1>1 DEF Ranges, Key
<1>5. \A j, m \in DOMAIN es : j < m => es[j][1] <= es[m][1]
  BY <1>0, <1>1 DEF Ordered, Key
<1>6. /\ t \in Int /\ hi[l] = AtLeast(t) /\ lo[r] = AtLeast(t)
      /\ hi[l] \subseteq lo[l] /\ hi[r] \subseteq lo[r]
      /\ lo[l] = IF i = 1 THEN lo[q] ELSE AtLeast(es[i - 1][1])
      /\ hi[r] = IF i = n + 1 THEN hi[q] ELSE AtLeast(es[i][1])
  <2>1. t \in Int /\ hi[l] = AtLeast(t) /\ lo[r] = AtLeast(t)
    BY HalvesAre
  <2>2. hi[l] \subseteq lo[l] /\ hi[r] \subseteq lo[r]
    BY HalvesAre
  <2>3. lo[l] = IF i = 1 THEN lo[q] ELSE AtLeast(es[i - 1][1])
    BY HalvesAre
  <2>4. hi[r] = IF i = n + 1 THEN hi[q] ELSE AtLeast(es[i][1])
    BY HalvesAre
  <2> QED
    BY <2>1, <2>2, <2>3, <2>4
<1>u. lo[q] \in UpSets /\ hi[q] \in UpSets
  BY <1>0, <1>1 DEF Ranges
<1> HIDE DEF t, es, n
<1>7. t \in lo[l] /\ \A k \in hi[r] : t <= k
  <2>1. t \in AtLeast(t) /\ \A k \in AtLeast(t) : t <= k
    BY <1>6, AtLeastIs
  <2> QED
    BY <1>6, <2>1
<1>8. i # 1 => i - 1 \in DOMAIN es /\ es[i - 1][1] <= t
  <2> SUFFICES ASSUME i # 1 PROVE i - 1 \in DOMAIN es /\ es[i - 1][1] <= t
    OBVIOUS
  <2> DEFINE m == i - 1
  <2>1. m \in DOMAIN es
    BY <1>2
  <2>2. t \in AtLeast(es[m][1])
    BY <1>6, <1>7
  <2> HIDE DEF m
  <2>3. es[m][1] <= t
    BY <1>3, <2>1, <2>2, AtLeastIs
  <2> QED
    BY <2>1, <2>3 DEF m
<1>9. i # n + 1 => i \in DOMAIN es /\ t <= es[i][1]
  <2> SUFFICES ASSUME i # n + 1 PROVE i \in DOMAIN es /\ t <= es[i][1]
    OBVIOUS
  <2>1. i \in DOMAIN es
    BY <1>2
  <2>2. es[i][1] \in AtLeast(es[i][1])
    BY <1>3, <2>1, AtLeastIs
  <2> QED
    BY <1>6, <1>7, <2>1, <2>2
<1>10. ASSUME NEW j \in DOMAIN es PROVE (j < i => es[j][1] <= t) /\ (j >= i => t <= es[j][1])
  <2>1. ASSUME j < i PROVE es[j][1] <= t
    <3>1. i # 1 /\ (j = i - 1 \/ j < i - 1)
      BY <1>2, <2>1
    <3> DEFINE m == i - 1
    <3>2. m \in DOMAIN es /\ es[m][1] <= t /\ (j = m \/ j < m)
      BY <1>8, <3>1
    <3> HIDE DEF m
    <3>3. es[j][1] <= es[m][1] /\ es[j][1] \in Int /\ es[m][1] \in Int
      BY <1>3, <1>5, <3>2
    <3> QED
      BY <1>6, <3>2, <3>3
  <2>2. ASSUME j >= i PROVE t <= es[j][1]
    <3>1. i # n + 1 /\ (j = i \/ i < j)
      BY <1>2, <2>2
    <3>2. i \in DOMAIN es /\ t <= es[i][1]
      BY <1>9, <3>1
    <3>3. es[i][1] <= es[j][1] /\ es[j][1] \in Int /\ es[i][1] \in Int
      BY <1>3, <1>5, <3>1, <3>2
    <3> QED
      BY <1>6, <3>2, <3>3
  <2> QED
    BY <2>1, <2>2
<1>11. t \in lo[q]
  <2>1. CASE i = 1
    BY <1>6, <1>7, <2>1
  <2>2. CASE i # 1
    <3> DEFINE m == i - 1
    <3>1. m \in DOMAIN es /\ es[m][1] <= t
      BY <1>8, <2>2
    <3> HIDE DEF m
    <3>2. \A k \in lo[q], x \in Int : k <= x => x \in lo[q]
      BY <1>u DEF UpSets
    <3> QED
      BY <1>4, <1>6, <3>1, <3>2
  <2> QED
    BY <2>1, <2>2
<1>12. ASSUME NEW k \in hi[q] PROVE t <= k
  <2>1. CASE i = n + 1
    BY <1>6, <1>7, <1>12, <2>1
  <2>2. CASE i # n + 1
    <3>1. i \in DOMAIN es /\ t <= es[i][1] /\ es[i][1] <= k /\ es[i][1] \in Int
      BY <1>3, <1>4, <1>9, <2>2
    <3>2. k \in Int
      BY <1>u DEF UpSets
    <3> DEFINE a == es[i][1]
    <3> HIDE DEF a
    <3>3. t <= a /\ a <= k /\ a \in Int
      BY <3>1 DEF a
    <3> QED
      BY <1>6, <3>2, <3>3
  <2> QED
    BY <2>1, <2>2
<1> QED
  BY <1>3, <1>4, <1>5, <1>10, <1>11, <1>12 DEF es, t

\* The order of the keys, and what the pages are for.
LEMMA ParentOrder ==
  ASSUME NEW pg, NEW hd, NEW level, NEW lo, NEW hi, NEW chain, NEW l, NEW r, NEW s, NEW held,
         NEW pg2, NEW q, NEW i,
         Tree(pg, hd, level, lo, hi, chain, l, r, s, held), ParentEntered(pg, pg2, q, i, l, r, s)
  PROVE  Ordered(pg2) /\ Ranges(pg2, lo, hi)
<1> DEFINE es == pg[q].entries
           e2 == pg2[q].entries
           n == Len(es)
<1>0. Pages(pg, hd) /\ Kids(pg, level) /\ Halved(pg, hd, level, lo, hi, l, r, s) /\ Ordered(pg) /\ Ranges(pg, lo, hi)
  BY TreeIs
<1>1. /\ q \in DOMAIN pg /\ ~ pg[q].leaf /\ DOMAIN pg2 = DOMAIN pg
      /\ \A x \in DOMAIN pg : pg2[x].leaf = pg[x].leaf
      /\ \A x \in DOMAIN pg : x # q => pg2[x].entries = pg[x].entries
  BY DEF ParentEntered
<1>2. /\ n \in Nat /\ i \in Nat /\ i >= 1 /\ i <= n + 1 /\ DOMAIN es = 1..n /\ DOMAIN e2 = 1..n + 1
      /\ \A j \in 1..n + 1 : e2[j] = IF j < i THEN es[j] ELSE IF j = i THEN s ELSE es[j - 1]
  BY <1>0, ParentIs
<1>3. /\ \A j \in DOMAIN es : es[j][1] \in Int /\ es[j][1] \in lo[q] /\ \A k \in hi[q] : es[j][1] <= k
      /\ \A j, m \in DOMAIN es : j < m => es[j][1] <= es[m][1]
      /\ \A j \in DOMAIN es : (j < i => es[j][1] <= s[1]) /\ (j >= i => s[1] <= es[j][1])
      /\ s[1] \in lo[q] /\ \A k \in hi[q] : s[1] <= k
  <2>1. \A j \in DOMAIN es : es[j][1] \in Int /\ es[j][1] \in lo[q] /\ \A k \in hi[q] : es[j][1] <= k
    BY SplitKey
  <2>2. \A j, m \in DOMAIN es : j < m => es[j][1] <= es[m][1]
    BY SplitKey
  <2>3. \A j \in DOMAIN es : (j < i => es[j][1] <= s[1]) /\ (j >= i => s[1] <= es[j][1])
    BY SplitKey
  <2>4. s[1] \in lo[q] /\ \A k \in hi[q] : s[1] <= k
    BY SplitKey
  <2> QED
    BY <2>1, <2>2, <2>3, <2>4
<1>t. s[1] \in Int
  BY HalvesAre
<1> HIDE DEF es, e2, n
<1>4. \A j \in DOMAIN e2 : (e2[j] = s /\ j = i) \/ \E m \in DOMAIN es : e2[j] = es[m] /\ j = IF m < i THEN m ELSE m + 1
  <2> SUFFICES ASSUME NEW j \in DOMAIN e2, j # i
               PROVE  \E m \in DOMAIN es : e2[j] = es[m] /\ j = IF m < i THEN m ELSE m + 1
    BY <1>2
  <2>1. CASE j < i
    <3>1. j \in DOMAIN es /\ e2[j] = es[j]
      BY <1>2, <2>1
    <3> QED
      BY <2>1, <3>1
  <2>2. CASE j > i
    <3>1. j - 1 \in DOMAIN es /\ e2[j] = es[j - 1] /\ ~ (j - 1 < i) /\ (j - 1) + 1 = j
      BY <1>2, <2>2
    <3> QED
      BY <3>1
  <2> QED
    BY <1>2, <2>1, <2>2
<1>i. DOMAIN es \subseteq Int /\ DOMAIN e2 \subseteq Int /\ i \in Int
  BY <1>2
<1>5. ASSUME NEW a \in DOMAIN e2, NEW b \in DOMAIN e2, a < b PROVE e2[a][1] <= e2[b][1]
  <2>1. CASE a = i
    <3>1. PICK m \in DOMAIN es : e2[b] = es[m] /\ b = IF m < i THEN m ELSE m + 1
      BY <1>4, <1>5, <1>i, <2>1
    <3>2. m >= i
      BY <1>5, <1>i, <2>1, <3>1
    <3>3. e2[a] = s
      BY <1>4, <2>1, <1>i
    <3> QED
      BY <1>3, <3>1, <3>2, <3>3
  <2>2. CASE b = i
    <3>1. PICK m \in DOMAIN es : e2[a] = es[m] /\ a = IF m < i THEN m ELSE m + 1
      BY <1>4, <1>5, <1>i, <2>2
    <3>2. m < i
      BY <1>5, <1>i, <2>2, <3>1
    <3>3. e2[b] = s
      BY <1>4, <2>2, <1>i
    <3> QED
      BY <1>3, <3>1, <3>2, <3>3
  <2>3. CASE a # i /\ b # i
    <3>1. PICK m \in DOMAIN es : e2[a] = es[m] /\ a = IF m < i THEN m ELSE m + 1
      BY <1>4, <2>3
    <3>2. PICK w \in DOMAIN es : e2[b] = es[w] /\ b = IF w < i THEN w ELSE w + 1
      BY <1>4, <2>3
    <3>3. m < w
      BY <1>5, <1>i, <3>1, <3>2
    <3> QED
      BY <1>3, <3>1, <3>2, <3>3
  <2> QED
    BY <2>1, <2>2, <2>3
<1>6. \A j \in DOMAIN e2 : e2[j][1] \in lo[q] /\ \A k \in hi[q] : e2[j][1] <= k
  BY <1>3, <1>4
<1>7. Ordered(pg2)
  <2> SUFFICES ASSUME NEW x \in DOMAIN pg, NEW a \in DOMAIN pg2[x].entries, NEW b \in DOMAIN pg2[x].entries, a < b
               PROVE  IF pg2[x].leaf THEN Less(pg2[x].entries[a], pg2[x].entries[b]) ELSE pg2[x].entries[a][1] <= pg2[x].entries[b][1]
    BY <1>1 DEF Ordered, Key
  <2>1. CASE x = q
    BY <1>1, <1>5, <2>1 DEF e2
  <2>2. CASE x # q
    BY <1>0, <1>1, <2>2 DEF Ordered, Key
  <2> QED
    BY <2>1, <2>2
<1>8. Ranges(pg2, lo, hi)
  <2>1. /\ lo \in [DOMAIN pg -> UpSets] /\ hi \in [DOMAIN pg -> UpSets]
        /\ \A x \in DOMAIN pg :
             /\ hi[x] \subseteq lo[x]
             /\ \A j \in DOMAIN pg[x].entries :
                  pg[x].entries[j][1] \in lo[x] /\ \A k \in hi[x] : pg[x].entries[j][1] <= k
    BY <1>0 DEF Ranges, Key
  <2>2. ASSUME NEW x \in DOMAIN pg, NEW j \in DOMAIN pg2[x].entries
        PROVE  pg2[x].entries[j][1] \in lo[x] /\ \A k \in hi[x] : pg2[x].entries[j][1] <= k
    <3>1. CASE x = q
      BY <1>6, <3>1 DEF e2
    <3>2. CASE x # q
      BY <1>1, <2>1, <3>2
    <3> QED
      BY <3>1, <3>2
  <2> QED
    BY <1>1, <2>1, <2>2 DEF Ranges, Key
<1> QED
  BY <1>7, <1>8

\* The entries es and the children ks of the parent before, e2 and k2 after.
EnteredAre(es, e2, ks, k2, n, i, s, r) ==
  /\ n \in Nat /\ i \in Nat /\ i >= 1 /\ i <= n + 1 /\ DOMAIN es = 1..n /\ DOMAIN e2 = 1..n + 1
  /\ DOMAIN ks = 1..n + 1 /\ DOMAIN k2 = 1..n + 2 /\ Len(ks) = n + 1 /\ Len(k2) = n + 2
  /\ \A j \in 1..n + 1 : e2[j] = IF j < i THEN es[j] ELSE IF j = i THEN s ELSE es[j - 1]
  /\ \A j \in 1..n + 2 : k2[j] = IF j <= i THEN ks[j] ELSE IF j = i + 1 THEN r ELSE ks[j - 1]

\* ParentIs, in one word.
LEMMA ParentEnteredAre ==
  ASSUME NEW pg, NEW hd, NEW level, NEW lo, NEW hi, NEW pg2, NEW q, NEW i, NEW l, NEW r, NEW s,
         ParentEntered(pg, pg2, q, i, l, r, s), Pages(pg, hd), Kids(pg, level), Halved(pg, hd, level, lo, hi, l, r, s)
  PROVE  EnteredAre(pg[q].entries, pg2[q].entries, pg[q].kids, pg2[q].kids, Len(pg[q].entries), i, s, r)
<1> DEFINE n == Len(pg[q].entries)
<1>1. n \in Nat /\ i \in Nat /\ i >= 1 /\ i <= n + 1
  BY ParentIs
<1>2. DOMAIN pg[q].entries = 1..n /\ DOMAIN pg2[q].entries = 1..n + 1
  BY ParentIs
<1>3. DOMAIN pg[q].kids = 1..n + 1 /\ DOMAIN pg2[q].kids = 1..n + 2
  BY ParentIs
<1>4. Len(pg[q].kids) = n + 1 /\ Len(pg2[q].kids) = n + 2
  BY ParentIs
<1>5. \A j \in 1..n + 1 :
        pg2[q].entries[j] = IF j < i THEN pg[q].entries[j] ELSE IF j = i THEN s ELSE pg[q].entries[j - 1]
  BY ParentIs
<1>6. \A j \in 1..n + 2 :
        pg2[q].kids[j] = IF j <= i THEN pg[q].kids[j] ELSE IF j = i + 1 THEN r ELSE pg[q].kids[j - 1]
  BY ParentIs
<1> HIDE DEF n
<1>7. EnteredAre(pg[q].entries, pg2[q].entries, pg[q].kids, pg2[q].kids, n, i, s, r)
  BY <1>1, <1>2, <1>3, <1>4, <1>5, <1>6 DEF EnteredAre
<1> QED
  BY <1>7 DEF n

\* The keys are parted between the children of the parent.
LEMMA ParentParted ==
  ASSUME NEW pg, NEW hd, NEW level, NEW lo, NEW hi, NEW chain, NEW l, NEW r, NEW s, NEW held,
         NEW pg2, NEW q, NEW i,
         Tree(pg, hd, level, lo, hi, chain, l, r, s, held), ParentEntered(pg, pg2, q, i, l, r, s)
  PROVE  Parted(pg2, hd, lo, hi, None, None)
<1> DEFINE es == pg[q].entries
           e2 == pg2[q].entries
           ks == pg[q].kids
           k2 == pg2[q].kids
           n == Len(es)
<1>0. Pages(pg, hd) /\ Kids(pg, level) /\ Halved(pg, hd, level, lo, hi, l, r, s) /\ Parted(pg, hd, lo, hi, l, r)
  BY TreeIs
<1>1. /\ q \in DOMAIN pg /\ ~ pg[q].leaf /\ DOMAIN pg2 = DOMAIN pg /\ i \in DOMAIN ks /\ ks[i] = l
      /\ \A x \in DOMAIN pg : pg2[x].leaf = pg[x].leaf
      /\ \A x \in DOMAIN pg : x # q => pg2[x].entries = pg[x].entries /\ pg2[x].kids = pg[x].kids
  BY DEF ParentEntered
<1>2. /\ n \in Nat /\ i \in Nat /\ i >= 1 /\ i <= n + 1 /\ DOMAIN es = 1..n /\ DOMAIN e2 = 1..n + 1
      /\ DOMAIN ks = 1..n + 1 /\ DOMAIN k2 = 1..n + 2 /\ Len(ks) = n + 1 /\ Len(k2) = n + 2
      /\ \A j \in 1..n + 1 : e2[j] = IF j < i THEN es[j] ELSE IF j = i THEN s ELSE es[j - 1]
      /\ \A j \in 1..n + 2 : k2[j] = IF j <= i THEN ks[j] ELSE IF j = i + 1 THEN r ELSE ks[j - 1]
  <2>1. EnteredAre(es, e2, ks, k2, n, i, s, r)
    BY <1>0, ParentEnteredAre
  <2> HIDE DEF es, e2, ks, k2, n
  <2> QED
    BY <2>1 DEF EnteredAre
<1>3. l \in DOMAIN pg /\ r \in DOMAIN pg /\ pg[l].parent = q /\ l # hd.root
  <2>1. l \in DOMAIN pg /\ r \in DOMAIN pg
    BY HalvesAre
  <2>2. pg[l].parent = q
    BY HalvesAre
  <2>3. l # hd.root
    BY HalvesAre
  <2> QED
    BY <2>1, <2>2, <2>3
<1>4. /\ hi[l] = AtLeast(s[1]) /\ lo[r] = AtLeast(s[1])
      /\ hi[r] = IF i = n + 1 THEN hi[q] ELSE AtLeast(es[i][1])
  <2>1. hi[l] = AtLeast(s[1]) /\ lo[r] = AtLeast(s[1])
    BY HalvesAre
  <2>2. hi[r] = IF i = n + 1 THEN hi[q] ELSE AtLeast(es[i][1])
    BY HalvesAre
  <2> QED
    BY <2>1, <2>2
<1>5. \A x \in DOMAIN pg : x # None /\ (x # l => Upper(hi, x, l, r) = hi[x]) /\ Upper(hi, x, None, None) = hi[x]
  BY <1>0, PagesAre DEF Upper
<1>6. ASSUME NEW x \in DOMAIN pg, ~ pg[x].leaf, NEW j \in DOMAIN pg[x].kids
      PROVE  /\ pg[x].kids[j] \in DOMAIN pg /\ pg[pg[x].kids[j]].parent = x
             /\ lo[pg[x].kids[j]] = IF j = 1 THEN lo[x] ELSE AtLeast(pg[x].entries[j - 1][1])
             /\ Upper(hi, pg[x].kids[j], l, r) = IF j = Len(pg[x].kids) THEN hi[x] ELSE AtLeast(pg[x].entries[j][1])
  BY <1>0, <1>6 DEF Kids, Parted, Key
<1>7. \A j, m \in DOMAIN ks : ks[j] = ks[m] => j = m
  BY <1>0, <1>1 DEF Kids
<1>8. ASSUME NEW j \in DOMAIN ks
      PROVE  /\ ks[j] \in DOMAIN pg
             /\ lo[ks[j]] = IF j = 1 THEN lo[q] ELSE AtLeast(es[j - 1][1])
             /\ j # i => hi[ks[j]] = IF j = n + 1 THEN hi[q] ELSE AtLeast(es[j][1])
  <2>1. /\ ks[j] \in DOMAIN pg
        /\ lo[ks[j]] = IF j = 1 THEN lo[q] ELSE AtLeast(es[j - 1][1])
        /\ Upper(hi, ks[j], l, r) = IF j = Len(ks) THEN hi[q] ELSE AtLeast(es[j][1])
    BY <1>1, <1>6
  <2>2. j # i => ks[j] # l
    BY <1>1, <1>7
  <2> HIDE DEF es, ks, n
  <2> QED
    BY <1>2, <1>5, <2>1, <2>2
<1>9. lo[hd.root] = Int /\ hi[hd.root] = {}
  <2>1. hd.root \in DOMAIN pg
    BY <1>0, PagesAre
  <2> QED
    BY <1>0, <1>3, <1>5, <2>1 DEF Parted
<1> HIDE DEF es, e2, ks, k2, n
<1>10. ASSUME NEW j \in DOMAIN k2
       PROVE  /\ k2[j] \in DOMAIN pg
              /\ lo[k2[j]] = IF j = 1 THEN lo[q] ELSE AtLeast(e2[j - 1][1])
              /\ hi[k2[j]] = IF j = n + 2 THEN hi[q] ELSE AtLeast(e2[j][1])
  <2>0. j \in Int /\ j >= 1 /\ j <= n + 2
    BY <1>2
  <2>1. CASE j < i
    <3>1. j \in DOMAIN ks /\ k2[j] = ks[j] /\ j # i /\ j # n + 1 /\ j # n + 2 /\ e2[j] = es[j]
      BY <1>2, <2>0, <2>1
    <3>2. j # 1 => e2[j - 1] = es[j - 1]
      BY <1>2, <2>0, <2>1
    <3> QED
      BY <1>8, <3>1, <3>2
  <2>2. CASE j = i
    <3>1. j \in DOMAIN ks /\ k2[j] = ks[j] /\ j # n + 2 /\ e2[j] = s /\ k2[j] = l
      BY <1>1, <1>2, <2>0, <2>2
    <3>2. j # 1 => e2[j - 1] = es[j - 1]
      BY <1>2, <2>0, <2>2
    <3> QED
      BY <1>4, <1>8, <3>1, <3>2
  <2>3. CASE j = i + 1
    <3>1. k2[j] = r /\ j # 1 /\ e2[j - 1] = s /\ (j = n + 2 <=> i = n + 1)
      BY <1>2, <2>0, <2>3
    <3>2. j # n + 2 => e2[j] = es[i]
      BY <1>2, <2>0, <2>3
    <3> QED
      BY <1>3, <1>4, <3>1, <3>2
  <2>4. CASE j > i + 1
    <3> DEFINE m == j - 1
    <3>1. m \in DOMAIN ks /\ k2[j] = ks[m] /\ j # 1 /\ m # i /\ m # 1 /\ (j = n + 2 <=> m = n + 1)
      BY <1>2, <2>0, <2>4
    <3>2. j # n + 2 => e2[j] = es[m]
      BY <1>2, <2>0, <2>4
    <3>3. e2[j - 1] = es[m - 1]
      BY <1>2, <2>0, <2>4
    <3> HIDE DEF m
    <3> QED
      BY <1>8, <3>1, <3>2, <3>3
  <2> QED
    BY <1>2, <2>0, <2>1, <2>2, <2>3, <2>4
<1>11. ASSUME NEW x \in DOMAIN pg, ~ pg2[x].leaf, NEW j \in DOMAIN pg2[x].kids
       PROVE  /\ lo[pg2[x].kids[j]] = IF j = 1 THEN lo[x] ELSE AtLeast(pg2[x].entries[j - 1][1])
              /\ Upper(hi, pg2[x].kids[j], None, None) =
                   IF j = Len(pg2[x].kids) THEN hi[x] ELSE AtLeast(pg2[x].entries[j][1])
  <2>1. CASE x = q
    <3>1. /\ k2[j] \in DOMAIN pg
          /\ lo[k2[j]] = IF j = 1 THEN lo[q] ELSE AtLeast(e2[j - 1][1])
          /\ hi[k2[j]] = IF j = Len(k2) THEN hi[q] ELSE AtLeast(e2[j][1])
      BY <1>2, <1>10, <1>11, <2>1 DEF k2
    <3>2. Upper(hi, k2[j], None, None) = hi[k2[j]]
      BY <1>5, <3>1
    <3> QED
      BY <2>1, <3>1, <3>2 DEF k2, e2
  <2>2. CASE x # q
    <3>1. pg2[x].kids = pg[x].kids /\ pg2[x].entries = pg[x].entries /\ ~ pg[x].leaf
      BY <1>1, <1>11, <2>2
    <3> DEFINE y == pg[x].kids[j]
    <3>2. /\ y \in DOMAIN pg /\ pg[y].parent = x
          /\ lo[y] = IF j = 1 THEN lo[x] ELSE AtLeast(pg[x].entries[j - 1][1])
          /\ Upper(hi, y, l, r) = IF j = Len(pg[x].kids) THEN hi[x] ELSE AtLeast(pg[x].entries[j][1])
      BY <1>6, <1>11, <3>1
    <3> HIDE DEF y
    <3>3. Upper(hi, y, None, None) = Upper(hi, y, l, r)
      BY <1>3, <1>5, <2>2, <3>2
    <3>4. pg2[x].kids[j] = y
      BY <3>1 DEF y
    <3> QED
      BY <3>1, <3>2, <3>3, <3>4
  <2> QED
    BY <2>1, <2>2
<1>12. Upper(hi, hd.root, None, None) = {}
  BY <1>0, <1>5, <1>9, PagesAre
<1> QED
  BY <1>1, <1>9, <1>11, <1>12 DEF Parted, Key

\* The split entered in the parent: the tree is whole again.
LEMMA ParentEnter ==
  ASSUME NEW pg, NEW hd, NEW level, NEW lo, NEW hi, NEW chain, NEW l, NEW r, NEW s, NEW held,
         NEW pg2, NEW q, NEW i, NEW t,
         Tree(pg, hd, level, lo, hi, chain, l, r, s, held), ParentEntered(pg, pg2, q, i, l, r, s)
  PROVE  Tree(pg2, hd, level, lo, hi, chain, None, None, t, held)
<1> DEFINE n == Len(pg[q].entries)
           ks == pg[q].kids
           k2 == pg2[q].kids
<1>0. /\ Pages(pg, hd) /\ Levels(pg, hd, level, l, r) /\ Kids(pg, level) /\ Parents(pg, hd, l, r)
      /\ Halved(pg, hd, level, lo, hi, l, r, s) /\ Chained(pg, hd, chain) /\ Ascends(pg, lo, hi, chain) /\ Holds(pg, held)
  BY TreeIs
<1>1. /\ q \in DOMAIN pg /\ ~ pg[q].leaf /\ DOMAIN pg2 = DOMAIN pg /\ pg2 \in [DOMAIN pg -> NodeType]
      /\ \A x \in DOMAIN pg :
           /\ pg2[x].leaf = pg[x].leaf /\ pg2[x].parent = pg[x].parent
           /\ pg2[x].prev = pg[x].prev /\ pg2[x].next = pg[x].next
      /\ \A x \in DOMAIN pg : x # q => pg2[x].entries = pg[x].entries /\ pg2[x].kids = pg[x].kids
  BY DEF ParentEntered
<1>2. /\ n \in Nat /\ i \in Nat /\ i >= 1 /\ i <= n + 1 /\ DOMAIN ks = 1..n + 1 /\ DOMAIN k2 = 1..n + 2
      /\ \A j \in 1..n + 2 : k2[j] = IF j <= i THEN ks[j] ELSE IF j = i + 1 THEN r ELSE ks[j - 1]
  BY <1>0, ParentIs
<1>3. /\ l \in DOMAIN pg /\ r \in DOMAIN pg /\ l # hd.root /\ level[r] = level[l] /\ level[l] < level[hd.root]
      /\ pg[r].parent = q
  <2>1. l \in DOMAIN pg /\ r \in DOMAIN pg /\ l # hd.root
    BY HalvesAre
  <2>2. level[r] = level[l] /\ level[l] < level[hd.root]
    BY HalvesAre
  <2>3. pg[r].parent = q
    BY HalvesAre
  <2> QED
    BY <2>1, <2>2, <2>3
<1>4. hd.next \in Nat /\ DOMAIN pg = 0..hd.next - 1 /\ hd.root \in DOMAIN pg /\ hd.magic = TRUE /\ None \notin DOMAIN pg
  BY <1>0, PagesAre
<1>5. Pages(pg2, hd)
  BY <1>0, <1>1, <1>4 DEF Pages
<1>6. Levels(pg2, hd, level, None, None)
  BY <1>0, <1>1, <1>3 DEF Levels
<1>7. Kids(pg2, level)
  BY ParentKids
<1> HIDE DEF n, ks, k2
<1>8. IsKid(pg2, r, q)
  <2>1. i + 1 \in DOMAIN k2 /\ k2[i + 1] = r
    BY <1>2
  <2> QED
    BY <2>1 DEF IsKid, k2
<1>9. ASSUME NEW x \in DOMAIN pg, NEW c, IsKid(pg, c, x) PROVE IsKid(pg2, c, x)
  <2>1. CASE x = q
    <3>1. PICK j \in DOMAIN ks : ks[j] = c
      BY <1>9, <2>1 DEF IsKid, ks
    <3>2. \E m \in DOMAIN k2 : k2[m] = c
      <4>1. CASE j <= i
        <5>1. j \in DOMAIN k2 /\ k2[j] = ks[j]
          BY <1>2, <4>1
        <5> QED
          BY <3>1, <5>1
      <4>2. CASE j > i
        <5>1. j + 1 \in DOMAIN k2 /\ k2[j + 1] = ks[j]
          BY <1>2, <4>2
        <5> QED
          BY <3>1, <5>1
      <4> QED
        BY <1>2, <4>1, <4>2
    <3> QED
      BY <2>1, <3>2 DEF IsKid, k2
  <2>2. CASE x # q
    BY <1>1, <1>9, <2>2 DEF IsKid
  <2> QED
    BY <2>1, <2>2
<1>10. Parents(pg2, hd, None, None)
  <2> SUFFICES ASSUME NEW c \in DOMAIN pg
               PROVE  IF pg[c].parent = None
                        THEN c = hd.root \/ (c = None /\ None = hd.root)
                        ELSE /\ pg[c].parent \in DOMAIN pg /\ ~ pg2[pg[c].parent].leaf
                             /\ c = None \/ IsKid(pg2, c, pg[c].parent)
    BY <1>1 DEF Parents
  <2>1. IF pg[c].parent = None
          THEN c = hd.root \/ (c = r /\ l = hd.root)
          ELSE /\ pg[c].parent \in DOMAIN pg /\ ~ pg[pg[c].parent].leaf
               /\ c = r \/ IsKid(pg, c, pg[c].parent)
    BY <1>0 DEF Parents
  <2>2. CASE c = r
    BY <1>1, <1>3, <1>4, <1>8, <2>1, <2>2
  <2>3. CASE c # r
    BY <1>1, <1>3, <1>9, <2>1, <2>3
  <2> QED
    BY <2>2, <2>3
<1>11. Ordered(pg2) /\ Ranges(pg2, lo, hi)
  BY ParentOrder
<1>12. Parted(pg2, hd, lo, hi, None, None)
  BY ParentParted
<1>13. Halved(pg2, hd, level, lo, hi, None, None, t)
  BY DEF Halved
<1>14. SameLeaves(pg, pg2, lo, hi, lo, hi)
  BY <1>1 DEF SameLeaves
<1>15. Chained(pg2, hd, chain) /\ Ascends(pg2, lo, hi, chain) /\ Holds(pg2, held)
  BY <1>0, <1>4, <1>14, LeavesKept
<1> QED
  BY <1>5, <1>6, <1>7, <1>10, <1>11, <1>12, <1>13, <1>15 DEF Tree

\* A page above the leaves halved around its entry m + 1, the new page being the next one.
InnerHalved(pg, pg2, hd, q, m) ==
  LET es == pg[q].entries
      ks == pg[q].kids
      r == hd.next
  IN  /\ q \in DOMAIN pg /\ ~ pg[q].leaf /\ m \in Nat /\ m < Len(es)
      /\ pg2 \in [0..r -> NodeType]
      /\ \A x \in DOMAIN pg :
           /\ pg2[x].leaf = pg[x].leaf /\ pg2[x].prev = pg[x].prev /\ pg2[x].next = pg[x].next
           /\ pg2[x].entries = IF x = q THEN SubSeq(es, 1, m) ELSE pg[x].entries
           /\ pg2[x].kids = IF x = q THEN SubSeq(ks, 1, m + 1) ELSE pg[x].kids
           /\ pg2[x].parent = IF Occurs(From(ks, m + 2), x) THEN r ELSE pg[x].parent
      /\ pg2[r].leaf = FALSE /\ pg2[r].parent = pg[q].parent
      /\ pg2[r].entries = From(es, m + 2) /\ pg2[r].kids = From(ks, m + 2)

\* Levels and keys of the pages with one page r more, the other half of p.
MorePages(D, level, lo, hi, p, r, v, K, E) ==
  /\ level \in [D -> Nat] /\ lo \in [D -> UpSets] /\ hi \in [D -> UpSets]
  /\ p \in D /\ r \notin D /\ v \in Nat /\ K \in UpSets /\ E = D \cup {r}

\* The level and the range of a page that is added beside p.
LEMMA GhostsPut ==
  ASSUME NEW D, NEW level, NEW lo, NEW hi, NEW p, NEW r, NEW v, NEW K, NEW E,
         MorePages(D, level, lo, hi, p, r, v, K, E)
  PROVE  LET level2 == Put(level, r, v)
             lo2 == Put(lo, r, K)
             hi2 == Put(Put(hi, p, K), r, hi[p])
         IN  /\ level2 \in [E -> Nat] /\ lo2 \in [E -> UpSets] /\ hi2 \in [E -> UpSets]
             /\ level2[r] = v /\ lo2[r] = K /\ hi2[r] = hi[p]
             /\ \A x \in D : level2[x] = level[x] /\ lo2[x] = lo[x] /\ hi2[x] = IF x = p THEN K ELSE hi[x]
<1> DEFINE level2 == Put(level, r, v)
           lo2 == Put(lo, r, K)
           hi1 == Put(hi, p, K)
           hi2 == Put(hi1, r, hi[p])
<1>0. /\ level \in [D -> Nat] /\ lo \in [D -> UpSets] /\ hi \in [D -> UpSets]
      /\ p \in D /\ r \notin D /\ v \in Nat /\ K \in UpSets /\ E = D \cup {r}
  BY DEF MorePages
<1>1. hi[p] \in UpSets /\ D \cup {p} = D /\ DOMAIN level = D /\ DOMAIN lo = D /\ DOMAIN hi = D
  BY <1>0
<1>2. level2 \in [E -> Nat] /\ \A x \in D \cup {r} : level2[x] = IF x = r THEN v ELSE level[x]
  <2>1. level2 \in [D \cup {r} -> Nat]
    BY <1>0, PutType
  <2>2. \A x \in DOMAIN level \cup {r} : level2[x] = IF x = r THEN v ELSE level[x]
    BY DEF Put
  <2> QED
    BY <1>0, <1>1, <2>1, <2>2
<1>3. lo2 \in [E -> UpSets] /\ \A x \in D \cup {r} : lo2[x] = IF x = r THEN K ELSE lo[x]
  <2>1. lo2 \in [D \cup {r} -> UpSets]
    BY <1>0, PutType
  <2>2. \A x \in DOMAIN lo \cup {r} : lo2[x] = IF x = r THEN K ELSE lo[x]
    BY DEF Put
  <2> QED
    BY <1>0, <1>1, <2>1, <2>2
<1>4. hi1 \in [D -> UpSets] /\ DOMAIN hi1 = D /\ \A x \in D : hi1[x] = IF x = p THEN K ELSE hi[x]
  <2>1. hi1 \in [D \cup {p} -> UpSets]
    BY <1>0, PutType
  <2>2. \A x \in DOMAIN hi \cup {p} : hi1[x] = IF x = p THEN K ELSE hi[x]
    BY DEF Put
  <2> HIDE DEF hi1
  <2> QED
    BY <1>0, <1>1, <2>1, <2>2
<1>5. hi2 = Put(hi1, r, hi[p])
  OBVIOUS
<1> HIDE DEF hi1, hi2, level2, lo2
<1>6. hi2 \in [E -> UpSets] /\ \A x \in D \cup {r} : hi2[x] = IF x = r THEN hi[p] ELSE hi1[x]
  <2>1. hi2 \in [D \cup {r} -> UpSets]
    BY <1>0, <1>1, <1>4, <1>5, PutType
  <2>2. \A x \in DOMAIN hi1 \cup {r} : hi2[x] = IF x = r THEN hi[p] ELSE hi1[x]
    BY <1>5 DEF Put
  <2> QED
    BY <1>0, <1>4, <2>1, <2>2
<1> QED
  BY <1>0, <1>2, <1>3, <1>4, <1>6 DEF hi1, hi2, level2, lo2

\* The two halves.
LEMMA InnerParts ==
  ASSUME NEW pg, NEW hd, NEW pg2, NEW q, NEW m, NEW level,
         InnerHalved(pg, pg2, hd, q, m), Pages(pg, hd), Kids(pg, level)
  PROVE  LET n == Len(pg[q].entries)
             es == pg[q].entries
             ks == pg[q].kids
             a == pg2[q]
             b == pg2[hd.next]
         IN  /\ n \in Nat /\ m \in Nat /\ m < n /\ DOMAIN es = 1..n /\ DOMAIN ks = 1..n + 1 /\ Len(ks) = n + 1
             /\ \A j \in DOMAIN es : es[j] \in KeySet \X Nat /\ es[j][1] \in Int
             /\ DOMAIN a.entries = 1..m /\ Len(a.entries) = m /\ \A j \in 1..m : a.entries[j] = es[j]
             /\ DOMAIN a.kids = 1..m + 1 /\ Len(a.kids) = m + 1 /\ \A j \in 1..m + 1 : a.kids[j] = ks[j]
             /\ DOMAIN b.entries = 1..n - m - 1 /\ Len(b.entries) = n - m - 1
             /\ \A j \in 1..n - m - 1 : b.entries[j] = es[m + 1 + j]
             /\ DOMAIN b.kids = 1..n - m /\ Len(b.kids) = n - m
             /\ \A j \in 1..n - m : b.kids[j] = ks[m + 1 + j]
<1> DEFINE es == pg[q].entries
           n == Len(es)
           ks == pg[q].kids
           a == pg2[q]
           b == pg2[hd.next]
           T == KeySet \X Nat
           U == Nat
           g == m + 2
           h == m + 1
<1>0. q \in DOMAIN pg /\ ~ pg[q].leaf /\ m \in Nat /\ m < n
  BY DEF InnerHalved
<1>1. /\ a.entries = SubSeq(es, 1, m) /\ a.kids = SubSeq(ks, 1, h)
      /\ b.entries = From(es, g) /\ b.kids = From(ks, g)
  BY DEF InnerHalved
<1>2. es \in Seq(T) /\ ks \in Seq(U)
  BY <1>0, PagesAre
<1>3. Len(ks) = n + 1
  BY <1>0 DEF Kids
<1>4. g = m + 2 /\ h = m + 1 /\ n = Len(es)
  OBVIOUS
<1>5. \A j \in DOMAIN es : es[j] \in KeySet \X Nat /\ es[j][1] \in Int
  <2> HIDE DEF es
  <2> QED
    BY <1>2, KeyIs
<1> HIDE DEF es, ks, a, b, T, U, g, h, n
<1>6. n \in Nat /\ DOMAIN es = 1..n /\ DOMAIN ks = 1..n + 1
  BY <1>2, <1>3, <1>4, SeqIs
<1>7. m \in 0..Len(es) /\ h \in 0..Len(ks) /\ g \in 1..Len(es) + 1 /\ g \in 1..Len(ks) + 1
  BY <1>0, <1>3, <1>4, <1>6
<1>8. DOMAIN a.entries = 1..m /\ Len(a.entries) = m /\ \A j \in 1..m : a.entries[j] = es[j]
  <2>1. /\ SubSeq(es, 1, m) \in Seq(T) /\ Len(SubSeq(es, 1, m)) = m
        /\ \A j \in 1..m : SubSeq(es, 1, m)[j] = es[j]
    BY <1>2, <1>7, FirstIs
  <2> QED
    BY <1>1, <2>1, SeqIs
<1>9. DOMAIN a.kids = 1..h /\ Len(a.kids) = h /\ \A j \in 1..h : a.kids[j] = ks[j]
  <2>1. /\ SubSeq(ks, 1, h) \in Seq(U) /\ Len(SubSeq(ks, 1, h)) = h
        /\ \A j \in 1..h : SubSeq(ks, 1, h)[j] = ks[j]
    BY <1>2, <1>7, FirstIs
  <2> QED
    BY <1>1, <2>1, SeqIs
<1>10. /\ DOMAIN b.entries = 1..n - m - 1 /\ Len(b.entries) = n - m - 1
       /\ \A j \in 1..n - m - 1 : b.entries[j] = es[m + 1 + j]
  <2>1. /\ From(es, g) \in Seq(T) /\ Len(From(es, g)) = Len(es) + 1 - g
        /\ \A j : j \in 1..Len(es) + 1 - g => From(es, g)[j] = es[g - 1 + j]
    <3>1. es \in Seq(T)
      BY <1>2
    <3>2. g \in 1..Len(es) + 1
      BY <1>7
    <3>3. From(es, g) \in Seq(T)
      BY <3>1, <3>2, RestIs
    <3>4. Len(From(es, g)) = Len(es) + 1 - g
      BY <3>1, <3>2, RestIs
    <3>5. ASSUME NEW j, j \in 1..Len(es) + 1 - g PROVE From(es, g)[j] = es[g - 1 + j]
      BY <3>1, <3>2, <3>5, RestIs
    <3> QED
      BY <3>3, <3>4, <3>5
  <2>2. Len(es) + 1 - g = n - m - 1 /\ g - 1 = m + 1
    BY <1>0, <1>4, <1>6
  <2> QED
    BY <1>1, <2>1, <2>2, SeqIs
<1>11. /\ DOMAIN b.kids = 1..n - m /\ Len(b.kids) = n - m
       /\ \A j \in 1..n - m : b.kids[j] = ks[m + 1 + j]
  <2>1. /\ From(ks, g) \in Seq(U) /\ Len(From(ks, g)) = Len(ks) + 1 - g
        /\ \A j : j \in 1..Len(ks) + 1 - g => From(ks, g)[j] = ks[g - 1 + j]
    <3>1. ks \in Seq(U)
      BY <1>2
    <3>2. g \in 1..Len(ks) + 1
      BY <1>7
    <3>3. From(ks, g) \in Seq(U)
      BY <3>1, <3>2, RestIs
    <3>4. Len(From(ks, g)) = Len(ks) + 1 - g
      BY <3>1, <3>2, RestIs
    <3>5. ASSUME NEW j, j \in 1..Len(ks) + 1 - g PROVE From(ks, g)[j] = ks[g - 1 + j]
      BY <3>1, <3>2, <3>5, RestIs
    <3> QED
      BY <3>3, <3>4, <3>5
  <2>2. Len(ks) + 1 - g = n - m /\ g - 1 = m + 1
    BY <1>0, <1>3, <1>4, <1>6
  <2> QED
    BY <1>1, <2>1, <2>2, SeqIs
<1> QED
  BY <1>0, <1>3, <1>5, <1>6, <1>8, <1>9, <1>10, <1>11 DEF es, ks, a, b, g, h, n

\* The children of the right half.
GoesRight(pg, q, m, x) == \E j \in DOMAIN pg[q].kids : j > m + 1 /\ pg[q].kids[j] = x

\* The children that moveRightChildren hands to the new page.
LEMMA MovedAre ==
  ASSUME NEW pg, NEW hd, NEW pg2, NEW q, NEW m, NEW level, NEW x,
         InnerHalved(pg, pg2, hd, q, m), Pages(pg, hd), Kids(pg, level)
  PROVE  Occurs(From(pg[q].kids, m + 2), x) <=> GoesRight(pg, q, m, x)
<1> DEFINE n == Len(pg[q].entries)
           ks == pg[q].kids
           bk == pg2[hd.next].kids
<1>0. n \in Nat /\ m \in Nat /\ m < n /\ DOMAIN ks = 1..n + 1
  BY InnerParts
<1>1. DOMAIN bk = 1..n - m /\ \A j \in 1..n - m : bk[j] = ks[m + 1 + j]
  BY InnerParts
<1>2. bk = From(ks, m + 2)
  BY DEF InnerHalved
<1> HIDE DEF n, ks, bk
<1>3. ASSUME NEW j \in 1..n - m, bk[j] = x PROVE \E i \in 1..n + 1 : i > m + 1 /\ ks[i] = x
  <2>1. m + 1 + j \in 1..n + 1 /\ m + 1 + j > m + 1 /\ ks[m + 1 + j] = x
    BY <1>0, <1>1, <1>3
  <2> QED
    BY <2>1
<1>4. ASSUME NEW i \in 1..n + 1, i > m + 1, ks[i] = x PROVE \E j \in 1..n - m : bk[j] = x
  <2>1. i - (m + 1) \in 1..n - m /\ m + 1 + (i - (m + 1)) = i
    BY <1>0, <1>4
  <2>2. bk[i - (m + 1)] = x
    BY <1>1, <1>4, <2>1
  <2> QED
    BY <2>1, <2>2
<1>5. Occurs(bk, x) <=> \E j \in 1..n - m : bk[j] = x
  BY <1>1 DEF Occurs
<1>6. Occurs(bk, x) <=> \E j \in DOMAIN ks : j > m + 1 /\ ks[j] = x
  BY <1>0, <1>3, <1>4, <1>5
<1> QED
  BY <1>2, <1>6 DEF ks, GoesRight

\* The pages above the leaves halved: the other half is found in the place of the page
\* until the parent knows.
LEMMA InnerHalve ==
  ASSUME NEW pg, NEW hd, NEW level, NEW lo, NEW hi, NEW chain, NEW s, NEW held,
         Tree(pg, hd, level, lo, hi, chain, None, None, s, held),
         NEW pg2, NEW hd2, NEW q, NEW m, InnerHalved(pg, pg2, hd, q, m),
         hd2.magic = TRUE, hd2.root = hd.root, hd2.next = hd.next + 1
  PROVE  \E level2, lo2, hi2, chain2 :
           Tree(pg2, hd2, level2, lo2, hi2, chain2, q, hd.next, pg[q].entries[m + 1], held)
<1> DEFINE r == hd.next
           D == DOMAIN pg
           es == pg[q].entries
           n == Len(es)
           ks == pg[q].kids
           a == pg2[q].entries
           ak == pg2[q].kids
           b == pg2[r].entries
           bk == pg2[r].kids
           t == es[m + 1]
           K == AtLeast(t[1])
           level2 == Put(level, r, level[q])
           lo2 == Put(lo, r, K)
           hi2 == Put(Put(hi, q, K), r, hi[q])
           Moved(x) == Occurs(From(ks, m + 2), x)
<1>0. /\ Pages(pg, hd) /\ Levels(pg, hd, level, None, None) /\ Kids(pg, level) /\ Parents(pg, hd, None, None)
      /\ Ordered(pg) /\ Ranges(pg, lo, hi) /\ Parted(pg, hd, lo, hi, None, None)
      /\ Chained(pg, hd, chain) /\ Ascends(pg, lo, hi, chain) /\ Holds(pg, held)
  BY TreeIs
<1>1. hd.next \in Nat /\ D = 0..hd.next - 1 /\ hd.root \in D /\ hd.magic = TRUE /\ pg[hd.root].parent = None
  BY <1>0, PagesAre DEF Pages
<1>f. /\ q \in D /\ ~ pg[q].leaf
      /\ pg2 \in [0..r -> NodeType] /\ DOMAIN pg2 = 0..r
      /\ \A x \in D :
           /\ pg2[x].leaf = pg[x].leaf /\ pg2[x].prev = pg[x].prev /\ pg2[x].next = pg[x].next
           /\ pg2[x].parent = IF Moved(x) THEN r ELSE pg[x].parent
      /\ \A x \in D : x # q => pg2[x].entries = pg[x].entries /\ pg2[x].kids = pg[x].kids
      /\ pg2[r].leaf = FALSE /\ pg2[r].parent = pg[q].parent
  BY DEF InnerHalved
<1>2. r \notin D /\ r \in Nat /\ hd2.next - 1 = r /\ hd2.next \in Nat /\ r # None
  BY <1>1 DEF None
<1>3. (\A x : x \in 0..r <=> x \in D \/ x = r) /\ 0..r = D \cup {r}
  BY <1>1
<1>w. /\ \A x \in D : x # None /\ (level[x] < level[hd.root] \/ x = hd.root)
      /\ \A x \in D :
           IF pg[x].parent = None THEN x = hd.root
           ELSE pg[x].parent \in D /\ ~ pg[pg[x].parent].leaf /\ IsKid(pg, x, pg[x].parent)
      /\ \A x \in D : Upper(hi, x, None, None) = hi[x]
  BY WholeTree
<1>e. InnerHalved(pg, pg2, hd, q, m) /\ Pages(pg, hd) /\ Kids(pg, level)
  BY <1>0
<1>n. n \in Nat /\ m \in Nat /\ m < n /\ DOMAIN es = 1..n /\ DOMAIN ks = 1..n + 1 /\ Len(ks) = n + 1
  BY <1>e, InnerParts
<1>k. \A j \in DOMAIN es : es[j] \in KeySet \X Nat /\ es[j][1] \in Int
  BY <1>e, InnerParts
<1>a. DOMAIN a = 1..m /\ Len(a) = m /\ \A j \in 1..m : a[j] = es[j]
  BY <1>e, InnerParts
<1>c. DOMAIN ak = 1..m + 1 /\ Len(ak) = m + 1 /\ \A j \in 1..m + 1 : ak[j] = ks[j]
  BY <1>e, InnerParts
<1>b. DOMAIN b = 1..n - m - 1 /\ Len(b) = n - m - 1 /\ \A j \in 1..n - m - 1 : b[j] = es[m + 1 + j]
  BY <1>e, InnerParts
<1>d. DOMAIN bk = 1..n - m /\ Len(bk) = n - m /\ \A j \in 1..n - m : bk[j] = ks[m + 1 + j]
  BY <1>e, InnerParts
<1>m. \A x : Moved(x) <=> \E j \in 1..n + 1 : j > m + 1 /\ ks[j] = x
  <2> SUFFICES ASSUME NEW x PROVE Moved(x) <=> \E j \in 1..n + 1 : j > m + 1 /\ ks[j] = x
    OBVIOUS
  <2>1. Occurs(From(pg[q].kids, m + 2), x) <=> GoesRight(pg, q, m, x)
    BY <1>e, MovedAre
  <2> QED
    BY <1>n, <2>1 DEF GoesRight
<1>t. t \in KeySet \X Nat /\ t[1] \in Int /\ m + 1 \in DOMAIN es
  <2>1. m + 1 \in DOMAIN es
    BY <1>n
  <2> QED
    BY <1>k, <2>1
<1>K. K \in UpSets /\ K \subseteq Int /\ \A x : x \in K <=> x \in Int /\ t[1] <= x
  BY <1>t, AtLeastIs
<1>l. level \in [D -> Nat] /\ level[hd.root] < hd.next /\ \A x \in D : level[x] \in Nat /\ (pg[x].leaf <=> level[x] = 0)
  BY <1>0 DEF Levels
<1>r. /\ lo \in [D -> UpSets] /\ hi \in [D -> UpSets]
      /\ \A x \in D : lo[x] \subseteq Int /\ hi[x] \subseteq Int
      /\ \A x \in D :
           /\ hi[x] \subseteq lo[x]
           /\ \A i \in DOMAIN pg[x].entries :
                pg[x].entries[i][1] \in lo[x] /\ \A k \in hi[x] : pg[x].entries[i][1] <= k
  <2>1. lo \in [D -> UpSets] /\ hi \in [D -> UpSets]
    BY <1>0 DEF Ranges
  <2>2. \A x \in D : lo[x] \subseteq Int /\ hi[x] \subseteq Int
    BY <2>1 DEF UpSets
  <2>3. \A x \in D :
           /\ hi[x] \subseteq lo[x]
           /\ \A i \in DOMAIN pg[x].entries :
                pg[x].entries[i][1] \in lo[x] /\ \A k \in hi[x] : pg[x].entries[i][1] <= k
    BY <1>0 DEF Ranges, Key
  <2> QED
    BY <2>1, <2>2, <2>3
<1>q. /\ \A j \in DOMAIN es : es[j][1] \in lo[q] /\ \A k \in hi[q] : es[j][1] <= k
      /\ \A i, j \in DOMAIN es : i < j => es[i][1] <= es[j][1]
  <2>1. \A j \in DOMAIN es : es[j][1] \in lo[q] /\ \A k \in hi[q] : es[j][1] <= k
    BY <1>f, <1>r
  <2>2. \A i, j \in DOMAIN es : i < j => es[i][1] <= es[j][1]
    BY <1>0, <1>f DEF Ordered, Key
  <2> QED
    BY <2>1, <2>2
<1>s. K \subseteq lo[q] /\ hi[q] \subseteq K
  <2>1. t[1] \in lo[q] /\ \A k \in hi[q] : t[1] <= k
    BY <1>q, <1>t
  <2>2. \A u \in lo[q], v \in Int : u <= v => v \in lo[q]
    BY <1>f, <1>r DEF UpSets
  <2>3. hi[q] \subseteq Int
    BY <1>f, <1>r
  <2> HIDE DEF t, K
  <2> QED
    BY <1>K, <2>1, <2>2, <2>3
<1>g. /\ level2 \in [0..r -> Nat] /\ lo2 \in [0..r -> UpSets] /\ hi2 \in [0..r -> UpSets]
      /\ level2[r] = level[q] /\ lo2[r] = K /\ hi2[r] = hi[q]
      /\ \A x \in D : level2[x] = level[x] /\ lo2[x] = lo[x] /\ hi2[x] = IF x = q THEN K ELSE hi[x]
  <2> DEFINE v == level[q]
             E == 0..r
  <2>1. v \in Nat /\ q \in D /\ level \in [D -> Nat] /\ lo \in [D -> UpSets] /\ hi \in [D -> UpSets]
    BY <1>f, <1>l, <1>r
  <2>2. E = D \cup {r} /\ r \notin D /\ K \in UpSets
    BY <1>2, <1>3, <1>K
  <2>m. MorePages(D, level, lo, hi, q, r, v, K, E)
    BY <2>1, <2>2 DEF MorePages
  <2> HIDE DEF v, E, D, K, r, t, es
  <2> DEFINE A == Put(level, r, v)
             B == Put(lo, r, K)
             C == Put(Put(hi, q, K), r, hi[q])
  <2>3. A \in [E -> Nat] /\ B \in [E -> UpSets] /\ C \in [E -> UpSets]
    BY <2>m, GhostsPut
  <2>4. A[r] = v /\ B[r] = K /\ C[r] = hi[q]
    BY <2>m, GhostsPut
  <2>5. \A x \in D : A[x] = level[x] /\ B[x] = lo[x] /\ C[x] = IF x = q THEN K ELSE hi[x]
    BY <2>m, GhostsPut
  <2> QED
    BY <2>3, <2>4, <2>5 DEF v, E
<1>x. /\ \A x \in D : ~ pg[x].leaf =>
           /\ Len(pg[x].kids) = Len(pg[x].entries) + 1
           /\ \A i \in DOMAIN pg[x].kids :
                /\ pg[x].kids[i] \in D
                /\ pg[pg[x].kids[i]].parent = x /\ level[pg[x].kids[i]] + 1 = level[x]
           /\ \A i, j \in DOMAIN pg[x].kids : pg[x].kids[i] = pg[x].kids[j] => i = j
  BY <1>0 DEF Kids
<1>y. /\ \A j \in 1..n + 1 : ks[j] \in D /\ pg[ks[j]].parent = q /\ level[ks[j]] + 1 = level[q]
      /\ \A i, j \in 1..n + 1 : ks[i] = ks[j] => i = j
  <2>1. q \in D /\ ~ pg[q].leaf /\ DOMAIN ks = 1..n + 1
    BY <1>f, <1>n
  <2>2. \A j \in DOMAIN ks : ks[j] \in D /\ pg[ks[j]].parent = q /\ level[ks[j]] + 1 = level[q]
    BY <1>x, <2>1
  <2>3. \A i, j \in DOMAIN ks : ks[i] = ks[j] => i = j
    BY <1>x, <2>1
  <2> HIDE DEF D, ks, n
  <2> QED
    BY <2>1, <2>2, <2>3
<1> HIDE DEF level2, lo2, hi2, K, t, r, es, n, ks, a, ak, b, bk, Moved
<1>z. /\ \A x : Moved(x) => x \in D /\ pg[x].parent = q
      /\ \A j \in 1..n + 1 : Moved(ks[j]) <=> j > m + 1
  BY <1>m, <1>y
<1>5. Pages(pg2, hd2)
  <2>1. q # None
    BY <1>f, <1>w
  <2>2. pg2[hd.root].parent = None
    BY <1>1, <1>f, <1>z, <2>1
  <2>3. hd2.root \in 0..r
    BY <1>1, <1>3
  <2> QED
    BY <1>1, <1>2, <1>f, <2>2, <2>3 DEF Pages
<1>6. Levels(pg2, hd2, level2, q, r)
  <2>1. level2[hd.root] < hd2.next
    BY <1>1, <1>g, <1>l
  <2>2. ASSUME NEW x \in D
        PROVE  (pg2[x].leaf <=> level2[x] = 0) /\ (level2[x] < level2[hd.root] \/ x = hd.root)
    <3>1. level2[x] = level[x] /\ level2[hd.root] = level[hd.root] /\ pg2[x].leaf = pg[x].leaf
      BY <1>1, <1>f, <1>g
    <3> QED
      BY <1>l, <1>w, <3>1
  <2>3. ~ (level2[r] = 0) /\ (level2[r] < level2[hd.root] \/ q = hd.root)
    BY <1>1, <1>f, <1>g, <1>l, <1>w
  <2> QED
    BY <1>3, <1>f, <1>g, <2>1, <2>2, <2>3 DEF Levels
<1>9. Kids(pg2, level2)
  <2> SUFFICES ASSUME NEW x \in 0..r, ~ pg2[x].leaf
               PROVE  /\ Len(pg2[x].kids) = Len(pg2[x].entries) + 1
                      /\ \A i \in DOMAIN pg2[x].kids :
                           /\ pg2[x].kids[i] \in 0..r
                           /\ pg2[pg2[x].kids[i]].parent = x /\ level2[pg2[x].kids[i]] + 1 = level2[x]
                      /\ \A i, j \in DOMAIN pg2[x].kids : pg2[x].kids[i] = pg2[x].kids[j] => i = j
    BY <1>f DEF Kids
  <2>1. CASE x = q
    <3>1. Len(ak) = Len(a) + 1
      BY <1>a, <1>c
    <3>2. ASSUME NEW i \in DOMAIN ak
          PROVE  ak[i] \in 0..r /\ pg2[ak[i]].parent = q /\ level2[ak[i]] + 1 = level2[q]
      <4> DEFINE y == ks[i]
      <4>1. i \in 1..n + 1 /\ ~ (i > m + 1) /\ ak[i] = y
        BY <1>c, <1>n
      <4>2. y \in D /\ pg[y].parent = q /\ level[y] + 1 = level[q] /\ ~ Moved(y)
        BY <1>y, <1>z, <4>1
      <4> HIDE DEF y
      <4>3. y \in 0..r /\ pg2[y].parent = q /\ level2[y] = level[y] /\ level2[q] = level[q]
        BY <1>3, <1>f, <1>g, <4>2
      <4> QED
        BY <4>1, <4>2, <4>3
    <3>3. \A i, j \in DOMAIN ak : ak[i] = ak[j] => i = j
      BY <1>c, <1>n, <1>y
    <3> QED
      BY <2>1, <3>1, <3>2, <3>3 DEF a, ak
  <2>2. CASE x = r
    <3>1. Len(bk) = Len(b) + 1
      BY <1>b, <1>d, <1>n
    <3>2. \A i \in DOMAIN bk : m + 1 + i \in 1..n + 1 /\ m + 1 + i > m + 1 /\ bk[i] = ks[m + 1 + i]
      BY <1>d, <1>n
    <3>3. ASSUME NEW i \in DOMAIN bk
          PROVE  bk[i] \in 0..r /\ pg2[bk[i]].parent = r /\ level2[bk[i]] + 1 = level2[r]
      <4> DEFINE y == ks[m + 1 + i]
      <4>1. y \in D /\ level[y] + 1 = level[q] /\ Moved(y) /\ bk[i] = y
        BY <1>y, <1>z, <3>2
      <4> HIDE DEF y
      <4>3. y \in 0..r /\ pg2[y].parent = r /\ level2[y] = level[y] /\ level2[r] = level[q]
        BY <1>3, <1>f, <1>g, <4>1
      <4> QED
        BY <4>1, <4>3
    <3>4. ASSUME NEW i \in DOMAIN bk, NEW j \in DOMAIN bk, bk[i] = bk[j] PROVE i = j
      <4>1. m + 1 + i = m + 1 + j
        BY <1>y, <3>2, <3>4
      <4> QED
        BY <1>d, <1>n, <4>1
    <3> QED
      BY <2>2, <3>1, <3>3, <3>4 DEF b, bk
  <2>3. CASE x \in D /\ x # q
    <3>1. ~ pg[x].leaf /\ pg2[x].entries = pg[x].entries /\ pg2[x].kids = pg[x].kids
      BY <1>f, <2>3
    <3>2. ASSUME NEW i \in DOMAIN pg[x].kids
          PROVE  /\ pg[x].kids[i] \in 0..r
                 /\ pg2[pg[x].kids[i]].parent = x /\ level2[pg[x].kids[i]] + 1 = level2[x]
      <4> DEFINE y == pg[x].kids[i]
      <4>1. y \in D /\ pg[y].parent = x /\ level[y] + 1 = level[x]
        BY <1>x, <2>3, <3>1
      <4> HIDE DEF y
      <4>2. y \in 0..r /\ pg2[y].parent = x
        BY <1>3, <1>f, <1>z, <2>3, <4>1
      <4>3. level2[y] = level[y] /\ level2[x] = level[x]
        BY <1>g, <2>3, <4>1
      <4> QED
        BY <4>1, <4>2, <4>3 DEF y
    <3> QED
      BY <1>x, <2>3, <3>1, <3>2
  <2> QED
    BY <1>3, <2>1, <2>2, <2>3
<1>11. Parents(pg2, hd2, q, r)
  <2> SUFFICES ASSUME NEW x \in 0..r
               PROVE  IF pg2[x].parent = None
                        THEN x = hd.root \/ (x = r /\ q = hd.root)
                        ELSE /\ pg2[x].parent \in 0..r /\ ~ pg2[pg2[x].parent].leaf
                             /\ x = r \/ IsKid(pg2, x, pg2[x].parent)
    BY <1>f DEF Parents
  <2>1. CASE x = r
    BY <1>3, <1>f, <1>w, <2>1
  <2>2. CASE x \in D /\ Moved(x)
    <3>1. pg2[x].parent = r
      BY <1>f, <2>2
    <3>2. PICK j \in 1..n + 1 : j > m + 1 /\ ks[j] = x
      BY <1>m, <2>2
    <3>3. j - (m + 1) \in 1..n - m /\ m + 1 + (j - (m + 1)) = j
      BY <1>n, <3>2
    <3>4. bk[j - (m + 1)] = x /\ j - (m + 1) \in DOMAIN bk
      BY <1>d, <3>2, <3>3
    <3>5. IsKid(pg2, x, r)
      BY <3>4 DEF IsKid, bk
    <3> QED
      BY <1>2, <1>3, <1>f, <3>1, <3>5
  <2>3. CASE x \in D /\ ~ Moved(x)
    <3>1. pg2[x].parent = pg[x].parent
      BY <1>f, <2>3
    <3>2. CASE pg[x].parent = None
      BY <1>w, <2>3, <3>1, <3>2
    <3>3. CASE pg[x].parent # None
      <4> DEFINE z == pg[x].parent
      <4>1. z \in D /\ ~ pg[z].leaf /\ IsKid(pg, x, z)
        BY <1>w, <2>3, <3>3
      <4> HIDE DEF z
      <4>2. IsKid(pg2, x, z)
        <5>1. CASE z = q
          <6>1. PICK j \in 1..n + 1 : ks[j] = x
            BY <1>n, <4>1, <5>1 DEF IsKid, ks
          <6>2. j \in 1..m + 1
            BY <1>n, <1>z, <2>3, <6>1
          <6>3. j \in DOMAIN ak /\ ak[j] = x
            BY <1>c, <6>1, <6>2
          <6> QED
            BY <5>1, <6>3 DEF IsKid, ak
        <5>2. CASE z # q
          BY <1>f, <4>1, <5>2 DEF IsKid
        <5> QED
          BY <5>1, <5>2
      <4>3. z \in 0..r /\ ~ pg2[z].leaf
        BY <1>3, <1>f, <4>1
      <4>4. pg2[x].parent = z
        BY <3>1 DEF z
      <4>5. z # None
        BY <3>3 DEF z
      <4> QED
        BY <4>2, <4>3, <4>4, <4>5
    <3> QED
      BY <3>2, <3>3
  <2> QED
    BY <1>3, <2>1, <2>2, <2>3
<1>A. \A i \in DOMAIN a : i \in Int /\ i \in DOMAIN es /\ i <= m /\ a[i] = es[i]
  BY <1>a, <1>n
<1>B. \A i \in DOMAIN b : i \in Int /\ m + 1 + i \in DOMAIN es /\ m + 1 + i > m + 1 /\ b[i] = es[m + 1 + i]
  BY <1>b, <1>n
<1>12. Ordered(pg2)
  <2> SUFFICES ASSUME NEW x \in 0..r, NEW i \in DOMAIN pg2[x].entries, NEW j \in DOMAIN pg2[x].entries, i < j
               PROVE  IF pg2[x].leaf THEN Less(pg2[x].entries[i], pg2[x].entries[j])
                      ELSE pg2[x].entries[i][1] <= pg2[x].entries[j][1]
    BY <1>f DEF Ordered, Key
  <2>1. CASE x = r
    <3>0. i \in DOMAIN b /\ j \in DOMAIN b
      BY <2>1 DEF b
    <3> DEFINE v == m + 1 + i
               w == m + 1 + j
    <3>1. v < w
      BY <1>B, <1>n, <3>0
    <3>2. v \in DOMAIN es /\ w \in DOMAIN es /\ b[i] = es[v] /\ b[j] = es[w]
      BY <1>B, <3>0
    <3> HIDE DEF v, w
    <3>3. b[i][1] <= b[j][1]
      BY <1>q, <3>1, <3>2
    <3> QED
      BY <1>f, <2>1, <3>3 DEF b
  <2>2. CASE x = q
    <3>0. i \in DOMAIN a /\ j \in DOMAIN a
      BY <2>2 DEF a
    <3>1. a[i][1] <= a[j][1]
      BY <1>A, <1>q, <3>0
    <3> QED
      BY <1>f, <2>2, <3>1 DEF a
  <2>3. CASE x \in D /\ x # q
    <3>1. pg2[x].entries = pg[x].entries /\ pg2[x].leaf = pg[x].leaf
      BY <1>f, <2>3
    <3> QED
      BY <1>0, <2>3, <3>1 DEF Ordered, Key
  <2> QED
    BY <1>3, <2>1, <2>2, <2>3
<1>13. Ranges(pg2, lo2, hi2)
  <2> SUFFICES ASSUME NEW x \in 0..r
               PROVE  /\ hi2[x] \subseteq lo2[x]
                      /\ \A i \in DOMAIN pg2[x].entries :
                           pg2[x].entries[i][1] \in lo2[x] /\ \A k \in hi2[x] : pg2[x].entries[i][1] <= k
    BY <1>f, <1>g DEF Ranges, Key
  <2>0. es[m + 1] = t
    BY DEF t
  <2>1. CASE x = r
    <3>1. hi2[x] = hi[q] /\ lo2[x] = K
      BY <1>g, <2>1
    <3>2. ASSUME NEW i \in DOMAIN b
          PROVE  b[i][1] \in K /\ \A k \in hi[q] : b[i][1] <= k
      <4> DEFINE v == m + 1 + i
                 g == m + 1
      <4>1. v \in DOMAIN es /\ b[i] = es[v] /\ g < v /\ g \in DOMAIN es /\ es[g] = t
        BY <1>B, <1>t, <2>0
      <4> HIDE DEF v, g
      <4>2. t[1] <= es[v][1] /\ es[v][1] \in Int
        BY <1>k, <1>q, <4>1
      <4> QED
        BY <1>K, <1>q, <4>1, <4>2
    <3> QED
      BY <1>s, <2>1, <3>1, <3>2 DEF b
  <2>2. CASE x = q
    <3>1. hi2[x] = K /\ lo2[x] = lo[q]
      BY <1>f, <1>g, <2>2
    <3>2. ASSUME NEW i \in DOMAIN a
          PROVE  a[i][1] \in lo[q] /\ \A k \in K : a[i][1] <= k
      <4> DEFINE g == m + 1
      <4>1. i \in DOMAIN es /\ a[i] = es[i] /\ i < g /\ g \in DOMAIN es /\ es[g] = t
        BY <1>A, <1>n, <1>t, <2>0
      <4> HIDE DEF g
      <4>2. es[i][1] <= t[1] /\ es[i][1] \in Int /\ es[i][1] \in lo[q]
        BY <1>k, <1>q, <4>1
      <4> DEFINE u == es[i][1]
                 w == t[1]
      <4>3. u <= w /\ u \in Int /\ w \in Int /\ \A k \in K : k \in Int /\ w <= k
        BY <1>K, <1>t, <4>2
      <4> HIDE DEF u, w
      <4>4. \A k \in K : u <= k
        BY <4>3
      <4> QED
        BY <4>1, <4>2, <4>4 DEF u
    <3> QED
      BY <1>s, <2>2, <3>1, <3>2 DEF a
  <2>3. CASE x \in D /\ x # q
    <3>1. pg2[x].entries = pg[x].entries /\ hi2[x] = hi[x] /\ lo2[x] = lo[x]
      BY <1>f, <1>g, <2>3
    <3> QED
      BY <1>r, <2>3, <3>1
  <2> QED
    BY <1>3, <2>1, <2>2, <2>3
<1>u. \A x \in D : Upper(hi2, x, q, r) = hi[x]
  BY <1>f, <1>g DEF Upper
<1>p. \A x \in D : ~ pg[x].leaf => \A i \in DOMAIN pg[x].kids :
        /\ lo[pg[x].kids[i]] = IF i = 1 THEN lo[x] ELSE AtLeast(pg[x].entries[i - 1][1])
        /\ hi[pg[x].kids[i]] = IF i = Len(pg[x].kids) THEN hi[x] ELSE AtLeast(pg[x].entries[i][1])
  <2> SUFFICES ASSUME NEW x \in D, ~ pg[x].leaf, NEW i \in DOMAIN pg[x].kids
               PROVE  /\ lo[pg[x].kids[i]] = IF i = 1 THEN lo[x] ELSE AtLeast(pg[x].entries[i - 1][1])
                      /\ hi[pg[x].kids[i]] = IF i = Len(pg[x].kids) THEN hi[x] ELSE AtLeast(pg[x].entries[i][1])
    OBVIOUS
  <2> DEFINE y == pg[x].kids[i]
  <2>1. y \in D
    BY <1>x
  <2>2. /\ lo[y] = IF i = 1 THEN lo[x] ELSE AtLeast(pg[x].entries[i - 1][1])
        /\ Upper(hi, y, None, None) = IF i = Len(pg[x].kids) THEN hi[x] ELSE AtLeast(pg[x].entries[i][1])
    BY <1>0 DEF Parted, Key
  <2> HIDE DEF y
  <2>3. Upper(hi, y, None, None) = hi[y]
    BY <1>w, <2>1
  <2> QED
    BY <2>2, <2>3 DEF y
<1>h. \A j \in 1..n + 1 :
        /\ lo[ks[j]] = IF j = 1 THEN lo[q] ELSE AtLeast(es[j - 1][1])
        /\ hi[ks[j]] = IF j = n + 1 THEN hi[q] ELSE AtLeast(es[j][1])
  <2> SUFFICES ASSUME NEW j \in DOMAIN ks
               PROVE  /\ lo[ks[j]] = IF j = 1 THEN lo[q] ELSE AtLeast(es[j - 1][1])
                      /\ hi[ks[j]] = IF j = Len(ks) THEN hi[q] ELSE AtLeast(es[j][1])
    BY <1>n
  <2> QED
    BY <1>f, <1>p DEF ks, es
<1>14. Parted(pg2, hd2, lo2, hi2, q, r)
  <2>0. K = AtLeast(es[m + 1][1])
    BY DEF K, t
  <2>1. lo2[hd2.root] = Int /\ Upper(hi2, hd2.root, q, r) = {}
    BY <1>0, <1>1, <1>g, <1>u, <1>w DEF Parted
  <2>2. ASSUME NEW x \in 0..r, ~ pg2[x].leaf, NEW i \in DOMAIN pg2[x].kids
        PROVE  /\ lo2[pg2[x].kids[i]] = IF i = 1 THEN lo2[x] ELSE AtLeast(pg2[x].entries[i - 1][1])
               /\ Upper(hi2, pg2[x].kids[i], q, r) =
                    IF i = Len(pg2[x].kids) THEN hi2[x] ELSE AtLeast(pg2[x].entries[i][1])
    <3>1. CASE x = q
      <4> DEFINE y == ks[i]
      <4>0. i \in 1..m + 1 /\ i \in Int
        BY <1>c, <1>n, <2>2, <3>1 DEF ak
      <4>1. i \in 1..n + 1 /\ i # n + 1 /\ ak[i] = y
        BY <1>c, <1>n, <4>0
      <4>2. /\ y \in D /\ lo[y] = IF i = 1 THEN lo[q] ELSE AtLeast(es[i - 1][1])
            /\ hi[y] = AtLeast(es[i][1])
        BY <1>h, <1>y, <4>1
      <4> HIDE DEF y
      <4>3. i # 1 => a[i - 1] = es[i - 1]
        <5>1. i # 1 => i - 1 \in 1..m
          BY <1>n, <4>0
        <5> QED
          BY <1>a, <5>1
      <4>4. i # m + 1 => a[i] = es[i]
        <5>1. i # m + 1 => i \in 1..m
          BY <1>n, <4>0
        <5> QED
          BY <1>a, <5>1
      <4>5. lo2[y] = IF i = 1 THEN lo2[q] ELSE AtLeast(a[i - 1][1])
        BY <1>f, <1>g, <4>2, <4>3
      <4>6. Upper(hi2, y, q, r) = IF i = Len(ak) THEN hi2[q] ELSE AtLeast(a[i][1])
        BY <1>c, <1>f, <1>g, <1>u, <2>0, <4>2, <4>4
      <4> QED
        BY <3>1, <4>1, <4>5, <4>6 DEF a, ak
    <3>2. CASE x = r
      <4> DEFINE g == m + 1 + i
                 y == ks[g]
      <4>0. i \in 1..n - m /\ i \in Int
        BY <1>d, <1>n, <2>2, <3>2 DEF bk
      <4>1. g \in 1..n + 1 /\ g # 1 /\ bk[i] = y /\ (g = n + 1 <=> i = n - m)
        BY <1>d, <1>n, <4>0
      <4>2. /\ y \in D /\ lo[y] = AtLeast(es[g - 1][1])
            /\ hi[y] = IF g = n + 1 THEN hi[q] ELSE AtLeast(es[g][1])
        <5> HIDE DEF g
        <5> QED
          BY <1>h, <1>y, <4>1
      <4>3. IF i = 1 THEN es[g - 1] = es[m + 1] ELSE es[g - 1] = b[i - 1]
        <5>1. CASE i = 1
          <6>1. g - 1 = m + 1
            BY <1>n, <5>1
          <6> QED
            BY <5>1, <6>1
        <5>2. CASE i # 1
          <6>1. i - 1 \in 1..n - m - 1 /\ m + 1 + (i - 1) = g - 1
            BY <1>n, <4>0, <5>2
          <6> QED
            BY <1>b, <5>2, <6>1
        <5> QED
          BY <5>1, <5>2
      <4>4. i # n - m => b[i] = es[g]
        <5>1. i # n - m => i \in 1..n - m - 1
          BY <1>n, <4>0
        <5> QED
          BY <1>b, <5>1
      <4> HIDE DEF y, g
      <4>5. lo2[y] = IF i = 1 THEN lo2[r] ELSE AtLeast(b[i - 1][1])
        BY <1>g, <2>0, <4>2, <4>3
      <4>6. Upper(hi2, y, q, r) = IF i = Len(bk) THEN hi2[r] ELSE AtLeast(b[i][1])
        BY <1>d, <1>g, <1>u, <4>1, <4>2, <4>4
      <4> QED
        BY <3>2, <4>1, <4>5, <4>6 DEF b, bk
    <3>3. CASE x \in D /\ x # q
      <4>1. ~ pg[x].leaf /\ pg2[x].entries = pg[x].entries /\ pg2[x].kids = pg[x].kids
        BY <1>f, <2>2, <3>3
      <4> DEFINE y == pg[x].kids[i]
      <4>2. /\ y \in D
            /\ lo[y] = IF i = 1 THEN lo[x] ELSE AtLeast(pg[x].entries[i - 1][1])
            /\ hi[y] = IF i = Len(pg[x].kids) THEN hi[x] ELSE AtLeast(pg[x].entries[i][1])
        BY <1>p, <1>x, <2>2, <3>3, <4>1
      <4>3. pg2[x].kids[i] = y
        BY <4>1
      <4> HIDE DEF y
      <4>4. lo2[x] = lo[x] /\ hi2[x] = hi[x] /\ lo2[y] = lo[y] /\ Upper(hi2, y, q, r) = hi[y]
        BY <1>g, <1>u, <3>3, <4>2
      <4> QED
        BY <4>1, <4>2, <4>3, <4>4
    <3> QED
      BY <1>3, <3>1, <3>2, <3>3
  <2> QED
    BY <1>f, <2>1, <2>2 DEF Parted, Key
<1>15. Halved(pg2, hd2, level2, lo2, hi2, q, r, t)
  <2>1. ASSUME NEW x \in 0..r, ~ pg2[x].leaf PROVE ~ IsKid(pg2, r, x)
    <3>1. CASE x = q
      <4>1. \A j \in DOMAIN ak : ak[j] # r
        BY <1>2, <1>c, <1>n, <1>y
      <4> QED
        BY <3>1, <4>1 DEF IsKid, ak
    <3>2. CASE x = r
      <4>1. \A j \in DOMAIN bk : m + 1 + j \in 1..n + 1
        BY <1>d, <1>n
      <4>2. \A j \in DOMAIN bk : bk[j] # r
        BY <1>2, <1>d, <1>y, <4>1
      <4> QED
        BY <3>2, <4>2 DEF IsKid, bk
    <3>3. CASE x \in D /\ x # q
      BY <1>2, <1>f, <1>x, <2>1, <3>3 DEF IsKid
    <3> QED
      BY <1>3, <3>1, <3>2, <3>3
  <2>2. q \in 0..r /\ r \in 0..r /\ q # r /\ r # hd.root
    BY <1>1, <1>2, <1>3, <1>f
  <2>3. level2[r] = level2[q] /\ pg2[r].parent = pg2[q].parent
    <3>1. level[q] \in Nat /\ ~ (level[q] + 1 = level[q])
      BY <1>f, <1>l
    <3>2. ~ Moved(q)
      BY <1>m, <1>y, <3>1
    <3> QED
      BY <1>f, <1>g, <3>2
  <2>4. hi2[q] = AtLeast(t[1]) /\ lo2[r] = AtLeast(t[1])
    BY <1>f, <1>g DEF K
  <2> QED
    BY <1>f, <1>t, <2>1, <2>2, <2>3, <2>4 DEF Halved
<1>16. SameLeaves(pg, pg2, lo, hi, lo2, hi2)
  <2>1. \A x \in DOMAIN pg2 : pg2[x].leaf => x \in D /\ pg[x].leaf
    BY <1>3, <1>f
  <2>2. \A x \in D : pg[x].leaf =>
          /\ pg2[x].leaf /\ pg2[x].entries = pg[x].entries /\ pg2[x].next = pg[x].next /\ pg2[x].prev = pg[x].prev
          /\ lo2[x] = lo[x] /\ hi2[x] = hi[x]
    BY <1>f, <1>g
  <2>3. D \subseteq DOMAIN pg2
    BY <1>3, <1>f
  <2> QED
    BY <2>1, <2>2, <2>3 DEF SameLeaves
<1>17. Chained(pg2, hd2, chain) /\ Ascends(pg2, lo2, hi2, chain) /\ Holds(pg2, held)
  <2>1. hd2.next \in Nat /\ hd.next <= hd2.next
    BY <1>1
  <2> QED
    BY <1>0, <1>16, <2>1, LeavesKept
<1>20. Tree(pg2, hd2, level2, lo2, hi2, chain, q, r, t, held)
  BY <1>5, <1>6, <1>9, <1>11, <1>12, <1>13, <1>14, <1>15, <1>17 DEF Tree
<1> QED
  <2>1. \E level3, lo3, hi3, chain3 : Tree(pg2, hd2, level3, lo3, hi3, chain3, q, r, t, held)
    BY <1>20
  <2> QED
    BY <2>1 DEF r, t, es

\* A new root above the two halves of the old one.
RootGrown(pg, pg2, hd, l, r, s) ==
  LET q == hd.next
  IN  /\ l \in DOMAIN pg /\ pg[l].parent = None
      /\ pg2 \in [0..q -> NodeType]
      /\ \A x \in DOMAIN pg :
           /\ pg2[x].leaf = pg[x].leaf /\ pg2[x].entries = pg[x].entries /\ pg2[x].kids = pg[x].kids
           /\ pg2[x].prev = pg[x].prev /\ pg2[x].next = pg[x].next
           /\ pg2[x].parent = IF x = l \/ x = r THEN q ELSE pg[x].parent
      /\ pg2[q].leaf = FALSE /\ pg2[q].parent = None
      /\ pg2[q].entries = <<s>> /\ pg2[q].kids = <<l, r>>

\* A new root above the halves of the old one is a tree one level higher.
LEMMA RootGrow ==
  ASSUME NEW pg, NEW hd, NEW level, NEW lo, NEW hi, NEW chain, NEW l, NEW r, NEW s, NEW held, NEW u,
         Tree(pg, hd, level, lo, hi, chain, l, r, s, held),
         NEW pg2, NEW hd2, RootGrown(pg, pg2, hd, l, r, s),
         hd2.magic = TRUE, hd2.root = hd.next, hd2.next = hd.next + 1
  PROVE  \E level2, lo2, hi2, chain2 : Tree(pg2, hd2, level2, lo2, hi2, chain2, None, None, u, held)
<1> DEFINE q == hd.next
           D == DOMAIN pg
           K == AtLeast(s[1])
           v == level[l] + 1
           level2 == Put(level, q, v)
           lo2 == Put(lo, q, Int)
           hi2 == Put(hi, q, {})
<1>0. /\ Pages(pg, hd) /\ Levels(pg, hd, level, l, r) /\ Kids(pg, level) /\ Parents(pg, hd, l, r)
      /\ Ordered(pg) /\ Ranges(pg, lo, hi) /\ Parted(pg, hd, lo, hi, l, r)
      /\ Halved(pg, hd, level, lo, hi, l, r, s)
      /\ Chained(pg, hd, chain) /\ Ascends(pg, lo, hi, chain) /\ Holds(pg, held)
  BY TreeIs
<1>1. hd.next \in Nat /\ D = 0..hd.next - 1 /\ hd.root \in D /\ None \notin D
  BY <1>0, PagesAre
<1>f. /\ l \in D /\ pg[l].parent = None
      /\ pg2 \in [0..q -> NodeType] /\ DOMAIN pg2 = 0..q
      /\ \A x \in D :
           /\ pg2[x].leaf = pg[x].leaf /\ pg2[x].entries = pg[x].entries /\ pg2[x].kids = pg[x].kids
           /\ pg2[x].prev = pg[x].prev /\ pg2[x].next = pg[x].next
           /\ pg2[x].parent = IF x = l \/ x = r THEN q ELSE pg[x].parent
      /\ pg2[q].leaf = FALSE /\ pg2[q].parent = None
      /\ pg2[q].entries = <<s>> /\ pg2[q].kids = <<l, r>>
  BY DEF RootGrown
<1>h. /\ r \in D /\ l # r /\ r # hd.root /\ level[r] = level[l] /\ pg[r].parent = None
      /\ s \in KeySet \X Nat /\ hi[l] = K /\ lo[r] = K
      /\ \A x \in D : ~ pg[x].leaf => ~ IsKid(pg, r, x)
  <2>1. l # None
    BY <1>1, <1>f
  <2> QED
    BY <1>0, <1>f, <2>1 DEF Halved
<1>o. l = hd.root
  BY <1>0, <1>f, <1>h DEF Parents
<1>2. q \notin D /\ q \in Nat /\ hd2.next - 1 = q /\ hd2.next \in Nat /\ q # None
  BY <1>1 DEF None
<1>3. (\A x : x \in 0..q <=> x \in D \/ x = q) /\ 0..q = D \cup {q}
  BY <1>1
<1>t. s[1] \in Int
  BY <1>h, EntryIs
<1>l. /\ level \in [D -> Nat] /\ level[l] < hd.next /\ level[l] \in Nat /\ v \in Nat
      /\ \A x \in D : level[x] \in Nat /\ (pg[x].leaf <=> level[x] = 0) /\ level[x] < v
  <2>1. level \in [D -> Nat] /\ level[l] < hd.next /\ level[l] \in Nat
    BY <1>0, <1>f, <1>o DEF Levels
  <2>2. \A x \in D : (pg[x].leaf <=> level[x] = 0) /\ (level[x] < level[l] \/ x = l \/ x = r)
    BY <1>0, <1>o DEF Levels
  <2>3. \A x \in D : level[x] \in Nat
    BY <2>1
  <2>4. \A x \in D : level[x] < v
    BY <1>h, <2>1, <2>2, <2>3
  <2> QED
    BY <2>1, <2>2, <2>3, <2>4
<1>r. /\ lo \in [D -> UpSets] /\ hi \in [D -> UpSets]
      /\ \A x \in D :
           /\ hi[x] \subseteq lo[x]
           /\ \A i \in DOMAIN pg[x].entries :
                pg[x].entries[i][1] \in lo[x] /\ \A k \in hi[x] : pg[x].entries[i][1] <= k
  BY <1>0 DEF Ranges, Key
<1>g. /\ level2 \in [0..q -> Nat] /\ lo2 \in [0..q -> UpSets] /\ hi2 \in [0..q -> UpSets]
      /\ level2[q] = v /\ lo2[q] = Int /\ hi2[q] = {}
      /\ \A x \in D : level2[x] = level[x] /\ lo2[x] = lo[x] /\ hi2[x] = hi[x]
  <2>1. Int \in UpSets /\ {} \in UpSets
    BY DEF UpSets
  <2> HIDE DEF q, D, v
  <2> DEFINE I == Int
             O == {}
  <2>2. I \in UpSets /\ O \in UpSets /\ lo2 = Put(lo, q, I) /\ hi2 = Put(hi, q, O)
    BY <2>1
  <2>d. DOMAIN level = D /\ DOMAIN lo = D /\ DOMAIN hi = D
    BY <1>l, <1>r
  <2> HIDE DEF I, O, lo2, hi2
  <2>3. level2 \in [D \cup {q} -> Nat]
    BY <1>l, PutType
  <2>4. lo2 \in [D \cup {q} -> UpSets] /\ hi2 \in [D \cup {q} -> UpSets]
    BY <1>r, <2>2, PutType
  <2>5. \A x \in D \cup {q} :
          /\ level2[x] = IF x = q THEN v ELSE level[x]
          /\ lo2[x] = IF x = q THEN I ELSE lo[x]
          /\ hi2[x] = IF x = q THEN O ELSE hi[x]
    BY <2>2, <2>d DEF Put
  <2> HIDE DEF level2
  <2>6. /\ level2[q] = v /\ lo2[q] = I /\ hi2[q] = O
        /\ \A x \in D : level2[x] = level[x] /\ lo2[x] = lo[x] /\ hi2[x] = hi[x]
    BY <1>2, <2>5 DEF q
  <2> QED
    BY <1>3, <2>3, <2>4, <2>6 DEF I, O, q
<1>w. v = level[l] + 1
  OBVIOUS
<1>q. /\ DOMAIN pg2[q].entries = {1} /\ Len(pg2[q].entries) = 1 /\ pg2[q].entries[1] = s
      /\ DOMAIN pg2[q].kids = {1, 2} /\ Len(pg2[q].kids) = 2 /\ pg2[q].kids[1] = l /\ pg2[q].kids[2] = r
  BY <1>f
<1> HIDE DEF level2, lo2, hi2, K, q, v
<1>5. Pages(pg2, hd2)
  BY <1>2, <1>3, <1>f DEF Pages, q
<1>6. Levels(pg2, hd2, level2, None, None)
  <2>1. level2[hd2.root] = v /\ v < hd2.next
    BY <1>1, <1>g, <1>l, <1>w DEF q
  <2>2. ASSUME NEW x \in 0..q
        PROVE  (pg2[x].leaf <=> level2[x] = 0) /\ (level2[x] < level2[hd2.root] \/ x = hd2.root)
    <3>1. CASE x \in D
      BY <1>f, <1>g, <1>l, <2>1, <3>1
    <3>2. CASE x = q
      <4>1. v # 0
        BY <1>l, <1>w
      <4> QED
        BY <1>f, <1>g, <3>2, <4>1 DEF q
    <3> QED
      BY <1>3, <3>1, <3>2
  <2> QED
    BY <1>f, <1>g, <2>1, <2>2 DEF Levels
<1>x. \A x \in D : ~ pg[x].leaf =>
        /\ Len(pg[x].kids) = Len(pg[x].entries) + 1
        /\ \A i \in DOMAIN pg[x].kids :
             /\ pg[x].kids[i] \in D
             /\ pg[pg[x].kids[i]].parent = x /\ level[pg[x].kids[i]] + 1 = level[x]
        /\ \A i, j \in DOMAIN pg[x].kids : pg[x].kids[i] = pg[x].kids[j] => i = j
  BY <1>0 DEF Kids
<1>9. Kids(pg2, level2)
  <2> SUFFICES ASSUME NEW x \in 0..q, ~ pg2[x].leaf
               PROVE  /\ Len(pg2[x].kids) = Len(pg2[x].entries) + 1
                      /\ \A i \in DOMAIN pg2[x].kids :
                           /\ pg2[x].kids[i] \in 0..q
                           /\ pg2[pg2[x].kids[i]].parent = x /\ level2[pg2[x].kids[i]] + 1 = level2[x]
                      /\ \A i, j \in DOMAIN pg2[x].kids : pg2[x].kids[i] = pg2[x].kids[j] => i = j
    BY <1>f DEF Kids
  <2>1. CASE x = q
    <3>1. pg2[l].parent = q /\ level2[l] + 1 = level2[q] /\ l \in 0..q
      BY <1>3, <1>f, <1>g, <1>w
    <3>2. pg2[r].parent = q /\ level2[r] + 1 = level2[q] /\ r \in 0..q
      BY <1>3, <1>f, <1>g, <1>h, <1>w
    <3>3. Len(pg2[q].kids) = Len(pg2[q].entries) + 1
      BY <1>q
    <3>4. ASSUME NEW i \in DOMAIN pg2[q].kids
          PROVE  /\ pg2[q].kids[i] \in 0..q
                 /\ pg2[pg2[q].kids[i]].parent = q /\ level2[pg2[q].kids[i]] + 1 = level2[q]
      <4> DEFINE y == pg2[q].kids[i]
      <4>1. y = l \/ y = r
        BY <1>q
      <4> HIDE DEF y
      <4>2. y \in 0..q /\ pg2[y].parent = q /\ level2[y] + 1 = level2[q]
        BY <3>1, <3>2, <4>1
      <4> QED
        BY <4>2 DEF y
    <3>5. \A i, j \in DOMAIN pg2[q].kids : pg2[q].kids[i] = pg2[q].kids[j] => i = j
      BY <1>h, <1>q
    <3> QED
      BY <2>1, <3>3, <3>4, <3>5
  <2>2. CASE x \in D
    <3>1. ~ pg[x].leaf /\ pg2[x].entries = pg[x].entries /\ pg2[x].kids = pg[x].kids
      BY <1>f, <2>2
    <3>2. ASSUME NEW i \in DOMAIN pg[x].kids
          PROVE  /\ pg[x].kids[i] \in 0..q
                 /\ pg2[pg[x].kids[i]].parent = x /\ level2[pg[x].kids[i]] + 1 = level2[x]
      <4> DEFINE y == pg[x].kids[i]
      <4>1. y \in D /\ pg[y].parent = x /\ level[y] + 1 = level[x]
        BY <1>x, <2>2, <3>1
      <4> HIDE DEF y
      <4>2. y # l /\ y # r
        BY <1>1, <1>f, <1>h, <2>2, <4>1
      <4>3. y \in 0..q /\ pg2[y].parent = x /\ level2[y] = level[y] /\ level2[x] = level[x]
        BY <1>3, <1>f, <1>g, <2>2, <4>1, <4>2
      <4> QED
        BY <4>1, <4>3 DEF y
    <3> QED
      BY <1>x, <2>2, <3>1, <3>2
  <2> QED
    BY <1>3, <2>1, <2>2
<1>11. Parents(pg2, hd2, None, None)
  <2> SUFFICES ASSUME NEW x \in 0..q
               PROVE  IF pg2[x].parent = None
                        THEN x = q
                        ELSE pg2[x].parent \in 0..q /\ ~ pg2[pg2[x].parent].leaf /\ IsKid(pg2, x, pg2[x].parent)
    BY <1>f DEF Parents, q
  <2>1. CASE x = q
    BY <1>f, <2>1
  <2>2. CASE x = l \/ x = r
    <3>1. pg2[x].parent = q
      BY <1>f, <1>h, <2>2
    <3>2. IsKid(pg2, x, q)
      BY <1>q, <2>2 DEF IsKid
    <3> QED
      BY <1>2, <1>3, <1>f, <3>1, <3>2
  <2>3. CASE x \in D /\ x # l /\ x # r
    <3> DEFINE z == pg[x].parent
    <3>1. z # None /\ z \in D /\ ~ pg[z].leaf /\ IsKid(pg, x, z)
      BY <1>0, <1>o, <2>3 DEF Parents
    <3>2. pg2[x].parent = z
      BY <1>f, <2>3
    <3> HIDE DEF z
    <3>3. IsKid(pg2, x, z)
      BY <1>f, <3>1 DEF IsKid
    <3> QED
      BY <1>3, <1>f, <3>1, <3>2, <3>3
  <2> QED
    BY <1>3, <2>1, <2>2, <2>3
<1>12. Ordered(pg2)
  <2> SUFFICES ASSUME NEW x \in 0..q, NEW i \in DOMAIN pg2[x].entries, NEW j \in DOMAIN pg2[x].entries, i < j
               PROVE  IF pg2[x].leaf THEN Less(pg2[x].entries[i], pg2[x].entries[j])
                      ELSE pg2[x].entries[i][1] <= pg2[x].entries[j][1]
    BY <1>f DEF Ordered, Key
  <2>1. CASE x = q
    <3>1. i = 1 /\ j = 1
      BY <1>q, <2>1
    <3> QED
      BY <3>1
  <2>2. CASE x \in D
    <3>1. pg2[x].entries = pg[x].entries /\ pg2[x].leaf = pg[x].leaf
      BY <1>f, <2>2
    <3> QED
      BY <1>0, <2>2, <3>1 DEF Ordered, Key
  <2> QED
    BY <1>3, <2>1, <2>2
<1>13. Ranges(pg2, lo2, hi2)
  <2> SUFFICES ASSUME NEW x \in 0..q
               PROVE  /\ hi2[x] \subseteq lo2[x]
                      /\ \A i \in DOMAIN pg2[x].entries :
                           pg2[x].entries[i][1] \in lo2[x] /\ \A k \in hi2[x] : pg2[x].entries[i][1] <= k
    BY <1>f, <1>g DEF Ranges, Key
  <2>1. CASE x = q
    BY <1>g, <1>q, <1>t, <2>1
  <2>2. CASE x \in D
    <3>1. pg2[x].entries = pg[x].entries /\ hi2[x] = hi[x] /\ lo2[x] = lo[x]
      BY <1>f, <1>g, <2>2
    <3> QED
      BY <1>r, <2>2, <3>1
  <2> QED
    BY <1>3, <2>1, <2>2
<1>u. \A x \in 0..q : Upper(hi2, x, None, None) = hi2[x]
  BY <1>1, <1>2, <1>3 DEF Upper
<1>14. Parted(pg2, hd2, lo2, hi2, None, None)
  <2>0. lo[l] = Int /\ hi[r] = {}
    BY <1>0, <1>o DEF Parted, Upper
  <2>1. lo2[hd2.root] = Int /\ Upper(hi2, hd2.root, None, None) = {}
    BY <1>3, <1>g, <1>u DEF q
  <2>2. ASSUME NEW x \in 0..q, ~ pg2[x].leaf, NEW i \in DOMAIN pg2[x].kids
        PROVE  /\ lo2[pg2[x].kids[i]] = IF i = 1 THEN lo2[x] ELSE AtLeast(pg2[x].entries[i - 1][1])
               /\ Upper(hi2, pg2[x].kids[i], None, None) =
                    IF i = Len(pg2[x].kids) THEN hi2[x] ELSE AtLeast(pg2[x].entries[i][1])
    <3>1. CASE x = q
      <4>0. K = AtLeast(pg2[q].entries[1][1])
        BY <1>q DEF K
      <4>1. l \in 0..q /\ r \in 0..q /\ lo2[l] = Int /\ hi2[l] = K /\ lo2[r] = K /\ hi2[r] = {}
        BY <1>3, <1>f, <1>g, <1>h, <2>0
      <4>2. CASE i = 1
        BY <1>g, <1>q, <1>u, <3>1, <4>0, <4>1, <4>2
      <4>3. CASE i = 2
        <5>1. i - 1 = 1
          BY <4>3
        <5> QED
          BY <1>g, <1>q, <1>u, <3>1, <4>0, <4>1, <4>3, <5>1
      <4> QED
        BY <1>q, <2>2, <3>1, <4>2, <4>3
    <3>3. CASE x \in D
      <4>1. ~ pg[x].leaf /\ pg2[x].entries = pg[x].entries /\ pg2[x].kids = pg[x].kids
        BY <1>f, <2>2, <3>3
      <4> DEFINE y == pg[x].kids[i]
      <4>2. /\ y \in D /\ pg[y].parent = x
            /\ lo[y] = IF i = 1 THEN lo[x] ELSE AtLeast(pg[x].entries[i - 1][1])
            /\ Upper(hi, y, l, r) = IF i = Len(pg[x].kids) THEN hi[x] ELSE AtLeast(pg[x].entries[i][1])
        BY <1>0, <1>x, <2>2, <3>3, <4>1 DEF Parted, Key
      <4>3. pg2[x].kids[i] = y
        BY <4>1
      <4> HIDE DEF y
      <4>4. Upper(hi, y, l, r) = hi[y]
        BY <1>1, <1>f, <3>3, <4>2 DEF Upper
      <4>5. lo2[x] = lo[x] /\ hi2[x] = hi[x] /\ lo2[y] = lo[y] /\ Upper(hi2, y, None, None) = hi[y]
        BY <1>3, <1>g, <1>u, <3>3, <4>2
      <4> QED
        BY <4>1, <4>2, <4>3, <4>4, <4>5
    <3> QED
      BY <1>3, <3>1, <3>3
  <2> QED
    BY <1>f, <2>1, <2>2 DEF Parted, Key
<1>15. Halved(pg2, hd2, level2, lo2, hi2, None, None, u)
  BY DEF Halved
<1>16. SameLeaves(pg, pg2, lo, hi, lo2, hi2)
  <2>1. \A x \in DOMAIN pg2 : pg2[x].leaf => x \in D /\ pg[x].leaf
    BY <1>3, <1>f
  <2>2. \A x \in D : pg[x].leaf =>
          /\ pg2[x].leaf /\ pg2[x].entries = pg[x].entries /\ pg2[x].next = pg[x].next /\ pg2[x].prev = pg[x].prev
          /\ lo2[x] = lo[x] /\ hi2[x] = hi[x]
    BY <1>f, <1>g
  <2>3. D \subseteq DOMAIN pg2
    BY <1>3, <1>f
  <2> QED
    BY <2>1, <2>2, <2>3 DEF SameLeaves
<1>17. Chained(pg2, hd2, chain) /\ Ascends(pg2, lo2, hi2, chain) /\ Holds(pg2, held)
  <2>1. hd2.next \in Nat /\ hd.next <= hd2.next
    BY <1>1
  <2> QED
    BY <1>0, <1>16, <2>1, LeavesKept
<1>20. Tree(pg2, hd2, level2, lo2, hi2, chain, None, None, u, held)
  BY <1>5, <1>6, <1>9, <1>11, <1>12, <1>13, <1>14, <1>15, <1>17 DEF Tree
<1> QED
  BY <1>20

-----------------------------------------------------------------------------
(***************************************************************************)
(* The steps.                                                              *)
(***************************************************************************)
Makes(D, s, E) == Gives(D, s, E) /\ \E S : s \in Seq(S)

\* No write.
LEMMA MakesNothing == ASSUME NEW D PROVE Makes(D, <<>>, D)
<1>1. DOMAIN <<>> = {} /\ <<>> \in Seq({})
  OBVIOUS
<1> QED
  BY <1>1 DEF Makes, Gives

\* The writes of one operation after those of another.
LEMMA MakesThen ==
  ASSUME NEW s, NEW t, NEW D, NEW E, NEW F, Makes(D, s, E), Makes(E, t, F)
  PROVE  Makes(D, s \o t, F)
<1>1. PICK S : s \in Seq(S)
  BY DEF Makes
<1>2. PICK T : t \in Seq(T)
  BY DEF Makes
<1> DEFINE U == S \cup T
<1>3. s \in Seq(U) /\ t \in Seq(U)
  BY <1>1, <1>2
<1> HIDE DEF U
<1>4. Gives(D, s \o t, F)
  BY <1>3, GivesThen DEF Makes
<1>5. s \o t \in Seq(U)
  BY <1>3, Concat
<1> QED
  BY <1>4, <1>5 DEF Makes

\* The header written.
LEMMA MakesHead ==
  ASSUME NEW pages, NEW header, NEW root, NEW next, None \notin DOMAIN pages
  PROVE  Makes(Disk(pages, header), <<HeadWrite(root, next)>>, Disk(pages, [magic |-> TRUE, root |-> root, next |-> next]))
<1> DEFINE w == HeadWrite(root, next)
<1>1. <<w>> \in Seq({w})
  OBVIOUS
<1>2. Gives(Disk(pages, header), <<w>>, Disk(pages, [magic |-> TRUE, root |-> root, next |-> next]))
  BY GivesHead
<1> QED
  BY <1>1, <1>2 DEF Makes

\* One page written.
LEMMA MakesPage ==
  ASSUME NEW pages, NEW header, NEW p, NEW node, p # None
  PROVE  Makes(Disk(pages, header), <<PageWrite(p, node)>>, Disk(Put(pages, p, node), header))
<1> DEFINE w == PageWrite(p, node)
<1>1. <<w>> \in Seq({w})
  OBVIOUS
<1>2. Gives(Disk(pages, header), <<w>>, Disk(Put(pages, p, node), header))
  BY GivesPage
<1> QED
  BY <1>1, <1>2 DEF Makes

\* A new page is handed out.
LEMMA MakesAllocate ==
  ASSUME NEW leaf, None \notin DOMAIN page, head.next # None
  PROVE  Makes(Disk(page, head), Allocate(leaf),
               Disk(Put(page, head.next, Blank(leaf)), [magic |-> TRUE, root |-> head.root, next |-> head.next + 1]))
<1> DEFINE h == [magic |-> TRUE, root |-> head.root, next |-> head.next + 1]
           a == HeadWrite(head.root, head.next + 1)
           b == PageWrite(head.next, Blank(leaf))
<1>1. Makes(Disk(page, head), <<a>>, Disk(page, h))
  BY MakesHead
<1>2. Makes(Disk(page, h), <<b>>, Disk(Put(page, head.next, Blank(leaf)), h))
  BY MakesPage
<1>3. Allocate(leaf) = <<a>> \o <<b>>
  BY DEF Allocate
<1> HIDE DEF h, a, b
<1>4. Makes(Disk(page, head), <<a>> \o <<b>>, Disk(Put(page, head.next, Blank(leaf)), h))
  BY <1>1, <1>2, MakesThen
<1> QED
  BY <1>3, <1>4 DEF h

\* What is a tree stays one while the index is the same.
LEMMA TreeNext ==
  ASSUME unique' = unique,
         NEW pg, NEW hd, NEW level, NEW lo, NEW hi, NEW chain, NEW l, NEW r, NEW s, NEW held,
         Tree(pg, hd, level, lo, hi, chain, l, r, s, held)
  PROVE  Tree(pg, hd, level, lo, hi, chain, l, r, s, held)'
<1>1. KeySet' = KeySet
  BY DEF KeySet
<1>2. NodeType' = NodeType
  BY <1>1 DEF NodeType
<1>3. Pages(pg, hd)'
  BY <1>2 DEF Tree, Pages
<1>4. Halved(pg, hd, level, lo, hi, l, r, s)'
  BY <1>1 DEF Tree, Halved
<1>5. /\ Levels(pg, hd, level, l, r)' /\ Kids(pg, level)' /\ Parents(pg, hd, l, r)'
      /\ Ordered(pg)' /\ Ranges(pg, lo, hi)' /\ Parted(pg, hd, lo, hi, l, r)'
      /\ Chained(pg, hd, chain)' /\ Ascends(pg, lo, hi, chain)' /\ Holds(pg, held)'
  BY DEF Tree
<1> QED
  BY <1>3, <1>4, <1>5 DEF Tree

\* What the writes to be made next lead to.
LEMMA TreeMade ==
  ASSUME unique' = unique, NEW D,
         NEW pg, NEW hd, NEW level, NEW lo, NEW hi, NEW chain, NEW l, NEW r, NEW s, NEW held,
         Tree(pg, hd, level, lo, hi, chain, l, r, s, held),
         D = Disk(page', head'), Gives(D, todo', Disk(pg, hd)),
         l = left', r = right', s = sep', held = entered', pc' = "idle" <=> l = None
  PROVE  TreeInv'
<1>1. Tree(pg, hd, level, lo, hi, chain, l, r, s, held)'
  BY TreeNext
<1>2. (TreeAt(left, right, sep, entered))'
  BY <1>1 DEF TreeAt
<1> QED
  BY <1>2 DEF TreeInv

\* While no write is to be made the tree is on disk.
LEMMA QuietTree ==
  ASSUME Types, TreeInv, ~ torn, todo = <<>>
  PROVE  /\ \E level, lo, hi, chain : Tree(page, head, level, lo, hi, chain, left, right, sep, entered)
         /\ pc = "idle" <=> left = None
         /\ pc = "idle" => right = None
<1>1. PICK pg, hd, level, lo, hi, chain :
        /\ Gives(Disk(page, head), todo, Disk(pg, hd))
        /\ Tree(pg, hd, level, lo, hi, chain, left, right, sep, entered)
  BY DEF TreeInv, TreeAt
<1>2. Pages(pg, hd) /\ Halved(pg, hd, level, lo, hi, left, right, sep)
  BY <1>1, TreeIs
<1>3. pg \in [DOMAIN pg -> NodeType] /\ None \notin DOMAIN pg
  BY <1>2, PagesAre DEF Pages
<1>4. page \in [DOMAIN page -> PageNode] /\ None \notin DOMAIN page
  <2>1. page \in [DOMAIN page -> PageNode] /\ DOMAIN page \subseteq 0..head.next - 1
    BY DEF Types, Typed
  <2> QED
    BY <2>1 DEF None
<1>5. page = pg /\ head = hd
  BY <1>1, <1>3, <1>4, GivesNothing
<1>6. pc = "idle" <=> left = None
  BY DEF TreeInv
<1>7. left = None => right = None
  BY <1>2, <1>3 DEF Halved
<1> QED
  BY <1>1, <1>5, <1>6, <1>7

\* A new file is a tree of one leaf.
LEMMA BlankTree ==
  ASSUME NEW s
  PROVE  \E level, lo, hi, chain :
           Tree([x \in {0} |-> Blank(TRUE)], [magic |-> TRUE, root |-> 0, next |-> 1], level, lo, hi, chain, None, None, s, {})
<1> DEFINE pg == [x \in {0} |-> Blank(TRUE)]
           hd == [magic |-> TRUE, root |-> 0, next |-> 1]
           level == [x \in {0} |-> 0]
           lo == [x \in {0} |-> Int]
           hi == [x \in {0} |-> {}]
           chain == <<0>>
           B == Blank(TRUE)
<1>1. /\ B \in NodeType /\ B.leaf = TRUE /\ B.entries = <<>> /\ B.kids = <<>>
      /\ B.parent = None /\ B.prev = None /\ B.next = None
  BY DEF Blank, Node, NodeType
<1>2. hd.magic = TRUE /\ hd.root = 0 /\ hd.next = 1
  OBVIOUS
<1>3. DOMAIN pg = {0} /\ pg[0] = B
  OBVIOUS
<1>4. 0..0 = {0} /\ 1 - 1 = 0 /\ 0 # None
  BY DEF None
<1>5. pg \in [0..hd.next - 1 -> NodeType]
  BY <1>1, <1>2, <1>4
<1>e. DOMAIN <<>> = {}
  OBVIOUS
<1>7. level \in [{0} -> Nat] /\ level[0] = 0
  OBVIOUS
<1>8. lo \in [{0} -> UpSets] /\ hi \in [{0} -> UpSets] /\ lo[0] = Int /\ hi[0] = {}
  BY DEF UpSets
<1>9. chain \in Seq({0}) /\ Len(chain) = 1 /\ DOMAIN chain = {1} /\ chain[1] = 0
  OBVIOUS
<1> HIDE DEF pg, hd, level, lo, hi, chain, B
<1>6. DOMAIN B.entries = {}
  BY <1>1, <1>e
<1>10. Pages(pg, hd)
  BY <1>1, <1>2, <1>3, <1>5 DEF Pages
<1>11. Levels(pg, hd, level, None, None)
  BY <1>1, <1>2, <1>3, <1>7 DEF Levels
<1>12. Kids(pg, level) /\ Parents(pg, hd, None, None)
  BY <1>1, <1>2, <1>3 DEF Kids, Parents
<1>13. Ordered(pg) /\ Ranges(pg, lo, hi)
  BY <1>3, <1>6, <1>8 DEF Ordered, Ranges
<1>14. Parted(pg, hd, lo, hi, None, None)
  BY <1>1, <1>2, <1>3, <1>4, <1>8 DEF Parted, Upper
<1>15. Halved(pg, hd, level, lo, hi, None, None, s)
  BY DEF Halved
<1>16. Chained(pg, hd, chain)
  BY <1>1, <1>2, <1>3, <1>9 DEF Chained
<1>17. Ascends(pg, lo, hi, chain)
  BY <1>9 DEF Ascends
<1>18. Holds(pg, {})
  BY <1>3, <1>6 DEF Holds, Occurs
<1>19. Tree(pg, hd, level, lo, hi, chain, None, None, s, {})
  BY <1>10, <1>11, <1>12, <1>13, <1>14, <1>15, <1>16, <1>17, <1>18 DEF Tree
<1>20. \E level2, lo2, hi2, chain2 : Tree(pg, hd, level2, lo2, hi2, chain2, None, None, s, {})
  BY <1>19
<1> QED
  BY <1>20 DEF pg, hd

\* The tree of a file that was just created.
LEMMA InitTree == ASSUME Init PROVE TreeInv
<1> DEFINE pg == [x \in {0} |-> Blank(TRUE)]
           hd == [magic |-> TRUE, root |-> 0, next |-> 1]
<1>1. /\ page = pg /\ head = hd /\ todo = <<>> /\ left = None /\ right = None /\ entered = {} /\ pc = "idle"
  BY DEF Init
<1>2. PICK level, lo, hi, chain : Tree(pg, hd, level, lo, hi, chain, None, None, sep, {})
  BY BlankTree
<1> HIDE DEF pg, hd
<1>3. Gives(Disk(page, head), todo, Disk(pg, hd))
  BY <1>1, MakesNothing DEF Makes
<1>4. TreeAt(left, right, sep, entered)
  BY <1>1, <1>2, <1>3 DEF TreeAt
<1> QED
  BY <1>1, <1>4 DEF TreeInv

\* A rebuild starts a new tree.
LEMMA RebuildTree == ASSUME Types, TreeInv, unique' = unique, Rebuild PROVE TreeInv'
<1> DEFINE none == [p \in {} |-> Blank(TRUE)]
           pg == [x \in {0} |-> Blank(TRUE)]
           hd == [magic |-> TRUE, root |-> 0, next |-> 1]
           h0 == [magic |-> FALSE, root |-> None, next |-> 0]
           a == HeadWrite(0, 1)
           b == PageWrite(0, Blank(TRUE))
<1>1. /\ page' = none /\ head' = h0 /\ todo' = BlankFile /\ entered' = {} /\ torn' = FALSE
      /\ pc' = "idle" /\ left' = left /\ right' = right /\ sep' = sep /\ pc = "idle"
  BY DEF Rebuild, Start, Idle, split
<1>2. left = None /\ right = None
  BY <1>1 DEF Types, Typed, None
<1>3. PICK level, lo, hi, chain : Tree(pg, hd, level, lo, hi, chain, None, None, sep, {})
  BY BlankTree
<1>4. BlankFile = <<a>> \o <<b>>
  <2>1. BlankFile = <<a, b>>
    BY DEF BlankFile
  <2> HIDE DEF a, b
  <2>2. <<a, b>> = <<a>> \o <<b>>
    BY TwoWrites
  <2> QED
    BY <2>1, <2>2
<1>5. DOMAIN none = {} /\ 0 # None
  BY DEF None
<1>6. Makes(Disk(none, h0), <<a>>, Disk(none, hd))
  <2> HIDE DEF none, h0
  <2> QED
    BY <1>5, MakesHead
<1>7. Makes(Disk(none, hd), <<b>>, Disk(Put(none, 0, Blank(TRUE)), hd))
  <2> HIDE DEF none, hd
  <2> QED
    BY <1>5, MakesPage
<1>8. Put(none, 0, Blank(TRUE)) = pg
  BY DEF Put
<1> HIDE DEF none, pg, hd, h0, a, b
<1>9. Makes(Disk(none, h0), <<a>> \o <<b>>, Disk(pg, hd))
  BY <1>6, <1>7, <1>8, MakesThen
<1> DEFINE D == Disk(page', head')
<1>10. Gives(D, todo', Disk(pg, hd))
  BY <1>1, <1>4, <1>9 DEF Makes
<1> HIDE DEF D
<1>11. D = Disk(page', head')
  BY DEF D
<1>12. None = left' /\ None = right' /\ sep = sep' /\ {} = entered' /\ (pc' = "idle" <=> None = None)
  BY <1>1, <1>2
<1> QED
  BY <1>3, <1>10, <1>11, <1>12, TreeMade

\* A write brings the disk nearer to the tree it leads to.
LEMMA WriteTree == ASSUME Types, TreeInv, unique' = unique, Write PROVE TreeInv'
<1>1. /\ todo # <<>> /\ todo' = Tail(todo) /\ torn' = torn /\ entered' = entered
      /\ pc' = pc /\ left' = left /\ right' = right /\ sep' = sep
  BY DEF Write, split, history
<1>2. CASE torn
  BY <1>1, <1>2 DEF TreeInv
<1>3. CASE ~ torn
  <2>1. PICK pg, hd, level, lo, hi, chain :
          /\ Gives(Disk(page, head), todo, Disk(pg, hd))
          /\ Tree(pg, hd, level, lo, hi, chain, left, right, sep, entered)
    BY <1>3 DEF TreeInv, TreeAt
  <2> DEFINE w == Head(todo)
             D == Disk(page', head')
  <2>2. PICK S : todo \in Seq(S)
    BY DEF Types, Typed, Ready
  <2>3. \E known, T : Ready(T, known, todo)
    BY DEF Types, Typed
  <2>4. w \in HeadWrites \cup NodeWrites
    BY <1>1, <2>3, ReadyTail
  <2>n. None \notin DOMAIN page
    <3>1. DOMAIN page \subseteq 0..head.next - 1
      BY DEF Types, Typed
    <3> QED
      BY <3>1 DEF None
  <2>5. D = Put(Disk(page, head), Onto(w), What(w))
    <3>1. CASE w.head
      <4> DEFINE h == [magic |-> TRUE, root |-> w.root, next |-> w.next]
      <4>1. head' = h /\ page' = page /\ Onto(w) = None /\ What(w) = h
        BY <3>1 DEF Write, Onto, What
      <4> HIDE DEF h, w
      <4>2. Put(Disk(page, head), None, h) = Disk(page, h)
        BY DEF Put, Disk
      <4> QED
        BY <4>1, <4>2
    <3>2. CASE ~ w.head
      <4> DEFINE p == w.page
                 node == w.node
      <4>1. head' = head /\ page' = Put(page, p, node) /\ Onto(w) = p /\ What(w) = node
        BY <3>2 DEF Write, Onto, What, Put
      <4>2. p # None
        <5> HIDE DEF w
        <5>1. \A v : v \in HeadWrites => v.head = TRUE
          BY DEF HeadWrites
        <5>2. w \in NodeWrites
          BY <2>4, <3>2, <5>1
        <5>3. \A v : v \in NodeWrites => v.page \in Nat
          BY DEF NodeWrites
        <5>4. w.page \in Nat
          BY <5>2, <5>3
        <5> QED
          BY <5>4 DEF None
      <4> HIDE DEF w, p, node
      <4>3. Put(Disk(page, head), p, node) = Disk(Put(page, p, node), head)
        <5> DEFINE E == Put(Disk(page, head), p, node)
                   F == Disk(Put(page, p, node), head)
        <5>1. E = [x \in (DOMAIN page \cup {None}) \cup {p} |-> IF x = p THEN node ELSE IF x = None THEN head ELSE page[x]]
          BY DEF Put, Disk
        <5>2. F = [x \in (DOMAIN page \cup {p}) \cup {None} |-> IF x = None THEN head ELSE IF x = p THEN node ELSE page[x]]
          BY DEF Put, Disk
        <5>3. (DOMAIN page \cup {None}) \cup {p} = (DOMAIN page \cup {p}) \cup {None}
          OBVIOUS
        <5> HIDE DEF E, F
        <5> QED
          BY <4>2, <5>1, <5>2, <5>3 DEF E, F
      <4> QED
        BY <4>1, <4>3
    <3> QED
      BY <3>1, <3>2
  <2> HIDE DEF w
  <2>6. Gives(Put(Disk(page, head), Onto(w), What(w)), Tail(todo), Disk(pg, hd))
    <3> HIDE DEF D
    <3> QED
      BY <1>1, <2>1, <2>2, GivesTail DEF w
  <2> HIDE DEF D
  <2>7. Gives(D, todo', Disk(pg, hd))
    BY <1>1, <2>5, <2>6
  <2>8. D = Disk(page', head')
    BY DEF D
  <2>9. left = left' /\ right = right' /\ sep = sep' /\ entered = entered' /\ (pc' = "idle" <=> left = None)
    BY <1>1, <1>3 DEF TreeInv
  <2> QED
    BY <2>1, <2>7, <2>8, <2>9, TreeMade
<1> QED
  BY <1>2, <1>3

\* A file that a crash cut is not promised to be a tree.
LEMMA CrashTree == ASSUME Crash PROVE TreeInv'
BY DEF Crash, TreeInv

\* What touches neither the pages nor the writes to come keeps the tree.
LEMMA SameTree ==
  ASSUME TreeInv, unique' = unique, UNCHANGED vars PROVE TreeInv'
<1>1. /\ page' = page /\ head' = head /\ todo' = todo /\ torn' = torn /\ entered' = entered
      /\ pc' = pc /\ left' = left /\ right' = right /\ sep' = sep
  BY DEF vars, file, split, history
<1>2. CASE torn
  BY <1>1, <1>2 DEF TreeInv
<1>3. CASE ~ torn
  <2>1. PICK pg, hd, level, lo, hi, chain :
          /\ Gives(Disk(page, head), todo, Disk(pg, hd))
          /\ Tree(pg, hd, level, lo, hi, chain, left, right, sep, entered)
    BY <1>3 DEF TreeInv, TreeAt
  <2> DEFINE D == Disk(page', head')
  <2>2. Gives(D, todo', Disk(pg, hd))
    BY <1>1, <2>1
  <2>3. left = left' /\ right = right' /\ sep = sep' /\ entered = entered' /\ (pc' = "idle" <=> left = None)
    BY <1>1, <1>3 DEF TreeInv
  <2>4. D = Disk(page', head')
    OBVIOUS
  <2> HIDE DEF D
  <2> QED
    BY <2>1, <2>2, <2>3, <2>4, TreeMade
<1> QED
  BY <1>2, <1>3

\* The parent of the left half knows it.
LEMMA ParentLostTree == ASSUME Types, TreeInv, unique' = unique, ParentLost PROVE TreeInv'
<1>1. torn' = torn /\ pc = "parent" /\ todo = <<>> /\ page[left].parent # None
      /\ Position(left, page[page[left].parent]) = {}
  BY DEF ParentLost, history, Ascending
<1>2. CASE torn
  BY <1>1, <1>2 DEF TreeInv
<1>3. CASE ~ torn
  <2>1. PICK level, lo, hi, chain : Tree(page, head, level, lo, hi, chain, left, right, sep, entered)
    BY <1>1, <1>3, QuietTree
  <2>2. left # None
    BY <1>1, <1>3, QuietTree
  <2>3. Parents(page, head, left, right) /\ Halved(page, head, level, lo, hi, left, right, sep)
    BY <2>1, TreeIs
  <2>4. left \in DOMAIN page /\ left # right
    BY <2>2, <2>3 DEF Halved
  <2>5. IsKid(page, left, page[left].parent)
    BY <1>1, <2>3, <2>4 DEF Parents
  <2>6. FALSE
    BY <1>1, <2>5 DEF IsKid, Position
  <2> QED
    BY <2>6
<1> QED
  BY <1>2, <1>3

\* What the writes to come lead to is the tree, and it is kept.
LEMMA TreeKeptBy ==
  ASSUME unique' = unique,
         NEW pg, NEW hd, NEW l, NEW r, NEW s, NEW held,
         \E level, lo, hi, chain : Tree(pg, hd, level, lo, hi, chain, l, r, s, held),
         Makes(Disk(page', head'), todo', Disk(pg, hd)),
         l = left', r = right', s = sep', held = entered', pc' = "idle" <=> l = None
  PROVE  TreeInv'
<1>1. PICK level, lo, hi, chain : Tree(pg, hd, level, lo, hi, chain, l, r, s, held)
  OBVIOUS
<1> DEFINE D == Disk(page', head')
<1>2. Gives(D, todo', Disk(pg, hd))
  BY DEF Makes
<1>3. D = Disk(page', head')
  OBVIOUS
<1> HIDE DEF D
<1> QED
  BY <1>1, <1>2, <1>3, TreeMade

\* A page with other entries.
EntriesPut(pg, pg2, p, es) ==
  /\ p \in DOMAIN pg /\ pg2 \in [DOMAIN pg -> NodeType]
  /\ \A x \in DOMAIN pg :
       /\ pg2[x].entries = IF x = p THEN es ELSE pg[x].entries
       /\ pg2[x].leaf = pg[x].leaf /\ pg2[x].kids = pg[x].kids
       /\ pg2[x].parent = pg[x].parent /\ pg2[x].prev = pg[x].prev /\ pg2[x].next = pg[x].next

\* A page put with other entries.
LEMMA EntriesMade ==
  ASSUME NEW pg, NEW p, NEW es, pg \in [DOMAIN pg -> NodeType], p \in DOMAIN pg, es \in Seq(KeySet \X Nat)
  PROVE  EntriesPut(pg, Put(pg, p, [pg[p] EXCEPT !.entries = es]), p, es)
<1> DEFINE node == [pg[p] EXCEPT !.entries = es]
           pg2 == Put(pg, p, node)
<1>1. pg[p] \in NodeType
  OBVIOUS
<1>2. /\ node \in NodeType /\ node.entries = es /\ node.leaf = pg[p].leaf /\ node.kids = pg[p].kids
      /\ node.parent = pg[p].parent /\ node.prev = pg[p].prev /\ node.next = pg[p].next
  BY <1>1 DEF NodeType
<1> HIDE DEF node
<1>3. DOMAIN pg \cup {p} = DOMAIN pg
  OBVIOUS
<1>4. pg2 \in [DOMAIN pg \cup {p} -> NodeType]
  BY <1>2, PutType
<1>5. \A x \in DOMAIN pg : pg2[x] = IF x = p THEN node ELSE pg[x]
  BY <1>3 DEF Put
<1> HIDE DEF pg2
<1>6. pg2 \in [DOMAIN pg -> NodeType]
  BY <1>3, <1>4
<1>7. EntriesPut(pg, pg2, p, es)
  BY <1>2, <1>5, <1>6 DEF EntriesPut
<1> QED
  BY <1>7 DEF pg2, node

Later(held, e) == \A f \in held : f[2] < e[2]

\* An entry put into a leaf that has room.
LEMMA LeafEntered ==
  ASSUME NEW pg, NEW hd, NEW level, NEW lo, NEW hi, NEW chain, NEW l, NEW r, NEW s, NEW held,
         Tree(pg, hd, level, lo, hi, chain, l, r, s, held),
         NEW pg2, NEW p, NEW e, EntriesPut(pg, pg2, p, WithEntry(pg[p], e)), pg[p].leaf,
         e \in KeySet \X Nat, e[1] \in lo[p], e[1] \notin hi[p], Later(held, e)
  PROVE  Tree(pg2, hd, level, lo, hi, chain, l, r, s, held \cup {e})
<1> DEFINE es == WithEntry(pg[p], e)
<1>1. /\ p \in DOMAIN pg /\ pg2 \in [DOMAIN pg -> NodeType]
      /\ \A x \in DOMAIN pg :
           /\ pg2[x].entries = IF x = p THEN es ELSE pg[x].entries
           /\ pg2[x].leaf = pg[x].leaf /\ pg2[x].kids = pg[x].kids
           /\ pg2[x].parent = pg[x].parent /\ pg2[x].prev = pg[x].prev /\ pg2[x].next = pg[x].next
  BY DEF EntriesPut
<1>2. \A f \in held : f[2] < e[2]
  BY DEF Later
<1> QED
  BY <1>1, <1>2, LeafEnter

\* An entry taken out of a leaf.
LEMMA LeafEmptied ==
  ASSUME NEW pg, NEW hd, NEW level, NEW lo, NEW hi, NEW chain, NEW l, NEW r, NEW s, NEW held,
         Tree(pg, hd, level, lo, hi, chain, l, r, s, held),
         NEW pg2, NEW p, NEW i, EntriesPut(pg, pg2, p, Without(pg[p].entries, i)), pg[p].leaf,
         i \in DOMAIN pg[p].entries
  PROVE  Tree(pg2, hd, level, lo, hi, chain, l, r, s, held \ {pg[p].entries[i]})
<1>1. /\ p \in DOMAIN pg /\ pg2 \in [DOMAIN pg -> NodeType]
      /\ \A x \in DOMAIN pg :
           /\ pg2[x].entries = IF x = p THEN Without(pg[p].entries, i) ELSE pg[x].entries
           /\ pg2[x].leaf = pg[x].leaf /\ pg2[x].kids = pg[x].kids
           /\ pg2[x].parent = pg[x].parent /\ pg2[x].prev = pg[x].prev /\ pg2[x].next = pg[x].next
  BY DEF EntriesPut
<1> QED
  BY <1>1, LeafLess

\* An entry is taken out of the leaf a search for its key ends at.
LEMMA DeleteEntryTree ==
  ASSUME Types, TreeInv, unique' = unique, NEW e, DeleteEntry(e)
  PROVE  TreeInv'
<1> DEFINE p == FindLeaf(e[1])
<1>1. /\ torn' = torn /\ pc = "idle" /\ todo = <<>> /\ todo' = todo /\ pc' = pc /\ head' = head
      /\ left' = left /\ right' = right /\ sep' = sep /\ p \in DOMAIN page /\ entered' = entered \ {e}
  BY DEF DeleteEntry, split, Idle
<1>2. PICK i \in DOMAIN page[p].entries :
        page[p].entries[i] = e /\ page' = [page EXCEPT ![p].entries = Without(@, i)]
  BY DEF DeleteEntry
<1>3. CASE torn
  BY <1>1, <1>3 DEF TreeInv
<1>4. CASE ~ torn
  <2>1. PICK level, lo, hi, chain : Tree(page, head, level, lo, hi, chain, left, right, sep, entered)
    BY <1>1, <1>4, QuietTree
  <2>2. Pages(page, head)
    BY <2>1, TreeIs
  <2>3. page[p].leaf
    BY <1>1, FoundIsLeaf
  <2> DEFINE es == Without(page[p].entries, i)
             pg2 == page'
  <2> HIDE DEF p
  <2>4. page \in [DOMAIN page -> NodeType] /\ page[p].entries \in Seq(KeySet \X Nat)
    <3>1. page \in [0..head.next - 1 -> NodeType] /\ DOMAIN page = 0..head.next - 1
      BY <2>2, PagesAre DEF Pages
    <3>2. page[p].entries \in Seq(KeySet \X Nat)
      BY <1>1, <2>2, PagesAre
    <3> QED
      BY <3>1, <3>2
  <2>5. es \in Seq(KeySet \X Nat)
    BY <1>2, <2>4, WithoutIs
  <2>6. pg2 = Put(page, p, [page[p] EXCEPT !.entries = es])
    <3>1. DOMAIN page \cup {p} = DOMAIN page
      BY <1>1
    <3> QED
      BY <1>1, <1>2, <2>4, <3>1 DEF Put
  <2> HIDE DEF pg2
  <2>7. EntriesPut(page, pg2, p, Without(page[p].entries, i))
    BY <1>1, <2>4, <2>5, <2>6, EntriesMade
  <2>8. Tree(pg2, head, level, lo, hi, chain, left, right, sep, entered \ {page[p].entries[i]})
    BY <1>2, <2>1, <2>3, <2>7, LeafEmptied
  <2>9. \E level2, lo2, hi2, chain2 : Tree(pg2, head, level2, lo2, hi2, chain2, left, right, sep, entered')
    BY <1>1, <1>2, <2>8
  <2>10. Makes(Disk(page', head'), todo', Disk(pg2, head))
    BY <1>1, MakesNothing DEF pg2
  <2>11. pc' = "idle" <=> left = None
    BY <1>1, <1>4 DEF TreeInv
  <2>12. left = left' /\ right = right' /\ sep = sep'
    BY <1>1
  <2> QED
    BY <2>9, <2>10, <2>11, <2>12, TreeKeptBy
<1> QED
  BY <1>3, <1>4

\* The leaf an insertion goes to, and the tree once its entry is put there.
LEMMA EnteredTree ==
  ASSUME Types, TreeInv, ~ torn, NEW k \in KeySet, Enter(k), NEW p, p = FindLeaf(k), NEW e, e = <<k, count + 1>>,
         NEW es, es = WithEntry(page[p], e), NEW pg2, pg2 = Put(page, p, [page[p] EXCEPT !.entries = es])
  PROVE  /\ Pages(page, head) /\ left = None /\ right = None /\ p \in DOMAIN page /\ page[p].leaf
         /\ page[p] \in NodeType /\ es \in Seq(KeySet \X Nat)
         /\ entered' = entered \cup {e}
         /\ EntriesPut(page, pg2, p, es)
         /\ \E level, lo, hi, chain : Tree(pg2, head, level, lo, hi, chain, None, None, sep, entered')
<1>1. pc = "idle" /\ todo = <<>> /\ entered' = entered \cup {e}
  BY DEF Enter, Idle
<1>2. PICK level, lo, hi, chain : Tree(page, head, level, lo, hi, chain, left, right, sep, entered)
  BY <1>1, QuietTree
<1>3. left = None /\ right = None
  BY <1>1, QuietTree
<1>4. Tree(page, head, level, lo, hi, chain, None, None, sep, entered)
  BY <1>2, <1>3
<1>5. /\ Pages(page, head) /\ Levels(page, head, level, None, None) /\ Kids(page, level) /\ Ordered(page)
      /\ Parted(page, head, lo, hi, None, None)
  BY <1>4, TreeIs
<1>6. e \in KeySet \X Nat /\ es \in Seq(KeySet \X Nat)
  BY Entering
<1>7. k \in Int /\ e[1] = k /\ e[2] = count + 1
  <2>1. e[1] \in Int
    BY <1>6, EntryIs
  <2>2. e[1] = k /\ e[2] = count + 1
    OBVIOUS
  <2> QED
    BY <2>1, <2>2
<1>8. p \in DOMAIN page /\ page[p].leaf /\ k \in lo[p] /\ k \notin hi[p]
  BY <1>5, <1>7, FindLeafIs
<1>9. page \in [DOMAIN page -> NodeType]
  <2>1. page \in [0..head.next - 1 -> NodeType] /\ DOMAIN page = 0..head.next - 1
    BY <1>5, PagesAre DEF Pages
  <2> QED
    BY <2>1
<1>10. EntriesPut(page, pg2, p, es)
  BY <1>6, <1>8, <1>9, EntriesMade
<1>12. Later(entered, e)
  <2>1. count \in 0..MaxEntries /\ entered \subseteq KeySet \X (1..count)
    BY DEF Types, Typed
  <2> SUFFICES ASSUME NEW f \in entered PROVE f[2] < e[2]
    BY DEF Later
  <2>2. f[2] \in 1..count
    BY <2>1
  <2> QED
    BY <1>7, <2>1, <2>2, BoundsAssumption
<1>13. Tree(pg2, head, level, lo, hi, chain, None, None, sep, entered \cup {e})
  <2>1. EntriesPut(page, pg2, p, WithEntry(page[p], e)) /\ e[1] \in lo[p] /\ e[1] \notin hi[p]
    BY <1>7, <1>8, <1>10
  <2> QED
    BY <1>4, <1>6, <1>8, <1>12, <2>1, LeafEntered
<1>14. page[p] \in NodeType
  BY <1>8, <1>9
<1> QED
  BY <1>1, <1>3, <1>5, <1>6, <1>8, <1>10, <1>13, <1>14

\* An entry is put in the leaf that is for its key.
LEMMA InsertFitsTree ==
  ASSUME Types, TreeInv, unique' = unique, NEW k \in KeySet, InsertFits(k)
  PROVE  TreeInv'
<1> DEFINE p == FindLeaf(k)
           e == <<k, count + 1>>
           es == WithEntry(page[p], e)
           node == [page[p] EXCEPT !.entries = es]
           pg2 == Put(page, p, node)
<1>1. /\ Enter(k) /\ todo' = <<PageWrite(p, node)>> /\ pc' = pc /\ left' = left /\ right' = right /\ sep' = sep
  BY DEF InsertFits, split
<1>2. torn' = torn /\ pc = "idle" /\ page' = page /\ head' = head
  BY <1>1 DEF Enter, file, Idle
<1>3. CASE torn
  BY <1>2, <1>3 DEF TreeInv
<1>4. CASE ~ torn
  <2>0. p = FindLeaf(k) /\ e = <<k, count + 1>> /\ es = WithEntry(page[p], e)
        /\ pg2 = Put(page, p, [page[p] EXCEPT !.entries = es])
    OBVIOUS
  <2> HIDE DEF p, e, es, pg2
  <2>1. /\ Pages(page, head) /\ left = None /\ right = None /\ p \in DOMAIN page
        /\ \E level, lo, hi, chain : Tree(pg2, head, level, lo, hi, chain, None, None, sep, entered')
    BY <1>1, <1>4, <2>0, EnteredTree
  <2>2. p # None
    BY <2>1, PagesAre DEF None
  <2> HIDE DEF node
  <2>3. Makes(Disk(page, head), <<PageWrite(p, node)>>, Disk(Put(page, p, node), head))
    BY <2>2, MakesPage
  <2>4. Makes(Disk(page', head'), todo', Disk(pg2, head))
    BY <1>1, <1>2, <2>3 DEF pg2
  <2>5. None = left' /\ None = right' /\ sep = sep' /\ (pc' = "idle" <=> None = None)
    BY <1>1, <1>2, <2>1
  <2> QED
    BY <2>1, <2>4, <2>5, TreeKeptBy
<1> QED
  BY <1>3, <1>4

\* Two pages written one after the other.
LEMMA MakesTwo ==
  ASSUME NEW pages, NEW header, NEW p, NEW a, NEW q, NEW b, p # None, q # None
  PROVE  Makes(Disk(pages, header), <<PageWrite(p, a), PageWrite(q, b)>>,
               Disk(Put(Put(pages, p, a), q, b), header))
<1> DEFINE v == PageWrite(p, a)
           w == PageWrite(q, b)
           mid == Put(pages, p, a)
           end == Put(mid, q, b)
<1>1. Makes(Disk(pages, header), <<v>>, Disk(mid, header))
  BY MakesPage
<1>2. Makes(Disk(mid, header), <<w>>, Disk(end, header))
  <2> HIDE DEF mid
  <2> QED
    BY MakesPage
<1> HIDE DEF v, w, mid, end
<1>3. <<v, w>> = <<v>> \o <<w>>
  BY TwoWrites
<1>4. Makes(Disk(pages, header), <<v>> \o <<w>>, Disk(end, header))
  BY <1>1, <1>2, MakesThen
<1>5. Makes(Disk(pages, header), <<v, w>>, Disk(end, header))
  BY <1>3, <1>4
<1> QED
  BY <1>5 DEF v, w, mid, end

\* The leaf after a leaf is another one.
LEMMA NextLeaf ==
  ASSUME NEW pg, NEW hd, NEW chain, NEW p, Pages(pg, hd), Chained(pg, hd, chain), p \in DOMAIN pg, pg[p].leaf
  PROVE  pg[p].next = None \/ (pg[p].next \in DOMAIN pg /\ pg[p].next # p)
<1>1. PICK i \in DOMAIN chain : chain[i] = p
  BY ChainIs
<1>2. Len(chain) \in Nat /\ DOMAIN chain = 1..Len(chain)
  BY ChainIs
<1>3. pg[p].next = IF i = Len(chain) THEN None ELSE chain[i + 1]
  BY <1>1, ChainIs
<1>4. CASE i = Len(chain)
  BY <1>3, <1>4
<1>5. CASE i # Len(chain)
  <2>1. i + 1 \in DOMAIN chain /\ i + 1 # i
    BY <1>2, <1>5
  <2>2. chain[i + 1] \in DOMAIN pg /\ chain[i + 1] # chain[i]
    BY <2>1, ChainIs
  <2> QED
    BY <1>1, <1>3, <1>5, <2>2
<1> QED
  BY <1>4, <1>5

\* The pages once the leaf n after a new leaf r goes back to that.
PrevLinked(pg, L, n, r) ==
  /\ DOMAIN L = DOMAIN pg \cup {r}
  /\ \A x \in DOMAIN pg : L[x] = IF x = n THEN [pg[x] EXCEPT !.prev = r] ELSE pg[x]

\* The two halves written: one in the place of p, two in that of the new page r.
HalvesWritten(pg, F, p, n, r, one, two) ==
  /\ F = [x \in DOMAIN F |-> F[x]]
  /\ DOMAIN F = DOMAIN pg \cup {r} /\ F[r] = two
  /\ \A x \in DOMAIN pg : F[x] = IF x = p THEN one ELSE IF x = n THEN [pg[x] EXCEPT !.prev = r] ELSE pg[x]

\* The two halves written, and the back link of the leaf behind them.
LEMMA HalvesPut ==
  ASSUME NEW pg, NEW L, NEW p, NEW n, NEW r, NEW one, NEW two, PrevLinked(pg, L, n, r), p \in DOMAIN pg, r \notin DOMAIN pg
  PROVE  HalvesWritten(pg, Put(Put(L, p, one), r, two), p, n, r, one, two)
<1> DEFINE F == Put(Put(L, p, one), r, two)
<1>1. DOMAIN L = DOMAIN pg \cup {r} /\ \A x \in DOMAIN pg : L[x] = IF x = n THEN [pg[x] EXCEPT !.prev = r] ELSE pg[x]
  BY DEF PrevLinked
<1>2. DOMAIN Put(L, p, one) = DOMAIN L \cup {p} /\ DOMAIN F = (DOMAIN L \cup {p}) \cup {r}
  BY DEF Put
<1>3. DOMAIN F = DOMAIN pg \cup {r}
  BY <1>1, <1>2
<1>4. F[r] = two
  BY <1>2 DEF Put
<1>5. p # r /\ F[p] = one
  BY <1>1, <1>2 DEF Put
<1>6. \A x \in DOMAIN pg : x # p => F[x] = L[x]
  BY <1>1, <1>2 DEF Put
<1>7. F = [x \in DOMAIN F |-> F[x]]
  BY DEF Put
<1> HIDE DEF F
<1>8. \A x \in DOMAIN pg : F[x] = IF x = p THEN one ELSE IF x = n THEN [pg[x] EXCEPT !.prev = r] ELSE pg[x]
  BY <1>1, <1>5, <1>6
<1>9. HalvesWritten(pg, F, p, n, r, one, two)
  BY <1>3, <1>4, <1>7, <1>8 DEF HalvesWritten
<1> QED
  BY <1>9 DEF F

\* The halves of the leaf p that all the entries are too many for.
FirstHalf(node, all, h, r) == [node EXCEPT !.entries = SubSeq(all, 1, h), !.next = r]
SecondHalf(node, all, h, p) == Node(TRUE, From(all, h + 1), <<>>, node.parent, p, node.next)

Halvable(node, all, h, p, r) ==
  node \in NodeType /\ all \in Seq(KeySet \X Nat) /\ h \in 1..Len(all) - 1 /\ p \in Nat /\ r \in Nat

AreHalves(one, two, node, all, h, p, r) ==
  /\ one \in NodeType /\ one.entries = SubSeq(all, 1, h) /\ one.leaf = node.leaf /\ one.kids = node.kids
  /\ one.parent = node.parent /\ one.prev = node.prev /\ one.next = r
  /\ two \in NodeType /\ two.leaf = TRUE /\ two.entries = From(all, h + 1) /\ two.kids = <<>>
  /\ two.parent = node.parent /\ two.prev = p /\ two.next = node.next

\* The two halves that splitLeaf makes of a leaf.
LEMMA HalfNodes ==
  ASSUME NEW node, NEW all, NEW h, NEW p, NEW r, Halvable(node, all, h, p, r)
  PROVE  AreHalves(FirstHalf(node, all, h, r), SecondHalf(node, all, h, p), node, all, h, p, r)
<1>h. node \in NodeType /\ all \in Seq(KeySet \X Nat) /\ h \in 1..Len(all) - 1 /\ p \in Nat /\ r \in Nat
  BY DEF Halvable
<1>1. SubSeq(all, 1, h) \in Seq(KeySet \X Nat) /\ From(all, h + 1) \in Seq(KeySet \X Nat)
  <2>1. Len(all) \in Nat
    BY <1>h, SeqIs
  <2>2. h \in 0..Len(all)
    BY <1>h, <2>1
  <2> QED
    BY <1>h, <2>2, PartsAre
<1> DEFINE T == Seq(KeySet \X Nat)
           first == SubSeq(all, 1, h)
           rest == From(all, h + 1)
<1>2. first \in T /\ rest \in T /\ <<>> \in Seq(Nat)
  BY <1>1
<1> HIDE DEF T, first, rest
<1>3. node.next \in Nat \cup {None} /\ node.parent \in Nat \cup {None}
  BY <1>h DEF NodeType
<1> DEFINE one == [node EXCEPT !.entries = first, !.next = r]
           two == Node(TRUE, rest, <<>>, node.parent, p, node.next)
<1>4. /\ one \in NodeType /\ one.entries = first /\ one.leaf = node.leaf /\ one.kids = node.kids
      /\ one.parent = node.parent /\ one.prev = node.prev /\ one.next = r
  BY <1>h, <1>2 DEF NodeType, T
<1>5. /\ two \in NodeType /\ two.leaf = TRUE /\ two.entries = rest /\ two.kids = <<>>
      /\ two.parent = node.parent /\ two.prev = p /\ two.next = node.next
  BY <1>h, <1>2, <1>3 DEF NodeType, Node, T
<1> HIDE DEF one, two
<1>6. AreHalves(one, two, node, all, h, p, r)
  BY <1>4, <1>5 DEF AreHalves, first, rest
<1>7. one = FirstHalf(node, all, h, r) /\ two = SecondHalf(node, all, h, p)
  BY DEF one, two, FirstHalf, SecondHalf, first, rest
<1> QED
  BY <1>6, <1>7

\* The pages that the writes of a split lead to.
LEMMA HalvesMade ==
  ASSUME NEW pg, NEW hd, NEW p, NEW all, NEW h, NEW n, NEW r, NEW pg1, NEW F, NEW one, NEW two,
         Pages(pg, hd), p \in DOMAIN pg, pg[p].leaf, h \in 1..Len(all) - 1,
         n = pg[p].next, n # p, r = hd.next, EntriesPut(pg, pg1, p, all), HalvesWritten(pg, F, p, n, r, one, two),
         AreHalves(one, two, pg[p], all, h, p, r)
  PROVE  LeafHalved(pg1, F, hd, p, h)
<1> DEFINE first == SubSeq(all, 1, h)
           rest == From(all, h + 1)
<1>1. /\ DOMAIN pg \cup {r} = 0..r /\ r \in Nat /\ pg \in [DOMAIN pg -> NodeType]
  <2>1. hd.next \in Nat /\ DOMAIN pg = 0..hd.next - 1
    BY PagesAre
  <2>2. pg \in [0..hd.next - 1 -> NodeType]
    BY DEF Pages
  <2> QED
    BY <2>1, <2>2
<1>2. DOMAIN pg1 = DOMAIN pg
  BY DEF EntriesPut
<1>3. /\ one \in NodeType /\ one.entries = SubSeq(all, 1, h) /\ one.leaf = pg[p].leaf /\ one.kids = pg[p].kids
      /\ one.parent = pg[p].parent /\ one.prev = pg[p].prev /\ one.next = r
      /\ two \in NodeType /\ two.leaf = TRUE /\ two.entries = From(all, h + 1) /\ two.kids = <<>>
      /\ two.parent = pg[p].parent /\ two.prev = p /\ two.next = pg[p].next
  BY DEF AreHalves
<1>10. /\ F = [x \in DOMAIN F |-> F[x]] /\ DOMAIN F = 0..r /\ F[r] = two
       /\ \A x \in DOMAIN pg : F[x] = IF x = p THEN one ELSE IF x = n THEN [pg[x] EXCEPT !.prev = r] ELSE pg[x]
  BY <1>1 DEF HalvesWritten
<1> HIDE DEF first, rest
<1>11. ASSUME NEW x \in DOMAIN pg
       PROVE  /\ F[x] \in NodeType
              /\ F[x].leaf = pg[x].leaf /\ F[x].kids = pg[x].kids /\ F[x].parent = pg[x].parent
              /\ F[x].entries = IF x = p THEN first ELSE pg[x].entries
              /\ F[x].prev = IF x = n THEN r ELSE pg[x].prev
              /\ F[x].next = IF x = p THEN r ELSE pg[x].next
  <2>1. CASE x = p
    BY <1>3, <1>10, <2>1 DEF first
  <2>2. CASE x # p /\ x = n
    <3> DEFINE node == [pg[x] EXCEPT !.prev = r]
    <3>1. pg[x] \in NodeType
      BY <1>1
    <3>2. /\ node \in NodeType /\ node.leaf = pg[x].leaf /\ node.kids = pg[x].kids /\ node.parent = pg[x].parent
          /\ node.entries = pg[x].entries /\ node.prev = r /\ node.next = pg[x].next
      BY <1>1, <3>1 DEF NodeType
    <3>3. F[x] = node
      BY <1>10, <2>2
    <3> HIDE DEF node
    <3> QED
      BY <2>2, <3>2, <3>3
  <2>3. CASE x # p /\ x # n
    BY <1>1, <1>10, <2>3
  <2> QED
    BY <2>1, <2>2, <2>3
<1>12. F \in [0..r -> NodeType]
  <2>1. \A x \in 0..r : F[x] \in NodeType
    <3> SUFFICES ASSUME NEW x \in 0..r PROVE F[x] \in NodeType
      OBVIOUS
    <3>1. x \in DOMAIN pg \/ x = r
      BY <1>1
    <3> QED
      BY <1>3, <1>10, <1>11, <3>1
  <2> QED
    BY <1>10, <2>1
<1>13. /\ p \in DOMAIN pg1 /\ pg1[p].leaf /\ pg1[p].entries = all /\ pg1[p].next = n /\ pg1[p].parent = pg[p].parent
       /\ \A x \in DOMAIN pg1 :
            /\ pg1[x].leaf = pg[x].leaf /\ pg1[x].kids = pg[x].kids /\ pg1[x].parent = pg[x].parent
            /\ pg1[x].prev = pg[x].prev /\ pg1[x].next = pg[x].next
            /\ x # p => pg1[x].entries = pg[x].entries
  BY <1>2 DEF EntriesPut
<1>14. ASSUME NEW x \in DOMAIN pg1
       PROVE  /\ F[x].leaf = pg1[x].leaf /\ F[x].kids = pg1[x].kids /\ F[x].parent = pg1[x].parent
              /\ F[x].entries = IF x = p THEN first ELSE pg1[x].entries
              /\ F[x].prev = IF x = n THEN r ELSE pg1[x].prev
              /\ F[x].next = IF x = p THEN r ELSE pg1[x].next
  <2>1. x \in DOMAIN pg
    BY <1>2
  <2>2. /\ pg1[x].leaf = pg[x].leaf /\ pg1[x].kids = pg[x].kids /\ pg1[x].parent = pg[x].parent
        /\ pg1[x].prev = pg[x].prev /\ pg1[x].next = pg[x].next
        /\ x # p => pg1[x].entries = pg[x].entries
    BY <1>13
  <2> QED
    BY <1>11, <2>1, <2>2
<1>15. /\ F[r].leaf = TRUE /\ F[r].kids = <<>> /\ F[r].parent = pg1[p].parent
       /\ F[r].entries = rest /\ F[r].prev = p /\ F[r].next = pg1[p].next
  BY <1>3, <1>10, <1>13 DEF rest
<1> DEFINE N == pg1[p].next
           es == pg1[p].entries
<1>16. N = n /\ es = all /\ r = hd.next
  BY <1>13
<1>17. /\ p \in DOMAIN pg1 /\ pg1[p].leaf /\ h \in 1..Len(es) - 1 /\ F \in [0..hd.next -> NodeType]
       /\ F[hd.next].leaf = TRUE /\ F[hd.next].kids = <<>> /\ F[hd.next].parent = pg1[p].parent
       /\ F[hd.next].entries = From(es, h + 1)
       /\ F[hd.next].prev = p /\ F[hd.next].next = N
  BY <1>12, <1>13, <1>15, <1>16 DEF rest
<1>18. \A x \in DOMAIN pg1 :
         /\ F[x].leaf = pg1[x].leaf /\ F[x].kids = pg1[x].kids /\ F[x].parent = pg1[x].parent
         /\ F[x].entries = IF x = p THEN SubSeq(es, 1, h) ELSE pg1[x].entries
         /\ F[x].prev = IF x = N THEN hd.next ELSE pg1[x].prev
         /\ F[x].next = IF x = p THEN hd.next ELSE pg1[x].next
  BY <1>14, <1>16 DEF first
<1> QED
  BY <1>17, <1>18 DEF LeafHalved

\* The leaf after the split one, if there is one, is linked to the new leaf.
LEMMA MakesLinkPrev ==
  ASSUME NEW hd, NEW n, NEW r, NEW node, n = None \/ n \in DOMAIN page, None \notin DOMAIN page, n # r
  PROVE  \E L : /\ Makes(Disk(Put(page, r, node), hd), LinkPrev(n, r), Disk(L, hd))
                /\ r \notin DOMAIN page => PrevLinked(page, L, n, r)
<1> DEFINE P == Put(page, r, node)
<1>1. DOMAIN P = DOMAIN page \cup {r} /\ \A x \in DOMAIN page : x # r => P[x] = page[x]
  BY DEF Put
<1>2. CASE n = None
  <2>1. LinkPrev(n, r) = <<>>
    BY <1>2 DEF LinkPrev
  <2> HIDE DEF P
  <2>2. Makes(Disk(P, hd), LinkPrev(n, r), Disk(P, hd))
    BY <2>1, MakesNothing
  <2>3. r \notin DOMAIN page => PrevLinked(page, P, n, r)
    BY <1>1, <1>2 DEF PrevLinked
  <2> QED
    BY <2>2, <2>3 DEF P
<1>3. CASE n # None
  <2> DEFINE w == [page[n] EXCEPT !.prev = r]
             L == Put(P, n, w)
  <2>1. LinkPrev(n, r) = <<PageWrite(n, w)>>
    BY <1>3 DEF LinkPrev
  <2>2. DOMAIN L = DOMAIN P \cup {n} /\ \A x \in DOMAIN P : L[x] = IF x = n THEN w ELSE P[x]
    BY DEF Put
  <2> HIDE DEF P
  <2>3. Makes(Disk(P, hd), <<PageWrite(n, w)>>, Disk(L, hd))
    <3> HIDE DEF w
    <3> QED
      BY <1>3, MakesPage
  <2>4. r \notin DOMAIN page => PrevLinked(page, L, n, r)
    <3> HIDE DEF L
    <3> QED
      BY <1>1, <1>3, <2>2 DEF PrevLinked
  <2>5. Makes(Disk(P, hd), LinkPrev(n, r), Disk(L, hd))
    BY <2>1, <2>3
  <2> HIDE DEF L
  <2> QED
    BY <2>4, <2>5 DEF P
<1> QED
  BY <1>2, <1>3

\* A leaf that overflows is halved.
LEMMA InsertSplitsTree ==
  ASSUME Types, TreeInv, unique' = unique, NEW k \in KeySet, InsertSplits(k)
  PROVE  TreeInv'
<1> DEFINE p == FindLeaf(k)
           e == <<k, count + 1>>
           all == WithEntry(page[p], e)
           half == Len(all) \div 2
           r == head.next
           n == page[p].next
           one == [page[p] EXCEPT !.entries = SubSeq(all, 1, half), !.next = r]
           two == Node(TRUE, From(all, half + 1), <<>>, page[p].parent, p, n)
           hd == [magic |-> TRUE, root |-> head.root, next |-> r + 1]
           pg1 == Put(page, p, [page[p] EXCEPT !.entries = all])
           P == Put(page, r, Blank(TRUE))
           S == Allocate(TRUE)
           V == LinkPrev(n, r)
           W == <<PageWrite(p, one), PageWrite(r, two)>>
<1>1. /\ Enter(k) /\ ~ Fits(all) /\ todo' = (S \o V) \o W
      /\ pc' = "parent" /\ left' = p /\ right' = r /\ sep' = all[half + 1]
  BY DEF InsertSplits, Halves
<1>2. torn' = torn /\ pc = "idle" /\ page' = page /\ head' = head
  BY <1>1 DEF Enter, file, Idle
<1>3. CASE torn
  BY <1>2, <1>3 DEF TreeInv
<1>4. CASE ~ torn
  <2>0. p = FindLeaf(k) /\ e = <<k, count + 1>> /\ all = WithEntry(page[p], e)
        /\ pg1 = Put(page, p, [page[p] EXCEPT !.entries = all])
    OBVIOUS
  <2>z. /\ one = [page[p] EXCEPT !.entries = SubSeq(all, 1, half), !.next = r]
        /\ two = Node(TRUE, From(all, half + 1), <<>>, page[p].parent, p, page[p].next)
        /\ r = head.next /\ n = page[p].next /\ half = Len(all) \div 2
    OBVIOUS
  <2>y. hd.magic = TRUE /\ hd.root = head.root /\ hd.next = head.next + 1
    OBVIOUS
  <2>x. S = Allocate(TRUE) /\ V = LinkPrev(n, r)
    OBVIOUS
  <2> HIDE DEF p, e, all, pg1, one, two, half, r, n, hd, S, V
  <2>1. /\ Pages(page, head) /\ left = None /\ right = None /\ p \in DOMAIN page /\ page[p].leaf
        /\ page[p] \in NodeType /\ all \in Seq(KeySet \X Nat) /\ EntriesPut(page, pg1, p, all)
        /\ \E level, lo, hi, chain : Tree(pg1, head, level, lo, hi, chain, None, None, sep, entered')
    BY <1>1, <1>4, <2>0, EnteredTree
  <2>2. PICK level0, lo0, hi0, chain0 : Tree(page, head, level0, lo0, hi0, chain0, left, right, sep, entered)
    <3>1. todo = <<>>
      BY <1>1 DEF Enter, Idle
    <3> QED
      BY <1>4, <3>1, QuietTree
  <2>3. Chained(page, head, chain0)
    BY <2>2, TreeIs
  <2>4. (n = None \/ n \in DOMAIN page) /\ n # p
    <3>1. page[p].next = None \/ (page[p].next \in DOMAIN page /\ page[p].next # p)
      BY <2>1, <2>3, NextLeaf
    <3>2. p # None
      BY <2>1, PagesAre DEF None
    <3> QED
      BY <2>z, <3>1, <3>2
  <2>5. r \notin DOMAIN page /\ r \in Nat /\ p \in Nat /\ r # None /\ p # None /\ None \notin DOMAIN page
    <3>1. /\ head.next \in Nat /\ DOMAIN page = 0..head.next - 1 /\ None \notin DOMAIN page
          /\ p \in Nat /\ p < head.next
      BY <2>1, PagesAre
    <3>2. r \notin DOMAIN page
      BY <2>z, <3>1
    <3> QED
      BY <2>z, <3>1, <3>2 DEF None
  <2>6. half \in 1..Len(all) - 1
    <3>1. Len(all) \in Nat
      BY <2>1, SeqIs
    <3>2. Len(all) > Order
      BY <1>1, <3>1, OrderAssumption DEF Fits
    <3> QED
      BY <2>z, <3>1, <3>2, OrderAssumption
  <2>7. n # r
    BY <2>4, <2>5
  <2> DEFINE B == Blank(TRUE)
  <2>8. PICK L : /\ Makes(Disk(Put(page, r, B), hd), V, Disk(L, hd))
                 /\ r \notin DOMAIN page => PrevLinked(page, L, n, r)
    <3> HIDE DEF B
    <3>1. \E L : /\ Makes(Disk(Put(page, r, B), hd), LinkPrev(n, r), Disk(L, hd))
                 /\ r \notin DOMAIN page => PrevLinked(page, L, n, r)
      BY <2>4, <2>5, <2>7, MakesLinkPrev
    <3> QED
      BY <2>x, <3>1
  <2>9. PrevLinked(page, L, n, r)
    BY <2>5, <2>8
  <2> DEFINE F == Put(Put(L, p, one), r, two)
  <2>10. Makes(Disk(page, head), S, Disk(P, hd))
    <3>1. head.next # None
      BY <2>5, <2>z
    <3>2. Makes(Disk(page, head), Allocate(TRUE),
               Disk(Put(page, head.next, Blank(TRUE)), [magic |-> TRUE, root |-> head.root, next |-> head.next + 1]))
      BY <2>5, <3>1, MakesAllocate
    <3> QED
      BY <3>2 DEF S, r, hd
  <2>11. Makes(Disk(L, hd), W, Disk(F, hd))
    BY <2>5, MakesTwo
  <2>12. HalvesWritten(page, F, p, n, r, one, two)
    BY <2>1, <2>5, <2>9, HalvesPut
  <2> HIDE DEF F, W, P
  <2>13. Makes(Disk(page, head), (S \o V) \o W, Disk(F, hd))
    <3>1. Makes(Disk(P, hd), V, Disk(L, hd))
      BY <2>8 DEF P
    <3>2. Makes(Disk(page, head), S \o V, Disk(L, hd))
      BY <2>10, <3>1, MakesThen
    <3> QED
      BY <2>11, <3>2, MakesThen
  <2>14. AreHalves(one, two, page[p], all, half, p, r)
    <3>1. Halvable(page[p], all, half, p, r)
      BY <2>1, <2>5, <2>6 DEF Halvable
    <3>2. one = FirstHalf(page[p], all, half, r) /\ two = SecondHalf(page[p], all, half, p)
      BY <2>z DEF FirstHalf, SecondHalf
    <3> QED
      BY <3>1, <3>2, HalfNodes
  <2>15. LeafHalved(pg1, F, head, p, half)
    BY <2>1, <2>4, <2>6, <2>12, <2>14, <2>z, HalvesMade
  <2>16. PICK level, lo, hi, chain : Tree(pg1, head, level, lo, hi, chain, None, None, sep, entered')
    BY <2>1
  <2>17. \E level2, lo2, hi2, chain2 :
           Tree(F, hd, level2, lo2, hi2, chain2, p, head.next, pg1[p].entries[half + 1], entered')
    BY <2>15, <2>16, <2>y, HalveLeaf
  <2>18. pg1[p].entries = all
    BY <2>1 DEF EntriesPut
  <2>19. \E level2, lo2, hi2, chain2 : Tree(F, hd, level2, lo2, hi2, chain2, p, r, all[half + 1], entered')
    BY <2>17, <2>18, <2>z
  <2>20. Makes(Disk(page', head'), todo', Disk(F, hd))
    BY <1>1, <1>2, <2>13
  <2>21. p = left' /\ r = right' /\ all[half + 1] = sep' /\ (pc' = "idle" <=> p = None)
    BY <1>1, <2>5
  <2> QED
    BY <2>19, <2>20, <2>21, TreeKeptBy
<1> QED
  BY <1>3, <1>4

\* A split that is to be entered in the parent is on disk.
LEMMA AscendTree ==
  ASSUME Types, TreeInv, ~ torn, Ascending
  PROVE  /\ \E level, lo, hi, chain : Tree(page, head, level, lo, hi, chain, left, right, sep, entered)
         /\ Pages(page, head) /\ left # None /\ left \in DOMAIN page /\ right \in DOMAIN page /\ left # right
<1>1. pc = "parent" /\ todo = <<>>
  BY DEF Ascending
<1>2. PICK level, lo, hi, chain : Tree(page, head, level, lo, hi, chain, left, right, sep, entered)
  BY <1>1, QuietTree
<1>3. left # None
  BY <1>1, QuietTree
<1>4. Pages(page, head) /\ Halved(page, head, level, lo, hi, left, right, sep)
  BY <1>2, TreeIs
<1>5. left \in DOMAIN page /\ right \in DOMAIN page /\ left # right
  BY <1>3, <1>4 DEF Halved
<1> QED
  BY <1>2, <1>3, <1>4, <1>5

\* The header and a page written.
LEMMA MakesHeadPage ==
  ASSUME NEW pages, NEW header, NEW root, NEW next, NEW p, NEW node, p # None, None \notin DOMAIN pages
  PROVE  Makes(Disk(pages, header), <<HeadWrite(root, next), PageWrite(p, node)>>,
               Disk(Put(pages, p, node), [magic |-> TRUE, root |-> root, next |-> next]))
<1> DEFINE v == HeadWrite(root, next)
           w == PageWrite(p, node)
           h == [magic |-> TRUE, root |-> root, next |-> next]
           end == Put(pages, p, node)
<1>1. Makes(Disk(pages, header), <<v>>, Disk(pages, h))
  BY MakesHead
<1>2. Makes(Disk(pages, h), <<w>>, Disk(end, h))
  <2> HIDE DEF h
  <2> QED
    BY MakesPage
<1> HIDE DEF v, w, h, end
<1>3. <<v, w>> = <<v>> \o <<w>>
  BY TwoWrites
<1>4. Makes(Disk(pages, header), <<v>> \o <<w>>, Disk(end, h))
  BY <1>1, <1>2, MakesThen
<1>5. Makes(Disk(pages, header), <<v, w>>, Disk(end, h))
  BY <1>3, <1>4
<1> QED
  BY <1>5 DEF v, w, h, end

\* Four writes are two and two.
LEMMA FourWrites == ASSUME NEW a, NEW b, NEW c, NEW d PROVE <<a, b, c, d>> = <<a, b>> \o <<c, d>>
OBVIOUS

\* A page with another parent.
Under(node, q) == [node EXCEPT !.parent = q]

\* A page under another parent.
LEMMA UnderIs ==
  ASSUME NEW node, NEW q, node \in NodeType, q \in Nat
  PROVE  /\ Under(node, q) \in NodeType /\ Under(node, q).leaf = node.leaf /\ Under(node, q).entries = node.entries
         /\ Under(node, q).kids = node.kids /\ Under(node, q).prev = node.prev /\ Under(node, q).next = node.next
         /\ Under(node, q).parent = q
BY DEF Under, NodeType

\* A new root.
RootIs(node, l, r, s) ==
  /\ node \in NodeType /\ node.leaf = FALSE /\ node.parent = None /\ node.entries = <<s>> /\ node.kids = <<l, r>>

\* The root that growRoot makes.
LEMMA RootNode ==
  ASSUME NEW l, NEW r, NEW s, l \in Nat, r \in Nat, s \in KeySet \X Nat
  PROVE  RootIs(Node(FALSE, <<s>>, <<l, r>>, None, None, None), l, r, s)
<1> DEFINE U == KeySet \X Nat
           T == Seq(U)
           one == <<s>>
           two == <<l, r>>
           node == Node(FALSE, one, two, None, None, None)
<1>1. one \in T
  <2> HIDE DEF U
  <2>1. s \in U
    BY DEF U
  <2> QED
    BY <2>1
<1>2. two \in Seq(Nat)
  OBVIOUS
<1>3. NodeType = [leaf : BOOLEAN, entries : T, kids : Seq(Nat), parent : Nat \cup {None}, prev : Nat \cup {None}, next : Nat \cup {None}]
  BY DEF NodeType
<1> HIDE DEF T, U, one, two
<1>4. node \in NodeType /\ node.leaf = FALSE /\ node.parent = None /\ node.entries = one /\ node.kids = two
  BY <1>1, <1>2, <1>3 DEF Node
<1> HIDE DEF node
<1>5. RootIs(node, l, r, s)
  BY <1>4 DEF RootIs, one, two
<1> QED
  BY <1>5 DEF node, one, two

\* The pages with a new root q.
RootWritten(pg, F, l, r, q, node) ==
  /\ F = [x \in DOMAIN F |-> F[x]] /\ DOMAIN F = DOMAIN pg \cup {q} /\ F[q] = node
  /\ \A x \in DOMAIN pg : F[x] = IF x = l \/ x = r THEN Under(pg[x], q) ELSE pg[x]

\* The new root and its two children written.
LEMMA RootPut ==
  ASSUME NEW pg, NEW l, NEW r, NEW q, NEW node, NEW B, l \in DOMAIN pg, r \in DOMAIN pg, l # r, q \notin DOMAIN pg
  PROVE  RootWritten(pg, Put(Put(Put(Put(pg, q, B), q, node), l, Under(pg[l], q)), r, Under(pg[r], q)), l, r, q, node)
<1> DEFINE f1 == Put(pg, q, B)
           f2 == Put(f1, q, node)
           f3 == Put(f2, l, Under(pg[l], q))
           f4 == Put(f3, r, Under(pg[r], q))
<1>1. DOMAIN f1 = DOMAIN pg \cup {q} /\ \A x \in DOMAIN pg : f1[x] = pg[x]
  BY DEF Put
<1> HIDE DEF f1
<1>2. DOMAIN f2 = DOMAIN pg \cup {q} /\ f2[q] = node /\ \A x \in DOMAIN pg : f2[x] = pg[x]
  BY <1>1 DEF Put
<1> HIDE DEF f2
<1>3. DOMAIN f3 = DOMAIN pg \cup {q} /\ f3[q] = node
      /\ \A x \in DOMAIN pg : f3[x] = IF x = l THEN Under(pg[x], q) ELSE pg[x]
  BY <1>2 DEF Put
<1> HIDE DEF f3
<1>4. DOMAIN f4 = DOMAIN pg \cup {q} /\ f4[q] = node
      /\ \A x \in DOMAIN pg : f4[x] = IF x = l \/ x = r THEN Under(pg[x], q) ELSE pg[x]
  BY <1>3 DEF Put
<1>5. f4 = [x \in DOMAIN f4 |-> f4[x]]
  BY DEF Put
<1> HIDE DEF f4
<1>6. RootWritten(pg, f4, l, r, q, node)
  BY <1>4, <1>5 DEF RootWritten
<1> QED
  BY <1>6 DEF f1, f2, f3, f4

\* The pages that the writes of a new root lead to.
LEMMA RootMade ==
  ASSUME NEW pg, NEW hd, NEW l, NEW r, NEW s, NEW node, NEW F, Pages(pg, hd),
         l \in DOMAIN pg, r \in DOMAIN pg, pg[l].parent = None,
         RootIs(node, l, r, s), RootWritten(pg, F, l, r, hd.next, node)
  PROVE  RootGrown(pg, F, hd, l, r, s)
<1> DEFINE q == hd.next
<1>1. DOMAIN pg \cup {q} = 0..q /\ q \in Nat /\ pg \in [DOMAIN pg -> NodeType]
  <2>1. hd.next \in Nat /\ DOMAIN pg = 0..hd.next - 1
    BY PagesAre
  <2>2. pg \in [0..hd.next - 1 -> NodeType]
    BY DEF Pages
  <2> QED
    BY <2>1, <2>2
<1>2. /\ node \in NodeType /\ node.leaf = FALSE /\ node.parent = None /\ node.entries = <<s>> /\ node.kids = <<l, r>>
  BY DEF RootIs
<1>3. /\ F = [x \in DOMAIN F |-> F[x]] /\ DOMAIN F = 0..q /\ F[q] = node
      /\ \A x \in DOMAIN pg : F[x] = IF x = l \/ x = r THEN Under(pg[x], q) ELSE pg[x]
  BY <1>1 DEF RootWritten
<1> HIDE DEF q
<1>4. ASSUME NEW x \in DOMAIN pg
      PROVE  /\ F[x] \in NodeType
             /\ F[x].leaf = pg[x].leaf /\ F[x].entries = pg[x].entries /\ F[x].kids = pg[x].kids
             /\ F[x].prev = pg[x].prev /\ F[x].next = pg[x].next
             /\ F[x].parent = IF x = l \/ x = r THEN q ELSE pg[x].parent
  <2>1. pg[x] \in NodeType
    BY <1>1
  <2>2. CASE x = l \/ x = r
    <3>1. F[x] = Under(pg[x], q)
      BY <1>3, <2>2
    <3> QED
      BY <1>1, <2>1, <2>2, <3>1, UnderIs
  <2>3. CASE ~ (x = l \/ x = r)
    <3>1. F[x] = pg[x]
      BY <1>3, <2>3
    <3> QED
      BY <2>1, <2>3, <3>1
  <2> QED
    BY <2>2, <2>3
<1>5. F \in [0..q -> NodeType]
  <2>1. \A x \in 0..q : F[x] \in NodeType
    <3> SUFFICES ASSUME NEW x \in 0..q PROVE F[x] \in NodeType
      OBVIOUS
    <3>1. x \in DOMAIN pg \/ x = q
      BY <1>1
    <3> QED
      BY <1>2, <1>3, <1>4, <3>1
  <2> QED
    BY <1>3, <2>1
<1>6. F[q].leaf = FALSE /\ F[q].parent = None /\ F[q].entries = <<s>> /\ F[q].kids = <<l, r>>
  BY <1>2, <1>3
<1>7. \A x \in DOMAIN pg :
        /\ F[x].leaf = pg[x].leaf /\ F[x].entries = pg[x].entries /\ F[x].kids = pg[x].kids
        /\ F[x].prev = pg[x].prev /\ F[x].next = pg[x].next
        /\ F[x].parent = IF x = l \/ x = r THEN q ELSE pg[x].parent
  BY <1>4
<1> QED
  BY <1>5, <1>6, <1>7 DEF RootGrown, q

\* The root was split: a new root above the two halves.
LEMMA GrowRootTree ==
  ASSUME Types, TreeInv, unique' = unique, GrowRoot
  PROVE  TreeInv'
<1> DEFINE q == head.next
           node == Node(FALSE, <<sep>>, <<left, right>>, None, None, None)
           a == HeadWrite(q, q + 1)
           b == PageWrite(q, node)
           c == PageWrite(left, Under(page[left], q))
           d == PageWrite(right, Under(page[right], q))
           S == Allocate(FALSE)
           B == Blank(FALSE)
           h1 == [magic |-> TRUE, root |-> head.root, next |-> q + 1]
           hd == [magic |-> TRUE, root |-> q, next |-> q + 1]
           f1 == Put(page, q, B)
           f2 == Put(f1, q, node)
           F == Put(Put(f2, left, Under(page[left], q)), right, Under(page[right], q))
<1>1. /\ Ascending /\ page[left].parent = None /\ todo' = S \o <<a, b, c, d>>
      /\ pc' = "idle" /\ left' = None /\ right' = None
      /\ torn' = torn /\ page' = page /\ head' = head /\ entered' = entered
  BY DEF GrowRoot, Settle, file, history, Under
<1>2. CASE torn
  BY <1>1, <1>2 DEF TreeInv
<1>3. CASE ~ torn
  <2>z. /\ q = head.next /\ hd.magic = TRUE /\ hd.root = head.next /\ hd.next = head.next + 1
    OBVIOUS
  <2> HIDE DEF node, B, hd, h1, q
  <2>1. /\ Pages(page, head) /\ left # None /\ left \in DOMAIN page /\ right \in DOMAIN page /\ left # right
    BY <1>1, <1>3, AscendTree
  <2>2. PICK level, lo, hi, chain : Tree(page, head, level, lo, hi, chain, left, right, sep, entered)
    BY <1>1, <1>3, AscendTree
  <2>3. q \notin DOMAIN page /\ q # None /\ None \notin DOMAIN page /\ left \in Nat /\ right \in Nat /\ right # None
    <3>1. /\ head.next \in Nat /\ DOMAIN page = 0..head.next - 1 /\ None \notin DOMAIN page
          /\ left \in Nat /\ right \in Nat
      BY <2>1, PagesAre
    <3> QED
      BY <2>z, <3>1 DEF None
  <2>4. sep \in KeySet \X Nat
    <3>1. Halved(page, head, level, lo, hi, left, right, sep)
      BY <2>2, TreeIs
    <3> QED
      BY <2>1, <3>1 DEF Halved
  <2>5. Makes(Disk(page, head), S, Disk(f1, h1))
    <3>1. head.next # None
      BY <2>3, <2>z
    <3>2. Makes(Disk(page, head), Allocate(FALSE),
               Disk(Put(page, head.next, Blank(FALSE)), [magic |-> TRUE, root |-> head.root, next |-> head.next + 1]))
      BY <2>3, <3>1, MakesAllocate
    <3> QED
      BY <3>2 DEF q, B, h1
  <2>6. Makes(Disk(f1, h1), <<a, b>>, Disk(f2, hd))
    <3>1. None \notin DOMAIN f1
      BY <2>3 DEF Put
    <3> HIDE DEF f1
    <3> QED
      BY <2>3, <3>1, MakesHeadPage DEF hd
  <2>7. Makes(Disk(f2, hd), <<c, d>>, Disk(F, hd))
    <3> DEFINE A == Under(page[left], q)
               C == Under(page[right], q)
    <3> HIDE DEF f2, A, C
    <3>1. Makes(Disk(f2, hd), <<PageWrite(left, A), PageWrite(right, C)>>, Disk(Put(Put(f2, left, A), right, C), hd))
      BY <2>1, <2>3, MakesTwo
    <3> QED
      BY <3>1 DEF A, C
  <2>8. RootWritten(page, F, left, right, q, node)
    BY <2>1, <2>3, RootPut
  <2> HIDE DEF F, f1, f2, a, b, c, d, S
  <2>9. Makes(Disk(page, head), S \o <<a, b, c, d>>, Disk(F, hd))
    <3>1. Makes(Disk(f1, h1), <<a, b>> \o <<c, d>>, Disk(F, hd))
      BY <2>6, <2>7, MakesThen
    <3>3. <<a, b, c, d>> = <<a, b>> \o <<c, d>>
      BY FourWrites
    <3>2. Makes(Disk(f1, h1), <<a, b, c, d>>, Disk(F, hd))
      BY <3>1, <3>3
    <3> QED
      BY <2>5, <3>2, MakesThen
  <2>10. RootIs(node, left, right, sep)
    BY <2>3, <2>4, RootNode DEF node
  <2>11. RootGrown(page, F, head, left, right, sep)
    BY <1>1, <2>1, <2>8, <2>10, <2>z, RootMade
  <2>12. \E level2, lo2, hi2, chain2 : Tree(F, hd, level2, lo2, hi2, chain2, None, None, sep', entered)
    BY <2>2, <2>11, <2>z, RootGrow
  <2>13. Makes(Disk(page', head'), todo', Disk(F, hd))
    BY <1>1, <2>9
  <2>14. None = left' /\ None = right' /\ entered = entered' /\ (pc' = "idle" <=> None = None)
    BY <1>1
  <2> QED
    BY <2>12, <2>13, <2>14, TreeKeptBy
<1> QED
  BY <1>2, <1>3

\* A parent that takes keys and children.
Taking(node, es, ks) == [node EXCEPT !.entries = es, !.kids = ks]

\* A page that takes keys and children, its fields.
LEMMA TakingIs ==
  ASSUME NEW node, NEW es, NEW ks, node \in NodeType, es \in Seq(KeySet \X Nat), ks \in Seq(Nat)
  PROVE  /\ Taking(node, es, ks) \in NodeType /\ Taking(node, es, ks).leaf = node.leaf
         /\ Taking(node, es, ks).entries = es /\ Taking(node, es, ks).kids = ks
         /\ Taking(node, es, ks).parent = node.parent
         /\ Taking(node, es, ks).prev = node.prev /\ Taking(node, es, ks).next = node.next
<1> DEFINE T == Seq(KeySet \X Nat)
<1>1. es \in T /\ NodeType = [leaf : BOOLEAN, entries : T, kids : Seq(Nat), parent : Nat \cup {None}, prev : Nat \cup {None}, next : Nat \cup {None}]
  BY DEF NodeType
<1> HIDE DEF T
<1> QED
  BY <1>1 DEF Taking

\* The place of the left half in its parent.
ParentAt(q, i) ==
  /\ q \in DOMAIN page /\ page[q] \in NodeType /\ ~ page[q].leaf /\ i \in DOMAIN page[q].kids /\ page[q].kids[i] = left
  /\ page[left].parent = q /\ page[right].parent = q /\ right # q
  /\ sep \in KeySet \X Nat
  /\ KeysAt(q, i) \in Seq(KeySet \X Nat) /\ KidsAt(q, i) \in Seq(Nat)

\* The parent of a split and the place of its left half in it.
LEMMA ParentOf ==
  ASSUME Types, TreeInv, ~ torn, Ascending, NEW q, q = page[left].parent, q # None, NEW i, i \in Position(left, page[q])
  PROVE  ParentAt(q, i)
<1>1. PICK level, lo, hi, chain : Tree(page, head, level, lo, hi, chain, left, right, sep, entered)
  BY AscendTree
<1>2. Pages(page, head) /\ left # None /\ left \in DOMAIN page /\ right \in DOMAIN page /\ left # right
  BY AscendTree
<1>3. /\ Kids(page, level) /\ Parents(page, head, left, right) /\ Halved(page, head, level, lo, hi, left, right, sep)
      /\ Levels(page, head, level, left, right)
  BY <1>1, TreeIs
<1>4. q \in DOMAIN page /\ ~ page[q].leaf
  BY <1>2, <1>3 DEF Parents
<1>5. i \in DOMAIN page[q].kids /\ page[q].kids[i] = left
  BY DEF Position
<1>6. sep \in KeySet \X Nat /\ page[right].parent = q /\ level[right] = level[left]
  BY <1>2, <1>3 DEF Halved
<1>7. right # q
  <2>1. level[page[q].kids[i]] + 1 = level[q]
    BY <1>3, <1>4, <1>5 DEF Kids
  <2>2. level[left] \in Nat /\ level[q] \in Nat /\ level[left] + 1 = level[q]
    BY <1>2, <1>3, <1>4, <1>5, <2>1 DEF Levels
  <2> QED
    BY <1>6, <2>2
<1>8. /\ page[q].entries \in Seq(KeySet \X Nat) /\ page[q].kids \in Seq(Nat) /\ right \in Nat
  BY <1>2, <1>4, PagesAre
<1>9. Len(page[q].kids) = Len(page[q].entries) + 1
  BY <1>3, <1>4 DEF Kids
<1>10. KeysAt(q, i) \in Seq(KeySet \X Nat)
  <2> DEFINE T == KeySet \X Nat
             es == page[q].entries
             j == i - 1
  <2>1. j \in 0..Len(es)
    <3>1. Len(es) \in Nat /\ DOMAIN page[q].kids = 1..Len(page[q].kids)
      BY <1>8, SeqIs
    <3> QED
      BY <1>5, <1>9, <3>1
  <2>2. es \in Seq(T) /\ sep \in T
    BY <1>6, <1>8
  <2> HIDE DEF T, es, j
  <2>3. InsertAfter(es, j, sep) \in Seq(T)
    BY <2>1, <2>2, InsertAfterIs
  <2> QED
    BY <2>3 DEF T, es, j, KeysAt
<1>11. KidsAt(q, i) \in Seq(Nat)
  <2> DEFINE N == Nat
             ks == page[q].kids
  <2>1. i \in 0..Len(ks)
    <3>1. Len(ks) \in Nat /\ DOMAIN ks = 1..Len(ks)
      BY <1>8, SeqIs
    <3> QED
      BY <1>5, <3>1
  <2>2. ks \in Seq(N) /\ right \in N
    BY <1>8
  <2> HIDE DEF N, ks
  <2>3. InsertAfter(ks, i, right) \in Seq(N)
    BY <2>1, <2>2, InsertAfterIs
  <2> QED
    BY <2>3 DEF N, ks, KidsAt
<1>12. page[q] \in NodeType
  <2>1. page \in [0..head.next - 1 -> NodeType] /\ DOMAIN page = 0..head.next - 1
    BY <1>2, PagesAre DEF Pages
  <2> QED
    BY <1>4, <2>1
<1> QED
  BY <1>4, <1>5, <1>6, <1>7, <1>10, <1>11, <1>12 DEF ParentAt

\* The parent with the split entered.
LEMMA ParentEntering ==
  ASSUME NEW q, NEW i, ParentAt(q, i), left # None, page \in [DOMAIN page -> NodeType]
  PROVE  ParentEntered(page, Put(page, q, Taking(page[q], KeysAt(q, i), KidsAt(q, i))), q, i, left, right, sep)
<1> DEFINE es == KeysAt(q, i)
           ks == KidsAt(q, i)
           node == Taking(page[q], es, ks)
           pg2 == Put(page, q, node)
<1>1. /\ q \in DOMAIN page /\ page[q] \in NodeType /\ ~ page[q].leaf /\ i \in DOMAIN page[q].kids
      /\ page[q].kids[i] = left /\ page[left].parent = q
      /\ es \in Seq(KeySet \X Nat) /\ ks \in Seq(Nat)
  BY DEF ParentAt
<1>0. es = InsertAfter(page[q].entries, i - 1, sep) /\ ks = InsertAfter(page[q].kids, i, right)
  BY DEF KeysAt, KidsAt
<1> HIDE DEF es, ks
<1>2. /\ node \in NodeType /\ node.leaf = page[q].leaf /\ node.entries = es /\ node.kids = ks
      /\ node.parent = page[q].parent /\ node.prev = page[q].prev /\ node.next = page[q].next
  BY <1>1, TakingIs
<1> HIDE DEF node
<1>3. DOMAIN page \cup {q} = DOMAIN page
  BY <1>1
<1>4. pg2 \in [DOMAIN page \cup {q} -> NodeType]
  BY <1>2, PutType
<1>5. \A x \in DOMAIN page : pg2[x] = IF x = q THEN node ELSE page[x]
  BY <1>3 DEF Put
<1> HIDE DEF pg2
<1>6. \A x \in DOMAIN page :
       /\ pg2[x].leaf = page[x].leaf /\ pg2[x].parent = page[x].parent
       /\ pg2[x].prev = page[x].prev /\ pg2[x].next = page[x].next
       /\ pg2[x].entries = IF x = q THEN es ELSE page[x].entries
       /\ pg2[x].kids = IF x = q THEN ks ELSE page[x].kids
  BY <1>2, <1>5
<1>7. pg2 \in [DOMAIN page -> NodeType]
  BY <1>3, <1>4
<1>8. ParentEntered(page, pg2, q, i, left, right, sep)
  BY <1>0, <1>1, <1>6, <1>7 DEF ParentEntered
<1> QED
  BY <1>8 DEF pg2, node, es, ks

\* The tree once the parent has it.
LEMMA ParentTree ==
  ASSUME Types, TreeInv, ~ torn, Ascending, NEW q, q = page[left].parent, q # None, NEW i, i \in Position(left, page[q]), NEW t
  PROVE  \E level, lo, hi, chain :
           Tree(Put(page, q, Taking(page[q], KeysAt(q, i), KidsAt(q, i))), head, level, lo, hi, chain, None, None, t, entered)
<1> DEFINE pg2 == Put(page, q, Taking(page[q], KeysAt(q, i), KidsAt(q, i)))
<1>1. PICK level, lo, hi, chain : Tree(page, head, level, lo, hi, chain, left, right, sep, entered)
  BY AscendTree
<1>2. Pages(page, head) /\ left # None
  BY AscendTree
<1>3. page \in [DOMAIN page -> NodeType]
  <2>1. page \in [0..head.next - 1 -> NodeType] /\ DOMAIN page = 0..head.next - 1
    BY <1>2, PagesAre DEF Pages
  <2> QED
    BY <2>1
<1>4. ParentAt(q, i)
  BY ParentOf
<1>5. ParentEntered(page, pg2, q, i, left, right, sep)
  BY <1>2, <1>3, <1>4, ParentEntering
<1> HIDE DEF pg2
<1>6. Tree(pg2, head, level, lo, hi, chain, None, None, t, entered)
  BY <1>1, <1>5, ParentEnter
<1>7. \E level2, lo2, hi2, chain2 : Tree(pg2, head, level2, lo2, hi2, chain2, None, None, t, entered)
  BY <1>6
<1> QED
  BY <1>7 DEF pg2

\* The parent has room for the split.
LEMMA ParentFitsTree ==
  ASSUME Types, TreeInv, unique' = unique, ParentFits
  PROVE  TreeInv'
<1> DEFINE q == page[left].parent
<1>1. /\ Ascending /\ q # None /\ pc' = "idle" /\ left' = None /\ right' = None
      /\ torn' = torn /\ page' = page /\ head' = head /\ entered' = entered
  BY DEF ParentFits, Settle, file, history
<1>2. PICK i : /\ i \in Position(left, page[q])
               /\ todo' = <<PageWrite(q, Taking(page[q], KeysAt(q, i), KidsAt(q, i))), PageWrite(right, Under(page[right], q))>>
  BY DEF ParentFits, Taking, Under
<1>3. CASE torn
  BY <1>1, <1>3 DEF TreeInv
<1>4. CASE ~ torn
  <2>z. q = page[left].parent
    OBVIOUS
  <2> HIDE DEF q
  <2> DEFINE a == Taking(page[q], KeysAt(q, i), KidsAt(q, i))
             b == Under(page[right], q)
             pg1 == Put(page, q, a)
             F == Put(pg1, right, b)
  <2>1. Pages(page, head) /\ left # None /\ left \in DOMAIN page /\ right \in DOMAIN page /\ left # right
    BY <1>1, <1>4, AscendTree
  <2>2. ParentAt(q, i)
    BY <1>1, <1>2, <1>4, <2>z, ParentOf
  <2>3. \E level, lo, hi, chain : Tree(pg1, head, level, lo, hi, chain, None, None, sep', entered)
    BY <1>1, <1>2, <1>4, <2>z, ParentTree
  <2> HIDE DEF a
  <2>4. b = page[right]
    <3>1. page[right] \in NodeType /\ page[right].parent = q
      <4>1. page \in [0..head.next - 1 -> NodeType] /\ DOMAIN page = 0..head.next - 1
        BY <2>1, PagesAre DEF Pages
      <4> QED
        BY <2>1, <2>2, <4>1 DEF ParentAt
    <3> DEFINE node == page[right]
    <3> HIDE DEF node
    <3>2. node \in NodeType /\ node.parent = q
      BY <3>1 DEF node
    <3>3. Under(node, q) = node
      BY <3>2 DEF Under, NodeType
    <3> QED
      BY <3>3 DEF node
  <2>5. F = pg1
    <3>1. right # q /\ q \in DOMAIN page
      BY <2>2 DEF ParentAt
    <3> HIDE DEF b
    <3> QED
      BY <2>1, <2>4, <3>1 DEF Put
  <2>6. right # None /\ q # None
    BY <1>1, <2>1, PagesAre DEF None
  <2>7. Makes(Disk(page, head), <<PageWrite(q, a), PageWrite(right, b)>>, Disk(F, head))
    <3> HIDE DEF b
    <3> QED
      BY <2>6, MakesTwo
  <2>8. todo' = <<PageWrite(q, a), PageWrite(right, b)>>
    BY <1>2 DEF a
  <2> HIDE DEF pg1, F, b
  <2>9. Makes(Disk(page', head'), todo', Disk(pg1, head))
    BY <1>1, <2>5, <2>7, <2>8
  <2>10. None = left' /\ None = right' /\ entered = entered' /\ (pc' = "idle" <=> None = None)
    BY <1>1
  <2> QED
    BY <2>3, <2>9, <2>10, TreeKeptBy
<1> QED
  BY <1>3, <1>4

\* The two halves of a page above the leaves.
InnerParted(es, ks, m) ==
  es \in Seq(KeySet \X Nat) /\ ks \in Seq(Nat) /\ m \in Nat /\ m < Len(es) /\ Len(ks) = Len(es) + 1

AreParts(one, two, node, es, ks, m) ==
  /\ one \in NodeType /\ one.leaf = node.leaf /\ one.entries = SubSeq(es, 1, m) /\ one.kids = SubSeq(ks, 1, m + 1)
  /\ one.parent = node.parent /\ one.prev = node.prev /\ one.next = node.next
  /\ two \in NodeType /\ two.leaf = FALSE /\ two.entries = From(es, m + 2) /\ two.kids = From(ks, m + 2)
  /\ two.parent = node.parent

SecondPart(node, es, ks, m) == Node(FALSE, From(es, m + 2), From(ks, m + 2), node.parent, None, None)

\* The two parts that splitInternal makes of a page.
LEMMA PartNodes ==
  ASSUME NEW node, NEW es, NEW ks, NEW m, node \in NodeType, InnerParted(es, ks, m)
  PROVE  AreParts(Taking(node, SubSeq(es, 1, m), SubSeq(ks, 1, m + 1)), SecondPart(node, es, ks, m), node, es, ks, m)
<1> DEFINE U == KeySet \X Nat
           N == Nat
<1>1. es \in Seq(U) /\ ks \in Seq(N) /\ m \in Nat /\ m < Len(es) /\ Len(ks) = Len(es) + 1
  BY DEF InnerParted
<1>2. Len(es) \in Nat
  <2> HIDE DEF U
  <2> QED
    BY <1>1, SeqIs
<1> DEFINE a == m + 1
           b == m + 2
<1>3. m \in 0..Len(es) /\ a \in 0..Len(ks) /\ b \in 1..Len(es) + 1 /\ b \in 1..Len(ks) + 1
  BY <1>1, <1>2
<1> DEFINE e1 == SubSeq(es, 1, m)
           k1 == SubSeq(ks, 1, a)
           e2 == From(es, b)
           k2 == From(ks, b)
<1>4. e1 \in Seq(U) /\ k1 \in Seq(N) /\ e2 \in Seq(U) /\ k2 \in Seq(N)
  <2> HIDE DEF U, N, a, b
  <2>1. e1 \in Seq(U)
    BY <1>1, <1>3, FirstIs
  <2>2. k1 \in Seq(N)
    BY <1>1, <1>3, FirstIs
  <2>3. e2 \in Seq(U)
    BY <1>1, <1>3, RestIs
  <2>4. k2 \in Seq(N)
    BY <1>1, <1>3, RestIs
  <2> QED
    BY <2>1, <2>2, <2>3, <2>4
<1> DEFINE one == Taking(node, e1, k1)
           two == Node(FALSE, e2, k2, node.parent, None, None)
<1>5. node.parent \in Nat \cup {None}
  BY DEF NodeType
<1> HIDE DEF e1, k1, e2, k2, a, b
<1>6. /\ one \in NodeType /\ one.leaf = node.leaf /\ one.entries = e1 /\ one.kids = k1
      /\ one.parent = node.parent /\ one.prev = node.prev /\ one.next = node.next
  BY <1>4, TakingIs
<1> DEFINE T == Seq(U)
<1>7. /\ e2 \in T /\ k2 \in Seq(Nat)
      /\ NodeType = [leaf : BOOLEAN, entries : T, kids : Seq(Nat), parent : Nat \cup {None}, prev : Nat \cup {None}, next : Nat \cup {None}]
  BY <1>4 DEF NodeType
<1> HIDE DEF T
<1>8. two \in NodeType /\ two.leaf = FALSE /\ two.entries = e2 /\ two.kids = k2 /\ two.parent = node.parent
  BY <1>5, <1>7 DEF Node
<1> HIDE DEF one, two
<1>9. AreParts(one, two, node, es, ks, m)
  BY <1>6, <1>8 DEF AreParts, e1, k1, e2, k2, a, b
<1>10. one = Taking(node, SubSeq(es, 1, m), SubSeq(ks, 1, m + 1)) /\ two = SecondPart(node, es, ks, m)
  BY DEF one, two, e1, k1, e2, k2, a, b, SecondPart
<1> QED
  BY <1>9, <1>10

\* Where the rest of a sequence comes from.
LEMMA RestPlaces ==
  ASSUME NEW S, NEW s, NEW i, s \in Seq(S), i \in 1..Len(s) + 1
  PROVE  \A j \in DOMAIN From(s, i) : j \in Int /\ i - 1 + j \in DOMAIN s /\ From(s, i)[j] = s[i - 1 + j]
<1>1. /\ From(s, i) \in Seq(S) /\ Len(From(s, i)) = Len(s) + 1 - i
      /\ \A j : j \in 1..Len(s) + 1 - i => From(s, i)[j] = s[i - 1 + j]
  BY RestIs
<1> DEFINE t == From(s, i)
<1>2. Len(s) \in Nat /\ DOMAIN s = 1..Len(s) /\ DOMAIN t = 1..Len(t)
  BY <1>1, SeqIs
<1> HIDE DEF t
<1> SUFFICES ASSUME NEW j \in DOMAIN t PROVE j \in Int /\ i - 1 + j \in DOMAIN s /\ t[j] = s[i - 1 + j]
  BY DEF t
<1>3. j \in 1..Len(s) + 1 - i
  BY <1>1, <1>2 DEF t
<1>4. j \in Int /\ i - 1 + j \in 1..Len(s)
  BY <1>2, <1>3
<1> QED
  BY <1>1, <1>2, <1>3, <1>4 DEF t

\* The children of the right half: pages of the level below the one that is halved, each once.
Movable(moved, q) ==
  /\ moved \in Seq(Nat)
  /\ \A j \in DOMAIN moved : moved[j] \in DOMAIN page /\ moved[j] # q
  /\ \A i, j \in DOMAIN moved : moved[i] = moved[j] => i = j

\* The children of the second part, whom the split gives a new parent.
LEMMA RightKids ==
  ASSUME NEW pg, NEW hd, NEW level, NEW q, NEW m, Pages(pg, hd), Kids(pg, level), level \in [DOMAIN pg -> Nat],
         q \in DOMAIN pg, ~ pg[q].leaf, m \in Nat, m < Len(pg[q].entries), DOMAIN pg = DOMAIN page
  PROVE  Movable(From(pg[q].kids, m + 2), q) /\ Len(pg[q].kids) = Len(pg[q].entries) + 1
<1> DEFINE ks == pg[q].kids
           N == Nat
           b == m + 2
           moved == From(ks, b)
<1>1. pg[q].entries \in Seq(KeySet \X Nat) /\ ks \in Seq(N)
  BY PagesAre
<1>2. Len(pg[q].entries) \in Nat /\ Len(ks) = Len(pg[q].entries) + 1
  BY <1>1, SeqIs DEF Kids
<1>3. DOMAIN ks = 1..Len(ks)
  <2> HIDE DEF N, ks
  <2> QED
    BY <1>1, SeqIs
<1>4. b \in 1..Len(ks) + 1
  BY <1>2
<1>5. moved \in Seq(N)
  <2> HIDE DEF N, ks, b
  <2> QED
    BY <1>1, <1>4, RestIs
<1>8. \A j \in DOMAIN moved : j \in Int /\ b - 1 + j \in DOMAIN ks /\ moved[j] = ks[b - 1 + j]
  <2> HIDE DEF N, ks, b
  <2> QED
    BY <1>1, <1>4, RestPlaces
<1>9. /\ \A i \in DOMAIN ks : ks[i] \in DOMAIN pg /\ level[ks[i]] + 1 = level[q]
      /\ \A i, j \in DOMAIN ks : ks[i] = ks[j] => i = j
  BY DEF Kids
<1> HIDE DEF moved, ks
<1>10. \A j \in DOMAIN moved : moved[j] \in DOMAIN page /\ moved[j] # q
  <2> SUFFICES ASSUME NEW j \in DOMAIN moved PROVE moved[j] \in DOMAIN page /\ moved[j] # q
    OBVIOUS
  <2> DEFINE c == moved[j]
  <2>1. c \in DOMAIN pg /\ level[c] + 1 = level[q]
    BY <1>8, <1>9
  <2> HIDE DEF c
  <2>2. level[c] \in Nat /\ level[q] \in Nat
    BY <2>1
  <2>3. c # q
    BY <2>1, <2>2
  <2> QED
    BY <2>1, <2>3 DEF c
<1>11. \A i, j \in DOMAIN moved : moved[i] = moved[j] => i = j
  <2> SUFFICES ASSUME NEW i \in DOMAIN moved, NEW j \in DOMAIN moved, moved[i] = moved[j] PROVE i = j
    OBVIOUS
  <2> DEFINE u == b - 1 + i
             v == b - 1 + j
  <2>1. u \in DOMAIN ks /\ v \in DOMAIN ks /\ ks[u] = ks[v]
    BY <1>8
  <2> HIDE DEF u, v
  <2>2. u = v
    BY <1>9, <2>1
  <2> QED
    BY <1>4, <1>8, <2>2 DEF u, v
<1> QED
  BY <1>2, <1>5, <1>10, <1>11 DEF Movable, moved, ks

\* The children of the second part written with their new parent.
LEMMA MakesAdopt ==
  ASSUME NEW pages, NEW header, NEW moved, NEW q, NEW r, Movable(moved, q), DOMAIN page \subseteq DOMAIN pages
  PROVE  Makes(Disk(pages, header), Adopt(moved, r), Disk(Adopted(pages, moved, r), header))
<1>1. /\ moved \in Seq(Nat) /\ \A j \in DOMAIN moved : moved[j] \in DOMAIN pages
      /\ \A i, j \in DOMAIN moved : moved[i] = moved[j] => i = j
  BY DEF Movable
<1>2. Gives(Disk(pages, header), Adopt(moved, r), Disk(Adopted(pages, moved, r), header))
  BY <1>1, GivesAdopt
<1> DEFINE S == {PageWrite(moved[j], [page[moved[j]] EXCEPT !.parent = r]) : j \in DOMAIN moved}
           n == Len(moved)
<1>3. n \in Nat /\ DOMAIN moved = 1..n
  BY <1>1, SeqIs
<1>4. Adopt(moved, r) \in [1..n -> S]
  BY <1>3 DEF Adopt
<1> HIDE DEF S, n
<1>5. Adopt(moved, r) \in Seq(S)
  BY <1>3, <1>4, SeqMade
<1> QED
  BY <1>2, <1>5 DEF Makes

\* The two halves and the children of the right one written.
InnerWritten(F, q, r, one, two, moved) ==
  /\ F = [x \in DOMAIN F |-> F[x]] /\ DOMAIN F = DOMAIN page \cup {r} /\ F[r] = two
  /\ \A x \in DOMAIN page : F[x] = IF x = q THEN one ELSE IF Occurs(moved, x) THEN Under(page[x], r) ELSE page[x]

\* The second part, its children and the first part written.
LEMMA InnerPut ==
  ASSUME NEW q, NEW r, NEW one, NEW two, NEW moved, NEW B, q \in DOMAIN page, r \notin DOMAIN page
  PROVE  InnerWritten(Put(Put(Adopted(Put(page, r, B), moved, r), q, one), r, two), q, r, one, two, moved)
<1> DEFINE f1 == Put(page, r, B)
           f2 == Adopted(f1, moved, r)
           f3 == Put(f2, q, one)
           f4 == Put(f3, r, two)
<1>1. DOMAIN f1 = DOMAIN page \cup {r} /\ \A x \in DOMAIN page : f1[x] = page[x]
  BY DEF Put
<1> HIDE DEF f1
<1>2. DOMAIN f2 = DOMAIN page \cup {r}
      /\ \A x \in DOMAIN page : f2[x] = IF Occurs(moved, x) THEN Under(page[x], r) ELSE page[x]
  BY <1>1 DEF Adopted, Occurs, Under
<1> HIDE DEF f2
<1>3. DOMAIN f3 = DOMAIN page \cup {r}
      /\ \A x \in DOMAIN page : f3[x] = IF x = q THEN one ELSE IF Occurs(moved, x) THEN Under(page[x], r) ELSE page[x]
  BY <1>2 DEF Put
<1> HIDE DEF f3
<1>4. DOMAIN f4 = DOMAIN page \cup {r} /\ f4[r] = two
      /\ \A x \in DOMAIN page : f4[x] = IF x = q THEN one ELSE IF Occurs(moved, x) THEN Under(page[x], r) ELSE page[x]
  BY <1>3 DEF Put
<1>5. f4 = [x \in DOMAIN f4 |-> f4[x]]
  BY DEF Put
<1> HIDE DEF f4
<1>6. InnerWritten(f4, q, r, one, two, moved)
  BY <1>4, <1>5 DEF InnerWritten
<1> QED
  BY <1>6 DEF f1, f2, f3, f4

\* The pages that the writes of the split of a page above the leaves lead to.
LEMMA InnerMade ==
  ASSUME NEW pg1, NEW q, NEW i, NEW m, NEW F, NEW one, NEW two,
         Pages(page, head), ParentEntered(page, pg1, q, i, left, right, sep),
         m \in Nat, m < Len(pg1[q].entries), Movable(From(pg1[q].kids, m + 2), q),
         AreParts(one, two, page[q], pg1[q].entries, pg1[q].kids, m),
         InnerWritten(F, q, head.next, one, two, From(pg1[q].kids, m + 2))
  PROVE  InnerHalved(pg1, F, head, q, m)
<1> DEFINE r == head.next
           es == pg1[q].entries
           ks == pg1[q].kids
           moved == From(ks, m + 2)
<1>1. DOMAIN page \cup {r} = 0..r /\ r \in Nat /\ page \in [DOMAIN page -> NodeType]
  <2>1. head.next \in Nat /\ DOMAIN page = 0..head.next - 1
    BY PagesAre
  <2>2. page \in [0..head.next - 1 -> NodeType]
    BY DEF Pages
  <2> QED
    BY <2>1, <2>2
<1>2. /\ one \in NodeType /\ one.leaf = page[q].leaf /\ one.entries = SubSeq(es, 1, m) /\ one.kids = SubSeq(ks, 1, m + 1)
      /\ one.parent = page[q].parent /\ one.prev = page[q].prev /\ one.next = page[q].next
      /\ two \in NodeType /\ two.leaf = FALSE /\ two.entries = From(es, m + 2) /\ two.kids = moved
      /\ two.parent = page[q].parent
  BY DEF AreParts
<1>3. /\ F = [x \in DOMAIN F |-> F[x]] /\ DOMAIN F = 0..r /\ F[r] = two
      /\ \A x \in DOMAIN page : F[x] = IF x = q THEN one ELSE IF Occurs(moved, x) THEN Under(page[x], r) ELSE page[x]
  BY <1>1 DEF InnerWritten
<1>4. /\ q \in DOMAIN page /\ ~ page[q].leaf /\ DOMAIN pg1 = DOMAIN page
      /\ \A x \in DOMAIN page :
           /\ pg1[x].leaf = page[x].leaf /\ pg1[x].parent = page[x].parent
           /\ pg1[x].prev = page[x].prev /\ pg1[x].next = page[x].next
           /\ x # q => pg1[x].entries = page[x].entries /\ pg1[x].kids = page[x].kids
  BY DEF ParentEntered
<1>5. ~ Occurs(moved, q)
  BY DEF Movable, Occurs
<1> DEFINE first == SubSeq(es, 1, m)
           kids1 == SubSeq(ks, 1, m + 1)
           rest == From(es, m + 2)
<1>6. one.entries = first /\ one.kids = kids1 /\ two.entries = rest
  BY <1>2
<1> HIDE DEF r, moved, first, kids1, rest
<1>7. ASSUME NEW x \in DOMAIN page
      PROVE  /\ F[x] \in NodeType
             /\ F[x].leaf = pg1[x].leaf /\ F[x].prev = pg1[x].prev /\ F[x].next = pg1[x].next
             /\ F[x].entries = IF x = q THEN first ELSE pg1[x].entries
             /\ F[x].kids = IF x = q THEN kids1 ELSE pg1[x].kids
             /\ F[x].parent = IF Occurs(moved, x) THEN r ELSE pg1[x].parent
  <2>1. CASE x = q
    <3>1. F[x] = one
      BY <1>3, <2>1
    <3> QED
      BY <1>2, <1>4, <1>5, <1>6, <2>1, <3>1
  <2>2. CASE x # q /\ Occurs(moved, x)
    <3>1. F[x] = Under(page[x], r) /\ page[x] \in NodeType
      BY <1>1, <1>3, <2>2
    <3> QED
      BY <1>1, <1>4, <2>2, <3>1, UnderIs
  <2>3. CASE x # q /\ ~ Occurs(moved, x)
    <3>1. F[x] = page[x] /\ page[x] \in NodeType
      BY <1>1, <1>3, <2>3
    <3> QED
      BY <1>4, <2>3, <3>1
  <2> QED
    BY <2>1, <2>2, <2>3
<1>8. F \in [0..r -> NodeType]
  <2>1. \A x \in 0..r : F[x] \in NodeType
    <3> SUFFICES ASSUME NEW x \in 0..r PROVE F[x] \in NodeType
      OBVIOUS
    <3>1. x \in DOMAIN page \/ x = r
      BY <1>1
    <3> QED
      BY <1>2, <1>3, <1>7, <3>1
  <2> QED
    BY <1>3, <2>1
<1>9. F[r].leaf = FALSE /\ F[r].parent = pg1[q].parent /\ F[r].entries = rest /\ F[r].kids = moved
  BY <1>2, <1>3, <1>4, <1>6
<1>10. q \in DOMAIN pg1 /\ ~ pg1[q].leaf
  BY <1>4
<1>11. \A x \in DOMAIN pg1 :
             /\ F[x].leaf = pg1[x].leaf /\ F[x].prev = pg1[x].prev /\ F[x].next = pg1[x].next
             /\ F[x].entries = IF x = q THEN first ELSE pg1[x].entries
             /\ F[x].kids = IF x = q THEN kids1 ELSE pg1[x].kids
             /\ F[x].parent = IF Occurs(moved, x) THEN r ELSE pg1[x].parent
  BY <1>4, <1>7
<1> QED
  BY <1>8, <1>9, <1>10, <1>11 DEF InnerHalved, r, moved, first, kids1, rest

\* The parent overflows: it is halved around its middle key.
LEMMA ParentSplitsTree ==
  ASSUME Types, TreeInv, unique' = unique, ParentSplits
  PROVE  TreeInv'
<1> DEFINE q == page[left].parent
           r == head.next
<1>1. /\ Ascending /\ q # None /\ pc' = "parent" /\ left' = q /\ right' = r
      /\ torn' = torn /\ page' = page /\ head' = head /\ entered' = entered
  BY DEF ParentSplits, file, history
<1>2. PICK i \in Position(left, page[q]) :
        LET keys == KeysAt(q, i)
            kids == KidsAt(q, i)
            mid == Len(keys) \div 2
            moved == From(kids, mid + 2)
        IN  /\ ~ Fits(keys)
            /\ todo' = Allocate(FALSE) \o Adopt(moved, r)
                    \o <<PageWrite(q, [page[q] EXCEPT !.entries = SubSeq(keys, 1, mid),
                                                      !.kids = SubSeq(kids, 1, mid + 1)]),
                         PageWrite(r, Node(FALSE, From(keys, mid + 2), moved,
                                           page[q].parent, None, None))>>
            /\ sep' = keys[mid + 1]
  BY DEF ParentSplits
<1> DEFINE keys == KeysAt(q, i)
           kids == KidsAt(q, i)
           mid == Len(keys) \div 2
           moved == From(kids, mid + 2)
           one == Taking(page[q], SubSeq(keys, 1, mid), SubSeq(kids, 1, mid + 1))
           two == SecondPart(page[q], keys, kids, mid)
           S == Allocate(FALSE)
           V == Adopt(moved, r)
           W == <<PageWrite(q, one), PageWrite(r, two)>>
<1>3. ~ Fits(keys) /\ todo' = (S \o V) \o W /\ sep' = keys[mid + 1]
  BY <1>2 DEF Taking, SecondPart
<1>4. CASE torn
  BY <1>1, <1>4 DEF TreeInv
<1>5. CASE ~ torn
  <2> DEFINE B == Blank(FALSE)
             hd == [magic |-> TRUE, root |-> head.root, next |-> r + 1]
             P == Put(page, r, B)
             A == Adopted(P, moved, r)
             F == Put(Put(A, q, one), r, two)
             pg1 == Put(page, q, Taking(page[q], keys, kids))
  <2>z. /\ q = page[left].parent /\ r = head.next /\ hd.magic = TRUE /\ hd.root = head.root /\ hd.next = head.next + 1
        /\ mid = Len(keys) \div 2 /\ moved = From(kids, mid + 2) /\ i \in Position(left, page[q])
        /\ one = Taking(page[q], SubSeq(keys, 1, mid), SubSeq(kids, 1, mid + 1))
        /\ two = SecondPart(page[q], keys, kids, mid)
    BY <1>2
  <2>y. pg1 = Put(page, q, Taking(page[q], KeysAt(q, i), KidsAt(q, i))) /\ keys = KeysAt(q, i) /\ kids = KidsAt(q, i)
    OBVIOUS
  <2> HIDE DEF q, r, hd, mid, moved, one, two, keys, kids, pg1, S, V, B
  <2>1. Pages(page, head) /\ left # None
    BY <1>1, <1>5, AscendTree
  <2>2. ParentAt(q, i)
    BY <1>1, <1>5, <2>z, ParentOf
  <2>3. PICK level, lo, hi, chain : Tree(pg1, head, level, lo, hi, chain, None, None, sep, entered)
    <3>1. \E level, lo, hi, chain : Tree(Put(page, q, Taking(page[q], KeysAt(q, i), KidsAt(q, i))), head, level, lo, hi, chain, None, None, sep, entered)
      BY <1>1, <1>5, <2>z, ParentTree
    <3> QED
      BY <2>y, <3>1
  <2>4. page \in [DOMAIN page -> NodeType] /\ DOMAIN page = 0..head.next - 1 /\ head.next \in Nat /\ None \notin DOMAIN page
    BY <2>1, PagesAre DEF Pages
  <2>5. ParentEntered(page, pg1, q, i, left, right, sep)
    <3>1. ParentEntered(page, Put(page, q, Taking(page[q], KeysAt(q, i), KidsAt(q, i))), q, i, left, right, sep)
      BY <2>1, <2>2, <2>4, ParentEntering
    <3> QED
      BY <2>y, <3>1
  <2>6. /\ q \in DOMAIN page /\ page[q] \in NodeType /\ ~ page[q].leaf
        /\ keys \in Seq(KeySet \X Nat) /\ kids \in Seq(Nat)
    BY <2>2, <2>y DEF ParentAt
  <2>7. DOMAIN pg1 = DOMAIN page /\ ~ pg1[q].leaf /\ pg1[q].entries = keys /\ pg1[q].kids = kids
    <3>1. /\ DOMAIN pg1 = DOMAIN page /\ pg1[q].leaf = page[q].leaf
          /\ pg1[q].entries = InsertAfter(page[q].entries, i - 1, sep)
          /\ pg1[q].kids = InsertAfter(page[q].kids, i, right)
      BY <2>5, <2>6 DEF ParentEntered
    <3> QED
      BY <2>6, <2>y, <3>1 DEF KeysAt, KidsAt
  <2>8. mid \in Nat /\ mid < Len(keys)
    <3>1. Len(keys) \in Nat
      BY <2>6, SeqIs
    <3>2. Len(keys) > Order
      BY <1>3, <3>1, OrderAssumption DEF Fits
    <3> QED
      BY <2>z, <3>1, <3>2, OrderAssumption
  <2>9. Pages(pg1, head) /\ Kids(pg1, level) /\ level \in [DOMAIN pg1 -> Nat]
    <3>1. Pages(pg1, head) /\ Kids(pg1, level) /\ Levels(pg1, head, level, None, None)
      BY <2>3, TreeIs
    <3> QED
      BY <3>1 DEF Levels
  <2>10. Movable(moved, q) /\ Len(kids) = Len(keys) + 1
    <3>1. mid < Len(pg1[q].entries) /\ q \in DOMAIN pg1
      BY <2>6, <2>7, <2>8
    <3>2. Movable(From(pg1[q].kids, mid + 2), q) /\ Len(pg1[q].kids) = Len(pg1[q].entries) + 1
      BY <2>7, <2>8, <2>9, <3>1, RightKids
    <3> QED
      BY <2>7, <2>z, <3>2
  <2>11. r \notin DOMAIN page /\ r \in Nat /\ r # None /\ q # None
    BY <1>1, <2>4, <2>z DEF None
  <2>12. AreParts(one, two, page[q], keys, kids, mid)
    <3>1. InnerParted(keys, kids, mid)
      BY <2>6, <2>8, <2>10 DEF InnerParted
    <3> QED
      BY <2>6, <2>z, <3>1, PartNodes
  <2>13. InnerWritten(F, q, r, one, two, moved)
    BY <2>6, <2>11, InnerPut
  <2>14. Makes(Disk(page, head), S, Disk(P, hd))
    <3>1. head.next # None
      BY <2>11, <2>z
    <3>2. Makes(Disk(page, head), Allocate(FALSE),
               Disk(Put(page, head.next, Blank(FALSE)), [magic |-> TRUE, root |-> head.root, next |-> head.next + 1]))
      BY <2>4, <3>1, MakesAllocate
    <3> QED
      BY <3>2 DEF S, r, hd, B
  <2>15. Makes(Disk(P, hd), V, Disk(A, hd))
    <3>1. DOMAIN page \subseteq DOMAIN P
      BY DEF Put
    <3> HIDE DEF P
    <3>2. Makes(Disk(P, hd), Adopt(moved, r), Disk(Adopted(P, moved, r), hd))
      BY <2>10, <3>1, MakesAdopt
    <3> QED
      BY <3>2 DEF V
  <2>16. Makes(Disk(A, hd), W, Disk(F, hd))
    <3> HIDE DEF A
    <3> QED
      BY <2>11, MakesTwo
  <2> HIDE DEF F, A, P, W
  <2>17. Makes(Disk(page, head), (S \o V) \o W, Disk(F, hd))
    <3>1. Makes(Disk(page, head), S \o V, Disk(A, hd))
      BY <2>14, <2>15, MakesThen
    <3> QED
      BY <2>16, <3>1, MakesThen
  <2>18. InnerHalved(pg1, F, head, q, mid)
    <3>1. mid < Len(pg1[q].entries) /\ Movable(From(pg1[q].kids, mid + 2), q)
      BY <2>7, <2>8, <2>10, <2>z
    <3>2. AreParts(one, two, page[q], pg1[q].entries, pg1[q].kids, mid)
      BY <2>7, <2>12
    <3>3. InnerWritten(F, q, head.next, one, two, From(pg1[q].kids, mid + 2))
      BY <2>7, <2>13, <2>z
    <3> QED
      BY <2>1, <2>5, <2>8, <3>1, <3>2, <3>3, InnerMade
  <2>19. \E level2, lo2, hi2, chain2 :
           Tree(F, hd, level2, lo2, hi2, chain2, q, head.next, pg1[q].entries[mid + 1], entered)
    BY <2>3, <2>18, <2>z, InnerHalve
  <2>20. \E level2, lo2, hi2, chain2 : Tree(F, hd, level2, lo2, hi2, chain2, q, r, keys[mid + 1], entered)
    BY <2>7, <2>19, <2>z
  <2>21. Makes(Disk(page', head'), todo', Disk(F, hd))
    BY <1>1, <1>3, <2>17
  <2>22. q = left' /\ r = right' /\ keys[mid + 1] = sep' /\ entered = entered' /\ (pc' = "idle" <=> q = None)
    BY <1>1, <1>3, <2>11
  <2> QED
    BY <2>20, <2>21, <2>22, TreeKeptBy
<1> QED
  BY <1>4, <1>5

\* A file that no crash has cut holds a tree, or will when the writes of the running operation are made.
LEMMA TreeStep == ASSUME Types, TreeInv, [Next]_vars PROVE TreeInv'
<1>1. CASE Next
  <2>1. unique' = unique
    BY <1>1 DEF Next
  <2>2. ASSUME NEW k \in KeySet, InsertFits(k) PROVE TreeInv'
    BY <2>1, <2>2, InsertFitsTree
  <2>3. ASSUME NEW k \in KeySet, InsertSplits(k) PROVE TreeInv'
    BY <2>1, <2>3, InsertSplitsTree
  <2>4. ASSUME NEW e \in KeySet \X (1..MaxEntries), DeleteEntry(e) PROVE TreeInv'
    BY <2>1, <2>4, DeleteEntryTree
  <2>5. ASSUME Rebuild PROVE TreeInv'
    BY <2>1, <2>5, RebuildTree
  <2>6. ASSUME Step PROVE TreeInv'
    <3>1. CASE Write
      BY <2>1, <3>1, WriteTree
    <3>2. CASE GrowRoot
      BY <2>1, <3>2, GrowRootTree
    <3>3. CASE ParentLost
      BY <2>1, <3>3, ParentLostTree
    <3>4. CASE ParentFits
      BY <2>1, <3>4, ParentFitsTree
    <3>5. CASE ParentSplits
      BY <2>1, <3>5, ParentSplitsTree
    <3> QED
      BY <2>6, <3>1, <3>2, <3>3, <3>4, <3>5 DEF Step
  <2>7. ASSUME Crash PROVE TreeInv'
    BY <2>7, CrashTree
  <2> QED
    BY <1>1, <2>2, <2>3, <2>4, <2>5, <2>6, <2>7 DEF Next
<1>2. CASE UNCHANGED vars
  <2>1. unique' = unique
    BY <1>2 DEF vars
  <2> QED
    BY <1>2, <2>1, SameTree
<1> QED
  BY <1>1, <1>2

-----------------------------------------------------------------------------
(***************************************************************************)
(* What follows of the tree.                                               *)
(***************************************************************************)
\* While no operation runs the tree is whole.
LEMMA IdleTree ==
  ASSUME Types, TreeInv, ~ torn, Idle
  PROVE  \E level, lo, hi, chain : Tree(page, head, level, lo, hi, chain, None, None, sep, entered)
<1>1. pc = "idle" /\ todo = <<>>
  BY DEF Idle
<1>2. left = None /\ right = None
  BY <1>1, QuietTree
<1> QED
  BY <1>1, <1>2, QuietTree

\* Between operations rangeSearch finds in a whole file what was entered in the range.
LEMMA RangeOf ==
  ASSUME Types, TreeInv, ~ torn, Idle, NEW a, NEW b, NEW withA, NEW withB, a \in Int, b \in Int
  PROVE  \A e : e \in RangeSearch(a, b, withA, withB) <=>
                  /\ e \in entered /\ a <= e[1] /\ e[1] <= b
                  /\ e[1] = a => withA
                  /\ e[1] = b => withB
<1>1. PICK level, lo, hi, chain : Tree(page, head, level, lo, hi, chain, None, None, sep, entered)
  BY IdleTree
<1>2. /\ Pages(page, head) /\ Levels(page, head, level, None, None) /\ Kids(page, level) /\ Ordered(page)
      /\ Parted(page, head, lo, hi, None, None) /\ Chained(page, head, chain) /\ Ascends(page, lo, hi, chain)
      /\ Holds(page, entered)
  BY <1>1, TreeIs
<1> QED
  BY <1>2, RangeSearchIs

\* The keys are numbers, and so are the keys entered.
LEMMA EnteredKeys ==
  ASSUME Types
  PROVE  KeySet \subseteq Int /\ \A e \in entered : e[1] \in Int /\ e[1] \in KeySet
<1>1. KeySet \subseteq Int
  BY KeysAssumption DEF KeySet
<1>2. entered \subseteq KeySet \X (1..count)
  BY DEF Types, Typed
<1> QED
  BY <1>1, <1>2

\* Between operations search finds in a whole file what was entered under the key.
LEMMA SearchIs ==
  ASSUME Types, TreeInv, ~ torn, Idle, NEW k, k \in Int
  PROVE  \A e : e \in Search(k) <=> e \in entered /\ e[1] = k
<1>1. \A e : e \in Search(k) <=> e \in entered /\ k <= e[1] /\ e[1] <= k
  <2>1. \A e : e \in RangeSearch(k, k, TRUE, TRUE) <=>
                  /\ e \in entered /\ k <= e[1] /\ e[1] <= k
                  /\ e[1] = k => TRUE
                  /\ e[1] = k => TRUE
    BY RangeOf
  <2> QED
    BY <2>1 DEF Search
<1>2. \A e \in entered : e[1] \in Int
  BY EnteredKeys
<1>3. \A e \in entered : k <= e[1] /\ e[1] <= k <=> e[1] = k
  BY <1>2
<1> QED
  BY <1>1, <1>3

\* Of the tree: a search finds what was entered, see IndexTree.
LEMMA TreeSearchFinds == ASSUME Types, TreeInv PROVE SearchFinds
<1> SUFFICES ASSUME Quiet, NEW k \in KeySet PROVE Search(k) = {e \in entered : e[1] = k}
  BY DEF SearchFinds
<1>1. Idle /\ ~ torn /\ k \in Int
  BY EnteredKeys DEF Quiet
<1>2. \A e : e \in Search(k) <=> e \in entered /\ e[1] = k
  BY <1>1, SearchIs
<1> QED
  BY <1>2

\* Of the tree: a range search finds what was entered, see IndexTree.
LEMMA TreeRangeFinds == ASSUME Types, TreeInv PROVE RangeFinds
<1> SUFFICES ASSUME Quiet, NEW lo \in KeySet, NEW hi \in KeySet, NEW withLo \in BOOLEAN, NEW withHi \in BOOLEAN
             PROVE  RangeSearch(lo, hi, withLo, withHi) =
                      {e \in entered : /\ e[1] \in lo..hi
                                       /\ e[1] = lo => withLo
                                       /\ e[1] = hi => withHi}
  BY DEF RangeFinds
<1>1. Idle /\ ~ torn /\ lo \in Int /\ hi \in Int
  BY EnteredKeys DEF Quiet
<1>2. \A e : e \in RangeSearch(lo, hi, withLo, withHi) <=>
                  /\ e \in entered /\ lo <= e[1] /\ e[1] <= hi
                  /\ e[1] = lo => withLo
                  /\ e[1] = hi => withHi
  BY <1>1, RangeOf
<1>3. \A e \in entered : e[1] \in lo..hi <=> lo <= e[1] /\ e[1] <= hi
  BY <1>1, EnteredKeys
<1> DEFINE R == RangeSearch(lo, hi, withLo, withHi)
<1> HIDE DEF R
<1>4. \A e : e \in R <=> e \in entered /\ e[1] \in lo..hi /\ (e[1] = lo => withLo) /\ (e[1] = hi => withHi)
  BY <1>2, <1>3 DEF R
<1>5. R = {e \in entered : e[1] \in lo..hi /\ (e[1] = lo => withLo) /\ (e[1] = hi => withHi)}
  BY <1>4
<1> QED
  BY <1>5 DEF R

\* Up from a leaf there is one page of every level.
LEMMA DepthIs ==
  ASSUME NEW level, Pages(page, head), Levels(page, head, level, None, None), Kids(page, level),
         Parents(page, head, None, None), NEW p, p \in DOMAIN page, page[p].leaf
  PROVE  Depth(p) = Cardinality(0..level[head.root])
<1> DEFINE up == [q \in DOMAIN page |-> page[q].parent]
           w == Walk(up, p)
           M == Cardinality(DOMAIN page) + 2
           H == level[head.root]
           G == {n \in 0..M : IF n <= H THEN w[n] \in DOMAIN page /\ level[w[n]] = n ELSE w[n] = None}
<1>1. /\ head.next \in Nat /\ Cardinality(DOMAIN page) = head.next /\ None \notin DOMAIN page
      /\ head.root \in DOMAIN page
  BY PagesAre
<1>2. H \in Nat /\ H < head.next /\ level[p] = 0 /\ level \in [DOMAIN page -> Nat]
  BY <1>1 DEF Levels
<1>3. M \in Nat /\ H \in 0..M
  BY <1>1, <1>2
<1>4. DOMAIN w = 0..M /\ w[0] = p
      /\ \A n \in 1..M : w[n] = IF w[n - 1] \in DOMAIN page THEN up[w[n - 1]] ELSE None
  <2> HIDE DEF up
  <2> QED
    BY <1>1, WalkIs
<1>5. ASSUME NEW x \in DOMAIN page
      PROVE  /\ level[x] = H => page[x].parent = None
             /\ level[x] < H => page[x].parent \in DOMAIN page /\ level[page[x].parent] = level[x] + 1
  <2>1. level[x] < H \/ x = head.root
    BY <1>1 DEF Levels
  <2>2. level[x] \in Nat
    BY <1>2
  <2>3. page[x].parent = None => x = head.root
    BY <1>1 DEF Parents
  <2>4. page[head.root].parent = None
    BY DEF Pages
  <2>5. ASSUME level[x] < H
        PROVE  page[x].parent \in DOMAIN page /\ level[page[x].parent] = level[x] + 1
    <3>1. x # head.root
      BY <1>2, <2>2, <2>5
    <3>2. page[x].parent \in DOMAIN page /\ ~ page[page[x].parent].leaf /\ IsKid(page, x, page[x].parent)
      BY <1>1, <2>3, <3>1 DEF Parents
    <3> DEFINE y == page[x].parent
    <3>3. PICK j \in DOMAIN page[y].kids : page[y].kids[j] = x
      BY <3>2 DEF IsKid
    <3>4. level[page[y].kids[j]] + 1 = level[y]
      BY <3>2, <3>3 DEF Kids
    <3> QED
      BY <3>2, <3>3, <3>4
  <2>6. level[x] = H => x = head.root
    BY <1>2, <2>1, <2>2
  <2> QED
    BY <2>4, <2>5, <2>6
<1>u. \A x \in DOMAIN page : up[x] = page[x].parent
  OBVIOUS
<1> HIDE DEF w, M, H, up
<1>6. 0 \in G
  BY <1>2, <1>3, <1>4
<1>7. \A n \in 1..M : n - 1 \in G => n \in G
  <2> SUFFICES ASSUME NEW n \in 1..M, n - 1 \in G PROVE n \in G
    OBVIOUS
  <2>1. n \in 0..M /\ n \in Int /\ n - 1 \in Int
    BY <1>3
  <2>2. w[n] = IF w[n - 1] \in DOMAIN page THEN up[w[n - 1]] ELSE None
    BY <1>4
  <2>3. CASE n <= H
    <3>1. n - 1 <= H /\ n - 1 < H
      BY <1>2, <2>1, <2>3
    <3>2. w[n - 1] \in DOMAIN page /\ level[w[n - 1]] = n - 1
      BY <3>1
    <3> DEFINE x == w[n - 1]
    <3> HIDE DEF x
    <3>3. x \in DOMAIN page /\ level[x] = n - 1 /\ w[n] = page[x].parent
      BY <1>u, <2>2, <3>2 DEF x
    <3>4. w[n] \in DOMAIN page /\ level[w[n]] = (n - 1) + 1
      BY <1>5, <3>1, <3>3
    <3> QED
      BY <2>1, <2>3, <3>4
  <2>4. CASE ~ (n <= H)
    <3>1. CASE n - 1 <= H
      <4>1. n - 1 = H
        BY <1>2, <2>1, <2>4, <3>1
      <4>2. w[n - 1] \in DOMAIN page /\ level[w[n - 1]] = n - 1
        BY <3>1
      <4> DEFINE x == w[n - 1]
      <4> HIDE DEF x
      <4>3. x \in DOMAIN page /\ level[x] = H /\ w[n] = page[x].parent
        BY <1>u, <2>2, <4>1, <4>2 DEF x
      <4>4. w[n] = None
        BY <1>5, <4>3
      <4> QED
        BY <2>1, <2>4, <4>4
    <3>2. CASE ~ (n - 1 <= H)
      <4>1. w[n - 1] = None
        BY <3>2
      <4>2. w[n] = None
        BY <1>1, <2>2, <4>1
      <4> QED
        BY <2>1, <2>4, <4>2
    <3> QED
      BY <3>1, <3>2
  <2> QED
    BY <2>3, <2>4
<1>8. G \in SUBSET (0..M)
  OBVIOUS
<1> HIDE DEF G
<1>9. G = 0..M
  BY <1>3, <1>6, <1>7, <1>8, UpTo
<1>10. \A n \in 0..M : IF n <= H THEN w[n] \in DOMAIN page /\ level[w[n]] = n ELSE w[n] = None
  BY <1>9 DEF G
<1> DEFINE V == Visited(w)
           f == [n \in 0..H |-> w[n]]
<1>11. \A n \in 0..H : n \in 0..M /\ n <= H
  BY <1>2, <1>3
<1>12. \A x : x \in V <=> \E n \in 0..H : x = w[n]
  <2>1. \A x : x \in V <=> x \in DOMAIN page /\ \E n \in 0..M : x = w[n]
    BY <1>4 DEF Visited
  <2>2. ASSUME NEW n \in 0..M, w[n] \in DOMAIN page PROVE n \in 0..H
    <3>1. n <= H
      BY <1>1, <1>10, <2>2
    <3> QED
      BY <1>2, <3>1
  <2> QED
    BY <1>10, <1>11, <2>1, <2>2
<1> HIDE DEF V
<1>13. f \in Bijection(0..H, V)
  <2>1. f \in [0..H -> V]
    BY <1>12
  <2>2. \A m, n \in 0..H : f[m] = f[n] => m = n
    BY <1>10, <1>11
  <2>3. \A x \in V : \E n \in 0..H : f[n] = x
    BY <1>12
  <2> HIDE DEF f
  <2> QED
    BY <2>1, <2>2, <2>3 DEF Bijection, Injection, Surjection, IsInjective
<1> HIDE DEF f
<1>14. ExistsBijection(0..H, V)
  BY <1>13 DEF ExistsBijection
<1>15. IsFiniteSet(0..H)
  BY <1>2, FS_Interval
<1>16. Cardinality(V) = Cardinality(0..H)
  BY <1>14, <1>15, FS_Bijection
<1> QED
  BY <1>16 DEF Depth, V, w, up, H

\* Of the tree: the pages are linked both ways, see IndexTree.
LEMMA TreeWellLinked == ASSUME Types, TreeInv PROVE WellLinked
<1> SUFFICES ASSUME Quiet, head.magic
             PROVE
    /\ \A p \in DOMAIN page : ~ page[p].leaf =>
         \A i \in DOMAIN page[p].kids : page[page[p].kids[i]].parent = p
    /\ \A p \in DOMAIN page : page[p].parent = None <=> p = head.root
    /\ \A p, q \in DOMAIN page : page[p].leaf /\ page[q].leaf =>
         (page[p].next = q <=> page[q].prev = p) /\ Depth(p) = Depth(q)
  BY DEF WellLinked
<1>1. PICK level, lo, hi, chain : Tree(page, head, level, lo, hi, chain, None, None, sep, entered)
  BY IdleTree DEF Quiet
<1>2. /\ Pages(page, head) /\ Levels(page, head, level, None, None) /\ Kids(page, level)
      /\ Parents(page, head, None, None) /\ Chained(page, head, chain)
  BY <1>1, TreeIs
<1>3. \A p \in DOMAIN page : ~ page[p].leaf =>
         \A i \in DOMAIN page[p].kids : page[page[p].kids[i]].parent = p
  BY <1>2 DEF Kids
<1>4. \A p \in DOMAIN page : page[p].parent = None <=> p = head.root
  <2>1. None \notin DOMAIN page /\ page[head.root].parent = None
    BY <1>2, PagesAre DEF Pages
  <2> QED
    BY <1>2, <2>1 DEF Parents
<1>5. ASSUME NEW p \in DOMAIN page, NEW q \in DOMAIN page, page[p].leaf, page[q].leaf
      PROVE  page[p].next = q <=> page[q].prev = p
  <2>1. PICK i \in DOMAIN chain : chain[i] = p
    BY <1>2, <1>5, ChainIs
  <2>2. PICK j \in DOMAIN chain : chain[j] = q
    BY <1>2, <1>5, ChainIs
  <2>3. Len(chain) \in Nat /\ DOMAIN chain = 1..Len(chain)
    BY <1>2, ChainIs
  <2>4. page[p].next = IF i = Len(chain) THEN None ELSE chain[i + 1]
    BY <1>2, <2>1, ChainIs
  <2>5. page[q].prev = IF j = 1 THEN None ELSE chain[j - 1]
    BY <1>2, <2>2, ChainIs
  <2>6. \A x, y \in DOMAIN chain : chain[x] = chain[y] => x = y
    BY <1>2, ChainIs
  <2>7. p # None /\ q # None
    BY <1>2, PagesAre
  <2>8. page[p].next = q <=> (i # Len(chain) /\ j = i + 1)
    <3>1. i # Len(chain) => i + 1 \in DOMAIN chain
      BY <2>3
    <3> QED
      BY <2>2, <2>4, <2>6, <2>7, <3>1
  <2>9. page[q].prev = p <=> (j # 1 /\ i = j - 1)
    <3>1. j # 1 => j - 1 \in DOMAIN chain
      BY <2>3
    <3> QED
      BY <2>1, <2>5, <2>6, <2>7, <3>1
  <2>10. (i # Len(chain) /\ j = i + 1) <=> (j # 1 /\ i = j - 1)
    BY <2>3
  <2> QED
    BY <2>8, <2>9, <2>10
<1>6. ASSUME NEW p \in DOMAIN page, NEW q \in DOMAIN page, page[p].leaf, page[q].leaf
      PROVE  Depth(p) = Depth(q)
  BY <1>2, <1>6, DepthIs
<1> QED
  BY <1>3, <1>4, <1>5, <1>6

\* A key that a unique index holds is found before it is entered once more.
LEMMA UniqueStep == ASSUME Types, TreeInv, UniqueKept, [Next]_vars PROVE UniqueKept'
<1> SUFFICES ASSUME unique', ~ torn', NEW e \in entered', NEW f \in entered', e[1] = f[1] PROVE e = f
  BY DEF UniqueKept
<1>1. unique' = unique
  BY DEF Next, vars
<1>2. CASE entered' \subseteq entered /\ torn' = torn
  BY <1>1, <1>2 DEF UniqueKept
<1>3. ASSUME NEW k \in KeySet, Enter(k) PROVE e = f
  <2> DEFINE d == <<k, count + 1>>
  <2>1. entered' = entered \cup {d} /\ torn' = torn /\ Idle /\ ~ Refuses(k)
    BY <1>3 DEF Enter
  <2>2. Search(k) = {}
    BY <1>1, <2>1 DEF Refuses
  <2>3. ~ torn /\ k \in Int
    BY <2>1, EnteredKeys
  <2>4. \A x : x \in Search(k) <=> x \in entered /\ x[1] = k
    BY <2>1, <2>3, SearchIs
  <2>5. \A x \in entered : x[1] # k
    BY <2>2, <2>4
  <2>6. d[1] = k
    OBVIOUS
  <2> HIDE DEF d
  <2>7. \A x, y \in entered : x[1] = y[1] => x = y
    BY <1>1, <2>3 DEF UniqueKept
  <2> QED
    BY <2>1, <2>5, <2>6, <2>7
<1>4. CASE Next
  <2>1. ASSUME NEW k \in KeySet, InsertFits(k) PROVE e = f
    BY <1>3, <2>1 DEF InsertFits
  <2>2. ASSUME NEW k \in KeySet, InsertSplits(k) PROVE e = f
    BY <1>3, <2>2 DEF InsertSplits
  <2>3. ASSUME NEW x, DeleteEntry(x) PROVE e = f
    <3>1. entered' \subseteq entered /\ torn' = torn
      BY <2>3 DEF DeleteEntry
    <3> QED
      BY <1>2, <3>1
  <2>4. ASSUME Rebuild PROVE e = f
    BY <2>4 DEF Rebuild, Start
  <2>5. ASSUME Step PROVE e = f
    <3>1. entered' \subseteq entered /\ torn' = torn
      BY <2>5 DEF Step, Write, GrowRoot, ParentLost, ParentFits, ParentSplits, history
    <3> QED
      BY <1>2, <3>1
  <2>6. ASSUME Crash PROVE e = f
    BY <2>6 DEF Crash
  <2> QED
    BY <1>4, <2>1, <2>2, <2>3, <2>4, <2>5, <2>6 DEF Next
<1>5. CASE UNCHANGED vars
  BY <1>2, <1>5 DEF vars, history
<1> QED
  BY <1>4, <1>5

\* Whatever is inserted and deleted, however pages split, and whatever file a
\* rebuild finds: the pages, once the writes of the running operation are
\* made, are a balanced tree over one chain of leaves, until a crash cuts an
\* operation short.
THEOREM TreeKept == Spec => [](Types /\ TreeInv)
<1>1. Init => Types /\ TreeInv
  BY InitTypes, InitTree
<1>2. Types /\ TreeInv /\ [Next]_vars => Types' /\ TreeInv'
  BY StepTypes, TreeStep
<1> QED
  BY <1>1, <1>2, PTL DEF Spec

\* search returns the entries under its key, all and only, for any keys, page
\* size and number of entries.
THEOREM SearchFindsEntered == Spec => []SearchFinds
<1>1. Types /\ TreeInv => SearchFinds
  BY TreeSearchFinds
<1> QED
  BY <1>1, TreeKept, PTL

\* rangeSearch returns the entries between its bounds, all and only.
THEOREM RangeFindsEntered == Spec => []RangeFinds
<1>1. Types /\ TreeInv => RangeFinds
  BY TreeRangeFinds
<1> QED
  BY <1>1, TreeKept, PTL

\* The links between the pages fit together and the leaves are equally deep.
THEOREM LinksKept == Spec => []WellLinked
<1>1. Types /\ TreeInv => WellLinked
  BY TreeWellLinked
<1> QED
  BY <1>1, TreeKept, PTL

\* No key is twice in a unique index.
THEOREM UniqueIndex == Spec => []UniqueKept
<1>1. Init => UniqueKept
  BY DEF Init, UniqueKept
<1>2. Types /\ TreeInv /\ UniqueKept /\ [Next]_vars => UniqueKept'
  BY UniqueStep
<1> QED
  BY <1>1, <1>2, TreeKept, PTL DEF Spec

=============================================================================
