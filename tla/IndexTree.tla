------------------------------ MODULE IndexTree ------------------------------
(***************************************************************************)
(* One index file (IndexManagerImpl): a B+ tree of pages behind a header.  *)
(*                                                                         *)
(* An insertion reads the pages it needs, changes copies in memory and     *)
(* writes them back one by one; a split goes on with the parent page.      *)
(* Here each round of insertIntoLeaf, insertIntoParent and                 *)
(* splitInternalNode puts its writes, in the order of the code, in todo;   *)
(* each write is a step, and a crash forgets the ones not yet made.        *)
(*                                                                         *)
(* A key stands for the packed key bytes, ordered as memcmp orders them.   *)
(* An entry is <<key, offset>>; offsets are handed in ascending order, as  *)
(* InsertExecutor and readIndexRecords do.                                 *)
(***************************************************************************)
EXTENDS Integers, Sequences, FiniteSets

CONSTANTS
  Keys,         \* the keys entered in an index that is not unique: a set of integers
  UniqueKeys,   \* the keys entered in a unique one: the same
  Order,        \* kNodeOrder: the entries a page can hold
  MaxEntries,   \* bound on the insertions between two rebuilds
  MaxDeletes,   \* bound on the deletions between two rebuilds; 0 in a unique index
  MaxCrashes    \* bound on the crashes

ASSUME OrderAssumption == Order \in Nat /\ Order >= 2
ASSUME KeysAssumption  == Keys \cup UniqueKeys \subseteq Int
ASSUME BoundsAssumption == MaxEntries \in Nat /\ MaxDeletes \in Nat /\ MaxCrashes \in Nat

VARIABLES
  unique,       \* the index is UNIQUE
  head,         \* the header: does it have the magic number, rootPage, nextPage
  page,         \* the pages that have been written, by page number
  todo,         \* the writes the running operation has still to make
  pc,           \* "parent" while a split has to be entered in the parent page
  left, right,  \* the two halves of that split
  sep,          \* the key that separates them
  entered,      \* the entries inserted and not deleted since the file was made (history)
  count,        \* insertions since the file was made (history)
  deletes,      \* deletions since the file was made (history)
  torn,         \* a crash has cut an operation short since the file was made (history)
  crashes       \* crashes (history)

file    == <<head, page>>
split   == <<pc, left, right, sep>>
history == <<entered, count, deletes, torn, crashes>>
vars    == <<unique, file, todo, split, history>>

None == -1

KeySet == IF unique THEN UniqueKeys ELSE Keys

DeleteBound == IF unique THEN 0 ELSE MaxDeletes

Node(leaf, entries, kids, parent, prev, next) ==
  [leaf |-> leaf, entries |-> entries, kids |-> kids,
   parent |-> parent, prev |-> prev, next |-> next]

\* allocateNode: a new page is first written empty and without links.
Blank(leaf) == Node(leaf, <<>>, <<>>, None, None, None)

HeadWrite(root, next) == [head |-> TRUE, root |-> root, next |-> next]

PageWrite(p, node) == [head |-> FALSE, page |-> p, node |-> node]

Allocate(leaf) ==
  <<HeadWrite(head.root, head.next + 1), PageWrite(head.next, Blank(leaf))>>

Less(e, f) == e[1] < f[1] \/ (e[1] = f[1] /\ e[2] < f[2])

\* s with x at position i + 1.
InsertAfter(s, i, x) == SubSeq(s, 1, i) \o <<x>> \o SubSeq(s, i + 1, Len(s))

From(s, i) == SubSeq(s, i, Len(s))

\* s without its element i.
Without(s, i) == SubSeq(s, 1, i - 1) \o From(s, i + 1)

-----------------------------------------------------------------------------
(***************************************************************************)
(* Reading.  A walk follows a function from page to page until it stays;   *)
(* a walk that still moves after all the pages runs in a circle.           *)
(***************************************************************************)
Walk(next, start) ==
  LET at[n \in 0..Cardinality(DOMAIN page) + 2] ==
        IF n = 0 THEN start
        ELSE LET p == at[n - 1] IN IF p \in DOMAIN page THEN next[p] ELSE None
  IN  at

Visited(walk) == {walk[n] : n \in DOMAIN walk} \cap DOMAIN page

End(walk) == walk[Cardinality(DOMAIN page) + 2]

\* findLeafPage: at a separator equal to the key it turns right.
Child(node, k) ==
  LET pos == Cardinality({i \in DOMAIN node.entries : node.entries[i][1] <= k})
  IN  IF pos < Len(node.kids) THEN node.kids[pos + 1] ELSE None

Down(k) == [p \in DOMAIN page |-> IF page[p].leaf THEN p ELSE Child(page[p], k)]

ToLeaf(k) == Walk(Down(k), IF head.magic THEN head.root ELSE None)

FindLeaf(k) == End(ToLeaf(k))

\* findLeftmostLeafPage: back over the leaves that may still hold the key.
MayHold(node, k) == node.entries = <<>> \/ node.entries[Len(node.entries)][1] >= k

Back(k) ==
  [p \in DOMAIN page |-> IF page[p].prev = None THEN p
                         ELSE IF page[p].prev \notin DOMAIN page THEN None
                         ELSE IF MayHold(page[page[p].prev], k) THEN page[p].prev ELSE p]

ToLeftmost(k) == Walk(Back(k), FindLeaf(k))

\* Faulty: starts at the last leaf that can hold the key.
StartAtLeaf(k) == FindLeaf(k)

FindLeftmost(k) == End(ToLeftmost(k))

\* rangeSearch and search: along the leaves until an entry is beyond the range.
InReach(x, hi, withHi) == x < hi \/ (withHi /\ x = hi)

Onward(hi, withHi) ==
  [p \in DOMAIN page |->
     IF \A i \in DOMAIN page[p].entries : InReach(page[p].entries[i][1], hi, withHi)
     THEN page[p].next ELSE None]

ToRange(lo, hi, withHi) == Walk(Onward(hi, withHi), FindLeftmost(lo))

\* The entries of the visited leaves.
EntriesIn(leaves) == UNION {{page[p].entries[i] : i \in DOMAIN page[p].entries} : p \in leaves}

RangeSearch(lo, hi, withLo, withHi) ==
  {e \in EntriesIn(Visited(ToRange(lo, hi, withHi))) :
     InReach(e[1], hi, withHi) /\ (e[1] > lo \/ (withLo /\ e[1] = lo))}

Search(k) == RangeSearch(k, k, TRUE, TRUE)

-----------------------------------------------------------------------------
BlankFile == <<HeadWrite(0, 1), PageWrite(0, Blank(TRUE))>>

Init ==
  /\ unique \in BOOLEAN
  /\ head = [magic |-> TRUE, root |-> 0, next |-> 1]
  /\ page = [p \in {0} |-> Blank(TRUE)]
  /\ todo = <<>> /\ pc = "idle"
  /\ left = None /\ right = None /\ sep = <<>>
  /\ entered = {} /\ count = 0 /\ deletes = 0 /\ torn = FALSE /\ crashes = 0

Idle == pc = "idle" /\ todo = <<>>

Settle == pc' = "idle" /\ left' = None /\ right' = None /\ sep' = <<>>

\* Faulty: a unique index takes a key it already holds.
RefusesUnreadable(k) == FindLeaf(k) \notin DOMAIN page

\* insertEntryInternal returns false before it writes anything.
Refuses(k) == (unique /\ Search(k) # {}) \/ FindLeaf(k) \notin DOMAIN page

Enter(k) ==
  /\ Idle /\ count < MaxEntries /\ ~ Refuses(k)
  /\ entered' = entered \cup {<<k, count + 1>>}
  /\ count' = count + 1
  /\ UNCHANGED <<file, deletes, torn, crashes>>

\* The entries of the leaf after insertIntoLeaf has put the new one in its place.
WithEntry(leaf, e) ==
  InsertAfter(leaf.entries, Cardinality({i \in DOMAIN leaf.entries : Less(leaf.entries[i], e)}), e)

\* Faulty: one entry more than a page is meant to hold.
FitsLoosely(list) == Len(list) <= Order + 1

Fits(list) == Len(list) <= Order

InsertFits(k) ==
  LET p == FindLeaf(k)
      all == WithEntry(page[p], <<k, count + 1>>)
  IN  /\ Enter(k)
      /\ Fits(all)
      /\ todo' = <<PageWrite(p, [page[p] EXCEPT !.entries = all])>>
      /\ UNCHANGED split

\* Faulty: the leaf behind a split still goes back to the left half.
ForgetPrev(n, r) == <<>>

\* The leaf n, if there is one, comes after the new leaf r.
LinkPrev(n, r) == IF n = None THEN <<>> ELSE <<PageWrite(n, [page[n] EXCEPT !.prev = r])>>

\* Faulty: the new leaf takes its successor from the old one after that was linked to it.
HalvesLooped(p, r, all, half) ==
  <<PageWrite(p, [page[p] EXCEPT !.entries = SubSeq(all, 1, half), !.next = r]),
    PageWrite(r, Node(TRUE, From(all, half + 1), <<>>, page[p].parent, p, r))>>

Halves(p, r, all, half) ==
  <<PageWrite(p, [page[p] EXCEPT !.entries = SubSeq(all, 1, half), !.next = r]),
    PageWrite(r, Node(TRUE, From(all, half + 1), <<>>, page[p].parent, p, page[p].next))>>

\* An overflowing leaf is halved: the new page, the leaf after it, the two halves.
InsertSplits(k) ==
  LET p == FindLeaf(k)
      r == head.next
      all == WithEntry(page[p], <<k, count + 1>>)
      half == Len(all) \div 2
  IN  /\ Enter(k)
      /\ ~ Fits(all)
      /\ todo' = Allocate(TRUE) \o LinkPrev(page[p].next, r) \o Halves(p, r, all, half)
      /\ pc' = "parent" /\ left' = p /\ right' = r /\ sep' = all[half + 1]

-----------------------------------------------------------------------------
(***************************************************************************)
(* insertIntoParent, once the writes of the split are on disk.             *)
(***************************************************************************)
\* Faulty: only the split of a root is entered above.
AscendingFromRoot == pc = "parent" /\ todo = <<>> /\ page[left].parent = None

Ascending == pc = "parent" /\ todo = <<>>

\* The page that was split was the root: a new root above the two halves.
GrowRoot ==
  LET q == head.next
  IN  /\ Ascending /\ page[left].parent = None
      /\ todo' = Allocate(FALSE)
              \o <<HeadWrite(q, q + 1),
                   PageWrite(q, Node(FALSE, <<sep>>, <<left, right>>, None, None, None)),
                   PageWrite(left, [page[left] EXCEPT !.parent = q]),
                   PageWrite(right, [page[right] EXCEPT !.parent = q])>>
      /\ Settle
      /\ UNCHANGED <<file, history>>

Position(p, node) == {i \in DOMAIN node.kids : node.kids[i] = p}

\* The parent does not know the page: insertIntoParent returns false.
ParentLost ==
  /\ Ascending /\ page[left].parent # None
  /\ Position(left, page[page[left].parent]) = {}
  /\ Settle
  /\ UNCHANGED <<file, todo, history>>

\* The keys and children of q with the split entered behind its i-th child.
KeysAt(q, i) == InsertAfter(page[q].entries, i - 1, sep)

KidsAt(q, i) == InsertAfter(page[q].kids, i, right)

ParentFits ==
  LET q == page[left].parent
  IN  /\ Ascending /\ q # None
      /\ \E i \in Position(left, page[q]) :
           /\ Fits(KeysAt(q, i))
           /\ todo' = <<PageWrite(q, [page[q] EXCEPT !.entries = KeysAt(q, i),
                                                    !.kids = KidsAt(q, i)]),
                        PageWrite(right, [page[right] EXCEPT !.parent = q])>>
      /\ Settle
      /\ UNCHANGED <<file, history>>

\* Faulty: as many children as keys are told.
AdoptOneLess(moved, r) ==
  [j \in 1..Len(moved) - 1 |-> PageWrite(moved[j], [page[moved[j]] EXCEPT !.parent = r])]

\* The children of the right half are told their new parent.
Adopt(moved, r) ==
  [j \in DOMAIN moved |-> PageWrite(moved[j], [page[moved[j]] EXCEPT !.parent = r])]

\* The parent overflows: it is halved around its middle key, which goes up.
ParentSplits ==
  LET q == page[left].parent
      r == head.next
  IN  /\ Ascending /\ q # None
      /\ \E i \in Position(left, page[q]) :
           LET keys == KeysAt(q, i)
               kids == KidsAt(q, i)
               mid == Len(keys) \div 2
               moved == From(kids, mid + 2)
           IN  /\ ~ Fits(keys)
               /\ todo' = Allocate(FALSE) \o Adopt(moved, r)
                       \o <<PageWrite(q, [page[q] EXCEPT !.entries = SubSeq(keys, 1, mid),
                                                         !.kids = SubSeq(kids, 1, mid + 1)]),
                            PageWrite(r, Node(FALSE, From(keys, mid + 2), moved,
                                              page[q].parent, None, None))>>
               /\ sep' = keys[mid + 1]
      /\ left' = q /\ right' = r /\ pc' = "parent"
      /\ UNCHANGED <<file, history>>

-----------------------------------------------------------------------------
\* deleteEntry looks in one leaf only, the last that can hold the key.
DeleteEntry(e) ==
  LET p == FindLeaf(e[1])
  IN  /\ Idle /\ deletes < DeleteBound
      /\ p \in DOMAIN page
      /\ \E i \in DOMAIN page[p].entries :
           /\ page[p].entries[i] = e
           /\ page' = [page EXCEPT ![p].entries = Without(@, i)]
      /\ entered' = entered \ {e}
      /\ deletes' = deletes + 1
      /\ UNCHANGED <<head, todo, split, count, torn, crashes>>

Start(header, pages, writes) ==
  /\ Idle
  /\ head' = header /\ page' = pages /\ todo' = writes
  /\ entered' = {} /\ count' = 0 /\ deletes' = 0 /\ torn' = FALSE
  /\ UNCHANGED <<split, crashes>>

\* Faulty: the root page of an existing file is emptied and its header kept.
RebuildInPlace == Start(head, page, <<PageWrite(0, Blank(TRUE))>>)

\* rebuildIndex deletes the file and makes an empty one; the records follow as insertions.
Rebuild ==
  Start([magic |-> FALSE, root |-> None, next |-> 0], [p \in {} |-> Blank(TRUE)], BlankFile)

Write ==
  /\ todo # <<>>
  /\ LET w == Head(todo)
     IN  IF w.head
           THEN head' = [magic |-> TRUE, root |-> w.root, next |-> w.next] /\ page' = page
           ELSE /\ page' = [p \in DOMAIN page \cup {w.page} |->
                              IF p = w.page THEN w.node ELSE page[p]]
                /\ head' = head
  /\ todo' = Tail(todo)
  /\ UNCHANGED <<split, history>>

Crash ==
  /\ ~ Idle /\ crashes < MaxCrashes
  /\ todo' = <<>>
  /\ Settle
  /\ torn' = TRUE /\ crashes' = crashes + 1
  /\ UNCHANGED <<file, entered, count, deletes>>

Step == Write \/ GrowRoot \/ ParentLost \/ ParentFits \/ ParentSplits

Next ==
  /\ \/ \E k \in KeySet : InsertFits(k) \/ InsertSplits(k)
     \/ \E e \in KeySet \X (1..MaxEntries) : DeleteEntry(e)
     \/ Rebuild
     \/ Step
     \/ Crash
  /\ UNCHANGED unique

Spec == Init /\ [][Next]_vars

\* The statement that maintains the index runs to its end.
FairSpec == Spec /\ WF_vars(Step /\ UNCHANGED unique)

-----------------------------------------------------------------------------
Quiet == Idle /\ ~ torn

NodeType ==
  [leaf : BOOLEAN, entries : Seq(KeySet \X Nat), kids : Seq(Nat),
   parent : Nat \cup {None}, prev : Nat \cup {None}, next : Nat \cup {None}]

TypeOK ==
  /\ head.magic \in BOOLEAN /\ head.root \in Nat \cup {None} /\ head.next \in Nat
  /\ \A p \in DOMAIN page : p \in Nat /\ page[p] \in NodeType /\ Len(page[p].entries) <= Order
  /\ pc \in {"idle", "parent"}
  /\ entered \subseteq KeySet \X (1..MaxEntries)

\* An equality search finds exactly the offsets entered under the key since the
\* file was last built: also when equal keys fill several leaves, when leaves
\* have become empty, and when the rebuild found a file a crash had cut short.
SearchFinds == Quiet => \A k \in KeySet : Search(k) = {e \in entered : e[1] = k}

\* A range search finds exactly the entries between its bounds, with or
\* without either bound.
RangeFinds ==
  Quiet => \A lo, hi \in KeySet : \A withLo, withHi \in BOOLEAN :
    RangeSearch(lo, hi, withLo, withHi) =
      {e \in entered : /\ e[1] \in lo..hi
                       /\ e[1] = lo => withLo
                       /\ e[1] = hi => withHi}

\* Every page but the root is a child of the page it calls its parent, next
\* and prev of the leaves are inverse, and every leaf is equally deep: what
\* the next split relies on.
Depth(p) == Cardinality(Visited(Walk([q \in DOMAIN page |-> page[q].parent], p)))

WellLinked ==
  Quiet /\ head.magic =>
    /\ \A p \in DOMAIN page : ~ page[p].leaf =>
         \A i \in DOMAIN page[p].kids : page[page[p].kids[i]].parent = p
    /\ \A p \in DOMAIN page : page[p].parent = None <=> p = head.root
    /\ \A p, q \in DOMAIN page : page[p].leaf /\ page[q].leaf =>
         (page[p].next = q <=> page[q].prev = p) /\ Depth(p) = Depth(q)

\* Through all splits no key enters a unique index twice: keyExists finds
\* every key entered before, wherever the splits have put it.
UniqueKept == unique /\ ~ torn => \A e, f \in entered : e[1] = f[1] => e = f

\* No search runs in circles, whatever a crash has left of the links.
SearchesEnd ==
  Idle => \A lo, hi \in KeySet :
    LET p == FindLeftmost(lo)
    IN  /\ FindLeaf(lo) # None => page[FindLeaf(lo)].leaf
        /\ p # None => ToLeftmost(lo)[Cardinality(DOMAIN page) + 1] = p /\ page[p].prev # p
        /\ End(ToRange(lo, hi, TRUE)) = None

\* A split is entered in ever higher pages until one has room.
InsertEnds == ~ Idle ~> Idle

=============================================================================
