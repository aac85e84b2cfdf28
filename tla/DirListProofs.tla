---------------------------- MODULE DirListProofs ----------------------------
(***************************************************************************)
(* Theorems about DirList, for every number of paths and every tree.       *)
(***************************************************************************)
EXTENDS DirListLemmas

-----------------------------------------------------------------------------
(* The inductive invariant.                                                *)

NodesOf(L) == {p \in Paths : L.level[p] # 0}

\* The list is linked in some order.
Whole(L) == \E r \in Ranks : Orders(r, NodesOf(L)) /\ Linked(L, NodesOf(L), r)

\* The order of the output file.
Final == ByLevel(Depth, NULL)
Place(p) == Pos(p, Listed, Final)

Frames == [path : Paths, unread : SUBSET Paths, buf : {"uninit", "dir", "file"}]
Lines == [level : 0..N, order : 0..N, path : Paths]

TreeInv == /\ Tree(parent) /\ kind[root] # "hidden"
           /\ \A p \in Paths \ {root} : kind[parent[p]] = "dir"

\* The lines in the file are the first ones of the listing.
Written == /\ output \in Seq(Lines) /\ Len(output) <= Cardinality(Listed)
           /\ \A p \in Listed : Place(p) <= Len(output) => output[Place(p)] = Entry(p)

\* The nodes are entries that are not hidden, each with its depth and behind its parent.
NodesInv == /\ root \in Nodes
            /\ \A p \in Nodes : /\ kind[p] # "hidden" /\ list.level[p] = Depth[p]
                                /\ p # root => parent[p] \in Nodes

\* A call of populate_list() reads a directory of the list, one at every depth, and
\* what it has not read is not in the list.
FrameInv(i) == /\ stack[i].path \in Nodes /\ kind[stack[i].path] = "dir"
               /\ Depth[stack[i].path] = i
               /\ stack[i].unread \subseteq Children(stack[i].path)
               /\ stack[i].unread \cap Nodes = {}

\* An entry of a directory in the list is in the list too, hidden, or still to be read.
StackInv == /\ stack \in Seq(Frames) /\ Len(stack) >= 1 /\ current_level = Len(stack) + 1
            /\ \A i \in 1..Len(stack) : FrameInv(i)
            /\ \A p \in Paths \ {root} : parent[p] \in Nodes =>
                 \/ p \in Nodes \/ kind[p] = "hidden"
                 \/ \E i \in 1..Len(stack) : p \in stack[i].unread

\* Once the tree is read, the list holds all that is not hidden.
ListedInv == Nodes = Listed /\ \A p \in Nodes : list.level[p] = Depth[p]

Unprinted == output = <<>> /\ order = 0

\* The printer is at the node behind the last line, and order is the number in that line.
PrintInv == /\ IF curr = NULL THEN Len(output) = Cardinality(Listed)
               ELSE curr \in Listed /\ Place(curr) = Len(output) + 1
            /\ order = IF output = <<>> THEN 0 ELSE output[Len(output)].order

ListInv ==
  /\ TreeInv
  /\ list \in Lists /\ Whole(list) /\ {fi, curr} \subseteq Paths \cup {NULL} /\ order \in 0..N
  /\ Written
  /\ phase = "start" => list = create_list /\ stack = <<>> /\ current_level = 1 /\ Unprinted
  /\ phase = "populate" => SortedList(list, Nodes) /\ NodesInv /\ StackInv /\ Unprinted
  /\ phase = "sort" => /\ ListedInv /\ Unprinted /\ fi \in (Listed \ {root}) \cup {NULL}
                       /\ Linked(list, Nodes, ByLevel(list.level, fi))
  /\ phase = "print" => ListedInv /\ Linked(list, Listed, Final) /\ PrintInv
  /\ phase = "done" => Len(output) = Cardinality(Listed)

\* The tree does not change, nor does what is derived from it.
LEMMA TreeStays ==
  ASSUME UNCHANGED tree
  PROVE  /\ Depth' = Depth /\ Listed' = Listed /\ Final' = Final /\ TreeInv' = TreeInv
         /\ \A p \in Paths : /\ Children(p)' = Children(p) /\ Frame(p)' = Frame(p)
                             /\ Entry(p)' = Entry(p) /\ Place(p)' = Place(p)
<1>1. parent' = parent /\ kind' = kind
  BY ZenonT(40) DEF tree
<1>2. Depth' = Depth
  BY ZenonT(40), <1>1 DEF Depth
<1>3. Listed' = Listed
  BY ZenonT(40), <1>1 DEF Listed
<1>4. Final' = Final
  BY ZenonT(40), <1>2 DEF Final
<1>5. TreeInv' = TreeInv
  BY ZenonT(40), <1>1 DEF TreeInv
<1>6. ASSUME NEW p \in Paths
      PROVE  /\ Children(p)' = Children(p) /\ Frame(p)' = Frame(p)
             /\ Entry(p)' = Entry(p) /\ Place(p)' = Place(p)
  <2>1. Children(p)' = Children(p)
    BY ZenonT(40), <1>1 DEF Children
  <2>2. Frame(p)' = Frame(p)
    BY ZenonT(40), <2>1 DEF Frame
  <2>3. Place(p)' = Place(p)
    BY ZenonT(40), <1>3, <1>4 DEF Place
  <2>4. Entry(p)' = Entry(p)
    BY ZenonT(40), <1>2, <1>3 DEF Entry
  <2> QED BY ZenonT(40), <2>1, <2>2, <2>3, <2>4
<1> QED BY ZenonT(40), <1>2, <1>3, <1>4, <1>5, <1>6

\* create_node() and insert_sorted() add one node, at its level, to a sorted list.
LEMMA NodeInserted ==
  ASSUME NEW L \in Lists, SortedList(L, NodesOf(L)), NEW p \in Paths \ NodesOf(L), NEW lev \in 1..N
  PROVE  LET M == insert_sorted(create_node(L, p, lev), p)
         IN  /\ M \in Lists /\ M.level = [L.level EXCEPT ![p] = lev]
             /\ NodesOf(M) = NodesOf(L) \cup {p}
             /\ SortedList(M, NodesOf(M))
<1> DEFINE C == create_node(L, p, lev)
           M == insert_sorted(C, p)
           S == NodesOf(L)
<1>1. S \in SUBSET Paths /\ p \in Paths \ S
  BY ZenonT(40) DEF NodesOf
<1>2. /\ C \in Lists /\ C.head = L.head /\ C.tail = L.tail /\ C.next = L.next /\ C.prev = L.prev
      /\ C.level = [L.level EXCEPT ![p] = lev]
  BY SMTT(30), NAssumption DEF create_node, Lists
<1> HIDE DEF C, S
<1>3. SortedList(C, S)
  BY ZenonT(40), <1>2 DEF SortedList, Linked, S
<1>4. M \in Lists /\ M.level = C.level /\ SortedList(M, S \cup {p})
  BY ZenonT(40), <1>1, <1>2, <1>3, InsertSorted
<1> HIDE DEF M
<1>5. NodesOf(M) = S \cup {p}
  <2>1. \A q \in Paths : M.level[q] # 0 <=> q \in S \/ q = p
    <3>1. \A q \in Paths : M.level[q] = IF q = p THEN lev ELSE L.level[q]
      BY ZenonT(40), <1>2, <1>4 DEF Lists
    <3>2. lev # 0
      OBVIOUS
    <3> QED BY ZenonT(40), <3>1, <3>2 DEF S, NodesOf
  <2> QED BY ZenonT(40), <1>1, <2>1 DEF NodesOf
<1> QED BY ZenonT(40), <1>2, <1>4, <1>5 DEF M, C, S

\* A sorted list is whole.
LEMMA SortedIsWhole ==
  ASSUME NEW L \in Lists, SortedList(L, NodesOf(L))
  PROVE  Whole(L)
<1>1. ByPath \in Ranks /\ Orders(ByPath, NodesOf(L))
  BY NAssumption DEF ByPath, Ranks, Orders, NodesOf, Paths
<1> QED BY ZenonT(40), <1>1 DEF Whole, SortedList

\* create_list() makes an empty list.
LEMMA EmptyList ==
  create_list \in Lists /\ NodesOf(create_list) = {} /\ SortedList(create_list, {}) /\ Whole(create_list)
<1>1. create_list \in Lists
  BY NAssumption DEF create_list, Lists
<1>2. NodesOf(create_list) = {}
  BY ZenonT(40) DEF create_list, NodesOf
<1>3. SortedList(create_list, {})
  BY ZenonT(40) DEF create_list, SortedList, Linked
<1> QED BY ZenonT(40), <1>1, <1>2, <1>3, SortedIsWhole

-----------------------------------------------------------------------------
(* The steps that read the tree.                                           *)

\* What the order of the output file compares.
LEMMA FinalOrder ==
  ASSUME TreeInv
  PROVE  /\ Depth \in [Paths -> 0..N] /\ Depth[root] = 1
         /\ \A p \in Paths \ {root} : Depth[p] = Depth[parent[p]] + 1 /\ 1 < Depth[p]
         /\ Final \in Ranks /\ Orders(Final, Paths) /\ Orders(Final, Listed)
         /\ \A p, q \in Paths :
              Final[p] <= Final[q] <=> Depth[p] < Depth[q] \/ (Depth[p] = Depth[q] /\ p <= q)
         /\ Listed \in SUBSET Paths /\ root \in Listed /\ Cardinality(Listed) \in 0..N
<1>1. /\ Depth \in [Paths -> 0..N] /\ Depth[root] = 1
      /\ \A p \in Paths \ {root} : Depth[p] = Depth[parent[p]] + 1 /\ 1 < Depth[p]
  BY ZenonT(40), DepthsAre DEF TreeInv, Depth
<1>2. /\ Final \in Ranks /\ Orders(Final, Paths)
      /\ \A p, q \in Paths :
           Final[p] <= Final[q] <=> Depth[p] < Depth[q] \/ (Depth[p] = Depth[q] /\ p <= q)
  <2>1. \A p \in Paths : Done(NULL, p)
    BY ZenonT(40) DEF Done
  <2> QED BY ZenonT(40), <1>1, <2>1, ByLevelOrder DEF Final
<1>3. Listed \in SUBSET Paths /\ root \in Listed
  BY NAssumption DEF Listed, TreeInv, root, Paths
<1>4. Orders(Final, Listed)
  BY ZenonT(40), <1>2, <1>3 DEF Orders
<1>5. Cardinality(Listed) \in 0..N
  BY ZenonT(40), <1>3, NodesFinite
<1> QED BY ZenonT(40), <1>1, <1>2, <1>3, <1>4, <1>5

\* A step that writes no line keeps the lines.
LEMMA WrittenStays ==
  ASSUME Written, UNCHANGED tree, output' = output
  PROVE  Written'
<1>1. Listed' = Listed /\ \A p \in Paths : Entry(p)' = Entry(p) /\ Place(p)' = Place(p)
  BY ZenonT(40), TreeStays
<1>2. Listed \subseteq Paths
  BY ZenonT(40) DEF Listed
<1> QED BY ZenonT(40), <1>1, <1>2 DEF Written

\* Replacing the innermost call leaves the others.
LEMMA TopReplaced ==
  ASSUME NEW st \in Seq(Frames), Len(st) >= 1, NEW top \in Frames
  PROVE  LET new == [st EXCEPT ![Len(st)] = top]
         IN  /\ new \in Seq(Frames) /\ Len(new) = Len(st)
             /\ \A i \in 1..Len(st) : new[i] = IF i = Len(st) THEN top ELSE st[i]
BY SMTT(30)

\* The innermost call of populate_list() has read p; the other calls are where they were.
IsRead(new, st, p) ==
  /\ new \in Seq(Frames) /\ Len(new) = Len(st)
  /\ \A i \in 1..Len(st) : /\ new[i].path = st[i].path
                           /\ new[i].unread = IF i = Len(st) THEN st[i].unread \ {p}
                                              ELSE st[i].unread

TopRead(st, p, b) == [st EXCEPT ![Len(st)].unread = @ \ {p}, ![Len(st)].buf = b]

\* What the calls are after an entry was read and its stat() was made.
LEMMA FrameRead ==
  ASSUME NEW st \in Seq(Frames), Len(st) >= 1, NEW p, NEW b \in {"uninit", "dir", "file"}
  PROVE  IsRead(TopRead(st, p, b), st, p)
<1> DEFINE n == Len(st)
           top == [[st[n] EXCEPT !.unread = @ \ {p}] EXCEPT !.buf = b]
           new == TopRead(st, p, b)
<1>1. n \in Nat /\ n \in 1..n /\ st[n] \in Frames
  OBVIOUS
<1>2. top \in Frames /\ top.path = st[n].path /\ top.unread = st[n].unread \ {p}
  <2>1. ASSUME NEW x \in Frames
        PROVE  LET y == [[x EXCEPT !.unread = x.unread \ {p}] EXCEPT !.buf = b]
               IN  y \in Frames /\ y.path = x.path /\ y.unread = x.unread \ {p}
    BY ZenonT(40) DEF Frames
  <2> QED BY ZenonT(40), <1>1, <2>1
<1>3. new = [st EXCEPT ![n] = top]
  BY ZenonT(40), <1>1 DEF TopRead
<1> HIDE DEF top, new
<1>4. /\ new \in Seq(Frames) /\ Len(new) = Len(st)
      /\ \A i \in 1..Len(st) : new[i] = IF i = Len(st) THEN top ELSE st[i]
  BY <1>2, <1>3, TopReplaced
<1>5. \A i \in 1..Len(st) : /\ new[i].path = st[i].path
                            /\ new[i].unread = IF i = Len(st) THEN st[i].unread \ {p}
                                               ELSE st[i].unread
  BY ZenonT(40), <1>2, <1>4
<1> QED BY ZenonT(40), <1>4, <1>5 DEF new, IsRead

\* The same when only a hidden entry was read.
LEMMA HiddenRead ==
  ASSUME NEW st \in Seq(Frames), Len(st) >= 1, NEW p
  PROVE  LET new == [st EXCEPT ![Len(st)].unread = @ \ {p}]
         IN  /\ new \in Seq(Frames) /\ Len(new) = Len(st)
             /\ \A i \in 1..Len(st) : /\ new[i].path = st[i].path
                                      /\ new[i].unread = IF i = Len(st) THEN st[i].unread \ {p}
                                                         ELSE st[i].unread
<1> DEFINE n == Len(st)
           top == [st[n] EXCEPT !.unread = @ \ {p}]
           new == [st EXCEPT ![Len(st)].unread = @ \ {p}]
<1>1. n \in Nat /\ n \in 1..n /\ st[n] \in Frames
  OBVIOUS
<1>2. top \in Frames /\ top.path = st[n].path /\ top.unread = st[n].unread \ {p}
  <2>1. ASSUME NEW x \in Frames
        PROVE  LET y == [x EXCEPT !.unread = x.unread \ {p}]
               IN  y \in Frames /\ y.path = x.path /\ y.unread = x.unread \ {p}
    BY ZenonT(40) DEF Frames
  <2> QED BY ZenonT(40), <1>1, <2>1
<1>3. new = [st EXCEPT ![n] = top]
  BY ZenonT(40), <1>1
<1> HIDE DEF top, new
<1>4. /\ new \in Seq(Frames) /\ Len(new) = Len(st)
      /\ \A i \in 1..Len(st) : new[i] = IF i = Len(st) THEN top ELSE st[i]
  BY SMTT(30), <1>2, <1>3, TopReplaced
<1>5. \A i \in 1..Len(st) : /\ new[i].path = st[i].path
                            /\ new[i].unread = IF i = Len(st) THEN st[i].unread \ {p}
                                               ELSE st[i].unread
  BY ZenonT(40), <1>2, <1>4
<1> QED BY ZenonT(40), <1>4, <1>5 DEF new

\* The first call of populate_list() makes the list that holds only the root.
LEMMA RootInserts ==
  ASSUME ListInv, PopulateRoot
  PROVE  list' \in Lists /\ Nodes' = {root} /\ SortedList(list', Nodes') /\ list'.level[root] = 1
<1>1. list' = insert_sorted(create_node(create_list, root, 1), root)
  BY ZenonT(40) DEF ListInv, PopulateRoot
<1>2. root \in Paths /\ 1 \in 1..N
  BY NAssumption DEF root, Paths
<1> DEFINE L == create_list
           M == insert_sorted(create_node(L, root, 1), root)
<1>3. L \in Lists /\ NodesOf(L) = {} /\ SortedList(L, NodesOf(L))
  BY ZenonT(40), EmptyList
<1> HIDE DEF L
<1>4. /\ M \in Lists /\ M.level = [L.level EXCEPT ![root] = 1] /\ NodesOf(M) = {root}
      /\ SortedList(M, NodesOf(M))
  BY SMTT(30), <1>2, <1>3, NodeInserted
<1>5. list' = M
  BY ZenonT(40), <1>1 DEF L
<1> HIDE DEF M
<1>6. M.level[root] = 1
  BY ZenonT(40), <1>2, <1>3, <1>4 DEF Lists
<1>7. Nodes' = NodesOf(M)
  BY ZenonT(40), <1>5 DEF Nodes, NodesOf
<1> QED BY ZenonT(40), <1>4, <1>5, <1>6, <1>7

\* The first call of populate_list() puts the root into the list.
LEMMA RootStep ==
  ASSUME ListInv, PopulateRoot
  PROVE  ListInv'
<1>1. /\ phase = "start" /\ list = create_list /\ current_level = 1 /\ Unprinted
      /\ TreeInv /\ Written /\ {fi, curr} \subseteq Paths \cup {NULL} /\ order \in 0..N
  BY ZenonT(40) DEF ListInv, PopulateRoot
<1>2. /\ UNCHANGED tree /\ fi' = fi /\ curr' = curr /\ order' = order /\ output' = output
      /\ list' = insert_sorted(create_node(create_list, root, 1), root) /\ current_level' = 2
      /\ phase' \in {"populate", "crashed"}
      /\ phase' = "populate" => kind[root] = "dir" /\ stack' = <<Frame(root)>>
  BY <1>1 DEF PopulateRoot
<1>3. root \in Paths /\ 1 \in 1..N
  BY NAssumption DEF root, Paths
<1>4. list' \in Lists /\ Nodes' = {root} /\ SortedList(list', Nodes') /\ list'.level[root] = 1
  BY ZenonT(40), RootInserts
<1>5. Whole(list') /\ Written' /\ TreeInv'
  <2>1. Nodes' = NodesOf(list')
    BY ZenonT(40) DEF Nodes, NodesOf
  <2> QED BY ZenonT(40), <1>1, <1>2, <1>4, <2>1, SortedIsWhole, WrittenStays, TreeStays
<1>6. Depth' = Depth /\ Depth[root] = 1
  BY ZenonT(40), <1>1, <1>2, TreeStays, FinalOrder
<1>7. ASSUME phase' = "populate" PROVE NodesInv' /\ StackInv'
  <2>1. stack' = <<Frame(root)>> /\ kind[root] = "dir" /\ kind' = kind /\ parent' = parent
    BY ZenonT(40), <1>2, <1>7 DEF tree
  <2>2. Frame(root) \in Frames /\ Frame(root).path = root /\ Frame(root).unread = Children(root)
    BY ZenonT(40), <1>3 DEF Frame, Frames, Children
  <2>3. /\ stack' \in Seq(Frames) /\ Len(stack') = 1
        /\ stack'[1].path = root /\ stack'[1].unread = Children(root)
    BY SMTT(30), <2>1, <2>2
  <2>4. Children(root)' = Children(root) /\ Children(root) \cap {root} = {}
    BY ZenonT(40), <1>2, <1>3, TreeStays DEF Children
  <2>5. NodesInv'
    BY ZenonT(40), <1>1, <1>4, <1>6, <2>1 DEF NodesInv, TreeInv
  <2>6. FrameInv(1)'
    BY ZenonT(40), <1>4, <1>6, <2>1, <2>3, <2>4 DEF FrameInv
  <2>7. ASSUME NEW p \in Paths \ {root}, parent[p] = root PROVE p \in stack'[1].unread
    BY ZenonT(40), <2>3, <2>7 DEF Children
  <2>8. StackInv'
    <3>1. \A i \in 1..Len(stack') : i = 1
      BY <2>3
    <3>2. current_level' = Len(stack') + 1 /\ Len(stack') >= 1 /\ 1 \in 1..Len(stack')
      BY SMTT(30), <1>2, <2>3
    <3> QED BY ZenonT(40), <1>4, <2>1, <2>3, <2>6, <2>7, <3>1, <3>2 DEF StackInv
  <2> QED BY ZenonT(40), <2>5, <2>8
<1> QED BY ZenonT(40), <1>1, <1>2, <1>4, <1>5, <1>7 DEF ListInv, Unprinted

\* The entry that populate_list() reads belongs to its innermost call: it is not in
\* the list yet, its directory is, and current_level is its depth.
LEMMA ReadingFacts ==
  ASSUME ListInv, NEW p, Reading(p)
  PROVE  /\ TreeInv /\ NodesInv /\ StackInv /\ Unprinted /\ SortedList(list, Nodes) /\ list \in Lists
         /\ Len(stack) \in Nat /\ Len(stack) >= 1 /\ Len(stack) \in 1..Len(stack)
         /\ p \in stack[Len(stack)].unread
         /\ p \in Paths \ {root} /\ parent[p] = stack[Len(stack)].path /\ parent[p] \in Nodes
         /\ p \notin Nodes /\ Depth[p] = current_level /\ current_level \in 1..N
<1> DEFINE n == Len(stack)
<1>1. /\ TreeInv /\ NodesInv /\ StackInv /\ Unprinted /\ SortedList(list, Nodes) /\ list \in Lists
      /\ p \in stack[n].unread
  BY ZenonT(40) DEF ListInv, Reading, Top
<1>2. n \in Nat /\ n >= 1 /\ current_level = n + 1
  BY <1>1 DEF StackInv
<1> HIDE DEF n
<1>3. n \in 1..n
  BY <1>2
<1>4. /\ stack[n].path \in Nodes /\ Depth[stack[n].path] = n /\ stack[n].unread \subseteq Children(stack[n].path)
      /\ stack[n].unread \cap Nodes = {}
  BY ZenonT(40), <1>1, <1>3 DEF StackInv, FrameInv, n
<1>5. p \in Paths \ {root} /\ parent[p] = stack[n].path /\ p \notin Nodes
  BY ZenonT(40), <1>1, <1>4 DEF Children
<1>6. Depth[p] = n + 1 /\ Depth[p] \in 0..N
  BY ZenonT(40), <1>1, <1>4, <1>5, FinalOrder
<1>7. current_level \in 1..N
  BY SMTT(30), <1>2, <1>6, NAssumption
<1> QED BY ZenonT(40), <1>1, <1>2, <1>3, <1>4, <1>5, <1>6, <1>7 DEF n

\* A hidden entry is passed over.
LEMMA SkipStep ==
  ASSUME ListInv, NEW p \in Paths, SkipHidden(p)
  PROVE  ListInv'
<1> DEFINE n == Len(stack)
<1>1. /\ TreeInv /\ NodesInv /\ StackInv /\ Unprinted /\ SortedList(list, Nodes) /\ n \in Nat /\ n >= 1
  BY ZenonT(40), ReadingFacts DEF SkipHidden
<1>2. /\ UNCHANGED tree /\ fi' = fi /\ curr' = curr /\ order' = order /\ output' = output
      /\ list' = list /\ current_level' = current_level /\ phase' = phase
      /\ kind[p] = "hidden" /\ phase = "populate"
      /\ parent' = parent /\ kind' = kind
  BY ZenonT(40) DEF SkipHidden, Reading, tree
<1>3. stack' = [stack EXCEPT ![Len(stack)].unread = @ \ {p}]
  BY ZenonT(40) DEF SkipHidden
<1>4. stack \in Seq(Frames)
  BY ZenonT(40), <1>1 DEF StackInv
<1>5. /\ stack' \in Seq(Frames) /\ Len(stack') = n
      /\ \A i \in 1..n : /\ stack'[i].path = stack[i].path
                         /\ stack'[i].unread = IF i = n THEN stack[i].unread \ {p} ELSE stack[i].unread
  <2> DEFINE new == [stack EXCEPT ![Len(stack)].unread = @ \ {p}]
  <2>1. /\ new \in Seq(Frames) /\ Len(new) = n
        /\ \A i \in 1..n : /\ new[i].path = stack[i].path
                           /\ new[i].unread = IF i = n THEN stack[i].unread \ {p} ELSE stack[i].unread
    BY ZenonT(40), <1>1, <1>4, HiddenRead
  <2>2. stack' = new
    BY ZenonT(40), <1>3
  <2> HIDE DEF new
  <2> QED BY ZenonT(40), <2>1, <2>2
<1>6. Nodes' = Nodes /\ Depth' = Depth /\ TreeInv' /\ Written' /\ \A q \in Paths : Children(q)' = Children(q)
  BY ZenonT(40), <1>1, <1>2, TreeStays, WrittenStays DEF Nodes, ListInv
<1>7. NodesInv'
  BY ZenonT(40), <1>1, <1>2, <1>6 DEF NodesInv
<1>8. ASSUME NEW i \in 1..n PROVE FrameInv(i)'
  <2>1. FrameInv(i)
    BY ZenonT(40), <1>1 DEF StackInv
  <2>2. stack[i].path \in Paths
    BY ZenonT(40), <2>1 DEF FrameInv, Nodes
  <2>3. stack'[i].unread \subseteq stack[i].unread /\ stack'[i].path = stack[i].path
    BY ZenonT(40), <1>5
  <2> QED BY ZenonT(40), <1>2, <1>6, <2>1, <2>2, <2>3 DEF FrameInv
<1>9. ASSUME NEW q \in Paths \ {root}, parent[q] \in Nodes, q \notin Nodes, kind[q] # "hidden"
      PROVE  \E i \in 1..n : q \in stack'[i].unread
  <2>1. PICK i \in 1..n : q \in stack[i].unread
    BY ZenonT(40), <1>1, <1>9 DEF StackInv
  <2>2. q # p
    BY ZenonT(40), <1>2, <1>9
  <2> QED BY ZenonT(40), <1>5, <2>1, <2>2
<1>10. StackInv'
  <2>1. current_level' = Len(stack') + 1 /\ Len(stack') >= 1
    BY ZenonT(40), <1>1, <1>2, <1>5 DEF StackInv
  <2>2. \A i \in 1..Len(stack') : FrameInv(i)'
    BY ZenonT(40), <1>5, <1>8
  <2>3. \A q \in Paths \ {root} : parent'[q] \in Nodes' =>
          \/ q \in Nodes' \/ kind'[q] = "hidden"
          \/ \E i \in 1..Len(stack') : q \in stack'[i].unread
    BY ZenonT(40), <1>2, <1>5, <1>6, <1>9
  <2> QED BY ZenonT(40), <1>5, <2>1, <2>2, <2>3 DEF StackInv
<1> QED BY ZenonT(40), <1>1, <1>2, <1>6, <1>7, <1>10 DEF ListInv, Unprinted

\* A visit adds the entry to the list, at its level.
LEMMA VisitInserts ==
  ASSUME ListInv, NEW p \in Paths, NEW b \in {"dir", "file"}, Visit(p, b)
  PROVE  /\ list' \in Lists /\ Nodes' = Nodes \cup {p} /\ SortedList(list', Nodes') /\ Whole(list')
         /\ \A q \in Paths : list'.level[q] = IF q = p THEN current_level ELSE list.level[q]
<1>1. /\ SortedList(list, Nodes) /\ list \in Lists /\ p \notin Nodes /\ current_level \in 1..N
      /\ list' = insert_sorted(create_node(list, p, current_level), p)
  BY ZenonT(40), ReadingFacts DEF Visit
<1> DEFINE M == insert_sorted(create_node(list, p, current_level), p)
<1>2. NodesOf(list) = Nodes
  BY ZenonT(40) DEF NodesOf, Nodes
<1>3. /\ M \in Lists /\ M.level = [list.level EXCEPT ![p] = current_level]
      /\ NodesOf(M) = Nodes \cup {p} /\ SortedList(M, NodesOf(M))
  <2>1. p \in Paths \ NodesOf(list) /\ SortedList(list, NodesOf(list))
    BY ZenonT(40), <1>1, <1>2
  <2> QED BY ZenonT(40), <1>1, <1>2, <2>1, NodeInserted
<1>4. list' = M
  BY ZenonT(40), <1>1
<1> HIDE DEF M
<1>5. Nodes' = NodesOf(M)
  BY ZenonT(40), <1>4 DEF Nodes, NodesOf
<1>6. \A q \in Paths : M.level[q] = IF q = p THEN current_level ELSE list.level[q]
  BY ZenonT(40), <1>1, <1>3 DEF Lists
<1>7. Whole(M)
  BY ZenonT(40), <1>3, SortedIsWhole
<1> QED BY ZenonT(40), <1>3, <1>4, <1>5, <1>6, <1>7

\* An entry is inserted where its path belongs and a directory is opened.
LEMMA VisitStep ==
  ASSUME ListInv, NEW p \in Paths, NEW b \in {"dir", "file"}, Visit(p, b)
  PROVE  ListInv'
<1> DEFINE n == Len(stack)
           read == TopRead(stack, p, b)
<1>1. /\ TreeInv /\ NodesInv /\ StackInv /\ Unprinted /\ SortedList(list, Nodes) /\ list \in Lists
      /\ n \in Nat /\ n >= 1 /\ n \in 1..n
      /\ p \in Paths \ {root} /\ parent[p] = stack[n].path /\ parent[p] \in Nodes
      /\ p \notin Nodes /\ Depth[p] = current_level /\ current_level \in 1..N
  BY ZenonT(40), ReadingFacts DEF Visit
<1>2. /\ UNCHANGED tree /\ fi' = fi /\ curr' = curr /\ order' = order /\ output' = output
      /\ list' = insert_sorted(create_node(list, p, current_level), p)
      /\ kind[p] # "hidden" /\ phase = "populate" /\ b \in StatResults(p)
      /\ parent' = parent /\ kind' = kind
  BY ZenonT(40) DEF Visit, Reading, tree
<1>3. /\ phase' \in {"populate", "crashed"}
      /\ phase' = "populate" =>
           \/ b = "dir" /\ kind[p] = "dir" /\ stack' = Append(read, Frame(p)) /\ current_level' = current_level + 1
           \/ b = "file" /\ stack' = read /\ current_level' = current_level
  BY ZenonT(40), <1>2 DEF Visit, TopRead
<1>4. stack \in Seq(Frames) /\ current_level = n + 1
  BY ZenonT(40), <1>1 DEF StackInv
<1>5. /\ read \in Seq(Frames) /\ Len(read) = n
      /\ \A i \in 1..n : /\ read[i].path = stack[i].path
                         /\ read[i].unread = IF i = n THEN stack[i].unread \ {p} ELSE stack[i].unread
  <2>1. b \in {"uninit", "dir", "file"}
    BY ZenonT(40)
  <2>2. stack \in Seq(Frames) /\ Len(stack) >= 1
    BY ZenonT(40), <1>1, <1>4
  <2>3. IsRead(read, stack, p)
    BY ZenonT(40), <2>1, <2>2, FrameRead
  <2> HIDE DEF read
  <2> QED BY ZenonT(40), <2>3 DEF IsRead
<1> HIDE DEF read
<1>6. Depth' = Depth /\ TreeInv' /\ Written' /\ \A q \in Paths : Children(q)' = Children(q) /\ Frame(q)' = Frame(q)
  BY ZenonT(40), <1>1, <1>2, TreeStays, WrittenStays DEF ListInv
<1>7. /\ list' \in Lists /\ Nodes' = Nodes \cup {p} /\ SortedList(list', Nodes') /\ Whole(list')
      /\ \A q \in Paths : list'.level[q] = IF q = p THEN current_level ELSE list.level[q]
  BY ZenonT(40), VisitInserts
<1>8. NodesInv'
  <2>1. \A q \in Nodes' : q \in Paths
    BY ZenonT(40) DEF Nodes
  <2>2. \A q \in Nodes' : kind[q] # "hidden" /\ list'.level[q] = Depth[q]
    BY ZenonT(40), <1>1, <1>2, <1>7, <2>1 DEF NodesInv
  <2>3. \A q \in Nodes' : q # root => parent[q] \in Nodes'
    BY ZenonT(40), <1>1, <1>7, <2>1 DEF NodesInv
  <2>4. root \in Nodes'
    BY ZenonT(40), <1>1, <1>7 DEF NodesInv
  <2> QED BY ZenonT(40), <1>2, <1>6, <2>2, <2>3, <2>4 DEF NodesInv
<1>9. ASSUME NEW i \in 1..n
      PROVE  /\ read[i].path \in Nodes' /\ kind[read[i].path] = "dir" /\ Depth[read[i].path] = i
             /\ read[i].unread \subseteq Children(read[i].path) /\ read[i].unread \cap Nodes' = {}
  <2>1. FrameInv(i) /\ FrameInv(n)
    BY ZenonT(40), <1>1 DEF StackInv
  <2>2. read[i].path = stack[i].path /\ read[i].unread \subseteq stack[i].unread
    BY ZenonT(40), <1>5
  <2>3. p \notin read[i].unread
    <3>1. CASE i = n
      BY ZenonT(40), <1>5, <3>1
    <3>2. CASE i # n
      <4>1. SUFFICES ASSUME p \in stack[i].unread PROVE FALSE
        BY ZenonT(40), <2>2
      <4>2. parent[p] = stack[i].path
        BY ZenonT(40), <2>1, <4>1 DEF FrameInv, Children
      <4> QED BY ZenonT(40), <1>1, <2>1, <3>2, <4>2 DEF FrameInv
    <3> QED BY ZenonT(40), <3>1, <3>2
  <2> QED BY ZenonT(40), <1>7, <2>1, <2>2, <2>3 DEF FrameInv
<1>10. ASSUME NEW q \in Paths \ {root}, parent[q] \in Nodes', q \notin Nodes', kind[q] # "hidden"
       PROVE  \/ parent[q] = p /\ kind[p] = "dir"
              \/ \E i \in 1..n : q \in read[i].unread
  <2>1. CASE parent[q] = p
    BY ZenonT(40), <1>1, <1>10, <2>1 DEF TreeInv
  <2>2. CASE parent[q] \in Nodes
    <3>1. q \notin Nodes /\ q # p
      BY ZenonT(40), <1>7, <1>10
    <3>2. PICK i \in 1..n : q \in stack[i].unread
      BY ZenonT(40), <1>1, <1>10, <2>2, <3>1 DEF StackInv
    <3> QED BY ZenonT(40), <1>5, <3>1, <3>2
  <2> QED BY ZenonT(40), <1>7, <1>10, <2>1, <2>2
<1>11. CASE phase' = "populate" /\ b = "file"
  <2>1. stack' = read /\ current_level' = current_level
    BY ZenonT(40), <1>3, <1>11
  <2>2. kind[p] # "dir"
    BY ZenonT(40), <1>2, <1>11 DEF StatResults
  <2>3. \A i \in 1..n : FrameInv(i)'
    <3> SUFFICES ASSUME NEW i \in 1..n PROVE FrameInv(i)'
      BY ZenonT(40)
    <3>1. read[i].path \in Paths
      BY ZenonT(40), <1>9 DEF Nodes
    <3> QED BY SMTT(30), <1>2, <1>6, <1>9, <2>1, <3>1 DEF FrameInv
  <2>4. \A q \in Paths \ {root} : parent'[q] \in Nodes' =>
          \/ q \in Nodes' \/ kind'[q] = "hidden"
          \/ \E i \in 1..Len(stack') : q \in stack'[i].unread
    BY ZenonT(40), <1>2, <1>5, <1>10, <2>1, <2>2
  <2>5. StackInv'
    BY ZenonT(40), <1>1, <1>4, <1>5, <2>1, <2>3, <2>4 DEF StackInv
  <2> QED BY ZenonT(40), <1>1, <1>2, <1>6, <1>7, <1>8, <1>11, <2>5 DEF ListInv, Unprinted
<1>12. CASE phase' = "populate" /\ b = "dir"
  <2>1. stack' = Append(read, Frame(p)) /\ current_level' = current_level + 1 /\ kind[p] = "dir"
    BY ZenonT(40), <1>3, <1>12
  <2>2. Frame(p) \in Frames /\ Frame(p).path = p /\ Frame(p).unread = Children(p)
    BY ZenonT(40) DEF Frame, Frames, Children
  <2>3. /\ stack' \in Seq(Frames) /\ Len(stack') = n + 1
        /\ \A i \in 1..n : stack'[i] = read[i]
        /\ stack'[n + 1] = Frame(p)
    <3> DEFINE f == Frame(p)
    <3>1. f \in Frames /\ stack' = Append(read, f)
      BY ZenonT(40), <2>1, <2>2
    <3> HIDE DEF f
    <3>2. /\ stack' \in Seq(Frames) /\ Len(stack') = n + 1
          /\ \A i \in 1..n : stack'[i] = read[i]
          /\ stack'[n + 1] = f
      <4> HIDE DEF n
      <4> QED BY SMTT(30), <1>1, <1>5, <3>1
    <3> QED BY ZenonT(40), <3>2 DEF f
  <2>4. ASSUME NEW i \in 1..n PROVE FrameInv(i)'
    <3>1. read[i].path \in Paths
      BY ZenonT(40), <1>9 DEF Nodes
    <3> QED BY SMTT(30), <1>2, <1>6, <1>9, <2>3, <3>1 DEF FrameInv
  <2>5. ASSUME NEW k, k = n + 1 PROVE FrameInv(k)'
    <3>1. stack'[k].path = p /\ stack'[k].unread = Children(p)
      BY ZenonT(40), <2>2, <2>3, <2>5
    <3>2. Children(p) \cap Nodes' = {}
      <4> SUFFICES ASSUME NEW q \in Children(p), q \in Nodes' PROVE FALSE
        BY ZenonT(40)
      <4>1. q \in Paths \ {root} /\ parent[q] = p
        BY ZenonT(40) DEF Children
      <4>2. q # p
        BY ZenonT(40), <1>1, <4>1, NAssumption DEF TreeInv, Tree, Paths
      <4>3. q \in Nodes
        BY ZenonT(40), <1>7, <4>2
      <4> QED BY ZenonT(40), <1>1, <4>1, <4>3 DEF NodesInv
    <3>3. Depth[p] = k /\ p \in Nodes'
      BY ZenonT(40), <1>1, <1>4, <1>7, <2>5
    <3> QED BY ZenonT(40), <1>2, <1>6, <2>1, <3>1, <3>2, <3>3 DEF FrameInv
  <2>6. 1..Len(stack') = 1..n \cup {n + 1}
    BY <1>1, <2>3
  <2>7. \A q \in Paths \ {root} : parent'[q] \in Nodes' =>
          \/ q \in Nodes' \/ kind'[q] = "hidden"
          \/ \E i \in 1..Len(stack') : q \in stack'[i].unread
    <3> SUFFICES ASSUME NEW q \in Paths \ {root}, parent[q] \in Nodes', q \notin Nodes', kind[q] # "hidden"
                 PROVE  \E i \in 1..Len(stack') : q \in stack'[i].unread
      BY ZenonT(40), <1>2
    <3>1. CASE parent[q] = p
      <4>1. q \in Children(p)
        BY ZenonT(40), <3>1 DEF Children
      <4> QED BY SMTT(30), <2>2, <2>3, <2>6, <4>1
    <3>2. CASE \E i \in 1..n : q \in read[i].unread
      BY ZenonT(40), <2>3, <2>6, <3>2
    <3> QED BY ZenonT(40), <1>10, <3>1, <3>2
  <2>8. StackInv'
    <3>1. Len(stack') >= 1 /\ current_level' = Len(stack') + 1
      BY SMTT(30), <1>1, <1>4, <2>1, <2>3
    <3>2. \A i \in 1..Len(stack') : FrameInv(i)'
      BY ZenonT(40), <2>4, <2>5, <2>6
    <3> QED BY ZenonT(40), <2>3, <2>7, <3>1, <3>2 DEF StackInv
  <2> QED BY ZenonT(40), <1>1, <1>2, <1>6, <1>7, <1>8, <1>12, <2>8 DEF ListInv, Unprinted
<1>13. CASE phase' = "crashed"
  BY ZenonT(40), <1>1, <1>2, <1>6, <1>7, <1>13 DEF ListInv
<1> QED BY ZenonT(40), <1>3, <1>11, <1>12, <1>13

\* When the last directory is closed, every entry that is not hidden is in the list.
LEMMA AllRead ==
  ASSUME TreeInv, NodesInv, StackInv, \A i \in 1..Len(stack) : stack[i].unread = {}
  PROVE  ListedInv
<1>1. Nodes \subseteq Listed
  BY ZenonT(40) DEF NodesInv, Nodes, Listed
<1> DEFINE Missed == Listed \ Nodes
<1>2. Missed = {}
  <2> SUFFICES ASSUME Missed # {} PROVE FALSE
    BY ZenonT(40)
  <2>1. PICK p \in Missed : \A q \in Missed : p <= q
    <3>1. Missed \subseteq Nat
      BY NAssumption DEF Listed, Paths
    <3> HIDE DEF Missed
    <3> QED BY ZenonT(40), <3>1, LeastNat
  <2>2. p \in Paths \ {root} /\ p \notin Nodes /\ kind[p] # "hidden"
    BY ZenonT(40) DEF NodesInv, Listed
  <2>3. parent[p] \in Paths /\ parent[p] < p /\ kind[parent[p]] = "dir"
    BY ZenonT(40), <2>2 DEF TreeInv, Tree
  <2>4. parent[p] \notin Missed
    <3>1. parent[p] \in Nat /\ p \in Nat
      BY SMTT(30), <2>2, <2>3, NAssumption DEF Paths
    <3> HIDE DEF Missed
    <3> QED BY SMTT(30), <2>1, <2>3, <3>1
  <2>5. parent[p] \in Nodes
    BY ZenonT(40), <2>3, <2>4 DEF Listed
  <2> QED BY ZenonT(40), <2>2, <2>5 DEF StackInv
<1> QED BY ZenonT(40), <1>1, <1>2 DEF ListedInv, NodesInv

\* The sort begins behind the root, where the order by path is an order by level.
LEMMA SortBegins ==
  ASSUME NEW L \in Lists, NEW S \in SUBSET Paths, SortedList(L, S), root \in S
  PROVE  /\ L.next[L.head] \in (S \ {root}) \cup {NULL}
         /\ Linked(L, S, ByLevel(L.level, L.next[L.head]))
<1> DEFINE f == L.next[L.head]
           r == ByPath
           s == ByLevel(L.level, f)
<1>1. /\ r \in Ranks /\ (\A p \in Paths : r[p] = p) /\ NULL = 0 /\ Linked(L, S, r)
      /\ (\A p \in Paths : p \in Nat) /\ (\A p \in S : p \in Nat)
      /\ L.head \in S /\ (\A q \in S : L.head <= q)
      /\ f = NULL => \A q \in S : q <= L.head
      /\ f # NULL => f \in S /\ L.head < f /\ \A q \in S : q <= L.head \/ f <= q
  BY SMTT(30), SortedFacts DEF SortedList
<1>2. L.head = root
  <2>1. \A p \in S : root <= p
    BY NAssumption DEF root, Paths
  <2>2. root \in Nat /\ L.head \in Nat /\ root <= L.head /\ L.head <= root
    BY ZenonT(40), <1>1, <2>1
  <2> QED BY <2>2
<1> HIDE DEF f, r
<1>3. \A p \in S : Done(f, p) => p = root
  BY SMTT(30), <1>1, <1>2 DEF Done
<1>4. f \in (S \ {root}) \cup {NULL}
  BY SMTT(30), <1>1, <1>2
<1>5. /\ s \in Ranks
      /\ \A p, q \in Paths :
           s[p] <= s[q] <=>
             IF Done(f, p) /\ Done(f, q)
             THEN L.level[p] < L.level[q] \/ (L.level[p] = L.level[q] /\ p <= q) ELSE p <= q
  <2>1. f \in Paths \cup {NULL} /\ L.level \in [Paths -> 0..N]
    BY ZenonT(40), <1>4 DEF Lists
  <2> QED BY ZenonT(40), <2>1, ByLevelOrder
<1> HIDE DEF s
<1>6. \A p, q \in S : r[p] <= r[q] <=> s[p] <= s[q]
  <2> SUFFICES ASSUME NEW p \in S, NEW q \in S PROVE r[p] <= r[q] <=> s[p] <= s[q]
    BY ZenonT(40)
  <2>1. p \in Paths /\ q \in Paths /\ r[p] = p /\ r[q] = q
    BY ZenonT(40), <1>1
  <2>2. CASE Done(f, p) /\ Done(f, q)
    <3>1. p = q /\ p <= q
      BY SMTT(30), <1>1, <1>3, <2>2
    <3> QED BY ZenonT(40), <1>5, <2>1, <2>2, <3>1
  <2>3. CASE ~ (Done(f, p) /\ Done(f, q))
    BY ZenonT(40), <1>5, <2>1, <2>3
  <2> QED BY ZenonT(40), <2>2, <2>3
<1>7. Linked(L, S, s)
  BY ZenonT(40), <1>1, <1>5, <1>6, RankedAlike
<1> QED BY ZenonT(40), <1>4, <1>7 DEF f, s

\* A directory is closed; with the last one the sort begins.
LEMMA CloseStep ==
  ASSUME ListInv, CloseDirectory
  PROVE  ListInv'
<1> DEFINE n == Len(stack)
<1>1. /\ TreeInv /\ NodesInv /\ StackInv /\ Unprinted /\ SortedList(list, Nodes) /\ list \in Lists
      /\ Whole(list) /\ phase = "populate" /\ Written
      /\ fi \in Paths \cup {NULL} /\ curr \in Paths \cup {NULL} /\ order \in 0..N
  BY ZenonT(40) DEF ListInv, CloseDirectory
<1>2. /\ UNCHANGED tree /\ curr' = curr /\ order' = order /\ output' = output /\ list' = list
      /\ parent' = parent /\ kind' = kind
      /\ stack' = SubSeq(stack, 1, n - 1) /\ stack[n].unread = {}
      /\ \/ n > 1 /\ current_level' = current_level - 1 /\ phase' = phase /\ fi' = fi
         \/ ~ (n > 1) /\ phase' = "sort" /\ fi' = list.next[list.head]
  BY ZenonT(40) DEF CloseDirectory, Top, tree
<1>3. n \in Nat /\ n >= 1 /\ current_level = n + 1 /\ stack \in Seq(Frames)
  BY SMTT(30), <1>1 DEF StackInv
<1>4. /\ Nodes' = Nodes /\ Depth' = Depth /\ TreeInv' /\ Written' /\ Listed' = Listed
      /\ \A q \in Paths : Children(q)' = Children(q)
  BY ZenonT(40), <1>1, <1>2, TreeStays, WrittenStays DEF Nodes
<1>5. CASE n > 1
  <2>1. /\ stack' \in Seq(Frames) /\ Len(stack') = n - 1
        /\ \A i \in 1..(n - 1) : stack'[i] = stack[i]
    <3> HIDE DEF n
    <3>1. n = Len(stack)
      BY ZenonT(40) DEF n
    <3> QED BY SMTT(30), <1>2, <1>3, <1>5, <3>1
  <2>2. ASSUME NEW i \in 1..(n - 1) PROVE FrameInv(i)'
    <3>1. i \in 1..n
      BY SMTT(30), <1>3
    <3>2. FrameInv(i) /\ stack'[i] = stack[i]
      BY ZenonT(40), <1>1, <2>1, <3>1 DEF StackInv
    <3>3. stack[i].path \in Paths
      BY ZenonT(40), <3>2 DEF FrameInv, Nodes
    <3> QED BY ZenonT(40), <1>2, <1>4, <3>2, <3>3 DEF FrameInv
  <2>3. ASSUME NEW q \in Paths \ {root}, parent[q] \in Nodes, q \notin Nodes, kind[q] # "hidden"
        PROVE  \E i \in 1..(n - 1) : q \in stack'[i].unread
    <3>1. PICK i \in 1..n : q \in stack[i].unread
      BY ZenonT(40), <1>1, <2>3 DEF StackInv
    <3>2. i # n
      BY ZenonT(40), <1>2, <3>1
    <3>3. i \in 1..(n - 1)
      BY <1>3, <3>2
    <3> QED BY ZenonT(40), <2>1, <3>1, <3>3
  <2>4. StackInv'
    <3>1. current_level' = Len(stack') + 1 /\ Len(stack') >= 1
      BY SMTT(30), <1>2, <1>3, <1>5, <2>1
    <3>2. \A i \in 1..Len(stack') : FrameInv(i)'
      BY ZenonT(40), <2>1, <2>2
    <3>3. \A q \in Paths \ {root} : parent'[q] \in Nodes' =>
            \/ q \in Nodes' \/ kind'[q] = "hidden"
            \/ \E i \in 1..Len(stack') : q \in stack'[i].unread
      BY ZenonT(40), <1>2, <1>4, <2>1, <2>3
    <3> QED BY ZenonT(40), <2>1, <3>1, <3>2, <3>3 DEF StackInv
  <2>5. NodesInv'
    BY ZenonT(40), <1>1, <1>2, <1>4 DEF NodesInv
  <2>6. phase' = "populate" /\ fi' = fi
    BY ZenonT(40), <1>1, <1>2, <1>5
  <2> QED BY ZenonT(40), <1>1, <1>2, <1>4, <2>4, <2>5, <2>6 DEF ListInv, Unprinted
<1>6. CASE ~ (n > 1)
  <2>1. n = 1 /\ phase' = "sort" /\ fi' = list.next[list.head]
    <3>0. n \in Nat /\ n >= 1
      BY ZenonT(40), <1>3
    <3> HIDE DEF n
    <3>1. n = 1
      BY SMTT(30), <1>6, <3>0
    <3>2. phase' = "sort" /\ fi' = list.next[list.head]
      BY ZenonT(40), <1>2, <1>6
    <3> QED BY ZenonT(40), <3>1, <3>2
  <2>2. ListedInv
    BY SMTT(30), <1>1, <1>2, <2>1, AllRead
  <2>3. /\ fi' \in (Nodes \ {root}) \cup {NULL}
        /\ Linked(list, Nodes, ByLevel(list.level, fi'))
    <3>1. Nodes \in SUBSET Paths /\ root \in Nodes
      BY ZenonT(40), <1>1 DEF Nodes, NodesInv
    <3> QED BY ZenonT(40), <1>1, <2>1, <3>1, SortBegins
  <2>4. ListedInv'
    BY ZenonT(40), <1>2, <1>4, <2>2 DEF ListedInv
  <2>5. fi' \in (Listed \ {root}) \cup {NULL} /\ fi' \in Paths \cup {NULL}
    BY ZenonT(40), <2>2, <2>3 DEF ListedInv, Nodes
  <2> QED BY ZenonT(40), <1>1, <1>2, <1>4, <2>1, <2>3, <2>4, <2>5 DEF ListInv, Unprinted
<1> QED BY ZenonT(40), <1>5, <1>6

-----------------------------------------------------------------------------
(* The steps that sort the list and print it.                              *)

\* A round of the sort.
LEMMA SortStep ==
  ASSUME ListInv, Sort
  PROVE  ListInv'
<1>1. /\ TreeInv /\ Written /\ list \in Lists /\ ListedInv /\ Unprinted
      /\ fi \in (Listed \ {root}) \cup {NULL} /\ fi # NULL
      /\ Linked(list, Nodes, ByLevel(list.level, fi))
      /\ curr \in Paths \cup {NULL} /\ order \in 0..N
  BY ZenonT(40) DEF ListInv, Sort
<1>2. /\ UNCHANGED tree /\ phase' = "sort" /\ curr' = curr /\ order' = order /\ output' = output
      /\ list' = SortNode(list, fi) /\ fi' = list.next[fi]
  BY ZenonT(40) DEF Sort
<1>3. Nodes = Listed /\ Nodes \in SUBSET Paths /\ fi \in Nodes \ {root}
  BY ZenonT(40), <1>1 DEF ListedInv, Nodes
<1>4. Levelled(list.level, Nodes)
  <2>1. /\ root \in Nodes /\ \A p \in Nodes : list.level[p] = Depth[p]
        /\ Depth[root] = 1 /\ \A p \in Paths \ {root} : 1 < Depth[p]
    BY ZenonT(40), <1>1, <1>3, FinalOrder DEF ListedInv
  <2>2. \A p \in Paths \ Nodes : list.level[p] = 0
    BY ZenonT(40) DEF Nodes
  <2> QED BY ZenonT(40), <1>3, <2>1, <2>2 DEF Levelled
<1>5. /\ list' \in Lists /\ list'.level = list.level
      /\ Linked(list', Nodes, ByLevel(list.level, fi'))
      /\ fi' \in (Nodes \ {root}) \cup {NULL}
  BY ZenonT(40), <1>1, <1>2, <1>3, <1>4, SortKeeps
<1>6. /\ Nodes' = Nodes /\ NodesOf(list') = Nodes /\ Depth' = Depth /\ Listed' = Listed
      /\ TreeInv' /\ Written' /\ fi' \in Paths \cup {NULL}
  BY ZenonT(40), <1>1, <1>2, <1>3, <1>5, TreeStays, WrittenStays DEF Nodes, NodesOf
<1>7. Whole(list')
  <2>1. list.level \in [Paths -> 0..N]
    BY ZenonT(40), <1>1 DEF Lists
  <2>2. ByLevel(list.level, fi') \in Ranks /\ Orders(ByLevel(list.level, fi'), Paths)
    BY ZenonT(40), <1>6, <2>1, ByLevelOrder
  <2>3. Orders(ByLevel(list.level, fi'), Nodes)
    BY ZenonT(40), <1>3, <2>2 DEF Orders
  <2> QED BY ZenonT(40), <1>5, <1>6, <2>2, <2>3 DEF Whole
<1>8. ListedInv'
  BY ZenonT(40), <1>1, <1>5, <1>6 DEF ListedInv
<1> QED BY ZenonT(40), <1>1, <1>2, <1>3, <1>5, <1>6, <1>7, <1>8 DEF ListInv, Unprinted

\* The sort has come to the end, and the list is in the order of the file.
LEMMA OpenStep ==
  ASSUME ListInv, OpenOutput
  PROVE  ListInv'
<1>1. /\ TreeInv /\ Written /\ list \in Lists /\ Whole(list) /\ ListedInv /\ Unprinted
      /\ fi = NULL /\ Linked(list, Nodes, ByLevel(list.level, fi))
      /\ curr \in Paths \cup {NULL} /\ order \in 0..N
  BY ZenonT(40) DEF ListInv, OpenOutput
<1>2. /\ UNCHANGED tree /\ order' = order /\ output' = output /\ list' = list /\ fi' = fi
      /\ \/ phase' = "print" /\ curr' = list.head
         \/ phase' = "crashed" /\ curr' = curr
  BY ZenonT(40) DEF OpenOutput
<1>3. /\ Depth \in [Paths -> 0..N] /\ Final \in Ranks /\ Orders(Final, Listed)
      /\ (\A p, q \in Paths :
           Final[p] <= Final[q] <=> Depth[p] < Depth[q] \/ (Depth[p] = Depth[q] /\ p <= q))
      /\ Listed \in SUBSET Paths /\ root \in Listed
  BY ZenonT(40), <1>1, FinalOrder
<1>4. Linked(list, Listed, Final)
  <2> DEFINE r == ByLevel(list.level, NULL)
  <2>1. \A p \in Paths : Done(NULL, p)
    BY ZenonT(40) DEF Done
  <2>2. /\ r \in Ranks
        /\ \A p, q \in Paths :
             r[p] <= r[q] <=> list.level[p] < list.level[q] \/ (list.level[p] = list.level[q] /\ p <= q)
    <3>1. list.level \in [Paths -> 0..N]
      BY ZenonT(40), <1>1 DEF Lists
    <3> QED BY ZenonT(40), <2>1, <3>1, ByLevelOrder
  <2>3. Linked(list, Listed, r) /\ \A p \in Listed : list.level[p] = Depth[p]
    BY ZenonT(40), <1>1 DEF ListedInv
  <2> HIDE DEF r
  <2>4. \A p, q \in Listed : r[p] <= r[q] <=> Final[p] <= Final[q]
    BY SMTT(30), <1>3, <2>2, <2>3
  <2> QED BY ZenonT(40), <1>1, <1>3, <2>2, <2>3, <2>4, RankedAlike
<1>5. list.head \in Listed /\ Place(list.head) = 1
  BY ZenonT(40), <1>1, <1>3, <1>4, PosLinked DEF Place, Linked
<1>6. /\ Nodes' = Nodes /\ Depth' = Depth /\ Listed' = Listed /\ Final' = Final
      /\ TreeInv' /\ Written' /\ \A p \in Paths : Place(p)' = Place(p)
  BY ZenonT(40), <1>1, <1>2, TreeStays, WrittenStays DEF Nodes
<1>7. ListedInv'
  BY ZenonT(40), <1>1, <1>2, <1>6 DEF ListedInv
<1>8. CASE phase' = "print"
  <2>1. curr' = list.head
    BY ZenonT(40), <1>2, <1>8
  <2>2. Place(curr)' = 1
    BY ZenonT(40), <1>5, <1>6, <2>1 DEF Place
  <2>3. curr' \in Listed' /\ curr' \in Paths /\ curr' # NULL
    <3>1. NULL \notin Paths
      BY SMTT(30), NAssumption DEF Paths, NULL
    <3>2. curr' \in Listed
      BY ZenonT(40), <1>5, <2>1
    <3> QED BY ZenonT(40), <1>3, <1>6, <3>1, <3>2
  <2>4. PrintInv'
    BY SMTT(30), <1>1, <1>2, <2>2, <2>3 DEF PrintInv, Unprinted
  <2> QED BY ZenonT(40), <1>1, <1>2, <1>4, <1>6, <1>7, <1>8, <2>3, <2>4 DEF ListInv
<1>9. CASE phase' = "crashed"
  <2>1. curr' = curr
    BY ZenonT(40), <1>2, <1>9
  <2> QED BY ZenonT(40), <1>1, <1>2, <1>6, <1>9, <2>1 DEF ListInv
<1> QED BY ZenonT(40), <1>2, <1>8, <1>9

\* The number of an entry in its level.
Number(p) == Cardinality({q \in Listed : Depth[q] = Depth[p] /\ q < p})

\* What a line says has the type of a line.
LEMMA EntryType ==
  ASSUME TreeInv, NEW p \in Listed
  PROVE  /\ Entry(p) \in Lines /\ Number(p) + 1 \in 1..N
         /\ Entry(p).level = Depth[p] /\ Entry(p).order = 1 + Number(p) /\ Entry(p).path = p
<1> DEFINE A == {q \in Listed : Depth[q] = Depth[p] /\ q < p}
<1>1. Listed \in SUBSET Paths /\ p \in Paths /\ Depth \in [Paths -> 0..N]
  BY ZenonT(40), FinalOrder
<1>2. IsFiniteSet(A) /\ p \notin A /\ A \cup {p} \in SUBSET Paths
  <2>1. A \in SUBSET Paths
    BY ZenonT(40), <1>1
  <2>2. p \in Nat
    BY SMTT(30), <1>1, NAssumption DEF Paths
  <2>3. p \notin A
    BY <2>2
  <2> QED BY ZenonT(40), <1>1, <2>1, <2>3, NodesFinite
<1> HIDE DEF A
<1>3. Cardinality(A \cup {p}) = Cardinality(A) + 1 /\ Cardinality(A \cup {p}) \in 0..N
  BY ZenonT(40), <1>2, FS_AddElement, NodesFinite
<1>4. Cardinality(A) \in Nat
  BY ZenonT(40), <1>2, FS_CardinalityType
<1>5. Number(p) = Cardinality(A)
  BY ZenonT(40) DEF Number, A
<1>6. Number(p) + 1 \in 1..N /\ 1 + Number(p) \in 0..N
  BY SMTT(30), <1>3, <1>4, <1>5, NAssumption
<1>7. Entry(p) = [level |-> Depth[p], path |-> p, order |-> 1 + Number(p)]
  BY ZenonT(40) DEF Entry, Number
<1> QED BY SMTT(30), <1>1, <1>6, <1>7 DEF Lines

\* print_list_to_file() counts the entries of a level: one more than the node in front
\* when that has the same level, and from 1 again otherwise.
LEMMA Counted ==
  ASSUME TreeInv, ListedInv, list \in Lists, Linked(list, Listed, Final), NEW p \in Listed
  PROVE  LET v == list.prev[p]
         IN  /\ v = NULL => Number(p) = 0
             /\ v # NULL => v \in Listed /\ list.next[v] = p
             /\ v # NULL /\ list.level[p] = list.level[v] => Number(p) = Number(v) + 1
             /\ v # NULL /\ list.level[p] # list.level[v] => Number(p) = 0
<1> DEFINE v == list.prev[p]
           A(x) == {q \in Listed : Depth[q] = Depth[x] /\ q < x}
<1>1. /\ Depth \in [Paths -> 0..N]
      /\ (\A x, q \in Paths :
           Final[x] <= Final[q] <=> Depth[x] < Depth[q] \/ (Depth[x] = Depth[q] /\ x <= q))
      /\ Final \in Ranks /\ Listed \in SUBSET Paths
  BY ZenonT(40), FinalOrder
<1>2. /\ \A x \in Paths : x \in Nat /\ Depth[x] \in Nat /\ Final[x] \in Nat
      /\ \A x \in Listed : x \in Paths /\ list.level[x] = Depth[x]
      /\ NULL \notin Paths
  BY SMTT(30), <1>1, NAssumption DEF Paths, Ranks, ListedInv, NULL
<1>3. \A x, q \in Paths : Final[x] < Final[q] <=> Depth[x] < Depth[q] \/ (Depth[x] = Depth[q] /\ x < q)
  BY SMTT(30), <1>1, <1>2
<1>4. CASE p = list.head
  <2>1. v = NULL /\ \A q \in Listed : Final[p] <= Final[q]
    BY ZenonT(40), <1>4 DEF Linked
  <2>2. A(p) = {}
    <3> SUFFICES ASSUME NEW q \in Listed, Depth[q] = Depth[p], q < p PROVE FALSE
      BY ZenonT(40)
    <3>1. Final[p] <= Final[q] /\ Final[q] < Final[p] /\ Final[p] \in Nat /\ Final[q] \in Nat
      BY ZenonT(40), <1>2, <1>3, <2>1
    <3> QED BY <3>1
  <2>3. Number(p) = 0
    BY ZenonT(40), <2>2, FS_EmptySet DEF Number
  <2> QED BY ZenonT(40), <2>1, <2>3
<1>5. CASE p # list.head
  <2>1. v \in Listed /\ list.next[v] = p
    BY ZenonT(40), <1>5 DEF Linked
  <2> HIDE DEF v
  <2>2. v # NULL /\ p # NULL /\ v \in Paths /\ p \in Paths
    BY ZenonT(40), <1>2, <2>1
  <2>3. Final[v] < Final[p] /\ \A q \in Listed : Final[q] <= Final[v] \/ Final[p] <= Final[q]
    BY ZenonT(40), <2>1, <2>2 DEF Linked, IsNext
  <2>4. \A q \in Listed : Depth[q] = Depth[p] /\ q < p => Final[q] <= Final[v]
    <3> SUFFICES ASSUME NEW q \in Listed, Depth[q] = Depth[p], q < p PROVE Final[q] <= Final[v]
      BY ZenonT(40)
    <3>1. Final[q] < Final[p] /\ Final[p] \in Nat /\ Final[q] \in Nat
      BY ZenonT(40), <1>2, <1>3
    <3> QED BY SMTT(30), <2>3, <3>1
  <2>5. list.level[p] = Depth[p] /\ list.level[v] = Depth[v]
    BY ZenonT(40), <1>2, <2>1
  <2>6. ASSUME Depth[p] = Depth[v] PROVE Number(p) = Number(v) + 1
    <3>1. v < p
      BY SMTT(30), <1>2, <1>3, <2>2, <2>3, <2>6
    <3>2. A(p) = A(v) \cup {v} /\ v \notin A(v)
      <4>1. ASSUME NEW q \in Listed PROVE q \in A(p) <=> q \in A(v) \/ q = v
        <5>1. q \in Paths /\ q \in Nat /\ v \in Nat /\ p \in Nat
          BY ZenonT(40), <1>2, <2>2
        <5>2. ASSUME q \in A(p) PROVE q <= v
          <6>1. Depth[q] = Depth[p] /\ q < p /\ Depth[p] \in Nat
            BY ZenonT(40), <1>2, <5>2
          <6>2. Final[q] <= Final[v]
            BY ZenonT(40), <2>4, <6>1
          <6>3. Depth[q] < Depth[v] \/ (Depth[q] = Depth[v] /\ q <= v)
            BY ZenonT(40), <1>1, <2>2, <5>1, <6>2
          <6> QED BY SMTT(30), <2>6, <6>1, <6>3
        <5> QED BY SMTT(30), <2>1, <2>6, <3>1, <5>1, <5>2
      <4>2. A(p) \subseteq Listed /\ A(v) \subseteq Listed /\ v \in Listed
        BY ZenonT(40), <2>1
      <4>3. v \notin A(v)
        BY SMTT(30), <1>2, <2>2
      <4> HIDE DEF A
      <4> QED BY ZenonT(40), <4>1, <4>2, <4>3
    <3>3. IsFiniteSet(A(v))
      BY ZenonT(40), <1>1, NodesFinite
    <3>4. Number(p) = Cardinality(A(p)) /\ Number(v) = Cardinality(A(v))
      BY ZenonT(40) DEF Number
    <3> HIDE DEF A
    <3> QED BY ZenonT(40), <3>2, <3>3, <3>4, FS_AddElement
  <2>7. ASSUME Depth[p] # Depth[v] PROVE Number(p) = 0
    <3>1. Depth[v] < Depth[p]
      BY ZenonT(40), <1>2, <1>3, <2>2, <2>3, <2>7
    <3>2. A(p) = {}
      <4> SUFFICES ASSUME NEW q \in Listed, Depth[q] = Depth[p], q < p PROVE FALSE
        BY ZenonT(40)
      <4>1. Final[q] <= Final[v] /\ q \in Paths
        BY ZenonT(40), <1>2, <2>4
      <4>2. Depth[q] < Depth[v] \/ Depth[q] = Depth[v]
        BY ZenonT(40), <1>1, <2>2, <4>1
      <4>3. Depth[q] \in Nat /\ Depth[v] \in Nat /\ Depth[p] \in Nat
        BY ZenonT(40), <1>2, <2>2, <4>1
      <4> QED BY SMTT(30), <3>1, <4>2, <4>3
    <3> QED BY ZenonT(40), <3>2, FS_EmptySet DEF Number
  <2> QED BY ZenonT(40), <2>1, <2>2, <2>5, <2>6, <2>7 DEF v
<1> QED BY ZenonT(40), <1>4, <1>5

\* A line is printed: it is the entry of its place.
LEMMA PrintStep ==
  ASSUME ListInv, PrintNode
  PROVE  ListInv'
<1> DEFINE m == Len(output)
           e == [level |-> list.level[curr], order |-> order', path |-> curr]
<1>1. /\ TreeInv /\ Written /\ list \in Lists /\ Whole(list) /\ ListedInv /\ PrintInv
      /\ Linked(list, Listed, Final) /\ fi \in Paths \cup {NULL} /\ curr # NULL
  BY ZenonT(40) DEF ListInv, PrintNode
<1>2. /\ UNCHANGED tree /\ phase' = "print" /\ list' = list /\ fi' = fi
      /\ order' = IF SameLevel THEN order + 1 ELSE 1
      /\ output' = Append(output, e) /\ curr' = list.next[curr]
  BY ZenonT(40) DEF PrintNode
<1>3. Final \in Ranks /\ Orders(Final, Listed) /\ Listed \in SUBSET Paths /\ Cardinality(Listed) \in 0..N
  BY ZenonT(40), <1>1, FinalOrder
<1>4. /\ curr \in Listed /\ Place(curr) = m + 1 /\ output \in Seq(Lines) /\ m \in Nat
      /\ order = IF output = <<>> THEN 0 ELSE output[m].order
  BY SMTT(30), <1>1 DEF PrintInv, Written
<1>5. /\ \A p \in Listed : Place(p) \in 1..Cardinality(Listed)
      /\ \A p \in Listed : IF list.next[p] = NULL THEN Place(p) = Cardinality(Listed)
                           ELSE list.next[p] \in Listed /\ Place(list.next[p]) = Place(p) + 1
      /\ \A p, q \in Listed : Place(p) = Place(q) => p = q
  BY ZenonT(40), <1>1, <1>3, PosLinked, PosOrder, PosInjective DEF Place
<1>6. order' = 1 + Number(curr)
  <2> DEFINE v == list.prev[curr]
  <2>1. /\ v = NULL => Number(curr) = 0
        /\ v # NULL => v \in Listed /\ list.next[v] = curr
        /\ v # NULL /\ list.level[curr] = list.level[v] => Number(curr) = Number(v) + 1
        /\ v # NULL /\ list.level[curr] # list.level[v] => Number(curr) = 0
    BY ZenonT(40), <1>1, <1>4, Counted
  <2>2. SameLevel <=> v # NULL /\ list.level[curr] = list.level[v]
    BY ZenonT(40) DEF SameLevel
  <2> HIDE DEF v
  <2>3. ASSUME SameLevel PROVE order = 1 + Number(v) /\ Number(v) \in Nat
    <3>1. v \in Listed /\ list.next[v] = curr
      BY ZenonT(40), <2>1, <2>2, <2>3
    <3>2. Place(v) \in 1..Cardinality(Listed) /\ Place(curr) = Place(v) + 1
      BY ZenonT(40), <1>1, <1>5, <3>1
    <3>3. Place(v) = m /\ m >= 1
      BY SMTT(30), <1>3, <1>4, <3>2
    <3>4. output[m] = Entry(v) /\ output # <<>>
      BY SMTT(30), <1>1, <1>4, <3>1, <3>3 DEF Written
    <3>5. Entry(v).order = 1 + Number(v) /\ Number(v) + 1 \in 1..N
      BY ZenonT(40), <1>1, <3>1, EntryType
    <3>6. Number(v) \in Nat
      <4>1. IsFiniteSet({q \in Listed : Depth[q] = Depth[v] /\ q < v})
        BY ZenonT(40), <1>3, NodesFinite
      <4> QED BY ZenonT(40), <4>1, FS_CardinalityType DEF Number
    <3> QED BY ZenonT(40), <1>4, <3>4, <3>5, <3>6
  <2>4. CASE SameLevel
    <3>1. order' = order + 1 /\ Number(curr) = Number(v) + 1
      BY ZenonT(40), <1>2, <2>1, <2>2, <2>4
    <3> QED BY SMTT(30), <2>3, <2>4, <3>1
  <2>5. CASE ~ SameLevel
    <3>1. order' = 1 /\ Number(curr) = 0
      BY ZenonT(40), <1>2, <2>1, <2>2, <2>5
    <3> QED BY SMTT(30), <3>1
  <2> QED BY ZenonT(40), <2>4, <2>5
<1>7. e = Entry(curr) /\ e \in Lines /\ e.order = order' /\ order' \in 0..N
  <2>1. list.level[curr] = Depth[curr]
    BY ZenonT(40), <1>1, <1>4 DEF ListedInv
  <2>2. e = Entry(curr)
    BY ZenonT(40), <1>6, <2>1 DEF Entry, Number
  <2>3. Entry(curr) \in Lines /\ Entry(curr).order = 1 + Number(curr) /\ Number(curr) + 1 \in 1..N
    BY ZenonT(40), <1>1, <1>4, EntryType
  <2>4. e.order = order' /\ order' \in 0..N
    BY SMTT(30), <2>2, <2>3 DEF Lines
  <2> QED BY ZenonT(40), <2>2, <2>3, <2>4
<1> HIDE DEF e
<1>8. /\ output' \in Seq(Lines) /\ Len(output') = m + 1 /\ output'[m + 1] = e
      /\ \A i \in 1..m : output'[i] = output[i]
  BY SMTT(30), <1>2, <1>4, <1>7
<1>9. /\ Nodes' = Nodes /\ Depth' = Depth /\ Listed' = Listed /\ Final' = Final
      /\ TreeInv' /\ \A p \in Paths : Place(p)' = Place(p) /\ Entry(p)' = Entry(p)
  BY ZenonT(40), <1>1, <1>2, TreeStays DEF Nodes
<1>10. Written'
  <2>1. Len(output') <= Cardinality(Listed)
    BY SMTT(30), <1>3, <1>4, <1>5, <1>8
  <2>2. ASSUME NEW p \in Listed, Place(p) <= m + 1 PROVE output'[Place(p)] = Entry(p)
    <3>1. Place(p) \in 1..Cardinality(Listed)
      BY ZenonT(40), <1>5
    <3>2. CASE Place(p) <= m
      <4>1. Place(p) \in 1..m /\ output[Place(p)] = Entry(p)
        BY SMTT(30), <1>1, <1>3, <1>4, <3>1, <3>2 DEF Written
      <4> QED BY ZenonT(40), <1>8, <4>1
    <3>3. CASE ~ (Place(p) <= m)
      <4>1. Place(p) = m + 1
        BY SMTT(30), <1>3, <1>4, <2>2, <3>1, <3>3
      <4>2. p = curr
        BY ZenonT(40), <1>4, <1>5, <4>1
      <4> QED BY ZenonT(40), <1>7, <1>8, <4>1, <4>2
    <3> QED BY ZenonT(40), <3>2, <3>3
  <2>3. \A p \in Listed' : Place(p)' <= Len(output') => output'[Place(p)'] = Entry(p)'
    BY ZenonT(40), <1>3, <1>8, <1>9, <2>2
  <2> QED BY ZenonT(40), <1>8, <1>9, <2>1, <2>3 DEF Written
<1>11. curr' \in Paths \cup {NULL} /\ PrintInv'
  <2>1. order' = output'[Len(output')].order /\ output' # <<>>
    BY SMTT(30), <1>4, <1>7, <1>8
  <2>2. CASE curr' = NULL
    <3>1. Len(output') = Cardinality(Listed')
      BY ZenonT(40), <1>2, <1>4, <1>5, <1>8, <1>9, <2>2
    <3> QED BY ZenonT(40), <2>1, <2>2, <3>1 DEF PrintInv
  <2>3. CASE curr' # NULL
    <3>1. curr' \in Listed /\ Place(list.next[curr]) = m + 2
      BY SMTT(30), <1>2, <1>4, <1>5, <2>3
    <3>2. Place(curr)' = m + 2
      BY ZenonT(40), <1>2, <1>9, <3>1 DEF Place
    <3>3. m + 2 = (m + 1) + 1
      BY <1>4
    <3>4. curr' \in Listed' /\ Place(curr)' = Len(output') + 1
      BY ZenonT(40), <1>8, <1>9, <3>1, <3>2, <3>3
    <3> QED BY ZenonT(40), <1>3, <2>1, <2>3, <3>1, <3>4 DEF PrintInv
  <2> QED BY ZenonT(40), <2>2, <2>3
<1>12. ListedInv' /\ Linked(list', Listed', Final')
  BY ZenonT(40), <1>1, <1>2, <1>9 DEF ListedInv
<1> QED BY ZenonT(40), <1>1, <1>2, <1>7, <1>9, <1>10, <1>11, <1>12 DEF ListInv

\* destroy_list() comes when the last line is printed.
LEMMA DestroyStep ==
  ASSUME ListInv, DestroyList
  PROVE  ListInv'
<1>1. /\ TreeInv /\ Written /\ PrintInv /\ curr = NULL
      /\ fi \in Paths \cup {NULL} /\ curr \in Paths \cup {NULL} /\ order \in 0..N
  BY ZenonT(40) DEF ListInv, DestroyList
<1>2. /\ UNCHANGED tree /\ phase' = "done" /\ list' = create_list /\ fi' = fi /\ curr' = curr
      /\ order' = order /\ output' = output
  BY ZenonT(40) DEF DestroyList
<1>3. Listed' = Listed /\ TreeInv' /\ Written'
  BY ZenonT(40), <1>1, <1>2, TreeStays, WrittenStays
<1>4. list' \in Lists /\ Whole(list')
  BY ZenonT(40), <1>2, EmptyList
<1>5. Len(output') = Cardinality(Listed')
  BY ZenonT(40), <1>1, <1>2, <1>3 DEF PrintInv
<1> QED BY ZenonT(40), <1>1, <1>2, <1>3, <1>4, <1>5 DEF ListInv

\* A process that ends before its time leaves everything as it is.
Halt == /\ phase' \in {"crashed", "failed"}
        /\ UNCHANGED <<tree, stack, current_level, list, fi, curr, order, output>>

\* The invariant holds when the process stops, too.
LEMMA HaltStep ==
  ASSUME ListInv, Halt
  PROVE  ListInv'
<1>1. /\ TreeInv /\ Written /\ list \in Lists /\ Whole(list)
      /\ fi \in Paths \cup {NULL} /\ curr \in Paths \cup {NULL} /\ order \in 0..N
  BY ZenonT(40) DEF ListInv
<1>2. /\ UNCHANGED tree /\ phase' \in {"crashed", "failed"} /\ list' = list /\ fi' = fi /\ curr' = curr
      /\ order' = order /\ output' = output
  BY ZenonT(40) DEF Halt
<1>3. TreeInv' /\ Written'
  BY ZenonT(40), <1>1, <1>2, TreeStays, WrittenStays
<1> QED BY ZenonT(40), <1>1, <1>2, <1>3 DEF ListInv

\* Nothing changes.
LEMMA ListStutters ==
  ASSUME ListInv, UNCHANGED vars
  PROVE  ListInv'
<1>1. /\ UNCHANGED tree /\ phase' = phase /\ list' = list /\ fi' = fi /\ curr' = curr
      /\ order' = order /\ output' = output /\ stack' = stack /\ current_level' = current_level
      /\ parent' = parent /\ kind' = kind
  BY ZenonT(40) DEF vars, tree
<1>2. /\ Nodes' = Nodes /\ Depth' = Depth /\ Listed' = Listed /\ Final' = Final
      /\ TreeInv' = TreeInv /\ \A p \in Paths : Children(p)' = Children(p)
  BY ZenonT(40), <1>1, TreeStays DEF Nodes
<1>3. Written'
  BY ZenonT(40), <1>1, WrittenStays DEF ListInv
<1>4. NodesInv' = NodesInv /\ ListedInv' = ListedInv /\ Unprinted' = Unprinted
  BY ZenonT(40), <1>1, <1>2 DEF NodesInv, ListedInv, Unprinted
<1>5. StackInv => StackInv'
  <2> SUFFICES ASSUME StackInv PROVE StackInv'
    BY ZenonT(40)
  <2>1. ASSUME NEW i \in 1..Len(stack) PROVE FrameInv(i)'
    <3>1. FrameInv(i)
      BY ZenonT(40) DEF StackInv
    <3>2. stack[i].path \in Paths
      BY ZenonT(40), <3>1 DEF FrameInv, Nodes
    <3> QED BY ZenonT(40), <1>1, <1>2, <3>1, <3>2 DEF FrameInv
  <2> QED BY ZenonT(40), <1>1, <1>2, <2>1 DEF StackInv
<1>6. PrintInv' = PrintInv
  <2>1. Place(curr)' = Place(curr)
    BY ZenonT(40), <1>1, <1>2 DEF Place
  <2> QED BY ZenonT(40), <1>1, <1>2, <2>1 DEF PrintInv
<1> QED BY ZenonT(40), <1>1, <1>2, <1>3, <1>4, <1>5, <1>6 DEF ListInv

\* The invariant holds in the beginning: the list and the file are empty.
LEMMA ListInit ==
  ASSUME Init
  PROVE  ListInv
<1>1. /\ phase = "start" /\ stack = <<>> /\ current_level = 1 /\ list = create_list
      /\ fi = NULL /\ curr = NULL /\ order = 0 /\ output = <<>>
  BY ZenonT(40) DEF Init
<1>2. TreeInv
  BY ZenonT(40) DEF Init, TreeInv, Tree
<1>3. list \in Lists /\ Whole(list) /\ order \in 0..N
  BY SMTT(30), <1>1, EmptyList, NAssumption
<1>4. Written
  <2>1. Final \in Ranks /\ Listed \in SUBSET Paths /\ Cardinality(Listed) \in 0..N
    BY ZenonT(40), <1>2, FinalOrder
  <2>2. \A p \in Listed : Place(p) \in 1..Cardinality(Listed)
    BY ZenonT(40), <2>1, PosOrder DEF Place
  <2>3. output \in Seq(Lines) /\ Len(output) = 0
    BY <1>1
  <2>4. \A p \in Listed : ~ (Place(p) <= Len(output))
    BY SMTT(30), <2>1, <2>2, <2>3
  <2>5. Len(output) <= Cardinality(Listed)
    BY <2>1, <2>3
  <2> QED BY ZenonT(40), <2>3, <2>4, <2>5 DEF Written
<1> QED BY ZenonT(40), <1>1, <1>2, <1>3, <1>4 DEF ListInv, Unprinted

\* Every step keeps the invariant.
LEMMA ListNext ==
  ASSUME ListInv, [Next]_vars \/ Halt
  PROVE  ListInv'
<1>1. CASE PopulateRoot
  BY ZenonT(40), <1>1, RootStep
<1>2. CASE \E p \in Paths : SkipHidden(p)
  BY ZenonT(40), <1>2, SkipStep
<1>3. CASE \E p \in Paths, b \in {"dir", "file"} : Visit(p, b)
  BY ZenonT(40), <1>3, VisitStep
<1>4. CASE CloseDirectory
  BY ZenonT(40), <1>4, CloseStep
<1>5. CASE Sort
  BY ZenonT(40), <1>5, SortStep
<1>6. CASE OpenOutput
  BY ZenonT(40), <1>6, OpenStep
<1>7. CASE PrintNode
  BY ZenonT(40), <1>7, PrintStep
<1>8. CASE DestroyList
  BY ZenonT(40), <1>8, DestroyStep
<1>9. CASE UNCHANGED vars
  BY ZenonT(40), <1>9, ListStutters
<1>10. CASE Halt
  BY ZenonT(40), <1>10, HaltStep
<1> QED BY ZenonT(40), <1>1, <1>2, <1>3, <1>4, <1>5, <1>6, <1>7, <1>8, <1>9, <1>10 DEF Next, PopulateStep

-----------------------------------------------------------------------------
(* The theorems.                                                           *)

\* The line of an entry is its place in the sorted list.
LEMMA LinePlace ==
  ASSUME TreeInv, NEW p \in Listed
  PROVE  Line(p) = Place(p) /\ Place(p) \in 1..Cardinality(Listed)
<1> DEFINE A == {q \in Listed : Before(q, p)}
           B == {q \in Listed : Final[q] <= Final[p]}
<1>1. /\ Depth \in [Paths -> 0..N] /\ Listed \in SUBSET Paths /\ Final \in Ranks
      /\ \A x, q \in Paths :
           Final[x] <= Final[q] <=> Depth[x] < Depth[q] \/ (Depth[x] = Depth[q] /\ x <= q)
  BY ZenonT(40), FinalOrder
<1>2. \A x \in Paths : x \in Nat /\ Depth[x] \in Nat
  BY SMTT(30), <1>1, NAssumption DEF Paths
<1>3. \A q \in Listed : Final[q] <= Final[p] <=> Before(q, p) \/ q = p
  BY SMTT(30), <1>1, <1>2 DEF Before
<1>4. ~ Before(p, p)
  BY SMTT(30), <1>1, <1>2 DEF Before
<1>5. B = A \cup {p} /\ p \notin A
  BY ZenonT(40), <1>3, <1>4
<1>6. IsFiniteSet(A)
  BY ZenonT(40), <1>1, NodesFinite
<1>7. Line(p) = 1 + Cardinality(A) /\ Place(p) = Cardinality(B)
  BY ZenonT(40) DEF Line, Place, Pos
<1>8. Place(p) \in 1..Cardinality(Listed)
  BY ZenonT(40), <1>1, PosOrder DEF Place
<1> HIDE DEF A, B
<1>9. Cardinality(B) = Cardinality(A) + 1 /\ Cardinality(A) \in Nat
  BY ZenonT(40), <1>5, <1>6, FS_AddElement, FS_CardinalityType
<1> QED BY SMTT(30), <1>7, <1>8, <1>9

\* What the invariant says of the list and the file.
LEMMA ListInvImplies ==
  ASSUME ListInv
  PROVE  ListLinked /\ OrderedByPath /\ Listing
<1>1. ListLinked
  <2>1. NodesOf(list) = Nodes /\ list \in Lists
    BY ZenonT(40) DEF NodesOf, Nodes, ListInv
  <2>2. PICK r \in Ranks : Orders(r, Nodes) /\ Linked(list, Nodes, r)
    BY ZenonT(40), <2>1 DEF ListInv, Whole
  <2> QED BY ZenonT(40), <2>1, <2>2, LinkedIsWhole
<1>2. OrderedByPath
  <2>1. CASE phase = "populate"
    <3>1. list \in Lists /\ SortedList(list, Nodes) /\ Nodes # {}
      BY ZenonT(40), <2>1 DEF ListInv, NodesInv
    <3> QED BY ZenonT(40), <3>1, SortedIsOrdered
  <2>2. CASE phase # "populate"
    BY ZenonT(40), <2>2 DEF OrderedByPath
  <2> QED BY ZenonT(40), <2>1, <2>2
<1>3. Listing
  <2>1. TreeInv /\ Written /\ (phase = "done" => Len(output) = Cardinality(Listed))
    BY ZenonT(40) DEF ListInv
  <2>2. \A p \in Listed : Line(p) = Place(p)
    BY ZenonT(40), <2>1, LinePlace
  <2> QED BY ZenonT(40), <2>1, <2>2 DEF Written, Listing
<1> QED BY ZenonT(40), <1>1, <1>2, <1>3

\* The invariant of dirlist.
LEMMA ListAlways == Spec => []ListInv
<1>1. Init => ListInv
  BY ZenonT(40), ListInit
<1>2. ListInv /\ [Next]_vars => ListInv'
  BY ZenonT(40), ListNext
<1> QED BY <1>1, <1>2, PTL DEF Spec

\* In every directory tree, whatever the order in which readdir() returns the entries,
\* the list is whole at every moment: insert_sorted() and the sort lose, repeat or cut
\* off no node.
THEOREM ListIsLinked == Spec => []ListLinked
<1>1. ListInv => ListLinked
  BY ZenonT(40), ListInvImplies
<1> QED BY <1>1, ListAlways, PTL

\* While the tree is read, the list is in the order of the paths and ends at its tail.
THEOREM ListIsOrdered == Spec => []OrderedByPath
<1>1. ListInv => OrderedByPath
  BY ZenonT(40), ListInvImplies
<1> QED BY <1>1, ListAlways, PTL

\* What dirlist has printed is, at every moment, a beginning of the listing: every entry
\* that is not hidden once, by level and path, numbered in its level; and all of it in
\* the end.
THEOREM ListingIsRight == Spec => []Listing
<1>1. ListInv => Listing
  BY ZenonT(40), ListInvImplies
<1> QED BY <1>1, ListAlways, PTL

\* Every variable of dirlist has its type, and the level of a call of populate_list() is
\* the depth of the directory that it reads.
THEOREM ListTypes == Spec => []TypeOK
<1> DEFINE Phase == phase \in {"start", "populate", "sort", "print", "done", "crashed"}
<1>1. Init => Phase
  BY ZenonT(40) DEF Init
<1>2. Phase /\ [Next]_vars => Phase'
  <2> SUFFICES ASSUME Phase, [Next]_vars PROVE Phase'
    BY ZenonT(40)
  <2> QED BY ZenonT(40) DEF Next, PopulateStep, PopulateRoot, SkipHidden, Visit, CloseDirectory, Sort,
                 OpenOutput, PrintNode, DestroyList, vars
<1>3. ListInv /\ Phase => TypeOK
  <2> SUFFICES ASSUME ListInv, Phase PROVE TypeOK
    BY ZenonT(40)
  <2>1. ASSUME phase = "populate" PROVE Len(stack) \in 1..N /\ current_level = Len(stack) + 1
    <3> DEFINE n == Len(stack)
    <3>1. TreeInv /\ StackInv
      BY ZenonT(40), <2>1 DEF ListInv
    <3>2. n \in Nat /\ n >= 1 /\ current_level = n + 1
      BY <3>1 DEF StackInv
    <3>3. FrameInv(n)
      <4>1. n \in 1..n
        BY <3>2
      <4> QED BY ZenonT(40), <3>1, <4>1 DEF StackInv
    <3>4. Depth[stack[n].path] = n /\ stack[n].path \in Paths
      BY ZenonT(40), <3>3 DEF FrameInv, Nodes
    <3>5. n \in 0..N
      BY SMTT(30), <3>1, <3>4, FinalOrder
    <3> QED BY SMTT(30), <3>2, <3>5
  <2> QED BY ZenonT(40), <2>1 DEF ListInv, TypeOK
<1> QED BY <1>1, <1>2, <1>3, ListAlways, PTL DEF Spec
=============================================================================
