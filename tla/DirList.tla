------------------------------- MODULE DirList -------------------------------
(***************************************************************************)
(* The listing of a directory tree (dirlist/dirlist.c): populate_list()    *)
(* walks the tree and keeps a doubly linked list in the order of the       *)
(* paths, insertion_sort_by_level_increasing() sorts the list by level,    *)
(* print_list_to_file() numbers the entries of every level.                *)
(*                                                                         *)
(* A path is its rank under strcmp() among the paths of the tree.  A       *)
(* directory's path is a prefix of the paths below it, so it has a lower   *)
(* rank than they have; nothing else is known of the order of the paths.   *)
(***************************************************************************)
EXTENDS Integers, Sequences, FiniteSets

CONSTANTS
  N,       \* the number of paths
  Kinds    \* what the paths other than the first may be

AllKinds == {"dir", "file",
             "hidden",      \* the name starts with a dot
             "locked",      \* a directory that opendir() does not open
             "unreadable",  \* a file that fopen() does not open
             "dangling"}    \* stat() fails

ASSUME NAssumption == N \in Nat \ {0}
ASSUME KindsAssumption == Kinds \subseteq AllKinds

NULL == 0
root == 1
Paths == 1..N

VARIABLES
  parent, kind,    \* the tree
  phase,           \* where main() is
  stack,           \* the calls of populate_list(), innermost last
  current_level,
  list,            \* the list: head, tail, and the next, prev and level of its nodes
  fi,              \* the node that the sort comes to next
  curr, order,     \* the locals of print_list_to_file()
  output           \* the lines of the output file

tree == <<parent, kind>>
vars == <<tree, phase, stack, current_level, list, fi, curr, order, output>>

Children(p) == {q \in Paths : q # root /\ parent[q] = p}
Frame(p) == [path |-> p, unread |-> Children(p), buf |-> "uninit"]

-----------------------------------------------------------------------------
(* The list.                                                               *)

create_list == [head |-> NULL, tail |-> NULL,
                next |-> [p \in Paths |-> NULL], prev |-> [p \in Paths |-> NULL],
                level |-> [p \in Paths |-> 0]]

create_node(L, node, level) == [L EXCEPT !.level[node] = level]

\* Mutation: the node is not made the successor's predecessor.
InsertBetweenOneWay(L, node, ptr) ==
  [L EXCEPT !.next[node] = ptr, !.prev[node] = L.prev[ptr], !.next[L.prev[ptr]] = node]

InsertBetween(L, node, ptr) ==
  [L EXCEPT !.next[node] = ptr,
            !.prev[node] = L.prev[ptr],
            !.next[L.prev[ptr]] = node,
            !.prev[ptr] = node]

\* The loop of insert_sorted(): where it ends when ptr is p.
Walk(L, node) ==
  LET walk[p \in Paths] == IF L.next[p] # NULL /\ node > p THEN walk[L.next[p]] ELSE p
  IN  walk

\* Mutation: an append does not move the tail.
insert_sorted_stale_tail(L, node) ==
  IF L.head = NULL /\ L.tail = NULL
  THEN [L EXCEPT !.head = node, !.tail = node]
  ELSE IF node > L.tail
  THEN [L EXCEPT !.next[L.tail] = node, !.prev[node] = L.tail]
  ELSE InsertBetween(L, node, Walk(L, node)[L.head])

insert_sorted(L, node) ==
  IF L.head = NULL /\ L.tail = NULL
  THEN [L EXCEPT !.head = node, !.tail = node]
  ELSE IF node <= L.head
  THEN [L EXCEPT !.prev[L.head] = node, !.next[node] = L.head, !.head = node]
  ELSE IF node > L.tail
  THEN [L EXCEPT !.next[L.tail] = node, !.prev[node] = L.tail, !.tail = node]
  ELSE InsertBetween(L, node, Walk(L, node)[L.head])

Unlinked(L, node) ==
  [L EXCEPT !.prev = IF L.next[node] # NULL THEN [@ EXCEPT ![L.next[node]] = L.prev[node]] ELSE @,
            !.next[L.prev[node]] = L.next[node]]

InsertAfter(L, node, bi) ==
  [L EXCEPT !.next = [@ EXCEPT ![node] = L.next[bi], ![bi] = node],
            !.prev = [p \in Paths |-> IF p = node THEN bi
                                      ELSE IF p = L.next[bi] THEN node
                                      ELSE @[p]]]

\* Mutation: entries of the same level are passed too.
PassesEqual(L, b, key) == b # L.head /\ L.level[b] >= key

\* The test of the inner loop of the sort.
Passes(L, b, key) == b # L.head /\ L.level[b] > key

\* The inner loop: where it ends when bi is b.
Back(L, key) ==
  LET back[b \in Paths] == IF Passes(L, b, key) THEN back[L.prev[b]] ELSE b
  IN  back

\* One round of insertion_sort_by_level_increasing(): the node goes behind the
\* last node in front of it whose level is not higher.
SortNode(L, node) ==
  InsertAfter(Unlinked(L, node), node, Back(L, L.level[node])[L.prev[node]])

-----------------------------------------------------------------------------
(* The steps of main().                                                    *)

\* Any tree in which only directories that can be opened have entries.
Init ==
  /\ parent \in [Paths \ {root} -> Paths]
  /\ \A p \in Paths \ {root} : parent[p] < p
  /\ kind \in [Paths -> Kinds \cup {"dir", "locked"}]
  /\ kind[root] \in {"dir", "locked"}
  /\ \A p \in Paths \ {root} : kind[parent[p]] = "dir" /\ kind[p] \in Kinds
  /\ phase = "start"
  /\ stack = <<>>
  /\ current_level = 1
  /\ list = create_list
  /\ fi = NULL /\ curr = NULL /\ order = 0
  /\ output = <<>>

\* The first call of populate_list().  readdir() faults on a directory that could
\* not be opened.
PopulateRoot ==
  /\ phase = "start"
  /\ list' = insert_sorted(create_node(list, root, current_level), root)
  /\ current_level' = current_level + 1
  /\ \/ kind[root] = "dir" /\ stack' = <<Frame(root)>> /\ phase' = "populate"
     \/ kind[root] # "dir" /\ phase' = "crashed" /\ UNCHANGED stack
  /\ UNCHANGED <<tree, fi, curr, order, output>>

Top == stack[Len(stack)]
Reading(p) == phase = "populate" /\ p \in Top.unread

SkipHidden(p) ==
  /\ Reading(p) /\ kind[p] = "hidden"
  /\ stack' = [stack EXCEPT ![Len(stack)].unread = @ \ {p}]
  /\ UNCHANGED <<tree, phase, current_level, list, fi, curr, order, output>>

\* Mutation: buf is filled once per directory.
StatOnce(p) ==
  IF Top.buf = "uninit" THEN {IF kind[p] \in {"dir", "locked"} THEN "dir" ELSE "file"}
  ELSE {Top.buf}

\* What buf says after stat(): a stat() that fails leaves what was there before.
StatResults(p) ==
  IF kind[p] # "dangling" THEN {IF kind[p] \in {"dir", "locked"} THEN "dir" ELSE "file"}
  ELSE IF Top.buf = "uninit" THEN {"dir", "file"}
  ELSE {Top.buf}

\* An entry is inserted; a directory is walked by a call of its own.
Visit(p, b) ==
  LET read == [stack EXCEPT ![Len(stack)].unread = @ \ {p}, ![Len(stack)].buf = b]
  IN  /\ Reading(p) /\ kind[p] # "hidden" /\ b \in StatResults(p)
      /\ list' = insert_sorted(create_node(list, p, current_level), p)
      /\ \/ /\ b = "dir" /\ kind[p] = "dir"
            /\ stack' = Append(read, Frame(p))
            /\ current_level' = current_level + 1
            /\ UNCHANGED phase
         \/ /\ b = "dir" /\ kind[p] # "dir"
            /\ stack' = read
            /\ current_level' = current_level + 1
            /\ phase' = "crashed"
         \/ /\ b = "file"
            /\ stack' = read
            /\ UNCHANGED <<current_level, phase>>
      /\ UNCHANGED <<tree, fi, curr, order, output>>

\* Mutation: the level is not counted down again.
CloseDirectoryKeepLevel ==
  /\ phase = "populate" /\ Top.unread = {}
  /\ stack' = SubSeq(stack, 1, Len(stack) - 1)
  /\ IF Len(stack) > 1
     THEN UNCHANGED <<phase, fi>>
     ELSE phase' = "sort" /\ fi' = list.next[list.head]
  /\ UNCHANGED <<tree, current_level, list, curr, order, output>>

\* The end of a directory; the caller counts the level down again.
CloseDirectory ==
  /\ phase = "populate" /\ Top.unread = {}
  /\ stack' = SubSeq(stack, 1, Len(stack) - 1)
  /\ IF Len(stack) > 1
     THEN current_level' = current_level - 1 /\ UNCHANGED <<phase, fi>>
     ELSE phase' = "sort" /\ fi' = list.next[list.head] /\ UNCHANGED current_level
  /\ UNCHANGED <<tree, list, curr, order, output>>

Sort ==
  /\ phase = "sort" /\ fi # NULL
  /\ list' = SortNode(list, fi)
  /\ fi' = list.next[fi]
  /\ UNCHANGED <<tree, phase, stack, current_level, curr, order, output>>

\* fopen() of the output file; fprintf() faults when it failed.
OpenOutput ==
  /\ phase = "sort" /\ fi = NULL
  /\ \/ phase' = "print" /\ curr' = list.head
     \/ phase' = "crashed" /\ UNCHANGED curr
  /\ UNCHANGED <<tree, stack, current_level, list, fi, order, output>>

SameLevel == list.prev[curr] # NULL /\ list.level[curr] = list.level[list.prev[curr]]

PrintNode ==
  /\ phase = "print" /\ curr # NULL
  /\ order' = IF SameLevel THEN order + 1 ELSE 1
  /\ output' = Append(output, [level |-> list.level[curr], order |-> order', path |-> curr])
  /\ curr' = list.next[curr]
  /\ UNCHANGED <<tree, phase, stack, current_level, list, fi>>

\* fclose(), then destroy_list() frees what is reached from the head.
DestroyList ==
  /\ phase = "print" /\ curr = NULL
  /\ phase' = "done"
  /\ list' = create_list
  /\ UNCHANGED <<tree, stack, current_level, fi, curr, order, output>>

PopulateStep ==
  \/ PopulateRoot
  \/ \E p \in Paths : SkipHidden(p)
  \/ \E p \in Paths, b \in {"dir", "file"} : Visit(p, b)
  \/ CloseDirectory

Next == PopulateStep \/ Sort \/ OpenOutput \/ PrintNode \/ DestroyList

Spec == Init /\ [][Next]_vars

\* One process: it runs on as long as it can.
FairSpec == Spec /\ WF_vars(Next)

-----------------------------------------------------------------------------
(* Properties.                                                             *)

Lists == [head : Paths \cup {NULL}, tail : Paths \cup {NULL},
          next : [Paths -> Paths \cup {NULL}], prev : [Paths -> Paths \cup {NULL}],
          level : [Paths -> 0..N]]

\* Every variable has its type; the level of a call is the depth of its frame.
TypeOK ==
  /\ phase \in {"start", "populate", "sort", "print", "done", "crashed"}
  /\ list \in Lists
  /\ {fi, curr} \subseteq Paths \cup {NULL}
  /\ order \in 0..N
  /\ phase = "populate" => Len(stack) \in 1..N /\ current_level = Len(stack) + 1

\* The nodes from the head on, as next links them (NULL from the end on).
Chain(L) == LET at[i \in 1..(N + 1)] == IF i = 1 THEN L.head
                                        ELSE IF at[i - 1] = NULL THEN NULL
                                        ELSE L.next[at[i - 1]]
            IN  at

Nodes == {p \in Paths : list.level[p] # 0}
Size == Cardinality(Nodes)

\* The list is whole: next reaches every node that was created exactly once and
\* then ends, and prev is the way back.  Neither insert_sorted() nor the sort loses,
\* repeats or cuts off a node, in whatever order readdir() returns the entries.
ListLinked ==
  LET at == Chain(list)
  IN  /\ {at[i] : i \in 1..Size} = Nodes /\ at[Size + 1] = NULL
      /\ \A i \in 1..Size : list.prev[at[i]] = IF i = 1 THEN NULL ELSE at[i - 1]

\* While the tree is read the list is in the order of the paths, and tail is
\* its last node: insert_sorted() relies on both.
OrderedByPath ==
  phase = "populate" =>
    LET at == Chain(list)
    IN  list.tail = at[Size] /\ \A i \in 1..(Size - 1) : at[i] < at[i + 1]

Depths(par) == LET d[p \in Paths] == IF p = root THEN 1 ELSE d[par[p]] + 1 IN d
Depth == Depths(parent)
Before(p, q) == Depth[p] < Depth[q] \/ (Depth[p] = Depth[q] /\ p < q)
Listed == {p \in Paths : kind[p] # "hidden"}

\* The line of the file that the entry p belongs to, and what it says.
Line(p) == 1 + Cardinality({q \in Listed : Before(q, p)})
Entry(p) == [level |-> Depth[p], path |-> p,
             order |-> 1 + Cardinality({q \in Listed : Depth[q] = Depth[p] /\ q < p})]

\* What dirlist prints: every entry that is not hidden, once, by level and within
\* a level by path, numbered from 1 in its level, whatever the order in which
\* readdir() returns the entries; and, up to any moment, a beginning of that.
Listing ==
  /\ \A p \in Listed : Line(p) <= Len(output) => output[Line(p)] = Entry(p)
  /\ Len(output) <= Cardinality(Listed)
  /\ phase = "done" => Len(output) = Cardinality(Listed)

Clean == \A p \in Paths : kind[p] \in {"dir", "file", "unreadable", "hidden"}
OutputFailed == phase = "crashed" /\ kind[root] = "dir" /\ stack = <<>>

\* dirlist ends, and where stat() and opendir() succeed on every entry it ends with
\* the file written, unless the output file cannot be opened.
ListingEnds == <>(phase = "done" \/ OutputFailed \/ (phase = "crashed" /\ ~ Clean))
=============================================================================
