---------------------------- MODULE DirListLemmas ----------------------------
(***************************************************************************)
(* What the operators of DirList do, for every number of paths: the lists  *)
(* that insert_sorted() and the sort make, the places of the nodes in a    *)
(* list, and the depths in a tree.                                         *)
(***************************************************************************)
EXTENDS DirList, ArithmeticLemmas, FiniteSetTheorems

-----------------------------------------------------------------------------
(* Lists.  A rank gives every path a number; the list L holds the nodes of *)
(* S in the order of their ranks.                                          *)

Ranks == [Paths -> Nat]

\* No two nodes have the same rank.
Orders(r, S) == \A p, q \in S : r[p] = r[q] => p = q

\* n comes behind p: there is nothing between the two, or nothing behind p.
IsNext(n, p, S, r) ==
  IF n = NULL THEN \A q \in S : r[q] <= r[p]
  ELSE n \in S /\ r[p] < r[n] /\ \A q \in S : r[q] <= r[p] \/ r[n] <= r[q]

\* The head is the first of S, next the one behind, prev the way back.
Linked(L, S, r) ==
  /\ S = {} => L.head = NULL
  /\ S # {} => L.head \in S /\ L.prev[L.head] = NULL /\ \A q \in S : r[L.head] <= r[q]
  /\ \A p \in S : IsNext(L.next[p], p, S, r)
  /\ \A p \in S : L.next[p] # NULL => L.prev[L.next[p]] = p
  /\ \A p \in S : p # L.head => L.prev[p] \in S /\ L.next[L.prev[p]] = p

\* What InsertAfter() leaves in the fields of the list.
LEMMA InsertAfterFields ==
  ASSUME NEW L \in Lists, NEW node \in Paths, NEW b \in Paths, b # node
  PROVE  LET M == InsertAfter(L, node, b)
         IN  /\ M \in Lists /\ M.head = L.head /\ M.tail = L.tail /\ M.level = L.level
             /\ \A p \in Paths :
                  /\ M.next[p] = IF p = b THEN node ELSE IF p = node THEN L.next[b] ELSE L.next[p]
                  /\ M.prev[p] = IF p = node THEN b ELSE IF p = L.next[b] THEN node ELSE L.prev[p]
BY ZenonT(40) DEF InsertAfter, Lists

\* What Unlinked() leaves in the fields of the list.
LEMMA UnlinkedFields ==
  ASSUME NEW L \in Lists, NEW node \in Paths, L.prev[node] \in Paths
  PROVE  LET M == Unlinked(L, node)
         IN  /\ M \in Lists /\ M.head = L.head /\ M.tail = L.tail /\ M.level = L.level
             /\ \A p \in Paths :
                  /\ M.next[p] = IF p = L.prev[node] THEN L.next[node] ELSE L.next[p]
                  /\ M.prev[p] = IF p = L.next[node] THEN L.prev[node] ELSE L.prev[p]
<1> DEFINE z == L.next[node]
           a == L.prev[node]
           M == [L EXCEPT !.prev = IF z # NULL THEN [L.prev EXCEPT ![z] = a] ELSE L.prev,
                          !.next = [L.next EXCEPT ![a] = z]]
<1>1. Unlinked(L, node) = M
  BY ZenonT(40) DEF Unlinked, Lists
<1>2. /\ z \in Paths \cup {NULL} /\ a \in Paths /\ NULL \notin Paths
      /\ L.next \in [Paths -> Paths \cup {NULL}] /\ L.prev \in [Paths -> Paths \cup {NULL}]
  <2>1. NULL \notin Paths
    BY DEF Paths, NULL
  <2> QED BY ZenonT(40), <2>1 DEF Lists
<1> HIDE DEF z, a
<1>3. /\ M \in Lists /\ M.head = L.head /\ M.tail = L.tail /\ M.level = L.level
      /\ M.prev = (IF z # NULL THEN [L.prev EXCEPT ![z] = a] ELSE L.prev)
      /\ M.next = [L.next EXCEPT ![a] = z]
  BY ZenonT(40), <1>2 DEF Lists
<1> HIDE DEF M
<1>4. \A p \in Paths : M.prev[p] = IF p = z THEN a ELSE L.prev[p]
  BY ZenonT(40), <1>2, <1>3
<1>5. \A p \in Paths : M.next[p] = IF p = a THEN z ELSE L.next[p]
  BY ZenonT(40), <1>2, <1>3
<1> QED BY ZenonT(40), <1>1, <1>3, <1>4, <1>5 DEF z, a

\* A node that is inserted behind b, where its rank belongs, leaves the list linked.
LEMMA InsertLinked ==
  ASSUME NEW L \in Lists, NEW S \in SUBSET Paths, NEW r \in Ranks, Linked(L, S, r),
         NEW node \in Paths \ S, NEW b \in S, r[b] < r[node],
         \A q \in S : r[q] <= r[b] \/ r[node] < r[q],
         Orders(r, S)
  PROVE  Linked(InsertAfter(L, node, b), S \cup {node}, r)
<1> DEFINE M == InsertAfter(L, node, b)
           T == S \cup {node}
<1>1. /\ b \in Paths /\ b # node /\ 0 \notin Paths /\ NULL = 0
      /\ \A p \in Paths : r[p] \in Nat
  BY DEF Ranks, Paths, NULL
<1>2. /\ M \in Lists /\ M.head = L.head
      /\ \A p \in Paths :
           /\ M.next[p] = IF p = b THEN node ELSE IF p = node THEN L.next[b] ELSE L.next[p]
           /\ M.prev[p] = IF p = node THEN b ELSE IF p = L.next[b] THEN node ELSE L.prev[p]
  BY <1>1, InsertAfterFields
<1> HIDE DEF M
<1>3. /\ L.head \in S /\ L.prev[L.head] = NULL /\ \A q \in S : r[L.head] <= r[q]
      /\ \A p \in S : IsNext(L.next[p], p, S, r)
      /\ \A p \in S : L.next[p] # NULL => L.prev[L.next[p]] = p
      /\ \A p \in S : p # L.head => L.prev[p] \in S /\ L.next[L.prev[p]] = p
  BY ZenonT(40) DEF Linked
<1>4. M.head \in T /\ M.prev[M.head] = NULL /\ \A q \in T : r[M.head] <= r[q]
  <2>1. L.head # L.next[b]
    BY <1>1, <1>3 DEF IsNext
  <2>2. \A q \in T : r[L.head] <= r[q]
    BY <1>1, <1>3
  <2> QED BY ZenonT(40), <1>1, <1>2, <1>3, <2>1, <2>2
<1>5. ASSUME NEW p \in T PROVE IsNext(M.next[p], p, T, r)
  <2>1. CASE p = b
    BY <1>1, <1>2, <1>3, <2>1 DEF IsNext
  <2>2. CASE p = node
    <3>1. M.next[p] = L.next[b] /\ IsNext(L.next[b], b, S, r)
      BY ZenonT(40), <1>1, <1>2, <1>3, <2>2
    <3>2. CASE L.next[b] = NULL
      BY <1>1, <2>2, <3>1, <3>2 DEF IsNext
    <3>3. CASE L.next[b] # NULL
      BY <1>1, <2>2, <3>1, <3>3 DEF IsNext
    <3> QED BY ZenonT(40), <3>2, <3>3
  <2>3. CASE p # b /\ p # node
    <3>1. p \in S /\ M.next[p] = L.next[p] /\ IsNext(L.next[p], p, S, r)
      BY ZenonT(40), <1>1, <1>2, <1>3, <2>3
    <3>2. CASE L.next[p] = NULL
      BY <1>1, <3>1, <3>2, <2>3 DEF IsNext, Orders
    <3>3. CASE L.next[p] # NULL
      BY <1>1, <3>1, <3>3, <2>3 DEF IsNext, Orders
    <3> QED BY ZenonT(40), <3>2, <3>3
  <2> QED BY ZenonT(40), <2>1, <2>2, <2>3
<1>6. ASSUME NEW p \in T, M.next[p] # NULL PROVE M.prev[M.next[p]] = p
  <2>1. CASE p = b
    BY ZenonT(40), <1>1, <1>2, <2>1
  <2>2. CASE p = node
    <3>1. M.next[p] = L.next[b] /\ L.next[b] \in S
      BY ZenonT(40), <1>1, <1>2, <1>3, <1>6, <2>2 DEF IsNext
    <3> QED BY ZenonT(40), <1>1, <1>2, <2>2, <3>1
  <2>3. CASE p # b /\ p # node
    <3>1. p \in S /\ M.next[p] = L.next[p] /\ L.next[p] \in S
      BY ZenonT(40), <1>1, <1>2, <1>3, <1>6, <2>3 DEF IsNext
    <3>2. L.next[p] # L.next[b]
      BY ZenonT(40), <1>1, <1>3, <3>1, <2>3
    <3> QED BY <1>1, <1>2, <1>3, <3>1, <3>2
  <2> QED BY ZenonT(40), <2>1, <2>2, <2>3
<1>7. ASSUME NEW p \in T, p # M.head PROVE M.prev[p] \in T /\ M.next[M.prev[p]] = p
  <2>1. CASE p = node
    BY ZenonT(40), <1>1, <1>2, <2>1
  <2>2. CASE p # node /\ p = L.next[b]
    BY ZenonT(40), <1>1, <1>2, <2>2
  <2>3. CASE p # node /\ p # L.next[b]
    <3>1. p \in S /\ M.prev[p] = L.prev[p] /\ L.prev[p] \in S /\ L.next[L.prev[p]] = p
      BY ZenonT(40), <1>1, <1>2, <1>3, <1>7, <2>3
    <3> QED BY ZenonT(40), <1>1, <1>2, <2>3, <3>1
  <2> QED BY ZenonT(40), <2>1, <2>2, <2>3
<1>8. T # {}
  BY ZenonT(40)
<1> QED BY ZenonT(40), <1>4, <1>5, <1>6, <1>7, <1>8 DEF Linked, M

\* A node that is taken out leaves the others linked.
LEMMA RemoveLinked ==
  ASSUME NEW L \in Lists, NEW S \in SUBSET Paths, NEW r \in Ranks, Linked(L, S, r),
         NEW node \in S, node # L.head, Orders(r, S)
  PROVE  Linked(Unlinked(L, node), S \ {node}, r)
<1> DEFINE M == Unlinked(L, node)
           T == S \ {node}
           a == L.prev[node]
           z == L.next[node]
<1>1. /\ 0 \notin Paths /\ NULL = 0 /\ \A p \in Paths : r[p] \in Nat
  BY DEF Ranks, Paths, NULL
<1>2. /\ L.head \in S /\ L.prev[L.head] = NULL /\ \A q \in S : r[L.head] <= r[q]
      /\ \A p \in S : IsNext(L.next[p], p, S, r)
      /\ \A p \in S : L.next[p] # NULL => L.prev[L.next[p]] = p
      /\ \A p \in S : p # L.head => L.prev[p] \in S /\ L.next[L.prev[p]] = p
  BY ZenonT(40) DEF Linked
<1>3. a \in S /\ L.next[a] = node /\ IsNext(node, a, S, r) /\ IsNext(z, node, S, r) /\ a # node
  <2>1. a \in S /\ L.next[a] = node
    BY ZenonT(40), <1>2
  <2>2. IsNext(node, a, S, r) /\ IsNext(z, node, S, r)
    BY ZenonT(40), <1>2, <2>1
  <2> QED BY <1>1, <2>1, <2>2 DEF IsNext
<1>4. /\ M \in Lists /\ M.head = L.head
      /\ \A p \in Paths :
           /\ M.next[p] = IF p = a THEN z ELSE L.next[p]
           /\ M.prev[p] = IF p = z THEN a ELSE L.prev[p]
  BY ZenonT(40), <1>3, UnlinkedFields
<1>5. z # NULL => z \in T /\ L.prev[z] = node
  BY ZenonT(40), <1>1, <1>2, <1>3 DEF IsNext
<1> HIDE DEF M, a, z
<1>6. M.head \in T /\ M.prev[M.head] = NULL /\ \A q \in T : r[M.head] <= r[q]
  <2>1. L.head # z
    BY <1>1, <1>2, <1>3 DEF IsNext
  <2> QED BY ZenonT(40), <1>1, <1>2, <1>4, <2>1
<1>7. ASSUME NEW p \in T PROVE IsNext(M.next[p], p, T, r)
  <2>1. CASE p = a
    <3>1. M.next[p] = z
      BY ZenonT(40), <1>4, <2>1
    <3>2. CASE z = NULL
      BY <1>1, <1>3, <2>1, <3>1, <3>2 DEF IsNext, Orders
    <3>3. CASE z # NULL
      BY <1>1, <1>3, <1>5, <2>1, <3>1, <3>3 DEF IsNext, Orders
    <3> QED BY ZenonT(40), <3>2, <3>3
  <2>2. CASE p # a
    <3>1. M.next[p] = L.next[p] /\ IsNext(L.next[p], p, S, r)
      BY ZenonT(40), <1>2, <1>4, <2>2
    <3>2. L.next[p] # node
      BY <1>1, <1>2, <2>2 DEF a
    <3> QED BY ZenonT(40), <3>1, <3>2 DEF IsNext
  <2> QED BY ZenonT(40), <2>1, <2>2
<1>8. ASSUME NEW p \in T, M.next[p] # NULL PROVE M.prev[M.next[p]] = p
  <2>1. CASE p = a
    BY ZenonT(40), <1>4, <1>5, <1>8, <2>1
  <2>2. CASE p # a
    <3>1. M.next[p] = L.next[p] /\ L.next[p] \in S /\ L.prev[L.next[p]] = p
      BY ZenonT(40), <1>2, <1>4, <1>8, <2>2 DEF IsNext
    <3>2. L.next[p] # z
      BY ZenonT(40), <1>1, <1>5, <3>1
    <3> QED BY ZenonT(40), <1>4, <3>1, <3>2
  <2> QED BY ZenonT(40), <2>1, <2>2
<1>9. ASSUME NEW p \in T, p # M.head PROVE M.prev[p] \in T /\ M.next[M.prev[p]] = p
  <2>1. CASE p = z
    BY ZenonT(40), <1>3, <1>4, <2>1
  <2>2. CASE p # z
    <3>1. M.prev[p] = L.prev[p] /\ L.prev[p] \in S /\ L.next[L.prev[p]] = p
      BY ZenonT(40), <1>2, <1>4, <1>9, <2>2
    <3>2. L.prev[p] # node
      BY ZenonT(40), <2>2, <3>1 DEF z
    <3>3. L.prev[p] # a
      BY ZenonT(40), <1>3, <3>1
    <3> QED BY ZenonT(40), <1>4, <3>1, <3>2, <3>3
  <2> QED BY ZenonT(40), <2>1, <2>2
<1>10. T # {}
  BY ZenonT(40), <1>6
<1> QED BY ZenonT(40), <1>6, <1>7, <1>8, <1>9, <1>10 DEF Linked, M

\* Ranks that order the nodes alike link the same list.
LEMMA RankedAlike ==
  ASSUME NEW L \in Lists, NEW S \in SUBSET Paths, NEW r \in Ranks, NEW s \in Ranks,
         Linked(L, S, r), \A p, q \in S : r[p] <= r[q] <=> s[p] <= s[q]
  PROVE  Linked(L, S, s)
<1>1. \A p, q \in S : r[p] < r[q] <=> s[p] < s[q]
  <2>1. \A p \in S : r[p] \in Nat /\ s[p] \in Nat
    BY ZenonT(40) DEF Ranks
  <2> QED BY <2>1
<1>2. \A p \in S : IsNext(L.next[p], p, S, s)
  BY ZenonT(40), <1>1 DEF Linked, IsNext
<1> QED BY ZenonT(40), <1>2 DEF Linked

-----------------------------------------------------------------------------
(* insert_sorted().                                                        *)

\* Every non-empty set of naturals up to n has a greatest element.
LEMMA GreatestNat ==
  ASSUME NEW n \in Nat, NEW S, S \subseteq 0..n, S # {}
  PROVE  \E m \in S : \A k \in S : k <= m
<1> DEFINE T == {n - k : k \in S}
<1>1. T \subseteq Nat /\ T # {}
  <2>1. \A k \in S : k \in 0..n
    BY ZenonT(40)
  <2>2. \A k \in S : n - k \in Nat
    BY <2>1
  <2> QED BY ZenonT(40), <2>2
<1>2. PICK t \in T : \A u \in T : t <= u
  BY ZenonT(40), <1>1, LeastNat
<1>3. PICK m \in S : t = n - m
  BY ZenonT(40)
<1>4. ASSUME NEW k \in S PROVE k <= m
  <2>1. n - k \in T
    BY ZenonT(40)
  <2>2. t <= n - k
    BY ZenonT(40), <1>2, <2>1
  <2> HIDE DEF T
  <2> QED BY <1>3, <2>2
<1> QED BY ZenonT(40), <1>4

ByPath == [p \in Paths |-> p]

\* The list that insert_sorted() works on: in the order of the paths, with a tail, and
\* no links in the nodes to come.
SortedList(L, S) ==
  /\ Linked(L, S, ByPath)
  /\ IF S = {} THEN L.tail = NULL ELSE L.tail \in S /\ \A q \in S : q <= L.tail
  /\ \A p \in Paths \ S : L.next[p] = NULL /\ L.prev[p] = NULL

\* What SortedList says, without the ranks.
LEMMA SortedFacts ==
  ASSUME NEW L \in Lists, NEW S \in SUBSET Paths, SortedList(L, S), S # {}
  PROVE  /\ ByPath \in Ranks /\ Orders(ByPath, S) /\ (\A p \in Paths : ByPath[p] = p)
         /\ NULL = 0 /\ (\A p \in Paths : p \in Nat) /\ (\A p \in S : p \in Nat) /\ 0 \notin Paths
         /\ L.head \in S /\ L.prev[L.head] = NULL /\ (\A q \in S : L.head <= q)
         /\ L.tail \in S /\ (\A q \in S : q <= L.tail)
         /\ \A p \in S : L.next[p] = NULL => p = L.tail
         /\ \A p \in S : L.next[p] # NULL =>
              /\ L.next[p] \in S /\ p < L.next[p] /\ \A q \in S : q <= p \/ L.next[p] <= q
              /\ L.prev[L.next[p]] = p
         /\ \A p \in S : p # L.head => L.prev[p] \in S /\ L.next[L.prev[p]] = p
<1>1. NULL = 0 /\ (\A p \in Paths : p \in Nat) /\ (\A p \in S : p \in Nat) /\ 0 \notin Paths
  BY NAssumption DEF NULL, Paths
<1>2. ByPath \in Ranks /\ (\A p \in Paths : ByPath[p] = p) /\ Orders(ByPath, S)
  BY ZenonT(40), <1>1 DEF ByPath, Ranks, Orders
<1> HIDE DEF ByPath
<1>3. L.head \in S /\ L.prev[L.head] = NULL /\ (\A q \in S : L.head <= q)
  BY ZenonT(40), <1>2 DEF SortedList, Linked
<1>4. L.tail \in S /\ (\A q \in S : q <= L.tail)
  BY ZenonT(40) DEF SortedList
<1>5. ASSUME NEW p \in S PROVE L.next[p] = NULL => p = L.tail
  <2>1. L.next[p] = NULL => \A q \in S : q <= p
    BY <1>2 DEF SortedList, Linked, IsNext
  <2> QED BY <1>1, <1>4, <2>1
<1>6. ASSUME NEW p \in S, L.next[p] # NULL
      PROVE  /\ L.next[p] \in S /\ p < L.next[p] /\ \A q \in S : q <= p \/ L.next[p] <= q
             /\ L.prev[L.next[p]] = p
  BY <1>2, <1>6 DEF SortedList, Linked, IsNext
<1>7. \A p \in S : p # L.head => L.prev[p] \in S /\ L.next[L.prev[p]] = p
  BY ZenonT(40) DEF SortedList, Linked
<1> QED BY ZenonT(40), <1>1, <1>2, <1>3, <1>4, <1>5, <1>6, <1>7

\* The equation of the recursive function Walk.
WalkEq(f, L, node) ==
  f = [p \in Paths |-> IF L.next[p] # NULL /\ node > p THEN f[L.next[p]] ELSE p]

\* The loop of insert_sorted() stops at the first node behind the new one.
LEMMA WalkStops ==
  ASSUME NEW L \in Lists, NEW S \in SUBSET Paths, SortedList(L, S), S # {},
         NEW node \in Paths \ S, L.head < node, node < L.tail
  PROVE  LET w == Walk(L, node)[L.head]
         IN  w \in S /\ node < w /\ \A q \in S : q < node \/ w <= q
<1>1. /\ NULL = 0 /\ (\A p \in Paths : p \in Nat) /\ (\A p \in S : p \in Nat) /\ 0 \notin Paths
      /\ L.head \in S /\ (\A q \in S : L.head <= q)
      /\ L.tail \in S /\ (\A q \in S : q <= L.tail)
      /\ \A p \in S : L.next[p] = NULL => p = L.tail
      /\ \A p \in S : L.next[p] # NULL =>
           /\ L.next[p] \in S /\ p < L.next[p] /\ \A q \in S : q <= p \/ L.next[p] <= q
  BY ZenonT(40), SortedFacts
<1> DEFINE A == {q \in S : node < q}
<1>2. PICK w \in A : \A q \in A : w <= q
  <2>1. A \subseteq Nat /\ A # {}
    BY ZenonT(40), <1>1
  <2> HIDE DEF A
  <2> QED BY ZenonT(40), <2>1, LeastNat
<1>3. w \in S /\ node < w /\ \A q \in S : q < node \/ w <= q
  BY SMTT(30), <1>1, <1>2
<1> HIDE DEF A
<1>4. ASSUME NEW p \in S, p < node
      PROVE  L.next[p] \in S /\ L.next[p] # NULL /\ p < L.next[p] /\ (L.next[p] < node \/ L.next[p] = w)
  <2>1. L.next[p] \in S /\ L.next[p] # NULL /\ p < L.next[p] /\ \A q \in S : q <= p \/ L.next[p] <= q
    BY <1>1, <1>4
  <2>2. L.next[p] <= w /\ (L.next[p] < node \/ w <= L.next[p])
    BY <1>1, <1>3, <1>4, <2>1
  <2>3. L.next[p] \in Nat /\ w \in Nat
    BY ZenonT(40), <1>1, <1>3, <2>1
  <2> QED BY <2>1, <2>2, <2>3
<1> DEFINE g == [p \in Paths |-> IF p \in S /\ p < node THEN w ELSE p]
<1>5. WalkEq(g, L, node)
  <2>1. ASSUME NEW p \in Paths
        PROVE  g[p] = IF L.next[p] # NULL /\ node > p THEN g[L.next[p]] ELSE p
    <3>1. CASE p \in S /\ p < node
      <4>1. L.next[p] \in S /\ L.next[p] \in Paths /\ L.next[p] # NULL
            /\ (L.next[p] < node \/ L.next[p] = w)
        BY ZenonT(40), <1>4, <3>1
      <4>2. g[L.next[p]] = w
        BY ZenonT(40), <1>1, <1>3, <4>1
      <4>3. g[p] = w /\ node > p
        BY ZenonT(40), <1>1, <3>1
      <4> QED BY ZenonT(40), <4>1, <4>2, <4>3
    <3>2. CASE p \in S /\ ~ (p < node)
      BY ZenonT(40), <1>1, <3>2
    <3>3. CASE p \notin S
      <4>1. L.next[p] = NULL
        BY ZenonT(40), <3>3 DEF SortedList
      <4> QED BY ZenonT(40), <3>3, <4>1
    <3> QED BY ZenonT(40), <3>1, <3>2, <3>3
  <2> QED BY ZenonT(40), <2>1 DEF WalkEq
<1> HIDE DEF g
<1> DEFINE f == Walk(L, node)
<1>6. WalkEq(f, L, node)
  <2>1. f = CHOOSE h : WalkEq(h, L, node)
    BY ZenonT(40) DEF Walk, WalkEq
  <2> HIDE DEF f
  <2> QED BY ZenonT(40), <1>5, <2>1
<1> HIDE DEF f
<1>7. \A p \in Paths : f[p] = IF L.next[p] # NULL /\ node > p THEN f[L.next[p]] ELSE p
  BY ZenonT(40), <1>6 DEF WalkEq
<1> DEFINE Bad == {p \in S : p < node /\ f[p] # w}
<1>8. Bad = {}
  <2> SUFFICES ASSUME Bad # {} PROVE FALSE
    BY ZenonT(40)
  <2>1. node \in Nat /\ Bad \subseteq 0..node
    BY <1>1
  <2>2. PICK p \in Bad : \A q \in Bad : q <= p
    <3> HIDE DEF Bad
    <3> QED BY ZenonT(40), <2>1, GreatestNat
  <2>3. p \in S /\ p < node /\ f[p] # w /\ p \in Paths
    BY ZenonT(40)
  <2>4. /\ L.next[p] \in S /\ L.next[p] # NULL /\ p < L.next[p] /\ (L.next[p] < node \/ L.next[p] = w)
        /\ L.next[p] \in Paths
    BY ZenonT(40), <1>4, <2>3
  <2>5. f[p] = f[L.next[p]]
    BY ZenonT(40), <1>1, <1>7, <2>3, <2>4
  <2>6. f[w] = w
    BY <1>1, <1>3, <1>7
  <2>7. L.next[p] < node /\ L.next[p] \in Bad
    BY ZenonT(40), <2>3, <2>4, <2>5, <2>6
  <2> HIDE DEF Bad
  <2>8. L.next[p] <= p
    BY ZenonT(40), <2>2, <2>7
  <2> QED BY <1>1, <2>4, <2>8, <2>3
<1>9. f[L.head] = w
  BY ZenonT(40), <1>1, <1>8
<1> QED BY ZenonT(40), <1>3, <1>9 DEF f

\* insert_sorted() puts the node where its path belongs, loses no other, and leaves
\* tail at the end: in an empty list, in front, behind, or in between.
LEMMA InsertSorted ==
  ASSUME NEW L \in Lists, NEW S \in SUBSET Paths, SortedList(L, S), NEW node \in Paths \ S
  PROVE  LET M == insert_sorted(L, node)
         IN  M \in Lists /\ M.level = L.level /\ SortedList(M, S \cup {node})
<1> DEFINE M == insert_sorted(L, node)
           T == S \cup {node}
<1>1. /\ NULL = 0 /\ (\A p \in Paths : p \in Nat) /\ 0 \notin Paths /\ node \in Paths
      /\ ByPath \in Ranks /\ (\A p \in Paths : ByPath[p] = p) /\ Orders(ByPath, S)
  BY NAssumption DEF NULL, Paths, ByPath, Ranks, Orders
<1>2. L.next[node] = NULL /\ L.prev[node] = NULL
  BY ZenonT(40) DEF SortedList
<1>3. /\ L.head \in Paths \cup {NULL} /\ L.tail \in Paths \cup {NULL}
      /\ L.next \in [Paths -> Paths \cup {NULL}] /\ L.prev \in [Paths -> Paths \cup {NULL}]
  BY ZenonT(40) DEF Lists
<1> HIDE DEF ByPath
<1>4. CASE S = {}
  <2>1. L.head = NULL /\ L.tail = NULL
    BY ZenonT(40), <1>4 DEF SortedList, Linked
  <2>2. M = [L EXCEPT !.head = node, !.tail = node]
    BY ZenonT(40), <2>1 DEF insert_sorted
  <2> HIDE DEF M
  <2>3. /\ M \in Lists /\ M.head = node /\ M.tail = node /\ M.level = L.level
        /\ M.next = L.next /\ M.prev = L.prev
    BY ZenonT(40), <2>2 DEF Lists
  <2>4. T = {node}
    BY ZenonT(40), <1>4
  <2>5. Linked(M, T, ByPath)
    BY <1>1, <1>2, <2>3, <2>4 DEF Linked, IsNext
  <2>6. SortedList(M, T)
    BY <1>1, <1>4, <2>3, <2>4, <2>5 DEF SortedList
  <2> QED BY ZenonT(40), <2>3, <2>6 DEF M
<1>5. CASE S # {}
  <2>1. /\ (\A p \in S : p \in Nat)
        /\ L.head \in S /\ L.prev[L.head] = NULL /\ (\A q \in S : L.head <= q)
        /\ L.tail \in S /\ (\A q \in S : q <= L.tail)
        /\ \A p \in S : L.next[p] = NULL => p = L.tail
        /\ \A p \in S : L.next[p] # NULL =>
             /\ L.next[p] \in S /\ p < L.next[p] /\ \A q \in S : q <= p \/ L.next[p] <= q
             /\ L.prev[L.next[p]] = p
        /\ \A p \in S : p # L.head => L.prev[p] \in S /\ L.next[L.prev[p]] = p
    BY ZenonT(40), <1>5, SortedFacts
  <2>2. L.head # NULL /\ L.head # node /\ L.tail # node /\ L.tail # NULL
    BY <1>1, <2>1
  <2>3. CASE node <= L.head
    <3>1. M = [L EXCEPT !.prev[L.head] = node, !.next[node] = L.head, !.head = node]
      BY ZenonT(40), <2>2, <2>3 DEF insert_sorted
    <3> HIDE DEF M
    <3>2. /\ M \in Lists /\ M.head = node /\ M.tail = L.tail /\ M.level = L.level
          /\ M.next = [L.next EXCEPT ![node] = L.head] /\ M.prev = [L.prev EXCEPT ![L.head] = node]
      BY ZenonT(40), <1>1, <1>3, <2>1, <3>1 DEF Lists
    <3>3. \A p \in Paths : /\ M.next[p] = IF p = node THEN L.head ELSE L.next[p]
                           /\ M.prev[p] = IF p = L.head THEN node ELSE L.prev[p]
      BY ZenonT(40), <1>3, <3>2
    <3>4. \A q \in S : node < q
      BY <1>1, <2>1, <2>3
    <3>5. ASSUME NEW p \in T PROVE IsNext(M.next[p], p, T, ByPath)
      <4>1. CASE p = node
        BY SMTT(30), <1>1, <2>1, <2>2, <3>3, <3>4, <4>1 DEF IsNext
      <4>2. CASE p \in S /\ L.next[p] = NULL
        BY SMTT(30), <1>1, <2>1, <3>3, <3>4, <4>2 DEF IsNext
      <4>3. CASE p \in S /\ L.next[p] # NULL
        BY <1>1, <2>1, <3>3, <3>4, <4>3 DEF IsNext
      <4> QED BY ZenonT(40), <4>1, <4>2, <4>3
    <3>6. ASSUME NEW p \in T, M.next[p] # NULL PROVE M.prev[M.next[p]] = p
      <4>1. CASE p = node
        BY ZenonT(40), <1>1, <2>1, <2>2, <3>3, <4>1
      <4>2. CASE p \in S /\ p # node
        <5>1. M.next[p] = L.next[p] /\ L.next[p] \in S /\ p < L.next[p] /\ L.prev[L.next[p]] = p
          BY ZenonT(40), <1>1, <2>1, <3>3, <3>6, <4>2
        <5>2. L.next[p] # L.head
          BY <2>1, <5>1, <4>2
        <5> QED BY ZenonT(40), <3>3, <5>1, <5>2
      <4> QED BY ZenonT(40), <4>1, <4>2
    <3>7. ASSUME NEW p \in T, p # M.head PROVE M.prev[p] \in T /\ M.next[M.prev[p]] = p
      <4>1. p \in S /\ p # node
        BY ZenonT(40), <3>2, <3>7
      <4>2. CASE p = L.head
        BY ZenonT(40), <1>1, <2>1, <2>2, <3>3, <4>2
      <4>3. CASE p # L.head
        BY ZenonT(40), <1>1, <2>1, <3>3, <4>1, <4>3
      <4> QED BY ZenonT(40), <4>2, <4>3
    <3>8. M.prev[node] = NULL
      BY ZenonT(40), <1>2, <2>2, <3>3
    <3>9. \A q \in T : ByPath[node] <= ByPath[q]
      BY <1>1, <2>1, <3>4
    <3>10. Linked(M, T, ByPath)
      BY ZenonT(40), <3>2, <3>5, <3>6, <3>7, <3>8, <3>9 DEF Linked
    <3>11. M.tail \in T /\ \A q \in T : q <= M.tail
      BY <1>1, <2>1, <3>2, <3>4
    <3>12. \A p \in Paths \ T : M.next[p] = NULL /\ M.prev[p] = NULL
      BY ZenonT(40), <2>1, <3>3 DEF SortedList
    <3> QED BY ZenonT(40), <3>2, <3>10, <3>11, <3>12 DEF SortedList, M
  <2>4. CASE ~ (node <= L.head)
    <3> DEFINE b == IF node > L.tail THEN L.tail ELSE L.prev[Walk(L, node)[L.head]]
               I == InsertAfter(L, node, b)
    <3>1. /\ b \in S /\ b < node /\ (\A q \in S : q <= b \/ node < q)
          /\ M = [I EXCEPT !.tail = IF node > L.tail THEN node ELSE L.tail]
      <4>1. CASE node > L.tail
        <5>1. b = L.tail /\ L.next[b] = NULL /\ b # node /\ b \in Paths
          <6>1. L.next[L.tail] = NULL
            BY <2>1
          <6> QED BY ZenonT(40), <2>1, <2>2, <4>1, <6>1
        <5>2. M = [L EXCEPT !.next[L.tail] = node, !.prev[node] = L.tail, !.tail = node]
          BY ZenonT(40), <2>2, <2>4, <4>1 DEF insert_sorted
        <5> DEFINE X == [L EXCEPT !.next = [L.next EXCEPT ![b] = node],
                                  !.prev = [L.prev EXCEPT ![node] = b], !.tail = node]
        <5>3. M = X
          BY ZenonT(40), <5>1, <5>2 DEF Lists
        <5> HIDE DEF b
        <5>4. /\ I \in Lists
              /\ \A p \in Paths :
                   /\ I.next[p] = IF p = b THEN node ELSE IF p = node THEN L.next[b] ELSE L.next[p]
                   /\ I.prev[p] = IF p = node THEN b ELSE IF p = L.next[b] THEN node ELSE L.prev[p]
          <6>1. b \in Paths /\ b # node
            BY ZenonT(40), <5>1
          <6> QED BY <6>1, InsertAfterFields
        <5>5. I.next = [L.next EXCEPT ![b] = node] /\ I.prev = [L.prev EXCEPT ![node] = b]
          <6> HIDE DEF I
          <6>1. I.next = [L.next EXCEPT ![b] = node]
            BY SMTT(30), <1>2, <1>3, <5>1, <5>4 DEF Lists
          <6>2. I.prev = [L.prev EXCEPT ![node] = b]
            BY SMTT(30), <1>1, <1>2, <1>3, <5>1, <5>4 DEF Lists
          <6> QED BY ZenonT(40), <6>1, <6>2
        <5>6. I \in Lists /\ I.head = L.head /\ I.level = L.level
          BY <5>1, InsertAfterFields
        <5> HIDE DEF I
        <5>7. X = [I EXCEPT !.tail = node]
          BY ZenonT(40), <5>5, <5>6 DEF Lists
        <5> HIDE DEF M, X
        <5>8. b \in S /\ b < node /\ (\A q \in S : q <= b \/ node < q)
          BY ZenonT(40), <1>1, <2>1, <4>1, <5>1
        <5> QED BY ZenonT(40), <4>1, <5>3, <5>7, <5>8
      <4>2. CASE ~ (node > L.tail)
        <5> DEFINE w == Walk(L, node)[L.head]
        <5>1. w \in S /\ node < w /\ \A q \in S : q < node \/ w <= q
          <6>1. L.head < node /\ node < L.tail
            BY SMTT(30), <1>1, <2>1, <2>2, <2>4, <4>2
          <6> QED BY ZenonT(40), <1>5, <6>1, WalkStops
        <5>2. b = L.prev[w] /\ M = InsertBetween(L, node, w)
          BY ZenonT(40), <2>2, <2>4, <4>2 DEF insert_sorted
        <5> HIDE DEF w, b
        <5>3. b \in S /\ L.next[b] = w /\ b \in Paths /\ w \in Paths
          BY SMTT(30), <1>1, <2>1, <2>4, <5>1, <5>2
        <5>4. b # node /\ b < w /\ w # NULL
          BY ZenonT(40), <1>1, <2>1, <5>1, <5>3
        <5>5. b < node /\ (\A q \in S : q <= b \/ node < q)
          BY <1>1, <2>1, <5>1, <5>3, <5>4
        <5> DEFINE X == [L EXCEPT !.next = [[L.next EXCEPT ![node] = w] EXCEPT ![b] = node],
                                  !.prev = [[L.prev EXCEPT ![node] = b] EXCEPT ![w] = node]]
        <5>6. M = X
          BY ZenonT(40), <5>2 DEF InsertBetween, Lists
        <5>7. /\ I \in Lists
              /\ \A p \in Paths :
                   /\ I.next[p] = IF p = b THEN node ELSE IF p = node THEN L.next[b] ELSE L.next[p]
                   /\ I.prev[p] = IF p = node THEN b ELSE IF p = L.next[b] THEN node ELSE L.prev[p]
          <6>1. b \in Paths /\ b # node
            BY ZenonT(40), <5>3, <5>4
          <6> QED BY <6>1, InsertAfterFields
        <5>8. /\ I.next = [[L.next EXCEPT ![node] = w] EXCEPT ![b] = node]
              /\ I.prev = [[L.prev EXCEPT ![node] = b] EXCEPT ![w] = node]
          <6> HIDE DEF I
          <6>0. w # node
            BY ZenonT(40), <1>1, <5>1, <5>3
          <6>1. I.next = [[L.next EXCEPT ![node] = w] EXCEPT ![b] = node]
            BY ZenonT(40), <1>3, <5>3, <5>4, <5>7, <6>0 DEF Lists
          <6>2. I.prev = [[L.prev EXCEPT ![node] = b] EXCEPT ![w] = node]
            BY ZenonT(40), <1>3, <5>3, <5>4, <5>7, <6>0 DEF Lists
          <6> QED BY ZenonT(40), <6>1, <6>2
        <5>9. I \in Lists /\ I.head = L.head /\ I.level = L.level /\ I.tail = L.tail
          BY <5>3, <5>4, InsertAfterFields
        <5> HIDE DEF I
        <5>10. X = [I EXCEPT !.tail = L.tail]
          BY ZenonT(40), <5>8, <5>9 DEF Lists
        <5> HIDE DEF M, X
        <5> QED BY ZenonT(40), <4>2, <5>3, <5>5, <5>6, <5>10
      <4> QED BY ZenonT(40), <4>1, <4>2
    <3> HIDE DEF b, M
    <3>2. /\ I \in Lists /\ I.head = L.head /\ I.level = L.level
          /\ \A p \in Paths :
               /\ I.next[p] = IF p = b THEN node ELSE IF p = node THEN L.next[b] ELSE L.next[p]
               /\ I.prev[p] = IF p = node THEN b ELSE IF p = L.next[b] THEN node ELSE L.prev[p]
      <4>1. b \in Paths /\ b # node
        BY ZenonT(40), <3>1
      <4> QED BY <4>1, InsertAfterFields
    <3>3. Linked(I, T, ByPath)
      <4>1. ByPath[b] < ByPath[node] /\ \A q \in S : ByPath[q] <= ByPath[b] \/ ByPath[node] < ByPath[q]
        BY ZenonT(40), <1>1, <3>1
      <4>2. Linked(L, S, ByPath)
        BY ZenonT(40) DEF SortedList
      <4> QED BY ZenonT(40), <1>1, <3>1, <4>1, <4>2, InsertLinked
    <3> HIDE DEF I
    <3>4. /\ M \in Lists /\ M.head = I.head /\ M.level = L.level /\ M.next = I.next /\ M.prev = I.prev
          /\ M.tail = IF node > L.tail THEN node ELSE L.tail
      BY ZenonT(40), <1>3, <3>1, <3>2 DEF Lists
    <3>5. Linked(M, T, ByPath)
      BY ZenonT(40), <3>3, <3>4 DEF Linked
    <3>6. M.tail \in T /\ \A q \in T : q <= M.tail
      BY SMTT(30), <1>1, <2>1, <3>4
    <3>7. \A p \in Paths \ T : M.next[p] = NULL /\ M.prev[p] = NULL
      BY SMTT(30), <1>1, <2>1, <3>1, <3>2, <3>4 DEF SortedList
    <3> QED BY ZenonT(40), <3>4, <3>5, <3>6, <3>7 DEF SortedList, M
  <2> QED BY ZenonT(40), <2>3, <2>4
<1> QED BY ZenonT(40), <1>4, <1>5

-----------------------------------------------------------------------------
(* The places of the nodes in a list.                                      *)

\* The place of p among the nodes of S.
Pos(p, S, r) == Cardinality({q \in S : r[q] <= r[p]})

\* The nodes can be counted, and there are at most N.
LEMMA NodesFinite ==
  ASSUME NEW S \in SUBSET Paths
  PROVE  IsFiniteSet(S) /\ Cardinality(S) \in 0..N
<1>1. IsFiniteSet(1..N) /\ Cardinality(1..N) = N
  BY NAssumption, FS_Interval
<1>2. IsFiniteSet(S) /\ Cardinality(S) <= N
  BY ZenonT(40), <1>1, FS_Subset DEF Paths
<1> QED BY <1>2, NAssumption, FS_CardinalityType

\* The places are numbered from 1, in the order of the ranks.
LEMMA PosOrder ==
  ASSUME NEW S \in SUBSET Paths, NEW r \in Ranks, NEW p \in S, NEW q \in S
  PROVE  /\ Pos(p, S, r) \in 1..Cardinality(S)
         /\ r[p] < r[q] => Pos(p, S, r) < Pos(q, S, r)
<1> DEFINE A == {x \in S : r[x] <= r[p]}
           B == {x \in S : r[x] <= r[q]}
<1>1. \A x \in S : r[x] \in Nat
  BY ZenonT(40) DEF Ranks
<1>2. /\ IsFiniteSet(A) /\ IsFiniteSet(B) /\ IsFiniteSet(S)
      /\ Cardinality(A) \in Nat /\ Cardinality(B) \in Nat /\ Cardinality(S) \in Nat
  BY ZenonT(40), NodesFinite, FS_CardinalityType, FS_Subset
<1>3. Cardinality(A) <= Cardinality(S) /\ Cardinality(A) # 0
  <2>1. A \subseteq S /\ p \in A
    BY <1>1
  <2> HIDE DEF A
  <2> QED BY ZenonT(40), <1>2, <2>1, FS_Subset, FS_EmptySet
<1>4. ASSUME r[p] < r[q] PROVE Cardinality(A) < Cardinality(B)
  <2>1. A \subseteq B /\ q \in B /\ q \notin A
    BY <1>1, <1>4
  <2> HIDE DEF A, B
  <2>2. Cardinality(A) <= Cardinality(B) /\ Cardinality(A) # Cardinality(B)
    BY ZenonT(40), <1>2, <2>1, FS_Subset
  <2> QED BY <1>2, <2>2
<1> HIDE DEF A, B
<1>5. Cardinality(A) \in 1..Cardinality(S)
  BY <1>2, <1>3
<1> QED BY ZenonT(40), <1>4, <1>5 DEF A, B, Pos

\* Every place belongs to one node.
LEMMA PosInjective ==
  ASSUME NEW S \in SUBSET Paths, NEW r \in Ranks, Orders(r, S), NEW p \in S, NEW q \in S,
         Pos(p, S, r) = Pos(q, S, r)
  PROVE  p = q
<1>1. r[p] \in Nat /\ r[q] \in Nat
  BY ZenonT(40) DEF Ranks
<1>2. Pos(p, S, r) \in Nat /\ Pos(q, S, r) \in Nat
  BY ZenonT(40), NodesFinite, FS_CardinalityType, FS_Subset DEF Pos
<1>3. ~ (r[p] < r[q]) /\ ~ (r[q] < r[p])
  BY <1>2, PosOrder
<1>4. r[p] = r[q]
  BY <1>1, <1>3
<1> QED BY ZenonT(40), <1>4 DEF Orders

\* The head is at the first place, next one place further, and behind the last is none.
LEMMA PosLinked ==
  ASSUME NEW L \in Lists, NEW S \in SUBSET Paths, NEW r \in Ranks, Orders(r, S), Linked(L, S, r)
  PROVE  /\ S # {} => Pos(L.head, S, r) = 1
         /\ \A p \in S : IF L.next[p] = NULL THEN Pos(p, S, r) = Cardinality(S)
                         ELSE L.next[p] \in S /\ Pos(L.next[p], S, r) = Pos(p, S, r) + 1
<1>1. \A x \in S : r[x] \in Nat
  BY ZenonT(40) DEF Ranks
<1>2. ASSUME S # {} PROVE Pos(L.head, S, r) = 1
  <2>1. L.head \in S /\ \A q \in S : r[L.head] <= r[q]
    BY ZenonT(40), <1>2 DEF Linked
  <2>2. {q \in S : r[q] <= r[L.head]} = {L.head}
    BY <1>1, <2>1 DEF Orders
  <2> QED BY ZenonT(40), <2>2, FS_Singleton DEF Pos
<1>3. ASSUME NEW p \in S, L.next[p] = NULL PROVE Pos(p, S, r) = Cardinality(S)
  <2>1. {q \in S : r[q] <= r[p]} = S
    BY ZenonT(40), <1>3 DEF Linked, IsNext
  <2> QED BY ZenonT(40), <2>1 DEF Pos
<1>4. ASSUME NEW p \in S, L.next[p] # NULL
      PROVE  L.next[p] \in S /\ Pos(L.next[p], S, r) = Pos(p, S, r) + 1
  <2> DEFINE n == L.next[p]
             A == {q \in S : r[q] <= r[p]}
             B == {q \in S : r[q] <= r[n]}
  <2>1. n \in S /\ r[p] < r[n] /\ \A q \in S : r[q] <= r[p] \/ r[n] <= r[q]
    BY ZenonT(40), <1>4 DEF Linked, IsNext
  <2> HIDE DEF n
  <2>2. B = A \cup {n} /\ n \notin A
    BY <1>1, <2>1 DEF Orders
  <2>3. IsFiniteSet(A)
    BY ZenonT(40), NodesFinite
  <2> HIDE DEF A, B
  <2>4. Cardinality(B) = Cardinality(A) + 1
    BY ZenonT(40), <2>2, <2>3, FS_AddElement
  <2> QED BY ZenonT(40), <2>1, <2>4 DEF Pos, A, B, n
<1> QED BY ZenonT(40), <1>2, <1>3, <1>4

\* The equation of the recursive function Chain.
ChainEq(f, L) ==
  f = [i \in 1..(N + 1) |-> IF i = 1 THEN L.head
                            ELSE IF f[i - 1] = NULL THEN NULL
                            ELSE L.next[f[i - 1]]]

\* Following next from the head comes to the nodes in the order of their places.
LEMMA ChainIs ==
  ASSUME NEW L \in Lists, NEW S \in SUBSET Paths, NEW r \in Ranks, Orders(r, S), Linked(L, S, r)
  PROVE  LET at == Chain(L)
         IN  /\ \A i \in 1..Cardinality(S) : at[i] \in S /\ Pos(at[i], S, r) = i
             /\ at[Cardinality(S) + 1] = NULL
             /\ \A i \in 2..Cardinality(S) : at[i] = L.next[at[i - 1]]
             /\ S # {} => at[1] = L.head
<1> DEFINE n == Cardinality(S)
           P(p) == Pos(p, S, r)
<1>1. n \in 0..N /\ N \in Nat /\ N >= 1
  BY NodesFinite, NAssumption
<1>2. \A p \in S : P(p) \in 1..n
  BY ZenonT(40), PosOrder
<1>3. \A p, q \in S : P(p) = P(q) => p = q
  BY ZenonT(40), PosInjective
<1>4. /\ S # {} => L.head \in S /\ P(L.head) = 1
      /\ S = {} => L.head = NULL
      /\ \A p \in S : IF L.next[p] = NULL THEN P(p) = n
                      ELSE L.next[p] \in S /\ P(L.next[p]) = P(p) + 1
      /\ \A p \in S : p # L.head => L.prev[p] \in S /\ L.next[L.prev[p]] = p
  BY ZenonT(40), PosLinked DEF Linked
<1>5. S = {} => n = 0
  BY ZenonT(40), FS_EmptySet
<1>6. NULL \notin S /\ (n = 0 => S = {})
  <2>1. NULL \notin S
    BY DEF NULL, Paths
  <2> QED BY <2>1, <1>2
<1> HIDE DEF n, P
<1>7. \E g : ChainEq(g, L)
  <2> DEFINE g == [i \in 1..(N + 1) |-> IF \E p \in S : P(p) = i THEN CHOOSE p \in S : P(p) = i ELSE NULL]
  <2>1. ASSUME NEW p \in S PROVE P(p) \in 1..(N + 1) /\ g[P(p)] = p
    <3>1. P(p) \in 1..(N + 1)
      BY <1>1, <1>2
    <3>2. (CHOOSE q \in S : P(q) = P(p)) \in S /\ P(CHOOSE q \in S : P(q) = P(p)) = P(p)
      BY ZenonT(40)
    <3>3. (CHOOSE q \in S : P(q) = P(p)) = p
      BY ZenonT(40), <1>3, <3>2
    <3> QED BY ZenonT(40), <3>1, <3>3
  <2>2. ASSUME NEW i \in 1..(N + 1), ~ \E p \in S : P(p) = i PROVE g[i] = NULL
    BY ZenonT(40), <2>2
  <2> HIDE DEF g
  <2>3. ASSUME NEW i \in 1..(N + 1)
        PROVE  g[i] = IF i = 1 THEN L.head ELSE IF g[i - 1] = NULL THEN NULL ELSE L.next[g[i - 1]]
    <3>1. CASE i = 1 /\ S # {}
      BY ZenonT(40), <1>4, <2>1, <3>1
    <3>2. CASE i = 1 /\ S = {}
      BY ZenonT(40), <1>4, <2>2, <3>2
    <3>3. CASE i # 1 /\ \E p \in S : P(p) = i - 1
      <4>1. PICK p \in S : P(p) = i - 1
        BY ZenonT(40), <3>3
      <4>2. g[i - 1] = p /\ p # NULL
        BY ZenonT(40), <1>6, <2>1, <4>1
      <4>3. CASE L.next[p] = NULL
        <5>1. ~ \E q \in S : P(q) = i
          BY <1>1, <1>2, <1>4, <4>1, <4>3
        <5> QED BY ZenonT(40), <2>2, <3>3, <4>2, <4>3, <5>1
      <4>4. CASE L.next[p] # NULL
        <5>1. L.next[p] \in S /\ P(L.next[p]) = i
          BY <1>4, <4>1, <4>4
        <5> QED BY ZenonT(40), <2>1, <3>3, <4>2, <5>1
      <4> QED BY ZenonT(40), <4>3, <4>4
    <3>4. CASE i # 1 /\ ~ \E p \in S : P(p) = i - 1
      <4>1. i - 1 \in 1..(N + 1)
        BY <1>1, <3>4
      <4>2. g[i - 1] = NULL
        BY ZenonT(40), <2>2, <3>4, <4>1
      <4>3. ASSUME NEW q \in S, P(q) = i PROVE FALSE
        <5>1. q # L.head
          BY ZenonT(40), <1>4, <3>4, <4>3
        <5>2. L.prev[q] \in S /\ L.next[L.prev[q]] = q /\ q # NULL
          BY ZenonT(40), <1>4, <1>6, <5>1
        <5>3. P(q) = P(L.prev[q]) + 1
          BY ZenonT(40), <1>4, <5>2
        <5>4. P(L.prev[q]) = i - 1
          BY <1>2, <4>3, <5>2, <5>3
        <5> QED BY ZenonT(40), <3>4, <5>2, <5>4
      <4> QED BY ZenonT(40), <2>2, <3>4, <4>2, <4>3
    <3> QED BY ZenonT(40), <3>1, <3>2, <3>3, <3>4
  <2>4. g = [i \in 1..(N + 1) |-> IF i = 1 THEN L.head
                                 ELSE IF g[i - 1] = NULL THEN NULL ELSE L.next[g[i - 1]]]
    <3>1. g = [i \in 1..(N + 1) |-> g[i]]
      BY ZenonT(40) DEF g
    <3> QED BY ZenonT(40), <2>3, <3>1
  <2> QED BY ZenonT(40), <2>4 DEF ChainEq
<1> DEFINE at == Chain(L)
<1>8. ChainEq(at, L)
  <2>1. at = CHOOSE f : ChainEq(f, L)
    BY ZenonT(40) DEF Chain, ChainEq
  <2> HIDE DEF at
  <2> QED BY ZenonT(40), <1>7, <2>1
<1> HIDE DEF at
<1>9. \A i \in 1..(N + 1) : at[i] = IF i = 1 THEN L.head
                                    ELSE IF at[i - 1] = NULL THEN NULL ELSE L.next[at[i - 1]]
  BY ZenonT(40), <1>8 DEF ChainEq
<1> DEFINE Bad == {i \in 1..n : ~ (at[i] \in S /\ P(at[i]) = i)}
<1>10. Bad = {}
  <2> SUFFICES ASSUME Bad # {} PROVE FALSE
    BY ZenonT(40)
  <2>1. Bad \subseteq Nat
    BY <1>1
  <2>2. PICK i \in Bad : \A j \in Bad : i <= j
    <3> HIDE DEF Bad
    <3> QED BY ZenonT(40), <2>1, LeastNat
  <2>3. i \in 1..n /\ ~ (at[i] \in S /\ P(at[i]) = i)
    BY ZenonT(40)
  <2>4. CASE i = 1
    <3>1. at[1] = L.head /\ S # {}
      BY SMTT(30), <1>1, <1>5, <1>9, <2>3, <2>4
    <3> QED BY ZenonT(40), <1>4, <2>3, <2>4, <3>1
  <2>5. CASE i # 1
    <3>1. i - 1 \in 1..n /\ ~ (i <= i - 1) /\ i \in 1..(N + 1)
      BY <1>1, <2>3, <2>5
    <3>2. at[i - 1] \in S /\ P(at[i - 1]) = i - 1
      BY ZenonT(40), <2>2, <3>1
    <3> HIDE DEF Bad
    <3>3. at[i] = L.next[at[i - 1]]
      BY ZenonT(40), <1>6, <1>9, <2>5, <3>1, <3>2
    <3>4. L.next[at[i - 1]] # NULL
      BY SMTT(30), <1>1, <1>4, <2>3, <3>2
    <3>5. at[i] \in S /\ P(at[i]) = (i - 1) + 1
      BY ZenonT(40), <1>4, <3>2, <3>3, <3>4
    <3> QED BY <2>3, <3>1, <3>5
  <2> QED BY ZenonT(40), <2>4, <2>5
<1>11. \A i \in 1..n : at[i] \in S /\ P(at[i]) = i
  BY ZenonT(40), <1>10
<1> HIDE DEF Bad
<1>12. at[n + 1] = NULL
  <2>1. CASE n = 0
    BY <1>1, <1>4, <1>6, <1>9, <2>1
  <2>2. CASE n # 0
    <3>1. n \in 1..n /\ n + 1 \in 1..(N + 1) /\ n + 1 # 1 /\ (n + 1) - 1 = n
      BY <1>1, <2>2
    <3>2. at[n] \in S /\ P(at[n]) = n
      BY ZenonT(40), <1>11, <3>1
    <3>3. L.next[at[n]] = NULL
      BY SMTT(30), <1>1, <1>2, <1>4, <3>2
    <3> QED BY ZenonT(40), <1>9, <3>1, <3>3
  <2> QED BY ZenonT(40), <2>1, <2>2
<1>13. \A i \in 2..n : at[i] = L.next[at[i - 1]]
  <2> SUFFICES ASSUME NEW i \in 2..n PROVE at[i] = L.next[at[i - 1]]
    BY ZenonT(40)
  <2>1. i \in 1..(N + 1) /\ i # 1 /\ i - 1 \in 1..n
    BY <1>1
  <2>2. at[i - 1] # NULL
    BY ZenonT(40), <1>6, <1>11, <2>1
  <2> QED BY ZenonT(40), <1>9, <2>1, <2>2
<1>14. at[1] = L.head
  BY <1>1, <1>9
<1> QED BY ZenonT(40), <1>11, <1>12, <1>13, <1>14 DEF at, n, P

\* A list that is linked in some order is whole.
LEMMA LinkedIsWhole ==
  ASSUME list \in Lists, NEW r \in Ranks, Orders(r, Nodes), Linked(list, Nodes, r)
  PROVE  ListLinked
<1> DEFINE at == Chain(list)
           n == Size
<1>1. Nodes \in SUBSET Paths /\ n \in Nat
  BY NodesFinite, NAssumption DEF Nodes, Size
<1>2. /\ \A i \in 1..n : at[i] \in Nodes /\ Pos(at[i], Nodes, r) = i
      /\ at[n + 1] = NULL
      /\ \A i \in 2..n : at[i] = list.next[at[i - 1]]
      /\ Nodes # {} => at[1] = list.head
  BY ZenonT(40), <1>1, ChainIs DEF Size
<1>3. \A p \in Nodes : Pos(p, Nodes, r) \in 1..n
  BY ZenonT(40), <1>1, PosOrder DEF Size
<1>4. \A p, q \in Nodes : Pos(p, Nodes, r) = Pos(q, Nodes, r) => p = q
  BY ZenonT(40), <1>1, PosInjective
<1> HIDE DEF at, n
<1>5. {at[i] : i \in 1..n} = Nodes
  <2>1. ASSUME NEW p \in Nodes PROVE \E i \in 1..n : p = at[i]
    BY ZenonT(40), <1>2, <1>3, <1>4
  <2> QED BY ZenonT(40), <1>2, <2>1
<1>6. ASSUME NEW i \in 1..n PROVE list.prev[at[i]] = IF i = 1 THEN NULL ELSE at[i - 1]
  <2>1. CASE i = 1
    <3>1. Nodes # {} /\ at[1] = list.head
      BY ZenonT(40), <1>2, <2>1
    <3> QED BY ZenonT(40), <2>1, <3>1 DEF Linked
  <2>2. CASE i # 1
    <3>1. i \in 2..n /\ i - 1 \in 1..n
      BY <1>1, <2>2
    <3>2. at[i] = list.next[at[i - 1]] /\ at[i - 1] \in Nodes /\ at[i] \in Nodes
      BY ZenonT(40), <1>2, <3>1
    <3>3. at[i] # NULL
      BY <3>2 DEF Nodes, Paths, NULL
    <3> QED BY ZenonT(40), <2>2, <3>2, <3>3 DEF Linked
  <2> QED BY ZenonT(40), <2>1, <2>2
<1> QED BY ZenonT(40), <1>2, <1>5, <1>6 DEF ListLinked, at, n

\* A sorted list has the order and the tail that insert_sorted() relies on.
LEMMA SortedIsOrdered ==
  ASSUME list \in Lists, SortedList(list, Nodes), Nodes # {}
  PROVE  OrderedByPath
<1> DEFINE at == Chain(list)
           n == Size
           r == ByPath
<1>1. Nodes \in SUBSET Paths /\ n \in Nat
  BY NodesFinite, NAssumption DEF Nodes, Size
<1>2. /\ r \in Ranks /\ Orders(r, Nodes) /\ Linked(list, Nodes, r)
      /\ list.tail \in Nodes /\ (\A q \in Nodes : q <= list.tail)
      /\ \A p \in Nodes : p \in Nat
      /\ \A p \in Nodes : list.next[p] # NULL => p < list.next[p]
  BY ZenonT(40), <1>1, SortedFacts DEF SortedList
<1>3. /\ \A i \in 1..n : at[i] \in Nodes /\ Pos(at[i], Nodes, r) = i
      /\ \A i \in 2..n : at[i] = list.next[at[i - 1]]
  BY ZenonT(40), <1>1, <1>2, ChainIs DEF Size
<1>4. Pos(list.tail, Nodes, r) = n /\ n \in 1..n
  <2>1. {q \in Nodes : r[q] <= r[list.tail]} = Nodes
    BY ZenonT(40), <1>2 DEF ByPath, Nodes
  <2>2. Pos(list.tail, Nodes, r) = n
    BY ZenonT(40), <2>1 DEF Pos, Size
  <2>3. Pos(list.tail, Nodes, r) \in 1..n
    BY ZenonT(40), <1>1, <1>2, PosOrder DEF Size
  <2> QED BY ZenonT(40), <2>2, <2>3
<1>5. list.tail = at[n]
  BY SMTT(30), <1>1, <1>2, <1>3, <1>4, PosInjective
<1> HIDE DEF at, n, r
<1>6. ASSUME NEW i \in 1..(n - 1) PROVE at[i] < at[i + 1]
  <2>1. i \in 1..n /\ i + 1 \in 2..n /\ i + 1 \in 1..n /\ (i + 1) - 1 = i
    BY <1>1
  <2>2. at[i + 1] = list.next[at[i]] /\ at[i] \in Nodes /\ at[i + 1] \in Nodes
    BY ZenonT(40), <1>3, <2>1
  <2>3. at[i + 1] # NULL
    BY <2>2 DEF Nodes, Paths, NULL
  <2> QED BY ZenonT(40), <1>2, <2>2, <2>3
<1> QED BY ZenonT(40), <1>5, <1>6 DEF OrderedByPath, at, n

-----------------------------------------------------------------------------
(* insertion_sort_by_level_increasing().                                   *)

\* The nodes that the sort has come to when it is at f.
Done(f, p) == f = NULL \/ p < f

\* The order of the list then: by level and path up to f, by path from f on.
ByLevel(lev, f) == [p \in Paths |-> IF Done(f, p) THEN (N + 1) * lev[p] + p
                                    ELSE (N + 1) * (N + 1) + p]

\* What the ranks of ByLevel compare.
LEMMA ByLevelOrder ==
  ASSUME NEW lev \in [Paths -> 0..N], NEW f \in Paths \cup {NULL}
  PROVE  /\ ByLevel(lev, f) \in Ranks
         /\ \A p, q \in Paths :
              ByLevel(lev, f)[p] <= ByLevel(lev, f)[q] <=>
                IF Done(f, p) /\ Done(f, q) THEN lev[p] < lev[q] \/ (lev[p] = lev[q] /\ p <= q)
                ELSE p <= q
         /\ Orders(ByLevel(lev, f), Paths)
<1> DEFINE r == ByLevel(lev, f)
           m == N + 1
           key(p) == IF Done(f, p) THEN lev[p] ELSE m
<1>1. N \in Nat /\ m \in Nat /\ \A p \in Paths : p \in 1..N
  BY NAssumption DEF Paths
<1>2. \A p \in Paths : r[p] = m * key(p) + p /\ key(p) \in 0..m
  BY <1>1 DEF ByLevel
<1>3. \A p \in Paths : m * key(p) \in Nat /\ r[p] \in Nat
  <2> SUFFICES ASSUME NEW p \in Paths PROVE m * key(p) \in Nat /\ r[p] \in Nat
    BY ZenonT(40)
  <2> DEFINE k == key(p)
  <2>1. k \in Nat /\ r[p] = m * k + p
    BY <1>1, <1>2
  <2> HIDE DEF k, key, m, r
  <2>2. m * k \in Nat
    BY <1>1, <2>1
  <2> QED BY <1>1, <2>1, <2>2 DEF k
<1> HIDE DEF r, m
<1>4. ASSUME NEW p \in Paths, NEW q \in Paths
      PROVE  r[p] <= r[q] <=> key(p) < key(q) \/ (key(p) = key(q) /\ p <= q)
  <2> DEFINE a == key(p)
             b == key(q)
  <2>1. a \in Int /\ b \in Int /\ r[p] = m * a + p /\ r[q] = m * b + q
        /\ m * a \in Nat /\ m * b \in Nat /\ p \in 1..N /\ q \in 1..N /\ m = N + 1
    BY <1>1, <1>2, <1>3 DEF m
  <2> HIDE DEF a, b, key
  <2>2. a < b => m * a + m <= m * b
    BY ZenonT(40), <1>1, <2>1, MultiplesApart
  <2>3. b < a => m * b + m <= m * a
    BY ZenonT(40), <1>1, <2>1, MultiplesApart
  <2>4. a = b => m * a = m * b
    BY ZenonT(40)
  <2> DEFINE x == m * a
             y == m * b
  <2>5. /\ x \in Nat /\ y \in Nat /\ r[p] = x + p /\ r[q] = y + q
        /\ (a < b => x + m <= y) /\ (b < a => y + m <= x) /\ (a = b => x = y)
    BY ZenonT(40), <2>1, <2>2, <2>3, <2>4
  <2> HIDE DEF x, y
  <2>6. r[p] <= r[q] <=> a < b \/ (a = b /\ p <= q)
    BY <1>1, <2>1, <2>5
  <2> QED BY ZenonT(40), <2>6 DEF a, b
<1>5. r \in Ranks
  BY ZenonT(40), <1>3 DEF r, ByLevel, Ranks
<1>6. ASSUME NEW p \in Paths, NEW q \in Paths
      PROVE  r[p] <= r[q] <=>
               IF Done(f, p) /\ Done(f, q) THEN lev[p] < lev[q] \/ (lev[p] = lev[q] /\ p <= q)
               ELSE p <= q
  <2>1. lev[p] \in 0..N /\ lev[q] \in 0..N /\ p \in 1..N /\ q \in 1..N /\ m = N + 1
        /\ (f # NULL => f \in 1..N)
    BY ZenonT(40), <1>1 DEF m, Paths
  <2>2. CASE Done(f, p) /\ Done(f, q)
    BY ZenonT(40), <1>4, <2>2
  <2>3. CASE Done(f, p) /\ ~ Done(f, q)
    BY SMTT(30), <1>1, <1>4, <2>1, <2>3 DEF Done
  <2>4. CASE ~ Done(f, p) /\ Done(f, q)
    BY SMTT(30), <1>1, <1>4, <2>1, <2>4 DEF Done
  <2>5. CASE ~ Done(f, p) /\ ~ Done(f, q)
    BY <1>1, <1>4, <2>1, <2>5 DEF Done
  <2> QED BY ZenonT(40), <2>2, <2>3, <2>4, <2>5
<1>7. Orders(r, Paths)
  <2> SUFFICES ASSUME NEW p \in Paths, NEW q \in Paths, r[p] = r[q] PROVE p = q
    BY ZenonT(40) DEF Orders
  <2>1. key(p) < key(q) \/ (key(p) = key(q) /\ p <= q)
    BY <1>3, <1>4
  <2>2. key(q) < key(p) \/ (key(p) = key(q) /\ q <= p)
    BY <1>3, <1>4
  <2>3. key(p) \in Int /\ key(q) \in Int /\ p \in Int /\ q \in Int
    BY <1>1, <1>2
  <2> HIDE DEF key
  <2> QED BY <2>1, <2>2, <2>3
<1> QED BY ZenonT(40), <1>5, <1>6, <1>7 DEF r

\* The equation of the recursive function Back.
BackEq(f, L, key) == f = [b \in Paths |-> IF Passes(L, b, key) THEN f[L.prev[b]] ELSE b]

\* Going back from c, the inner loop stops at the last node whose level is not higher.
LEMMA BackStops ==
  ASSUME NEW L \in Lists, NEW S \in SUBSET Paths, NEW r \in Ranks, Orders(r, S), Linked(L, S, r),
         NEW key \in Nat, NEW c \in S, L.level[L.head] <= key,
         \A p \in Paths \ S : L.level[p] = 0
  PROVE  LET b == Back(L, key)[c]
         IN  /\ b \in S /\ r[b] <= r[c] /\ L.level[b] <= key
             /\ \A q \in S : r[q] <= r[b] \/ r[c] < r[q] \/ key < L.level[q]
<1> DEFINE Stops(b, p) == /\ b \in S /\ r[b] <= r[p] /\ L.level[b] <= key
                          /\ \A q \in S : r[q] <= r[b] \/ r[p] < r[q] \/ key < L.level[q]
<1>1. /\ \A p \in S : r[p] \in Nat /\ p \in Paths
      /\ \A p \in Paths : L.level[p] \in Nat
  BY NAssumption DEF Ranks, Lists
<1>2. L.head \in S /\ \A q \in S : r[L.head] <= r[q]
  BY ZenonT(40) DEF Linked
<1>3. ASSUME NEW p \in S, Passes(L, p, key)
      PROVE  /\ L.prev[p] \in S /\ L.prev[p] \in Paths /\ r[L.prev[p]] < r[p] /\ key < L.level[p]
             /\ \A q \in S : r[q] <= r[L.prev[p]] \/ r[p] <= r[q]
  <2>1. p # L.head /\ key < L.level[p]
    BY ZenonT(40), <1>1, <1>3 DEF Passes
  <2>2. L.prev[p] \in S /\ L.next[L.prev[p]] = p /\ p # NULL
    BY <2>1 DEF Linked, NULL, Paths
  <2>3. IsNext(p, L.prev[p], S, r)
    BY ZenonT(40), <2>2 DEF Linked
  <2> QED BY ZenonT(40), <1>1, <2>1, <2>2, <2>3 DEF IsNext
<1>4. ASSUME NEW p \in S, ~ Passes(L, p, key) PROVE Stops(p, p) /\ L.level[p] <= key
  <2>1. L.level[p] <= key
    BY SMTT(30), <1>1, <1>4 DEF Passes
  <2> QED BY <1>1, <2>1
<1>5. ASSUME NEW p \in S, Passes(L, p, key), NEW b PROVE Stops(b, L.prev[p]) <=> Stops(b, p)
  <2>1. /\ L.prev[p] \in S /\ r[L.prev[p]] < r[p] /\ key < L.level[p] /\ r[p] \in Nat /\ r[L.prev[p]] \in Nat
        /\ \A q \in S : r[q] <= r[L.prev[p]] \/ r[p] <= r[q]
        /\ \A q \in S : r[q] = r[p] => q = p
    BY ZenonT(40), <1>1, <1>3, <1>5 DEF Orders
  <2>2. ASSUME Stops(b, L.prev[p]) PROVE Stops(b, p)
    <3>1. b \in S /\ r[b] <= r[p] /\ L.level[b] <= key
      BY SMTT(30), <1>1, <2>1, <2>2
    <3>2. ASSUME NEW q \in S PROVE r[q] <= r[b] \/ r[p] < r[q] \/ key < L.level[q]
      BY <1>1, <2>1, <2>2
    <3> QED BY ZenonT(40), <3>1, <3>2
  <2>3. ASSUME Stops(b, p) PROVE Stops(b, L.prev[p])
    <3>1. b \in S /\ r[b] <= r[L.prev[p]] /\ L.level[b] <= key
      <4>1. b \in S /\ r[b] <= r[p] /\ L.level[b] <= key /\ L.level[b] \in Nat /\ L.level[p] \in Nat
        BY ZenonT(40), <1>1, <2>3
      <4>2. b # p
        BY SMTT(30), <2>1, <4>1
      <4> QED BY SMTT(30), <1>1, <2>1, <4>1, <4>2
    <3>2. ASSUME NEW q \in S PROVE r[q] <= r[b] \/ r[L.prev[p]] < r[q] \/ key < L.level[q]
      BY <1>1, <2>1, <2>3
    <3> QED BY ZenonT(40), <3>1, <3>2
  <2> QED BY ZenonT(40), <2>2, <2>3
<1>6. ~ Passes(L, L.head, key)
  BY ZenonT(40) DEF Passes
<1>7. ASSUME NEW p \in S PROVE \E b : Stops(b, p)
  <2> DEFINE Bad == {n \in Nat : \E q \in S : r[q] = n /\ ~ \E b : Stops(b, q)}
  <2>1. Bad = {}
    <3> SUFFICES ASSUME Bad # {} PROVE FALSE
      BY ZenonT(40)
    <3>1. PICK n \in Bad : \A m \in Bad : n <= m
      <4>1. Bad \subseteq Nat
        BY ZenonT(40)
      <4> HIDE DEF Bad
      <4> QED BY ZenonT(40), <4>1, LeastNat
    <3>2. PICK q \in S : r[q] = n /\ ~ \E b : Stops(b, q)
      BY ZenonT(40) DEF Stops
    <3> HIDE DEF Stops
    <3>3. Passes(L, q, key)
      BY ZenonT(40), <1>4, <3>2
    <3>4. L.prev[q] \in S /\ r[L.prev[q]] < r[q] /\ ~ \E b : Stops(b, L.prev[q])
      BY ZenonT(40), <1>3, <1>5, <3>2, <3>3
    <3>5. r[L.prev[q]] \in Bad
      BY ZenonT(40), <1>1, <3>4
    <3>6. n <= r[L.prev[q]]
      BY ZenonT(40), <3>1, <3>5
    <3> HIDE DEF Bad
    <3> QED BY <1>1, <3>2, <3>4, <3>6
  <2> HIDE DEF Stops
  <2> QED BY ZenonT(40), <1>1, <2>1
<1>8. ASSUME NEW p \in S, NEW b, NEW d, Stops(b, p), Stops(d, p) PROVE b = d
  <2>1. r[b] <= r[d] /\ r[d] <= r[b] /\ b \in S /\ d \in S
    BY <1>1, <1>8
  <2> QED BY <1>1, <2>1 DEF Orders
<1> DEFINE g == [p \in Paths |-> IF p \in S THEN CHOOSE b : Stops(b, p) ELSE p]
<1>9. BackEq(g, L, key)
  <2>1. ASSUME NEW p \in S PROVE Stops(g[p], p)
    <3> HIDE DEF Stops
    <3>1. p \in Paths
      BY ZenonT(40)
    <3> QED BY ZenonT(40), <1>7, <3>1
  <2>2. ASSUME NEW p \in Paths PROVE g[p] = IF Passes(L, p, key) THEN g[L.prev[p]] ELSE p
    <3>1. CASE p \in S /\ Passes(L, p, key)
      <4> HIDE DEF Stops, g
      <4>1. Stops(g[p], p) /\ Stops(g[L.prev[p]], p)
        BY ZenonT(40), <1>3, <1>5, <2>1, <3>1
      <4> QED BY ZenonT(40), <1>8, <3>1, <4>1
    <3>2. CASE p \in S /\ ~ Passes(L, p, key)
      <4> HIDE DEF Stops, g
      <4> QED BY ZenonT(40), <1>4, <1>8, <2>1, <3>2
    <3>3. CASE p \notin S
      <4>1. ~ Passes(L, p, key)
        BY <3>3 DEF Passes
      <4> HIDE DEF Stops
      <4> QED BY ZenonT(40), <3>3, <4>1
    <3> QED BY ZenonT(40), <3>1, <3>2, <3>3
  <2>3. g = [p \in Paths |-> g[p]]
    OBVIOUS
  <2> HIDE DEF g
  <2> QED BY ZenonT(40), <2>2, <2>3 DEF BackEq
<1> DEFINE f == Back(L, key)
<1>10. BackEq(f, L, key)
  <2>1. f = CHOOSE h : BackEq(h, L, key)
    BY ZenonT(40) DEF Back, BackEq
  <2> HIDE DEF f, g
  <2> QED BY ZenonT(40), <1>9, <2>1
<1> HIDE DEF f, g
<1>11. \A p \in Paths : f[p] = IF Passes(L, p, key) THEN f[L.prev[p]] ELSE p
  BY ZenonT(40), <1>10 DEF BackEq
<1> DEFINE Bad == {n \in Nat : \E q \in S : r[q] = n /\ ~ Stops(f[q], q)}
<1>12. Bad = {}
  <2> SUFFICES ASSUME Bad # {} PROVE FALSE
    BY ZenonT(40)
  <2>1. PICK n \in Bad : \A m \in Bad : n <= m
    <3>1. Bad \subseteq Nat
      BY ZenonT(40)
    <3> HIDE DEF Bad
    <3> QED BY ZenonT(40), <3>1, LeastNat
  <2>2. PICK q \in S : r[q] = n /\ ~ Stops(f[q], q)
    BY ZenonT(40) DEF Stops
  <2> HIDE DEF Stops
  <2>3. Passes(L, q, key)
    BY ZenonT(40), <1>1, <1>4, <1>11, <2>2
  <2>4. L.prev[q] \in S /\ r[L.prev[q]] < r[q] /\ f[q] = f[L.prev[q]]
    BY ZenonT(40), <1>1, <1>3, <1>11, <2>3
  <2>5. ~ Stops(f[L.prev[q]], L.prev[q])
    BY ZenonT(40), <1>5, <2>2, <2>3, <2>4
  <2>6. r[L.prev[q]] \in Bad
    BY ZenonT(40), <1>1, <2>4, <2>5
  <2>7. n <= r[L.prev[q]]
    BY ZenonT(40), <2>1, <2>6
  <2> HIDE DEF Bad
  <2> QED BY SMTT(30), <1>1, <2>2, <2>4, <2>7
<1>13. Stops(f[c], c)
  <2> HIDE DEF Stops
  <2> QED BY ZenonT(40), <1>1, <1>12
<1> QED BY ZenonT(40), <1>13 DEF f

\* What the sort finds: the root is the only entry of the first level, and only the
\* nodes of the list have a level.
Levelled(lev, S) ==
  /\ root \in S /\ lev[root] = 1
  /\ \A p \in S \ {root} : 1 < lev[p]
  /\ \A p \in Paths \ S : lev[p] = 0

\* One round of the sort moves the node to where its level belongs, behind the entries
\* of that level that are there, and comes to the next one.
LEMMA SortKeeps ==
  ASSUME NEW L \in Lists, NEW S \in SUBSET Paths, Levelled(L.level, S),
         NEW f \in S \ {root}, Linked(L, S, ByLevel(L.level, f))
  PROVE  /\ SortNode(L, f) \in Lists /\ SortNode(L, f).level = L.level
         /\ Linked(SortNode(L, f), S, ByLevel(L.level, L.next[f]))
         /\ L.next[f] \in (S \ {root}) \cup {NULL}
<1> DEFINE lev == L.level
           r == ByLevel(lev, f)
           n == L.next[f]
           s == ByLevel(lev, n)
           c == L.prev[f]
           b == Back(L, lev[f])[c]
           U == Unlinked(L, f)
           T == S \ {f}
<1>1. /\ lev \in [Paths -> 0..N] /\ N \in Nat /\ n \in Paths \cup {NULL} /\ NULL = 0
      /\ \A p \in Paths : p \in Nat /\ p >= 1
      /\ \A p \in S : p \in Paths /\ lev[p] \in Nat
      /\ root \in S /\ lev[root] = 1 /\ root = 1 /\ f \in S /\ f # root
  BY SMTT(30), NAssumption DEF Lists, Paths, NULL, Levelled, root
<1>2. /\ r \in Ranks /\ Orders(r, Paths)
      /\ \A p, q \in Paths : r[p] <= r[q] <=>
           IF Done(f, p) /\ Done(f, q) THEN lev[p] < lev[q] \/ (lev[p] = lev[q] /\ p <= q)
           ELSE p <= q
  BY ZenonT(40), <1>1, ByLevelOrder
<1>3. /\ s \in Ranks /\ Orders(s, Paths)
      /\ \A p, q \in Paths : s[p] <= s[q] <=>
           IF Done(n, p) /\ Done(n, q) THEN lev[p] < lev[q] \/ (lev[p] = lev[q] /\ p <= q)
           ELSE p <= q
  BY ZenonT(40), <1>1, ByLevelOrder
<1>4. \A p \in Paths : r[p] \in Nat /\ s[p] \in Nat
  BY ZenonT(40), <1>2, <1>3 DEF Ranks
<1> HIDE DEF lev, r, s, n
<1>5. /\ Linked(L, S, r) /\ Orders(r, S) /\ Orders(s, S) /\ Orders(s, T)
  BY ZenonT(40), <1>2, <1>3 DEF Orders, r, lev
<1>6. L.head = root
  <2>1. L.head \in S /\ r[L.head] <= r[root]
    BY ZenonT(40), <1>1, <1>5 DEF Linked
  <2>2. CASE L.head # root
    <3> DEFINE h == L.head
    <3>1. h \in S \ {root} /\ h \in Paths /\ r[h] <= r[root]
      BY ZenonT(40), <2>1, <2>2
    <3> HIDE DEF h
    <3>2. 1 < lev[h] /\ h \in Nat /\ h > 1 /\ lev[h] \in Nat
      BY <1>1, <3>1 DEF Levelled, lev
    <3>3. Done(f, root) /\ root \in Paths
      BY SMTT(30), <1>1 DEF Done
    <3> QED BY SMTT(30), <1>1, <1>2, <3>1, <3>2, <3>3
  <2> QED BY ZenonT(40), <2>2
<1>7. /\ c \in S /\ L.next[c] = f /\ IsNext(f, c, S, r) /\ IsNext(n, f, S, r)
  <2>1. c \in S /\ L.next[c] = f
    BY ZenonT(40), <1>1, <1>5, <1>6 DEF Linked
  <2> QED BY ZenonT(40), <1>1, <1>5, <2>1 DEF Linked, n
<1>8. /\ r[c] < r[f] /\ \A q \in S : r[q] <= r[c] \/ r[f] <= r[q]
  BY SMTT(30), <1>1, <1>7 DEF IsNext
<1>9. ASSUME NEW q \in S PROVE Done(f, q) <=> r[q] <= r[c]
  <2>1. ~ Done(f, f) /\ (Done(f, q) <=> q < f) /\ f # NULL
    BY <1>1 DEF Done
  <2>2. r[f] <= r[q] <=> f <= q
    BY ZenonT(40), <1>1, <1>2, <2>1
  <2>3. q < f <=> ~ (f <= q)
    BY SMTT(30), <1>1
  <2>4. r[c] \in Nat /\ r[f] \in Nat /\ r[q] \in Nat
    BY ZenonT(40), <1>1, <1>4, <1>7
  <2>5. r[q] <= r[c] <=> ~ (r[f] <= r[q])
    BY <1>8, <2>4
  <2> QED BY ZenonT(40), <2>1, <2>2, <2>3, <2>5
<1>10. ASSUME NEW q \in S PROVE Done(n, q) <=> Done(f, q) \/ q = f
  <2>1. ~ Done(f, f) /\ (Done(f, q) <=> q < f) /\ f # NULL
    BY <1>1 DEF Done
  <2>2. r[f] <= r[q] <=> f <= q
    BY ZenonT(40), <1>1, <1>2, <2>1
  <2>3. CASE n = NULL
    <3>1. r[q] <= r[f]
      BY ZenonT(40), <1>7, <2>3 DEF IsNext
    <3>2. q <= f
      BY ZenonT(40), <1>1, <1>2, <2>1, <3>1
    <3> QED BY SMTT(30), <1>1, <2>1, <2>3, <3>2 DEF Done
  <2>4. CASE n # NULL
    <3>1. n \in S /\ r[f] < r[n] /\ (r[q] <= r[f] \/ r[n] <= r[q])
      BY ZenonT(40), <1>7, <2>4 DEF IsNext
    <3>2. f < n /\ ~ Done(f, n)
      <4>1. f <= n
        BY SMTT(30), <1>1, <1>2, <1>4, <2>1, <3>1
      <4>2. f # n
        BY SMTT(30), <1>1, <1>4, <3>1
      <4> QED BY SMTT(30), <1>1, <3>1, <4>1, <4>2 DEF Done
    <3>3. r[n] <= r[q] <=> n <= q
      BY ZenonT(40), <1>1, <1>2, <3>1, <3>2
    <3>4. r[q] <= r[f] <=> q <= f
      BY ZenonT(40), <1>1, <1>2, <2>1
    <3> QED BY SMTT(30), <1>1, <2>1, <2>4, <3>1, <3>2, <3>3, <3>4 DEF Done
  <2> QED BY ZenonT(40), <2>3, <2>4
<1>11. n \in (S \ {root}) \cup {NULL}
  <2>1. n # NULL => n \in S /\ r[f] < r[n]
    BY ZenonT(40), <1>7 DEF IsNext
  <2>2. r[root] <= r[f]
    BY ZenonT(40), <1>1, <1>5, <1>6 DEF Linked
  <2> QED BY SMTT(30), <1>1, <1>4, <2>1, <2>2
<1>12. /\ b \in S /\ r[b] <= r[c] /\ lev[b] <= lev[f]
       /\ \A q \in S : r[q] <= r[b] \/ r[c] < r[q] \/ lev[f] < lev[q]
  <2>1. lev[f] \in Nat /\ lev[L.head] <= lev[f] /\ \A p \in Paths \ S : lev[p] = 0
    BY SMTT(30), <1>1, <1>6 DEF Levelled, lev
  <2> QED BY ZenonT(40), <1>2, <1>5, <1>7, <2>1, BackStops DEF lev
<1>13. U \in Lists /\ U.level = lev /\ Linked(U, T, r)
  <2>1. f # L.head
    BY ZenonT(40), <1>1, <1>6
  <2> QED BY ZenonT(40), <1>1, <1>2, <1>5, <1>7, <2>1, UnlinkedFields, RemoveLinked DEF lev
<1> HIDE DEF b, U
<1>14. Linked(U, T, s)
  <2>1. ASSUME NEW p \in T, NEW q \in T PROVE r[p] <= r[q] <=> s[p] <= s[q]
    <3>1. (Done(n, p) <=> Done(f, p)) /\ (Done(n, q) <=> Done(f, q))
      BY ZenonT(40), <1>10
    <3> QED BY ZenonT(40), <1>1, <1>2, <1>3, <3>1
  <2>2. T \in SUBSET Paths
    BY ZenonT(40)
  <2> QED BY ZenonT(40), <1>2, <1>3, <1>13, <2>1, <2>2, RankedAlike
<1>15. b \in T /\ Done(f, b) /\ b < f /\ f \notin T
  <2>1. Done(f, b) /\ b \in S
    BY ZenonT(40), <1>9, <1>12
  <2>2. b < f
    BY SMTT(30), <1>1, <2>1 DEF Done
  <2> QED BY <1>1, <2>1, <2>2
<1>16. s[b] < s[f]
  <2>1. Done(n, b) /\ Done(n, f)
    BY ZenonT(40), <1>1, <1>10, <1>15
  <2>2. ~ (s[f] <= s[b])
    BY SMTT(30), <1>1, <1>3, <1>12, <1>15, <2>1
  <2> QED BY SMTT(30), <1>1, <1>4, <1>12, <2>2
<1>17. ASSUME NEW q \in T PROVE s[q] <= s[b] \/ s[f] < s[q]
  <2>1. Done(n, f) /\ Done(n, b) /\ q \in S /\ q # f /\ (Done(n, q) <=> Done(f, q))
    BY ZenonT(40), <1>1, <1>10, <1>15
  <2>2. CASE Done(f, q)
    <3>1. r[q] <= r[c]
      BY ZenonT(40), <1>9, <2>1, <2>2
    <3>2. r[q] <= r[b] \/ lev[f] < lev[q]
      <4>1. r[c] \in Nat /\ r[q] \in Nat
        BY ZenonT(40), <1>1, <1>4, <1>7, <2>1
      <4>2. ~ (r[c] < r[q])
        BY SMTT(30), <3>1, <4>1
      <4> QED BY ZenonT(40), <1>12, <2>1, <4>2
    <3>3. CASE r[q] <= r[b]
      BY ZenonT(40), <1>1, <1>2, <1>3, <1>12, <1>15, <2>1, <2>2, <3>3
    <3>4. CASE lev[f] < lev[q]
      <4>1. ~ (s[q] <= s[f])
        BY SMTT(30), <1>1, <1>3, <2>1, <2>2, <3>4
      <4> QED BY SMTT(30), <1>1, <1>4, <2>1, <4>1
    <3> QED BY ZenonT(40), <3>2, <3>3, <3>4
  <2>3. CASE ~ Done(f, q)
    <3>1. ~ (q <= f)
      BY SMTT(30), <1>1, <2>1, <2>3 DEF Done
    <3>2. ~ (s[q] <= s[f])
      BY ZenonT(40), <1>1, <1>3, <2>1, <2>3, <3>1
    <3> QED BY <1>1, <1>4, <2>1, <3>2
  <2> QED BY ZenonT(40), <2>2, <2>3
<1>18. SortNode(L, f) = InsertAfter(U, f, b)
  BY ZenonT(40) DEF SortNode, U, b, lev
<1>19. Linked(InsertAfter(U, f, b), S, s)
  <2>1. T \in SUBSET Paths /\ f \in Paths \ T /\ T \cup {f} = S
    BY ZenonT(40), <1>1
  <2>2. Linked(InsertAfter(U, f, b), T \cup {f}, s)
    BY ZenonT(40), <1>3, <1>5, <1>13, <1>14, <1>15, <1>16, <1>17, <2>1, InsertLinked
  <2> QED BY ZenonT(40), <2>1, <2>2
<1>20. InsertAfter(U, f, b) \in Lists /\ InsertAfter(U, f, b).level = lev
  <2>1. b \in Paths /\ f \in Paths /\ b # f
    BY ZenonT(40), <1>1, <1>15
  <2> QED BY SMTT(30), <1>13, <2>1, InsertAfterFields
<1> QED BY ZenonT(40), <1>11, <1>18, <1>19, <1>20 DEF s, n, lev

-----------------------------------------------------------------------------
(* The tree.                                                               *)

\* A tree under the root in which a path comes behind its parent.
Tree(par) == par \in [Paths \ {root} -> Paths] /\ \A p \in Paths \ {root} : par[p] < p

\* The equation of the recursive function Depths.
DepthEq(d, par) == d = [p \in Paths |-> IF p = root THEN 1 ELSE d[par[p]] + 1]

\* Every path has a depth: the root 1, the others one more than their parent, and none
\* more than there are paths.
LEMMA DepthsAre ==
  ASSUME NEW par, Tree(par)
  PROVE  /\ Depths(par) \in [Paths -> 0..N]
         /\ Depths(par)[root] = 1
         /\ \A p \in Paths \ {root} : Depths(par)[p] = Depths(par)[par[p]] + 1 /\ 1 < Depths(par)[p]
<1>1. /\ N \in Nat /\ N >= 1 /\ root = 1 /\ Paths = 1..N
      /\ \A p \in 1..N : p # 1 => par[p] \in 1..N /\ par[p] < p
  BY NAssumption DEF root, Paths, Tree
<1> DEFINE Eq(f, p) == f[p] = IF p = 1 THEN 1 ELSE f[par[p]] + 1
           Bad == {n \in 1..N : ~ \E f : \A p \in 1..n : Eq(f, p)}
<1>2. Bad = {}
  <2> SUFFICES ASSUME Bad # {} PROVE FALSE
    BY ZenonT(40)
  <2>1. PICK n \in Bad : \A m \in Bad : n <= m
    <3>1. Bad \subseteq Nat
      BY <1>1
    <3> HIDE DEF Bad
    <3> QED BY ZenonT(40), <3>1, LeastNat
  <2>2. n \in 1..N /\ ~ \E f : \A p \in 1..n : Eq(f, p)
    BY ZenonT(40)
  <2>3. CASE n = 1
    <3> DEFINE f == [p \in 1..1 |-> 1]
    <3>1. \A p \in 1..n : Eq(f, p)
      BY <2>3
    <3> QED BY ZenonT(40), <2>2, <3>1
  <2>4. CASE n # 1
    <3>1. n - 1 \in 1..N /\ ~ (n <= n - 1)
      BY <1>1, <2>2, <2>4
    <3>2. n - 1 \notin Bad
      <4> HIDE DEF Bad
      <4> QED BY ZenonT(40), <2>1, <3>1
    <3>3. PICK f : \A p \in 1..(n - 1) : Eq(f, p)
      BY ZenonT(40), <3>1, <3>2
    <3> DEFINE g == [p \in 1..n |-> IF p = n THEN f[par[n]] + 1 ELSE f[p]]
    <3>4. ASSUME NEW p \in 1..n PROVE Eq(g, p)
      <4>1. CASE p = n
        <5>1. par[n] \in 1..N /\ par[n] < n /\ p # 1
          BY ZenonT(40), <1>1, <2>2, <2>4, <4>1
        <5>2. par[n] \in 1..n /\ par[n] # n
          BY SMTT(30), <1>1, <2>2, <5>1
        <5>3. g[par[n]] = f[par[n]] /\ g[p] = f[par[n]] + 1
          BY ZenonT(40), <4>1, <5>2
        <5> QED BY ZenonT(40), <4>1, <5>1, <5>3
      <4>2. CASE p # n /\ p # 1
        <5>1. p \in 1..(n - 1) /\ p \in 1..N
          BY SMTT(30), <1>1, <2>2, <4>2
        <5>2. par[p] \in 1..n /\ par[p] # n
          BY SMTT(30), <1>1, <2>2, <4>2, <5>1
        <5>3. f[p] = f[par[p]] + 1
          BY ZenonT(40), <3>3, <4>2, <5>1
        <5> QED BY ZenonT(40), <4>2, <5>2, <5>3
      <4>3. CASE p # n /\ p = 1
        <5>1. p \in 1..(n - 1)
          BY <1>1, <2>2, <4>3
        <5>2. f[p] = 1
          BY ZenonT(40), <3>3, <4>3, <5>1
        <5> QED BY ZenonT(40), <4>3, <5>2
      <4> QED BY ZenonT(40), <4>1, <4>2, <4>3
    <3> HIDE DEF g, Eq, Bad
    <3> QED BY ZenonT(40), <2>2, <3>4
  <2> QED BY ZenonT(40), <2>3, <2>4
<1>3. \E g : DepthEq(g, par)
  <2>1. N \notin Bad /\ N \in 1..N
    <3> HIDE DEF Bad
    <3> QED BY <1>1, <1>2
  <2>2. PICK f : \A p \in 1..N : Eq(f, p)
    BY ZenonT(40), <2>1
  <2> DEFINE g == [p \in Paths |-> f[p]]
  <2>3. \A p \in Paths : g[p] = IF p = root THEN 1 ELSE g[par[p]] + 1
    BY ZenonT(40), <1>1, <2>2
  <2>4. g = [p \in Paths |-> g[p]]
    BY ZenonT(40)
  <2> HIDE DEF g
  <2>5. DepthEq(g, par)
    BY ZenonT(40), <2>3, <2>4 DEF DepthEq
  <2> QED BY ZenonT(40), <2>5
<1> HIDE DEF Bad, Eq
<1> DEFINE d == Depths(par)
<1>4. DepthEq(d, par)
  <2>1. d = CHOOSE f : DepthEq(f, par)
    BY ZenonT(40) DEF Depths, DepthEq
  <2> HIDE DEF d
  <2> QED BY ZenonT(40), <1>3, <2>1
<1> HIDE DEF d
<1>5. d = [p \in Paths |-> IF p = root THEN 1 ELSE d[par[p]] + 1]
  BY ZenonT(40), <1>4 DEF DepthEq
<1>6. d[root] = 1 /\ \A p \in Paths \ {root} : d[p] = d[par[p]] + 1
  BY <1>1, <1>5
<1> DEFINE Worse == {p \in Paths : ~ (d[p] \in 1..p)}
<1>7. Worse = {}
  <2> SUFFICES ASSUME Worse # {} PROVE FALSE
    BY ZenonT(40)
  <2>1. PICK p \in Worse : \A q \in Worse : p <= q
    <3>1. Worse \subseteq Nat
      BY <1>1
    <3> HIDE DEF Worse
    <3> QED BY ZenonT(40), <3>1, LeastNat
  <2>2. p \in Paths /\ ~ (d[p] \in 1..p) /\ p # root
    BY <1>1, <1>6
  <2>3. par[p] \in Paths /\ par[p] < p /\ d[p] = d[par[p]] + 1
    BY ZenonT(40), <1>1, <1>6, <2>2
  <2>4. par[p] \notin Worse
    <3> HIDE DEF Worse
    <3> QED BY SMTT(30), <1>1, <2>1, <2>2, <2>3
  <2>5. d[par[p]] \in 1..par[p]
    BY ZenonT(40), <2>3, <2>4
  <2> HIDE DEF Worse
  <2> QED BY SMTT(30), <1>1, <2>2, <2>3, <2>5
<1>8. \A p \in Paths : d[p] \in 1..p
  BY ZenonT(40), <1>7
<1> HIDE DEF Worse
<1>9. d \in [Paths -> 0..N]
  <2>1. \A p \in Paths : d[p] \in 0..N
    BY SMTT(30), <1>1, <1>8
  <2> QED BY ZenonT(40), <1>5, <2>1
<1>10. ASSUME NEW p \in Paths \ {root} PROVE 1 < d[p]
  <2>1. par[p] \in Paths
    BY ZenonT(40), <1>1
  <2>2. d[par[p]] \in 1..par[p] /\ par[p] \in Nat
    BY <1>1, <1>8, <2>1
  <2> QED BY <1>6, <2>2
<1> QED BY ZenonT(40), <1>6, <1>9, <1>10 DEF d
=============================================================================
