-------------------------- MODULE ParDirListProofs --------------------------
(***************************************************************************)
(* Theorems about ParDirList, for every tree, every keyword, every size of *)
(* the buffer and every text.                                              *)
(***************************************************************************)
EXTENDS ParDirList, DirListProofs

-----------------------------------------------------------------------------
(* What a search counts.                                                   *)

\* fgets() reads at least one character and at most all that are left.
LEMMA PieceFacts ==
  ASSUME NEW t, Len(t) \in Nat, NEW i \in 1..Len(t)
  PROVE  /\ PieceEnd(t, i) \in Piece(t, i) /\ PieceEnd(t, i) \in i..Len(t)
         /\ \A k \in Piece(t, i) : PieceEnd(t, i) <= k
<1> DEFINE P == Piece(t, i)
<1>1. P \subseteq Nat /\ P # {} /\ P \subseteq i..Len(t)
  <2>1. Len(t) \in P
    BY DEF Piece
  <2>2. P \subseteq i..Len(t)
    BY ZenonT(40) DEF Piece
  <2> QED BY <2>1, <2>2
<1> HIDE DEF P
<1>2. \E j \in P : \A k \in P : j <= k
  BY ZenonT(40), <1>1, LeastNat
<1>3. PieceEnd(t, i) = CHOOSE j \in P : \A k \in P : j <= k
  BY ZenonT(40) DEF PieceEnd, P
<1>4. PieceEnd(t, i) \in P /\ \A k \in P : PieceEnd(t, i) <= k
  BY ZenonT(40), <1>2, <1>3
<1> QED BY ZenonT(40), <1>1, <1>4 DEF P

\* The equation of the recursive function CountFrom.
CountEq(f, t) ==
  f = [i \in 1..(Len(t) + 1) |->
         IF i > Len(t) THEN 0
         ELSE Cardinality(Words(t, i, PieceEnd(t, i))) + f[PieceEnd(t, i) + 1]]

\* CountFrom is what its equation says.
LEMMA CountsByEquation ==
  ASSUME NEW t, Len(t) \in Nat
  PROVE  /\ CountFrom(t)[Len(t) + 1] = 0
         /\ \A i \in 1..Len(t) :
              CountFrom(t)[i] = Cardinality(Words(t, i, PieceEnd(t, i))) + CountFrom(t)[PieceEnd(t, i) + 1]
<1> DEFINE n == Len(t)
           C(i) == Cardinality(Words(t, i, PieceEnd(t, i)))
           e(i) == PieceEnd(t, i) + 1
           Eq(f, i) == f[i] = IF i > n THEN 0 ELSE C(i) + f[e(i)]
           Bad == {m \in 1..(n + 1) : ~ \E f : \A i \in m..(n + 1) : Eq(f, i)}
<1>1. n \in Nat /\ \A i \in 1..n : e(i) \in (i + 1)..(n + 1)
  <2> SUFFICES ASSUME NEW i \in 1..n PROVE e(i) \in (i + 1)..(n + 1)
    BY ZenonT(40)
  <2>1. PieceEnd(t, i) \in i..n
    BY ZenonT(40), PieceFacts
  <2> QED BY <2>1
<1> HIDE DEF n, C, e
<1>2. Bad = {}
  <2> SUFFICES ASSUME Bad # {} PROVE FALSE
    BY ZenonT(40)
  <2>1. PICK m \in Bad : \A k \in Bad : k <= m
    <3>1. Bad \subseteq 0..(n + 1) /\ n + 1 \in Nat
      BY <1>1
    <3> HIDE DEF Bad
    <3> QED BY ZenonT(40), <3>1, GreatestNat
  <2>2. m \in 1..(n + 1) /\ ~ \E f : \A i \in m..(n + 1) : Eq(f, i)
    BY ZenonT(40)
  <2>3. CASE m = n + 1
    <3> DEFINE f == [i \in 1..(n + 1) |-> 0]
    <3>1. \A i \in m..(n + 1) : Eq(f, i)
      <4>1. \A i \in m..(n + 1) : i \in 1..(n + 1) /\ i > n
        BY SMTT(30), <1>1, <2>2, <2>3
      <4> QED BY ZenonT(40), <4>1
    <3> QED BY ZenonT(40), <2>2, <3>1
  <2>4. CASE m # n + 1
    <3>1. m + 1 \in 1..(n + 1) /\ ~ (m + 1 <= m) /\ m \in 1..n
      BY SMTT(30), <1>1, <2>2, <2>4
    <3>2. m + 1 \notin Bad
      <4> HIDE DEF Bad
      <4> QED BY ZenonT(40), <2>1, <3>1
    <3>3. PICK f : \A i \in (m + 1)..(n + 1) : Eq(f, i)
      BY ZenonT(40), <3>1, <3>2
    <3> DEFINE g == [i \in 1..(n + 1) |-> IF i = m THEN C(m) + f[e(m)] ELSE f[i]]
    <3>4. ASSUME NEW i \in m..(n + 1) PROVE Eq(g, i)
      <4>1. CASE i = m
        <5>1. e(m) \in 1..(n + 1) /\ e(m) # m /\ ~ (m > n)
          BY SMTT(30), <1>1, <3>1
        <5>2. g[m] = C(m) + f[e(m)] /\ g[e(m)] = f[e(m)]
          BY ZenonT(40), <2>2, <5>1
        <5> QED BY ZenonT(40), <4>1, <5>1, <5>2
      <4>2. CASE i # m /\ i <= n
        <5>1. i \in (m + 1)..(n + 1) /\ i \in 1..n /\ ~ (i > n) /\ i \in 1..(n + 1)
          BY SMTT(30), <1>1, <2>2, <4>2
        <5>2. e(i) \in 1..(n + 1) /\ e(i) # m
          BY SMTT(30), <1>1, <3>1, <5>1
        <5>3. f[i] = C(i) + f[e(i)]
          BY ZenonT(40), <3>3, <5>1
        <5>4. g[i] = f[i] /\ g[e(i)] = f[e(i)]
          BY ZenonT(40), <4>2, <5>1, <5>2
        <5> QED BY ZenonT(40), <5>1, <5>3, <5>4
      <4>3. CASE i # m /\ ~ (i <= n)
        <5>1. i \in (m + 1)..(n + 1) /\ i > n /\ i \in 1..(n + 1)
          BY SMTT(30), <1>1, <2>2, <4>3
        <5>2. f[i] = 0
          BY ZenonT(40), <3>3, <5>1
        <5>3. g[i] = f[i]
          BY ZenonT(40), <4>3, <5>1
        <5> QED BY ZenonT(40), <5>1, <5>2, <5>3
      <4> QED BY ZenonT(40), <4>1, <4>2, <4>3
    <3> HIDE DEF g, Eq, Bad
    <3> QED BY ZenonT(40), <2>2, <3>4
  <2> QED BY ZenonT(40), <2>3, <2>4
<1>3. \E g : CountEq(g, t)
  <2>1. 1 \notin Bad /\ 1 \in 1..(n + 1)
    <3> HIDE DEF Bad
    <3> QED BY SMTT(30), <1>1, <1>2
  <2>2. PICK f : \A i \in 1..(n + 1) : Eq(f, i)
    BY ZenonT(40), <2>1
  <2> DEFINE g == [i \in 1..(n + 1) |-> f[i]]
  <2>3. ASSUME NEW i \in 1..(n + 1) PROVE g[i] = IF i > n THEN 0 ELSE C(i) + g[e(i)]
    <3>1. CASE i > n
      BY ZenonT(40), <2>2, <3>1
    <3>2. CASE ~ (i > n)
      <4>1. e(i) \in 1..(n + 1)
        BY SMTT(30), <1>1, <3>2
      <4> QED BY ZenonT(40), <2>2, <3>2, <4>1
    <3> QED BY ZenonT(40), <3>1, <3>2
  <2>4. g = [i \in 1..(n + 1) |-> g[i]]
    BY ZenonT(40)
  <2> HIDE DEF g
  <2>5. g = [i \in 1..(n + 1) |-> IF i > n THEN 0 ELSE C(i) + g[e(i)]]
    BY ZenonT(40), <2>3, <2>4
  <2>6. CountEq(g, t)
    BY ZenonT(40), <2>5 DEF CountEq, n, C, e
  <2> QED BY ZenonT(40), <2>6
<1> HIDE DEF Bad, Eq
<1> DEFINE d == CountFrom(t)
<1>4. CountEq(d, t)
  <2>1. d = CHOOSE f : CountEq(f, t)
    BY ZenonT(40) DEF CountFrom, CountEq
  <2> HIDE DEF d
  <2> QED BY ZenonT(40), <1>3, <2>1
<1> HIDE DEF d
<1>5. d = [i \in 1..(n + 1) |-> IF i > n THEN 0 ELSE C(i) + d[e(i)]]
  BY ZenonT(40), <1>4 DEF CountEq, n, C, e
<1>6. d[n + 1] = 0
  BY SMTT(30), <1>1, <1>5
<1>7. \A i \in 1..n : d[i] = C(i) + d[e(i)]
  BY SMTT(30), <1>1, <1>5
<1> QED BY ZenonT(40), <1>6, <1>7 DEF d, n, C, e

\* Where the lines fit the buffer, fgets() stops at the end of the file, at a newline or
\* right in front of one.
LEMMA PieceStops ==
  ASSUME NEW t, Len(t) \in Nat, LinesFit(t), NEW i \in 1..Len(t)
  PROVE  LET j == PieceEnd(t, i)
         IN  j = Len(t) \/ t[j] = "\n" \/ t[j + 1] = "\n"
<1> DEFINE j == PieceEnd(t, i)
           n == Len(t)
           B == BuffSize
<1>1. n \in Nat /\ B \in Nat /\ B >= 2 /\ i \in Nat
  BY BuffSizeAssumption
<1>2. /\ j \in i..n /\ (j = i + B - 2 \/ t[j] = "\n" \/ j = n)
      /\ \A k \in i..n : t[k] = "\n" => j <= k
  <2>1. j \in Piece(t, i) /\ j \in i..n /\ \A k \in Piece(t, i) : j <= k
    BY ZenonT(40), PieceFacts
  <2> HIDE DEF j
  <2> QED BY ZenonT(40), <2>1 DEF Piece
<1>3. \A m \in 1..n : m + B - 1 <= n => \E k \in m..(m + B - 1) : t[k] = "\n"
  BY ZenonT(40) DEF LinesFit
<1> HIDE DEF j, n, B
<1>4. ASSUME j = i + B - 2, j # n PROVE t[j] = "\n" \/ t[j + 1] = "\n"
  <2>1. i + B - 1 <= n /\ i \in 1..n
    BY SMTT(30), <1>1, <1>2, <1>4 DEF n
  <2>2. PICK k \in i..(i + B - 1) : t[k] = "\n"
    BY ZenonT(40), <1>3, <2>1
  <2>3. CASE k <= j
    <3>1. k \in i..n
      BY SMTT(30), <1>1, <1>2, <2>3
    <3>2. k = j
      BY SMTT(30), <1>1, <1>2, <2>2, <2>3, <3>1
    <3> QED BY ZenonT(40), <2>2, <3>2
  <2>4. CASE ~ (k <= j)
    <3>1. k = j + 1
      BY SMTT(30), <1>1, <1>2, <1>4, <2>4
    <3> QED BY ZenonT(40), <2>2, <3>1
  <2> QED BY ZenonT(40), <2>3, <2>4
<1> QED BY ZenonT(40), <1>2, <1>4 DEF j, n

\* The occurrences from i on.
Rest(t, i) == {a \in Words(t, 1, Len(t)) : i <= a}

\* A piece ends where no word goes on: what is counted in it are the occurrences
\* between its first and its last character.
LEMMA PieceCounts ==
  ASSUME NEW t, Len(t) \in Nat, NEW i \in 1..Len(t), NEW j \in i..Len(t),
         i = 1 \/ t[i - 1] \in exclude \/ t[i] \in exclude,
         j = Len(t) \/ t[j] \in exclude \/ t[j + 1] \in exclude
  PROVE  /\ Rest(t, i) = Words(t, i, j) \cup Rest(t, j + 1)
         /\ Words(t, i, j) \cap Rest(t, j + 1) = {}
<1> DEFINE n == Len(t)
           K == Len(keyword)
           Is(a) == /\ SubSeq(t, a, a + K - 1) = keyword
                    /\ \A k \in a..(a + K - 1) : t[k] \notin exclude
<1>1. n \in Nat /\ K \in Nat /\ K >= 1 /\ i \in Nat /\ j \in Nat /\ 1 <= i /\ i <= j /\ j <= n
  BY SMTT(30), KeywordAssumption
<1>2. \A a : a \in Words(t, i, j) <=>
        a \in i..(j - K + 1) /\ Is(a) /\ (a = i \/ t[a - 1] \in exclude) /\ (a + K - 1 = j \/ t[a + K] \in exclude)
  BY ZenonT(40) DEF Words
<1>3. \A a : a \in Words(t, 1, n) <=>
        a \in 1..(n - K + 1) /\ Is(a) /\ (a = 1 \/ t[a - 1] \in exclude) /\ (a + K - 1 = n \/ t[a + K] \in exclude)
  BY ZenonT(40) DEF Words
<1>4. /\ i = 1 \/ t[i - 1] \in exclude \/ t[i] \in exclude
      /\ j = n \/ t[j] \in exclude \/ t[j + 1] \in exclude
  BY ZenonT(40)
<1>5. \A a : Is(a) => \A k \in a..(a + K - 1) : t[k] \notin exclude
  BY ZenonT(40)
<1> HIDE DEF Is, n, K
<1>6. ASSUME NEW a \in Words(t, i, j) PROVE a \in Words(t, 1, n) /\ i <= a /\ a <= j /\ a \in Int
  <2>1. /\ a \in i..(j - K + 1) /\ Is(a) /\ (a = i \/ t[a - 1] \in exclude)
        /\ (a + K - 1 = j \/ t[a + K] \in exclude)
    BY ZenonT(40), <1>2
  <2>2. a \in Int /\ i <= a /\ a <= j - K + 1
    BY SMTT(30), <1>1, <2>1
  <2>3. a \in 1..(n - K + 1) /\ a <= j
    BY SMTT(30), <1>1, <2>2
  <2>4. a \in a..(a + K - 1) /\ a + K - 1 \in a..(a + K - 1)
    BY SMTT(30), <1>1, <2>2
  <2>5. t[a] \notin exclude /\ t[a + K - 1] \notin exclude
    BY ZenonT(40), <1>5, <2>1, <2>4
  <2>6. a = 1 \/ t[a - 1] \in exclude
    BY ZenonT(40), <1>4, <2>1, <2>5
  <2>7. a + K - 1 = n \/ t[a + K] \in exclude
    <3>1. CASE a + K - 1 = j
      <4>1. j + 1 = a + K
        BY SMTT(30), <1>1, <2>2, <3>1
      <4> QED BY ZenonT(40), <1>4, <2>5, <3>1, <4>1
    <3> QED BY ZenonT(40), <2>1, <3>1
  <2> QED BY ZenonT(40), <1>3, <2>1, <2>2, <2>3, <2>6, <2>7
<1>7. ASSUME NEW a \in Words(t, 1, n), i <= a, a <= j PROVE a \in Words(t, i, j)
  <2>1. /\ a \in 1..(n - K + 1) /\ Is(a) /\ (a = 1 \/ t[a - 1] \in exclude)
        /\ (a + K - 1 = n \/ t[a + K] \in exclude)
    BY ZenonT(40), <1>3
  <2>2. a \in Nat /\ a + K - 1 <= n
    BY SMTT(30), <1>1, <2>1
  <2>3. a + K - 1 <= j
    <3> SUFFICES ASSUME ~ (a + K - 1 <= j) PROVE FALSE
      BY ZenonT(40)
    <3>1. j \in a..(a + K - 1) /\ j + 1 \in a..(a + K - 1) /\ j # n
      BY SMTT(30), <1>1, <1>7, <2>2
    <3>2. t[j] \notin exclude /\ t[j + 1] \notin exclude
      BY ZenonT(40), <1>5, <2>1, <3>1
    <3> QED BY ZenonT(40), <1>4, <3>1, <3>2
  <2>4. a \in i..(j - K + 1)
    BY SMTT(30), <1>1, <1>7, <2>2, <2>3
  <2>5. a = i \/ t[a - 1] \in exclude
    BY SMTT(30), <1>1, <1>7, <2>1
  <2>6. a + K - 1 = j \/ t[a + K] \in exclude
    BY SMTT(30), <1>1, <2>1, <2>2, <2>3
  <2> QED BY ZenonT(40), <1>2, <2>1, <2>4, <2>5, <2>6
<1>8. \A a \in Words(t, 1, n) : a \in Int
  BY SMTT(30), <1>3
<1>9. \A a : a \in Rest(t, i) <=> a \in Words(t, 1, n) /\ i <= a
  BY ZenonT(40) DEF Rest, n
<1>10. \A a : a \in Rest(t, j + 1) <=> a \in Words(t, 1, n) /\ j + 1 <= a
  BY ZenonT(40) DEF Rest, n
<1>11. \A a \in Int : j + 1 <= a <=> ~ (a <= j)
  BY SMTT(30), <1>1
<1>12. ASSUME NEW a PROVE a \in Rest(t, i) <=> a \in Words(t, i, j) \/ a \in Rest(t, j + 1)
  <2>1. CASE a \in Words(t, 1, n)
    <3>1. a \in Int
      BY ZenonT(40), <1>8, <2>1
    <3>2. ~ (a <= j) => i <= a
      BY SMTT(30), <1>1, <3>1
    <3> QED BY ZenonT(40), <1>6, <1>7, <1>9, <1>10, <1>11, <2>1, <3>1, <3>2
  <2>2. CASE a \notin Words(t, 1, n)
    BY ZenonT(40), <1>6, <1>9, <1>10, <2>2
  <2> QED BY ZenonT(40), <2>1, <2>2
<1>13. ASSUME NEW a PROVE ~ (a \in Words(t, i, j) /\ a \in Rest(t, j + 1))
  BY ZenonT(40), <1>6, <1>10, <1>11
<1> QED BY ZenonT(40), <1>12, <1>13

\* For every text whose lines have the length the buffer is made for, every buffer size
\* and every keyword, the loop over the pieces counts the words that are the keyword:
\* fgets() cuts no word in two, and a line that fills the buffer up to its newline is
\* read in two pieces without harm.
THEOREM FrequencyIsOccurrences ==
  ASSUME NEW t, Len(t) \in Nat, LinesFit(t)
  PROVE  frequency(t) = Occurrences(t)
<1> DEFINE n == Len(t)
           c == CountFrom(t)
           e(i) == PieceEnd(t, i)
           Begins(i) == i \in {1, n + 1} \/ t[i - 1] \in exclude \/ t[i] \in exclude
           Bad == {i \in 1..(n + 1) : Begins(i) /\ c[i] # Cardinality(Rest(t, i))}
<1>1. n \in Nat /\ IsFiniteSet(Words(t, 1, n)) /\ \A a \in Words(t, 1, n) : a \in Int /\ 1 <= a /\ a <= n
  <2>1. Len(keyword) \in Nat /\ Len(keyword) >= 1
    BY SMTT(30), KeywordAssumption
  <2>2. \A a \in Words(t, 1, n) : a \in 1..n
    BY SMTT(30), <2>1 DEF Words
  <2>3. IsFiniteSet(1..n)
    BY FS_Interval
  <2>4. Words(t, 1, n) \subseteq 1..n
    BY ZenonT(40), <2>2
  <2> QED BY SMTT(30), <2>2, <2>3, <2>4, FS_Subset
<1>2. c[n + 1] = 0 /\ \A i \in 1..n : c[i] = Cardinality(Words(t, i, e(i))) + c[e(i) + 1]
  BY ZenonT(40), CountsByEquation
<1>3. \A i \in 1..n : e(i) \in i..n /\ (e(i) = n \/ t[e(i)] \in exclude \/ t[e(i) + 1] \in exclude)
  <2> SUFFICES ASSUME NEW i \in 1..n
               PROVE  e(i) \in i..n /\ (e(i) = n \/ t[e(i)] \in exclude \/ t[e(i) + 1] \in exclude)
    BY ZenonT(40)
  <2>1. e(i) \in i..n
    BY ZenonT(40), PieceFacts
  <2>2. e(i) = n \/ t[e(i)] = "\n" \/ t[e(i) + 1] = "\n"
    BY ZenonT(40), PieceStops
  <2> QED BY ZenonT(40), <2>1, <2>2 DEF exclude
<1>4. \A i : Rest(t, i) \subseteq Words(t, 1, n) /\ IsFiniteSet(Rest(t, i)) /\ Cardinality(Rest(t, i)) \in Nat
  BY ZenonT(40), <1>1, FS_Subset, FS_CardinalityType DEF Rest
<1> HIDE DEF c, e, n
<1>5. Bad = {}
  <2> SUFFICES ASSUME Bad # {} PROVE FALSE
    BY ZenonT(40)
  <2>1. PICK i \in Bad : \A k \in Bad : k <= i
    <3>1. Bad \subseteq 0..(n + 1) /\ n + 1 \in Nat
      BY SMTT(30), <1>1
    <3> HIDE DEF Bad
    <3> QED BY ZenonT(40), <3>1, GreatestNat
  <2>2. i \in 1..(n + 1) /\ Begins(i) /\ c[i] # Cardinality(Rest(t, i))
    BY ZenonT(40)
  <2>3. i # n + 1
    <3> SUFFICES ASSUME i = n + 1 PROVE FALSE
      BY ZenonT(40)
    <3>1. Rest(t, i) = {}
      <4> SUFFICES ASSUME NEW a \in Rest(t, i) PROVE FALSE
        BY ZenonT(40)
      <4>1. a \in Words(t, 1, n) /\ n + 1 <= a
        BY ZenonT(40) DEF Rest, n
      <4> QED BY SMTT(30), <1>1, <4>1
    <3> QED BY ZenonT(40), <1>2, <2>2, <3>1, FS_EmptySet
  <2>4. i \in 1..n
    BY SMTT(30), <1>1, <2>2, <2>3
  <2> DEFINE j == e(i)
             W == Words(t, i, j)
             R == Rest(t, j + 1)
  <2>5. j \in i..n /\ (j = n \/ t[j] \in exclude \/ t[j + 1] \in exclude)
    BY ZenonT(40), <1>3, <2>4
  <2>6. i = 1 \/ t[i - 1] \in exclude \/ t[i] \in exclude
    BY ZenonT(40), <2>2, <2>3
  <2> HIDE DEF j
  <2>7. Rest(t, i) = W \cup R /\ W \cap R = {}
    <3>1. n = Len(t)
      BY ZenonT(40) DEF n
    <3>2. i \in 1..Len(t) /\ j \in i..Len(t) /\ (j = Len(t) \/ t[j] \in exclude \/ t[j + 1] \in exclude)
      BY ZenonT(40), <2>4, <2>5, <3>1
    <3> QED BY ZenonT(40), <2>6, <3>2, PieceCounts
  <2>8. c[j + 1] = Cardinality(R)
    <3>1. j + 1 \in 1..(n + 1) /\ ~ (j + 1 <= i)
      BY SMTT(30), <1>1, <2>4, <2>5
    <3>2. Begins(j + 1)
      <4>1. j \in Int /\ (j + 1) - 1 = j
        BY SMTT(30), <2>4, <2>5
      <4> QED BY ZenonT(40), <2>5, <4>1
    <3>3. j + 1 \notin Bad
      <4> HIDE DEF Bad
      <4> QED BY ZenonT(40), <2>1, <3>1
    <3> HIDE DEF Begins
    <3> QED BY ZenonT(40), <3>1, <3>2, <3>3
  <2>9. c[i] = Cardinality(W) + c[j + 1]
    BY ZenonT(40), <1>2, <2>4 DEF j
  <2>10. IsFiniteSet(W) /\ IsFiniteSet(R)
    <3>1. IsFiniteSet(Rest(t, i)) /\ IsFiniteSet(R)
      BY ZenonT(40), <1>4
    <3>2. W \subseteq Rest(t, i)
      BY ZenonT(40), <2>7
    <3> QED BY ZenonT(40), <3>1, <3>2, FS_Subset
  <2> HIDE DEF W, R
  <2>11. Cardinality(Rest(t, i)) = Cardinality(W) + Cardinality(R)
    <3>1. Cardinality(W \cup R) = Cardinality(W) + Cardinality(R) - Cardinality(W \cap R)
      BY ZenonT(40), <2>10, FS_Union
    <3>2. Cardinality(W \cap R) = 0
      BY ZenonT(40), <2>7, FS_EmptySet
    <3>3. Cardinality(W) \in Nat /\ Cardinality(R) \in Nat
      BY ZenonT(40), <2>10, FS_CardinalityType
    <3> QED BY SMTT(30), <2>7, <3>1, <3>2, <3>3
  <2> QED BY ZenonT(40), <2>2, <2>8, <2>9, <2>11
<1>6. 1 \in 1..(n + 1) /\ Begins(1)
  BY SMTT(30), <1>1
<1>7. c[1] = Cardinality(Rest(t, 1))
  <2> HIDE DEF Begins
  <2> QED BY ZenonT(40), <1>5, <1>6
<1>8. Rest(t, 1) = Words(t, 1, n)
  BY ZenonT(40), <1>1 DEF Rest, n
<1> QED BY ZenonT(40), <1>7, <1>8 DEF frequency, Occurrences, c, n

-----------------------------------------------------------------------------
(* The inductive invariant.                                                *)

\* What the line of a node has to say of its file.
FileFrequency(p) == IF kind[p] = "file" THEN frequency(text[p]) ELSE 0

Counts == {0} \cup {frequency(t) : t \in Texts}

\* A node's thread is on a listed node; a thread that opened its file is on a file, and
\* one that ended has stored its count.  A file of the list that is not just being
\* searched has its count, or a thread that brings it.
NodeInv(p) ==
  /\ thread[p] # "none" => ispar = 1 /\ p \in Listed
  /\ thread[p] \in {"count", "ended"} => kind[p] = "file"
  /\ kind[p] # "file" => keyword_frequency[p] = 0
  /\ thread[p] = "ended" => keyword_frequency[p] = FileFrequency(p)
  /\ phase \in {"populate", "sort", "print"} /\ p \in Nodes /\ kind[p] = "file" /\ p # searching =>
       IF ispar = 0 THEN keyword_frequency[p] = FileFrequency(p) ELSE thread[p] # "none"

FileInv ==
  /\ ispar \in {0, 1} /\ \A p \in Paths : kind[p] = "file" => text[p] \in Texts
  /\ thread \in [Paths -> {"none", "open", "count", "ended"}]
  /\ keyword_frequency \in [Paths -> Counts]
  /\ searching \in Listed \cup {NULL}
  /\ phase \in {"sort", "print", "done"} => searching = NULL
  /\ \A p \in Paths : NodeInv(p)

\* The threads of the nodes whose lines are printed have ended.
JoinInv ==
  /\ phase = "print" => \A p \in Listed : Place(p) <= Len(output) => thread[p] \in {"none", "ended"}
  /\ phase = "done" => \A p \in Paths : thread[p] \in {"none", "ended"}

\* Every line has the frequency of its file.
PrintedInv ==
  /\ printed \in Seq(Counts) /\ Len(printed) = Len(output)
  /\ \A i \in 1..Len(printed) : printed[i] = FileFrequency(output[i].path)

ParInv == ListInv /\ FileInv /\ JoinInv /\ PrintedInv

\* What a file holds, and what is derived from it, does not change.
LEMMA InputsStay ==
  ASSUME UNCHANGED tree, UNCHANGED inputs
  PROVE  /\ kind' = kind /\ text' = text /\ ispar' = ispar /\ Listed' = Listed
         /\ \A p \in Paths : FileFrequency(p)' = FileFrequency(p) /\ Place(p)' = Place(p)
<1>1. kind' = kind /\ text' = text /\ ispar' = ispar
  BY ZenonT(40) DEF tree, inputs
<1>2. \A p \in Paths : FileFrequency(p)' = FileFrequency(p)
  BY ZenonT(40), <1>1 DEF FileFrequency
<1> QED BY ZenonT(40), <1>1, <1>2, TreeStays

\* A step that adds no file to the list, and no count and no thread.
LEMMA FilesStay ==
  ASSUME FileInv, UNCHANGED tree, UNCHANGED inputs,
         thread' = thread, keyword_frequency' = keyword_frequency, searching' = searching,
         phase' \in {"sort", "print", "done"} => searching = NULL,
         phase' \in {"populate", "sort", "print"} =>
           \A p \in Nodes' : kind[p] = "file" => phase \in {"populate", "sort", "print"} /\ p \in Nodes
  PROVE  FileInv'
<1>1. /\ kind' = kind /\ text' = text /\ ispar' = ispar /\ Listed' = Listed
      /\ \A p \in Paths : FileFrequency(p)' = FileFrequency(p)
  BY ZenonT(40), InputsStay
<1>2. ASSUME NEW p \in Paths PROVE NodeInv(p)'
  <2>1. NodeInv(p)
    BY ZenonT(40) DEF FileInv
  <2> QED BY ZenonT(40), <1>1, <2>1 DEF NodeInv
<1> QED BY ZenonT(40), <1>1, <1>2 DEF FileInv

\* A step that prints nothing.
LEMMA PrintedStays ==
  ASSUME PrintedInv, UNCHANGED tree, UNCHANGED inputs, printed' = printed, output' = output
  PROVE  PrintedInv'
<1>1. kind' = kind /\ text' = text
  BY ZenonT(40), InputsStay
<1> QED BY ZenonT(40), <1>1 DEF PrintedInv, FileFrequency

\* The main thread reads the tree.
LEMMA ParPopulateStep ==
  ASSUME ParInv, ParPopulate
  PROVE  FileInv' /\ JoinInv' /\ PrintedInv'
<1>1. ListInv /\ FileInv /\ PrintedInv /\ searching = NULL
  BY ZenonT(40) DEF ParInv, ParPopulate
<1>2. /\ UNCHANGED inputs /\ searching' = searching /\ thread' = thread
      /\ keyword_frequency' = keyword_frequency /\ printed' = printed
  BY ZenonT(40) DEF ParPopulate, searchVars
<1>3. CASE PopulateRoot
  <2>1. /\ UNCHANGED tree /\ output' = output /\ phase' \in {"populate", "crashed"}
        /\ phase' = "populate" => kind[root] = "dir"
    BY ZenonT(40), <1>3 DEF PopulateRoot
  <2>2. Nodes' = {root}
    BY ZenonT(40), <1>1, <1>3, RootInserts
  <2>3. FileInv'
    BY ZenonT(40), <1>1, <1>2, <2>1, <2>2, FilesStay
  <2> QED BY ZenonT(40), <1>1, <1>2, <2>1, <2>3, PrintedStays DEF JoinInv
<1>4. CASE \E p \in Paths : SkipHidden(p)
  <2>1. UNCHANGED tree /\ output' = output /\ phase = "populate" /\ phase' = "populate" /\ list' = list
    BY ZenonT(40), <1>4 DEF SkipHidden, Reading
  <2>2. Nodes' = Nodes
    BY ZenonT(40), <2>1 DEF Nodes
  <2>3. FileInv'
    BY ZenonT(40), <1>1, <1>2, <2>1, <2>2, FilesStay
  <2> QED BY ZenonT(40), <1>1, <1>2, <2>1, <2>3, PrintedStays DEF JoinInv
<1>5. CASE \E p \in Paths : Visit(p, "dir")
  <2>1. PICK p \in Paths : Visit(p, "dir")
    BY ZenonT(40), <1>5
  <2>2. /\ UNCHANGED tree /\ output' = output /\ phase = "populate" /\ phase' \in {"populate", "crashed"}
        /\ kind[p] # "file"
    BY ZenonT(40), <2>1 DEF Visit, Reading, StatResults
  <2>3. Nodes' = Nodes \cup {p}
    BY ZenonT(40), <1>1, <2>1, VisitInserts
  <2>4. FileInv'
    BY ZenonT(40), <1>1, <1>2, <2>2, <2>3, FilesStay
  <2> QED BY ZenonT(40), <1>1, <1>2, <2>2, <2>4, PrintedStays DEF JoinInv
<1>6. CASE CloseDirectory
  <2>1. /\ UNCHANGED tree /\ output' = output /\ phase = "populate" /\ phase' \in {"populate", "sort"}
        /\ list' = list
    BY ZenonT(40), <1>6 DEF CloseDirectory
  <2>2. Nodes' = Nodes
    BY ZenonT(40), <2>1 DEF Nodes
  <2>3. FileInv'
    BY ZenonT(40), <1>1, <1>2, <2>1, <2>2, FilesStay
  <2> QED BY ZenonT(40), <1>1, <1>2, <2>1, <2>3, PrintedStays DEF JoinInv
<1> QED BY ZenonT(40), <1>3, <1>4, <1>5, <1>6 DEF ParPopulate

\* The main thread meets a file.
LEMMA ParVisitStep ==
  ASSUME ParInv, NEW p \in Paths, ParVisitFile(p)
  PROVE  FileInv' /\ JoinInv' /\ PrintedInv'
<1>1. ListInv /\ FileInv /\ PrintedInv /\ Visit(p, "file")
  BY ZenonT(40) DEF ParInv, ParVisitFile
<1>2. /\ UNCHANGED inputs /\ searching' = p /\ thread' = thread
      /\ keyword_frequency' = keyword_frequency /\ printed' = printed /\ searching = NULL
  BY ZenonT(40) DEF ParVisitFile
<1>3. /\ UNCHANGED tree /\ output' = output /\ phase = "populate" /\ phase' = "populate"
      /\ kind[p] # "hidden"
  BY ZenonT(40), <1>1 DEF Visit, Reading
<1>4. Nodes' = Nodes \cup {p}
  BY ZenonT(40), <1>1, VisitInserts
<1>5. /\ kind' = kind /\ text' = text /\ ispar' = ispar /\ Listed' = Listed
      /\ \A q \in Paths : FileFrequency(q)' = FileFrequency(q)
  BY ZenonT(40), <1>2, <1>3, InputsStay
<1>6. ASSUME NEW q \in Paths PROVE NodeInv(q)'
  <2>1. NodeInv(q) /\ q # NULL
    BY SMTT(30), <1>1, NAssumption DEF FileInv, Paths, NULL
  <2> QED BY ZenonT(40), <1>2, <1>3, <1>4, <1>5, <2>1 DEF NodeInv
<1>7. FileInv'
  <2>1. p \in Listed
    BY ZenonT(40), <1>3 DEF Listed
  <2> QED BY ZenonT(40), <1>1, <1>2, <1>3, <1>5, <1>6, <2>1 DEF FileInv
<1> QED BY ZenonT(40), <1>1, <1>2, <1>3, <1>7, PrintedStays DEF JoinInv

\* A process that ends keeps its counts.
LEMMA ParHalt ==
  ASSUME ParInv, Halt, UNCHANGED inputs, searching' = searching, thread' = thread,
         keyword_frequency' = keyword_frequency, printed' = printed
  PROVE  FileInv' /\ JoinInv' /\ PrintedInv'
<1>1. /\ FileInv /\ PrintedInv /\ UNCHANGED tree /\ output' = output
      /\ phase' \notin {"populate", "sort", "print", "done"}
  BY ZenonT(40) DEF ParInv, Halt
<1>2. FileInv'
  BY ZenonT(40), <1>1, FilesStay
<1> QED BY ZenonT(40), <1>1, <1>2, PrintedStays DEF JoinInv

\* What stays when only the counts and the threads change.
LEMMA ListingStays ==
  ASSUME UNCHANGED vars
  PROVE  /\ UNCHANGED tree /\ output' = output /\ phase' = phase /\ Nodes' = Nodes /\ Len(output') = Len(output)
BY ZenonT(40) DEF vars, Nodes

\* A file is searched where it is met.
LEMMA SeqSearchStep ==
  ASSUME ParInv, seq_search_file
  PROVE  FileInv' /\ JoinInv' /\ PrintedInv'
<1>1. FileInv /\ PrintedInv /\ searching # NULL /\ phase = "populate" /\ ispar = 0
  BY ZenonT(40) DEF ParInv, seq_search_file
<1>2. UNCHANGED inputs /\ thread' = thread /\ printed' = printed
  BY ZenonT(40) DEF seq_search_file
<1>3. CASE kind[searching] = "file" /\ UNCHANGED vars
  <2> DEFINE s == searching
  <2>1. /\ keyword_frequency' = [keyword_frequency EXCEPT ![s] = frequency(text[s])]
        /\ searching' = NULL
    BY ZenonT(40), <1>3 DEF seq_search_file
  <2>2. /\ UNCHANGED tree /\ output' = output /\ phase' = phase /\ Nodes' = Nodes
    BY ZenonT(40), <1>3, ListingStays
  <2>3. /\ kind' = kind /\ text' = text /\ ispar' = ispar /\ Listed' = Listed
        /\ \A q \in Paths : FileFrequency(q)' = FileFrequency(q)
    BY ZenonT(40), <1>2, <2>2, InputsStay
  <2>4. s \in Paths /\ s \in Listed /\ frequency(text[s]) = FileFrequency(s) /\ frequency(text[s]) \in Counts
    BY ZenonT(40), <1>1, <1>3 DEF FileInv, Listed, FileFrequency, Counts
  <2>5. /\ keyword_frequency' \in [Paths -> Counts]
        /\ \A q \in Paths : keyword_frequency'[q] = IF q = s THEN FileFrequency(s) ELSE keyword_frequency[q]
    <3>1. keyword_frequency \in [Paths -> Counts]
      BY ZenonT(40), <1>1 DEF FileInv
    <3> QED BY ZenonT(40), <2>1, <2>4, <3>1
  <2>6. ASSUME NEW q \in Paths PROVE NodeInv(q)'
    <3>1. NodeInv(q) /\ q # NULL
      BY SMTT(30), <1>1, NAssumption DEF FileInv, Paths, NULL
    <3> QED BY ZenonT(40), <1>1, <1>2, <1>3, <2>1, <2>2, <2>3, <2>5, <3>1 DEF NodeInv
  <2>7. FileInv'
    BY ZenonT(40), <1>1, <1>2, <2>1, <2>2, <2>3, <2>5, <2>6 DEF FileInv
  <2> QED BY ZenonT(40), <1>1, <1>2, <2>2, <2>7, PrintedStays DEF JoinInv
<1>4. CASE Stop("crashed") /\ UNCHANGED <<searching, keyword_frequency>>
  <2>1. Halt /\ searching' = searching /\ keyword_frequency' = keyword_frequency
    BY ZenonT(40), <1>4 DEF Stop, Halt
  <2> QED BY ZenonT(40), <1>2, <2>1, ParHalt
<1> QED BY ZenonT(40), <1>3, <1>4 DEF seq_search_file

\* A thread is created for a file.
LEMMA ParSearchStep ==
  ASSUME ParInv, par_search_file
  PROVE  FileInv' /\ JoinInv' /\ PrintedInv'
<1>1. FileInv /\ PrintedInv /\ searching # NULL /\ phase = "populate" /\ ispar = 1
  BY ZenonT(40) DEF ParInv, par_search_file
<1>2. UNCHANGED inputs /\ keyword_frequency' = keyword_frequency /\ printed' = printed
  BY ZenonT(40) DEF par_search_file
<1>3. CASE thread' = [thread EXCEPT ![searching] = "open"] /\ searching' = NULL /\ UNCHANGED vars
  <2> DEFINE s == searching
  <2>1. /\ UNCHANGED tree /\ output' = output /\ phase' = phase /\ Nodes' = Nodes
    BY ZenonT(40), <1>3, ListingStays
  <2>2. /\ kind' = kind /\ text' = text /\ ispar' = ispar /\ Listed' = Listed
        /\ \A q \in Paths : FileFrequency(q)' = FileFrequency(q)
    BY ZenonT(40), <1>2, <2>1, InputsStay
  <2>3. s \in Paths /\ s \in Listed
    BY ZenonT(40), <1>1 DEF FileInv, Listed
  <2>4. /\ thread' \in [Paths -> {"none", "open", "count", "ended"}]
        /\ \A q \in Paths : thread'[q] = IF q = s THEN "open" ELSE thread[q]
    <3>1. thread \in [Paths -> {"none", "open", "count", "ended"}]
      BY ZenonT(40), <1>1 DEF FileInv
    <3> QED BY ZenonT(40), <1>3, <2>3, <3>1
  <2>5. ASSUME NEW q \in Paths PROVE NodeInv(q)'
    <3>1. NodeInv(q) /\ q # NULL
      BY SMTT(30), <1>1, NAssumption DEF FileInv, Paths, NULL
    <3> QED BY SMTT(30), <1>1, <1>2, <1>3, <2>1, <2>2, <2>3, <2>4, <3>1 DEF NodeInv
  <2>6. FileInv'
    BY ZenonT(40), <1>1, <1>2, <1>3, <2>1, <2>2, <2>4, <2>5 DEF FileInv
  <2> QED BY ZenonT(40), <1>1, <1>2, <2>1, <2>6, PrintedStays DEF JoinInv
<1>4. CASE Stop("failed") /\ UNCHANGED <<searching, thread>>
  <2>1. Halt /\ searching' = searching /\ thread' = thread
    BY ZenonT(40), <1>4 DEF Stop, Halt
  <2> QED BY ZenonT(40), <1>2, <2>1, ParHalt
<1> QED BY ZenonT(40), <1>3, <1>4 DEF par_search_file

\* The places of the entries, as the lines are numbered.
LEMMA Places ==
  ASSUME TreeInv
  PROVE  /\ Listed \in SUBSET Paths /\ Cardinality(Listed) \in Nat
         /\ \A p \in Listed : Place(p) \in 1..Cardinality(Listed)
         /\ \A p, q \in Listed : Place(p) = Place(q) => p = q
<1>1. /\ Final \in Ranks /\ Orders(Final, Listed) /\ Listed \in SUBSET Paths
      /\ Cardinality(Listed) \in 0..N
  BY ZenonT(40), FinalOrder
<1>2. Cardinality(Listed) \in Nat
  BY SMTT(30), <1>1, NAssumption
<1> QED BY ZenonT(40), <1>1, <1>2, PosOrder, PosInjective DEF Place

\* The list is sorted, with the threads at work.
LEMMA ParSortStep ==
  ASSUME ParInv, ParSort
  PROVE  FileInv' /\ JoinInv' /\ PrintedInv'
<1>1. ListInv /\ FileInv /\ PrintedInv
  BY ZenonT(40) DEF ParInv
<1>2. /\ UNCHANGED inputs /\ searching' = searching /\ thread' = thread
      /\ keyword_frequency' = keyword_frequency /\ printed' = printed
  BY ZenonT(40) DEF ParSort, searchVars
<1>3. CASE Sort
  <2>1. UNCHANGED tree /\ output' = output /\ phase = "sort" /\ phase' = "sort"
    BY ZenonT(40), <1>3 DEF Sort
  <2>2. Nodes' = Nodes
    <3>1. ListInv'
      BY ZenonT(40), <1>1, <1>3, SortStep
    <3>2. Nodes = Listed /\ Nodes' = Listed'
      BY ZenonT(40), <1>1, <2>1, <3>1 DEF ListInv, ListedInv
    <3> QED BY ZenonT(40), <2>1, <3>2, TreeStays
  <2>3. searching = NULL
    BY ZenonT(40), <1>1, <2>1 DEF FileInv
  <2>4. FileInv'
    BY ZenonT(40), <1>1, <1>2, <2>1, <2>2, <2>3, FilesStay
  <2> QED BY ZenonT(40), <1>1, <1>2, <2>1, <2>4, PrintedStays DEF JoinInv
<1>4. CASE OpenOutput
  <2>1. /\ UNCHANGED tree /\ output' = output /\ phase = "sort" /\ phase' \in {"print", "crashed"}
        /\ list' = list
    BY ZenonT(40), <1>4 DEF OpenOutput
  <2>2. Nodes' = Nodes
    BY ZenonT(40), <2>1 DEF Nodes
  <2>3. searching = NULL
    BY ZenonT(40), <1>1, <2>1 DEF FileInv
  <2>4. FileInv'
    BY ZenonT(40), <1>1, <1>2, <2>1, <2>2, <2>3, FilesStay
  <2>5. JoinInv'
    <3>1. Len(output') = 0
      BY ZenonT(40), <1>1, <2>1 DEF ListInv, Unprinted
    <3>2. Listed' = Listed /\ \A p \in Paths : Place(p)' = Place(p)
      BY ZenonT(40), <2>1, TreeStays
    <3>3. \A p \in Listed : p \in Paths /\ ~ (Place(p) <= 0)
      BY SMTT(30), <1>1, Places DEF ListInv
    <3>4. \A p \in Listed' : ~ (Place(p)' <= Len(output'))
      BY ZenonT(40), <3>1, <3>2, <3>3
    <3> QED BY ZenonT(40), <2>1, <3>4 DEF JoinInv
  <2> QED BY ZenonT(40), <1>1, <1>2, <2>1, <2>4, <2>5, PrintedStays
<1> QED BY ZenonT(40), <1>3, <1>4 DEF ParSort

\* A line is printed when its thread, if any, has been joined.
LEMMA ParPrintStep ==
  ASSUME ParInv, ParPrintNode
  PROVE  FileInv' /\ JoinInv' /\ PrintedInv'
<1> DEFINE m == Len(output)
           x == keyword_frequency[curr]
<1>1. /\ ListInv /\ FileInv /\ JoinInv /\ PrintedInv /\ phase = "print" /\ curr # NULL
      /\ TreeInv /\ ListedInv /\ PrintInv /\ Written /\ searching = NULL
  BY ZenonT(40) DEF ParInv, ParPrintNode, PrintNode, ListInv, FileInv
<1>2. /\ UNCHANGED inputs /\ searching' = searching /\ thread' = thread
      /\ keyword_frequency' = keyword_frequency
      /\ printed' = Append(printed, x) /\ thread[curr] \in {"none", "ended"}
  BY ZenonT(40) DEF ParPrintNode
<1>3. /\ UNCHANGED tree /\ phase' = "print" /\ list' = list
      /\ output' = Append(output, [level |-> list.level[curr], order |-> order', path |-> curr])
  BY ZenonT(40) DEF ParPrintNode, PrintNode
<1>4. /\ curr \in Listed /\ curr \in Nodes /\ curr \in Paths /\ Place(curr) = m + 1
      /\ output \in Seq(Lines) /\ m \in Nat
  BY <1>1 DEF PrintInv, ListedInv, Written, Listed
<1>5. /\ kind' = kind /\ text' = text /\ Listed' = Listed
      /\ \A q \in Paths : FileFrequency(q)' = FileFrequency(q) /\ Place(q)' = Place(q)
  BY ZenonT(40), <1>2, <1>3, InputsStay
<1>6. FileInv'
  <2>1. Nodes' = Nodes
    BY ZenonT(40), <1>3 DEF Nodes
  <2> QED BY ZenonT(40), <1>1, <1>2, <1>3, <2>1, FilesStay
<1>7. x = FileFrequency(curr) /\ x \in Counts
  <2>1. NodeInv(curr) /\ ispar \in {0, 1} /\ keyword_frequency \in [Paths -> Counts]
    BY ZenonT(40), <1>1, <1>4 DEF FileInv
  <2>2. CASE kind[curr] = "file"
    <3>1. curr # searching
      BY ZenonT(40), <1>1
    <3> QED BY ZenonT(40), <1>1, <1>2, <1>4, <2>1, <2>2, <3>1 DEF NodeInv
  <2>3. CASE kind[curr] # "file"
    BY ZenonT(40), <1>4, <2>1, <2>3 DEF NodeInv, FileFrequency
  <2> QED BY ZenonT(40), <2>2, <2>3
<1>8. /\ Len(output') = m + 1 /\ output'[m + 1].path = curr
      /\ \A i \in 1..m : output'[i] = output[i]
  <2> DEFINE e == [level |-> list.level[curr], order |-> order', path |-> curr]
  <2>1. e.path = curr /\ output' = Append(output, e)
    BY ZenonT(40), <1>3
  <2> HIDE DEF e
  <2> QED BY SMTT(30), <1>4, <2>1
<1>9. /\ printed' \in Seq(Counts) /\ Len(printed') = m + 1 /\ printed'[m + 1] = x
      /\ \A i \in 1..m : printed'[i] = printed[i]
  <2>1. printed \in Seq(Counts) /\ Len(printed) = m
    BY ZenonT(40), <1>1 DEF PrintedInv
  <2> HIDE DEF x
  <2> QED BY SMTT(30), <1>2, <1>7, <2>1
<1> HIDE DEF x
<1>10. PrintedInv'
  <2>1. ASSUME NEW i \in 1..(m + 1) PROVE printed'[i] = IF kind[output'[i].path] = "file"
                                                        THEN frequency(text[output'[i].path]) ELSE 0
    <3>1. CASE i = m + 1
      BY ZenonT(40), <1>7, <1>8, <1>9, <3>1 DEF FileFrequency
    <3>2. CASE i # m + 1
      <4>1. i \in 1..m
        BY SMTT(30), <1>4, <3>2
      <4>2. printed[i] = FileFrequency(output[i].path)
        BY ZenonT(40), <1>1, <4>1 DEF PrintedInv
      <4> QED BY ZenonT(40), <1>8, <1>9, <4>1, <4>2 DEF FileFrequency
    <3> QED BY ZenonT(40), <3>1, <3>2
  <2> QED BY ZenonT(40), <1>5, <1>8, <1>9, <2>1 DEF PrintedInv, FileFrequency
<1>11. JoinInv'
  <2>1. ASSUME NEW p \in Listed, Place(p) <= m + 1 PROVE thread[p] \in {"none", "ended"}
    <3>1. CASE Place(p) <= m
      BY ZenonT(40), <1>1, <3>1 DEF JoinInv
    <3>2. CASE ~ (Place(p) <= m)
      <4>1. Place(p) \in 1..Cardinality(Listed) /\ Cardinality(Listed) \in Nat
        BY ZenonT(40), <1>1, Places
      <4>2. Place(p) = m + 1
        BY SMTT(30), <1>4, <2>1, <3>2, <4>1
      <4>3. p = curr
        BY ZenonT(40), <1>1, <1>4, <4>2, Places
      <4> QED BY ZenonT(40), <1>2, <4>3
    <3> QED BY ZenonT(40), <3>1, <3>2
  <2>2. \A p \in Listed' : Place(p)' <= Len(output') => thread'[p] \in {"none", "ended"}
    <3>1. \A p \in Listed : p \in Paths
      BY ZenonT(40) DEF Listed
    <3> QED BY ZenonT(40), <1>2, <1>5, <1>8, <2>1, <3>1
  <2> QED BY ZenonT(40), <1>3, <2>2 DEF JoinInv
<1> QED BY ZenonT(40), <1>6, <1>10, <1>11

\* destroy_list() frees the nodes.
LEMMA ParDestroyStep ==
  ASSUME ParInv, ParDestroyList
  PROVE  FileInv' /\ JoinInv' /\ PrintedInv'
<1>1. /\ ListInv /\ FileInv /\ JoinInv /\ PrintedInv /\ phase = "print" /\ curr = NULL
      /\ TreeInv /\ PrintInv /\ searching = NULL
  BY ZenonT(40) DEF ParInv, ParDestroyList, DestroyList, ListInv, FileInv
<1>2. /\ UNCHANGED inputs /\ searching' = searching /\ thread' = thread
      /\ keyword_frequency' = keyword_frequency /\ printed' = printed
      /\ UNCHANGED tree /\ output' = output /\ phase' = "done"
  BY ZenonT(40) DEF ParDestroyList, DestroyList, searchVars
<1>3. FileInv'
  BY ZenonT(40), <1>1, <1>2, FilesStay
<1>4. ASSUME NEW p \in Paths PROVE thread[p] \in {"none", "ended"}
  <2>1. CASE p \in Listed
    <3>1. Place(p) <= Len(output)
      BY SMTT(30), <1>1, <2>1, Places DEF PrintInv
    <3> QED BY ZenonT(40), <1>1, <2>1, <3>1 DEF JoinInv
  <2>2. CASE p \notin Listed
    BY ZenonT(40), <1>1, <2>2 DEF FileInv, NodeInv
  <2> QED BY ZenonT(40), <2>1, <2>2
<1> QED BY ZenonT(40), <1>1, <1>2, <1>3, <1>4, PrintedStays DEF JoinInv

\* A thread opens its file.
LEMMA ThreadOpensStep ==
  ASSUME ParInv, NEW p \in Paths, ThreadOpens(p)
  PROVE  FileInv' /\ JoinInv' /\ PrintedInv'
<1>1. /\ FileInv /\ JoinInv /\ PrintedInv /\ thread[p] = "open"
      /\ UNCHANGED inputs /\ searching' = searching /\ keyword_frequency' = keyword_frequency
      /\ printed' = printed
  BY ZenonT(40) DEF ParInv, ThreadOpens
<1>2. CASE kind[p] = "file" /\ thread' = [thread EXCEPT ![p] = "count"] /\ UNCHANGED vars
  <2>1. /\ UNCHANGED tree /\ output' = output /\ phase' = phase /\ Nodes' = Nodes
    BY ZenonT(40), <1>2, ListingStays
  <2>2. /\ kind' = kind /\ text' = text /\ ispar' = ispar /\ Listed' = Listed
        /\ \A q \in Paths : FileFrequency(q)' = FileFrequency(q) /\ Place(q)' = Place(q)
    BY ZenonT(40), <1>1, <2>1, InputsStay
  <2>3. /\ thread' \in [Paths -> {"none", "open", "count", "ended"}]
        /\ \A q \in Paths : thread'[q] = IF q = p THEN "count" ELSE thread[q]
    <3>1. thread \in [Paths -> {"none", "open", "count", "ended"}]
      BY ZenonT(40), <1>1 DEF FileInv
    <3> QED BY ZenonT(40), <1>2, <3>1
  <2>4. ASSUME NEW q \in Paths PROVE NodeInv(q)'
    <3>1. NodeInv(q)
      BY ZenonT(40), <1>1 DEF FileInv
    <3> QED BY ZenonT(40), <1>1, <1>2, <2>1, <2>2, <2>3, <3>1 DEF NodeInv
  <2>5. FileInv'
    BY ZenonT(40), <1>1, <2>1, <2>2, <2>3, <2>4 DEF FileInv
  <2>6. JoinInv'
    <3>1. \A q \in Listed : q \in Paths
      BY ZenonT(40) DEF Listed
    <3> QED BY ZenonT(40), <1>1, <2>1, <2>2, <2>3, <3>1 DEF JoinInv
  <2> QED BY ZenonT(40), <1>1, <2>1, <2>5, <2>6, PrintedStays
<1>3. CASE Stop("crashed") /\ thread' = thread
  <2>1. Halt
    BY ZenonT(40), <1>3 DEF Stop, Halt
  <2> QED BY ZenonT(40), <1>1, <1>3, <2>1, ParHalt
<1> QED BY ZenonT(40), <1>2, <1>3 DEF ThreadOpens

\* A thread stores its count in its node and ends.
LEMMA ThreadStoresStep ==
  ASSUME ParInv, NEW p \in Paths, ThreadStores(p)
  PROVE  FileInv' /\ JoinInv' /\ PrintedInv'
<1>1. /\ FileInv /\ JoinInv /\ PrintedInv /\ thread[p] = "count"
      /\ UNCHANGED inputs /\ searching' = searching /\ UNCHANGED vars /\ printed' = printed
      /\ keyword_frequency' = [keyword_frequency EXCEPT ![p] = frequency(text[p])]
      /\ thread' = [thread EXCEPT ![p] = "ended"]
  BY ZenonT(40) DEF ParInv, ThreadStores
<1>2. /\ UNCHANGED tree /\ output' = output /\ phase' = phase /\ Nodes' = Nodes
  BY ZenonT(40), <1>1, ListingStays
<1>3. /\ kind' = kind /\ text' = text /\ ispar' = ispar /\ Listed' = Listed
      /\ \A q \in Paths : FileFrequency(q)' = FileFrequency(q) /\ Place(q)' = Place(q)
  BY ZenonT(40), <1>1, <1>2, InputsStay
<1>4. kind[p] = "file" /\ frequency(text[p]) = FileFrequency(p) /\ frequency(text[p]) \in Counts
  BY ZenonT(40), <1>1 DEF FileInv, NodeInv, FileFrequency, Counts
<1>5. /\ thread' \in [Paths -> {"none", "open", "count", "ended"}]
      /\ \A q \in Paths : thread'[q] = IF q = p THEN "ended" ELSE thread[q]
  <2>1. thread \in [Paths -> {"none", "open", "count", "ended"}]
    BY ZenonT(40), <1>1 DEF FileInv
  <2> QED BY ZenonT(40), <1>1, <2>1
<1>6. /\ keyword_frequency' \in [Paths -> Counts]
      /\ \A q \in Paths : keyword_frequency'[q] = IF q = p THEN FileFrequency(p) ELSE keyword_frequency[q]
  <2>1. keyword_frequency \in [Paths -> Counts]
    BY ZenonT(40), <1>1 DEF FileInv
  <2> QED BY ZenonT(40), <1>1, <1>4, <2>1
<1>7. ASSUME NEW q \in Paths PROVE NodeInv(q)'
  <2>1. NodeInv(q)
    BY ZenonT(40), <1>1 DEF FileInv
  <2> QED BY ZenonT(40), <1>1, <1>2, <1>3, <1>4, <1>5, <1>6, <2>1 DEF NodeInv
<1>8. FileInv'
  BY ZenonT(40), <1>1, <1>2, <1>3, <1>5, <1>6, <1>7 DEF FileInv
<1>9. JoinInv'
  <2>1. \A q \in Listed : q \in Paths
    BY ZenonT(40) DEF Listed
  <2> QED BY ZenonT(40), <1>1, <1>2, <1>3, <1>5, <2>1 DEF JoinInv
<1> QED BY ZenonT(40), <1>1, <1>2, <1>8, <1>9, PrintedStays

\* Every step of pardirlist is for the listing a step of dirlist, the end of the
\* process, or nothing.
LEMMA ParListStep ==
  ASSUME [ParNext]_parVars
  PROVE  [Next]_vars \/ Halt
<1>1. CASE ParPopulate \/ (\E p \in Paths : ParVisitFile(p))
  BY ZenonT(40), <1>1 DEF ParPopulate, ParVisitFile, Next, PopulateStep
<1>2. CASE seq_search_file \/ par_search_file
  BY ZenonT(40), <1>2 DEF seq_search_file, par_search_file, Stop, Halt
<1>3. CASE ParSort \/ ParPrintNode \/ ParDestroyList
  BY ZenonT(40), <1>3 DEF ParSort, ParPrintNode, ParDestroyList, Next
<1>4. CASE \E p \in Paths : psf_runner(p)
  BY ZenonT(40), <1>4 DEF psf_runner, ThreadOpens, ThreadStores, Stop, Halt
<1>5. CASE UNCHANGED parVars
  BY ZenonT(40), <1>5 DEF parVars
<1> QED BY ZenonT(40), <1>1, <1>2, <1>3, <1>4, <1>5 DEF ParNext, Main

\* The invariant of pardirlist.
LEMMA ParAlways == ParSpec => []ParInv
<1>1. ParInit => ParInv
  <2> SUFFICES ASSUME ParInit PROVE ParInv
    BY ZenonT(40)
  <2>1. ListInv
    BY ZenonT(40), ListInit DEF ParInit
  <2>2. /\ phase = "start" /\ output = <<>> /\ ispar \in {0, 1} /\ searching = NULL
        /\ text \in [{p \in Paths : kind[p] = "file"} -> Texts]
        /\ thread = [p \in Paths |-> "none"] /\ keyword_frequency = [p \in Paths |-> 0]
        /\ printed = <<>>
    BY ZenonT(40) DEF ParInit, Init
  <2>3. FileInv
    BY ZenonT(40), <2>2 DEF FileInv, NodeInv, Counts
  <2>4. JoinInv /\ PrintedInv
    BY <2>2 DEF JoinInv, PrintedInv
  <2> QED BY ZenonT(40), <2>1, <2>3, <2>4 DEF ParInv
<1>2. ParInv /\ [ParNext]_parVars => ParInv'
  <2> SUFFICES ASSUME ParInv, [ParNext]_parVars PROVE ParInv'
    BY ZenonT(40)
  <2>1. ListInv'
    BY ZenonT(40), ParListStep, ListNext DEF ParInv
  <2>2. FileInv' /\ JoinInv' /\ PrintedInv'
    <3>1. CASE ParPopulate
      BY ZenonT(40), <3>1, ParPopulateStep
    <3>2. CASE \E p \in Paths : ParVisitFile(p)
      BY ZenonT(40), <3>2, ParVisitStep
    <3>3. CASE seq_search_file
      BY ZenonT(40), <3>3, SeqSearchStep
    <3>4. CASE par_search_file
      BY ZenonT(40), <3>4, ParSearchStep
    <3>5. CASE ParSort
      BY ZenonT(40), <3>5, ParSortStep
    <3>6. CASE ParPrintNode
      BY ZenonT(40), <3>6, ParPrintStep
    <3>7. CASE ParDestroyList
      BY ZenonT(40), <3>7, ParDestroyStep
    <3>8. CASE \E p \in Paths : psf_runner(p)
      BY ZenonT(40), <3>8, ThreadOpensStep, ThreadStoresStep DEF psf_runner
    <3>9. CASE UNCHANGED parVars
      <4>1. /\ UNCHANGED vars /\ UNCHANGED inputs /\ searching' = searching /\ thread' = thread
            /\ keyword_frequency' = keyword_frequency /\ printed' = printed
        BY ZenonT(40), <3>9 DEF parVars, searchVars
      <4>2. UNCHANGED tree /\ output' = output /\ phase' = phase /\ Nodes' = Nodes
        BY ZenonT(40), <4>1, ListingStays
      <4>3. FileInv /\ JoinInv /\ PrintedInv
        BY ZenonT(40) DEF ParInv
      <4>4. FileInv'
        <5>1. phase' \in {"sort", "print", "done"} => searching = NULL
          BY ZenonT(40), <4>2, <4>3 DEF FileInv
        <5> QED BY ZenonT(40), <4>1, <4>2, <4>3, <5>1, FilesStay
      <4>5. JoinInv'
        <5>1. Listed' = Listed /\ \A q \in Paths : Place(q)' = Place(q)
          BY ZenonT(40), <4>2, TreeStays
        <5>2. \A q \in Listed : q \in Paths
          BY ZenonT(40) DEF Listed
        <5> QED BY ZenonT(40), <4>1, <4>2, <4>3, <5>1, <5>2 DEF JoinInv
      <4> QED BY ZenonT(40), <4>1, <4>2, <4>3, <4>4, <4>5, PrintedStays
    <3> QED BY ZenonT(40), <3>1, <3>2, <3>3, <3>4, <3>5, <3>6, <3>7, <3>8, <3>9 DEF ParNext, Main
  <2> QED BY ZenonT(40), <2>1, <2>2 DEF ParInv
<1> QED BY <1>1, <1>2, PTL DEF ParSpec

-----------------------------------------------------------------------------
(* The theorems.                                                           *)

\* With the searches and the threads in between, pardirlist prints the listing that
\* dirlist prints.
THEOREM ParListingIsRight == ParSpec => []Listing
<1>1. ParInv => Listing
  BY ZenonT(40), ListInvImplies DEF ParInv
<1> QED BY <1>1, ParAlways, PTL

\* In whatever order the threads open their files, store their counts and are joined,
\* every line carries the number of times the keyword is a word of its file.
THEOREM FrequenciesAreRight == ParSpec => []FrequenciesRight
<1>1. ParInv => FrequenciesRight
  <2> SUFFICES ASSUME ParInv PROVE FrequenciesRight
    BY ZenonT(40)
  <2>1. PrintedInv /\ FileInv /\ output \in Seq(Lines)
    BY ZenonT(40) DEF ParInv, ListInv, Written
  <2>2. ASSUME NEW i \in 1..Len(printed)
        PROVE  LET p == output[i].path
               IN  IF kind[p] # "file" THEN printed[i] = 0
                   ELSE LinesFit(text[p]) => printed[i] = Occurrences(text[p])
    <3> DEFINE p == output[i].path
    <3>1. p \in Paths /\ printed[i] = FileFrequency(p)
      <4>1. Len(printed) = Len(output) /\ printed[i] = FileFrequency(output[i].path)
        BY ZenonT(40), <2>1 DEF PrintedInv
      <4>2. output[i] \in Lines
        BY SMTT(30), <2>1, <4>1
      <4> QED BY ZenonT(40), <4>1, <4>2 DEF Lines
    <3> HIDE DEF p
    <3>2. ASSUME kind[p] = "file", LinesFit(text[p]) PROVE printed[i] = Occurrences(text[p])
      <4>1. text[p] \in Texts
        BY ZenonT(40), <2>1, <3>1, <3>2 DEF FileInv
      <4>2. Len(text[p]) \in Nat
        BY ZenonT(40), <4>1, TextsAssumption
      <4>3. frequency(text[p]) = Occurrences(text[p])
        BY ZenonT(40), <3>2, <4>2, FrequencyIsOccurrences
      <4> QED BY ZenonT(40), <3>1, <3>2, <4>3 DEF FileFrequency
    <3>3. kind[p] # "file" => printed[i] = 0
      BY ZenonT(40), <3>1 DEF FileFrequency
    <3> QED BY ZenonT(40), <3>2, <3>3 DEF p
  <2> QED BY ZenonT(40), <2>1, <2>2 DEF FrequenciesRight, PrintedInv
<1> QED BY <1>1, ParAlways, PTL

\* When destroy_list() frees the nodes, no thread is left that uses one.
THEOREM ThreadsEndFirst == ParSpec => []NoThreadOnFreedNode
<1>1. ParInv => NoThreadOnFreedNode
  BY ZenonT(40) DEF ParInv, JoinInv, NoThreadOnFreedNode
<1> QED BY <1>1, ParAlways, PTL
=============================================================================
