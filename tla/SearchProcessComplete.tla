----------------------- MODULE SearchProcessComplete -----------------------
(***************************************************************************)
(* That a search writes everything, for every directory, every buffer size *)
(* and every length of the files, as long as the printer first reads       *)
(* threadcount behind insert_tail(printerNode).  Two things are kept: what *)
(* threadcount counts, and where each line that a worker has found is.     *)
(***************************************************************************)
EXTENDS SearchProcessProofs

-----------------------------------------------------------------------------
(* The invariant.                                                          *)

\* The workers whose dummy item is not in the buffer yet.
Unfinished(pc, it) ==
  {w \in Entries : \/ pc[w] \in {"read", "wait_empty", "wait_mutex", "fill"}
                   \/ pc[w] \in {"advance", "post_mutex", "post_full"} /\ ~ IsDummy(it[w])}

\* The dummy items in the buffer, by their places.
Dummies(ch) == {i \in 1..Len(ch) : IsDummy(ch[i])}

\* The printer has taken a dummy item and not stored threadcount - 1 for it yet.
Owed(s, p) ==
  IF s \in {"dec_load", "dec_store"} \/ (s \in {"post_mutex", "post_empty"} /\ IsDummy(p))
  THEN 1 ELSE 0

\* The printer is in threadcount from insert_tail() to the end of its loop.
PrinterCounted(m, s) == IF m \in {"closedir", "spin", "join", "exited"} /\ s # "exited" THEN 1 ELSE 0

Threads == Cardinality(Unfinished(wpc, item)) + Cardinality(Dummies(Flow))
             + Owed(ppc, ptr) + PrinterCounted(mpc, ppc)

\* What threadcount counts, and that no update of it is lost.
ThreadsCounted ==
  /\ mpc # "crashed" => threadcount = Threads
  /\ mpc \in {"open", "readdir", "insert_load", "insert_store"} => ppc \in {"none", "check"}
  /\ mpc = "insert_store" => mreg = threadcount
  /\ ppc \in {"dec_store", "leave_store"} => preg = threadcount

\* Behind every item in the buffer there is still a dummy item to come.
DummyBehind(ch, U) ==
  \A i \in 1..Len(ch) :
    \/ IsDummy(ch[i]) \/ ch[i].filename \in U
    \/ \E j \in Dummies(ch) : j > i

Is(x, e, n) == x.filename = e /\ x.linenumber = n

\* Every line with the keyword that has been read is written, with the printer, in the
\* buffer or with its worker.
Collected(t, current, pc, it, ch, has, p, out) ==
  \A e \in Entries : \A n \in 1..current[e] : t[e][n] =>
    \/ \E i \in 1..Len(out) : Is(out[i], e, n)
    \/ has /\ Is(p, e, n)
    \/ \E i \in 1..Len(ch) : Is(ch[i], e, n)
    \/ Holding(pc[e]) /\ Is(it[e], e, n)

\* What keeps an item from being lost, and a dummy from being taken too early.
Kept ==
  /\ DummyBehind(Flow, Unfinished(wpc, item))
  /\ Collected(text, currentline, wpc, item, Flow, PrinterHas(ppc), ptr, output)

\* A worker makes a dummy item when it has read its file; every regular file gets a worker.
FilesRead ==
  /\ \A e \in Entries :
       /\ kind[e] # "regular" => text[e] = <<>>
       /\ wpc[e] \notin {"none", "read"} /\ IsDummy(item[e]) => currentline[e] >= Len(text[e])
       /\ wpc[e] \in {"close", "exited"} => IsDummy(item[e])
       /\ wpc[e] = "none" /\ e \notin unread /\ mpc # "crashed" => kind[e] # "regular"
  /\ mpc \notin {"open", "readdir", "crashed"} => unread = {}
  /\ mpc = "exited" => ppc = "exited" /\ WorkersPosted

\* The types of what the buffer does not need.
ThreadTypes ==
  /\ mpc \in MainPCs /\ raced \in BOOLEAN
  /\ threadcount \in Int /\ mreg \in Int /\ preg \in Int

CompleteInv ==
  /\ ThreadTypes
  /\ ~ raced => ThreadsCounted /\ PrinterIsLast
  /\ Kept /\ FilesRead
-----------------------------------------------------------------------------
(* Dummies in a sequence of items.                                         *)

\* They can be counted.
LEMMA DummiesFinite ==
  ASSUME NEW ch \in Seq(Items)
  PROVE  IsFiniteSet(Dummies(ch)) /\ Cardinality(Dummies(ch)) \in Nat
<1>1. IsFiniteSet(1..Len(ch))
  BY FS_Interval
<1> QED BY ZenonT(40), <1>1, FS_Subset, FS_CardinalityType DEF Dummies

\* One more item.
LEMMA DummiesPut ==
  ASSUME NEW ch \in Seq(Items), NEW x \in Items
  PROVE  /\ Dummies(Append(ch, x)) = Dummies(ch) \cup (IF IsDummy(x) THEN {Len(ch) + 1} ELSE {})
         /\ Cardinality(Dummies(Append(ch, x)))
              = Cardinality(Dummies(ch)) + (IF IsDummy(x) THEN 1 ELSE 0)
<1> DEFINE n == Len(ch)
           c == Append(ch, x)
<1>1. /\ n \in Nat /\ Len(c) = n + 1 /\ c[n + 1] = x
      /\ \A i \in 1..n : c[i] = ch[i]
  OBVIOUS
<1>2. 1..(n + 1) = (1..n) \cup {n + 1} /\ n + 1 \notin 1..n
  BY <1>1
<1> HIDE DEF n, c
<1>3. Dummies(c) = Dummies(ch) \cup (IF IsDummy(x) THEN {n + 1} ELSE {})
  BY ZenonT(40), <1>1, <1>2 DEF Dummies, n
<1>4. n + 1 \notin Dummies(ch)
  BY ZenonT(40), <1>2 DEF Dummies, n
<1>5. Cardinality(Dummies(c)) = Cardinality(Dummies(ch)) + (IF IsDummy(x) THEN 1 ELSE 0)
  <2>1. IsFiniteSet(Dummies(ch)) /\ Cardinality(Dummies(ch)) \in Nat
    BY ZenonT(40), DummiesFinite
  <2>2. CASE IsDummy(x)
    BY ZenonT(40), <1>3, <1>4, <2>1, <2>2, CountOne
  <2>3. CASE ~ IsDummy(x)
    BY <1>3, <2>1, <2>3
  <2> QED BY ZenonT(40), <2>2, <2>3
<1> QED BY ZenonT(40), <1>3, <1>5 DEF n, c

\* The oldest item taken: the places of the others shift by one.
LEMMA DummiesTake ==
  ASSUME NEW ch \in Seq(Items), ch # <<>>
  PROVE  /\ \A i \in Dummies(ch) : i = 1 \/ i - 1 \in Dummies(Tail(ch))
         /\ Cardinality(Dummies(ch))
              = Cardinality(Dummies(Tail(ch))) + (IF IsDummy(Head(ch)) THEN 1 ELSE 0)
<1> DEFINE n == Len(ch)
           c == Tail(ch)
           D == Dummies(c)
           S == Dummies(ch) \ {1}
           f == [i \in D |-> i + 1]
<1>1. /\ n \in Nat /\ n >= 1 /\ Len(c) = n - 1 /\ Head(ch) = ch[1] /\ c \in Seq(Items)
      /\ \A i \in 1..(n - 1) : c[i] = ch[i + 1]
  OBVIOUS
<1>2. D = {i \in 1..(n - 1) : IsDummy(ch[i + 1])}
  BY ZenonT(40), <1>1 DEF Dummies
<1>3. Dummies(ch) = {i \in 1..n : IsDummy(ch[i])}
  BY ZenonT(40) DEF Dummies
<1> HIDE DEF n, c, D
<1>4. \A i \in S : i - 1 \in D /\ (i - 1) + 1 = i
  BY SMTT(30), <1>1, <1>2, <1>3
<1>5. \A i \in D : i \in Int /\ i + 1 \in S
  BY SMTT(30), <1>1, <1>2, <1>3
<1>6. f \in Bijection(D, S)
  <2>1. f \in [D -> S]
    BY ZenonT(40), <1>5
  <2>2. \A i, j \in D : f[i] = f[j] => i = j
    BY <1>5
  <2>3. \A s \in S : \E i \in D : f[i] = s
    BY ZenonT(40), <1>4
  <2> HIDE DEF f, S
  <2> QED BY ZenonT(40), <2>1, <2>2, <2>3 DEF Bijection, Injection, Surjection, IsInjective
<1>7. IsFiniteSet(D) /\ IsFiniteSet(Dummies(ch))
  BY ZenonT(40), <1>1, DummiesFinite DEF D
<1>8. Cardinality(D) = Cardinality(S)
  <2> HIDE DEF f, S
  <2>1. ExistsBijection(D, S)
    BY ZenonT(40), <1>6 DEF ExistsBijection
  <2> QED BY ZenonT(40), <1>7, <2>1, FS_Bijection
<1>9. 1 \in Dummies(ch) <=> IsDummy(Head(ch))
  BY <1>1, <1>3
<1>10. Cardinality(Dummies(ch)) = Cardinality(D) + (IF IsDummy(Head(ch)) THEN 1 ELSE 0)
  <2>0. Cardinality(Dummies(ch)) \in Nat
    BY ZenonT(40), DummiesFinite
  <2>1. CASE IsDummy(Head(ch))
    <3>1. Cardinality(S) = Cardinality(Dummies(ch)) - 1
      BY ZenonT(40), <1>7, <1>9, <2>1, CountOne
    <3> HIDE DEF S
    <3> QED BY SMTT(30), <1>8, <2>0, <2>1, <3>1
  <2>2. CASE ~ IsDummy(Head(ch))
    <3>1. S = Dummies(ch)
      BY ZenonT(40), <1>9, <2>2
    <3> HIDE DEF S
    <3> QED BY SMTT(30), <1>8, <2>0, <2>2, <3>1
  <2> QED BY ZenonT(40), <2>1, <2>2
<1> QED BY ZenonT(40), <1>4, <1>10 DEF D, c
-----------------------------------------------------------------------------
(* The moves of what is kept.                                              *)

\* An item put into the buffer by worker w: its dummy is behind everything, and any other
\* item still has the worker's dummy to come.
LEMMA BehindPut ==
  ASSUME NEW ch \in Seq(Items), NEW x \in Items, NEW U, NEW V, NEW w,
         DummyBehind(ch, U), U \ {w} \subseteq V,
         ~ IsDummy(x) => U \subseteq V /\ x.filename \in V
  PROVE  DummyBehind(Append(ch, x), V)
<1> DEFINE n == Len(ch)
           c == Append(ch, x)
<1>1. /\ n \in Nat /\ Len(c) = n + 1 /\ c[n + 1] = x
      /\ \A i \in 1..n : c[i] = ch[i] /\ n + 1 > i
      /\ \A i \in 1..(n + 1) : i = n + 1 \/ i \in 1..n
  OBVIOUS
<1>2. Dummies(c) = Dummies(ch) \cup (IF IsDummy(x) THEN {n + 1} ELSE {})
  BY ZenonT(40), DummiesPut
<1> HIDE DEF n, c
<1>3. ASSUME NEW i \in 1..(n + 1)
      PROVE  IsDummy(c[i]) \/ c[i].filename \in V \/ \E j \in Dummies(c) : j > i
  <2>1. CASE i = n + 1
    BY ZenonT(40), <1>1, <2>1
  <2>2. CASE i \in 1..n
    BY ZenonT(40), <1>1, <1>2, <2>2 DEF DummyBehind, n
  <2> QED BY ZenonT(40), <1>1, <2>1, <2>2
<1>4. DummyBehind(c, V)
  BY ZenonT(40), <1>1, <1>3 DEF DummyBehind
<1> QED BY ZenonT(40), <1>4 DEF c

\* The oldest item taken out.
LEMMA BehindTake ==
  ASSUME NEW ch \in Seq(Items), ch # <<>>, NEW U, DummyBehind(ch, U)
  PROVE  DummyBehind(Tail(ch), U)
<1> DEFINE n == Len(ch)
           c == Tail(ch)
<1>1. /\ n \in Nat /\ n >= 1 /\ Len(c) = n - 1
      /\ \A i \in 1..(n - 1) : c[i] = ch[i + 1] /\ i + 1 \in 1..n
  OBVIOUS
<1>2. \A j \in Dummies(ch) : j \in Int /\ (j = 1 \/ j - 1 \in Dummies(c))
  BY DummiesTake DEF Dummies
<1> HIDE DEF n, c
<1>3. ASSUME NEW i \in 1..(n - 1)
      PROVE  IsDummy(c[i]) \/ c[i].filename \in U \/ \E j \in Dummies(c) : j > i
  <2>1. \/ IsDummy(ch[i + 1]) \/ ch[i + 1].filename \in U
        \/ \E j \in Dummies(ch) : j > i + 1
    BY ZenonT(40), <1>1 DEF DummyBehind, n
  <2>2. ASSUME NEW j \in Dummies(ch), j > i + 1 PROVE j - 1 \in Dummies(c) /\ j - 1 > i
    BY SMTT(30), <1>1, <1>2, <2>2
  <2> QED BY ZenonT(40), <1>1, <2>1, <2>2
<1>4. DummyBehind(c, U)
  BY ZenonT(40), <1>1, <1>3 DEF DummyBehind
<1> QED BY ZenonT(40), <1>4 DEF c

\* A worker's item goes from the worker into the buffer.
LEMMA CollectedPut ==
  ASSUME NEW t, NEW current, NEW pc, NEW pd, NEW it, NEW ch \in Seq(Items), NEW has, NEW p, NEW out,
         NEW w \in Entries, it[w] \in Items,
         Collected(t, current, pc, it, ch, has, p, out),
         \A v \in Entries \ {w} : pd[v] = pc[v]
  PROVE  Collected(t, current, pd, it, Append(ch, it[w]), has, p, out)
<1> DEFINE n == Len(ch)
           c == Append(ch, it[w])
<1>1. /\ n \in Nat /\ Len(c) = n + 1 /\ c[n + 1] = it[w] /\ n + 1 \in 1..(n + 1)
      /\ \A i \in 1..n : c[i] = ch[i] /\ i \in 1..(n + 1)
  BY SMTT(30)
<1> HIDE DEF n, c
<1>2. ASSUME NEW e \in Entries, NEW k \in 1..current[e], t[e][k]
      PROVE  \/ \E i \in 1..Len(out) : Is(out[i], e, k)
             \/ has /\ Is(p, e, k)
             \/ \E i \in 1..Len(c) : Is(c[i], e, k)
             \/ Holding(pd[e]) /\ Is(it[e], e, k)
  <2>1. \/ \E i \in 1..Len(out) : Is(out[i], e, k)
        \/ has /\ Is(p, e, k)
        \/ \E i \in 1..n : Is(ch[i], e, k)
        \/ Holding(pc[e]) /\ Is(it[e], e, k)
    BY ZenonT(40), <1>2 DEF Collected, n
  <2>2. ASSUME NEW i \in 1..n, Is(ch[i], e, k) PROVE \E j \in 1..Len(c) : Is(c[j], e, k)
    BY ZenonT(40), <1>1, <2>2
  <2>3. CASE Holding(pc[e]) /\ Is(it[e], e, k)
    BY ZenonT(40), <1>1, <2>3
  <2> QED BY ZenonT(40), <2>1, <2>2, <2>3
<1>3. Collected(t, current, pd, it, c, has, p, out)
  BY ZenonT(40), <1>2 DEF Collected
<1> QED BY ZenonT(40), <1>3 DEF c

\* The oldest item goes from the buffer to the printer.
LEMMA CollectedTake ==
  ASSUME NEW t, NEW current, NEW pc, NEW it, NEW ch \in Seq(Items), ch # <<>>, NEW p, NEW out,
         Collected(t, current, pc, it, ch, FALSE, p, out)
  PROVE  Collected(t, current, pc, it, Tail(ch), TRUE, Head(ch), out)
<1> DEFINE n == Len(ch)
           c == Tail(ch)
<1>1. /\ n \in Nat /\ n >= 1 /\ Len(c) = n - 1 /\ Head(ch) = ch[1]
      /\ \A i \in 1..(n - 1) : c[i] = ch[i + 1]
      /\ \A i \in 1..n : i = 1 \/ (i - 1 \in 1..(n - 1) /\ (i - 1) + 1 = i)
  OBVIOUS
<1> HIDE DEF n, c
<1>2. ASSUME NEW e \in Entries, NEW k, NEW i \in 1..n, Is(ch[i], e, k)
      PROVE  Is(Head(ch), e, k) \/ \E j \in 1..Len(c) : Is(c[j], e, k)
  <2>1. CASE i = 1
    BY ZenonT(40), <1>1, <1>2, <2>1
  <2>2. CASE i # 1
    <3>1. i - 1 \in 1..Len(c) /\ c[i - 1] = ch[i]
      BY ZenonT(40), <1>1, <2>2
    <3> QED BY ZenonT(40), <1>2, <3>1
  <2> QED BY ZenonT(40), <2>1, <2>2
<1>3. Collected(t, current, pc, it, c, TRUE, Head(ch), out)
  BY ZenonT(40), <1>2 DEF Collected, n
<1> QED BY ZenonT(40), <1>3 DEF c

\* The printer writes its item.
LEMMA CollectedPrint ==
  ASSUME NEW t, NEW current, NEW pc, NEW it, NEW ch, NEW p, NEW out \in Seq(Items),
         p \in Items,
         Collected(t, current, pc, it, ch, TRUE, p, out)
  PROVE  Collected(t, current, pc, it, ch, FALSE, p, Append(out, p))
<1> DEFINE n == Len(out)
           o == Append(out, p)
<1>1. /\ n \in Nat /\ Len(o) = n + 1 /\ o[n + 1] = p /\ n + 1 \in 1..(n + 1)
      /\ \A i \in 1..n : o[i] = out[i] /\ i \in 1..(n + 1)
  OBVIOUS
<1> HIDE DEF n, o
<1>2. ASSUME NEW e \in Entries, NEW k, Is(p, e, k) \/ \E i \in 1..n : Is(out[i], e, k)
      PROVE  \E i \in 1..Len(o) : Is(o[i], e, k)
  BY ZenonT(40), <1>1, <1>2
<1>3. Collected(t, current, pc, it, ch, FALSE, p, o)
  BY ZenonT(40), <1>2 DEF Collected, n
<1> QED BY ZenonT(40), <1>3 DEF o

-----------------------------------------------------------------------------
(* Every file is read.                                                     *)

\* The steps of the main thread.
LEMMA MainReads ==
  ASSUME BufferInv, FilesRead, Main
  PROVE  FilesRead'
<1> USE DEF inputVars, mainVars, workerVars, printerVars
<1>1. Startup /\ BufferTypes
  BY ZenonT(40) DEF BufferInv
<1>2. ASSUME NEW e \in Entries, CreateWorker(e) PROVE FilesRead'
  <2>1. /\ mpc = "readdir" /\ unread' = unread \ {e} /\ UNCHANGED <<kind, text, item, currentline, ppc>>
        /\ \/ mpc' = "readdir" /\ wpc' = [wpc EXCEPT ![e] = "read"]
           \/ mpc' = "crashed" /\ wpc' = wpc
    BY ZenonT(40), <1>2 DEF CreateWorker
  <2> QED BY ZenonT(40), <1>1, <2>1 DEF FilesRead, BufferTypes
<1>3. CASE JoinAll
  BY ZenonT(40), <1>3 DEF JoinAll, MainGoes, FilesRead, WorkersPosted
<1>4. CASE CreatePrinter
  <2>1. /\ mpc = "readdir" /\ unread = {} /\ mpc' \in {"insert_load", "crashed"}
        /\ UNCHANGED <<kind, text, item, currentline, wpc, unread>>
    BY ZenonT(40), <1>4 DEF CreatePrinter
  <2> QED BY ZenonT(40), <2>1 DEF FilesRead
<1>5. CASE OpenDirectory \/ \E e \in Entries : SkipEntry(e)
  <2>1. /\ mpc \in {"open", "readdir"} /\ mpc' \in {"readdir", "crashed"}
        /\ UNCHANGED <<kind, text, item, currentline, wpc>>
        /\ \A e \in Entries : e \in unread \ unread' => kind[e] # "regular"
    BY ZenonT(40), <1>5 DEF OpenDirectory, SkipEntry
  <2> QED BY ZenonT(40), <2>1 DEF FilesRead
<1>6. CASE InsertLoad \/ InsertStore \/ CloseDirectory \/ SpinEnds
  <2>1. /\ mpc \in {"insert_load", "insert_store", "closedir", "spin"}
        /\ mpc' \in {"insert_store", "closedir", "spin", "join"}
        /\ UNCHANGED <<kind, text, item, currentline, wpc, unread>>
    BY ZenonT(40), <1>6 DEF InsertLoad, InsertStore, CloseDirectory, SpinEnds, MainGoes
  <2> QED BY ZenonT(40), <2>1 DEF FilesRead
<1> QED BY ZenonT(40), <1>2, <1>3, <1>4, <1>5, <1>6 DEF Main

\* The steps of a worker: it makes the dummy item when no line is left.
LEMMA WorkerReadsOn ==
  ASSUME BufferInv, FilesRead, NEW w \in Entries, Worker(w)
  PROVE  FilesRead'
<1> USE DEF inputVars, mainVars, workerVars, printerVars
<1>1. Startup /\ BufferTypes
  BY ZenonT(40) DEF BufferInv
<1>2. CASE WorkerFaults(w)
  <2>1. mpc' = "crashed" /\ UNCHANGED <<kind, text, item, currentline, wpc, unread>>
    BY ZenonT(40), <1>2 DEF WorkerFaults
  <2> QED BY ZenonT(40), <2>1 DEF FilesRead
<1>3. CASE ReadLine(w)
  <2>1. /\ wpc[w] = "read" /\ wpc' = wpc /\ mpc \notin {"crashed", "exited"}
        /\ UNCHANGED <<kind, text, item, unread, mpc, ppc>>
        /\ \A v \in Entries \ {w} : currentline'[v] = currentline[v]
    BY ZenonT(40), <1>1, <1>3 DEF ReadLine, WorkerGoes, Running, BufferTypes
  <2> QED BY ZenonT(40), <2>1 DEF FilesRead
<1>4. CASE FindLine(w) \/ EndOfFile(w)
  <2>1. /\ wpc[w] = "read" /\ wpc'[w] = "wait_empty" /\ mpc \notin {"crashed", "exited"}
        /\ UNCHANGED <<kind, text, unread, mpc, ppc>>
        /\ \A v \in Entries \ {w} : /\ currentline'[v] = currentline[v] /\ wpc'[v] = wpc[v]
                                    /\ item'[v] = item[v]
    BY ZenonT(40), <1>1, <1>4 DEF FindLine, EndOfFile, WorkerGoes, Running, BufferTypes
  <2>2. IsDummy(item'[w]) => currentline'[w] >= Len(text[w])
    <3>1. CASE FindLine(w)
      <4>1. item'[w].linenumber = currentline[w] + 1
        BY ZenonT(40), <1>1, <3>1 DEF FindLine, BufferTypes
      <4> QED BY SMTT(30), <1>1, <4>1, MaxLinesAssumption DEF IsDummy, BufferTypes
    <3>2. CASE EndOfFile(w)
      <4>1. currentline' = currentline /\ ~ (currentline[w] < Len(text[w]))
        BY ZenonT(40), <3>2 DEF EndOfFile, HasLine
      <4>2. Len(text[w]) \in Int /\ currentline[w] \in Int
        <5>1. \A t \in Texts : Len(t) \in 0..MaxLines
          BY SMTT(30), MaxLinesAssumption DEF Texts
        <5> QED BY SMTT(30), <1>1, <5>1, MaxLinesAssumption DEF BufferTypes
      <4> QED BY SMTT(30), <4>1, <4>2
    <3> QED BY ZenonT(40), <1>4, <3>1, <3>2
  <2> QED BY ZenonT(40), <2>1, <2>2 DEF FilesRead
<1>5. CASE \/ WorkerWaitEmpty(w) \/ WorkerWaitMutex(w) \/ BufferFill(w) \/ BufferAdvance(w)
           \/ WorkerPostMutex(w) \/ WorkerPostFull(w) \/ WorkerExit(w)
  <2>1. /\ wpc[w] \notin {"none", "read"} /\ wpc'[w] # "none" /\ mpc \notin {"crashed", "exited"}
        /\ wpc'[w] \in {"close", "exited"} => IsDummy(item[w])
        /\ UNCHANGED <<kind, text, item, currentline, unread, mpc, ppc>>
        /\ \A v \in Entries \ {w} : wpc'[v] = wpc[v]
    BY ZenonT(40), <1>1, <1>5 DEF WorkerWaitEmpty, WorkerWaitMutex, BufferFill, BufferAdvance, WorkerPostMutex,
       WorkerPostFull, WorkerExit, WorkerGoes, Running, BufferTypes, FilesRead
  <2> QED BY ZenonT(40), <2>1 DEF FilesRead
<1> QED BY ZenonT(40), <1>2, <1>3, <1>4, <1>5 DEF Worker

\* Every step.
LEMMA ReadStep ==
  ASSUME BufferInv, FilesRead, [Next]_vars
  PROVE  FilesRead'
<1>1. CASE UNCHANGED vars
  <2>1. UNCHANGED <<kind, text, item, currentline, wpc, unread, mpc, ppc>>
    BY ZenonT(40), <1>1 DEF vars, inputVars, mainVars, workerVars, printerVars
  <2> QED BY ZenonT(40), <2>1 DEF FilesRead, WorkersPosted
<1>2. CASE Printer
  <2>1. UNCHANGED <<kind, text, item, currentline, wpc, unread, mpc>> /\ mpc # "exited"
    BY ZenonT(40), <1>2 DEF Printer, PrinterCheck, PrinterWaitFull, PrinterWaitMutex, BufferGet, PrinterPostMutex,
       PrinterPostEmpty, PrintItem, DecrementLoad, DecrementStore, PrinterGoes, Running,
       inputVars, mainVars, workerVars
  <2> QED BY ZenonT(40), <2>1 DEF FilesRead
<1> QED BY ZenonT(40), <1>1, <1>2, MainReads, WorkerReadsOn DEF Next

-----------------------------------------------------------------------------
(* Nothing found is lost.                                                  *)

\* A worker finishes by putting its dummy into the buffer, and by no other step.
LEMMA WorkerUnfinished ==
  ASSUME BufferInv, NEW w \in Entries, Worker(w)
  PROVE  /\ BufferFill(w) /\ IsDummy(item[w])
              => w \in Unfinished(wpc, item) /\ Unfinished(wpc', item') = Unfinished(wpc, item) \ {w}
         /\ ~ (BufferFill(w) /\ IsDummy(item[w])) => Unfinished(wpc', item') = Unfinished(wpc, item)
         /\ BufferFill(w) => w \in Unfinished(wpc, item)
<1> USE DEF inputVars, mainVars, workerVars, printerVars
<1>1. BufferTypes
  BY ZenonT(40) DEF BufferInv
<1>2. \A v \in Entries \ {w} : wpc'[v] = wpc[v] /\ item'[v] = item[v]
  BY ZenonT(40), <1>1 DEF Worker, WorkerFaults, ReadLine, FindLine, EndOfFile, WorkerWaitEmpty, WorkerWaitMutex,
     BufferFill, BufferAdvance, WorkerPostMutex, WorkerPostFull, WorkerExit, WorkerGoes, BufferTypes
<1> DEFINE In(s, x) == \/ s \in {"read", "wait_empty", "wait_mutex", "fill"}
                       \/ s \in {"advance", "post_mutex", "post_full"} /\ ~ IsDummy(x)
<1>3. CASE BufferFill(w)
  <2>1. wpc[w] = "fill" /\ wpc'[w] = "advance" /\ item' = item
    BY ZenonT(40), <1>1, <1>3 DEF BufferFill, WorkerGoes, BufferTypes
  <2> QED BY ZenonT(40), <1>2, <1>3, <2>1 DEF Unfinished
<1>4. CASE ~ BufferFill(w)
  <2>1. In(wpc'[w], item'[w]) <=> In(wpc[w], item[w])
    <3>1. CASE WorkerFaults(w)
      BY ZenonT(40), <3>1 DEF WorkerFaults
    <3>2. CASE ReadLine(w) \/ FindLine(w) \/ EndOfFile(w)
      BY ZenonT(40), <1>1, <3>2 DEF ReadLine, FindLine, EndOfFile, WorkerGoes, BufferTypes
    <3>3. CASE WorkerWaitEmpty(w) \/ WorkerWaitMutex(w) \/ BufferAdvance(w) \/ WorkerPostMutex(w)
      BY ZenonT(40), <1>1, <3>3 DEF WorkerWaitEmpty, WorkerWaitMutex, BufferAdvance, WorkerPostMutex,
         WorkerGoes, BufferTypes
    <3>4. CASE WorkerPostFull(w) \/ WorkerExit(w)
      BY ZenonT(40), <1>1, <3>4 DEF WorkerPostFull, WorkerExit, WorkerGoes, BufferTypes
    <3> QED BY ZenonT(40), <1>4, <3>1, <3>2, <3>3, <3>4 DEF Worker
  <2> QED BY ZenonT(40), <1>2, <1>4, <2>1 DEF Unfinished
<1> QED BY ZenonT(40), <1>3, <1>4

\* A step that moves nothing.
LEMMA KeptQuiet ==
  ASSUME Kept, Flow' = Flow, ptr' = ptr,
         UNCHANGED <<text, output, currentline, item>>,
         \A v \in Entries : Holding(wpc'[v]) <=> Holding(wpc[v]),
         PrinterHas(ppc) => PrinterHas(ppc'),
         Unfinished(wpc, item) \subseteq Unfinished(wpc', item')
  PROVE  Kept'
<1>1. DummyBehind(Flow, Unfinished(wpc', item'))
  BY ZenonT(40) DEF Kept, DummyBehind
<1>2. Collected(text, currentline, wpc', item, Flow, PrinterHas(ppc'), ptr, output)
  BY ZenonT(40) DEF Kept, Collected
<1> QED BY ZenonT(40), <1>1, <1>2 DEF Kept

\* The main thread starts workers and the printer, and moves nothing.
LEMMA MainLosesNothing ==
  ASSUME BufferInv, Kept, Main
  PROVE  Kept'
<1> USE DEF inputVars, mainVars, workerVars, printerVars
<1>1. Flow' = Flow /\ ptr' = ptr
  BY ZenonT(40), MainStill, FlowStays
<1>2. BufferTypes /\ Startup
  BY ZenonT(40) DEF BufferInv
<1>3. ASSUME NEW e \in Entries, CreateWorker(e) PROVE Kept'
  <2>1. /\ UNCHANGED <<text, output, currentline, item, ppc>>
        /\ wpc[e] = "none" /\ (wpc' = wpc \/ wpc' = [wpc EXCEPT ![e] = "read"])
    BY ZenonT(40), <1>2, <1>3 DEF CreateWorker, Startup
  <2>2. /\ \A v \in Entries : Holding(wpc'[v]) <=> Holding(wpc[v])
        /\ Unfinished(wpc, item) \subseteq Unfinished(wpc', item')
    BY ZenonT(40), <1>2, <2>1 DEF BufferTypes, Holding, Unfinished
  <2> QED BY ZenonT(40), <1>1, <2>1, <2>2, KeptQuiet
<1>4. CASE \/ OpenDirectory \/ InsertLoad \/ InsertStore \/ CloseDirectory \/ SpinEnds \/ JoinAll
           \/ CreatePrinter \/ \E e \in Entries : SkipEntry(e)
  <2>1. UNCHANGED <<text, output, currentline, item, wpc>> /\ (ppc = "none" \/ ppc' = ppc)
    BY ZenonT(40), <1>2, <1>4 DEF OpenDirectory, InsertLoad, InsertStore, CloseDirectory, SpinEnds, JoinAll,
       SkipEntry, CreatePrinter, Startup
  <2>2. PrinterHas(ppc) => PrinterHas(ppc')
    BY ZenonT(40), <2>1 DEF PrinterHas
  <2> QED BY ZenonT(40), <1>1, <2>1, <2>2, KeptQuiet
<1> QED BY ZenonT(40), <1>3, <1>4 DEF Main

\* A worker: a line with the keyword is with it until it is in the buffer.
LEMMA WorkerLosesNothing ==
  ASSUME BufferInv, StreamInv, Kept, NEW w \in Entries, Worker(w)
  PROVE  Kept'
<1> USE DEF inputVars, mainVars, workerVars, printerVars
<1> DEFINE U == Unfinished(wpc, item)
           V == Unfinished(wpc', item')
<1>1. BufferTypes /\ HeldRight
  BY ZenonT(40) DEF BufferInv, StreamInv
<1>2. CASE BufferFill(w)
  <2>1. item[w] \in Items /\ Flow' = Append(Flow, item[w]) /\ ptr' = ptr /\ Flow \in Seq(Items)
    BY ZenonT(40), <1>2, FlowPuts, FlowType
  <2>2. /\ UNCHANGED <<text, output, currentline, item, ppc>> /\ wpc[w] = "fill"
        /\ \A v \in Entries \ {w} : wpc'[v] = wpc[v]
    BY ZenonT(40), <1>1, <1>2 DEF BufferFill, WorkerGoes, BufferTypes
  <2>3. U \ {w} \subseteq V /\ (~ IsDummy(item[w]) => U \subseteq V /\ w \in V)
    BY ZenonT(40), <1>2, WorkerUnfinished
  <2>4. ~ IsDummy(item[w]) => item[w].filename = w
    BY ZenonT(40), <1>1, <2>2 DEF HeldRight, Holding
  <2>5. DummyBehind(Flow, U)
    BY ZenonT(40) DEF Kept
  <2> HIDE DEF U, V
  <2>6. DummyBehind(Append(Flow, item[w]), V)
    BY ZenonT(40), <2>1, <2>3, <2>4, <2>5, BehindPut
  <2>7. Collected(text, currentline, wpc, item, Flow, PrinterHas(ppc), ptr, output)
    BY ZenonT(40) DEF Kept
  <2>8. Collected(text, currentline, wpc', item, Append(Flow, item[w]), PrinterHas(ppc), ptr, output)
    BY ZenonT(40), <2>1, <2>2, <2>7, CollectedPut
  <2> QED BY ZenonT(40), <2>1, <2>2, <2>6, <2>8 DEF Kept, V
<1>3. CASE ReadLine(w) \/ FindLine(w) \/ EndOfFile(w)
  <2>1. Flow' = Flow /\ ptr' = ptr /\ V = U
    <3>1. Still
      BY ZenonT(40), <1>3, WorkerReads
    <3>2. ~ BufferFill(w)
      BY ZenonT(40), <1>3 DEF ReadLine, FindLine, EndOfFile, BufferFill, WorkerGoes
    <3> QED BY ZenonT(40), <3>1, <3>2, FlowStays, WorkerUnfinished
  <2>2. UNCHANGED <<text, output, ppc>> /\ wpc[w] = "read"
    BY ZenonT(40), <1>3 DEF ReadLine, FindLine, EndOfFile, WorkerGoes
  <2>3. /\ \A v \in Entries \ {w} : /\ wpc'[v] = wpc[v] /\ item'[v] = item[v]
                                    /\ currentline'[v] = currentline[v]
        /\ \/ currentline'[w] = currentline[w]
           \/ currentline'[w] = currentline[w] + 1 /\ ~ text[w][currentline[w] + 1]
           \/ /\ currentline'[w] = currentline[w] + 1 /\ wpc'[w] = "wait_empty"
              /\ Is(item'[w], w, currentline[w] + 1)
    BY SMTT(30), <1>1, <1>3 DEF ReadLine, FindLine, EndOfFile, WorkerGoes, BufferTypes, Is
  <2>4. /\ \A k \in 1..(currentline[w] + 1) : k \in 1..currentline[w] \/ k = currentline[w] + 1
        /\ Holding("wait_empty") /\ ~ Holding("read")
    BY SMTT(30), <1>1, MaxLinesAssumption DEF BufferTypes, Holding
  <2>5. Collected(text, currentline, wpc, item, Flow, PrinterHas(ppc), ptr, output)
    BY ZenonT(40) DEF Kept
  <2>6. ASSUME NEW e \in Entries, NEW k \in 1..currentline'[e], text[e][k]
        PROVE  \/ \E i \in 1..Len(output) : Is(output[i], e, k)
               \/ PrinterHas(ppc) /\ Is(ptr, e, k)
               \/ \E i \in 1..Len(Flow) : Is(Flow[i], e, k)
               \/ Holding(wpc'[e]) /\ Is(item'[e], e, k)
    <3>1. CASE k \in 1..currentline[e]
      BY ZenonT(40), <2>2, <2>3, <2>4, <2>5, <2>6, <3>1 DEF Collected
    <3>2. CASE k \notin 1..currentline[e]
      <4>1. e = w
        BY ZenonT(40), <2>3, <3>2
      <4>2. currentline'[w] = currentline[w] + 1 /\ k = currentline[w] + 1
        BY ZenonT(40), <2>3, <2>4, <3>2, <4>1
      <4> QED BY ZenonT(40), <2>3, <2>4, <2>6, <3>2, <4>1, <4>2
    <3> QED BY ZenonT(40), <3>1, <3>2
  <2>7. Collected(text, currentline', wpc', item', Flow, PrinterHas(ppc), ptr, output)
    BY ZenonT(40), <2>6 DEF Collected
  <2> QED BY ZenonT(40), <2>1, <2>2, <2>7 DEF Kept
<1>4. CASE \/ WorkerFaults(w) \/ WorkerWaitEmpty(w) \/ WorkerWaitMutex(w) \/ BufferAdvance(w)
           \/ WorkerPostMutex(w) \/ WorkerPostFull(w) \/ WorkerExit(w)
  <2>1. Flow' = Flow /\ ptr' = ptr
    BY ZenonT(40), <1>4, WorkerReads, WorkerWaits, WorkerAdvances, WorkerPosts, WorkerLeaves, FlowStays
  <2>2. /\ UNCHANGED <<text, output, currentline, item, ppc>>
        /\ \/ wpc' = wpc
           \/ wpc[w] = "wait_empty" /\ wpc' = [wpc EXCEPT ![w] = "wait_mutex"]
           \/ wpc[w] = "wait_mutex" /\ wpc' = [wpc EXCEPT ![w] = "fill"]
           \/ /\ wpc[w] \in {"advance", "post_mutex", "post_full", "close"}
              /\ \E s \in {"post_mutex", "post_full", "close", "exited", "read"} : wpc' = [wpc EXCEPT ![w] = s]
    BY ZenonT(40), <1>4 DEF WorkerFaults, WorkerWaitEmpty, WorkerWaitMutex, BufferAdvance, WorkerPostMutex,
       WorkerPostFull, WorkerExit, WorkerGoes
  <2>3. \A v \in Entries : Holding(wpc'[v]) <=> Holding(wpc[v])
    BY ZenonT(40), <1>1, <2>2 DEF BufferTypes, Holding
  <2>4. ~ BufferFill(w)
    BY ZenonT(40), <1>1, <2>2 DEF BufferFill, WorkerGoes, BufferTypes
  <2> QED BY ZenonT(40), <2>1, <2>2, <2>3, <2>4, WorkerUnfinished, KeptQuiet
<1> QED BY ZenonT(40), <1>2, <1>3, <1>4 DEF Worker

\* The printer writes every item it takes that is no dummy.
LEMMA PrinterLosesNothing ==
  ASSUME BufferInv, StreamInv, Kept, Printer
  PROVE  Kept'
<1> USE DEF inputVars, mainVars, workerVars
<1>1. BufferTypes /\ OutputType
  BY ZenonT(40) DEF BufferInv, StreamInv
<1>2. UNCHANGED <<text, currentline, item, wpc>>
  BY ZenonT(40) DEF Printer, PrinterCheck, PrinterWaitFull, PrinterWaitMutex, BufferGet, PrinterPostMutex,
     PrinterPostEmpty, PrintItem, DecrementLoad, DecrementStore
<1>3. CASE BufferGet
  <2>1. Flow # <<>> /\ ptr' = Head(Flow) /\ Flow' = Tail(Flow) /\ Flow \in Seq(Items)
    BY ZenonT(40), <1>3, FlowTakes, FlowType
  <2>2. output' = output /\ PrinterHas(ppc) = FALSE /\ PrinterHas(ppc') = TRUE
    BY <1>3 DEF BufferGet, PrinterGoes, PrinterHas
  <2>3. Collected(text, currentline, wpc, item, Flow, FALSE, ptr, output)
    BY ZenonT(40), <2>2 DEF Kept
  <2>4. Collected(text, currentline, wpc, item, Tail(Flow), TRUE, Head(Flow), output)
    BY ZenonT(40), <2>1, <2>3, CollectedTake
  <2>5. DummyBehind(Tail(Flow), Unfinished(wpc, item))
    BY ZenonT(40), <2>1, BehindTake DEF Kept
  <2> QED BY ZenonT(40), <1>2, <2>1, <2>2, <2>4, <2>5 DEF Kept
<1>4. CASE PrintItem
  <2>1. Flow' = Flow /\ ptr' = ptr
    BY ZenonT(40), <1>4, PrinterAway, FlowStays
  <2>2. PrinterHas(ppc) = TRUE /\ PrinterHas(ppc') = FALSE
    BY <1>4 DEF PrintItem, PrinterGoes, PrinterHas
  <2>3. output' = Append(output, ptr) /\ ptr \in Items /\ output \in Seq(Items)
    BY ZenonT(40), <1>1, <1>4 DEF PrintItem, BufferTypes, OutputType
  <2>4. Collected(text, currentline, wpc, item, Flow, TRUE, ptr, output)
    BY ZenonT(40), <2>2 DEF Kept
  <2>5. Collected(text, currentline, wpc, item, Flow, FALSE, ptr, Append(output, ptr))
    BY ZenonT(40), <2>3, <2>4, CollectedPrint
  <2> QED BY ZenonT(40), <1>2, <2>1, <2>2, <2>3, <2>5 DEF Kept
<1>5. CASE PrinterPostEmpty /\ IsDummy(ptr)
  <2>1. Flow' = Flow /\ ptr' = ptr /\ output' = output
    BY ZenonT(40), <1>5, PrinterSemaphores, FlowStays DEF PrinterPostEmpty
  <2>2. \A e \in Entries : \A n \in 1..currentline[e] : ~ Is(ptr, e, n)
    BY SMTT(30), <1>1, <1>5, MaxLinesAssumption DEF Is, IsDummy, BufferTypes
  <2>3. Collected(text, currentline, wpc, item, Flow, PrinterHas(ppc'), ptr, output)
    BY ZenonT(40), <2>2 DEF Kept, Collected
  <2> QED BY ZenonT(40), <1>2, <2>1, <2>3 DEF Kept
<1>6. CASE \/ PrinterWaitFull \/ PrinterWaitMutex \/ PrinterPostMutex
           \/ (PrinterPostEmpty /\ ~ IsDummy(ptr))
           \/ PrinterCheck \/ DecrementLoad \/ DecrementStore
  <2>1. Flow' = Flow /\ ptr' = ptr
    BY ZenonT(40), <1>6, PrinterSemaphores, PrinterAway, FlowStays
  <2>2. output' = output /\ (PrinterHas(ppc) => PrinterHas(ppc'))
    BY ZenonT(40), <1>6 DEF PrinterWaitFull, PrinterWaitMutex, PrinterPostMutex, PrinterPostEmpty, PrinterCheck,
       DecrementLoad, DecrementStore, PrinterGoes, PrinterHas
  <2> QED BY ZenonT(40), <1>2, <2>1, <2>2, KeptQuiet
<1> QED BY ZenonT(40), <1>3, <1>4, <1>5, <1>6 DEF Printer

-----------------------------------------------------------------------------
(* What threadcount counts.                                                *)

\* The threads can be counted.
LEMMA ThreadNats ==
  ASSUME BufferInv
  PROVE  /\ IsFiniteSet(Unfinished(wpc, item))
         /\ Cardinality(Unfinished(wpc, item)) \in Nat /\ Cardinality(Dummies(Flow)) \in Nat
         /\ Owed(ppc, ptr) \in {0, 1} /\ PrinterCounted(mpc, ppc) \in {0, 1} /\ Threads \in Nat
<1> DEFINE u == Cardinality(Unfinished(wpc, item))
           d == Cardinality(Dummies(Flow))
<1>1. IsFiniteSet(Unfinished(wpc, item)) /\ u \in Nat
  BY ZenonT(40), EntriesAssumption, FS_Subset, FS_CardinalityType DEF Unfinished
<1>2. d \in Nat
  BY ZenonT(40), FlowType, DummiesFinite
<1>3. Owed(ppc, ptr) \in {0, 1} /\ PrinterCounted(mpc, ppc) \in {0, 1}
  BY ZenonT(40) DEF Owed, PrinterCounted
<1>4. Threads = u + d + Owed(ppc, ptr) + PrinterCounted(mpc, ppc)
  BY ZenonT(40) DEF Threads
<1> HIDE DEF u, d
<1>5. Threads \in Nat
  BY SMTT(30), <1>1, <1>2, <1>3, <1>4
<1> QED BY ZenonT(40), <1>1, <1>2, <1>3, <1>5 DEF u, d

\* When neither an unfinished worker nor a dummy item is left, nothing is.
LEMMA NothingLeft ==
  ASSUME BufferInv, Kept, Cardinality(Unfinished(wpc, item)) + Cardinality(Dummies(Flow)) = 0
  PROVE  WorkersPosted /\ Occupied = 0
<1>1. Unfinished(wpc, item) = {} /\ Dummies(Flow) = {}
  <2>1. Cardinality(Unfinished(wpc, item)) = 0 /\ Cardinality(Dummies(Flow)) = 0
    BY SMTT(30), ThreadNats
  <2>2. IsFiniteSet(Unfinished(wpc, item)) /\ IsFiniteSet(Dummies(Flow))
    BY ZenonT(40), ThreadNats, FlowType, DummiesFinite
  <2> QED BY ZenonT(40), <2>1, <2>2, FS_EmptySet
<1>2. Occupied \in 0..BufferSize /\ Len(Flow) = Occupied /\ (Posters # {} => Occupied >= 1)
  <2>1. /\ buffer \in [0..(BufferSize - 1) -> Items] /\ buffer_use \in 0..(BufferSize - 1)
        /\ Occupied \in 0..BufferSize
    BY ZenonT(40), OccupiedBounds DEF BufferInv, BufferTypes
  <2> QED BY SMTT(30), <2>1, OccupiedBounds, ContentType DEF Flow
<1>3. ASSUME NEW i \in 1..Len(Flow) PROVE FALSE
  BY ZenonT(40), <1>1, <1>3 DEF Kept, DummyBehind, Dummies
<1>4. Occupied = 0
  <2>1. Occupied # 0 => 1 \in 1..Len(Flow)
    BY SMTT(30), <1>2, BufferSizeAssumption
  <2> QED BY ZenonT(40), <1>3, <2>1
<1>5. WorkersPosted
  <2> SUFFICES ASSUME NEW e \in Entries, wpc[e] \notin {"none", "close", "exited"} PROVE FALSE
    BY ZenonT(40) DEF WorkersPosted
  <2>1. wpc[e] \in WorkerPCs
    BY ZenonT(40) DEF BufferInv, BufferTypes
  <2>2. wpc[e] \in {"advance", "post_mutex", "post_full"}
    BY ZenonT(40), <1>1, <2>1 DEF Unfinished, WorkerPCs
  <2> QED BY SMTT(30), <1>2, <1>4, <2>2 DEF Posters
<1> QED BY ZenonT(40), <1>4, <1>5

\* threadcount and the end of the printer, for a step of the main thread.
LEMMA MainCounts ==
  ASSUME BufferInv, ThreadsCounted, PrinterIsLast, ~ raced, Main
  PROVE  ThreadsCounted' /\ PrinterIsLast'
<1> USE DEF inputVars, mainVars, workerVars, printerVars
<1>1. Flow' = Flow /\ ptr' = ptr /\ Occupied' = Occupied
  BY ZenonT(40), MainStill, FlowStays DEF Still
<1>2. BufferTypes /\ Startup
  BY ZenonT(40) DEF BufferInv
<1>3. ASSUME UNCHANGED <<wpc, item, ppc, ptr>>, PrinterCounted(mpc', ppc') = PrinterCounted(mpc, ppc)
      PROVE  Threads' = Threads
  BY ZenonT(40), <1>1, <1>3 DEF Threads
<1>4. ASSUME NEW e \in Entries, CreateWorker(e) PROVE ThreadsCounted' /\ PrinterIsLast'
  <2>1. /\ ppc = "none" /\ ppc' = ppc /\ item' = item /\ wpc[e] = "none" /\ mpc = "readdir"
        /\ \/ mpc' = mpc /\ wpc' = [wpc EXCEPT ![e] = "read"] /\ threadcount' = threadcount + 1
           \/ mpc' = "crashed"
    BY ZenonT(40), <1>2, <1>4 DEF CreateWorker, Startup
  <2>2. PrinterIsLast'
    BY ZenonT(40), <2>1 DEF PrinterIsLast
  <2>3. CASE mpc' = "crashed"
    BY ZenonT(40), <2>1, <2>2, <2>3 DEF ThreadsCounted
  <2>4. CASE mpc' = mpc /\ wpc' = [wpc EXCEPT ![e] = "read"] /\ threadcount' = threadcount + 1
    <3>1. /\ Unfinished(wpc', item') = Unfinished(wpc, item) \cup {e}
          /\ e \notin Unfinished(wpc, item)
      BY ZenonT(40), <1>2, <2>1, <2>4 DEF Unfinished, BufferTypes
    <3>2. Cardinality(Unfinished(wpc', item')) = Cardinality(Unfinished(wpc, item)) + 1
      BY ZenonT(40), <3>1, ThreadNats, CountOne
    <3>3. Threads' = Cardinality(Unfinished(wpc', item')) + Cardinality(Dummies(Flow'))
                       + Owed(ppc', ptr') + PrinterCounted(mpc', ppc')
      BY ZenonT(40) DEF Threads
    <3>4. Threads' = Threads + 1
      <4> DEFINE u == Cardinality(Unfinished(wpc, item))
                 d == Cardinality(Dummies(Flow))
                 o == Owed(ppc, ptr)
                 c == PrinterCounted(mpc, ppc)
      <4>1. u \in Nat /\ d \in Nat /\ o \in {0, 1} /\ c \in {0, 1}
        BY ZenonT(40), ThreadNats
      <4>2. Threads' = (u + 1) + d + o + c
        BY ZenonT(40), <1>1, <2>1, <2>4, <3>2, <3>3
      <4>3. Threads = u + d + o + c
        BY ZenonT(40) DEF Threads
      <4> HIDE DEF u, d, o, c
      <4> QED BY SMTT(30), <4>1, <4>2, <4>3
    <3> QED BY ZenonT(40), <2>1, <2>2, <2>4, <3>4 DEF ThreadsCounted
  <2> QED BY ZenonT(40), <2>1, <2>2, <2>3, <2>4
<1>5. CASE CreatePrinter
  <2>1. /\ ppc = "none" /\ UNCHANGED <<wpc, item, ptr, threadcount>> /\ mpc = "readdir"
        /\ ppc' \in {"none", "check"} /\ mpc' \in {"insert_load", "crashed"}
    BY ZenonT(40), <1>2, <1>5 DEF CreatePrinter, Startup
  <2>2. Owed(ppc', ptr') = Owed(ppc, ptr) /\ PrinterCounted(mpc', ppc') = PrinterCounted(mpc, ppc)
    BY ZenonT(40), <2>1 DEF Owed, PrinterCounted
  <2>3. Threads' = Threads
    BY ZenonT(40), <1>1, <2>1, <2>2 DEF Threads
  <2> QED BY ZenonT(40), <2>1, <2>3 DEF ThreadsCounted, PrinterIsLast
<1>6. CASE InsertStore
  <2>1. /\ UNCHANGED <<wpc, item, ppc, ptr, raced>> /\ mpc = "insert_store" /\ mpc' = "closedir"
        /\ threadcount' = mreg + 1
    BY ZenonT(40), <1>6 DEF InsertStore, MainGoes
  <2>2. mreg = Threads /\ ppc \in {"none", "check"}
    BY ZenonT(40), <2>1 DEF ThreadsCounted
  <2>3. PrinterCounted(mpc, ppc) = 0 /\ PrinterCounted(mpc', ppc') = 1
    BY ZenonT(40), <2>1, <2>2 DEF PrinterCounted
  <2>4. Threads' = Threads + 1
    <3> DEFINE a == Cardinality(Unfinished(wpc, item)) + Cardinality(Dummies(Flow)) + Owed(ppc, ptr)
    <3>1. a \in Nat
      BY SMTT(30), ThreadNats
    <3>2. Threads = a + 0 /\ Threads' = a + 1
      BY ZenonT(40), <1>1, <2>1, <2>3 DEF Threads
    <3> HIDE DEF a
    <3> QED BY SMTT(30), <3>1, <3>2
  <2> QED BY ZenonT(40), <2>1, <2>2, <2>4 DEF ThreadsCounted, PrinterIsLast
<1>7. CASE \/ OpenDirectory \/ InsertLoad \/ CloseDirectory \/ SpinEnds \/ JoinAll
           \/ \E e \in Entries : SkipEntry(e)
  <2>1. /\ UNCHANGED <<wpc, item, ppc, ptr, preg, raced, threadcount>>
        /\ \/ mpc \in {"open", "readdir"} /\ mpc' \in {"readdir", "crashed"}
           \/ mpc = "insert_load" /\ mpc' = "insert_store" /\ mreg' = threadcount
           \/ mpc \in {"closedir", "spin", "join"} /\ mpc' \in {"spin", "join", "exited"}
    BY ZenonT(40), <1>7 DEF OpenDirectory, InsertLoad, CloseDirectory, SpinEnds, JoinAll, SkipEntry, MainGoes
  <2>2. PrinterCounted(mpc', ppc') = PrinterCounted(mpc, ppc)
    BY ZenonT(40), <2>1 DEF PrinterCounted
  <2>3. Threads' = Threads
    BY ZenonT(40), <1>3, <2>1, <2>2
  <2> QED BY ZenonT(40), <1>1, <2>1, <2>3 DEF ThreadsCounted, PrinterIsLast, WorkersPosted
<1> QED BY ZenonT(40), <1>4, <1>5, <1>6, <1>7 DEF Main

\* The same for a step of a worker: putting its dummy into the buffer it stays counted.
LEMMA WorkerCounts ==
  ASSUME BufferInv, ThreadsCounted, PrinterIsLast, ~ raced, NEW w \in Entries, Worker(w)
  PROVE  ThreadsCounted' /\ PrinterIsLast'
<1> USE DEF inputVars, mainVars, workerVars, printerVars
<1>1. UNCHANGED <<ppc, ptr, preg, raced, mreg, threadcount>> /\ (mpc' = mpc \/ mpc' = "crashed")
        /\ (wpc[w] \notin {"none", "close", "exited"} \/ WorkerExit(w))
  BY ZenonT(40) DEF Worker, WorkerFaults, ReadLine, FindLine, EndOfFile, WorkerWaitEmpty, WorkerWaitMutex,
     BufferFill, BufferAdvance, WorkerPostMutex, WorkerPostFull, WorkerExit, WorkerGoes
<1>2. PrinterIsLast'
  <2>1. CASE wpc[w] \notin {"none", "close", "exited"}
    BY ZenonT(40), <1>1, <2>1 DEF PrinterIsLast, WorkersPosted
  <2>2. CASE WorkerExit(w)
    <3>1. wpc' = [wpc EXCEPT ![w] = "exited"]
      BY ZenonT(40), <2>2 DEF WorkerExit, WorkerGoes
    <3>2. Occupied' = Occupied /\ wpc \in [Entries -> WorkerPCs]
      BY ZenonT(40), <2>2, WorkerLeaves DEF Still, BufferInv, BufferTypes
    <3> QED BY ZenonT(40), <1>1, <3>1, <3>2 DEF PrinterIsLast, WorkersPosted
  <2> QED BY ZenonT(40), <1>1, <2>1, <2>2
<1> DEFINE u == Cardinality(Unfinished(wpc, item))
           d == Cardinality(Dummies(Flow))
<1>3. u \in Nat /\ d \in Nat /\ Flow \in Seq(Items)
  BY ZenonT(40), ThreadNats, FlowType
<1>4. Cardinality(Unfinished(wpc', item')) + Cardinality(Dummies(Flow')) = u + d
  <2>1. CASE BufferFill(w) /\ IsDummy(item[w])
    <3>1. Cardinality(Unfinished(wpc', item')) = u - 1
      BY ZenonT(40), <2>1, WorkerUnfinished, ThreadNats, CountOne
    <3>2. Cardinality(Dummies(Flow')) = d + 1
      BY ZenonT(40), <1>3, <2>1, FlowPuts, DummiesPut
    <3> HIDE DEF u, d
    <3> QED BY SMTT(30), <1>3, <3>1, <3>2
  <2>2. CASE BufferFill(w) /\ ~ IsDummy(item[w])
    <3>1. Unfinished(wpc', item') = Unfinished(wpc, item)
      BY ZenonT(40), <2>2, WorkerUnfinished
    <3>2. Cardinality(Dummies(Flow')) = d + 0
      BY ZenonT(40), <1>3, <2>2, FlowPuts, DummiesPut
    <3> HIDE DEF d
    <3> QED BY SMTT(30), <1>3, <3>1, <3>2
  <2>3. CASE ~ BufferFill(w)
    <3>1. Unfinished(wpc', item') = Unfinished(wpc, item)
      BY ZenonT(40), <2>3, WorkerUnfinished
    <3>2. Flow' = Flow
      BY ZenonT(40), <2>3, WorkerReads, WorkerWaits, WorkerAdvances, WorkerPosts, WorkerLeaves, FlowStays
         DEF Worker
    <3> QED BY ZenonT(40), <3>1, <3>2
  <2> QED BY ZenonT(40), <2>1, <2>2, <2>3
<1>5. mpc' = mpc => Threads' = Threads
  BY ZenonT(40), <1>1, <1>4 DEF Threads
<1> QED BY ZenonT(40), <1>1, <1>2, <1>5 DEF ThreadsCounted

\* The same for a step of the printer: it leaves its loop when it is the only thread left.
LEMMA PrinterCounts ==
  ASSUME BufferInv, Kept, ThreadsCounted, PrinterIsLast, ~ raced, ~ raced', Startup,
         mpc \in MainPCs, Printer
  PROVE  ThreadsCounted' /\ PrinterIsLast'
<1> USE DEF inputVars, mainVars, workerVars
<1> DEFINE u == Cardinality(Unfinished(wpc, item))
           d == Cardinality(Dummies(Flow))
           o == Owed(ppc, ptr)
           c == PrinterCounted(mpc, ppc)
<1>1. u \in Nat /\ d \in Nat /\ o \in {0, 1} /\ c \in {0, 1} /\ Flow \in Seq(Items)
  BY ZenonT(40), ThreadNats, FlowType
<1>2. /\ UNCHANGED <<item, wpc, mpc, mreg>> /\ mpc \notin {"crashed", "exited"}
      /\ (DecrementStore \/ threadcount' = threadcount)
  BY ZenonT(40) DEF Printer, PrinterCheck, PrinterWaitFull, PrinterWaitMutex, BufferGet, PrinterPostMutex,
     PrinterPostEmpty, PrintItem, DecrementLoad, DecrementStore, PrinterGoes, Running
<1>3. threadcount = u + d + o + c
  BY ZenonT(40), <1>2 DEF ThreadsCounted, Threads
<1>4. Threads' = u + Cardinality(Dummies(Flow')) + Owed(ppc', ptr') + PrinterCounted(mpc', ppc')
  BY ZenonT(40), <1>2 DEF Threads
<1>5. mpc \in {"open", "readdir", "insert_load", "insert_store"} => ppc \in {"none", "check"}
  BY ZenonT(40) DEF ThreadsCounted
<1> HIDE DEF u, d, o, c
<1>6. CASE BufferGet
  <2>1. /\ ppc = "get" /\ ppc' = "post_mutex"
        /\ mpc \notin {"open", "readdir", "insert_load", "insert_store"}
    BY ZenonT(40), <1>5, <1>6 DEF BufferGet, PrinterGoes
  <2>2. d = Cardinality(Dummies(Flow')) + (IF IsDummy(ptr') THEN 1 ELSE 0)
    BY ZenonT(40), <1>1, <1>6, FlowTakes, DummiesTake DEF d
  <2>3. o = 0 /\ Owed(ppc', ptr') = (IF IsDummy(ptr') THEN 1 ELSE 0) /\ PrinterCounted(mpc', ppc') = c
    BY ZenonT(40), <1>2, <2>1 DEF o, c, Owed, PrinterCounted
  <2>4. Cardinality(Dummies(Flow')) \in Nat
    <3>1. BufferInv'
      BY ZenonT(40), <1>6, PrinterTakes
    <3>2. Flow' \in Seq(Items)
      BY SMTT(30), <1>1, <1>6, FlowTakes
    <3> QED BY ZenonT(40), <3>2, DummiesFinite
  <2>5. Threads' = threadcount
    <3> DEFINE z == IF IsDummy(ptr') THEN 1 ELSE 0
               y == Cardinality(Dummies(Flow'))
    <3>1. z \in {0, 1} /\ y \in Nat /\ d = y + z /\ Threads' = u + y + z + c
      BY ZenonT(40), <1>4, <2>2, <2>3, <2>4
    <3> HIDE DEF z, y
    <3> QED BY SMTT(30), <1>1, <1>3, <2>3, <3>1
  <2>6. threadcount' = threadcount
    BY ZenonT(40), <1>6 DEF BufferGet
  <2> QED BY ZenonT(40), <1>2, <2>1, <2>5, <2>6 DEF ThreadsCounted, PrinterIsLast
<1>7. CASE ~ BufferGet
  <2>1. Flow' = Flow /\ ptr' = ptr /\ Occupied' = Occupied
    BY ZenonT(40), <1>7, PrinterSemaphores, PrinterAway, FlowStays DEF Still, Printer
  <2>2. Threads' = u + d + Owed(ppc', ptr) + PrinterCounted(mpc, ppc')
    BY ZenonT(40), <1>2, <1>4, <2>1 DEF d
  <2>3. CASE PrinterCheck
    <3>1. /\ ppc = "check" /\ ppc' = IF threadcount # 1 THEN "wait_full" ELSE "leave_load"
          /\ mpc \notin {"insert_load", "insert_store"} /\ threadcount' = threadcount
      BY ZenonT(40), <2>3 DEF PrinterCheck, PrinterGoes
    <3>2. mpc \notin {"open", "readdir"}
      BY ZenonT(40), <3>1 DEF Startup
    <3>3. c = 1 /\ o = 0 /\ Owed(ppc', ptr) = 0 /\ PrinterCounted(mpc, ppc') = 1
      BY ZenonT(40), <1>2, <3>1, <3>2 DEF MainPCs, c, o, Owed, PrinterCounted
    <3>4. threadcount = u + d + 1 /\ Threads' = u + d + 1
      BY SMTT(30), <1>1, <1>3, <2>2, <3>3
    <3>5. ppc' = "leave_load" => u + d = 0
      BY SMTT(30), <1>1, <3>1, <3>4
    <3>6. ppc' = "leave_load" => WorkersPosted /\ Occupied = 0
      BY ZenonT(40), <3>5, NothingLeft DEF u, d
    <3>7. PrinterIsLast'
      BY ZenonT(40), <1>2, <2>1, <3>1, <3>6 DEF PrinterIsLast, WorkersPosted
    <3> QED BY ZenonT(40), <1>2, <3>1, <3>2, <3>4, <3>7 DEF ThreadsCounted
  <2>4. CASE DecrementStore
    <3>1. /\ \/ ppc = "dec_store" /\ ppc' = "check"
             \/ ppc = "leave_store" /\ ppc' = "exited"
          /\ threadcount' = preg - 1
      BY ZenonT(40), <2>4 DEF DecrementStore, PrinterGoes
    <3>2. mpc \in {"closedir", "spin", "join"} /\ preg = threadcount
      BY ZenonT(40), <1>2, <1>5, <3>1 DEF ThreadsCounted, MainPCs
    <3>3. Owed(ppc', ptr) + PrinterCounted(mpc, ppc') = o + c - 1
            /\ {Owed(ppc', ptr), PrinterCounted(mpc, ppc')} \subseteq Int
      BY SMTT(30), <3>1, <3>2 DEF o, c, Owed, PrinterCounted
    <3>4. Threads' = threadcount'
      BY SMTT(30), <1>1, <1>3, <2>2, <3>1, <3>2, <3>3
    <3>5. PrinterIsLast'
      BY ZenonT(40), <1>2, <2>1, <3>1 DEF PrinterIsLast, WorkersPosted
    <3> QED BY ZenonT(40), <1>2, <3>1, <3>2, <3>4, <3>5 DEF ThreadsCounted
  <2>5. CASE \/ PrinterWaitFull \/ PrinterWaitMutex \/ PrinterPostMutex \/ PrinterPostEmpty
             \/ PrintItem \/ DecrementLoad
    <3>1. /\ threadcount' = threadcount
          /\ \/ ppc = "wait_full" /\ ppc' = "wait_mutex"
             \/ ppc = "wait_mutex" /\ ppc' = "get"
             \/ ppc = "post_mutex" /\ ppc' = "post_empty"
             \/ ppc = "post_empty" /\ ppc' = IF IsDummy(ptr) THEN "dec_load" ELSE "print"
             \/ ppc = "print" /\ ppc' = "check"
             \/ ppc = "dec_load" /\ ppc' = "dec_store" /\ preg' = threadcount
             \/ ppc = "leave_load" /\ ppc' = "leave_store" /\ preg' = threadcount
      BY ZenonT(40), <2>5 DEF PrinterWaitFull, PrinterWaitMutex, PrinterPostMutex, PrinterPostEmpty, PrintItem,
         DecrementLoad, PrinterGoes
    <3>2. Owed(ppc', ptr) = o /\ PrinterCounted(mpc, ppc') = c
      BY ZenonT(40), <3>1 DEF o, c, Owed, PrinterCounted
    <3>3. mpc \notin {"open", "readdir", "insert_load", "insert_store"}
      BY ZenonT(40), <1>5, <3>1
    <3>4. PrinterIsLast'
      BY ZenonT(40), <1>2, <2>1, <3>1 DEF PrinterIsLast, WorkersPosted
    <3> QED BY ZenonT(40), <1>2, <1>3, <2>2, <3>1, <3>2, <3>3, <3>4 DEF ThreadsCounted
  <2> QED BY ZenonT(40), <1>7, <2>3, <2>4, <2>5 DEF Printer
<1> QED BY ZenonT(40), <1>6, <1>7

-----------------------------------------------------------------------------
(* The theorems.                                                           *)

\* The types are kept by every step.
LEMMA TypesStep ==
  ASSUME ThreadTypes, [Next]_vars
  PROVE  ThreadTypes'
<1> USE DEF inputVars, mainVars, workerVars, printerVars
<1>1. mpc \in MainPCs /\ threadcount \in Int /\ mreg \in Int /\ preg \in Int
  BY ZenonT(40) DEF ThreadTypes
<1>2. CASE UNCHANGED vars
  BY ZenonT(40), <1>2 DEF vars, ThreadTypes
<1>3. CASE Main
  <2>1. mpc' \in MainPCs /\ threadcount' \in Int /\ mreg' \in Int /\ preg' \in Int
    <3>1. CASE OpenDirectory \/ CreatePrinter \/ CloseDirectory \/ SpinEnds \/ JoinAll
      BY ZenonT(40), <1>1, <3>1 DEF OpenDirectory, CreatePrinter, CloseDirectory, SpinEnds, JoinAll, MainGoes, MainPCs
    <3>2. CASE InsertLoad \/ InsertStore
      BY SMTT(30), <1>1, <3>2 DEF InsertLoad, InsertStore, MainGoes, MainPCs
    <3>3. ASSUME NEW e \in Entries, SkipEntry(e) \/ CreateWorker(e)
          PROVE  mpc' \in MainPCs /\ threadcount' \in Int /\ mreg' \in Int /\ preg' \in Int
      <4>1. mpc' \in {mpc, "crashed"} /\ threadcount' \in {threadcount, threadcount + 1}
        BY ZenonT(40), <3>3 DEF SkipEntry, CreateWorker
      <4>2. mreg' = mreg /\ preg' = preg
        BY <3>3, ZenonT(40) DEF SkipEntry, CreateWorker, printerVars
      <4> QED BY SMTT(30), <1>1, <4>1, <4>2 DEF MainPCs
    <3> QED BY ZenonT(40), <1>3, <3>1, <3>2, <3>3 DEF Main
  <2>2. raced' = raced
    BY ZenonT(40), <1>3 DEF Main, OpenDirectory, CreatePrinter, InsertLoad, InsertStore, CloseDirectory,
       SpinEnds, JoinAll, SkipEntry, CreateWorker
  <2> QED BY ZenonT(40), <1>1, <2>1, <2>2 DEF ThreadTypes
<1>4. CASE Printer
  <2>1. mpc' = mpc /\ threadcount' \in Int /\ mreg' = mreg /\ preg' \in Int
    <3>1. CASE DecrementLoad
      BY ZenonT(40), <1>1, <3>1 DEF DecrementLoad
    <3>2. CASE DecrementStore
      BY SMTT(30), <1>1, <3>2 DEF DecrementStore
    <3>3. CASE \/ PrinterCheck \/ PrinterWaitFull \/ PrinterWaitMutex \/ BufferGet
               \/ PrinterPostMutex \/ PrinterPostEmpty \/ PrintItem
      <4>1. UNCHANGED <<mpc, threadcount, mreg, preg>>
        BY ZenonT(40), <3>3 DEF PrinterCheck, PrinterWaitFull, PrinterWaitMutex, BufferGet,
           PrinterPostMutex, PrinterPostEmpty, PrintItem
      <4> QED BY ZenonT(40), <1>1, <4>1
    <3> QED BY ZenonT(40), <1>4, <3>1, <3>2, <3>3 DEF Printer
  <2>2. raced' = raced \/ raced' = (raced \/ mpc \in {"insert_load", "insert_store"})
    BY ZenonT(40), <1>4 DEF Printer, PrinterCheck, PrinterWaitFull, PrinterWaitMutex, BufferGet,
       PrinterPostMutex, PrinterPostEmpty, PrintItem, DecrementLoad, DecrementStore
  <2> QED BY ZenonT(40), <1>1, <2>1, <2>2 DEF ThreadTypes
<1>5. ASSUME NEW w \in Entries, Worker(w) PROVE ThreadTypes'
  <2>1. UNCHANGED <<threadcount, mreg, preg, raced>> /\ (mpc' = mpc \/ mpc' = "crashed")
    BY ZenonT(40), <1>5 DEF Worker, WorkerFaults, ReadLine, FindLine, EndOfFile, WorkerWaitEmpty, WorkerWaitMutex,
       BufferFill, BufferAdvance, WorkerPostMutex, WorkerPostFull, WorkerExit
  <2>2. mpc' \in MainPCs
    BY ZenonT(40), <1>1, <2>1 DEF MainPCs
  <2> QED BY ZenonT(40), <1>1, <2>1, <2>2 DEF ThreadTypes
<1> QED BY ZenonT(40), <1>2, <1>3, <1>4, <1>5 DEF Next

\* Whether the printer raced is never forgotten.
LEMMA RacedStays ==
  ASSUME [Next]_vars, raced
  PROVE  raced'
<1> USE DEF inputVars, mainVars, workerVars, printerVars
<1>1. CASE UNCHANGED vars
  BY ZenonT(40), <1>1 DEF vars
<1>2. CASE Main
  BY ZenonT(40), <1>2 DEF Main, OpenDirectory, CreatePrinter, InsertLoad, InsertStore, CloseDirectory, SpinEnds,
     JoinAll, SkipEntry, CreateWorker
<1>3. CASE Printer
  BY ZenonT(40), <1>3 DEF Printer, PrinterCheck, PrinterWaitFull, PrinterWaitMutex, BufferGet, PrinterPostMutex,
     PrinterPostEmpty, PrintItem, DecrementLoad, DecrementStore
<1>4. ASSUME NEW w \in Entries, Worker(w) PROVE raced'
  BY ZenonT(40), <1>4 DEF Worker, WorkerFaults, ReadLine, FindLine, EndOfFile, WorkerWaitEmpty, WorkerWaitMutex,
     BufferFill, BufferAdvance, WorkerPostMutex, WorkerPostFull, WorkerExit
<1> QED BY ZenonT(40), <1>1, <1>2, <1>3, <1>4 DEF Next

SearchInv == BufferInv /\ StreamInv /\ CompleteInv

\* The start: nothing is read, and no thread is there.
LEMMA InitSearch == Init => SearchInv
<1> SUFFICES ASSUME Init PROVE SearchInv
  BY ZenonT(40)
<1>1. BufferInv /\ Occupied = 0 /\ Flow = <<>>
  BY SMTT(30), InitBuffer DEF Flow, Content
<1>2. StreamInv
  BY ZenonT(40), InitStream
<1>3. ThreadTypes
  <2>1. mpc = "open" /\ raced = FALSE /\ threadcount = 0 /\ mreg = 0 /\ preg = 0
    BY ZenonT(40) DEF Init, create_list
  <2>2. mpc \in MainPCs /\ threadcount \in Int /\ mreg \in Int /\ preg \in Int
    BY SMTT(30), <2>1 DEF MainPCs
  <2> QED BY ZenonT(40), <2>1, <2>2 DEF ThreadTypes
<1>4. Unfinished(wpc, item) = {} /\ Dummies(Flow) = {}
  <2>1. \A e \in Entries : wpc[e] = "none"
    BY ZenonT(40) DEF Init
  <2>2. 1..Len(Flow) = {}
    BY <1>1
  <2> QED BY ZenonT(40), <2>1, <2>2 DEF Unfinished, Dummies
<1>5. Kept
  <2>1. \A e \in Entries : 1..currentline[e] = {}
    BY SMTT(30) DEF Init
  <2>2. 1..Len(Flow) = {}
    BY SMTT(30), <1>1
  <2> QED BY ZenonT(40), <2>1, <2>2 DEF Kept, DummyBehind, Collected
<1>6. FilesRead
  BY ZenonT(40) DEF Init, FilesRead
<1>7. ThreadsCounted
  <2>1. Owed(ppc, ptr) = 0 /\ PrinterCounted(mpc, ppc) = 0
    BY ZenonT(40) DEF Init, Owed, PrinterCounted
  <2>2. Cardinality(Unfinished(wpc, item)) = 0 /\ Cardinality(Dummies(Flow)) = 0
    BY ZenonT(40), <1>4, FS_EmptySet
  <2>3. threadcount = 0 /\ mpc = "open" /\ ppc = "none"
    BY ZenonT(40) DEF Init, create_list
  <2>4. Threads = 0
    BY SMTT(30), <2>1, <2>2 DEF Threads
  <2> QED BY ZenonT(40), <2>3, <2>4 DEF ThreadsCounted
<1>8. PrinterIsLast
  BY ZenonT(40) DEF Init, PrinterIsLast
<1> QED BY ZenonT(40), <1>1, <1>2, <1>3, <1>5, <1>6, <1>7, <1>8 DEF SearchInv, CompleteInv

\* Every step.
LEMMA SearchStep ==
  ASSUME SearchInv, [Next]_vars
  PROVE  SearchInv'
<1>1. /\ BufferInv /\ StreamInv /\ ThreadTypes /\ Kept /\ FilesRead
      /\ ~ raced => ThreadsCounted /\ PrinterIsLast
  BY ZenonT(40) DEF SearchInv, CompleteInv
<1>2. BufferInv' /\ StreamInv' /\ ThreadTypes' /\ FilesRead'
  BY ZenonT(40), <1>1, BufferStep, StreamStep, TypesStep, ReadStep
<1>3. CASE UNCHANGED vars
  <2>1. /\ UNCHANGED <<text, currentline, wpc, item, ptr, output, ppc, mpc, threadcount, mreg, preg, raced>>
        /\ UNCHANGED <<buffer, buffer_use, buffer_full>>
    BY ZenonT(40), <1>3 DEF vars, inputVars, mainVars, workerVars, printerVars, semVars, ringVars
  <2>2. Occupied' = Occupied
    BY ZenonT(40), <2>1 DEF Occupied
  <2>3. Flow' = Flow
    BY ZenonT(40), <2>1, <2>2 DEF Flow, Content
  <2>4. Kept'
    BY ZenonT(40), <1>1, <2>1, <2>3 DEF Kept
  <2>5. Threads' = Threads
    BY ZenonT(40), <2>1, <2>3 DEF Threads
  <2>6. ~ raced' => ThreadsCounted' /\ PrinterIsLast'
    BY ZenonT(40), <1>1, <2>1, <2>2, <2>5 DEF ThreadsCounted, PrinterIsLast, WorkersPosted
  <2> QED BY ZenonT(40), <1>2, <2>4, <2>6 DEF SearchInv, CompleteInv
<1>4. CASE Next
  <2>1. Kept'
    BY ZenonT(40), <1>1, <1>4, MainLosesNothing, WorkerLosesNothing, PrinterLosesNothing DEF Next
  <2>2. ASSUME ~ raced' PROVE ThreadsCounted' /\ PrinterIsLast'
    <3>1. ~ raced /\ Startup /\ mpc \in MainPCs
      BY ZenonT(40), <1>1, <2>2, RacedStays DEF BufferInv, ThreadTypes
    <3> QED BY ZenonT(40), <1>1, <1>4, <2>2, <3>1, MainCounts, WorkerCounts, PrinterCounts DEF Next
  <2> QED BY ZenonT(40), <1>2, <2>1, <2>2 DEF SearchInv, CompleteInv
<1> QED BY ZenonT(40), <1>3, <1>4

\* The invariant of the search process.
LEMMA SearchAlways == Spec => []SearchInv
BY InitSearch, SearchStep, PTL DEF Spec

\* For every directory and <buffersize>: the indices stay inside the buffer, the semaphores
\* between 0 and <buffersize>, and the second stream of a worker is never ahead of the first.
THEOREM SearchTypes == Spec => []TypeOK
<1>1. SearchInv => TypeOK
  <2> SUFFICES ASSUME SearchInv PROVE TypeOK
    BY ZenonT(40)
  <2>1. BufferTypes /\ Startup /\ SlotsCounted /\ StreamInv /\ ThreadTypes /\ OutputType /\ BufferInv
    BY ZenonT(40) DEF SearchInv, CompleteInv, BufferInv, StreamInv
  <2>2. buffer_empty \in 0..BufferSize /\ buffer_full \in 0..BufferSize
    <3> DEFINE f == Cardinality(Fillers)
               p == Cardinality(Posters)
    <3>1. f \in Nat /\ p \in Nat /\ buffer_empty \in Nat /\ buffer_full \in Nat
            /\ PrinterHolds \in {0, 1} /\ PrinterFrees \in {0, 1}
      BY ZenonT(40), <2>1, CountsNat DEF BufferTypes, PrinterHolds, PrinterFrees
    <3>2. Occupied = buffer_full + p + PrinterHolds /\ buffer_empty + f + Occupied + PrinterFrees = BufferSize
      BY ZenonT(40), <2>1, OccupiedIs DEF SlotsCounted
    <3> HIDE DEF f, p
    <3> QED BY SMTT(30), <3>1, <3>2, BufferSizeAssumption
  <2>3. output \in Seq(Items)
    BY ZenonT(40), <2>1 DEF OutputType
  <2>4. \A e \in Entries : lineptr[e] \in 0..currentline[e] /\ lastsavedline[e] \in 0..currentline[e]
    BY SMTT(30), <2>1, MaxLinesAssumption DEF BufferTypes
  <2> QED BY ZenonT(40), <2>1, <2>2, <2>3, <2>4 DEF TypeOK, BufferTypes, ThreadTypes, Startup
<1> QED BY <1>1, SearchAlways, PTL

\* For every directory and <buffersize>, unless the printer reads threadcount before
\* insert_tail(printerNode) has counted it: print_buffer() leaves its loop only when every
\* worker has posted its dummy item and the buffer is empty.
THEOREM PrinterLeavesLast == Spec => []PrinterIsLast
<1>1. SearchInv => PrinterIsLast
  BY ZenonT(40) DEF SearchInv, CompleteInv, PrinterIsLast
<1> QED BY <1>1, SearchAlways, PTL

\* Under the same proviso, for every directory, all lengths of the files and every
\* <buffersize>: a search process that exits has written exactly the lines with the keyword.
THEOREM OutputIsComplete == Spec => []CompleteOutput
<1>1. SearchInv => CompleteOutput
  <2> SUFFICES ASSUME SearchInv, mpc = "exited", ~ raced
               PROVE  {<<output[i].filename, output[i].linenumber>> : i \in 1..Len(output)}
                        = Matches
    BY ZenonT(40) DEF CompleteOutput
  <2>1. BufferTypes /\ BufferInv /\ StreamInv /\ Kept /\ FilesRead /\ PrinterIsLast
    BY ZenonT(40) DEF SearchInv, CompleteInv, BufferInv
  <2>2. ppc = "exited" /\ WorkersPosted /\ Occupied = 0 /\ unread = {}
    BY ZenonT(40), <2>1 DEF FilesRead, PrinterIsLast
  <2>3. Flow = <<>> /\ ~ PrinterHas(ppc) /\ \A e \in Entries : ~ Holding(wpc[e])
    BY SMTT(30), <2>2 DEF Flow, Content, PrinterHas, WorkersPosted, Holding
  <2>4. \A t \in Texts : Len(t) \in 0..MaxLines
    BY SMTT(30), MaxLinesAssumption DEF Texts
  <2>5. ASSUME NEW i \in 1..Len(output)
        PROVE  <<output[i].filename, output[i].linenumber>> \in Matches
    <3> DEFINE x == output[i]
    <3>1. Found(x, text)
      BY ZenonT(40), <2>1 DEF StreamInv, Stream, Known, Accounted
    <3>2. Len(text[x.filename]) \in 0..MaxLines
      BY ZenonT(40), <2>1, <2>4, <3>1 DEF Found, BufferTypes
    <3> HIDE DEF x
    <3>3. x.filename \in Entries /\ x.linenumber \in 1..MaxLines /\ x.linenumber <= Len(text[x.filename])
            /\ text[x.filename][x.linenumber]
      BY SMTT(30), <3>1, <3>2, MaxLinesAssumption DEF Found
    <3>4. <<x.filename, x.linenumber>> \in Matches
      BY ZenonT(40), <3>3 DEF Matches
    <3> QED BY ZenonT(40), <3>4 DEF x
  <2>6. ASSUME NEW e \in Entries, NEW n \in 1..MaxLines, n <= Len(text[e]), text[e][n]
        PROVE  \E i \in 1..Len(output) :
                 <<e, n>> = <<output[i].filename, output[i].linenumber>>
    <3>1. Len(text[e]) \in 0..MaxLines /\ currentline[e] \in 0..MaxLines
      BY ZenonT(40), <2>1, <2>4 DEF BufferTypes
    <3>2. wpc[e] # "none"
      <4>1. text[e] # <<>>
        BY SMTT(30), <2>6, MaxLinesAssumption
      <4> QED BY ZenonT(40), <2>1, <2>2, <4>1 DEF FilesRead
    <3>3. currentline[e] >= Len(text[e])
      BY ZenonT(40), <2>1, <2>2, <3>2 DEF FilesRead, WorkersPosted
    <3>4. n \in 1..currentline[e]
      BY SMTT(30), <2>6, <3>1, <3>3, MaxLinesAssumption
    <3>5. \E i \in 1..Len(output) : Is(output[i], e, n)
      <4>1. 1..Len(Flow) = {}
        BY SMTT(30), <2>3
      <4>2. Collected(text, currentline, wpc, item, Flow, PrinterHas(ppc), ptr, output)
        BY ZenonT(40), <2>1 DEF Kept
      <4> QED BY ZenonT(40), <2>3, <2>6, <3>4, <4>1, <4>2 DEF Collected
    <3> QED BY ZenonT(40), <3>5 DEF Is
  <2> QED BY SMTT(30), <2>5, <2>6 DEF Matches
<1> QED BY <1>1, SearchAlways, PTL
=============================================================================
