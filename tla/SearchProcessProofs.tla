------------------------ MODULE SearchProcessProofs ------------------------
(***************************************************************************)
(* Theorems about SearchProcess, for every directory, every buffer size    *)
(* and every length of the files: the thread buffer is a bounded FIFO      *)
(* channel, and what a search writes is what it found, in order.           *)
(***************************************************************************)
EXTENDS SearchProcess, ArithmeticLemmas, FiniteSetTheorems

-----------------------------------------------------------------------------
(* The invariant.                                                          *)

Texts == UNION {[1..n -> BOOLEAN] : n \in 0..MaxLines}

\* The types that the buffer needs; the second stream of a worker is at the line that
\* was saved last, and never ahead of the first.
BufferTypes ==
  /\ text \in [Entries -> Texts]
  /\ wpc \in [Entries -> WorkerPCs] /\ ppc \in PrinterPCs
  /\ currentline \in [Entries -> 0..MaxLines]
  /\ lastsavedline \in [Entries -> 0..MaxLines] /\ lineptr = lastsavedline
  /\ \A w \in Entries : lastsavedline[w] <= currentline[w]
  /\ item \in [Entries -> Items] /\ ptr \in Items
  /\ buffer \in [0..(BufferSize - 1) -> Items]
  /\ buffer_filler \in 0..(BufferSize - 1) /\ buffer_use \in 0..(BufferSize - 1)
  /\ buffer_empty \in Nat /\ buffer_full \in Nat /\ buffer_mutex \in {0, 1}

Inside(w) == wpc[w] \in {"fill", "advance", "post_mutex"}
PrinterInside == ppc \in {"get", "post_mutex"}

\* The mutex of the buffer excludes any two threads from it.
Exclusive ==
  /\ buffer_mutex = 1 => ~ PrinterInside /\ \A w \in Entries : ~ Inside(w)
  /\ \A v, w \in Entries : Inside(v) /\ Inside(w) => v = w
  /\ \A w \in Entries : ~ (Inside(w) /\ PrinterInside)

\* The workers that have taken a free slot, and those that have filled it.
Fillers == {w \in Entries : wpc[w] \in {"wait_mutex", "fill"}}
Posters == {w \in Entries : wpc[w] \in {"advance", "post_mutex", "post_full"}}
PrinterHolds == IF ppc \in {"wait_mutex", "get"} THEN 1 ELSE 0
PrinterFrees == IF ppc \in {"post_mutex", "post_empty"} THEN 1 ELSE 0

\* The semaphores count every slot of the buffer once.
SlotsCounted ==
  buffer_empty + Cardinality(Fillers) + Occupied + PrinterFrees = BufferSize

\* buffer_filler is where the items in the buffer end; between the two halves of
\* buffer_fill() it is at the last of them.
FillerFollows ==
  buffer_filler =
    (buffer_use + Occupied - (IF \E w \in Entries : wpc[w] = "advance" THEN 1 ELSE 0)) % BufferSize

\* A worker or the printer that has not been started is nowhere in its code.
Startup ==
  /\ unread \subseteq Entries /\ \A e \in unread : wpc[e] = "none"
  /\ mpc \in {"open", "readdir"} => ppc = "none"

BufferInv == Startup /\ BufferTypes /\ Exclusive /\ SlotsCounted /\ FillerFollows

\* The parts of BufferInv, before and after a step.
LEMMA BufferParts ==
  /\ BufferInv <=> Startup /\ BufferTypes /\ Exclusive /\ SlotsCounted /\ FillerFollows
  /\ BufferInv' <=> Startup' /\ BufferTypes' /\ Exclusive' /\ SlotsCounted' /\ FillerFollows'
BY DEF BufferInv

-----------------------------------------------------------------------------
(* Counting.                                                               *)

\* The workers can be counted.
LEMMA CountsNat ==
  /\ IsFiniteSet(Fillers) /\ Cardinality(Fillers) \in Nat
  /\ IsFiniteSet(Posters) /\ Cardinality(Posters) \in Nat
BY ZenonT(40), EntriesAssumption, FS_Subset, FS_CardinalityType DEF Fillers, Posters

\* What Occupied counts.
LEMMA OccupiedIs == Occupied = buffer_full + Cardinality(Posters) + PrinterHolds
BY ZenonT(40) DEF Occupied, Posters, PrinterHolds

\* The items never exceed the buffer; there is room for one more when a worker has
\* taken a free slot, and there is one for a printer that has waited for it.
LEMMA OccupiedBounds ==
  ASSUME BufferInv
  PROVE  /\ Occupied \in 0..BufferSize
         /\ Fillers # {} => Occupied < BufferSize
         /\ Posters # {} \/ PrinterHolds = 1 => Occupied >= 1
<1> DEFINE f == Cardinality(Fillers)
           p == Cardinality(Posters)
<1>1. f \in Nat /\ p \in Nat /\ (Fillers # {} => f # 0) /\ (Posters # {} => p # 0)
  BY ZenonT(40), CountsNat, FS_EmptySet
<1>2. Occupied = buffer_full + p + PrinterHolds /\ buffer_empty + f + Occupied + PrinterFrees = BufferSize
  BY ZenonT(40), OccupiedIs, BufferParts DEF SlotsCounted
<1>3. buffer_full \in Nat /\ buffer_empty \in Nat /\ PrinterHolds \in {0, 1} /\ PrinterFrees \in {0, 1}
  BY ZenonT(40), BufferParts DEF BufferTypes, PrinterHolds, PrinterFrees
<1> HIDE DEF f, p
<1> QED BY <1>1, <1>2, <1>3, BufferSizeAssumption

-----------------------------------------------------------------------------
(* The steps that put no item into the buffer and take none out.           *)

\* What such a step does: the items, their places and their number stay.
Still ==
  /\ UNCHANGED <<buffer, buffer_use, ptr>>
  /\ Occupied' = Occupied

\* The start: an empty buffer, and every slot free.
LEMMA InitBuffer == Init => BufferInv /\ Occupied = 0
<1> SUFFICES ASSUME Init PROVE BufferInv /\ Occupied = 0
  BY ZenonT(40)
<1>1. Fillers = {} /\ Posters = {}
  BY ZenonT(40) DEF Init, Fillers, Posters
<1>2. Cardinality(Fillers) = 0 /\ Cardinality(Posters) = 0
  BY ZenonT(40), <1>1, FS_EmptySet
<1>3. Occupied = 0 /\ PrinterFrees = 0
  BY <1>2, OccupiedIs DEF Init, PrinterHolds, PrinterFrees
<1>4. Unset \in Items
  BY MaxLinesAssumption DEF Unset, Items
<1>5. BufferTypes
  BY <1>4, BufferSizeAssumption, MaxLinesAssumption, ContentsAssumption
     DEF Init, create_list, BufferTypes, WorkerPCs, PrinterPCs, Texts
<1>6. Exclusive
  BY ZenonT(40) DEF Init, Exclusive, Inside, PrinterInside
<1>7. SlotsCounted
  BY <1>2, <1>3, BufferSizeAssumption DEF Init, SlotsCounted
<1>8. FillerFollows
  <2>1. (0 + 0 - 0) % BufferSize = 0
    BY BufferSizeAssumption, ModSmall
  <2>2. ~ \E w \in Entries : wpc[w] = "advance"
    BY ZenonT(40) DEF Init
  <2> QED BY ZenonT(40), <1>3, <2>1, <2>2 DEF Init, FillerFollows
<1> QED BY ZenonT(40), <1>3, <1>5, <1>6, <1>7, <1>8, BufferParts DEF Startup, Init

WorkerOut == {"none", "read", "wait_empty", "close", "exited"}
PrinterOut == {"none", "check", "wait_full", "print", "dec_load", "dec_store", "leave_load",
               "leave_store", "exited"}

\* A step of threads that are not at the buffer changes nothing about it.
LEMMA OutsideStep ==
  ASSUME BufferInv, Startup', BufferTypes',
         UNCHANGED <<semVars, ringVars, ptr>>,
         \A w \in Entries : wpc'[w] = wpc[w] \/ {wpc[w], wpc'[w]} \subseteq WorkerOut,
         ppc' = ppc \/ {ppc, ppc'} \subseteq PrinterOut
  PROVE  BufferInv' /\ Still
<1>1. /\ \A w \in Entries : wpc[w] \notin WorkerOut \/ wpc'[w] \notin WorkerOut => wpc'[w] = wpc[w]
      /\ ppc \notin PrinterOut \/ ppc' \notin PrinterOut => ppc' = ppc
  BY ZenonT(40)
<1>2. Fillers' = Fillers /\ Posters' = Posters
  BY ZenonT(40), <1>1 DEF Fillers, Posters, WorkerOut
<1>3. PrinterHolds' = PrinterHolds /\ PrinterFrees' = PrinterFrees
  BY ZenonT(40), <1>1 DEF PrinterHolds, PrinterFrees, PrinterOut
<1>4. Occupied' = Occupied
  BY ZenonT(40), <1>2, <1>3 DEF Occupied, Posters, PrinterHolds, semVars
<1>5. (\E w \in Entries : wpc[w] = "advance")' <=> (\E w \in Entries : wpc[w] = "advance")
  BY ZenonT(40), <1>1 DEF WorkerOut
<1>6. /\ PrinterInside' <=> PrinterInside
      /\ \A w \in Entries : Inside(w)' <=> Inside(w)
  BY ZenonT(40), <1>1 DEF PrinterInside, Inside, WorkerOut, PrinterOut
<1>7. Exclusive'
  BY ZenonT(40), <1>6, BufferParts DEF Exclusive, semVars
<1>8. SlotsCounted'
  BY ZenonT(40), <1>2, <1>3, <1>4, BufferParts DEF SlotsCounted, semVars
<1>9. FillerFollows'
  BY ZenonT(40), <1>4, <1>5, BufferParts DEF FillerFollows, ringVars
<1> QED BY ZenonT(40), <1>4, <1>7, <1>8, <1>9, BufferParts DEF Still, ringVars

\* The steps of the main thread.
LEMMA MainStill ==
  ASSUME BufferInv, Main
  PROVE  BufferInv' /\ Still
<1> USE DEF inputVars, mainVars, workerVars, printerVars
<1>0. BufferTypes /\ Startup
  BY ZenonT(40), BufferParts
<1>1. ASSUME NEW e \in Entries, CreateWorker(e)
      PROVE  BufferInv' /\ Still
  <2>1. e \in unread /\ wpc[e] = "none" /\ unread' = unread \ {e} /\ mpc = "readdir"
          /\ (wpc' = wpc \/ wpc' = [wpc EXCEPT ![e] = "read"])
          /\ UNCHANGED <<ppc, text, currentline, lastsavedline, lineptr, item, semVars, ringVars, ptr>>
    BY ZenonT(40), <1>0, <1>1 DEF CreateWorker, Startup
  <2>2. BufferTypes' /\ Startup'
    BY ZenonT(40), <1>0, <2>1 DEF BufferTypes, Startup, WorkerPCs, semVars, ringVars
  <2>3. \A w \in Entries : wpc'[w] = wpc[w] \/ {wpc[w], wpc'[w]} \subseteq WorkerOut
    BY ZenonT(40), <1>0, <2>1 DEF BufferTypes, WorkerOut
  <2> QED BY ZenonT(40), <2>1, <2>2, <2>3, OutsideStep
<1>2. CASE CreatePrinter
  <2>1. ppc = "none" /\ ppc' \in {"none", "check"} /\ mpc' \notin {"open", "readdir"}
          /\ UNCHANGED <<unread, wpc, text, currentline, lastsavedline, lineptr, item, semVars, ringVars, ptr>>
    BY ZenonT(40), <1>0, <1>2 DEF CreatePrinter, Startup
  <2>2. BufferTypes' /\ Startup'
    BY ZenonT(40), <1>0, <2>1 DEF BufferTypes, Startup, PrinterPCs, semVars, ringVars
  <2> QED BY ZenonT(40), <2>1, <2>2, OutsideStep DEF PrinterOut
<1>3. CASE \/ OpenDirectory \/ InsertLoad \/ InsertStore \/ CloseDirectory \/ SpinEnds
           \/ JoinAll \/ \E e \in Entries : SkipEntry(e)
  <2>1. /\ UNCHANGED <<wpc, ppc, text, currentline, lastsavedline, lineptr, item, semVars, ringVars, ptr>>
        /\ unread' \subseteq unread /\ (mpc' \in {"open", "readdir"} => mpc \in {"open", "readdir"})
    BY ZenonT(40), <1>3 DEF OpenDirectory, InsertLoad, InsertStore, CloseDirectory, SpinEnds, JoinAll,
                SkipEntry, MainGoes
  <2>2. BufferTypes' /\ Startup'
    BY ZenonT(40), <1>0, <2>1 DEF BufferTypes, Startup, semVars, ringVars
  <2> QED BY ZenonT(40), <2>1, <2>2, OutsideStep
<1> QED BY ZenonT(40), <1>1, <1>2, <1>3 DEF Main

\* The steps of a worker in retrieve_keyword() outside the buffer: both streams stay in
\* step, and the item it makes is one.
LEMMA WorkerReads ==
  ASSUME BufferInv, NEW w \in Entries,
         WorkerFaults(w) \/ ReadLine(w) \/ FindLine(w) \/ EndOfFile(w)
  PROVE  BufferInv' /\ Still
<1> USE DEF inputVars, mainVars, workerVars, printerVars
<1>0. BufferTypes /\ Startup
  BY ZenonT(40), BufferParts
<1>1. CASE WorkerFaults(w)
  <2>1. /\ UNCHANGED <<unread, wpc, ppc, text, currentline, lastsavedline, lineptr, item,
                       semVars, ringVars, ptr>>
        /\ mpc' = "crashed"
    BY ZenonT(40), <1>1 DEF WorkerFaults
  <2>2. BufferTypes' /\ Startup'
    BY ZenonT(40), <1>0, <2>1 DEF BufferTypes, Startup, semVars, ringVars
  <2> QED BY ZenonT(40), <2>1, <2>2, OutsideStep
<1>2. CASE ReadLine(w) \/ FindLine(w) \/ EndOfFile(w)
  <2>1. /\ wpc[w] = "read"
        /\ \E s \in {"read", "wait_empty"} : wpc' = [wpc EXCEPT ![w] = s]
        /\ UNCHANGED <<mpc, unread, ppc, text, semVars, ringVars, ptr>>
    BY ZenonT(40), <1>2 DEF ReadLine, FindLine, EndOfFile, WorkerGoes
  <2>2. Startup' /\ wpc' \in [Entries -> WorkerPCs]
          /\ \A v \in Entries : wpc'[v] = wpc[v] \/ {wpc[v], wpc'[v]} \subseteq WorkerOut
    BY ZenonT(40), <1>0, <2>1 DEF BufferTypes, Startup, WorkerPCs, WorkerOut
  <2>3. HasLine(w) => currentline[w] + 1 \in 1..MaxLines
    <3>1. \A t \in Texts : Len(t) \in 0..MaxLines
      BY MaxLinesAssumption DEF Texts
    <3> QED BY <1>0, <3>1, MaxLinesAssumption DEF HasLine, BufferTypes
  <2> DEFINE n == currentline[w] + 1
             x == [filename |-> w, linenumber |-> n, line |-> n]
  <2>4. /\ currentline' \in [Entries -> 0..MaxLines] /\ lastsavedline' \in [Entries -> 0..MaxLines]
        /\ lineptr' = lastsavedline' /\ \A v \in Entries : lastsavedline'[v] <= currentline'[v]
        /\ item' \in [Entries -> Items]
    <3>1. CASE ReadLine(w)
      BY <1>0, <2>3, <3>1, MaxLinesAssumption DEF ReadLine, BufferTypes
    <3>2. CASE FindLine(w)
      <4>1. n \in 1..MaxLines
        BY ZenonT(40), <2>3, <3>2 DEF FindLine
      <4>2. lineptr[w] + (n - lastsavedline[w]) = n
        BY <1>0, <4>1, MaxLinesAssumption DEF BufferTypes
      <4>3. x \in Items
        BY <4>1, MaxLinesAssumption DEF Items
      <4>4. /\ currentline' = [currentline EXCEPT ![w] = n]
            /\ lastsavedline' = [lastsavedline EXCEPT ![w] = n]
            /\ lineptr' = [lineptr EXCEPT ![w] = n] /\ item' = [item EXCEPT ![w] = x]
        BY ZenonT(40), <3>2, <4>2 DEF FindLine
      <4> HIDE DEF n, x
      <4> QED BY SMTT(30), <1>0, <4>1, <4>3, <4>4, MaxLinesAssumption DEF BufferTypes
    <3>3. CASE EndOfFile(w)
      <4>1. dummyItem \in Items
        BY MaxLinesAssumption DEF dummyItem, Items
      <4> QED BY ZenonT(40), <1>0, <3>3, <4>1 DEF EndOfFile, BufferTypes
    <3> QED BY ZenonT(40), <1>2, <3>1, <3>2, <3>3
  <2>5. BufferTypes'
    BY ZenonT(40), <1>0, <2>1, <2>2, <2>4 DEF BufferTypes, semVars, ringVars
  <2> QED BY ZenonT(40), <2>1, <2>2, <2>5, OutsideStep
<1> QED BY ZenonT(40), <1>1, <1>2

\* The end of retrieve_keyword(), behind the dummy item.
LEMMA WorkerLeaves ==
  ASSUME BufferInv, NEW w \in Entries, WorkerExit(w)
  PROVE  BufferInv' /\ Still
<1>0. BufferTypes /\ Startup
  BY ZenonT(40), BufferParts
<1>1. /\ wpc[w] = "close" /\ wpc' = [wpc EXCEPT ![w] = "exited"]
      /\ UNCHANGED <<mpc, unread, ppc, text, currentline, lastsavedline, lineptr, item,
                     semVars, ringVars, ptr>>
  BY ZenonT(40) DEF WorkerExit, WorkerGoes, inputVars, mainVars, printerVars
<1>2. Startup' /\ wpc' \in [Entries -> WorkerPCs]
        /\ \A v \in Entries : wpc'[v] = wpc[v] \/ {wpc[v], wpc'[v]} \subseteq WorkerOut
  BY ZenonT(40), <1>0, <1>1 DEF BufferTypes, Startup, WorkerPCs, WorkerOut
<1>3. BufferTypes'
  BY ZenonT(40), <1>0, <1>1, <1>2 DEF BufferTypes, semVars, ringVars
<1> QED BY ZenonT(40), <1>1, <1>2, <1>3, OutsideStep

-----------------------------------------------------------------------------
(* The steps of a worker at the buffer.                                    *)

\* Counting with one element more or one less.
LEMMA CountOne ==
  ASSUME NEW S, IsFiniteSet(S), NEW x
  PROVE  /\ x \notin S => Cardinality(S \cup {x}) = Cardinality(S) + 1
         /\ x \in S => Cardinality(S \ {x}) = Cardinality(S) - 1
BY ZenonT(40), FS_AddElement, FS_RemoveElement

\* What a worker that moves on at the buffer leaves alone, and what is counted of it then.
LEMMA WorkerMoves ==
  ASSUME BufferInv, NEW w \in Entries, NEW from \in WorkerPCs \ {"none"}, NEW to \in WorkerPCs,
         WorkerGoes(w, from, to),
         UNCHANGED <<inputVars, mainVars, currentline, lastsavedline, lineptr, item, printerVars>>
  PROVE  /\ Startup' /\ wpc' \in [Entries -> WorkerPCs]
         /\ wpc[w] = from /\ wpc'[w] = to /\ \A v \in Entries \ {w} : wpc'[v] = wpc[v]
         /\ Fillers' = IF to \in {"wait_mutex", "fill"} THEN Fillers \cup {w} ELSE Fillers \ {w}
         /\ Posters' = IF to \in {"advance", "post_mutex", "post_full"}
                       THEN Posters \cup {w} ELSE Posters \ {w}
         /\ PrinterHolds' = PrinterHolds /\ PrinterFrees' = PrinterFrees
         /\ (PrinterInside' <=> PrinterInside)
         /\ UNCHANGED <<text, ppc, currentline, lastsavedline, lineptr, item, ptr>>
<1>1. /\ wpc \in [Entries -> WorkerPCs] /\ wpc[w] = from /\ wpc' = [wpc EXCEPT ![w] = to]
      /\ UNCHANGED <<mpc, unread, ppc, text, currentline, lastsavedline, lineptr, item, ptr>>
  BY ZenonT(40), BufferParts DEF BufferTypes, WorkerGoes, mainVars, inputVars, printerVars
<1>2. /\ wpc' \in [Entries -> WorkerPCs]
      /\ wpc'[w] = to /\ \A v \in Entries \ {w} : wpc'[v] = wpc[v]
  BY ZenonT(40), <1>1
<1>3. Startup'
  BY ZenonT(40), <1>1, <1>2, BufferParts DEF Startup
<1>4. Fillers' = IF to \in {"wait_mutex", "fill"} THEN Fillers \cup {w} ELSE Fillers \ {w}
  BY ZenonT(40), <1>2 DEF Fillers
<1>5. Posters' = IF to \in {"advance", "post_mutex", "post_full"}
                 THEN Posters \cup {w} ELSE Posters \ {w}
  BY ZenonT(40), <1>2 DEF Posters
<1> QED BY ZenonT(40), <1>1, <1>2, <1>3, <1>4, <1>5 DEF PrinterHolds, PrinterFrees, PrinterInside

\* The mutex and the two counting semaphores, taken and given back by a worker.
LEMMA WorkerWaits ==
  ASSUME BufferInv, NEW w \in Entries, WorkerWaitEmpty(w) \/ WorkerWaitMutex(w)
  PROVE  BufferInv' /\ Still
<1> DEFINE from == IF WorkerWaitEmpty(w) THEN "wait_empty" ELSE "wait_mutex"
           to == IF WorkerWaitEmpty(w) THEN "wait_mutex" ELSE "fill"
<1>0. BufferTypes /\ Exclusive /\ SlotsCounted /\ FillerFollows
  BY ZenonT(40), BufferParts
<1>1. /\ from \in WorkerPCs \ {"none"} /\ to \in WorkerPCs /\ WorkerGoes(w, from, to)
      /\ UNCHANGED <<inputVars, mainVars, currentline, lastsavedline, lineptr, item, printerVars>>
      /\ UNCHANGED <<buffer_full, ringVars>>
  BY ZenonT(40) DEF WorkerWaitEmpty, WorkerWaitMutex, WorkerPCs
<1>2. /\ from = "wait_empty" /\ to = "wait_mutex" /\ buffer_empty > 0
           /\ buffer_empty' = buffer_empty - 1 /\ buffer_mutex' = buffer_mutex
      \/ /\ from = "wait_mutex" /\ to = "fill" /\ buffer_mutex > 0
           /\ buffer_mutex' = buffer_mutex - 1 /\ buffer_empty' = buffer_empty
  BY ZenonT(40) DEF WorkerWaitEmpty, WorkerWaitMutex, sem_wait
<1> HIDE DEF from, to
<1>3. /\ Startup' /\ wpc' \in [Entries -> WorkerPCs]
      /\ wpc[w] = from /\ wpc'[w] = to /\ \A v \in Entries \ {w} : wpc'[v] = wpc[v]
      /\ Fillers' = Fillers \cup {w} /\ Posters' = Posters \ {w}
      /\ PrinterHolds' = PrinterHolds /\ PrinterFrees' = PrinterFrees
      /\ (PrinterInside' <=> PrinterInside)
      /\ UNCHANGED <<text, ppc, currentline, lastsavedline, lineptr, item, ptr>>
  BY ZenonT(40), <1>1, <1>2, WorkerMoves
<1>4. Posters' = Posters /\ (from = "wait_mutex" => Fillers' = Fillers)
        /\ (from = "wait_empty" => w \notin Fillers)
  BY <1>2, <1>3 DEF Posters, Fillers
<1>5. Occupied' = Occupied
  BY ZenonT(40), <1>1, <1>3, <1>4 DEF Occupied, Posters, PrinterHolds
<1>6. BufferTypes'
  BY SMTT(30), <1>0, <1>1, <1>2, <1>3 DEF BufferTypes, ringVars
<1>7. Exclusive'
  BY SMTT(30), <1>0, <1>2, <1>3 DEF Exclusive, Inside, BufferTypes
<1>8. SlotsCounted'
  <2>1. Cardinality(Fillers') = IF from = "wait_empty" THEN Cardinality(Fillers) + 1
                                                      ELSE Cardinality(Fillers)
    BY ZenonT(40), <1>2, <1>3, <1>4, CountsNat, CountOne
  <2>2. Cardinality(Fillers) \in Nat /\ Occupied \in Int /\ PrinterFrees \in Int /\ buffer_empty \in Int
    BY <1>0, CountsNat, OccupiedBounds, BufferSizeAssumption DEF PrinterFrees, BufferTypes
  <2> QED BY SMTT(30), <1>0, <1>2, <1>3, <1>5, <2>1, <2>2, BufferSizeAssumption DEF SlotsCounted
<1>9. FillerFollows'
  <2>1. (\E v \in Entries : wpc[v] = "advance")' <=> (\E v \in Entries : wpc[v] = "advance")
    BY ZenonT(40), <1>2, <1>3
  <2> QED BY ZenonT(40), <1>0, <1>1, <1>5, <2>1 DEF FillerFollows, ringVars
<1> QED BY ZenonT(40), <1>1, <1>3, <1>5, <1>6, <1>7, <1>8, <1>9, BufferParts DEF Still, ringVars

\* Giving the mutex back and announcing the item.
LEMMA WorkerPosts ==
  ASSUME BufferInv, NEW w \in Entries, WorkerPostMutex(w) \/ WorkerPostFull(w)
  PROVE  BufferInv' /\ Still
<1> DEFINE from == IF WorkerPostMutex(w) THEN "post_mutex" ELSE "post_full"
           to == IF WorkerPostMutex(w) THEN "post_full"
                 ELSE IF IsDummy(item[w]) THEN "close" ELSE "read"
<1>0. BufferTypes /\ Exclusive /\ SlotsCounted /\ FillerFollows
  BY ZenonT(40), BufferParts
<1>1. /\ from \in WorkerPCs \ {"none"} /\ to \in WorkerPCs /\ WorkerGoes(w, from, to)
      /\ UNCHANGED <<inputVars, mainVars, currentline, lastsavedline, lineptr, item, printerVars>>
      /\ UNCHANGED <<buffer_empty, ringVars>>
  BY ZenonT(40) DEF WorkerPostMutex, WorkerPostFull, WorkerPCs
<1>2. \/ /\ from = "post_mutex" /\ to = "post_full"
         /\ buffer_mutex' = buffer_mutex + 1 /\ buffer_full' = buffer_full
      \/ /\ from = "post_full" /\ to \in {"read", "close"}
         /\ buffer_full' = buffer_full + 1 /\ buffer_mutex' = buffer_mutex
  BY ZenonT(40) DEF WorkerPostMutex, WorkerPostFull, sem_post
<1> HIDE DEF from, to
<1>3. /\ Startup' /\ wpc' \in [Entries -> WorkerPCs]
      /\ wpc[w] = from /\ wpc'[w] = to /\ \A v \in Entries \ {w} : wpc'[v] = wpc[v]
      /\ Fillers' = Fillers \ {w}
      /\ Posters' = IF from = "post_mutex" THEN Posters \cup {w} ELSE Posters \ {w}
      /\ PrinterHolds' = PrinterHolds /\ PrinterFrees' = PrinterFrees
      /\ (PrinterInside' <=> PrinterInside)
      /\ UNCHANGED <<text, ppc, currentline, lastsavedline, lineptr, item, ptr>>
  BY ZenonT(40), <1>1, <1>2, WorkerMoves
<1>4. Fillers' = Fillers /\ w \in Posters /\ (from = "post_mutex" => Posters' = Posters)
  BY ZenonT(40), <1>2, <1>3 DEF Posters, Fillers
<1>5. Occupied' = Occupied
  <2>1. Cardinality(Posters') = IF from = "post_full" THEN Cardinality(Posters) - 1
                                                     ELSE Cardinality(Posters)
    BY ZenonT(40), <1>2, <1>3, <1>4, CountsNat, CountOne
  <2>2. Occupied' = buffer_full' + Cardinality(Posters') + PrinterHolds'
    BY ZenonT(40) DEF Occupied, Posters, PrinterHolds
  <2>3. Cardinality(Posters) \in Nat /\ buffer_full \in Nat /\ PrinterHolds \in Nat
    BY ZenonT(40), <1>0, CountsNat DEF BufferTypes, PrinterHolds
  <2> QED BY SMTT(30), <1>2, <1>3, <2>1, <2>2, <2>3, OccupiedIs
<1>6. buffer_mutex' \in {0, 1} /\ BufferTypes'
  <2>1. from = "post_mutex" => buffer_mutex = 0
    BY ZenonT(40), <1>0, <1>3 DEF Exclusive, Inside, BufferTypes
  <2> QED BY SMTT(30), <1>0, <1>1, <1>2, <1>3, <2>1 DEF BufferTypes, ringVars
<1>7. Exclusive'
  BY ZenonT(40), <1>0, <1>2, <1>3, <1>6 DEF Exclusive, Inside, BufferTypes
<1>8. SlotsCounted'
  BY ZenonT(40), <1>0, <1>1, <1>3, <1>4, <1>5 DEF SlotsCounted
<1>9. FillerFollows'
  <2>1. (\E v \in Entries : wpc[v] = "advance")' <=> (\E v \in Entries : wpc[v] = "advance")
    BY ZenonT(40), <1>2, <1>3
  <2> QED BY ZenonT(40), <1>0, <1>1, <1>5, <2>1 DEF FillerFollows, ringVars
<1> QED BY ZenonT(40), <1>1, <1>3, <1>5, <1>6, <1>7, <1>8, <1>9, BufferParts DEF Still, ringVars

\* The step around the ring, as the code takes it.
LEMMA RingStep ==
  ASSUME NEW n \in Nat, n > 0, NEW a \in Nat
  PROVE  (a + 1) % n = IF (a % n) + 1 = n THEN 0 ELSE (a % n) + 1
BY DivMod, ModStep

\* The second half of buffer_fill(): buffer_filler moves behind the new item.
LEMMA WorkerAdvances ==
  ASSUME BufferInv, NEW w \in Entries, BufferAdvance(w)
  PROVE  BufferInv' /\ Still
<1>0. BufferTypes /\ Exclusive /\ SlotsCounted /\ FillerFollows
  BY ZenonT(40), BufferParts
<1>1. /\ "advance" \in WorkerPCs \ {"none"} /\ "post_mutex" \in WorkerPCs
      /\ WorkerGoes(w, "advance", "post_mutex")
      /\ UNCHANGED <<inputVars, mainVars, currentline, lastsavedline, lineptr, item, printerVars>>
      /\ UNCHANGED <<semVars, buffer, buffer_use>>
      /\ buffer_filler' = IF buffer_filler + 1 = BufferSize THEN 0 ELSE buffer_filler + 1
  BY ZenonT(40) DEF BufferAdvance, WorkerPCs
<1>3. /\ Startup' /\ wpc' \in [Entries -> WorkerPCs]
      /\ wpc[w] = "advance" /\ wpc'[w] = "post_mutex" /\ \A v \in Entries \ {w} : wpc'[v] = wpc[v]
      /\ Fillers' = Fillers \ {w} /\ Posters' = Posters \cup {w}
      /\ PrinterHolds' = PrinterHolds /\ PrinterFrees' = PrinterFrees
      /\ (PrinterInside' <=> PrinterInside)
      /\ UNCHANGED <<text, ppc, currentline, lastsavedline, lineptr, item, ptr>>
  BY ZenonT(40), <1>1, WorkerMoves
<1>4. Fillers' = Fillers /\ w \in Posters /\ Posters' = Posters
  BY ZenonT(40), <1>3 DEF Posters, Fillers
<1>5. Occupied' = Occupied
  BY ZenonT(40), <1>1, <1>3, <1>4 DEF Occupied, Posters, PrinterHolds, semVars
<1>6. BufferTypes'
  BY <1>0, <1>1, <1>3, BufferSizeAssumption DEF BufferTypes, semVars
<1>7. Exclusive'
  BY ZenonT(40), <1>0, <1>1, <1>3 DEF Exclusive, Inside, semVars
<1>8. SlotsCounted'
  BY ZenonT(40), <1>0, <1>1, <1>3, <1>4, <1>5 DEF SlotsCounted, semVars
<1>9. FillerFollows'
  <2>1. ~ \E v \in Entries : wpc'[v] = "advance"
    BY ZenonT(40), <1>0, <1>3 DEF Exclusive, Inside
  <2> DEFINE a == buffer_use + Occupied - 1
  <2>2. a \in Nat /\ a + 1 = buffer_use + Occupied - 0
    BY <1>0, <1>4, OccupiedBounds, BufferSizeAssumption DEF BufferTypes
  <2>3. buffer_filler = a % BufferSize
    BY ZenonT(40), <1>0, <1>3 DEF FillerFollows
  <2> HIDE DEF a
  <2>4. buffer_filler' = (a + 1) % BufferSize
    <3>1. BufferSize \in Nat /\ BufferSize > 0
      BY BufferSizeAssumption
    <3>2. (a + 1) % BufferSize = IF (a % BufferSize) + 1 = BufferSize THEN 0 ELSE (a % BufferSize) + 1
      BY ZenonT(40), <2>2, <3>1, RingStep
    <3> QED BY ZenonT(40), <1>1, <2>3, <3>2
  <2> QED BY ZenonT(40), <1>1, <1>5, <2>1, <2>2, <2>4 DEF FillerFollows
<1> QED BY ZenonT(40), <1>1, <1>3, <1>5, <1>6, <1>7, <1>8, <1>9, BufferParts DEF Still

-----------------------------------------------------------------------------
(* An item goes in, and an item comes out.                                 *)

\* What the first half of buffer_fill() does: one item more, behind the others.
PutsItem(x) ==
  /\ Occupied < BufferSize /\ Occupied' = Occupied + 1
  /\ buffer' = [buffer EXCEPT ![(buffer_use + Occupied) % BufferSize] = x]
  /\ UNCHANGED <<buffer_use, ptr>>

\* The first half of buffer_fill(), under the mutex, with a slot taken from buffer_empty.
LEMMA WorkerFills ==
  ASSUME BufferInv, NEW w \in Entries, BufferFill(w)
  PROVE  BufferInv' /\ item[w] \in Items /\ PutsItem(item[w])
<1>0. BufferTypes /\ Exclusive /\ SlotsCounted /\ FillerFollows
  BY ZenonT(40), BufferParts
<1>1. /\ "fill" \in WorkerPCs \ {"none"} /\ "advance" \in WorkerPCs
      /\ WorkerGoes(w, "fill", "advance")
      /\ UNCHANGED <<inputVars, mainVars, currentline, lastsavedline, lineptr, item, printerVars>>
      /\ UNCHANGED <<semVars, buffer_filler, buffer_use>>
      /\ buffer' = [buffer EXCEPT ![buffer_filler] = item[w]]
  BY SMTT(30) DEF BufferFill, WorkerPCs
<1>3. /\ Startup' /\ wpc' \in [Entries -> WorkerPCs]
      /\ wpc[w] = "fill" /\ wpc'[w] = "advance" /\ \A v \in Entries \ {w} : wpc'[v] = wpc[v]
      /\ Fillers' = Fillers \ {w} /\ Posters' = Posters \cup {w}
      /\ PrinterHolds' = PrinterHolds /\ PrinterFrees' = PrinterFrees
      /\ (PrinterInside' <=> PrinterInside)
      /\ UNCHANGED <<text, ppc, currentline, lastsavedline, lineptr, item, ptr>>
  BY ZenonT(40), <1>1, WorkerMoves
<1>4. w \in Fillers /\ w \notin Posters
  BY ZenonT(40), <1>3 DEF Posters, Fillers
<1>5. /\ Cardinality(Fillers') = Cardinality(Fillers) - 1
      /\ Cardinality(Posters') = Cardinality(Posters) + 1
  BY ZenonT(40), <1>3, <1>4, CountsNat, CountOne
<1>6. /\ Cardinality(Fillers) \in Nat /\ Cardinality(Posters) \in Nat /\ buffer_full \in Nat
      /\ buffer_empty \in Nat /\ PrinterHolds \in Nat /\ PrinterFrees \in Nat
      /\ Occupied \in Nat /\ Occupied < BufferSize
  BY SMTT(30), <1>0, <1>4, CountsNat, OccupiedBounds, BufferSizeAssumption
     DEF BufferTypes, PrinterHolds, PrinterFrees
<1>7. Occupied' = Occupied + 1
  <2>1. Occupied' = buffer_full' + Cardinality(Posters') + PrinterHolds'
    BY ZenonT(40) DEF Occupied, Posters, PrinterHolds
  <2> QED BY <1>1, <1>3, <1>5, <1>6, <2>1, OccupiedIs DEF semVars
<1>8. item[w] \in Items
  BY ZenonT(40), <1>0 DEF BufferTypes
<1>9. BufferTypes'
  BY ZenonT(40), <1>0, <1>1, <1>3, <1>8 DEF BufferTypes, semVars
<1>10. Exclusive'
  BY SMTT(30), <1>0, <1>1, <1>3 DEF Exclusive, Inside, semVars
<1>11. SlotsCounted'
  BY SMTT(30), <1>0, <1>1, <1>3, <1>5, <1>6, <1>7 DEF SlotsCounted, semVars
<1>12. buffer_filler = (buffer_use + Occupied) % BufferSize
  <2>1. ~ \E v \in Entries : wpc[v] = "advance"
    BY ZenonT(40), <1>0, <1>3 DEF Exclusive, Inside
  <2>2. buffer_use + Occupied - 0 = buffer_use + Occupied
    BY SMTT(30), <1>0, <1>6, BufferSizeAssumption DEF BufferTypes
  <2> QED BY ZenonT(40), <1>0, <2>1, <2>2 DEF FillerFollows
<1>13. FillerFollows'
  <2>1. buffer_use' + Occupied' - 1 = buffer_use + Occupied
    BY <1>0, <1>1, <1>6, <1>7, BufferSizeAssumption DEF BufferTypes
  <2> QED BY <1>1, <1>3, <1>12, <2>1 DEF FillerFollows
<1> QED BY ZenonT(40), <1>1, <1>3, <1>6, <1>7, <1>8, <1>9, <1>10, <1>11, <1>12, <1>13, BufferParts
    DEF PutsItem

\* What buffer_get() does: the oldest item goes to the printer.
TakesItem ==
  /\ Occupied \in 1..BufferSize /\ Occupied' = Occupied - 1
  /\ ptr' = buffer[buffer_use]
  /\ buffer_use' = (buffer_use + 1) % BufferSize
  /\ UNCHANGED buffer

\* buffer_get(), under the mutex, with an item counted by buffer_full.
LEMMA PrinterTakes ==
  ASSUME BufferInv, BufferGet
  PROVE  BufferInv' /\ TakesItem
<1>0. BufferTypes /\ Exclusive /\ SlotsCounted /\ FillerFollows /\ Startup
  BY BufferParts
<1>1. /\ ppc = "get" /\ ppc' = "post_mutex" /\ ptr' = buffer[buffer_use]
      /\ buffer_use' = IF buffer_use + 1 = BufferSize THEN 0 ELSE buffer_use + 1
      /\ UNCHANGED <<text, mpc, unread, wpc, currentline, lastsavedline, lineptr, item,
                     semVars, buffer, buffer_filler>>
  BY DEF BufferGet, PrinterGoes, inputVars, mainVars, workerVars
<1>2. Fillers' = Fillers /\ Posters' = Posters
  BY ZenonT(40), <1>1 DEF Fillers, Posters
<1>3. PrinterHolds = 1 /\ PrinterHolds' = 0 /\ PrinterFrees = 0 /\ PrinterFrees' = 1
  BY ZenonT(40), <1>1 DEF PrinterHolds, PrinterFrees
<1>4. Occupied \in 1..BufferSize
  BY <1>3, OccupiedBounds, BufferSizeAssumption
<1>5. Occupied' = Occupied - 1
  <2>1. Occupied' = buffer_full' + Cardinality(Posters') + PrinterHolds'
    BY ZenonT(40) DEF Occupied, Posters, PrinterHolds
  <2>2. Cardinality(Posters) \in Nat /\ buffer_full \in Nat
    BY <1>0, CountsNat DEF BufferTypes
  <2> QED BY <1>1, <1>2, <1>3, <2>1, <2>2, OccupiedIs DEF semVars
<1>6. BufferTypes' /\ Startup'
  BY <1>0, <1>1, BufferSizeAssumption DEF BufferTypes, Startup, PrinterPCs, semVars
<1>7. Exclusive'
  BY ZenonT(40), <1>0, <1>1 DEF Exclusive, Inside, PrinterInside, semVars
<1>8. SlotsCounted'
  <2>1. Cardinality(Fillers) \in Nat /\ buffer_empty \in Nat
    BY ZenonT(40), <1>0, CountsNat DEF BufferTypes
  <2> QED BY SMTT(30), <1>0, <1>1, <1>2, <1>3, <1>4, <1>5, <2>1, BufferSizeAssumption
      DEF SlotsCounted, semVars
<1>9. BufferSize \in Nat /\ BufferSize > 0 /\ buffer_use \in 0..(BufferSize - 1) /\ buffer_use \in Nat
  BY <1>0, BufferSizeAssumption DEF BufferTypes
<1>10. buffer_use' = (buffer_use + 1) % BufferSize
  <2>1. buffer_use % BufferSize = buffer_use
    BY ZenonT(40), <1>9, ModSmall
  <2>2. (buffer_use + 1) % BufferSize = IF (buffer_use % BufferSize) + 1 = BufferSize THEN 0
                                        ELSE (buffer_use % BufferSize) + 1
    BY ZenonT(40), <1>9, RingStep
  <2> QED BY ZenonT(40), <1>1, <2>1, <2>2
<1>11. FillerFollows'
  <2>1. ~ \E v \in Entries : wpc[v] = "advance"
    BY ZenonT(40), <1>0, <1>1 DEF Exclusive, Inside, PrinterInside
  <2> DEFINE k == Occupied - 1
  <2>2. k \in Nat /\ buffer_use + Occupied - 0 = (buffer_use + 1) + k /\ buffer_use + 1 \in Nat
    BY <1>4, <1>9
  <2>3. buffer_use' + Occupied' - 0 = ((buffer_use + 1) % BufferSize) + k
    BY <1>4, <1>5, <1>6, <1>9, <1>10 DEF BufferTypes
  <2> HIDE DEF k
  <2>4. (((buffer_use + 1) % BufferSize) + k) % BufferSize = ((buffer_use + 1) + k) % BufferSize
    BY ZenonT(40), <1>9, <2>2, ModAdd
  <2> QED BY ZenonT(40), <1>0, <1>1, <2>1, <2>2, <2>3, <2>4 DEF FillerFollows
<1> QED BY ZenonT(40), <1>1, <1>4, <1>5, <1>6, <1>7, <1>8, <1>10, <1>11, BufferParts DEF TakesItem

-----------------------------------------------------------------------------
(* The other steps of the printer.                                         *)

\* The printer at the semaphores.
LEMMA PrinterSemaphores ==
  ASSUME BufferInv, PrinterWaitFull \/ PrinterWaitMutex \/ PrinterPostMutex \/ PrinterPostEmpty
  PROVE  BufferInv' /\ Still
<1>0. BufferTypes /\ Exclusive /\ SlotsCounted /\ FillerFollows /\ Startup
  BY SMTT(30), BufferParts
<1>1. /\ UNCHANGED <<text, mpc, unread, wpc, currentline, lastsavedline, lineptr, item, ringVars, ptr>>
      /\ ppc # "none" /\ ppc' \in PrinterPCs
  BY DEF PrinterWaitFull, PrinterWaitMutex, PrinterPostMutex, PrinterPostEmpty, PrinterGoes,
         inputVars, mainVars, workerVars, PrinterPCs
<1>2. Fillers' = Fillers /\ Posters' = Posters
  BY <1>1 DEF Fillers, Posters
<1>3. \/ /\ ppc = "wait_full" /\ ppc' = "wait_mutex" /\ buffer_full > 0
         /\ buffer_full' = buffer_full - 1 /\ UNCHANGED <<buffer_empty, buffer_mutex>>
      \/ /\ ppc = "wait_mutex" /\ ppc' = "get" /\ buffer_mutex > 0
         /\ buffer_mutex' = buffer_mutex - 1 /\ UNCHANGED <<buffer_empty, buffer_full>>
      \/ /\ ppc = "post_mutex" /\ ppc' = "post_empty"
         /\ buffer_mutex' = buffer_mutex + 1 /\ UNCHANGED <<buffer_empty, buffer_full>>
      \/ /\ ppc = "post_empty" /\ ppc' \in {"dec_load", "print"}
         /\ buffer_empty' = buffer_empty + 1 /\ UNCHANGED <<buffer_full, buffer_mutex>>
  BY DEF PrinterWaitFull, PrinterWaitMutex, PrinterPostMutex, PrinterPostEmpty, PrinterGoes,
         sem_wait, sem_post
<1>4. /\ Cardinality(Fillers) \in Nat /\ Cardinality(Posters) \in Nat
      /\ buffer_full \in Nat /\ buffer_empty \in Nat /\ Occupied \in Nat
  BY SMTT(30), <1>0, CountsNat, OccupiedBounds, BufferSizeAssumption DEF BufferTypes
<1>5. buffer_full' + PrinterHolds' = buffer_full + PrinterHolds
        /\ buffer_empty' + PrinterFrees' = buffer_empty + PrinterFrees
        /\ {PrinterHolds, PrinterHolds', PrinterFrees, PrinterFrees'} \subseteq Nat
        /\ buffer_full' \in Nat /\ buffer_empty' \in Nat
  BY <1>3, <1>4 DEF PrinterHolds, PrinterFrees
<1>6. Occupied' = Occupied
  <2>1. Occupied' = buffer_full' + Cardinality(Posters') + PrinterHolds'
    BY ZenonT(40) DEF Occupied, Posters, PrinterHolds
  <2> QED BY SMTT(30), <1>2, <1>4, <1>5, <2>1, OccupiedIs
<1>7. BufferTypes' /\ Startup'
  <2>1. ppc = "post_mutex" => buffer_mutex = 0
    BY ZenonT(40), <1>0 DEF Exclusive, PrinterInside, BufferTypes
  <2>2. buffer_mutex' \in {0, 1}
    BY SMTT(30), <1>0, <1>3, <2>1 DEF BufferTypes
  <2> QED BY ZenonT(40), <1>0, <1>1, <1>5, <2>2 DEF BufferTypes, Startup, ringVars
<1>8. Exclusive'
  BY <1>0, <1>1, <1>3 DEF Exclusive, Inside, PrinterInside, BufferTypes
<1>9. SlotsCounted'
  BY <1>0, <1>2, <1>4, <1>5, <1>6 DEF SlotsCounted
<1>10. FillerFollows'
  BY ZenonT(40), <1>0, <1>1, <1>6 DEF FillerFollows, ringVars
<1> QED BY ZenonT(40), <1>1, <1>6, <1>7, <1>8, <1>9, <1>10, BufferParts DEF Still, ringVars

\* The printer away from the buffer.
LEMMA PrinterAway ==
  ASSUME BufferInv, PrinterCheck \/ PrintItem \/ DecrementLoad \/ DecrementStore
  PROVE  BufferInv' /\ Still
<1>0. BufferTypes /\ Startup
  BY ZenonT(40), BufferParts
<1>1. /\ UNCHANGED <<text, mpc, unread, wpc, currentline, lastsavedline, lineptr, item,
                     semVars, ringVars, ptr>>
      /\ {ppc, ppc'} \subseteq PrinterOut /\ ppc # "none" /\ ppc' \in PrinterPCs
  BY ZenonT(40) DEF PrinterCheck, PrintItem, DecrementLoad, DecrementStore, PrinterGoes,
         inputVars, mainVars, workerVars, PrinterPCs, PrinterOut
<1>2. BufferTypes' /\ Startup'
  BY ZenonT(40), <1>0, <1>1 DEF BufferTypes, Startup, semVars, ringVars
<1> QED BY ZenonT(40), <1>1, <1>2, OutsideStep

\* Every step keeps the invariant, and leaves the items alone, puts one in or takes one.
LEMMA BufferStep ==
  ASSUME BufferInv, [Next]_vars
  PROVE  BufferInv' /\ (Still \/ TakesItem \/ \E x \in Items : PutsItem(x))
<1>1. CASE UNCHANGED vars
  <2>1. /\ UNCHANGED <<text, mpc, unread, wpc, ppc, currentline, lastsavedline, lineptr, item>>
        /\ UNCHANGED <<semVars, ringVars, ptr>>
    BY ZenonT(40), <1>1 DEF vars, inputVars, mainVars, workerVars, printerVars
  <2>2. BufferTypes' /\ Startup'
    BY ZenonT(40), <2>1, BufferParts DEF BufferTypes, Startup, semVars, ringVars
  <2> QED BY ZenonT(40), <2>1, <2>2, OutsideStep
<1>2. CASE Main
  BY ZenonT(40), <1>2, MainStill
<1>3. CASE Printer
  BY ZenonT(40), <1>3, PrinterSemaphores, PrinterAway, PrinterTakes DEF Printer
<1>4. ASSUME NEW w \in Entries, Worker(w)
      PROVE  BufferInv' /\ (Still \/ \E x \in Items : PutsItem(x))
  BY ZenonT(40), <1>4, WorkerReads, WorkerWaits, WorkerFills, WorkerAdvances, WorkerPosts, WorkerLeaves
     DEF Worker
<1> QED BY ZenonT(40), <1>1, <1>2, <1>3, <1>4 DEF Next

-----------------------------------------------------------------------------
(* The refinement.                                                         *)

\* The items in the buffer, oldest first, as Channel maps them.
Content(buf, use, n) == [i \in 1..n |-> buf[(use + i - 1) % BufferSize]]

\* Content is a sequence of n items.
LEMMA ContentType ==
  ASSUME NEW buf, NEW use \in 0..(BufferSize - 1), NEW n \in 0..BufferSize,
         buf \in [0..(BufferSize - 1) -> Items]
  PROVE  /\ Content(buf, use, n) \in Seq(Items) /\ Len(Content(buf, use, n)) = n
         /\ \A i \in 1..n : (use + i - 1) % BufferSize \in 0..(BufferSize - 1)
<1>1. BufferSize \in Nat /\ BufferSize > 0
  BY BufferSizeAssumption
<1>2. ASSUME NEW i \in 1..n PROVE (use + i - 1) % BufferSize \in 0..(BufferSize - 1)
  <2>1. use + i - 1 \in Nat
    BY <1>1
  <2> QED BY ZenonT(40), <1>1, <2>1, DivMod
<1>3. n \in Nat /\ Content(buf, use, n) \in [1..n -> Items]
  BY <1>1, <1>2 DEF Content
<1>4. Content(buf, use, n) \in Seq(Items)
  BY <1>3
<1>5. Len(Content(buf, use, n)) = n
  BY <1>3, <1>4
<1> QED BY ZenonT(40), <1>2, <1>4, <1>5

\* An item put into the next cell comes behind the others: no cell in use is overwritten.
LEMMA ContentPut ==
  ASSUME NEW buf, NEW use \in 0..(BufferSize - 1), NEW n \in 0..(BufferSize - 1), NEW x \in Items,
         buf \in [0..(BufferSize - 1) -> Items]
  PROVE  Content([buf EXCEPT ![(use + n) % BufferSize] = x], use, n + 1)
           = Append(Content(buf, use, n), x)
<1> DEFINE j == (use + n) % BufferSize
           new == [buf EXCEPT ![j] = x]
           old == Content(buf, use, n)
<1>1. BufferSize \in Nat /\ BufferSize > 0 /\ n \in 0..BufferSize /\ n + 1 \in 0..BufferSize /\ n \in Nat
        /\ use \in Nat /\ use + n \in Nat
  BY BufferSizeAssumption
<1>2. j \in 0..(BufferSize - 1)
  BY ZenonT(40), <1>1, DivMod
<1>3. old \in Seq(Items) /\ Len(old) = n
        /\ \A i \in 1..n : (use + i - 1) % BufferSize \in 0..(BufferSize - 1)
  BY ZenonT(40), <1>1, ContentType
<1>4. ASSUME NEW i \in 1..n PROVE new[(use + i - 1) % BufferSize] = old[i]
  <2>1. use + i - 1 \in Nat /\ use + i - 1 < use + n /\ use + n < (use + i - 1) + BufferSize
    BY <1>1
  <2>2. (use + i - 1) % BufferSize # j
    BY ZenonT(40), <1>1, <2>1, ModDistinct
  <2>3. old[i] = buf[(use + i - 1) % BufferSize]
    BY ZenonT(40) DEF Content
  <2> HIDE DEF old, j
  <2> QED BY ZenonT(40), <1>3, <2>2, <2>3
<1>5. new[(use + (n + 1) - 1) % BufferSize] = x
  <2>1. use + (n + 1) - 1 = use + n
    BY <1>1
  <2> QED BY ZenonT(40), <1>2, <2>1
<1>6. Append(old, x) = [i \in 1..(n + 1) |-> IF i = n + 1 THEN x ELSE old[i]]
  <2> HIDE DEF old
  <2> QED BY <1>1, <1>3
<1>7. \A i \in 1..(n + 1) : new[(use + i - 1) % BufferSize] = IF i = n + 1 THEN x ELSE old[i]
  <2> SUFFICES ASSUME NEW i \in 1..(n + 1)
               PROVE  new[(use + i - 1) % BufferSize] = IF i = n + 1 THEN x ELSE old[i]
    BY ZenonT(40)
  <2>1. CASE i = n + 1
    BY ZenonT(40), <1>5, <2>1
  <2>2. CASE i # n + 1
    <3>1. i \in 1..n
      BY <1>1, <2>2
    <3> QED BY ZenonT(40), <1>4, <2>2, <3>1
  <2> QED BY ZenonT(40), <2>1, <2>2
<1> HIDE DEF old, new
<1>8. Content(new, use, n + 1) = [i \in 1..(n + 1) |-> new[(use + i - 1) % BufferSize]]
  BY ZenonT(40) DEF Content
<1>9. Content(new, use, n + 1) = Append(old, x)
  BY ZenonT(40), <1>6, <1>7, <1>8
<1> QED BY ZenonT(40), <1>9 DEF old, new

\* Taking the oldest item leaves the others in their order.
LEMMA ContentTake ==
  ASSUME NEW buf, NEW use \in 0..(BufferSize - 1), NEW n \in 1..BufferSize,
         buf \in [0..(BufferSize - 1) -> Items]
  PROVE  /\ Content(buf, use, n) # <<>> /\ Head(Content(buf, use, n)) = buf[use]
         /\ Content(buf, (use + 1) % BufferSize, n - 1) = Tail(Content(buf, use, n))
<1> DEFINE old == Content(buf, use, n)
           next == (use + 1) % BufferSize
<1>1. BufferSize \in Nat /\ BufferSize > 0 /\ n \in 0..BufferSize /\ n \in Nat /\ n - 1 \in Nat
        /\ use \in Nat /\ use + 1 \in Nat
  BY BufferSizeAssumption
<1>2. next \in 0..(BufferSize - 1)
  BY ZenonT(40), <1>1, DivMod
<1>3. old \in Seq(Items) /\ Len(old) = n
  BY ZenonT(40), <1>1, ContentType
<1>4. old[1] = buf[use]
  <2>1. use + 1 - 1 = use /\ 1 \in 1..n
    BY <1>1
  <2>2. use % BufferSize = use
    BY ZenonT(40), <1>1, ModSmall
  <2> QED BY ZenonT(40), <2>1, <2>2 DEF Content
<1>5. ASSUME NEW i \in 1..(n - 1) PROVE buf[(next + i - 1) % BufferSize] = old[i + 1]
  <2>1. i - 1 \in Nat /\ (use + 1) + (i - 1) = use + (i + 1) - 1 /\ i + 1 \in 1..n
          /\ next + (i - 1) = next + i - 1
    BY <1>1, <1>2
  <2>2. (next + (i - 1)) % BufferSize = ((use + 1) + (i - 1)) % BufferSize
    BY ZenonT(40), <1>1, <2>1, ModAdd
  <2>3. old[i + 1] = buf[(use + (i + 1) - 1) % BufferSize]
    BY ZenonT(40), <2>1 DEF Content
  <2> HIDE DEF old, next
  <2> QED BY ZenonT(40), <2>1, <2>2, <2>3
<1> HIDE DEF old, next
<1>6. old # <<>> /\ Head(old) = old[1] /\ Tail(old) = [i \in 1..(n - 1) |-> old[i + 1]]
  BY <1>1, <1>3
<1>7. Content(buf, next, n - 1) = [i \in 1..(n - 1) |-> buf[(next + i - 1) % BufferSize]]
  BY ZenonT(40) DEF Content
<1>8. Content(buf, next, n - 1) = Tail(old)
  BY ZenonT(40), <1>5, <1>6, <1>7
<1> QED BY ZenonT(40), <1>4, <1>6, <1>8 DEF old, next

\* A step of the search process is a step of the channel, or none.
LEMMA ChannelStep ==
  ASSUME BufferInv, BufferInv', Still \/ TakesItem \/ \E x \in Items : PutsItem(x)
  PROVE  [Channel!Next]_<<Content(buffer, buffer_use, Occupied), ptr>>
<1> DEFINE chan == Content(buffer, buffer_use, Occupied)
<1>1. /\ buffer \in [0..(BufferSize - 1) -> Items] /\ buffer_use \in 0..(BufferSize - 1)
      /\ Occupied \in 0..BufferSize
  BY ZenonT(40), OccupiedBounds, BufferParts DEF BufferTypes
<1>2. chan' = Content(buffer', buffer_use', Occupied')
  BY ZenonT(40) DEF Content
<1>3. CASE Still
  <2>1. chan' = chan /\ ptr' = ptr
    BY ZenonT(40), <1>2, <1>3 DEF Still
  <2> QED BY ZenonT(40), <2>1
<1>4. CASE TakesItem
  <2>1. /\ chan # <<>> /\ Head(chan) = buffer[buffer_use]
        /\ Content(buffer, (buffer_use + 1) % BufferSize, Occupied - 1) = Tail(chan)
    BY ZenonT(40), <1>1, <1>4, ContentTake DEF TakesItem
  <2>2. chan # <<>> /\ ptr' = Head(chan) /\ chan' = Tail(chan)
    BY ZenonT(40), <1>2, <1>4, <2>1 DEF TakesItem
  <2> QED BY ZenonT(40), <2>2 DEF Channel!Next, Channel!Take, Content
<1>5. ASSUME NEW x \in Items, PutsItem(x)
      PROVE  Channel!Next
  <2>1. Occupied \in 0..(BufferSize - 1) /\ Len(chan) = Occupied
    BY <1>1, <1>5, BufferSizeAssumption, ContentType DEF PutsItem
  <2>2. Content([buffer EXCEPT ![(buffer_use + Occupied) % BufferSize] = x], buffer_use, Occupied + 1)
          = Append(chan, x)
    BY ZenonT(40), <1>1, <2>1, ContentPut
  <2>3. Len(chan) < BufferSize /\ chan' = Append(chan, x) /\ ptr' = ptr
    BY ZenonT(40), <1>2, <1>5, <2>1, <2>2 DEF PutsItem
  <2> QED BY ZenonT(40), <2>3 DEF Channel!Next, Channel!Put, Content
<1> QED BY ZenonT(40), <1>3, <1>4, <1>5

\* The thread buffer of a search, filled by one worker thread for every file and emptied by
\* the printer (buffer_fill(), buffer_get() and their semaphores), is a bounded FIFO channel,
\* whatever the directory, the lengths of the files and <buffersize>, and whatever becomes
\* of threadcount.
THEOREM BufferRefinesChannel == Spec => BufferIsChannel
<1>1. Init => BufferInv /\ Channel!Init
  <2> SUFFICES ASSUME Init PROVE BufferInv /\ Channel!Init
    BY ZenonT(40)
  <2>1. BufferInv /\ Occupied = 0 /\ ptr = Unset
    BY ZenonT(40), InitBuffer DEF Init
  <2>2. [i \in 1..Occupied |-> buffer[(buffer_use + i - 1) % BufferSize]] = <<>>
    BY SMTT(30), <2>1
  <2> QED BY ZenonT(40), <2>1, <2>2 DEF Channel!Init
<1>2. BufferInv /\ [Next]_vars
        => BufferInv' /\ [Channel!Next]_<<[i \in 1..Occupied |-> buffer[(buffer_use + i - 1) % BufferSize]], ptr>>
  BY ZenonT(40), BufferStep, ChannelStep DEF Content
<1> QED BY <1>1, <1>2, PTL DEF Spec, BufferIsChannel, Channel!Spec

-----------------------------------------------------------------------------
(* What a search writes.  The lines written, the item the printer holds    *)
(* and the items in the buffer are one stream: an item comes in at its end *)
(* and moves through it, and for each file the stream is in the order of   *)
(* the lines.                                                              *)

\* x is a line with the keyword, under its own number.
Found(x, t) ==
  /\ x.filename \in Entries /\ x.line = x.linenumber
  /\ x.linenumber \in 1..Len(t[x.filename]) /\ t[x.filename][x.linenumber]

\* Items of one file in the order of its lines.
Before(x, y) ==
  ~ IsDummy(x) /\ ~ IsDummy(y) /\ x.filename = y.filename => x.linenumber < y.linenumber

\* A worker at pc s has an item that is not in the buffer yet.
Holding(s) == s \in {"wait_empty", "wait_mutex", "fill"}

\* The items a worker may have put into the buffer: dummies, and lines with the keyword
\* that it has read, before the one it holds.
Accounted(t, current, pc, it) ==
  {x \in Items : IsDummy(x) \/ /\ Found(x, t)
                               /\ x.linenumber <= current[x.filename]
                               /\ Holding(pc[x.filename]) => Before(x, it[x.filename])}

\* The stream: the output out, the printer's item p if it has one, the buffer ch.
Stream(ch, has, p, out, G) ==
  /\ \A i \in 1..Len(ch) : ch[i] \in G
  /\ \A i, j \in 1..Len(ch) : i < j => Before(ch[i], ch[j])
  /\ has => p \in G /\ \A i \in 1..Len(ch) : Before(p, ch[i])
  /\ \A i \in 1..Len(out) :
       /\ out[i] \in G /\ ~ IsDummy(out[i])
       /\ has => Before(out[i], p)
       /\ \A j \in 1..Len(ch) : Before(out[i], ch[j])
       /\ \A j \in 1..(i - 1) : Before(out[j], out[i])

PrinterHas(s) == s \in {"post_mutex", "post_empty", "print"}

\* The item a worker holds is a dummy, or the last line it has read.
HeldRight ==
  \A w \in Entries : Holding(wpc[w]) =>
    \/ IsDummy(item[w])
    \/ Found(item[w], text) /\ item[w].filename = w /\ item[w].linenumber <= currentline[w]

OutputType == output \in Seq(Items)

Flow == Content(buffer, buffer_use, Occupied)
Known == Accounted(text, currentline, wpc, item)

StreamInv ==
  /\ Stream(Flow, PrinterHas(ppc), ptr, output, Known)
  /\ HeldRight /\ OutputType
  /\ ppc = "print" => ~ IsDummy(ptr)

\* The parts of StreamInv, before and after a step.
LEMMA StreamParts ==
  /\ StreamInv <=> /\ Stream(Flow, PrinterHas(ppc), ptr, output, Known)
                   /\ HeldRight /\ OutputType
                   /\ ppc = "print" => ~ IsDummy(ptr)
  /\ StreamInv' <=> /\ Stream(Flow, PrinterHas(ppc), ptr, output, Known)'
                    /\ HeldRight' /\ OutputType'
                    /\ ppc' = "print" => ~ IsDummy(ptr')
BY ZenonT(40) DEF StreamInv

-----------------------------------------------------------------------------
(* The moves of the stream.                                                *)

\* More items become possible.
LEMMA StreamGrows ==
  ASSUME NEW ch, NEW has, NEW p, NEW out, NEW G, NEW H,
         Stream(ch, has, p, out, G), G \subseteq H
  PROVE  Stream(ch, has, p, out, H)
BY ZenonT(40) DEF Stream

\* An item comes in behind all others.
LEMMA StreamPut ==
  ASSUME NEW ch \in Seq(Items), NEW has, NEW p, NEW out, NEW G, NEW H, NEW x \in Items,
         Stream(ch, has, p, out, G), G \subseteq H, x \in H, \A y \in G : Before(y, x)
  PROVE  Stream(Append(ch, x), has, p, out, H)
<1> DEFINE n == Len(ch)
           c == Append(ch, x)
<1>1. /\ n \in Nat /\ Len(c) = n + 1 /\ c[n + 1] = x
      /\ \A i \in 1..n : c[i] = ch[i]
  OBVIOUS
<1>2. \A i \in 1..(n + 1) : i = n + 1 \/ i \in 1..n
  BY SMTT(30), <1>1
<1> HIDE DEF n, c
<1>3. \A i \in 1..n : ch[i] \in G
  BY ZenonT(40) DEF Stream, n
<1>4. \A i \in 1..(n + 1) : c[i] \in H
  BY ZenonT(40), <1>1, <1>2, <1>3
<1>5. ASSUME NEW i \in 1..(n + 1), NEW j \in 1..(n + 1), i < j PROVE Before(c[i], c[j])
  <2>1. i \in 1..n
    BY SMTT(30), <1>1, <1>5
  <2>2. CASE j = n + 1
    BY ZenonT(40), <1>1, <1>3, <2>1, <2>2
  <2>3. CASE j \in 1..n
    BY ZenonT(40), <1>1, <1>5, <2>1, <2>3 DEF Stream, n
  <2> QED BY ZenonT(40), <1>2, <2>2, <2>3
<1>6. ASSUME NEW y \in G, \A i \in 1..n : Before(y, ch[i])
      PROVE  \A i \in 1..(n + 1) : Before(y, c[i])
  BY ZenonT(40), <1>1, <1>2, <1>6
<1>7. has => p \in H /\ \A i \in 1..Len(c) : Before(p, c[i])
  BY ZenonT(40), <1>1, <1>6 DEF Stream, n
<1>8. ASSUME NEW i \in 1..Len(out)
      PROVE  /\ out[i] \in H /\ ~ IsDummy(out[i])
             /\ has => Before(out[i], p)
             /\ \A j \in 1..Len(c) : Before(out[i], c[j])
             /\ \A j \in 1..(i - 1) : Before(out[j], out[i])
  BY ZenonT(40), <1>1, <1>6 DEF Stream, n
<1>9. Stream(c, has, p, out, H)
  BY ZenonT(40), <1>1, <1>4, <1>5, <1>7, <1>8 DEF Stream
<1> QED BY ZenonT(40), <1>9 DEF c

\* The printer gets the oldest item.
LEMMA StreamTake ==
  ASSUME NEW ch \in Seq(Items), NEW p, NEW out, NEW G,
         Stream(ch, FALSE, p, out, G), ch # <<>>
  PROVE  Stream(Tail(ch), TRUE, Head(ch), out, G)
<1> DEFINE n == Len(ch)
           c == Tail(ch)
<1>1. /\ n \in Nat /\ n >= 1 /\ Len(c) = n - 1 /\ Head(ch) = ch[1] /\ 1 \in 1..n
      /\ \A i \in 1..(n - 1) : c[i] = ch[i + 1] /\ i + 1 \in 1..n /\ 1 < i + 1
  OBVIOUS
<1> HIDE DEF n, c
<1>2. \A i \in 1..(n - 1) : c[i] \in G
  BY ZenonT(40), <1>1 DEF Stream, n
<1>3. ASSUME NEW i \in 1..(n - 1), NEW j \in 1..(n - 1), i < j PROVE Before(c[i], c[j])
  <2>1. i + 1 \in 1..n /\ j + 1 \in 1..n /\ i + 1 < j + 1
    BY <1>1, <1>3
  <2> QED BY ZenonT(40), <1>1, <2>1 DEF Stream, n
<1>4. ch[1] \in G /\ \A i \in 1..(n - 1) : Before(ch[1], c[i])
  BY ZenonT(40), <1>1 DEF Stream, n
<1>5. ASSUME NEW i \in 1..Len(out)
      PROVE  /\ out[i] \in G /\ ~ IsDummy(out[i])
             /\ Before(out[i], ch[1])
             /\ \A j \in 1..(n - 1) : Before(out[i], c[j])
             /\ \A j \in 1..(i - 1) : Before(out[j], out[i])
  BY ZenonT(40), <1>1 DEF Stream, n
<1>6. Stream(c, TRUE, Head(ch), out, G)
  BY ZenonT(40), <1>1, <1>2, <1>3, <1>4, <1>5 DEF Stream
<1> QED BY ZenonT(40), <1>6 DEF c

\* The printer writes its item, or, when it is a dummy, lets go of it.
LEMMA StreamPrint ==
  ASSUME NEW ch, NEW p, NEW out \in Seq(Items), NEW G, p \in Items,
         Stream(ch, TRUE, p, out, G)
  PROVE  /\ Stream(ch, FALSE, p, out, G)
         /\ ~ IsDummy(p) => Stream(ch, FALSE, p, Append(out, p), G)
<1>1. Stream(ch, FALSE, p, out, G)
  BY ZenonT(40) DEF Stream
<1>2. ASSUME ~ IsDummy(p) PROVE Stream(ch, FALSE, p, Append(out, p), G)
  <2> DEFINE n == Len(out)
             o == Append(out, p)
  <2>1. /\ n \in Nat /\ Len(o) = n + 1 /\ o[n + 1] = p
        /\ \A i \in 1..n : o[i] = out[i]
    BY SMTT(30)
  <2> HIDE DEF n, o
  <2>2. ASSUME NEW i \in 1..(n + 1)
        PROVE  /\ o[i] \in G /\ ~ IsDummy(o[i])
               /\ \A j \in 1..Len(ch) : Before(o[i], ch[j])
               /\ \A j \in 1..(i - 1) : Before(o[j], o[i])
    <3>1. CASE i = n + 1
      <4>1. \A j \in 1..(i - 1) : j \in 1..n
        BY SMTT(30), <2>1, <3>1
      <4> QED BY ZenonT(40), <1>2, <2>1, <3>1, <4>1 DEF Stream, n
    <3>2. CASE i \in 1..n
      <4>1. \A j \in 1..(i - 1) : j \in 1..n
        BY SMTT(30), <2>1, <3>2
      <4> QED BY ZenonT(40), <2>1, <3>2, <4>1 DEF Stream, n
    <3> QED BY SMTT(30), <2>1, <3>1, <3>2
  <2>3. /\ \A i \in 1..Len(ch) : ch[i] \in G
        /\ \A i, j \in 1..Len(ch) : i < j => Before(ch[i], ch[j])
    BY ZenonT(40) DEF Stream
  <2>4. Stream(ch, FALSE, p, o, G)
    BY ZenonT(40), <2>1, <2>2, <2>3 DEF Stream
  <2> QED BY ZenonT(40), <2>4 DEF o
<1> QED BY ZenonT(40), <1>1, <1>2

-----------------------------------------------------------------------------
(* The steps.                                                              *)

\* What the buffer holds is a sequence of items.
LEMMA FlowType ==
  ASSUME BufferInv
  PROVE  Flow \in Seq(Items)
<1>1. /\ buffer \in [0..(BufferSize - 1) -> Items] /\ buffer_use \in 0..(BufferSize - 1)
      /\ Occupied \in 0..BufferSize
  BY ZenonT(40), OccupiedBounds, BufferParts DEF BufferTypes
<1> QED BY ZenonT(40), <1>1, ContentType DEF Flow

\* A step at the buffer that puts no item in and takes none out.
LEMMA FlowStays ==
  ASSUME Still
  PROVE  Flow' = Flow /\ ptr' = ptr
BY ZenonT(40) DEF Still, Flow, Content

\* buffer_fill() puts the worker's item behind the others.
LEMMA FlowPuts ==
  ASSUME BufferInv, NEW w \in Entries, BufferFill(w)
  PROVE  item[w] \in Items /\ Flow' = Append(Flow, item[w]) /\ ptr' = ptr
<1>1. item[w] \in Items /\ PutsItem(item[w])
  BY ZenonT(40), WorkerFills
<1>2. /\ buffer \in [0..(BufferSize - 1) -> Items] /\ buffer_use \in 0..(BufferSize - 1)
      /\ Occupied \in 0..(BufferSize - 1)
  BY SMTT(30), <1>1, OccupiedBounds, BufferSizeAssumption, BufferParts DEF BufferTypes, PutsItem
<1>3. Content([buffer EXCEPT ![(buffer_use + Occupied) % BufferSize] = item[w]],
              buffer_use, Occupied + 1) = Append(Flow, item[w])
  BY ZenonT(40), <1>1, <1>2, ContentPut DEF Flow
<1>4. Flow' = Content(buffer', buffer_use', Occupied')
  BY ZenonT(40) DEF Flow, Content
<1> QED BY ZenonT(40), <1>1, <1>3, <1>4 DEF PutsItem

\* buffer_get() takes the oldest item.
LEMMA FlowTakes ==
  ASSUME BufferInv, BufferGet
  PROVE  Flow # <<>> /\ ptr' = Head(Flow) /\ Flow' = Tail(Flow)
<1>1. TakesItem
  BY ZenonT(40), PrinterTakes
<1>2. /\ buffer \in [0..(BufferSize - 1) -> Items] /\ buffer_use \in 0..(BufferSize - 1)
      /\ Occupied \in 1..BufferSize
  BY ZenonT(40), <1>1, BufferParts DEF BufferTypes, TakesItem
<1>3. /\ Flow # <<>> /\ Head(Flow) = buffer[buffer_use]
      /\ Content(buffer, (buffer_use + 1) % BufferSize, Occupied - 1) = Tail(Flow)
  BY ZenonT(40), <1>2, ContentTake DEF Flow
<1>4. Flow' = Content(buffer', buffer_use', Occupied')
  BY ZenonT(40) DEF Flow, Content
<1> QED BY ZenonT(40), <1>1, <1>3, <1>4 DEF TakesItem

\* A step that moves nothing through the stream.
LEMMA QuietStep ==
  ASSUME BufferInv, StreamInv, Still,
         UNCHANGED <<text, output, currentline, item>>,
         \A v \in Entries : Holding(wpc'[v]) <=> Holding(wpc[v]),
         PrinterHas(ppc') <=> PrinterHas(ppc),
         ppc' = "print" => ~ IsDummy(ptr)
  PROVE  StreamInv'
<1>1. Flow' = Flow /\ ptr' = ptr
  BY ZenonT(40), FlowStays
<1>2. Known' = Known
  BY ZenonT(40) DEF Known, Accounted, Found
<1>3. Stream(Flow, PrinterHas(ppc), ptr, output, Known)'
  <2>1. Stream(Flow, PrinterHas(ppc), ptr, output, Known)
    BY ZenonT(40), StreamParts
  <2> QED BY ZenonT(40), <1>1, <1>2, <2>1 DEF Stream
<1>4. HeldRight'
  BY ZenonT(40), StreamParts DEF HeldRight
<1>5. OutputType'
  BY ZenonT(40), StreamParts DEF OutputType
<1> QED BY ZenonT(40), <1>1, <1>3, <1>4, <1>5, StreamParts

\* The main thread.
LEMMA MainKeeps ==
  ASSUME BufferInv, StreamInv, Main
  PROVE  StreamInv'
<1> USE DEF inputVars, mainVars, workerVars, printerVars
<1>1. Still
  BY ZenonT(40), MainStill
<1>2. BufferTypes /\ Startup /\ OutputType /\ (ppc = "print" => ~ IsDummy(ptr))
  BY ZenonT(40), BufferParts, StreamParts
<1>3. ASSUME NEW e \in Entries, CreateWorker(e) PROVE StreamInv'
  <2>1. /\ UNCHANGED <<text, output, currentline, item, ppc>>
        /\ wpc[e] = "none" /\ (wpc' = wpc \/ wpc' = [wpc EXCEPT ![e] = "read"])
    BY ZenonT(40), <1>2, <1>3 DEF CreateWorker, Startup
  <2>2. \A v \in Entries : Holding(wpc'[v]) <=> Holding(wpc[v])
    BY ZenonT(40), <1>2, <2>1 DEF BufferTypes, Holding
  <2> QED BY ZenonT(40), <1>1, <1>2, <2>1, <2>2, QuietStep
<1>4. CASE CreatePrinter
  <2>1. UNCHANGED <<text, output, currentline, item, wpc>> /\ ppc = "none" /\ ppc' \in {"none", "check"}
    BY ZenonT(40), <1>2, <1>4 DEF CreatePrinter, Startup
  <2>2. PrinterHas(ppc') <=> PrinterHas(ppc)
    BY ZenonT(40), <2>1 DEF PrinterHas
  <2> QED BY ZenonT(40), <1>1, <2>1, <2>2, QuietStep
<1>5. CASE \/ OpenDirectory \/ InsertLoad \/ InsertStore \/ CloseDirectory \/ SpinEnds \/ JoinAll
           \/ \E e \in Entries : SkipEntry(e)
  <2>1. UNCHANGED <<text, output, currentline, item, wpc, ppc>> 
    <3>1. CASE OpenDirectory \/ InsertLoad \/ InsertStore
      BY <3>1 DEF OpenDirectory, InsertLoad, InsertStore
    <3>2. CASE CloseDirectory \/ SpinEnds \/ JoinAll
      BY <3>2 DEF CloseDirectory, SpinEnds, JoinAll
    <3>3. CASE \E e \in Entries : SkipEntry(e)
      BY <3>3 DEF SkipEntry
    <3> QED BY ZenonT(40), <1>5, <3>1, <3>2, <3>3
  <2> QED BY ZenonT(40), <1>1, <1>2, <2>1, QuietStep
<1> QED BY ZenonT(40), <1>3, <1>4, <1>5 DEF Main

\* A worker at the semaphores and the index of the buffer, or faulting.
LEMMA WorkerQuiet ==
  ASSUME BufferInv, StreamInv, NEW w \in Entries,
         \/ WorkerFaults(w) \/ WorkerWaitEmpty(w) \/ WorkerWaitMutex(w) \/ BufferAdvance(w)
         \/ WorkerPostMutex(w) \/ WorkerPostFull(w) \/ WorkerExit(w)
  PROVE  StreamInv'
<1>1. Still
  BY ZenonT(40), WorkerReads, WorkerWaits, WorkerAdvances, WorkerPosts, WorkerLeaves
<1>2. BufferTypes /\ (ppc = "print" => ~ IsDummy(ptr))
  BY ZenonT(40), BufferParts, StreamParts
<1>3. /\ UNCHANGED <<text, output, currentline, item, ppc>>
      /\ \/ wpc' = wpc
         \/ wpc[w] = "wait_empty" /\ wpc' = [wpc EXCEPT ![w] = "wait_mutex"]
         \/ wpc[w] = "wait_mutex" /\ wpc' = [wpc EXCEPT ![w] = "fill"]
         \/ /\ wpc[w] \in {"advance", "post_mutex", "post_full", "close"}
            /\ \E s \in {"post_mutex", "post_full", "close", "exited", "read"} : wpc' = [wpc EXCEPT ![w] = s]
  BY ZenonT(40) DEF WorkerFaults, WorkerWaitEmpty, WorkerWaitMutex, BufferAdvance, WorkerPostMutex,
         WorkerPostFull, WorkerExit, WorkerGoes, inputVars, mainVars, workerVars, printerVars
<1>4. \A v \in Entries : Holding(wpc'[v]) <=> Holding(wpc[v])
  BY ZenonT(40), <1>2, <1>3 DEF BufferTypes, Holding
<1> QED BY ZenonT(40), <1>1, <1>2, <1>3, <1>4, QuietStep

\* A worker reads: the line it finds is behind all those of its file.
LEMMA WorkerFinds ==
  ASSUME BufferInv, StreamInv, NEW w \in Entries, ReadLine(w) \/ FindLine(w) \/ EndOfFile(w)
  PROVE  StreamInv'
<1> DEFINE n == currentline[w] + 1
           x == [filename |-> w, linenumber |-> n, line |-> n]
<1>1. Still
  BY ZenonT(40), WorkerReads
<1>2. BufferTypes /\ HeldRight /\ OutputType
  BY ZenonT(40), BufferParts, StreamParts
<1>3. /\ UNCHANGED <<text, output, ppc>>
      /\ wpc[w] = "read"
  BY ZenonT(40) DEF ReadLine, FindLine, EndOfFile, WorkerGoes, inputVars, mainVars, printerVars
<1>4. currentline[w] \in Nat /\ n \in Nat
  BY SMTT(30), <1>2, MaxLinesAssumption DEF BufferTypes
<1>x. n = currentline[w] + 1 /\ x.filename = w /\ x.linenumber = n
  BY ZenonT(40)
<1>d. /\ wpc \in [Entries -> WorkerPCs] /\ item \in [Entries -> Items]
      /\ currentline \in [Entries -> 0..MaxLines]
  BY ZenonT(40), <1>2 DEF BufferTypes
<1>e. IsDummy(dummyItem)
  BY ZenonT(40) DEF IsDummy, dummyItem
<1>f. ASSUME FindLine(w)
      PROVE  /\ currentline' = [currentline EXCEPT ![w] = n] /\ item' = [item EXCEPT ![w] = x]
             /\ wpc' = [wpc EXCEPT ![w] = "wait_empty"] /\ Found(x, text)
  <2>1. lineptr[w] + (n - lastsavedline[w]) = n
    BY SMTT(30), <1>2, <1>4, MaxLinesAssumption DEF BufferTypes
  <2>2. /\ currentline' = [currentline EXCEPT ![w] = n] /\ item' = [item EXCEPT ![w] = x]
        /\ wpc' = [wpc EXCEPT ![w] = "wait_empty"] /\ HasLine(w) /\ text[w][n]
    BY ZenonT(40), <1>f, <2>1 DEF FindLine, WorkerGoes
  <2>3. n \in 1..Len(text[w])
    <3>1. \A t \in Texts : Len(t) \in Nat
      BY SMTT(30), MaxLinesAssumption DEF Texts
    <3>2. text[w] \in Texts
      BY ZenonT(40), <1>2 DEF BufferTypes
    <3> QED BY SMTT(30), <1>d, <1>4, <2>2, <3>1, <3>2 DEF HasLine
  <2>4. Found(x, text)
    BY ZenonT(40), <2>2, <2>3 DEF Found
  <2> QED BY ZenonT(40), <2>2, <2>4
<1> HIDE DEF n, x
<1>5. /\ \A v \in Entries \ {w} : /\ wpc'[v] = wpc[v] /\ item'[v] = item[v]
                                  /\ currentline'[v] = currentline[v]
      /\ \/ currentline'[w] = n /\ wpc'[w] = "read"
         \/ currentline'[w] = n /\ item'[w] = x /\ Found(x, text)
         \/ currentline'[w] = currentline[w] /\ IsDummy(item'[w])
  <2>1. CASE ReadLine(w)
    <3>1. /\ wpc' = [wpc EXCEPT ![w] = "read"] /\ item' = item
          /\ currentline' = [currentline EXCEPT ![w] = n]
      BY ZenonT(40), <1>x, <2>1 DEF ReadLine, WorkerGoes
    <3> QED BY ZenonT(40), <1>d, <3>1
  <2>2. CASE FindLine(w)
    BY ZenonT(40), <1>d, <1>f, <2>2
  <2>3. CASE EndOfFile(w)
    <3>1. /\ wpc' = [wpc EXCEPT ![w] = "wait_empty"] /\ item' = [item EXCEPT ![w] = dummyItem]
          /\ currentline' = currentline
      BY ZenonT(40), <2>3 DEF EndOfFile, WorkerGoes
    <3> QED BY ZenonT(40), <1>d, <1>e, <3>1
  <2> QED BY ZenonT(40), <2>1, <2>2, <2>3
<1>6. Known \subseteq Known'
  <2> SUFFICES ASSUME NEW y \in Items, ~ IsDummy(y), Found(y, text),
                      y.linenumber <= currentline[y.filename],
                      Holding(wpc[y.filename]) => Before(y, item[y.filename])
               PROVE  /\ y.linenumber <= currentline'[y.filename]
                      /\ Holding(wpc'[y.filename]) => Before(y, item'[y.filename])
    BY ZenonT(40), <1>3 DEF Known, Accounted
  <2>1. y.filename \in Entries /\ y.linenumber \in Int
    BY SMTT(30), MaxLinesAssumption DEF Found, Items
  <2>2. CASE y.filename # w
    BY ZenonT(40), <1>5, <2>1, <2>2
  <2>3. CASE y.filename = w
    <3>1. y.linenumber <= currentline[w] /\ y.linenumber < n /\ y.linenumber <= n
      BY SMTT(30), <1>4, <1>x, <2>1, <2>3
    <3>2. ~ Holding("read")
      BY ZenonT(40) DEF Holding
    <3> QED BY ZenonT(40), <1>5, <1>x, <2>3, <3>1, <3>2 DEF Before
  <2> QED BY ZenonT(40), <2>2, <2>3
<1>7. Flow' = Flow /\ ptr' = ptr
  BY ZenonT(40), <1>1, FlowStays
<1>8. Stream(Flow, PrinterHas(ppc), ptr, output, Known)'
  BY ZenonT(40), <1>3, <1>6, <1>7, StreamGrows, StreamParts
<1>9. HeldRight'
  <2>1. ~ Holding("read") /\ n <= n
    BY <1>4 DEF Holding
  <2> SUFFICES ASSUME NEW v \in Entries, Holding(wpc'[v])
               PROVE  \/ IsDummy(item'[v])
                      \/ /\ Found(item'[v], text) /\ item'[v].filename = v
                         /\ item'[v].linenumber <= currentline'[v]
    BY ZenonT(40), <1>3 DEF HeldRight, Found
  <2>2. CASE v = w
    BY ZenonT(40), <1>5, <1>x, <2>1, <2>2
  <2>3. CASE v # w
    BY ZenonT(40), <1>2, <1>5, <2>3 DEF HeldRight
  <2> QED BY ZenonT(40), <2>2, <2>3
<1> QED BY ZenonT(40), <1>2, <1>3, <1>7, <1>8, <1>9, StreamParts DEF OutputType

\* A worker puts its item into the buffer, behind all those of its file.
LEMMA FillKeeps ==
  ASSUME BufferInv, StreamInv, NEW w \in Entries, BufferFill(w)
  PROVE  StreamInv'
<1>1. item[w] \in Items /\ PutsItem(item[w])
  BY ZenonT(40), WorkerFills
<1>2. BufferTypes /\ HeldRight /\ OutputType
  BY ZenonT(40), BufferParts, StreamParts
<1>3. /\ UNCHANGED <<text, output, currentline, item, ppc, ptr>>
      /\ wpc[w] = "fill" /\ wpc' = [wpc EXCEPT ![w] = "advance"]
  BY ZenonT(40) DEF BufferFill, WorkerGoes, inputVars, mainVars, printerVars
<1>4. Holding(wpc[w]) /\ ~ Holding(wpc'[w]) /\ \A v \in Entries \ {w} : wpc'[v] = wpc[v]
  BY ZenonT(40), <1>2, <1>3 DEF BufferTypes, Holding
<1>5. Known \subseteq Known'
  BY ZenonT(40), <1>3, <1>4 DEF Known, Accounted, Found
<1>6. item[w] \in Known'
  BY ZenonT(40), <1>1, <1>2, <1>3, <1>4 DEF Known, Accounted, HeldRight, Before, Found, IsDummy
<1>7. \A y \in Known : Before(y, item[w])
  BY ZenonT(40), <1>2, <1>4 DEF Known, Accounted, HeldRight, Before
<1>8. Flow' = Append(Flow, item[w])
  BY ZenonT(40), FlowPuts
<1>9. Stream(Append(Flow, item[w]), PrinterHas(ppc), ptr, output, Known')
  BY ZenonT(40), <1>1, <1>5, <1>6, <1>7, FlowType, StreamPut, StreamParts
<1>10. HeldRight'
  BY ZenonT(40), <1>2, <1>3, <1>4 DEF HeldRight
<1> QED BY ZenonT(40), <1>2, <1>3, <1>8, <1>9, <1>10, StreamParts DEF OutputType

\* The printer gets an item.
LEMMA TakeKeeps ==
  ASSUME BufferInv, StreamInv, BufferGet
  PROVE  StreamInv'
<1>1. TakesItem
  BY ZenonT(40), PrinterTakes
<1>2. BufferTypes /\ HeldRight /\ OutputType
  BY ZenonT(40), BufferParts, StreamParts
<1>3. /\ UNCHANGED <<text, output, currentline, item, wpc>>
      /\ ppc = "get" /\ ppc' = "post_mutex"
  BY ZenonT(40) DEF BufferGet, PrinterGoes, inputVars, mainVars, workerVars
<1>4. PrinterHas(ppc) = FALSE /\ PrinterHas(ppc') = TRUE
  BY <1>3 DEF PrinterHas
<1>5. Flow # <<>> /\ ptr' = Head(Flow) /\ Flow' = Tail(Flow)
  BY ZenonT(40), FlowTakes
<1>6. Known' = Known
  BY ZenonT(40), <1>3 DEF Known, Accounted, Found
<1>7. Stream(Flow, FALSE, ptr, output, Known)
  BY ZenonT(40), <1>4, StreamParts
<1>8. Stream(Tail(Flow), TRUE, Head(Flow), output, Known)
  BY ZenonT(40), <1>5, <1>7, FlowType, StreamTake
<1>9. Stream(Flow, PrinterHas(ppc), ptr, output, Known)'
  BY ZenonT(40), <1>3, <1>4, <1>5, <1>6, <1>8
<1>10. HeldRight' /\ OutputType'
  BY ZenonT(40), <1>2, <1>3 DEF HeldRight, OutputType
<1> QED BY ZenonT(40), <1>3, <1>9, <1>10, StreamParts

\* The printer writes a line, or has seen a dummy.
LEMMA PrintKeeps ==
  ASSUME BufferInv, StreamInv, PrintItem \/ (PrinterPostEmpty /\ IsDummy(ptr))
  PROVE  StreamInv'
<1> USE DEF inputVars, mainVars, workerVars
<1>1. Still
  BY ZenonT(40), PrinterSemaphores, PrinterAway
<1>2. BufferTypes /\ HeldRight /\ OutputType
  BY ZenonT(40), BufferParts, StreamParts
<1>3. /\ UNCHANGED <<text, currentline, item, wpc, ptr>>
      /\ PrinterHas(ppc) = TRUE /\ PrinterHas(ppc') = FALSE /\ ppc' \in {"check", "dec_load"}
  BY SMTT(30) DEF PrintItem, PrinterPostEmpty, PrinterGoes, PrinterHas
<1>4. Flow' = Flow /\ Known' = Known /\ HeldRight'
  BY ZenonT(40), <1>1, <1>2, <1>3 DEF Still, Flow, Content, Known, Accounted, Found, HeldRight
<1>5. Stream(Flow, TRUE, ptr, output, Known)
  BY ZenonT(40), <1>3, StreamParts
<1>6. CASE PrinterPostEmpty
  <2>1. output' = output
    BY ZenonT(40), <1>6 DEF PrinterPostEmpty
  <2>2. Stream(Flow, FALSE, ptr, output, Known)
    BY ZenonT(40), <1>5 DEF Stream
  <2>3. OutputType'
    BY ZenonT(40), <1>2, <1>3, <2>1 DEF OutputType
  <2> QED BY ZenonT(40), <1>3, <1>4, <2>1, <2>2, <2>3, StreamParts
<1>7. CASE PrintItem
  <2>1. ~ IsDummy(ptr) /\ ptr \in Items
    BY ZenonT(40), <1>2, <1>7, StreamParts DEF PrintItem, PrinterGoes, BufferTypes
  <2>2. output \in Seq(Items) /\ output' = Append(output, ptr)
    BY ZenonT(40), <1>2, <1>7 DEF PrintItem, OutputType
  <2>3. Stream(Flow, FALSE, ptr, Append(output, ptr), Known)
    BY ZenonT(40), <1>5, <2>1, <2>2, StreamPrint
  <2>4. OutputType'
    BY SMTT(30), <2>1, <2>2 DEF OutputType
  <2> QED BY ZenonT(40), <1>3, <1>4, <2>2, <2>3, <2>4, StreamParts
<1> QED BY ZenonT(40), <1>6, <1>7

\* The printer elsewhere.
LEMMA PrinterQuiet ==
  ASSUME BufferInv, StreamInv,
         \/ PrinterWaitFull \/ PrinterWaitMutex \/ PrinterPostMutex
         \/ (PrinterPostEmpty /\ ~ IsDummy(ptr))
         \/ PrinterCheck \/ DecrementLoad \/ DecrementStore
  PROVE  StreamInv'
<1>1. Still
  BY ZenonT(40), PrinterSemaphores, PrinterAway
<1>2. /\ UNCHANGED <<text, output, currentline, item, wpc>>
      /\ \/ /\ ppc \in {"wait_full", "wait_mutex", "check", "dec_load", "dec_store", "leave_load", "leave_store"}
            /\ ppc' \in {"wait_mutex", "get", "wait_full", "leave_load", "dec_store", "leave_store", "check", "exited"}
         \/ ppc = "post_mutex" /\ ppc' = "post_empty"
         \/ ppc = "post_empty" /\ ppc' = "print" /\ ~ IsDummy(ptr)
  BY ZenonT(40) DEF PrinterWaitFull, PrinterWaitMutex, PrinterPostMutex, PrinterPostEmpty, PrinterCheck,
         DecrementLoad, DecrementStore, PrinterGoes, inputVars, mainVars, workerVars
<1>3. PrinterHas(ppc') <=> PrinterHas(ppc)
  BY ZenonT(40), <1>2 DEF PrinterHas
<1> QED BY ZenonT(40), <1>1, <1>2, <1>3, QuietStep

-----------------------------------------------------------------------------
(* The theorem.                                                            *)

\* Every step of the search process keeps the stream in order.
LEMMA StreamStep ==
  ASSUME BufferInv, StreamInv, [Next]_vars
  PROVE  StreamInv'
<1>1. CASE UNCHANGED vars
  <2>1. /\ UNCHANGED <<text, output, currentline, item, wpc, ppc, ptr>>
        /\ UNCHANGED <<semVars, ringVars>>
    BY ZenonT(40), <1>1 DEF vars, inputVars, mainVars, workerVars, printerVars
  <2>2. Still
    BY ZenonT(40), <2>1 DEF Still, Occupied, semVars, ringVars
  <2> QED BY ZenonT(40), <2>1, <2>2, QuietStep, StreamParts
<1>2. CASE Main
  BY ZenonT(40), <1>2, MainKeeps
<1>3. CASE Printer
  BY ZenonT(40), <1>3, TakeKeeps, PrintKeeps, PrinterQuiet DEF Printer
<1>4. ASSUME NEW w \in Entries, Worker(w) PROVE StreamInv'
  BY ZenonT(40), <1>4, WorkerQuiet, WorkerFinds, FillKeeps DEF Worker
<1> QED BY ZenonT(40), <1>1, <1>2, <1>3, <1>4 DEF Next

\* The start: an empty stream.
LEMMA InitStream == Init => BufferInv /\ StreamInv
<1> SUFFICES ASSUME Init PROVE BufferInv /\ StreamInv
  BY ZenonT(40)
<1>1. BufferInv /\ Occupied = 0
  BY ZenonT(40), InitBuffer
<1>2. Flow = <<>> /\ output = <<>> /\ ppc = "none"
  BY SMTT(30), <1>1 DEF Flow, Content, Init
<1>3. Stream(Flow, PrinterHas(ppc), ptr, output, Known)
  BY SMTT(30), <1>2 DEF Stream, PrinterHas
<1>4. HeldRight /\ OutputType
  BY <1>2 DEF Init, HeldRight, OutputType, Holding
<1> QED BY ZenonT(40), <1>1, <1>2, <1>3, <1>4, StreamParts

\* Whatever the directory, the lengths of the files and <buffersize>: what the printer
\* writes (print_buffer()) are lines with the keyword under their own numbers, each once and
\* those of a file in order.
THEOREM OutputIsSound == Spec => []SoundOutput
<1>1. Init => BufferInv /\ StreamInv
  BY ZenonT(40), InitStream
<1>2. BufferInv /\ StreamInv /\ [Next]_vars => BufferInv' /\ StreamInv'
  BY ZenonT(40), BufferStep, StreamStep
<1>3. StreamInv => SoundOutput
  <2> SUFFICES ASSUME StreamInv, NEW i \in 1..Len(output)
               PROVE  LET x == output[i]
                      IN  /\ x.filename \in Entries /\ x.line = x.linenumber
                          /\ x.linenumber \in 1..Len(text[x.filename])
                          /\ text[x.filename][x.linenumber]
                          /\ \A j \in 1..(i - 1) : output[j].filename = x.filename
                               => output[j].linenumber < x.linenumber
    BY ZenonT(40) DEF SoundOutput
  <2> DEFINE x == output[i]
  <2>1. x \in Known /\ ~ IsDummy(x)
    BY ZenonT(40), StreamParts DEF Stream
  <2>2. Found(x, text)
    BY ZenonT(40), <2>1 DEF Known, Accounted
  <2>3. ASSUME NEW j \in 1..(i - 1), output[j].filename = x.filename
        PROVE  output[j].linenumber < x.linenumber
    <3>1. Len(output) \in Nat
      BY StreamParts DEF OutputType
    <3>2. j \in 1..Len(output)
      BY <3>1
    <3>3. ~ IsDummy(output[j]) /\ Before(output[j], x)
      BY ZenonT(40), <3>2, StreamParts DEF Stream
    <3> QED BY ZenonT(40), <2>1, <2>3, <3>3 DEF Before
  <2> QED BY ZenonT(40), <2>1, <2>2, <2>3 DEF Found
<1> QED BY <1>1, <1>2, <1>3, PTL DEF Spec
=============================================================================
