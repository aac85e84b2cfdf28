------------------------- MODULE SearchServerProofs -------------------------
(***************************************************************************)
(* Theorems about RequestQueue and SearchServer, for every set of clients, *)
(* every queue size and every line size: about enqueue() and dequeue()     *)
(* first, and then about the life of the server, through clients that      *)
(* fault or are killed, forks that fail and servers that are started again. *)
(***************************************************************************)
EXTENDS SearchServer, ArithmeticLemmas, FiniteSetTheorems

\* The ring has at least the size of a line.
LEMMA TotalSizeType ==
  TotalSize \in Nat /\ LineSize \in Nat /\ LineSize >= 2 /\ TotalSize >= LineSize
BY QueueSizeAssumption, LineSizeAssumption DEF TotalSize

\* An offset taken modulo the size of the ring is inside the ring.
LEMMA ModInRing == \A a \in Nat : a % TotalSize \in 0..(TotalSize - 1)
BY TotalSizeType, DivMod

-----------------------------------------------------------------------------
(* The string functions.                                                   *)

\* strlen() finds the first NUL, whenever the byte behind the ring is NUL.
LEMMA StrlenIsFirstNUL ==
  ASSUME NEW buf \in [0..TotalSize -> Cells], buf[TotalSize] = NUL,
         NEW p \in 0..TotalSize
  PROVE  /\ strlen(buf, p) \in 0..(TotalSize - p)
         /\ buf[p + strlen(buf, p)] = NUL
         /\ \A m \in 0..(strlen(buf, p) - 1) : buf[p + m] # NUL
<1> DEFINE S == {n \in 0..(TotalSize - p) : buf[p + n] = NUL}
<1>1. S \subseteq Nat /\ S # {}
  <2>1. TotalSize - p \in 0..(TotalSize - p) /\ p + (TotalSize - p) = TotalSize
    BY TotalSizeType
  <2>2. TotalSize - p \in S
    BY ZenonT(40), <2>1
  <2>3. S \subseteq Nat
    BY TotalSizeType
  <2> QED BY ZenonT(40), <2>2, <2>3
<1>2. PICK n \in S : \A m \in S : n <= m
  <2> HIDE DEF S
  <2> QED BY ZenonT(40), <1>1, LeastNat
<1>3. n \in 0..(TotalSize - p) /\ buf[p + n] = NUL
  BY ZenonT(40)
<1>4. ASSUME NEW m \in 0..(n - 1) PROVE buf[p + m] # NUL
  <2>1. m \in 0..(TotalSize - p) /\ ~ (n <= m)
    BY <1>3, TotalSizeType
  <2> QED BY ZenonT(40), <2>1, <1>2
<1> QED BY ZenonT(40), <1>3, <1>4 DEF strlen

\* What strcpy() copies out of the ring is a string of cells.
LEMMA StringAtType ==
  ASSUME NEW buf \in [0..TotalSize -> Cells], buf[TotalSize] = NUL,
         NEW p \in 0..TotalSize
  PROVE  /\ StringAt(buf, p) \in Seq(Cells)
         /\ Len(StringAt(buf, p)) = strlen(buf, p)
<1> DEFINE n == strlen(buf, p)
<1>1. n \in 0..(TotalSize - p)
  BY ZenonT(40), StrlenIsFirstNUL
<1> HIDE DEF n
<1>2. \A i \in 1..n : p + i - 1 \in 0..TotalSize
  BY <1>1, TotalSizeType
<1>3. [i \in 1..n |-> buf[p + i - 1]] \in [1..n -> Cells]
  BY ZenonT(40), <1>2
<1>4. [i \in 1..n |-> buf[p + i - 1]] \in Seq(Cells) /\ Len([i \in 1..n |-> buf[p + i - 1]]) = n
  BY <1>1, <1>3, TotalSizeType
<1> QED BY ZenonT(40), <1>4 DEF StringAt, n

\* sprintf() keeps the type of the ring.
LEMMA StoreType ==
  ASSUME NEW buf \in [0..TotalSize -> Cells], NEW p \in Nat, NEW s \in Seq(Cells)
  PROVE  Store(buf, p, s) \in [0..TotalSize -> Cells]
<1> SUFFICES ASSUME NEW j \in 0..TotalSize
             PROVE  (IF j \in p..(p + Len(s) - 1) THEN s[j - p + 1]
                     ELSE IF j = p + Len(s) THEN NUL ELSE buf[j]) \in Cells
  BY ZenonT(40) DEF Store
<1>1. CASE j \in p..(p + Len(s) - 1)
  <2>1. j - p + 1 \in 1..Len(s)
    BY <1>1, TotalSizeType
  <2> QED BY <1>1, <2>1
<1>2. CASE j \notin p..(p + Len(s) - 1)
  BY ZenonT(40), <1>2 DEF Cells
<1> QED BY ZenonT(40), <1>1, <1>2

\* The text of a request is a string of cells, none of them NUL.
LEMMA TextType ==
  ASSUME NEW r \in Requests
  PROVE  /\ r.len \in 1..(LineSize - 1)
         /\ Text(r) \in Seq(Cells)
         /\ Len(Text(r)) = r.len
         /\ \A i \in 1..r.len : Text(r)[i] = <<r, i>> /\ Text(r)[i] # NUL
<1>1. r.len \in 1..(LineSize - 1)
  BY ZenonT(40), LengthsAssumption DEF Requests
<1>2. \A i \in 1..r.len : <<r, i>> \in Cells /\ <<r, i>> # NUL
  BY <1>1, LineSizeAssumption DEF Cells, NUL
<1>3. Text(r) \in [1..r.len -> Cells]
  BY ZenonT(40), <1>2 DEF Text
<1>4. Text(r) \in Seq(Cells) /\ Len(Text(r)) = r.len
  BY <1>1, <1>3, LineSizeAssumption DEF Text
<1> QED BY ZenonT(40), <1>1, <1>2, <1>4 DEF Text

-----------------------------------------------------------------------------
(* Types and mutual exclusion, for any number of clients.                  *)

Enqueueing(c) == cpc[c] \in {"wait_empty", "wait_mutex", "write", "post_mutex", "post_full"}

\* What types and mutual exclusion need besides themselves: the byte behind the
\* ring stays NUL, a client in enqueue() has a request, and a mutex that is free
\* is held by nobody.
SafeInv ==
  /\ TypeOK
  /\ buffer[TotalSize] = NUL
  /\ \A c \in Clients : Enqueueing(c) => request[c] \in Requests
  /\ mutex = 1 => ~ ServerInside /\ \A c \in Clients : ~ ClientInside(c)
  /\ MutualExclusion

\* create_queue() and open_queue() establish SafeInv.
LEMMA InitSafe == Init => SafeInv
<1> SUFFICES ASSUME Init PROVE SafeInv
  BY ZenonT(40)
<1>1. TypeOK
  <2>1. 0 \in 0..(LineSize - 1) /\ 0 \in 0..(TotalSize - 1) /\ QueueSize \in Nat
    BY TotalSizeType, QueueSizeAssumption
  <2>2. buffer \in [0..TotalSize -> Cells]
    BY ZenonT(40) DEF Init, create_queue, open_queue, Cells
  <2>3. /\ cpc \in [Clients -> ClientPCs] /\ back \in [Clients -> 0..(TotalSize - 1)]
        /\ request \in [Clients -> Requests \cup {NUL}] /\ nread \in [Clients -> Nat]
        /\ written \in [Clients -> Nat]
    BY ZenonT(40), <2>1 DEF Init, create_queue, open_queue, ClientPCs
  <2>4. /\ request_buffer \in Seq(Cells) /\ sent \in Seq(Requests) /\ start \in Seq(Nat)
        /\ delivered \in Seq(Seq(Cells))
    BY DEF Init, create_queue, open_queue
  <2> QED BY ZenonT(40), <2>1, <2>2, <2>3, <2>4 DEF Init, create_queue, open_queue, TypeOK, ServerPCs
<1>2. buffer[TotalSize] = NUL
  BY TotalSizeType DEF Init, create_queue, open_queue
<1> QED BY ZenonT(40), <1>1, <1>2
    DEF Init, create_queue, open_queue, SafeInv, Enqueueing, ServerInside, ClientInside,
        MutualExclusion

\* EnqueueWrite() stays inside the ring and leaves the NUL behind it alone.
LEMMA WriteSafe ==
  ASSUME SafeInv, NEW c \in Clients, EnqueueWrite(c)
  PROVE  /\ buffer' \in [0..TotalSize -> Cells]
         /\ buffer'[TotalSize] = NUL
         /\ overlap' \in 0..(LineSize - 1)
<1> DEFINE s == Text(request[c])
           offset == TotalSize - back[c]
           head == SubSeq(s, 1, offset)
           tail == SubSeq(s, offset + 1, Len(s))
<1>1. request[c] \in Requests
  BY ZenonT(40) DEF SafeInv, EnqueueWrite, ClientGoes, Enqueueing
<1>2. s \in Seq(Cells) /\ Len(s) = request[c].len /\ Len(s) \in 1..(LineSize - 1)
  BY ZenonT(40), <1>1, TextType
<1>3. back[c] \in 0..(TotalSize - 1) /\ buffer \in [0..TotalSize -> Cells]
        /\ buffer[TotalSize] = NUL /\ overlap \in 0..(LineSize - 1)
  BY ZenonT(40) DEF SafeInv, TypeOK
<1>4. CASE back[c] + Len(s) + 1 <= TotalSize
  <2>1. buffer' = Store(buffer, back[c], s) /\ overlap' = overlap
    BY ZenonT(40), <1>4 DEF EnqueueWrite
  <2>2. buffer' \in [0..TotalSize -> Cells]
    BY SMTT(30), <1>2, <1>3, <2>1, StoreType, TotalSizeType
  <2>3. TotalSize \notin back[c]..(back[c] + Len(s) - 1) /\ TotalSize # back[c] + Len(s)
    BY SMTT(30), <1>2, <1>3, <1>4, TotalSizeType
  <2>4. buffer'[TotalSize] = NUL
    BY <1>3, <2>1, <2>3, TotalSizeType DEF Store
  <2> QED BY ZenonT(40), <1>3, <2>1, <2>2, <2>4
<1>5. CASE ~ (back[c] + Len(s) + 1 <= TotalSize)
  <2>1. buffer' = Store(Store(buffer, back[c], head), 0, tail) /\ overlap' = offset
    BY ZenonT(40), <1>5 DEF EnqueueWrite
  <2>2. offset \in 1..Len(s) /\ offset \in 0..(LineSize - 1)
    <3>1. ASSUME NEW b \in 0..(TotalSize - 1), NEW n \in 1..(LineSize - 1),
                 ~ (b + n + 1 <= TotalSize)
          PROVE  TotalSize - b \in 1..n /\ TotalSize - b \in 0..(LineSize - 1)
      BY <3>1, TotalSizeType
    <3> HIDE DEF s
    <3> QED BY ZenonT(40), <1>2, <1>3, <1>5, <3>1
  <2>3. head \in Seq(Cells) /\ tail \in Seq(Cells) /\ Len(head) = offset
          /\ Len(tail) = Len(s) - offset
    <3> HIDE DEF s, offset
    <3>1. Len(s) \in Nat /\ offset \in Nat /\ offset <= Len(s)
      BY <1>2, <2>2, TotalSizeType
    <3>2. head \in Seq(Cells) /\ Len(head) = offset
      BY <1>2, <3>1
    <3>3. tail \in Seq(Cells) /\ Len(tail) = Len(s) - offset
      BY <1>2, <3>1
    <3> QED BY ZenonT(40), <3>2, <3>3
  <2> DEFINE mid == Store(buffer, back[c], head)
  <2> HIDE DEF s, offset, head, tail
  <2>4. mid \in [0..TotalSize -> Cells]
    BY SMTT(30), <1>3, <2>3, StoreType, TotalSizeType
  <2>5. mid[TotalSize] = NUL
    <3>1. TotalSize = back[c] + Len(head) /\ TotalSize \notin back[c]..(back[c] + Len(head) - 1)
      <4>1. Len(head) = TotalSize - back[c]
        BY ZenonT(40), <2>3 DEF offset
      <4> QED BY <1>3, <4>1, TotalSizeType
    <3> QED BY <1>3, <3>1, TotalSizeType DEF Store
  <2> HIDE DEF mid
  <2>6. Store(mid, 0, tail) \in [0..TotalSize -> Cells]
    BY ZenonT(40), <2>3, <2>4, StoreType
  <2>7. TotalSize \notin 0..(0 + Len(tail) - 1) /\ TotalSize # 0 + Len(tail)
    BY SMTT(30), <1>2, <2>2, <2>3, TotalSizeType
  <2>8. Store(mid, 0, tail)[TotalSize] = NUL
    BY <2>4, <2>5, <2>7, TotalSizeType DEF Store
  <2> QED BY ZenonT(40), <2>1, <2>2, <2>6, <2>8 DEF mid
<1> QED BY ZenonT(40), <1>4, <1>5

\* The test in dequeue() always takes its first branch: with no overlap, front
\* would have to be the size of the ring, and front is always less.
LEMMA CopyIsWhole ==
  ASSUME SafeInv, DequeueCopy
  PROVE  /\ request_buffer' = StringAt(buffer, front)
         /\ request_buffer' \in Seq(Cells)
         /\ overlap' = overlap
<1>1. front \in 0..(TotalSize - 1) /\ buffer \in [0..TotalSize -> Cells]
        /\ buffer[TotalSize] = NUL /\ overlap \in 0..(LineSize - 1)
  BY ZenonT(40) DEF SafeInv, TypeOK
<1>2. overlap # 0 \/ front # TotalSize - overlap
  BY <1>1, TotalSizeType
<1>3. request_buffer' = StringAt(buffer, front) /\ overlap' = overlap
  BY ZenonT(40), <1>2 DEF DequeueCopy
<1>4. StringAt(buffer, front) \in Seq(Cells)
  BY <1>1, StringAtType, TotalSizeType
<1> QED BY ZenonT(40), <1>3, <1>4

\* Every step of a client keeps SafeInv.
LEMMA ClientSafe ==
  ASSUME SafeInv, NEW c \in Clients, Client(c)
  PROVE  SafeInv'
<1> USE DEF SafeInv
<1>0. TypeOK /\ MutualExclusion
  BY ZenonT(40)
<1>1. CASE ReadLine(c)
  <2>1. PICK n \in Lengths :
          request' = [request EXCEPT ![c] = [client |-> c, num |-> nread[c] + 1, len |-> n]]
    BY ZenonT(40), <1>1 DEF ReadLine
  <2>2. [client |-> c, num |-> nread[c] + 1, len |-> n] \in Requests
    BY DEF Requests, TypeOK
  <2>3. TypeOK'
    <3>1. request' \in [Clients -> Requests \cup {NUL}]
      BY ZenonT(40), <1>0, <2>1, <2>2 DEF TypeOK
    <3>2. nread' \in [Clients -> Nat] /\ cpc' \in [Clients -> ClientPCs]
      BY SMTT(30), <1>0, <1>1 DEF ReadLine, ClientGoes, TypeOK, ClientPCs
    <3> QED BY ZenonT(40), <1>0, <1>1, <3>1, <3>2 DEF ReadLine, TypeOK, shared, serverVars, history
  <2> QED BY ZenonT(40), <1>0, <1>1, <2>1, <2>2, <2>3
          DEF ReadLine, ClientGoes, TypeOK, ClientPCs, shared, serverVars, history,
              Enqueueing, ServerInside, ClientInside, MutualExclusion
<1>2. CASE ReadBlankLine(c)
  BY SMTT(30), <1>0, <1>2 DEF ReadBlankLine, ClientGoes, TypeOK, ClientPCs, shared, serverVars, history,
              Enqueueing, ServerInside, ClientInside, MutualExclusion
<1>3. CASE EndOfFile(c)
  BY ZenonT(40), <1>0, <1>3 DEF EndOfFile, ClientGoes, TypeOK, ClientPCs, shared, serverVars, history,
              Enqueueing, ServerInside, ClientInside, MutualExclusion
<1>4. CASE EnqueueWaitEmpty(c)
  BY SMTT(30), <1>0, <1>4 DEF EnqueueWaitEmpty, sem_wait, ClientGoes, TypeOK, ClientPCs, shared, serverVars,
              history, Enqueueing, ServerInside, ClientInside, MutualExclusion
<1>5. CASE EnqueueWaitMutex(c)
  <2>1. mutex = 1 /\ mutex' = 0
    BY <1>0, <1>5 DEF EnqueueWaitMutex, sem_wait, TypeOK
  <2>2. ~ ServerInside /\ \A d \in Clients : ~ ClientInside(d)
    BY ZenonT(40), <2>1
  <2>3. TypeOK'
    BY ZenonT(40), <1>0, <1>5, <2>1
       DEF EnqueueWaitMutex, ClientGoes, TypeOK, ClientPCs, shared, serverVars, history
  <2> QED BY SMTT(30), <1>0, <1>5, <2>1, <2>2, <2>3
          DEF EnqueueWaitMutex, ClientGoes, TypeOK, shared, serverVars, history,
              Enqueueing, ServerInside, ClientInside, MutualExclusion
<1>6. CASE EnqueueWrite(c)
  <2>1. /\ buffer' \in [0..TotalSize -> Cells] /\ buffer'[TotalSize] = NUL
        /\ overlap' \in 0..(LineSize - 1)
    BY ZenonT(40), <1>6, WriteSafe
  <2>2. request[c] \in Requests /\ Len(Text(request[c])) \in Nat
    <3>1. request[c] \in Requests
      BY ZenonT(40), <1>6 DEF EnqueueWrite, ClientGoes, Enqueueing
    <3> QED BY <3>1, TextType, TotalSizeType
  <2>3. /\ sent' \in Seq(Requests) /\ start' \in Seq(Nat) /\ written' \in [Clients -> Nat]
        /\ cpc' = [cpc EXCEPT ![c] = "post_mutex"] /\ cpc[c] = "write"
        /\ UNCHANGED <<empty, full, mutex, back, request, nread, serverVars, delivered>>
    <3>1. sent' \in Seq(Requests)
      BY <1>0, <1>6, <2>2 DEF EnqueueWrite, TypeOK
    <3>2. written[c] \in Nat
      BY ZenonT(40), <1>0 DEF TypeOK
    <3>3. start' \in Seq(Nat)
      BY <1>0, <1>6, <3>2 DEF EnqueueWrite, TypeOK
    <3>4. written' = [written EXCEPT ![c] = @ + Len(Text(request[c])) + 1]
      BY ZenonT(40), <1>6 DEF EnqueueWrite
    <3>5. written' \in [Clients -> Nat]
      BY <1>0, <2>2, <3>4 DEF TypeOK
    <3> QED BY ZenonT(40), <1>6, <3>1, <3>3, <3>5 DEF EnqueueWrite, ClientGoes
  <2>4. TypeOK'
    BY ZenonT(40), <1>0, <2>1, <2>3 DEF TypeOK, ClientPCs, serverVars
  <2> QED BY ZenonT(40), <1>0, <2>1, <2>3, <2>4
          DEF TypeOK, serverVars, Enqueueing, ServerInside, ClientInside, MutualExclusion
<1>7. CASE EnqueuePostMutex(c)
  <2>1. ClientInside(c)
    BY ZenonT(40), <1>7 DEF EnqueuePostMutex, ClientGoes, ClientInside
  <2>2. mutex = 0 /\ mutex' = 1
    BY <1>0, <1>7, <2>1 DEF EnqueuePostMutex, sem_post, TypeOK
  <2>3. ~ ServerInside /\ \A d \in Clients : ClientInside(d) => d = c
    BY ZenonT(40), <1>0, <2>1 DEF MutualExclusion
  <2>4. TypeOK'
    BY ZenonT(40), <1>0, <1>7, <2>2
       DEF EnqueuePostMutex, ClientGoes, TypeOK, ClientPCs, shared, serverVars, history
  <2> QED BY ZenonT(40), <1>0, <1>7, <2>2, <2>3, <2>4
          DEF EnqueuePostMutex, ClientGoes, TypeOK, shared, serverVars, history,
              Enqueueing, ServerInside, ClientInside, MutualExclusion
<1>8. CASE EnqueuePostFull(c)
  <2>1. request[c] \in Requests /\ request[c].len \in Nat
    <3>1. request[c] \in Requests
      BY ZenonT(40), <1>8 DEF EnqueuePostFull, ClientGoes, Enqueueing
    <3> QED BY <3>1, TextType, TotalSizeType
  <2>2. (back[c] + request[c].len + 1) % TotalSize \in 0..(TotalSize - 1)
    <3>1. back[c] \in Nat
      BY <1>0, TotalSizeType DEF TypeOK
    <3>2. back[c] + request[c].len + 1 \in Nat
      BY <2>1, <3>1
    <3> QED BY ZenonT(40), <3>2, ModInRing
  <2>3. TypeOK'
    BY SMTT(30), <1>0, <1>8, <2>2
       DEF EnqueuePostFull, sem_post, ClientGoes, TypeOK, ClientPCs, shared, serverVars, history
  <2> QED BY ZenonT(40), <1>0, <1>8, <2>3
          DEF EnqueuePostFull, ClientGoes, TypeOK, shared, serverVars, history,
              Enqueueing, ServerInside, ClientInside, MutualExclusion
<1> QED BY ZenonT(40), <1>1, <1>2, <1>3, <1>4, <1>5, <1>6, <1>7, <1>8 DEF Client

\* Every step of dequeue() and of the loop around it keeps SafeInv.
LEMMA ServerSafe ==
  ASSUME SafeInv, Dequeue \/ NextRequest
  PROVE  SafeInv'
<1> USE DEF SafeInv
<1>0. TypeOK /\ MutualExclusion
  BY ZenonT(40)
<1>1. CASE DequeueWaitFull
  BY <1>0, <1>1 DEF DequeueWaitFull, ServerGoes, sem_wait, TypeOK, ServerPCs, shared, clientVars,
              history, Enqueueing, ServerInside, ClientInside, MutualExclusion
<1>2. CASE DequeueWaitMutex
  <2>1. mutex = 1 /\ mutex' = 0
    BY <1>0, <1>2 DEF DequeueWaitMutex, sem_wait, TypeOK
  <2>2. \A d \in Clients : ~ ClientInside(d)
    BY ZenonT(40), <2>1
  <2>3. TypeOK'
    BY ZenonT(40), <1>0, <1>2, <2>1
       DEF DequeueWaitMutex, ServerGoes, TypeOK, ServerPCs, shared, clientVars, history
  <2> QED BY <1>0, <1>2, <2>1, <2>2, <2>3
          DEF DequeueWaitMutex, ServerGoes, shared, clientVars,
              Enqueueing, ServerInside, ClientInside, MutualExclusion
<1>3. CASE DequeueCopy
  <2>1. request_buffer' \in Seq(Cells) /\ overlap' = overlap
    BY ZenonT(40), <1>3, CopyIsWhole
  <2>2. delivered' \in Seq(Seq(Cells))
    BY <1>0, <1>3, <2>1 DEF DequeueCopy, TypeOK
  <2>3. /\ spc = "copy" /\ spc' \in {"post_mutex", "overrun"}
        /\ UNCHANGED <<buffer, empty, full, mutex, clientVars, front, sent, start, written>>
    BY ZenonT(40), <1>3 DEF DequeueCopy
  <2>4. TypeOK'
    BY ZenonT(40), <1>0, <2>1, <2>2, <2>3 DEF TypeOK, ServerPCs, clientVars
  <2> QED BY ZenonT(40), <1>0, <2>3, <2>4
          DEF clientVars, Enqueueing, ServerInside, ClientInside, MutualExclusion
<1>4. CASE DequeuePostMutex
  <2>1. ServerInside
    BY ZenonT(40), <1>4 DEF DequeuePostMutex, ServerGoes, ServerInside
  <2>2. mutex = 0 /\ mutex' = 1
    BY <1>0, <1>4, <2>1 DEF DequeuePostMutex, sem_post, TypeOK
  <2>3. \A d \in Clients : ~ ClientInside(d)
    BY ZenonT(40), <1>0, <2>1 DEF MutualExclusion
  <2>4. TypeOK'
    BY ZenonT(40), <1>0, <1>4, <2>2
       DEF DequeuePostMutex, ServerGoes, TypeOK, ServerPCs, shared, clientVars, history
  <2> QED BY ZenonT(40), <1>0, <1>4, <2>2, <2>3, <2>4
          DEF DequeuePostMutex, ServerGoes, shared, clientVars,
              Enqueueing, ServerInside, ClientInside, MutualExclusion
<1>5. CASE DequeuePostEmpty
  <2>1. (front + Len(request_buffer) + 1) % TotalSize \in 0..(TotalSize - 1)
    <3>1. front \in Nat /\ Len(request_buffer) \in Nat
      BY <1>0, TotalSizeType DEF TypeOK
    <3>2. front + Len(request_buffer) + 1 \in Nat
      BY <3>1
    <3> QED BY ZenonT(40), <3>2, ModInRing
  <2>2. TypeOK'
    BY <1>0, <1>5, <2>1
       DEF DequeuePostEmpty, sem_post, ServerGoes, TypeOK, ServerPCs, shared, clientVars, history
  <2> QED BY ZenonT(40), <1>0, <1>5, <2>2
          DEF DequeuePostEmpty, ServerGoes, shared, clientVars,
              Enqueueing, ServerInside, ClientInside, MutualExclusion
<1>6. CASE NextRequest
  BY ZenonT(40), <1>0, <1>6 DEF NextRequest, ServerGoes, TypeOK, ServerPCs, shared, clientVars,
              history, Enqueueing, ServerInside, ClientInside, MutualExclusion
<1> QED BY ZenonT(40), <1>1, <1>2, <1>3, <1>4, <1>5, <1>6 DEF Dequeue

\* A step that changes nothing keeps SafeInv.
LEMMA StutterSafe == SafeInv /\ UNCHANGED vars => SafeInv'
BY ZenonT(40) DEF SafeInv, vars, TypeOK, shared, clientVars, serverVars, history,
       Enqueueing, ServerInside, ClientInside, MutualExclusion

\* SafeInv is inductive: every step of enqueue(), dequeue() and the loops around
\* them keeps it.
LEMMA NextSafe == SafeInv /\ [Next]_vars => SafeInv'
BY ZenonT(40), ClientSafe, ServerSafe, StutterSafe DEF Next

\* SafeInv holds in every state the clients and the server reach.
THEOREM SafeAlways == Spec => []SafeInv
<1>1. SafeInv /\ [Next]_vars => SafeInv'
  BY ZenonT(40), NextSafe
<1> QED BY InitSafe, <1>1, PTL DEF Spec

\* Every variable keeps its type: back and front, which enqueue() and dequeue()
\* advance modulo the size of the ring, never leave it, and the mutex is never
\* posted twice.
THEOREM TypeCorrect == Spec => []TypeOK
<1>1. SafeInv => TypeOK
  BY ZenonT(40) DEF SafeInv
<1> QED BY <1>1, SafeAlways, PTL

\* The mutex semaphore of enqueue() and dequeue() excludes any two processes from
\* the ring, for any number of clients.
THEOREM MutexExcludes == Spec => []MutualExclusion
<1>1. SafeInv => MutualExclusion
  BY ZenonT(40) DEF SafeInv
<1> QED BY <1>1, SafeAlways, PTL

\* The branch of dequeue() that puts a split request together never runs: every
\* dequeue() is a plain strcpy() from front, and overlap is never reset.
THEOREM NeverReassembles ==
  Spec => [][DequeueCopy => /\ request_buffer' = StringAt(buffer, front)
                            /\ overlap' = overlap]_vars
<1>1. SafeInv /\ [Next]_vars
        => [DequeueCopy => /\ request_buffer' = StringAt(buffer, front)
                           /\ overlap' = overlap]_vars
  BY ZenonT(40), CopyIsWhole
<1> QED BY <1>1, SafeAlways, PTL DEF Spec

-----------------------------------------------------------------------------
(* The slots, for any number of clients.                                   *)

Holders == {c \in Clients : HoldsSlot(c)}

\* Finitely many clients hold a slot, so the slots can be counted.
LEMMA HoldersFinite == IsFiniteSet(Holders) /\ Cardinality(Holders) \in Nat
BY ZenonT(40), ClientsAssumption, FS_Subset, FS_CardinalityType DEF Holders

\* At the start every slot is in the semaphore empty.
LEMMA InitSlots == Init => SlotsConserved
<1> SUFFICES ASSUME Init PROVE SlotsConserved
  BY ZenonT(40)
<1>1. Holders = {}
  BY ZenonT(40) DEF Init, create_queue, open_queue, Holders, HoldsSlot
<1>2. Cardinality(Holders) = 0
  BY ZenonT(40), <1>1, FS_EmptySet
<1> QED BY <1>2, QueueSizeAssumption
    DEF Init, create_queue, open_queue, SlotsConserved, Holders, ServerHoldsSlot

\* A client takes a slot from empty and gives it to full.
LEMMA ClientSlots ==
  ASSUME SafeInv, SlotsConserved, NEW c \in Clients, Client(c)
  PROVE  SlotsConserved'
<1>0. TypeOK
  BY ZenonT(40) DEF SafeInv
<1>1. cpc \in [Clients -> ClientPCs] /\ empty \in Nat /\ full \in Nat
  BY ZenonT(40), <1>0 DEF TypeOK
<1>2. UNCHANGED spc
  BY ZenonT(40) DEF Client, ReadLine, ReadBlankLine, EndOfFile, EnqueueWaitEmpty, EnqueueWaitMutex,
         EnqueueWrite, EnqueuePostMutex, EnqueuePostFull, serverVars
<1>3. IsFiniteSet(Holders) /\ Cardinality(Holders) \in Nat
  BY ZenonT(40), HoldersFinite
<1>4. CASE EnqueueWaitEmpty(c)
  <2>1. c \notin Holders /\ Holders' = Holders \cup {c}
    BY ZenonT(40), <1>1, <1>4 DEF EnqueueWaitEmpty, ClientGoes, Holders, HoldsSlot
  <2>2. Cardinality(Holders') = Cardinality(Holders) + 1
    BY ZenonT(40), <1>3, <2>1, FS_AddElement
  <2>3. empty' = empty - 1 /\ full' = full
    BY ZenonT(40), <1>4 DEF EnqueueWaitEmpty, sem_wait
  <2> QED BY <1>1, <1>2, <1>3, <2>2, <2>3, QueueSizeAssumption
          DEF SlotsConserved, Holders, ServerHoldsSlot
<1>5. CASE EnqueuePostFull(c)
  <2>1. c \in Holders /\ Holders' = Holders \ {c}
    BY ZenonT(40), <1>1, <1>5 DEF EnqueuePostFull, ClientGoes, Holders, HoldsSlot
  <2>2. Cardinality(Holders') = Cardinality(Holders) - 1
    BY ZenonT(40), <1>3, <2>1, FS_RemoveElement
  <2>3. empty' = empty /\ full' = full + 1
    BY ZenonT(40), <1>5 DEF EnqueuePostFull, sem_post
  <2> QED BY <1>1, <1>2, <1>3, <2>2, <2>3, QueueSizeAssumption
          DEF SlotsConserved, Holders, ServerHoldsSlot
<1>6. CASE \/ ReadLine(c) \/ ReadBlankLine(c) \/ EndOfFile(c)
           \/ EnqueueWaitMutex(c) \/ EnqueueWrite(c) \/ EnqueuePostMutex(c)
  <2>1. Holders' = Holders
    BY ZenonT(40), <1>1, <1>6
       DEF ReadLine, ReadBlankLine, EndOfFile, EnqueueWaitMutex, EnqueueWrite,
                     EnqueuePostMutex, ClientGoes, Holders, HoldsSlot
  <2>2. empty' = empty /\ full' = full
    BY ZenonT(40), <1>6 DEF ReadLine, ReadBlankLine, EndOfFile, EnqueueWaitMutex, EnqueueWrite,
               EnqueuePostMutex
  <2> QED BY ZenonT(40), <1>2, <2>1, <2>2 DEF SlotsConserved, Holders, ServerHoldsSlot
<1> QED BY ZenonT(40), <1>4, <1>5, <1>6 DEF Client

\* No step of the server loses or mints a slot.
LEMMA ServerSlots ==
  ASSUME SafeInv, SlotsConserved, Dequeue \/ NextRequest
  PROVE  SlotsConserved'
<1>1. empty \in Nat /\ full \in Nat
  BY ZenonT(40) DEF SafeInv, TypeOK
<1>2. Holders' = Holders
  BY ZenonT(40) DEF Dequeue, DequeueWaitFull, DequeueWaitMutex, DequeueCopy, DequeuePostMutex,
         DequeuePostEmpty, NextRequest, clientVars, Holders, HoldsSlot
<1>3. Cardinality(Holders) \in Nat
  BY ZenonT(40), HoldersFinite
<1>4. \/ spc = "wait_full" /\ spc' = "wait_mutex" /\ full' = full - 1 /\ empty' = empty
      \/ spc = "post_empty" /\ spc' = "got" /\ empty' = empty + 1 /\ full' = full
      \/ /\ ServerHoldsSlot' = ServerHoldsSlot
         /\ empty' = empty /\ full' = full
  BY DEF Dequeue, DequeueWaitFull, DequeueWaitMutex, DequeueCopy, DequeuePostMutex,
         DequeuePostEmpty, NextRequest, ServerGoes, sem_wait, sem_post, ServerHoldsSlot
<1> DEFINE h == Cardinality(Holders)
<1>5. /\ SlotsConserved <=> empty + full + h + (IF ServerHoldsSlot THEN 1 ELSE 0) = QueueSize
      /\ SlotsConserved' <=> empty' + full' + h + (IF ServerHoldsSlot' THEN 1 ELSE 0) = QueueSize
  BY ZenonT(40), <1>2 DEF SlotsConserved, Holders
<1> HIDE DEF h
<1>6. h \in Nat
  BY ZenonT(40), <1>3 DEF h
<1>7. CASE spc = "wait_full" /\ spc' = "wait_mutex" /\ full' = full - 1 /\ empty' = empty
  BY <1>1, <1>5, <1>6, <1>7 DEF ServerHoldsSlot
<1>8. CASE spc = "post_empty" /\ spc' = "got" /\ empty' = empty + 1 /\ full' = full
  BY <1>1, <1>5, <1>6, <1>8 DEF ServerHoldsSlot
<1>9. CASE ServerHoldsSlot' = ServerHoldsSlot /\ empty' = empty /\ full' = full
  BY ZenonT(40), <1>5, <1>9
<1> QED BY ZenonT(40), <1>4, <1>7, <1>8, <1>9

\* enqueue() and dequeue() neither lose nor mint a slot, for any finite set of
\* clients.
THEOREM SlotsAlways == Spec => []SlotsConserved
<1>1. SlotsConserved /\ UNCHANGED vars => SlotsConserved'
  BY ZenonT(40) DEF SlotsConserved, vars, clientVars, serverVars, HoldsSlot, ServerHoldsSlot
<1>2. SafeInv /\ SlotsConserved /\ [Next]_vars => SlotsConserved'
  BY ZenonT(40), <1>1, ClientSlots, ServerSlots DEF Next
<1> QED BY InitSlots, <1>2, SafeAlways, PTL DEF Spec

-----------------------------------------------------------------------------
(* With one client: no request in the ring is overwritten before the       *)
(* server has copied it, the server gets the requests in order, up to the  *)
(* first that is split, and whatever it copies fits its request_buffer.    *)

\* The bytes before the request after sent[k].
End(k) == start[k] + sent[k].len + 1

\* The history is consistent: requests lie one behind the other, and the last
\* n requests take at most n lines.
Layout(c) ==
  /\ Len(start) = Len(sent)
  /\ written[c] = IF sent = <<>> THEN 0 ELSE End(Len(sent))
  /\ \A k \in 1..Len(sent) :
       /\ End(k) <= written[c]
       /\ written[c] <= start[k] + (Len(sent) - k + 1) * LineSize
       /\ start[k] = IF k = 1 THEN 0 ELSE End(k - 1)

Posting(c) == cpc[c] \in {"post_mutex", "post_full"}

\* back is where the client has written up to; between the write and the end of
\* enqueue() it is where the last request starts.
BackFollows(c) ==
  /\ Posting(c) => sent # <<>> /\ request[c] = sent[Len(sent)]
  /\ back[c] = (IF Posting(c) THEN start[Len(sent)] ELSE written[c]) % TotalSize

\* The requests in flight are those posted, the one being posted, and the one
\* the server is about to copy; together with the free slots they make up the queue.
Counted(c) ==
  /\ Len(sent) - Len(delivered) = full + (IF Posting(c) THEN 1 ELSE 0)
                                    + (IF spc \in {"wait_mutex", "copy"} THEN 1 ELSE 0)
  /\ empty + full + (IF HoldsSlot(c) THEN 1 ELSE 0) + (IF ServerHoldsSlot THEN 1 ELSE 0)
       = QueueSize

Copied == spc \in {"post_mutex", "post_empty", "overrun"}

\* As long as nothing was split, front is where the request to come starts;
\* between the copy and the end of dequeue() it is where the last one started.
FrontFollows ==
  /\ Copied => delivered # <<>> /\ request_buffer = delivered[Len(delivered)]
  /\ (\A k \in 1..Len(delivered) : ~ Split(k)) =>
       front = (IF Copied THEN start[Len(delivered)]
                ELSE IF delivered = <<>> THEN 0 ELSE End(Len(delivered))) % TotalSize

OrderInv(c) ==
  /\ Layout(c)
  /\ BackFollows(c)
  /\ Counted(c)
  /\ InFlightIntact
  /\ FrontFollows
  /\ DeliveredUntilSplit

-----------------------------------------------------------------------------
(* What a write and a read do to the cells of the ring.                    *)

\* enqueue() puts the characters and the NUL, split or not, where back points,
\* modulo the size of the ring, and changes no other cell of the ring.
LEMMA WriteCells ==
  ASSUME SafeInv, NEW c \in Clients, EnqueueWrite(c)
  PROVE  /\ request[c] \in Requests
         /\ request[c].len \in 1..(LineSize - 1)
         /\ \A i \in 1..request[c].len :
              buffer'[(back[c] + i - 1) % TotalSize] = <<request[c], i>>
         /\ buffer'[(back[c] + request[c].len) % TotalSize] = NUL
         /\ \A j \in 0..(TotalSize - 1) :
              (\A i \in 0..request[c].len : j # (back[c] + i) % TotalSize)
                => buffer'[j] = buffer[j]
<1> DEFINE r == request[c]
           s == Text(r)
           n == r.len
           p == back[c]
           T == TotalSize
           offset == T - p
           head == SubSeq(s, 1, offset)
           tail == SubSeq(s, offset + 1, Len(s))
<1>1. r \in Requests
  BY ZenonT(40) DEF SafeInv, EnqueueWrite, ClientGoes, Enqueueing
<1>2. /\ n \in 1..(LineSize - 1) /\ s \in Seq(Cells) /\ Len(s) = n
      /\ \A i \in 1..n : s[i] = <<r, i>>
  BY ZenonT(40), <1>1, TextType
<1>3. p \in 0..(T - 1) /\ buffer \in [0..T -> Cells]
  BY ZenonT(40) DEF SafeInv, TypeOK
<1>4. T \in Nat /\ T > 0 /\ LineSize \in Nat /\ T >= LineSize
  BY TotalSizeType
<1>5. buffer' = IF p + n + 1 <= T THEN Store(buffer, p, s)
                ELSE Store(Store(buffer, p, head), 0, tail)
  BY ZenonT(40), <1>2 DEF EnqueueWrite
<1> HIDE DEF r, s, n, p, T, offset
<1>6. n \in Nat /\ n >= 1 /\ n < T /\ p \in Nat /\ p < T
  BY <1>2, <1>3, <1>4
<1> SUFFICES /\ \A i \in 1..n : buffer'[(p + i - 1) % T] = <<r, i>>
             /\ buffer'[(p + n) % T] = NUL
             /\ \A j \in 0..(T - 1) : (\A i \in 0..n : j # (p + i) % T) => buffer'[j] = buffer[j]
  BY ZenonT(40), <1>1, <1>2 DEF r, n, p, T
<1>7. CASE p + n + 1 <= T
  <2>1. \A i \in 0..n : p + i \in 0..(T - 1) /\ (p + i) % T = p + i
    BY <1>4, <1>6, <1>7, ModSmall
  <2>2. \A j \in 0..T : buffer'[j] = IF j \in p..(p + n - 1) THEN s[j - p + 1]
                                     ELSE IF j = p + n THEN NUL ELSE buffer[j]
    BY ZenonT(40), <1>2, <1>3, <1>5, <1>7 DEF Store
  <2>3. ASSUME NEW i \in 1..n PROVE buffer'[(p + i - 1) % T] = <<r, i>>
    <3>1. i - 1 \in 0..n /\ p + (i - 1) = p + i - 1
      BY <1>6
    <3>2. (p + i - 1) % T = p + i - 1 /\ p + i - 1 \in 0..T /\ p + i - 1 \in p..(p + n - 1)
            /\ (p + i - 1) - p + 1 = i
      BY <1>4, <1>6, <2>1, <3>1
    <3> QED BY ZenonT(40), <1>2, <2>2, <3>2
  <2>4. buffer'[(p + n) % T] = NUL
    <3>1. n \in 0..n /\ (p + n) % T = p + n /\ p + n \in 0..T /\ p + n \notin p..(p + n - 1)
      BY <1>4, <1>6, <2>1
    <3> QED BY ZenonT(40), <2>2, <3>1
  <2>5. ASSUME NEW j \in 0..(T - 1), \A i \in 0..n : j # (p + i) % T
        PROVE  buffer'[j] = buffer[j]
    <3>1. j \notin p..(p + n)
      <4> SUFFICES ASSUME j \in p..(p + n) PROVE FALSE
        BY ZenonT(40)
      <4>1. j - p \in 0..n /\ p + (j - p) = j
        BY <1>4, <1>6
      <4> QED BY ZenonT(40), <2>1, <2>5, <4>1
    <3>2. j \in 0..T /\ j \notin p..(p + n - 1) /\ j # p + n
      BY SMTT(30), <1>4, <1>6, <3>1
    <3> QED BY ZenonT(40), <2>2, <3>2
  <2> QED BY ZenonT(40), <2>3, <2>4, <2>5
<1>8. CASE ~ (p + n + 1 <= T)
  <2>1. offset \in Nat /\ offset >= 1 /\ offset <= n /\ p + offset = T
    BY <1>4, <1>6, <1>8 DEF offset
  <2>2. /\ Len(head) = offset /\ Len(tail) = n - offset
        /\ \A i \in 1..offset : head[i] = s[i]
        /\ \A i \in 1..(n - offset) : tail[i] = s[offset + i]
    <3>1. head \in Seq(Cells) /\ Len(head) = offset /\ \A i \in 1..offset : head[i] = s[i]
      BY <1>2, <1>6, <2>1
    <3>2. Len(tail) = n - offset /\ \A i \in 1..(n - offset) : tail[i] = s[offset + i]
      BY <1>2, <1>6, <2>1
    <3> QED BY ZenonT(40), <3>1, <3>2
  <2> DEFINE mid == Store(buffer, p, head)
  <2>3. buffer' = Store(mid, 0, tail)
    BY ZenonT(40), <1>5, <1>8
  <2> HIDE DEF head, tail
  <2>4. mid = [j \in 0..T |-> IF j \in p..(p + offset - 1) THEN head[j - p + 1]
                              ELSE IF j = p + offset THEN NUL ELSE buffer[j]]
    BY ZenonT(40), <1>3, <2>2 DEF Store
  <2> HIDE DEF mid
  <2>5. \A j \in 0..T : buffer'[j] = IF j \in 0..(n - offset - 1) THEN tail[j + 1]
                                     ELSE IF j = n - offset THEN NUL ELSE mid[j]
    <3>1. DOMAIN mid = 0..T
      BY ZenonT(40), <2>4
    <3>2. buffer' = [j \in 0..T |-> IF j \in 0..(0 + (n - offset) - 1) THEN tail[j - 0 + 1]
                                    ELSE IF j = 0 + (n - offset) THEN NUL ELSE mid[j]]
      BY ZenonT(40), <2>2, <2>3, <3>1 DEF Store
    <3>3. 0 + (n - offset) - 1 = n - offset - 1 /\ 0 + (n - offset) = n - offset
            /\ \A j \in 0..T : j - 0 + 1 = j + 1
      BY SMTT(30), <1>4, <1>6, <2>1
    <3> QED BY ZenonT(40), <3>2, <3>3
  <2>6. \A i \in 0..n : (p + i) % T = IF i < offset THEN p + i ELSE i - offset
    <3> SUFFICES ASSUME NEW i \in 0..n PROVE (p + i) % T = IF i < offset THEN p + i ELSE i - offset
      BY ZenonT(40)
    <3>1. p % T = p
      BY <1>4, <1>6, ModSmall
    <3>2. /\ (p % T) + i < T => (p + i) % T = (p % T) + i
          /\ T <= (p % T) + i /\ (p % T) + i < 2 * T => (p + i) % T = (p % T) + i - T
      <4>1. i \in Nat
        OBVIOUS
      <4> QED BY ZenonT(40), <1>4, <1>6, <4>1, ModStep
    <3> QED BY SMTT(30), <1>4, <1>6, <2>1, <3>1, <3>2
  <2>7. ASSUME NEW i \in 1..n PROVE buffer'[(p + i - 1) % T] = <<r, i>>
    <3>1. i - 1 \in 0..n /\ p + (i - 1) = p + i - 1
      BY <1>6
    <3>2. CASE i - 1 < offset
      <4>1. (p + i - 1) % T = p + i - 1
        BY ZenonT(40), <2>6, <3>1, <3>2
      <4>2. /\ p + i - 1 \in 0..T /\ p + i - 1 \notin 0..(n - offset - 1) /\ p + i - 1 # n - offset
            /\ p + i - 1 \in p..(p + offset - 1) /\ (p + i - 1) - p + 1 = i /\ i \in 1..offset
        BY SMTT(30), <1>4, <1>6, <2>1, <3>2
      <4>3. buffer'[p + i - 1] = mid[p + i - 1] /\ mid[p + i - 1] = head[i]
        BY ZenonT(40), <2>4, <2>5, <4>2
      <4> QED BY ZenonT(40), <1>2, <2>2, <4>1, <4>2, <4>3
    <3>3. CASE ~ (i - 1 < offset)
      <4>1. (p + i - 1) % T = i - 1 - offset
        BY ZenonT(40), <2>6, <3>1, <3>3
      <4>2. /\ i - 1 - offset \in 0..T /\ i - 1 - offset \in 0..(n - offset - 1)
            /\ (i - 1 - offset) + 1 = i - offset /\ i - offset \in 1..(n - offset)
            /\ offset + (i - offset) = i
        BY <1>4, <1>6, <2>1, <3>3
      <4>3. buffer'[i - 1 - offset] = tail[i - offset] /\ tail[i - offset] = s[i]
        BY ZenonT(40), <2>2, <2>5, <4>2
      <4> QED BY ZenonT(40), <1>2, <4>1, <4>3
    <3> QED BY ZenonT(40), <3>2, <3>3
  <2>8. buffer'[(p + n) % T] = NUL
    <3>1. (p + n) % T = n - offset
      BY <1>6, <2>1, <2>6
    <3>2. n - offset \in 0..T /\ n - offset \notin 0..(n - offset - 1)
      BY <1>4, <1>6, <2>1
    <3> QED BY ZenonT(40), <2>5, <3>1, <3>2
  <2>9. ASSUME NEW j \in 0..(T - 1), \A i \in 0..n : j # (p + i) % T
        PROVE  buffer'[j] = buffer[j]
    <3>1. ~ (j >= p)
      <4> SUFFICES ASSUME j >= p PROVE FALSE
        BY ZenonT(40)
      <4>1. j - p \in 0..n /\ j - p < offset /\ p + (j - p) = j
        BY <1>4, <1>6, <2>1
      <4> QED BY ZenonT(40), <2>6, <2>9, <4>1
    <3>2. ~ (j <= n - offset)
      <4> SUFFICES ASSUME j <= n - offset PROVE FALSE
        BY ZenonT(40)
      <4>1. j + offset \in 0..n /\ ~ (j + offset < offset) /\ (j + offset) - offset = j
        BY <1>4, <1>6, <2>1
      <4>2. (p + (j + offset)) % T = j
        BY ZenonT(40), <2>6, <4>1
      <4> QED BY ZenonT(40), <2>9, <4>1, <4>2
    <3>3. /\ j \in 0..T /\ j \notin 0..(n - offset - 1) /\ j # n - offset
          /\ j \notin p..(p + offset - 1) /\ j # p + offset
      BY SMTT(30), <1>4, <1>6, <2>1, <3>1, <3>2
    <3> QED BY ZenonT(40), <2>4, <2>5, <3>3
  <2> QED BY ZenonT(40), <2>7, <2>8, <2>9
<1> QED BY ZenonT(40), <1>7, <1>8

\* strcpy() from where an unsplit request starts returns its text.
LEMMA ReadCells ==
  ASSUME NEW buf \in [0..TotalSize -> Cells], buf[TotalSize] = NUL,
         NEW p \in 0..(TotalSize - 1), NEW r \in Requests, p + r.len <= TotalSize,
         \A i \in 1..r.len : buf[p + i - 1] = <<r, i>>,
         buf[p + r.len] = NUL
  PROVE  StringAt(buf, p) = Text(r)
<1> DEFINE n == strlen(buf, p)
           m == r.len
<1>1. m \in 1..(LineSize - 1) /\ \A i \in 1..m : <<r, i>> # NUL
  BY ZenonT(40), TextType
<1>2. TotalSize \in Nat /\ LineSize \in Nat
  BY ZenonT(40), TotalSizeType
<1>3. p \in 0..TotalSize
  BY <1>2
<1>4. n \in 0..(TotalSize - p) /\ buf[p + n] = NUL /\ \A k \in 0..(n - 1) : buf[p + k] # NUL
  BY ZenonT(40), <1>3, StrlenIsFirstNUL
<1> HIDE DEF n
<1>5. n = m
  <2>1. ~ (m < n)
    <3> SUFFICES ASSUME m < n PROVE FALSE
      BY ZenonT(40)
    <3>1. m \in 0..(n - 1)
      BY <1>1, <1>2, <1>4
    <3> QED BY ZenonT(40), <1>4, <3>1
  <2>2. ~ (n < m)
    <3> SUFFICES ASSUME n < m PROVE FALSE
      BY ZenonT(40)
    <3>1. n + 1 \in 1..m /\ p + (n + 1) - 1 = p + n
      BY <1>1, <1>2, <1>4
    <3>2. buf[p + n] = <<r, n + 1>>
      BY ZenonT(40), <3>1
    <3> QED BY ZenonT(40), <1>1, <1>4, <3>1, <3>2
  <2> QED BY SMTT(30), <1>1, <1>2, <1>4, <2>1, <2>2
<1>6. [i \in 1..n |-> buf[p + i - 1]] = [i \in 1..m |-> <<r, i>>]
  BY ZenonT(40), <1>5
<1> QED BY ZenonT(40), <1>6 DEF StringAt, Text, n

\* A product by LineSize keeps the order.
LEMMA LinesMonotone ==
  ASSUME NEW a \in Nat, NEW b \in Nat, a <= b
  PROVE  a * LineSize \in Nat /\ b * LineSize \in Nat /\ a * LineSize <= b * LineSize
<1>1. CASE a = b
  BY <1>1, TotalSizeType
<1>2. CASE a < b
  <2>1. LineSize * a + LineSize <= LineSize * b
    BY <1>2, TotalSizeType, MultiplesApart
  <2> QED BY <2>1, TotalSizeType
<1> QED BY <1>1, <1>2

-----------------------------------------------------------------------------
(* OrderInv is inductive.                                                  *)

\* create_queue() and open_queue() establish OrderInv.
LEMMA InitOrder ==
  ASSUME NEW c \in Clients, Init
  PROVE  OrderInv(c)
<1>1. sent = <<>> /\ start = <<>> /\ delivered = <<>> /\ Len(sent) = 0 /\ Len(start) = 0 /\ Len(delivered) = 0
        /\ written[c] = 0 /\ back[c] = 0 /\ front = 0 /\ empty = QueueSize /\ full = 0
        /\ cpc[c] = "read" /\ spc = "wait_full"
  BY ZenonT(40) DEF Init, create_queue, open_queue
<1>2. 0 % TotalSize = 0 /\ 1..0 = {}
  BY TotalSizeType, ModSmall
<1>3. Layout(c) /\ InFlightIntact /\ DeliveredUntilSplit
  BY <1>1, <1>2 DEF Layout, InFlightIntact, InFlight, DeliveredUntilSplit
<1>4. BackFollows(c) /\ FrontFollows
  BY ZenonT(40), <1>1, <1>2 DEF BackFollows, Posting, FrontFollows, Copied
<1>5. Counted(c)
  BY <1>1, QueueSizeAssumption DEF Counted, Posting, HoldsSlot, ServerHoldsSlot
<1> QED BY ZenonT(40), <1>3, <1>4, <1>5 DEF OrderInv

\* The types that the steps below use.
LEMMA OrderTypes ==
  ASSUME SafeInv, NEW c \in Clients, OrderInv(c)
  PROVE  /\ Len(sent) \in Nat /\ Len(delivered) \in Nat /\ Len(delivered) <= Len(sent)
         /\ full \in Nat /\ empty \in Nat /\ written[c] \in Nat
         /\ Len(start) = Len(sent)
         /\ \A k \in 1..Len(sent) :
              /\ sent[k] \in Requests /\ sent[k].len \in 1..(LineSize - 1)
              /\ start[k] \in Nat /\ End(k) \in Nat
<1>1. TypeOK /\ Layout(c) /\ Counted(c)
  BY ZenonT(40) DEF SafeInv, OrderInv
<1>2. /\ Len(sent) \in Nat /\ Len(delivered) \in Nat /\ full \in Nat /\ empty \in Nat
      /\ written[c] \in Nat /\ Len(start) = Len(sent)
  BY <1>1 DEF TypeOK, Layout
<1>3. Len(delivered) <= Len(sent)
  BY <1>1, <1>2 DEF Counted
<1>4. ASSUME NEW k \in 1..Len(sent)
      PROVE  /\ sent[k] \in Requests /\ sent[k].len \in 1..(LineSize - 1)
             /\ start[k] \in Nat /\ End(k) \in Nat
  <2>1. sent[k] \in Requests /\ start[k] \in Nat
    BY SMTT(30), <1>1, <1>2 DEF TypeOK
  <2>2. sent[k].len \in 1..(LineSize - 1)
    BY ZenonT(40), <2>1, TextType
  <2> QED BY SMTT(30), <2>1, <2>2, TotalSizeType DEF End
<1> QED BY ZenonT(40), <1>2, <1>3, <1>4

\* A step that leaves the ring and the history alone keeps what is said of them.
LEMMA HistoryKept ==
  ASSUME NEW c \in Clients, UNCHANGED <<buffer, history>>
  PROVE  /\ Layout(c) => Layout(c)'
         /\ InFlightIntact => InFlightIntact'
         /\ DeliveredUntilSplit => DeliveredUntilSplit'
BY ZenonT(40) DEF history, Layout, End, InFlightIntact, InFlight, Intact, DeliveredUntilSplit, Split

\* enqueue() writes behind everything in flight: the new request takes a slot,
\* and QueueSize slots of LineSize bytes are the whole ring.
LEMMA WriteOrder ==
  ASSUME SafeInv, NEW c \in Clients, OrderInv(c), EnqueueWrite(c)
  PROVE  OrderInv(c)'
<1> DEFINE n == Len(sent)
           d == Len(delivered)
           r == request[c]
           w == written[c]
           T == TotalSize
<1>1. Layout(c) /\ BackFollows(c) /\ Counted(c) /\ InFlightIntact /\ FrontFollows
        /\ DeliveredUntilSplit
  BY ZenonT(40) DEF OrderInv
<1>2. /\ n \in Nat /\ d \in Nat /\ d <= n /\ full \in Nat /\ empty \in Nat /\ w \in Nat
      /\ Len(start) = n
  BY ZenonT(40), OrderTypes
<1>a. \A k \in 1..n : sent[k].len \in Nat /\ start[k] \in Nat
  BY OrderTypes, TotalSizeType
<1>3. /\ r \in Requests /\ r.len \in 1..(LineSize - 1)
      /\ \A i \in 1..r.len : buffer'[(back[c] + i - 1) % T] = <<r, i>>
      /\ buffer'[(back[c] + r.len) % T] = NUL
      /\ \A j \in 0..(T - 1) :
           (\A i \in 0..r.len : j # (back[c] + i) % T) => buffer'[j] = buffer[j]
  BY ZenonT(40), WriteCells
<1>4. /\ cpc[c] = "write" /\ cpc' = [cpc EXCEPT ![c] = "post_mutex"] /\ cpc'[c] = "post_mutex"
      /\ sent' = Append(sent, r) /\ start' = Append(start, w)
      /\ UNCHANGED <<empty, full, mutex, back, request, nread, serverVars, delivered>>
  BY ZenonT(40) DEF EnqueueWrite, ClientGoes, SafeInv, TypeOK
<1>5. written'[c] = w + r.len + 1
  <2>1. Len(Text(r)) = r.len
    BY ZenonT(40), <1>3, TextType
  <2>2. written' = [written EXCEPT ![c] = @ + Len(Text(r)) + 1] /\ written \in [Clients -> Nat]
    BY ZenonT(40) DEF EnqueueWrite, SafeInv, TypeOK
  <2> QED BY ZenonT(40), <2>1, <2>2
<1>6. /\ T \in Nat /\ T > 0 /\ LineSize \in Nat /\ T >= LineSize
      /\ r.len \in Nat /\ r.len >= 1 /\ r.len + 1 <= LineSize
  BY <1>3, TotalSizeType
<1>7. back[c] = w % T
  BY ZenonT(40), <1>1, <1>4 DEF BackFollows, Posting
<1>8. /\ Len(sent') = n + 1 /\ Len(start') = n + 1 /\ sent' # <<>>
      /\ sent'[n + 1] = r /\ start'[n + 1] = w
      /\ \A k \in 1..n : sent'[k] = sent[k] /\ start'[k] = start[k]
  BY SMTT(30), <1>2, <1>4 DEF SafeInv, TypeOK
<1>9. n - d + 1 <= QueueSize
  <2>1. /\ n - d = full + (IF spc \in {"wait_mutex", "copy"} THEN 1 ELSE 0)
        /\ empty + full + 1 + (IF ServerHoldsSlot THEN 1 ELSE 0) = QueueSize
    BY <1>1, <1>2, <1>4 DEF Counted, Posting, HoldsSlot
  <2>2. spc \in {"wait_mutex", "copy"} => ServerHoldsSlot
    BY ZenonT(40) DEF ServerHoldsSlot
  <2> QED BY <1>2, <2>1, <2>2, QueueSizeAssumption
<1> HIDE DEF n, d, r, w, T
<1>10. Layout(c)'
  <2>1. ASSUME NEW k \in 1..(n + 1)
        PROVE  /\ start'[k] + sent'[k].len + 1 <= written'[c]
               /\ written'[c] <= start'[k] + ((n + 1) - k + 1) * LineSize
               /\ start'[k] = IF k = 1 THEN 0 ELSE start'[k - 1] + sent'[k - 1].len + 1
    <3>1. CASE k \in 1..n
      <4>1. /\ start[k] + sent[k].len + 1 <= w
            /\ w <= start[k] + (n - k + 1) * LineSize
            /\ start[k] = IF k = 1 THEN 0 ELSE start[k - 1] + sent[k - 1].len + 1
        BY ZenonT(40), <1>1, <3>1 DEF Layout, End, n, w
      <4>2. ((n + 1) - k + 1) * LineSize = (n - k + 1) * LineSize + LineSize
              /\ (n - k + 1) * LineSize \in Nat
        <5> DEFINE x == n - k + 1
        <5>1. x \in Nat /\ (n + 1) - k + 1 = x + 1
          BY <1>2, <3>1
        <5> HIDE DEF x
        <5>2. (x + 1) * LineSize = x * LineSize + LineSize /\ x * LineSize \in Nat
          BY <1>6, <5>1
        <5> QED BY ZenonT(40), <5>1, <5>2 DEF x
      <4>3. start[k] \in Nat /\ sent[k].len \in Nat
        BY ZenonT(40), <1>a, <3>1
      <4>4. start'[k] + sent'[k].len + 1 <= written'[c]
        <5>1. start'[k] = start[k] /\ sent'[k] = sent[k]
          BY ZenonT(40), <1>8, <3>1
        <5> DEFINE e == start[k] + sent[k].len + 1
                   l == r.len
        <5>2. e \in Nat /\ e <= w
          BY <4>1, <4>3
        <5>3. w \in Nat /\ l \in Nat
          BY ZenonT(40), <1>2, <1>6
        <5>4. written'[c] = w + l + 1
          BY ZenonT(40), <1>5
        <5>5. start'[k] + sent'[k].len + 1 = e
          BY ZenonT(40), <5>1
        <5> HIDE DEF e, l
        <5> QED BY SMTT(30), <5>2, <5>3, <5>4, <5>5
      <4>5. written'[c] <= start'[k] + ((n + 1) - k + 1) * LineSize
        <5> DEFINE y == (n - k + 1) * LineSize
        <5>1. y \in Nat /\ w <= start[k] + y
          BY ZenonT(40), <4>1, <4>2
        <5>4. ((n + 1) - k + 1) * LineSize = y + LineSize
          BY ZenonT(40), <4>2
        <5> HIDE DEF y
        <5>2. start'[k] = start[k]
          BY ZenonT(40), <1>8, <3>1
        <5>3. \A a, v, l, z, x \in Nat : v <= a + z /\ l + 1 <= x => v + l + 1 <= a + (z + x)
          OBVIOUS
        <5>5. w + r.len + 1 <= start[k] + (y + LineSize)
          BY ZenonT(40), <1>2, <1>6, <4>3, <5>1, <5>3
        <5> QED BY ZenonT(40), <1>5, <5>2, <5>4, <5>5, Zenon
      <4>6. k # 1 => k - 1 \in 1..n
        BY <1>2, <3>1
      <4> QED BY ZenonT(40), <1>8, <3>1, <4>1, <4>4, <4>5, <4>6
    <3>2. CASE k = n + 1
      <4>1. start'[k] = w /\ sent'[k] = r /\ (n + 1) - k + 1 = 1
        BY SMTT(30), <1>2, <1>8, <3>2
      <4>2. w = IF k = 1 THEN 0 ELSE start[k - 1] + sent[k - 1].len + 1
        <5>1. (n = 0 => sent = <<>>) /\ (n # 0 => sent # <<>>)
          BY DEF n, SafeInv, TypeOK
        <5>2. k - 1 = n
          BY <1>2, <3>2
        <5> QED BY SMTT(30), <1>1, <1>2, <3>2, <5>1, <5>2 DEF Layout, End, n, w
      <4>3. k # 1 => k - 1 \in 1..n
        BY <1>2, <3>2
      <4>4. start'[k] = IF k = 1 THEN 0 ELSE start'[k - 1] + sent'[k - 1].len + 1
        BY ZenonT(40), <1>8, <4>1, <4>2, <4>3
      <4>5. ((n + 1) - k + 1) * LineSize = LineSize
        BY <1>6, <4>1
      <4>6. w + r.len + 1 <= w + LineSize
        BY <1>2, <1>6
      <4>7. written'[c] <= start'[k] + ((n + 1) - k + 1) * LineSize
        BY ZenonT(40), <1>5, <4>1, <4>5, <4>6
      <4>8. start'[k] + sent'[k].len + 1 <= written'[c]
        <5> DEFINE e == w + r.len + 1
        <5>1. e \in Nat
          BY <1>2, <1>6
        <5>2. start'[k] + sent'[k].len + 1 = e /\ written'[c] = e
          BY ZenonT(40), <1>5, <4>1
        <5> HIDE DEF e
        <5> QED BY <5>1, <5>2
      <4> QED BY ZenonT(40), <4>4, <4>7, <4>8
    <3> QED BY <1>2, <3>1, <3>2
  <2>2. written'[c] = start'[n + 1] + sent'[n + 1].len + 1
    BY ZenonT(40), <1>5, <1>8
  <2> QED BY ZenonT(40), <1>8, <2>1, <2>2 DEF Layout, End
<1>11. BackFollows(c)'
  BY ZenonT(40), <1>4, <1>7, <1>8 DEF BackFollows, Posting, r, T
<1>12. Counted(c)'
  <2>1. /\ ~ Posting(c) /\ Posting(c)' /\ HoldsSlot(c) /\ HoldsSlot(c)'
        /\ spc' = spc /\ full' = full /\ empty' = empty /\ delivered' = delivered
    BY ZenonT(40), <1>4 DEF Posting, HoldsSlot, serverVars
  <2>2. n - d = full + 0 + (IF spc \in {"wait_mutex", "copy"} THEN 1 ELSE 0)
    BY ZenonT(40), <1>1, <2>1 DEF Counted, n, d
  <2>3. (n + 1) - d = full + 1 + (IF spc \in {"wait_mutex", "copy"} THEN 1 ELSE 0)
    BY <1>2, <2>2
  <2> QED BY ZenonT(40), <1>1, <1>8, <2>1, <2>3 DEF Counted, ServerHoldsSlot, d
<1>13. \A i \in 0..r.len : (back[c] + i) % T = (w + i) % T
  <2> SUFFICES ASSUME NEW i \in 0..r.len PROVE (back[c] + i) % T = (w + i) % T
    BY ZenonT(40)
  <2>1. i \in Nat
    BY <1>6
  <2>2. ((w % T) + i) % T = (w + i) % T
    BY ZenonT(40), <1>2, <1>6, <2>1, ModAdd
  <2> QED BY ZenonT(40), <1>7, <2>2
<1>14. ASSUME NEW k \in (d + 1)..n, NEW i \in 0..sent[k].len
       PROVE  buffer'[(start[k] + i) % T] = buffer[(start[k] + i) % T]
  <2> DEFINE x == start[k] + i
  <2>1. k \in 1..n /\ start[k] \in Nat /\ sent[k].len \in Nat /\ i \in Nat /\ i <= sent[k].len
    <3>1. k \in 1..n
      BY <1>2
    <3>2. start[k] \in Nat /\ sent[k].len \in Nat
      BY ZenonT(40), <1>a, <3>1
    <3> QED BY <3>1, <3>2
  <2>2. x \in Nat /\ x < w /\ start[k] <= x
    <3>1. start[k] + sent[k].len + 1 <= w
      BY ZenonT(40), <1>1, <2>1 DEF Layout, End, n, w
    <3> QED BY SMTT(30), <1>2, <2>1, <3>1
  <2>3. w + r.len + 1 <= start[k] + T
    <3> DEFINE y == n - k + 1
    <3>1. y \in Nat /\ y + 1 <= QueueSize /\ y + 1 \in Nat /\ QueueSize \in Nat
      BY <1>2, <1>9, <2>1, QueueSizeAssumption
    <3>2. w <= start[k] + y * LineSize
      BY ZenonT(40), <1>1, <2>1 DEF Layout, n, w
    <3> HIDE DEF y
    <3>3. (y + 1) * LineSize <= QueueSize * LineSize
      BY ZenonT(40), <3>1, LinesMonotone
    <3>4. (y + 1) * LineSize = y * LineSize + LineSize /\ y * LineSize \in Nat
      BY <1>6, <3>1
    <3>5. y * LineSize + LineSize <= T
      BY ZenonT(40), <3>3, <3>4 DEF T, TotalSize
    <3> DEFINE z == y * LineSize
    <3>6. z \in Nat /\ z + LineSize <= T /\ w <= start[k] + z
      BY ZenonT(40), <3>2, <3>4, <3>5
    <3> HIDE DEF z
    <3> QED BY SMTT(30), <1>2, <1>6, <2>1, <3>6
  <2> HIDE DEF x
  <2>4. ASSUME NEW j \in 0..r.len PROVE x % T # (back[c] + j) % T
    <3>1. w + j \in Nat /\ x < w + j /\ w + j < x + T
      <4>1. \A v, l, a, y \in Nat : \A i1 \in 0..l :
              y < v /\ a <= y /\ v + l + 1 <= a + T
                => v + i1 \in Nat /\ y < v + i1 /\ v + i1 < y + T
        BY <1>6
      <4> QED BY ZenonT(40), <1>2, <1>6, <2>1, <2>2, <2>3, <4>1
    <3>2. x % T # (w + j) % T
      BY ZenonT(40), <1>6, <2>2, <3>1, ModDistinct
    <3> QED BY ZenonT(40), <1>13, <3>2
  <2>5. x % T \in 0..(T - 1)
    BY ZenonT(40), <1>6, <2>2, DivMod
  <2>6. buffer'[x % T] = buffer[x % T]
    BY ZenonT(40), <1>3, <2>4, <2>5
  <2> QED BY ZenonT(40), <2>6 DEF x
<1>15. InFlightIntact'
  <2> SUFFICES ASSUME NEW k \in (d + 1)..(n + 1)
               PROVE  /\ \A i \in 1..sent'[k].len :
                           buffer'[(start'[k] + i - 1) % T] = <<sent'[k], i>>
                      /\ buffer'[(start'[k] + sent'[k].len) % T] = NUL
    BY ZenonT(40), <1>4, <1>8 DEF InFlightIntact, InFlight, Intact, d, T
  <2>1. CASE k \in (d + 1)..n
    <3>1. k \in 1..n /\ sent'[k] = sent[k] /\ start'[k] = start[k]
            /\ start[k] \in Nat /\ sent[k].len \in Nat
      <4>1. k \in 1..n
        BY <1>2, <2>1
      <4> QED BY ZenonT(40), <1>a, <1>8, <4>1
    <3>2. /\ \A i \in 1..sent[k].len : buffer[(start[k] + i - 1) % T] = <<sent[k], i>>
          /\ buffer[(start[k] + sent[k].len) % T] = NUL
      BY ZenonT(40), <1>1, <2>1 DEF InFlightIntact, InFlight, Intact, d, n, T
    <3>3. ASSUME NEW i \in 1..sent[k].len
          PROVE  buffer'[(start[k] + i - 1) % T] = buffer[(start[k] + i - 1) % T]
      <4>1. i - 1 \in 0..sent[k].len /\ start[k] + (i - 1) = start[k] + i - 1
        BY <3>1
      <4>2. buffer'[(start[k] + (i - 1)) % T] = buffer[(start[k] + (i - 1)) % T]
        BY ZenonT(40), <1>14, <2>1, <4>1
      <4> QED BY ZenonT(40), <4>1, <4>2
    <3>4. buffer'[(start[k] + sent[k].len) % T] = buffer[(start[k] + sent[k].len) % T]
      <4>1. sent[k].len \in 0..sent[k].len
        BY <3>1
      <4> QED BY ZenonT(40), <1>14, <2>1, <4>1
    <3> QED BY ZenonT(40), <3>1, <3>2, <3>3, <3>4
  <2>2. CASE k = n + 1
    <3>1. sent'[k] = r /\ start'[k] = w
      BY ZenonT(40), <1>8, <2>2
    <3>2. ASSUME NEW i \in 1..r.len PROVE buffer'[(w + i - 1) % T] = <<r, i>>
      <4>1. i - 1 \in 0..r.len /\ w + (i - 1) = w + i - 1 /\ back[c] + (i - 1) = back[c] + i - 1
        BY <1>2, <1>6, <1>7, DivMod
      <4>2. (back[c] + (i - 1)) % T = (w + (i - 1)) % T
        BY ZenonT(40), <1>13, <4>1
      <4> QED BY ZenonT(40), <1>3, <4>1, <4>2
    <3>3. buffer'[(w + r.len) % T] = NUL
      <4>1. r.len \in 0..r.len
        BY <1>6
      <4> QED BY ZenonT(40), <1>3, <1>13, <4>1
    <3> QED BY ZenonT(40), <3>1, <3>2, <3>3
  <2> QED BY SMTT(30), <1>2, <2>1, <2>2
<1>b. \A k \in 1..d : k \in 1..n
  BY <1>2
<1>16. \A k \in 1..d : /\ Split(k)' <=> Split(k)
                       /\ sent'[k] = sent[k] /\ start'[k] = start[k] /\ End(k)' = End(k)
  BY ZenonT(40), <1>8, <1>b DEF Split, End
<1>17. DeliveredUntilSplit'
  <2> SUFFICES ASSUME NEW j \in 1..d, \A k \in 1..j : ~ Split(k)' PROVE delivered[j] = Text(sent'[j])
    BY ZenonT(40), <1>4 DEF DeliveredUntilSplit, d
  <2>1. \A k \in 1..j : k \in 1..d
    BY <1>2
  <2>2. \A k \in 1..j : ~ Split(k)
    BY ZenonT(40), <1>16, <2>1
  <2> QED BY ZenonT(40), <1>1, <1>16, <2>2 DEF DeliveredUntilSplit, d
<1>18. FrontFollows'
  <2>1. d = 0 <=> delivered = <<>>
    BY DEF d, SafeInv, TypeOK
  <2>2. d # 0 => d \in 1..d
    BY <1>2
  <2> QED BY ZenonT(40), <1>1, <1>4, <1>16, <2>1, <2>2 DEF FrontFollows, Copied, serverVars, d
<1> QED BY ZenonT(40), <1>10, <1>11, <1>12, <1>15, <1>17, <1>18 DEF OrderInv

\* The last step of enqueue() brings back behind the request.
LEMMA PostFullOrder ==
  ASSUME SafeInv, NEW c \in Clients, OrderInv(c), EnqueuePostFull(c)
  PROVE  OrderInv(c)'
<1>1. Layout(c) /\ BackFollows(c) /\ Counted(c) /\ InFlightIntact /\ FrontFollows
        /\ DeliveredUntilSplit
  BY ZenonT(40) DEF OrderInv
<1>2. /\ Len(sent) \in Nat /\ Len(delivered) \in Nat /\ full \in Nat /\ empty \in Nat
      /\ \A k \in 1..Len(sent) : sent[k].len \in Nat /\ start[k] \in Nat
  BY SMTT(30), OrderTypes, TotalSizeType
<1>3. /\ cpc[c] = "post_full" /\ cpc'[c] = "read" /\ full' = full + 1
      /\ back'[c] = (back[c] + request[c].len + 1) % TotalSize
      /\ UNCHANGED <<shared, empty, mutex, request, nread, serverVars, history>>
  BY ZenonT(40) DEF EnqueuePostFull, ClientGoes, sem_post, SafeInv, TypeOK
<1>4. Layout(c)' /\ InFlightIntact' /\ DeliveredUntilSplit'
  BY ZenonT(40), <1>1, <1>3, HistoryKept DEF shared
<1>5. Posting(c) /\ ~ Posting(c)' /\ HoldsSlot(c) /\ ~ HoldsSlot(c)'
  BY ZenonT(40), <1>3 DEF Posting, HoldsSlot
<1>6. BackFollows(c)'
  <2> DEFINE n == Len(sent)
             a == start[n]
             b == sent[n].len + 1
  <2>1. sent # <<>> /\ request[c] = sent[n] /\ back[c] = a % TotalSize
    BY ZenonT(40), <1>1, <1>5 DEF BackFollows
  <2>2. n \in 1..n
    BY <1>2, <2>1 DEF SafeInv, TypeOK
  <2>3. a \in Nat /\ b \in Nat /\ sent[n].len \in Nat
    BY SMTT(30), <1>2, <2>2
  <2>4. written[c] = a + b
    BY SMTT(30), <1>1, <2>1, <2>3 DEF Layout, End
  <2>5. ((a % TotalSize) + b) % TotalSize = (a + b) % TotalSize
    <3>1. TotalSize \in Nat /\ TotalSize > 0 /\ a \in Nat /\ b \in Nat
      BY SMTT(30), <2>3, TotalSizeType
    <3> HIDE DEF a, b
    <3> QED BY ZenonT(40), <3>1, ModAdd
  <2>6. back[c] + request[c].len + 1 = (a % TotalSize) + b
    <3>1. a % TotalSize \in Nat
      <4>1. a \in Nat
        BY ZenonT(40), <2>3
      <4> HIDE DEF a
      <4>2. a % TotalSize \in 0..(TotalSize - 1)
        BY ZenonT(40), <4>1, ModInRing
      <4> QED BY <4>2, TotalSizeType
    <3> QED BY <2>1, <2>3, <3>1
  <2>7. back'[c] = written[c] % TotalSize
    BY ZenonT(40), <1>3, <2>4, <2>5, <2>6
  <2> QED BY ZenonT(40), <1>3, <1>5, <2>7 DEF BackFollows, history
<1>7. Counted(c)'
  <2>1. /\ Len(sent) - Len(delivered) = full + 1 + (IF spc \in {"wait_mutex", "copy"} THEN 1 ELSE 0)
        /\ empty + full + 1 + (IF ServerHoldsSlot THEN 1 ELSE 0) = QueueSize
    BY ZenonT(40), <1>1, <1>5 DEF Counted
  <2>2. /\ Len(sent) - Len(delivered) = (full + 1) + 0 + (IF spc \in {"wait_mutex", "copy"} THEN 1 ELSE 0)
        /\ empty + (full + 1) + 0 + (IF ServerHoldsSlot THEN 1 ELSE 0) = QueueSize
    BY SMTT(30), <1>2, <2>1, QueueSizeAssumption
  <2> QED BY ZenonT(40), <1>3, <1>5, <2>2 DEF Counted, ServerHoldsSlot, serverVars, history
<1>8. FrontFollows'
  BY ZenonT(40), <1>1, <1>3 DEF FrontFollows, Copied, Split, End, serverVars, history
<1> QED BY ZenonT(40), <1>4, <1>6, <1>7, <1>8 DEF OrderInv

\* Every step of the client keeps OrderInv.
LEMMA ClientOrder ==
  ASSUME SafeInv, NEW c \in Clients, OrderInv(c), Client(c)
  PROVE  OrderInv(c)'
<1>1. CASE EnqueueWrite(c)
  BY ZenonT(40), <1>1, WriteOrder
<1>2. CASE EnqueuePostFull(c)
  BY ZenonT(40), <1>2, PostFullOrder
<1>3. CASE \/ ReadLine(c) \/ ReadBlankLine(c) \/ EndOfFile(c)
           \/ EnqueueWaitEmpty(c) \/ EnqueueWaitMutex(c) \/ EnqueuePostMutex(c)
  <2>1. Layout(c) /\ BackFollows(c) /\ Counted(c) /\ InFlightIntact /\ FrontFollows
          /\ DeliveredUntilSplit
    BY ZenonT(40) DEF OrderInv
  <2>2. UNCHANGED <<shared, full, back, serverVars, history>>
    BY ZenonT(40), <1>3 DEF ReadLine, ReadBlankLine, EndOfFile, EnqueueWaitEmpty, EnqueueWaitMutex,
                EnqueuePostMutex
  <2>3. Layout(c)' /\ InFlightIntact' /\ DeliveredUntilSplit'
    BY ZenonT(40), <2>1, <2>2, HistoryKept DEF shared
  <2>4. FrontFollows'
    BY ZenonT(40), <2>1, <2>2 DEF FrontFollows, Copied, Split, End, serverVars, history
  <2>5. /\ Posting(c)' <=> Posting(c)
        /\ Posting(c) => request' = request
        /\ \/ HoldsSlot(c)' = HoldsSlot(c) /\ empty' = empty
           \/ ~ HoldsSlot(c) /\ HoldsSlot(c)' /\ empty' = empty - 1
    <3>1. /\ \/ cpc[c] = "read" /\ cpc'[c] \in {"wait_empty", "crashed", "done"} /\ empty' = empty
             \/ cpc[c] = "wait_empty" /\ cpc'[c] = "wait_mutex" /\ empty' = empty - 1
             \/ cpc[c] = "wait_mutex" /\ cpc'[c] = "write" /\ empty' = empty
             \/ cpc[c] = "post_mutex" /\ cpc'[c] = "post_full" /\ empty' = empty
          /\ cpc[c] # "read" => request' = request
      <4>1. cpc \in [Clients -> ClientPCs]
        BY ZenonT(40) DEF SafeInv, TypeOK
      <4>2. CASE ReadLine(c) \/ ReadBlankLine(c) \/ EndOfFile(c)
        BY ZenonT(40), <4>1, <4>2 DEF ReadLine, ReadBlankLine, EndOfFile, ClientGoes
      <4>3. CASE EnqueueWaitEmpty(c)
        BY ZenonT(40), <4>1, <4>3 DEF EnqueueWaitEmpty, ClientGoes, sem_wait
      <4>4. CASE EnqueueWaitMutex(c)
        BY ZenonT(40), <4>1, <4>4 DEF EnqueueWaitMutex, ClientGoes
      <4>5. CASE EnqueuePostMutex(c)
        BY ZenonT(40), <4>1, <4>5 DEF EnqueuePostMutex, ClientGoes
      <4> QED BY ZenonT(40), <1>3, <4>2, <4>3, <4>4, <4>5
    <3> QED BY <3>1 DEF Posting, HoldsSlot
  <2>6. BackFollows(c)'
    BY ZenonT(40), <2>1, <2>2, <2>5 DEF BackFollows, history
  <2>7. Counted(c)'
    <3>1. empty \in Nat /\ full \in Nat
      BY ZenonT(40) DEF SafeInv, TypeOK
    <3>2. /\ Len(sent)' = Len(sent) /\ Len(delivered)' = Len(delivered) /\ full' = full /\ spc' = spc
          /\ ServerHoldsSlot' = ServerHoldsSlot
      BY ZenonT(40), <2>2 DEF history, serverVars, ServerHoldsSlot
    <3>3. empty' + full + (IF HoldsSlot(c)' THEN 1 ELSE 0) + (IF ServerHoldsSlot THEN 1 ELSE 0)
            = empty + full + (IF HoldsSlot(c) THEN 1 ELSE 0) + (IF ServerHoldsSlot THEN 1 ELSE 0)
      <4>1. CASE HoldsSlot(c)' = HoldsSlot(c) /\ empty' = empty
        BY ZenonT(40), <4>1
      <4>2. CASE ~ HoldsSlot(c) /\ HoldsSlot(c)' /\ empty' = empty - 1
        BY <3>1, <4>2
      <4> QED BY ZenonT(40), <2>5, <4>1, <4>2
    <3> QED BY ZenonT(40), <2>1, <2>5, <3>2, <3>3 DEF Counted
  <2> QED BY ZenonT(40), <2>3, <2>4, <2>6, <2>7 DEF OrderInv
<1> QED BY ZenonT(40), <1>1, <1>2, <1>3 DEF Client

\* dequeue() copies the oldest request in flight, as long as nothing was split.
LEMMA CopyOrder ==
  ASSUME SafeInv, NEW c \in Clients, OrderInv(c), DequeueCopy
  PROVE  OrderInv(c)'
<1> DEFINE n == Len(sent)
           d == Len(delivered)
           T == TotalSize
<1>1. Layout(c) /\ BackFollows(c) /\ Counted(c) /\ InFlightIntact /\ FrontFollows
        /\ DeliveredUntilSplit
  BY ZenonT(40) DEF OrderInv
<1>2. n \in Nat /\ d \in Nat /\ full \in Nat /\ empty \in Nat
  BY ZenonT(40), OrderTypes
<1>3. request_buffer' = StringAt(buffer, front) /\ request_buffer' \in Seq(Cells)
  BY ZenonT(40), CopyIsWhole
<1>4. /\ spc = "copy" /\ spc' \in {"post_mutex", "overrun"}
      /\ delivered' = Append(delivered, request_buffer')
      /\ UNCHANGED <<buffer, empty, full, mutex, clientVars, front, sent, start, written>>
  BY ZenonT(40) DEF DequeueCopy
<1>5. /\ Len(delivered') = d + 1 /\ delivered' # <<>> /\ delivered'[d + 1] = request_buffer'
      /\ \A j \in 1..d : delivered'[j] = delivered[j]
  <2>1. delivered \in Seq(Seq(Cells))
    BY ZenonT(40) DEF SafeInv, TypeOK
  <2> DEFINE x == request_buffer'
             q == delivered'
  <2>2. x \in Seq(Cells) /\ q = Append(delivered, x)
    BY ZenonT(40), <1>3, <1>4
  <2> HIDE DEF x, q
  <2>3. /\ Len(q) = d + 1 /\ q # <<>> /\ q[d + 1] = x
        /\ \A j \in 1..d : q[j] = delivered[j]
    BY <2>1, <2>2
  <2> QED BY ZenonT(40), <2>3 DEF x, q
<1>6. d + 1 <= n
  BY <1>1, <1>2, <1>4 DEF Counted
<1>7. d + 1 \in 1..n /\ d + 1 \in (d + 1)..n
  BY SMTT(30), <1>2, <1>6
<1>8. sent[d + 1] \in Requests /\ sent[d + 1].len \in Nat /\ start[d + 1] \in Nat
  BY SMTT(30), <1>7, OrderTypes, TotalSizeType
<1>9. Layout(c)' /\ BackFollows(c)'
  BY ZenonT(40), <1>1, <1>4 DEF Layout, End, BackFollows, Posting, clientVars
<1>10. InFlightIntact'
  <2>1. \A k \in (d + 2)..n : k \in (d + 1)..n
    BY <1>2
  <2>2. Len(delivered') + 1 = d + 2
    BY <1>2, <1>5
  <2> QED BY ZenonT(40), <1>1, <1>4, <2>1, <2>2 DEF InFlightIntact, InFlight, Intact
<1>11. Counted(c)'
  <2>1. /\ Posting(c)' = Posting(c) /\ HoldsSlot(c)' = HoldsSlot(c)
        /\ ServerHoldsSlot /\ ServerHoldsSlot' /\ Len(sent') = n /\ full' = full /\ empty' = empty
        /\ spc \in {"wait_mutex", "copy"} /\ spc' \notin {"wait_mutex", "copy"}
    BY ZenonT(40), <1>4 DEF Posting, HoldsSlot, ServerHoldsSlot, clientVars
  <2>2. n - d = full + (IF Posting(c) THEN 1 ELSE 0) + 1
    BY ZenonT(40), <1>1, <2>1 DEF Counted
  <2>3. n - (d + 1) = full + (IF Posting(c) THEN 1 ELSE 0) + 0
    BY <1>2, <2>2
  <2> QED BY ZenonT(40), <1>1, <1>5, <2>1, <2>3 DEF Counted
<1>12. front = (IF d = 0 THEN 0 ELSE End(d)) % T \/ \E k \in 1..d : Split(k)
  <2>1. d = 0 <=> delivered = <<>>
    BY DEF SafeInv, TypeOK
  <2> QED BY ZenonT(40), <1>1, <1>4, <2>1 DEF FrontFollows, Copied
<1>13. start[d + 1] = IF d = 0 THEN 0 ELSE End(d)
  <2>1. (d + 1 = 1 <=> d = 0) /\ (d + 1) - 1 = d
    BY <1>2
  <2> QED BY ZenonT(40), <1>1, <1>7, <2>1 DEF Layout
<1>14. front = start[d + 1] % T \/ \E k \in 1..d : Split(k)
  BY ZenonT(40), <1>12, <1>13
<1>15. ASSUME \A k \in 1..(d + 1) : ~ Split(k) PROVE request_buffer' = Text(sent[d + 1])
  <2> DEFINE a == start[d + 1]
             r == sent[d + 1]
  <2>1. front = a % T /\ ~ Split(d + 1)
    <3>1. d + 1 \in 1..(d + 1) /\ \A k \in 1..d : k \in 1..(d + 1)
      BY <1>2
    <3> QED BY ZenonT(40), <1>14, <1>15, <3>1
  <2>2. Intact(d + 1)
    BY ZenonT(40), <1>1, <1>7 DEF InFlightIntact, InFlight
  <2>3. front \in 0..(T - 1) /\ buffer \in [0..T -> Cells] /\ buffer[T] = NUL
    BY ZenonT(40) DEF SafeInv, TypeOK
  <2>4. front + r.len <= T
    <3>1. ~ (front + r.len > T)
      BY ZenonT(40), <2>1 DEF Split
    <3> QED BY <1>8, <2>3, <3>1, TotalSizeType
  <2>5. a \in Nat /\ r \in Requests /\ r.len \in Nat /\ T \in Nat /\ T > 0
    BY <1>8, TotalSizeType
  <2>6. /\ \A i \in 1..r.len : buffer[(a + i - 1) % T] = <<r, i>>
        /\ buffer[(a + r.len) % T] = NUL
    BY ZenonT(40), <2>2 DEF Intact
  <2> HIDE DEF a, r, T
  <2>7. \A i \in Nat : front + i < T => (a + i) % T = front + i
    BY ZenonT(40), <2>1, <2>5, ModStep
  <2>8. ASSUME NEW i \in 1..r.len PROVE buffer[front + i - 1] = <<r, i>>
    <3>1. i - 1 \in Nat /\ front + (i - 1) < T /\ front + (i - 1) = front + i - 1
            /\ a + (i - 1) = a + i - 1
      BY <2>3, <2>4, <2>5
    <3>2. (a + (i - 1)) % T = front + (i - 1)
      BY ZenonT(40), <2>7, <3>1
    <3> QED BY ZenonT(40), <2>6, <3>1, <3>2
  <2>9. buffer[front + r.len] = NUL
    <3>1. CASE front + r.len = T
      BY ZenonT(40), <2>3, <3>1
    <3>2. CASE front + r.len < T
      BY ZenonT(40), <2>5, <2>6, <2>7, <3>2
    <3> QED BY SMTT(30), <2>3, <2>4, <2>5, <3>1, <3>2
  <2>10. StringAt(buffer, front) = Text(r)
    BY ZenonT(40), <2>3, <2>4, <2>5, <2>8, <2>9, ReadCells DEF T
  <2> QED BY ZenonT(40), <1>3, <2>10 DEF r
<1>16. \A k \in 1..(d + 1) : Split(k)' <=> Split(k)
  BY ZenonT(40), <1>4 DEF Split
<1>17. DeliveredUntilSplit'
  <2> SUFFICES ASSUME NEW j \in 1..(d + 1), \A k \in 1..j : ~ Split(k)'
               PROVE  delivered'[j] = Text(sent[j])
    BY ZenonT(40), <1>4, <1>5 DEF DeliveredUntilSplit
  <2>1. \A k \in 1..j : k \in 1..(d + 1)
    BY <1>2
  <2>2. \A k \in 1..j : ~ Split(k)
    BY ZenonT(40), <1>16, <2>1
  <2>3. CASE j \in 1..d
    BY ZenonT(40), <1>1, <1>5, <2>2, <2>3 DEF DeliveredUntilSplit
  <2>4. CASE j = d + 1
    BY ZenonT(40), <1>5, <1>15, <2>2, <2>4
  <2> QED BY <1>2, <2>3, <2>4
<1>18. FrontFollows'
  <2>1. Copied'
    BY ZenonT(40), <1>4 DEF Copied
  <2>2. ASSUME \A k \in 1..(d + 1) : ~ Split(k)' PROVE front = start[d + 1] % T
    <3>1. \A k \in 1..d : k \in 1..(d + 1)
      BY <1>2
    <3> QED BY ZenonT(40), <1>14, <1>16, <2>2, <3>1
  <2> QED BY ZenonT(40), <1>4, <1>5, <2>1, <2>2 DEF FrontFollows
<1> QED BY ZenonT(40), <1>9, <1>10, <1>11, <1>17, <1>18 DEF OrderInv

\* The last step of dequeue() brings front behind the request, as long as nothing
\* was split.
LEMMA PostEmptyOrder ==
  ASSUME SafeInv, NEW c \in Clients, OrderInv(c), DequeuePostEmpty
  PROVE  OrderInv(c)'
<1> DEFINE d == Len(delivered)
<1>1. Layout(c) /\ BackFollows(c) /\ Counted(c) /\ InFlightIntact /\ FrontFollows
        /\ DeliveredUntilSplit
  BY ZenonT(40) DEF OrderInv
<1>2. /\ Len(sent) \in Nat /\ d \in Nat /\ d <= Len(sent) /\ full \in Nat /\ empty \in Nat
  BY ZenonT(40), OrderTypes
<1>3. /\ spc = "post_empty" /\ spc' = "got" /\ empty' = empty + 1
      /\ front' = (front + Len(request_buffer) + 1) % TotalSize
      /\ UNCHANGED <<shared, full, mutex, clientVars, request_buffer, history>>
  BY ZenonT(40) DEF DequeuePostEmpty, ServerGoes, sem_post
<1>4. Layout(c)' /\ InFlightIntact' /\ DeliveredUntilSplit'
  BY ZenonT(40), <1>1, <1>3, HistoryKept DEF shared
<1>5. BackFollows(c)'
  BY ZenonT(40), <1>1, <1>3 DEF BackFollows, Posting, clientVars, history
<1>6. Counted(c)'
  <2>1. /\ Posting(c)' = Posting(c) /\ HoldsSlot(c)' = HoldsSlot(c)
        /\ ServerHoldsSlot /\ ~ ServerHoldsSlot' /\ full' = full
        /\ spc \notin {"wait_mutex", "copy"} /\ spc' \notin {"wait_mutex", "copy"}
        /\ Len(sent') = Len(sent) /\ Len(delivered') = d
    BY ZenonT(40), <1>3 DEF Posting, HoldsSlot, ServerHoldsSlot, clientVars, history
  <2>2. empty + full + (IF HoldsSlot(c) THEN 1 ELSE 0) + 1 = QueueSize
    BY ZenonT(40), <1>1, <2>1 DEF Counted
  <2>3. (empty + 1) + full + (IF HoldsSlot(c) THEN 1 ELSE 0) + 0 = QueueSize
    BY SMTT(30), <1>2, <2>2, QueueSizeAssumption
  <2> QED BY ZenonT(40), <1>1, <1>3, <2>1, <2>3 DEF Counted
<1>7. FrontFollows'
  <2>1. Copied /\ ~ Copied'
    BY ZenonT(40), <1>3 DEF Copied
  <2>2. delivered # <<>> /\ request_buffer = delivered[d]
    BY ZenonT(40), <1>1, <2>1 DEF FrontFollows
  <2>3. d \in 1..d /\ d \in 1..Len(sent)
    BY SMTT(30), <1>2, <2>2 DEF SafeInv, TypeOK
  <2>4. sent[d] \in Requests /\ sent[d].len \in Nat /\ start[d] \in Nat
    BY <2>3, OrderTypes, TotalSizeType
  <2>5. ASSUME \A k \in 1..d : ~ Split(k) PROVE front' = End(d) % TotalSize
    <3> DEFINE a == start[d]
               b == sent[d].len + 1
    <3>1. front = a % TotalSize /\ request_buffer = Text(sent[d])
      BY ZenonT(40), <1>1, <2>1, <2>2, <2>3, <2>5 DEF FrontFollows, DeliveredUntilSplit
    <3>2. Len(request_buffer) = sent[d].len
      BY ZenonT(40), <2>4, <3>1, TextType
    <3>3. front \in Nat
      BY TotalSizeType DEF SafeInv, TypeOK
    <3>4. front + Len(request_buffer) + 1 = (a % TotalSize) + b /\ End(d) = a + b
      BY SMTT(30), <2>4, <3>1, <3>2, <3>3 DEF End
    <3>5. a \in Nat /\ b \in Nat /\ TotalSize \in Nat /\ TotalSize > 0
      BY <2>4, TotalSizeType
    <3>6. ((a % TotalSize) + b) % TotalSize = (a + b) % TotalSize
      <4> HIDE DEF a, b
      <4> QED BY ZenonT(40), <3>5, ModAdd
    <3> QED BY ZenonT(40), <1>3, <3>4, <3>6
  <2>6. /\ delivered' = delivered /\ request_buffer' = request_buffer /\ End(d)' = End(d)
        /\ \A k \in 1..d : Split(k)' <=> Split(k)
    BY ZenonT(40), <1>3 DEF history, End, Split
  <2> QED BY ZenonT(40), <2>1, <2>2, <2>5, <2>6 DEF FrontFollows
<1> QED BY ZenonT(40), <1>4, <1>5, <1>6, <1>7 DEF OrderInv

\* Every step of the server keeps OrderInv.
LEMMA ServerOrder ==
  ASSUME SafeInv, NEW c \in Clients, OrderInv(c), Dequeue \/ NextRequest
  PROVE  OrderInv(c)'
<1>1. CASE DequeueCopy
  BY ZenonT(40), <1>1, CopyOrder
<1>2. CASE DequeuePostEmpty
  BY ZenonT(40), <1>2, PostEmptyOrder
<1>3. CASE DequeueWaitFull \/ DequeueWaitMutex \/ DequeuePostMutex \/ NextRequest
  <2>1. Layout(c) /\ BackFollows(c) /\ Counted(c) /\ InFlightIntact /\ FrontFollows
          /\ DeliveredUntilSplit
    BY ZenonT(40) DEF OrderInv
  <2>2. UNCHANGED <<shared, empty, clientVars, front, request_buffer, history>>
    BY ZenonT(40), <1>3 DEF DequeueWaitFull, DequeueWaitMutex, DequeuePostMutex, NextRequest
  <2>3. Layout(c)' /\ InFlightIntact' /\ DeliveredUntilSplit'
    BY ZenonT(40), <2>1, <2>2, HistoryKept DEF shared
  <2>4. BackFollows(c)'
    BY ZenonT(40), <2>1, <2>2 DEF BackFollows, Posting, clientVars, history
  <2>5. Copied' <=> Copied
    BY ZenonT(40), <1>3 DEF DequeueWaitFull, DequeueWaitMutex, DequeuePostMutex, NextRequest, ServerGoes,
                Copied
  <2>6. FrontFollows'
    BY ZenonT(40), <2>1, <2>2, <2>5 DEF FrontFollows, Split, End, history
  <2>7. Counted(c)'
    <3>1. empty \in Nat /\ full \in Nat /\ Len(sent) \in Nat /\ Len(delivered) \in Nat
      BY DEF SafeInv, TypeOK
    <3>2. /\ Posting(c)' = Posting(c) /\ HoldsSlot(c)' = HoldsSlot(c)
          /\ empty' = empty /\ Len(sent') = Len(sent) /\ Len(delivered') = Len(delivered)
      BY ZenonT(40), <2>2 DEF Posting, HoldsSlot, clientVars, history
    <3>3. CASE DequeueWaitFull
      <4>1. /\ full' = full - 1 /\ spc \notin {"wait_mutex", "copy"} /\ spc' \in {"wait_mutex", "copy"}
            /\ ~ ServerHoldsSlot /\ ServerHoldsSlot'
        BY ZenonT(40), <3>3 DEF DequeueWaitFull, ServerGoes, sem_wait, ServerHoldsSlot
      <4>2. /\ Len(sent) - Len(delivered) = full + (IF Posting(c) THEN 1 ELSE 0) + 0
            /\ empty + full + (IF HoldsSlot(c) THEN 1 ELSE 0) + 0 = QueueSize
        BY ZenonT(40), <2>1, <4>1 DEF Counted
      <4>3. /\ Len(sent) - Len(delivered) = (full - 1) + (IF Posting(c) THEN 1 ELSE 0) + 1
            /\ empty + (full - 1) + (IF HoldsSlot(c) THEN 1 ELSE 0) + 1 = QueueSize
        BY <3>1, <4>2, QueueSizeAssumption
      <4> QED BY ZenonT(40), <3>2, <4>1, <4>3 DEF Counted
    <3>4. CASE DequeueWaitMutex \/ DequeuePostMutex \/ NextRequest
      <4>1. /\ full' = full /\ ServerHoldsSlot' = ServerHoldsSlot
            /\ spc' \in {"wait_mutex", "copy"} <=> spc \in {"wait_mutex", "copy"}
        BY <3>4 DEF DequeueWaitMutex, DequeuePostMutex, NextRequest, ServerGoes, ServerHoldsSlot
      <4> QED BY ZenonT(40), <2>1, <3>2, <4>1 DEF Counted
    <3> QED BY ZenonT(40), <1>3, <3>3, <3>4
  <2> QED BY ZenonT(40), <2>3, <2>4, <2>6, <2>7 DEF OrderInv
<1> QED BY ZenonT(40), <1>1, <1>2, <1>3 DEF Dequeue

\* A step that changes nothing keeps OrderInv.
LEMMA StutterOrder ==
  ASSUME NEW c \in Clients, OrderInv(c), UNCHANGED vars
  PROVE  OrderInv(c)'
<1>1. UNCHANGED <<buffer, history>>
  BY ZenonT(40) DEF vars, shared
<1>2. Layout(c)' /\ InFlightIntact' /\ DeliveredUntilSplit'
  BY ZenonT(40), <1>1, HistoryKept DEF OrderInv
<1>3. BackFollows(c)' /\ FrontFollows'
  BY ZenonT(40) DEF OrderInv, vars, clientVars, serverVars, history, BackFollows, Posting, FrontFollows, Copied,
         Split, End
<1>4. Counted(c)'
  BY ZenonT(40) DEF OrderInv, vars, clientVars, serverVars, history, Counted, Posting, HoldsSlot, ServerHoldsSlot
<1> QED BY ZenonT(40), <1>2, <1>3, <1>4 DEF OrderInv

\* OrderInv holds always, when there is only one client.
THEOREM OrderAlways ==
  ASSUME NEW c, Clients = {c}
  PROVE  Spec => []OrderInv(c)
<1>1. Init => OrderInv(c)
  BY ZenonT(40), InitOrder
<1>2. SafeInv /\ OrderInv(c) /\ [Next]_vars => OrderInv(c)'
  BY ZenonT(40), ClientOrder, ServerOrder, StutterOrder DEF Next
<1> QED BY <1>1, <1>2, SafeAlways, PTL DEF Spec

\* With one client, and for every queue size, line size and number of lines, no
\* request in the ring is overwritten before dequeue() has copied it.
THEOREM NothingOverwritten ==
  ASSUME NEW c, Clients = {c}
  PROVE  Spec => []InFlightIntact
<1>1. OrderInv(c) => InFlightIntact
  BY ZenonT(40) DEF OrderInv
<1> QED BY <1>1, OrderAlways, PTL

\* With one client, dequeue() returns what enqueue() was given, in the same
\* order, up to the first request that runs past the end of the ring.
THEOREM InOrderUntilSplit ==
  ASSUME NEW c, Clients = {c}
  PROVE  Spec => []DeliveredUntilSplit
<1>1. OrderInv(c) => DeliveredUntilSplit
  BY ZenonT(40) DEF OrderInv
<1> QED BY <1>1, OrderAlways, PTL

-----------------------------------------------------------------------------
(* Whatever dequeue() copies fits its request_buffer.                      *)

\* From every byte of the ring a NUL is less than LineSize bytes away.
NulNear(buf) ==
  \A i \in 0..TotalSize : \E j \in i..(i + LineSize - 1) : j <= TotalSize /\ buf[j] = NUL

\* The byte before the one to be written next is NUL, unless that is the first of the ring.
Terminated(c) == written[c] % TotalSize > 0 => buffer[(written[c] % TotalSize) - 1] = NUL

FitsInv(c) == NulNear(buffer) /\ Terminated(c) /\ RequestFits

\* enqueue() keeps the NULs near: the request brings its own, and what it overwrites lies
\* behind the NUL of the request before it.
LEMMA WriteFits ==
  ASSUME SafeInv, NEW c \in Clients, OrderInv(c), FitsInv(c), EnqueueWrite(c), SafeInv'
  PROVE  FitsInv(c)'
<1> DEFINE r == request[c]
           n == r.len
           p == back[c]
           T == TotalSize
<1>1. /\ n \in 1..(LineSize - 1)
      /\ buffer'[(p + n) % T] = NUL
      /\ \A j \in 0..(T - 1) : (\A i \in 0..n : j # (p + i) % T) => buffer'[j] = buffer[j]
  BY ZenonT(40), WriteCells
<1>2. p \in 0..(T - 1) /\ buffer'[T] = NUL /\ written[c] \in Nat /\ written \in [Clients -> Nat]
  BY ZenonT(40) DEF SafeInv, TypeOK
<1>3. T \in Nat /\ T > 0 /\ LineSize \in Nat /\ T >= LineSize
  BY TotalSizeType
<1>4. p = written[c] % T /\ written'[c] = written[c] + n + 1 /\ delivered' = delivered
  <2>1. ~ Posting(c) /\ p = (IF Posting(c) THEN start[Len(sent)] ELSE written[c]) % T
    BY ZenonT(40) DEF OrderInv, BackFollows, EnqueueWrite, ClientGoes, Posting
  <2>2. r \in Requests
    BY ZenonT(40) DEF SafeInv, EnqueueWrite, ClientGoes, Enqueueing
  <2>3. Len(Text(r)) = n
    BY ZenonT(40), <2>2, TextType
  <2>4. written' = [written EXCEPT ![c] = @ + Len(Text(r)) + 1] /\ delivered' = delivered
    BY ZenonT(40) DEF EnqueueWrite
  <2> QED BY ZenonT(40), <1>2, <2>1, <2>3, <2>4
<1>5. NulNear(buffer) /\ (p > 0 => buffer[p - 1] = NUL) /\ RequestFits
  BY ZenonT(40), <1>4 DEF FitsInv, Terminated
<1> HIDE DEF r, n, p, T
<1>6. n \in Nat /\ n >= 1 /\ n < LineSize /\ n < T /\ p \in Nat /\ p < T
  BY SMTT(30), <1>1, <1>2, <1>3
<1>7. \A i \in 0..n : (p + i) % T = IF p + i < T THEN p + i ELSE p + i - T
  <2> SUFFICES ASSUME NEW i \in 0..n PROVE (p + i) % T = IF p + i < T THEN p + i ELSE p + i - T
    BY ZenonT(40)
  <2>1. p % T = p
    BY <1>3, <1>6, ModSmall
  <2>2. i \in Nat
    OBVIOUS
  <2>3. /\ (p % T) + i < T => (p + i) % T = (p % T) + i
        /\ T <= (p % T) + i /\ (p % T) + i < 2 * T => (p + i) % T = (p % T) + i - T
    BY ZenonT(40), <1>3, <1>6, <2>2, ModStep
  <2> QED BY SMTT(30), <1>3, <1>6, <2>1, <2>2, <2>3
<1>8. Terminated(c)'
  <2> DEFINE w == written[c]
  <2>1. w \in Nat /\ (w + n) % T = (p + n) % T /\ written'[c] = (w + n) + 1
    <3>1. (p + n) % T = (w + n) % T
      BY ZenonT(40), <1>2, <1>3, <1>4, <1>6, ModAdd
    <3> QED BY ZenonT(40), <1>2, <1>4, <1>6, <3>1
  <2> HIDE DEF w
  <2>2. (w + n) % T \in 0..(T - 1) /\ w + n \in Nat
    BY SMTT(30), <1>3, <1>6, <2>1, DivMod
  <2>3. /\ ((w + n) % T) + 1 < T => ((w + n) + 1) % T = ((w + n) % T) + 1
        /\ T <= ((w + n) % T) + 1 /\ ((w + n) % T) + 1 < 2 * T
             => ((w + n) + 1) % T = ((w + n) % T) + 1 - T
    BY SMTT(30), <1>3, <2>2, ModStep
  <2>4. ((w + n) + 1) % T > 0 => (((w + n) + 1) % T) - 1 = (w + n) % T
    <3> DEFINE a == (w + n) % T
               b == ((w + n) + 1) % T
    <3>1. a \in 0..(T - 1) /\ (a + 1 < T => b = a + 1) /\ (T <= a + 1 /\ a + 1 < 2 * T => b = a + 1 - T)
      BY ZenonT(40), <2>2, <2>3
    <3> HIDE DEF a, b
    <3>2. b > 0 => b - 1 = a
      BY <1>3, <3>1
    <3> QED BY ZenonT(40), <3>2 DEF a, b
  <2> QED BY ZenonT(40), <1>1, <2>1, <2>4 DEF Terminated, T
<1>9. NulNear(buffer')
  <2> SUFFICES ASSUME NEW i \in 0..T
               PROVE  \E j \in i..(i + LineSize - 1) : j <= T /\ buffer'[j] = NUL
    BY ZenonT(40) DEF NulNear, T
  <2>1. PICK k \in i..(i + LineSize - 1) : k <= T /\ buffer[k] = NUL
    BY ZenonT(40), <1>5 DEF NulNear, T
  <2>2. n \in 0..n
    BY <1>6
  <2>3. CASE p + n < T
    <3>1. buffer'[p + n] = NUL
      BY ZenonT(40), <1>1, <1>7, <2>2, <2>3
    <3>2. ASSUME NEW j \in 0..(T - 1), j < p \/ j > p + n PROVE buffer'[j] = buffer[j]
      <4>1. \A m \in 0..n : j # (p + m) % T
        BY SMTT(30), <1>3, <1>6, <1>7, <2>3, <3>2
      <4> QED BY ZenonT(40), <1>1, <4>1
    <3>3. CASE i \in p..(p + n)
      <4>1. p + n \in i..(i + LineSize - 1) /\ p + n <= T
        BY SMTT(30), <1>3, <1>6, <2>3, <3>3
      <4> QED BY ZenonT(40), <3>1, <4>1
    <3>4. CASE i > p + n
      <4>1. k = T \/ (k \in 0..(T - 1) /\ k > p + n)
        BY SMTT(30), <1>3, <1>6, <2>1, <3>4
      <4> QED BY ZenonT(40), <1>2, <2>1, <3>2, <4>1
    <3>5. CASE i < p /\ k < p
      <4>1. k \in 0..(T - 1)
        BY SMTT(30), <1>3, <1>6, <2>1, <3>5
      <4> QED BY ZenonT(40), <2>1, <3>2, <3>5, <4>1
    <3>6. CASE i < p /\ k >= p
      <4>1. p - 1 \in i..(i + LineSize - 1) /\ p - 1 <= T /\ p - 1 \in 0..(T - 1) /\ p - 1 < p /\ p > 0
        BY <1>3, <1>6, <2>1, <3>6
      <4>2. buffer'[p - 1] = NUL
        BY ZenonT(40), <1>5, <3>2, <4>1
      <4> QED BY ZenonT(40), <4>1, <4>2
    <3>7. i \in p..(p + n) \/ i > p + n \/ (i < p /\ k < p) \/ (i < p /\ k >= p)
      BY SMTT(30), <1>3, <1>6, <2>1
    <3> QED BY ZenonT(40), <3>3, <3>4, <3>5, <3>6, <3>7
  <2>4. CASE ~ (p + n < T)
    <3> DEFINE e == p + n - T
    <3>1. e \in Nat /\ e < p /\ e < n /\ buffer'[e] = NUL
      BY SMTT(30), <1>1, <1>3, <1>6, <1>7, <2>2, <2>4
    <3> HIDE DEF e
    <3>2. ASSUME NEW j \in 0..(T - 1), j < p, j > e PROVE buffer'[j] = buffer[j]
      <4>1. \A m \in 0..n : j # (p + m) % T
        BY SMTT(30), <1>3, <1>6, <1>7, <2>4, <3>2 DEF e
      <4> QED BY ZenonT(40), <1>1, <4>1
    <3>3. CASE i <= e
      <4>1. e \in i..(i + LineSize - 1) /\ e <= T
        BY SMTT(30), <1>3, <1>6, <3>1, <3>3
      <4> QED BY ZenonT(40), <3>1, <4>1
    <3>4. CASE i >= p
      <4>1. T \in i..(i + LineSize - 1) /\ T <= T
        BY SMTT(30), <1>3, <1>6, <2>4, <3>4
      <4> QED BY ZenonT(40), <1>2, <4>1
    <3>5. CASE i > e /\ i < p /\ k < p
      <4>1. k \in 0..(T - 1) /\ k > e
        BY SMTT(30), <1>3, <1>6, <2>1, <3>1, <3>5
      <4> QED BY ZenonT(40), <2>1, <3>2, <3>5, <4>1
    <3>6. CASE i > e /\ i < p /\ k >= p
      <4>1. /\ p - 1 \in i..(i + LineSize - 1) /\ p - 1 <= T /\ p - 1 \in 0..(T - 1)
            /\ p - 1 < p /\ p - 1 > e /\ p > 0
        BY SMTT(30), <1>3, <1>6, <2>1, <3>1, <3>6
      <4>2. buffer'[p - 1] = NUL
        BY ZenonT(40), <1>5, <3>1, <3>2, <4>1
      <4> QED BY ZenonT(40), <4>1, <4>2
    <3>7. i <= e \/ i >= p \/ (i > e /\ i < p /\ k < p) \/ (i > e /\ i < p /\ k >= p)
      BY SMTT(30), <1>3, <1>6, <2>1, <3>1
    <3> QED BY ZenonT(40), <3>3, <3>4, <3>5, <3>6, <3>7
  <2> QED BY ZenonT(40), <2>3, <2>4
<1>10. RequestFits'
  BY ZenonT(40), <1>4, <1>5 DEF RequestFits
<1> QED BY ZenonT(40), <1>8, <1>9, <1>10 DEF FitsInv

\* dequeue() copies up to the first NUL.
LEMMA CopyFits ==
  ASSUME SafeInv, NEW c \in Clients, FitsInv(c), DequeueCopy
  PROVE  FitsInv(c)'
<1>1. UNCHANGED <<buffer, written>>
  BY ZenonT(40) DEF DequeueCopy
<1>2. /\ front \in 0..(TotalSize - 1) /\ overlap \in 0..(LineSize - 1) /\ buffer[TotalSize] = NUL
      /\ buffer \in [0..TotalSize -> Cells] /\ delivered \in Seq(Seq(Cells))
      /\ TotalSize \in Nat /\ LineSize \in Nat /\ front \in 0..TotalSize
  BY TotalSizeType DEF SafeInv, TypeOK
<1>3. overlap # 0 \/ front # TotalSize - overlap
  BY <1>2
<1>4. delivered' = Append(delivered, StringAt(buffer, front))
  BY ZenonT(40), <1>3 DEF DequeueCopy
<1> DEFINE n == strlen(buffer, front)
           s == StringAt(buffer, front)
<1>5. n \in 0..(TotalSize - front) /\ \A m \in 0..(n - 1) : buffer[front + m] # NUL
  BY ZenonT(40), <1>2, StrlenIsFirstNUL
<1>6. s \in Seq(Cells) /\ Len(s) = n
  BY ZenonT(40), <1>2, StringAtType
<1> HIDE DEF n, s
<1>7. n < LineSize
  <2>1. PICK j \in front..(front + LineSize - 1) : j <= TotalSize /\ buffer[j] = NUL
    BY ZenonT(40), <1>2 DEF FitsInv, NulNear
  <2>2. ~ (j - front \in 0..(n - 1))
    <3>1. front + (j - front) = j
      BY <1>2
    <3> QED BY ZenonT(40), <1>5, <2>1, <3>1
  <2> QED BY SMTT(30), <1>2, <1>5, <2>1, <2>2
<1>8. RequestFits'
  <2>1. RequestFits
    BY ZenonT(40) DEF FitsInv
  <2>2. /\ Len(delivered) \in Nat /\ Len(delivered') = Len(delivered) + 1
        /\ delivered'[Len(delivered) + 1] = s
        /\ \A j \in 1..Len(delivered) : delivered'[j] = delivered[j]
        /\ \A j \in 1..Len(delivered') : j \in 1..Len(delivered) \/ j = Len(delivered) + 1
    BY <1>2, <1>4, <1>6 DEF s
  <2> QED BY ZenonT(40), <1>6, <1>7, <2>1, <2>2 DEF RequestFits
<1> QED BY ZenonT(40), <1>1, <1>8 DEF FitsInv, NulNear, Terminated

\* With one client, and for every queue size, line size and number of lines, whatever
\* dequeue() copies, of a request that is split or of one that is not, fits request_buffer.
THEOREM CopiesFit ==
  ASSUME NEW c, Clients = {c}
  PROVE  Spec => []RequestFits
<1>1. Init => FitsInv(c)
  <2> SUFFICES ASSUME Init PROVE FitsInv(c)
    BY ZenonT(40)
  <2>1. buffer = [j \in 0..TotalSize |-> NUL] /\ written[c] = 0 /\ delivered = <<>>
    BY ZenonT(40) DEF Init, create_queue
  <2>2. TotalSize \in Nat /\ TotalSize > 0 /\ LineSize \in Nat /\ LineSize >= 2 /\ 0 % TotalSize = 0
    BY TotalSizeType, LineSizeAssumption, ModSmall
  <2>3. NulNear(buffer)
    <3>1. \A i \in 0..TotalSize : i \in i..(i + LineSize - 1) /\ i <= TotalSize
      BY <2>2
    <3> QED BY ZenonT(40), <2>1, <3>1 DEF NulNear
  <2>4. Terminated(c)
    BY <2>1, <2>2 DEF Terminated
  <2>5. RequestFits
    BY <2>1 DEF RequestFits
  <2> QED BY ZenonT(40), <2>3, <2>4, <2>5 DEF FitsInv
<1>2. SafeInv /\ SafeInv' /\ OrderInv(c) /\ FitsInv(c) /\ [Next]_vars => FitsInv(c)'
  <2> SUFFICES ASSUME SafeInv, SafeInv', OrderInv(c), FitsInv(c), [Next]_vars PROVE FitsInv(c)'
    BY ZenonT(40)
  <2>1. c \in Clients /\ \A d \in Clients : d = c
    BY ZenonT(40)
  <2>2. CASE UNCHANGED <<buffer, history>>
    BY ZenonT(40), <2>2 DEF history, FitsInv, NulNear, Terminated, RequestFits
  <2>3. UNCHANGED <<buffer, history>> \/ DequeueCopy \/ EnqueueWrite(c)
    <3>1. CASE UNCHANGED vars
      BY ZenonT(40), <3>1 DEF vars, shared
    <3>2. CASE Client(c)
      BY ZenonT(40), <3>2 DEF Client, ReadLine, ReadBlankLine, EndOfFile, EnqueueWaitEmpty, EnqueueWaitMutex,
         EnqueuePostMutex, EnqueuePostFull, shared
    <3>3. CASE Dequeue \/ NextRequest
      BY ZenonT(40), <3>3 DEF Dequeue, NextRequest, DequeueWaitFull, DequeueWaitMutex, DequeuePostMutex,
         DequeuePostEmpty, shared
    <3> QED BY ZenonT(40), <2>1, <3>1, <3>2, <3>3 DEF Next
  <2> QED BY ZenonT(40), <2>1, <2>2, <2>3, WriteFits, CopyFits
<1>3. FitsInv(c) => RequestFits
  BY ZenonT(40) DEF FitsInv
<1> QED BY <1>1, <1>2, <1>3, SafeAlways, OrderAlways, PTL DEF Spec

-----------------------------------------------------------------------------
(* The life of the server: what is shown of the queue stays true.          *)

\* What a step outside enqueue() and dequeue() may do to the queue: a server that
\* starts clears overlap and has a new front and a new request_buffer.
Renewed ==
  /\ overlap' \in {0, overlap} /\ front' \in {0, front}
  /\ request_buffer' \in {<<>>, request_buffer}
  /\ UNCHANGED <<buffer, empty, full, mutex, clientVars, spc, history>>

\* Every step of the life cycle is, for the queue, a step of a client, of dequeue(),
\* of the loop around it, or leaves the semaphores and the ring alone.
LEMMA LifeStepOnQueue ==
  ASSUME [LifeNext]_allVars
  PROVE  (\E c \in Clients : Client(c)) \/ (Dequeue \/ NextRequest) \/ Renewed
<1> USE DEF queueVars, shared, serverVars
<1>1. ASSUME NEW c \in Clients, ClientStep(c) \/ Kill(c)
      PROVE  Client(c) \/ Renewed
  BY ZenonT(40), <1>1 DEF ClientStep, Kill, OpenSharedMemory, OpenSemaphore, Enqueuing, Fault, Renewed
<1>2. CASE CreateQueue
  BY ZenonT(40), <1>2 DEF CreateQueue, Create, SemaphoreValues, Renewed
<1>3. CASE LoopDequeue
  BY ZenonT(40), <1>3 DEF LoopDequeue
<1>4. CASE Fork \/ ForkFails
  BY ZenonT(40), <1>4 DEF Fork, ForkFails, NextRequest
<1>5. CASE Wait
  BY ZenonT(40), <1>5 DEF Wait, Renewed
<1>6. CASE UnlinkQueue
  BY ZenonT(40), <1>6 DEF UnlinkQueue, Unlink, Renewed
<1>7. CASE Restart
  BY ZenonT(40), <1>7 DEF Restart, Renewed
<1>8. ASSUME NEW k \in 1..Len(children), ChildEnds(k)
      PROVE  Renewed
  BY ZenonT(40), <1>8 DEF ChildEnds, Renewed
<1>9. CASE UNCHANGED allVars
  BY ZenonT(40), <1>9 DEF allVars, Renewed
<1> QED BY ZenonT(40), <1>1, <1>2, <1>3, <1>4, <1>5, <1>6, <1>7, <1>8, <1>9 DEF LifeNext, ServerStep

\* A new server keeps the types, the exclusion and the slots.
LEMMA RenewedSafe ==
  ASSUME SafeInv, SlotsConserved, Renewed
  PROVE  SafeInv' /\ SlotsConserved'
<1>1. TypeOK /\ 0 \in 0..(LineSize - 1) /\ 0 \in 0..(TotalSize - 1) /\ <<>> \in Seq(Cells)
  BY TotalSizeType DEF SafeInv
<1>2. TypeOK'
  BY ZenonT(40), <1>1 DEF Renewed, TypeOK, clientVars, history
<1>3. SafeInv'
  BY ZenonT(40), <1>2 DEF SafeInv, Renewed, clientVars, Enqueueing, ServerInside, ClientInside, MutualExclusion
<1>4. SlotsConserved'
  BY ZenonT(40) DEF SlotsConserved, Renewed, clientVars, HoldsSlot, ServerHoldsSlot
<1> QED BY ZenonT(40), <1>3, <1>4

\* The types, the exclusion and the slots of the queue hold through the whole life of
\* the server and of those started after it.
THEOREM QueueSafe == LifeSpec => [](SafeInv /\ SlotsConserved)
<1>1. LifeInit => SafeInv /\ SlotsConserved
  BY ZenonT(40), InitSafe, InitSlots DEF LifeInit
<1>2. SafeInv /\ SlotsConserved /\ [LifeNext]_allVars => SafeInv' /\ SlotsConserved'
  BY ZenonT(40), LifeStepOnQueue, RenewedSafe, ClientSafe, ClientSlots, ServerSafe, ServerSlots
<1> QED BY <1>1, <1>2, PTL DEF LifeSpec

\* A slot is lost only with the client that died holding it: sem_open(O_CREAT) of a
\* server started again neither refills nor drains the semaphores it finds.
THEOREM SlotsThroughRestart == LifeSpec => []SlotsConserved
BY QueueSafe, PTL

\* No client and no server started again enters the ring beside another process, not
\* even when a client died inside.
THEOREM ExclusionThroughRestart == LifeSpec => []MutualExclusion
<1>1. SafeInv => MutualExclusion
  BY ZenonT(40) DEF SafeInv
<1> QED BY <1>1, QueueSafe, PTL

-----------------------------------------------------------------------------
(* The exit request.                                                       *)

\* None of the first n strings is an exit request to the present server.
NoExitIn(n) == \A j \in (before + 1)..n : ~ IsExit(delivered[j])

\* Where the server is tells whether it has an exit request: none before the copy,
\* after the copy at most the string it is about to test, outside the loop at most
\* the last one; a server that starts has dequeued nothing.
LastInv ==
  /\ before \in Nat /\ before <= Len(delivered)
  /\ phase = "loop" /\ spc \in {"wait_full", "wait_mutex", "copy"} => NoExitIn(Len(delivered))
  /\ phase = "loop" /\ spc \notin {"wait_full", "wait_mutex", "copy"} =>
       /\ before < Len(delivered) /\ delivered[Len(delivered)] = request_buffer
       /\ NoExitIn(Len(delivered) - 1)
  /\ phase # "loop" => spc = "wait_full" /\ NoExitIn(Len(delivered) - 1)
  /\ Starting => before = Len(delivered)

\* A step that dequeues nothing, and does not touch the loop, keeps LastInv.
LEMMA LastUnchanged ==
  ASSUME LastInv, UNCHANGED <<before, delivered, spc, request_buffer, phase>>
  PROVE  LastInv'
BY ZenonT(40) DEF LastInv, NoExitIn, IsExit, Starting

\* The steps of dequeue() keep LastInv.
LEMMA LastDequeue ==
  ASSUME SafeInv, LastInv, LoopDequeue
  PROVE  LastInv'
<1>1. phase = "loop" /\ Dequeue /\ UNCHANGED <<phase, before>> /\ ~ Starting'
  BY ZenonT(40) DEF LoopDequeue, lifeVars, Starting
<1>2. delivered \in Seq(Seq(Cells)) /\ Len(delivered) \in Nat /\ before \in Nat
        /\ before <= Len(delivered)
  BY DEF SafeInv, TypeOK, LastInv
<1>3. CASE DequeueCopy
  <2>1. /\ spc = "copy" /\ spc' \in {"post_mutex", "overrun"}
        /\ delivered' = Append(delivered, request_buffer') /\ request_buffer' \in Seq(Cells)
    BY ZenonT(40), <1>3, CopyIsWhole DEF DequeueCopy
  <2>2. /\ Len(delivered') = Len(delivered) + 1
        /\ delivered'[Len(delivered')] = request_buffer'
        /\ \A j \in 1..Len(delivered) : delivered'[j] = delivered[j]
    BY <1>2, <2>1
  <2>3. \A j \in (before + 1)..Len(delivered) : ~ IsExit(delivered[j])
    BY ZenonT(40), <1>1, <2>1 DEF LastInv, NoExitIn
  <2>4. NoExitIn(Len(delivered) - 1)'
    <3> SUFFICES ASSUME NEW j \in (before' + 1)..(Len(delivered') - 1)
                 PROVE  ~ IsExit(delivered'[j])
      BY ZenonT(40) DEF NoExitIn, IsExit
    <3>1. j \in (before + 1)..Len(delivered) /\ j \in 1..Len(delivered)
      BY SMTT(30), <1>1, <1>2, <2>2
    <3> QED BY ZenonT(40), <2>2, <2>3, <3>1
  <2> QED BY SMTT(30), <1>1, <1>2, <2>1, <2>2, <2>4 DEF LastInv
<1>4. CASE DequeueWaitFull \/ DequeueWaitMutex
  <2>1. /\ UNCHANGED <<delivered, request_buffer>>
        /\ spc \in {"wait_full", "wait_mutex"} /\ spc' \in {"wait_mutex", "copy"}
    BY ZenonT(40), <1>4 DEF DequeueWaitFull, DequeueWaitMutex, ServerGoes, history
  <2> QED BY ZenonT(40), <1>1, <2>1 DEF LastInv, NoExitIn, IsExit
<1>5. CASE DequeuePostMutex \/ DequeuePostEmpty
  <2>1. /\ UNCHANGED <<delivered, request_buffer>>
        /\ spc \in {"post_mutex", "post_empty"} /\ spc' \in {"post_empty", "got"}
    BY ZenonT(40), <1>5 DEF DequeuePostMutex, DequeuePostEmpty, ServerGoes, history
  <2> QED BY ZenonT(40), <1>1, <2>1 DEF LastInv, NoExitIn, IsExit
<1> QED BY ZenonT(40), <1>1, <1>3, <1>4, <1>5 DEF Dequeue

\* The test of the loop keeps LastInv: it goes on only if the string was not "exit".
LEMMA LastFork ==
  ASSUME SafeInv, LastInv, Fork \/ ForkFails
  PROVE  LastInv'
<1>1. /\ phase = "loop" /\ spc = "got" /\ spc' = "wait_full"
      /\ UNCHANGED <<delivered, request_buffer, before>>
      /\ ~ IsExit(request_buffer) => phase' = "loop"
      /\ IsExit(request_buffer) => phase' \in {"waiting", "failed"}
  BY ZenonT(40) DEF Fork, ForkFails, LoopTest, ServerGoes, history
<1>2. Len(delivered) \in Nat /\ before \in Nat /\ before < Len(delivered)
        /\ delivered[Len(delivered)] = request_buffer
        /\ \A j \in (before + 1)..(Len(delivered) - 1) : ~ IsExit(delivered[j])
  BY SMTT(30), <1>1 DEF SafeInv, TypeOK, LastInv, NoExitIn
<1>3. NoExitIn(Len(delivered) - 1)'
  BY ZenonT(40), <1>1, <1>2 DEF NoExitIn, IsExit
<1>4. CASE IsExit(request_buffer)
  BY ZenonT(40), <1>1, <1>2, <1>3, <1>4 DEF LastInv, Starting
<1>5. CASE ~ IsExit(request_buffer)
  <2>1. \A j \in (before + 1)..Len(delivered) : ~ IsExit(delivered[j])
    BY SMTT(30), <1>2, <1>5
  <2>2. NoExitIn(Len(delivered))'
    BY ZenonT(40), <1>1, <2>1 DEF NoExitIn, IsExit
  <2> QED BY ZenonT(40), <1>1, <1>2, <1>5, <2>2 DEF LastInv, Starting
<1> QED BY ZenonT(40), <1>4, <1>5

\* Every step of the life cycle keeps LastInv.
LEMMA LastNext == SafeInv /\ LastInv /\ [LifeNext]_allVars => LastInv'
<1> SUFFICES ASSUME SafeInv, LastInv, [LifeNext]_allVars PROVE LastInv'
  BY ZenonT(40)
<1> USE DEF queueVars, serverVars, history
<1>0. Len(delivered) \in Nat /\ before \in Nat
  BY DEF SafeInv, TypeOK, LastInv
<1>1. ASSUME NEW c \in Clients, ClientStep(c) \/ Kill(c)
      PROVE  LastInv'
  <2>1. UNCHANGED <<before, delivered, spc, request_buffer, phase>>
    BY ZenonT(40), <1>1 DEF ClientStep, Kill, OpenSharedMemory, OpenSemaphore, Enqueuing, Fault, lifeVars,
                Client, ReadLine, ReadBlankLine, EndOfFile, EnqueueWaitEmpty, EnqueueWaitMutex,
                EnqueueWrite, EnqueuePostMutex, EnqueuePostFull
  <2> QED BY ZenonT(40), <2>1, LastUnchanged
<1>2. CASE CreateQueue
  <2>1. /\ Starting /\ (Starting' \/ phase' = "loop")
        /\ UNCHANGED <<before, delivered, spc, request_buffer>>
    BY ZenonT(40), <1>2 DEF CreateQueue, Create, Starting
  <2>2. before = Len(delivered) /\ spc = "wait_full"
    BY ZenonT(40), <2>1 DEF LastInv, Starting
  <2> QED BY SMTT(30), <1>0, <2>1, <2>2 DEF LastInv, NoExitIn
<1>3. CASE Wait
  <2>1. UNCHANGED <<before, delivered, spc, request_buffer, phase>>
    BY ZenonT(40), <1>3 DEF Wait
  <2> QED BY ZenonT(40), <2>1, LastUnchanged
<1>4. CASE UnlinkQueue
  <2>1. /\ phase # "loop" /\ phase' # "loop" /\ ~ Starting'
        /\ UNCHANGED <<before, delivered, spc, request_buffer>>
    BY ZenonT(40), <1>4 DEF UnlinkQueue, Unlink, Starting
  <2> QED BY ZenonT(40), <2>1 DEF LastInv, NoExitIn, IsExit
<1>5. CASE Restart
  <2>1. phase # "loop" /\ phase' # "loop" /\ before' = Len(delivered) /\ UNCHANGED <<delivered, spc>>
    BY ZenonT(40), <1>5 DEF Restart
  <2> QED BY SMTT(30), <1>0, <2>1 DEF LastInv, NoExitIn
<1>6. ASSUME NEW k \in 1..Len(children), ChildEnds(k)
      PROVE  LastInv'
  <2>1. UNCHANGED <<before, delivered, spc, request_buffer, phase>>
    BY ZenonT(40), <1>6 DEF ChildEnds
  <2> QED BY ZenonT(40), <2>1, LastUnchanged
<1>7. CASE UNCHANGED allVars
  BY ZenonT(40), <1>7, LastUnchanged DEF allVars, lifeVars
<1> QED BY ZenonT(40), <1>1, <1>2, <1>3, <1>4, <1>5, <1>6, <1>7, LastDequeue, LastFork DEF LifeNext, ServerStep

\* Where the server is always tells whether it has an exit request.
LEMMA LastAlways == LifeSpec => []LastInv
<1>1. LifeInit => LastInv
  BY DEF LifeInit, Init, LastInv, NoExitIn, Starting
<1> QED BY <1>1, LastNext, QueueSafe, PTL DEF LifeSpec

\* A server dequeues nothing behind an exit request, whichever forks fail, however
\* many clients there are and whatever their requests overwrite.
THEOREM ExitStaysLast == LifeSpec => []ExitIsLast
<1>1. SafeInv /\ LastInv => ExitIsLast
  <2> SUFFICES ASSUME SafeInv, LastInv, NEW j \in (before + 1)..Len(delivered),
                      IsExit(delivered[j])
               PROVE  j = Len(delivered)
    BY ZenonT(40) DEF ExitIsLast
  <2>1. Len(delivered) \in Nat /\ before \in Nat
    BY DEF SafeInv, TypeOK, LastInv
  <2>2. j \notin (before + 1)..(Len(delivered) - 1)
    BY ZenonT(40), <2>1 DEF LastInv, NoExitIn
  <2> QED BY SMTT(30), <2>1, <2>2
<1> QED BY <1>1, LastAlways, QueueSafe, PTL

-----------------------------------------------------------------------------
(* The children.                                                           *)

ChildStates == {"running", "hung", "ended", "reaped"}
Reaped == {k \in 1..Len(children) : children[k] = "reaped"}
AllReaped == \A k \in 1..Len(children) : children[k] = "reaped"

\* Every wait() so far reaped a child of its own, unless none is left; there are at
\* most process_count children, and wait() is not called in the loop.
ReapInv ==
  /\ children \in Seq(ChildStates)
  /\ process_count \in Nat /\ waits \in Nat /\ waits <= process_count
  /\ Len(children) <= process_count
  /\ Starting \/ phase = "loop" => waits = 0
  /\ AllReaped \/ waits <= Cardinality(Reaped)
  /\ Unlinking => AllReaped

\* The reaped children can be counted, and there are no more than children.
LEMMA ReapedFinite ==
  ASSUME NEW s \in Seq(ChildStates)
  PROVE  LET r == {k \in 1..Len(s) : s[k] = "reaped"}
         IN  /\ IsFiniteSet(r) /\ Cardinality(r) \in Nat
             /\ IsFiniteSet(1..Len(s)) /\ Cardinality(1..Len(s)) = Len(s)
<1> DEFINE r == {k \in 1..Len(s) : s[k] = "reaped"}
<1>1. IsFiniteSet(1..Len(s)) /\ Cardinality(1..Len(s)) = Len(s)
  <2>1. Len(s) \in Int /\ 1 \in Int /\ Len(s) >= 0
    OBVIOUS
  <2> QED BY SMTT(30), <2>1, FS_Interval
<1>2. IsFiniteSet(r) /\ Cardinality(r) \in Nat
  BY ZenonT(40), <1>1, FS_Subset, FS_CardinalityType
<1> QED BY ZenonT(40), <1>1, <1>2

\* When wait() was called process_count times, no child is left.
LEMMA WaitedForAll ==
  ASSUME ReapInv, waits = process_count
  PROVE  AllReaped
<1> SUFFICES ASSUME waits <= Cardinality(Reaped) PROVE AllReaped
  BY ZenonT(40) DEF ReapInv
<1>1. /\ IsFiniteSet(1..Len(children)) /\ Cardinality(1..Len(children)) = Len(children)
      /\ Cardinality(Reaped) \in Nat /\ Len(children) \in Nat
      /\ Reaped \subseteq 1..Len(children)
  <2>1. children \in Seq(ChildStates)
    BY ZenonT(40) DEF ReapInv
  <2>2. Len(children) \in Nat
    BY <2>1
  <2> QED BY ZenonT(40), <2>1, <2>2, ReapedFinite DEF Reaped
<1>2. Cardinality(Reaped) <= Len(children)
  BY ZenonT(40), <1>1, FS_Subset
<1>3. Cardinality(Reaped) = Cardinality(1..Len(children))
  BY <1>1, <1>2 DEF ReapInv
<1>4. Reaped = 1..Len(children)
  BY ZenonT(40), <1>1, <1>3, FS_Subset
<1> QED BY ZenonT(40), <1>4 DEF Reaped, AllReaped

\* A step that leaves the children and the counts alone keeps ReapInv, unless it
\* begins to remove the queue or goes back to the loop.
LEMMA ReapUnchanged ==
  ASSUME ReapInv, UNCHANGED <<children, process_count, waits>>,
         Starting' \/ phase' = "loop" => Starting \/ phase = "loop",
         Unlinking' => Unlinking \/ AllReaped
  PROVE  ReapInv'
BY ZenonT(40) DEF ReapInv, Reaped, AllReaped

\* A fork(), in the loop, keeps ReapInv, whether it fails or not.
LEMMA ReapFork ==
  ASSUME ReapInv, Fork \/ ForkFails
  PROVE  ReapInv'
<1>1. /\ phase = "loop" /\ phase' \in {"loop", "waiting", "failed"}
      /\ process_count' = process_count + 1 /\ UNCHANGED waits
  BY ZenonT(40) DEF Fork, ForkFails, LoopTest
<1>2. waits = 0 /\ children \in Seq(ChildStates) /\ Len(children) \in Nat /\ process_count \in Nat
        /\ Len(children) <= process_count
  BY <1>1 DEF ReapInv
<1>3. children' = children \/ \E s \in {"running", "hung"} : children' = Append(children, s)
  BY ZenonT(40) DEF Fork, ForkFails
<1>4. children' \in Seq(ChildStates) /\ Len(children') <= Len(children) + 1
  <2>1. CASE children' = children
    BY <1>2, <2>1
  <2>2. ASSUME NEW s \in {"running", "hung"}, children' = Append(children, s)
        PROVE  children' \in Seq(ChildStates) /\ Len(children') <= Len(children) + 1
    <3>1. s \in ChildStates
      BY ZenonT(40) DEF ChildStates
    <3> QED BY <1>2, <2>2, <3>1
  <2> QED BY ZenonT(40), <1>3, <2>1, <2>2
<1>5. Cardinality(Reaped)' \in Nat
  BY ZenonT(40), <1>4, ReapedFinite DEF Reaped
<1> QED BY SMTT(30), <1>1, <1>2, <1>4, <1>5 DEF ReapInv, Starting, Unlinking

\* A wait() that reaps a child counts it; one that finds none changes nothing else.
LEMMA ReapWait ==
  ASSUME ReapInv, Wait
  PROVE  ReapInv'
<1>1. /\ phase = "waiting" /\ waits < process_count /\ waits' = waits + 1
      /\ UNCHANGED <<phase, process_count>>
  BY ZenonT(40) DEF Wait
<1>2. children \in Seq(ChildStates) /\ waits \in Nat /\ process_count \in Nat
        /\ Len(children) <= process_count /\ (AllReaped \/ waits <= Cardinality(Reaped))
  BY ZenonT(40) DEF ReapInv
<1>3. ~ Starting' /\ ~ Unlinking' /\ phase' # "loop"
  BY ZenonT(40), <1>1 DEF Starting, Unlinking
<1>4. ASSUME NEW k \in 1..Len(children), children[k] = "ended",
             children' = [children EXCEPT ![k] = "reaped"]
      PROVE  ReapInv'
  <2>1. children' \in Seq(ChildStates) /\ Len(children') = Len(children)
    BY SMTT(30), <1>2, <1>4 DEF ChildStates
  <2>2. k \notin Reaped /\ Reaped' = Reaped \cup {k}
    BY SMTT(30), <1>2, <1>4, <2>1 DEF Reaped
  <2>3. Cardinality(Reaped') = Cardinality(Reaped) + 1 /\ Cardinality(Reaped) \in Nat
    BY ZenonT(40), <1>2, <2>2, ReapedFinite, FS_AddElement DEF Reaped
  <2>4. ~ AllReaped
    BY ZenonT(40), <1>4 DEF AllReaped
  <2> QED BY SMTT(30), <1>1, <1>2, <1>3, <2>1, <2>3, <2>4 DEF ReapInv
<1>5. ASSUME AllReaped, UNCHANGED children
      PROVE  ReapInv'
  BY SMTT(30), <1>1, <1>2, <1>3, <1>5 DEF ReapInv, AllReaped
<1> QED BY ZenonT(40), <1>4, <1>5 DEF Wait, AllReaped

\* A child that ends was not reaped.
LEMMA ReapChildEnds ==
  ASSUME ReapInv, NEW k \in 1..Len(children), ChildEnds(k)
  PROVE  ReapInv'
<1>1. children[k] = "running" /\ children' = [children EXCEPT ![k] = "ended"]
        /\ UNCHANGED <<phase, process_count, waits>>
  BY ZenonT(40) DEF ChildEnds
<1>2. children \in Seq(ChildStates) /\ ~ AllReaped
  BY ZenonT(40), <1>1 DEF ReapInv, AllReaped
<1>3. children' \in Seq(ChildStates) /\ Len(children') = Len(children)
  BY SMTT(30), <1>1, <1>2 DEF ChildStates
<1>4. Reaped' = Reaped
  BY SMTT(30), <1>1, <1>2, <1>3 DEF Reaped
<1> QED BY ZenonT(40), <1>1, <1>2, <1>3, <1>4 DEF ReapInv, Starting, Unlinking

\* Every step of the life cycle keeps ReapInv.
LEMMA ReapNext == ReapInv /\ [LifeNext]_allVars => ReapInv'
<1> SUFFICES ASSUME ReapInv, [LifeNext]_allVars PROVE ReapInv'
  BY ZenonT(40)
<1>1. ASSUME NEW c \in Clients, ClientStep(c) \/ Kill(c)
      PROVE  UNCHANGED <<phase, children, process_count, waits>>
  BY ZenonT(40), <1>1 DEF ClientStep, Kill, OpenSharedMemory, OpenSemaphore, Enqueuing, Fault, lifeVars
<1>2. ASSUME UNCHANGED <<phase, children, process_count, waits>>
      PROVE  ReapInv'
  BY ZenonT(40), <1>2, ReapUnchanged DEF Starting, Unlinking
<1>3. CASE CreateQueue
  <2>1. Starting /\ ~ Unlinking' /\ UNCHANGED <<children, process_count, waits>>
    BY ZenonT(40), <1>3 DEF CreateQueue, Create, Starting, Unlinking
  <2> QED BY ZenonT(40), <2>1, ReapUnchanged
<1>4. CASE LoopDequeue \/ UNCHANGED allVars
  BY ZenonT(40), <1>2, <1>4 DEF LoopDequeue, lifeVars, allVars
<1>5. CASE UnlinkQueue
  <2>1. /\ Unlinking \/ waits = process_count
        /\ ~ Starting' /\ phase' # "loop" /\ UNCHANGED <<children, process_count, waits>>
    BY ZenonT(40), <1>5 DEF UnlinkQueue, Unlink, Starting, Unlinking
  <2> QED BY ZenonT(40), <2>1, WaitedForAll, ReapUnchanged
<1>6. CASE Restart
  <2>1. /\ children' = <<>> /\ process_count' = 0 /\ waits' = 0 /\ ~ Unlinking'
    BY ZenonT(40), <1>6 DEF Restart, Unlinking
  <2>2. AllReaped'
    BY <2>1 DEF AllReaped
  <2> QED BY SMTT(30), <2>1, <2>2 DEF ReapInv
<1> QED BY ZenonT(40), <1>1, <1>2, <1>3, <1>4, <1>5, <1>6, ReapFork, ReapWait, ReapChildEnds
    DEF LifeNext, ServerStep

\* The calls of wait() and the children they took always agree.
LEMMA ReapAlways == LifeSpec => []ReapInv
<1>1. LifeInit => ReapInv
  <2> SUFFICES ASSUME LifeInit PROVE ReapInv
    BY ZenonT(40)
  <2>1. children = <<>> /\ AllReaped
    BY DEF LifeInit, AllReaped
  <2> QED BY <2>1 DEF LifeInit, ReapInv, Starting, Unlinking
<1> QED BY <1>1, ReapNext, PTL DEF LifeSpec

\* watch_queue() removes the queue only when every child was waited for, however many
\* forks failed: the calls of wait() are as many as the forks, and one that finds no
\* child takes none away from the others.
THEOREM QueueRemovedLast == LifeSpec => []NoOrphans
<1>1. ReapInv => NoOrphans
  BY ZenonT(40) DEF ReapInv, NoOrphans, AllReaped
<1> QED BY <1>1, ReapAlways, PTL

-----------------------------------------------------------------------------
(* The named objects.                                                      *)

OpenSteps == {"shm", "empty", "full", "mutex", "open", "refused", "faulted", "killed"}

\* The semaphores a client has asked for when its open_queue() is at a step.
Asked(step) == CASE step = "full" -> {"empty"}
                 [] step = "mutex" -> {"empty", "full"}
                 [] step = "open" -> Semaphores
                 [] OTHER -> {}

\* The semaphores that the present or an earlier server has created.
Created == CASE phase \in {"create_shm", "create_empty"} -> {}
             [] phase = "create_full" -> {"empty"}
             [] phase = "create_mutex" -> {"empty", "full"}
             [] OTHER -> Semaphores

\* Until the queue is removed, what was created is there, all of it if a client ever
\* met a server in its loop, and such a client has every semaphore it asked for.
UpInv ==
  /\ opened \in [Clients -> OpenSteps] /\ handles \in [Clients -> SUBSET Semaphores]
  /\ came \subseteq Clients
  /\ ~ Unlinking =>
       /\ Created \subseteq objects
       /\ came # {} => Semaphores \subseteq objects
       /\ \A c \in came : opened[c] # "faulted" /\ Asked(opened[c]) \subseteq handles[c]

\* A step that leaves the objects and every open_queue() alone keeps UpInv.
LEMMA UpUnchanged ==
  ASSUME UpInv, UNCHANGED <<opened, handles, came, objects>>,
         Unlinking => Unlinking', Created' \subseteq Created
  PROVE  UpInv'
BY ZenonT(40) DEF UpInv, Asked

\* The steps of a client keep UpInv.
LEMMA UpClient ==
  ASSUME UpInv, NEW c \in Clients, ClientStep(c) \/ Kill(c)
  PROVE  UpInv'
<1>1. UNCHANGED phase /\ UNCHANGED objects /\ Unlinking' = Unlinking /\ Created' = Created
  BY ZenonT(40) DEF ClientStep, Kill, OpenSharedMemory, OpenSemaphore, Enqueuing, Fault, lifeVars,
         Unlinking, Created
<1>2. CASE OpenSharedMemory(c)
  <2>1. /\ \E s \in {"empty", "refused"} : opened' = [opened EXCEPT ![c] = s]
        /\ UNCHANGED handles
        /\ came' = came \/ (phase = "loop" /\ came' = came \cup {c})
    BY ZenonT(40), <1>2 DEF OpenSharedMemory
  <2>2. phase = "loop" => Created = Semaphores
    BY ZenonT(40) DEF Created
  <2> QED BY ZenonT(40), <1>1, <2>1, <2>2 DEF UpInv, Asked, OpenSteps
<1>3. ASSUME NEW name \in Semaphores, NEW next \in {"full", "mutex", "open"},
             OpenSemaphore(c, name, next), Asked(next) = Asked(name) \cup {name}
      PROVE  UpInv'
  <2>1. /\ opened[c] = name /\ opened' = [opened EXCEPT ![c] = next] /\ UNCHANGED came
        /\ handles' = [handles EXCEPT ![c] = @ \cup ({name} \cap objects)]
    BY ZenonT(40), <1>3 DEF OpenSemaphore
  <2>2. opened' \in [Clients -> OpenSteps] /\ handles' \in [Clients -> SUBSET Semaphores]
    BY ZenonT(40), <2>1 DEF UpInv, OpenSteps
  <2>3. ASSUME ~ Unlinking, NEW d \in came
        PROVE  opened'[d] # "faulted" /\ Asked(opened'[d]) \subseteq handles'[d]
    <3>1. name \in objects /\ Asked(opened[d]) \subseteq handles[d] /\ opened[d] # "faulted"
            /\ d \in Clients
      BY ZenonT(40), <2>3 DEF UpInv
    <3>2. CASE d = c
      <4>1. opened'[d] = next /\ handles'[d] = handles[d] \cup {name}
        BY ZenonT(40), <2>1, <3>1, <3>2 DEF UpInv
      <4> QED BY ZenonT(40), <1>3, <2>1, <3>1, <3>2, <4>1
    <3>3. CASE d # c
      BY ZenonT(40), <2>1, <3>1, <3>3 DEF UpInv
    <3> QED BY ZenonT(40), <3>2, <3>3
  <2> QED BY ZenonT(40), <1>1, <2>1, <2>2, <2>3 DEF UpInv
<1>4. CASE \/ OpenSemaphore(c, "empty", "full") \/ OpenSemaphore(c, "full", "mutex")
           \/ OpenSemaphore(c, "mutex", "open")
  <2>1. /\ Asked("full") = Asked("empty") \cup {"empty"}
        /\ Asked("mutex") = Asked("full") \cup {"full"}
        /\ Asked("open") = Asked("mutex") \cup {"mutex"}
    BY ZenonT(40) DEF Asked, Semaphores
  <2> QED BY ZenonT(40), <1>3, <1>4, <2>1 DEF Semaphores
<1>5. CASE Enqueuing(c)
  BY ZenonT(40), <1>1, <1>5, UpUnchanged DEF Enqueuing, lifeVars
<1>6. CASE Fault(c)
  <2>1. /\ opened[c] = "open" /\ ~ (Uses(c) \subseteq handles[c])
        /\ opened' = [opened EXCEPT ![c] = "faulted"] /\ UNCHANGED <<handles, came>>
    BY ZenonT(40), <1>6 DEF Fault
  <2>2. Uses(c) \subseteq Semaphores /\ Asked("open") = Semaphores
    BY ZenonT(40) DEF Uses, Semaphores, Asked
  <2>3. c \in came => Unlinking
    BY ZenonT(40), <2>1, <2>2 DEF UpInv
  <2> QED BY ZenonT(40), <1>1, <2>1, <2>3 DEF UpInv, OpenSteps, Asked
<1>7. CASE Kill(c)
  <2>1. opened' = [opened EXCEPT ![c] = "killed"] /\ UNCHANGED <<handles, came>>
    BY ZenonT(40), <1>7 DEF Kill
  <2>2. Asked("killed") = {}
    BY ZenonT(40) DEF Asked
  <2> QED BY ZenonT(40), <1>1, <2>1, <2>2 DEF UpInv, OpenSteps
<1> QED BY ZenonT(40), <1>2, <1>4, <1>5, <1>6, <1>7 DEF ClientStep

\* Every step of the life cycle keeps UpInv.
LEMMA UpNext == UpInv /\ [LifeNext]_allVars => UpInv'
<1> SUFFICES ASSUME UpInv, [LifeNext]_allVars PROVE UpInv'
  BY ZenonT(40)
<1>1. CASE CreateQueue
  <2>1. UNCHANGED <<opened, handles, came>> /\ objects \subseteq objects'
    BY ZenonT(40), <1>1 DEF CreateQueue, Create
  <2>2. ~ Unlinking /\ Created \subseteq objects => Created' \subseteq objects'
    BY ZenonT(40), <1>1 DEF CreateQueue, Create, Created, Semaphores
  <2>3. ~ Unlinking
    BY ZenonT(40), <1>1 DEF CreateQueue, Create, Unlinking
  <2> QED BY ZenonT(40), <2>1, <2>2, <2>3 DEF UpInv
<1>2. CASE LoopDequeue \/ Fork \/ ForkFails \/ Wait
  <2>1. /\ UNCHANGED <<opened, handles, came, objects>>
        /\ phase \in {"loop", "waiting"} /\ phase' \in {"loop", "waiting", "failed"}
    BY ZenonT(40), <1>2 DEF LoopDequeue, Fork, ForkFails, LoopTest, Wait, lifeVars
  <2> QED BY ZenonT(40), <2>1, UpUnchanged DEF Unlinking, Created
<1>3. CASE UnlinkQueue
  <2>1. UNCHANGED <<opened, handles, came>> /\ Unlinking'
    BY ZenonT(40), <1>3 DEF UnlinkQueue, Unlink, Unlinking
  <2> QED BY ZenonT(40), <2>1 DEF UpInv
<1>4. CASE Restart
  <2>1. UNCHANGED <<opened, handles, came, objects>> /\ phase = "failed" /\ phase' = "create_shm"
    BY ZenonT(40), <1>4 DEF Restart
  <2> QED BY ZenonT(40), <2>1, UpUnchanged DEF Unlinking, Created
<1>5. ASSUME NEW k \in 1..Len(children), ChildEnds(k)
      PROVE  UpInv'
  BY ZenonT(40), <1>5, UpUnchanged DEF ChildEnds, Unlinking, Created
<1>6. CASE UNCHANGED allVars
  BY ZenonT(40), <1>6, UpUnchanged DEF allVars, lifeVars, Unlinking, Created
<1> QED BY ZenonT(40), <1>1, <1>2, <1>3, <1>4, <1>5, <1>6, UpClient DEF LifeNext, ServerStep

\* The named objects and what the clients have of them always agree.
LEMMA UpAlways == LifeSpec => []UpInv
<1>1. LifeInit => UpInv
  BY ZenonT(40) DEF LifeInit, UpInv, OpenSteps, Created
<1> QED BY <1>1, UpNext, PTL DEF LifeSpec

\* A client that calls open_queue() while a server is in its loop never uses a
\* semaphore it did not get, also when that server fails and another one is started,
\* until the queue is being removed.
THEOREM UpStaysUsable == LifeSpec => []UpMeansUsable
<1>1. UpInv => UpMeansUsable
  BY ZenonT(40) DEF UpInv, UpMeansUsable
<1> QED BY <1>1, UpAlways, PTL

-----------------------------------------------------------------------------
(* The types.                                                              *)

Phases == {"create_shm", "create_empty", "create_full", "create_mutex", "loop", "waiting",
           "failed", "unlink_empty", "unlink_full", "unlink_mutex", "exited"}

\* The server is at one of its phases and makes no object but the four of create_queue().
PhaseInv == phase \in Phases /\ objects \subseteq Semaphores \cup {"shm"}

\* Every step of the life cycle keeps PhaseInv.
LEMMA PhaseNext == PhaseInv /\ [LifeNext]_allVars => PhaseInv'
<1> SUFFICES ASSUME PhaseInv, [LifeNext]_allVars PROVE PhaseInv'
  BY ZenonT(40)
<1> USE DEF PhaseInv, Phases, Semaphores
<1>1. ASSUME NEW c \in Clients, ClientStep(c) \/ Kill(c)
      PROVE  UNCHANGED <<phase, objects>>
  BY ZenonT(40), <1>1 DEF ClientStep, Kill, OpenSharedMemory, OpenSemaphore, Enqueuing, Fault, lifeVars
<1>2. CASE CreateQueue
  BY ZenonT(40), <1>2 DEF CreateQueue, Create
<1>3. CASE LoopDequeue \/ Fork \/ ForkFails \/ Wait
  BY ZenonT(40), <1>3 DEF LoopDequeue, Fork, ForkFails, LoopTest, Wait, lifeVars
<1>4. CASE UnlinkQueue
  BY ZenonT(40), <1>4 DEF UnlinkQueue, Unlink
<1>5. CASE Restart \/ UNCHANGED allVars
  BY ZenonT(40), <1>5 DEF Restart, allVars, lifeVars
<1>6. ASSUME NEW k \in 1..Len(children), ChildEnds(k)
      PROVE  UNCHANGED <<phase, objects>>
  BY ZenonT(40), <1>6 DEF ChildEnds
<1> QED BY ZenonT(40), <1>1, <1>2, <1>3, <1>4, <1>5, <1>6 DEF LifeNext, ServerStep

\* Every variable of the life cycle keeps its type, wait() is never called more often
\* than fork() was, and what is put down to earlier servers was really delivered.
THEOREM LifeTypes == LifeSpec => []LifeTypeOK
<1>1. LifeInit => PhaseInv
  BY ZenonT(40) DEF LifeInit, PhaseInv, Phases
<1>2. SafeInv /\ LastInv /\ ReapInv /\ UpInv /\ PhaseInv => LifeTypeOK
  <2> SUFFICES ASSUME SafeInv, LastInv, ReapInv, UpInv, PhaseInv PROVE LifeTypeOK
    BY ZenonT(40)
  <2>1. Len(delivered) \in Nat
    BY DEF SafeInv, TypeOK
  <2>2. before \in 0..Len(delivered) /\ process_count \in Nat /\ waits \in 0..process_count
    BY <2>1 DEF LastInv, ReapInv
  <2>3. children \in Seq({"running", "hung", "ended", "reaped"})
    BY ZenonT(40) DEF ReapInv, ChildStates
  <2>4. /\ opened \in [Clients -> Semaphores \cup {"shm", "open", "refused", "faulted", "killed"}]
        /\ handles \in [Clients -> SUBSET Semaphores] /\ came \subseteq Clients
    <3>1. OpenSteps = Semaphores \cup {"shm", "open", "refused", "faulted", "killed"}
      BY ZenonT(40) DEF OpenSteps, Semaphores
    <3> QED BY ZenonT(40), <3>1 DEF UpInv
  <2>5. Starting \/ Unlinking \/ phase \in {"loop", "waiting", "failed"}
    BY ZenonT(40) DEF PhaseInv, Phases, Starting, Unlinking
  <2> QED BY ZenonT(40), <2>2, <2>3, <2>4, <2>5 DEF LifeTypeOK, PhaseInv
<1> QED BY <1>1, <1>2, PhaseNext, QueueSafe, LastAlways, ReapAlways, UpAlways, PTL DEF LifeSpec
=============================================================================
