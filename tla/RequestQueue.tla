---------------------------- MODULE RequestQueue ----------------------------
(***************************************************************************)
(* The request queue between the clients and the server: a ring of bytes   *)
(* in POSIX shared memory, three named semaphores, an offset `back' that   *)
(* every client keeps for itself and an offset `front' that the server     *)
(* keeps for itself (client-server/client.c, client-server/server.c).      *)
(*                                                                         *)
(* A byte of the ring is a cell: NUL, or <<r, i>>, the i-th character of   *)
(* the request r.  What a request says is left out; where its characters   *)
(* lie, and which of them the server reads back, is what the module is     *)
(* about.                                                                  *)
(***************************************************************************)
EXTENDS Integers, Sequences, FiniteSets

CONSTANTS
  Clients,       \* the client processes
  QueueSize,     \* <req-queue-size>, the same for the server and every client
  LineSize,      \* MAXDIRPATH + 1 + MAXKEYWORD + 1
  Lengths,       \* the lengths of the lines in the clients' input files
  MaxLines       \* bound: lines in each client's input file

ASSUME ClientsAssumption == IsFiniteSet(Clients)
ASSUME QueueSizeAssumption == QueueSize \in Nat \ {0}
ASSUME LineSizeAssumption == LineSize \in Nat /\ LineSize >= 2
\* fgets() is given a buffer of LineSize bytes, one of them for the NUL.
ASSUME LengthsAssumption == Lengths \subseteq 1..(LineSize - 1)
ASSUME MaxLinesAssumption == MaxLines \in [Clients -> Nat]

TotalSize == QueueSize * LineSize

VARIABLES
  buffer,          \* q.buffer: the ring and the extra NUL behind it
  overlap,         \* *q.overlap
  empty, full, mutex,  \* the named semaphores
  cpc,             \* where each client is
  back,            \* q.back of each client
  request,         \* the line each client is sending
  nread,           \* lines each client has read
  spc,             \* where the server is in dequeue()
  front,           \* q.front of the server
  request_buffer,  \* what the server dequeued last
  sent,            \* history: the requests written to the ring, in order
  start,           \* history: start[k], the bytes the client had written before sent[k]
  written,         \* history: bytes each client has written
  delivered        \* history: the strings the server dequeued, in order

shared == <<buffer, overlap>>
clientVars == <<cpc, back, request, nread>>
serverVars == <<spc, front, request_buffer>>
history == <<sent, start, written, delivered>>
vars == <<shared, empty, full, mutex, clientVars, serverVars, history>>

NUL == <<>>
Requests == [client : Clients, num : Nat, len : Lengths]
Cells == {NUL} \cup (Requests \X (1..LineSize))

Text(r) == [i \in 1..r.len |-> <<r, i>>]

-----------------------------------------------------------------------------
(* The library calls on strings and semaphores.                            *)

\* The length of the NUL-terminated string at offset p.
strlen(buf, p) == CHOOSE n \in 0..(TotalSize - p) :
                    /\ buf[p + n] = NUL
                    /\ \A m \in 0..(n - 1) : buf[p + m] # NUL

\* strcpy() from offset p of the ring.
StringAt(buf, p) == [i \in 1..strlen(buf, p) |-> buf[p + i - 1]]

\* Mutation: the terminating NUL is not written.
StoreUnterminated(buf, p, s) ==
  [j \in DOMAIN buf |-> IF j \in p..(p + Len(s) - 1) THEN s[j - p + 1] ELSE buf[j]]

\* sprintf() of the string s to offset p of the ring.
Store(buf, p, s) ==
  [j \in DOMAIN buf |-> IF j \in p..(p + Len(s) - 1) THEN s[j - p + 1]
                        ELSE IF j = p + Len(s) THEN NUL
                        ELSE buf[j]]

sem_wait(s) == s > 0 /\ s' = s - 1
sem_post(s) == s' = s + 1

-----------------------------------------------------------------------------
(* The start: the server has created the queue, every client has opened it. *)

create_queue ==
  /\ buffer = [j \in 0..TotalSize |-> NUL]
  /\ overlap = 0
  /\ front = 0
  /\ empty = QueueSize
  /\ full = 0
  /\ mutex = 1

open_queue == back = [c \in Clients |-> 0]

Init ==
  /\ create_queue
  /\ open_queue
  /\ cpc = [c \in Clients |-> "read"]
  /\ request = [c \in Clients |-> NUL]
  /\ nread = [c \in Clients |-> 0]
  /\ spc = "wait_full"
  /\ request_buffer = <<>>
  /\ sent = <<>>
  /\ start = <<>>
  /\ written = [c \in Clients |-> 0]
  /\ delivered = <<>>

-----------------------------------------------------------------------------
(* The client: read_inputfile() and enqueue().                             *)

ClientGoes(c, from, to) == cpc[c] = from /\ cpc' = [cpc EXCEPT ![c] = to]

\* fgets() returns a line and strtok_r() strips its newline.
ReadLine(c) ==
  /\ ClientGoes(c, "read", "wait_empty")
  /\ nread[c] < MaxLines[c]
  /\ nread' = [nread EXCEPT ![c] = @ + 1]
  /\ \E n \in Lengths :
       request' = [request EXCEPT ![c] = [client |-> c, num |-> nread[c] + 1, len |-> n]]
  /\ UNCHANGED <<shared, empty, full, mutex, back, serverVars, history>>

\* A blank line: strtok_r() returns NULL and strlen(NULL) faults.
ReadBlankLine(c) ==
  /\ ClientGoes(c, "read", "crashed")
  /\ nread[c] < MaxLines[c]
  /\ nread' = [nread EXCEPT ![c] = @ + 1]
  /\ UNCHANGED <<shared, empty, full, mutex, back, request, serverVars, history>>

\* The end of the file: read_inputfile() returns, close_queue().
EndOfFile(c) ==
  /\ ClientGoes(c, "read", "done")
  /\ UNCHANGED <<shared, empty, full, mutex, back, request, nread, serverVars, history>>

\* Mutation: the client does not wait for a free slot.
EnqueueSkipEmpty(c) ==
  /\ ClientGoes(c, "wait_empty", "wait_mutex")
  /\ UNCHANGED <<shared, empty, full, mutex, back, request, nread, serverVars, history>>

EnqueueWaitEmpty(c) ==
  /\ ClientGoes(c, "wait_empty", "wait_mutex")
  /\ sem_wait(empty)
  /\ UNCHANGED <<shared, full, mutex, back, request, nread, serverVars, history>>

\* Mutation: the client does not wait for the mutex.
EnqueueSkipMutex(c) ==
  /\ ClientGoes(c, "wait_mutex", "write")
  /\ mutex' = 0
  /\ UNCHANGED <<shared, empty, full, back, request, nread, serverVars, history>>

EnqueueWaitMutex(c) ==
  /\ ClientGoes(c, "wait_mutex", "write")
  /\ sem_wait(mutex)
  /\ UNCHANGED <<shared, empty, full, back, request, nread, serverVars, history>>

\* The critical section of enqueue(): a request that does not fit behind
\* `back' goes on at the start of the ring, and overlap says so.
EnqueueWrite(c) ==
  LET s == Text(request[c])
      offset == TotalSize - back[c]
      fits == back[c] + Len(s) + 1 <= TotalSize
  IN  /\ ClientGoes(c, "write", "post_mutex")
      /\ buffer' = IF fits
                   THEN Store(buffer, back[c], s)
                   ELSE Store(Store(buffer, back[c], SubSeq(s, 1, offset)),
                              0, SubSeq(s, offset + 1, Len(s)))
      /\ overlap' = IF fits THEN overlap ELSE offset
      /\ sent' = Append(sent, request[c])
      /\ start' = Append(start, written[c])
      /\ written' = [written EXCEPT ![c] = @ + Len(s) + 1]
      /\ UNCHANGED <<empty, full, mutex, back, request, nread, serverVars, delivered>>

\* Mutation: the mutex is not given back.
EnqueueKeepMutex(c) ==
  /\ ClientGoes(c, "post_mutex", "post_full")
  /\ UNCHANGED <<shared, empty, full, mutex, back, request, nread, serverVars, history>>

EnqueuePostMutex(c) ==
  /\ ClientGoes(c, "post_mutex", "post_full")
  /\ sem_post(mutex)
  /\ UNCHANGED <<shared, empty, full, back, request, nread, serverVars, history>>

\* Mutation: back is not wrapped around.
EnqueuePostFullUnwrapped(c) ==
  /\ ClientGoes(c, "post_full", "read")
  /\ sem_post(full)
  /\ back' = [back EXCEPT ![c] = @ + request[c].len + 1]
  /\ UNCHANGED <<shared, empty, mutex, request, nread, serverVars, history>>

\* sem_post(full), then the client advances its own back.
EnqueuePostFull(c) ==
  /\ ClientGoes(c, "post_full", "read")
  /\ sem_post(full)
  /\ back' = [back EXCEPT ![c] = (@ + request[c].len + 1) % TotalSize]
  /\ UNCHANGED <<shared, empty, mutex, request, nread, serverVars, history>>

Client(c) ==
  \/ ReadLine(c) \/ ReadBlankLine(c) \/ EndOfFile(c)
  \/ EnqueueWaitEmpty(c) \/ EnqueueWaitMutex(c) \/ EnqueueWrite(c)
  \/ EnqueuePostMutex(c) \/ EnqueuePostFull(c)

-----------------------------------------------------------------------------
(* The server: dequeue() and the loop of watch_queue() around it.          *)

ServerGoes(from, to) == spc = from /\ spc' = to

DequeueWaitFull ==
  /\ ServerGoes("wait_full", "wait_mutex")
  /\ sem_wait(full)
  /\ UNCHANGED <<shared, empty, mutex, clientVars, front, request_buffer, history>>

DequeueWaitMutex ==
  /\ ServerGoes("wait_mutex", "copy")
  /\ sem_wait(mutex)
  /\ UNCHANGED <<shared, empty, full, clientVars, front, request_buffer, history>>

\* The critical section of dequeue(); both halves of the test are the code's.
\* A string longer than request_buffer overruns it: what the server does from
\* there on is undefined, and the module says nothing more of it.
DequeueCopy ==
  LET whole == overlap # 0 \/ front # TotalSize - overlap
  IN  /\ spc = "copy"
      /\ request_buffer' = IF whole
                           THEN StringAt(buffer, front)
                           ELSE [i \in 1..overlap |-> buffer[front + i - 1]]
                                  \o StringAt(buffer, 0)
      /\ spc' = IF Len(request_buffer') < LineSize THEN "post_mutex" ELSE "overrun"
      /\ overlap' = IF whole THEN overlap ELSE 0
      /\ delivered' = Append(delivered, request_buffer')
      /\ UNCHANGED <<buffer, empty, full, mutex, clientVars, front, sent, start, written>>

DequeuePostMutex ==
  /\ ServerGoes("post_mutex", "post_empty")
  /\ sem_post(mutex)
  /\ UNCHANGED <<shared, empty, full, clientVars, front, request_buffer, history>>

\* Mutation: front does not count the NUL.
DequeuePostEmptyShort ==
  /\ ServerGoes("post_empty", "got")
  /\ sem_post(empty)
  /\ front' = (front + Len(request_buffer)) % TotalSize
  /\ UNCHANGED <<shared, full, mutex, clientVars, request_buffer, history>>

\* Mutation: the slot is not given back.
DequeueKeepSlot ==
  /\ ServerGoes("post_empty", "got")
  /\ front' = (front + Len(request_buffer) + 1) % TotalSize
  /\ UNCHANGED <<shared, empty, full, mutex, clientVars, request_buffer, history>>

\* sem_post(empty), then the server advances its own front.
DequeuePostEmpty ==
  /\ ServerGoes("post_empty", "got")
  /\ sem_post(empty)
  /\ front' = (front + Len(request_buffer) + 1) % TotalSize
  /\ UNCHANGED <<shared, full, mutex, clientVars, request_buffer, history>>

Dequeue ==
  \/ DequeueWaitFull \/ DequeueWaitMutex \/ DequeueCopy
  \/ DequeuePostMutex \/ DequeuePostEmpty

\* watch_queue() hands the request to a child process and dequeues again.
NextRequest ==
  /\ ServerGoes("got", "wait_full")
  /\ UNCHANGED <<shared, empty, full, mutex, clientVars, front, request_buffer, history>>

-----------------------------------------------------------------------------
Next == \/ \E c \in Clients : Client(c)
        \/ Dequeue
        \/ NextRequest

Spec == Init /\ [][Next]_vars

\* The kernel runs every process that can run.
Fairness == /\ \A c \in Clients : WF_vars(Client(c))
            /\ WF_vars(Dequeue \/ NextRequest)

FairSpec == Spec /\ Fairness
-----------------------------------------------------------------------------
(* Properties.                                                             *)

ClientPCs == {"read", "wait_empty", "wait_mutex", "write", "post_mutex", "post_full",
              "done", "crashed"}
ServerPCs == {"wait_full", "wait_mutex", "copy", "post_mutex", "post_empty", "got", "overrun"}

\* Every variable has its type; the offsets stay inside the ring.
TypeOK ==
  /\ buffer \in [0..TotalSize -> Cells]
  /\ overlap \in 0..(LineSize - 1)
  /\ empty \in Nat /\ full \in Nat /\ mutex \in {0, 1}
  /\ cpc \in [Clients -> ClientPCs]
  /\ back \in [Clients -> 0..(TotalSize - 1)]
  /\ request \in [Clients -> Requests \cup {NUL}]
  /\ nread \in [Clients -> Nat]
  /\ spc \in ServerPCs
  /\ front \in 0..(TotalSize - 1)
  /\ request_buffer \in Seq(Cells)
  /\ sent \in Seq(Requests)
  /\ start \in Seq(Nat)
  /\ written \in [Clients -> Nat]
  /\ delivered \in Seq(Seq(Cells))

ClientInside(c) == cpc[c] \in {"write", "post_mutex"}
ServerInside == spc \in {"copy", "post_mutex", "overrun"}

\* The ring and overlap are touched by one process at a time: the mutex
\* semaphore of enqueue() and dequeue() excludes any two clients, and a
\* client and the server.
MutualExclusion ==
  /\ \A c, d \in Clients : ClientInside(c) /\ ClientInside(d) => c = d
  /\ \A c \in Clients : ~ (ClientInside(c) /\ ServerInside)

\* A client between sem_wait(empty) and sem_post(full) holds a slot, and so
\* does the server between sem_wait(full) and sem_post(empty).
HoldsSlot(c) == cpc[c] \in {"wait_mutex", "write", "post_mutex", "post_full"}
ServerHoldsSlot == spc \in {"wait_mutex", "copy", "post_mutex", "post_empty", "overrun"}

\* enqueue() and dequeue() neither lose nor mint a slot of the queue, however
\* many clients there are and wherever each of them is.
SlotsConserved ==
  empty + full + Cardinality({c \in Clients : HoldsSlot(c)})
    + (IF ServerHoldsSlot THEN 1 ELSE 0) = QueueSize

InFlight == (Len(delivered) + 1)..Len(sent)

\* The cells of the request sent[k] hold its characters and its NUL.
Intact(k) ==
  /\ \A i \in 1..sent[k].len : buffer[(start[k] + i - 1) % TotalSize] = <<sent[k], i>>
  /\ buffer[(start[k] + sent[k].len) % TotalSize] = NUL

\* With one client, a request that the server has not copied yet is never
\* overwritten, although enqueue() counts requests and the ring counts bytes:
\* QueueSize requests of at most LineSize bytes each always fit.
InFlightIntact == \A k \in InFlight : Intact(k)

\* The characters of sent[k] run past the end of the ring.
Split(k) == (start[k] % TotalSize) + sent[k].len > TotalSize

\* With one client, dequeue() returns the requests in the order and with the
\* characters they were enqueued, up to the first request that is split.
DeliveredUntilSplit ==
  \A j \in 1..Len(delivered) :
    (\A k \in 1..j : ~ Split(k)) => delivered[j] = Text(sent[j])

\* With one client, whatever dequeue() copies, split or not, fits the
\* request_buffer of LineSize bytes with its NUL.
RequestFits == \A j \in 1..Len(delivered) : Len(delivered[j]) < LineSize

\* Unless the server overruns its request_buffer: every request a client was
\* able to enqueue is dequeued in the end, and every client comes to the end of
\* its file (or faults on a blank line).  Nobody waits for ever on a semaphore
\* that nobody will post.
AllServed ==
  \/ <>(spc = "overrun")
  \/ /\ \A c \in Clients : <>(cpc[c] \in {"done", "crashed"})
     /\ <>[](Len(delivered) = Len(sent) /\ spc = "wait_full")

\* What enqueue() and dequeue() are for: the server gets every request as the
\* client sent it.  dequeue() does not deliver this for a split request.
RequestsIntact == \A j \in 1..Len(delivered) : delivered[j] = Text(sent[j])

\* What "back of queue (point of next entry)" says of every client's back: a
\* string the server dequeues is a request that some client enqueued.
RequestsReal ==
  \A j \in 1..Len(delivered) : \E k \in 1..Len(sent) : delivered[j] = Text(sent[k])
=============================================================================
