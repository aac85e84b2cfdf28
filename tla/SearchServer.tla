---------------------------- MODULE SearchServer ----------------------------
(***************************************************************************)
(* The server from its start to its end (main() and watch_queue() of       *)
(* client-server/server.c), composed with the request queue and with       *)
(* clients that open the queue while the server comes up or goes down.     *)
(*                                                                         *)
(* A line of ExitLen characters is the request "exit"; no other line is.   *)
(* A search is one child process that ends or, as SearchProcess shows it   *)
(* may, hangs.  A client may be killed anywhere, and a server that ended   *)
(* with exit(1) may be started again on the objects it left behind.        *)
(***************************************************************************)
EXTENDS RequestQueue

CONSTANTS
  ExitLen,     \* the length of the line "exit"
  Killable     \* bound: the clients that may be killed

ASSUME ExitLenAssumption == ExitLen \in Nat
ASSUME KillableAssumption == Killable \subseteq Clients

Semaphores == {"empty", "full", "mutex"}

VARIABLES
  phase,          \* where the server is outside dequeue()
  objects,        \* the names that exist: the shared memory and the semaphores
  opened,         \* how far each client's open_queue() is
  handles,        \* the semaphores each client got from sem_open()
  process_count,
  children,       \* the state of every forked process, in the order of the forks
  waits,          \* calls of wait() so far
  came,           \* history: the clients whose shm_open() met a server in its loop
  before          \* history: the strings that earlier servers dequeued

queueVars == <<shared, empty, full, mutex, clientVars, serverVars, history>>
lifeVars == <<phase, objects, opened, handles, process_count, children, waits,
              came, before>>
allVars == <<queueVars, lifeVars>>

\* strcmp(request_buffer, "exit") == 0
IsExit(s) == s # <<>> /\ s[1][1].len = ExitLen /\ s = Text(s[1][1])

LifeInit ==
  /\ Init
  /\ phase = "create_shm"
  /\ objects = {}
  /\ opened = [c \in Clients |-> "shm"]
  /\ handles = [c \in Clients |-> {}]
  /\ process_count = 0
  /\ children = <<>>
  /\ waits = 0
  /\ came = {}
  /\ before = 0

-----------------------------------------------------------------------------
(* The client: open_queue(), then what RequestQueue says of it.            *)

\* shm_open() and mmap(); exit(1) when there is no shared memory.
OpenSharedMemory(c) ==
  /\ opened[c] = "shm"
  /\ opened' = [opened EXCEPT ![c] = IF "shm" \in objects THEN "empty" ELSE "refused"]
  /\ came' = IF phase = "loop" THEN came \cup {c} ELSE came
  /\ UNCHANGED <<queueVars, phase, objects, handles, process_count, children, waits, before>>

\* sem_open() of an existing semaphore; that it failed is not noticed here.
OpenSemaphore(c, name, next) ==
  /\ opened[c] = name /\ opened' = [opened EXCEPT ![c] = next]
  /\ handles' = [handles EXCEPT ![c] = @ \cup ({name} \cap objects)]
  /\ UNCHANGED <<queueVars, phase, objects, process_count, children, waits, came, before>>

\* The semaphore that the next step of enqueue() uses.
Uses(c) == CASE cpc[c] = "wait_empty" -> {"empty"}
             [] cpc[c] \in {"wait_mutex", "post_mutex"} -> {"mutex"}
             [] cpc[c] = "post_full" -> {"full"}
             [] OTHER -> {}

Enqueuing(c) ==
  /\ opened[c] = "open" /\ Uses(c) \subseteq handles[c]
  /\ Client(c)
  /\ UNCHANGED lifeVars

\* sem_wait() or sem_post() of SEM_FAILED, a null pointer: the client dies where
\* it is, with the slot it may have taken.
Fault(c) ==
  /\ opened[c] = "open" /\ ~ (Uses(c) \subseteq handles[c])
  /\ opened' = [opened EXCEPT ![c] = "faulted"]
  /\ UNCHANGED <<queueVars, phase, objects, handles, process_count, children, waits, came, before>>

\* A signal kills a client, with the slot or the mutex it may have taken.
Kill(c) ==
  /\ c \in Killable /\ opened[c] \notin {"refused", "faulted", "killed"}
  /\ cpc[c] \notin {"done", "crashed"}
  /\ opened' = [opened EXCEPT ![c] = "killed"]
  /\ UNCHANGED <<queueVars, phase, objects, handles, process_count, children, waits, came, before>>

ClientStep(c) ==
  \/ OpenSharedMemory(c)
  \/ OpenSemaphore(c, "empty", "full")
  \/ OpenSemaphore(c, "full", "mutex")
  \/ OpenSemaphore(c, "mutex", "open")
  \/ Enqueuing(c)
  \/ Fault(c)

-----------------------------------------------------------------------------
(* The server: create_queue(), the loop, wait(), unlink_queue().           *)

\* Mutation: the semaphores get their first values again.
SemaphoreReset(name) ==
  /\ empty' = IF name = "empty" THEN QueueSize ELSE empty
  /\ full' = IF name = "full" THEN 0 ELSE full
  /\ mutex' = IF name = "mutex" THEN 1 ELSE mutex

\* sem_open(O_CREAT) gives a new semaphore its value, the one it has in Init, and
\* leaves one that is there as it is.
SemaphoreValues(name) == UNCHANGED <<empty, full, mutex>>

\* The shared memory keeps what is in it, but for overlap. shm_open(), ftruncate(),
\* mmap() and the clearing of overlap are one step: on a first start a client that
\* comes between them has no semaphore, and faults before it touches the memory; on
\* a restart the memory is there all along, and clients use it before this step too.
Create(from, name, to) ==
  /\ phase = from /\ phase' = to
  /\ objects' = objects \cup {name}
  /\ overlap' = IF name = "shm" THEN 0 ELSE overlap
  /\ SemaphoreValues(name)
  /\ UNCHANGED <<buffer, clientVars, serverVars, history,
                 opened, handles, process_count, children, waits, came, before>>

\* Mutation: the mutex semaphore is not created.
CreateQueueNoMutex ==
  \/ Create("create_shm", "shm", "create_empty")
  \/ Create("create_empty", "empty", "create_full")
  \/ Create("create_full", "full", "loop")

CreateQueue ==
  \/ Create("create_shm", "shm", "create_empty")
  \/ Create("create_empty", "empty", "create_full")
  \/ Create("create_full", "full", "create_mutex")
  \/ Create("create_mutex", "mutex", "loop")

LoopDequeue == phase = "loop" /\ Dequeue /\ UNCHANGED lifeVars

\* Mutation: the exit request ends the loop only when its fork succeeded.
LoopTestForked(failed) ==
  phase' = IF IsExit(request_buffer) /\ ~ failed THEN "waiting" ELSE "loop"

\* The loop goes on until the string was "exit".
LoopTest(failed) ==
  phase' = IF IsExit(request_buffer) THEN (IF failed THEN "failed" ELSE "waiting") ELSE "loop"

\* fork() gives a child, for the exit request too.  A child that got a string
\* searches, and may hang; one that got "" returns.
Fork ==
  /\ phase = "loop" /\ ServerGoes("got", "wait_full")
  /\ process_count' = process_count + 1
  /\ \E s \in {"running", "hung"} :
       /\ s = "hung" => request_buffer # <<>>
       /\ children' = Append(children, s)
  /\ LoopTest(FALSE)
  /\ UNCHANGED <<shared, empty, full, mutex, clientVars, front, request_buffer, history,
                 objects, opened, handles, waits, came, before>>

\* fork() fails.  It is noticed only if it was for the exit request: then the
\* server ends with exit(1), without wait() and without unlink_queue().
ForkFails ==
  /\ phase = "loop" /\ ServerGoes("got", "wait_full")
  /\ process_count' = process_count + 1
  /\ LoopTest(TRUE)
  /\ UNCHANGED <<shared, empty, full, mutex, clientVars, front, request_buffer, history,
                 objects, opened, handles, children, waits, came, before>>

ChildEnds(k) ==
  /\ k \in 1..Len(children) /\ children[k] = "running"
  /\ children' = [children EXCEPT ![k] = "ended"]
  /\ UNCHANGED <<queueVars, phase, objects, opened, handles, process_count, waits, came, before>>

\* Mutation: the wait() loop runs once too often.
WaitOnceMore ==
  /\ phase = "waiting" /\ waits <= process_count
  /\ waits' = waits + 1
  /\ \E k \in 1..Len(children) :
       /\ children[k] \in {"ended", "reaped"}
       /\ children' = [children EXCEPT ![k] = "reaped"]
  /\ UNCHANGED <<queueVars, phase, objects, opened, handles, process_count, came, before>>

\* Mutation: the wait for a fork that failed blocks.
WaitBlocks ==
  /\ phase = "waiting" /\ waits < process_count
  /\ waits' = waits + 1
  /\ \E k \in 1..Len(children) :
       /\ children[k] = "ended"
       /\ children' = [children EXCEPT ![k] = "reaped"]
  /\ UNCHANGED <<queueVars, phase, objects, opened, handles, process_count, came, before>>

\* wait(NULL) takes one child that has ended, or fails at once when no child is
\* left, as it does for a fork that failed.
Wait ==
  /\ phase = "waiting" /\ waits < process_count
  /\ waits' = waits + 1
  /\ \/ \E k \in 1..Len(children) :
          /\ children[k] = "ended"
          /\ children' = [children EXCEPT ![k] = "reaped"]
     \/ /\ \A k \in 1..Len(children) : children[k] = "reaped"
        /\ UNCHANGED children
  /\ UNCHANGED <<queueVars, phase, objects, opened, handles, process_count, came, before>>

Unlink(from, name, to) ==
  /\ phase = from /\ phase' = to
  /\ objects' = objects \ {name}
  /\ UNCHANGED <<queueVars, opened, handles, process_count, children, waits, came, before>>

\* Mutation: the wait() loop is left one child early.
UnlinkQueueEarly ==
  \/ waits + 1 >= process_count /\ Unlink("waiting", "shm", "unlink_empty")
  \/ Unlink("unlink_empty", "empty", "unlink_full")
  \/ Unlink("unlink_full", "full", "unlink_mutex")
  \/ Unlink("unlink_mutex", "mutex", "exited")

UnlinkQueue ==
  \/ waits = process_count /\ Unlink("waiting", "shm", "unlink_empty")
  \/ Unlink("unlink_empty", "empty", "unlink_full")
  \/ Unlink("unlink_full", "full", "unlink_mutex")
  \/ Unlink("unlink_mutex", "mutex", "exited")

\* A new server after exit(1): the objects are still there, and its front, its
\* request_buffer and its counts begin again.
Restart ==
  /\ phase = "failed" /\ phase' = "create_shm"
  /\ front' = 0 /\ request_buffer' = <<>>
  /\ process_count' = 0 /\ waits' = 0 /\ children' = <<>>
  /\ before' = Len(delivered)
  /\ UNCHANGED <<shared, empty, full, mutex, clientVars, spc, history, objects, opened, handles, came>>

ServerStep == CreateQueue \/ LoopDequeue \/ Fork \/ ForkFails \/ Wait \/ UnlinkQueue

-----------------------------------------------------------------------------
LifeNext == \/ \E c \in Clients : ClientStep(c) \/ Kill(c)
            \/ ServerStep \/ Restart
            \/ \E k \in 1..Len(children) : ChildEnds(k)

LifeSpec == LifeInit /\ [][LifeNext]_allVars

\* The kernel runs every process that can run; the children that do
\* not hang end, one after another.
LifeFairness == /\ \A c \in Clients : WF_allVars(ClientStep(c))
                /\ WF_allVars(ServerStep)
                /\ WF_allVars(\E k \in 1..Len(children) : ChildEnds(k))

FairLifeSpec == LifeSpec /\ LifeFairness

-----------------------------------------------------------------------------
(* Properties.                                                             *)

Starting == phase \in {"create_shm", "create_empty", "create_full", "create_mutex"}
Unlinking == phase \in {"unlink_empty", "unlink_full", "unlink_mutex", "exited"}

\* Every variable of the life cycle has its type, and wait() is never called more
\* often than fork() was.
LifeTypeOK ==
  /\ Starting \/ Unlinking \/ phase \in {"loop", "waiting", "failed"}
  /\ objects \subseteq Semaphores \cup {"shm"}
  /\ opened \in [Clients -> Semaphores \cup {"shm", "open", "refused", "faulted", "killed"}]
  /\ handles \in [Clients -> SUBSET Semaphores]
  /\ process_count \in Nat
  /\ children \in Seq({"running", "hung", "ended", "reaped"})
  /\ waits \in 0..process_count
  /\ came \subseteq Clients
  /\ before \in 0..Len(delivered)

\* watch_queue() removes the queue only when every search has ended and was
\* waited for, although process_count also counts the forks that failed.
NoOrphans == Unlinking => \A k \in 1..Len(children) : children[k] = "reaped"

\* The exit request is the last one a server dequeues, whether or not the fork for it
\* succeeds.
ExitIsLast == \A j \in (before + 1)..Len(delivered) : IsExit(delivered[j]) => j = Len(delivered)

\* A client that calls open_queue() while the server is in its loop does not fault
\* as long as the server is there: only one that comes while the queue is being
\* created or removed can be left without a semaphore.
UpMeansUsable == \A c \in came : opened[c] = "faulted" => Unlinking

Dead(c) == opened[c] \in {"faulted", "killed"}
Ended(c) == Dead(c) \/ opened[c] = "refused" \/ cpc[c] \in {"done", "crashed"}

\* An exit request has been enqueued (its slot was posted to full).
ExitPosted ==
  \E k \in 1..Len(sent) :
    /\ sent[k].len = ExitLen
    /\ request[sent[k].client] = sent[k] => cpc[sent[k].client] \in {"read", "done", "crashed"}

\* All requests come from one client and none runs past the end of the ring:
\* RequestQueue shows that the queue keeps them in order then.
Orderly == /\ \A k \in 1..Len(sent) : ~ Split(k)
           /\ \A j, k \in 1..Len(sent) : sent[j].client = sent[k].client

\* A server in its loop, started again or not, brings every client to its end, and the
\* first one then leaves the loop if an exit request was enqueued and the requests are
\* Orderly.  It may leave the loop before, or overrun request_buffer.  Only a client
\* that died with a slot of the queue stops the others: one that died elsewhere does not.
ClientsEnd ==
  phase = "loop" ~> \/ phase # "loop" \/ spc = "overrun"
                    \/ \E c \in Clients : Dead(c) /\ HoldsSlot(c)
                    \/ /\ \A c \in Clients : Ended(c)
                       /\ ~ (before = 0 /\ ExitPosted /\ Orderly)

\* A server that left its loop ends, whichever forks failed, unless a search hangs.
ServerStops ==
  phase = "waiting" ~> phase = "exited" \/ \E k \in 1..Len(children) : children[k] = "hung"
=============================================================================
