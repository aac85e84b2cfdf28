--------------------------- MODULE SearchProcess ---------------------------
(***************************************************************************)
(* One search: the process the server forks for a request                  *)
(* (handle_client_request() of client-server/server.c).  Its main thread   *)
(* starts a worker thread for every file of the directory and one printer  *)
(* thread; the workers hand the matching lines to the printer through a    *)
(* bounded buffer, guarded by three semaphores.                            *)
(*                                                                         *)
(* A file is the sequence of its lines, a line TRUE when it has the        *)
(* keyword as a word.  list->threadcount is an int that the main thread    *)
(* and the printer both change without a lock: the load and the store of   *)
(* each ++ and -- are separate steps.                                      *)
(***************************************************************************)
EXTENDS Integers, Sequences, FiniteSets

CONSTANTS
  Entries,       \* the entries of the directory
  BufferSize,    \* <buffersize>
  MaxLines,      \* bound: lines in a file
  Contents,      \* what the entries of the directory may hold
  NoFile         \* an uninitialised filename

ASSUME BufferSizeAssumption == BufferSize \in Nat \ {0}
ASSUME MaxLinesAssumption == MaxLines \in Nat
ASSUME EntriesAssumption == IsFiniteSet(Entries) /\ NoFile \notin Entries
ASSUME ContentsAssumption ==
  Contents \subseteq [Entries -> UNION {[1..n -> BOOLEAN] : n \in 0..MaxLines}]

VARIABLES
  req,            \* the request: good, without such a directory, or without a keyword
  kind,           \* what stat() says of each entry
  text,           \* the lines of each entry
  mpc,            \* where the main thread is
  unread,         \* entries readdir() has not returned yet
  threadcount,    \* list->threadcount
  mreg,           \* the main thread's register in threadcount++
  wpc,            \* where each worker is
  currentline, lastsavedline,  \* retrieve_keyword()'s counters
  lineptr,        \* lines read from the second stream
  item,           \* the item each worker puts into the buffer
  buffer, buffer_filler, buffer_use,
  buffer_empty, buffer_full, buffer_mutex,
  ppc,            \* where the printer is
  ptr,            \* the item the printer got last
  preg,           \* the printer's register in threadcount--
  output,         \* what is appended to output.txt
  raced           \* history: the printer read threadcount before it was counted itself

inputVars == <<req, kind, text>>
mainVars == <<mpc, unread, mreg>>
workerVars == <<wpc, currentline, lastsavedline, lineptr, item>>
semVars == <<buffer_empty, buffer_full, buffer_mutex>>
ringVars == <<buffer, buffer_filler, buffer_use>>
printerVars == <<ppc, ptr, preg, output, raced>>
vars == <<inputVars, mainVars, threadcount, workerVars, semVars, ringVars, printerVars>>

\* struct Item.  `filename' stands for the file the item comes from, `line' for the number
\* of the line whose text was copied.
Items == [filename : Entries \cup {NoFile}, linenumber : -1..MaxLines, line : 0..MaxLines]
Unset == [filename |-> NoFile, linenumber |-> 0, line |-> 0]
dummyItem == [filename |-> NoFile, linenumber |-> -1, line |-> 0]

IsDummy(x) == x.linenumber = -1

sem_wait(s) == s > 0 /\ s' = s - 1
sem_post(s) == s' = s + 1

-----------------------------------------------------------------------------
create_list == threadcount = 0

Init ==
  /\ req \in {"good", "nodir", "nokeyword"}
  /\ kind \in [Entries -> {"regular", "other", "dangling"}]
  /\ text \in Contents
  /\ \A e \in Entries : kind[e] # "regular" => text[e] = <<>>
  /\ mpc = "open"
  /\ unread = Entries
  /\ create_list
  /\ mreg = 0
  /\ wpc = [e \in Entries |-> "none"]
  /\ currentline = [e \in Entries |-> 0]
  /\ lastsavedline = [e \in Entries |-> 0]
  /\ lineptr = [e \in Entries |-> 0]
  /\ item = [e \in Entries |-> Unset]
  /\ buffer = [i \in 0..(BufferSize - 1) |-> Unset]
  /\ buffer_filler = 0
  /\ buffer_use = 0
  /\ buffer_empty = BufferSize
  /\ buffer_full = 0
  /\ buffer_mutex = 1
  /\ ppc = "none"
  /\ ptr = Unset
  /\ preg = 0
  /\ output = <<>>
  /\ raced = FALSE

\* A fault in one thread ends the process, and with it every other thread.
Running == mpc \notin {"crashed", "exited"}

-----------------------------------------------------------------------------
(* The main thread: handle_client_request() and search_directory().        *)

MainGoes(from, to) == mpc = from /\ mpc' = to

\* opendir() of a missing directory returns NULL, and readdir(NULL) faults.
OpenDirectory ==
  /\ mpc = "open"
  /\ mpc' = IF req = "nodir" THEN "crashed" ELSE "readdir"
  /\ UNCHANGED <<inputVars, unread, mreg, threadcount, workerVars, semVars, ringVars, printerVars>>

\* A hidden entry, or one that is not a regular file, is skipped.  When stat()
\* fails, statbuf holds what the stack held.
SkipEntry(e) ==
  /\ mpc = "readdir" /\ e \in unread
  /\ kind[e] \in {"other", "dangling"}
  /\ unread' = unread \ {e}
  /\ UNCHANGED <<inputVars, mpc, mreg, threadcount, workerVars, semVars, ringVars, printerVars>>

\* create_thread_args() copies the keyword; without one, strdup(NULL) faults.
create_thread_args == req # "nokeyword"

\* pthread_create() of a worker and insert_tail(); nobody else uses the list yet.
CreateWorker(e) ==
  /\ mpc = "readdir" /\ e \in unread
  /\ kind[e] \in {"regular", "dangling"}
  /\ unread' = unread \ {e}
  /\ IF create_thread_args
     THEN /\ wpc' = [wpc EXCEPT ![e] = "read"]
          /\ threadcount' = threadcount + 1
          /\ UNCHANGED mpc
     ELSE mpc' = "crashed" /\ UNCHANGED <<wpc, threadcount>>
  /\ UNCHANGED <<inputVars, mreg, currentline, lastsavedline, lineptr, item,
                 semVars, ringVars, printerVars>>

\* pthread_create() of the printer, which runs from here on.
CreatePrinter ==
  /\ mpc = "readdir" /\ unread = {}
  /\ IF create_thread_args
     THEN mpc' = "insert_load" /\ ppc' = "check"
     ELSE mpc' = "crashed" /\ UNCHANGED ppc
  /\ UNCHANGED <<inputVars, unread, mreg, threadcount, workerVars, semVars, ringVars,
                 ptr, preg, output, raced>>

\* insert_tail(printerNode): threadcount++.
InsertLoad ==
  /\ MainGoes("insert_load", "insert_store")
  /\ mreg' = threadcount
  /\ UNCHANGED <<inputVars, unread, threadcount, workerVars, semVars, ringVars, printerVars>>

InsertStore ==
  /\ MainGoes("insert_store", "closedir")
  /\ threadcount' = mreg + 1
  /\ UNCHANGED <<inputVars, unread, mreg, workerVars, semVars, ringVars, printerVars>>

\* closedir()
CloseDirectory ==
  /\ MainGoes("closedir", "spin")
  /\ UNCHANGED <<inputVars, unread, mreg, threadcount, workerVars, semVars, ringVars, printerVars>>

\* while(list->threadcount != 0) {}
SpinEnds ==
  /\ MainGoes("spin", "join")
  /\ threadcount = 0
  /\ UNCHANGED <<inputVars, unread, mreg, threadcount, workerVars, semVars, ringVars, printerVars>>

\* pthread_join() of every thread of the list, destroy_list(), free(buffer).
JoinAll ==
  /\ MainGoes("join", "exited")
  /\ ppc = "exited"
  /\ \A e \in Entries : wpc[e] \in {"none", "exited"}
  /\ UNCHANGED <<inputVars, unread, mreg, threadcount, workerVars, semVars, ringVars, printerVars>>

Main ==
  \/ OpenDirectory \/ CreatePrinter \/ InsertLoad \/ InsertStore
  \/ CloseDirectory \/ SpinEnds \/ JoinAll
  \/ \E e \in Entries : SkipEntry(e) \/ CreateWorker(e)

-----------------------------------------------------------------------------
(* A worker thread: retrieve_keyword().                                    *)

WorkerGoes(w, from, to) == Running /\ wpc[w] = from /\ wpc' = [wpc EXCEPT ![w] = to]

\* fopen() of an entry that is not there returns NULL, and fgets() faults.
WorkerFaults(w) ==
  /\ Running /\ wpc[w] = "read" /\ kind[w] = "dangling"
  /\ mpc' = "crashed"
  /\ UNCHANGED <<inputVars, unread, mreg, threadcount, workerVars, semVars, ringVars, printerVars>>

\* Mutation: the last line of a file is not searched.
HasLineButLast(w) == kind[w] = "regular" /\ currentline[w] + 1 < Len(text[w])

HasLine(w) == kind[w] = "regular" /\ currentline[w] < Len(text[w])

\* A line without the keyword.
ReadLine(w) ==
  /\ WorkerGoes(w, "read", "read")
  /\ HasLine(w) /\ ~ text[w][currentline[w] + 1]
  /\ currentline' = [currentline EXCEPT ![w] = @ + 1]
  /\ UNCHANGED <<inputVars, mainVars, threadcount, lastsavedline, lineptr, item,
                 semVars, ringVars, printerVars>>

\* Mutation: the second stream advances by one line only.
FindLineOneStep(w) ==
  LET n == currentline[w] + 1
      p == lineptr[w] + 1
  IN  /\ WorkerGoes(w, "read", "wait_empty")
      /\ HasLine(w) /\ text[w][n]
      /\ currentline' = [currentline EXCEPT ![w] = n]
      /\ lastsavedline' = [lastsavedline EXCEPT ![w] = n]
      /\ lineptr' = [lineptr EXCEPT ![w] = p]
      /\ item' = [item EXCEPT ![w] = [filename |-> w, linenumber |-> n, line |-> p]]
      /\ UNCHANGED <<inputVars, mainVars, threadcount, semVars, ringVars, printerVars>>

\* A line with the keyword: the second stream is read up to the same line.
FindLine(w) ==
  LET n == currentline[w] + 1
      p == lineptr[w] + (n - lastsavedline[w])
  IN  /\ WorkerGoes(w, "read", "wait_empty")
      /\ HasLine(w) /\ text[w][n]
      /\ currentline' = [currentline EXCEPT ![w] = n]
      /\ lastsavedline' = [lastsavedline EXCEPT ![w] = n]
      /\ lineptr' = [lineptr EXCEPT ![w] = p]
      /\ item' = [item EXCEPT ![w] = [filename |-> w, linenumber |-> n, line |-> p]]
      /\ UNCHANGED <<inputVars, mainVars, threadcount, semVars, ringVars, printerVars>>

\* The end of the file: the dummy item goes through the buffer too.
EndOfFile(w) ==
  /\ WorkerGoes(w, "read", "wait_empty")
  /\ kind[w] = "regular" /\ ~ HasLine(w)
  /\ item' = [item EXCEPT ![w] = dummyItem]
  /\ UNCHANGED <<inputVars, mainVars, threadcount, currentline, lastsavedline, lineptr,
                 semVars, ringVars, printerVars>>

WorkerWaitEmpty(w) ==
  /\ WorkerGoes(w, "wait_empty", "wait_mutex")
  /\ sem_wait(buffer_empty)
  /\ UNCHANGED <<inputVars, mainVars, threadcount, currentline, lastsavedline, lineptr, item,
                 buffer_full, buffer_mutex, ringVars, printerVars>>

\* Mutation: the buffer is filled without the mutex.
WorkerSkipMutex(w) ==
  /\ WorkerGoes(w, "wait_mutex", "fill")
  /\ UNCHANGED <<inputVars, mainVars, threadcount, currentline, lastsavedline, lineptr, item,
                 semVars, ringVars, printerVars>>

WorkerWaitMutex(w) ==
  /\ WorkerGoes(w, "wait_mutex", "fill")
  /\ sem_wait(buffer_mutex)
  /\ UNCHANGED <<inputVars, mainVars, threadcount, currentline, lastsavedline, lineptr, item,
                 buffer_empty, buffer_full, ringVars, printerVars>>

\* buffer_fill(): the item is copied, then buffer_filler moves on.
BufferFill(w) ==
  /\ WorkerGoes(w, "fill", "advance")
  /\ buffer' = [buffer EXCEPT ![buffer_filler] = item[w]]
  /\ UNCHANGED <<inputVars, mainVars, threadcount, currentline, lastsavedline, lineptr, item,
                 semVars, buffer_filler, buffer_use, printerVars>>

\* Mutation: buffer_filler is not wrapped around.
BufferAdvanceUnwrapped(w) ==
  /\ WorkerGoes(w, "advance", "post_mutex")
  /\ buffer_filler' = buffer_filler + 1
  /\ UNCHANGED <<inputVars, mainVars, threadcount, currentline, lastsavedline, lineptr, item,
                 semVars, buffer, buffer_use, printerVars>>

BufferAdvance(w) ==
  /\ WorkerGoes(w, "advance", "post_mutex")
  /\ buffer_filler' = IF buffer_filler + 1 = BufferSize THEN 0 ELSE buffer_filler + 1
  /\ UNCHANGED <<inputVars, mainVars, threadcount, currentline, lastsavedline, lineptr, item,
                 semVars, buffer, buffer_use, printerVars>>

WorkerPostMutex(w) ==
  /\ WorkerGoes(w, "post_mutex", "post_full")
  /\ sem_post(buffer_mutex)
  /\ UNCHANGED <<inputVars, mainVars, threadcount, currentline, lastsavedline, lineptr, item,
                 buffer_empty, buffer_full, ringVars, printerVars>>

WorkerPostFull(w) ==
  /\ WorkerGoes(w, "post_full", IF IsDummy(item[w]) THEN "close" ELSE "read")
  /\ sem_post(buffer_full)
  /\ UNCHANGED <<inputVars, mainVars, threadcount, currentline, lastsavedline, lineptr, item,
                 buffer_empty, buffer_mutex, ringVars, printerVars>>

\* After the dummy item the worker closes its streams, frees its arguments and exits.
WorkerExit(w) ==
  /\ WorkerGoes(w, "close", "exited")
  /\ UNCHANGED <<inputVars, mainVars, threadcount, currentline, lastsavedline, lineptr, item,
                 semVars, ringVars, printerVars>>

Worker(w) ==
  \/ WorkerFaults(w) \/ ReadLine(w) \/ FindLine(w) \/ EndOfFile(w)
  \/ WorkerWaitEmpty(w) \/ WorkerWaitMutex(w) \/ BufferFill(w) \/ BufferAdvance(w)
  \/ WorkerPostMutex(w) \/ WorkerPostFull(w) \/ WorkerExit(w)

-----------------------------------------------------------------------------
(* The printer thread: print_buffer().                                     *)

PrinterGoes(from, to) == Running /\ ppc = from /\ ppc' = to

\* Mutation: the loop ends one thread too early.
PrinterCheckEarly ==
  /\ PrinterGoes("check", IF threadcount > 2 THEN "wait_full" ELSE "leave_load")
  /\ raced' = (raced \/ mpc \in {"insert_load", "insert_store"})
  /\ UNCHANGED <<inputVars, mainVars, threadcount, workerVars, semVars, ringVars, ptr, preg, output>>

\* while(threadargs->list->threadcount != 1)
PrinterCheck ==
  /\ PrinterGoes("check", IF threadcount # 1 THEN "wait_full" ELSE "leave_load")
  /\ raced' = (raced \/ mpc \in {"insert_load", "insert_store"})
  /\ UNCHANGED <<inputVars, mainVars, threadcount, workerVars, semVars, ringVars, ptr, preg, output>>

PrinterWaitFull ==
  /\ PrinterGoes("wait_full", "wait_mutex")
  /\ sem_wait(buffer_full)
  /\ UNCHANGED <<inputVars, mainVars, threadcount, workerVars, buffer_empty, buffer_mutex, ringVars,
                 ptr, preg, output, raced>>

PrinterWaitMutex ==
  /\ PrinterGoes("wait_mutex", "get")
  /\ sem_wait(buffer_mutex)
  /\ UNCHANGED <<inputVars, mainVars, threadcount, workerVars, buffer_empty, buffer_full, ringVars,
                 ptr, preg, output, raced>>

\* buffer_get()
BufferGet ==
  /\ PrinterGoes("get", "post_mutex")
  /\ ptr' = buffer[buffer_use]
  /\ buffer_use' = IF buffer_use + 1 = BufferSize THEN 0 ELSE buffer_use + 1
  /\ UNCHANGED <<inputVars, mainVars, threadcount, workerVars, semVars, buffer, buffer_filler,
                 preg, output, raced>>

PrinterPostMutex ==
  /\ PrinterGoes("post_mutex", "post_empty")
  /\ sem_post(buffer_mutex)
  /\ UNCHANGED <<inputVars, mainVars, threadcount, workerVars, buffer_empty, buffer_full, ringVars,
                 ptr, preg, output, raced>>

\* Mutation: the slot is not given back.
PrinterKeepSlot ==
  /\ PrinterGoes("post_empty", IF IsDummy(ptr) THEN "dec_load" ELSE "print")
  /\ UNCHANGED <<inputVars, mainVars, threadcount, workerVars, semVars, ringVars,
                 ptr, preg, output, raced>>

PrinterPostEmpty ==
  /\ PrinterGoes("post_empty", IF IsDummy(ptr) THEN "dec_load" ELSE "print")
  /\ sem_post(buffer_empty)
  /\ UNCHANGED <<inputVars, mainVars, threadcount, workerVars, buffer_full, buffer_mutex, ringVars,
                 ptr, preg, output, raced>>

\* The line is put together and appended with one write() to a file opened
\* with O_APPEND.  The fcntl() before it asks for a lock of type F_SETLKW,
\* which is none, and fails.  The name in the line is read from where readdir() left it:
\* later calls of readdir(), which are all over, may have overwritten it, and closedir()
\* frees it.  It may be any string, and output does not keep it.
PrintItem ==
  /\ PrinterGoes("print", "check")
  /\ output' = Append(output, ptr)
  /\ UNCHANGED <<inputVars, mainVars, threadcount, workerVars, semVars, ringVars, ptr, preg, raced>>

\* threadcount--, for a dummy item and once more behind the loop.
DecrementLoad ==
  /\ \/ PrinterGoes("dec_load", "dec_store")
     \/ PrinterGoes("leave_load", "leave_store")
  /\ preg' = threadcount
  /\ UNCHANGED <<inputVars, mainVars, threadcount, workerVars, semVars, ringVars, ptr, output, raced>>

DecrementStore ==
  /\ \/ PrinterGoes("dec_store", "check")
     \/ PrinterGoes("leave_store", "exited")
  /\ threadcount' = preg - 1
  /\ UNCHANGED <<inputVars, mainVars, workerVars, semVars, ringVars, ptr, preg, output, raced>>

Printer ==
  \/ PrinterCheck \/ PrinterWaitFull \/ PrinterWaitMutex \/ BufferGet
  \/ PrinterPostMutex \/ PrinterPostEmpty \/ PrintItem
  \/ DecrementLoad \/ DecrementStore

-----------------------------------------------------------------------------
Next == Main \/ Printer \/ \E w \in Entries : Worker(w)

Spec == Init /\ [][Next]_vars

\* The kernel runs every thread that can run, the spinning main thread too.
Fairness == /\ WF_vars(Main)
            /\ WF_vars(Printer)
            /\ \A w \in Entries : WF_vars(Worker(w))

FairSpec == Spec /\ Fairness
-----------------------------------------------------------------------------
(* Properties.                                                             *)

MainPCs == {"open", "readdir", "insert_load", "insert_store", "closedir", "spin", "join",
            "exited", "crashed"}
WorkerPCs == {"none", "read", "wait_empty", "wait_mutex", "fill", "advance", "post_mutex",
              "post_full", "close", "exited"}
PrinterPCs == {"none", "check", "wait_full", "wait_mutex", "get", "post_mutex", "post_empty",
               "print", "dec_load", "dec_store", "leave_load", "leave_store", "exited"}

\* Every variable has its type; the indices stay inside the buffer, and a
\* worker never reads further in the second stream than in the first.
TypeOK ==
  /\ mpc \in MainPCs
  /\ unread \subseteq Entries
  /\ threadcount \in Int /\ mreg \in Int /\ preg \in Int
  /\ wpc \in [Entries -> WorkerPCs]
  /\ currentline \in [Entries -> 0..MaxLines]
  /\ \A e \in Entries : lineptr[e] \in 0..currentline[e] /\ lastsavedline[e] \in 0..currentline[e]
  /\ item \in [Entries -> Items]
  /\ buffer \in [0..(BufferSize - 1) -> Items]
  /\ buffer_filler \in 0..(BufferSize - 1) /\ buffer_use \in 0..(BufferSize - 1)
  /\ buffer_empty \in 0..BufferSize /\ buffer_full \in 0..BufferSize /\ buffer_mutex \in {0, 1}
  /\ ppc \in PrinterPCs
  /\ ptr \in Items
  /\ output \in Seq(Items)
  /\ raced \in BOOLEAN

\* The items in the buffer: those posted, those a worker is about to post, and
\* the one the printer has waited for and not got yet.
Occupied == buffer_full + Cardinality({e \in Entries : wpc[e] \in {"advance", "post_mutex", "post_full"}})
              + (IF ppc \in {"wait_mutex", "get"} THEN 1 ELSE 0)

Channel == INSTANCE FifoChannel WITH
             Values <- Items, Capacity <- BufferSize, Nothing <- Unset, taken <- ptr,
             chan <- [i \in 1..Occupied |-> buffer[(buffer_use + i - 1) % BufferSize]]

\* The buffer with its two indices and three semaphores, filled by any number
\* of workers, is a bounded FIFO channel to the printer: no item is lost,
\* duplicated or reordered, whatever becomes of threadcount.
BufferIsChannel == Channel!Spec

\* Every line the printer writes is a line with the keyword, under its own
\* number, and the lines of a file come once each and in order: the two streams
\* of retrieve_keyword() stay in step.  Nothing is said of the name it is written under.
SoundOutput ==
  \A i \in 1..Len(output) :
    LET x == output[i]
    IN  /\ x.filename \in Entries /\ x.line = x.linenumber
        /\ x.linenumber \in 1..Len(text[x.filename]) /\ text[x.filename][x.linenumber]
        /\ \A j \in 1..(i - 1) :
             output[j].filename = x.filename => output[j].linenumber < x.linenumber

Matches == {m \in Entries \X (1..MaxLines) : m[2] <= Len(text[m[1]]) /\ text[m[1]][m[2]]}

\* A search process that exits has written every line with the keyword, provided
\* the printer first read threadcount behind insert_tail(printerNode).
CompleteOutput ==
  mpc = "exited" /\ ~ raced =>
    {<<output[i].filename, output[i].linenumber>> : i \in 1..Len(output)} = Matches

WorkersPosted == \A e \in Entries : wpc[e] \in {"none", "close", "exited"}

\* Under the same proviso, the printer leaves its loop only when every worker has posted
\* its dummy item and the buffer is empty, so that nothing is left behind.  It does not
\* wait for the workers to close their files and exit.
PrinterIsLast ==
  ppc \in {"leave_load", "leave_store", "exited"} /\ ~ raced => WorkersPosted /\ Occupied = 0

\* Under the same proviso, the search process ends: the printer sees threadcount
\* come to 1, and the spinning main thread sees it come to 0.
SearchEndsUnlessRaced == <>(~ Running \/ raced)

\* What the search process is for, without the proviso: it ends.
SearchEnds == <>(~ Running)
=============================================================================
