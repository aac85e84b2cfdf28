------------------------------ MODULE ParDirList ------------------------------
(***************************************************************************)
(* pardirlist (pardirlist/pardirlist.c): the listing of DirList with the   *)
(* number of times a keyword occurs in every file.  Each file is searched  *)
(* where it is met (<ispar> is 0) or by a thread of its own that is joined *)
(* when its line is printed (<ispar> is 1).                                *)
(*                                                                         *)
(* What a search counts is frequency() of KeywordCount.                    *)
(***************************************************************************)
EXTENDS DirList, KeywordCount

CONSTANT Texts    \* what may be in a file: sequences of characters

ASSUME TextsAssumption == \A t \in Texts : Len(t) \in Nat

VARIABLES
  ispar,
  text,               \* the characters of each file
  searching,          \* the file that populate_list() searches next
  thread,             \* where the thread of each node is
  keyword_frequency,  \* of each node
  printed             \* the frequencies in the lines of the output file

searchVars == <<searching, thread, keyword_frequency, printed>>
inputs == <<ispar, text>>
parVars == <<vars, inputs, searchVars>>

ParInit ==
  /\ Init
  /\ ispar \in {0, 1}
  /\ text \in [{p \in Paths : kind[p] = "file"} -> Texts]
  /\ searching = NULL
  /\ thread = [p \in Paths |-> "none"]
  /\ keyword_frequency = [p \in Paths |-> 0]
  /\ printed = <<>>

-----------------------------------------------------------------------------
(* The main thread.                                                        *)

\* populate_list() up to the search of a file.
ParVisitFile(p) ==
  /\ searching = NULL /\ Visit(p, "file")
  /\ searching' = p
  /\ UNCHANGED <<inputs, thread, keyword_frequency, printed>>

ParPopulate ==
  /\ searching = NULL
  /\ \/ PopulateRoot
     \/ \E p \in Paths : SkipHidden(p)
     \/ \E p \in Paths : Visit(p, "dir")
     \/ CloseDirectory
  /\ UNCHANGED <<inputs, searchVars>>

\* The process ends before its time; its threads end with it.
Stop(how) == phase' = how /\ UNCHANGED <<tree, stack, current_level, list, fi, curr, order, output>>

\* fgets() faults on a file that could not be opened.
seq_search_file ==
  /\ searching # NULL /\ phase = "populate" /\ ispar = 0
  /\ \/ /\ kind[searching] = "file"
        /\ keyword_frequency' = [keyword_frequency EXCEPT ![searching] = frequency(text[searching])]
        /\ searching' = NULL
        /\ UNCHANGED vars
     \/ /\ kind[searching] # "file"
        /\ Stop("crashed") /\ UNCHANGED <<searching, keyword_frequency>>
  /\ UNCHANGED <<inputs, thread, printed>>

\* pthread_create(), which may fail: exit(-1).
par_search_file ==
  /\ searching # NULL /\ phase = "populate" /\ ispar = 1
  /\ \/ /\ thread' = [thread EXCEPT ![searching] = "open"]
        /\ searching' = NULL
        /\ UNCHANGED vars
     \/ Stop("failed") /\ UNCHANGED <<searching, thread>>
  /\ UNCHANGED <<inputs, keyword_frequency, printed>>

ParSort == (Sort \/ OpenOutput) /\ UNCHANGED <<inputs, searchVars>>

\* Mutation: the thread is not joined.
ParPrintNoJoin ==
  /\ PrintNode
  /\ printed' = Append(printed, keyword_frequency[curr])
  /\ UNCHANGED <<inputs, searching, thread, keyword_frequency>>

\* Mutation: a node is joined whether it has a thread or not.
ParPrintJoinAll ==
  /\ PrintNode
  /\ thread[curr] = "ended"
  /\ printed' = Append(printed, keyword_frequency[curr])
  /\ UNCHANGED <<inputs, searching, thread, keyword_frequency>>

\* pthread_join() of the node's thread, if it has one, then its line. The join does
\* not fail: the thread was created, and is joined once.
ParPrintNode ==
  /\ PrintNode
  /\ thread[curr] \in {"none", "ended"}
  /\ printed' = Append(printed, keyword_frequency[curr])
  /\ UNCHANGED <<inputs, searching, thread, keyword_frequency>>

ParDestroyList == DestroyList /\ UNCHANGED <<inputs, searchVars>>

Main ==
  \/ ParPopulate \/ (\E p \in Paths : ParVisitFile(p))
  \/ seq_search_file \/ par_search_file
  \/ ParSort \/ ParPrintNode \/ ParDestroyList

-----------------------------------------------------------------------------
(* The threads: psf_runner().                                              *)

Alive == phase \notin {"done", "crashed", "failed"}

ThreadOpens(p) ==
  /\ Alive /\ thread[p] = "open"
  /\ \/ /\ kind[p] = "file"
        /\ thread' = [thread EXCEPT ![p] = "count"]
        /\ UNCHANGED vars
     \/ /\ kind[p] # "file"
        /\ Stop("crashed") /\ UNCHANGED thread
  /\ UNCHANGED <<inputs, searching, keyword_frequency, printed>>

\* Mutation: the thread ends without the store to its node.
ThreadForgets(p) ==
  /\ Alive /\ thread[p] = "count"
  /\ thread' = [thread EXCEPT ![p] = "ended"]
  /\ UNCHANGED <<vars, inputs, searching, keyword_frequency, printed>>

ThreadStores(p) ==
  /\ Alive /\ thread[p] = "count"
  /\ keyword_frequency' = [keyword_frequency EXCEPT ![p] = frequency(text[p])]
  /\ thread' = [thread EXCEPT ![p] = "ended"]
  /\ UNCHANGED <<vars, inputs, searching, printed>>

psf_runner(p) == ThreadOpens(p) \/ ThreadStores(p)

ParNext == Main \/ \E p \in Paths : psf_runner(p)

ParSpec == ParInit /\ [][ParNext]_parVars

\* The kernel runs every thread that can run.
FairParSpec == /\ ParSpec
               /\ WF_parVars(Main)
               /\ \A p \in Paths : WF_parVars(psf_runner(p))

-----------------------------------------------------------------------------
(* Properties.                                                             *)

\* With threads or without, every line carries the number of times the keyword is a
\* word of its file, and 0 for a directory: no line is printed from a node whose
\* thread has yet to store its result, and reading a file in pieces cuts no word as
\* long as its lines have the length the buffer is made for.
FrequenciesRight ==
  /\ Len(printed) = Len(output)
  /\ \A i \in 1..Len(printed) :
       LET p == output[i].path
       IN  IF kind[p] # "file" THEN printed[i] = 0
           ELSE LinesFit(text[p]) => printed[i] = Occurrences(text[p])

\* destroy_list() frees the nodes only when no thread will use its node again.
NoThreadOnFreedNode == phase = "done" => \A p \in Paths : thread[p] \in {"none", "ended"}

Readable == \A p \in Paths : kind[p] \in {"dir", "file", "hidden"}

\* pardirlist ends; with the file written when every entry can be opened, unless a
\* thread cannot be created or the output file cannot be opened.
ParListingEnds ==
  <>(phase \in {"done", "failed"} \/ OutputFailed \/ (phase = "crashed" /\ ~ Readable))
=============================================================================
