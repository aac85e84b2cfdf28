# A TLA+ development for the-posix-projects

The repository holds four C programs. This directory specifies them in TLA+,
checks the specifications with TLC on small instances and proves the central
properties with TLAPS for every value of the constants. All definitions are
translated from the source under `src/`.

## The system: parts, state, operations

| Part | State | Operations | What is hard |
|---|---|---|---|
| Request queue (`client-server`) | ring of bytes in shared memory, `overlap`, semaphores `/empty` `/full` `/mutex`, one `back` per client, one `front` in the server | `enqueue()`, `dequeue()` | slots counted in requests, ring in bytes; wrap-around; clients that do not share `back`; offsets advanced after the semaphores are posted |
| Client (`client-server/client.c`) | input file position, `back` | open, read a line, enqueue, close | blank lines; opening before the server is ready |
| Search process (`handle_client_request()`) | bounded buffer, three semaphores, thread list with `threadcount` | directory loop, worker, printer, join | `threadcount` without a lock, printer started before it is counted, names owned by a closed directory |
| Server life cycle (`watch_queue()`) | named objects, children, `process_count` | create, dequeue, fork, wait, unlink | failing `fork()`, stale semaphores, clients left behind by `exit` |
| Output file | `output.txt` opened with `O_APPEND` | one `write()` per line | the `fcntl()` lock is never taken |
| `dirlist` | linked list of entries with level and number | traverse, sort by level, print | unchecked `stat()`/`opendir()`, stale tail after the sort |
| `pardirlist` | the same list, one thread per file | traverse, search in parallel, sort, join and print | number of threads and open files, results joined in list order |
| `fsa` | ext2 image: superblock, inode table, blocks; list of paths | read an inode, read a directory, print a file | zero `rec_len`, only the first block group, truncated contents |

The client-server project is the only concurrent system of several processes,
and carries most of the risk; it comes first.

## Modules

| Module | Models |
|---|---|
| `RequestQueue` | the ring, the semaphores, `read_inputfile()` and `enqueue()` of any number of clients, `dequeue()` and its loop |
| `MCRequestQueue` | `RequestQueue` for TLC |
| `ArithmeticLemmas` | least element, division with remainder, positions in a ring |
| `SearchServer` | `watch_queue()` from creation to removal of the queue, `fork()` and `wait()`, clients in `open_queue()` or killed, a server started again; extends `RequestQueue` |
| `MCSearchServer` | `SearchServer` for TLC |
| `SearchServerProofs` | theorems about `RequestQueue`, for any set of clients and for one, and about `SearchServer` for any set of clients |
| `FifoChannel` | what a bounded buffer promises: a FIFO channel of bounded capacity |
| `SearchProcess` | `handle_client_request()`: main thread, workers, printer, buffer |
| `MCSearchProcess` | `SearchProcess` for TLC: how many lines the files have |
| `SearchProcessProofs` | theorems about `SearchProcess` for any directory and buffer size: the buffer is a channel, what the printer writes is right |
| `SearchProcessComplete` | theorems about `SearchProcess` likewise: the printer leaves last, and writes everything |
| `DirList` | `dirlist`: traversal, linked list, sort by level, numbering |
| `MCDirList` | `DirList` for TLC |
| `DirListLemmas` | lemmas about the operators of `DirList`: `insert_sorted()`, the sort, the places in a list, the depths in a tree |
| `DirListProofs` | theorems about `DirList` for any tree |
| `ParDirList` | `pardirlist`: `DirList` with a search per file, in place or in a thread |
| `KeywordCount` | how often a keyword occurs in a file that `fgets()` reads in pieces |
| `MCParDirList` | `ParDirList` for TLC |
| `ParDirListProofs` | theorems about `KeywordCount` for any text, and about `ParDirList` for any tree |
| `Fsa` | `fsa`: arguments, traversal of an ext2 image, content of a file |
| `MCFsa` | `Fsa` for TLC: the disks and the command lines |
| `FsaProofs` | theorems about `Fsa` for any disk: the types, and that `read_directory()` reads only entries in the first group |

### RequestQueue

`enqueue()` is the sequence of actions `EnqueueWaitEmpty`, `EnqueueWaitMutex`,
`EnqueueWrite`, `EnqueuePostMutex`, `EnqueuePostFull` of a client, `dequeue()` the
sequence `DequeueWaitFull`, `DequeueWaitMutex`, `DequeueCopy`, `DequeuePostMutex`,
`DequeuePostEmpty` of the server: one action for each semaphore call and one for each
critical section. `back` and `front` are private, so their update is part of
the last action. A byte of the ring is NUL or the i-th character of a request,
so the model tells which characters of which request the server reads, and
abstracts from what they say. `strlen`, `strcpy` and `sprintf` are modelled on
the ring with the extra NUL behind it. A blank line makes `strtok_r()` return
NULL and the client fault (`ReadBlankLine`). A string too long for
`request_buffer` takes the server to `overrun`, where the program's behaviour
is undefined and the model stops it.

The variables `sent`, `start`, `written` and `delivered` are history: they
record the requests and the strings, and no action's guard reads them.

### SearchProcess

The main thread, the workers and the printer are separate processes; the load
and the store of every `threadcount++` and `threadcount--` that can run
concurrently are separate actions. The buffer is filled in two steps (copy,
advance the index), so that the mutex matters. A file is a sequence of lines,
a line a Boolean (has the keyword or not); an item is a file, a line number
and the line whose text was copied. `kind` says what `stat()` and `fopen()`
find: a dangling entry leaves `statbuf` as it was, hence both `SkipEntry` and
`CreateWorker` are possible, and its worker faults. `output` keeps the file of a line and
not the name printed with it: names belong to the directory stream, which may be read on or
closed by then, so that any string may come. A worker that has posted its dummy item still
has its streams to close (`WorkerExit`), and the printer does not wait for that. `Contents`
is the set of the texts that the files may have. The history variable `raced` is set when
the printer tests `threadcount` before the main thread has counted it.

### SearchServer

`phase` is where the server is outside `dequeue()`, `objects` the names that exist,
`handles[c]` the semaphores client `c` got. Every `sem_open()` and `sem_unlink()` is a
step of its own, because a client that comes during the creation may get `/empty` and
`/mutex` but not `/full`: it then takes a slot, writes its request and faults in
`sem_post(full)` (`Fault`). `shm_open()`, `ftruncate()`, `mmap()` and the clearing of `overlap`
are one step: on a first start no client has a semaphore by then, and faults before it touches
the memory, and on a restart the memory is there all along. `Fork` and `ForkFails` are the two outcomes of `fork()`; the
code tests the result only after the loop, so a failed fork is counted in
`process_count` and noticed only for the exit request. A child ends or hangs
(`SearchProcess` shows that it may). `Wait` returns at once when no child is left.
A line of `ExitLen` characters stands for `exit`.

A client of `Killable` may be killed at any step (`Kill`), with what it holds. A server
that ended with `exit(1)`, the one end at which it leaves its objects behind, may be
started again (`Restart`): its `front`, `request_buffer` and `process_count` begin anew,
`create_queue()` clears `overlap`, and `sem_open(O_CREAT)` keeps the semaphores it finds
as they are (`SemaphoreValues`). The project's document asks to remove such objects
by hand; the model shows what holds when nobody does. The variables `came` and `before`
are history: the clients that met a server in its loop, and the number of strings that
earlier servers dequeued.

### DirList and ParDirList

A path is its rank under `strcmp()`. Every tree in which a directory has a lower rank
than what is below it is an initial state, and `readdir()` returns entries in any
order. The list is modelled pointer by pointer (`insert_sorted`, `SortNode`), one
action per visited entry, per round of the sort and per printed line. A `stat()` that
fails leaves `buf` as it was, or arbitrary if nothing was stored in it yet; `readdir()`
on a directory that could not be opened, and `fgets()` on a file that could not, end
the process (`crashed`). In `ParDirList` a thread opens its file and stores its count
in two steps; `pthread_create()` may fail (`failed`). What it stores is `frequency` of the
file's text, by `KeywordCount`: `fgets()` returns pieces of at most `BuffSize - 1`
characters that end at a newline (`PieceEnd`), and the words of each piece are counted on
their own (`CountFrom`). A word has no delimiter in it, so that a keyword with a blank is
never found, as `strtok_r()` and `strcmp()` have it.
`FrequenciesRight` compares this with the occurrences in the whole text.

### Fsa

A disk is its blocks, the inodes of its first group, the block numbers that may be found
where an inode of another group is looked for (`behind`, a set: any data may be there), and the
entries that may be read where no entry begins (`noise`). The unit of an address is a block number (four bytes); `ToInt` is what
storing an unsigned product in an `int` does to it. Every round of a loop of
`read_directory()` and `print_file()` is an action: the next block (`NextBlock`), an entry
(`ReadEntry`, which adds a node and calls itself for a directory), the return, a direct
block, a block number of the indirect block. `stack` holds the recursive calls; a
directory that is its own descendant, which only other data read as an inode makes, ends the process
when `MaxDepth` calls are open. Without a disk's name the program has failed from the start. `Printed`
is what `printf("%s")` makes of a block: it stops at a zero, and may go on behind a block
that has none. `Tree` and `Stored` say what the disk holds by the layout of ext2, without
the program's loops; the properties compare the two. `Wanted` is the part of `Tree` that the
project's document asks for, files and directories: `TraverseEntire` is about disks that have nothing
else, and `OthersSkipped` about the others. `DisksAssumption` says what a disk is, as far
as the proofs need it: block numbers of a disk below 2^32 bytes, and a set of blocks
(`DirectoriesIn`) that holds those of the root directory and of every directory of the first group with
an entry in it, each of them filled with entries whose lengths lead from one to the next (`EntriesAt`).
Zeros are an entry of no length. Of what is read for an inode of another group nothing is asked.

`InFirstGroup` and `Small` are the provisos: every inode is in the first block group, and
the disk is smaller than 2^32 bytes and has no block that ends exactly at 2^31. Without
them the code reads other data as an inode (and may meet `rec_len` 0 and loop), wraps
around, or skips that block. From 2^31 on `lseek()` fails and `fsa` ends with an error,
which the properties allow.

## Runs

| Run | Constants | What it shows |
|---|---|---|
| `queue_one_client` | 1 client, 5 lines of 1..3 characters, ring of 2 x 4 bytes | no request in flight is overwritten; delivery in order up to the first split request; every string fits; all is served |
| `queue_two_clients` | 2 clients, 2 lines each, ring of 2 x 3 bytes | exclusion, slot count, nobody waits for ever |
| `queue_split_request` | as the first | **violated**: a split request is not put together again |
| `queue_own_back` | 2 clients, 1 line each | **violated**: the second client's request is not found |
| `search` | 2 entries of up to 2 and 1 lines, buffer of 2 | soundness and order of the output; refinement of `FifoChannel`; without the race, completeness, termination, and the printer leaves only after every dummy item |
| `search_hang` | 1 entry, 1 line, buffer of 1 | **violated**: the process may never end |
| `server_life` | 2 clients with 2 and 1 lines, the second may be killed, ring of 1 x 3 bytes, `exit` of 1 character, restarts | usable while it is up; slots conserved; removed after every search; only a client that died with a slot stops the others; `exit` is the last request of a server |
| `dirlist` | trees of 5 paths of every kind (an unreadable file is a file to `dirlist`) | the list is whole and ordered, the file is the listing; termination, and success where `stat()` and `opendir()` succeed |
| `pardirlist` | trees of 4 paths, two texts, a buffer of 3 characters, both values of `<ispar>` | listing, frequencies, threads and freed nodes, termination; `frequency` is right for every text of up to 6 characters whose lines fit (an assumption TLC evaluates) |
| `fsa` | 2 direct blocks and an indirect one, blocks of 2 units, addresses modulo 64, disks and command lines of `MCFsa` | nothing but entries is read; the whole tree once, the text of a file, termination |
| `fsa_exact` | as before | **violated**: a file with zeros or a full block is not printed as stored |
| `fsa_types` | as before | **violated**: entries that are neither files nor directories are listed |

Bounds. Five lines on a ring of eight bytes wrap around it more than once and
put the end of a request at every offset, including exactly at the end of the ring with and
without its NUL. Two clients are enough for every pair of processes to meet in
the critical section. Two files give 0, 1 or 2 workers, the three cases in
which the test `threadcount != 1` behaves differently; up to two lines in one file and
one in the other, with their dummy items, make a buffer of two wrap and fill.

A queue of one slot is where a lost slot blocks at once; a first request of two
characters fills its ring, so that `exit` follows without being split. Five paths are
enough for three levels with two entries in the deepest two, in every order of the
paths, so that the sort moves a node over others and stops behind an equal level.

The second client is the one that may be killed, so that the first has a line to send
before, beside and after it. A restart needs an exit request and a failed fork; with three
requests there is one before, and one after it. The disks of `fsa` have nested directories,
entries that span units, deleted and hidden entries, a directory in another group whose inode
reads as one that leads to the root's block, to text, to zeros, behind the disk or nowhere (in a
stack of three calls, one more than the first group's directories need), files
with holes and with content up to the last indirect block, and blocks on both sides of
half the address range; their blocks are small, since every loop treats its rounds alike.

Deadlock is not checked: clients, searches, the server and the listings really end.

Fairness is weak fairness of every client, of the server, of every child
that does not hang, of every thread and of `fsa`: each is
a kernel-scheduled process or thread, and a process that stays runnable is run in the
end. The spinning main thread is one of them. No fairness is assumed between
waiters of a semaphore: the number of requests is finite, so no one can
overtake for ever. Killing a client and starting a server again are not fair: they need
not happen.

## Proofs

The first part of `SearchServerProofs` is about the queue alone, and proves, for every
finite set of clients, every queue size, every line size of at least two and every set of
line lengths that fits a line:

* `TypeCorrect` and `MutexExcludes`, from the inductive invariant `SafeInv`: types,
  exclusion, the byte behind the ring is NUL (else `strlen()` has nothing to
  find), a client in `enqueue()` has a request, a free mutex is held by nobody;
* `SlotsAlways`: `/empty`, `/full` and the slots processes hold add up to the queue size;
* `NeverReassembles`: the second branch of `dequeue()` never runs, the cause of
  the finding on split requests.

It proves for one client, and every queue size, line size and set of
lengths:

* `NothingOverwritten`: a request in flight is never overwritten;
* `InOrderUntilSplit`: requests arrive in order and intact up to the first split one;
* `CopiesFit`: what `dequeue()` copies fits `request_buffer`, split requests included.

The first two are not inductive. `OrderInv` adds where the requests lie: they follow one another in
the sequence of all bytes ever written (`Layout`), `back` is the end of the last one
modulo the ring (`BackFollows`), as many are in flight as the semaphores say
(`Counted`), and up to the first split request `front` is where the next one starts
(`FrontFollows`). Since at most `QueueSize` requests of at most `LineSize` bytes are in
flight or being written, their cells are distinct modulo the ring (`ModDistinct`), so
that a write touches none of the others.

`CopiesFit` cannot rest on where the requests are: behind a split request `front` is anywhere.
`FitsInv` says instead that from every byte of the ring a NUL is less than a line away
(`NulNear`), and that the byte before `back` is one (`Terminated`): a request brings its own
NUL, and what it overwrites lies behind the NUL of the request before it. With several
clients, which do not share `back`, this is lost.

The second part of `SearchServerProofs` is about the life cycle, and proves, under the
same assumptions and with faults, kills, failing forks and restarts:

* `SlotsThroughRestart`, `ExclusionThroughRestart`: for the queue, every step of the life
  cycle is a step of `RequestQueue` or leaves the semaphores and the ring alone
  (`LifeStepOnQueue`), so that the lemmas above carry over;
* `ExitStaysLast`, from `LastInv`: where the server is tells whether it has an exit
  request, none before the copy, at most the one it is about to test after it;
* `QueueRemovedLast`, from `ReapInv`: every `wait()` reaped a child of its own unless none
  is left, and there are at most `process_count` children, so that as many calls of
  `wait()` as of `fork()` leave none (`WaitedForAll`);
* `UpStaysUsable`, from `UpInv`: until the queue is being removed, a client that met a
  server in its loop has every semaphore it asked for;
* `LifeTypes`: the types of the life cycle, and `wait()` is not called more often than `fork()`.

`SearchProcessProofs` proves `BufferRefinesChannel` for every finite directory, every
`<buffersize>` and every length of the files: `SearchProcess` implements `FifoChannel`. The
inductive invariant `BufferInv` says that the mutex excludes any two threads (`Exclusive`),
that the semaphores and the threads between them account for every slot (`SlotsCounted`),
that `buffer_filler` is where the items end (`FillerFollows`), and that a thread not yet
started holds nothing (`Startup`). Every step then leaves the items alone (`Still`), puts one
into a cell not in use (`PutsItem`) or takes the oldest (`TakesItem`).

The module proves `OutputIsSound` from it. `SoundOutput` says nothing of the
items on their way, so `StreamInv` takes the output, the printer's item and the buffer for
one stream (`Stream`): each of its items is a dummy or a line with the keyword that its
worker has read before the one it holds (`Accounted`), and the items of a file are in order.
`BufferFill` appends to the stream, `BufferGet` and `PrintItem` move an item within it.
TLC has evaluated `BufferInv` and `StreamInv` on the instance of `search`.

`SearchProcessComplete` proves `SearchTypes`, `PrinterLeavesLast` and `OutputIsComplete`, the
last two as long as the printer was counted when it first read `threadcount` (not `raced`).
`PrinterLeavesLast` says that every worker has posted its dummy item, and not that it is gone.
`CompleteInv` adds to the invariants above:

* what `threadcount` counts (`ThreadsCounted`): the workers whose dummy item is still to come,
  the dummy items in the buffer, the one that the printer has taken and not subtracted yet, and
  the printer; and that no update of it is lost, since the main thread counts only while
  the printer has not passed its first test;
* that behind every item in the buffer there is a dummy item, or its worker is still to put one
  (`DummyBehind`), so that a `threadcount` of 1 means an empty buffer;
* that every line with the keyword that was read is written, with the printer, in the buffer or
  with its worker (`Collected`), and that a worker comes to its dummy item behind the end of its
  file (`FilesRead`).

`DirListProofs` proves `ListTypes`, `ListIsLinked`, `ListIsOrdered` and `ListingIsRight` for every
number of paths, every tree and every order of `readdir()`. A list is described by a rank of the
paths: `Linked(L, S, r)` says that `L` holds the nodes of `S` in the order of `r`, `next` and
`prev` alike. The inductive invariant `ListInv` says, phase by phase, which nodes and which rank
these are. While the tree is read: the rank is the path, and an entry of a directory in the list
is in the list, hidden or still to be read by a call on the stack (`StackInv`), so that all
entries are there at the end. In the sort: by level and path up to `fi`, by path from `fi` on
(`ByLevel`), so that a round moves one node to its place and the last round leaves the final
order. While it prints: the node in hand is the one behind the last line (`PrintInv`), and
the lines so far are a beginning of the listing (`Written`). What one insertion and one round of
the sort do to a list in such an order is shown in `DirListLemmas`.

`ParDirListProofs` proves `FrequencyIsOccurrences` for every keyword, buffer size and text whose
lines fit the buffer: no word is cut by the end of a piece, so that the counts of the pieces
add up to the words of the text. It then proves `ParListingIsRight`, `FrequenciesAreRight` and
`ThreadsEndFirst`. For the list, a step of `pardirlist` is one of `dirlist`, ends the process or
does nothing (`ParListStep`), so `ListInv` carries over. `ParInv` adds that a file in the list has
its count or a thread that will store it (`NodeInv`), that the threads of the printed lines have
ended (`JoinInv`), and that these lines have the right count (`PrintedInv`).

`FsaProofs` proves `FsaTypes` and `EntriesOnly` for every disk that satisfies `DisksAssumption`, every
command line, every number of direct blocks and every block size. `ReadsEntries` says where a
call is, and not why the next step from there is right. `FsaInv` adds that every call of
`read_directory()` whose inode, like those of the calls above it, is in the first group
(`FirstGroup`, `AllIn`) has blocks that are those of directories, and that, inside a block, it is
where an entry begins and its limit is not behind the end of the block (`InDirectory`, `Placed`).
The length of an entry then leads to the next one or to the limit (`EntryRead`), a directory of the
first group found there has its blocks among those of directories (`CallBegins`), and an address that
is not negative is the beginning of its block although it was computed modulo 2^32 (`BlockEntered`).
Of the other calls only the types are kept, whatever they read (`AnythingRead`).
The calls below the innermost one stay as they are, so a return finds them where they were.
TLC has evaluated `FsaInv` on a part of the disks of `MCFsa`.

TLC has evaluated `FitsInv`, `CompleteInv`, `ListInv` and `ParInv` on the instances of the runs, but
for `Whole`, which says that some rank orders the list and ranges over all of them. The
recursive functions of the models (`Walk`, `Back`, `Depths`, `Chain`, `CountFrom`) are used in
the proofs through the equation that defines them; where a fact about all arguments is
needed it is shown by a least or greatest counterexample (`ArithmeticLemmas`).

The proofs assume of the constants what the modules state: positive sizes, lines that fit
a line of the queue (`LineSize` includes the NUL), a finite set of clients or entries, texts that
have a length, a keyword that is not empty, a buffer of at least two characters, disks as
`DisksAssumption` has them, and an address range that two blocks divide (both are powers of two).

Model-checked only:

* liveness (`AllServed`, `SearchEndsUnlessRaced`, `ServerStops`, `ClientsEnd`, `ListingEnds`, ...): the
  prover does not handle fairness;
* `TraverseEntire`: `Tree` is defined level by level, and that the recursive calls of
  `read_directory()` list it is an induction over the levels of the disk;
* `TextPrinted`: that leaving out what comes from behind the buffer (`SelectSeq`) distributes over the
  blocks printed so far is an induction over the output.

## What the checks say about the code

The semaphores of both buffers are right, and with one client and requests
that do not run past the end of the ring the queue is a FIFO queue. `dirlist` and
`pardirlist` write the listing they should in every order of the directory, and `fsa`
lists the whole tree of a disk of files and directories whose inodes are in the first group. Five
disagreements with the comments and documents are recorded in `PROJECT.json`:
split requests, several clients (whose requests, an `exit` too, overwrite each other), the
uncounted printer (a hang), content that `fsa` does not print as it is stored, and entries of
other types that it lists.

Two more have no run of their own. The printer waits for the dummy items of the workers and not
for the workers (`WorkerExit` may come later, and by the race even the dummy items may), against
`server.c:278-279` ("this will also wait for all worker threads to close"). File names are
used after `readdir()` or `closedir()` has taken their memory back.

## Not modelled

* Several search processes on one output file. The `fcntl()` call at `server.c:311` asks for
  an invalid lock type and fails without effect; whole lines then rest on the kernel's
  atomic append of one `write()`, which a model could only assume.
* The digits of line numbers, the names that lines are printed under, the layout and the
  length of path strings (`tmp[255]` in `dirlist` and `pardirlist`), buffers that are one byte
  short, and lines longer than the search's buffer, which `SearchProcess` takes for
  several lines as `fgets()` does.
* Allocation failures, errors of `mmap()`, errors of `pthread_create()` in the server,
  symbolic links that make the tree of `dirlist` infinite.
* The superblock of `fsa` beyond being read or not: the group descriptors are taken to be
  where the code looks for them.
* A server killed from outside. It would leave a slot or the mutex taken like a killed
  client, and the code has nothing for it.
* `src/dirlist/BlackBoxTesting`: a copy of `dirlist.c` and the directories it is run over,
  among them the Linux kernel sources. They are most of the repository's lines, and
  nothing of these programs.
