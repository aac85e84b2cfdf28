-------------------------------- MODULE Fsa --------------------------------
(***************************************************************************)
(* fsa (fsa/fsa.c): lists the paths of an ext2 disk image and prints the   *)
(* content of one of its files.                                            *)
(*                                                                         *)
(* The unit of an address is four bytes, the size of a block number.  What *)
(* a unit of a block holds is a directory entry that begins there, a block *)
(* number, or text; a name is the number of its entry in the directory,    *)
(* and a path the sequence of its names.  Addresses are unsigned 32-bit    *)
(* products that the code keeps in an int: Word stands for 2^32.           *)
(***************************************************************************)
EXTENDS Integers, Sequences, FiniteSets

CONSTANTS
  Direct,      \* direct blocks of an inode, 12
  BlockSize,   \* units in a block
  Word,        \* addresses are modulo this
  Disks,       \* the disk images
  Arguments,   \* the command lines
  MaxDepth,    \* calls of read_directory() that the stack of the process has room for
  NUL,         \* a unit of zeros
  Garbage      \* a unit that is inside an entry or behind a buffer or the disk

ASSUME DirectAssumption == Direct \in Nat \ {0}
ASSUME BlockSizeAssumption == BlockSize \in Nat \ {0}
ASSUME WordAssumption == Word \in Nat \ {0} /\ Word % (2 * BlockSize) = 0
ASSUME MaxDepthAssumption == MaxDepth \in Nat \ {0}

(* What a disk image is.  Block numbers are those of a disk below 2^32 bytes. *)
Root == 2
Numbers == {b \in Nat : b * BlockSize < Word}

Entries == [inode : Nat, type : {"file", "dir", "other"}, dot : BOOLEAN, name : Nat, rec_len : Nat]

\* The direct blocks of an inode of the first block group, whose table is read.
DirectBlocks(d, n) == {d.inode[n][k] : k \in 0..(Direct - 1)} \ {0}

\* The entries of a directory block begin at the units T: the length of each leads to the
\* next one or to the end of the block.  Zeros lead nowhere.
EntriesAt(s, T) ==
  /\ 0 \in T
  /\ \A o \in T : s[o] # NUL => s[o] \in Entries /\ o + s[o].rec_len \in T \cup {BlockSize}

\* The directories below block b of a directory that are in the first group have all their
\* blocks in B.
LeadsInto(d, b, T, B) ==
  \A o \in T : d.block[b][o] # NUL =>
    LET e == d.block[b][o]
    IN  e.type = "dir" /\ ~ e.dot /\ e.inode \in 1..d.inodes => DirectBlocks(d, e.inode) \subseteq B

\* The blocks B hold directories: the root, and all those with an entry in B.
DirectoriesIn(d, B) ==
  /\ Root \in 1..d.inodes => DirectBlocks(d, Root) \subseteq B
  /\ \A b \in B : \E T \in SUBSET (0..(BlockSize - 1)) :
       EntriesAt(d.block[b], T) /\ LeadsInto(d, b, T, B)

\* Any data may be read as an inode (behind) or as an entry (noise).
ASSUME DisksAssumption ==
  \A d \in Disks :
    /\ \A n \in 1..d.inodes : d.inode[n] \in [0..Direct -> Numbers]
    /\ \A f \in d.behind : f \in [0..Direct -> Nat]
    /\ \A e \in d.noise : e \in Entries
    /\ \E B \in SUBSET (DOMAIN d.block) : DirectoriesIn(d, B)
ASSUME ArgumentsAssumption == \A a \in Arguments : Len(a) \in Nat

VARIABLES
  disk,           \* the disk image, which fsa only reads
  args,           \* the arguments behind the disk's name: what each is as an option and as a path
  argi,           \* arguments parsed so far
  flags,          \* arg_flags: the tasks to do
  absolute_path,  \* the operand of -file
  phase,          \* what the program is doing
  stack,          \* the calls of read_directory(), or the file being printed
  list,           \* struct inode_list, from head to tail
  listing,        \* the paths printed
  output          \* the file content printed

vars == <<disk, args, argi, flags, absolute_path, phase, stack, list, listing, output>>

NoPath == <<-1>>    \* NULL

\* A product of unsigned ints, stored in an int.
ToInt(n) == LET w == n % Word IN IF w < Word \div 2 THEN w ELSE w - Word

Address(b) == ToInt(b * BlockSize)
At(a) == IF a \div BlockSize \in DOMAIN disk.block
         THEN disk.block[a \div BlockSize][a % BlockSize] ELSE Garbage

\* The entry that is read at an address: zeros are an entry of no inode and no length;
\* where no entry begins it is whatever the data makes of it.
dirents(a) ==
  IF At(a) = NUL THEN {[inode |-> 0, type |-> "none", dot |-> FALSE, name |-> 0, rec_len |-> 0]}
  ELSE IF At(a) \in Entries THEN {At(a)} ELSE disk.noise

\* The block number that is read at an address.
data_block_numbers(a) ==
  IF At(a) = NUL THEN {0} ELSE IF At(a) \in Nat THEN {At(a)} ELSE {f[0] : f \in disk.behind}

\* The block numbers that are read for an inode.  The inodes of the other groups are looked
\* for behind the table of the first one, where any data is.
read_inode(n) == IF n \in 1..disk.inodes THEN {disk.inode[n]} ELSE disk.behind

\* A call that goes through the blocks of an inode, before its first block.
CallsFor(n, path) ==
  {[inode |-> n, i_block |-> b, path |-> path, i |-> 0, index |-> 0, limit |-> 0] : b \in read_inode(n)}

create_node(n, path) == [inode |-> n, path |-> path]
insert_tail(node) == list' = Append(list, node)
destroy_list == list' = <<>>

InBlock(f) == f.index < f.limit

\* Mutation: the limit is one unit short.
EnterBlockShort(f, b) == [f EXCEPT !.index = Address(b), !.limit = ToInt(Address(b) + BlockSize - 1)]

EnterBlock(f, b) == [f EXCEPT !.index = Address(b), !.limit = ToInt(Address(b) + BlockSize)]

HasNextBlock(f) == f.i < Direct

\* Without a disk's name (argc < 2) the program has failed already.
Init ==
  /\ disk \in Disks
  /\ args \in Arguments
  /\ argi = 0
  /\ flags = {}
  /\ absolute_path = NoPath
  /\ phase = "arguments" \/ (phase = "failed" /\ args = <<>>)
  /\ stack = <<>>
  /\ list = <<>>
  /\ listing = <<>>
  /\ output = <<>>

-----------------------------------------------------------------------------
(* main() and disk_analyze().                                              *)

\* -file takes the next argument, or the NULL behind the last one, as its operand;
\* a second -file is invalid.
ParseArgument ==
  /\ phase = "arguments" /\ argi < Len(args)
  /\ \/ /\ args[argi + 1].option = "-traverse"
        /\ flags' = flags \cup {"traverse"}
        /\ argi' = argi + 1
        /\ UNCHANGED <<absolute_path, phase>>
     \/ /\ args[argi + 1].option = "-file" /\ "file" \notin flags
        /\ flags' = flags \cup {"file"}
        /\ argi' = argi + 2
        /\ absolute_path' = IF argi + 2 <= Len(args) THEN args[argi + 2].path ELSE NoPath
        /\ UNCHANGED phase
     \/ /\ args[argi + 1].option # "-traverse"
        /\ args[argi + 1].option = "-file" => "file" \in flags
        /\ phase' = "failed"
        /\ UNCHANGED <<flags, argi, absolute_path>>
  /\ UNCHANGED <<disk, args, stack, list, listing, output>>

\* open() and the reads of the superblock and the first group descriptor.
OpenDisk ==
  /\ phase = "arguments" /\ argi >= Len(args)
  /\ phase' \in {"task", "failed"}
  /\ UNCHANGED <<disk, args, argi, flags, absolute_path, stack, list, listing, output>>

\* populate_list(), which both tasks begin with.
StartTask ==
  /\ phase = "task" /\ flags # {}
  /\ phase' = "populate"
  /\ \E c \in CallsFor(Root, <<>>) : stack' = <<c>>
  /\ UNCHANGED <<disk, args, argi, flags, absolute_path, list, listing, output>>

NoTaskLeft ==
  /\ phase = "task" /\ flags = {}
  /\ phase' = "done"
  /\ UNCHANGED <<disk, args, argi, flags, absolute_path, stack, list, listing, output>>

-----------------------------------------------------------------------------
(* read_directory() and populate_list().                                   *)

Top == stack[Len(stack)]
Callers == SubSeq(stack, 1, Len(stack) - 1)
Reading(p) == phase = p /\ stack # <<>>
SetTop(f) == stack' = [stack EXCEPT ![Len(stack)] = f]

\* for (int i = 0; i < 12; i++): the next block, unless its number is 0.
NextBlock ==
  LET f == Top
      g == [f EXCEPT !.i = @ + 1]
  IN  /\ Reading("populate") /\ ~ InBlock(f) /\ HasNextBlock(f)
      /\ SetTop(IF f.i_block[f.i] # 0 THEN EnterBlock(g, f.i_block[f.i]) ELSE g)
      /\ UNCHANGED <<disk, args, argi, flags, absolute_path, phase, list, listing, output>>

\* The entries that are skipped.
Skipped(e) == e.dot \/ e.inode = 0

\* Mutation: a skipped entry is not stepped over.
AdvanceUnlessSkipped(f, e) == IF Skipped(e) THEN f ELSE [f EXCEPT !.index = @ + e.rec_len]

\* Mutation: every entry is taken to have the smallest length.
AdvanceBySmallest(f, e) == [f EXCEPT !.index = @ + 1]

\* The step to the next entry.
Advance(f, e) == [f EXCEPT !.index = @ + e.rec_len]

\* An entry is added to the list before its directory is read.  Directories that lead to
\* each other without end, as those read from other data may, overflow the stack.
ReadEntry ==
  LET f == Top
  IN  /\ Reading("populate") /\ InBlock(f) /\ f.index >= 0
      /\ \E e \in dirents(f.index) :
           LET g == Advance(f, e)
               path == Append(f.path, e.name)
           IN  \/ Skipped(e) /\ SetTop(g) /\ UNCHANGED <<phase, list>>
               \/ /\ ~ Skipped(e) /\ insert_tail(create_node(e.inode, path))
                  /\ \/ e.type # "dir" /\ SetTop(g) /\ UNCHANGED phase
                     \/ /\ e.type = "dir" /\ Len(stack) < MaxDepth
                        /\ \E c \in CallsFor(e.inode, path) :
                             stack' = Append([stack EXCEPT ![Len(stack)] = g], c)
                        /\ UNCHANGED phase
                     \/ /\ e.type = "dir" /\ Len(stack) >= MaxDepth
                        /\ phase' = "crashed" /\ UNCHANGED stack
      /\ UNCHANGED <<disk, args, argi, flags, absolute_path, listing, output>>

\* lseek() to a negative address: exit(1).
SeekFails ==
  /\ Reading(phase) /\ phase \in {"populate", "indirect"}
  /\ InBlock(Top) /\ Top.index < 0
  /\ phase' = "failed"
  /\ UNCHANGED <<disk, args, argi, flags, absolute_path, stack, list, listing, output>>

\* The return of read_directory(); behind the first call "/" is added.
ReturnFromDirectory ==
  /\ Reading("populate") /\ ~ InBlock(Top) /\ ~ HasNextBlock(Top)
  /\ stack' = Callers
  /\ IF Len(stack) > 1
     THEN UNCHANGED <<phase, list>>
     ELSE /\ insert_tail(create_node(Root, <<>>))
          /\ phase' = IF "traverse" \in flags THEN "print_list" ELSE "search"
  /\ UNCHANGED <<disk, args, argi, flags, absolute_path, listing, output>>

print_list == listing' = [i \in 1..Len(list) |-> list[i].path]

\* The end of print_disk(), behind populate_list().
print_disk ==
  /\ phase = "print_list"
  /\ print_list
  /\ destroy_list
  /\ flags' = flags \ {"traverse"}
  /\ phase' = "task"
  /\ UNCHANGED <<disk, args, argi, absolute_path, stack, output>>

-----------------------------------------------------------------------------
(* print_file().                                                           *)

\* Mutation: the list is not destroyed.
FileEndsKeepsList == phase' = "task" /\ flags' = flags \ {"file"} /\ UNCHANGED list /\ stack' = <<>>

\* The end of print_file(): destroy_list().
FileEnds == phase' = "task" /\ flags' = flags \ {"file"} /\ destroy_list /\ stack' = <<>>

\* search_by_path(), the first node with the path; strcmp() of NULL faults.
search_by_path ==
  LET found == {i \in 1..Len(list) : list[i].path = absolute_path}
  IN  /\ phase = "search"
      /\ \/ /\ absolute_path = NoPath
            /\ phase' = "crashed"
            /\ UNCHANGED <<flags, list, stack>>
         \/ absolute_path # NoPath /\ found = {} /\ FileEnds
         \/ /\ absolute_path # NoPath
            /\ \E i \in found :
                 /\ \A j \in found : i <= j
                 /\ \E c \in CallsFor(list[i].inode, list[i].path) : stack' = <<c>>
            /\ phase' = "direct"
            /\ UNCHANGED <<flags, list>>
      /\ UNCHANGED <<disk, args, argi, absolute_path, listing, output>>

\* Mutation: room for a terminator is taken from the block.
LineBufferShort(a) == [k \in 1..(BlockSize - 1) |-> At(a + k - 1)]

\* The block at an address, read into line_buffer.
LineBuffer(a) == [k \in 1..BlockSize |-> At(a + k - 1)]

\* printf("%s") of a block: what precedes the first zero.  A block without one is
\* printed on beyond the buffer, which has no room for a terminator.
Printed(a) ==
  LET s == LineBuffer(a)
      nul == {k \in 1..Len(s) : s[k] = NUL}
  IN  IF nul = {} THEN {s, Append(s, Garbage)}
                  ELSE {SubSeq(s, 1, k - 1) : k \in {k \in nul : \A j \in nul : k <= j}}

\* Either the block is printed, with f the new state of print_file(), or lseek()
\* fails; block 0 is a hole and skipped.
print_file_contents(b, f) ==
  \/ b = 0 /\ SetTop(f) /\ UNCHANGED <<output, phase>>
  \/ /\ b # 0 /\ Address(b) >= 0
     /\ \E s \in Printed(Address(b)) : output' = output \o s
     /\ SetTop(f)
     /\ UNCHANGED phase
  \/ b # 0 /\ Address(b) < 0 /\ phase' = "failed" /\ UNCHANGED <<output, stack>>

PrintDirect ==
  LET f == Top
  IN  /\ Reading("direct") /\ HasNextBlock(f)
      /\ print_file_contents(f.i_block[f.i], [f EXCEPT !.i = @ + 1])
      /\ UNCHANGED <<disk, args, argi, flags, absolute_path, list, listing>>

EnterIndirect ==
  LET f == Top
  IN  /\ Reading("direct") /\ ~ HasNextBlock(f)
      /\ IF f.i_block[Direct] = 0
         THEN FileEnds
         ELSE /\ phase' = "indirect"
              /\ SetTop(EnterBlock(f, f.i_block[Direct]))
              /\ UNCHANGED <<flags, list>>
      /\ UNCHANGED <<disk, args, argi, absolute_path, listing, output>>

PrintIndirect ==
  LET f == Top
  IN  /\ Reading("indirect") /\ InBlock(f) /\ f.index >= 0
      /\ \E b \in data_block_numbers(f.index) :
           print_file_contents(b, [f EXCEPT !.index = @ + 1])
      /\ UNCHANGED <<disk, args, argi, flags, absolute_path, list, listing>>

LeaveIndirect ==
  /\ Reading("indirect") /\ ~ InBlock(Top)
  /\ FileEnds
  /\ UNCHANGED <<disk, args, argi, absolute_path, listing, output>>

-----------------------------------------------------------------------------
Next == \/ ParseArgument \/ OpenDisk \/ StartTask \/ NoTaskLeft
        \/ NextBlock \/ ReadEntry \/ SeekFails \/ ReturnFromDirectory \/ print_disk
        \/ search_by_path \/ PrintDirect \/ EnterIndirect \/ PrintIndirect \/ LeaveIndirect

Spec == Init /\ [][Next]_vars

\* The kernel runs the process.
FairSpec == Spec /\ WF_vars(Next)
-----------------------------------------------------------------------------
(* What the disk holds, by the layout of ext2.                             *)

\* The entries in the blocks of a directory; a unit inside an entry is Garbage.
EntriesOf(n) ==
  UNION {{disk.block[b][o] : o \in 0..(BlockSize - 1)} \ {NUL, Garbage} :
           b \in {disk.inode[n][k] : k \in 0..(Direct - 1)} \ {0}}

Within(x) == {[inode |-> e.inode, type |-> e.type, path |-> Append(x.path, e.name)] :
                e \in {e \in EntriesOf(x.inode) : ~ e.dot /\ e.inode # 0}}

\* Everything d levels below the root that is not hidden.
Level[d \in Nat] ==
  IF d = 0 THEN {[inode |-> Root, type |-> "dir", path |-> <<>>]}
  ELSE UNION {Within(x) : x \in {x \in Level[d - 1] : x.type = "dir" /\ x.inode <= disk.inodes}}

Tree == UNION {Level[d] : d \in 0..disk.inodes}

\* What the project's document wants considered: "regular files (EXT2_FT_REG_FILE) and
\* directories (EXT2_FT_DIR)".
Wanted == {x \in Tree : x.type # "other"}

\* The block numbers of a file from its first to its last block, 0 for a hole.
BlocksOf(n) ==
  [k \in 1..(Direct + BlockSize) |->
     IF k <= Direct THEN disk.inode[n][k - 1]
     ELSE IF disk.inode[n][Direct] = 0 THEN 0
     ELSE disk.block[disk.inode[n][Direct]][k - Direct - 1]]

\* The content of a file: i_size units, zeros in a hole.
Stored(n) ==
  [u \in 1..disk.size[n] |->
     LET b == BlocksOf(n)[(u - 1) \div BlockSize + 1]
     IN  IF b = 0 THEN NUL ELSE disk.block[b][(u - 1) % BlockSize]]

\* The disk has the group descriptors where disk_analyze() reads them and every
\* inode in the first group.
InFirstGroup == \A x \in Tree : x.inode <= disk.inodes

\* The disk is smaller than 2^32 bytes and has no block that ends at 2^31.
Small == \A b \in DOMAIN disk.block : b * BlockSize < Word /\ 2 * (b + 1) * BlockSize # Word

-----------------------------------------------------------------------------
(* Properties.                                                             *)

\* Every variable has its type, and a task leaves no list behind.
TypeOK ==
  /\ argi \in 0..(Len(args) + 1)
  /\ flags \subseteq {"traverse", "file"}
  /\ phase \in {"arguments", "task", "populate", "print_list", "search", "direct", "indirect",
                "done", "failed", "crashed"}
  /\ \A i \in 1..Len(stack) : stack[i].i \in 0..Direct /\ stack[i].index \in Int
  /\ \A i \in 1..Len(list) : list[i].inode \in Nat \ {0}
  /\ phase \in {"task", "done"} => stack = <<>> /\ list = <<>>

\* read_directory() reads an entry only where one begins, and in the block it has gone to:
\* the lengths of the entries lead neither into one nor beyond the end of the block.  So it
\* is for a directory whose inode, like those of all the directories above it, is in the
\* first group; for the others any data may have been read as the inode.
ReadsEntries ==
  phase = "populate" =>
    \A k \in 1..Len(stack) :
      LET f == stack[k]
      IN  (\A j \in 1..k : stack[j].inode \in 1..disk.inodes) /\ InBlock(f) /\ f.index >= 0 =>
             /\ f.i > 0 /\ f.index \div BlockSize = f.i_block[f.i - 1]
             /\ At(f.index) \in Entries \cup {NUL}

\* The directory with path p is above what has path q.
Above(p, q) == Len(p) < Len(q) /\ SubSeq(q, 1, Len(p)) = p

Listed == {listing[i] : i \in 1..Len(listing)}

\* On a disk of regular files and directories, -traverse prints the path of everything that
\* is not hidden, once, a directory before what is in it and "/" at the end.  Where an
\* address is 2^31 or more it stops with an error rather than leave something out; the
\* block that ends at 2^31 is passed over in silence, and Small leaves it out.
TraverseEntire ==
  listing # <<>> /\ InFirstGroup /\ Small /\ Wanted = Tree =>
    /\ Listed = {x.path : x \in Wanted}
    /\ Len(listing) = Cardinality(Wanted)
    /\ listing[Len(listing)] = <<>>
    /\ \A i, j \in 1..Len(listing) : i < j => ~ Above(listing[j], listing[i]) \/ listing[j] = <<>>

\* What the project's document says of -traverse: "any other types as well as hidden
\* files/directories starting with a dot (".") should be skipped".
OthersSkipped ==
  listing # <<>> /\ InFirstGroup /\ Small => Listed \subseteq {x.path : x \in Wanted}

Requested == {x \in Tree : x.path = absolute_path}
FileDone == phase = "done" /\ absolute_path # NoPath /\ InFirstGroup /\ Small

\* -file prints the units of a text file in order, from the direct blocks and the
\* single indirect one: although i_size is never looked at, the zeros behind the end
\* stop the printing.  Only what is printed from behind the buffer comes in between.
\* For a path that is not there nothing is printed.
TextPrinted ==
  FileDone =>
    /\ \A x \in Requested :
         x.type = "file" /\ (\A u \in 1..disk.size[x.inode] : Stored(x.inode)[u] # NUL) =>
           SelectSeq(output, LAMBDA u : u # Garbage) = Stored(x.inode)
    /\ Requested = {} => output = <<>>

\* fsa ends: every directory block is left, and the recursion comes to its end.
FsaEnds == InFirstGroup /\ Small => <>(phase \in {"done", "failed", "crashed"})

\* What the project's document says of -file: "prints its content to the screen
\* exactly as it is stored in the file, without changing any character".
ExactContent ==
  FileDone => \A x \in Requested : x.type = "file" => output = Stored(x.inode)
=============================================================================
