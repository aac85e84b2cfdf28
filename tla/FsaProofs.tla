----------------------------- MODULE FsaProofs -----------------------------
(***************************************************************************)
(* Proofs about Fsa, for every disk below 2^32 bytes whose directories of  *)
(* the first group are filled with entries, whatever the other data is,    *)
(* every command line and every size of a block: the types, and that       *)
(* read_directory() reads nothing but entries.                             *)
(***************************************************************************)
EXTENDS Fsa, ArithmeticLemmas

Paths == Seq(Nat)
Calls == [inode : Nat, i_block : [0..Direct -> Nat], path : Paths, i : 0..Direct, index : Int, limit : Int]
ListNodes == [inode : Nat \ {0}, path : Paths]

\* The blocks of the directories of disk d, and where the entries of one begin.
DirBlocks(d) == CHOOSE B \in SUBSET (DOMAIN d.block) : DirectoriesIn(d, B)
Starts(d, b) ==
  CHOOSE T \in SUBSET (0..(BlockSize - 1)) :
    EntriesAt(d.block[b], T) /\ LeadsInto(d, b, T, DirBlocks(d))

\* A call is where an entry of block b begins.
Placed(d, f, b) ==
  /\ b \in DirBlocks(d)
  /\ f.limit <= b * BlockSize + BlockSize
  /\ \E o \in Starts(d, b) : f.index = b * BlockSize + o

\* A call of read_directory(): for a directory, and on its way through the entries.
InDirectory(d, f) ==
  /\ f.i_block \in [0..Direct -> Numbers]
  /\ \A k \in 0..(Direct - 1) : f.i_block[k] \in DirBlocks(d) \cup {0}
  /\ InBlock(f) /\ f.index >= 0 => f.i > 0 /\ Placed(d, f, f.i_block[f.i - 1])

\* The inodes of the first k calls are in the first group.
FirstGroup(d, s, k) == \A j \in 1..k : s[j].inode \in 1..d.inodes

\* Such a call is for a directory.
AllIn(d, s) == \A k \in 1..Len(s) : FirstGroup(d, s, k) => InDirectory(d, s[k])

FsaInv ==
  /\ disk \in Disks /\ args \in Arguments
  /\ argi \in 0..(Len(args) + 1)
  /\ flags \subseteq {"traverse", "file"}
  /\ phase \in {"arguments", "task", "populate", "print_list", "search", "direct", "indirect",
                "done", "failed", "crashed"}
  /\ stack \in Seq(Calls) /\ list \in Seq(ListNodes)
  /\ phase \in {"arguments", "task", "print_list", "search", "done"} => stack = <<>>
  /\ phase \in {"arguments", "task", "done"} => list = <<>>
  /\ phase = "populate" => AllIn(disk, stack)

-----------------------------------------------------------------------------
(* Addresses.                                                              *)

\* A unit of a block is found again from its address.
LEMMA UnitAt ==
  ASSUME NEW b \in Nat, NEW o \in 0..(BlockSize - 1)
  PROVE  (b * BlockSize + o) \div BlockSize = b /\ (b * BlockSize + o) % BlockSize = o
<1> DEFINE a == b * BlockSize + o
           q == a \div BlockSize
<1>1. BlockSize \in Nat /\ BlockSize > 0 /\ b * BlockSize \in Nat /\ b * BlockSize = BlockSize * b
  BY BlockSizeAssumption
<1>2. a \in Nat /\ a = BlockSize * b + o
  BY SMTT(30), <1>1
<1> HIDE DEF a
<1>3. a % BlockSize = o
  BY SMTT(30), <1>1, <1>2, ModUnique
<1>4. q \in Int /\ a = BlockSize * q + o
  BY SMTT(30), <1>1, <1>2, <1>3, DivMod
<1> HIDE DEF q
<1>5. ~ (q < b) /\ ~ (b < q)
  BY SMTT(30), <1>1, <1>2, <1>4, MultiplesApart
<1> QED BY SMTT(30), <1>3, <1>4, <1>5 DEF a, q

\* An address stored in an int is no larger than the product, and is the product when it
\* is not negative and the product is below 2^32.
LEMMA ToIntIs ==
  ASSUME NEW n \in Int
  PROVE  /\ ToInt(n) \in Int
         /\ n >= 0 => ToInt(n) <= n
         /\ n \in 0..(Word - 1) /\ ToInt(n) >= 0 => ToInt(n) = n
<1>1. Word \in Nat /\ Word > 0 /\ Word \div 2 \in Int /\ n % Word \in 0..(Word - 1)
  BY SMTT(30), WordAssumption
<1>2. ASSUME n >= 0 PROVE n % Word <= n
  <2>1. n \div Word \in Int /\ n = Word * (n \div Word) + (n % Word)
    BY SMTT(30), <1>1, <1>2, DivMod
  <2>2. n \div Word < 0 => Word * (n \div Word) + Word <= 0
    BY SMTT(30), <1>1, <2>1, MultiplesApart
  <2>3. n \div Word >= 0 => Word * (n \div Word) >= 0
    BY SMTT(30), <1>1, <2>1
  <2> QED BY SMTT(30), <1>1, <1>2, <2>1, <2>2, <2>3
<1>3. ASSUME n \in 0..(Word - 1) PROVE n % Word = n
  BY ZenonT(40), <1>1, <1>3, ModSmall
<1>4. ToInt(n) \in {n % Word, (n % Word) - Word}
  BY ZenonT(40) DEF ToInt
<1> QED BY SMTT(30), <1>1, <1>2, <1>3, <1>4

\* Going to a block (EnterBlock): the index and the limit are ints.
LEMMA AddressIsInt ==
  ASSUME NEW b \in Nat
  PROVE  Address(b) \in Int /\ ToInt(Address(b) + BlockSize) \in Int
<1>1. BlockSize \in Nat /\ b * BlockSize \in Int
  BY SMTT(30), BlockSizeAssumption
<1>2. Address(b) \in Int
  BY ZenonT(40), <1>1, ToIntIs DEF Address
<1>3. Address(b) + BlockSize \in Int
  BY SMTT(30), <1>1, <1>2
<1> QED BY ZenonT(40), <1>2, <1>3, ToIntIs

\* On a disk below 2^32 bytes, an index that is not negative is the beginning of the block,
\* and the limit is not behind its end.
LEMMA BlockEntered ==
  ASSUME NEW b \in Numbers
  PROVE  Address(b) >= 0 => /\ Address(b) = b * BlockSize + 0
                            /\ ToInt(Address(b) + BlockSize) <= b * BlockSize + BlockSize
<1>1. BlockSize \in Nat /\ b \in Nat /\ b * BlockSize \in Nat /\ b * BlockSize < Word /\ Word \in Nat
  BY SMTT(30), BlockSizeAssumption, WordAssumption DEF Numbers
<1> DEFINE p == b * BlockSize
<1> HIDE DEF p
<1>2. p \in Nat /\ p \in 0..(Word - 1) /\ Address(b) = ToInt(p)
  BY SMTT(30), <1>1 DEF p, Address
<1>3. Address(b) \in Int /\ (Address(b) >= 0 => Address(b) = p)
  BY SMTT(30), <1>2, ToIntIs
<1>4. /\ ToInt(Address(b) + BlockSize) \in Int
      /\ Address(b) + BlockSize >= 0 => ToInt(Address(b) + BlockSize) <= Address(b) + BlockSize
  <2>1. Address(b) + BlockSize \in Int
    BY SMTT(30), <1>1, <1>3
  <2> QED BY ZenonT(40), <2>1, ToIntIs
<1> QED BY SMTT(30), <1>1, <1>2, <1>3, <1>4 DEF p

-----------------------------------------------------------------------------
(* Directories.                                                            *)

\* What is read for an inode are block numbers.
LEMMA InodeRead ==
  ASSUME disk \in Disks, NEW n, NEW b \in read_inode(n)
  PROVE  /\ b \in [0..Direct -> Nat]
         /\ n \in 1..disk.inodes => b = disk.inode[n] /\ b \in [0..Direct -> Numbers]
<1>1. CASE n \in 1..disk.inodes
  <2>1. b = disk.inode[n] /\ b \in [0..Direct -> Numbers]
    BY ZenonT(40), <1>1, DisksAssumption DEF read_inode
  <2> QED BY SMTT(30), <2>1 DEF Numbers
<1>2. CASE n \notin 1..disk.inodes
  BY ZenonT(40), <1>2, DisksAssumption DEF read_inode
<1> QED BY ZenonT(40), <1>1, <1>2

\* The blocks of the directories are filled with entries.
LEMMA DirectoryBlocks ==
  ASSUME disk \in Disks
  PROVE  /\ Root \in 1..disk.inodes => DirectBlocks(disk, Root) \subseteq DirBlocks(disk)
         /\ DirBlocks(disk) \subseteq DOMAIN disk.block
         /\ \A b \in DirBlocks(disk) : /\ Starts(disk, b) \subseteq 0..(BlockSize - 1)
                                       /\ EntriesAt(disk.block[b], Starts(disk, b))
                                       /\ LeadsInto(disk, b, Starts(disk, b), DirBlocks(disk))
<1>1. \E B \in SUBSET (DOMAIN disk.block) : DirectoriesIn(disk, B)
  BY ZenonT(40), DisksAssumption
<1>2. DirectoriesIn(disk, DirBlocks(disk)) /\ DirBlocks(disk) \subseteq DOMAIN disk.block
  BY ZenonT(40), <1>1 DEF DirBlocks
<1>3. ASSUME NEW b \in DirBlocks(disk)
      PROVE  /\ Starts(disk, b) \in SUBSET (0..(BlockSize - 1))
             /\ EntriesAt(disk.block[b], Starts(disk, b)) /\ LeadsInto(disk, b, Starts(disk, b), DirBlocks(disk))
  <2>1. \E T \in SUBSET (0..(BlockSize - 1)) :
           EntriesAt(disk.block[b], T) /\ LeadsInto(disk, b, T, DirBlocks(disk))
    BY ZenonT(40), <1>2 DEF DirectoriesIn
  <2> QED BY ZenonT(40), <2>1 DEF Starts
<1>4. Root \in 1..disk.inodes => DirectBlocks(disk, Root) \subseteq DirBlocks(disk)
  BY ZenonT(40), <1>2 DEF DirectoriesIn
<1> QED BY ZenonT(40), <1>2, <1>3, <1>4

\* A call begins before its first block.
LEMMA CallBegins ==
  ASSUME disk \in Disks, NEW n \in Nat, NEW path \in Paths, NEW f \in CallsFor(n, path)
  PROVE  /\ f \in Calls /\ f.inode = n
         /\ n \in 1..disk.inodes /\ DirectBlocks(disk, n) \subseteq DirBlocks(disk)
              => InDirectory(disk, f)
<1>1. PICK b \in read_inode(n) :
        f = [inode |-> n, i_block |-> b, path |-> path, i |-> 0, index |-> 0, limit |-> 0]
  BY ZenonT(40) DEF CallsFor
<1>2. 0 \in 0..Direct /\ 0 \in Int /\ ~ (0 < 0)
  BY SMTT(30), DirectAssumption
<1>3. b \in [0..Direct -> Nat]
  BY ZenonT(40), InodeRead
<1>4. f \in Calls /\ f.inode = n /\ f.i_block = b /\ ~ InBlock(f)
  BY ZenonT(40), <1>1, <1>2, <1>3 DEF Calls, InBlock
<1>5. ASSUME n \in 1..disk.inodes, DirectBlocks(disk, n) \subseteq DirBlocks(disk)
      PROVE  InDirectory(disk, f)
  <2>1. b = disk.inode[n] /\ b \in [0..Direct -> Numbers]
    BY ZenonT(40), <1>5, InodeRead
  <2> QED BY ZenonT(40), <1>4, <1>5, <2>1 DEF InDirectory, DirectBlocks
<1> QED BY ZenonT(40), <1>4, <1>5

\* i++.
Stepped(f) == [f EXCEPT !.i = @ + 1]

\* The next block of a directory (NextBlock).
LEMMA BlockBegins ==
  ASSUME disk \in Disks, NEW f \in Calls, f.i < Direct, ~ InBlock(f),
         NEW g, g = Stepped(f), NEW b, b = f.i_block[f.i]
  PROVE  /\ g \in Calls /\ EnterBlock(g, b) \in Calls
         /\ g.inode = f.inode /\ EnterBlock(g, b).inode = f.inode
         /\ InDirectory(disk, f) => InDirectory(disk, g)
         /\ InDirectory(disk, f) /\ b # 0 => InDirectory(disk, EnterBlock(g, b))
<1>1. /\ f.i \in 0..(Direct - 1) /\ f.i \in 0..Direct /\ f.i_block \in [0..Direct -> Nat]
      /\ f.i + 1 \in 0..Direct /\ f.i + 1 > 0 /\ (f.i + 1) - 1 = f.i
      /\ f.index \in Int /\ f.limit \in Int
  BY SMTT(30), DirectAssumption DEF Calls
<1>2. b \in Nat
  BY ZenonT(40), <1>1
<1>3. g \in Calls /\ g.inode = f.inode /\ g.i = f.i + 1 /\ g.i_block = f.i_block /\ g.index = f.index /\ g.limit = f.limit
  BY ZenonT(40), <1>1 DEF Calls, Stepped
<1> DEFINE h == EnterBlock(g, b)
           lim == ToInt(Address(b) + BlockSize)
<1>4. Address(b) \in Int /\ lim \in Int
  BY ZenonT(40), <1>2, AddressIsInt
<1> HIDE DEF lim
<1>5. h \in Calls /\ h.inode = f.inode /\ h.i = f.i + 1 /\ h.i_block = f.i_block /\ h.index = Address(b) /\ h.limit = lim
  BY ZenonT(40), <1>3, <1>4 DEF Calls, EnterBlock, lim
<1> HIDE DEF h
<1>6. ASSUME InDirectory(disk, f) PROVE InDirectory(disk, g)
  <2>1. ~ InBlock(g)
    BY ZenonT(40), <1>3 DEF InBlock
  <2> QED BY ZenonT(40), <1>3, <1>6, <2>1 DEF InDirectory
<1>7. ASSUME InDirectory(disk, f), b # 0 PROVE InDirectory(disk, h)
  <2>1. b \in DirBlocks(disk) /\ b \in Numbers
    BY ZenonT(40), <1>1, <1>7 DEF InDirectory
  <2>2. 0 \in Starts(disk, b)
    BY ZenonT(40), <2>1, DirectoryBlocks DEF EntriesAt
  <2>3. h.index >= 0 => Placed(disk, h, b)
    BY ZenonT(40), <1>5, <2>1, <2>2, BlockEntered DEF Placed, lim
  <2>4. h.i > 0 /\ h.i_block[h.i - 1] = b
    BY ZenonT(40), <1>1, <1>5
  <2> QED BY ZenonT(40), <1>5, <1>7, <2>3, <2>4 DEF InDirectory
<1> QED BY ZenonT(40), <1>2, <1>3, <1>5, <1>6, <1>7 DEF h

\* A call in a block is where an entry of a directory begins.
LEMMA EntryBegins ==
  ASSUME disk \in Disks, NEW f \in Calls, InDirectory(disk, f), InBlock(f), f.index >= 0
  PROVE  /\ f.i > 0 /\ f.index \div BlockSize = f.i_block[f.i - 1]
         /\ At(f.index) \in Entries \cup {NUL}
<1> DEFINE b == f.i_block[f.i - 1]
           T == Starts(disk, b)
<1>1. f.i > 0 /\ b \in DirBlocks(disk)
  BY ZenonT(40) DEF InDirectory, Placed
<1>2. PICK o \in T : f.index = b * BlockSize + o
  BY ZenonT(40) DEF InDirectory, Placed
<1>3. T \subseteq 0..(BlockSize - 1) /\ EntriesAt(disk.block[b], T) /\ b \in DOMAIN disk.block
  BY ZenonT(40), <1>1, DirectoryBlocks
<1>4. b \in Nat
  <2>1. f.i - 1 \in 0..Direct
    BY SMTT(30), <1>1, DirectAssumption DEF Calls
  <2>2. f.i_block \in [0..Direct -> Nat]
    BY ZenonT(40) DEF Calls
  <2> QED BY ZenonT(40), <2>1, <2>2
<1> HIDE DEF b, T
<1>5. o \in 0..(BlockSize - 1)
  BY ZenonT(40), <1>2, <1>3
<1>6. At(f.index) = disk.block[b][o] /\ f.index \div BlockSize = b
  BY ZenonT(40), <1>2, <1>3, <1>4, <1>5, UnitAt DEF At
<1>7. disk.block[b][o] \in Entries \cup {NUL}
  BY ZenonT(40), <1>2, <1>3 DEF EntriesAt
<1> QED BY ZenonT(40), <1>1, <1>6, <1>7 DEF b

\* What is read, as an entry or in place of one (dirents).
LEMMA AnythingRead ==
  ASSUME disk \in Disks, NEW f \in Calls, NEW e \in dirents(f.index)
  PROVE  /\ e.inode \in Nat /\ e.name \in Nat /\ e.rec_len \in Nat
         /\ Advance(f, e) \in Calls /\ Advance(f, e).inode = f.inode
<1>1. e.inode \in Nat /\ e.name \in Nat /\ e.rec_len \in Nat
  <2>1. CASE e \in Entries
    BY ZenonT(40), <2>1 DEF Entries
  <2>2. CASE e = [inode |-> 0, type |-> "none", dot |-> FALSE, name |-> 0, rec_len |-> 0]
    BY SMTT(30), <2>2
  <2> QED BY ZenonT(40), <2>1, <2>2, DisksAssumption DEF dirents
<1>2. f.index + e.rec_len \in Int
  BY SMTT(30), <1>1 DEF Calls
<1> QED BY ZenonT(40), <1>1, <1>2 DEF Calls, Advance

\* What is read at an entry, and where the step to the next one leads (Advance).
LEMMA EntryRead ==
  ASSUME disk \in Disks, NEW f \in Calls, InDirectory(disk, f), InBlock(f), f.index >= 0,
         NEW e \in dirents(f.index)
  PROVE  /\ InDirectory(disk, Advance(f, e))
         /\ ~ Skipped(e) /\ e.type = "dir" /\ e.inode \in 1..disk.inodes => DirectBlocks(disk, e.inode) \subseteq DirBlocks(disk)
<1> DEFINE b == f.i_block[f.i - 1]
           T == Starts(disk, b)
<1>1. f.i > 0 /\ b \in DirBlocks(disk) /\ f.limit <= b * BlockSize + BlockSize
  BY ZenonT(40) DEF InDirectory, Placed
<1>2. PICK o \in T : f.index = b * BlockSize + o
  BY ZenonT(40) DEF InDirectory, Placed
<1>3. /\ T \subseteq 0..(BlockSize - 1) /\ EntriesAt(disk.block[b], T) /\ b \in DOMAIN disk.block
      /\ LeadsInto(disk, b, T, DirBlocks(disk))
  BY ZenonT(40), <1>1, DirectoryBlocks
<1>4. b \in Nat
  <2>1. f.i - 1 \in 0..Direct
    BY SMTT(30), <1>1, DirectAssumption DEF Calls
  <2>2. f.i_block \in [0..Direct -> Nat]
    BY ZenonT(40) DEF Calls
  <2> QED BY ZenonT(40), <2>1, <2>2
<1> HIDE DEF b, T
<1>5. o \in 0..(BlockSize - 1)
  BY ZenonT(40), <1>2, <1>3
<1>6. At(f.index) = disk.block[b][o]
  BY ZenonT(40), <1>2, <1>3, <1>4, <1>5, UnitAt DEF At
<1>7. /\ e.rec_len \in Nat /\ o + e.rec_len \in T \cup {BlockSize}
      /\ ~ Skipped(e) /\ e.type = "dir" /\ e.inode \in 1..disk.inodes
           => DirectBlocks(disk, e.inode) \subseteq DirBlocks(disk)
  <2>1. CASE disk.block[b][o] = NUL
    <3>1. e = [inode |-> 0, type |-> "none", dot |-> FALSE, name |-> 0, rec_len |-> 0]
      BY ZenonT(40), <1>6, <2>1 DEF dirents
    <3>2. o + e.rec_len = o
      BY SMTT(30), <3>1, <1>5
    <3> QED BY SMTT(30), <1>2, <3>1, <3>2 DEF Skipped
  <2>2. CASE disk.block[b][o] # NUL
    <3>1. disk.block[b][o] \in Entries /\ o + disk.block[b][o].rec_len \in T \cup {BlockSize}
      BY ZenonT(40), <1>2, <1>3, <2>2 DEF EntriesAt
    <3>2. e = disk.block[b][o]
      BY ZenonT(40), <1>6, <2>2, <3>1 DEF dirents
    <3>3. ~ Skipped(e) /\ e.type = "dir" /\ e.inode \in 1..disk.inodes
            => DirectBlocks(disk, e.inode) \subseteq DirBlocks(disk)
      BY ZenonT(40), <1>2, <1>3, <2>2, <3>2 DEF LeadsInto, Skipped
    <3> QED BY ZenonT(40), <3>1, <3>2, <3>3, AnythingRead
  <2> QED BY ZenonT(40), <2>1, <2>2
<1> DEFINE g == Advance(f, e)
<1>8. /\ g \in Calls /\ g.i = f.i /\ g.i_block = f.i_block /\ g.limit = f.limit
      /\ g.index = f.index + e.rec_len
  <2>1. f.index + e.rec_len \in Int
    BY SMTT(30), <1>7 DEF Calls
  <2> QED BY ZenonT(40), <2>1 DEF Calls, Advance
<1> HIDE DEF g
<1>9. ASSUME InBlock(g) PROVE Placed(disk, g, b)
  <2>1. /\ BlockSize \in Nat /\ b * BlockSize \in Nat /\ g.limit \in Int
        /\ g.index < g.limit /\ g.limit <= b * BlockSize + BlockSize
    BY SMTT(30), <1>1, <1>4, <1>8, <1>9, BlockSizeAssumption DEF InBlock, b, Calls
  <2>2. g.index = b * BlockSize + (o + e.rec_len)
    BY SMTT(30), <1>2, <1>5, <1>7, <1>8, <2>1
  <2>3. o + e.rec_len # BlockSize
    BY SMTT(30), <2>1, <2>2
  <2>4. o + e.rec_len \in T
    BY ZenonT(40), <1>7, <2>3
  <2> QED BY ZenonT(40), <1>1, <2>1, <2>2, <2>4 DEF Placed, b, T
<1>10. InDirectory(disk, g)
  BY ZenonT(40), <1>1, <1>8, <1>9 DEF InDirectory, b
<1> QED BY ZenonT(40), <1>7, <1>8, <1>10 DEF g

-----------------------------------------------------------------------------
(* The stack of calls.                                                     *)

\* The innermost call.
LEMMA TopIs ==
  ASSUME stack \in Seq(Calls), stack # <<>>
  PROVE  Len(stack) \in 1..Len(stack) /\ Top = stack[Len(stack)] /\ Top \in Calls
BY DEF Top

\* A new state of the innermost call (SetTop).
LEMMA TopSet ==
  ASSUME NEW d, NEW s \in Seq(Calls), s # <<>>, NEW g \in Calls, g.inode = s[Len(s)].inode,
         NEW t, t = [s EXCEPT ![Len(s)] = g]
  PROVE  /\ t \in Seq(Calls) /\ Len(t) = Len(s) /\ t # <<>>
         /\ FirstGroup(d, t, Len(t)) => FirstGroup(d, s, Len(s))
         /\ AllIn(d, s) /\ (FirstGroup(d, s, Len(s)) => InDirectory(d, g)) => AllIn(d, t)
<1> DEFINE n == Len(s)
<1>1. t \in Seq(Calls) /\ Len(t) = n /\ t # <<>> /\ n \in Nat
  OBVIOUS
<1>2. \A k \in 1..n : t[k] = IF k = n THEN g ELSE s[k]
  BY SMTT(30), <1>1
<1>3. \A k \in 1..n : t[k].inode = s[k].inode
  BY ZenonT(40), <1>2
<1>4. \A k \in 1..n : \A j \in 1..k : j \in 1..n
  BY SMTT(30), <1>1
<1>5. 1..n \subseteq 1..n
  OBVIOUS
<1> HIDE DEF n
<1>6. ASSUME NEW k \in 1..n, FirstGroup(d, t, k) PROVE FirstGroup(d, s, k)
  BY ZenonT(40), <1>3, <1>4, <1>6 DEF FirstGroup
<1>7. n = Len(s)
  BY DEF n
<1>8. ASSUME AllIn(d, s), FirstGroup(d, s, n) => InDirectory(d, g) PROVE AllIn(d, t)
  <2>1. ASSUME NEW k \in 1..n, FirstGroup(d, t, k) PROVE InDirectory(d, t[k])
    BY ZenonT(40), <1>2, <1>6, <1>7, <1>8, <2>1 DEF AllIn
  <2> QED BY ZenonT(40), <1>1, <2>1 DEF AllIn
<1>9. FirstGroup(d, t, n) => FirstGroup(d, s, n)
  BY ZenonT(40), <1>3 DEF FirstGroup
<1> QED BY ZenonT(40), <1>1, <1>7, <1>8, <1>9

\* A call on top of the others.
LEMMA Called ==
  ASSUME NEW d, NEW s \in Seq(Calls), AllIn(d, s), NEW c \in Calls,
         FirstGroup(d, s, Len(s)) /\ c.inode \in 1..d.inodes => InDirectory(d, c)
  PROVE  Append(s, c) \in Seq(Calls) /\ AllIn(d, Append(s, c))
<1> DEFINE n == Len(s)
           t == Append(s, c)
<1>1. /\ t \in Seq(Calls) /\ Len(t) = n + 1 /\ n \in Nat /\ t[n + 1] = c
      /\ \A k \in 1..n : t[k] = s[k]
  OBVIOUS
<1>2. /\ \A k \in 1..(n + 1) : k \in 1..n \/ k = n + 1
      /\ \A k \in 1..n : \A j \in 1..k : j \in 1..n
      /\ \A j \in 1..n : j \in 1..(n + 1)
      /\ n + 1 \in 1..(n + 1)
  BY SMTT(30), <1>1
<1>3. n = Len(s) /\ t = Append(s, c)
  OBVIOUS
<1> HIDE DEF n, t
<1>4. ASSUME NEW k \in 1..n, FirstGroup(d, t, k) PROVE InDirectory(d, t[k])
  <2>1. FirstGroup(d, s, k)
    BY ZenonT(40), <1>1, <1>2, <1>4 DEF FirstGroup
  <2> QED BY ZenonT(40), <1>1, <1>3, <2>1 DEF AllIn
<1>5. ASSUME FirstGroup(d, t, n + 1) PROVE InDirectory(d, c)
  <2>1. FirstGroup(d, s, n) /\ c.inode \in 1..d.inodes
    BY ZenonT(40), <1>1, <1>2, <1>5 DEF FirstGroup
  <2> QED BY ZenonT(40), <1>3, <2>1
<1>6. AllIn(d, t)
  BY ZenonT(40), <1>1, <1>2, <1>4, <1>5 DEF AllIn
<1> QED BY ZenonT(40), <1>1, <1>3, <1>6

\* The return to the call below (Callers).
LEMMA CallersAre ==
  ASSUME stack \in Seq(Calls), stack # <<>>
  PROVE  /\ Callers \in Seq(Calls) /\ Len(Callers) = Len(stack) - 1
         /\ \A k \in 1..Len(Callers) : k \in 1..Len(stack) /\ Callers[k] = stack[k]
<1> DEFINE n == Len(stack)
<1>1. Callers = SubSeq(stack, 1, n - 1) /\ n \in Nat /\ n >= 1
  BY DEF Callers
<1>2. n = Len(stack)
  BY ZenonT(40)
<1> HIDE DEF n
<1>3. CASE n > 1
  <2>1. SubSeq(stack, 1, n - 1) \in Seq(Calls) /\ Len(SubSeq(stack, 1, n - 1)) = n - 1
    BY SMTT(30), <1>1, <1>2, <1>3
  <2>2. \A k \in 1..(n - 1) : k \in 1..n /\ SubSeq(stack, 1, n - 1)[k] = stack[k]
    BY SMTT(30), <1>1, <1>2, <1>3
  <2> QED BY ZenonT(40), <1>1, <1>2, <2>1, <2>2
<1>4. CASE n = 1
  <2>1. Callers = <<>>
    BY SMTT(30), <1>1, <1>4
  <2> QED BY SMTT(30), <1>2, <1>4, <2>1
<1> QED BY SMTT(30), <1>1, <1>3, <1>4

-----------------------------------------------------------------------------
(* Each action keeps FsaInv.                                               *)

\* The arguments, and disk_analyze() around its tasks.
LEMMA ArgumentsKeep ==
  ASSUME FsaInv, ParseArgument \/ OpenDisk \/ NoTaskLeft
  PROVE  FsaInv'
<1>1. /\ disk' = disk /\ args' = args /\ stack' = <<>> /\ list' = <<>>
      /\ phase' \in {"arguments", "task", "failed", "done"}
  BY ZenonT(40) DEF FsaInv, ParseArgument, OpenDisk, NoTaskLeft
<1>2. argi' \in 0..(Len(args) + 1)
  BY SMTT(30), ArgumentsAssumption DEF FsaInv, ParseArgument, OpenDisk, NoTaskLeft
<1>3. flags' \subseteq {"traverse", "file"}
  BY ZenonT(40) DEF FsaInv, ParseArgument, OpenDisk, NoTaskLeft
<1> QED BY SMTT(30), <1>1, <1>2, <1>3 DEF FsaInv

\* populate_list() begins with the root.
LEMMA StartTaskKeeps ==
  ASSUME FsaInv, StartTask
  PROVE  FsaInv'
<1>1. disk \in Disks /\ <<>> \in Paths /\ <<>> \in Seq(Calls) /\ Root \in Nat
  BY DEF FsaInv, Paths, Root
<1>2. PICK c \in CallsFor(Root, <<>>) : stack' = <<c>>
  BY ZenonT(40) DEF StartTask
<1>3. c \in Calls /\ (c.inode \in 1..disk.inodes => InDirectory(disk, c))
  BY ZenonT(40), <1>1, CallBegins, DirectoryBlocks
<1>4. /\ disk' = disk /\ args' = args /\ argi' = argi /\ flags' = flags /\ list' = list
      /\ phase' = "populate"
  BY ZenonT(40) DEF StartTask
<1>5. AllIn(disk, <<>>) /\ <<c>> = Append(<<>>, c)
  BY SMTT(30) DEF AllIn
<1>6. stack' \in Seq(Calls) /\ AllIn(disk', stack')
  BY ZenonT(40), <1>1, <1>2, <1>3, <1>4, <1>5, Called
<1> QED BY ZenonT(40), <1>4, <1>6 DEF FsaInv

\* The state of a call of read_directory() or print_file() changes.
LEMMA TopKeeps ==
  ASSUME FsaInv, stack # <<>>, NEW g \in Calls, SetTop(g), g.inode = Top.inode,
         phase = "populate" /\ FirstGroup(disk, stack, Len(stack)) => InDirectory(disk, g),
         UNCHANGED <<disk, args, argi, flags>>, list' \in Seq(ListNodes),
         list' = list \/ phase = "populate",
         \/ phase' = phase
         \/ phase = "direct" /\ phase' = "indirect"
  PROVE  FsaInv'
<1>1. stack \in Seq(Calls)
  BY ZenonT(40) DEF FsaInv
<1>2. /\ stack' \in Seq(Calls)
      /\ AllIn(disk, stack) /\ (FirstGroup(disk, stack, Len(stack)) => InDirectory(disk, g))
           => AllIn(disk, stack')
  <2>1. stack' = [stack EXCEPT ![Len(stack)] = g] /\ g.inode = stack[Len(stack)].inode
    BY ZenonT(40) DEF SetTop, Top
  <2> QED BY ZenonT(40), <1>1, <2>1, TopSet
<1>3. ASSUME phase' = "populate" PROVE AllIn(disk', stack')
  <2>1. phase = "populate"
    BY ZenonT(40), <1>3
  <2>2. AllIn(disk, stack)
    BY ZenonT(40), <2>1 DEF FsaInv
  <2> QED BY ZenonT(40), <1>2, <2>1, <2>2
<1>4. phase \notin {"arguments", "task", "print_list", "search", "done"}
  BY ZenonT(40) DEF FsaInv
<1> QED BY ZenonT(40), <1>2, <1>3, <1>4 DEF FsaInv

\* What FsaInv says of the innermost call of read_directory().
LEMMA TopInDirectory ==
  ASSUME FsaInv, stack # <<>>
  PROVE  /\ disk \in Disks /\ stack \in Seq(Calls) /\ list \in Seq(ListNodes) /\ Top \in Calls
         /\ phase = "populate" /\ FirstGroup(disk, stack, Len(stack)) => InDirectory(disk, Top)
<1>1. disk \in Disks /\ stack \in Seq(Calls) /\ list \in Seq(ListNodes) /\ (phase = "populate" => AllIn(disk, stack))
  BY ZenonT(40) DEF FsaInv
<1>2. Len(stack) \in 1..Len(stack) /\ Top = stack[Len(stack)] /\ Top \in Calls
  BY ZenonT(40), <1>1, TopIs
<1> QED BY ZenonT(40), <1>1, <1>2 DEF AllIn

\* The next block of a directory.
LEMMA NextBlockKeeps ==
  ASSUME FsaInv, NextBlock
  PROVE  FsaInv'
<1> DEFINE f == Top
           g == Stepped(f)
           b == f.i_block[f.i]
           h == IF b # 0 THEN EnterBlock(g, b) ELSE g
<1>1. /\ phase = "populate" /\ stack # <<>> /\ ~ InBlock(f) /\ f.i < Direct /\ SetTop(h)
      /\ UNCHANGED <<disk, args, argi, flags, phase, list>>
  BY ZenonT(40) DEF NextBlock, Reading, HasNextBlock, Stepped
<1>2. /\ disk \in Disks /\ list \in Seq(ListNodes) /\ f \in Calls
      /\ FirstGroup(disk, stack, Len(stack)) => InDirectory(disk, f)
  BY ZenonT(40), <1>1, TopInDirectory
<1>3. g = Stepped(f) /\ b = f.i_block[f.i] /\ f = Top
  BY ZenonT(40)
<1> HIDE DEF f, g, b
<1>4. /\ g \in Calls /\ EnterBlock(g, b) \in Calls /\ g.inode = f.inode /\ EnterBlock(g, b).inode = f.inode
      /\ InDirectory(disk, f) => InDirectory(disk, g)
      /\ InDirectory(disk, f) /\ b # 0 => InDirectory(disk, EnterBlock(g, b))
  <2>1. disk \in Disks /\ f \in Calls /\ f.i < Direct /\ ~ InBlock(f)
    BY ZenonT(40), <1>1, <1>2
  <2> QED BY <1>3, <2>1, BlockBegins
<1>5. h \in Calls /\ h.inode = Top.inode /\ (FirstGroup(disk, stack, Len(stack)) => InDirectory(disk, h))
  BY ZenonT(40), <1>2, <1>3, <1>4
<1> HIDE DEF h
<1> QED BY ZenonT(40), <1>1, <1>2, <1>5, TopKeeps

\* lseek() fails.
LEMMA SeekFailsKeeps ==
  ASSUME FsaInv, SeekFails
  PROVE  FsaInv'
BY ZenonT(40) DEF FsaInv, SeekFails

\* A task ends (FileEnds, print_disk).
LEMMA TaskEndsKeeps ==
  ASSUME FsaInv, UNCHANGED <<disk, args, argi>>, flags' \subseteq flags,
         phase' = "task", stack' = <<>>, list' = <<>>
  PROVE  FsaInv'
BY DEF FsaInv

\* A node is added to the list (insert_tail).
LEMMA NodeAdded ==
  ASSUME NEW n \in Nat \ {0}, NEW path \in Paths, list \in Seq(ListNodes),
         insert_tail(create_node(n, path))
  PROVE  list' \in Seq(ListNodes)
<1>1. create_node(n, path) \in ListNodes
  BY ZenonT(40) DEF create_node, ListNodes
<1> QED BY SMTT(30), <1>1 DEF insert_tail

\* A directory is called behind an entry for it.
Calling(g, c) == stack' = Append([stack EXCEPT ![Len(stack)] = g], c)

\* An entry of a directory.
LEMMA ReadEntryKeeps ==
  ASSUME FsaInv, ReadEntry
  PROVE  FsaInv'
<1> DEFINE f == Top
<1>1. phase = "populate" /\ stack # <<>> /\ InBlock(f) /\ f.index >= 0 /\ UNCHANGED <<disk, args, argi, flags>>
  BY ZenonT(40) DEF ReadEntry, Reading
<1>2. PICK e \in dirents(f.index) :
        \/ Skipped(e) /\ SetTop(Advance(f, e)) /\ UNCHANGED <<phase, list>>
        \/ /\ ~ Skipped(e) /\ insert_tail(create_node(e.inode, Append(f.path, e.name)))
           /\ \/ SetTop(Advance(f, e)) /\ UNCHANGED phase
              \/ /\ e.type = "dir" /\ UNCHANGED phase
                 /\ \E c \in CallsFor(e.inode, Append(f.path, e.name)) : Calling(Advance(f, e), c)
              \/ phase' = "crashed" /\ UNCHANGED stack
  BY ZenonT(40) DEF ReadEntry, Calling
<1> DEFINE g == Advance(f, e)
           path == Append(f.path, e.name)
           sound == FirstGroup(disk, stack, Len(stack))
<1>3. /\ disk \in Disks /\ stack \in Seq(Calls) /\ list \in Seq(ListNodes) /\ f \in Calls
      /\ sound => InDirectory(disk, f)
  BY ZenonT(40), <1>1, TopInDirectory
<1>4. f = Top
  OBVIOUS
<1> HIDE DEF f, sound
<1>5. e.inode \in Nat /\ e.name \in Nat /\ g \in Calls /\ g.inode = Top.inode
  BY ZenonT(40), <1>3, <1>4, AnythingRead
<1>6. sound => /\ InDirectory(disk, g)
               /\ ~ Skipped(e) /\ e.type = "dir" /\ e.inode \in 1..disk.inodes
                    => DirectBlocks(disk, e.inode) \subseteq DirBlocks(disk)
  BY ZenonT(40), <1>1, <1>3, EntryRead
<1> HIDE DEF g
<1>7. path \in Paths
  BY SMTT(30), <1>3, <1>5 DEF Calls, Paths
<1> HIDE DEF path
<1>8. ASSUME SetTop(g), phase' = phase, list' \in Seq(ListNodes) PROVE FsaInv'
  BY ZenonT(40), <1>1, <1>5, <1>6, <1>8, TopKeeps DEF sound
<1>9. CASE Skipped(e) /\ SetTop(g) /\ UNCHANGED <<phase, list>>
  BY ZenonT(40), <1>3, <1>8, <1>9
<1>10. CASE ~ Skipped(e) /\ insert_tail(create_node(e.inode, path))
  <2>1. e.inode \in Nat \ {0}
    BY ZenonT(40), <1>5, <1>10 DEF Skipped
  <2>2. list' \in Seq(ListNodes)
    BY ZenonT(40), <1>3, <1>7, <1>10, <2>1, NodeAdded
  <2>3. CASE SetTop(g) /\ UNCHANGED phase
    BY ZenonT(40), <1>8, <2>2, <2>3
  <2>4. CASE phase' = "crashed" /\ UNCHANGED stack
    BY ZenonT(40), <1>1, <2>2, <2>4 DEF FsaInv
  <2>5. ASSUME e.type = "dir", UNCHANGED phase, NEW c \in CallsFor(e.inode, path), Calling(g, c)
        PROVE  FsaInv'
    <3> DEFINE s == [stack EXCEPT ![Len(stack)] = g]
    <3>1. c \in Calls /\ c.inode = e.inode /\ (sound /\ c.inode \in 1..disk.inodes => InDirectory(disk, c))
      BY ZenonT(40), <1>3, <1>5, <1>6, <1>7, <1>10, <2>5, CallBegins
    <3>2. AllIn(disk, stack) /\ g.inode = stack[Len(stack)].inode
      BY ZenonT(40), <1>1, <1>5 DEF FsaInv, Top
    <3>3. s = [stack EXCEPT ![Len(stack)] = g] /\ stack' = Append(s, c)
      BY ZenonT(40), <2>5 DEF Calling
    <3> HIDE DEF s
    <3>4. s \in Seq(Calls) /\ AllIn(disk, s) /\ (FirstGroup(disk, s, Len(s)) => sound)
      BY ZenonT(40), <1>1, <1>3, <1>5, <1>6, <3>2, <3>3, TopSet DEF sound
    <3>5. stack' \in Seq(Calls) /\ AllIn(disk, stack')
      BY ZenonT(40), <3>1, <3>3, <3>4, Called
    <3> QED BY ZenonT(40), <1>1, <2>2, <2>5, <3>5 DEF FsaInv
  <2> QED BY ZenonT(40), <1>2, <1>10, <2>3, <2>4, <2>5 DEF g, path
<1> QED BY ZenonT(40), <1>2, <1>9, <1>10 DEF g, path

\* The return of read_directory().
LEMMA ReturnKeeps ==
  ASSUME FsaInv, ReturnFromDirectory
  PROVE  FsaInv'
<1>1. /\ phase = "populate" /\ stack # <<>> /\ stack' = Callers
      /\ UNCHANGED <<disk, args, argi, flags>>
      /\ \/ Len(stack) > 1 /\ UNCHANGED <<phase, list>>
         \/ /\ ~ (Len(stack) > 1) /\ insert_tail(create_node(Root, <<>>))
            /\ phase' \in {"print_list", "search"}
  BY ZenonT(40) DEF ReturnFromDirectory, Reading
<1>2. /\ stack \in Seq(Calls) /\ list \in Seq(ListNodes)
      /\ AllIn(disk, stack)
  BY ZenonT(40), <1>1 DEF FsaInv
<1>3. /\ stack' \in Seq(Calls) /\ Len(stack') = Len(stack) - 1
      /\ \A k \in 1..Len(stack') : k \in 1..Len(stack) /\ stack'[k] = stack[k]
  BY ZenonT(40), <1>1, <1>2, CallersAre
<1>4. CASE Len(stack) > 1 /\ UNCHANGED <<phase, list>>
  <2>1. \A k \in 1..Len(stack') : \A j \in 1..k : j \in 1..Len(stack')
    BY SMTT(30), <1>3
  <2>2. \A k \in 1..Len(stack') : FirstGroup(disk', stack', k) => FirstGroup(disk, stack, k)
    BY ZenonT(40), <1>1, <1>3, <2>1 DEF FirstGroup
  <2>3. AllIn(disk', stack')
    BY ZenonT(40), <1>1, <1>2, <1>3, <2>2 DEF AllIn
  <2> QED BY ZenonT(40), <1>1, <1>3, <1>4, <2>3 DEF FsaInv
<1>5. CASE /\ ~ (Len(stack) > 1) /\ insert_tail(create_node(Root, <<>>))
           /\ phase' \in {"print_list", "search"}
  <2>1. Root \in Nat \ {0} /\ <<>> \in Paths
    BY DEF Root, Paths
  <2>2. list' \in Seq(ListNodes)
    BY ZenonT(40), <1>2, <1>5, <2>1, NodeAdded
  <2>3. stack' = <<>>
    BY SMTT(30), <1>1, <1>2, <1>3, <1>5
  <2> QED BY ZenonT(40), <1>1, <1>3, <1>5, <2>2, <2>3 DEF FsaInv
<1> QED BY ZenonT(40), <1>1, <1>4, <1>5

\* The end of print_disk().
LEMMA PrintDiskKeeps ==
  ASSUME FsaInv, print_disk
  PROVE  FsaInv'
<1>1. /\ UNCHANGED <<disk, args, argi>> /\ flags' \subseteq flags /\ phase' = "task" /\ list' = <<>>
      /\ stack' = stack /\ phase = "print_list"
  BY ZenonT(40) DEF print_disk, destroy_list
<1>2. stack' = <<>>
  BY ZenonT(40), <1>1 DEF FsaInv
<1> QED BY ZenonT(40), <1>1, <1>2, TaskEndsKeeps

\* The end of print_file().
LEMMA FileEndsKeeps ==
  ASSUME FsaInv, FileEnds, UNCHANGED <<disk, args, argi>>
  PROVE  FsaInv'
BY ZenonT(40), TaskEndsKeeps DEF FileEnds, destroy_list

\* search_by_path().
LEMMA SearchKeeps ==
  ASSUME FsaInv, search_by_path
  PROVE  FsaInv'
<1>1. /\ phase = "search" /\ UNCHANGED <<disk, args, argi>>
      /\ \/ phase' = "crashed" /\ UNCHANGED <<flags, list, stack>>
         \/ FileEnds
         \/ /\ \E i \in 1..Len(list) :
                 \E c \in CallsFor(list[i].inode, list[i].path) : stack' = <<c>>
            /\ phase' = "direct" /\ UNCHANGED <<flags, list>>
  BY ZenonT(40) DEF search_by_path
<1>2. CASE phase' = "crashed" /\ UNCHANGED <<flags, list, stack>>
  BY ZenonT(40), <1>1, <1>2 DEF FsaInv
<1>3. CASE FileEnds
  BY ZenonT(40), <1>1, <1>3, FileEndsKeeps
<1>4. CASE /\ \E i \in 1..Len(list) :
                \E c \in CallsFor(list[i].inode, list[i].path) : stack' = <<c>>
           /\ phase' = "direct" /\ UNCHANGED <<flags, list>>
  <2>1. PICK i \in 1..Len(list) :
               \E c \in CallsFor(list[i].inode, list[i].path) : stack' = <<c>>
    BY ZenonT(40), <1>4
  <2>2. disk \in Disks /\ list[i].path \in Paths /\ list[i].inode \in Nat
    <3>1. disk \in Disks /\ list \in Seq(ListNodes)
      BY ZenonT(40) DEF FsaInv
    <3>2. list[i] \in ListNodes
      BY SMTT(30), <2>1, <3>1
    <3> QED BY ZenonT(40), <3>1, <3>2 DEF ListNodes
  <2>3. PICK c \in CallsFor(list[i].inode, list[i].path) : stack' = <<c>>
    BY ZenonT(40), <2>1
  <2>4. c \in Calls
    BY ZenonT(40), <2>2, CallBegins
  <2>5. stack' \in Seq(Calls)
    BY SMTT(30), <2>3, <2>4
  <2> QED BY ZenonT(40), <1>1, <1>4, <2>5 DEF FsaInv
<1> QED BY ZenonT(40), <1>1, <1>2, <1>3, <1>4

\* A block of a file is printed or not there (print_file_contents).
LEMMA ContentsKeep ==
  ASSUME FsaInv, stack # <<>>, phase # "populate", NEW b, NEW g \in Calls, g.inode = Top.inode,
         print_file_contents(b, g), UNCHANGED <<disk, args, argi, flags, list>>
  PROVE  FsaInv'
<1>1. \/ SetTop(g) /\ phase' = phase
      \/ phase' = "failed" /\ stack' = stack
  BY ZenonT(40) DEF print_file_contents
<1>2. CASE SetTop(g) /\ phase' = phase
  BY ZenonT(40), <1>2, TopInDirectory, TopKeeps
<1>3. CASE phase' = "failed" /\ stack' = stack
  BY ZenonT(40), <1>3 DEF FsaInv
<1> QED BY ZenonT(40), <1>1, <1>2, <1>3

\* A direct block of a file.
LEMMA PrintDirectKeeps ==
  ASSUME FsaInv, PrintDirect
  PROVE  FsaInv'
<1> DEFINE f == Top
<1>1. /\ phase = "direct" /\ stack # <<>> /\ f.i < Direct
      /\ print_file_contents(f.i_block[f.i], Stepped(f))
      /\ UNCHANGED <<disk, args, argi, flags, list>>
  BY ZenonT(40) DEF PrintDirect, Reading, HasNextBlock, Stepped
<1>2. stack \in Seq(Calls)
  BY ZenonT(40) DEF FsaInv
<1>3. f \in Calls /\ f = Top
  BY ZenonT(40), <1>1, <1>2, TopIs
<1> HIDE DEF f
<1>4. Stepped(f) \in Calls /\ Stepped(f).inode = Top.inode
  BY SMTT(30), <1>1, <1>3, DirectAssumption DEF Calls, Stepped
<1>5. phase # "populate"
  BY ZenonT(40), <1>1
<1> QED BY ZenonT(40), <1>1, <1>4, <1>5, ContentsKeep

\* From the direct blocks to the indirect one.
LEMMA EnterIndirectKeeps ==
  ASSUME FsaInv, EnterIndirect
  PROVE  FsaInv'
<1> DEFINE f == Top
           b == f.i_block[Direct]
           g == EnterBlock(f, b)
<1>1. /\ phase = "direct" /\ stack # <<>>
      /\ UNCHANGED <<disk, args, argi>>
      /\ \/ FileEnds
         \/ phase' = "indirect" /\ SetTop(g) /\ UNCHANGED <<flags, list>>
  BY ZenonT(40) DEF EnterIndirect, Reading
<1>2. stack \in Seq(Calls)
  BY ZenonT(40) DEF FsaInv
<1>3. f \in Calls /\ f = Top
  BY ZenonT(40), <1>1, <1>2, TopIs
<1> HIDE DEF f
<1>4. b \in Nat
  BY SMTT(30), <1>3, DirectAssumption DEF Calls
<1>5. g \in Calls /\ g.inode = Top.inode
  <2>1. Address(b) \in Int /\ ToInt(Address(b) + BlockSize) \in Int
    BY ZenonT(40), <1>4, AddressIsInt
  <2> HIDE DEF b
  <2> QED BY ZenonT(40), <1>3, <2>1 DEF EnterBlock, Calls
<1> HIDE DEF g
<1>6. CASE FileEnds
  BY ZenonT(40), <1>1, <1>6, FileEndsKeeps
<1>7. CASE phase' = "indirect" /\ SetTop(g) /\ UNCHANGED <<flags, list>>
  <2>1. phase # "populate"
    BY ZenonT(40), <1>1
  <2> QED BY ZenonT(40), <1>1, <1>5, <1>7, <2>1, TopInDirectory, TopKeeps
<1> QED BY ZenonT(40), <1>1, <1>6, <1>7

\* A block of a file from the indirect one.
LEMMA PrintIndirectKeeps ==
  ASSUME FsaInv, PrintIndirect
  PROVE  FsaInv'
<1> DEFINE f == Top
           g == [f EXCEPT !.index = @ + 1]
<1>1. /\ phase = "indirect" /\ stack # <<>>
      /\ \E b \in data_block_numbers(f.index) : print_file_contents(b, g)
      /\ UNCHANGED <<disk, args, argi, flags, list>>
  BY ZenonT(40) DEF PrintIndirect, Reading
<1>2. stack \in Seq(Calls)
  BY ZenonT(40) DEF FsaInv
<1>3. f \in Calls /\ f = Top
  BY ZenonT(40), <1>1, <1>2, TopIs
<1> HIDE DEF f
<1>4. g \in Calls /\ g.inode = Top.inode
  BY SMTT(30), <1>3 DEF Calls
<1> HIDE DEF g
<1>5. phase # "populate"
  BY ZenonT(40), <1>1
<1> QED BY ZenonT(40), <1>1, <1>4, <1>5, ContentsKeep

\* Behind the last block of a file.
LEMMA LeaveIndirectKeeps ==
  ASSUME FsaInv, LeaveIndirect
  PROVE  FsaInv'
BY ZenonT(40), FileEndsKeeps DEF LeaveIndirect

-----------------------------------------------------------------------------
(* The theorems.                                                           *)

\* FsaInv holds at the start.
LEMMA FsaStarts == Init => FsaInv
BY SMTT(30), ArgumentsAssumption DEF Init, FsaInv

\* Every step keeps FsaInv.
LEMMA FsaKeeps == FsaInv /\ [Next]_vars => FsaInv'
<1> SUFFICES ASSUME FsaInv, [Next]_vars PROVE FsaInv'
  BY ZenonT(40)
<1>1. CASE UNCHANGED vars
  BY ZenonT(40), <1>1 DEF vars, FsaInv
<1>2. CASE Next
  BY ZenonT(40), <1>2, ArgumentsKeep, StartTaskKeeps, NextBlockKeeps, ReadEntryKeeps, SeekFailsKeeps,
     ReturnKeeps, PrintDiskKeeps, SearchKeeps, PrintDirectKeeps, EnterIndirectKeeps,
     PrintIndirectKeeps, LeaveIndirectKeeps DEF Next
<1> QED BY ZenonT(40), <1>1, <1>2

\* The types of TypeOK follow.
LEMMA FsaTyped == FsaInv => TypeOK
<1> SUFFICES ASSUME FsaInv PROVE TypeOK
  BY ZenonT(40)
<1>1. stack \in Seq(Calls) /\ list \in Seq(ListNodes)
  BY ZenonT(40) DEF FsaInv
<1>2. \A i \in 1..Len(stack) : stack[i].i \in 0..Direct /\ stack[i].index \in Int
  <2> TAKE i \in 1..Len(stack)
  <2>1. stack[i] \in Calls
    BY SMTT(30), <1>1
  <2> QED BY ZenonT(40), <2>1 DEF Calls
<1>3. \A i \in 1..Len(list) : list[i].inode \in Nat \ {0}
  <2> TAKE i \in 1..Len(list)
  <2>1. list[i] \in ListNodes
    BY SMTT(30), <1>1
  <2> QED BY ZenonT(40), <2>1 DEF ListNodes
<1> QED BY ZenonT(40), <1>2, <1>3 DEF FsaInv, TypeOK

\* A call on its way through the entries reads one of them.
LEMMA FsaReads == FsaInv => ReadsEntries
<1> SUFFICES ASSUME FsaInv, phase = "populate", NEW k \in 1..Len(stack), NEW f, f = stack[k],
                    FirstGroup(disk, stack, k), InBlock(f), f.index >= 0
             PROVE  /\ f.i > 0 /\ f.index \div BlockSize = f.i_block[f.i - 1]
                    /\ At(f.index) \in Entries \cup {NUL}
  BY ZenonT(40) DEF ReadsEntries, FirstGroup
<1>1. disk \in Disks /\ stack \in Seq(Calls) /\ InDirectory(disk, f)
  BY ZenonT(40) DEF FsaInv, AllIn
<1>2. f \in Calls
  BY SMTT(30), <1>1
<1> QED BY ZenonT(40), <1>1, <1>2, EntryBegins

\* fsa keeps the types of its variables, and leaves no list behind a task.
THEOREM FsaTypes == Spec => []TypeOK
<1>1. Init => FsaInv
  BY ZenonT(40), FsaStarts
<1>2. FsaInv /\ [Next]_vars => FsaInv'
  BY ZenonT(40), FsaKeeps
<1>3. FsaInv => TypeOK
  BY ZenonT(40), FsaTyped
<1> QED BY <1>1, <1>2, <1>3, PTL DEF Spec

\* On every disk whose directories of the first group are filled with entries: for each of
\* those directories read_directory() reads nothing but entries, each in the block it has
\* gone to.  No length leads into an entry or out of the block, wherever the addresses of the
\* disk turn negative, and whatever is read for the directories of other groups in between.
THEOREM EntriesOnly == Spec => []ReadsEntries
<1>1. Init => FsaInv
  BY ZenonT(40), FsaStarts
<1>2. FsaInv /\ [Next]_vars => FsaInv'
  BY ZenonT(40), FsaKeeps
<1>3. FsaInv => ReadsEntries
  BY ZenonT(40), FsaReads
<1> QED BY <1>1, <1>2, <1>3, PTL DEF Spec
=============================================================================
