------------------------------- MODULE MCFsa -------------------------------
(***************************************************************************)
(* Disk images for TLC: inode 2 is the root, 3 a directory, 4 and 5 files. *)
(* Blocks 1 and 2 are the root's, 4 and 5 hold text, 6 is an index block.  *)
(***************************************************************************)
EXTENDS Fsa, TLC

CONSTANTS x, y    \* units of text

Entry(n, t, d, name, len) == [inode |-> n, type |-> t, dot |-> d, name |-> name, rec_len |-> len]

\* What a directory may have at a place: a deleted entry, a hidden directory, a
\* file, an entry of another type.
Leaves(name, len) == {Entry(0, "file", FALSE, name, len), Entry(3, "dir", TRUE, name, len),
                      Entry(4, "file", FALSE, name, len), Entry(5, "other", FALSE, name, len)}
Subdirectory(name, len) == Entry(3, "dir", FALSE, name, len)

Whole(e) == [o \in 0..1 |-> IF o = 0 THEN e ELSE Garbage]
Halves(e, f) == [o \in 0..1 |-> IF o = 0 THEN e ELSE f]
Zeros == [o \in 0..1 |-> NUL]

\* A directory block: one entry, or two of half its size.
LeafBlocks(k) == {Whole(e) : e \in Leaves(k, 2)}
                   \cup {Halves(e, Entry(5, "file", FALSE, k + 1, 1)) : e \in Leaves(k, 1)}
RootBlocks(k) == {Whole(Subdirectory(k, 2))}
                   \cup {Halves(e, Subdirectory(k + 1, 1)) : e \in Leaves(k, 1)}
                   \cup {Halves(Subdirectory(k, 1), e) : e \in Leaves(k + 1, 1)}

Inode(b0, b1, ind) == [k \in 0..2 |-> <<b0, b1, ind>>[k + 1]]

\* Directories: the root has two blocks, or one behind a hole; the directory's block
\* is below 2^31, ends there, or is above it.
DirectoryDisks ==
  {[inodes |-> 5, behind |-> {}, noise |-> {},
    inode |-> <<Inode(0, 0, 0), Inode(r, 2, 0), Inode(d, 0, 0), Inode(4, 0, 0), Inode(5, 0, 0)>>,
    size |-> <<0, 0, 0, 1, 1>>,
    block |-> (0 :> Zeros) @@ (1 :> b1) @@ (2 :> b2) @@ (d :> b3)
              @@ (4 :> Halves(x, NUL)) @@ (5 :> Halves(y, NUL))] :
      r \in {0, 1}, d \in {3, 15, 16},
      b1 \in {Whole(e) : e \in Leaves(1, 2)}, b2 \in RootBlocks(3), b3 \in LeafBlocks(1)}

\* The directory's inode is in the second group, or the group descriptor is not where
\* it is read.  What is read in place of an inode leads to the root's block, to text, to
\* zeros, behind the disk, to a negative address or nowhere; what is read in place of an
\* entry is a file, a directory or skipped.
GroupDisks ==
  {[inodes |-> n,
    behind |-> {Inode(0, 0, 0), Inode(1, 4, 4), Inode(9, 0, 0), Inode(12, 20, 9)},
    noise |-> {Entry(7, "file", FALSE, 8, 2), Entry(7, "dir", FALSE, 9, 1), Entry(0, "other", TRUE, 8, 5)},
    inode |-> <<Inode(0, 0, 0), Inode(1, 0, 0)>>,
    size |-> <<0, 0>>,
    block |-> (0 :> Zeros) @@ (1 :> b1) @@ (4 :> Halves(x, NUL)) @@ (9 :> Zeros)] :
      n \in {0, 2}, b1 \in RootBlocks(1)}

\* Files: of s units, in direct blocks b0 and b1 and in i0 and i1 of the index block,
\* with holes, on blocks below 2^31 or above; the block that ends the file has zeros behind its end.
FileDisks ==
  {[inodes |-> 4, behind |-> {}, noise |-> {},
    inode |-> <<Inode(0, 0, 0), Inode(1, 0, 0), Inode(3, 0, 0), Inode(b0, b1, ind)>>,
    size |-> <<0, 0, 0, s>>,
    block |-> (0 :> Zeros) @@ (1 :> Halves(Subdirectory(1, 1), Entry(4, "file", FALSE, 2, 1)))
              @@ (3 :> Whole(Entry(4, "file", FALSE, 1, 2))) @@ (4 :> Halves(x, y)) @@ (5 :> last)
              @@ (7 :> Halves(y, y)) @@ (8 :> Halves(x, x)) @@ (20 :> Halves(x, x))
              @@ (ind :> Halves(i0, i1))] :
      b0 \in {0, 4, 5}, b1 \in {0, 5, 7, 20}, ind \in {0, 6, 17}, i0 \in {0, 5, 8, 20}, i1 \in {0, 5},
      s \in 0..8, last \in {Halves(y, NUL), Halves(y, x), Halves(NUL, x)}}

\* No block is used twice, and behind i_size there is nothing but the rest of the
\* last block.
ValidFile(d) ==
  LET ind == d.inode[4][2]
      l == <<d.inode[4][0], d.inode[4][1]>>
             \o (IF ind = 0 THEN <<0, 0>> ELSE <<d.block[ind][0], d.block[ind][1]>>)
  IN  /\ \A j, k \in 1..4 : j # k /\ l[j] # 0 => l[j] # l[k]
      /\ \A k \in 1..4 : l[k] # 0 => 2 * k - 1 <= d.size[4]
      /\ \A k \in 1..4 : l[k] # 0 /\ 2 * k > d.size[4] => d.block[l[k]][1] = NUL
      /\ ind # 0 => d.size[4] > 4

MCDisks == DirectoryDisks \cup GroupDisks \cup {d \in FileDisks : ValidFile(d)}

Option(o) == [option |-> o, path |-> <<0>>]
Operand(p) == [option |-> "", path |-> p]

MCArguments ==
  {<<Option("-file"), Operand(<<2>>), Option("-traverse")>>,
   <<Option("-traverse"), Option("-file"), Operand(<<1, 1>>)>>,
   <<Option("-file"), Option("-traverse")>>,
   <<Option("-traverse"), Option("-file")>>,
   <<Option("-file"), Operand(<<1>>), Option("-file"), Operand(<<2>>)>>,
   <<Operand(<<1>>)>>,
   <<>>}
=============================================================================
