---------------------------- MODULE KeywordCount ----------------------------
(***************************************************************************)
(* How often a keyword occurs in a file, as seq_search_file() and          *)
(* psf_runner() of pardirlist/pardirlist.c count it: the file is read with *)
(* fgets() in pieces that fit a buffer, and strtok_r() takes the words out *)
(* of each piece.                                                          *)
(***************************************************************************)
EXTENDS Integers, Sequences, FiniteSets

CONSTANTS
  BuffSize,   \* the size of buff, 1025
  keyword     \* a sequence of characters

ASSUME BuffSizeAssumption == BuffSize \in Nat /\ BuffSize >= 2
ASSUME KeywordAssumption == Len(keyword) \in Nat \ {0}

exclude == {" ", "\t", "\n"}

\* Where fgets() may stop that begins at i: the buffer is full, a line or the file ends.
Piece(t, i) == {j \in i..Len(t) : j = i + BuffSize - 2 \/ t[j] = "\n" \/ j = Len(t)}

\* The character at which the fgets() that begins at i stops.
PieceEnd(t, i) == CHOOSE j \in Piece(t, i) : \A k \in Piece(t, i) : j <= k

\* The words between i and j that are the keyword: each begins and ends at a
\* delimiter or at the end of what was read, and has no delimiter in it.
Words(t, i, j) ==
  {a \in i..(j - Len(keyword) + 1) :
     /\ SubSeq(t, a, a + Len(keyword) - 1) = keyword
     /\ \A k \in a..(a + Len(keyword) - 1) : t[k] \notin exclude
     /\ a = i \/ t[a - 1] \in exclude
     /\ a + Len(keyword) - 1 = j \/ t[a + Len(keyword)] \in exclude}

\* The loop: what is counted from character i to the end of the file.
CountFrom(t) ==
  LET from[i \in 1..(Len(t) + 1)] ==
        IF i > Len(t) THEN 0
        ELSE Cardinality(Words(t, i, PieceEnd(t, i))) + from[PieceEnd(t, i) + 1]
  IN  from

frequency(t) == CountFrom(t)[1]

-----------------------------------------------------------------------------
\* How often the keyword is a word of the file.
Occurrences(t) == Cardinality(Words(t, 1, Len(t)))

\* No line is longer than the document allows ("the maximum length of a line in a
\* file will never exceed 1024 characters"), its newline not counted.
LinesFit(t) ==
  \A i \in 1..Len(t) : i + BuffSize - 1 <= Len(t) => \E j \in i..(i + BuffSize - 1) : t[j] = "\n"
=============================================================================
