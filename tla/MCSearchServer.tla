--------------------------- MODULE MCSearchServer ---------------------------
(* Instances of SearchServer for TLC. *)
EXTENDS SearchServer, TLC

CONSTANTS c1, c2

MCMaxLines == (c1 :> 2) @@ (c2 :> 1)
MCLengths == 1..(LineSize - 1)
=============================================================================
