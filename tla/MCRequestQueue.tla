--------------------------- MODULE MCRequestQueue ---------------------------
(* Instances of RequestQueue for TLC. *)
EXTENDS RequestQueue

CONSTANT Lines    \* the bound for every client

MCMaxLines == [c \in Clients |-> Lines]
MCLengths == 1..(LineSize - 1)
=============================================================================
