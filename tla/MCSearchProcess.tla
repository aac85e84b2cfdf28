-------------------------- MODULE MCSearchProcess --------------------------
(* Instances of SearchProcess for TLC. *)
EXTENDS SearchProcess

CONSTANT Short    \* the entries that hold one line at most

MCContents == {t \in [Entries -> UNION {[1..n -> BOOLEAN] : n \in 0..MaxLines}] :
                 \A e \in Short : Len(t[e]) <= 1}
=============================================================================
