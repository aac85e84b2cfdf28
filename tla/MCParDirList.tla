---------------------------- MODULE MCParDirList ----------------------------
(* Instances of ParDirList for TLC. *)
EXTENDS ParDirList

\* A line that just fits the buffer in front of another one, and one that does not fit.
MCTexts == {<<"k", "k", "\n", "k">>, <<" ", "k", "k">>}

MCKeyword == <<"k">>

\* Every text of up to six characters is counted right if its lines fit.
ASSUME CountsRight ==
  \A n \in 0..6 : \A t \in [1..n -> {"k", " ", "\n"}] : LinesFit(t) => frequency(t) = Occurrences(t)
=============================================================================
