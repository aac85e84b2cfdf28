---------------------------- MODULE FifoChannel ----------------------------
(***************************************************************************)
(* What a bounded buffer promises: a channel that holds at most Capacity   *)
(* values, takes them in at one end and gives them out at the other, none  *)
(* lost, none duplicated, none altered.                                    *)
(***************************************************************************)
EXTENDS Naturals, Sequences

CONSTANTS Values, Capacity, Nothing

VARIABLES
  chan,   \* the values inside, oldest first
  taken   \* the value taken last

Init == chan = <<>> /\ taken = Nothing

Put(v) == /\ Len(chan) < Capacity
          /\ chan' = Append(chan, v)
          /\ UNCHANGED taken

Take == /\ chan # <<>>
        /\ taken' = Head(chan)
        /\ chan' = Tail(chan)

Next == Take \/ \E v \in Values : Put(v)

Spec == Init /\ [][Next]_<<chan, taken>>
=============================================================================
