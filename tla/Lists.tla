-------------------------------- MODULE Lists --------------------------------
(* What a loop keeps of a list. (SelectSeq says the same by a condition; it  *)
(* is built into the prover without any fact about it.)                      *)
EXTENDS Naturals, Sequences

\* Along the list, what is at one of the places is appended to what is kept.
Kept(list, places) ==
    LET kept[n \in 0..Len(list)] ==
          IF n = 0 THEN <<>>
          ELSE IF n \in places THEN Append(kept[n - 1], list[n]) ELSE kept[n - 1]
    IN  kept[Len(list)]

\* The places where a list has something for the first time.
FirstPlaces(list) == {n \in 1..Len(list) : \A m \in 1..(n - 1) : list[m] # list[n]}
=============================================================================
