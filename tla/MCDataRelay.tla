----------------------------- MODULE MCDataRelay -----------------------------
(* DataRelay with two joiners, who have pictures of two and of one chunk,  *)
(* and the owner, who has one that is empty.                               *)
EXTENDS DataRelay

MCSenderOf == [f \in File |-> CASE f = "ofA" -> "a" [] f = "ofB" -> "b" [] f = "empty" -> Owner]

MCTotalChunks == [f \in File |-> CASE f = "ofA" -> 2 [] f = "ofB" -> 1 [] f = "empty" -> 0]

=============================================================================
