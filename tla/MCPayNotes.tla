----------------------------- MODULE MCPayNotes -----------------------------
(* The operators, labels and bills of the instance, which are alike.       *)
EXTENDS PayNotes, TLC

CONSTANTS u1, u2, n1, n2, b1, b2

Alike == Permutations({u1, u2}) \cup Permutations({n1, n2}) \cup Permutations({b1, b2})
=============================================================================
