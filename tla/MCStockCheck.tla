---------------------------- MODULE MCStockCheck ----------------------------
(* Instances of StockCheck for TLC.  No action or property names a thread,  *)
(* a person, a session, a product or a draft.                               *)
EXTENDS StockCheck

Symmetry == Permutations(Threads) \cup Permutations(People)
            \cup Permutations(Sessions) \cup Permutations(Products)
            \cup Permutations(Drafts)

(* Bounds: a second draft, bills of others and crashes are explored one at a *)
(* time, and without them what two handlers do at once; no leases are taken  *)
(* with the second draft or once handlers have overlapped, and then a draft is *)
(* closed once.  The day changes with one draft, no leases and no crash.      *)
Used == {d \in Drafts : draft[d].status # "none"}
Unleased == \A s \in Sessions, b \in Products : lease[s][b] = "none"
ClosedAtMostOnce == \A d \in Drafts : Len(bills[d]) <= 1 /\ audits[d] <= 1
Explored ==
  /\ Cardinality(Used) <= 1 \/ (Unleased /\ others = 0)
  /\ crashes = 0 \/ others = 0
  /\ day = 0 \/ (alone /\ Unleased /\ crashes = 0 /\ Cardinality(Used) <= 1)
  /\ alone \/ (ClosedAtMostOnce /\ Unleased /\ others = 0 /\ crashes = 0 /\ Cardinality(Used) <= 1)
=============================================================================
