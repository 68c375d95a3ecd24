---------------------------- MODULE MCHqOrders ----------------------------
(* Instances of HqOrders for TLC.  No action or property names a thread, an *)
(* order or a receipt.                                                       *)
EXTENDS HqOrders

Symmetry == Permutations(Threads) \cup Permutations(Docs)

\* Every row is of a product of its own: one order can take both.
OwnProduct == [i \in Rows |-> i]

(* Bounds: faults and deaths are explored one at a time while handlers run   *)
(* one after another, and without them what two handlers do at once; then     *)
(* receipts and inserted rows are explored with one order and receipts of the *)
(* inserted rows alone, and handlers of a single line, drops, edits of a      *)
(* receipt and second tries of a number do not overlap.  Parts of a row are   *)
(* taken with one order, while nothing overlaps.  A receipt has at most two   *)
(* bills, one after an overlap.                                               *)
OrdersMade == {d \in Docs : order[d] # "none"}
OneOrder ==
  (\E i \in Inserted : iclow[i].there) =>
    \A r \in Receipts, i \in Waiting : receipt[r].takes[i] = "none"
TwoOrders ==
  /\ \A i \in Inserted : ~iclow[i].there
  /\ \A r \in Receipts : receipt[r].status = "none"
Explored ==
  /\ \A r \in Receipts : Len(bills[r]) <= IF alone THEN 2 ELSE 1
  /\ faults + crashes <= 1
  /\ (\E r \in Receipts, i \in Rows : receipt[r].takes[i] = "some") =>
       alone /\ Cardinality(OrdersMade) <= 1
  /\ \/ alone /\ faults + crashes = 0
     \/ /\ alone \/ faults + crashes = 0
        /\ IF Cardinality(OrdersMade) <= 1 THEN OneOrder ELSE TwoOrders
        /\ alone \/ \A t \in Threads :
             job[t].op \notin {"save", "drop", "cancel_line"} /\ job[t].tries = 0
=============================================================================
