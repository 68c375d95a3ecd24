------------------------------- MODULE RowLife -------------------------------
(***************************************************************************)
(* What the low-stock rows of HQ promise: a row waits, is on one order, and *)
(* is received or dropped for good; it is never moved from one order to     *)
(* another without having waited in between.  HqOrders implements it.       *)
(***************************************************************************)
CONSTANTS Rows, Docs, NoDoc

VARIABLES
  state,  \* of each row
  owner   \* the order an incoming row belongs to

vars == <<state, owner>>

States == {"absent", "waiting", "incoming", "dropped", "received"}

Init ==
  /\ state \in [Rows -> {"absent", "waiting"}]
  /\ owner = [r \in Rows |-> NoDoc]

\* The rows of S go from one of the states From to the state to.
Move(S, From, to, d) ==
  /\ \A r \in S : state[r] \in From
  /\ state' = [r \in Rows |-> IF r \in S THEN to ELSE state[r]]
  /\ owner' = [r \in Rows |-> IF r \in S THEN d ELSE owner[r]]

Next ==
  \E S \in SUBSET Rows :
    \/ \E d \in Docs : Move(S, {"waiting"}, "incoming", d)
    \/ \E d \in Docs : Move(S, {"absent"}, "incoming", d)
    \/ Move(S, {"incoming"}, "waiting", NoDoc)
    \/ Move(S, {"incoming", "waiting"}, "dropped", NoDoc)
    \/ Move(S, {"incoming"}, "received", NoDoc)

RowSpec == Init /\ [][Next]_vars
=============================================================================
