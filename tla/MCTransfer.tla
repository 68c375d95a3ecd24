----------------------------- MODULE MCTransfer -----------------------------
(* Instances of Transfer for TLC.  Users, products and tokens are           *)
(* interchangeable: no action or property names one.                        *)
EXTENDS Transfer, TLC

Symmetry == Permutations(Users) \cup Permutations(Lines) \cup Permutations(Tokens)
=============================================================================
