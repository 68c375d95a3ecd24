----------------------------- MODULE MCJobQueue -----------------------------
(* Two candidates at HQ, one at SYP.                                        *)
EXTENDS JobQueue

CONSTANTS HQ_UBUNTU, HQ_PC, SYP_UBUNTU

HQ == <<HQ_UBUNTU, HQ_PC>>
SYP == <<SYP_UBUNTU>>
=============================================================================
