---------------------------- MODULE MCLppHandler ----------------------------
(* Flows of one UE, and of two.                                            *)
EXTENDS LppHandler, TLC

CONSTANTS cap, loc1, loc2, ue1, ue2

\* Every flow belongs to the one UE.
SameUe == [f \in Flows |-> ue1]

\* loc2 belongs to a UE of its own.
TwoUes == [f \in Flows |-> IF f = loc2 THEN ue2 ELSE ue1]
=============================================================================
