------------------------------- MODULE MCBYB -------------------------------
(* Three users, of whom two are stockholders in one of the starting states *)
(* and the third holds both their colours; tokens named BYB that stand in  *)
(* the way of Init, or do not.                                             *)
EXTENDS BYB

MCOldTokens == {[owner |-> Nobody, supply |-> 0], [owner |-> Owner, supply |-> 0],
                [owner |-> Owner, supply |-> 1], [owner |-> "u1", supply |-> 0]}
=============================================================================
