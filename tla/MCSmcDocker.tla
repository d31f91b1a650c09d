---------------------------- MODULE MCSmcDocker ----------------------------
(***************************************************************************)
(* Instances of SmcDocker for TLC: the checker's and the deliverer's       *)
(* goroutines, an ordinary organisation and the genesis one.               *)
(***************************************************************************)
EXTENDS SmcDocker
=============================================================================
