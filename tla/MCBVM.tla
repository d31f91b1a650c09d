------------------------------- MODULE MCBVM -------------------------------
(* A user (1) and a contract (2) with a unit each, a contract without one  *)
(* (3), and the addresses of the contracts they create.                    *)
EXTENDS BVM

MCFunds         == [a \in Addrs |-> IF a \in {1, 2} THEN 1 ELSE 0]
MCContractAddr  == [p \in {<<1, 0>>, <<1, 1>>} |-> IF p = <<1, 0>> THEN 4 ELSE 5]
MCContractAddr2 == [a \in {2} |-> 4]
=============================================================================
