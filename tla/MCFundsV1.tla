----------------------------- MODULE MCFundsV1 ------------------------------
(* Two funds with two entries each, one of which does not divide evenly    *)
(* and comes due later than the blocks before it.                          *)
EXTENDS FundsV1

MCAddressList == [foundation |-> {"alice", "bob"}, team |-> {"bob"}]

MCUnlockInfo ==
  [foundation |-> <<[time |-> 3, amount |-> 5], [time |-> 4, amount |-> 4]>>,
   team |-> <<[time |-> 2, amount |-> 3], [time |-> 7, amount |-> 3]>>]
=============================================================================
