----------------------------- MODULE MCTokensV1 -----------------------------
(* Two senders, two names and two symbols, and two strategies: one without *)
(* and one with an address that is rewarded twice.                         *)
EXTENDS TokensV1

Share(name, address, digits) ==
  [name |-> name, address |-> address,
   percent |-> [digits |-> digits, length |-> 3, decimals |-> 1]]

MCStrategies ==
  {<<Share("validators", "", 200), Share("fund", "fund", 800)>>,
   <<Share("validators", "", 200), Share("fund", "fund", 400), Share("gift", "fund", 400)>>}
=============================================================================
