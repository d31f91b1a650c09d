----------------------------- MODULE MCSystemV1 -----------------------------
(* Four genesis validators and a fifth; strategies that do and do not add  *)
(* up to the whole; two orders of two versions; an upgrade that is         *)
(* complete, and one that lacks token-issue or failed to build.            *)
EXTENDS SystemV1

MCBasic == Addr("token-basic", 1, 0)

Share(digits) ==
  [name |-> "validators", address |-> "", percent |-> [digits |-> digits, length |-> 3, decimals |-> 0]]
MCGenesisShares == <<Share(100)>>
MCShares == {<<Share(100)>>, <<Share(90)>>}

MCGenesisPower == [v \in {"v1", "v2", "v3", "v4"} |-> 10]

MCOrders == {<<1, 2>>, <<2, 1>>}

V2(names, built) == [names |-> names, signers |-> 1, mines |-> 1, built |-> built]
MCV2Lists == {V2({"token-basic", "token-issue", "mining"}, TRUE),
              V2({"token-basic", "mining"}, TRUE),
              V2({"token-basic", "token-issue", "mining"}, FALSE)}

(* What is done to validators and strategies does not touch contracts: the *)
(* transactions of a behaviour are about the former, with mining contracts *)
(* and the upgrade beside them, or about contracts.                        *)
GenesisContractsStay ==
  \A a \in DOMAIN s.contracts :
    a[1] \in GenesisNames /\ a[3] = 0 => a[2] = 1 /\ (s.contracts[a].lose = 0 \/ s.org # {})

OneKind ==
  \/ s.validators = Genesis.validators /\ s.strategies = Genesis.strategies
  \/ GenesisContractsStay
=============================================================================
