--------------------------- MODULE MCApplication ---------------------------
(* Instances of Application for TLC.                                       *)
EXTENDS Application

V1(k, n) == [format |-> "v1", kind |-> k, nonce |-> n]
V2(k, n) == [format |-> "v2", kind |-> k, nonce |-> n]

(* Blocks of one transaction, and blocks in which others precede or follow *)
(* an upgrade, with nonces that fit and that do not.                       *)
MixedBlocks ==
  {<< >>, <<V1("missing", 1), V1("malformed", 1)>>, <<V1("call", 1)>>}
    \cup {<<V1(k, n)>> : k \in {"mining", "upgrade", "transfer"}, n \in 1 .. 2}
    \cup {<<V2("call", 2)>>, <<V2("fails", 3)>>}
    \cup {<<V1("upgrade", 1), t>> : t \in {V1("transfer", 2), V1("upgrade", 2),
                                           V2("call", 2), V1("fails", 2)}}
    \cup {<<V1("mining", 1), V1("upgrade", 2)>>}

(* Blocks with the issue of a token and with the third-party contract,     *)
(* before, in and after the block of an upgrade.                           *)
ThirdPartyBlocks ==
  {<< >>, <<V1("issue", 1)>>, <<V1("deploy3d", 1)>>, <<V1("call3d", 2)>>, <<V1("call3d", 3)>>,
   <<V1("deploy3d", 1), V1("call3d", 2)>>, <<V1("issue", 2)>>, <<V1("deploy3d", 2)>>,
   <<V1("transfer", 2)>>, <<V1("upgrade", 1)>>, <<V1("upgrade", 2)>>,
   <<V1("call3d", 2), V1("upgrade", 3)>>}

AllBlocks == MixedBlocks \cup ThirdPartyBlocks

(* A chain has blocks of the first kind, and its container is not killed,  *)
(* or of the second.                                                       *)
OneKind ==
  \/ Range(blocks) \subseteq MixedBlocks /\ docker.kills = 0
  \/ Range(blocks) \subseteq ThirdPartyBlocks

(* Checks that use the container, and checks of either connection that do  *)
(* not.                                                                    *)
MCChecked == {V1("call3d", 2), V1("call3d", 3), V1("transfer", 1), V2("call", 1)}
=============================================================================
