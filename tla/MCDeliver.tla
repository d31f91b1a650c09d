----------------------------- MODULE MCDeliver -----------------------------
(* The instance of Deliver for TLC.                                        *)
EXTENDS Deliver

(* A proposer's share and a foundation's share that do not divide Fee.     *)
TwoRewarders ==
  << [address |-> NoAddr, percent |-> 3333],
     [address |-> Foundation, percent |-> 6667] >>

OneTx(a, n, messages) == [sender |-> a, nonce |-> n, messages |-> messages]

(* Nonces right and wrong.                                                 *)
NonceBlocks ==
  BoundedSeq({OneTx(a, n, <<"pay">>) : a \in Acct, n \in 1 .. MaxNonce}
               \cup {Malformed}, 2)

(* Every payload after every other, in one block and in two.               *)
Payloads == { <<"claim", "pay">>, <<"pay", "grant">>, <<"grant", "pay">>,
              <<"setPower", "pay">>, <<"sideChain">>, <<"sideChain", "sideChain">>,
              <<"bvm">>, <<"pay", "bvm">>, <<"bvmPay">>, <<"revert">> }

PayloadBlocks ==
  UNION { { <<OneTx(a, n, p)>>, <<OneTx(a, 1, p), OneTx(a, 2, q)>> } :
            a \in Acct, n \in 1 .. 2, p \in Payloads, q \in Payloads }

(* A cascade that is refused, for the token of its contract.               *)
RefusedBlocks == { <<OneTx(a, 1, <<"pay", "bvmPay">>)>> : a \in Acct }

AllBlocks == NonceBlocks \cup PayloadBlocks \cup RefusedBlocks

(* Two contracts fail at one height, with one between them that does not,  *)
(* and one fails alone.                                                    *)
CONSTANTS c1, c2, c3, c4

ThreeAtOnce ==
  [h \in 1 .. MaxHeight |->
     CASE h = 1 -> <<c1, c2, c3>> [] h = 2 -> <<c4>> [] OTHER -> << >>]
=============================================================================
