------------------------------- MODULE Ledger -------------------------------
(***************************************************************************)
(* The contents of the state database as the block layer sees them, and    *)
(* what one v2 transaction does to them (abciapp/service/deliver,          *)
(* common/statedbhelper, the fee check of burrow).                         *)
(*                                                                         *)
(* Contents are a function from keys to values.  A buffer, of a statedb    *)
(* Transaction or of one of its Txs, is a function on the keys that were   *)
(* written.  Nothing here deletes a key, so a value is never empty.        *)
(*                                                                         *)
(* The contracts run outside bcchain (in dockers, or in the BVM).  They    *)
(* are represented by eight messages, enough to succeed, to fail with and  *)
(* without a fee receipt, to fail after an earlier message of the same     *)
(* transaction has written, to let a contract pay the fee, to change what  *)
(* EndBlock reports to consensus, and to have the BVM write the key lists  *)
(* of accounts anew.                                                       *)
(***************************************************************************)
EXTENDS Integers, SequencesExt

CONSTANTS
  Acct,       \* accounts that send transactions
  Payee,      \* the account of the contract the messages exchange money with
  Rewarder,   \* RewardAddress of every block's proposer
  Foundation, \* another address of the reward strategy
  NoAddr,     \* no address
  Contract,   \* deployed contracts, each with an account of its own
  Strategy,   \* GetRewardStrategy: sequence of [address, percent], percent
              \* being int64(RewardPercent * 100)
  Fee,        \* gas price times gas of one message
  Amount,     \* what "pay" and "claim" move
  Balance,    \* genesis balance of every account
  EffectBlockHeight \* of fork-abci#2.0.1.13780 in abci-forks.json, 0 if the
                    \* file does not name the fork

Addr == Acct \cup Contract \cup {Payee, Rewarder, Foundation}

(* int64(percent * 100) of the strategies governance accepts.              *)
ASSUME StrategyAssumption ==
  Strategy \in Seq([address : Addr \cup {NoAddr}, percent : Nat])

ASSUME PercentAssumption ==
  /\ Strategy # << >>
  /\ FoldLeft(LAMBDA n, r : n + r.percent, 0, Strategy) = 10000

ASSUME AddrAssumption ==
  /\ NoAddr \notin Addr
  /\ Acct \cap Contract = {}
  /\ {Payee, Rewarder, Foundation} \cap (Acct \cup Contract) = {}
  /\ Fee \in Nat /\ Amount \in Nat \ {0} /\ Balance \in Nat /\ EffectBlockHeight \in Nat
  /\ IsFiniteSet(Acct) /\ IsFiniteSet(Contract)

-----------------------------------------------------------------------------
(* The keys of statedbkey.go that the block layer uses.                    *)
World    == <<"world">>          \* keyOfWorldAppState
Mines    == <<"mines">>          \* keyOfMineContracts
Nonce(a) == <<"nonce", a>>       \* KeyOfAccountNonce
Keys(a)  == <<"keys", a>>        \* KeyOfAccount: the keys of the account
Bal(a)   == <<"bal", a>>         \* KeyOfAccountToken, genesis token
Lose(c)  == <<"lose", c>>        \* keyOfContract: its LoseHeight
Vals     == <<"vals">>           \* keyOfValidators: how often they changed
Chains   == <<"chains">>         \* netgovernance: the side chains created

Key == {World, Mines, Vals, Chains} \cup {Nonce(a) : a \in Acct} \cup {Keys(a) : a \in Addr}
         \cup {Bal(a) : a \in Addr} \cup {Lose(c) : c \in Contract}

Empty == << >>

(* Buffer b laid over s: what get returns when s is what lies below, and   *)
(* what Tx.Commit makes of a Transaction's buffer s.                       *)
Lay(b, s) == [k \in DOMAIN s \cup DOMAIN b |->
                IF k \in DOMAIN b THEN b[k] ELSE s[k]]

(* Writing the keys K of v.                                                *)
Writes(K, v) == [k \in K |-> v[k]]

-----------------------------------------------------------------------------
(* Transactions.  An unparsable one has no sender.                         *)
Message == {"pay",       \* token transfer to Payee
            "claim",     \* a method by which Payee pays the sender
            "grant",     \* one whose Gas is negative: Payee pays its fee too
            "setPower",  \* governance.setPower
            "sideChain", \* netgovernance.genesisSideChain
            "bvm",       \* call of a BVM contract of the genesis token
            "bvmPay",    \* call of one of another token, by which Payee pays
                         \* the sender in that token
            "revert"}    \* call of a BVM contract that fails

ofBVM == {"bvm", "bvmPay", "revert"}

Tx == [sender : Acct, nonce : Nat, messages : Seq(Message) \ {<< >>}]

Malformed  == [sender |-> NoAddr, nonce |-> 0, messages |-> << >>]
SystemCall == [sender |-> NoAddr, nonce |-> 0, messages |-> <<"system">>]

(* Faulty variants (...Mut) precede the definitions they vary.             *)
CheckAccountNonce(v, a, n) == n = v[Nonce(a)] + 1

(* SetAccountNonce writes into the Transaction itself, under any Tx, so    *)
(* that RollbackTx does not undo it.  The first nonce of an account is     *)
(* also entered in the list of the account's keys.                         *)
SetAccountNonceMut(v, a, n) ==
  [k \in {Nonce(a)} \cup (IF v[Nonce(a)] = 0 THEN {Keys(a)} ELSE {}) |->
     IF k = Nonce(a) THEN n ELSE {"nonce"}]
SetAccountNonce(v, a, n) ==
  [k \in {Nonce(a)} \cup (IF v[Nonce(a)] = 0 THEN {Keys(a)} ELSE {}) |->
     IF k = Nonce(a) THEN n ELSE v[Keys(a)] \cup {"nonce"}]

-----------------------------------------------------------------------------
(* The state of a running transaction: what it sees, the keys it wrote,    *)
(* whether it goes on, the fee receipts summed by who pays them, and the   *)
(* Fee field of the response.                                              *)
Running(v) == [view |-> v, keys |-> {}, ok |-> TRUE, fees |-> Empty, field |-> 0]

(* gatherFeesByFromAddr adds the receipts of one address up.               *)
gatherFees(fees, from, n) ==
  [a \in DOMAIN fees \cup {from} |->
     (IF a = from THEN n ELSE 0) + (IF a \in DOMAIN fees THEN fees[a] ELSE 0)]

(* getPayer: a method with negative Gas is paid for by its contract, and   *)
(* so is the token transfer that precedes it in a transaction of two.      *)
getPayer(tx, i) ==
  IF \/ tx.messages[i] = "grant"
     \/ i = 1 /\ tx.messages = <<"pay", "grant">>
  THEN Payee ELSE tx.sender

Plus(v, k, n) == [v EXCEPT ![k] = @ + n]

Transfer(v, a, b, n) == Plus(Plus(v, Bal(a), -n), Bal(b), n)

(* A message to a contract in a docker.  Its fee is taken from the payer   *)
(* first; a failure returns the fee receipt but keeps no write.            *)
Charged(s, payer) ==
  [s EXCEPT !.view = Plus(@, Bal(payer), -Fee), !.keys = @ \cup {Bal(payer)},
            !.fees = gatherFees(@, payer, Fee), !.field = @ + Fee]

Moves(s, giver, taker) ==
  IF s.view[Bal(giver)] < Amount THEN [s EXCEPT !.ok = FALSE]
  ELSE [s EXCEPT !.view = Transfer(@, giver, taker, Amount),
                 !.keys = @ \cup {Bal(giver), Bal(taker)}]

Counts(s, k) == [s EXCEPT !.view = Plus(@, k, 1), !.keys = @ \cup {k}]

sdkInvoke(s, from, payer, m) ==
  LET c == Charged(s, payer) IN
  IF s.view[Bal(payer)] < Fee THEN [s EXCEPT !.ok = FALSE]
  ELSE CASE m = "pay"                -> Moves(c, from, Payee)
         [] m \in {"claim", "grant"} -> Moves(c, Payee, from)
         [] m = "setPower"           -> Counts(c, Vals)
         [] m = "sideChain"          -> Counts(c, Chains)

(* A message to a docker, unless one before has failed.  The address of a  *)
(* BVM contract is no contract's.                                          *)
invoke(s, tx, i) ==
  LET m == tx.messages[i] IN
  IF ~s.ok THEN s
  ELSE IF m \in ofBVM THEN [s EXCEPT !.ok = FALSE]
  ELSE sdkInvoke(s, tx.sender, getPayer(tx, i), m)

(* InvokerMgr.InvokeTx: message by message until one fails.                *)
docker(v, tx) ==
  FoldLeft(LAMBDA s, i : invoke(s, tx, i), Running(v), [i \in DOMAIN tx.messages |-> i])

(* State.UpdateAccount writes the list of an account's keys anew: the      *)
(* nonce, and the token of the contract that was called.                   *)
UpdateAccount(s, a, token) ==
  [s EXCEPT !.view = [@ EXCEPT ![Keys(a)] = {"nonce", token}],
            !.keys = @ \cup {Keys(a)}]

(* Sync updates the accounts that the call changed: those between which it *)
(* moved money.                                                            *)
Sync(s, tx) ==
  LET token == IF Last(tx.messages) = "bvmPay" THEN "other" ELSE "token"
  IN IF tx.messages = <<"bvm">> THEN s
     ELSE UpdateAccount(UpdateAccount(s, tx.sender, token), Payee, token)

(* Burrow.InvokeTx: a call alone or, as a cascade, after a transfer to its *)
(* contract in the contract's token.  The sender's balance is only checked *)
(* for the fee, with the fee receipt already in the tags (a call that      *)
(* failed used no gas); the response's Fee field is never set.             *)
isCall(ms) == \/ Len(ms) = 1
              \/ Len(ms) = 2 /\ Head(ms) = "pay" /\ Last(ms) # "bvmPay"

burrow(v, tx) ==
  LET s == Running(v)
      c == IF Head(tx.messages) = "pay" THEN Moves(s, tx.sender, Payee) ELSE s
      called == c.ok /\ Last(tx.messages) # "revert"
      after  == IF called THEN Sync(c, tx) ELSE c
  IN IF isCall(tx.messages)
     THEN [after EXCEPT !.ok = called /\ after.view[Bal(tx.sender)] >= Fee,
                        !.fees = gatherFees(@, tx.sender, IF called THEN Fee ELSE 0)]
     ELSE [s EXCEPT !.ok = FALSE]

(* Adapter.InvokeTx: the last message tells where all of them go.          *)
isBVM(tx) == Last(tx.messages) \in ofBVM

InvokeTx(v, tx) == IF isBVM(tx) THEN burrow(v, tx) ELSE docker(v, tx)

-----------------------------------------------------------------------------
(* distributeFee.  award rounds down; the clause for the last rewarder,    *)
(* i == len(app.rewardStrategy), is never true.                            *)
award(fee, r) == (fee * r.percent) \div 10000

rewardAddr(r) == IF r.address = NoAddr THEN Rewarder ELSE r.address

TotalAward(fee) == FoldLeft(LAMBDA n, r : n + award(fee, r), 0, Strategy)

(* Who pays: the contract took the fee already unless it was undone or the *)
(* BVM ran.                                                                *)
payFromSenderNeverMut(isDlvOK, bvm) == FALSE
payFromSenderAlwaysMut(isDlvOK, bvm) == TRUE
payFromSender(isDlvOK, bvm) == ~isDlvOK \/ bvm

(* softforks.V2_0_1_13780, asked for the height of the block under way.    *)
V2_0_1_13780(blockHeight) == blockHeight < EffectBlockHeight

blockHeight(v) == v[World].height + 1

(* AddAccountToken enters the token unless it is in the list.              *)
AddAccountToken(v, a) == [v EXCEPT ![Keys(a)] = @ \cup {"token"}]

(* Whose lists distributeFee enters the token in: before the fork takes    *)
(* effect, nobody's.                                                       *)
enlistedMut(v, takers) == IF V2_0_1_13780(blockHeight(v) - 1) THEN {} ELSE takers
enlisted(v, takers) == IF V2_0_1_13780(blockHeight(v)) THEN {} ELSE takers

distributeFee(v, from, fee, isDlvOK, bvm) ==
  LET payers == IF payFromSender(isDlvOK, bvm) THEN {from} ELSE {}
      takers == {rewardAddr(r) : r \in Range(Strategy)}
      lists  == enlisted(v, takers)
      start  == IF from \in payers THEN Plus(v, Bal(from), -fee) ELSE v
      give(w, r) == LET a == rewardAddr(r)
                        x == Plus(w, Bal(a), award(fee, r))
                    IN IF a \in lists THEN AddAccountToken(x, a) ELSE x
  IN Writes({Bal(a) : a \in payers \cup takers}
              \cup {Keys(a) : a \in {b \in lists : "token" \notin v[Keys(b)]}},
            FoldLeft(give, start, Strategy))

(* emitFeeReceipts: payer by payer, in the order of their addresses.       *)
emitFeeReceipts(v, fees, isDlvOK, bvm) ==
  FoldLeft(LAMBDA w, a : Lay(distributeFee(Lay(w, v), a, fees[a], isDlvOK, bvm), w),
           Empty, SetToSeq(DOMAIN fees))
=============================================================================
