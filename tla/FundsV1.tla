------------------------------ MODULE FundsV1 -------------------------------
(***************************************************************************)
(* The version 1 contracts that hold or change the genesis token: the      *)
(* cancellation that destroys most of the supply, the foundation's and the *)
(* team's unlocking funds, the transfer agency that pays the gas of its    *)
(* customers, and mining, which EndBlock calls in every block.             *)
(*                                                                         *)
(* Each has an account of its own, the contract account, whose address is  *)
(* computed from the contract's name; here the two are one name.           *)
(***************************************************************************)
EXTENDS ContextV1

CONSTANTS
  Accounts, Senders,
  GenesisOwner,
  Coin,         \* an issued token the agency handles
  CoinSupply,
  Fund,         \* tokenbasic-foundation and tokenbasic-team
  addressList,  \* the addresses a fund pays
  unlockInfo,   \* for each fund its sequence of unlock times and amounts
  Funding,      \* what each fund's account holds at first
  MiningPool, MiningReward, HalfLife,
  BCB_TOKEN_SUPPLY, BCB_TOKEN_NEW_SUPPLY, BCB_TOKEN_SUB_SUPPLY,
  Managers,     \* the addresses SetManager may be given
  Amounts, Gas, Proposer, Rewarder,
  FirstHeights, MaxHeight, \* bound: the blocks of a run
  MaxTxs                  \* bound: transactions in a block

Contracts == {"cancellation", "agency"} \cup Fund

ASSUME FundsAssumption ==
  /\ Senders \subseteq Accounts /\ Contracts \cup {"mining"} \subseteq Accounts
  /\ BCB_TOKEN_SUPPLY = BCB_TOKEN_NEW_SUPPLY + BCB_TOKEN_SUB_SUPPLY
  /\ \A f \in Fund : IsFiniteSet(addressList[f]) /\ addressList[f] # {}
  /\ HalfLife \in Nat \ {0}

VARIABLES
  s,        \* the contents, with the four contracts' own keys
  height,   \* the block that is delivered; its time is the height
  txs       \* transactions of this block

vars == <<s, height, txs>>

blk == [height |-> height, proposer |-> Proposer, rewarder |-> Rewarder]

Total(c, t) == MapThenSumSet(LAMBDA a : GetBalance(c, a, t), Accounts)

-----------------------------------------------------------------------------
InitialBalance ==
  [a \in Fund |-> Funding] @@ ("mining" :> MiningPool) @@ ("agency" :> Gas)
    @@ [a \in Senders \ {GenesisOwner} |-> 2 * Gas]

Genesis ==
  LET given == MapThenSumSet(LAMBDA a : InitialBalance[a], DOMAIN InitialBalance)
      basic == (GenesisOwner :> BCB_TOKEN_SUPPLY - given) @@ InitialBalance
      token(t, supply) == [owner |-> GenesisOwner, name |-> t, symbol |-> t, supply |-> supply,
                           addSupply |-> FALSE, burn |-> FALSE, gasPrice |-> 1]
  IN [ok |-> TRUE, panic |-> FALSE,
      bal |-> [k \in (DOMAIN basic) \X {Basic} |-> basic[k[1]]] @@
              [k \in Senders \X {Coin} |-> CoinSupply \div Cardinality(Senders)],
      tokens |-> (Basic :> token(Basic, BCB_TOKEN_SUPPLY) @@ Coin :> token(Coin, CoinSupply)),
      byName |-> (Basic :> Basic @@ Coin :> Coin),
      bySymbol |-> (Basic :> Basic @@ Coin :> Coin),
      contracts |-> [c \in Contracts |-> [owner |-> GenesisOwner, name |-> c, version |-> 1,
                                          effect |-> 1, lose |-> 0]],
      owned |-> [a \in Accounts |-> IF a = GenesisOwner THEN Contracts ELSE {}],
      genesisPrice |-> 1, basePrice |-> 1,
      strategies |-> <<[items |-> <<[name |-> "validators", address |-> "",
                          percent |-> [digits |-> 100, length |-> 3, decimals |-> -1]]>>,
                        effect |-> 1]>>,
      validators |-> (Proposer :> [name |-> "node", reward |-> Rewarder, power |-> 10]),
      global |-> [f \in Fund |-> << >>],      \* a fund's unlock entries
      managers |-> {}, tokenFee |-> << >>,     \* the agency's
      mining |-> [start |-> 0, reward |-> 0]]

Init == s = Genesis /\ height \in FirstHeights /\ txs = 0

-----------------------------------------------------------------------------
(* TBCancellation.Cancel.  The contract ends with the next block, and may  *)
(* be called again within this one.                                        *)
Cancel(c, sender) ==
  LET token == c.tokens[Basic]
      sub   == SetToken(Require(c, /\ sender = c.contracts["cancellation"].owner
                                   /\ sender = GetOwnerOfGenesisToken(c)
                                   /\ token.supply = BCB_TOKEN_SUPPLY
                                   /\ GetBalance(c, sender, Basic) >= BCB_TOKEN_SUB_SUPPLY),
                        Basic, [token EXCEPT !.supply = BCB_TOKEN_NEW_SUPPLY])
  IN ForbidSpecificContract(
       SetBalance(sub, sender, Basic, GetBalance(c, sender, Basic) - BCB_TOKEN_SUB_SUPPLY),
       "cancellation", height + 1)

-----------------------------------------------------------------------------
(* The funds.  The entries are entered on the first call.                  *)
initGlobal(f) ==
  [i \in DOMAIN unlockInfo[f] |->
     [time |-> unlockInfo[f][i].time, amount |-> unlockInfo[f][i].amount, settled |-> FALSE]]

getGlobalDB(c, f) == c.global[f]

setGlobalDB(c, f, entries) == [c EXCEPT !.global[f] = entries]

global_(c, f) == IF getGlobalDB(c, f) = << >> THEN initGlobal(f) ELSE getGlobalDB(c, f)

eachAmount(f, amount) == amount \div Cardinality(addressList[f])

dueMut(entry) == TRUE
due(entry) == height >= entry.time

(* Withdraw settles the first entry that is not, and only when it is due   *)
(* and the account can pay it whole.                                       *)
Withdraw(c, sender, f) ==
  LET entries == global_(c, f)
      open    == {i \in DOMAIN entries : ~entries[i].settled}
      i       == Min(open)
      paid    == FoldSet(LAMBDA to, x : TransferByAddr(x, Basic, f, to, eachAmount(f, entries[i].amount)),
                         Require(c, /\ sender \in addressList[f]
                                    /\ due(entries[i])
                                    /\ GetBalance(c, f, Basic) >= entries[i].amount),
                         addressList[f])
  IN IF open = {} THEN Require(c, FALSE)
     ELSE setGlobalDB(paid, f, [entries EXCEPT ![i].settled = TRUE])

FoundationWithdraw(c, sender) == Withdraw(c, sender, "foundation")
TeamWithdraw(c, sender) == Withdraw(c, sender, "team")

-----------------------------------------------------------------------------
(* The transfer agency                                                     *)
getManagerInfoDB(c) == c.managers

SetManagerInfoDB(c, list) == [c EXCEPT !.managers = list]

(* Of a token that was never entered the name is empty and the fee zero.   *)
getTokenFeeInfoDB(c, name) ==
  IF name \in DOMAIN c.tokenFee THEN c.tokenFee[name] ELSE [addr |-> Nobody, fee |-> 0]

setTokenFeeInfoDB(c, name, info) == [c EXCEPT !.tokenFee = Put(@, name, info)]

SetManager(c, sender, list) ==
  SetManagerInfoDB(
    Require(c, /\ sender = c.contracts["agency"].owner
               /\ Cardinality(list) \in 1 .. 10
               /\ list \cap {Nobody, c.contracts["agency"].owner, "agency"} = {}),
    list)

(* checkTokenFee: a token of the chain, and never the genesis token.       *)
checkTokenFee(c, name, fee) ==
  name # Basic /\ GetTokenAddrByName(c, name) # Nobody /\ fee >= 0

SetTokenFee(c, sender, name, fee) ==
  setTokenFeeInfoDB(Require(c, sender \in getManagerInfoDB(c) /\ checkTokenFee(c, name, fee)),
                    name, [addr |-> GetTokenAddrByName(c, name), fee |-> fee])

AgencyTransfer(c, sender, name, to, amount) ==
  LET info == getTokenFeeInfoDB(c, name)
  IN TransferByAddr(
       TransferByAddr(Require(c, info.fee > 0 /\ to # Nobody /\ amount > 0),
                      info.addr, sender, "agency", amount + info.fee),
       info.addr, "agency", to, amount)

WithdrawFunds(c, sender, name, amount) ==
  LET t == GetTokenAddrByName(c, name)
  IN TransferByAddr(Require(c, /\ sender = c.contracts["agency"].owner
                               /\ amount > 0
                               /\ t # Nobody
                               /\ amount <= GetBalance(c, "agency", t)),
                    t, "agency", c.contracts["agency"].owner, amount)

-----------------------------------------------------------------------------
(* Mining.  The start height is read before it is set, so that the first   *)
(* call counts the blocks from zero.                                       *)
calcRewardAmountMut(m, cHeight, sHeight) ==
  IF cHeight % HalfLife = 0 THEN (m.reward + 1) \div 2 ELSE m.reward
calcRewardAmount(m, cHeight, sHeight) ==
  IF cHeight > sHeight /\ (cHeight - sHeight) % HalfLife = 0
  THEN IF m.reward \div 2 = 0 THEN 1 ELSE m.reward \div 2
  ELSE m.reward

miningStartHeight_(c) == c.mining.start

miningRewardAmount_(c) == c.mining.reward

Mine(c) ==
  LET sHeight == miningStartHeight_(c)
      m == [start |-> IF sHeight = 0 THEN height ELSE sHeight,
            reward |-> IF miningRewardAmount_(c) = 0 THEN MiningReward ELSE miningRewardAmount_(c)]
      amount == calcRewardAmount(m, height, sHeight)
      noted  == [c EXCEPT !.mining = [m EXCEPT !.reward = amount]]
  IN IF GetBalance(c, "mining", Basic) % (MaxUint64 + 1) >= amount
     THEN TransferByAddr(noted, Basic, "mining", Rewarder, amount)
     ELSE noted

(* The stub of mining charges nothing; EndBlock keeps what it wrote only   *)
(* when it succeeds.                                                       *)
MNStub(c) == IF Mine(c).ok THEN Mine(c) ELSE c

-----------------------------------------------------------------------------
(* The other stubs charge the sender, but for the agency's Transfer, whose *)
(* gas the agency's account pays, whether the transfer succeeds or not.    *)
TBCStub(sender) ==
  LET c == CheckAndPayForGas(s, sender, "cancellation", Gas, Gas, blk)
  IN Dispatch(c, Cancel(c, sender))

TBFStub(sender) ==
  LET c == CheckAndPayForGas(s, sender, "foundation", Gas, Gas, blk)
  IN Dispatch(c, FoundationWithdraw(c, sender))

TBTStub(sender) ==
  LET c == CheckAndPayForGas(s, sender, "team", Gas, Gas, blk)
  IN Dispatch(c, TeamWithdraw(c, sender))

TACStub(sender, call) ==
  LET payer == IF call.method = "Transfer" THEN "agency" ELSE sender
      c == CheckAndPayForGas(s, payer, "agency", Gas, Gas, blk)
  IN Dispatch(c,
       CASE call.method = "SetManager" -> SetManager(c, sender, call.list)
         [] call.method = "SetTokenFee" -> SetTokenFee(c, sender, call.name, call.value)
         [] call.method = "Transfer" -> AgencyTransfer(c, sender, call.name, call.to, call.value)
         [] call.method = "WithdrawFunds" -> WithdrawFunds(c, sender, call.name, call.value))

Deliver(c, result) ==
  /\ txs < MaxTxs
  /\ IsRightHeight(s.contracts[c], height)
  /\ s' = [result EXCEPT !.ok = TRUE]
  /\ txs' = txs + 1
  /\ UNCHANGED height

CancelTx == \E a \in Senders : Deliver("cancellation", TBCStub(a))

FoundationTx == \E a \in Senders : Deliver("foundation", TBFStub(a))

TeamTx == \E a \in Senders : Deliver("team", TBTStub(a))

SetManagerTx ==
  \E a \in Senders, m \in Managers :
    Deliver("agency", TACStub(a, [method |-> "SetManager", list |-> {m}]))

SetTokenFeeTx ==
  \E a \in Senders, name \in {Basic, Coin}, v \in Amounts :
    Deliver("agency", TACStub(a, [method |-> "SetTokenFee", name |-> name, value |-> v]))

AgencyTx ==
  \E a \in Senders, to \in Senders \cup {"agency"}, v \in Amounts :
    Deliver("agency", TACStub(a, [method |-> "Transfer", name |-> Coin, to |-> to, value |-> v]))

WithdrawFundsTx ==
  \E a \in Senders, name \in {Basic, Coin}, v \in Amounts :
    Deliver("agency", TACStub(a, [method |-> "WithdrawFunds", name |-> name, value |-> v]))

EndBlock ==
  /\ height < MaxHeight
  /\ s' = MNStub(s)
  /\ height' = height + 1
  /\ txs' = 0

Next ==
  \/ CancelTx \/ FoundationTx \/ TeamTx
  \/ SetManagerTx \/ SetTokenFeeTx \/ AgencyTx \/ WithdrawFundsTx
  \/ EndBlock

Spec == Init /\ [][Next]_vars

-----------------------------------------------------------------------------
(* Whatever the order of unlocking, cancelling, agency transfers (also to  *)
(* the agency itself), fees and mining, the accounts hold the supply of    *)
(* each token; the cancellation takes what it removes from the supply, and *)
(* takes it once, although its contract stays in force for the rest of the *)
(* block.                                                                  *)
SupplyBacked ==
  /\ \A t \in DOMAIN s.tokens : Total(s, t) = s.tokens[t].supply
  /\ s.tokens[Basic].supply =
       IF s.contracts["cancellation"].lose # 0 THEN BCB_TOKEN_NEW_SUPPLY ELSE BCB_TOKEN_SUPPLY

PaidBy(f) ==
  LET settled == {i \in DOMAIN s.global[f] : s.global[f][i].settled}
  IN MapThenSumSet(LAMBDA i : eachAmount(f, s.global[f][i].amount) * Cardinality(addressList[f]),
                   settled)

(* A fund pays its entries in their order, each one once, none before its  *)
(* time, and nothing else ever leaves its account.                         *)
UnlockedOnSchedule ==
  \A f \in Fund :
    /\ GetBalance(s, f, Basic) = Funding - PaidBy(f)
    /\ \A i \in DOMAIN s.global[f] :
         s.global[f][i].settled =>
           /\ s.global[f][i].time <= height
           /\ \A j \in 1 .. i : s.global[f][j].settled

Halved(v, k) == IF v \div (2 ^ k) = 0 THEN 1 ELSE v \div (2 ^ k)

(* The reward halves every HalfLife blocks after the first mined one, and  *)
(* once at that block when its height is itself a multiple of HalfLife;    *)
(* it never falls below one.                                               *)
RewardHalves ==
  s.mining.start # 0 =>
    s.mining.reward =
      Halved(MiningReward,
             (height - 1 - s.mining.start) \div HalfLife
               + (IF s.mining.start % HalfLife = 0 THEN 1 ELSE 0))

(* What leaves the funds and the mining pool does so as announced, however *)
(* blocks, unlocking transactions and the first mined block fall together. *)
PaysOnSchedule == UnlockedOnSchedule /\ RewardHalves
=============================================================================
