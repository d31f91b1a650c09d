------------------------------ MODULE TokensV1 ------------------------------
(***************************************************************************)
(* The version 1 token contracts under abciapp_v1.0/contract: token-basic  *)
(* (the genesis token), token-issue and the token-templet contract every   *)
(* issued token gets, called through their stubs by the transactions of a  *)
(* block, with the fee and the rewards of each.                            *)
(*                                                                         *)
(* A token's address is computed from the owner and the version of the     *)
(* token-issue contract and the token's name, so it stands for the name.   *)
(***************************************************************************)
EXTENDS ContextV1

CONSTANTS
  Accounts,     \* every account, the rewarded ones included
  Senders,      \* the accounts that send transactions
  GenesisOwner, \* owns the genesis token and the genesis contracts
  TokenIssue,   \* the address of the token-issue contract
  Names, Symbols,
  Proposer, Rewarder, \* the block's validator and its reward address
  GenesisSupply,
  Gift,         \* what the owner has passed to each other sender before
  Gas,          \* what a method costs
  Values,       \* the amounts transactions name
  GasLimits,
  Strategies,   \* the reward strategies a genesis file may hold
  MaxTxs        \* bound: transactions delivered

ASSUME TokensAssumption ==
  /\ IsFiniteSet(Accounts)
  /\ Senders \subseteq Accounts
  /\ {GenesisOwner, Rewarder} \subseteq Accounts
  /\ Nobody \notin Accounts
  /\ Basic \notin Names
  /\ TokenIssue \notin Names \cup {Basic}
  /\ Nobody \notin Names \cup {Basic}
  /\ GenesisSupply \in Nat /\ Gift \in Nat
  /\ GenesisSupply >= Gift * Cardinality(Senders)
  /\ Gas \in Nat \ {0}
  /\ Values \subseteq Nat /\ GasLimits \subseteq Nat
  /\ MaxTxs \in Nat

(* A percentage is written with decimal digits; the rewarded have accounts.*)
ASSUME StrategiesAssumption ==
  \A strategy \in Strategies :
    /\ strategy \in Seq(Range(strategy))
    /\ \A i \in DOMAIN strategy :
         /\ rewardTo(strategy[i], Rewarder) \in Accounts
         /\ strategy[i].percent.digits \in Nat
         /\ divisor(strategy[i].percent) \in Nat \ {0}

VARIABLES
  s,         \* the contents as the block has left them so far
  committed, \* the contents of the last committed block
  docker,    \* ContractDocker.MapStubs: the addresses that have a stub
  conn,      \* DeliverConnection: the block's fee and rewards
  txs        \* transactions delivered

vars == <<s, committed, docker, conn, txs>>

blk == [height |-> 1, proposer |-> Proposer, rewarder |-> Rewarder]

-----------------------------------------------------------------------------
(* InitContractDocker: a stub for token-basic, token-issue and every token *)
(* in the list of all tokens.                                              *)
registered(c) == {Basic, TokenIssue} \cup DOMAIN c.tokens

NewContract(name, owner) ==
  [owner |-> owner, name |-> name, version |-> 1, effect |-> 1, lose |-> 0]

Genesis(strategy) ==
  [ok |-> TRUE, panic |-> FALSE,
   bal |-> [k \in (Senders \cup {GenesisOwner}) \X {Basic} |->
              IF k[1] # GenesisOwner THEN Gift
              ELSE GenesisSupply - Gift * Cardinality(Senders \ {GenesisOwner})],
   tokens |-> [t \in {Basic} |->
                 [owner |-> GenesisOwner, name |-> t, symbol |-> t,
                  supply |-> GenesisSupply, addSupply |-> FALSE,
                  burn |-> FALSE, gasPrice |-> 1]],
   byName |-> [t \in {Basic} |-> t], bySymbol |-> [t \in {Basic} |-> t],
   contracts |-> [c \in {Basic, TokenIssue} |-> NewContract(c, GenesisOwner)],
   owned |-> [a \in Accounts |-> IF a = GenesisOwner THEN {Basic, TokenIssue} ELSE {}],
   genesisPrice |-> 1, basePrice |-> 1,
   strategies |-> <<[items |-> strategy, effect |-> 1]>>,
   validators |-> [v \in {Proposer} |-> [name |-> "node", reward |-> Rewarder, power |-> 10]]]

Init ==
  /\ \E strategy \in Strategies : s = Genesis(strategy)
  /\ committed = s
  /\ docker = registered(s)
  /\ conn = [fee |-> 0, rewards |-> << >>]
  /\ txs = 0

-----------------------------------------------------------------------------
(* The methods, on the contents c after the fee.                           *)

TokenTempletTransfer(c, sender, t, to, v) ==
  LET paid == SetBalance(Require(c, sender # to /\ GetBalance(c, sender, t) >= v),
                         sender, t, GetBalance(c, sender, t) - v)
  IN SetBalance(paid, to, t, GetBalance(paid, to, t) + v)

TokenBasicTransfer(c, sender, to, v) == TokenTempletTransfer(c, sender, Basic, to, v)

(* BatchTransfer takes the sum from the sender first; an address may occur *)
(* more than once.                                                         *)
BatchTransferMut(c, sender, t, toList, v) ==
  LET old(a) == GetBalance(c, a, t)
      paid == SetBalance(Require(c, old(sender) >= v * Len(toList)),
                         sender, t, old(sender) - v * Len(toList))
  IN FoldLeft(LAMBDA x, to : SetBalance(x, to, t, old(to) + v), paid, toList)
BatchTransfer(c, sender, t, toList, v) ==
  LET sum  == v * Len(toList)
      paid == SetBalance(Require(c, sum >= v /\ GetBalance(c, sender, t) >= sum),
                         sender, t, GetBalance(c, sender, t) - sum)
  IN FoldLeft(LAMBDA x, to : SetBalance(Require(x, sender # to), to, t,
                                        GetBalance(x, to, t) + v),
              paid, toList)

AddSupply(c, sender, t, v) ==
  SetBalance(
    SetTokenSupply(Require(c, v > 0 /\ sender = c.contracts[t].owner),
                   t, TokenSupply(c, t) + v, TRUE, FALSE),
    c.contracts[t].owner, t, GetBalance(c, c.contracts[t].owner, t) + v)

enoughLeftMut(c, t, v) == TRUE
enoughLeft(c, t, v) == TokenSupply(c, t) - v >= MinSupply

Burn(c, sender, t, v) ==
  SetTokenSupply(
    SetBalance(Require(c, /\ sender = c.contracts[t].owner
                          /\ GetBalance(c, sender, t) >= v
                          /\ enoughLeft(c, t, v)),
               sender, t, GetBalance(c, sender, t) - v),
    t, TokenSupply(c, t) - v, FALSE, TRUE)

(* SetOwner hands over the whole balance with the token.                   *)
SetOwner(c, sender, t, newOwner) ==
  SetTokenNewOwner(
    TokenTempletTransfer(Require(c, sender = c.contracts[t].owner),
                         sender, t, newOwner, GetBalance(c, sender, t)),
    t, newOwner)

TokenTempletSetGasPrice(c, sender, t, v) ==
  SetGasPrice(Require(c, /\ sender = c.contracts[t].owner
                         /\ v \in GetBaseGasPrice(c) .. MaxGasPrice), t, v)

TokenBasicSetGasPrice(c, sender, v) == TokenTempletSetGasPrice(c, sender, Basic, v)

SetGasBasePrice(c, sender, v) ==
  SetBaseGasPrice(Require(c, sender = c.contracts[Basic].owner /\ v \in 1 .. MaxGasPrice), v)

TokenIssueNewToken(c, sender, token) ==
  NewToken(Require(c, /\ token.supply >= MinSupply \/ token.supply = 0
                      /\ CheckNameAndSybmol(c, sender, token.name, token.symbol)
                      /\ token.gasPrice \in GetBaseGasPrice(c) .. MaxGasPrice),
           sender, token.name, [token EXCEPT !.owner = sender],
           NewContract("token-templet", GenesisOwner))

-----------------------------------------------------------------------------
(* The stubs: a Dispatcher charges, then calls the method.                 *)

(* A token without supply answers SetOwner only, and nothing is charged    *)
(* for the others.                                                         *)
checkTokenStatus(t, method) ==
  IsToken(s, t) /\ (s.tokens[t].supply = 0 => method = "SetOwner")

TokenTempletStub(sender, t, limit, call) ==
  LET c == CheckAndPayForGas(s, sender, t, Gas, limit, blk) IN
  IF ~checkTokenStatus(t, call.method) THEN Require(s, FALSE)
  ELSE Dispatch(c,
         CASE call.method = "Transfer" -> TokenTempletTransfer(c, sender, t, call.to, call.value)
           [] call.method = "BatchTransfer" -> BatchTransfer(c, sender, t, call.toList, call.value)
           [] call.method = "AddSupply" -> AddSupply(c, sender, t, call.value)
           [] call.method = "Burn" -> Burn(c, sender, t, call.value)
           [] call.method = "SetOwner" -> SetOwner(c, sender, t, call.to)
           [] call.method = "SetGasPrice" -> TokenTempletSetGasPrice(c, sender, t, call.value))

TokenBasicStub(sender, limit, call) ==
  LET c == CheckAndPayForGas(s, sender, Basic, Gas, limit, blk) IN
  Dispatch(c,
    CASE call.method = "Transfer" -> TokenBasicTransfer(c, sender, call.to, call.value)
      [] call.method = "SetGasPrice" -> TokenBasicSetGasPrice(c, sender, call.value)
      [] call.method = "SetGasBasePrice" -> SetGasBasePrice(c, sender, call.value))

TokenIssueStub(sender, limit, token) ==
  LET c == CheckAndPayForGas(s, sender, TokenIssue, Gas, limit, blk) IN
  Dispatch(c, TokenIssueNewToken(c, sender, token))

-----------------------------------------------------------------------------
(* runDeliverBCTx.  A refused transaction keeps its fee in the contents    *)
(* but adds nothing to the fee and the rewards of the block.               *)
AddRewards(r, values) ==
  [a \in DOMAIN r \cup DOMAIN values |->
     (IF a \in DOMAIN r THEN r[a] ELSE 0) + (IF a \in DOMAIN values THEN values[a] ELSE 0)]

connAfter(c, sender, limit, result) ==
  LET fee == feeOf(s, sender, c, Gas, limit)
  IN IF ~result.ok THEN conn
     ELSE [fee |-> conn.fee + fee,
           rewards |-> AddRewards(conn.rewards,
                                  CalcdRewards(GetStrategy(s, 1), fee, Rewarder))]

(* Invoke finds the stub of the address; a new token's is entered after    *)
(* the transaction.                                                        *)
RegisterIntoContractDocker(result) ==
  IF result.ok THEN docker \cup DOMAIN result.tokens ELSE docker

Deliver(sender, c, limit, result) ==
  /\ txs < MaxTxs
  /\ c \in DOMAIN s.contracts /\ c \in docker
  /\ IsRightHeight(s.contracts[c], 1)
  /\ s' = [result EXCEPT !.ok = TRUE]
  /\ conn' = connAfter(c, sender, limit, result)
  /\ docker' = RegisterIntoContractDocker(result)
  /\ txs' = txs + 1
  /\ UNCHANGED committed

Token(sender, t, limit, call) == Deliver(sender, t, limit, TokenTempletStub(sender, t, limit, call))

Transfer(sender, t, limit) ==
  \E to \in Accounts, v \in Values :
    Token(sender, t, limit, [method |-> "Transfer", to |-> to, value |-> v])

TransferBatch(sender, t, limit) ==
  \E to1, to2 \in Accounts, v \in Values :
    Token(sender, t, limit, [method |-> "BatchTransfer", toList |-> <<to1, to2>>, value |-> v])

ChangeSupply(sender, t, limit) ==
  \E v \in Values, method \in {"AddSupply", "Burn"} :
    Token(sender, t, limit, [method |-> method, value |-> v])

ChangeOwner(sender, t, limit) ==
  \E to \in Accounts : Token(sender, t, limit, [method |-> "SetOwner", to |-> to])

ChangeGasPrice(sender, t, limit) ==
  \E v \in Values : Token(sender, t, limit, [method |-> "SetGasPrice", value |-> v])

BasicCall(sender, limit) ==
  \E v \in Values, to \in Accounts, method \in {"Transfer", "SetGasPrice", "SetGasBasePrice"} :
    Deliver(sender, Basic, limit,
            TokenBasicStub(sender, limit, [method |-> method, to |-> to, value |-> v]))

Issue(sender, limit) ==
  \E name \in Names \cup {Basic}, symbol \in Symbols, v \in Values, may \in BOOLEAN :
    Deliver(sender, TokenIssue, limit,
            TokenIssueStub(sender, limit,
              [owner |-> sender, name |-> name, symbol |-> symbol, supply |-> v,
               addSupply |-> may, burn |-> may, gasPrice |-> 1]))

(* Commit, and the BeginBlock after it, which clears the block's fee.      *)
Commit ==
  /\ s # committed
  /\ committed' = s
  /\ conn' = [fee |-> 0, rewards |-> << >>]
  /\ UNCHANGED <<s, docker, txs>>

(* A crash loses the open block; the docker is built again from the store. *)
Restart ==
  /\ s # committed
  /\ s' = committed
  /\ docker' = registered(committed)
  /\ conn' = [fee |-> 0, rewards |-> << >>]
  /\ UNCHANGED <<committed, txs>>

Next ==
  \/ \E sender \in Senders, limit \in GasLimits :
       \/ \E t \in Names : \/ Transfer(sender, t, limit)
                           \/ TransferBatch(sender, t, limit)
                           \/ ChangeSupply(sender, t, limit)
                           \/ ChangeOwner(sender, t, limit)
                           \/ ChangeGasPrice(sender, t, limit)
       \/ BasicCall(sender, limit)
       \/ Issue(sender, limit)
  \/ Commit
  \/ Restart

Spec == Init /\ [][Next]_vars

-----------------------------------------------------------------------------
SumOf(t) == SumFunctionOnSet([a \in Accounts |-> GetBalance(s, a, t)], Accounts)

(* No address of the strategy in force occurs twice.                       *)
DistinctRewards ==
  LET items == GetStrategy(s, 1)
  IN \A i, j \in DOMAIN items :
       rewardTo(items[i], Rewarder) = rewardTo(items[j], Rewarder) => i = j

(* Transfers, batches with repeated addresses, fees, rewards, burning and  *)
(* changes of owner create no money and lose none: what the accounts hold  *)
(* of a token is its supply, and what the block reports as rewards is what *)
(* it reports as its fee.  The one leak is CalcdRewards with an address    *)
(* that occurs twice, and it only loses.                                   *)
SupplyBacked ==
  /\ \A t \in DOMAIN s.tokens :
       IF t = Basic /\ ~DistinctRewards THEN SumOf(t) <= s.tokens[t].supply
                                        ELSE SumOf(t) = s.tokens[t].supply
  /\ DistinctRewards =>
       conn.fee = SumFunctionOnSet(conn.rewards, DOMAIN conn.rewards)

(* The list of contracts of an account is exact: a contract is in the list *)
(* of its owner, which is the token's owner, and in no other; so           *)
(* deleteChildKey never runs into an address that is not there.            *)
OwnedListsExact ==
  /\ ~s.panic
  /\ \A a \in Accounts : s.owned[a] = {c \in DOMAIN s.contracts : s.contracts[c].owner = a}
  /\ \A t \in DOMAIN s.tokens : s.tokens[t].owner = s.contracts[t].owner

(* The two indexes of tokens answer for every token, so no two tokens      *)
(* share a name or a symbol, whoever created them again without supply.    *)
NamesUnique ==
  \A t \in DOMAIN s.tokens :
    /\ GetTokenAddrByName(s, s.tokens[t].name) = t
    /\ GetTokenAddrBySymbol(s, s.tokens[t].symbol) = t

(* The records of a token agree whatever the order of issuing, issuing     *)
(* again and changing owners, and every token can be called, also in the   *)
(* block that creates it and after a crash.                                *)
RecordsAgree ==
  OwnedListsExact /\ NamesUnique /\ DOMAIN s.tokens \subseteq docker

(* Once a token is issued with a supply, nobody creates it again, its name *)
(* and symbol stay and its supply never falls below the least allowed; a   *)
(* crash aside.  The genesis token's supply never changes.                 *)
IssuedStays ==
  [][\A t \in DOMAIN s.tokens :
       (s.tokens[t].supply > 0 /\ s' # committed) =>
         /\ t \in DOMAIN s'.tokens
         /\ s'.tokens[t].symbol = s.tokens[t].symbol
         /\ IF t = Basic THEN s'.tokens[t].supply = s.tokens[t].supply
                         ELSE s'.tokens[t].supply >= MinSupply]_vars
=============================================================================
