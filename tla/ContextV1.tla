----------------------------- MODULE ContextV1 -----------------------------
(***************************************************************************)
(* What the version 1 contracts are given to work with: the transaction    *)
(* state of abciapp_v1.0/statedb/txstate.go and the operations of          *)
(* stubapi.InvokeContext and smcapi.SmcApi over it.                        *)
(*                                                                         *)
(* An operator takes the contents s as the running transaction sees them   *)
(* and returns the contents it leaves.  The field ok is FALSE once a check *)
(* has refused; what is written after that does not matter, because the    *)
(* transaction is rolled back.  Only the fee is committed apart from the   *)
(* rest, before the method runs.                                           *)
(*                                                                         *)
(* Balances are a function on the pairs <<account, token>> that were ever  *)
(* written, so its domain is also the list of an account's token keys.     *)
(***************************************************************************)
EXTENDS Integers, FiniteSets, SequencesExt

CONSTANTS
  Basic,       \* the genesis token: its address and its name
  MaxUint64,   \* the largest uint64
  MaxGasPrice, \* smc.Max_Gas_Price
  MinSupply,   \* MIN_TOKEN_SUPPLY
  Nobody       \* the empty address

ASSUME WidthAssumption ==
  /\ MaxUint64 \in Nat \ {0}
  /\ MaxGasPrice \in 1 .. MaxUint64
  /\ MinSupply \in Nat \ {0}

Put(f, k, v) == [x \in DOMAIN f \cup {k} |-> IF x = k THEN v ELSE f[x]]

Require(s, p) == [s EXCEPT !.ok = @ /\ p]

-----------------------------------------------------------------------------
(* TxState                                                                 *)
GetBalance(s, a, t) == IF <<a, t>> \in DOMAIN s.bal THEN s.bal[<<a, t>>] ELSE 0

SetBalance(s, a, t, v) == [s EXCEPT !.bal = Put(@, <<a, t>>, v)]

IsToken(s, t) == t \in DOMAIN s.tokens

(* SetToken enters the token under its address, its name and its symbol.   *)
SetToken(s, t, token) ==
  [s EXCEPT !.tokens = Put(@, t, token),
            !.byName = Put(@, token.name, t),
            !.bySymbol = Put(@, token.symbol, t)]

(* A list of keys is kept sorted and without repetitions: a set.           *)
addChildKey(keys, key) == keys \cup {key}

(* SetTokenContract enters the contract in the list of all contracts and   *)
(* in its owner's.                                                         *)
SetTokenContract(s, c, contract) ==
  [s EXCEPT !.contracts = Put(@, c, contract),
            !.owned[contract.owner] = addChildKey(@, c)]

(* deleteChildKey deletes whatever sort.SearchStrings points at, which is  *)
(* the contract only when it is in the list.                               *)
DeleteContractAddrMut(s, a, c) == s
DeleteContractAddr(s, a, c) ==
  IF c \in s.owned[a] THEN [s EXCEPT !.owned[a] = @ \ {c}]
                      ELSE [s EXCEPT !.panic = TRUE]

GetTokenAddrByName(s, n) ==
  IF n \in DOMAIN s.byName THEN s.byName[n] ELSE Nobody

GetTokenAddrBySymbol(s, n) ==
  IF n \in DOMAIN s.bySymbol THEN s.bySymbol[n] ELSE Nobody

GetBaseGasPrice(s) == s.basePrice

SetBaseGasPrice(s, v) == [s EXCEPT !.basePrice = v]

GetStrategys(s) == s.strategies

SetStrategys(s, strategies) == [s EXCEPT !.strategies = strategies]

(* The genesis token has a record of its own beside that of a token.       *)
GetGenesisToken(s) == [address |-> Basic, gasPrice |-> s.genesisPrice]

GetOwnerOfGenesisToken(s) == s.tokens[GetGenesisToken(s).address].owner

(* The second results of safeAdd and safeMul.                              *)
safeMulOverflows(a, b) == a * b > MaxUint64

-----------------------------------------------------------------------------
(* Tokens                                                                  *)

(* A name and a symbol are free when no token has either, or when one      *)
(* token without supply has both and the sender owns it.                   *)
CheckNameAndSybmol(s, sender, name, symbol) ==
  LET t1 == GetTokenAddrByName(s, name)
      t2 == GetTokenAddrBySymbol(s, symbol)
  IN /\ t1 = t2
     /\ t1 # Nobody => /\ IsToken(s, t1)
                       /\ s.tokens[t1].supply = 0
                       /\ s.tokens[t1].owner = sender

(* NewToken: the token, its contract (with the heights of the template)    *)
(* and the owner's balance.                                                *)
NewToken(s, sender, t, token, template) ==
  LET contract == [template EXCEPT !.owner = sender, !.name = token.name]
  IN SetBalance(SetTokenContract(SetToken(s, t, token), t, contract),
                sender, t, token.supply)

TokenSupply(s, t) == s.tokens[t].supply

SetTokenSupply(s, t, v, isAddSupply, isBurn) ==
  SetToken(Require(s, /\ isAddSupply => s.tokens[t].addSupply
                      /\ isBurn => s.tokens[t].burn),
           t, [s.tokens[t] EXCEPT !.supply = v])

SetGasPrice(s, t, v) == SetToken(s, t, [s.tokens[t] EXCEPT !.gasPrice = v])

(* The owner of the token and of its contract, and both owners' lists.     *)
SetTokenNewOwner(s, t, owner) ==
  DeleteContractAddr(
    SetTokenContract(SetToken(s, t, [s.tokens[t] EXCEPT !.owner = owner]),
                     t, [s.contracts[t] EXCEPT !.owner = owner]),
    s.tokens[t].owner, t)

(* EventHandler.transferToken: what the later contracts move tokens with.  *)
TransferByAddrMut(s, t, from, to, v) ==
  LET old == GetBalance(s, to, t) IN
  SetBalance(SetBalance(Require(s, v > 0 /\ GetBalance(s, from, t) >= v),
                        from, t, GetBalance(s, from, t) - v),
             to, t, old + v)
TransferByAddr(s, t, from, to, v) ==
  LET paid == SetBalance(Require(s, /\ v > 0
                                    /\ from # to
                                    /\ t # Nobody
                                    /\ GetBalance(s, from, t) >= v),
                         from, t, GetBalance(s, from, t) - v)
  IN SetBalance(paid, to, t, GetBalance(paid, to, t) + v)

-----------------------------------------------------------------------------
(* Reward strategies.  A strategy is a sequence of items, an item the name *)
(* of the rewarded ("validators" being the proposer's reward address), an  *)
(* address and a percentage.  The percentage is written in decimal: digits *)
(* is what is left without the point, length how many digits there are,    *)
(* and decimals how many follow the point, -1 when there is none.          *)
Power10(n) == 10 ^ n

(* CalcdRewards appends a zero to the divisor for every place from the     *)
(* point on and one more.  Without a point strings.Index is -1, so that    *)
(* every digit counts as a decimal.                                        *)
divisor(p) == Power10((IF p.decimals < 0 THEN p.length ELSE p.decimals) + 2)

rewardValue(v, p) == (v * p.digits) \div divisor(p)

rewardTo(item, rewarder) ==
  IF item.name = "validators" THEN rewarder ELSE item.address

sumValue(strategy, v) ==
  FoldLeft(LAMBDA n, item : n + rewardValue(v, item.percent), 0, strategy)

(* Two items for one address assign, rather than add, their values; the    *)
(* difference to the whole fee goes to the rewarder.                       *)
sharesOf(strategy, v, rewarder) ==
  FoldLeft(LAMBDA m, item : Put(m, rewardTo(item, rewarder),
                                rewardValue(v, item.percent)),
           << >>, strategy)
CalcdRewards(strategy, v, rewarder) ==
  LET shares == sharesOf(strategy, v, rewarder)
      rest   == v - sumValue(strategy, v)
      own    == IF rewarder \in DOMAIN shares THEN shares[rewarder] ELSE 0
  IN IF rest > 0 THEN Put(shares, rewarder, own + rest) ELSE shares

(* safeMul overflows, or the shares exceed the fee.                        *)
CalcdRewardsFails(strategy, v) ==
  \/ \E i \in DOMAIN strategy : safeMulOverflows(v, strategy[i].percent.digits)
  \/ sumValue(strategy, v) > v

setRewardBalances(s, values) ==
  [s EXCEPT !.bal =
     [k \in DOMAIN @ \cup {<<a, Basic>> : a \in DOMAIN values} |->
        IF k[2] = Basic /\ k[1] \in DOMAIN values
        THEN GetBalance(s, k[1], Basic) + values[k[1]] ELSE @[k]]]

(* GetStrategy: the strategy of the greatest effect height reached.        *)
GetStrategy(s, height) ==
  FoldLeft(LAMBDA best, x : IF x.effect <= height /\ x.effect > best.effect
                            THEN x ELSE best,
           [items |-> << >>, effect |-> 0], GetStrategys(s)).items

(* CheckEffectHeight; height is that of the block before the current one.  *)
CheckEffectHeight(s, effect, height) ==
  /\ effect > height
  /\ \A i \in DOMAIN GetStrategys(s) : effect > GetStrategys(s)[i].effect

(* The percentage in hundredths, as strconv.ParseFloat reads it.           *)
hundredths(p) ==
  IF p.decimals < 0 THEN p.digits * 100 ELSE p.digits * Power10(2 - p.decimals)

CheckRewardStrategy(items) ==
  /\ \A i \in DOMAIN items : items[i].percent.decimals <= 2
  /\ FoldLeft(LAMBDA n, x : n + hundredths(x.percent), 0, items) = 10000
  /\ \E i \in DOMAIN items : items[i].name = "validators"

(* UpdateRewardStrategy drops the strategies whose height is past, but for *)
(* the latest, and appends the new one.                                    *)
UpdateRewardStrategy(s, items, effect, height) ==
  LET past   == SelectSeq(GetStrategys(s), LAMBDA x : x.effect <= height)
      future == SelectSeq(GetStrategys(s), LAMBDA x : x.effect > height)
      latest == FoldLeft(LAMBDA pre, x : IF x.effect > pre.effect THEN x ELSE pre,
                         [items |-> << >>, effect |-> 0], past)
      kept   == IF latest.effect = 0 THEN << >> ELSE <<latest>>
  IN SetStrategys(s, (kept \o future) \o <<[items |-> items, effect |-> effect]>>)

-----------------------------------------------------------------------------
(* The fee                                                                 *)

(* calcFee charges the gas limit when the method needs more.               *)
realgas(gas, limit) == IF limit < gas THEN limit ELSE gas

(* The price is that of the contract's token.  A contract without a token  *)
(* uses the price in the genesis token's own record, which SetGasPrice     *)
(* never changes.                                                          *)
gasPriceOf(s, c) ==
  IF IsToken(s, c) THEN s.tokens[c].gasPrice ELSE GetGenesisToken(s).gasPrice

(* CheckAndPayForGas: what payer is charged, whether anything is charged,  *)
(* and whether the method may run.  A payer who cannot pay the fee is      *)
(* charged all it has.                                                     *)
feeOf(s, payer, c, gas, limit) ==
  LET fee == realgas(gas, limit) * gasPriceOf(s, c)
      bal == GetBalance(s, payer, Basic)
  IN IF bal < fee THEN bal ELSE fee

feePaid(s, payer, c, gas, limit) ==
  /\ limit >= gas
  /\ GetBalance(s, payer, Basic) >= gas * gasPriceOf(s, c)

calcFeeFails(s, c, gas, limit) ==
  \/ gasPriceOf(s, c) = 0
  \/ safeMulOverflows(realgas(gas, limit), gasPriceOf(s, c))

(* CheckValidatorRewardAddr: the address the block names must still be the *)
(* one the proposer's record has.                                          *)
CheckValidatorRewardAddr(s, proposer, rewarder) ==
  proposer \in DOMAIN s.validators /\ s.validators[proposer].reward = rewarder

(* blk is the block: its height, its proposer and the reward address.      *)
CheckAndPayForGas(s, payer, c, gas, limit, blk) ==
  LET v == feeOf(s, payer, c, gas, limit)
      strategy == GetStrategy(s, blk.height)
  IN IF \/ ~CheckValidatorRewardAddr(s, blk.proposer, blk.rewarder)
        \/ calcFeeFails(s, c, gas, limit)
        \/ CalcdRewardsFails(strategy, v)
     THEN Require(s, FALSE)
     ELSE setRewardBalances(
            SetBalance(Require(s, feePaid(s, payer, c, gas, limit)), payer, Basic,
                       GetBalance(s, payer, Basic) - v),
            CalcdRewards(strategy, v, blk.rewarder))

(* A Dispatcher charges the fee, then runs the method on what that left.   *)
(* When the method refuses, only its own writes are rolled back.           *)
Dispatch(paid, done) ==
  IF paid.ok /\ done.ok THEN done ELSE [paid EXCEPT !.ok = FALSE]

-----------------------------------------------------------------------------
(* Contracts.  IsRightHeight: in force at this height.                     *)
IsRightHeight(contract, height) ==
  /\ contract.effect <= height
  /\ contract.lose = 0 \/ contract.lose > height

ForbidSpecificContract(s, c, lose) ==
  SetTokenContract(Require(s, /\ s.contracts[c].lose = 0
                              /\ lose > s.contracts[c].effect),
                   c, [s.contracts[c] EXCEPT !.lose = lose])

(* CheckAndForbidOldVersionContract: versions is the sequence of addresses *)
(* the name has, in the order of the addresses.  Every version still in    *)
(* force ends at the new one's height.  bForbid is set anew for each, so   *)
(* that the last address alone decides it.                                 *)
bForbid(s, versions) ==
  versions # << >> /\ s.contracts[Last(versions)].lose # 0

CheckAndForbidOldVersionContract(s, versions, version, effect) ==
  LET old == {versions[i] : i \in DOMAIN versions}
  IN [s EXCEPT !.ok = @ /\ (\A c \in old : /\ s.contracts[c].version <= version
                                           /\ effect > s.contracts[c].effect),
               !.contracts = [c \in DOMAIN @ |->
                  IF c \in old /\ @[c].lose = 0
                  THEN [@[c] EXCEPT !.lose = effect] ELSE @[c]]]

(* SetNewContract, whose owner is that of the system contract.             *)
SetNewContract(s, c, owner, name, version, effect) ==
  SetTokenContract(s, c, [owner |-> owner, name |-> name, version |-> version,
                          effect |-> effect, lose |-> 0, chain |-> 0])

-----------------------------------------------------------------------------
(* Validators                                                              *)

(* The power of a new validator is added without the test for overflow.    *)
PowerSum(power) == MapThenSumSet(LAMBDA v : power[v], DOMAIN power)

(* checkValidatorsPower: no validator may reach a third of the whole.      *)
checkValidatorsPowerMut(s, v, power) == TRUE
checkValidatorsPower(s, v, power) ==
  LET others == [x \in DOMAIN s.validators |->
                   IF x = v THEN power ELSE s.validators[x].power]
      known  == PowerSum(others)
      total  == IF v \in DOMAIN others THEN known
                ELSE (known + power) % (MaxUint64 + 1)
      max    == Max({power} \cup {others[x] : x \in DOMAIN others})
  IN /\ known <= MaxUint64
     /\ max < total \div 3

SetValidator(s, v, validator) ==
  [s EXCEPT !.validators = Put(@, v, validator)]

AddValidator(s, v, name, reward, power) ==
  SetValidator(Require(s, power # 0 /\ checkValidatorsPower(s, v, power)),
               v, [name |-> name, reward |-> reward, power |-> power])

HasValidator(s, v) == v \in DOMAIN s.validators /\ s.validators[v].power # 0

(* CheckValidatorName reads the keys of the list of validators, which are  *)
(* node addresses, as public keys in hexadecimal: hex.DecodeString fails   *)
(* on each, and the address of the key it leaves is no validator's.        *)
nodeAddrOfKey(v) == Nobody

CheckValidatorName(s, name) ==
  /\ DOMAIN s.validators # {}
  /\ \A k \in DOMAIN s.validators :
       LET v == nodeAddrOfKey(k)
       IN ~(v \in DOMAIN s.validators /\ s.validators[v].name = name /\ s.validators[v].power # 0)

SetValidatorPower(s, v, power) ==
  IF v \in DOMAIN s.validators /\ checkValidatorsPower(s, v, power)
  THEN SetValidator(s, v, [s.validators[v] EXCEPT !.power = power])
  ELSE Require(s, FALSE)

SetValidatorRewardAddr(s, v, reward) ==
  IF v \in DOMAIN s.validators /\ reward # Nobody
  THEN SetValidator(s, v, [s.validators[v] EXCEPT !.reward = reward])
  ELSE Require(s, FALSE)
=============================================================================
