------------------------------ MODULE SystemV1 ------------------------------
(***************************************************************************)
(* The version 1 system contract (validators, reward strategies, deploying *)
(* and forbidding contracts), the issue of tokens beside it, and the       *)
(* upgrade1to2 contract that turns a version 1 chain into a version 2 one. *)
(*                                                                         *)
(* The address of a contract stands for its name, its version and the      *)
(* chain version that made it.  How addresses sort is not known: order is  *)
(* the order in which the versions of a name come in the list of all       *)
(* contracts, and any order is possible.                                   *)
(***************************************************************************)
EXTENDS ContextV1

CONSTANTS
  Owner, Other,  \* the owner of the genesis contracts and somebody else
  Validators, Powers, RewardAddrs,
  Named,         \* the validators transactions are about
  GenesisPower,  \* the powers of the genesis validators
  GenesisShares, \* the strategy at genesis
  Shares,        \* strategies SetRewardStrategy may be given
  Orders,        \* the orders of versions
  Internal,      \* the names whose contracts are deployed and forbidden
  TokenNames,    \* the tokens that may be issued (token-templet-...)
  V2Lists,       \* the contracts an upgrade may bring
  Proposer,
  MaxHeight,     \* bound: blocks
  MaxTxs         \* bound: transactions

VARIABLES
  s,        \* the contents
  order,
  height,   \* the block that is delivered
  header,   \* the chain version in the block's header
  app,      \* the chain version of the connection, committed with the block
  rewarder, \* the reward address in the header
  conn,     \* conn.validators: the validators to report
  tm,       \* what the consensus engine has been told of the validators
  txs

vars == <<s, order, height, header, app, rewarder, conn, tm, txs>>

ASSUME SystemAssumption == Nobody \notin Validators

GenesisNames == {"token-basic", "token-issue", "token-templet", "system"}
Addr(name, version, chain) == <<name, version, chain>>
System == Addr("system", 1, 0)

blk == [height |-> height, proposer |-> Proposer, rewarder |-> rewarder]

-----------------------------------------------------------------------------
Genesis ==
  LET contract(name) == [owner |-> Owner, name |-> name, version |-> 1,
                         effect |-> 1, lose |-> 0, chain |-> 0]
      first == {Addr(n, 1, 0) : n \in GenesisNames \cup Internal}
  IN [ok |-> TRUE, panic |-> FALSE,
      bal |-> [k \in {Owner, Other} \X {Basic} |-> MaxTxs],
      tokens |-> (Basic :> [owner |-> Owner, name |-> "token-basic", symbol |-> "token-basic",
                            supply |-> 2 * MaxTxs, addSupply |-> FALSE,
                            burn |-> FALSE, gasPrice |-> 1]),
      byName |-> ("token-basic" :> Basic), bySymbol |-> ("token-basic" :> Basic),
      contracts |-> [c \in first |-> contract(c[1])],
      owned |-> [a \in {Owner, Other} |-> IF a = Owner THEN first ELSE {}],
      genesisPrice |-> 1, basePrice |-> 1,
      strategies |-> <<[items |-> GenesisShares, effect |-> 1]>>,
      validators |-> [v \in DOMAIN GenesisPower |->
                        [name |-> v, reward |-> Owner, power |-> GenesisPower[v]]],
      versionList |-> << >>,
      org |-> {},          \* the contracts of the genesis organisation
      effects |-> << >>]   \* what version 2 starts at a height

Init ==
  /\ s = Genesis
  /\ order \in Orders
  /\ height = 2 /\ header = 0 /\ app = 0
  /\ rewarder = Owner
  /\ conn = {} /\ tm = s.validators
  /\ txs = 0

-----------------------------------------------------------------------------
(* Validators and rewards.  The system contract answers these only while   *)
(* the chain has version 1.                                                *)
mayManage(c, sender) == Require(c, header = 0 /\ sender = Owner)

NewValidator(c, sender, v, name, reward, power) ==
  AddValidator(Require(mayManage(c, sender),
                       /\ ~HasValidator(c, v)
                       /\ CheckValidatorName(c, name)
                       /\ reward # Nobody),
               v, name, reward, power)

SetPower(c, sender, v, power) ==
  SetValidatorPower(Require(mayManage(c, sender), HasValidator(c, v)), v, power)

SetRewardAddr(c, sender, v, reward) ==
  SetValidatorRewardAddr(Require(mayManage(c, sender), HasValidator(c, v)), v, reward)

SetRewardStrategy(c, sender, items, effect) ==
  UpdateRewardStrategy(Require(mayManage(c, sender),
                               /\ CheckEffectHeight(c, effect, height - 1)
                               /\ CheckRewardStrategy(items)),
                       items, effect, height - 1)

-----------------------------------------------------------------------------
(* Contracts by name, in the order of the list of all contracts; what the  *)
(* upgrade adds comes at its end.                                          *)
GetContractsListByName(c, name) ==
  LET at(chain) == SelectSeq([i \in DOMAIN order |-> Addr(name, order[i], chain)],
                             LAMBDA a : a \in DOMAIN c.contracts)
  IN at(0) \o at(2)

isDisabled(c, name) ==
  LET old == {c.contracts[a] : a \in ToSet(GetContractsListByName(c, name))}
  IN \/ header # 0 /\ name \in TokenNames \cup GenesisNames
     \/ \E x \in old : x.chain # 0
     \/ old # {} /\ \A x \in old : x.lose # 0

getOrgIDAndConVerList(c, name) ==
  IF name \in DOMAIN c.versionList THEN c.versionList[name] ELSE << >>

DeployInternalContract(c, sender, name, version, effect) ==
  LET versions == GetContractsListByName(c, name)
      a        == Addr(name, version, 0)
      listed   == IF header = 0 THEN c
                  ELSE [c EXCEPT !.versionList =
                          Put(@, name, Append(getOrgIDAndConVerList(c, name), a))]
  IN SetNewContract(
       CheckAndForbidOldVersionContract(
         Require(listed, /\ ~isDisabled(c, name)
                         /\ sender = Owner
                         /\ effect > height
                         /\ ~bForbid(c, versions)),
         versions, version, effect),
       a, Owner, name, version, effect)

ForbidInternalContract(c, sender, a, effect) ==
  ForbidSpecificContract(Require(c, /\ sender = Owner
                                    /\ c.contracts[a].chain = 0
                                    /\ effect > height), a, effect)

(* A token's contract takes its heights from the template of the version   *)
(* of token-issue that is called; there may be none.                       *)
NewTokenTx(c, sender, name, version) ==
  LET t == Addr(name, version, 0)
      template == Addr("token-templet", version, 0)
  IN IF CheckNameAndSybmol(c, sender, name, name) /\ template \in DOMAIN c.contracts
     THEN NewToken(c, sender, t,
                   [owner |-> sender, name |-> name, symbol |-> name, supply |-> MinSupply,
                    addSupply |-> FALSE, burn |-> FALSE, gasPrice |-> 1],
                   c.contracts[template])
     ELSE Require(c, FALSE)

-----------------------------------------------------------------------------
(* upgrade1to2, and the records it reads and writes                        *)
next == height + 1

getContract(c, a) == c.contracts[a]
getAllContract(c) == DOMAIN c.contracts
setContract(c, new) == [c EXCEPT !.contracts = new @@ @]
setContractVersionInfo(c, lists) == [c EXCEPT !.versionList = lists @@ @]
setOrganization(c, new) == [c EXCEPT !.org = new]

getAccountContractAddrs(c, owner) == c.owned[owner]
setAccountContractAddrs(c, owner, addrs) == [c EXCEPT !.owned[owner] = addrs]

getEffectHeightContractAddrs(c, h) == IF h \in DOMAIN c.effects THEN c.effects[h] ELSE << >>
setEffectHeightContractAddrs(c, h, addrs) == [c EXCEPT !.effects = Put(@, h, addrs)]

\* getAppState: the version the last block committed.
getAppState == [ChainVersion |-> header]

isGenesisContract(name) == name \in GenesisNames

isTokenContract(x) == x.name \in TokenNames /\ x.chain = 0

updateContract(x) ==
  IF \/ x.name = "token-basic"
     \/ x.lose = 0 /\ (isTokenContract(x) \/ x.name \in {"token-templet", "token-issue"})
  THEN [x EXCEPT !.lose = next] ELSE x

(* forbidMining: the first contract of that name, whatever its heights.    *)
forbidMining(c) ==
  LET versions == GetContractsListByName(c, "mining")
  IN IF versions = << >> THEN c
     ELSE [c EXCEPT !.contracts[Head(versions)].lose = next]

V2Contract(owner, name) ==
  [owner |-> owner, name |-> name, version |-> 1, effect |-> next, lose |-> 0, chain |-> 2]

checkTokenBasicAndTokenIssue(list) == {"token-basic", "token-issue"} \subseteq list.names

checkOrgSigner(list) == list.signers = 1

(* updateV1Contract: any other contract's name gets a list of one version, *)
(* that of the last of its contracts.                                      *)
updateV1Contract(c, name) == <<Last(GetContractsListByName(c, name))>>

getTokenContract(c, name) == Head(GetContractsListByName(c, name))

(* The versions of a new contract's name: the old token-basic and          *)
(* token-issue stay in their lists.                                        *)
newVersions(c, name) ==
  IF name \in {"token-basic", "token-issue"} THEN <<getTokenContract(c, name), Addr(name, 1, 2)>>
                                             ELSE <<Addr(name, 1, 2)>>

buildAndSaveNewContract(c, list) ==
  LET new == {Addr(n, 1, 2) : n \in list.names}
      built == Require(c, /\ checkTokenBasicAndTokenIssue(list)
                          /\ checkOrgSigner(list)
                          /\ list.built
                          /\ list.mines = 1)
      saved == setContractVersionInfo(
                 setContract(built, [a \in new |-> V2Contract(Owner, a[1])]),
                 [n \in list.names |-> newVersions(c, n)])
      timed == setEffectHeightContractAddrs(saved, next,
                 getEffectHeightContractAddrs(saved, next) \o SetToSeq(new))
  IN setOrganization(
       setAccountContractAddrs(timed, Owner, getAccountContractAddrs(c, Owner) \cup new), new)

(* upgradeTokenContract: the tokens whose contract ends with this block.   *)
upgradeToken(c, old) ==
  LET x == getContract(c, old)
      a == Addr(x.name, 1, 2)
      saved == setContractVersionInfo(setContract(c, a :> V2Contract(x.owner, x.name)),
                                      x.name :> <<old, a>>)
  IN setAccountContractAddrs(saved, x.owner, getAccountContractAddrs(c, x.owner) \cup {a})

upgradeTokenContract(c) ==
  LET ends(a) == isTokenContract(getContract(c, a)) /\ getContract(c, a).lose = next
  IN FoldSet(LAMBDA a, acc : upgradeToken(acc, a), c, {a \in getAllContract(c) : ends(a)})

(* Genesis and token contracts end, the others get their list of versions. *)
updated(c) ==
  LET kept == {a \in getAllContract(c) : /\ ~isGenesisContract(getContract(c, a).name)
                                         /\ ~isTokenContract(getContract(c, a))}
      names == {getContract(c, a).name : a \in kept}
  IN setContractVersionInfo(
       setContract(c, [a \in getAllContract(c) |->
                         IF a \in kept THEN getContract(c, a) ELSE updateContract(getContract(c, a))]),
       [n \in names |-> updateV1Contract(c, n)])

(* The version is looked up in the committed application state, so that a  *)
(* second upgrade in the same block is not refused.                        *)
Upgrade(c, sender, list) ==
  LET allowed == Require(c, /\ getAppState.ChainVersion = 0
                            /\ sender = Owner
                            /\ c.tokens[Basic].owner = sender)
  IN upgradeTokenContract(buildAndSaveNewContract(forbidMining(updated(allowed)), list))

-----------------------------------------------------------------------------
(* The stubs                                                               *)
SystemStub(sender, call) ==
  LET c == CheckAndPayForGas(s, sender, System, 1, 1, blk)
  IN Dispatch(c,
       CASE call.method = "NewValidator" -> NewValidator(c, sender, call.v, call.name, call.reward, call.power)
         [] call.method = "SetPower" -> SetPower(c, sender, call.v, call.power)
         [] call.method = "SetRewardAddr" -> SetRewardAddr(c, sender, call.v, call.reward)
         [] call.method = "SetRewardStrategy" -> SetRewardStrategy(c, sender, call.items, call.effect)
         [] call.method = "DeployInternalContract" ->
              DeployInternalContract(c, sender, call.name, call.version, call.effect)
         [] call.method = "ForbidInternalContract" ->
              ForbidInternalContract(c, sender, call.address, call.effect))

Upgrade1to2Stub(sender, list) ==
  LET c == CheckAndPayForGas(s, sender, System, 1, 1, blk)
  IN Dispatch(c, Upgrade(c, sender, list))

(* The version 1 contracts of a name in force; a new one of system or      *)
(* token-issue gets its stub when the node is started again.               *)
InForce(name) ==
  {a \in DOMAIN s.contracts : a[1] = name /\ a[3] = 0 /\ IsRightHeight(s.contracts[a], height)}

DeliverLastMut(name, result, reported, version) ==
  /\ txs < MaxTxs
  /\ InForce(name) # {}
  /\ s' = [result EXCEPT !.ok = TRUE]
  /\ conn' = IF result.ok THEN reported ELSE conn
  /\ app' = IF result.ok THEN version ELSE app
  /\ txs' = txs + 1
  /\ UNCHANGED <<order, height, header, rewarder, tm>>
Deliver(name, result, reported, version) ==
  /\ txs < MaxTxs
  /\ InForce(name) # {}
  /\ s' = [result EXCEPT !.ok = TRUE]
  /\ conn' = IF result.ok THEN conn \cup reported ELSE conn
  /\ app' = IF result.ok THEN version ELSE app
  /\ txs' = txs + 1
  /\ UNCHANGED <<order, height, header, rewarder, tm>>

ValidatorTx(sender, call) ==
  Deliver("system", SystemStub(sender, call), {call.v}, app)

NewValidatorTx ==
  \E sender \in {Owner, Other}, v \in Named, name \in Named, power \in Powers, reward \in RewardAddrs :
    ValidatorTx(sender, [method |-> "NewValidator", v |-> v, name |-> name,
                         power |-> power, reward |-> reward])

SetPowerTx ==
  \E v \in Named, power \in Powers :
    ValidatorTx(Owner, [method |-> "SetPower", v |-> v, power |-> power])

SetRewardAddrTx ==
  \E v \in Named, reward \in RewardAddrs :
    ValidatorTx(Owner, [method |-> "SetRewardAddr", v |-> v, reward |-> reward])

StrategyTx ==
  \E items \in Shares, effect \in height .. MaxHeight + 1 :
    Deliver("system", SystemStub(Owner, [method |-> "SetRewardStrategy", items |-> items,
                                       effect |-> effect]), {}, app)

DeployTx ==
  \E name \in Internal, version \in 1 .. Len(order), effect \in height .. MaxHeight + 1 :
    Deliver("system", SystemStub(Owner, [method |-> "DeployInternalContract", name |-> name,
                                       version |-> version, effect |-> effect]), {}, app)

ForbidTx ==
  \E a \in DOMAIN s.contracts, effect \in height .. MaxHeight + 1 :
    /\ a[1] \in Internal
    /\ Deliver("system", SystemStub(Owner, [method |-> "ForbidInternalContract",
                                           address |-> a, effect |-> effect]), {}, app)

IssueTx ==
  \E sender \in {Owner, Other}, name \in TokenNames, a \in InForce("token-issue") :
    LET c == CheckAndPayForGas(s, sender, a, 1, 1, blk)
    IN Deliver("token-issue", Dispatch(c, NewTokenTx(c, sender, name, a[2])), {}, app)

UpgradeTx ==
  \E list \in V2Lists : Deliver("system", Upgrade1to2Stub(Owner, list), {}, 2)

GetValidator(v) == s.validators[v]

(* EndBlock reports the validators; Commit writes the chain version, which *)
(* the next header carries with the proposer's reward address.             *)
EndBlock ==
  /\ height < MaxHeight
  /\ tm' = [v \in DOMAIN tm \cup conn |-> IF v \in conn THEN GetValidator(v) ELSE tm[v]]
  /\ conn' = {}
  /\ height' = height + 1
  /\ header' = app
  /\ rewarder' = tm'[Proposer].reward
  /\ UNCHANGED <<s, order, app, txs>>

Next ==
  \/ NewValidatorTx \/ SetPowerTx \/ SetRewardAddrTx \/ StrategyTx \/ DeployTx \/ ForbidTx \/ IssueTx \/ UpgradeTx
  \/ EndBlock

Spec == Init /\ [][Next]_vars

-----------------------------------------------------------------------------
PowerOf(c) == [v \in DOMAIN c.validators |-> c.validators[v].power]

(* A transaction that changes a power leaves every validator below a third *)
(* of the whole, the sum that the uint64 cannot hold included.             *)
NobodyHoldsAThird ==
  [][PowerOf(s') # PowerOf(s) =>
       \A v \in DOMAIN s'.validators :
         3 * s'.validators[v].power < PowerSum(PowerOf(s'))]_vars

(* Between blocks the consensus engine knows every validator as the        *)
(* contents have it, whatever was changed twice or refused in the block.   *)
ReportedToConsensus ==
  \A v \in DOMAIN s.validators :
    v \notin conn => v \in DOMAIN tm /\ tm[v] = s.validators[v]

(* Two contracts of one name that are both in force at some height.        *)
inForceAt(c, h, a, b) == IsRightHeight(c.contracts[a], h) /\ IsRightHeight(c.contracts[b], h)
together(c, from, a, b) ==
  /\ {a, b} \subseteq DOMAIN c.contracts /\ a # b /\ a[1] = b[1]
  /\ \E h \in from .. MaxHeight + 1 : inForceAt(c, h, a, b)

(* What the upgrade leaves beside the contract it brings: the mining       *)
(* contracts but the first in the list, and a token-issue whose end had    *)
(* been set before, by forbidding it or deploying another.                 *)
firstMining(a) == a = Head(GetContractsListByName(s, "mining"))

keepsItsEnd(a, b) ==
  /\ a[3] = 0 /\ b[3] = 2
  /\ \/ a[1] = "mining" /\ ~firstMining(a)
     \/ a[1] = "token-issue" /\ s.contracts[a].lose # 0

(* The upgrade gives every token-basic, and the first mining contract,     *)
(* this block as its last, also one that had ended: in the rest of the     *)
(* block it is in force again.                                             *)
revived(a, b) ==
  /\ a[1] = "token-basic" \/ (a[1] = "mining" /\ firstMining(a))
  /\ a[3] = 0 /\ b[3] = 0
  /\ s.contracts[a].lose \in 1 .. height
  /\ \A h \in next .. MaxHeight + 1 : ~inForceAt(s', h, a, b)

=============================================================================
