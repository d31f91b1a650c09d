-------------------------------- MODULE BYB --------------------------------
(***************************************************************************)
(* The BYB token of abciapp_v1.0/contract/tokenbyb.  Every BYB has a       *)
(* chromo: white (0) while the contract's account holds it, and a colour   *)
(* of its own for every stockholder.  An account's holding is a sequence   *)
(* of amounts by chromo, kept beside the plain balance of the token.       *)
(*                                                                         *)
(* A transfer takes from every chromo in proportion, in two rounds of      *)
(* integer division; what leaves a black hole is white again.              *)
(***************************************************************************)
EXTENDS ContextV1

CONSTANTS
  Byb,            \* the address of the contract
  ContractAcct,   \* the account of the contract
  Owner,          \* who owns the contract at genesis
  Users, Miner,   \* other accounts; the rewarded one
  Values,         \* amounts
  MinTotalSupply, \* minTotalSupply
  maxStockHolder,
  Height,         \* the block's height
  Funds,          \* what everybody has of the genesis token
  OldTokens,      \* tokens named BYB that token-issue may have issued before
  MaxTxs          \* bound: transactions

VARIABLES s, txs

vars == <<s, txs>>

Accounts == {Owner, ContractAcct, Byb, Miner} \cup Users
Senders == {Owner} \cup Users
blk == [height |-> Height, proposer |-> Miner, rewarder |-> Miner]
owner(c) == c.contracts[Byb].owner
Old == "old"

-----------------------------------------------------------------------------
(* The records of the contract                                             *)
white == 0

calcTotalBalance(byb) == FoldLeft(LAMBDA n, x : n + x.value, 0, byb)

getBybBalance(c, a) == IF a \in DOMAIN c.details THEN c.details[a] ELSE << >>

(* The holding by chromo, and its total as the balance of the token.       *)
setBybBalance(c, a, byb) ==
  SetBalance([c EXCEPT !.details = Put(@, a, byb)], a, Byb, calcTotalBalance(byb))

getBlackHole(c) == c.holes
setBlackHole(c, holes) == [c EXCEPT !.holes = holes]
getBybStockHolders(c) == c.holders
setBybStockHolders(c, holders) == [c EXCEPT !.holders = holders]
getCurChromo(c) == c.chromo
setCurChromo(c, chromo) == [c EXCEPT !.chromo = chromo]

checkAddress(c, a) ==
  IF a \in {owner(c), ContractAcct, Byb} THEN "committee"
  ELSE IF a \in getBlackHole(c) THEN "hole"
  ELSE IF a \in getBybStockHolders(c) THEN "stockholder" ELSE "user"

ownsChromo(byb, chromo) == \E i \in DOMAIN byb : byb[i].chromo = chromo

isStockHolderOwnTheChromo(c, a, chromo) == ownsChromo(getBybBalance(c, a), chromo)

indexOf(byb, chromo) ==
  IF ownsChromo(byb, chromo) THEN SelectInSeq(byb, LAMBDA x : x.chromo = chromo) ELSE 0

-----------------------------------------------------------------------------
(* Init.  A token named BYB that is there already must be the sender's and *)
(* without supply; its contract ends with the block before this one.       *)
getTokenAddrByName(c) == GetTokenAddrByName(c, "BYB")
getTokenAddrBySymbol(c) == GetTokenAddrBySymbol(c, "BYB")

checkBybToken(c, sender) ==
  LET t == getTokenAddrByName(c)
  IN IF t = Nobody /\ getTokenAddrBySymbol(c) = Nobody THEN c
     ELSE IF /\ t = getTokenAddrBySymbol(c)
             /\ c.tokens[t].owner = sender
             /\ c.tokens[t].supply = 0
             /\ t # Byb
          THEN SetTokenContract(c, t, [c.contracts[t] EXCEPT !.lose = Height])
          ELSE Require(c, FALSE)

initBybToken(c, supply, addSupply, burn) ==
  setBybBalance(SetToken(c, Byb, [owner |-> owner(c), name |-> "BYB", symbol |-> "BYB",
                                  supply |-> supply, addSupply |-> addSupply, burn |-> burn,
                                  gasPrice |-> GetBaseGasPrice(c)]),
                ContractAcct, <<[chromo |-> white, value |-> supply]>>)

InitToken(c, sender, supply, addSupply, burn) ==
  initBybToken(checkBybToken(Require(c, sender = owner(c) /\ supply >= MinTotalSupply), sender),
               supply, addSupply, burn)

-----------------------------------------------------------------------------
(* Black holes and stockholders                                            *)
updateBlackHole(c, a) == setBlackHole(c, getBlackHole(c) \cup {a})

NewBlackHole(c, sender, a) ==
  updateBlackHole(Require(c, sender = owner(c) /\ checkAddress(c, a) = "user"), a)

calcNewChromo(c) == getCurChromo(c) + 1

makeByb(c, value) == [chromo |-> calcNewChromo(c), value |-> value]

(* A stockholder who holds something gets more of the first chromo.  One   *)
(* who holds nothing gets a new one; a user must hold nothing.             *)
makeStockHolderAndBybBalance(c, a, value) ==
  LET byb  == getBybBalance(c, a)
      role == checkAddress(c, a)
      new  == setCurChromo(c, calcNewChromo(c))
      held == IF byb = << >> THEN setBybBalance(new, a, <<makeByb(c, value)>>)
              ELSE setBybBalance(c, a, [byb EXCEPT ![1].value = @ + value])
      listed == IF role = "user"
                THEN setBybStockHolders(held, getBybStockHolders(c) \cup {a}) ELSE held
  IN Require(listed,
             /\ role \in {"user", "stockholder"}
             /\ role = "user" => /\ Cardinality(getBybStockHolders(c)) < maxStockHolder
                                 /\ byb = << >>)

setOwnerAndStockHolderBalance(c, value, balance) ==
  setBybBalance(c, ContractAcct,
                [getBybBalance(c, ContractAcct) EXCEPT ![1].value = balance - value])

NewStockHolder(c, sender, a, value) ==
  LET balance == GetBalance(c, ContractAcct, Byb)
  IN IF sender = owner(c) /\ value > 0 /\ value < balance
     THEN setOwnerAndStockHolderBalance(makeStockHolderAndBybBalance(c, a, value), value, balance)
     ELSE Require(c, FALSE)

delStockHolder(c, a) ==
  setBybStockHolders(Require(c, a \in getBybStockHolders(c)), getBybStockHolders(c) \ {a})

DelStockHolder(c, sender, a) ==
  delStockHolder(Require(c, sender = owner(c) /\ getBybBalance(c, a) = << >>), a)

-----------------------------------------------------------------------------
(* Transfers                                                               *)

(* One round: from every chromo the part value * x / total, at least one   *)
(* and at most what is still missing.  What is left of it stays.           *)
calcTransferRoundMut(byb, value) ==
  LET total == calcTotalBalance(byb)
      take(r, x) ==
        IF x.value = 0 THEN r
        ELSE IF r.missing = 0 THEN [r EXCEPT !.kept = Append(@, x)]
        ELSE LET p == (value * x.value) \div total
                 left == [x EXCEPT !.value = @ - p]
             IN [missing |-> r.missing - p,
                 payee |-> Append(r.payee, [x EXCEPT !.value = p]),
                 kept |-> IF left.value > 0 THEN Append(r.kept, left) ELSE r.kept]
  IN FoldLeft(take, [missing |-> value, kept |-> << >>, payee |-> << >>], byb)
calcTransferBybChromo(byb, value) ==
  LET total == calcTotalBalance(byb)
      part(x, missing) ==
        LET p == (value * x.value) \div total
        IN IF p > missing THEN missing ELSE IF p = 0 THEN 1 ELSE p
      take(r, x) ==
        IF x.value = 0 THEN r
        ELSE IF r.missing = 0 THEN [r EXCEPT !.kept = Append(@, x)]
        ELSE LET p == part(x, r.missing)
                 left == [x EXCEPT !.value = @ - p]
             IN [missing |-> r.missing - p,
                 payee |-> Append(r.payee, [x EXCEPT !.value = p]),
                 kept |-> IF left.value > 0 THEN Append(r.kept, left) ELSE r.kept]
  IN FoldLeft(take, [missing |-> value, kept |-> << >>, payee |-> << >>], byb)

(* The second round takes what the first is short of, and adds it to the   *)
(* chromos of the first.  moved is what the payee gets, kept what the      *)
(* sender keeps.                                                           *)
calcAndSetSenderBalance(byb, value, role) ==
  LET total  == calcTotalBalance(byb)
      first  == calcTransferBybChromo(byb, value)
      second == calcTransferBybChromo(first.kept, first.missing)
      both   == [i \in DOMAIN first.payee |->
                   LET j == indexOf(second.payee, first.payee[i].chromo)
                   IN IF j = 0 THEN first.payee[i]
                      ELSE [first.payee[i] EXCEPT !.value = @ + second.payee[j].value]]
      result == IF total = value THEN [ok |-> TRUE, kept |-> << >>, moved |-> byb]
                ELSE IF first.missing = 0
                     THEN [ok |-> TRUE, kept |-> first.kept, moved |-> first.payee]
                     ELSE [ok |-> second.missing = 0, kept |-> second.kept, moved |-> both]
  IN IF total < value THEN [ok |-> FALSE, kept |-> byb, moved |-> << >>]
     ELSE IF role = "hole"
          THEN [result EXCEPT !.moved = <<[chromo |-> white, value |-> value]>>]
          ELSE result

(* The first amount of a chromo the payee has is added to the first entry  *)
(* of the chromo and set to zero; what is not zero then is appended.       *)
setPayeeBalance(c, a, added) ==
  LET old == getBybBalance(c, a)
      meets(i, j) == /\ i = indexOf(old, added[j].chromo)
                     /\ j = indexOf(added, old[i].chromo)
      grown == [i \in DOMAIN old |->
                  IF \E j \in DOMAIN added : meets(i, j)
                  THEN [old[i] EXCEPT !.value = @ + added[indexOf(added, old[i].chromo)].value]
                  ELSE old[i]]
      rest == [j \in DOMAIN added |->
                 IF \E i \in DOMAIN old : meets(i, j) THEN [added[j] EXCEPT !.value = 0]
                                                      ELSE added[j]]
  IN setBybBalance(c, a, grown \o SelectSeq(rest, LAMBDA x : x.value # 0))

Transfer(c, sender, to, value) ==
  LET role == checkAddress(c, sender)
      r    == calcAndSetSenderBalance(getBybBalance(c, sender), value, role)
  IN IF /\ value > 0
        /\ to \notin {sender, ContractAcct}
        /\ checkAddress(c, to) \in {"user", "hole"}
        /\ role \in {"user", "hole"}
        /\ r.ok
     THEN setPayeeBalance(setBybBalance(c, sender, r.kept), to, r.moved)
     ELSE Require(c, FALSE)

(* A stockholder keeps a chromo of which nothing is left.                  *)
checkAndSetSenderChromoBybBalance(c, sender, chromo, value) ==
  LET byb  == getBybBalance(c, sender)
      role == checkAddress(c, sender)
      i    == indexOf(byb, chromo)
      left == [byb EXCEPT ![i].value = @ - value]
  IN IF role = "committee" \/ i = 0 \/ (i # 0 /\ byb[i].value < value)
     THEN Require(c, FALSE)
     ELSE setBybBalance(c, sender,
            IF role # "stockholder" /\ left[i].value = 0 THEN RemoveAt(left, i) ELSE left)

mayReceiveMut(c, chromo, to) == checkAddress(c, to) # "committee"
mayReceive(c, chromo, to) ==
  /\ checkAddress(c, to) # "committee"
  /\ checkAddress(c, to) = "stockholder" => isStockHolderOwnTheChromo(c, to, chromo)

TransferByChromo(c, sender, chromo, to, value) ==
  LET colour == IF checkAddress(c, sender) = "hole" THEN white ELSE chromo
  IN IF value > 0 /\ sender # to /\ mayReceive(c, chromo, to)
     THEN setPayeeBalance(checkAndSetSenderChromoBybBalance(c, sender, chromo, value),
                          to, <<[chromo |-> colour, value |-> value]>>)
     ELSE Require(c, FALSE)

-----------------------------------------------------------------------------
(* The owner's other methods, and the exchange of chromos                  *)
setOwner(c, new) ==
  LET contract == [c.contracts[Byb] EXCEPT !.owner = new]
      moved    == DeleteContractAddr(SetTokenContract(c, Byb, contract), owner(c), Byb)
  IN IF IsToken(c, Byb) THEN SetToken(moved, Byb, [c.tokens[Byb] EXCEPT !.owner = new])
                        ELSE Require(c, FALSE)

SetOwner(c, sender, new) ==
  setOwner(Require(c, sender = owner(c) /\ checkAddress(c, new) = "user"), new)

(* The supply, and the contract's account, grow or shrink by value.        *)
changeSupply(c, value) ==
  setBybBalance(SetToken(c, Byb, [c.tokens[Byb] EXCEPT !.supply = @ + value]), ContractAcct,
                [getBybBalance(c, ContractAcct) EXCEPT ![1].value = @ + value])

addSupply(c, value) ==
  IF IsToken(c, Byb) /\ c.tokens[Byb].addSupply THEN changeSupply(c, value)
                                                ELSE Require(c, FALSE)

AddSupply(c, sender, value) == addSupply(Require(c, value > 0 /\ sender = owner(c)), value)

burn(c, value) ==
  IF /\ IsToken(c, Byb) /\ c.tokens[Byb].burn
     /\ c.tokens[Byb].supply >= value
     /\ getBybBalance(c, ContractAcct)[1].value >= value
  THEN changeSupply(c, -value) ELSE Require(c, FALSE)

Burn(c, sender, value) == burn(Require(c, value > 0 /\ sender = owner(c)), value)

setGasPrice(c, value) ==
  IF IsToken(c, Byb) THEN SetToken(c, Byb, [c.tokens[Byb] EXCEPT !.gasPrice = value])
                     ELSE Require(c, FALSE)

BybSetGasPrice(c, sender, value) ==
  setGasPrice(Require(c, sender = owner(c) /\ value \in GetBaseGasPrice(c) .. MaxGasPrice), value)

changeChromoOwnership(c, from, to, chromo) ==
  LET byb == getBybBalance(c, from)
      i   == indexOf(byb, chromo)
      off == setBybBalance(c, from, RemoveAt(byb, i))
  IN setBybBalance(off, to, Append(getBybBalance(off, to), byb[i]))

ChangeChromoOwnership(c, sender, chromo, to) ==
  IF /\ sender # to
     /\ checkAddress(c, sender) = "stockholder"
     /\ checkAddress(c, to) = "stockholder"
     /\ isStockHolderOwnTheChromo(c, sender, chromo)
  THEN changeChromoOwnership(c, sender, to, chromo) ELSE Require(c, FALSE)

-----------------------------------------------------------------------------
Genesis(old) ==
  [ok |-> TRUE, panic |-> FALSE,
   bal |-> [k \in (Senders \cup {Miner}) \X {Basic} |-> Funds],
   tokens |-> (IF old.owner = Nobody THEN << >>
               ELSE Old :> [owner |-> old.owner, name |-> "BYB", symbol |-> "BYB",
                            supply |-> old.supply, addSupply |-> TRUE, burn |-> TRUE,
                            gasPrice |-> 1]),
   byName |-> (IF old.owner = Nobody THEN << >> ELSE "BYB" :> Old),
   bySymbol |-> (IF old.owner = Nobody THEN << >> ELSE "BYB" :> Old),
   contracts |-> [a \in {Byb} \cup (IF old.owner = Nobody THEN {} ELSE {Old}) |->
                    [owner |-> IF a = Byb THEN Owner ELSE old.owner, name |-> a, version |-> 1,
                     effect |-> 1, lose |-> 0, chain |-> 0]],
   owned |-> [a \in Accounts |-> {x \in {Byb, Old} : \/ x = Byb /\ a = Owner
                                                     \/ x = Old /\ a = old.owner}],
   genesisPrice |-> 1, basePrice |-> 1,
   strategies |-> <<[items |-> <<[name |-> "validators", address |-> Nobody,
                                  percent |-> [digits |-> 100, length |-> 3, decimals |-> 0]]>>,
                     effect |-> 1]>>,
   validators |-> (Miner :> [name |-> Miner, reward |-> Miner, power |-> 1]),
   details |-> << >>, holes |-> {}, holders |-> {}, chromo |-> 0]

(* The contents when the token was set up and two users became             *)
(* stockholders, in whose colours a third was paid; when the third was     *)
(* made a black hole then; and when it paid both stockholders in white.    *)
Started ==
  LET Us == SetToSeq(Users)
      c1 == InitToken(Genesis([owner |-> Nobody, supply |-> 0]), Owner, MinTotalSupply + 5, TRUE, TRUE)
      c2 == NewStockHolder(c1, Owner, Us[1], 4)
      c3 == NewStockHolder(c2, Owner, Us[2], 3)
      c4 == TransferByChromo(c3, Us[1], 1, Us[3], 2)
  IN TransferByChromo(c4, Us[2], 2, Us[3], 3)

WithHole == NewBlackHole(Started, Owner, SetToSeq(Users)[3])

WithWhite ==
  LET Us == SetToSeq(Users)
  IN TransferByChromo(TransferByChromo(WithHole, Us[3], 1, Us[1], 1), Us[3], 2, Us[2], 1)

Init ==
  /\ s \in {Genesis(old) : old \in OldTokens} \cup {Started, WithHole, WithWhite}
  /\ txs = 0

(* The Dispatcher: the fee, then the method.                               *)
paidFor(sender) == CheckAndPayForGas(s, sender, Byb, 1, 1, blk)

TokenBYBStub(sender, method(_)) ==
  LET paid == paidFor(sender)
      done == Dispatch(paid, method(paid))
  IN /\ txs < MaxTxs
     /\ IsRightHeight(s.contracts[Byb], Height)
     /\ s' = [done EXCEPT !.ok = TRUE]
     /\ txs' = txs + 1

InitTx ==
  \E sender \in Senders, supply \in {MinTotalSupply - 1, MinTotalSupply}, b \in BOOLEAN :
    TokenBYBStub(sender, LAMBDA c : InitToken(c, sender, supply, b, b))

NewBlackHoleTx ==
  \E sender \in Senders, a \in Accounts :
    TokenBYBStub(sender, LAMBDA c : NewBlackHole(c, sender, a))

NewStockHolderTx ==
  \E sender \in Senders, a \in Accounts, v \in Values :
    TokenBYBStub(sender, LAMBDA c : NewStockHolder(c, sender, a, v))

DelStockHolderTx ==
  \E sender \in Senders, a \in Accounts :
    TokenBYBStub(sender, LAMBDA c : DelStockHolder(c, sender, a))

TransferTx ==
  \E sender \in Senders, to \in Accounts, v \in Values :
    TokenBYBStub(sender, LAMBDA c : Transfer(c, sender, to, v))

TransferByChromoTx ==
  \E sender \in Senders, to \in Accounts, v \in Values, chromo \in 0 .. s.chromo :
    TokenBYBStub(sender, LAMBDA c : TransferByChromo(c, sender, chromo, to, v))

SetOwnerTx ==
  \E sender \in Senders, a \in Accounts :
    TokenBYBStub(sender, LAMBDA c : SetOwner(c, sender, a))

SupplyTx ==
  \E sender \in Senders, v \in Values :
    \/ TokenBYBStub(sender, LAMBDA c : AddSupply(c, sender, v))
    \/ TokenBYBStub(sender, LAMBDA c : Burn(c, sender, v))

SetGasPriceTx ==
  \E sender \in Senders, v \in 0 .. MaxGasPrice + 1 :
    TokenBYBStub(sender, LAMBDA c : BybSetGasPrice(c, sender, v))

ChangeChromoOwnershipTx ==
  \E sender \in Senders, to \in Accounts, chromo \in 0 .. s.chromo :
    TokenBYBStub(sender, LAMBDA c : ChangeChromoOwnership(c, sender, chromo, to))

Next ==
  \/ InitTx \/ NewBlackHoleTx \/ NewStockHolderTx \/ DelStockHolderTx
  \/ TransferTx \/ TransferByChromoTx \/ SetOwnerTx \/ SupplyTx
  \/ SetGasPriceTx \/ ChangeChromoOwnershipTx

Spec == Init /\ [][Next]_vars

-----------------------------------------------------------------------------
(* The supply is what all accounts hold together, whatever was rounded in  *)
(* the two rounds of a transfer, merged, whitened, added or burnt; and two *)
(* rounds are enough: nobody who holds the amount is refused a transfer    *)
(* because of the division.                                                *)
SupplyBacked ==
  /\ IsToken(s, Byb) =>
       s.tokens[Byb].supply = MapThenSumSet(LAMBDA a : GetBalance(s, a, Byb), Accounts)
  /\ \A a \in DOMAIN s.details :
       \A v \in 1 .. calcTotalBalance(s.details[a]) :
         calcAndSetSenderBalance(s.details[a], v, checkAddress(s, a)).ok

listsTwice(a, chromos) ==
  \E i, j \in DOMAIN s.details[a] :
    i # j /\ s.details[a][i].chromo = s.details[a][j].chromo /\ s.details[a][i].chromo \in chromos

(* A colour belongs to one stockholder, and nobody lists one twice,        *)
(* however chromos are exchanged and stockholders come and go; no          *)
(* stockholder is a black hole or takes over the contract.  White is not a *)
(* colour: black holes pay stockholders in it, and changeChromoOwnership   *)
(* appends another's white to what a stockholder has of it, although it    *)
(* says that he "would never owned this chromo unless by this function     *)
(* call" (tokenbyb.go:1272).  Nobody else lists white twice.               *)
ColourHasOneHolder ==
  /\ \A a, b \in s.holders, i \in 1 .. s.chromo :
       a # b => ~(isStockHolderOwnTheChromo(s, a, i) /\ isStockHolderOwnTheChromo(s, b, i))
  /\ \A a \in DOMAIN s.details :
       listsTwice(a, 0 .. s.chromo) => a \in s.holders /\ ~listsTwice(a, 1 .. s.chromo)
  /\ s.holders \cap (s.holes \cup {owner(s), ContractAcct, Byb}) = {}
=============================================================================
