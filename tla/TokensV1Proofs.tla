--------------------------- MODULE TokensV1Proofs ---------------------------
(***************************************************************************)
(* The version 1 tokens keep their books, whatever the accounts, names,    *)
(* amounts and reward strategies: proofs of the properties of TokensV1.    *)
(***************************************************************************)
EXTENDS TokensV1, DataLemmas

(* The fields that make up the contents of a block.                        *)
Fields ==
  {"ok", "panic", "bal", "tokens", "byName", "bySymbol", "contracts", "owned",
   "genesisPrice", "basePrice", "strategies", "validators"}

IsContents(c) == DOMAIN c = Fields /\ c.ok \in BOOLEAN

(* d differs from c in the fields S at most.                               *)
Others(c, d, S) == IsContents(d) /\ \A x \in Fields \ S : d[x] = c[x]

Tokens == Names \cup {Basic}

(* A check writes ok and nothing else.                                     *)
LEMMA RequireEffect ==
  ASSUME NEW c, IsContents(c), NEW p \in BOOLEAN
  PROVE  /\ Others(c, Require(c, p), {"ok"})
         /\ Require(c, p).ok => c.ok /\ p
BY DEF IsContents, Others, Require, Fields

(* SetBalance writes one balance and leaves the others.                    *)
LEMMA SetBalanceEffect ==
  ASSUME NEW c, IsContents(c), NEW a, NEW t, NEW v
  PROVE  /\ Others(c, SetBalance(c, a, t, v), {"bal"})
         /\ GetBalance(SetBalance(c, a, t, v), a, t) = v
         /\ \A b, u : b # a \/ u # t =>
              GetBalance(SetBalance(c, a, t, v), b, u) = GetBalance(c, b, u)
<1> DEFINE d == SetBalance(c, a, t, v)
<1>1. Others(c, d, {"bal"}) /\ d.bal = Put(c.bal, <<a, t>>, v)
  BY DEF IsContents, Others, SetBalance, Fields
<1> HIDE DEF d
<1>2. <<a, t>> \in DOMAIN d.bal /\ d.bal[<<a, t>>] = v
  BY <1>1 DEF Put
<1>3. ASSUME NEW b, NEW u, b # a \/ u # t
      PROVE  GetBalance(d, b, u) = GetBalance(c, b, u)
  <2>1. <<b, u>> # <<a, t>>
    BY <1>3
  <2>2. <<b, u>> \in DOMAIN d.bal <=> <<b, u>> \in DOMAIN c.bal
    BY <1>1, <2>1 DEF Put
  <2>3. <<b, u>> \in DOMAIN c.bal => d.bal[<<b, u>>] = c.bal[<<b, u>>]
    BY <1>1, <2>1 DEF Put
  <2> QED BY <2>2, <2>3 DEF GetBalance
<1> QED BY <1>1, <1>2, <1>3 DEF d, GetBalance

(* SetToken writes the token and its entries in the two indexes.           *)
LEMMA SetTokenEffect ==
  ASSUME NEW c, IsContents(c), NEW t, NEW token
  PROVE  /\ Others(c, SetToken(c, t, token), {"tokens", "byName", "bySymbol"})
         /\ SetToken(c, t, token).tokens = Put(c.tokens, t, token)
         /\ SetToken(c, t, token).byName = Put(c.byName, token.name, t)
         /\ SetToken(c, t, token).bySymbol = Put(c.bySymbol, token.symbol, t)
BY DEF IsContents, Others, SetToken, Fields

(* SetTokenContract writes the contract and its owner's list.              *)
LEMMA SetTokenContractEffect ==
  ASSUME NEW c, IsContents(c), NEW x, NEW contract, contract.owner \in DOMAIN c.owned
  PROVE  /\ Others(c, SetTokenContract(c, x, contract), {"contracts", "owned"})
         /\ SetTokenContract(c, x, contract).contracts = Put(c.contracts, x, contract)
         /\ SetTokenContract(c, x, contract).owned
              = [c.owned EXCEPT ![contract.owner] = @ \cup {x}]
BY DEF IsContents, Others, SetTokenContract, addChildKey, Fields

(* DeleteContractAddr takes the contract off a list that has it.           *)
LEMMA DeleteContractAddrEffect ==
  ASSUME NEW c, IsContents(c), NEW a \in DOMAIN c.owned, NEW x, x \in c.owned[a]
  PROVE  /\ Others(c, DeleteContractAddr(c, a, x), {"owned"})
         /\ DeleteContractAddr(c, a, x).owned = [c.owned EXCEPT ![a] = @ \ {x}]
BY DEF IsContents, Others, DeleteContractAddr, Fields

-----------------------------------------------------------------------------
(* The records of the tokens and of the contracts.                         *)
TokenRecord ==
  [owner: Accounts, name: Tokens, symbol: Symbols \cup {Basic}, supply: Nat,
   addSupply: BOOLEAN, burn: BOOLEAN, gasPrice: Nat]

ContractRecord ==
  [owner: Accounts, name: Tokens \cup {TokenIssue, "token-templet"}, version: {1},
   effect: {1}, lose: {0}]

Typed(c) ==
  /\ DOMAIN c.tokens \subseteq Tokens
  /\ Basic \in DOMAIN c.tokens
  /\ DOMAIN c.contracts = DOMAIN c.tokens \cup {TokenIssue}
  /\ \A t \in DOMAIN c.tokens : c.tokens[t] \in TokenRecord
  /\ \A x \in DOMAIN c.contracts : c.contracts[x] \in ContractRecord
  /\ DOMAIN c.owned = Accounts

(* Every contract is in the list of its owner and in no other.             *)
Owned(c) ==
  /\ c.panic = FALSE
  /\ \A a \in Accounts : c.owned[a] = {x \in DOMAIN c.contracts : c.contracts[x].owner = a}
  /\ \A t \in DOMAIN c.tokens : c.tokens[t].owner = c.contracts[t].owner

(* The two indexes lead to the tokens and the tokens to their entries.     *)
Indexed(c) ==
  /\ DOMAIN c.byName = DOMAIN c.tokens
  /\ \A t \in DOMAIN c.tokens :
       /\ c.tokens[t].name = t /\ c.byName[t] = t
       /\ c.tokens[t].symbol \in DOMAIN c.bySymbol
       /\ c.bySymbol[c.tokens[t].symbol] = t
  /\ \A y \in DOMAIN c.bySymbol :
       c.bySymbol[y] \in DOMAIN c.tokens /\ c.tokens[c.bySymbol[y]].symbol = y

(* A supply is at least the least allowed or nothing at all.               *)
Supplied(c) ==
  \A t \in DOMAIN c.tokens \ {Basic} :
    c.tokens[t].supply = 0 \/ c.tokens[t].supply >= MinSupply

Records(c) == Typed(c) /\ Owned(c) /\ Indexed(c) /\ Supplied(c)

RecordFields == {"tokens", "byName", "bySymbol", "contracts", "owned", "panic"}

(* What IssuedStays says of two contents.                                  *)
Stays(c, d) ==
  \A t \in DOMAIN c.tokens :
    c.tokens[t].supply > 0 =>
      /\ t \in DOMAIN d.tokens
      /\ d.tokens[t].symbol = c.tokens[t].symbol
      /\ IF t = Basic THEN d.tokens[t].supply = c.tokens[t].supply
                      ELSE d.tokens[t].supply >= MinSupply

(* Contents that agree on the records agree on what they promise.          *)
LEMMA RecordsKept ==
  ASSUME NEW c, IsContents(c), Records(c), NEW d, \A x \in RecordFields : d[x] = c[x]
  PROVE  Records(d) /\ Stays(c, d)
<1>1. /\ d.tokens = c.tokens /\ d.byName = c.byName /\ d.bySymbol = c.bySymbol
      /\ d.contracts = c.contracts /\ d.owned = c.owned /\ d.panic = c.panic
  BY DEF RecordFields
<1>2. Records(d)
  BY <1>1 DEF Records, Typed, Owned, Indexed, Supplied
<1>3. ASSUME NEW t \in DOMAIN c.tokens, c.tokens[t].supply > 0, t # Basic
      PROVE  c.tokens[t].supply >= MinSupply
  BY <1>3 DEF Records, Typed, Supplied, TokenRecord
<1> QED BY <1>1, <1>2, <1>3 DEF Stays

(* A token's record is written again with its name, symbol and owner.      *)
LEMMA SetTokenKeeps ==
  ASSUME NEW c, IsContents(c), Records(c), NEW t \in DOMAIN c.tokens,
         NEW token \in TokenRecord,
         token.name = c.tokens[t].name, token.symbol = c.tokens[t].symbol,
         token.owner = c.tokens[t].owner,
         token.supply = c.tokens[t].supply \/ (t # Basic /\ token.supply >= MinSupply)
  PROVE  /\ Others(c, SetToken(c, t, token), {"tokens", "byName", "bySymbol"})
         /\ Records(SetToken(c, t, token))
         /\ Stays(c, SetToken(c, t, token))
<1> DEFINE d == SetToken(c, t, token)
<1>1. /\ Others(c, d, {"tokens", "byName", "bySymbol"})
      /\ d.tokens = Put(c.tokens, t, token)
      /\ d.byName = Put(c.byName, token.name, t)
      /\ d.bySymbol = Put(c.bySymbol, token.symbol, t)
  BY SetTokenEffect
<1> HIDE DEF d
<1>2. d.contracts = c.contracts /\ d.owned = c.owned /\ d.panic = c.panic
  BY <1>1 DEF Others, Fields
<1>3. /\ DOMAIN d.tokens = DOMAIN c.tokens
      /\ d.tokens[t] = token
      /\ \A u \in DOMAIN c.tokens : u # t => d.tokens[u] = c.tokens[u]
  BY <1>1 DEF Put
<1>4. /\ token.name = t /\ c.byName[t] = t /\ t \in DOMAIN c.byName
      /\ token.symbol \in DOMAIN c.bySymbol /\ c.bySymbol[token.symbol] = t
  BY DEF Records, Indexed
<1>5. /\ DOMAIN d.byName = DOMAIN c.byName
      /\ \A x \in DOMAIN c.byName : d.byName[x] = c.byName[x]
      /\ DOMAIN d.bySymbol = DOMAIN c.bySymbol
      /\ \A x \in DOMAIN c.bySymbol : d.bySymbol[x] = c.bySymbol[x]
  BY <1>1, <1>4 DEF Put
<1>6. Typed(d)
  BY <1>2, <1>3 DEF Records, Typed
<1>7. Owned(d)
  BY <1>2, <1>3 DEF Records, Owned
<1>8. Indexed(d)
  BY <1>3, <1>4, <1>5 DEF Records, Indexed
<1>9. Supplied(d)
  BY <1>3 DEF Records, Supplied
<1>10. Stays(c, d)
  <2>1. ASSUME NEW u \in DOMAIN c.tokens, c.tokens[u].supply > 0, u # Basic
        PROVE  c.tokens[u].supply >= MinSupply
    BY <2>1 DEF Records, Typed, Supplied, TokenRecord
  <2> QED BY <1>3, <2>1 DEF Stays
<1> QED BY <1>1, <1>6, <1>7, <1>8, <1>9, <1>10 DEF Records, d

(* A token changes hands: the records name the new owner, and the lists of *)
(* both owners follow.                                                     *)
LEMMA NewOwnerKeeps ==
  ASSUME NEW c, IsContents(c), Records(c), NEW t \in DOMAIN c.tokens,
         NEW new \in Accounts, new # c.tokens[t].owner
  PROVE  /\ Others(c, SetTokenNewOwner(c, t, new), RecordFields)
         /\ DOMAIN SetTokenNewOwner(c, t, new).tokens = DOMAIN c.tokens
         /\ \A u \in DOMAIN c.tokens :
              SetTokenNewOwner(c, t, new).tokens[u].supply = c.tokens[u].supply
         /\ Records(SetTokenNewOwner(c, t, new))
         /\ Stays(c, SetTokenNewOwner(c, t, new))
<1> DEFINE old == c.tokens[t].owner
           token == [c.tokens[t] EXCEPT !.owner = new]
           contract == [c.contracts[t] EXCEPT !.owner = new]
           c1 == SetToken(c, t, token)
           c2 == SetTokenContract(c1, t, contract)
           d == DeleteContractAddr(c2, old, t)
<1>1. d = SetTokenNewOwner(c, t, new)
  BY DEF SetTokenNewOwner
<1>2. /\ token \in TokenRecord /\ token.owner = new
      /\ token.name = c.tokens[t].name /\ token.symbol = c.tokens[t].symbol
      /\ token.supply = c.tokens[t].supply
      /\ old \in Accounts
  BY DEF Records, Typed, TokenRecord
<1>3. contract \in ContractRecord /\ contract.owner = new /\ t \in DOMAIN c.contracts
  BY DEF Records, Typed, ContractRecord
<1> HIDE DEF token, contract
<1>4. /\ Others(c, c1, {"tokens", "byName", "bySymbol"})
      /\ c1.tokens = Put(c.tokens, t, token)
      /\ c1.byName = Put(c.byName, token.name, t)
      /\ c1.bySymbol = Put(c.bySymbol, token.symbol, t)
  BY SetTokenEffect
<1> HIDE DEF c1
<1>5. c1.contracts = c.contracts /\ c1.owned = c.owned /\ c1.panic = c.panic
  BY <1>4 DEF Others, Fields
<1>6. /\ Others(c1, c2, {"contracts", "owned"})
      /\ c2.contracts = Put(c.contracts, t, contract)
      /\ c2.owned = [c.owned EXCEPT ![new] = @ \cup {t}]
  BY <1>3, <1>4, <1>5, SetTokenContractEffect DEF Others, Records, Typed
<1> HIDE DEF c2
<1>7. t \in c2.owned[old] /\ old \in DOMAIN c2.owned
  <2>1. t \in c.owned[old] /\ DOMAIN c.owned = Accounts
    BY <1>2, <1>3 DEF Records, Typed, Owned
  <2>2. old # new
    OBVIOUS
  <2> HIDE DEF old
  <2>3. c2.owned[old] = c.owned[old] /\ DOMAIN c2.owned = Accounts
    BY <1>2, <1>6, <2>1, <2>2
  <2> QED BY <1>2, <2>1, <2>3
<1>8. Others(c2, d, {"owned"}) /\ d.owned = [c2.owned EXCEPT ![old] = @ \ {t}]
  <2>1. IsContents(c2)
    BY <1>6 DEF Others
  <2> HIDE DEF old
  <2> QED BY <1>7, <2>1, DeleteContractAddrEffect
<1> HIDE DEF d
<1>9. /\ d.tokens = Put(c.tokens, t, token)
      /\ d.byName = Put(c.byName, token.name, t)
      /\ d.bySymbol = Put(c.bySymbol, token.symbol, t)
      /\ d.contracts = Put(c.contracts, t, contract)
      /\ d.panic = c.panic
  BY <1>4, <1>5, <1>6, <1>8 DEF Others, Fields
<1>10. Others(c, d, RecordFields)
  BY <1>4, <1>6, <1>8 DEF Others, Fields, RecordFields
<1>11. /\ DOMAIN d.tokens = DOMAIN c.tokens
       /\ d.tokens[t] = token
       /\ \A u \in DOMAIN c.tokens : u # t => d.tokens[u] = c.tokens[u]
       /\ DOMAIN d.contracts = DOMAIN c.contracts
       /\ d.contracts[t] = contract
       /\ \A x \in DOMAIN c.contracts : x # t => d.contracts[x] = c.contracts[x]
  BY <1>3, <1>9 DEF Put
<1>12. /\ token.name = t /\ c.byName[t] = t /\ t \in DOMAIN c.byName
       /\ token.symbol \in DOMAIN c.bySymbol /\ c.bySymbol[token.symbol] = t
  BY <1>2 DEF Records, Indexed
<1>13. /\ DOMAIN d.byName = DOMAIN c.byName
       /\ \A x \in DOMAIN c.byName : d.byName[x] = c.byName[x]
       /\ DOMAIN d.bySymbol = DOMAIN c.bySymbol
       /\ \A x \in DOMAIN c.bySymbol : d.bySymbol[x] = c.bySymbol[x]
  BY <1>9, <1>12 DEF Put
<1>14. /\ DOMAIN d.owned = Accounts
       /\ \A a \in Accounts : d.owned[a] = IF a = new THEN c.owned[a] \cup {t}
                                           ELSE IF a = old THEN c.owned[a] \ {t}
                                           ELSE c.owned[a]
  BY <1>6, <1>8 DEF Records, Typed
<1>15. Typed(d)
  BY <1>2, <1>3, <1>11, <1>14 DEF Records, Typed
<1>16. Owned(d)
  <2>1. ASSUME NEW a \in Accounts
        PROVE  d.owned[a] = {x \in DOMAIN d.contracts : d.contracts[x].owner = a}
    <3>1. c.owned[a] = {x \in DOMAIN c.contracts : c.contracts[x].owner = a}
      BY DEF Records, Owned
    <3>2. c.contracts[t].owner = old
      BY DEF Records, Owned
    <3>3. old # new
      OBVIOUS
    <3> HIDE DEF old
    <3>4. ASSUME NEW x
          PROVE  x \in d.owned[a] <=> x \in DOMAIN d.contracts /\ d.contracts[x].owner = a
      <4>1. CASE x = t
        BY <1>3, <1>11, <1>14, <3>1, <3>2, <3>3, <4>1
      <4>2. CASE x # t
        <5>1. x \in d.owned[a] <=> x \in c.owned[a]
          BY <1>14, <4>2
        <5>2. /\ x \in DOMAIN d.contracts <=> x \in DOMAIN c.contracts
              /\ x \in DOMAIN c.contracts => d.contracts[x] = c.contracts[x]
          BY <1>11, <4>2
        <5> QED BY <3>1, <5>1, <5>2
      <4> QED BY <4>1, <4>2
    <3> QED BY <3>4
  <2>2. \A u \in DOMAIN d.tokens : d.tokens[u].owner = d.contracts[u].owner
    BY <1>2, <1>3, <1>11 DEF Records, Owned, Typed
  <2> QED BY <1>9, <2>1, <2>2 DEF Records, Owned
<1>17. Indexed(d)
  BY <1>2, <1>11, <1>12, <1>13 DEF Records, Indexed
<1>18. Supplied(d)
  BY <1>2, <1>11 DEF Records, Supplied
<1>19. Stays(c, d)
  <2>1. ASSUME NEW u \in DOMAIN c.tokens, c.tokens[u].supply > 0, u # Basic
        PROVE  c.tokens[u].supply >= MinSupply
    BY <2>1 DEF Records, Typed, Supplied, TokenRecord
  <2> QED BY <1>2, <1>11, <2>1 DEF Stays
<1>20. /\ DOMAIN d.tokens = DOMAIN c.tokens
       /\ \A u \in DOMAIN c.tokens : d.tokens[u].supply = c.tokens[u].supply
  BY <1>2, <1>11
<1> QED BY <1>1, <1>10, <1>15, <1>16, <1>17, <1>18, <1>19, <1>20 DEF Records

(* A token is created, or created again while it has no supply.            *)
LEMMA NewTokenKeeps ==
  ASSUME NEW c, IsContents(c), Records(c), NEW sender \in Accounts,
         NEW token \in TokenRecord, token.owner = sender,
         token.supply = 0 \/ token.supply >= MinSupply,
         CheckNameAndSybmol(c, sender, token.name, token.symbol),
         NEW template \in ContractRecord
  PROVE  /\ Others(c, NewToken(c, sender, token.name, token, template),
                   RecordFields \cup {"bal"})
         /\ NewToken(c, sender, token.name, token, template).tokens
              = Put(c.tokens, token.name, token)
         /\ token.name \in DOMAIN c.tokens => c.tokens[token.name].supply = 0
         /\ \A a, t : GetBalance(NewToken(c, sender, token.name, token, template), a, t)
                        = IF a = sender /\ t = token.name THEN token.supply
                          ELSE GetBalance(c, a, t)
         /\ Records(NewToken(c, sender, token.name, token, template))
         /\ Stays(c, NewToken(c, sender, token.name, token, template))
<1> DEFINE t == token.name
           contract == [template EXCEPT !.owner = sender, !.name = token.name]
           c1 == SetToken(c, t, token)
           c2 == SetTokenContract(c1, t, contract)
           d == SetBalance(c2, sender, t, token.supply)
<1>1. d = NewToken(c, sender, token.name, token, template)
  BY DEF NewToken
<1>2. contract \in ContractRecord /\ contract.owner = sender
  BY DEF ContractRecord, TokenRecord
<1>3. t \in Tokens /\ t # Nobody /\ t # TokenIssue
  BY TokensAssumption DEF TokenRecord, Tokens
<1> HIDE DEF contract
<1>4. /\ Others(c, c1, {"tokens", "byName", "bySymbol"})
      /\ c1.tokens = Put(c.tokens, t, token)
      /\ c1.byName = Put(c.byName, t, t)
      /\ c1.bySymbol = Put(c.bySymbol, token.symbol, t)
  BY SetTokenEffect
<1> HIDE DEF c1
<1>5. c1.contracts = c.contracts /\ c1.owned = c.owned /\ c1.panic = c.panic /\ c1.bal = c.bal
  BY <1>4 DEF Others, Fields
<1>6. /\ Others(c1, c2, {"contracts", "owned"})
      /\ c2.contracts = Put(c.contracts, t, contract)
      /\ c2.owned = [c.owned EXCEPT ![sender] = @ \cup {t}]
  BY <1>2, <1>4, <1>5, SetTokenContractEffect DEF Others, Records, Typed
<1> HIDE DEF c2
<1>7. /\ Others(c2, d, {"bal"})
      /\ GetBalance(d, sender, t) = token.supply
      /\ \A b, u : b # sender \/ u # t => GetBalance(d, b, u) = GetBalance(c2, b, u)
  BY <1>6, SetBalanceEffect DEF Others
<1> HIDE DEF d
<1>8. \A a, u : GetBalance(c2, a, u) = GetBalance(c, a, u)
  <2>1. c2.bal = c.bal
    BY <1>5, <1>6 DEF Others, Fields
  <2> QED BY <2>1 DEF GetBalance
<1>9. \A a, u : GetBalance(d, a, u) = IF a = sender /\ u = t THEN token.supply
                                      ELSE GetBalance(c, a, u)
  BY <1>7, <1>8
<1>10. /\ d.tokens = Put(c.tokens, t, token)
       /\ d.byName = Put(c.byName, t, t)
       /\ d.bySymbol = Put(c.bySymbol, token.symbol, t)
       /\ d.contracts = Put(c.contracts, t, contract)
       /\ d.owned = [c.owned EXCEPT ![sender] = @ \cup {t}]
       /\ d.panic = c.panic
  BY <1>4, <1>5, <1>6, <1>7 DEF Others, Fields
<1>11. Others(c, d, RecordFields \cup {"bal"})
  BY <1>4, <1>6, <1>7 DEF Others, Fields, RecordFields
<1>12. /\ DOMAIN d.tokens = DOMAIN c.tokens \cup {t}
       /\ d.tokens[t] = token
       /\ \A u \in DOMAIN c.tokens : u # t => d.tokens[u] = c.tokens[u]
       /\ DOMAIN d.contracts = DOMAIN c.contracts \cup {t}
       /\ d.contracts[t] = contract
       /\ \A x \in DOMAIN c.contracts : x # t => d.contracts[x] = c.contracts[x]
       /\ DOMAIN d.byName = DOMAIN c.byName \cup {t}
       /\ d.byName[t] = t
       /\ \A x \in DOMAIN c.byName : x # t => d.byName[x] = c.byName[x]
       /\ DOMAIN d.bySymbol = DOMAIN c.bySymbol \cup {token.symbol}
       /\ d.bySymbol[token.symbol] = t
       /\ \A y \in DOMAIN c.bySymbol : y # token.symbol => d.bySymbol[y] = c.bySymbol[y]
  BY <1>10 DEF Put
(* Either name and symbol are free, or the token has both.                 *)
<1>13. \/ t \notin DOMAIN c.tokens /\ token.symbol \notin DOMAIN c.bySymbol
       \/ /\ t \in DOMAIN c.tokens /\ c.tokens[t].supply = 0
          /\ c.tokens[t].owner = sender /\ c.tokens[t].symbol = token.symbol
  <2> DEFINE t1 == GetTokenAddrByName(c, t)
             t2 == GetTokenAddrBySymbol(c, token.symbol)
  <2>1. /\ t1 = t2
        /\ t1 # Nobody => /\ t1 \in DOMAIN c.tokens
                          /\ c.tokens[t1].supply = 0 /\ c.tokens[t1].owner = sender
    BY DEF CheckNameAndSybmol, IsToken
  <2>2. t1 = IF t \in DOMAIN c.tokens THEN t ELSE Nobody
    BY DEF GetTokenAddrByName, Records, Indexed
  <2>3. t2 = IF token.symbol \in DOMAIN c.bySymbol THEN c.bySymbol[token.symbol] ELSE Nobody
    BY DEF GetTokenAddrBySymbol
  <2> HIDE DEF t1, t2
  <2>4. CASE t \in DOMAIN c.tokens
    <3>1. t1 = t /\ t2 = t
      BY <1>3, <2>1, <2>2, <2>4
    <3>2. token.symbol \in DOMAIN c.bySymbol /\ c.bySymbol[token.symbol] = t
      BY <1>3, <2>3, <3>1
    <3>3. c.tokens[t].symbol = token.symbol
      BY <3>2 DEF Records, Indexed
    <3> QED BY <1>3, <2>1, <2>4, <3>1, <3>3
  <2>5. CASE t \notin DOMAIN c.tokens
    <3>1. t2 = Nobody
      BY <2>1, <2>2, <2>5
    <3>2. ASSUME token.symbol \in DOMAIN c.bySymbol PROVE FALSE
      <4>1. c.bySymbol[token.symbol] \in Tokens
        BY <3>2 DEF Records, Indexed, Typed
      <4> QED BY <2>3, <3>1, <3>2, <4>1, TokensAssumption DEF Tokens
    <3> QED BY <2>5, <3>2
  <2> QED BY <2>4, <2>5
<1>14. /\ DOMAIN d.owned = Accounts
       /\ \A a \in Accounts : d.owned[a] = IF a = sender THEN c.owned[a] \cup {t}
                                           ELSE c.owned[a]
  BY <1>10 DEF Records, Typed
<1>15. Typed(d)
  <2>1. DOMAIN d.contracts = DOMAIN d.tokens \cup {TokenIssue}
    BY <1>12 DEF Records, Typed
  <2>2. DOMAIN d.tokens \subseteq Tokens /\ Basic \in DOMAIN d.tokens
    BY <1>3, <1>12 DEF Records, Typed
  <2>3. \A u \in DOMAIN d.tokens : d.tokens[u] \in TokenRecord
    BY <1>12 DEF Records, Typed
  <2>4. \A x \in DOMAIN d.contracts : d.contracts[x] \in ContractRecord
    BY <1>2, <1>12 DEF Records, Typed
  <2> QED BY <1>14, <2>1, <2>2, <2>3, <2>4 DEF Typed
<1>16. Owned(d)
  <2>1. t \in DOMAIN c.contracts => c.contracts[t].owner = sender
    BY <1>3, <1>13 DEF Records, Typed, Owned
  <2>2. ASSUME NEW a \in Accounts
        PROVE  d.owned[a] = {x \in DOMAIN d.contracts : d.contracts[x].owner = a}
    <3>1. c.owned[a] = {x \in DOMAIN c.contracts : c.contracts[x].owner = a}
      BY DEF Records, Owned
    <3> HIDE DEF t
    <3>2. ASSUME NEW x
          PROVE  x \in d.owned[a] <=> x \in DOMAIN d.contracts /\ d.contracts[x].owner = a
      <4>1. CASE x = t
        BY <1>2, <1>12, <1>14, <2>1, <3>1, <4>1
      <4>2. CASE x # t
        <5>1. x \in d.owned[a] <=> x \in c.owned[a]
          BY <1>14, <4>2
        <5>2. /\ x \in DOMAIN d.contracts <=> x \in DOMAIN c.contracts
              /\ x \in DOMAIN c.contracts => d.contracts[x] = c.contracts[x]
          BY <1>12, <4>2
        <5> QED BY <3>1, <5>1, <5>2
      <4> QED BY <4>1, <4>2
    <3> QED BY <3>2
  <2>3. \A u \in DOMAIN d.tokens : d.tokens[u].owner = d.contracts[u].owner
    BY <1>2, <1>12 DEF Records, Owned, Typed
  <2> QED BY <1>10, <2>2, <2>3 DEF Records, Owned
<1>17. Indexed(d)
  <2>1. DOMAIN d.byName = DOMAIN d.tokens
    BY <1>12 DEF Records, Indexed
  <2>2. ASSUME NEW u \in DOMAIN d.tokens
        PROVE  /\ d.tokens[u].name = u /\ d.byName[u] = u
               /\ d.tokens[u].symbol \in DOMAIN d.bySymbol
               /\ d.bySymbol[d.tokens[u].symbol] = u
    <3>1. CASE u = t
      BY <1>12, <3>1
    <3>2. CASE u # t
      <4>1. u \in DOMAIN c.tokens /\ d.tokens[u] = c.tokens[u]
        BY <1>12, <3>2
      <4>2. /\ c.tokens[u].name = u /\ c.byName[u] = u /\ u \in DOMAIN c.byName
            /\ c.tokens[u].symbol \in DOMAIN c.bySymbol
            /\ c.bySymbol[c.tokens[u].symbol] = u
        BY <4>1 DEF Records, Indexed
      <4>3. c.tokens[u].symbol # token.symbol
        <5>1. token.symbol \in DOMAIN c.bySymbol => c.bySymbol[token.symbol] = t
          BY <1>13 DEF Records, Indexed
        <5> QED BY <3>2, <4>2, <5>1
      <4> QED BY <1>12, <3>2, <4>1, <4>2, <4>3
    <3> QED BY <3>1, <3>2
  <2>3. ASSUME NEW y \in DOMAIN d.bySymbol
        PROVE  d.bySymbol[y] \in DOMAIN d.tokens /\ d.tokens[d.bySymbol[y]].symbol = y
    <3>1. CASE y = token.symbol
      BY <1>12, <3>1
    <3>2. CASE y # token.symbol
      <4>1. /\ y \in DOMAIN c.bySymbol /\ d.bySymbol[y] = c.bySymbol[y]
            /\ c.bySymbol[y] \in DOMAIN c.tokens /\ c.tokens[c.bySymbol[y]].symbol = y
        BY <1>12, <3>2 DEF Records, Indexed
      <4>2. c.bySymbol[y] # t
        BY <1>13, <3>2, <4>1
      <4> QED BY <1>12, <4>1, <4>2
    <3> QED BY <3>1, <3>2
  <2> QED BY <2>1, <2>2, <2>3 DEF Indexed
<1>18. Supplied(d)
  BY <1>12 DEF Records, Supplied
<1>19. Stays(c, d)
  <2>1. ASSUME NEW u \in DOMAIN c.tokens, c.tokens[u].supply > 0
        PROVE  u # t /\ (u # Basic => c.tokens[u].supply >= MinSupply)
    BY <1>13, <2>1 DEF Records, Typed, Supplied, TokenRecord
  <2>2. \A u \in DOMAIN c.tokens : c.tokens[u].supply > 0 => d.tokens[u] = c.tokens[u]
    BY <1>12, <2>1
  <2> QED BY <1>12, <2>1, <2>2 DEF Stays
<1>20. t \in DOMAIN c.tokens => c.tokens[t].supply = 0
  BY <1>13
<1> QED BY <1>1, <1>9, <1>10, <1>11, <1>15, <1>16, <1>17, <1>18, <1>19, <1>20 DEF Records

-----------------------------------------------------------------------------
(* What all accounts together hold of a token.                             *)
Total(c, t) == SumFunctionOnSet([a \in Accounts |-> GetBalance(c, a, t)], Accounts)

Natural(c) == \A a \in Accounts, t \in Tokens : GetBalance(c, a, t) \in Nat

(* No balance exceeds the total.                                           *)
LEMMA TotalBound ==
  ASSUME NEW c, Natural(c), NEW t \in Tokens
  PROVE  Total(c, t) \in Nat /\ \A a \in Accounts : GetBalance(c, a, t) <= Total(c, t)
<1> DEFINE f == [a \in Accounts |-> GetBalance(c, a, t)]
<1>1. \A a \in Accounts : f[a] \in Nat /\ f[a] = GetBalance(c, a, t)
  BY DEF Natural
<1> HIDE DEF f
<1>2. SumFunctionOnSet(f, Accounts) \in Nat
      /\ \A a \in Accounts : f[a] <= SumFunctionOnSet(f, Accounts)
  BY <1>1, SumBound, TokensAssumption
<1> QED BY <1>1, <1>2 DEF f, Total

(* The total is that of the balances alone.                                *)
LEMMA TotalSame ==
  ASSUME NEW c, NEW d, Natural(c), NEW t \in Tokens,
         \A a \in Accounts : GetBalance(d, a, t) = GetBalance(c, a, t)
  PROVE  Total(d, t) = Total(c, t)
<1>1. [a \in Accounts |-> GetBalance(d, a, t)] = [a \in Accounts |-> GetBalance(c, a, t)]
  OBVIOUS
<1> QED BY <1>1 DEF Total

(* One balance is written.                                                 *)
LEMMA TotalChange ==
  ASSUME NEW c, Natural(c), NEW d, NEW a \in Accounts, NEW t \in Tokens, NEW v \in Nat,
         GetBalance(d, a, t) = v,
         \A b, u : b # a \/ u # t => GetBalance(d, b, u) = GetBalance(c, b, u)
  PROVE  /\ Natural(d)
         /\ Total(d, t) = Total(c, t) + v - GetBalance(c, a, t)
         /\ \A u \in Tokens : u # t => Total(d, u) = Total(c, u)
<1>1. Natural(d)
  <2>1. ASSUME NEW b \in Accounts, NEW u \in Tokens PROVE GetBalance(d, b, u) \in Nat
    <3>1. CASE b = a /\ u = t
      BY <3>1
    <3>2. CASE b # a \/ u # t
      BY <3>2 DEF Natural
    <3> QED BY <3>1, <3>2
  <2> QED BY <2>1 DEF Natural
<1>2. Total(d, t) = Total(c, t) + v - GetBalance(c, a, t)
  <2> DEFINE f == [b \in Accounts |-> GetBalance(c, b, t)]
             h == [b \in Accounts |-> GetBalance(d, b, t)]
  <2>1. \A b \in Accounts : /\ f[b] \in Int /\ h[b] \in Int /\ (b # a => h[b] = f[b])
                            /\ f[b] = GetBalance(c, b, t) /\ h[b] = GetBalance(d, b, t)
    BY <1>1 DEF Natural
  <2> HIDE DEF f, h
  <2>2. SumFunctionOnSet(h, Accounts) = SumFunctionOnSet(f, Accounts) + (h[a] - f[a])
    BY <2>1, SumChange, TokensAssumption
  <2>3. SumFunctionOnSet(f, Accounts) \in Int
    BY <2>1, SumType, TokensAssumption
  <2>4. h[a] = v /\ f[a] = GetBalance(c, a, t) /\ f[a] \in Int
    BY <2>1
  <2>5. SumFunctionOnSet(h, Accounts) = SumFunctionOnSet(f, Accounts) + v - f[a]
    BY <2>2, <2>3, <2>4
  <2> QED BY <2>4, <2>5 DEF f, h, Total
<1>3. ASSUME NEW u \in Tokens, u # t PROVE Total(d, u) = Total(c, u)
  BY <1>3, TotalSame
<1> QED BY <1>1, <1>2, <1>3

(* SetBalance changes the total of its token as it does the balance.       *)
LEMMA SetBalanceTotals ==
  ASSUME NEW c, IsContents(c), Natural(c), NEW a \in Accounts, NEW t \in Tokens, NEW v \in Nat
  PROVE  /\ Others(c, SetBalance(c, a, t, v), {"bal"})
         /\ Natural(SetBalance(c, a, t, v))
         /\ Total(SetBalance(c, a, t, v), t) = Total(c, t) + v - GetBalance(c, a, t)
         /\ \A u \in Tokens : u # t => Total(SetBalance(c, a, t, v), u) = Total(c, u)
<1> DEFINE d == SetBalance(c, a, t, v)
<1>1. /\ Others(c, d, {"bal"})
      /\ GetBalance(d, a, t) = v
      /\ \A b, u : b # a \/ u # t => GetBalance(d, b, u) = GetBalance(c, b, u)
  BY SetBalanceEffect
<1> HIDE DEF d
<1>2. /\ Natural(d) /\ Total(d, t) = Total(c, t) + v - GetBalance(c, a, t)
      /\ \A u \in Tokens : u # t => Total(d, u) = Total(c, u)
  BY <1>1, TotalChange
<1> QED BY <1>1, <1>2 DEF d

(* Contents that have the same balances.                                   *)
LEMMA SameBalances ==
  ASSUME NEW c, NEW d, d.bal = c.bal
  PROVE  /\ \A a, t : GetBalance(d, a, t) = GetBalance(c, a, t)
         /\ Natural(c) => Natural(d)
         /\ \A t : Total(d, t) = Total(c, t)
<1>1. \A a, t : GetBalance(d, a, t) = GetBalance(c, a, t)
  BY DEF GetBalance
<1>2. ASSUME NEW t PROVE Total(d, t) = Total(c, t)
  <2>1. [a \in Accounts |-> GetBalance(d, a, t)] = [a \in Accounts |-> GetBalance(c, a, t)]
    BY <1>1
  <2> QED BY <2>1 DEF Total
<1> QED BY <1>1, <1>2 DEF Natural

(* Money moves from account to account, if nothing is refused.             *)
Moves(c, d) ==
  /\ Others(c, d, {"ok", "bal"})
  /\ d.ok => /\ c.ok /\ Natural(d)
             /\ \A t \in Tokens : Total(d, t) = Total(c, t)

(* One account pays another, or itself.                                    *)
LEMMA PayMoves ==
  ASSUME NEW c, IsContents(c), Natural(c), NEW from \in Accounts, NEW to \in Accounts,
         NEW t \in Tokens, NEW v \in Nat, GetBalance(c, from, t) >= v,
         NEW paid, paid = SetBalance(c, from, t, GetBalance(c, from, t) - v)
  PROVE  LET d == SetBalance(paid, to, t, GetBalance(paid, to, t) + v)
         IN /\ Others(c, d, {"bal"}) /\ Natural(d)
            /\ \A u \in Tokens : Total(d, u) = Total(c, u)
<1> DEFINE d == SetBalance(paid, to, t, GetBalance(paid, to, t) + v)
<1>1. GetBalance(c, from, t) - v \in Nat /\ GetBalance(c, from, t) \in Nat
  BY DEF Natural
<1>2. /\ Others(c, paid, {"bal"}) /\ Natural(paid) /\ IsContents(paid)
      /\ Total(paid, t) = Total(c, t) + (GetBalance(c, from, t) - v) - GetBalance(c, from, t)
      /\ \A u \in Tokens : u # t => Total(paid, u) = Total(c, u)
  BY <1>1, SetBalanceTotals DEF Others
<1>3. GetBalance(paid, to, t) \in Nat /\ GetBalance(paid, to, t) + v \in Nat
  BY <1>2 DEF Natural
<1>4. /\ Others(paid, d, {"bal"}) /\ Natural(d)
      /\ Total(d, t) = Total(paid, t) + (GetBalance(paid, to, t) + v) - GetBalance(paid, to, t)
      /\ \A u \in Tokens : u # t => Total(d, u) = Total(paid, u)
  BY <1>2, <1>3, SetBalanceTotals
<1> HIDE DEF d
<1>5. Total(d, t) = Total(c, t)
  <2>1. Total(c, t) \in Nat
    BY TotalBound
  <2> QED BY <1>1, <1>2, <1>3, <1>4, <2>1
<1>6. Others(c, d, {"bal"})
  BY <1>2, <1>4 DEF Others
<1> QED BY <1>2, <1>4, <1>5, <1>6 DEF d

(* A transfer moves money; the receiver's balance is read after the        *)
(* sender's was written.                                                   *)
LEMMA TransferMoves ==
  ASSUME NEW c, IsContents(c), Natural(c), NEW sender \in Accounts, NEW to \in Accounts,
         NEW t \in Tokens, NEW v \in Nat
  PROVE  /\ Moves(c, TokenTempletTransfer(c, sender, t, to, v))
         /\ TokenTempletTransfer(c, sender, t, to, v).ok => sender # to
<1> DEFINE p == sender # to /\ GetBalance(c, sender, t) >= v
           c1 == Require(c, p)
           paid == SetBalance(c1, sender, t, GetBalance(c, sender, t) - v)
           d == SetBalance(paid, to, t, GetBalance(paid, to, t) + v)
<1>1. d = TokenTempletTransfer(c, sender, t, to, v)
  BY DEF TokenTempletTransfer
<1>2. Others(c, c1, {"ok"}) /\ (c1.ok => c.ok /\ p)
  BY RequireEffect
<1> HIDE DEF c1
<1>3. /\ IsContents(c1) /\ c1.bal = c.bal
  BY <1>2 DEF Others, Fields
<1>4. /\ Natural(c1) /\ GetBalance(c1, sender, t) = GetBalance(c, sender, t)
      /\ \A u : Total(c1, u) = Total(c, u)
  BY <1>3, SameBalances
<1>5. Others(c, d, {"ok", "bal"}) /\ d.ok = c1.ok
  <2>1. Others(c1, paid, {"bal"}) /\ IsContents(paid)
    BY <1>3, SetBalanceEffect DEF Others
  <2>2. Others(paid, d, {"bal"})
    BY <2>1, SetBalanceEffect
  <2> HIDE DEF paid, d
  <2> QED BY <1>2, <2>1, <2>2 DEF Others, Fields
<1>6. ASSUME d.ok PROVE c.ok /\ Natural(d) /\ \A u \in Tokens : Total(d, u) = Total(c, u)
  <2>1. GetBalance(c1, sender, t) >= v /\ c.ok
    BY <1>2, <1>4, <1>5, <1>6
  <2>2. paid = SetBalance(c1, sender, t, GetBalance(c1, sender, t) - v)
    BY <1>4
  <2>3. Natural(d) /\ \A u \in Tokens : Total(d, u) = Total(c1, u)
    <3> HIDE DEF paid
    <3> QED BY <1>3, <1>4, <2>1, <2>2, PayMoves
  <2> HIDE DEF d
  <2> QED BY <1>4, <2>1, <2>3
<1> QED BY <1>1, <1>2, <1>5, <1>6 DEF Moves

(* One address of a batch, k being the sender, the token and the amount.   *)
batchStep(k, x, to) ==
  SetBalance(Require(x, k[1] # to), to, k[2], GetBalance(x, to, k[2]) + k[3])

Batch == INSTANCE DataLemmas WITH FoldStep <- batchStep

(* BatchTransfer as a fold of its steps.                                   *)
LEMMA BatchUnfolded ==
  ASSUME NEW c, NEW sender, NEW t, NEW v, NEW toList
  PROVE  LET sum  == v * Len(toList)
             paid == SetBalance(Require(c, sum >= v /\ GetBalance(c, sender, t) >= sum),
                                sender, t, GetBalance(c, sender, t) - sum)
         IN BatchTransfer(c, sender, t, toList, v)
              = Batch!Folded(<<sender, t, v>>, paid, toList, DOMAIN toList)
BY DEF BatchTransfer, FoldLeft, MapThenFoldSet, Max, Batch!Folded, Batch!IsFold,
       Batch!greatest, batchStep

(* BatchTransfer moves money, also when an address occurs twice: after i   *)
(* addresses the total lacks the shares of the rest.                       *)
LEMMA BatchMoves ==
  ASSUME NEW c, IsContents(c), Natural(c), NEW sender \in Accounts, NEW t \in Tokens,
         NEW v \in Nat, NEW toList, IsSequence(toList), Range(toList) \subseteq Accounts
  PROVE  Moves(c, BatchTransfer(c, sender, t, toList, v))
<1> DEFINE n == Len(toList)
           sum == v * n
           p == sum >= v /\ GetBalance(c, sender, t) >= sum
           c1 == Require(c, p)
           paid == SetBalance(c1, sender, t, GetBalance(c, sender, t) - sum)
           d == BatchTransfer(c, sender, t, toList, v)
<1>1. n \in Nat /\ DOMAIN toList = 1 .. n /\ sum \in Nat
      /\ \A i \in 1 .. n : toList[i] \in Accounts
  BY SequenceDomain DEF Range
<1>2. PICK k : k = <<sender, t, v>>
  OBVIOUS
<1>3. PICK b : b = paid
  OBVIOUS
<1>4. PICK r : /\ Batch!Folded(k, b, toList, 1 .. n) = r[n]
               /\ r[0] = b
               /\ \A i \in 1 .. n : r[i] = batchStep(k, r[i - 1], toList[i])
  <2>1. n \in Nat
    BY <1>1
  <2> HIDE DEF n, sum, p, c1, paid, d
  <2> QED BY <2>1, Batch!FoldSteps
<1>5. d = r[n]
  BY <1>1, <1>2, <1>3, <1>4, BatchUnfolded
<1>6. Others(c, c1, {"ok"}) /\ (c1.ok => c.ok /\ p)
  BY RequireEffect
<1> HIDE DEF c1
<1>7. /\ IsContents(c1) /\ c1.bal = c.bal
  BY <1>6 DEF Others, Fields
<1>8. /\ Natural(c1) /\ GetBalance(c1, sender, t) = GetBalance(c, sender, t)
      /\ \A u : Total(c1, u) = Total(c, u)
  BY <1>7, SameBalances
<1> DEFINE Paid(x, i) ==
             /\ Others(c, x, {"ok", "bal"})
             /\ x.ok => /\ c.ok /\ Natural(x)
                        /\ Total(x, t) = Total(c, t) - sum + v * i
                        /\ \A u \in Tokens : u # t => Total(x, u) = Total(c, u)
           N == {i \in Nat : i <= n => Paid(r[i], i)}
<1>9. Paid(b, 0)
  <2>1. Others(c1, b, {"bal"})
    BY <1>3, <1>7, SetBalanceEffect
  <2>2. Others(c, b, {"ok", "bal"}) /\ b.ok = c1.ok
    BY <1>6, <2>1 DEF Others, Fields
  <2>3. ASSUME b.ok
        PROVE  /\ c.ok /\ Natural(b) /\ Total(b, t) = Total(c, t) - sum
               /\ \A u \in Tokens : u # t => Total(b, u) = Total(c, u)
    <3>1. c.ok /\ GetBalance(c, sender, t) >= sum
      BY <1>6, <2>2, <2>3
    <3>2. GetBalance(c, sender, t) \in Nat
      BY DEF Natural
    <3> HIDE DEF sum
    <3>3. GetBalance(c, sender, t) - sum \in Nat
      BY <1>1, <3>1, <3>2
    <3>4. /\ Natural(b)
          /\ Total(b, t)
               = Total(c1, t) + (GetBalance(c, sender, t) - sum) - GetBalance(c1, sender, t)
          /\ \A u \in Tokens : u # t => Total(b, u) = Total(c1, u)
      BY <1>3, <1>7, <1>8, <3>3, SetBalanceTotals
    <3>5. Total(c, t) \in Nat
      BY TotalBound
    <3> QED BY <1>1, <1>8, <3>1, <3>2, <3>4, <3>5
  <2>4. Total(c, t) - sum + v * 0 = Total(c, t) - sum
    <3>1. v * 0 = 0 /\ Total(c, t) \in Nat
      BY TotalBound
    <3> HIDE DEF sum
    <3> QED BY <1>1, <3>1
  <2> HIDE DEF sum
  <2> QED BY <2>2, <2>3, <2>4
<1>10. 0 \in N
  BY <1>4, <1>9
<1>11. ASSUME NEW i \in Nat, i \in N PROVE i + 1 \in N
  <2>1. SUFFICES ASSUME i + 1 <= n PROVE Paid(r[i + 1], i + 1)
    OBVIOUS
  <2>2. i <= n /\ i + 1 \in 1 .. n /\ (i + 1) - 1 = i
    BY <1>1, <2>1
  <2>3. Paid(r[i], i)
    BY <1>11, <2>2
  <2> DEFINE x == r[i]
             to == toList[i + 1]
             q == sender # to
             x1 == Require(x, q)
             y == SetBalance(x1, to, t, GetBalance(x, to, t) + v)
  <2>4. r[i + 1] = y
    <3>1. r[i + 1] = batchStep(k, r[(i + 1) - 1], toList[i + 1])
      BY <1>4, <2>2
    <3>2. r[i + 1] = batchStep(k, x, to)
      BY <2>2, <3>1
    <3>3. k[1] = sender /\ k[2] = t /\ k[3] = v
      BY <1>2
    <3> QED BY <3>2, <3>3 DEF batchStep
  <2>5. to \in Accounts
    BY <1>1, <2>2
  <2> HIDE DEF x, to
  <2>6. Others(c, x, {"ok", "bal"}) /\ IsContents(x)
    BY <2>3 DEF Others, x
  <2>7. Others(x, x1, {"ok"}) /\ (x1.ok => x.ok) /\ x1.bal = x.bal /\ IsContents(x1)
    <3>1. Others(x, x1, {"ok"}) /\ (x1.ok => x.ok)
      BY <2>6, RequireEffect
    <3> HIDE DEF x1
    <3> QED BY <3>1 DEF Others, Fields
  <2> HIDE DEF x1
  <2>8. Others(c, y, {"ok", "bal"}) /\ y.ok = x1.ok
    <3>1. Others(x1, y, {"bal"})
      BY <2>7, SetBalanceEffect
    <3> HIDE DEF y
    <3> QED BY <2>6, <2>7, <3>1 DEF Others, Fields
  <2>9. ASSUME y.ok
        PROVE  /\ c.ok /\ Natural(y)
               /\ Total(y, t) = Total(c, t) - sum + v * (i + 1)
               /\ \A u \in Tokens : u # t => Total(y, u) = Total(c, u)
    <3>1. /\ c.ok /\ Natural(x) /\ Total(x, t) = Total(c, t) - sum + v * i
          /\ \A u \in Tokens : u # t => Total(x, u) = Total(c, u)
      BY <2>3, <2>7, <2>8, <2>9 DEF x
    <3>2. /\ Natural(x1) /\ GetBalance(x1, to, t) = GetBalance(x, to, t)
          /\ \A u : Total(x1, u) = Total(x, u)
      BY <2>7, <3>1, SameBalances
    <3>3. GetBalance(x, to, t) \in Nat /\ GetBalance(x, to, t) + v \in Nat
      BY <2>5, <3>1 DEF Natural
    <3>4. /\ Natural(y)
          /\ Total(y, t) = Total(x1, t) + (GetBalance(x, to, t) + v) - GetBalance(x1, to, t)
          /\ \A u \in Tokens : u # t => Total(y, u) = Total(x1, u)
      BY <2>5, <2>7, <3>2, <3>3, SetBalanceTotals
    <3>5. Total(c, t) \in Nat /\ v * (i + 1) = v * i + v /\ v * i \in Nat
      BY TotalBound
    <3> HIDE DEF y, sum
    <3>6. Total(y, t) = Total(x, t) + v /\ Total(x, t) \in Int
      BY <1>1, <3>1, <3>2, <3>3, <3>4, <3>5
    <3>7. Total(y, t) = Total(c, t) - sum + v * (i + 1)
      BY <1>1, <3>1, <3>5, <3>6
    <3> QED BY <3>1, <3>2, <3>4, <3>7
  <2> HIDE DEF y, sum
  <2> QED BY <2>4, <2>8, <2>9
<1> HIDE DEF N
<1>12. n \in N
  BY <1>1, <1>10, <1>11, NumberInduction
<1>13. Paid(d, n)
  BY <1>1, <1>5, <1>12 DEF N
<1>14. Total(c, t) - sum + v * n = Total(c, t)
  <2>1. Total(c, t) \in Nat /\ sum = v * n
    BY TotalBound
  <2> HIDE DEF sum
  <2> QED BY <1>1, <2>1
<1> HIDE DEF d, sum, n
<1>15. ASSUME d.ok PROVE c.ok /\ Natural(d) /\ \A u \in Tokens : Total(d, u) = Total(c, u)
  BY <1>13, <1>14, <1>15
<1> QED BY <1>13, <1>15 DEF Moves, d

-----------------------------------------------------------------------------
(* The strategy in force.                                                  *)
strategyStep(h, best, x) ==
  IF x.effect <= h /\ x.effect > best.effect THEN x ELSE best

Latest == INSTANCE DataLemmas WITH FoldStep <- strategyStep

(* GetStrategy as a fold of its steps.                                     *)
LEMMA StrategyUnfolded ==
  ASSUME NEW c, NEW h
  PROVE  GetStrategy(c, h) = Latest!Folded(h, [items |-> << >>, effect |-> 0], c.strategies,
                                           DOMAIN c.strategies).items
BY DEF GetStrategy, GetStrategys, FoldLeft, MapThenFoldSet, Max, Latest!Folded,
       Latest!IsFold, Latest!greatest, strategyStep

(* The contents have the one strategy of the genesis file.                 *)
InForce(c, strategy) ==
  strategy \in Strategies /\ c.strategies = <<[items |-> strategy, effect |-> 1]>>

(* GetStrategy finds the one strategy there is.                            *)
LEMMA StrategyInForce ==
  ASSUME NEW c, NEW strategy, InForce(c, strategy)
  PROVE  GetStrategy(c, 1) = strategy
<1>1. PICK b : b = [items |-> << >>, effect |-> 0]
  OBVIOUS
<1>2. PICK q : q = c.strategies
  OBVIOUS
<1>3. PICK r : /\ Latest!Folded(1, b, q, 1 .. 1) = r[1]
               /\ r[0] = b
               /\ \A i \in 1 .. 1 : r[i] = strategyStep(1, r[i - 1], q[i])
  <2>1. PICK h : h = 1
    OBVIOUS
  <2>2. PICK n : n = 1
    OBVIOUS
  <2>3. n \in Nat
    BY <2>2
  <2>4. \E r : /\ Latest!Folded(h, b, q, 1 .. n) = r[n]
              /\ r[0] = b
              /\ \A i \in 1 .. n : r[i] = strategyStep(h, r[i - 1], q[i])
    BY <2>3, Latest!FoldSteps
  <2> QED BY <2>1, <2>2, <2>4
<1>4. DOMAIN q = 1 .. 1 /\ q[1] = [items |-> strategy, effect |-> 1]
  BY <1>2 DEF InForce
<1>5. r[1] = strategyStep(1, b, q[1])
  BY <1>3
<1>6. r[1] = q[1]
  BY <1>1, <1>4, <1>5 DEF strategyStep
<1>7. GetStrategy(c, 1) = Latest!Folded(1, b, q, DOMAIN q).items
  BY <1>1, <1>2, StrategyUnfolded
<1> QED BY <1>3, <1>4, <1>6, <1>7

-----------------------------------------------------------------------------
(* The rewards of a fee.                                                   *)
sumStep(v, n, item) == n + rewardValue(v, item.percent)

FeeSum == INSTANCE DataLemmas WITH FoldStep <- sumStep

(* sumValue as a fold of its steps.                                        *)
LEMMA SumValueUnfolded ==
  ASSUME NEW strategy, NEW v
  PROVE  sumValue(strategy, v) = FeeSum!Folded(v, 0, strategy, DOMAIN strategy)
BY DEF sumValue, FoldLeft, MapThenFoldSet, Max, FeeSum!Folded, FeeSum!IsFold,
       FeeSum!greatest, sumStep

shareStep(k, m, item) == Put(m, rewardTo(item, k[2]), rewardValue(k[1], item.percent))

Shares == INSTANCE DataLemmas WITH FoldStep <- shareStep

(* sharesOf as a fold of its steps.                                        *)
LEMMA SharesUnfolded ==
  ASSUME NEW strategy, NEW v, NEW rewarder
  PROVE  sharesOf(strategy, v, rewarder)
           = Shares!Folded(<<v, rewarder>>, << >>, strategy, DOMAIN strategy)
BY DEF sharesOf, FoldLeft, MapThenFoldSet, Max, Shares!Folded, Shares!IsFold,
       Shares!greatest, shareStep

(* What every account gets of m.                                           *)
Full(m) == [a \in Accounts |-> IF a \in DOMAIN m THEN m[a] ELSE 0]
Granted(m) == SumFunctionOnSet(Full(m), Accounts)

IsGrant(m) == DOMAIN m \subseteq Accounts /\ \A a \in DOMAIN m : m[a] \in Nat

(* What is granted is a natural number, and the sum of the entries.        *)
LEMMA GrantBound ==
  ASSUME NEW m, IsGrant(m)
  PROVE  /\ Granted(m) \in Nat
         /\ Granted(m) = SumFunctionOnSet(m, DOMAIN m)
         /\ \A a \in Accounts : Full(m)[a] \in Nat
<1>1. \A a \in Accounts : Full(m)[a] \in Nat
  BY DEF IsGrant, Full
<1>2. Granted(m) \in Nat
  BY <1>1, SumBound, TokensAssumption DEF Granted
<1>3. Granted(m) = SumFunctionOnSet(m, DOMAIN m)
  <2> DEFINE f == Full(m)
             D == DOMAIN m
  <2>1. /\ D \in SUBSET Accounts
        /\ \A a \in D : m[a] \in Int /\ f[a] = m[a]
        /\ \A a \in Accounts \ D : f[a] = 0
    BY DEF IsGrant, Full
  <2> HIDE DEF f, D
  <2>2. SumFunctionOnSet(f, Accounts) = SumFunctionOnSet(m, D)
    BY <2>1, SumExtend, TokensAssumption
  <2> QED BY <2>2 DEF f, D, Granted
<1> QED BY <1>1, <1>2, <1>3

(* Writing an entry replaces what was granted under it.                    *)
LEMMA GrantPut ==
  ASSUME NEW m, IsGrant(m), NEW a \in Accounts, NEW x \in Nat
  PROVE  /\ IsGrant(Put(m, a, x))
         /\ DOMAIN Put(m, a, x) = DOMAIN m \cup {a}
         /\ Granted(Put(m, a, x)) = Granted(m) + x - (IF a \in DOMAIN m THEN m[a] ELSE 0)
<1> DEFINE d == Put(m, a, x)
           f == Full(m)
           h == Full(d)
<1>1. IsGrant(d) /\ DOMAIN d = DOMAIN m \cup {a}
  BY DEF IsGrant, Put
<1>2. \A b \in Accounts : f[b] \in Int /\ h[b] \in Int /\ (b # a => h[b] = f[b])
  BY DEF Full, Put, IsGrant
<1>3. h[a] = x /\ f[a] = IF a \in DOMAIN m THEN m[a] ELSE 0
  BY DEF Full, Put
<1> HIDE DEF f, h, d
<1>4. SumFunctionOnSet(h, Accounts) = SumFunctionOnSet(f, Accounts) + (h[a] - f[a])
  BY <1>2, SumChange, TokensAssumption
<1>5. SumFunctionOnSet(f, Accounts) \in Int /\ f[a] \in Int
  BY <1>2, SumType, TokensAssumption
<1>6. SumFunctionOnSet(h, Accounts) = SumFunctionOnSet(f, Accounts) + x - f[a]
  BY <1>3, <1>4, <1>5
<1> QED BY <1>1, <1>3, <1>6 DEF d, f, h, Granted

(* No address occurs twice.                                                *)
Distinct(strategy) ==
  \A i, j \in DOMAIN strategy :
    rewardTo(strategy[i], Rewarder) = rewardTo(strategy[j], Rewarder) => i = j

(* A share of a natural number is one.                                     *)
LEMMA RewardValueNatural ==
  ASSUME NEW v \in Nat, NEW p, p.digits \in Nat, divisor(p) \in Nat \ {0}
  PROVE  rewardValue(v, p) \in Nat
<1>1. v * p.digits \in Nat
  OBVIOUS
<1>2. ASSUME NEW a \in Nat, NEW d \in Nat \ {0} PROVE a \div d \in Nat
  OBVIOUS
<1> QED BY <1>1, <1>2 DEF rewardValue

(* The shares granted are no more than their sum, and as much when no      *)
(* address occurs twice.                                                   *)
LEMMA SharesGranted ==
  ASSUME NEW strategy \in Strategies, NEW v \in Nat
  PROVE  /\ IsGrant(sharesOf(strategy, v, Rewarder))
         /\ sumValue(strategy, v) \in Nat
         /\ Granted(sharesOf(strategy, v, Rewarder)) <= sumValue(strategy, v)
         /\ Distinct(strategy) =>
              Granted(sharesOf(strategy, v, Rewarder)) = sumValue(strategy, v)
<1> DEFINE n == Len(strategy)
           to(i) == rewardTo(strategy[i], Rewarder)
<1>1. /\ n \in Nat /\ DOMAIN strategy = 1 .. n
      /\ \A i \in 1 .. n : /\ to(i) \in Accounts
                           /\ rewardValue(v, strategy[i].percent) \in Nat
  <2>1. IsSequence(strategy)
    BY StrategiesAssumption DEF IsSequence
  <2>2. n \in Nat /\ DOMAIN strategy = 1 .. n
    BY <2>1, SequenceDomain
  <2> QED BY <2>2, StrategiesAssumption, RewardValueNatural
<1>2. n \in Nat
  BY <1>1
<1> HIDE DEF n
<1>3. PICK q : /\ FeeSum!Folded(v, 0, strategy, 1 .. n) = q[n]
               /\ q[0] = 0
               /\ \A i \in 1 .. n : q[i] = sumStep(v, q[i - 1], strategy[i])
  <2>1. PICK z : z = 0
    OBVIOUS
  <2>2. PICK k : k = v
    OBVIOUS
  <2>3. \E q : /\ FeeSum!Folded(k, z, strategy, 1 .. n) = q[n]
              /\ q[0] = z
              /\ \A i \in 1 .. n : q[i] = sumStep(k, q[i - 1], strategy[i])
    BY <1>2, FeeSum!FoldSteps
  <2> QED BY <2>1, <2>2, <2>3
<1>4. PICK k : k = <<v, Rewarder>>
  OBVIOUS
<1>5. PICK b : b = << >>
  OBVIOUS
<1>6. PICK r : /\ Shares!Folded(k, b, strategy, 1 .. n) = r[n]
               /\ r[0] = b
               /\ \A i \in 1 .. n : r[i] = shareStep(k, r[i - 1], strategy[i])
  BY <1>2, Shares!FoldSteps
<1>7. sumValue(strategy, v) = q[n]
  BY <1>1, <1>3, SumValueUnfolded
<1>8. sharesOf(strategy, v, Rewarder) = r[n]
  BY <1>1, <1>4, <1>5, <1>6, SharesUnfolded
<1> DEFINE P(m, x, i) ==
             /\ IsGrant(m) /\ x \in Nat
             /\ \A a \in DOMAIN m : \E j \in 1 .. i : a = to(j)
             /\ Granted(m) <= x
             /\ Distinct(strategy) => Granted(m) = x
           N == {i \in Nat : i <= n => P(r[i], q[i], i)}
<1>9. 0 \in N
  <2>1. r[0] = << >> /\ q[0] = 0 /\ DOMAIN << >> = {}
    BY <1>3, <1>5, <1>6
  <2>2. \A a \in Accounts : Full(r[0])[a] = 0
    BY <2>1 DEF Full
  <2>3. Granted(r[0]) = 0 * Cardinality(Accounts)
    BY <2>2, SumConstant, TokensAssumption DEF Granted
  <2>4. Granted(r[0]) = 0
    BY <2>3, FS_CardinalityType, TokensAssumption
  <2>5. IsGrant(r[0])
    BY <2>1 DEF IsGrant
  <2> QED BY <2>1, <2>4, <2>5
<1>10. ASSUME NEW i \in Nat, i \in N PROVE i + 1 \in N
  <2>1. SUFFICES ASSUME i + 1 <= n PROVE P(r[i + 1], q[i + 1], i + 1)
    OBVIOUS
  <2>2. i <= n /\ i + 1 \in 1 .. n /\ (i + 1) - 1 = i
    BY <1>1, <2>1
  <2>3. P(r[i], q[i], i)
    BY <1>10, <2>2
  <2> DEFINE m == r[i]
             x == q[i]
             a == to(i + 1)
             w == rewardValue(v, strategy[i + 1].percent)
  <2>4. q[i + 1] = x + w
    <3>1. q[i + 1] = sumStep(v, q[(i + 1) - 1], strategy[i + 1])
      BY <1>3, <2>2
    <3> QED BY <2>2, <3>1 DEF sumStep
  <2>5. r[i + 1] = Put(m, a, w)
    <3>1. r[i + 1] = shareStep(k, r[(i + 1) - 1], strategy[i + 1])
      BY <1>6, <2>2
    <3>2. k[1] = v /\ k[2] = Rewarder
      BY <1>4
    <3> QED BY <2>2, <3>1, <3>2 DEF shareStep
  <2>6. a \in Accounts /\ w \in Nat
    BY <1>1, <2>2
  <2>7. ASSUME Distinct(strategy) PROVE a \notin DOMAIN m
    <3>1. \A j \in 1 .. i : to(j) = a => j = i + 1
      BY <1>1, <2>2, <2>7 DEF Distinct
    <3>2. \A j \in 1 .. i : j # i + 1
      OBVIOUS
    <3> HIDE DEF a
    <3> QED BY <2>3, <3>1, <3>2
  <2> HIDE DEF a, w
  <2>8. /\ IsGrant(m) /\ x \in Nat /\ Granted(m) <= x
        /\ Distinct(strategy) => Granted(m) = x
        /\ Granted(m) \in Nat
    BY <2>3, GrantBound
  <2>9. /\ IsGrant(Put(m, a, w)) /\ DOMAIN Put(m, a, w) = DOMAIN m \cup {a}
        /\ Granted(Put(m, a, w)) = Granted(m) + w - (IF a \in DOMAIN m THEN m[a] ELSE 0)
    BY <2>6, <2>8, GrantPut
  <2>10. ASSUME NEW b2 \in DOMAIN Put(m, a, w) PROVE \E j \in 1 .. i + 1 : b2 = to(j)
    <3>1. CASE b2 = a
      BY <2>2, <3>1 DEF a
    <3>2. CASE b2 \in DOMAIN m
      <4>1. PICK j \in 1 .. i : b2 = to(j)
        BY <2>3, <3>2
      <4> QED BY <2>2, <4>1
    <3> QED BY <2>9, <2>10, <3>1, <3>2
  <2>11. Granted(Put(m, a, w)) <= x + w
    <3>1. a \in DOMAIN m => m[a] \in Nat
      BY <2>8 DEF IsGrant
    <3> HIDE DEF m, x
    <3> QED BY <2>6, <2>8, <2>9, <3>1
  <2>12. Distinct(strategy) => Granted(Put(m, a, w)) = x + w
    <3> HIDE DEF m, x
    <3> QED BY <2>6, <2>7, <2>8, <2>9
  <2>13. x + w \in Nat
    BY <2>6, <2>8
  <2> QED BY <2>4, <2>5, <2>9, <2>10, <2>11, <2>12, <2>13
<1> HIDE DEF N
<1>11. n \in N
  BY <1>2, <1>9, <1>10, NumberInduction
<1>12. P(r[n], q[n], n)
  BY <1>2, <1>11 DEF N
<1> QED BY <1>7, <1>8, <1>12

(* All of the fee is given out, or less when an address occurs twice.      *)
LEMMA RewardsGranted ==
  ASSUME NEW strategy \in Strategies, NEW v \in Nat, ~CalcdRewardsFails(strategy, v)
  PROVE  /\ IsGrant(CalcdRewards(strategy, v, Rewarder))
         /\ Granted(CalcdRewards(strategy, v, Rewarder)) <= v
         /\ Distinct(strategy) => Granted(CalcdRewards(strategy, v, Rewarder)) = v
<1> DEFINE m == sharesOf(strategy, v, Rewarder)
           x == sumValue(strategy, v)
           own == IF Rewarder \in DOMAIN m THEN m[Rewarder] ELSE 0
           rest == v - x
           d == IF rest > 0 THEN Put(m, Rewarder, own + rest) ELSE m
<1>1. d = CalcdRewards(strategy, v, Rewarder)
  BY DEF CalcdRewards
<1>2. x <= v
  BY SharesGranted DEF CalcdRewardsFails
<1>3. /\ IsGrant(m) /\ x \in Nat /\ Granted(m) <= x /\ Granted(m) \in Nat
      /\ Distinct(strategy) => Granted(m) = x
  BY SharesGranted, GrantBound
<1> HIDE DEF m, x
<1>4. own \in Nat /\ rest \in Nat
  BY <1>2, <1>3 DEF IsGrant
<1>5. CASE rest > 0
  <2>1. /\ IsGrant(d)
        /\ Granted(d) = Granted(m) + (own + rest) - own
    <3>1. own + rest \in Nat /\ Rewarder \in Accounts
      BY <1>4, TokensAssumption
    <3> QED BY <1>3, <1>5, <3>1, GrantPut
  <2> HIDE DEF own, d
  <2>2. Granted(d) = Granted(m) + (v - x)
    BY <1>3, <1>4, <2>1
  <2> HIDE DEF rest
  <2>3. ASSUME NEW g \in Nat, g <= x PROVE g + (v - x) <= v
    <3>1. x \in Nat
      BY <1>3
    <3> QED BY <2>3, <3>1
  <2>4. Granted(d) <= v
    BY <1>3, <2>2, <2>3
  <2>5. ASSUME Distinct(strategy) PROVE Granted(d) = v
    <3>1. Granted(m) = x
      BY <1>3, <2>5
    <3> QED BY <1>3, <2>2, <3>1
  <2> QED BY <1>1, <2>1, <2>4, <2>5
<1>6. CASE ~(rest > 0)
  BY <1>1, <1>2, <1>3, <1>6
<1> QED BY <1>5, <1>6

(* setRewardBalances adds the rewards to the genesis token alone.          *)
LEMMA RewardsPaid ==
  ASSUME NEW c, IsContents(c), Natural(c), NEW m, IsGrant(m)
  PROVE  /\ Others(c, setRewardBalances(c, m), {"bal"})
         /\ Natural(setRewardBalances(c, m))
         /\ Total(setRewardBalances(c, m), Basic) = Total(c, Basic) + Granted(m)
         /\ \A t \in Tokens : t # Basic => Total(setRewardBalances(c, m), t) = Total(c, t)
<1> DEFINE d == setRewardBalances(c, m)
           new == [k \in DOMAIN c.bal \cup {<<a, Basic>> : a \in DOMAIN m} |->
                     IF k[2] = Basic /\ k[1] \in DOMAIN m
                     THEN GetBalance(c, k[1], Basic) + m[k[1]] ELSE c.bal[k]]
<1>1. Others(c, d, {"bal"}) /\ d.bal = new
  BY DEF setRewardBalances, IsContents, Others, Fields
<1> HIDE DEF d
<1>2. ASSUME NEW a, NEW t
      PROVE  GetBalance(d, a, t)
               = IF t = Basic /\ a \in DOMAIN m THEN GetBalance(c, a, t) + m[a]
                                                ELSE GetBalance(c, a, t)
  <2>1. <<a, t>>[1] = a /\ <<a, t>>[2] = t
    OBVIOUS
  <2>2. CASE t = Basic /\ a \in DOMAIN m
    <3>1. <<a, t>> \in {<<b, Basic>> : b \in DOMAIN m}
      BY <2>2
    <3>2. <<a, t>> \in DOMAIN new /\ new[<<a, t>>] = GetBalance(c, a, t) + m[a]
      BY <2>1, <2>2, <3>1
    <3> QED BY <1>1, <2>2, <3>2 DEF GetBalance
  <2>3. CASE ~(t = Basic /\ a \in DOMAIN m)
    <3>1. <<a, t>> \notin {<<b, Basic>> : b \in DOMAIN m}
      BY <2>3
    <3>2. <<a, t>> \in DOMAIN new <=> <<a, t>> \in DOMAIN c.bal
      BY <3>1
    <3>3. <<a, t>> \in DOMAIN c.bal => new[<<a, t>>] = c.bal[<<a, t>>]
      BY <2>1, <2>3
    <3> HIDE DEF new
    <3> QED BY <1>1, <2>3, <3>2, <3>3 DEF GetBalance
  <2> QED BY <2>2, <2>3
<1>3. Natural(d)
  <2>1. ASSUME NEW a \in Accounts, NEW t \in Tokens PROVE GetBalance(d, a, t) \in Nat
    <3>1. GetBalance(c, a, t) \in Nat /\ (a \in DOMAIN m => m[a] \in Nat)
      BY DEF Natural, IsGrant
    <3> QED BY <1>2, <3>1
  <2> QED BY <2>1 DEF Natural
<1>4. Total(d, Basic) = Total(c, Basic) + Granted(m)
  <2> DEFINE f == [a \in Accounts |-> GetBalance(c, a, Basic)]
             g == Full(m)
             h == [a \in Accounts |-> GetBalance(d, a, Basic)]
  <2>1. ASSUME NEW a \in Accounts PROVE f[a] \in Int /\ g[a] \in Int /\ h[a] = f[a] + g[a]
    <3>1. f[a] = GetBalance(c, a, Basic) /\ h[a] = GetBalance(d, a, Basic)
      OBVIOUS
    <3>2. f[a] \in Nat
      BY <3>1 DEF Natural, Tokens
    <3>3. g[a] \in Nat /\ g[a] = IF a \in DOMAIN m THEN m[a] ELSE 0
      BY GrantBound DEF Full
    <3> QED BY <1>2, <3>1, <3>2, <3>3
  <2> HIDE DEF f, g, h
  <2>2. SumFunctionOnSet(h, Accounts)
          = SumFunctionOnSet(f, Accounts) + SumFunctionOnSet(g, Accounts)
    BY <2>1, SumAdd, TokensAssumption
  <2> QED BY <2>2 DEF f, g, h, Total, Granted
<1>5. ASSUME NEW t \in Tokens, t # Basic PROVE Total(d, t) = Total(c, t)
  <2>1. \A a \in Accounts : GetBalance(d, a, t) = GetBalance(c, a, t)
    BY <1>2, <1>5
  <2> QED BY <2>1, TotalSame
<1> QED BY <1>1, <1>3, <1>4, <1>5 DEF d

-----------------------------------------------------------------------------
(* The contents are in order: the records agree, no balance is negative,   *)
(* and what the accounts hold of a token is its supply.                    *)
Backed(c, strategy) ==
  /\ \A t \in DOMAIN c.tokens :
       IF t = Basic /\ ~Distinct(strategy) THEN Total(c, t) <= c.tokens[t].supply
                                           ELSE Total(c, t) = c.tokens[t].supply
  /\ \A t \in Tokens \ DOMAIN c.tokens : Total(c, t) = 0

Priced(c) == c.genesisPrice \in Nat /\ c.basePrice \in Nat

InOrder(c, strategy) ==
  /\ IsContents(c) /\ Records(c) /\ Priced(c)
  /\ Natural(c) /\ InForce(c, strategy) /\ Backed(c, strategy)

(* Only balances change, and no total but for a loss of the genesis token. *)
LEMMA InOrderKept ==
  ASSUME NEW c, NEW strategy, InOrder(c, strategy), NEW d, Others(c, d, {"ok", "bal"}),
         Natural(d), \A t \in Tokens : t # Basic => Total(d, t) = Total(c, t),
         Total(d, Basic) <= Total(c, Basic),
         Distinct(strategy) => Total(d, Basic) = Total(c, Basic)
  PROVE  InOrder(d, strategy) /\ Stays(c, d)
<1>1. /\ IsContents(d) /\ \A x \in RecordFields : d[x] = c[x]
      /\ d.genesisPrice = c.genesisPrice /\ d.basePrice = c.basePrice
      /\ d.strategies = c.strategies /\ d.tokens = c.tokens
  BY DEF Others, Fields, RecordFields
<1>2. Records(d) /\ Stays(c, d)
  BY <1>1, RecordsKept DEF InOrder
<1>3. Backed(d, strategy)
  <2>1. DOMAIN c.tokens \subseteq Tokens /\ Basic \in DOMAIN c.tokens
    BY DEF InOrder, Records, Typed
  <2>2. ASSUME NEW t \in DOMAIN d.tokens
        PROVE  IF t = Basic /\ ~Distinct(strategy) THEN Total(d, t) <= d.tokens[t].supply
                                                   ELSE Total(d, t) = d.tokens[t].supply
    <3>1. CASE t # Basic
      <4>1. Total(c, t) = c.tokens[t].supply
        BY <1>1, <3>1 DEF InOrder, Backed
      <4> QED BY <1>1, <2>1, <3>1, <4>1
    <3>2. CASE t = Basic /\ Distinct(strategy)
      <4>1. Total(c, Basic) = c.tokens[Basic].supply
        BY <2>1, <3>2 DEF InOrder, Backed
      <4> QED BY <1>1, <3>2, <4>1
    <3>3. CASE t = Basic /\ ~Distinct(strategy)
      <4>1. Total(c, Basic) <= c.tokens[Basic].supply
        BY <2>1, <3>3 DEF InOrder, Backed
      <4>2. Total(c, Basic) \in Nat /\ Total(d, Basic) \in Nat /\ c.tokens[Basic].supply \in Nat
        BY <2>1, TotalBound DEF InOrder, Tokens, Records, Typed, TokenRecord
      <4>3. Total(d, Basic) <= c.tokens[Basic].supply
        BY <4>1, <4>2
      <4> QED BY <1>1, <3>3, <4>3
    <3> QED BY <3>1, <3>2, <3>3
  <2>3. ASSUME NEW t \in Tokens \ DOMAIN d.tokens PROVE Total(d, t) = 0
    BY <1>1, <2>1, <2>3 DEF InOrder, Backed
  <2> QED BY <2>2, <2>3 DEF Backed
<1> QED BY <1>1, <1>2, <1>3 DEF InOrder, Priced, InForce

(* Moving money keeps the contents in order.                               *)
LEMMA MovesKeepOrder ==
  ASSUME NEW c, NEW strategy, InOrder(c, strategy), NEW d, Moves(c, d), d.ok
  PROVE  InOrder(d, strategy) /\ Stays(c, d)
<1>1. /\ Others(c, d, {"ok", "bal"}) /\ Natural(d)
      /\ \A t \in Tokens : Total(d, t) = Total(c, t)
      /\ Total(c, Basic) \in Nat
  BY TotalBound DEF Moves, InOrder, Tokens
<1>2. Total(d, Basic) = Total(c, Basic)
  BY <1>1 DEF Tokens
<1>3. Total(d, Basic) <= Total(c, Basic)
  BY <1>1, <1>2
<1> QED BY <1>1, <1>2, <1>3, InOrderKept

(* The fee is taken and given out again.                                   *)
LEMMA FeeCharged ==
  ASSUME NEW c, NEW strategy, InOrder(c, strategy), NEW payer \in Accounts,
         NEW x, NEW limit \in Nat
  PROVE  LET d == CheckAndPayForGas(c, payer, x, Gas, limit, blk)
             v == feeOf(c, payer, x, Gas, limit)
         IN /\ InOrder(d, strategy) /\ Stays(c, d) /\ Others(c, d, {"ok", "bal"})
            /\ v \in Nat
            /\ d.ok => ~CalcdRewardsFails(strategy, v)
<1> DEFINE d == CheckAndPayForGas(c, payer, x, Gas, limit, blk)
           v == feeOf(c, payer, x, Gas, limit)
           p == feePaid(c, payer, x, Gas, limit)
           fails == \/ ~CheckValidatorRewardAddr(c, Proposer, Rewarder)
                    \/ calcFeeFails(c, x, Gas, limit)
                    \/ CalcdRewardsFails(strategy, v)
           c1 == Require(c, p)
           c2 == SetBalance(c1, payer, Basic, GetBalance(c, payer, Basic) - v)
           m == CalcdRewards(strategy, v, Rewarder)
           c3 == setRewardBalances(c2, m)
<1>1. IsContents(c) /\ Natural(c) /\ strategy \in Strategies /\ GetStrategy(c, 1) = strategy
  BY StrategyInForce DEF InOrder, InForce
<1>2. d = IF fails THEN Require(c, FALSE) ELSE c3
  BY <1>1 DEF CheckAndPayForGas, blk
<1>3. /\ v \in Nat /\ GetBalance(c, payer, Basic) \in Nat
      /\ v <= GetBalance(c, payer, Basic)
  <2>1. gasPriceOf(c, x) \in Nat
    BY DEF gasPriceOf, GetGenesisToken, IsToken, InOrder, Priced, Records, Typed, TokenRecord
  <2>2. realgas(Gas, limit) \in Nat
    BY TokensAssumption DEF realgas
  <2>3. GetBalance(c, payer, Basic) \in Nat
    BY <1>1 DEF Natural, Tokens
  <2>4. realgas(Gas, limit) * gasPriceOf(c, x) \in Nat
    BY <2>1, <2>2
  <2> QED BY <2>3, <2>4 DEF feeOf
<1> HIDE DEF v, p
<1>4. CASE fails
  <2>1. Others(c, d, {"ok"}) /\ ~d.ok
    <3>1. d = Require(c, FALSE)
      BY <1>2, <1>4
    <3>2. Others(c, Require(c, FALSE), {"ok"}) /\ (Require(c, FALSE).ok => FALSE)
      BY <1>1, RequireEffect
    <3> QED BY <3>1, <3>2
  <2> HIDE DEF d, fails
  <2>2. Others(c, d, {"ok", "bal"}) /\ d.bal = c.bal
    BY <2>1 DEF Others, Fields
  <2>3. Natural(d) /\ \A t : Total(d, t) = Total(c, t)
    BY <1>1, <2>2, SameBalances
  <2>4. Total(c, Basic) \in Nat /\ Total(d, Basic) = Total(c, Basic)
    BY <1>1, <2>3, TotalBound DEF Tokens
  <2>5. Total(d, Basic) <= Total(c, Basic)
    BY <2>4
  <2>6. InOrder(d, strategy) /\ Stays(c, d)
    BY <2>2, <2>3, <2>4, <2>5, InOrderKept
  <2> QED BY <1>3, <2>1, <2>2, <2>6 DEF d, v
<1>5. CASE ~fails
  <2>1. d = c3 /\ ~CalcdRewardsFails(strategy, v)
    BY <1>2, <1>5
  <2> HIDE DEF d, fails
  <2>2. /\ IsGrant(m) /\ Granted(m) <= v /\ Granted(m) \in Nat
        /\ Distinct(strategy) => Granted(m) = v
    BY <1>1, <1>3, <2>1, RewardsGranted, GrantBound
  <2> HIDE DEF m
  <2>3. Others(c, c1, {"ok"}) /\ c1.bal = c.bal /\ IsContents(c1)
    <3>1. p \in BOOLEAN
      BY DEF p, feePaid
    <3>2. Others(c, c1, {"ok"})
      BY <1>1, <3>1, RequireEffect
    <3> HIDE DEF c1
    <3> QED BY <3>2 DEF Others, Fields
  <2> HIDE DEF c1
  <2>4. /\ Natural(c1) /\ \A t : Total(c1, t) = Total(c, t)
        /\ GetBalance(c1, payer, Basic) = GetBalance(c, payer, Basic)
    BY <1>1, <2>3, SameBalances
  <2>5. /\ Others(c1, c2, {"bal"}) /\ Natural(c2) /\ IsContents(c2)
        /\ Total(c2, Basic) = Total(c1, Basic) + (GetBalance(c, payer, Basic) - v)
                                - GetBalance(c1, payer, Basic)
        /\ \A t \in Tokens : t # Basic => Total(c2, t) = Total(c1, t)
    <3>1. GetBalance(c, payer, Basic) - v \in Nat /\ Basic \in Tokens
      BY <1>3 DEF Tokens
    <3> QED BY <2>3, <2>4, <3>1, SetBalanceTotals DEF Others
  <2> HIDE DEF c2
  <2>6. /\ Others(c2, c3, {"bal"}) /\ Natural(c3)
        /\ Total(c3, Basic) = Total(c2, Basic) + Granted(m)
        /\ \A t \in Tokens : t # Basic => Total(c3, t) = Total(c2, t)
    BY <2>2, <2>5, RewardsPaid
  <2> HIDE DEF c3
  <2>7. Others(c, d, {"ok", "bal"})
    BY <2>1, <2>3, <2>5, <2>6 DEF Others
  <2>8. Total(c, Basic) \in Nat
    BY <1>1, TotalBound DEF Tokens
  <2>9. Total(d, Basic) = Total(c, Basic) - v + Granted(m)
    BY <1>3, <2>1, <2>2, <2>4, <2>5, <2>6, <2>8
  <2>10. Total(d, Basic) <= Total(c, Basic)
    BY <1>3, <2>2, <2>8, <2>9
  <2>11. ASSUME Distinct(strategy) PROVE Total(d, Basic) = Total(c, Basic)
    <3>1. Granted(m) = v
      BY <2>2, <2>11
    <3> QED BY <1>3, <2>8, <2>9, <3>1
  <2>12. InOrder(d, strategy) /\ Stays(c, d)
    BY <2>1, <2>4, <2>5, <2>6, <2>7, <2>10, <2>11, InOrderKept
  <2> QED BY <1>3, <2>1, <2>7, <2>12 DEF d, v
<1> QED BY <1>4, <1>5

-----------------------------------------------------------------------------
(* The writes never touch ok.                                              *)
SameOk(c, d) == IsContents(d) /\ d.ok = c.ok

(* A write does not undo a refusal.                                        *)
LEMMA WritesKeepOk ==
  ASSUME NEW c, IsContents(c)
  PROVE  /\ \A a, t, v : SameOk(c, SetBalance(c, a, t, v))
         /\ \A t, token : SameOk(c, SetToken(c, t, token))
         /\ \A x, contract : SameOk(c, SetTokenContract(c, x, contract))
         /\ \A a, x : SameOk(c, DeleteContractAddr(c, a, x))
<1>1. \A a, t, v : SameOk(c, SetBalance(c, a, t, v))
  BY DEF IsContents, SetBalance, SameOk, Fields
<1>2. \A t, token : SameOk(c, SetToken(c, t, token))
  BY DEF IsContents, SetToken, SameOk, Fields
<1>3. \A x, contract : SameOk(c, SetTokenContract(c, x, contract))
  BY DEF IsContents, SetTokenContract, SameOk, Fields
<1>4. \A a, x : SameOk(c, DeleteContractAddr(c, a, x))
  BY DEF IsContents, DeleteContractAddr, SameOk, Fields
<1> QED BY <1>1, <1>2, <1>3, <1>4

(* A check keeps the order.                                                *)
LEMMA RequireKeeps ==
  ASSUME NEW c, NEW strategy, InOrder(c, strategy), NEW p \in BOOLEAN
  PROVE  /\ InOrder(Require(c, p), strategy) /\ Stays(c, Require(c, p))
         /\ Others(c, Require(c, p), {"ok"})
         /\ Require(c, p).tokens = c.tokens /\ Require(c, p).contracts = c.contracts
         /\ \A a, t : GetBalance(Require(c, p), a, t) = GetBalance(c, a, t)
         /\ \A t : Total(Require(c, p), t) = Total(c, t)
         /\ Require(c, p).ok => c.ok /\ p
<1> DEFINE d == Require(c, p)
<1>1. Others(c, d, {"ok"}) /\ (d.ok => c.ok /\ p)
  BY RequireEffect DEF InOrder
<1> HIDE DEF d
<1>2. /\ Others(c, d, {"ok", "bal"}) /\ d.bal = c.bal
      /\ d.tokens = c.tokens /\ d.contracts = c.contracts
  BY <1>1 DEF Others, Fields
<1>3. /\ Natural(d) /\ \A t : Total(d, t) = Total(c, t)
      /\ \A a, t : GetBalance(d, a, t) = GetBalance(c, a, t)
  BY <1>2, SameBalances DEF InOrder
<1>4. Total(c, Basic) \in Nat /\ Total(d, Basic) = Total(c, Basic)
  BY <1>3, TotalBound DEF Tokens, InOrder
<1>5. Total(d, Basic) <= Total(c, Basic)
  BY <1>4
<1>6. InOrder(d, strategy) /\ Stays(c, d)
  BY <1>2, <1>3, <1>4, <1>5, InOrderKept
<1> QED BY <1>1, <1>2, <1>3, <1>6 DEF d

(* Supply and total of one token change alike.                             *)
LEMMA OrderFromRecords ==
  ASSUME NEW c, NEW strategy, InOrder(c, strategy), NEW d,
         Others(c, d, RecordFields \cup {"ok", "bal"}), Records(d), Natural(d),
         DOMAIN d.tokens = DOMAIN c.tokens, NEW t \in DOMAIN c.tokens, NEW k \in Int,
         t = Basic => k = 0,
         d.tokens[t].supply = c.tokens[t].supply + k, Total(d, t) = Total(c, t) + k,
         \A u \in DOMAIN c.tokens : u # t => d.tokens[u].supply = c.tokens[u].supply,
         \A u \in Tokens : u # t => Total(d, u) = Total(c, u)
  PROVE  InOrder(d, strategy)
<1>1. IsContents(d) /\ Priced(d) /\ InForce(d, strategy)
  BY DEF Others, Fields, RecordFields, InOrder, Priced, InForce
<1>2. /\ DOMAIN c.tokens \subseteq Tokens
      /\ \A u \in DOMAIN c.tokens : c.tokens[u].supply \in Nat
      /\ \A u \in DOMAIN c.tokens : Total(c, u) \in Nat
  BY TotalBound DEF InOrder, Records, Typed, TokenRecord
<1>3. ASSUME NEW u \in DOMAIN d.tokens
      PROVE  IF u = Basic /\ ~Distinct(strategy) THEN Total(d, u) <= d.tokens[u].supply
                                                 ELSE Total(d, u) = d.tokens[u].supply
  <2>1. IF u = Basic /\ ~Distinct(strategy) THEN Total(c, u) <= c.tokens[u].supply
                                            ELSE Total(c, u) = c.tokens[u].supply
    BY DEF InOrder, Backed
  <2>2. CASE u # t
    BY <1>2, <2>1, <2>2
  <2>3. CASE u = t /\ u = Basic
    BY <1>2, <2>1, <2>3
  <2>4. CASE u = t /\ u # Basic
    <3>1. Total(c, t) = c.tokens[t].supply
      BY <2>1, <2>4
    <3>2. Total(d, t) = d.tokens[t].supply
      BY <3>1
    <3> QED BY <2>4, <3>2
  <2> QED BY <2>2, <2>3, <2>4
<1>4. ASSUME NEW u \in Tokens \ DOMAIN d.tokens PROVE Total(d, u) = 0
  BY <1>4 DEF InOrder, Backed
<1> QED BY <1>1, <1>3, <1>4 DEF InOrder, Backed

(* What a method leaves, if it does not refuse.                            *)
Lawful(c, d, strategy) ==
  IsContents(d) /\ (d.ok => InOrder(d, strategy) /\ Stays(c, d))

(* Transfer keeps the contents in order.                                   *)
LEMMA TransferLawful ==
  ASSUME NEW c, NEW strategy, InOrder(c, strategy), NEW sender \in Accounts,
         NEW to \in Accounts, NEW t \in Tokens, NEW v \in Nat
  PROVE  Lawful(c, TokenTempletTransfer(c, sender, t, to, v), strategy)
<1> DEFINE d == TokenTempletTransfer(c, sender, t, to, v)
<1>1. Moves(c, d)
  BY TransferMoves DEF InOrder
<1> HIDE DEF d
<1>2. IsContents(d)
  BY <1>1 DEF Moves, Others
<1>3. d.ok => InOrder(d, strategy) /\ Stays(c, d)
  BY <1>1, MovesKeepOrder
<1> QED BY <1>2, <1>3 DEF d, Lawful

(* BatchTransfer keeps the contents in order.                              *)
LEMMA BatchLawful ==
  ASSUME NEW c, NEW strategy, InOrder(c, strategy), NEW sender \in Accounts,
         NEW t \in Tokens, NEW v \in Nat, NEW to1 \in Accounts, NEW to2 \in Accounts
  PROVE  Lawful(c, BatchTransfer(c, sender, t, <<to1, to2>>, v), strategy)
<1> DEFINE d == BatchTransfer(c, sender, t, <<to1, to2>>, v)
<1>1. Moves(c, d)
  <2>1. PICK toList : toList = <<to1, to2>>
    OBVIOUS
  <2>2. IsSequence(toList) /\ Range(toList) \subseteq Accounts
    BY <2>1 DEF IsSequence, Range
  <2>3. Moves(c, BatchTransfer(c, sender, t, toList, v))
    BY <2>2, BatchMoves DEF InOrder
  <2> QED BY <2>1, <2>3
<1> HIDE DEF d
<1>2. IsContents(d)
  BY <1>1 DEF Moves, Others
<1>3. d.ok => InOrder(d, strategy) /\ Stays(c, d)
  BY <1>1, MovesKeepOrder
<1> QED BY <1>2, <1>3 DEF d, Lawful

(* A token's supply is written.                                            *)
LEMMA SetSupplyKeeps ==
  ASSUME NEW c, IsContents(c), Records(c), NEW t \in DOMAIN c.tokens, t # Basic,
         NEW v, v \in Nat, v >= MinSupply, NEW p \in BOOLEAN
  PROVE  LET d == SetToken(Require(c, p), t, [c.tokens[t] EXCEPT !.supply = v])
         IN /\ Others(c, d, {"ok", "tokens", "byName", "bySymbol"})
            /\ Records(d) /\ Stays(c, d)
            /\ d.ok => c.ok
            /\ DOMAIN d.tokens = DOMAIN c.tokens
            /\ d.tokens[t].supply = v
            /\ \A u \in DOMAIN c.tokens : u # t => d.tokens[u] = c.tokens[u]
<1> DEFINE c1 == Require(c, p)
           token == [c.tokens[t] EXCEPT !.supply = v]
           d == SetToken(c1, t, token)
<1>1. Others(c, c1, {"ok"}) /\ (c1.ok => c.ok)
  BY RequireEffect
<1> HIDE DEF c1
<1>3. /\ IsContents(c1) /\ \A x \in RecordFields : c1[x] = c[x]
      /\ c1.tokens = c.tokens
  BY <1>1 DEF Others, Fields, RecordFields
<1>4. Records(c1)
  BY <1>3, RecordsKept
<1>5. /\ token \in TokenRecord /\ token.name = c.tokens[t].name
      /\ token.symbol = c.tokens[t].symbol /\ token.owner = c.tokens[t].owner
      /\ token.supply = v
  BY DEF Records, Typed, TokenRecord
<1> HIDE DEF token
<1>6. Others(c1, d, {"tokens", "byName", "bySymbol"}) /\ Records(d) /\ Stays(c1, d)
  BY <1>3, <1>4, <1>5, SetTokenKeeps
<1>7. d.tokens = Put(c.tokens, t, token)
  BY <1>3, SetTokenEffect
<1> HIDE DEF d
<1>8. Others(c, d, {"ok", "tokens", "byName", "bySymbol"}) /\ (d.ok => c.ok)
  BY <1>1, <1>6 DEF Others, Fields
<1>9. Stays(c, d)
  BY <1>3, <1>6 DEF Stays
<1>10. /\ DOMAIN d.tokens = DOMAIN c.tokens /\ d.tokens[t].supply = v
       /\ \A u \in DOMAIN c.tokens : u # t => d.tokens[u] = c.tokens[u]
  BY <1>5, <1>7 DEF Put
<1> QED BY <1>6, <1>8, <1>9, <1>10 DEF d, c1, token

(* AddSupply raises the supply by what the owner gets.                     *)
LEMMA AddSupplyLawful ==
  ASSUME NEW c, NEW strategy, InOrder(c, strategy), NEW sender \in Accounts,
         NEW t \in DOMAIN c.tokens, t # Basic, c.tokens[t].supply # 0, NEW v \in Nat
  PROVE  Lawful(c, AddSupply(c, sender, t, v), strategy)
<1> DEFINE p == v > 0 /\ sender = c.contracts[t].owner
           c1 == Require(c, p)
           n == c.tokens[t].supply
           c2 == SetTokenSupply(c1, t, n + v, TRUE, FALSE)
           a == c.contracts[t].owner
           d == SetBalance(c2, a, t, GetBalance(c, a, t) + v)
           q == (TRUE => c1.tokens[t].addSupply) /\ (FALSE => c1.tokens[t].burn)
<1>1. d = AddSupply(c, sender, t, v)
  BY DEF AddSupply, TokenSupply
<1>2. /\ InOrder(c1, strategy) /\ Stays(c, c1) /\ Others(c, c1, {"ok"})
      /\ c1.tokens = c.tokens
      /\ \A b, u : GetBalance(c1, b, u) = GetBalance(c, b, u)
      /\ \A u : Total(c1, u) = Total(c, u)
  <2>1. p \in BOOLEAN
    OBVIOUS
  <2> HIDE DEF p
  <2> QED BY <2>1, RequireKeeps
<1> HIDE DEF c1
<1>3. t \in Tokens /\ n \in Nat /\ n >= MinSupply /\ a \in Accounts
  BY DEF InOrder, Records, Typed, Supplied, TokenRecord, Owned
<1>4. n + v \in Nat /\ n + v >= MinSupply
  BY <1>3, WidthAssumption
<1> HIDE DEF n, a
<1>5. /\ Others(c1, c2, {"ok", "tokens", "byName", "bySymbol"})
      /\ Records(c2) /\ Stays(c1, c2)
      /\ DOMAIN c2.tokens = DOMAIN c.tokens /\ c2.tokens[t].supply = n + v
      /\ \A u \in DOMAIN c.tokens : u # t => c2.tokens[u] = c.tokens[u]
  <2>1. c2 = SetToken(Require(c1, q), t, [c1.tokens[t] EXCEPT !.supply = n + v])
    BY DEF SetTokenSupply
  <2>2. q \in BOOLEAN
    OBVIOUS
  <2> HIDE DEF q, c2
  <2>3. IsContents(c1) /\ Records(c1)
    BY <1>2 DEF InOrder
  <2> QED BY <1>2, <1>4, <2>1, <2>2, <2>3, SetSupplyKeeps
<1> HIDE DEF c2
<1>6. /\ IsContents(c2) /\ c2.bal = c1.bal
  BY <1>5 DEF Others, Fields
<1>7. /\ Natural(c2) /\ \A u : Total(c2, u) = Total(c, u)
      /\ GetBalance(c2, a, t) = GetBalance(c, a, t)
  BY <1>2, <1>6, SameBalances DEF InOrder
<1>8. GetBalance(c, a, t) \in Nat /\ GetBalance(c, a, t) + v \in Nat
  BY <1>3 DEF InOrder, Natural
<1>9. /\ Others(c2, d, {"bal"}) /\ Natural(d)
      /\ Total(d, t) = Total(c2, t) + (GetBalance(c, a, t) + v) - GetBalance(c2, a, t)
      /\ \A u \in Tokens : u # t => Total(d, u) = Total(c2, u)
  BY <1>3, <1>6, <1>7, <1>8, SetBalanceTotals
<1> HIDE DEF d
<1>10. /\ Others(c, d, RecordFields \cup {"ok", "bal"})
       /\ IsContents(d) /\ d.tokens = c2.tokens /\ \A x \in RecordFields : d[x] = c2[x]
  BY <1>2, <1>5, <1>9 DEF Others, Fields, RecordFields
<1>11. Records(d) /\ Stays(c2, d)
  BY <1>5, <1>6, <1>10, RecordsKept
<1>12. Total(d, t) = Total(c, t) + v /\ Total(c, t) \in Nat
  <2>1. Total(c, t) \in Nat
    BY <1>3, TotalBound DEF InOrder
  <2> QED BY <1>7, <1>8, <1>9, <2>1
<1>13. InOrder(d, strategy)
  <2>1. \A u \in Tokens : u # t => Total(d, u) = Total(c, u)
    BY <1>7, <1>9
  <2>2. /\ DOMAIN d.tokens = DOMAIN c.tokens /\ d.tokens[t].supply = c.tokens[t].supply + v
        /\ \A u \in DOMAIN c.tokens : u # t => d.tokens[u].supply = c.tokens[u].supply
    BY <1>5, <1>10 DEF n
  <2>3. v \in Int
    OBVIOUS
  <2> QED BY <1>9, <1>10, <1>11, <1>12, <2>1, <2>2, <2>3, OrderFromRecords
<1>14. Stays(c, d)
  BY <1>2, <1>5, <1>10 DEF Stays
<1> QED BY <1>1, <1>10, <1>13, <1>14 DEF Lawful

(* Burn lowers the supply by what the owner loses, and never below the     *)
(* least allowed.                                                          *)
LEMMA BurnLawful ==
  ASSUME NEW c, NEW strategy, InOrder(c, strategy), NEW sender \in Accounts,
         NEW t \in DOMAIN c.tokens, t # Basic, NEW v \in Nat
  PROVE  Lawful(c, Burn(c, sender, t, v), strategy)
<1> DEFINE n == c.tokens[t].supply
           x == GetBalance(c, sender, t)
           p == sender = c.contracts[t].owner /\ x >= v /\ enoughLeft(c, t, v)
           c1 == Require(c, p)
           c2 == SetBalance(c1, sender, t, x - v)
           d == SetTokenSupply(c2, t, n - v, FALSE, TRUE)
<1>1. d = Burn(c, sender, t, v)
  BY DEF Burn, TokenSupply
<1>2. /\ InOrder(c1, strategy) /\ Stays(c, c1) /\ Others(c, c1, {"ok"})
      /\ c1.tokens = c.tokens
      /\ \A b, u : GetBalance(c1, b, u) = GetBalance(c, b, u)
      /\ \A u : Total(c1, u) = Total(c, u)
      /\ c1.ok => p
  <2>1. p \in BOOLEAN
    BY DEF enoughLeft
  <2> HIDE DEF p
  <2> QED BY <2>1, RequireKeeps
<1>3. t \in Tokens /\ n \in Nat /\ x \in Nat
  BY DEF InOrder, Records, Typed, TokenRecord, Natural
<1>4. p => x - v \in Nat /\ n - v >= MinSupply /\ n - v \in Nat
  <2>1. MinSupply \in Nat
    BY WidthAssumption
  <2>2. p => x >= v /\ n - v >= MinSupply
    BY DEF enoughLeft, TokenSupply
  <2> HIDE DEF p, n, x
  <2> QED BY <1>3, <2>1, <2>2
<1> HIDE DEF p, n, x, c1
<1>5. SameOk(c1, c2)
  BY <1>2, WritesKeepOk DEF InOrder
<1>6. SameOk(c2, d) \/ (IsContents(d) /\ (d.ok => c2.ok))
  <2> DEFINE q == (FALSE => c2.tokens[t].addSupply) /\ (TRUE => c2.tokens[t].burn)
             c3 == Require(c2, q)
  <2>1. d = SetToken(c3, t, [c2.tokens[t] EXCEPT !.supply = n - v])
    BY DEF SetTokenSupply
  <2>2. IsContents(c3) /\ (c3.ok => c2.ok)
    <3>1. q \in BOOLEAN
      OBVIOUS
    <3> HIDE DEF q, c2
    <3> QED BY <1>5, <3>1, RequireEffect DEF SameOk, Others
  <2> HIDE DEF c3
  <2>3. SameOk(c3, d)
    BY <2>1, <2>2, WritesKeepOk
  <2> HIDE DEF d, c2
  <2> QED BY <2>2, <2>3 DEF SameOk
<1>7. IsContents(d) /\ (d.ok => c1.ok)
  <2> HIDE DEF d, c2
  <2> QED BY <1>5, <1>6 DEF SameOk
<1>8. ASSUME d.ok PROVE InOrder(d, strategy) /\ Stays(c, d)
  <2>1. x - v \in Nat /\ n - v \in Nat /\ n - v >= MinSupply
    BY <1>2, <1>4, <1>7, <1>8
  <2>2. /\ Others(c1, c2, {"bal"}) /\ Natural(c2)
        /\ Total(c2, t) = Total(c1, t) + (x - v) - GetBalance(c1, sender, t)
        /\ \A u \in Tokens : u # t => Total(c2, u) = Total(c1, u)
    BY <1>2, <1>3, <2>1, SetBalanceTotals DEF InOrder
  <2> HIDE DEF c2
  <2>3. /\ IsContents(c2) /\ c2.tokens = c.tokens /\ \A f \in RecordFields : c2[f] = c1[f]
    BY <1>2, <2>2 DEF Others, Fields, RecordFields
  <2>4. Records(c2) /\ Stays(c1, c2)
    BY <1>2, <2>3, RecordsKept DEF InOrder
  <2>5. /\ Others(c2, d, {"ok", "tokens", "byName", "bySymbol"})
        /\ Records(d) /\ Stays(c2, d)
        /\ DOMAIN d.tokens = DOMAIN c.tokens /\ d.tokens[t].supply = n - v
        /\ \A u \in DOMAIN c.tokens : u # t => d.tokens[u] = c.tokens[u]
    <3> DEFINE q == (FALSE => c2.tokens[t].addSupply) /\ (TRUE => c2.tokens[t].burn)
    <3>1. d = SetToken(Require(c2, q), t, [c2.tokens[t] EXCEPT !.supply = n - v])
      BY DEF SetTokenSupply
    <3>2. q \in BOOLEAN
      OBVIOUS
    <3> HIDE DEF q, d
    <3> QED BY <2>1, <2>3, <2>4, <3>1, <3>2, SetSupplyKeeps
  <2> HIDE DEF d
  <2>6. d.bal = c2.bal /\ Others(c, d, RecordFields \cup {"ok", "bal"})
    BY <1>2, <2>2, <2>5 DEF Others, Fields, RecordFields
  <2>7. Natural(d) /\ \A u : Total(d, u) = Total(c2, u)
    BY <2>2, <2>6, SameBalances
  <2>8. Total(c, t) \in Nat
    BY <1>3, TotalBound DEF InOrder
  <2>9. Total(d, t) = Total(c, t) + (0 - v)
    <3>1. GetBalance(c1, sender, t) = x
      BY <1>2 DEF x
    <3> QED BY <1>2, <1>3, <2>2, <2>7, <2>8, <3>1
  <2>10. d.tokens[t].supply = c.tokens[t].supply + (0 - v)
    <3>1. n = c.tokens[t].supply
      BY DEF n
    <3> QED BY <1>3, <2>5, <3>1
  <2>11. \A u \in Tokens : u # t => Total(d, u) = Total(c, u)
    BY <1>2, <2>2, <2>7
  <2>12. 0 - v \in Int
    OBVIOUS
  <2>13. \A u \in DOMAIN c.tokens : u # t => d.tokens[u].supply = c.tokens[u].supply
    BY <2>5
  <2>14. InOrder(d, strategy)
    BY <2>5, <2>6, <2>7, <2>9, <2>10, <2>11, <2>12, <2>13, OrderFromRecords
  <2>15. Stays(c, d)
    BY <1>2, <2>3, <2>5 DEF Stays
  <2> QED BY <2>14, <2>15
<1> QED BY <1>1, <1>7, <1>8 DEF Lawful

(* SetOwner moves the balance, the token and the contract, and both        *)
(* owners' lists.                                                          *)
LEMMA SetOwnerLawful ==
  ASSUME NEW c, NEW strategy, InOrder(c, strategy), NEW sender \in Accounts,
         NEW t \in DOMAIN c.tokens, t # Basic, NEW new \in Accounts
  PROVE  Lawful(c, SetOwner(c, sender, t, new), strategy)
<1> DEFINE p == sender = c.contracts[t].owner
           c1 == Require(c, p)
           x == GetBalance(c, sender, t)
           c2 == TokenTempletTransfer(c1, sender, t, new, x)
           d == SetTokenNewOwner(c2, t, new)
<1>1. d = SetOwner(c, sender, t, new)
  BY DEF SetOwner
<1>2. /\ InOrder(c1, strategy) /\ Stays(c, c1) /\ Others(c, c1, {"ok"})
      /\ c1.tokens = c.tokens /\ c1.contracts = c.contracts
      /\ c1.ok => p
  <2>1. p \in BOOLEAN
    OBVIOUS
  <2> HIDE DEF p
  <2> QED BY <2>1, RequireKeeps
<1>3. t \in Tokens /\ x \in Nat /\ c.tokens[t].owner = c.contracts[t].owner
  BY DEF InOrder, Records, Typed, Natural, Owned
<1> HIDE DEF c1, x
<1>4. Moves(c1, c2) /\ (c2.ok => sender # new)
  BY <1>2, <1>3, TransferMoves DEF InOrder
<1> HIDE DEF c2
<1>5. IsContents(c2) /\ c2.tokens = c.tokens
  BY <1>2, <1>4 DEF Moves, Others, Fields
<1>6. SameOk(c2, d)
  <2> DEFINE c3 == SetToken(c2, t, [c2.tokens[t] EXCEPT !.owner = new])
             c4 == SetTokenContract(c3, t, [c2.contracts[t] EXCEPT !.owner = new])
  <2>1. d = DeleteContractAddr(c4, c2.tokens[t].owner, t)
    BY DEF SetTokenNewOwner
  <2> HIDE DEF d
  <2>2. SameOk(c2, c3)
    BY <1>5, WritesKeepOk
  <2> HIDE DEF c3
  <2>3. SameOk(c3, c4)
    BY <2>2, WritesKeepOk DEF SameOk
  <2> HIDE DEF c4
  <2>4. SameOk(c4, d)
    BY <2>1, <2>3, WritesKeepOk DEF SameOk
  <2> QED BY <2>2, <2>3, <2>4 DEF SameOk
<1>7. ASSUME d.ok PROVE InOrder(d, strategy) /\ Stays(c, d)
  <2> HIDE DEF d
  <2>1. c2.ok /\ c1.ok
    <3>1. c2.ok
      BY <1>6, <1>7 DEF SameOk
    <3> QED BY <1>4, <3>1 DEF Moves
  <2>2. new # c2.tokens[t].owner
    BY <1>2, <1>3, <1>4, <1>5, <2>1
  <2>3. InOrder(c2, strategy) /\ Stays(c1, c2)
    BY <1>2, <1>4, <2>1, MovesKeepOrder
  <2>4. /\ Others(c2, d, RecordFields) /\ Records(d) /\ Stays(c2, d)
        /\ DOMAIN d.tokens = DOMAIN c2.tokens
        /\ \A u \in DOMAIN c2.tokens : d.tokens[u].supply = c2.tokens[u].supply
    BY <1>5, <2>2, <2>3, NewOwnerKeeps DEF InOrder, d
  <2>5. d.bal = c2.bal /\ Others(c2, d, RecordFields \cup {"ok", "bal"})
    BY <2>4 DEF Others, Fields, RecordFields
  <2>6. Natural(d) /\ \A u : Total(d, u) = Total(c2, u)
    BY <2>3, <2>5, SameBalances DEF InOrder
  <2>7. Total(d, t) = Total(c2, t) + 0 /\ d.tokens[t].supply = c2.tokens[t].supply + 0
    <3>1. Total(c2, t) \in Nat /\ c2.tokens[t].supply \in Nat
      BY <1>3, <1>5, <2>3, TotalBound DEF InOrder, Records, Typed, TokenRecord
    <3> QED BY <1>5, <2>4, <2>6, <3>1
  <2>8. InOrder(d, strategy)
    <3>1. 0 \in Int
      OBVIOUS
    <3> QED BY <1>5, <2>3, <2>4, <2>5, <2>6, <2>7, <3>1, OrderFromRecords
  <2>9. Stays(c, d)
    BY <1>2, <1>5, <2>4 DEF Stays
  <2> QED BY <2>8, <2>9
<1>8. IsContents(d)
  BY <1>6 DEF SameOk
<1> QED BY <1>1, <1>7, <1>8 DEF Lawful

(* SetGasPrice touches nothing but the price.                              *)
LEMMA SetGasPriceLawful ==
  ASSUME NEW c, NEW strategy, InOrder(c, strategy), NEW sender \in Accounts,
         NEW t \in DOMAIN c.tokens, NEW v \in Nat
  PROVE  Lawful(c, TokenTempletSetGasPrice(c, sender, t, v), strategy)
<1> DEFINE p == /\ sender = c.contracts[t].owner
                /\ v \in GetBaseGasPrice(c) .. MaxGasPrice
           c1 == Require(c, p)
           token == [c1.tokens[t] EXCEPT !.gasPrice = v]
           d == SetToken(c1, t, token)
<1>1. d = TokenTempletSetGasPrice(c, sender, t, v)
  BY DEF TokenTempletSetGasPrice, SetGasPrice
<1>2. /\ InOrder(c1, strategy) /\ Stays(c, c1) /\ c1.tokens = c.tokens
  <2>1. p \in BOOLEAN
    OBVIOUS
  <2> HIDE DEF p
  <2> QED BY <2>1, RequireKeeps
<1> HIDE DEF c1
<1>3. /\ token \in TokenRecord /\ token.name = c1.tokens[t].name
      /\ token.symbol = c1.tokens[t].symbol /\ token.owner = c1.tokens[t].owner
      /\ token.supply = c1.tokens[t].supply
  BY <1>2 DEF InOrder, Records, Typed, TokenRecord
<1> HIDE DEF token
<1>4. /\ Others(c1, d, {"tokens", "byName", "bySymbol"}) /\ Records(d) /\ Stays(c1, d)
      /\ d.tokens = Put(c1.tokens, t, token)
  <2>1. IsContents(c1) /\ Records(c1) /\ t \in DOMAIN c1.tokens
    BY <1>2 DEF InOrder
  <2>2. d.tokens = Put(c1.tokens, t, token)
    BY <2>1, SetTokenEffect
  <2>3. Others(c1, d, {"tokens", "byName", "bySymbol"}) /\ Records(d) /\ Stays(c1, d)
    <3>1. token.supply = c1.tokens[t].supply \/ (t # Basic /\ token.supply >= MinSupply)
      BY <1>3
    <3>2. /\ token \in TokenRecord /\ token.name = c1.tokens[t].name
          /\ token.symbol = c1.tokens[t].symbol /\ token.owner = c1.tokens[t].owner
      BY <1>3
    <3> QED BY <2>1, <3>1, <3>2, SetTokenKeeps
  <2> QED BY <2>2, <2>3
<1> HIDE DEF d
<1>5. d.bal = c1.bal /\ Others(c1, d, RecordFields \cup {"ok", "bal"})
  BY <1>4 DEF Others, Fields, RecordFields
<1>6. Natural(d) /\ \A u : Total(d, u) = Total(c1, u)
  BY <1>2, <1>5, SameBalances DEF InOrder
<1>7. /\ DOMAIN d.tokens = DOMAIN c1.tokens
      /\ \A u \in DOMAIN c1.tokens : d.tokens[u].supply = c1.tokens[u].supply
  BY <1>2, <1>3, <1>4 DEF Put
<1>8. Total(d, t) = Total(c1, t) + 0 /\ d.tokens[t].supply = c1.tokens[t].supply + 0
  <2>1. Total(c1, t) \in Nat /\ c1.tokens[t].supply \in Nat
    BY <1>2, TotalBound DEF InOrder, Records, Typed, TokenRecord
  <2> QED BY <1>2, <1>6, <1>7, <2>1
<1>9. InOrder(d, strategy)
  <2>1. 0 \in Int
    OBVIOUS
  <2> QED BY <1>2, <1>4, <1>5, <1>6, <1>7, <1>8, <2>1, OrderFromRecords
<1>10. Stays(c, d)
  BY <1>2, <1>4 DEF Stays
<1> QED BY <1>1, <1>5, <1>9, <1>10 DEF Lawful, Others

(* SetGasBasePrice touches nothing but the price.                          *)
LEMMA SetGasBasePriceLawful ==
  ASSUME NEW c, NEW strategy, InOrder(c, strategy), NEW sender \in Accounts, NEW v \in Nat
  PROVE  Lawful(c, SetGasBasePrice(c, sender, v), strategy)
<1> DEFINE p == sender = c.contracts[Basic].owner /\ v \in 1 .. MaxGasPrice
           c1 == Require(c, p)
           d == SetBaseGasPrice(c1, v)
<1>1. d = SetGasBasePrice(c, sender, v)
  BY DEF SetGasBasePrice
<1>2. InOrder(c1, strategy) /\ Stays(c, c1)
  <2>1. p \in BOOLEAN
    OBVIOUS
  <2> HIDE DEF p
  <2> QED BY <2>1, RequireKeeps
<1> HIDE DEF c1
<1>3. Others(c1, d, {"basePrice"}) /\ d.basePrice = v
  BY <1>2 DEF SetBaseGasPrice, InOrder, IsContents, Others, Fields
<1> HIDE DEF d
<1>4. /\ IsContents(d) /\ d.bal = c1.bal /\ d.tokens = c1.tokens /\ d.strategies = c1.strategies
      /\ d.genesisPrice = c1.genesisPrice /\ \A x \in RecordFields : d[x] = c1[x]
  BY <1>3 DEF Others, Fields, RecordFields
<1>5. Records(d) /\ Stays(c1, d)
  BY <1>2, <1>4, RecordsKept DEF InOrder
<1>6. Natural(d) /\ \A u : Total(d, u) = Total(c1, u)
  BY <1>2, <1>4, SameBalances DEF InOrder
<1>7. InOrder(d, strategy)
  BY <1>2, <1>3, <1>4, <1>5, <1>6 DEF InOrder, Priced, InForce, Backed
<1>8. Stays(c, d)
  BY <1>2, <1>4 DEF Stays
<1> QED BY <1>1, <1>4, <1>7, <1>8 DEF Lawful

(* NewToken writes over nothing but a token without supply, which nobody   *)
(* holds.                                                                  *)
LEMMA NewTokenLawful ==
  ASSUME NEW c, NEW strategy, InOrder(c, strategy), NEW sender \in Accounts,
         NEW token \in TokenRecord, token.owner = sender
  PROVE  Lawful(c, TokenIssueNewToken(c, sender, token), strategy)
<1> DEFINE t == token.name
           p == /\ token.supply >= MinSupply \/ token.supply = 0
                /\ CheckNameAndSybmol(c, sender, token.name, token.symbol)
                /\ token.gasPrice \in GetBaseGasPrice(c) .. MaxGasPrice
           c1 == Require(c, p)
           template == NewContract("token-templet", GenesisOwner)
           d == NewToken(c1, sender, t, token, template)
<1>1. d = TokenIssueNewToken(c, sender, token)
  <2>1. [token EXCEPT !.owner = sender] = token
    BY DEF TokenRecord
  <2> QED BY <2>1 DEF TokenIssueNewToken
<1>2. /\ InOrder(c1, strategy) /\ Stays(c, c1) /\ Others(c, c1, {"ok"})
      /\ c1.tokens = c.tokens /\ (c1.ok => p)
  <2>1. p \in BOOLEAN
    OBVIOUS
  <2> HIDE DEF p
  <2> QED BY <2>1, RequireKeeps
<1>3. /\ t \in Tokens /\ token.supply \in Nat /\ template \in ContractRecord
  BY TokensAssumption DEF TokenRecord, ContractRecord, NewContract
<1> HIDE DEF c1, template
<1>4. SameOk(c1, d)
  <2> DEFINE contract == [template EXCEPT !.owner = sender, !.name = token.name]
             c2 == SetToken(c1, t, token)
             c3 == SetTokenContract(c2, t, contract)
  <2>1. d = SetBalance(c3, sender, t, token.supply)
    BY DEF NewToken
  <2> HIDE DEF d, contract
  <2>2. SameOk(c1, c2)
    BY <1>2, WritesKeepOk DEF InOrder
  <2> HIDE DEF c2
  <2>3. SameOk(c2, c3)
    BY <2>2, WritesKeepOk DEF SameOk
  <2> HIDE DEF c3
  <2>4. SameOk(c3, d)
    BY <2>1, <2>3, WritesKeepOk DEF SameOk
  <2> QED BY <2>2, <2>3, <2>4 DEF SameOk
<1>5. ASSUME d.ok PROVE InOrder(d, strategy) /\ Stays(c, d)
  <2> HIDE DEF d
  <2>1. p
    BY <1>2, <1>4, <1>5 DEF SameOk
  <2>2. CheckNameAndSybmol(c1, sender, token.name, token.symbol)
    <3>1. c1.byName = c.byName /\ c1.bySymbol = c.bySymbol
      BY <1>2 DEF Others, Fields
    <3> QED BY <1>2, <2>1, <3>1
        DEF CheckNameAndSybmol, GetTokenAddrByName, GetTokenAddrBySymbol, IsToken
  <2>3. /\ Others(c1, d, RecordFields \cup {"bal"})
        /\ d.tokens = Put(c1.tokens, t, token)
        /\ t \in DOMAIN c1.tokens => c1.tokens[t].supply = 0
        /\ \A a, u : GetBalance(d, a, u) = IF a = sender /\ u = t THEN token.supply
                                           ELSE GetBalance(c1, a, u)
        /\ Records(d) /\ Stays(c1, d)
    <3>1. IsContents(c1) /\ Records(c1)
      BY <1>2 DEF InOrder
    <3>2. token.supply = 0 \/ token.supply >= MinSupply
      BY <2>1
    <3> QED BY <1>3, <2>2, <3>1, <3>2, NewTokenKeeps DEF d
  <2>4. Total(c1, t) = 0 /\ GetBalance(c1, sender, t) = 0
    <3>1. /\ Total(c1, t) \in Nat /\ GetBalance(c1, sender, t) <= Total(c1, t)
          /\ GetBalance(c1, sender, t) \in Nat
      BY <1>2, <1>3, TotalBound DEF InOrder, Natural
    <3>2. Total(c1, t) <= 0
      <4>1. CASE t \notin DOMAIN c1.tokens
        <5>1. Total(c1, t) = 0
          BY <1>2, <1>3, <4>1 DEF InOrder, Backed
        <5> QED BY <5>1
      <4>2. CASE t \in DOMAIN c1.tokens
        <5>1. c1.tokens[t].supply = 0
          BY <2>3, <4>2
        <5>2. Total(c1, t) <= c1.tokens[t].supply \/ Total(c1, t) = c1.tokens[t].supply
          BY <1>2, <4>2 DEF InOrder, Backed
        <5> QED BY <5>1, <5>2
      <4> QED BY <4>1, <4>2
    <3> QED BY <3>1, <3>2
  <2>5. /\ Natural(d)
        /\ Total(d, t) = token.supply
        /\ \A u \in Tokens : u # t => Total(d, u) = Total(c1, u)
    <3>1. /\ GetBalance(d, sender, t) = token.supply
          /\ \A b, u : b # sender \/ u # t => GetBalance(d, b, u) = GetBalance(c1, b, u)
      BY <2>3
    <3>2. /\ Natural(d)
          /\ Total(d, t) = Total(c1, t) + token.supply - GetBalance(c1, sender, t)
          /\ \A u \in Tokens : u # t => Total(d, u) = Total(c1, u)
      <4> HIDE DEF t
      <4> QED BY <1>2, <1>3, <3>1, TotalChange DEF InOrder
    <3> QED BY <1>3, <2>4, <3>2
  <2>6. /\ DOMAIN d.tokens = DOMAIN c1.tokens \cup {t} /\ d.tokens[t] = token
        /\ \A u \in DOMAIN c1.tokens : u # t => d.tokens[u] = c1.tokens[u]
    BY <2>3 DEF Put
  <2>7. Backed(d, strategy)
    <3>1. ASSUME NEW u \in DOMAIN d.tokens
          PROVE  IF u = Basic /\ ~Distinct(strategy)
                 THEN Total(d, u) <= d.tokens[u].supply ELSE Total(d, u) = d.tokens[u].supply
      <4>1. CASE u = t
        BY <1>3, <2>5, <2>6, <4>1
      <4>2. CASE u # t
        <5>1. u \in DOMAIN c1.tokens /\ u \in Tokens
          BY <1>2, <2>6, <4>2 DEF InOrder, Records, Typed
        <5>2. Total(d, u) = Total(c1, u) /\ d.tokens[u] = c1.tokens[u]
          BY <2>5, <2>6, <4>2, <5>1
        <5> QED BY <1>2, <5>1, <5>2 DEF InOrder, Backed
      <4> QED BY <4>1, <4>2
    <3>2. ASSUME NEW u \in Tokens \ DOMAIN d.tokens PROVE Total(d, u) = 0
      <4>1. u \in Tokens \ DOMAIN c1.tokens /\ u # t
        BY <2>6, <3>2
      <4> QED BY <1>2, <2>5, <4>1 DEF InOrder, Backed
    <3> QED BY <3>1, <3>2 DEF Backed
  <2>8. /\ IsContents(d) /\ d.strategies = c1.strategies
        /\ d.genesisPrice = c1.genesisPrice /\ d.basePrice = c1.basePrice
    BY <2>3 DEF Others, Fields, RecordFields
  <2>9. InOrder(d, strategy)
    BY <1>2, <2>3, <2>5, <2>7, <2>8 DEF InOrder, Priced, InForce
  <2>10. Stays(c, d)
    BY <1>2, <2>3 DEF Stays
  <2> QED BY <2>9, <2>10
<1> QED BY <1>1, <1>4, <1>5 DEF Lawful, SameOk

-----------------------------------------------------------------------------
(* What a transaction leaves, and what it may report as its fee.           *)
Outcome(r, strategy, fee) ==
  /\ InOrder(r, strategy) /\ Stays(s, r)
  /\ ~r.ok => DOMAIN r.tokens = DOMAIN s.tokens
  /\ fee \in Nat
  /\ r.ok => ~CalcdRewardsFails(strategy, fee)

(* Writing ok changes nothing else.                                        *)
LEMMA OkWritten ==
  ASSUME NEW c, NEW strategy, InOrder(c, strategy), NEW d, Others(c, d, {"ok"})
  PROVE  InOrder(d, strategy) /\ d.tokens = c.tokens /\ Stays(c, d)
<1>1. /\ Others(c, d, {"ok", "bal"}) /\ d.bal = c.bal /\ d.tokens = c.tokens
  BY DEF Others, Fields
<1>2. /\ Natural(d) /\ \A t : Total(d, t) = Total(c, t)
  BY <1>1, SameBalances DEF InOrder
<1>3. Total(c, Basic) \in Nat /\ Total(d, Basic) = Total(c, Basic)
  BY <1>2, TotalBound DEF Tokens, InOrder
<1>4. Total(d, Basic) <= Total(c, Basic)
  BY <1>3
<1> QED BY <1>1, <1>2, <1>3, <1>4, InOrderKept

(* A Dispatcher charges the fee, and leaves that alone when the method     *)
(* refuses.                                                                *)
LEMMA Dispatched ==
  ASSUME NEW strategy, InOrder(s, strategy), NEW sender \in Accounts, NEW x,
         NEW limit \in Nat, NEW paid,
         paid = CheckAndPayForGas(s, sender, x, Gas, limit, blk),
         NEW done, Lawful(paid, done, strategy)
  PROVE  Outcome(Dispatch(paid, done), strategy, feeOf(s, sender, x, Gas, limit))
<1> DEFINE v == feeOf(s, sender, x, Gas, limit)
           r == Dispatch(paid, done)
<1>1. PICK c : c = s
  OBVIOUS
<1>2. /\ InOrder(paid, strategy) /\ Stays(c, paid) /\ Others(c, paid, {"ok", "bal"})
      /\ feeOf(c, sender, x, Gas, limit) \in Nat
      /\ paid.ok => ~CalcdRewardsFails(strategy, feeOf(c, sender, x, Gas, limit))
  <2>1. InOrder(c, strategy) /\ paid = CheckAndPayForGas(c, sender, x, Gas, limit, blk)
    BY <1>1
  <2> QED BY <2>1, FeeCharged
<1>3. paid.tokens = s.tokens /\ v \in Nat /\ (paid.ok => ~CalcdRewardsFails(strategy, v))
  BY <1>1, <1>2 DEF Others, Fields
<1> HIDE DEF v
<1>4. CASE paid.ok /\ done.ok
  <2>1. r = done
    BY <1>4 DEF Dispatch
  <2>2. InOrder(done, strategy) /\ Stays(paid, done)
    BY <1>4 DEF Lawful
  <2>3. Stays(s, done)
    BY <1>3, <2>2 DEF Stays
  <2> QED BY <1>3, <1>4, <2>1, <2>2, <2>3 DEF Outcome, v
<1>5. CASE ~(paid.ok /\ done.ok)
  <2>1. r = [paid EXCEPT !.ok = FALSE]
    BY <1>5 DEF Dispatch
  <2>2. Others(paid, r, {"ok"}) /\ ~r.ok
    BY <1>2, <2>1 DEF InOrder, IsContents, Others, Fields
  <2> HIDE DEF r
  <2>4. InOrder(r, strategy) /\ r.tokens = paid.tokens /\ Stays(paid, r)
    BY <1>2, <2>2, OkWritten
  <2>3. Stays(s, r)
    BY <1>3, <2>4 DEF Stays
  <2> QED BY <1>3, <2>2, <2>3, <2>4 DEF Outcome, v, r
<1> QED BY <1>4, <1>5

(* A refusal before the fee leaves the contents as they were.              *)
LEMMA Refused ==
  ASSUME NEW strategy, InOrder(s, strategy), NEW sender \in Accounts, NEW x,
         NEW limit \in Nat
  PROVE  Outcome(Require(s, FALSE), strategy, feeOf(s, sender, x, Gas, limit))
<1>1. PICK c : c = s
  OBVIOUS
<1>2. feeOf(c, sender, x, Gas, limit) \in Nat
  <2>1. InOrder(c, strategy)
    BY <1>1
  <2> QED BY <2>1, FeeCharged
<1> DEFINE r == Require(s, FALSE)
<1>3. Others(s, r, {"ok"}) /\ ~r.ok
  BY DEF Require, InOrder, IsContents, Others, Fields
<1> HIDE DEF r
<1>4. InOrder(r, strategy) /\ r.tokens = s.tokens /\ Stays(s, r)
  BY <1>3, OkWritten
<1> QED BY <1>1, <1>2, <1>3, <1>4 DEF Outcome, r

(* A call of a token's contract.                                           *)
LEMMA TokenOutcome ==
  ASSUME NEW strategy, InOrder(s, strategy), NEW sender \in Accounts,
         NEW t \in Names, NEW limit \in Nat, NEW call, NEW paid,
         paid = CheckAndPayForGas(s, sender, t, Gas, limit, blk),
         NEW done, checkTokenStatus(t, call.method) => Lawful(paid, done, strategy),
         TokenTempletStub(sender, t, limit, call)
           = IF ~checkTokenStatus(t, call.method) THEN Require(s, FALSE)
                                                  ELSE Dispatch(paid, done)
  PROVE  Outcome(TokenTempletStub(sender, t, limit, call), strategy,
                 feeOf(s, sender, t, Gas, limit))
<1>1. CASE ~checkTokenStatus(t, call.method)
  BY <1>1, Refused
<1>2. CASE checkTokenStatus(t, call.method)
  BY <1>2, Dispatched
<1> QED BY <1>1, <1>2

(* After the fee of a call of token t.                                     *)
LEMMA Charged ==
  ASSUME NEW strategy, InOrder(s, strategy), NEW sender \in Accounts, NEW x,
         NEW limit \in Nat, NEW paid,
         paid = CheckAndPayForGas(s, sender, x, Gas, limit, blk)
  PROVE  InOrder(paid, strategy) /\ paid.tokens = s.tokens
<1>1. PICK c : c = s
  OBVIOUS
<1>2. InOrder(paid, strategy) /\ Others(c, paid, {"ok", "bal"})
  <2>1. InOrder(c, strategy) /\ paid = CheckAndPayForGas(c, sender, x, Gas, limit, blk)
    BY <1>1
  <2> QED BY <2>1, FeeCharged
<1> QED BY <1>1, <1>2 DEF Others, Fields

(* Every call of a token that a transaction makes.                         *)
Delivered(sender, c, limit, strategy) ==
  \E result : /\ Outcome(result, strategy, feeOf(s, sender, c, Gas, limit))
              /\ Deliver(sender, c, limit, result)

(* Every call of an issued token's contract.                               *)
LEMMA TokenDelivered ==
  ASSUME NEW strategy, InOrder(s, strategy), NEW sender \in Accounts,
         NEW t \in Names, NEW limit \in Nat,
         \/ Transfer(sender, t, limit)
         \/ TransferBatch(sender, t, limit)
         \/ ChangeSupply(sender, t, limit)
         \/ ChangeOwner(sender, t, limit)
         \/ ChangeGasPrice(sender, t, limit)
  PROVE  Delivered(sender, t, limit, strategy)
<1>1. PICK paid : paid = CheckAndPayForGas(s, sender, t, Gas, limit, blk)
  OBVIOUS
<1>2. InOrder(paid, strategy) /\ paid.tokens = s.tokens
  BY <1>1, Charged
<1>3. /\ t \in Tokens /\ t # Basic /\ Values \subseteq Nat
  BY TokensAssumption DEF Tokens
<1>4. ASSUME NEW call, checkTokenStatus(t, call.method)
      PROVE  /\ t \in DOMAIN paid.tokens
             /\ call.method # "SetOwner" => paid.tokens[t].supply # 0
  BY <1>2, <1>4 DEF checkTokenStatus, IsToken
<1>5. CASE Transfer(sender, t, limit)
  <2>1. PICK to \in Accounts, v \in Values :
          Token(sender, t, limit, [method |-> "Transfer", to |-> to, value |-> v])
    BY <1>5 DEF Transfer
  <2>2. PICK call : call = [method |-> "Transfer", to |-> to, value |-> v]
    OBVIOUS
  <2>3. Lawful(paid, TokenTempletTransfer(paid, sender, t, to, v), strategy)
    BY <1>2, <1>3, TransferLawful
  <2>4. TokenTempletStub(sender, t, limit, call)
          = IF ~checkTokenStatus(t, call.method) THEN Require(s, FALSE)
            ELSE Dispatch(paid, TokenTempletTransfer(paid, sender, t, to, v))
    BY <1>1, <2>2 DEF TokenTempletStub
  <2>5. Outcome(TokenTempletStub(sender, t, limit, call), strategy,
                feeOf(s, sender, t, Gas, limit))
    BY <1>1, <2>3, <2>4, TokenOutcome
  <2> QED BY <2>1, <2>2, <2>5 DEF Token, Delivered
<1>6. CASE TransferBatch(sender, t, limit)
  <2>1. PICK to1 \in Accounts, to2 \in Accounts, v \in Values :
          Token(sender, t, limit,
                [method |-> "BatchTransfer", toList |-> <<to1, to2>>, value |-> v])
    BY <1>6 DEF TransferBatch
  <2>2. PICK call : call = [method |-> "BatchTransfer", toList |-> <<to1, to2>>, value |-> v]
    OBVIOUS
  <2>3. Lawful(paid, BatchTransfer(paid, sender, t, <<to1, to2>>, v), strategy)
    BY <1>2, <1>3, BatchLawful
  <2>4. TokenTempletStub(sender, t, limit, call)
          = IF ~checkTokenStatus(t, call.method) THEN Require(s, FALSE)
            ELSE Dispatch(paid, BatchTransfer(paid, sender, t, <<to1, to2>>, v))
    BY <1>1, <2>2 DEF TokenTempletStub
  <2>5. Outcome(TokenTempletStub(sender, t, limit, call), strategy,
                feeOf(s, sender, t, Gas, limit))
    BY <1>1, <2>3, <2>4, TokenOutcome
  <2> QED BY <2>1, <2>2, <2>5 DEF Token, Delivered
<1>7. CASE ChangeSupply(sender, t, limit)
  <2>1. PICK v \in Values, method \in {"AddSupply", "Burn"} :
          Token(sender, t, limit, [method |-> method, value |-> v])
    BY <1>7 DEF ChangeSupply
  <2>2. PICK call : call = [method |-> method, value |-> v]
    OBVIOUS
  <2>3. CASE method = "AddSupply"
    <3>1. checkTokenStatus(t, call.method) =>
            Lawful(paid, AddSupply(paid, sender, t, v), strategy)
      BY <1>2, <1>3, <1>4, <2>2, <2>3, AddSupplyLawful
    <3>2. TokenTempletStub(sender, t, limit, call)
            = IF ~checkTokenStatus(t, call.method) THEN Require(s, FALSE)
              ELSE Dispatch(paid, AddSupply(paid, sender, t, v))
      BY <1>1, <2>2, <2>3 DEF TokenTempletStub
    <3>3. Outcome(TokenTempletStub(sender, t, limit, call), strategy,
                  feeOf(s, sender, t, Gas, limit))
      BY <1>1, <3>1, <3>2, TokenOutcome
    <3> QED BY <2>1, <2>2, <3>3 DEF Token, Delivered
  <2>4. CASE method = "Burn"
    <3>1. checkTokenStatus(t, call.method) => Lawful(paid, Burn(paid, sender, t, v), strategy)
      BY <1>2, <1>3, <1>4, <2>2, <2>4, BurnLawful
    <3>2. TokenTempletStub(sender, t, limit, call)
            = IF ~checkTokenStatus(t, call.method) THEN Require(s, FALSE)
              ELSE Dispatch(paid, Burn(paid, sender, t, v))
      BY <1>1, <2>2, <2>4 DEF TokenTempletStub
    <3>3. Outcome(TokenTempletStub(sender, t, limit, call), strategy,
                  feeOf(s, sender, t, Gas, limit))
      BY <1>1, <3>1, <3>2, TokenOutcome
    <3> QED BY <2>1, <2>2, <3>3 DEF Token, Delivered
  <2> QED BY <2>3, <2>4
<1>8. CASE ChangeOwner(sender, t, limit)
  <2>1. PICK to \in Accounts : Token(sender, t, limit, [method |-> "SetOwner", to |-> to])
    BY <1>8 DEF ChangeOwner
  <2>2. PICK call : call = [method |-> "SetOwner", to |-> to]
    OBVIOUS
  <2>3. checkTokenStatus(t, call.method) => Lawful(paid, SetOwner(paid, sender, t, to), strategy)
    BY <1>2, <1>3, <1>4, SetOwnerLawful
  <2>4. TokenTempletStub(sender, t, limit, call)
          = IF ~checkTokenStatus(t, call.method) THEN Require(s, FALSE)
            ELSE Dispatch(paid, SetOwner(paid, sender, t, to))
    BY <1>1, <2>2 DEF TokenTempletStub
  <2>5. Outcome(TokenTempletStub(sender, t, limit, call), strategy,
                feeOf(s, sender, t, Gas, limit))
    BY <1>1, <2>3, <2>4, TokenOutcome
  <2> QED BY <2>1, <2>2, <2>5 DEF Token, Delivered
<1>9. CASE ChangeGasPrice(sender, t, limit)
  <2>1. PICK v \in Values : Token(sender, t, limit, [method |-> "SetGasPrice", value |-> v])
    BY <1>9 DEF ChangeGasPrice
  <2>2. PICK call : call = [method |-> "SetGasPrice", value |-> v]
    OBVIOUS
  <2>3. checkTokenStatus(t, call.method) =>
          Lawful(paid, TokenTempletSetGasPrice(paid, sender, t, v), strategy)
    BY <1>2, <1>3, <1>4, SetGasPriceLawful
  <2>4. TokenTempletStub(sender, t, limit, call)
          = IF ~checkTokenStatus(t, call.method) THEN Require(s, FALSE)
            ELSE Dispatch(paid, TokenTempletSetGasPrice(paid, sender, t, v))
    BY <1>1, <2>2 DEF TokenTempletStub
  <2>5. Outcome(TokenTempletStub(sender, t, limit, call), strategy,
                feeOf(s, sender, t, Gas, limit))
    BY <1>1, <2>3, <2>4, TokenOutcome
  <2> QED BY <2>1, <2>2, <2>5 DEF Token, Delivered
<1> QED BY <1>5, <1>6, <1>7, <1>8, <1>9

(* Every call of the genesis token.                                        *)
LEMMA BasicDelivered ==
  ASSUME NEW strategy, InOrder(s, strategy), NEW sender \in Accounts,
         NEW limit \in Nat, BasicCall(sender, limit)
  PROVE  Delivered(sender, Basic, limit, strategy)
<1>1. PICK paid : paid = CheckAndPayForGas(s, sender, Basic, Gas, limit, blk)
  OBVIOUS
<1>2. InOrder(paid, strategy) /\ paid.tokens = s.tokens
  BY <1>1, Charged
<1>3. Basic \in Tokens /\ Values \subseteq Nat /\ Basic \in DOMAIN paid.tokens
  BY <1>2, TokensAssumption DEF Tokens, InOrder, Records, Typed
<1>4. PICK v \in Values, to \in Accounts,
           method \in {"Transfer", "SetGasPrice", "SetGasBasePrice"} :
        Deliver(sender, Basic, limit,
                TokenBasicStub(sender, limit, [method |-> method, to |-> to, value |-> v]))
  BY DEF BasicCall
<1>5. PICK call : call = [method |-> method, to |-> to, value |-> v]
  OBVIOUS
<1>6. \E done : Lawful(paid, done, strategy)
                /\ TokenBasicStub(sender, limit, call) = Dispatch(paid, done)
  <2>1. CASE method = "Transfer"
    <3>1. Lawful(paid, TokenTempletTransfer(paid, sender, Basic, to, v), strategy)
      BY <1>2, <1>3, TransferLawful
    <3>2. TokenBasicStub(sender, limit, call)
            = Dispatch(paid, TokenTempletTransfer(paid, sender, Basic, to, v))
      BY <1>1, <1>5, <2>1 DEF TokenBasicStub, TokenBasicTransfer
    <3> QED BY <3>1, <3>2
  <2>2. CASE method = "SetGasPrice"
    <3>1. Lawful(paid, TokenTempletSetGasPrice(paid, sender, Basic, v), strategy)
      BY <1>2, <1>3, SetGasPriceLawful
    <3>2. TokenBasicStub(sender, limit, call)
            = Dispatch(paid, TokenTempletSetGasPrice(paid, sender, Basic, v))
      BY <1>1, <1>5, <2>2 DEF TokenBasicStub, TokenBasicSetGasPrice
    <3> QED BY <3>1, <3>2
  <2>3. CASE method = "SetGasBasePrice"
    <3>1. Lawful(paid, SetGasBasePrice(paid, sender, v), strategy)
      BY <1>2, <1>3, SetGasBasePriceLawful
    <3>2. TokenBasicStub(sender, limit, call) = Dispatch(paid, SetGasBasePrice(paid, sender, v))
      BY <1>1, <1>5, <2>3 DEF TokenBasicStub
    <3> QED BY <3>1, <3>2
  <2> QED BY <2>1, <2>2, <2>3
<1>7. Outcome(TokenBasicStub(sender, limit, call), strategy, feeOf(s, sender, Basic, Gas, limit))
  BY <1>1, <1>6, Dispatched
<1> QED BY <1>4, <1>5, <1>7 DEF Delivered

(* Every issue of a token.                                                 *)
LEMMA IssueDelivered ==
  ASSUME NEW strategy, InOrder(s, strategy), NEW sender \in Accounts,
         NEW limit \in Nat, Issue(sender, limit)
  PROVE  Delivered(sender, TokenIssue, limit, strategy)
<1>1. PICK paid : paid = CheckAndPayForGas(s, sender, TokenIssue, Gas, limit, blk)
  OBVIOUS
<1>2. InOrder(paid, strategy)
  BY <1>1, Charged
<1>3. PICK name \in Names \cup {Basic}, symbol \in Symbols, v \in Values, may \in BOOLEAN :
        Deliver(sender, TokenIssue, limit,
                TokenIssueStub(sender, limit,
                  [owner |-> sender, name |-> name, symbol |-> symbol, supply |-> v,
                   addSupply |-> may, burn |-> may, gasPrice |-> 1]))
  BY DEF Issue
<1>4. PICK token : token = [owner |-> sender, name |-> name, symbol |-> symbol, supply |-> v,
                            addSupply |-> may, burn |-> may, gasPrice |-> 1]
  OBVIOUS
<1>5. token \in TokenRecord /\ token.owner = sender
  BY <1>4, TokensAssumption DEF TokenRecord, Tokens
<1>6. Lawful(paid, TokenIssueNewToken(paid, sender, token), strategy)
  BY <1>2, <1>5, NewTokenLawful
<1>7. TokenIssueStub(sender, limit, token) = Dispatch(paid, TokenIssueNewToken(paid, sender, token))
  BY <1>1 DEF TokenIssueStub
<1>8. Outcome(TokenIssueStub(sender, limit, token), strategy,
              feeOf(s, sender, TokenIssue, Gas, limit))
  BY <1>1, <1>6, <1>7, Dispatched
<1> QED BY <1>3, <1>4, <1>8 DEF Delivered

-----------------------------------------------------------------------------
(* The invariant.  A genesis file has one strategy, and the version 1      *)
(* token contracts never change it, so fees are given out by it all along. *)
Reported(strategy) ==
  /\ conn.fee \in Nat
  /\ IsGrant(conn.rewards)
  /\ Distinct(strategy) => conn.fee = Granted(conn.rewards)

Holds(strategy) ==
  /\ InOrder(s, strategy)
  /\ InOrder(committed, strategy)
  /\ Reported(strategy)
  /\ DOMAIN s.tokens \subseteq docker

IInv == \E strategy \in Strategies : Holds(strategy)

(* The rewards of a transaction are added to those of the block.           *)
LEMMA RewardsAdded ==
  ASSUME NEW m, IsGrant(m), NEW n, IsGrant(n)
  PROVE  /\ IsGrant(AddRewards(m, n))
         /\ Granted(AddRewards(m, n)) = Granted(m) + Granted(n)
<1> DEFINE d == AddRewards(m, n)
           f == Full(m)
           h == Full(n)
           k == Full(d)
<1>1. IsGrant(d)
  BY DEF IsGrant, AddRewards
<1>2. \A a \in Accounts : f[a] \in Int /\ h[a] \in Int
  BY DEF Full, IsGrant
<1>3. \A a \in Accounts : k[a] = f[a] + h[a]
  BY DEF Full, AddRewards, IsGrant
<1> HIDE DEF f, h, k
<1>4. SumFunctionOnSet(k, Accounts)
        = SumFunctionOnSet(f, Accounts) + SumFunctionOnSet(h, Accounts)
  BY <1>2, <1>3, SumAdd, TokensAssumption
<1> QED BY <1>1, <1>4 DEF Granted, f, h, k

(* No rewards add up to nothing.                                           *)
LEMMA NoRewards == IsGrant(<< >>) /\ Granted(<< >>) = 0
<1> DEFINE f == Full(<< >>)
<1>1. IsGrant(<< >>) /\ \A a \in Accounts : f[a] = 0
  BY DEF IsGrant, Full
<1> HIDE DEF f
<1>2. SumFunctionOnSet(f, Accounts) = 0 * Cardinality(Accounts)
  BY <1>1, SumConstant, TokensAssumption
<1>3. Cardinality(Accounts) \in Nat
  BY FS_CardinalityType, TokensAssumption
<1> QED BY <1>1, <1>2, <1>3 DEF Granted, f

(* A delivered transaction keeps the invariant and what IssuedStays says.  *)
LEMMA DeliverKeeps ==
  ASSUME NEW strategy \in Strategies, Holds(strategy), NEW sender \in Accounts, NEW c,
         NEW limit \in Nat, Delivered(sender, c, limit, strategy)
  PROVE  Holds(strategy)' /\ Stays(s, s')
<1> DEFINE fee == feeOf(s, sender, c, Gas, limit)
<1>1. PICK result : Outcome(result, strategy, fee) /\ Deliver(sender, c, limit, result)
  BY DEF Delivered
<1>2. /\ InOrder(result, strategy) /\ Stays(s, result) /\ fee \in Nat
      /\ ~result.ok => DOMAIN result.tokens = DOMAIN s.tokens
      /\ result.ok => ~CalcdRewardsFails(strategy, fee)
  BY <1>1 DEF Outcome
<1>3. /\ s' = [result EXCEPT !.ok = TRUE]
      /\ conn' = connAfter(c, sender, limit, result)
      /\ docker' = RegisterIntoContractDocker(result)
      /\ committed' = committed
  BY <1>1 DEF Deliver
<1>4. PICK d : d = s'
  OBVIOUS
<1>5. Others(result, d, {"ok"})
  BY <1>2, <1>3, <1>4 DEF InOrder, IsContents, Others, Fields
<1>6. InOrder(d, strategy) /\ d.tokens = result.tokens
  BY <1>2, <1>5, OkWritten
<1>7. Stays(s, d)
  BY <1>2, <1>6 DEF Stays
<1>8. DOMAIN d.tokens \subseteq docker'
  BY <1>2, <1>3, <1>6 DEF Holds, RegisterIntoContractDocker
<1>9. PICK e : e = conn'
  OBVIOUS
<1>10. /\ e.fee \in Nat /\ IsGrant(e.rewards)
       /\ Distinct(strategy) => e.fee = Granted(e.rewards)
  <2>1. CASE ~result.ok
    BY <1>3, <1>9, <2>1 DEF connAfter, Holds, Reported
  <2>2. CASE result.ok
    <3> DEFINE m == CalcdRewards(strategy, fee, Rewarder)
    <3>1. GetStrategy(s, 1) = strategy
      <4>1. PICK x : x = s
        OBVIOUS
      <4>2. GetStrategy(x, 1) = strategy
        BY <4>1, StrategyInForce DEF Holds, InOrder
      <4> QED BY <4>1, <4>2
    <3>2. e.fee = conn.fee + fee /\ e.rewards = AddRewards(conn.rewards, m)
      BY <1>3, <1>9, <2>2, <3>1 DEF connAfter
    <3>3. IsGrant(m) /\ (Distinct(strategy) => Granted(m) = fee)
      <4> HIDE DEF fee
      <4> QED BY <1>2, <2>2, RewardsGranted
    <3> HIDE DEF m, fee
    <3>4. /\ IsGrant(AddRewards(conn.rewards, m))
          /\ Granted(AddRewards(conn.rewards, m)) = Granted(conn.rewards) + Granted(m)
      BY <3>3, RewardsAdded DEF Holds, Reported
    <3>5. e.fee \in Nat
      BY <1>2, <3>2 DEF Holds, Reported
    <3> QED BY <3>2, <3>3, <3>4, <3>5 DEF Holds, Reported
  <2> QED BY <2>1, <2>2
<1>11. Holds(strategy)'
  <2>1. InOrder(s, strategy)'
    BY <1>4, <1>6
  <2>2. InOrder(committed, strategy)'
    BY <1>3 DEF Holds
  <2>3. Reported(strategy)'
    BY <1>9, <1>10 DEF Reported
  <2>4. (DOMAIN s.tokens \subseteq docker)'
    BY <1>4, <1>8
  <2> QED BY <2>1, <2>2, <2>3, <2>4 DEF Holds
<1> QED BY <1>4, <1>7, <1>11

(* What the accounts hold at the start: a gift each, the owner the rest.   *)
LEMMA GenesisBalances ==
  ASSUME NEW g, NEW strategy, g = Genesis(strategy)
  PROVE  /\ Natural(g)
         /\ Total(g, Basic) = GenesisSupply
         /\ \A t \in Tokens : t # Basic => Total(g, t) = 0
<1> DEFINE S == Senders \ {GenesisOwner}
           n == Cardinality(S)
           rest == GenesisSupply - Gift * n
           gift == [a \in S |-> Gift]
           f == [a \in Accounts |-> IF a \in S THEN Gift ELSE 0]
           h == [a \in Accounts |-> GetBalance(g, a, Basic)]
<1>1. /\ IsFiniteSet(Senders) /\ IsFiniteSet(S) /\ IsFiniteSet(Accounts)
      /\ S \in SUBSET Accounts /\ GenesisOwner \in Accounts
      /\ Gift \in Nat /\ GenesisSupply \in Nat
  BY FS_Subset, TokensAssumption
<1>2. n \in Nat /\ Cardinality(Senders) \in Nat /\ n <= Cardinality(Senders)
  BY <1>1, FS_Subset, FS_CardinalityType
<1>3. rest \in Nat
  <2> HIDE DEF n
  <2>1. ASSUME NEW x \in Nat, NEW y \in Nat, NEW z \in Nat, x <= y PROVE z * x <= z * y
    BY <2>1
  <2>2. Gift * n <= Gift * Cardinality(Senders) /\ Gift * n \in Nat
        /\ Gift * Cardinality(Senders) \in Nat
    BY <1>1, <1>2, <2>1
  <2> QED BY <1>1, <2>2, TokensAssumption
<1> DEFINE D == (Senders \cup {GenesisOwner}) \X {Basic}
           b == [k \in D |-> IF k[1] # GenesisOwner THEN Gift ELSE rest]
<1>4. g.bal = b
  BY DEF Genesis
<1> HIDE DEF n, rest
<1>5. ASSUME NEW a \in Accounts, NEW t
      PROVE  GetBalance(g, a, t) = IF t # Basic THEN 0 ELSE
                                   IF a = GenesisOwner THEN rest ELSE
                                   IF a \in Senders THEN Gift ELSE 0
  <2>1. <<a, t>>[1] = a /\ <<a, t>>[2] = t
    OBVIOUS
  <2>2. <<a, t>> \in D <=> t = Basic /\ (a \in Senders \/ a = GenesisOwner)
    OBVIOUS
  <2>3. GetBalance(g, a, t) = IF <<a, t>> \in D THEN b[<<a, t>>] ELSE 0
    BY <1>4 DEF GetBalance
  <2>4. <<a, t>> \in D => b[<<a, t>>] = IF a # GenesisOwner THEN Gift ELSE rest
    BY <2>1
  <2> HIDE DEF D, b
  <2> QED BY <2>2, <2>3, <2>4
<1>6. Natural(g)
  BY <1>1, <1>3, <1>5 DEF Natural
<1>7. Total(g, Basic) = GenesisSupply
  <2>1. \A a \in S : gift[a] = Gift /\ gift[a] \in Int /\ f[a] = gift[a]
    BY <1>1
  <2>2. \A a \in Accounts \ S : f[a] = 0
    OBVIOUS
  <2>3. /\ \A a \in Accounts : f[a] \in Int /\ h[a] \in Int
        /\ \A a \in Accounts : a # GenesisOwner => h[a] = f[a]
        /\ h[GenesisOwner] = rest /\ f[GenesisOwner] = 0
    BY <1>1, <1>3, <1>5
  <2>4. Gift \in Int
    BY <1>1
  <2> HIDE DEF gift, f, h, S
  <2>5. SumFunctionOnSet(gift, S) = Gift * Cardinality(S)
    BY <1>1, <2>1, <2>4, SumConstant
  <2>6. SumFunctionOnSet(f, Accounts) = SumFunctionOnSet(gift, S)
    BY <1>1, <2>1, <2>2, SumExtend
  <2>7. SumFunctionOnSet(h, Accounts) = SumFunctionOnSet(f, Accounts) + (rest - 0)
    BY <1>1, <2>3, SumChange
  <2>8. SumFunctionOnSet(h, Accounts) = GenesisSupply
    <3>1. Gift * Cardinality(S) \in Int
      BY <1>1, <1>2 DEF n
    <3> QED BY <1>1, <2>5, <2>6, <2>7, <3>1 DEF rest, n
  <2> QED BY <2>8 DEF Total, h
<1>8. ASSUME NEW t \in Tokens, t # Basic PROVE Total(g, t) = 0
  <2> DEFINE z == [a \in Accounts |-> GetBalance(g, a, t)]
  <2>1. \A a \in Accounts : z[a] = 0
    BY <1>5, <1>8
  <2> HIDE DEF z
  <2>2. SumFunctionOnSet(z, Accounts) = 0 * Cardinality(Accounts)
    BY <1>1, <2>1, SumConstant
  <2>3. Cardinality(Accounts) \in Nat
    BY <1>1, FS_CardinalityType
  <2>4. SumFunctionOnSet(z, Accounts) = 0
    BY <2>2, <2>3
  <2> QED BY <2>4 DEF z, Total
<1> QED BY <1>6, <1>7, <1>8

(* The genesis file's contents are in order.                               *)
LEMMA GenesisInOrder ==
  ASSUME NEW strategy \in Strategies, NEW g, g = Genesis(strategy)
  PROVE  InOrder(g, strategy)
<1>1. /\ IsContents(g) /\ g.genesisPrice = 1 /\ g.basePrice = 1 /\ g.panic = FALSE
      /\ g.strategies = <<[items |-> strategy, effect |-> 1]>>
  BY DEF Genesis, IsContents, Fields
<1>2. /\ g.byName = [t \in {Basic} |-> t] /\ g.bySymbol = [t \in {Basic} |-> t]
      /\ g.owned = [a \in Accounts |-> IF a = GenesisOwner THEN {Basic, TokenIssue} ELSE {}]
  BY DEF Genesis
<1>3. /\ DOMAIN g.byName = {Basic} /\ g.byName[Basic] = Basic
      /\ DOMAIN g.bySymbol = {Basic} /\ g.bySymbol[Basic] = Basic
  BY <1>2
<1> DEFINE token == [owner |-> GenesisOwner, name |-> Basic, symbol |-> Basic,
                     supply |-> GenesisSupply, addSupply |-> FALSE, burn |-> FALSE,
                     gasPrice |-> 1]
<1>5. DOMAIN g.tokens = {Basic} /\ g.tokens[Basic] = token
  BY DEF Genesis
<1>6. token \in TokenRecord
  BY TokensAssumption DEF TokenRecord, Tokens
<1>7. /\ token.owner = GenesisOwner /\ token.name = Basic /\ token.symbol = Basic
      /\ token.supply = GenesisSupply
  OBVIOUS
<1> HIDE DEF token
<1>8. g.contracts = [c \in {Basic, TokenIssue} |-> NewContract(c, GenesisOwner)]
  BY DEF Genesis
<1>9. /\ DOMAIN g.contracts = {Basic, TokenIssue}
      /\ g.contracts[Basic] = NewContract(Basic, GenesisOwner)
      /\ g.contracts[TokenIssue] = NewContract(TokenIssue, GenesisOwner)
  BY <1>8
<1>10. \A x \in DOMAIN g.contracts :
         g.contracts[x] \in ContractRecord /\ g.contracts[x].owner = GenesisOwner
  BY <1>9, TokensAssumption DEF NewContract, ContractRecord, Tokens
<1>11. Typed(g)
  <2>1. DOMAIN g.owned = Accounts
    BY <1>2
  <2> QED BY <1>5, <1>6, <1>9, <1>10, <2>1 DEF Typed, Tokens
<1>12. Owned(g)
  BY <1>1, <1>2, <1>5, <1>7, <1>9, <1>10 DEF Owned
<1>13. Indexed(g)
  BY <1>3, <1>5, <1>7 DEF Indexed
<1>14. Supplied(g)
  BY <1>5 DEF Supplied
<1>15. /\ Natural(g) /\ Total(g, Basic) = GenesisSupply
       /\ \A t \in Tokens : t # Basic => Total(g, t) = 0
  BY GenesisBalances
<1>16. Backed(g, strategy)
  <2>1. GenesisSupply <= GenesisSupply
    BY TokensAssumption
  <2> QED BY <1>5, <1>7, <1>15, <2>1 DEF Backed
<1> QED BY <1>1, <1>11, <1>12, <1>13, <1>14, <1>15, <1>16
        DEF InOrder, Records, Priced, InForce

-----------------------------------------------------------------------------
(* The invariant holds at the start: no fee yet, and a stub for every      *)
(* token.                                                                  *)
LEMMA InitHolds == Init => IInv
<1> SUFFICES ASSUME Init PROVE IInv
  OBVIOUS
<1>1. PICK strategy \in Strategies : s = Genesis(strategy)
  BY DEF Init
<1>2. PICK g : g = s
  OBVIOUS
<1>3. InOrder(g, strategy)
  BY <1>1, <1>2, GenesisInOrder
<1>4. InOrder(s, strategy) /\ InOrder(committed, strategy)
  BY <1>2, <1>3 DEF Init
<1>5. Reported(strategy)
  BY NoRewards DEF Init, Reported
<1>6. DOMAIN s.tokens \subseteq docker
  BY DEF Init, registered
<1> QED BY <1>4, <1>5, <1>6 DEF IInv, Holds

(* Every step keeps the invariant, and, unless it is a crash, keeps what   *)
(* is issued.                                                              *)
LEMMA NextHolds ==
  ASSUME IInv, [Next]_vars
  PROVE  IInv' /\ (s' # committed \/ s' = s => Stays(s, s'))
<1>1. PICK strategy \in Strategies : Holds(strategy)
  BY DEF IInv
<1>2. InOrder(s, strategy)
  BY <1>1 DEF Holds
<1>3. Stays(s, s)
  <2>1. PICK c : c = s
    OBVIOUS
  <2>2. Stays(c, c)
    BY <1>2, <2>1, RecordsKept DEF InOrder
  <2> QED BY <2>1, <2>2
<1>4. \A limit \in GasLimits : limit \in Nat
  BY TokensAssumption
<1>5. ASSUME NEW sender \in Senders, NEW c, NEW limit \in GasLimits,
             Delivered(sender, c, limit, strategy)
      PROVE  Holds(strategy)' /\ Stays(s, s')
  <2>1. sender \in Accounts /\ limit \in Nat
    BY TokensAssumption
  <2> QED BY <1>1, <1>5, <2>1, DeliverKeeps
<1>6. ASSUME NEW sender \in Senders, NEW limit \in GasLimits, NEW t \in Names,
             \/ Transfer(sender, t, limit)
             \/ TransferBatch(sender, t, limit)
             \/ ChangeSupply(sender, t, limit)
             \/ ChangeOwner(sender, t, limit)
             \/ ChangeGasPrice(sender, t, limit)
      PROVE  Holds(strategy)' /\ Stays(s, s')
  <2>1. sender \in Accounts /\ limit \in Nat
    BY TokensAssumption
  <2>2. Delivered(sender, t, limit, strategy)
    BY <1>2, <1>6, <2>1, TokenDelivered
  <2> QED BY <1>5, <2>2
<1>7. ASSUME NEW sender \in Senders, NEW limit \in GasLimits, BasicCall(sender, limit)
      PROVE  Holds(strategy)' /\ Stays(s, s')
  <2>1. sender \in Accounts /\ limit \in Nat
    BY TokensAssumption
  <2>2. Delivered(sender, Basic, limit, strategy)
    BY <1>2, <1>7, <2>1, BasicDelivered
  <2> QED BY <1>5, <2>2
<1>8. ASSUME NEW sender \in Senders, NEW limit \in GasLimits, Issue(sender, limit)
      PROVE  Holds(strategy)' /\ Stays(s, s')
  <2>1. sender \in Accounts /\ limit \in Nat
    BY TokensAssumption
  <2>2. Delivered(sender, TokenIssue, limit, strategy)
    BY <1>2, <1>8, <2>1, IssueDelivered
  <2> QED BY <1>5, <2>2
<1>9. CASE Commit
  <2>1. /\ s' = s /\ committed' = s /\ docker' = docker
        /\ conn' = [fee |-> 0, rewards |-> << >>]
    BY <1>9 DEF Commit
  <2>2. InOrder(s, strategy)' /\ InOrder(committed, strategy)'
    BY <1>2, <2>1
  <2>3. Reported(strategy)'
    BY <2>1, NoRewards DEF Reported
  <2>4. Holds(strategy)'
    BY <1>1, <2>1, <2>2, <2>3 DEF Holds
  <2> QED BY <1>3, <2>1, <2>4 DEF IInv
<1>10. CASE Restart
  <2>1. /\ s' = committed /\ committed' = committed /\ docker' = registered(committed)
        /\ conn' = [fee |-> 0, rewards |-> << >>] /\ s # committed
    BY <1>10 DEF Restart
  <2>2. InOrder(s, strategy)' /\ InOrder(committed, strategy)'
    BY <1>1, <2>1 DEF Holds
  <2>3. Reported(strategy)'
    BY <2>1, NoRewards DEF Reported
  <2>4. (DOMAIN s.tokens \subseteq docker)'
    BY <2>1 DEF registered
  <2>5. Holds(strategy)'
    BY <2>2, <2>3, <2>4 DEF Holds
  <2> QED BY <2>1, <2>5 DEF IInv
<1>11. CASE UNCHANGED vars
  <2>1. s' = s /\ committed' = committed /\ docker' = docker /\ conn' = conn
    BY <1>11 DEF vars
  <2>2. Holds(strategy)'
    BY <1>1, <2>1 DEF Holds, Reported
  <2> QED BY <1>3, <2>1, <2>2 DEF IInv
<1> QED BY <1>6, <1>7, <1>8, <1>9, <1>10, <1>11 DEF Next, IInv

(* The inductive invariant of the version 1 token contracts: the contents  *)
(* of the block and of the store are in order under the strategy of the    *)
(* genesis file, and the block's rewards are its fee.                      *)
THEOREM InOrderAlways == Spec => []IInv
<1>1. Init => IInv
  BY InitHolds
<1>2. IInv /\ [Next]_vars => IInv'
  BY NextHolds
<1> QED BY <1>1, <1>2, PTL DEF Spec

(* Transfers, batches with repeated addresses, fees, rewards, burning and  *)
(* changes of owner create no money and lose none, but for what            *)
(* CalcdRewards loses when an address occurs twice.                        *)
THEOREM SupplyIsBacked == Spec => []SupplyBacked
<1>1. IInv => SupplyBacked
  <2> SUFFICES ASSUME IInv PROVE SupplyBacked
    OBVIOUS
  <2>1. PICK strategy \in Strategies : Holds(strategy)
    BY DEF IInv
  <2>2. PICK c : c = s
    OBVIOUS
  <2>3. GetStrategy(s, 1) = strategy
    <3>1. GetStrategy(c, 1) = strategy
      BY <2>1, <2>2, StrategyInForce DEF Holds, InOrder
    <3> QED BY <2>2, <3>1
  <2>4. DistinctRewards <=> Distinct(strategy)
    BY <2>3 DEF DistinctRewards, Distinct
  <2>5. \A t : SumOf(t) = Total(s, t)
    BY DEF SumOf, Total
  <2>6. \A t \in DOMAIN s.tokens :
          IF t = Basic /\ ~Distinct(strategy) THEN Total(s, t) <= s.tokens[t].supply
                                              ELSE Total(s, t) = s.tokens[t].supply
    BY <2>1 DEF Holds, InOrder, Backed
  <2>7. Distinct(strategy) =>
          conn.fee = SumFunctionOnSet(conn.rewards, DOMAIN conn.rewards)
    <3>1. PICK m : m = conn.rewards
      OBVIOUS
    <3>2. Granted(m) = SumFunctionOnSet(m, DOMAIN m)
      BY <2>1, <3>1, GrantBound DEF Holds, Reported
    <3> QED BY <2>1, <3>1, <3>2 DEF Holds, Reported
  <2> QED BY <2>4, <2>5, <2>6, <2>7 DEF SupplyBacked
<1> QED BY <1>1, InOrderAlways, PTL

(* The records of a token agree whatever the order of issuing, issuing     *)
(* again and changing owners: deleteChildKey never runs into an address    *)
(* that is not there, no two tokens share a name or a symbol, and every    *)
(* token has a stub.                                                       *)
THEOREM RecordsAlwaysAgree == Spec => []RecordsAgree
<1>1. IInv => RecordsAgree
  <2> SUFFICES ASSUME IInv PROVE RecordsAgree
    OBVIOUS
  <2>1. PICK strategy \in Strategies : Holds(strategy)
    BY DEF IInv
  <2>2. Records(s)
    BY <2>1 DEF Holds, InOrder
  <2>3. OwnedListsExact
    BY <2>2 DEF OwnedListsExact, Records, Owned
  <2>4. NamesUnique
    BY <2>2 DEF NamesUnique, Records, Indexed, GetTokenAddrByName, GetTokenAddrBySymbol
  <2> QED BY <2>1, <2>3, <2>4 DEF RecordsAgree, Holds
<1> QED BY <1>1, InOrderAlways, PTL

(* Once a token is issued with a supply, CheckNameAndSybmol lets nobody    *)
(* create it again, and Burn leaves it the least supply allowed.           *)
THEOREM IssuedAlwaysStays == Spec => IssuedStays
<1> DEFINE Issued ==
             \A t \in DOMAIN s.tokens :
               (s.tokens[t].supply > 0 /\ s' # committed) =>
                 /\ t \in DOMAIN s'.tokens
                 /\ s'.tokens[t].symbol = s.tokens[t].symbol
                 /\ IF t = Basic THEN s'.tokens[t].supply = s.tokens[t].supply
                                 ELSE s'.tokens[t].supply >= MinSupply
<1>1. IInv /\ [Next]_vars => [Issued]_vars
  BY NextHolds DEF Stays
<1> QED BY <1>1, InOrderAlways, PTL DEF Spec, IssuedStays
=============================================================================
