------------------------------ MODULE Deliver ------------------------------
(***************************************************************************)
(* The ABCI delivery connection of a v2 chain: AppDeliver and the state    *)
(* database helpers it calls, driven by a consensus engine that replays    *)
(* decided blocks after a crash.                                           *)
(*                                                                         *)
(* One action is one ABCI call; the connection is served by one goroutine, *)
(* so calls do not overlap.  Every call leaves the buffers of the statedb  *)
(* Txs it used empty (each is committed or rolled back), so only the       *)
(* buffer of the block's Transaction is kept.  The state database is the   *)
(* abstract store of module VersionedStore: db and past are its current    *)
(* contents and its history.                                               *)
(***************************************************************************)
EXTENDS Ledger

CONSTANTS
  Blocks,     \* bound: the blocks consensus may decide
  MaxNonce,   \* bound: largest nonce of a transaction
  MaxHeight,  \* bound: highest block
  Effective,  \* the contracts to initialise, by height
  InitFails,  \* contracts whose InitChain fails
  MineHeight  \* MineHeight of the contracts in the genesis mine list

ASSUME BlocksAssumption ==
  /\ MaxHeight \in Nat
  /\ \A b \in Blocks : b \in Seq({Malformed} \cup Tx)
  /\ Effective \in [1 .. MaxHeight -> Seq(Contract)]

VARIABLES
  db,         \* the committed contents
  past,       \* the contents before each committed transaction
  open,       \* statedbhelper.currentCommittableTransaction is not nil
  buffer,     \* buffer of that Transaction
  hashList,   \* AppDeliver.hashList
  fee,        \* AppDeliver.fee
  rewards,    \* the sum of AppDeliver.rewards
  validators, \* AppDeliver.validators, 0 unless udValidator
  scGenesis,  \* AppDeliver.scGenesis: the side chain to report, 0 for none
  response,   \* what EndBlock reported of these two
  phase,      \* "down", "idle", "block", "ended" or a panic
  done,       \* transactions of the current block delivered so far
  blocks,     \* consensus: the decided blocks
  hashes,     \* consensus: the app hash it recorded after each of them
  first       \* history variable: the contents when each height was first
              \* committed, and the response of its EndBlock

store     == <<db, past>>
pending   == <<validators, scGenesis>>
block     == <<open, buffer, hashList, fee, rewards, pending, response, done>>
consensus == <<blocks, hashes, first>>
vars      == <<db, past, open, buffer, hashList, fee, rewards, validators,
               scGenesis, response, phase, done, blocks, hashes, first>>

(* getAndVerifyAppState's panic.  Its other one, on the height, cannot be  *)
(* met by an engine that asks Info for the height and goes on from there.  *)
Panics == {"app hash does not match"}

View   == Lay(buffer, db)
Height == db[World].height

(* What AppDeliver keeps of the block as it goes on, and the buffer of its *)
(* Transaction.  What a call makes of them is an operator on this record   *)
(* and on the committed contents d.                                        *)
Progress ==
  [buffer |-> buffer, list |-> hashList, fee |-> fee, rewards |-> rewards,
   validators |-> validators, scGenesis |-> scGenesis]

Becomes(p) ==
  /\ buffer' = p.buffer
  /\ hashList' = p.list
  /\ fee' = p.fee
  /\ rewards' = p.rewards
  /\ validators' = p.validators
  /\ scGenesis' = p.scGenesis

NoReport == [validators |-> 0, scGenesis |-> 0]

(* The state before genesis.  An app hash is the sequence of the hash      *)
(* lists it was computed from, so different lists have different hashes.   *)
NoContents ==
  [k \in Key |->
     CASE k = World      -> [height |-> 0, hash |-> << >>, fee |-> 0,
                             rewards |-> 0]
       [] k = Mines      -> << >>
       [] k[1] = "keys"  -> {}
       [] OTHER          -> 0]

(* What the genesis contract writes.                                       *)
Genesis ==
  [k \in Key |->
     CASE k = World -> [NoContents[World] EXCEPT !.hash = << << >> >>]
       [] k = Mines -> SetToSeq(Contract)
       [] k[1] = "bal" /\ k[2] \in Acct \cup Contract \cup {Payee} -> Balance
       [] k[1] = "keys" /\ k[2] \in Acct \cup Contract \cup {Payee} -> {"token"}
       [] OTHER -> NoContents[k]]

Init ==
  /\ db = NoContents
  /\ past = << >>
  /\ open = FALSE
  /\ buffer = Empty
  /\ hashList = << >>
  /\ fee = 0
  /\ rewards = 0
  /\ validators = 0
  /\ scGenesis = 0
  /\ response = NoReport
  /\ phase = "idle"
  /\ done = 0
  /\ blocks = << >>
  /\ hashes = << >>
  /\ first = << >>

-----------------------------------------------------------------------------
(* InitChain, called by consensus at height 0.  With genesis data in place *)
(* it returns "Not clear genesis data." and leaves its transaction open.   *)
InitChain ==
  /\ phase = "idle"
  /\ Height = 0
  /\ IF View[World].hash # << >>
     THEN /\ open' = TRUE
          /\ UNCHANGED <<store, buffer>>
     ELSE /\ db' = Genesis
          /\ past' = Append(past, db)
          /\ open' = FALSE
          /\ buffer' = Empty
  /\ UNCHANGED <<hashList, fee, rewards, pending, response, phase, done, consensus>>

(* Consensus agrees on the next block.                                     *)
Decide(b) ==
  /\ phase = "idle"
  /\ db[World].hash # << >>
  /\ Len(blocks) = Height
  /\ Len(blocks) < MaxHeight
  /\ blocks' = Append(blocks, b)
  /\ UNCHANGED <<store, block, phase, hashes, first>>

(* The hash entry of a call: calcDeliverHash over the transaction, the     *)
(* response, with its fee receipts, and the state it wrote.                *)
Entry(tx, code, fees, state) ==
  [tx |-> tx, code |-> code, fees |-> fees, state |-> state]

(* An entry for a call that wrote something, as BeginBlock and EndBlock    *)
(* make them.                                                              *)
SystemEntry(w) ==
  IF w = Empty THEN << >> ELSE <<Entry(SystemCall, "ok", Empty, w)>>

(* forbidContract: both the contract and the mine list are read from the   *)
(* committed contents.                                                     *)
forbidContractMut(d, c, h) == [k \in {Lose(c)} |-> h]
forbidContract(d, c, h) ==
  IF d[Mines] = << >>
  THEN [k \in {Lose(c)} |-> h]
  ELSE [k \in {Lose(c), Mines} |->
          IF k = Mines THEN RemoveFirst(d[Mines], c) ELSE h]

GetContractsWithHeight(h) == Effective[h]

(* initOrUpdateSMC for the contracts that take effect at this height: the  *)
(* buffer and the hash list after it.                                      *)
initOrUpdateSMC(d, p, h) ==
  LET init(x, c) ==
        LET w == IF c \in InitFails THEN forbidContract(d, c, h) ELSE Empty
        IN [buffer |-> Lay(w, x.buffer), list |-> x.list \o SystemEntry(w)]
  IN FoldLeft(init, [buffer |-> p.buffer, list |-> << >>], GetContractsWithHeight(h))

(* AppDeliver's members when a block begins.                               *)
feeAtBeginMut == fee
feeAtBegin == 0

begun(d, p) ==
  LET r == initOrUpdateSMC(d, p, d[World].height + 1)
  IN [buffer |-> r.buffer, list |-> r.list, fee |-> feeAtBegin, rewards |-> 0,
      validators |-> p.validators, scGenesis |-> p.scGenesis]

(* BCBeginBlock for the first decided block the application lacks.  The    *)
(* header carries the app hash that consensus recorded for the block       *)
(* before.                                                                 *)
BeginBlock ==
  LET h == Height + 1 IN
  /\ phase = "idle"
  /\ db[World].hash # << >>
  /\ Height < Len(blocks)
  /\ open' = TRUE
  /\ IF h > 1 /\ hashes[h - 1] # View[World].hash
     THEN /\ phase' = "app hash does not match"
          /\ UNCHANGED <<buffer, hashList, fee, rewards, pending>>
     ELSE /\ phase' = "block"
          /\ Becomes(begun(db, Progress))
  /\ done' = 0
  /\ UNCHANGED <<store, response, consensus>>

-----------------------------------------------------------------------------
(* What RollbackTx leaves of the writes of a failed transaction.           *)
rolledBackMut(w) == w
rolledBack(w) == Empty

(* Under what the nonce is written: the Transaction, not the Tx.           *)
nonceKeptMut(w, ok) == IF ok THEN w ELSE Empty
nonceKept(w, ok) == w

(* packValidators and packSideChainGenesis note what there is to report    *)
(* when a governance receipt is among the tags: the validators as the      *)
(* transaction leaves them; and the first side chain that it made, in      *)
(* place of any that an earlier transaction of the block made.             *)
hasReceipt(r, tx, m) == r.ok /\ m \in Range(tx.messages)
packValidatorsMut(p, r, tx) == IF hasReceipt(r, tx, "setPower") THEN db[Vals] ELSE p.validators
packValidators(p, r, tx) == IF hasReceipt(r, tx, "setPower") THEN r.view[Vals] ELSE p.validators
packSideChainGenesisMut(p, r, tx, seen) ==
  IF hasReceipt(r, tx, "sideChain") /\ p.scGenesis = 0 THEN seen[Chains] + 1 ELSE p.scGenesis
packSideChainGenesis(p, r, tx, seen) ==
  IF hasReceipt(r, tx, "sideChain") THEN seen[Chains] + 1 ELSE p.scGenesis

(* runDeliverTx for a transaction that passed the nonce check: the new     *)
(* buffer of the Transaction, the entry, the fee, the rewards and what is  *)
(* to be reported.                                                         *)
runDeliverTx(d, p, tx) ==
  LET view  == Lay(p.buffer, d)
      nonce == SetAccountNonce(view, tx.sender, tx.nonce)
      seen  == Lay(nonce, view)
      r     == InvokeTx(seen, tx)
      kept  == IF r.ok THEN Writes(r.keys, r.view)
                       ELSE rolledBack(Writes(r.keys, r.view))
      paid  == emitFeeReceipts(Lay(kept, seen), r.fees, r.ok, isBVM(tx))
      state == IF r.ok \/ r.fees # Empty THEN Lay(paid, kept) ELSE Empty
  IN [buffer  |-> Lay(state, Lay(nonceKept(nonce, r.ok), p.buffer)),
      list    |-> Append(p.list, Entry(tx, IF r.ok THEN "ok" ELSE "failed", r.fees, state)),
      fee     |-> p.fee + IF r.ok THEN r.field ELSE 0,
      rewards |-> p.rewards + SumFunction([a \in DOMAIN r.fees |-> TotalAward(r.fees[a])]),
      validators |-> packValidators(p, r, tx),
      scGenesis  |-> packSideChainGenesis(p, r, tx, seen)]

(* reportFailure: a transaction that is not run is hashed.                 *)
reportFailure(p, tx) ==
  [p EXCEPT !.list = Append(@, Entry(tx, "rejected", Empty, Empty))]

(* deliverBCTx: parse, check the nonce, run.                               *)
deliverBCTx(d, p, tx) ==
  IF tx # Malformed /\ CheckAccountNonce(Lay(p.buffer, d), tx.sender, tx.nonce)
  THEN runDeliverTx(d, p, tx) ELSE reportFailure(p, tx)

DeliverTx ==
  /\ phase = "block"
  /\ done < Len(blocks[Height + 1])
  /\ done' = done + 1
  /\ Becomes(deliverBCTx(db, Progress, blocks[Height + 1][done + 1]))
  /\ UNCHANGED <<store, open, response, phase, consensus>>

(* The Mine method of a contract pays Payee one unit while it can.         *)
MineWrites(v, c) ==
  IF v[Bal(c)] > 0
  THEN Writes({Bal(c), Bal(Payee)}, Transfer(v, c, Payee, 1))
  ELSE Empty

(* mine: one Tx for each contract of the list whose MineHeight is reached. *)
mine(d, p) ==
  LET step(x, c) ==
        LET w == MineWrites(Lay(x.buffer, d), c)
        IN [buffer |-> Lay(w, x.buffer), list |-> x.list \o SystemEntry(w)]
  IN FoldLeft(step, [buffer |-> p.buffer, list |-> p.list],
              IF d[World].height + 1 >= MineHeight
              THEN Lay(p.buffer, d)[Mines] ELSE << >>)

(* EndBlock: mine, then report what DeliverTx noted and forget it.         *)
ended(d, p) ==
  LET r == mine(d, p)
  IN [buffer |-> r.buffer, list |-> r.list, fee |-> p.fee, rewards |-> p.rewards,
      validators |-> 0, scGenesis |-> 0]

reported(p) == [validators |-> p.validators, scGenesis |-> p.scGenesis]

EndBlock ==
  /\ phase = "block"
  /\ done = Len(blocks[Height + 1])
  /\ Becomes(ended(db, Progress))
  /\ response' = reported(Progress)
  /\ phase' = "ended"
  /\ UNCHANGED <<store, open, done, consensus>>

-----------------------------------------------------------------------------
(* The world state a block leaves: commitEmptyBlock keeps the app hash,    *)
(* and with it the fee and the rewards of the last block that had any.     *)
newWorld(d, p) ==
  LET w == d[World] IN
  IF p.list = << >>
  THEN [w EXCEPT !.height = @ + 1]
  ELSE [height |-> w.height + 1, hash |-> Append(w.hash, p.list),
        fee |-> p.fee, rewards |-> p.rewards]

(* Commit: commitBlock writes the world state into the block's last Tx     *)
(* before the Transaction is committed.                                    *)
committed(d, p) == Lay([k \in {World} |-> newWorld(d, p)], Lay(p.buffer, d))

Commit ==
  LET contents == committed(db, Progress)
      h == Height + 1 IN
  /\ phase = "ended"
  /\ db' = contents
  /\ past' = Append(past, db)
  /\ open' = FALSE
  /\ buffer' = Empty
  /\ phase' = "idle"
  /\ hashes' = IF Len(hashes) < h THEN Append(hashes, contents[World].hash) ELSE hashes
  /\ first' = IF Len(first) < h
              THEN Append(first, [contents |-> contents, response |-> response])
              ELSE first
  /\ UNCHANGED <<hashList, fee, rewards, pending, response, done, blocks>>

(* The process dies: only the database remains.                            *)
Crash ==
  /\ phase \in Panics \cup {"idle", "block", "ended"}
  /\ phase' = "down"
  /\ open' = FALSE
  /\ buffer' = Empty
  /\ hashList' = << >>
  /\ fee' = 0
  /\ rewards' = 0
  /\ validators' = 0
  /\ scGenesis' = 0
  /\ response' = NoReport
  /\ done' = 0
  /\ UNCHANGED <<store, consensus>>

Restart ==
  /\ phase = "down"
  /\ phase' = "idle"
  /\ UNCHANGED <<store, block, consensus>>

(* "bcchain rollback": one transaction of the state database is undone.    *)
RollbackCmd ==
  /\ phase = "down"
  /\ past # << >>
  /\ db' = Last(past)
  /\ past' = Front(past)
  /\ UNCHANGED <<block, phase, consensus>>

Next ==
  \/ InitChain
  \/ \E b \in Blocks : Decide(b)
  \/ BeginBlock
  \/ DeliverTx
  \/ EndBlock
  \/ Commit
  \/ Crash
  \/ Restart
  \/ RollbackCmd

Spec == Init /\ [][Next]_vars

-----------------------------------------------------------------------------
(* Executing a decided block again, after any crash or rollback, gives the *)
(* same contents as the first time, the persisted world state included,    *)
(* and EndBlock reports the same; so getAndVerifyAppState never panics     *)
(* with "App hash does not match".                                         *)
ReplaySame ==
  /\ phase # "app hash does not match"
  /\ Height \in DOMAIN first => db = first[Height].contents
  /\ phase = "ended" /\ Height + 1 \in DOMAIN first
       => response = first[Height + 1].response

(* Where the hash lists hold the transactions of an account that ran,      *)
(* successfully or not, and the nonce of the one at a place.               *)
RanAt(lists, a) ==
  {x \in UNION {{h} \X DOMAIN lists[h] : h \in DOMAIN lists} :
     LET e == lists[x[1]][x[2]] IN e.tx.sender = a /\ e.code # "rejected"}

NonceAt(lists, x) == lists[x[1]][x[2]].tx.nonce

Precedes(x, y) == x[1] < y[1] \/ (x[1] = y[1] /\ x[2] < y[2])

(* The nonces used by an account are 1, 2, ... n, in this order.           *)
InOrder(lists, a, n) ==
  /\ {NonceAt(lists, x) : x \in RanAt(lists, a)} = 1 .. n
  /\ \A x, y \in RanAt(lists, a) :
       Precedes(x, y) => NonceAt(lists, x) < NonceAt(lists, y)

(* The transactions of an account that ran, successfully or not, carry the *)
(* nonces 1, 2, ... up to the committed nonce in this order: none ran      *)
(* twice, none was skipped, and a failed one used its nonce up             *)
(* (SetAccountNonce: "the nonce is not cancelled by RollbackTx").          *)
NoncesInOrder == \A a \in Acct : InOrder(db[World].hash, a, db[Nonce(a)])

(* A transaction that fails changes nothing but its sender's nonce, the    *)
(* balances of those who pay its fee receipts and of the rewarded          *)
(* addresses, and key lists, however many of its messages had succeeded.   *)
FailedTxOnlyPaysFee ==
  [][ /\ Len(hashList') = Len(hashList) + 1
      /\ done' = done + 1
      /\ Last(hashList').code # "ok"
      => \A k \in Key :
           \/ View[k] = View'[k]
           \/ k[1] \in {"nonce", "keys"}
           \/ \E a \in DOMAIN Last(hashList').fees : k = Bal(a)
           \/ \E r \in Range(Strategy) : k = Bal(rewardAddr(r))
    ]_vars

(* distributeFee charges without asking for the balance, after the writes  *)
(* of a failed transaction are undone.  A balance that is spent by a       *)
(* transaction that succeeds, by mining or by initialising a contract is   *)
(* never overdrawn; only the fee of a failed transaction may do that, and  *)
(* only to those who pay it.                                               *)
OnlyFailuresOverdraw ==
  [][ \A a \in Addr :
        View'[Bal(a)] < 0 /\ View'[Bal(a)] < View[Bal(a)] /\ open /\ open'
          => LET e == Last(hashList')
             IN done' = done + 1 /\ e.code = "failed" /\ a \in DOMAIN e.fees
    ]_vars

SumBalances(v) == SumFunction([a \in Addr |-> v[Bal(a)]])

(* How many fees the transactions of a hash list paid, and those of lists. *)
FeesIn(list) == SumFunction([i \in DOMAIN list |-> Cardinality(DOMAIN list[i].fees)])
FeesInAll(lists) == SumFunction([h \in DOMAIN lists |-> FeesIn(lists[h])])

(* Money is never created, and what disappears is the remainder of the     *)
(* divisions in distributeFee: less than one unit for each rewarder of     *)
(* each fee paid.                                                          *)
SupplyNeverGrows ==
  db[World].hash # << >> =>
    SumBalances(Genesis) - SumBalances(db)
      \in 0 .. FeesInAll(db[World].hash) * (Len(Strategy) - 1)

(* The lists of keys that name the genesis token, or that a BVM contract   *)
(* of another token has written anew (burrow/state.go:41), so that they    *)
(* may have lost it.                                                       *)
NamesToken(list) == "token" \in list \/ "other" \in list

(* Whoever takes rewards and has been given none since the fork by which   *)
(* distributeFee enters the token took effect.                             *)
RewardedBefore(h, v, a) ==
  /\ a \in {rewardAddr(r) : r \in Range(Strategy)}
  /\ \/ V2_0_1_13780(h)
     \/ /\ EffectBlockHeight > 1
        /\ v[Bal(a)] = first[EffectBlockHeight - 1].contents[Bal(a)]

(* The list under KeyOfAccount names the nonce and the token of an account *)
(* that has them, although three places write it: SetAccountNonce under    *)
(* the Tx, AddAccountToken through it and UpdateAccount of the BVM over    *)
(* what was there.  Two lists may lack the token: one that the BVM wrote   *)
(* for another token, and one of a rewarded address that was paid before   *)
(* the fork only.                                                          *)
KeyListComplete ==
  \A a \in Addr :
    /\ a \in Acct /\ db[Nonce(a)] # 0 => "nonce" \in db[Keys(a)]
    /\ db[Bal(a)] # 0 => NamesToken(db[Keys(a)]) \/ RewardedBefore(Height, db, a)

FailedAt(h) == SelectSeq(Effective[h], LAMBDA c : c \in InitFails)

(* "forbidContract - forbid contract if initChain/updateChain failed"      *)
(* (begin_block.go:117): a contract that failed is not called to mine any  *)
(* more.  It is so of the last contract that failed at a height.  Each of  *)
(* the others was taken out of the list too, but the next one that failed  *)
(* put it back, with the list of the database (line 123).                  *)
LastForbiddenNeverMines ==
  \A c \in Range(db[Mines]) : db[Lose(c)] # 0 => c # Last(FailedAt(db[Lose(c)]))

(* The numbers of side chains that the transactions of a block left, and   *)
(* the one it began with.                                                  *)
ChainsLeft(d, list) ==
  {d[Chains]} \cup {e.state[Chains] : e \in {x \in Range(list) : Chains \in DOMAIN x.state}}

(* EndBlock reports the validators exactly when the block changed them, as *)
(* the block leaves them; and a side chain exactly when the block made     *)
(* one: the first that the last transaction that made any made, so that    *)
(* the others of the block are never told to consensus (delivertx.go:323   *)
(* and 401).  A transaction that failed later, another process or an       *)
(* earlier block add nothing.                                              *)
EndBlockReports ==
  phase = "ended" =>
    LET earlier == ChainsLeft(db, hashList) \ {View[Chains]} IN
    /\ response.validators = IF View[Vals] = db[Vals] THEN 0 ELSE View[Vals]
    /\ IF View[Chains] = db[Chains]
       THEN response.scGenesis = 0
       ELSE /\ response.scGenesis - 1 \in earlier
            /\ \A n \in earlier : n < response.scGenesis
=============================================================================
