---------------------------- MODULE Application ----------------------------
(***************************************************************************)
(* BCChainApplication on a chain that starts as version 1 and is upgraded  *)
(* to version 2 by a transaction: which of the two delivery connections    *)
(* serves a call, when the version changes, and what the v1 connection     *)
(* (abciapp_v1.0/service/deliver) does to the chain before and after.      *)
(*                                                                         *)
(* One action is one ABCI call of the delivery connection.  The consensus  *)
(* engine replays decided blocks after a crash or a rollback, as in module *)
(* Deliver.  One account sends the transactions; a transaction is its      *)
(* format, what it asks for, and its nonce.  The calls are served one at a *)
(* time; what goes on beside them is that the container of the third-party *)
(* contracts (smcrunctl.InvokeMgr) may be killed because it is idle.       *)
(*                                                                         *)
(* Spec describes a chain whose genesis data an earlier release committed, *)
(* GenesisSpec one that this release is to start.                          *)
(***************************************************************************)
EXTENDS Integers, SequencesExt

CONSTANTS
  Blocks,       \* bound: the blocks consensus may decide
  Checked,      \* bound: the transactions that may be checked
  MaxHeight,    \* bound: highest block
  ForkHeight,   \* effect height of fork-abci#1.0.2.3233, 0 when absent
  MaxKills,     \* bound: how often the idle container is killed
  Nil           \* no cached version, no contract

ASSUME HeightAssumption == MaxHeight \in Nat /\ ForkHeight \in Nat /\ MaxKills \in Nat
ASSUME NilAssumption == Nil \notin [effect : Nat, lose : Nat]

VARIABLES
  db,           \* the committed contents
  past,         \* the contents before each committed transaction
  work,         \* the contents as the open transaction sees them
  app,          \* chainVersion and updateChainVersion
  v1,           \* the v1 connections: appState.ChainVersion, mineStub,
                \* mineContract, whether the contract docker of the check and
                \* of the delivery connection has the token's stub, and
                \* whether a transaction that RollBlock forgot is still open
                \* in statedb
  docker,       \* the third-party container: the pool of connections to it
                \* ("nil", "live", or "stale" once it is killed), whether it
                \* knows the contract, whether this block has used it, and
                \* how often it was killed
  conn,         \* hashList, fee and rewards of the connection that serves
                \* the block
  ahead,        \* whether statedb numbers its transactions from a committed
                \* one that Rollback has undone since
  phase,        \* "down", "idle", "block", "ended" or a panic
  done,         \* transactions of the current block delivered so far
  blocks,       \* consensus: the decided blocks
  hashes,       \* consensus: the app hash it recorded after each of them
  first         \* history variable: the contents first committed at each
                \* height

store     == <<db, past>>
consensus == <<blocks, hashes, first>>
vars      == <<db, past, work, app, v1, docker, conn, ahead, phase, done,
               blocks, hashes, first>>

(* Contents: the world state, the account's nonce, the contracts named     *)
(* "mining" of version 1 and of version 2 (as they are in the contract     *)
(* list), how often the v1 ones have mined, whether a token was issued and *)
(* a third-party contract was deployed, and how often the latter was       *)
(* called.  A hash is the sequence of hash lists it was computed from.     *)
Before == [height |-> 0, version |-> 0, hash |-> << >>, fee |-> 0,
           rewards |-> 0, nonce |-> 0, miners |-> << >>, minersV2 |-> << >>,
           mined |-> 0, token |-> FALSE, third |-> FALSE, calls |-> 0]

Genesis == [Before EXCEPT !.hash = << << >> >>]

Contract(effect) == [effect |-> effect, lose |-> 0]
HasMiner(c) == c.miners # << >> \/ c.minersV2 # << >>

NewApp  == [chainVersion |-> Nil, updateChainVersion |-> 0]
NewConn == [hashList |-> << >>, fee |-> 0, rewards |-> 0]

NewV1   == [version |-> 0, mineStub |-> FALSE, mineContract |-> Nil,
            check |-> FALSE, deliver |-> FALSE, left |-> FALSE]
NewDocker == [docker EXCEPT !.pool = "nil", !.known = FALSE, !.used = FALSE]

(* InitContractDocker at the start of the process: the stubs of the mining *)
(* contract and of the token are made when these are in the committed      *)
(* list; the check connection has no use for the former.                   *)
checkStubs == db.token
InitContractDockerMut == [NewV1 EXCEPT !.check = checkStubs, !.deliver = db.token]
InitContractDocker == [NewV1 EXCEPT !.mineStub = db.miners # << >>,
                                    !.check = checkStubs, !.deliver = db.token]

InitWith(contents) ==
  /\ db = contents
  /\ past = << >>
  /\ work = contents
  /\ app = NewApp
  /\ v1 = NewV1
  /\ docker = [pool |-> "live", known |-> FALSE, used |-> FALSE, kills |-> 0]
  /\ conn = NewConn
  /\ ahead = FALSE
  /\ phase = "idle"
  /\ done = 0
  /\ blocks = << >>
  /\ hashes = << >>
  /\ first = << >>

Init == InitWith(Genesis)

(* ChainVersion(): the committed version, read once and cached.            *)
ChainVersionMut == IF app.chainVersion = Nil THEN 0 ELSE app.chainVersion
ChainVersion == IF app.chainVersion = Nil THEN db.version ELSE app.chainVersion

(* CommitBlock of statedb takes a transaction only if its number follows   *)
(* the committed one.                                                      *)
checkIDMut == TRUE
checkID == ~ahead

-----------------------------------------------------------------------------
(* initChain of the v1 connection.  It defers RollBlock, which finds no    *)
(* transaction after CommitBlock.  With genesis data in place              *)
(* SetGenesisContract refuses, and RollBlock forgets the transaction       *)
(* without closing it in statedb.                                          *)
initChain ==
  IF db.hash # << >>
  THEN v1' = [v1 EXCEPT !.left = TRUE] /\ UNCHANGED <<store, phase>>
  ELSE /\ UNCHANGED v1
       /\ IF checkID
          THEN /\ db' = Genesis
               /\ past' = Append(past, db)
               /\ phase' = "invalid transID"
          ELSE phase' = "transaction ID" /\ UNCHANGED store

(* InitChain with a version 1 genesis document, called at height 0.        *)
InitChain ==
  /\ phase = "idle"
  /\ db.height = 0
  /\ ~v1.left
  /\ initChain
  /\ UNCHANGED <<work, app, docker, conn, ahead, done, consensus>>

(* A mining contract that is in place is left alone.                       *)
MinerKept(b) ==
  Len(SelectSeq(b, LAMBDA tx : tx.kind = "mining"))
    <= IF HasMiner(db) THEN 0 ELSE 1

Decide(b) ==
  /\ phase = "idle"
  /\ db.hash # << >>
  /\ Len(blocks) = db.height
  /\ Len(blocks) < MaxHeight
  /\ MinerKept(b)
  /\ blocks' = Append(blocks, b)
  /\ UNCHANGED <<store, work, app, v1, docker, conn, ahead, phase, done, hashes, first>>

(* softforks.V1_0_2_3233: the fork is not in effect yet.                   *)
V1_0_2_3233(h) == h < ForkHeight

(* The rewards a block of the serving connection starts from.              *)
rewardsAtBegin(h) ==
  IF ChainVersion = 0 /\ V1_0_2_3233(h) THEN conn.rewards ELSE 0

(* BCBeginBlock of v1, or BCBeginBlockToV2 and the BeginBlock of v2: they  *)
(* read the world state and compare the app hashes.                        *)
BCBeginBlock(h, last) ==
  IF last # db.hash
  THEN /\ phase' = "failed to match app hash"
       /\ UNCHANGED <<work, v1, conn>>
  ELSE /\ phase' = "block"
       /\ work' = db
       /\ v1' = [v1 EXCEPT !.version = db.version]
       /\ conn' = [hashList |-> << >>, fee |-> 0, rewards |-> rewardsAtBegin(h)]

BeginBlock ==
  LET h == db.height + 1 IN
  /\ phase = "idle"
  /\ db.hash # << >>
  /\ db.height < Len(blocks)
  /\ ~v1.left
  /\ app' = [app EXCEPT !.chainVersion = ChainVersion]
  /\ BCBeginBlock(h, IF h = 1 THEN << << >> >> ELSE hashes[h - 1])
  /\ docker' = [docker EXCEPT !.used = FALSE]
  /\ done' = 0
  /\ UNCHANGED <<store, ahead, consensus>>

(* NewCommittableTransaction finds the transaction that is still open.     *)
BeginBlockRefused ==
  /\ phase = "idle"
  /\ db.height < Len(blocks)
  /\ v1.left
  /\ phase' = "must commit last transaction"
  /\ UNCHANGED <<store, work, app, v1, docker, conn, ahead, done, consensus>>

-----------------------------------------------------------------------------
(* The third-party container (abciapp_v1.0/smcrunctl)                      *)

(* pool: a container that is not the one the connections were made to is   *)
(* told every contract in the contents c, the ones of the open block too   *)
(* when the delivery connection asks.                                      *)
initDocker(c) == c.third
poolMut(c) ==
  [docker EXCEPT !.pool = "live", !.used = TRUE, !.known = @ /\ docker.pool = "live"]
pool(c) ==
  [docker EXCEPT !.pool = "live", !.used = TRUE,
                 !.known = IF docker.pool = "live" THEN @ ELSE initDocker(c)]

(* A new container calls back for the data of the contracts.  It does so   *)
(* under the number 0, which is the one InitContractDocker stores, and     *)
(* "get" panics when no items are stored under it.                         *)
lostCallback(items) == docker.pool # "live" /\ 0 \notin items

(* InitContractDocker stores its items, and removes them when it returns.  *)
itemsOfInit == {0}

(* The number of the transaction; a version 1 block has none.              *)
transID == IF ChainVersion = 0 THEN 0 ELSE db.height + 1

(* CheckDockerLiveTime kills a container that has been idle for the        *)
(* timeout, which is longer than a block takes.                            *)
KillIdle ==
  /\ phase \in {"idle", "block", "ended"}
  /\ docker.pool = "live"
  /\ phase = "idle" \/ ~docker.used
  /\ docker.kills < MaxKills
  /\ docker' = [docker EXCEPT !.pool = "stale", !.known = FALSE, !.kills = @ + 1]
  /\ UNCHANGED <<store, work, app, v1, conn, ahead, phase, done, consensus>>

-----------------------------------------------------------------------------
(* Transactions                                                            *)
Kinds == {"call",      \* a v1 contract that is no token, or a v2 one
          "fails",     \* the same, and the contract fails
          "missing",   \* no such contract
          "malformed", \* does not parse, or its note is too long
          "transfer",  \* the token contract's Transfer
          "mining",    \* system: deploy the mining contract
          "issue",     \* token-issue: issue the token
          "deploy3d",  \* system: deploy the third-party contract
          "call3d",    \* a call of it
          "upgrade"}   \* upgrade1to2

Tx == [format : {"v1", "v2"}, kind : Kinds, nonce : Nat]

Entry(tx, code) == [tx |-> tx, code |-> code, by |-> ChainVersion]
MineEntry == [tx |-> Nil, code |-> "mined", by |-> ChainVersion]

CheckAccountNonceMut(tx) == tx.nonce <= work.nonce + 1
CheckAccountNonce(tx) == tx.nonce = work.nonce + 1

(* What a contract leaves of the contents c: the set is empty when the     *)
(* contract fails.                                                         *)
(* DeployInternalContract of a mining contract that takes effect in the    *)
(* next block: isDisabled and SetNewContract.                              *)
DeployInternalContract(c) ==
  IF HasMiner(c) THEN {}
  ELSE {[c EXCEPT !.miners = <<Contract(db.height + 2)>>]}

(* The same for the third-party contract, under a name not yet taken; and  *)
(* the token-issue contract, which ends with the block of the upgrade.     *)
Deploy3d(c) == IF c.third THEN {} ELSE {[c EXCEPT !.third = TRUE]}

IssueToken(c) ==
  IF c.token \/ ChainVersion # 0 THEN {} ELSE {[c EXCEPT !.token = TRUE]}

(* Upgrade asks the committed world state whether the chain is upgraded.   *)
(* It forbids the first mining contract and saves the v2 one.              *)
forbidMining(c, h) ==
  IF c.miners = << >> THEN << >> ELSE [c.miners EXCEPT ![1].lose = h]

Upgrade(c) ==
  LET h == db.height + 1 IN
  IF db.version # 0 THEN {}
  ELSE {[c EXCEPT !.miners = forbidMining(c, h + 1), !.minersV2 = <<Contract(h + 1)>>]}

(* InvokeMgr.Invoke: the container fails a call of a contract it does not  *)
(* know; a contract it knows calls back to write into the transaction.     *)
setToTxBuffer(c) == [c EXCEPT !.calls = @ + 1]
Invoke(c) == IF pool(c).known THEN {setToTxBuffer(c)} ELSE {}

invokeV1(kind, c) ==
  CASE kind \in {"call", "transfer"} -> {c}
    [] kind = "mining"  -> DeployInternalContract(c)
    [] kind = "issue"    -> IssueToken(c)
    [] kind = "deploy3d" -> Deploy3d(c)
    [] kind = "call3d" /\ c.third -> Invoke(c)
    [] kind = "upgrade" -> Upgrade(c)
    [] OTHER -> {}

rewardsBefore ==
  IF ChainVersion = 0 /\ V1_0_2_3233(db.height + 1) THEN 0 ELSE conn.rewards

Hashed(tx, code) ==
  conn' = [conn EXCEPT !.hashList = Append(@, Entry(tx, code))]

HashedAndPaid(tx, rewards) ==
  conn' = [hashList |-> Append(conn.hashList, Entry(tx, "ok")),
           fee |-> conn.fee + 1, rewards |-> rewards + 1]

(* RegisterIntoContractDocker, after the transaction: a new token's stub   *)
(* goes into the dockers of both connections, a new mining contract's into *)
(* the delivery connection, a third-party contract into the container.     *)
registeredMut(kind) ==
  [v1 EXCEPT !.mineStub = @ \/ kind = "mining", !.deliver = @ \/ kind = "issue"]
registeredInCheck(kind) == v1.check \/ kind = "issue"
registered(kind) ==
  [v1 EXCEPT !.mineStub = @ \/ kind = "mining",
             !.check = registeredInCheck(kind), !.deliver = @ \/ kind = "issue"]

RegisterContractDocker == [pool(work) EXCEPT !.known = TRUE]

(* runDeliverBCTx.  The nonce is set in the transaction, under the TxState,*)
(* so a failure keeps it.  The version of an upgrade is kept in appState.  *)
runDeliverBCTx(tx) ==
  LET counted == [work EXCEPT !.nonce = tx.nonce]
      left == invokeV1(tx.kind, counted)
      calls == CheckAccountNonce(tx) /\ tx.kind = "call3d" /\ work.third
      registers == CheckAccountNonce(tx) /\ tx.kind = "deploy3d" /\ left # {}
  IN IF \/ calls /\ lostCallback({transID})
        \/ registers /\ lostCallback({})
     THEN phase' = "error transID" /\ UNCHANGED <<work, v1, docker, conn>>
     ELSE /\ UNCHANGED phase
          /\ docker' = IF calls THEN pool(work)
                       ELSE IF registers THEN RegisterContractDocker ELSE docker
          /\ IF ~CheckAccountNonce(tx) THEN Hashed(tx, "rejected") /\ UNCHANGED <<work, v1>>
             ELSE IF left = {} THEN Hashed(tx, "failed") /\ work' = counted /\ UNCHANGED v1
             ELSE /\ HashedAndPaid(tx, rewardsBefore)
                  /\ work' \in left
                  /\ v1' = [registered(tx.kind)
                              EXCEPT !.version = IF tx.kind = "upgrade" THEN 2 ELSE @]

(* AppDeliver.runDeliverTx, which module Deliver models in full.  A failed *)
(* transaction adds to the rewards and not to the block's fee.             *)
runDeliverTx(tx) ==
  /\ UNCHANGED <<v1, docker, phase>>
  /\ IF tx.kind = "malformed" \/ ~CheckAccountNonce(tx)
     THEN Hashed(tx, "rejected") /\ UNCHANGED work
     ELSE /\ work' = [work EXCEPT !.nonce = tx.nonce]
          /\ IF tx.kind \in {"call", "transfer"}
             THEN HashedAndPaid(tx, conn.rewards)
             ELSE conn' = [conn EXCEPT !.hashList = Append(@, Entry(tx, "failed")),
                                       !.rewards = @ + 1]

(* A call that leaves no trace.                                            *)
ignored == UNCHANGED <<work, v1, docker, conn, phase>>

parses(tx) == tx.kind # "malformed"

(* deliverBCTx.  On an upgraded chain exMessageParams turns the token      *)
(* contract's transfers, and nothing else, into v2 messages.               *)
exMessageParams(tx) == tx.kind = "transfer"

runDeliverBCTxEx(tx) ==
  CASE tx.kind = "missing"  -> ignored
    [] exMessageParams(tx)  -> runDeliverTx(tx)
    [] OTHER                -> runDeliverBCTx(tx)

deliverBCTx(tx) ==
  IF ~parses(tx) THEN ignored
  ELSE IF ChainVersion = 2 THEN runDeliverBCTxEx(tx) ELSE runDeliverBCTx(tx)

(* DeliverTx: by the transaction's format and the chain's version.         *)
DeliverTx ==
  LET tx == blocks[db.height + 1][done + 1] IN
  /\ phase = "block"
  /\ done < Len(blocks[db.height + 1])
  /\ done' = done + 1
  /\ CASE tx.format = "v1"                    -> deliverBCTx(tx)
       [] tx.format = "v2" /\ ChainVersion = 2 -> runDeliverTx(tx)
       [] OTHER                                -> ignored
  /\ UNCHANGED <<store, app, ahead, consensus>>

(* CheckTx.  The check connection runs the transaction in a transaction of *)
(* its own on the committed contents and rolls that back; the container is *)
(* all it may leave behind.  The delivery connection's number 0 is that of *)
(* every check.                                                            *)
runCheckBCTx(tx) ==
  IF tx.nonce = db.nonce + 1 /\ tx.kind = "call3d" /\ db.third /\ ~lostCallback({0})
  THEN pool(db) ELSE docker

(* On an upgraded chain the transfers of the token go to the v2 connection.*)
checkMessageParams(tx) == tx.kind = "transfer"
runCheckBCTxEx(tx) ==
  IF tx.kind = "missing" \/ checkMessageParams(tx) THEN docker ELSE runCheckBCTx(tx)

CheckBCTx(tx) ==
  IF ~parses(tx) THEN docker
  ELSE IF ChainVersion = 2 THEN runCheckBCTxEx(tx) ELSE runCheckBCTx(tx)

(* It may also be the first call to ask for the version.                   *)
CheckTx(tx) ==
  /\ phase \in {"idle", "block", "ended"}
  /\ app' = [app EXCEPT !.chainVersion = ChainVersion]
  /\ docker' = IF tx.format = "v1" THEN CheckBCTx(tx) ELSE docker
  /\ UNCHANGED <<store, work, v1, conn, ahead, phase, done, consensus>>

-----------------------------------------------------------------------------
(* newInvokeParams: the mining contract, the last one in the list, is      *)
(* looked up once.                                                         *)
mineContract ==
  IF v1.mineStub /\ v1.mineContract = Nil /\ work.miners # << >>
  THEN Last(work.miners) ELSE v1.mineContract

IsMiningRightHeight(m, h) == m.effect <= h /\ (m.lose = 0 \/ m.lose > h)

mines ==
  /\ ChainVersion = 0
  /\ mineContract # Nil
  /\ IsMiningRightHeight(mineContract, db.height + 1)

(* The application notes a version that is not the cached one.             *)
noted(version) ==
  IF app.chainVersion # version
  THEN [app EXCEPT !.updateChainVersion = version] ELSE app

(* EndBlock: mine (v1; for v2 see module Deliver).                         *)
EndBlock ==
  /\ phase = "block"
  /\ done = Len(blocks[db.height + 1])
  /\ phase' = "ended"
  /\ v1' = IF ChainVersion = 0 THEN [v1 EXCEPT !.mineContract = mineContract] ELSE v1
  /\ work' = IF mines THEN [work EXCEPT !.mined = @ + 1] ELSE work
  /\ conn' = IF mines THEN [conn EXCEPT !.hashList = Append(@, MineEntry)] ELSE conn
  /\ app' = noted(IF ChainVersion = 0 THEN v1.version ELSE db.version)
  /\ UNCHANGED <<store, docker, ahead, done, consensus>>

(* The world state that commitTx (v1) or commit (v2) saves; an empty block *)
(* keeps the hash, the fee and the rewards of the block before.            *)
newWorld ==
  LET w == [work EXCEPT !.height = @ + 1,
                        !.version = IF ChainVersion = 0 THEN v1.version ELSE @]
  IN IF conn.hashList = << >> THEN w
     ELSE [w EXCEPT !.hash = Append(@, conn.hashList), !.fee = conn.fee,
                    !.rewards = conn.rewards]

(* Commit, after the connection has committed: the new version is used     *)
(* from the next block on.                                                 *)
updatedVersionKeepMut == [app EXCEPT !.updateChainVersion = 0]
updatedVersion ==
  IF app.updateChainVersion = 0 THEN app
  ELSE [chainVersion |-> app.updateChainVersion, updateChainVersion |-> 0]

Commit ==
  LET h == db.height + 1 IN
  /\ phase = "ended"
  /\ checkID
  /\ db' = newWorld
  /\ past' = Append(past, db)
  /\ app' = updatedVersion
  /\ phase' = "idle"
  /\ hashes' = IF Len(hashes) < h THEN Append(hashes, newWorld.hash) ELSE hashes
  /\ first' = IF Len(first) < h THEN Append(first, newWorld) ELSE first
  /\ UNCHANGED <<work, v1, docker, conn, ahead, done, blocks>>

-----------------------------------------------------------------------------
(* A panic or a crash ends the process.                                    *)
end ==
  /\ phase' = "down"
  /\ work' = db
  /\ app' = NewApp
  /\ v1' = NewV1
  /\ docker' = NewDocker
  /\ conn' = NewConn
  /\ ahead' = FALSE
  /\ done' = 0
  /\ UNCHANGED <<store, consensus>>

Crash == phase # "down" /\ end

(* "transaction ID must be last transaction ID plus one".                  *)
CommitRefused == phase = "ended" /\ ~checkID /\ end

(* The Rollback call: statedb undoes the last committed transaction.  The  *)
(* cached version, the stubs and the container stay, and so does the       *)
(* number of the last transaction.                                         *)
Rollback ==
  /\ phase = "idle"
  /\ ~v1.left
  /\ past # << >>
  /\ db' = Last(past)
  /\ past' = Front(past)
  /\ work' = Last(past)
  /\ ahead' = TRUE
  /\ UNCHANGED <<app, v1, docker, conn, phase, done, consensus>>

(* "cannot be rollback when a committable transaction is not committed",   *)
(* or when there is none to undo.                                          *)
RollbackRefused ==
  /\ phase \in {"idle", "block", "ended"}
  /\ phase # "idle" \/ v1.left \/ past = << >>
  /\ end

(* NewBCChainApplication: StartServer starts the container and tells it    *)
(* the contracts, then both connections make their dockers.                *)
Restart ==
  /\ phase = "down"
  /\ IF lostCallback(itemsOfInit)
     THEN phase' = "error transID" /\ UNCHANGED <<v1, docker>>
     ELSE /\ phase' = "idle"
          /\ v1' = InitContractDocker
          /\ docker' = [pool(db) EXCEPT !.used = FALSE]
  /\ UNCHANGED <<store, work, app, conn, ahead, done, consensus>>

(* "bcchain rollback".                                                     *)
RollbackCmd ==
  /\ phase = "down"
  /\ past # << >>
  /\ db' = Last(past)
  /\ past' = Front(past)
  /\ work' = Last(past)
  /\ UNCHANGED <<app, v1, docker, conn, ahead, phase, done, consensus>>

Next ==
  \/ \E b \in Blocks : Decide(b)
  \/ \E tx \in Checked : CheckTx(tx)
  \/ KillIdle
  \/ BeginBlock
  \/ DeliverTx
  \/ EndBlock
  \/ Commit
  \/ CommitRefused
  \/ Rollback
  \/ RollbackRefused
  \/ Crash
  \/ Restart
  \/ RollbackCmd

Spec == Init /\ [][Next]_vars

GenesisSpec ==
  InitWith(Before) /\ [][Next \/ InitChain \/ BeginBlockRefused]_vars

-----------------------------------------------------------------------------
(* "It's OK to call RollBlock() follows Commit()" (initchain.go): InitChain *)
(* of a fresh chain returns to consensus.                                  *)
InitChainReturns == phase # "invalid transID"

(* At height h of the chain f, the last block with entries, g, was one of  *)
(* version 1 before the fork, which starts from the rewards of the block   *)
(* before it, if the process has executed that one.                        *)
CarriedOver(f, h) ==
  \E g \in 2 .. ForkHeight - 1 :
    /\ g <= h /\ f[g - 1].version = 0
    /\ f[g].hash # f[g - 1].hash /\ f[g].hash = f[h].hash

(* Executing a decided block again, after a restart or a rollback, gives   *)
(* the same contents, the fee and the rewards of its world state included  *)
(* (those carried over before the fork excepted), and the app hashes of    *)
(* the network: BeginBlock of neither connection panics with "failed to    *)
(* match app hash", across the upgrade too.                                *)
ReplaySame ==
  LET h == db.height IN
  /\ phase # "failed to match app hash"
  /\ h \in DOMAIN first =>
       db = [first[h] EXCEPT !.rewards =
               IF CarriedOver(first, h) THEN db.rewards ELSE @]

(* Between blocks the cached version is the committed one: the next block, *)
(* and the transactions checked meanwhile, go to the right connection.     *)
(* Only the process that served a Rollback may still have the version of   *)
(* what it undid; then it commits no block, as ReplaySame shows.           *)
VersionCacheFresh ==
  phase = "idle" /\ app.chainVersion # Nil =>
    \/ app.chainVersion = db.version
    \/ ahead /\ app.chainVersion > db.version

(* Where the hash lists hold the transactions that ran, successfully or    *)
(* not, and the nonce of the one at a place.                               *)
RanAt(lists) ==
  {x \in UNION {{h} \X DOMAIN lists[h] : h \in DOMAIN lists} :
     lists[x[1]][x[2]].code \notin {"rejected", "mined"}}

NonceAt(lists, x) == lists[x[1]][x[2]].tx.nonce

Precedes(x, y) == x[1] < y[1] \/ (x[1] = y[1] /\ x[2] < y[2])

InOrder(lists, n) ==
  /\ {NonceAt(lists, x) : x \in RanAt(lists)} = 1 .. n
  /\ \A x, y \in RanAt(lists) :
       Precedes(x, y) => NonceAt(lists, x) < NonceAt(lists, y)

(* A transaction of either format uses its nonce once: those that ran      *)
(* carry 1, 2, ... up to the committed nonce, in this order, before and    *)
(* after the upgrade, whichever connection executed them.                  *)
NonceOnce == InOrder(db.hash, db.nonce)

(* The block of the upgrade is executed by version 1 to its end, every     *)
(* later one by version 2, whenever the process is restarted.              *)
SwitchAtCommit ==
  \A i, j \in DOMAIN db.hash :
    \A x \in Range(db.hash[i]), y \in Range(db.hash[j]) :
      x.tx # Nil /\ x.tx.kind = "upgrade" /\ x.code = "ok"
        => y.by = IF j <= i THEN 0 ELSE 2

(* Between blocks both connections have the token's stub exactly when the  *)
(* committed contents have the token: a block that is executed again, a    *)
(* crash before its Commit or a rollback leaves no stub behind and none    *)
(* out, so a call is checked by the code that will execute it.  Only the   *)
(* process that served a Rollback may have one whose token it undid.       *)
StubsFollowContracts ==
  phase = "idle" =>
    \A stub \in {v1.check, v1.deliver} : stub = db.token \/ (ahead /\ stub)

(* Whenever the container of the third-party contracts is replaced, by a   *)
(* check in the middle of a block or by the delivery itself, it knows each *)
(* contract the block calls; otherwise the nodes would disagree.  Only the *)
(* process that served a Rollback may have one that knows more.  And its   *)
(* callbacks find the transaction they are about, unless an idle container *)
(* was killed before: then the delivery that has to replace it panics with *)
(* "error transID".                                                        *)
ContainerKnowsContracts ==
  /\ docker.pool = "live" /\ phase # "down" =>
       docker.known = (db.third \/ work.third) \/ (ahead /\ docker.known)
  /\ phase = "error transID" => docker.kills > 0
=============================================================================
