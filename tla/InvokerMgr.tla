---------------------------- MODULE InvokerMgr ----------------------------
(* How the v2 application reaches the contract dockers (smcrunctl, its use *)
(* of smcdocker and smcbuilder, and abciapp/service/check).                *)
(*                                                                         *)
(* One goroutine delivers blocks, others check transactions, each under a  *)
(* transaction of the state database.  A message goes to the docker of its *)
(* contract's organisation, found through orgNameToURL or started; the     *)
(* docker keeps what transactions under way wrote, and is told when they   *)
(* commit or roll back.  A docker runs a binary with all contracts of its  *)
(* organisation and of the genesis organisation, kept on disk by the hash  *)
(* of that code.  A deployment builds the binary at once; the docker is    *)
(* replaced when the block is committed.                                   *)
EXTENDS Integers, FiniteSets, TLC

CONSTANTS Org, GenesisOrg,
          Contract, OrgOf,      \* contracts that may be deployed, of which organisation
          Checker,              \* transactions of the state database opened by CheckTx
          Deliver,              \* the block's transaction
          None,
          MaxBlocks, MaxTxs, MaxMsgs, MaxChecks, MaxStarts   \* bounds

ASSUME InvokerMgrAssumption ==
  /\ GenesisOrg \in Org /\ OrgOf \in [Contract -> Org] /\ Deliver \notin Checker
  /\ None \notin Nat
  /\ MaxMsgs \in Nat

Trans == Checker \cup {Deliver}

VARIABLES code,         \* contracts deployed in the committed state
          bin,          \* binaries on disk, <<organisation, contracts>>
          docker,       \* the container of an organisation: its url and contracts
          url,          \* orgNameToURL
          starting,     \* the start of a docker under way: its contracts and url
          pool,         \* dockerMapConnPool
          dockerUrlMap, transCon,
          held,         \* what the dockers hold, <<url, transaction, tx>>; None is
                        \* the transaction of a block that is over
          proc,         \* what each transaction is doing
          kept,         \* contracts deployed by the block's transactions so far
          cur,          \* contracts deployed by the transaction at hand
          halted,       \* the process has panicked
          count,        \* blocks, transactions of the block, checks, starts
          raced         \* history: organisations reloaded while a start was under way

state == <<code, bin, kept, cur>>
dockers == <<docker, url, starting>>
maps == <<pool, dockerUrlMap, transCon, held>>
vars == <<state, dockers, maps, proc, halted, count, raced>>

Idle == [pc |-> "idle", tx |-> 0, msg |-> 0, org |-> None, url |-> None, done |-> {}]

Init ==
  /\ code = {} /\ kept = {} /\ bin = {<<o, {}>> : o \in Org}
  /\ cur = [p \in Trans |-> {}]
  /\ docker = [o \in Org |-> None] /\ url = docker /\ starting = docker
  /\ pool = {} /\ held = {}
  /\ dockerUrlMap = [p \in Trans |-> {}]
  /\ transCon = [p \in Trans |-> {}]
  /\ proc = [p \in Trans |-> Idle]
  /\ halted = FALSE
  /\ count = [blocks |-> 0, txs |-> 0, checks |-> 0, starts |-> 0]
  /\ raced = {}

-----------------------------------------------------------------------------
View(p) == code \cup cur[p] \cup IF p = Deliver THEN kept ELSE {}

\* The code of an organisation, which its hash identifies.
GetContracts(o, v) == {c \in v : OrgOf[c] = o}
GetOrgCodeHash(o, v) == GetContracts(o, v)

\* What a binary is built from: the hash its directory is named by.
expandOldCode(o, v) == GetContracts(o, v) \cup GetContracts(GenesisOrg, v)
smcsvcFilePath(o, v) == <<o, GetOrgCodeHash(o, v) \cup GetOrgCodeHash(GenesisOrg, v)>>

\* The binary's directory, and the checksum that marks it as complete.
genSha2(o, v) == bin \cup {smcsvcFilePath(o, v)}

Live(u) == \E o \in Org : docker[o] # None /\ docker[o].url = u

Go(p, pc) == proc' = [proc EXCEPT ![p].pc = pc]

Panic == halted' = TRUE /\ UNCHANGED <<state, dockers, maps, proc, count, raced>>

Running == ~halted

\* DirtyURL: the url of a docker that is about to go, or gone.
DirtyURL(us) ==
  /\ pool' = pool \ us
  /\ dockerUrlMap' = [p \in Trans |-> dockerUrlMap[p] \ us]

urlsOf(os) == {url[o] : o \in {x \in os : url[x] # None}}
closed(f, os) == [o \in Org |-> IF o \in os THEN None ELSE f[o]]

-----------------------------------------------------------------------------
(* The start of a transaction.                                             *)

BeginTx ==
  /\ Running /\ proc[Deliver].pc = "idle" /\ count.blocks < MaxBlocks /\ count.txs < MaxTxs
  /\ count' = [count EXCEPT !.txs = @ + 1]
  /\ proc' = [proc EXCEPT ![Deliver] = [Idle EXCEPT !.pc = "resolve", !.tx = count.txs + 1, !.msg = 1]]
  /\ UNCHANGED <<state, dockers, maps, halted, raced>>

\* A call of the block itself, as if it were the last message.
callOfBlock ==
  /\ Running /\ proc[Deliver].pc = "idle" /\ count.blocks < MaxBlocks
  /\ proc' = [proc EXCEPT ![Deliver] = [Idle EXCEPT !.pc = "resolve", !.msg = MaxMsgs]]
  /\ UNCHANGED <<state, dockers, maps, halted, count, raced>>

\* BeginBlock starts the contracts that take effect, EndBlock asks the
\* mining contracts; a second call follows the first.
InitOrUpdateSMC == count.txs = 0 /\ callOfBlock
Mine == callOfBlock

\* CheckTx after its nonce was accepted: a transaction of its own.
CheckTx(p) ==
  /\ Running /\ p # Deliver /\ proc[p].pc = "idle" /\ count.checks < MaxChecks
  /\ count' = [count EXCEPT !.checks = @ + 1]
  /\ proc' = [proc EXCEPT ![p] = [Idle EXCEPT !.pc = "resolve", !.tx = 1, !.msg = 1]]
  /\ UNCHANGED <<state, dockers, maps, halted, raced>>

\* getPayer finds a contract of the transaction that is not in effect: the
\* transaction ends before anything is recorded.  The blacklist ends it too.
getPayerFails(p) ==
  /\ Running /\ proc[p].pc = "resolve" /\ proc[p].tx > 0
  /\ Go(p, "unrecorded")
  /\ UNCHANGED <<state, dockers, maps, halted, count, raced>>

\* GetContractInvokeURL: a missing binary means that the code has changed
\* since the docker was started.
GetContractInvokeURL(p, o) ==
  LET stale == smcsvcFilePath(o, View(p)) \notin bin
  IN /\ Running /\ proc[p].pc = "resolve"
     /\ IF url[o] # None /\ ~stale
        THEN /\ proc' = [proc EXCEPT ![p].pc = "invoke", ![p].org = o, ![p].url = url[o]]
             /\ UNCHANGED <<dockers, maps>>
        ELSE /\ proc' = [proc EXCEPT ![p].pc = "wait", ![p].org = o]
             /\ url' = [url EXCEPT ![o] = None]
             /\ DirtyURL(urlsOf({o}))
             /\ starting' = [starting EXCEPT ![o] =
                               IF @ = None THEN [code |-> expandOldCode(o, View(p)), url |-> None] ELSE @]
             /\ UNCHANGED <<docker, transCon, held>>
     /\ UNCHANGED <<state, halted, count, raced>>

-----------------------------------------------------------------------------
(* The goroutine that starts a docker (module SmcDocker has its details).  *)

waiting(o) == {p \in Trans : proc[p].pc = "wait" /\ proc[p].org = o}

\* GetContractDllPath; then the old container is killed and a new one run.
RunDocker(o) ==
  LET u == count.starts + 1
  IN /\ Running /\ starting[o] # None /\ starting[o].url = None /\ count.starts < MaxStarts
     /\ bin' = genSha2(o, starting[o].code)
     /\ DirtyURL(urlsOf({o}))
     /\ docker' = [docker EXCEPT ![o] = [url |-> u, code |-> starting[o].code]]
     /\ starting' = [starting EXCEPT ![o].url = u]
     /\ count' = [count EXCEPT !.starts = u]
     /\ held' = {h \in held : docker[o] = None \/ h[1] # docker[o].url}
     /\ UNCHANGED <<code, kept, cur, url, transCon, proc, halted, raced>>

\* The code does not build: the callers get the error; outside a
\* transaction of the block that is a panic.
BuildFails(o) ==
  /\ Running /\ starting[o] # None /\ starting[o].url = None
  /\ starting' = [starting EXCEPT ![o] = None]
  /\ proc' = [p \in Trans |-> IF p \in waiting(o) THEN [proc[p] EXCEPT !.pc = "failed"] ELSE proc[p]]
  /\ halted' = (\E p \in waiting(o) : proc[p].tx = 0)
  /\ UNCHANGED <<state, docker, url, maps, count, raced>>

\* The docker answers, or it was killed in the meantime: then the wait for
\* it ends in a panic.
PublishURL(o) ==
  /\ Running /\ starting[o] # None /\ starting[o].url # None
  /\ IF Live(starting[o].url)
     THEN /\ url' = [url EXCEPT ![o] = starting[o].url]
          /\ starting' = [starting EXCEPT ![o] = None]
          /\ proc' = [p \in Trans |-> IF p \in waiting(o)
                        THEN [proc[p] EXCEPT !.pc = "invoke", !.url = starting[o].url] ELSE proc[p]]
          /\ UNCHANGED <<state, docker, maps, halted, count, raced>>
     ELSE Panic

-----------------------------------------------------------------------------
(* A message.                                                              *)

\* dockerConnPool: the url is recorded for the transaction before the call.
setValDockerMapMut(p, u) == dockerUrlMap
setValDockerMap(p, u) == [dockerUrlMap EXCEPT ![p] = @ \cup {u}]

dockerConnPool(p, u) == pool' = pool \cup {u} /\ dockerUrlMap' = setValDockerMap(p, u)

\* getEffectContract: not in effect, expired, or a token's method called
\* by the contract's address.
getEffectContractFails(p) ==
  /\ Running /\ proc[p].pc = "invoke" /\ proc[p].tx > 0
  /\ Go(p, "failed")
  /\ UNCHANGED <<state, dockers, maps, halted, count, raced>>

\* What follows a message that ended well.
nextMessage(p) ==
  LET msg == proc[p].msg
  IN proc' = [proc EXCEPT ![p] =
                IF msg < MaxMsgs THEN [proc[p] EXCEPT !.pc = "resolve", !.msg = msg + 1]
                                 ELSE [proc[p] EXCEPT !.pc = "done"]]

\* What the docker writes through the RPC server while it runs the message.
SdbSet(p, deployed) == cur' = [cur EXCEPT ![p] = @ \cup deployed]

\* The RPC to the docker: a docker that is gone is a panic of the node.  The
\* result is an error, or what cleanDockerCache makes of its receipts.
invoke(p) ==
  LET u == proc[p].url
  IN /\ Live(u)
     /\ dockerConnPool(p, u)
     /\ held' = held \cup {<<u, p, proc[p].tx>>}
     /\ UNCHANGED <<code, kept, dockers, transCon, count, raced>>

Unreachable(p) == Running /\ proc[p].pc = "invoke" /\ ~Live(proc[p].url) /\ Panic

InvokeFails(p) ==
  /\ Running /\ proc[p].pc = "invoke" /\ proc[p].tx > 0
  /\ invoke(p) /\ Go(p, "failed") /\ UNCHANGED <<bin, cur, halted>>

Invoke(p) ==
  /\ Running /\ proc[p].pc = "invoke"
  /\ invoke(p) /\ nextMessage(p) /\ UNCHANGED <<bin, cur, halted>>

\* McDirtyToken and McDirtyContract tell every docker of the pool.
broadcast == halted' = (\E u \in pool' : ~Live(u))

\* A receipt on a token or a contract, or the start of a contract of the
\* genesis organisation.
InvokeChanges(p) ==
  /\ Running /\ proc[p].pc = "invoke"
  /\ invoke(p) /\ nextMessage(p) /\ broadcast /\ UNCHANGED <<bin, cur>>

\* The contract of the genesis organisation that deploys others; the
\* builder compiles the new contract before the call returns.
deploys(p, c) ==
  /\ Running /\ proc[p].pc = "invoke" /\ proc[p].tx > 0 /\ proc[p].org = GenesisOrg
  /\ c \notin View(p)

DeployContract(p, c) ==
  /\ deploys(p, c)
  /\ bin' = genSha2(OrgOf[c], View(p) \cup {c})
  /\ invoke(p) /\ SdbSet(p, {c}) /\ nextMessage(p) /\ broadcast

\* The signatures of the developer or of the organisation, or the hash, are
\* not those of the code: it is not built.
checkSignFails(p, c) ==
  /\ deploys(p, c)
  /\ invoke(p) /\ Go(p, "failed") /\ UNCHANGED <<bin, cur, halted>>

\* The code does not compile, or its Mine method or its name is refused
\* after it has: the directory is removed, whoever else had built it.
BuildRefused(p, c) ==
  /\ deploys(p, c)
  /\ bin' = bin \ {smcsvcFilePath(OrgOf[c], View(p) \cup {c})}
  /\ invoke(p) /\ Go(p, "failed") /\ UNCHANGED <<cur, halted>>

-----------------------------------------------------------------------------
(* The end of a transaction.                                               *)

setValToTransCon(p) ==
  IF cur[p] = {} THEN transCon
  ELSE [transCon EXCEPT ![p] = @ \cup {<<proc[p].tx, c>> : c \in cur[p]}]

\* RollbackTx knows no url of the transaction: InvokeTx records none.
RollbackTxMut(tc, tx) == tc
RollbackTx(tc, tx) == [tc EXCEPT ![Deliver] = {r \in @ : r[1] # tx}]

\* DeliverTx: the transaction is kept, or rolled back here and in the
\* state database.
EndDeliverTx ==
  LET pc == proc[Deliver].pc
  IN /\ Running /\ pc \in {"done", "failed", "unrecorded"}
     /\ transCon' = CASE pc = "done"       -> setValToTransCon(Deliver)
                      [] pc = "failed"     -> RollbackTx(setValToTransCon(Deliver), proc[Deliver].tx)
                      [] pc = "unrecorded" -> RollbackTx(transCon, proc[Deliver].tx)
     /\ kept' = IF pc = "done" THEN kept \cup cur[Deliver] ELSE kept
     /\ cur' = [cur EXCEPT ![Deliver] = {}]
     /\ proc' = [proc EXCEPT ![Deliver] = Idle]
     /\ UNCHANGED <<code, bin, dockers, pool, dockerUrlMap, held, halted, count, raced>>

EndCheckTx(p) ==
  /\ Running /\ p # Deliver /\ proc[p].pc \in {"done", "failed", "unrecorded"}
  /\ transCon' = IF proc[p].pc = "unrecorded" THEN transCon ELSE setValToTransCon(p)
  /\ Go(p, "closing")
  /\ UNCHANGED <<state, dockers, pool, dockerUrlMap, held, halted, count, raced>>

\* CommitBlock of the state database.
CommitBlock ==
  /\ Running /\ proc[Deliver].pc = "idle" /\ count.blocks < MaxBlocks /\ count.txs > 0
  /\ code' = code \cup kept
  /\ kept' = {}
  /\ Go(Deliver, "closing")
  /\ UNCHANGED <<bin, cur, dockers, maps, halted, count, raced>>

\* A block without transactions is committed without Commit of the invoker:
\* what Mine and InitOrUpdateSMC left in the dockers stays there.
commitEmptyBlock ==
  /\ Running /\ proc[Deliver].pc = "idle" /\ count.blocks < MaxBlocks /\ count.txs = 0
  /\ count' = [count EXCEPT !.blocks = @ + 1]
  /\ dockerUrlMap' = [dockerUrlMap EXCEPT ![Deliver] = {}]
  /\ held' = {IF h[2] = Deliver THEN <<h[1], None, h[3]>> ELSE h : h \in held}
  /\ UNCHANGED <<state, dockers, pool, transCon, proc, halted, raced>>

\* Rollback and Commit tell every docker the transaction has called.
CloseTrans(p) ==
  /\ Running /\ proc[p].pc = "closing"
  /\ \E u \in dockerUrlMap[p] \ proc[p].done :
       IF Live(u)
       THEN /\ held' = {h \in held : h[1] # u \/ h[2] # p}
            /\ proc' = [proc EXCEPT ![p].done = @ \cup {u}]
            /\ UNCHANGED <<state, dockers, pool, dockerUrlMap, transCon, halted, count, raced>>
       ELSE Panic

told(p) == proc[p].pc = "closing" /\ dockerUrlMap[p] \subseteq proc[p].done

Rollback(p) ==
  /\ Running /\ p # Deliver /\ told(p)
  /\ dockerUrlMap' = [dockerUrlMap EXCEPT ![p] = {}]
  /\ transCon' = [transCon EXCEPT ![p] = {}]
  /\ cur' = [cur EXCEPT ![p] = {}]
  /\ proc' = [proc EXCEPT ![p] = Idle]
  /\ UNCHANGED <<code, bin, kept, dockers, pool, held, halted, count, raced>>

\* The dockers of organisations with new contracts go (DirtyContractInvokeURL),
\* and those that had no transaction for long (CheckDockerLiveTime).
toReload == {OrgOf[r[2]] : r \in transCon[Deliver]}

CheckDockerLiveTime(expired) == {o \in expired : url[o] # None}

Commit(expired) ==
  LET gone == toReload \cup CheckDockerLiveTime(expired)
      us   == urlsOf(gone)
  IN /\ Running /\ told(Deliver)
     /\ pool' = pool \ us
     /\ dockerUrlMap' = [p \in Trans |-> IF p = Deliver THEN {} ELSE dockerUrlMap[p] \ us]
     /\ transCon' = [transCon EXCEPT ![Deliver] = {}]
     /\ url' = closed(url, gone) /\ docker' = closed(docker, gone)
     /\ held' = {h \in held : \A o \in gone : docker[o] # None => docker[o].url # h[1]}
     /\ proc' = [proc EXCEPT ![Deliver] = Idle]
     /\ count' = [count EXCEPT !.blocks = @ + 1, !.txs = 0]
     /\ raced' = raced \cup {o \in toReload : starting[o] # None}
     /\ UNCHANGED <<state, starting, halted>>

\* The node is started again: dockerlib's Reset removes the containers.
Restart ==
  /\ halted /\ halted' = FALSE
  /\ kept' = {} /\ cur' = [p \in Trans |-> {}]
  /\ docker' = [o \in Org |-> None] /\ url' = docker' /\ starting' = docker'
  /\ pool' = {} /\ held' = {}
  /\ dockerUrlMap' = [p \in Trans |-> {}] /\ transCon' = dockerUrlMap'
  /\ proc' = [p \in Trans |-> Idle]
  /\ count' = [count EXCEPT !.txs = 0]
  /\ raced' = {}
  /\ UNCHANGED <<code, bin>>

Next ==
  \/ BeginTx \/ InitOrUpdateSMC \/ Mine \/ EndDeliverTx \/ CommitBlock \/ commitEmptyBlock \/ Restart
  \/ \E expired \in {{}, Org} : Commit(expired)
  \/ \E o \in Org : RunDocker(o) \/ BuildFails(o) \/ PublishURL(o)
  \/ \E p \in Checker : CheckTx(p) \/ EndCheckTx(p) \/ Rollback(p)
  \/ \E p \in Trans :
       \/ getPayerFails(p) \/ getEffectContractFails(p) \/ Unreachable(p)
       \/ Invoke(p) \/ InvokeFails(p) \/ InvokeChanges(p) \/ CloseTrans(p)
       \/ \E o \in Org : GetContractInvokeURL(p, o)
       \/ \E c \in Contract : DeployContract(p, c) \/ checkSignFails(p, c) \/ BuildRefused(p, c)

Spec == Init /\ [][Next]_vars

-----------------------------------------------------------------------------
sentTo(u) == \E o \in Org : url[o] = u

(* A docker that calls are sent to holds nothing of a transaction that has *)
(* ended: a check leaves no trace for the checks and the blocks after it,  *)
(* though dockers are replaced while it runs and forgotten in its list.    *)
(* (The exception is an empty block: commitEmptyBlock.)                    *)
NothingLeftBehind ==
  \A h \in held : sentTo(h[1]) /\ h[2] # None =>
    \/ proc[h[2]].pc # "idle"
    \/ h[2] = Deliver /\ (h[3] = 0 \/ h[3] <= count.txs)

hasCode(o) == GetContracts(o, code) \subseteq docker[o].code

(* When the block is committed, the dockers replaced are those of the      *)
(* contracts it really deployed: none for a transaction that failed after  *)
(* its first message had deployed, and none is missing.  So between blocks *)
(* the docker that calls are sent to has every contract its organisation   *)
(* has deployed, unless a start was under way while it was replaced.       *)
ReloadsWhatWasDeployed ==
  /\ proc[Deliver].pc = "idle" /\ ~halted => {r[2] : r \in transCon[Deliver]} = kept
  /\ \A o \in Org :
       /\ url[o] # None /\ docker[o] # None
       /\ proc[Deliver].pc # "closing" /\ o \notin raced
       => hasCode(o)
=============================================================================
