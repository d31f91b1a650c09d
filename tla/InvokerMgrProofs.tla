--------------------------- MODULE InvokerMgrProofs ---------------------------
(***************************************************************************)
(* Proofs about module InvokerMgr: whatever the organisations, contracts   *)
(* and checks, and however starts, calls, ends and commits interleave, a   *)
(* docker that is called holds nothing of a transaction that is over, and  *)
(* the dockers replaced are those of the contracts that were deployed.     *)
(***************************************************************************)
EXTENDS InvokerMgr, TLAPS

-----------------------------------------------------------------------------
Procs == [pc : {"idle", "resolve", "wait", "invoke", "failed", "unrecorded", "done", "closing"},
          tx : Nat, msg : Nat, org : Org \cup {None}, url : Nat \cup {None}, done : SUBSET Nat]

Dockers == [url : Nat, code : SUBSET Contract] \cup {None}

Starts == [code : SUBSET Contract, url : Nat \cup {None}] \cup {None}

(* The types of what the proofs are about.                                 *)
Types ==
  /\ proc \in [Trans -> Procs]
  /\ docker \in [Org -> Dockers] /\ starting \in [Org -> Starts]
  /\ url \in [Org -> Nat \cup {None}]
  /\ dockerUrlMap \in [Trans -> SUBSET Nat]
  /\ transCon \in [Trans -> SUBSET (Nat \X Contract)]
  /\ cur \in [Trans -> SUBSET Contract]
  /\ code \subseteq Contract /\ kept \subseteq Contract
  /\ held \subseteq Nat \X (Trans \cup {None}) \X Nat
  /\ count \in [blocks : Nat, txs : Nat, checks : Nat, starts : Nat]

started(o) == starting[o] # None /\ starting[o].url # None

(* A url is given to one docker.  The url that calls are sent to is that   *)
(* of the running docker, and is unknown while a start is under way; the   *)
(* docker that was started runs the code it was started for.               *)
Urls ==
  /\ \A o \in Org : docker[o] # None => docker[o].url <= count.starts
  /\ \A o \in Org : started(o) => starting[o].url <= count.starts
  /\ \A o, q \in Org : docker[o] # None /\ docker[q] # None /\ docker[o].url = docker[q].url => o = q
  /\ \A o, q \in Org : started(o) /\ started(q) /\ starting[o].url = starting[q].url => o = q
  /\ \A o, q \in Org : started(o) /\ docker[q] # None /\ docker[q].url = starting[o].url =>
                         q = o /\ docker[o].code = starting[o].code
  /\ \A o \in Org : starting[o] # None => url[o] = None
  /\ \A o \in Org : url[o] # None => docker[o] # None /\ docker[o].url = url[o]

(* A url that a call is about to use, or has used, is not that of a start  *)
(* under way: calls will never again be sent to it once it is forgotten.   *)
Published(u) == u <= count.starts /\ \A o \in Org : started(o) => starting[o].url # u

Used ==
  /\ \A p \in Trans : proc[p].pc = "invoke" => proc[p].url \in Nat /\ Published(proc[p].url)
  /\ \A h \in held : Published(h[1])

(* What a docker holds of a transaction that has not ended is recorded in  *)
(* the transaction's list until the docker is told, or calls are no longer *)
(* sent to that docker.                                                    *)
Recorded ==
  /\ \A h \in held : h[2] # None =>
       /\ h[1] \notin proc[h[2]].done
       /\ sentTo(h[1]) => /\ h[1] \in dockerUrlMap[h[2]]
                          /\ h[2] # Deliver => proc[h[2]].pc # "idle"
                          /\ h[2] = Deliver => h[3] <= count.txs
  /\ \A p \in Trans : proc[p].pc # "closing" => proc[p].done = {}

(* What the block's transactions have deployed, entered by transaction.    *)
deployedBy(tc) == {r[2] : r \in tc}

Deployed ==
  /\ proc[Deliver].pc \in {"idle", "closing"} => proc[Deliver].tx = 0
  /\ proc[Deliver].tx # 0 => /\ proc[Deliver].tx = count.txs
                             /\ \A r \in transCon[Deliver] : r[1] # count.txs
  /\ proc[Deliver].tx = 0 => cur[Deliver] = {}
  /\ \A r \in transCon[Deliver] : r[1] # 0 /\ r[1] <= count.txs
  /\ IF proc[Deliver].pc = "closing" THEN kept = {} ELSE deployedBy(transCon[Deliver]) = kept

(* The docker of an organisation, and a start of it under way, have every  *)
(* contract deployed, but for those of the block being committed.          *)
Covered ==
  \A o \in Org \ raced : (proc[Deliver].pc = "closing" => o \notin toReload) =>
    /\ url[o] # None => hasCode(o)
    /\ starting[o] # None => GetContracts(o, code) \subseteq starting[o].code

(* The inductive invariant.                                                *)
IInv == Types /\ Urls /\ Used /\ Recorded /\ Deployed /\ Covered

-----------------------------------------------------------------------------
(* What one process becomes.                                               *)
LEMMA ProcSet ==
  ASSUME NEW f \in [Trans -> Procs], NEW p \in Trans, NEW r \in Procs,
         NEW g, g = [f EXCEPT ![p] = r]
  PROVE  g \in [Trans -> Procs] /\ g[p] = r /\ \A q \in Trans : q # p => g[q] = f[q]
OBVIOUS

(* A process goes on to another point, and keeps all else.                 *)
GoesTo(f, g, p, pc) ==
  /\ g \in [Trans -> Procs]
  /\ \A q \in Trans : q # p => g[q] = f[q]
  /\ g[p].pc = pc /\ g[p].tx = f[p].tx /\ g[p].url = f[p].url /\ g[p].done = f[p].done

(* An assignment to the point of a process is such a step.                 *)
LEMMA ProcGoes ==
  ASSUME NEW f \in [Trans -> Procs], NEW p \in Trans,
         NEW pc \in {"idle", "resolve", "wait", "invoke", "failed", "unrecorded", "done", "closing"},
         NEW g, g = [f EXCEPT ![p].pc = pc]
  PROVE  GoesTo(f, g, p, pc)
<1>1. f[p] \in Procs
  OBVIOUS
<1>2. PICK r : r = [f[p] EXCEPT !.pc = pc]
  OBVIOUS
<1>3. /\ r \in Procs
      /\ r.pc = pc /\ r.tx = f[p].tx /\ r.url = f[p].url /\ r.done = f[p].done
  BY <1>1, <1>2 DEF Procs
<1>4. g = [f EXCEPT ![p] = r]
  BY <1>2
<1> QED BY <1>3, <1>4, ProcSet DEF GoesTo

(* The process of a transaction that is not under way.                     *)
LEMMA IdleIsProc == Idle \in Procs /\ Idle.pc = "idle" /\ Idle.tx = 0 /\ Idle.done = {}
BY DEF Idle, Procs

-----------------------------------------------------------------------------
(* Steps in which a process of a transaction under way, or about to begin, *)
(* goes on and nothing else but the count of transactions changes.         *)
LEMMA OnlyProc ==
  ASSUME IInv, NEW p \in Trans, proc' \in [Trans -> Procs],
         \A q \in Trans : q # p => proc'[q] = proc[q],
         proc[p].pc # "closing", proc'[p].pc \notin {"closing", "idle"}, proc'[p].done = {},
         proc'[p].pc = "invoke" => proc'[p].url \in Nat /\ Published(proc'[p].url),
         UNCHANGED <<code, kept, cur, dockers, dockerUrlMap, transCon, held, raced>>,
         count' \in [blocks : Nat, txs : Nat, checks : Nat, starts : Nat],
         count'.starts = count.starts, count.txs <= count'.txs,
         Deployed'
  PROVE  IInv'
<1> USE DEF IInv, dockers
<1>1. Types'
  BY DEF Types
<1>2. Urls'
  BY DEF Urls, started
<1>3. \A u : Published(u)' = Published(u)
  BY DEF Published, started
<1>4. Used'
  BY <1>3 DEF Used
<1>5. Recorded'
  <2>1. \A u : sentTo(u)' = sentTo(u)
    BY DEF sentTo
  <2>2. ASSUME NEW h \in held, h[2] # None
        PROVE  /\ h[1] \notin proc'[h[2]].done
               /\ sentTo(h[1]) => /\ h[1] \in dockerUrlMap[h[2]]
                                  /\ h[2] # Deliver => proc'[h[2]].pc # "idle"
                                  /\ h[2] = Deliver => h[3] <= count'.txs
    <3>1. h[2] \in Trans /\ h[3] \in Nat /\ count.txs \in Nat /\ count'.txs \in Nat
      BY <2>2 DEF Types
    <3> QED BY <2>2, <3>1 DEF Recorded
  <2>3. \A q \in Trans : proc'[q].pc # "closing" => proc'[q].done = {}
    BY DEF Recorded
  <2> QED BY <2>1, <2>2, <2>3 DEF Recorded
<1>6. Covered'
  <2>1. proc'[Deliver].pc = "closing" <=> proc[Deliver].pc = "closing"
    BY DEF Trans
  <2> QED BY <2>1 DEF Covered, hasCode, toReload
<1> QED BY <1>1, <1>2, <1>4, <1>5, <1>6

(* ... and the deployments, when the transaction of the block goes on.     *)
LEMMA DeployedGoes ==
  ASSUME IInv, NEW p \in Trans, NEW pc, pc \notin {"idle", "closing"},
         proc[p].pc \notin {"idle", "closing"}, GoesTo(proc, proc', p, pc),
         UNCHANGED <<kept, cur, transCon>>, count'.txs = count.txs
  PROVE  Deployed'
<1>1. CASE p = Deliver
  <2>1. /\ proc'[Deliver].tx = proc[Deliver].tx
        /\ proc'[Deliver].pc \notin {"idle", "closing"} /\ proc[Deliver].pc \notin {"idle", "closing"}
    BY <1>1 DEF GoesTo
  <2> QED BY <2>1 DEF IInv, Deployed, deployedBy
<1>2. CASE p # Deliver
  <2>1. proc'[Deliver] = proc[Deliver]
    BY <1>2 DEF GoesTo, Trans
  <2> QED BY <2>1 DEF IInv, Deployed, deployedBy
<1> QED BY <1>1, <1>2

(* A transaction under way goes on and nothing else changes.               *)
LEMMA GoesIInv ==
  ASSUME IInv, NEW p \in Trans, NEW pc \in {"resolve", "wait", "failed", "unrecorded", "done"},
         proc[p].pc \notin {"idle", "closing"}, GoesTo(proc, proc', p, pc),
         UNCHANGED <<code, kept, cur, dockers, dockerUrlMap, transCon, held, raced, count>>
  PROVE  IInv'
<1>1. Deployed'
  BY DeployedGoes
<1>2. proc'[p].done = {} /\ proc'[p].pc = pc
  BY DEF GoesTo, IInv, Recorded
<1>3. count' \in [blocks : Nat, txs : Nat, checks : Nat, starts : Nat] /\ count.txs \in Nat
  BY DEF IInv, Types
<1> QED BY <1>1, <1>2, <1>3, OnlyProc DEF GoesTo

-----------------------------------------------------------------------------
(* The start of a transaction.                                             *)
LEMMA BeginTxIInv == ASSUME IInv, BeginTx PROVE IInv'
<1>1. /\ count \in [blocks : Nat, txs : Nat, checks : Nat, starts : Nat]
      /\ proc \in [Trans -> Procs] /\ Deliver \in Trans
      /\ transCon[Deliver] \subseteq Nat \X Contract
  BY DEF IInv, Types, Trans
<1>2. PICK n \in Nat : n = count.txs + 1
  BY <1>1
<1>3. /\ count' = [count EXCEPT !.txs = n] /\ proc[Deliver].pc = "idle"
      /\ UNCHANGED <<state, dockers, maps, raced>>
  BY <1>1, <1>2 DEF BeginTx
<1>4. PICK r : r = [Idle EXCEPT !.pc = "resolve", !.tx = n, !.msg = 1]
  OBVIOUS
<1>5. r \in Procs /\ r.pc = "resolve" /\ r.tx = n /\ r.done = {}
  BY <1>4 DEF Idle, Procs
<1>6. proc' = [proc EXCEPT ![Deliver] = r]
  BY <1>2, <1>4 DEF BeginTx
<1>7. /\ proc' \in [Trans -> Procs] /\ proc'[Deliver] = r
      /\ \A q \in Trans : q # Deliver => proc'[q] = proc[q]
  BY <1>1, <1>5, <1>6, ProcSet
<1>8. /\ count' \in [blocks : Nat, txs : Nat, checks : Nat, starts : Nat]
      /\ count'.starts = count.starts /\ count'.txs = n /\ count.txs <= count'.txs
  BY <1>1, <1>2, <1>3
<1>9. Deployed'
  <2>1. \A t \in transCon[Deliver] : t[1] # 0 /\ t[1] <= n /\ t[1] # n
    <3>1. \A t \in transCon[Deliver] : t[1] \in Nat /\ t[1] # 0 /\ t[1] <= count.txs
      BY <1>1 DEF IInv, Deployed
    <3> QED BY <1>1, <1>2, <3>1
  <2>2. n # 0
    BY <1>1, <1>2
  <2> QED BY <1>3, <1>5, <1>7, <1>8, <2>1, <2>2 DEF IInv, Deployed, deployedBy, state, maps
<1> QED BY <1>1, <1>3, <1>5, <1>7, <1>8, <1>9, OnlyProc DEF state, maps

(* BeginBlock calls a contract for the block itself, which is no           *)
(* transaction's.                                                          *)
LEMMA callOfBlockIInv == ASSUME IInv, callOfBlock PROVE IInv'
<1>1. /\ count \in [blocks : Nat, txs : Nat, checks : Nat, starts : Nat]
      /\ proc \in [Trans -> Procs] /\ Deliver \in Trans
  BY DEF IInv, Types, Trans
<1>2. /\ proc[Deliver].pc = "idle"
      /\ UNCHANGED <<state, dockers, maps, raced, count>>
  BY DEF callOfBlock
<1>3. PICK r : r = [Idle EXCEPT !.pc = "resolve", !.msg = MaxMsgs]
  OBVIOUS
<1>4. r \in Procs /\ r.pc = "resolve" /\ r.tx = 0 /\ r.done = {}
  BY <1>3, InvokerMgrAssumption DEF Idle, Procs
<1>5. proc' = [proc EXCEPT ![Deliver] = r]
  BY <1>3 DEF callOfBlock
<1>6. /\ proc' \in [Trans -> Procs] /\ proc'[Deliver] = r
      /\ \A q \in Trans : q # Deliver => proc'[q] = proc[q]
  BY <1>1, <1>4, <1>5, ProcSet
<1>7. Deployed'
  BY <1>2, <1>4, <1>6 DEF IInv, Deployed, deployedBy, state, maps
<1> QED BY <1>1, <1>2, <1>4, <1>6, <1>7, OnlyProc DEF state, maps

(* A check begins: its call is not the block's.                            *)
LEMMA CheckTxIInv == ASSUME IInv, NEW p \in Checker, CheckTx(p) PROVE IInv'
<1>1. /\ count \in [blocks : Nat, txs : Nat, checks : Nat, starts : Nat]
      /\ proc \in [Trans -> Procs] /\ p \in Trans /\ Deliver \in Trans /\ p # Deliver
  BY InvokerMgrAssumption DEF IInv, Types, Trans
<1>2. /\ count' = [count EXCEPT !.checks = count.checks + 1] /\ proc[p].pc = "idle"
      /\ UNCHANGED <<state, dockers, maps, raced>>
  BY DEF CheckTx
<1>3. PICK r : r = [Idle EXCEPT !.pc = "resolve", !.tx = 1, !.msg = 1]
  OBVIOUS
<1>4. r \in Procs /\ r.pc = "resolve" /\ r.done = {}
  BY <1>3 DEF Idle, Procs
<1>5. proc' = [proc EXCEPT ![p] = r]
  BY <1>3 DEF CheckTx
<1>6. /\ proc' \in [Trans -> Procs] /\ proc'[p] = r
      /\ \A q \in Trans : q # p => proc'[q] = proc[q]
  BY <1>1, <1>4, <1>5, ProcSet
<1>7. /\ count' \in [blocks : Nat, txs : Nat, checks : Nat, starts : Nat]
      /\ count'.starts = count.starts /\ count'.txs = count.txs
  BY <1>1, <1>2
<1>8. Deployed'
  BY <1>1, <1>2, <1>6, <1>7 DEF IInv, Deployed, deployedBy, state, maps
<1>9. count.txs <= count'.txs
  BY <1>1, <1>7
<1> QED BY <1>1, <1>2, <1>4, <1>6, <1>7, <1>8, <1>9, OnlyProc DEF state, maps

(* A transaction that fails before its call.                               *)
LEMMA FailsIInv ==
  ASSUME IInv, NEW p \in Trans, getPayerFails(p) \/ getEffectContractFails(p)
  PROVE  IInv'
<1>1. PICK pc \in {"unrecorded", "failed"} :
        /\ proc' = [proc EXCEPT ![p].pc = pc] /\ proc[p].pc \in {"resolve", "invoke"}
        /\ UNCHANGED <<state, dockers, maps, raced, count>>
  BY DEF getPayerFails, getEffectContractFails, Go
<1>2. proc \in [Trans -> Procs]
  BY DEF IInv, Types
<1>3. GoesTo(proc, proc', p, pc)
  BY <1>1, <1>2, ProcGoes
<1> QED BY <1>1, <1>3, GoesIInv DEF state, maps

(* A panic stops the process and changes nothing.                          *)
LEMMA PanicIInv == ASSUME IInv, Panic PROVE IInv'
BY DEF Panic, IInv, Types, Urls, started, Used, Published, Recorded, sentTo, Deployed,
       deployedBy, Covered, hasCode, toReload, state, dockers, maps

-----------------------------------------------------------------------------
(* The url that calls are sent to is not that of a start under way.        *)
LEMMA UrlPublished ==
  ASSUME IInv, NEW o \in Org, url[o] # None
  PROVE  url[o] \in Nat /\ Published(url[o])
<1>1. url[o] \in Nat
  BY DEF IInv, Types
<1>2. docker[o] # None /\ docker[o].url = url[o] /\ starting[o] = None
  BY DEF IInv, Urls
<1> QED BY <1>1, <1>2 DEF IInv, Urls, Published, started

(* A docker is started for the contracts of its organisation, deployed or  *)
(* being deployed.                                                         *)
LEMMA StartedFor ==
  ASSUME IInv, NEW p \in Trans, NEW o \in Org
  PROVE  /\ expandOldCode(o, View(p)) \subseteq Contract
         /\ GetContracts(o, code) \subseteq expandOldCode(o, View(p))
<1>1. code \subseteq View(p) /\ View(p) \subseteq Contract
  BY DEF IInv, Types, View
<1> QED BY <1>1 DEF expandOldCode, GetContracts

(* The url of the docker is known and its binary is there.                 *)
LEMMA UrlFoundIInv ==
  ASSUME IInv, NEW p \in Trans, NEW o \in Org, url[o] # None, proc[p].pc = "resolve",
         NEW r \in Procs, r.pc = "invoke", r.url = url[o], r.done = {}, r.tx = proc[p].tx,
         proc' = [proc EXCEPT ![p] = r],
         UNCHANGED <<state, dockers, maps, raced, count>>
  PROVE  IInv'
<1>1. /\ proc \in [Trans -> Procs] /\ proc[p] \in Procs /\ proc[p].done = {}
      /\ count \in [blocks : Nat, txs : Nat, checks : Nat, starts : Nat] /\ count.txs \in Nat
  BY DEF IInv, Types, Recorded
<1>2. url[o] \in Nat /\ Published(url[o])
  BY UrlPublished
<1>6. /\ proc' \in [Trans -> Procs] /\ proc'[p] = r
      /\ \A q \in Trans : q # p => proc'[q] = proc[q]
  BY <1>1, ProcSet
<1>8. Deployed'
  <2>1. CASE p = Deliver
    BY <1>6, <2>1 DEF IInv, Deployed, deployedBy, state, maps
  <2>2. CASE p # Deliver
    BY <1>6, <2>2 DEF IInv, Deployed, deployedBy, state, maps, Trans
  <2> QED BY <2>1, <2>2
<1> QED BY <1>1, <1>2, <1>6, <1>8, OnlyProc DEF state, maps

(* It is not, or the code has changed since: the docker is started anew    *)
(* and its url forgotten.                                                  *)
LEMMA UrlMissingIInv ==
  ASSUME IInv, NEW p \in Trans, NEW o \in Org, proc[p].pc = "resolve",
         NEW r \in Procs, r.pc = "wait", r.done = {}, r.tx = proc[p].tx,
         proc' = [proc EXCEPT ![p] = r],
         url' = [url EXCEPT ![o] = None],
         dockerUrlMap' = [q \in Trans |-> dockerUrlMap[q] \ urlsOf({o})],
         starting' = [starting EXCEPT ![o] =
            IF starting[o] = None THEN [code |-> expandOldCode(o, View(p)), url |-> None]
                                  ELSE starting[o]],
         UNCHANGED <<state, docker, transCon, held, count, raced>>
  PROVE  IInv'
<1> USE DEF IInv
<1>1. /\ proc \in [Trans -> Procs] /\ proc[p] \in Procs /\ proc[p].done = {}
      /\ Deliver \in Trans
  BY DEF Types, Recorded, Trans
<1>5. /\ proc' \in [Trans -> Procs] /\ proc'[p] = r
      /\ \A q \in Trans : q # p => proc'[q] = proc[q]
  BY <1>1, ProcSet
<1>6. PICK new : new = [code |-> expandOldCode(o, View(p)), url |-> None]
  OBVIOUS
<1>7. /\ new \in Starts /\ new.url = None
      /\ GetContracts(o, code) \subseteq new.code
  BY <1>6, StartedFor DEF Starts
<1>8. /\ \A q \in Org : q # o => starting'[q] = starting[q] /\ url'[q] = url[q]
      /\ starting'[o] = IF starting[o] = None THEN new ELSE starting[o]
      /\ url'[o] = None
  BY <1>6 DEF Types
<1>9. Types'
  <2>1. starting' \in [Org -> Starts] /\ url' \in [Org -> Nat \cup {None}]
    BY <1>6, <1>7 DEF Types
  <2>2. dockerUrlMap' \in [Trans -> SUBSET Nat]
    BY DEF Types
  <2> QED BY <1>5, <2>1, <2>2 DEF Types, state
<1>10. \A q \in Org : started(q)' => started(q) /\ starting'[q] = starting[q]
  BY <1>7, <1>8 DEF started
<1>11. Urls'
  BY <1>8, <1>10 DEF Urls
<1>12. \A u : Published(u) => Published(u)'
  BY <1>10 DEF Published
<1>13. Used'
  BY <1>5, <1>12 DEF Used
<1>14. Recorded'
  <2>1. \A u \in Nat : sentTo(u)' => sentTo(u)
    BY <1>8, InvokerMgrAssumption DEF sentTo, Types, Urls
  <2>2. ASSUME NEW u \in Nat, sentTo(u)' PROVE u \notin urlsOf({o})
    <3>1. PICK q \in Org : url'[q] = u
      BY <2>2 DEF sentTo
    <3>2. q # o /\ url[q] = u /\ url[q] # None
      BY <1>8, <2>2, <3>1, InvokerMgrAssumption
    <3>3. ASSUME u \in urlsOf({o}) PROVE FALSE
      <4>1. url[o] = u /\ url[o] # None
        BY <3>3 DEF urlsOf
      <4> QED BY <3>2, <4>1 DEF Urls
    <3> QED BY <3>3
  <2>3. ASSUME NEW h \in held, h[2] # None
        PROVE  /\ h[1] \notin proc'[h[2]].done
               /\ sentTo(h[1])' => /\ h[1] \in dockerUrlMap'[h[2]]
                                   /\ h[2] # Deliver => proc'[h[2]].pc # "idle"
                                   /\ h[2] = Deliver => h[3] <= count'.txs
    <3>1. h[1] \in Nat /\ h[2] \in Trans
      BY <2>3 DEF Types
    <3>2. h[1] \notin proc'[h[2]].done
      BY <1>5, <2>3, <3>1 DEF Recorded
    <3>3. ASSUME sentTo(h[1])'
          PROVE  /\ h[1] \in dockerUrlMap'[h[2]]
                 /\ h[2] # Deliver => proc'[h[2]].pc # "idle"
                 /\ h[2] = Deliver => h[3] <= count'.txs
      <4>1. sentTo(h[1]) /\ h[1] \notin urlsOf({o})
        BY <2>1, <2>2, <3>1, <3>3
      <4> QED BY <1>5, <2>3, <3>1, <4>1 DEF Recorded
    <3> QED BY <3>2, <3>3
  <2>4. \A q \in Trans : proc'[q].pc # "closing" => proc'[q].done = {}
    BY <1>5 DEF Recorded
  <2> QED BY <2>3, <2>4 DEF Recorded
<1>15. Deployed'
  <2>1. CASE p = Deliver
    BY <1>5, <2>1 DEF Deployed, deployedBy, state
  <2>2. CASE p # Deliver
    BY <1>1, <1>5, <2>2 DEF Deployed, deployedBy, state
  <2> QED BY <2>1, <2>2
<1>16. Covered'
  <2>1. proc'[Deliver].pc = "closing" <=> proc[Deliver].pc = "closing"
    BY <1>1, <1>5
  <2> QED BY <1>7, <1>8, <2>1 DEF Covered, hasCode, toReload, state
<1> QED BY <1>9, <1>11, <1>13, <1>14, <1>15, <1>16

(* The url is looked up: it is found, or the docker is started unless it   *)
(* is being started.                                                       *)
LEMMA GetContractInvokeURLIInv ==
  ASSUME IInv, NEW p \in Trans, NEW o \in Org, GetContractInvokeURL(p, o)
  PROVE  IInv'
<1>1. proc \in [Trans -> Procs] /\ proc[p] \in Procs /\ url[o] \in Nat \cup {None}
  BY DEF IInv, Types
<1>2. proc[p].pc = "resolve" /\ UNCHANGED <<state, count, raced>>
  BY DEF GetContractInvokeURL
<1>3. proc[p].done = {}
  BY <1>2 DEF IInv, Recorded
<1>4. PICK found : found = [proc[p] EXCEPT !.pc = "invoke", !.org = o, !.url = url[o]]
  OBVIOUS
<1>5. PICK missing : missing = [proc[p] EXCEPT !.pc = "wait", !.org = o]
  OBVIOUS
<1>6. /\ found \in Procs /\ found.pc = "invoke" /\ found.url = url[o]
      /\ found.done = proc[p].done /\ found.tx = proc[p].tx
  BY <1>1, <1>4 DEF Procs
<1>7. /\ missing \in Procs /\ missing.pc = "wait"
      /\ missing.done = proc[p].done /\ missing.tx = proc[p].tx
  BY <1>1, <1>5 DEF Procs
<1>8. \/ /\ url[o] # None /\ UNCHANGED <<dockers, maps>>
         /\ proc' = [proc EXCEPT ![p] = found]
      \/ /\ proc' = [proc EXCEPT ![p] = missing]
         /\ url' = [url EXCEPT ![o] = None]
         /\ dockerUrlMap' = [q \in Trans |-> dockerUrlMap[q] \ urlsOf({o})]
         /\ starting' = [starting EXCEPT ![o] =
               IF starting[o] = None THEN [code |-> expandOldCode(o, View(p)), url |-> None]
                                     ELSE starting[o]]
         /\ UNCHANGED <<docker, transCon, held>>
  BY <1>4, <1>5 DEF GetContractInvokeURL, DirtyURL
<1>9. CASE /\ url[o] # None /\ UNCHANGED <<dockers, maps>>
           /\ proc' = [proc EXCEPT ![p] = found]
  BY <1>2, <1>3, <1>6, <1>9, UrlFoundIInv
<1> QED BY <1>2, <1>3, <1>7, <1>8, <1>9, UrlMissingIInv

-----------------------------------------------------------------------------
(* The goroutine that starts a docker.                                     *)
LEMMA RunDockerIInv == ASSUME IInv, NEW o \in Org, RunDocker(o) PROVE IInv'
<1> USE DEF IInv
<1>1. /\ starting[o] # None /\ starting[o].url = None /\ url[o] = None
      /\ count \in [blocks : Nat, txs : Nat, checks : Nat, starts : Nat]
      /\ starting[o] \in [code : SUBSET Contract, url : Nat \cup {None}]
  BY DEF RunDocker, Urls, Types, Starts
<1>2. PICK u \in Nat : u = count.starts + 1
  BY <1>1
<1>3. PICK new : new = [url |-> u, code |-> starting[o].code]
  OBVIOUS
<1>4. new \in Dockers /\ new.url = u /\ new.code = starting[o].code
  BY <1>1, <1>3 DEF Dockers
<1>5. PICK st : st = [starting[o] EXCEPT !.url = u]
  OBVIOUS
<1>6. st \in Starts /\ st.url = u /\ st.code = starting[o].code
  BY <1>1, <1>5 DEF Starts
<1>7. urlsOf({o}) = {}
  BY <1>1 DEF urlsOf
<1>8. /\ dockerUrlMap' = [q \in Trans |-> dockerUrlMap[q] \ urlsOf({o})]
      /\ docker' = [docker EXCEPT ![o] = new] /\ starting' = [starting EXCEPT ![o] = st]
      /\ count' = [count EXCEPT !.starts = u]
      /\ held' \subseteq held
      /\ UNCHANGED <<code, kept, cur, url, transCon, proc, raced>>
  BY <1>2, <1>3, <1>5 DEF RunDocker, DirtyURL
<1>9. /\ docker' \in [Org -> Dockers] /\ docker'[o] = new
      /\ \A q \in Org : q # o => docker'[q] = docker[q]
      /\ starting' \in [Org -> Starts] /\ starting'[o] = st
      /\ \A q \in Org : q # o => starting'[q] = starting[q]
      /\ dockerUrlMap' = dockerUrlMap
  BY <1>4, <1>6, <1>7, <1>8 DEF Types
<1>10. /\ count' \in [blocks : Nat, txs : Nat, checks : Nat, starts : Nat]
       /\ count'.starts = u /\ count'.txs = count.txs
  BY <1>1, <1>8
<1>11. Types'
  BY <1>8, <1>9, <1>10 DEF Types
<1>12. \A n \in Nat : n <= count.starts => n <= u /\ n # u
  BY <1>1, <1>2
<1>13. /\ \A q \in Org : docker[q] # None => docker[q].url \in Nat
       /\ \A q \in Org : started(q) => starting[q].url \in Nat
  BY DEF Types, Dockers, Starts, started
<1>14. \A q \in Org : q # o => (started(q)' <=> started(q))
  BY <1>9 DEF started
<1>15. Urls'
  BY <1>1, <1>2, <1>4, <1>6, <1>8, <1>9, <1>10, <1>12, <1>13, <1>14 DEF Urls, started
<1>16. \A n \in Nat : Published(n) => Published(n)'
  BY <1>6, <1>9, <1>10, <1>12, <1>14 DEF Published
<1>17. Used'
  <2>1. \A h \in held : h[1] \in Nat
    BY DEF Types
  <2> QED BY <1>8, <1>16, <2>1 DEF Used
<1>18. Recorded'
  BY <1>8, <1>9, <1>10 DEF Recorded, sentTo
<1>19. Deployed'
  BY <1>8, <1>10 DEF Deployed
<1>20. Covered'
  BY <1>1, <1>6, <1>8, <1>9 DEF Covered, hasCode, toReload
<1> QED BY <1>11, <1>15, <1>17, <1>18, <1>19, <1>20

(* A start ends: those who waited for it go on, with the url or an error.  *)
LEMMA StartEnds ==
  ASSUME IInv, NEW o \in Org, starting' = [starting EXCEPT ![o] = None],
         proc' \in [Trans -> Procs],
         \A p \in Trans : proc'[p] = proc[p] \/
           /\ proc[p].pc = "wait" /\ proc'[p].pc \in {"failed", "invoke"}
           /\ proc'[p].tx = proc[p].tx /\ proc'[p].done = proc[p].done
           /\ proc'[p].pc = "invoke" => started(o) /\ proc'[p].url = starting[o].url,
         url' = url \/ (started(o) /\ url' = [url EXCEPT ![o] = starting[o].url] /\ Live(starting[o].url)),
         UNCHANGED <<code, kept, cur, docker, dockerUrlMap, transCon, held, raced, count>>
  PROVE  IInv'
<1> USE DEF IInv
<1>1. /\ starting'[o] = None /\ \A q \in Org : q # o => starting'[q] = starting[q]
      /\ starting' \in [Org -> Starts]
  BY DEF Types, Starts
<1>2. \A q \in Org : started(q)' => q # o /\ started(q) /\ starting'[q] = starting[q]
  BY <1>1 DEF started
<1>3. started(o) => starting[o].url \in Nat /\ starting[o].url <= count.starts
  BY DEF Types, Starts, started, Urls
<1>4. \/ url' = url
      \/ /\ started(o) /\ url'[o] = starting[o].url
         /\ docker[o] # None /\ docker[o].url = starting[o].url
         /\ docker[o].code = starting[o].code
         /\ \A q \in Org : q # o => url'[q] = url[q]
  BY DEF Types, Live, Urls
<1>5. url' \in [Org -> Nat \cup {None}]
  BY <1>3 DEF Types
<1>6. Types'
  BY <1>1, <1>5 DEF Types
<1>7. Urls'
  BY <1>1, <1>2, <1>4 DEF Urls
<1>8. \A u : Published(u) => Published(u)'
  BY <1>2 DEF Published
<1>9. \A u : started(o) /\ u = starting[o].url => Published(u)'
  BY <1>2, <1>3 DEF Published, Urls
<1>10. Used'
  BY <1>3, <1>8, <1>9 DEF Used
<1>11. Recorded'
  <2>1. ASSUME NEW h \in held, sentTo(h[1])' PROVE sentTo(h[1])
    <3>1. CASE url' = url
      BY <2>1, <3>1 DEF sentTo
    <3>2. CASE url' # url
      <4>1. h[1] # starting[o].url
        BY <1>4, <3>2 DEF Used, Published
      <4> QED BY <1>4, <2>1, <3>2, <4>1 DEF sentTo
    <3> QED BY <3>1, <3>2
  <2>2. \A p \in Trans : /\ proc'[p].done = proc[p].done
                         /\ (proc'[p].pc = "idle" => proc[p].pc = "idle")
                         /\ (proc[p].pc = "closing" => proc'[p].pc = "closing")
    OBVIOUS
  <2>3. \A h \in held : h[2] # None => h[2] \in Trans
    BY DEF Types
  <2>4. ASSUME NEW h \in held, h[2] # None
        PROVE  /\ h[1] \notin proc'[h[2]].done
               /\ sentTo(h[1])' => /\ h[1] \in dockerUrlMap[h[2]]
                                   /\ h[2] # Deliver => proc'[h[2]].pc # "idle"
                                   /\ h[2] = Deliver => h[3] <= count.txs
    BY <2>1, <2>2, <2>3, <2>4 DEF Recorded
  <2>5. \A p \in Trans : proc'[p].pc # "closing" => proc'[p].done = {}
    BY <2>2 DEF Recorded
  <2> QED BY <2>4, <2>5 DEF Recorded
<1>12. /\ proc'[Deliver].tx = proc[Deliver].tx
       /\ proc'[Deliver].pc \in {"idle", "closing"} => proc[Deliver].pc = proc'[Deliver].pc
       /\ proc[Deliver].pc = "closing" => proc'[Deliver].pc = "closing"
  BY DEF Trans
<1>13. Deployed'
  BY <1>12 DEF Deployed, deployedBy
<1>14. Covered'
  <2>1. \A q \in Org \ raced : (proc'[Deliver].pc = "closing" => q \notin toReload) =>
          /\ url[q] # None => hasCode(q)
          /\ starting[q] # None => GetContracts(q, code) \subseteq starting[q].code
    BY <1>12 DEF Covered
  <2>2. toReload' = toReload /\ \A q : hasCode(q)' = hasCode(q)
    BY DEF toReload, hasCode
  <2>3. ASSUME NEW q \in Org \ raced, proc'[Deliver].pc = "closing" => q \notin toReload
        PROVE  /\ url'[q] # None => hasCode(q)
               /\ starting'[q] # None => GetContracts(q, code) \subseteq starting'[q].code
    BY <1>1, <1>4, <2>1, <2>3 DEF hasCode, started
  <2> QED BY <2>2, <2>3 DEF Covered
<1> QED BY <1>6, <1>7, <1>10, <1>11, <1>13, <1>14

(* The start fails and so do those that wait for it.                       *)
LEMMA BuildFailsIInv == ASSUME IInv, NEW o \in Org, BuildFails(o) PROVE IInv'
<1>1. proc \in [Trans -> Procs]
  BY DEF IInv, Types
<1>2. /\ starting' = [starting EXCEPT ![o] = None]
      /\ proc' = [p \in Trans |-> IF p \in waiting(o) THEN [proc[p] EXCEPT !.pc = "failed"]
                                                       ELSE proc[p]]
      /\ UNCHANGED <<state, docker, url, maps, count, raced>>
  BY DEF BuildFails
<1>3. \A p \in Trans : /\ proc'[p] \in Procs
                       /\ proc'[p] = proc[p] \/
                            /\ proc[p].pc = "wait" /\ proc'[p].pc = "failed"
                            /\ proc'[p].tx = proc[p].tx /\ proc'[p].done = proc[p].done
  BY <1>1, <1>2 DEF waiting, Procs
<1>4. proc' \in [Trans -> Procs]
  BY <1>2, <1>3
<1> QED BY <1>2, <1>3, <1>4, StartEnds DEF state, maps

(* The start ends: the url is published to those that wait for it and to   *)
(* later calls.                                                            *)
LEMMA PublishURLIInv == ASSUME IInv, NEW o \in Org, PublishURL(o) PROVE IInv'
<1>1. CASE ~Live(starting[o].url)
  BY <1>1, PanicIInv DEF PublishURL
<1>2. CASE Live(starting[o].url)
  <2>1. proc \in [Trans -> Procs] /\ started(o) /\ starting[o].url \in Nat
    BY DEF PublishURL, IInv, Types, Starts, started
  <2>2. /\ starting' = [starting EXCEPT ![o] = None]
        /\ url' = [url EXCEPT ![o] = starting[o].url]
        /\ proc' = [p \in Trans |-> IF p \in waiting(o)
              THEN [proc[p] EXCEPT !.pc = "invoke", !.url = starting[o].url] ELSE proc[p]]
        /\ UNCHANGED <<state, docker, maps, count, raced>>
    BY <1>2 DEF PublishURL
  <2>3. ASSUME NEW p \in Trans
        PROVE  /\ proc'[p] \in Procs
               /\ proc'[p] = proc[p] \/
                    /\ proc[p].pc = "wait" /\ proc'[p].pc = "invoke"
                    /\ proc'[p].tx = proc[p].tx /\ proc'[p].done = proc[p].done
                    /\ proc'[p].url = starting[o].url
    <3>1. PICK r : r = [proc[p] EXCEPT !.pc = "invoke", !.url = starting[o].url]
      OBVIOUS
    <3>2. /\ r \in Procs /\ r.pc = "invoke" /\ r.url = starting[o].url
          /\ r.tx = proc[p].tx /\ r.done = proc[p].done
      BY <2>1, <3>1 DEF Procs
    <3>3. proc'[p] = IF p \in waiting(o) THEN r ELSE proc[p]
      BY <2>2, <3>1
    <3> QED BY <2>1, <3>2, <3>3 DEF waiting
  <2>4. proc' \in [Trans -> Procs]
    BY <2>2, <2>3
  <2> QED BY <1>2, <2>1, <2>2, <2>3, <2>4, StartEnds DEF state, maps
<1> QED BY <1>1, <1>2

-----------------------------------------------------------------------------
(* A message: its url is recorded, the docker holds what it writes, and a  *)
(* transaction may deploy.                                                 *)
LEMMA InvokedIInv ==
  ASSUME IInv, NEW p \in Trans, proc[p].pc = "invoke", invoke(p),
         proc' \in [Trans -> Procs], \A q \in Trans : q # p => proc'[q] = proc[q],
         proc'[p].pc \in {"resolve", "failed", "done"},
         proc'[p].tx = proc[p].tx, proc'[p].done = proc[p].done,
         cur' \in [Trans -> SUBSET Contract], \A q \in Trans : q # p => cur'[q] = cur[q],
         proc[p].tx = 0 => cur' = cur
  PROVE  IInv'
<1> DEFINE u == proc[p].url
           new == <<u, p, proc[p].tx>>
<1> USE DEF IInv
<1>1. /\ u \in Nat /\ Published(u) /\ proc[p].tx \in Nat /\ proc[p].done = {}
      /\ Deliver \in Trans /\ count.txs \in Nat
  BY DEF Used, Types, Procs, Recorded, Trans
<1>2. /\ dockerUrlMap' = [dockerUrlMap EXCEPT ![p] = dockerUrlMap[p] \cup {u}]
      /\ held' = held \cup {new}
      /\ UNCHANGED <<code, kept, docker, url, starting, transCon, count, raced>>
  BY DEF invoke, dockerConnPool, setValDockerMap, dockers
<1>3. /\ dockerUrlMap' \in [Trans -> SUBSET Nat]
      /\ u \in dockerUrlMap'[p]
      /\ \A q \in Trans : dockerUrlMap[q] \subseteq dockerUrlMap'[q]
  BY <1>1, <1>2 DEF Types
<1>4. new \in Nat \X (Trans \cup {None}) \X Nat
  BY <1>1
<1>5. Types'
  BY <1>2, <1>3, <1>4 DEF Types
<1>6. Urls'
  BY <1>2 DEF Urls, started
<1>7. \A n : Published(n)' = Published(n)
  BY <1>2 DEF Published, started
<1>8. Used'
  BY <1>1, <1>2, <1>7 DEF Used
<1>9. Recorded'
  <2>1. \A n : sentTo(n)' = sentTo(n)
    BY <1>2 DEF sentTo
  <2>2. ASSUME NEW h \in held, h[2] # None
        PROVE  /\ h[1] \notin proc'[h[2]].done
               /\ sentTo(h[1]) => /\ h[1] \in dockerUrlMap'[h[2]]
                                  /\ h[2] # Deliver => proc'[h[2]].pc # "idle"
                                  /\ h[2] = Deliver => h[3] <= count.txs
    <3>1. h[2] \in Trans
      BY <2>2 DEF Types
    <3> QED BY <1>1, <1>3, <2>2, <3>1 DEF Recorded
  <2>3. /\ new[1] \notin proc'[new[2]].done
        /\ new[1] \in dockerUrlMap'[new[2]]
        /\ new[2] # Deliver => proc'[new[2]].pc # "idle"
        /\ new[2] = Deliver => new[3] <= count.txs
    BY <1>1, <1>3 DEF Deployed
  <2>4. \A q \in Trans : proc'[q].pc # "closing" => proc'[q].done = {}
    BY <1>1 DEF Recorded
  <2> HIDE DEF new
  <2> QED BY <1>2, <2>1, <2>2, <2>3, <2>4 DEF Recorded
<1>10. Deployed'
  <2>1. CASE p = Deliver
    BY <1>2, <2>1 DEF Deployed, deployedBy
  <2>2. CASE p # Deliver
    BY <1>1, <1>2, <2>2 DEF Deployed, deployedBy
  <2> QED BY <2>1, <2>2
<1>11. Covered'
  <2>1. proc'[Deliver].pc = "closing" <=> proc[Deliver].pc = "closing"
    BY <1>1
  <2> QED BY <1>2, <2>1 DEF Covered, hasCode, toReload
<1> QED BY <1>5, <1>6, <1>8, <1>9, <1>10, <1>11

(* The message was the last, another one follows, or it failed.            *)
LEMMA nextMessageGoes ==
  ASSUME IInv, NEW p \in Trans, nextMessage(p) \/ Go(p, "failed")
  PROVE  /\ proc' \in [Trans -> Procs] /\ \A q \in Trans : q # p => proc'[q] = proc[q]
         /\ proc'[p].pc \in {"resolve", "failed", "done"}
         /\ proc'[p].tx = proc[p].tx /\ proc'[p].done = proc[p].done
<1>1. proc \in [Trans -> Procs] /\ proc[p] \in Procs /\ proc[p].msg \in Nat
  BY DEF IInv, Types, Procs
<1>2. PICK next : next = [proc[p] EXCEPT !.pc = "resolve", !.msg = proc[p].msg + 1]
  OBVIOUS
<1>3. PICK last : last = [proc[p] EXCEPT !.pc = "done"]
  OBVIOUS
<1>4. PICK failed : failed = [proc[p] EXCEPT !.pc = "failed"]
  OBVIOUS
<1>5. PICK n \in Nat : n = proc[p].msg + 1
  BY <1>1
<1>6. next = [proc[p] EXCEPT !.pc = "resolve", !.msg = n]
  BY <1>2, <1>5
<1>7. /\ next \in Procs /\ next.pc = "resolve"
      /\ next.tx = proc[p].tx /\ next.done = proc[p].done
  BY <1>1, <1>5, <1>6 DEF Procs
<1>8. /\ last \in Procs /\ last.pc = "done" /\ last.tx = proc[p].tx /\ last.done = proc[p].done
  BY <1>1, <1>3 DEF Procs
<1>9. /\ failed \in Procs /\ failed.pc = "failed"
      /\ failed.tx = proc[p].tx /\ failed.done = proc[p].done
  BY <1>1, <1>4 DEF Procs
<1>10. PICK r \in {next, last, failed} : proc' = [proc EXCEPT ![p] = r]
  <2>1. CASE nextMessage(p)
    <3>1. proc' = [proc EXCEPT ![p] = IF proc[p].msg < MaxMsgs THEN next ELSE last]
      <4>1. CASE proc[p].msg < MaxMsgs
        <5>1. proc' = [proc EXCEPT ![p] = [proc[p] EXCEPT !.pc = "resolve", !.msg = proc[p].msg + 1]]
          BY <2>1, <4>1 DEF nextMessage
        <5> QED BY <1>2, <4>1, <5>1
      <4>2. CASE ~(proc[p].msg < MaxMsgs)
        <5>1. proc' = [proc EXCEPT ![p] = [proc[p] EXCEPT !.pc = "done"]]
          BY <2>1, <4>2 DEF nextMessage
        <5> QED BY <1>3, <4>2, <5>1
      <4> QED BY <4>1, <4>2
    <3> QED BY <3>1
  <2>2. CASE Go(p, "failed")
    <3>1. proc' = [proc EXCEPT ![p] = failed]
      BY <1>4, <2>2 DEF Go
    <3> QED BY <3>1
  <2> QED BY <2>1, <2>2
<1>11. /\ proc' \in [Trans -> Procs] /\ proc'[p] = r
       /\ \A q \in Trans : q # p => proc'[q] = proc[q]
  BY <1>1, <1>7, <1>8, <1>9, <1>10, ProcSet
<1> QED BY <1>7, <1>8, <1>9, <1>11

(* What is deployed by the message of a transaction.                       *)
LEMMA SdbSetDeploys ==
  ASSUME IInv, NEW p \in Trans, NEW deployed \in SUBSET Contract, SdbSet(p, deployed)
  PROVE  cur' \in [Trans -> SUBSET Contract] /\ \A q \in Trans : q # p => cur'[q] = cur[q]
BY DEF IInv, Types, SdbSet

(* A message of the transaction that deploys nothing.                      *)
LEMMA MessageIInv ==
  ASSUME IInv, NEW p \in Trans,
         \/ Invoke(p) \/ InvokeFails(p) \/ InvokeChanges(p)
         \/ \E c \in Contract : checkSignFails(p, c) \/ BuildRefused(p, c)
  PROVE  IInv'
<1>1. proc[p].pc = "invoke" /\ invoke(p) /\ UNCHANGED cur /\ (nextMessage(p) \/ Go(p, "failed"))
  BY DEF Invoke, InvokeFails, InvokeChanges, checkSignFails, BuildRefused, deploys
<1>2. cur' \in [Trans -> SUBSET Contract]
  BY <1>1 DEF IInv, Types
<1>3. /\ proc' \in [Trans -> Procs] /\ \A q \in Trans : q # p => proc'[q] = proc[q]
      /\ proc'[p].pc \in {"resolve", "failed", "done"}
      /\ proc'[p].tx = proc[p].tx /\ proc'[p].done = proc[p].done
  BY <1>1, nextMessageGoes
<1> QED BY <1>1, <1>2, <1>3, InvokedIInv

(* A message that deploys a contract enters it in what the transaction has *)
(* deployed.                                                               *)
LEMMA DeployContractIInv ==
  ASSUME IInv, NEW p \in Trans, NEW c \in Contract, DeployContract(p, c)
  PROVE  IInv'
<1>1. /\ proc[p].pc = "invoke" /\ invoke(p) /\ nextMessage(p) /\ SdbSet(p, {c})
      /\ proc[p].tx > 0
  BY DEF DeployContract, deploys
<1>2. cur' \in [Trans -> SUBSET Contract] /\ \A q \in Trans : q # p => cur'[q] = cur[q]
  BY <1>1, SdbSetDeploys
<1>3. /\ proc' \in [Trans -> Procs] /\ \A q \in Trans : q # p => proc'[q] = proc[q]
      /\ proc'[p].pc \in {"resolve", "failed", "done"}
      /\ proc'[p].tx = proc[p].tx /\ proc'[p].done = proc[p].done
  BY <1>1, nextMessageGoes
<1>4. proc[p].tx # 0
  BY <1>1
<1> QED BY <1>1, <1>2, <1>3, <1>4, InvokedIInv

(* A docker that cannot be reached stops the process.                      *)
LEMMA UnreachableIInv == ASSUME IInv, NEW p \in Trans, Unreachable(p) PROVE IInv'
BY PanicIInv DEF Unreachable

-----------------------------------------------------------------------------
(* What a transaction has deployed is entered under its number.            *)
LEMMA setValEnters ==
  ASSUME IInv, NEW p \in Trans, NEW tc, tc = setValToTransCon(p)
  PROVE  /\ tc \in [Trans -> SUBSET (Nat \X Contract)]
         /\ \A q \in Trans : q # p => tc[q] = transCon[q]
         /\ tc[p] = transCon[p] \cup {<<proc[p].tx, c>> : c \in cur[p]}
<1>1. /\ transCon \in [Trans -> SUBSET (Nat \X Contract)] /\ proc[p].tx \in Nat
      /\ cur[p] \subseteq Contract
  BY DEF IInv, Types, Procs
<1>2. CASE cur[p] = {}
  BY <1>1, <1>2 DEF setValToTransCon
<1>3. CASE cur[p] # {}
  <2>1. PICK new : new = {<<proc[p].tx, c>> : c \in cur[p]}
    OBVIOUS
  <2>2. new \subseteq Nat \X Contract
    BY <1>1, <2>1
  <2>3. tc = [transCon EXCEPT ![p] = transCon[p] \cup new]
    BY <1>3, <2>1 DEF setValToTransCon
  <2> QED BY <1>1, <2>1, <2>2, <2>3
<1> QED BY <1>2, <1>3

(* What a transaction of the block has deployed is kept and entered under  *)
(* its number, or is dropped with it.                                      *)
LEMMA EndDeliverTxIInv == ASSUME IInv, EndDeliverTx PROVE IInv'
<1> DEFINE tx == proc[Deliver].tx
           new == {<<tx, c>> : c \in cur[Deliver]}
           old == transCon[Deliver]
<1> USE DEF IInv
<1>1. /\ proc \in [Trans -> Procs] /\ Deliver \in Trans /\ tx \in Nat /\ count.txs \in Nat
      /\ transCon \in [Trans -> SUBSET (Nat \X Contract)]
      /\ cur \in [Trans -> SUBSET Contract] /\ kept \subseteq Contract
  BY DEF Types, Procs, Trans
<1>2. /\ proc[Deliver].pc \in {"done", "failed", "unrecorded"}
      /\ proc' = [proc EXCEPT ![Deliver] = Idle]
      /\ cur' = [cur EXCEPT ![Deliver] = {}]
      /\ kept' = IF proc[Deliver].pc = "done" THEN kept \cup cur[Deliver] ELSE kept
      /\ UNCHANGED <<code, docker, url, starting, dockerUrlMap, held, count, raced>>
  BY DEF EndDeliverTx, dockers
<1>3. PICK tc : tc = setValToTransCon(Deliver)
  OBVIOUS
<1>4. /\ tc \in [Trans -> SUBSET (Nat \X Contract)] /\ tc[Deliver] = old \cup new
      /\ \A q \in Trans : q # Deliver => tc[q] = transCon[q]
  BY <1>1, <1>3, setValEnters
<1>5. /\ tx # 0 => tx = count.txs /\ \A r \in old : r[1] # tx
      /\ tx = 0 => cur[Deliver] = {}
      /\ \A r \in old : r[1] # 0 /\ r[1] <= count.txs
      /\ deployedBy(old) = kept
  BY <1>2 DEF Deployed
<1>6. \/ proc[Deliver].pc = "done" /\ transCon' = tc
      \/ proc[Deliver].pc = "failed" /\ transCon' = [tc EXCEPT ![Deliver] = {r \in tc[Deliver] : r[1] # tx}]
      \/ proc[Deliver].pc = "unrecorded" /\
           transCon' = [transCon EXCEPT ![Deliver] = {r \in old : r[1] # tx}]
  BY <1>2, <1>3 DEF EndDeliverTx, RollbackTx
<1>7. /\ transCon' \in [Trans -> SUBSET (Nat \X Contract)]
      /\ transCon'[Deliver] = IF proc[Deliver].pc = "done" THEN old \cup new ELSE old
  <2>1. CASE proc[Deliver].pc = "done" /\ transCon' = tc
    BY <1>4, <2>1
  <2>2. {r \in old : r[1] # tx} = old
    BY <1>5
  <2>3. CASE /\ proc[Deliver].pc = "failed"
             /\ transCon' = [tc EXCEPT ![Deliver] = {r \in tc[Deliver] : r[1] # tx}]
    <3>1. {r \in old \cup new : r[1] # tx} = old
      BY <2>2
    <3> QED BY <1>1, <1>4, <2>3, <3>1
  <2>4. CASE /\ proc[Deliver].pc = "unrecorded"
             /\ transCon' = [transCon EXCEPT ![Deliver] = {r \in old : r[1] # tx}]
    BY <1>1, <2>2, <2>4
  <2> QED BY <1>6, <2>1, <2>3, <2>4
<1>8. /\ proc' \in [Trans -> Procs] /\ proc'[Deliver] = Idle
      /\ \A q \in Trans : q # Deliver => proc'[q] = proc[q]
  BY <1>1, <1>2, IdleIsProc, ProcSet
<1>9. /\ cur' \in [Trans -> SUBSET Contract] /\ cur'[Deliver] = {} /\ kept' \subseteq Contract
  BY <1>1, <1>2
<1>10. Types'
  BY <1>2, <1>7, <1>8, <1>9 DEF Types
<1>11. Urls'
  BY <1>2 DEF Urls, started
<1>12. \A n : Published(n)' = Published(n)
  BY <1>2 DEF Published, started
<1>13. Used'
  BY <1>2, <1>8, <1>12, IdleIsProc DEF Used
<1>14. Recorded'
  <2>1. \A n : sentTo(n)' = sentTo(n)
    BY <1>2 DEF sentTo
  <2>2. ASSUME NEW h \in held, h[2] # None
        PROVE  /\ h[1] \notin proc'[h[2]].done
               /\ sentTo(h[1]) => /\ h[1] \in dockerUrlMap[h[2]]
                                  /\ h[2] # Deliver => proc'[h[2]].pc # "idle"
                                  /\ h[2] = Deliver => h[3] <= count.txs
    <3>1. h[2] \in Trans
      BY <2>2 DEF Types
    <3> QED BY <1>8, <2>2, <3>1, IdleIsProc DEF Recorded
  <2>3. \A q \in Trans : proc'[q].pc # "closing" => proc'[q].done = {}
    BY <1>8, IdleIsProc DEF Recorded
  <2> QED BY <1>2, <2>1, <2>2, <2>3 DEF Recorded
<1>15. Deployed'
  <2>1. proc'[Deliver].tx = 0 /\ proc'[Deliver].pc = "idle"
    BY <1>8, IdleIsProc
  <2>2. deployedBy(transCon'[Deliver]) = kept'
    <3>1. deployedBy(new) = cur[Deliver]
      <4>1. \A c \in cur[Deliver] : <<tx, c>> \in new /\ <<tx, c>>[2] = c
        OBVIOUS
      <4>2. \A r \in new : r[2] \in cur[Deliver]
        OBVIOUS
      <4> HIDE DEF new
      <4> QED BY <4>1, <4>2 DEF deployedBy
    <3>2. deployedBy(old \cup new) = deployedBy(old) \cup deployedBy(new)
      BY DEF deployedBy
    <3> QED BY <1>2, <1>5, <1>7, <3>1, <3>2
  <2>3. \A r \in transCon'[Deliver] : r[1] # 0 /\ r[1] <= count.txs
    <3>1. ASSUME NEW r \in new PROVE r[1] # 0 /\ r[1] <= count.txs
      <4>1. r[1] = tx /\ tx # 0
        BY <1>5
      <4> QED BY <1>1, <1>5, <4>1
    <3> QED BY <1>5, <1>7, <3>1
  <2> QED BY <1>2, <1>9, <2>1, <2>2, <2>3 DEF Deployed
<1>16. Covered'
  <2>1. proc[Deliver].pc # "closing" /\ proc'[Deliver].pc # "closing"
    BY <1>2, <1>8, IdleIsProc
  <2> QED BY <1>2, <2>1 DEF Covered, hasCode
<1> QED BY <1>10, <1>11, <1>13, <1>14, <1>15, <1>16

(* A check ends: what it has deployed is entered in its own list only.     *)
LEMMA EndCheckTxIInv == ASSUME IInv, NEW p \in Checker, EndCheckTx(p) PROVE IInv'
<1> USE DEF IInv
<1>1. /\ proc \in [Trans -> Procs] /\ p \in Trans /\ Deliver \in Trans /\ p # Deliver
  BY InvokerMgrAssumption DEF Types, Trans
<1>2. /\ proc[p].pc \in {"done", "failed", "unrecorded"}
      /\ transCon' = transCon \/ transCon' = setValToTransCon(p)
      /\ proc' = [proc EXCEPT ![p].pc = "closing"]
      /\ UNCHANGED <<code, kept, cur, docker, url, starting, dockerUrlMap, held, count, raced>>
  BY DEF EndCheckTx, Go, state, dockers
<1>3. GoesTo(proc, proc', p, "closing")
  BY <1>1, <1>2, ProcGoes
<1>4. transCon' \in [Trans -> SUBSET (Nat \X Contract)] /\ transCon'[Deliver] = transCon[Deliver]
  BY <1>1, <1>2, setValEnters DEF Types
<1>5. proc'[Deliver] = proc[Deliver]
  BY <1>1, <1>3 DEF GoesTo
<1>6. Types'
  BY <1>2, <1>3, <1>4 DEF Types, GoesTo
<1>7. Urls'
  BY <1>2 DEF Urls, started
<1>8. \A n : Published(n)' = Published(n)
  BY <1>2 DEF Published, started
<1>9. Used'
  BY <1>2, <1>3, <1>8 DEF Used, GoesTo
<1>10. Recorded'
  <2>1. \A n : sentTo(n)' = sentTo(n)
    BY <1>2 DEF sentTo
  <2>2. \A q \in Trans : /\ proc'[q].done = proc[q].done
                         /\ proc'[q].pc # proc[q].pc => proc'[q].pc = "closing"
    BY <1>3 DEF GoesTo
  <2>3. ASSUME NEW h \in held, h[2] # None
        PROVE  /\ h[1] \notin proc'[h[2]].done
               /\ sentTo(h[1]) => /\ h[1] \in dockerUrlMap[h[2]]
                                  /\ h[2] # Deliver => proc'[h[2]].pc # "idle"
                                  /\ h[2] = Deliver => h[3] <= count.txs
    <3>1. h[2] \in Trans
      BY <2>3 DEF Types
    <3> QED BY <2>2, <2>3, <3>1 DEF Recorded
  <2>4. \A q \in Trans : proc'[q].pc # "closing" => proc'[q].done = {}
    BY <2>2 DEF Recorded
  <2> QED BY <1>2, <2>1, <2>3, <2>4 DEF Recorded
<1>11. Deployed'
  BY <1>2, <1>4, <1>5 DEF Deployed, deployedBy
<1>12. Covered'
  BY <1>2, <1>4, <1>5 DEF Covered, hasCode, toReload
<1> QED BY <1>6, <1>7, <1>9, <1>10, <1>11, <1>12

(* The block is committed in the state database: its contracts are those   *)
(* entered by its transactions.                                            *)
LEMMA CommitBlockIInv == ASSUME IInv, CommitBlock PROVE IInv'
<1> USE DEF IInv
<1>1. proc \in [Trans -> Procs] /\ Deliver \in Trans
  BY DEF Types, Trans
<1>2. /\ proc[Deliver].pc = "idle" /\ code' = code \cup kept /\ kept' = {}
      /\ proc' = [proc EXCEPT ![Deliver].pc = "closing"]
      /\ UNCHANGED <<cur, docker, url, starting, dockerUrlMap, transCon, held, count, raced>>
  BY DEF CommitBlock, Go, dockers, maps
<1>3. GoesTo(proc, proc', Deliver, "closing")
  BY <1>1, <1>2, ProcGoes
<1>4. Types'
  BY <1>2, <1>3 DEF Types, GoesTo
<1>5. Urls'
  BY <1>2 DEF Urls, started
<1>6. \A n : Published(n)' = Published(n)
  BY <1>2 DEF Published, started
<1>7. Used'
  BY <1>2, <1>3, <1>6 DEF Used, GoesTo
<1>8. Recorded'
  <2>1. \A n : sentTo(n)' = sentTo(n)
    BY <1>2 DEF sentTo
  <2>2. \A q \in Trans : /\ proc'[q].done = proc[q].done
                         /\ proc'[q].pc # proc[q].pc => proc'[q].pc = "closing"
    BY <1>3 DEF GoesTo
  <2>3. ASSUME NEW h \in held, h[2] # None
        PROVE  /\ h[1] \notin proc'[h[2]].done
               /\ sentTo(h[1]) => /\ h[1] \in dockerUrlMap[h[2]]
                                  /\ h[2] # Deliver => proc'[h[2]].pc # "idle"
                                  /\ h[2] = Deliver => h[3] <= count.txs
    <3>1. h[2] \in Trans
      BY <2>3 DEF Types
    <3> QED BY <2>2, <2>3, <3>1 DEF Recorded
  <2>4. \A q \in Trans : proc'[q].pc # "closing" => proc'[q].done = {}
    BY <2>2 DEF Recorded
  <2> QED BY <1>2, <2>1, <2>3, <2>4 DEF Recorded
<1>9. Deployed'
  BY <1>2, <1>3 DEF Deployed, GoesTo
<1>10. Covered'
  <2>1. ASSUME NEW o \in Org, o \notin toReload
        PROVE  GetContracts(o, code') = GetContracts(o, code)
    <3>1. \A c \in kept : OrgOf[c] \in toReload
      BY <1>2 DEF Deployed, deployedBy, toReload
    <3> QED BY <1>2, <2>1, <3>1 DEF GetContracts
  <2>2. toReload' = toReload
    BY <1>2 DEF toReload
  <2>3. ASSUME NEW o \in Org \ raced, o \notin toReload
        PROVE  /\ url[o] # None => GetContracts(o, code') \subseteq docker[o].code
               /\ starting[o] # None => GetContracts(o, code') \subseteq starting[o].code
    BY <1>2, <2>1, <2>3 DEF Covered, hasCode
  <2>4. proc'[Deliver].pc = "closing"
    BY <1>3 DEF GoesTo
  <2> QED BY <1>2, <2>2, <2>3, <2>4 DEF Covered, hasCode
<1> QED BY <1>4, <1>5, <1>7, <1>8, <1>9, <1>10

(* An empty block: what the block's calls left in the dockers is nobody's. *)
LEMMA commitEmptyBlockIInv == ASSUME IInv, commitEmptyBlock PROVE IInv'
<1> USE DEF IInv
<1>1. /\ count \in [blocks : Nat, txs : Nat, checks : Nat, starts : Nat] /\ Deliver \in Trans
  BY DEF Types, Trans
<1>2. /\ count' = [count EXCEPT !.blocks = count.blocks + 1]
      /\ dockerUrlMap' = [dockerUrlMap EXCEPT ![Deliver] = {}]
      /\ held' = {IF h[2] = Deliver THEN <<h[1], None, h[3]>> ELSE h : h \in held}
      /\ UNCHANGED <<code, kept, cur, docker, url, starting, transCon, proc, raced>>
  BY DEF commitEmptyBlock, state, dockers
<1>3. /\ count' \in [blocks : Nat, txs : Nat, checks : Nat, starts : Nat]
      /\ count'.txs = count.txs /\ count'.starts = count.starts
  BY <1>1, <1>2
<1>4. /\ dockerUrlMap' \in [Trans -> SUBSET Nat]
      /\ \A q \in Trans : q # Deliver => dockerUrlMap'[q] = dockerUrlMap[q]
  BY <1>2 DEF Types
<1>5. \A h \in held : h[1] \in Nat /\ h[2] \in Trans \cup {None} /\ h[3] \in Nat
                      /\ h = <<h[1], h[2], h[3]>>
  BY DEF Types
<1>6. ASSUME NEW k \in held'
      PROVE  \/ k \in held /\ k[2] # Deliver
             \/ /\ k[2] = None /\ k \in Nat \X (Trans \cup {None}) \X Nat
                /\ \E h \in held : k[1] = h[1]
  <2>1. PICK h \in held : k = IF h[2] = Deliver THEN <<h[1], None, h[3]>> ELSE h
    BY <1>2
  <2> QED BY <1>5, <2>1
<1>7. held' \subseteq Nat \X (Trans \cup {None}) \X Nat
  BY <1>6 DEF Types
<1>8. Types'
  BY <1>2, <1>3, <1>4, <1>7 DEF Types
<1>9. Urls'
  BY <1>2, <1>3 DEF Urls, started
<1>10. \A n : Published(n)' = Published(n)
  BY <1>2, <1>3 DEF Published, started
<1>11. Used'
  BY <1>2, <1>6, <1>10 DEF Used
<1>12. Recorded'
  <2>1. \A n : sentTo(n)' = sentTo(n)
    BY <1>2 DEF sentTo
  <2>2. ASSUME NEW h \in held', h[2] # None
        PROVE  /\ h[1] \notin proc[h[2]].done
               /\ sentTo(h[1]) => /\ h[1] \in dockerUrlMap'[h[2]]
                                  /\ h[2] # Deliver => proc[h[2]].pc # "idle"
                                  /\ h[2] = Deliver => h[3] <= count'.txs
    <3>1. h \in held /\ h[2] # Deliver /\ h[2] \in Trans
      BY <1>5, <1>6, <2>2
    <3> QED BY <1>4, <2>2, <3>1 DEF Recorded
  <2>3. \A q \in Trans : proc[q].pc # "closing" => proc[q].done = {}
    BY DEF Recorded
  <2> QED BY <1>2, <2>1, <2>2, <2>3 DEF Recorded
<1>13. Deployed'
  BY <1>2, <1>3 DEF Deployed, deployedBy
<1>14. Covered'
  BY <1>2 DEF Covered, hasCode, toReload
<1> QED BY <1>8, <1>9, <1>11, <1>12, <1>13, <1>14

(* A docker is told that a transaction is over.                            *)
LEMMA CloseTransIInv == ASSUME IInv, NEW p \in Trans, CloseTrans(p) PROVE IInv'
<1> USE DEF IInv
<1>1. PICK u \in dockerUrlMap[p] \ proc[p].done :
        IF Live(u)
        THEN /\ held' = {h \in held : h[1] # u \/ h[2] # p}
             /\ proc' = [proc EXCEPT ![p].done = proc[p].done \cup {u}]
             /\ UNCHANGED <<state, dockers, pool, dockerUrlMap, transCon, halted, count, raced>>
        ELSE Panic
  BY DEF CloseTrans
<1>2. CASE ~Live(u)
  BY <1>1, <1>2, PanicIInv
<1>3. CASE Live(u)
  <2>1. /\ proc \in [Trans -> Procs] /\ proc[p] \in Procs /\ proc[p].pc = "closing" /\ u \in Nat
        /\ Deliver \in Trans
    BY DEF Types, CloseTrans, Trans
  <2>2. PICK r : r = [proc[p] EXCEPT !.done = proc[p].done \cup {u}]
    OBVIOUS
  <2>3. /\ r \in Procs /\ r.pc = "closing" /\ r.tx = proc[p].tx
        /\ r.done = proc[p].done \cup {u}
    BY <2>1, <2>2 DEF Procs
  <2>4. proc' = [proc EXCEPT ![p] = r]
    BY <1>1, <1>3, <2>2
  <2>5. /\ proc' \in [Trans -> Procs] /\ proc'[p] = r
        /\ \A q \in Trans : q # p => proc'[q] = proc[q]
    BY <2>1, <2>3, <2>4, ProcSet
  <2>6. /\ held' = {h \in held : h[1] # u \/ h[2] # p}
        /\ UNCHANGED <<code, kept, cur, docker, url, starting, dockerUrlMap, transCon, count, raced>>
    BY <1>1, <1>3 DEF state, dockers
  <2>7. Types'
    BY <2>5, <2>6 DEF Types
  <2>8. Urls'
    BY <2>6 DEF Urls, started
  <2>9. \A n : Published(n)' = Published(n)
    BY <2>6 DEF Published, started
  <2>10. Used'
    BY <2>3, <2>5, <2>6, <2>9 DEF Used
  <2>11. Recorded'
    <3>1. \A n : sentTo(n)' = sentTo(n)
      BY <2>6 DEF sentTo
    <3>2. ASSUME NEW h \in held', h[2] # None
          PROVE  /\ h[1] \notin proc'[h[2]].done
                 /\ sentTo(h[1]) => /\ h[1] \in dockerUrlMap[h[2]]
                                    /\ h[2] # Deliver => proc'[h[2]].pc # "idle"
                                    /\ h[2] = Deliver => h[3] <= count.txs
      <4>1. h \in held /\ h[2] \in Trans /\ (h[2] = p => h[1] # u)
        BY <2>6, <3>2 DEF Types
      <4> QED BY <2>1, <2>3, <2>5, <3>2, <4>1 DEF Recorded
    <3>3. \A q \in Trans : proc'[q].pc # "closing" => proc'[q].done = {}
      BY <2>3, <2>5 DEF Recorded
    <3> QED BY <2>6, <3>1, <3>2, <3>3 DEF Recorded
  <2>12. proc'[Deliver].pc = proc[Deliver].pc /\ proc'[Deliver].tx = proc[Deliver].tx
    BY <2>1, <2>3, <2>5
  <2>13. Deployed'
    BY <2>6, <2>12 DEF Deployed, deployedBy
  <2>14. Covered'
    BY <2>6, <2>12 DEF Covered, hasCode, toReload
  <2> QED BY <2>7, <2>8, <2>10, <2>11, <2>13, <2>14
<1> QED BY <1>2, <1>3

(* The end of a check: every docker it called has been told, or calls are  *)
(* no longer sent to it.                                                   *)
LEMMA RollbackIInv == ASSUME IInv, NEW p \in Checker, Rollback(p) PROVE IInv'
<1> USE DEF IInv
<1>1. /\ proc \in [Trans -> Procs] /\ p \in Trans /\ Deliver \in Trans /\ p # Deliver
  BY InvokerMgrAssumption DEF Types, Trans
<1>2. /\ proc[p].pc = "closing" /\ dockerUrlMap[p] \subseteq proc[p].done
      /\ dockerUrlMap' = [dockerUrlMap EXCEPT ![p] = {}]
      /\ transCon' = [transCon EXCEPT ![p] = {}]
      /\ cur' = [cur EXCEPT ![p] = {}]
      /\ proc' = [proc EXCEPT ![p] = Idle]
      /\ UNCHANGED <<code, kept, docker, url, starting, held, count, raced>>
  BY DEF Rollback, told, dockers
<1>3. /\ proc' \in [Trans -> Procs] /\ proc'[p] = Idle
      /\ \A q \in Trans : q # p => proc'[q] = proc[q]
  BY <1>1, <1>2, IdleIsProc, ProcSet
<1>4. /\ dockerUrlMap' \in [Trans -> SUBSET Nat]
      /\ \A q \in Trans : q # p => dockerUrlMap'[q] = dockerUrlMap[q]
  BY <1>2 DEF Types
<1>5. /\ transCon' \in [Trans -> SUBSET (Nat \X Contract)] /\ transCon'[Deliver] = transCon[Deliver]
      /\ cur' \in [Trans -> SUBSET Contract] /\ cur'[Deliver] = cur[Deliver]
  BY <1>1, <1>2 DEF Types
<1>6. Types'
  BY <1>2, <1>3, <1>4, <1>5 DEF Types
<1>7. Urls'
  BY <1>2 DEF Urls, started
<1>8. \A n : Published(n)' = Published(n)
  BY <1>2 DEF Published, started
<1>9. Used'
  BY <1>2, <1>3, <1>8, IdleIsProc DEF Used
<1>10. Recorded'
  <2>1. \A n : sentTo(n)' = sentTo(n)
    BY <1>2 DEF sentTo
  <2>2. ASSUME NEW h \in held, h[2] # None
        PROVE  /\ h[1] \notin proc'[h[2]].done
               /\ sentTo(h[1]) => /\ h[1] \in dockerUrlMap'[h[2]]
                                  /\ h[2] # Deliver => proc'[h[2]].pc # "idle"
                                  /\ h[2] = Deliver => h[3] <= count.txs
    <3>1. h[2] \in Trans
      BY <2>2 DEF Types
    <3>2. CASE h[2] = p
      <4>1. ~sentTo(h[1])
        BY <1>2, <2>2, <3>2 DEF Recorded
      <4> QED BY <1>3, <3>2, <4>1, IdleIsProc
    <3>3. CASE h[2] # p
      BY <1>3, <1>4, <2>2, <3>1, <3>3 DEF Recorded
    <3> QED BY <3>2, <3>3
  <2>3. \A q \in Trans : proc'[q].pc # "closing" => proc'[q].done = {}
    BY <1>3, IdleIsProc DEF Recorded
  <2> QED BY <1>2, <2>1, <2>2, <2>3 DEF Recorded
<1>11. proc'[Deliver] = proc[Deliver]
  BY <1>1, <1>3
<1>12. Deployed'
  BY <1>2, <1>5, <1>11 DEF Deployed, deployedBy
<1>13. Covered'
  BY <1>2, <1>5, <1>11 DEF Covered, hasCode, toReload
<1> QED BY <1>6, <1>7, <1>9, <1>10, <1>12, <1>13

(* The end of the block: the dockers without its contracts go.             *)
LEMMA CommitIInv == ASSUME IInv, NEW expired \in SUBSET Org, Commit(expired) PROVE IInv'
<1> DEFINE gone == toReload \cup CheckDockerLiveTime(expired)
           us == urlsOf(gone)
<1> USE DEF IInv
<1>1. /\ proc \in [Trans -> Procs] /\ Deliver \in Trans
      /\ count \in [blocks : Nat, txs : Nat, checks : Nat, starts : Nat]
  BY DEF Types, Trans
<1>2. /\ proc[Deliver].pc = "closing" /\ dockerUrlMap[Deliver] \subseteq proc[Deliver].done
      /\ dockerUrlMap' = [p \in Trans |-> IF p = Deliver THEN {} ELSE dockerUrlMap[p] \ us]
      /\ transCon' = [transCon EXCEPT ![Deliver] = {}]
      /\ url' = [o \in Org |-> IF o \in gone THEN None ELSE url[o]]
      /\ docker' = [o \in Org |-> IF o \in gone THEN None ELSE docker[o]]
      /\ held' \subseteq held
      /\ proc' = [proc EXCEPT ![Deliver] = Idle]
      /\ raced' = raced \cup {o \in toReload : starting[o] # None}
      /\ UNCHANGED <<code, kept, cur, starting>>
  BY DEF Commit, told, closed, state
<1>3. count' = [count EXCEPT !.blocks = count.blocks + 1, !.txs = 0]
  BY DEF Commit
<1>4. /\ count' \in [blocks : Nat, txs : Nat, checks : Nat, starts : Nat]
      /\ count'.starts = count.starts /\ count'.txs = 0
  <2>1. PICK n \in Nat : n = count.blocks + 1
    BY <1>1
  <2>2. count' = [count EXCEPT !.blocks = n, !.txs = 0]
    BY <1>3, <2>1
  <2> QED BY <1>1, <2>2
<1> HIDE DEF gone, us
<1>5. /\ proc' \in [Trans -> Procs] /\ proc'[Deliver] = Idle
      /\ \A q \in Trans : q # Deliver => proc'[q] = proc[q]
  BY <1>1, <1>2, IdleIsProc, ProcSet
<1>6. /\ dockerUrlMap' \in [Trans -> SUBSET Nat]
      /\ transCon' \in [Trans -> SUBSET (Nat \X Contract)] /\ transCon'[Deliver] = {}
  BY <1>1, <1>2 DEF Types
<1>7. docker' \in [Org -> Dockers] /\ url' \in [Org -> Nat \cup {None}]
  BY <1>2 DEF Types, Dockers
<1>8. Types'
  BY <1>2, <1>4, <1>5, <1>6, <1>7 DEF Types
<1>9. \A o \in Org : /\ url'[o] # None => o \notin gone /\ url'[o] = url[o] /\ docker'[o] = docker[o]
                     /\ docker'[o] # None => docker'[o] = docker[o]
                     /\ url[o] = None => url'[o] = None
  BY <1>2
<1>10. Urls'
  BY <1>2, <1>4, <1>9 DEF Urls, started
<1>11. \A n : Published(n)' = Published(n)
  BY <1>2, <1>4 DEF Published, started
<1>12. Used'
  BY <1>2, <1>5, <1>11, IdleIsProc DEF Used
<1>13. Recorded'
  <2>1. ASSUME NEW n \in Nat, sentTo(n)' PROVE sentTo(n) /\ n \notin us
    <3>1. PICK o \in Org : url'[o] = n /\ url'[o] # None
      BY <2>1, InvokerMgrAssumption DEF sentTo
    <3>2. o \notin gone /\ url[o] = n /\ url[o] # None
      BY <1>9, <3>1
    <3>3. ASSUME n \in us PROVE FALSE
      <4>1. PICK q \in Org : q \in gone /\ url[q] = n /\ url[q] # None
        <5>1. toReload \subseteq Org
          <6>1. \A r \in transCon[Deliver] : r[2] \in Contract
            <7>1. transCon[Deliver] \subseteq Nat \X Contract
              BY <1>1 DEF Types
            <7> QED BY <7>1
          <6>2. \A c \in Contract : OrgOf[c] \in Org
            BY InvokerMgrAssumption
          <6> QED BY <6>1, <6>2 DEF toReload
        <5>2. CheckDockerLiveTime(expired) \subseteq Org
          BY DEF CheckDockerLiveTime
        <5>3. gone \subseteq Org
          BY <5>1, <5>2 DEF gone
        <5> QED BY <3>3, <5>3 DEF us, urlsOf
      <4> QED BY <3>2, <4>1 DEF Urls
    <3> QED BY <3>2, <3>3 DEF sentTo
  <2>2. ASSUME NEW h \in held', h[2] # None
        PROVE  /\ h[1] \notin proc'[h[2]].done
               /\ sentTo(h[1])' => /\ h[1] \in dockerUrlMap'[h[2]]
                                   /\ h[2] # Deliver => proc'[h[2]].pc # "idle"
                                   /\ h[2] = Deliver => h[3] <= count'.txs
    <3>1. h \in held /\ h[1] \in Nat /\ h[2] \in Trans
      BY <1>2, <2>2 DEF Types
    <3>2. CASE h[2] = Deliver
      <4>1. ~sentTo(h[1])
        BY <1>2, <2>2, <3>1, <3>2 DEF Recorded
      <4> QED BY <1>5, <2>1, <3>1, <3>2, <4>1, IdleIsProc
    <3>3. CASE h[2] # Deliver
      BY <1>2, <1>5, <2>1, <2>2, <3>1, <3>3 DEF Recorded
    <3> QED BY <3>2, <3>3
  <2>3. \A q \in Trans : proc'[q].pc # "closing" => proc'[q].done = {}
    BY <1>5, IdleIsProc DEF Recorded
  <2> QED BY <2>2, <2>3 DEF Recorded
<1>14. Deployed'
  <2>1. proc[Deliver].tx = 0 /\ cur[Deliver] = {} /\ kept = {}
    BY <1>2 DEF Deployed
  <2> QED BY <1>2, <1>5, <1>6, <2>1, IdleIsProc DEF Deployed, deployedBy
<1>15. Covered'
  <2>1. ASSUME NEW o \in Org \ raced'
        PROVE  /\ url'[o] # None => GetContracts(o, code) \subseteq docker'[o].code
               /\ starting[o] # None => GetContracts(o, code) \subseteq starting[o].code
    <3>1. CASE o \in toReload
      <4>1. starting[o] = None /\ o \in gone
        BY <1>2, <2>1, <3>1 DEF gone
      <4> QED BY <1>9, <2>1, <4>1
    <3>2. CASE o \notin toReload
      BY <1>2, <1>9, <2>1, <3>2 DEF Covered, hasCode
    <3> QED BY <3>1, <3>2
  <2> QED BY <1>2, <2>1 DEF Covered, hasCode
<1> QED BY <1>8, <1>10, <1>12, <1>13, <1>14, <1>15

-----------------------------------------------------------------------------
(* The node starts, or starts again: no docker runs.                       *)
LEMMA NoDockers ==
  ASSUME code' \subseteq Contract, kept' = {}, cur' = [p \in Trans |-> {}],
         docker' = [o \in Org |-> None], url' = docker', starting' = docker',
         held' = {}, dockerUrlMap' = [p \in Trans |-> {}], transCon' = dockerUrlMap',
         proc' = [p \in Trans |-> Idle],
         count' \in [blocks : Nat, txs : Nat, checks : Nat, starts : Nat]
  PROVE  IInv'
<1>1. Deliver \in Trans /\ proc'[Deliver] = Idle /\ count'.txs \in Nat
  BY DEF Trans
<1>2. Types'
  BY IdleIsProc DEF Types, Dockers, Starts
<1>3. Urls' /\ Used' /\ Recorded'
  BY IdleIsProc DEF Urls, started, Used, Recorded
<1>4. Deployed'
  BY <1>1, IdleIsProc DEF Deployed, deployedBy
<1>5. Covered'
  BY DEF Covered
<1> QED BY <1>2, <1>3, <1>4, <1>5 DEF IInv

(* The process starts again with the code that is committed.               *)
LEMMA RestartIInv == ASSUME IInv, Restart PROVE IInv'
<1>1. count \in [blocks : Nat, txs : Nat, checks : Nat, starts : Nat] /\ code \subseteq Contract
  BY DEF IInv, Types
<1>2. count' = [count EXCEPT !.txs = 0] /\ code' = code
  BY DEF Restart
<1>3. count' \in [blocks : Nat, txs : Nat, checks : Nat, starts : Nat]
  BY <1>1, <1>2
<1> QED BY <1>1, <1>2, <1>3, NoDockers DEF Restart

(* The process starts with no docker.                                      *)
LEMMA InitIInv == Init => IInv
<1> SUFFICES ASSUME Init PROVE IInv
  OBVIOUS
<1>1. Deliver \in Trans /\ proc[Deliver] = Idle /\ count.txs = 0
  BY DEF Init, Trans
<1>2. Types
  BY IdleIsProc DEF Init, Types, Dockers, Starts
<1>3. Urls /\ Used /\ Recorded
  BY IdleIsProc DEF Init, Urls, started, Used, Recorded
<1>4. Deployed
  BY <1>1, IdleIsProc DEF Init, Deployed, deployedBy
<1>5. Covered
  BY DEF Init, Covered
<1> QED BY <1>2, <1>3, <1>4, <1>5 DEF IInv

(* Every step keeps the invariant.                                         *)
LEMMA NextIInv == ASSUME IInv, [Next]_vars PROVE IInv'
<1>1. CASE UNCHANGED vars
  BY <1>1 DEF vars, IInv, Types, Urls, started, Used, Published, Recorded, sentTo, Deployed,
              deployedBy, Covered, hasCode, toReload, state, dockers, maps
<1>2. CASE BeginTx \/ InitOrUpdateSMC \/ Mine \/ EndDeliverTx \/ CommitBlock \/ commitEmptyBlock
           \/ Restart
  BY <1>2, BeginTxIInv, callOfBlockIInv, EndDeliverTxIInv, CommitBlockIInv,
     commitEmptyBlockIInv, RestartIInv DEF InitOrUpdateSMC, Mine
<1>3. CASE \E expired \in {{}, Org} : Commit(expired)
  BY <1>3, CommitIInv
<1>4. CASE \E o \in Org : RunDocker(o) \/ BuildFails(o) \/ PublishURL(o)
  BY <1>4, RunDockerIInv, BuildFailsIInv, PublishURLIInv
<1>5. CASE \E p \in Checker : CheckTx(p) \/ EndCheckTx(p) \/ Rollback(p)
  BY <1>5, CheckTxIInv, EndCheckTxIInv, RollbackIInv
<1>6. CASE \E p \in Trans :
             \/ getPayerFails(p) \/ getEffectContractFails(p) \/ Unreachable(p)
             \/ Invoke(p) \/ InvokeFails(p) \/ InvokeChanges(p) \/ CloseTrans(p)
             \/ \E o \in Org : GetContractInvokeURL(p, o)
             \/ \E c \in Contract : DeployContract(p, c) \/ checkSignFails(p, c) \/ BuildRefused(p, c)
  BY <1>6, FailsIInv, UnreachableIInv, MessageIInv, CloseTransIInv,
     GetContractInvokeURLIInv, DeployContractIInv
<1> QED BY <1>1, <1>2, <1>3, <1>4, <1>5, <1>6 DEF Next

(* The inductive invariant holds of every state, however calls, starts,    *)
(* ends and commits interleave.                                            *)
THEOREM Invariance == Spec => []IInv
<1>1. IInv /\ [Next]_vars => IInv'
  BY NextIInv
<1> QED BY InitIInv, <1>1, PTL DEF Spec

(* A docker that calls are sent to holds nothing of a transaction that is  *)
(* over: whoever opened something in it told it when the transaction       *)
(* ended.                                                                  *)
THEOREM NothingIsLeftBehind == Spec => []NothingLeftBehind
<1>1. IInv => NothingLeftBehind
  BY DEF IInv, Recorded, NothingLeftBehind
<1> QED BY Invariance, <1>1, PTL

(* The commit replaces the dockers of the contracts the block deployed, no *)
(* more and no less, so that between blocks a docker that calls are sent   *)
(* to has all its organisation has deployed, unless a start of it was      *)
(* under way.                                                              *)
THEOREM ReloadsTheDeployed == Spec => []ReloadsWhatWasDeployed
<1>1. IInv => ReloadsWhatWasDeployed
  BY DEF IInv, Deployed, deployedBy, Covered, ReloadsWhatWasDeployed
<1> QED BY Invariance, <1>1, PTL
=============================================================================
