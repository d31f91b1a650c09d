-------------------------------- MODULE BVM --------------------------------
(* A transaction in the BVM (hyperledger/burrow/execution/bvm, its state   *)
(* cache acm/acmstate, and the burrow adapter that starts it and writes    *)
(* its result back).                                                       *)
(*                                                                         *)
(* Every call runs in a frame with its own cache over the frame below; the *)
(* bottom cache lies over the block's transaction (db).  A program is any  *)
(* sequence of opcodes: an opcode is an action, its operands are taken     *)
(* from small sets, and opcodes that touch only the frame's stack and      *)
(* memory are one action that costs gas.  An error is sticky: the opcode   *)
(* that raised it runs to its end and the frame returns before the next.   *)
(*                                                                         *)
(* A cache holds for every address what its frame reads there: the code    *)
(* loads an entry at its first use, which is the same, because the caches  *)
(* below do not change while a frame runs.                                 *)
EXTENDS Integers, Sequences, SequencesExt, FiniteSets, FiniteSetsExt

CONSTANTS Addrs,              \* addresses of accounts, ordered
          Natives,            \* addresses of the registered native contracts
          Sender,             \* the account that sends the transactions
          Funds,              \* balances in the contract's token at the start
          Coded,              \* the accounts with code at the start
          ContractAddr,       \* CalcContractAddr by <<caller, nonce>>
          ContractAddr2,      \* the address CREATE2 derives from the callee's code
          Words,              \* values a storage location holds
          Values,             \* amounts a call may carry
          Asks,               \* gas operands of the calls
          GasLimits,          \* gas limits of the transactions
          NativeGas,          \* what the native contracts cost
          CallStackMaxDepth,
          MaxTxs, MaxSteps    \* bounds: transactions, opcodes in all

GasBaseOp        == 1
GasStackOp       == 1
GasGetAccount    == 10
GasStorageUpdate == 10
GasCreateAccount == 10
GasCompute       == 10    \* what the pure opcodes between two others cost

ASSUME BVMAssumption ==
  /\ Addrs \subseteq Nat /\ IsFiniteSet(Addrs)
  /\ Sender \in Addrs /\ Natives \cap Addrs = {}
  /\ \A p \in DOMAIN ContractAddr : ContractAddr[p] \in Addrs
  /\ \A a \in DOMAIN ContractAddr2 : ContractAddr2[a] \in Addrs
  /\ Funds \in [Addrs -> Nat] /\ Coded \subseteq Addrs
  /\ Values \subseteq Nat /\ Asks \subseteq Nat /\ GasLimits \subseteq Nat

VARIABLES db,        \* the accounts as the block's transaction sees them
          info,      \* contracts with a contract record
          infoSaved, \* ... in the last committed block
          frames,    \* the frames of the running transaction, innermost last
          tx,        \* the running transaction, or NoTx
          tags,      \* the events the transaction emitted
          txs, steps,
          burnt      \* history: an account destroyed itself in its own favour

vars == <<db, info, infoSaved, frames, tx, tags, txs, steps, burnt>>

NoTx == [kind |-> "none", contract |-> Sender, nonce |-> 0, limit |-> 0]

-----------------------------------------------------------------------------
(* The state cache.                                                        *)

Exists(f, a) == f.view[a].exists /\ ~f.view[a].removed

PushError(f, e) == [f EXCEPT !.err = @ \/ e]

\* What is read of an account that is there, and of one that is not.
GetAccount(x) ==
  LET there == x.exists /\ ~x.removed
  IN [exists |-> there, bal |-> IF there THEN x.bal ELSE 0, code |-> there /\ x.code,
      store |-> x.store, removed |-> FALSE, updated |-> FALSE]

\* A cache over the accounts v: what v shows, nothing of it changed here.
NewCache(v) == [a \in Addrs |-> GetAccount(v[a])]

\* A child inherits the options of its parent's cache.
readOnlyOf(p, op) == p.ro \/ op = "STATICCALL"

UpdateAccount(f, a, bal, code) ==
  IF f.ro \/ f.view[a].removed THEN PushError(f, TRUE)
  ELSE [f EXCEPT !.view[a] = [@ EXCEPT !.exists = TRUE, !.bal = bal, !.code = code,
                                       !.updated = TRUE]]

RemoveAccount(f, a) ==
  IF f.ro \/ ~Exists(f, a) THEN PushError(f, TRUE)
  ELSE [f EXCEPT !.view[a].removed = TRUE]

SetStorage(f, a, w) ==
  IF f.ro \/ ~Exists(f, a) THEN PushError(f, TRUE)
  ELSE [f EXCEPT !.view[a] = [@ EXCEPT !.store = w, !.updated = TRUE]]

CreateAccount(f, a) ==
  IF Exists(f, a) THEN PushError(f, TRUE) ELSE UpdateAccount(f, a, 0, FALSE)

GetBalance(f, a) == IF Exists(f, a) THEN f.view[a].bal ELSE 0

AddToBalance(f, a, v) ==
  IF Exists(f, a) THEN UpdateAccount(f, a, f.view[a].bal + v, f.view[a].code)
                  ELSE PushError(f, TRUE)

SubtractFromBalance(f, a, v) ==
  IF Exists(f, a)
  THEN UpdateAccount(PushError(f, v > f.view[a].bal), a,
                     IF v > f.view[a].bal THEN f.view[a].bal ELSE f.view[a].bal - v,
                     f.view[a].code)
  ELSE PushError(f, TRUE)

InitCode(f, a, hasCode) ==
  IF Exists(f, a) /\ ~f.view[a].code
  THEN UpdateAccount(f, a, f.view[a].bal, hasCode)
  ELSE PushError(f, TRUE)

\* Sync of the cache of f into the cache of p, in the order of the
\* addresses; the first entry p refuses ends it and is an error of p.
touched(f, a) == f.view[a].removed \/ f.view[a].updated

refused(p, f, a) == touched(f, a) /\ (p.ro \/ p.view[a].removed)

Sync(p, f) ==
  IF f.ro THEN p
  ELSE LET bad == {a \in Addrs : refused(p, f, a)}
       IN [PushError(p, bad # {}) EXCEPT !.view =
             [a \in Addrs |->
                IF \E b \in bad : b <= a THEN p.view[a]
                ELSE IF f.view[a].removed THEN [p.view[a] EXCEPT !.removed = TRUE]
                ELSE IF f.view[a].updated
                THEN [f.view[a] EXCEPT !.removed = p.view[a].removed]
                ELSE p.view[a]]]

-----------------------------------------------------------------------------
(* Gas.                                                                    *)

useGasNegative(f, c) ==
  IF f.gas >= c THEN [f EXCEPT !.gas = @ - c] ELSE PushError(f, TRUE)

\* k pushes or pops: each must leave gas over (useGas of the stack).
useGas(f, k) ==
  IF k = 0 THEN f
  ELSE IF f.gas > k * GasStackOp THEN [f EXCEPT !.gas = @ - k * GasStackOp]
  ELSE PushError([f EXCEPT !.gas = IF @ = 0 THEN 0 ELSE 1], TRUE)

Opcode(f, k) == useGas(useGasNegative(f, GasBaseOp), k)

\* The gas a call is given: what it asks for, or all but a 64th.
gasLimitOfMut(gas, ask) == IF gas < ask THEN gas + gas \div 64 ELSE ask
gasLimitOf(gas, ask)    == IF gas < ask THEN gas - gas \div 64 ELSE ask

-----------------------------------------------------------------------------
(* Frames.                                                                 *)

Event(from, to, v) == [from |-> from, to |-> to, value |-> v]

transfer(f, from, to, v) ==
  IF v = 0 THEN f
  ELSE IF GetBalance(f, from) < v THEN PushError(f, TRUE)
  ELSE AddToBalance(SubtractFromBalance(f, from, v), to, v)

\* transfer reports the payment unless the frame is in error.
transferEvents(f, from, to, v) ==
  IF v = 0 \/ GetBalance(f, from) < v \/ transfer(f, from, to, v).err
  THEN {} ELSE {Event(from, to, v)}

\* vm.stackDepth is 1 outside every frame.
ensureStackDepth(f, fs) == PushError(f, Len(fs) + 1 = CallStackMaxDepth)

Child(p, op, caller, callee, v, gas) ==
  [op |-> op, caller |-> caller, callee |-> callee, value |-> v,
   ro |-> readOnlyOf(p, op), gas |-> gas, err |-> FALSE, done |-> FALSE,
   view |-> NewCache(p.view)]

\* What the caller p makes of the end of the call f it started.
resumeCallMut(p, f) ==
  LET p1 == useGas(Sync(p, f), 1) IN [p1 EXCEPT !.gas = @ + f.gas]
resumeCall(p, f) ==
  LET p1 == useGas(IF f.err THEN p ELSE Sync(p, f), 1)
  IN [p1 EXCEPT !.gas = @ + f.gas]

\* A creation ran on the creator's own gas.
resumeCreate(p, f, hasCode) ==
  LET p1 == [p EXCEPT !.gas = f.gas]
      f1 == InitCode(f, f.callee, hasCode)
      p2 == IF f.err THEN p1
            ELSE IF f1.err THEN PushError(p1, TRUE) ELSE Sync(p1, f1)
  IN useGas(p2, 1)

resume(p, f, hasCode) ==
  IF f.op = "CREATE" THEN resumeCreate(p, f, hasCode) ELSE resumeCall(p, f)

\* call and delegateCall: run f over the frames fs, or let it end at once
\* when it is in error already or there is no code to run.
Enter(fs, f, hasCode) ==
  IF f.err \/ ~hasCode
  THEN Front(fs) \o <<resume(Last(fs), f, FALSE)>>
  ELSE fs \o <<f>>

Top == Last(frames)
Continue(f) == frames' = Front(frames) \o <<f>>

\* An opcode is executed by the innermost frame while it is not in error.
Executing ==
  frames # <<>> /\ ~Top.err /\ ~Top.done /\ steps < MaxSteps /\ steps' = steps + 1
UnchangedDb == UNCHANGED <<db, info, infoSaved, tx, txs>>

-----------------------------------------------------------------------------
(* Opcodes that stay in the frame.                                         *)

\* Arithmetic, comparison, memory, stack, block and account reads, jumps.
Compute ==
  /\ Executing
  /\ Continue(useGasNegative(Opcode(Top, 1), GasCompute))
  /\ UNCHANGED <<tags, burnt>> /\ UnchangedDb

SSTORE(w) ==
  /\ Executing
  /\ Continue(SetStorage(useGasNegative(Opcode(Top, 2), GasStorageUpdate), Top.callee, w))
  /\ UNCHANGED <<tags, burnt>> /\ UnchangedDb

\* The sink of a STATICCALL, and of the calls under it, refuses logs.
LOG ==
  /\ Executing
  /\ Continue(PushError(Opcode(Top, 2), Top.ro))
  /\ tags' = IF Top.ro THEN tags ELSE tags \cup {Event(Top.callee, Top.callee, 0)}
  /\ UNCHANGED burnt /\ UnchangedDb

-----------------------------------------------------------------------------
(* Calls and creations.                                                    *)

\* CALL and CALLCODE take the value from the stack and keep it as the
\* frame's own.
paid(op) == op \in {"CALL", "CALLCODE"}

operands(op, v) ==
  IF paid(op) THEN [Opcode(Top, 7) EXCEPT !.value = v] ELSE Opcode(Top, 6)

CallNative(op, ask, v, cost) ==
  LET p1    == operands(op, v)
      limit == gasLimitOf(p1.gas, ask)
      p2    == useGas([p1 EXCEPT !.gas = @ - limit], 1)
  IN /\ Executing /\ Natives # {}
     /\ Continue([p2 EXCEPT !.gas = @ + IF limit < cost THEN limit ELSE limit - cost])
     /\ UNCHANGED <<tags, burnt>> /\ UnchangedDb

callee(op, p, a) == IF op \in {"CALL", "STATICCALL"} THEN a ELSE p.callee
caller(op, p)    == IF op = "DELEGATECALL" THEN p.caller ELSE p.callee

createAccountFor(p, op, a) ==
  IF Exists(p, a) THEN p
  ELSE IF op # "CALL" THEN PushError(p, TRUE) ELSE CreateAccount(p, a)

CallAddress(op, ask, a, v) ==
  LET p1    == operands(op, v)
      limit == gasLimitOf(p1.gas, ask)
      p2    == useGasNegative([p1 EXCEPT !.gas = @ - limit], GasGetAccount)
      p3    == createAccountFor(p2, op, a)
      child == Child(p3, op, caller(op, p3), callee(op, p3, a), p3.value, limit)
      moved == IF paid(op) THEN transfer(child, p3.callee, callee(op, p3, a), p3.value) ELSE child
  IN /\ Executing
     /\ IF ~Exists(p2, a) /\ p3.err
        THEN Continue(p3) /\ UNCHANGED tags
        ELSE /\ frames' = Enter(Front(frames) \o <<p3>>, ensureStackDepth(moved, frames),
                                p3.view[a].code)
             /\ tags' = tags \cup IF paid(op) THEN transferEvents(child, p3.callee,
                                              callee(op, p3, a), p3.value) ELSE {}
     /\ UNCHANGED burnt /\ UnchangedDb

\* CREATE derives the address from the frame's caller and the nonce the VM
\* was started with, CREATE2 from the code of the callee (the salt and the
\* creation code are the same throughout).
OpCreate(new, k, v) ==
  LET p1    == useGasNegative(Opcode(Top, k), GasCreateAccount)
      child == CreateAccount(Child(p1, "CREATE", p1.callee, new, v, p1.gas), new)
      moved == transfer(child, p1.callee, new, v)
  IN /\ Executing
     /\ frames' = Enter(Front(frames) \o <<p1>>, ensureStackDepth(moved, frames), TRUE)
     /\ tags' = tags \cup transferEvents(child, p1.callee, new, v)
     /\ UNCHANGED burnt /\ UnchangedDb

NewAddress(f) == ContractAddr[<<f.caller, tx.nonce>>]

CREATE(v) ==
  /\ frames # <<>> /\ <<Top.caller, tx.nonce>> \in DOMAIN ContractAddr
  /\ OpCreate(NewAddress(Top), 3, v)

CREATE2(v) ==
  /\ frames # <<>> /\ Top.callee \in DOMAIN ContractAddr2
  /\ OpCreate(ContractAddr2[Top.callee], 4, v)

-----------------------------------------------------------------------------
(* The end of a frame and of the transaction.                              *)

\* The record of the contract must be there and its ABI name the method:
\* the adapter reads it in the last committed block, and a contract without
\* one there ends the call in a nil dereference.  Any other call may fail
\* on its method or its output, a creation on its ABI.
JudgeFuncType == tx.kind = "create" \/ tx.contract \in infoSaved

\* The accounts in the state database after the outermost cache: an updated
\* one is written with its storage; of a removed one the storage stays.
putAccount(old, x) ==
  [old EXCEPT !.exists = TRUE, !.bal = x.bal, !.code = x.code, !.store = x.store]
deleteAccount(old) == [old EXCEPT !.exists = FALSE, !.bal = 0, !.code = FALSE]

written(v) ==
  [a \in Addrs |-> CASE v[a].removed                    -> deleteAccount(db[a])
                     [] v[a].updated /\ ~v[a].removed   -> putAccount(db[a], v[a])
                     [] OTHER                           -> db[a]]

\* The caches are written back when the VM and the checks after it report
\* no error; DeliverTx rolls back what a failed transaction has written.
Finish(f, hasCode, judged) ==
  LET f1  == IF tx.kind = "create" THEN InitCode(f, tx.contract, hasCode) ELSE f
      new == IF tx.kind = "create" THEN {tx.contract} ELSE {}
      ok  == ~f1.err /\ judged
  IN /\ db' = IF ok THEN written(f1.view) ELSE db
     /\ info' = IF ok THEN {a \in info \cup new : ~f1.view[a].removed} ELSE info
     /\ tx' = NoTx /\ frames' = <<>>
     /\ UNCHANGED <<infoSaved, txs>>

\* The frame returns; in error, it does so before its next opcode.
EndFrame(f, hasCode) ==
  IF f.err /\ ~Top.err THEN Continue(f) /\ UnchangedDb
  ELSE IF Len(frames) = 1
  THEN \E judged \in {FALSE, JudgeFuncType} : Finish(f, hasCode, judged)
  ELSE /\ frames' = Front(Front(frames))
                    \o <<resume(frames[Len(frames) - 1], f, hasCode)>>
       /\ UnchangedDb

\* RETURN with some output, or STOP.
RETURN(hasCode) ==
  /\ Executing /\ EndFrame(Opcode(Top, IF hasCode THEN 2 ELSE 0), hasCode)
  /\ UNCHANGED <<tags, burnt>>

\* REVERT, INVALID and an unknown opcode.
REVERT ==
  /\ Executing /\ Continue(PushError(Opcode(Top, 2), TRUE))
  /\ UNCHANGED <<tags, burnt>> /\ UnchangedDb

selfdestructMut(f, r) ==
  AddToBalance(f, r, GetBalance(f, f.callee))
selfdestruct(f, r) ==
  RemoveAccount(AddToBalance(f, r, GetBalance(f, f.callee)), f.callee)

selfdestructEvents(f, r) == {Event(f.callee, r, GetBalance(f, f.callee))}

SELFDESTRUCT(r) ==
  LET f1 == useGasNegative(Opcode(Top, 1), GasGetAccount)
      f2 == IF Exists(f1, r) THEN f1
            ELSE CreateAccount(useGasNegative(f1, GasCreateAccount), r)
  IN /\ Executing
     /\ IF ~Exists(f1, r) /\ f2.err
        THEN Continue(f2) /\ UnchangedDb /\ UNCHANGED <<tags, burnt>>
        ELSE /\ EndFrame(selfdestruct(f2, r), FALSE)
             /\ tags' = tags \cup selfdestructEvents(f2, r)
             /\ burnt' = (burnt \/ (r = f2.callee /\ GetBalance(f2, r) > 0))

\* A frame in error returns, and so does one with no code left to run:
\* where the code ends codeGetOp reads STOP.
Return ==
  /\ frames # <<>> /\ (Top.err \/ Top.done \/ steps = MaxSteps)
  /\ EndFrame(IF Top.err \/ Top.done THEN Top ELSE Opcode(Top, 0), FALSE)
  /\ UNCHANGED <<tags, burnt, steps>>

-----------------------------------------------------------------------------
(* Transactions.                                                           *)

Start(kind, contract, nonce, limit, f) ==
  /\ tx = NoTx /\ txs < MaxTxs
  /\ txs' = txs + 1
  /\ tx' = [kind |-> kind, contract |-> contract, nonce |-> nonce, limit |-> limit]
  /\ frames' = <<f>>
  /\ UNCHANGED <<db, info, infoSaved, steps, burnt>>

Bottom(contract, v, limit, hasCode) ==
  [op |-> "TX", caller |-> Sender, callee |-> contract, value |-> v, ro |-> FALSE,
   gas |-> limit, err |-> FALSE, done |-> ~hasCode, view |-> NewCache(db)]

\* The address of a new contract comes from the transaction's own nonce.
Create(limit) ==
  /\ <<Sender, txs + 1>> \in DOMAIN ContractAddr
  /\ LET new == ContractAddr[<<Sender, txs + 1>>]
     IN Start("create", new, txs + 1, limit,
              ensureStackDepth(CreateAccount(Bottom(new, 0, limit, TRUE), new), <<>>))
  /\ tags' = {}

\* A call is run with nonce 0; a cascade call pays the contract first.
Call(contract, v, limit) ==
  LET f == Bottom(contract, v, limit, db[contract].code)
  IN /\ db[contract].exists
     /\ Start("call", contract, 0, limit,
              ensureStackDepth(transfer(f, Sender, contract, v), <<>>))
     /\ tags' = transferEvents(f, Sender, contract, v)

\* The block is committed: its contract records can be read.
Commit ==
  /\ tx = NoTx /\ infoSaved # info
  /\ infoSaved' = info
  /\ UNCHANGED <<db, info, frames, tx, tags, txs, steps, burnt>>

Init ==
  /\ db = [a \in Addrs |-> [exists |-> Funds[a] > 0 \/ a \in Coded, bal |-> Funds[a],
                            code |-> a \in Coded, store |-> CHOOSE w \in Words : TRUE,
                            removed |-> FALSE, updated |-> FALSE]]
  /\ info = Coded /\ infoSaved = Coded
  /\ frames = <<>> /\ tx = NoTx /\ tags = {} /\ txs = 0 /\ steps = 0 /\ burnt = FALSE

Next ==
  \/ \E limit \in GasLimits :
       Create(limit) \/ \E a \in Addrs, v \in Values : Call(a, v, limit)
  \/ Compute \/ LOG \/ REVERT \/ Return \/ Commit
  \/ \E w \in Words : SSTORE(w)
  \/ \E hasCode \in BOOLEAN : RETURN(hasCode)
  \/ \E a \in Addrs : SELFDESTRUCT(a)
  \/ \E v \in Values : CREATE(v) \/ CREATE2(v)
  \/ \E op \in {"CALL", "CALLCODE", "DELEGATECALL", "STATICCALL"}, ask \in Asks :
       \E v \in IF paid(op) THEN Values ELSE {0} :
         \/ \E a \in Addrs : CallAddress(op, ask, a, v)
         \/ \E cost \in NativeGas : CallNative(op, ask, v, cost)

Spec == Init /\ [][Next]_vars

-----------------------------------------------------------------------------
(* Properties.                                                             *)

visible(x) == IF x.exists /\ ~x.removed THEN x.bal ELSE 0

visibleSum(v) == SumFunctionOnSet([a \in Addrs |-> visible(v[a])], Addrs)

Total == SumFunctionOnSet(Funds, Addrs)

conserved(v) == visibleSum(v) <= Total /\ (~burnt => visibleSum(v) = Total)

(* However calls, payments, creations, self-destructions and failures of   *)
(* inner frames nest, no layer of caches that may still be written back,   *)
(* and no transaction, makes or loses money: only an account that destroys *)
(* itself in its own favour takes its balance with it.                     *)
ValueConserved ==
  /\ conserved(db)
  /\ \A i \in 1..Len(frames) : ~frames[i].err => conserved(frames[i].view)

\* The gas of a creator is the gas of the creation it waits for.
GasLeft(fs) ==
  MapThenSumSet(LAMBDA i : IF i < Len(fs) /\ fs[Min({i + 1, Len(fs)})].op = "CREATE" THEN 0
                           ELSE fs[i].gas, 1..Len(fs))

(* Every program ends: an opcode that ends no frame and puts none in error *)
(* leaves less gas in the transaction than there was, and no call, refund  *)
(* or failure makes gas.                                                   *)
GasRunsOut ==
  [][frames # <<>> /\ frames' # <<>> =>
       /\ GasLeft(frames') <= GasLeft(frames)
       /\ Len(frames') >= Len(frames) /\ (\A i \in 1..Len(frames') : ~frames'[i].err)
            => GasLeft(frames') < GasLeft(frames)]_vars

(* A call that fails leaves nothing in its caller: neither the payment it  *)
(* carried nor what the frames under it had already written back to it.    *)
(* Nor does a STATICCALL, whichever opcodes its frame and the frames it    *)
(* opens use, and whether or not it fails.                                 *)
FailedCallLeavesNoTrace ==
  [][Len(frames) > 1 /\ Len(frames') < Len(frames) /\ (Top.err \/ Top.op = "STATICCALL") =>
       Last(frames').view = frames[Len(frames) - 1].view]_vars
=============================================================================
