------------------------------ MODULE BVMProofs ------------------------------
(***************************************************************************)
(* Proofs about module BVM: whatever the program, however its calls nest   *)
(* and fail, no cache and no transaction makes or loses money, and a call  *)
(* that fails or is static leaves the accounts of its caller as they were. *)
(***************************************************************************)
EXTENDS BVM, DataLemmas

-----------------------------------------------------------------------------
(* Accounts, views of the accounts, frames.                                *)
IsAccount(x) ==
  /\ x = [exists |-> x.exists, bal |-> x.bal, code |-> x.code, store |-> x.store,
          removed |-> x.removed, updated |-> x.updated]
  /\ x.exists \in BOOLEAN /\ x.removed \in BOOLEAN /\ x.updated \in BOOLEAN
  /\ x.bal \in Nat
  /\ x.updated => x.exists

IsView(v) == DOMAIN v = Addrs /\ v = [a \in Addrs |-> v[a]] /\ \A a \in Addrs : IsAccount(v[a])

IsFrame(f) ==
  /\ f = [op |-> f.op, caller |-> f.caller, callee |-> f.callee, value |-> f.value,
          ro |-> f.ro, gas |-> f.gas, err |-> f.err, done |-> f.done, view |-> f.view]
  /\ f.ro \in BOOLEAN /\ f.err \in BOOLEAN
  /\ f.value \in Nat /\ f.caller \in Addrs /\ f.callee \in Addrs
  /\ IsView(f.view)

(* What every opcode keeps of its frame: who it is, an error, and each     *)
(* account it does not mark as touched.                                    *)
Kept(f, g) ==
  /\ IsFrame(g)
  /\ g.op = f.op /\ g.caller = f.caller /\ g.callee = f.callee /\ g.ro = f.ro
  /\ f.err => g.err
  /\ \A a \in Addrs : g.view[a] = f.view[a] \/ touched(g, a)

(* The money in the view is the same, unless the frame is in error.        *)
Balanced(f, g) == g.err \/ visibleSum(g.view) = visibleSum(f.view)

Steps(f, g) == Kept(f, g) /\ Balanced(f, g)

-----------------------------------------------------------------------------
(* The money in two views that show the same balances.                     *)
LEMMA SameSum ==
  ASSUME NEW v, NEW w, \A a \in Addrs : visible(w[a]) = visible(v[a])
  PROVE  visibleSum(w) = visibleSum(v)
BY DEF visibleSum

(* The balances that a view shows are numbers, and so is their sum.        *)
LEMMA SumOfView ==
  ASSUME NEW v, IsView(v)
  PROVE  visibleSum(v) \in Int /\ \A a \in Addrs : visible(v[a]) \in Nat
<1>1. \A a \in Addrs : visible(v[a]) \in Nat
  BY DEF IsView, IsAccount, visible
<1>2. \A a \in Addrs : [b \in Addrs |-> visible(v[b])][a] \in Int
  BY <1>1
<1> QED BY <1>1, <1>2, SumType, BVMAssumption DEF visibleSum

(* The money in two views that differ at one address.                      *)
LEMMA SumAt ==
  ASSUME NEW v, IsView(v), NEW w, IsView(w), NEW a \in Addrs,
         \A b \in Addrs : b # a => visible(w[b]) = visible(v[b])
  PROVE  visibleSum(w) = visibleSum(v) + (visible(w[a]) - visible(v[a]))
<1> DEFINE f == [b \in Addrs |-> visible(v[b])]
           h == [b \in Addrs |-> visible(w[b])]
<1>1. \A b \in Addrs : f[b] \in Int /\ h[b] \in Int /\ (b # a => h[b] = f[b])
  BY SumOfView
<1> HIDE DEF f, h
<1>2. SumFunctionOnSet(h, Addrs) = SumFunctionOnSet(f, Addrs) + (h[a] - f[a])
  BY <1>1, SumChange, BVMAssumption
<1> QED BY <1>2 DEF visibleSum, f, h

(* Opcodes one after the other.                                            *)
LEMMA StepsCompose ==
  ASSUME NEW f, NEW g, NEW h, Steps(f, g), Steps(g, h)
  PROVE  Steps(f, h)
<1>1. \A a \in Addrs : h.view[a] = f.view[a] \/ touched(h, a)
  BY DEF Steps, Kept, touched
<1> QED BY <1>1 DEF Steps, Kept, Balanced

(* A frame in which only gas, value or error change.                       *)
LEMMA SameView ==
  ASSUME NEW f, IsFrame(f), NEW g, IsFrame(g), g.view = f.view,
         g.op = f.op, g.caller = f.caller, g.callee = f.callee, g.ro = f.ro,
         f.err => g.err
  PROVE  Steps(f, g)
BY DEF Steps, Kept, Balanced

(* PushError keeps the first error and touches no account.                 *)
LEMMA PushErrorSteps ==
  ASSUME NEW f, IsFrame(f), NEW e \in BOOLEAN
  PROVE  LET g == PushError(f, e) IN
         IsFrame(g) /\ Steps(f, g) /\ g.view = f.view /\ g.err = (f.err \/ e)
<1> DEFINE g == PushError(f, e)
<1>1. /\ IsFrame(g) /\ g.view = f.view /\ g.err = (f.err \/ e)
      /\ g.op = f.op /\ g.caller = f.caller /\ g.callee = f.callee /\ g.ro = f.ro
  BY DEF PushError, IsFrame
<1> HIDE DEF g
<1>2. Steps(f, g)
  BY <1>1, SameView
<1> QED BY <1>1, <1>2 DEF g

(* The gas of a frame is all that changes.                                 *)
LEMMA GasSteps ==
  ASSUME NEW f, IsFrame(f), NEW n
  PROVE  LET g == [f EXCEPT !.gas = n] IN
         IsFrame(g) /\ Steps(f, g) /\ g.view = f.view /\ g.err = f.err
<1> DEFINE g == [f EXCEPT !.gas = n]
<1>1. /\ IsFrame(g) /\ g.view = f.view /\ g.err = f.err
      /\ g.op = f.op /\ g.caller = f.caller /\ g.callee = f.callee /\ g.ro = f.ro
  BY DEF IsFrame
<1> HIDE DEF g
<1>2. Steps(f, g)
  BY <1>1, SameView
<1> QED BY <1>1, <1>2 DEF g

(* useGasNegative takes gas or records an error, and touches no account.   *)
LEMMA useGasNegativeSteps ==
  ASSUME NEW f, IsFrame(f), NEW c
  PROVE  LET g == useGasNegative(f, c) IN IsFrame(g) /\ Steps(f, g) /\ g.view = f.view
<1> DEFINE g == useGasNegative(f, c)
<1>1. CASE f.gas >= c
  <2>1. g = [f EXCEPT !.gas = f.gas - c]
    BY <1>1 DEF useGasNegative
  <2> HIDE DEF g
  <2>2. IsFrame(g) /\ Steps(f, g) /\ g.view = f.view
    BY <2>1, GasSteps
  <2> QED BY <2>2 DEF g
<1>2. CASE ~(f.gas >= c)
  <2>1. g = PushError(f, TRUE)
    BY <1>2 DEF useGasNegative
  <2> HIDE DEF g
  <2>2. IsFrame(g) /\ Steps(f, g) /\ g.view = f.view
    BY <2>1, PushErrorSteps
  <2> QED BY <2>2 DEF g
<1> QED BY <1>1, <1>2

(* useGas takes gas or records an error, and touches no account.           *)
LEMMA useGasSteps ==
  ASSUME NEW f, IsFrame(f), NEW k
  PROVE  LET g == useGas(f, k) IN IsFrame(g) /\ Steps(f, g) /\ g.view = f.view
<1> DEFINE g == useGas(f, k)
<1>1. CASE k = 0
  <2>1. g = f
    BY <1>1 DEF useGas
  <2> QED BY <2>1, SameView
<1>2. CASE k # 0 /\ f.gas > k * GasStackOp
  BY <1>2, GasSteps DEF useGas
<1>3. CASE k # 0 /\ ~(f.gas > k * GasStackOp)
  <2> DEFINE h == [f EXCEPT !.gas = IF f.gas = 0 THEN 0 ELSE 1]
  <2>1. IsFrame(h) /\ Steps(f, h) /\ h.view = f.view
    BY GasSteps
  <2>2. g = PushError(h, TRUE)
    BY <1>3 DEF useGas
  <2> HIDE DEF h
  <2> HIDE DEF g
  <2>3. IsFrame(g) /\ Steps(h, g) /\ g.view = h.view
    BY <2>1, <2>2, PushErrorSteps
  <2>4. IsFrame(g) /\ Steps(f, g) /\ g.view = f.view
    BY <2>1, <2>3, StepsCompose
  <2> QED BY <2>4 DEF g
<1> QED BY <1>1, <1>2, <1>3

(* The gas and the stack checks of an opcode touch no account.             *)
LEMMA OpcodeSteps ==
  ASSUME NEW f, IsFrame(f), NEW k
  PROVE  LET g == Opcode(f, k) IN IsFrame(g) /\ Steps(f, g) /\ g.view = f.view
<1> DEFINE h == useGasNegative(f, GasBaseOp)
<1>1. IsFrame(h) /\ Steps(f, h) /\ h.view = f.view
  BY useGasNegativeSteps
<1> HIDE DEF h
<1>2. LET g == useGas(h, k) IN IsFrame(g) /\ Steps(h, g) /\ g.view = h.view
  BY <1>1, useGasSteps
<1> QED BY <1>1, <1>2, StepsCompose DEF Opcode, h

-----------------------------------------------------------------------------
(* One account x in the place of that at address a.                        *)
LEMMA AccountSet ==
  ASSUME NEW f, IsFrame(f), NEW a \in Addrs, NEW x, IsAccount(x), x.removed \/ x.updated
  PROVE  LET g == [f EXCEPT !.view[a] = x] IN
         /\ Kept(f, g) /\ g.err = f.err /\ g.view[a] = x
         /\ \A b \in Addrs : b # a => g.view[b] = f.view[b]
         /\ visibleSum(g.view) = visibleSum(f.view) + (visible(x) - visible(f.view[a]))
<1> DEFINE g == [f EXCEPT !.view[a] = x]
           v == [f.view EXCEPT ![a] = x]
<1>1. IsView(f.view)
  BY DEF IsFrame
<1>2. /\ IsView(v) /\ v[a] = x
      /\ \A b \in Addrs : b # a => v[b] = f.view[b]
  <2>1. /\ DOMAIN v = Addrs /\ v = [b \in Addrs |-> v[b]] /\ v[a] = x
        /\ \A b \in Addrs : b # a => v[b] = f.view[b]
    BY <1>1 DEF IsView
  <2> HIDE DEF v
  <2>2. \A b \in Addrs : IsAccount(v[b])
    BY <1>1, <2>1 DEF IsView
  <2> QED BY <2>1, <2>2 DEF IsView
<1>3. g = [f EXCEPT !.view = v]
  OBVIOUS
<1> HIDE DEF v, g
<1>4. /\ g.view = v /\ g.err = f.err /\ IsFrame(g)
      /\ g.op = f.op /\ g.caller = f.caller /\ g.callee = f.callee /\ g.ro = f.ro
  BY <1>2, <1>3 DEF IsFrame
<1>5. Kept(f, g)
  BY <1>2, <1>4 DEF Kept, touched
<1>6. visibleSum(v) = visibleSum(f.view) + (visible(v[a]) - visible(f.view[a]))
  <2>1. \A b \in Addrs : b # a => visible(v[b]) = visible(f.view[b])
    BY <1>2
  <2> QED BY <1>1, <1>2, <2>1, SumAt
<1> QED BY <1>2, <1>4, <1>5, <1>6 DEF g

(* An account that is written, and one whose storage is.                   *)
Put(y, bal, code) ==
  [y EXCEPT !.exists = TRUE, !.bal = bal, !.code = code, !.updated = TRUE]

(* An account that is written exists and holds the balance it is given.    *)
LEMMA AccountWritten ==
  ASSUME NEW y, IsAccount(y), NEW bal \in Nat, NEW code
  PROVE  LET x == Put(y, bal, code) IN
         /\ IsAccount(x)
         /\ x.exists /\ x.removed = y.removed /\ x.updated /\ x.bal = bal
<1> DEFINE x == Put(y, bal, code)
<1>0. x = [y EXCEPT !.exists = TRUE, !.bal = bal, !.code = code, !.updated = TRUE]
  BY DEF Put
<1> HIDE DEF x
<1>1. x = [exists |-> TRUE, bal |-> bal, code |-> code, store |-> y.store,
           removed |-> y.removed, updated |-> TRUE]
  BY <1>0 DEF IsAccount
<1>2. y.removed \in BOOLEAN
  BY DEF IsAccount
<1>3. /\ x.exists /\ x.removed = y.removed /\ x.updated /\ x.bal = bal
      /\ x.code = code /\ x.store = y.store
  BY <1>1
<1>4. IsAccount(x)
  BY <1>1, <1>2, <1>3 DEF IsAccount
<1> QED BY <1>3, <1>4 DEF x

(* A write of storage leaves the balance.                                  *)
LEMMA AccountStored ==
  ASSUME NEW y, IsAccount(y), y.exists, NEW w, NEW x, x = [y EXCEPT !.store = w, !.updated = TRUE]
  PROVE  IsAccount(x) /\ x.updated /\ visible(x) = visible(y)
<1>1. x = [exists |-> y.exists, bal |-> y.bal, code |-> y.code, store |-> w,
           removed |-> y.removed, updated |-> TRUE]
  BY DEF IsAccount
<1>2. y.removed \in BOOLEAN /\ y.exists \in BOOLEAN /\ y.bal \in Nat
  BY DEF IsAccount
<1>3. /\ x.exists = y.exists /\ x.removed = y.removed /\ x.updated /\ x.bal = y.bal
      /\ x.code = y.code /\ x.store = w
  BY <1>1
<1> QED BY <1>1, <1>2, <1>3 DEF IsAccount, visible

(* A removed account shows no balance.                                     *)
LEMMA AccountRemoved ==
  ASSUME NEW y, IsAccount(y), NEW x, x = [y EXCEPT !.removed = TRUE]
  PROVE  IsAccount(x) /\ x.removed /\ visible(x) = 0
<1>1. x = [exists |-> y.exists, bal |-> y.bal, code |-> y.code, store |-> y.store,
           removed |-> TRUE, updated |-> y.updated]
  BY DEF IsAccount
<1>2. y.updated \in BOOLEAN /\ y.exists \in BOOLEAN /\ y.bal \in Nat
  BY DEF IsAccount
<1>3. /\ x.exists = y.exists /\ x.removed /\ x.updated = y.updated /\ x.bal = y.bal
      /\ x.code = y.code /\ x.store = y.store
  BY <1>1
<1> QED BY <1>1, <1>2, <1>3 DEF IsAccount, visible

(* An account that takes over whether the one under it was removed keeps   *)
(* its balance unless it was.                                              *)
LEMMA AccountSynced ==
  ASSUME NEW y, IsAccount(y), NEW z, IsAccount(z), NEW x,
         ~y.removed, y.updated, x = [y EXCEPT !.removed = z.removed]
  PROVE  IsAccount(x) /\ x.updated /\ (~z.removed => visible(x) = visible(y))
<1>1. x = [exists |-> y.exists, bal |-> y.bal, code |-> y.code, store |-> y.store,
           removed |-> z.removed, updated |-> y.updated]
  BY DEF IsAccount
<1>2. /\ y.updated \in BOOLEAN /\ y.exists \in BOOLEAN /\ y.bal \in Nat
      /\ z.removed \in BOOLEAN
  BY DEF IsAccount
<1>3. /\ x.exists = y.exists /\ x.removed = z.removed /\ x.updated = y.updated
      /\ x.bal = y.bal /\ x.code = y.code /\ x.store = y.store
  BY <1>1
<1> QED BY <1>1, <1>2, <1>3 DEF IsAccount, visible

(* What two steps of a frame keep, both keep.                              *)
LEMMA KeptCompose ==
  ASSUME NEW f, NEW g, NEW h, Kept(f, g), Kept(g, h)
  PROVE  Kept(f, h)
<1>1. \A a \in Addrs : h.view[a] = f.view[a] \/ touched(h, a)
  BY DEF Kept, touched
<1> QED BY <1>1 DEF Kept

(* UpdateAccount writes a balance, or the frame is in error and the view   *)
(* is as before.                                                           *)
Writes(f, g, a, bal) ==
  /\ Kept(f, g)
  /\ \A b \in Addrs : b # a => g.view[b] = f.view[b]
  /\ \/ g.err /\ g.view = f.view
     \/ /\ g.err = f.err /\ Exists(g, a) /\ g.view[a].bal = bal
        /\ visibleSum(g.view) = visibleSum(f.view) + (bal - visible(f.view[a]))

(* updateAccount writes one account and nothing else.                      *)
LEMMA UpdateAccountWrites ==
  ASSUME NEW f, IsFrame(f), NEW a \in Addrs, NEW bal \in Nat, NEW code
  PROVE  Writes(f, UpdateAccount(f, a, bal, code), a, bal)
<1> DEFINE g == UpdateAccount(f, a, bal, code)
           x == [f.view[a] EXCEPT !.exists = TRUE, !.bal = bal, !.code = code,
                                  !.updated = TRUE]
<1>1. IsAccount(f.view[a])
  BY DEF IsFrame, IsView
<1>2. CASE f.ro \/ f.view[a].removed
  <2>1. g = PushError(f, TRUE)
    BY <1>2 DEF UpdateAccount
  <2> HIDE DEF g
  <2>2. Steps(f, g) /\ g.view = f.view /\ g.err = (f.err \/ TRUE)
    BY <2>1, PushErrorSteps
  <2>3. Writes(f, g, a, bal)
    BY <2>2 DEF Steps, Writes
  <2> QED BY <2>3 DEF g
<1>3. CASE ~(f.ro \/ f.view[a].removed)
  <2>1. g = [f EXCEPT !.view[a] = x]
    BY <1>3 DEF UpdateAccount
  <2>2. /\ x.exists /\ ~x.removed /\ x.updated /\ x.bal = bal
        /\ IsAccount(x)
    <3>1. ~f.view[a].removed
      BY <1>1, <1>3 DEF IsAccount
    <3>2. x = Put(f.view[a], bal, code)
      BY DEF Put
    <3> HIDE DEF x
    <3> QED BY <1>1, <3>1, <3>2, AccountWritten
  <2> HIDE DEF g, x
  <2>3. /\ Kept(f, g) /\ g.err = f.err /\ g.view[a] = x
        /\ \A b \in Addrs : b # a => g.view[b] = f.view[b]
        /\ visibleSum(g.view) = visibleSum(f.view) + (visible(x) - visible(f.view[a]))
    BY <2>1, <2>2, AccountSet
  <2>4. visible(x) = bal /\ Exists(g, a) /\ g.view[a].bal = bal
    BY <2>2, <2>3 DEF visible, Exists
  <2>5. Writes(f, g, a, bal)
    BY <2>3, <2>4 DEF Writes
  <2> QED BY <2>5 DEF g
<1> QED BY <1>2, <1>3

(* A balance written anew that is the one there was.                       *)
LEMMA SameBalance ==
  ASSUME NEW f, IsFrame(f), NEW g, NEW a \in Addrs, Writes(f, g, a, visible(f.view[a]))
  PROVE  Steps(f, g) /\ visibleSum(g.view) = visibleSum(f.view)
<1>1. visibleSum(f.view) \in Int /\ visible(f.view[a]) \in Nat
  BY SumOfView DEF IsFrame
<1>2. visibleSum(g.view) = visibleSum(f.view)
  BY <1>1 DEF Writes
<1> QED BY <1>2 DEF Writes, Steps, Balanced

(* CreateAccount gives the new account no money: the sum is as before.     *)
LEMMA CreateAccountSteps ==
  ASSUME NEW f, IsFrame(f), NEW a \in Addrs
  PROVE  LET g == CreateAccount(f, a) IN
         Steps(f, g) /\ visibleSum(g.view) = visibleSum(f.view)
<1> DEFINE g == CreateAccount(f, a)
<1>1. CASE Exists(f, a)
  <2>1. g = PushError(f, TRUE)
    BY <1>1 DEF CreateAccount
  <2> HIDE DEF g
  <2>2. Steps(f, g) /\ g.view = f.view
    BY <2>1, PushErrorSteps
  <2> QED BY <2>2 DEF g
<1>2. CASE ~Exists(f, a)
  <2>1. visible(f.view[a]) = 0
    BY <1>2 DEF Exists, visible
  <2>2. Writes(f, g, a, 0)
    BY <1>2, UpdateAccountWrites DEF CreateAccount
  <2> HIDE DEF g
  <2>3. Steps(f, g) /\ visibleSum(g.view) = visibleSum(f.view)
    BY <2>1, <2>2, SameBalance
  <2> QED BY <2>3 DEF g
<1> QED BY <1>1, <1>2

(* InitCode changes no balance, or fails.                                  *)
LEMMA InitCodeSteps ==
  ASSUME NEW f, IsFrame(f), NEW a \in Addrs, NEW hasCode
  PROVE  Steps(f, InitCode(f, a, hasCode))
<1> DEFINE g == InitCode(f, a, hasCode)
<1>1. CASE ~(Exists(f, a) /\ ~f.view[a].code)
  BY <1>1, PushErrorSteps DEF InitCode
<1>2. CASE Exists(f, a) /\ ~f.view[a].code
  <2>1. visible(f.view[a]) = f.view[a].bal /\ f.view[a].bal \in Nat
    BY <1>2 DEF Exists, visible, IsFrame, IsView, IsAccount
  <2>2. Writes(f, g, a, f.view[a].bal)
    BY <1>2, <2>1, UpdateAccountWrites DEF InitCode
  <2> HIDE DEF g
  <2>3. Steps(f, g)
    BY <2>1, <2>2, SameBalance
  <2> QED BY <2>3 DEF g
<1> QED BY <1>1, <1>2

(* SetStorage changes no balance, or fails.                                *)
LEMMA SetStorageSteps ==
  ASSUME NEW f, IsFrame(f), NEW a \in Addrs, NEW w
  PROVE  Steps(f, SetStorage(f, a, w))
<1> DEFINE g == SetStorage(f, a, w)
           x == [f.view[a] EXCEPT !.store = w, !.updated = TRUE]
<1>1. CASE f.ro \/ ~Exists(f, a)
  BY <1>1, PushErrorSteps DEF SetStorage
<1>2. CASE ~(f.ro \/ ~Exists(f, a))
  <2>1. g = [f EXCEPT !.view[a] = x]
    BY <1>2 DEF SetStorage
  <2>2. IsAccount(f.view[a]) /\ f.view[a].exists
    BY <1>2 DEF IsFrame, IsView, Exists
  <2>3. IsAccount(x) /\ x.updated /\ visible(x) = visible(f.view[a])
    BY <2>2, AccountStored
  <2> HIDE DEF g, x
  <2>4. /\ Kept(f, g)
        /\ visibleSum(g.view) = visibleSum(f.view) + (visible(x) - visible(f.view[a]))
    BY <2>1, <2>3, AccountSet
  <2>5. visibleSum(f.view) \in Int /\ visible(f.view[a]) \in Nat
    BY SumOfView DEF IsFrame
  <2>6. Steps(f, g)
    BY <2>3, <2>4, <2>5 DEF Steps, Balanced
  <2> QED BY <2>6 DEF g
<1> QED BY <1>1, <1>2

(* An account with its balance.                                            *)
LEMMA BalanceOf ==
  ASSUME NEW f, IsFrame(f), NEW a \in Addrs
  PROVE  /\ visibleSum(f.view) \in Int
         /\ visible(f.view[a]) \in Nat /\ GetBalance(f, a) = visible(f.view[a])
         /\ Exists(f, a) => f.view[a].bal = visible(f.view[a])
<1>1. visibleSum(f.view) \in Int /\ visible(f.view[a]) \in Nat
  BY SumOfView DEF IsFrame
<1> QED BY <1>1 DEF GetBalance, Exists, visible

(* What is added to a balance is added to the money of the view.           *)
LEMMA AddToBalanceAdds ==
  ASSUME NEW f, IsFrame(f), NEW a \in Addrs, NEW v \in Nat
  PROVE  LET g == AddToBalance(f, a, v) IN
         /\ Kept(f, g)
         /\ g.err \/ /\ visibleSum(g.view) = visibleSum(f.view) + v
                     /\ Exists(f, a) /\ Exists(g, a)
                     /\ visible(g.view[a]) = visible(f.view[a]) + v
                     /\ \A b \in Addrs : b # a => g.view[b] = f.view[b]
<1> DEFINE g == AddToBalance(f, a, v)
           n == visible(f.view[a])
<1>1. CASE ~Exists(f, a)
  <2>1. g = PushError(f, TRUE)
    BY <1>1 DEF AddToBalance
  <2> HIDE DEF g
  <2>2. Steps(f, g) /\ g.err
    BY <2>1, PushErrorSteps
  <2> QED BY <2>2 DEF g, Steps
<1>2. CASE Exists(f, a)
  <2>1. visibleSum(f.view) \in Int /\ n \in Nat /\ f.view[a].bal = n
    BY <1>2, BalanceOf
  <2>2. n + v \in Nat
    BY <2>1
  <2>3. g = UpdateAccount(f, a, n + v, f.view[a].code)
    BY <1>2, <2>1 DEF AddToBalance
  <2> HIDE DEF g, n
  <2>4. Writes(f, g, a, n + v)
    BY <2>2, <2>3, UpdateAccountWrites
  <2>5. Kept(f, g) /\ \A b \in Addrs : b # a => g.view[b] = f.view[b]
    BY <2>4 DEF Writes
  <2>6. CASE g.err
    BY <2>5, <2>6 DEF g
  <2>7. CASE ~g.err
    <3>1. g.err = f.err /\ f.err \in BOOLEAN /\ g.err \in BOOLEAN
      BY <2>4, <2>5, <2>7 DEF Writes, Kept, IsFrame
    <3>2. /\ Exists(g, a) /\ g.view[a].bal = n + v
          /\ visibleSum(g.view) = visibleSum(f.view) + (n + v - n)
      <4>1. Exists(g, a) /\ g.view[a].bal = n + v
        BY <2>4, <2>7 DEF Writes
      <4>2. PICK m \in Nat : m = n + v /\ Writes(f, g, a, m)
        BY <2>2, <2>4
      <4>3. visibleSum(g.view) = visibleSum(f.view) + (m - n)
        BY <2>7, <4>2 DEF Writes, n
      <4> QED BY <2>1, <4>1, <4>2, <4>3
    <3>3. n + v - n = v
      BY <2>1
    <3>4. visible(g.view[a]) = n + v
      BY <3>2 DEF Exists, visible
    <3> QED BY <1>2, <2>5, <3>2, <3>3, <3>4 DEF g, n
  <2> QED BY <2>6, <2>7
<1> QED BY <1>1, <1>2

(* What is taken from a balance, if it is there, is taken from the view.   *)
LEMMA SubtractFromBalanceTakes ==
  ASSUME NEW f, IsFrame(f), NEW a \in Addrs, NEW v \in Nat
  PROVE  LET g == SubtractFromBalance(f, a, v) IN
         /\ Kept(f, g)
         /\ g.err \/ visibleSum(g.view) = visibleSum(f.view) - v
<1> DEFINE g == SubtractFromBalance(f, a, v)
           n == visible(f.view[a])
<1>1. CASE ~Exists(f, a)
  <2>1. g = PushError(f, TRUE)
    BY <1>1 DEF SubtractFromBalance
  <2> HIDE DEF g
  <2>2. Steps(f, g) /\ g.err
    BY <2>1, PushErrorSteps
  <2> QED BY <2>2 DEF g, Steps
<1>2. CASE Exists(f, a)
  <2> DEFINE h == PushError(f, v > n)
             m == IF v > n THEN n ELSE n - v
  <2>1. visibleSum(f.view) \in Int /\ n \in Nat /\ f.view[a].bal = n
    BY <1>2, BalanceOf
  <2>2. m \in Nat
    BY <2>1
  <2>3. g = UpdateAccount(h, a, m, f.view[a].code)
    BY <1>2, <2>1 DEF SubtractFromBalance
  <2>4. IsFrame(h) /\ Kept(f, h) /\ h.view = f.view /\ (v > n => h.err)
    <3>1. (v > n) \in BOOLEAN
      OBVIOUS
    <3>2. IsFrame(h) /\ Steps(f, h) /\ h.view = f.view /\ h.err = (f.err \/ v > n)
      BY <3>1, PushErrorSteps, Zenon
    <3> HIDE DEF h, n
    <3> QED BY <3>2 DEF Steps
  <2> HIDE DEF g, h, m, n
  <2>5. Writes(h, g, a, m)
    BY <2>2, <2>3, <2>4, UpdateAccountWrites
  <2>6. Kept(f, g)
    BY <2>4, <2>5, KeptCompose DEF Writes
  <2>7. ASSUME ~g.err PROVE visibleSum(g.view) = visibleSum(f.view) - v
    <3>1. ~(v > n)
      BY <2>4, <2>5, <2>7 DEF Writes, Kept
    <3>2. visibleSum(g.view) = visibleSum(f.view) + (m - n)
      BY <2>4, <2>5, <2>7 DEF Writes, n
    <3>3. m = n - v
      BY <3>1 DEF m
    <3> QED BY <2>1, <3>2, <3>3
  <2> QED BY <2>6, <2>7 DEF g
<1> QED BY <1>1, <1>2

(* A payment takes from one account what it gives to another, or to the    *)
(* same one, or puts the frame in error.                                   *)
LEMMA transferSteps ==
  ASSUME NEW f, IsFrame(f), NEW from \in Addrs, NEW to \in Addrs, NEW v \in Nat
  PROVE  Steps(f, transfer(f, from, to, v))
<1> DEFINE g == transfer(f, from, to, v)
<1>1. CASE v = 0
  <2>1. g = f
    BY <1>1 DEF transfer
  <2> QED BY <2>1, SameView
<1>2. CASE v # 0 /\ GetBalance(f, from) < v
  BY <1>2, PushErrorSteps DEF transfer
<1>3. CASE v # 0 /\ ~(GetBalance(f, from) < v)
  <2> DEFINE h == SubtractFromBalance(f, from, v)
  <2>1. g = AddToBalance(h, to, v)
    BY <1>3 DEF transfer
  <2>2. Kept(f, h) /\ (h.err \/ visibleSum(h.view) = visibleSum(f.view) - v)
    BY SubtractFromBalanceTakes
  <2>3. visibleSum(f.view) \in Int
    BY BalanceOf
  <2> HIDE DEF g, h
  <2>4. IsFrame(h)
    BY <2>2 DEF Kept
  <2>5. Kept(h, g) /\ (g.err \/ visibleSum(g.view) = visibleSum(h.view) + v)
    BY <2>1, <2>4, AddToBalanceAdds
  <2>6. Kept(f, g)
    BY <2>2, <2>5, KeptCompose
  <2>7. ASSUME ~g.err PROVE visibleSum(g.view) = visibleSum(f.view)
    <3>1. ~h.err
      BY <2>5, <2>7 DEF Kept
    <3> QED BY <2>2, <2>3, <2>5, <2>7, <3>1
  <2>8. Steps(f, g)
    BY <2>6, <2>7 DEF Steps, Balanced
  <2> QED BY <2>8 DEF g
<1> QED BY <1>1, <1>2, <1>3

(* An account removed takes its balance with it.                           *)
LEMMA RemoveAccountTakes ==
  ASSUME NEW f, IsFrame(f), NEW a \in Addrs
  PROVE  LET g == RemoveAccount(f, a) IN
         /\ Kept(f, g)
         /\ g.err \/ visibleSum(g.view) = visibleSum(f.view) - visible(f.view[a])
<1> DEFINE g == RemoveAccount(f, a)
           x == [f.view[a] EXCEPT !.removed = TRUE]
<1>1. CASE f.ro \/ ~Exists(f, a)
  <2>1. g = PushError(f, TRUE)
    BY <1>1 DEF RemoveAccount
  <2> HIDE DEF g
  <2>2. Steps(f, g) /\ g.err
    BY <2>1, PushErrorSteps
  <2> QED BY <2>2 DEF g, Steps
<1>2. CASE ~(f.ro \/ ~Exists(f, a))
  <2>1. g = [f EXCEPT !.view[a] = x]
    BY <1>2 DEF RemoveAccount
  <2>2. IsAccount(f.view[a])
    BY DEF IsFrame, IsView
  <2>3. IsAccount(x) /\ x.removed /\ visible(x) = 0
    BY <2>2, AccountRemoved
  <2> HIDE DEF g, x
  <2>4. /\ Kept(f, g)
        /\ visibleSum(g.view) = visibleSum(f.view) + (visible(x) - visible(f.view[a]))
    BY <2>1, <2>3, AccountSet
  <2>5. visibleSum(f.view) \in Int /\ visible(f.view[a]) \in Nat
    BY BalanceOf
  <2> QED BY <2>3, <2>4, <2>5 DEF g
<1> QED BY <1>1, <1>2

(* A contract that destroys itself gives its balance to r, and loses it    *)
(* when it is r itself.                                                    *)
LEMMA selfdestructGives ==
  ASSUME NEW f, IsFrame(f), NEW r \in Addrs
  PROVE  LET g == selfdestruct(f, r) IN
         /\ Kept(f, g)
         /\ g.err \/ /\ visibleSum(g.view) <= visibleSum(f.view)
                     /\ \/ r = f.callee /\ GetBalance(f, r) > 0
                        \/ visibleSum(g.view) = visibleSum(f.view)
<1> DEFINE g == selfdestruct(f, r)
           v == GetBalance(f, f.callee)
           h == AddToBalance(f, r, v)
           a == f.callee
<1>1. a \in Addrs /\ v \in Nat /\ v = visible(f.view[a]) /\ visibleSum(f.view) \in Int
  <2>1. a \in Addrs
    BY DEF IsFrame
  <2> QED BY <2>1, BalanceOf
<1>2. /\ Kept(f, h)
      /\ h.err \/ /\ visibleSum(h.view) = visibleSum(f.view) + v
                  /\ visible(h.view[r]) = visible(f.view[r]) + v
                  /\ \A b \in Addrs : b # r => h.view[b] = f.view[b]
  <2> HIDE DEF v
  <2> QED BY <1>1, AddToBalanceAdds
<1>3. g = RemoveAccount(h, a)
  BY DEF selfdestruct
<1> HIDE DEF g, h
<1>4. IsFrame(h)
  BY <1>2 DEF Kept
<1>5. Kept(h, g) /\ (g.err \/ visibleSum(g.view) = visibleSum(h.view) - visible(h.view[a]))
  BY <1>1, <1>3, <1>4, RemoveAccountTakes
<1>6. Kept(f, g)
  BY <1>2, <1>5, KeptCompose
<1>7. ASSUME ~g.err
      PROVE  /\ visibleSum(g.view) <= visibleSum(f.view)
             /\ \/ r = a /\ GetBalance(f, r) > 0
                \/ visibleSum(g.view) = visibleSum(f.view)
  <2>1. ~h.err
    BY <1>5, <1>7 DEF Kept
  <2>2. CASE r = a
    <3>1. visibleSum(g.view) = visibleSum(f.view) + v - (v + v)
      BY <1>1, <1>2, <1>5, <1>7, <2>1, <2>2
    <3>2. GetBalance(f, r) = v
      BY <2>2
    <3> HIDE DEF v
    <3> QED BY <1>1, <2>2, <3>1, <3>2
  <2>3. CASE r # a
    <3>1. visibleSum(g.view) = visibleSum(f.view) + v - v
      BY <1>1, <1>2, <1>5, <1>7, <2>1, <2>3
    <3> HIDE DEF v
    <3> QED BY <1>1, <3>1
  <2> QED BY <2>2, <2>3
<1> QED BY <1>6, <1>7 DEF g

-----------------------------------------------------------------------------
(* Caches: an account that the frame f has not touched is what the         *)
(* accounts v below it show.                                               *)
Over(f, v) == \A a \in Addrs : touched(f, a) \/ f.view[a] = GetAccount(v[a])

(* What is read of an account is one, and shows the same balance.          *)
LEMMA AccountRead ==
  ASSUME NEW y, IsAccount(y)
  PROVE  IsAccount(GetAccount(y)) /\ visible(GetAccount(y)) = visible(y)
<1> DEFINE there == y.exists /\ ~y.removed
           n == IF there THEN y.bal ELSE 0
           x == GetAccount(y)
<1>1. there \in BOOLEAN /\ y.bal \in Nat
  BY DEF IsAccount
<1>2. n \in Nat /\ n = visible(y) /\ (~there => n = 0)
  BY <1>1 DEF visible
<1>3. PICK c : x = [exists |-> there, bal |-> n, code |-> c, store |-> y.store,
                    removed |-> FALSE, updated |-> FALSE]
  BY DEF GetAccount
<1> HIDE DEF there, n, x
<1>4. /\ x.exists = there /\ x.bal = n /\ x.code = c /\ x.store = y.store
      /\ ~x.removed /\ ~x.updated /\ x.removed \in BOOLEAN /\ x.updated \in BOOLEAN
  BY <1>3
<1>5. IsAccount(x)
  BY <1>1, <1>2, <1>3, <1>4 DEF IsAccount
<1>6. visible(x) = n
  BY <1>1, <1>2, <1>4 DEF visible
<1> QED BY <1>2, <1>5, <1>6 DEF x

(* A new cache shows the accounts of the state it is laid over.            *)
LEMMA NewCacheShows ==
  ASSUME NEW v, IsView(v)
  PROVE  /\ IsView(NewCache(v)) /\ visibleSum(NewCache(v)) = visibleSum(v)
         /\ \A a \in Addrs : NewCache(v)[a] = GetAccount(v[a])
<1> DEFINE w == NewCache(v)
<1>1. w = [a \in Addrs |-> GetAccount(v[a])]
  BY DEF NewCache
<1> HIDE DEF w
<1>2. \A a \in Addrs : w[a] = GetAccount(v[a])
  BY <1>1
<1>3. \A a \in Addrs : IsAccount(w[a]) /\ visible(w[a]) = visible(v[a])
  BY <1>2, AccountRead DEF IsView
<1>4. IsView(w)
  BY <1>1, <1>3 DEF IsView
<1>5. visibleSum(w) = visibleSum(v)
  BY <1>3, SameSum
<1> QED BY <1>2, <1>4, <1>5 DEF w

(* A frame that is kept still lies over the state it was opened on.        *)
LEMMA OverKept ==
  ASSUME NEW f, NEW g, NEW v, Over(f, v), Kept(f, g)
  PROVE  Over(g, v)
BY DEF Over, Kept, touched

(* A frame that a call or a creation opens.                                *)
LEMMA ChildOpened ==
  ASSUME NEW p, IsFrame(p), NEW op, NEW by \in Addrs, NEW at \in Addrs,
         NEW v \in Nat, NEW gas
  PROVE  LET f == Child(p, op, by, at, v, gas) IN
         /\ IsFrame(f) /\ Over(f, p.view) /\ visibleSum(f.view) = visibleSum(p.view)
         /\ ~f.err /\ f.op = op /\ f.callee = at /\ (op = "STATICCALL" => f.ro)
<1> DEFINE f == Child(p, op, by, at, v, gas)
           ro == readOnlyOf(p, op)
           w == NewCache(p.view)
<1>1. IsView(w) /\ visibleSum(w) = visibleSum(p.view)
      /\ \A a \in Addrs : w[a] = GetAccount(p.view[a])
  BY NewCacheShows DEF IsFrame
<1>2. f = [op |-> op, caller |-> by, callee |-> at, value |-> v, ro |-> ro, gas |-> gas,
           err |-> FALSE, done |-> FALSE, view |-> w]
  BY DEF Child
<1>3. ro \in BOOLEAN /\ (op = "STATICCALL" => ro)
  BY DEF readOnlyOf, IsFrame
<1> HIDE DEF f, ro, w
<1>4. /\ f.op = op /\ f.caller = by /\ f.callee = at /\ f.value = v /\ f.ro = ro
      /\ f.gas = gas /\ f.view = w /\ ~f.err /\ f.err \in BOOLEAN
  BY <1>2
<1>5. f = [op |-> f.op, caller |-> f.caller, callee |-> f.callee, value |-> f.value,
           ro |-> f.ro, gas |-> f.gas, err |-> f.err, done |-> f.done, view |-> f.view]
  BY <1>2
<1>6. IsFrame(f)
  BY <1>1, <1>3, <1>4, <1>5 DEF IsFrame
<1>7. Over(f, p.view)
  BY <1>1, <1>4 DEF Over
<1> QED BY <1>1, <1>3, <1>4, <1>6, <1>7 DEF f

(* Sync: the money of the cache f takes the place of that of p, unless an  *)
(* entry is refused.                                                       *)
LEMMA SyncMoves ==
  ASSUME NEW p, IsFrame(p), NEW f, IsFrame(f), Over(f, p.view)
  PROVE  LET g == Sync(p, f) IN
         /\ Kept(p, g) /\ (f.ro => g = p)
         /\ g.err \/ g = p \/ visibleSum(g.view) = visibleSum(f.view)
<1> DEFINE g == Sync(p, f)
           bad == {a \in Addrs : refused(p, f, a)}
           late(a) == \E b \in bad : b <= a
           w == [a \in Addrs |->
                   IF late(a) THEN p.view[a]
                   ELSE IF f.view[a].removed THEN [p.view[a] EXCEPT !.removed = TRUE]
                   ELSE IF f.view[a].updated
                   THEN [f.view[a] EXCEPT !.removed = p.view[a].removed]
                   ELSE p.view[a]]
           q == PushError(p, bad # {})
<1>1. CASE f.ro
  <2>1. g = p
    BY <1>1 DEF Sync
  <2> QED BY <2>1, SameView DEF Steps
<1>2. CASE ~f.ro
  <2>1. g = [q EXCEPT !.view = w]
    BY <1>2 DEF Sync
  <2>2. \A a \in Addrs : IsAccount(p.view[a]) /\ IsAccount(f.view[a])
    BY DEF IsFrame, IsView
  <2>3. DOMAIN w = Addrs /\ w = [a \in Addrs |-> w[a]]
    OBVIOUS
  <2>4. ASSUME NEW a \in Addrs
        PROVE  \/ w[a] = p.view[a] /\ (late(a) \/ ~touched(f, a))
               \/ f.view[a].removed /\ w[a] = [p.view[a] EXCEPT !.removed = TRUE]
               \/ /\ f.view[a].updated /\ ~f.view[a].removed
                  /\ w[a] = [f.view[a] EXCEPT !.removed = p.view[a].removed]
    BY DEF touched
  <2>5. (bad # {}) \in BOOLEAN
    OBVIOUS
  <2>6. IsFrame(q) /\ Steps(p, q) /\ q.view = p.view /\ q.err = (p.err \/ bad # {})
    BY <2>5, PushErrorSteps, Zenon
  <2> HIDE DEF g, w, q
  <2>7. ASSUME NEW a \in Addrs
        PROVE  /\ IsAccount(w[a])
               /\ w[a] = p.view[a] \/ w[a].removed \/ w[a].updated
               /\ bad = {} => visible(w[a]) = visible(f.view[a])
    <3>1. IsAccount(p.view[a]) /\ IsAccount(f.view[a])
      BY <2>2
    <3>2. CASE w[a] = p.view[a] /\ (late(a) \/ ~touched(f, a))
      <4>1. ASSUME bad = {} PROVE visible(p.view[a]) = visible(f.view[a])
        <5>1. f.view[a] = GetAccount(p.view[a])
          BY <3>2, <4>1 DEF Over
        <5> QED BY <3>1, <5>1, AccountRead
      <4> QED BY <3>1, <3>2, <4>1
    <3>3. CASE f.view[a].removed /\ w[a] = [p.view[a] EXCEPT !.removed = TRUE]
      <4>1. visible(f.view[a]) = 0
        BY <3>3 DEF visible
      <4> QED BY <3>1, <3>3, <4>1, AccountRemoved
    <3>4. CASE /\ f.view[a].updated /\ ~f.view[a].removed
               /\ w[a] = [f.view[a] EXCEPT !.removed = p.view[a].removed]
      <4>1. IsAccount(w[a]) /\ w[a].updated
            /\ (~p.view[a].removed => visible(w[a]) = visible(f.view[a]))
        BY <3>1, <3>4, AccountSynced
      <4>2. ASSUME bad = {} PROVE ~p.view[a].removed
        BY <3>4, <4>2 DEF refused, touched
      <4> QED BY <4>1, <4>2
    <3> QED BY <2>4, <3>2, <3>3, <3>4
  <2>8. IsView(w)
    BY <2>3, <2>7 DEF IsView
  <2>9. /\ g.view = w /\ g.err = q.err /\ IsFrame(g)
        /\ g.op = q.op /\ g.caller = q.caller /\ g.callee = q.callee /\ g.ro = q.ro
    BY <2>1, <2>6, <2>8 DEF IsFrame
  <2>10. Kept(p, g)
    <3>1. \A a \in Addrs : g.view[a] = p.view[a] \/ touched(g, a)
      BY <2>7, <2>9 DEF touched
    <3> QED BY <2>6, <2>9, <3>1 DEF Kept, Steps
  <2>11. ASSUME ~g.err PROVE visibleSum(g.view) = visibleSum(f.view)
    <3>1. bad = {}
      BY <2>6, <2>9, <2>11
    <3> QED BY <2>7, <2>9, <3>1, SameSum
  <2> QED BY <1>2, <2>10, <2>11 DEF g
<1> QED BY <1>1, <1>2 DEF IsFrame

-----------------------------------------------------------------------------
(* The frames fs of a transaction over the accounts v: each over the one   *)
(* below, each that is not in error with all the money; b: whether some    *)
(* may have been burnt.                                                    *)
Conserves(v, b) == visibleSum(v) <= Total /\ (~b => visibleSum(v) = Total)

FrameOK(f, v, b) ==
  /\ IsFrame(f) /\ Over(f, v)
  /\ f.op = "STATICCALL" => f.ro
  /\ f.err \/ Conserves(f.view, b)

under(fs, v, i) == IF i = 1 THEN v ELSE fs[i - 1].view

StackOK(fs, v, b) ==
  IsSequence(fs) /\ \A i \in 1 .. Len(fs) : FrameOK(fs[i], under(fs, v, i), b)

(* The inductive invariant: the accounts, the transaction, the frames.     *)
Accounts ==
  /\ IsView(db) /\ \A a \in Addrs : ~db[a].removed /\ ~db[a].updated
  /\ Conserves(db, burnt)

Transaction == tx.contract \in Addrs /\ (tx = NoTx => frames = <<>>)

IInv == Accounts /\ Transaction /\ StackOK(frames, db, burnt) /\ burnt \in BOOLEAN

-----------------------------------------------------------------------------
(* A step of a frame leaves it well formed: it conserves the money or      *)
(* records an error.                                                       *)
LEMMA FrameSteps ==
  ASSUME NEW f, NEW g, NEW v, NEW b, FrameOK(f, v, b), Steps(f, g)
  PROVE  FrameOK(g, v, b)
BY OverKept DEF FrameOK, Steps, Kept, Balanced, Conserves

(* Money once burnt stays so.                                              *)
LEMMA StackBurnt ==
  ASSUME NEW fs, NEW v, NEW b, NEW c, StackOK(fs, v, b), b => c
  PROVE  StackOK(fs, v, c)
BY DEF StackOK, FrameOK, Conserves

(* The frames after the innermost one has changed, with one more, and with *)
(* one less.                                                               *)
LEMMA StackReplaced ==
  ASSUME NEW fs, NEW v, NEW b, StackOK(fs, v, b), fs # <<>>,
         NEW g, FrameOK(g, under(fs, v, Len(fs)), b)
  PROVE  LET gs == Front(fs) \o <<g>> IN
         StackOK(gs, v, b) /\ Len(gs) = Len(fs) /\ gs # <<>> /\ Last(gs) = g
<1> DEFINE n == Len(fs)
           gs == Append(Front(fs), g)
<1>1. IsSequence(fs) /\ n \in Nat /\ n >= 1
  BY SequenceDomain, SequenceFront DEF StackOK
<1>2. /\ IsSequence(Front(fs)) /\ Len(Front(fs)) = n - 1
      /\ \A i \in 1 .. n - 1 : Front(fs)[i] = fs[i]
  BY <1>1, SequenceFront
<1>3. Front(fs) \o <<g>> = gs
  BY <1>2, SequenceAppended
<1>4. /\ IsSequence(gs) /\ gs # <<>> /\ Len(gs) = n - 1 + 1
      /\ \A i \in 1 .. n - 1 : gs[i] = Front(fs)[i]
      /\ gs[n - 1 + 1] = g
  BY <1>2, SequenceAppend
<1>5. Len(gs) = n /\ gs[n] = g /\ \A i \in 1 .. n - 1 : gs[i] = fs[i]
  BY <1>1, <1>2, <1>4
<1> HIDE DEF gs
<1>6. ASSUME NEW i \in 1 .. n PROVE FrameOK(gs[i], under(gs, v, i), b)
  <2>1. under(gs, v, i) = under(fs, v, i)
    <3>1. i = 1 \/ i - 1 \in 1 .. n - 1
      BY <1>1
    <3> QED BY <1>5, <3>1 DEF under
  <2>2. CASE i = n
    BY <1>5, <2>1, <2>2
  <2>3. CASE i # n
    <3>1. i \in 1 .. n - 1
      BY <1>1, <2>3
    <3> QED BY <1>5, <2>1, <3>1 DEF StackOK
  <2> QED BY <2>2, <2>3
<1>7. Last(gs) = g
  BY <1>5 DEF Last
<1> QED BY <1>3, <1>4, <1>5, <1>6, <1>7 DEF StackOK

(* A frame is opened on the top one.                                       *)
LEMMA StackPushed ==
  ASSUME NEW fs, NEW v, NEW b, StackOK(fs, v, b), fs # <<>>,
         NEW f, FrameOK(f, Last(fs).view, b)
  PROVE  StackOK(fs \o <<f>>, v, b) /\ Len(fs \o <<f>>) = Len(fs) + 1
<1> DEFINE n == Len(fs)
           gs == Append(fs, f)
<1>1. IsSequence(fs) /\ n \in Nat /\ n >= 1 /\ Last(fs) = fs[n]
  BY SequenceDomain, SequenceFront DEF StackOK
<1>2. fs \o <<f>> = gs
  BY <1>1, SequenceAppended
<1>3. /\ IsSequence(gs) /\ Len(gs) = n + 1 /\ gs[n + 1] = f
      /\ \A i \in 1 .. n : gs[i] = fs[i]
  BY <1>1, SequenceAppend
<1> HIDE DEF gs
<1>4. ASSUME NEW i \in 1 .. n + 1 PROVE FrameOK(gs[i], under(gs, v, i), b)
  <2>1. CASE i = n + 1
    <3>1. i # 1 /\ i - 1 = n /\ n \in 1 .. n
      BY <1>1, <2>1
    <3> QED BY <1>1, <1>3, <2>1, <3>1 DEF under
  <2>2. CASE i # n + 1
    <3>1. i \in 1 .. n /\ (i = 1 \/ i - 1 \in 1 .. n)
      BY <1>1, <2>2
    <3>2. under(gs, v, i) = under(fs, v, i)
      BY <1>3, <3>1 DEF under
    <3> QED BY <1>3, <3>1, <3>2 DEF StackOK
  <2> QED BY <2>1, <2>2
<1> QED BY <1>2, <1>3, <1>4 DEF StackOK

(* The top frame ends and the one under it is at hand.                     *)
LEMMA StackPopped ==
  ASSUME NEW fs, NEW v, NEW b, StackOK(fs, v, b), fs # <<>>, Len(fs) # 1
  PROVE  LET gs == Front(fs) IN
         /\ StackOK(gs, v, b) /\ gs # <<>> /\ Len(gs) = Len(fs) - 1 /\ Len(fs) \in Nat
         /\ FrameOK(fs[Len(fs) - 1], under(gs, v, Len(gs)), b)
         /\ under(fs, v, Len(fs)) = fs[Len(fs) - 1].view
<1> DEFINE n == Len(fs)
           gs == Front(fs)
<1>1. IsSequence(fs) /\ n \in Nat /\ n >= 1 /\ n # 1
  BY SequenceDomain, SequenceFront DEF StackOK
<1>2. /\ IsSequence(gs) /\ Len(gs) = n - 1
      /\ \A i \in 1 .. n - 1 : gs[i] = fs[i]
  BY <1>1, SequenceFront
<1>3. Len(gs) # 0
  BY <1>1, <1>2
<1>4. gs # <<>>
  BY <1>2, <1>3, SequenceEmpty
<1>5. ASSUME NEW i \in 1 .. n - 1 PROVE FrameOK(gs[i], under(gs, v, i), b)
  <2>1. i \in 1 .. n /\ (i = 1 \/ i - 1 \in 1 .. n - 1)
    BY <1>1
  <2>2. under(gs, v, i) = under(fs, v, i)
    BY <1>2, <2>1 DEF under
  <2> QED BY <1>2, <2>1, <2>2 DEF StackOK
<1>6. n - 1 \in 1 .. n - 1
  BY <1>1
<1>7. under(fs, v, n) = fs[n - 1].view
  BY <1>1 DEF under
<1> QED BY <1>1, <1>2, <1>4, <1>5, <1>6, <1>7 DEF StackOK

(* The innermost frame.                                                    *)
LEMMA StackTop ==
  ASSUME NEW fs, NEW v, NEW b, StackOK(fs, v, b), fs # <<>>
  PROVE  FrameOK(Last(fs), under(fs, v, Len(fs)), b)
<1>1. Len(fs) \in Nat /\ Len(fs) >= 1 /\ Last(fs) = fs[Len(fs)]
  BY SequenceDomain, SequenceFront DEF StackOK
<1>2. Len(fs) \in 1 .. Len(fs)
  BY <1>1
<1> QED BY <1>1, <1>2 DEF StackOK

(* The outermost frame alone.                                              *)
LEMMA StackStarted ==
  ASSUME NEW f, NEW v, NEW b, FrameOK(f, v, b)
  PROVE  StackOK(<<f>>, v, b)
<1>1. IsSequence(<<f>>) /\ Len(<<f>>) = 1 /\ <<f>>[1] = f
  BY DEF IsSequence, Range
<1> QED BY <1>1 DEF StackOK, under

-----------------------------------------------------------------------------
(* What a caller p becomes when the frame f it waits for has ended: its    *)
(* view is as before when f failed or is static.                           *)
LEMMA Resumed ==
  ASSUME NEW p, NEW f, NEW v, NEW b, FrameOK(p, v, b), FrameOK(f, p.view, b), NEW hasCode
  PROVE  LET g == resume(p, f, hasCode) IN
         FrameOK(g, v, b) /\ (f.err \/ f.ro => g.view = p.view)
<1> DEFINE g == resume(p, f, hasCode)
<1>1. IsFrame(p) /\ IsFrame(f) /\ Over(f, p.view) /\ f.callee \in Addrs
  BY DEF FrameOK, IsFrame
<1>2. ASSUME NEW q, FrameOK(q, v, b), NEW h, FrameOK(h, q.view, b), ~h.err
      PROVE  FrameOK(Sync(q, h), v, b) /\ (h.ro => Sync(q, h).view = q.view)
  <2> DEFINE s == Sync(q, h)
  <2>1. /\ Kept(q, s) /\ (h.ro => s = q)
        /\ s.err \/ s = q \/ visibleSum(s.view) = visibleSum(h.view)
    BY <1>2, SyncMoves DEF FrameOK
  <2>2. FrameOK(s, v, b)
    <3>1. CASE s = q
      BY <1>2, <3>1
    <3>2. CASE s # q
      <4>1. IsFrame(s) /\ Over(s, v) /\ (s.op = "STATICCALL" => s.ro)
        BY <1>2, <2>1, OverKept DEF FrameOK, Kept
      <4>2. ASSUME ~s.err PROVE Conserves(s.view, b)
        BY <1>2, <2>1, <3>2, <4>2 DEF FrameOK, Conserves
      <4> QED BY <4>1, <4>2 DEF FrameOK
    <3> QED BY <3>1, <3>2
  <2> QED BY <2>1, <2>2
<1>3. CASE f.op # "CREATE"
  <2> DEFINE q == IF f.err THEN p ELSE Sync(p, f)
             h == useGas(q, 1)
  <2>1. g = [h EXCEPT !.gas = h.gas + f.gas]
    BY <1>3 DEF resume, resumeCall
  <2>2. FrameOK(q, v, b) /\ (f.err \/ f.ro => q.view = p.view)
    BY <1>2
  <2> HIDE DEF g, h, q
  <2>3. IsFrame(h) /\ Steps(q, h) /\ h.view = q.view
    BY <2>2, useGasSteps DEF FrameOK, h
  <2>4. Steps(h, g) /\ g.view = h.view
    BY <2>1, <2>3, GasSteps
  <2>5. FrameOK(g, v, b)
    BY <2>2, <2>3, <2>4, FrameSteps
  <2> QED BY <2>2, <2>3, <2>4, <2>5 DEF g
<1>4. CASE f.op = "CREATE"
  <2> DEFINE p1 == [p EXCEPT !.gas = f.gas]
             f1 == InitCode(f, f.callee, hasCode)
             p2 == IF f.err THEN p1 ELSE IF f1.err THEN PushError(p1, TRUE) ELSE Sync(p1, f1)
  <2>1. g = useGas(p2, 1)
    BY <1>4 DEF resume, resumeCreate
  <2>2. IsFrame(p1) /\ Steps(p, p1) /\ p1.view = p.view
    BY <1>1, GasSteps
  <2>3. Steps(f, f1)
    BY <1>1, InitCodeSteps
  <2> HIDE DEF g, p1, f1
  <2>4. FrameOK(p1, v, b)
    BY <2>2, FrameSteps
  <2>5. FrameOK(f1, p1.view, b) /\ f1.ro = f.ro
    BY <2>2, <2>3, FrameSteps DEF Steps, Kept
  <2>6. FrameOK(p2, v, b) /\ (f.err \/ f.ro => p2.view = p1.view)
    <3>1. CASE f.err
      BY <2>4, <3>1
    <3>2. CASE ~f.err /\ f1.err
      <4>1. Steps(p1, PushError(p1, TRUE)) /\ PushError(p1, TRUE).view = p1.view
        BY <2>2, PushErrorSteps
      <4> QED BY <2>4, <3>2, <4>1, FrameSteps
    <3>3. CASE ~f.err /\ ~f1.err
      BY <1>2, <2>4, <2>5, <3>3
    <3> QED BY <3>1, <3>2, <3>3
  <2> HIDE DEF p2
  <2>7. Steps(p2, g) /\ g.view = p2.view
    BY <2>1, <2>6, useGasSteps DEF FrameOK
  <2>8. FrameOK(g, v, b)
    BY <2>6, <2>7, FrameSteps
  <2> QED BY <2>2, <2>6, <2>7, <2>8 DEF g
<1> QED BY <1>3, <1>4

(* The frames after a call or creation was opened.                         *)
LEMMA Entered ==
  ASSUME NEW fs, NEW v, NEW b, StackOK(fs, v, b), fs # <<>>,
         NEW f, FrameOK(f, Last(fs).view, b), NEW hasCode
  PROVE  LET gs == Enter(fs, f, hasCode) IN
         StackOK(gs, v, b) /\ gs # <<>> /\ Len(gs) >= Len(fs)
<1>1. IsSequence(fs) /\ Len(fs) \in Nat
  BY SequenceDomain DEF StackOK
<1>2. CASE f.err \/ ~hasCode
  <2> DEFINE g == resume(Last(fs), f, FALSE)
  <2>1. FrameOK(g, under(fs, v, Len(fs)), b)
    BY StackTop, Resumed
  <2> HIDE DEF g
  <2>2. LET gs == Front(fs) \o <<g>> IN StackOK(gs, v, b) /\ gs # <<>> /\ Len(gs) = Len(fs)
    BY <2>1, StackReplaced
  <2> QED BY <1>1, <1>2, <2>2 DEF Enter, g
<1>3. CASE ~(f.err \/ ~hasCode)
  <2>1. StackOK(fs \o <<f>>, v, b) /\ Len(fs \o <<f>>) = Len(fs) + 1
    BY StackPushed
  <2>2. fs \o <<f>> # <<>>
    BY <1>1, SequenceAppended, SequenceAppend
  <2> QED BY <1>1, <1>3, <2>1, <2>2 DEF Enter
<1> QED BY <1>2, <1>3

-----------------------------------------------------------------------------
(* An account that is written back, and one that is deleted.               *)
LEMMA AccountPut ==
  ASSUME NEW y, IsAccount(y), ~y.removed, ~y.updated,
         NEW z, IsAccount(z), ~z.removed, z.updated,
         NEW x, x = putAccount(y, z)
  PROVE  IsAccount(x) /\ ~x.removed /\ ~x.updated /\ visible(x) = visible(z)
<1>1. x = [exists |-> TRUE, bal |-> z.bal, code |-> z.code, store |-> z.store,
           removed |-> y.removed, updated |-> y.updated]
  BY DEF IsAccount, putAccount
<1>2. y.removed \in BOOLEAN /\ y.updated \in BOOLEAN /\ z.bal \in Nat /\ z.exists
  BY DEF IsAccount
<1>3. /\ x.exists /\ x.exists \in BOOLEAN /\ x.removed = y.removed /\ x.updated = y.updated
      /\ x.bal = z.bal /\ x.code = z.code /\ x.store = z.store
  BY <1>1
<1> QED BY <1>1, <1>2, <1>3 DEF IsAccount, visible

(* A removed account is written back to the database as an empty one.      *)
LEMMA AccountDeleted ==
  ASSUME NEW y, IsAccount(y), ~y.removed, ~y.updated, NEW x, x = deleteAccount(y)
  PROVE  IsAccount(x) /\ ~x.removed /\ ~x.updated /\ visible(x) = 0
<1>1. x = [exists |-> FALSE, bal |-> 0, code |-> FALSE, store |-> y.store,
           removed |-> y.removed, updated |-> y.updated]
  BY DEF IsAccount, deleteAccount
<1>2. y.removed \in BOOLEAN /\ y.updated \in BOOLEAN
  BY DEF IsAccount
<1>3. /\ ~x.exists /\ x.exists \in BOOLEAN /\ x.removed = y.removed /\ x.updated = y.updated
      /\ x.bal = 0 /\ ~x.code /\ x.code \in BOOLEAN /\ x.store = y.store
  BY <1>1
<1> QED BY <1>1, <1>2, <1>3 DEF IsAccount, visible

(* The outermost cache written back: its money is that of the database.    *)
LEMMA Written ==
  ASSUME Accounts, NEW f, IsFrame(f), Over(f, db)
  PROVE  LET w == written(f.view) IN
         /\ IsView(w) /\ \A a \in Addrs : ~w[a].removed /\ ~w[a].updated
         /\ visibleSum(w) = visibleSum(f.view)
<1> DEFINE w == written(f.view)
<1>1. \A a \in Addrs :
        IsAccount(db[a]) /\ ~db[a].removed /\ ~db[a].updated /\ IsAccount(f.view[a])
  BY DEF Accounts, IsFrame, IsView
<1>2. DOMAIN w = Addrs /\ w = [a \in Addrs |-> w[a]]
  BY DEF written
<1>3. ASSUME NEW a \in Addrs
      PROVE  \/ f.view[a].removed /\ w[a] = deleteAccount(db[a])
             \/ /\ f.view[a].updated /\ ~f.view[a].removed
                /\ w[a] = putAccount(db[a], f.view[a])
             \/ ~touched(f, a) /\ w[a] = db[a]
  BY DEF written, touched
<1> HIDE DEF w
<1>4. ASSUME NEW a \in Addrs
      PROVE  /\ IsAccount(w[a]) /\ ~w[a].removed /\ ~w[a].updated
             /\ visible(w[a]) = visible(f.view[a])
  <2>1. CASE f.view[a].removed /\ w[a] = deleteAccount(db[a])
    <3>1. visible(f.view[a]) = 0
      BY <2>1 DEF visible
    <3> QED BY <1>1, <2>1, <3>1, AccountDeleted
  <2>2. CASE /\ f.view[a].updated /\ ~f.view[a].removed
             /\ w[a] = putAccount(db[a], f.view[a])
    <3> QED BY <1>1, <2>2, AccountPut
  <2>3. CASE ~touched(f, a) /\ w[a] = db[a]
    <3>1. f.view[a] = GetAccount(db[a])
      BY <2>3 DEF Over
    <3> QED BY <1>1, <2>3, <3>1, AccountRead
  <2> QED BY <1>3, <2>1, <2>2, <2>3
<1>5. IsView(w)
  BY <1>2, <1>4 DEF IsView
<1>6. visibleSum(w) = visibleSum(f.view)
  BY <1>4, SameSum
<1> QED BY <1>4, <1>5, <1>6 DEF w

-----------------------------------------------------------------------------
(* The steps of the transactions: each keeps the invariant, and a frame    *)
(* that ends in error or is static leaves no trace in the one below.       *)
NoTrace ==
  Len(frames) > 1 /\ Len(frames') < Len(frames) /\ (Top.err \/ Top.op = "STATICCALL") =>
    Last(frames').view = frames[Len(frames) - 1].view

(* What the invariant says of the innermost frame.                         *)
LEMMA TopIsFrame ==
  ASSUME IInv, frames # <<>>
  PROVE  /\ FrameOK(Top, under(frames, db, Len(frames)), burnt) /\ IsFrame(Top)
         /\ Top.caller \in Addrs /\ Top.callee \in Addrs
         /\ Len(frames) \in Nat /\ tx # NoTx /\ StackOK(frames, db, burnt)
<1>1. FrameOK(Top, under(frames, db, Len(frames)), burnt)
  BY StackTop DEF IInv, Top
<1>2. Len(frames) \in Nat
  BY SequenceDomain DEF IInv, StackOK
<1> QED BY <1>1, <1>2 DEF IInv, Transaction, FrameOK, IsFrame

(* A step of the frames that ends none.                                    *)
LEMMA StackedIInv ==
  ASSUME IInv, frames # <<>>, StackOK(frames', db, burnt), frames' # <<>>,
         Len(frames') >= Len(frames), UNCHANGED <<db, tx, burnt>>
  PROVE  IInv' /\ NoTrace
<1>1. tx # NoTx /\ Len(frames) \in Nat /\ Len(frames') \in Nat
  BY TopIsFrame, SequenceDomain DEF StackOK
<1>2. NoTx' = NoTx
  BY DEF NoTx
<1>3. IInv'
  BY <1>1, <1>2 DEF IInv, Accounts, Transaction
<1> QED BY <1>1, <1>3 DEF NoTrace

(* An opcode that stays in its frame.                                      *)
LEMMA ContinueIInv ==
  ASSUME IInv, frames # <<>>, NEW g, Steps(Top, g), Continue(g), UNCHANGED <<db, tx, burnt>>
  PROVE  IInv' /\ NoTrace
<1>1. FrameOK(g, under(frames, db, Len(frames)), burnt)
  BY TopIsFrame, FrameSteps
<1>2. LET gs == Front(frames) \o <<g>> IN
      StackOK(gs, db, burnt) /\ Len(gs) = Len(frames) /\ gs # <<>>
  BY <1>1, StackReplaced DEF IInv
<1>3. StackOK(frames', db, burnt) /\ Len(frames') = Len(frames) /\ frames' # <<>>
  BY <1>2 DEF Continue
<1>4. Len(frames) \in Nat
  BY TopIsFrame
<1> QED BY <1>3, <1>4, StackedIInv

(* The end of the transaction.                                             *)
LEMMA FinishIInv ==
  ASSUME IInv, Len(frames) = 1, NEW f, FrameOK(f, db, burnt'), burnt => burnt',
         burnt' \in BOOLEAN, NEW hasCode, NEW judged, Finish(f, hasCode, judged)
  PROVE  IInv' /\ NoTrace
<1> DEFINE f1 == IF tx.kind = "create" THEN InitCode(f, tx.contract, hasCode) ELSE f
<1>1. IsFrame(f) /\ tx.contract \in Addrs
  BY DEF FrameOK, IInv, Transaction
<1>2. FrameOK(f1, db, burnt')
  <2>1. Steps(f, InitCode(f, tx.contract, hasCode))
    BY <1>1, InitCodeSteps
  <2> QED BY <2>1, FrameSteps
<1>3. /\ db' = db \/ (~f1.err /\ db' = written(f1.view))
      /\ tx' = NoTx /\ frames' = <<>>
  BY DEF Finish
<1> HIDE DEF f1
<1>4. Accounts'
  <2>1. CASE db' = db
    BY <2>1 DEF Accounts, IInv, Conserves
  <2>2. CASE ~f1.err /\ db' = written(f1.view)
    <3>1. LET w == written(f1.view) IN
          /\ IsView(w) /\ \A a \in Addrs : ~w[a].removed /\ ~w[a].updated
          /\ visibleSum(w) = visibleSum(f1.view)
      BY <1>2, Written DEF IInv, FrameOK
    <3>2. Conserves(f1.view, burnt')
      BY <1>2, <2>2 DEF FrameOK
    <3> QED BY <2>2, <3>1, <3>2 DEF Accounts, Conserves
  <2> QED BY <1>3, <2>1, <2>2
<1>5. Transaction'
  BY <1>3, BVMAssumption DEF Transaction, NoTx
<1>6. StackOK(frames', db', burnt')
  BY <1>3, EmptySequence DEF StackOK
<1> QED BY <1>4, <1>5, <1>6 DEF IInv, NoTrace

(* The end of a frame.                                                     *)
LEMMA EndFrameIInv ==
  ASSUME IInv, frames # <<>>, NEW f, FrameOK(f, under(frames, db, Len(frames)), burnt'),
         Kept(Top, f), burnt => burnt', burnt' \in BOOLEAN,
         NEW hasCode, EndFrame(f, hasCode)
  PROVE  IInv' /\ NoTrace
<1>1. StackOK(frames, db, burnt')
  BY StackBurnt DEF IInv
<1>2. tx # NoTx /\ Len(frames) \in Nat
  BY TopIsFrame
<1>3. ASSUME UNCHANGED <<db, tx>>, StackOK(frames', db, burnt')
      PROVE  IInv'
  BY <1>2, <1>3 DEF IInv, Accounts, Transaction, Conserves, NoTx
<1>4. \/ Continue(f) /\ UnchangedDb
      \/ Len(frames) = 1 /\ \E judged \in {FALSE, JudgeFuncType} : Finish(f, hasCode, judged)
      \/ /\ Len(frames) # 1
         /\ frames' = Front(Front(frames)) \o <<resume(frames[Len(frames) - 1], f, hasCode)>>
         /\ UnchangedDb
  BY DEF EndFrame
<1>5. CASE Continue(f) /\ UnchangedDb
  <2>1. LET gs == Front(frames) \o <<f>> IN StackOK(gs, db, burnt') /\ Len(gs) = Len(frames)
    BY <1>1, StackReplaced
  <2>2. StackOK(frames', db, burnt') /\ Len(frames') = Len(frames)
    BY <1>5, <2>1 DEF Continue
  <2> QED BY <1>2, <1>3, <1>5, <2>2 DEF UnchangedDb, NoTrace
<1>6. CASE Len(frames) = 1 /\ \E judged \in {FALSE, JudgeFuncType} : Finish(f, hasCode, judged)
  <2>1. FrameOK(f, db, burnt')
    BY <1>6 DEF under
  <2> QED BY <1>6, <2>1, FinishIInv
<1>7. CASE /\ Len(frames) # 1
           /\ frames' = Front(Front(frames)) \o <<resume(frames[Len(frames) - 1], f, hasCode)>>
           /\ UnchangedDb
  <2> DEFINE p  == frames[Len(frames) - 1]
             gs == Front(frames)
             g  == resume(p, f, hasCode)
  <2>1. /\ StackOK(gs, db, burnt') /\ gs # <<>>
        /\ FrameOK(p, under(gs, db, Len(gs)), burnt')
        /\ under(frames, db, Len(frames)) = p.view
    BY <1>1, <1>7, StackPopped
  <2>2. frames' = Front(gs) \o <<g>>
    BY <1>7
  <2> HIDE DEF gs, p
  <2>3. FrameOK(g, under(gs, db, Len(gs)), burnt') /\ (f.err \/ f.ro => g.view = p.view)
    BY <2>1, Resumed
  <2> HIDE DEF g
  <2>4. LET hs == Front(gs) \o <<g>> IN StackOK(hs, db, burnt') /\ Last(hs) = g
    BY <2>1, <2>3, StackReplaced
  <2>5. StackOK(frames', db, burnt') /\ Last(frames') = g
    BY <2>2, <2>4
  <2>6. Top.err \/ Top.op = "STATICCALL" => f.err \/ f.ro
    BY TopIsFrame DEF FrameOK, Kept
  <2> QED BY <1>3, <1>7, <2>3, <2>5, <2>6 DEF UnchangedDb, NoTrace, p
<1> QED BY <1>4, <1>5, <1>6, <1>7

-----------------------------------------------------------------------------
(* Opcodes that stay in their frame.                                       *)
LEMMA ComputeIInv == ASSUME IInv, Compute PROVE IInv' /\ NoTrace
<1>1. frames # <<>> /\ IsFrame(Top)
  BY TopIsFrame DEF Compute, Executing
<1>2. PICK f : f = Opcode(Top, 1)
  OBVIOUS
<1>3. PICK g : g = useGasNegative(f, GasCompute)
  OBVIOUS
<1>4. Steps(Top, f) /\ IsFrame(f)
  BY <1>1, <1>2, OpcodeSteps
<1>5. Steps(f, g)
  BY <1>3, <1>4, useGasNegativeSteps
<1>6. Steps(Top, g)
  BY <1>4, <1>5, StepsCompose
<1>7. Continue(g) /\ UNCHANGED <<db, tx, burnt>>
  BY <1>2, <1>3 DEF Compute, UnchangedDb
<1> QED BY <1>1, <1>6, <1>7, ContinueIInv

(* SSTORE changes the top frame only.                                      *)
LEMMA SSTOREIInv == ASSUME IInv, NEW w \in Words, SSTORE(w) PROVE IInv' /\ NoTrace
<1>1. frames # <<>> /\ IsFrame(Top) /\ Top.callee \in Addrs
  BY TopIsFrame DEF SSTORE, Executing
<1>2. PICK f : f = Opcode(Top, 2)
  OBVIOUS
<1>3. PICK g : g = useGasNegative(f, GasStorageUpdate)
  OBVIOUS
<1>4. PICK h : h = SetStorage(g, Top.callee, w)
  OBVIOUS
<1>5. Steps(Top, f) /\ IsFrame(f)
  BY <1>1, <1>2, OpcodeSteps
<1>6. Steps(f, g) /\ IsFrame(g)
  BY <1>3, <1>5, useGasNegativeSteps
<1>7. Steps(g, h)
  BY <1>1, <1>4, <1>6, SetStorageSteps
<1>8. Steps(Top, h)
  BY <1>5, <1>6, <1>7, StepsCompose
<1>9. Continue(h) /\ UNCHANGED <<db, tx, burnt>>
  BY <1>2, <1>3, <1>4 DEF SSTORE, UnchangedDb
<1> QED BY <1>1, <1>8, <1>9, ContinueIInv

(* LOG changes the top frame only, where a read-only one fails.            *)
LEMMA LOGIInv == ASSUME IInv, LOG PROVE IInv' /\ NoTrace
<1>1. frames # <<>> /\ IsFrame(Top) /\ Top.ro \in BOOLEAN
  BY TopIsFrame DEF LOG, Executing, IsFrame
<1>2. PICK f : f = Opcode(Top, 2)
  OBVIOUS
<1>3. PICK g : g = PushError(f, Top.ro)
  OBVIOUS
<1>4. Steps(Top, f) /\ IsFrame(f)
  BY <1>1, <1>2, OpcodeSteps
<1>5. Steps(f, g)
  BY <1>1, <1>3, <1>4, PushErrorSteps
<1>6. Steps(Top, g)
  BY <1>4, <1>5, StepsCompose
<1>7. Continue(g) /\ UNCHANGED <<db, tx, burnt>>
  BY <1>2, <1>3 DEF LOG, UnchangedDb
<1> QED BY <1>1, <1>6, <1>7, ContinueIInv

(* REVERT records an error in the top frame.                               *)
LEMMA REVERTIInv == ASSUME IInv, REVERT PROVE IInv' /\ NoTrace
<1>1. frames # <<>> /\ IsFrame(Top)
  BY TopIsFrame DEF REVERT, Executing
<1>2. PICK f : f = Opcode(Top, 2)
  OBVIOUS
<1>3. PICK g : g = PushError(f, TRUE)
  OBVIOUS
<1>4. Steps(Top, f) /\ IsFrame(f)
  BY <1>1, <1>2, OpcodeSteps
<1>5. Steps(f, g)
  BY <1>3, <1>4, PushErrorSteps
<1>6. Steps(Top, g)
  BY <1>4, <1>5, StepsCompose
<1>7. Continue(g) /\ UNCHANGED <<db, tx, burnt>>
  BY <1>2, <1>3 DEF REVERT, UnchangedDb
<1> QED BY <1>1, <1>6, <1>7, ContinueIInv

(* The operands of a call: gas, and the value it carries.                  *)
LEMMA operandsSteps ==
  ASSUME IsFrame(Top), NEW op, NEW v, paid(op) => v \in Nat, NEW p, p = operands(op, v)
  PROVE  Steps(Top, p) /\ IsFrame(p) /\ p.view = Top.view
<1>1. CASE ~paid(op)
  BY <1>1, OpcodeSteps DEF operands
<1>2. CASE paid(op)
  <2>1. PICK f : f = Opcode(Top, 7)
    OBVIOUS
  <2>2. Steps(Top, f) /\ IsFrame(f) /\ f.view = Top.view
    BY <2>1, OpcodeSteps
  <2>3. p = [f EXCEPT !.value = v]
    BY <1>2, <2>1 DEF operands
  <2>4. /\ IsFrame(p) /\ p.view = f.view /\ p.err = f.err
        /\ p.op = f.op /\ p.caller = f.caller /\ p.callee = f.callee /\ p.ro = f.ro
    BY <1>2, <2>2, <2>3 DEF IsFrame
  <2>5. Steps(f, p)
    BY <2>2, <2>4, SameView
  <2> QED BY <2>2, <2>4, <2>5, StepsCompose
<1> QED BY <1>1, <1>2

(* A call of a native function begins and ends in one step, and pays as    *)
(* any call does.                                                          *)
LEMMA CallNativeIInv ==
  ASSUME IInv, NEW op, NEW ask, NEW v, paid(op) => v \in Nat, NEW cost,
         CallNative(op, ask, v, cost)
  PROVE  IInv' /\ NoTrace
<1>1. frames # <<>> /\ IsFrame(Top)
  BY TopIsFrame DEF CallNative, Executing
<1>2. PICK p1 : p1 = operands(op, v)
  OBVIOUS
<1>3. PICK limit : limit = gasLimitOf(p1.gas, ask)
  OBVIOUS
<1>4. PICK q : q = [p1 EXCEPT !.gas = p1.gas - limit]
  OBVIOUS
<1>5. PICK p2 : p2 = useGas(q, 1)
  OBVIOUS
<1>6. PICK g : g = [p2 EXCEPT !.gas = p2.gas + IF limit < cost THEN limit ELSE limit - cost]
  OBVIOUS
<1>7. Steps(Top, p1) /\ IsFrame(p1)
  BY <1>1, <1>2, operandsSteps
<1>8. Steps(p1, q) /\ IsFrame(q)
  BY <1>4, <1>7, GasSteps
<1>9. Steps(q, p2) /\ IsFrame(p2)
  BY <1>5, <1>8, useGasSteps
<1>10. Steps(p2, g)
  BY <1>6, <1>9, GasSteps
<1>11. Steps(Top, g)
  BY <1>7, <1>8, <1>9, <1>10, StepsCompose
<1>12. Continue(g) /\ UNCHANGED <<db, tx, burnt>>
  BY <1>2, <1>3, <1>4, <1>5, <1>6 DEF CallNative, UnchangedDb
<1> QED BY <1>1, <1>11, <1>12, ContinueIInv

-----------------------------------------------------------------------------
(* Calls and creations: p is what the caller becomes, f the frame that is  *)
(* opened over it, g what the payment makes of that frame.                 *)
LEMMA EnterIInv ==
  ASSUME IInv, frames # <<>>, NEW p, Steps(Top, p),
         NEW f, IsFrame(f), Over(f, p.view), f.op = "STATICCALL" => f.ro,
         f.err \/ Conserves(f.view, burnt),
         NEW g, Steps(f, g), NEW hasCode,
         frames' = Enter(Front(frames) \o <<p>>, ensureStackDepth(g, frames), hasCode),
         UNCHANGED <<db, tx, burnt>>
  PROVE  IInv' /\ NoTrace
<1>1. PICK fs : fs = Front(frames) \o <<p>>
  OBVIOUS
<1>2. PICK h : h = ensureStackDepth(g, frames)
  OBVIOUS
<1>3. StackOK(fs, db, burnt) /\ Len(fs) = Len(frames) /\ fs # <<>> /\ Last(fs) = p
  <2>1. FrameOK(p, under(frames, db, Len(frames)), burnt)
    BY TopIsFrame, FrameSteps
  <2>2. LET gs == Front(frames) \o <<p>> IN
        StackOK(gs, db, burnt) /\ Len(gs) = Len(frames) /\ gs # <<>> /\ Last(gs) = p
    BY <2>1, StackReplaced DEF IInv
  <2> QED BY <1>1, <2>2
<1>4. FrameOK(h, p.view, burnt)
  <2>1. FrameOK(f, p.view, burnt)
    BY DEF FrameOK
  <2>2. FrameOK(g, p.view, burnt)
    BY <2>1, FrameSteps
  <2>3. (Len(frames) + 1 = CallStackMaxDepth) \in BOOLEAN
    OBVIOUS
  <2>4. Steps(g, h)
    BY <1>2, <2>2, <2>3, PushErrorSteps, Zenon DEF FrameOK, ensureStackDepth
  <2> QED BY <2>2, <2>4, FrameSteps
<1>5. PICK gs : gs = Enter(fs, h, hasCode)
  OBVIOUS
<1>6. StackOK(gs, db, burnt) /\ gs # <<>> /\ Len(gs) >= Len(fs)
  BY <1>3, <1>4, <1>5, Entered
<1>7. frames' = gs
  BY <1>1, <1>2, <1>5
<1> QED BY <1>3, <1>6, <1>7, StackedIInv

(* A call of an account pays it inside a new frame, or fails and the       *)
(* caller goes on.                                                         *)
LEMMA CallAddressIInv ==
  ASSUME IInv, NEW op, NEW ask, NEW a \in Addrs, NEW v, paid(op) => v \in Nat,
         CallAddress(op, ask, a, v)
  PROVE  IInv' /\ NoTrace
<1>1. frames # <<>> /\ IsFrame(Top) /\ ~Top.err
  BY TopIsFrame DEF CallAddress, Executing
<1>2. PICK p1 : p1 = operands(op, v)
  OBVIOUS
<1>3. PICK limit : limit = gasLimitOf(p1.gas, ask)
  OBVIOUS
<1>4. PICK q : q = [p1 EXCEPT !.gas = p1.gas - limit]
  OBVIOUS
<1>5. PICK p2 : p2 = useGasNegative(q, GasGetAccount)
  OBVIOUS
<1>6. PICK p3 : p3 = createAccountFor(p2, op, a)
  OBVIOUS
<1>7. PICK by : by = caller(op, p3)
  OBVIOUS
<1>8. PICK at : at = callee(op, p3, a)
  OBVIOUS
<1>9. PICK f : f = Child(p3, op, by, at, p3.value, limit)
  OBVIOUS
<1>10. PICK g : g = IF paid(op) THEN transfer(f, p3.callee, at, p3.value) ELSE f
  OBVIOUS
<1>11. /\ \/ Continue(p3)
          \/ frames' = Enter(Front(frames) \o <<p3>>, ensureStackDepth(g, frames),
                             p3.view[a].code)
       /\ UNCHANGED <<db, tx, burnt>>
  BY <1>2, <1>3, <1>4, <1>5, <1>6, <1>7, <1>8, <1>9, <1>10 DEF CallAddress, UnchangedDb
<1>12. Steps(Top, p1) /\ IsFrame(p1) /\ p1.view = Top.view
  BY <1>1, <1>2, operandsSteps
<1>13. Steps(p1, q) /\ IsFrame(q) /\ q.view = p1.view
  BY <1>4, <1>12, GasSteps
<1>14. Steps(q, p2) /\ IsFrame(p2) /\ p2.view = q.view
  BY <1>5, <1>13, useGasNegativeSteps
<1>15. Steps(p2, p3) /\ visibleSum(p3.view) = visibleSum(p2.view)
  <2>1. CASE Exists(p2, a)
    BY <1>6, <1>14, <2>1, SameView DEF createAccountFor
  <2>2. CASE ~Exists(p2, a) /\ op # "CALL"
    BY <1>6, <1>14, <2>2, PushErrorSteps DEF createAccountFor
  <2>3. CASE ~Exists(p2, a) /\ op = "CALL"
    BY <1>6, <1>14, <2>3, CreateAccountSteps DEF createAccountFor
  <2> QED BY <2>1, <2>2, <2>3
<1>16. Steps(Top, p3) /\ IsFrame(p3)
  <2>1. Steps(Top, q)
    BY <1>12, <1>13, StepsCompose
  <2>2. Steps(Top, p2)
    BY <1>14, <2>1, StepsCompose
  <2> QED BY <1>15, <2>2, StepsCompose DEF Steps, Kept
<1>17. p3.caller \in Addrs /\ p3.callee \in Addrs /\ p3.value \in Nat
  BY <1>16 DEF IsFrame
<1>18. by \in Addrs /\ at \in Addrs
  BY <1>7, <1>8, <1>17 DEF caller, callee
<1>19. /\ IsFrame(f) /\ Over(f, p3.view) /\ visibleSum(f.view) = visibleSum(p3.view)
       /\ f.op = op /\ (op = "STATICCALL" => f.ro)
  BY <1>9, <1>16, <1>17, <1>18, ChildOpened
<1>20. Conserves(f.view, burnt)
  <2>1. Conserves(Top.view, burnt)
    BY <1>1, TopIsFrame DEF FrameOK
  <2> QED BY <1>12, <1>13, <1>14, <1>15, <1>19, <2>1 DEF Conserves
<1>21. Steps(f, g)
  BY <1>10, <1>17, <1>18, <1>19, transferSteps, SameView
<1>22. CASE Continue(p3)
  BY <1>1, <1>11, <1>16, <1>22, ContinueIInv
<1>23. CASE frames' = Enter(Front(frames) \o <<p3>>, ensureStackDepth(g, frames),
                            p3.view[a].code)
  BY <1>1, <1>11, <1>16, <1>19, <1>20, <1>21, <1>23, EnterIInv
<1> QED BY <1>11, <1>22, <1>23

(* A creation pays the new account inside a new frame, or fails and the    *)
(* creator goes on.                                                        *)
LEMMA OpCreateIInv ==
  ASSUME IInv, frames # <<>>, NEW new \in Addrs, NEW k, NEW v \in Nat, OpCreate(new, k, v)
  PROVE  IInv' /\ NoTrace
<1>1. IsFrame(Top) /\ ~Top.err
  BY TopIsFrame DEF OpCreate, Executing
<1>2. PICK q : q = Opcode(Top, k)
  OBVIOUS
<1>3. PICK p : p = useGasNegative(q, GasCreateAccount)
  OBVIOUS
<1>4. PICK f : f = Child(p, "CREATE", p.callee, new, v, p.gas)
  OBVIOUS
<1>5. PICK c : c = CreateAccount(f, new)
  OBVIOUS
<1>6. PICK g : g = transfer(c, p.callee, new, v)
  OBVIOUS
<1>7. /\ frames' = Enter(Front(frames) \o <<p>>, ensureStackDepth(g, frames), TRUE)
      /\ UNCHANGED <<db, tx, burnt>>
  BY <1>2, <1>3, <1>4, <1>5, <1>6 DEF OpCreate, UnchangedDb
<1>8. Steps(Top, q) /\ IsFrame(q) /\ q.view = Top.view
  BY <1>1, <1>2, OpcodeSteps
<1>9. Steps(q, p) /\ IsFrame(p) /\ p.view = q.view
  BY <1>3, <1>8, useGasNegativeSteps
<1>10. Steps(Top, p) /\ p.callee \in Addrs
  BY <1>8, <1>9, StepsCompose DEF IsFrame
<1>11. /\ IsFrame(f) /\ Over(f, p.view) /\ visibleSum(f.view) = visibleSum(p.view)
       /\ f.op = "CREATE"
  BY <1>4, <1>9, <1>10, ChildOpened
<1>12. Conserves(f.view, burnt)
  <2>1. Conserves(Top.view, burnt)
    BY <1>1, TopIsFrame DEF FrameOK
  <2> QED BY <1>8, <1>9, <1>11, <2>1 DEF Conserves
<1>13. Steps(f, c)
  BY <1>5, <1>11, CreateAccountSteps
<1>14. Steps(c, g)
  <2>1. IsFrame(c)
    BY <1>13 DEF Steps, Kept
  <2> QED BY <1>6, <1>10, <2>1, transferSteps
<1>15. Steps(f, g)
  BY <1>13, <1>14, StepsCompose
<1> QED BY <1>7, <1>10, <1>11, <1>12, <1>15, EnterIInv

(* CREATE and CREATE2 are creations at addresses that are numbered and     *)
(* hashed.                                                                 *)
LEMMA CreationsIInv ==
  ASSUME IInv, NEW v \in Values, CREATE(v) \/ CREATE2(v)
  PROVE  IInv' /\ NoTrace
<1>1. v \in Nat
  BY BVMAssumption
<1>2. CASE CREATE(v)
  <2>1. frames # <<>> /\ NewAddress(Top) \in Addrs
    BY <1>2, BVMAssumption DEF CREATE, NewAddress
  <2>2. PICK new \in Addrs : new = NewAddress(Top)
    BY <2>1
  <2> QED BY <1>1, <1>2, <2>1, <2>2, OpCreateIInv DEF CREATE
<1>3. CASE CREATE2(v)
  <2>1. frames # <<>> /\ ContractAddr2[Top.callee] \in Addrs
    BY <1>3, BVMAssumption DEF CREATE2
  <2>2. PICK new \in Addrs : new = ContractAddr2[Top.callee]
    BY <2>1
  <2> QED BY <1>1, <1>3, <2>1, <2>2, OpCreateIInv DEF CREATE2
<1> QED BY <1>2, <1>3

-----------------------------------------------------------------------------
(* All the money there is.                                                 *)
LEMMA TotalIsNumber == Total \in Int
<1>1. \A a \in Addrs : Funds[a] \in Int
  BY BVMAssumption
<1> QED BY <1>1, SumType, BVMAssumption DEF Total

(* The opcodes that end a frame.                                           *)
LEMMA RETURNIInv == ASSUME IInv, NEW hasCode, RETURN(hasCode) PROVE IInv' /\ NoTrace
<1>1. frames # <<>> /\ IsFrame(Top) /\ UNCHANGED burnt
  BY TopIsFrame DEF RETURN, Executing
<1>2. PICK f : f = Opcode(Top, IF hasCode THEN 2 ELSE 0)
  OBVIOUS
<1>3. Steps(Top, f)
  BY <1>1, <1>2, OpcodeSteps
<1>4. FrameOK(f, under(frames, db, Len(frames)), burnt')
  BY <1>1, <1>3, TopIsFrame, FrameSteps
<1>5. EndFrame(f, hasCode)
  BY <1>2 DEF RETURN
<1>6. Kept(Top, f) /\ (burnt => burnt') /\ burnt' \in BOOLEAN
  BY <1>1, <1>3 DEF Steps, IInv
<1> QED BY <1>1, <1>4, <1>5, <1>6, EndFrameIInv

(* The top frame ends: its accounts are taken over, or it has failed and   *)
(* they are dropped.                                                       *)
LEMMA ReturnIInv == ASSUME IInv, Return PROVE IInv' /\ NoTrace
<1>1. frames # <<>> /\ IsFrame(Top) /\ UNCHANGED burnt
  BY TopIsFrame DEF Return
<1>2. PICK f : f = IF Top.err \/ Top.done THEN Top ELSE Opcode(Top, 0)
  OBVIOUS
<1>3. Steps(Top, f)
  BY <1>1, <1>2, OpcodeSteps, SameView
<1>4. FrameOK(f, under(frames, db, Len(frames)), burnt')
  BY <1>1, <1>3, TopIsFrame, FrameSteps
<1>5. EndFrame(f, FALSE)
  BY <1>2 DEF Return
<1>6. Kept(Top, f) /\ (burnt => burnt') /\ burnt' \in BOOLEAN
  BY <1>1, <1>3 DEF Steps, IInv
<1> QED BY <1>1, <1>4, <1>5, <1>6, EndFrameIInv

(* SELFDESTRUCT pays the balance to the receiver; to the account itself it *)
(* burns it, which burnt records.                                          *)
LEMMA SELFDESTRUCTIInv ==
  ASSUME IInv, NEW r \in Addrs, SELFDESTRUCT(r) PROVE IInv' /\ NoTrace
<1>1. frames # <<>> /\ IsFrame(Top)
  BY TopIsFrame DEF SELFDESTRUCT, Executing
<1>2. PICK q : q = Opcode(Top, 1)
  OBVIOUS
<1>3. PICK f1 : f1 = useGasNegative(q, GasGetAccount)
  OBVIOUS
<1>4. PICK c : c = useGasNegative(f1, GasCreateAccount)
  OBVIOUS
<1>5. PICK f2 : f2 = IF Exists(f1, r) THEN f1 ELSE CreateAccount(c, r)
  OBVIOUS
<1>6. PICK g : g = selfdestruct(f2, r)
  OBVIOUS
<1>7. Steps(Top, q) /\ IsFrame(q)
  BY <1>1, <1>2, OpcodeSteps
<1>8. Steps(q, f1) /\ IsFrame(f1)
  BY <1>3, <1>7, useGasNegativeSteps
<1>9. Steps(f1, c) /\ IsFrame(c)
  BY <1>4, <1>8, useGasNegativeSteps
<1>10. Steps(f1, f2)
  <2>1. Steps(c, CreateAccount(c, r))
    BY <1>9, CreateAccountSteps
  <2>2. Steps(f1, CreateAccount(c, r))
    BY <1>9, <2>1, StepsCompose
  <2> QED BY <1>5, <1>8, <2>2, SameView
<1>11. Steps(Top, f2)
  <2>1. Steps(Top, f1)
    BY <1>7, <1>8, StepsCompose
  <2> QED BY <1>10, <2>1, StepsCompose
<1>12. IsFrame(f2)
  BY <1>11 DEF Steps, Kept
<1>13. \/ Continue(f2) /\ UNCHANGED <<db, tx, burnt>>
       \/ /\ EndFrame(g, FALSE)
          /\ burnt' = (burnt \/ (r = f2.callee /\ GetBalance(f2, r) > 0))
  BY <1>2, <1>3, <1>4, <1>5, <1>6 DEF SELFDESTRUCT, UnchangedDb
<1>14. CASE Continue(f2) /\ UNCHANGED <<db, tx, burnt>>
  BY <1>1, <1>11, <1>14, ContinueIInv
<1>15. CASE /\ EndFrame(g, FALSE)
            /\ burnt' = (burnt \/ (r = f2.callee /\ GetBalance(f2, r) > 0))
  <2>1. /\ Kept(f2, g)
        /\ g.err \/ /\ visibleSum(g.view) <= visibleSum(f2.view)
                    /\ \/ r = f2.callee /\ GetBalance(f2, r) > 0
                       \/ visibleSum(g.view) = visibleSum(f2.view)
    BY <1>6, <1>12, selfdestructGives
  <2>2. Kept(Top, g) /\ IsFrame(g)
    BY <1>11, <2>1, KeptCompose DEF Steps, Kept
  <2>3. burnt \in BOOLEAN /\ (burnt => burnt') /\ burnt' \in BOOLEAN
    BY <1>15 DEF IInv
  <2>4. FrameOK(f2, under(frames, db, Len(frames)), burnt)
    BY <1>1, <1>11, TopIsFrame, FrameSteps
  <2>5. g.err \/ Conserves(g.view, burnt')
    <3>1. ASSUME ~g.err PROVE Conserves(g.view, burnt')
      <4>1. ~f2.err /\ Conserves(f2.view, burnt)
        BY <2>1, <2>4, <3>1 DEF Kept, FrameOK
      <4>2. visibleSum(f2.view) \in Int /\ visibleSum(g.view) \in Int
        BY <1>12, <2>2, SumOfView DEF IsFrame
      <4>3. Total \in Int
        BY TotalIsNumber
      <4>4. visibleSum(g.view) <= Total
        BY <2>1, <3>1, <4>1, <4>2, <4>3 DEF Conserves
      <4>5. ASSUME ~burnt' PROVE visibleSum(g.view) = Total
        BY <1>15, <2>1, <2>3, <3>1, <4>1, <4>5 DEF Conserves
      <4> QED BY <4>4, <4>5 DEF Conserves
    <3> QED BY <3>1
  <2>6. FrameOK(g, under(frames, db, Len(frames)), burnt')
    <3>1. Over(g, under(frames, db, Len(frames)))
      BY <2>1, <2>4, OverKept DEF FrameOK
    <3> QED BY <2>1, <2>2, <2>4, <2>5, <3>1 DEF FrameOK, Kept
  <2> QED BY <1>1, <1>15, <2>2, <2>3, <2>6, EndFrameIInv
<1> QED BY <1>13, <1>14, <1>15

-----------------------------------------------------------------------------
(* The transactions.                                                       *)
LEMMA BottomOpened ==
  ASSUME IInv, NEW contract \in Addrs, NEW v \in Nat, NEW limit, NEW hasCode,
         NEW f, f = Bottom(contract, v, limit, hasCode)
  PROVE  FrameOK(f, db, burnt) /\ IsFrame(f)
<1> DEFINE w == NewCache(db)
<1>1. /\ IsView(w) /\ visibleSum(w) = visibleSum(db)
      /\ \A a \in Addrs : w[a] = GetAccount(db[a])
  BY NewCacheShows DEF IInv, Accounts
<1>2. f = [op |-> "TX", caller |-> Sender, callee |-> contract, value |-> v, ro |-> FALSE,
           gas |-> limit, err |-> FALSE, done |-> ~hasCode, view |-> w]
  BY DEF Bottom
<1> HIDE DEF w
<1>3. /\ f.op = "TX" /\ f.caller = Sender /\ f.callee = contract /\ f.value = v
      /\ ~f.ro /\ ~f.err /\ f.view = w /\ f.ro \in BOOLEAN /\ f.err \in BOOLEAN
  BY <1>2
<1>4. f = [op |-> f.op, caller |-> f.caller, callee |-> f.callee, value |-> f.value,
           ro |-> f.ro, gas |-> f.gas, err |-> f.err, done |-> f.done, view |-> f.view]
  BY <1>2
<1>5. IsFrame(f)
  BY <1>1, <1>3, <1>4, BVMAssumption DEF IsFrame
<1>6. Over(f, db)
  BY <1>1, <1>3 DEF Over
<1>7. Conserves(f.view, burnt)
  BY <1>1, <1>3 DEF IInv, Accounts, Conserves
<1> QED BY <1>3, <1>5, <1>6, <1>7 DEF FrameOK

(* A transaction starts with one frame over the database.                  *)
LEMMA StartIInv ==
  ASSUME IInv, NEW kind, kind # "none", NEW contract \in Addrs, NEW nonce, NEW limit,
         NEW f, FrameOK(f, db, burnt), IsFrame(f),
         NEW g, Steps(f, g),
         Start(kind, contract, nonce, limit, ensureStackDepth(g, <<>>))
  PROVE  IInv' /\ NoTrace
<1>1. PICK h : h = ensureStackDepth(g, <<>>)
  OBVIOUS
<1>2. (Len(<<>>) + 1 = CallStackMaxDepth) \in BOOLEAN
  OBVIOUS
<1>3. FrameOK(g, db, burnt)
  BY FrameSteps
<1>4. Steps(g, h)
  BY <1>1, <1>2, <1>3, PushErrorSteps, Zenon DEF FrameOK, ensureStackDepth
<1>5. FrameOK(h, db, burnt)
  BY <1>3, <1>4, FrameSteps
<1>6. StackOK(<<h>>, db, burnt)
  BY <1>5, StackStarted
<1>7. /\ frames = <<>> /\ frames' = <<h>> /\ UNCHANGED <<db, burnt>>
      /\ tx' = [kind |-> kind, contract |-> contract, nonce |-> nonce, limit |-> limit]
  BY <1>1 DEF Start, IInv, Transaction
<1>8. tx'.contract \in Addrs /\ tx' # NoTx /\ NoTx' = NoTx
  <2>1. tx'.kind = kind /\ tx'.contract = contract /\ NoTx.kind = "none"
    BY <1>7 DEF NoTx
  <2> QED BY <2>1 DEF NoTx
<1>9. IInv'
  BY <1>6, <1>7, <1>8 DEF IInv, Accounts, Transaction
<1>10. ~(Len(frames) > 1)
  BY <1>7, EmptySequence
<1> QED BY <1>9, <1>10 DEF NoTrace

(* The transaction that deploys a contract opens the bottom frame.         *)
LEMMA CreateIInv == ASSUME IInv, NEW limit, Create(limit) PROVE IInv' /\ NoTrace
<1>1. PICK new \in Addrs : new = ContractAddr[<<Sender, txs + 1>>]
  BY BVMAssumption DEF Create
<1>2. PICK f : f = Bottom(new, 0, limit, TRUE)
  OBVIOUS
<1>3. PICK g : g = CreateAccount(f, new)
  OBVIOUS
<1>4. FrameOK(f, db, burnt) /\ IsFrame(f)
  BY <1>2, BottomOpened
<1>5. Steps(f, g)
  BY <1>3, <1>4, CreateAccountSteps
<1>6. Start("create", new, txs + 1, limit, ensureStackDepth(g, <<>>))
  BY <1>1, <1>2, <1>3 DEF Create
<1> QED BY <1>4, <1>5, <1>6, StartIInv

(* The transaction that calls a contract pays it inside the bottom frame.  *)
LEMMA CallIInv ==
  ASSUME IInv, NEW contract \in Addrs, NEW v \in Values, NEW limit, Call(contract, v, limit)
  PROVE  IInv' /\ NoTrace
<1>1. v \in Nat /\ Sender \in Addrs
  BY BVMAssumption
<1>2. PICK f : f = Bottom(contract, v, limit, db[contract].code)
  OBVIOUS
<1>3. PICK g : g = transfer(f, Sender, contract, v)
  OBVIOUS
<1>4. FrameOK(f, db, burnt) /\ IsFrame(f)
  BY <1>1, <1>2, BottomOpened
<1>5. Steps(f, g)
  BY <1>1, <1>3, <1>4, transferSteps
<1>6. Start("call", contract, 0, limit, ensureStackDepth(g, <<>>))
  BY <1>2, <1>3 DEF Call
<1> QED BY <1>4, <1>5, <1>6, StartIInv

-----------------------------------------------------------------------------
(* The accounts at the start hold the funds.                               *)
LEMMA InitIInv == Init => IInv
<1> SUFFICES ASSUME Init PROVE IInv
  OBVIOUS
<1>1. PICK w0 : db = [a \in Addrs |->
         [exists |-> Funds[a] > 0 \/ a \in Coded, bal |-> Funds[a], code |-> a \in Coded,
          store |-> w0, removed |-> FALSE, updated |-> FALSE]]
  BY DEF Init
<1>2. ASSUME NEW a \in Addrs
      PROVE  /\ IsAccount(db[a]) /\ ~db[a].removed /\ ~db[a].updated
             /\ visible(db[a]) = Funds[a]
  <2>1. Funds[a] \in Nat
    BY BVMAssumption
  <2>2. PICK e \in BOOLEAN : e = (Funds[a] > 0 \/ a \in Coded)
    OBVIOUS
  <2>3. db[a] = [exists |-> e, bal |-> Funds[a], code |-> a \in Coded,
                 store |-> w0, removed |-> FALSE, updated |-> FALSE]
    BY <1>1, <2>2
  <2>4. PICK x : x = db[a]
    OBVIOUS
  <2>5. /\ x.exists = e /\ x.bal = Funds[a] /\ x.code = (a \in Coded) /\ x.store = w0
        /\ ~x.removed /\ ~x.updated /\ x.removed \in BOOLEAN /\ x.updated \in BOOLEAN
    BY <2>3, <2>4
  <2>6. x = [exists |-> x.exists, bal |-> x.bal, code |-> x.code, store |-> x.store,
             removed |-> x.removed, updated |-> x.updated]
    BY <2>3, <2>4
  <2>7. IsAccount(x)
    BY <2>1, <2>5, <2>6 DEF IsAccount
  <2>8. visible(x) = Funds[a]
    <3>1. ~e => ~(Funds[a] > 0)
      BY <2>2, Zenon
    <3>2. ~e => Funds[a] = 0
      BY <2>1, <3>1
    <3> QED BY <2>5, <3>2 DEF visible
  <2> QED BY <2>4, <2>5, <2>7, <2>8
<1>3. IsView(db)
  BY <1>1, <1>2 DEF IsView
<1>4. visibleSum(db) = Total
  <2>1. Funds = [a \in Addrs |-> Funds[a]]
    BY BVMAssumption
  <2>2. [a \in Addrs |-> visible(db[a])] = Funds
    BY <1>2, <2>1
  <2> QED BY <2>2 DEF visibleSum, Total
<1>5. Accounts
  BY <1>2, <1>3, <1>4, TotalIsNumber DEF Accounts, Conserves
<1>6. Transaction
  BY BVMAssumption DEF Init, Transaction, NoTx
<1>7. StackOK(frames, db, burnt)
  BY EmptySequence DEF Init, StackOK
<1> QED BY <1>5, <1>6, <1>7 DEF IInv, Init

(* Every step keeps the invariant, and one that ends a failed frame leaves *)
(* the accounts of the frame under it.                                     *)
LEMMA NextIInv == ASSUME IInv, [Next]_vars PROVE IInv' /\ [NoTrace]_vars
<1>1. CASE UNCHANGED vars
  BY <1>1 DEF vars, IInv, Accounts, Transaction, NoTx
<1>2. CASE Commit
  <2>1. UNCHANGED <<db, frames, tx, burnt>>
    BY <1>2 DEF Commit
  <2>2. IInv'
    BY <2>1 DEF IInv, Accounts, Transaction, NoTx
  <2>3. Len(frames') = Len(frames) /\ Len(frames) \in Nat
    BY <2>1, SequenceDomain DEF IInv, StackOK
  <2> QED BY <2>2, <2>3 DEF NoTrace
<1>3. CASE \E limit \in GasLimits :
             Create(limit) \/ \E a \in Addrs, v \in Values : Call(a, v, limit)
  BY <1>3, CreateIInv, CallIInv
<1>4. CASE Compute \/ LOG \/ REVERT \/ Return
  BY <1>4, ComputeIInv, LOGIInv, REVERTIInv, ReturnIInv
<1>5. CASE \E w \in Words : SSTORE(w)
  BY <1>5, SSTOREIInv
<1>6. CASE \E hasCode \in BOOLEAN : RETURN(hasCode)
  BY <1>6, RETURNIInv
<1>7. CASE \E a \in Addrs : SELFDESTRUCT(a)
  BY <1>7, SELFDESTRUCTIInv
<1>8. CASE \E v \in Values : CREATE(v) \/ CREATE2(v)
  BY <1>8, CreationsIInv
<1>9. CASE \E op \in {"CALL", "CALLCODE", "DELEGATECALL", "STATICCALL"}, ask \in Asks :
             \E v \in IF paid(op) THEN Values ELSE {0} :
               \/ \E a \in Addrs : CallAddress(op, ask, a, v)
               \/ \E cost \in NativeGas : CallNative(op, ask, v, cost)
  <2>1. PICK op, ask, v : /\ v \in IF paid(op) THEN Values ELSE {0}
                          /\ \/ \E a \in Addrs : CallAddress(op, ask, a, v)
                             \/ \E cost \in NativeGas : CallNative(op, ask, v, cost)
    BY <1>9
  <2>2. paid(op) => v \in Nat
    BY <2>1, BVMAssumption
  <2> QED BY <2>1, <2>2, CallAddressIInv, CallNativeIInv
<1> QED BY <1>1, <1>2, <1>3, <1>4, <1>5, <1>6, <1>7, <1>8, <1>9 DEF Next

(* The inductive invariant holds of every state, whatever the code of the  *)
(* contracts, the depth of the calls and the gas.                          *)
THEOREM Invariance == Spec => []IInv
<1>1. IInv /\ [Next]_vars => IInv'
  BY NextIInv
<1> QED BY InitIInv, <1>1, PTL DEF Spec

(* However calls, creations, failures and destructions nest, the accounts  *)
(* of the database, and of every frame that has not failed, hold the money *)
(* there was at the start, or less once a contract has destroyed itself in *)
(* its own favour.                                                         *)
THEOREM MoneyIsConserved == Spec => []ValueConserved
<1>1. IInv => ValueConserved
  BY DEF IInv, Accounts, Conserves, StackOK, FrameOK, ValueConserved, conserved
<1> QED BY Invariance, <1>1, PTL

(* A frame that ends with an error, or a STATICCALL that ends, leaves the  *)
(* accounts of the frame under it as they were.                            *)
THEOREM FailureLeavesNoTrace == Spec => FailedCallLeavesNoTrace
<1>1. IInv /\ [Next]_vars => [NoTrace]_vars
  BY NextIInv
<1>2. Spec => [][NoTrace]_vars
  BY Invariance, <1>1, PTL DEF Spec
<1> QED BY <1>2 DEF FailedCallLeavesNoTrace, NoTrace
=============================================================================
