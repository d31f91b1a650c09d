--------------------------- MODULE StateDBProofs ---------------------------
(***************************************************************************)
(* Proofs about StateDB for every set of keys and values, every snapshot   *)
(* count, every rollback depth and every bound on transaction IDs.         *)
(*                                                                         *)
(* The safety invariants of StateDB are not inductive: while a commit or a *)
(* rollback is between two batches they depend on what the batch still to  *)
(* come will write.  CommitPending and RollbackPending say what is known   *)
(* there; Contiguous says that the kept snapshots have no gap below        *)
(* snapLast, which is what the check of the oldest snapshot alone relies   *)
(* on; TopBase ties the history variables of RollbackWindow.               *)
(***************************************************************************)
EXTENDS StateDB, SequenceTheorems, TLAPS

(* Below a kept snapshot and up to snapLast no snapshot is missing.        *)
Contiguous ==
  \A i, j \in ID :
    snaps[i] # NoSnap /\ i <= j /\ j <= snapLast => snaps[j] # NoSnap

(* Between the two batches of a commit.                                    *)
CommitPending ==
  mode = "commit" =>
    /\ trans = sdbLast + 1
    /\ trans = snapLast
    /\ trans \in ID
    /\ buffer # EmptyBuffer
    /\ snaps[trans] # NoSnap =>
         snaps[trans] = [origin |-> OriginOf(buffer, sdb), new |-> buffer]

(* Between two batches of a rollback.                                      *)
RollbackPending ==
  mode = "rollback" =>
    /\ cursor = sdbLast
    /\ target \in ID
    /\ target <= cursor + 1
    /\ cursor <= snapLast
    /\ target <= snapLast
    /\ snaps[target] # NoSnap

TopBase ==
  /\ snapLast <= top
  /\ snapLast = 0 => sdbLast <= base

IInv ==
  /\ TypeOK
  /\ StateIsVersion
  /\ SnapshotsUndo
  /\ SnapshotsBounded
  /\ Contiguous
  /\ RollbackWindow
  /\ RollbackNeverHalfWay
  /\ CommitPending
  /\ RollbackPending
  /\ TopBase

-----------------------------------------------------------------------------
(* Laying a buffer over contents gives contents.                           *)
LEMMA ApplyType ==
  ASSUME NEW b \in Buffer, NEW s \in Contents
  PROVE  Apply(b, s) \in Contents
BY KeyAssumption DEF Apply, Buffer, Contents

(* The replaced values form a buffer.                                      *)
LEMMA OriginType ==
  ASSUME NEW b \in Buffer, NEW s \in Contents
  PROVE  OriginOf(b, s) \in Buffer
BY DEF OriginOf, Buffer, Contents

(* What is empty has its type.                                             *)
LEMMA EmptyType == EmptyBuffer \in Buffer /\ EmptyContents \in Contents
BY DEF EmptyBuffer, EmptyContents, Buffer, Contents

(* The origin data taken by Commit undoes the commit exactly.              *)
LEMMA OriginUndoes ==
  ASSUME NEW b \in Buffer, NEW s \in Contents
  PROVE  /\ Apply(OriginOf(b, s), Apply(b, s)) = s
         /\ \A k \in Key : b[k] = Unset <=> OriginOf(b, s)[k] = Unset
BY KeyAssumption DEF Apply, OriginOf, Buffer, Contents

(* The snapshot batch keeps the type of the snapshot database.             *)
LEMMA SnapsAfterType ==
  ASSUME TypeOK, NEW id \in ID
  PROVE  snapsAfter(id) \in [ID -> Snap \cup {NoSnap}]
<1>1. OriginOf(buffer, sdb) \in Buffer
  BY OriginType DEF TypeOK
<1>2. [origin |-> OriginOf(buffer, sdb), new |-> buffer] \in Snap
  BY <1>1 DEF TypeOK, Snap
<1>. QED
  BY <1>2 DEF TypeOK, snapsAfter

-----------------------------------------------------------------------------
(* Type correctness is inductive on its own, except that the rollback loop *)
(* must know that its cursor is a transaction ID.                          *)
LEMMA InitType == Init => TypeOK
BY EmptyType, BoundAssumption DEF Init, TypeOK, ID, Panics

(* Every step keeps the types.                                             *)
LEMMA NextType == IInv /\ [Next]_vars => TypeOK'
<1>. SUFFICES ASSUME IInv, [Next]_vars PROVE TypeOK'
  OBVIOUS
<1>. USE BoundAssumption, EmptyType DEF IInv
<1>1. CASE New
  BY <1>1 DEF New, TypeOK, durable, loop, ghost, Panics
<1>2. CASE NewCommittableTransaction
  BY <1>2 DEF NewCommittableTransaction, TypeOK, durable, loop, ghost
<1>3. ASSUME NEW k \in Key, NEW v \in Val \cup {Nil}, Set(k, v)
      PROVE  TypeOK'
  BY <1>3 DEF Set, TypeOK, durable, loop, ghost, Buffer
<1>4. CASE TransactionRollback
  BY <1>4 DEF TransactionRollback, TypeOK, durable, loop, ghost
<1>5. CASE CommitSnapshot
  <2>1. trans \in ID
    BY <1>5 DEF CommitSnapshot, TypeOK, ID
  <2>2. snapsAfter(trans) \in [ID -> Snap \cup {NoSnap}]
    BY <2>1, SnapsAfterType
  <2>. QED
    BY <1>5, <2>1, <2>2
       DEF CommitSnapshot, TypeOK, memory, loop, Panics, Corruptions
<1>6. CASE CommitState
  <2>1. /\ Apply(buffer, sdb) \in Contents
        /\ Apply(buffer, hist[sdbLast]) \in Contents
    BY ApplyType DEF TypeOK
  <2>. QED
    BY <1>6, <2>1 DEF CommitState, TypeOK, loop
<1>7. ASSUME NEW n \in 1 .. MaxRollback, RollbackBegin(n)
      PROVE  TypeOK'
  <2>1. mode' = "rollback" => snapLast - n + 1 \in 0 .. MaxID
    BY <1>7 DEF RollbackBegin, TypeOK
  <2>2. mode' \in Panics \cup {"rollback"}
    BY <1>7 DEF RollbackBegin, Panics, Refusals
  <2>. QED
    BY <1>7, <2>1, <2>2 DEF RollbackBegin, TypeOK, durable, memory, ghost
<1>8. CASE RollbackStateDB
  <2>1. cursor \in ID
    BY <1>8 DEF RollbackStateDB, RollbackPending, TypeOK, ID
  <2>2. CASE rollbackable(cursor)
    <3>1. snaps[cursor].origin \in Buffer
      BY <2>1, <2>2 DEF rollbackable, TypeOK, Snap
    <3>2. restored(cursor) \in Contents
      BY <3>1, ApplyType DEF restored, TypeOK
    <3>. QED
      BY <1>8, <2>1, <2>2, <3>2 DEF RollbackStateDB, TypeOK, memory, ID
  <2>3. CASE ~rollbackable(cursor)
    BY <1>8, <2>3 DEF RollbackStateDB, TypeOK, memory, Panics, Corruptions
  <2>. QED
    BY <2>2, <2>3
<1>9. CASE RollbackEnd
  BY <1>9 DEF RollbackEnd, RollbackPending, lastAfterRollback, TypeOK, memory,
              ghost, ID
<1>10. CASE Crash
  BY <1>10 DEF Crash, TypeOK, durable, ghost
<1>11. CASE DeleteSnapshotDB
  BY <1>11 DEF DeleteSnapshotDB, TypeOK, memory, loop
<1>12. CASE UNCHANGED vars
  BY <1>12 DEF vars, TypeOK
<1>. QED
  BY <1>1, <1>2, <1>3, <1>4, <1>5, <1>6, <1>7, <1>8, <1>9, <1>10, <1>11,
     <1>12 DEF Next

-----------------------------------------------------------------------------
(* A kept snapshot at or below the state database's last ID passes every   *)
(* test of rollbackStateDB, and its origin data restores the version       *)
(* before.                                                                 *)
LEMMA KeptIsRollbackable ==
  ASSUME IInv, sdbLast \in ID, snaps[sdbLast] # NoSnap
  PROVE  rollbackable(sdbLast) /\ restored(sdbLast) = hist[sdbLast - 1]
<1>. USE DEF IInv
<1>1. sdb = hist[sdbLast]
  BY DEF StateIsVersion
<1>2. /\ Apply(snaps[sdbLast].origin, hist[sdbLast]) = hist[sdbLast - 1]
      /\ Apply(snaps[sdbLast].new, hist[sdbLast - 1]) = hist[sdbLast]
      /\ snaps[sdbLast].new # EmptyBuffer
      /\ \A k \in Key : snaps[sdbLast].new[k] = Unset
                            <=> snaps[sdbLast].origin[k] = Unset
  BY DEF SnapshotsUndo, ID
<1>3. snaps[sdbLast].origin \in Buffer /\ snaps[sdbLast].new \in Buffer
  BY DEF TypeOK, Snap
<1>4. \A k \in Key : snaps[sdbLast].new[k] \in {Unset, sdb[k]}
  BY <1>1, <1>2, <1>3 DEF Apply
<1>5. snaps[sdbLast].origin # EmptyBuffer
  <2>1. PICK k \in Key : snaps[sdbLast].new[k] # Unset
    BY <1>2, <1>3 DEF EmptyBuffer, Buffer
  <2>. QED
    BY <1>2, <2>1 DEF EmptyBuffer
<1>. QED
  BY <1>1, <1>2, <1>4, <1>5 DEF rollbackable, restored

(* The snapshot batch of an accepted commit keeps the window of snapshots  *)
(* gap-free and bounded.                                                   *)
LEMMA SnapsAfterWindow ==
  ASSUME IInv, trans \in ID, trans = sdbLast + 1, idAccepted(trans)
  PROVE  /\ \A i \in ID : snapsAfter(trans)[i] # NoSnap =>
                trans - MaxCount < i /\ i <= trans
         /\ \A i, j \in ID :
              snapsAfter(trans)[i] # NoSnap /\ i <= j /\ j <= trans =>
                snapsAfter(trans)[j] # NoSnap
         /\ \A i \in 1 .. sdbLast : snapsAfter(trans)[i] # NoSnap =>
              snapsAfter(trans)[i] = snaps[i]
         /\ snapsAfter(trans)[trans] # NoSnap =>
              snapsAfter(trans)[trans] =
                [origin |-> OriginOf(buffer, sdb), new |-> buffer]
         /\ \A i \in ID : snaps[i] # NoSnap /\ i > trans - MaxCount =>
              snapsAfter(trans)[i] # NoSnap
         /\ MaxCount # 0 => snapsAfter(trans)[trans] # NoSnap
<1>. USE BoundAssumption DEF IInv
<1>. DEFINE sa == snapsAfter(trans)
<1>1. \A i \in ID : sa[i] =
        IF i = trans /\ MaxCount # 0
        THEN [origin |-> OriginOf(buffer, sdb), new |-> buffer]
        ELSE IF i \in checkMaxCount(trans) THEN NoSnap ELSE snaps[i]
  BY DEF snapsAfter
<1>2. [origin |-> OriginOf(buffer, sdb), new |-> buffer] # NoSnap
  BY OriginType, SnapAssumption DEF TypeOK, Buffer
<1>3. /\ snapLast \in Nat /\ trans \in Nat /\ MaxCount \in Nat
      /\ snapLast = 0 \/ trans = snapLast + 1 \/ trans = snapLast
  BY DEF TypeOK, idAccepted, ID
<1>4. \A i \in ID : snaps[i] # NoSnap => snapLast - MaxCount < i /\ i <= snapLast
  BY DEF SnapshotsBounded
<1>5. ASSUME NEW i \in ID, snaps[i] # NoSnap, i <= trans - MaxCount
      PROVE  i \in checkMaxCount(trans)
  <2>1. \A j \in i .. (trans - MaxCount) : snaps[j] # NoSnap
    BY <1>3, <1>4, <1>5 DEF Contiguous, ID
  <2>. QED
    BY <1>3, <1>5, <2>1 DEF checkMaxCount, ID
<1>6. \A i \in checkMaxCount(trans) : i \in Int /\ i <= trans - MaxCount
  BY <1>3 DEF checkMaxCount
<1>7. ASSUME NEW i \in ID, sa[i] # NoSnap
      PROVE  trans - MaxCount < i /\ i <= trans
  BY <1>1, <1>3, <1>4, <1>5, <1>7 DEF ID
<1>8. ASSUME NEW i \in ID, NEW j \in ID, sa[i] # NoSnap, i <= j, j <= trans
      PROVE  sa[j] # NoSnap
  <2>1. CASE j = trans /\ MaxCount # 0
    BY <1>1, <1>2, <2>1
  <2>2. CASE ~(j = trans /\ MaxCount # 0)
    <3>1. trans - MaxCount < i
      BY <1>7, <1>8
    <3>2. j \notin checkMaxCount(trans)
      BY <1>3, <1>6, <1>8, <3>1 DEF ID
    <3>3. j < trans /\ MaxCount # 0
      BY <1>3, <1>8, <2>2, <3>1 DEF ID
    <3>4. snaps[i] # NoSnap
      BY <1>1, <1>8, <3>3 DEF ID
    <3>5. snaps[j] # NoSnap
      BY <1>3, <1>4, <1>8, <3>3, <3>4 DEF Contiguous, ID
    <3>. QED
      BY <1>1, <2>2, <3>2, <3>5
  <2>. QED
    BY <2>1, <2>2
<1>9. \A i \in 1 .. sdbLast : sa[i] # NoSnap => sa[i] = snaps[i]
  BY <1>1 DEF TypeOK, ID
<1>10. sa[trans] # NoSnap =>
         sa[trans] = [origin |-> OriginOf(buffer, sdb), new |-> buffer]
  BY <1>1, <1>3, <1>7 DEF ID
<1>11. \A i \in ID : snaps[i] # NoSnap /\ i > trans - MaxCount =>
         sa[i] # NoSnap
  BY <1>1, <1>2, <1>3, <1>6 DEF ID
<1>12. MaxCount # 0 => sa[trans] # NoSnap
  BY <1>1, <1>2
<1>. QED
  BY <1>7, <1>8, <1>9, <1>10, <1>11, <1>12

-----------------------------------------------------------------------------
(* The rest of the inductive invariant holds at the start.                 *)
LEMMA InitIInv == Init => IInv
<1>. SUFFICES ASSUME Init PROVE IInv
  OBVIOUS
<1>1. TypeOK
  BY InitType
<1>. QED
  BY <1>1, BoundAssumption
     DEF Init, IInv, StateIsVersion, SnapshotsUndo, SnapshotsBounded,
         Contiguous, RollbackWindow, RollbackNeverHalfWay, CommitPending,
         RollbackPending, TopBase, ID

(* Every step preserves it.                                                *)
LEMMA NextIInv == IInv /\ [Next]_vars => IInv'
<1>. SUFFICES ASSUME IInv, [Next]_vars PROVE IInv'
  OBVIOUS
<1>0. TypeOK'
  BY NextType
<1>. USE BoundAssumption
<1>. USE DEF StateIsVersion, RollbackNeverHalfWay, durable, memory, loop, ghost
<1>1. CASE New
  BY <1>0, <1>1
     DEF New, IInv, SnapshotsUndo, SnapshotsBounded, Contiguous,
         RollbackWindow, CommitPending, RollbackPending, TopBase
<1>2. CASE NewCommittableTransaction
  BY <1>0, <1>2
     DEF NewCommittableTransaction, IInv, SnapshotsUndo, SnapshotsBounded,
         Contiguous, RollbackWindow, CommitPending, RollbackPending, TopBase
<1>3. ASSUME NEW k \in Key, NEW v \in Val \cup {Nil}, Set(k, v)
      PROVE  IInv'
  BY <1>0, <1>3
     DEF Set, IInv, SnapshotsUndo, SnapshotsBounded, Contiguous,
         RollbackWindow, CommitPending, RollbackPending, TopBase
<1>4. CASE TransactionRollback
  BY <1>0, <1>4
     DEF TransactionRollback, IInv, SnapshotsUndo, SnapshotsBounded,
         Contiguous, RollbackWindow, CommitPending, RollbackPending, TopBase
<1>5. CASE CommitSnapshot
  <2>1. CASE mode' # "commit"
    <3>1. /\ mode' \in {"badID", "badSnapshotID"}
          /\ UNCHANGED <<snaps, snapLast, top>>
      BY <1>5, <2>1 DEF CommitSnapshot
    <3>. QED
      BY <1>0, <1>5, <3>1
         DEF CommitSnapshot, IInv, SnapshotsUndo, SnapshotsBounded,
             Contiguous, RollbackWindow, CommitPending, RollbackPending,
             TopBase
  <2>2. CASE mode' = "commit"
    <3>1. /\ trans \in ID
          /\ trans = sdbLast + 1
          /\ idAccepted(trans)
          /\ snaps' = snapsAfter(trans)
          /\ snapLast' = trans
          /\ top' = IF trans > top THEN trans ELSE top
          /\ buffer # EmptyBuffer
          /\ UNCHANGED <<sdb, sdbLast, memory, loop, hist, base>>
      BY <1>5, <2>2 DEF CommitSnapshot, IInv, TypeOK, ID
    <3>2. SnapshotsUndo'
      <4>1. ASSUME NEW i \in 1 .. sdbLast, snaps'[i] # NoSnap
            PROVE  snaps'[i] = snaps[i]
        BY <3>1, <4>1, SnapsAfterWindow
      <4>. QED
        BY <3>1, <4>1 DEF IInv, SnapshotsUndo
    <3>3. SnapshotsBounded' /\ Contiguous'
      BY <3>1, SnapsAfterWindow DEF SnapshotsBounded, Contiguous
    <3>4. RollbackWindow'
      <4>. SUFFICES ASSUME NEW i \in ID, i <= trans, i > top' - MaxCount,
                           i > base
                    PROVE  snaps'[i] # NoSnap
        BY <3>1 DEF RollbackWindow
      <4>1. trans \in Nat /\ top \in Nat /\ snapLast \in Nat /\ base \in Nat
            /\ sdbLast \in Nat
        BY <3>1 DEF IInv, TypeOK, ID
      <4>2. i > trans - MaxCount /\ i > top - MaxCount /\ MaxCount # 0
        BY <3>1, <4>1 DEF ID
      <4>3. CASE i = trans
        BY <3>1, <4>2, <4>3, SnapsAfterWindow
      <4>4. CASE i < trans
        <5>1. snapLast # 0
          BY <3>1, <4>1, <4>4 DEF IInv, TopBase, ID
        <5>2. i <= snapLast
          BY <3>1, <4>1, <4>4, <5>1 DEF idAccepted, ID
        <5>3. snaps[i] # NoSnap
          BY <4>2, <5>2 DEF IInv, RollbackWindow
        <5>. QED
          BY <3>1, <4>2, <5>3, SnapsAfterWindow
      <4>. QED
        BY <4>1, <4>3, <4>4 DEF ID
    <3>5. CommitPending'
      BY <3>1, SnapsAfterWindow DEF CommitPending, OriginOf
    <3>6. TopBase'
      BY <3>1 DEF IInv, TypeOK, TopBase, ID
    <3>. QED
      BY <1>0, <2>2, <3>1, <3>2, <3>3, <3>4, <3>5, <3>6
         DEF IInv, RollbackPending
  <2>. QED
    BY <2>1, <2>2
<1>6. CASE CommitState
  <2>1. /\ trans = sdbLast + 1 /\ trans = snapLast /\ trans \in ID
        /\ buffer # EmptyBuffer
        /\ snaps[trans] # NoSnap =>
             snaps[trans] = [origin |-> OriginOf(buffer, sdb), new |-> buffer]
    BY <1>6 DEF CommitState, IInv, CommitPending
  <2>2. /\ sdb' = Apply(buffer, sdb)
        /\ sdbLast' = trans
        /\ hist' = [hist EXCEPT ![trans] = Apply(buffer, hist[sdbLast])]
        /\ mode' = "idle"
        /\ UNCHANGED <<snaps, snapLast, top, base>>
    BY <1>6 DEF CommitState
  <2>3. hist \in [0 .. MaxID -> Contents] /\ sdbLast \in 0 .. MaxID
    BY DEF IInv, TypeOK
  <2>4. /\ hist'[trans] = Apply(buffer, sdb)
        /\ \A i \in 0 .. sdbLast : hist'[i] = hist[i]
    BY <2>1, <2>2, <2>3 DEF IInv, ID
  <2>5. StateIsVersion'
    BY <2>2, <2>4
  <2>6. SnapshotsUndo'
    <3>. SUFFICES ASSUME NEW i \in 1 .. trans, snaps[i] # NoSnap
                  PROVE  /\ Apply(snaps[i].origin, hist'[i]) = hist'[i - 1]
                         /\ Apply(snaps[i].new, hist'[i - 1]) = hist'[i]
                         /\ snaps[i].new # EmptyBuffer
                         /\ \A k \in Key : snaps[i].new[k] = Unset
                                              <=> snaps[i].origin[k] = Unset
      BY <2>2 DEF SnapshotsUndo
    <3>1. CASE i = trans
      <4>1. hist'[i - 1] = sdb
        BY <2>1, <2>3, <2>4, <3>1 DEF IInv
      <4>2. snaps[i] = [origin |-> OriginOf(buffer, sdb), new |-> buffer]
        BY <2>1, <3>1
      <4>. QED
        BY <2>1, <2>4, <3>1, <4>1, <4>2, OriginUndoes DEF IInv, TypeOK
    <3>2. CASE i < trans
      BY <2>1, <2>3, <2>4, <3>2 DEF IInv, SnapshotsUndo, ID
    <3>. QED
      BY <2>1, <3>1, <3>2 DEF ID
  <2>7. TopBase'
    BY <2>1, <2>2 DEF IInv, TopBase, ID
  <2>. QED
    BY <1>0, <2>2, <2>5, <2>6, <2>7
       DEF IInv, SnapshotsBounded, Contiguous, RollbackWindow, CommitPending,
           RollbackPending
<1>7. ASSUME NEW n \in 1 .. MaxRollback, RollbackBegin(n)
      PROVE  IInv'
  <2>1. /\ mode' \in Refusals \cup {"rollback"}
        /\ UNCHANGED <<durable, memory, ghost>>
    BY <1>7 DEF RollbackBegin, Refusals
  <2>2. RollbackPending'
    <3>. SUFFICES ASSUME mode' = "rollback"
                  PROVE  /\ cursor' = sdbLast
                         /\ target' \in ID
                         /\ target' <= cursor' + 1
                         /\ cursor' <= snapLast
                         /\ target' <= snapLast
                         /\ snaps[target'] # NoSnap
      BY <2>1 DEF RollbackPending
    <3>1. /\ snapLast = sdbLast
          /\ ~(snapLast < n)
          /\ ~noOriginData(snapLast - n + 1)
          /\ cursor' = snapLast
          /\ target' = snapLast - n + 1
      BY <1>7 DEF RollbackBegin
    <3>. QED
      BY <3>1 DEF IInv, TypeOK, ID, noOriginData
  <2>3. mode' \notin {"commit", "badSnapshot"}
    BY <2>1 DEF Refusals
  <2>. QED
    BY <1>0, <2>1, <2>2, <2>3
       DEF IInv, SnapshotsUndo, SnapshotsBounded, Contiguous, RollbackWindow,
           CommitPending, TopBase
<1>8. CASE RollbackStateDB
  <2>1. /\ cursor = sdbLast /\ target \in ID /\ target <= cursor
        /\ cursor <= snapLast /\ target <= snapLast /\ snaps[target] # NoSnap
        /\ cursor \in ID
    BY <1>8 DEF RollbackStateDB, IInv, RollbackPending, TypeOK, ID
  <2>2. snaps[cursor] # NoSnap
    BY <2>1 DEF IInv, Contiguous
  <2>3. rollbackable(cursor) /\ restored(cursor) = hist[cursor - 1]
    BY <2>1, <2>2, KeptIsRollbackable
  <2>4. /\ sdb' = hist[cursor - 1]
        /\ sdbLast' = cursor - 1
        /\ cursor' = cursor - 1
        /\ hist' = [hist EXCEPT ![cursor] = EmptyContents]
        /\ mode' = "rollback"
        /\ UNCHANGED <<snaps, snapLast, target, top, base>>
    BY <1>8, <2>3 DEF RollbackStateDB
  <2>5. \A i \in 0 .. (cursor - 1) : hist'[i] = hist[i]
    BY <2>1, <2>4 DEF IInv, TypeOK, ID
  <2>6. StateIsVersion'
    BY <2>1, <2>4, <2>5 DEF ID
  <2>7. SnapshotsUndo'
    BY <2>1, <2>4, <2>5 DEF IInv, SnapshotsUndo, ID
  <2>8. RollbackPending'
    <3>1. /\ target \in ID /\ cursor \in ID /\ target <= cursor
          /\ cursor <= snapLast /\ target <= snapLast
          /\ snaps[target] # NoSnap
      BY <2>1
    <3>2. cursor' = sdbLast'
      BY <2>4
    <3>3. /\ cursor' = cursor - 1
          /\ UNCHANGED <<snaps, snapLast, target>>
      BY <2>4
    <3>4. target' \in ID /\ target' <= snapLast' /\ snaps'[target'] # NoSnap
      BY <3>1, <3>3
    <3>5. cursor \in Int /\ snapLast \in Int /\ target \in Int
      BY <3>1 DEF ID, IInv, TypeOK
    <3>6. target' <= cursor' + 1
      BY <3>1, <3>3, <3>5
    <3>7. cursor' <= snapLast'
      BY <3>1, <3>3, <3>5
    <3>. QED
      BY <3>2, <3>4, <3>6, <3>7 DEF RollbackPending
  <2>9. TopBase'
    BY <2>1, <2>4 DEF IInv, TopBase, TypeOK, ID
  <2>. QED
    BY <1>0, <2>4, <2>6, <2>7, <2>8, <2>9
       DEF IInv, SnapshotsBounded, Contiguous, RollbackWindow, CommitPending
<1>9. CASE RollbackEnd
  <2>1. sdbLast = target - 1 /\ target \in ID /\ target <= snapLast
    BY <1>9 DEF RollbackEnd, IInv, RollbackPending, TypeOK, ID
  <2>2. /\ \A i \in ID : snaps'[i] = IF i \in target .. snapLast
                                     THEN NoSnap ELSE snaps[i]
        /\ snapLast' = target - 1
        /\ mode' \in {"idle", "down"}
        /\ UNCHANGED <<sdb, sdbLast, top, base, hist>>
    BY <1>9 DEF RollbackEnd, lastAfterRollback
  <2>3. /\ snapLast \in Nat /\ sdbLast \in Nat /\ top \in Nat /\ base \in Nat
        /\ snapLast <= top
    BY DEF IInv, TypeOK, TopBase
  <2>4. SnapshotsUndo'
    BY <2>1, <2>2, <2>3 DEF IInv, SnapshotsUndo, TypeOK, ID
  <2>5. SnapshotsBounded'
    BY <2>1, <2>2, <2>3 DEF IInv, SnapshotsBounded, ID
  <2>6. Contiguous'
    BY <2>1, <2>2, <2>3 DEF IInv, Contiguous, ID
  <2>7. RollbackWindow'
    BY <2>1, <2>2, <2>3 DEF IInv, RollbackWindow, ID
  <2>8. TopBase'
    BY <2>1, <2>2, <2>3 DEF TopBase, ID
  <2>. QED
    BY <1>0, <2>2, <2>4, <2>5, <2>6, <2>7, <2>8
       DEF IInv, CommitPending, RollbackPending
<1>10. CASE Crash
  BY <1>0, <1>10
     DEF Crash, IInv, SnapshotsUndo, SnapshotsBounded, Contiguous,
         RollbackWindow, CommitPending, RollbackPending, TopBase
<1>11. CASE DeleteSnapshotDB
  <2>1. /\ \A i \in ID : snaps'[i] = NoSnap
        /\ snapLast' = 0
        /\ mode' \in Panics \cup {"down"}
        /\ base' = IF sdbLast > base THEN sdbLast ELSE base
        /\ UNCHANGED <<sdb, sdbLast, mode, hist, top>>
    BY <1>11 DEF DeleteSnapshotDB
  <2>2. sdbLast \in 0 .. MaxID /\ base \in Nat /\ top \in Nat
    BY DEF IInv, TypeOK
  <2>3. SnapshotsUndo'
    BY <2>1, <2>2 DEF SnapshotsUndo, ID
  <2>4. RollbackWindow'
    BY <2>1 DEF RollbackWindow, ID
  <2>5. TopBase'
    BY <2>1, <2>2 DEF TopBase
  <2>6. mode' \notin {"commit", "rollback"}
    BY <2>1 DEF Panics, Refusals, Corruptions
  <2>. QED
    BY <1>0, <2>1, <2>3, <2>4, <2>5, <2>6
       DEF IInv, SnapshotsBounded, Contiguous, CommitPending, RollbackPending
<1>12. CASE UNCHANGED vars
  BY <1>0, <1>12
     DEF vars, IInv, SnapshotsUndo, SnapshotsBounded, Contiguous,
         RollbackWindow, CommitPending, RollbackPending, TopBase
<1>. QED
  BY <1>1, <1>2, <1>3, <1>4, <1>5, <1>6, <1>7, <1>8, <1>9, <1>10, <1>11,
     <1>12 DEF Next

(* The inductive invariant holds of every state.                           *)
LEMMA Invariance == Spec => []IInv
<1>. QED
  BY InitIInv, NextIInv, PTL DEF Spec

-----------------------------------------------------------------------------
(* Every variable of package statedb keeps its type.                       *)
THEOREM TypeCorrect == Spec => []TypeOK
<1>1. IInv => TypeOK
  BY DEF IInv
<1>. QED
  BY <1>1, Invariance, PTL

(* Transaction.Commit and snapshot.rollback, interrupted by crashes at any *)
(* point, never leave the state database between two versions.             *)
THEOREM StateAlwaysVersion == Spec => []StateIsVersion
<1>1. IInv => StateIsVersion
  BY DEF IInv
<1>. QED
  BY <1>1, Invariance, PTL

(* The origin and new data kept by snapshot.commit describe the step from  *)
(* one version to the next, also after a commit that was repeated.         *)
THEOREM SnapshotsAlwaysUndo == Spec => []SnapshotsUndo
<1>1. IInv => SnapshotsUndo
  BY DEF IInv
<1>. QED
  BY <1>1, Invariance, PTL

(* A rollback that passed the checks of snapshot.rollback is not refused   *)
(* by rollbackStateDB after it undid some of the transactions.             *)
THEOREM RollbackCompletes == Spec => []RollbackNeverHalfWay
<1>1. IInv => RollbackNeverHalfWay
  BY DEF IInv
<1>. QED
  BY <1>1, Invariance, PTL

(* checkMaxCount bounds the snapshot database and drops nothing that is    *)
(* inside the rollback window.                                             *)
THEOREM WindowAlwaysExact == Spec => []WindowIsExact
<1>1. IInv => WindowIsExact
  BY DEF IInv, WindowIsExact
<1>. QED
  BY <1>1, Invariance, PTL

-----------------------------------------------------------------------------
(* How far the transaction IDs held in memory and in the two databases can *)
(* be apart.                                                               *)
IDsApart ==
  /\ snapLast # 0 => snapLast >= sdbLast
  /\ MaxRollback <= 1 /\ snapLast # 0 => snapLast <= sdbLast + 1
  /\ mode \in {"idle", "commit", "rollback"} =>
       /\ trans = 0 => lastID >= sdbLast
       /\ trans # 0 => lastID = trans
  /\ mode \in {"idle", "commit"} /\ trans = 0 /\ InProcess = FALSE => lastID = sdbLast
  /\ trans # 0 => trans > sdbLast
  /\ trans # 0 /\ InProcess = FALSE => trans = sdbLast + 1
  /\ mode = "rollback" => trans = 0
  /\ mode = "rollback" /\ MaxRollback <= 1 => target = snapLast

(* Every step keeps the identifiers apart.                                 *)
LEMMA NextIDsApart == IInv /\ IDsApart /\ [Next]_vars => IDsApart'
<1>. SUFFICES ASSUME IInv, IDsApart, [Next]_vars PROVE IDsApart'
  OBVIOUS
<1>. USE BoundAssumption
<1>. USE DEF IDsApart, durable, memory, loop, ghost
<1>0. TypeOK
  BY DEF IInv
<1>1. CASE New
  BY <1>0, <1>1 DEF New, TypeOK
<1>2. CASE NewCommittableTransaction
  BY <1>0, <1>2 DEF NewCommittableTransaction, TypeOK
<1>3. ASSUME NEW k \in Key, NEW v \in Val \cup {Nil}, Set(k, v)
      PROVE  IDsApart'
  BY <1>0, <1>3 DEF Set, TypeOK
<1>4. CASE TransactionRollback
  BY <1>0, <1>4 DEF TransactionRollback, TypeOK
<1>5. CASE CommitSnapshot
  BY <1>0, <1>5 DEF CommitSnapshot, idAccepted, TypeOK
<1>6. CASE CommitState
  <2>1. trans = sdbLast + 1 /\ trans = snapLast /\ trans \in ID
    BY <1>6 DEF CommitState, IInv, CommitPending
  <2>. QED
    BY <1>0, <1>6, <2>1 DEF CommitState, TypeOK, ID
<1>7. ASSUME NEW n \in 1 .. MaxRollback, RollbackBegin(n)
      PROVE  IDsApart'
  <2>1. MaxRollback <= 1 => n = 1
    OBVIOUS
  <2>. QED
    BY <1>0, <1>7, <2>1 DEF RollbackBegin, TypeOK
<1>8. CASE RollbackStateDB
  <2>1. sdbLast <= snapLast /\ snapLast \in ID /\ trans = 0 /\ lastID >= sdbLast
    BY <1>0, <1>8 DEF RollbackStateDB, IInv, RollbackPending, TypeOK, ID
  <2>2. /\ sdbLast' = sdbLast - 1 \/ sdbLast' = sdbLast
        /\ mode' \in {"rollback", "badSnapshot"}
        /\ UNCHANGED <<snapLast, trans, lastID, target>>
    BY <1>0, <1>8, <2>1
       DEF RollbackStateDB, IInv, RollbackPending, TypeOK, ID
  <2>3. MaxRollback <= 1 => sdbLast = snapLast
    BY <1>0, <1>8, <2>1 DEF RollbackStateDB, IInv, RollbackPending, TypeOK, ID
  <2>. QED
    BY <1>0, <1>8, <2>1, <2>2, <2>3 DEF RollbackStateDB, TypeOK, ID
<1>9. CASE RollbackEnd
  <2>1. trans = 0 /\ sdbLast = target - 1 /\ target \in ID /\ lastID >= sdbLast
    BY <1>0, <1>9 DEF RollbackEnd, IInv, RollbackPending, TypeOK, ID
  <2>. QED
    BY <1>0, <1>9, <2>1 DEF RollbackEnd, lastAfterRollback, TypeOK, ID
<1>10. CASE Crash
  BY <1>0, <1>10 DEF Crash, TypeOK
<1>11. CASE DeleteSnapshotDB
  <2>1. mode \notin {"idle", "commit", "rollback"}
    BY <1>11 DEF DeleteSnapshotDB, Panics, Refusals, Corruptions
  <2>. QED
    BY <1>0, <1>11, <2>1 DEF DeleteSnapshotDB, TypeOK
<1>12. CASE UNCHANGED vars
  BY <1>12 DEF vars
<1>. QED
  BY <1>1, <1>2, <1>3, <1>4, <1>5, <1>6, <1>7, <1>8, <1>9, <1>10, <1>11,
     <1>12 DEF Next

(* One step: only CommitSnapshot raises the two panics.                    *)
LEMMA RefusalIsAhead ==
  ASSUME IInv, IDsApart, [Next]_vars
  PROVE  /\ mode # "badID" /\ mode' = "badID"
              => InProcess /\ trans > sdbLast + 1
         /\ mode # "badSnapshotID" /\ mode' = "badSnapshotID"
              => MaxRollback > 1 /\ snapLast > sdbLast + 1
<1>. USE BoundAssumption
<1>0. TypeOK
  BY DEF IInv
<1>1. CASE CommitSnapshot
  BY <1>0, <1>1 DEF CommitSnapshot, IDsApart, idAccepted, TypeOK
<1>2. CASE ~CommitSnapshot
  <2>1. \/ mode' = mode
        \/ mode' \in Refusals \cup {"down", "idle", "rollback", "badSnapshot"}
    BY <1>2 DEF Next, New, NewCommittableTransaction, Set, TransactionRollback,
         CommitState, RollbackBegin, RollbackStateDB, RollbackEnd, Crash,
         DeleteSnapshotDB, vars, Refusals
  <2>. QED
    BY <2>1 DEF Refusals
<1>. QED
  BY <1>1, <1>2

(* checkID and snapshot.commit refuse a block only after a rollback that   *)
(* the process survived or that was interrupted between two transactions.  *)
THEOREM RefusedOnlyAhead == Spec => CommitRefusedOnlyAhead
<1>. DEFINE A == /\ mode # "badID" /\ mode' = "badID"
                     => InProcess /\ trans > sdbLast + 1
                 /\ mode # "badSnapshotID" /\ mode' = "badSnapshotID"
                     => MaxRollback > 1 /\ snapLast > sdbLast + 1
<1>1. Init => IDsApart
  BY DEF Init, IDsApart
<1>2. IInv /\ IDsApart /\ [Next]_vars => IDsApart'
  BY NextIDsApart
<1>3. IInv /\ IDsApart /\ [Next]_vars => [A]_vars
  BY RefusalIsAhead
<1>4. Spec => [][A]_vars
  <2>. HIDE DEF A
  <2>. QED
    BY <1>1, <1>2, <1>3, Invariance, PTL DEF Spec
<1>. QED
  BY <1>4 DEF CommitRefusedOnlyAhead

-----------------------------------------------------------------------------
(* The sequence of earlier versions that the refinement mapping gives.     *)
Earlier == [i \in 1 .. sdbLast |-> hist[i - 1]]

(* It is a sequence of contents, one for each earlier version.             *)
LEMMA EarlierType ==
  ASSUME TypeOK
  PROVE  /\ Earlier \in Seq(Contents)
         /\ Len(Earlier) = sdbLast
<1>1. \A i \in 1 .. sdbLast : hist[i - 1] \in Contents
  BY BoundAssumption DEF TypeOK
<1>. QED
  BY <1>1, BoundAssumption DEF TypeOK, Earlier

(* A step of the store writes both its databases as VersionedStore allows. *)
LEMMA StepSimulation ==
  IInv /\ IInv' /\ [Next]_vars => [Store!Next]_(Store!vars)
<1>. SUFFICES ASSUME IInv, IInv', [Next]_vars
              PROVE  Store!Next \/ UNCHANGED <<sdb, Earlier>>
  BY DEF Store!vars, Earlier
<1>. USE BoundAssumption
<1>0. TypeOK /\ TypeOK'
  BY DEF IInv
<1>1. /\ Earlier \in Seq(Contents) /\ Len(Earlier) = sdbLast
      /\ Earlier' \in Seq(Contents) /\ Len(Earlier') = sdbLast'
      /\ sdbLast \in Nat /\ sdbLast' \in Nat
  <2>1. Earlier \in Seq(Contents) /\ Len(Earlier) = sdbLast
    BY <1>0, EarlierType
  <2>2. \A i \in 1 .. sdbLast' : hist'[i - 1] \in Contents
    BY <1>0 DEF TypeOK
  <2>. QED
    BY <1>0, <2>1, <2>2 DEF TypeOK, Earlier
<1>2. CASE UNCHANGED <<sdb, sdbLast, hist>>
  BY <1>2 DEF Earlier
<1>3. CASE CommitState
  <2>1. /\ trans = sdbLast + 1
        /\ sdbLast' = trans
        /\ hist' = [hist EXCEPT ![trans] = Apply(buffer, hist[sdbLast])]
    BY <1>3 DEF CommitState, IInv, CommitPending
  <2>2. /\ \A i \in 1 .. sdbLast : Earlier'[i] = Earlier[i]
        /\ Earlier'[sdbLast + 1] = sdb
    BY <1>0, <1>1, <2>1 DEF Earlier, TypeOK, IInv, StateIsVersion
  <2>3. Earlier' = Append(Earlier, sdb)
    <3>1. sdbLast' = sdbLast + 1
      BY <2>1
    <3>2. /\ Append(Earlier, sdb) \in Seq(Contents)
          /\ Len(Append(Earlier, sdb)) = sdbLast + 1
          /\ \A i \in 1 .. sdbLast : Append(Earlier, sdb)[i] = Earlier[i]
          /\ Append(Earlier, sdb)[sdbLast + 1] = sdb
      <4>1. sdb \in Contents
        BY <1>0 DEF TypeOK
      <4>. DEFINE e == Earlier
      <4>2. e \in Seq(Contents) /\ Len(e) = sdbLast
        BY <1>1
      <4>. HIDE DEF e
      <4>3. /\ Append(e, sdb) \in Seq(Contents)
            /\ Len(Append(e, sdb)) = Len(e) + 1
            /\ \A i \in 1 .. Len(e) : Append(e, sdb)[i] = e[i]
            /\ Append(e, sdb)[Len(e) + 1] = sdb
        BY <4>1, <4>2, AppendProperties
      <4>. QED
        BY <4>2, <4>3 DEF e
    <3>3. \A i \in 1 .. (sdbLast + 1) : Earlier'[i] = Append(Earlier, sdb)[i]
      BY <1>1, <2>2, <3>2
    <3>. QED
      BY <1>1, <3>1, <3>2, <3>3, SeqEqual
  <2>4. sdb' \in Contents
    BY <1>0 DEF TypeOK
  <2>. QED
    BY <2>3, <2>4 DEF Store!Next, Store!Commit, Store!Contents, Contents, Earlier
<1>4. CASE RollbackStateDB /\ ~UNCHANGED sdbLast
  <2>1. /\ cursor \in ID
        /\ sdbLast' = cursor - 1
        /\ hist' = [hist EXCEPT ![cursor] = EmptyContents]
    BY <1>0, <1>4 DEF RollbackStateDB, IInv, RollbackPending, TypeOK, ID
  <2>2. cursor = sdbLast
    BY <1>4 DEF RollbackStateDB, IInv, RollbackPending
  <2>3. sdb' = hist[sdbLast - 1]
    <3>1. sdb' = hist'[sdbLast']
      BY DEF IInv, StateIsVersion
    <3>. QED
      BY <1>0, <2>1, <2>2, <3>1 DEF TypeOK, ID
  <2>4. sdb' = Earlier[Len(Earlier)]
    BY <1>1, <2>1, <2>2, <2>3 DEF Earlier, ID
  <2>5. Earlier' = SubSeq(Earlier, 1, Len(Earlier) - 1)
    <3>1. \A i \in 1 .. (sdbLast - 1) : Earlier'[i] = Earlier[i]
      BY <1>0, <1>1, <2>1, <2>2 DEF Earlier, TypeOK, ID
    <3>. QED
      BY <1>1, <2>1, <2>2, <3>1 DEF ID
  <2>6. Earlier # << >>
    BY <1>1, <2>1, <2>2 DEF ID
  <2>. QED
    BY <2>4, <2>5, <2>6 DEF Store!Next, Store!Undo, Earlier
<1>5. CASE RollbackStateDB /\ UNCHANGED sdbLast
  <2>1. cursor = sdbLast /\ cursor \in Int
    BY <1>0, <1>5 DEF RollbackStateDB, IInv, RollbackPending, TypeOK
  <2>2. sdbLast # cursor - 1
    BY <2>1
  <2>. QED
    BY <1>2, <1>5, <2>2 DEF RollbackStateDB
<1>. QED
  BY <1>2, <1>3, <1>4, <1>5
     DEF Next, vars, New, NewCommittableTransaction, Set, TransactionRollback,
         CommitSnapshot, RollbackBegin, RollbackStateDB, RollbackEnd, Crash,
         DeleteSnapshotDB, durable, ghost

(* Package statedb implements VersionedStore: its readers only ever see    *)
(* whole versions, each reached by one commit or one undo.                 *)
THEOREM Refinement == Spec => StoreSpec
<1>1. Init => Store!Init
  BY EmptyType DEF Init, Store!Init, Store!Contents, Contents, EmptyContents
<1>2. IInv /\ IInv' /\ [Next]_vars => [Store!Next]_(Store!vars)
  BY StepSimulation
<1>. QED
  BY <1>1, <1>2, Invariance, PTL DEF Spec, StoreSpec, Store!Spec
=============================================================================
