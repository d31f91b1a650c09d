------------------------------ MODULE StateDB ------------------------------
(***************************************************************************)
(* Package statedb: the versioned key-value store under bcchain.           *)
(*                                                                         *)
(* A StateDB owns two level databases that are written by separate batches:*)
(* the state database (sdb) and the snapshot database, which keeps for     *)
(* each of the last MaxCount transactions the values it wrote and the ones *)
(* it replaced.  Committing a transaction writes the snapshot batch first  *)
(* and the state batch second (Transaction.Commit); rolling back writes    *)
(* one state batch per transaction undone and one snapshot batch at the    *)
(* end (snapshot.rollback).  The process can die between any two batches.  *)
(*                                                                         *)
(* A Go panic ends the process; the modes named in Panics record which     *)
(* check raised it.                                                        *)
(***************************************************************************)
EXTENDS Integers

CONSTANTS
  Key,          \* keys of the state database
  Val,          \* non-empty values
  Nil,          \* the empty value; writing it deletes the key
  Unset,        \* a buffer entry that was not written
  NoSnap,       \* no snapshot is kept for a transaction
  MaxID,        \* bound: the largest transaction ID
  MaxCount,     \* New's maxSnapshotCount (100 in bcchain)
  MaxRollback,  \* bound: the most transactions one Rollback call undoes
  InProcess     \* TRUE when Rollback is the ABCI call, which leaves the
                \* process up; FALSE for the "bcchain rollback" command

ASSUME KeyAssumption == Nil \notin Val /\ Unset \notin Val \cup {Nil}

ASSUME SnapAssumption ==
  NoSnap \notin [origin : [Key -> Val \cup {Nil, Unset}],
                 new    : [Key -> Val \cup {Nil, Unset}]]

ASSUME BoundAssumption ==
  /\ MaxID \in Nat
  /\ MaxCount \in Nat
  /\ MaxRollback \in Nat
  /\ InProcess \in BOOLEAN

VARIABLES
  sdb,        \* state database: the value of every key
  sdbLast,    \* state database: $last_transaction_id (0 when absent)
  snaps,      \* snapshot database: $<id>$origin_data and $<id>$new_data
  snapLast,   \* snapshot database: its own $last_transaction_id
  lastID,     \* StateDB.lastCommittableTransactionID, in memory
  trans,      \* ID of StateDB.committableTransaction, 0 for nil
  buffer,     \* the buffer of that transaction
  mode,       \* what the process is doing
  cursor,     \* the transaction the rollback loop undoes next
  target,     \* the last transaction the rollback loop undoes
  hist,       \* history variable: the contents committed under each ID
  top,        \* history variable: highest ID the snapshot database has seen
  base        \* history variable: IDs up to base have no snapshot because
              \* the snapshot database was deleted

durable == <<sdb, sdbLast, snaps, snapLast>>
memory  == <<lastID, trans, buffer>>
loop    == <<cursor, target>>
ghost   == <<hist, top, base>>
vars    == <<sdb, sdbLast, snaps, snapLast, lastID, trans, buffer, mode,
             cursor, target, hist, top, base>>

ID       == 1 .. MaxID
Contents == [Key -> Val \cup {Nil}]
Buffer   == [Key -> Val \cup {Nil, Unset}]
Snap     == [origin : Buffer, new : Buffer]

EmptyBuffer   == [k \in Key |-> Unset]
EmptyContents == [k \in Key |-> Nil]

(* The panics of Rollback's and Close's argument checks.                   *)
Refusals == {"openTransaction", "mismatch", "tooFar", "noSnapshot"}

(* The panics of the consistency checks: a transaction ID out of sequence  *)
(* (checkID), a snapshot ID out of sequence (snapshot.commit) and snapshot *)
(* data that does not fit the state database (rollbackStateDB).            *)
Corruptions == {"badID", "badSnapshotID", "badSnapshot"}

Panics == Refusals \cup Corruptions

(* What a reader sees when the entries of b are laid over s; the batch     *)
(* written by Commit and by rollbackStateDB.                               *)
Apply(b, s) == [k \in Key |-> IF b[k] = Unset THEN s[k] ELSE b[k]]

(* The values that b replaces.                                             *)
OriginOfNew(b, s) == b
OriginOf(b, s) == [k \in Key |-> IF b[k] = Unset THEN Unset ELSE s[k]]

-----------------------------------------------------------------------------
(* The operators named ...Mut, and OriginOfNew above, are faulty variants  *)
(* of the definition that follows each of them.  No action uses them: they *)
(* serve to show that a property fails when the code is wrong.             *)

(* checkMaxCount: the snapshots dropped when transaction id is recorded,   *)
(* from id - MaxCount downwards to the first one that is missing.          *)
checkMaxCountEarlyMut(id) ==
  {i \in 1 .. (id - MaxCount + 1) :
     \A j \in i .. (id - MaxCount + 1) : snaps[j] # NoSnap}
checkMaxCount(id) ==
  {i \in 1 .. (id - MaxCount) :
     \A j \in i .. (id - MaxCount) : snaps[j] # NoSnap}

(* len(getOriginData(id)) = 0: never written, dropped, or written empty.   *)
noOriginDataMut(id) == FALSE
noOriginData(id) == snaps[id] = NoSnap \/ snaps[id].origin = EmptyBuffer

(* snapshot.commit accepts the next ID, the last one again (its state      *)
(* batch was lost) and any ID when the snapshot database was deleted.      *)
idAcceptedMut(id) == snapLast = 0 \/ id = snapLast + 1
idAccepted(id) == snapLast = 0 \/ id = snapLast + 1 \/ id = snapLast

(* The snapshot batch of transaction id: drop the old, record the new.     *)
snapsAfterMut(id) ==
  [i \in ID |->
     IF i = id /\ MaxCount # 0 /\ snapLast # id
     THEN [origin |-> OriginOf(buffer, sdb), new |-> buffer]
     ELSE IF i \in checkMaxCount(id) THEN NoSnap ELSE snaps[i]]
snapsAfter(id) ==
  [i \in ID |->
     IF i = id /\ MaxCount # 0
     THEN [origin |-> OriginOf(buffer, sdb), new |-> buffer]
     ELSE IF i \in checkMaxCount(id) THEN NoSnap ELSE snaps[i]]

(* The tests of rollbackStateDB before it writes: the new data is there    *)
(* and equals what the state database holds, the origin data is there.     *)
rollbackable(id) ==
  /\ snaps[id] # NoSnap
  /\ snaps[id].new # EmptyBuffer
  /\ \A k \in Key : snaps[id].new[k] \in {Unset, sdb[k]}
  /\ snaps[id].origin # EmptyBuffer

-----------------------------------------------------------------------------
Init ==
  /\ sdb = EmptyContents
  /\ sdbLast = 0
  /\ snaps = [i \in ID |-> NoSnap]
  /\ snapLast = 0
  /\ lastID = 0
  /\ trans = 0
  /\ buffer = EmptyBuffer
  /\ mode = "down"
  /\ cursor = 0
  /\ target = 0
  /\ hist = [i \in 0 .. MaxID |-> EmptyContents]
  /\ top = 0
  /\ base = 0

(* New: open both databases and take the last ID from the state database.  *)
New ==
  /\ mode \in Panics \cup {"down"}
  /\ lastID' = sdbLast
  /\ trans' = 0
  /\ buffer' = EmptyBuffer
  /\ mode' = "idle"
  /\ UNCHANGED <<durable, loop, ghost>>

NewCommittableTransaction ==
  /\ mode = "idle"
  /\ trans = 0
  /\ lastID < MaxID
  /\ lastID' = lastID + 1
  /\ trans' = lastID + 1
  /\ buffer' = EmptyBuffer
  /\ UNCHANGED <<durable, mode, loop, ghost>>

(* Transaction.Set; BatchSet and Tx.Commit are several of them.            *)
Set(k, v) ==
  /\ mode = "idle"
  /\ trans # 0
  /\ buffer' = [buffer EXCEPT ![k] = v]
  /\ UNCHANGED <<durable, lastID, trans, mode, loop, ghost>>

(* Transaction.Rollback empties the buffer; the transaction stays open.    *)
TransactionRollback ==
  /\ mode = "idle"
  /\ trans # 0
  /\ buffer' = EmptyBuffer
  /\ UNCHANGED <<durable, lastID, trans, mode, loop, ghost>>

(* Transaction.Commit up to and including snapshot.commit's batch.  The    *)
(* block layer writes the world state into every transaction it commits,   *)
(* so the buffer is not empty.                                             *)
CommitSnapshot ==
  /\ mode = "idle"
  /\ trans # 0
  /\ buffer # EmptyBuffer
  /\ IF trans # sdbLast + 1
     THEN /\ mode' = "badID"
          /\ UNCHANGED <<snaps, snapLast, top>>
     ELSE IF ~idAccepted(trans)
     THEN /\ mode' = "badSnapshotID"
          /\ UNCHANGED <<snaps, snapLast, top>>
     ELSE /\ mode' = "commit"
          /\ snaps' = snapsAfter(trans)
          /\ snapLast' = trans
          /\ top' = IF trans > top THEN trans ELSE top
  /\ UNCHANGED <<sdb, sdbLast, memory, loop, hist, base>>

(* Transaction.Commit from the state batch on.                             *)
CommitState ==
  /\ mode = "commit"
  /\ sdb' = Apply(buffer, sdb)
  /\ sdbLast' = trans
  /\ hist' = [hist EXCEPT ![trans] = Apply(buffer, hist[sdbLast])]
  /\ trans' = 0
  /\ buffer' = EmptyBuffer
  /\ mode' = "idle"
  /\ UNCHANGED <<snaps, snapLast, lastID, loop, top, base>>

(* StateDB.Rollback(n) and the checks of snapshot.rollback.                *)
RollbackBegin(n) ==
  LET first == snapLast - n + 1 IN
  /\ mode = "idle"
  /\ mode' = IF trans # 0 THEN "openTransaction"
             ELSE IF snapLast # sdbLast THEN "mismatch"
             ELSE IF snapLast < n THEN "tooFar"
             ELSE IF noOriginData(first) THEN "noSnapshot"
             ELSE "rollback"
  /\ cursor' = IF mode' = "rollback" THEN snapLast ELSE cursor
  /\ target' = IF mode' = "rollback" THEN first ELSE target
  /\ UNCHANGED <<durable, memory, ghost>>

(* The state batch of rollbackStateDB: every key gets its origin value     *)
(* back, an empty one deletes it.                                          *)
restoredMut(id) ==
  [k \in Key |-> IF snaps[id].origin[k] \in {Unset, Nil}
                 THEN sdb[k] ELSE snaps[id].origin[k]]
restored(id) == Apply(snaps[id].origin, sdb)

(* rollbackStateDB(cursor): one state batch.                               *)
RollbackStateDB ==
  /\ mode = "rollback"
  /\ cursor >= target
  /\ IF rollbackable(cursor)
     THEN /\ sdb' = restored(cursor)
          /\ sdbLast' = cursor - 1
          /\ cursor' = cursor - 1
          /\ hist' = [hist EXCEPT ![cursor] = EmptyContents]
          /\ UNCHANGED mode
     ELSE /\ mode' = "badSnapshot"
          /\ UNCHANGED <<sdb, sdbLast, cursor, hist>>
  /\ UNCHANGED <<snaps, snapLast, memory, target, top, base>>

(* The value $last_transaction_id gets in that batch.                      *)
lastAfterRollback(first) == first - 1

(* The snapshot batch that ends snapshot.rollback.  lastID keeps its value;*)
(* the command exits, the ABCI call returns to a running process.          *)
RollbackEnd ==
  /\ mode = "rollback"
  /\ cursor < target
  /\ snaps' = [i \in ID |-> IF i \in target .. snapLast THEN NoSnap
                                                        ELSE snaps[i]]
  /\ snapLast' = lastAfterRollback(target)
  /\ mode' = IF InProcess THEN "idle" ELSE "down"
  /\ cursor' = 0
  /\ target' = 0
  /\ UNCHANGED <<sdb, sdbLast, memory, ghost>>

(* The process dies between two batches; memory is gone.                  *)
Crash ==
  /\ mode \in {"idle", "commit", "rollback"}
  /\ mode' = "down"
  /\ trans' = 0
  /\ buffer' = EmptyBuffer
  /\ cursor' = 0
  /\ target' = 0
  /\ UNCHANGED <<durable, lastID, ghost>>

(* The operator removes <name>.snapshot.db, the case snapshot.commit       *)
(* allows for ("lastTransactionID == 0 means .snapshot.db deleted").       *)
DeleteSnapshotDB ==
  /\ mode \in Panics \cup {"down"}
  /\ snaps' = [i \in ID |-> NoSnap]
  /\ snapLast' = 0
  /\ base' = IF sdbLast > base THEN sdbLast ELSE base
  /\ UNCHANGED <<sdb, sdbLast, memory, mode, loop, hist, top>>

Next ==
  \/ New
  \/ NewCommittableTransaction
  \/ \E k \in Key, v \in Val \cup {Nil} : Set(k, v)
  \/ TransactionRollback
  \/ CommitSnapshot
  \/ CommitState
  \/ \E n \in 1 .. MaxRollback : RollbackBegin(n)
  \/ RollbackStateDB
  \/ RollbackEnd
  \/ Crash
  \/ DeleteSnapshotDB

Spec == Init /\ [][Next]_vars

-----------------------------------------------------------------------------
(* Types of the databases' contents, the process's memory and history.     *)
TypeOK ==
  /\ sdb \in Contents
  /\ sdbLast \in 0 .. MaxID
  /\ snaps \in [ID -> Snap \cup {NoSnap}]
  /\ snapLast \in 0 .. MaxID
  /\ lastID \in 0 .. MaxID
  /\ trans \in 0 .. MaxID
  /\ buffer \in Buffer
  /\ mode \in Panics \cup {"down", "idle", "commit", "rollback"}
  /\ cursor \in 0 .. MaxID
  /\ target \in 0 .. MaxID
  /\ hist \in [0 .. MaxID -> Contents]
  /\ top \in 0 .. MaxID
  /\ base \in 0 .. MaxID

(* At every instant, a crash between two batches included, the state       *)
(* database holds exactly the contents committed under the ID it records:  *)
(* no part of a transaction survives and an undo restores every key.       *)
StateIsVersion == sdb = hist[sdbLast]

(* A kept snapshot of a committed transaction leads from its version to    *)
(* the one before, and describes what the transaction wrote, so the        *)
(* consistency test of rollbackStateDB cannot fail on it.                  *)
SnapshotsUndo ==
  \A i \in 1 .. sdbLast :
    snaps[i] # NoSnap =>
      /\ Apply(snaps[i].origin, hist[i]) = hist[i - 1]
      /\ Apply(snaps[i].new, hist[i - 1]) = hist[i]
      /\ snaps[i].new # EmptyBuffer
      /\ \A k \in Key : snaps[i].new[k] = Unset <=> snaps[i].origin[k] = Unset

(* Once StateDB.Rollback has started to undo, the panics "invalid          *)
(* transactionID" and "snapshot data wrong" of rollbackStateDB cannot stop *)
(* it half-way.                                                            *)
RollbackNeverHalfWay == mode # "badSnapshot"

(* The snapshot database is bounded: it keeps the last MaxCount            *)
(* transactions at most, whatever was rolled back or replayed before.      *)
SnapshotsBounded ==
  \A i \in ID : snaps[i] # NoSnap => snapLast - MaxCount < i /\ i <= snapLast

(* "at most 100 blocks can be rolled back" (cmd/bcchain/rollback.go): and  *)
(* that many can.  Every transaction among the MaxCount highest ones ever  *)
(* recorded can still be undone unless it was undone already or the        *)
(* snapshot database was deleted since.                                    *)
RollbackWindow ==
  \A i \in ID :
    /\ i <= snapLast
    /\ i > top - MaxCount
    /\ i > base
    => snaps[i] # NoSnap

(* checkMaxCount keeps as many snapshots as it may and no more.            *)
WindowIsExact == SnapshotsBounded /\ RollbackWindow

(* The panics of checkID and of snapshot.commit that refuse the next block *)
(* come only after a rollback, never after crashes, restarts or a deleted  *)
(* snapshot database alone: one in the process that goes on, which still   *)
(* counts from the old transaction ID, or one of several transactions that *)
(* died before its snapshot batch, which left that database ahead.         *)
CommitRefusedOnlyAhead ==
  [][ /\ mode # "badID" /\ mode' = "badID"
        => InProcess /\ trans > sdbLast + 1
      /\ mode # "badSnapshotID" /\ mode' = "badSnapshotID"
        => MaxRollback > 1 /\ snapLast > sdbLast + 1
    ]_vars

(* The promise of the store, with the state database for the contents.     *)
Store == INSTANCE VersionedStore
           WITH current <- sdb,
                history <- [i \in 1 .. sdbLast |-> hist[i - 1]]
StoreSpec == Store!Spec
=============================================================================
