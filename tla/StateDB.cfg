\* Rollbacks of up to three blocks, interrupted anywhere, in the process that
\* goes on; crashes anywhere; the refinement.
SPECIFICATION Spec
CONSTANTS
  Key = {k1, k2}
  Val = {v1}
  Nil = Nil
  Unset = Unset
  NoSnap = NoSnap
  MaxID = 4
  MaxCount = 2
  MaxRollback = 3
  InProcess = TRUE
INVARIANTS
  StateIsVersion
  SnapshotsUndo
  RollbackNeverHalfWay
  WindowIsExact
PROPERTIES
  CommitRefusedOnlyAhead
  StoreSpec
