---------------------------- MODULE DeliverProofs ----------------------------
(***************************************************************************)
(* Proofs about module Deliver.                                            *)
(*                                                                         *)
(* First, replays: the inductive invariant says of every database the node *)
(* can have, after any number of crashes, replays and rollbacks, that it   *)
(* is the one recorded when its height was committed first; and of a block *)
(* being delivered that the node stands where an execution from the        *)
(* beginning of the block stands.  What a block does is a function of the  *)
(* committed contents and of the block, so both executions end alike.      *)
(*                                                                         *)
(* Then, what a block does: for a message, a transaction, the fee          *)
(* receipts, a contract that is initialised or mines, and so for a block,  *)
(* which keys are written and how, and what becomes of the money.  By the  *)
(* first part every state of the node is in the middle of one such         *)
(* execution on contents that others have left.                            *)
(***************************************************************************)
EXTENDS Deliver, DataLemmas

-----------------------------------------------------------------------------
(* What a new process holds of a block.                                    *)
Fresh == [buffer |-> Empty, list |-> << >>, fee |-> 0, rewards |-> 0,
          validators |-> 0, scGenesis |-> 0]

IsProgress(p) ==
  p = [buffer |-> p.buffer, list |-> p.list, fee |-> p.fee,
       rewards |-> p.rewards, validators |-> p.validators,
       scGenesis |-> p.scGenesis]

IsWorld(w) ==
  /\ w = [height |-> w.height, hash |-> w.hash, fee |-> w.fee,
          rewards |-> w.rewards]
  /\ w.height \in Nat
  /\ IsSequence(w.hash)

(* The first n transactions of block b, executed on the contents d.        *)
Run(d, b, n, run) ==
  /\ run[0] = begun(d, Fresh)
  /\ \A i \in 1 .. n : run[i] = deliverBCTx(d, run[i - 1], b[i])

(* Execution e of block b on the contents d.                               *)
Executed(d, b, e) ==
  \E run :
    /\ Len(b) \in Nat
    /\ Run(d, b, Len(b), run)
    /\ e.contents = committed(d, ended(d, run[Len(b)]))
    /\ e.response = reported(run[Len(b)])

(* The contents at a height, as the executions f left them; and the        *)
(* contents after n committed transactions.                                *)
Contents(f, h) == IF h = 0 THEN Genesis ELSE f[h].contents

Chain(f, n) == IF n = 0 THEN NoContents ELSE Contents(f, n - 1)

(* The parts of the inductive invariant: the consensus engine, the         *)
(* recorded executions, the database with its history, the calls of a      *)
(* block and the progress of the block.                                    *)
Sequences == IsSequence(blocks) /\ IsSequence(hashes) /\ IsSequence(first)
               /\ IsSequence(past)

Recorded ==
  /\ Len(hashes) = Len(first)
  /\ Len(first) <= Len(blocks)
  /\ \A h \in 1 .. Len(first) :
       /\ hashes[h] = first[h].contents[World].hash
       /\ Executed(Contents(first, h - 1), blocks[h], first[h])
  /\ \A h \in 0 .. Len(first) :
       /\ World \in DOMAIN Contents(first, h)
       /\ IsWorld(Contents(first, h)[World])
       /\ Contents(first, h)[World].height = h
       /\ Contents(first, h)[World].hash # << >>

Versions ==
  /\ Len(past) <= Len(first) + 1
  /\ db = Chain(first, Len(past))
  /\ \A i \in 1 .. Len(past) : past[i] = Chain(first, i - 1)

Calls ==
  /\ phase \in {"down", "idle", "block", "ended"}
  /\ phase \in {"down", "idle"} => buffer = Empty /\ validators = 0 /\ scGenesis = 0
  /\ phase \in {"block", "ended"} =>
       Len(past) # 0 /\ Height < Len(blocks) /\ done \in Nat

Progresses ==
  LET b == blocks[Height + 1] IN
  /\ phase = "block" =>
       \E run : Run(db, b, done, run) /\ Progress = run[done]
  /\ phase = "ended" =>
       \E run : /\ done = Len(b)
                /\ Run(db, b, done, run)
                /\ Progress = ended(db, run[done])
                /\ response = reported(run[done])

IInv == Sequences /\ Recorded /\ Versions /\ Calls /\ Progresses

-----------------------------------------------------------------------------
(* Two executions of a block on the same contents are the same.            *)
LEMMA RunIsUnique ==
  ASSUME NEW d, NEW b, NEW n \in Nat, NEW r, NEW s, Run(d, b, n, r), Run(d, b, n, s)
  PROVE  r[n] = s[n]
<1> DEFINE S == {i \in Nat : i <= n => r[i] = s[i]}
<1>1. 0 \in S
  BY DEF Run
<1>2. ASSUME NEW i \in Nat, i \in S PROVE i + 1 \in S
  <2>1. SUFFICES ASSUME i + 1 <= n PROVE r[i + 1] = s[i + 1]
    OBVIOUS
  <2>2. r[i] = s[i]
    BY <1>2, <2>1
  <2>3. i + 1 \in 1 .. n /\ (i + 1) - 1 = i
    BY <2>1
  <2>4. r[i + 1] = deliverBCTx(d, r[i], b[i + 1])
    BY <2>3 DEF Run
  <2>5. s[i + 1] = deliverBCTx(d, s[i], b[i + 1])
    BY <2>3 DEF Run
  <2> QED BY <2>2, <2>4, <2>5
<1> HIDE DEF S
<1>3. n \in S
  BY <1>1, <1>2, NumberInduction
<1> QED BY <1>3 DEF S

(* BCBeginBlock clears what AppDeliver still has of the block before, and  *)
(* EndBlock has cleared the rest: where a block begins depends on the      *)
(* committed contents alone.                                               *)
LEMMA BeginsFresh ==
  ASSUME phase = "idle", Calls
  PROVE  begun(db, Progress) = begun(db, Fresh)
<1> DEFINE h == db[World].height + 1
<1>1. Progress.buffer = Fresh.buffer
  BY DEF Calls, Progress, Fresh
<1>2. initOrUpdateSMC(db, Progress, h) = initOrUpdateSMC(db, Fresh, h)
  BY <1>1, Zenon DEF initOrUpdateSMC
<1>3. Progress.validators = Fresh.validators /\ Progress.scGenesis = Fresh.scGenesis
  BY DEF Calls, Progress, Fresh
<1> QED BY <1>2, <1>3 DEF begun

(* The calls of a block make a progress record of a progress record, so    *)
(* that the variables hold all of it.                                      *)
LEMMA BegunIsProgress ==
  ASSUME NEW d, NEW p, IsProgress(p)
  PROVE  IsProgress(begun(d, p))
BY DEF IsProgress, begun

(* So does the delivery of a transaction, whether or not it is executed.   *)
LEMMA DeliveredIsProgress ==
  ASSUME NEW d, NEW p, NEW tx, IsProgress(p)
  PROVE  IsProgress(deliverBCTx(d, p, tx))
<1>1. IsProgress(runDeliverTx(d, p, tx))
  BY DEF IsProgress, runDeliverTx
<1>2. IsProgress(reportFailure(p, tx))
  BY DEF IsProgress, reportFailure
<1> QED BY <1>1, <1>2 DEF deliverBCTx

(* So does the end of the block.                                           *)
LEMMA EndedIsProgress ==
  ASSUME NEW d, NEW p, IsProgress(p)
  PROVE  IsProgress(ended(d, p))
BY DEF IsProgress, ended

(* The variables are a progress record, and so is that of a fresh process. *)
LEMMA ProgressIsProgress == IsProgress(Progress) /\ IsProgress(Fresh)
BY DEF IsProgress, Progress, Fresh

(* What the variables become is the progress they hold next.               *)
LEMMA BecomesProgress ==
  ASSUME NEW p, IsProgress(p), Becomes(p)
  PROVE  Progress' = p
BY DEF IsProgress, Becomes, Progress

(* commitBlock and commitEmptyBlock add one to the height and never take   *)
(* the app hash back.                                                      *)
LEMMA CommittedWorld ==
  ASSUME NEW d, NEW p, IsWorld(d[World]), d[World].hash # << >>
  PROVE  /\ World \in DOMAIN committed(d, p)
         /\ IsWorld(committed(d, p)[World])
         /\ committed(d, p)[World].height = d[World].height + 1
         /\ committed(d, p)[World].hash # << >>
<1> DEFINE w == d[World]
<1>1. committed(d, p)[World] = newWorld(d, p) /\ World \in DOMAIN committed(d, p)
  BY DEF committed, Lay
<1>2. CASE p.list = << >>
  <2>1. newWorld(d, p) = [w EXCEPT !.height = @ + 1]
    BY <1>2 DEF newWorld
  <2> QED BY <1>1, <2>1 DEF IsWorld
<1>3. CASE p.list # << >>
  <2>1. newWorld(d, p) = [height |-> w.height + 1, hash |-> Append(w.hash, p.list),
                          fee |-> p.fee, rewards |-> p.rewards]
    BY <1>3 DEF newWorld
  <2>2. IsSequence(Append(w.hash, p.list)) /\ Append(w.hash, p.list) # << >>
    BY SequenceAppend DEF IsWorld
  <2> QED BY <1>1, <2>1, <2>2 DEF IsWorld
<1> QED BY <1>2, <1>3

(* The genesis contents are of height 0 and have a hash; no contents have  *)
(* none.                                                                   *)
LEMMA GenesisWorld ==
  /\ World \in DOMAIN Genesis
  /\ IsWorld(Genesis[World])
  /\ Genesis[World].height = 0
  /\ Genesis[World].hash # << >>
  /\ World \in DOMAIN NoContents
  /\ NoContents[World].height = 0
  /\ NoContents[World].hash = << >>
<1>1. World \in Key /\ World # Mines /\ World[1] # "keys"
  BY DEF Key, World, Mines
<1>2. NoContents[World] = [height |-> 0, hash |-> << >>, fee |-> 0, rewards |-> 0]
  BY <1>1 DEF NoContents, World, Mines
<1>3. Genesis[World] = [NoContents[World] EXCEPT !.hash = << << >> >>]
  BY <1>1 DEF Genesis, World, Mines
<1>4. Genesis[World] = [height |-> 0, hash |-> << << >> >>, fee |-> 0, rewards |-> 0]
  BY <1>2, <1>3
<1>5. World \in DOMAIN Genesis /\ World \in DOMAIN NoContents
  BY <1>1 DEF Genesis, NoContents
<1>6. IsSequence(<< << >> >>) /\ << << >> >> # << >>
  BY DEF IsSequence, Range
<1> QED BY <1>2, <1>4, <1>5, <1>6 DEF IsWorld

-----------------------------------------------------------------------------
(* Where the database stands: before genesis, or at the height that the    *)
(* length of its history tells.                                            *)
LEMMA Standing ==
  ASSUME Sequences, Recorded, Versions
  PROVE  /\ Len(past) \in Nat /\ Len(first) \in Nat /\ Len(blocks) \in Nat
         /\ World \in DOMAIN db
         /\ Len(past) = 0 => db = NoContents /\ Height = 0 /\ db[World].hash = << >>
         /\ Len(past) # 0 => /\ db = Contents(first, Len(past) - 1)
                             /\ Len(past) - 1 \in 0 .. Len(first)
                             /\ IsWorld(db[World])
                             /\ Height = Len(past) - 1
                             /\ db[World].hash # << >>
<1>1. Len(past) \in Nat /\ Len(first) \in Nat /\ Len(blocks) \in Nat
  BY SequenceDomain DEF Sequences
<1>2. CASE Len(past) = 0
  BY <1>1, <1>2, GenesisWorld DEF Versions, Chain, Height
<1>3. CASE Len(past) # 0
  <2>1. Len(past) - 1 \in 0 .. Len(first)
    BY <1>1, <1>3 DEF Versions
  <2>2. db = Contents(first, Len(past) - 1)
    BY <1>3 DEF Versions, Chain
  <2> QED BY <1>1, <1>3, <2>1, <2>2 DEF Recorded, Height
<1> QED BY <1>2, <1>3

(* An empty buffer shows the committed contents.                           *)
LEMMA EmptyView ==
  ASSUME buffer = Empty
  PROVE  View[World] = db[World] \/ World \notin DOMAIN db
<1>1. DOMAIN Empty = {}
  BY DEF Empty
<1> QED BY <1>1 DEF View, Lay

(* The recorded executions are what they were as long as the consensus     *)
(* engine keeps its own.                                                   *)
LEMMA RecordedKept ==
  ASSUME Recorded, UNCHANGED <<blocks, hashes, first>>
  PROVE  Recorded'
BY DEF Recorded, Contents

(* The versions are kept when the database, its past and the records are.  *)
LEMMA VersionsKept ==
  ASSUME Versions, UNCHANGED <<db, past, first>>
  PROVE  Versions'
BY DEF Versions, Chain, Contents

-----------------------------------------------------------------------------
(* An empty database, of which nothing is recorded.                        *)
LEMMA InitIInv == ASSUME Init PROVE IInv
<1>1. Sequences
  BY EmptySequence DEF Init, Sequences
<1>2. Recorded
  <2>1. Len(first) = 0 /\ Len(hashes) = 0 /\ Len(blocks) = 0
    BY EmptySequence DEF Init
  <2>2. Contents(first, 0) = Genesis
    BY DEF Contents
  <2> QED BY <2>1, <2>2, GenesisWorld DEF Recorded
<1>3. Versions
  BY EmptySequence DEF Init, Versions, Chain
<1>4. Calls /\ Progresses
  BY DEF Init, Calls, Progresses
<1> QED BY <1>1, <1>2, <1>3, <1>4 DEF IInv

(* The genesis contents are the first version.                             *)
LEMMA InitChainIInv == ASSUME IInv, InitChain PROVE IInv'
<1> USE DEF IInv
<1>1. World \in DOMAIN db /\ Len(past) \in Nat
  BY Standing
<1>2. buffer = Empty
  BY DEF InitChain, Calls
<1>3. CASE db[World].hash # << >>
  <2>1. /\ UNCHANGED <<db, past, buffer, validators, scGenesis, phase, blocks, hashes, first>>
        /\ phase = "idle"
    BY <1>1, <1>2, <1>3, EmptyView DEF InitChain, store, pending, consensus
  <2>2. Sequences' /\ Recorded' /\ Versions' /\ Calls' /\ Progresses'
    BY <2>1, RecordedKept, VersionsKept DEF Sequences, Calls, Progresses
  <2> QED BY <2>2
<1>4. CASE db[World].hash = << >>
  <2>1. /\ db' = Genesis
        /\ past' = Append(past, db)
        /\ buffer' = Empty
        /\ UNCHANGED <<validators, scGenesis, phase, blocks, hashes, first>>
        /\ phase = "idle"
    BY <1>1, <1>2, <1>4, EmptyView DEF InitChain, pending, consensus
  <2>2. Len(past) = 0 /\ db = NoContents /\ Len(first) \in Nat
    BY <1>4, Standing
  <2>3. IsSequence(past') /\ Len(past') = 1 /\ past'[1] = NoContents
    <3>1. /\ IsSequence(past') /\ Len(past') = Len(past) + 1
          /\ past'[Len(past) + 1] = NoContents
      BY <2>1, <2>2, SequenceAppend DEF Sequences
    <3> QED BY <2>2, <3>1
  <2>4. Sequences' /\ Recorded' /\ Calls' /\ Progresses'
    BY <2>1, <2>3, RecordedKept DEF Sequences, Calls, Progresses
  <2>5. Versions'
    BY <2>1, <2>2, <2>3 DEF Versions, Chain, Contents
  <2> QED BY <2>4, <2>5
<1> QED BY <1>3, <1>4

(* A block that is decided is of the next height: nothing recorded of      *)
(* earlier ones changes.                                                   *)
LEMMA DecideIInv == ASSUME IInv, NEW b \in Blocks, Decide(b) PROVE IInv'
<1> USE DEF IInv
<1>1. /\ UNCHANGED <<db, past, buffer, validators, scGenesis, phase, hashes, first>>
      /\ blocks' = Append(blocks, b)
      /\ phase = "idle"
  BY DEF Decide, store, block, pending
<1>2. /\ IsSequence(blocks') /\ Len(blocks') = Len(blocks) + 1
      /\ \A i \in 1 .. Len(blocks) : blocks'[i] = blocks[i]
  BY <1>1, SequenceAppend DEF Sequences
<1>3. Len(blocks) \in Nat /\ Len(first) \in Nat
  BY Standing
<1>4. Sequences' /\ Calls' /\ Progresses'
  BY <1>1, <1>2 DEF Sequences, Calls, Progresses
<1>5. Versions'
  BY <1>1, VersionsKept
<1>6. Recorded'
  BY <1>1, <1>2, <1>3 DEF Recorded, Contents
<1> QED BY <1>4, <1>5, <1>6

(* The header carries the app hash that consensus recorded with the        *)
(* contents the node stands on, so getAndVerifyAppState does not panic.    *)
LEMMA BeginBlockIInv == ASSUME IInv, BeginBlock PROVE IInv'
<1> USE DEF IInv
<1>1. phase = "idle" /\ buffer = Empty /\ Height < Len(blocks) /\ Len(past) # 0
  BY Standing DEF BeginBlock, Calls
<1>2. /\ World \in DOMAIN db /\ Height = Len(past) - 1 /\ Height \in 0 .. Len(first)
      /\ db = Contents(first, Height)
  BY <1>1, Standing
<1>3. View[World].hash = db[World].hash
  BY <1>1, <1>2, EmptyView
<1>4. PICK h : h = Height + 1
  OBVIOUS
<1>5. ~(h > 1 /\ hashes[h - 1] # View[World].hash)
  <2>1. CASE Height = 0
    BY <1>4, <2>1
  <2>2. CASE Height # 0
    <3>1. Len(first) \in Nat
      BY Standing
    <3>2. Height \in 1 .. Len(first) /\ h - 1 = Height
      BY <1>2, <1>4, <2>2, <3>1
    <3>3. hashes[Height] = first[Height].contents[World].hash
      BY <3>2 DEF Recorded
    <3>4. db = first[Height].contents
      BY <1>2, <2>2 DEF Contents
    <3> QED BY <1>3, <3>2, <3>3, <3>4
  <2> QED BY <2>1, <2>2
<1>6. /\ phase' = "block"
      /\ Becomes(begun(db, Progress))
      /\ done' = 0
      /\ UNCHANGED <<db, past, blocks, hashes, first>>
  <2>1. done' = 0 /\ UNCHANGED <<db, past, blocks, hashes, first>>
    BY DEF BeginBlock, store, consensus
  <2>2. IF h > 1 /\ hashes[h - 1] # View[World].hash
        THEN TRUE
        ELSE phase' = "block" /\ Becomes(begun(db, Progress))
    BY <1>4 DEF BeginBlock
  <2> QED BY <1>5, <2>1, <2>2
<1>7. Progress' = begun(db, Fresh)
  <2>1. begun(db, Progress) = begun(db, Fresh)
    BY <1>1, BeginsFresh
  <2> QED BY <1>6, <2>1, BecomesProgress, BegunIsProgress, ProgressIsProgress
<1>8. Sequences' /\ Recorded' /\ Versions'
  BY <1>6, RecordedKept, VersionsKept DEF Sequences
<1>9. Calls'
  BY <1>1, <1>6 DEF Calls, Height
<1>10. Progresses'
  <2> DEFINE run == [i \in {0} |-> begun(db, Fresh)]
  <2>1. Run(db, blocks[Height + 1], 0, run) /\ Progress' = run[0]
    BY <1>7 DEF Run
  <2> HIDE DEF run
  <2>2. \E r : Run(db', blocks'[Height' + 1], done', r) /\ Progress' = r[done']
    BY <1>6, <2>1 DEF Height
  <2> QED BY <1>6, <2>2 DEF Progresses
<1> QED BY <1>8, <1>9, <1>10

(* A transaction extends the run of the block by its progress.             *)
LEMMA DeliverTxIInv == ASSUME IInv, DeliverTx PROVE IInv'
<1> USE DEF IInv
<1> DEFINE b == blocks[Height + 1]
           next == deliverBCTx(db, Progress, b[done + 1])
<1>1. /\ phase = "block" /\ phase' = "block"
      /\ done < Len(b) /\ done' = done + 1
      /\ Becomes(next)
      /\ UNCHANGED <<db, past, blocks, hashes, first>>
  BY DEF DeliverTx, store, consensus
<1>2. Progress' = next
  BY <1>1, BecomesProgress, DeliveredIsProgress, ProgressIsProgress
<1>3. done \in Nat
  BY <1>1 DEF Calls
<1>4. Sequences' /\ Recorded' /\ Versions'
  BY <1>1, RecordedKept, VersionsKept DEF Sequences
<1>5. Calls'
  BY <1>1, <1>3 DEF Calls, Height
<1>6. Progresses'
  <2>1. PICK run : Run(db, b, done, run) /\ Progress = run[done]
    BY <1>1 DEF Progresses
  <2> DEFINE more == [i \in 0 .. done + 1 |-> IF i = done + 1 THEN next ELSE run[i]]
  <2>2. more[done + 1] = next /\ more[0] = run[0]
    BY <1>3
  <2>3. ASSUME NEW i \in 1 .. done + 1
        PROVE  more[i] = deliverBCTx(db, more[i - 1], b[i])
    <3>1. CASE i = done + 1
      <4>1. more[i - 1] = run[done]
        BY <1>3, <3>1
      <4> QED BY <2>1, <2>2, <3>1, <4>1
    <3>2. CASE i # done + 1
      <4>1. i \in 1 .. done /\ more[i] = run[i] /\ more[i - 1] = run[i - 1]
        BY <1>3, <3>2
      <4> QED BY <2>1, <4>1 DEF Run
    <3> QED BY <3>1, <3>2
  <2> HIDE DEF more
  <2>4. Run(db, b, done + 1, more)
    BY <2>1, <2>2, <2>3 DEF Run
  <2>5. \E r : Run(db', blocks'[Height' + 1], done', r) /\ Progress' = r[done']
    BY <1>1, <1>2, <2>2, <2>4 DEF Height
  <2> QED BY <1>1, <2>5 DEF Progresses
<1> QED BY <1>4, <1>5, <1>6

(* The end of the block reports the run's last progress.                   *)
LEMMA EndBlockIInv == ASSUME IInv, EndBlock PROVE IInv'
<1> USE DEF IInv
<1> DEFINE b == blocks[Height + 1]
<1>1. /\ phase = "block" /\ phase' = "ended"
      /\ done = Len(b) /\ done' = done
      /\ Becomes(ended(db, Progress))
      /\ response' = reported(Progress)
      /\ UNCHANGED <<db, past, blocks, hashes, first>>
  BY DEF EndBlock, store, consensus
<1>2. Progress' = ended(db, Progress)
  BY <1>1, BecomesProgress, EndedIsProgress, ProgressIsProgress
<1>3. Sequences' /\ Recorded' /\ Versions'
  BY <1>1, RecordedKept, VersionsKept DEF Sequences
<1>4. Calls'
  BY <1>1 DEF Calls, Height
<1>5. Progresses'
  <2>1. PICK run : Run(db, b, done, run) /\ Progress = run[done]
    BY <1>1 DEF Progresses
  <2> QED BY <1>1, <1>2, <2>1 DEF Progresses, Height
<1> QED BY <1>3, <1>4, <1>5

(* The contents committed at a height are those recorded, or become them.  *)
LEMMA CommitIInv == ASSUME IInv, Commit PROVE IInv'
<1> USE DEF IInv
<1>0. PICK h : h = Height + 1
  OBVIOUS
<1> DEFINE contents == committed(db, Progress)
           e == [contents |-> contents, response |-> response]
<1>1. /\ phase = "ended" /\ phase' = "idle"
      /\ db' = contents /\ past' = Append(past, db)
      /\ buffer' = Empty
      /\ hashes' = IF Len(hashes) < h THEN Append(hashes, contents[World].hash) ELSE hashes
      /\ first' = IF Len(first) < h THEN Append(first, e) ELSE first
      /\ UNCHANGED <<validators, scGenesis, blocks>>
  BY <1>0 DEF Commit, pending
<1>2. /\ Len(past) # 0 /\ Height < Len(blocks)
      /\ Height = Len(past) - 1 /\ h = Height + 1 /\ Height \in 0 .. Len(first)
      /\ db = Contents(first, Height)
      /\ IsWorld(db[World]) /\ db[World].hash # << >>
      /\ Len(past) \in Nat /\ Len(first) \in Nat /\ Len(blocks) \in Nat
  BY <1>0, <1>1, Standing DEF Calls
<1>3. PICK run : /\ done = Len(blocks[h])
                 /\ done \in Nat
                 /\ Run(db, blocks[h], done, run)
                 /\ Progress = ended(db, run[done])
                 /\ response = reported(run[done])
  BY <1>0, <1>1 DEF Progresses, Calls
<1>4. validators = 0 /\ scGenesis = 0
  <2>1. Progress.validators = 0 /\ Progress.scGenesis = 0
    BY <1>3 DEF ended
  <2> QED BY <2>1 DEF Progress
<1>5. /\ World \in DOMAIN contents
      /\ IsWorld(contents[World])
      /\ contents[World].height = h
      /\ contents[World].hash # << >>
  BY <1>2, CommittedWorld DEF Height
<1> HIDE DEF contents
<1>6. Executed(Contents(first, h - 1), blocks[h], e)
  <2>1. h - 1 = Height
    BY <1>2
  <2>2. /\ Len(blocks[h]) \in Nat
        /\ Run(Contents(first, h - 1), blocks[h], Len(blocks[h]), run)
        /\ e.contents = committed(Contents(first, h - 1), ended(Contents(first, h - 1), run[Len(blocks[h])]))
        /\ e.response = reported(run[Len(blocks[h])])
    BY <1>2, <1>3, <2>1 DEF contents
  <2> QED BY <2>2 DEF Executed
<1>7. /\ IsSequence(past') /\ Len(past') = Len(past) + 1
      /\ \A i \in 1 .. Len(past) : past'[i] = past[i]
      /\ past'[Len(past) + 1] = db
  BY <1>1, SequenceAppend DEF Sequences
<1>8. Calls' /\ Progresses'
  BY <1>1, <1>4 DEF Calls, Progresses
<1>9. CASE Len(first) < h
  <2>1. Len(first) = Height /\ Len(hashes) = Height
    BY <1>2, <1>9 DEF Recorded
  <2>2. /\ IsSequence(first') /\ Len(first') = h
        /\ \A i \in 1 .. Height : first'[i] = first[i]
        /\ first'[h] = e
    <3>1. first' = Append(first, e) /\ IsSequence(first) /\ Len(first) + 1 = h
      BY <1>1, <1>2, <1>9, <2>1 DEF Sequences
    <3> QED BY <2>1, <3>1, SequenceAppend
  <2>3. /\ IsSequence(hashes') /\ Len(hashes') = h
        /\ \A i \in 1 .. Height : hashes'[i] = hashes[i]
        /\ hashes'[h] = contents[World].hash
    BY <1>1, <1>2, <2>1, SequenceAppend DEF Sequences
  <2>4. \A i \in 0 .. Height : Contents(first', i) = Contents(first, i)
    BY <2>2 DEF Contents
  <2>5. Contents(first', h) = contents
    BY <1>2, <2>2 DEF Contents
  <2>6. Sequences'
    BY <1>1, <1>7, <2>2, <2>3 DEF Sequences
  <2>7. Recorded'
    <3>1. Len(hashes') = Len(first') /\ Len(first') <= Len(blocks')
      BY <1>1, <1>2, <2>2, <2>3
    <3>2. ASSUME NEW i \in 1 .. Len(first')
          PROVE  /\ hashes'[i] = first'[i].contents[World].hash
                 /\ Executed(Contents(first', i - 1), blocks'[i], first'[i])
      <4>1. CASE i = h
        BY <1>1, <1>2, <1>6, <2>2, <2>3, <2>4, <4>1
      <4>2. CASE i # h
        <5>1. i \in 1 .. Height /\ i \in 1 .. Len(first) /\ i - 1 \in 0 .. Height
          BY <1>2, <2>1, <2>2, <4>2
        <5> QED BY <1>1, <2>2, <2>3, <2>4, <5>1 DEF Recorded
      <4> QED BY <4>1, <4>2
    <3>3. ASSUME NEW i \in 0 .. Len(first')
          PROVE  /\ World \in DOMAIN Contents(first', i)
                 /\ IsWorld(Contents(first', i)[World])
                 /\ Contents(first', i)[World].height = i
                 /\ Contents(first', i)[World].hash # << >>
      <4>1. CASE i = h
        BY <1>5, <2>5, <4>1
      <4>2. CASE i # h
        <5>1. i \in 0 .. Height /\ i \in 0 .. Len(first)
          BY <1>2, <2>1, <2>2, <4>2
        <5> QED BY <2>4, <5>1 DEF Recorded
      <4> QED BY <4>1, <4>2
    <3> QED BY <3>1, <3>2, <3>3 DEF Recorded
  <2>8. Versions'
    <3>1. Len(past') <= Len(first') + 1
      BY <1>2, <1>7, <2>2
    <3>2. db' = Chain(first', Len(past'))
      <4>1. Len(past') = h + 1 /\ h + 1 # 0 /\ (h + 1) - 1 = h
        BY <1>2, <1>7
      <4>2. Chain(first', h + 1) = contents
        BY <2>5, <4>1 DEF Chain
      <4> QED BY <1>1, <4>1, <4>2
    <3>3. ASSUME NEW i \in 1 .. Len(past') PROVE past'[i] = Chain(first', i - 1)
      <4>1. i - 1 \in 0 .. h /\ i \in 1 .. h + 1 /\ h \in Nat
        BY <1>2, <1>7
      <4>2. Chain(first', i - 1) = Chain(first, i - 1)
        BY <1>2, <2>4, <4>1 DEF Chain
      <4>3. CASE i = h + 1
        <5>1. i = Len(past) + 1 /\ i - 1 = Len(past)
          BY <1>2, <4>3
        <5> QED BY <1>7, <4>2, <5>1 DEF Versions
      <4>4. CASE i # h + 1
        BY <1>2, <1>7, <4>1, <4>2, <4>4 DEF Versions
      <4> QED BY <4>3, <4>4
    <3> QED BY <3>1, <3>2, <3>3 DEF Versions
  <2> QED BY <1>8, <2>6, <2>7, <2>8
<1>10. CASE ~(Len(first) < h)
  <2>1. UNCHANGED <<blocks, hashes, first>>
    BY <1>1, <1>10 DEF Recorded
  <2>2. h \in 1 .. Len(first)
    BY <1>2, <1>10
  <2>3. contents = first[h].contents
    <3>1. Executed(Contents(first, h - 1), blocks[h], first[h])
      BY <2>2 DEF Recorded
    <3>2. PICK old : /\ Run(Contents(first, h - 1), blocks[h], Len(blocks[h]), old)
                     /\ first[h].contents
                          = committed(Contents(first, h - 1), ended(Contents(first, h - 1), old[Len(blocks[h])]))
      BY <3>1 DEF Executed
    <3>3. h - 1 = Height /\ Contents(first, h - 1) = db
      BY <1>2
    <3>4. old[done] = run[done]
      BY <1>3, <3>2, <3>3, RunIsUnique
    <3> QED BY <1>3, <3>2, <3>3, <3>4 DEF contents
  <2>4. Sequences' /\ Recorded'
    BY <1>7, <2>1, RecordedKept DEF Sequences
  <2>5. Versions'
    <3>1. \A i : Contents(first', i) = Contents(first, i) /\ Chain(first', i) = Chain(first, i)
      BY <2>1 DEF Chain, Contents
    <3>2. Len(past') <= Len(first') + 1
      BY <1>2, <1>7, <2>1, <2>2
    <3>3. db' = Chain(first', Len(past'))
      <4>1. Len(past') = h + 1 /\ h + 1 # 0 /\ (h + 1) - 1 = h /\ h # 0
        BY <1>2, <1>7
      <4>2. Chain(first, h + 1) = first[h].contents
        BY <4>1 DEF Chain, Contents
      <4> QED BY <1>1, <2>3, <3>1, <4>1, <4>2
    <3>4. ASSUME NEW i \in 1 .. Len(past') PROVE past'[i] = Chain(first', i - 1)
      <4>1. i \in 1 .. h + 1 /\ h \in Nat
        BY <1>2, <1>7
      <4>2. CASE i = h + 1
        <5>1. i = Len(past) + 1 /\ i - 1 = Len(past)
          BY <1>2, <4>2
        <5> QED BY <1>7, <3>1, <5>1 DEF Versions
      <4>3. CASE i # h + 1
        BY <1>2, <1>7, <3>1, <4>1, <4>3 DEF Versions
      <4> QED BY <4>2, <4>3
    <3> QED BY <3>2, <3>3, <3>4 DEF Versions
  <2> QED BY <1>8, <2>4, <2>5
<1> QED BY <1>9, <1>10

(* A crash loses the run and leaves the versions.                          *)
LEMMA CrashIInv == ASSUME IInv, Crash PROVE IInv'
<1> USE DEF IInv
<1>1. /\ phase' = "down" /\ buffer' = Empty /\ validators' = 0 /\ scGenesis' = 0
      /\ UNCHANGED <<db, past, blocks, hashes, first>>
  BY DEF Crash, store, consensus
<1>2. Sequences' /\ Recorded' /\ Versions'
  BY <1>1, RecordedKept, VersionsKept DEF Sequences
<1>3. Calls' /\ Progresses'
  BY <1>1 DEF Calls, Progresses
<1> QED BY <1>2, <1>3

(* A restart finds the app hash that consensus has of its height.          *)
LEMMA RestartIInv == ASSUME IInv, Restart PROVE IInv'
<1> USE DEF IInv
<1>1. /\ phase = "down" /\ phase' = "idle"
      /\ UNCHANGED <<buffer, validators, scGenesis, db, past, blocks, hashes, first>>
  BY DEF Restart, store, consensus, block, pending
<1>2. Sequences' /\ Recorded' /\ Versions'
  BY <1>1, RecordedKept, VersionsKept DEF Sequences
<1>3. Calls' /\ Progresses'
  BY <1>1 DEF Calls, Progresses
<1> QED BY <1>2, <1>3

(* "bcchain rollback" goes back to the contents before, which are those    *)
(* recorded one height lower.                                              *)
LEMMA RollbackCmdIInv == ASSUME IInv, RollbackCmd PROVE IInv'
<1> USE DEF IInv
<1>1. /\ phase = "down" /\ phase' = "down"
      /\ past # << >> /\ db' = Last(past) /\ past' = Front(past)
      /\ UNCHANGED <<buffer, validators, scGenesis, blocks, hashes, first>>
  BY DEF RollbackCmd, consensus, block, pending
<1>2. /\ Len(past) >= 1 /\ Last(past) = past[Len(past)]
      /\ IsSequence(past') /\ Len(past') = Len(past) - 1
      /\ \A i \in 1 .. Len(past) - 1 : past'[i] = past[i]
  BY <1>1, SequenceFront DEF Sequences
<1>3. Len(past) \in Nat /\ Len(first) \in Nat
  BY Standing
<1>4. Sequences' /\ Recorded'
  BY <1>1, <1>2, RecordedKept DEF Sequences
<1>5. Calls' /\ Progresses'
  BY <1>1 DEF Calls, Progresses
<1>6. Versions'
  <2>1. \A i : Contents(first', i) = Contents(first, i) /\ Chain(first', i) = Chain(first, i)
    BY <1>1 DEF Chain, Contents
  <2>2. db' = Chain(first, Len(past) - 1)
    BY <1>1, <1>2, <1>3 DEF Versions
  <2>3. ASSUME NEW i \in 1 .. Len(past') PROVE past'[i] = Chain(first, i - 1)
    <3>1. i \in 1 .. Len(past) - 1 /\ i \in 1 .. Len(past)
      BY <1>2, <1>3
    <3> QED BY <1>2, <3>1 DEF Versions
  <2>4. Len(past') <= Len(first') + 1
    BY <1>1, <1>2, <1>3 DEF Versions
  <2> QED BY <1>2, <2>1, <2>2, <2>3, <2>4 DEF Versions
<1> QED BY <1>4, <1>5, <1>6

(* Nothing of the node changes.                                            *)
LEMMA StutterIInv == ASSUME IInv, UNCHANGED vars PROVE IInv'
<1>1. UNCHANGED <<db, past, buffer, hashList, fee, rewards, validators, scGenesis,
                  response, phase, done, blocks, hashes, first>>
  BY DEF vars
<1>2. Sequences' /\ Recorded' /\ Versions'
  BY <1>1, RecordedKept, VersionsKept DEF IInv, Sequences
<1>3. Calls' /\ Progresses'
  BY <1>1 DEF IInv, Calls, Progresses, Progress, Height
<1> QED BY <1>2, <1>3 DEF IInv

(* Every step keeps the invariant.                                         *)
LEMMA NextIInv == ASSUME IInv, [Next]_vars PROVE IInv'
BY InitChainIInv, DecideIInv, BeginBlockIInv, DeliverTxIInv, EndBlockIInv,
   CommitIInv, CrashIInv, RestartIInv, RollbackCmdIInv, StutterIInv DEF Next

(* The inductive invariant holds of every state, whatever blocks are       *)
(* decided and wherever crashes, restarts and rollbacks fall between the   *)
(* calls.                                                                  *)
THEOREM Invariance == Spec => []IInv
<1>1. Init => IInv
  BY InitIInv
<1>2. IInv /\ [Next]_vars => IInv'
  BY NextIInv
<1> QED BY <1>1, <1>2, PTL DEF Spec

-----------------------------------------------------------------------------
(* A block's run is determined by the contents it starts from, so two      *)
(* executions of it leave and report the same.                             *)
LEMMA IInvReplaySame == ASSUME IInv PROVE ReplaySame
<1> USE DEF IInv
<1>1. phase # "app hash does not match"
  BY DEF Calls
<1>2. ASSUME Height \in DOMAIN first PROVE db = first[Height].contents
  <2>1. DOMAIN first = 1 .. Len(first) /\ Len(first) \in Nat
    BY SequenceDomain DEF Sequences
  <2>2. Height # 0 /\ Len(past) # 0
    BY <1>2, <2>1, Standing
  <2>3. db = Contents(first, Height)
    BY <2>2, Standing
  <2> QED BY <2>2, <2>3 DEF Contents
<1>3. ASSUME phase = "ended", Height + 1 \in DOMAIN first
      PROVE  response = first[Height + 1].response
  <2> DEFINE h == Height + 1
             b == blocks[h]
  <2>1. h \in 1 .. Len(first)
    BY <1>3, SequenceDomain DEF Sequences
  <2>2. db = Contents(first, Height) /\ Height \in Nat
    BY <1>3, Standing DEF Calls
  <2>3. PICK run : /\ done = Len(b)
                   /\ Run(db, b, done, run)
                   /\ response = reported(run[done])
    BY <1>3 DEF Progresses
  <2>4. PICK old : /\ Len(b) \in Nat
                   /\ Run(db, b, Len(b), old)
                   /\ first[h].response = reported(old[Len(b)])
    <3>1. Executed(Contents(first, h - 1), b, first[h])
      BY <2>1 DEF Recorded
    <3>2. h - 1 = Height
      BY <2>2
    <3> QED BY <2>2, <3>1, <3>2 DEF Executed
  <2>5. old[done] = run[done]
    BY <2>3, <2>4, RunIsUnique
  <2> QED BY <2>3, <2>4, <2>5
<1> QED BY <1>1, <1>2, <1>3 DEF ReplaySame

(* A decided block that is executed again, after a crash at any call, a    *)
(* restart or a rollback by command, leaves the contents it left the first *)
(* time, reports the same to consensus, and getAndVerifyAppState never     *)
(* meets an app hash that consensus does not have.                         *)
THEOREM ReplaysAreSame == Spec => []ReplaySame
<1>1. IInv => ReplaySame
  BY IInvReplaySame
<1> QED BY <1>1, Invariance, PTL

-----------------------------------------------------------------------------
(* What a call of a transaction hands over.                                *)
IsTx(tx) ==
  /\ tx.sender \in Acct
  /\ IsSequence(tx.messages) /\ tx.messages # << >> /\ Range(tx.messages) \subseteq Message

(* The kinds of keys are told apart by their first component.              *)
LEMMA Kinds ==
  /\ \A a : /\ Bal(a)[1] = "bal" /\ Keys(a)[1] = "keys" /\ Nonce(a)[1] = "nonce"
            /\ Lose(a)[1] = "lose"
  /\ Vals[1] = "vals" /\ Chains[1] = "chains" /\ Mines[1] = "mines" /\ World[1] = "world"
  /\ \A a, b : /\ Bal(a) = Bal(b) => a = b
               /\ Keys(a) = Keys(b) => a = b
               /\ Nonce(a) = Nonce(b) => a = b
BY DEF Bal, Keys, Nonce, Lose, Vals, Chains, Mines, World

(* A record of a running transaction.                                      *)
IsRunning(s) ==
  s = [f \in {"view", "keys", "ok", "fees", "field"} |-> s[f]]

(* The fields of what a fee makes of a running transaction.                *)
LEMMA ChargedFields ==
  ASSUME NEW s, IsRunning(s), NEW payer
  PROVE  LET c == Charged(s, payer)
         IN /\ IsRunning(c)
            /\ c.view = Plus(s.view, Bal(payer), -Fee)
            /\ c.keys = s.keys \cup {Bal(payer)}
            /\ c.ok = s.ok
            /\ c.fees = gatherFees(s.fees, payer, Fee)
BY DEF IsRunning, Charged

(* The fields of what a movement of money makes of it.                     *)
LEMMA MovesFields ==
  ASSUME NEW s, IsRunning(s), NEW giver, NEW taker
  PROVE  LET c == Moves(s, giver, taker)
         IN /\ IsRunning(c)
            /\ s.view[Bal(giver)] < Amount => c = [s EXCEPT !.ok = FALSE]
            /\ ~(s.view[Bal(giver)] < Amount) => 
              /\ c.view = Transfer(s.view, giver, taker, Amount)
              /\ c.keys = s.keys \cup {Bal(giver), Bal(taker)}
              /\ c.ok = s.ok
              /\ c.fees = s.fees
BY DEF IsRunning, Moves

(* The fields of what a governance method makes of it.                     *)
LEMMA CountsFields ==
  ASSUME NEW s, IsRunning(s), NEW k
  PROVE  LET c == Counts(s, k)
         IN /\ IsRunning(c)
            /\ c.view = Plus(s.view, k, 1)
            /\ c.keys = s.keys \cup {k}
            /\ c.ok = s.ok
            /\ c.fees = s.fees
BY DEF IsRunning, Counts

(* From s to t the keys W are written.                                     *)
Written(s, t, W) ==
  /\ IsRunning(t)
  /\ DOMAIN t.view = DOMAIN s.view
  /\ t.keys = s.keys \cup W
  /\ \A k \in DOMAIN s.view \ W : t.view[k] = s.view[k]

(* The keys written by one step and by the next.                           *)
LEMMA WrittenThen ==
  ASSUME NEW s, NEW t, NEW u, NEW V, NEW W, Written(s, t, V), Written(t, u, W)
  PROVE  Written(s, u, V \cup W)
BY DEF Written

(* A fee writes the balance of who pays.                                   *)
LEMMA ChargedWritten ==
  ASSUME NEW s, IsRunning(s), NEW payer
  PROVE  /\ Written(s, Charged(s, payer), {Bal(payer)})
         /\ Charged(s, payer).ok = s.ok
         /\ DOMAIN Charged(s, payer).fees = DOMAIN s.fees \cup {payer}
<1>1. DOMAIN gatherFees(s.fees, payer, Fee) = DOMAIN s.fees \cup {payer}
  BY DEF gatherFees
<1>2. /\ IsRunning(Charged(s, payer))
      /\ Charged(s, payer).view = Plus(s.view, Bal(payer), -Fee)
      /\ Charged(s, payer).keys = s.keys \cup {Bal(payer)}
      /\ Charged(s, payer).ok = s.ok
      /\ Charged(s, payer).fees = gatherFees(s.fees, payer, Fee)
  BY ChargedFields
<1>3. Written(s, Charged(s, payer), {Bal(payer)})
  BY <1>2 DEF Written, Plus
<1> QED BY <1>1, <1>2, <1>3

(* A movement of money writes the balances of both, or nothing.            *)
LEMMA MovesWritten ==
  ASSUME NEW s, IsRunning(s), NEW giver, NEW taker
  PROVE  LET t == Moves(s, giver, taker)
         IN /\ Written(s, t, {}) \/ Written(s, t, {Bal(giver), Bal(taker)})
            /\ t.ok => s.ok
            /\ t.fees = s.fees
<1> DEFINE t == Moves(s, giver, taker)
<1>1. CASE s.view[Bal(giver)] < Amount
  <2>1. t = [s EXCEPT !.ok = FALSE]
    BY <1>1 DEF Moves
  <2>2. IsRunning(t) /\ t.view = s.view /\ t.keys = s.keys /\ ~t.ok /\ t.fees = s.fees
    BY <2>1 DEF IsRunning
  <2> QED BY <2>2 DEF Written
<1>2. CASE ~(s.view[Bal(giver)] < Amount)
  <2>1. /\ IsRunning(t)
        /\ t.view = Transfer(s.view, giver, taker, Amount)
        /\ t.keys = s.keys \cup {Bal(giver), Bal(taker)}
        /\ t.ok = s.ok
        /\ t.fees = s.fees
    BY <1>2, MovesFields
  <2>2. /\ DOMAIN t.view = DOMAIN s.view
        /\ \A k \in DOMAIN s.view \ {Bal(giver), Bal(taker)} : t.view[k] = s.view[k]
    BY <2>1 DEF Transfer, Plus
  <2> QED BY <2>1, <2>2 DEF Written
<1> QED BY <1>1, <1>2

(* A governance method writes the counter it adds one to.                  *)
LEMMA CountsWritten ==
  ASSUME NEW s, IsRunning(s), NEW k \in DOMAIN s.view
  PROVE  LET t == Counts(s, k)
         IN /\ Written(s, t, {k})
            /\ t.view[k] = s.view[k] + 1
            /\ t.ok = s.ok
            /\ t.fees = s.fees
<1> DEFINE t == Counts(s, k)
<1>1. /\ IsRunning(t) /\ t.view = Plus(s.view, k, 1) /\ t.keys = s.keys \cup {k}
      /\ t.ok = s.ok /\ t.fees = s.fees
  BY CountsFields
<1> HIDE DEF t
<1>2. Written(s, t, {k}) /\ t.view[k] = s.view[k] + 1
  BY <1>1 DEF Written, Plus
<1> QED BY <1>1, <1>2 DEF t

(* What is listed of an account under v is so under x: its nonce, and its  *)
(* token as far as NamesToken tells.                                       *)
ListsKept(v, x) ==
  \A a : Keys(a) \in DOMAIN v =>
    /\ Keys(a) \in DOMAIN x
    /\ "nonce" \in v[Keys(a)] => "nonce" \in x[Keys(a)]
    /\ NamesToken(v[Keys(a)]) => NamesToken(x[Keys(a)])

(* Lists that are the same or longer keep what is listed.                  *)
LEMMA ListsSame ==
  ASSUME NEW v, NEW x,
         \A a : Keys(a) \in DOMAIN v => Keys(a) \in DOMAIN x /\ v[Keys(a)] \subseteq x[Keys(a)]
  PROVE  ListsKept(v, x)
BY DEF ListsKept, NamesToken

(* What is kept by one step and by the next is kept.                       *)
LEMMA ListsThen ==
  ASSUME NEW v, NEW w, NEW x, ListsKept(v, w), ListsKept(w, x)
  PROVE  ListsKept(v, x)
BY DEF ListsKept

(* What a message m of the account from makes of s: it goes on only if all *)
(* before it did, writes balances and what it is to count, and adds at     *)
(* most one address to those that pay.                                     *)
Counted(s, t, W, k, counts) ==
  /\ k \in W <=> counts
  /\ counts => t.view[k] = s.view[k] + 1

Messaged(s, t, from, m) ==
  /\ t.ok => s.ok
  /\ DOMAIN t.fees \subseteq DOMAIN s.fees \cup {from, Payee}
  /\ \E W \in SUBSET {Bal(from), Bal(Payee), Vals, Chains} :
       /\ Written(s, t, W)
       /\ t.ok => /\ Counted(s, t, W, Vals, m = "setPower")
                  /\ Counted(s, t, W, Chains, m = "sideChain")

(* A message that writes nothing is no governance method that succeeds.    *)
LEMMA NothingWritten ==
  ASSUME NEW s, NEW t, NEW from, NEW m,
         IsRunning(t), t.view = s.view, t.keys = s.keys, t.ok => s.ok,
         t.ok => m \notin {"setPower", "sideChain"},
         DOMAIN t.fees \subseteq DOMAIN s.fees \cup {from, Payee}
  PROVE  Messaged(s, t, from, m)
<1> DEFINE W == {}
<1>1. Written(s, t, W) /\ W \in SUBSET {Bal(from), Bal(Payee), Vals, Chains}
  BY DEF Written
<1>2. t.ok => Counted(s, t, W, Vals, m = "setPower") /\ Counted(s, t, W, Chains, m = "sideChain")
  BY DEF Counted
<1> QED BY <1>1, <1>2 DEF Messaged

(* What InvokerMgr.invoke makes of one message of a transaction.           *)
LEMMA InvokeWritten ==
  ASSUME NEW s, IsRunning(s), NEW tx, NEW i, tx.messages[i] \in Message,
         Vals \in DOMAIN s.view, Chains \in DOMAIN s.view
  PROVE  Messaged(s, invoke(s, tx, i), tx.sender, tx.messages[i])
<1> DEFINE t == invoke(s, tx, i)
           m == tx.messages[i]
           from == tx.sender
           payer == getPayer(tx, i)
           c == Charged(s, payer)
<1>0. \A x : Bal(x) # Vals /\ Bal(x) # Chains /\ Vals # Chains
  BY DEF Bal, Vals, Chains
<1>1. CASE ~s.ok
  <2>1. t = s
    BY <1>1 DEF invoke
  <2> HIDE DEF t, m, from
  <2>2. DOMAIN t.fees \subseteq DOMAIN s.fees \cup {from, Payee}
    BY <2>1
  <2> QED BY <1>1, <2>1, <2>2, NothingWritten DEF t, m, from
<1>2. CASE s.ok /\ m \in ofBVM
  <2>1. t = [s EXCEPT !.ok = FALSE]
    BY <1>2 DEF invoke
  <2>2. IsRunning(t) /\ t.view = s.view /\ t.keys = s.keys /\ ~t.ok /\ t.fees = s.fees
    BY <2>1 DEF IsRunning
  <2>3. DOMAIN t.fees \subseteq DOMAIN s.fees \cup {from, Payee}
    BY <2>2
  <2>4. m \notin {"setPower", "sideChain"}
    BY <1>2 DEF ofBVM
  <2> HIDE DEF t, m, from
  <2> QED BY <1>2, <2>2, <2>3, <2>4, NothingWritten DEF t, m, from
<1>3. CASE s.ok /\ m \notin ofBVM
  <2>1. t = sdkInvoke(s, from, payer, m)
    BY <1>3 DEF invoke
  <2>2. payer \in {from, Payee}
    BY DEF getPayer
  <2> HIDE DEF payer, m, t
  <2>3. CASE s.view[Bal(payer)] < Fee
    <3>1. t = [s EXCEPT !.ok = FALSE]
      BY <2>1, <2>3 DEF sdkInvoke
    <3>2. IsRunning(t) /\ t.view = s.view /\ t.keys = s.keys /\ ~t.ok /\ t.fees = s.fees
      BY <3>1 DEF IsRunning
    <3>3. DOMAIN t.fees \subseteq DOMAIN s.fees \cup {from, Payee}
      BY <3>2
    <3> HIDE DEF from
    <3> QED BY <1>3, <3>2, <3>3, NothingWritten DEF t, m
  <2>4. CASE ~(s.view[Bal(payer)] < Fee)
    <3>1. /\ Written(s, c, {Bal(payer)}) /\ IsRunning(c) /\ c.ok = s.ok
          /\ DOMAIN c.fees \subseteq DOMAIN s.fees \cup {from, Payee}
          /\ DOMAIN c.view = DOMAIN s.view
          /\ c.view[Vals] = s.view[Vals] /\ c.view[Chains] = s.view[Chains]
      BY <1>0, <2>2, ChargedWritten DEF Written
    <3> HIDE DEF c
    <3>2. CASE m \in {"pay", "claim", "grant"}
      <4>1. PICK g \in {from, Payee}, r \in {from, Payee} : t = Moves(c, g, r)
        BY <2>1, <2>4, <3>2 DEF sdkInvoke, c
      <4>2. /\ Written(c, t, {}) \/ Written(c, t, {Bal(g), Bal(r)})
            /\ t.ok => c.ok
            /\ t.fees = c.fees
        BY <3>1, <4>1, MovesWritten
      <4>3. PICK W \in SUBSET {Bal(from), Bal(Payee)} : Written(c, t, W)
        <5>1. CASE Written(c, t, {})
          BY <5>1
        <5>2. CASE Written(c, t, {Bal(g), Bal(r)})
          <6>1. {Bal(g), Bal(r)} \in SUBSET {Bal(from), Bal(Payee)}
            OBVIOUS
          <6> QED BY <5>2, <6>1
        <5> QED BY <4>2, <5>1, <5>2
      <4>4. Written(s, t, {Bal(payer)} \cup W)
        BY <3>1, <4>3, WrittenThen
      <4>5. {Bal(payer)} \cup W \in SUBSET {Bal(from), Bal(Payee)}
        BY <2>2
      <4>6. m # "setPower" /\ m # "sideChain"
        BY <3>2
      <4> QED BY <1>0, <1>3, <3>1, <4>2, <4>4, <4>5, <4>6 DEF Messaged, Counted, t, m
    <3>3. CASE m = "setPower"
      <4>1. t = Counts(c, Vals)
        BY <2>1, <2>4, <3>3 DEF sdkInvoke, c
      <4>2. /\ Written(c, t, {Vals}) /\ t.view[Vals] = c.view[Vals] + 1
            /\ t.ok = c.ok /\ t.fees = c.fees
        BY <3>1, <4>1, CountsWritten
      <4>3. Written(s, t, {Bal(payer)} \cup {Vals})
        BY <3>1, <4>2, WrittenThen
      <4>4. {Bal(payer)} \cup {Vals} \in SUBSET {Bal(from), Bal(Payee), Vals, Chains}
        BY <2>2
      <4> QED BY <1>0, <1>3, <3>1, <3>3, <4>2, <4>3, <4>4 DEF Messaged, Counted, t, m
    <3>4. CASE m = "sideChain"
      <4>1. t = Counts(c, Chains)
        BY <2>1, <2>4, <3>4 DEF sdkInvoke, c
      <4>2. /\ Written(c, t, {Chains}) /\ t.view[Chains] = c.view[Chains] + 1
            /\ t.ok = c.ok /\ t.fees = c.fees
        BY <3>1, <4>1, CountsWritten
      <4>3. Written(s, t, {Bal(payer)} \cup {Chains})
        BY <3>1, <4>2, WrittenThen
      <4>4. {Bal(payer)} \cup {Chains} \in SUBSET {Bal(from), Bal(Payee), Vals, Chains}
        BY <2>2
      <4> QED BY <1>0, <1>3, <3>1, <3>4, <4>2, <4>3, <4>4 DEF Messaged, Counted, t, m
    <3> QED BY <1>3, <3>2, <3>3, <3>4 DEF Message, ofBVM, m
  <2> QED BY <2>3, <2>4
<1> QED BY <1>1, <1>2, <1>3

-----------------------------------------------------------------------------
messageStep(tx, s, i) == invoke(s, tx, i)

Messages == INSTANCE DataLemmas WITH FoldStep <- messageStep

(* The messages to dockers as a fold.                                      *)
LEMMA DockerUnfolded ==
  ASSUME NEW v, NEW tx
  PROVE  docker(v, tx)
           = Messages!Folded(tx, Running(v), [i \in DOMAIN tx.messages |-> i], DOMAIN tx.messages)
BY DEF docker, FoldLeft, MapThenFoldSet, Max, Messages!Folded, Messages!IsFold,
       Messages!greatest, messageStep

(* What i messages that all succeeded make of a counter k.                 *)
Noted(v, s, k, occurs) ==
  /\ s.view[k] \in Nat
  /\ s.view[k] >= v[k]
  /\ k \in s.keys <=> occurs
  /\ occurs => s.view[k] > v[k]

(* What the first messages of a transaction of the account from, of which  *)
(* power and chain tell whether a setPower and a sideChain are among them, *)
(* make of what they saw.  A docker writes no list of keys; the BVM writes *)
(* those of the two accounts.                                              *)
Executing(v, s, from, power, chain) ==
  /\ IsRunning(s)
  /\ DOMAIN s.view = DOMAIN v
  /\ s.keys \subseteq {Bal(from), Bal(Payee), Keys(from), Keys(Payee), Vals, Chains}
  /\ ListsKept(v, s.view)
  /\ \A k \in DOMAIN v \ s.keys : s.view[k] = v[k]
  /\ DOMAIN s.fees \subseteq {from, Payee}
  /\ s.ok => Noted(v, s, Vals, power) /\ Noted(v, s, Chains, chain)

(* A counter after one message more.                                       *)
LEMMA CountedNoted ==
  ASSUME NEW v, NEW s, NEW t, NEW W, NEW k, NEW before \in BOOLEAN, NEW now \in BOOLEAN,
         v[k] \in Nat, k \in DOMAIN s.view, Written(s, t, W), Noted(v, s, k, before),
         Counted(s, t, W, k, now)
  PROVE  Noted(v, t, k, before \/ now)
<1>1. k \in t.keys <=> before \/ now
  BY DEF Written, Noted, Counted
<1>2. CASE now
  <2>1. t.view[k] = s.view[k] + 1 /\ s.view[k] \in Nat /\ s.view[k] >= v[k]
    BY <1>2 DEF Noted, Counted
  <2>2. t.view[k] \in Nat /\ t.view[k] > v[k] /\ t.view[k] >= v[k]
    BY <2>1
  <2> QED BY <1>1, <2>2 DEF Noted
<1>3. CASE ~now
  <2>1. t.view[k] = s.view[k]
    BY <1>3 DEF Written, Counted
  <2> QED BY <1>1, <1>3, <2>1 DEF Noted
<1> QED BY <1>2, <1>3

(* One message more of a transaction that goes on.                         *)
LEMMA MessagedExecuting ==
  ASSUME NEW v, NEW s, NEW t, NEW from, NEW m, NEW power \in BOOLEAN, NEW chain \in BOOLEAN,
         v[Vals] \in Nat, v[Chains] \in Nat, Vals \in DOMAIN v, Chains \in DOMAIN v,
         Executing(v, s, from, power, chain), Messaged(s, t, from, m)
  PROVE  Executing(v, t, from, power \/ m = "setPower", chain \/ m = "sideChain")
<1>1. PICK W \in SUBSET {Bal(from), Bal(Payee), Vals, Chains} :
        /\ Written(s, t, W)
        /\ t.ok => /\ Counted(s, t, W, Vals, m = "setPower")
                   /\ Counted(s, t, W, Chains, m = "sideChain")
  BY DEF Messaged
<1>2. /\ IsRunning(t) /\ DOMAIN t.view = DOMAIN v
      /\ t.keys \subseteq {Bal(from), Bal(Payee), Keys(from), Keys(Payee), Vals, Chains}
      /\ \A k \in DOMAIN v \ t.keys : t.view[k] = v[k]
  BY <1>1 DEF Executing, Written
<1>l. ListsKept(v, t.view)
  <2>1. \A a : Keys(a) \in DOMAIN s.view => Keys(a) \in DOMAIN t.view /\ t.view[Keys(a)] = s.view[Keys(a)]
    <3>1. \A a : Keys(a) \notin W
      BY Kinds
    <3> QED BY <1>1, <3>1 DEF Written
  <2>2. ListsKept(s.view, t.view)
    BY <2>1, ListsSame
  <2> QED BY <2>2, ListsThen DEF Executing
<1>3. DOMAIN t.fees \subseteq {from, Payee}
  BY DEF Messaged, Executing
<1>4. ASSUME t.ok
      PROVE  /\ Noted(v, t, Vals, power \/ m = "setPower")
             /\ Noted(v, t, Chains, chain \/ m = "sideChain")
  <2>1. s.ok /\ Noted(v, s, Vals, power) /\ Noted(v, s, Chains, chain)
    BY <1>4 DEF Messaged, Executing
  <2>2. PICK p : p = (m = "setPower")
    OBVIOUS
  <2>3. PICK q : q = (m = "sideChain")
    OBVIOUS
  <2>4. p \in BOOLEAN /\ q \in BOOLEAN
    BY <2>2, <2>3
  <2>5. Counted(s, t, W, Vals, p) /\ Counted(s, t, W, Chains, q)
    BY <1>1, <1>4, <2>2, <2>3
  <2>6. DOMAIN s.view = DOMAIN v
    BY DEF Executing
  <2>7. Noted(v, t, Vals, power \/ p)
    BY <1>1, <2>1, <2>4, <2>5, <2>6, CountedNoted
  <2>8. Noted(v, t, Chains, chain \/ q)
    BY <1>1, <2>1, <2>4, <2>5, <2>6, CountedNoted
  <2> QED BY <2>2, <2>3, <2>7, <2>8
<1> QED BY <1>2, <1>l, <1>3, <1>4 DEF Executing

(* What the messages of a transaction make of what it sees.                *)
Occurs(tx, m) == m \in Range(tx.messages)

(* What InvokerMgr.InvokeTx makes of all messages of a transaction, by     *)
(* induction over them.                                                    *)
LEMMA DockerEffect ==
  ASSUME NEW v, NEW tx, IsSequence(tx.messages), Range(tx.messages) \subseteq Message,
         v[Vals] \in Nat, v[Chains] \in Nat, Vals \in DOMAIN v, Chains \in DOMAIN v
  PROVE  Executing(v, docker(v, tx), tx.sender, Occurs(tx, "setPower"), Occurs(tx, "sideChain"))
<1> DEFINE n == Len(tx.messages)
           from == tx.sender
           upTo(i, m) == \E j \in 1 .. i : tx.messages[j] = m
<1>1. n \in Nat /\ DOMAIN tx.messages = 1 .. n
  BY SequenceDomain
<1>2. PICK b : b = Running(v)
  OBVIOUS
<1>3. PICK ids : ids = [i \in 1 .. n |-> i]
  OBVIOUS
<1>r. PICK r : Messages!Folded(tx, b, ids, 1 .. n) = r[n] /\ Messages!Stepwise(tx, b, ids, n, r)
  <2> HIDE DEF n
  <2> QED BY <1>1, Messages!FoldStepwise
<1>4. /\ Messages!Folded(tx, b, ids, 1 .. n) = r[n]
      /\ r[0] = b
      /\ \A i \in 1 .. n : r[i] = messageStep(tx, r[i - 1], ids[i])
  BY <1>r DEF Messages!Stepwise
<1>5. docker(v, tx) = r[n]
  BY <1>1, <1>2, <1>3, <1>4, DockerUnfolded
<1> DEFINE Inv(i) == Executing(v, r[i], from, upTo(i, "setPower"), upTo(i, "sideChain"))
           N == {i \in Nat : i <= n => Inv(i)}
<1>6. Inv(0)
  <2>1. /\ IsRunning(b) /\ b.view = v /\ b.keys = {} /\ b.fees = << >>
    BY <1>2 DEF Running, IsRunning, Empty
  <2>2. DOMAIN b.fees = {}
    BY <2>1, EmptySequence
  <2>3. ~upTo(0, "setPower") /\ ~upTo(0, "sideChain")
    OBVIOUS
  <2>4. Noted(v, b, Vals, FALSE) /\ Noted(v, b, Chains, FALSE)
    BY <2>1 DEF Noted
  <2>5. Executing(v, b, from, FALSE, FALSE)
    BY <2>1, <2>2, <2>4, ListsSame DEF Executing
  <2> QED BY <1>4, <2>3, <2>5
<1> HIDE DEF Inv
<1>7. 0 \in N
  BY <1>6
<1>8. ASSUME NEW i \in Nat, i \in N PROVE i + 1 \in N
  <2>1. SUFFICES ASSUME i + 1 <= n PROVE Inv(i + 1)
    OBVIOUS
  <2>2. i + 1 \in 1 .. n /\ (i + 1) - 1 = i /\ i <= n
    BY <1>1, <2>1
  <2>3. Inv(i)
    BY <1>8, <2>2
  <2>4. PICK m : m = tx.messages[i + 1]
    OBVIOUS
  <2>5. m \in Message
    BY <1>1, <2>2, <2>4 DEF Range
  <2>6. PICK s : s = r[i]
    OBVIOUS
  <2>7. PICK t : t = r[i + 1]
    OBVIOUS
  <2>8. t = invoke(s, tx, i + 1)
    BY <1>3, <1>4, <2>2, <2>6, <2>7 DEF messageStep
  <2>9. PICK p : p = upTo(i, "setPower")
    OBVIOUS
  <2>10. PICK q : q = upTo(i, "sideChain")
    OBVIOUS
  <2>11. p \in BOOLEAN /\ q \in BOOLEAN
    BY <2>9, <2>10
  <2>12. Executing(v, s, from, p, q)
    BY <2>3, <2>6, <2>9, <2>10 DEF Inv
  <2>13. IsRunning(s) /\ Vals \in DOMAIN s.view /\ Chains \in DOMAIN s.view
    BY <2>12 DEF Executing
  <2>14. Messaged(s, t, from, m)
    BY <2>4, <2>5, <2>8, <2>13, InvokeWritten
  <2> HIDE DEF from
  <2>15. Executing(v, t, from, p \/ m = "setPower", q \/ m = "sideChain")
    BY <2>11, <2>12, <2>14, MessagedExecuting
  <2>16. ASSUME NEW x PROVE upTo(i + 1, x) <=> upTo(i, x) \/ m = x
    <3>1. \A j \in 1 .. i + 1 : j \in 1 .. i \/ j = i + 1
      BY <1>8
    <3>2. \A j \in 1 .. i : j \in 1 .. i + 1
      BY <1>8
    <3>3. i + 1 \in 1 .. i + 1
      BY <1>8
    <3> QED BY <2>4, <3>1, <3>2, <3>3
  <2>17. /\ upTo(i + 1, "setPower") = (p \/ m = "setPower")
         /\ upTo(i + 1, "sideChain") = (q \/ m = "sideChain")
    BY <2>9, <2>10, <2>16
  <2> HIDE DEF upTo
  <2> QED BY <2>7, <2>15, <2>17 DEF Inv, from
<1>9. n \in N
  <2> HIDE DEF N
  <2> QED BY <1>1, <1>7, <1>8, NumberInduction
<1>10. Inv(n)
  BY <1>1, <1>9
<1>11. ASSUME NEW x PROVE upTo(n, x) = Occurs(tx, x)
  <2>1. upTo(n, x) <=> Occurs(tx, x)
    BY <1>1 DEF Occurs, Range
  <2>2. Occurs(tx, x) \in BOOLEAN
    BY DEF Occurs
  <2> QED BY <2>1, <2>2
<1> HIDE DEF upTo, n
<1> QED BY <1>5, <1>10, <1>11 DEF Inv

(* What UpdateAccount makes of a running transaction: the new list names   *)
(* the nonce and a token.                                                  *)
LEMMA AccountUpdated ==
  ASSUME NEW s, IsRunning(s), NEW a, NEW token \in {"token", "other"}
  PROVE  LET t == UpdateAccount(s, a, token)
         IN /\ Written(s, t, {Keys(a)})
            /\ t.ok = s.ok /\ t.fees = s.fees
            /\ ListsKept(s.view, t.view)
<1>1. PICK t : t = UpdateAccount(s, a, token)
  OBVIOUS
<1>2. PICK x : x = [s.view EXCEPT ![Keys(a)] = {"nonce", token}]
  OBVIOUS
<1>3. IsRunning(t) /\ t.view = x /\ t.keys = s.keys \cup {Keys(a)} /\ t.ok = s.ok /\ t.fees = s.fees
  BY <1>1, <1>2 DEF UpdateAccount, IsRunning
<1>4. DOMAIN x = DOMAIN s.view /\ \A k \in DOMAIN s.view \ {Keys(a)} : x[k] = s.view[k]
  BY <1>2
<1>5. ListsKept(s.view, x)
  <2>1. Keys(a) \in DOMAIN s.view => x[Keys(a)] = {"nonce", token}
    BY <1>2
  <2>2. "nonce" \in {"nonce", token} /\ NamesToken({"nonce", token})
    BY DEF NamesToken
  <2> QED BY <1>4, <2>1, <2>2 DEF ListsKept
<1> QED BY <1>1, <1>3, <1>4, <1>5 DEF Written

(* What Sync writes: the lists of both accounts, or nothing.               *)
LEMMA Synced ==
  ASSUME NEW s, IsRunning(s), NEW tx
  PROVE  LET t == Sync(s, tx)
         IN /\ \E W \in SUBSET {Keys(tx.sender), Keys(Payee)} : Written(s, t, W)
            /\ t.ok = s.ok /\ t.fees = s.fees
            /\ ListsKept(s.view, t.view)
<1>1. PICK token \in {"token", "other"} : token = IF Last(tx.messages) = "bvmPay" THEN "other" ELSE "token"
  OBVIOUS
<1>2. PICK from : from = tx.sender
  OBVIOUS
<1>3. PICK t : t = Sync(s, tx)
  OBVIOUS
<1>4. CASE tx.messages = <<"bvm">>
  <2>1. t = s
    BY <1>3, <1>4 DEF Sync
  <2>2. Written(s, t, {}) /\ {} \in SUBSET {Keys(from), Keys(Payee)}
    BY <2>1 DEF Written
  <2>3. ListsKept(s.view, t.view)
    BY <2>1, ListsSame
  <2> QED BY <1>2, <1>3, <2>1, <2>2, <2>3
<1>5. CASE tx.messages # <<"bvm">>
  <2>1. PICK u : u = UpdateAccount(s, from, token)
    OBVIOUS
  <2>2. t = UpdateAccount(u, Payee, token)
    BY <1>1, <1>2, <1>3, <1>5, <2>1 DEF Sync
  <2>3. /\ Written(s, u, {Keys(from)}) /\ u.ok = s.ok /\ u.fees = s.fees
        /\ ListsKept(s.view, u.view)
    BY <2>1, AccountUpdated
  <2>4. /\ Written(u, t, {Keys(Payee)}) /\ t.ok = u.ok /\ t.fees = u.fees
        /\ ListsKept(u.view, t.view)
    <3>1. IsRunning(u)
      BY <2>3 DEF Written
    <3> QED BY <2>2, <3>1, AccountUpdated
  <2>5. Written(s, t, {Keys(from)} \cup {Keys(Payee)})
    BY <2>3, <2>4, WrittenThen
  <2>6. {Keys(from)} \cup {Keys(Payee)} \in SUBSET {Keys(from), Keys(Payee)}
    OBVIOUS
  <2>7. ListsKept(s.view, t.view)
    BY <2>3, <2>4, ListsThen
  <2> QED BY <1>2, <1>3, <2>3, <2>4, <2>5, <2>6, <2>7
<1> QED BY <1>4, <1>5

(* A transaction for the BVM.  One that succeeds changes nothing that is   *)
(* reported: its messages are a call and perhaps a transfer.               *)
LEMMA BurrowEffect ==
  ASSUME NEW v, NEW tx, IsSequence(tx.messages), tx.messages # << >>, isBVM(tx),
         v[Vals] \in Nat, v[Chains] \in Nat, Vals \in DOMAIN v, Chains \in DOMAIN v
  PROVE  Executing(v, burrow(v, tx), tx.sender, Occurs(tx, "setPower"), Occurs(tx, "sideChain"))
<1>1. PICK from : from = tx.sender
  OBVIOUS
<1>2. PICK ms : ms = tx.messages
  OBVIOUS
<1>3. PICK b : b = Running(v)
  OBVIOUS
<1>4. /\ IsRunning(b) /\ b.view = v /\ b.keys = {} /\ b.ok = TRUE
      /\ b.fees = << >> /\ DOMAIN b.fees = {}
  <2>1. /\ IsRunning(b) /\ b.view = v /\ b.keys = {} /\ b.ok = TRUE /\ b.fees = << >>
    BY <1>3 DEF Running, IsRunning, Empty
  <2> QED BY <2>1, EmptySequence
<1>5. PICK c : c = IF Head(ms) = "pay" THEN Moves(b, from, Payee) ELSE b
  OBVIOUS
<1>6. PICK called : called = (c.ok /\ Last(ms) # "revert")
  OBVIOUS
<1>7. PICK after : after = IF called THEN Sync(c, tx) ELSE c
  OBVIOUS
<1>8. PICK t : t = burrow(v, tx)
  OBVIOUS
<1>9. t = IF isCall(ms)
          THEN [after EXCEPT !.ok = called /\ after.view[Bal(from)] >= Fee,
                             !.fees = gatherFees(@, from, IF called THEN Fee ELSE 0)]
          ELSE [b EXCEPT !.ok = FALSE]
  BY <1>1, <1>2, <1>3, <1>5, <1>6, <1>7, <1>8 DEF burrow
<1>10. \A x : Bal(x) # Vals /\ Bal(x) # Chains /\ Keys(x) # Vals /\ Keys(x) # Chains
  BY Kinds
<1>11. ASSUME NEW W \in SUBSET {Bal(from), Bal(Payee), Keys(from), Keys(Payee)}, Written(b, t, W),
              ListsKept(b.view, t.view), DOMAIN t.fees \subseteq {from, Payee},
              t.ok => ~Occurs(tx, "setPower") /\ ~Occurs(tx, "sideChain")
       PROVE  Executing(v, t, from, Occurs(tx, "setPower"), Occurs(tx, "sideChain"))
  <2>1. /\ IsRunning(t) /\ DOMAIN t.view = DOMAIN v
        /\ t.keys = W /\ Vals \notin W /\ Chains \notin W
        /\ \A k \in DOMAIN v \ W : t.view[k] = v[k]
        /\ ListsKept(v, t.view)
    BY <1>4, <1>10, <1>11 DEF Written
  <2>2. t.keys \subseteq {Bal(from), Bal(Payee), Keys(from), Keys(Payee), Vals, Chains}
    BY <1>11, <2>1
  <2>3. t.ok => /\ Noted(v, t, Vals, Occurs(tx, "setPower"))
                /\ Noted(v, t, Chains, Occurs(tx, "sideChain"))
    BY <1>11, <2>1 DEF Noted
  <2> QED BY <1>11, <2>1, <2>2, <2>3 DEF Executing
<1>12. CASE isCall(ms)
  <2>1. PICK V \in SUBSET {Bal(from), Bal(Payee)} : Written(b, c, V) /\ c.fees = b.fees
    <3>1. CASE Head(ms) = "pay"
      <4>1. /\ Written(b, c, {}) \/ Written(b, c, {Bal(from), Bal(Payee)})
            /\ c.fees = b.fees
        BY <1>4, <1>5, <3>1, MovesWritten
      <4>2. {} \in SUBSET {Bal(from), Bal(Payee)}
            /\ {Bal(from), Bal(Payee)} \in SUBSET {Bal(from), Bal(Payee)}
        OBVIOUS
      <4> QED BY <4>1, <4>2
    <3>2. CASE Head(ms) # "pay"
      <4>1. c = b
        BY <1>5, <3>2
      <4>2. Written(b, c, {}) /\ {} \in SUBSET {Bal(from), Bal(Payee)}
        BY <1>4, <4>1 DEF Written
      <4> QED BY <4>1, <4>2
    <3> QED BY <3>1, <3>2
  <2>2. ListsKept(b.view, c.view)
    <3>1. \A a : Keys(a) \notin V
      BY Kinds
    <3> QED BY <2>1, <3>1, ListsSame DEF Written
  <2>3. PICK U \in SUBSET {Keys(from), Keys(Payee)} :
          Written(c, after, U) /\ after.fees = c.fees /\ ListsKept(c.view, after.view)
    <3>1. CASE called
      <4>1. after = Sync(c, tx) /\ IsRunning(c)
        BY <1>7, <2>1, <3>1 DEF Written
      <4> QED BY <1>1, <4>1, Synced
    <3>2. CASE ~called
      <4>1. after = c
        BY <1>7, <3>2
      <4>2. Written(c, after, {}) /\ {} \in SUBSET {Keys(from), Keys(Payee)}
        BY <2>1, <4>1 DEF Written
      <4>3. ListsKept(c.view, after.view)
        BY <4>1, ListsSame
      <4> QED BY <4>1, <4>2, <4>3
    <3> QED BY <3>1, <3>2
  <2>4. /\ IsRunning(t) /\ t.view = after.view /\ t.keys = after.keys
        /\ t.ok => called
        /\ t.fees = gatherFees(after.fees, from, IF called THEN Fee ELSE 0)
    BY <1>9, <1>12, <2>3 DEF Written, IsRunning
  <2>5. Written(b, t, V \cup U)
    <3>1. Written(b, after, V \cup U)
      BY <2>1, <2>3, WrittenThen
    <3> QED BY <2>4, <3>1 DEF Written
  <2>6. V \cup U \in SUBSET {Bal(from), Bal(Payee), Keys(from), Keys(Payee)}
    OBVIOUS
  <2>7. ListsKept(b.view, t.view)
    BY <2>2, <2>3, <2>4, ListsThen
  <2>8. DOMAIN t.fees \subseteq {from, Payee}
    BY <1>4, <2>1, <2>3, <2>4 DEF gatherFees
  <2>9. ASSUME called, NEW x \in {"setPower", "sideChain"} PROVE ~Occurs(tx, x)
    <3>1. PICK n : n = Len(ms)
      OBVIOUS
    <3>2. ms[n] \in ofBVM /\ DOMAIN ms = 1 .. n
      BY <1>2, <3>1, SequenceFront, SequenceDomain DEF isBVM
    <3>3. Head(ms) = ms[1]
      BY <1>2, SequenceHead
    <3>4. n = 1 \/ (n = 2 /\ ms[1] = "pay")
      BY <1>12, <3>1, <3>3 DEF isCall
    <3>5. ASSUME NEW i \in DOMAIN ms PROVE ms[i] \in {"pay"} \cup ofBVM
      <4>1. i = n \/ (n = 2 /\ i = 1)
        BY <3>2, <3>4
      <4> QED BY <3>2, <3>4, <4>1
    <3>6. x \notin {"pay"} \cup ofBVM
      BY <2>9 DEF ofBVM
    <3> QED BY <1>2, <3>5, <3>6 DEF Occurs, Range
  <2> QED BY <1>1, <1>8, <1>11, <2>4, <2>5, <2>6, <2>7, <2>8, <2>9
<1>13. CASE ~isCall(ms)
  <2>1. /\ IsRunning(t) /\ t.view = b.view /\ t.keys = b.keys /\ ~t.ok /\ t.fees = b.fees
    BY <1>4, <1>9, <1>13 DEF IsRunning
  <2>2. Written(b, t, {}) /\ {} \in SUBSET {Bal(from), Bal(Payee), Keys(from), Keys(Payee)}
    BY <2>1 DEF Written
  <2>3. ListsKept(b.view, t.view)
    BY <2>1, ListsSame
  <2>4. DOMAIN t.fees \subseteq {from, Payee}
    BY <1>4, <2>1
  <2> QED BY <1>1, <1>8, <1>11, <2>1, <2>2, <2>3, <2>4
<1> QED BY <1>12, <1>13

(* What Adapter.InvokeTx makes of a transaction, wherever it goes.         *)
LEMMA InvokeEffect ==
  ASSUME NEW v, NEW tx, IsTx(tx),
         v[Vals] \in Nat, v[Chains] \in Nat, Vals \in DOMAIN v, Chains \in DOMAIN v
  PROVE  Executing(v, InvokeTx(v, tx), tx.sender, Occurs(tx, "setPower"),
                   Occurs(tx, "sideChain"))
<1>1. CASE isBVM(tx)
  BY <1>1, BurrowEffect DEF IsTx, InvokeTx
<1>2. CASE ~isBVM(tx)
  BY <1>2, DockerEffect DEF IsTx, InvokeTx
<1> QED BY <1>1, <1>2

-----------------------------------------------------------------------------
(* Fee receipts.                                                           *)
giveStep(k, w, r) ==
  LET a == rewardAddr(r)
      x == Plus(w, Bal(a), award(k[1], r))
  IN IF a \in k[2] THEN AddAccountToken(x, a) ELSE x

Gifts == INSTANCE DataLemmas WITH FoldStep <- giveStep

Takers == {rewardAddr(r) : r \in Range(Strategy)}

(* distributeFee as a fold over the rewarded.                              *)
LEMMA DistributeUnfolded ==
  ASSUME NEW v, NEW from, NEW n, NEW isDlvOK, NEW bvm
  PROVE  LET payers   == IF payFromSender(isDlvOK, bvm) THEN {from} ELSE {}
             lists    == enlisted(v, Takers)
             unlisted == {a \in lists : "token" \notin v[Keys(a)]}
             start    == IF from \in payers THEN Plus(v, Bal(from), -n) ELSE v
         IN distributeFee(v, from, n, isDlvOK, bvm)
              = Writes({Bal(a) : a \in payers \cup Takers} \cup {Keys(a) : a \in unlisted},
                       Gifts!Folded(<<n, lists>>, start, Strategy, DOMAIN Strategy))
BY DEF distributeFee, Takers, FoldLeft, MapThenFoldSet, Max, Gifts!Folded, Gifts!IsFold,
       Gifts!greatest, giveStep

(* No list of an account's keys shrinks from v to x.                       *)
ListsGrow(v, x) ==
  \A a : Keys(a) \in DOMAIN v => Keys(a) \in DOMAIN x /\ v[Keys(a)] \subseteq x[Keys(a)]

(* The rewarded are accounts.                                              *)
LEMMA TakersAreAccounts ==
  /\ IsSequence(Strategy)
  /\ Takers \subseteq Addr
  /\ \A i \in 1 .. Len(Strategy) : rewardAddr(Strategy[i]) \in Takers
  /\ \A a \in Takers : \E i \in 1 .. Len(Strategy) : a = rewardAddr(Strategy[i])
<1> DEFINE S == [address : Addr \cup {NoAddr}, percent : Nat]
<1>1. IsSequence(Strategy) /\ \A i \in 1 .. Len(Strategy) : Strategy[i] \in S
  <2>1. PICK s \in Seq(S) : s = Strategy
    BY StrategyAssumption
  <2> HIDE DEF S
  <2>2. IsSequence(s) /\ \A i \in 1 .. Len(s) : s[i] \in S
    BY SequenceOver
  <2> QED BY <2>1, <2>2
<1>2. DOMAIN Strategy = 1 .. Len(Strategy)
  BY <1>1, SequenceDomain
<1>3. \A r \in S : rewardAddr(r) \in Addr
  BY DEF rewardAddr, Addr
<1> HIDE DEF S
<1> QED BY <1>1, <1>2, <1>3 DEF Takers, Range

(* A gift is entered in the list of its taker, if lists has it.            *)
LEMMA GiftListed ==
  ASSUME NEW n, NEW lists, NEW w, NEW r, Keys(rewardAddr(r)) \in DOMAIN w
  PROVE  LET x == giveStep(<<n, lists>>, w, r)
         IN /\ DOMAIN x = DOMAIN w
            /\ ListsGrow(w, x)
            /\ rewardAddr(r) \in lists => "token" \in x[Keys(rewardAddr(r))]
<1> DEFINE a == rewardAddr(r)
           y == Plus(w, Bal(a), award(n, r))
           z == AddAccountToken(y, a)
           x == IF a \in lists THEN z ELSE y
<1>1. DOMAIN y = DOMAIN w /\ \A b : Keys(b) \in DOMAIN w => y[Keys(b)] = w[Keys(b)]
  BY DEF Plus, Keys, Bal
<1>2. giveStep(<<n, lists>>, w, r) = x
  BY DEF giveStep
<1> HIDE DEF y
<1>3. /\ DOMAIN z = DOMAIN w
      /\ z[Keys(a)] = y[Keys(a)] \cup {"token"}
      /\ \A b : Keys(b) \in DOMAIN w /\ Keys(b) # Keys(a) => z[Keys(b)] = y[Keys(b)]
  BY <1>1 DEF AddAccountToken
<1> HIDE DEF z, a
<1>4. CASE a \in lists
  BY <1>1, <1>2, <1>3, <1>4 DEF ListsGrow, a
<1>5. CASE a \notin lists
  BY <1>1, <1>2, <1>5 DEF ListsGrow, a
<1> QED BY <1>4, <1>5

(* What distributeFee writes: balances of who pays and of the rewarded,    *)
(* and, since the fork took effect, the lists of those rewarded for the    *)
(* first time.                                                             *)
LEMMA DistributeEffect ==
  ASSUME NEW v, \A a \in Addr : Keys(a) \in DOMAIN v, NEW from, NEW m, NEW isDlvOK, NEW bvm
  PROVE  LET w == distributeFee(v, from, m, isDlvOK, bvm)
         IN /\ DOMAIN w \subseteq {Bal(a) : a \in Takers \cup {from}} \cup {Keys(a) : a \in Takers}
            /\ ListsKept(v, Lay(w, v))
            /\ ~V2_0_1_13780(blockHeight(v)) =>
                 \A a \in Takers : "token" \in Lay(w, v)[Keys(a)]
<1> DEFINE payers   == IF payFromSender(isDlvOK, bvm) THEN {from} ELSE {}
           lists    == enlisted(v, Takers)
           unlisted == {a \in lists : "token" \notin v[Keys(a)]}
           K == {Bal(a) : a \in payers \cup Takers} \cup {Keys(a) : a \in unlisted}
           w == distributeFee(v, from, m, isDlvOK, bvm)
           n == Len(Strategy)
<1>1. PICK b : b = IF from \in payers THEN Plus(v, Bal(from), -m) ELSE v
  OBVIOUS
<1>2. n \in Nat /\ DOMAIN Strategy = 1 .. n
  BY TakersAreAccounts, SequenceDomain
<1>k. PICK k : k = <<m, lists>>
  OBVIOUS
<1>l. lists = {} \/ lists = Takers
  BY DEF enlisted
<1>r. PICK r : Gifts!Folded(k, b, Strategy, 1 .. n) = r[n] /\ Gifts!Stepwise(k, b, Strategy, n, r)
  <2> HIDE DEF n
  <2>1. PICK s : s = Strategy
    OBVIOUS
  <2>2. \E x : Gifts!Folded(k, b, s, 1 .. n) = x[n] /\ Gifts!Stepwise(k, b, s, n, x)
    BY <1>2, Gifts!FoldStepwise
  <2> QED BY <2>1, <2>2
<1>3. /\ Gifts!Folded(k, b, Strategy, 1 .. n) = r[n]
      /\ r[0] = b
      /\ \A i \in 1 .. n : r[i] = giveStep(k, r[i - 1], Strategy[i])
  BY <1>r DEF Gifts!Stepwise
<1>4. w = Writes(K, r[n])
  BY <1>1, <1>2, <1>k, <1>3, DistributeUnfolded
<1> HIDE DEF w, lists
<1> DEFINE Listed(x, j) == rewardAddr(Strategy[j]) \in lists => "token" \in x[Keys(rewardAddr(Strategy[j]))]
           Inv(i) == /\ DOMAIN r[i] = DOMAIN v
                     /\ ListsGrow(v, r[i])
                     /\ \A j \in 1 .. i : Listed(r[i], j)
           N == {i \in Nat : i <= n => Inv(i)}
<1>5. Inv(0)
  <2>1. DOMAIN b = DOMAIN v /\ \A a : Keys(a) \in DOMAIN v => b[Keys(a)] = v[Keys(a)]
    BY <1>1 DEF Plus, Keys, Bal
  <2> QED BY <1>3, <2>1 DEF ListsGrow
<1> HIDE DEF Inv
<1>6. 0 \in N
  BY <1>5
<1>7. ASSUME NEW i \in Nat, i \in N PROVE i + 1 \in N
  <2>1. SUFFICES ASSUME i + 1 <= n PROVE Inv(i + 1)
    OBVIOUS
  <2>2. i + 1 \in 1 .. n /\ (i + 1) - 1 = i /\ i <= n
    BY <1>2, <2>1
  <2>3. Inv(i)
    BY <1>7, <2>2
  <2>4. PICK x : x = r[i]
    OBVIOUS
  <2>5. PICK y : y = r[i + 1]
    OBVIOUS
  <2>6. PICK s : s = Strategy[i + 1]
    OBVIOUS
  <2>7. y = giveStep(<<m, lists>>, x, s)
    BY <1>k, <1>3, <2>2, <2>4, <2>5, <2>6
  <2>8. Keys(rewardAddr(s)) \in DOMAIN x /\ DOMAIN x = DOMAIN v /\ ListsGrow(v, x)
        /\ \A j \in 1 .. i : Listed(x, j)
    BY <2>2, <2>3, <2>4, <2>6, TakersAreAccounts DEF Inv
  <2>9. /\ DOMAIN y = DOMAIN x /\ ListsGrow(x, y)
        /\ rewardAddr(s) \in lists => "token" \in y[Keys(rewardAddr(s))]
    BY <2>7, <2>8, GiftListed
  <2>10. ListsGrow(v, y)
    BY <2>8, <2>9 DEF ListsGrow
  <2>11. ASSUME NEW j \in 1 .. i + 1 PROVE Listed(y, j)
    <3>1. CASE j = i + 1
      BY <2>6, <2>9, <3>1
    <3>2. CASE j # i + 1
      <4>1. j \in 1 .. i /\ j \in 1 .. n
        BY <1>2, <1>7, <2>2, <3>2
      <4>2. Keys(rewardAddr(Strategy[j])) \in DOMAIN x
        BY <2>8, <4>1, TakersAreAccounts
      <4> QED BY <2>8, <2>9, <4>1, <4>2 DEF ListsGrow
    <3> QED BY <3>1, <3>2
  <2> QED BY <2>5, <2>8, <2>9, <2>10, <2>11 DEF Inv
<1>8. Inv(n)
  <2>1. n \in N
    <3> HIDE DEF N
    <3> QED BY <1>2, <1>6, <1>7, NumberInduction
  <2> QED BY <1>2, <2>1
<1>9. DOMAIN w \subseteq {Bal(a) : a \in Takers \cup {from}} \cup {Keys(a) : a \in Takers}
  BY <1>l, <1>4 DEF Writes
<1>10. ASSUME ~V2_0_1_13780(blockHeight(v))
       PROVE  \A a \in Takers : "token" \in Lay(w, v)[Keys(a)]
  <2>0. lists = Takers
    BY <1>10 DEF enlisted, lists
  <2>1. SUFFICES ASSUME NEW a \in Takers PROVE "token" \in Lay(w, v)[Keys(a)]
    OBVIOUS
  <2>2. Keys(a) \in DOMAIN v
    BY TakersAreAccounts
  <2>3. "token" \in r[n][Keys(a)]
    BY <1>8, <2>0, TakersAreAccounts DEF Inv
  <2>4. CASE Keys(a) \in K
    BY <1>4, <2>2, <2>3, <2>4 DEF Lay, Writes
  <2>5. CASE Keys(a) \notin K
    <3>1. "token" \in v[Keys(a)]
      BY <2>0, <2>5
    <3> HIDE DEF K
    <3> QED BY <1>4, <2>2, <2>5, <3>1 DEF Lay, Writes
  <2> QED BY <2>4, <2>5
<1>11. ListsKept(v, Lay(w, v))
  <2>1. SUFFICES ASSUME NEW a, Keys(a) \in DOMAIN v
                 PROVE  /\ Keys(a) \in DOMAIN Lay(w, v)
                        /\ v[Keys(a)] \subseteq Lay(w, v)[Keys(a)]
    BY ListsSame
  <2>2. v[Keys(a)] \subseteq r[n][Keys(a)]
    BY <1>8, <2>1 DEF Inv, ListsGrow
  <2> HIDE DEF K
  <2> QED BY <1>4, <2>1, <2>2 DEF Lay, Writes
<1> QED BY <1>9, <1>10, <1>11 DEF w

(* Buffers are laid one over the other.                                    *)
LEMMA LayLay ==
  ASSUME NEW x, NEW w, NEW v
  PROVE  Lay(Lay(x, w), v) = Lay(x, Lay(w, v))
<1>1. DOMAIN Lay(Lay(x, w), v) = DOMAIN Lay(x, Lay(w, v))
  BY DEF Lay
<1>2. ASSUME NEW k \in DOMAIN v \cup DOMAIN w \cup DOMAIN x
      PROVE  Lay(Lay(x, w), v)[k] = Lay(x, Lay(w, v))[k]
  BY DEF Lay
<1> QED BY <1>1, <1>2 DEF Lay

feeStep(k, w, a) == Lay(distributeFee(Lay(w, k[1]), a, k[2][a], k[3], k[4]), w)

FeeReceipts == INSTANCE DataLemmas WITH FoldStep <- feeStep

(* emitFeeReceipts as a fold over the payers.                              *)
LEMMA EmitUnfolded ==
  ASSUME NEW v, NEW fees, NEW isDlvOK, NEW bvm
  PROVE  emitFeeReceipts(v, fees, isDlvOK, bvm)
           = FeeReceipts!Folded(<<v, fees, isDlvOK, bvm>>, Empty, SetToSeq(DOMAIN fees),
                                DOMAIN SetToSeq(DOMAIN fees))
BY DEF emitFeeReceipts, FoldLeft, MapThenFoldSet, Max, FeeReceipts!Folded,
       FeeReceipts!IsFold, FeeReceipts!greatest, feeStep

(* What the fees paid by some accounts may write over v.                   *)
FeesPaid(v, w, payers) ==
  /\ DOMAIN w \subseteq {Bal(a) : a \in Takers \cup payers} \cup {Keys(a) : a \in Takers}
  /\ ListsKept(v, Lay(w, v))
  /\ DOMAIN w # {} /\ ~V2_0_1_13780(blockHeight(v)) =>
       \A a \in Takers : "token" \in Lay(w, v)[Keys(a)]

(* One payer more is charged and the rewarded are paid once more.          *)
LEMMA FeeStepPaid ==
  ASSUME NEW v, \A a \in Addr : Keys(a) \in DOMAIN v, World \in DOMAIN v,
         NEW w, NEW payers, FeesPaid(v, w, payers),
         NEW a \in payers, NEW m, NEW isDlvOK, NEW bvm
  PROVE  FeesPaid(v, Lay(distributeFee(Lay(w, v), a, m, isDlvOK, bvm), w), payers)
<1> DEFINE x == Lay(w, v)
           g == distributeFee(x, a, m, isDlvOK, bvm)
           y == Lay(g, w)
<1>1. \A b \in Addr : Keys(b) \in DOMAIN x
  BY DEF Lay
<1>h. blockHeight(x) = blockHeight(v)
  <2>1. World \notin DOMAIN w
    BY Kinds DEF FeesPaid
  <2> QED BY <2>1 DEF Lay, blockHeight
<1> HIDE DEF x
<1>2. /\ DOMAIN g \subseteq {Bal(b) : b \in Takers \cup {a}} \cup {Keys(b) : b \in Takers}
      /\ ListsKept(x, Lay(g, x))
      /\ ~V2_0_1_13780(blockHeight(v)) => \A b \in Takers : "token" \in Lay(g, x)[Keys(b)]
  BY <1>1, <1>h, DistributeEffect
<1> HIDE DEF g
<1>3. Lay(y, v) = Lay(g, x)
  BY LayLay DEF x
<1>4. DOMAIN y = DOMAIN g \cup DOMAIN w
  BY DEF Lay
<1>5. DOMAIN y \subseteq {Bal(b) : b \in Takers \cup payers} \cup {Keys(b) : b \in Takers}
  BY <1>2, <1>4 DEF FeesPaid
<1>6. ListsKept(v, Lay(g, x))
  BY <1>2, ListsThen DEF FeesPaid, x
<1> HIDE DEF y
<1>7. FeesPaid(v, y, payers)
  BY <1>2, <1>3, <1>5, <1>6 DEF FeesPaid
<1> QED BY <1>7 DEF y, g, x

(* What emitFeeReceipts writes, by induction over the payers.              *)
LEMMA EmitEffect ==
  ASSUME NEW v, \A a \in Addr : Keys(a) \in DOMAIN v, World \in DOMAIN v,
         NEW fees, IsFiniteSet(DOMAIN fees), NEW isDlvOK, NEW bvm
  PROVE  FeesPaid(v, emitFeeReceipts(v, fees, isDlvOK, bvm), DOMAIN fees)
<1>1. PICK q : q = SetToSeq(DOMAIN fees)
  OBVIOUS
<1> DEFINE n == Len(q)
<1>2. n \in Nat /\ DOMAIN q = 1 .. n /\ \A i \in 1 .. n : q[i] \in DOMAIN fees
  BY <1>1, SetToSeqIsSequence, SequenceDomain
<1>3. PICK k : k = <<v, fees, isDlvOK, bvm>>
  OBVIOUS
<1>4. PICK b : b = Empty
  OBVIOUS
<1>r. PICK r : FeeReceipts!Folded(k, b, q, 1 .. n) = r[n] /\ FeeReceipts!Stepwise(k, b, q, n, r)
  <2>1. PICK m \in Nat : m = n
    BY <1>2
  <2>2. \E x : FeeReceipts!Folded(k, b, q, 1 .. m) = x[m] /\ FeeReceipts!Stepwise(k, b, q, m, x)
    BY FeeReceipts!FoldStepwise
  <2> QED BY <2>1, <2>2
<1>5. /\ FeeReceipts!Folded(k, b, q, 1 .. n) = r[n]
      /\ r[0] = b
      /\ \A i \in 1 .. n : r[i] = feeStep(k, r[i - 1], q[i])
  BY <1>r DEF FeeReceipts!Stepwise
<1>6. emitFeeReceipts(v, fees, isDlvOK, bvm) = r[n]
  BY <1>1, <1>2, <1>3, <1>4, <1>5, EmitUnfolded
<1> DEFINE N == {i \in Nat : i <= n => FeesPaid(v, r[i], DOMAIN fees)}
<1>7. FeesPaid(v, b, DOMAIN fees)
  <2>1. DOMAIN b = {}
    BY <1>4, EmptySequence DEF Empty
  <2>2. \A x \in DOMAIN v : x \in DOMAIN Lay(b, v) /\ Lay(b, v)[x] = v[x]
    BY <2>1 DEF Lay
  <2>3. ListsKept(v, Lay(b, v))
    BY <2>2, ListsSame
  <2> QED BY <2>1, <2>3 DEF FeesPaid
<1>8. 0 \in N
  BY <1>5, <1>7
<1>9. ASSUME NEW i \in Nat, i \in N PROVE i + 1 \in N
  <2>1. SUFFICES ASSUME i + 1 <= n PROVE FeesPaid(v, r[i + 1], DOMAIN fees)
    OBVIOUS
  <2>2. i + 1 \in 1 .. n /\ (i + 1) - 1 = i /\ i <= n
    BY <1>2, <2>1
  <2>3. PICK w : w = r[i]
    OBVIOUS
  <2>4. PICK a \in DOMAIN fees : a = q[i + 1]
    BY <1>2, <2>2
  <2>5. PICK m : m = fees[a]
    OBVIOUS
  <2>6. r[i + 1] = feeStep(k, w, a)
    BY <1>5, <2>2, <2>3, <2>4
  <2>7. feeStep(k, w, a) = Lay(distributeFee(Lay(w, v), a, m, isDlvOK, bvm), w)
    BY <1>3, <2>5 DEF feeStep
  <2>8. PICK payers : payers = DOMAIN fees
    OBVIOUS
  <2>9. FeesPaid(v, w, payers)
    BY <1>9, <2>2, <2>3, <2>8
  <2>10. FeesPaid(v, Lay(distributeFee(Lay(w, v), a, m, isDlvOK, bvm), w), payers)
    BY <2>4, <2>8, <2>9, FeeStepPaid
  <2> QED BY <2>6, <2>7, <2>8, <2>10
<1> HIDE DEF N
<1>10. n \in N
  BY <1>2, <1>8, <1>9, NumberInduction
<1> QED BY <1>2, <1>6, <1>10 DEF N

-----------------------------------------------------------------------------
(* Contents in which every key can be read and the counters are numbers.   *)
Readable(v) == Key \subseteq DOMAIN v /\ v[Vals] \in Nat /\ v[Chains] \in Nat

(* The keys there are.                                                     *)
LEMMA KeysOfAll ==
  /\ \A a \in Addr : Bal(a) \in Key /\ Keys(a) \in Key
  /\ \A a \in Acct : Nonce(a) \in Key /\ Bal(a) \in Key /\ Keys(a) \in Key /\ a \in Addr
  /\ \A c \in Contract : Lose(c) \in Key
  /\ {Vals, Chains, Mines, World} \subseteq Key
  /\ Payee \in Addr /\ Bal(Payee) \in Key
BY DEF Key, Addr

(* Laying nothing over contents leaves them.                               *)
LEMMA LayEmpty ==
  ASSUME NEW w, NEW v
  PROVE  Lay(Empty, Lay(w, v)) = Lay(w, v)
<1>1. DOMAIN Empty = {}
  BY EmptySequence DEF Empty
<1> QED BY <1>1 DEF Lay

(* Nothing is written where there are no fees.                             *)
LEMMA NoFeesPaid ==
  ASSUME NEW v, NEW payers
  PROVE  FeesPaid(v, Empty, payers)
<1>1. DOMAIN Empty = {}
  BY EmptySequence DEF Empty
<1>2. \A x \in DOMAIN v : x \in DOMAIN Lay(Empty, v) /\ Lay(Empty, v)[x] = v[x]
  BY <1>1 DEF Lay
<1>3. ListsKept(v, Lay(Empty, v))
  BY <1>2, ListsSame
<1> QED BY <1>1, <1>3 DEF FeesPaid

(* What is kept of a transaction's writes, laid over what it saw.          *)
Kept(seen, base, tx, ok) ==
  /\ DOMAIN base = DOMAIN seen
  /\ \A k \in DOMAIN seen :
       base[k] # seen[k] =>
         k \in {Bal(tx.sender), Bal(Payee), Keys(tx.sender), Keys(Payee), Vals, Chains}
  /\ ListsKept(seen, base)
  /\ ~ok => base = seen
  /\ base[Vals] \in Nat /\ base[Vals] >= seen[Vals]
  /\ base[Chains] \in Nat /\ base[Chains] >= seen[Chains]
  /\ base[Vals] > seen[Vals] <=> ok /\ Occurs(tx, "setPower")
  /\ base[Chains] > seen[Chains] <=> ok /\ Occurs(tx, "sideChain")

(* What is kept of the writes of a transaction: all, or none of them when  *)
(* it failed.                                                              *)
LEMMA KeptOfTx ==
  ASSUME NEW w, NEW v, NEW seen, seen = Lay(w, v), Readable(seen), NEW tx, IsTx(tx),
         NEW r, r = InvokeTx(seen, tx), NEW kept,
         kept = IF r.ok THEN Writes(r.keys, r.view) ELSE Empty
  PROVE  /\ Kept(seen, Lay(kept, seen), tx, r.ok)
         /\ DOMAIN r.fees \subseteq {tx.sender, Payee}
         /\ r.ok => /\ r.view[Vals] = Lay(kept, seen)[Vals]
                    /\ r.view[Chains] = Lay(kept, seen)[Chains]
                    /\ \A k \in DOMAIN seen : Lay(kept, seen)[k] = r.view[k]
<1> DEFINE base == Lay(kept, seen)
<1>1. Executing(seen, r, tx.sender, Occurs(tx, "setPower"), Occurs(tx, "sideChain"))
  <2>1. Vals \in DOMAIN seen /\ Chains \in DOMAIN seen
    BY KeysOfAll DEF Readable
  <2> QED BY <2>1, InvokeEffect DEF Readable, IsTx
<1>2. DOMAIN r.fees \subseteq {tx.sender, Payee}
  BY <1>1 DEF Executing
<1>3. CASE ~r.ok
  <2>1. base = seen
    BY <1>3, LayEmpty
  <2>2. ~(seen[Vals] > seen[Vals]) /\ ~(seen[Chains] > seen[Chains])
        /\ seen[Vals] >= seen[Vals] /\ seen[Chains] >= seen[Chains]
    BY DEF Readable
  <2>3. ListsKept(seen, base)
    BY <2>1, ListsSame
  <2>4. Kept(seen, base, tx, r.ok)
    BY <1>3, <2>1, <2>2, <2>3 DEF Kept, Readable
  <2> QED BY <1>2, <1>3, <2>4
<1>4. CASE r.ok
  <2>1. /\ DOMAIN r.view = DOMAIN seen
        /\ r.keys \subseteq {Bal(tx.sender), Bal(Payee), Keys(tx.sender), Keys(Payee), Vals, Chains}
        /\ ListsKept(seen, r.view)
        /\ \A k \in DOMAIN seen \ r.keys : r.view[k] = seen[k]
        /\ Noted(seen, r, Vals, Occurs(tx, "setPower"))
        /\ Noted(seen, r, Chains, Occurs(tx, "sideChain"))
    BY <1>1, <1>4 DEF Executing
  <2>2. {Bal(tx.sender), Bal(Payee), Keys(tx.sender), Keys(Payee), Vals, Chains}
          \subseteq DOMAIN seen
    BY KeysOfAll DEF Readable, IsTx
  <2>3. DOMAIN base = DOMAIN seen /\ \A k \in DOMAIN seen : base[k] = r.view[k]
    <3>1. r.keys \subseteq DOMAIN seen
      BY <2>1, <2>2
    <3>2. DOMAIN kept = r.keys /\ \A k \in r.keys : kept[k] = r.view[k]
      BY <1>4 DEF Writes
    <3> QED BY <2>1, <3>1, <3>2 DEF Lay
  <2> HIDE DEF base
  <2>4. /\ base[Vals] = r.view[Vals] /\ base[Chains] = r.view[Chains]
        /\ \A k \in DOMAIN seen :
             base[k] # seen[k] =>
               k \in {Bal(tx.sender), Bal(Payee), Keys(tx.sender), Keys(Payee), Vals, Chains}
    BY <2>1, <2>2, <2>3
  <2>l. ListsKept(seen, base)
    <3>1. \A a : Keys(a) \in DOMAIN r.view =>
                   Keys(a) \in DOMAIN base /\ r.view[Keys(a)] \subseteq base[Keys(a)]
      BY <2>1, <2>3
    <3>2. ListsKept(r.view, base)
      BY <3>1, ListsSame
    <3> QED BY <2>1, <3>2, ListsThen
  <2>5. /\ base[Vals] \in Nat /\ base[Vals] >= seen[Vals]
        /\ base[Vals] > seen[Vals] <=> Occurs(tx, "setPower")
    <3>1. ~Occurs(tx, "setPower") => base[Vals] = seen[Vals]
      BY <2>1, <2>2, <2>4 DEF Noted
    <3>2. seen[Vals] \in Nat
      BY DEF Readable
    <3> QED BY <2>1, <2>4, <3>1, <3>2 DEF Noted
  <2>6. /\ base[Chains] \in Nat /\ base[Chains] >= seen[Chains]
        /\ base[Chains] > seen[Chains] <=> Occurs(tx, "sideChain")
    <3>1. ~Occurs(tx, "sideChain") => base[Chains] = seen[Chains]
      BY <2>1, <2>2, <2>4 DEF Noted
    <3>2. seen[Chains] \in Nat
      BY DEF Readable
    <3> QED BY <2>1, <2>4, <3>1, <3>2 DEF Noted
  <2>7. Kept(seen, base, tx, r.ok)
    BY <1>4, <2>3, <2>4, <2>l, <2>5, <2>6 DEF Kept
  <2> QED BY <1>2, <2>3, <2>4, <2>7 DEF base
<1> QED BY <1>3, <1>4

(* The delivery of a transaction that runs: over the contents seen, with   *)
(* the nonce set, its writes are kept or not, and the fees are paid; q is  *)
(* the progress after it and u what is read then.                          *)
Delivery(p, tx, q, seen, u, ok, fees, base, paid, state) ==
  /\ Kept(seen, base, tx, ok)
  /\ DOMAIN fees \subseteq {tx.sender, Payee}
  /\ FeesPaid(base, paid, DOMAIN fees)
  /\ u = Lay(paid, base) /\ u = Lay(state, seen)
  /\ q.list = Append(p.list, Entry(tx, IF ok THEN "ok" ELSE "failed", fees, state))
  /\ q.validators = IF ok /\ Occurs(tx, "setPower") THEN base[Vals] ELSE p.validators
  /\ q.scGenesis = IF ok /\ Occurs(tx, "sideChain") THEN seen[Chains] + 1 ELSE p.scGenesis

(* runDeliverTx, taken apart.                                              *)
LEMMA RunDelivered ==
  ASSUME NEW d, NEW p, NEW tx, IsTx(tx), NEW v, v = Lay(p.buffer, d), Readable(v),
         NEW q, q = runDeliverTx(d, p, tx), NEW seen,
         seen = Lay(SetAccountNonce(v, tx.sender, tx.nonce), v)
  PROVE  \E ok, fees, base, paid, state :
           Delivery(p, tx, q, seen, Lay(q.buffer, d), ok, fees, base, paid, state)
<1>1. PICK nonce : nonce = SetAccountNonce(v, tx.sender, tx.nonce)
  OBVIOUS
<1>2. PICK r : r = InvokeTx(seen, tx)
  OBVIOUS
<1>3. PICK kept : kept = IF r.ok THEN Writes(r.keys, r.view) ELSE Empty
  OBVIOUS
<1>4. PICK base : base = Lay(kept, seen)
  OBVIOUS
<1>5. PICK rcpts : rcpts = emitFeeReceipts(base, r.fees, r.ok, isBVM(tx))
  OBVIOUS
<1>6. PICK state : state = IF r.ok \/ r.fees # Empty THEN Lay(rcpts, kept) ELSE Empty
  OBVIOUS
<1>7. /\ q.buffer = Lay(state, Lay(nonce, p.buffer))
      /\ q.list = Append(p.list, Entry(tx, IF r.ok THEN "ok" ELSE "failed", r.fees, state))
      /\ q.validators = packValidators(p, r, tx)
      /\ q.scGenesis = packSideChainGenesis(p, r, tx, seen)
  BY <1>1, <1>2, <1>3, <1>4, <1>5, <1>6
     DEF runDeliverTx, rolledBack, nonceKept
<1>8. DOMAIN nonce \subseteq {Nonce(tx.sender), Keys(tx.sender)}
  BY <1>1 DEF SetAccountNonce
<1>9. Readable(seen)
  <2>1. \A k \in DOMAIN v : k \in DOMAIN seen
    BY DEF Lay
  <2>2. Vals \in DOMAIN v /\ Chains \in DOMAIN v
    BY KeysOfAll DEF Readable
  <2>3. Vals \notin DOMAIN nonce /\ Chains \notin DOMAIN nonce
    BY <1>8, Kinds
  <2>4. seen[Vals] = v[Vals] /\ seen[Chains] = v[Chains]
    BY <1>1, <2>2, <2>3 DEF Lay
  <2> QED BY <2>1, <2>4 DEF Readable
<1>10. /\ Kept(seen, base, tx, r.ok)
       /\ DOMAIN r.fees \subseteq {tx.sender, Payee}
       /\ r.ok => r.view[Vals] = base[Vals] /\ r.view[Chains] = base[Chains]
  BY <1>2, <1>3, <1>4, <1>9, KeptOfTx
<1>11. World \in DOMAIN base /\ \A a \in Addr : Keys(a) \in DOMAIN base
  BY <1>9, <1>10, KeysOfAll DEF Kept, Readable
<1>12. Lay(q.buffer, d) = Lay(state, seen)
  BY <1>1, <1>7, LayLay
<1>13. PICK paid : Lay(state, seen) = Lay(paid, base) /\ FeesPaid(base, paid, DOMAIN r.fees)
  <2>1. CASE r.ok \/ r.fees # Empty
    <3>1. Lay(state, seen) = Lay(rcpts, base)
      BY <1>4, <1>6, <2>1, LayLay
    <3>2. FeesPaid(base, rcpts, DOMAIN r.fees)
      <4>1. PICK fs : fs = r.fees
        OBVIOUS
      <4>2. PICK b : b = r.ok
        OBVIOUS
      <4>3. PICK c : c = isBVM(tx)
        OBVIOUS
      <4>4. IsFiniteSet(DOMAIN fs)
        <5>1. IsFiniteSet({tx.sender, Payee})
          <6>1. PICK x : x = tx.sender
            OBVIOUS
          <6>2. IsFiniteSet({Payee}) /\ {x, Payee} = {Payee} \cup {x}
            BY FS_Singleton
          <6>3. IsFiniteSet({Payee} \cup {x})
            BY <6>2, FS_AddElement
          <6> QED BY <6>1, <6>2, <6>3
        <5> QED BY <1>10, <4>1, <5>1, FS_Subset
      <4>5. FeesPaid(base, emitFeeReceipts(base, fs, b, c), DOMAIN fs)
        BY <1>11, <4>4, EmitEffect
      <4> QED BY <1>5, <4>1, <4>2, <4>3, <4>5
    <3> QED BY <3>1, <3>2
  <2>2. CASE ~(r.ok \/ r.fees # Empty)
    <3>1. state = Empty /\ base = seen
      BY <1>6, <1>10, <2>2 DEF Kept
    <3> QED BY <3>1, NoFeesPaid
  <2> QED BY <2>1, <2>2
<1>14. q.validators = IF r.ok /\ Occurs(tx, "setPower") THEN base[Vals] ELSE p.validators
  BY <1>7, <1>10 DEF packValidators, hasReceipt, Occurs
<1>15. q.scGenesis = IF r.ok /\ Occurs(tx, "sideChain") THEN seen[Chains] + 1 ELSE p.scGenesis
  BY <1>7 DEF packSideChainGenesis, hasReceipt, Occurs
<1>16. PICK ok : ok = r.ok
  OBVIOUS
<1>17. PICK fees : fees = r.fees
  OBVIOUS
<1>18. Delivery(p, tx, q, seen, Lay(q.buffer, d), ok, fees, base, paid, state)
  BY <1>7, <1>10, <1>12, <1>13, <1>14, <1>15, <1>16, <1>17 DEF Delivery
<1> QED BY <1>18

(* What the delivery of a transaction that runs changes, from the contents *)
(* v and the progress p to u and q.                                        *)
OnlyPays(v, u, e) ==
  \A k \in Key :
    \/ u[k] = v[k]
    \/ k[1] \in {"nonce", "keys"}
    \/ \E a \in DOMAIN e.fees \cup Takers : k = Bal(a)

Hashed(v, u, p, q, tx, e) ==
  /\ q.list = Append(p.list, e)
  /\ e.tx = tx
  /\ e.code \in {"ok", "failed"}
  /\ e.code = "failed" => OnlyPays(v, u, e)
  /\ IF Chains \in DOMAIN e.state THEN e.state[Chains] = u[Chains] ELSE u[Chains] = v[Chains]

(* Of a counter that grew something is noted to report.                    *)
Grown(before, after, x, y, note) ==
  /\ after \in Nat /\ after >= before
  /\ y = IF after > before THEN note ELSE x

Ran(v, u, p, q, tx) ==
  /\ Key \subseteq DOMAIN u
  /\ u[Mines] = v[Mines] /\ u[World] = v[World]
  /\ \A a \in Acct : u[Nonce(a)] = IF a = tx.sender THEN tx.nonce ELSE v[Nonce(a)]
  /\ ListsKept(v, u)
  /\ v[Nonce(tx.sender)] = 0 => "nonce" \in u[Keys(tx.sender)]
  /\ \A a \in Addr : u[Bal(a)] # v[Bal(a)] =>
       \/ a \in Acct \cup {Payee}
       \/ NamesToken(u[Keys(a)])
       \/ a \in Takers /\ V2_0_1_13780(blockHeight(v))
  /\ Grown(v[Vals], u[Vals], p.validators, q.validators, u[Vals])
  /\ Grown(v[Chains], u[Chains], p.scGenesis, q.scGenesis, v[Chains] + 1)
  /\ \E e : Hashed(v, u, p, q, tx, e)

(* What a delivery changes, key by key.                                    *)
LEMMA DeliveryRan ==
  ASSUME NEW p, NEW tx, IsTx(tx), NEW q, NEW v, Readable(v), NEW seen,
         seen = Lay(SetAccountNonce(v, tx.sender, tx.nonce), v), NEW u,
         NEW ok, NEW fees, NEW base, NEW paid, NEW state,
         Delivery(p, tx, q, seen, u, ok, fees, base, paid, state)
  PROVE  Ran(v, u, p, q, tx)
<1> DEFINE from == tx.sender
<1>1. PICK nonce : nonce = SetAccountNonce(v, from, tx.nonce)
  OBVIOUS
<1>2. from \in Acct /\ from \in Addr
  BY KeysOfAll DEF IsTx
<1>3. /\ DOMAIN nonce \subseteq {Nonce(from), Keys(from)}
      /\ Nonce(from) \in DOMAIN nonce /\ nonce[Nonce(from)] = tx.nonce
      /\ Keys(from) \in DOMAIN nonce <=> v[Nonce(from)] = 0
      /\ Keys(from) \in DOMAIN nonce => nonce[Keys(from)] = v[Keys(from)] \cup {"nonce"}
  <2>1. Nonce(from) # Keys(from)
    BY Kinds
  <2> HIDE DEF from
  <2> QED BY <1>1, <2>1 DEF SetAccountNonce
<1>4. /\ DOMAIN seen = DOMAIN v
      /\ seen[Nonce(from)] = tx.nonce
      /\ \A k \in DOMAIN v \ {Nonce(from), Keys(from)} : seen[k] = v[k]
      /\ v[Keys(from)] \subseteq seen[Keys(from)]
      /\ v[Nonce(from)] = 0 => "nonce" \in seen[Keys(from)]
      /\ Keys(from) \in DOMAIN seen
  <2>1. Nonce(from) \in DOMAIN v /\ Keys(from) \in DOMAIN v
    BY <1>2, KeysOfAll DEF Readable
  <2>2. seen = Lay(nonce, v)
    BY <1>1
  <2> HIDE DEF from
  <2> QED BY <1>3, <2>1, <2>2 DEF Lay
<1>5. /\ Kept(seen, base, tx, ok)
      /\ DOMAIN fees \subseteq {from, Payee}
      /\ FeesPaid(base, paid, DOMAIN fees)
      /\ u = Lay(paid, base) /\ u = Lay(state, seen)
      /\ q.list = Append(p.list, Entry(tx, IF ok THEN "ok" ELSE "failed", fees, state))
      /\ q.validators = IF ok /\ Occurs(tx, "setPower") THEN base[Vals] ELSE p.validators
      /\ q.scGenesis = IF ok /\ Occurs(tx, "sideChain") THEN seen[Chains] + 1 ELSE p.scGenesis
  BY DEF Delivery
<1> HIDE DEF from
<1>6. DOMAIN base = DOMAIN v /\ Key \subseteq DOMAIN v
  BY <1>4, <1>5 DEF Kept, Readable
<1>7. Key \subseteq DOMAIN u
  BY <1>5, <1>6 DEF Lay
<1>8. ASSUME NEW k \in Key, k[1] \notin {"bal", "keys"} PROVE u[k] = base[k]
  <2>1. k \notin DOMAIN paid
    BY <1>5, <1>8, Kinds DEF FeesPaid
  <2> QED BY <1>5, <1>6, <2>1 DEF Lay
<1>9. ASSUME NEW k \in Key, k[1] \notin {"bal", "keys", "vals", "chains"} PROVE base[k] = seen[k]
  <2>1. k \notin {Bal(from), Bal(Payee), Keys(from), Keys(Payee), Vals, Chains}
    BY <1>9, Kinds
  <2> QED BY <1>4, <1>5, <1>6, <2>1 DEF Kept, from
<1>10. ASSUME NEW k \in {Mines, World} PROVE u[k] = v[k] /\ base[k] = v[k]
  <2>1. k \in Key /\ k[1] \in {"mines", "world"} /\ k # Nonce(from) /\ k # Keys(from)
    BY KeysOfAll, Kinds
  <2>2. u[k] = base[k] /\ base[k] = seen[k]
    BY <1>8, <1>9, <2>1
  <2> QED BY <1>4, <1>6, <2>1, <2>2
<1>11. ASSUME NEW a \in Acct
       PROVE  u[Nonce(a)] = IF a = from THEN tx.nonce ELSE v[Nonce(a)]
  <2>1. /\ Nonce(a) \in Key /\ Nonce(a)[1] = "nonce" /\ Nonce(a) # Keys(from)
        /\ Nonce(a) = Nonce(from) => a = from
    BY KeysOfAll, Kinds
  <2>2. u[Nonce(a)] = base[Nonce(a)] /\ base[Nonce(a)] = seen[Nonce(a)]
    BY <1>8, <1>9, <2>1
  <2> QED BY <1>4, <1>6, <2>1, <2>2
<1>12. ListsKept(seen, u)
  BY <1>5, ListsThen DEF Kept, FeesPaid
<1>13. ListsKept(v, u)
  <2>1. ASSUME NEW a, Keys(a) \in DOMAIN v
        PROVE  Keys(a) \in DOMAIN seen /\ v[Keys(a)] \subseteq seen[Keys(a)]
    <3>1. Keys(a) # Nonce(from) /\ (Keys(a) = Keys(from) => a = from)
      BY Kinds
    <3> QED BY <1>4, <2>1, <3>1
  <2>2. ListsKept(v, seen)
    BY <2>1, ListsSame
  <2> QED BY <1>12, <2>2, ListsThen
<1>14. v[Nonce(from)] = 0 => "nonce" \in u[Keys(from)]
  BY <1>4, <1>12 DEF ListsKept
<1>15. ASSUME NEW a \in Addr, u[Bal(a)] # v[Bal(a)]
       PROVE  \/ a \in Acct \cup {Payee}
              \/ NamesToken(u[Keys(a)])
              \/ a \in Takers /\ V2_0_1_13780(blockHeight(v))
  <2>1. Bal(a) \in Key /\ Bal(a) \in DOMAIN v /\ Bal(a) # Nonce(from) /\ Bal(a) # Keys(from)
        /\ Bal(a) # Vals /\ Bal(a) # Chains
    BY <1>6, KeysOfAll, Kinds
  <2>2. seen[Bal(a)] = v[Bal(a)]
    BY <1>4, <2>1
  <2>3. CASE base[Bal(a)] # seen[Bal(a)]
    <3>1. Bal(a) = Bal(from) \/ Bal(a) = Bal(Payee)
      <4>1. Bal(a) \in {Bal(from), Bal(Payee), Keys(from), Keys(Payee), Vals, Chains}
        BY <1>4, <1>5, <2>1, <2>3 DEF Kept, from
      <4>2. \A b : Bal(a) # Keys(b)
        BY Kinds
      <4> QED BY <2>1, <4>1, <4>2
    <3> QED BY <1>2, <3>1, Kinds
  <2>4. CASE base[Bal(a)] = seen[Bal(a)]
    <3>1. Bal(a) \in DOMAIN paid
      BY <1>5, <1>6, <1>15, <2>1, <2>2, <2>4 DEF Lay
    <3>2. a \in Takers \cup DOMAIN fees
      BY <1>5, <3>1, Kinds DEF FeesPaid
    <3>3. blockHeight(base) = blockHeight(v)
      BY <1>10 DEF blockHeight
    <3>4. a \in Takers /\ ~V2_0_1_13780(blockHeight(v)) => NamesToken(u[Keys(a)])
      BY <1>5, <3>1, <3>3 DEF FeesPaid, NamesToken
    <3> QED BY <1>2, <1>5, <3>2, <3>4
  <2> QED BY <2>3, <2>4
<1>16. /\ u[Vals] = base[Vals] /\ seen[Vals] = v[Vals]
       /\ u[Chains] = base[Chains] /\ seen[Chains] = v[Chains]
  <2>1. /\ Vals \in Key /\ Chains \in Key
        /\ Vals # Nonce(from) /\ Vals # Keys(from) /\ Chains # Nonce(from) /\ Chains # Keys(from)
    BY KeysOfAll, Kinds
  <2>2. u[Vals] = base[Vals] /\ u[Chains] = base[Chains]
    BY <1>8, <2>1, Kinds
  <2> QED BY <1>4, <1>6, <2>1, <2>2
<1>17. Grown(v[Vals], u[Vals], p.validators, q.validators, u[Vals])
  BY <1>5, <1>16 DEF Grown, Kept
<1>18. Grown(v[Chains], u[Chains], p.scGenesis, q.scGenesis, v[Chains] + 1)
  BY <1>5, <1>16 DEF Grown, Kept
<1>19. PICK e : e = Entry(tx, IF ok THEN "ok" ELSE "failed", fees, state)
  OBVIOUS
<1>20. /\ e.tx = tx /\ e.fees = fees /\ e.code = IF ok THEN "ok" ELSE "failed"
       /\ e.state = state
  BY <1>19 DEF Entry
<1>s. IF Chains \in DOMAIN e.state THEN e.state[Chains] = u[Chains] ELSE u[Chains] = v[Chains]
  <2>1. Chains \in DOMAIN seen
    BY <1>4, <1>6, KeysOfAll
  <2> QED BY <1>5, <1>16, <1>20, <2>1 DEF Lay
<1>21. ASSUME ~ok PROVE OnlyPays(v, u, e)
  <2>1. base = seen
    BY <1>5, <1>21 DEF Kept
  <2>2. SUFFICES ASSUME NEW k \in Key, u[k] # v[k], k[1] \notin {"nonce", "keys"}
                 PROVE  \E a \in DOMAIN e.fees \cup Takers : k = Bal(a)
    BY DEF OnlyPays
  <2>3. k # Nonce(from) /\ k # Keys(from)
    BY <2>2, Kinds
  <2>4. base[k] = v[k]
    BY <1>4, <1>6, <2>1, <2>3
  <2>5. k \in DOMAIN paid
    BY <1>5, <1>6, <2>2, <2>4 DEF Lay
  <2> QED BY <1>5, <1>20, <2>2, <2>5, Kinds DEF FeesPaid
<1>22. Hashed(v, u, p, q, tx, e)
  BY <1>5, <1>19, <1>20, <1>s, <1>21 DEF Hashed
<1>23. \E x : Hashed(v, u, p, q, tx, x)
  BY <1>22
<1> QED BY <1>7, <1>10, <1>11, <1>13, <1>14, <1>15, <1>17, <1>18, <1>23 DEF Ran, from

(* So much does a transaction that runs change.                            *)
LEMMA RunRan ==
  ASSUME NEW d, NEW p, NEW tx, IsTx(tx), Readable(Lay(p.buffer, d))
  PROVE  Ran(Lay(p.buffer, d), Lay(runDeliverTx(d, p, tx).buffer, d), p,
             runDeliverTx(d, p, tx), tx)
<1>1. PICK v : v = Lay(p.buffer, d)
  OBVIOUS
<1>2. PICK q : q = runDeliverTx(d, p, tx)
  OBVIOUS
<1>3. PICK seen : seen = Lay(SetAccountNonce(v, tx.sender, tx.nonce), v)
  OBVIOUS
<1>4. PICK u : u = Lay(q.buffer, d)
  OBVIOUS
<1>5. PICK ok, fees, base, paid, state :
        Delivery(p, tx, q, seen, u, ok, fees, base, paid, state)
  <2>1. \E ok, fees, base, paid, state :
          Delivery(p, tx, q, seen, Lay(q.buffer, d), ok, fees, base, paid, state)
    BY <1>1, <1>2, <1>3, RunDelivered
  <2> QED BY <1>4, <2>1
<1>6. Ran(v, u, p, q, tx)
  BY <1>1, <1>3, <1>5, DeliveryRan
<1> QED BY <1>1, <1>2, <1>4, <1>6

-----------------------------------------------------------------------------
(* Money.  The balances of contents are numbers.                           *)
Valued(v) == \A a \in Addr : Bal(a) \in DOMAIN v /\ v[Bal(a)] \in Int

(* No balance is overdrawn from v to u.                                    *)
Solvent(v, u) == \A a \in Addr : u[Bal(a)] < 0 => u[Bal(a)] >= v[Bal(a)]

(* The addresses are finitely many.                                        *)
LEMMA AddressesFinite == IsFiniteSet(Addr)
<1>1. PICK A : A = Acct \cup Contract
  OBVIOUS
<1>2. IsFiniteSet(A)
  BY <1>1, AddrAssumption, FS_Union
<1>3. IsFiniteSet(A \cup {Payee})
  BY <1>2, FS_AddElement
<1>4. IsFiniteSet((A \cup {Payee}) \cup {Rewarder})
  BY <1>3, FS_AddElement
<1>5. IsFiniteSet(((A \cup {Payee}) \cup {Rewarder}) \cup {Foundation})
  BY <1>4, FS_AddElement
<1>6. Addr = ((A \cup {Payee}) \cup {Rewarder}) \cup {Foundation}
  BY <1>1 DEF Addr
<1> QED BY <1>5, <1>6

(* The sum of balances that are numbers is one.                            *)
LEMMA MoneyType ==
  ASSUME NEW v, Valued(v)
  PROVE  SumBalances(v) \in Int
<1>1. PICK f : f = [a \in Addr |-> v[Bal(a)]]
  OBVIOUS
<1>2. \A a \in Addr : f[a] \in Int
  BY <1>1 DEF Valued
<1>3. SumFunctionOnSet(f, Addr) \in Int
  BY <1>2, AddressesFinite, SumType
<1> QED BY <1>1, <1>3 DEF SumBalances, SumFunction

(* Contents with the same balances have the same money.                    *)
LEMMA MoneySame ==
  ASSUME NEW v, NEW u, Valued(v), \A a \in Addr : Bal(a) \in DOMAIN u /\ u[Bal(a)] = v[Bal(a)]
  PROVE  Valued(u) /\ SumBalances(u) = SumBalances(v) /\ Solvent(v, u)
<1>1. [a \in Addr |-> u[Bal(a)]] = [a \in Addr |-> v[Bal(a)]]
  OBVIOUS
<1> QED BY <1>1 DEF Valued, SumBalances, Solvent

(* What an amount added to one balance makes of the money.                 *)
LEMMA MoneyPlus ==
  ASSUME NEW v, Valued(v), NEW a \in Addr, NEW n \in Int
  PROVE  LET u == Plus(v, Bal(a), n)
         IN /\ Valued(u)
            /\ SumBalances(u) = SumBalances(v) + n
            /\ u[Bal(a)] = v[Bal(a)] + n
            /\ \A b \in Addr \ {a} : u[Bal(b)] = v[Bal(b)]
            /\ DOMAIN u = DOMAIN v
            /\ \A k \in DOMAIN v : k # Bal(a) => u[k] = v[k]
<1>1. PICK u : u = Plus(v, Bal(a), n)
  OBVIOUS
<1>2. /\ DOMAIN u = DOMAIN v
      /\ u[Bal(a)] = v[Bal(a)] + n
      /\ \A k \in DOMAIN v : k # Bal(a) => u[k] = v[k]
  BY <1>1 DEF Plus, Valued
<1>3. \A b \in Addr \ {a} : u[Bal(b)] = v[Bal(b)]
  BY <1>2, Kinds DEF Valued
<1>4. Valued(u)
  BY <1>2, <1>3 DEF Valued
<1>5. PICK f : f = [b \in Addr |-> v[Bal(b)]]
  OBVIOUS
<1>6. PICK h : h = [b \in Addr |-> u[Bal(b)]]
  OBVIOUS
<1>7. \A b \in Addr : f[b] \in Int /\ h[b] \in Int /\ (b # a => h[b] = f[b])
  BY <1>3, <1>4, <1>5, <1>6 DEF Valued
<1>8. SumFunctionOnSet(h, Addr) = SumFunctionOnSet(f, Addr) + (IF a \in Addr THEN h[a] - f[a] ELSE 0)
  BY <1>7, AddressesFinite, SumChange
<1>9. SumBalances(u) = SumFunctionOnSet(h, Addr) /\ SumBalances(v) = SumFunctionOnSet(f, Addr)
  BY <1>5, <1>6 DEF SumBalances, SumFunction
<1>10. h[a] - f[a] = n
  BY <1>2, <1>5, <1>6 DEF Valued
<1>11. SumBalances(u) = SumBalances(v) + n
  BY <1>8, <1>9, <1>10
<1> QED BY <1>1, <1>2, <1>3, <1>4, <1>11

(* A write of something else than a balance.                               *)
LEMMA MoneyElse ==
  ASSUME NEW v, Valued(v), NEW k, \A a \in Addr : k # Bal(a), NEW n
  PROVE  /\ Valued(Plus(v, k, n)) /\ SumBalances(Plus(v, k, n)) = SumBalances(v)
         /\ Solvent(v, Plus(v, k, n))
<1>1. PICK u : u = Plus(v, k, n)
  OBVIOUS
<1>2. \A a \in Addr : Bal(a) \in DOMAIN u /\ u[Bal(a)] = v[Bal(a)]
  BY <1>1 DEF Plus, Valued
<1> QED BY <1>1, <1>2, MoneySame

(* What a transfer by one who has the amount makes of it.                  *)
LEMMA MoneyMoved ==
  ASSUME NEW v, Valued(v), NEW a \in Addr, NEW b \in Addr, NEW n \in Nat, ~(v[Bal(a)] < n)
  PROVE  LET u == Transfer(v, a, b, n)
         IN Valued(u) /\ SumBalances(u) = SumBalances(v) /\ Solvent(v, u)
<1>1. PICK w : w = Plus(v, Bal(a), -n)
  OBVIOUS
<1>2. PICK u : u = Plus(w, Bal(b), n)
  OBVIOUS
<1>3. /\ Valued(w)
      /\ SumBalances(w) = SumBalances(v) - n
      /\ w[Bal(a)] = v[Bal(a)] - n
      /\ \A c \in Addr \ {a} : w[Bal(c)] = v[Bal(c)]
  <2>1. -n \in Int
    OBVIOUS
  <2>2. PICK m \in Int : m = -n
    BY <2>1
  <2>3. w = Plus(v, Bal(a), m)
    BY <1>1, <2>2
  <2>4. /\ Valued(w)
        /\ SumBalances(w) = SumBalances(v) + m
        /\ w[Bal(a)] = v[Bal(a)] + m
        /\ \A c \in Addr \ {a} : w[Bal(c)] = v[Bal(c)]
    BY <2>3, MoneyPlus
  <2>5. SumBalances(v) \in Int /\ v[Bal(a)] \in Int
    BY MoneyType DEF Valued
  <2> QED BY <2>2, <2>4, <2>5
<1>4. /\ Valued(u)
      /\ SumBalances(u) = SumBalances(w) + n
      /\ u[Bal(b)] = w[Bal(b)] + n
      /\ \A c \in Addr \ {b} : u[Bal(c)] = w[Bal(c)]
  BY <1>2, <1>3, MoneyPlus
<1>5. SumBalances(u) = SumBalances(v)
  BY <1>3, <1>4, MoneyType
<1>6. ASSUME NEW c \in Addr, u[Bal(c)] < 0 PROVE u[Bal(c)] >= v[Bal(c)]
  <2>1. u[Bal(c)] >= w[Bal(c)]
    BY <1>3, <1>4 DEF Valued
  <2>2. CASE c = a
    <3>1. w[Bal(a)] >= 0
      BY <1>3 DEF Valued
    <3> QED BY <1>3, <1>4, <1>6, <2>1, <2>2, <3>1 DEF Valued
  <2>3. CASE c # a
    BY <1>3, <2>1, <2>3
  <2> QED BY <2>2, <2>3
<1> QED BY <1>1, <1>2, <1>4, <1>5, <1>6 DEF Transfer, Solvent

(* Solvency of one step and the next.                                      *)
LEMMA SolventThen ==
  ASSUME NEW v, NEW w, NEW u, Valued(v), Valued(w), Valued(u), Solvent(v, w), Solvent(w, u)
  PROVE  Solvent(v, u)
<1>1. ASSUME NEW a \in Addr, u[Bal(a)] < 0 PROVE u[Bal(a)] >= v[Bal(a)]
  <2>1. u[Bal(a)] \in Int /\ w[Bal(a)] \in Int /\ v[Bal(a)] \in Int
    BY DEF Valued
  <2>2. u[Bal(a)] >= w[Bal(a)]
    BY <1>1 DEF Solvent
  <2>3. CASE w[Bal(a)] < 0
    <3>1. w[Bal(a)] >= v[Bal(a)]
      BY <2>3 DEF Solvent
    <3> QED BY <2>1, <2>2, <3>1
  <2>4. CASE ~(w[Bal(a)] < 0)
    BY <1>1, <2>1, <2>2, <2>4
  <2> QED BY <2>3, <2>4
<1> QED BY <1>1 DEF Solvent

-----------------------------------------------------------------------------
(* A receipt more that one address pays.                                   *)
LEMMA FeesGathered ==
  ASSUME NEW fees, IsFiniteSet(DOMAIN fees), \A a \in DOMAIN fees : fees[a] \in Nat,
         NEW from, NEW n \in Nat
  PROVE  LET g == gatherFees(fees, from, n)
         IN /\ DOMAIN g = DOMAIN fees \cup {from}
            /\ \A a \in DOMAIN g : g[a] \in Nat
            /\ SumFunction(g) = SumFunction(fees) + n
<1>1. PICK g : g = gatherFees(fees, from, n)
  OBVIOUS
<1>2. PICK D : D = DOMAIN fees
  OBVIOUS
<1>3. /\ DOMAIN g = D \cup {from}
      /\ \A a \in D \cup {from} :
           g[a] = (IF a = from THEN n ELSE 0) + (IF a \in D THEN fees[a] ELSE 0)
  BY <1>1, <1>2 DEF gatherFees
<1>4. \A a \in DOMAIN g : g[a] \in Nat
  BY <1>2, <1>3
<1>5. CASE from \in D
  <2>1. D \cup {from} = D
    BY <1>5
  <2>2. \A a \in D : fees[a] \in Int /\ g[a] \in Int /\ (a # from => g[a] = fees[a])
    BY <1>2, <1>3
  <2>3. SumFunctionOnSet(g, D)
          = SumFunctionOnSet(fees, D) + (IF from \in D THEN g[from] - fees[from] ELSE 0)
    BY <1>2, <2>2, SumChange
  <2>4. g[from] - fees[from] = n
    BY <1>2, <1>3, <1>5
  <2> QED BY <1>1, <1>2, <1>3, <1>4, <1>5, <2>1, <2>3, <2>4 DEF SumFunction
<1>6. CASE from \notin D
  <2>1. IsFiniteSet(D) /\ \A a \in D : fees[a] \in Int /\ g[a] = fees[a]
    <3>1. ASSUME NEW a \in D PROVE fees[a] \in Int /\ g[a] = fees[a]
      <4>1. fees[a] \in Nat /\ a # from
        BY <1>2, <1>6
      <4> QED BY <1>3, <4>1
    <3> QED BY <1>2, <3>1
  <2>2. g[from] = n /\ g[from] \in Int
    BY <1>3, <1>6
  <2>3. SumFunctionOnSet(g, D \cup {from}) = SumFunctionOnSet(fees, D) + g[from]
    BY <1>6, <2>1, <2>2, SumAdjoin
  <2> QED BY <1>1, <1>2, <1>3, <1>4, <2>2, <2>3 DEF SumFunction
<1> QED BY <1>5, <1>6

(* The two who may pay for a transaction are finitely many.                *)
LEMMA PayersFinite ==
  ASSUME NEW from, NEW D, D \subseteq {from, Payee}
  PROVE  IsFiniteSet(D)
<1>1. IsFiniteSet({Payee}) /\ {from, Payee} = {Payee} \cup {from}
  BY FS_Singleton
<1>2. IsFiniteSet({Payee} \cup {from})
  BY <1>1, FS_AddElement
<1> QED BY <1>1, <1>2, FS_Subset

(* What the first messages to dockers of a transaction of the account from *)
(* make of the money: no balance is overdrawn, and what is missing is what *)
(* the fee receipts say.                                                   *)
Settled(v, s, from) ==
  /\ IsRunning(s)
  /\ Valued(s.view)
  /\ DOMAIN s.fees \subseteq {from, Payee}
  /\ \A a \in DOMAIN s.fees : s.fees[a] \in Nat
  /\ Solvent(v, s.view)
  /\ SumBalances(s.view) + SumFunction(s.fees) = SumBalances(v)

(* A fee is taken from who has it.                                         *)
LEMMA ChargedSettled ==
  ASSUME NEW v, Valued(v), NEW s, NEW from \in Addr, Settled(v, s, from),
         NEW payer \in {from, Payee}, ~(s.view[Bal(payer)] < Fee)
  PROVE  Settled(v, Charged(s, payer), from)
<1>1. PICK c : c = Charged(s, payer)
  OBVIOUS
<1>2. PICK w : w = s.view
  OBVIOUS
<1>3. PICK fees : fees = s.fees
  OBVIOUS
<1>4. PICK u : u = Plus(w, Bal(payer), -Fee)
  OBVIOUS
<1>5. PICK g : g = gatherFees(fees, payer, Fee)
  OBVIOUS
<1>6. IsRunning(c) /\ c.view = u /\ c.fees = g
  BY <1>1, <1>2, <1>3, <1>4, <1>5, ChargedFields DEF Settled
<1>7. Fee \in Nat /\ payer \in Addr /\ Valued(w)
  BY <1>2, AddrAssumption, KeysOfAll DEF Settled
<1>8. PICK m \in Int : m = -Fee
  BY <1>7
<1>9. /\ Valued(u)
      /\ SumBalances(u) = SumBalances(w) + m
      /\ u[Bal(payer)] = w[Bal(payer)] + m
      /\ \A b \in Addr \ {payer} : u[Bal(b)] = w[Bal(b)]
  BY <1>4, <1>7, <1>8, MoneyPlus
<1>10. Solvent(w, u)
  <2>1. u[Bal(payer)] >= 0
    BY <1>2, <1>7, <1>8, <1>9 DEF Valued
  <2>2. ASSUME NEW a \in Addr, u[Bal(a)] < 0 PROVE u[Bal(a)] >= w[Bal(a)]
    <3>1. a # payer
      BY <1>9, <2>1, <2>2 DEF Valued
    <3> QED BY <1>7, <1>9, <3>1 DEF Valued
  <2> QED BY <2>2 DEF Solvent
<1>11. Solvent(v, u)
  BY <1>2, <1>7, <1>9, <1>10, SolventThen DEF Settled
<1>12. /\ DOMAIN g = DOMAIN fees \cup {payer}
       /\ \A a \in DOMAIN g : g[a] \in Nat
       /\ SumFunction(g) = SumFunction(fees) + Fee
  <2>1. DOMAIN fees \subseteq {from, Payee} /\ \A a \in DOMAIN fees : fees[a] \in Nat
    BY <1>3 DEF Settled
  <2>2. IsFiniteSet(DOMAIN fees)
    BY <2>1, PayersFinite
  <2>3. PICK n \in Nat : n = Fee
    BY <1>7
  <2>4. /\ DOMAIN gatherFees(fees, payer, n) = DOMAIN fees \cup {payer}
        /\ \A a \in DOMAIN gatherFees(fees, payer, n) : gatherFees(fees, payer, n)[a] \in Nat
        /\ SumFunction(gatherFees(fees, payer, n)) = SumFunction(fees) + n
    BY <2>1, <2>2, FeesGathered
  <2> QED BY <1>5, <2>3, <2>4
<1>13. SumBalances(u) + SumFunction(g) = SumBalances(v)
  <2>1. SumFunction(fees) \in Int
    <3>1. DOMAIN fees \subseteq {from, Payee} /\ \A a \in DOMAIN fees : fees[a] \in Int
      BY <1>3 DEF Settled
    <3>2. IsFiniteSet(DOMAIN fees)
      BY <3>1, PayersFinite
    <3> QED BY <3>1, <3>2, SumType DEF SumFunction
  <2>2. SumBalances(w) \in Int /\ SumBalances(v) \in Int
    BY <1>7, MoneyType
  <2>3. SumBalances(w) + SumFunction(fees) = SumBalances(v)
    BY <1>2, <1>3 DEF Settled
  <2> QED BY <1>7, <1>8, <1>9, <1>12, <2>1, <2>2, <2>3
<1>14. DOMAIN g \subseteq {from, Payee}
  BY <1>3, <1>12 DEF Settled
<1>15. Settled(v, c, from)
  BY <1>6, <1>9, <1>11, <1>12, <1>13, <1>14 DEF Settled
<1> QED BY <1>1, <1>15

(* What is settled stays so when only the view changes, with its money.    *)
LEMMA SettledOn ==
  ASSUME NEW v, Valued(v), NEW s, NEW t, NEW from, Settled(v, s, from), IsRunning(t), t.fees = s.fees,
         Valued(t.view), SumBalances(t.view) = SumBalances(s.view), Solvent(s.view, t.view)
  PROVE  Settled(v, t, from)
<1>1. Solvent(v, t.view)
  <2>1. PICK w : w = s.view
    OBVIOUS
  <2>2. PICK u : u = t.view
    OBVIOUS
  <2>3. Valued(w) /\ Valued(u) /\ Solvent(v, w) /\ Solvent(w, u)
    BY <2>1, <2>2 DEF Settled
  <2>4. Solvent(v, u)
    BY <2>3, SolventThen
  <2> QED BY <2>2, <2>4
<1> QED BY <1>1 DEF Settled

(* A failure keeps everything else.                                        *)
LEMMA FailedSettled ==
  ASSUME NEW v, Valued(v), NEW s, NEW from, Settled(v, s, from)
  PROVE  Settled(v, [s EXCEPT !.ok = FALSE], from)
<1>1. PICK t : t = [s EXCEPT !.ok = FALSE]
  OBVIOUS
<1>2. IsRunning(s)
  BY DEF Settled
<1>3. IsRunning(t) /\ t.view = s.view /\ t.fees = s.fees
  BY <1>1, <1>2 DEF IsRunning
<1>4. Settled(v, t, from)
  BY <1>3 DEF Settled
<1> QED BY <1>1, <1>4

(* So does a movement of money.                                            *)
LEMMA MovesMoney ==
  ASSUME NEW s, IsRunning(s), Valued(s.view), NEW giver \in Addr, NEW taker \in Addr
  PROVE  LET t == Moves(s, giver, taker)
         IN /\ IsRunning(t) /\ t.fees = s.fees
            /\ Valued(t.view) /\ SumBalances(t.view) = SumBalances(s.view)
            /\ Solvent(s.view, t.view)
<1>1. PICK t : t = Moves(s, giver, taker)
  OBVIOUS
<1>2. PICK w : w = s.view
  OBVIOUS
<1>3. CASE w[Bal(giver)] < Amount
  <2>1. t = [s EXCEPT !.ok = FALSE]
    BY <1>1, <1>2, <1>3 DEF Moves
  <2>2. IsRunning(t) /\ t.view = w /\ t.fees = s.fees
    BY <1>2, <2>1 DEF IsRunning
  <2>3. \A a \in Addr : w[Bal(a)] >= w[Bal(a)]
    BY <1>2 DEF Valued
  <2> QED BY <1>1, <1>2, <2>2, <2>3 DEF Solvent
<1>4. CASE ~(w[Bal(giver)] < Amount)
  <2>1. PICK n \in Nat : n = Amount
    BY AddrAssumption
  <2>2. PICK u : u = Transfer(w, giver, taker, n)
    OBVIOUS
  <2>3. IsRunning(t) /\ t.view = u /\ t.fees = s.fees
    BY <1>1, <1>2, <1>4, <2>1, <2>2, MovesFields
  <2>4. Valued(u) /\ SumBalances(u) = SumBalances(w) /\ Solvent(w, u)
    BY <1>2, <1>4, <2>1, <2>2, MoneyMoved
  <2> QED BY <1>1, <1>2, <2>3, <2>4
<1> QED BY <1>3, <1>4

(* A governance method leaves the balances.                                *)
LEMMA CountsMoney ==
  ASSUME NEW s, IsRunning(s), Valued(s.view), NEW k \in {Vals, Chains}
  PROVE  LET t == Counts(s, k)
         IN /\ IsRunning(t) /\ t.fees = s.fees
            /\ Valued(t.view) /\ SumBalances(t.view) = SumBalances(s.view)
            /\ Solvent(s.view, t.view)
<1>1. PICK t : t = Counts(s, k)
  OBVIOUS
<1>2. PICK w : w = s.view
  OBVIOUS
<1>3. PICK u : u = Plus(w, k, 1)
  OBVIOUS
<1>4. IsRunning(t) /\ t.view = u /\ t.fees = s.fees
  BY <1>1, <1>2, <1>3, CountsFields
<1>5. \A a \in Addr : k # Bal(a)
  BY Kinds
<1>6. Valued(u) /\ SumBalances(u) = SumBalances(w) /\ Solvent(w, u)
  BY <1>2, <1>3, <1>5, MoneyElse
<1> QED BY <1>1, <1>2, <1>4, <1>6

(* What InvokerMgr.invoke makes of the money.                              *)
LEMMA InvokeSettled ==
  ASSUME NEW v, Valued(v), NEW s, NEW tx, tx.sender \in Addr, Settled(v, s, tx.sender),
         NEW i, tx.messages[i] \in Message
  PROVE  Settled(v, invoke(s, tx, i), tx.sender)
<1>1. PICK t : t = invoke(s, tx, i)
  OBVIOUS
<1>2. PICK m \in Message : m = tx.messages[i]
  OBVIOUS
<1>3. PICK from \in Addr : from = tx.sender
  OBVIOUS
<1>4. PICK payer \in {from, Payee} : payer = getPayer(tx, i)
  BY <1>3 DEF getPayer
<1>5. PICK c : c = Charged(s, payer)
  OBVIOUS
<1>6. Settled(v, s, from)
  BY <1>3
<1>7. CASE ~s.ok
  <2>1. t = s
    BY <1>1, <1>7 DEF invoke
  <2> QED BY <1>1, <1>3, <1>6, <2>1
<1>8. CASE s.ok /\ m \in ofBVM
  <2>1. t = [s EXCEPT !.ok = FALSE]
    BY <1>1, <1>2, <1>8 DEF invoke
  <2>2. Settled(v, t, from)
    BY <1>6, <2>1, FailedSettled
  <2> QED BY <1>1, <1>3, <2>2
<1>9. CASE s.ok /\ m \notin ofBVM
  <2>1. t = sdkInvoke(s, from, payer, m)
    BY <1>1, <1>2, <1>3, <1>4, <1>9 DEF invoke
  <2>2. CASE s.view[Bal(payer)] < Fee
    <3>1. t = [s EXCEPT !.ok = FALSE]
      BY <2>1, <2>2 DEF sdkInvoke
    <3>2. Settled(v, t, from)
      BY <1>6, <3>1, FailedSettled
    <3> QED BY <1>1, <1>3, <3>2
  <2>3. CASE ~(s.view[Bal(payer)] < Fee)
    <3>1. Settled(v, c, from)
      BY <1>5, <1>6, <2>3, ChargedSettled
    <3>2. IsRunning(c) /\ Valued(c.view) /\ Payee \in Addr
      BY <3>1, KeysOfAll DEF Settled
    <3>3. /\ IsRunning(t) /\ t.fees = c.fees
          /\ Valued(t.view) /\ SumBalances(t.view) = SumBalances(c.view)
          /\ Solvent(c.view, t.view)
      <4>1. CASE m = "pay"
        <5>1. t = Moves(c, from, Payee)
          BY <1>5, <2>1, <2>3, <4>1 DEF sdkInvoke
        <5> QED BY <3>2, <5>1, MovesMoney
      <4>2. CASE m \in {"claim", "grant"}
        <5>1. t = Moves(c, Payee, from)
          BY <1>5, <2>1, <2>3, <4>2 DEF sdkInvoke
        <5> QED BY <3>2, <5>1, MovesMoney
      <4>3. CASE m = "setPower"
        <5>1. t = Counts(c, Vals)
          BY <1>5, <2>1, <2>3, <4>3 DEF sdkInvoke
        <5> QED BY <3>2, <5>1, CountsMoney
      <4>4. CASE m = "sideChain"
        <5>1. t = Counts(c, Chains)
          BY <1>5, <2>1, <2>3, <4>4 DEF sdkInvoke
        <5> QED BY <3>2, <5>1, CountsMoney
      <4> QED BY <1>9, <4>1, <4>2, <4>3, <4>4 DEF Message, ofBVM
    <3>4. Settled(v, t, from)
      BY <3>1, <3>3, SettledOn
    <3> QED BY <1>1, <1>3, <3>4
  <2> QED BY <2>2, <2>3
<1> QED BY <1>2, <1>7, <1>8, <1>9

-----------------------------------------------------------------------------
(* All messages of a transaction to dockers, by induction over them.       *)
LEMMA DockerSettled ==
  ASSUME NEW v, Valued(v), NEW tx, IsTx(tx)
  PROVE  Settled(v, docker(v, tx), tx.sender)
<1>1. PICK from \in Addr : from = tx.sender
  BY KeysOfAll DEF IsTx
<1>2. PICK n \in Nat : n = Len(tx.messages) /\ DOMAIN tx.messages = 1 .. n
  BY SequenceDomain DEF IsTx
<1>3. PICK b : b = Running(v)
  OBVIOUS
<1>4. PICK ids : ids = [i \in 1 .. n |-> i]
  OBVIOUS
<1>r. PICK r : Messages!Folded(tx, b, ids, 1 .. n) = r[n] /\ Messages!Stepwise(tx, b, ids, n, r)
  BY Messages!FoldStepwise
<1>5. /\ Messages!Folded(tx, b, ids, 1 .. n) = r[n]
      /\ r[0] = b
      /\ \A i \in 1 .. n : r[i] = messageStep(tx, r[i - 1], ids[i])
  BY <1>r DEF Messages!Stepwise
<1>6. docker(v, tx) = r[n]
  BY <1>2, <1>3, <1>4, <1>5, DockerUnfolded
<1> DEFINE N == {i \in Nat : i <= n => Settled(v, r[i], from)}
<1>7. 0 \in N
  <2>1. IsRunning(b) /\ b.view = v /\ b.fees = << >>
    BY <1>3 DEF Running, IsRunning, Empty
  <2>2. PICK fees : fees = b.fees
    OBVIOUS
  <2>3. DOMAIN fees = {}
    BY <2>1, <2>2, EmptySequence
  <2>4. SumFunction(fees) = 0
    BY <2>3, SumOfNothing
  <2>5. SumBalances(v) \in Int
    BY MoneyType
  <2>6. Solvent(v, v)
    BY DEF Solvent, Valued
  <2>7. Settled(v, b, from)
    BY <2>1, <2>2, <2>3, <2>4, <2>5, <2>6 DEF Settled
  <2> QED BY <1>5, <2>7
<1>8. ASSUME NEW i \in Nat, i \in N PROVE i + 1 \in N
  <2>1. SUFFICES ASSUME i + 1 <= n PROVE Settled(v, r[i + 1], from)
    OBVIOUS
  <2>2. i + 1 \in 1 .. n /\ (i + 1) - 1 = i /\ i <= n
    BY <2>1
  <2>3. PICK s : s = r[i]
    OBVIOUS
  <2>4. PICK j : j = i + 1
    OBVIOUS
  <2>5. tx.messages[j] \in Message
    BY <1>2, <2>2, <2>4 DEF Range, IsTx
  <2>6. r[j] = invoke(s, tx, j)
    BY <1>4, <1>5, <2>2, <2>3, <2>4 DEF messageStep
  <2>7. Settled(v, s, from)
    BY <1>8, <2>2, <2>3
  <2>8. Settled(v, invoke(s, tx, j), tx.sender)
    BY <1>1, <2>5, <2>7, InvokeSettled
  <2> QED BY <1>1, <2>4, <2>6, <2>8
<1> HIDE DEF N
<1>9. n \in N
  BY <1>7, <1>8, NumberInduction
<1> QED BY <1>1, <1>6, <1>9 DEF N

(* What a transaction of the account from makes of the money: no balance   *)
(* is overdrawn.  The dockers have taken the fees; the BVM has not, but    *)
(* who pays one has it.                                                    *)
Paid(v, r, from, bvm) ==
  /\ Valued(r.view)
  /\ DOMAIN r.fees \subseteq {from, Payee}
  /\ \A a \in DOMAIN r.fees : r.fees[a] \in Nat
  /\ Solvent(v, r.view)
  /\ SumBalances(r.view) = SumBalances(v) - (IF bvm THEN 0 ELSE SumFunction(r.fees))
  /\ r.ok /\ bvm => \A a \in DOMAIN r.fees : r.view[Bal(a)] >= r.fees[a]

(* A transaction for the BVM only asks whether the sender has the fee.     *)
LEMMA BurrowPaid ==
  ASSUME NEW v, Valued(v), NEW tx, IsTx(tx)
  PROVE  Paid(v, burrow(v, tx), tx.sender, TRUE)
<1>1. PICK from \in Addr : from = tx.sender
  BY KeysOfAll DEF IsTx
<1>2. PICK ms : ms = tx.messages
  OBVIOUS
<1>3. PICK b : b = Running(v)
  OBVIOUS
<1>4. /\ IsRunning(b) /\ b.view = v /\ b.ok = TRUE /\ b.fees = << >> /\ DOMAIN b.fees = {}
  <2>1. /\ IsRunning(b) /\ b.view = v /\ b.ok = TRUE /\ b.fees = << >>
    BY <1>3 DEF Running, IsRunning, Empty
  <2> QED BY <2>1, EmptySequence
<1>5. PICK c : c = IF Head(ms) = "pay" THEN Moves(b, from, Payee) ELSE b
  OBVIOUS
<1>6. PICK called : called = (c.ok /\ Last(ms) # "revert")
  OBVIOUS
<1>7. PICK after : after = IF called THEN Sync(c, tx) ELSE c
  OBVIOUS
<1>8. PICK t : t = burrow(v, tx)
  OBVIOUS
<1>9. t = IF isCall(ms)
          THEN [after EXCEPT !.ok = called /\ after.view[Bal(from)] >= Fee,
                             !.fees = gatherFees(@, from, IF called THEN Fee ELSE 0)]
          ELSE [b EXCEPT !.ok = FALSE]
  BY <1>1, <1>2, <1>3, <1>5, <1>6, <1>7, <1>8 DEF burrow
<1>10. Solvent(v, v) /\ SumBalances(v) \in Int
  BY MoneyType DEF Solvent, Valued
<1>11. CASE isCall(ms)
  <2>c. /\ IsRunning(c) /\ c.fees = b.fees /\ Valued(c.view)
        /\ SumBalances(c.view) = SumBalances(v) /\ Solvent(v, c.view)
    <3>1. CASE Head(ms) = "pay"
      <4>1. c = Moves(b, from, Payee)
        BY <1>5, <3>1
      <4> QED BY <1>4, <4>1, MovesMoney, KeysOfAll
    <3>2. CASE Head(ms) # "pay"
      BY <1>4, <1>5, <1>10, <3>2
    <3> QED BY <3>1, <3>2
  <2>1. /\ IsRunning(after) /\ after.fees = b.fees /\ Valued(after.view)
        /\ SumBalances(after.view) = SumBalances(v) /\ Solvent(v, after.view)
    <3>1. CASE called
      <4>1. after = Sync(c, tx)
        BY <1>7, <3>1
      <4>2. PICK W \in SUBSET {Keys(from), Keys(Payee)} : Written(c, after, W) /\ after.fees = c.fees
        BY <1>1, <2>c, <4>1, Synced
      <4>3. \A a \in Addr : Bal(a) \in DOMAIN after.view /\ after.view[Bal(a)] = c.view[Bal(a)]
        <5>1. \A a : Bal(a) \notin W
          BY Kinds
        <5> QED BY <2>c, <4>2, <5>1 DEF Written, Valued
      <4>4. PICK x : x = c.view
        OBVIOUS
      <4>5. PICK y : y = after.view
        OBVIOUS
      <4>6. Valued(y) /\ SumBalances(y) = SumBalances(x) /\ Solvent(x, y)
        BY <2>c, <4>3, <4>4, <4>5, MoneySame
      <4>7. Solvent(v, y)
        BY <2>c, <4>4, <4>6, SolventThen
      <4> QED BY <2>c, <4>2, <4>4, <4>5, <4>6, <4>7 DEF Written
    <3>2. CASE ~called
      BY <1>7, <2>c, <3>2
    <3> QED BY <3>1, <3>2
  <2>2. PICK g : g = gatherFees(after.fees, from, IF called THEN Fee ELSE 0)
    OBVIOUS
  <2>3. /\ t.view = after.view /\ t.fees = g
        /\ t.ok => called /\ after.view[Bal(from)] >= Fee
    BY <1>9, <1>11, <2>1, <2>2 DEF IsRunning
  <2>4. DOMAIN g = {from} /\ g[from] = IF called THEN Fee ELSE 0
    <3>1. PICK fees : fees = after.fees
      OBVIOUS
    <3>2. DOMAIN fees = {}
      BY <1>4, <2>1, <3>1
    <3>3. PICK n \in Nat : n = IF called THEN Fee ELSE 0
      BY AddrAssumption
    <3>4. g = gatherFees(fees, from, n)
      BY <2>2, <3>1, <3>3
    <3>5. DOMAIN g = {from} /\ g[from] = n
      BY <3>2, <3>4 DEF gatherFees
    <3> QED BY <3>3, <3>5
  <2>5. Fee \in Nat
    BY AddrAssumption
  <2>6. SumBalances(t.view) = SumBalances(v) - 0
    BY <1>10, <2>1, <2>3
  <2>7. Paid(v, t, from, TRUE)
    BY <2>1, <2>3, <2>4, <2>5, <2>6 DEF Paid
  <2> QED BY <1>1, <1>8, <2>7
<1>12. CASE ~isCall(ms)
  <2>1. t.view = v /\ ~t.ok /\ t.fees = b.fees
    BY <1>4, <1>9, <1>12 DEF IsRunning
  <2>2. SumBalances(t.view) = SumBalances(v) - 0
    BY <1>10, <2>1
  <2>3. Paid(v, t, from, TRUE)
    BY <1>4, <1>10, <2>1, <2>2 DEF Paid
  <2> QED BY <1>1, <1>8, <2>3
<1> QED BY <1>11, <1>12

(* What Adapter.InvokeTx makes of the money.                               *)
LEMMA InvokePaid ==
  ASSUME NEW v, Valued(v), NEW tx, IsTx(tx)
  PROVE  Paid(v, InvokeTx(v, tx), tx.sender, isBVM(tx))
<1>1. CASE isBVM(tx)
  <2>1. InvokeTx(v, tx) = burrow(v, tx)
    BY <1>1 DEF InvokeTx
  <2>2. isBVM(tx) = TRUE
    BY <1>1 DEF isBVM
  <2> QED BY <2>1, <2>2, BurrowPaid
<1>2. CASE ~isBVM(tx)
  <2>1. PICK r : r = docker(v, tx)
    OBVIOUS
  <2>2. InvokeTx(v, tx) = r
    BY <1>2, <2>1 DEF InvokeTx
  <2>3. isBVM(tx) = FALSE
    BY <1>2 DEF isBVM
  <2>4. Settled(v, r, tx.sender)
    BY <2>1, DockerSettled
  <2>5. SumFunction(r.fees) \in Int
    <3>1. PICK fees : fees = r.fees
      OBVIOUS
    <3>2. DOMAIN fees \subseteq {tx.sender, Payee} /\ \A a \in DOMAIN fees : fees[a] \in Int
      BY <2>4, <3>1 DEF Settled
    <3>3. IsFiniteSet(DOMAIN fees)
      BY <3>2, PayersFinite
    <3>4. SumFunction(fees) \in Int
      BY <3>2, <3>3, SumType DEF SumFunction
    <3> QED BY <3>1, <3>4
  <2>6. SumBalances(v) \in Int /\ SumBalances(r.view) \in Int
    BY <2>4, MoneyType DEF Settled
  <2>7. SumBalances(r.view) = SumBalances(v) - SumFunction(r.fees)
    BY <2>4, <2>5, <2>6 DEF Settled
  <2>8. Paid(v, r, tx.sender, FALSE)
    BY <2>4, <2>7 DEF Paid, Settled
  <2> QED BY <2>2, <2>3, <2>8
<1> QED BY <1>1, <1>2

-----------------------------------------------------------------------------
(* The sum of the percentages, step by step.                               *)
percentStep(whole, shares, taker) == shares + taker.percent

Percents == INSTANCE DataLemmas WITH FoldStep <- percentStep

(* The sum of the percentages as a fold over the rewarded.                 *)
LEMMA PercentsUnfolded ==
  Percents!Folded(0, 0, Strategy, DOMAIN Strategy) = 10000
BY PercentAssumption
   DEF FoldLeft, MapThenFoldSet, Max, Percents!Folded, Percents!IsFold, Percents!greatest,
       percentStep

(* There is one that is rewarded.                                          *)
LEMMA SomeRewarded == Strategy # << >>
BY PercentAssumption DEF FoldLeft, MapThenFoldSet, Max

(* The shares of the rewarded: they add up to the whole.                   *)
LEMMA Percentages ==
  \E P : /\ P[0] = 0 /\ P[Len(Strategy)] = 10000
         /\ \A i \in 1 .. Len(Strategy) : /\ Strategy[i].percent \in Nat
                                          /\ P[i] = P[i - 1] + Strategy[i].percent
<1>1. PICK n \in Nat : n = Len(Strategy) /\ DOMAIN Strategy = 1 .. n
  BY TakersAreAccounts, SequenceDomain
<1>2. PICK s : s = Strategy
  OBVIOUS
<1>3. PICK b : b = 0
  OBVIOUS
<1>k. PICK k : k = 0
  OBVIOUS
<1>P. PICK P : Percents!Folded(k, b, s, 1 .. n) = P[n] /\ Percents!Stepwise(k, b, s, n, P)
  BY Percents!FoldStepwise
<1>4. /\ Percents!Folded(k, b, s, 1 .. n) = P[n]
      /\ P[0] = b
      /\ \A i \in 1 .. n : P[i] = percentStep(k, P[i - 1], s[i])
  BY <1>P DEF Percents!Stepwise
<1>5. P[n] = 10000
  BY <1>1, <1>2, <1>3, <1>k, <1>4, PercentsUnfolded
<1>6. \A i \in 1 .. n : s[i].percent \in Nat
  <2> DEFINE S == [address : Addr \cup {NoAddr}, percent : Nat]
  <2>1. PICK t \in Seq(S) : t = Strategy
    BY StrategyAssumption
  <2>2. \A r \in S : r.percent \in Nat
    OBVIOUS
  <2> HIDE DEF S
  <2>3. \A i \in 1 .. Len(t) : t[i] \in S
    BY SequenceOver
  <2> QED BY <1>1, <1>2, <2>1, <2>2, <2>3
<1>7. \A i \in 1 .. n : P[i] = P[i - 1] + s[i].percent
  BY <1>4 DEF percentStep
<1> QED BY <1>1, <1>2, <1>3, <1>4, <1>5, <1>6, <1>7

(* One gift adds its award to the money, and takes from no one.            *)
LEMMA GiftMoney ==
  ASSUME NEW w, Valued(w), NEW m \in Nat, NEW lists, NEW r, rewardAddr(r) \in Addr,
         r.percent \in Nat, NEW x, x = giveStep(<<m, lists>>, w, r)
  PROVE  /\ Valued(x)
         /\ award(m, r) \in Nat
         /\ SumBalances(x) = SumBalances(w) + award(m, r)
         /\ \A b \in Addr : x[Bal(b)] >= w[Bal(b)] /\ (b # rewardAddr(r) => x[Bal(b)] = w[Bal(b)])
<1>1. PICK a \in Addr : a = rewardAddr(r)
  OBVIOUS
<1>2. PICK n \in Nat : n = award(m, r)
  BY DEF award
<1>3. PICK y : y = Plus(w, Bal(a), n)
  OBVIOUS
<1>4. x = IF a \in lists THEN AddAccountToken(y, a) ELSE y
  BY <1>1, <1>2, <1>3 DEF giveStep
<1>5. /\ Valued(y) /\ SumBalances(y) = SumBalances(w) + n
      /\ y[Bal(a)] = w[Bal(a)] + n
      /\ \A b \in Addr \ {a} : y[Bal(b)] = w[Bal(b)]
  <2>1. n \in Int
    BY <1>2
  <2>2. /\ Valued(Plus(w, Bal(a), n)) /\ SumBalances(Plus(w, Bal(a), n)) = SumBalances(w) + n
        /\ Plus(w, Bal(a), n)[Bal(a)] = w[Bal(a)] + n
        /\ \A b \in Addr \ {a} : Plus(w, Bal(a), n)[Bal(b)] = w[Bal(b)]
    BY <2>1, MoneyPlus
  <2> QED BY <1>3, <2>2
<1>6. \A b \in Addr : Bal(b) \in DOMAIN x /\ x[Bal(b)] = y[Bal(b)]
  BY <1>4, <1>5, Kinds DEF AddAccountToken, Valued
<1>7. Valued(x) /\ SumBalances(x) = SumBalances(y)
  BY <1>5, <1>6, MoneySame
<1>8. \A b \in Addr : x[Bal(b)] >= w[Bal(b)] /\ (b # a => x[Bal(b)] = w[Bal(b)])
  BY <1>5, <1>6 DEF Valued
<1> QED BY <1>1, <1>2, <1>5, <1>7, <1>8

(* What i gifts of shares that add up to p hand out of a fee of m: so much *)
(* that what the divisions keep is less than one unit for each.            *)
Shared(m, p, i, given) ==
  /\ given \in Nat
  /\ 10000 * given <= m * p
  /\ m * p <= 10000 * given + 9999 * i

(* One gift more.                                                          *)
LEMMA SharedMore ==
  ASSUME NEW m \in Nat, NEW p \in Nat, NEW i \in Nat, NEW given, Shared(m, p, i, given), NEW r,
         r.percent \in Nat
  PROVE  Shared(m, p + r.percent, i + 1, given + award(m, r))
<1>1. PICK s \in Nat : s = r.percent
  OBVIOUS
<1>2. PICK z \in Nat : z = m * s
  OBVIOUS
<1>3. PICK y \in Nat : y = m * p
  OBVIOUS
<1>4. m * (p + s) = y + z
  BY <1>2, <1>3
<1>5. PICK g : g = award(m, r)
  OBVIOUS
<1>6. g = z \div 10000
  BY <1>1, <1>2, <1>5 DEF award
<1>7. g \in Nat /\ 10000 * g <= z /\ z <= 10000 * g + 9999
  BY <1>6
<1>8. given \in Nat /\ 10000 * given <= y /\ y <= 10000 * given + 9999 * i
  BY <1>3 DEF Shared
<1>9. /\ given + g \in Nat
      /\ 10000 * (given + g) <= y + z
      /\ y + z <= 10000 * (given + g) + 9999 * (i + 1)
  BY <1>7, <1>8
<1> QED BY <1>1, <1>4, <1>5, <1>9 DEF Shared

(* When all have got theirs, less than one unit for each is lost.          *)
LEMMA SharedAll ==
  ASSUME NEW m \in Nat, NEW n \in Nat, n # 0, NEW given, Shared(m, 10000, n, given)
  PROVE  m - given \in 0 .. n - 1
<1>1. given \in Nat /\ 10000 * given <= m * 10000 /\ m * 10000 <= 10000 * given + 9999 * n
  BY DEF Shared
<1> QED BY <1>1

(* The views between the gifts of a fee, one for each that is rewarded.    *)
Given(k, b, r) ==
  /\ r[0] = b
  /\ \A i \in 1 .. Len(Strategy) : r[i] = giveStep(k, r[i - 1], Strategy[i])

(* The gifts of a fee to all that are rewarded.                            *)
LEMMA GiftsMoney ==
  ASSUME NEW b, Valued(b), NEW m \in Nat, NEW lists, NEW r, Given(<<m, lists>>, b, r)
  PROVE  LET g == r[Len(Strategy)]
         IN /\ Valued(g)
            /\ m - (SumBalances(g) - SumBalances(b)) \in 0 .. Len(Strategy) - 1
            /\ \A a \in Addr : g[Bal(a)] >= b[Bal(a)] /\ (a \notin Takers => g[Bal(a)] = b[Bal(a)])
<1>1. PICK n \in Nat : n = Len(Strategy)
  BY TakersAreAccounts, SequenceDomain
<1>2. n # 0
  BY <1>1, TakersAreAccounts, SequenceEmpty, SomeRewarded
<1>3. PICK P : /\ P[0] = 0 /\ P[n] = 10000
               /\ \A i \in 1 .. n : /\ Strategy[i].percent \in Nat
                                    /\ P[i] = P[i - 1] + Strategy[i].percent
  BY <1>1, Percentages
<1>4. \A i \in 1 .. n : rewardAddr(Strategy[i]) \in Takers /\ rewardAddr(Strategy[i]) \in Addr
  BY <1>1, TakersAreAccounts
<1> DEFINE Inv(i) == /\ P[i] \in Nat
                     /\ Valued(r[i])
                     /\ Shared(m, P[i], i, SumBalances(r[i]) - SumBalances(b))
                     /\ \A a \in Addr : /\ r[i][Bal(a)] >= b[Bal(a)]
                                        /\ a \notin Takers => r[i][Bal(a)] = b[Bal(a)]
           N == {i \in Nat : i <= n => Inv(i)}
<1>5. Inv(0)
  <2>1. SumBalances(b) \in Int
    BY MoneyType
  <2>2. SumBalances(b) - SumBalances(b) = 0
    BY <2>1
  <2>3. Shared(m, 0, 0, 0)
    BY DEF Shared
  <2>4. \A a \in Addr : b[Bal(a)] >= b[Bal(a)]
    BY DEF Valued
  <2>5. r[0] = b
    BY DEF Given
  <2> QED BY <1>3, <2>2, <2>3, <2>4, <2>5
<1> HIDE DEF Inv
<1>6. 0 \in N
  BY <1>5
<1>7. ASSUME NEW i \in Nat, i \in N PROVE i + 1 \in N
  <2>1. SUFFICES ASSUME i + 1 <= n PROVE Inv(i + 1)
    OBVIOUS
  <2>2. i + 1 \in 1 .. n /\ (i + 1) - 1 = i /\ i <= n
    BY <2>1
  <2>3. Inv(i)
    BY <1>7, <2>2
  <2>4. PICK w : w = r[i]
    OBVIOUS
  <2>5. PICK s : s = Strategy[i + 1]
    OBVIOUS
  <2>6. PICK p \in Nat : p = P[i]
    BY <2>3 DEF Inv
  <2>7. PICK x : x = r[i + 1]
    OBVIOUS
  <2>8. s.percent \in Nat /\ rewardAddr(s) \in Addr /\ rewardAddr(s) \in Takers
        /\ P[i + 1] = p + s.percent
    BY <1>3, <1>4, <2>2, <2>5, <2>6
  <2>9. x = giveStep(<<m, lists>>, w, s)
    BY <1>1, <2>2, <2>4, <2>5, <2>7 DEF Given
  <2>10. PICK given : given = SumBalances(w) - SumBalances(b)
    OBVIOUS
  <2>11. /\ Valued(w) /\ Shared(m, p, i, given)
         /\ \A a \in Addr : /\ w[Bal(a)] >= b[Bal(a)]
                            /\ a \notin Takers => w[Bal(a)] = b[Bal(a)]
    BY <2>3, <2>4, <2>6, <2>10 DEF Inv
  <2>12. /\ Valued(x)
         /\ award(m, s) \in Nat
         /\ SumBalances(x) = SumBalances(w) + award(m, s)
         /\ \A a \in Addr : x[Bal(a)] >= w[Bal(a)] /\ (a # rewardAddr(s) => x[Bal(a)] = w[Bal(a)])
    <3>1. s.percent \in Nat /\ rewardAddr(s) \in Addr /\ Valued(w)
      BY <2>8, <2>11
    <3>2. /\ Valued(x)
          /\ award(m, s) \in Nat
          /\ SumBalances(x) = SumBalances(w) + award(m, s)
      BY <2>9, <3>1, GiftMoney
    <3>3. \A a \in Addr : x[Bal(a)] >= w[Bal(a)] /\ (a # rewardAddr(s) => x[Bal(a)] = w[Bal(a)])
      BY <2>9, <3>1, GiftMoney
    <3> QED BY <3>2, <3>3
  <2>13. Shared(m, p + s.percent, i + 1, given + award(m, s))
    BY <2>8, <2>11, SharedMore
  <2>14. SumBalances(x) - SumBalances(b) = given + award(m, s)
    <3>1. SumBalances(w) \in Int /\ SumBalances(b) \in Int
      BY <2>11, MoneyType
    <3> QED BY <2>10, <2>12, <3>1
  <2>15. \A a \in Addr : /\ x[Bal(a)] >= b[Bal(a)]
                         /\ a \notin Takers => x[Bal(a)] = b[Bal(a)]
    <3>1. SUFFICES ASSUME NEW a \in Addr
                   PROVE  /\ x[Bal(a)] >= b[Bal(a)]
                          /\ a \notin Takers => x[Bal(a)] = b[Bal(a)]
      OBVIOUS
    <3>2. x[Bal(a)] \in Int /\ w[Bal(a)] \in Int /\ b[Bal(a)] \in Int
      BY <2>11, <2>12 DEF Valued
    <3> QED BY <2>8, <2>11, <2>12, <3>2
  <2>16. p + s.percent \in Nat
    BY <2>8
  <2> QED BY <2>7, <2>8, <2>12, <2>13, <2>14, <2>15, <2>16 DEF Inv
<1> HIDE DEF N
<1>8. n \in N
  BY <1>6, <1>7, NumberInduction
<1>9. Inv(n)
  BY <1>8 DEF N
<1>10. PICK given : given = SumBalances(r[n]) - SumBalances(b)
  OBVIOUS
<1>11. Shared(m, 10000, n, given)
  BY <1>3, <1>9, <1>10 DEF Inv
<1>12. m - given \in 0 .. n - 1
  BY <1>2, <1>11, SharedAll
<1> QED BY <1>1, <1>9, <1>10, <1>12 DEF Inv

(* What distributeFee makes of the money: what the payer is charged goes   *)
(* to the rewarded, or what a docker took before, all but the remainders.  *)
LEMMA DistributeMoney ==
  ASSUME NEW v, Valued(v), NEW from \in Addr, NEW m \in Nat, NEW isDlvOK, NEW bvm,
         NEW charge \in BOOLEAN, charge = payFromSender(isDlvOK, bvm)
  PROVE  LET u == Lay(distributeFee(v, from, m, isDlvOK, bvm), v)
         IN /\ Valued(u)
            /\ SumBalances(v) - SumBalances(u) + (IF charge THEN 0 ELSE m) \in 0 .. Len(Strategy) - 1
            /\ \A a \in Addr : u[Bal(a)] >= v[Bal(a)] - (IF charge /\ a = from THEN m ELSE 0)
<1>1. PICK payers : payers = IF payFromSender(isDlvOK, bvm) THEN {from} ELSE {}
  OBVIOUS
<1>l. PICK lists : lists = enlisted(v, Takers)
  OBVIOUS
<1>k. PICK k : k = <<m, lists>>
  OBVIOUS
<1>2. PICK unlisted : unlisted = {a \in lists : "token" \notin v[Keys(a)]}
  OBVIOUS
<1>3. PICK K : K = {Bal(a) : a \in payers \cup Takers} \cup {Keys(a) : a \in unlisted}
  OBVIOUS
<1>4. PICK b : b = IF from \in payers THEN Plus(v, Bal(from), -m) ELSE v
  OBVIOUS
<1>5. PICK n \in Nat : n = Len(Strategy) /\ DOMAIN Strategy = 1 .. n
  BY TakersAreAccounts, SequenceDomain
<1>r. PICK r : Gifts!Folded(k, b, Strategy, 1 .. n) = r[n] /\ Gifts!Stepwise(k, b, Strategy, n, r)
  <2>1. PICK s : s = Strategy
    OBVIOUS
  <2>2. \E x : Gifts!Folded(k, b, s, 1 .. n) = x[n] /\ Gifts!Stepwise(k, b, s, n, x)
    BY Gifts!FoldStepwise
  <2> QED BY <2>1, <2>2
<1>6. /\ Gifts!Folded(k, b, Strategy, 1 .. n) = r[n]
      /\ r[0] = b
      /\ \A i \in 1 .. n : r[i] = giveStep(k, r[i - 1], Strategy[i])
  BY <1>r DEF Gifts!Stepwise
<1>7. PICK w : w = distributeFee(v, from, m, isDlvOK, bvm)
  OBVIOUS
<1>8. w = Writes(K, r[n])
  BY <1>1, <1>2, <1>3, <1>4, <1>5, <1>6, <1>7, <1>l, <1>k, DistributeUnfolded
<1>9. /\ Valued(b)
      /\ SumBalances(b) = SumBalances(v) - (IF charge THEN m ELSE 0)
      /\ \A a \in Addr : b[Bal(a)] = v[Bal(a)] - (IF charge /\ a = from THEN m ELSE 0)
  <2>1. SumBalances(v) \in Int /\ \A a \in Addr : v[Bal(a)] \in Int
    BY MoneyType DEF Valued
  <2>2. CASE charge
    <3>1. PICK z \in Int : z = -m
      OBVIOUS
    <3>2. b = Plus(v, Bal(from), z)
      BY <1>1, <1>4, <2>2, <3>1
    <3>3. /\ Valued(b) /\ SumBalances(b) = SumBalances(v) + z
          /\ b[Bal(from)] = v[Bal(from)] + z
          /\ \A a \in Addr \ {from} : b[Bal(a)] = v[Bal(a)]
      BY <3>2, MoneyPlus
    <3> QED BY <2>1, <2>2, <3>1, <3>3
  <2>3. CASE ~charge
    <3>1. b = v
      BY <1>1, <1>4, <2>3
    <3> QED BY <2>1, <2>3, <3>1
  <2> QED BY <2>2, <2>3
<1>10. PICK g : g = r[n]
  OBVIOUS
<1>11. /\ Valued(g)
       /\ m - (SumBalances(g) - SumBalances(b)) \in 0 .. n - 1
       /\ \A a \in Addr : g[Bal(a)] >= b[Bal(a)] /\ (a \notin Takers => g[Bal(a)] = b[Bal(a)])
  <2>1. Given(<<m, lists>>, b, r)
    BY <1>5, <1>6, <1>k DEF Given
  <2> QED BY <1>5, <1>9, <1>10, <2>1, GiftsMoney
<1>12. PICK u : u = Lay(w, v)
  OBVIOUS
<1>13. \A a \in Addr : Bal(a) \in DOMAIN u /\ u[Bal(a)] = g[Bal(a)]
  <2>1. SUFFICES ASSUME NEW a \in Addr PROVE Bal(a) \in DOMAIN u /\ u[Bal(a)] = g[Bal(a)]
    OBVIOUS
  <2>2. /\ Bal(a) \in DOMAIN u
        /\ u[Bal(a)] = IF Bal(a) \in K THEN g[Bal(a)] ELSE v[Bal(a)]
    BY <1>8, <1>10, <1>12 DEF Lay, Writes, Valued
  <2>3. CASE a \in Takers
    <3>1. Bal(a) \in K
      BY <1>3, <2>3
    <3> QED BY <2>2, <3>1
  <2>4. CASE charge /\ a = from
    <3>1. Bal(a) \in K
      BY <1>1, <1>3, <2>4
    <3> QED BY <2>2, <3>1
  <2>5. CASE a \notin Takers /\ ~(charge /\ a = from)
    <3>1. g[Bal(a)] = b[Bal(a)] /\ b[Bal(a)] = v[Bal(a)]
      BY <1>9, <1>11, <2>5 DEF Valued
    <3> QED BY <2>2, <3>1
  <2> QED BY <2>3, <2>4, <2>5
<1>14. Valued(u) /\ SumBalances(u) = SumBalances(g)
  BY <1>11, <1>13, MoneySame
<1>15. SumBalances(v) - SumBalances(u) + (IF charge THEN 0 ELSE m) \in 0 .. n - 1
  <2>1. SumBalances(v) \in Int /\ SumBalances(b) \in Int /\ SumBalances(g) \in Int
    BY <1>9, <1>11, MoneyType
  <2> QED BY <1>9, <1>11, <1>14, <2>1
<1>16. \A a \in Addr : u[Bal(a)] >= v[Bal(a)] - (IF charge /\ a = from THEN m ELSE 0)
  BY <1>9, <1>11, <1>13
<1> QED BY <1>5, <1>7, <1>12, <1>14, <1>15, <1>16

-----------------------------------------------------------------------------
(* There is one that is rewarded, so the remainders are not negative.      *)
LEMMA StrategyLength == Len(Strategy) - 1 \in Nat
<1>1. PICK n \in Nat : n = Len(Strategy)
  BY TakersAreAccounts, SequenceDomain
<1>2. n # 0
  BY <1>1, TakersAreAccounts, SequenceEmpty, SomeRewarded
<1> QED BY <1>1, <1>2

(* What has become of the money of v in u when the fees of the payers of D *)
(* were handed out: less than one unit for each rewarder and fee is lost,  *)
(* and none but the payers of D has less.                                  *)
Collected(v, u, charge, fees, D, i) ==
  /\ Valued(u)
  /\ SumBalances(v) - SumBalances(u) + (IF charge THEN 0 ELSE SumFunctionOnSet(fees, D))
       \in 0 .. i * (Len(Strategy) - 1)
  /\ \A a \in Addr : u[Bal(a)] >= v[Bal(a)] - (IF charge /\ a \in D THEN fees[a] ELSE 0)

(* One fee more.                                                           *)
LEMMA CollectedMore ==
  ASSUME NEW v, Valued(v), NEW u, NEW charge \in BOOLEAN, NEW fees, NEW D, IsFiniteSet(D),
         D \subseteq Addr, NEW a \in Addr, a \notin D, \A x \in D \cup {a} : fees[x] \in Nat,
         NEW i \in Nat, Collected(v, u, charge, fees, D, i), NEW isDlvOK, NEW bvm,
         charge = payFromSender(isDlvOK, bvm), NEW y,
         y = Lay(distributeFee(u, a, fees[a], isDlvOK, bvm), u)
  PROVE  Collected(v, y, charge, fees, D \cup {a}, i + 1)
<1>1. PICK m \in Nat : m = fees[a]
  OBVIOUS
<1>2. y = Lay(distributeFee(u, a, m, isDlvOK, bvm), u)
  BY <1>1
<1>3. /\ Valued(u)
      /\ SumBalances(v) - SumBalances(u) + (IF charge THEN 0 ELSE SumFunctionOnSet(fees, D))
           \in 0 .. i * (Len(Strategy) - 1)
      /\ \A b \in Addr : u[Bal(b)] >= v[Bal(b)] - (IF charge /\ b \in D THEN fees[b] ELSE 0)
  BY DEF Collected
<1>4. /\ Valued(y)
      /\ SumBalances(u) - SumBalances(y) + (IF charge THEN 0 ELSE m) \in 0 .. Len(Strategy) - 1
      /\ \A b \in Addr : y[Bal(b)] >= u[Bal(b)] - (IF charge /\ b = a THEN m ELSE 0)
  <2>1. PICK x : x = distributeFee(u, a, m, isDlvOK, bvm)
    OBVIOUS
  <2>2. /\ Valued(Lay(distributeFee(u, a, m, isDlvOK, bvm), u))
        /\ SumBalances(u) - SumBalances(Lay(distributeFee(u, a, m, isDlvOK, bvm), u))
             + (IF charge THEN 0 ELSE m) \in 0 .. Len(Strategy) - 1
        /\ \A b \in Addr : Lay(distributeFee(u, a, m, isDlvOK, bvm), u)[Bal(b)]
                             >= u[Bal(b)] - (IF charge /\ b = a THEN m ELSE 0)
    BY <1>3, DistributeMoney
  <2> QED BY <1>2, <2>2
<1>5. SumFunctionOnSet(fees, D \cup {a}) = SumFunctionOnSet(fees, D) + m
  BY <1>1, SumAdjoin
<1>6. SumFunctionOnSet(fees, D) \in Int
  BY SumType
<1>7. PICK c \in Nat : c = Len(Strategy) - 1
  BY StrategyLength
<1>8. SumBalances(v) - SumBalances(y)
        + (IF charge THEN 0 ELSE SumFunctionOnSet(fees, D \cup {a}))
        \in 0 .. (i + 1) * (Len(Strategy) - 1)
  <2>1. SumBalances(v) \in Int /\ SumBalances(u) \in Int /\ SumBalances(y) \in Int
    BY <1>3, <1>4, MoneyType
  <2>2. PICK z \in Nat : z = i * c
    BY <1>7
  <2>3. (i + 1) * c = z + c
    BY <1>7, <2>2
  <2>4. PICK s \in Int : s = SumFunctionOnSet(fees, D)
    BY <1>6
  <2>5. SumBalances(v) - SumBalances(u) + (IF charge THEN 0 ELSE s) \in 0 .. z
    BY <1>3, <1>7, <2>2, <2>4
  <2>6. SumBalances(u) - SumBalances(y) + (IF charge THEN 0 ELSE m) \in 0 .. c
    BY <1>4, <1>7
  <2>7. SumBalances(v) - SumBalances(y) + (IF charge THEN 0 ELSE s + m) \in 0 .. z + c
    BY <2>1, <2>5, <2>6
  <2> QED BY <1>5, <1>7, <2>3, <2>4, <2>7
<1>9. \A b \in Addr :
        y[Bal(b)] >= v[Bal(b)] - (IF charge /\ b \in D \cup {a} THEN fees[b] ELSE 0)
  <2>1. SUFFICES ASSUME NEW b \in Addr
                 PROVE  y[Bal(b)] >= v[Bal(b)] - (IF charge /\ b \in D \cup {a} THEN fees[b] ELSE 0)
    OBVIOUS
  <2>2. y[Bal(b)] \in Int /\ u[Bal(b)] \in Int /\ v[Bal(b)] \in Int
    BY <1>3, <1>4 DEF Valued
  <2>3. y[Bal(b)] >= u[Bal(b)] - (IF charge /\ b = a THEN m ELSE 0)
    BY <1>4
  <2>4. u[Bal(b)] >= v[Bal(b)] - (IF charge /\ b \in D THEN fees[b] ELSE 0)
    BY <1>3
  <2> QED BY <1>1, <2>2, <2>3, <2>4
<1> QED BY <1>4, <1>8, <1>9 DEF Collected

(* What emitFeeReceipts makes of the money, by induction over the payers.  *)
LEMMA EmitMoney ==
  ASSUME NEW v, Valued(v), NEW fees, IsFiniteSet(DOMAIN fees), DOMAIN fees \subseteq Addr,
         \A a \in DOMAIN fees : fees[a] \in Nat, NEW isDlvOK, NEW bvm,
         NEW charge \in BOOLEAN, charge = payFromSender(isDlvOK, bvm)
  PROVE  Collected(v, Lay(emitFeeReceipts(v, fees, isDlvOK, bvm), v), charge, fees,
                   DOMAIN fees, Cardinality(DOMAIN fees))
<1>1. PICK q : q = SetToSeq(DOMAIN fees)
  OBVIOUS
<1>2. PICK n \in Nat : n = Cardinality(DOMAIN fees)
  BY FS_CardinalityType
<1>3. /\ n = Len(q) /\ DOMAIN q = 1 .. n /\ \A i \in 1 .. n : q[i] \in DOMAIN fees
      /\ \A i, j \in 1 .. n : q[i] = q[j] => i = j
      /\ \A x \in DOMAIN fees : \E i \in 1 .. n : q[i] = x
  <2>1. /\ IsSequence(q) /\ Len(q) = n /\ \A i \in 1 .. n : q[i] \in DOMAIN fees
        /\ \A i, j \in 1 .. n : q[i] = q[j] => i = j
        /\ \A x \in DOMAIN fees : \E i \in 1 .. n : q[i] = x
    BY <1>1, <1>2, SetToSeqIsSequence
  <2> QED BY <2>1, SequenceDomain
<1>4. PICK k : k = <<v, fees, isDlvOK, bvm>>
  OBVIOUS
<1>5. PICK b : b = Empty
  OBVIOUS
<1>r. PICK r : FeeReceipts!Folded(k, b, q, 1 .. n) = r[n] /\ FeeReceipts!Stepwise(k, b, q, n, r)
  BY FeeReceipts!FoldStepwise
<1>6. /\ FeeReceipts!Folded(k, b, q, 1 .. n) = r[n]
      /\ r[0] = b
      /\ \A i \in 1 .. n : r[i] = feeStep(k, r[i - 1], q[i])
  BY <1>r DEF FeeReceipts!Stepwise
<1>7. emitFeeReceipts(v, fees, isDlvOK, bvm) = r[n]
  BY <1>1, <1>3, <1>4, <1>5, <1>6, EmitUnfolded
<1> DEFINE upTo(i) == {q[j] : j \in 1 .. i}
           Inv(i) == IsFiniteSet(upTo(i)) /\ Collected(v, Lay(r[i], v), charge, fees, upTo(i), i)
           N == {i \in Nat : i <= n => Inv(i)}
<1>8. Inv(0)
  <2>1. upTo(0) = {}
    OBVIOUS
  <2>2. DOMAIN b = {}
    BY <1>5, EmptySequence DEF Empty
  <2>3. \A a \in Addr : Bal(a) \in DOMAIN Lay(b, v) /\ Lay(b, v)[Bal(a)] = v[Bal(a)]
    BY <2>2 DEF Lay, Valued
  <2>4. Valued(Lay(b, v)) /\ SumBalances(Lay(b, v)) = SumBalances(v)
    BY <2>3, MoneySame
  <2>5. IsFiniteSet({})
    BY FS_EmptySet
  <2>6. SumFunctionOnSet(fees, {}) = 0
    <3>1. SumFunctionOnSet(fees, {}) = 0 * Cardinality({}) /\ Cardinality({}) = 0
      BY <2>5, SumConstant, FS_EmptySet
    <3> QED BY <3>1
  <2>7. SumBalances(v) \in Int /\ \A a \in Addr : v[Bal(a)] \in Int
    BY MoneyType DEF Valued
  <2>8. PICK c \in Int : c = Len(Strategy) - 1
    BY StrategyLength
  <2>9. Collected(v, Lay(b, v), charge, fees, {}, 0)
    BY <2>3, <2>4, <2>6, <2>7, <2>8 DEF Collected
  <2> QED BY <1>6, <2>1, <2>5, <2>9
<1>9. ASSUME NEW i \in Nat, i + 1 <= n, Inv(i) PROVE Inv(i + 1)
  <2>1. i + 1 \in 1 .. n /\ (i + 1) - 1 = i /\ i <= n
    BY <1>9
  <2>2. PICK w : w = r[i]
    OBVIOUS
  <2>3. PICK a \in DOMAIN fees : a = q[i + 1]
    BY <1>3, <2>1
  <2>4. PICK D : D = upTo(i)
    OBVIOUS
  <2>5. upTo(i + 1) = D \cup {a}
    <3>1. ASSUME NEW x PROVE x \in upTo(i + 1) <=> x \in D \cup {a}
      <4>1. \A j : j \in 1 .. i + 1 <=> j \in 1 .. i \/ j = i + 1
        OBVIOUS
      <4> QED BY <2>3, <2>4, <4>1
    <3> HIDE DEF upTo
    <3> QED BY <3>1
  <2>6. a \notin D
    <3>1. \A j \in 1 .. i : j \in 1 .. n /\ j # i + 1
      BY <2>1
    <3> QED BY <1>3, <2>1, <2>3, <2>4, <3>1
  <2>7. D \subseteq DOMAIN fees
    <3>1. \A j \in 1 .. i : j \in 1 .. n
      BY <2>1
    <3> QED BY <1>3, <2>4, <3>1
  <2>8. IsFiniteSet(D) /\ Collected(v, Lay(w, v), charge, fees, D, i)
    BY <1>9, <2>2, <2>4
  <2>9. PICK x : x = distributeFee(Lay(w, v), a, fees[a], isDlvOK, bvm)
    OBVIOUS
  <2>10. r[i + 1] = Lay(x, w)
    BY <1>4, <1>6, <2>1, <2>2, <2>3, <2>9 DEF feeStep
  <2> HIDE DEF upTo
  <2>11. PICK y : y = Lay(x, Lay(w, v))
    OBVIOUS
  <2>12. Lay(r[i + 1], v) = y
    BY <2>10, <2>11, LayLay
  <2>13. PICK u : u = Lay(w, v)
    OBVIOUS
  <2>14. Collected(v, y, charge, fees, D \cup {a}, i + 1)
    <3>1. \A z \in D \cup {a} : fees[z] \in Nat
      BY <2>7
    <3>2. a \in Addr /\ D \subseteq Addr
      BY <2>7
    <3>3. Collected(v, u, charge, fees, D, i) /\ IsFiniteSet(D)
      BY <2>8, <2>13
    <3>4. y = Lay(distributeFee(u, a, fees[a], isDlvOK, bvm), u)
      BY <2>9, <2>11, <2>13
    <3> QED BY <2>6, <3>1, <3>2, <3>3, <3>4, CollectedMore
  <2>15. IsFiniteSet(D \cup {a})
    BY <2>8, FS_AddElement
  <2> QED BY <2>5, <2>12, <2>14, <2>15
<1> HIDE DEF Inv
<1>10. 0 \in N
  BY <1>8
<1>11. ASSUME NEW i \in Nat, i \in N PROVE i + 1 \in N
  <2>1. SUFFICES ASSUME i + 1 <= n PROVE Inv(i + 1)
    OBVIOUS
  <2>2. i <= n
    BY <2>1
  <2>3. Inv(i)
    BY <1>11, <2>2
  <2> QED BY <1>9, <2>1, <2>3
<1> HIDE DEF N
<1>12. n \in N
  BY <1>10, <1>11, NumberInduction
<1>13. Inv(n)
  BY <1>12 DEF N
<1>14. upTo(n) = DOMAIN fees
  <2>1. ASSUME NEW x PROVE x \in upTo(n) <=> x \in DOMAIN fees
    BY <1>3
  <2> HIDE DEF upTo
  <2> QED BY <2>1
<1> HIDE DEF upTo
<1>15. Collected(v, Lay(r[n], v), charge, fees, upTo(n), n)
  BY <1>13 DEF Inv
<1> QED BY <1>2, <1>7, <1>14, <1>15

-----------------------------------------------------------------------------
(* What the delivery of a transaction costs, from v to u: less than one    *)
(* unit for each rewarder and fee is lost, and who is overdrawn by it pays *)
(* a fee for its failure.                                                  *)
Cost(v, u, ok, fees) ==
  /\ Valued(u)
  /\ IsFiniteSet(DOMAIN fees)
  /\ SumBalances(v) - SumBalances(u) \in 0 .. Cardinality(DOMAIN fees) * (Len(Strategy) - 1)
  /\ \A a \in Addr : u[Bal(a)] < 0 /\ u[Bal(a)] < v[Bal(a)] => ~ok /\ a \in DOMAIN fees

(* The fees of a transaction that was kept are collected: a docker took    *)
(* them before, a BVM knows that the sender has them.                      *)
LEMMA KeptCost ==
  ASSUME NEW v, Valued(v), NEW r, NEW from \in Addr, NEW bvm \in BOOLEAN, Paid(v, r, from, bvm),
         r.ok, NEW b, \A a \in Addr : Bal(a) \in DOMAIN b /\ b[Bal(a)] = r.view[Bal(a)],
         NEW fees, fees = r.fees, IsFiniteSet(DOMAIN fees), NEW u,
         Collected(b, u, bvm, fees, DOMAIN fees, Cardinality(DOMAIN fees))
  PROVE  Cost(v, u, TRUE, fees)
<1>1. PICK w : w = r.view
  OBVIOUS
<1>2. /\ Valued(w) /\ Solvent(v, w)
      /\ \A a \in DOMAIN fees : fees[a] \in Nat
      /\ SumBalances(w) = SumBalances(v) - (IF bvm THEN 0 ELSE SumFunction(fees))
      /\ bvm => \A a \in DOMAIN fees : w[Bal(a)] >= fees[a]
  BY <1>1 DEF Paid
<1>3. Valued(b) /\ SumBalances(b) = SumBalances(w) /\ \A a \in Addr : b[Bal(a)] = w[Bal(a)]
  <2>1. \A a \in Addr : Bal(a) \in DOMAIN b /\ b[Bal(a)] = w[Bal(a)]
    BY <1>1
  <2> QED BY <1>2, <2>1, MoneySame
<1>4. PICK D : D = DOMAIN fees
  OBVIOUS
<1>5. SumFunctionOnSet(fees, D) \in Int
  <2>1. IsFiniteSet(D) /\ \A a \in D : fees[a] \in Int
    BY <1>2, <1>4
  <2> QED BY <2>1, SumType
<1>6. SumFunction(fees) = SumFunctionOnSet(fees, D)
  BY <1>4 DEF SumFunction
<1>7. /\ Valued(u)
      /\ SumBalances(b) - SumBalances(u) + (IF bvm THEN 0 ELSE SumFunctionOnSet(fees, D))
           \in 0 .. Cardinality(D) * (Len(Strategy) - 1)
      /\ \A a \in Addr : u[Bal(a)] >= b[Bal(a)] - (IF bvm /\ a \in D THEN fees[a] ELSE 0)
  BY <1>4 DEF Collected
<1>8. SumBalances(v) - SumBalances(u) \in 0 .. Cardinality(D) * (Len(Strategy) - 1)
  <2>1. /\ SumBalances(v) \in Int /\ SumBalances(w) \in Int /\ SumBalances(b) \in Int
        /\ SumBalances(u) \in Int
    BY <1>2, <1>3, <1>7, MoneyType
  <2>2. SumBalances(v) - SumBalances(u)
          = SumBalances(b) - SumBalances(u) + (IF bvm THEN 0 ELSE SumFunctionOnSet(fees, D))
    BY <1>2, <1>3, <1>5, <1>6, <2>1
  <2> QED BY <1>7, <2>2
<1>9. ASSUME NEW a \in Addr, u[Bal(a)] < 0 PROVE ~(u[Bal(a)] < v[Bal(a)])
  <2>1. /\ u[Bal(a)] \in Int /\ w[Bal(a)] \in Int /\ v[Bal(a)] \in Int
        /\ b[Bal(a)] = w[Bal(a)]
    BY <1>2, <1>3, <1>7 DEF Valued
  <2>2. u[Bal(a)] >= b[Bal(a)] - (IF bvm /\ a \in D THEN fees[a] ELSE 0)
    BY <1>7
  <2>3. CASE bvm /\ a \in D
    <3>1. w[Bal(a)] >= fees[a] /\ fees[a] \in Nat
      BY <1>2, <1>4, <2>3
    <3> QED BY <1>9, <2>1, <2>2, <2>3, <3>1
  <2>4. CASE ~(bvm /\ a \in D)
    <3>1. u[Bal(a)] >= w[Bal(a)] /\ w[Bal(a)] < 0
      BY <1>9, <2>1, <2>2, <2>4
    <3>2. w[Bal(a)] >= v[Bal(a)]
      BY <1>2, <3>1 DEF Solvent
    <3> QED BY <2>1, <3>1, <3>2
  <2> QED BY <2>3, <2>4
<1> QED BY <1>4, <1>7, <1>8, <1>9 DEF Cost

(* The fees of a transaction that failed are charged.                      *)
LEMMA FailedCost ==
  ASSUME NEW v, Valued(v), NEW fees, IsFiniteSet(DOMAIN fees), NEW u,
         Collected(v, u, TRUE, fees, DOMAIN fees, Cardinality(DOMAIN fees))
  PROVE  Cost(v, u, FALSE, fees)
<1>1. PICK D : D = DOMAIN fees
  OBVIOUS
<1>2. /\ Valued(u)
      /\ SumBalances(v) - SumBalances(u) + 0 \in 0 .. Cardinality(D) * (Len(Strategy) - 1)
      /\ \A a \in Addr : u[Bal(a)] >= v[Bal(a)] - (IF a \in D THEN fees[a] ELSE 0)
  BY <1>1 DEF Collected
<1>3. SumBalances(v) \in Int /\ SumBalances(u) \in Int
  BY <1>2, MoneyType
<1>4. SumBalances(v) - SumBalances(u) \in 0 .. Cardinality(D) * (Len(Strategy) - 1)
  BY <1>2, <1>3
<1>5. ASSUME NEW a \in Addr, u[Bal(a)] < v[Bal(a)] PROVE a \in D
  <2>1. u[Bal(a)] \in Int /\ v[Bal(a)] \in Int
    BY <1>2 DEF Valued
  <2> QED BY <1>2, <1>5, <2>1
<1> QED BY <1>1, <1>2, <1>4, <1>5 DEF Cost

(* What costs nothing.                                                     *)
LEMMA NoCost ==
  ASSUME NEW v, Valued(v), NEW u, \A a \in Addr : Bal(a) \in DOMAIN u /\ u[Bal(a)] = v[Bal(a)],
         NEW ok, NEW fees, DOMAIN fees = {}
  PROVE  Cost(v, u, ok, fees)
<1>1. Valued(u) /\ SumBalances(u) = SumBalances(v) /\ SumBalances(v) \in Int
  BY MoneySame, MoneyType
<1>2. \A a \in Addr : ~(u[Bal(a)] < v[Bal(a)])
  BY DEF Valued
<1>3. IsFiniteSet({}) /\ Cardinality({}) = 0
  BY FS_EmptySet
<1>4. PICK c \in Nat : c = Len(Strategy) - 1
  BY StrategyLength
<1>5. SumBalances(v) - SumBalances(u) \in 0 .. 0 * c
  BY <1>1
<1> QED BY <1>1, <1>2, <1>3, <1>4, <1>5 DEF Cost

(* What a cost is, from contents with the same balances.                   *)
LEMMA CostSame ==
  ASSUME NEW v, Valued(v), NEW w, \A a \in Addr : Bal(a) \in DOMAIN w /\ w[Bal(a)] = v[Bal(a)],
         NEW u, NEW ok, NEW fees, Cost(w, u, ok, fees)
  PROVE  Cost(v, u, ok, fees)
<1>1. SumBalances(w) = SumBalances(v)
  BY MoneySame
<1> QED BY <1>1 DEF Cost

(* The entry of a transaction that runs and what it costs.                 *)
Costs(v, u, p, q) ==
  \E e : /\ q.list = Append(p.list, e)
         /\ e.code = "failed" \/ e.code = "ok"
         /\ Cost(v, u, e.code = "ok", e.fees)

(* So much does a transaction that runs cost.                              *)
LEMMA RunCosts ==
  ASSUME NEW d, NEW p, NEW tx, IsTx(tx), NEW v, v = Lay(p.buffer, d), Readable(v), Valued(v),
         NEW q, q = runDeliverTx(d, p, tx), NEW u, u = Lay(q.buffer, d)
  PROVE  Costs(v, u, p, q)
<1>1. PICK nonce : nonce = SetAccountNonce(v, tx.sender, tx.nonce)
  OBVIOUS
<1>2. PICK seen : seen = Lay(nonce, v)
  OBVIOUS
<1>3. PICK r : r = InvokeTx(seen, tx)
  OBVIOUS
<1>4. PICK kept : kept = IF r.ok THEN Writes(r.keys, r.view) ELSE Empty
  OBVIOUS
<1>5. PICK base : base = Lay(kept, seen)
  OBVIOUS
<1>6. PICK rcpts : rcpts = emitFeeReceipts(base, r.fees, r.ok, isBVM(tx))
  OBVIOUS
<1>7. PICK state : state = IF r.ok \/ r.fees # Empty THEN Lay(rcpts, kept) ELSE Empty
  OBVIOUS
<1>8. PICK e : e = Entry(tx, IF r.ok THEN "ok" ELSE "failed", r.fees, state)
  OBVIOUS
<1>9. q.buffer = Lay(state, Lay(nonce, p.buffer)) /\ q.list = Append(p.list, e)
  BY <1>1, <1>2, <1>3, <1>4, <1>5, <1>6, <1>7, <1>8 DEF runDeliverTx, rolledBack, nonceKept
<1>10. e.code = (IF r.ok THEN "ok" ELSE "failed") /\ e.fees = r.fees
  BY <1>8 DEF Entry
<1>11. DOMAIN nonce \subseteq {Nonce(tx.sender), Keys(tx.sender)}
  BY <1>1 DEF SetAccountNonce
<1>12. \A a \in Addr : Bal(a) \in DOMAIN seen /\ seen[Bal(a)] = v[Bal(a)]
  BY <1>2, <1>11, Kinds DEF Lay, Valued
<1>13. Valued(seen)
  BY <1>12, MoneySame
<1>14. Readable(seen)
  <2>1. \A k \in DOMAIN v : k \in DOMAIN seen
    BY <1>2 DEF Lay
  <2>2. Vals \in DOMAIN v /\ Chains \in DOMAIN v
    BY KeysOfAll DEF Readable
  <2>3. Vals \notin DOMAIN nonce /\ Chains \notin DOMAIN nonce
    BY <1>11, Kinds
  <2>4. seen[Vals] = v[Vals] /\ seen[Chains] = v[Chains]
    BY <1>2, <2>2, <2>3 DEF Lay
  <2> QED BY <2>1, <2>4 DEF Readable
<1>15. PICK from \in Addr : from = tx.sender
  BY KeysOfAll DEF IsTx
<1>16. PICK bvm \in BOOLEAN : bvm = isBVM(tx)
  <2>1. isBVM(tx) \in BOOLEAN
    BY DEF isBVM
  <2>2. PICK b : b = isBVM(tx)
    OBVIOUS
  <2> QED BY <2>1, <2>2
<1>17. PICK fees : fees = r.fees
  OBVIOUS
<1>18. Paid(seen, r, from, bvm)
  BY <1>3, <1>13, <1>15, <1>16, InvokePaid
<1>19. /\ DOMAIN fees \subseteq {from, Payee} /\ DOMAIN fees \subseteq Addr
       /\ \A a \in DOMAIN fees : fees[a] \in Nat
  BY <1>15, <1>17, <1>18, KeysOfAll DEF Paid
<1>20. IsFiniteSet(DOMAIN fees)
  BY <1>19, PayersFinite
<1>21. u = Lay(state, seen)
  BY <1>2, <1>9, LayLay
<1>22. ASSUME Valued(base), r.ok \/ r.fees # Empty
       PROVE  Collected(base, u, ~r.ok \/ bvm, fees, DOMAIN fees, Cardinality(DOMAIN fees))
  <2>1. u = Lay(rcpts, base)
    BY <1>5, <1>7, <1>21, <1>22, LayLay
  <2>2. PICK ok : ok = r.ok
    OBVIOUS
  <2>3. PICK charge \in BOOLEAN : charge = payFromSender(ok, bvm)
    BY DEF payFromSender
  <2>4. rcpts = emitFeeReceipts(base, fees, ok, bvm)
    BY <1>6, <1>16, <1>17, <2>2
  <2>5. Collected(base, Lay(emitFeeReceipts(base, fees, ok, bvm), base), charge, fees,
                  DOMAIN fees, Cardinality(DOMAIN fees))
    BY <1>19, <1>20, <1>22, <2>3, EmitMoney
  <2>6. charge = (~r.ok \/ bvm)
    BY <2>2, <2>3 DEF payFromSender
  <2> QED BY <2>1, <2>4, <2>5, <2>6
<1>23. CASE r.ok
  <2>1. \A k \in DOMAIN seen : base[k] = r.view[k]
    BY <1>2, <1>3, <1>4, <1>5, <1>14, <1>23, KeptOfTx
  <2>2. \A k \in DOMAIN seen : k \in DOMAIN base
    BY <1>5 DEF Lay
  <2>3. \A a \in Addr : Bal(a) \in DOMAIN base /\ base[Bal(a)] = r.view[Bal(a)]
    BY <1>12, <2>1, <2>2
  <2>4. Valued(base)
    <3>1. Valued(r.view)
      BY <1>18 DEF Paid
    <3> QED BY <2>3, <3>1 DEF Valued
  <2>5. (~r.ok \/ bvm) = bvm
    BY <1>23
  <2>6. Collected(base, u, bvm, fees, DOMAIN fees, Cardinality(DOMAIN fees))
    BY <1>22, <1>23, <2>4, <2>5
  <2>7. Cost(seen, u, TRUE, fees)
    BY <1>13, <1>17, <1>18, <1>20, <1>23, <2>3, <2>6, KeptCost
  <2>8. Cost(v, u, TRUE, fees)
    BY <1>12, <2>7, CostSame
  <2>9. e.code = "ok" /\ (e.code = "ok") = TRUE /\ e.fees = fees
    BY <1>10, <1>17, <1>23
  <2> QED BY <1>9, <2>8, <2>9 DEF Costs
<1>24. CASE ~r.ok
  <2>1. base = seen
    <3>1. kept = Empty
      BY <1>4, <1>24
    <3> QED BY <1>2, <1>5, <3>1, LayEmpty
  <2>2. Cost(seen, u, FALSE, fees)
    <3>1. CASE r.fees # Empty
      <4>1. (~r.ok \/ bvm) = TRUE
        BY <1>24
      <4>2. Collected(seen, u, TRUE, fees, DOMAIN fees, Cardinality(DOMAIN fees))
        BY <1>13, <1>22, <2>1, <3>1, <4>1
      <4> QED BY <1>13, <1>20, <4>2, FailedCost
    <3>2. CASE r.fees = Empty
      <4>1. state = Empty
        BY <1>7, <1>24, <3>2
      <4>2. u = seen
        BY <1>2, <1>21, <4>1, LayEmpty
      <4>3. DOMAIN fees = {}
        BY <1>17, <3>2, EmptySequence DEF Empty
      <4> QED BY <1>12, <1>13, <4>2, <4>3, NoCost
    <3> QED BY <3>1, <3>2
  <2>3. Cost(v, u, FALSE, fees)
    BY <1>12, <2>2, CostSame
  <2>4. e.code = "failed" /\ (e.code = "ok") = FALSE /\ e.fees = fees
    BY <1>10, <1>17, <1>24
  <2> QED BY <1>9, <2>3, <2>4 DEF Costs
<1> QED BY <1>23, <1>24

-----------------------------------------------------------------------------
(* A list of entries that pay finitely many fees each.                     *)
Billed(l) == IsSequence(l) /\ \A i \in 1 .. Len(l) : IsFiniteSet(DOMAIN l[i].fees)

(* The number of fees in a list is a number.                               *)
LEMMA FeesInType ==
  ASSUME NEW l, Billed(l)
  PROVE  FeesIn(l) \in Nat
<1>1. PICK n \in Nat : n = Len(l) /\ DOMAIN l = 1 .. n
  BY SequenceDomain DEF Billed
<1>2. PICK D : D = 1 .. n
  OBVIOUS
<1>3. PICK f : f = [i \in D |-> Cardinality(DOMAIN l[i].fees)]
  OBVIOUS
<1>4. IsFiniteSet(D)
  BY <1>2, FS_Interval
<1>5. \A i \in D : f[i] \in Nat
  BY <1>1, <1>2, <1>3, FS_CardinalityType DEF Billed
<1>6. SumFunctionOnSet(f, D) \in Nat
  BY <1>4, <1>5, SumBound
<1>7. DOMAIN f = D /\ FeesIn(l) = SumFunction(f)
  BY <1>1, <1>2, <1>3 DEF FeesIn
<1> QED BY <1>6, <1>7 DEF SumFunction

(* One entry more.                                                         *)
LEMMA FeesInAppend ==
  ASSUME NEW l, Billed(l), NEW e, IsFiniteSet(DOMAIN e.fees)
  PROVE  /\ Billed(Append(l, e))
         /\ FeesIn(Append(l, e)) = FeesIn(l) + Cardinality(DOMAIN e.fees)
<1>1. PICK n \in Nat : n = Len(l) /\ DOMAIN l = 1 .. n
  BY SequenceDomain DEF Billed
<1>2. PICK m : m = Append(l, e)
  OBVIOUS
<1>3. /\ IsSequence(m) /\ Len(m) = n + 1 /\ \A i \in 1 .. n : m[i] = l[i]
      /\ m[n + 1] = e
  BY <1>1, <1>2, SequenceAppend DEF Billed
<1>4. DOMAIN m = 1 .. n + 1
  BY <1>3, SequenceDomain
<1>5. Billed(m)
  <2>1. ASSUME NEW i \in 1 .. n + 1 PROVE IsFiniteSet(DOMAIN m[i].fees)
    <3>1. i \in 1 .. n \/ i = n + 1
      OBVIOUS
    <3> QED BY <1>1, <1>3, <3>1 DEF Billed
  <2> QED BY <1>3, <2>1 DEF Billed
<1>6. PICK f : f = [i \in DOMAIN l |-> Cardinality(DOMAIN l[i].fees)]
  OBVIOUS
<1>7. PICK h : h = [i \in DOMAIN m |-> Cardinality(DOMAIN m[i].fees)]
  OBVIOUS
<1>8. /\ DOMAIN f = 1 .. n /\ DOMAIN h = 1 .. n + 1
      /\ h[n + 1] = Cardinality(DOMAIN e.fees)
  BY <1>1, <1>3, <1>4, <1>6, <1>7
<1>9. \A i \in 1 .. n : f[i] \in Int /\ h[i] = f[i]
  <2>1. SUFFICES ASSUME NEW i \in 1 .. n PROVE f[i] \in Int /\ h[i] = f[i]
    OBVIOUS
  <2>2. i \in 1 .. n + 1
    OBVIOUS
  <2>3. f[i] = Cardinality(DOMAIN l[i].fees) /\ h[i] = f[i]
    BY <1>1, <1>3, <1>4, <1>6, <1>7, <2>2
  <2>4. PICK S : S = DOMAIN l[i].fees
    OBVIOUS
  <2>5. Cardinality(S) \in Nat
    BY <1>1, <2>4, FS_CardinalityType DEF Billed
  <2> QED BY <2>3, <2>4, <2>5
<1>10. h[n + 1] \in Int
  BY <1>8, FS_CardinalityType
<1>11. SumFunction(h) = SumFunction(f) + h[n + 1]
  BY <1>8, <1>9, <1>10, SumAppended
<1> QED BY <1>2, <1>5, <1>6, <1>7, <1>8, <1>11 DEF FeesIn

(* A list without entries has no fees.                                     *)
LEMMA FeesInNone == Billed(<< >>) /\ FeesIn(<< >>) = 0
<1>1. PICK l : l = << >>
  OBVIOUS
<1>2. IsSequence(l) /\ Len(l) = 0 /\ DOMAIN l = {}
  BY <1>1, EmptySequence
<1>3. PICK f : f = [i \in DOMAIN l |-> Cardinality(DOMAIN l[i].fees)]
  OBVIOUS
<1>4. DOMAIN f = {}
  BY <1>2, <1>3
<1>5. SumFunction(f) = 0
  BY <1>4, SumOfNothing
<1>6. Billed(l)
  BY <1>2 DEF Billed
<1> QED BY <1>1, <1>3, <1>5, <1>6 DEF FeesIn

(* Lists of entries, one for each block.                                   *)
AllBilled(H) == IsSequence(H) /\ \A h \in 1 .. Len(H) : Billed(H[h])

(* The number of fees in lists is a number.                                *)
LEMMA FeesInAllType ==
  ASSUME NEW H, AllBilled(H)
  PROVE  FeesInAll(H) \in Nat
<1>1. PICK n \in Nat : n = Len(H) /\ DOMAIN H = 1 .. n
  BY SequenceDomain DEF AllBilled
<1>2. PICK D : D = 1 .. n
  OBVIOUS
<1>3. PICK f : f = [h \in D |-> FeesIn(H[h])]
  OBVIOUS
<1>4. IsFiniteSet(D)
  BY <1>2, FS_Interval
<1>5. \A h \in D : f[h] \in Nat
  BY <1>1, <1>2, <1>3, FeesInType DEF AllBilled
<1>6. SumFunctionOnSet(f, D) \in Nat
  BY <1>4, <1>5, SumBound
<1>7. DOMAIN f = D /\ FeesInAll(H) = SumFunction(f)
  BY <1>1, <1>2, <1>3 DEF FeesInAll
<1> QED BY <1>6, <1>7 DEF SumFunction

(* One list more.                                                          *)
LEMMA FeesInAllAppend ==
  ASSUME NEW H, AllBilled(H), NEW l, Billed(l)
  PROVE  AllBilled(Append(H, l)) /\ FeesInAll(Append(H, l)) = FeesInAll(H) + FeesIn(l)
<1>1. PICK n \in Nat : n = Len(H) /\ DOMAIN H = 1 .. n
  BY SequenceDomain DEF AllBilled
<1>2. PICK M : M = Append(H, l)
  OBVIOUS
<1>3. /\ IsSequence(M) /\ Len(M) = n + 1 /\ \A i \in 1 .. n : M[i] = H[i]
      /\ M[n + 1] = l
  BY <1>1, <1>2, SequenceAppend DEF AllBilled
<1>4. DOMAIN M = 1 .. n + 1
  BY <1>3, SequenceDomain
<1>5. AllBilled(M)
  <2>1. ASSUME NEW h \in 1 .. n + 1 PROVE Billed(M[h])
    <3>1. h \in 1 .. n \/ h = n + 1
      OBVIOUS
    <3> QED BY <1>1, <1>3, <3>1 DEF AllBilled
  <2> QED BY <1>3, <2>1 DEF AllBilled
<1>6. PICK f : f = [h \in DOMAIN H |-> FeesIn(H[h])]
  OBVIOUS
<1>7. PICK g : g = [h \in DOMAIN M |-> FeesIn(M[h])]
  OBVIOUS
<1>8. /\ DOMAIN f = 1 .. n /\ DOMAIN g = 1 .. n + 1 /\ g[n + 1] = FeesIn(l)
      /\ FeesIn(l) \in Int
  BY <1>1, <1>3, <1>4, <1>6, <1>7, FeesInType
<1>9. \A h \in 1 .. n : f[h] \in Int /\ g[h] = f[h]
  <2>1. SUFFICES ASSUME NEW h \in 1 .. n PROVE f[h] \in Int /\ g[h] = f[h]
    OBVIOUS
  <2>2. h \in 1 .. n + 1
    OBVIOUS
  <2>3. f[h] = FeesIn(H[h]) /\ g[h] = f[h]
    BY <1>1, <1>3, <1>4, <1>6, <1>7, <2>2
  <2>4. FeesIn(H[h]) \in Nat
    BY <1>1, FeesInType DEF AllBilled
  <2> QED BY <2>3, <2>4
<1>10. SumFunction(g) = SumFunction(f) + g[n + 1]
  BY <1>8, <1>9, SumAppended
<1> QED BY <1>2, <1>5, <1>6, <1>7, <1>8, <1>10 DEF FeesInAll

-----------------------------------------------------------------------------
(* The money of the contents v, when the blocks before have made the lists *)
(* H and the block that is delivered has made l so far: that of genesis    *)
(* but for what the divisions of so many fees have lost.                   *)
Accounted(H, l, v) ==
  /\ Valued(v) /\ AllBilled(H) /\ Billed(l)
  /\ SumBalances(Genesis) \in Int
  /\ SumBalances(Genesis) - SumBalances(v)
       \in 0 .. (FeesInAll(H) + FeesIn(l)) * (Len(Strategy) - 1)

(* What less than one unit for each rewarder and fee adds up to.           *)
LEMMA LossesAdd ==
  ASSUME NEW a \in Nat, NEW b \in Nat, NEW x \in 0 .. a * (Len(Strategy) - 1),
         NEW y \in 0 .. b * (Len(Strategy) - 1)
  PROVE  x + y \in 0 .. (a + b) * (Len(Strategy) - 1)
<1>1. PICK c \in Nat : c = Len(Strategy) - 1
  BY StrategyLength
<1>2. PICK k \in Nat : k = a * c
  OBVIOUS
<1>3. PICK m \in Nat : m = b * c
  OBVIOUS
<1>4. (a + b) * c = k + m
  BY <1>2, <1>3
<1>5. x \in 0 .. k /\ y \in 0 .. m
  BY <1>1, <1>2, <1>3
<1>6. x + y \in 0 .. k + m
  BY <1>5
<1> QED BY <1>1, <1>4, <1>6

(* An entry more and what it cost.                                         *)
LEMMA AccountedMore ==
  ASSUME NEW H, NEW l, NEW v, Accounted(H, l, v), NEW u, NEW ok, NEW e, Cost(v, u, ok, e.fees)
  PROVE  Accounted(H, Append(l, e), u)
<1>1. PICK a \in Nat : a = FeesInAll(H) + FeesIn(l)
  BY FeesInAllType, FeesInType DEF Accounted
<1>2. PICK D : D = DOMAIN e.fees
  OBVIOUS
<1>3. PICK b \in Nat : b = Cardinality(D)
  BY <1>2, FS_CardinalityType DEF Cost
<1>4. Billed(Append(l, e)) /\ FeesIn(Append(l, e)) = FeesIn(l) + b
  BY <1>2, <1>3, FeesInAppend DEF Accounted, Cost
<1>5. FeesInAll(H) + FeesIn(Append(l, e)) = a + b
  <2>1. FeesInAll(H) \in Nat /\ FeesIn(l) \in Nat
    BY FeesInAllType, FeesInType DEF Accounted
  <2> QED BY <1>1, <1>4, <2>1
<1>6. PICK x : x = SumBalances(Genesis) - SumBalances(v)
  OBVIOUS
<1>7. PICK y : y = SumBalances(v) - SumBalances(u)
  OBVIOUS
<1>8. x \in 0 .. a * (Len(Strategy) - 1) /\ y \in 0 .. b * (Len(Strategy) - 1)
  BY <1>1, <1>2, <1>3, <1>6, <1>7 DEF Accounted, Cost
<1>9. x + y \in 0 .. (a + b) * (Len(Strategy) - 1)
  BY <1>8, LossesAdd
<1>10. SumBalances(Genesis) - SumBalances(u) = x + y
  <2>1. SumBalances(Genesis) \in Int /\ SumBalances(v) \in Int /\ SumBalances(u) \in Int
    BY MoneyType DEF Accounted, Cost
  <2> QED BY <1>6, <1>7, <2>1
<1> QED BY <1>4, <1>5, <1>9, <1>10 DEF Accounted, Cost

(* As much money and as many fees.                                         *)
LEMMA AccountedSame ==
  ASSUME NEW H, NEW l, NEW v, Accounted(H, l, v), NEW u, Valued(u),
         SumBalances(u) = SumBalances(v)
  PROVE  Accounted(H, l, u)
BY DEF Accounted

(* An entry without fees leaves the account.                               *)
LEMMA AccountedEntry ==
  ASSUME NEW H, NEW l, NEW v, Accounted(H, l, v), NEW e, DOMAIN e.fees = {}
  PROVE  Accounted(H, Append(l, e), v)
<1>1. Cost(v, v, TRUE, e.fees)
  BY NoCost DEF Accounted, Valued
<1> QED BY <1>1, AccountedMore

(* The next block continues the account.                                   *)
LEMMA AccountedCommit ==
  ASSUME NEW H, NEW l, NEW v, Accounted(H, l, v), NEW G,
         G = IF l = << >> THEN H ELSE Append(H, l)
  PROVE  Accounted(G, << >>, v)
<1>1. PICK none : none = << >>
  OBVIOUS
<1>2. Billed(none) /\ FeesIn(none) = 0
  BY <1>1, FeesInNone
<1>3. FeesInAll(H) \in Nat /\ FeesIn(l) \in Nat
  BY FeesInAllType, FeesInType DEF Accounted
<1>4. AllBilled(G) /\ FeesInAll(G) = FeesInAll(H) + FeesIn(l)
  <2>1. CASE l = none
    BY <1>1, <1>2, <1>3, <2>1 DEF Accounted
  <2>2. CASE l # none
    BY <1>1, <2>2, FeesInAllAppend DEF Accounted
  <2> QED BY <2>1, <2>2
<1>5. FeesInAll(G) + FeesIn(none) = FeesInAll(H) + FeesIn(l)
  BY <1>2, <1>3, <1>4
<1>6. Accounted(G, none, v)
  BY <1>2, <1>4, <1>5 DEF Accounted
<1> QED BY <1>1, <1>6

-----------------------------------------------------------------------------
(* The places of the hash lists H and of one more list.                    *)
LEMMA RanAtAppend ==
  ASSUME NEW H, IsSequence(H), NEW l, IsSequence(l), NEW e, NEW a
  PROVE  LET old   == Append(H, l)
             new   == Append(H, Append(l, e))
             place == <<Len(H) + 1, Len(l) + 1>>
         IN /\ RanAt(new, a) = RanAt(old, a)
                 \cup (IF e.tx.sender = a /\ e.code # "rejected" THEN {place} ELSE {})
            /\ \A x \in RanAt(old, a) : /\ NonceAt(new, x) = NonceAt(old, x)
                                        /\ Precedes(x, place)
                                        /\ ~Precedes(place, x)
            /\ ~Precedes(place, place)
            /\ NonceAt(new, place) = e.tx.nonce
<1> DEFINE n == Len(H)
           m == Len(l)
           place == <<n + 1, m + 1>>
           here == e.tx.sender = a /\ e.code # "rejected"
<1>a. PICK el : el = Append(l, e)
  OBVIOUS
<1>b. PICK old : old = Append(H, l)
  OBVIOUS
<1>c. PICK new : new = Append(H, el)
  OBVIOUS
<1>1. /\ n \in Nat /\ m \in Nat
      /\ DOMAIN l = 1 .. m /\ DOMAIN el = 1 .. m + 1
      /\ \A i \in 1 .. m : el[i] = l[i]
      /\ el[m + 1] = e
  <2>1. /\ IsSequence(el) /\ Len(el) = m + 1
        /\ \A i \in 1 .. m : el[i] = l[i]
        /\ el[m + 1] = e
    BY <1>a, SequenceAppend
  <2>2. DOMAIN el = 1 .. m + 1
    BY <2>1, SequenceDomain
  <2>3. n \in Nat /\ m \in Nat /\ DOMAIN l = 1 .. m
    BY SequenceDomain
  <2> QED BY <2>1, <2>2, <2>3
<1>2. /\ DOMAIN old = 1 .. n + 1 /\ old[n + 1] = l
      /\ \A i \in 1 .. n : old[i] = H[i]
  <2>1. /\ IsSequence(old) /\ Len(old) = n + 1
        /\ \A i \in 1 .. n : old[i] = H[i]
        /\ old[n + 1] = l
    BY <1>b, SequenceAppend
  <2>2. DOMAIN old = 1 .. n + 1
    BY <2>1, SequenceDomain
  <2> QED BY <2>1, <2>2
<1>3. /\ DOMAIN new = 1 .. n + 1 /\ new[n + 1] = el
      /\ \A i \in 1 .. n : new[i] = H[i]
  <2>1. /\ IsSequence(new) /\ Len(new) = n + 1
        /\ \A i \in 1 .. n : new[i] = H[i]
        /\ new[n + 1] = el
    BY <1>c, SequenceAppend
  <2>2. DOMAIN new = 1 .. n + 1
    BY <2>1, SequenceDomain
  <2> QED BY <2>1, <2>2
<1>4. ASSUME NEW ls, NEW x
      PROVE  x \in RanAt(ls, a) <=>
               \E h \in DOMAIN ls : \E i \in DOMAIN ls[h] :
                 x = <<h, i>> /\ ls[h][i].tx.sender = a /\ ls[h][i].code # "rejected"
  <2>1. x \in UNION {{h} \X DOMAIN ls[h] : h \in DOMAIN ls}
          <=> \E h \in DOMAIN ls : \E i \in DOMAIN ls[h] : x = <<h, i>>
    OBVIOUS
  <2> QED BY <2>1 DEF RanAt
<1>5. ASSUME NEW h \in 1 .. n + 1, NEW i \in DOMAIN old[h]
      PROVE  /\ i \in DOMAIN new[h] /\ new[h][i] = old[h][i]
             /\ Precedes(<<h, i>>, place) /\ ~Precedes(place, <<h, i>>)
  <2>1. CASE h = n + 1
    <3>1. i \in 1 .. m
      BY <1>1, <1>2, <1>5, <2>1
    <3> QED BY <1>1, <1>2, <1>3, <2>1, <3>1 DEF Precedes
  <2>2. CASE h # n + 1
    <3>1. h \in 1 .. n
      BY <1>1, <2>2
    <3> QED BY <1>1, <1>2, <1>3, <3>1 DEF Precedes
  <2> QED BY <2>1, <2>2
<1>6. ASSUME NEW h \in 1 .. n + 1, NEW i \in DOMAIN new[h], <<h, i>> # place
      PROVE  i \in DOMAIN old[h] /\ new[h][i] = old[h][i]
  <2>1. CASE h = n + 1
    <3>1. i \in 1 .. m + 1 /\ i # m + 1
      BY <1>1, <1>3, <1>6, <2>1
    <3>2. i \in 1 .. m
      BY <1>1, <3>1
    <3> QED BY <1>1, <1>2, <1>3, <2>1, <3>2
  <2>2. CASE h # n + 1
    <3>1. h \in 1 .. n
      BY <1>1, <2>2
    <3> QED BY <1>2, <1>3, <1>6, <3>1
  <2> QED BY <2>1, <2>2
<1>7. /\ n + 1 \in DOMAIN new /\ m + 1 \in DOMAIN new[n + 1]
      /\ new[n + 1][m + 1] = e
  BY <1>1, <1>3
<1>8. ASSUME NEW x PROVE x \in RanAt(new, a) <=> x \in RanAt(old, a) \/ (here /\ x = place)
  <2>1. ASSUME x \in RanAt(new, a) PROVE x \in RanAt(old, a) \/ (here /\ x = place)
    <3>0. PICK h \in 1 .. n + 1 : \E i \in DOMAIN new[h] :
            x = <<h, i>> /\ new[h][i].tx.sender = a /\ new[h][i].code # "rejected"
      BY <1>3, <1>4, <2>1
    <3>1. PICK i \in DOMAIN new[h] :
            x = <<h, i>> /\ new[h][i].tx.sender = a /\ new[h][i].code # "rejected"
      BY <3>0
    <3>2. CASE x = place
      <4>1. h = n + 1 /\ i = m + 1
        BY <3>1, <3>2
      <4> QED BY <1>7, <3>1, <3>2, <4>1
    <3>3. CASE x # place
      BY <1>2, <1>4, <1>6, <3>1, <3>3
    <3> QED BY <3>2, <3>3
  <2>2. ASSUME x \in RanAt(old, a) PROVE x \in RanAt(new, a)
    <3>0. PICK h \in 1 .. n + 1 : \E i \in DOMAIN old[h] :
            x = <<h, i>> /\ old[h][i].tx.sender = a /\ old[h][i].code # "rejected"
      BY <1>2, <1>4, <2>2
    <3>1. PICK i \in DOMAIN old[h] :
            x = <<h, i>> /\ old[h][i].tx.sender = a /\ old[h][i].code # "rejected"
      BY <3>0
    <3> QED BY <1>3, <1>4, <1>5, <3>1
  <2>3. ASSUME here, x = place PROVE x \in RanAt(new, a)
    BY <1>4, <1>7, <2>3
  <2> QED BY <2>1, <2>2, <2>3
<1>9. RanAt(new, a) = RanAt(old, a) \cup (IF here THEN {place} ELSE {})
  BY <1>8
<1>10. ASSUME NEW x \in RanAt(old, a)
       PROVE  NonceAt(new, x) = NonceAt(old, x) /\ Precedes(x, place) /\ ~Precedes(place, x)
  <2>0. PICK h \in 1 .. n + 1 : \E i \in DOMAIN old[h] : x = <<h, i>>
    BY <1>2, <1>4
  <2>1. PICK i \in DOMAIN old[h] : x = <<h, i>>
    BY <2>0
  <2> QED BY <1>5, <2>1 DEF NonceAt
<1>11. ~Precedes(place, place) /\ NonceAt(new, place) = e.tx.nonce
  <2>1. place[1] = n + 1 /\ place[2] = m + 1
    OBVIOUS
  <2> QED BY <1>1, <1>7, <2>1 DEF Precedes, NonceAt
<1> QED BY <1>a, <1>b, <1>c, <1>9, <1>10, <1>11

-----------------------------------------------------------------------------
(* A list more that is empty has no places.                                *)
LEMMA RanAtEmpty ==
  ASSUME NEW H, IsSequence(H), NEW a
  PROVE  LET old == H
             new == Append(H, << >>)
         IN /\ RanAt(new, a) = RanAt(old, a)
            /\ \A x \in RanAt(old, a) : NonceAt(new, x) = NonceAt(old, x)
<1> DEFINE n == Len(H)
<1>1. PICK new : new = Append(H, << >>)
  OBVIOUS
<1>2. PICK none : none = << >>
  OBVIOUS
<1>3. /\ n \in Nat
      /\ DOMAIN H = 1 .. n /\ DOMAIN new = 1 .. n + 1 /\ new[n + 1] = none
      /\ \A i \in 1 .. n : new[i] = H[i]
  <2>1. /\ IsSequence(new) /\ Len(new) = n + 1
        /\ \A i \in 1 .. n : new[i] = H[i]
        /\ new[n + 1] = none
    BY <1>1, <1>2, SequenceAppend
  <2>2. DOMAIN new = 1 .. n + 1
    BY <2>1, SequenceDomain
  <2>3. n \in Nat /\ DOMAIN H = 1 .. n
    BY SequenceDomain
  <2> QED BY <2>1, <2>2, <2>3
<1>4. DOMAIN none = {}
  BY <1>2, EmptySequence
<1>5. ASSUME NEW ls, NEW x
      PROVE  x \in RanAt(ls, a) <=>
               \E h \in DOMAIN ls : \E i \in DOMAIN ls[h] :
                 x = <<h, i>> /\ ls[h][i].tx.sender = a /\ ls[h][i].code # "rejected"
  <2>1. x \in UNION {{h} \X DOMAIN ls[h] : h \in DOMAIN ls}
          <=> \E h \in DOMAIN ls : \E i \in DOMAIN ls[h] : x = <<h, i>>
    OBVIOUS
  <2> QED BY <2>1 DEF RanAt
<1>6. \A h \in 1 .. n : h \in 1 .. n + 1
  BY <1>3
<1>7. \A h \in 1 .. n + 1 : h \in 1 .. n \/ h = n + 1
  BY <1>3
<1> HIDE DEF n
<1>8. ASSUME NEW x PROVE x \in RanAt(new, a) <=> x \in RanAt(H, a)
  BY <1>3, <1>4, <1>5, <1>6, <1>7
<1>9. ASSUME NEW x \in RanAt(H, a) PROVE NonceAt(new, x) = NonceAt(H, x)
  <2>1. PICK h \in 1 .. n : \E i \in DOMAIN H[h] : x = <<h, i>>
    BY <1>3, <1>5
  <2>2. PICK i \in DOMAIN H[h] : x = <<h, i>>
    BY <2>1
  <2> QED BY <1>3, <2>2 DEF NonceAt
<1> QED BY <1>1, <1>8, <1>9

(* An account's nonces stay in order while no transaction of its own runs. *)
LEMMA OrderKept ==
  ASSUME NEW L, NEW M, NEW a, NEW n, InOrder(L, a, n), RanAt(M, a) = RanAt(L, a),
         \A x \in RanAt(L, a) : NonceAt(M, x) = NonceAt(L, x)
  PROVE  InOrder(M, a, n)
<1>1. {NonceAt(M, x) : x \in RanAt(M, a)} = {NonceAt(L, x) : x \in RanAt(L, a)}
  OBVIOUS
<1> QED BY <1>1 DEF InOrder

(* One that runs with the next nonce carries the order on.                 *)
LEMMA OrderGoesOn ==
  ASSUME NEW L, NEW M, NEW a, NEW n \in Nat, InOrder(L, a, n), NEW place,
         RanAt(M, a) = RanAt(L, a) \cup {place},
         \A x \in RanAt(L, a) :
           /\ NonceAt(M, x) = NonceAt(L, x)
           /\ Precedes(x, place)
           /\ ~Precedes(place, x),
         ~Precedes(place, place), NonceAt(M, place) = n + 1
  PROVE  InOrder(M, a, n + 1)
<1>1. \A x \in RanAt(L, a) : NonceAt(L, x) \in 1 .. n
  BY DEF InOrder
<1>2. {NonceAt(M, x) : x \in RanAt(M, a)} = 1 .. n + 1
  <2>1. {NonceAt(M, x) : x \in RanAt(M, a)} = {NonceAt(L, x) : x \in RanAt(L, a)} \cup {n + 1}
    OBVIOUS
  <2>2. {NonceAt(L, x) : x \in RanAt(L, a)} = 1 .. n
    BY DEF InOrder
  <2>3. (1 .. n) \cup {n + 1} = 1 .. n + 1
    OBVIOUS
  <2> QED BY <2>1, <2>2, <2>3
<1>3. ASSUME NEW x \in RanAt(M, a), NEW y \in RanAt(M, a), Precedes(x, y)
      PROVE  NonceAt(M, x) < NonceAt(M, y)
  <2>1. CASE x \in RanAt(L, a) /\ y \in RanAt(L, a)
    BY <1>3, <2>1 DEF InOrder
  <2>2. CASE x \in RanAt(L, a) /\ y = place
    BY <1>1, <2>2
  <2> QED BY <1>3, <2>1, <2>2
<1> QED BY <1>2, <1>3 DEF InOrder

(* What one more entry of the block's hash list means for an account whose *)
(* last nonce was n.                                                       *)
LEMMA EntryInOrder ==
  ASSUME NEW H, IsSequence(H), NEW l, IsSequence(l), NEW e, NEW a, NEW n \in Nat,
         InOrder(Append(H, l), a, n)
  PROVE  /\ e.tx.sender # a \/ e.code = "rejected" => InOrder(Append(H, Append(l, e)), a, n)
         /\ e.tx.sender = a /\ e.code # "rejected" /\ e.tx.nonce = n + 1
              => InOrder(Append(H, Append(l, e)), a, n + 1)
<1>1. PICK old : old = Append(H, l)
  OBVIOUS
<1>2. PICK new : new = Append(H, Append(l, e))
  OBVIOUS
<1>3. PICK place : place = <<Len(H) + 1, Len(l) + 1>>
  OBVIOUS
<1>4. /\ RanAt(new, a) = RanAt(old, a)
           \cup (IF e.tx.sender = a /\ e.code # "rejected" THEN {place} ELSE {})
      /\ \A x \in RanAt(old, a) : /\ NonceAt(new, x) = NonceAt(old, x)
                                  /\ Precedes(x, place)
                                  /\ ~Precedes(place, x)
      /\ ~Precedes(place, place)
      /\ NonceAt(new, place) = e.tx.nonce
  BY <1>1, <1>2, <1>3, RanAtAppend
<1>5. CASE e.tx.sender # a \/ e.code = "rejected"
  <2>1. RanAt(new, a) = RanAt(old, a)
    BY <1>4, <1>5
  <2>2. InOrder(new, a, n)
    BY <1>1, <1>4, <2>1, OrderKept
  <2> QED BY <1>2, <1>5, <2>2
<1>6. CASE e.tx.sender = a /\ e.code # "rejected"
  <2>1. RanAt(new, a) = RanAt(old, a) \cup {place}
    BY <1>4, <1>6
  <2>2. e.tx.nonce = n + 1 => InOrder(new, a, n + 1)
    BY <1>1, <1>4, <2>1, OrderGoesOn
  <2> QED BY <1>2, <1>6, <2>2
<1> QED BY <1>5, <1>6

-----------------------------------------------------------------------------
(* The contents v, of which a block has made the hash list l so far, after *)
(* the lists H of the blocks before.                                       *)
Ordered(H, l, v) ==
  /\ IsSequence(H) /\ IsSequence(l)
  /\ \A a \in Acct : v[Nonce(a)] \in Nat /\ InOrder(Append(H, l), a, v[Nonce(a)])

Listed(v) ==
  /\ \A a \in Acct : v[Nonce(a)] # 0 => "nonce" \in v[Keys(a)]
  /\ \A a \in Acct \cup Contract \cup {Payee} : NamesToken(v[Keys(a)])

(* From d to v, in the block of height h: whose balance has changed is     *)
(* listed, unless it takes rewards before the fork.                        *)
Entered(h, d, v) ==
  \A a \in Addr :
    /\ NamesToken(d[Keys(a)]) => NamesToken(v[Keys(a)])
    /\ v[Bal(a)] # d[Bal(a)] => NamesToken(v[Keys(a)]) \/ (a \in Takers /\ V2_0_1_13780(h))

(* Of one step and the next.                                               *)
LEMMA EnteredThen ==
  ASSUME NEW h, NEW d, NEW v, NEW u, Entered(h, d, v), Entered(h, v, u)
  PROVE  Entered(h, d, u)
BY DEF Entered

Good(H, l, v) ==
  /\ Readable(v)
  /\ v[Mines] \in Seq(Contract)
  /\ Ordered(H, l, v)
  /\ Listed(v)
  /\ Accounted(H, l, v)

(* One entry more leaves a number of side chains more, if it wrote it.     *)
LEMMA ChainsLeftAppend ==
  ASSUME NEW d, NEW l, IsSequence(l), NEW e
  PROVE  ChainsLeft(d, Append(l, e))
           = ChainsLeft(d, l) \cup (IF Chains \in DOMAIN e.state THEN {e.state[Chains]} ELSE {})
<1>1. PICK m : m = Append(l, e)
  OBVIOUS
<1>2. Range(m) = Range(l) \cup {e}
  <2>1. /\ IsSequence(m) /\ Len(m) = Len(l) + 1 /\ Len(l) \in Nat
        /\ \A i \in 1 .. Len(l) : m[i] = l[i]
        /\ m[Len(l) + 1] = e
        /\ DOMAIN l = 1 .. Len(l) /\ DOMAIN m = 1 .. Len(m)
    BY <1>1, SequenceAppend, SequenceDomain
  <2>2. \A i \in 1 .. Len(m) : i \in 1 .. Len(l) \/ i = Len(l) + 1
    BY <2>1
  <2>3. (\A i \in 1 .. Len(l) : i \in 1 .. Len(m)) /\ Len(l) + 1 \in 1 .. Len(m)
    BY <2>1
  <2> QED BY <2>1, <2>2, <2>3 DEF Range
<1> QED BY <1>1, <1>2 DEF ChainsLeft

(* No entry leaves only the number the block began with.                   *)
LEMMA ChainsLeftNone ==
  ASSUME NEW d
  PROVE  ChainsLeft(d, << >>) = {d[Chains]}
<1>1. Range(<< >>) = {}
  BY EmptySequence DEF Range
<1> QED BY <1>1 DEF ChainsLeft

(* Of the numbers L of side chains, from the one before the block to the   *)
(* one now, n is noted to report: one more than the last but one.          *)
ChainsReported(L, before, now, n) ==
  /\ now \in L
  /\ \A m \in L : m \in Nat /\ m <= now
  /\ IF now = before
     THEN n = 0
     ELSE /\ n \in Nat /\ n - 1 \in L /\ n - 1 < now
          /\ \A m \in L : m < now => m < n

(* What the progress p notes for EndBlock to report is what the block has  *)
(* changed of the committed contents d.                                    *)
Reports(d, v, p) ==
  /\ d[Vals] \in Nat /\ d[Chains] \in Nat
  /\ v[Vals] >= d[Vals] /\ v[Chains] >= d[Chains]
  /\ p.validators = IF v[Vals] > d[Vals] THEN v[Vals] ELSE 0
  /\ ChainsReported(ChainsLeft(d, p.list), d[Chains], v[Chains], p.scGenesis)

(* A transaction that runs with the next nonce keeps contents good.        *)
LEMMA RanGood ==
  ASSUME NEW H, NEW p, NEW q, NEW v, NEW u, NEW tx, tx.sender \in Acct,
         tx.nonce = v[Nonce(tx.sender)] + 1, Good(H, p.list, v), Ran(v, u, p, q, tx),
         Costs(v, u, p, q)
  PROVE  Good(H, q.list, u)
<1>1. PICK e : Hashed(v, u, p, q, tx, e)
  BY DEF Ran
<1>2. /\ q.list = Append(p.list, e) /\ e.tx.sender = tx.sender /\ e.tx.nonce = tx.nonce
      /\ e.code # "rejected"
  BY <1>1 DEF Hashed
<1>3. Readable(u)
  BY DEF Ran, Grown, Readable
<1>4. u[Mines] \in Seq(Contract)
  BY DEF Ran, Good
<1>5. IsSequence(H) /\ IsSequence(p.list) /\ IsSequence(q.list)
  BY <1>2, SequenceAppend DEF Good, Ordered
<1>6. ASSUME NEW a \in Acct
      PROVE  u[Nonce(a)] \in Nat /\ InOrder(Append(H, q.list), a, u[Nonce(a)])
  <2>1. PICK n \in Nat : n = v[Nonce(a)]
    BY DEF Good, Ordered
  <2>2. PICK l : l = p.list
    OBVIOUS
  <2>3. InOrder(Append(H, l), a, n) /\ IsSequence(l)
    BY <1>5, <2>1, <2>2 DEF Good, Ordered
  <2>4. /\ tx.sender # a => InOrder(Append(H, Append(l, e)), a, n)
        /\ tx.sender = a /\ tx.nonce = n + 1 => InOrder(Append(H, Append(l, e)), a, n + 1)
    BY <1>2, <1>5, <2>3, EntryInOrder
  <2>5. u[Nonce(a)] = IF a = tx.sender THEN n + 1 ELSE n
    BY <2>1 DEF Ran
  <2> QED BY <1>2, <2>1, <2>2, <2>4, <2>5
<1>7. Listed(u)
  <2>1. \A a \in Addr : /\ "nonce" \in v[Keys(a)] => "nonce" \in u[Keys(a)]
                        /\ NamesToken(v[Keys(a)]) => NamesToken(u[Keys(a)])
    <3>1. \A a \in Addr : Keys(a) \in DOMAIN v
      BY KeysOfAll DEF Good, Readable
    <3> QED BY <3>1 DEF Ran, ListsKept
  <2>2. ASSUME NEW a \in Acct, u[Nonce(a)] # 0 PROVE "nonce" \in u[Keys(a)]
    <3>1. v[Nonce(a)] # 0 => "nonce" \in v[Keys(a)]
      BY DEF Good, Listed
    <3>2. CASE a = tx.sender
      BY <2>1, <3>1, <3>2, KeysOfAll DEF Ran
    <3>3. CASE a # tx.sender
      BY <2>1, <2>2, <3>1, <3>3, KeysOfAll DEF Ran
    <3> QED BY <3>2, <3>3
  <2>3. ASSUME NEW a \in Acct \cup Contract \cup {Payee} PROVE NamesToken(u[Keys(a)])
    <3>1. a \in Addr
      BY DEF Addr
    <3> QED BY <2>1, <3>1 DEF Good, Listed
  <2> QED BY <2>2, <2>3 DEF Listed
<1>8. Accounted(H, q.list, u)
  <2>1. PICK c : q.list = Append(p.list, c) /\ Cost(v, u, c.code = "ok", c.fees)
    BY DEF Costs
  <2>2. PICK ok : ok = (c.code = "ok")
    OBVIOUS
  <2>3. PICK l : l = p.list
    OBVIOUS
  <2>4. Accounted(H, l, v)
    BY <2>3 DEF Good
  <2>5. Cost(v, u, ok, c.fees)
    BY <2>1, <2>2
  <2>6. Accounted(H, Append(l, c), u)
    BY <2>4, <2>5, AccountedMore
  <2> QED BY <2>1, <2>3, <2>6
<1> QED BY <1>3, <1>4, <1>5, <1>6, <1>7, <1>8 DEF Good, Ordered

(* It enters whom it pays.                                                 *)
LEMMA RanEntered ==
  ASSUME NEW p, NEW q, NEW v, NEW u, NEW tx, Readable(v), Ran(v, u, p, q, tx), Listed(u)
  PROVE  u[World] = v[World] /\ Entered(blockHeight(v), v, u)
<1>1. ASSUME NEW a \in Addr
      PROVE  /\ NamesToken(v[Keys(a)]) => NamesToken(u[Keys(a)])
             /\ u[Bal(a)] # v[Bal(a)] =>
                  NamesToken(u[Keys(a)]) \/ (a \in Takers /\ V2_0_1_13780(blockHeight(v)))
  <2>1. Keys(a) \in DOMAIN v
    BY KeysOfAll DEF Readable
  <2>2. NamesToken(v[Keys(a)]) => NamesToken(u[Keys(a)])
    BY <2>1 DEF Ran, ListsKept
  <2>3. a \in Acct \cup {Payee} => NamesToken(u[Keys(a)])
    BY DEF Listed
  <2> QED BY <2>2, <2>3 DEF Ran
<1>2. u[World] = v[World]
  BY DEF Ran
<1> QED BY <1>1, <1>2 DEF Entered

(* What is reported of the side chains after a transaction.                *)
LEMMA ChainsReportedThen ==
  ASSUME NEW L, NEW before \in Nat, NEW now \in Nat, NEW n, ChainsReported(L, before, now, n),
         NEW then \in Nat, then >= now, now >= before, NEW M,
         M = L \cup {then} \/ (M = L /\ then = now),
         NEW m, m = IF then > now THEN now + 1 ELSE n
  PROVE  ChainsReported(M, before, then, m)
<1>1. CASE then > now
  <2>1. M = L \cup {then} /\ m = now + 1
    BY <1>1
  <2>2. \A x \in L : x \in Nat /\ x <= now
    BY DEF ChainsReported
  <2>3. now \in L
    BY DEF ChainsReported
  <2>4. m \in Nat /\ m - 1 = now /\ then # before
    BY <1>1, <2>1
  <2>5. \A x \in M : x \in Nat /\ x <= then
    BY <1>1, <2>1, <2>2
  <2>6. \A x \in M : x < then => x < m
    BY <2>1, <2>2
  <2> QED BY <1>1, <2>1, <2>3, <2>4, <2>5, <2>6 DEF ChainsReported
<1>2. CASE then = now
  <2>1. m = n
    BY <1>2
  <2>2. M = L
    BY <1>2 DEF ChainsReported
  <2> QED BY <1>2, <2>1, <2>2
<1> QED BY <1>1, <1>2

(* It keeps what is to be reported.                                        *)
LEMMA RanReports ==
  ASSUME NEW d, NEW p, IsSequence(p.list), NEW q, NEW v, NEW u, NEW tx, Readable(v),
         Reports(d, v, p), Ran(v, u, p, q, tx)
  PROVE  Reports(d, u, q)
<1>1. /\ Grown(v[Vals], u[Vals], p.validators, q.validators, u[Vals])
      /\ Grown(v[Chains], u[Chains], p.scGenesis, q.scGenesis, v[Chains] + 1)
  BY DEF Ran
<1>2. /\ v[Vals] \in Nat /\ d[Vals] \in Nat /\ v[Vals] >= d[Vals]
      /\ v[Chains] \in Nat /\ d[Chains] \in Nat /\ v[Chains] >= d[Chains]
  BY DEF Readable, Reports
<1>3. u[Vals] >= d[Vals] /\ q.validators = IF u[Vals] > d[Vals] THEN u[Vals] ELSE 0
  BY <1>1, <1>2 DEF Reports, Grown
<1>4. PICK e : Hashed(v, u, p, q, tx, e)
  BY DEF Ran
<1>5. PICK L : L = ChainsLeft(d, p.list)
  OBVIOUS
<1>6. PICK M : M = ChainsLeft(d, q.list)
  OBVIOUS
<1>7. PICK now \in Nat : now = v[Chains]
  BY <1>2
<1>8. PICK then \in Nat : then = u[Chains] /\ then >= now
  BY <1>1, <1>7 DEF Grown
<1>9. M = L \cup {then} \/ (M = L /\ then = now)
  <2>1. q.list = Append(p.list, e)
    BY <1>4 DEF Hashed
  <2>2. M = L \cup (IF Chains \in DOMAIN e.state THEN {e.state[Chains]} ELSE {})
    BY <1>5, <1>6, <2>1, ChainsLeftAppend
  <2> QED BY <1>4, <1>7, <1>8, <2>2 DEF Hashed
<1>10. PICK before \in Nat : before = d[Chains]
  BY <1>2
<1>11. PICK n : n = p.scGenesis
  OBVIOUS
<1>12. PICK m : m = q.scGenesis
  OBVIOUS
<1>13. m = IF then > now THEN now + 1 ELSE n
  BY <1>1, <1>7, <1>8, <1>11, <1>12 DEF Grown
<1>14. ChainsReported(L, before, now, n) /\ now >= before
  BY <1>2, <1>5, <1>7, <1>10, <1>11 DEF Reports
<1>15. ChainsReported(M, before, then, m)
  BY <1>8, <1>9, <1>13, <1>14, ChainsReportedThen
<1>16. then >= before
  BY <1>8, <1>14
<1> QED BY <1>2, <1>3, <1>6, <1>8, <1>10, <1>12, <1>15, <1>16 DEF Reports

-----------------------------------------------------------------------------
(* From v to u no money appears or is lost and no balance is overdrawn.    *)
Steady(v, u) == Valued(u) /\ SumBalances(u) = SumBalances(v) /\ Solvent(v, u)

(* What the calls of BeginBlock and EndBlock for a contract change, and    *)
(* the hash list before and after.                                         *)
Systemic(v, u, l, m) ==
  /\ DOMAIN u = DOMAIN v
  /\ \A k \in DOMAIN v : k[1] \notin {"mines", "lose", "bal"} => u[k] = v[k]
  /\ u[Mines] \in Seq(Contract)
  /\ \A a \in Addr : u[Bal(a)] # v[Bal(a)] => a \in Contract \cup {Payee}
  /\ Steady(v, u)
  /\ m = l \/ \E e : /\ m = Append(l, e) /\ e.tx.sender = NoAddr /\ DOMAIN e.fees = {}
                     /\ Chains \notin DOMAIN e.state

(* What was in order stays so when only a system transaction is written.   *)
LEMMA SystemicGood ==
  ASSUME NEW H, NEW v, NEW u, NEW l, NEW m, Good(H, l, v), Systemic(v, u, l, m)
  PROVE  Good(H, m, u) /\ u[Vals] = v[Vals] /\ u[Chains] = v[Chains]
<1>1. /\ \A a \in Acct : u[Nonce(a)] = v[Nonce(a)]
      /\ \A a \in Addr : u[Keys(a)] = v[Keys(a)]
      /\ u[Vals] = v[Vals] /\ u[Chains] = v[Chains]
  BY KeysOfAll, Kinds DEF Good, Readable, Systemic
<1>2. Readable(u) /\ u[Mines] \in Seq(Contract)
  BY <1>1 DEF Good, Readable, Systemic
<1>3. Listed(u)
  <2>1. \A a \in Acct \cup Contract \cup {Payee} : a \in Addr
    BY DEF Addr
  <2> QED BY <1>1, <2>1 DEF Good, Listed
<1>4. Ordered(H, m, u)
  <2>1. CASE m = l
    BY <1>1, <2>1 DEF Good, Ordered
  <2>2. CASE m # l
    <3>1. PICK e : m = Append(l, e) /\ e.tx.sender = NoAddr
      BY <2>2 DEF Systemic
    <3>2. IsSequence(H) /\ IsSequence(l) /\ IsSequence(m)
      BY <3>1, SequenceAppend DEF Good, Ordered
    <3>3. ASSUME NEW a \in Acct
          PROVE  u[Nonce(a)] \in Nat /\ InOrder(Append(H, m), a, u[Nonce(a)])
      <4>1. PICK n \in Nat : n = v[Nonce(a)] /\ InOrder(Append(H, l), a, n)
        BY DEF Good, Ordered
      <4>2. e.tx.sender # a
        BY <3>1, AddrAssumption, KeysOfAll
      <4>3. InOrder(Append(H, Append(l, e)), a, n)
        BY <3>2, <4>1, <4>2, EntryInOrder
      <4> QED BY <1>1, <3>1, <4>1, <4>3
    <3> QED BY <3>2, <3>3 DEF Ordered
  <2> QED BY <2>1, <2>2
<1>5. Accounted(H, m, u)
  <2>1. Accounted(H, l, u)
    BY AccountedSame DEF Good, Systemic, Steady
  <2>2. CASE m = l
    BY <2>1, <2>2
  <2>3. CASE m # l
    <3>1. PICK e : m = Append(l, e) /\ DOMAIN e.fees = {}
      BY <2>3 DEF Systemic
    <3> QED BY <2>1, <3>1, AccountedEntry
  <2> QED BY <2>2, <2>3
<1> QED BY <1>1, <1>2, <1>3, <1>4, <1>5 DEF Good

(* It pays only accounts that are listed, and makes no side chain.         *)
LEMMA SystemicEntered ==
  ASSUME NEW H, NEW d, NEW v, NEW u, NEW l, NEW m, Good(H, l, v), Systemic(v, u, l, m), NEW h
  PROVE  /\ u[World] = v[World] /\ Entered(h, v, u)
         /\ ChainsLeft(d, m) = ChainsLeft(d, l)
<1>1. /\ \A a \in Addr : u[Keys(a)] = v[Keys(a)]
      /\ u[World] = v[World]
  BY KeysOfAll, Kinds DEF Good, Readable, Systemic
<1>2. \A a \in Contract \cup {Payee} : NamesToken(v[Keys(a)])
  BY DEF Good, Listed
<1>3. Entered(h, v, u)
  BY <1>1, <1>2 DEF Systemic, Entered
<1>4. ChainsLeft(d, m) = ChainsLeft(d, l)
  <2>1. SUFFICES ASSUME NEW e, m = Append(l, e), Chains \notin DOMAIN e.state
                 PROVE  ChainsLeft(d, m) = ChainsLeft(d, l)
    BY DEF Systemic
  <2>2. IsSequence(l)
    BY DEF Good, Ordered
  <2>3. ChainsLeft(d, Append(l, e))
          = ChainsLeft(d, l) \cup (IF Chains \in DOMAIN e.state THEN {e.state[Chains]} ELSE {})
    BY ONLY <2>2, ChainsLeftAppend
  <2> QED BY <2>1, <2>3
<1> QED BY <1>1, <1>3, <1>4

(* What a call for a contract writes over v.                               *)
LEMMA WriteSystemic ==
  ASSUME NEW v, Readable(v), v[Mines] \in Seq(Contract), NEW l, IsSequence(l), NEW w,
         DOMAIN w \subseteq {Mines} \cup {Lose(c) : c \in Contract}
                              \cup {Bal(a) : a \in Contract \cup {Payee}},
         Mines \in DOMAIN w => w[Mines] \in Seq(Contract), Steady(v, Lay(w, v))
  PROVE  Systemic(v, Lay(w, v), l, l \o SystemEntry(w))
<1> DEFINE u == Lay(w, v)
<1>1. Contract \cup {Payee} \subseteq Addr /\ Key \subseteq DOMAIN v /\ Mines \in DOMAIN v
  BY KeysOfAll DEF Addr, Readable
<1>2. DOMAIN w \subseteq DOMAIN v
  BY <1>1, KeysOfAll
<1>3. DOMAIN u = DOMAIN v /\ \A k \in DOMAIN v : u[k] = IF k \in DOMAIN w THEN w[k] ELSE v[k]
  BY <1>2 DEF Lay
<1> HIDE DEF u
<1>4. \A k \in DOMAIN v : k[1] \notin {"mines", "lose", "bal"} => u[k] = v[k]
  BY <1>3, Kinds
<1>5. u[Mines] \in Seq(Contract)
  BY <1>1, <1>3
<1>6. ASSUME NEW a \in Addr, u[Bal(a)] # v[Bal(a)] PROVE a \in Contract \cup {Payee}
  <2>1. Bal(a) \in DOMAIN v
    BY <1>1, KeysOfAll
  <2>2. Bal(a) \in DOMAIN w
    BY <1>3, <1>6, <2>1
  <2> QED BY <2>2, Kinds
<1>7. CASE w = Empty
  <2>1. l \o SystemEntry(w) = l
    BY <1>7, SequenceConcatEmpty DEF SystemEntry
  <2> QED BY <1>3, <1>4, <1>5, <1>6, <2>1 DEF Systemic, u
<1>8. CASE w # Empty
  <2>1. PICK e : e = Entry(SystemCall, "ok", Empty, w)
    OBVIOUS
  <2>2. e.tx.sender = NoAddr /\ DOMAIN e.fees = {} /\ Chains \notin DOMAIN e.state
    <3>1. e.tx.sender = NoAddr /\ e.fees = Empty /\ e.state = w
      BY <2>1 DEF Entry, SystemCall
    <3>2. DOMAIN Empty = {}
      BY EmptySequence DEF Empty
    <3>3. Chains \notin DOMAIN w
      BY Kinds
    <3> QED BY <3>1, <3>2, <3>3
  <2>3. l \o SystemEntry(w) = Append(l, e)
    BY <1>8, <2>1, SequenceAppended DEF SystemEntry
  <2>4. \E x : /\ l \o SystemEntry(w) = Append(l, x) /\ x.tx.sender = NoAddr
               /\ DOMAIN x.fees = {} /\ Chains \notin DOMAIN x.state
    BY <2>2, <2>3
  <2> QED BY <1>3, <1>4, <1>5, <1>6, <2>4 DEF Systemic, u
<1> QED BY <1>7, <1>8

(* Good contents over d, with nothing to report changed since v and C, and *)
(* no balance overdrawn or changed that is not listed.                     *)
Kind(H, d, x, v, C) ==
  /\ Good(H, x.list, Lay(x.buffer, d))
  /\ ChainsLeft(d, x.list) = C
  /\ Lay(x.buffer, d)[World] = v[World]
  /\ Entered(blockHeight(d), v, Lay(x.buffer, d))
  /\ Lay(x.buffer, d)[Vals] = v[Vals]
  /\ Lay(x.buffer, d)[Chains] = v[Chains]
  /\ Valued(v) /\ Solvent(v, Lay(x.buffer, d))

(* The write of one key by a system transaction.                           *)
LEMMA WriteKind ==
  ASSUME NEW H, NEW d, NEW x, NEW v0, NEW C, Kind(H, d, x, v0, C), NEW w,
         DOMAIN w \subseteq {Mines} \cup {Lose(c) : c \in Contract}
                              \cup {Bal(a) : a \in Contract \cup {Payee}},
         Mines \in DOMAIN w => w[Mines] \in Seq(Contract),
         Steady(Lay(x.buffer, d), Lay(w, Lay(x.buffer, d)))
  PROVE  Kind(H, d, [buffer |-> Lay(w, x.buffer), list |-> x.list \o SystemEntry(w)], v0, C)
<1>1. PICK y : y = [buffer |-> Lay(w, x.buffer), list |-> x.list \o SystemEntry(w)]
  OBVIOUS
<1>2. PICK v : v = Lay(x.buffer, d)
  OBVIOUS
<1>3. PICK l : l = x.list
  OBVIOUS
<1>4. y.list = l \o SystemEntry(w) /\ Lay(y.buffer, d) = Lay(w, v)
  BY <1>1, <1>2, <1>3, LayLay
<1>5. /\ Good(H, l, v) /\ v[Vals] = v0[Vals] /\ v[Chains] = v0[Chains]
      /\ ChainsLeft(d, l) = C /\ v[World] = v0[World] /\ Entered(blockHeight(d), v0, v)
      /\ Valued(v0) /\ Solvent(v0, v) /\ Steady(v, Lay(w, v))
  BY <1>2, <1>3 DEF Kind
<1>6. Systemic(v, Lay(w, v), l, l \o SystemEntry(w))
  BY <1>5, WriteSystemic DEF Good, Ordered
<1>7. PICK u : u = Lay(w, v)
  OBVIOUS
<1>8. PICK m : m = l \o SystemEntry(w)
  OBVIOUS
<1>9. Good(H, m, u) /\ u[Vals] = v[Vals] /\ u[Chains] = v[Chains]
  BY <1>5, <1>6, <1>7, <1>8, SystemicGood
<1>10. Solvent(v0, u)
  <2>1. Valued(v)
    BY <1>5 DEF Good, Accounted
  <2> QED BY <1>5, <1>7, <2>1, SolventThen DEF Steady
<1>11. ChainsLeft(d, m) = C /\ u[World] = v0[World] /\ Entered(blockHeight(d), v0, u)
  <2>1. PICK h : h = blockHeight(d)
    OBVIOUS
  <2>2. u[World] = v[World] /\ Entered(h, v, u) /\ ChainsLeft(d, m) = ChainsLeft(d, l)
    <3>1. Good(H, l, v) /\ Systemic(v, u, l, m)
      BY <1>5, <1>6, <1>7, <1>8
    <3> QED BY ONLY <3>1, SystemicEntered
  <2>3. Entered(h, v0, u)
    BY <1>5, <2>1, <2>2, EnteredThen
  <2> QED BY <1>5, <2>1, <2>2, <2>3
<1> QED BY <1>1, <1>4, <1>5, <1>7, <1>8, <1>9, <1>10, <1>11 DEF Kind

-----------------------------------------------------------------------------
initStep(k, x, c) ==
  LET w == IF c \in InitFails THEN forbidContract(k[1], c, k[2]) ELSE Empty
  IN [buffer |-> Lay(w, x.buffer), list |-> x.list \o SystemEntry(w)]

Inits == INSTANCE DataLemmas WITH FoldStep <- initStep

(* initOrUpdateSMC as a fold over the contracts that take effect.          *)
LEMMA InitsUnfolded ==
  ASSUME NEW d, NEW p, NEW h
  PROVE  initOrUpdateSMC(d, p, h)
           = Inits!Folded(<<d, h>>, [buffer |-> p.buffer, list |-> << >>],
                          Effective[h], DOMAIN Effective[h])
BY DEF initOrUpdateSMC, GetContractsWithHeight, FoldLeft, MapThenFoldSet, Max, Inits!Folded,
       Inits!IsFold, Inits!greatest, initStep

mineStep(d, x, c) ==
  LET w == MineWrites(Lay(x.buffer, d), c)
  IN [buffer |-> Lay(w, x.buffer), list |-> x.list \o SystemEntry(w)]

Minings == INSTANCE DataLemmas WITH FoldStep <- mineStep

(* mine as a fold over the contracts in the list.                          *)
LEMMA MineUnfolded ==
  ASSUME NEW d, NEW p
  PROVE  LET s == IF d[World].height + 1 >= MineHeight THEN Lay(p.buffer, d)[Mines] ELSE << >>
         IN mine(d, p) = Minings!Folded(d, [buffer |-> p.buffer, list |-> p.list], s, DOMAIN s)
BY DEF mine, FoldLeft, MapThenFoldSet, Max, Minings!Folded, Minings!IsFold, Minings!greatest,
       mineStep

(* Initialising the contracts of a block keeps the contents good.          *)
LEMMA InitStepKind ==
  ASSUME NEW H, NEW d, d[Mines] \in Seq(Contract), NEW h, NEW x, NEW v0, NEW C, Kind(H, d, x, v0, C),
         NEW c \in Contract
  PROVE  Kind(H, d, initStep(<<d, h>>, x, c), v0, C)
<1>1. PICK w : w = IF c \in InitFails THEN forbidContract(d, c, h) ELSE Empty
  OBVIOUS
<1>2. DOMAIN w \subseteq {Mines, Lose(c)} /\ (Mines \in DOMAIN w => w[Mines] \in Seq(Contract))
  <2>1. CASE c \notin InitFails
    <3>1. DOMAIN w = {}
      BY <1>1, <2>1, EmptySequence DEF Empty
    <3> QED BY <3>1
  <2>2. CASE c \in InitFails
    <3>1. w = forbidContract(d, c, h)
      BY <1>1, <2>2
    <3>2. Mines # Lose(c)
      BY Kinds
    <3>3. RemoveFirst(d[Mines], c) \in Seq(Contract)
      <4>1. PICK s \in Seq(Contract) : s = d[Mines]
        OBVIOUS
      <4> QED BY <4>1, RemoveFirstOver
    <3> QED BY <3>1, <3>2, <3>3 DEF forbidContract
  <2> QED BY <2>1, <2>2
<1>3. initStep(<<d, h>>, x, c) = [buffer |-> Lay(w, x.buffer), list |-> x.list \o SystemEntry(w)]
  BY <1>1 DEF initStep
<1>4. PICK v : v = Lay(x.buffer, d)
  OBVIOUS
<1>5. Steady(v, Lay(w, v))
  <2>1. Valued(v)
    BY <1>4 DEF Kind, Good, Accounted
  <2>2. \A a \in Addr : Bal(a) \notin DOMAIN w
    BY <1>2, Kinds
  <2>3. \A a \in Addr : Bal(a) \in DOMAIN Lay(w, v) /\ Lay(w, v)[Bal(a)] = v[Bal(a)]
    BY <2>1, <2>2 DEF Lay, Valued
  <2> QED BY <2>1, <2>3, MoneySame DEF Steady
<1>6. Kind(H, d, [buffer |-> Lay(w, x.buffer), list |-> x.list \o SystemEntry(w)], v0, C)
  BY <1>2, <1>4, <1>5, WriteKind
<1> QED BY <1>3, <1>6

(* What the init transactions of a block write, by induction over the      *)
(* contracts it makes effective.                                           *)
LEMMA InitsKind ==
  ASSUME NEW H, NEW d, Good(H, << >>, Lay(Empty, d)), d[Mines] \in Seq(Contract),
         NEW p, p.buffer = Empty, NEW h \in 1 .. MaxHeight
  PROVE  Kind(H, d, initOrUpdateSMC(d, p, h), Lay(Empty, d), {d[Chains]})
<1>C. PICK C : C = {d[Chains]}
  OBVIOUS
<1>1. PICK v : v = Lay(Empty, d)
  OBVIOUS
<1>2. Valued(v) /\ Solvent(v, v)
  <2>1. Valued(v)
    BY <1>1 DEF Good, Accounted
  <2>2. \A a \in Addr : Bal(a) \in DOMAIN v /\ v[Bal(a)] = v[Bal(a)]
    BY <2>1 DEF Valued
  <2> QED BY <2>1, <2>2, MoneySame
<1>3. PICK s \in Seq(Contract) : s = Effective[h]
  BY BlocksAssumption
<1> DEFINE n == Len(s)
<1>4. n \in Nat /\ DOMAIN s = 1 .. n /\ \A i \in 1 .. n : s[i] \in Contract
  BY SequenceOver, SequenceDomain
<1>5. PICK b : b = [buffer |-> Empty, list |-> << >>]
  OBVIOUS
<1>6. PICK k : k = <<d, h>>
  OBVIOUS
<1>r. PICK r : Inits!Folded(k, b, s, 1 .. n) = r[n] /\ Inits!Stepwise(k, b, s, n, r)
  <2>1. n \in Nat
    BY <1>4
  <2> HIDE DEF n
  <2> QED BY <2>1, Inits!FoldStepwise
<1>7. /\ Inits!Folded(k, b, s, 1 .. n) = r[n]
      /\ r[0] = b
      /\ \A i \in 1 .. n : r[i] = initStep(k, r[i - 1], s[i])
  BY <1>r DEF Inits!Stepwise
<1>8. initOrUpdateSMC(d, p, h) = r[n]
  BY <1>3, <1>4, <1>5, <1>6, <1>7, InitsUnfolded
<1> DEFINE N == {i \in Nat : i <= n => Kind(H, d, r[i], v, C)}
<1>9. 0 \in N
  <2>1. ChainsLeft(d, << >>) = C
    BY <1>C, ChainsLeftNone
  <2>2. Entered(blockHeight(d), v, v)
    BY DEF Entered
  <2>3. Kind(H, d, b, v, C)
    BY <1>1, <1>2, <1>5, <2>1, <2>2 DEF Kind
  <2> QED BY <1>7, <2>3
<1>10. ASSUME NEW i \in Nat, i \in N PROVE i + 1 \in N
  <2>1. SUFFICES ASSUME i + 1 <= n PROVE Kind(H, d, r[i + 1], v, C)
    OBVIOUS
  <2>2. i + 1 \in 1 .. n /\ (i + 1) - 1 = i /\ i <= n
    BY <1>4, <2>1
  <2>3. PICK x : x = r[i]
    OBVIOUS
  <2>4. PICK c \in Contract : c = s[i + 1]
    BY <1>4, <2>2
  <2>5. Kind(H, d, x, v, C)
    BY <1>10, <2>2, <2>3
  <2>6. Kind(H, d, initStep(<<d, h>>, x, c), v, C)
    BY <2>5, InitStepKind
  <2>7. r[i + 1] = initStep(k, x, c)
    BY <1>7, <2>2, <2>3, <2>4
  <2> QED BY <1>6, <2>6, <2>7
<1> HIDE DEF N
<1>11. n \in N
  BY <1>4, <1>9, <1>10, NumberInduction
<1> QED BY <1>1, <1>2, <1>4, <1>8, <1>11, <1>C DEF N

(* So does mining, whose list is the one that the block has left.          *)
LEMMA MineStepKind ==
  ASSUME NEW H, NEW d, NEW x, NEW v0, NEW C, Kind(H, d, x, v0, C), NEW c \in Contract
  PROVE  Kind(H, d, mineStep(d, x, c), v0, C)
<1>1. PICK w : w = MineWrites(Lay(x.buffer, d), c)
  OBVIOUS
<1>2. DOMAIN w \subseteq {Bal(c), Bal(Payee)}
  <2>1. DOMAIN Empty = {}
    BY EmptySequence DEF Empty
  <2> QED BY <1>1, <2>1 DEF MineWrites, Writes
<1>3. Mines \notin DOMAIN w
  BY <1>2, Kinds
<1>4. mineStep(d, x, c) = [buffer |-> Lay(w, x.buffer), list |-> x.list \o SystemEntry(w)]
  BY <1>1 DEF mineStep
<1>5. DOMAIN w \subseteq {Mines} \cup {Lose(b) : b \in Contract}
                             \cup {Bal(a) : a \in Contract \cup {Payee}}
  BY <1>2
<1>6. PICK v : v = Lay(x.buffer, d)
  OBVIOUS
<1>7. Valued(v)
  BY <1>6 DEF Kind, Good, Accounted
<1>8. Steady(v, Lay(w, v))
  <2>1. c \in Addr /\ Payee \in Addr
    BY DEF Addr
  <2>2. CASE v[Bal(c)] > 0
    <3>1. PICK u : u = Transfer(v, c, Payee, 1)
      OBVIOUS
    <3>2. ~(v[Bal(c)] < 1)
      BY <1>7, <2>1, <2>2 DEF Valued
    <3>3. Valued(u) /\ SumBalances(u) = SumBalances(v) /\ Solvent(v, u)
      BY <1>7, <2>1, <3>1, <3>2, MoneyMoved
    <3>4. w = Writes({Bal(c), Bal(Payee)}, u)
      BY <1>1, <1>6, <2>2, <3>1 DEF MineWrites
    <3>5. ASSUME NEW a \in Addr
          PROVE  Bal(a) \in DOMAIN Lay(w, v) /\ Lay(w, v)[Bal(a)] = u[Bal(a)]
      <4>1. Bal(a) \in DOMAIN v
        BY <1>7 DEF Valued
      <4>2. CASE a = c \/ a = Payee
        BY <3>4, <4>2 DEF Lay, Writes
      <4>3. CASE a # c /\ a # Payee
        <5>1. Bal(a) # Bal(c) /\ Bal(a) # Bal(Payee)
          BY <4>3, Kinds
        <5>2. u[Bal(a)] = v[Bal(a)]
          BY <3>1, <4>1, <5>1 DEF Transfer, Plus
        <5> QED BY <3>4, <4>1, <5>1, <5>2 DEF Lay, Writes
      <4> QED BY <4>2, <4>3
    <3>6. Valued(Lay(w, v)) /\ SumBalances(Lay(w, v)) = SumBalances(u)
      BY <3>3, <3>5, MoneySame
    <3>7. Solvent(v, Lay(w, v))
      BY <3>3, <3>5 DEF Solvent
    <3> QED BY <3>3, <3>6, <3>7 DEF Steady
  <2>3. CASE ~(v[Bal(c)] > 0)
    <3>1. DOMAIN w = {}
      <4>1. w = Empty
        BY <1>1, <1>6, <2>3 DEF MineWrites
      <4> QED BY <4>1, EmptySequence DEF Empty
    <3>2. \A a \in Addr : Bal(a) \in DOMAIN Lay(w, v) /\ Lay(w, v)[Bal(a)] = v[Bal(a)]
      BY <1>7, <3>1 DEF Lay, Valued
    <3> QED BY <1>7, <3>2, MoneySame DEF Steady
  <2> QED BY <2>2, <2>3
<1>9. Kind(H, d, [buffer |-> Lay(w, x.buffer), list |-> x.list \o SystemEntry(w)], v0, C)
  BY <1>3, <1>5, <1>6, <1>8, WriteKind
<1> QED BY <1>4, <1>9

(* What the mine transactions of a block write, by induction over the      *)
(* contracts that mine.                                                    *)
LEMMA MineKind ==
  ASSUME NEW H, NEW d, NEW p, NEW v, NEW C, Kind(H, d, p, v, C)
  PROVE  Kind(H, d, mine(d, p), v, C)
<1>1. PICK s \in Seq(Contract) :
        s = IF d[World].height + 1 >= MineHeight THEN Lay(p.buffer, d)[Mines] ELSE << >>
  <2>1. Lay(p.buffer, d)[Mines] \in Seq(Contract)
    BY DEF Kind, Good
  <2>2. << >> \in Seq(Contract)
    BY EmptySeq
  <2> QED BY <2>1, <2>2
<1> DEFINE n == Len(s)
<1>2. n \in Nat /\ DOMAIN s = 1 .. n /\ \A i \in 1 .. n : s[i] \in Contract
  BY SequenceOver, SequenceDomain
<1>3. PICK b : b = [buffer |-> p.buffer, list |-> p.list]
  OBVIOUS
<1>k. PICK k : k = d
  OBVIOUS
<1>r. PICK r : Minings!Folded(k, b, s, 1 .. n) = r[n] /\ Minings!Stepwise(k, b, s, n, r)
  <2>1. n \in Nat
    BY <1>2
  <2> HIDE DEF n
  <2> QED BY <2>1, Minings!FoldStepwise
<1>4. /\ Minings!Folded(k, b, s, 1 .. n) = r[n]
      /\ r[0] = b
      /\ \A i \in 1 .. n : r[i] = mineStep(k, r[i - 1], s[i])
  BY <1>r DEF Minings!Stepwise
<1>5. mine(d, p) = r[n]
  BY <1>1, <1>2, <1>3, <1>k, <1>4, MineUnfolded
<1> DEFINE N == {i \in Nat : i <= n => Kind(H, d, r[i], v, C)}
<1>6. 0 \in N
  <2>1. Kind(H, d, b, v, C)
    BY <1>3 DEF Kind
  <2> QED BY <1>4, <2>1
<1>7. ASSUME NEW i \in Nat, i \in N PROVE i + 1 \in N
  <2>1. SUFFICES ASSUME i + 1 <= n PROVE Kind(H, d, r[i + 1], v, C)
    OBVIOUS
  <2>2. i + 1 \in 1 .. n /\ (i + 1) - 1 = i /\ i <= n
    BY <1>2, <2>1
  <2>3. PICK x : x = r[i]
    OBVIOUS
  <2>4. PICK c \in Contract : c = s[i + 1]
    BY <1>2, <2>2
  <2>5. Kind(H, d, x, v, C)
    BY <1>7, <2>2, <2>3
  <2>6. Kind(H, d, mineStep(d, x, c), v, C)
    BY <2>5, MineStepKind
  <2>7. r[i + 1] = mineStep(d, x, c)
    BY <1>k, <1>4, <2>2, <2>3, <2>4
  <2> QED BY <2>6, <2>7
<1> HIDE DEF N
<1>8. n \in N
  BY <1>2, <1>6, <1>7, NumberInduction
<1> QED BY <1>2, <1>5, <1>8 DEF N

-----------------------------------------------------------------------------
(* Contents that some block has committed, or genesis.                     *)
Sound(d) ==
  /\ World \in DOMAIN d /\ IsWorld(d[World])
  /\ Good(d[World].hash, << >>, d)

(* Nothing laid over contents reads as they do.                            *)
LEMMA GoodUnderEmpty ==
  ASSUME NEW d, Sound(d)
  PROVE  /\ Good(d[World].hash, << >>, Lay(Empty, d))
         /\ Lay(Empty, d)[Vals] = d[Vals] /\ Lay(Empty, d)[Chains] = d[Chains]
         /\ Solvent(d, Lay(Empty, d))
         /\ Lay(Empty, d)[World] = d[World] /\ Entered(blockHeight(d), d, Lay(Empty, d))
<1>1. DOMAIN Empty = {}
  BY EmptySequence DEF Empty
<1>2. PICK u : u = Lay(Empty, d)
  OBVIOUS
<1>3. DOMAIN u = DOMAIN d /\ \A k \in DOMAIN d : u[k] = d[k]
  BY <1>1, <1>2 DEF Lay
<1>4. PICK l : l = << >>
  OBVIOUS
<1>5. PICK H : H = d[World].hash
  OBVIOUS
<1>6. Good(H, l, d)
  BY <1>4, <1>5 DEF Sound
<1>7. Systemic(d, u, l, l)
  <2>1. Mines \in DOMAIN d /\ (\A a \in Addr : Bal(a) \in DOMAIN d) /\ d[Mines] \in Seq(Contract)
    BY <1>6, KeysOfAll DEF Good, Readable
  <2>2. Valued(d)
    BY <1>6 DEF Good, Accounted
  <2>3. Steady(d, u)
    BY <1>3, <2>1, <2>2, MoneySame DEF Steady
  <2> QED BY <1>3, <2>1, <2>3 DEF Systemic
<1>8. Solvent(d, u)
  BY <1>7 DEF Systemic, Steady
<1>9. u[World] = d[World] /\ Entered(blockHeight(d), d, u)
  <2>1. PICK h : h = blockHeight(d)
    OBVIOUS
  <2>2. u[World] = d[World] /\ Entered(h, d, u)
    BY <1>6, <1>7, SystemicEntered
  <2> QED BY <2>1, <2>2
<1>10. Good(H, l, u) /\ u[Vals] = d[Vals] /\ u[Chains] = d[Chains]
  BY <1>6, <1>7, SystemicGood
<1> QED BY <1>2, <1>4, <1>5, <1>8, <1>9, <1>10

(* Where a block begins.                                                   *)
Sane(d, p) == /\ IsProgress(p)
              /\ Good(d[World].hash, p.list, Lay(p.buffer, d))
              /\ Reports(d, Lay(p.buffer, d), p)
              /\ Lay(p.buffer, d)[World] = d[World]
              /\ Entered(blockHeight(d), d, Lay(p.buffer, d))

(* The beginning of a block leaves a progress in order.                    *)
LEMMA BegunSane ==
  ASSUME NEW d, Sound(d), d[World].height + 1 \in 1 .. MaxHeight
  PROVE  Sane(d, begun(d, Fresh)) /\ Solvent(Lay(Empty, d), Lay(begun(d, Fresh).buffer, d))
<1>1. PICK h \in 1 .. MaxHeight : h = d[World].height + 1
  OBVIOUS
<1>2. PICK p : p = Fresh
  OBVIOUS
<1>3. PICK x : x = initOrUpdateSMC(d, p, h)
  OBVIOUS
<1>4. PICK H : H = d[World].hash
  OBVIOUS
<1>5. /\ Good(H, << >>, Lay(Empty, d))
      /\ Lay(Empty, d)[Vals] = d[Vals] /\ Lay(Empty, d)[Chains] = d[Chains]
      /\ Lay(Empty, d)[World] = d[World] /\ Entered(blockHeight(d), d, Lay(Empty, d))
  BY <1>4, GoodUnderEmpty
<1>6. d[Mines] \in Seq(Contract) /\ d[Vals] \in Nat /\ d[Chains] \in Nat
  BY DEF Sound, Good, Readable
<1>7. p.buffer = Empty
  BY <1>2 DEF Fresh
<1>8. Kind(H, d, x, Lay(Empty, d), {d[Chains]})
  BY <1>3, <1>5, <1>6, <1>7, InitsKind
<1>9. PICK q : q = begun(d, Fresh)
  OBVIOUS
<1>10. q.buffer = x.buffer /\ q.list = x.list /\ q.validators = 0 /\ q.scGenesis = 0
  BY <1>1, <1>2, <1>3, <1>9 DEF begun, Fresh
<1>11. Good(H, q.list, Lay(q.buffer, d))
  BY <1>8, <1>10 DEF Kind
<1>12. Reports(d, Lay(q.buffer, d), q)
  <2>1. ChainsLeft(d, q.list) = {d[Chains]}
    BY <1>8, <1>10 DEF Kind
  <2>2. ChainsReported({d[Chains]}, d[Chains], d[Chains], 0)
    BY <1>6 DEF ChainsReported
  <2>3. PICK u : u = Lay(q.buffer, d)
    OBVIOUS
  <2>4. u[Vals] = d[Vals] /\ u[Chains] = d[Chains]
    BY <1>5, <1>8, <1>10, <2>3 DEF Kind
  <2> QED BY <1>6, <1>10, <2>1, <2>2, <2>3, <2>4 DEF Reports
<1>e. /\ Lay(q.buffer, d)[World] = d[World]
      /\ Entered(blockHeight(d), d, Lay(q.buffer, d))
  <2>1. PICK last : last = blockHeight(d)
    OBVIOUS
  <2>2. PICK v : v = Lay(Empty, d)
    OBVIOUS
  <2>3. PICK u : u = Lay(q.buffer, d)
    OBVIOUS
  <2>4. Entered(last, d, v) /\ Entered(last, v, u) /\ u[World] = v[World] /\ v[World] = d[World]
    BY <1>5, <1>8, <1>10, <2>1, <2>2, <2>3 DEF Kind
  <2> QED BY <2>1, <2>3, <2>4, EnteredThen
<1>13. IsProgress(q)
  BY <1>9, BegunIsProgress, ProgressIsProgress
<1>14. Solvent(Lay(Empty, d), Lay(q.buffer, d))
  BY <1>8, <1>10 DEF Kind
<1> QED BY <1>4, <1>9, <1>11, <1>12, <1>13, <1>14, <1>e DEF Sane

(* A transaction that can be parsed.                                       *)
LEMMA TxIsTx ==
  ASSUME NEW tx \in Tx
  PROVE  IsTx(tx)
<1>1. tx.sender \in Acct /\ tx.messages \in Seq(Message) /\ tx.messages # << >>
  BY DEF Tx
<1>2. PICK M : M = Message
  OBVIOUS
<1>3. PICK s \in Seq(M) : s = tx.messages
  BY <1>1, <1>2
<1>4. IsSequence(s) /\ (\A i \in 1 .. Len(s) : s[i] \in M) /\ DOMAIN s = 1 .. Len(s)
  BY SequenceOver, SequenceDomain
<1> QED BY <1>1, <1>2, <1>3, <1>4 DEF IsTx, Range

(* The delivery of a transaction, whether or not it runs.                  *)
LEMMA DeliveredSane ==
  ASSUME NEW d, NEW p, Sane(d, p), NEW tx \in {Malformed} \cup Tx
  PROVE  Sane(d, deliverBCTx(d, p, tx))
<1>1. PICK H : H = d[World].hash
  OBVIOUS
<1>2. PICK v : v = Lay(p.buffer, d)
  OBVIOUS
<1>3. PICK q : q = deliverBCTx(d, p, tx)
  OBVIOUS
<1>4. PICK u : u = Lay(q.buffer, d)
  OBVIOUS
<1>5. Good(H, p.list, v) /\ Reports(d, v, p) /\ IsSequence(p.list)
  BY <1>1, <1>2 DEF Sane, Good, Ordered
<1>h. PICK h : h = blockHeight(d)
  OBVIOUS
<1>v. v[World] = d[World] /\ Entered(h, d, v)
  BY <1>2, <1>h DEF Sane
<1>a. IsProgress(p) /\ IsProgress(q)
  BY <1>3, DeliveredIsProgress DEF Sane
<1>6. CASE tx # Malformed /\ CheckAccountNonce(v, tx.sender, tx.nonce)
  <2>2. IsTx(tx)
    BY <1>6, TxIsTx
  <2>3. q = runDeliverTx(d, p, tx)
    BY <1>2, <1>3, <1>6 DEF deliverBCTx
  <2>4. Ran(v, u, p, q, tx)
    BY <1>2, <1>4, <1>5, <2>2, <2>3, RunRan DEF Good
  <2>a. Costs(v, u, p, q)
    BY <1>2, <1>4, <1>5, <2>2, <2>3, RunCosts DEF Good, Accounted
  <2>5. Good(H, q.list, u)
    BY <1>5, <1>6, <2>2, <2>4, <2>a, RanGood DEF CheckAccountNonce, IsTx
  <2>6. Reports(d, u, q)
    BY <1>5, <2>4, RanReports DEF Good
  <2>7. u[World] = d[World] /\ Entered(h, d, u)
    <3>1. u[World] = v[World] /\ Entered(blockHeight(v), v, u)
      BY <1>5, <2>4, <2>5, RanEntered DEF Good
    <3>2. blockHeight(v) = h
      BY <1>h, <1>v DEF blockHeight
    <3> QED BY <1>v, <3>1, <3>2, EnteredThen
  <2> QED BY <1>1, <1>3, <1>4, <1>a, <1>h, <2>5, <2>6, <2>7 DEF Sane
<1>7. CASE ~(tx # Malformed /\ CheckAccountNonce(v, tx.sender, tx.nonce))
  <2>1. PICK e : e = Entry(tx, "rejected", Empty, Empty)
    OBVIOUS
  <2>2. q = [p EXCEPT !.list = Append(@, e)]
    BY <1>2, <1>3, <1>7, <2>1 DEF deliverBCTx, reportFailure
  <2>3. e.code = "rejected" /\ Chains \notin DOMAIN e.state
    <3>1. e.code = "rejected" /\ e.state = Empty
      BY <2>1 DEF Entry
    <3>2. DOMAIN Empty = {}
      BY EmptySequence DEF Empty
    <3> QED BY <3>1, <3>2
  <2>4. PICK l : l = p.list
    OBVIOUS
  <2>5. /\ q.buffer = p.buffer /\ q.list = Append(l, e)
        /\ q.validators = p.validators /\ q.scGenesis = p.scGenesis
    BY <1>a, <2>2, <2>4 DEF IsProgress
  <2>6. u = v /\ Good(H, l, v)
    BY <1>2, <1>4, <1>5, <2>4, <2>5
  <2>7. IsSequence(H) /\ IsSequence(l) /\ IsSequence(Append(l, e))
    BY <2>6, SequenceAppend DEF Good, Ordered
  <2>8. ASSUME NEW a \in Acct PROVE InOrder(Append(H, Append(l, e)), a, v[Nonce(a)])
    <3>1. PICK n \in Nat : n = v[Nonce(a)] /\ InOrder(Append(H, l), a, n)
      BY <2>6 DEF Good, Ordered
    <3> QED BY <2>3, <2>7, <3>1, EntryInOrder
  <2>b. Accounted(H, Append(l, e), v)
    <3>1. e.fees = Empty
      BY <2>1 DEF Entry
    <3>2. DOMAIN e.fees = {}
      BY <3>1, EmptySequence DEF Empty
    <3> QED BY <2>6, <3>2, AccountedEntry DEF Good
  <2>9. Good(H, q.list, u)
    BY <2>5, <2>6, <2>7, <2>8, <2>b DEF Good, Ordered
  <2>10. Reports(d, u, q)
    <3>1. ChainsLeft(d, Append(l, e))
            = ChainsLeft(d, l) \cup (IF Chains \in DOMAIN e.state THEN {e.state[Chains]} ELSE {})
      BY ONLY <2>7, ChainsLeftAppend
    <3>2. ChainsLeft(d, q.list) = ChainsLeft(d, l)
      BY <2>3, <2>5, <3>1
    <3> QED BY <1>5, <2>4, <2>5, <2>6, <3>2 DEF Reports
  <2> QED BY <1>1, <1>3, <1>4, <1>a, <1>h, <1>v, <2>6, <2>9, <2>10 DEF Sane
<1> QED BY <1>6, <1>7

(* Every transaction of a decided block finds such a progress.             *)
LEMMA RunSane ==
  ASSUME NEW d, Sound(d), d[World].height + 1 \in 1 .. MaxHeight, NEW b \in Blocks,
         NEW n \in Nat, n <= Len(b), NEW run, Run(d, b, n, run)
  PROVE  Sane(d, run[n])
<1>1. PICK T : T = {Malformed} \cup Tx
  OBVIOUS
<1>2. PICK s \in Seq(T) : s = b
  BY <1>1, BlocksAssumption
<1>3. \A i \in 1 .. Len(b) : b[i] \in T
  BY <1>2, SequenceOver
<1>4. Len(b) \in Nat
  BY <1>2, SequenceOver, SequenceDomain
<1> DEFINE N == {i \in Nat : i <= n => Sane(d, run[i])}
<1>5. 0 \in N
  BY BegunSane DEF Run
<1>6. ASSUME NEW i \in Nat, i \in N PROVE i + 1 \in N
  <2>1. SUFFICES ASSUME i + 1 <= n PROVE Sane(d, run[i + 1])
    OBVIOUS
  <2>2. i + 1 \in 1 .. n /\ i + 1 \in 1 .. Len(b) /\ (i + 1) - 1 = i /\ i <= n
    BY <1>4, <2>1
  <2>3. PICK p : p = run[i]
    OBVIOUS
  <2>4. PICK tx \in {Malformed} \cup Tx : tx = b[i + 1]
    BY <1>1, <1>3, <2>2
  <2>5. Sane(d, p)
    BY <1>6, <2>2, <2>3
  <2>6. Sane(d, deliverBCTx(d, p, tx))
    BY <2>5, DeliveredSane
  <2>7. run[i + 1] = deliverBCTx(d, p, tx)
    BY <2>2, <2>3, <2>4 DEF Run
  <2> QED BY <2>6, <2>7
<1> HIDE DEF N
<1>7. n \in N
  BY <1>5, <1>6, NumberInduction
<1> QED BY <1>7 DEF N

(* EndBlock mines, which changes nothing that is to be reported, and no    *)
(* balance that is not listed.                                             *)
LEMMA EndedGood ==
  ASSUME NEW d, NEW p, Sane(d, p)
  PROVE  LET q == ended(d, p)
             u == Lay(q.buffer, d)
             v == Lay(p.buffer, d)
         IN /\ Good(d[World].hash, q.list, u)
            /\ u[Vals] = v[Vals] /\ u[Chains] = v[Chains]
            /\ Solvent(v, u)
            /\ ChainsLeft(d, q.list) = ChainsLeft(d, p.list)
            /\ Entered(blockHeight(d), d, u)
<1>1. PICK H : H = d[World].hash
  OBVIOUS
<1>2. PICK v : v = Lay(p.buffer, d)
  OBVIOUS
<1>3. Good(H, p.list, v) /\ Valued(v) /\ Solvent(v, v)
  <2>1. Good(H, p.list, v) /\ Valued(v)
    BY <1>1, <1>2 DEF Sane, Good, Accounted
  <2>2. \A a \in Addr : Bal(a) \in DOMAIN v /\ v[Bal(a)] = v[Bal(a)]
    BY <2>1 DEF Valued
  <2> QED BY <2>1, <2>2, MoneySame
<1>4. PICK q : q = ended(d, p)
  OBVIOUS
<1>C. PICK C : C = ChainsLeft(d, p.list)
  OBVIOUS
<1>5. Kind(H, d, mine(d, p), v, C)
  <2>1. Entered(blockHeight(d), v, v)
    BY DEF Entered
  <2>2. Kind(H, d, p, v, C)
    BY <1>2, <1>3, <1>C, <2>1 DEF Kind
  <2> QED BY <2>2, MineKind
<1>6. q.buffer = mine(d, p).buffer /\ q.list = mine(d, p).list
  BY <1>4 DEF ended
<1>7. Entered(blockHeight(d), d, Lay(q.buffer, d))
  <2>1. PICK h : h = blockHeight(d)
    OBVIOUS
  <2>2. PICK u : u = Lay(q.buffer, d)
    OBVIOUS
  <2>3. Entered(h, d, v) /\ Entered(h, v, u)
    BY <1>2, <1>5, <1>6, <2>1, <2>2 DEF Kind, Sane
  <2> QED BY <2>1, <2>2, <2>3, EnteredThen
<1> QED BY <1>1, <1>2, <1>4, <1>5, <1>6, <1>7, <1>C DEF Kind

(* What Commit makes of good contents of a block.                          *)
LEMMA CommittedSound ==
  ASSUME NEW d, IsWorld(d[World]), d[World].hash # << >>, NEW q,
         Good(d[World].hash, q.list, Lay(q.buffer, d))
  PROVE  Sound(committed(d, q))
<1>1. PICK H : H = d[World].hash
  OBVIOUS
<1>2. PICK v : v = Lay(q.buffer, d)
  OBVIOUS
<1>3. PICK u : u = committed(d, q)
  OBVIOUS
<1>4. PICK l : l = q.list
  OBVIOUS
<1>5. PICK G : G = u[World].hash
  OBVIOUS
<1>6. Good(H, l, v)
  BY <1>1, <1>2, <1>4
<1>7. World \in DOMAIN u /\ IsWorld(u[World])
  BY <1>3, CommittedWorld
<1>8. /\ DOMAIN u = DOMAIN v
      /\ u[World] = newWorld(d, q)
      /\ \A k \in Key : k # World => u[k] = v[k]
  <2>1. Key \subseteq DOMAIN v /\ World \in Key
    BY <1>6, KeysOfAll DEF Good, Readable
  <2> QED BY <1>2, <1>3, <2>1 DEF committed, Lay
<1>9. /\ \A a \in Acct : u[Nonce(a)] = v[Nonce(a)]
      /\ \A a \in Addr : u[Keys(a)] = v[Keys(a)] /\ u[Bal(a)] = v[Bal(a)]
      /\ u[Vals] = v[Vals] /\ u[Chains] = v[Chains] /\ u[Mines] = v[Mines]
  BY <1>8, KeysOfAll, Kinds
<1>10. Readable(u) /\ u[Mines] \in Seq(Contract)
  BY <1>6, <1>8, <1>9 DEF Good, Readable
<1>11. Listed(u)
  <2>1. \A a \in Acct \cup Contract \cup {Payee} : a \in Addr
    BY DEF Addr
  <2> QED BY <1>6, <1>9, <2>1, KeysOfAll DEF Good, Listed
<1>12. IsSequence(H) /\ IsSequence(l)
  BY <1>6 DEF Good, Ordered
<1>13. G = IF l = << >> THEN H ELSE Append(H, l)
  BY <1>1, <1>4, <1>5, <1>8 DEF newWorld, IsWorld
<1>14. IsSequence(G) /\ IsSequence(<< >>)
  BY <1>12, <1>13, SequenceAppend, EmptySequence
<1>15. ASSUME NEW a \in Acct PROVE InOrder(Append(G, << >>), a, v[Nonce(a)])
  <2>1. PICK n : n = v[Nonce(a)]
    OBVIOUS
  <2>2. InOrder(Append(H, l), a, n)
    BY <1>6, <2>1 DEF Good, Ordered
  <2>3. CASE l = << >>
    BY <1>13, <2>1, <2>2, <2>3
  <2>4. CASE l # << >>
    <3>1. InOrder(G, a, n)
      BY <1>13, <2>2, <2>4
    <3>2. PICK M : M = Append(G, << >>)
      OBVIOUS
    <3>3. RanAt(M, a) = RanAt(G, a) /\ \A x \in RanAt(G, a) : NonceAt(M, x) = NonceAt(G, x)
      BY <1>14, <3>2, RanAtEmpty
    <3>4. InOrder(M, a, n)
      BY <3>1, <3>3, OrderKept
    <3> QED BY <2>1, <3>2, <3>4
  <2> QED BY <2>3, <2>4
<1>16. Ordered(G, << >>, u)
  BY <1>6, <1>9, <1>14, <1>15 DEF Good, Ordered
<1>17. Accounted(G, << >>, u)
  <2>1. Accounted(G, << >>, v) /\ Valued(v)
    BY <1>6, <1>13, AccountedCommit DEF Good, Accounted
  <2>2. \A a \in Addr : Bal(a) \in DOMAIN u /\ u[Bal(a)] = v[Bal(a)]
    BY <1>8, <1>9, <2>1 DEF Valued
  <2>3. Valued(u) /\ SumBalances(u) = SumBalances(v)
    BY <2>1, <2>2, MoneySame
  <2> QED BY <2>1, <2>3, AccountedSame
<1> QED BY <1>3, <1>5, <1>7, <1>10, <1>11, <1>16, <1>17 DEF Sound, Good

(* Commit changes no balance and no list.                                  *)
LEMMA CommittedEntered ==
  ASSUME NEW d, NEW q, Readable(Lay(q.buffer, d)), NEW h, Entered(h, d, Lay(q.buffer, d))
  PROVE  Entered(h, d, committed(d, q))
<1>1. PICK v : v = Lay(q.buffer, d)
  OBVIOUS
<1>2. PICK u : u = committed(d, q)
  OBVIOUS
<1>3. ASSUME NEW k \in Key, k # World PROVE u[k] = v[k]
  <2>1. k \in DOMAIN v
    BY <1>1 DEF Readable
  <2> QED BY <1>1, <1>2, <1>3, <2>1 DEF committed, Lay
<1>4. \A a \in Addr : u[Keys(a)] = v[Keys(a)] /\ u[Bal(a)] = v[Bal(a)]
  BY <1>3, KeysOfAll, Kinds
<1> QED BY <1>1, <1>2, <1>4 DEF Entered

(* No transaction of an account has run in the hash list of genesis, nor   *)
(* in none.                                                                *)
LEMMA NoneRan ==
  ASSUME NEW a
  PROVE  /\ InOrder(<< << >> >>, a, 0)
         /\ InOrder(<< >>, a, 0)
<1>1. RanAt(<< << >> >>, a) = {} /\ RanAt(<< >>, a) = {}
  <2>1. PICK none : none = << >>
    OBVIOUS
  <2>2. DOMAIN none = {}
    BY <2>1, EmptySequence
  <2>3. PICK one : one = <<none>>
    OBVIOUS
  <2>4. DOMAIN one = {1} /\ one[1] = none
    BY <2>3
  <2>5. RanAt(none, a) = {} /\ RanAt(one, a) = {}
    BY <2>2, <2>4 DEF RanAt
  <2> QED BY <2>1, <2>3, <2>5
<1>2. 1 .. 0 = {}
  OBVIOUS
<1> QED BY <1>1, <1>2 DEF InOrder

(* What genesis writes.                                                    *)
LEMMA GenesisValues ==
  /\ Key = DOMAIN Genesis
  /\ Genesis[World].hash = << << >> >>
  /\ Genesis[Mines] = SetToSeq(Contract)
  /\ Genesis[Vals] = 0 /\ Genesis[Chains] = 0
  /\ \A a \in Acct : Genesis[Nonce(a)] = 0
  /\ \A a \in Addr : Genesis[Keys(a)] = IF a \in Acct \cup Contract \cup {Payee} THEN {"token"} ELSE {}
  /\ \A a \in Addr : Genesis[Bal(a)] = IF a \in Acct \cup Contract \cup {Payee} THEN Balance ELSE 0
<1>1. /\ \A a : /\ Bal(a) # World /\ Bal(a) # Mines /\ Keys(a) # World /\ Keys(a) # Mines
                /\ Nonce(a) # World /\ Nonce(a) # Mines
                /\ Bal(a)[2] = a /\ Keys(a)[2] = a
      /\ Vals # World /\ Vals # Mines /\ Chains # World /\ Chains # Mines /\ Mines # World
  BY DEF Bal, Keys, Nonce, Vals, Chains, Mines, World
<1>2. Key = DOMAIN Genesis /\ Key = DOMAIN NoContents
  BY DEF Genesis, NoContents
<1>3. ASSUME NEW k \in Key
      PROVE  NoContents[k] = CASE k = World -> [height |-> 0, hash |-> << >>, fee |-> 0, rewards |-> 0]
                               [] k = Mines -> << >>
                               [] k[1] = "keys" -> {}
                               [] OTHER -> 0
  BY DEF NoContents
<1>4. ASSUME NEW k \in Key
      PROVE  Genesis[k] = CASE k = World -> [NoContents[World] EXCEPT !.hash = << << >> >>]
                            [] k = Mines -> SetToSeq(Contract)
                            [] k[1] = "bal" /\ k[2] \in Acct \cup Contract \cup {Payee} -> Balance
                            [] k[1] = "keys" /\ k[2] \in Acct \cup Contract \cup {Payee} -> {"token"}
                            [] OTHER -> NoContents[k]
  BY DEF Genesis
<1>5. Genesis[World].hash = << << >> >>
  <2>1. NoContents[World] = [height |-> 0, hash |-> << >>, fee |-> 0, rewards |-> 0]
    BY <1>1, <1>3, KeysOfAll, Kinds
  <2>2. Genesis[World] = [NoContents[World] EXCEPT !.hash = << << >> >>]
    BY <1>1, <1>4, KeysOfAll, Kinds
  <2> QED BY <2>1, <2>2
<1>6. Genesis[Mines] = SetToSeq(Contract)
  BY <1>1, <1>4, KeysOfAll, Kinds
<1>7. Genesis[Vals] = 0 /\ Genesis[Chains] = 0
  BY <1>1, <1>3, <1>4, KeysOfAll, Kinds
<1>8. ASSUME NEW a \in Acct PROVE Genesis[Nonce(a)] = 0
  BY <1>1, <1>3, <1>4, KeysOfAll, Kinds
<1>9. ASSUME NEW a \in Addr
      PROVE  Genesis[Keys(a)] = IF a \in Acct \cup Contract \cup {Payee} THEN {"token"} ELSE {}
  BY <1>1, <1>3, <1>4, KeysOfAll, Kinds
<1>10. ASSUME NEW a \in Addr
      PROVE  Genesis[Bal(a)] = IF a \in Acct \cup Contract \cup {Payee} THEN Balance ELSE 0
  BY <1>1, <1>3, <1>4, KeysOfAll, Kinds
<1> QED BY <1>2, <1>5, <1>6, <1>7, <1>8, <1>9, <1>10

(* The genesis contents are in order.                                      *)
LEMMA GenesisSound == Sound(Genesis)
<1>1. PICK d : d = Genesis
  OBVIOUS
<1>2. PICK H : H = << << >> >>
  OBVIOUS
<1>3. World \in DOMAIN d /\ IsWorld(d[World]) /\ d[World].hash = H
  BY <1>1, <1>2, GenesisWorld, GenesisValues
<1>4. Readable(d)
  BY <1>1, GenesisValues DEF Readable
<1>5. d[Mines] \in Seq(Contract)
  BY <1>1, GenesisValues, SetToSeqIsSequence, AddrAssumption
<1>6. Listed(d)
  <2>1. \A a \in Acct \cup Contract \cup {Payee} : a \in Addr
    BY DEF Addr
  <2>2. NamesToken({"token"})
    BY DEF NamesToken
  <2> QED BY <1>1, <2>1, <2>2, GenesisValues DEF Listed
<1>7. IsSequence(H) /\ IsSequence(<< >>)
  <2>1. IsSequence(H)
    BY <1>3 DEF IsWorld
  <2> QED BY <2>1, EmptySequence
<1>8. ASSUME NEW a \in Acct PROVE InOrder(Append(H, << >>), a, 0)
  <2>1. InOrder(H, a, 0)
    BY <1>2, NoneRan
  <2>2. PICK M : M = Append(H, << >>)
    OBVIOUS
  <2>3. RanAt(M, a) = RanAt(H, a) /\ \A x \in RanAt(H, a) : NonceAt(M, x) = NonceAt(H, x)
    BY <1>7, <2>2, RanAtEmpty
  <2>4. InOrder(M, a, 0)
    BY <2>1, <2>3, OrderKept
  <2> QED BY <2>2, <2>4
<1>9. Ordered(H, << >>, d)
  BY <1>1, <1>7, <1>8, GenesisValues DEF Ordered
<1>10. Accounted(H, << >>, d)
  <2>1. Valued(d)
    <3>1. \A a \in Addr : Bal(a) \in DOMAIN d
      BY <1>1, GenesisValues, KeysOfAll
    <3>2. \A a \in Addr : d[Bal(a)] \in Int
      BY <1>1, GenesisValues, AddrAssumption
    <3> QED BY <3>1, <3>2 DEF Valued
  <2>2. PICK none : none = << >>
    OBVIOUS
  <2>3. Billed(none) /\ FeesIn(none) = 0
    BY <2>2, FeesInNone
  <2>4. AllBilled(H)
    <3>1. IsSequence(H)
      BY <1>7
    <3>2. H = <<none>>
      BY <1>2, <2>2
    <3>3. \A h \in 1 .. Len(H) : H[h] = none
      BY <3>2
    <3> QED BY <2>3, <3>1, <3>3 DEF AllBilled
  <2>5. PICK a \in Nat : a = FeesInAll(H) + FeesIn(none)
    BY <2>3, <2>4, FeesInAllType
  <2>6. PICK c \in Nat : c = Len(Strategy) - 1
    BY StrategyLength
  <2>7. SumBalances(d) \in Int
    BY <2>1, MoneyType
  <2>8. SumBalances(d) - SumBalances(d) \in 0 .. a * c
    <3>1. PICK k \in Nat : k = a * c
      OBVIOUS
    <3> QED BY <2>7, <3>1
  <2> QED BY <1>1, <2>1, <2>2, <2>3, <2>4, <2>5, <2>6, <2>7, <2>8 DEF Accounted
<1> QED BY <1>1, <1>3, <1>4, <1>5, <1>6, <1>9, <1>10 DEF Sound, Good

-----------------------------------------------------------------------------
(* Only blocks that consensus may decide are, up to the highest.           *)
Decided ==
  /\ Len(blocks) <= MaxHeight
  /\ \A h \in 1 .. Len(blocks) : blocks[h] \in Blocks

(* Before the first block only empty contents are decided.                 *)
LEMMA InitDecided == ASSUME Init PROVE Decided
BY EmptySequence, BlocksAssumption DEF Init, Decided

(* The blocks that are decided contain what they may, at every step.       *)
LEMMA NextDecided == ASSUME Sequences, Decided, [Next]_vars PROVE Decided'
<1>1. CASE UNCHANGED blocks
  BY <1>1 DEF Decided
<1>2. ASSUME NEW b \in Blocks, Decide(b) PROVE Decided'
  <2>1. blocks' = Append(blocks, b) /\ Len(blocks) < MaxHeight
    BY <1>2 DEF Decide
  <2>2. /\ Len(blocks') = Len(blocks) + 1
        /\ \A i \in 1 .. Len(blocks) : blocks'[i] = blocks[i]
        /\ blocks'[Len(blocks) + 1] = b
    BY <2>1, SequenceAppend DEF Sequences
  <2>3. Len(blocks) \in Nat
    BY SequenceDomain DEF Sequences
  <2>4. Len(blocks') <= MaxHeight
    BY <2>1, <2>2, <2>3, BlocksAssumption
  <2>5. ASSUME NEW h \in 1 .. Len(blocks') PROVE blocks'[h] \in Blocks
    <3>1. h \in 1 .. Len(blocks) \/ h = Len(blocks) + 1
      BY <2>2, <2>3
    <3> QED BY <2>2, <3>1 DEF Decided
  <2> QED BY <2>4, <2>5 DEF Decided
<1>3. CASE InitChain
  BY <1>1, <1>3 DEF InitChain, consensus
<1>4. CASE BeginBlock
  BY <1>1, <1>4 DEF BeginBlock, consensus
<1>5. CASE DeliverTx
  BY <1>1, <1>5 DEF DeliverTx, consensus
<1>6. CASE EndBlock
  BY <1>1, <1>6 DEF EndBlock, consensus
<1>7. CASE Commit
  BY <1>1, <1>7 DEF Commit
<1>8. CASE Crash
  BY <1>1, <1>8 DEF Crash, consensus
<1>9. CASE Restart
  BY <1>1, <1>9 DEF Restart, block, consensus
<1>10. CASE RollbackCmd
  BY <1>1, <1>10 DEF RollbackCmd, block, consensus
<1>11. CASE UNCHANGED vars
  BY <1>1, <1>11 DEF vars
<1> QED BY <1>2, <1>3, <1>4, <1>5, <1>6, <1>7, <1>8, <1>9, <1>10, <1>11 DEF Next

(* No more transactions of a block are delivered than it has.              *)
Within == done \in Nat /\ (phase = "block" => done <= Len(blocks[Height + 1]))

(* A block only makes room for its own transactions, at every step.        *)
LEMMA NextWithin == ASSUME IInv, Decided, Within, [Next]_vars PROVE Within'
<1>1. CASE done' = done /\ phase' # "block"
  BY <1>1 DEF Within
<1>2. CASE InitChain
  BY <1>1, <1>2 DEF InitChain
<1>3. ASSUME NEW b \in Blocks, Decide(b) PROVE Within'
  BY <1>1, <1>3 DEF Decide, block
<1>4. CASE BeginBlock
  <2>1. /\ done' = 0 /\ UNCHANGED <<db, blocks>> /\ Height < Len(blocks)
        /\ db[World].hash # << >>
    BY <1>4 DEF BeginBlock, store, consensus
  <2>2. Height \in Nat /\ Len(blocks) \in Nat
    BY <2>1, Standing DEF IInv, IsWorld, Height
  <2>3. blocks[Height + 1] \in Blocks
    BY <2>1, <2>2 DEF Decided
  <2>4. Len(blocks[Height + 1]) \in Nat
    BY <2>3, BlocksAssumption, LenProperties
  <2> QED BY <2>1, <2>4 DEF Within, Height
<1>5. CASE DeliverTx
  <2>1. /\ done' = done + 1 /\ done < Len(blocks[Height + 1]) /\ UNCHANGED <<db, blocks>>
        /\ phase = "block" /\ done \in Nat
    BY <1>5 DEF DeliverTx, store, consensus, Within
  <2>2. /\ Height < Len(blocks) /\ Height \in Nat /\ Len(blocks) \in Nat
    BY <2>1, Standing DEF IInv, Calls
  <2>3. blocks[Height + 1] \in Blocks
    BY <2>2 DEF Decided
  <2>4. Len(blocks[Height + 1]) \in Nat
    BY <2>3, BlocksAssumption, LenProperties
  <2> QED BY <2>1, <2>4 DEF Within, Height
<1>6. CASE EndBlock
  BY <1>1, <1>6 DEF EndBlock
<1>7. CASE Commit
  BY <1>1, <1>7 DEF Commit
<1>8. CASE Crash
  BY <1>8 DEF Crash, Within
<1>9. CASE Restart
  BY <1>1, <1>9 DEF Restart, block
<1>10. CASE RollbackCmd
  BY <1>1, <1>10 DEF RollbackCmd, block
<1>11. CASE UNCHANGED vars
  BY <1>11 DEF vars, Within, Height
<1> QED BY <1>2, <1>3, <1>4, <1>5, <1>6, <1>7, <1>8, <1>9, <1>10, <1>11 DEF Next

(* What the next block makes of sound contents.                            *)
LEMMA ContentsNext ==
  ASSUME Sequences, Recorded, Decided, NEW i \in Nat, i + 1 <= Len(first),
         Sound(Contents(first, i))
  PROVE  /\ Sound(Contents(first, i + 1))
         /\ Entered(i + 1, Contents(first, i), Contents(first, i + 1))
<1>1. Len(first) \in Nat /\ Len(blocks) \in Nat /\ Len(first) <= Len(blocks)
      /\ Len(blocks) <= MaxHeight /\ MaxHeight \in Nat
  BY SequenceDomain, BlocksAssumption DEF Sequences, Recorded, Decided
<1>2. /\ i + 1 \in 1 .. Len(first) /\ i + 1 \in 1 .. Len(blocks) /\ (i + 1) - 1 = i
      /\ i + 1 \in 1 .. MaxHeight /\ i \in 0 .. Len(first) /\ i <= Len(first) /\ i + 1 # 0
  BY <1>1
<1>3. PICK d : d = Contents(first, i)
  OBVIOUS
<1>4. PICK b \in Blocks : b = blocks[i + 1]
  BY <1>2 DEF Decided
<1>5. Sound(d) /\ IsWorld(d[World]) /\ d[World].height = i /\ d[World].hash # << >>
  BY <1>2, <1>3 DEF Recorded
<1>6. PICK run : /\ Len(b) \in Nat
                 /\ Run(d, b, Len(b), run)
                 /\ first[i + 1].contents = committed(d, ended(d, run[Len(b)]))
  BY <1>2, <1>3, <1>4 DEF Recorded, Executed
<1>7. PICK n \in Nat : n = Len(b)
  BY <1>6
<1>8. PICK p : p = run[n]
  OBVIOUS
<1>9. Sane(d, p)
  BY <1>2, <1>5, <1>6, <1>7, <1>8, RunSane
<1>10. PICK q : q = ended(d, p)
  OBVIOUS
<1>11. Good(d[World].hash, q.list, Lay(q.buffer, d)) /\ Entered(i + 1, d, Lay(q.buffer, d))
  BY <1>5, <1>9, <1>10, EndedGood DEF blockHeight
<1>12. Sound(committed(d, q))
  BY <1>5, <1>11, CommittedSound
<1>13. Entered(i + 1, d, committed(d, q))
  <2>1. Readable(Lay(q.buffer, d))
    BY <1>11 DEF Good
  <2> QED BY <1>11, <2>1, CommittedEntered
<1>14. Contents(first, i + 1) = committed(d, q)
  BY <1>2, <1>6, <1>7, <1>8, <1>10 DEF Contents
<1> QED BY <1>3, <1>12, <1>13, <1>14

(* All contents that were ever recorded are sound.                         *)
LEMMA ContentsSound ==
  ASSUME Sequences, Recorded, Decided
  PROVE  \A h \in 0 .. Len(first) : Sound(Contents(first, h))
<1>1. Len(first) \in Nat
  BY SequenceDomain DEF Sequences
<1> DEFINE N == {i \in Nat : i <= Len(first) => Sound(Contents(first, i))}
<1>2. 0 \in N
  BY GenesisSound DEF Contents
<1>3. ASSUME NEW i \in Nat, i \in N PROVE i + 1 \in N
  <2>1. SUFFICES ASSUME i + 1 <= Len(first) PROVE Sound(Contents(first, i + 1))
    OBVIOUS
  <2>2. Sound(Contents(first, i))
    BY <1>1, <1>3, <2>1
  <2> QED BY <2>1, <2>2, ContentsNext
<1> HIDE DEF N
<1>4. ASSUME NEW h \in 0 .. Len(first) PROVE Sound(Contents(first, h))
  <2>1. h \in N
    BY <1>1, <1>2, <1>3, NumberInduction
  <2> QED BY <1>1, <2>1 DEF N
<1> QED BY <1>4

(* In the contents v of height h, whoever has a balance is listed or took  *)
(* it as rewards before the fork.                                          *)
Holders(h, v) ==
  \A a \in Addr : v[Bal(a)] # 0 => NamesToken(v[Keys(a)]) \/ RewardedBefore(h, v, a)

LEMMA GenesisHolders == Holders(0, Genesis)
<1>1. NamesToken({"token"})
  BY DEF NamesToken
<1> QED BY <1>1, GenesisValues DEF Holders

(* It stays so from one height to the next: the balances that rewards left *)
(* unlisted are those of the last block before the fork from then on.      *)
LEMMA HoldersNext ==
  ASSUME Sequences, NEW i \in Nat, i + 1 <= Len(first),
         Holders(i, Contents(first, i)),
         Entered(i + 1, Contents(first, i), Contents(first, i + 1))
  PROVE  Holders(i + 1, Contents(first, i + 1))
<1>1. PICK d : d = Contents(first, i)
  OBVIOUS
<1>2. PICK v : v = Contents(first, i + 1)
  OBVIOUS
<1>3. Holders(i, d) /\ Entered(i + 1, d, v)
  BY <1>1, <1>2
<1>4. EffectBlockHeight \in Nat
  BY AddrAssumption
<1>5. SUFFICES ASSUME NEW a \in Addr, v[Bal(a)] # 0, ~NamesToken(v[Keys(a)])
               PROVE  RewardedBefore(i + 1, v, a)
  BY <1>2 DEF Holders
<1>6. CASE v[Bal(a)] # d[Bal(a)]
  BY <1>3, <1>5, <1>6 DEF Entered, RewardedBefore, Takers
<1>7. CASE v[Bal(a)] = d[Bal(a)]
  <2>1. RewardedBefore(i, d, a) /\ ~NamesToken(d[Keys(a)])
    BY <1>3, <1>5, <1>7 DEF Entered, Holders
  <2>2. CASE V2_0_1_13780(i + 1)
    BY <2>1, <2>2 DEF RewardedBefore
  <2>3. CASE ~V2_0_1_13780(i + 1) /\ ~V2_0_1_13780(i)
    BY <1>7, <2>1, <2>3 DEF RewardedBefore
  <2>4. CASE ~V2_0_1_13780(i + 1) /\ V2_0_1_13780(i)
    <3>1. EffectBlockHeight = i + 1
      BY <1>4, <2>4 DEF V2_0_1_13780
    <3>2. i # 0
      <4>1. d[Bal(a)] # 0
        BY <1>5, <1>7
      <4>2. Holders(0, Genesis) /\ (i = 0 => d = Genesis)
        BY <1>1, GenesisHolders DEF Contents
      <4>3. Genesis[Bal(a)] # 0 => Genesis[Keys(a)] = {"token"}
        BY <1>5, GenesisValues
      <4> QED BY <2>1, <4>1, <4>2, <4>3 DEF NamesToken
    <3>3. d = first[EffectBlockHeight - 1].contents /\ EffectBlockHeight > 1
      BY <1>1, <3>1, <3>2 DEF Contents
    <3> QED BY <1>7, <2>1, <3>3 DEF RewardedBefore
  <2> QED BY <2>2, <2>3, <2>4
<1> QED BY <1>6, <1>7

LEMMA ContentsHolders ==
  ASSUME Sequences, Recorded, Decided
  PROVE  \A h \in 0 .. Len(first) : Holders(h, Contents(first, h))
<1>1. Len(first) \in Nat
  BY SequenceDomain DEF Sequences
<1> DEFINE N == {i \in Nat : i <= Len(first) => Holders(i, Contents(first, i))}
<1>2. 0 \in N
  BY GenesisHolders DEF Contents
<1>3. ASSUME NEW i \in Nat, i \in N PROVE i + 1 \in N
  <2>1. SUFFICES ASSUME i + 1 <= Len(first) PROVE Holders(i + 1, Contents(first, i + 1))
    OBVIOUS
  <2>2. Holders(i, Contents(first, i)) /\ i \in 0 .. Len(first)
    BY <1>1, <1>3, <2>1
  <2>3. Entered(i + 1, Contents(first, i), Contents(first, i + 1))
    BY <2>1, <2>2, ContentsSound, ContentsNext
  <2> QED BY <2>1, <2>2, <2>3, HoldersNext
<1> HIDE DEF N
<1>4. ASSUME NEW h \in 0 .. Len(first) PROVE Holders(h, Contents(first, h))
  <2>1. h \in N
    BY <1>1, <1>2, <1>3, NumberInduction
  <2> QED BY <1>1, <2>1 DEF N
<1> QED BY <1>4

(* So is the database, unless it is empty.                                 *)
LEMMA DatabaseSound ==
  ASSUME IInv, Decided
  PROVE  IF Len(past) = 0 THEN db = NoContents
         ELSE Sound(db) /\ (Height < Len(blocks) => Height + 1 \in 1 .. MaxHeight)
<1>1. CASE Len(past) = 0
  BY <1>1, Standing DEF IInv
<1>2. CASE Len(past) # 0
  <2>1. /\ db = Contents(first, Len(past) - 1) /\ Len(past) - 1 \in 0 .. Len(first)
        /\ Height = Len(past) - 1 /\ Len(past) \in Nat /\ Len(blocks) \in Nat
    BY <1>2, Standing DEF IInv
  <2>2. Sound(db)
    BY <2>1, ContentsSound DEF IInv
  <2>3. Height < Len(blocks) => Height + 1 \in 1 .. MaxHeight
    BY <1>2, <2>1, BlocksAssumption DEF Decided
  <2> QED BY <1>2, <2>2, <2>3
<1> QED BY <1>1, <1>2

(* Where a block stands while it is delivered.                             *)
LEMMA BlockSane ==
  ASSUME IInv, Decided, Within, phase \in {"block", "ended"}
  PROVE  /\ Sound(db)
         /\ phase = "block" => Sane(db, Progress)
         /\ phase = "ended" => \E p : /\ Sane(db, p)
                                      /\ Progress = ended(db, p)
                                      /\ response = reported(p)
<1>1. /\ Len(past) # 0 /\ Height < Len(blocks) /\ done \in Nat
      /\ Height \in Nat /\ Len(blocks) \in Nat
  BY Standing DEF IInv, Calls
<1>2. Sound(db) /\ db[World].height + 1 \in 1 .. MaxHeight
  BY <1>1, DatabaseSound DEF Height
<1>3. PICK b \in Blocks : b = blocks[Height + 1]
  BY <1>1 DEF Decided
<1>4. PICK n \in Nat : n = done
  BY <1>1
<1>5. PICK d : d = db
  OBVIOUS
<1>6. Sound(d) /\ d[World].height + 1 \in 1 .. MaxHeight
  BY <1>2, <1>5
<1>7. ASSUME NEW run, Run(d, b, n, run), n <= Len(b) PROVE Sane(d, run[n])
  BY <1>6, <1>7, RunSane
<1>8. CASE phase = "block"
  <2>1. PICK run : Run(d, b, n, run) /\ Progress = run[n]
    BY <1>3, <1>4, <1>5, <1>8 DEF IInv, Progresses
  <2>2. n <= Len(b)
    BY <1>3, <1>4, <1>8 DEF Within
  <2> QED BY <1>2, <1>5, <1>7, <1>8, <2>1, <2>2
<1>9. CASE phase = "ended"
  <2>1. PICK run : /\ n = Len(b) /\ Run(d, b, n, run)
                   /\ Progress = ended(d, run[n]) /\ response = reported(run[n])
    BY <1>3, <1>4, <1>5, <1>9 DEF IInv, Progresses
  <2>2. Sane(d, run[n])
    BY <1>4, <1>7, <2>1
  <2> QED BY <1>2, <1>5, <1>9, <2>1, <2>2
<1> QED BY <1>8, <1>9

-----------------------------------------------------------------------------
(* The invariant is enough for the nonces of an account.                   *)
LEMMA NoncesAreInOrder == ASSUME IInv, Decided PROVE NoncesInOrder
<1>1. CASE Len(past) = 0
  <2>1. db = NoContents /\ db[World].hash = << >>
    BY <1>1, Standing DEF IInv
  <2>2. ASSUME NEW a \in Acct PROVE NoContents[Nonce(a)] = 0
    <3>1. Nonce(a) \in Key /\ Nonce(a) # World /\ Nonce(a) # Mines /\ Nonce(a)[1] # "keys"
      BY KeysOfAll, Kinds
    <3> QED BY <3>1 DEF NoContents
  <2> QED BY <2>1, <2>2, NoneRan DEF NoncesInOrder
<1>2. CASE Len(past) # 0
  <2>1. PICK d : d = db
    OBVIOUS
  <2>2. PICK H : H = d[World].hash
    OBVIOUS
  <2>3. Sound(d)
    BY <1>2, <2>1, DatabaseSound
  <2>4. ASSUME NEW a \in Acct PROVE InOrder(H, a, d[Nonce(a)])
    <3>1. PICK n : n = d[Nonce(a)]
      OBVIOUS
    <3>2. PICK M : M = Append(H, << >>)
      OBVIOUS
    <3>3. IsSequence(H) /\ InOrder(M, a, n)
      BY <2>2, <2>3, <3>1, <3>2 DEF Sound, Good, Ordered
    <3>4. RanAt(M, a) = RanAt(H, a) /\ \A x \in RanAt(H, a) : NonceAt(M, x) = NonceAt(H, x)
      BY <3>2, <3>3, RanAtEmpty
    <3>5. InOrder(H, a, n)
      BY <3>3, <3>4, OrderKept
    <3> QED BY <3>1, <3>5
  <2> QED BY <2>1, <2>2, <2>4 DEF NoncesInOrder
<1> QED BY <1>1, <1>2

(* The invariant is enough for the lists of keys.                          *)
LEMMA KeyListIsComplete == ASSUME IInv, Decided PROVE KeyListComplete
<1>1. CASE Len(past) = 0
  <2>1. db = NoContents
    BY <1>1, Standing DEF IInv
  <2>2. ASSUME NEW k \in Key, k # World, k # Mines, k[1] # "keys" PROVE NoContents[k] = 0
    BY <2>2 DEF NoContents
  <2>3. \A a \in Acct : NoContents[Nonce(a)] = 0
    BY <2>2, KeysOfAll, Kinds
  <2>4. \A a \in Addr : NoContents[Bal(a)] = 0
    BY <2>2, KeysOfAll, Kinds
  <2> QED BY <2>1, <2>3, <2>4 DEF KeyListComplete
<1>2. CASE Len(past) # 0
  <2>1. Sound(db)
    BY <1>2, DatabaseSound
  <2>2. db = Contents(first, Height) /\ Height \in 0 .. Len(first)
    BY <1>2, Standing DEF IInv
  <2>3. Holders(Height, db)
    BY <2>2, ContentsHolders DEF IInv
  <2> QED BY <2>1, <2>3 DEF Sound, Good, Listed, Holders, KeyListComplete
<1> QED BY <1>1, <1>2

(* The invariant is enough for what EndBlock reports.                      *)
LEMMA EndBlockReportsChanges == ASSUME IInv, Decided, Within PROVE EndBlockReports
<1>1. SUFFICES ASSUME phase = "ended" PROVE EndBlockReports
  BY DEF EndBlockReports
<1>2. PICK p : Sane(db, p) /\ Progress = ended(db, p) /\ response = reported(p)
  BY <1>1, BlockSane
<1>3. PICK v : v = Lay(p.buffer, db)
  OBVIOUS
<1>4. /\ View[Vals] = v[Vals] /\ View[Chains] = v[Chains]
      /\ ChainsLeft(db, hashList) = ChainsLeft(db, p.list)
  <2>1. View = Lay(Progress.buffer, db) /\ hashList = Progress.list
    BY DEF View, Progress
  <2> QED BY <1>2, <1>3, <2>1, EndedGood
<1>5. Readable(v) /\ Reports(db, v, p)
  BY <1>2, <1>3 DEF Sane, Good
<1>6. response.validators = IF v[Vals] = db[Vals] THEN 0 ELSE v[Vals]
  BY <1>2, <1>5 DEF Readable, Reports, reported
<1>7. PICK L : L = ChainsLeft(db, hashList)
  OBVIOUS
<1>8. PICK n : n = response.scGenesis
  OBVIOUS
<1>9. ChainsReported(L, db[Chains], View[Chains], n)
  BY <1>2, <1>4, <1>5, <1>7, <1>8 DEF Reports, reported
<1>10. IF View[Chains] = db[Chains]
       THEN n = 0
       ELSE /\ n - 1 \in L \ {View[Chains]}
            /\ \A m \in L \ {View[Chains]} : m < n
  <2>1. View[Chains] \in Nat
    BY <1>4, <1>5 DEF Readable
  <2> QED BY <1>9, <2>1 DEF ChainsReported
<1> QED BY <1>4, <1>6, <1>7, <1>8, <1>10 DEF EndBlockReports

(* A step that delivers a failed transaction only takes its fee.           *)
LEMMA FailedTxPays ==
  ASSUME IInv, Decided, Within, [Next]_vars, done' = done + 1, Last(hashList').code # "ok"
  PROVE  \A k \in Key :
           \/ View[k] = View'[k]
           \/ k[1] \in {"nonce", "keys"}
           \/ \E a \in DOMAIN Last(hashList').fees : k = Bal(a)
           \/ \E r \in Range(Strategy) : k = Bal(rewardAddr(r))
<1>1. done' # done /\ done' # 0
  BY DEF Within
<1>2. DeliverTx
  BY <1>1 DEF Next, vars, InitChain, Decide, block, BeginBlock, EndBlock, Commit, Crash,
              Restart, RollbackCmd
<1>3. PICK b \in Blocks : b = blocks[Height + 1]
  <2>1. Height + 1 \in 1 .. Len(blocks)
    BY <1>2, Standing DEF IInv, Calls, DeliverTx
  <2> QED BY <2>1 DEF Decided
<1>4. PICK tx \in {Malformed} \cup Tx : tx = b[done + 1]
  <2>1. PICK T : T = {Malformed} \cup Tx
    OBVIOUS
  <2>2. PICK s \in Seq(T) : s = b
    BY <2>1, BlocksAssumption
  <2>3. Len(s) \in Nat /\ \A i \in 1 .. Len(s) : s[i] \in T
    BY SequenceOver, SequenceDomain
  <2>4. done \in Nat /\ done < Len(s)
    BY <1>2, <1>3, <2>2 DEF DeliverTx, Within
  <2> QED BY <2>1, <2>2, <2>3, <2>4
<1>5. PICK d : d = db
  OBVIOUS
<1>6. PICK p : p = Progress
  OBVIOUS
<1>7. PICK q : q = deliverBCTx(d, p, tx)
  OBVIOUS
<1>8. Becomes(q) /\ db' = db
  BY <1>2, <1>3, <1>4, <1>5, <1>6, <1>7 DEF DeliverTx, store
<1>9. PICK v : v = View
  OBVIOUS
<1>10. PICK u : u = View'
  OBVIOUS
<1>11. v = Lay(p.buffer, d) /\ u = Lay(q.buffer, d) /\ hashList' = q.list
  BY <1>5, <1>6, <1>8, <1>9, <1>10 DEF View, Progress, Becomes
<1>12. Sane(d, p)
  BY <1>2, <1>5, <1>6, BlockSane DEF DeliverTx
<1>13. CASE tx # Malformed /\ CheckAccountNonce(v, tx.sender, tx.nonce)
  <2>1. IsTx(tx)
    BY <1>13, TxIsTx
  <2>2. q = runDeliverTx(d, p, tx)
    BY <1>7, <1>11, <1>13 DEF deliverBCTx
  <2>3. Ran(v, u, p, q, tx)
    BY <1>11, <1>12, <2>1, <2>2, RunRan DEF Sane, Good
  <2>4. PICK e : Hashed(v, u, p, q, tx, e)
    BY <2>3 DEF Ran
  <2>5. Last(q.list) = e
    BY <1>12, <2>4, LastOfAppend DEF Hashed, Sane, Good, Ordered
  <2>6. OnlyPays(v, u, e)
    BY <1>11, <2>4, <2>5 DEF Hashed
  <2>7. \A a \in Takers : \E r \in Range(Strategy) : a = rewardAddr(r)
    BY DEF Takers
  <2> QED BY <1>9, <1>10, <1>11, <2>5, <2>6, <2>7 DEF OnlyPays
<1>14. CASE ~(tx # Malformed /\ CheckAccountNonce(v, tx.sender, tx.nonce))
  <2>1. q = reportFailure(p, tx)
    BY <1>7, <1>11, <1>14 DEF deliverBCTx
  <2>2. q.buffer = p.buffer
    BY <1>12, <2>1 DEF reportFailure, Sane, IsProgress
  <2> QED BY <1>9, <1>10, <1>11, <2>2
<1> QED BY <1>13, <1>14

(* The invariant is enough for the money.                                  *)
LEMMA SupplyIsKept == ASSUME IInv, Decided PROVE SupplyNeverGrows
<1>1. SUFFICES ASSUME db[World].hash # << >>
               PROVE  SumBalances(Genesis) - SumBalances(db)
                        \in 0 .. FeesInAll(db[World].hash) * (Len(Strategy) - 1)
  BY DEF SupplyNeverGrows
<1>2. Len(past) # 0
  BY <1>1, Standing DEF IInv
<1>3. PICK H : H = db[World].hash
  OBVIOUS
<1>4. PICK none : none = << >>
  OBVIOUS
<1>5. Accounted(H, none, db)
  BY <1>2, <1>3, <1>4, DatabaseSound DEF Sound, Good
<1>6. FeesIn(none) = 0
  BY <1>4, FeesInNone
<1>7. FeesInAll(H) \in Nat
  BY <1>5, FeesInAllType DEF Accounted
<1>8. FeesInAll(H) + FeesIn(none) = FeesInAll(H)
  BY <1>6, <1>7
<1> QED BY <1>3, <1>5, <1>8 DEF Accounted

(* The transaction that a block delivers next.                             *)
LEMMA NextTx ==
  ASSUME IInv, Decided, Within, DeliverTx
  PROVE  blocks[Height + 1][done + 1] \in {Malformed} \cup Tx
<1>1. PICK b \in Blocks : b = blocks[Height + 1]
  <2>1. Height + 1 \in 1 .. Len(blocks)
    BY Standing DEF IInv, Calls, DeliverTx
  <2> QED BY <2>1 DEF Decided
<1>2. PICK T : T = {Malformed} \cup Tx
  OBVIOUS
<1>3. PICK s \in Seq(T) : s = b
  BY <1>2, BlocksAssumption
<1>4. Len(s) \in Nat /\ \A i \in 1 .. Len(s) : s[i] \in T
  BY SequenceOver, SequenceDomain
<1>5. done \in Nat /\ done < Len(s)
  BY <1>1, <1>3 DEF DeliverTx, Within
<1> QED BY <1>1, <1>2, <1>3, <1>4, <1>5

(* Only a transaction that fails and pays for it overdraws a balance.      *)
LEMMA DeliveredOverdraws ==
  ASSUME NEW d, NEW p, Sane(d, p), NEW tx \in {Malformed} \cup Tx,
         NEW q, q = deliverBCTx(d, p, tx), NEW v, v = Lay(p.buffer, d),
         NEW u, u = Lay(q.buffer, d), NEW a \in Addr, u[Bal(a)] < 0, u[Bal(a)] < v[Bal(a)]
  PROVE  Last(q.list).code = "failed" /\ a \in DOMAIN Last(q.list).fees
<1>1. CASE tx # Malformed /\ CheckAccountNonce(v, tx.sender, tx.nonce)
  <2>1. IsTx(tx)
    BY <1>1, TxIsTx
  <2>2. q = runDeliverTx(d, p, tx)
    BY <1>1 DEF deliverBCTx
  <2>3. Readable(v) /\ Valued(v) /\ IsSequence(p.list)
    BY DEF Sane, Good, Accounted, Ordered
  <2>4. Costs(v, u, p, q)
    BY <2>1, <2>2, <2>3, RunCosts
  <2>5. PICK e : /\ q.list = Append(p.list, e)
                 /\ e.code = "failed" \/ e.code = "ok"
                 /\ Cost(v, u, e.code = "ok", e.fees)
    BY <2>4 DEF Costs
  <2>6. e.code # "ok" /\ a \in DOMAIN e.fees
    BY <2>5 DEF Cost
  <2>7. Last(q.list) = e
    BY <2>3, <2>5, LastOfAppend
  <2> QED BY <2>5, <2>6, <2>7
<1>2. CASE ~(tx # Malformed /\ CheckAccountNonce(v, tx.sender, tx.nonce))
  <2>1. q = reportFailure(p, tx)
    BY <1>2 DEF deliverBCTx
  <2>2. q.buffer = p.buffer
    BY <2>1 DEF reportFailure, Sane, IsProgress
  <2>3. u[Bal(a)] = v[Bal(a)] /\ v[Bal(a)] \in Int
    BY <2>2 DEF Sane, Good, Accounted, Valued
  <2> QED BY <2>3
<1> QED BY <1>1, <1>2

(* No transaction is open while the process is down.                       *)
Closed == phase = "down" => ~open

(* Every step leaves none open when the process dies.                      *)
LEMMA NextClosed == ASSUME Closed, [Next]_vars PROVE Closed'
<1>1. CASE UNCHANGED <<phase, open>>
  BY <1>1 DEF Closed
<1>2. CASE phase' # "down" \/ open' = FALSE
  BY <1>2 DEF Closed
<1>3. CASE InitChain
  BY <1>2, <1>3 DEF InitChain
<1>4. ASSUME NEW b \in Blocks, Decide(b) PROVE Closed'
  BY <1>1, <1>4 DEF Decide, block
<1>5. CASE BeginBlock
  BY <1>2, <1>5 DEF BeginBlock
<1>6. CASE DeliverTx
  BY <1>1, <1>6 DEF DeliverTx
<1>7. CASE EndBlock
  BY <1>2, <1>7 DEF EndBlock
<1>8. CASE Commit
  BY <1>2, <1>8 DEF Commit
<1>9. CASE Crash
  BY <1>2, <1>9 DEF Crash
<1>10. CASE Restart
  BY <1>2, <1>10 DEF Restart
<1>11. CASE RollbackCmd
  BY <1>1, <1>11 DEF RollbackCmd, block
<1>12. CASE UNCHANGED vars
  BY <1>1, <1>12 DEF vars
<1> QED BY <1>3, <1>4, <1>5, <1>6, <1>7, <1>8, <1>9, <1>10, <1>11, <1>12 DEF Next

(* What a block has laid over the committed contents, or nothing.          *)
LEMMA ViewIsValued == ASSUME IInv, Decided, Within PROVE \A a \in Addr : View[Bal(a)] \in Int
<1>1. CASE phase \in {"block", "ended"}
  <2>1. phase = "block" => Valued(View)
    BY <1>1, BlockSane DEF Sane, Good, Accounted, View, Progress
  <2>2. phase = "ended" => Valued(View)
    <3>1. SUFFICES ASSUME phase = "ended" PROVE Valued(View)
      OBVIOUS
    <3>2. PICK p : Sane(db, p) /\ Progress = ended(db, p)
      BY <3>1, BlockSane
    <3>3. View = Lay(Progress.buffer, db)
      BY DEF View, Progress
    <3> QED BY <3>2, <3>3, EndedGood DEF Good, Accounted
  <2> QED BY <1>1, <2>1, <2>2 DEF Valued
<1>2. CASE phase \notin {"block", "ended"}
  <2>1. View = Lay(Empty, db)
    BY <1>2 DEF IInv, Calls, View
  <2>2. CASE Len(past) = 0
    <3>1. db = NoContents
      BY <2>2, DatabaseSound
    <3>2. DOMAIN NoContents = Key
      BY DEF NoContents
    <3>3. DOMAIN Empty = {}
      BY EmptySequence DEF Empty
    <3>4. ASSUME NEW a \in Addr PROVE NoContents[Bal(a)] = 0
      <4>1. Bal(a) \in Key /\ Bal(a) # World /\ Bal(a) # Mines /\ Bal(a)[1] # "keys"
        BY KeysOfAll, Kinds
      <4> QED BY <4>1 DEF NoContents
    <3>5. ASSUME NEW a \in Addr PROVE Lay(Empty, NoContents)[Bal(a)] = 0
      <4>1. Bal(a) \in Key
        BY KeysOfAll
      <4> QED BY <3>2, <3>3, <3>4, <4>1 DEF Lay
    <3> QED BY <2>1, <3>1, <3>5
  <2>3. CASE Len(past) # 0
    <3>1. Sound(db)
      BY <2>3, DatabaseSound
    <3>2. Valued(View)
      BY <2>1, <3>1, GoodUnderEmpty DEF Good, Accounted
    <3> QED BY <3>2 DEF Valued
  <2> QED BY <2>2, <2>3
<1> QED BY <1>1, <1>2

(* What an overdrawn balance of an open transaction tells of the step: it  *)
(* delivered a transaction that failed, with a fee for who is overdrawn.   *)
LEMMA StepOverdraws ==
  ASSUME IInv, Decided, Within, Closed, [Next]_vars, NEW a \in Addr,
         View'[Bal(a)] < 0, View'[Bal(a)] < View[Bal(a)], open, open'
  PROVE  /\ done' = done + 1
         /\ Last(hashList').code = "failed"
         /\ a \in DOMAIN Last(hashList').fees
<1> DEFINE Tells == /\ done' = done + 1
                   /\ Last(hashList').code = "failed"
                   /\ a \in DOMAIN Last(hashList').fees
<1>1. PICK d : d = db
  OBVIOUS
<1>2. PICK v : v = View
  OBVIOUS
<1>3. PICK u : u = View'
  OBVIOUS
<1>4. v = Lay(buffer, d) /\ u = Lay(buffer', db')
  BY <1>1, <1>2, <1>3 DEF View
<1>5. u[Bal(a)] < 0 /\ u[Bal(a)] < v[Bal(a)] /\ v[Bal(a)] \in Int
  BY <1>2, <1>3, ViewIsValued
<1>6. CASE UNCHANGED <<db, buffer>>
  <2>1. u = v
    BY <1>1, <1>4, <1>6
  <2> QED BY <1>5, <2>1
<1>7. ASSUME Solvent(v, u), Valued(u) PROVE FALSE
  <2>1. u[Bal(a)] \in Int /\ u[Bal(a)] >= v[Bal(a)]
    BY <1>5, <1>7 DEF Solvent, Valued
  <2> QED BY <1>5, <2>1
<1>8. CASE InitChain
  BY <1>6, <1>8 DEF InitChain, store
<1>9. ASSUME NEW b \in Blocks, Decide(b) PROVE Tells
  BY <1>6, <1>9 DEF Decide, store, block
<1>10. CASE BeginBlock
  <2>1. phase = "idle" /\ db' = db /\ Height < Len(blocks) /\ db[World].hash # << >>
    BY <1>10 DEF BeginBlock, store
  <2>2. Sound(d) /\ d[World].height + 1 \in 1 .. MaxHeight
    BY <1>1, <2>1, DatabaseSound, Standing DEF IInv, Height
  <2>3. CASE Becomes(begun(db, Progress))
    <3>1. PICK q : q = begun(d, Fresh)
      OBVIOUS
    <3>2. buffer' = q.buffer
      BY <1>1, <2>1, <2>3, <3>1, BeginsFresh DEF IInv, Becomes
    <3>3. v = Lay(Empty, d) /\ u = Lay(q.buffer, d)
      BY <1>1, <1>4, <2>1, <3>2 DEF IInv, Calls
    <3>4. Sane(d, q) /\ Solvent(v, u)
      BY <2>2, <3>1, <3>3, BegunSane
    <3> QED BY <1>7, <3>3, <3>4 DEF Sane, Good, Accounted
  <2> QED BY <1>6, <1>10, <2>1, <2>3 DEF BeginBlock
<1>11. CASE DeliverTx
  <2>1. PICK tx \in {Malformed} \cup Tx : tx = blocks[Height + 1][done + 1]
    BY <1>11, NextTx
  <2>2. PICK p : p = Progress
    OBVIOUS
  <2>3. PICK q : q = deliverBCTx(d, p, tx)
    OBVIOUS
  <2>4. Becomes(q) /\ db' = db /\ done' = done + 1
    BY <1>1, <1>11, <2>1, <2>2, <2>3 DEF DeliverTx, store
  <2>5. v = Lay(p.buffer, d) /\ u = Lay(q.buffer, d) /\ hashList' = q.list
    BY <1>1, <1>4, <2>2, <2>4 DEF Progress, Becomes
  <2>6. Sane(d, p)
    BY <1>1, <1>11, <2>2, BlockSane DEF DeliverTx
  <2>7. u[Bal(a)] < 0 /\ u[Bal(a)] < v[Bal(a)]
    BY <1>5
  <2>8. Last(q.list).code = "failed" /\ a \in DOMAIN Last(q.list).fees
    BY <2>3, <2>5, <2>6, <2>7, DeliveredOverdraws
  <2> QED BY <2>4, <2>5, <2>8
<1>12. CASE EndBlock
  <2>1. PICK p : p = Progress
    OBVIOUS
  <2>2. PICK q : q = ended(d, p)
    OBVIOUS
  <2>3. Becomes(q) /\ db' = db
    BY <1>1, <1>12, <2>1, <2>2 DEF EndBlock, store
  <2>4. v = Lay(p.buffer, d) /\ u = Lay(q.buffer, d)
    BY <1>1, <1>4, <2>1, <2>3 DEF Progress, Becomes
  <2>5. Sane(d, p)
    BY <1>1, <1>12, <2>1, BlockSane DEF EndBlock
  <2>6. Good(d[World].hash, q.list, u) /\ Solvent(v, u)
    BY <2>2, <2>4, <2>5, EndedGood
  <2> QED BY <1>7, <2>6 DEF Good, Accounted
<1>13. CASE Commit
  BY <1>13 DEF Commit
<1>14. CASE Crash
  BY <1>14 DEF Crash
<1>15. CASE Restart
  BY <1>6, <1>15 DEF Restart, store, block
<1>16. CASE RollbackCmd
  BY <1>16 DEF RollbackCmd, Closed
<1>17. CASE UNCHANGED vars
  BY <1>6, <1>17 DEF vars
<1> QED BY <1>8, <1>9, <1>10, <1>11, <1>12, <1>13, <1>14, <1>15, <1>16, <1>17 DEF Next

-----------------------------------------------------------------------------
(* Block after block, whatever crashes and is replayed.                    *)
THEOREM BlocksAreSane == Spec => [](Decided /\ Within)
<1>1. Init => Decided /\ Within
  <2>1. Init => Decided
    BY InitDecided
  <2>2. Init => Within
    BY DEF Within, Init
  <2> QED BY <2>1, <2>2
<1>2. IInv /\ IInv' /\ (Decided /\ Within) /\ [Next]_vars => (Decided /\ Within)'
  BY NextDecided, NextWithin DEF IInv
<1> QED BY <1>1, <1>2, Invariance, PTL DEF Spec

(* An account's transactions run in the order of their nonces, each nonce  *)
(* once and none left out, in whatever is committed: after any crash,      *)
(* replay or rollback, and although a failed transaction keeps only its    *)
(* nonce (SetAccountNonce below the Tx that RollbackTx undoes).            *)
THEOREM NoncesAlwaysInOrder == Spec => []NoncesInOrder
<1>1. IInv /\ (Decided /\ Within) => NoncesInOrder
  BY NoncesAreInOrder
<1> QED BY <1>1, Invariance, BlocksAreSane, PTL

(* The list of an account's keys always names its nonce where it is not    *)
(* zero, and a token where a balance is not zero, in every order of first  *)
(* payments, first transactions and writes of the BVM, which writes over   *)
(* the list (SetAccountNonce, AddAccountToken, UpdateAccount).  The only   *)
(* balances without are those of the rewarded from before the fork, and    *)
(* none is paid into since (distributeFee).                                *)
THEOREM KeyListAlwaysComplete == Spec => []KeyListComplete
<1>1. IInv /\ (Decided /\ Within) => KeyListComplete
  BY KeyListIsComplete
<1> QED BY <1>1, Invariance, BlocksAreSane, PTL

(* EndBlock tells consensus of the validators exactly when its block       *)
(* changed them, as the block leaves them, and of a side chain exactly     *)
(* when the block made one; of the first that the last transaction that    *)
(* made any made, and of no other (packValidators, packSideChainGenesis,   *)
(* BCEndBlock), whatever failed after the change or was noted before a     *)
(* crash.                                                                  *)
THEOREM EndBlockAlwaysReports == Spec => []EndBlockReports
<1>1. IInv /\ (Decided /\ Within) => EndBlockReports
  BY EndBlockReportsChanges
<1> QED BY <1>1, Invariance, BlocksAreSane, PTL

(* The delivery of a transaction that fails changes no key but nonces,     *)
(* lists of keys and the balances of who pays its fees and of the rewarded *)
(* (RollbackTx and distributeFee in runDeliverTx).                         *)
THEOREM FailuresOnlyPay == Spec => FailedTxOnlyPaysFee
<1>1. IInv /\ (Decided /\ Within) /\ [Next]_vars =>
        [ /\ Len(hashList') = Len(hashList) + 1
          /\ done' = done + 1
          /\ Last(hashList').code # "ok"
          => \A k \in Key :
               \/ View[k] = View'[k]
               \/ k[1] \in {"nonce", "keys"}
               \/ \E a \in DOMAIN Last(hashList').fees : k = Bal(a)
               \/ \E r \in Range(Strategy) : k = Bal(rewardAddr(r))
        ]_vars
  BY FailedTxPays
<1> QED BY <1>1, Invariance, BlocksAreSane, PTL DEF Spec, FailedTxOnlyPaysFee

(* No money is created, and what is lost is the remainder of the divisions *)
(* in distributeFee, less than one unit for each rewarder of each fee that *)
(* the committed transactions paid: whatever transfers, fees of failures,  *)
(* mining, replays and rollbacks there were, and although distributeFee    *)
(* charges balances that cannot bear it.                                   *)
THEOREM SupplyOnlyShrinks == Spec => []SupplyNeverGrows
<1>1. IInv /\ (Decided /\ Within) => SupplyNeverGrows
  BY SupplyIsKept
<1> QED BY <1>1, Invariance, BlocksAreSane, PTL

(* A process that is down holds no open transaction (Crash ends what       *)
(* InitChain or BeginBlock opened), so that the rollback command never     *)
(* changes what an open transaction reads.                                 *)
THEOREM ClosedWhenDown == Spec => []Closed
<1>1. Init => Closed
  BY DEF Init, Closed
<1>2. Closed /\ [Next]_vars => Closed'
  BY NextClosed
<1> QED BY <1>1, <1>2, PTL DEF Spec

(* A balance of an open transaction is driven below zero only by the       *)
(* delivery of a transaction that failed, and only for one who pays its    *)
(* fees (distributeFee after RollbackTx): not by a transaction that        *)
(* succeeds, by mining in EndBlock, or by the contracts that BeginBlock    *)
(* initialises.                                                            *)
THEOREM OnlyFailuresMayOverdraw == Spec => OnlyFailuresOverdraw
<1>1. IInv /\ (Decided /\ Within) /\ Closed /\ [Next]_vars =>
        [ \A a \in Addr :
            View'[Bal(a)] < 0 /\ View'[Bal(a)] < View[Bal(a)] /\ open /\ open'
              => LET e == Last(hashList')
                 IN done' = done + 1 /\ e.code = "failed" /\ a \in DOMAIN e.fees
        ]_vars
  BY StepOverdraws
<1> QED BY <1>1, Invariance, BlocksAreSane, ClosedWhenDown, PTL DEF Spec, OnlyFailuresOverdraw
=============================================================================
