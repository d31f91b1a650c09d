--------------------------- MODULE VersionedStore ---------------------------
(***************************************************************************)
(* What package statedb promises to the chain: a store whose contents are  *)
(* replaced by whole versions.  A commit adds one version, an undo returns *)
(* to the version before the last one, and nothing else is ever visible:   *)
(* neither a part of a transaction nor a mixture of two versions.          *)
(***************************************************************************)
EXTENDS Sequences, Integers

CONSTANTS
  Key,       \* the keys of the state database
  Val,       \* the values a key may have
  Nil        \* the empty value: the key is absent

VARIABLES
  current,   \* the contents a reader sees
  history    \* the versions before the current one, oldest first

vars == <<current, history>>

Contents == [Key -> Val \cup {Nil}]

Init ==
  /\ current \in Contents
  /\ history = << >>

(* One whole transaction becomes visible at once. *)
Commit ==
  /\ current' \in Contents
  /\ history' = Append(history, current)

(* The last transaction disappears without a trace. *)
Undo ==
  /\ history # << >>
  /\ current' = history[Len(history)]
  /\ history' = SubSeq(history, 1, Len(history) - 1)

Next == Commit \/ Undo

Spec == Init /\ [][Next]_vars
=============================================================================
