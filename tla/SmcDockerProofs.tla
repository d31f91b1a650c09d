-------------------------- MODULE SmcDockerProofs --------------------------
(***************************************************************************)
(* For any organisations, callers and number of goroutines, at most one    *)
(* goroutine starts the docker of an organisation at a time.  The argument:*)
(* as long as a goroutine is alive its organisation has an entry in        *)
(* startingDocker, only the goroutine itself removes it, and the loop      *)
(* starts another one only when there is no entry.                         *)
(***************************************************************************)
EXTENDS SmcDocker, TLAPS

StarterType ==
  [pc : {"free", "build", "mkdir", "run", "publish", "answer"},
   org : Org \cup {NoEntry}, keys : SUBSET Org, left : Seq(Chan)]

CallerType ==
  [pc : {"idle", "send", "wait"}, org : Org \cup {NoEntry}, n : 0 .. MaxCalls]

ServerType ==
  [pc : {"recv", "load", "store"}, chan : Chan \cup {NoEntry},
   org : Org \cup {NoEntry}, list : Seq(Chan)]

(* The types of the variables, and which fields are set when.              *)
Types ==
  /\ url \subseteq Org
  /\ caller \in [Caller -> CallerType]
  /\ server \in ServerType
  /\ starting \in [Org -> Seq(Chan) \cup {NoEntry}]
  /\ starter \in [Slot -> StarterType]
  /\ \A c \in Caller : caller[c].pc # "idle" => caller[c].org \in Org /\ caller[c].n \in 1 .. MaxCalls
  /\ server.pc # "recv" => server.org \in Org /\ server.chan \in Chan
  /\ \A s \in Slot : starter[s].pc # "free" => starter[s].org \in Org

(* The entry of startingDocker is the lock of a running start.             *)
AliveHasEntry ==
  \A s \in Slot : starter[s].pc # "free" => starting[starter[s].org] # NoEntry

IInv == Types /\ AliveHasEntry /\ SingleStarter

(* A sequence of channels is never the mark for "no entry".                *)
LEMMA AppendIsEntry ==
  ASSUME NEW q \in Seq(Chan), NEW c \in Chan
  PROVE  /\ Append(q, c) \in Seq(Chan)
         /\ Append(q, c) # NoEntry
         /\ <<c>> \in Seq(Chan)
         /\ <<c>> # NoEntry
<1>1. Append(q, c) \in Seq(Chan)
  OBVIOUS
<1>2. <<c>> \in Seq(Chan)
  OBVIOUS
<1>3. \A x \in Seq(Chan) : x # NoEntry
  BY NoEntryAssumption
<1> QED
  BY <1>1, <1>2, <1>3

(* Initially there is no goroutine and no entry.                           *)
LEMMA InitInv == Init => IInv
<1> SUFFICES ASSUME Init PROVE IInv
  OBVIOUS
<1>1. Types
  BY CallsAssumption DEF Init, Types, Free, Recv, StarterType, CallerType, ServerType
<1>2. AliveHasEntry /\ SingleStarter
  BY DEF Init, AliveHasEntry, SingleStarter, Free
<1> QED
  BY <1>1, <1>2 DEF IInv

(* The steps of callers leave the goroutines and the map alone.            *)
LEMMA CallerStep ==
  ASSUME IInv, NEW c \in Caller,
         \/ \E o \in Org, outdated \in BOOLEAN : GetContractInvokeURL(c, o, outdated)
         \/ Receive(c)
  PROVE  IInv'
<1>1. CASE \E o \in Org, outdated \in BOOLEAN : GetContractInvokeURL(c, o, outdated)
  <2>1. PICK o \in Org, outdated \in BOOLEAN : GetContractInvokeURL(c, o, outdated)
    BY <1>1
  <2>2. Types'
    BY <2>1, CallsAssumption DEF IInv, Types, GetContractInvokeURL, CallerType
  <2>3. AliveHasEntry' /\ SingleStarter'
    BY <2>1 DEF IInv, AliveHasEntry, SingleStarter, GetContractInvokeURL
  <2> QED
    BY <2>2, <2>3 DEF IInv
<1>2. CASE Receive(c)
  <2>1. Types'
    <3>1. caller[c].org \in Org /\ caller[c].n \in 1 .. MaxCalls
      BY <1>2 DEF IInv, Types, Receive
    <3>2. <<c, caller[c].n>> \in Chan
      BY <3>1 DEF Chan
    <3>3. server' \in ServerType /\ server'.org \in Org /\ server'.chan \in Chan
      BY <1>2, <3>1, <3>2 DEF Receive, ServerType
    <3>4. /\ caller' \in [Caller -> CallerType]
          /\ \A d \in Caller : caller'[d].org = caller[d].org /\ caller'[d].n = caller[d].n
      BY <1>2 DEF IInv, Types, Receive, CallerType
    <3>5. \A d \in Caller : caller'[d].pc # "idle" => caller[d].pc # "idle"
      BY <1>2 DEF IInv, Types, Receive, CallerType
    <3> QED
      BY <1>2, <3>3, <3>4, <3>5 DEF IInv, Types, Receive
  <2>2. AliveHasEntry' /\ SingleStarter'
    BY <1>2 DEF IInv, AliveHasEntry, SingleStarter, Receive
  <2> QED
    BY <2>1, <2>2 DEF IInv
<1> QED
  BY <1>1, <1>2

(* The loop starts a goroutine only where there is no entry, so only where *)
(* no goroutine is alive, and the entry it stores covers the new one.      *)
LEMMA LoopStep ==
  ASSUME IInv, ServerLoad \/ ServerStore
  PROVE  IInv'
<1>1. CASE ServerLoad /\ alreadyStarting(server.org)
  <2>1. Types'
    BY <1>1 DEF IInv, Types, ServerLoad, ServerType, alreadyStarting
  <2>2. AliveHasEntry' /\ SingleStarter'
    BY <1>1 DEF IInv, AliveHasEntry, SingleStarter, ServerLoad
  <2> QED
    BY <2>1, <2>2 DEF IInv
<1>2. CASE ServerLoad /\ ~alreadyStarting(server.org)
  <2>1. /\ server.org \in Org
        /\ server.chan \in Chan
        /\ starting[server.org] = NoEntry
        /\ starting' = [starting EXCEPT ![server.org] = <<server.chan>>]
        /\ server' = Recv
        /\ UNCHANGED <<url, caller>>
    BY <1>2 DEF IInv, Types, ServerLoad, alreadyStarting
  <2>2. PICK s \in Slot : Spawn(s, server.org)
    BY <1>2 DEF ServerLoad
  <2>3. <<server.chan>> \in Seq(Chan) /\ <<server.chan>> # NoEntry
    BY <2>1, AppendIsEntry DEF IInv, Types, ServerType
  <2>4. starter'[s] = [Free EXCEPT !.pc = "build", !.org = server.org]
    BY <2>2 DEF Spawn, IInv, Types
  <2>5. /\ starter' \in [Slot -> StarterType]
        /\ starter'[s].org = server.org
        /\ \A t \in Slot \ {s} : starter'[t] = starter[t]
    <3>1. starter'[s] = [pc |-> "build", org |-> server.org, keys |-> {}, left |-> << >>]
      BY <2>4 DEF Free
    <3>2. << >> \in Seq(Chan)
      OBVIOUS
    <3>3. starter'[s] \in StarterType /\ starter'[s].org = server.org
      BY <2>1, <3>1, <3>2 DEF StarterType
    <3>4. starter \in [Slot -> StarterType]
      BY DEF IInv, Types
    <3> QED
      BY <2>2, <3>3, <3>4 DEF Spawn
  <2>6. Types'
    BY <2>1, <2>3, <2>5 DEF IInv, Types, Recv, ServerType
  <2>7. \A t \in Slot \ {s} : starter[t].pc # "free" => starter[t].org # server.org
    BY <2>1 DEF IInv, AliveHasEntry
  <2>8. AliveHasEntry'
    BY <2>1, <2>3, <2>5, <2>7 DEF IInv, Types, AliveHasEntry
  <2>9. SingleStarter'
    BY <2>5, <2>7 DEF IInv, SingleStarter
  <2> QED
    BY <2>6, <2>8, <2>9 DEF IInv
<1>3. CASE ServerStore
  <2>1. /\ server.org \in Org
        /\ Append(server.list, server.chan) \in Seq(Chan)
        /\ Append(server.list, server.chan) # NoEntry
    BY <1>3, AppendIsEntry DEF IInv, Types, ServerStore, ServerType
  <2>2. Types'
    BY <1>3, <2>1 DEF IInv, Types, ServerStore, continue, Recv, ServerType
  <2>3. AliveHasEntry'
    BY <1>3, <2>1 DEF IInv, Types, AliveHasEntry, ServerStore, continue
  <2>4. SingleStarter'
    BY <1>3 DEF IInv, SingleStarter, ServerStore, continue
  <2> QED
    BY <2>2, <2>3, <2>4 DEF IInv
<1> QED
  BY <1>1, <1>2, <1>3

(* Changing a live goroutine's record without changing its organisation.   *)
LEMMA Replaced ==
  ASSUME Types, NEW s \in Slot, starter[s].pc # "free",
         NEW r \in StarterType, r.org = starter[s].org,
         starter' = [starter EXCEPT ![s] = r]
  PROVE  /\ starter' \in [Slot -> StarterType]
         /\ \A t \in Slot : starter'[t].org = starter[t].org
         /\ \A t \in Slot : starter'[t].pc # "free" => starter[t].pc # "free"
<1>1. starter \in [Slot -> StarterType]
  BY DEF Types
<1>2. starter'[s] = r /\ \A t \in Slot \ {s} : starter'[t] = starter[t]
  BY <1>1
<1>3. starter' \in [Slot -> StarterType]
  BY <1>1
<1> QED
  BY <1>2, <1>3

(* A goroutine's steps keep its organisation until it removes the entry    *)
(* and ends; the other goroutines have other organisations.                *)
LEMMA StarterStep ==
  ASSUME IInv, NEW s \in Slot, Step(s)
  PROVE  IInv'
<1>1. CASE \/ Build(s) \/ Mkdir(s) \/ Run(s) \/ Publish(s)
           \/ \E o \in Org : Load(s, o)
  <2>1. starter[s].pc # "free" /\ UNCHANGED <<caller, server, starting>>
    BY <1>1 DEF Build, Mkdir, Run, Publish, Load
  <2>2. /\ starter \in [Slot -> StarterType]
        /\ starter[s] \in StarterType
        /\ starter[s].org \in Org
    BY <2>1 DEF IInv, Types
  <2>3. /\ starter' \in [Slot -> StarterType]
        /\ \A t \in Slot : starter'[t].org = starter[t].org
        /\ \A t \in Slot : starter'[t].pc # "free" => starter[t].pc # "free"
    <3>1. CASE \E pc \in {"mkdir", "run", "publish"} : Go(s, pc)
      <4>1. PICK pc \in {"mkdir", "run", "publish"} : Go(s, pc)
        BY <3>1
      <4> DEFINE r == [starter[s] EXCEPT !.pc = pc]
      <4>2. r \in StarterType /\ r.org = starter[s].org
        BY <2>2 DEF StarterType
      <4>3. starter' = [starter EXCEPT ![s] = r]
        BY <4>1 DEF Go
      <4> HIDE DEF r
      <4> QED
        BY <2>1, <4>2, <4>3, Replaced DEF IInv
    <3>2. CASE \E keys \in SUBSET Org : GoAnswer(s, keys)
      <4>1. PICK keys \in SUBSET Org : GoAnswer(s, keys)
        BY <3>2
      <4> DEFINE r == [starter[s] EXCEPT !.pc = "answer", !.keys = keys]
      <4>2. r \in StarterType /\ r.org = starter[s].org
        BY <2>2 DEF StarterType
      <4>3. starter' = [starter EXCEPT ![s] = r]
        BY <2>2, <4>1 DEF GoAnswer, StarterType
      <4> HIDE DEF r
      <4> QED
        BY <2>1, <4>2, <4>3, Replaced DEF IInv
    <3>3. CASE \E o \in Org : Load(s, o)
      <4>1. PICK o \in Org : Load(s, o)
        BY <3>3
      <4> DEFINE q == IF starting[o] = NoEntry THEN << >> ELSE starting[o]
                 r == [starter[s] EXCEPT !.keys = @ \ {o}, !.left = q]
      <4>2. q \in Seq(Chan)
        <5>1. << >> \in Seq(Chan)
          OBVIOUS
        <5>2. starting[o] \in Seq(Chan) \cup {NoEntry}
          BY DEF IInv, Types
        <5> QED
          BY <5>1, <5>2
      <4>3. starter' = [starter EXCEPT ![s] = r]
        BY <2>2, <4>1 DEF Load, StarterType
      <4> HIDE DEF q
      <4>4. r \in StarterType /\ r.org = starter[s].org
        BY <2>2, <4>2 DEF StarterType
      <4> HIDE DEF r
      <4> QED
        BY <2>1, <4>3, <4>4, Replaced DEF IInv
    <3> QED
      <4>1. {starter[s].org} \in SUBSET Org /\ Org \in SUBSET Org
        BY <2>2
      <4> QED
        BY <1>1, <3>1, <3>2, <3>3, <4>1 DEF Build, Mkdir, Run, Publish
  <2>5. url' \subseteq Org
    BY <1>1, <2>2 DEF Build, Mkdir, Run, Publish, Load, IInv, Types
  <2>6. Types'
    BY <2>1, <2>3, <2>5 DEF IInv, Types
  <2>7. AliveHasEntry' /\ SingleStarter'
    BY <2>1, <2>3 DEF IInv, AliveHasEntry, SingleStarter
  <2> QED
    BY <2>6, <2>7 DEF IInv
<1>2. CASE Answer(s)
  <2>1. starter[s].pc = "answer" /\ UNCHANGED <<url, server, starting>>
    BY <1>2 DEF Answer
  <2>2. starter' = [starter EXCEPT ![s].left = Tail(@)] /\ Tail(starter[s].left) \in Seq(Chan)
    BY <1>2 DEF Answer, IInv, Types, StarterType
  <2>3. /\ starter' \in [Slot -> StarterType]
        /\ \A t \in Slot : starter'[t].org = starter[t].org /\ starter'[t].pc = starter[t].pc
    BY <2>2 DEF IInv, Types, StarterType
  <2>4. PICK c : /\ c = Head(starter[s].left)[1]
                 /\ caller[c].pc = "wait"
                 /\ caller' = [caller EXCEPT ![c].pc = "idle"]
    BY <1>2 DEF Answer
  <2>5. /\ caller' \in [Caller -> CallerType]
        /\ \A d \in Caller : /\ caller'[d].org = caller[d].org
                             /\ caller'[d].n = caller[d].n
                             /\ caller'[d].pc # "idle" => caller[d].pc # "idle"
    <3>1. caller \in [Caller -> CallerType]
      BY DEF IInv, Types
    <3> DEFINE r == [caller[c] EXCEPT !.pc = "idle"]
    <3>2. CASE c \notin Caller
      BY <2>4, <3>1, <3>2
    <3>3. CASE c \in Caller
      <4>1. /\ r \in CallerType
            /\ r.org = caller[c].org
            /\ r.n = caller[c].n
            /\ r.pc = "idle"
        BY <3>1, <3>3 DEF CallerType
      <4>2. caller' = [caller EXCEPT ![c] = r]
        BY <2>4
      <4> HIDE DEF r
      <4>3. caller'[c] = r /\ \A d \in Caller \ {c} : caller'[d] = caller[d]
        BY <3>1, <3>3, <4>2
      <4> QED
        BY <3>1, <4>1, <4>2, <4>3
    <3> QED
      BY <3>2, <3>3
  <2>6. Types'
    BY <2>1, <2>3, <2>5 DEF IInv, Types
  <2>7. AliveHasEntry' /\ SingleStarter'
    BY <2>1, <2>3 DEF IInv, AliveHasEntry, SingleStarter
  <2> QED
    BY <2>6, <2>7 DEF IInv
<1>3. CASE Delete(s)
  <2>1. /\ starter[s].pc = "answer"
        /\ starter[s].org \in Org
        /\ starting' = [starting EXCEPT ![starter[s].org] = NoEntry]
        /\ starter' = [starter EXCEPT ![s] = Free]
        /\ UNCHANGED <<url, caller, server>>
    BY <1>3 DEF Delete, IInv, Types
  <2>2. /\ starter' \in [Slot -> StarterType]
        /\ starter'[s].pc = "free"
        /\ \A t \in Slot \ {s} : starter'[t] = starter[t]
    BY <2>1 DEF IInv, Types, StarterType, Free
  <2>3. Types'
    BY <2>1, <2>2 DEF IInv, Types
  <2>4. \A t \in Slot \ {s} : starter[t].pc # "free" => starter[t].org # starter[s].org
    BY <2>1 DEF IInv, SingleStarter
  <2>5. AliveHasEntry'
    BY <2>1, <2>2, <2>4 DEF IInv, Types, AliveHasEntry
  <2>6. SingleStarter'
    BY <2>2 DEF IInv, SingleStarter
  <2> QED
    BY <2>3, <2>5, <2>6 DEF IInv
<1> QED
  BY <1>1, <1>2, <1>3 DEF Step

(* Every step of the system preserves the invariant.                       *)
LEMMA NextInv == IInv /\ [Next]_vars => IInv'
<1> SUFFICES ASSUME IInv, [Next]_vars PROVE IInv'
  OBVIOUS
<1>1. CASE \E c \in Caller : \/ \E o \in Org, outdated \in BOOLEAN : GetContractInvokeURL(c, o, outdated)
                             \/ Receive(c)
  BY <1>1, CallerStep
<1>2. CASE ServerLoad \/ ServerStore
  BY <1>2, LoopStep
<1>3. CASE \E s \in Slot : Step(s)
  BY <1>3, StarterStep
<1>4. CASE (\E o \in Org : Dirty(o)) \/ UNCHANGED vars
  <2>1. url' \subseteq Org /\ UNCHANGED <<caller, server, starting, starter>>
    BY <1>4 DEF Dirty, vars, IInv, Types
  <2>2. Types'
    BY <2>1 DEF IInv, Types
  <2>3. AliveHasEntry' /\ SingleStarter'
    BY <2>1 DEF IInv, AliveHasEntry, SingleStarter
  <2> QED
    BY <2>2, <2>3 DEF IInv
<1> QED
  BY <1>1, <1>2, <1>3, <1>4 DEF Next, Step

(* At most one goroutine builds, kills and runs the docker of an           *)
(* organisation (runDockerSever), whatever the callers do.                 *)
THEOREM OneStarter == Spec => []SingleStarter
<1>1. IInv => SingleStarter
  BY DEF IInv
<1> QED
  BY <1>1, InitInv, NextInv, PTL DEF Spec
=============================================================================
