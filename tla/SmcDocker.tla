----------------------------- MODULE SmcDocker -----------------------------
(***************************************************************************)
(* Package smcdocker: how transactions being checked and delivered at the  *)
(* same time share the start of an organisation's contract docker.         *)
(*                                                                         *)
(* A caller that finds no URL for its organisation sends a request with a  *)
(* fresh channel to the loop of runDockerSever and waits on the channel.   *)
(* The loop starts one goroutine per organisation; further requests for    *)
(* the same organisation are added to its entry in the map startingDocker, *)
(* and the goroutine answers everyone it finds there when the docker is up *)
(* or has failed.  Each access to the map is atomic, the sequences of      *)
(* accesses are not.                                                       *)
(***************************************************************************)
EXTENDS Integers, Sequences

CONSTANTS
  Org,        \* organisations
  Caller,     \* goroutines that invoke contracts
  Slot,       \* bound: starter goroutines alive at the same time
  MaxCalls,   \* bound: requests of one caller
  NoEntry,    \* no entry in startingDocker
  Genesis,    \* the organisation of the genesis contract
  MkdirFails  \* whether creating the log directory may fail

VARIABLES
  url,        \* organisations in orgNameToURL
  caller,     \* what each caller does, for which organisation, and the
              \* number of its request (its channel is <<caller, number>>)
  server,     \* the loop: the request in hand and the list it has loaded
  starting,   \* startingDocker
  starter     \* the goroutines

vars == <<url, caller, server, starting, starter>>

Chan == Caller \X (1 .. MaxCalls)

ASSUME NoEntryAssumption == NoEntry \notin Seq(Chan)
ASSUME CallsAssumption == MaxCalls \in Nat

Free == [pc |-> "free", org |-> NoEntry, keys |-> {}, left |-> << >>]
Recv == [pc |-> "recv", chan |-> NoEntry, org |-> NoEntry, list |-> << >>]

Init ==
  /\ url = {}
  /\ caller = [c \in Caller |-> [pc |-> "idle", org |-> NoEntry, n |-> 0]]
  /\ server = Recv
  /\ starting = [o \in Org |-> NoEntry]
  /\ starter = [s \in Slot |-> Free]

-----------------------------------------------------------------------------
(* GetContractInvokeURL that finds no URL, up to the send.  The URL is     *)
(* dropped first when the organisation's code has changed since its docker *)
(* was built (outdated).  The genesis docker's URL is stored under its     *)
(* docker name and looked up under the empty organisation, so it is never  *)
(* found.  A call that finds a URL returns it and changes nothing here.    *)
GetContractInvokeURL(c, o, outdated) ==
  /\ caller[c].pc = "idle"
  /\ caller[c].n < MaxCalls
  /\ o = Genesis => ~outdated
  /\ o \notin url \/ outdated \/ o = Genesis
  /\ url' = IF outdated THEN url \ {o} ELSE url
  /\ caller' = [caller EXCEPT ![c] = [pc |-> "send", org |-> o, n |-> @.n + 1]]
  /\ UNCHANGED <<server, starting, starter>>

(* The loop receives the request; the caller now waits on its channel.     *)
Receive(c) ==
  /\ caller[c].pc = "send"
  /\ server.pc = "recv"
  /\ caller' = [caller EXCEPT ![c].pc = "wait"]
  /\ server' = [pc |-> "load", chan |-> <<c, caller[c].n>>,
                org |-> caller[c].org, list |-> << >>]
  /\ UNCHANGED <<url, starting, starter>>

Spawn(s, o) ==
  /\ starter[s].pc = "free"
  /\ starter' = [starter EXCEPT ![s] = [Free EXCEPT !.pc = "build", !.org = o]]

(* A variant ...Mut is a faulty form of the definition after it.           *)
alreadyStartingMut(o) == FALSE
alreadyStarting(o) == starting[o] # NoEntry

(* startingDocker.Load: a start is under way, or this is the first request *)
(* (only the loop adds entries, so nothing can come between).              *)
ServerLoad ==
  /\ server.pc = "load"
  /\ IF alreadyStarting(server.org)
     THEN /\ server' = [server EXCEPT !.pc = "store", !.list = starting[server.org]]
          /\ UNCHANGED <<starting, starter>>
     ELSE /\ server' = Recv
          /\ starting' = [starting EXCEPT ![server.org] = <<server.chan>>]
          /\ \E s \in Slot : Spawn(s, server.org)
  /\ UNCHANGED <<url, caller>>

(* What follows the store of the longer list: "continue".                  *)
continueMut == \E s \in Slot : Spawn(s, server.org)
continue == UNCHANGED starter

ServerStore ==
  /\ server.pc = "store"
  /\ starting' = [starting EXCEPT ![server.org] = Append(server.list, server.chan)]
  /\ server' = Recv
  /\ continue
  /\ UNCHANGED <<url, caller>>

-----------------------------------------------------------------------------
Go(s, pc) == starter' = [starter EXCEPT ![s].pc = pc]

(* Start to answer the waiters under these keys of startingDocker.         *)
GoAnswer(s, keys) ==
  starter' = [starter EXCEPT ![s].pc = "answer", ![s].keys = keys]

(* GetContractDllPath: builds the contracts; an error goes to the waiters. *)
BuildMut(s) ==
  /\ starter[s].pc = "build"
  /\ Go(s, "mkdir") \/ starter' = [starter EXCEPT ![s] = Free]
  /\ UNCHANGED <<url, caller, server, starting>>
Build(s) ==
  /\ starter[s].pc = "build"
  /\ Go(s, "mkdir") \/ GoAnswer(s, {starter[s].org})
  /\ UNCHANGED <<url, caller, server, starting>>

(* os.MkdirAll of the log directory.  Its error goes to the waiters of     *)
(* every organisation.                                                     *)
Mkdir(s) ==
  /\ starter[s].pc = "mkdir"
  /\ \/ Go(s, "run")
     \/ MkdirFails /\ GoAnswer(s, Org)
  /\ UNCHANGED <<url, caller, server, starting>>

(* Kill the old container and run a new one.                               *)
Run(s) ==
  /\ starter[s].pc = "run"
  /\ Go(s, "publish") \/ GoAnswer(s, {starter[s].org})
  /\ UNCHANGED <<url, caller, server, starting>>

(* The docker answers: orgNameToURL.Store.                                 *)
Publish(s) ==
  /\ starter[s].pc = "publish"
  /\ url' = url \cup {starter[s].org}
  /\ GoAnswer(s, {starter[s].org})
  /\ UNCHANGED <<caller, server, starting>>

(* startingDocker.Load or one step of its Range: the list of one key.      *)
Load(s, o) ==
  /\ starter[s].pc = "answer"
  /\ starter[s].left = << >>
  /\ o \in starter[s].keys
  /\ starter' = [starter EXCEPT
       ![s].keys = @ \ {o},
       ![s].left = IF starting[o] = NoEntry THEN << >> ELSE starting[o]]
  /\ UNCHANGED <<url, caller, server, starting>>

(* v <- RunDockerRes: the channel has no buffer, so the send waits until   *)
(* its caller receives, for ever if the caller has been answered already.  *)
Answer(s) ==
  /\ starter[s].pc = "answer"
  /\ starter[s].left # << >>
  /\ LET c == Head(starter[s].left)[1] IN
       /\ caller[c].pc = "wait"
       /\ caller[c].n = Head(starter[s].left)[2]
       /\ caller' = [caller EXCEPT ![c].pc = "idle"]
  /\ starter' = [starter EXCEPT ![s].left = Tail(@)]
  /\ UNCHANGED <<url, server, starting>>

(* startingDocker.Delete after the last answer.                            *)
Delete(s) ==
  /\ starter[s].pc = "answer"
  /\ starter[s].left = << >>
  /\ starter[s].keys = {}
  /\ starting' = [starting EXCEPT ![starter[s].org] = NoEntry]
  /\ starter' = [starter EXCEPT ![s] = Free]
  /\ UNCHANGED <<url, caller, server>>

(* DirtyContractInvokeURL, and for one organisation of their ranges        *)
(* DirtyAllURL and CheckDockerLiveTime: the URL goes.                      *)
Dirty(o) ==
  /\ o \in url
  /\ url' = url \ {o}
  /\ UNCHANGED <<caller, server, starting, starter>>

Step(s) == Build(s) \/ Mkdir(s) \/ Run(s) \/ Publish(s)
             \/ (\E o \in Org : Load(s, o)) \/ Answer(s) \/ Delete(s)

Next ==
  \/ \E c \in Caller, o \in Org, outdated \in BOOLEAN :
       GetContractInvokeURL(c, o, outdated)
  \/ \E c \in Caller : Receive(c)
  \/ ServerLoad
  \/ ServerStore
  \/ \E s \in Slot : Build(s)
  \/ \E s \in Slot : Mkdir(s)
  \/ \E s \in Slot : Run(s)
  \/ \E s \in Slot : Publish(s)
  \/ \E s \in Slot, o \in Org : Load(s, o)
  \/ \E s \in Slot : Answer(s)
  \/ \E s \in Slot : Delete(s)
  \/ \E o \in Org : Dirty(o)

Spec == Init /\ [][Next]_vars

(* Runnable goroutines run, and the waits inside a start are bounded.      *)
Fairness ==
  /\ \A c \in Caller : SF_vars(Receive(c))
  /\ WF_vars(ServerLoad \/ ServerStore)
  /\ \A s \in Slot : WF_vars(Step(s))

FairSpec == Spec /\ Fairness

-----------------------------------------------------------------------------
(* At most one goroutine builds, kills and runs the docker of an           *)
(* organisation: two would kill each other's container and publish the URL *)
(* of a dead one.                                                          *)
SingleStarter ==
  \A s, t \in Slot :
    /\ starter[s].pc # "free" /\ starter[t].pc # "free"
    /\ starter[s].org = starter[t].org
    => s = t

(* A failure to make a log directory shows in the keys to be answered.     *)
LogDirMade == \A s \in Slot : starter[s].keys # Org

(* A started goroutine ends, as long as the log directories can be made:   *)
(* none of its sends is to a channel on which nobody waits any more.       *)
StarterFinishes ==
  []LogDirMade =>
    \A s \in Slot : starter[s].pc # "free" ~> starter[s].pc = "free"

(* The loop never stores a list while the goroutine of the organisation is *)
(* answering the one it loaded.                                            *)
NoOvertaking ==
  \A s \in Slot :
    ~(server.pc = "store" /\ starter[s].org = server.org /\ starter[s].pc = "answer")

(* "get contract invoke URL" (smcdocker.go): a caller gets an answer, the  *)
(* URL or an error, also when the build or the docker fails.  The one      *)
(* exception is a request that the loop adds while the goroutine is        *)
(* answering: it is deleted unanswered, or left in an entry nobody serves. *)
CallersAnswered ==
  []LogDirMade /\ []NoOvertaking =>
    \A c \in Caller : caller[c].pc = "wait" ~> caller[c].pc # "wait"
=============================================================================
