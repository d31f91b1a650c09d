-------------------------- MODULE ApplicationProofs --------------------------
(***************************************************************************)
(* Proofs about module Application, for the chain whose genesis data are   *)
(* in place (Spec): what is cached beside the database - the version of    *)
(* the chain, the stubs of both connections, what the container of the     *)
(* third-party contracts knows - agrees with the contents through blocks,  *)
(* crashes, replays, rollbacks and kills of the idle container; the nonces *)
(* are used in order; and a block that is executed again gives what it     *)
(* gave the first time.  A process that has served the Rollback call is    *)
(* behind: it may have cached what only contents it has undone had, and    *)
(* commits nothing.                                                        *)
(***************************************************************************)
EXTENDS Application, DataLemmas

-----------------------------------------------------------------------------
(* An entry of a transaction that ran.                                     *)
Ran(e) == e.code \notin {"rejected", "mined"}

(* The places of the hash lists H and of one more list.                    *)
LEMMA RanAtAppend ==
  ASSUME NEW H, IsSequence(H), NEW l, IsSequence(l), NEW e
  PROVE  LET old   == Append(H, l)
             new   == Append(H, Append(l, e))
             place == <<Len(H) + 1, Len(l) + 1>>
         IN /\ RanAt(new) = RanAt(old)
                 \cup (IF Ran(e) THEN {place} ELSE {})
            /\ \A x \in RanAt(old) : /\ NonceAt(new, x) = NonceAt(old, x)
                                     /\ Precedes(x, place)
                                     /\ ~Precedes(place, x)
            /\ ~Precedes(place, place)
            /\ NonceAt(new, place) = e.tx.nonce
<1> DEFINE n == Len(H)
           m == Len(l)
           place == <<n + 1, m + 1>>
           here == Ran(e)
<1>a. PICK el : el = Append(l, e)
  OBVIOUS
<1>b. PICK old : old = Append(H, l)
  OBVIOUS
<1>c. PICK new : new = Append(H, el)
  OBVIOUS
<1>1. /\ n \in Nat /\ m \in Nat
      /\ DOMAIN l = 1 .. m /\ DOMAIN el = 1 .. m + 1
      /\ \A i \in 1 .. m : el[i] = l[i]
      /\ el[m + 1] = e
  <2>1. /\ IsSequence(el) /\ Len(el) = m + 1
        /\ \A i \in 1 .. m : el[i] = l[i]
        /\ el[m + 1] = e
    BY <1>a, SequenceAppend
  <2>2. DOMAIN el = 1 .. m + 1
    BY <2>1, SequenceDomain
  <2>3. n \in Nat /\ m \in Nat /\ DOMAIN l = 1 .. m
    BY SequenceDomain
  <2> QED BY <2>1, <2>2, <2>3
<1>2. /\ DOMAIN old = 1 .. n + 1 /\ old[n + 1] = l
      /\ \A i \in 1 .. n : old[i] = H[i]
  <2>1. /\ IsSequence(old) /\ Len(old) = n + 1
        /\ \A i \in 1 .. n : old[i] = H[i]
        /\ old[n + 1] = l
    BY <1>b, SequenceAppend
  <2>2. DOMAIN old = 1 .. n + 1
    BY <2>1, SequenceDomain
  <2> QED BY <2>1, <2>2
<1>3. /\ DOMAIN new = 1 .. n + 1 /\ new[n + 1] = el
      /\ \A i \in 1 .. n : new[i] = H[i]
  <2>1. /\ IsSequence(new) /\ Len(new) = n + 1
        /\ \A i \in 1 .. n : new[i] = H[i]
        /\ new[n + 1] = el
    BY <1>c, SequenceAppend
  <2>2. DOMAIN new = 1 .. n + 1
    BY <2>1, SequenceDomain
  <2> QED BY <2>1, <2>2
<1>4. ASSUME NEW ls, NEW x
      PROVE  x \in RanAt(ls) <=>
               \E h \in DOMAIN ls : \E i \in DOMAIN ls[h] :
                 x = <<h, i>> /\ Ran(ls[h][i])
  <2>1. x \in UNION {{h} \X DOMAIN ls[h] : h \in DOMAIN ls}
          <=> \E h \in DOMAIN ls : \E i \in DOMAIN ls[h] : x = <<h, i>>
    OBVIOUS
  <2> QED BY <2>1 DEF RanAt, Ran
<1>5. ASSUME NEW h \in 1 .. n + 1, NEW i \in DOMAIN old[h]
      PROVE  /\ i \in DOMAIN new[h] /\ new[h][i] = old[h][i]
             /\ Precedes(<<h, i>>, place) /\ ~Precedes(place, <<h, i>>)
  <2>1. CASE h = n + 1
    <3>1. i \in 1 .. m
      BY <1>1, <1>2, <1>5, <2>1
    <3> QED BY <1>1, <1>2, <1>3, <2>1, <3>1 DEF Precedes
  <2>2. CASE h # n + 1
    <3>1. h \in 1 .. n
      BY <1>1, <2>2
    <3> QED BY <1>1, <1>2, <1>3, <3>1 DEF Precedes
  <2> QED BY <2>1, <2>2
<1>6. ASSUME NEW h \in 1 .. n + 1, NEW i \in DOMAIN new[h], <<h, i>> # place
      PROVE  i \in DOMAIN old[h] /\ new[h][i] = old[h][i]
  <2>1. CASE h = n + 1
    <3>1. i \in 1 .. m + 1 /\ i # m + 1
      BY <1>1, <1>3, <1>6, <2>1
    <3>2. i \in 1 .. m
      BY <1>1, <3>1
    <3> QED BY <1>1, <1>2, <1>3, <2>1, <3>2
  <2>2. CASE h # n + 1
    <3>1. h \in 1 .. n
      BY <1>1, <2>2
    <3> QED BY <1>2, <1>3, <1>6, <3>1
  <2> QED BY <2>1, <2>2
<1>7. /\ n + 1 \in DOMAIN new /\ m + 1 \in DOMAIN new[n + 1]
      /\ new[n + 1][m + 1] = e
  BY <1>1, <1>3
<1>8. ASSUME NEW x PROVE x \in RanAt(new) <=> x \in RanAt(old) \/ (here /\ x = place)
  <2>1. ASSUME x \in RanAt(new) PROVE x \in RanAt(old) \/ (here /\ x = place)
    <3>0. PICK h \in 1 .. n + 1 : \E i \in DOMAIN new[h] :
            x = <<h, i>> /\ Ran(new[h][i])
      BY <1>3, <1>4, <2>1
    <3>1. PICK i \in DOMAIN new[h] :
            x = <<h, i>> /\ Ran(new[h][i])
      BY <3>0
    <3>2. CASE x = place
      <4>1. h = n + 1 /\ i = m + 1
        BY <3>1, <3>2
      <4> QED BY <1>7, <3>1, <3>2, <4>1
    <3>3. CASE x # place
      BY <1>2, <1>4, <1>6, <3>1, <3>3
    <3> QED BY <3>2, <3>3
  <2>2. ASSUME x \in RanAt(old) PROVE x \in RanAt(new)
    <3>0. PICK h \in 1 .. n + 1 : \E i \in DOMAIN old[h] :
            x = <<h, i>> /\ Ran(old[h][i])
      BY <1>2, <1>4, <2>2
    <3>1. PICK i \in DOMAIN old[h] :
            x = <<h, i>> /\ Ran(old[h][i])
      BY <3>0
    <3> QED BY <1>3, <1>4, <1>5, <3>1
  <2>3. ASSUME here, x = place PROVE x \in RanAt(new)
    BY <1>4, <1>7, <2>3
  <2> QED BY <2>1, <2>2, <2>3
<1>9. RanAt(new) = RanAt(old) \cup (IF here THEN {place} ELSE {})
  BY <1>8
<1>10. ASSUME NEW x \in RanAt(old)
       PROVE  NonceAt(new, x) = NonceAt(old, x) /\ Precedes(x, place) /\ ~Precedes(place, x)
  <2>0. PICK h \in 1 .. n + 1 : \E i \in DOMAIN old[h] : x = <<h, i>>
    BY <1>2, <1>4
  <2>1. PICK i \in DOMAIN old[h] : x = <<h, i>>
    BY <2>0
  <2> QED BY <1>5, <2>1 DEF NonceAt
<1>11. ~Precedes(place, place) /\ NonceAt(new, place) = e.tx.nonce
  <2>1. place[1] = n + 1 /\ place[2] = m + 1
    OBVIOUS
  <2> QED BY <1>1, <1>7, <2>1 DEF Precedes, NonceAt
<1> QED BY <1>a, <1>b, <1>c, <1>9, <1>10, <1>11

(* A list more that is empty has no places.                                *)
LEMMA RanAtEmpty ==
  ASSUME NEW H, IsSequence(H)
  PROVE  LET old == H
             new == Append(H, << >>)
         IN /\ RanAt(new) = RanAt(old)
            /\ \A x \in RanAt(old) : NonceAt(new, x) = NonceAt(old, x)
<1> DEFINE n == Len(H)
<1>1. PICK new : new = Append(H, << >>)
  OBVIOUS
<1>2. PICK none : none = << >>
  OBVIOUS
<1>3. /\ n \in Nat
      /\ DOMAIN H = 1 .. n /\ DOMAIN new = 1 .. n + 1 /\ new[n + 1] = none
      /\ \A i \in 1 .. n : new[i] = H[i]
  <2>1. /\ IsSequence(new) /\ Len(new) = n + 1
        /\ \A i \in 1 .. n : new[i] = H[i]
        /\ new[n + 1] = none
    BY <1>1, <1>2, SequenceAppend
  <2>2. DOMAIN new = 1 .. n + 1
    BY <2>1, SequenceDomain
  <2>3. n \in Nat /\ DOMAIN H = 1 .. n
    BY SequenceDomain
  <2> QED BY <2>1, <2>2, <2>3
<1>4. DOMAIN none = {}
  BY <1>2, EmptySequence
<1>5. ASSUME NEW ls, NEW x
      PROVE  x \in RanAt(ls) <=>
               \E h \in DOMAIN ls : \E i \in DOMAIN ls[h] :
                 x = <<h, i>> /\ Ran(ls[h][i])
  <2>1. x \in UNION {{h} \X DOMAIN ls[h] : h \in DOMAIN ls}
          <=> \E h \in DOMAIN ls : \E i \in DOMAIN ls[h] : x = <<h, i>>
    OBVIOUS
  <2> QED BY <2>1 DEF RanAt, Ran
<1>6. \A h \in 1 .. n : h \in 1 .. n + 1
  BY <1>3
<1>7. \A h \in 1 .. n + 1 : h \in 1 .. n \/ h = n + 1
  BY <1>3
<1> HIDE DEF n
<1>8. ASSUME NEW x PROVE x \in RanAt(new) <=> x \in RanAt(H)
  BY <1>3, <1>4, <1>5, <1>6, <1>7
<1>9. ASSUME NEW x \in RanAt(H) PROVE NonceAt(new, x) = NonceAt(H, x)
  <2>1. PICK h \in 1 .. n : \E i \in DOMAIN H[h] : x = <<h, i>>
    BY <1>3, <1>5
  <2>2. PICK i \in DOMAIN H[h] : x = <<h, i>>
    BY <2>1
  <2> QED BY <1>3, <2>2 DEF NonceAt
<1> QED BY <1>1, <1>8, <1>9

(* The nonces stay in order while no transaction runs.                     *)
LEMMA OrderKept ==
  ASSUME NEW L, NEW M, NEW n, InOrder(L, n), RanAt(M) = RanAt(L),
         \A x \in RanAt(L) : NonceAt(M, x) = NonceAt(L, x)
  PROVE  InOrder(M, n)
<1>1. {NonceAt(M, x) : x \in RanAt(M)} = {NonceAt(L, x) : x \in RanAt(L)}
  OBVIOUS
<1> QED BY <1>1 DEF InOrder

(* One that runs with the next nonce carries the order on.                 *)
LEMMA OrderGoesOn ==
  ASSUME NEW L, NEW M, NEW n \in Nat, InOrder(L, n), NEW place,
         RanAt(M) = RanAt(L) \cup {place},
         \A x \in RanAt(L) :
           /\ NonceAt(M, x) = NonceAt(L, x)
           /\ Precedes(x, place)
           /\ ~Precedes(place, x),
         ~Precedes(place, place), NonceAt(M, place) = n + 1
  PROVE  InOrder(M, n + 1)
<1>1. \A x \in RanAt(L) : NonceAt(L, x) \in 1 .. n
  BY DEF InOrder
<1>2. {NonceAt(M, x) : x \in RanAt(M)} = 1 .. n + 1
  <2>1. {NonceAt(M, x) : x \in RanAt(M)} = {NonceAt(L, x) : x \in RanAt(L)} \cup {n + 1}
    OBVIOUS
  <2>2. {NonceAt(L, x) : x \in RanAt(L)} = 1 .. n
    BY DEF InOrder
  <2>3. (1 .. n) \cup {n + 1} = 1 .. n + 1
    OBVIOUS
  <2> QED BY <2>1, <2>2, <2>3
<1>3. ASSUME NEW x \in RanAt(M), NEW y \in RanAt(M), Precedes(x, y)
      PROVE  NonceAt(M, x) < NonceAt(M, y)
  <2>1. CASE x \in RanAt(L) /\ y \in RanAt(L)
    BY <1>3, <2>1 DEF InOrder
  <2>2. CASE x \in RanAt(L) /\ y = place
    BY <1>1, <2>2
  <2> QED BY <1>3, <2>1, <2>2
<1> QED BY <1>2, <1>3 DEF InOrder

(* What one more entry of the block's hash list means when the last nonce  *)
(* was n.                                                                  *)
LEMMA EntryInOrder ==
  ASSUME NEW H, IsSequence(H), NEW l, IsSequence(l), NEW e, NEW n \in Nat,
         InOrder(Append(H, l), n)
  PROVE  /\ ~Ran(e) => InOrder(Append(H, Append(l, e)), n)
         /\ Ran(e) /\ e.tx.nonce = n + 1
              => InOrder(Append(H, Append(l, e)), n + 1)
<1>1. PICK old : old = Append(H, l)
  OBVIOUS
<1>2. PICK new : new = Append(H, Append(l, e))
  OBVIOUS
<1>3. PICK place : place = <<Len(H) + 1, Len(l) + 1>>
  OBVIOUS
<1>4. /\ RanAt(new) = RanAt(old)
           \cup (IF Ran(e) THEN {place} ELSE {})
      /\ \A x \in RanAt(old) : /\ NonceAt(new, x) = NonceAt(old, x)
                               /\ Precedes(x, place)
                               /\ ~Precedes(place, x)
      /\ ~Precedes(place, place)
      /\ NonceAt(new, place) = e.tx.nonce
  BY <1>1, <1>2, <1>3, RanAtAppend
<1>5. CASE ~Ran(e)
  <2>1. RanAt(new) = RanAt(old)
    BY <1>4, <1>5
  <2>2. InOrder(new, n)
    BY <1>1, <1>4, <2>1, OrderKept
  <2> QED BY <1>2, <1>5, <2>2
<1>6. CASE Ran(e)
  <2>1. RanAt(new) = RanAt(old) \cup {place}
    BY <1>4, <1>6
  <2>2. e.tx.nonce = n + 1 => InOrder(new, n + 1)
    BY <1>1, <1>4, <2>1, OrderGoesOn
  <2> QED BY <1>2, <1>6, <2>2
<1> QED BY <1>5, <1>6

(* An empty list more or less does not change the order.                   *)
LEMMA EmptyInOrder ==
  ASSUME NEW H, IsSequence(H), NEW n
  PROVE  InOrder(Append(H, << >>), n) <=> InOrder(H, n)
<1>1. PICK new : new = Append(H, << >>)
  OBVIOUS
<1>2. /\ RanAt(new) = RanAt(H)
      /\ \A x \in RanAt(H) : NonceAt(new, x) = NonceAt(H, x)
  BY <1>1, RanAtEmpty
<1>3. InOrder(H, n) => InOrder(new, n)
  BY <1>2, OrderKept
<1>4. InOrder(new, n) => InOrder(H, n)
  BY <1>2, OrderKept
<1> QED BY <1>1, <1>3, <1>4

-----------------------------------------------------------------------------
(* A hash entry of an upgrade that was executed.                           *)
Upgrades(x) == x.tx # Nil /\ x.tx.kind = "upgrade" /\ x.code = "ok"

(* The entries of a chain up to its upgrade are of version 1, those of the *)
(* blocks after it of version 2.                                           *)
Switched(c) ==
  /\ c.version = 0 =>
       \A i \in DOMAIN c.hash : \A x \in Range(c.hash[i]) : x.by = 0 /\ ~Upgrades(x)
  /\ c.version = 2 =>
       \A i, j \in DOMAIN c.hash : \A x \in Range(c.hash[i]), y \in Range(c.hash[j]) :
         Upgrades(x) => y.by = IF j <= i THEN 0 ELSE 2

IsContents(c) ==
  c = [height |-> c.height, version |-> c.version, hash |-> c.hash, fee |-> c.fee,
       rewards |-> c.rewards, nonce |-> c.nonce, miners |-> c.miners,
       minersV2 |-> c.minersV2, mined |-> c.mined, token |-> c.token,
       third |-> c.third, calls |-> c.calls]

Good(c) ==
  /\ IsContents(c)
  /\ c.version \in {0, 2}
  /\ c.token \in BOOLEAN /\ c.third \in BOOLEAN
  /\ IsSequence(c.hash)
  /\ Switched(c)
  /\ c.nonce \in Nat /\ InOrder(c.hash, c.nonce)

(* The parts of the inductive invariant: the database and its history, in  *)
(* which nothing goes back, the records of the process, the cached         *)
(* version, the stubs, the container, and the block under way.             *)
Stored ==
  /\ Good(db)
  /\ IsSequence(past)
  /\ \A i \in 1 .. Len(past) : Good(past[i])

Grows(c, d) == c.version <= d.version /\ (c.token => d.token) /\ (c.third => d.third)

Ordered ==
  \A i \in 1 .. Len(past) : Grows(past[i], IF i = Len(past) THEN db ELSE past[i + 1])

Records ==
  /\ IsContents(work) /\ work.token \in BOOLEAN /\ work.third \in BOOLEAN
  /\ app = [chainVersion |-> app.chainVersion, updateChainVersion |-> app.updateChainVersion]
  /\ v1 = [version |-> v1.version, mineStub |-> v1.mineStub,
           mineContract |-> v1.mineContract, check |-> v1.check,
           deliver |-> v1.deliver, left |-> v1.left]
  /\ conn = [hashList |-> conn.hashList, fee |-> conn.fee, rewards |-> conn.rewards]
  /\ docker = [pool |-> docker.pool, known |-> docker.known, used |-> docker.used,
               kills |-> docker.kills]
  /\ docker.kills \in Nat
  /\ phase \in {"down", "idle", "block", "ended", "error transID",
                "failed to match app hash"}

next == IF db.version = 0 THEN v1.version ELSE db.version

Cached ==
  /\ phase = "down" => app = NewApp
  /\ phase = "idle" => app.chainVersion \in {Nil, db.version}
  /\ phase \in {"block", "ended"} => app.chainVersion = db.version
  /\ phase \in {"idle", "block"} => app.updateChainVersion = 0
  /\ phase = "ended" => app.updateChainVersion = IF next = db.version THEN 0 ELSE next

Stubs ==
  /\ phase = "idle" => v1.check = db.token /\ v1.deliver = db.token
  /\ phase \in {"block", "ended"} => v1.check = work.token /\ v1.deliver = work.token

Container ==
  /\ phase \in {"down", "idle"} => work.third = db.third
  /\ phase = "down" => docker.pool # "live"
  /\ phase # "down" =>
       /\ db.third => work.third
       /\ IF docker.pool = "live" THEN docker.known = work.third ELSE docker.kills > 0
  /\ phase = "error transID" => docker.kills > 0

Block ==
  phase \in {"block", "ended"} =>
    /\ work.version = db.version /\ work.hash = db.hash
    /\ db.token => work.token
    /\ v1.version \in {0, 2}
    /\ IsSequence(conn.hashList)
    /\ work.nonce \in Nat /\ InOrder(Append(db.hash, conn.hashList), work.nonce)
    /\ \A x \in Range(conn.hashList) :
         /\ x.by = db.version
         /\ Upgrades(x) => db.version = 0 /\ v1.version = 2

(* A process whose caches are those of the database; and one that has      *)
(* served a Rollback: what it has cached may be of the contents that were  *)
(* undone, which had whatever the committed ones have.                     *)
InStep == Stored /\ Records /\ Cached /\ Stubs /\ Container /\ Block

Behind ==
  /\ phase # "down"
  /\ phase = "idle" =>
       /\ app.chainVersion = Nil
            \/ (app.chainVersion \in {0, 2} /\ db.version <= app.chainVersion)
       /\ v1.check \in BOOLEAN /\ v1.deliver \in BOOLEAN
       /\ db.token => v1.check /\ v1.deliver
  /\ db.third => work.third
  /\ IF docker.pool = "live"
     THEN docker.known \in BOOLEAN /\ (work.third => docker.known)
     ELSE docker.kills > 0
  /\ phase = "error transID" => docker.kills > 0

IInv ==
  /\ Stored /\ Ordered /\ Records /\ ahead \in BOOLEAN
  /\ ahead => Behind
  /\ ~ahead => InStep

-----------------------------------------------------------------------------
(* What a v1 contract leaves of the contents when it succeeds.             *)
LEMMA Invoked ==
  ASSUME NEW kind, NEW c, IsContents(c), c.token \in BOOLEAN, c.third \in BOOLEAN,
         NEW r \in invokeV1(kind, c)
  PROVE  /\ IsContents(r)
         /\ r.version = c.version /\ r.hash = c.hash /\ r.nonce = c.nonce
         /\ r.token = (c.token \/ kind = "issue")
         /\ r.third = (c.third \/ kind = "deploy3d")
         /\ kind = "upgrade" => db.version = 0
<1>1. CASE kind \in {"call", "transfer"}
  <2>1. r = c
    BY <1>1 DEF invokeV1
  <2> QED BY <1>1, <2>1
<1>2. CASE kind = "mining"
  <2>1. r = [c EXCEPT !.miners = <<Contract(db.height + 2)>>]
    BY <1>2 DEF invokeV1, DeployInternalContract
  <2> QED BY <1>2, <2>1 DEF IsContents
<1>3. CASE kind = "issue"
  <2>1. r = [c EXCEPT !.token = TRUE]
    BY <1>3 DEF invokeV1, IssueToken
  <2> QED BY <1>3, <2>1 DEF IsContents
<1>4. CASE kind = "deploy3d"
  <2>1. r = [c EXCEPT !.third = TRUE]
    BY <1>4 DEF invokeV1, Deploy3d
  <2> QED BY <1>4, <2>1 DEF IsContents
<1>5. CASE kind = "call3d"
  <2>1. r = [c EXCEPT !.calls = @ + 1]
    BY <1>5 DEF invokeV1, Invoke, setToTxBuffer
  <2> QED BY <1>5, <2>1 DEF IsContents
<1>6. CASE kind = "upgrade"
  <2>1. r \in Upgrade(c)
    BY <1>6 DEF invokeV1
  <2>2. db.version = 0
    BY <2>1 DEF Upgrade
  <2>3. PICK m, n : r = [c EXCEPT !.miners = m, !.minersV2 = n]
    BY <2>1, <2>2 DEF Upgrade
  <2> QED BY <1>6, <2>2, <2>3 DEF IsContents
<1>7. CASE kind \notin {"call", "transfer", "mining", "issue", "deploy3d", "call3d", "upgrade"}
  BY <1>7 DEF invokeV1
<1> QED BY <1>1, <1>2, <1>3, <1>4, <1>5, <1>6, <1>7

(* The version that serves a call is the committed one.                    *)
LEMMA Serving ==
  ASSUME Cached, phase \in {"idle", "block", "ended"}
  PROVE  ChainVersion = db.version
BY DEF Cached, ChainVersion

(* Adding a block's list of entries keeps the versions in order.           *)
LEMMA SwitchedAppend ==
  ASSUME NEW c, NEW d, NEW list, NEW by,
         Good(c), d.version \in {0, 2}, by = c.version,
         \/ d.hash = c.hash
         \/ d.hash = Append(c.hash, list),
         c.version = 2 => d.version = 2,
         \A x \in Range(list) : x.by = by /\ (Upgrades(x) => by = 0 /\ d.version = 2)
  PROVE  IsSequence(d.hash) /\ Switched(d)
<1> DEFINE n == Len(c.hash)
<1>1. n \in Nat /\ DOMAIN c.hash = 1 .. n /\ IsSequence(c.hash) /\ c.version \in {0, 2}
  BY SequenceDomain DEF Good
<1>2. \A i \in 1 .. n : \A x \in Range(c.hash[i]) :
        c.version = 0 => x.by = 0 /\ ~Upgrades(x)
  BY <1>1 DEF Good, Switched
<1>3. CASE d.hash = c.hash
  <2>1. CASE d.version = 0
    BY <1>1, <1>2, <1>3, <2>1 DEF Switched
  <2>2. CASE d.version = 2 /\ c.version = 2
    BY <1>1, <1>3, <2>2 DEF Good, Switched
  <2>3. CASE d.version = 2 /\ c.version = 0
    BY <1>1, <1>2, <1>3, <2>3 DEF Switched
  <2> QED BY <1>1, <2>1, <2>2, <2>3
<1>4. CASE d.hash = Append(c.hash, list)
  <2>1. /\ IsSequence(d.hash) /\ Len(d.hash) = n + 1 /\ DOMAIN d.hash = 1 .. n + 1
        /\ \A i \in 1 .. n : d.hash[i] = c.hash[i]
        /\ d.hash[n + 1] = list
    BY <1>1, <1>4, SequenceAppend, SequenceDomain
  <2>2. ASSUME NEW i \in 1 .. n + 1, NEW x \in Range(d.hash[i])
        PROVE  \/ i \in 1 .. n /\ x \in Range(c.hash[i])
               \/ i = n + 1 /\ x \in Range(list)
    <3>1. CASE i = n + 1
      BY <2>1, <2>2, <3>1
    <3>2. CASE i # n + 1
      <4>1. i \in 1 .. n
        BY <1>1, <3>2
      <4> QED BY <2>1, <2>2, <4>1
    <3> QED BY <3>1, <3>2
  <2>3. ASSUME d.version = 0, NEW i \in DOMAIN d.hash, NEW x \in Range(d.hash[i])
        PROVE  x.by = 0 /\ ~Upgrades(x)
    BY <1>1, <1>2, <2>1, <2>2, <2>3
  <2>4. ASSUME d.version = 2, NEW i \in DOMAIN d.hash, NEW j \in DOMAIN d.hash,
               NEW x \in Range(d.hash[i]), NEW y \in Range(d.hash[j]), Upgrades(x)
        PROVE  y.by = IF j <= i THEN 0 ELSE 2
    <3>1. i \in 1 .. n + 1 /\ j \in 1 .. n + 1
      BY <2>1
    <3>2. CASE i = n + 1 /\ ~(i \in 1 .. n)
      <4>1. x \in Range(list) /\ c.version = 0
        BY <2>2, <2>4, <3>1, <3>2
      <4>2. j <= i /\ (y \in Range(list) \/ (j \in 1 .. n /\ y \in Range(c.hash[j])))
        BY <1>1, <2>2, <3>1, <3>2
      <4> QED BY <1>2, <4>1, <4>2
    <3>3. CASE i \in 1 .. n
      <4>1. x \in Range(c.hash[i]) /\ c.version = 2
        BY <1>1, <1>2, <2>2, <2>4, <3>1, <3>3
      <4>2. CASE j \in 1 .. n /\ y \in Range(c.hash[j])
        BY <1>1, <2>4, <3>3, <4>1, <4>2 DEF Good, Switched
      <4>3. CASE j = n + 1 /\ y \in Range(list)
        BY <1>1, <3>3, <4>1, <4>3
      <4> QED BY <2>2, <3>1, <4>2, <4>3
    <3> QED BY <1>1, <3>1, <3>2, <3>3
  <2> QED BY <2>1, <2>3, <2>4 DEF Switched
<1> QED BY <1>3, <1>4

-----------------------------------------------------------------------------
(* The node starts with the genesis contracts and no block.                *)
LEMMA InitInStep == ASSUME Init PROVE InStep
<1>1. db = Genesis /\ work = Genesis /\ past = << >> /\ phase = "idle"
  BY DEF Init, InitWith
<1>2. /\ IsContents(Genesis) /\ Genesis.hash = << << >> >> /\ Genesis.version = 0
      /\ Genesis.token = FALSE /\ Genesis.third = FALSE /\ Genesis.nonce = 0
  <2>1. /\ IsContents(Before) /\ Before.version = 0
        /\ Before.token = FALSE /\ Before.third = FALSE /\ Before.nonce = 0
    BY DEF Before, IsContents
  <2> QED BY <2>1 DEF Genesis, IsContents
<1>3. Stored
  <2>1. IsSequence(<< << >> >>) /\ DOMAIN << << >> >> = {1} /\ << << >> >>[1] = << >>
    BY DEF IsSequence, Range
  <2>2. Range(<< >>) = {}
    BY EmptySequence DEF Range
  <2>3. Switched(Genesis)
    BY <1>2, <2>1, <2>2 DEF Switched
  <2>4. InOrder(<< << >> >>, 0)
    <3>1. DOMAIN << << >> >>[1] = {}
      BY <2>1, EmptySequence
    <3>2. RanAt(<< << >> >>) = {}
      BY <2>1, <3>1 DEF RanAt
    <3>3. 1 .. 0 = {}
      OBVIOUS
    <3> QED BY <3>2, <3>3 DEF InOrder
  <2>5. Good(Genesis)
    <3>1. PICK g : g = Genesis
      OBVIOUS
    <3>2. IsSequence(g.hash) /\ InOrder(g.hash, g.nonce)
      BY <1>2, <2>1, <2>4, <3>1, Zenon
    <3>3. g.nonce = 0 /\ g.version = 0 /\ g.token = FALSE /\ g.third = FALSE
      BY <1>2, <3>1, Zenon
    <3>4. IsContents(g)
      <4>1. IsContents(Genesis)
        BY <1>2
      <4> QED BY <3>1, <4>1
    <3>5. Switched(g)
      BY <2>3, <3>1
    <3>6. g.nonce \in Nat /\ g.version \in {0, 2} /\ g.token \in BOOLEAN /\ g.third \in BOOLEAN
      <4>1. \A n : n = 0 => n \in Nat /\ n \in {0, 2}
        OBVIOUS
      <4>2. FALSE \in BOOLEAN
        OBVIOUS
      <4> QED BY <3>3, <4>1, <4>2, Zenon
    <3>7. Good(g)
      BY <3>2, <3>4, <3>5, <3>6, Zenon DEF Good
    <3> QED BY <3>1, <3>7
  <2> QED BY <1>1, <2>5, EmptySequence DEF Stored
<1>4. Records
  BY <1>1, <1>2 DEF Init, InitWith, Records, NewApp, NewV1, NewConn
<1>5. Cached /\ Stubs /\ Container /\ Block
  BY <1>1, <1>2 DEF Init, InitWith, Cached, Stubs, Container, Block, NewApp, NewV1
<1> QED BY <1>3, <1>4, <1>5 DEF InStep

(* Consensus decides a block: nothing of the node changes.                 *)
LEMMA DecideInStep == ASSUME InStep, NEW b \in Blocks, Decide(b) PROVE InStep'
<1>1. UNCHANGED <<db, past, work, app, v1, docker, conn, phase>>
  BY DEF Decide, store
<1> QED BY <1>1 DEF InStep, Stored, Records, Cached, Stubs, Container, Block, next

(* A container that a check replaces is told the committed contracts; it   *)
(* is replaced only for a call of one of them.                             *)
LEMMA CheckTxInStep == ASSUME InStep, NEW tx \in Checked, CheckTx(tx) PROVE InStep'
<1> USE DEF InStep
<1>1. /\ phase \in {"idle", "block", "ended"}
      /\ app' = [app EXCEPT !.chainVersion = db.version]
      /\ UNCHANGED <<db, past, work, v1, conn, phase>>
  BY Serving DEF CheckTx, store
<1>2. docker' = docker \/ (docker' = pool(db) /\ db.third)
  <2>1. docker' = docker \/ docker' = CheckBCTx(tx)
    BY DEF CheckTx
  <2>2. CheckBCTx(tx) \in {docker, runCheckBCTx(tx)}
    BY DEF CheckBCTx, runCheckBCTxEx
  <2>3. runCheckBCTx(tx) = docker \/ (runCheckBCTx(tx) = pool(db) /\ db.third)
    BY DEF runCheckBCTx
  <2> QED BY <2>1, <2>2, <2>3
<1>3. Stored' /\ Cached' /\ Stubs' /\ Block'
  BY <1>1 DEF Stored, Records, Cached, Stubs, Block, next
<1>4. CASE docker' = docker
  BY <1>1, <1>3, <1>4 DEF Records, Container
<1>5. CASE docker' = pool(db) /\ db.third
  <2>1. docker' = [pool |-> "live", known |-> IF docker.pool = "live" THEN docker.known
                                              ELSE db.third,
                   used |-> TRUE, kills |-> docker.kills]
    BY <1>5 DEF pool, initDocker, Records
  <2>2. Records'
    BY <1>1, <2>1 DEF Records
  <2>3. db.third = TRUE /\ work.third = TRUE
    BY <1>1, <1>5 DEF Container, Stored, Good, Records
  <2>4. docker'.pool = "live" /\ docker'.known = work.third /\ docker'.kills = docker.kills
    BY <1>1, <2>1, <2>3 DEF Container
  <2>5. Container'
    BY <1>1, <2>4 DEF Container
  <2> QED BY <1>3, <2>2, <2>5
<1> QED BY <1>2, <1>4, <1>5

(* The idle container of a contract is killed between blocks.              *)
LEMMA KillIdleInStep == ASSUME InStep, KillIdle PROVE InStep'
<1> USE DEF InStep
<1>1. /\ phase \in {"idle", "block", "ended"}
      /\ UNCHANGED <<db, past, work, app, v1, conn, phase>>
  BY DEF KillIdle, store
<1>2. docker' = [pool |-> "stale", known |-> FALSE, used |-> docker.used,
                 kills |-> docker.kills + 1]
  BY DEF KillIdle, Records
<1>3. docker.kills + 1 \in Nat /\ docker.kills + 1 > 0
  <2>1. docker.kills \in Nat
    BY DEF Records
  <2> QED BY <2>1
<1>4. Records'
  BY <1>1, <1>2, <1>3 DEF Records
<1>5. Container'
  BY <1>1, <1>2, <1>3 DEF Container
<1> QED BY <1>1, <1>4, <1>5 DEF Stored, Cached, Stubs, Block, next

(* A block begins: it goes to the connection of the version that is        *)
(* cached.                                                                 *)
LEMMA BeginBlockInStep == ASSUME InStep, BeginBlock PROVE InStep'
<1> USE DEF InStep
<1>1. /\ phase = "idle"
      /\ app' = [app EXCEPT !.chainVersion = db.version]
      /\ docker' = [docker EXCEPT !.used = FALSE]
      /\ UNCHANGED <<db, past>>
  BY Serving DEF BeginBlock, store
<1>2. \/ /\ phase' = "failed to match app hash"
         /\ UNCHANGED <<work, v1, conn>>
      \/ /\ phase' = "block"
         /\ work' = db
         /\ v1' = [v1 EXCEPT !.version = db.version]
         /\ \E r : conn' = [hashList |-> << >>, fee |-> 0, rewards |-> r]
  BY DEF BeginBlock, BCBeginBlock
<1>3. Stored'
  BY <1>1 DEF Stored
<1>4. CASE /\ phase' = "failed to match app hash"
           /\ UNCHANGED <<work, v1, conn>>
  BY <1>1, <1>3, <1>4 DEF Records, Cached, Stubs, Container, Block
<1>5. CASE /\ phase' = "block"
           /\ work' = db
           /\ v1' = [v1 EXCEPT !.version = db.version]
           /\ \E r : conn' = [hashList |-> << >>, fee |-> 0, rewards |-> r]
  <2>1. Records'
    BY <1>1, <1>5 DEF Records, Stored, Good
  <2>2. Cached'
    BY <1>1, <1>5 DEF Records, Cached
  <2>3. Stubs' /\ Container'
    BY <1>1, <1>5 DEF Records, Stubs, Container, Stored, Good
  <2>4. Block'
    <3>1. conn'.hashList = << >> /\ Range(<< >>) = {}
      BY <1>5, EmptySequence DEF Range
    <3>2. InOrder(Append(db.hash, << >>), db.nonce)
      BY EmptyInOrder DEF Stored, Good
    <3> QED BY <1>1, <1>5, <3>1, <3>2, EmptySequence DEF Records, Stored, Good, Block
  <2> QED BY <1>3, <2>1, <2>2, <2>3, <2>4
<1> QED BY <1>2, <1>4, <1>5

(* What a DeliverTx may do to the block under way: nothing; the panic of a *)
(* container that asks for a transaction nobody has; a transaction of the  *)
(* v2 connection, or a version 1 transaction that is refused or fails; a   *)
(* version 1 transaction that succeeds, and is entered where its stub      *)
(* belongs.                                                                *)
Hashes(tx, code) ==
  conn' = [hashList |-> Append(conn.hashList, Entry(tx, code)),
           fee |-> conn'.fee, rewards |-> conn'.rewards]

KeepsWorld == IsContents(work') /\ work'.version = work.version /\ work'.hash = work.hash

(* The nonce goes on by one exactly when the transaction is executed.      *)
Uses(tx, code) ==
  /\ code \in {"rejected", "failed", "ok"}
  /\ IF code = "rejected" THEN work'.nonce = work.nonce
     ELSE tx.nonce = work.nonce + 1 /\ work'.nonce = tx.nonce

Lost ==
  /\ phase' = "error transID" /\ docker.pool # "live"
  /\ UNCHANGED <<work, v1, docker, conn>>

Counted(tx, code) ==
  /\ Hashes(tx, code) /\ ~Upgrades(Entry(tx, code)) /\ Uses(tx, code)
  /\ KeepsWorld /\ work'.token = work.token /\ work'.third = work.third
  /\ docker' = docker \/ (work.third /\ docker' = pool(work))
  /\ UNCHANGED <<v1, phase>>

Succeeds(tx) ==
  /\ Hashes(tx, "ok") /\ Uses(tx, "ok")
  /\ KeepsWorld /\ work'.token = (work.token \/ tx.kind = "issue")
  /\ work'.third = (work.third \/ tx.kind = "deploy3d")
  /\ \/ docker' = docker /\ work'.third = work.third
     \/ work.third /\ docker' = pool(work)
     \/ work'.third /\ docker' = RegisterContractDocker
  /\ v1' = [registered(tx.kind) EXCEPT !.version = IF tx.kind = "upgrade" THEN 2 ELSE @]
  /\ tx.kind = "upgrade" => db.version = 0
  /\ UNCHANGED phase

(* A transaction of version 1.                                             *)
LEMMA OutcomesV1 ==
  ASSUME Records, NEW tx, runDeliverBCTx(tx)
  PROVE  Lost \/ (\E code : Counted(tx, code)) \/ Succeeds(tx)
<1> DEFINE counted == [work EXCEPT !.nonce = tx.nonce]
           left == invokeV1(tx.kind, counted)
           calls == CheckAccountNonce(tx) /\ tx.kind = "call3d" /\ work.third
           registers == CheckAccountNonce(tx) /\ tx.kind = "deploy3d" /\ left # {}
           lost == (calls /\ lostCallback({transID})) \/ (registers /\ lostCallback({}))
<1>1. /\ IsContents(counted) /\ counted.token = work.token /\ counted.third = work.third
      /\ counted.version = work.version /\ counted.hash = work.hash
      /\ counted.nonce = tx.nonce
      /\ work.token \in BOOLEAN /\ work.third \in BOOLEAN
  <2>1. IsContents(work) /\ work.token \in BOOLEAN /\ work.third \in BOOLEAN
    BY DEF Records
  <2> QED BY <2>1 DEF IsContents
<1>2. \/ lost /\ phase' = "error transID" /\ UNCHANGED <<work, v1, docker, conn>>
      \/ /\ UNCHANGED phase
         /\ docker' = IF calls THEN pool(work)
                      ELSE IF registers THEN RegisterContractDocker ELSE docker
         /\ \/ ~CheckAccountNonce(tx) /\ Hashed(tx, "rejected") /\ UNCHANGED <<work, v1>>
            \/ /\ CheckAccountNonce(tx) /\ left = {}
               /\ Hashed(tx, "failed") /\ work' = counted /\ UNCHANGED v1
            \/ /\ CheckAccountNonce(tx)
               /\ HashedAndPaid(tx, rewardsBefore)
               /\ work' \in left
               /\ v1' = [registered(tx.kind)
                           EXCEPT !.version = IF tx.kind = "upgrade" THEN 2 ELSE @]
  BY DEF runDeliverBCTx
<1> HIDE DEF counted, left
<1>3. CASE lost /\ phase' = "error transID" /\ UNCHANGED <<work, v1, docker, conn>>
  BY <1>3 DEF lostCallback, Lost
<1>4. ASSUME NEW code, Hashed(tx, code) PROVE Hashes(tx, code)
  BY <1>4 DEF Hashed, Hashes, Records
<1>5. CASE /\ UNCHANGED phase
           /\ docker' = IF calls THEN pool(work)
                        ELSE IF registers THEN RegisterContractDocker ELSE docker
           /\ ~CheckAccountNonce(tx) /\ Hashed(tx, "rejected") /\ UNCHANGED <<work, v1>>
  <2>1. Hashes(tx, "rejected") /\ ~Upgrades(Entry(tx, "rejected"))
    BY <1>4, <1>5 DEF Upgrades, Entry
  <2>2. docker' = docker /\ UNCHANGED phase /\ UNCHANGED <<work, v1>>
    BY <1>5
  <2>3. KeepsWorld
    BY <2>2 DEF Records, KeepsWorld
  <2>4. Uses(tx, "rejected")
    BY <2>2 DEF Uses
  <2> QED BY <2>1, <2>2, <2>3, <2>4 DEF Counted
<1>6. CASE /\ UNCHANGED phase
           /\ docker' = IF calls THEN pool(work)
                        ELSE IF registers THEN RegisterContractDocker ELSE docker
           /\ CheckAccountNonce(tx) /\ left = {}
           /\ Hashed(tx, "failed") /\ work' = counted /\ UNCHANGED v1
  <2>1. Hashes(tx, "failed") /\ ~Upgrades(Entry(tx, "failed"))
    BY <1>4, <1>6 DEF Upgrades, Entry
  <2>2. docker' = docker \/ (work.third /\ docker' = pool(work))
    BY <1>6
  <2>3. KeepsWorld /\ work'.token = work.token /\ work'.third = work.third
    BY <1>1, <1>6 DEF KeepsWorld
  <2>4. Uses(tx, "failed")
    BY <1>1, <1>6 DEF Uses, CheckAccountNonce
  <2> QED BY <1>6, <2>1, <2>2, <2>3, <2>4 DEF Counted
<1>7. CASE /\ UNCHANGED phase
           /\ docker' = IF calls THEN pool(work)
                        ELSE IF registers THEN RegisterContractDocker ELSE docker
           /\ CheckAccountNonce(tx)
           /\ HashedAndPaid(tx, rewardsBefore)
           /\ work' \in left
           /\ v1' = [registered(tx.kind)
                       EXCEPT !.version = IF tx.kind = "upgrade" THEN 2 ELSE @]
  <2>1. Hashes(tx, "ok")
    BY <1>7 DEF HashedAndPaid, Hashes
  <2>2. /\ IsContents(work')
        /\ work'.version = work.version /\ work'.hash = work.hash
        /\ work'.nonce = tx.nonce
        /\ work'.token = (work.token \/ tx.kind = "issue")
        /\ work'.third = (work.third \/ tx.kind = "deploy3d")
        /\ tx.kind = "upgrade" => db.version = 0
    BY <1>1, <1>7, Invoked DEF left
  <2>5. Uses(tx, "ok")
    BY <1>7, <2>2 DEF Uses, CheckAccountNonce
  <2>3. KeepsWorld
    BY <1>7, <2>2 DEF KeepsWorld
  <2>4. \/ docker' = docker /\ work'.third = work.third
        \/ work.third /\ docker' = pool(work)
        \/ work'.third /\ docker' = RegisterContractDocker
    BY <1>1, <1>7, <2>2
  <2> QED BY <1>7, <2>1, <2>2, <2>3, <2>4, <2>5 DEF Succeeds
<1> QED BY <1>2, <1>3, <1>5, <1>6, <1>7

(* A transaction of the v2 connection changes the nonce and what is paid.  *)
LEMMA OutcomesV2 ==
  ASSUME Records, NEW tx, runDeliverTx(tx)
  PROVE  \E code : Counted(tx, code)
<1>1. UNCHANGED <<v1, docker, phase>>
  BY DEF runDeliverTx
<1>2. ASSUME work' = work \/ work' = [work EXCEPT !.nonce = tx.nonce]
      PROVE  KeepsWorld /\ work'.token = work.token /\ work'.third = work.third
  BY <1>2 DEF KeepsWorld, Records, IsContents
<1>3. CASE Hashed(tx, "rejected") /\ UNCHANGED work
  <2>1. Hashes(tx, "rejected") /\ ~Upgrades(Entry(tx, "rejected"))
    BY <1>3 DEF Hashed, Hashes, Records, Upgrades, Entry
  <2>2. Uses(tx, "rejected")
    BY <1>3 DEF Uses
  <2> QED BY <1>1, <1>2, <1>3, <2>1, <2>2 DEF Counted
<1>4. CASE /\ CheckAccountNonce(tx) /\ work' = [work EXCEPT !.nonce = tx.nonce]
           /\ tx.kind \in {"call", "transfer"} /\ HashedAndPaid(tx, conn.rewards)
  <2>1. Hashes(tx, "ok") /\ ~Upgrades(Entry(tx, "ok"))
    BY <1>4 DEF HashedAndPaid, Hashes, Upgrades, Entry
  <2>2. Uses(tx, "ok")
    BY <1>4 DEF Uses, CheckAccountNonce, Records, IsContents
  <2> QED BY <1>1, <1>2, <1>4, <2>1, <2>2 DEF Counted
<1>5. CASE /\ CheckAccountNonce(tx) /\ work' = [work EXCEPT !.nonce = tx.nonce]
           /\ conn' = [conn EXCEPT !.hashList = Append(@, Entry(tx, "failed")),
                                   !.rewards = @ + 1]
  <2>1. conn' = [conn EXCEPT !.hashList = Append(@, Entry(tx, "failed")), !.rewards = @ + 1]
    BY <1>5
  <2>2. conn = [hashList |-> conn.hashList, fee |-> conn.fee, rewards |-> conn.rewards]
    BY DEF Records
  <2>3. Hashes(tx, "failed")
    BY <2>1, <2>2 DEF Hashes
  <2>4. ~Upgrades(Entry(tx, "failed"))
    BY DEF Upgrades, Entry
  <2>5. Uses(tx, "failed")
    BY <1>5 DEF Uses, CheckAccountNonce, Records, IsContents
  <2> QED BY <1>1, <1>2, <1>5, <2>3, <2>4, <2>5 DEF Counted
<1> QED BY <1>3, <1>4, <1>5 DEF runDeliverTx

(* What a transaction can do: nothing, lose the container, or be counted   *)
(* with a result code.                                                     *)
LEMMA Outcomes ==
  ASSUME Records, DeliverTx
  PROVE  /\ UNCHANGED <<db, past, app>> /\ phase = "block"
         /\ \/ UNCHANGED <<work, v1, docker, conn, phase>>
            \/ Lost
            \/ \E tx, code : Counted(tx, code)
            \/ \E tx : Succeeds(tx)
<1>1. PICK tx : \/ runDeliverBCTx(tx)
                \/ runDeliverTx(tx)
                \/ ignored
  BY DEF DeliverTx, deliverBCTx, runDeliverBCTxEx
<1>2. UNCHANGED <<db, past, app>> /\ phase = "block"
  BY DEF DeliverTx, store
<1> QED BY <1>1, <1>2, OutcomesV1, OutcomesV2 DEF ignored

(* What the entries of the block under way become with one more.           *)
LEMMA EntryAdded ==
  ASSUME InStep, phase = "block", NEW tx, NEW code, Hashes(tx, code)
  PROVE  /\ IsSequence(conn'.hashList)
         /\ \A x \in Range(conn'.hashList) :
              x \in Range(conn.hashList) \/ x = Entry(tx, code)
         /\ Entry(tx, code).by = db.version
         /\ Uses(tx, code) =>
              work'.nonce \in Nat /\ InOrder(Append(db.hash, conn'.hashList), work'.nonce)
<1> DEFINE l == conn.hashList
<1>1. IsSequence(l) /\ conn'.hashList = Append(l, Entry(tx, code))
  BY DEF InStep, Block, Hashes
<1>2. Entry(tx, code).by = db.version
  BY Serving DEF InStep, Entry
<1>3. ASSUME Uses(tx, code)
      PROVE  work'.nonce \in Nat /\ InOrder(Append(db.hash, conn'.hashList), work'.nonce)
  <2>1. PICK e : e = Entry(tx, code)
    OBVIOUS
  <2>2. e.tx = tx /\ e.code = code
    BY <2>1 DEF Entry
  <2>3. /\ IsSequence(db.hash) /\ work.nonce \in Nat
        /\ InOrder(Append(db.hash, l), work.nonce)
    BY DEF InStep, Stored, Good, Block
  <2>4. /\ ~Ran(e) => InOrder(Append(db.hash, Append(l, e)), work.nonce)
        /\ Ran(e) /\ e.tx.nonce = work.nonce + 1
             => InOrder(Append(db.hash, Append(l, e)), work.nonce + 1)
    BY <1>1, <2>3, EntryInOrder
  <2>5. CASE code = "rejected"
    BY <1>1, <1>3, <2>1, <2>2, <2>3, <2>4, <2>5 DEF Uses, Ran
  <2>6. CASE code # "rejected"
    <3>1. Ran(e) /\ e.tx.nonce = work.nonce + 1 /\ work'.nonce = work.nonce + 1
      BY <1>3, <2>2, <2>6 DEF Uses, Ran
    <3> QED BY <1>1, <2>1, <2>3, <2>4, <3>1
  <2> QED BY <2>5, <2>6
<1> QED BY <1>1, <1>2, <1>3, SequenceAppend, RangeAppend

(* A transaction that changes neither token nor third-party contract.      *)
LEMMA CountedInStep ==
  ASSUME InStep, phase = "block", UNCHANGED <<db, past, app>>,
         NEW tx, NEW code, Counted(tx, code)
  PROVE  InStep'
<1> USE DEF InStep, Counted
<1>1. phase' = "block" /\ v1' = v1 /\ work'.token = work.token /\ work'.third = work.third
  OBVIOUS
<1>2. docker' = [pool |-> docker'.pool, known |-> docker'.known, used |-> docker'.used,
                 kills |-> docker.kills]
      /\ (docker' = docker \/ (docker'.pool = "live" /\ docker'.known = work.third))
  BY <1>1 DEF pool, initDocker, Records, Container
<1>3. Records'
  BY <1>1, <1>2 DEF Records, KeepsWorld, Hashes
<1>4. Container'
  BY <1>1, <1>2 DEF Container
<1>5. Block'
  BY <1>1, EntryAdded DEF Block, KeepsWorld
<1> QED BY <1>1, <1>3, <1>4, <1>5 DEF Stored, Cached, Stubs, next

(* A version 1 transaction that succeeds.                                  *)
LEMMA SucceedsInStep ==
  ASSUME InStep, phase = "block", UNCHANGED <<db, past, app>>, NEW tx, Succeeds(tx)
  PROVE  InStep'
<1> USE DEF InStep, Succeeds
<1>1. phase' = "block" /\ work'.third \in BOOLEAN /\ work'.token \in BOOLEAN
  BY DEF Records
<1>2. v1' = [version |-> IF tx.kind = "upgrade" THEN 2 ELSE v1.version,
             mineStub |-> (v1.mineStub \/ tx.kind = "mining"),
             mineContract |-> v1.mineContract,
             check |-> (v1.check \/ tx.kind = "issue"),
             deliver |-> (v1.deliver \/ tx.kind = "issue"), left |-> v1.left]
  BY DEF Records, registered, registeredInCheck
<1>3. docker' = [pool |-> docker'.pool, known |-> docker'.known, used |-> docker'.used,
                 kills |-> docker.kills]
      /\ \/ docker' = docker /\ work'.third = work.third
         \/ docker'.pool = "live" /\ docker'.known = work'.third
  BY <1>1 DEF pool, initDocker, Records, Container, RegisterContractDocker
<1>4. Records'
  BY <1>1, <1>2, <1>3 DEF Records, KeepsWorld, Hashes
<1>5. Container'
  BY <1>1, <1>3 DEF Container
<1>6. Stubs'
  BY <1>1, <1>2 DEF Stubs
<1>7. Block'
  <2>1. db.token => work'.token
    BY <1>1 DEF Block, Records
  <2> QED BY <1>1, <1>2, <2>1, EntryAdded DEF Block, KeepsWorld, Upgrades, Entry
<1> QED BY <1>1, <1>4, <1>5, <1>6, <1>7 DEF Stored, Cached

(* A transaction keeps the invariant, whichever of the three it does.      *)
LEMMA DeliverTxInStep == ASSUME InStep, DeliverTx PROVE InStep'
<1>a. Records
  BY DEF InStep
<1>1. UNCHANGED <<db, past, app>> /\ phase = "block"
  BY <1>a, Outcomes
<1>2. CASE UNCHANGED <<work, v1, docker, conn, phase>>
  BY <1>1, <1>2 DEF InStep, Stored, Records, Cached, Stubs, Container, Block, next
<1>3. CASE Lost
  BY <1>1, <1>3 DEF Lost, InStep, Stored, Records, Cached, Stubs, Container, Block, next
<1>4. ASSUME NEW tx, NEW code, Counted(tx, code) PROVE InStep'
  BY <1>1, <1>4, CountedInStep
<1>5. ASSUME NEW tx, Succeeds(tx) PROVE InStep'
  BY <1>1, <1>5, SucceedsInStep
<1> QED BY <1>a, <1>2, <1>3, <1>4, <1>5, Outcomes

(* The end of the block only reports.                                      *)
LEMMA EndBlockInStep == ASSUME InStep, EndBlock PROVE InStep'
<1> USE DEF InStep
<1> DEFINE l == conn.hashList
<1>1. /\ phase = "block" /\ phase' = "ended"
      /\ UNCHANGED <<db, past, docker>>
      /\ ChainVersion = db.version
  BY Serving DEF EndBlock, store
<1>2. app' = noted(next)
  BY <1>1 DEF EndBlock, next
<1>3. /\ v1' = [v1 EXCEPT !.mineContract = v1'.mineContract]
      /\ work' = work \/ work' = [work EXCEPT !.mined = @ + 1]
      /\ conn' = conn \/ conn' = [conn EXCEPT !.hashList = Append(@, MineEntry)]
  BY DEF EndBlock, Records
<1>4. /\ IsContents(work') /\ work'.token = work.token /\ work'.third = work.third
      /\ work'.version = work.version /\ work'.hash = work.hash
      /\ work'.nonce = work.nonce
  BY <1>3 DEF Records, IsContents
<1>5. /\ v1'.version = v1.version /\ v1'.check = v1.check /\ v1'.deliver = v1.deliver
      /\ next' = next
  BY <1>1, <1>3 DEF Records, next
<1>6. /\ app' = [chainVersion |-> app.chainVersion,
                updateChainVersion |-> IF next = db.version THEN 0 ELSE next]
      /\ app.chainVersion = db.version
  BY <1>1, <1>2 DEF noted, Records, Cached
<1>7. Records'
  BY <1>1, <1>3, <1>4, <1>6 DEF Records
<1>8. Cached' /\ Stubs' /\ Container'
  BY <1>1, <1>4, <1>5, <1>6 DEF Cached, Stubs, Container
<1>9. IsSequence(l) /\ (conn'.hashList = l \/ conn'.hashList = Append(l, MineEntry))
  BY <1>1, <1>3 DEF Block, Records
<1>10. MineEntry.by = db.version /\ ~Upgrades(MineEntry)
  BY <1>1 DEF MineEntry, Upgrades
<1>11. /\ IsSequence(conn'.hashList)
       /\ \A x \in Range(conn'.hashList) : x \in Range(l) \/ x = MineEntry
  BY <1>9, SequenceAppend, RangeAppend
<1>12. InOrder(Append(db.hash, conn'.hashList), work.nonce) /\ work.nonce \in Nat
  <2>1. PICK e : e = MineEntry
    OBVIOUS
  <2>2. ~Ran(e)
    BY <2>1 DEF MineEntry, Ran
  <2>3. /\ IsSequence(db.hash) /\ work.nonce \in Nat
        /\ InOrder(Append(db.hash, l), work.nonce)
    BY <1>1 DEF Stored, Good, Block
  <2>4. InOrder(Append(db.hash, Append(l, e)), work.nonce)
    BY <1>9, <2>2, <2>3, EntryInOrder
  <2> QED BY <1>9, <2>1, <2>3, <2>4
<1>13. Block'
  BY <1>1, <1>4, <1>5, <1>10, <1>11, <1>12 DEF Block
<1> QED BY <1>1, <1>7, <1>8, <1>13 DEF Stored

(* The contents that a block leaves: its version is that of the open       *)
(* block's v1 connection while the chain is of version 1.                  *)
LEMMA NewWorldGood ==
  ASSUME InStep, phase = "ended"
  PROVE  /\ Good(newWorld) /\ newWorld.version = next
         /\ newWorld.token = work.token /\ newWorld.third = work.third
<1> USE DEF InStep
<1>1. /\ IsContents(work) /\ work.token \in BOOLEAN /\ work.third \in BOOLEAN
      /\ work.version = db.version /\ work.hash = db.hash /\ Good(db)
  BY DEF Records, Block, Stored
<1>2. ChainVersion = db.version /\ next \in {0, 2} /\ (db.version = 2 => next = 2)
      /\ next = (IF ChainVersion = 0 THEN v1.version ELSE work.version)
  BY <1>1, Serving DEF next, Good, Block
<1>3. /\ IsContents(newWorld) /\ newWorld.version = next
      /\ newWorld.token = work.token /\ newWorld.third = work.third
      /\ newWorld.nonce = work.nonce
      /\ \/ newWorld.hash = db.hash /\ conn.hashList = << >>
         \/ newWorld.hash = Append(db.hash, conn.hashList)
  BY <1>1, <1>2 DEF newWorld, IsContents
<1>4. \A x \in Range(conn.hashList) :
        x.by = db.version /\ (Upgrades(x) => db.version = 0 /\ newWorld.version = 2)
  BY <1>3 DEF Block, next
<1>5. IsSequence(newWorld.hash) /\ Switched(newWorld)
  BY <1>1, <1>2, <1>3, <1>4, SwitchedAppend
<1>6. newWorld.nonce \in Nat /\ InOrder(newWorld.hash, newWorld.nonce)
  <2>1. /\ IsSequence(db.hash) /\ work.nonce \in Nat
        /\ InOrder(Append(db.hash, conn.hashList), work.nonce)
    BY <1>1 DEF Good, Block
  <2> QED BY <1>3, <2>1, EmptyInOrder
<1> QED BY <1>1, <1>2, <1>3, <1>5, <1>6 DEF Good

(* The commit makes the block's writes the stored ones and the cached      *)
(* version that of the record it writes.                                   *)
LEMMA CommitInStep == ASSUME InStep, Commit PROVE InStep'
<1> USE DEF InStep
<1>1. /\ phase = "ended" /\ phase' = "idle"
      /\ db' = newWorld /\ past' = Append(past, db) /\ app' = updatedVersion
      /\ UNCHANGED <<work, v1, docker, conn>>
  BY DEF Commit
<1>2. /\ Good(db') /\ db'.version = next
      /\ db'.token = work.token /\ db'.third = work.third
  BY <1>1, NewWorldGood
<1>3. Stored'
  <2>1. Good(db) /\ IsSequence(past) /\ \A i \in 1 .. Len(past) : Good(past[i])
    BY DEF Stored
  <2>2. IsSequence(past') /\ Len(past') = Len(past) + 1 /\ Len(past) \in Nat
    BY <1>1, <2>1, SequenceAppend, SequenceDomain
  <2>3. ASSUME NEW i \in 1 .. Len(past') PROVE Good(past'[i])
    <3>1. i = Len(past) + 1 \/ i \in 1 .. Len(past)
      BY <2>2
    <3> QED BY <1>1, <2>1, <3>1, SequenceAppend
  <2> QED BY <1>2, <2>2, <2>3 DEF Stored
<1>4. app' = [chainVersion |-> app'.chainVersion, updateChainVersion |-> 0]
      /\ app'.chainVersion = next
  BY <1>1 DEF updatedVersion, Records, Cached, Stored, Good, Block, next
<1>5. Records'
  BY <1>1, <1>4 DEF Records
<1>6. Cached' /\ Stubs' /\ Container' /\ Block'
  BY <1>1, <1>2, <1>4 DEF Cached, Stubs, Container, Block
<1> QED BY <1>3, <1>5, <1>6

(* The end of a process leaves the store and empties every cache, whatever *)
(* these were.                                                             *)
LEMMA EndInStep == ASSUME Stored, Records, end PROVE InStep'
<1> USE DEF InStep
<1>1. /\ phase' = "down" /\ work' = db /\ app' = NewApp /\ v1' = NewV1
      /\ conn' = NewConn /\ docker' = NewDocker /\ UNCHANGED <<db, past>>
  BY DEF end, store
<1>2. docker' = [pool |-> "nil", known |-> FALSE, used |-> FALSE, kills |-> docker.kills]
  BY <1>1 DEF NewDocker, Records
<1>3. /\ docker' = [pool |-> docker'.pool, known |-> docker'.known,
                   used |-> docker'.used, kills |-> docker'.kills]
      /\ docker'.pool = "nil" /\ docker'.kills = docker.kills
  BY <1>2
<1>4. /\ app' = [chainVersion |-> app'.chainVersion,
                updateChainVersion |-> app'.updateChainVersion]
      /\ v1' = [version |-> v1'.version, mineStub |-> v1'.mineStub,
               mineContract |-> v1'.mineContract, check |-> v1'.check,
               deliver |-> v1'.deliver, left |-> v1'.left]
      /\ conn' = [hashList |-> conn'.hashList, fee |-> conn'.fee, rewards |-> conn'.rewards]
  BY <1>1 DEF NewApp, NewV1, NewConn
<1>5. IsContents(work') /\ work'.token \in BOOLEAN /\ work'.third \in BOOLEAN
  BY <1>1 DEF Stored, Good
<1>6. Records'
  BY <1>1, <1>3, <1>4, <1>5 DEF Records
<1>7. Container'
  BY <1>1, <1>3 DEF Container
<1> QED BY <1>1, <1>6, <1>7 DEF Stored, Cached, Stubs, Block

(* The callbacks of the start find the items stored under the number 0.    *)
LEMMA RestartInStep == ASSUME InStep, Restart PROVE InStep'
<1> USE DEF InStep
<1>1. /\ phase = "down" /\ phase' = "idle"
      /\ v1' = InitContractDocker /\ docker' = [pool(db) EXCEPT !.used = FALSE]
      /\ UNCHANGED <<db, past, work, app, conn>>
  BY DEF Restart, lostCallback, itemsOfInit, store
<1>2. docker' = [pool |-> "live", known |-> db.third, used |-> FALSE,
                 kills |-> docker.kills]
  BY <1>1 DEF pool, initDocker, Records, Container
<1>3. v1' = [version |-> v1'.version, mineStub |-> v1'.mineStub,
             mineContract |-> v1'.mineContract, check |-> db.token,
             deliver |-> db.token, left |-> v1'.left]
  BY <1>1 DEF InitContractDocker, NewV1, checkStubs
<1>4. Records'
  <2>1. docker' = [pool |-> docker'.pool, known |-> docker'.known,
                   used |-> docker'.used, kills |-> docker'.kills]
        /\ docker'.kills = docker.kills
    BY <1>2
  <2>2. v1' = [version |-> v1'.version, mineStub |-> v1'.mineStub,
               mineContract |-> v1'.mineContract, check |-> v1'.check,
               deliver |-> v1'.deliver, left |-> v1'.left]
    BY <1>3
  <2> QED BY <1>1, <2>1, <2>2 DEF Records
<1>5. Cached' /\ Stubs' /\ Container' /\ Block'
  BY <1>1, <1>2, <1>3 DEF Cached, Stubs, Container, Block, NewApp
<1> QED BY <1>1, <1>4, <1>5 DEF Stored

(* Both rollbacks go back to a stored version.                             *)
GoesBack == past # << >> /\ db' = Last(past) /\ past' = Front(past)

LEMMA GoesBackStored == ASSUME Stored, GoesBack PROVE Stored'
<1>1. IsSequence(past) /\ \A i \in 1 .. Len(past) : Good(past[i])
  BY DEF Stored
<1>2. Len(past) \in Nat
  BY <1>1, SequenceDomain
<1>3. Len(past) \in 1 .. Len(past)
  BY <1>1, <1>2, SequenceFront DEF GoesBack
<1>4. Good(db')
  BY <1>1, <1>3, SequenceFront DEF GoesBack
<1>5. \A i \in 1 .. Len(past) - 1 : i \in 1 .. Len(past)
  BY <1>2
<1> QED BY <1>1, <1>4, <1>5, SequenceFront DEF Stored, GoesBack

(* What it goes back to has nothing that the last one has not.             *)
LEMMA GoesBackOrdered ==
  ASSUME Stored, Ordered, GoesBack
  PROVE  Ordered' /\ Grows(db', db)
<1>1. /\ IsSequence(past) /\ Len(past) \in Nat
  BY SequenceDomain DEF Stored
<1>2. /\ Len(past) >= 1 /\ db' = past[Len(past)] /\ Len(past') = Len(past) - 1
      /\ \A i \in 1 .. Len(past) - 1 : past'[i] = past[i]
  BY <1>1, SequenceFront DEF GoesBack
<1>3. Len(past) \in 1 .. Len(past)
  BY <1>1, <1>2
<1>4. Grows(db', db)
  BY <1>2, <1>3 DEF Ordered
<1>5. ASSUME NEW i \in 1 .. Len(past')
      PROVE  Grows(past'[i], IF i = Len(past') THEN db' ELSE past'[i + 1])
  <2>1. i \in 1 .. Len(past) - 1 /\ i \in 1 .. Len(past) /\ i # Len(past)
    BY <1>1, <1>2
  <2>2. Grows(past[i], past[i + 1])
    BY <2>1 DEF Ordered
  <2>3. CASE i = Len(past')
    BY <1>1, <1>2, <2>1, <2>2, <2>3
  <2>4. CASE i # Len(past')
    <3>1. i + 1 \in 1 .. Len(past) - 1
      BY <1>1, <1>2, <2>1, <2>4
    <3> QED BY <1>2, <2>1, <2>2, <2>4, <3>1
  <2> QED BY <2>3, <2>4
<1> QED BY <1>4, <1>5 DEF Ordered

(* The rollback command is run when there is no process.                   *)
LEMMA RollbackCmdInStep == ASSUME InStep, RollbackCmd PROVE InStep'
<1> USE DEF InStep
<1>1. /\ phase = "down" /\ GoesBack /\ work' = Last(past) /\ db' = Last(past)
      /\ UNCHANGED <<app, v1, docker, conn, phase>>
  BY DEF RollbackCmd, GoesBack
<1>2. Stored'
  BY <1>1, GoesBackStored
<1>3. work' = db' /\ Good(db')
  BY <1>1, <1>2 DEF Stored
<1>4. Records'
  BY <1>1, <1>3 DEF Records, Good
<1> QED BY <1>1, <1>2, <1>3, <1>4 DEF Cached, Stubs, Container, Block

(* Nothing of the node changes.                                            *)
LEMMA StutterInStep == ASSUME InStep, UNCHANGED vars PROVE InStep'
BY DEF InStep, Stored, Records, Cached, Stubs, Container, Block, next, vars

(* A commit adds contents that have whatever those before had.             *)
LEMMA CommitOrdered == ASSUME InStep, Ordered, Commit PROVE Ordered'
<1>1. /\ phase = "ended" /\ db' = newWorld /\ past' = Append(past, db)
  BY DEF Commit
<1>2. /\ IsSequence(past) /\ Len(past) \in Nat
      /\ Len(past') = Len(past) + 1 /\ past'[Len(past) + 1] = db
      /\ \A i \in 1 .. Len(past) : past'[i] = past[i]
  BY <1>1, SequenceDomain, SequenceAppend DEF InStep, Stored
<1>3. Grows(db, db')
  <2>1. db'.version = next /\ db'.token = work.token /\ db'.third = work.third
    BY <1>1, NewWorldGood
  <2>2. db.version \in {0, 2} /\ next \in {0, 2} /\ (db.version = 2 => next = 2)
    BY <1>1 DEF InStep, Stored, Good, Block, next
  <2>3. (db.token => work.token) /\ (db.third => work.third)
    BY <1>1 DEF InStep, Block, Container
  <2> QED BY <2>1, <2>2, <2>3 DEF Grows
<1>4. ASSUME NEW i \in 1 .. Len(past')
      PROVE  Grows(past'[i], IF i = Len(past') THEN db' ELSE past'[i + 1])
  <2>1. CASE i = Len(past')
    BY <1>2, <1>3, <2>1
  <2>2. CASE i # Len(past')
    <3>1. i \in 1 .. Len(past)
      BY <1>2, <2>2
    <3>2. past'[i + 1] = IF i = Len(past) THEN db ELSE past[i + 1]
      <4>1. CASE i = Len(past)
        BY <1>2, <4>1
      <4>2. CASE i # Len(past)
        <5>1. i + 1 \in 1 .. Len(past)
          BY <1>2, <3>1, <4>2
        <5> QED BY <1>2, <4>2, <5>1
      <4> QED BY <4>1, <4>2
    <3> QED BY <1>2, <2>2, <3>1, <3>2 DEF Ordered
  <2> QED BY <2>1, <2>2
<1> QED BY <1>4 DEF Ordered

-----------------------------------------------------------------------------
(* A process that has served a Rollback.  It has cached what the contents  *)
(* that were undone had, and these had what is committed now.              *)
LEMMA RollbackBehind ==
  ASSUME IInv, Rollback
  PROVE  Stored' /\ Ordered' /\ Records' /\ Behind'
<1>1. /\ phase = "idle" /\ GoesBack /\ db' = Last(past) /\ work' = Last(past)
      /\ UNCHANGED <<app, v1, docker, conn, phase>>
  BY DEF Rollback, GoesBack
<1>2. Stored' /\ Ordered' /\ Grows(db', db) /\ Good(db') /\ Good(db) /\ work' = db'
  BY <1>1, GoesBackStored, GoesBackOrdered DEF IInv, Stored
<1>3. /\ db.version \in {0, 2} /\ db'.version \in {0, 2} /\ db'.version <= db.version
      /\ db.token \in BOOLEAN /\ db.third \in BOOLEAN
      /\ (db'.token => db.token) /\ (db'.third => db.third)
  BY <1>2 DEF Good, Grows
<1>4. Records'
  BY <1>1, <1>2 DEF IInv, Records, Good
<1>5. CASE ahead
  <2>1. /\ app.chainVersion = Nil
             \/ (app.chainVersion \in {0, 2} /\ db.version <= app.chainVersion)
        /\ v1.check \in BOOLEAN /\ v1.deliver \in BOOLEAN
        /\ db.token => v1.check /\ v1.deliver
        /\ db.third => work.third
        /\ IF docker.pool = "live"
           THEN docker.known \in BOOLEAN /\ (work.third => docker.known)
           ELSE docker.kills > 0
    BY <1>1, <1>5 DEF IInv, Behind
  <2>2. app.chainVersion = Nil
          \/ (app.chainVersion \in {0, 2} /\ db'.version <= app.chainVersion)
    BY <1>3, <2>1
  <2>3. /\ db'.token => v1.check /\ v1.deliver
        /\ work'.third => docker.known \/ docker.pool # "live"
    BY <1>2, <1>3, <2>1
  <2>4. docker.pool = "live" => (work'.third => docker.known)
    BY <2>3
  <2>5. work'.third = db'.third
    BY <1>2
  <2>6. Behind'
    BY <1>1, <2>1, <2>2, <2>3, <2>4, <2>5 DEF Behind
  <2> QED BY <1>2, <1>4, <2>6
<1>6. CASE ~ahead
  <2>1. /\ app.chainVersion \in {Nil, db.version}
        /\ v1.check = db.token /\ v1.deliver = db.token
        /\ IF docker.pool = "live" THEN docker.known = db.third ELSE docker.kills > 0
    BY <1>1, <1>6 DEF IInv, InStep, Cached, Stubs, Container
  <2>2. app.chainVersion = Nil
          \/ (app.chainVersion \in {0, 2} /\ db'.version <= app.chainVersion)
    BY <1>3, <2>1
  <2> QED BY <1>1, <1>2, <1>3, <1>4, <2>1, <2>2 DEF Behind
<1> QED BY <1>2, <1>4, <1>5, <1>6 DEF IInv

(* A check may cache the version, and replace the container.               *)
LEMMA CheckTxBehind ==
  ASSUME Stored, Records, Behind, NEW tx \in Checked, CheckTx(tx)
  PROVE  Records' /\ Behind'
<1>1. /\ phase \in {"idle", "block", "ended"}
      /\ app' = [app EXCEPT !.chainVersion = ChainVersion]
      /\ UNCHANGED <<db, past, work, v1, conn, phase>>
  BY DEF CheckTx, store
<1>2. docker' = docker \/ (docker' = pool(db) /\ db.third)
  <2>1. docker' = docker \/ docker' = CheckBCTx(tx)
    BY DEF CheckTx
  <2>2. CheckBCTx(tx) \in {docker, runCheckBCTx(tx)}
    BY DEF CheckBCTx, runCheckBCTxEx
  <2>3. runCheckBCTx(tx) = docker \/ (runCheckBCTx(tx) = pool(db) /\ db.third)
    BY DEF runCheckBCTx
  <2> QED BY <2>1, <2>2, <2>3
<1>3. /\ app' = [chainVersion |-> ChainVersion, updateChainVersion |-> app.updateChainVersion]
      /\ app'.chainVersion = ChainVersion
  BY <1>1 DEF Records
<1>4. phase = "idle" => ChainVersion \in {0, 2} /\ db.version <= ChainVersion
  BY DEF Stored, Good, Behind, ChainVersion
<1>5. CASE docker' = docker
  BY <1>1, <1>3, <1>4, <1>5 DEF Records, Behind
<1>6. CASE docker' = pool(db) /\ db.third
  <2>1. docker' = [pool |-> "live", known |-> IF docker.pool = "live" THEN docker.known
                                              ELSE db.third,
                   used |-> TRUE, kills |-> docker.kills]
    BY <1>6 DEF pool, initDocker, Records
  <2>2. db.third = TRUE /\ work.third = TRUE
    BY <1>6 DEF Behind, Stored, Good, Records
  <2>3. docker'.pool = "live" /\ docker'.known = TRUE /\ docker'.kills = docker.kills
    BY <2>1, <2>2 DEF Behind
  <2> QED BY <1>1, <1>3, <1>4, <2>1, <2>2, <2>3 DEF Records, Behind
<1> QED BY <1>2, <1>5, <1>6

(* The idle container is killed.                                           *)
LEMMA KillIdleBehind ==
  ASSUME Records, Behind, KillIdle
  PROVE  Records' /\ Behind'
<1>1. /\ phase \in {"idle", "block", "ended"}
      /\ UNCHANGED <<db, past, work, app, v1, conn, phase>>
  BY DEF KillIdle, store
<1>2. docker' = [pool |-> "stale", known |-> FALSE, used |-> docker.used,
                 kills |-> docker.kills + 1]
  BY DEF KillIdle, Records
<1>3. docker.kills + 1 \in Nat /\ docker.kills + 1 > 0
  <2>1. docker.kills \in Nat
    BY DEF Records
  <2> QED BY <2>1
<1> QED BY <1>1, <1>2, <1>3 DEF Records, Behind

(* A block begins.                                                         *)
LEMMA BeginBlockBehind ==
  ASSUME Stored, Records, Behind, BeginBlock
  PROVE  Records' /\ Behind'
<1>1. /\ phase = "idle"
      /\ app' = [app EXCEPT !.chainVersion = ChainVersion]
      /\ docker' = [docker EXCEPT !.used = FALSE]
      /\ UNCHANGED <<db, past>>
  BY DEF BeginBlock, store
<1>2. \/ /\ phase' = "failed to match app hash"
         /\ UNCHANGED <<work, v1, conn>>
      \/ /\ phase' = "block"
         /\ work' = db
         /\ v1' = [v1 EXCEPT !.version = db.version]
         /\ \E r : conn' = [hashList |-> << >>, fee |-> 0, rewards |-> r]
  BY DEF BeginBlock, BCBeginBlock
<1>3. Good(db) /\ db.third \in BOOLEAN /\ (db.third => work.third)
  BY DEF Stored, Good, Behind
<1>4. docker' = [pool |-> docker.pool, known |-> docker.known, used |-> FALSE,
                 kills |-> docker.kills]
  BY <1>1 DEF Records
<1>5. Records'
  BY <1>1, <1>2, <1>3, <1>4 DEF Records, Good
<1>6. phase' # "down" /\ phase' # "idle" /\ phase' # "error transID" /\ db' = db
      /\ (work' = db \/ work' = work)
  BY <1>1, <1>2
<1>7. Behind'
  BY <1>3, <1>4, <1>6 DEF Behind
<1> QED BY <1>5, <1>7

(* A transaction.                                                          *)
LEMMA DeliverTxBehind ==
  ASSUME Records, Behind, DeliverTx
  PROVE  Records' /\ Behind'
<1>1. UNCHANGED <<db, past, app>> /\ phase = "block"
  BY Outcomes
<1>2. work.token \in BOOLEAN /\ work.third \in BOOLEAN /\ (db.third => work.third)
  BY DEF Records, Behind
<1>3. CASE UNCHANGED <<work, v1, docker, conn, phase>>
  BY <1>1, <1>3 DEF Records, Behind
<1>4. CASE Lost
  BY <1>1, <1>4 DEF Lost, Records, Behind
<1>5. ASSUME NEW tx, NEW code, Counted(tx, code) PROVE Records' /\ Behind'
  <2> USE <1>5 DEF Counted
  <2>1. phase' = "block" /\ v1' = v1 /\ work'.token = work.token /\ work'.third = work.third
    BY <1>1
  <2>2. docker' = [pool |-> docker'.pool, known |-> docker'.known, used |-> docker'.used,
                   kills |-> docker.kills]
        /\ (docker' = docker \/ (docker'.pool = "live" /\ docker'.known = TRUE))
    BY <1>2 DEF pool, initDocker, Records, Behind
  <2>3. Records'
    BY <1>1, <2>1, <2>2 DEF Records, KeepsWorld, Hashes
  <2>4. Behind'
    BY <1>1, <2>1, <2>2 DEF Behind
  <2> QED BY <2>3, <2>4
<1>6. ASSUME NEW tx, Succeeds(tx) PROVE Records' /\ Behind'
  <2> USE <1>6 DEF Succeeds
  <2>1. /\ phase' = "block" /\ work'.third \in BOOLEAN /\ work'.token \in BOOLEAN
        /\ (db.third => work'.third)
    BY <1>1, <1>2
  <2>2. v1' = [version |-> IF tx.kind = "upgrade" THEN 2 ELSE v1.version,
               mineStub |-> (v1.mineStub \/ tx.kind = "mining"),
               mineContract |-> v1.mineContract,
               check |-> (v1.check \/ tx.kind = "issue"),
               deliver |-> (v1.deliver \/ tx.kind = "issue"), left |-> v1.left]
    BY DEF Records, registered, registeredInCheck
  <2>3. docker' = [pool |-> docker'.pool, known |-> docker'.known, used |-> docker'.used,
                   kills |-> docker.kills]
        /\ \/ docker' = docker /\ work'.third = work.third
           \/ docker'.pool = "live" /\ docker'.known = TRUE
    BY <1>2 DEF pool, initDocker, Records, Behind, RegisterContractDocker
  <2>4. Records'
    BY <1>1, <2>1, <2>2, <2>3 DEF Records, KeepsWorld, Hashes
  <2>5. Behind'
    BY <1>1, <2>1, <2>3 DEF Behind
  <2> QED BY <2>4, <2>5
<1> QED BY <1>3, <1>4, <1>5, <1>6, Outcomes

(* The end of the block.                                                   *)
LEMMA EndBlockBehind ==
  ASSUME Records, Behind, EndBlock
  PROVE  Records' /\ Behind'
<1>1. phase = "block" /\ phase' = "ended" /\ UNCHANGED <<db, past, docker>>
  BY DEF EndBlock, store
<1>2. /\ v1' = [v1 EXCEPT !.mineContract = v1'.mineContract]
      /\ work' = work \/ work' = [work EXCEPT !.mined = @ + 1]
      /\ conn' = conn \/ conn' = [conn EXCEPT !.hashList = Append(@, MineEntry)]
  BY DEF EndBlock, Records
<1>3. \E v : app' = noted(v)
  BY DEF EndBlock
<1>4. app' = [chainVersion |-> app'.chainVersion,
             updateChainVersion |-> app'.updateChainVersion]
  BY <1>3 DEF noted, Records
<1>5. IsContents(work') /\ work'.token = work.token /\ work'.third = work.third
  BY <1>2 DEF Records, IsContents
<1>6. Records'
  BY <1>1, <1>2, <1>4, <1>5 DEF Records
<1> QED BY <1>1, <1>5, <1>6 DEF Behind

-----------------------------------------------------------------------------
(* The stored contents and their order, as long as nothing is committed.   *)
LEMMA StoreStays ==
  ASSUME Stored, Ordered, UNCHANGED <<db, past>>
  PROVE  Stored' /\ Ordered'
BY DEF Stored, Ordered

(* A step of a process that is in step with the database.                  *)
LEMMA NextOfInStep ==
  ASSUME IInv, ~ahead, [Next]_vars, ~Rollback
  PROVE  InStep' /\ Ordered' /\ ahead' = FALSE
<1>1. Stored /\ Ordered /\ Records /\ InStep /\ ahead = FALSE
  BY DEF IInv
<1>2. ASSUME NEW b \in Blocks, Decide(b) PROVE InStep' /\ Ordered' /\ ahead' = FALSE
  BY <1>1, <1>2, DecideInStep, StoreStays DEF Decide, store
<1>3. ASSUME NEW tx \in Checked, CheckTx(tx) PROVE InStep' /\ Ordered' /\ ahead' = FALSE
  BY <1>1, <1>3, CheckTxInStep, StoreStays DEF CheckTx, store
<1>4. CASE KillIdle
  BY <1>1, <1>4, KillIdleInStep, StoreStays DEF KillIdle, store
<1>5. CASE BeginBlock
  BY <1>1, <1>5, BeginBlockInStep, StoreStays DEF BeginBlock, store
<1>6. CASE DeliverTx
  BY <1>1, <1>6, DeliverTxInStep, StoreStays DEF DeliverTx, store
<1>7. CASE EndBlock
  BY <1>1, <1>7, EndBlockInStep, StoreStays DEF EndBlock, store
<1>8. CASE Commit
  BY <1>1, <1>8, CommitInStep, CommitOrdered DEF Commit
<1>9. CASE end
  BY <1>1, <1>9, EndInStep, StoreStays DEF end, store
<1>10. CASE Restart
  BY <1>1, <1>10, RestartInStep, StoreStays DEF Restart, store
<1>11. CASE RollbackCmd
  <2>1. GoesBack
    BY <1>11 DEF RollbackCmd, GoesBack
  <2> QED BY <1>1, <1>11, <2>1, RollbackCmdInStep, GoesBackOrdered DEF RollbackCmd
<1>12. CASE UNCHANGED vars
  BY <1>1, <1>12, StutterInStep, StoreStays DEF vars
<1> QED BY <1>2, <1>3, <1>4, <1>5, <1>6, <1>7, <1>8, <1>9, <1>10, <1>11, <1>12
        DEF Next, Crash, CommitRefused, RollbackRefused

(* A step of one that is behind: it ends, or goes on without a commit.     *)
LEMMA NextOfBehind ==
  ASSUME IInv, ahead, [Next]_vars, ~Rollback
  PROVE  /\ Stored' /\ Ordered'
         /\ \/ Records' /\ Behind' /\ ahead' = TRUE
            \/ InStep' /\ ahead' = FALSE
<1>1. Stored /\ Ordered /\ Records /\ Behind /\ ahead = TRUE
  BY DEF IInv
<1> DEFINE Goes == Stored' /\ Ordered' /\ Records' /\ Behind' /\ ahead' = TRUE
<1>2. ASSUME NEW b \in Blocks, Decide(b) PROVE Goes
  <2>1. UNCHANGED <<db, past, work, app, v1, docker, conn, phase, ahead>>
    BY <1>2 DEF Decide, store
  <2> QED BY <1>1, <2>1, StoreStays DEF Records, Behind
<1>3. ASSUME NEW tx \in Checked, CheckTx(tx) PROVE Goes
  BY <1>1, <1>3, CheckTxBehind, StoreStays DEF CheckTx, store
<1>4. CASE KillIdle
  BY <1>1, <1>4, KillIdleBehind, StoreStays DEF KillIdle, store
<1>5. CASE BeginBlock
  BY <1>1, <1>5, BeginBlockBehind, StoreStays DEF BeginBlock, store
<1>6. CASE DeliverTx
  BY <1>1, <1>6, DeliverTxBehind, StoreStays DEF DeliverTx, store
<1>7. CASE EndBlock
  BY <1>1, <1>7, EndBlockBehind, StoreStays DEF EndBlock, store
<1>8. CASE end
  BY <1>1, <1>8, EndInStep, StoreStays DEF end, store
<1>9. CASE Commit \/ Restart \/ RollbackCmd
  BY <1>1, <1>9 DEF Commit, checkID, Restart, RollbackCmd, Behind
<1>10. CASE UNCHANGED vars
  <2>1. UNCHANGED <<db, past, work, app, v1, docker, conn, phase, ahead>>
    BY <1>10 DEF vars
  <2> QED BY <1>1, <2>1, StoreStays DEF Records, Behind
<1> QED BY <1>2, <1>3, <1>4, <1>5, <1>6, <1>7, <1>8, <1>9, <1>10
        DEF Next, Crash, CommitRefused, RollbackRefused

(* Every step keeps the invariant.                                         *)
LEMMA NextIInv == ASSUME IInv, [Next]_vars PROVE IInv'
<1>1. CASE Rollback
  <2>1. ahead' = TRUE
    BY <1>1 DEF Rollback
  <2> QED BY <1>1, <2>1, RollbackBehind DEF IInv
<1>2. CASE ~Rollback /\ ~ahead
  BY <1>2, NextOfInStep DEF IInv, InStep
<1>3. CASE ~Rollback /\ ahead
  BY <1>3, NextOfBehind DEF IInv, InStep
<1> QED BY <1>1, <1>2, <1>3

(* The inductive invariant holds of every state the node reaches, whatever *)
(* blocks are decided and however crashes, restarts and rollbacks, by the  *)
(* command or by the running process, fall between its calls.              *)
THEOREM Invariance == Spec => []IInv
<1>1. Init => IInv
  <2>1. SUFFICES ASSUME Init PROVE IInv
    OBVIOUS
  <2>2. InStep /\ ahead = FALSE /\ past = << >>
    BY <2>1, InitInStep DEF Init, InitWith
  <2>3. Ordered
    <3>1. Len(past) = 0 /\ 1 .. 0 = {}
      BY <2>2, EmptySequence
    <3> QED BY <3>1 DEF Ordered
  <2> QED BY <2>2, <2>3 DEF IInv, InStep
<1> QED BY <1>1, NextIInv, PTL DEF Spec

-----------------------------------------------------------------------------
(* Between blocks the cached version is the committed one, so each block   *)
(* and each check goes to the connection of the chain's version; only a    *)
(* process that has served a Rollback may still have a later version, that *)
(* of contents it has undone.                                              *)
THEOREM VersionIsFresh == Spec => []VersionCacheFresh
<1>1. ASSUME IInv PROVE VersionCacheFresh
  <2>1. CASE ~ahead
    BY <1>1, <2>1 DEF IInv, InStep, Cached, VersionCacheFresh
  <2>2. CASE ahead
    <3>1. db.version \in {0, 2}
      BY <1>1 DEF IInv, Stored, Good
    <3>2. phase = "idle" =>
            \/ app.chainVersion = Nil
            \/ app.chainVersion \in {0, 2} /\ db.version <= app.chainVersion
      BY <1>1, <2>2 DEF IInv, Behind
    <3> QED BY <2>2, <3>1, <3>2 DEF VersionCacheFresh
  <2> QED BY <2>1, <2>2
<1> QED BY <1>1, Invariance, PTL

(* The transactions that ran carry the nonces 1, 2, ... up to the          *)
(* committed one in this order, whichever connection executed them.        *)
THEOREM NoncesUsedOnce == Spec => []NonceOnce
<1>1. IInv => NonceOnce
  BY DEF IInv, Stored, Good, NonceOnce
<1> QED BY <1>1, Invariance, PTL

(* Version 1 executes the block of the upgrade to its end, and version 2   *)
(* every later one, however often the process is restarted or rolled back: *)
(* the one that has a stale version after a Rollback commits no block.     *)
THEOREM VersionSwitchesAtCommit == Spec => []SwitchAtCommit
<1>1. IInv => SwitchAtCommit
  BY DEF IInv, Stored, Good, Switched, SwitchAtCommit, Upgrades
<1> QED BY <1>1, Invariance, PTL

(* Between blocks both connections have the token's stub exactly when the  *)
(* committed contents have the token.  A process that has served a         *)
(* Rollback has it whenever they have, and may have it when they have not. *)
THEOREM StubsAreThoseOfContracts == Spec => []StubsFollowContracts
<1>1. ASSUME IInv PROVE StubsFollowContracts
  <2>1. CASE ~ahead
    BY <1>1, <2>1 DEF IInv, InStep, Stubs, StubsFollowContracts
  <2>2. CASE ahead
    <3>1. db.token \in BOOLEAN
      BY <1>1 DEF IInv, Stored, Good
    <3>2. phase = "idle" => /\ v1.check \in BOOLEAN /\ v1.deliver \in BOOLEAN
                            /\ db.token => v1.check /\ v1.deliver
      BY <1>1, <2>2 DEF IInv, Behind
    <3> QED BY <2>2, <3>1, <3>2 DEF StubsFollowContracts
  <2> QED BY <2>1, <2>2
<1> QED BY <1>1, Invariance, PTL

(* The container that serves third-party contracts knows those of the      *)
(* block - after a Rollback at least those - and its callbacks are lost    *)
(* only after an idle one was killed.                                      *)
THEOREM ContainerIsToldContracts == Spec => []ContainerKnowsContracts
<1>1. ASSUME IInv PROVE ContainerKnowsContracts
  <2>1. CASE ~ahead
    BY <1>1, <2>1 DEF IInv, InStep, Records, Stored, Good, Container, ContainerKnowsContracts
  <2>2. CASE ahead
    <3>1. db.third \in BOOLEAN /\ work.third \in BOOLEAN
      BY <1>1 DEF IInv, Stored, Good, Records
    <3>2. /\ db.third => work.third
          /\ docker.pool = "live" =>
               docker.known \in BOOLEAN /\ (work.third => docker.known)
          /\ phase = "error transID" => docker.kills > 0
      BY <1>1, <2>2 DEF IInv, Behind
    <3> QED BY <2>2, <3>1, <3>2 DEF ContainerKnowsContracts
  <2> QED BY <2>1, <2>2
<1> QED BY <1>1, Invariance, PTL

-----------------------------------------------------------------------------
(* Replays.  What a block makes of the committed contents is a function of *)
(* these contents, the rewards left aside, and of the block.               *)
Bare(c) == [c EXCEPT !.rewards = 0]

(* The contract kind succeeds on the contents c in a chain of version v,   *)
(* and what it makes of them in the block of height h.                     *)
Works(v, kind, c) ==
  \/ kind \in {"call", "transfer"}
  \/ kind = "mining" /\ ~HasMiner(c)
  \/ kind = "issue" /\ ~c.token /\ v = 0
  \/ kind = "deploy3d" /\ ~c.third
  \/ kind = "call3d" /\ c.third
  \/ kind = "upgrade" /\ v = 0

Made(h, kind, c) ==
  CASE kind = "mining"   -> [c EXCEPT !.miners = <<Contract(h + 1)>>]
    [] kind = "issue"    -> [c EXCEPT !.token = TRUE]
    [] kind = "deploy3d" -> [c EXCEPT !.third = TRUE]
    [] kind = "call3d"   -> [c EXCEPT !.calls = @ + 1]
    [] kind = "upgrade"  -> [c EXCEPT !.miners = forbidMining(c, h + 1),
                                      !.minersV2 = <<Contract(h + 1)>>]
    [] OTHER -> c

(* Where an execution of a block stands: what it has made of the contents, *)
(* the hash list, the fee, the rewards and the version to be.              *)
IsProgress(s) ==
  s = [work |-> s.work, list |-> s.list, fee |-> s.fee, rewards |-> s.rewards,
       version |-> s.version]

Begun(d) == [work |-> d, list |-> << >>, fee |-> 0, rewards |-> 0, version |-> d.version]

Told(d, s, tx, code) == Append(s.list, [tx |-> tx, code |-> code, by |-> d.version])

(* A transaction that version 1, or the v2 connection, executes.           *)
ByV1(d, s, tx) ==
  LET counted == [s.work EXCEPT !.nonce = tx.nonce]
      h == d.height + 1
  IN IF tx.nonce # s.work.nonce + 1 THEN [s EXCEPT !.list = Told(d, s, tx, "rejected")]
     ELSE IF ~Works(d.version, tx.kind, counted)
     THEN [s EXCEPT !.work = counted, !.list = Told(d, s, tx, "failed")]
     ELSE [work |-> Made(h, tx.kind, counted), list |-> Told(d, s, tx, "ok"),
           fee |-> s.fee + 1,
           rewards |-> (IF d.version = 0 /\ h < ForkHeight THEN 0 ELSE s.rewards) + 1,
           version |-> IF tx.kind = "upgrade" THEN 2 ELSE s.version]

ByV2(d, s, tx) ==
  LET counted == [s.work EXCEPT !.nonce = tx.nonce] IN
  IF tx.kind = "malformed" \/ tx.nonce # s.work.nonce + 1
  THEN [s EXCEPT !.list = Told(d, s, tx, "rejected")]
  ELSE IF tx.kind \in {"call", "transfer"}
  THEN [s EXCEPT !.work = counted, !.list = Told(d, s, tx, "ok"), !.fee = @ + 1,
                 !.rewards = @ + 1]
  ELSE [s EXCEPT !.work = counted, !.list = Told(d, s, tx, "failed"), !.rewards = @ + 1]

Delivered(d, s, tx) ==
  IF tx.format = "v1"
  THEN IF tx.kind = "malformed" \/ (d.version = 2 /\ tx.kind = "missing") THEN s
       ELSE IF d.version = 2 /\ tx.kind = "transfer" THEN ByV2(d, s, tx)
       ELSE ByV1(d, s, tx)
  ELSE IF tx.format = "v2" /\ d.version = 2 THEN ByV2(d, s, tx) ELSE s

(* The end of the block, at which the mining contract may mine, and the    *)
(* contents that the commit leaves, the rewards left aside.                *)
Mined(d, c) == d.version = 0 /\ c.miners # << >> /\ c.miners[1].effect <= d.height + 1

Closed(d, s) ==
  IF Mined(d, s.work)
  THEN [s EXCEPT !.work = [s.work EXCEPT !.mined = @ + 1],
                 !.list = Append(@, [tx |-> Nil, code |-> "mined", by |-> 0])]
  ELSE s

Left(d, s) ==
  LET w == [s.work EXCEPT !.height = @ + 1,
                          !.version = IF d.version = 0 THEN s.version ELSE @]
  IN IF s.list = << >> THEN w ELSE [w EXCEPT !.hash = Append(@, s.list), !.fee = s.fee]

-----------------------------------------------------------------------------
(* The first n transactions of block b, executed on the contents d.        *)
Run(d, b, n, run) ==
  /\ run[0] = Begun(d)
  /\ \A i \in 1 .. n : run[i] = Delivered(d, run[i - 1], b[i])

Contents(f, h) == IF h = 0 THEN Genesis ELSE f[h]

(* The contents c are those first committed at height h.                   *)
Same(f, h, c) ==
  /\ Bare(c) = Bare(Contents(f, h))
  /\ ~CarriedOver(f, h) => c.rewards = Contents(f, h).rewards

(* The block that begins on the contents d starts from no rewards.         *)
StartsAfresh(d) == ~(d.version = 0 /\ d.height + 1 \in 2 .. ForkHeight - 1)
Settles == StartsAfresh(db)

(* The contents e are what the block on d that ended with progress s left. *)
Leaves(d, s, e) ==
  /\ Bare(e) = Left(Bare(d), s)
  /\ s.list = << >> => e.rewards = d.rewards
  /\ s.list # << >> /\ StartsAfresh(d) => e.rewards = s.rewards

(* What block b of height h ended with, and what it left.                  *)
Ends(f, h, b, s) ==
  LET d == Bare(Contents(f, h - 1)) IN
  \E run : Len(b) \in Nat /\ Run(d, b, Len(b), run) /\ s = Closed(d, run[Len(b)])

Executed(f, h, b, e) ==
  \E s : /\ Ends(f, h, b, s)
         /\ Bare(e) = Left(Bare(Contents(f, h - 1)), s)
         /\ ~CarriedOver(f, h) =>
              e.rewards = IF s.list = << >> THEN Contents(f, h - 1).rewards ELSE s.rewards

(* The connections stand where an execution from the beginning of the      *)
(* block stands: w, c and v are the contents as the open transaction sees  *)
(* them, the connection's record and the version of the v1 app state.      *)
Tracks(s, w, c, v) ==
  /\ IsProgress(s)
  /\ s.work = Bare(w) /\ s.list = c.hashList /\ s.fee = c.fee /\ s.version = v
  /\ Settles => s.rewards = c.rewards

(* The parts of the second inductive invariant: the consensus engine with  *)
(* the recorded contents, the database with its history, the block under   *)
(* way, and the mining contract and what the v1 connection caches of it.   *)
Recorded ==
  /\ IsSequence(blocks) /\ IsSequence(hashes) /\ IsSequence(first)
  /\ Len(hashes) = Len(first) /\ Len(first) <= Len(blocks)
  /\ \A h \in 1 .. Len(first) :
       hashes[h] = first[h].hash /\ Executed(first, h, blocks[h], first[h])
  /\ \A h \in 0 .. Len(first) :
       /\ IsContents(Contents(first, h)) /\ Contents(first, h).height = h
       /\ IsSequence(Contents(first, h).hash)

Versions ==
  /\ Len(past) <= Len(first)
  /\ Same(first, Len(past), db)
  /\ \A i \in 1 .. Len(past) : Same(first, i - 1, past[i])

Progresses ==
  LET b == blocks[db.height + 1] IN
  /\ phase # "failed to match app hash"
  /\ phase = "down" \/ (phase = "idle" /\ db.height = 0) => conn.rewards = 0
  /\ phase \in {"block", "ended"} =>
       /\ db.height < Len(blocks) /\ done \in Nat
       /\ work.height = db.height /\ work.rewards = db.rewards
  /\ phase = "block" =>
       \E run : Run(Bare(db), b, done, run) /\ Tracks(run[done], work, conn, v1.version)
  /\ phase = "ended" =>
       \E run : /\ done = Len(b)
                /\ Run(Bare(db), b, done, run)
                /\ Tracks(Closed(Bare(db), run[done]), work, conn, v1.version)

IsMiners(m) == m = << >> \/ \E x \in [effect : Nat, lose : Nat] : m = <<x>>

(* A mining contract of a chain of version 1 has not been forbidden.       *)
Minable(c) ==
  /\ IsMiners(c.miners)
  /\ c.version = 0 /\ c.miners # << >> => c.miners[1].lose = 0

Mining ==
  /\ Minable(db) /\ \A i \in 1 .. Len(past) : Minable(past[i])
  /\ IsMiners(work.miners)
  /\ phase \in {"down", "idle"} => work.miners = db.miners
  /\ phase \in {"idle", "block", "ended"} => v1.mineStub = (work.miners # << >>)
  /\ phase \in {"block", "ended"} /\ db.version = 0 /\ work.miners # << >> =>
       work.miners[1].lose \in IF v1.version = 0 THEN {0} ELSE {0, db.height + 2}
  /\ phase \in {"idle", "block", "ended"} /\ db.version = 0 /\ v1.mineContract # Nil =>
       /\ work.miners # << >>
       /\ v1.mineContract.effect = work.miners[1].effect
       /\ v1.mineContract.lose \in
            IF phase = "ended" /\ v1.version # 0 THEN {0, db.height + 2} ELSE {0}

(* The process whose caches are those of the database executes again what  *)
(* is recorded; the chain agrees with the records in any case.             *)
Replays == Recorded /\ Versions /\ Progresses /\ Mining

Chain ==
  /\ Recorded /\ Versions
  /\ phase # "failed to match app hash"
  /\ Minable(db) /\ \A i \in 1 .. Len(past) : Minable(past[i])

RInv == Chain /\ (~ahead => Replays)

-----------------------------------------------------------------------------
(* Two executions of a block on the same contents are the same.            *)
LEMMA RunIsUnique ==
  ASSUME NEW d, NEW b, NEW n \in Nat, NEW r, NEW s, Run(d, b, n, r), Run(d, b, n, s)
  PROVE  r[n] = s[n]
<1> DEFINE S == {i \in Nat : i <= n => r[i] = s[i]}
<1>1. 0 \in S
  BY DEF Run
<1>2. ASSUME NEW i \in Nat, i \in S PROVE i + 1 \in S
  <2>1. SUFFICES ASSUME i + 1 <= n PROVE r[i + 1] = s[i + 1]
    OBVIOUS
  <2>2. r[i] = s[i]
    BY <1>2, <2>1
  <2>3. i + 1 \in 1 .. n /\ (i + 1) - 1 = i
    BY <2>1
  <2>4. r[i + 1] = Delivered(d, r[i], b[i + 1])
    BY <2>3 DEF Run
  <2>5. s[i + 1] = Delivered(d, s[i], b[i + 1])
    BY <2>3 DEF Run
  <2> QED BY <2>2, <2>4, <2>5
<1> HIDE DEF S
<1>3. n \in S
  BY <1>1, <1>2, NumberInduction
<1> QED BY <1>3 DEF S

(* Bare contents are contents with the other fields of the ones they are   *)
(* made of.                                                                *)
LEMMA BareFields ==
  ASSUME NEW c, IsContents(c)
  PROVE  Bare(c) = [height |-> c.height, version |-> c.version, hash |-> c.hash,
                    fee |-> c.fee, rewards |-> 0, nonce |-> c.nonce,
                    miners |-> c.miners, minersV2 |-> c.minersV2, mined |-> c.mined,
                    token |-> c.token, third |-> c.third, calls |-> c.calls]
BY DEF Bare, IsContents

(* Contents that differ in their rewards only are the same once these are  *)
(* the same.                                                               *)
LEMMA BareSame ==
  ASSUME NEW c, IsContents(c), NEW d, IsContents(d), Bare(c) = Bare(d)
  PROVE  /\ c.height = d.height /\ c.version = d.version /\ c.hash = d.hash
         /\ c = [d EXCEPT !.rewards = c.rewards]
<1>1. /\ c.height = d.height /\ c.version = d.version /\ c.hash = d.hash
      /\ c.fee = d.fee /\ c.nonce = d.nonce /\ c.miners = d.miners
      /\ c.minersV2 = d.minersV2 /\ c.mined = d.mined /\ c.token = d.token
      /\ c.third = d.third /\ c.calls = d.calls
  BY BareFields
<1>2. [d EXCEPT !.rewards = c.rewards]
        = [height |-> d.height, version |-> d.version, hash |-> d.hash,
           fee |-> d.fee, rewards |-> c.rewards, nonce |-> d.nonce,
           miners |-> d.miners, minersV2 |-> d.minersV2, mined |-> d.mined,
           token |-> d.token, third |-> d.third, calls |-> d.calls]
  BY DEF IsContents
<1> QED BY <1>1, <1>2 DEF IsContents

(* The contracts neither read nor write the rewards.                       *)
LEMMA BareMade ==
  ASSUME NEW h, NEW v, NEW kind, NEW c, IsContents(c)
  PROVE  /\ Works(v, kind, Bare(c)) <=> Works(v, kind, c)
         /\ Made(h, kind, Bare(c)) = Bare(Made(h, kind, c))
<1>1. Works(v, kind, Bare(c)) <=> Works(v, kind, c)
  BY BareFields DEF Works, HasMiner
<1>2. Made(h, kind, Bare(c)) = Bare(Made(h, kind, c))
  <2>1. forbidMining(Bare(c), h + 1) = forbidMining(c, h + 1)
    BY BareFields DEF forbidMining
  <2>2. CASE kind = "mining"
    BY <2>2 DEF Made, Bare, IsContents
  <2>3. CASE kind = "issue"
    BY <2>3 DEF Made, Bare, IsContents
  <2>4. CASE kind = "deploy3d"
    BY <2>4 DEF Made, Bare, IsContents
  <2>5. CASE kind = "call3d"
    BY <2>5 DEF Made, Bare, IsContents
  <2>6. CASE kind = "upgrade"
    BY <2>1, <2>6 DEF Made, Bare, IsContents
  <2>7. CASE kind \notin {"mining", "issue", "deploy3d", "call3d", "upgrade"}
    BY <2>7 DEF Made
  <2> QED BY <2>2, <2>3, <2>4, <2>5, <2>6, <2>7
<1> QED BY <1>1, <1>2

(* What a v1 contract leaves is what the function says: the container      *)
(* knows the contract that is called.                                      *)
LEMMA InvokesAsWorks ==
  ASSUME InStep, phase = "block", db.height \in Nat,
         NEW kind, NEW c, c.third = work.third, c.third \in BOOLEAN
  PROVE  invokeV1(kind, c)
           = IF Works(db.version, kind, c) THEN {Made(db.height + 1, kind, c)} ELSE {}
<1> DEFINE h == db.height + 1
<1>1. ChainVersion = db.version
  BY Serving DEF InStep
<1>2. h + 1 = db.height + 2
  OBVIOUS
<1>3. CASE kind \in {"call", "transfer"}
  BY <1>3 DEF invokeV1, Works, Made
<1>4. CASE kind = "mining"
  BY <1>2, <1>4 DEF invokeV1, DeployInternalContract, Works, Made
<1>5. CASE kind = "issue"
  BY <1>1, <1>5 DEF invokeV1, IssueToken, Works, Made
<1>6. CASE kind = "deploy3d"
  BY <1>6 DEF invokeV1, Deploy3d, Works, Made
<1>7. CASE kind = "call3d"
  <2>1. c.third => pool(c).known = TRUE
    BY DEF InStep, Container, Records, pool, initDocker
  <2>2. c.third => Invoke(c) = {[c EXCEPT !.calls = @ + 1]}
    BY <2>1 DEF Invoke, setToTxBuffer
  <2>3. CASE c.third
    <3>1. invokeV1(kind, c) = Invoke(c)
      BY <1>7, <2>3 DEF invokeV1
    <3>2. Works(db.version, kind, c)
      BY <1>7, <2>3 DEF Works
    <3>3. Made(h, kind, c) = [c EXCEPT !.calls = @ + 1]
      BY <1>7 DEF Made
    <3> QED BY <2>2, <2>3, <3>1, <3>2, <3>3
  <2>4. CASE ~c.third
    BY <1>7, <2>4 DEF invokeV1, Works
  <2> QED BY <2>3, <2>4
<1>8. CASE kind = "upgrade"
  <2>1. invokeV1(kind, c) = Upgrade(c)
    BY <1>8 DEF invokeV1
  <2>2. CASE db.version = 0
    <3>1. Upgrade(c) = {[c EXCEPT !.miners = forbidMining(c, h + 1),
                                  !.minersV2 = <<Contract(h + 1)>>]}
      BY <2>2 DEF Upgrade
    <3>2. Made(h, kind, c) = [c EXCEPT !.miners = forbidMining(c, h + 1),
                                       !.minersV2 = <<Contract(h + 1)>>]
      BY <1>8 DEF Made
    <3>3. Works(db.version, kind, c)
      BY <1>8, <2>2 DEF Works
    <3> QED BY <2>1, <3>1, <3>2, <3>3
  <2>3. CASE db.version # 0
    BY <1>8, <2>1, <2>3 DEF Upgrade, Works
  <2> QED BY <2>2, <2>3
<1>9. CASE kind \notin {"call", "transfer", "mining", "issue", "deploy3d", "call3d", "upgrade"}
  BY <1>9 DEF invokeV1, Works
<1> QED BY <1>3, <1>4, <1>5, <1>6, <1>7, <1>8, <1>9

(* Counting a transaction commutes with leaving the rewards aside.         *)
LEMMA BareCounted ==
  ASSUME NEW c, IsContents(c), NEW n
  PROVE  /\ IsContents([c EXCEPT !.nonce = n])
         /\ [Bare(c) EXCEPT !.nonce = n] = Bare([c EXCEPT !.nonce = n])
         /\ Bare(c).nonce = c.nonce
         /\ [c EXCEPT !.nonce = n].third = c.third
         /\ [c EXCEPT !.nonce = n].miners = c.miners
<1> DEFINE counted == [c EXCEPT !.nonce = n]
<1>1. counted = [height |-> c.height, version |-> c.version, hash |-> c.hash,
                 fee |-> c.fee, rewards |-> c.rewards, nonce |-> n,
                 miners |-> c.miners, minersV2 |-> c.minersV2, mined |-> c.mined,
                 token |-> c.token, third |-> c.third, calls |-> c.calls]
  BY DEF IsContents
<1>2. IsContents(counted) /\ counted.third = c.third /\ counted.miners = c.miners
  BY <1>1 DEF IsContents
<1>3. [Bare(c) EXCEPT !.nonce = n] = Bare(counted) /\ Bare(c).nonce = c.nonce
  BY <1>1, BareFields DEF Bare
<1> QED BY <1>2, <1>3

(* A transaction that version 1 executes is tracked.                       *)
LEMMA ByV1Tracks ==
  ASSUME InStep, phase = "block", phase' = "block", db.height \in Nat, UNCHANGED db,
         NEW s, Tracks(s, work, conn, v1.version), NEW tx, runDeliverBCTx(tx)
  PROVE  Tracks(ByV1(Bare(db), s, tx), work', conn', v1'.version)
<1> DEFINE counted == [work EXCEPT !.nonce = tx.nonce]
           left == invokeV1(tx.kind, counted)
           d == Bare(db)
           h == db.height + 1
<1>1. /\ IsContents(work) /\ IsContents(db) /\ work.third \in BOOLEAN
      /\ ChainVersion = db.version
      /\ conn = [hashList |-> conn.hashList, fee |-> conn.fee, rewards |-> conn.rewards]
  BY Serving DEF InStep, Records, Stored, Good
<1>2. d.version = db.version /\ d.height = db.height
  BY <1>1, BareFields
<1>3. /\ IsContents(counted) /\ counted.third = work.third
      /\ [Bare(work) EXCEPT !.nonce = tx.nonce] = Bare(counted)
      /\ Bare(work).nonce = work.nonce
  BY <1>1, BareCounted
<1>4. \/ ~CheckAccountNonce(tx) /\ Hashed(tx, "rejected") /\ UNCHANGED <<work, v1>>
      \/ /\ CheckAccountNonce(tx) /\ left = {}
         /\ Hashed(tx, "failed") /\ work' = counted /\ UNCHANGED v1
      \/ /\ CheckAccountNonce(tx)
         /\ HashedAndPaid(tx, rewardsBefore)
         /\ work' \in left
         /\ v1' = [registered(tx.kind)
                     EXCEPT !.version = IF tx.kind = "upgrade" THEN 2 ELSE @]
  BY DEF runDeliverBCTx
<1> HIDE DEF counted
<1>5. left = IF Works(db.version, tx.kind, counted)
             THEN {Made(h, tx.kind, counted)} ELSE {}
  BY <1>1, <1>3, InvokesAsWorks
<1>6. /\ Works(db.version, tx.kind, Bare(counted)) <=> Works(db.version, tx.kind, counted)
      /\ Made(h, tx.kind, Bare(counted)) = Bare(Made(h, tx.kind, counted))
  BY <1>3, BareMade
<1> HIDE DEF left
<1>7. \A code : Entry(tx, code) = [tx |-> tx, code |-> code, by |-> d.version]
  BY <1>1, <1>2 DEF Entry
<1>8. /\ IsProgress(s)
      /\ s.work = Bare(work) /\ s.list = conn.hashList /\ s.fee = conn.fee
      /\ s.version = v1.version /\ (Settles => s.rewards = conn.rewards)
  BY DEF Tracks
<1>9. Settles' <=> Settles
  BY DEF Settles, StartsAfresh
<1> DEFINE t == ByV1(d, s, tx)
<1>10. CASE ~CheckAccountNonce(tx) /\ Hashed(tx, "rejected") /\ UNCHANGED <<work, v1>>
  <2>1. t = [s EXCEPT !.list = Told(d, s, tx, "rejected")]
    BY <1>3, <1>8, <1>10 DEF ByV1, CheckAccountNonce
  <2>2. conn'.hashList = Told(d, s, tx, "rejected") /\ conn'.fee = conn.fee
        /\ conn'.rewards = conn.rewards
    BY <1>1, <1>7, <1>8, <1>10 DEF Hashed, Told
  <2> QED BY <1>8, <1>10, <2>1, <2>2 DEF Tracks, IsProgress
<1>11. CASE /\ CheckAccountNonce(tx) /\ left = {}
            /\ Hashed(tx, "failed") /\ work' = counted /\ UNCHANGED v1
  <2>1. ~Works(d.version, tx.kind, Bare(counted))
    BY <1>2, <1>5, <1>6, <1>11
  <2>2. t = [s EXCEPT !.work = Bare(counted), !.list = Told(d, s, tx, "failed")]
    BY <1>3, <1>8, <1>11, <2>1 DEF ByV1, CheckAccountNonce
  <2>3. conn'.hashList = Told(d, s, tx, "failed") /\ conn'.fee = conn.fee
        /\ conn'.rewards = conn.rewards
    BY <1>1, <1>7, <1>8, <1>11 DEF Hashed, Told
  <2> QED BY <1>8, <1>11, <2>2, <2>3 DEF Tracks, IsProgress
<1>12. CASE /\ CheckAccountNonce(tx)
            /\ HashedAndPaid(tx, rewardsBefore)
            /\ work' \in left
            /\ v1' = [registered(tx.kind)
                        EXCEPT !.version = IF tx.kind = "upgrade" THEN 2 ELSE @]
  <2>1. Works(d.version, tx.kind, Bare(counted)) /\ work' = Made(h, tx.kind, counted)
    BY <1>2, <1>5, <1>6, <1>12
  <2>2. t = [work |-> Made(h, tx.kind, Bare(counted)), list |-> Told(d, s, tx, "ok"),
             fee |-> s.fee + 1,
             rewards |-> (IF d.version = 0 /\ h < ForkHeight THEN 0 ELSE s.rewards) + 1,
             version |-> IF tx.kind = "upgrade" THEN 2 ELSE s.version]
    BY <1>2, <1>3, <1>8, <1>12, <2>1 DEF ByV1, CheckAccountNonce
  <2>3. /\ conn'.hashList = Told(d, s, tx, "ok") /\ conn'.fee = conn.fee + 1
        /\ conn'.rewards = (IF db.version = 0 /\ h < ForkHeight THEN 0 ELSE conn.rewards) + 1
    BY <1>1, <1>7, <1>8, <1>12 DEF HashedAndPaid, Told, rewardsBefore, V1_0_2_3233
  <2>4. v1'.version = IF tx.kind = "upgrade" THEN 2 ELSE v1.version
    BY <1>12 DEF registered, InStep, Records
  <2>5. IsProgress(t)
    BY <2>2 DEF IsProgress
  <2>6. t.work = Bare(work') /\ t.list = conn'.hashList /\ t.fee = conn'.fee
        /\ t.version = v1'.version
    BY <1>6, <1>8, <2>1, <2>2, <2>3, <2>4
  <2>7. Settles => t.rewards = conn'.rewards
    BY <1>2, <1>8, <2>2, <2>3
  <2> QED BY <2>5, <2>6, <2>7 DEF Tracks
<1> QED BY <1>4, <1>10, <1>11, <1>12

(* So is one that the v2 connection executes.                              *)
LEMMA ByV2Tracks ==
  ASSUME InStep, phase = "block", UNCHANGED db,
         NEW s, Tracks(s, work, conn, v1.version), NEW tx, runDeliverTx(tx)
  PROVE  Tracks(ByV2(Bare(db), s, tx), work', conn', v1'.version)
<1> DEFINE counted == [work EXCEPT !.nonce = tx.nonce]
           d == Bare(db)
           t == ByV2(d, s, tx)
<1>1. /\ IsContents(work) /\ IsContents(db) /\ ChainVersion = db.version
      /\ conn = [hashList |-> conn.hashList, fee |-> conn.fee, rewards |-> conn.rewards]
  BY Serving DEF InStep, Records, Stored, Good
<1>2. d.version = db.version
  BY <1>1, BareFields
<1>3. /\ [Bare(work) EXCEPT !.nonce = tx.nonce] = Bare(counted)
      /\ Bare(work).nonce = work.nonce
  BY <1>1, BareCounted
<1>4. /\ UNCHANGED v1
      /\ \/ /\ tx.kind = "malformed" \/ tx.nonce # work.nonce + 1
            /\ Hashed(tx, "rejected") /\ UNCHANGED work
         \/ /\ ~(tx.kind = "malformed" \/ tx.nonce # work.nonce + 1)
            /\ tx.kind \in {"call", "transfer"}
            /\ work' = counted /\ HashedAndPaid(tx, conn.rewards)
         \/ /\ ~(tx.kind = "malformed" \/ tx.nonce # work.nonce + 1)
            /\ tx.kind \notin {"call", "transfer"}
            /\ work' = counted
            /\ conn' = [conn EXCEPT !.hashList = Append(@, Entry(tx, "failed")),
                                    !.rewards = @ + 1]
  BY DEF runDeliverTx, CheckAccountNonce
<1> HIDE DEF counted
<1>5. \A code : Entry(tx, code) = [tx |-> tx, code |-> code, by |-> d.version]
  BY <1>1, <1>2 DEF Entry
<1>6. /\ IsProgress(s)
      /\ s.work = Bare(work) /\ s.list = conn.hashList /\ s.fee = conn.fee
      /\ s.version = v1.version /\ (Settles => s.rewards = conn.rewards)
  BY DEF Tracks
<1>7. CASE /\ tx.kind = "malformed" \/ tx.nonce # work.nonce + 1
           /\ Hashed(tx, "rejected") /\ UNCHANGED work
  <2>1. t = [s EXCEPT !.list = Told(d, s, tx, "rejected")]
    BY <1>3, <1>6, <1>7 DEF ByV2
  <2>2. conn'.hashList = Told(d, s, tx, "rejected") /\ conn'.fee = conn.fee
        /\ conn'.rewards = conn.rewards
    BY <1>1, <1>5, <1>6, <1>7 DEF Hashed, Told
  <2> QED BY <1>4, <1>6, <1>7, <2>1, <2>2 DEF Tracks, IsProgress
<1>8. CASE /\ ~(tx.kind = "malformed" \/ tx.nonce # work.nonce + 1)
           /\ tx.kind \in {"call", "transfer"}
           /\ work' = counted /\ HashedAndPaid(tx, conn.rewards)
  <2>1. t = [s EXCEPT !.work = Bare(counted), !.list = Told(d, s, tx, "ok"),
                      !.fee = @ + 1, !.rewards = @ + 1]
    BY <1>3, <1>6, <1>8 DEF ByV2
  <2>2. conn'.hashList = Told(d, s, tx, "ok") /\ conn'.fee = conn.fee + 1
        /\ conn'.rewards = conn.rewards + 1
    BY <1>1, <1>5, <1>6, <1>8 DEF HashedAndPaid, Told
  <2>3. t = [work |-> Bare(counted), list |-> Told(d, s, tx, "ok"), fee |-> s.fee + 1,
             rewards |-> s.rewards + 1, version |-> s.version]
    BY <1>6, <2>1 DEF IsProgress
  <2> QED BY <1>4, <1>6, <1>8, <2>2, <2>3 DEF Tracks, IsProgress
<1>9. CASE /\ ~(tx.kind = "malformed" \/ tx.nonce # work.nonce + 1)
           /\ tx.kind \notin {"call", "transfer"}
           /\ work' = counted
           /\ conn' = [conn EXCEPT !.hashList = Append(@, Entry(tx, "failed")),
                                   !.rewards = @ + 1]
  <2>1. t = [s EXCEPT !.work = Bare(counted), !.list = Told(d, s, tx, "failed"),
                      !.rewards = @ + 1]
    BY <1>3, <1>6, <1>9 DEF ByV2
  <2>2. conn'.hashList = Told(d, s, tx, "failed") /\ conn'.fee = conn.fee
        /\ conn'.rewards = conn.rewards + 1
    BY <1>1, <1>5, <1>6, <1>9 DEF Told
  <2>3. t = [work |-> Bare(counted), list |-> Told(d, s, tx, "failed"), fee |-> s.fee,
             rewards |-> s.rewards + 1, version |-> s.version]
    BY <1>6, <2>1 DEF IsProgress
  <2> QED BY <1>4, <1>6, <1>9, <2>2, <2>3 DEF Tracks, IsProgress
<1> QED BY <1>4, <1>7, <1>8, <1>9

(* Each DeliverTx that does not lose the container is tracked.             *)
LEMMA DeliverTracks ==
  ASSUME InStep, DeliverTx, phase' = "block", db.height \in Nat,
         NEW s, Tracks(s, work, conn, v1.version)
  PROVE  Tracks(Delivered(Bare(db), s, blocks[db.height + 1][done + 1]),
                work', conn', v1'.version)
<1> DEFINE tx == blocks[db.height + 1][done + 1]
           d == Bare(db)
<1>1. /\ phase = "block" /\ UNCHANGED db
      /\ CASE tx.format = "v1"                     -> deliverBCTx(tx)
           [] tx.format = "v2" /\ ChainVersion = 2 -> runDeliverTx(tx)
           [] OTHER                                -> ignored
  BY DEF DeliverTx, store
<1>2. IsContents(db) /\ ChainVersion = db.version /\ db.version \in {0, 2}
  BY <1>1, Serving DEF InStep, Stored, Good
<1>3. d.version = db.version
  BY <1>2, BareFields
<1> HIDE DEF tx
<1>4. ASSUME ignored PROVE Tracks(s, work', conn', v1'.version)
  BY <1>4 DEF ignored, Tracks
<1>5. ASSUME runDeliverBCTx(tx) PROVE Tracks(ByV1(d, s, tx), work', conn', v1'.version)
  BY <1>1, <1>5, ByV1Tracks
<1>6. ASSUME runDeliverTx(tx) PROVE Tracks(ByV2(d, s, tx), work', conn', v1'.version)
  BY <1>1, <1>6, ByV2Tracks
<1>7. CASE tx.format = "v1"
  <2>1. deliverBCTx(tx)
    BY <1>1, <1>7
  <2>2. CASE tx.kind = "malformed"
    <3>1. ignored
      BY <2>1, <2>2 DEF deliverBCTx, parses
    <3>2. Delivered(d, s, tx) = s
      BY <1>7, <2>2 DEF Delivered
    <3> QED BY <1>4, <3>1, <3>2 DEF tx
  <2>3. CASE tx.kind # "malformed" /\ db.version = 2
    <3>1. runDeliverBCTxEx(tx)
      BY <1>2, <2>1, <2>3 DEF deliverBCTx, parses
    <3>2. CASE tx.kind = "missing"
      <4>1. ignored
        BY <3>1, <3>2 DEF runDeliverBCTxEx, exMessageParams
      <4>2. Delivered(d, s, tx) = s
        BY <1>3, <1>7, <2>3, <3>2 DEF Delivered
      <4> QED BY <1>4, <4>1, <4>2 DEF tx
    <3>3. CASE tx.kind = "transfer"
      <4>1. runDeliverTx(tx)
        BY <3>1, <3>3 DEF runDeliverBCTxEx, exMessageParams
      <4>2. Delivered(d, s, tx) = ByV2(d, s, tx)
        BY <1>3, <1>7, <2>3, <3>3 DEF Delivered
      <4> QED BY <1>6, <4>1, <4>2 DEF tx
    <3>4. CASE tx.kind \notin {"missing", "transfer"}
      <4>1. runDeliverBCTx(tx)
        BY <3>1, <3>4 DEF runDeliverBCTxEx, exMessageParams
      <4>2. Delivered(d, s, tx) = ByV1(d, s, tx)
        BY <1>7, <2>3, <3>4 DEF Delivered
      <4> QED BY <1>5, <4>1, <4>2 DEF tx
    <3> QED BY <3>2, <3>3, <3>4
  <2>4. CASE tx.kind # "malformed" /\ db.version = 0
    <3>1. runDeliverBCTx(tx)
      BY <1>2, <2>1, <2>4 DEF deliverBCTx, parses
    <3>2. Delivered(d, s, tx) = ByV1(d, s, tx)
      BY <1>3, <1>7, <2>4 DEF Delivered
    <3> QED BY <1>5, <3>1, <3>2 DEF tx
  <2> QED BY <1>2, <2>2, <2>3, <2>4
<1>8. CASE tx.format = "v2" /\ db.version = 2
  <2>1. runDeliverTx(tx)
    BY <1>1, <1>2, <1>8
  <2>2. Delivered(d, s, tx) = ByV2(d, s, tx)
    BY <1>3, <1>8 DEF Delivered
  <2> QED BY <1>6, <2>1, <2>2 DEF tx
<1>9. CASE tx.format # "v1" /\ ~(tx.format = "v2" /\ db.version = 2)
  <2>1. ignored
    BY <1>1, <1>2, <1>9
  <2>2. Delivered(d, s, tx) = s
    BY <1>3, <1>9 DEF Delivered
  <2> QED BY <1>4, <2>1, <2>2 DEF tx
<1> QED BY <1>7, <1>8, <1>9

(* What a contract makes of the list of mining contracts.                  *)
LEMMA MinersMade ==
  ASSUME NEW h \in Nat, NEW v, NEW kind, NEW c, IsContents(c), IsMiners(c.miners),
         Works(v, kind, c)
  PROVE  LET m == Made(h, kind, c).miners IN
         /\ IsMiners(m)
         /\ kind = "mining" => c.miners = << >> /\ m # << >> /\ m[1].lose = 0
         /\ kind = "upgrade" => /\ v = 0
                                /\ m = << >> <=> c.miners = << >>
                                /\ m # << >> => /\ m[1].effect = c.miners[1].effect
                                                /\ m[1].lose = h + 1
         /\ kind \notin {"mining", "upgrade"} => m = c.miners
<1>1. CASE kind = "mining"
  <2>1. Made(h, kind, c).miners = <<Contract(h + 1)>> /\ c.miners = << >>
    BY <1>1 DEF Made, Works, HasMiner, IsContents
  <2>2. Contract(h + 1) \in [effect : Nat, lose : Nat] /\ Contract(h + 1).lose = 0
    BY DEF Contract
  <2>3. ASSUME NEW x \in [effect : Nat, lose : Nat], x.lose = 0
        PROVE  IsMiners(<<x>>) /\ <<x>> # << >> /\ <<x>>[1].lose = 0
    BY <2>3 DEF IsMiners
  <2>4. LET m == <<Contract(h + 1)>> IN IsMiners(m) /\ m # << >> /\ m[1].lose = 0
    BY <2>2, <2>3
  <2> QED BY <1>1, <2>1, <2>4
<1>2. CASE kind = "upgrade"
  <2>1. Made(h, kind, c).miners = forbidMining(c, h + 1) /\ v = 0
    BY <1>2 DEF Made, Works, IsContents
  <2>2. CASE c.miners = << >>
    BY <1>2, <2>1, <2>2 DEF forbidMining, IsMiners
  <2>3. CASE c.miners # << >>
    <3>1. PICK x \in [effect : Nat, lose : Nat] : c.miners = <<x>>
      BY <2>3 DEF IsMiners
    <3>2. forbidMining(c, h + 1) = <<[x EXCEPT !.lose = h + 1]>>
      BY <2>3, <3>1 DEF forbidMining
    <3>3. PICK y : y = [x EXCEPT !.lose = h + 1]
      OBVIOUS
    <3>4. y \in [effect : Nat, lose : Nat] /\ y.effect = x.effect /\ y.lose = h + 1
      BY <3>3
    <3>5. IsMiners(<<y>>) /\ <<y>> # << >> /\ <<y>>[1] = y
      BY <3>4 DEF IsMiners
    <3>6. c.miners[1] = x
      BY <3>1
    <3>7. Made(h, kind, c).miners = <<y>>
      BY <2>1, <3>2, <3>3
    <3> QED BY <1>2, <2>1, <2>3, <3>4, <3>5, <3>6, <3>7
  <2> QED BY <2>2, <2>3
<1>3. CASE kind \notin {"mining", "upgrade"}
  BY <1>3 DEF Made, IsContents
<1> QED BY <1>1, <1>2, <1>3

(* What a DeliverTx does to the mining contract and to what v1 knows of it:*)
(* nothing, or it is deployed, or the upgrade forbids it.                  *)
MinersKept ==
  /\ work'.miners = work.miners /\ v1'.version = v1.version
  /\ v1'.mineStub = v1.mineStub /\ v1'.mineContract = v1.mineContract

MinerDeployed ==
  /\ work.miners = << >> /\ work'.miners # << >> /\ IsMiners(work'.miners)
  /\ work'.miners[1].lose = 0 /\ v1'.version = v1.version
  /\ v1'.mineStub = TRUE /\ v1'.mineContract = v1.mineContract

MinerForbidden ==
  /\ IsMiners(work'.miners) /\ (work'.miners = << >> <=> work.miners = << >>)
  /\ work'.miners # << >> => /\ work'.miners[1].effect = work.miners[1].effect
                             /\ work'.miners[1].lose = db.height + 2
  /\ v1'.version = 2
  /\ v1'.mineStub = v1.mineStub /\ v1'.mineContract = v1.mineContract

(* A transaction that version 1 executes does one of the three.            *)
LEMMA MinersDelivered ==
  ASSUME InStep, Mining, phase = "block", db.height \in Nat, UNCHANGED db,
         NEW tx, runDeliverBCTx(tx)
  PROVE  MinersKept \/ MinerDeployed \/ MinerForbidden
<1> DEFINE counted == [work EXCEPT !.nonce = tx.nonce]
           left == invokeV1(tx.kind, counted)
           h == db.height + 1
<1>1. IsContents(work) /\ work.third \in BOOLEAN /\ ChainVersion = db.version
      /\ IsMiners(work.miners)
  BY Serving DEF InStep, Records, Mining
<1>2. /\ IsContents(counted) /\ counted.third = work.third /\ counted.miners = work.miners
  BY <1>1, BareCounted
<1>3. \/ UNCHANGED <<work, v1>>
      \/ work' = counted /\ UNCHANGED v1
      \/ /\ work' \in left
         /\ v1' = [registered(tx.kind)
                     EXCEPT !.version = IF tx.kind = "upgrade" THEN 2 ELSE @]
  BY DEF runDeliverBCTx
<1> HIDE DEF counted
<1>4. left = IF Works(db.version, tx.kind, counted)
             THEN {Made(h, tx.kind, counted)} ELSE {}
  BY <1>1, <1>2, InvokesAsWorks
<1> HIDE DEF left
<1>5. CASE UNCHANGED <<work, v1>>
  BY <1>5 DEF MinersKept
<1>6. CASE work' = counted /\ UNCHANGED v1
  BY <1>2, <1>6 DEF MinersKept
<1>7. CASE /\ work' \in left
           /\ v1' = [registered(tx.kind)
                       EXCEPT !.version = IF tx.kind = "upgrade" THEN 2 ELSE @]
  <2>1. Works(db.version, tx.kind, counted) /\ work' = Made(h, tx.kind, counted)
    BY <1>4, <1>7
  <2>2. v1' = [version |-> IF tx.kind = "upgrade" THEN 2 ELSE v1.version,
               mineStub |-> (v1.mineStub \/ tx.kind = "mining"),
               mineContract |-> v1.mineContract,
               check |-> (v1.check \/ tx.kind = "issue"),
               deliver |-> (v1.deliver \/ tx.kind = "issue"), left |-> v1.left]
    BY <1>7 DEF InStep, Records, registered, registeredInCheck
  <2>3. v1.mineStub \in BOOLEAN
    BY DEF Mining
  <2>4. PICK m : m = Made(h, tx.kind, counted).miners
    OBVIOUS
  <2>5. /\ IsMiners(m)
        /\ tx.kind = "mining" => work.miners = << >> /\ m # << >> /\ m[1].lose = 0
        /\ tx.kind = "upgrade" => /\ m = << >> <=> work.miners = << >>
                                  /\ m # << >> => /\ m[1].effect = work.miners[1].effect
                                                  /\ m[1].lose = h + 1
        /\ tx.kind \notin {"mining", "upgrade"} => m = work.miners
    BY <1>1, <1>2, <2>1, <2>4, MinersMade, h \in Nat
  <2>6. work'.miners = m /\ v1'.mineContract = v1.mineContract
        /\ v1'.version = (IF tx.kind = "upgrade" THEN 2 ELSE v1.version)
        /\ v1'.mineStub = (v1.mineStub \/ tx.kind = "mining")
    BY <2>1, <2>2, <2>4
  <2>7. CASE tx.kind = "mining"
    <3>1. v1'.mineStub = TRUE /\ v1'.version = v1.version
      BY <2>6, <2>7
    <3> QED BY <2>5, <2>6, <2>7, <3>1 DEF MinerDeployed
  <2>8. CASE tx.kind = "upgrade"
    <3>1. v1'.mineStub = v1.mineStub /\ v1'.version = 2
      BY <2>3, <2>6, <2>8
    <3>2. h + 1 = db.height + 2
      OBVIOUS
    <3> QED BY <2>5, <2>6, <2>8, <3>1, <3>2 DEF MinerForbidden
  <2>9. CASE tx.kind \notin {"mining", "upgrade"}
    <3>1. v1'.mineStub = v1.mineStub /\ v1'.version = v1.version
      BY <2>3, <2>6, <2>9
    <3> QED BY <2>5, <2>6, <2>9, <3>1 DEF MinersKept
  <2> QED BY <2>7, <2>8, <2>9
<1> QED BY <1>3, <1>5, <1>6, <1>7

(* No transaction breaks what is known of the mining contract.             *)
LEMMA DeliverTxMining ==
  ASSUME InStep, Mining, DeliverTx, db.height \in Nat
  PROVE  Mining'
<1>1. UNCHANGED <<db, past>> /\ phase = "block"
  BY Outcomes DEF InStep
<1>2. CASE MinersKept /\ UNCHANGED phase
  BY <1>1, <1>2 DEF Mining, MinersKept
<1>3. CASE MinerDeployed /\ UNCHANGED phase
  BY <1>1, <1>3 DEF Mining, MinerDeployed
<1>4. CASE MinerForbidden /\ UNCHANGED phase
  BY <1>1, <1>4 DEF Mining, MinerForbidden
<1>5. CASE phase' = "error transID" /\ UNCHANGED <<work, v1>>
  BY <1>1, <1>5 DEF Mining
<1>6. PICK tx : runDeliverBCTx(tx) \/ runDeliverTx(tx) \/ ignored
  BY DEF DeliverTx, deliverBCTx, runDeliverBCTxEx
<1>7. CASE ignored
  BY <1>2, <1>7 DEF ignored, MinersKept
<1>8. CASE runDeliverTx(tx)
  <2>1. IsContents(work)
    BY DEF InStep, Records
  <2>2. UNCHANGED <<v1, phase>> /\ (work' = work \/ work' = [work EXCEPT !.nonce = tx.nonce])
    BY <1>8 DEF runDeliverTx
  <2>3. [work EXCEPT !.nonce = tx.nonce].miners = work.miners
    BY <2>1, BareCounted
  <2>4. work'.miners = work.miners
    BY <2>2, <2>3
  <2>5. MinersKept
    BY <2>2, <2>4 DEF MinersKept
  <2> QED BY <1>2, <2>2, <2>5
<1>9. CASE runDeliverBCTx(tx)
  <2>1. \/ phase' = "error transID" /\ UNCHANGED <<work, v1>>
        \/ UNCHANGED phase
    BY <1>9 DEF runDeliverBCTx
  <2> QED BY <1>1, <1>3, <1>2, <1>4, <1>5, <1>9, <2>1, MinersDelivered
<1> QED BY <1>6, <1>7, <1>8, <1>9

(* At the end of a block of version 1 the mining contract that takes effect*)
(* mines, whether it was looked up in this block or before: an upgrade in  *)
(* the same block forbids it from the next one on.                         *)
LEMMA MinesAsMined ==
  ASSUME InStep, Mining, phase = "block", db.height \in Nat
  PROVE  /\ mines <=> Mined(db, work)
         /\ db.version = 0 /\ mineContract # Nil =>
              /\ work.miners # << >>
              /\ mineContract.effect = work.miners[1].effect
              /\ mineContract.lose \in IF v1.version # 0 THEN {0, db.height + 2} ELSE {0}
<1>1. ChainVersion = db.version
  BY Serving DEF InStep
<1>2. /\ IsMiners(work.miners)
      /\ v1.mineStub = (work.miners # << >>)
      /\ db.version = 0 /\ work.miners # << >> =>
           work.miners[1].lose \in IF v1.version = 0 THEN {0} ELSE {0, db.height + 2}
      /\ db.version = 0 /\ v1.mineContract # Nil =>
           /\ work.miners # << >>
           /\ v1.mineContract.effect = work.miners[1].effect
           /\ v1.mineContract.lose \in {0}
  BY DEF Mining
<1>3. CASE db.version # 0
  BY <1>1, <1>3 DEF mines, Mined
<1>4. CASE db.version = 0 /\ work.miners = << >>
  <2>1. mineContract = Nil
    BY <1>2, <1>4 DEF mineContract
  <2> QED BY <1>4, <2>1 DEF mines, Mined
<1>5. CASE db.version = 0 /\ work.miners # << >>
  <2>1. PICK x \in [effect : Nat, lose : Nat] : work.miners = <<x>>
    BY <1>2, <1>5 DEF IsMiners
  <2>2. work.miners[1] = x /\ Last(work.miners) = x /\ x # Nil
    BY <2>1, NilAssumption DEF Last
  <2>3. mineContract = IF v1.mineContract = Nil THEN x ELSE v1.mineContract
    BY <1>2, <1>5, <2>2 DEF mineContract
  <2>4. x.lose \in IF v1.version = 0 THEN {0} ELSE {0, db.height + 2}
    BY <1>2, <1>5, <2>2
  <2>5. /\ mineContract # Nil /\ mineContract.effect = x.effect
        /\ mineContract.lose \in IF v1.version # 0 THEN {0, db.height + 2} ELSE {0}
    BY <1>2, <1>5, <2>2, <2>3, <2>4
  <2>6. IsMiningRightHeight(mineContract, db.height + 1) <=> x.effect <= db.height + 1
    BY <2>5 DEF IsMiningRightHeight
  <2> QED BY <1>1, <1>5, <2>2, <2>5, <2>6 DEF mines, Mined
<1> QED BY <1>3, <1>4, <1>5

(* The end of the block is tracked, and keeps the mining contract.         *)
LEMMA EndBlockTracks ==
  ASSUME InStep, Mining, EndBlock, db.height \in Nat, NEW s, Tracks(s, work, conn, v1.version)
  PROVE  /\ Tracks(Closed(Bare(db), s), work', conn', v1'.version)
         /\ work'.height = work.height /\ work'.rewards = work.rewards
<1>1. /\ phase = "block" /\ UNCHANGED db /\ ChainVersion = db.version
      /\ IsContents(db) /\ IsContents(work)
      /\ conn = [hashList |-> conn.hashList, fee |-> conn.fee, rewards |-> conn.rewards]
  BY Serving DEF EndBlock, store, InStep, Stored, Good, Records
<1>2. /\ v1'.version = v1.version
      /\ work' = IF mines THEN [work EXCEPT !.mined = @ + 1] ELSE work
      /\ conn' = IF mines THEN [conn EXCEPT !.hashList = Append(@, MineEntry)] ELSE conn
  BY DEF EndBlock, InStep, Records
<1>3. mines <=> Mined(Bare(db), Bare(work))
  BY <1>1, MinesAsMined, BareFields DEF Mined
<1>4. /\ IsProgress(s)
      /\ s.work = Bare(work) /\ s.list = conn.hashList /\ s.fee = conn.fee
      /\ s.version = v1.version /\ (Settles => s.rewards = conn.rewards)
  BY DEF Tracks
<1>5. Settles' <=> Settles
  BY <1>1 DEF Settles, StartsAfresh
<1>6. CASE ~mines
  <2>1. Closed(Bare(db), s) = s
    BY <1>3, <1>4, <1>6 DEF Closed
  <2> QED BY <1>2, <1>4, <1>5, <1>6, <2>1 DEF Tracks
<1>7. CASE mines
  <2>1. MineEntry = [tx |-> Nil, code |-> "mined", by |-> 0]
    BY <1>1, <1>7 DEF MineEntry, mines
  <2>2. PICK e : e = MineEntry
    OBVIOUS
  <2>3. Closed(Bare(db), s) = [s EXCEPT !.work = [s.work EXCEPT !.mined = @ + 1],
                                        !.list = Append(@, e)]
    BY <1>3, <1>4, <1>7, <2>1, <2>2 DEF Closed
  <2>4. conn' = [hashList |-> Append(conn.hashList, e), fee |-> conn.fee,
                 rewards |-> conn.rewards]
    BY <1>1, <1>2, <1>7, <2>2
  <2>5. work' = [work EXCEPT !.mined = @ + 1]
    BY <1>2, <1>7
  <2>6. [Bare(work) EXCEPT !.mined = @ + 1] = Bare(work')
        /\ work'.height = work.height /\ work'.rewards = work.rewards
    BY <1>1, <2>5 DEF IsContents, Bare
  <2>7. Closed(Bare(db), s) = [work |-> Bare(work'), list |-> conn'.hashList,
                               fee |-> s.fee, rewards |-> s.rewards, version |-> s.version]
    BY <1>4, <2>3, <2>4, <2>6 DEF IsProgress
  <2>8. Tracks(Closed(Bare(db), s), work', conn', v1'.version)
    BY <1>2, <1>4, <1>5, <2>4, <2>7 DEF Tracks, IsProgress
  <2> QED BY <2>6, <2>8
<1> QED BY <1>6, <1>7

(* Nor does the end of the block, at which it may be looked up for the     *)
(* first time.                                                             *)
LEMMA EndBlockMining ==
  ASSUME InStep, Mining, EndBlock, db.height \in Nat
  PROVE  Mining'
<1>1. /\ phase = "block" /\ phase' = "ended" /\ UNCHANGED <<db, past>>
      /\ ChainVersion = db.version /\ IsContents(work)
  BY Serving DEF EndBlock, store, InStep, Records
<1>2. /\ v1'.version = v1.version /\ v1'.mineStub = v1.mineStub
      /\ db.version = 0 => v1'.mineContract = mineContract
  BY <1>1 DEF EndBlock, InStep, Records
<1>3. work'.miners = work.miners
  <2>1. [work EXCEPT !.mined = @ + 1].miners = work.miners
    BY <1>1 DEF IsContents
  <2>2. work' = work \/ work' = [work EXCEPT !.mined = @ + 1]
    BY DEF EndBlock
  <2> QED BY <2>1, <2>2
<1>4. db.version = 0 /\ mineContract # Nil =>
        /\ work.miners # << >>
        /\ mineContract.effect = work.miners[1].effect
        /\ mineContract.lose \in IF v1.version # 0 THEN {0, db.height + 2} ELSE {0}
  BY <1>1, MinesAsMined
<1> QED BY <1>1, <1>2, <1>3, <1>4 DEF Mining

(* Contents of another height and version.                                 *)
LEMMA NextHeight ==
  ASSUME NEW c, IsContents(c), NEW n, NEW v, NEW r,
         r = [c EXCEPT !.height = n, !.version = v]
  PROVE  r = [height |-> n, version |-> v, hash |-> c.hash, fee |-> c.fee,
              rewards |-> c.rewards, nonce |-> c.nonce, miners |-> c.miners,
              minersV2 |-> c.minersV2, mined |-> c.mined, token |-> c.token,
              third |-> c.third, calls |-> c.calls]
<1>1. PICK d : d = [c EXCEPT !.height = n]
  OBVIOUS
<1>2. d = [height |-> n, version |-> c.version, hash |-> c.hash, fee |-> c.fee,
           rewards |-> c.rewards, nonce |-> c.nonce, miners |-> c.miners,
           minersV2 |-> c.minersV2, mined |-> c.mined, token |-> c.token,
           third |-> c.third, calls |-> c.calls]
  BY <1>1 DEF IsContents
<1>3. r = [d EXCEPT !.version = v]
  BY <1>1
<1> QED BY <1>2, <1>3

(* What the commit of a tracked block leaves.                              *)
LEMMA WorldLeaves ==
  ASSUME InStep, phase = "ended", work.height = db.height, work.rewards = db.rewards,
         NEW s, Tracks(s, work, conn, v1.version)
  PROVE  /\ Leaves(db, s, newWorld)
         /\ newWorld.hash = IF s.list = << >> THEN db.hash ELSE Append(db.hash, s.list)
         /\ newWorld.height = db.height + 1
<1>1. /\ IsContents(db) /\ IsContents(work) /\ work.hash = db.hash
      /\ work.version = db.version /\ ChainVersion = db.version
  BY Serving DEF InStep, Stored, Good, Records, Block
<1>2. /\ s.work = Bare(work) /\ s.list = conn.hashList /\ s.fee = conn.fee
      /\ s.version = v1.version /\ (Settles => s.rewards = conn.rewards)
  BY DEF Tracks
<1>3. PICK v : v = IF db.version = 0 THEN v1.version ELSE work.version
  OBVIOUS
<1>4. PICK empty : empty = (conn.hashList = << >>) /\ empty \in BOOLEAN
  OBVIOUS
<1>5. PICK n : n = work.height + 1
  OBVIOUS
<1>6. PICK w : w = [work EXCEPT !.height = @ + 1,
                                !.version = IF ChainVersion = 0 THEN v1.version ELSE @]
  OBVIOUS
<1>7. w = [height |-> n, version |-> v, hash |-> work.hash, fee |-> work.fee,
           rewards |-> work.rewards, nonce |-> work.nonce, miners |-> work.miners,
           minersV2 |-> work.minersV2, mined |-> work.mined, token |-> work.token,
           third |-> work.third, calls |-> work.calls]
  <2>1. v = IF ChainVersion = 0 THEN v1.version ELSE work.version
    BY <1>1, <1>3
  <2>2. w = [work EXCEPT !.height = @ + 1, !.version = v]
    BY <1>6, <2>1
  <2>3. w = [work EXCEPT !.height = n, !.version = v]
    BY <1>5, <2>2
  <2> QED BY <1>1, <2>3, NextHeight
<1>8. PICK u : u = [s.work EXCEPT !.height = @ + 1,
                                  !.version = IF Bare(db).version = 0 THEN s.version ELSE @]
  OBVIOUS
<1>9. u = [w EXCEPT !.rewards = 0]
  <2>1. /\ IsContents(s.work) /\ s.work.height = work.height
        /\ s.work.version = work.version /\ Bare(db).version = db.version
    BY <1>1, <1>2, BareFields DEF IsContents
  <2>2. v = IF Bare(db).version = 0 THEN s.version ELSE s.work.version
    BY <1>2, <1>3, <2>1
  <2>3. u = [s.work EXCEPT !.height = @ + 1, !.version = v]
    BY <1>8, <2>2
  <2>4. PICK x : x = s.work /\ IsContents(x) /\ n = x.height + 1
    BY <1>5, <2>1
  <2>5. u = [x EXCEPT !.height = n, !.version = v]
    BY <2>3, <2>4
  <2>6. IsContents(x)
    BY <2>4
  <2>7. u = [height |-> n, version |-> v, hash |-> x.hash, fee |-> x.fee,
             rewards |-> x.rewards, nonce |-> x.nonce, miners |-> x.miners,
             minersV2 |-> x.minersV2, mined |-> x.mined, token |-> x.token,
             third |-> x.third, calls |-> x.calls]
    BY <2>5, <2>6, NextHeight
  <2>8. /\ x.hash = work.hash /\ x.fee = work.fee /\ x.rewards = 0
        /\ x.nonce = work.nonce /\ x.miners = work.miners
        /\ x.minersV2 = work.minersV2 /\ x.mined = work.mined /\ x.token = work.token
        /\ x.third = work.third /\ x.calls = work.calls
    BY <1>1, <1>2, <2>4, BareFields
  <2> QED BY <1>7, <2>7, <2>8
<1>10. /\ w.height = db.height + 1 /\ w.hash = db.hash /\ w.rewards = db.rewards
       /\ newWorld = IF empty THEN w ELSE [w EXCEPT !.hash = Append(@, conn.hashList),
                                                    !.fee = conn.fee,
                                                    !.rewards = conn.rewards]
       /\ Left(Bare(db), s) = IF empty THEN u ELSE [u EXCEPT !.hash = Append(@, conn.hashList),
                                                             !.fee = conn.fee]
  <2>1. w.height = db.height + 1 /\ w.hash = db.hash /\ w.rewards = db.rewards
    BY <1>1, <1>5, <1>7
  <2>2. newWorld = IF empty THEN w ELSE [w EXCEPT !.hash = Append(@, conn.hashList),
                                                 !.fee = conn.fee,
                                                 !.rewards = conn.rewards]
    BY <1>4, <1>6 DEF newWorld
  <2>3. Left(Bare(db), s) = IF empty THEN u ELSE [u EXCEPT !.hash = Append(@, conn.hashList),
                                                          !.fee = conn.fee]
    BY <1>2, <1>4, <1>8 DEF Left
  <2> QED BY <2>1, <2>2, <2>3
<1>11. IsContents(w) /\ Bare(newWorld) = Left(Bare(db), s)
  <2>1. IsContents(w)
    BY <1>7 DEF IsContents
  <2> QED BY <1>9, <1>10, <2>1 DEF Bare, IsContents
<1>12. /\ newWorld.rewards = IF empty THEN db.rewards ELSE conn.rewards
       /\ newWorld.hash = IF empty THEN db.hash ELSE Append(db.hash, conn.hashList)
       /\ newWorld.height = db.height + 1
  BY <1>10, <1>11 DEF IsContents
<1>13. Leaves(db, s, newWorld)
  BY <1>2, <1>4, <1>11, <1>12 DEF Leaves, Settles
<1> QED BY <1>2, <1>4, <1>12, <1>13

(* The rewards that a block leaves are those of the first execution on the *)
(* same contents, unless they are carried over.                            *)
LEMMA LeavesKeep ==
  ASSUME NEW f, NEW h \in Nat, h >= 1, NEW d, IsContents(d), IsSequence(d.hash),
         IsContents(Contents(f, h - 1)), d.height = h - 1, Same(f, h - 1, d),
         NEW e, NEW s, Leaves(d, s, e), f[h].hash = e.hash,
         e.hash = IF s.list = << >> THEN d.hash ELSE Append(d.hash, s.list)
  PROVE  /\ Bare(e) = Left(Bare(Contents(f, h - 1)), s)
         /\ ~CarriedOver(f, h) =>
              e.rewards = IF s.list = << >> THEN Contents(f, h - 1).rewards ELSE s.rewards
<1>1. PICK c : c = Contents(f, h - 1)
  OBVIOUS
<1>2. /\ Bare(d) = Bare(c) /\ d.version = c.version /\ d.hash = c.hash
      /\ ~CarriedOver(f, h - 1) => d.rewards = c.rewards
  BY <1>1, BareSame DEF Same
<1>3. Bare(e) = Left(Bare(c), s)
  BY <1>2 DEF Leaves
<1>4. ASSUME s.list = << >>, ~CarriedOver(f, h) PROVE e.rewards = c.rewards
  <2>1. ~CarriedOver(f, h - 1)
    <3>1. SUFFICES ASSUME CarriedOver(f, h - 1) PROVE FALSE
      OBVIOUS
    <3>2. PICK g \in 2 .. ForkHeight - 1 :
            /\ g <= h - 1 /\ f[g - 1].version = 0
            /\ f[g].hash # f[g - 1].hash /\ f[g].hash = f[h - 1].hash
      BY <3>1 DEF CarriedOver
    <3>3. h - 1 # 0 /\ g <= h
      BY <3>2, HeightAssumption
    <3>4. f[h - 1].hash = f[h].hash
      BY <1>1, <1>2, <1>4, <3>3 DEF Contents
    <3>5. CarriedOver(f, h)
      BY <3>2, <3>3, <3>4 DEF CarriedOver
    <3> QED BY <1>4, <3>5
  <2> QED BY <1>2, <1>4, <2>1 DEF Leaves
<1>5. ASSUME s.list # << >>, ~CarriedOver(f, h) PROVE e.rewards = s.rewards
  <2>1. StartsAfresh(d)
    <3>1. SUFFICES ASSUME d.version = 0, h \in 2 .. ForkHeight - 1 PROVE FALSE
      BY DEF StartsAfresh
    <3>2. c = f[h - 1]
      BY <1>1, <3>1, HeightAssumption DEF Contents
    <3>3. f[h].hash # f[h - 1].hash
      <4>1. f[h].hash = Append(c.hash, s.list)
        BY <1>2, <1>5
      <4>2. Append(c.hash, s.list) # c.hash
        <5>1. IsSequence(c.hash)
          BY <1>2
        <5>2. Len(Append(c.hash, s.list)) = Len(c.hash) + 1 /\ Len(c.hash) \in Nat
          BY <5>1, SequenceAppend, SequenceDomain
        <5> QED BY <5>2
      <4> QED BY <3>2, <4>1, <4>2
    <3>4. f[h - 1].version = 0
      BY <1>2, <3>1, <3>2
    <3>5. CarriedOver(f, h)
      BY <3>1, <3>3, <3>4 DEF CarriedOver
    <3> QED BY <1>5, <3>5
  <2> QED BY <1>5, <2>1 DEF Leaves
<1> QED BY <1>1, <1>3, <1>4, <1>5

(* The heights of the database and of the recorded contents.               *)
LEMMA Heights ==
  ASSUME Stored, Recorded, Versions
  PROVE  /\ Len(past) \in Nat /\ Len(first) \in Nat /\ Len(blocks) \in Nat
         /\ db.height = Len(past) /\ db.height \in Nat /\ db.height <= Len(first)
         /\ IsContents(Contents(first, db.height)) /\ IsContents(db)
         /\ db.hash = Contents(first, db.height).hash /\ IsSequence(db.hash)
<1>1. /\ Len(past) \in Nat /\ Len(first) \in Nat /\ Len(blocks) \in Nat
      /\ Len(past) <= Len(first)
  BY SequenceDomain DEF Stored, Recorded, Versions
<1>2. PICK c : c = Contents(first, Len(past))
  OBVIOUS
<1>3. Len(past) \in 0 .. Len(first)
  BY <1>1
<1>4. IsContents(c) /\ c.height = Len(past) /\ IsSequence(c.hash) /\ IsContents(db)
  BY <1>2, <1>3 DEF Stored, Good, Recorded
<1>5. Bare(db) = Bare(c)
  BY <1>2 DEF Versions, Same
<1>6. db.height = c.height /\ db.hash = c.hash
  BY <1>4, <1>5, BareSame
<1> QED BY <1>1, <1>2, <1>4, <1>6

(* BeginBlock of the block after the committed one is given the app hash   *)
(* of the committed contents.                                              *)
LEMMA HashesAgree ==
  ASSUME Stored, Recorded, Versions
  PROVE  LET h == db.height + 1 IN
         (IF h = 1 THEN << << >> >> ELSE hashes[h - 1]) = db.hash
<1>1. /\ db.height \in Nat /\ Len(first) \in Nat /\ db.height <= Len(first)
      /\ db.hash = Contents(first, db.height).hash
  BY Heights
<1>2. CASE db.height = 0
  <2>1. Genesis.hash = << << >> >>
    BY DEF Genesis, Before
  <2> QED BY <1>1, <1>2, <2>1 DEF Contents
<1>3. CASE db.height # 0
  <2>1. /\ db.height \in 1 .. Len(first) /\ db.height + 1 # 1
        /\ (db.height + 1) - 1 = db.height
    BY <1>1, <1>3
  <2>2. hashes[db.height] = first[db.height].hash
    BY <2>1 DEF Recorded
  <2> QED BY <1>1, <1>3, <2>1, <2>2 DEF Contents
<1> QED BY <1>2, <1>3

(* One more height does not change what is known of the ones before.       *)
LEMMA FirstGrown ==
  ASSUME NEW f, IsSequence(f), NEW e, NEW g, g = Append(f, e), NEW h \in 0 .. Len(f)
  PROVE  /\ Contents(g, h) = Contents(f, h)
         /\ CarriedOver(g, h) <=> CarriedOver(f, h)
         /\ \A c : Same(g, h, c) <=> Same(f, h, c)
<1>1. Len(f) \in Nat /\ \A i \in 1 .. Len(f) : g[i] = f[i]
  BY SequenceDomain, SequenceAppend
<1>2. Contents(g, h) = Contents(f, h)
  <2>1. CASE h = 0
    BY <2>1 DEF Contents
  <2>2. CASE h # 0
    <3>1. h \in 1 .. Len(f)
      BY <1>1, <2>2
    <3> QED BY <1>1, <3>1 DEF Contents
  <2> QED BY <2>1, <2>2
<1>3. ASSUME NEW i \in 2 .. ForkHeight - 1, i <= h
      PROVE  g[i] = f[i] /\ g[i - 1] = f[i - 1] /\ g[h] = f[h]
  <2>1. i \in 1 .. Len(f) /\ i - 1 \in 1 .. Len(f) /\ h \in 1 .. Len(f)
    BY <1>1, <1>3, HeightAssumption
  <2> QED BY <1>1, <2>1
<1>4. CarriedOver(g, h) <=> CarriedOver(f, h)
  BY <1>3 DEF CarriedOver
<1>5. ASSUME NEW c PROVE Same(g, h, c) <=> Same(f, h, c)
  BY <1>2, <1>4 DEF Same
<1> QED BY <1>2, <1>4, <1>5

(* Nor what the blocks before ended with.                                  *)
LEMMA ExecutedGrown ==
  ASSUME NEW f, IsSequence(f), NEW n, NEW g, g = Append(f, n), NEW h \in 1 .. Len(f),
         NEW b, NEW e, Executed(f, h, b, e)
  PROVE  Executed(g, h, b, e)
<1>1. h \in 0 .. Len(f) /\ h - 1 \in 0 .. Len(f)
  BY SequenceDomain
<1>2. Contents(g, h - 1) = Contents(f, h - 1) /\ (CarriedOver(g, h) <=> CarriedOver(f, h))
  BY <1>1, FirstGrown
<1> QED BY <1>2 DEF Executed, Ends

(* The recorded contents, as long as consensus records nothing.            *)
LEMMA RecordedStays ==
  ASSUME Recorded, UNCHANGED <<blocks, hashes, first>>
  PROVE  Recorded'
BY DEF Recorded

(* The committed contents, as long as neither they nor the recorded ones   *)
(* change.                                                                 *)
LEMMA VersionsStays ==
  ASSUME Versions, UNCHANGED <<db, past, first>>
  PROVE  Versions'
BY DEF Versions

(* The block under way, as long as none of its records changes.            *)
LEMMA ProgressesStays ==
  ASSUME Progresses, UNCHANGED <<db, work, v1, conn, phase, done, blocks>>
  PROVE  Progresses'
BY DEF Progresses, Tracks, Settles

(* The mining contract, as long as no contents and no connection change.   *)
LEMMA MiningStays ==
  ASSUME Mining, UNCHANGED <<db, past, work, v1, phase>>
  PROVE  Mining'
BY DEF Mining

-----------------------------------------------------------------------------
(* The chain starts from the genesis contents.                             *)
LEMMA InitReplays == ASSUME Init PROVE Replays
<1>1. /\ db = Genesis /\ work = Genesis /\ past = << >> /\ phase = "idle"
      /\ blocks = << >> /\ hashes = << >> /\ first = << >>
      /\ v1 = NewV1 /\ conn = NewConn
  BY DEF Init, InitWith
<1>2. /\ IsContents(Genesis) /\ Genesis.height = 0 /\ Genesis.version = 0
      /\ Genesis.hash = << << >> >> /\ Genesis.miners = << >>
  <2>1. IsContents(Before) /\ Before.height = 0 /\ Before.version = 0
        /\ Before.miners = << >>
    BY DEF Before, IsContents
  <2> QED BY <2>1 DEF Genesis, IsContents
<1>3. IsSequence(<< >>) /\ Len(<< >>) = 0 /\ 1 .. 0 = {} /\ 0 .. 0 = {0}
  BY EmptySequence
<1>4. IsSequence(Genesis.hash)
  BY <1>2 DEF IsSequence, Range
<1>5. Contents(<< >>, 0) = Genesis
  BY DEF Contents
<1>6. Recorded
  BY <1>1, <1>2, <1>3, <1>4, <1>5 DEF Recorded
<1>7. Versions
  BY <1>1, <1>3, <1>5 DEF Versions, Same
<1>8. Progresses
  BY <1>1 DEF Progresses, NewConn
<1>9. Mining
  <2>1. IsMiners(Genesis.miners) /\ Minable(Genesis)
    BY <1>2 DEF Minable, IsMiners
  <2>2. v1.mineStub = FALSE /\ v1.mineContract = Nil
    BY <1>1 DEF NewV1
  <2> QED BY <1>1, <1>2, <1>3, <2>1, <2>2 DEF Mining
<1> QED BY <1>6, <1>7, <1>8, <1>9 DEF Replays

(* Consensus decides one block more.                                       *)
LEMMA DecideRecorded ==
  ASSUME Recorded, NEW b, blocks' = Append(blocks, b), UNCHANGED <<hashes, first>>
  PROVE  Recorded'
<1>1. IsSequence(blocks) /\ Len(first) \in Nat /\ Len(blocks) \in Nat
      /\ Len(first) <= Len(blocks)
  BY SequenceDomain DEF Recorded
<1>2. /\ IsSequence(blocks') /\ Len(blocks') = Len(blocks) + 1
      /\ \A h \in 1 .. Len(blocks) : blocks'[h] = blocks[h]
  BY <1>1, SequenceAppend
<1>3. \A h \in 1 .. Len(first) : blocks'[h] = blocks[h]
  BY <1>1, <1>2
<1>4. Len(first) <= Len(blocks')
  BY <1>1, <1>2
<1> QED BY <1>2, <1>3, <1>4 DEF Recorded

LEMMA DecideReplays == ASSUME InStep, Replays, NEW b \in Blocks, Decide(b) PROVE Replays'
<1>1. /\ phase = "idle" /\ blocks' = Append(blocks, b)
      /\ UNCHANGED <<db, past, work, v1, conn, phase, done, hashes, first>>
  BY DEF Decide, store
<1>2. Recorded'
  BY <1>1, DecideRecorded DEF Replays
<1>3. Progresses'
  BY <1>1 DEF Replays, Progresses
<1> QED BY <1>1, <1>2, <1>3, VersionsStays, MiningStays DEF Replays

(* A check, and the end of an idle container, do not touch the block.      *)
LEMMA CheckTxReplays == ASSUME Replays, NEW tx \in Checked, CheckTx(tx) PROVE Replays'
<1>1. UNCHANGED <<db, past, work, v1, conn, phase, done, blocks, hashes, first>>
  BY DEF CheckTx, store, consensus
<1> QED BY <1>1, RecordedStays, VersionsStays, ProgressesStays, MiningStays DEF Replays

(* The idle container is killed.                                           *)
LEMMA KillIdleReplays == ASSUME Replays, KillIdle PROVE Replays'
<1>1. UNCHANGED <<db, past, work, v1, conn, phase, done, blocks, hashes, first>>
  BY DEF KillIdle, store, consensus
<1> QED BY <1>1, RecordedStays, VersionsStays, ProgressesStays, MiningStays DEF Replays

(* The recorded app hash is that of the committed contents, and the block  *)
(* starts as an execution starts.                                          *)
LEMMA BeginBlockReplays == ASSUME InStep, Replays, BeginBlock PROVE Replays'
<1> DEFINE h == db.height + 1
           last == IF h = 1 THEN << << >> >> ELSE hashes[h - 1]
<1>1. /\ phase = "idle" /\ db.height < Len(blocks) /\ done' = 0
      /\ UNCHANGED <<db, past, blocks, hashes, first>>
      /\ BCBeginBlock(h, last)
      /\ ChainVersion = db.version
  BY Serving DEF BeginBlock, store, consensus, InStep
<1>2. /\ db.height \in Nat /\ Len(first) \in Nat /\ db.height <= Len(first)
      /\ db.hash = Contents(first, db.height).hash /\ IsContents(db)
  BY Heights DEF InStep, Replays
<1>3. last = db.hash
  BY HashesAgree DEF InStep, Replays
<1>4. /\ phase' = "block" /\ work' = db /\ v1' = [v1 EXCEPT !.version = db.version]
      /\ conn' = [hashList |-> << >>, fee |-> 0, rewards |-> rewardsAtBegin(h)]
  BY <1>1, <1>3 DEF BCBeginBlock
<1>5. Settles => rewardsAtBegin(h) = 0
  <2>1. CASE db.version = 0 /\ h < ForkHeight
    <3>1. SUFFICES ASSUME Settles PROVE rewardsAtBegin(h) = 0
      OBVIOUS
    <3>2. h \notin 2 .. ForkHeight - 1
      BY <2>1, <3>1 DEF Settles, StartsAfresh
    <3>3. db.height = 0
      BY <1>2, <2>1, <3>2, HeightAssumption
    <3>4. conn.rewards = 0
      BY <1>1, <3>3 DEF Replays, Progresses
    <3> QED BY <3>4 DEF rewardsAtBegin
  <2>2. CASE ~(db.version = 0 /\ h < ForkHeight)
    BY <1>1, <2>2 DEF rewardsAtBegin, V1_0_2_3233
  <2> QED BY <2>1, <2>2
<1>6. v1'.version = db.version /\ v1'.mineStub = v1.mineStub
      /\ v1'.mineContract = v1.mineContract
  BY <1>4 DEF InStep, Records
<1>7. Tracks(Begun(Bare(db)), db, conn', db.version)
  <2>1. Bare(db).version = db.version
    BY <1>2, BareFields
  <2>2. conn'.hashList = << >> /\ conn'.fee = 0 /\ conn'.rewards = rewardsAtBegin(h)
    BY <1>4
  <2> QED BY <1>5, <2>1, <2>2 DEF Tracks, Begun, IsProgress
<1>8. Progresses'
  <2>1. PICK run : run = [i \in {0} |-> Begun(Bare(db))]
    OBVIOUS
  <2>2. run[0] = Begun(Bare(db))
    BY <2>1
  <2>3. Run(Bare(db), blocks[h], 0, run)
    BY <2>2 DEF Run
  <2>4. Tracks(run[0], work', conn', v1'.version)
    BY <1>4, <1>6, <1>7, <2>2
  <2>5. 0 \in Nat /\ work'.height = db.height /\ work'.rewards = db.rewards
    BY <1>4
  <2> QED BY <1>1, <1>4, <2>3, <2>4, <2>5 DEF Progresses, Tracks, Settles
<1>9. Mining'
  <2>1. /\ Minable(db) /\ \A i \in 1 .. Len(past) : Minable(past[i])
        /\ work.miners = db.miners /\ v1.mineStub = (work.miners # << >>)
        /\ db.version = 0 /\ v1.mineContract # Nil =>
             /\ work.miners # << >>
             /\ v1.mineContract.effect = work.miners[1].effect
             /\ v1.mineContract.lose \in {0}
    BY <1>1 DEF Replays, Mining
  <2> QED BY <1>1, <1>4, <1>6, <2>1 DEF Mining, Minable
<1> QED BY <1>1, <1>8, <1>9, RecordedStays, VersionsStays DEF Replays

(* A transaction leaves the height and the rewards of the world state.     *)
LEMMA WorldKept ==
  ASSUME InStep, DeliverTx, db.height \in Nat
  PROVE  work'.height = work.height /\ work'.rewards = work.rewards
<1>1. PICK tx : runDeliverBCTx(tx) \/ runDeliverTx(tx) \/ ignored
  BY DEF DeliverTx, deliverBCTx, runDeliverBCTxEx
<1> DEFINE counted == [work EXCEPT !.nonce = tx.nonce]
           left == invokeV1(tx.kind, counted)
<1>2. phase = "block" /\ IsContents(work) /\ work.third \in BOOLEAN
  BY DEF DeliverTx, InStep, Records
<1>3. /\ IsContents(counted) /\ counted.third = work.third
      /\ counted.height = work.height /\ counted.rewards = work.rewards
  <2>1. counted.height = work.height /\ counted.rewards = work.rewards
    BY <1>2 DEF IsContents
  <2> QED BY <1>2, <2>1, BareCounted
<1>4. work' = work \/ work' = counted \/ work' \in left
  BY <1>1 DEF runDeliverBCTx, runDeliverTx, ignored
<1> HIDE DEF counted
<1>5. left \subseteq {Made(db.height + 1, tx.kind, counted)}
  BY <1>2, <1>3, InvokesAsWorks
<1>6. ASSUME NEW h, NEW kind
      PROVE  LET m == Made(h, kind, counted) IN
             m.height = counted.height /\ m.rewards = counted.rewards
  BY <1>3 DEF Made, IsContents
<1> HIDE DEF left
<1> QED BY <1>3, <1>4, <1>5, <1>6

(* A transaction carries the execution on by one.                          *)
LEMMA DeliverTxReplays == ASSUME InStep, Replays, DeliverTx PROVE Replays'
<1> DEFINE b == blocks[db.height + 1]
<1>1. /\ phase = "block" /\ done' = done + 1
      /\ UNCHANGED <<db, past, blocks, hashes, first>>
      /\ phase' \in {"block", "error transID"}
  BY Outcomes DEF InStep, DeliverTx, store, consensus, Lost, Counted, Succeeds
<1>2. db.height \in Nat
  BY Heights DEF InStep, Replays
<1>3. Mining'
  BY <1>2, DeliverTxMining DEF Replays
<1>4. CASE phase' = "error transID"
  <2>1. Progresses'
    BY <1>4 DEF Progresses
  <2> QED BY <1>1, <1>3, <2>1, RecordedStays, VersionsStays DEF Replays
<1>5. CASE phase' = "block"
  <2>1. /\ db.height < Len(blocks) /\ done \in Nat
        /\ work.height = db.height /\ work.rewards = db.rewards
    BY <1>1 DEF Replays, Progresses
  <2>2. PICK r : Run(Bare(db), b, done, r) /\ Tracks(r[done], work, conn, v1.version)
    BY <1>1 DEF Replays, Progresses
  <2>3. PICK s : s = Delivered(Bare(db), r[done], b[done + 1])
    OBVIOUS
  <2>4. Tracks(s, work', conn', v1'.version)
    BY <1>2, <1>5, <2>2, <2>3, DeliverTracks
  <2>5. PICK q : q = [i \in 0 .. done + 1 |-> IF i = done + 1 THEN s ELSE r[i]]
    OBVIOUS
  <2>6. /\ \A i \in 0 .. done : q[i] = r[i]
        /\ q[done + 1] = s
    BY <2>1, <2>5
  <2>7. Run(Bare(db), b, done + 1, q)
    <3>1. q[0] = Begun(Bare(db))
      BY <2>1, <2>2, <2>6 DEF Run
    <3>2. ASSUME NEW i \in 1 .. done + 1 PROVE q[i] = Delivered(Bare(db), q[i - 1], b[i])
      <4>1. CASE i = done + 1
        <5>1. i - 1 = done /\ q[done] = r[done]
          BY <2>1, <2>6, <4>1
        <5> QED BY <2>3, <2>6, <4>1, <5>1
      <4>2. CASE i # done + 1
        <5>1. i \in 1 .. done /\ i - 1 \in 0 .. done /\ i \in 0 .. done
          BY <2>1, <4>2
        <5>2. r[i] = Delivered(Bare(db), r[i - 1], b[i])
          BY <2>2, <5>1 DEF Run
        <5> QED BY <2>6, <5>1, <5>2
      <4> QED BY <4>1, <4>2
    <3> QED BY <3>1, <3>2 DEF Run
  <2>8. Tracks(q[done + 1], work', conn', v1'.version)
    BY <2>4, <2>6
  <2>9. work'.height = work.height /\ work'.rewards = work.rewards
    BY <1>2, WorldKept
  <2>10. Progresses'
    <3>1. done + 1 \in Nat
      BY <2>1
    <3> QED BY <1>1, <1>5, <2>1, <2>7, <2>8, <2>9, <3>1 DEF Progresses, Tracks, Settles
  <2> QED BY <1>1, <1>3, <2>10, RecordedStays, VersionsStays DEF Replays
<1> QED BY <1>1, <1>4, <1>5

(* The end of the block.                                                   *)
LEMMA EndBlockReplays == ASSUME InStep, Replays, EndBlock PROVE Replays'
<1> DEFINE b == blocks[db.height + 1]
<1>1. /\ phase = "block" /\ phase' = "ended" /\ done = Len(b)
      /\ UNCHANGED <<db, past, done, blocks, hashes, first>>
  BY DEF EndBlock, store, consensus
<1>2. db.height \in Nat
  BY Heights DEF InStep, Replays
<1>3. Mining'
  BY <1>2, EndBlockMining DEF Replays
<1>4. /\ db.height < Len(blocks) /\ done \in Nat
      /\ work.height = db.height /\ work.rewards = db.rewards
  BY <1>1 DEF Replays, Progresses
<1>5. PICK r : Run(Bare(db), b, done, r) /\ Tracks(r[done], work, conn, v1.version)
  BY <1>1 DEF Replays, Progresses
<1>6. /\ Tracks(Closed(Bare(db), r[done]), work', conn', v1'.version)
      /\ work'.height = work.height /\ work'.rewards = work.rewards
  BY <1>2, <1>5, EndBlockTracks DEF Replays
<1>7. Progresses'
  BY <1>1, <1>4, <1>5, <1>6 DEF Progresses, Tracks, Settles
<1> QED BY <1>1, <1>3, <1>7, RecordedStays, VersionsStays DEF Replays

(* What the commit leaves is what the recorded block left the first time,  *)
(* or what it is recorded to leave.                                        *)
LEMMA CommitRecorded ==
  ASSUME InStep, Replays, Commit
  PROVE  Recorded' /\ Same(first', db'.height, db') /\ db'.height = db.height + 1
         /\ db'.height <= Len(first')
         /\ \A i \in 0 .. Len(first) : \A c : Same(first, i, c) => Same(first', i, c)
<1> DEFINE h == db.height + 1
           b == blocks[h]
<1>1. /\ phase = "ended" /\ db' = newWorld /\ blocks' = blocks
      /\ hashes' = IF Len(hashes) < h THEN Append(hashes, newWorld.hash) ELSE hashes
      /\ first' = IF Len(first) < h THEN Append(first, newWorld) ELSE first
  BY DEF Commit
<1>2. /\ Len(first) \in Nat /\ Len(blocks) \in Nat /\ db.height \in Nat
      /\ db.height <= Len(first) /\ db.height = Len(past)
      /\ IsContents(Contents(first, db.height)) /\ IsContents(db) /\ IsSequence(db.hash)
      /\ h - 1 = db.height
  BY Heights DEF InStep, Replays
<1>3. /\ db.height < Len(blocks) /\ done \in Nat
      /\ work.height = db.height /\ work.rewards = db.rewards
  BY <1>1 DEF Replays, Progresses
<1>4. PICK r : /\ done = Len(b) /\ Run(Bare(db), b, done, r)
               /\ Tracks(Closed(Bare(db), r[done]), work, conn, v1.version)
  BY <1>1 DEF Replays, Progresses
<1>5. PICK s : s = Closed(Bare(db), r[done])
  OBVIOUS
<1>6. PICK e : e = newWorld
  OBVIOUS
<1>7. /\ Leaves(db, s, e)
      /\ e.hash = IF s.list = << >> THEN db.hash ELSE Append(db.hash, s.list)
      /\ e.height = h
  BY <1>1, <1>3, <1>4, <1>5, <1>6, WorldLeaves
<1>8. Same(first, db.height, db)
  BY <1>2 DEF Replays, Versions
<1>9. ASSUME NEW f, Contents(f, db.height) = Contents(first, db.height),
             Same(f, db.height, db), f[h].hash = e.hash
      PROVE  /\ Bare(e) = Left(Bare(Contents(f, h - 1)), s)
             /\ ~CarriedOver(f, h) =>
                  e.rewards = IF s.list = << >> THEN Contents(f, h - 1).rewards ELSE s.rewards
  <2>1. h \in Nat /\ h >= 1
    BY <1>2
  <2>2. IsContents(Contents(f, h - 1)) /\ db.height = h - 1 /\ Same(f, h - 1, db)
    BY <1>2, <1>9
  <2> QED BY <1>2, <1>7, <1>9, <2>1, <2>2, LeavesKeep
<1>10. IsContents(e) /\ IsSequence(e.hash)
  BY <1>1, <1>6, NewWorldGood DEF Good
<1>11. IsSequence(first) /\ IsSequence(hashes) /\ Len(hashes) = Len(first)
  BY DEF Replays, Recorded
<1>12. CASE Len(first) < h
  <2>1. Len(first) = db.height /\ h = Len(first) + 1
    BY <1>2, <1>12
  <2>2. first' = Append(first, e) /\ hashes' = Append(hashes, e.hash)
    BY <1>1, <1>6, <1>11, <1>12
  <2>3. PICK f : f = first'
    OBVIOUS
  <2>4. PICK k : k = hashes'
    OBVIOUS
  <2>5. /\ IsSequence(f) /\ Len(f) = h /\ f[h] = e
        /\ \A i \in 1 .. Len(first) : f[i] = first[i]
    BY <1>11, <2>1, <2>2, <2>3, SequenceAppend
  <2>6. /\ IsSequence(k) /\ Len(k) = h /\ k[h] = e.hash
        /\ \A i \in 1 .. Len(first) : k[i] = hashes[i]
    BY <1>11, <2>1, <2>2, <2>4, SequenceAppend
  <2>7. \A i \in 0 .. Len(first) : Contents(f, i) = Contents(first, i)
                                   /\ \A c : Same(f, i, c) <=> Same(first, i, c)
    BY <1>11, <2>2, <2>3, FirstGrown
  <2>8. Contents(f, h) = e
    BY <1>2, <2>5 DEF Contents
  <2>9. ASSUME NEW i \in 1 .. h
        PROVE  k[i] = f[i].hash /\ Executed(f, i, blocks[i], f[i])
    <3>1. CASE i = h
      <4>1. /\ Contents(f, db.height) = Contents(first, db.height)
            /\ Same(f, db.height, db) /\ f[h].hash = e.hash
        BY <1>2, <1>8, <2>1, <2>5, <2>7
      <4>2. Ends(f, h, b, s)
        <5>1. Len(b) \in Nat /\ Run(Bare(db), b, Len(b), r) /\ s = Closed(Bare(db), r[Len(b)])
          BY <1>3, <1>4, <1>5
        <5>2. Bare(db) = Bare(Contents(f, h - 1))
          BY <1>2, <4>1 DEF Same
        <5> QED BY <5>1, <5>2 DEF Ends
      <4>3. Executed(f, h, b, e)
        BY <1>9, <4>1, <4>2 DEF Executed
      <4> QED BY <2>5, <2>6, <3>1, <4>3
    <3>2. CASE i # h
      <4>1. i \in 1 .. Len(first)
        BY <1>2, <2>1, <3>2
      <4>2. hashes[i] = first[i].hash /\ Executed(first, i, blocks[i], first[i])
        BY <4>1 DEF Replays, Recorded
      <4>3. Executed(f, i, blocks[i], first[i])
        BY <1>11, <2>2, <2>3, <4>1, <4>2, ExecutedGrown
      <4> QED BY <2>5, <2>6, <4>1, <4>2, <4>3
    <3> QED BY <3>1, <3>2
  <2>10. ASSUME NEW i \in 0 .. h
         PROVE  /\ IsContents(Contents(f, i)) /\ Contents(f, i).height = i
                /\ IsSequence(Contents(f, i).hash)
    <3>1. CASE i = h
      BY <1>7, <1>10, <2>8, <3>1
    <3>2. CASE i # h
      <4>1. i \in 0 .. Len(first)
        BY <1>2, <2>1, <3>2
      <4> QED BY <2>7, <4>1 DEF Replays, Recorded
    <3> QED BY <3>1, <3>2
  <2>11. IsSequence(blocks) /\ h <= Len(blocks)
    BY <1>2, <1>3 DEF Replays, Recorded
  <2>12. Recorded'
    BY <1>1, <2>3, <2>4, <2>5, <2>6, <2>9, <2>10, <2>11 DEF Recorded
  <2>13. Same(f, h, e)
    BY <2>8 DEF Same
  <2> QED BY <1>1, <1>2, <1>6, <1>7, <2>3, <2>5, <2>7, <2>12, <2>13
<1>13. CASE ~(Len(first) < h)
  <2>1. first' = first /\ hashes' = hashes
    BY <1>1, <1>11, <1>13
  <2>2. Recorded'
    BY <1>1, <2>1, RecordedStays DEF Replays
  <2>3. h \in 1 .. Len(first)
    BY <1>2, <1>13
  <2>4. PICK t : /\ Ends(first, h, b, t)
                 /\ Bare(first[h]) = Left(Bare(Contents(first, h - 1)), t)
                 /\ ~CarriedOver(first, h) =>
                      first[h].rewards = IF t.list = << >> THEN Contents(first, h - 1).rewards
                                         ELSE t.rewards
    BY <2>3 DEF Replays, Recorded, Executed
  <2>5. Bare(db) = Bare(Contents(first, h - 1))
    BY <1>2, <1>8 DEF Same
  <2>6. PICK q : Run(Bare(db), b, Len(b), q) /\ t = Closed(Bare(db), q[Len(b)])
    BY <2>4, <2>5 DEF Ends
  <2>7. t = s
    <3>1. Len(b) \in Nat
      BY <1>3, <1>4
    <3>2. q[Len(b)] = r[Len(b)]
      BY <1>4, <2>6, <3>1, RunIsUnique
    <3> QED BY <1>4, <1>5, <2>6, <3>2
  <2>8. Bare(first[h]) = Bare(e)
    BY <1>7, <2>4, <2>5, <2>7 DEF Leaves
  <2>9. Contents(first, h) = first[h] /\ IsContents(first[h])
    <3>1. h \in 0 .. Len(first) /\ h # 0
      BY <2>3
    <3> QED BY <3>1 DEF Contents, Replays, Recorded
  <2>10. first[h].hash = e.hash
    BY <1>10, <2>8, <2>9, BareSame
  <2>11. ~CarriedOver(first, h) => e.rewards = first[h].rewards
    BY <1>8, <1>9, <2>4, <2>7, <2>10
  <2>12. Same(first, h, e)
    BY <2>8, <2>9, <2>11 DEF Same
  <2> QED BY <1>1, <1>2, <1>6, <1>7, <1>13, <2>1, <2>2, <2>12
<1> QED BY <1>12, <1>13

(* The committed contents take the place of those of the height before.    *)
LEMMA CommitReplays == ASSUME InStep, Replays, Commit PROVE Replays'
<1>1. /\ phase = "ended" /\ phase' = "idle" /\ db' = newWorld
      /\ past' = Append(past, db) /\ UNCHANGED <<work, v1, conn, blocks>>
  BY DEF Commit
<1>2. /\ Len(past) \in Nat /\ db.height = Len(past) /\ db.height <= Len(first)
      /\ Len(first) \in Nat
  BY Heights DEF InStep, Replays
<1>3. /\ Recorded' /\ Same(first', db'.height, db') /\ db'.height = db.height + 1
      /\ db'.height <= Len(first')
      /\ \A i \in 0 .. Len(first) : \A c : Same(first, i, c) => Same(first', i, c)
  BY CommitRecorded
<1>4. /\ IsSequence(past) /\ Len(past') = Len(past) + 1
      /\ \A i \in 1 .. Len(past) : past'[i] = past[i]
      /\ past'[Len(past) + 1] = db
  BY <1>1, SequenceAppend DEF InStep, Stored
<1>5. \A i \in 1 .. Len(past') : i \in 1 .. Len(past) \/ i = Len(past) + 1
  BY <1>2, <1>4
<1>6. Versions'
  <2>1. ASSUME NEW i \in 1 .. Len(past') PROVE Same(first', i - 1, past'[i])
    <3>1. CASE i \in 1 .. Len(past)
      <4>1. i - 1 \in 0 .. Len(first)
        BY <1>2, <3>1
      <4> QED BY <1>3, <1>4, <3>1, <4>1 DEF Replays, Versions
    <3>2. CASE i = Len(past) + 1
      <4>1. i - 1 = Len(past) /\ Len(past) \in 0 .. Len(first)
        BY <1>2, <3>2
      <4> QED BY <1>3, <1>4, <3>2, <4>1 DEF Replays, Versions
    <3> QED BY <1>5, <3>1, <3>2
  <2> QED BY <1>2, <1>3, <1>4, <2>1 DEF Versions
<1>7. Progresses'
  BY <1>1, <1>2, <1>3 DEF Progresses
<1>8. Mining'
  <2>1. db'.version = next /\ db'.miners = work.miners
    <3>1. newWorld.miners = work.miners
      BY DEF InStep, Records, newWorld, IsContents
    <3> QED BY <1>1, <3>1, NewWorldGood
  <2>2. /\ Minable(db) /\ \A i \in 1 .. Len(past) : Minable(past[i])
        /\ IsMiners(work.miners) /\ v1.mineStub = (work.miners # << >>)
        /\ db.version = 0 /\ work.miners # << >> =>
             work.miners[1].lose \in IF v1.version = 0 THEN {0} ELSE {0, db.height + 2}
        /\ db.version = 0 /\ v1.mineContract # Nil =>
             /\ work.miners # << >>
             /\ v1.mineContract.effect = work.miners[1].effect
             /\ v1.mineContract.lose \in
                  IF v1.version # 0 THEN {0, db.height + 2} ELSE {0}
    BY <1>1 DEF Replays, Mining
  <2>3. db'.version = 0 => db.version = 0 /\ v1.version = 0
    BY <2>1 DEF next
  <2>4. Minable(db')
    BY <2>1, <2>2, <2>3 DEF Minable
  <2>5. \A i \in 1 .. Len(past') : Minable(past'[i])
    BY <1>4, <1>5, <2>2
  <2>6. /\ work' = work /\ v1' = v1 /\ phase' = "idle"
    BY <1>1
  <2>7. db'.version = 0 /\ v1.mineContract # Nil =>
          /\ work.miners # << >>
          /\ v1.mineContract.effect = work.miners[1].effect
          /\ v1.mineContract.lose \in {0}
    BY <2>2, <2>3
  <2> QED BY <2>1, <2>2, <2>4, <2>5, <2>6, <2>7 DEF Mining
<1> QED BY <1>3, <1>6, <1>7, <1>8 DEF Replays

(* The end of the process loses the block under way and with it the        *)
(* rewards that version 1 might carry over.                                *)
LEMMA EndReplays == ASSUME Chain, end PROVE Replays'
<1>1. /\ phase' = "down" /\ work' = db /\ conn' = NewConn
      /\ UNCHANGED <<db, past, blocks, hashes, first>>
  BY DEF end, store, consensus
<1>2. Progresses'
  BY <1>1 DEF Progresses, NewConn
<1>3. Mining'
  BY <1>1 DEF Chain, Mining, Minable
<1> QED BY <1>1, <1>2, <1>3, RecordedStays, VersionsStays DEF Chain, Replays

(* The start makes the mining contract's stub when the committed list has  *)
(* the contract, and forgets which one was looked up.                      *)
LEMMA RestartReplays == ASSUME Replays, Restart PROVE Replays'
<1>1. /\ phase = "down" /\ phase' = "idle" /\ v1' = InitContractDocker
      /\ UNCHANGED <<db, past, work, conn, blocks, hashes, first>>
  BY DEF Restart, store, consensus, lostCallback, itemsOfInit
<1>2. v1'.mineStub = (db.miners # << >>) /\ v1'.mineContract = Nil
  BY <1>1 DEF InitContractDocker, NewV1
<1>3. Progresses'
  BY <1>1 DEF Replays, Progresses
<1>4. Mining'
  BY <1>1, <1>2 DEF Replays, Mining
<1> QED BY <1>1, <1>3, <1>4, RecordedStays, VersionsStays DEF Replays

(* Both rollbacks go back to contents recorded as well.                    *)
LEMMA GoesBackChain ==
  ASSUME Stored, Chain, GoesBack, UNCHANGED <<phase, blocks, hashes, first>>
  PROVE  Chain'
<1>1. Len(past) \in Nat /\ Len(past) <= Len(first) /\ Len(first) \in Nat
  BY Heights DEF Chain, Versions
<1>2. /\ Len(past) >= 1 /\ db' = past[Len(past)] /\ Len(past') = Len(past) - 1
      /\ \A i \in 1 .. Len(past) - 1 : past'[i] = past[i]
  BY SequenceFront DEF GoesBack, Stored
<1>3. \A i \in 1 .. Len(past) - 1 : i \in 1 .. Len(past)
  BY <1>1
<1>4. Len(past) \in 1 .. Len(past)
  BY <1>1, <1>2
<1>5. Versions'
  <2>1. \A i \in 1 .. Len(past) : Same(first, i - 1, past[i])
    BY DEF Chain, Versions
  <2>2. first' = first
    OBVIOUS
  <2>3. Same(first', Len(past'), db')
    BY <1>2, <1>4, <2>1, <2>2
  <2>4. ASSUME NEW i \in 1 .. Len(past') PROVE Same(first', i - 1, past'[i])
    BY <1>2, <1>3, <2>1, <2>2
  <2>5. Len(past') <= Len(first')
    BY <1>1, <1>2
  <2> QED BY <2>3, <2>4, <2>5 DEF Versions
<1>6. Minable(db') /\ \A i \in 1 .. Len(past') : Minable(past'[i])
  BY <1>2, <1>3, <1>4 DEF Chain
<1>7. Minable(db)'
  BY <1>6 DEF Minable
<1>8. (\A i \in 1 .. Len(past) : Minable(past[i]))'
  BY <1>6 DEF Minable
<1> QED BY <1>5, <1>7, <1>8, RecordedStays DEF Chain

(* The rollback command.                                                   *)
LEMMA RollbackCmdReplays == ASSUME InStep, Replays, RollbackCmd PROVE Replays'
<1>1. /\ phase = "down" /\ GoesBack /\ db' = Last(past) /\ work' = Last(past)
      /\ UNCHANGED <<phase, conn, v1, blocks, hashes, first>>
  BY DEF RollbackCmd, GoesBack, consensus
<1>2. Chain
  BY <1>1 DEF Replays, Mining, Chain
<1>3. Chain'
  BY <1>1, <1>2, GoesBackChain DEF InStep
<1>4. Progresses'
  BY <1>1 DEF Replays, Progresses
<1>5. Mining'
  BY <1>1, <1>3 DEF Chain, Mining, Minable
<1> QED BY <1>3, <1>4, <1>5 DEF Chain, Replays

(* Nothing changes.                                                        *)
LEMMA StutterReplays == ASSUME Replays, UNCHANGED vars PROVE Replays'
<1>1. UNCHANGED <<db, past, work, v1, conn, phase, done, blocks, hashes, first>>
  BY DEF vars
<1> QED BY <1>1, RecordedStays, VersionsStays, ProgressesStays, MiningStays DEF Replays

(* The chain, as long as nothing is committed.                             *)
LEMMA ChainStays ==
  ASSUME Chain, UNCHANGED <<db, past, blocks, hashes, first>>,
         phase' # "failed to match app hash"
  PROVE  Chain'
BY RecordedStays, VersionsStays DEF Chain, Minable

(* A step of a process that is in step with the database.                  *)
LEMMA NextReplays ==
  ASSUME InStep, Chain, Replays, [Next]_vars, ~Rollback
  PROVE  Replays'
BY DecideReplays, CheckTxReplays, KillIdleReplays, BeginBlockReplays, DeliverTxReplays,
   EndBlockReplays, CommitReplays, EndReplays, RestartReplays, RollbackCmdReplays,
   StutterReplays DEF Next, Crash, CommitRefused, RollbackRefused

(* A step of one that has served a Rollback: what it has cached has no     *)
(* bearing on the chain, as it commits nothing.                            *)
LEMMA NextChain ==
  ASSUME IInv, ahead, Chain, [Next]_vars, ~Rollback
  PROVE  Chain' /\ (ahead' = FALSE => Replays')
<1>1. Stored /\ Records /\ Behind /\ ahead = TRUE
  BY DEF IInv
<1>2. ASSUME NEW b \in Blocks, Decide(b) PROVE Chain' /\ ahead' = TRUE
  <2>1. /\ blocks' = Append(blocks, b) /\ ahead' = TRUE
        /\ UNCHANGED <<db, past, phase, hashes, first>>
    BY <1>1, <1>2 DEF Decide, store
  <2>2. Recorded'
    BY <2>1, DecideRecorded DEF Chain
  <2> QED BY <2>1, <2>2, VersionsStays DEF Chain, Minable
<1>3. ASSUME NEW tx \in Checked, CheckTx(tx) PROVE Chain' /\ ahead' = TRUE
  BY <1>1, <1>3, ChainStays DEF CheckTx, store, consensus
<1>4. CASE KillIdle
  BY <1>1, <1>4, ChainStays DEF KillIdle, store, consensus
<1>5. CASE BeginBlock
  <2>1. phase' = "block"
    BY <1>1, <1>5, HashesAgree DEF BeginBlock, BCBeginBlock, Chain
  <2> QED BY <1>1, <1>5, <2>1, ChainStays DEF BeginBlock, store, consensus
<1>6. CASE DeliverTx
  <2>1. phase' \in {"block", "error transID"}
    BY <1>1, <1>6, Outcomes DEF Lost, Counted, Succeeds
  <2> QED BY <1>1, <1>6, <2>1, ChainStays DEF DeliverTx, store, consensus
<1>7. CASE EndBlock
  BY <1>1, <1>7, ChainStays DEF EndBlock, store, consensus
<1>8. CASE end
  <2>1. Replays'
    BY <1>8, EndReplays
  <2>2. Chain'
    BY <1>8, ChainStays DEF end, store, consensus
  <2> QED BY <2>1, <2>2
<1>9. CASE Commit \/ Restart \/ RollbackCmd
  BY <1>1, <1>9 DEF Commit, checkID, Restart, RollbackCmd, Behind
<1>10. CASE UNCHANGED vars
  BY <1>1, <1>10, ChainStays DEF vars, Chain
<1> QED BY <1>2, <1>3, <1>4, <1>5, <1>6, <1>7, <1>8, <1>9, <1>10
        DEF Next, Crash, CommitRefused, RollbackRefused

(* Every step keeps the second invariant.                                  *)
LEMMA NextRInv == ASSUME IInv, RInv, [Next]_vars PROVE RInv'
<1>1. CASE Rollback
  <2>1. GoesBack /\ ahead' = TRUE /\ UNCHANGED <<phase, blocks, hashes, first>>
    BY <1>1 DEF Rollback, GoesBack, consensus
  <2> QED BY <2>1, GoesBackChain DEF IInv, RInv
<1>2. CASE ~Rollback /\ ~ahead
  <2>1. Replays'
    BY <1>2, NextReplays DEF IInv, RInv
  <2>2. Chain'
    BY <2>1 DEF Replays, Progresses, Mining, Chain
  <2> QED BY <2>1, <2>2 DEF RInv
<1>3. CASE ~Rollback /\ ahead
  <2>1. Chain' /\ (ahead' = FALSE => Replays')
    BY <1>3, NextChain DEF RInv
  <2>2. ahead' \in BOOLEAN
    BY NextIInv DEF IInv
  <2> QED BY <2>1, <2>2 DEF RInv
<1> QED BY <1>1, <1>2, <1>3

(* The second inductive invariant holds of every reachable state: the      *)
(* block under way is an execution of the decided block, and the committed *)
(* contents and those to roll back to are the recorded ones.               *)
THEOREM ReplayInvariance == Spec => []RInv
<1>1. Init => RInv
  BY InitReplays DEF RInv, Replays, Chain, Progresses, Mining
<1> QED BY <1>1, NextRInv, Invariance, PTL DEF Spec

(* A block that is executed again gives the contents and the hashes of the *)
(* first execution, whatever crashes, rollbacks, checks and kills of the   *)
(* container fall between, and across the upgrade.                         *)
THEOREM ReplaysAgree == Spec => []ReplaySame
<1>1. ASSUME IInv, RInv PROVE ReplaySame
  <2>0. Stored /\ Recorded /\ Versions
    BY <1>1 DEF IInv, RInv, Chain
  <2>1. phase # "failed to match app hash"
    BY <1>1 DEF RInv, Chain
  <2>2. PICK h : h = db.height
    OBVIOUS
  <2>3. ASSUME h \in DOMAIN first
        PROVE  db = [first[h] EXCEPT !.rewards =
                       IF CarriedOver(first, h) THEN db.rewards ELSE @]
    <3>1. /\ Same(first, h, db) /\ IsContents(db) /\ IsContents(Contents(first, h))
      BY <2>0, <2>2, Heights DEF Versions
    <3>2. h \in 1 .. Len(first) /\ Len(first) \in Nat
      BY <2>0, <2>3, SequenceDomain DEF Recorded
    <3>3. PICK c : c = first[h]
      OBVIOUS
    <3>4. Contents(first, h) = c
      BY <3>2, <3>3 DEF Contents
    <3>5. IsContents(c) /\ db = [c EXCEPT !.rewards = db.rewards]
      BY <3>1, <3>4, BareSame DEF Same
    <3>6. ~CarriedOver(first, h) => db.rewards = c.rewards
      BY <3>1, <3>4 DEF Same
    <3> QED BY <3>3, <3>5, <3>6
  <2> QED BY <2>1, <2>2, <2>3 DEF ReplaySame
<1> QED BY <1>1, Invariance, ReplayInvariance, PTL
=============================================================================
