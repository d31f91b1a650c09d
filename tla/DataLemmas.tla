----------------------------- MODULE DataLemmas -----------------------------
(***************************************************************************)
(* Facts about numbers, sequences and finite sets on which the proofs of   *)
(* the components rest.  Induction is stated for a set in place of a       *)
(* predicate: the set of the numbers, or of the finite sets, for which     *)
(* something holds.  It is derived from the minimal elements of the        *)
(* well-founded orders of the library.                                     *)
(***************************************************************************)
EXTENDS Integers, SequencesExt, FiniteSetTheorems, SequenceTheorems,
        WellFoundedInduction, TLAPS

CONSTANT FoldStep(_, _, _)  \* one step of a fold over a sequence, see below

(* A sequence of anything.                                                 *)
IsSequence(s) == s \in Seq(Range(s))

-----------------------------------------------------------------------------
(* A set of natural numbers that has an element has a least one.           *)
LEMMA LeastNumber ==
  ASSUME NEW T \in SUBSET Nat, T # {}
  PROVE  \E x \in T : \A y \in T : x <= y
<1> DEFINE Below == {pair \in Nat \X Nat : pair[1] < pair[2]}
<1>1. IsWellFoundedOn(Below, Nat)
  BY NatLessThanWellFounded DEF OpToRel
<1> HIDE DEF Below
<1>2. PICK x \in T : \A y \in T : <<y, x>> \notin Below
  BY <1>1, WFMin
<1>3. ASSUME NEW y \in T PROVE x <= y
  <2>1. <<y, x>> \in Nat \X Nat
    OBVIOUS
  <2>2. ~ (<<y, x>>[1] < <<y, x>>[2])
    BY <1>2, <2>1 DEF Below
  <2> QED BY <2>2
<1> QED BY <1>3

(* A set that has 0 and, with every number, the next one has all numbers.  *)
LEMMA NumberInduction ==
  ASSUME NEW S, 0 \in S, \A n \in Nat : n \in S => n + 1 \in S
  PROVE  Nat \subseteq S
<1>1. SUFFICES ASSUME Nat \ S # {} PROVE FALSE
  OBVIOUS
<1>2. PICK x \in Nat \ S : \A y \in Nat \ S : x <= y
  BY <1>1, LeastNumber
<1>3. x # 0 /\ x - 1 \in Nat /\ x - 1 \in S
  BY <1>2
<1> QED BY <1>2, <1>3

-----------------------------------------------------------------------------
(* The empty sequence is one.                                              *)
LEMMA EmptySequence == IsSequence(<< >>) /\ Len(<< >>) = 0 /\ DOMAIN << >> = {}
BY EmptySeq DEF IsSequence

(* The length and the domain of a sequence of anything.                    *)
LEMMA SequenceDomain ==
  ASSUME NEW s, IsSequence(s)
  PROVE  Len(s) \in Nat /\ DOMAIN s = 1 .. Len(s)
BY LenProperties DEF IsSequence

(* Only the empty sequence has no elements.                                *)
LEMMA SequenceEmpty ==
  ASSUME NEW s, IsSequence(s)
  PROVE  s = << >> <=> Len(s) = 0
BY EmptySeq DEF IsSequence

(* What Append makes of a sequence of anything.                            *)
LEMMA SequenceAppend ==
  ASSUME NEW s, IsSequence(s), NEW e
  PROVE  /\ IsSequence(Append(s, e))
         /\ Append(s, e) # << >>
         /\ Len(Append(s, e)) = Len(s) + 1
         /\ \A i \in 1 .. Len(s) : Append(s, e)[i] = s[i]
         /\ Append(s, e)[Len(s) + 1] = e
<1> DEFINE S == Range(s) \cup {e}
           a == Append(s, e)
<1>1. s \in Seq(S)
  <2>1. Range(s) \subseteq S
    OBVIOUS
  <2> QED BY <2>1, SeqMonotonic DEF IsSequence
<1> HIDE DEF S
<1>2. /\ a \in Seq(S)
      /\ a # << >>
      /\ Len(a) = Len(s) + 1
      /\ \A i \in 1 .. Len(s) : a[i] = s[i]
      /\ a[Len(s) + 1] = e
  <2>1. e \in S
    BY DEF S
  <2> QED BY <1>1, <2>1, AppendProperties
<1> HIDE DEF a
<1>3. a \in Seq(Range(a))
  <2>1. Len(a) \in Nat /\ DOMAIN a = 1 .. Len(a) /\ a \in [1 .. Len(a) -> S]
    BY <1>2, LenProperties
  <2>2. a \in [1 .. Len(a) -> Range(a)]
    BY <2>1 DEF Range
  <2> QED BY <2>1, <2>2, SeqDef
<1>4. IsSequence(a)
  BY <1>3 DEF IsSequence
<1> QED BY <1>2, <1>4 DEF a

(* Concatenation with one element is Append.                               *)
LEMMA SequenceAppended ==
  ASSUME NEW s, IsSequence(s), NEW e
  PROVE  s \o <<e>> = Append(s, e)
<1> DEFINE S == Range(s) \cup {e}
<1>1. s \in Seq(S) /\ e \in S
  <2>1. s \in Seq(Range(s)) /\ Range(s) \subseteq S /\ e \in S
    BY DEF IsSequence
  <2> HIDE DEF S
  <2> QED BY <2>1, SeqMonotonic
<1> HIDE DEF S
<1> QED BY <1>1, AppendIsConcat

(* The elements of a sequence to which one is added.                       *)
LEMMA RangeAppend ==
  ASSUME NEW s, IsSequence(s), NEW e, NEW x \in Range(Append(s, e))
  PROVE  x \in Range(s) \/ x = e
<1>1. Len(s) \in Nat /\ DOMAIN s = 1 .. Len(s)
  BY SequenceDomain
<1>2. DOMAIN Append(s, e) = 1 .. Len(s) + 1
  BY <1>1, SequenceAppend, SequenceDomain
<1>3. PICK i \in 1 .. Len(s) + 1 : x = Append(s, e)[i]
  BY <1>2 DEF Range
<1>4. i = Len(s) + 1 \/ i \in 1 .. Len(s)
  BY <1>1
<1> QED BY <1>1, <1>3, <1>4, SequenceAppend DEF Range

(* The first of a sequence of anything.                                    *)
LEMMA SequenceHead ==
  ASSUME NEW s, IsSequence(s), s # << >>
  PROVE  Head(s) = s[1]
BY HeadTailProperties DEF IsSequence

(* The last of a sequence to which one is added.                           *)
LEMMA LastOfAppend ==
  ASSUME NEW s, IsSequence(s), NEW e
  PROVE  Last(Append(s, e)) = e
<1>1. PICK t : t = Append(s, e)
  OBVIOUS
<1>2. Len(t) = Len(s) + 1 /\ t[Len(s) + 1] = e
  BY <1>1, SequenceAppend
<1> QED BY <1>1, <1>2 DEF Last

(* What Front makes of a sequence of anything.                             *)
LEMMA SequenceFront ==
  ASSUME NEW s, IsSequence(s), s # << >>
  PROVE  /\ Len(s) >= 1
         /\ Last(s) = s[Len(s)]
         /\ IsSequence(Front(s))
         /\ Len(Front(s)) = Len(s) - 1
         /\ \A i \in 1 .. Len(s) - 1 : Front(s)[i] = s[i]
<1> DEFINE f == SubSeq(s, 1, Len(s) - 1)
<1>1. Len(s) \in Nat /\ Len(s) >= 1 /\ DOMAIN s = 1 .. Len(s)
  BY SequenceDomain, SequenceEmpty
<1>2. \A i \in 1 .. Len(s) - 1 : s[i] \in Range(s)
  BY <1>1 DEF Range
<1>3. /\ f \in Seq(Range(s))
      /\ Len(f) = Len(s) - 1
      /\ \A i \in 1 .. Len(s) - 1 : f[i] = s[i]
  <2>1. /\ f \in Seq(Range(s))
        /\ Len(f) = IF 1 <= Len(s) - 1 THEN Len(s) - 1 - 1 + 1 ELSE 0
        /\ \A i \in 1 .. Len(s) - 1 - 1 + 1 : f[i] = s[1 + i - 1]
    BY <1>1, <1>2, SubSeqProperties
  <2> QED BY <1>1, <2>1
<1> HIDE DEF f
<1>4. f \in Seq(Range(f))
  <2>1. Len(f) \in Nat /\ DOMAIN f = 1 .. Len(f) /\ f \in [1 .. Len(f) -> Range(s)]
    BY <1>3, LenProperties
  <2>2. f \in [1 .. Len(f) -> Range(f)]
    BY <2>1 DEF Range
  <2> QED BY <2>1, <2>2, SeqDef
<1>5. IsSequence(f) /\ Front(s) = f /\ Last(s) = s[Len(s)]
  BY <1>4 DEF IsSequence, f, Front, Last
<1> QED BY <1>1, <1>3, <1>5

(* A sequence over a set is a sequence of anything.                        *)
LEMMA SequenceOver ==
  ASSUME NEW S, NEW s \in Seq(S)
  PROVE  IsSequence(s) /\ \A i \in 1 .. Len(s) : s[i] \in S
<1>1. Len(s) \in Nat /\ DOMAIN s = 1 .. Len(s) /\ s \in [1 .. Len(s) -> S]
  BY LenProperties
<1>2. s \in [1 .. Len(s) -> Range(s)]
  BY <1>1 DEF Range
<1>3. s \in Seq(Range(s))
  BY <1>1, <1>2, SeqDef
<1> QED BY <1>1, <1>3 DEF IsSequence

(* Nothing is added by << >>.                                              *)
LEMMA SequenceConcatEmpty ==
  ASSUME NEW s, IsSequence(s)
  PROVE  s \o << >> = s
BY ConcatEmptySeq DEF IsSequence

(* The elements of a finite set in some order.                             *)
LEMMA SetToSeqIsSequence ==
  ASSUME NEW S, IsFiniteSet(S)
  PROVE  /\ SetToSeq(S) \in Seq(S)
         /\ IsSequence(SetToSeq(S))
         /\ \A i \in 1 .. Len(SetToSeq(S)) : SetToSeq(S)[i] \in S
         /\ Len(SetToSeq(S)) = Cardinality(S)
         /\ \A i, j \in 1 .. Cardinality(S) : SetToSeq(S)[i] = SetToSeq(S)[j] => i = j
         /\ \A x \in S : \E i \in 1 .. Cardinality(S) : SetToSeq(S)[i] = x
<1> DEFINE n == Cardinality(S)
           f == SetToSeq(S)
<1>1. n \in Nat /\ ExistsBijection(1 .. n, S)
  BY FS_CardinalityType
<1>2. \E g \in [1 .. n -> S] : IsInjective(g)
  BY <1>1 DEF ExistsBijection, Bijection, Injection
<1>3. f \in [1 .. n -> S] /\ IsInjective(f)
  BY <1>2 DEF SetToSeq
<1> HIDE DEF f
<1>4. f \in Seq(S) /\ Len(f) = n
  BY <1>1, <1>3, SeqDef, LenProperties
<1>5. IsSequence(f) /\ \A i \in 1 .. Len(f) : f[i] \in S
  BY <1>4, SequenceOver
<1>6. \A i, j \in 1 .. n : f[i] = f[j] => i = j
  BY <1>3 DEF IsInjective
<1>7. ASSUME NEW x \in S PROVE \E i \in 1 .. n : f[i] = x
  <2> DEFINE R == {f[i] : i \in 1 .. n}
  <2>1. R \subseteq S
    BY <1>3
  <2>2. f \in Bijection(1 .. n, R)
    BY <1>3, <1>6 DEF Bijection, Injection, Surjection, IsInjective
  <2>3. IsFiniteSet(1 .. n) /\ Cardinality(1 .. n) = n
    BY <1>1, FS_Interval
  <2>4. ExistsBijection(1 .. n, R)
    BY <2>2 DEF ExistsBijection
  <2> HIDE DEF R
  <2>5. Cardinality(R) = n
    BY <2>3, <2>4, FS_Bijection
  <2>6. R = S
    BY <2>1, <2>5, FS_Subset
  <2> QED BY <2>6 DEF R
<1> QED BY <1>4, <1>5, <1>6, <1>7 DEF f

(* A sequence without the first of the elements equal to e.                *)
LEMMA RemoveFirstOver ==
  ASSUME NEW S, NEW s \in Seq(S), NEW e
  PROVE  RemoveFirst(s, e) \in Seq(S)
<1>1. Len(s) \in Nat /\ \A i \in 1 .. Len(s) : s[i] \in S
  BY SequenceOver, SequenceDomain
<1>2. CASE ~ \E i \in 1 .. Len(s) : s[i] = e
  BY <1>2 DEF RemoveFirst
<1>3. CASE \E i \in 1 .. Len(s) : s[i] = e
  <2> DEFINE I == {i \in 1 .. Len(s) : s[i] = e}
  <2>1. I \in SUBSET Nat /\ I # {}
    BY <1>3
  <2>2. PICK k : k = SelectInSeq(s, LAMBDA v : v = e)
    OBVIOUS
  <2>3. k \in 1 .. Len(s)
    <3>1. \E x \in I : \A y \in I : x <= y
      BY <2>1, LeastNumber
    <3>2. k = Min(I)
      BY <2>1, <2>2 DEF SelectInSeq
    <3> HIDE DEF I
    <3>3. k \in I
      BY <3>1, <3>2 DEF Min
    <3> QED BY <3>3 DEF I
  <2>4. RemoveFirst(s, e) = SubSeq(s, 1, k - 1) \o SubSeq(s, k + 1, Len(s))
    BY <1>3, <2>2 DEF RemoveFirst, RemoveAt
  <2>5. SubSeq(s, 1, k - 1) \in Seq(S)
    <3>1. \A i \in 1 .. k - 1 : s[i] \in S
      BY <1>1, <2>3
    <3> QED BY <1>1, <2>3, <3>1, SubSeqProperties
  <2>6. SubSeq(s, k + 1, Len(s)) \in Seq(S)
    <3>1. \A i \in k + 1 .. Len(s) : s[i] \in S
      BY <1>1, <2>3
    <3> QED BY <1>1, <2>3, <3>1, SubSeqProperties
  <2> QED BY <2>4, <2>5, <2>6, ConcatProperties
<1> QED BY <1>2, <1>3

-----------------------------------------------------------------------------
(* Sums over a finite set, which Functions defines by a recursion over its *)
(* subsets: g is that recursion on the family F of sets.                   *)
any(s) == CHOOSE x \in s : TRUE

IsSumOn(f, F, g) ==
  g = [s \in F |-> IF s = {} THEN 0 ELSE f[any(s)] + g[s \ {any(s)}]]

(* What SumFunctionOnSet stands for.                                       *)
LEMMA SumUnfolded ==
  ASSUME NEW f, NEW S
  PROVE  SumFunctionOnSet(f, S) = (CHOOSE g : IsSumOn(f, SUBSET S, g))[S]
BY DEF SumFunctionOnSet, FoldFunctionOnSet, MapThenFoldSet, IsSumOn, any

(* An element that is chosen, and the set without it.                      *)
LEMMA AnyOf ==
  ASSUME NEW S, IsFiniteSet(S), NEW s \in SUBSET S, s # {}
  PROVE  /\ any(s) \in s /\ any(s) \in S /\ s \ {any(s)} \in SUBSET S
         /\ Cardinality(s \ {any(s)}) = Cardinality(s) - 1
         /\ Cardinality(s) \in Nat /\ Cardinality(s \ {any(s)}) \in Nat
<1>1. any(s) \in s
  BY DEF any
<1>2. IsFiniteSet(s)
  BY FS_Subset
<1>3. IsFiniteSet(s \ {any(s)})
  BY <1>2, FS_Subset
<1> QED BY <1>1, <1>2, <1>3, FS_RemoveElement, FS_CardinalityType

(* Something that holds of the empty set, and of a set when it does of it  *)
(* without the chosen element, holds of every finite set.                  *)
LEMMA SetInduction ==
  ASSUME NEW S, IsFiniteSet(S), NEW T, {} \in T,
         \A s \in SUBSET S : s # {} /\ s \ {any(s)} \in T => s \in T
  PROVE  SUBSET S \subseteq T
<1> DEFINE N == {n \in Nat : \A s \in SUBSET S : Cardinality(s) = n => s \in T}
<1>1. \A s \in SUBSET S : IsFiniteSet(s) /\ Cardinality(s) \in Nat
  BY FS_Subset, FS_CardinalityType
<1>2. 0 \in N
  BY <1>1, FS_EmptySet
<1>3. ASSUME NEW n \in Nat, n \in N PROVE n + 1 \in N
  <2>1. ASSUME NEW s \in SUBSET S, Cardinality(s) = n + 1 PROVE s \in T
    <3>1. s # {}
      BY <1>3, <2>1, FS_EmptySet
    <3>2. s \ {any(s)} \in SUBSET S /\ Cardinality(s \ {any(s)}) = n
      BY <1>3, <2>1, <3>1, AnyOf
    <3>3. s \ {any(s)} \in T
      BY <1>3, <3>2
    <3> QED BY <3>1, <3>3
  <2> QED BY <1>3, <2>1
<1> HIDE DEF N
<1>4. Nat \subseteq N
  BY <1>2, <1>3, NumberInduction
<1> QED BY <1>1, <1>4 DEF N

(* The recursion is defined: size by size.                                 *)
LEMMA SumExists ==
  ASSUME NEW f, NEW S, IsFiniteSet(S)
  PROVE  \E g : IsSumOn(f, SUBSET S, g)
<1> DEFINE F(n) == {s \in SUBSET S : Cardinality(s) <= n}
           N == {n \in Nat : \E g : IsSumOn(f, F(n), g)}
<1>1. \A s \in SUBSET S : IsFiniteSet(s) /\ Cardinality(s) \in Nat
  BY FS_Subset, FS_CardinalityType
<1>2. 0 \in N
  <2>1. \A s \in F(0) : s = {}
    BY <1>1, FS_EmptySet
  <2>2. IsSumOn(f, F(0), [s \in F(0) |-> 0])
    BY <2>1 DEF IsSumOn
  <2> QED BY <2>2
<1>3. ASSUME NEW n \in Nat, n \in N PROVE n + 1 \in N
  <2>1. PICK g : IsSumOn(f, F(n), g)
    BY <1>3
  <2> DEFINE h == [s \in F(n + 1) |-> IF s = {} THEN 0 ELSE f[any(s)] + g[s \ {any(s)}]]
  <2>2. ASSUME NEW s \in F(n + 1), s # {}
        PROVE  s \ {any(s)} \in F(n)
    <3>1. /\ s \ {any(s)} \in SUBSET S
          /\ Cardinality(s \ {any(s)}) = Cardinality(s) - 1
          /\ Cardinality(s) \in Nat
      BY <2>2, AnyOf
    <3>2. Cardinality(s) <= n + 1
      BY <2>2
    <3> QED BY <1>3, <3>1, <3>2
  <2>3. ASSUME NEW t \in F(n) PROVE t \in F(n + 1) /\ h[t] = g[t]
    <3>1. t \in F(n + 1)
      BY <1>1, <1>3, <2>3
    <3>2. g[t] = IF t = {} THEN 0 ELSE f[any(t)] + g[t \ {any(t)}]
      BY <2>1, <2>3 DEF IsSumOn
    <3> QED BY <3>1, <3>2
  <2> HIDE DEF F
  <2>4. IsSumOn(f, F(n + 1), h)
    BY <2>2, <2>3 DEF IsSumOn
  <2> QED BY <1>3, <2>4
<1> HIDE DEF N
<1>4. Nat \subseteq N
  BY <1>2, <1>3, NumberInduction
<1>5. F(Cardinality(S)) = SUBSET S
  <2>1. \A s \in SUBSET S : Cardinality(s) <= Cardinality(S)
    BY FS_Subset
  <2> QED BY <2>1
<1>6. Cardinality(S) \in N
  BY <1>1, <1>4
<1> QED BY <1>5, <1>6 DEF N

(* A sum and its parts.                                                    *)
Sums(g, f, S) ==
  /\ g[{}] = 0
  /\ \A s \in SUBSET S : s # {} => g[s] = f[any(s)] + g[s \ {any(s)}]

(* The sum on a set is what such a function gives it.                      *)
LEMMA SumRecursion ==
  ASSUME NEW f, NEW S, IsFiniteSet(S)
  PROVE  \E g : SumFunctionOnSet(f, S) = g[S] /\ Sums(g, f, S)
<1> DEFINE g == CHOOSE g : IsSumOn(f, SUBSET S, g)
<1>1. IsSumOn(f, SUBSET S, g)
  BY SumExists
<1>2. SumFunctionOnSet(f, S) = g[S]
  BY SumUnfolded
<1> HIDE DEF g
<1>3. Sums(g, f, S)
  BY <1>1 DEF IsSumOn, Sums
<1> QED BY <1>2, <1>3

(* The sum of whole numbers is one.                                        *)
LEMMA SumType ==
  ASSUME NEW S, IsFiniteSet(S), NEW f, \A x \in S : f[x] \in Int
  PROVE  SumFunctionOnSet(f, S) \in Int
<1>1. PICK g : SumFunctionOnSet(f, S) = g[S] /\ Sums(g, f, S)
  BY SumRecursion
<1> DEFINE T == {s \in SUBSET S : g[s] \in Int}
<1>2. {} \in T
  BY <1>1 DEF Sums
<1>3. ASSUME NEW s \in SUBSET S, s # {}, s \ {any(s)} \in T PROVE s \in T
  <2>1. any(s) \in S /\ g[s] = f[any(s)] + g[s \ {any(s)}]
    BY <1>1, <1>3, AnyOf DEF Sums
  <2>2. g[s \ {any(s)}] \in Int /\ f[any(s)] \in Int
    BY <1>3, <2>1
  <2> QED BY <2>1, <2>2
<1> HIDE DEF T
<1>4. S \in T
  BY <1>2, <1>3, SetInduction
<1> QED BY <1>1, <1>4 DEF T

(* A change at one element a changes the sum by as much; a change outside  *)
(* of the set does not.                                                    *)
LEMMA SumChange ==
  ASSUME NEW S, IsFiniteSet(S), NEW f, NEW h, NEW a,
         \A x \in S : f[x] \in Int /\ h[x] \in Int /\ (x # a => h[x] = f[x])
  PROVE  SumFunctionOnSet(h, S)
           = SumFunctionOnSet(f, S) + (IF a \in S THEN h[a] - f[a] ELSE 0)
<1>1. PICK g : SumFunctionOnSet(f, S) = g[S] /\ Sums(g, f, S)
  BY SumRecursion
<1>2. PICK k : SumFunctionOnSet(h, S) = k[S] /\ Sums(k, h, S)
  BY SumRecursion
<1> DEFINE change(s) == IF a \in s THEN h[a] - f[a] ELSE 0
           T == {s \in SUBSET S : g[s] \in Int /\ k[s] = g[s] + change(s)}
<1>3. {} \in T
  BY <1>1, <1>2 DEF Sums
<1>4. ASSUME NEW s \in SUBSET S, s # {}, s \ {any(s)} \in T PROVE s \in T
  <2> DEFINE x == any(s)
             r == s \ {x}
  <2>1. x \in s /\ x \in S
    BY <1>4, AnyOf
  <2>2. /\ g[s] = f[x] + g[r] /\ k[s] = h[x] + k[r] /\ g[r] \in Int
        /\ k[r] = g[r] + change(r)
    BY <1>1, <1>2, <1>4 DEF Sums
  <2>3. f[x] \in Int /\ h[x] \in Int
    BY <2>1
  <2> HIDE DEF x
  <2>4. CASE x = a
    <3>1. change(r) = 0 /\ change(s) = h[a] - f[a]
      BY <2>1, <2>4
    <3>2. k[s] = g[s] + (h[a] - f[a])
      BY <2>2, <2>3, <2>4, <3>1
    <3> QED BY <2>2, <2>3, <3>1, <3>2
  <2>5. CASE x # a
    <3>1. change(r) = change(s) /\ h[x] = f[x]
      BY <2>1, <2>5
    <3>2. change(s) \in Int
      BY <1>4
    <3> HIDE DEF change
    <3>3. k[s] = g[s] + change(s)
      BY <2>2, <2>3, <3>1, <3>2
    <3> QED BY <2>2, <2>3, <3>3
  <2> QED BY <2>4, <2>5
<1> HIDE DEF T
<1>5. S \in T
  BY <1>3, <1>4, SetInduction
<1> QED BY <1>1, <1>2, <1>5 DEF T

(* Two functions that agree on the set have the same sum.                  *)
LEMMA SumSame ==
  ASSUME NEW S, IsFiniteSet(S), NEW f, NEW h, \A x \in S : f[x] \in Int /\ h[x] = f[x]
  PROVE  SumFunctionOnSet(h, S) = SumFunctionOnSet(f, S)
<1>1. SumFunctionOnSet(h, S)
        = SumFunctionOnSet(f, S) + (IF 0 \in S THEN h[0] - f[0] ELSE 0)
  BY SumChange
<1>2. SumFunctionOnSet(f, S) \in Int
  BY SumType
<1> QED BY <1>1, <1>2

(* The sum of a constant.                                                  *)
LEMMA SumConstant ==
  ASSUME NEW S, IsFiniteSet(S), NEW v \in Int, NEW f, \A x \in S : f[x] = v
  PROVE  SumFunctionOnSet(f, S) = v * Cardinality(S)
<1>1. PICK g : SumFunctionOnSet(f, S) = g[S] /\ Sums(g, f, S)
  BY SumRecursion
<1> DEFINE T == {s \in SUBSET S : g[s] = v * Cardinality(s)}
<1>2. {} \in T
  <2>1. g[{}] = 0 /\ Cardinality({}) = 0 /\ v * 0 = 0
    BY <1>1, FS_EmptySet DEF Sums
  <2> QED BY <2>1
<1>3. ASSUME NEW s \in SUBSET S, s # {}, s \ {any(s)} \in T PROVE s \in T
  <2>1. /\ any(s) \in S /\ g[s] = f[any(s)] + g[s \ {any(s)}]
        /\ Cardinality(s) \in Nat
        /\ Cardinality(s \ {any(s)}) = Cardinality(s) - 1
    BY <1>1, <1>3, AnyOf DEF Sums
  <2>2. g[s] = v + v * (Cardinality(s) - 1)
    BY <1>3, <2>1
  <2>3. ASSUME NEW n \in Nat PROVE v + v * (n - 1) = v * n
    OBVIOUS
  <2> QED BY <2>1, <2>2, <2>3
<1> HIDE DEF T
<1>4. S \in T
  BY <1>2, <1>3, SetInduction
<1> QED BY <1>1, <1>4 DEF T

(* The sum of a sum.                                                       *)
LEMMA SumAdd ==
  ASSUME NEW S, IsFiniteSet(S), NEW f, NEW h, NEW k,
         \A x \in S : f[x] \in Int /\ h[x] \in Int /\ k[x] = f[x] + h[x]
  PROVE  SumFunctionOnSet(k, S) = SumFunctionOnSet(f, S) + SumFunctionOnSet(h, S)
<1>1. PICK ff : SumFunctionOnSet(f, S) = ff[S] /\ Sums(ff, f, S)
  BY SumRecursion
<1>2. PICK hh : SumFunctionOnSet(h, S) = hh[S] /\ Sums(hh, h, S)
  BY SumRecursion
<1>3. PICK kk : SumFunctionOnSet(k, S) = kk[S] /\ Sums(kk, k, S)
  BY SumRecursion
<1> DEFINE T == {s \in SUBSET S : /\ ff[s] \in Int /\ hh[s] \in Int
                                  /\ kk[s] = ff[s] + hh[s]}
<1>4. {} \in T
  BY <1>1, <1>2, <1>3 DEF Sums
<1>5. ASSUME NEW s \in SUBSET S, s # {}, s \ {any(s)} \in T PROVE s \in T
  <2>1. any(s) \in S /\ s \ {any(s)} \in SUBSET S
    BY <1>5, AnyOf
  <2>2. /\ ff[s] = f[any(s)] + ff[s \ {any(s)}]
        /\ hh[s] = h[any(s)] + hh[s \ {any(s)}]
        /\ kk[s] = k[any(s)] + kk[s \ {any(s)}]
    BY <1>1, <1>2, <1>3, <1>5 DEF Sums
  <2>3. /\ f[any(s)] \in Int /\ h[any(s)] \in Int
        /\ k[any(s)] = f[any(s)] + h[any(s)]
    BY <2>1
  <2>4. /\ ff[s \ {any(s)}] \in Int /\ hh[s \ {any(s)}] \in Int
        /\ kk[s \ {any(s)}] = ff[s \ {any(s)}] + hh[s \ {any(s)}]
    BY <1>5
  <2> QED BY <2>2, <2>3, <2>4
<1> HIDE DEF T
<1>6. S \in T
  BY <1>4, <1>5, SetInduction
<1> QED BY <1>1, <1>2, <1>3, <1>6 DEF T

(* The sum of natural numbers is one, and no less than any of them.        *)
LEMMA SumBound ==
  ASSUME NEW S, IsFiniteSet(S), NEW f, \A x \in S : f[x] \in Nat
  PROVE  /\ SumFunctionOnSet(f, S) \in Nat
         /\ \A x \in S : f[x] <= SumFunctionOnSet(f, S)
<1>1. PICK g : SumFunctionOnSet(f, S) = g[S] /\ Sums(g, f, S)
  BY SumRecursion
<1> DEFINE T == {s \in SUBSET S : g[s] \in Nat /\ \A x \in s : f[x] <= g[s]}
<1>2. {} \in T
  BY <1>1 DEF Sums
<1>3. ASSUME NEW s \in SUBSET S, s # {}, s \ {any(s)} \in T PROVE s \in T
  <2>1. any(s) \in S /\ g[s] = f[any(s)] + g[s \ {any(s)}]
    BY <1>1, <1>3, AnyOf DEF Sums
  <2>2. g[s \ {any(s)}] \in Nat /\ f[any(s)] \in Nat
    BY <1>3, <2>1
  <2>3. ASSUME NEW x \in s PROVE f[x] <= g[s]
    <3>1. CASE x = any(s)
      BY <2>1, <2>2, <3>1
    <3>2. CASE x # any(s)
      <4>1. f[x] <= g[s \ {any(s)}] /\ f[x] \in Nat
        BY <1>3, <2>3, <3>2
      <4> QED BY <2>1, <2>2, <4>1
    <3> QED BY <3>1, <3>2
  <2> QED BY <2>1, <2>2, <2>3
<1> HIDE DEF T
<1>4. S \in T
  BY <1>2, <1>3, SetInduction
<1> QED BY <1>1, <1>4 DEF T

(* Elements at which a function is zero do not count.                      *)
LEMMA SumExtend ==
  ASSUME NEW S, IsFiniteSet(S), NEW U \in SUBSET S, NEW f, NEW h,
         \A x \in U : f[x] \in Int /\ h[x] = f[x], \A x \in S \ U : h[x] = 0
  PROVE  SumFunctionOnSet(h, S) = SumFunctionOnSet(f, U)
<1>1. IsFiniteSet(U)
  BY FS_Subset
<1> DEFINE only(C) == [x \in S |-> IF x \in C THEN h[x] ELSE 0]
           T == {C \in SUBSET U : SumFunctionOnSet(only(C), S) = SumFunctionOnSet(only(C), U)}
<1>2. ASSUME NEW C \in SUBSET U
      PROVE  /\ \A x \in S : only(C)[x] \in Int
             /\ SumFunctionOnSet(only(C), U) \in Int
             /\ SumFunctionOnSet(only(C), S) \in Int
  <2>1. \A x \in S : only(C)[x] \in Int
    OBVIOUS
  <2> HIDE DEF only
  <2> QED BY <1>1, <2>1, SumType
<1>3. {} \in T
  <2>1. \A x \in S : only({})[x] = 0
    OBVIOUS
  <2> HIDE DEF only
  <2>2. /\ SumFunctionOnSet(only({}), S) = 0 * Cardinality(S)
        /\ SumFunctionOnSet(only({}), U) = 0 * Cardinality(U)
    BY <1>1, <2>1, SumConstant
  <2>3. Cardinality(S) \in Nat /\ Cardinality(U) \in Nat
    BY <1>1, FS_CardinalityType
  <2> QED BY <2>2, <2>3
<1>4. ASSUME NEW C \in SUBSET U, C # {}, C \ {any(C)} \in T PROVE C \in T
  <2> DEFINE a == any(C)
             D == C \ {a}
  <2>1. a \in U /\ D \in SUBSET U
    BY <1>1, <1>4, AnyOf
  <2> HIDE DEF a
  <2>2. \A x \in S : x # a => only(C)[x] = only(D)[x]
    OBVIOUS
  <2>3. /\ \A x \in S : only(C)[x] \in Int /\ only(D)[x] \in Int
        /\ SumFunctionOnSet(only(D), U) \in Int
    BY <1>2, <2>1
  <2>4. SumFunctionOnSet(only(D), S) = SumFunctionOnSet(only(D), U)
    BY <1>4 DEF a
  <2> HIDE DEF only, D
  <2>5. SumFunctionOnSet(only(C), S)
          = SumFunctionOnSet(only(D), S) + (only(C)[a] - only(D)[a])
    BY <2>1, <2>2, <2>3, SumChange
  <2>6. SumFunctionOnSet(only(C), U)
          = SumFunctionOnSet(only(D), U) + (only(C)[a] - only(D)[a])
    BY <1>1, <2>1, <2>2, <2>3, SumChange
  <2> QED BY <2>4, <2>5, <2>6
<1>5. U \in T
  <2> HIDE DEF T
  <2> QED BY <1>1, <1>3, <1>4, SetInduction
<1>6. SumFunctionOnSet(only(U), S) = SumFunctionOnSet(only(U), U)
  BY <1>5
<1>7. SumFunctionOnSet(h, S) = SumFunctionOnSet(only(U), S)
  <2>1. \A x \in S : only(U)[x] \in Int /\ h[x] = only(U)[x]
    OBVIOUS
  <2> HIDE DEF only
  <2> QED BY <2>1, SumSame
<1>8. SumFunctionOnSet(only(U), U) = SumFunctionOnSet(f, U)
  <2>1. \A x \in U : f[x] \in Int /\ only(U)[x] = f[x]
    OBVIOUS
  <2> HIDE DEF only
  <2> QED BY <1>1, <2>1, SumSame
<1> QED BY <1>6, <1>7, <1>8

(* One element more to sum over.                                           *)
LEMMA SumAdjoin ==
  ASSUME NEW U, IsFiniteSet(U), NEW a, a \notin U, NEW f, NEW h,
         \A x \in U : f[x] \in Int /\ h[x] = f[x], h[a] \in Int
  PROVE  SumFunctionOnSet(h, U \cup {a}) = SumFunctionOnSet(f, U) + h[a]
<1>1. PICK S : S = U \cup {a}
  OBVIOUS
<1>2. IsFiniteSet(S) /\ U \in SUBSET S /\ S \ U = {a} /\ a \in S
  BY <1>1, FS_AddElement
<1>3. PICK g : g = [x \in S |-> IF x = a THEN 0 ELSE h[x]]
  OBVIOUS
<1>4. /\ \A x \in U : f[x] \in Int /\ g[x] = f[x]
      /\ \A x \in S \ U : g[x] = 0
      /\ \A x \in S : g[x] \in Int /\ h[x] \in Int /\ (x # a => h[x] = g[x])
      /\ g[a] = 0
  BY <1>1, <1>2, <1>3
<1>5. SumFunctionOnSet(g, S) = SumFunctionOnSet(f, U)
  BY <1>2, <1>4, SumExtend
<1>6. SumFunctionOnSet(h, S) = SumFunctionOnSet(g, S) + (IF a \in S THEN h[a] - g[a] ELSE 0)
  BY <1>2, <1>4, SumChange
<1> QED BY <1>1, <1>2, <1>4, <1>5, <1>6

(* The sum of a sequence of numbers to which one is added.                 *)
LEMMA SumAppended ==
  ASSUME NEW n \in Nat, NEW f, DOMAIN f = 1 .. n, NEW h, DOMAIN h = 1 .. n + 1,
         \A i \in 1 .. n : f[i] \in Int /\ h[i] = f[i], h[n + 1] \in Int
  PROVE  SumFunction(h) = SumFunction(f) + h[n + 1]
<1>1. PICK U : U = 1 .. n
  OBVIOUS
<1>2. PICK a : a = n + 1
  OBVIOUS
<1>3. IsFiniteSet(U) /\ a \notin U /\ DOMAIN h = U \cup {a} /\ DOMAIN f = U
  <2>1. IsFiniteSet(1 .. n)
    BY FS_Interval
  <2>2. 1 .. n + 1 = (1 .. n) \cup {n + 1} /\ n + 1 \notin 1 .. n
    OBVIOUS
  <2> QED BY <1>1, <1>2, <2>1, <2>2
<1>4. SumFunctionOnSet(h, U \cup {a}) = SumFunctionOnSet(f, U) + h[a]
  BY <1>1, <1>2, <1>3, SumAdjoin
<1> QED BY <1>2, <1>3, <1>4 DEF SumFunction

(* There is nothing to add up.                                             *)
LEMMA SumOfNothing ==
  ASSUME NEW f, DOMAIN f = {}
  PROVE  SumFunction(f) = 0
<1>1. IsFiniteSet({}) /\ Cardinality({}) = 0
  BY FS_EmptySet
<1>2. SumFunctionOnSet(f, {}) = 0 * Cardinality({})
  BY <1>1, SumConstant
<1> QED BY <1>1, <1>2 DEF SumFunction

-----------------------------------------------------------------------------
(* Folds over a sequence, which Folds defines by a recursion over the sets *)
(* of its indexes, the greatest index last.  FoldStep(c, r, e) is what the *)
(* fold makes of the result r so far and the element e; c is what else it  *)
(* depends on.  A module that proves something of a fold has an instance   *)
(* of this one with the fold's own step.                                   *)
greatest(t) == CHOOSE x \in t : \A y \in t : x >= y

IsFold(c, b, s, F, g) ==
  g = [t \in F |-> IF t = {} THEN b ELSE FoldStep(c, g[t \ {greatest(t)}], s[greatest(t)])]

(* The greatest element of a set of the first n + 1 numbers.              *)
LEMMA Greatest ==
  ASSUME NEW n \in Nat, NEW t \in SUBSET (1 .. n + 1), t # {}
  PROVE  /\ n + 1 \in t => greatest(t) = n + 1
         /\ t \in SUBSET (1 .. n) \/ n + 1 \in t
<1>1. n + 1 \in t => \A y \in t : n + 1 >= y
  OBVIOUS
<1>2. ASSUME NEW x \in t, \A y \in t : x >= y, n + 1 \in t PROVE x = n + 1
  <2>1. x >= n + 1 /\ x \in 1 .. n + 1
    BY <1>2
  <2> QED BY <2>1
<1>3. n + 1 \in t => greatest(t) = n + 1
  BY <1>1, <1>2 DEF greatest
<1> QED BY <1>3

(* The recursion is defined: length by length.                             *)
LEMMA FoldExists ==
  ASSUME NEW c, NEW b, NEW s, NEW n \in Nat
  PROVE  \E g : IsFold(c, b, s, SUBSET (1 .. n), g)
<1> DEFINE N == {m \in Nat : \E g : IsFold(c, b, s, SUBSET (1 .. m), g)}
<1>1. 0 \in N
  <2>1. \A t \in SUBSET (1 .. 0) : t = {}
    OBVIOUS
  <2>2. IsFold(c, b, s, SUBSET (1 .. 0), [t \in SUBSET (1 .. 0) |-> b])
    BY <2>1 DEF IsFold
  <2> QED BY <2>2
<1>2. ASSUME NEW m \in Nat, m \in N PROVE m + 1 \in N
  <2>1. PICK g : IsFold(c, b, s, SUBSET (1 .. m), g)
    BY <1>2
  <2> DEFINE F == SUBSET (1 .. m + 1)
             h == [t \in F |-> IF m + 1 \in t THEN FoldStep(c, g[t \ {m + 1}], s[m + 1]) ELSE g[t]]
  <2>2. ASSUME NEW t \in F
        PROVE  h[t] = IF t = {} THEN b
                      ELSE FoldStep(c, h[t \ {greatest(t)}], s[greatest(t)])
    <3>1. CASE m + 1 \in t
      <4>1. greatest(t) = m + 1 /\ t # {}
        BY <3>1, <2>2, <1>2, Greatest
      <4>2. t \ {m + 1} \in F /\ m + 1 \notin t \ {m + 1}
        BY <2>2
      <4>3. h[t \ {m + 1}] = g[t \ {m + 1}]
        BY <4>2
      <4>4. h[t] = FoldStep(c, g[t \ {m + 1}], s[m + 1])
        BY <3>1
      <4> QED BY <4>1, <4>3, <4>4
    <3>2. CASE m + 1 \notin t
      <4>1. t \in SUBSET (1 .. m)
        BY <1>2, <2>2, <3>2
      <4>2. h[t] = g[t]
        BY <3>2
      <4>3. g[t] = IF t = {} THEN b ELSE FoldStep(c, g[t \ {greatest(t)}], s[greatest(t)])
        BY <2>1, <4>1 DEF IsFold
      <4>4. t \ {greatest(t)} \in F /\ m + 1 \notin t \ {greatest(t)}
        BY <2>2, <3>2
      <4>5. h[t \ {greatest(t)}] = g[t \ {greatest(t)}]
        BY <4>4
      <4> QED BY <4>2, <4>3, <4>5
    <3> QED BY <3>1, <3>2
  <2> HIDE DEF F
  <2>3. h = [t \in F |-> h[t]]
    OBVIOUS
  <2> HIDE DEF h
  <2>4. IsFold(c, b, s, F, h)
    BY <2>2, <2>3 DEF IsFold
  <2> QED BY <1>2, <2>4 DEF F
<1> HIDE DEF N
<1>3. n \in N
  BY <1>1, <1>2, NumberInduction
<1> QED BY <1>3 DEF N

(* What a FoldLeft from b over s, whose indexes are D, stands for.         *)
Folded(c, b, s, D) == (CHOOSE g : IsFold(c, b, s, SUBSET D, g))[D]

(* What a fold computes: from the base, one step per element in order.     *)
LEMMA FoldSteps ==
  ASSUME NEW c, NEW b, NEW s, NEW n \in Nat
  PROVE  \E r : /\ Folded(c, b, s, 1 .. n) = r[n]
                /\ r[0] = b
                /\ \A i \in 1 .. n : r[i] = FoldStep(c, r[i - 1], s[i])
<1> DEFINE g == CHOOSE g : IsFold(c, b, s, SUBSET (1 .. n), g)
           r == [i \in 0 .. n |-> g[1 .. i]]
<1>1. IsFold(c, b, s, SUBSET (1 .. n), g)
  BY FoldExists
<1> HIDE DEF g
<1>2. r[n] = g[1 .. n]
  OBVIOUS
<1>3. r[0] = b
  BY <1>1 DEF IsFold
<1>4. ASSUME NEW i \in 1 .. n PROVE r[i] = FoldStep(c, r[i - 1], s[i])
  <2>1. i - 1 \in Nat /\ (i - 1) + 1 = i /\ i - 1 \in 0 .. n
    OBVIOUS
  <2>2. greatest(1 .. i) = i /\ 1 .. i # {}
    <3>1. i \in 1 .. i /\ \A x \in 1 .. i : x >= i => x = i
      OBVIOUS
    <3>2. \A y \in 1 .. i : i >= y
      OBVIOUS
    <3> QED BY <3>1, <3>2 DEF greatest
  <2>3. (1 .. i) \ {i} = 1 .. (i - 1)
    OBVIOUS
  <2>4. g[1 .. i] = FoldStep(c, g[(1 .. i) \ {greatest(1 .. i)}], s[greatest(1 .. i)])
    <3>1. 1 .. i \in SUBSET (1 .. n)
      BY <2>1
    <3> QED BY <1>1, <2>2, <3>1 DEF IsFold
  <2>5. g[1 .. i] = FoldStep(c, g[1 .. (i - 1)], s[i])
    BY <2>2, <2>3, <2>4
  <2> QED BY <2>1, <2>5
<1> HIDE DEF r
<1>5. g[1 .. n] = r[n] /\ r[0] = b /\ \A i \in 1 .. n : r[i] = FoldStep(c, r[i - 1], s[i])
  BY <1>2, <1>3, <1>4
<1> QED BY <1>5 DEF g, Folded

(* r holds what a fold has made of the elements before each place.         *)
Stepwise(c, b, s, n, r) ==
  /\ r[0] = b
  /\ \A i \in 1 .. n : r[i] = FoldStep(c, r[i - 1], s[i])

(* The same, with the steps under one name.                                *)
LEMMA FoldStepwise ==
  ASSUME NEW c, NEW b, NEW s, NEW n \in Nat
  PROVE  \E r : Folded(c, b, s, 1 .. n) = r[n] /\ Stepwise(c, b, s, n, r)
<1>1. PICK r : /\ Folded(c, b, s, 1 .. n) = r[n]
               /\ r[0] = b
               /\ \A i \in 1 .. n : r[i] = FoldStep(c, r[i - 1], s[i])
  BY FoldSteps
<1>2. Stepwise(c, b, s, n, r)
  BY <1>1 DEF Stepwise
<1> QED BY <1>1, <1>2
=============================================================================
