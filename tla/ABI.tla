-------------------------------- MODULE ABI --------------------------------
(* The encoding of a contract's arguments and results                      *)
(* (hyperledger/burrow/abi).  The node unpacks what every BVM call of a    *)
(* transaction returned, with the types the contract's ABI gives, and      *)
(* packs the parameters of queries.                                        *)
(*                                                                         *)
(* A word has WordBytes bytes of ByteBits bits, a machine integer IntBytes *)
(* of them: 32, 8 and 8 in the code.  Unpacking ends in [s, v]: the        *)
(* outcome s is "ok", "error", or "panic" where the code slices beyond the *)
(* end of the output; v is the value.                                      *)
EXTENDS Integers, Sequences, FiniteSets, SequencesExt, FiniteSetsExt

CONSTANTS ByteBits, WordBytes, IntBytes,
          DataWords, MaxData \* bound: the words and the length of outputs

Modulus == 2^(ByteBits * WordBytes)
IntRange == 2^(ByteBits * IntBytes)

-----------------------------------------------------------------------------
(* Types, records with the kind T.  "int", "uint" and "fixed" have a size  *)
(* in bytes, "array" a size and, like "slice", an elem, "tuple" its elems, *)
(* a "function" the bytes of an address and a selector; string is as       *)
(* "bytes", an address as a machine "uint".                                *)

requiresLengthPrefix(t) == t.T \in {"bytes", "slice"}

RECURSIVE isDynamicType(_)
isDynamicType(t) ==
  \/ requiresLengthPrefix(t)
  \/ t.T = "array" /\ isDynamicType(t.elem)
  \/ t.T = "tuple" /\ \E i \in DOMAIN t.elems : isDynamicType(t.elems[i])

sum(s) == FoldLeft(LAMBDA n, x : n + x, 0, s)

\* What t occupies where it stands: a dynamic type leaves an offset there.
\* Of the elements of a static array only arrays are measured.
RECURSIVE getTypeSize(_)
getTypeSizeFlatMut(t) ==
  CASE t.T = "array" /\ ~isDynamicType(t.elem) -> t.size * WordBytes
    [] t.T = "tuple" /\ ~isDynamicType(t) -> Len(t.elems) * WordBytes
    [] OTHER -> WordBytes
getTypeSize(t) ==
  CASE t.T = "array" /\ ~isDynamicType(t.elem) ->
         t.size * (IF t.elem.T = "array" THEN getTypeSize(t.elem) ELSE WordBytes)
    [] t.T = "tuple" /\ ~isDynamicType(t) ->
         sum([i \in DOMAIN t.elems |-> getTypeSize(t.elems[i])])
    [] OTHER -> WordBytes

-----------------------------------------------------------------------------
(* Packing.                                                                *)

LeftPadBytes(x) ==
  [i \in 1..WordBytes |-> (x \div 2^(ByteBits * (WordBytes - i))) % 2^ByteBits]
RightPadBytes(b, n) == b \o [i \in 1..(n - Len(b)) |-> 0]

packNum(n) == LeftPadBytes(n % Modulus)

packBytesSlice(b) ==
  packNum(Len(b)) \o RightPadBytes(b, ((Len(b) + WordBytes - 1) \div WordBytes) * WordBytes)

packElement(t, v) ==
  CASE t.T \in {"int", "uint"}       -> packNum(v)
    [] t.T = "bool"                  -> packNum(IF v THEN 1 ELSE 0)
    [] t.T = "bytes"                 -> packBytesSlice(v)
    [] t.T \in {"fixed", "function"} -> RightPadBytes(v, WordBytes)

\* Arguments, the fields of a tuple and the elements of an array are packed
\* alike: a dynamic one at the end, with its offset in its place.
RECURSIVE pack(_, _), Pack(_, _)
Pack(ts, vs) ==
  LET val(i)    == pack(ts[i], vs[i])
      tail(i)   == IF isDynamicType(ts[i]) THEN val(i) ELSE << >>
      before(i) == sum([j \in 1..(i - 1) |-> Len(tail(j))])
      offset(i) == sum([j \in DOMAIN ts |-> getTypeSize(ts[j])]) + before(i)
      head(i)   == IF isDynamicType(ts[i]) THEN packNum(offset(i)) ELSE val(i)
  IN FlattenSeq([i \in DOMAIN ts |-> head(i)]) \o FlattenSeq([i \in DOMAIN ts |-> tail(i)])

pack(t, v) ==
  CASE t.T \in {"slice", "array"} ->
         (IF requiresLengthPrefix(t) THEN packNum(Len(v)) ELSE << >>)
           \o Pack([i \in DOMAIN v |-> t.elem], v)
    [] t.T = "tuple" -> Pack(t.elems, v)
    [] OTHER         -> packElement(t, v)

-----------------------------------------------------------------------------
(* Unpacking.                                                              *)

Ok(v) == [s |-> "ok", v |-> v]
Error == [s |-> "error", v |-> << >>]
Panic == [s |-> "panic", v |-> << >>]

number(b) == FoldLeft(LAMBDA n, x : n * 2^ByteBits + x, 0, b)

\* output[from:] and output[from:from+n].
from(output, begin) == SubSeq(output, begin + 1, Len(output))
sliceOf(output, begin, n) ==
  IF begin + n > Len(output) THEN Panic ELSE Ok(SubSeq(output, begin + 1, begin + n))
wordAt(output, i) == number(SubSeq(output, i + 1, i + WordBytes))

signed(x, range) == IF x < range \div 2 THEN x ELSE x - range

\* Go has integers of a few sizes; any other is a big one, and the whole word
\* is its value.
machine(n) == n <= IntBytes /\ \E k \in 0..n : n = 2^k

readInteger(t, w) ==
  LET range == 2^(ByteBits * (IF machine(t.size) THEN t.size ELSE WordBytes))
  IN IF t.T = "uint" THEN w % range ELSE signed(w % range, range)

readBool(w) == IF w \in {0, 1} THEN Ok(w = 1) ELSE Error

readFixedBytes(t, b) == SubSeq(b, 1, t.size)

readFunctionType(t, b) ==
  IF number(from(b, t.size)) # 0 THEN Error ELSE Ok(readFixedBytes(t, b))

\* The values of the results rs, or the first of them that is not ok.
gathered(rs) ==
  IF \A i \in DOMAIN rs : rs[i].s = "ok" THEN Ok([i \in DOMAIN rs |-> rs[i].v])
  ELSE rs[Min({i \in DOMAIN rs : rs[i].s # "ok"})]

\* The offset at index leads to a length, and this to the contents; both
\* are within the output, so that they fit machine integers.
lengthPrefixPointsTo(index, output) ==
  LET offsetEnd == wordAt(output, index) + WordBytes
  IN IF offsetEnd > Len(output) THEN Error
     ELSE LET length == wordAt(output, offsetEnd - WordBytes)
          IN IF offsetEnd + length > Len(output) THEN Error
             ELSE Ok([start |-> offsetEnd, length |-> length])

tuplePointsTo(index, output) ==
  IF wordAt(output, index) > Len(output) THEN Error ELSE Ok(wordAt(output, index))

\* Where the arguments of UnpackValues and the fields of forTupleUnpack
\* stand: one after another, static arrays and tuples inline.
virtualArgs(ts, i) ==
  sum([j \in 1..(i - 1) |->
         IF ts[j].T \in {"array", "tuple"} /\ ~isDynamicType(ts[j])
         THEN getTypeSize(ts[j]) \div WordBytes - 1 ELSE 0])

RECURSIVE toGoType(_, _, _), forEachUnpack(_, _, _), UnpackValues(_, _)

UnpackValues(ts, output) ==
  gathered([i \in DOMAIN ts |->
              toGoType((i - 1 + virtualArgs(ts, i)) * WordBytes, ts[i], output)])

forEachUnpack(t, size, output) ==
  IF WordBytes * size > Len(output) THEN Error
  ELSE gathered([j \in 1..size |-> toGoType((j - 1) * getTypeSize(t.elem), t.elem, output)])

\* Only the low bytes of the offset of an array of a dynamic type are read,
\* and not compared with the output's length.
unpackArray(t, index, output) ==
  LET offset == signed(wordAt(output, index) % IntRange, IntRange)
  IN CASE ~isDynamicType(t.elem) -> forEachUnpack(t, t.size, from(output, index))
       [] offset \notin 0..Len(output) /\ isDynamicType(t.elem) -> Panic
       [] OTHER -> forEachUnpack(t, t.size, from(output, offset))

forTupleUnpack(t, index, output) ==
  IF ~isDynamicType(t) THEN UnpackValues(t.elems, from(output, index))
  ELSE LET begin == tuplePointsTo(index, output)
       IN IF begin.s = "ok" THEN UnpackValues(t.elems, from(output, begin.v)) ELSE begin

unpackPrefixed(t, index, output) ==
  LET p == lengthPrefixPointsTo(index, output)
  IN CASE p.s # "ok"    -> p
       [] t.T = "slice" /\ p.s = "ok" -> forEachUnpack(t, p.v.length, from(output, p.v.start))
       [] OTHER -> sliceOf(output, p.v.start, p.v.length)

toGoType(index, t, output) ==
  LET w == wordAt(output, index)
      b == SubSeq(output, index + 1, index + WordBytes)
  IN IF index + WordBytes > Len(output) THEN Error
     ELSE CASE requiresLengthPrefix(t)  -> unpackPrefixed(t, index, output)
            [] t.T = "array"            -> unpackArray(t, index, output)
            [] t.T = "tuple"            -> forTupleUnpack(t, index, output)
            [] t.T \in {"int", "uint"}  -> Ok(readInteger(t, w))
            [] t.T = "bool"             -> readBool(w)
            [] t.T = "fixed"            -> Ok(readFixedBytes(t, b))
            [] t.T = "function"         -> readFunctionType(t, b)

\* The results of a method.  An empty output is refused by the caller when
\* results are expected.
UnpackIntoMap(ts, data) ==
  CASE Len(data) % WordBytes # 0 -> Error
    [] data = << >>              -> IF ts = << >> THEN Ok(<< >>) ELSE Error
    [] OTHER                     -> UnpackValues(ts, data)

-----------------------------------------------------------------------------
(* Properties.                                                             *)

\* A type and the types it is made of.
RECURSIVE parts(_)
parts(t) ==
  {t} \cup (IF t.T \in {"slice", "array"} THEN parts(t.elem) ELSE {})
      \cup (IF t.T = "tuple" THEN UNION {parts(t.elems[i]) : i \in DOMAIN t.elems} ELSE {})

\* A static array of tuples of several words is taken to be smaller than it
\* is (getTypeSize), and the offset of an array of a dynamic type may lead
\* out of the output (unpackArray).
mismeasured(t) == t.T = "array" /\ t.elem.T = "tuple" /\ getTypeSize(t.elem) # WordBytes
unguarded(t)   == t.T = "array" /\ isDynamicType(t.elem)
none(P(_), ts) == \A i \in DOMAIN ts : \A t \in parts(ts[i]) : ~P(t)

\* A few values of each type; those of a list differ.
RECURSIVE samples(_), lists(_)
lists(ts) ==
  LET ss == [i \in DOMAIN ts |-> samples(ts[i])]
  IN [k \in 1..Max({Len(ss[i]) : i \in DOMAIN ts} \cup {1}) |->
        [i \in DOMAIN ts |-> ss[i][1 + ((k + i) % Len(ss[i]))]]]
samples(t) ==
  CASE t.T = "uint"  -> <<1, 2^(ByteBits * t.size) - 1>>
    [] t.T = "int"   -> <<1, -1, -(2^(ByteBits * t.size) \div 2)>>
    [] t.T = "bool"  -> <<TRUE, FALSE>>
    [] t.T = "bytes" -> << << >>, <<1>>, [i \in 1..(WordBytes + 1) |-> i % 2]>>
    [] t.T \in {"fixed", "function"} -> <<[i \in 1..t.size |-> 1]>>
    [] t.T = "slice" -> lists(<< >>) \o lists(<<t.elem>>) \o lists(<<t.elem, t.elem>>)
    [] t.T = "array" -> lists([i \in 1..t.size |-> t.elem])
    [] t.T = "tuple" -> lists(t.elems)

(* What is packed is unpacked as it was: offsets, lengths and paddings of  *)
(* nested dynamic and static types are written and read by different code  *)
(* and have to agree on where every part stands.                           *)
UnpacksWhatIsPacked(ts) ==
  none(mismeasured, ts) =>
    \A k \in DOMAIN lists(ts) :
      LET vs == lists(ts)[k] IN UnpackIntoMap(ts, Pack(ts, vs)) = IF ts = << >> THEN Ok(<< >>) ELSE Ok(vs)

(* Whatever words a contract returned, unpacking ends with a value or an   *)
(* error, never beyond the output; and the value is one of its types:      *)
(* packed and unpacked it is the same.                                     *)
UnpacksOrRefuses(ts) ==
  none(mismeasured, ts) /\ none(unguarded, ts) =>
    \A ws \in BoundedSeq(DataWords, MaxData) :
      LET r == UnpackIntoMap(ts, FlattenSeq([i \in DOMAIN ws |-> packNum(ws[i])]))
      IN /\ r.s # "panic"
         /\ r.s = "ok" /\ ts # << >> => UnpackIntoMap(ts, Pack(ts, r.v)) = r
=============================================================================
