------------------------------ MODULE BVMStack ------------------------------
(* The words, the data stack and the memory of one BVM frame               *)
(* (hyperledger/burrow/execution/bvm: execute, stack.go, memory.go, and    *)
(* binary/integer.go).  A word has WordBytes bytes of ByteBits bits, a     *)
(* machine integer IntBytes of them: 32, 8 and 8 in the code.              *)
(*                                                                         *)
(* An opcode pops its operands, computes and pushes, whatever errors arose *)
(* on the way: an empty stack reads as zero, and the frame stops before    *)
(* its next opcode.  Where the code indexes a slice with an integer that   *)
(* is out of range the process panics.                                     *)
EXTENDS Integers, Sequences, SequencesExt

CONSTANTS ByteBits, WordBytes, IntBytes,
          MaxMemory,          \* maximumCapacity of the memory, in bytes
          Literals,           \* words the code pushes
          Input,              \* the bytes of the call data, and of the code
          Returned,           \* the bytes the last call returned
          JumpDests,          \* positions of JUMPDEST in the code
          BlockHeight, MaximumAllowedBlockLookBack,
          GasLimit,
          DataStackMaxDepth

Byte     == 0..(2^ByteBits - 1)
WordBits == ByteBits * WordBytes
Modulus  == 2^WordBits
Word     == 0..(Modulus - 1)
IntRange == 2^(ByteBits * IntBytes)

ASSUME BVMStackAssumption ==
  /\ ByteBits \in Nat \ {0} /\ WordBytes \in Nat \ {0, 1} /\ IntBytes \in 1..WordBytes
  /\ Input \in Seq(Byte) /\ Returned \in Seq(Byte) /\ JumpDests \subseteq Nat
  /\ BlockHeight \in Nat /\ MaximumAllowedBlockLookBack \in Nat
  /\ Literals \subseteq Word /\ GasLimit \in Nat /\ MaxMemory \in Nat

VARIABLES stack,    \* the words, the top last
          memory,   \* the bytes
          gas, err, panicked

vars == <<stack, memory, gas, err, panicked>>

-----------------------------------------------------------------------------
(* Words and integers.                                                     *)

U256(x) == x % Modulus
S256(x) == IF x < Modulus \div 2 THEN x ELSE x - Modulus

abs(x) == IF x < 0 THEN -x ELSE x

\* Div and Mod of big.Int are Euclidean: the remainder is never negative.
bigMod(x, y) == x % abs(y)
bigDivMut(x, y) == IF (x < 0) = (y < 0) THEN abs(x) \div abs(y) ELSE -(abs(x) \div abs(y))
bigDiv(x, y) ==
  LET q == (x - bigMod(x, y)) \div abs(y) IN IF y < 0 THEN -q ELSE q

bool(b) == IF b THEN 1 ELSE 0

ADD(x, y) == U256(x + y)
MUL(x, y) == U256(x * y)
SUB(x, y) == U256(x - y)
DIV(x, y) == IF y = 0 THEN 0 ELSE bigDiv(x, y)
MOD(x, y) == IF y = 0 THEN 0 ELSE bigMod(x, y)
SDIV(x, y) == IF S256(y) = 0 THEN 0 ELSE U256(bigDiv(S256(x), S256(y)))
SMOD(x, y) == IF S256(y) = 0 THEN 0 ELSE U256(bigMod(S256(x), S256(y)))
ADDMOD(x, y, z) == IF z = 0 THEN 0 ELSE (x + y) % z
MULMOD(x, y, z) == IF z = 0 THEN 0 ELSE (x * y) % z

EXP(x, y) ==
  LET pow[n \in 0..y] == IF n = 0 THEN U256(1) ELSE U256(x * pow[n - 1]) IN pow[y]

LT(x, y)  == bool(x < y)
GT(x, y)  == bool(x > y)
SLT(x, y) == bool(S256(x) < S256(y))
SGT(x, y) == bool(S256(x) > S256(y))
EQ(x, y)  == bool(x = y)
ISZERO(x) == bool(x = 0)

bit(x, i) == (x \div 2^i) % 2

fromBits(b) ==
  LET sum[i \in 0..WordBits] == IF i = 0 THEN 0 ELSE sum[i - 1] + b[i - 1] * 2^(i - 1)
  IN sum[WordBits]

AND(x, y) == fromBits([i \in 0..(WordBits - 1) |-> bit(x, i) * bit(y, i)])
OR(x, y)  == fromBits([i \in 0..(WordBits - 1) |-> bool(bit(x, i) + bit(y, i) > 0)])
XOR(x, y) == fromBits([i \in 0..(WordBits - 1) |-> (bit(x, i) + bit(y, i)) % 2])
NOT(x)    == fromBits([i \in 0..(WordBits - 1) |-> 1 - bit(x, i)])

\* The bytes of a word, the most significant first.
bytes(x) == [i \in 1..WordBytes |-> (x \div 2^(ByteBits * (WordBytes - i))) % 2^ByteBits]

leftPad(b) ==
  LET val[i \in 0..Len(b)] == IF i = 0 THEN 0 ELSE val[i - 1] * 2^ByteBits + b[i]
  IN val[Len(b)]

SignExtend(back, x) ==
  LET signBit == back * ByteBits + ByteBits - 1 IN
  IF bit(x, signBit) = 1 THEN OR(x, U256(-(2^signBit))) ELSE AND(x, 2^signBit - 1)

SHL(s, x) == IF s >= WordBits THEN 0 ELSE U256(x * 2^s)
SHR(s, x) == IF s >= WordBits THEN 0 ELSE x \div 2^s
SAR(s, x) == IF s >= WordBits THEN (IF S256(x) < 0 THEN U256(-1) ELSE 0)
             ELSE U256(S256(x) \div 2^s)

Is64BitOverflow(x) == x >= IntRange
Int64(x)  == IF x < IntRange \div 2 THEN x ELSE x - IntRange

-----------------------------------------------------------------------------
(* The stack, with the gas and the error of the frame.  A frame state is   *)
(* [st, gas, err]; pop returns the rest in st and the word in top.         *)

useGas(s, c) ==
  IF s.gas > c THEN [s EXCEPT !.gas = @ - c] ELSE [s EXCEPT !.err = TRUE]

useGasNegative(s, c) ==
  IF s.gas >= c THEN [s EXCEPT !.gas = @ - c] ELSE [s EXCEPT !.err = TRUE]

ensureCapacity(n) == n <= DataStackMaxDepth

Push(s, w) ==
  LET t == useGas(s, 1)
  IN IF ensureCapacity(Len(s.st) + 1) THEN [t EXCEPT !.st = Append(@, w)]
     ELSE [t EXCEPT !.err = TRUE]

popped(s) == IF s.st = <<>> THEN 0 ELSE Last(s.st)
Pop(s) ==
  LET t == useGas(s, 1)
  IN IF s.st = <<>> THEN [t EXCEPT !.err = TRUE] ELSE [t EXCEPT !.st = Front(@)]

\* Pop64 and PopU64: too wide a word is an error and reads as zero.
popped64(s) == IF Is64BitOverflow(popped(s)) THEN 0 ELSE popped(s)
Pop64(s) == LET t == Pop(s) IN [t EXCEPT !.err = @ \/ Is64BitOverflow(popped(s))]

Dup(s, n) ==
  LET t == useGas(s, 1)
  IN IF Len(s.st) < n THEN [t EXCEPT !.err = TRUE] ELSE Push(t, s.st[Len(s.st) - n + 1])

Swap(s, n) ==
  LET t == useGas(s, 1)
  IN IF Len(s.st) < n THEN [t EXCEPT !.err = TRUE]
     ELSE LET h == Len(s.st)
          IN [t EXCEPT !.st = [s.st EXCEPT ![h - n + 1] = s.st[h], ![h] = s.st[h - n + 1]]]

-----------------------------------------------------------------------------
(* The memory: [bytes, err, panic] of an access.                           *)

\* The end of the access is added up in a machine integer; a slice whose
\* end lies before its start panics.
access(mem, offset, n) ==
  LET end  == (offset + n) % IntRange
      bad  == offset >= IntRange \/ (end > Len(mem) /\ end > MaxMemory)
      need == IF end > Len(mem) THEN end ELSE Len(mem)
  IN [bytes |-> IF bad THEN mem ELSE mem \o [i \in 1..(need - Len(mem)) |-> 0],
      err   |-> bad,
      panic |-> ~bad /\ end < offset]

okAccess(a) == ~a.err /\ ~a.panic

Read(mem, offset, n) ==
  LET a == access(mem, offset, n)
  IN IF okAccess(a) THEN SubSeq(a.bytes, offset + 1, offset + n) ELSE <<>>

Write(mem, offset, b) ==
  LET a == access(mem, offset, Len(b))
  IN IF okAccess(a)
     THEN [i \in 1..Len(a.bytes) |->
             IF i \in (offset + 1)..(offset + Len(b)) THEN b[i - offset] ELSE a.bytes[i]]
     ELSE a.bytes

-----------------------------------------------------------------------------
(* Opcodes.                                                                *)

Frame == [st |-> stack, gas |-> gas, err |-> FALSE]

Loop == ~err /\ ~panicked

\* Every opcode costs the base gas before it does anything.
Fetched == useGasNegative(Frame, 1)

Becomes(s) == stack' = s.st /\ gas' = s.gas /\ err' = s.err
StackOnly  == UNCHANGED <<memory, panicked>>

Binary(x, y) ==
  {ADD(x, y), MUL(x, y), SUB(x, y), DIV(x, y), MOD(x, y), SDIV(x, y), SMOD(x, y), EXP(x, y),
   LT(x, y), GT(x, y), SLT(x, y), SGT(x, y), EQ(x, y), AND(x, y), OR(x, y), XOR(x, y),
   SHL(x, y), SHR(x, y), SAR(x, y)}

OpUnary ==
  /\ Loop /\ \E r \in {ISZERO(popped(Fetched)), NOT(popped(Fetched))} :
               Becomes(Push(Pop(Fetched), r))
  /\ StackOnly

OpBinary ==
  LET s1 == Pop(Fetched)
  IN /\ Loop /\ \E r \in Binary(popped(Fetched), popped(s1)) : Becomes(Push(Pop(s1), r))
     /\ StackOnly

OpTernary ==
  LET s1 == Pop(Fetched)  s2 == Pop(s1)
  IN /\ Loop /\ \E r \in {ADDMOD(popped(Fetched), popped(s1), popped(s2)),
                          MULMOD(popped(Fetched), popped(s1), popped(s2))} :
                  Becomes(Push(Pop(s2), r))
     /\ StackOnly

\* The sign of the whole word needs no extension: its word is left where
\* it is.
SIGNEXTEND ==
  LET s1   == Pop64(Fetched)
      back == popped64(Fetched)
  IN /\ Loop
     /\ Becomes(IF back < WordBytes - 1
                THEN Push(Pop(s1), SignExtend(back, popped(s1))) ELSE s1)
     /\ StackOnly

\* idx is signed: an index whose sign bit is set is below 32 and no byte.
BYTE ==
  LET s1  == Pop64(Fetched)
      idx == Int64(popped64(Fetched))
  IN /\ Loop
     /\ Becomes(IF idx \in 0..(WordBytes - 1) THEN Push(Pop(s1), bytes(popped(s1))[idx + 1])
                                              ELSE Push(Pop(s1), 0))
     /\ panicked' = (idx < 0) /\ UNCHANGED memory

OpStack ==
  /\ Loop
  /\ \/ \E w \in Literals : Becomes(Push(Fetched, w))
     \/ Becomes(Pop(Fetched))
     \/ \E n \in 1..2 : Becomes(Dup(Fetched, n)) \/ Becomes(Swap(Fetched, n + 1))
  /\ StackOnly

MLOAD ==
  LET s1     == Pop(Fetched)
      a      == access(memory, popped(Fetched), WordBytes)
      data   == Read(memory, popped(Fetched), WordBytes)
  IN /\ Loop
     /\ Becomes([Push(s1, leftPad(data)) EXCEPT !.err = @ \/ a.err])
     /\ memory' = a.bytes /\ panicked' = a.panic

\* MSTORE and MSTORE8 write b at the offset, after s has been popped.
store(b, s) ==
  LET a == access(memory, popped(Fetched), Len(b))
  IN /\ Loop
     /\ Becomes([s EXCEPT !.err = @ \/ a.err])
     /\ memory' = Write(memory, popped(Fetched), b) /\ panicked' = a.panic

MSTORE ==
  LET s1 == Pop(Fetched) IN store(bytes(popped(s1)), Pop(s1))

\* The word of MSTORE8 is popped as a machine integer: a wider one is an
\* error, and zero is written.
MSTORE8 ==
  LET s1 == Pop(Fetched) IN store(<<popped64(s1) % 2^ByteBits>>, Pop64(s1))

\* A slice of the call data or of the code, padded with zeros: [bytes, err,
\* panic].  The end is a signed machine integer.
subSlice(data, offset, n) ==
  LET bad == offset \notin 0..Len(data) \/ n < 0
  IN [bytes |-> IF bad THEN <<>>
                ELSE [i \in 1..n |-> IF offset + i <= Len(data) THEN data[offset + i] ELSE 0],
      err   |-> bad,
      panic |-> ~bad /\ offset + n >= IntRange \div 2]

CALLDATALOAD ==
  LET d == subSlice(Input, Int64(popped64(Fetched)), WordBytes)
  IN /\ Loop
     /\ Becomes([Push(Pop64(Fetched), leftPad(d.bytes)) EXCEPT !.err = @ \/ d.err])
     /\ panicked' = d.panic /\ UNCHANGED memory

\* CALLDATACOPY and CODECOPY.
OpCopy ==
  LET s1 == Pop(Fetched)  s2 == Pop64(s1)
      d  == subSlice(Input, Int64(popped64(s1)), Int64(popped64(s2)))
      a  == access(memory, popped(Fetched), Len(d.bytes))
  IN /\ Loop
     /\ Becomes([Pop64(s2) EXCEPT !.err = @ \/ d.err \/ a.err])
     /\ memory' = Write(memory, popped(Fetched), d.bytes)
     /\ panicked' = (d.panic \/ a.panic)

\* The bounds are checked, but all the returned bytes are copied.
RETURNDATACOPY ==
  LET s1  == Pop(Fetched)  s2 == Pop(s1)
      bad == popped(s1) + popped(s2) >= IntRange \/ Len(Returned) < popped(s1) + popped(s2)
      a   == access(memory, popped(Fetched), Len(Returned))
  IN /\ Loop
     /\ Becomes([Pop(s2) EXCEPT !.err = @ \/ bad \/ a.err])
     /\ memory' = IF bad THEN memory ELSE Write(memory, popped(Fetched), Returned)
     /\ panicked' = (~bad /\ a.panic)

\* JUMP: beyond the code codeGetOp reads STOP, before it the read panics.
JUMP ==
  LET to == Int64(popped64(Fetched))
  IN /\ Loop
     /\ Becomes([Pop64(Fetched) EXCEPT !.err = @ \/ to \notin JumpDests])
     /\ panicked' = (to < 0) /\ UNCHANGED memory

\* JUMPI: the condition below the target is not zero.
JUMPI ==
  LET s1 == Pop64(Fetched)
      to == Int64(popped64(Fetched))
      go == popped(s1) # 0
  IN /\ Loop
     /\ Becomes([Pop(s1) EXCEPT !.err = @ \/ (go /\ to \notin JumpDests)])
     /\ panicked' = (go /\ to < 0) /\ UNCHANGED memory

\* BLOCKHASH pushes some hash; the hash of an earlier block is asked for
\* over RPC, and the answer may be an error.
BLOCKHASH ==
  LET n  == popped64(Fetched)
      s1 == Pop64(Fetched)
  IN /\ Loop
     /\ CASE n > BlockHeight \/ BlockHeight - n > MaximumAllowedBlockLookBack ->
               Becomes([s1 EXCEPT !.err = TRUE])
          [] n = BlockHeight -> Becomes(Push(s1, n))
          [] OTHER -> \/ Becomes(Push(useGasNegative(s1, 1), n))
                      \/ Becomes([useGasNegative(s1, 1) EXCEPT !.err = TRUE])
     /\ StackOnly

OpMemory == MLOAD \/ MSTORE \/ MSTORE8

Init == stack = <<>> /\ memory = <<>> /\ gas = GasLimit /\ err = FALSE /\ panicked = FALSE

Next == OpUnary \/ OpBinary \/ OpTernary \/ SIGNEXTEND \/ BYTE \/ OpStack \/ OpMemory
          \/ CALLDATALOAD \/ OpCopy \/ RETURNDATACOPY \/ JUMP \/ JUMPI \/ BLOCKHASH

Spec == Init /\ [][Next]_vars

-----------------------------------------------------------------------------
(* Properties.                                                             *)

top(i) == stack[Len(stack) - i + 1]

(* On the words the stack holds, each division and its remainder belong    *)
(* together: the quotient times the divisor plus the remainder gives the   *)
(* dividend back, signed and unsigned, the remainder is smaller than the   *)
(* divisor, and the sums and products of ADDMOD and MULMOD are not cut to  *)
(* a word before the remainder is taken.                                   *)
DivisionsAgree ==
  Len(stack) >= 2 =>
    LET x == top(1)  y == top(2)
    IN y # 0 =>
         /\ ADD(MUL(DIV(x, y), y), MOD(x, y)) = x /\ MOD(x, y) < y
         /\ ADD(MUL(SDIV(x, y), y), SMOD(x, y)) = x /\ SMOD(x, y) < abs(S256(y))
         /\ Len(stack) >= 3 =>
              /\ ADDMOD(x, top(3), y) = (MOD(x, y) + MOD(top(3), y)) % y
              /\ MULMOD(x, top(3), y) = (MOD(x, y) * MOD(top(3), y)) % y

(* Shifts are multiplications and divisions by powers of two, addition is  *)
(* exclusive or with the carries, negation is complement plus one, and a   *)
(* sign extension keeps the signed value of the low bytes.                 *)
BitsAgree ==
  Len(stack) >= 2 =>
    LET x == top(1)  y == top(2)
    IN /\ SHL(y, x) = MUL(x, EXP(2, y))
       /\ y < WordBits - 1 => SHR(y, x) = DIV(x, 2^y) /\ SAR(y, x) = SDIV(x, 2^y)
       /\ ADD(x, y) = ADD(XOR(x, y), MUL(2, AND(x, y))) /\ ADD(NOT(x), 1) = SUB(0, x)
       /\ OR(x, y) = NOT(AND(NOT(x), NOT(y)))
       /\ \A b \in 0..(WordBytes - 2) :
            LET n == 2^(ByteBits * (b + 1)) low == x % n
            IN S256(SignExtend(b, x)) = IF low < n \div 2 THEN low ELSE low - n

(* What is written to memory is read back, and no other byte changes; what *)
(* is copied from the call data ends in zeros beyond its end, so that two  *)
(* halves read apart are the whole.                                        *)
MemoryReadsBack ==
  Len(stack) >= 2 /\ okAccess(access(memory, top(1), WordBytes)) =>
    LET m == Write(memory, top(1), bytes(top(2)))
    IN /\ leftPad(Read(m, top(1), WordBytes)) = top(2)
       /\ \A i \in 1..Len(memory) :
            i \notin (top(1) + 1)..(top(1) + WordBytes) => m[i] = memory[i]
       /\ top(1) < Len(Input) =>
            LET data(o, n) == subSlice(Input, o, n).bytes
            IN data(top(1), 3) = data(top(1), 1) \o data(top(1) + 1, 2)

(* The opcodes agree with each other and with arithmetic on every word     *)
(* that a program can compute, the ones at the ends of the range included. *)
OperatorsAgree == DivisionsAgree /\ BitsAgree /\ MemoryReadsBack
=============================================================================
