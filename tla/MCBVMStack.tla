---------------------------- MODULE MCBVMStack ----------------------------
(* Words of six bits for the frame.  For the encoding words of four bytes, *)
(* integers of three, and methods that return values of every type, nested *)
(* in each other, before and after others.                                 *)
EXTENDS BVMStack

MCInput    == <<2, 1, 3>>
MCReturned == <<3, 1>>

uint8Ty == [T |-> "uint", size |-> 1]
intTy   == [T |-> "int", size |-> 4]
bytesTy == [T |-> "bytes"]
sliceTy(e)    == [T |-> "slice", elem |-> e]
arrayTy(n, e) == [T |-> "array", size |-> n, elem |-> e]
tupleTy(es)   == [T |-> "tuple", elems |-> es]
flatTypes ==
  {uint8Ty, intTy, [T |-> "bool"], [T |-> "fixed", size |-> 2], [T |-> "function", size |-> 1]}
someTypes ==
  {intTy, bytesTy, sliceTy(uint8Ty), arrayTy(2, arrayTy(2, uint8Ty)), arrayTy(2, bytesTy),
   tupleTy(<<intTy, arrayTy(2, uint8Ty)>>), arrayTy(2, tupleTy(<<intTy>>)),
   tupleTy(<<bytesTy, uint8Ty>>), sliceTy(bytesTy)}
MCSignatures ==
  {<< >>} \cup {<<t>> : t \in flatTypes} \cup {<<t, u>> : t, u \in someTypes}
    \cup {<<sliceTy(t), uint8Ty>> : t \in someTypes}
    \cup {<<tupleTy(<<t, uint8Ty>>), bytesTy>> : t \in someTypes}

Abi == INSTANCE ABI WITH ByteBits <- 3, WordBytes <- 4, IntBytes <- 3,
                         DataWords <- {0, 1, 2, 4, 8, 511, 4095}, MaxData <- 3

\* A frame runs, or the arguments and results of a method are encoded.
VARIABLE method
MCInit == Init /\ (method = "none" \/ \E ts \in MCSignatures : method = ts)
MCNext == method = "none" /\ Next /\ UNCHANGED method
MCSpec == MCInit /\ [][MCNext]_<<vars, method>>

(* What is packed is unpacked as it was (ABI.UnpacksWhatIsPacked), and     *)
(* whatever a contract returned unpacking ends with a value of the         *)
(* method's types or an error, never beyond the output                     *)
(* (ABI.UnpacksOrRefuses).                                                 *)
CodecAgrees ==
  method # "none" => Abi!UnpacksWhatIsPacked(method) /\ Abi!UnpacksOrRefuses(method)
=============================================================================
