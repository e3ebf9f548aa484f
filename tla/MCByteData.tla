------------------------------- MODULE MCByteData -------------------------------
(* Bytes in storage, in calldata and in memory.  A behaviour is of one          *)
(* scenario: a bytes variable of three-byte words and values up to five bytes;  *)
(* values bound from calldata of up to 20 bytes, in words of nine bits and two  *)
(* bytes; or a value decoded and encoded again, in words of two digits.         *)
EXTENDS StorageBytes, CalldataSlices, TLC

CONSTANTS Scenarios, CodecTypes, Codecs
VARIABLES scenario, type, input, path, st, blob

\* One value of every length, with no zero byte in it.
MCSources == { [i \in 1 .. n |-> 1] : n \in 0 .. MaxLen }

-----------------------------------------------------------------------------
TypeDesc(kind, dynamic, head, elem, n, fields) ==
    [kind |-> kind, dynamic |-> dynamic, head |-> head, elem |-> elem, n |-> n, fields |-> fields]
At(t, pos) == [type |-> t, at |-> pos]

SliceTypes ==
    [t \in {"u", "p", "u2", "b", "us", "ps", "bs", "uss", "b2", "b2s", "d", "ds", "d2", "o"} |->
      CASE t = "u" -> TypeDesc("value", FALSE, 2, "u", 0, <<>>)
        [] t = "p" -> TypeDesc("struct", FALSE, 4, "u", 0, <<At("u", 0), At("u", 2)>>)
        [] t = "u2" -> TypeDesc("fixed", FALSE, 4, "u", 2, <<>>)
        [] t = "b" -> TypeDesc("bytes", TRUE, 2, "u", 0, <<>>)
        [] t = "us" -> TypeDesc("list", TRUE, 2, "u", 0, <<>>)
        [] t = "ps" -> TypeDesc("list", TRUE, 2, "p", 0, <<>>)
        [] t = "bs" -> TypeDesc("list", TRUE, 2, "b", 0, <<>>)
        [] t = "uss" -> TypeDesc("list", TRUE, 2, "us", 0, <<>>)
        [] t = "b2" -> TypeDesc("fixed", TRUE, 2, "b", 2, <<>>)
        [] t = "b2s" -> TypeDesc("list", TRUE, 2, "b2", 0, <<>>)
        [] t = "d" -> TypeDesc("struct", TRUE, 4, "u", 0, <<At("u", 0), At("b", 2)>>)
        [] t = "d2" -> TypeDesc("fixed", TRUE, 2, "d", 2, <<>>)
        [] t = "ds" -> TypeDesc("list", TRUE, 2, "d", 0, <<>>)
        [] t = "o" -> TypeDesc("struct", TRUE, 6, "u", 0, <<At("d", 0), At("us", 2), At("b2", 4)>>)]

SliceParams == {"b", "p", "u2", "us", "ps", "bs", "uss", "b2", "b2s", "ds", "d2", "o"}
SliceOffsets == 0 .. 26 \cup 240 .. 264 \cup 480 .. 511

-----------------------------------------------------------------------------
U == [k |-> "value", lim |-> 16, enum |-> FALSE]
Enum == [k |-> "value", lim |-> 3, enum |-> TRUE]
Blob == [k |-> "bytes"]
List(e) == [k |-> "list", e |-> e]
Fixed(n, e) == [k |-> "fixed", n |-> n, e |-> e]
Struct(f) == [k |-> "struct", f |-> f]
P == Struct(<<U, U>>)
D == Struct(<<U, Blob>>)

Shapes == {List(U), List(Enum), Blob, List(Blob), Fixed(2, List(U)), List(P), Fixed(2, P), List(D), D,
           Struct(<<Blob, List(U), P>>), List(List(U)), List(Fixed(2, U)), Fixed(2, U),
           Struct(<<D, U>>), Struct(<<Fixed(2, Blob), U>>)}

\* Values of each type: lists of none, one and two, bytes of odd length.
RECURSIVE Sample(_, _)
Sample(t, n) ==
    CASE t.k = "value" -> n
      [] t.k = "bytes" -> [i \in 1 .. n |-> 8 + i]
      [] t.k = "list" -> [i \in 1 .. n |-> Sample(t.e, i)]
      [] t.k = "fixed" -> [i \in 1 .. t.n |-> Sample(t.e, i)]
      [] t.k = "struct" -> [i \in DOMAIN t.f |-> Sample(t.f[i], 1 + ((i + n) % 2))]

MCSamples(t) == {Sample(t, n) : n \in 1 .. 2}

\* A struct with a field of which abi.decode stores pointers.
PointerShapes == {Struct(<<Fixed(2, P), Blob>>)}

Codec == INSTANCE AbiCodec WITH
    Base <- 16, Cap <- 127, First <- 4, Junk <- 7, Types <- CodecTypes,
    Codecs <- Codecs, Samples <- MCSamples,
    Wrong <- {256, 0, 1, 2, 4, 17, 60, 200}, Cuts <- {0, 1, 2}

ASSUME Codec!CodecAssumption

-----------------------------------------------------------------------------
codecVars == <<type, input, path, st, blob>>
MCvars == <<scenario, vars, sliceVars, codecVars>>

NoSlice == size = 2 /\ at = Start
NoCodec == type = U /\ input = <<>> /\ path = "none" /\ st = Codec!Fresh /\ blob = [at |-> 0, size |-> 0]

MCInit ==
    /\ scenario \in Scenarios
    /\ CASE scenario = "storage" -> Init /\ NoSlice /\ NoCodec
         [] scenario = "calldata" -> SliceInit /\ NoCodec
         [] scenario = "codec" -> Codec!Init /\ NoSlice
    /\ scenario # "storage" => Init

MCNext ==
    /\ UNCHANGED scenario
    /\ \/ scenario = "storage" /\ Next /\ UNCHANGED <<sliceVars, codecVars>>
       \/ scenario = "calldata" /\ SliceNext /\ UNCHANGED <<vars, codecVars>>
       \/ scenario = "codec" /\ Codec!Next /\ UNCHANGED <<vars, sliceVars>>

MCSpec == MCInit /\ [][MCNext]_MCvars

\* A step of a program stays with its value: a read of storage that nothing
\* disturbs answers the value and any other no byte that was erased, an index and
\* a slice of calldata stay within the value they start from, and an encoder
\* writes to fresh memory only.
StepsStayInside ==
    /\ UndisturbedReadExact
    /\ StaleReadSeesNoErasedByte
    /\ ElementReadable
    /\ SliceNarrows
    /\ Codec!ImageUntouched

\* What leaves the contract is the canonical encoding of the value that arrived.
EncodesWhatArrived == scenario = "codec" => Codec!BlobIsCanonical

\* All that is accepted is there and in range, all that is well formed is
\* accepted, and it is encoded as it should be.
CodecIsExact ==
    /\ EncodesWhatArrived
    /\ scenario = "codec" =>
         /\ Codec!TypeOK
         /\ Codec!AcceptedIsThere
         /\ Codec!WellFormedAccepted
         /\ Codec!OffsetsValidate
================================================================================
