------------------------------- MODULE AbiCodec -------------------------------
(* The recursive ABI codecs of generated code.                              *)
(*                                                                          *)
(* A value arrives as ABI bytes, in calldata or as the operand of           *)
(* abi.decode in memory.  It is turned into a memory image, in which every  *)
(* reference is an absolute pointer to a block of its own, or straight into *)
(* a blob, the ABI encoding that leaves the contract.  An image is encoded  *)
(* into a blob in turn.                                                     *)
(*                                                                          *)
(* Bytes are digits below Base and a word is two of them.  No sum or        *)
(* product below wraps: each is of a few numbers that have been compared    *)
(* with Cap, which stands for 2^64 - 1.                                     *)
EXTENDS Integers, Sequences, SequencesExt, TLC

CONSTANTS
    Base,    \* the number of values of a byte
    Cap,     \* the cap on offsets, lengths and memory addresses
    First,   \* where free memory begins
    Junk,    \* what memory nobody wrote to holds
    Types,   \* the types of the values
    Codecs,  \* the paths a value may take
    Samples(_),   \* values of a type
    Wrong, Cuts   \* the words a bad encoder writes, the bytes it leaves out

Word == 2
CodecAssumption == Base \in Nat /\ Cap \in 1 .. Base * Base - 1 /\ First \in 0 .. Cap

VARIABLES
    type, input,  \* the type of the value, and the bytes that arrive
    path,         \* the path taken, "none" before the first step
    st,           \* the machine: memory, free pointer, outcome, last result
    blob          \* where the blob lies, once there is one
vars == <<type, input, path, st, blob>>

(***************************************************************************)
(* Types: [k |-> "value", lim, enum], "bytes", [k |-> "list", e],          *)
(* [k |-> "fixed", n, e] and [k |-> "struct", f].  A value is in range     *)
(* below lim.                                                              *)
(***************************************************************************)
RECURSIVE IsDynamic(_), HeadWords(_), Leaves(_), StaticStructArray(_)
IsDynamic(t) ==
    \/ t.k \in {"bytes", "list"}
    \/ t.k = "fixed" /\ IsDynamic(t.e)
    \/ t.k = "struct" /\ \E i \in DOMAIN t.f : IsDynamic(t.f[i])
Leaves(t) ==
    CASE t.k = "value" -> <<t>>
      [] t.k = "fixed" -> FlattenSeq([i \in 1 .. t.n |-> Leaves(t.e)])
      [] t.k = "struct" -> FlattenSeq([i \in DOMAIN t.f |-> Leaves(t.f[i])])
HeadWords(t) == IF IsDynamic(t) THEN 1 ELSE Len(Leaves(t))
HeadBytes(t) == HeadWords(t) * Word
FieldAt(t, i) == FoldLeft(LAMBDA n, f : n + HeadBytes(f), 0, SubSeq(t.f, 1, i - 1))
TupleBytes(t) == FieldAt(t, Len(t.f) + 1)
CdElemHeadBytes(t) == IF t.k = "struct" THEN TupleBytes(t) ELSE Word

ValueArray(t) == t.k \in {"list", "fixed"} /\ t.e.k = "value"
RECURSIVE ValueLeafArray(_)
ValueLeafArray(t) == t.k \in {"list", "fixed"} /\ (t.e.k = "value" \/ ValueLeafArray(t.e))
StaticStructArray(t) ==
    /\ t.k \in {"list", "fixed"}
    /\ (t.e.k = "struct" /\ ~IsDynamic(t.e)) \/ StaticStructArray(t.e)
\* A static element that memory nevertheless holds by reference.
PointerHeaded(e) ==
    \/ e.k = "struct" /\ ~IsDynamic(e)
    \/ e.k = "fixed" /\ StaticStructArray(e)
\* A static value whose image is the words of its encoding.
Flat(t) == ~IsDynamic(t) /\ ~(t.k = "fixed" /\ StaticStructArray(t))

(***************************************************************************)
(* The machine.                                                            *)
(***************************************************************************)
ByteOf(s, a) == IF a \in DOMAIN s.mem THEN s.mem[a] ELSE Junk
MLoad(s, a) == ByteOf(s, a) * Base + ByteOf(s, a + 1)
MStore(s, a, w) == [s EXCEPT !.mem = (a :> w \div Base) @@ (a + 1 :> w % Base) @@ @]
InputByte(a) == IF a < Len(input) THEN input[a + 1] ELSE 0
InputWord(a) == InputByte(a) * Base + InputByte(a + 1)

Stop(s, how) == [s EXCEPT !.out = how]
Result(s, r) == [s EXCEPT !.r = r]
Claim(s, bytes) == [s EXCEPT !.r = s.fp, !.fp = s.fp + bytes]
\* What has been laid out from `start`: as a place, the end of it; as an end,
\* its size.
Past(start, done) == Result(done, start + done.r)
Since(start, done) == Result(done, done.r - start)
\* Step for i from 0 to n - 1, until one of them stops the machine.
Each(n, Step(_, _), s) ==
    FoldLeft(LAMBDA acc, i : IF acc.out = "ok" THEN Step(acc, i - 1) ELSE acc, s,
             [i \in 1 .. n |-> i])

\* A source: calldata or the operand of abi.decode, its end, and what an
\* oversized length does.
Load(s, src, a) == IF src.kind = "calldata" THEN InputWord(a) ELSE MLoad(s, a)
Pad(len) == ((len + Word - 1) \div Word) * Word
CopyWords(s, from, to, n) == Each(n, LAMBDA acc, i : MStore(acc, to + i * Word, MLoad(acc, from + i * Word)), s)
\* Copy a payload and zero the rest of its last word.
CopyBytes(s, src, from, to, len) ==
    LET Read(a) == IF src.kind = "calldata" THEN InputByte(a) ELSE ByteOf(s, a)
        copied == [s EXCEPT !.mem = [a \in to .. to + len - 1 |-> Read(from + a - to)] @@ @]
    IN IF len % Word # 0 THEN MStore(copied, to + len, 0) ELSE copied

(***************************************************************************)
(* ABI bytes to a blob at dst; the result is its size, and while elements  *)
(* are laid out the place of the next one.  A value is checked, masked (an *)
(* enum panics) or, for a raw copy, masked with enums left as they are.    *)
(***************************************************************************)
RECURSIVE AbiEncFromCd(_, _, _, _, _, _), AbiDecToImage(_, _, _, _, _)

BlobValue(t, src, p, dst, mode, s) ==
    LET w == Load(s, src, p)
    IN CASE mode = "check" /\ w >= t.lim -> Stop(s, "revert")
         [] mode = "mask" /\ t.enum /\ w >= t.lim -> Stop(s, "panic")
         [] OTHER -> Result(MStore(s, dst, IF mode = "check" \/ t.enum THEN w ELSE w % t.lim), Word)

BlobStatic(t, src, p, dst, mode, s) ==
    Result(Each(HeadWords(t), LAMBDA acc, i :
                BlobValue(Leaves(t)[i + 1], src, p + i * Word, dst + i * Word, mode, acc), s),
           HeadBytes(t))

\* Mutant: the bytes are not compared with the end of the input.
BlobBytesUnbounded(src, p, dst, s) ==
    LET len == Load(s, src, p)
    IN IF len > Cap \/ dst + Word + Pad(len) > Cap THEN Stop(s, src.cap)
       ELSE Result(CopyBytes(MStore(s, dst, len), src, p + Word, dst + Word, len), Word + Pad(len))
BlobBytes(src, p, dst, s) ==
    LET len == Load(s, src, p)
    IN IF len > Cap \/ dst + Word + Pad(len) > Cap THEN Stop(s, src.cap)
       ELSE IF p + Word + len > src.end THEN Stop(s, "revert")
       ELSE Result(CopyBytes(MStore(s, dst, len), src, p + Word, dst + Word, len), Word + Pad(len))

\* A dynamic part: its offset, read at offAt, counts from base; the offset
\* written at `at` counts from rel, and s.r is where the part will lie.
BlobTail(t, src, base, offAt, at, rel, s) ==
    LET so == Load(s, src, offAt)
    IN IF so > Cap \/ base + so + CdElemHeadBytes(t) > src.end THEN Stop(s, "revert")
       ELSE Past(s.r, AbiEncFromCd(t, src, base + so, s.r, "check", MStore(s, at, s.r - rel)))

\* The table of a list of dynamic elements is compared with the end of the
\* source in memory only.
BlobList(t, src, p, dst, mode, s) ==
    LET len == Load(s, src, p)
        es == HeadBytes(t.e)
        inner == IF t.e.k = "value" THEN mode ELSE "check"
        set == MStore(s, dst, len)
    IN IF len > Cap \/ dst + Word + len * es > Cap THEN Stop(s, src.cap)
       ELSE IF /\ ~IsDynamic(t.e) \/ src.kind = "memory"
               /\ p + Word + len * es > src.end THEN Stop(s, "revert")
       ELSE IF ~IsDynamic(t.e)
       THEN Result(Each(len, LAMBDA acc, i :
                        AbiEncFromCd(t.e, src, p + Word + i * es, dst + Word + i * es, inner, acc), set),
                   Word + len * es)
       ELSE Since(dst, Each(len, LAMBDA acc, i :
                            BlobTail(t.e, src, p + Word, p + Word + i * es, dst + Word + i * es, dst + Word, acc),
                            Result(set, dst + Word + len * es)))

BlobFixed(t, src, p, dst, s) ==
    Since(dst, Each(t.n, LAMBDA acc, i :
                    BlobTail(t.e, src, p, p + i * Word, dst + i * Word, dst, acc), Result(s, dst + t.n * Word)))

BlobStruct(t, src, p, dst, s) ==
    LET Field(acc, i) ==
            LET f == t.f[i + 1]  at == FieldAt(t, i + 1)
            IN IF IsDynamic(f) THEN BlobTail(f, src, p, p + at, dst + at, dst, acc)
               ELSE Result(AbiEncFromCd(f, src, p + at, dst + at, "check", acc), acc.r)
    IN Since(dst, Each(Len(t.f), Field, Result(s, dst + TupleBytes(t))))

AbiEncFromCd(t, src, p, dst, mode, s) ==
    CASE t.k = "value" -> BlobValue(t, src, p, dst, mode, s)
      [] ~IsDynamic(t) -> BlobStatic(t, src, p, dst, mode, s)
      [] t.k = "bytes" -> BlobBytes(src, p, dst, s)
      [] t.k = "list" -> BlobList(t, src, p, dst, mode, s)
      [] t.k = "fixed" -> BlobFixed(t, src, p, dst, s)
      [] t.k = "struct" -> BlobStruct(t, src, p, dst, s)

Store(at, im) == IF im.out = "ok" THEN MStore(im, at, im.r) ELSE im

\* The decoder from memory differs in one shape: a fixed array of static
\* structs becomes a table of pointers to their images.
AbiDecFromMem(t, src, p, dst, s) ==
    IF t.k = "fixed" /\ PointerHeaded(t.e)
    THEN IF p + HeadBytes(t) > src.end THEN Stop(s, "revert")
         ELSE Result(Each(t.n, LAMBDA acc, i :
                          Store(dst + i * Word,
                                AbiDecToImage(t.e, src, p + i * HeadBytes(t.e), TRUE, acc)), s),
                     t.n * Word)
    ELSE AbiEncFromCd(t, src, p, dst, "check", s)

(***************************************************************************)
(* ABI bytes to an image; the result is the pointer to it.  `force` checks *)
(* the values of an array that a plain copy would only mask.               *)
(***************************************************************************)
ImageTail(t, src, base, offAt, at, need, force, s) ==
    LET so == Load(s, src, offAt)
    IN IF so > Cap \/ base + so + need > src.end THEN Stop(s, "revert")
       ELSE Store(at, AbiDecToImage(t, src, base + so, force, s))

Leaf(t, of, src, p, dst, force, s) ==
    IF src.kind = "memory" THEN AbiDecFromMem(t, src, p, dst, s)
    ELSE AbiEncFromCd(t, src, p, dst, IF force \/ ~ValueLeafArray(of) THEN "check" ELSE "raw", s)

ImageList(t, src, p, force, s) ==
    LET len == Load(s, src, p)
        es == HeadBytes(t.e)
        slot == IF Flat(t.e) /\ ~PointerHeaded(t.e) THEN es ELSE Word
        ptr == s.fp
        block == MStore(Claim(s, Word + len * slot), ptr, len)
        inner == [src EXCEPT !.param = FALSE]
        Element(acc, i) ==
            LET from == p + Word + i * es  at == ptr + Word + i * slot
            IN IF IsDynamic(t.e) THEN ImageTail(t.e, inner, p + Word, from, at, CdElemHeadBytes(t.e), TRUE, acc)
               ELSE IF PointerHeaded(t.e) THEN Store(at, AbiDecToImage(t.e, inner, from, force, acc))
               ELSE Leaf(t.e, t, src, from, at, force, acc)
    IN IF len > Cap \/ ptr + Word + len * slot > Cap THEN Stop(s, src.cap)
       ELSE IF p + Word + len * es > src.end THEN Stop(s, "revert")
       ELSE Result(Each(len, Element, block), ptr)

ImageFixed(t, src, p, force, s) ==
    LET ptr == s.fp
        inner == [src EXCEPT !.param = FALSE]
        Element(acc, i) ==
            IF PointerHeaded(t.e)
            THEN Store(ptr + i * Word, AbiDecToImage(t.e, inner, p + i * HeadBytes(t.e), force, acc))
            ELSE ImageTail(t.e, inner, p, p + i * Word, ptr + i * Word, CdElemHeadBytes(t.e), TRUE, acc)
    IN IF PointerHeaded(t.e) /\ p + HeadBytes(t) > src.end THEN Stop(s, "revert")
       ELSE Result(Each(t.n, Element, Claim(s, t.n * Word)), ptr)

\* The image of a struct with dynamic fields: a head of words, one pointer
\* for each dynamic field.  A struct parameter (src.param) checks the values
\* of its arrays of values, a struct inside an array leaves them to the copy.
BuildDynStruct(t, src, p, s) ==
    LET ptr == s.fp
        Need(f) == IF f.k = "fixed" /\ (src.kind = "memory" \/ src.param) THEN f.n * Word
                   ELSE CdElemHeadBytes(f)
        Field(acc, i) ==
            LET f == t.f[i + 1]  at == FieldAt(t, i + 1)
            IN IF IsDynamic(f)
               THEN ImageTail(f, src, p, p + at, ptr + at, Need(f), src.param /\ f.k = "list" /\ ValueArray(f), acc)
               ELSE IF src.kind = "memory" THEN AbiDecFromMem(f, src, p + at, ptr + at, acc)
               ELSE BlobStatic(f, src, p + at, ptr + at, "check", acc)
    IN Result(Each(Len(t.f), Field, Claim(s, TupleBytes(t))), ptr)

Claimed(done) == IF done.out = "ok" THEN Claim(done, done.r) ELSE done

AbiDecToImage(t, src, p, force, s) ==
    CASE t.k = "bytes" -> Claimed(BlobBytes(src, p, s.fp, s))
      [] Flat(t) -> Result(Leaf(t, t, src, p, s.fp, force, Claim(s, HeadBytes(t))), s.fp)
      [] t.k = "list" -> ImageList(t, src, p, force, s)
      [] t.k = "fixed" -> ImageFixed(t, src, p, force, s)
      [] t.k = "struct" -> BuildDynStruct(t, src, p, s)

(***************************************************************************)
(* An image to a blob; the result is the blob's size.                      *)
(***************************************************************************)
RECURSIVE AbiEncFromMem(_, _, _, _), EncodeTupleInto(_, _, _, _)

Leaf1(t) == Leaves(t)[1]
\* Values copied out of memory; an enum must be in range.
CopyValues(t, from, to, n, s) ==
    IF Leaf1(t).enum /\ \E i \in 0 .. n - 1 : MLoad(s, from + i * Word) >= Leaf1(t).lim
    THEN Stop(s, "panic") ELSE CopyWords(s, from, to, n)

EncodeBytes(ptr, dst, s) ==
    LET len == MLoad(s, ptr)
    IN Result(CopyBytes(MStore(s, dst, len), [kind |-> "memory"], ptr + Word, dst + Word, len), Word + Pad(len))

\* A part behind an offset; s.r is where it will lie.
EncodeTail(t, ptr, at, rel, s) ==
    Past(s.r, AbiEncFromMem(t, ptr, s.r, MStore(s, at, s.r - rel)))

\* The elements of an array whose image is a table of pointers at `from`.
EncodePointers(e, n, from, to, s) ==
    IF IsDynamic(e)
    THEN Each(n, LAMBDA acc, i : EncodeTail(e, MLoad(acc, from + i * Word), to + i * Word, to, acc),
              Result(s, to + n * Word))
    ELSE Result(Each(n, LAMBDA acc, i :
                     LET ip == MLoad(acc, from + i * Word)  edst == to + i * HeadBytes(e)
                     IN IF e.k = "fixed" THEN AbiEncFromMem(e, ip, edst, acc)
                        ELSE CopyWords(acc, ip, edst, HeadWords(e)), s),
                to + n * HeadBytes(e))

AbiEncFromMem(t, ptr, dst, s) ==
    CASE t.k = "struct" /\ IsDynamic(t) -> EncodeTupleInto(t, ptr, dst, s)
      [] t.k = "bytes" -> EncodeBytes(ptr, dst, s)
      [] t.k \in {"value", "struct"} /\ ~IsDynamic(t) -> Result(CopyWords(s, ptr, dst, HeadWords(t)), HeadBytes(t))
      [] t.k = "fixed" /\ Flat(t) -> Result(CopyValues(t, ptr, dst, HeadWords(t), s), HeadBytes(t))
      [] t.k = "fixed" /\ ~Flat(t) ->
             Since(dst, EncodePointers(t.e, t.n, ptr, dst, s))
      [] t.k = "list" ->
             LET len == MLoad(s, ptr)
                 set == MStore(s, dst, len)
             IN IF Flat(t.e) /\ ~PointerHeaded(t.e)
                THEN Result(CopyValues(t.e, ptr + Word, dst + Word, len * HeadWords(t.e), set),
                            Word + len * HeadBytes(t.e))
                ELSE Since(dst, EncodePointers(t.e, len, ptr + Word, dst + Word, set))

\* A dynamic field's payload at s.r; bytes and arrays of values are capped.
EncodeDynFieldInto(f, ip, s) ==
    LET size == Word + (IF f.k = "bytes" THEN Pad(MLoad(s, ip)) ELSE MLoad(s, ip) * Word)
        plain == f.k = "bytes" \/ (f.k = "list" /\ ValueArray(f))
    IN IF plain /\ (MLoad(s, ip) > Cap \/ s.r + size > Cap) THEN Stop(s, "panic")
       ELSE Past(s.r, AbiEncFromMem(f, ip, s.r, s))

EncodeTupleInto(t, ptr, dst, s) ==
    LET Field(acc, i) ==
            LET f == t.f[i + 1]  at == FieldAt(t, i + 1)
            IN IF IsDynamic(f)
               THEN EncodeDynFieldInto(f, MLoad(acc, ptr + at), MStore(acc, dst + at, acc.r - dst))
               ELSE CopyWords(acc, ptr + at, dst + at, HeadWords(f))
    IN Since(dst, Each(Len(t.f), Field, Result(s, dst + TupleBytes(t))))

(***************************************************************************)
(* Entry points.                                                           *)
(***************************************************************************)
Fresh == [mem |-> <<>>, fp |-> First, out |-> "ok", r |-> 0]
Calldata(cap, param) == [kind |-> "calldata", end |-> Len(input), cap |-> cap, param |-> param]

\* What the dispatcher has established of a parameter bound from calldata
\* before the body runs; arguments begin at byte 0 here.
ParamBound ==
    LET so == InputWord(0)
        elem == IF type.k = "bytes" THEN 1 ELSE IF type.k = "list" THEN HeadBytes(type.e) ELSE 0
    IN /\ HeadBytes(type) <= Len(input)
       /\ ~IsDynamic(type) \/
            /\ so <= Cap
            /\ type.k = "struct" => so + TupleBytes(type) <= Len(input)
            /\ type.k = "fixed" => so + type.n * Word <= Len(input)
            /\ type.k \in {"bytes", "list"} =>
                 /\ so + Word <= Len(input)
                 /\ InputWord(so) <= Cap /\ so + Word + InputWord(so) * elem <= Len(input)
ParamAt == IF IsDynamic(type) THEN InputWord(0) ELSE 0

\* A blob goes to the free pointer, behind the word 0x20 if it is dynamic.
BlobAt(s) == IF IsDynamic(type) THEN s.fp + Word ELSE s.fp
Finish(codec, done, at) ==
    /\ path' = codec /\ st' = done
    /\ blob' = IF done.out = "ok" THEN [at |-> at, size |-> done.r] ELSE blob
    /\ UNCHANGED <<type, input>>
Keep(codec, done) ==
    /\ path' = codec /\ st' = done
    /\ UNCHANGED <<type, input, blob>>

\* abi.decode of bytes in memory: s has them at data, and src is their source.
Operand == First + Word
Loaded == [Fresh EXCEPT
    !.mem = [a \in Operand .. Operand + Pad(Len(input)) - 1 |-> InputByte(a - Operand)],
    !.fp = Operand + Pad(Len(input))]
FromOperand == [kind |-> "memory", end |-> Operand + Len(input), cap |-> "panic", param |-> FALSE]

AbiDecode(t, src, so, s) ==
    IF Operand + HeadBytes(t) > src.end THEN Stop(s, "revert")
    ELSE IF ~IsDynamic(t) /\ Flat(t)
    THEN [AbiDecFromMem(t, src, Operand, s.fp, s) EXCEPT !.r = s.fp, !.fp = s.fp + HeadBytes(t)]
    ELSE IF ~IsDynamic(t) THEN AbiDecToImage(t, src, Operand, TRUE, s)
    ELSE IF so > Cap \/ Operand + so + CdElemHeadBytes(t) > src.end THEN Stop(s, "revert")
    ELSE AbiDecToImage(t, src, Operand + so, TRUE, s)

LowerAbiDecode ==
    /\ path = "none" /\ "decode" \in Codecs
    /\ Keep("decode", AbiDecode(type, FromOperand, InputWord(0), Loaded))

\* A calldata parameter bound to a memory local.
BuildFromCalldata ==
    /\ path = "none" /\ "bind" \in Codecs /\ ParamBound
    /\ Keep("bind", AbiDecToImage(type, Calldata("panic", type.k = "struct"), ParamAt, FALSE, Fresh))

\* A calldata parameter returned as it came.
EchoParam ==
    /\ path = "none" /\ "echo" \in Codecs /\ ParamBound
    /\ LET mode == IF ValueArray(type) \/ (~IsDynamic(type) /\ ValueLeafArray(type)) THEN "mask" ELSE "check"
           at == BlobAt(Fresh)
       IN Finish("echo", AbiEncFromCd(type, Calldata("panic", TRUE), ParamAt, at, mode, Fresh), at)

\* A calldata parameter as an argument of abi.encode, an event or an error:
\* a struct goes through an image.
ReencodeParam ==
    /\ path = "none" /\ "reencode" \in Codecs /\ ParamBound
    /\ LET src == Calldata("revert", TRUE)
           at == BlobAt(Fresh)
       IN IF type.k = "struct" /\ IsDynamic(type)
          THEN Keep("reencode", BuildDynStruct(type, src, ParamAt, Fresh))
          ELSE Finish("reencode", AbiEncFromCd(type, src, ParamAt, at, "check", Fresh), at)

\* The image encoded again.
EncodeImage ==
    /\ path \in {"decode", "bind", "reencode"} /\ st.out = "ok" /\ blob.at = 0
    /\ Finish(path, AbiEncFromMem(type, st.r, BlobAt(st), st), BlobAt(st))

\* The canonical encoding of a value.
RECURSIVE Encoding(_, _)
WordBytes(w) == <<w \div Base, w % Base>>
Parcel(ts, vs) ==
    LET heads == FoldLeft(LAMBDA n, t : n + HeadBytes(t), 0, ts)
        done == FoldLeft(LAMBDA acc, i :
                    IF IsDynamic(ts[i])
                    THEN [head |-> acc.head \o WordBytes(heads + Len(acc.tail)),
                          tail |-> acc.tail \o Encoding(ts[i], vs[i])]
                    ELSE [acc EXCEPT !.head = @ \o Encoding(ts[i], vs[i])],
                [head |-> <<>>, tail |-> <<>>], [i \in DOMAIN ts |-> i])
    IN done.head \o done.tail
Encoding(t, v) ==
    CASE t.k = "value" -> WordBytes(v)
      [] t.k = "bytes" -> WordBytes(Len(v)) \o v \o [i \in 1 .. Pad(Len(v)) - Len(v) |-> 0]
      [] t.k = "list" -> WordBytes(Len(v)) \o Parcel([i \in DOMAIN v |-> t.e], v)
      [] t.k = "fixed" -> Parcel([i \in 1 .. t.n |-> t.e], v)
      [] t.k = "struct" -> Parcel(t.f, v)

\* What arrives is a well-formed encoding of which two words may have been
\* replaced and the end cut off.
SetWord(bytes, i, w) ==
    IF w = Base * Base THEN bytes
    ELSE [bytes EXCEPT ![i * Word - 1] = w \div Base, ![i * Word] = w % Base]
Init ==
    /\ type \in Types
    /\ \E seed \in {Parcel(<<type>>, <<x>>) : x \in Samples(type)} :
          \E i, j \in 1 .. Len(seed) \div Word, v, w \in Wrong, cut \in Cuts :
             input = SubSeq(SetWord(SetWord(seed, i, v), j, w), 1, Len(seed) - cut)
    /\ path = "none" /\ st = Fresh /\ blob = [at |-> 0, size |-> 0]

Next == LowerAbiDecode \/ BuildFromCalldata \/ EchoParam \/ ReencodeParam \/ EncodeImage

Spec == Init /\ [][Next]_vars

---------------------------------------------------------------------------
(***************************************************************************)
(* The reference: what the bytes that arrived mean.  bad: a part of the    *)
(* value is not there; table: a table of offsets is not wholly there;      *)
(* dirty: a value is out of range where a decoder must check it.           *)
(***************************************************************************)
RECURSIVE Meaning(_, _, _)

Parts(ms) ==
    [val |-> [i \in DOMAIN ms |-> ms[i].val],
     bad |-> \E i \in DOMAIN ms : ms[i].bad, table |-> \E i \in DOMAIN ms : ms[i].table,
     dirty |-> \E i \in DOMAIN ms : ms[i].dirty]
Missing(bad) == [val |-> <<>>, bad |-> bad, table |-> ~bad, dirty |-> FALSE]

\* A part of type t: in place at p, or behind the offset at p from base.
Part(t, base, p, checked) ==
    IF ~IsDynamic(t) THEN Meaning(t, p, checked)
    ELSE IF p + Word > Len(input) THEN Missing(FALSE)
    ELSE IF InputWord(p) > Cap \/ base + InputWord(p) + CdElemHeadBytes(t) > Len(input) THEN Missing(TRUE)
    ELSE Meaning(t, base + InputWord(p), TRUE)

Meaning(t, p, checked) ==
    LET w == InputWord(p)
    IN CASE t.k = "value" ->
              [val |-> IF t.enum THEN w ELSE w % t.lim, bad |-> p + Word > Len(input),
               table |-> FALSE, dirty |-> checked /\ w >= t.lim]
         [] t.k = "bytes" ->
              IF p + Word + w > Len(input) THEN Missing(TRUE)
              ELSE [val |-> SubSeq(input, p + Word + 1, p + Word + w), bad |-> FALSE,
                    table |-> FALSE, dirty |-> FALSE]
         [] t.k = "list" ->
              IF p + Word + w * HeadBytes(t.e) > Len(input) THEN Missing(~IsDynamic(t.e))
              ELSE Parts([i \in 1 .. w |->
                       Part(t.e, p + Word, p + Word + (i - 1) * HeadBytes(t.e), checked \/ t.e.k = "struct")])
         [] t.k = "fixed" ->
              Parts([i \in 1 .. t.n |-> Part(t.e, p, p + (i - 1) * HeadBytes(t.e), checked \/ t.e.k = "struct")])
         [] t.k = "struct" ->
              Parts([i \in DOMAIN t.f |-> Part(t.f[i], p, p + FieldAt(t, i), TRUE)])

\* The value that arrived.  All of its values are checked, or those of a plain
\* array of values are not: a copy of it only masks them.
MeaningOf(checked) ==
    LET at == InputWord(0)
    IN IF IsDynamic(type) /\ (at > Cap \/ at + CdElemHeadBytes(type) > Len(input)) THEN Missing(TRUE)
       ELSE Meaning(type, IF IsDynamic(type) THEN at ELSE 0, checked)
Arrived == MeaningOf(TRUE)

(***************************************************************************)
(* Properties.                                                             *)
(***************************************************************************)
TypeOK ==
    /\ type \in Types /\ path \in {"none"} \cup Codecs
    /\ st.out \in {"ok", "revert", "panic"} /\ st.fp \in Nat /\ st.r \in Nat
    /\ \A a \in DOMAIN st.mem : st.mem[a] \in 0 .. Base - 1
    /\ blob.at \in Nat /\ blob.size \in Nat

\* The blob that leaves the contract is, byte for byte, the canonical encoding
\* of the value that arrived, whatever its offsets looked like on the way in
\* and whichever path it took: no block of an image overlapped another, and
\* every copy was padded.
BlobIsCanonical ==
    blob.at # 0 /\ ~Arrived.table =>
        [i \in 1 .. blob.size |-> ByteOf(st, blob.at + i - 1)] = Encoding(type, Arrived.val)

\* A value is accepted only if all of it is there: an offset or a length that
\* runs past the end of the source is refused.
AcceptedIsThere == path # "none" /\ st.out = "ok" => ~Arrived.bad

\* A whole value in range is never refused as malformed, wherever its offsets
\* point: the only refusal left is the one for its size.
WellFormedAccepted ==
    path # "none" /\ ~Arrived.bad /\ ~Arrived.table /\ ~Arrived.dirty => st.out # "revert"

\* Encoding an image writes to fresh memory only: what the program has
\* allocated, the image among it, stays intact.
ImageUntouched ==
    [][path # "none" => \A a \in DOMAIN st.mem : a < st.fp => st'.mem[a] = st.mem[a]]_vars

\* The comment on abiDecFromCdToImage: a copy that was reached through a table
\* of offsets "VALIDATES every value leaf"; abi.decode and a re-encoding check
\* all of them.
OffsetsValidate ==
    path # "none" /\ st.out = "ok" => ~MeaningOf(path \in {"decode", "reencode"}).dirty

\* The comment on abiDecFromMem: it "bounds every offset/length against
\* blobEnd", so it reads no table of offsets past the end of the source.
TablesBounded == path = "decode" /\ st.out = "ok" => ~Arrived.table
=============================================================================
