---------------------------- MODULE StorageBytes ----------------------------
(* A `bytes` (or `string`) state variable as the generated code keeps it.    *)
(* One storage word, the header, holds a value shorter than a word in its    *)
(* leading bytes and twice the length in its last byte.  A longer value      *)
(* lives in the words from keccak256(slot) on and the header is twice its    *)
(* length plus one.  Every operation reads the header's low bit, works on    *)
(* whole words and moves the value between the two forms at the boundary.    *)
(*                                                                           *)
(* A word has W bytes (32 in the code, 3 in the runs).  The data words are   *)
(* one array of bytes: byte i % W of word i \div W is data[i].               *)
(*                                                                           *)
(* A call is one operation, or one read `b[f()]` whose index expression      *)
(* runs operations of its own between the two halves of the read.            *)
EXTENDS Integers, Sequences

CONSTANTS W,         \* bytes of a storage word
          Byte,      \* byte values told apart
          MaxLen,    \* bound: the longest value
          Sources    \* the values a whole-value assignment stores

ASSUME WordAssumption == W \in Nat /\ W >= 2
ASSUME ByteAssumption == Byte \subseteq Nat /\ 0 \in Byte
ASSUME LengthAssumption == MaxLen \in Nat
ASSUME SourcesAssumption ==
         Sources \subseteq { v \in Seq(Byte) : Len(v) <= MaxLen }

VARIABLES header,    \* the word at the slot: its leading bytes, and its tail
          data,      \* the words from keccak256(slot), byte by byte
          reading,   \* <<>>, or <<r>>: an indexed read is under way
          last       \* the last operation, its arguments and its answer

vars == <<header, data, reading, last>>
storage == <<header, data>>

WordsFor(n) == (n + W - 1) \div W
RoundUp(n) == W * WordsFor(n)

InlineIndex == 0 .. W - 2
DataIndex == 0 .. RoundUp(MaxLen) - 1
Index == 0 .. MaxLen

NoData == [k \in DataIndex |-> 0]
NoInline == [k \in InlineIndex |-> 0]

\* the header of a value kept inline, and of one kept in the data words
ShortHeader(bytes, len) == [inline |-> bytes, tail |-> 2 * len]
LongHeader(len) == [inline |-> NoInline, tail |-> 2 * len + 1]

LongForm(h) == h.tail % 2 = 1
StrLen(h) == IF LongForm(h) THEN (h.tail - 1) \div 2 ELSE h.tail \div 2
IsLong == LongForm(header)
Length == StrLen(header)

Did(op, i, b, v) == [op |-> op, at |-> i, byte |-> b, value |-> v]
EmptyPop == Did("empty pop", 0, 0, <<>>)
NoByteToSet(i) == Did("no byte to set", i, 0, <<>>)
NoByteToRead(i) == Did("no byte to read", i, 0, <<>>)
Answer(i, b) == Did("byte", i, b, <<>>)

Init == /\ header = ShortHeader(NoInline, 0)
        /\ data = NoData
        /\ reading = <<>>
        /\ last = Did("none", 0, 0, <<>>)

-----------------------------------------------------------------------------
(* How an operation ends.                                                    *)

\* The EVM undoes everything the call did; with no read under way the
\* operation is the whole call and has written nothing yet.
Revert(panic) ==
  /\ last' = panic
  /\ reading' = <<>>
  /\ IF reading = <<>> THEN UNCHANGED storage
     ELSE header' = reading[1].header /\ data' = reading[1].data

Write(newHeader, newData) ==
  /\ header' = newHeader
  /\ data' = newData
  /\ UNCHANGED reading

-----------------------------------------------------------------------------
(* Reads.                                                                    *)

\* Mutant: a long value is read from its first word only.
ByteAtFirstWord(i) == IF IsLong THEN data[i % W]
                      ELSE IF i <= W - 2 THEN header.inline[i]
                      ELSE IF i = W - 1 THEN header.tail
                      ELSE 0

\* jeth_str_byte_at.  It trusts its caller's bounds check: byte W-1 of an
\* inline value is the header's tail, and a shift by a whole word gives zero.
ByteAt(i) == IF IsLong THEN data[i]
             ELSE IF i <= W - 2 THEN header.inline[i]
             ELSE IF i = W - 1 THEN header.tail
             ELSE 0

\* jeth_load_str and jeth_copy_str_to_mem: the length, and the words copied.
LoadStr(h, d) ==
  [i \in 1 .. StrLen(h) |-> IF LongForm(h) THEN d[i - 1] ELSE h.inline[i - 1]]
Load == LoadStr(header, data)

\* `b[index]`, first half: the length is bound before the index expression.
StartRead ==
  /\ reading = <<>>
  /\ reading' = <<[len |-> Length, header |-> header, data |-> data]>>
  /\ last' = Did("start", 0, 0, <<>>)
  /\ UNCHANGED storage

\* second half: the index is tested against the length bound first.
FinishRead(i) ==
  /\ reading # <<>>
  /\ IF i < reading[1].len
     THEN last' = Answer(i, ByteAt(i)) /\ reading' = <<>> /\ UNCHANGED storage
     ELSE Revert(NoByteToRead(i))

-----------------------------------------------------------------------------
(* b.push(x).                                                                *)

PushInline(b) ==
  /\ ~IsLong /\ Length < W - 1
  /\ Write(ShortHeader([header.inline EXCEPT ![Length] = b], Length + 1), data)

\* the push that fills the word moves the value out to its first data word
PushOut(b) ==
  /\ ~IsLong /\ Length >= W - 1
  /\ Write(LongHeader(W),
           [k \in DataIndex |-> IF k < W - 1 THEN header.inline[k]
                                ELSE IF k = W - 1 THEN b ELSE data[k]])

PushData(b) ==
  /\ IsLong
  /\ Write([header EXCEPT !.tail = @ + 2], [data EXCEPT ![Length] = b])

\* bound: a value of MaxLen bytes is not pushed onto
StrPush(b) == /\ Length < MaxLen
              /\ PushInline(b) \/ PushOut(b) \/ PushData(b)
              /\ last' = Did("push", 0, b, <<>>)

-----------------------------------------------------------------------------
(* b.pop().                                                                  *)

PopEmpty == ~IsLong /\ Length = 0 /\ Revert(EmptyPop)

PopInline ==
  /\ ~IsLong /\ Length # 0
  /\ Write(ShortHeader([header.inline EXCEPT ![Length - 1] = 0], Length - 1), data)

\* Mutant: the header turns short without taking the bytes back in.
PopInForgetting ==
  /\ IsLong /\ Length = W
  /\ Write(ShortHeader(NoInline, W - 1),
           [k \in DataIndex |-> IF k < W THEN 0 ELSE data[k]])

\* the pop that leaves one byte less than a word brings the value back in
PopIn ==
  /\ IsLong /\ Length = W
  /\ Write(ShortHeader([k \in InlineIndex |-> data[k]], W - 1),
           [k \in DataIndex |-> IF k < W THEN 0 ELSE data[k]])

PopData ==
  /\ IsLong /\ Length # W
  /\ Write([header EXCEPT !.tail = @ - 2], [data EXCEPT ![Length - 1] = 0])

StrPop == \/ PopEmpty
          \/ /\ PopInline \/ PopIn \/ PopData
             /\ last' = Did("pop", 0, 0, <<>>)

-----------------------------------------------------------------------------
(* b[i] = x: value, location and index are evaluated, then the helper tests  *)
(* the index against the length it reads itself.                             *)

StrByteSet(i, b) ==
  \/ i >= Length /\ Revert(NoByteToSet(i))
  \/ /\ i < Length
     /\ IF IsLong THEN Write(header, [data EXCEPT ![i] = b])
        ELSE Write([header EXCEPT !.inline[i] = b], data)
     /\ last' = Did("set", i, b, <<>>)

-----------------------------------------------------------------------------
(* b = v and `delete b`.                                                     *)

\* the bytes of the words an inline value never has and a long one fills
OldEnd == IF IsLong THEN RoundUp(Length) ELSE 0

ClearStr ==
  /\ Write(ShortHeader(NoInline, 0),
           [k \in DataIndex |-> IF k < OldEnd THEN 0 ELSE data[k]])
  /\ last' = Did("clear", 0, 0, <<>>)

\* Byte k of the memory words of v: past its end memory holds whatever an
\* earlier value left there (junk), which the mask of the last word removes.
SourceByte(v, k, junk) == IF k < Len(v) THEN v[k + 1] ELSE junk
Unmasked(v, k, junk) == SourceByte(v, k, junk)  \* mutant: the mask is left out
Masked(v, k, junk) == IF k < Len(v) THEN SourceByte(v, k, junk) ELSE 0

StoreInline(v, junk) ==
  /\ Len(v) < W
  /\ Write(ShortHeader([k \in InlineIndex |-> Masked(v, k, junk)], Len(v)),
           [k \in DataIndex |-> IF k < OldEnd THEN 0 ELSE data[k]])

StoreData(v, junk) ==
  /\ Len(v) >= W
  /\ Write(LongHeader(Len(v)),
           [k \in DataIndex |->
              IF k < RoundUp(Len(v)) THEN Masked(v, k, junk)
              ELSE IF k < OldEnd THEN 0 ELSE data[k]])

StoreStrMem(v, junk) == /\ StoreInline(v, junk) \/ StoreData(v, junk)
                        /\ last' = Did("assign", 0, 0, v)

-----------------------------------------------------------------------------

Next == \/ \E b \in Byte : StrPush(b) \/ \E i \in Index : StrByteSet(i, b)
        \/ StrPop
        \/ ClearStr
        \/ \E v \in Sources : \E junk \in Byte : StoreStrMem(v, junk)
        \/ StartRead
        \/ \E i \in Index : FinishRead(i)

Spec == Init /\ [][Next]_vars

-----------------------------------------------------------------------------

Headers == [inline : [InlineIndex -> Byte], tail : 0 .. 2 * MaxLen + 1]
Reads == [len : Index, header : Headers, data : [DataIndex -> Byte]]
Operations == [op : {"none", "push", "pop", "empty pop", "set", "no byte to set",
                     "clear", "assign", "start", "byte", "no byte to read"},
               at : Index, byte : Nat, value : Sources \cup {<<>>}]

\* The state stays well formed: a length never runs below zero or past the
\* bound and every stored byte is a byte.
TypeOK == /\ header \in Headers
          /\ data \in [DataIndex -> Byte]
          /\ reading \in Seq(Reads) /\ Len(reading) <= 1
          /\ last \in Operations

\* The two forms never overlap: the low bit of the header says "long" exactly
\* when the value fills a word.  No helper checks it (Solidity's panics 0x22
\* on a header that breaks it), and 31, 32, 62 and 65 in the code agree on it.
Canonical(h) == LongForm(h) <=> StrLen(h) >= W
CanonicalHeader == Canonical(header)

\* Nothing of an earlier, longer value stays in storage: every inline and
\* every data byte past the length is zero.  A push writes one byte and an
\* ABI encoding copies whole words, so what is left behind would resurface.
Clean(h, d) ==
  /\ ~LongForm(h) => \A k \in InlineIndex : k >= StrLen(h) => h.inline[k] = 0
  /\ \A k \in DataIndex : (~LongForm(h) \/ k >= StrLen(h)) => d[k] = 0
NoResidue == Clean(header, data)

StorageIsClean == TypeOK /\ CanonicalHeader /\ NoResidue

\* The layout keeps what the variable promises: pushes, pops, byte writes,
\* assignments and panics, in either form and across the boundary, do to the
\* loaded value what ByteString says.
Found == [r \in 1 .. Len(reading) |-> LoadStr(reading[r].header, reading[r].data)]
Bytes == INSTANCE ByteString
           WITH value <- Load, before <- Found, Values <- Sources

KeepsByteString == Bytes!Spec

Undisturbed == storage = <<reading[1].header, reading[1].data>>

\* A read whose index expression leaves the value alone answers the byte at
\* the index, or panics 0x32 exactly when there is none, in both forms.
UndisturbedReadExact ==
  [][\A i \in Index :
       FinishRead(i) /\ Undisturbed
         => last' = IF i < Length THEN Answer(i, Load[i + 1])
                       ELSE NoByteToRead(i)]_vars

\* A read whose index expression shortened the value can pass its stale test,
\* but what it then answers is zero or the tail of the header, never a byte
\* the value no longer has.
StaleReadSeesNoErasedByte ==
  [][\A i \in Index :
       FinishRead(i) /\ i >= Length /\ last'.op = "byte"
         => last'.byte \in {0, header.tail}]_vars

\* `b[i]` panics 0x32 exactly when i is out of the bounds of the value it
\* reads: what SUPPORTED.md and the comment of lowerByteIndex promise.
ReadChecksTheValueRead ==
  [][\A i \in Index :
       FinishRead(i) => (last' = NoByteToRead(i) <=> i >= Length)]_vars
=============================================================================
