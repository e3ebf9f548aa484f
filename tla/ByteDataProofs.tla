---------------------------- MODULE ByteDataProofs ----------------------------
(* Proofs about StorageBytes.tla for every word size, set of bytes, longest    *)
(* value and set of assigned values, and about CalldataSlices.tla for every    *)
(* word width, cap, set of types, size of calldata and choice of the words it  *)
(* holds.                                                                      *)
EXTENDS StorageBytes, CalldataSlices, SequenceTheorems, TLAPS

-----------------------------------------------------------------------------
(* StorageBytes.                                                             *)

\* What every storage of a value is, that in place and the one a revert
\* brings back alike.
Good(h, d) == /\ h \in Headers
              /\ d \in [DataIndex -> Byte]
              /\ Canonical(h)
              /\ Clean(h, d)

\* The saved storage of a read has to be good too: a revert restores it.
IInv == /\ Good(header, data)
        /\ reading \in Seq(Reads) /\ Len(reading) <= 1
        /\ reading # <<>> => /\ Good(reading[1].header, reading[1].data)
                             /\ reading[1].len = StrLen(reading[1].header)
        /\ last \in Operations

-----------------------------------------------------------------------------
(* Words and headers.                                                        *)

LEMMA RoundUpCovers ==
  ASSUME NEW n \in Nat
  PROVE  RoundUp(n) \in Nat /\ RoundUp(n) >= n
<1> DEFINE q == (n + W - 1) \div W
           r == (n + W - 1) % W
<1>1. W \in Nat /\ W >= 2
  BY WordAssumption
<1>2. q \in Int /\ r \in 0 .. W - 1
  BY <1>1, SMT
<1>3. n + W - 1 = W * q + r
  BY <1>1, SMT
<1>4. W * q \in Int
  BY <1>1, <1>2
<1>5. W * q >= n
  <2> DEFINE p == W * q
  <2>1. p \in Int /\ n + W - 1 = p + r
    BY <1>3, <1>4
  <2> HIDE DEF p, q, r
  <2>2. p >= n
    BY <2>1, <1>1, <1>2
  <2> QED
    BY <2>2 DEF p
<1> QED
  BY <1>4, <1>5 DEF RoundUp, WordsFor

LEMMA ShortForm ==
  ASSUME NEW bytes, NEW n \in Nat
  PROVE  /\ ~LongForm(ShortHeader(bytes, n))
         /\ StrLen(ShortHeader(bytes, n)) = n
         /\ ShortHeader(bytes, n).inline = bytes
<1>1. (2 * n) % 2 = 0 /\ (2 * n) \div 2 = n
  OBVIOUS
<1> QED
  BY <1>1 DEF LongForm, StrLen, ShortHeader

LEMMA OddTail ==
  ASSUME NEW h, NEW n \in Nat, h.tail = 2 * n + 1
  PROVE  LongForm(h) /\ StrLen(h) = n
<1>1. (2 * n + 1) % 2 = 1 /\ (2 * n + 1 - 1) \div 2 = n
  OBVIOUS
<1> QED
  BY <1>1 DEF LongForm, StrLen

\* A header says which of the two it is, and no length passes the bound.
LEMMA HeaderForm ==
  ASSUME NEW h \in Headers
  PROVE  /\ StrLen(h) \in 0 .. MaxLen
         /\ LongForm(h) => h.tail = 2 * StrLen(h) + 1
         /\ ~LongForm(h) => h.tail = 2 * StrLen(h)
<1>1. h.tail \in 0 .. 2 * MaxLen + 1 /\ MaxLen \in Nat
  BY LengthAssumption DEF Headers
<1>2. h.tail % 2 = 1 => (h.tail - 1) \div 2 \in 0 .. MaxLen /\ h.tail = 2 * ((h.tail - 1) \div 2) + 1
  BY <1>1, SMT
<1>3. h.tail % 2 # 1 => h.tail \div 2 \in 0 .. MaxLen /\ h.tail = 2 * (h.tail \div 2)
  BY <1>1, SMT
<1> QED
  BY <1>2, <1>3 DEF StrLen, LongForm

LEMMA GoodShort ==
  ASSUME NEW bytes \in [InlineIndex -> Byte], NEW n \in 0 .. MaxLen, n < W,
         \A k \in InlineIndex : k >= n => bytes[k] = 0,
         NEW d \in [DataIndex -> Byte], \A k \in DataIndex : d[k] = 0
  PROVE  Good(ShortHeader(bytes, n), d)
<1> DEFINE h == ShortHeader(bytes, n)
<1>1. n \in Nat /\ W \in Nat /\ MaxLen \in Nat
  BY WordAssumption, LengthAssumption
<1>2. ~LongForm(h) /\ StrLen(h) = n /\ h.inline = bytes
  BY <1>1, ShortForm
<1>3. h \in Headers
  BY <1>1 DEF Headers, ShortHeader
<1> QED
  BY <1>1, <1>2, <1>3 DEF Good, Canonical, Clean

LEMMA GoodLong ==
  ASSUME NEW h, h \in [inline : [InlineIndex -> Byte], tail : Nat],
         NEW n \in 0 .. MaxLen, h.tail = 2 * n + 1, n >= W,
         NEW d \in [DataIndex -> Byte], \A k \in DataIndex : k >= n => d[k] = 0
  PROVE  Good(h, d)
<1>1. n \in Nat /\ W \in Nat /\ MaxLen \in Nat
  BY WordAssumption, LengthAssumption
<1>2. LongForm(h) /\ StrLen(h) = n
  BY <1>1, OddTail
<1>3. h \in Headers
  BY <1>1 DEF Headers
<1> QED
  BY <1>1, <1>2, <1>3 DEF Good, Canonical, Clean

-----------------------------------------------------------------------------
(* Each write leaves a good storage.                                         *)

LEMMA Constants == W \in Nat /\ W >= 2 /\ MaxLen \in Nat /\ Byte \subseteq Nat /\ 0 \in Byte
BY WordAssumption, LengthAssumption, ByteAssumption

LEMMA DataCovers == RoundUp(MaxLen) \in Nat /\ RoundUp(MaxLen) >= MaxLen
BY Constants, RoundUpCovers

\* What an operation may rely on: the length, the form it decides, and the
\* zeros past it.
LEMMA GoodStorage ==
  ASSUME Good(header, data)
  PROVE  /\ header.inline \in [InlineIndex -> Byte]
         /\ header = [inline |-> header.inline, tail |-> header.tail]
         /\ data \in [DataIndex -> Byte]
         /\ Length \in 0 .. MaxLen
         /\ IsLong => /\ Length >= W
                      /\ header.tail = 2 * Length + 1
                      /\ \A k \in DataIndex : k >= Length => data[k] = 0
         /\ ~IsLong => /\ Length < W
                       /\ header.tail = 2 * Length
                       /\ \A k \in InlineIndex : k >= Length => header.inline[k] = 0
                       /\ \A k \in DataIndex : data[k] = 0
<1>1. header \in Headers /\ data \in [DataIndex -> Byte]
  BY DEF Good
<1>2. /\ header.inline \in [InlineIndex -> Byte]
      /\ header = [inline |-> header.inline, tail |-> header.tail]
  BY <1>1 DEF Headers
<1>3. /\ Length \in 0 .. MaxLen
      /\ IsLong => header.tail = 2 * Length + 1
      /\ ~IsLong => header.tail = 2 * Length
  BY <1>1, HeaderForm DEF Length, IsLong
<1>4. IsLong <=> Length >= W
  BY DEF Good, Canonical, Length, IsLong
<1>5. /\ ~IsLong => \A k \in InlineIndex : k >= Length => header.inline[k] = 0
      /\ \A k \in DataIndex : (~IsLong \/ k >= Length) => data[k] = 0
  BY DEF Good, Clean, Length, IsLong
<1> QED
  BY <1>1, <1>2, <1>3, <1>4, <1>5, Constants

LEMMA PushGood ==
  ASSUME Good(header, data), NEW b \in Byte, StrPush(b)
  PROVE  Good(header', data')
<1> USE GoodStorage, Constants
<1>0. Length < MaxLen
  BY DEF StrPush
<1>1. CASE PushInline(b)
  <2> DEFINE bytes == [header.inline EXCEPT ![Length] = b]
  <2>1. ~IsLong /\ Length < W - 1 /\ header' = ShortHeader(bytes, Length + 1) /\ data' = data
    BY <1>1 DEF PushInline, Write
  <2>2. bytes \in [InlineIndex -> Byte]
    OBVIOUS
  <2>3. \A k \in InlineIndex : k >= Length + 1 => bytes[k] = 0
    BY <2>1 DEF InlineIndex
  <2>4. Length + 1 \in 0 .. MaxLen /\ Length + 1 < W
    BY <1>0, <2>1
  <2> HIDE DEF bytes
  <2> QED
    BY <2>1, <2>2, <2>3, <2>4, GoodShort
<1>2. CASE PushOut(b)
  <2> DEFINE d == [k \in DataIndex |-> IF k < W - 1 THEN header.inline[k]
                                       ELSE IF k = W - 1 THEN b ELSE data[k]]
  <2>1. ~IsLong /\ Length >= W - 1 /\ header' = LongHeader(W) /\ data' = d
    BY <1>2 DEF PushOut, Write
  <2>2. d \in [DataIndex -> Byte]
    <3> SUFFICES ASSUME NEW k \in DataIndex PROVE d[k] \in Byte
      OBVIOUS
    <3>1. k < W - 1 => k \in InlineIndex
      BY DEF DataIndex, InlineIndex
    <3> QED
      BY <3>1
  <2>3. \A k \in DataIndex : k >= W => d[k] = 0
    BY <2>1 DEF DataIndex
  <2>4. W \in 0 .. MaxLen
    BY <1>0, <2>1
  <2>5. LongHeader(W) \in [inline : [InlineIndex -> Byte], tail : Nat] /\ LongHeader(W).tail = 2 * W + 1
    BY DEF LongHeader, NoInline
  <2> HIDE DEF d
  <2> QED
    BY <2>1, <2>2, <2>3, <2>4, <2>5, GoodLong
<1>3. CASE PushData(b)
  <2> DEFINE h == [header EXCEPT !.tail = @ + 2]
             d == [data EXCEPT ![Length] = b]
  <2>1. IsLong /\ header' = h /\ data' = d
    BY <1>3 DEF PushData, Write
  <2>2. h \in [inline : [InlineIndex -> Byte], tail : Nat] /\ h.tail = 2 * (Length + 1) + 1
    BY <2>1
  <2>3. d \in [DataIndex -> Byte] /\ \A k \in DataIndex : k >= Length + 1 => d[k] = 0
    <3>1. d \in [DataIndex -> Byte]
      OBVIOUS
    <3>2. ASSUME NEW k \in DataIndex, k >= Length + 1 PROVE d[k] = 0
      <4>1. k \in Int /\ (k >= Length \/ k = Length - 1)
        BY <3>2 DEF DataIndex
      <4>2. k >= Length => data[k] = 0
        BY <2>1
      <4> QED
        BY <3>2, <4>1, <4>2
    <3> QED
      BY <3>1, <3>2
  <2>4. Length + 1 \in 0 .. MaxLen /\ Length + 1 >= W
    BY <1>0, <2>1
  <2> HIDE DEF h, d
  <2> QED
    BY <2>1, <2>2, <2>3, <2>4, GoodLong
<1> QED
  BY <1>1, <1>2, <1>3 DEF StrPush

LEMMA PopGood ==
  ASSUME Good(header, data), PopInline \/ PopIn \/ PopData
  PROVE  Good(header', data')
<1> USE GoodStorage, Constants
<1>1. CASE PopInline
  <2> DEFINE bytes == [header.inline EXCEPT ![Length - 1] = 0]
  <2>1. ~IsLong /\ Length # 0 /\ header' = ShortHeader(bytes, Length - 1) /\ data' = data
    BY <1>1 DEF PopInline, Write
  <2>2. bytes \in [InlineIndex -> Byte]
    OBVIOUS
  <2>3. \A k \in InlineIndex : k >= Length - 1 => bytes[k] = 0
    BY <2>1 DEF InlineIndex
  <2>4. Length - 1 \in 0 .. MaxLen /\ Length - 1 < W
    BY <2>1
  <2> HIDE DEF bytes
  <2> QED
    BY <2>1, <2>2, <2>3, <2>4, GoodShort
<1>2. CASE PopIn
  <2> DEFINE bytes == [k \in InlineIndex |-> data[k]]
             d == [k \in DataIndex |-> IF k < W THEN 0 ELSE data[k]]
  <2>1. IsLong /\ Length = W /\ header' = ShortHeader(bytes, W - 1) /\ data' = d
    BY <1>2 DEF PopIn, Write
  <2>2. bytes \in [InlineIndex -> Byte]
    <3>1. \A k \in InlineIndex : k \in DataIndex
      BY <2>1, DataCovers DEF InlineIndex, DataIndex
    <3> QED
      BY <3>1
  <2>3. \A k \in InlineIndex : k >= W - 1 => bytes[k] = 0
    BY DEF InlineIndex
  <2>4. d \in [DataIndex -> Byte] /\ \A k \in DataIndex : d[k] = 0
    BY <2>1 DEF DataIndex
  <2>5. W - 1 \in 0 .. MaxLen /\ W - 1 < W
    BY <2>1
  <2> HIDE DEF bytes, d
  <2> QED
    BY <2>1, <2>2, <2>3, <2>4, <2>5, GoodShort
<1>3. CASE PopData
  <2> DEFINE h == [header EXCEPT !.tail = @ - 2]
             d == [data EXCEPT ![Length - 1] = 0]
  <2>1. IsLong /\ Length # W /\ header' = h /\ data' = d
    BY <1>3 DEF PopData, Write
  <2>2. h \in [inline : [InlineIndex -> Byte], tail : Nat] /\ h.tail = 2 * (Length - 1) + 1
    BY <2>1
  <2>3. d \in [DataIndex -> Byte] /\ \A k \in DataIndex : k >= Length - 1 => d[k] = 0
    <3>1. d \in [DataIndex -> Byte]
      OBVIOUS
    <3>2. ASSUME NEW k \in DataIndex, k >= Length - 1 PROVE d[k] = 0
      <4>1. k \in Int /\ (k >= Length \/ k = Length - 1)
        BY <3>2 DEF DataIndex
      <4>2. k >= Length => data[k] = 0
        BY <2>1
      <4> QED
        BY <3>2, <4>1, <4>2
    <3> QED
      BY <3>1, <3>2
  <2>4. Length - 1 \in 0 .. MaxLen /\ Length - 1 >= W
    BY <2>1
  <2> HIDE DEF h, d
  <2> QED
    BY <2>1, <2>2, <2>3, <2>4, GoodLong
<1> QED
  BY <1>1, <1>2, <1>3

LEMMA SetGood ==
  ASSUME Good(header, data), NEW i \in Index, NEW b \in Byte, i < Length,
         IF IsLong THEN Write(header, [data EXCEPT ![i] = b])
         ELSE Write([header EXCEPT !.inline[i] = b], data)
  PROVE  Good(header', data')
<1> USE GoodStorage, Constants
<1>0. i \in Nat
  BY DEF Index
<1>1. CASE IsLong
  <2> DEFINE d == [data EXCEPT ![i] = b]
  <2>1. header' = header /\ data' = d
    BY <1>1 DEF Write
  <2>2. d \in [DataIndex -> Byte]
    OBVIOUS
  <2>3. ASSUME NEW k \in DataIndex, k >= Length PROVE d[k] = 0
    <3>1. k # i /\ data[k] = 0
      BY <1>0, <1>1, <2>3 DEF DataIndex
    <3> QED
      BY <3>1
  <2>4. header \in [inline : [InlineIndex -> Byte], tail : Nat]
    BY <1>1
  <2> HIDE DEF d
  <2> QED
    BY <1>1, <2>1, <2>2, <2>3, <2>4, GoodLong
<1>2. CASE ~IsLong
  <2> DEFINE bytes == [header.inline EXCEPT ![i] = b]
  <2>1. header' = ShortHeader(bytes, Length) /\ data' = data
    BY <1>2 DEF Write, ShortHeader
  <2>2. bytes \in [InlineIndex -> Byte]
    OBVIOUS
  <2>3. ASSUME NEW k \in InlineIndex, k >= Length PROVE bytes[k] = 0
    <3>1. k # i /\ header.inline[k] = 0
      BY <1>0, <1>2, <2>3 DEF InlineIndex
    <3> QED
      BY <3>1
  <2> HIDE DEF bytes
  <2> QED
    BY <1>2, <2>1, <2>2, <2>3, GoodShort
<1> QED
  BY <1>1, <1>2

\* Clearing the words up to OldEnd clears every byte that is not zero already.
LEMMA ClearedWords ==
  ASSUME Good(header, data), NEW k \in DataIndex, ~(k < OldEnd)
  PROVE  data[k] = 0
<1>1. k \in Int
  BY DEF DataIndex
<1>2. CASE IsLong
  <2>1. Length \in Nat
    BY GoodStorage
  <2>2. OldEnd = RoundUp(Length) /\ RoundUp(Length) \in Nat /\ RoundUp(Length) >= Length
    BY <1>2, <2>1, RoundUpCovers DEF OldEnd
  <2>3. k >= Length
    BY <1>1, <2>1, <2>2
  <2> QED
    BY <1>2, <2>3, GoodStorage
<1>3. CASE ~IsLong
  BY <1>3, GoodStorage
<1> QED
  BY <1>2, <1>3

LEMMA ClearGood ==
  ASSUME Good(header, data), ClearStr
  PROVE  Good(header', data')
<1> DEFINE d == [k \in DataIndex |-> IF k < OldEnd THEN 0 ELSE data[k]]
<1>1. header' = ShortHeader(NoInline, 0) /\ data' = d
  BY DEF ClearStr, Write
<1>2. d \in [DataIndex -> Byte] /\ \A k \in DataIndex : d[k] = 0
  BY ClearedWords, Constants
<1>3. NoInline \in [InlineIndex -> Byte] /\ \A k \in InlineIndex : NoInline[k] = 0
  BY Constants DEF NoInline
<1>4. 0 \in 0 .. MaxLen /\ 0 < W
  BY Constants
<1> HIDE DEF d
<1> QED
  BY <1>1, <1>2, <1>3, <1>4, GoodShort

LEMMA SourceFacts ==
  ASSUME NEW v \in Sources
  PROVE  v \in Seq(Byte) /\ Len(v) \in 0 .. MaxLen
BY SourcesAssumption, LengthAssumption

LEMMA MaskedByte ==
  ASSUME NEW v \in Sources, NEW k \in Nat, NEW junk
  PROVE  Masked(v, k, junk) \in Byte /\ (k >= Len(v) => Masked(v, k, junk) = 0)
<1>1. v \in Seq(Byte) /\ Len(v) \in Nat
  BY SourceFacts
<1>2. k < Len(v) => v[k + 1] \in Byte
  BY <1>1
<1> QED
  BY <1>1, <1>2, Constants DEF Masked, SourceByte

LEMMA StoreGood ==
  ASSUME Good(header, data), NEW v \in Sources, NEW junk \in Byte, StoreStrMem(v, junk)
  PROVE  Good(header', data')
<1>0. Len(v) \in 0 .. MaxLen
  BY SourceFacts
<1>1. CASE StoreInline(v, junk)
  <2> DEFINE bytes == [k \in InlineIndex |-> Masked(v, k, junk)]
             d == [k \in DataIndex |-> IF k < OldEnd THEN 0 ELSE data[k]]
  <2>1. Len(v) < W /\ header' = ShortHeader(bytes, Len(v)) /\ data' = d
    BY <1>1 DEF StoreInline, Write
  <2>2. d \in [DataIndex -> Byte] /\ \A k \in DataIndex : d[k] = 0
    BY ClearedWords, Constants
  <2>3. \A k \in InlineIndex : k \in Nat
    BY DEF InlineIndex
  <2>4. bytes \in [InlineIndex -> Byte] /\ \A k \in InlineIndex : k >= Len(v) => bytes[k] = 0
    BY <2>3, MaskedByte
  <2> HIDE DEF bytes, d
  <2> QED
    BY <1>0, <2>1, <2>2, <2>4, GoodShort
<1>2. CASE StoreData(v, junk)
  <2> DEFINE d == [k \in DataIndex |->
                     IF k < RoundUp(Len(v)) THEN Masked(v, k, junk)
                     ELSE IF k < OldEnd THEN 0 ELSE data[k]]
  <2>1. Len(v) >= W /\ header' = LongHeader(Len(v)) /\ data' = d
    BY <1>2 DEF StoreData, Write
  <2>2. \A k \in DataIndex : k \in Nat
    BY DEF DataIndex
  <2>3. d \in [DataIndex -> Byte] /\ \A k \in DataIndex : k >= Len(v) => d[k] = 0
    BY <2>2, MaskedByte, ClearedWords, Constants
  <2>4. /\ LongHeader(Len(v)) \in [inline : [InlineIndex -> Byte], tail : Nat]
        /\ LongHeader(Len(v)).tail = 2 * Len(v) + 1
    BY <1>0, Constants DEF LongHeader, NoInline
  <2> HIDE DEF d
  <2> QED
    BY <1>0, <2>1, <2>3, <2>4, GoodLong
<1> QED
  BY <1>1, <1>2 DEF StoreStrMem

\* A panic leaves the storage as it is or brings back the one saved.
LEMMA RevertGood ==
  ASSUME IInv, NEW panic, Revert(panic)
  PROVE  Good(header', data') /\ reading' = <<>>
<1>1. CASE reading = <<>>
  BY <1>1 DEF Revert, storage, IInv
<1>2. CASE reading # <<>>
  BY <1>2 DEF Revert, IInv
<1> QED
  BY <1>1, <1>2

\* A byte read is a number, and the words of a read under way have it.
LEMMA ByteRead ==
  ASSUME Good(header, data), NEW i \in Nat, i < MaxLen
  PROVE  ByteAt(i) \in Nat
<1>1. i \in DataIndex
  BY DataCovers, Constants DEF DataIndex
<1>2. i <= W - 2 => i \in InlineIndex
  BY Constants DEF InlineIndex
<1>3. data[i] \in Nat /\ (i <= W - 2 => header.inline[i] \in Nat)
  BY <1>1, <1>2, GoodStorage, Constants
<1>4. header.tail \in Nat
  BY GoodStorage, Constants
<1> QED
  BY <1>3, <1>4 DEF ByteAt

-----------------------------------------------------------------------------
(* The invariant.                                                            *)

LEMMA InitInv == Init => IInv
<1> SUFFICES ASSUME Init PROVE IInv
  OBVIOUS
<1>1. header = ShortHeader(NoInline, 0) /\ data = NoData
  BY DEF Init
<1>2. /\ NoInline \in [InlineIndex -> Byte] /\ \A k \in InlineIndex : NoInline[k] = 0
      /\ NoData \in [DataIndex -> Byte] /\ \A k \in DataIndex : NoData[k] = 0
  BY Constants DEF NoInline, NoData
<1>3. 0 \in 0 .. MaxLen /\ 0 < W
  BY Constants
<1>4. Good(header, data)
  BY <1>1, <1>2, <1>3, GoodShort
<1>5. last \in Operations
  BY Constants DEF Init, Operations, Did, Index
<1>6. reading = <<>>
  BY DEF Init
<1> QED
  BY <1>4, <1>5, <1>6 DEF IInv

\* What every operation but the two halves of a read keeps of the invariant.
LEMMA StorageStep ==
  ASSUME IInv, Good(header', data'), last' \in Operations,
         reading' = reading \/ reading' = <<>>
  PROVE  IInv'
<1>1. CASE reading' = reading
  BY <1>1 DEF IInv
<1>2. CASE reading' = <<>>
  BY <1>2 DEF IInv
<1> QED
  BY <1>1, <1>2

LEMMA OperationFacts ==
  /\ \A b \in Byte : Did("push", 0, b, <<>>) \in Operations
  /\ \A i \in Index, b \in Byte : Did("set", i, b, <<>>) \in Operations
  /\ \A v \in Sources : Did("assign", 0, 0, v) \in Operations
  /\ Did("pop", 0, 0, <<>>) \in Operations
  /\ Did("clear", 0, 0, <<>>) \in Operations
  /\ Did("start", 0, 0, <<>>) \in Operations
  /\ EmptyPop \in Operations
  /\ \A i \in Index : NoByteToSet(i) \in Operations /\ NoByteToRead(i) \in Operations
  /\ \A i \in Index, b \in Nat : Answer(i, b) \in Operations
<1>1. 0 \in Index /\ 0 \in Nat /\ \A b \in Byte : b \in Nat
  BY Constants DEF Index
<1> QED
  BY <1>1 DEF Operations, Did, EmptyPop, NoByteToSet, NoByteToRead, Answer

LEMMA StartReadInv ==
  ASSUME IInv, StartRead
  PROVE  IInv'
<1> DEFINE r == [len |-> Length, header |-> header, data |-> data]
<1>1. reading' = <<r>> /\ header' = header /\ data' = data
  BY DEF StartRead, storage
<1>2. Good(header, data)
  BY DEF IInv
<1>3. r \in Reads
  BY <1>2, GoodStorage DEF Reads, Good, Index
<1>4. last' \in Operations
  BY OperationFacts DEF StartRead
<1>5. r.header = header /\ r.data = data /\ r.len = StrLen(header)
  BY DEF Length
<1> HIDE DEF r
<1>6. reading' \in Seq(Reads) /\ Len(reading') <= 1 /\ reading'[1] = r
  BY <1>1, <1>3
<1> QED
  BY <1>1, <1>2, <1>4, <1>5, <1>6 DEF IInv

LEMMA FinishReadInv ==
  ASSUME IInv, NEW i \in Index, FinishRead(i)
  PROVE  IInv'
<1>0. i \in Nat /\ Good(header, data)
  BY DEF Index, IInv
<1>1. CASE i < reading[1].len
  <2>1. /\ last' = Answer(i, ByteAt(i)) /\ reading' = <<>>
        /\ header' = header /\ data' = data
    BY <1>1 DEF FinishRead, storage
  <2>2. reading # <<>> /\ reading \in Seq(Reads)
    BY DEF FinishRead, IInv
  <2>3. reading[1] \in Reads
    BY <2>2
  <2>4. reading[1].len \in 0 .. MaxLen
    BY <2>3 DEF Reads, Index
  <2>5. i < MaxLen
    BY <1>0, <1>1, <2>4, Constants
  <2>6. last' \in Operations
    BY <1>0, <2>1, <2>5, ByteRead, OperationFacts
  <2> QED
    BY <1>0, <2>1, <2>6, StorageStep
<1>2. CASE ~(i < reading[1].len)
  <2>1. Revert(NoByteToRead(i))
    BY <1>2 DEF FinishRead
  <2>2. last' \in Operations
    BY <2>1, OperationFacts DEF Revert
  <2> QED
    BY <2>1, <2>2, RevertGood, StorageStep
<1> QED
  BY <1>1, <1>2

LEMMA NextInv == IInv /\ [Next]_vars => IInv'
<1> SUFFICES ASSUME IInv, [Next]_vars PROVE IInv'
  OBVIOUS
<1>0. Good(header, data)
  BY DEF IInv
<1>1. ASSUME NEW b \in Byte, StrPush(b) PROVE IInv'
  <2>1. last' \in Operations
    BY <1>1, OperationFacts DEF StrPush
  <2>2. reading' = reading
    BY <1>1 DEF StrPush, PushInline, PushOut, PushData, Write
  <2> QED
    BY <1>0, <1>1, <2>1, <2>2, PushGood, StorageStep
<1>2. ASSUME NEW b \in Byte, NEW i \in Index, StrByteSet(i, b) PROVE IInv'
  <2>1. CASE i >= Length /\ Revert(NoByteToSet(i))
    <3>1. last' \in Operations
      BY <2>1, OperationFacts DEF Revert
    <3> QED
      BY <2>1, <3>1, RevertGood, StorageStep
  <2>2. CASE /\ i < Length
             /\ IF IsLong THEN Write(header, [data EXCEPT ![i] = b])
                ELSE Write([header EXCEPT !.inline[i] = b], data)
             /\ last' = Did("set", i, b, <<>>)
    <3>1. last' \in Operations
      BY <2>2, OperationFacts
    <3>2. reading' = reading
      BY <2>2 DEF Write
    <3>3. Good(header', data')
      BY <1>0, <2>2, SetGood
    <3> QED
      BY <3>1, <3>2, <3>3, StorageStep
  <2> QED
    BY <1>2, <2>1, <2>2 DEF StrByteSet
<1>3. ASSUME StrPop PROVE IInv'
  <2>1. CASE PopEmpty
    <3>1. Revert(EmptyPop) /\ last' \in Operations
      BY <2>1, OperationFacts DEF PopEmpty, Revert
    <3> QED
      BY <3>1, RevertGood, StorageStep
  <2>2. CASE (PopInline \/ PopIn \/ PopData) /\ last' = Did("pop", 0, 0, <<>>)
    <3>1. last' \in Operations
      BY <2>2, OperationFacts
    <3>2. reading' = reading
      BY <2>2 DEF PopInline, PopIn, PopData, Write
    <3> QED
      BY <1>0, <2>2, <3>1, <3>2, PopGood, StorageStep
  <2> QED
    BY <1>3, <2>1, <2>2 DEF StrPop
<1>4. ASSUME ClearStr PROVE IInv'
  <2>1. last' \in Operations /\ reading' = reading
    BY <1>4, OperationFacts DEF ClearStr, Write
  <2> QED
    BY <1>0, <1>4, <2>1, ClearGood, StorageStep
<1>5. ASSUME NEW v \in Sources, NEW junk \in Byte, StoreStrMem(v, junk) PROVE IInv'
  <2>1. last' \in Operations
    BY <1>5, OperationFacts DEF StoreStrMem
  <2>2. reading' = reading
    BY <1>5 DEF StoreStrMem, StoreInline, StoreData, Write
  <2> QED
    BY <1>0, <1>5, <2>1, <2>2, StoreGood, StorageStep
<1>6. ASSUME UNCHANGED vars PROVE IInv'
  BY <1>6 DEF vars, IInv
<1> QED
  BY <1>1, <1>2, <1>3, <1>4, <1>5, <1>6, StartReadInv, FinishReadInv DEF Next

LEMMA InvImplies == IInv => TypeOK /\ CanonicalHeader /\ NoResidue
BY DEF IInv, Good, TypeOK, CanonicalHeader, NoResidue

LEMMA SpecInv == Spec => []IInv
<1> QED
  BY InitInv, NextInv, PTL DEF Spec

\* The storage of a value and what the last operation answered stay well
\* formed under any sequence of operations and panics.
THEOREM SpecTypeOK == Spec => []TypeOK
BY SpecInv, InvImplies, PTL

\* The low bit of the header says "long" exactly when the value fills a word,
\* whichever helper wrote it and whatever a panic undid.
THEOREM SpecCanonicalHeader == Spec => []CanonicalHeader
BY SpecInv, InvImplies, PTL

\* Nothing of a longer value is left behind by a pop, a shorter assignment, a
\* clear or a move between the two forms.
THEOREM SpecNoResidue == Spec => []NoResidue
BY SpecInv, InvImplies, PTL

\* The variable keeps its form and leaves nothing behind.
THEOREM SpecStorageIsClean == Spec => []StorageIsClean
BY SpecTypeOK, SpecCanonicalHeader, SpecNoResidue, PTL DEF StorageIsClean

-----------------------------------------------------------------------------
(* The bytes a header and its data words stand for.                          *)

LEMMA LoadFacts ==
  ASSUME NEW h, NEW d, Good(h, d)
  PROVE  /\ LoadStr(h, d) \in Seq(Byte)
         /\ Len(LoadStr(h, d)) = StrLen(h)
         /\ \A i \in 1 .. StrLen(h) :
              LoadStr(h, d)[i] = IF LongForm(h) THEN d[i - 1] ELSE h.inline[i - 1]
<1> DEFINE n == StrLen(h)
           byte(i) == IF LongForm(h) THEN d[i - 1] ELSE h.inline[i - 1]
<1>1. n \in 0 .. MaxLen /\ n \in Nat
  BY HeaderForm, Constants DEF Good
<1>2. /\ h.inline \in [InlineIndex -> Byte] /\ d \in [DataIndex -> Byte]
      /\ ~LongForm(h) => n < W
  BY <1>1, Constants DEF Good, Headers, Canonical
<1>3. ASSUME NEW i \in 1 .. n PROVE byte(i) \in Byte
  <2>1. LongForm(h) => i - 1 \in DataIndex
    BY <1>1, DataCovers, Constants DEF DataIndex
  <2>2. ~LongForm(h) => i - 1 \in InlineIndex
    BY <1>1, <1>2, Constants DEF InlineIndex
  <2> QED
    BY <1>2, <2>1, <2>2
<1>4. LoadStr(h, d) = [i \in 1 .. n |-> byte(i)]
  BY DEF LoadStr
<1> HIDE DEF n, byte
<1>5. [i \in 1 .. n |-> byte(i)] \in Seq(Byte) /\ Len([i \in 1 .. n |-> byte(i)]) = n
  BY <1>1, <1>3, IsASeq
<1>6. \A i \in 1 .. n : LoadStr(h, d)[i] = byte(i)
  BY <1>4
<1> QED
  BY <1>4, <1>5, <1>6 DEF n, byte

-----------------------------------------------------------------------------
(* Indexed reads.                                                            *)

\* A read whose index expression left the value alone answers the byte at the
\* index or panics for want of one, for inline and long values alike.
THEOREM SpecUndisturbedReadExact == Spec => UndisturbedReadExact
<1>1. ASSUME IInv, NEW i \in Index, FinishRead(i), Undisturbed
      PROVE  last' = IF i < Length THEN Answer(i, Load[i + 1]) ELSE NoByteToRead(i)
  <2>1. reading # <<>> /\ header = reading[1].header
    BY <1>1 DEF FinishRead, Undisturbed, storage
  <2>2. reading[1].len = Length
    BY <1>1, <2>1 DEF IInv, Length
  <2>3. i \in Nat /\ Good(header, data)
    BY <1>1 DEF Index, IInv
  <2>4. CASE i < Length
    <3>1. last' = Answer(i, ByteAt(i))
      BY <1>1, <2>2, <2>4 DEF FinishRead
    <3>2. i + 1 \in 1 .. Length /\ (~IsLong => i <= W - 2) /\ i + 1 - 1 = i
      BY <2>3, <2>4, GoodStorage, Constants
    <3>3. Load[i + 1] = IF IsLong THEN data[i] ELSE header.inline[i]
      BY <2>3, <3>2, LoadFacts DEF Load, Length, IsLong
    <3>4. ByteAt(i) = Load[i + 1]
      BY <3>2, <3>3 DEF ByteAt
    <3> QED
      BY <2>4, <3>1, <3>4
  <2>5. CASE ~(i < Length)
    BY <1>1, <2>2, <2>5 DEF FinishRead, Revert
  <2> QED
    BY <2>4, <2>5
<1>2. IInv /\ [Next]_vars =>
        [\A i \in Index :
           FinishRead(i) /\ Undisturbed
             => last' = IF i < Length THEN Answer(i, Load[i + 1]) ELSE NoByteToRead(i)]_vars
  BY <1>1
<1> QED
  BY <1>2, SpecInv, PTL DEF Spec, UndisturbedReadExact

\* A read that passes its stale test past the end of the value answers zero or
\* the tail of the header: no byte the value has lost is seen again.
THEOREM SpecStaleReadSeesNoErasedByte == Spec => StaleReadSeesNoErasedByte
<1>1. ASSUME IInv, NEW i \in Index, FinishRead(i), i >= Length, last'.op = "byte"
      PROVE  last'.byte \in {0, header.tail}
  <2>1. reading # <<>> /\ reading \in Seq(Reads) /\ Good(header, data) /\ i \in Nat
    BY <1>1 DEF FinishRead, IInv, Index
  <2>2. reading[1].len \in 0 .. MaxLen
    <3>1. reading[1] \in Reads
      BY <2>1
    <3> QED
      BY <3>1 DEF Reads, Index
  <2>3. CASE i < reading[1].len
    <3>1. last'.byte = ByteAt(i)
      BY <1>1, <2>3 DEF FinishRead, Answer, Did
    <3>2. i \in DataIndex
      BY <2>1, <2>2, <2>3, DataCovers, Constants DEF DataIndex
    <3>3. IsLong => data[i] = 0
      BY <1>1, <2>1, <3>2, GoodStorage
    <3>4. ~IsLong /\ i <= W - 2 => header.inline[i] = 0
      <4>1. i <= W - 2 => i \in InlineIndex
        BY <2>1, Constants DEF InlineIndex
      <4> QED
        BY <1>1, <2>1, <4>1, GoodStorage
    <3> QED
      BY <3>1, <3>3, <3>4 DEF ByteAt
  <2>4. CASE ~(i < reading[1].len)
    <3>1. last' = NoByteToRead(i)
      BY <1>1, <2>4 DEF FinishRead, Revert
    <3>2. NoByteToRead(i).op # "byte"
      BY DEF NoByteToRead, Did
    <3> QED
      BY <1>1, <3>1, <3>2
  <2> QED
    BY <2>3, <2>4
<1>2. IInv /\ [Next]_vars =>
        [\A i \in Index :
           FinishRead(i) /\ i >= Length /\ last'.op = "byte"
             => last'.byte \in {0, header.tail}]_vars
  BY <1>1
<1> QED
  BY <1>2, SpecInv, PTL DEF Spec, StaleReadSeesNoErasedByte

-----------------------------------------------------------------------------
(* The layout keeps the sequence of bytes.                                   *)

\* The bytes of the value in place, before a step and after it.
LEMMA BytesNow ==
  ASSUME Good(header, data)
  PROVE  /\ Load \in Seq(Byte) /\ Len(Load) = Length /\ Length \in 0 .. MaxLen
         /\ \A i \in 1 .. Length :
              /\ i - 1 \in DataIndex
              /\ IsLong => Load[i] = data[i - 1]
              /\ ~IsLong => Load[i] = header.inline[i - 1] /\ i - 1 \in InlineIndex
<1>1. /\ Load \in Seq(Byte) /\ Len(Load) = Length
      /\ \A i \in 1 .. Length :
           Load[i] = IF IsLong THEN data[i - 1] ELSE header.inline[i - 1]
  BY LoadFacts DEF Load, Length, IsLong
<1>2. Length \in 0 .. MaxLen /\ (~IsLong => Length < W)
  BY GoodStorage
<1>3. ASSUME NEW i \in 1 .. Length
      PROVE  i - 1 \in DataIndex /\ (~IsLong => i - 1 \in InlineIndex)
  BY <1>2, DataCovers, Constants DEF DataIndex, InlineIndex
<1> QED
  BY <1>1, <1>2, <1>3

LEMMA BytesThenShort ==
  ASSUME NEW bytes, NEW n \in 0 .. MaxLen,
         header' = ShortHeader(bytes, n), Good(header', data')
  PROVE  /\ Load' \in Seq(Byte) /\ Len(Load') = n
         /\ \A i \in 1 .. n : Load'[i] = bytes[i - 1]
<1>1. n \in Nat
  BY Constants
<1>2. ~LongForm(header') /\ StrLen(header') = n /\ header'.inline = bytes
  BY <1>1, ShortForm
<1> QED
  BY <1>2, LoadFacts DEF Load

LEMMA BytesThenLong ==
  ASSUME NEW n \in 0 .. MaxLen, header'.tail = 2 * n + 1, Good(header', data')
  PROVE  /\ Load' \in Seq(Byte) /\ Len(Load') = n
         /\ \A i \in 1 .. n : Load'[i] = data'[i - 1]
<1>1. n \in Nat
  BY Constants
<1>2. LongForm(header') /\ StrLen(header') = n
  BY <1>1, OddTail
<1> QED
  BY <1>2, LoadFacts DEF Load

LEMMA PushValue ==
  ASSUME Good(header, data), NEW b \in Byte, StrPush(b)
  PROVE  Load' = Append(Load, b)
<1>0. Good(header', data') /\ Length < MaxLen /\ Length \in 0 .. MaxLen /\ Length + 1 \in 0 .. MaxLen
  BY PushGood, BytesNow, Constants DEF StrPush
<1>1. /\ Load' \in Seq(Byte) /\ Len(Load') = Length + 1
      /\ \A i \in 1 .. Length : Load'[i] = Load[i]
      /\ Load'[Length + 1] = b
  <2>1. CASE PushInline(b)
    <3> DEFINE bytes == [header.inline EXCEPT ![Length] = b]
    <3>1. ~IsLong /\ Length < W - 1 /\ header' = ShortHeader(bytes, Length + 1)
      BY <2>1 DEF PushInline, Write
    <3>2. Length \in InlineIndex
      BY <1>0, <3>1, Constants DEF InlineIndex
    <3>3. header.inline \in [InlineIndex -> Byte]
      BY GoodStorage
    <3>4. bytes[Length] = b /\ \A i \in 1 .. Length : bytes[i - 1] = Load[i]
      BY <1>0, <3>1, <3>2, <3>3, BytesNow
    <3> HIDE DEF bytes
    <3> QED
      BY <1>0, <3>1, <3>4, BytesThenShort
  <2>2. CASE PushOut(b)
    <3>1. ~IsLong /\ Length >= W - 1 /\ header' = LongHeader(W)
      BY <2>2 DEF PushOut, Write
    <3>2. data' = [k \in DataIndex |-> IF k < W - 1 THEN header.inline[k]
                                       ELSE IF k = W - 1 THEN b ELSE data[k]]
      BY <2>2 DEF PushOut, Write
    <3>3. Length = W - 1 /\ header'.tail = 2 * (Length + 1) + 1
      BY <3>1, GoodStorage, Constants DEF LongHeader
    <3>4. Length \in DataIndex
      BY <1>0, DataCovers, Constants DEF DataIndex
    <3>5. data'[Length] = b
      BY <3>2, <3>3, <3>4, Constants
    <3>6. ASSUME NEW i \in 1 .. Length PROVE data'[i - 1] = Load[i]
      <4>1. i - 1 \in DataIndex /\ i - 1 < W - 1 /\ Load[i] = header.inline[i - 1]
        BY <1>0, <3>1, <3>3, BytesNow, Constants
      <4> QED
        BY <3>2, <4>1
    <3>7. /\ Load' \in Seq(Byte) /\ Len(Load') = Length + 1
          /\ \A i \in 1 .. Length + 1 : Load'[i] = data'[i - 1]
      BY <1>0, <3>3, BytesThenLong
    <3>8. Length + 1 \in 1 .. Length + 1 /\ (Length + 1) - 1 = Length
          /\ \A i \in 1 .. Length : i \in 1 .. Length + 1
      BY <1>0
    <3> QED
      BY <3>5, <3>6, <3>7, <3>8
  <2>3. CASE PushData(b)
    <3>1. IsLong /\ header' = [header EXCEPT !.tail = @ + 2] /\ data' = [data EXCEPT ![Length] = b]
      BY <2>3 DEF PushData, Write
    <3>2. header'.tail = 2 * (Length + 1) + 1
      BY <1>0, <3>1, GoodStorage
    <3>3. Length \in DataIndex
      BY <1>0, DataCovers, Constants DEF DataIndex
    <3>4. data'[Length] = b
      BY <3>1, <3>3, GoodStorage
    <3>5. ASSUME NEW i \in 1 .. Length PROVE data'[i - 1] = Load[i]
      <4>1. i - 1 \in DataIndex /\ i - 1 # Length /\ Load[i] = data[i - 1]
        BY <1>0, <3>1, BytesNow
      <4> QED
        BY <3>1, <4>1, GoodStorage
    <3>6. /\ Load' \in Seq(Byte) /\ Len(Load') = Length + 1
          /\ \A i \in 1 .. Length + 1 : Load'[i] = data'[i - 1]
      BY <1>0, <3>2, BytesThenLong
    <3>7. Length + 1 \in 1 .. Length + 1 /\ (Length + 1) - 1 = Length
          /\ \A i \in 1 .. Length : i \in 1 .. Length + 1
      BY <1>0
    <3> QED
      BY <3>4, <3>5, <3>6, <3>7
  <2> QED
    BY <2>1, <2>2, <2>3 DEF StrPush
<1>2. Load \in Seq(Byte) /\ Len(Load) = Length /\ Length \in Nat
  BY BytesNow, Constants
<1>3. /\ Append(Load, b) \in Seq(Byte) /\ Len(Append(Load, b)) = Length + 1
      /\ \A i \in 1 .. Length : Append(Load, b)[i] = Load[i]
      /\ Append(Load, b)[Length + 1] = b
  BY <1>2, AppendProperties
<1>4. \A i \in 1 .. Length + 1 : Load'[i] = Append(Load, b)[i]
  <2>1. \A i \in 1 .. Length + 1 : i \in 1 .. Length \/ i = Length + 1
    BY <1>2
  <2> QED
    BY <1>1, <1>3, <2>1
<1> QED
  BY <1>1, <1>3, <1>4, SeqEqual

LEMMA PopValue ==
  ASSUME Good(header, data), PopInline \/ PopIn \/ PopData
  PROVE  Load # <<>> /\ Load' = SubSeq(Load, 1, Len(Load) - 1)
<1>0. Good(header', data') /\ Length \in 0 .. MaxLen
  BY PopGood, BytesNow
<1>1. Length # 0 /\ Length - 1 \in 0 .. MaxLen
  <2>1. PopIn \/ PopData => Length # 0
    BY GoodStorage, Constants DEF PopIn, PopData
  <2>2. PopInline => Length # 0
    BY DEF PopInline
  <2> QED
    BY <1>0, <2>1, <2>2, Constants
<1>2. /\ Load' \in Seq(Byte) /\ Len(Load') = Length - 1
      /\ \A i \in 1 .. Length - 1 : Load'[i] = Load[i]
  <2>1. CASE PopInline
    <3> DEFINE bytes == [header.inline EXCEPT ![Length - 1] = 0]
    <3>1. ~IsLong /\ header' = ShortHeader(bytes, Length - 1)
      BY <2>1 DEF PopInline, Write
    <3>2. ASSUME NEW i \in 1 .. Length - 1 PROVE bytes[i - 1] = Load[i]
      <4>1. i \in 1 .. Length /\ i - 1 # Length - 1
        BY <1>0, Constants
      <4>2. i - 1 \in InlineIndex /\ Load[i] = header.inline[i - 1]
        BY <3>1, <4>1, BytesNow
      <4> QED
        BY <4>1, <4>2, GoodStorage
    <3> HIDE DEF bytes
    <3> QED
      BY <1>0, <1>1, <3>1, <3>2, BytesThenShort
  <2>2. CASE PopIn
    <3> DEFINE bytes == [k \in InlineIndex |-> data[k]]
    <3>1. IsLong /\ Length = W /\ header' = ShortHeader(bytes, Length - 1)
      BY <2>2 DEF PopIn, Write
    <3>2. ASSUME NEW i \in 1 .. Length - 1 PROVE bytes[i - 1] = Load[i]
      <4>1. i \in 1 .. Length /\ i - 1 \in InlineIndex
        BY <1>0, <3>1, Constants DEF InlineIndex
      <4>2. Load[i] = data[i - 1]
        BY <3>1, <4>1, BytesNow
      <4> QED
        BY <4>1, <4>2
    <3> HIDE DEF bytes
    <3> QED
      BY <1>0, <1>1, <3>1, <3>2, BytesThenShort
  <2>3. CASE PopData
    <3>1. IsLong /\ header' = [header EXCEPT !.tail = @ - 2] /\ data' = [data EXCEPT ![Length - 1] = 0]
      BY <2>3 DEF PopData, Write
    <3>2. header'.tail = 2 * (Length - 1) + 1
      BY <1>0, <3>1, GoodStorage, Constants
    <3>3. ASSUME NEW i \in 1 .. Length - 1 PROVE data'[i - 1] = Load[i]
      <4>1. i \in 1 .. Length /\ i - 1 # Length - 1
        BY <1>0, Constants
      <4>2. i - 1 \in DataIndex /\ Load[i] = data[i - 1]
        BY <3>1, <4>1, BytesNow
      <4> QED
        BY <3>1, <4>1, <4>2, GoodStorage
    <3> QED
      BY <1>0, <1>1, <3>2, <3>3, BytesThenLong
  <2> QED
    BY <2>1, <2>2, <2>3
<1>3. Load \in Seq(Byte) /\ Len(Load) = Length /\ Length \in Nat /\ Length >= 1
  BY <1>0, <1>1, BytesNow, Constants
<1>4. \A i \in 1 .. Length - 1 : Load[i] \in Byte
  BY <1>3
<1>5. /\ SubSeq(Load, 1, Length - 1) \in Seq(Byte)
      /\ Len(SubSeq(Load, 1, Length - 1)) = Length - 1
      /\ \A i \in 1 .. Length - 1 : SubSeq(Load, 1, Length - 1)[i] = Load[i]
  <2> DEFINE t == SubSeq(Load, 1, Length - 1)
  <2>1. 1 \in Int /\ Length - 1 \in Int
    BY <1>3
  <2>2. /\ t \in Seq(Byte)
        /\ Len(t) = IF 1 <= Length - 1 THEN Length - 1 - 1 + 1 ELSE 0
        /\ \A i \in 1 .. Length - 1 - 1 + 1 : t[i] = Load[1 + i - 1]
    BY <1>4, <2>1, SubSeqProperties
  <2>3. Length - 1 - 1 + 1 = Length - 1 /\ \A i \in 1 .. Length - 1 : 1 + i - 1 = i
    BY <1>3
  <2> HIDE DEF t
  <2>4. Len(t) = Length - 1
    BY <1>3, <2>2
  <2>5. \A i \in 1 .. Length - 1 : t[i] = Load[i]
    BY <2>2, <2>3
  <2> QED
    BY <2>2, <2>4, <2>5 DEF t
<1>6. Load' = SubSeq(Load, 1, Length - 1)
  BY <1>2, <1>5, SeqEqual
<1> QED
  BY <1>3, <1>6

LEMMA SetValue ==
  ASSUME Good(header, data), NEW i \in Index, NEW b \in Byte, i < Length,
         IF IsLong THEN Write(header, [data EXCEPT ![i] = b])
         ELSE Write([header EXCEPT !.inline[i] = b], data)
  PROVE  i \in 0 .. Len(Load) - 1 /\ Load' = [Load EXCEPT ![i + 1] = b]
<1>0. /\ Good(header', data') /\ Length \in 0 .. MaxLen /\ Length \in Nat
      /\ i \in Nat /\ i + 1 \in 1 .. Length
  <2>1. Length \in 0 .. MaxLen /\ i \in 0 .. MaxLen
    BY BytesNow DEF Index
  <2>2. Length \in Nat /\ i \in Nat /\ i + 1 \in 1 .. Length
    BY <2>1, Constants
  <2> QED
    BY <2>1, <2>2, SetGood
<1>1. Load \in Seq(Byte) /\ Len(Load) = Length
  BY BytesNow
<1>2. /\ Load' \in Seq(Byte) /\ Len(Load') = Length
      /\ \A j \in 1 .. Length : Load'[j] = IF j = i + 1 THEN b ELSE Load[j]
  <2>1. CASE IsLong
    <3>1. header' = header /\ data' = [data EXCEPT ![i] = b]
      BY <2>1 DEF Write
    <3>2. header'.tail = 2 * Length + 1
      BY <2>1, <3>1, GoodStorage
    <3>3. ASSUME NEW j \in 1 .. Length
          PROVE  data'[j - 1] = IF j = i + 1 THEN b ELSE Load[j]
      <4>1. j - 1 \in DataIndex /\ Load[j] = data[j - 1] /\ (j - 1 = i <=> j = i + 1)
        BY <1>0, <2>1, BytesNow
      <4> QED
        BY <3>1, <4>1, GoodStorage
    <3> QED
      BY <1>0, <3>2, <3>3, BytesThenLong
  <2>2. CASE ~IsLong
    <3> DEFINE bytes == [header.inline EXCEPT ![i] = b]
    <3>1. header' = ShortHeader(bytes, Length)
      BY <2>2, GoodStorage DEF Write, ShortHeader
    <3>2. ASSUME NEW j \in 1 .. Length
          PROVE  bytes[j - 1] = IF j = i + 1 THEN b ELSE Load[j]
      <4>1. j - 1 \in InlineIndex /\ Load[j] = header.inline[j - 1] /\ (j - 1 = i <=> j = i + 1)
        BY <1>0, <2>2, BytesNow
      <4> QED
        BY <4>1, GoodStorage
    <3> HIDE DEF bytes
    <3> QED
      BY <1>0, <3>1, <3>2, BytesThenShort
  <2> QED
    BY <2>1, <2>2
<1>3. /\ [Load EXCEPT ![i + 1] = b] \in Seq(Byte)
      /\ Len([Load EXCEPT ![i + 1] = b]) = Length
      /\ \A j \in 1 .. Length : [Load EXCEPT ![i + 1] = b][j] = IF j = i + 1 THEN b ELSE Load[j]
  BY <1>0, <1>1, ExceptSeq
<1> QED
  BY <1>0, <1>1, <1>2, <1>3, SeqEqual

LEMMA ClearValue ==
  ASSUME Good(header, data), ClearStr
  PROVE  Load' = <<>>
<1>1. header' = ShortHeader(NoInline, 0) /\ 0 \in 0 .. MaxLen
  BY Constants DEF ClearStr, Write
<1>2. Load' \in Seq(Byte) /\ Len(Load') = 0
  BY <1>1, ClearGood, BytesThenShort
<1> QED
  BY <1>2, EmptySeq

LEMMA StoreValue ==
  ASSUME Good(header, data), NEW v \in Sources, NEW junk \in Byte, StoreStrMem(v, junk)
  PROVE  Load' = v
<1>0. /\ Good(header', data') /\ v \in Seq(Byte) /\ Len(v) \in 0 .. MaxLen /\ Len(v) \in Nat
  BY StoreGood, SourceFacts, Constants
<1>1. \A i \in 1 .. Len(v) : i - 1 \in Nat /\ Masked(v, i - 1, junk) = v[i]
  BY <1>0 DEF Masked, SourceByte
<1>2. /\ Load' \in Seq(Byte) /\ Len(Load') = Len(v)
      /\ \A i \in 1 .. Len(v) : Load'[i] = v[i]
  <2>1. CASE StoreInline(v, junk)
    <3> DEFINE bytes == [k \in InlineIndex |-> Masked(v, k, junk)]
    <3>1. Len(v) < W /\ header' = ShortHeader(bytes, Len(v))
      BY <2>1 DEF StoreInline, Write
    <3>2. \A i \in 1 .. Len(v) : i - 1 \in InlineIndex
      BY <1>0, <3>1, Constants DEF InlineIndex
    <3>3. \A i \in 1 .. Len(v) : bytes[i - 1] = v[i]
      BY <1>1, <3>2
    <3> HIDE DEF bytes
    <3> QED
      BY <1>0, <3>1, <3>3, BytesThenShort
  <2>2. CASE StoreData(v, junk)
    <3>1. header'.tail = 2 * Len(v) + 1
      BY <2>2 DEF StoreData, Write, LongHeader
    <3>2. data' = [k \in DataIndex |->
                     IF k < RoundUp(Len(v)) THEN Masked(v, k, junk)
                     ELSE IF k < OldEnd THEN 0 ELSE data[k]]
      BY <2>2 DEF StoreData, Write
    <3>3. \A i \in 1 .. Len(v) : i - 1 \in DataIndex /\ i - 1 < RoundUp(Len(v))
      <4>1. RoundUp(Len(v)) \in Nat /\ RoundUp(Len(v)) >= Len(v)
        BY <1>0, RoundUpCovers
      <4> QED
        BY <1>0, <4>1, DataCovers, Constants DEF DataIndex
    <3>4. \A i \in 1 .. Len(v) : data'[i - 1] = v[i]
      BY <1>1, <3>2, <3>3
    <3> QED
      BY <1>0, <3>1, <3>4, BytesThenLong
  <2> QED
    BY <2>1, <2>2 DEF StoreStrMem
<1> QED
  BY <1>0, <1>2, SeqEqual

LEMMA FoundFacts ==
  ASSUME IInv
  PROVE  /\ Found = <<>> <=> reading = <<>>
         /\ reading # <<>> => Found[1] = LoadStr(reading[1].header, reading[1].data)
<1>1. reading \in Seq(Reads) /\ Len(reading) \in Nat
  BY DEF IInv
<1>2. DOMAIN Found = 1 .. Len(reading)
  BY DEF Found
<1>3. CASE reading = <<>>
  <2>1. Len(reading) = 0
    BY <1>3
  <2>2. Found = <<>>
    BY <2>1 DEF Found
  <2> QED
    BY <1>3, <2>2
<1>4. CASE reading # <<>>
  <2>1. 1 \in 1 .. Len(reading)
    BY <1>1, <1>4, EmptySeq
  <2>2. Found # <<>>
    BY <1>2, <2>1
  <2>3. Found[1] = LoadStr(reading[1].header, reading[1].data)
    BY <2>1 DEF Found
  <2> QED
    BY <1>4, <2>2, <2>3
<1> QED
  BY <1>3, <1>4

\* What a panic gives back is the value the call found.
LEMMA RevertValue ==
  ASSUME IInv, NEW panic, Revert(panic)
  PROVE  /\ Load' = IF Found = <<>> THEN Load ELSE Found[1]
         /\ Found' = <<>>
         /\ last' = panic
<1>1. last' = panic /\ reading' = <<>>
  BY DEF Revert
<1>2. Len(reading') = 0
  BY <1>1
<1>3. Found' = <<>>
  BY <1>2 DEF Found
<1>4. CASE reading = <<>>
  <2>1. header' = header /\ data' = data
    BY <1>4 DEF Revert, storage
  <2> QED
    BY <1>1, <1>3, <1>4, <2>1, FoundFacts DEF Load
<1>5. CASE reading # <<>>
  <2>1. header' = reading[1].header /\ data' = reading[1].data
    BY <1>5 DEF Revert
  <2>2. Load' = LoadStr(reading[1].header, reading[1].data)
    BY <2>1 DEF Load
  <2> QED
    BY <1>1, <1>3, <1>5, <2>2, FoundFacts
<1> QED
  BY <1>4, <1>5

LEMMA StepRefines == IInv /\ [Next]_vars => [Bytes!Next]_(Bytes!vars)
<1> SUFFICES ASSUME IInv, [Next]_vars PROVE [Bytes!Next]_(Bytes!vars)
  OBVIOUS
<1>0. Good(header, data)
  BY DEF IInv
<1>1. ASSUME NEW b \in Byte, StrPush(b) PROVE Bytes!Next
  <2>1. last' = Did("push", 0, b, <<>>) /\ reading' = reading
    BY <1>1 DEF StrPush, PushInline, PushOut, PushData, Write
  <2>2. Load' = Append(Load, b) /\ Found' = Found
    BY <1>0, <1>1, <2>1, PushValue DEF Found
  <2> QED
    BY <2>1, <2>2 DEF Bytes!Next, Bytes!Push, Bytes!Did, Did
<1>2. ASSUME NEW b \in Byte, NEW i \in Index, StrByteSet(i, b) PROVE Bytes!Next
  <2>1. CASE i >= Length /\ Revert(NoByteToSet(i))
    <3>1. i >= Len(Load)
      BY <1>0, <2>1, BytesNow
    <3>2. Bytes!Revert(NoByteToSet(i))
      BY <2>1, RevertValue DEF Bytes!Revert
    <3>3. NoByteToSet(i) = Bytes!Did("no byte to set", i, 0, <<>>)
      BY DEF NoByteToSet, Bytes!Did, Did
    <3>4. Bytes!NoByteToSet
      BY <3>1, <3>2, <3>3 DEF Bytes!NoByteToSet
    <3> QED
      BY <3>4 DEF Bytes!Next
  <2>2. CASE /\ i < Length
             /\ IF IsLong THEN Write(header, [data EXCEPT ![i] = b])
                ELSE Write([header EXCEPT !.inline[i] = b], data)
             /\ last' = Did("set", i, b, <<>>)
    <3>1. i \in 0 .. Len(Load) - 1 /\ Load' = [Load EXCEPT ![i + 1] = b]
      BY <1>0, <2>2, SetValue
    <3>2. reading' = reading
      BY <2>2 DEF Write
    <3>3. Found' = Found
      BY <3>2 DEF Found
    <3> QED
      BY <2>2, <3>1, <3>3 DEF Bytes!Next, Bytes!Set, Bytes!Did, Did
  <2> QED
    BY <1>2, <2>1, <2>2 DEF StrByteSet
<1>3. ASSUME StrPop PROVE Bytes!Next
  <2>1. CASE PopEmpty
    <3>1. Length = 0 /\ Revert(EmptyPop)
      BY <2>1 DEF PopEmpty
    <3>2. Load = <<>>
      BY <1>0, <3>1, BytesNow, EmptySeq
    <3> QED
      BY <3>1, <3>2, RevertValue
      DEF Bytes!Next, Bytes!EmptyPop, Bytes!Revert, Bytes!Did, EmptyPop, Did
  <2>2. CASE (PopInline \/ PopIn \/ PopData) /\ last' = Did("pop", 0, 0, <<>>)
    <3>1. Load # <<>> /\ Load' = SubSeq(Load, 1, Len(Load) - 1)
      BY <1>0, <2>2, PopValue
    <3>2. reading' = reading
      BY <2>2 DEF PopInline, PopIn, PopData, Write
    <3>3. Found' = Found
      BY <3>2 DEF Found
    <3> QED
      BY <2>2, <3>1, <3>3 DEF Bytes!Next, Bytes!Pop, Bytes!Did, Did
  <2> QED
    BY <1>3, <2>1, <2>2 DEF StrPop
<1>4. ASSUME ClearStr PROVE Bytes!Next
  <2>1. last' = Did("clear", 0, 0, <<>>) /\ reading' = reading
    BY <1>4 DEF ClearStr, Write
  <2>2. Load' = <<>> /\ Found' = Found
    BY <1>0, <1>4, <2>1, ClearValue DEF Found
  <2> QED
    BY <2>1, <2>2 DEF Bytes!Next, Bytes!Clear, Bytes!Did, Did
<1>5. ASSUME NEW v \in Sources, NEW junk \in Byte, StoreStrMem(v, junk) PROVE Bytes!Next
  <2>1. last' = Did("assign", 0, 0, v) /\ reading' = reading
    BY <1>5 DEF StoreStrMem, StoreInline, StoreData, Write
  <2>2. Load' = v /\ Found' = Found
    BY <1>0, <1>5, <2>1, StoreValue DEF Found
  <2> QED
    BY <2>1, <2>2 DEF Bytes!Next, Bytes!Assign, Bytes!Did, Did
<1>6. ASSUME StartRead PROVE Bytes!Next
  <2> DEFINE r == [len |-> Length, header |-> header, data |-> data]
  <2>1. /\ reading = <<>> /\ reading' = <<r>> /\ header' = header /\ data' = data
        /\ last' = Did("start", 0, 0, <<>>)
    BY <1>6 DEF StartRead, storage
  <2>2. Found = <<>>
    BY <2>1, FoundFacts
  <2>3. Load' = Load
    BY <2>1 DEF Load
  <2>4. IInv'
    BY <1>6, StartReadInv
  <2>5. Len(reading') = 1 /\ reading'[1] = r /\ LoadStr(r.header, r.data) = Load
    BY <2>1 DEF Load
  <2> HIDE DEF r
  <2>6. Found' = [k \in 1 .. 1 |-> Load]
    BY <2>5 DEF Found
  <2>7. [k \in 1 .. 1 |-> Load] = <<Load>>
    OBVIOUS
  <2>8. Found' = <<Load>>
    BY <2>6, <2>7
  <2> QED
    BY <2>1, <2>2, <2>3, <2>8 DEF Bytes!Next, Bytes!StartRead, Bytes!Did, Did
<1>7. ASSUME NEW i \in Index, FinishRead(i) PROVE Bytes!Next
  <2>1. Found # <<>>
    BY <1>7, FoundFacts DEF FinishRead
  <2>2. CASE i < reading[1].len
    <3>1. /\ last' = Answer(i, ByteAt(i)) /\ reading' = <<>>
          /\ header' = header /\ data' = data
      BY <1>7, <2>2 DEF FinishRead, storage
    <3>2. Load' = Load /\ Len(reading') = 0
      BY <3>1 DEF Load
    <3>3. Found' = <<>>
      BY <3>2 DEF Found
    <3>4. last'.op = "byte"
      BY <3>1 DEF Answer, Did
    <3> QED
      BY <2>1, <3>2, <3>3, <3>4 DEF Bytes!Next, Bytes!FinishRead
  <2>3. CASE ~(i < reading[1].len)
    <3>1. Revert(NoByteToRead(i))
      BY <1>7, <2>3 DEF FinishRead
    <3>2. last'.op = "no byte to read"
      BY <3>1 DEF Revert, NoByteToRead, Did
    <3> QED
      BY <2>1, <3>1, <3>2, RevertValue DEF Bytes!Next, Bytes!FinishRead, Bytes!Revert
  <2> QED
    BY <2>2, <2>3
<1>8. ASSUME UNCHANGED vars PROVE UNCHANGED Bytes!vars
  BY <1>8 DEF vars, Bytes!vars, Load, Found
<1> QED
  BY <1>1, <1>2, <1>3, <1>4, <1>5, <1>6, <1>7, <1>8 DEF Next

\* The inline and long layout is a sequence of bytes: pushes, pops, byte
\* writes, clears, assignments and panics do to it what ByteString says, for
\* any word size and any values.
THEOREM SpecKeepsByteString == Spec => KeepsByteString
<1>1. Init => Bytes!Init
  <2> SUFFICES ASSUME Init PROVE Bytes!Init
    OBVIOUS
  <2>1. IInv /\ header = ShortHeader(NoInline, 0) /\ reading = <<>>
    BY InitInv DEF Init
  <2>2. Length = 0
    BY <2>1, ShortForm DEF Length
  <2>3. Load = <<>>
    BY <2>1, <2>2, BytesNow, EmptySeq DEF IInv
  <2>4. Found = <<>>
    BY <2>1, FoundFacts
  <2> QED
    BY <2>3, <2>4 DEF Init, Bytes!Init, Bytes!Did, Did
<1> QED
  BY <1>1, StepRefines, SpecInv, PTL DEF Spec, KeepsByteString, Bytes!Spec
-----------------------------------------------------------------------------
(* CalldataSlices.                                                           *)

Assumptions == WordsAssumption /\ TypesAssumption /\ InputsAssumption

Kinds == {"start", "array", "bytes", "table", "tuple", "static", "header", "revert", "panic"}
Values == [kind : Kinds, ptr : Words, len : 0 .. Cap, type : DOMAIN Types]

\* The bytes an element of a value of this kind and type takes.
Width(kind, t) == IF kind = "bytes" THEN 1 ELSE Stride(Types[t].elem)

\* CalldataIsBounded of a value: what every decoder that does not revert has
\* to establish.
Inside(v) == v.kind \in {"bytes", "array"} /\ v.len > 0 =>
                 v.ptr + v.len * Width(v.kind, v.type) <= size
Readable(v) == v.kind = "tuple" => Negative(v.ptr) \/ v.ptr + Types[v.type].head <= size
GoodValue(v) == v \in Values /\ Inside(v) /\ Readable(v)

-----------------------------------------------------------------------------
(* Words, types and products.                                                *)

LEMMA Bounds ==
  ASSUME WordsAssumption
  PROVE  /\ Half \in Nat /\ Cap \in Nat /\ WordSize \in Nat /\ WordSize >= 1 /\ Selector \in Nat
         /\ MaxHead \in Nat /\ WordSize <= MaxHead /\ M = 2 * Half
         /\ Selector + 4 * Cap + 2 * MaxHead + 2 * WordSize < Half
BY DEF WordsAssumption, M

LEMMA ConstantWords ==
  ASSUME WordsAssumption
  PROVE  WordSize \in Words /\ Selector \in Words
BY Bounds DEF Words

LEMMA AddIsWord ==
  ASSUME WordsAssumption, NEW x \in Words, NEW y \in Words
  PROVE  Add(x, y) \in Words
BY Bounds DEF Words, Add

\* A capped length times a stride is a natural number far below the sign bit.
LEMMA Product ==
  ASSUME WordsAssumption, NEW len \in 0 .. Cap, NEW stride \in 0 .. MaxHead
  PROVE  /\ len * stride \in Nat
         /\ Selector + 2 * Cap + 2 * WordSize + len * stride < Half
<1>1. len \in Nat /\ stride \in Nat
  BY Bounds
<1>2. len * stride \in Nat
  BY <1>1
<1> QED
  BY <1>2 DEF WordsAssumption

LEMMA ProductGrows ==
  ASSUME NEW a \in Nat, NEW b \in Nat, NEW s \in Nat, a <= b
  PROVE  a * s <= b * s
OBVIOUS

LEMMA ProductSplits ==
  ASSUME NEW a \in Nat, NEW b \in Nat, NEW s \in Nat, a <= b
  PROVE  a * s + (b - a) * s = b * s
OBVIOUS

LEMMA NextProduct ==
  ASSUME NEW a \in Nat, NEW s \in Nat
  PROVE  (a + 1) * s = a * s + s
OBVIOUS

LEMMA TypeFacts ==
  ASSUME WordsAssumption, TypesAssumption, NEW t \in DOMAIN Types
  PROVE  /\ Types[t].head \in 0 .. MaxHead /\ Types[t].n \in 0 .. Cap
         /\ Types[t].elem \in DOMAIN Types
         /\ Types[t].kind \in {"value", "bytes", "list", "fixed", "struct"}
         /\ Stride(t) \in 0 .. MaxHead /\ HeadBytes(t) \in 0 .. MaxHead
<1>1. Types[t] \in TypeRecord
  BY DEF TypesAssumption
<1> QED
  BY <1>1, Bounds DEF TypeRecord, Stride, HeadBytes, Dynamic

LEMMA WidthFacts ==
  ASSUME WordsAssumption, TypesAssumption, NEW t \in DOMAIN Types, NEW kind
  PROVE  Width(kind, t) \in 0 .. MaxHead
BY TypeFacts, Bounds DEF Width

LEMMA ItemOf ==
  ASSUME NEW S, NEW s \in Seq(S), NEW k \in 1 .. Len(s)
  PROVE  s[k] \in S
OBVIOUS

LEMMA FieldFacts ==
  ASSUME TypesAssumption, WordsAssumption, NEW t \in DOMAIN Types, NEW f \in FieldsOf(t)
  PROVE  f.type \in DOMAIN Types /\ f.at \in 0 .. MaxHead /\ f.at \in Words
<1>1. Types[t] \in TypeRecord
  BY DEF TypesAssumption
<1>2. Types[t].fields \in Seq([type : DOMAIN Types, at : 0 .. MaxHead])
  BY <1>1 DEF TypeRecord
<1>3. PICK k \in 1 .. Len(Types[t].fields) : f = Types[t].fields[k]
  BY DEF FieldsOf
<1>4. f \in [type : DOMAIN Types, at : 0 .. MaxHead]
  BY <1>2, <1>3, ItemOf
<1> QED
  BY <1>4, Bounds DEF Words

LEMMA ReadFacts ==
  ASSUME Assumptions, size \in 0 .. Cap, NEW a \in Words
  PROVE  /\ OffsetAt(a) \subseteq Words
         /\ LengthAt(a) \subseteq Words
         /\ \A len \in LengthAt(a) : len > 0 => a < size
BY Bounds DEF Assumptions, InputsAssumption, OffsetAt, LengthAt, Words

-----------------------------------------------------------------------------
(* GoodValue values.                                                              *)

LEMMA ValueTyped ==
  ASSUME NEW kind \in Kinds, NEW ptr \in Words, NEW len \in 0 .. Cap, NEW t \in DOMAIN Types
  PROVE  /\ Value(kind, ptr, len, t) \in Values
         /\ Value(kind, ptr, len, t).kind = kind /\ Value(kind, ptr, len, t).ptr = ptr
         /\ Value(kind, ptr, len, t).len = len /\ Value(kind, ptr, len, t).type = t
BY DEF Value, Values

LEMMA SliceGood ==
  ASSUME NEW kind \in {"bytes", "array"}, NEW ptr \in Words, NEW len \in 0 .. Cap,
         NEW t \in DOMAIN Types, len > 0 => ptr + len * Width(kind, t) <= size
  PROVE  GoodValue(Value(kind, ptr, len, t))
<1> kind \in Kinds
  BY DEF Kinds
<1> DEFINE v == Value(kind, ptr, len, t)
<1>1. v \in Values /\ v.kind = kind /\ v.ptr = ptr /\ v.len = len /\ v.type = t
  BY ValueTyped
<1> HIDE DEF v
<1>2. GoodValue(v)
  BY <1>1 DEF GoodValue, Inside, Readable
<1> QED
  BY <1>2 DEF v

LEMMA TupleGood ==
  ASSUME WordsAssumption, NEW ptr \in Words, NEW t \in DOMAIN Types,
         Negative(ptr) \/ ptr + Types[t].head <= size
  PROVE  GoodValue(Value("tuple", ptr, 0, t))
<1> DEFINE v == Value("tuple", ptr, 0, t)
<1>1. v \in Values /\ v.kind = "tuple" /\ v.ptr = ptr /\ v.type = t
  BY ValueTyped, Bounds DEF Kinds
<1> HIDE DEF v
<1>2. GoodValue(v)
  BY <1>1 DEF GoodValue, Inside, Readable
<1> QED
  BY <1>2 DEF v

LEMMA OtherGood ==
  ASSUME NEW kind \in Kinds \ {"bytes", "array", "tuple"}, NEW ptr \in Words,
         NEW len \in 0 .. Cap, NEW t \in DOMAIN Types
  PROVE  GoodValue(Value(kind, ptr, len, t))
<1> DEFINE v == Value(kind, ptr, len, t)
<1>1. v \in Values /\ v.kind = kind
  BY ValueTyped
<1> HIDE DEF v
<1>2. GoodValue(v)
  BY <1>1 DEF GoodValue, Inside, Readable
<1> QED
  BY <1>2 DEF v

LEMMA EndsGood ==
  ASSUME WordsAssumption, TypesAssumption
  PROVE  GoodValue(Start) /\ GoodValue(Refused) /\ GoodValue(Panic)
<1> DEFINE t0 == CHOOSE t \in DOMAIN Types : TRUE
<1>1. t0 \in DOMAIN Types /\ 0 \in Words /\ 0 \in 0 .. Cap /\ 0 < Half
  BY Bounds DEF TypesAssumption, Words, WordsAssumption
<1>2. /\ Start = Value("start", 0, 0, t0)
      /\ Refused = Value("revert", 0, 0, t0)
      /\ Panic = Value("panic", 0, 0, t0)
  <2>1. Start = [kind |-> "start", ptr |-> 0, len |-> 0, type |-> t0]
    BY DEF Start, Value
  <2> HIDE DEF t0
  <2>2. /\ Refused = [kind |-> "revert", ptr |-> 0, len |-> 0, type |-> t0]
        /\ Panic = [kind |-> "panic", ptr |-> 0, len |-> 0, type |-> t0]
    BY <2>1 DEF Refused, Panic
  <2> QED
    BY <2>1, <2>2 DEF Value
<1> HIDE DEF t0
<1> QED
  BY <1>1, <1>2, OtherGood DEF Kinds

\* A step to a good value leaves the program inside calldata.
LEMMA Reached ==
  ASSUME NEW v, GoodValue(v), at' = v, UNCHANGED size, size \in 0 .. Cap
  PROVE  CalldataIsBounded'
<1>1. at' = v /\ size' = size
  OBVIOUS
<1>2. SliceTypeOK'
  BY <1>1 DEF SliceTypeOK, GoodValue, Values, Kinds
<1>3. SliceInCalldata'
  BY <1>1 DEF SliceInCalldata, GoodValue, Inside, Width, ByteLen, Elem
<1>4. TupleReadable'
  BY <1>1 DEF TupleReadable, GoodValue, Readable
<1> QED
  BY <1>2, <1>3, <1>4 DEF CalldataIsBounded

LEMMA StandsGood ==
  ASSUME CalldataIsBounded
  PROVE  GoodValue(at) /\ size \in 0 .. Cap
BY DEF CalldataIsBounded, SliceTypeOK, SliceInCalldata, TupleReadable, GoodValue, Values, Kinds, Inside,
       Readable, Width, ByteLen, Elem

-----------------------------------------------------------------------------
(* The decoders: whatever words they read, they revert or find a good value. *)
(* A length that is not zero was read inside calldata, so nothing after the  *)
(* length word's address wraps.                                              *)

LEMMA EagerArrayGood ==
  ASSUME Assumptions, size \in 0 .. Cap, NEW p \in Words, NEW len \in Words, NEW t \in DOMAIN Types,
         NEW stride \in 0 .. MaxHead, stride = Stride(Types[t].elem), len > 0 => p < size
  PROVE  GoodValue(EagerArray(p, len, stride, t))
<1> USE DEF Assumptions
<1>1. CASE EagerArray(p, len, stride, t) = Refused
  BY <1>1, EndsGood
<1>2. CASE EagerArray(p, len, stride, t) # Refused
  <2>1. /\ len <= Cap
        /\ ~(Add(Add(p, WordSize), len * stride) > size)
        /\ EagerArray(p, len, stride, t) = Value("array", Add(p, WordSize), len, t)
    BY <1>2, Bounds DEF EagerArray, Words
  <2>2. len \in 0 .. Cap
    BY <2>1, Bounds DEF Words
  <2> DEFINE room == len * stride
  <2>3. room \in Nat /\ Selector + 2 * Cap + 2 * WordSize + room < Half
    BY <2>2, Product
  <2>4. len > 0 => Add(p, WordSize) + room <= size
    <3> HIDE DEF room
    <3>1. ~(Add(Add(p, WordSize), room) > size)
      BY <2>1 DEF room
    <3> QED
      BY <3>1, <2>3, Bounds DEF Add, Words
  <2>5. Add(p, WordSize) \in Words
    BY AddIsWord, ConstantWords
  <2>6. Width("array", t) = stride
    BY DEF Width
  <2> QED
    BY <2>1, <2>2, <2>4, <2>5, <2>6, SliceGood
<1> QED
  BY <1>1, <1>2

LEMMA LazyTailGood ==
  ASSUME Assumptions, size \in 0 .. Cap, NEW base \in Words, NEW off \in Words,
         NEW len \in LengthAt(Add(base, off)), NEW t \in DOMAIN Types,
         NEW kind \in {"bytes", "array"}, NEW stride, stride = Width(kind, t)
  PROVE  GoodValue(LazyTail(base, off, len, stride, kind, t))
<1> USE DEF Assumptions
<1> DEFINE lenPtr == Add(base, off)
<1>1. lenPtr \in Words
  BY AddIsWord
<1>2. len \in Words /\ (len > 0 => lenPtr < size)
  BY <1>1, ReadFacts
<1>3. CASE LazyTail(base, off, len, stride, kind, t) = Refused
  BY <1>3, EndsGood
<1>4. CASE LazyTail(base, off, len, stride, kind, t) # Refused
  <2>1. /\ len <= Cap
        /\ ~Sgt(lenPtr, Sub(size, len * stride + WordSize))
        /\ LazyTail(base, off, len, stride, kind, t) = Value(kind, Add(lenPtr, WordSize), len, t)
    BY <1>4, <1>2, Bounds DEF LazyTail, Words
  <2>2. len \in 0 .. Cap /\ stride \in 0 .. MaxHead
    BY <2>1, <1>2, Bounds, WidthFacts DEF Words
  <2> DEFINE room == len * stride
  <2>3. room \in Nat /\ Selector + 2 * Cap + 2 * WordSize + room < Half
    BY <2>2, Product
  <2> HIDE DEF lenPtr
  <2>4. len > 0 => Add(lenPtr, WordSize) + room <= size
    <3>1. ~Sgt(lenPtr, Sub(size, room + WordSize))
      BY <2>1
    <3> HIDE DEF room
    <3> QED
      BY <3>1, <2>3, <1>1, <1>2, Bounds DEF Add, Sub, Sgt, Slt, Signed, Words
  <2>5. Add(lenPtr, WordSize) \in Words
    BY <1>1, AddIsWord, ConstantWords
  <2> QED
    BY <2>1, <2>2, <2>4, <2>5, SliceGood
<1> QED
  BY <1>3, <1>4

LEMMA EchoCopyGood ==
  ASSUME Assumptions, size \in 0 .. Cap, NEW lenPtr \in Words,
         NEW len \in LengthAt(lenPtr), NEW t \in DOMAIN Types,
         NEW kind \in {"bytes", "array"}, NEW stride, stride = Width(kind, t),
         NEW cursor \in 0 .. Cap, NEW oversized, GoodValue(oversized)
  PROVE  GoodValue(EchoCopy(lenPtr, len, stride, cursor, oversized, kind, t))
<1> USE DEF Assumptions
<1>1. len \in Words /\ (len > 0 => lenPtr < size)
  BY ReadFacts
<1>2. CASE EchoCopy(lenPtr, len, stride, cursor, oversized, kind, t) \in {Refused, oversized}
  BY <1>2, EndsGood
<1>3. CASE ~(EchoCopy(lenPtr, len, stride, cursor, oversized, kind, t) \in {Refused, oversized})
  <2>1. /\ ~(len > Cap)
        /\ ~(Add(Add(lenPtr, WordSize), len * stride) > size)
        /\ EchoCopy(lenPtr, len, stride, cursor, oversized, kind, t)
             = Value(kind, Add(lenPtr, WordSize), len, t)
    <3> HIDE DEF Assumptions
    <3> QED
      BY <1>3 DEF EchoCopy
  <2>2. len \in 0 .. Cap /\ stride \in 0 .. MaxHead
    BY <2>1, <1>1, Bounds, WidthFacts DEF Words
  <2> DEFINE room == len * stride
  <2>3. room \in Nat /\ Selector + 2 * Cap + 2 * WordSize + room < Half
    BY <2>2, Product
  <2>4. len > 0 => Add(lenPtr, WordSize) + room <= size
    <3>1. ~(Add(Add(lenPtr, WordSize), room) > size)
      BY <2>1
    <3> HIDE DEF room
    <3> QED
      BY <3>1, <2>3, <1>1, Bounds DEF Add, Words
  <2>5. Add(lenPtr, WordSize) \in Words
    BY AddIsWord, ConstantWords
  <2> QED
    BY <2>1, <2>2, <2>4, <2>5, SliceGood
<1> QED
  BY <1>2, <1>3

\* The unsigned decoders of tuples: an offset below the cap either stays below
\* zero with its base or comes out above it without wrapping again.
LEMMA CappedTuple ==
  ASSUME WordsAssumption, size \in 0 .. Cap, NEW base \in Words, NEW off \in Words,
         NEW head \in 0 .. MaxHead, off <= Cap, ~(Add(Add(base, off), head) > size)
  PROVE  Negative(Add(base, off)) \/ Add(base, off) + head <= size
BY Bounds DEF Add, Words, Negative

LEMMA CalldataTupleGood ==
  ASSUME Assumptions, size \in 0 .. Cap, NEW off \in Words, NEW t \in DOMAIN Types
  PROVE  GoodValue(CalldataTuple(off, t))
<1> USE DEF Assumptions
<1>1. Selector \in Words /\ Types[t].head \in 0 .. MaxHead
  BY Bounds, TypeFacts DEF Words
<1>2. Add(Selector, off) \in Words
  BY <1>1, AddIsWord
<1>3. CASE CalldataTuple(off, t) = Refused
  BY <1>3, EndsGood
<1>4. CASE CalldataTuple(off, t) # Refused
  <2>1. /\ ~(off > Cap) /\ ~(Add(Add(Selector, off), Types[t].head) > size)
        /\ CalldataTuple(off, t) = Value("tuple", Add(Selector, off), 0, t)
    <3> HIDE DEF Assumptions
    <3> QED
      BY <1>4 DEF CalldataTuple
  <2>2. off <= Cap
    BY <2>1, Bounds DEF Words
  <2> QED
    BY <2>1, <2>2, <1>1, <1>2, CappedTuple, TupleGood
<1> QED
  BY <1>3, <1>4

LEMMA CalldataTupleAtGood ==
  ASSUME Assumptions, size \in 0 .. Cap, NEW base \in Words, NEW off \in Words, NEW offPtr,
         NEW t \in DOMAIN Types
  PROVE  GoodValue(CalldataTupleAt(base, offPtr, off, t))
<1> USE DEF Assumptions
<1>1. Types[t].head \in 0 .. MaxHead /\ Add(base, off) \in Words
  BY TypeFacts, AddIsWord
<1>2. CASE CalldataTupleAt(base, offPtr, off, t) = Refused
  BY <1>2, EndsGood
<1>3. CASE CalldataTupleAt(base, offPtr, off, t) # Refused
  <2>1. /\ ~(off > Cap) /\ ~(Add(Add(base, off), Types[t].head) > size)
        /\ CalldataTupleAt(base, offPtr, off, t) = Value("tuple", Add(base, off), 0, t)
    <3> HIDE DEF Assumptions
    <3> QED
      BY <1>3 DEF CalldataTupleAt
  <2>2. off <= Cap
    BY <2>1, Bounds DEF Words
  <2> QED
    BY <2>1, <2>2, <1>1, CappedTuple, TupleGood
<1> QED
  BY <1>2, <1>3

LEMMA CdArrayElemBaseGood ==
  ASSUME Assumptions, size \in 0 .. Cap, NEW base \in Words, NEW off \in Words, NEW t \in DOMAIN Types
  PROVE  GoodValue(CdArrayElemBase(base, off, t))
<1> USE DEF Assumptions
<1>1. HeadBytes(t) \in 0 .. MaxHead /\ Add(base, off) \in Words /\ 0 \in 0 .. Cap
  BY TypeFacts, AddIsWord, Bounds
<1>2. CASE CdArrayElemBase(base, off, t) = Refused
  BY <1>2, EndsGood
<1>3. CASE CdArrayElemBase(base, off, t) # Refused
  <2>1. /\ ~(off > Cap) /\ ~(Add(Add(base, off), HeadBytes(t)) > size)
        /\ CdArrayElemBase(base, off, t)
             = Value(IF Types[t].kind = "struct" THEN "tuple" ELSE "header", Add(base, off), 0, t)
    <3> HIDE DEF Assumptions
    <3> QED
      BY <1>3 DEF CdArrayElemBase
  <2>2. off <= Cap
    BY <2>1, Bounds DEF Words
  <2>3. CASE Types[t].kind = "struct"
    <3>1. HeadBytes(t) = Types[t].head
      BY <2>3 DEF HeadBytes
    <3> QED
      BY <3>1, <2>3, <2>1, <2>2, <1>1, CappedTuple, TupleGood
  <2>4. CASE Types[t].kind # "struct"
    BY <2>4, <2>1, <1>1, OtherGood DEF Kinds
  <2> QED
    BY <2>3, <2>4
<1> QED
  BY <1>2, <1>3

\* The signed comparison of a lazy tuple: from a base inside calldata, what it
\* lets through is below zero or ends inside calldata.
LEMMA ElementTupleGood ==
  ASSUME Assumptions, size \in 0 .. Cap, NEW base \in Words, NEW off \in Words, NEW t \in DOMAIN Types,
         base <= size
  PROVE  GoodValue(ElementTuple(base, off, t))
<1> USE DEF Assumptions
<1>1. Types[t].head \in 0 .. MaxHead /\ Add(base, off) \in Words
  BY TypeFacts, AddIsWord
<1>2. CASE ElementTuple(base, off, t) = Refused
  BY <1>2, EndsGood
<1>3. CASE ElementTuple(base, off, t) # Refused
  <2> DEFINE head == Types[t].head
  <2>1. /\ Slt(off, Sub(Sub(size, base), head - 1))
        /\ ElementTuple(base, off, t) = Value("tuple", Add(base, off), 0, t)
    <3> HIDE DEF Assumptions
    <3> QED
      BY <1>3 DEF ElementTuple
  <2>2. head \in 0 .. MaxHead
    BY <1>1
  <2> HIDE DEF head
  <2>3. Negative(Add(base, off)) \/ Add(base, off) + head <= size
    BY <2>1, <2>2, Bounds DEF Slt, Signed, Sub, Add, Negative, Words
  <2> QED
    BY <2>1, <2>3, <1>1, TupleGood DEF head
<1> QED
  BY <1>2, <1>3

LEMMA TablesGood ==
  ASSUME Assumptions, size \in 0 .. Cap, NEW base \in Words, NEW off \in Words, NEW t \in DOMAIN Types
  PROVE  GoodValue(CalldataNestedOff(base, off, t)) /\ GoodValue(CalldataFixedField(base, off, t))
<1> USE DEF Assumptions
<1>1. GoodValue(Refused)
  BY EndsGood
<1>2. GoodValue(Value("table", Add(base, off), Types[t].n, t))
  BY TypeFacts, AddIsWord, OtherGood DEF Kinds
<1> QED
  BY <1>1, <1>2 DEF CalldataNestedOff, CalldataFixedField

LEMMA CalldataDynGood ==
  ASSUME Assumptions, size \in 0 .. Cap, NEW off \in Words, NEW len \in Words, NEW t \in DOMAIN Types,
         Selector + WordSize <= size
  PROVE  GoodValue(CalldataDyn(off, len, t))
<1> USE DEF Assumptions
<1>1. CASE CalldataDyn(off, len, t) = Refused
  BY <1>1, EndsGood
<1>2. CASE CalldataDyn(off, len, t) # Refused
  <2> DEFINE args == Sub(size, Selector)
  <2>1. /\ ~(off > Sub(args, WordSize)) /\ ~(len > Sub(Sub(args, off), WordSize))
        /\ CalldataDyn(off, len, t) = Value("bytes", Add(Add(Selector, off), WordSize), len, t)
    <3> HIDE DEF Assumptions
    <3> QED
      BY <1>2 DEF CalldataDyn
  <2>2. len \in 0 .. Cap /\ Add(Add(Selector, off), WordSize) + len <= size
    BY <2>1, Bounds DEF Sub, Add, Words
  <2>3. Add(Add(Selector, off), WordSize) \in Words
    BY AddIsWord, ConstantWords
  <2>4. Width("bytes", t) = 1 /\ len * 1 = len
    BY <2>2, Bounds DEF Width
  <2> QED
    BY <2>1, <2>2, <2>3, <2>4, SliceGood
<1> QED
  BY <1>1, <1>2

LEMMA CalldataDynMemGood ==
  ASSUME Assumptions, size \in 0 .. Cap, NEW off \in Words, NEW len \in LengthAt(Add(Selector, off)),
         NEW t \in DOMAIN Types, NEW free \in 0 .. Cap
  PROVE  GoodValue(CalldataDynMem(off, len, free, t))
<1> USE DEF Assumptions
<1> DEFINE lp == Add(Selector, off)
<1>1. lp \in Words
  BY AddIsWord, ConstantWords
<1>2. len \in Words /\ (len > 0 => lp < size)
  BY <1>1, ReadFacts
<1>3. CASE CalldataDynMem(off, len, free, t) \in {Refused, Panic}
  BY <1>3, EndsGood
<1>4. CASE ~(CalldataDynMem(off, len, free, t) \in {Refused, Panic})
  <2>1. /\ ~(len > Cap) /\ ~(Add(Add(lp, WordSize), len) > size)
        /\ CalldataDynMem(off, len, free, t) = Value("bytes", Add(lp, WordSize), len, t)
    <3> HIDE DEF Assumptions
    <3> QED
      BY <1>4 DEF CalldataDynMem
  <2> HIDE DEF lp
  <2>2. len \in 0 .. Cap /\ (len > 0 => Add(lp, WordSize) + len <= size)
    BY <2>1, <1>1, <1>2, Bounds DEF Add, Words
  <2>3. Add(lp, WordSize) \in Words
    BY <1>1, AddIsWord, ConstantWords
  <2>4. Width("bytes", t) = 1 /\ len * 1 = len
    BY <2>2, Bounds DEF Width
  <2> QED
    BY <2>1, <2>2, <2>3, <2>4, SliceGood
<1> QED
  BY <1>3, <1>4

-----------------------------------------------------------------------------
(* Binding a parameter.                                                      *)

LEMMA DynamicKinds ==
  ASSUME Assumptions, NEW t \in DOMAIN Types, Types[t].dynamic
  PROVE  Types[t].kind \in {"bytes", "list", "fixed", "struct"}
BY TypeFacts DEF Assumptions, TypesAssumption

\* A fixed array of dynamic elements, bound as the array of its offsets.
LEMMA FixedParamGood ==
  ASSUME Assumptions, size \in 0 .. Cap, NEW off \in Words, NEW t \in DOMAIN Types,
         Dynamic(Types[t].elem), ~(off > Cap), ~(Selector + off + Types[t].n * WordSize > size)
  PROVE  GoodValue(Value("array", Selector + off, Types[t].n, t))
<1> USE DEF Assumptions
<1>1. Types[t].n \in 0 .. Cap /\ WordSize \in 0 .. MaxHead
  BY TypeFacts, Bounds
<1> DEFINE room == Types[t].n * WordSize
<1>2. room \in Nat /\ Width("array", t) = WordSize
  BY <1>1, Product DEF Width, Stride
<1>3. Selector + off \in Words
  BY Bounds DEF Words
<1>4. Selector + off + room <= size
  <2>1. ~(Selector + off + room > size)
    OBVIOUS
  <2> HIDE DEF room
  <2> QED
    BY <2>1, <1>2, <1>3, Bounds DEF Words
<1> QED
  BY <1>1, <1>2, <1>3, <1>4, SliceGood

LEMMA BindParamBounded ==
  ASSUME Assumptions, CalldataIsBounded, NEW t \in Params, BindParam(t)
  PROVE  CalldataIsBounded'
<1> USE DEF Assumptions
<1>1. t \in DOMAIN Types /\ size \in 0 .. Cap /\ UNCHANGED size /\ Selector \in Words
  BY StandsGood, ConstantWords DEF TypesAssumption, BindParam
<1> SUFFICES \E v : GoodValue(v) /\ at' = v
  BY <1>1, Reached
<1>2. CASE size < Selector + HeadOf(t)
  BY <1>2, EndsGood DEF BindParam
<1>3. CASE ~(size < Selector + HeadOf(t)) /\ ~Types[t].dynamic
  <2>1. at' = Value("static", Selector, 0, t)
    BY <1>3 DEF BindParam
  <2>2. 0 \in 0 .. Cap
    BY Bounds
  <2> QED
    BY <2>1, <2>2, <1>1, OtherGood DEF Kinds
<1>4. CASE ~(size < Selector + HeadOf(t)) /\ Types[t].dynamic
  <2> DEFINE ty == Types[t]
             e == Types[ty.elem]
  <2>1. PICK off \in Offsets :
          CASE ty.kind = "struct" -> at' = CalldataTuple(off, t)
            [] ty.kind = "fixed" ->
                 at' = IF off > Cap \/ Selector + off + ty.n * WordSize > size THEN Refused
                       ELSE Value("array", Selector + off, ty.n, t)
            [] ty.kind = "list" -> \E len \in LengthAt(Add(Selector, off)) :
                 at' = IF e.dynamic THEN CalldataDynArray(off, len, t)
                       ELSE CalldataArray(off, len, e.head, t)
            [] ty.kind = "bytes" -> \E len \in LengthAt(Add(Selector, off)) :
                 at' = CalldataDyn(off, len, t)
    BY <1>4 DEF BindParam
  <2>2. off \in Words /\ Add(Selector, off) \in Words
    BY <1>1, AddIsWord DEF InputsAssumption
  <2>3. ty.elem \in DOMAIN Types
    BY <1>1, TypeFacts
  <2>4. CASE ty.kind = "struct"
    <3>1. at' = CalldataTuple(off, t)
      BY <2>1, <2>4
    <3> QED
      BY <3>1, <2>2, <1>1, CalldataTupleGood
  <2>5. CASE ty.kind = "fixed"
    <3>1. at' = IF off > Cap \/ Selector + off + ty.n * WordSize > size THEN Refused
                ELSE Value("array", Selector + off, ty.n, t)
      BY <2>1, <2>5
    <3>2. Dynamic(ty.elem)
      BY <2>5, <1>1, <1>4 DEF TypesAssumption, Dynamic
    <3> QED
      BY <3>1, <3>2, <2>2, <1>1, FixedParamGood, EndsGood
  <2>6. CASE ty.kind = "list"
    <3>1. PICK len \in LengthAt(Add(Selector, off)) :
            at' = IF e.dynamic THEN CalldataDynArray(off, len, t)
                  ELSE CalldataArray(off, len, e.head, t)
      BY <2>1, <2>6
    <3>2. len \in Words /\ (len > 0 => Add(Selector, off) < size)
      BY <2>2, <1>1, ReadFacts
    <3>3. Stride(ty.elem) = IF e.dynamic THEN WordSize ELSE e.head
      BY DEF Stride, Dynamic
    <3>4. Stride(ty.elem) \in 0 .. MaxHead
      BY <2>3, TypeFacts
    <3>5. GoodValue(EagerArray(Add(Selector, off), len, Stride(ty.elem), t))
      BY <3>2, <3>4, <2>2, <1>1, EagerArrayGood
    <3> QED
      BY <3>1, <3>3, <3>5, EndsGood DEF CalldataDynArray, CalldataArray
  <2>7. CASE ty.kind = "bytes"
    <3>1. PICK len \in LengthAt(Add(Selector, off)) : at' = CalldataDyn(off, len, t)
      BY <2>1, <2>7
    <3>2. len \in Words
      BY <2>2, <1>1, ReadFacts
    <3>3. Selector + WordSize <= size
      BY <1>1, <1>4, Bounds DEF HeadOf, Dynamic
    <3> QED
      BY <3>1, <3>2, <3>3, <2>2, <1>1, CalldataDynGood
  <2> QED
    BY <2>4, <2>5, <2>6, <2>7, <1>1, <1>4, DynamicKinds
<1> QED
  BY <1>2, <1>3, <1>4

LEMMA BindAdminDataBounded ==
  ASSUME Assumptions, CalldataIsBounded, NEW t \in Params, BindAdminData(t)
  PROVE  CalldataIsBounded'
<1> USE DEF Assumptions
<1>1. t \in DOMAIN Types /\ size \in 0 .. Cap /\ UNCHANGED size /\ Selector \in Words
  BY StandsGood, ConstantWords DEF TypesAssumption, BindAdminData
<1> SUFFICES \E v : GoodValue(v) /\ at' = v
  BY <1>1, Reached
<1>2. PICK off \in Offsets, free \in Cursors : \E len \in LengthAt(Add(Selector, off)) :
        at' = IF size < Selector + 2 * WordSize THEN Refused ELSE CalldataDynMem(off, len, free, t)
  BY DEF BindAdminData
<1>3. PICK len \in LengthAt(Add(Selector, off)) :
        at' = IF size < Selector + 2 * WordSize THEN Refused ELSE CalldataDynMem(off, len, free, t)
  BY <1>2
<1>4. off \in Words /\ free \in 0 .. Cap
  BY DEF InputsAssumption
<1> QED
  BY <1>1, <1>3, <1>4, CalldataDynMemGood, EndsGood

-----------------------------------------------------------------------------
(* Moving on from a good value.                                              *)

LEMMA Stands ==
  ASSUME Assumptions, CalldataIsBounded
  PROVE  /\ size \in 0 .. Cap /\ at.ptr \in Words /\ at.len \in 0 .. Cap
         /\ at.type \in DOMAIN Types /\ Elem \in DOMAIN Types
         /\ at.kind \in Kinds
         /\ Stride(Elem) \in 0 .. MaxHead
<1> USE DEF Assumptions
<1>1. at \in Values /\ size \in 0 .. Cap
  BY StandsGood DEF GoodValue
<1>2. /\ at.ptr \in Words /\ at.len \in 0 .. Cap /\ at.type \in DOMAIN Types /\ at.kind \in Kinds
  BY <1>1 DEF Values
<1>3. Elem \in DOMAIN Types
  BY <1>2, TypeFacts DEF Elem
<1> QED
  BY <1>1, <1>2, <1>3, TypeFacts

\* The elements of an array that is not empty, inline or in its table, are
\* inside calldata.
LEMMA ArrayInside ==
  ASSUME CalldataIsBounded, at.kind = "array", at.len > 0
  PROVE  at.ptr + at.len * Stride(Elem) <= size
BY DEF CalldataIsBounded, SliceInCalldata, ByteLen

\* The place of an element below the length, and its end.
LEMMA ElementPlace ==
  ASSUME Assumptions, CalldataIsBounded, NEW i \in Words, i < at.len
  PROVE  /\ i * Stride(Elem) \in Words
         /\ Add(at.ptr, i * Stride(Elem)) \in Words
         /\ at.kind = "array" => /\ Add(at.ptr, i * Stride(Elem)) = at.ptr + i * Stride(Elem)
                                 /\ at.ptr + i * Stride(Elem) + Stride(Elem) <= size
<1> USE DEF Assumptions
<1> DEFINE stride == Stride(Elem)
           place == i * stride
           all == at.len * stride
<1>1. /\ size \in 0 .. Cap /\ at.ptr \in Words /\ at.len \in 0 .. Cap /\ stride \in 0 .. MaxHead
      /\ i \in 0 .. Cap /\ i \in Nat /\ at.len \in Nat /\ stride \in Nat /\ i + 1 \in Nat /\ i + 1 <= at.len
  BY Stands, Bounds DEF Words
<1>2. place \in Nat /\ Selector + 2 * Cap + 2 * WordSize + place < Half
  BY <1>1, Product
<1>3. all \in Nat
  BY <1>1, Product
<1>4. place + stride <= all
  <2>1. (i + 1) * stride <= all
    BY <1>1, ProductGrows
  <2>2. (i + 1) * stride = place + stride
    BY <1>1, NextProduct
  <2> QED
    BY <2>1, <2>2
<1>5. at.kind = "array" => at.ptr + all <= size
  BY <1>1, ArrayInside, Bounds
<1> HIDE DEF place, all, stride
<1>6. place \in Words
  BY <1>2, Bounds DEF Words
<1>7. Add(at.ptr, place) \in Words
  BY <1>1, <1>6, AddIsWord
<1>8. at.kind = "array" => Add(at.ptr, place) = at.ptr + place /\ at.ptr + place + stride <= size
  BY <1>1, <1>2, <1>3, <1>4, <1>5, Bounds DEF Add, Words
<1> QED
  BY <1>6, <1>7, <1>8 DEF place, stride

LEMMA StaticElementBounded ==
  ASSUME Assumptions, CalldataIsBounded, NEW i \in Indices, StaticElement(i)
  PROVE  CalldataIsBounded'
<1> USE DEF Assumptions
<1>1. i \in Words /\ UNCHANGED size /\ 0 \in 0 .. Cap
  BY Bounds DEF InputsAssumption, StaticElement
<1>2. at' = Bounded(i, Value("static", Add(at.ptr, i * Stride(Elem)), 0, Elem))
  BY DEF StaticElement
<1> SUFFICES \E v : GoodValue(v) /\ at' = v
  BY <1>1, Reached, Stands
<1>3. CASE i < at.len
  BY <1>1, <1>2, <1>3, ElementPlace, Stands, OtherGood DEF Bounded, Kinds
<1>4. CASE ~(i < at.len)
  BY <1>2, <1>4, EndsGood DEF Bounded
<1> QED
  BY <1>3, <1>4

LEMMA StaticIndexBounded ==
  ASSUME Assumptions, CalldataIsBounded, NEW i \in Indices, StaticIndex(i)
  PROVE  CalldataIsBounded'
<1> USE DEF Assumptions
<1>1. i \in Words /\ UNCHANGED size /\ 0 \in 0 .. Cap
  BY Bounds DEF InputsAssumption, StaticIndex
<1>2. at' = IF i < Types[at.type].n
            THEN Value("static", Add(at.ptr, i * Types[Elem].head), 0, Elem) ELSE Panic
  BY DEF StaticIndex
<1> SUFFICES \E v : GoodValue(v) /\ at' = v
  BY <1>1, Reached, Stands
<1>3. CASE i < Types[at.type].n
  <2> DEFINE place == i * Types[Elem].head
  <2>1. i \in 0 .. Cap /\ Types[Elem].head \in 0 .. MaxHead
    BY <1>1, <1>3, Stands, TypeFacts, Bounds DEF Words
  <2>2. place \in Nat /\ Selector + 2 * Cap + 2 * WordSize + place < Half
    BY <2>1, Product
  <2>3. place \in Words
    <3> HIDE DEF place
    <3> QED
      BY <2>2, Bounds DEF Words
  <2>4. Add(at.ptr, place) \in Words
    BY <2>3, Stands, AddIsWord
  <2> QED
    BY <1>1, <1>2, <1>3, <2>4, Stands, OtherGood DEF Kinds
<1>4. CASE ~(i < Types[at.type].n)
  BY <1>2, <1>4, EndsGood
<1> QED
  BY <1>3, <1>4

\* The offset of an element is read at an address, and is a word.
LEMMA OffsetRead ==
  ASSUME Assumptions, CalldataIsBounded, Dynamic(Elem), NEW i \in Indices, i < at.len,
         NEW off \in OffsetAt(Add(at.ptr, i * WordSize))
  PROVE  off \in Words
<1> USE DEF Assumptions
<1>1. i \in Words /\ Stride(Elem) = WordSize
  BY DEF InputsAssumption, Stride
<1>2. Add(at.ptr, i * WordSize) \in Words
  BY <1>1, ElementPlace
<1> QED
  BY <1>2, Stands, ReadFacts

LEMMA DynamicElementBounded ==
  ASSUME Assumptions, CalldataIsBounded, NEW i \in Indices, DynamicElement(i)
  PROVE  CalldataIsBounded'
<1> USE DEF Assumptions
<1>1. /\ i \in Words /\ UNCHANGED size /\ Dynamic(Elem)
      /\ Types[Elem].kind = "struct" => at.kind = "array"
  BY DEF InputsAssumption, DynamicElement
<1> SUFFICES \E v : GoodValue(v) /\ at' = v
  BY <1>1, Reached, Stands
<1>2. CASE at' = Panic
  BY <1>2, EndsGood
<1>3. CASE at' # Panic
  <2>1. i < at.len
    BY <1>3 DEF DynamicElement
  <2>2. PICK off \in OffsetAt(Add(at.ptr, i * WordSize)) :
          CASE Types[Elem].kind = "struct" -> at' = ElementTuple(at.ptr, off, Elem)
            [] Types[Elem].kind = "fixed" -> at' = CalldataNestedOff(at.ptr, off, Elem)
            [] OTHER -> \E len \in LengthAt(Add(at.ptr, off)) :
                 at' = IF Types[Elem].kind = "bytes" THEN CalldataDynElem(at.ptr, off, len, Elem)
                       ELSE CalldataInnerArray(at.ptr, off, len, Elem)
    BY <1>3 DEF DynamicElement
  <2>3. off \in Words
    BY <1>1, <2>1, OffsetRead
  <2>4. CASE Types[Elem].kind = "struct"
    <3>1. at' = ElementTuple(at.ptr, off, Elem)
      BY <2>2, <2>4
    <3>2. at.ptr <= size
      <4> DEFINE place == i * Stride(Elem)
      <4>1. place \in Words /\ Stride(Elem) \in Nat /\ at.ptr + place + Stride(Elem) <= size
        BY <1>1, <2>1, <2>4, ElementPlace, Stands, Bounds
      <4> HIDE DEF place
      <4> QED
        BY <4>1, Stands, Bounds DEF Words
    <3> QED
      BY <3>1, <3>2, <2>3, Stands, ElementTupleGood
  <2>5. CASE Types[Elem].kind = "fixed"
    <3>1. at' = CalldataNestedOff(at.ptr, off, Elem)
      BY <2>2, <2>5
    <3> QED
      BY <3>1, <2>3, Stands, TablesGood
  <2>6. CASE Types[Elem].kind \notin {"struct", "fixed"}
    <3>1. PICK len \in LengthAt(Add(at.ptr, off)) :
            at' = IF Types[Elem].kind = "bytes" THEN CalldataDynElem(at.ptr, off, len, Elem)
                  ELSE CalldataInnerArray(at.ptr, off, len, Elem)
      BY <2>2, <2>6
    <3>2. GoodValue(LazyTail(at.ptr, off, len, 1, "bytes", Elem))
      BY <2>3, Stands, LazyTailGood DEF Width
    <3>3. GoodValue(LazyTail(at.ptr, off, len, Stride(Types[Elem].elem), "array", Elem))
      BY <2>3, Stands, LazyTailGood DEF Width
    <3> QED
      BY <3>1, <3>2, <3>3 DEF CalldataDynElem, CalldataInnerArray
  <2> QED
    BY <2>4, <2>5, <2>6
<1> QED
  BY <1>2, <1>3

LEMMA WholeElementBounded ==
  ASSUME Assumptions, CalldataIsBounded, NEW i \in Indices, WholeElement(i)
  PROVE  CalldataIsBounded'
<1>1. UNCHANGED size /\ Dynamic(Elem)
  BY DEF WholeElement
<1> SUFFICES \E v : GoodValue(v) /\ at' = v
  BY <1>1, Reached, Stands
<1>2. CASE at' = Panic
  BY <1>2, EndsGood DEF Assumptions
<1>3. CASE at' # Panic
  <2>1. /\ i < at.len
        /\ \E off \in OffsetAt(Add(at.ptr, i * WordSize)) : at' = CdArrayElemBase(at.ptr, off, Elem)
    BY <1>3 DEF WholeElement
  <2>2. PICK off \in OffsetAt(Add(at.ptr, i * WordSize)) : at' = CdArrayElemBase(at.ptr, off, Elem)
    BY <2>1
  <2>3. off \in Words
    BY <1>1, <2>1, OffsetRead
  <2> QED
    BY <2>2, <2>3, Stands, CdArrayElemBaseGood
<1> QED
  BY <1>2, <1>3

\* What the echo decoders read and copy.
LEMMA EchoGood ==
  ASSUME Assumptions, size \in 0 .. Cap, NEW base \in Words, NEW off \in Words,
         NEW len \in LengthAt(Add(base, off)), NEW cursor \in Cursors, NEW t \in DOMAIN Types
  PROVE  /\ GoodValue(CalldataDynElemEcho(base, off, len, cursor, t))
         /\ GoodValue(CalldataDynAtEcho(base, off, len, cursor, t))
         /\ GoodValue(CalldataInnerArrayEcho(base, off, len, cursor, t))
<1> USE DEF Assumptions
<1>1. Add(base, off) \in Words /\ cursor \in 0 .. Cap
  BY AddIsWord DEF InputsAssumption
<1>2. GoodValue(Refused) /\ GoodValue(Panic)
  BY EndsGood
<1>3. /\ GoodValue(EchoCopy(Add(base, off), len, 1, cursor, Panic, "bytes", t))
      /\ GoodValue(EchoCopy(Add(base, off), len, 1, cursor, Refused, "bytes", t))
      /\ GoodValue(EchoCopy(Add(base, off), len, Stride(Types[t].elem), cursor, Panic, "array", t))
  BY <1>1, <1>2, EchoCopyGood DEF Width
<1> QED
  BY <1>2, <1>3 DEF CalldataDynElemEcho, CalldataDynAtEcho, CalldataInnerArrayEcho

LEMMA EchoElementBounded ==
  ASSUME Assumptions, CalldataIsBounded, NEW i \in Indices, NEW cursor \in Cursors, EchoElement(i, cursor)
  PROVE  CalldataIsBounded'
<1>1. UNCHANGED size /\ i < at.len /\ Types[Elem].kind \in {"bytes", "list"}
  BY DEF EchoElement
<1>2. Dynamic(Elem)
  BY <1>1, Stands DEF Assumptions, TypesAssumption, Dynamic
<1>3. PICK off \in OffsetAt(Add(at.ptr, i * WordSize)) : \E len \in LengthAt(Add(at.ptr, off)) :
        at' = IF Types[Elem].kind = "bytes" THEN CalldataDynElemEcho(at.ptr, off, len, cursor, Elem)
              ELSE CalldataInnerArrayEcho(at.ptr, off, len, cursor, Elem)
  BY DEF EchoElement
<1>4. off \in Words
  BY <1>1, <1>2, OffsetRead
<1>5. PICK len \in LengthAt(Add(at.ptr, off)) :
        at' = IF Types[Elem].kind = "bytes" THEN CalldataDynElemEcho(at.ptr, off, len, cursor, Elem)
              ELSE CalldataInnerArrayEcho(at.ptr, off, len, cursor, Elem)
  BY <1>3
<1>6. GoodValue(at')
  BY <1>4, <1>5, Stands, EchoGood
<1> QED
  BY <1>1, <1>6, Stands, Reached

\* What is left of an array that holds elements from..to - 1 of it.
LEMMA SlicePlace ==
  ASSUME Assumptions, CalldataIsBounded, at.kind = "array",
         NEW from \in Words, NEW to \in Words, from <= to, to <= at.len
  PROVE  /\ from * Stride(Elem) \in Words /\ to - from \in 0 .. Cap
         /\ to - from > 0 =>
              /\ Add(at.ptr, from * Stride(Elem)) = at.ptr + from * Stride(Elem)
              /\ at.ptr <= at.ptr + from * Stride(Elem)
              /\ at.ptr + from * Stride(Elem) + (to - from) * Stride(Elem)
                   <= at.ptr + at.len * Stride(Elem)
              /\ at.ptr + at.len * Stride(Elem) <= size
<1> USE DEF Assumptions
<1> DEFINE stride == Stride(Elem)
           before == from * stride
           rest == (to - from) * stride
           both == to * stride
           all == at.len * stride
<1>1. /\ size \in 0 .. Cap /\ at.ptr \in Words /\ at.len \in 0 .. Cap /\ stride \in 0 .. MaxHead
      /\ from \in 0 .. Cap /\ to \in 0 .. Cap /\ to - from \in 0 .. Cap
      /\ from \in Nat /\ to \in Nat /\ at.len \in Nat /\ stride \in Nat
  BY Stands, Bounds DEF Words
<1>2. /\ before \in Nat /\ rest \in Nat /\ both \in Nat /\ all \in Nat
      /\ Selector + 2 * Cap + 2 * WordSize + before < Half
  BY <1>1, Product
<1>3. before + rest = both /\ both <= all
  BY <1>1, ProductSplits, ProductGrows
<1>4. to - from > 0 => at.ptr + all <= size
  BY <1>1, ArrayInside, Bounds
<1> HIDE DEF stride, before, rest, both, all
<1>5. before \in Words
  BY <1>2, Bounds DEF Words
<1>6. to - from > 0 => /\ Add(at.ptr, before) = at.ptr + before
                       /\ at.ptr <= at.ptr + before
                       /\ at.ptr + before + rest <= at.ptr + all
                       /\ at.ptr + all <= size
  BY <1>1, <1>2, <1>3, <1>4, Bounds DEF Add, Words
<1> QED
  BY <1>1, <1>5, <1>6 DEF before, rest, all, stride

LEMMA SliceValue ==
  ASSUME Assumptions, CalldataIsBounded, NEW from, NEW to, Slice(from, to),
         ~(from > to \/ to > at.len)
  PROVE  at' = Value("array", Add(at.ptr, from * Stride(Elem)), to - from, at.type)
<1>1. at' = [at EXCEPT !.ptr = Add(at.ptr, from * Stride(Elem)), !.len = to - from]
  BY DEF Slice
<1>2. at \in Values /\ at.kind = "array"
  BY StandsGood DEF GoodValue, Slice
<1> QED
  BY <1>1, <1>2 DEF Value, Values

LEMMA SliceBounded ==
  ASSUME Assumptions, CalldataIsBounded, NEW from \in Indices, NEW to \in Indices, Slice(from, to)
  PROVE  CalldataIsBounded'
<1> USE DEF Assumptions
<1>1. from \in Words /\ to \in Words /\ UNCHANGED size /\ at.kind = "array"
  BY DEF InputsAssumption, Slice
<1> SUFFICES \E v : GoodValue(v) /\ at' = v
  BY <1>1, Reached, Stands
<1>2. CASE from > to \/ to > at.len
  BY <1>2, EndsGood DEF Slice
<1>3. CASE ~(from > to \/ to > at.len)
  <2>1. from <= to /\ to <= at.len
    BY <1>1, <1>3, Stands, Bounds DEF Words
  <2>2. at' = Value("array", Add(at.ptr, from * Stride(Elem)), to - from, at.type)
    BY <1>3, SliceValue
  <2>3. /\ from * Stride(Elem) \in Words /\ to - from \in 0 .. Cap
        /\ to - from > 0 =>
             /\ Add(at.ptr, from * Stride(Elem)) = at.ptr + from * Stride(Elem)
             /\ at.ptr + from * Stride(Elem) + (to - from) * Stride(Elem)
                  <= at.ptr + at.len * Stride(Elem)
             /\ at.ptr + at.len * Stride(Elem) <= size
    BY <1>1, <2>1, SlicePlace
  <2>4. Add(at.ptr, from * Stride(Elem)) \in Words
    BY <2>3, Stands, AddIsWord
  <2>5. Width("array", at.type) = Stride(Elem)
    BY DEF Width, Elem
  <2>6. to - from > 0 =>
          Add(at.ptr, from * Stride(Elem)) + (to - from) * Width("array", at.type) <= size
    <3> DEFINE p == at.ptr + from * Stride(Elem)
               rest == (to - from) * Stride(Elem)
               all == at.len * Stride(Elem)
    <3>1. to - from > 0 => p + rest <= at.ptr + all /\ at.ptr + all <= size
      BY <2>3
    <3>2. /\ from * Stride(Elem) \in Int /\ p \in Int /\ rest \in Int /\ all \in Int
          /\ at.ptr \in Int /\ size \in Int
      BY <2>3, Stands, Bounds DEF Words
    <3>3. to - from > 0 => Add(at.ptr, from * Stride(Elem)) = p
      BY <2>3
    <3> HIDE DEF p, all, rest
    <3>4. to - from > 0 => p + rest <= size
      BY <3>1, <3>2
    <3> QED
      BY <3>3, <3>4, <2>5 DEF rest
  <2> QED
    BY <2>2, <2>3, <2>4, <2>6, Stands, SliceGood
<1> QED
  BY <1>2, <1>3

LEMMA StaticFieldBounded ==
  ASSUME Assumptions, CalldataIsBounded, NEW f \in FieldsOf(at.type), StaticField(f)
  PROVE  CalldataIsBounded'
<1> USE DEF Assumptions
<1>1. f.type \in DOMAIN Types /\ f.at \in Words /\ 0 \in 0 .. Cap
  BY Stands, FieldFacts, Bounds
<1>2. Add(at.ptr, f.at) \in Words
  BY <1>1, Stands, AddIsWord
<1>3. at' = Value("static", Add(at.ptr, f.at), 0, f.type) /\ UNCHANGED size
  BY DEF StaticField
<1>4. GoodValue(at')
  BY <1>1, <1>2, <1>3, OtherGood DEF Kinds
<1> QED
  BY <1>3, <1>4, Stands, Reached

\* The address of a field's offset, and the offset read there.
LEMMA FieldRead ==
  ASSUME Assumptions, CalldataIsBounded, NEW f \in FieldsOf(at.type),
         NEW off \in OffsetAt(Add(at.ptr, f.at))
  PROVE  /\ f.type \in DOMAIN Types /\ off \in Words /\ Add(at.ptr, off) \in Words
<1> USE DEF Assumptions
<1>1. f.type \in DOMAIN Types /\ f.at \in Words
  BY Stands, FieldFacts
<1>2. Add(at.ptr, f.at) \in Words
  BY <1>1, Stands, AddIsWord
<1>3. off \in Words
  BY <1>2, Stands, ReadFacts
<1> QED
  BY <1>1, <1>3, Stands, AddIsWord

LEMMA DynamicFieldBounded ==
  ASSUME Assumptions, CalldataIsBounded, NEW f \in FieldsOf(at.type), DynamicField(f)
  PROVE  CalldataIsBounded'
<1> USE DEF Assumptions
<1> DEFINE offPtr == Add(at.ptr, f.at)
           ty == Types[f.type]
<1>1. UNCHANGED size /\ Dynamic(f.type)
  BY DEF DynamicField
<1> SUFFICES \E v : GoodValue(v) /\ at' = v
  BY <1>1, Reached, Stands
<1>2. PICK off \in OffsetAt(offPtr) :
        CASE ty.kind = "struct" -> at' = CalldataTupleAt(at.ptr, offPtr, off, f.type)
          [] ty.kind = "fixed" -> at' = CalldataFixedField(at.ptr, off, f.type)
          [] OTHER -> \E len \in LengthAt(Add(at.ptr, off)) :
               at' = IF ty.kind = "bytes" THEN CalldataDynAt(at.ptr, off, len, f.type)
                     ELSE CalldataArrayAt(at.ptr, off, len, Stride(ty.elem), f.type)
  BY DEF DynamicField
<1>3. f.type \in DOMAIN Types /\ off \in Words /\ Add(at.ptr, off) \in Words
  BY FieldRead
<1>4. CASE ty.kind = "struct"
  <2>1. at' = CalldataTupleAt(at.ptr, offPtr, off, f.type)
    BY <1>2, <1>4
  <2> QED
    BY <2>1, <1>3, Stands, CalldataTupleAtGood
<1>5. CASE ty.kind = "fixed"
  <2>1. at' = CalldataFixedField(at.ptr, off, f.type)
    BY <1>2, <1>5
  <2> QED
    BY <2>1, <1>3, Stands, TablesGood
<1>6. CASE ty.kind \notin {"struct", "fixed"}
  <2>1. PICK len \in LengthAt(Add(at.ptr, off)) :
          at' = IF ty.kind = "bytes" THEN CalldataDynAt(at.ptr, off, len, f.type)
                ELSE CalldataArrayAt(at.ptr, off, len, Stride(ty.elem), f.type)
    BY <1>2, <1>6
  <2>2. GoodValue(LazyTail(at.ptr, off, len, 1, "bytes", f.type))
    BY <1>3, Stands, LazyTailGood DEF Width
  <2>3. ty.elem \in DOMAIN Types /\ Stride(ty.elem) \in 0 .. MaxHead
    BY <1>3, TypeFacts
  <2>4. len \in Words /\ (len > 0 => Add(at.ptr, off) < size)
    BY <1>3, Stands, ReadFacts
  <2>5. GoodValue(EagerArray(Add(at.ptr, off), len, Stride(ty.elem), f.type))
    BY <1>3, <2>3, <2>4, Stands, EagerArrayGood
  <2> QED
    BY <2>1, <2>2, <2>5, EndsGood DEF CalldataDynAt, CalldataArrayAt
<1> QED
  BY <1>4, <1>5, <1>6

LEMMA EchoFieldBounded ==
  ASSUME Assumptions, CalldataIsBounded, NEW f \in FieldsOf(at.type), NEW cursor \in Cursors,
         EchoField(f, cursor)
  PROVE  CalldataIsBounded'
<1>1. PICK off \in OffsetAt(Add(at.ptr, f.at)) : \E len \in LengthAt(Add(at.ptr, off)) :
        at' = CalldataDynAtEcho(at.ptr, off, len, cursor, f.type)
  BY DEF EchoField
<1>2. PICK len \in LengthAt(Add(at.ptr, off)) :
        at' = CalldataDynAtEcho(at.ptr, off, len, cursor, f.type)
  BY <1>1
<1>3. GoodValue(at')
  BY <1>2, FieldRead, Stands, EchoGood
<1> QED
  BY <1>3, Stands, Reached DEF EchoField

LEMMA FieldHeaderBounded ==
  ASSUME Assumptions, CalldataIsBounded, NEW f \in FieldsOf(at.type), FieldHeader(f)
  PROVE  CalldataIsBounded'
<1> USE DEF Assumptions
<1>1. PICK off \in OffsetAt(Add(at.ptr, f.at)) :
        at' = IF off > Cap \/ ~Slt(Add(Add(at.ptr, off), WordSize - 1), size) THEN Refused
              ELSE Value("header", Add(at.ptr, off), 0, f.type)
  BY DEF FieldHeader
<1>2. f.type \in DOMAIN Types /\ Add(at.ptr, off) \in Words /\ 0 \in 0 .. Cap
  BY FieldRead, Bounds
<1>3. GoodValue(Value("header", Add(at.ptr, off), 0, f.type)) /\ GoodValue(Refused)
  BY <1>2, OtherGood, EndsGood DEF Kinds
<1>4. GoodValue(at')
  BY <1>1, <1>3
<1> QED
  BY <1>4, Stands, Reached DEF FieldHeader

-----------------------------------------------------------------------------
(* The theorems.                                                             *)

LEMMA InitBounded ==
  ASSUME Assumptions, SliceInit
  PROVE  CalldataIsBounded
<1>1. size \in 0 .. Cap /\ at = Start
  BY DEF SliceInit, Assumptions, InputsAssumption
<1>2. GoodValue(Start)
  BY EndsGood DEF Assumptions
<1> DEFINE v == Start
<1> HIDE DEF v
<1>3. GoodValue(v) /\ at = v
  BY <1>1, <1>2 DEF v
<1>4. SliceTypeOK
  BY <1>1, <1>3 DEF SliceTypeOK, GoodValue, Values, Kinds
<1>5. SliceInCalldata
  BY <1>3 DEF SliceInCalldata, GoodValue, Inside, Width, ByteLen, Elem
<1>6. TupleReadable
  BY <1>3 DEF TupleReadable, GoodValue, Readable
<1> QED
  BY <1>4, <1>5, <1>6 DEF CalldataIsBounded

LEMMA NextBounded ==
  ASSUME Assumptions, CalldataIsBounded, [SliceNext]_sliceVars
  PROVE  CalldataIsBounded'
<1>1. CASE UNCHANGED sliceVars
  BY <1>1, StandsGood, Reached DEF sliceVars
<1>2. ASSUME NEW t \in Params, BindParam(t) \/ BindAdminData(t)
      PROVE  CalldataIsBounded'
  BY <1>2, BindParamBounded, BindAdminDataBounded
<1>3. ASSUME NEW i \in Indices,
             StaticElement(i) \/ StaticIndex(i) \/ DynamicElement(i) \/ WholeElement(i)
      PROVE  CalldataIsBounded'
  BY <1>3, StaticElementBounded, StaticIndexBounded, DynamicElementBounded, WholeElementBounded
<1>4. ASSUME NEW i \in Indices, NEW cursor \in Cursors, EchoElement(i, cursor)
      PROVE  CalldataIsBounded'
  BY <1>4, EchoElementBounded
<1>5. ASSUME NEW i \in Indices, NEW j \in Indices, Slice(i, j)
      PROVE  CalldataIsBounded'
  BY <1>5, SliceBounded
<1>6. ASSUME NEW f \in FieldsOf(at.type), StaticField(f) \/ DynamicField(f) \/ FieldHeader(f)
      PROVE  CalldataIsBounded'
  BY <1>6, StaticFieldBounded, DynamicFieldBounded, FieldHeaderBounded
<1>7. ASSUME NEW f \in FieldsOf(at.type), NEW cursor \in Cursors, EchoField(f, cursor)
      PROVE  CalldataIsBounded'
  BY <1>7, EchoFieldBounded
<1> QED
  BY <1>1, <1>2, <1>3, <1>4, <1>5, <1>6, <1>7 DEF SliceNext

\* Whatever words calldata holds and however deep a program descends, a bytes
\* value or an array that is not empty lies inside calldata, and a tuple has its
\* whole head there or stands below zero.
THEOREM SpecCalldataIsBounded == SliceSpec => []CalldataIsBounded
<1>0. Assumptions
  BY SlicesAssumption DEF Assumptions
<1>1. SliceInit => CalldataIsBounded
  BY <1>0, InitBounded
<1>2. CalldataIsBounded /\ [SliceNext]_sliceVars => CalldataIsBounded'
  BY <1>0, NextBounded
<1> QED
  BY <1>1, <1>2, PTL DEF SliceSpec

LEMMA KindOf ==
  ASSUME NEW kind, NEW ptr, NEW len, NEW t
  PROVE  Value(kind, ptr, len, t).kind = kind
BY DEF Value

LEMMA EndKinds == Refused.kind = "revert" /\ Panic.kind = "panic"
<1>1. Start = [kind |-> "start", ptr |-> 0, len |-> 0, type |-> CHOOSE t \in DOMAIN Types : TRUE]
  BY DEF Start, Value
<1> QED
  BY <1>1 DEF Refused, Panic

\* A dynamic element is never found as a static value.
LEMMA DynamicIsNotStatic ==
  ASSUME NEW i \in Indices, NEW cursor,
         DynamicElement(i) \/ WholeElement(i) \/ EchoElement(i, cursor)
  PROVE  at'.kind # "static"
<1>1. ASSUME NEW off, NEW t
      PROVE  /\ ElementTuple(at.ptr, off, t).kind # "static"
             /\ CalldataNestedOff(at.ptr, off, t).kind # "static"
             /\ CdArrayElemBase(at.ptr, off, t).kind # "static"
  BY KindOf, EndKinds DEF ElementTuple, CalldataNestedOff, CdArrayElemBase
<1>2. ASSUME NEW off, NEW len, NEW t
      PROVE  /\ CalldataDynElem(at.ptr, off, len, t).kind # "static"
             /\ CalldataInnerArray(at.ptr, off, len, t).kind # "static"
  BY KindOf, EndKinds DEF CalldataDynElem, CalldataInnerArray, LazyTail
<1>3. ASSUME NEW off, NEW len, NEW t
      PROVE  /\ CalldataDynElemEcho(at.ptr, off, len, cursor, t).kind # "static"
             /\ CalldataInnerArrayEcho(at.ptr, off, len, cursor, t).kind # "static"
  BY KindOf, EndKinds DEF CalldataDynElemEcho, CalldataInnerArrayEcho, EchoCopy
<1>4. CASE DynamicElement(i)
  <2>1. CASE at' = Panic
    BY <2>1, EndKinds
  <2>2. CASE at' # Panic
    <3>1. PICK off \in OffsetAt(Add(at.ptr, i * WordSize)) :
            CASE Types[Elem].kind = "struct" -> at' = ElementTuple(at.ptr, off, Elem)
              [] Types[Elem].kind = "fixed" -> at' = CalldataNestedOff(at.ptr, off, Elem)
              [] OTHER -> \E len \in LengthAt(Add(at.ptr, off)) :
                   at' = IF Types[Elem].kind = "bytes" THEN CalldataDynElem(at.ptr, off, len, Elem)
                         ELSE CalldataInnerArray(at.ptr, off, len, Elem)
      BY <1>4, <2>2 DEF DynamicElement
    <3>2. \/ at' = ElementTuple(at.ptr, off, Elem)
          \/ at' = CalldataNestedOff(at.ptr, off, Elem)
          \/ \E len \in LengthAt(Add(at.ptr, off)) :
                at' \in {CalldataDynElem(at.ptr, off, len, Elem), CalldataInnerArray(at.ptr, off, len, Elem)}
      BY <3>1
    <3> QED
      BY <3>2, <1>1, <1>2
  <2> QED
    BY <2>1, <2>2
<1>5. CASE WholeElement(i)
  <2>1. at' = Panic \/ \E off \in OffsetAt(Add(at.ptr, i * WordSize)) : at' = CdArrayElemBase(at.ptr, off, Elem)
    BY <1>5 DEF WholeElement
  <2> QED
    BY <2>1, <1>1, EndKinds
<1>6. CASE EchoElement(i, cursor)
  <2>1. \E off \in OffsetAt(Add(at.ptr, i * WordSize)) : \E len \in LengthAt(Add(at.ptr, off)) :
          at' \in {CalldataDynElemEcho(at.ptr, off, len, cursor, Elem),
                   CalldataInnerArrayEcho(at.ptr, off, len, cursor, Elem)}
    BY <1>6 DEF EchoElement
  <2> QED
    BY <2>1, <1>3
<1> QED
  BY <1>4, <1>5, <1>6

LEMMA StepElementReadable ==
  ASSUME Assumptions, CalldataIsBounded, [SliceNext]_sliceVars, at.kind = "array", at'.kind = "static"
  PROVE  at'.ptr + Types[at'.type].head <= size
<1> USE DEF Assumptions
<1>1. PICK i \in Indices : StaticElement(i)
  <2>1. CASE UNCHANGED sliceVars
    BY <2>1 DEF sliceVars
  <2>2. ~(\E t \in Params : BindParam(t) \/ BindAdminData(t))
    BY DEF BindParam, BindAdminData
  <2>3. ~(\E i \in Indices : StaticIndex(i) \/ DynamicElement(i) \/ WholeElement(i))
    <3>1. ASSUME NEW i \in Indices, DynamicElement(i) \/ WholeElement(i)
          PROVE  FALSE
      <4>1. DynamicElement(i) \/ WholeElement(i) \/ EchoElement(i, 0)
        BY <3>1
      <4> QED
        BY <4>1, DynamicIsNotStatic
    <3> QED
      BY <3>1 DEF StaticIndex
  <2>4. ~(\E i \in Indices, cursor \in Cursors : EchoElement(i, cursor))
    BY DynamicIsNotStatic
  <2>5. ~(\E i, j \in Indices : Slice(i, j))
    <3> SUFFICES ASSUME NEW i \in Indices, NEW j \in Indices, Slice(i, j)
                 PROVE  FALSE
      OBVIOUS
    <3>1. CASE i > j \/ j > at.len
      BY <3>1, EndKinds DEF Slice
    <3>2. CASE ~(i > j \/ j > at.len)
      BY <3>2, SliceValue, KindOf
    <3> QED
      BY <3>1, <3>2
  <2>6. ~(\E f \in FieldsOf(at.type) : StaticField(f) \/ DynamicField(f) \/ FieldHeader(f))
    BY DEF StaticField, DynamicField, FieldHeader
  <2>7. ~(\E f \in FieldsOf(at.type), cursor \in Cursors : EchoField(f, cursor))
    BY DEF EchoField
  <2> QED
    BY <2>1, <2>2, <2>3, <2>4, <2>5, <2>6, <2>7 DEF SliceNext
<1>2. /\ i \in Words /\ ~Dynamic(Elem)
      /\ at' = Bounded(i, Value("static", Add(at.ptr, i * Stride(Elem)), 0, Elem))
  BY <1>1 DEF StaticElement, InputsAssumption
<1>3. i < at.len /\ at' = Value("static", Add(at.ptr, i * Stride(Elem)), 0, Elem)
  BY <1>2, EndKinds DEF Bounded
<1>4. at'.ptr = Add(at.ptr, i * Stride(Elem)) /\ at'.type = Elem
  BY <1>3 DEF Value
<1>5. Types[Elem].head = Stride(Elem)
  BY <1>2 DEF Stride
<1> QED
  BY <1>2, <1>3, <1>4, <1>5, ElementPlace

\* An element of an array of static elements is read inside calldata.
THEOREM SpecElementReadable == SliceSpec => ElementReadable
<1>0. Assumptions
  BY SlicesAssumption DEF Assumptions
<1>1. SliceInit => CalldataIsBounded
  BY <1>0, InitBounded
<1>2. CalldataIsBounded /\ [SliceNext]_sliceVars => CalldataIsBounded'
  BY <1>0, NextBounded
<1>3. CalldataIsBounded /\ [SliceNext]_sliceVars =>
        [at.kind = "array" /\ at'.kind = "static" => at'.ptr + Types[at'.type].head <= size]_sliceVars
  BY <1>0, StepElementReadable
<1> QED
  BY <1>1, <1>2, <1>3, PTL DEF SliceSpec, ElementReadable

LEMMA StepSliceNarrows ==
  ASSUME Assumptions, CalldataIsBounded, [SliceNext]_sliceVars,
         at.kind = "array", at'.kind = "array", at'.type = at.type, ~Dynamic(Elem), at'.len > 0
  PROVE  /\ at.ptr <= at'.ptr
         /\ at'.ptr + at'.len * Stride(Elem) <= at.ptr + at.len * Stride(Elem)
<1> USE DEF Assumptions
<1>1. CASE UNCHANGED sliceVars
  <2> DEFINE all == at.len * Stride(Elem)
  <2>1. at' = at
    BY <1>1 DEF sliceVars
  <2>2. all \in Int /\ at.ptr \in Int
    BY Stands, Product, Bounds DEF Words
  <2> HIDE DEF all
  <2>3. at.ptr <= at.ptr /\ at.ptr + all <= at.ptr + all
    BY <2>2
  <2> QED
    BY <2>1, <2>3 DEF all
<1>2. CASE \E i, j \in Indices : Slice(i, j)
  <2>1. PICK from \in Indices, to \in Indices : Slice(from, to)
    BY <1>2
  <2>2. from \in Words /\ to \in Words
    BY DEF InputsAssumption
  <2>3. ~(from > to \/ to > at.len)
    BY <2>1, EndKinds DEF Slice
  <2>4. from <= to /\ to <= at.len
    BY <2>2, <2>3, Stands, Bounds DEF Words
  <2>5. at' = Value("array", Add(at.ptr, from * Stride(Elem)), to - from, at.type)
    BY <2>1, <2>3, SliceValue
  <2>6. at'.ptr = Add(at.ptr, from * Stride(Elem)) /\ at'.len = to - from
    BY <2>5 DEF Value
  <2>7. to - from > 0
    BY <2>6
  <2> HIDE DEF Assumptions
  <2>8. /\ Add(at.ptr, from * Stride(Elem)) = at.ptr + from * Stride(Elem)
        /\ at.ptr <= at.ptr + from * Stride(Elem)
        /\ at.ptr + from * Stride(Elem) + (to - from) * Stride(Elem) <= at.ptr + at.len * Stride(Elem)
    BY <2>2, <2>4, <2>7, SlicePlace
  <2> QED
    BY <2>6, <2>8
<1>3. ~(\E t \in Params : BindParam(t) \/ BindAdminData(t))
  BY DEF BindParam, BindAdminData
<1>4. ~(\E i \in Indices : StaticElement(i) \/ StaticIndex(i) \/ DynamicElement(i) \/ WholeElement(i))
  <2>1. ASSUME NEW i \in Indices, StaticElement(i)
        PROVE  FALSE
    BY <2>1, EndKinds, KindOf DEF StaticElement, Bounded
  <2> QED
    BY <2>1 DEF StaticIndex, DynamicElement, WholeElement
<1>5. ~(\E i \in Indices, cursor \in Cursors : EchoElement(i, cursor))
  BY Stands DEF EchoElement, TypesAssumption, Dynamic
<1>6. ~(\E f \in FieldsOf(at.type) : StaticField(f) \/ DynamicField(f) \/ FieldHeader(f))
  BY DEF StaticField, DynamicField, FieldHeader
<1>7. ~(\E f \in FieldsOf(at.type), cursor \in Cursors : EchoField(f, cursor))
  BY DEF EchoField
<1> QED
  BY <1>1, <1>2, <1>3, <1>4, <1>5, <1>6, <1>7 DEF SliceNext

\* A slice of an array is part of it.
THEOREM SpecSliceNarrows == SliceSpec => SliceNarrows
<1>0. Assumptions
  BY SlicesAssumption DEF Assumptions
<1>1. SliceInit => CalldataIsBounded
  BY <1>0, InitBounded
<1>2. CalldataIsBounded /\ [SliceNext]_sliceVars => CalldataIsBounded'
  BY <1>0, NextBounded
<1>3. CalldataIsBounded /\ [SliceNext]_sliceVars =>
        [at.kind = "array" /\ at'.kind = "array" /\ at'.type = at.type /\ ~Dynamic(Elem) /\ at'.len > 0 =>
           at.ptr <= at'.ptr /\ at'.ptr + at'.len * Stride(Elem) <= at.ptr + at.len * Stride(Elem)]_sliceVars
  BY <1>0, StepSliceNarrows
<1> QED
  BY <1>1, <1>2, <1>3, PTL DEF SliceSpec, SliceNarrows
===============================================================================
