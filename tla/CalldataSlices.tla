---------------------------- MODULE CalldataSlices ----------------------------
(* How generated code finds a value inside its calldata.                    *)
(*                                                                          *)
(* Calldata is hostile: every offset and length word in it may be anything, *)
(* and addresses are added modulo 2^256.  A parameter is bound by an eager  *)
(* decoder, and each index, field access or slice then moves to a part of   *)
(* the value bound so far: a bytes value, an array (its elements, or its    *)
(* table of offsets), a tuple of a struct with dynamic fields, or a static  *)
(* value.  Eager decoders compare offsets unsigned and cap them; the lazy   *)
(* ones follow solc's access_calldata_tail, whose signed comparison lets a  *)
(* wrapping offset through.                                                 *)
(*                                                                          *)
(* The contents of calldata are not stored: a read inside it may return any *)
(* word, and a read past its end returns zero.                              *)
EXTENDS Integers, Sequences

CONSTANTS
    Half,       \* 2^255: words are 0 .. 2*Half - 1, signed ones -Half .. Half - 1
    Cap,        \* 2^64 - 1, the cap on offsets, lengths and memory addresses
    WordSize,       \* 32, the bytes of a word
    Selector,   \* 4, the bytes before the arguments
    MaxHead,    \* no static type has a longer head
    Types,      \* a function from type names to descriptions of types
    Params,     \* the types of the parameters to bind
    Sizes,      \* the sizes calldata may have
    Offsets, Lengths,  \* the words an offset and a length may be read as
    Indices,    \* the indices a program may use
    Cursors     \* where the free memory pointer may stand

M == 2 * Half
Words == 0 .. M - 1

TypeRecord == [kind : {"value", "bytes", "list", "fixed", "struct"},
               dynamic : BOOLEAN, head : 0 .. MaxHead, elem : DOMAIN Types,
               n : 0 .. Cap, fields : Seq([type : DOMAIN Types, at : 0 .. MaxHead])]

WordsAssumption ==
    /\ Half \in Nat /\ Cap \in Nat /\ WordSize \in Nat \ {0} /\ Selector \in Nat
    /\ MaxHead \in Nat /\ WordSize <= MaxHead
    /\ Selector + 4 * Cap + 2 * MaxHead + 2 * WordSize < Half
    /\ \A len \in 0 .. Cap, stride \in 0 .. MaxHead :
          Selector + 2 * Cap + 2 * WordSize + len * stride < Half
TypesAssumption ==
    /\ DOMAIN Types # {} /\ Params \subseteq DOMAIN Types
    /\ \A t \in DOMAIN Types :
          /\ Types[t] \in TypeRecord
          /\ Types[t].dynamic => Types[t].kind # "value"
          /\ Types[t].kind \in {"bytes", "list"} => Types[t].dynamic
          /\ Types[t].kind = "fixed" /\ Types[t].dynamic => Types[Types[t].elem].dynamic
InputsAssumption ==
    /\ Sizes \subseteq 0 .. Cap /\ Indices \subseteq Words
    /\ Offsets \subseteq Words /\ Lengths \subseteq Words /\ Cursors \subseteq 0 .. Cap
ASSUME SlicesAssumption == WordsAssumption /\ TypesAssumption /\ InputsAssumption

(***************************************************************************)
(* Machine words: addition and subtraction wrap, slt and sgt read two's    *)
(* complement.  Products below are of a capped length and a stride, and    *)
(* never wrap.                                                             *)
(***************************************************************************)
Add(x, y) == IF x + y < M THEN x + y ELSE x + y - M
Sub(x, y) == IF y <= x THEN x - y ELSE x - y + M
Signed(x) == IF x < Half THEN x ELSE x - M
Slt(x, y) == Signed(x) < Signed(y)
Sgt(x, y) == Slt(y, x)
Negative(x) == Half <= x

VARIABLES
    size,   \* calldatasize()
    at      \* the value the program stands at
sliceVars == <<size, at>>

Value(kind, ptr, len, type) == [kind |-> kind, ptr |-> ptr, len |-> len, type |-> type]
Start == Value("start", 0, 0, CHOOSE t \in DOMAIN Types : TRUE)
Refused == [Start EXCEPT !.kind = "revert"]
Panic == [Start EXCEPT !.kind = "panic"]

OffsetAt(a) == IF a < size THEN Offsets ELSE {0}
LengthAt(a) == IF a < size THEN Lengths ELSE {0}

Dynamic(t) == Types[t].dynamic
\* The bytes one element takes after the length word: inline, or one offset.
Stride(t) == IF Dynamic(t) THEN WordSize ELSE Types[t].head
\* The bytes of a dynamic value's head that must be readable: the whole head
\* of a tuple, the first word of anything else.
HeadBytes(t) == IF Types[t].kind = "struct" THEN Types[t].head ELSE WordSize

(***************************************************************************)
(* The decoders, given the words they read.                                *)
(***************************************************************************)
\* An array whose length word is at p: eager, the elements must fit.
EagerArray(p, len, stride, t) ==
    IF \/ ~Slt(Add(p, WordSize - 1), size)
       \/ len > Cap
       \/ Add(Add(p, WordSize), len * stride) > size
    THEN Refused ELSE Value("array", Add(p, WordSize), len, t)
CalldataArray(off, len, stride, t) ==
    IF off > Cap THEN Refused ELSE EagerArray(Add(Selector, off), len, stride, t)
CalldataDynArray(off, len, t) ==
    IF off > Cap THEN Refused ELSE EagerArray(Add(Selector, off), len, WordSize, t)
CalldataArrayAt(base, off, len, stride, t) ==
    IF off > Cap THEN Refused ELSE EagerArray(Add(base, off), len, stride, t)

\* Mutant: the payload's bound forgets the length word in front of it.
LazyTailUnworded(base, off, len, stride, kind, t) ==
    LET lenPtr == Add(base, off)
    IN IF \/ ~Slt(off, Sub(Sub(size, base), WordSize - 1))
          \/ len > Cap
          \/ Sgt(lenPtr, Sub(size, len * stride))
       THEN Refused ELSE Value(kind, Add(lenPtr, WordSize), len, t)
\* The lazy decoders of bytes and inner arrays share access_calldata_tail.
LazyTail(base, off, len, stride, kind, t) ==
    LET lenPtr == Add(base, off)
    IN IF \/ ~Slt(off, Sub(Sub(size, base), WordSize - 1))
          \/ len > Cap
          \/ Sgt(lenPtr, Sub(size, len * stride + WordSize))
       THEN Refused ELSE Value(kind, Add(lenPtr, WordSize), len, t)
CalldataDynElem(base, off, len, t) == LazyTail(base, off, len, 1, "bytes", t)
CalldataDynAt(base, off, len, t) == LazyTail(base, off, len, 1, "bytes", t)
CalldataInnerArray(base, off, len, t) ==
    LazyTail(base, off, len, Stride(Types[t].elem), "array", t)

\* A level whose elements have no length word: a table of N offsets.
CalldataNestedOff(base, off, t) ==
    IF ~Slt(off, Sub(Sub(size, base), WordSize - 1)) THEN Refused
    ELSE Value("table", Add(base, off), Types[t].n, t)
CalldataFixedField(base, off, t) ==
    IF ~Slt(off, Sub(Sub(size, base), Types[t].n * WordSize - 1)) THEN Refused
    ELSE Value("table", Add(base, off), Types[t].n, t)

CalldataTuple(off, t) ==
    IF \/ off > Cap
       \/ Add(Add(Selector, off), Types[t].head) > size
    THEN Refused ELSE Value("tuple", Add(Selector, off), 0, t)
CalldataTupleAt(base, offPtr, off, t) ==
    IF \/ Add(offPtr, WordSize) > size
       \/ off > Cap
       \/ Add(Add(base, off), Types[t].head) > size
    THEN Refused ELSE Value("tuple", Add(base, off), 0, t)

CalldataDyn(off, len, t) ==
    LET args == Sub(size, Selector)
    IN IF \/ args < WordSize \/ off > Sub(args, WordSize)
          \/ len > Sub(Sub(args, off), WordSize)
       THEN Refused ELSE Value("bytes", Add(Add(Selector, off), WordSize), len, t)
RoundUpWords(len) == ((len + WordSize - 1) \div WordSize) * WordSize
CalldataDynMem(off, len, free, t) ==
    LET lp == Add(Selector, off)
    IN IF off > Cap \/ ~Slt(Add(lp, WordSize - 1), size) THEN Refused
       ELSE IF len > Cap \/ free + RoundUpWords(len) + WordSize > Cap THEN Panic
       ELSE IF Add(Add(lp, WordSize), len) > size THEN Refused
       ELSE Value("bytes", Add(lp, WordSize), len, t)

\* The echo decoders only make sure the length word is readable; the copy to
\* memory that follows caps the allocation and then bounds the payload.
EchoCopy(lenPtr, len, stride, cursor, oversized, kind, t) ==
    IF Add(lenPtr, WordSize) > size THEN Refused
    ELSE IF len > Cap \/ cursor + WordSize + RoundUpWords(len * stride) > Cap THEN oversized
    ELSE IF Add(Add(lenPtr, WordSize), len * stride) > size THEN Refused
    ELSE Value(kind, Add(lenPtr, WordSize), len, t)
CalldataDynElemEcho(base, off, len, cursor, t) ==
    IF off > Cap THEN Refused ELSE EchoCopy(Add(base, off), len, 1, cursor, Panic, "bytes", t)
CalldataDynAtEcho(base, off, len, cursor, t) ==
    IF off > Cap THEN Refused ELSE EchoCopy(Add(base, off), len, 1, cursor, Refused, "bytes", t)
CalldataInnerArrayEcho(base, off, len, cursor, t) ==
    IF off > Cap THEN Refused
    ELSE EchoCopy(Add(base, off), len, Stride(Types[t].elem), cursor, Panic, "array", t)

\* The tuple of an element of a struct array: field by field, or as a whole.
ElementTuple(base, off, t) ==
    IF ~Slt(off, Sub(Sub(size, base), Types[t].head - 1)) THEN Refused
    ELSE Value("tuple", Add(base, off), 0, t)
CdArrayElemBase(base, off, t) ==
    IF \/ off > Cap
       \/ Add(Add(base, off), HeadBytes(t)) > size
    THEN Refused
    ELSE Value(IF Types[t].kind = "struct" THEN "tuple" ELSE "header", Add(base, off), 0, t)

(***************************************************************************)
(* Binding a parameter: the static head has been found readable, so size   *)
(* is at least Selector plus it.  A fixed array of dynamic elements is     *)
(* bound as an array of its N offsets, all of them readable.               *)
(***************************************************************************)
HeadOf(t) == IF Dynamic(t) THEN WordSize ELSE Types[t].head

BindParam(t) ==
    /\ at.kind = "start"
    /\ UNCHANGED size
    /\ LET ty == Types[t]  e == Types[ty.elem]
       IN IF size < Selector + HeadOf(t) THEN at' = Refused
          ELSE IF ~ty.dynamic THEN at' = Value("static", Selector, 0, t)
          ELSE \E off \in Offsets :
                 CASE ty.kind = "struct" -> at' = CalldataTuple(off, t)
                   [] ty.kind = "fixed" ->
                        at' = IF off > Cap \/ Selector + off + ty.n * WordSize > size THEN Refused
                              ELSE Value("array", Selector + off, ty.n, t)
                   [] ty.kind = "list" -> \E len \in LengthAt(Add(Selector, off)) :
                        at' = IF e.dynamic THEN CalldataDynArray(off, len, t)
                              ELSE CalldataArray(off, len, e.head, t)
                   [] ty.kind = "bytes" -> \E len \in LengthAt(Add(Selector, off)) :
                        at' = CalldataDyn(off, len, t)

\* The second argument of a proxy's admin entry, decoded as bytes in memory.
BindAdminData(t) ==
    /\ at.kind = "start" /\ Types[t].kind = "bytes"
    /\ \E off \in Offsets, free \in Cursors : \E len \in LengthAt(Add(Selector, off)) :
          at' = IF size < Selector + 2 * WordSize THEN Refused ELSE CalldataDynMem(off, len, free, t)
    /\ UNCHANGED size

(***************************************************************************)
(* Moving on from a value.                                                 *)
(***************************************************************************)
IsArray == at.kind \in {"array", "table"}
Elem == Types[at.type].elem
Bounded(i, next) == IF i < at.len THEN next ELSE Panic

\* An element of an array of static elements, or of a static fixed array.
StaticElement(i) ==
    /\ IsArray /\ ~Dynamic(Elem)
    /\ at' = Bounded(i, Value("static", Add(at.ptr, i * Stride(Elem)), 0, Elem))
    /\ UNCHANGED size

StaticIndex(i) ==
    /\ at.kind = "static" /\ Types[at.type].kind = "fixed"
    /\ at' = IF i < Types[at.type].n
             THEN Value("static", Add(at.ptr, i * Types[Elem].head), 0, Elem) ELSE Panic
    /\ UNCHANGED size

\* An element found through the table of offsets, as the program next needs it.
\* A field of a struct is reached in an array only: the analyzer refuses it in a
\* fixed array that is itself an element or a field.
DynamicElement(i) ==
    /\ IsArray /\ Dynamic(Elem)
    /\ Types[Elem].kind = "struct" => at.kind = "array"
    /\ UNCHANGED size
    /\ \/ i >= at.len /\ at' = Panic
       \/ /\ i < at.len
          /\ \E off \in OffsetAt(Add(at.ptr, i * WordSize)) :
                CASE Types[Elem].kind = "struct" -> at' = ElementTuple(at.ptr, off, Elem)
                  [] Types[Elem].kind = "fixed" -> at' = CalldataNestedOff(at.ptr, off, Elem)
                  [] OTHER -> \E len \in LengthAt(Add(at.ptr, off)) :
                        at' = IF Types[Elem].kind = "bytes"
                              THEN CalldataDynElem(at.ptr, off, len, Elem)
                              ELSE CalldataInnerArray(at.ptr, off, len, Elem)

WholeElement(i) ==
    /\ IsArray /\ Dynamic(Elem)
    /\ UNCHANGED size
    /\ \/ i >= at.len /\ at' = Panic
       \/ /\ i < at.len
          /\ \E off \in OffsetAt(Add(at.ptr, i * WordSize)) : at' = CdArrayElemBase(at.ptr, off, Elem)

EchoElement(i, cursor) ==
    /\ IsArray /\ i < at.len /\ Types[Elem].kind \in {"bytes", "list"}
    /\ UNCHANGED size
    /\ \E off \in OffsetAt(Add(at.ptr, i * WordSize)) : \E len \in LengthAt(Add(at.ptr, off)) :
          at' = IF Types[Elem].kind = "bytes"
                THEN CalldataDynElemEcho(at.ptr, off, len, cursor, Elem)
                ELSE CalldataInnerArrayEcho(at.ptr, off, len, cursor, Elem)

\* a.slice(start, end) of an array of one-block elements.
Slice(from, to) ==
    /\ at.kind = "array" /\ ~Dynamic(Elem)
    /\ at' = IF from > to \/ to > at.len THEN Refused
             ELSE [at EXCEPT !.ptr = Add(at.ptr, from * Stride(Elem)), !.len = to - from]
    /\ UNCHANGED size

FieldsOf(t) == {Types[t].fields[k] : k \in 1 .. Len(Types[t].fields)}

StaticField(f) ==
    /\ at.kind \in {"tuple", "static"} /\ Types[at.type].kind = "struct"
    /\ f \in FieldsOf(at.type) /\ ~Dynamic(f.type)
    /\ at' = Value("static", Add(at.ptr, f.at), 0, f.type)
    /\ UNCHANGED size

DynamicField(f) ==
    /\ at.kind = "tuple" /\ f \in FieldsOf(at.type) /\ Dynamic(f.type)
    /\ UNCHANGED size
    /\ LET offPtr == Add(at.ptr, f.at)  ty == Types[f.type]
       IN \E off \in OffsetAt(offPtr) :
            CASE ty.kind = "struct" -> at' = CalldataTupleAt(at.ptr, offPtr, off, f.type)
              [] ty.kind = "fixed" -> at' = CalldataFixedField(at.ptr, off, f.type)
              [] OTHER -> \E len \in LengthAt(Add(at.ptr, off)) :
                    at' = IF ty.kind = "bytes" THEN CalldataDynAt(at.ptr, off, len, f.type)
                          ELSE CalldataArrayAt(at.ptr, off, len, Stride(ty.elem), f.type)

EchoField(f, cursor) ==
    /\ at.kind = "tuple" /\ f \in FieldsOf(at.type) /\ Types[f.type].kind = "bytes"
    /\ UNCHANGED size
    /\ \E off \in OffsetAt(Add(at.ptr, f.at)) : \E len \in LengthAt(Add(at.ptr, off)) :
          at' = CalldataDynAtEcho(at.ptr, off, len, cursor, f.type)

\* The header of a whole array field, for the codec that copies it.
FieldHeader(f) ==
    /\ at.kind = "tuple" /\ f \in FieldsOf(at.type) /\ Types[f.type].kind = "list"
    /\ UNCHANGED size
    /\ \E off \in OffsetAt(Add(at.ptr, f.at)) :
          at' = IF off > Cap \/ ~Slt(Add(Add(at.ptr, off), WordSize - 1), size) THEN Refused
                ELSE Value("header", Add(at.ptr, off), 0, f.type)

SliceInit == size \in Sizes /\ at = Start

SliceNext ==
    \/ \E t \in Params : BindParam(t) \/ BindAdminData(t)
    \/ \E i \in Indices : StaticElement(i) \/ StaticIndex(i) \/ DynamicElement(i) \/ WholeElement(i)
    \/ \E i \in Indices, cursor \in Cursors : EchoElement(i, cursor)
    \/ \E i, j \in Indices : Slice(i, j)
    \/ \E f \in FieldsOf(at.type) : StaticField(f) \/ DynamicField(f) \/ FieldHeader(f)
    \/ \E f \in FieldsOf(at.type), cursor \in Cursors : EchoField(f, cursor)

SliceSpec == SliceInit /\ [][SliceNext]_sliceVars

---------------------------------------------------------------------------
(***************************************************************************)
(* Properties.                                                             *)
(***************************************************************************)
SliceTypeOK ==
    /\ size \in 0 .. Cap
    /\ at \in [kind : {"start", "array", "bytes", "table", "tuple", "static", "header",
                       "revert", "panic"},
               ptr : Words, len : 0 .. Cap, type : DOMAIN Types]

ByteLen == at.len * (IF at.kind = "bytes" THEN 1 ELSE Stride(Elem))

\* Whatever the offsets and lengths in calldata are, and through however many
\* levels it was reached, a bytes value or array that is not empty lies inside
\* calldata: no decoder is talked into a value whose bytes are not there, not
\* even by a sum that wraps.
SliceInCalldata == at.kind \in {"bytes", "array"} /\ at.len > 0 => at.ptr + ByteLen <= size

\* The tuple of a struct is inside calldata with its whole head, unless a lazy
\* access let its address wrap below zero, where every read returns zero.
TupleReadable == at.kind = "tuple" => Negative(at.ptr) \/ at.ptr + Types[at.type].head <= size

\* Both, of every value a program reaches.
CalldataIsBounded == SliceTypeOK /\ SliceInCalldata /\ TupleReadable

\* An element of an array of static elements is read inside calldata: the
\* index was checked against a length whose elements all fit.
ElementReadable ==
    [][at.kind = "array" /\ at'.kind = "static" =>
          at'.ptr + Types[at'.type].head <= size]_sliceVars

\* A slice of an array is part of it.
SliceNarrows ==
    [][at.kind = "array" /\ at'.kind = "array" /\ at'.type = at.type /\ ~Dynamic(Elem) /\ at'.len > 0 =>
          at.ptr <= at'.ptr /\ at'.ptr + at'.len * Stride(Elem) <= at.ptr + at.len * Stride(Elem)]_sliceVars

\* calldataNestedOff's comment has it validate its offset unsigned.
NestedOffsetsUnsigned ==
    [][IsArray /\ at'.kind = "table" => at.ptr <= at'.ptr /\ ~Negative(at'.ptr)]_sliceVars

\* The binding of a parameter, and of a struct's field, requires the whole
\* N-word table of a fixed array of dynamic elements to be readable.
TableReadable == at.kind = "table" => Negative(at.ptr) \/ at.ptr + at.len * WordSize <= size
===========================================================================
