----------------------------- MODULE ByteString -----------------------------
(* What a `bytes` state variable promises the contract that holds it: it is  *)
(* a sequence of bytes, each operation does to the sequence what its name    *)
(* says, an operation that panics changes nothing, and a call that panics    *)
(* part way gives back the sequence it found.  What an indexed read answers  *)
(* is left open here.  StorageBytes.tla shows that the one-word and          *)
(* many-word layout of the generated code keeps the promise.                 *)
EXTENDS Integers, Sequences

CONSTANTS Byte,      \* the bytes that can be stored, zero among them
          Values,    \* the sequences that can be assigned
          Index      \* the indices a caller may use

VARIABLES value,     \* the bytes held
          before,    \* <<>>, or <<v>>: a call is under way that found v
          last       \* the last operation, its arguments and its answer

vars == <<value, before, last>>

Did(op, i, b, v) == [op |-> op, at |-> i, byte |-> b, value |-> v]

Init == value = <<>> /\ before = <<>> /\ last = Did("none", 0, 0, <<>>)

-----------------------------------------------------------------------------

Push(b) == /\ value' = Append(value, b)
           /\ last' = Did("push", 0, b, <<>>)
           /\ UNCHANGED before

Pop == /\ value # <<>>
       /\ value' = SubSeq(value, 1, Len(value) - 1)
       /\ last' = Did("pop", 0, 0, <<>>)
       /\ UNCHANGED before

Set(i, b) == /\ i \in 0 .. Len(value) - 1
             /\ value' = [value EXCEPT ![i + 1] = b]
             /\ last' = Did("set", i, b, <<>>)
             /\ UNCHANGED before

Assign(v) == /\ value' = v
             /\ last' = Did("assign", 0, 0, v)
             /\ UNCHANGED before

Clear == /\ value' = <<>>
         /\ last' = Did("clear", 0, 0, <<>>)
         /\ UNCHANGED before

\* An operation that panics ends the call it belongs to.
Revert(panic) == /\ value' = IF before = <<>> THEN value ELSE before[1]
                 /\ before' = <<>>
                 /\ last' = panic

EmptyPop == value = <<>> /\ Revert(Did("empty pop", 0, 0, <<>>))

NoByteToSet == \E i \in Index : /\ i >= Len(value)
                              /\ Revert(Did("no byte to set", i, 0, <<>>))

StartRead == /\ before = <<>> /\ before' = <<value>>
             /\ last' = Did("start", 0, 0, <<>>)
             /\ UNCHANGED value

FinishRead == /\ before # <<>>
              /\ \/ /\ last'.op = "byte" /\ before' = <<>> /\ UNCHANGED value
                 \/ /\ last'.op = "no byte to read" /\ Revert(last')

Next == \/ \E b \in Byte : Push(b) \/ \E i \in Index : Set(i, b)
        \/ \E v \in Values : Assign(v)
        \/ Pop \/ Clear \/ EmptyPop \/ NoByteToSet \/ StartRead \/ FinishRead

Spec == Init /\ [][Next]_vars
=============================================================================
