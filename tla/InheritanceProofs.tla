-------------------------- MODULE InheritanceProofs --------------------------
(***************************************************************************)
(* Proofs about Inheritance.tla for hierarchies of any number of classes,  *)
(* with any lists of bases and any versions of the function: linearize     *)
(* returns what C3 should and gives up only when it must, and accepted     *)
(* overrides are substitutable for what they override.                     *)
(***************************************************************************)
EXTENDS Inheritance, SequenceTheorems, FiniteSetTheorems, WellFoundedInduction, TLAPS

-----------------------------------------------------------------------------
(* Sequences. *)

\* A set of numbers has a least one.
LEMMA LeastNumber ==
  ASSUME NEW S, S \subseteq Nat, S # {}
  PROVE  \E i \in S : \A j \in S : i <= j
<1>1. PICK i \in S : \A j \in S : ~(<<j, i>> \in OpToRel(<, Nat))
  BY NatLessThanWellFounded, WFMin
<1>2. ASSUME NEW j \in S
      PROVE  i <= j
  <2>1. i \in Nat /\ j \in Nat
    BY <1>1
  <2>2. ~(j < i)
    BY <1>1, <2>1 DEF OpToRel
  <2> QED
    BY <2>1, <2>2
<1> QED
  BY <1>1, <1>2

LEMMA ReverseFacts ==
  ASSUME NEW S, NEW s \in Seq(S)
  PROVE  /\ Reverse(s) \in Seq(S) /\ Len(Reverse(s)) = Len(s)
         /\ \A i \in 1..Len(s) : Reverse(s)[i] = s[Len(s) - i + 1]
         /\ ToSet(Reverse(s)) = ToSet(s)
<1> DEFINE n == Len(s)
           r == Reverse(s)
<1>1. n \in Nat /\ DOMAIN s = 1..n /\ \A i \in 1..n : s[i] \in S
  BY LenProperties, ElementOfSeq
<1>2. r = [i \in 1..n |-> s[n - i + 1]]
  BY DEF Reverse
<1> HIDE DEF n, r
<1>3. \A i \in 1..n : n - i + 1 \in 1..n /\ n - (n - i + 1) + 1 = i
  BY <1>1
<1>4. r \in [1..n -> S]
  BY <1>1, <1>2, <1>3
<1>5. r \in Seq(S) /\ Len(r) = n /\ DOMAIN r = 1..n
  <2>1. r \in Seq(S)
    BY <1>1, <1>4, SeqDef
  <2> QED
    BY <1>1, <1>2, <2>1, LenProperties
<1>6. \A i \in 1..n : r[i] = s[n - i + 1]
  BY <1>2
<1>7. ToSet(r) = ToSet(s)
  <2>1. ASSUME NEW x \in ToSet(r)  PROVE x \in ToSet(s)
    BY <1>1, <1>3, <1>5, <1>6, <2>1 DEF ToSet
  <2>2. ASSUME NEW x \in ToSet(s)  PROVE x \in ToSet(r)
    <3>1. PICK i \in 1..n : x = s[i]
      BY <1>1, <2>2 DEF ToSet
    <3>2. r[n - i + 1] = x /\ n - i + 1 \in 1..n
      BY <1>3, <1>6, <3>1
    <3> QED
      BY <1>5, <3>2 DEF ToSet
  <2> QED
    BY <2>1, <2>2
<1> QED
  BY <1>5, <1>6, <1>7 DEF n, r

LEMMA AppendFacts ==
  ASSUME NEW S, NEW s \in Seq(S), NEW e \in S
  PROVE  /\ Append(s, e) \in Seq(S) /\ DOMAIN Append(s, e) = 1..(Len(s) + 1)
         /\ Append(s, e)[Len(s) + 1] = e /\ \A i \in DOMAIN s : Append(s, e)[i] = s[i]
         /\ ToSet(Append(s, e)) = ToSet(s) \cup {e}
         /\ IsInjective(s) /\ e \notin ToSet(s) => IsInjective(Append(s, e))
<1> DEFINE n == Len(s)
           a == Append(s, e)
<1>1. n \in Nat /\ DOMAIN s = 1..n
  BY LenProperties
<1>2. a \in Seq(S) /\ Len(a) = n + 1 /\ a[n + 1] = e /\ \A i \in 1..n : a[i] = s[i]
  BY AppendProperties
<1> HIDE DEF n, a
<1>3. DOMAIN a = 1..(n + 1)
  BY <1>2, LenProperties
<1>4. \A i \in 1..(n + 1) : i \in 1..n \/ i = n + 1
  BY <1>1
<1>5. n + 1 \in 1..(n + 1) /\ \A i \in 1..n : i \in 1..(n + 1)
  BY <1>1
<1>6. ToSet(a) = ToSet(s) \cup {e}
  <2>1. \A x \in ToSet(a) : x \in ToSet(s) \cup {e}
    BY <1>1, <1>2, <1>3, <1>4 DEF ToSet
  <2>2. \A x \in ToSet(s) \cup {e} : x \in ToSet(a)
    BY <1>1, <1>2, <1>3, <1>5 DEF ToSet
  <2> QED
    BY <2>1, <2>2
<1>7. ASSUME IsInjective(s), e \notin ToSet(s)  PROVE IsInjective(a)
  <2> SUFFICES ASSUME NEW i \in 1..(n + 1), NEW j \in 1..(n + 1), a[i] = a[j]  PROVE i = j
    BY <1>3 DEF IsInjective
  <2>1. \A k \in 1..n : s[k] # e
    BY <1>1, <1>7 DEF ToSet
  <2> QED
    BY <1>1, <1>2, <1>4, <1>7, <2>1 DEF IsInjective
<1> QED
  BY <1>1, <1>2, <1>3, <1>6, <1>7 DEF n, a

\* What an order says of two classes, a longer one says.
LEMMA BeforeAppend ==
  ASSUME NEW S, NEW o \in Seq(S), NEW e \in S, NEW x, NEW y
  PROVE  /\ Before(x, y, o) => Before(x, y, Append(o, e))
         /\ x \in ToSet(o) => Before(x, e, Append(o, e))
<1> DEFINE a == Append(o, e)
<1>1. /\ DOMAIN a = 1..(Len(o) + 1) /\ a[Len(o) + 1] = e
      /\ \A i \in DOMAIN o : a[i] = o[i]
  BY AppendFacts
<1>2. Len(o) \in Nat /\ DOMAIN o = 1..Len(o)
  BY LenProperties
<1> HIDE DEF a
<1>3. ASSUME Before(x, y, o)  PROVE Before(x, y, a)
  BY <1>1, <1>2, <1>3 DEF Before
<1>4. ASSUME x \in ToSet(o)  PROVE Before(x, e, a)
  <2>1. PICK i \in DOMAIN o : o[i] = x
    BY <1>4 DEF ToSet
  <2>2. i < Len(o) + 1 /\ i \in DOMAIN a /\ Len(o) + 1 \in DOMAIN a /\ a[i] = x
    BY <1>1, <1>2, <2>1
  <2> QED
    BY <1>1, <2>2 DEF Before
<1> QED
  BY <1>3, <1>4 DEF a

\* A class in front of an order.
LEMMA InFront ==
  ASSUME NEW S, NEW c \in S, NEW o \in Seq(S)
  PROVE  /\ <<c>> \o o \in Seq(S) /\ <<c>> \o o # <<>> /\ Head(<<c>> \o o) = c
         /\ ToSet(<<c>> \o o) = {c} \cup ToSet(o)
         /\ IsInjective(o) /\ c \notin ToSet(o) => IsInjective(<<c>> \o o)
         /\ \A s : Keeps(o, s) => Keeps(<<c>> \o o, s)
         /\ \A x \in ToSet(o) : Before(c, x, <<c>> \o o)
<1> DEFINE n == Len(o)
           a == <<c>> \o o
<1>0. <<c>> \in Seq(S) /\ Len(<<c>>) = 1 /\ <<c>>[1] = c
  OBVIOUS
<1>1. n \in Nat /\ DOMAIN o = 1..n
  BY LenProperties
<1>2. a \in Seq(S) /\ Len(a) = n + 1 /\ a[1] = c /\ \A i \in 1..n : a[i + 1] = o[i]
  <2>1. a \in Seq(S) /\ Len(a) = 1 + n
        /\ \A i \in 1..(1 + n) : a[i] = IF i <= 1 THEN <<c>>[i] ELSE o[i - 1]
    BY <1>0, ConcatProperties
  <2>2. \A i \in 1..n : i + 1 \in 1..(1 + n) /\ ~(i + 1 <= 1) /\ (i + 1) - 1 = i
    BY <1>1
  <2>3. 1 \in 1..(1 + n)
    BY <1>1
  <2> QED
    BY <1>0, <1>1, <2>1, <2>2, <2>3
<1> HIDE DEF n, a
<1>3. DOMAIN a = 1..(n + 1) /\ a # <<>>
  <2>1. DOMAIN a = 1..(n + 1)
    BY <1>2, LenProperties
  <2>2. 1 \in DOMAIN a /\ DOMAIN <<>> = {}
    BY <1>1, <2>1
  <2> QED
    BY <2>1, <2>2
<1>4. Head(a) = c
  BY <1>2, <1>3
<1>5. \A i \in 1..(n + 1) : i = 1 \/ (i - 1 \in 1..n /\ a[i] = o[i - 1])
  <2> TAKE i \in 1..(n + 1)
  <2>1. i = 1 \/ (i - 1 \in 1..n /\ (i - 1) + 1 = i)
    BY <1>1
  <2> QED
    BY <1>2, <2>1
<1>6. \A i \in 1..n : i + 1 \in 1..(n + 1)
  BY <1>1
<1>7. ToSet(a) = {c} \cup ToSet(o)
  <2>1. \A x \in ToSet(a) : x \in {c} \cup ToSet(o)
    <3> TAKE x \in ToSet(a)
    <3>1. PICK i \in 1..(n + 1) : a[i] = x
      BY <1>3 DEF ToSet
    <3>2. CASE i = 1
      BY <1>2, <3>1, <3>2
    <3>3. CASE i - 1 \in 1..n /\ a[i] = o[i - 1]
      BY <1>1, <3>1, <3>3 DEF ToSet
    <3> QED
      BY <1>5, <3>2, <3>3
  <2>2. 1 \in 1..(n + 1)
    BY <1>1
  <2>3. \A x \in {c} \cup ToSet(o) : x \in ToSet(a)
    BY <1>1, <1>2, <1>3, <1>6, <2>2 DEF ToSet
  <2> QED
    BY <2>1, <2>3
<1>8. ASSUME IsInjective(o), c \notin ToSet(o)  PROVE IsInjective(a)
  <2> SUFFICES ASSUME NEW i \in 1..(n + 1), NEW j \in 1..(n + 1), a[i] = a[j]  PROVE i = j
    BY <1>3 DEF IsInjective
  <2>1. \A k \in 1..n : o[k] # c
    BY <1>1, <1>8 DEF ToSet
  <2>2. i = 1 <=> j = 1
    BY <1>2, <1>5, <2>1
  <2>3. CASE i # 1 /\ j # 1
    <3>1. i - 1 \in 1..n /\ j - 1 \in 1..n /\ o[i - 1] = o[j - 1]
      BY <1>5, <2>3
    <3>2. i - 1 = j - 1
      BY <1>1, <1>8, <3>1 DEF IsInjective
    <3> QED
      BY <1>1, <3>2
  <2> QED
    BY <2>2, <2>3
<1>9. ASSUME NEW s, Keeps(o, s)  PROVE Keeps(a, s)
  <2> SUFFICES ASSUME NEW x, NEW y, Before(x, y, o)  PROVE Before(x, y, a)
    BY <1>9 DEF Keeps
  <2>1. PICK i \in 1..n, j \in 1..n : i < j /\ o[i] = x /\ o[j] = y
    BY <1>1 DEF Before
  <2>2. i + 1 < j + 1 /\ a[i + 1] = x /\ a[j + 1] = y
    BY <1>1, <1>2, <2>1
  <2> QED
    BY <1>3, <1>6, <2>2 DEF Before
<1>10. ASSUME NEW x \in ToSet(o)  PROVE Before(c, x, a)
  <2>1. PICK i \in 1..n : o[i] = x
    BY <1>1, <1>10 DEF ToSet
  <2>2. 1 < i + 1 /\ 1 \in 1..(n + 1) /\ a[i + 1] = x
    BY <1>1, <1>2, <2>1
  <2> QED
    BY <1>2, <1>3, <1>6, <2>2 DEF Before
<1> QED
  BY <1>2, <1>3, <1>4, <1>7, <1>8, <1>9, <1>10 DEF a

\* An order that keeps a second one keeps what the second keeps.
LEMMA KeepsTransitive ==
  ASSUME NEW o, NEW s, NEW t, Keeps(o, s), Keeps(s, t)
  PROVE  Keeps(o, t)
BY DEF Keeps, Before

-----------------------------------------------------------------------------
(* c3Merge. *)

\* How far sequence s is merged: rest is what is left of it, o has the others, in
\* the order of s.
Merged(s, rest, o) ==
  \E k \in 0..Len(s) :
    /\ Len(rest) = Len(s) - k /\ \A p \in 1..(Len(s) - k) : rest[p] = s[p + k]
    /\ \A p \in 1..Len(s) : s[p] \in ToSet(o) <=> p <= k
    /\ \A p, q \in 1..k : p < q => Before(s[p], s[q], o)

LEMMA MergedNothing ==
  ASSUME NEW S, NEW s \in Seq(S)
  PROVE  Merged(s, s, <<>>)
<1>1. Len(s) \in Nat
  BY LenProperties
<1>2. 0 \in 0..Len(s) /\ Len(s) = Len(s) - 0
  BY <1>1
<1>3. \A p \in 1..(Len(s) - 0) : s[p] = s[p + 0]
  BY <1>1
<1>4. ToSet(<<>>) = {}
  BY DEF ToSet
<1>5. \A p \in 1..Len(s) : s[p] \in ToSet(<<>>) <=> p <= 0
  BY <1>1, <1>4
<1>6. \A p, q \in 1..0 : p < q => Before(s[p], s[q], <<>>)
  OBVIOUS
<1> QED
  BY <1>2, <1>3, <1>5, <1>6 DEF Merged

LEMMA MergedAll ==
  ASSUME NEW S, NEW s \in Seq(S), NEW o, Merged(s, <<>>, o)
  PROVE  Keeps(o, s) /\ ToSet(s) \subseteq ToSet(o)
<1> DEFINE n == Len(s)
<1>1. n \in Nat /\ DOMAIN s = 1..n
  BY LenProperties
<1>2. PICK k \in 0..n :
        /\ Len(<<>>) = n - k
        /\ \A p \in 1..n : s[p] \in ToSet(o) <=> p <= k
        /\ \A p, q \in 1..k : p < q => Before(s[p], s[q], o)
  BY DEF Merged
<1> HIDE DEF n
<1>3. k = n
  <2>1. Len(<<>>) = 0
    OBVIOUS
  <2> QED
    BY <1>1, <1>2, <2>1
<1>4. Keeps(o, s)
  BY <1>1, <1>2, <1>3 DEF Keeps
<1>5. \A p \in 1..n : s[p] \in ToSet(o)
  BY <1>1, <1>2, <1>3
<1> QED
  BY <1>1, <1>4, <1>5 DEF ToSet

\* Where the first of what is left stands, and what is left behind it.
LEMMA MergedHead ==
  ASSUME NEW S, NEW s \in Seq(S), NEW rest \in Seq(S), NEW o, Merged(s, rest, o), rest # <<>>
  PROVE  /\ Head(rest) \in ToSet(s) \ ToSet(o)
         /\ \A x \in ToSet(Tail(rest)) : Before(Head(rest), x, s)
<1> DEFINE n == Len(s)
<1>1. n \in Nat /\ DOMAIN s = 1..n /\ Len(rest) \in Nat \ {0}
  BY LenProperties, EmptySeq
<1>2. PICK k \in 0..n :
        /\ Len(rest) = n - k /\ \A p \in 1..(n - k) : rest[p] = s[p + k]
        /\ \A p \in 1..n : s[p] \in ToSet(o) <=> p <= k
  BY DEF Merged
<1> HIDE DEF n
<1>3. k + 1 \in 1..n /\ ~(k + 1 <= k) /\ 1 \in 1..(n - k) /\ 1 + k = k + 1
  <2>1. k \in Nat /\ n - k >= 1
    BY <1>1, <1>2
  <2> QED
    BY <1>1, <2>1
<1>4. Head(rest) = s[k + 1]
  <2>1. Head(rest) = rest[1]
    OBVIOUS
  <2>2. rest[1] = s[1 + k]
    BY <1>2, <1>3
  <2> QED
    BY <1>3, <2>1, <2>2
<1>5. Head(rest) \in ToSet(s) \ ToSet(o)
  BY <1>1, <1>2, <1>3, <1>4 DEF ToSet
<1>6. ASSUME NEW x \in ToSet(Tail(rest))  PROVE Before(Head(rest), x, s)
  <2>1. /\ Tail(rest) \in Seq(S) /\ Len(Tail(rest)) = Len(rest) - 1
        /\ \A i \in 1..Len(Tail(rest)) : Tail(rest)[i] = rest[i + 1]
    BY HeadTailProperties
  <2>2. DOMAIN Tail(rest) = 1..Len(Tail(rest))
    BY <2>1, LenProperties
  <2>3. PICK i \in 1..Len(Tail(rest)) : Tail(rest)[i] = x
    BY <1>6, <2>2 DEF ToSet
  <2>4. i + 1 \in 1..(n - k) /\ (i + 1) + k \in 1..n /\ k + 1 < (i + 1) + k
    <3>1. i \in Nat /\ i >= 1 /\ i <= n - k - 1 /\ k \in Nat
      BY <1>1, <1>2, <2>1, <2>3
    <3> QED
      BY <1>1, <3>1
  <2>5. x = s[(i + 1) + k]
    BY <1>2, <2>1, <2>3, <2>4
  <2> QED
    BY <1>1, <1>3, <1>4, <2>4, <2>5 DEF Before
<1> QED
  BY <1>5, <1>6

\* A turn of the merge, seen from one sequence.
LEMMA MergedTurn ==
  ASSUME NEW S, NEW s \in Seq(S), NEW rest \in Seq(S), NEW o \in Seq(S), NEW pick \in S,
         Merged(s, rest, o), pick \notin ToSet(o),
         rest # <<>> => pick \notin ToSet(Tail(rest))
  PROVE  Merged(s, IF rest # <<>> /\ Head(rest) = pick THEN Tail(rest) ELSE rest, Append(o, pick))
<1> DEFINE a == Append(o, pick)
           n == Len(s)
<1>1. n \in Nat /\ DOMAIN s = 1..n
  BY LenProperties
<1>2. PICK k \in 0..n :
        /\ Len(rest) = n - k /\ \A p \in 1..(n - k) : rest[p] = s[p + k]
        /\ \A p \in 1..n : s[p] \in ToSet(o) <=> p <= k
        /\ \A p, q \in 1..k : p < q => Before(s[p], s[q], o)
  BY DEF Merged
<1>3. ToSet(a) = ToSet(o) \cup {pick}
  BY AppendFacts
<1>4. \A x, y : Before(x, y, o) => Before(x, y, a)
  BY BeforeAppend
<1>5. \A x \in ToSet(o) : Before(x, pick, a)
  BY BeforeAppend
<1> HIDE DEF a, n
<1>6. ASSUME rest # <<>>
      PROVE  /\ Len(rest) \in Nat \ {0} /\ Head(rest) = rest[1]
             /\ Tail(rest) \in Seq(S) /\ Len(Tail(rest)) = Len(rest) - 1
             /\ DOMAIN Tail(rest) = 1..Len(Tail(rest))
             /\ \A i \in 1..Len(Tail(rest)) : Tail(rest)[i] = rest[i + 1] /\ Tail(rest)[i] # pick
  <2>1. /\ Tail(rest) \in Seq(S) /\ Len(Tail(rest)) = Len(rest) - 1
        /\ \A i \in 1..Len(Tail(rest)) : Tail(rest)[i] = rest[i + 1]
    BY <1>6, HeadTailProperties
  <2>2. DOMAIN Tail(rest) = 1..Len(Tail(rest))
    BY <2>1, LenProperties
  <2>3. \A i \in 1..Len(Tail(rest)) : Tail(rest)[i] # pick
    BY <1>6, <2>2 DEF ToSet
  <2>4. Head(rest) = rest[1]
    BY <1>6
  <2>5. Len(rest) \in Nat \ {0}
    BY <1>6, EmptySeq
  <2> QED
    BY <2>1, <2>2, <2>3, <2>4, <2>5
<1>7. CASE rest # <<>> /\ Head(rest) = pick
  <2>1. k + 1 \in 0..n /\ Len(Tail(rest)) = n - (k + 1) /\ k + 1 \in 1..n
    BY <1>1, <1>2, <1>6, <1>7
  <2>2. s[k + 1] = pick
    <3>1. 1 \in 1..(n - k) /\ 1 + k = k + 1
      BY <1>1, <1>2, <1>6, <1>7
    <3> QED
      BY <1>2, <1>6, <1>7, <3>1
  <2>3. ASSUME NEW p \in 1..(n - (k + 1))  PROVE Tail(rest)[p] = s[p + (k + 1)] /\ Tail(rest)[p] # pick
    <3>1. p \in 1..Len(Tail(rest)) /\ p + 1 \in 1..(n - k) /\ (p + 1) + k = p + (k + 1)
      BY <1>1, <2>1
    <3>2. rest[p + 1] = s[(p + 1) + k]
      BY <1>2, <3>1
    <3> QED
      BY <1>6, <1>7, <3>1, <3>2
  <2>4. ASSUME NEW p \in 1..n  PROVE s[p] \in ToSet(a) <=> p <= k + 1
    <3>1. CASE p <= k
      BY <1>1, <1>2, <1>3, <3>1
    <3>2. CASE p = k + 1
      BY <1>1, <1>3, <2>2, <3>2
    <3>3. CASE p > k + 1
      <4>1. p - (k + 1) \in 1..(n - (k + 1)) /\ (p - (k + 1)) + (k + 1) = p
        BY <1>1, <2>1, <3>3
      <4>2. s[p] # pick
        BY <2>3, <4>1
      <4>3. ~(p <= k) /\ ~(p <= k + 1)
        BY <1>1, <3>3
      <4> QED
        BY <1>2, <1>3, <4>2, <4>3
    <3>4. p <= k \/ p = k + 1 \/ p > k + 1
      BY <1>1
    <3> QED
      BY <3>1, <3>2, <3>3, <3>4
  <2>5. ASSUME NEW p \in 1..(k + 1), NEW q \in 1..(k + 1), p < q  PROVE Before(s[p], s[q], a)
    <3>1. CASE q = k + 1
      <4>1. p \in 1..n /\ p <= k
        BY <1>1, <2>1, <2>5, <3>1
      <4>2. s[p] \in ToSet(o)
        BY <1>2, <4>1
      <4> QED
        BY <1>5, <2>2, <3>1, <4>2
    <3>2. CASE q # k + 1
      <4>1. p \in 1..k /\ q \in 1..k
        BY <1>1, <2>5, <3>2
      <4> QED
        BY <1>2, <1>4, <2>5, <4>1
    <3> QED
      BY <3>1, <3>2
  <2>6. Merged(s, Tail(rest), a)
    BY <2>1, <2>3, <2>4, <2>5 DEF Merged, n
  <2> QED
    BY <1>7, <2>6 DEF a
<1>8. CASE ~(rest # <<>> /\ Head(rest) = pick)
  <2>1. ASSUME NEW p \in 1..(n - k)  PROVE rest[p] # pick
    <3>1. Len(rest) \in Nat \ {0} /\ rest # <<>>
      BY <1>1, <1>2
    <3>2. CASE p = 1
      BY <1>6, <1>8, <3>1, <3>2
    <3>3. CASE p # 1
      <4>1. p - 1 \in 1..Len(Tail(rest)) /\ (p - 1) + 1 = p
        BY <1>1, <1>2, <1>6, <3>1, <3>3
      <4> QED
        BY <1>6, <3>1, <4>1
    <3> QED
      BY <3>2, <3>3
  <2>2. ASSUME NEW p \in 1..n  PROVE s[p] \in ToSet(a) <=> p <= k
    <3>1. CASE p <= k
      BY <1>2, <1>3, <3>1
    <3>2. CASE ~(p <= k)
      <4>1. p - k \in 1..(n - k) /\ (p - k) + k = p
        BY <1>1, <3>2
      <4>2. s[p] # pick
        BY <1>2, <2>1, <4>1
      <4> QED
        BY <1>2, <1>3, <3>2, <4>2
    <3> QED
      BY <3>1, <3>2
  <2>3. \A p, q \in 1..k : p < q => Before(s[p], s[q], a)
    BY <1>2, <1>4
  <2>4. Merged(s, rest, a)
    BY <1>2, <2>2, <2>3 DEF Merged, n
  <2> QED
    BY <1>8, <2>4 DEF a
<1> QED
  BY <1>7, <1>8

-----------------------------------------------------------------------------
(* The invariant. *)

\* Every linearization found is sound, and of classes that have one too.
MemoInv ==
  /\ DOMAIN memo \subseteq Classes
  /\ \A c \in DOMAIN memo :
       /\ memo[c] \in Seq(Classes) /\ memo[c] # <<>>
       /\ ToSet(memo[c]) \cup ToSet(BasesOf(c)) \subseteq DOMAIN memo
       /\ c \notin ToSet(BasesOf(c))
  /\ LinearizationSound

\* The stack leads from the deployed class to what is linearized, until it is.
StackInv ==
  /\ stack \in Seq(Classes) /\ IsInjective(stack) /\ ToSet(stack) \cap DOMAIN memo = {}
  /\ stack # <<>> => stack[1] = Deployed
  /\ stack = <<>> => Deployed \in DOMAIN memo
  /\ pc = "linearize" => stack # <<>> /\ errors = {}
  /\ pc \in {"getter", "override", "interface"} => stack = <<>>
  /\ pc # "linearize" /\ errors = {} => stack = <<>>

\* Of every sequence that is merged the output has a part in front, in its order.
MergeInv ==
  /\ seqs = <<>> => out = <<>>
  /\ seqs # <<>> =>
       /\ stack # <<>>
       /\ BasesOf(Top) \in Seq(Classes) /\ ToSet(BasesOf(Top)) \subseteq DOMAIN memo
       /\ seqs \in Seq(Seq(Classes)) /\ Len(seqs) = Len(BasesOf(Top)) + 1
       /\ \A i \in DOMAIN seqs : Merged(ToMerge[i], seqs[i], out)
       /\ out \in Seq(Classes) /\ IsInjective(out)
       /\ ToSet(out) \subseteq UNION { View(b) : b \in ToSet(BasesOf(Top)) }

Inv ==
  /\ hierarchy \in Hierarchies
  /\ pc \in {"linearize", "getter", "override", "interface", "done"}
  /\ validVar \in BOOLEAN
  /\ errors \subseteq Codes \X Classes
  /\ StackInv /\ MemoInv /\ MergeInv
  /\ LinearizationComplete

LEMMA HierarchyFacts ==
  ASSUME hierarchy \in Hierarchies
  PROVE  /\ Deployed \in Classes /\ IsFiniteSet(Classes)
         /\ \A c \in Classes : BasesOf(c) \in Seq(ToSet(BasesOf(c)))
         /\ \A c \in Classes : IsInterface(c) => \A b \in ToSet(BasesOf(c)) \cap Classes : IsInterface(b)
         /\ NoBase # Ambiguous /\ NoBase \notin Classes /\ Ambiguous \notin Classes
BY HierarchiesAssumption, MarkersAssumption DEF Classes, BasesOf, IsInterface

\* The invariant has the types of the analyzer's state.
LEMMA InvImpliesTypeOK == Inv => TypeOK
<1> SUFFICES ASSUME Inv  PROVE TypeOK
  OBVIOUS
<1>1. ToSet(stack) \subseteq Classes
  <2>1. stack \in Seq(Classes)
    BY DEF Inv, StackInv
  <2>2. DOMAIN stack = 1..Len(stack) /\ \A i \in 1..Len(stack) : stack[i] \in Classes
    BY <2>1, LenProperties, ElementOfSeq
  <2> QED
    BY <2>2 DEF ToSet
<1>2. seqs \in Seq(Seq(Classes)) /\ out \in Seq(Classes)
  <2>1. <<>> \in Seq(Seq(Classes)) /\ <<>> \in Seq(Classes)
    OBVIOUS
  <2> QED
    BY <2>1 DEF Inv, MergeInv
<1> QED
  BY <1>1, <1>2 DEF Inv, TypeOK, StackInv, MemoInv

LEMMA TopFacts ==
  ASSUME Inv, stack # <<>>
  PROVE  /\ Len(stack) \in Nat \ {0} /\ DOMAIN stack = 1..Len(stack) /\ Top = stack[Len(stack)]
         /\ Top \in ToSet(stack) /\ Top \in Classes /\ Top \notin DOMAIN memo
         /\ BasesOf(Top) \in Seq(ToSet(BasesOf(Top)))
<1>1. Len(stack) \in Nat \ {0} /\ DOMAIN stack = 1..Len(stack)
  BY LenProperties, EmptySeq DEF Inv, StackInv
<1>2. Top = stack[Len(stack)]
  BY DEF Top, Last
<1>3. Len(stack) \in 1..Len(stack)
  BY <1>1
<1>4. stack[Len(stack)] \in Classes
  BY <1>3, ElementOfSeq DEF Inv, StackInv
<1>5. Top \in ToSet(stack)
  BY <1>1, <1>2, <1>3 DEF ToSet
<1>6. Top \notin DOMAIN memo
  BY <1>5 DEF Inv, StackInv
<1> QED
  BY <1>1, <1>2, <1>4, <1>5, <1>6, HierarchyFacts DEF Inv

LEMMA FrontFacts ==
  ASSUME Inv, stack # <<>>
  PROVE  /\ Front(stack) \in Seq(Classes) /\ IsInjective(Front(stack))
         /\ ToSet(Front(stack)) \subseteq ToSet(stack) \ {Top}
         /\ Front(stack) # <<>> => Front(stack)[1] = Deployed
         /\ Front(stack) = <<>> => Top = Deployed
<1> DEFINE n == Len(stack)
           f == Front(stack)
<1>1. n \in Nat \ {0} /\ DOMAIN stack = 1..n /\ Top = stack[n] /\ stack \in Seq(Classes)
  BY TopFacts DEF Inv, StackInv
<1>2. stack[1] = Deployed /\ IsInjective(stack)
  BY DEF Inv, StackInv
<1>3. f \in Seq(Classes) /\ Len(f) = n - 1 /\ \A i \in 1..(n - 1) : f[i] = stack[i]
  <2>1. stack # <<>> /\ f = SubSeq(stack, 1, n - 1)
    BY DEF Front
  <2> HIDE DEF f, n
  <2>2. \A i \in 1..(n - 1) : stack[i] \in Classes
    BY <1>1, ElementOfSeq DEF n
  <2>3. f = [i \in 1..(n - 1) |-> stack[i]]
    BY <1>1, <2>1
  <2>4. f \in Seq(Classes)
    BY <1>1, <2>2, <2>3, SeqDef
  <2>5. Len(f) = n - 1
    BY <1>1, <2>3, <2>4, LenProperties
  <2> QED
    BY <2>3, <2>4, <2>5
<1> HIDE DEF f, n
<1>4. DOMAIN f = 1..(n - 1)
  BY <1>3, LenProperties
<1>5. \A i \in 1..(n - 1) : i \in 1..n /\ i # n
  BY <1>1
<1>6. IsInjective(f)
  BY <1>1, <1>2, <1>3, <1>4, <1>5 DEF IsInjective
<1>7. n \in 1..n
  BY <1>1
<1>8. ASSUME NEW x \in ToSet(f)  PROVE x \in ToSet(stack) \ {Top}
  <2>1. PICK i \in 1..(n - 1) : f[i] = x
    BY <1>4, <1>8 DEF ToSet
  <2>2. stack[i] = x /\ i \in 1..n /\ stack[i] # stack[n]
    BY <1>1, <1>2, <1>3, <1>5, <1>7, <2>1 DEF IsInjective
  <2> QED
    BY <1>1, <2>2 DEF ToSet
<1>9. ASSUME f # <<>>  PROVE f[1] = Deployed
  <2>1. Len(f) \in Nat \ {0}
    BY <1>3, <1>9, EmptySeq
  <2>2. 1 \in 1..(n - 1)
    BY <1>1, <1>3, <2>1
  <2> QED
    BY <1>2, <1>3, <2>2
<1>10. ASSUME f = <<>>  PROVE Top = Deployed
  <2>1. Len(f) = 0
    BY <1>10
  <2>2. n = 1
    BY <1>1, <1>3, <2>1
  <2> QED
    BY <1>1, <1>2, <2>2
<1> QED
  BY <1>3, <1>6, <1>8, <1>9, <1>10 DEF f

LEMMA PendingFacts ==
  ASSUME Inv, Linearizing, BasesKnown
  PROVE  /\ BasesOf(Top) \in Seq(Classes)
         /\ Pending = {} => ToSet(BasesOf(Top)) \subseteq DOMAIN memo
         /\ Pending # {} => NextBase \in Classes \ DOMAIN memo
<1> DEFINE bs == BasesOf(Top)
           n == Len(bs)
<1>1. bs \in Seq(ToSet(bs))
  BY TopFacts DEF Linearizing
<1>2. n \in Nat /\ DOMAIN bs = 1..n
  BY <1>1, LenProperties
<1>3. \A i \in 1..n : bs[i] \in Classes
  BY <1>2 DEF BasesKnown, Offending
<1>4. ToSet(bs) \subseteq Classes
  BY <1>2, <1>3 DEF ToSet
<1>5. bs \in Seq(Classes)
  BY <1>1, <1>4, SeqMonotonic
<1>6. ASSUME Pending = {}  PROVE ToSet(bs) \subseteq DOMAIN memo
  BY <1>6 DEF Pending, ToSet
<1>7. ASSUME Pending # {}  PROVE NextBase \in Classes \ DOMAIN memo
  <2> DEFINE P == Pending
             back == {n - i : i \in P}
  <2>1. P \subseteq 1..n /\ P # {}
    BY <1>2, <1>7 DEF Pending
  <2> HIDE DEF P, n
  <2>2. back \subseteq Nat /\ back # {}
    <3>1. \A i \in P : n - i \in Nat
      BY <1>2, <2>1
    <3> QED
      BY <2>1, <3>1
  <2>3. PICK m \in back : \A j \in back : m <= j
    BY <2>2, LeastNumber
  <2>4. PICK i \in P : m = n - i
    BY <2>3
  <2>5. \A j \in P : j <= i
    <3> TAKE j \in P
    <3>1. n - i <= n - j /\ i \in 1..n /\ j \in 1..n
      BY <2>1, <2>3, <2>4
    <3> QED
      BY <1>2, <3>1
  <2>6. PICK k \in P : NextBase = bs[k]
    BY <2>5 DEF NextBase, P
  <2>7. bs[k] \notin DOMAIN memo
    BY <2>6 DEF P, Pending
  <2> QED
    BY <1>3, <2>1, <2>6, <2>7
<1> QED
  BY <1>5, <1>6, <1>7

\* What is merged, when all bases have linearizations.
LEMMA ToMergeFacts ==
  ASSUME Inv, stack # <<>>, BasesOf(Top) \in Seq(Classes), ToSet(BasesOf(Top)) \subseteq DOMAIN memo
  PROVE  /\ ToMerge \in Seq(Seq(Classes)) /\ Len(ToMerge) = Len(BasesOf(Top)) + 1
         /\ Len(BasesOf(Top)) \in Nat
         /\ Reversed(Top) \in Seq(Classes)
         /\ \E i \in 1..(Len(BasesOf(Top)) + 1) : ToMerge[i] = Reversed(Top)
         /\ \A b \in ToSet(BasesOf(Top)) : \E i \in 1..(Len(BasesOf(Top)) + 1) : ToMerge[i] = memo[b]
         /\ \A i \in 1..(Len(BasesOf(Top)) + 1) :
              \/ ToMerge[i] = Reversed(Top)
              \/ \E b \in ToSet(BasesOf(Top)) : ToMerge[i] = memo[b]
         /\ \A i \in 1..(Len(BasesOf(Top)) + 1) :
              ToSet(ToMerge[i]) \subseteq UNION { View(b) : b \in ToSet(BasesOf(Top)) }
<1> DEFINE bs == BasesOf(Top)
           n == Len(bs)
           rs == Reversed(Top)
           ms == [i \in DOMAIN rs |-> memo[rs[i]]]
<1>1. n \in Nat /\ DOMAIN bs = 1..n
  BY LenProperties
<1>2. rs \in Seq(Classes) /\ Len(rs) = n /\ ToSet(rs) = ToSet(bs)
  BY ReverseFacts DEF Reversed
<1>3. DOMAIN rs = 1..n
  BY <1>2, LenProperties
<1> HIDE DEF n, rs
<1>4. \A i \in 1..n : rs[i] \in ToSet(bs) /\ rs[i] \in DOMAIN memo /\ memo[rs[i]] \in Seq(Classes)
  BY <1>2, <1>3 DEF ToSet, Inv, MemoInv
<1>5. ms \in Seq(Seq(Classes)) /\ Len(ms) = n /\ \A i \in 1..n : ms[i] = memo[rs[i]]
  <2>1. ms \in [1..n -> Seq(Classes)]
    BY <1>3, <1>4
  <2>2. ms \in Seq(Seq(Classes))
    BY <1>1, <2>1, SeqDef
  <2>3. DOMAIN ms = 1..n
    BY <1>3
  <2> QED
    BY <1>1, <1>3, <2>2, <2>3, LenProperties
<1>6. ToMerge = Append(ms, rs)
  BY DEF ToMerge, rs
<1> HIDE DEF ms
<1>7. /\ ToMerge \in Seq(Seq(Classes)) /\ Len(ToMerge) = n + 1
      /\ ToMerge[n + 1] = rs /\ \A i \in 1..n : ToMerge[i] = memo[rs[i]]
  BY <1>2, <1>5, <1>6, AppendProperties
<1>8. n + 1 \in 1..(n + 1) /\ \A i \in 1..n : i \in 1..(n + 1)
  BY <1>1
<1>9. \A i \in 1..(n + 1) : i \in 1..n \/ i = n + 1
  BY <1>1
<1>10. ASSUME NEW b \in ToSet(bs)  PROVE \E i \in 1..(n + 1) : ToMerge[i] = memo[b]
  <2>1. PICK i \in 1..n : rs[i] = b
    BY <1>2, <1>3, <1>10 DEF ToSet
  <2> QED
    BY <1>7, <1>8, <2>1
<1>11. ASSUME NEW i \in 1..(n + 1)
       PROVE  ToMerge[i] = rs \/ \E b \in ToSet(bs) : ToMerge[i] = memo[b]
  BY <1>4, <1>7, <1>9
<1>12. ASSUME NEW i \in 1..(n + 1)
       PROVE  ToSet(ToMerge[i]) \subseteq UNION { View(b) : b \in ToSet(bs) }
  <2>1. CASE ToMerge[i] = rs
    <3>1. \A b \in ToSet(bs) : b \in View(b)
      <4> TAKE b \in ToSet(bs)
      <4>1. b \in DOMAIN memo /\ memo[b] \in Seq(Classes) /\ memo[b] # <<>> /\ Head(memo[b]) = b
        BY DEF Inv, MemoInv, LinearizationSound
      <4>2. Len(memo[b]) \in Nat \ {0} /\ DOMAIN memo[b] = 1..Len(memo[b]) /\ Head(memo[b]) = memo[b][1]
        BY <4>1, LenProperties, EmptySeq
      <4>3. 1 \in DOMAIN memo[b]
        BY <4>2
      <4> QED
        BY <4>1, <4>2, <4>3 DEF View, ToSet
    <3> QED
      BY <1>2, <2>1, <3>1
  <2>2. CASE \E b \in ToSet(bs) : ToMerge[i] = memo[b]
    BY <2>2 DEF View
  <2> QED
    BY <1>11, <2>1, <2>2
<1> QED
  BY <1>1, <1>2, <1>7, <1>8, <1>10, <1>11, <1>12 DEF n, rs

-----------------------------------------------------------------------------
(* linearize keeps the invariant. *)

\* What the parts of the invariant speak of, when a step leaves it alone.
LEMMA SameLinearizations ==
  ASSUME Inv, UNCHANGED <<hierarchy, stack, memo, seqs, out>>
  PROVE  MemoInv' /\ MergeInv' /\ Classes' = Classes
<1>1. Classes' = Classes /\ BasesOf(Top)' = BasesOf(Top) /\ ToMerge' = ToMerge
  BY DEF Classes, BasesOf, Top, ToMerge, Reversed
<1>2. \A b : View(b)' = View(b)
  BY DEF View
<1>3. MemoInv'
  BY DEF Inv, MemoInv, LinearizationSound, Classes, BasesOf, View, Above, Reversed
<1>4. MergeInv'
  <2>1. CASE seqs = <<>>
    BY <2>1 DEF Inv, MergeInv
  <2>2. CASE seqs # <<>>
    <3>1. UNION { View(b)' : b \in ToSet(BasesOf(Top)') } = UNION { View(b) : b \in ToSet(BasesOf(Top)) }
      BY <1>1, <1>2
    <3>2. \A i \in DOMAIN seqs' : Merged(ToMerge'[i], seqs'[i], out')
      BY <1>1, <2>2 DEF Inv, MergeInv
    <3>3. ToSet(out') \subseteq UNION { View(b)' : b \in ToSet(BasesOf(Top)') }
      BY <2>2, <3>1 DEF Inv, MergeInv
    <3> QED
      BY <1>1, <2>2, <3>2, <3>3 DEF Inv, MergeInv
  <2> QED
    BY <2>1, <2>2
<1> QED
  BY <1>1, <1>3, <1>4

LEMMA InitInv ==
  ASSUME Init
  PROVE  Inv
<1>1. hierarchy \in Hierarchies /\ Deployed \in Classes
  BY HierarchyFacts DEF Init
<1>2. StackInv
  <2>1. <<Deployed>> \in Seq(Classes) /\ <<Deployed>> # <<>> /\ <<Deployed>>[1] = Deployed
        /\ DOMAIN <<Deployed>> = {1}
    BY <1>1
  <2>2. stack = <<Deployed>> /\ DOMAIN memo = {} /\ pc = "linearize" /\ errors = {}
    BY DEF Init
  <2>3. IsInjective(stack)
    BY <2>1, <2>2 DEF IsInjective
  <2> QED
    BY <2>1, <2>2, <2>3 DEF StackInv
<1>3. MemoInv
  <2>1. DOMAIN memo = {}
    BY DEF Init
  <2> QED
    BY <2>1 DEF MemoInv, LinearizationSound
<1>4. MergeInv
  BY DEF Init, MergeInv
<1>5. LinearizationComplete
  BY DEF Init, LinearizationComplete
<1> QED
  BY <1>1, <1>2, <1>3, <1>4, <1>5 DEF Inv, Init

\* Any diagnostic but JETH371, and that too if no order exists.
LEMMA FailKeepsInv ==
  ASSUME Inv, pc = "linearize", NEW code \in Codes, NEW c \in Classes, Fail(code, c),
         code # "JETH371" \/ LinearizationComplete'
  PROVE  Inv'
<1>1. /\ errors' = errors \cup {<<code, c>>} /\ pc' = "done"
      /\ UNCHANGED <<hierarchy, stack, memo, seqs, out, validVar>>
  BY DEF Fail
<1>2. MemoInv' /\ MergeInv' /\ Classes' = Classes
  BY <1>1, SameLinearizations
<1>3. errors' \subseteq Codes \X Classes /\ errors' # {}
  <2>1. <<code, c>> \in Codes \X Classes
    OBVIOUS
  <2>2. errors \subseteq Codes \X Classes
    BY DEF Inv
  <2> QED
    BY <1>1, <2>1, <2>2
<1>4. StackInv'
  BY <1>1, <1>2, <1>3 DEF Inv, StackInv
<1>5. LinearizationComplete'
  <2>1. CASE code # "JETH371"
    <3>1. errors' = {<<code, c>>}
      BY <1>1 DEF Inv, StackInv
    <3>2. \A x : <<"JETH371", x>> \notin errors'
      BY <2>1, <3>1
    <3> QED
      BY <3>2 DEF LinearizationComplete
  <2> QED
    BY <2>1
<1> QED
  BY <1>1, <1>2, <1>3, <1>4, <1>5 DEF Inv

LEMMA DescendKeepsInv ==
  ASSUME Inv, Descend
  PROVE  Inv'
<1>1. /\ stack' = Append(stack, NextBase) /\ NextBase \in Classes \ DOMAIN memo
      /\ NextBase \notin ToSet(stack) /\ pc = "linearize" /\ stack # <<>>
      /\ UNCHANGED <<hierarchy, pc, memo, seqs, out, validVar, errors>>
  BY PendingFacts DEF Descend, Linearizing
<1>2. Classes' = Classes
  BY <1>1 DEF Classes
<1>3. stack \in Seq(Classes) /\ IsInjective(stack) /\ stack[1] = Deployed /\ errors = {}
  BY <1>1 DEF Inv, StackInv
<1>4. /\ stack' \in Seq(Classes) /\ IsInjective(stack') /\ ToSet(stack') = ToSet(stack) \cup {NextBase}
      /\ \A i \in DOMAIN stack : stack'[i] = stack[i]
  BY <1>1, <1>3, AppendFacts
<1>5. stack' # <<>>
  BY <1>1, <1>3, AppendProperties
<1>6. 1 \in DOMAIN stack
  BY <1>1, TopFacts
<1>7. StackInv'
  BY <1>1, <1>2, <1>3, <1>4, <1>5, <1>6 DEF Inv, StackInv
<1>8. seqs = <<>>
  <2>1. seqs # <<>> => ToSet(BasesOf(Top)) \subseteq DOMAIN memo
    BY DEF Inv, MergeInv
  <2>2. Pending # {}
    BY DEF Descend
  <2>3. ~(ToSet(BasesOf(Top)) \subseteq DOMAIN memo)
    BY <2>2 DEF Pending, ToSet
  <2> QED
    BY <2>1, <2>3
<1>9. MergeInv'
  BY <1>1, <1>8 DEF Inv, MergeInv
<1>10. MemoInv'
  BY <1>1 DEF Inv, MemoInv, LinearizationSound, Classes, BasesOf, View, Above, Reversed
<1>11. LinearizationComplete'
  BY <1>1, <1>3 DEF LinearizationComplete
<1> QED
  BY <1>1, <1>2, <1>7, <1>9, <1>10, <1>11 DEF Inv

LEMMA StartMergeKeepsInv ==
  ASSUME Inv, StartMerge
  PROVE  Inv'
<1>1. /\ seqs' = ToMerge /\ seqs = <<>> /\ pc = "linearize" /\ stack # <<>>
      /\ UNCHANGED <<hierarchy, pc, stack, memo, out, validVar, errors>>
      /\ BasesOf(Top) \in Seq(Classes) /\ ToSet(BasesOf(Top)) \subseteq DOMAIN memo
  BY PendingFacts DEF StartMerge, Linearizing
<1>2. /\ seqs' \in Seq(Seq(Classes)) /\ Len(seqs') = Len(BasesOf(Top)) + 1
  BY <1>1, ToMergeFacts
<1>3. DOMAIN seqs' = 1..Len(seqs') /\ \A i \in 1..Len(seqs') : ToMerge[i] \in Seq(Classes)
  BY <1>1, <1>2, LenProperties, ElementOfSeq
<1>4. out = <<>>
  BY <1>1 DEF Inv, MergeInv
<1>5. \A i \in DOMAIN seqs' : Merged(ToMerge[i], ToMerge[i], out)
  BY <1>3, <1>4, MergedNothing
<1>6. out \in Seq(Classes) /\ IsInjective(out) /\ ToSet(out) = {}
  BY <1>4 DEF IsInjective, ToSet
<1>7. Classes' = Classes /\ BasesOf(Top)' = BasesOf(Top) /\ ToMerge' = ToMerge
  BY <1>1 DEF Classes, BasesOf, Top, ToMerge, Reversed
<1>8. MergeInv'
  <2>1. seqs' # <<>>
    <3>1. Len(<<>>) = 0
      OBVIOUS
    <3>2. Len(BasesOf(Top)) \in Nat
      BY <1>1, LenProperties
    <3> QED
      BY <1>2, <3>1, <3>2
  <2>2. \A i \in DOMAIN seqs' : Merged(ToMerge'[i], seqs'[i], out')
    BY <1>1, <1>5, <1>7
  <2> QED
    BY <1>1, <1>2, <1>6, <1>7, <2>1, <2>2 DEF MergeInv
<1>9. MemoInv'
  BY <1>1 DEF Inv, MemoInv, LinearizationSound, Classes, BasesOf, View, Above, Reversed
<1>10. StackInv'
  BY <1>1, <1>7 DEF Inv, StackInv
<1>11. LinearizationComplete'
  <2>1. errors' = {}
    BY <1>1 DEF Inv, StackInv
  <2> QED
    BY <2>1 DEF LinearizationComplete
<1> QED
  BY <1>1, <1>7, <1>8, <1>9, <1>10, <1>11 DEF Inv

\* While classes are merged: what is left of each sequence, and the classes below.
LEMMA MergingFacts ==
  ASSUME Inv, Merging
  PROVE  /\ pc = "linearize" /\ errors = {} /\ stack # <<>> /\ seqs # <<>>
         /\ BasesOf(Top) \in Seq(Classes) /\ ToSet(BasesOf(Top)) \subseteq DOMAIN memo
         /\ DOMAIN seqs = 1..(Len(BasesOf(Top)) + 1)
         /\ \A i \in DOMAIN seqs :
              /\ seqs[i] \in Seq(Classes) /\ ToMerge[i] \in Seq(Classes)
              /\ Merged(ToMerge[i], seqs[i], out)
         /\ out \in Seq(Classes) /\ IsInjective(out)
         /\ ToSet(out) \subseteq UNION { View(b) : b \in ToSet(BasesOf(Top)) }
         /\ UNION { View(b) : b \in ToSet(BasesOf(Top)) } \subseteq DOMAIN memo
<1>1. pc = "linearize" /\ seqs # <<>> /\ errors = {} /\ stack # <<>>
  BY DEF Merging, Linearizing, Inv, StackInv
<1>2. /\ BasesOf(Top) \in Seq(Classes) /\ ToSet(BasesOf(Top)) \subseteq DOMAIN memo
      /\ seqs \in Seq(Seq(Classes)) /\ Len(seqs) = Len(BasesOf(Top)) + 1
      /\ \A i \in DOMAIN seqs : Merged(ToMerge[i], seqs[i], out)
      /\ out \in Seq(Classes) /\ IsInjective(out)
      /\ ToSet(out) \subseteq UNION { View(b) : b \in ToSet(BasesOf(Top)) }
  BY <1>1 DEF Inv, MergeInv
<1>3. DOMAIN seqs = 1..(Len(BasesOf(Top)) + 1) /\ \A i \in DOMAIN seqs : seqs[i] \in Seq(Classes)
  BY <1>2, LenProperties, ElementOfSeq
<1>4. ToMerge \in Seq(Seq(Classes)) /\ Len(ToMerge) = Len(BasesOf(Top)) + 1
  BY <1>1, <1>2, ToMergeFacts
<1>5. \A i \in DOMAIN seqs : ToMerge[i] \in Seq(Classes)
  BY <1>3, <1>4, ElementOfSeq
<1>6. \A b \in ToSet(BasesOf(Top)) : View(b) \subseteq DOMAIN memo
  BY <1>2 DEF Inv, MemoInv, View
<1> QED
  BY <1>1, <1>2, <1>3, <1>5, <1>6

LEMMA MergeTurnKeepsInv ==
  ASSUME Inv, MergeTurn
  PROVE  Inv'
<1>1. PICK g \in GoodHeads :
        /\ seqs' = [i \in DOMAIN seqs |->
                      IF seqs[i] # <<>> /\ Head(seqs[i]) = Head(seqs[g]) THEN Tail(seqs[i]) ELSE seqs[i]]
        /\ out' = Append(out, Head(seqs[g]))
  <2>1. Merging
    BY DEF MergeTurn
  <2>2. GoodHeads \subseteq Nat /\ GoodHeads # {}
    <3>1. DOMAIN seqs = 1..(Len(BasesOf(Top)) + 1)
      BY <2>1, MergingFacts
    <3>2. DOMAIN seqs \subseteq Nat
      BY <3>1
    <3> QED
      BY <3>2 DEF GoodHeads, MergeTurn
  <2>3. \E i \in GoodHeads : \A j \in GoodHeads : i <= j
    BY <2>2, LeastNumber
  <2> QED
    BY <2>3 DEF MergeTurn
<1> DEFINE pick == Head(seqs[g])
<1>2. Merging /\ UNCHANGED <<hierarchy, pc, stack, memo, validVar, errors>>
  BY DEF MergeTurn
<1>3. /\ pc = "linearize" /\ errors = {} /\ stack # <<>> /\ seqs # <<>>
      /\ BasesOf(Top) \in Seq(Classes) /\ ToSet(BasesOf(Top)) \subseteq DOMAIN memo
      /\ DOMAIN seqs = 1..(Len(BasesOf(Top)) + 1)
      /\ \A i \in DOMAIN seqs :
           /\ seqs[i] \in Seq(Classes) /\ ToMerge[i] \in Seq(Classes)
           /\ Merged(ToMerge[i], seqs[i], out)
      /\ out \in Seq(Classes) /\ IsInjective(out)
      /\ ToSet(out) \subseteq UNION { View(b) : b \in ToSet(BasesOf(Top)) }
  BY <1>2, MergingFacts
<1>4. g \in DOMAIN seqs /\ seqs[g] # <<>>
      /\ \A i \in DOMAIN seqs : seqs[i] # <<>> => pick \notin ToSet(Tail(seqs[i]))
  BY DEF GoodHeads
<1>5. pick \in Classes
  BY <1>3, <1>4, HeadTailProperties
<1>6. pick \in ToSet(ToMerge[g]) \ ToSet(out)
  BY <1>3, <1>4, MergedHead
<1> HIDE DEF pick
<1>7. pick \in UNION { View(b) : b \in ToSet(BasesOf(Top)) }
  <2>1. ToSet(ToMerge[g]) \subseteq UNION { View(b) : b \in ToSet(BasesOf(Top)) }
    BY <1>3, <1>4, ToMergeFacts
  <2> QED
    BY <1>6, <2>1
<1>8. /\ out' \in Seq(Classes) /\ IsInjective(out') /\ ToSet(out') = ToSet(out) \cup {pick}
  BY <1>1, <1>3, <1>5, <1>6, AppendFacts DEF pick
<1>9. /\ DOMAIN seqs' = DOMAIN seqs
      /\ \A i \in DOMAIN seqs : seqs'[i] = IF seqs[i] # <<>> /\ Head(seqs[i]) = pick THEN Tail(seqs[i]) ELSE seqs[i]
  BY <1>1 DEF pick
<1>10. ASSUME NEW i \in DOMAIN seqs  PROVE seqs'[i] \in Seq(Classes) /\ Merged(ToMerge[i], seqs'[i], out')
  <2>1. seqs[i] # <<>> => Tail(seqs[i]) \in Seq(Classes)
    BY <1>3, HeadTailProperties
  <2>2. seqs'[i] \in Seq(Classes)
    BY <1>3, <1>9, <2>1
  <2>3. Merged(ToMerge[i], IF seqs[i] # <<>> /\ Head(seqs[i]) = pick THEN Tail(seqs[i]) ELSE seqs[i],
               Append(out, pick))
    BY <1>3, <1>4, <1>5, <1>6, MergedTurn
  <2> QED
    BY <1>1, <1>9, <2>2, <2>3 DEF pick
<1>11. Len(BasesOf(Top)) \in Nat
  BY <1>3, LenProperties
<1>12. seqs' \in Seq(Seq(Classes)) /\ Len(seqs') = Len(BasesOf(Top)) + 1 /\ seqs' # <<>>
  <2> DEFINE m == Len(BasesOf(Top)) + 1
  <2>1. m \in Nat \ {0}
    BY <1>11
  <2>2. seqs' \in [1..m -> Seq(Classes)]
    BY <1>1, <1>3, <1>9, <1>10
  <2> HIDE DEF m
  <2>3. seqs' \in Seq(Seq(Classes))
    BY <2>1, <2>2, SeqDef
  <2>4. Len(seqs') = m
    BY <2>1, <2>2, <2>3, LenProperties
  <2>5. Len(<<>>) = 0
    OBVIOUS
  <2> QED
    BY <2>1, <2>3, <2>4, <2>5 DEF m
<1>13. /\ Classes' = Classes /\ BasesOf(Top)' = BasesOf(Top) /\ ToMerge' = ToMerge
       /\ \A b : View(b)' = View(b)
  BY <1>2 DEF Classes, BasesOf, Top, ToMerge, Reversed, View
<1>14. MergeInv'
  <2>1. UNION { View(b)' : b \in ToSet(BasesOf(Top)') } = UNION { View(b) : b \in ToSet(BasesOf(Top)) }
    BY <1>13
  <2>2. \A i \in DOMAIN seqs' : Merged(ToMerge'[i], seqs'[i], out')
    BY <1>9, <1>10, <1>13
  <2>3. ToSet(out') \subseteq UNION { View(b)' : b \in ToSet(BasesOf(Top)') }
    BY <1>3, <1>7, <1>8, <2>1
  <2>4. stack' # <<>> /\ BasesOf(Top)' \in Seq(Classes') /\ ToSet(BasesOf(Top)') \subseteq DOMAIN memo'
    BY <1>2, <1>3, <1>13
  <2> QED
    BY <1>8, <1>12, <1>13, <2>2, <2>3, <2>4 DEF MergeInv
<1>15. MemoInv'
  BY <1>2 DEF Inv, MemoInv, LinearizationSound, Classes, BasesOf, View, Above, Reversed
<1>16. StackInv'
  BY <1>2, <1>13 DEF Inv, StackInv
<1>17. LinearizationComplete'
  BY <1>2, <1>3 DEF LinearizationComplete
<1> QED
  BY <1>2, <1>13, <1>14, <1>15, <1>16, <1>17 DEF Inv

\* No order holds every sequence when every head that is left is in a tail.
LEMMA NoOrder ==
  ASSUME Inv, Merging, ~AllMerged, GoodHeads = {},
         NEW order \in SetToSeqs(UNION { View(b) : b \in ToSet(BasesOf(Top)) }),
         Keeps(order, Reversed(Top)), \A b \in ToSet(BasesOf(Top)) : Keeps(order, memo[b])
  PROVE  FALSE
<1> DEFINE all == UNION { View(b) : b \in ToSet(BasesOf(Top)) }
           here == { i \in DOMAIN seqs : seqs[i] # <<>> }
           places == { p \in DOMAIN order : \E i \in here : order[p] = Head(seqs[i]) }
<1>1. /\ pc = "linearize" /\ errors = {} /\ stack # <<>> /\ seqs # <<>>
      /\ BasesOf(Top) \in Seq(Classes) /\ ToSet(BasesOf(Top)) \subseteq DOMAIN memo
      /\ DOMAIN seqs = 1..(Len(BasesOf(Top)) + 1)
      /\ \A i \in DOMAIN seqs :
           /\ seqs[i] \in Seq(Classes) /\ ToMerge[i] \in Seq(Classes)
           /\ Merged(ToMerge[i], seqs[i], out)
      /\ all \subseteq DOMAIN memo
  BY MergingFacts
<1>2. DOMAIN order \subseteq Nat /\ IsInjective(order)
  <2>1. IsFiniteSet(Classes)
    BY HierarchyFacts DEF Inv
  <2>2. all \subseteq Classes
    BY <1>1 DEF Inv, MemoInv
  <2> HIDE DEF all
  <2>3. Cardinality(all) \in Nat
    BY <2>1, <2>2, FS_Subset, FS_CardinalityType
  <2>4. order \in [1..Cardinality(all) -> all]
        /\ \A i, j \in 1..Cardinality(all) : i # j => order[i] # order[j]
    BY DEF SetToSeqs, all
  <2> QED
    BY <2>3, <2>4 DEF IsInjective
<1>3. \A i \in DOMAIN seqs : Keeps(order, ToMerge[i])
  <2> TAKE i \in DOMAIN seqs
  <2>1. ToMerge[i] = Reversed(Top) \/ \E b \in ToSet(BasesOf(Top)) : ToMerge[i] = memo[b]
    BY <1>1, ToMergeFacts
  <2> QED
    BY <2>1
<1> HIDE DEF all, here, places
<1>4. \A i \in here : \E j \in here : Before(Head(seqs[j]), Head(seqs[i]), order)
  <2> TAKE i \in here
  <2>1. PICK j \in here : Head(seqs[i]) \in ToSet(Tail(seqs[j]))
    BY DEF here, GoodHeads
  <2>2. j \in DOMAIN seqs /\ seqs[j] # <<>>
    BY DEF here
  <2>3. Before(Head(seqs[j]), Head(seqs[i]), ToMerge[j])
    BY <1>1, <2>1, <2>2, MergedHead
  <2>4. Before(Head(seqs[j]), Head(seqs[i]), order)
    BY <1>3, <2>2, <2>3 DEF Keeps, Before
  <2> QED
    BY <2>4
<1>5. here # {}
  BY DEF AllMerged, here
<1>6. places # {}
  <2>1. PICK i \in here : TRUE
    BY <1>5
  <2>2. PICK j \in here : Before(Head(seqs[j]), Head(seqs[i]), order)
    BY <1>4
  <2>3. PICK p \in DOMAIN order : order[p] = Head(seqs[i])
    BY <2>2 DEF Before
  <2> QED
    BY <2>3 DEF places
<1>7. places \subseteq Nat
  BY <1>2 DEF places
<1>8. PICK p \in places : \A q \in places : p <= q
  BY <1>6, <1>7, LeastNumber
<1>9. PICK i \in here : order[p] = Head(seqs[i])
  BY DEF places
<1>10. PICK j \in here : Before(Head(seqs[j]), Head(seqs[i]), order)
  BY <1>4
<1>11. PICK a \in DOMAIN order, b \in DOMAIN order :
         a < b /\ order[a] = Head(seqs[j]) /\ order[b] = Head(seqs[i])
  BY <1>10 DEF Before
<1>12. a \in places /\ p \in DOMAIN order
  BY <1>11 DEF places
<1>13. b = p
  BY <1>2, <1>9, <1>11, <1>12 DEF IsInjective
<1>14. p <= a /\ a < p /\ a \in Nat /\ p \in Nat
  BY <1>7, <1>8, <1>11, <1>12, <1>13
<1> QED
  BY <1>14

LEMMA UnmergeableKeepsInv ==
  ASSUME Inv, Unmergeable
  PROVE  Inv'
<1>1. Merging /\ ~AllMerged /\ GoodHeads = {} /\ Fail("JETH371", Top)
  BY DEF Unmergeable
<1>2. pc = "linearize" /\ stack # <<>>
  BY <1>1, MergingFacts
<1>3. UNCHANGED <<hierarchy, stack, memo>>
  BY <1>1 DEF Fail
<1>4. Top' = Top /\ BasesOf(Top)' = BasesOf(Top) /\ Reversed(Top)' = Reversed(Top) /\ \A b : View(b)' = View(b)
  BY <1>3 DEF Top, BasesOf, Reversed, View
<1>5. LinearizationComplete'
  <2> SUFFICES ASSUME NEW order \in SetToSeqs(UNION { View(b)' : b \in ToSet(BasesOf(Top)') }),
                      Keeps(order, Reversed(Top)'), \A b \in ToSet(BasesOf(Top)') : Keeps(order, memo'[b])
               PROVE  FALSE
    BY <1>4 DEF LinearizationComplete
  <2>1. UNION { View(b)' : b \in ToSet(BasesOf(Top)') } = UNION { View(b) : b \in ToSet(BasesOf(Top)) }
    BY <1>4
  <2>2. Keeps(order, Reversed(Top)) /\ \A b \in ToSet(BasesOf(Top)) : Keeps(order, memo[b])
    BY <1>3, <1>4
  <2> QED
    BY <1>1, <2>1, <2>2, NoOrder
<1>6. PICK c \in Classes : c = Top
  BY <1>2, TopFacts
<1>7. Fail("JETH371", c)
  <2>1. /\ errors' = errors \cup {<<"JETH371", Top>>} /\ pc' = "done"
        /\ UNCHANGED <<hierarchy, stack, memo, seqs, out, validVar>>
    BY <1>1 DEF Fail
  <2> QED
    BY <1>6, <2>1 DEF Fail
<1>8. "JETH371" \in Codes
  BY DEF Codes
<1> QED
  BY <1>2, <1>5, <1>7, <1>8, FailKeepsInv

\* A class is put in front of the merged linearizations of its bases.
LEMMA MergeBasesKeepsInv ==
  ASSUME Inv, MergeBases
  PROVE  Inv'
<1>0. PICK c \in Classes : c = Top
  <2>1. stack # <<>>
    BY DEF MergeBases, Merging, Linearizing
  <2> QED
    BY <2>1, TopFacts
<1> DEFINE bs == ToSet(BasesOf(c))
           all == UNION { View(b) : b \in bs }
           new == <<c>> \o out
<1>1. /\ Merging /\ AllMerged
      /\ memo' = [d \in DOMAIN memo \cup {c} |-> IF d = c THEN new ELSE memo[d]] /\ stack' = Front(stack)
      /\ pc' = IF stack' = <<>> THEN "getter" ELSE "linearize"
      /\ seqs' = <<>> /\ out' = <<>>
      /\ UNCHANGED <<hierarchy, validVar, errors>>
  BY <1>0 DEF MergeBases
<1>2. /\ pc = "linearize" /\ errors = {} /\ stack # <<>>
      /\ BasesOf(c) \in Seq(Classes) /\ bs \subseteq DOMAIN memo
      /\ DOMAIN seqs = 1..(Len(BasesOf(c)) + 1)
      /\ \A i \in DOMAIN seqs : ToMerge[i] \in Seq(Classes) /\ Merged(ToMerge[i], seqs[i], out)
      /\ out \in Seq(Classes) /\ IsInjective(out)
      /\ ToSet(out) \subseteq all /\ all \subseteq DOMAIN memo
  BY <1>0, <1>1, MergingFacts
<1>3. \A i \in DOMAIN seqs : Keeps(out, ToMerge[i]) /\ ToSet(ToMerge[i]) \subseteq ToSet(out)
  <2> TAKE i \in DOMAIN seqs
  <2>1. seqs[i] = <<>>
    BY <1>1 DEF AllMerged
  <2>2. Merged(ToMerge[i], <<>>, out) /\ ToMerge[i] \in Seq(Classes)
    BY <1>2, <2>1
  <2> QED
    BY <2>2, MergedAll
<1>4. Keeps(out, Reversed(c))
  <2>1. \E i \in 1..(Len(BasesOf(c)) + 1) : ToMerge[i] = Reversed(c)
    BY <1>0, <1>2, ToMergeFacts
  <2> QED
    BY <1>2, <1>3, <2>1
<1>5. \A b \in bs : Keeps(out, memo[b]) /\ View(b) \subseteq ToSet(out)
  <2> TAKE b \in bs
  <2>1. \E i \in 1..(Len(BasesOf(c)) + 1) : ToMerge[i] = memo[b]
    BY <1>0, <1>2, ToMergeFacts
  <2> QED
    BY <1>2, <1>3, <2>1 DEF View
<1>6. ToSet(out) = all
  BY <1>2, <1>5
<1>7. c \in Classes /\ c \notin DOMAIN memo
  BY <1>0, <1>2, TopFacts
<1>8. c \notin ToSet(out)
  BY <1>2, <1>6, <1>7
<1>9. /\ new \in Seq(Classes) /\ new # <<>> /\ Head(new) = c /\ IsInjective(new)
      /\ ToSet(new) = {c} \cup all
      /\ \A s : Keeps(out, s) => Keeps(new, s)
  BY <1>2, <1>6, <1>8, InFront
<1> HIDE DEF new
<1>10. /\ DOMAIN memo' = DOMAIN memo \cup {c} /\ memo'[c] = new
       /\ \A d \in DOMAIN memo : memo'[d] = memo[d]
  BY <1>1, <1>7
<1>11. Classes' = Classes /\ \A d : BasesOf(d)' = BasesOf(d) /\ Reversed(d)' = Reversed(d)
  BY <1>1 DEF Classes, BasesOf, Reversed
<1>12. View(c)' = ToSet(new) /\ Above(c)' = all /\ \A d \in DOMAIN memo : View(d)' = View(d) /\ Above(d)' = Above(d)
  <2>1. ToSet(new) \ {c} = all
    BY <1>2, <1>7, <1>9
  <2> QED
    BY <1>10, <2>1 DEF View, Above
<1> HIDE DEF all, bs
<1>13. \A d \in DOMAIN memo :
         /\ memo[d] \in Seq(Classes) /\ memo[d] # <<>>
         /\ View(d) \subseteq DOMAIN memo /\ ToSet(BasesOf(d)) \subseteq DOMAIN memo \ {d}
         /\ Head(memo[d]) = d /\ IsInjective(memo[d])
         /\ View(d) = {d} \cup UNION { View(b) : b \in ToSet(BasesOf(d)) }
         /\ Keeps(memo[d], Reversed(d))
         /\ \A b \in Above(d) : Keeps(memo[d], memo[b])
  BY DEF Inv, MemoInv, LinearizationSound, View
<1>14. ASSUME NEW d \in DOMAIN memo'
       PROVE  /\ memo'[d] \in Seq(Classes) /\ memo'[d] # <<>>
              /\ View(d)' \subseteq DOMAIN memo' /\ ToSet(BasesOf(d)) \subseteq DOMAIN memo' \ {d}
              /\ Head(memo'[d]) = d /\ IsInjective(memo'[d])
              /\ View(d)' = {d} \cup UNION { View(b)' : b \in ToSet(BasesOf(d)) }
              /\ Keeps(memo'[d], Reversed(d))
              /\ \A b \in Above(d)' : Keeps(memo'[d], memo'[b])
  <2>1. CASE d \in DOMAIN memo
    <3>1. memo'[d] = memo[d] /\ View(d)' = View(d) /\ Above(d)' = Above(d)
      BY <1>10, <1>12, <2>1
    <3>2. \A b \in ToSet(BasesOf(d)) : View(b)' = View(b)
      BY <1>12, <1>13, <2>1
    <3>3. UNION { View(b)' : b \in ToSet(BasesOf(d)) } = UNION { View(b) : b \in ToSet(BasesOf(d)) }
      BY <3>2
    <3>4. \A b \in Above(d) : memo'[b] = memo[b]
      BY <1>10, <1>13, <2>1 DEF Above, View
    <3>5. View(d)' = {d} \cup UNION { View(b)' : b \in ToSet(BasesOf(d)) }
      BY <1>13, <2>1, <3>1, <3>3
    <3>6. \A b \in Above(d)' : Keeps(memo'[d], memo'[b])
      BY <1>13, <2>1, <3>1, <3>4
    <3> QED
      BY <1>10, <1>13, <2>1, <3>1, <3>5, <3>6
  <2>2. CASE d = c
    <3>1. \A b \in bs : View(b)' = View(b)
      BY <1>2, <1>12 DEF bs
    <3>2. UNION { View(b)' : b \in bs } = all
      BY <3>1 DEF all
    <3>3. View(c)' = {c} \cup UNION { View(b)' : b \in bs }
      BY <1>9, <1>12, <3>2
    <3>4. ASSUME NEW b \in all  PROVE Keeps(new, memo[b]) /\ b \in DOMAIN memo
      <4>1. PICK e \in bs : b \in View(e)
        BY <3>4 DEF all
      <4>2. Keeps(new, memo[e]) /\ e \in DOMAIN memo
        BY <1>2, <1>5, <1>9, <4>1
      <4>3. CASE b = e
        BY <4>2, <4>3
      <4>4. CASE b # e
        <5>1. b \in Above(e)
          BY <4>1, <4>4 DEF Above, View
        <5>2. Keeps(memo[e], memo[b])
          BY <1>13, <4>2, <5>1
        <5> QED
          BY <1>13, <4>1, <4>2, <5>2, KeepsTransitive
      <4> QED
        BY <4>3, <4>4
    <3>5. \A b \in Above(c)' : Keeps(memo'[c], memo'[b])
      BY <1>10, <1>12, <3>4
    <3>6. Keeps(memo'[c], Reversed(c))
      BY <1>4, <1>9, <1>10
    <3>7. View(c)' \subseteq DOMAIN memo' /\ ToSet(BasesOf(c)) \subseteq DOMAIN memo' \ {c}
      BY <1>2, <1>7, <1>9, <1>10, <1>12 DEF bs
    <3> QED
      BY <1>9, <1>10, <2>2, <3>3, <3>5, <3>6, <3>7 DEF bs
  <2> QED
    BY <1>10, <2>1, <2>2
<1>15. LinearizationSound'
  BY <1>11, <1>14 DEF LinearizationSound
<1>16. MemoInv'
  <2>1. DOMAIN memo' \subseteq Classes
    BY <1>7, <1>10 DEF Inv, MemoInv
  <2>2. \A d \in DOMAIN memo' : ToSet(memo'[d]) = View(d)'
    BY DEF View
  <2> QED
    BY <1>11, <1>14, <1>15, <2>1, <2>2 DEF MemoInv
<1>17. StackInv'
  <2>1. /\ stack' \in Seq(Classes) /\ IsInjective(stack') /\ ToSet(stack') \subseteq ToSet(stack) \ {c}
        /\ stack' # <<>> => stack'[1] = Deployed
        /\ stack' = <<>> => c = Deployed
    BY <1>0, <1>1, <1>2, FrontFacts
  <2>2. ToSet(stack') \cap DOMAIN memo' = {}
    BY <1>10, <2>1 DEF Inv, StackInv
  <2> QED
    BY <1>1, <1>2, <1>10, <1>11, <2>1, <2>2 DEF StackInv
<1>18. MergeInv'
  BY <1>1 DEF MergeInv
<1>19. LinearizationComplete'
  BY <1>1, <1>2 DEF LinearizationComplete
<1> QED
  BY <1>1, <1>11, <1>16, <1>17, <1>18, <1>19 DEF Inv

\* The diagnostics of directBases and of a cycle.
LEMMA RejectKeepsInv ==
  ASSUME Inv, DuplicateBase \/ UnknownBase \/ CyclicBase
  PROVE  Inv'
<1>1. pc = "linearize" /\ stack # <<>>
  BY DEF DuplicateBase, UnknownBase, CyclicBase, Linearizing
<1>2. {"JETH456", "JETH370", "JETH372"} \subseteq Codes \ {"JETH371"}
  BY DEF Codes
<1>3. ASSUME NEW code \in {"JETH456", "JETH370", "JETH372"}, NEW d, d \in Classes, Fail(code, d)
      PROVE  Inv'
  <2>1. PICK c \in Classes : c = d
    BY <1>3
  <2>2. Fail(code, c)
    BY <1>3, <2>1
  <2>3. code \in Codes /\ code # "JETH371"
    BY <1>2
  <2> QED
    BY <1>1, <2>2, <2>3, FailKeepsInv
<1>4. PICK top \in Classes : top = Top
  BY <1>1, TopFacts
<1>5. CASE DuplicateBase
  <2>1. Fail("JETH456", top)
    <3>1. Fail("JETH456", Top)
      BY <1>5 DEF DuplicateBase
    <3> QED
      BY <1>4, <3>1 DEF Fail
  <2> QED
    BY <1>3, <2>1
<1>6. CASE UnknownBase
  <2>1. Fail("JETH370", top)
    <3>1. Fail("JETH370", Top)
      BY <1>6 DEF UnknownBase
    <3> QED
      BY <1>4, <3>1 DEF Fail
  <2> QED
    BY <1>3, <2>1
<1>7. CASE CyclicBase
  <2>1. NextBase \in Classes
    BY <1>7, PendingFacts DEF CyclicBase
  <2>2. PICK base \in Classes : base = NextBase
    BY <2>1
  <2>3. Fail("JETH372", base)
    <3>1. Fail("JETH372", NextBase)
      BY <1>7 DEF CyclicBase
    <3> QED
      BY <2>2, <3>1 DEF Fail
  <2> QED
    BY <1>3, <2>3
<1> QED
  BY <1>5, <1>6, <1>7

-----------------------------------------------------------------------------
(* The judgements of the versions keep it. *)

\* Once there is a linearization, the first class of a set that it meets is one.
LEMMA FirstFacts ==
  ASSUME Inv, Deployed \in DOMAIN memo, NEW S, S \subseteq ToSet(Lin), S # {}
  PROVE  First(S) \in S
<1> DEFINE places == { i \in DOMAIN Lin : Lin[i] \in S }
<1>1. Lin \in Seq(Classes)
  BY DEF Inv, MemoInv, Lin
<1>2. Len(Lin) \in Nat /\ DOMAIN Lin = 1..Len(Lin)
  BY <1>1, LenProperties
<1>3. places \subseteq Nat /\ places # {}
  BY <1>2 DEF ToSet
<1>4. PICK i \in places : \A j \in places : i <= j
  BY <1>3, LeastNumber
<1>5. \A j \in 1..(i - 1) : Lin[j] \notin S
  <2> SUFFICES ASSUME NEW j \in 1..(i - 1), Lin[j] \in S  PROVE FALSE
    OBVIOUS
  <2>1. i \in 1..Len(Lin)
    BY <1>2
  <2>2. j \in 1..Len(Lin) /\ ~(i <= j)
    BY <1>2, <2>1
  <2>3. j \in places
    BY <1>2, <2>2
  <2> QED
    BY <1>4, <2>2, <2>3
<1>6. \E k \in DOMAIN Lin : Lin[k] \in S /\ \A j \in 1..(k - 1) : Lin[j] \notin S
  BY <1>5
<1> QED
  BY <1>6 DEF First

\* The deployed class's linearization is there for the judgements, of declared classes.
LEMMA LinFacts ==
  ASSUME Inv, Deployed \in DOMAIN memo
  PROVE  /\ Lin \in Seq(Classes) /\ Lin # <<>> /\ ToSet(Lin) \subseteq Classes
         /\ ToSet(Lin) \subseteq DOMAIN memo /\ ToSet(Tail(Lin)) \subseteq ToSet(Lin)
         /\ Definers \subseteq Classes /\ Deployed \in Classes
<1>1. Lin \in Seq(Classes) /\ Lin # <<>> /\ ToSet(Lin) \subseteq DOMAIN memo /\ DOMAIN memo \subseteq Classes
  BY DEF Inv, MemoInv, Lin
<1>2. Tail(Lin) \in Seq(Classes) /\ Len(Tail(Lin)) = Len(Lin) - 1
      /\ \A i \in 1..Len(Tail(Lin)) : Tail(Lin)[i] = Lin[i + 1]
  BY <1>1, HeadTailProperties
<1>3. Len(Lin) \in Nat /\ DOMAIN Lin = 1..Len(Lin) /\ DOMAIN Tail(Lin) = 1..Len(Tail(Lin))
  BY <1>1, <1>2, LenProperties
<1>4. \A i \in 1..Len(Tail(Lin)) : i + 1 \in 1..Len(Lin)
  BY <1>2, <1>3
<1>5. ToSet(Tail(Lin)) \subseteq ToSet(Lin)
  BY <1>2, <1>3, <1>4 DEF ToSet
<1> QED
  BY <1>1, <1>5 DEF Definers

\* A step of the judgements: it leaves the linearizations alone.
LEMMA JudgeKeepsInv ==
  ASSUME Inv, pc \in {"getter", "override", "interface"}, UNCHANGED <<hierarchy, stack, memo, seqs, out>>,
         pc' \in {"override", "interface", "done"}, validVar' \in BOOLEAN,
         errors' \subseteq Codes \X Classes
  PROVE  Inv'
<1>1. MemoInv' /\ MergeInv' /\ Classes' = Classes
  BY SameLinearizations
<1>2. stack = <<>>
  BY DEF Inv, StackInv
<1>3. StackInv'
  BY <1>1, <1>2 DEF Inv, StackInv
<1>4. LinearizationComplete'
  BY <1>2 DEF LinearizationComplete
<1> QED
  BY <1>1, <1>3, <1>4 DEF Inv

LEMMA ResolveGetterKeepsInv ==
  ASSUME Inv, ResolveGetter
  PROVE  Inv'
<1>1. pc = "getter" /\ stack = <<>> /\ Deployed \in DOMAIN memo
  BY DEF ResolveGetter, Inv, StackInv
<1>2. errors' \subseteq Codes \X Classes
  <2>1. "JETH433" \in Codes
    BY DEF Codes
  <2>2. HasVar => hierarchy.var.at \in Classes
    BY <1>1, LinFacts DEF HasVar
  <2> QED
    BY <2>1, <2>2 DEF ResolveGetter
<1>3. validVar' \in BOOLEAN
  BY DEF ResolveGetter
<1> QED
  BY <1>1, <1>2, <1>3, JudgeKeepsInv DEF ResolveGetter

\* What resolveOverrides and enforceInterfaceImplementation report is a diagnostic
\* of a class.
LEMMA CodeFacts ==
  ASSUME NEW code \in Codes, NEW S, S \subseteq Classes
  PROVE  Code(code, S) \subseteq Codes \X Classes
BY DEF Code

LEMMA ReportFacts ==
  ASSUME NEW code \in Codes, NEW c \in Classes, NEW broken
  PROVE  Report(code, c, broken) \subseteq Codes \X Classes
BY DEF Report

LEMMA ListErrorsFacts ==
  ASSUME NEW c \in Classes, NEW heads
  PROVE  ListErrors(c, heads) \subseteq Codes \X Classes
<1>1. "JETH415" \in Codes /\ "JETH381" \in Codes
  BY DEF Codes
<1> QED
  BY <1>1, ReportFacts DEF ListErrors

LEMMA VersionErrorsFacts ==
  ASSUME NEW v \in Classes
  PROVE  VersionErrors(v) \subseteq Codes \X Classes
<1>1. {"JETH374", "JETH375", "JETH376", "JETH377", "JETH369", "JETH443", "JETH431"} \subseteq Codes
  BY DEF Codes
<1>2. OrderErrors(v) \subseteq Codes \X Classes
  <2>1. \A code \in {"JETH374", "JETH376", "JETH369"} : \A broken : Report(code, v, broken) \subseteq Codes \X Classes
    BY <1>1, ReportFacts
  <2>2. \A heads : ListErrors(v, heads) \subseteq Codes \X Classes
    BY ListErrorsFacts
  <2> QED
    BY <2>1, <2>2 DEF OrderErrors
<1>3. \A over : PairErrors(v, over) \subseteq Codes \X Classes
  <2>1. \A code \in {"JETH375", "JETH377", "JETH443", "JETH431"} : \A broken : Report(code, v, broken) \subseteq Codes \X Classes
    BY <1>1, ReportFacts
  <2> QED
    BY <2>1 DEF PairErrors
<1> QED
  BY <1>2, <1>3 DEF VersionErrors

LEMMA ResolveOverridesKeepsInv ==
  ASSUME Inv, ResolveOverrides
  PROVE  Inv'
<1>1. pc = "override" /\ stack = <<>> /\ Deployed \in DOMAIN memo
  BY DEF ResolveOverrides, Inv, StackInv
<1>2. /\ ToSet(Lin) \subseteq Classes /\ ToSet(Tail(Lin)) \subseteq Classes /\ Deployed \in Classes
      /\ Definers \subseteq ToSet(Lin)
  BY <1>1, LinFacts DEF Definers
<1>3. {"JETH483", "JETH380", "JETH430", "JETH369"} \subseteq Codes
  BY DEF Codes
<1>4. Unimplemented \subseteq Codes \X Classes
  <2>1. \A S : S \subseteq Classes => Code("JETH483", S) \subseteq Codes \X Classes
    BY <1>3, CodeFacts
  <2>2. \A S : S \subseteq Classes => Code("JETH380", S) \subseteq Codes \X Classes
    BY <1>3, CodeFacts
  <2>3. { c \in ToSet(Lin) : Defines(c) /\ Concrete(c) /\ ~Fn(c).body } \subseteq Classes
    BY <1>2
  <2>4. { c \in ToSet(Tail(Lin)) :
            /\ Concrete(c) /\ DefinersIn(c) # {} /\ First(DefinersIn(c)) # c
            /\ ~Fn(First(DefinersIn(c))).body /\ ~VarWithin(c) } \subseteq Classes
    BY <1>2
  <2>5. { c \in {Deployed} : Concrete(c) /\ ~validVar /\ ~Fn(First(Definers)).body } \subseteq Classes
    BY <1>2
  <2> QED
    BY <2>1, <2>2, <2>3, <2>4, <2>5 DEF Unimplemented
<1>5. Code("JETH430", { c \in ToSet(Lin) : MustOverride(c) }) \subseteq Codes \X Classes
  BY <1>2, <1>3, CodeFacts
<1>6. ASSUME Definers # {}  PROVE LoneErrors \subseteq Codes \X Classes
  <2>1. First(Definers) \in Classes
    BY <1>1, <1>2, <1>6, FirstFacts
  <2>2. PICK v \in Classes : v = First(Definers)
    BY <2>1
  <2>3. \A broken : Report("JETH369", v, broken) \subseteq Codes \X Classes
    BY <1>3, ReportFacts
  <2>4. \A heads : ListErrors(v, heads) \subseteq Codes \X Classes
    BY ListErrorsFacts
  <2>5. LoneErrors = Report("JETH369", v, Fn(v).override /\ \A i \in ToSet(Lin) : ~Declares(i))
                     \cup (IF InterfaceHeads(v) = {} THEN {} ELSE ListErrors(v, InterfaceHeads(v)))
    BY <2>2 DEF LoneErrors
  <2> QED
    BY <2>3, <2>4, <2>5
<1>7. UNION { VersionErrors(v) : v \in Definers } \subseteq Codes \X Classes
  <2>1. \A v \in Definers : VersionErrors(v) \subseteq Codes \X Classes
    BY <1>2, VersionErrorsFacts
  <2> QED
    BY <2>1
<1>8. errors' \subseteq Codes \X Classes
  <2>1. errors \subseteq Codes \X Classes
    BY DEF Inv
  <2> QED
    BY <1>4, <1>5, <1>6, <1>7, <2>1 DEF ResolveOverrides
<1>9. validVar' \in BOOLEAN
  BY DEF ResolveOverrides, Inv
<1> QED
  BY <1>1, <1>8, <1>9, JudgeKeepsInv DEF ResolveOverrides

LEMMA EnforceInterfacesKeepsInv ==
  ASSUME Inv, EnforceInterfaces
  PROVE  Inv'
<1>1. pc = "interface" /\ stack = <<>> /\ Deployed \in DOMAIN memo
  BY DEF EnforceInterfaces, Inv, StackInv
<1>2. /\ ToSet(Lin) \subseteq Classes /\ ToSet(Tail(Lin)) \subseteq Classes /\ Deployed \in Classes
      /\ Definers \subseteq ToSet(Lin)
  BY <1>1, LinFacts DEF Definers
<1>3. {"JETH385", "JETH386", "JETH388", "JETH483"} \subseteq Codes
  BY DEF Codes
<1>4. \A code \in {"JETH385", "JETH386", "JETH388", "JETH483"} : \A S :
        S \subseteq Classes => Code(code, S) \subseteq Codes \X Classes
  BY <1>3, CodeFacts
<1>5. ASSUME NEW i  PROVE InterfaceErrors(i) \subseteq Codes \X Classes
  <2>1. ASSUME Definers # {}
        PROVE  /\ Code("JETH386", { c \in {First(Definers)} : Fn(c).returns # Fn(i).returns }) \subseteq Codes \X Classes
               /\ Code("JETH388", { c \in {First(Definers)} : ~Fn(c).external }) \subseteq Codes \X Classes
    <3>1. First(Definers) \in Classes
      BY <1>1, <1>2, <2>1, FirstFacts
    <3>2. \A P : P \subseteq {First(Definers)} => P \subseteq Classes
      BY <3>1
    <3> QED
      BY <1>4, <3>2
  <2>2. Code("JETH385", { c \in {Deployed} : Concrete(c) }) \subseteq Codes \X Classes
    BY <1>2, <1>4
  <2> QED
    BY <2>1, <2>2 DEF InterfaceErrors
<1>6. ASSUME NEW i  PROVE UnimplementedIn(i) \subseteq Codes \X Classes
  BY <1>2, <1>4 DEF UnimplementedIn
<1>7. UNION { InterfaceErrors(i) \cup UnimplementedIn(i) : i \in { i \in ToSet(Lin) : Declares(i) } } \subseteq Codes \X Classes
  BY <1>5, <1>6
<1>8. errors' \subseteq Codes \X Classes
  <2>1. errors \subseteq Codes \X Classes
    BY DEF Inv
  <2> QED
    BY <1>7, <2>1 DEF EnforceInterfaces
<1>9. validVar' \in BOOLEAN
  BY DEF EnforceInterfaces, Inv
<1> QED
  BY <1>1, <1>8, <1>9, JudgeKeepsInv DEF EnforceInterfaces

LEMMA StutterKeepsInv ==
  ASSUME Inv, UNCHANGED vars
  PROVE  Inv'
<1>1. UNCHANGED <<hierarchy, pc, stack, memo, seqs, out, validVar, errors>>
  BY DEF vars
<1>2. MemoInv' /\ MergeInv' /\ Classes' = Classes
  BY <1>1, SameLinearizations
<1>3. StackInv'
  BY <1>1, <1>2 DEF Inv, StackInv
<1>4. LinearizationComplete'
  BY <1>1 DEF Inv, LinearizationComplete, Top, BasesOf, Reversed, View
<1> QED
  BY <1>1, <1>2, <1>3, <1>4 DEF Inv

\* What linearize and c3Merge keep at every step, whatever the hierarchy: the
\* linearizations found are sound, the merge has a prefix of every sequence, and a
\* refusal is a proof that no order exists.
THEOREM SpecInv == Spec => []Inv
<1>1. Init => Inv
  BY InitInv
<1>2. Inv /\ [Next]_vars => Inv'
  <2> SUFFICES ASSUME Inv, [Next]_vars  PROVE Inv'
    OBVIOUS
  <2>1. CASE DuplicateBase \/ UnknownBase \/ CyclicBase
    BY <2>1, RejectKeepsInv
  <2>2. CASE Descend
    BY <2>2, DescendKeepsInv
  <2>3. CASE StartMerge
    BY <2>3, StartMergeKeepsInv
  <2>4. CASE MergeTurn
    BY <2>4, MergeTurnKeepsInv
  <2>5. CASE Unmergeable
    BY <2>5, UnmergeableKeepsInv
  <2>6. CASE MergeBases
    BY <2>6, MergeBasesKeepsInv
  <2>7. CASE ResolveGetter
    BY <2>7, ResolveGetterKeepsInv
  <2>8. CASE ResolveOverrides
    BY <2>8, ResolveOverridesKeepsInv
  <2>9. CASE EnforceInterfaces
    BY <2>9, EnforceInterfacesKeepsInv
  <2>10. CASE UNCHANGED vars
    BY <2>10, StutterKeepsInv
  <2> QED
    BY <2>1, <2>2, <2>3, <2>4, <2>5, <2>6, <2>7, <2>8, <2>9, <2>10 DEF Next
<1> QED
  BY <1>1, <1>2, PTL DEF Spec

\* linearize and c3Merge: every order the analyzer gives a class keeps the orders
\* of all it extends and of the bases as written, and a hierarchy is refused only
\* when no order does.
THEOREM SpecLinearizesAsC3 == Spec => []LinearizesAsC3
<1>1. Inv => LinearizesAsC3
  BY InvImpliesTypeOK DEF Inv, MemoInv, LinearizesAsC3
<1> QED
  BY <1>1, SpecInv, PTL

-----------------------------------------------------------------------------
(* What the judgements accept. *)

VersionsAccepted ==
  Definers = {} \/ ( /\ Unimplemented = {} /\ { c \in ToSet(Lin) : MustOverride(c) } = {}
                     /\ Cardinality(Definers) = 1 \/ \A v \in Definers : VersionErrors(v) = {} )
InterfacesAccepted ==
  \A i \in ToSet(Lin) : Declares(i) => InterfaceErrors(i) = {} /\ UnimplementedIn(i) = {}

\* What each judgement that passed without a diagnostic has found.
JudgeInv ==
  /\ pc \in {"linearize", "getter"} => ~validVar
  /\ validVar => HasVar /\ VarIsValid
  /\ pc \in {"interface", "done"} /\ errors = {} => VersionsAccepted
  /\ pc = "done" /\ errors = {} => InterfacesAccepted

\* The judgements look at the hierarchy, at the linearizations and at the verdict on
\* the variable only.
LEMMA SameJudgements ==
  ASSUME UNCHANGED <<hierarchy, memo>>
  PROVE  /\ HasVar' = HasVar /\ VarIsValid' = VarIsValid
         /\ UNCHANGED validVar => VersionsAccepted' = VersionsAccepted /\ InterfacesAccepted' = InterfacesAccepted
<1>1. /\ Lin' = Lin /\ Definers' = Definers
      /\ \A c : /\ Above(c)' = Above(c) /\ View(c)' = View(c) /\ Fn(c)' = Fn(c) /\ BasesOf(c)' = BasesOf(c)
                /\ IsInterface(c)' = IsInterface(c) /\ Concrete(c)' = Concrete(c)
                /\ Defines(c)' = Defines(c) /\ Declares(c)' = Declares(c)
  BY DEF Lin, Definers, Above, View, Fn, BasesOf, IsInterface, Concrete, Defines, Declares
<1>2. /\ \A S : First(S)' = First(S)
      /\ \A c : Index(c)' = Index(c)
  BY <1>1 DEF First, Index
<1>3. /\ HasVar' = HasVar
      /\ VarBases' = VarBases /\ VarInterfaces' = VarInterfaces
      /\ \A c, S : ContractHeads(c, S)' = ContractHeads(c, S)
      /\ \A c : InterfaceHeads(c)' = InterfaceHeads(c)
      /\ \A c : DefinersIn(c)' = DefinersIn(c)
      /\ \A c : Overridden(c)' = Overridden(c)
  <2>1. HasVar' = HasVar /\ VarBases' = VarBases /\ VarInterfaces' = VarInterfaces
    BY <1>1, <1>2 DEF HasVar, VarBases, VarInterfaces
  <2>2. \A b, S : HeadWithin(b, S)' = HeadWithin(b, S)
    BY <1>1, <1>2 DEF HeadWithin
  <2>3. \A c, S : ContractHeads(c, S)' = ContractHeads(c, S)
    BY <1>1, <2>2 DEF ContractHeads
  <2>4. \A c : InterfaceHeads(c)' = InterfaceHeads(c)
    BY <1>1 DEF InterfaceHeads
  <2>5. \A c : DefinersIn(c)' = DefinersIn(c) /\ Overridden(c)' = Overridden(c)
    BY <1>1 DEF DefinersIn, Overridden
  <2> QED
    BY <2>1, <2>3, <2>4, <2>5
<1>4. VarIsValid' = VarIsValid
  BY <1>1, <1>3 DEF VarIsValid
<1>5. ASSUME UNCHANGED validVar
      PROVE  VersionsAccepted' = VersionsAccepted
  <2>1. Unimplemented' = Unimplemented
    BY <1>1, <1>2, <1>3, <1>5 DEF Unimplemented, Code, VarWithin
  <2>2. \A c : VersionErrors(c)' = VersionErrors(c)
    BY <1>1, <1>2, <1>3, <1>5 DEF VersionErrors, OrderErrors, PairErrors, ListErrors, Report
  <2>3. Delivered' = Delivered
    <3>1. \A c, f : DeliveredOf(c, f)' = DeliveredOf(c, f)
      BY DEF DeliveredOf, Maximal, BasesOf, Defines, Declares, Above, Fn, IsInterface
    <3> QED
      BY <1>1, <3>1 DEF Delivered
  <2>4. \A c : MustOverride(c)' = MustOverride(c)
    <3>1. \A x, y : Subsumed(x, y)' = Subsumed(x, y)
      BY <1>1 DEF Subsumed, Bodyless
    <3>2. \A c : PerBase(c)' = PerBase(c)
      BY <1>1, <2>3 DEF PerBase
    <3>3. \A c : Live(c)' = Live(c)
      BY <3>1, <3>2 DEF Live
    <3> QED
      BY <1>1, <1>5, <3>3 DEF MustOverride
  <2> QED
    BY <1>1, <2>1, <2>2, <2>4 DEF VersionsAccepted
<1>6. ASSUME UNCHANGED validVar
      PROVE  InterfacesAccepted' = InterfacesAccepted
  <2>1. \A i : UnimplementedIn(i)' = UnimplementedIn(i)
    BY <1>1, <1>2, <1>3, <1>6 DEF UnimplementedIn, Code, VarWithin
  <2>2. \A i : InterfaceErrors(i)' = InterfaceErrors(i)
    BY <1>1, <1>2, <1>3, <1>6 DEF InterfaceErrors, Code
  <2> QED
    BY <1>1, <2>1, <2>2 DEF InterfacesAccepted
<1> QED
  BY <1>3, <1>4, <1>5, <1>6

LEMMA JudgeInvKept ==
  ASSUME Inv, JudgeInv, [Next]_vars
  PROVE  JudgeInv'
<1>1. CASE DuplicateBase \/ UnknownBase \/ CyclicBase \/ Unmergeable
  <2>1. PICK code, c : Fail(code, c)
    BY <1>1 DEF DuplicateBase, UnknownBase, CyclicBase, Unmergeable
  <2>2. pc = "linearize" /\ errors' # {} /\ pc' = "done" /\ validVar' = validVar
    BY <1>1, <2>1 DEF Fail, DuplicateBase, UnknownBase, CyclicBase, Unmergeable, Merging, Linearizing
  <2> QED
    BY <2>2 DEF JudgeInv
<1>2. CASE Descend \/ StartMerge \/ MergeTurn \/ MergeBases
  <2>1. pc = "linearize" /\ pc' \in {"linearize", "getter"} /\ validVar' = validVar
    BY <1>2 DEF Descend, StartMerge, MergeTurn, MergeBases, Merging, Linearizing
  <2> QED
    BY <2>1 DEF JudgeInv
<1>3. CASE ResolveGetter
  <2>1. /\ pc' = "override" /\ validVar' = (HasVar /\ VarIsValid)
        /\ UNCHANGED <<hierarchy, memo>>
    BY <1>3 DEF ResolveGetter
  <2>2. HasVar' = HasVar /\ VarIsValid' = VarIsValid
    BY <2>1, SameJudgements
  <2>3. validVar' => HasVar' /\ VarIsValid'
    BY <2>1, <2>2, Zenon
  <2> QED
    BY <2>1, <2>3 DEF JudgeInv
<1>4. CASE ResolveOverrides
  <2>1. /\ pc = "override" /\ pc' = "interface" /\ UNCHANGED <<hierarchy, memo, validVar>>
        /\ errors' = errors \cup
             (IF Definers = {} THEN {}
              ELSE Unimplemented \cup Code("JETH430", { c \in ToSet(Lin) : MustOverride(c) })
                   \cup (IF Cardinality(Definers) = 1 THEN LoneErrors ELSE UNION { VersionErrors(v) : v \in Definers }))
    BY <1>4 DEF ResolveOverrides
  <2>2. ASSUME errors' = {}  PROVE VersionsAccepted
    <3>1. SUFFICES ASSUME Definers # {}  PROVE VersionsAccepted
      BY DEF VersionsAccepted
    <3>2. /\ Unimplemented = {} /\ Code("JETH430", { c \in ToSet(Lin) : MustOverride(c) }) = {}
          /\ Cardinality(Definers) = 1 \/ UNION { VersionErrors(v) : v \in Definers } = {}
      BY <2>1, <2>2, <3>1
    <3>3. { c \in ToSet(Lin) : MustOverride(c) } = {}
      BY <3>2 DEF Code
    <3> QED
      BY <3>2, <3>3 DEF VersionsAccepted
  <2> QED
    BY <2>1, <2>2, SameJudgements DEF JudgeInv
<1>5. CASE EnforceInterfaces
  <2>1. /\ pc = "interface" /\ pc' = "done" /\ UNCHANGED <<hierarchy, memo, validVar>>
        /\ errors' = errors \cup
             UNION { InterfaceErrors(i) \cup UnimplementedIn(i) : i \in { i \in ToSet(Lin) : Declares(i) } }
    BY <1>5 DEF EnforceInterfaces
  <2>2. ASSUME errors' = {}  PROVE errors = {} /\ InterfacesAccepted
    BY <2>1, <2>2 DEF InterfacesAccepted
  <2> QED
    BY <2>1, <2>2, SameJudgements DEF JudgeInv
<1>6. CASE UNCHANGED vars
  <2>1. UNCHANGED <<hierarchy, pc, memo, validVar, errors>>
    BY <1>6 DEF vars
  <2> QED
    BY <2>1, SameJudgements DEF JudgeInv
<1> QED
  BY <1>1, <1>2, <1>3, <1>4, <1>5, <1>6 DEF Next

-----------------------------------------------------------------------------
(* Accepted overrides are substitutable, and what can be deployed is complete. *)

\* The deployed order has a class before all that it extends.
LEMMA LinOrder ==
  ASSUME Inv, Deployed \in DOMAIN memo, NEW a \in ToSet(Lin), NEW b \in Above(a)
  PROVE  Before(a, b, Lin)
<1>1. a \in DOMAIN memo
  BY LinFacts
<1>2. /\ memo[a] \in Seq(Classes) /\ memo[a] # <<>> /\ Head(memo[a]) = a
  BY <1>1 DEF Inv, MemoInv, LinearizationSound
<1>3. Len(memo[a]) \in Nat \ {0} /\ DOMAIN memo[a] = 1..Len(memo[a]) /\ memo[a][1] = a
  BY <1>2, LenProperties, EmptySeq
<1>4. PICK j \in 1..Len(memo[a]) : memo[a][j] = b
  BY <1>3 DEF Above, ToSet
<1>5. b # a
  BY DEF Above
<1>6. j # 1 /\ 1 \in 1..Len(memo[a]) /\ 1 < j
  BY <1>3, <1>4, <1>5
<1>7. CASE a = Deployed
  BY <1>3, <1>4, <1>6, <1>7 DEF Before, Lin
<1>8. CASE a # Deployed
  <2>1. a \in Above(Deployed)
    BY <1>8 DEF Above, Lin
  <2>2. Keeps(Lin, memo[a])
    BY <2>1 DEF Inv, MemoInv, LinearizationSound, Lin
  <2> QED
    BY <1>3, <1>4, <1>6, <2>2 DEF Keeps
<1> QED
  BY <1>7, <1>8

\* What a class of the deployed hierarchy sees is in the deployed order, the others
\* behind it.
LEMMA ViewInLin ==
  ASSUME Inv, Deployed \in DOMAIN memo, NEW a \in ToSet(Lin)
  PROVE  /\ View(a) \subseteq ToSet(Lin)
         /\ \A b \in Above(a) : Index(b) > Index(a)
         /\ a = Deployed \/ a \in ToSet(Tail(Lin))
<1>1. ASSUME NEW b \in Above(a)  PROVE b \in ToSet(Lin) /\ Index(b) > Index(a)
  <2>1. PICK i \in DOMAIN Lin, j \in DOMAIN Lin : i < j /\ Lin[i] = a /\ Lin[j] = b
    BY LinOrder DEF Before
  <2>2. IsInjective(Lin)
    BY DEF Inv, MemoInv, LinearizationSound, Lin
  <2>3. Index(a) = i /\ Index(b) = j
    BY <2>1, <2>2 DEF Index, IsInjective
  <2> QED
    BY <2>1, <2>3 DEF ToSet
<1>2. View(a) \subseteq ToSet(Lin)
  BY <1>1 DEF View, Above
<1>3. a = Deployed \/ a \in ToSet(Tail(Lin))
  <2>1. Lin \in Seq(Classes) /\ Lin # <<>> /\ Head(Lin) = Deployed
    BY LinFacts DEF Inv, MemoInv, LinearizationSound, Lin
  <2>2. PICK i \in DOMAIN Lin : Lin[i] = a
    BY DEF ToSet
  <2>3. /\ Tail(Lin) \in Seq(Classes) /\ Len(Tail(Lin)) = Len(Lin) - 1
        /\ \A k \in 1..Len(Tail(Lin)) : Tail(Lin)[k] = Lin[k + 1]
    BY <2>1, HeadTailProperties
  <2>4. Len(Lin) \in Nat \ {0} /\ DOMAIN Lin = 1..Len(Lin) /\ DOMAIN Tail(Lin) = 1..Len(Tail(Lin))
    BY <2>1, <2>3, LenProperties, EmptySeq
  <2>5. Lin[1] = Deployed
    BY <2>1
  <2>6. i = 1 \/ (i - 1 \in 1..Len(Tail(Lin)) /\ (i - 1) + 1 = i)
    BY <2>2, <2>3, <2>4
  <2> QED
    BY <2>2, <2>3, <2>4, <2>5, <2>6 DEF ToSet
<1> QED
  BY <1>1, <1>2, <1>3

\* A version agrees with all that it overrides.
LEMMA VersionsAgree ==
  ASSUME Inv, Deployed \in DOMAIN memo, VersionsAccepted,
         NEW v \in Definers, NEW b \in Definers \cap Above(v)
  PROVE  Fn(b).returns = Fn(v).returns /\ Fn(b).external = Fn(v).external /\ Fn(b).virtual
<1>1. Cardinality(Definers) # 1
  <2> SUFFICES ASSUME Cardinality(Definers) = 1  PROVE FALSE
    OBVIOUS
  <2>1. IsFiniteSet(Definers)
    BY LinFacts, HierarchyFacts, FS_Subset DEF Inv
  <2>2. PICK d : Definers = {d}
    BY <2>1, FS_Singleton
  <2>3. b # v
    BY DEF Above
  <2> QED
    BY <2>2, <2>3
<1>2. VersionErrors(v) = {}
  BY <1>1 DEF VersionsAccepted
<1>3. b \in Overridden(v)
  BY DEF Overridden
<1>4. PairErrors(v, Overridden(v)) = {}
  BY <1>2 DEF VersionErrors
<1>5. \A code, broken : Report(code, v, broken) = {} => ~broken
  BY DEF Report
<1>6. /\ ~ \E e \in Overridden(v) : ~Fn(e).virtual
      /\ ~ \E e \in Overridden(v) : Fn(e).returns # Fn(v).returns
      /\ ~ \E e \in Overridden(v) : Fn(e).external # Fn(v).external
  BY <1>4 DEF PairErrors, Report
<1> QED
  BY <1>3, <1>6

\* A variable agrees with all that it overrides.
LEMMA VariableAgrees ==
  ASSUME Inv, Deployed \in DOMAIN memo, HasVar, VarIsValid,
         NEW b \in Definers \cap Above(hierarchy.var.at)
  PROVE  Fn(b).returns = hierarchy.var.returns /\ Fn(b).external /\ Fn(b).virtual
<1>1. PICK a \in ToSet(Lin) : a = hierarchy.var.at
  BY DEF HasVar
<1>2. Index(b) > Index(a)
  BY <1>1, ViewInLin
<1>3. b \in VarBases
  BY <1>1, <1>2 DEF VarBases
<1> QED
  BY <1>3 DEF VarIsValid

\* What a deployed contract dispatches to agrees with every interface it implements.
LEMMA EntryAgrees ==
  ASSUME Inv, Deployed \in DOMAIN memo, InterfacesAccepted, Definers # {}, Concrete(Deployed),
         NEW i \in ToSet(Lin), Declares(i)
  PROVE  IF Entry \in Definers /\ ~validVar THEN Fn(Entry).returns = Fn(i).returns /\ Fn(Entry).external
         ELSE hierarchy.var.returns = Fn(i).returns
<1>1. InterfaceErrors(i) = {}
  BY DEF InterfacesAccepted
<1>2. \A code, S : Code(code, S) = {} => S = {}
  BY DEF Code
<1>3. { c \in {Deployed} : Concrete(c) } # {}
  OBVIOUS
<1>4. CASE validVar
  <2>1. Fn(i).returns = hierarchy.var.returns
    BY <1>1, <1>2, <1>3, <1>4 DEF InterfaceErrors
  <2> QED
    BY <1>4, <2>1
<1>5. CASE ~validVar
  <2>1. Entry = First(Definers) /\ First(Definers) \in Definers
    <3>1. Definers \subseteq ToSet(Lin)
      BY DEF Definers
    <3> QED
      BY <1>5, <3>1, FirstFacts DEF Entry
  <2>2. Fn(First(Definers)).body
    BY <1>1, <1>2, <1>3, <1>5 DEF InterfaceErrors
  <2>3. /\ Code("JETH386", { c \in {First(Definers)} : Fn(c).returns # Fn(i).returns }) = {}
        /\ Code("JETH388", { c \in {First(Definers)} : ~Fn(c).external }) = {}
    BY <1>1, <1>5, <2>2 DEF InterfaceErrors
  <2>4. /\ { c \in {First(Definers)} : Fn(c).returns # Fn(i).returns } = {}
        /\ { c \in {First(Definers)} : ~Fn(c).external } = {}
    BY <1>2, <2>3
  <2> QED
    BY <1>5, <2>1, <2>4
<1> QED
  BY <1>4, <1>5

\* Every class that is not abstract has a body for f in its own view.
LEMMA HasBody ==
  ASSUME Inv, Deployed \in DOMAIN memo, validVar => HasVar, VersionsAccepted, InterfacesAccepted,
         NEW c \in ToSet(Lin), Concrete(c), NEW d \in View(c), Defines(d) \/ Declares(d), ~VarWithin(c)
  PROVE  DefinersIn(c) # {} /\ Fn(First(DefinersIn(c))).body
<1>1. View(c) \subseteq ToSet(Lin) /\ (c = Deployed \/ c \in ToSet(Tail(Lin)))
  BY ViewInLin
<1>2. \A code, S : Code(code, S) = {} => S = {}
  BY DEF Code
<1>3. c = Deployed => ~validVar /\ DefinersIn(c) = Definers
  <2>1. View(Deployed) = ToSet(Lin)
    BY DEF View, Lin
  <2>2. c = Deployed => DefinersIn(c) = Definers
    BY <2>1 DEF DefinersIn, Definers
  <2>3. c = Deployed => ~validVar
    BY <2>1 DEF HasVar, VarWithin
  <2> QED
    BY <2>2, <2>3
<1>4. CASE DefinersIn(c) # {}
  <2> DEFINE f == First(DefinersIn(c))
  <2>1. Definers # {}
    BY <1>4 DEF DefinersIn
  <2>2. Unimplemented = {}
    BY <2>1 DEF VersionsAccepted
  <2>3. /\ { e \in ToSet(Lin) : Defines(e) /\ Concrete(e) /\ ~Fn(e).body } = {}
        /\ { e \in ToSet(Tail(Lin)) :
               /\ Concrete(e) /\ DefinersIn(e) # {} /\ First(DefinersIn(e)) # e
               /\ ~Fn(First(DefinersIn(e))).body /\ ~VarWithin(e) } = {}
        /\ { e \in {Deployed} : Concrete(e) /\ ~validVar /\ ~Fn(First(Definers)).body } = {}
    BY <1>2, <2>2 DEF Unimplemented
  <2>4. f \in DefinersIn(c)
    BY <1>4, FirstFacts DEF DefinersIn, Definers
  <2>5. CASE f = c
    <3>1. Defines(c)
      BY <2>4, <2>5 DEF DefinersIn, Definers
    <3> QED
      BY <1>4, <2>3, <2>5, <3>1
  <2>6. CASE f # c /\ c # Deployed
    BY <1>1, <1>4, <2>3, <2>6
  <2>7. CASE c = Deployed
    <3>1. Deployed \notin { e \in {Deployed} : Concrete(e) /\ ~validVar /\ ~Fn(First(Definers)).body }
      BY <2>3
    <3> QED
      BY <1>3, <1>4, <2>7, <3>1
  <2> QED
    BY <2>5, <2>6, <2>7
<1>5. CASE DefinersIn(c) = {}
  <2>1. ~Defines(d)
    BY <1>1, <1>5 DEF DefinersIn, Definers
  <2>2. Declares(d) /\ d \in ToSet(Lin) /\ d # c
    BY <1>1, <2>1 DEF Declares, IsInterface, Concrete
  <2>3. InterfaceErrors(d) = {} /\ UnimplementedIn(d) = {}
    BY <2>2 DEF InterfacesAccepted
  <2>4. CASE c = Deployed
    <3>1. { e \in {Deployed} : Concrete(e) } # {}
      BY <2>4
    <3> QED
      BY <1>2, <1>3, <1>5, <2>3, <2>4, <3>1 DEF InterfaceErrors
  <2>5. CASE c # Deployed
    <3>1. d \in Above(c)
      BY <2>2 DEF View, Above
    <3>2. { e \in ToSet(Tail(Lin)) :
              /\ Concrete(e) /\ d \in Above(e)
              /\ ~(VarWithin(e) /\ Fn(d).returns = hierarchy.var.returns)
              /\ \/ DefinersIn(e) = {}
                 \/ (~Fn(First(DefinersIn(e))).body /\ First(DefinersIn(e)) # e) } = {}
      BY <1>2, <2>3 DEF UnimplementedIn
    <3> QED
      BY <1>1, <1>5, <2>5, <3>1, <3>2
  <2> QED
    BY <2>4, <2>5
<1> QED
  BY <1>4, <1>5

\* resolveOverrides, resolveGetterOverrides and enforceInterfaceImplementation: an
\* accepted hierarchy has no override of another type or visibility than what it
\* overrides, at any distance and on any branch, and no concrete class without a
\* body, however many classes, versions and interfaces there are.
THEOREM SpecOverridesSubstitutable == Spec => []OverridesSubstitutable
<1>1. Init => JudgeInv
  BY DEF Init, JudgeInv
<1>2. Inv /\ JudgeInv /\ [Next]_vars => JudgeInv'
  BY JudgeInvKept
<1>3. Inv /\ JudgeInv => OverridesSubstitutable
  <2> SUFFICES ASSUME Inv, JudgeInv, Accepted  PROVE OverridesSubstitutable
    BY DEF OverridesSubstitutable, Substitutable, Implemented
  <2>1. Deployed \in DOMAIN memo
    BY DEF Inv, StackInv, Accepted, Done
  <2>2. VersionsAccepted /\ InterfacesAccepted /\ (validVar => HasVar /\ VarIsValid)
    BY DEF JudgeInv, Accepted, Done
  <2>3. Substitutable
    <3>1. \A v \in Definers : \A b \in Definers \cap Above(v) :
            Fn(b).returns = Fn(v).returns /\ Fn(b).external = Fn(v).external /\ Fn(b).virtual
      BY <2>1, <2>2, VersionsAgree
    <3>2. validVar => \A b \in Definers \cap Above(hierarchy.var.at) :
            Fn(b).returns = hierarchy.var.returns /\ Fn(b).external /\ Fn(b).virtual
      BY <2>1, <2>2, VariableAgrees
    <3>3. Definers # {} /\ Concrete(Deployed) => \A i \in ToSet(Lin) : Declares(i) =>
            IF Entry \in Definers /\ ~validVar THEN Fn(Entry).returns = Fn(i).returns /\ Fn(Entry).external
            ELSE hierarchy.var.returns = Fn(i).returns
      BY <2>1, <2>2, EntryAgrees
    <3> QED
      BY <3>1, <3>2, <3>3 DEF Substitutable
  <2>4. Implemented
    <3> SUFFICES ASSUME NEW c \in ToSet(Lin), Concrete(c), NEW d \in View(c), Defines(d) \/ Declares(d),
                        ~VarWithin(c)
                 PROVE  DefinersIn(c) # {} /\ Fn(First(DefinersIn(c))).body
      BY DEF Implemented, VarWithin
    <3> QED
      BY <2>1, <2>2, HasBody
  <2> QED
    BY <2>3, <2>4 DEF OverridesSubstitutable
<1> QED
  BY <1>1, <1>2, <1>3, SpecInv, PTL DEF Spec

-----------------------------------------------------------------------------
(* One version dominates. *)

\* Where a class stands in the deployed order.
LEMMA IndexFacts ==
  ASSUME Inv, Deployed \in DOMAIN memo
  PROVE  /\ Len(Lin) \in Nat /\ DOMAIN Lin = 1..Len(Lin)
         /\ \A c \in ToSet(Lin) : Index(c) \in 1..Len(Lin) /\ Lin[Index(c)] = c
         /\ \A i \in 1..Len(Lin) : Lin[i] \in ToSet(Lin) /\ Index(Lin[i]) = i
<1>1. Lin \in Seq(Classes) /\ IsInjective(Lin)
  BY LinFacts DEF Inv, MemoInv, LinearizationSound, Lin
<1>2. Len(Lin) \in Nat /\ DOMAIN Lin = 1..Len(Lin)
  BY <1>1, LenProperties
<1>3. \A c \in ToSet(Lin) : Index(c) \in DOMAIN Lin /\ Lin[Index(c)] = c
  BY DEF Index, ToSet
<1>4. \A i \in DOMAIN Lin : Lin[i] \in ToSet(Lin)
  BY DEF ToSet
<1>5. \A i \in DOMAIN Lin : Index(Lin[i]) = i
  BY <1>1, <1>3, <1>4 DEF IsInjective
<1> QED
  BY <1>2, <1>3, <1>4, <1>5

\* Above a class are its bases and all that is above them.
LEMMA AboveFacts ==
  ASSUME Inv, Deployed \in DOMAIN memo, NEW c \in ToSet(Lin)
  PROVE  /\ View(c) = {c} \cup Above(c) /\ c \notin Above(c) /\ View(c) \subseteq ToSet(Lin)
         /\ ToSet(BasesOf(c)) \subseteq Above(c)
         /\ Above(c) = UNION { View(b) : b \in ToSet(BasesOf(c)) }
         /\ \A b \in Above(c) : View(b) \subseteq Above(c)
<1>1. c \in DOMAIN memo /\ View(c) \subseteq ToSet(Lin) /\ ToSet(Lin) \subseteq DOMAIN memo
  BY LinFacts, ViewInLin
<1>2. \A d \in DOMAIN memo : d \in View(d)
  <2> TAKE d \in DOMAIN memo
  <2>1. memo[d] \in Seq(Classes) /\ memo[d] # <<>> /\ Head(memo[d]) = d
    BY DEF Inv, MemoInv, LinearizationSound
  <2>2. Len(memo[d]) \in Nat \ {0} /\ DOMAIN memo[d] = 1..Len(memo[d]) /\ memo[d][1] = d
    BY <2>1, LenProperties, EmptySeq
  <2> QED
    BY <2>2 DEF View, ToSet
<1>3. View(c) = {c} \cup Above(c) /\ c \notin Above(c)
  BY <1>1, <1>2 DEF View, Above
<1>4. View(c) = {c} \cup UNION { View(b) : b \in ToSet(BasesOf(c)) }
      /\ ToSet(BasesOf(c)) \subseteq DOMAIN memo /\ c \notin ToSet(BasesOf(c))
  BY <1>1 DEF Inv, MemoInv, LinearizationSound
<1>5. ToSet(BasesOf(c)) \subseteq Above(c)
  BY <1>2, <1>3, <1>4
<1>6. ASSUME NEW b \in Above(c), NEW x \in View(b)  PROVE x \in Above(c)
  <2>1. b \in ToSet(Lin) /\ Index(b) > Index(c)
    BY <1>1, <1>3, ViewInLin
  <2>2. CASE x = b
    BY <1>6, <2>2
  <2>3. CASE x # b
    <3>1. x \in Above(b)
      BY <1>6, <2>3 DEF View, Above
    <3>2. Index(x) > Index(b) /\ x \in ToSet(Lin)
      BY <2>1, <3>1, ViewInLin DEF View, Above
    <3>3. Keeps(memo[c], memo[b])
      BY <1>1 DEF Inv, MemoInv, LinearizationSound
    <3>4. b \in DOMAIN memo
      BY <1>1, <2>1
    <3>5. memo[b] \in Seq(Classes) /\ memo[b] # <<>> /\ Head(memo[b]) = b
      BY <3>4 DEF Inv, MemoInv, LinearizationSound
    <3>6. Len(memo[b]) \in Nat \ {0} /\ DOMAIN memo[b] = 1..Len(memo[b]) /\ memo[b][1] = b
      BY <3>5, LenProperties, EmptySeq
    <3>7. PICK j \in 1..Len(memo[b]) : memo[b][j] = x
      BY <1>6, <3>6 DEF View, ToSet
    <3>8. 1 \in DOMAIN memo[b] /\ j \in DOMAIN memo[b] /\ 1 < j
      BY <2>3, <3>6, <3>7
    <3>9. Before(b, x, memo[c])
      BY <3>3, <3>6, <3>7, <3>8 DEF Keeps
    <3>10. x \in View(c)
      BY <3>9 DEF Before, View, ToSet
    <3>11. Index(x) \in Nat /\ Index(b) \in Nat /\ Index(c) \in Nat
      BY <2>1, <3>2, IndexFacts
    <3>12. x # c
      BY <2>1, <3>2, <3>11
    <3> QED
      BY <1>3, <3>10, <3>12
  <2> QED
    BY <2>2, <2>3
<1>7. UNION { View(b) : b \in ToSet(BasesOf(c)) } \subseteq Above(c)
  BY <1>5, <1>6
<1>8. Above(c) \subseteq UNION { View(b) : b \in ToSet(BasesOf(c)) }
  BY <1>3, <1>4
<1> QED
  BY <1>1, <1>3, <1>5, <1>6, <1>7, <1>8

\* The last of some classes in the deployed order.
LEMMA LastFacts ==
  ASSUME Inv, Deployed \in DOMAIN memo, NEW S, S \subseteq ToSet(Lin), S # {}
  PROVE  \E c \in S : \A e \in S : Index(e) <= Index(c)
<1> DEFINE from(c) == Len(Lin) - Index(c)
           places == { from(c) : c \in S }
<1>1. Len(Lin) \in Nat /\ \A c \in S : Index(c) \in 1..Len(Lin)
  BY IndexFacts
<1>2. \A c \in S : from(c) \in Nat
  BY <1>1
<1>3. places \subseteq Nat /\ places # {}
  BY <1>2
<1>4. PICK p \in places : \A q \in places : p <= q
  BY <1>3, LeastNumber
<1>5. PICK c \in S : p = from(c)
  OBVIOUS
<1>6. ASSUME NEW e \in S  PROVE Index(e) <= Index(c)
  <2>1. from(c) <= from(e)
    BY <1>4, <1>5
  <2> QED
    BY <1>1, <2>1
<1> QED
  BY <1>6

\* Of any classes there is one that extends none of the others: what holds of a
\* class if it does of all above it holds of all.
LEMMA Topmost ==
  ASSUME Inv, Deployed \in DOMAIN memo, NEW S, S \subseteq ToSet(Lin), S # {}
  PROVE  \E c \in S : \A b \in Above(c) : b \notin S
<1>1. PICK c \in S : \A e \in S : Index(e) <= Index(c)
  BY LastFacts
<1>2. ASSUME NEW b \in Above(c), b \in S  PROVE FALSE
  <2>1. Index(b) > Index(c) /\ Index(b) <= Index(c)
    BY <1>1, <1>2, ViewInLin
  <2>2. Index(b) \in Nat /\ Index(c) \in Nat
    BY <1>2, IndexFacts
  <2> QED
    BY <2>1, <2>2
<1> QED
  BY <1>2

\* The first of some classes in the deployed order.
LEMMA FirstLeast ==
  ASSUME Inv, Deployed \in DOMAIN memo, NEW S, S \subseteq ToSet(Lin), S # {}
  PROVE  /\ First(S) \in S
         /\ \A e \in S : Index(First(S)) <= Index(e) /\ First(S) \notin Above(e)
<1>1. First(S) \in S
  BY FirstFacts
<1> DEFINE first(i) == Lin[i] \in S /\ \A j \in 1..(i - 1) : Lin[j] \notin S
<1>2. \E i \in DOMAIN Lin : first(i)
  <2> DEFINE places == { i \in DOMAIN Lin : Lin[i] \in S }
  <2>1. places \subseteq Nat /\ places # {}
    BY IndexFacts DEF ToSet
  <2>2. PICK i \in places : \A j \in places : i <= j
    BY <2>1, LeastNumber
  <2>3. \A j \in 1..(i - 1) : j \in DOMAIN Lin /\ ~(i <= j)
    BY <2>2, IndexFacts
  <2> QED
    BY <2>2, <2>3
<1>3. PICK i \in DOMAIN Lin : first(i) /\ First(S) = Lin[i]
  BY <1>2 DEF First
<1>4. Index(First(S)) = i /\ i \in 1..Len(Lin)
  BY <1>3, IndexFacts
<1>5. ASSUME NEW e \in S  PROVE i <= Index(e)
  <2>1. Index(e) \in 1..Len(Lin) /\ Lin[Index(e)] = e
    BY IndexFacts
  <2>2. Index(e) \notin 1..(i - 1)
    BY <1>3, <2>1
  <2> QED
    BY <1>4, <2>1, <2>2, IndexFacts
<1>6. ASSUME NEW e \in S, First(S) \in Above(e)  PROVE FALSE
  <2>1. Index(First(S)) > Index(e)
    BY <1>6, ViewInLin
  <2>2. Index(e) \in Nat
    BY IndexFacts
  <2> QED
    BY <1>4, <1>5, <2>1, <2>2
<1> QED
  BY <1>1, <1>4, <1>5, <1>6

\* A version that derives from all the others is the first of them.
LEMMA DerivesFirst ==
  ASSUME Inv, Deployed \in DOMAIN memo, NEW S, S \subseteq ToSet(Lin),
         NEW d \in S, \A e \in S \ {d} : e \in Above(d)
  PROVE  First(S) = d
<1>1. First(S) \in S /\ First(S) \notin Above(d)
  BY FirstLeast
<1> QED
  BY <1>1

\* An interface sees interfaces only.
LEMMA InterfaceFacts ==
  ASSUME Inv, Deployed \in DOMAIN memo
  PROVE  \A c \in ToSet(Lin) : IsInterface(c) => \A d \in View(c) : IsInterface(d)
<1> DEFINE odd == { c \in ToSet(Lin) : IsInterface(c) /\ \E d \in View(c) : ~IsInterface(d) }
<1>1. ASSUME odd # {}  PROVE FALSE
  <2>1. PICK c \in odd : \A b \in Above(c) : b \notin odd
    BY <1>1, Topmost
  <2>2. PICK d \in View(c) : ~IsInterface(d)
    BY <2>1
  <2>3. /\ View(c) = {c} \cup Above(c) /\ ToSet(BasesOf(c)) \subseteq Above(c)
        /\ View(c) \subseteq ToSet(Lin)
        /\ Above(c) = UNION { View(b) : b \in ToSet(BasesOf(c)) }
    BY AboveFacts
  <2>4. PICK b \in ToSet(BasesOf(c)) : d \in View(b)
    BY <2>2, <2>3
  <2>5. b \in Classes /\ c \in Classes
    BY <2>3, <2>4, LinFacts
  <2>6. IsInterface(b)
    BY <2>4, <2>5, HierarchyFacts DEF Inv
  <2> QED
    BY <2>1, <2>2, <2>3, <2>4, <2>6
<1> QED
  BY <1>1

\* What a class gets from its bases.
Handed(c, f) == { f[b] : b \in ToSet(BasesOf(c)) } \ {NoBase}
Received(c) == Handed(c, Delivered)
Tops(c) == Maximal(Received(c))

\* The recursion of deliveredVia ends: it goes from the last class of the deployed
\* order to the first.
LEMMA DeliveredFixed ==
  ASSUME Inv, Deployed \in DOMAIN memo
  PROVE  \A c \in ToSet(Lin) : Delivered[c] = DeliveredOf(c, Received(c))
<1> DEFINE n == Len(Lin)
           rest(k) == { Lin[i] : i \in k..n }
           found(k) == \E f : f = [c \in rest(k) |-> DeliveredOf(c, Handed(c, f))]
           ks == { k \in 1..(n + 1) : found(k) }
<1>1. n \in Nat /\ DOMAIN Lin = 1..n
  BY IndexFacts
<1>2. found(n + 1)
  <2>1. (n + 1)..n = {}
    BY <1>1
  <2>2. rest(n + 1) = {}
    BY <2>1
  <2> DEFINE none == [c \in {} |-> c]
  <2>3. none = [c \in rest(n + 1) |-> DeliveredOf(c, none)]
    BY <2>2
  <2> QED
    BY <2>3
<1>3. ks \subseteq Nat /\ ks # {}
  <2>1. n + 1 \in 1..(n + 1)
    BY <1>1
  <2> HIDE DEF n, found
  <2>2. n + 1 \in ks
    BY <1>2, <2>1
  <2> QED
    BY <1>1, <2>2
<1>4. PICK k \in ks : \A j \in ks : k <= j
  BY <1>3, LeastNumber
<1>5. PICK f : f = [c \in rest(k) |-> DeliveredOf(c, Handed(c, f))]
  BY <1>4
<1>6. k = 1
  <2> SUFFICES ASSUME k # 1  PROVE FALSE
    OBVIOUS
  <2> DEFINE p == k - 1
             g == [c \in rest(p) |-> IF c = Lin[p] THEN DeliveredOf(c, Handed(c, f)) ELSE f[c]]
  <2>1. p \in 1..n /\ p \in 1..(n + 1) /\ ~(k <= p) /\ k = p + 1
    BY <1>1, <1>4
  <2>2. Lin[p] \in ToSet(Lin) /\ Index(Lin[p]) = p
    BY <2>1, IndexFacts
  <2>3. p..n = {p} \cup k..n
    BY <1>1, <2>1
  <2>4. rest(p) = {Lin[p]} \cup rest(k)
    BY <2>3
  <2>5. Lin[p] \notin rest(k)
    <3>1. \A i \in k..n : i \in 1..n /\ i # p
      BY <1>1, <2>1
    <3>2. \A i \in k..n : Lin[i] # Lin[p]
      BY <1>1, <2>1, <3>1, IndexFacts
    <3> QED
      BY <3>2
  <2>6. \A c \in rest(p) : c \in ToSet(Lin) /\ ToSet(BasesOf(c)) \subseteq rest(k)
    <3> TAKE c \in rest(p)
    <3>1. PICK i \in p..n : c = Lin[i]
      OBVIOUS
    <3>2. i \in 1..n /\ p <= i
      BY <1>1, <2>1, <3>1
    <3>3. c \in ToSet(Lin) /\ Index(c) = i
      BY <3>1, <3>2, IndexFacts
    <3>4. ASSUME NEW b \in ToSet(BasesOf(c))  PROVE b \in rest(k)
      <4>1. b \in Above(c) /\ b \in ToSet(Lin)
        BY <3>3, AboveFacts
      <4>2. Index(b) > i
        BY <3>3, <4>1, ViewInLin
      <4>3. Index(b) \in 1..n /\ Lin[Index(b)] = b
        BY <4>1, IndexFacts
      <4>4. Index(b) \in k..n
        BY <1>1, <2>1, <3>2, <4>2, <4>3
      <4> QED
        BY <4>3, <4>4
    <3> QED
      BY <3>3, <3>4
  <2> HIDE DEF rest, p
  <2>7. \A c \in rest(k) : g[c] = f[c]
    BY <2>4, <2>5
  <2>8. \A c \in rest(p) : DeliveredOf(c, Handed(c, g)) = DeliveredOf(c, Handed(c, f))
    <3> TAKE c \in rest(p)
    <3>1. \A b \in ToSet(BasesOf(c)) : g[b] = f[b]
      BY <2>6, <2>7
    <3> HIDE DEF g
    <3>2. Handed(c, g) = Handed(c, f)
      BY <3>1 DEF Handed
    <3> QED
      BY <3>2
  <2>9. \A c \in rest(p) : g[c] = DeliveredOf(c, Handed(c, f))
    BY <1>5, <2>4
  <2>10. g = [c \in rest(p) |-> g[c]]
    OBVIOUS
  <2> HIDE DEF g
  <2>11. [c \in rest(p) |-> g[c]] = [c \in rest(p) |-> DeliveredOf(c, Handed(c, g))]
    BY <2>8, <2>9
  <2>12. g = [c \in rest(p) |-> DeliveredOf(c, Handed(c, g))]
    BY <2>10, <2>11
  <2>13. p \in ks
    BY <2>1, <2>12 DEF rest
  <2> QED
    BY <1>4, <2>1, <2>13
<1>7. rest(1) = ToSet(Lin)
  BY <1>1 DEF ToSet
<1>8. f = [c \in ToSet(Lin) |-> DeliveredOf(c, Handed(c, f))]
  BY <1>5, <1>6, <1>7
<1>9. Delivered = [c \in ToSet(Lin) |-> DeliveredOf(c, Handed(c, Delivered))]
  BY <1>8 DEF Delivered, Handed
<1> QED
  BY <1>9 DEF Received

\* The cases of deliveredVia.
LEMMA DeliveredCases ==
  ASSUME Inv, Deployed \in DOMAIN memo, NEW c \in ToSet(Lin)
  PROVE  /\ (Defines(c) \/ Declares(c)) => Delivered[c] = c
         /\ ~Defines(c) /\ ~Declares(c) =>
              \/ Declares(Delivered[c]) /\ Delivered[c] \in ToSet(BasesOf(c))
              \/ Tops(c) = {} /\ Delivered[c] = NoBase
              \/ Tops(c) # {} /\ Cardinality(Tops(c)) = 1 /\ Delivered[c] \in Tops(c)
              \/ Tops(c) # {} /\ Cardinality(Tops(c)) # 1 /\ Delivered[c] = Ambiguous
         /\ ~Defines(c) /\ ~Declares(c) /\ (\A b \in ToSet(BasesOf(c)) : ~Declares(b)) =>
              \/ Tops(c) = {} /\ Delivered[c] = NoBase
              \/ Tops(c) # {} /\ Cardinality(Tops(c)) = 1 /\ Delivered[c] \in Tops(c)
              \/ Tops(c) # {} /\ Cardinality(Tops(c)) # 1 /\ Delivered[c] = Ambiguous
<1> DEFINE declaring == { i \in DOMAIN BasesOf(c) : Declares(BasesOf(c)[i]) }
           least == CHOOSE i \in declaring : \A j \in declaring : i <= j
<1>1. DeliveredOf(c, Received(c)) =
        IF Defines(c) \/ Declares(c) THEN c
        ELSE IF declaring # {} THEN BasesOf(c)[least]
        ELSE IF Tops(c) = {} THEN NoBase
        ELSE IF Cardinality(Tops(c)) = 1 THEN CHOOSE d \in Tops(c) : TRUE ELSE Ambiguous
  BY DEF DeliveredOf, Tops
<1>2. Delivered[c] = DeliveredOf(c, Received(c))
  BY DeliveredFixed
<1>3. declaring # {} => Declares(BasesOf(c)[least]) /\ BasesOf(c)[least] \in ToSet(BasesOf(c))
  <2> SUFFICES ASSUME declaring # {}  PROVE least \in declaring
    BY DEF ToSet
  <2>1. c \in Classes
    BY LinFacts
  <2>2. BasesOf(c) \in Seq(ToSet(BasesOf(c)))
    BY <2>1, HierarchyFacts DEF Inv
  <2>3. DOMAIN BasesOf(c) = 1..Len(BasesOf(c)) /\ Len(BasesOf(c)) \in Nat
    BY <2>2, LenProperties
  <2>4. declaring \subseteq Nat
    BY <2>3
  <2>5. \E i \in declaring : \A j \in declaring : i <= j
    BY <2>4, LeastNumber
  <2> QED
    BY <2>5
<1>4. declaring = {} <=> \A b \in ToSet(BasesOf(c)) : ~Declares(b)
  BY DEF ToSet
<1> HIDE DEF declaring, least
<1>5. Tops(c) # {} => (CHOOSE d \in Tops(c) : TRUE) \in Tops(c)
  OBVIOUS
<1> QED
  BY <1>1, <1>2, <1>3, <1>4, <1>5

\* What a class hands on it sees, or it is a marker.
LEMMA DeliveredFacts ==
  ASSUME Inv, Deployed \in DOMAIN memo
  PROVE  \A c \in ToSet(Lin) :
           \/ Delivered[c] \in {NoBase, Ambiguous}
           \/ Delivered[c] \in View(c) /\ (Defines(Delivered[c]) \/ Declares(Delivered[c]))
<1> DEFINE seen(c) == \/ Delivered[c] \in {NoBase, Ambiguous}
                      \/ Delivered[c] \in View(c) /\ (Defines(Delivered[c]) \/ Declares(Delivered[c]))
           odd == { c \in ToSet(Lin) : ~seen(c) }
<1>1. ASSUME odd # {}  PROVE FALSE
  <2>1. PICK c \in odd : \A b \in Above(c) : b \notin odd
    BY <1>1, Topmost
  <2>2. /\ View(c) = {c} \cup Above(c) /\ ToSet(BasesOf(c)) \subseteq Above(c)
        /\ View(c) \subseteq ToSet(Lin)
        /\ \A b \in Above(c) : View(b) \subseteq Above(c)
    BY AboveFacts
  <2>3. \A b \in ToSet(BasesOf(c)) : seen(b) /\ View(b) \subseteq View(c)
    BY <2>1, <2>2
  <2>4. \A d \in Tops(c) : d = Ambiguous \/ (d \in View(c) /\ (Defines(d) \/ Declares(d)))
    BY <2>3 DEF Tops, Maximal, Received, Handed
  <2>5. \A b \in ToSet(BasesOf(c)) : b \in View(c)
    BY <2>2
  <2>6. seen(c)
    BY <2>2, <2>4, <2>5, DeliveredCases
  <2> QED
    BY <2>1, <2>6
<1> QED
  BY <1>1

\* The version a class runs, and what must hold of it: it derives from all the
\* others the class sees, and a definition that is handed on is it.
Runs(c) == First(DefinersIn(c))
Settled(c) ==
  /\ \A e \in DefinersIn(c) \ {Runs(c)} : e \in Above(Runs(c))
  /\ Delivered[c] \in Definers => DefinersIn(c) # {} /\ Delivered[c] = Runs(c)

\* No base of a class but the only one with a definition hides it.
Shown(c) ==
  \A b, e \in ToSet(BasesOf(c)) :
    b # e /\ DefinersIn(b) # {} /\ DefinersIn(e) # {} => Delivered[b] \in Definers

LEMMA DefinersFacts ==
  ASSUME Inv, Deployed \in DOMAIN memo, NEW c \in ToSet(Lin)
  PROVE  /\ DefinersIn(c) \subseteq ToSet(Lin)
         /\ \A d \in DefinersIn(c) : Defines(d) /\ ~IsInterface(d) /\ d \in Definers /\ d \in View(c)
         /\ \A d \in View(c) : Defines(d) => d \in DefinersIn(c)
         /\ ~Defines(c) => DefinersIn(c) = UNION { DefinersIn(b) : b \in ToSet(BasesOf(c)) }
         /\ IsInterface(c) => DefinersIn(c) = {}
         /\ Delivered[c] \in Definers => Delivered[c] \in DefinersIn(c)
         /\ Runs(c) \in DefinersIn(c) <=> DefinersIn(c) # {}
<1>1. /\ View(c) = {c} \cup Above(c) /\ View(c) \subseteq ToSet(Lin)
      /\ Above(c) = UNION { View(b) : b \in ToSet(BasesOf(c)) }
  BY AboveFacts
<1>2. DefinersIn(c) \subseteq ToSet(Lin)
      /\ \A d \in DefinersIn(c) : Defines(d) /\ ~IsInterface(d) /\ d \in Definers /\ d \in View(c)
  BY DEF DefinersIn, Definers, Defines
<1>3. \A d \in View(c) : Defines(d) => d \in DefinersIn(c)
  BY <1>1 DEF DefinersIn, Definers
<1>4. ~Defines(c) => DefinersIn(c) = UNION { DefinersIn(b) : b \in ToSet(BasesOf(c)) }
  BY <1>1, <1>2 DEF DefinersIn
<1>5. IsInterface(c) => DefinersIn(c) = {}
  BY <1>2, InterfaceFacts
<1>6. ASSUME Delivered[c] \in Definers  PROVE Delivered[c] \in DefinersIn(c)
  <2>1. Delivered[c] \in Classes
    BY <1>6, LinFacts
  <2>2. Delivered[c] \notin {NoBase, Ambiguous}
    BY <2>1, HierarchyFacts DEF Inv
  <2> QED
    BY <1>6, <2>2, DeliveredFacts DEF DefinersIn
<1>7. Runs(c) \in DefinersIn(c) <=> DefinersIn(c) # {}
  BY <1>2, FirstLeast DEF Runs
<1> QED
  BY <1>2, <1>3, <1>4, <1>5, <1>6, <1>7

\* A definition that a class hands on without defining it comes from a base, and it
\* is the only one of those handed to it that none of the others overrides.
LEMMA HandsOnBase ==
  ASSUME Inv, Deployed \in DOMAIN memo, NEW c \in ToSet(Lin), ~Defines(c), Delivered[c] \in Definers
  PROVE  /\ Delivered[c] \in Received(c)
         /\ \A d \in Tops(c) : d = Delivered[c]
<1>1. Delivered[c] \in Classes /\ Defines(Delivered[c])
  BY LinFacts DEF Definers
<1>2. Delivered[c] \notin {NoBase, Ambiguous} /\ ~Declares(Delivered[c])
  BY <1>1, HierarchyFacts DEF Inv, Defines, Declares
<1>3. Cardinality(Tops(c)) = 1 /\ Delivered[c] \in Tops(c)
  <2>1. ~Declares(c)
    BY <1>1, <1>2, DeliveredCases
  <2> QED
    BY <1>2, <2>1, DeliveredCases
<1>4. IsFiniteSet(Tops(c))
  <2>1. ToSet(BasesOf(c)) \subseteq ToSet(Lin)
    BY AboveFacts
  <2>2. \A d \in Received(c) : d \in Classes \cup {Ambiguous}
    <3>1. \A b \in ToSet(BasesOf(c)) : Delivered[b] \in Classes \cup {NoBase, Ambiguous}
      <4> TAKE b \in ToSet(BasesOf(c))
      <4>1. b \in ToSet(Lin)
        BY <2>1
      <4>2. View(b) \subseteq Classes
        BY <4>1, AboveFacts, LinFacts
      <4> QED
        BY <4>1, <4>2, DeliveredFacts
    <3> QED
      BY <3>1 DEF Received, Handed
  <2>3. Tops(c) \subseteq Classes \cup {Ambiguous}
    BY <2>2 DEF Tops, Maximal
  <2>4. IsFiniteSet(Classes \cup {Ambiguous})
    BY HierarchyFacts, FS_AddElement DEF Inv
  <2> QED
    BY <2>3, <2>4, FS_Subset
<1>5. \E d : Tops(c) = {d}
  BY <1>3, <1>4, FS_Singleton
<1> QED
  BY <1>3, <1>5 DEF Tops, Maximal

\* What no base's definition overrides is live, and a body is whatever overrides it.
LEMMA StaysLive ==
  ASSUME Inv, Deployed \in DOMAIN memo, NEW c \in ToSet(Lin), NEW b \in ToSet(BasesOf(c)),
         Delivered[b] \in Definers,
         \/ Fn(Delivered[b]).body
         \/ \A e \in ToSet(BasesOf(c)) : Delivered[e] \in Definers => Delivered[b] \notin Above(Delivered[e])
  PROVE  Delivered[b] \in Live(c)
<1> DEFINE x == [base |-> b, def |-> Delivered[b]]
<1>1. Delivered[b] \in Classes /\ Defines(Delivered[b]) /\ ~IsInterface(Delivered[b])
  BY LinFacts DEF Definers, Defines
<1>2. x \in PerBase(c)
  BY <1>1, HierarchyFacts DEF Inv, PerBase
<1>3. ASSUME NEW y \in PerBase(c), Subsumed(x, y)  PROVE FALSE
  <2>1. PICK e \in ToSet(BasesOf(c)) : y = [base |-> e, def |-> Delivered[e]]
    BY DEF PerBase
  <2>2. y.def # NoBase
    BY DEF PerBase
  <2>3. /\ Delivered[e] # Ambiguous /\ Delivered[e] # NoBase
        /\ Delivered[b] \in Above(Delivered[e])
        /\ ~Fn(Delivered[b]).body
    BY <1>1, <1>3, <2>1, <2>2 DEF Subsumed, Bodyless
  <2>4. e \in ToSet(Lin)
    BY AboveFacts
  <2>5. Delivered[e] \in View(e) /\ (Defines(Delivered[e]) \/ Declares(Delivered[e]))
    BY <2>3, <2>4, DeliveredFacts
  <2>6. Delivered[e] \in ToSet(Lin)
    BY <2>4, <2>5, AboveFacts
  <2>7. ~IsInterface(Delivered[e])
    <3>1. Delivered[b] \in View(Delivered[e])
      BY <2>3 DEF View, Above
    <3> QED
      BY <1>1, <2>6, <3>1, InterfaceFacts
  <2>8. Delivered[e] \in Definers
    BY <2>5, <2>6, <2>7 DEF Definers, Declares
  <2> QED
    BY <2>3, <2>8
<1> HIDE DEF x
<1>4. x.def \in Live(c)
  BY <1>2, <1>3 DEF Live
<1> QED
  BY <1>4 DEF x

\* Where no override is due at most one definition is live.
LEMMA OneLive ==
  ASSUME Inv, Deployed \in DOMAIN memo, NEW c \in ToSet(Lin), ~MustOverride(c), ~Defines(c),
         ~IsInterface(c), ~validVar, NEW d \in Live(c), NEW e \in Live(c)
  PROVE  d = e
<1>1. Live(c) \subseteq Classes \cup {Ambiguous}
  <2>1. \A y \in PerBase(c) : y.def \in Classes \cup {Ambiguous}
    <3> TAKE y \in PerBase(c)
    <3>1. PICK b \in ToSet(BasesOf(c)) : y = [base |-> b, def |-> Delivered[b]] /\ y.def # NoBase
      BY DEF PerBase
    <3>2. b \in ToSet(Lin)
      BY AboveFacts
    <3>3. View(b) \subseteq Classes
      BY <3>2, AboveFacts, LinFacts
    <3> QED
      BY <3>1, <3>2, <3>3, DeliveredFacts
  <2> QED
    BY <2>1 DEF Live
<1>2. IsFiniteSet(Live(c))
  <2>1. IsFiniteSet(Classes \cup {Ambiguous})
    BY HierarchyFacts, FS_AddElement DEF Inv
  <2> QED
    BY <1>1, <2>1, FS_Subset
<1>3. ~(Cardinality(Live(c)) >= 2)
  BY DEF MustOverride
<1>4. Cardinality(Live(c)) \in Nat /\ Cardinality(Live(c)) # 0
  BY <1>2, FS_CardinalityType, FS_EmptySet
<1>5. Cardinality(Live(c)) = 1
  BY <1>3, <1>4
<1>6. PICK l : Live(c) = {l}
  BY <1>2, <1>5, FS_Singleton
<1> QED
  BY <1>6

\* The step of the argument: where the bases of a class are settled and none of them
\* hides a definition, the class is settled, and it keeps the bodies its bases run.
LEMMA SettledStep ==
  ASSUME Inv, Deployed \in DOMAIN memo, ~validVar, NEW c \in ToSet(Lin), ~MustOverride(c), ~Defines(c) => Shown(c),
         \A b \in Above(c) : Settled(b)
  PROVE  /\ Settled(c)
         /\ ~Defines(c) => \A b \in ToSet(BasesOf(c)) :
              DefinersIn(b) # {} /\ Fn(Runs(b)).body => Runs(c) = Runs(b)
<1> DEFINE bs == ToSet(BasesOf(c))
           heads == { b \in bs : DefinersIn(b) # {} }
           S == { Delivered[b] : b \in heads }
<1>1. /\ View(c) = {c} \cup Above(c) /\ c \notin Above(c) /\ View(c) \subseteq ToSet(Lin)
      /\ bs \subseteq Above(c)
      /\ \A b \in Above(c) : View(b) \subseteq Above(c)
  BY AboveFacts
<1>2. \A b \in bs : b \in ToSet(Lin) /\ Settled(b)
  BY <1>1
<1>3. CASE Defines(c)
  <2>1. c \in DefinersIn(c) /\ DefinersIn(c) \subseteq {c} \cup Above(c) /\ DefinersIn(c) \subseteq ToSet(Lin)
    BY <1>1, <1>3, DefinersFacts
  <2>2. \A e \in DefinersIn(c) \ {c} : e \in Above(c)
    BY <2>1
  <2>3. Runs(c) = c
    BY <2>1, <2>2, DerivesFirst DEF Runs
  <2>4. Delivered[c] = c
    BY <1>3, DeliveredCases
  <2> QED
    BY <1>3, <2>1, <2>2, <2>3, <2>4 DEF Settled
<1>4. CASE ~Defines(c) /\ heads = {}
  <2>1. DefinersIn(c) = {}
    BY <1>4, DefinersFacts
  <2>2. Delivered[c] \notin Definers
    BY <2>1, DefinersFacts
  <2> QED
    BY <1>4, <2>1, <2>2 DEF Settled
<1>5. CASE ~Defines(c) /\ \E b \in heads : heads = {b}
  <2>1. PICK b \in heads : heads = {b}
    BY <1>5
  <2>2. DefinersIn(c) = DefinersIn(b) /\ DefinersIn(b) # {}
    <3>1. DefinersIn(c) = UNION { DefinersIn(e) : e \in bs }
      BY <1>5, DefinersFacts
    <3>2. \A e \in bs : e = b \/ DefinersIn(e) = {}
      BY <2>1
    <3> QED
      BY <2>1, <3>1, <3>2
  <2>3. Runs(c) = Runs(b)
    BY <2>2 DEF Runs
  <2>4. Settled(b)
    BY <1>2
  <2>5. ASSUME Delivered[c] \in Definers  PROVE Delivered[c] = Runs(c)
    <3>1. PICK e \in bs : Delivered[c] = Delivered[e]
      BY <1>5, <2>5, HandsOnBase DEF Received, Handed
    <3>2. e \in ToSet(Lin) /\ Settled(e)
      BY <1>2
    <3>3. DefinersIn(e) # {} /\ Delivered[e] = Runs(e)
      BY <2>5, <3>1, <3>2 DEF Settled
    <3>4. e = b
      BY <2>1, <3>3
    <3> QED
      BY <2>3, <3>1, <3>3, <3>4
  <2>6. Settled(c)
    BY <2>2, <2>3, <2>4, <2>5 DEF Settled
  <2>7. \A e \in bs : DefinersIn(e) # {} => e = b
    BY <2>1
  <2> QED
    BY <2>3, <2>6, <2>7
<1>6. CASE ~Defines(c) /\ \E b, e \in heads : b # e
  <2>1. ~IsInterface(c) /\ DefinersIn(c) = UNION { DefinersIn(b) : b \in bs } /\ DefinersIn(c) \subseteq ToSet(Lin)
    BY <1>6, DefinersFacts
  <2>2. \A b \in heads : Delivered[b] \in Definers /\ Delivered[b] = Runs(b)
    <3> TAKE b \in heads
    <3>1. PICK e \in heads : e # b
      BY <1>6
    <3>2. Delivered[b] \in Definers
      BY <1>6, <3>1 DEF Shown
    <3> QED
      BY <1>2, <3>2 DEF Settled
  <2>3. S # {} /\ S \subseteq Definers /\ S \subseteq ToSet(Lin)
    BY <1>6, <2>2 DEF Definers
  <2>4. PICK m \in S : m = First(S) /\ \A e \in S : m \notin Above(e)
    <3> HIDE DEF S
    <3> QED
      BY <2>3, FirstLeast
  <2>5. PICK top \in heads : m = Delivered[top]
    OBVIOUS
  <2>6. \A e \in bs : Delivered[e] \in Definers => Delivered[e] \in S
    <3> TAKE e \in bs
    <3>1. Delivered[e] \in Definers => DefinersIn(e) # {}
      BY <1>2 DEF Settled
    <3> QED
      BY <3>1
  <2>7. m \in Live(c)
    BY <2>2, <2>4, <2>5, <2>6, StaysLive
  <2>8. \A d \in Live(c) : d = m
    BY <1>6, <2>1, <2>7, OneLive
  <2>9. \A e \in S : e = m \/ e \in Above(m)
    <3> DEFINE odd == { e \in S : e # m /\ e \notin Above(m) }
    <3> SUFFICES ASSUME odd # {}  PROVE FALSE
      OBVIOUS
    <3>1. odd \subseteq ToSet(Lin)
      BY <2>3
    <3>2. PICK d \in odd : \A e \in odd : d \notin Above(e)
      <4> HIDE DEF odd
      <4> QED
        BY <3>1, FirstLeast
    <3>3. PICK b \in heads : d = Delivered[b]
      OBVIOUS
    <3>4. ASSUME NEW e \in S, d \in Above(e)  PROVE FALSE
      <4>1. CASE e = m
        BY <3>2, <3>4, <4>1
      <4>2. CASE e \in Above(m)
        <5>1. View(e) \subseteq Above(m)
          BY <2>3, <4>2, AboveFacts
        <5> QED
          BY <3>2, <3>4, <5>1 DEF View, Above
      <4> QED
        BY <3>2, <3>4, <4>1, <4>2
    <3>5. d \in Live(c)
      BY <2>2, <2>6, <3>3, <3>4, StaysLive
    <3> QED
      BY <2>8, <3>2, <3>5
  <2>10. m \in DefinersIn(c)
    BY <2>1, <2>2, <2>5, <1>2, DefinersFacts
  <2>11. \A e \in DefinersIn(c) \ {m} : e \in Above(m)
    <3> TAKE e \in DefinersIn(c) \ {m}
    <3>1. PICK b \in bs : e \in DefinersIn(b)
      BY <2>1
    <3>2. b \in heads /\ Delivered[b] = Runs(b) /\ Delivered[b] \in S
      BY <2>2, <3>1
    <3>3. e = Delivered[b] \/ e \in Above(Delivered[b])
      BY <1>2, <3>1, <3>2 DEF Settled
    <3>4. Delivered[b] = m \/ Delivered[b] \in Above(m)
      BY <2>9, <3>2
    <3>5. \A x \in Above(m) : View(x) \subseteq Above(m)
      BY <2>3, AboveFacts
    <3>6. CASE Delivered[b] = m
      BY <3>3, <3>6
    <3>7. CASE Delivered[b] \in Above(m)
      <4>1. View(Delivered[b]) \subseteq Above(m)
        BY <3>5, <3>7
      <4> QED
        BY <3>3, <3>7, <4>1 DEF View, Above
    <3> QED
      BY <3>4, <3>6, <3>7
  <2>12. Runs(c) = m
    BY <2>1, <2>10, <2>11, DerivesFirst DEF Runs
  <2>13. Delivered[c] \in Definers => Delivered[c] = m
    <3> SUFFICES ASSUME Delivered[c] \in Definers  PROVE Delivered[c] = m
      OBVIOUS
    <3>1. \A d \in Tops(c) : d = Delivered[c]
      BY <1>6, HandsOnBase
    <3>2. m \in Received(c)
      <4>1. m \in Classes
        BY <2>3, LinFacts
      <4> QED
        BY <2>5, <4>1, HierarchyFacts DEF Inv, Received, Handed
    <3>3. ASSUME NEW e \in Received(c) \ {Ambiguous}, m \in Above(e)  PROVE FALSE
      <4>1. PICK b \in bs : e = Delivered[b] /\ e # NoBase
        BY DEF Received, Handed
      <4>2. e \in View(b) /\ (Defines(e) \/ Declares(e)) /\ b \in ToSet(Lin)
        BY <1>2, <4>1, DeliveredFacts
      <4>3. e \in ToSet(Lin)
        BY <4>2, AboveFacts
      <4>4. ~IsInterface(e)
        <5>1. ~IsInterface(m)
          BY <2>10, DefinersFacts
        <5>2. m \in View(e)
          BY <3>3 DEF View, Above
        <5> QED
          BY <4>3, <5>1, <5>2, InterfaceFacts
      <4>5. e \in Definers
        BY <4>2, <4>3, <4>4 DEF Definers, Declares
      <4> QED
        BY <2>4, <2>6, <3>3, <4>1, <4>5
    <3>4. m \in Tops(c)
      BY <3>2, <3>3 DEF Tops, Maximal
    <3> QED
      BY <3>1, <3>4
  <2>14. Settled(c)
    BY <2>10, <2>11, <2>12, <2>13 DEF Settled
  <2>15. ASSUME NEW b \in bs, DefinersIn(b) # {}, Fn(Runs(b)).body  PROVE Runs(c) = Runs(b)
    <3>1. Delivered[b] \in Definers /\ Delivered[b] = Runs(b)
      BY <2>2, <2>15
    <3>2. Runs(b) \in Live(c)
      BY <2>15, <3>1, StaysLive
    <3> QED
      BY <2>8, <2>12, <3>2
  <2> QED
    BY <2>14, <2>15
<1> QED
  BY <1>3, <1>4, <1>5, <1>6

\* All classes are settled, those that define the function last in the order first.
LEMMA AllSettled ==
  ASSUME Inv, Deployed \in DOMAIN memo, ~validVar,
         \A c \in ToSet(Lin) : ~MustOverride(c), \A c \in ToSet(Lin) : ~Defines(c) => Shown(c)
  PROVE  \A c \in ToSet(Lin) : Settled(c)
<1> DEFINE odd == { c \in ToSet(Lin) : ~Settled(c) }
<1>1. ASSUME odd # {}  PROVE FALSE
  <2>1. PICK c \in odd : \A b \in Above(c) : b \notin odd
    BY <1>1, Topmost
  <2>2. \A b \in Above(c) : Settled(b)
    <3>1. Above(c) \subseteq ToSet(Lin)
      BY AboveFacts
    <3> QED
      BY <2>1, <3>1
  <2> QED
    BY <2>1, <2>2, SettledStep
<1> QED
  BY <1>1

\* Two classes that extend one another are one.
LEMMA AboveOneWay ==
  ASSUME Inv, Deployed \in DOMAIN memo, NEW c \in ToSet(Lin), NEW b \in Above(c)
  PROVE  c \notin Above(b)
<1>1. View(b) \subseteq Above(c) /\ c \notin Above(c)
  BY AboveFacts
<1> QED
  BY <1>1 DEF View, Above

\* Only an interface can stand in a definition's way.
LEMMA NothingToHide ==
  ASSUME Inv, Deployed \in DOMAIN memo, ~validVar,
         \A c \in ToSet(Lin) : ~MustOverride(c), \A i \in ToSet(Lin) : ~Declares(i)
  PROVE  NothingHidden
<1> DEFINE plain(c) == /\ Settled(c)
                       /\ DefinersIn(c) = {} => Delivered[c] = NoBase
                       /\ DefinersIn(c) # {} => Delivered[c] \in Definers
           odd == { c \in ToSet(Lin) : ~plain(c) }
<1>1. ASSUME odd # {}  PROVE FALSE
  <2>1. PICK c \in odd : \A b \in Above(c) : b \notin odd
    <3> HIDE DEF odd
    <3>1. odd \subseteq ToSet(Lin)
      BY DEF odd
    <3> QED
      BY <1>1, <3>1, Topmost
  <2> DEFINE bs == ToSet(BasesOf(c))
             m == Runs(c)
  <2>2. Above(c) \subseteq ToSet(Lin) /\ bs \subseteq Above(c)
    BY AboveFacts
  <2>3. \A b \in Above(c) : plain(b)
    BY <2>1, <2>2
  <2>4. Settled(c)
    <3>1. Shown(c)
      BY <2>2, <2>3 DEF Shown
    <3> QED
      BY <2>1, <2>3, <3>1, SettledStep
  <2>5. CASE Defines(c)
    <3>1. Delivered[c] = c /\ c \in Definers
      BY <2>1, <2>5, DeliveredCases DEF Definers
    <3> QED
      BY <2>1, <2>4, <3>1 DEF Settled
  <2>6. ASSUME ~Defines(c)
        PROVE  /\ DefinersIn(c) = UNION { DefinersIn(b) : b \in bs }
               /\ Tops(c) = {} => Delivered[c] = NoBase
               /\ Tops(c) # {} /\ Cardinality(Tops(c)) = 1 => Delivered[c] \in Tops(c)
    <3>1. ~Declares(c) /\ \A b \in bs : ~Declares(b)
      BY <2>1, <2>2
    <3>2. \/ Tops(c) = {} /\ Delivered[c] = NoBase
          \/ Tops(c) # {} /\ Cardinality(Tops(c)) = 1 /\ Delivered[c] \in Tops(c)
          \/ Tops(c) # {} /\ Cardinality(Tops(c)) # 1 /\ Delivered[c] = Ambiguous
      BY <2>6, <3>1, DeliveredCases
    <3> QED
      BY <2>6, <3>2, DefinersFacts
  <2>7. CASE ~Defines(c) /\ DefinersIn(c) = {}
    <3>1. \A b \in bs : Delivered[b] = NoBase
      BY <2>2, <2>3, <2>6, <2>7
    <3>2. Tops(c) = {}
      BY <3>1 DEF Tops, Maximal, Received, Handed
    <3> QED
      BY <2>1, <2>4, <2>6, <2>7, <3>2
  <2>8. CASE ~Defines(c) /\ DefinersIn(c) # {}
    <3>1. m \in DefinersIn(c) /\ m \in ToSet(Lin) /\ m \in Definers /\ m \notin Above(m)
      <4>1. m \in DefinersIn(c) /\ DefinersIn(c) \subseteq ToSet(Lin) /\ m \in Definers
        BY <2>8, DefinersFacts
      <4> QED
        BY <4>1, AboveFacts
    <3>2. PICK b \in bs : m \in DefinersIn(b)
      BY <2>6, <2>8, <3>1
    <3>3. \A e \in bs : DefinersIn(e) # {} => Delivered[e] = Runs(e) /\ Delivered[e] \in DefinersIn(c)
      <4> TAKE e \in bs
      <4>1. e \in ToSet(Lin) /\ plain(e)
        BY <2>2, <2>3
      <4>2. DefinersIn(e) # {} => Runs(e) \in DefinersIn(e)
        BY <4>1, DefinersFacts
      <4> QED
        BY <2>6, <2>8, <4>1, <4>2 DEF Settled
    <3>4. Delivered[b] = m
      <4> SUFFICES ASSUME Delivered[b] # m  PROVE FALSE
        OBVIOUS
      <4>1. Runs(b) # m /\ Runs(b) \in DefinersIn(c)
        BY <3>2, <3>3
      <4>2. Runs(b) \in Above(m)
        BY <2>4, <4>1 DEF Settled
      <4>3. m \in Above(Runs(b))
        BY <2>2, <2>3, <3>2, <4>1 DEF Settled
      <4> QED
        BY <3>1, <4>2, <4>3, AboveOneWay
    <3>5. m \in Classes /\ m # NoBase /\ m # Ambiguous
      <4>1. m \in Classes
        BY <3>1, LinFacts
      <4> QED
        BY <4>1, HierarchyFacts DEF Inv
    <3>6. \A d \in Received(c) : d \in DefinersIn(c) /\ (d = m \/ d \in Above(m))
      <4> TAKE d \in Received(c)
      <4>1. PICK e \in bs : d = Delivered[e] /\ d # NoBase
        BY DEF Received, Handed
      <4>2. d \in DefinersIn(c)
        BY <2>2, <2>3, <3>3, <4>1
      <4> QED
        BY <2>4, <4>2 DEF Settled
    <3>7. m \in Tops(c)
      <4>1. m \in Received(c)
        BY <3>2, <3>4, <3>5 DEF Received, Handed
      <4>2. \A d \in Received(c) : m \notin Above(d)
        BY <3>1, <3>6, AboveOneWay
      <4> QED
        BY <4>1, <4>2 DEF Tops, Maximal
    <3>8. \A d \in Tops(c) : d = m
      <4> TAKE d \in Tops(c)
      <4>1. d \in Received(c) /\ (d = Ambiguous \/ d \notin Above(m))
        BY <3>5, <3>7 DEF Tops, Maximal
      <4>2. d # Ambiguous
        <5>1. d \in Classes
          BY <3>6, <4>1, DefinersFacts, LinFacts
        <5> QED
          BY <5>1, HierarchyFacts DEF Inv
      <4> QED
        BY <3>6, <4>1, <4>2
    <3>9. Tops(c) = {m}
      BY <3>7, <3>8
    <3>10. Cardinality(Tops(c)) = 1
      BY <3>9, FS_Singleton
    <3>11. Delivered[c] = m
      BY <2>6, <2>8, <3>7, <3>8, <3>10
    <3> QED
      BY <2>1, <2>4, <2>8, <3>1, <3>11
  <2> QED
    BY <2>5, <2>7, <2>8
<1>2. \A c \in ToSet(Lin) : plain(c)
  BY <1>1
<1>3. \A c \in ToSet(Lin) : ToSet(BasesOf(c)) \subseteq ToSet(Lin)
  BY AboveFacts
<1> QED
  BY <1>2, <1>3 DEF NothingHidden

\* `super` in a body leads to the next body in the deployed order.
Bodies == { v \in Definers : Fn(v).body }
After(u) == { v \in Bodies : Index(v) > Index(u) }

LEMMA SuperNext ==
  ASSUME Inv, Deployed \in DOMAIN memo, ~validVar, Definers # {}, Fn(First(Definers)).body,
         \A v \in Definers : ~Fn(v).external, NEW u \in Definers
  PROVE  SuperTarget(u) = IF After(u) = {} \/ (Cardinality(Definers) = 1 /\ First(After(u)) \notin Above(u))
                          THEN NoBase ELSE First(After(u))
<1>1. { v \in { v \in Definers : v = First(Definers) \/ Fn(v).body } : Index(v) > Index(u) } = After(u)
  BY DEF After, Bodies
<1>2. After(u) # {} => Fn(First(After(u))).body /\ ~Fn(First(After(u))).external
  <2> SUFFICES ASSUME After(u) # {}  PROVE First(After(u)) \in After(u)
    BY DEF After, Bodies
  <2>1. After(u) \subseteq ToSet(Lin)
    BY DEF After, Bodies, Definers
  <2> QED
    BY <2>1, FirstLeast
<1> QED
  BY <1>1, <1>2 DEF SuperTarget

LEMMA SuperChain ==
  ASSUME Inv, Deployed \in DOMAIN memo, ~validVar, Definers # {}, Fn(First(Definers)).body,
         \A v \in Definers : ~Fn(v).external
  PROVE  /\ \A v \in Bodies \ {First(Definers)} : \E u \in Bodies : SuperTarget(u) = v
         /\ \A u, v \in Bodies : u # v /\ SuperTarget(u) = SuperTarget(v) => SuperTarget(u) = NoBase
<1>1. Bodies \subseteq Definers /\ Definers \subseteq ToSet(Lin)
  BY DEF Bodies, Definers
<1>2. \A v \in Definers : Index(v) \in Nat /\ Lin[Index(v)] = v
  BY <1>1, IndexFacts
<1>3. PICK entry \in Definers : entry = First(Definers) /\ \A e \in Definers : Index(entry) <= Index(e)
  BY <1>1, FirstLeast
<1>4. entry \in Bodies
  BY <1>3 DEF Bodies
<1>5. \A u \in Bodies : After(u) # {} =>
        First(After(u)) \in After(u) /\ \A e \in After(u) : Index(First(After(u))) <= Index(e)
  <2> TAKE u \in Bodies
  <2>1. After(u) \subseteq ToSet(Lin)
    BY <1>1 DEF After
  <2> QED
    BY <2>1, FirstLeast
<1>6. ASSUME NEW v \in Bodies \ {entry}  PROVE \E u \in Bodies : SuperTarget(u) = v
  <2> DEFINE before == { u \in Bodies : Index(u) < Index(v) }
  <2>1. entry \in before
    <3>1. Index(entry) # Index(v)
      BY <1>1, <1>2, <1>4
    <3>2. Index(entry) <= Index(v) /\ Index(entry) \in Nat /\ Index(v) \in Nat
      BY <1>1, <1>2, <1>3
    <3> QED
      BY <1>4, <3>1, <3>2
  <2>2. PICK u \in before : \A e \in before : Index(e) <= Index(u)
    <3>1. before \subseteq ToSet(Lin) /\ before # {}
      BY <1>1, <2>1
    <3> HIDE DEF before
    <3> QED
      BY <3>1, LastFacts
  <2>3. v \in After(u)
    BY <2>2 DEF After
  <2>4. PICK t \in After(u) : t = First(After(u)) /\ Index(t) <= Index(v)
    BY <1>5, <2>2, <2>3
  <2>5. t \in Bodies /\ Index(t) > Index(u)
    BY <2>4 DEF After
  <2>6. ~(Index(t) < Index(v))
    <3>1. Index(t) < Index(v) => Index(t) <= Index(u)
      BY <2>2, <2>5
    <3>2. Index(t) \in Nat /\ Index(u) \in Nat
      BY <1>1, <1>2, <2>2, <2>5
    <3> QED
      BY <2>5, <3>1, <3>2
  <2>7. Index(t) = Index(v)
    <3>1. Index(t) \in Nat /\ Index(v) \in Nat
      BY <1>1, <1>2, <2>5
    <3> QED
      BY <2>4, <2>6, <3>1
  <2>8. t = v
    BY <1>1, <1>2, <2>5, <2>7
  <2>9. Cardinality(Definers) # 1
    <3> SUFFICES ASSUME Cardinality(Definers) = 1  PROVE FALSE
      OBVIOUS
    <3>1. IsFiniteSet(Definers)
      BY LinFacts, HierarchyFacts, FS_Subset DEF Inv
    <3>2. PICK d : Definers = {d}
      BY <3>1, FS_Singleton
    <3> QED
      BY <1>1, <3>2
  <2>10. SuperTarget(u) = v
    <3>1. u \in Definers
      BY <1>1, <2>2
    <3> QED
      BY <2>3, <2>4, <2>8, <2>9, <3>1, SuperNext
  <2> QED
    BY <2>2, <2>10
<1>7. ASSUME NEW u \in Bodies, NEW v \in Bodies, SuperTarget(u) = SuperTarget(v), SuperTarget(u) # NoBase
      PROVE  ~(Index(u) < Index(v))
  <2>1. After(u) # {} /\ After(v) # {} /\ SuperTarget(u) = First(After(u)) /\ SuperTarget(v) = First(After(v))
    BY <1>1, <1>7, SuperNext
  <2>2. PICK t \in After(v) : t = First(After(u)) /\ \A e \in After(u) : Index(t) <= Index(e)
    BY <1>5, <1>7, <2>1
  <2>3. t \in Bodies /\ Index(t) > Index(v)
    BY <2>2 DEF After
  <2>4. Index(u) < Index(v) => Index(t) <= Index(v)
    BY <2>2 DEF After
  <2>5. Index(t) \in Nat /\ Index(v) \in Nat
    BY <1>1, <1>2, <2>3
  <2> QED
    BY <2>3, <2>4, <2>5
<1>8. \A u, v \in Bodies : u # v /\ SuperTarget(u) = SuperTarget(v) => SuperTarget(u) = NoBase
  <2> TAKE u, v \in Bodies
  <2>1. Index(u) \in Nat /\ Index(v) \in Nat /\ (Index(u) = Index(v) => u = v)
    BY <1>1, <1>2
  <2> QED
    BY <1>7, <2>1
<1> QED
  BY <1>3, <1>6, <1>8

\* The rule that a class must override what it inherits twice (checkOverrideDiamond):
\* in an accepted hierarchy without an overriding variable each class sees one version
\* that derives from all the others and runs the bodies its bases run, provided no
\* base hides a definition behind an interface; and `super` visits every body once.
THEOREM SpecOneVersionDominates == Spec => []OneVersionDominates
<1>1. Init => JudgeInv
  BY DEF Init, JudgeInv
<1>2. Inv /\ JudgeInv /\ [Next]_vars => JudgeInv'
  BY JudgeInvKept
<1>3. Inv /\ JudgeInv => OneVersionDominates
  <2> SUFFICES ASSUME Inv, JudgeInv, Accepted, hierarchy.var = NoFn
               PROVE  (NothingHidden => Dominance /\ BodiesKept) /\ SuperVisitsAll
    BY DEF OneVersionDominates
  <2>1. Deployed \in DOMAIN memo
    BY DEF Inv, StackInv, Accepted, Done
  <2>2. VersionsAccepted /\ InterfacesAccepted
    BY DEF JudgeInv, Accepted, Done
  <2>3. ~validVar
    BY DEF JudgeInv, HasVar
  <2>4. \A c : DefinitionsIn(c) = DefinersIn(c)
    BY <2>3 DEF DefinitionsIn
  <2>5. CASE Definers = {}
    <3>1. \A c : DefinersIn(c) = {}
      BY <2>5 DEF DefinersIn
    <3> QED
      BY <2>4, <2>5, <3>1 DEF Dominance, BodiesKept, SuperVisitsAll
  <2>6. CASE Definers # {}
    <3>1. \A c \in ToSet(Lin) : ~MustOverride(c)
      BY <2>2, <2>6 DEF VersionsAccepted
    <3>2. NothingHidden => \A c \in ToSet(Lin) : (~Defines(c) => Shown(c)) /\ Settled(c)
      <4> SUFFICES ASSUME NothingHidden
                   PROVE  \A c \in ToSet(Lin) : (~Defines(c) => Shown(c)) /\ Settled(c)
        OBVIOUS
      <4>1. \A c \in ToSet(Lin) : ~Defines(c) => Shown(c)
        BY DEF NothingHidden, Shown
      <4> QED
        BY <2>1, <2>3, <3>1, <4>1, AllSettled
    <3>3. NothingHidden => Dominance
      <4> SUFFICES ASSUME NothingHidden, NEW c \in ToSet(Lin), DefinersIn(c) # {}
                   PROVE  \E d \in DefinersIn(c) : \A e \in DefinersIn(c) \ {d} : e \in Above(d)
        BY <2>4 DEF Dominance
      <4>1. Runs(c) \in DefinersIn(c)
        BY <2>1, DefinersFacts
      <4> QED
        BY <3>2, <4>1 DEF Settled
    <3>4. NothingHidden => BodiesKept
      <4> SUFFICES ASSUME NothingHidden, NEW c \in ToSet(Lin), ~Defines(c), NEW b \in ToSet(BasesOf(c)),
                          DefinersIn(b) # {}, Fn(Runs(b)).body
                   PROVE  Runs(c) = Runs(b)
        BY DEF BodiesKept, Runs
      <4>1. \A e \in Above(c) : Settled(e)
        <5>1. Above(c) \subseteq ToSet(Lin)
          BY <2>1, AboveFacts
        <5> QED
          BY <3>2, <5>1
      <4> QED
        BY <2>1, <2>3, <3>1, <3>2, <4>1, SettledStep
    <3>5. SuperVisitsAll
      <4> SUFFICES ASSUME Concrete(Deployed), ~Fn(Entry).external
                   PROVE  /\ \A v \in Bodies \ {Entry} : \E u \in Bodies : SuperTarget(u) = v
                          /\ \A u, v \in Bodies : u # v /\ SuperTarget(u) = SuperTarget(v) => SuperTarget(u) = NoBase
        BY DEF SuperVisitsAll, Bodies
      <4>1. /\ Entry = First(Definers) /\ Entry \in Definers
            /\ Deployed \in ToSet(Lin) /\ View(Deployed) = ToSet(Lin) /\ DefinersIn(Deployed) = Definers
        <5>1. Definers \subseteq ToSet(Lin) /\ View(Deployed) = ToSet(Lin)
          BY DEF Definers, View, Lin
        <5>2. DefinersIn(Deployed) = Definers
          BY <5>1 DEF DefinersIn
        <5>3. Deployed \in ToSet(Lin)
          <6>1. Lin \in Seq(Classes) /\ Lin # <<>> /\ Head(Lin) = Deployed
            BY <2>1, LinFacts DEF Inv, MemoInv, LinearizationSound, Lin
          <6>2. Len(Lin) \in Nat \ {0} /\ DOMAIN Lin = 1..Len(Lin) /\ Lin[1] = Deployed
            BY <6>1, LenProperties, EmptySeq
          <6> QED
            BY <6>2 DEF ToSet
        <5> QED
          BY <2>1, <2>3, <2>6, <5>1, <5>2, <5>3, FirstFacts DEF Entry
      <4>2. \A i \in ToSet(Lin) : ~Declares(i)
        BY <2>1, <2>2, <2>3, <2>6, <4>1, EntryAgrees
      <4>3. NothingHidden
        BY <2>1, <2>3, <3>1, <4>2, NothingToHide
      <4>4. Settled(Deployed)
        BY <3>2, <4>1, <4>3
      <4>5. \A v \in Definers \ {Entry} : v \in Above(Entry)
        BY <4>1, <4>4 DEF Settled, Runs
      <4>6. \A v \in Definers : ~Fn(v).external
        <5> TAKE v \in Definers
        <5>1. CASE v = Entry
          BY <5>1
        <5>2. CASE v # Entry
          <6>1. PICK entry \in Definers : entry = Entry
            BY <4>1
          <6>2. Fn(v).external = Fn(entry).external
            BY <2>1, <2>2, <4>5, <5>2, <6>1, VersionsAgree
          <6> QED
            BY <6>1, <6>2
        <5> QED
          BY <5>1, <5>2
      <4>7. Fn(First(Definers)).body
        <5>1. ~VarWithin(Deployed)
          BY <2>3 DEF VarWithin
        <5>2. PICK d \in View(Deployed) : Defines(d)
          BY <2>6, <4>1 DEF Definers
        <5>3. Fn(First(DefinersIn(Deployed))).body
          BY <2>1, <2>2, <2>3, <4>1, <5>1, <5>2, HasBody
        <5> QED
          BY <4>1, <5>3
      <4> QED
        BY <2>1, <2>3, <2>6, <4>1, <4>6, <4>7, SuperChain
    <3> QED
      BY <3>3, <3>4, <3>5
  <2> QED
    BY <2>5, <2>6
<1> QED
  BY <1>1, <1>2, <1>3, SpecInv, PTL DEF Spec


=============================================================================
