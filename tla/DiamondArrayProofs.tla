--------------------------- MODULE DiamondArrayProofs ---------------------------
(***************************************************************************)
(* Proofs about DiamondArray, for every set of selectors and addresses and *)
(* every depth of nested calls.                                            *)
(***************************************************************************)
EXTENDS DiamondArray, SequenceTheorems, TLAPS

USE DEF Facet

(* Every facet with a selector has code. *)
ServersHaveCode(d) == \A f \in Address : d.sels[f] # <<>> => f \in HasCode

(* What one image of the storage satisfies. *)
Good(d, pending) ==
  /\ d \in Storage
  /\ Indexed(d)
  /\ FacetsIndexed(d, pending)
  /\ Clean(d)
  /\ ServersHaveCode(d)

--------------------------------------------------------------------------------
(* The storage helpers. *)

\* Pop drops the last element of a sequence and keeps the others.
LEMMA PopFacts ==
  ASSUME NEW T, NEW seq \in Seq(T), seq # <<>>
  PROVE  /\ Pop(seq) \in Seq(T)
         /\ Len(seq) \in Nat \ {0}
         /\ Len(Pop(seq)) = Len(seq) - 1
         /\ \A i \in 1..(Len(seq) - 1) : Pop(seq)[i] = seq[i]
<1>1. Len(seq) \in Nat \ {0}
  BY EmptySeq
<1> DEFINE n == Len(seq) - 1
<1>2. n \in Int /\ \A i \in 1..n : seq[i] \in T
  BY <1>1, ElementOfSeq
<1> HIDE DEF n
<1>3. /\ SubSeq(seq, 1, n) \in Seq(T)
      /\ Len(SubSeq(seq, 1, n)) = IF 1 <= n THEN n - 1 + 1 ELSE 0
      /\ \A i \in 1..(n - 1 + 1) : SubSeq(seq, 1, n)[i] = seq[1 + i - 1]
  BY <1>2, SubSeqProperties
<1> DEFINE popped == SubSeq(seq, 1, n)
<1>4. Pop(seq) = popped
  BY DEF Pop, n
<1> HIDE DEF popped
<1>5. Len(popped) = n /\ \A i \in 1..n : popped[i] = seq[i]
  <2>1. n \in Nat
    BY <1>1 DEF n
  <2> QED
    BY <2>1, <1>3 DEF popped
<1> QED
  BY <1>1, <1>3, <1>4, <1>5 DEF popped, n

\* What TakeSelector makes of an image d: the facet stays listed even if it has
\* lost its only selector.
SelectorTaken(d, pending, s, f, e) ==
  /\ Good(e, IF Len(d.sels[f]) = 1 THEN pending \union {f} ELSE pending)
  /\ Len(d.sels[f]) \in Nat \ {0}
  /\ e.facet = [d.facet EXCEPT ![s] = Zero]
  /\ e.owner = d.owner /\ e.frozen = d.frozen
  /\ Len(e.sels[f]) = Len(d.sels[f]) - 1
  /\ \A g \in Address : g # f => e.sels[g] = d.sels[g]

\* Removing a selector from a consistent image: its facet's array gets shorter by
\* one, its last selector sits in the gap, nothing else moves, and the index is
\* consistent again.
LEMMA TakeSelectorGood ==
  ASSUME NEW d, NEW pending \in SUBSET Address, Good(d, pending),
         NEW s \in Selector, NEW f \in Address, d.facet[s] = f,
         NEW e, e = TakeSelector(d, f, s)
  PROVE  SelectorTaken(d, pending, s, f, e)
<1> DEFINE n == Len(d.sels[f])
       seq == d.sels[f]
           last == seq[n]
           sp == d.pos[s]
           filled == [seq EXCEPT ![sp + 1] = last]
<1>1. d \in Storage /\ Indexed(d) /\ FacetsIndexed(d, pending) /\ Clean(d) /\ ServersHaveCode(d)
  BY DEF Good
<1>2. d.pos \in [Selector -> Nat] /\ d.sels \in [Address -> Seq(Selector)]
      /\ d.facet \in [Selector -> Facet] /\ d.addrs \in Seq(Address)
      /\ d.facetPos \in [Address -> Nat] /\ d.owner \in Facet /\ d.frozen \in BOOLEAN
  BY <1>1 DEF Storage
<1>3. seq \in Seq(Selector) /\ sp \in Nat /\ sp < n /\ seq[sp + 1] = s
  BY <1>1, <1>2, DiamondAssumption DEF Indexed
<1>4. n \in Nat \ {0} /\ n \in 1..Len(seq) /\ sp + 1 \in 1..Len(seq) /\ seq # <<>>
  BY <1>3, LenProperties, EmptySeq
<1>5. last \in Selector
  BY <1>3, <1>4, ElementOfSeq
<1>n. n \in Nat /\ n # 0 /\ sp \in Nat /\ sp <= n - 1
  BY <1>3, <1>4
<1>6. /\ filled \in Seq(Selector) /\ Len(filled) = n
      /\ \A i \in 1..n : i # sp + 1 => filled[i] = seq[i]
      /\ filled[sp + 1] = last
  BY <1>3, <1>4, <1>5, ExceptSeq
<1> HIDE DEF filled
<1>m. filled # <<>>
  BY <1>6, <1>n, EmptySeq
<1>7. /\ Pop(filled) \in Seq(Selector) /\ Len(Pop(filled)) = n - 1
      /\ \A i \in 1..(n - 1) : Pop(filled)[i] = filled[i]
  <2>1. filled \in Seq(Selector) /\ Len(filled) = n
    BY <1>6
  <2>2. /\ Pop(filled) \in Seq(Selector) /\ Len(Pop(filled)) = Len(filled) - 1
        /\ \A i \in 1..(Len(filled) - 1) : Pop(filled)[i] = filled[i]
    BY <2>1, <1>m, PopFacts
  <2> QED
    BY <2>1, <2>2
<1>8. /\ e.sels = [d.sels EXCEPT ![f] = Pop(filled)]
      /\ e.facet = [d.facet EXCEPT ![s] = Zero]
      /\ e.pos = [d.pos EXCEPT ![last] = sp, ![s] = 0]
      /\ e.addrs = d.addrs /\ e.facetPos = d.facetPos
      /\ e.owner = d.owner /\ e.frozen = d.frozen
      /\ e = [d EXCEPT !.sels = e.sels, !.facet = e.facet, !.pos = e.pos]
  BY <1>1 DEF TakeSelector, Storage, filled
<1> HIDE DEF seq, last, sp, n
<1>9. e \in Storage
  <2>1. e.pos \in [Selector -> Nat]
    <3>1. e.pos = [d.pos EXCEPT ![last] = sp, ![s] = 0] /\ d.pos \in [Selector -> Nat] /\ sp \in Nat
      BY <1>2, <1>3, <1>8
    <3> QED
      BY <3>1
  <2>2. e.sels \in [Address -> Seq(Selector)]
    BY <1>2, <1>7, <1>8
  <2>3. e.facet \in [Selector -> Facet]
    BY <1>2, <1>8
  <2> QED
    BY <1>1, <1>8, <2>1, <2>2, <2>3 DEF Storage
<1>10. e.pos[s] = 0 /\ (last # s => e.pos[last] = sp)
       /\ \A t \in Selector : t # s /\ t # last => e.pos[t] = d.pos[t]
  BY <1>2, <1>5, <1>8
<1>11. e.facet[s] = Zero /\ \A t \in Selector : t # s => e.facet[t] = d.facet[t]
  BY <1>2, <1>8
<1>12. e.sels[f] = Pop(filled) /\ \A g \in Address : g # f => e.sels[g] = d.sels[g]
  BY <1>2, <1>8
<1>13. Len(e.sels[f]) = n - 1 /\ DOMAIN e.sels[f] = 1..(n - 1)
  BY <1>7, <1>12, LenProperties
<1>14. sp # n - 1 => e.sels[f][sp + 1] = last
  <2>1. sp # n - 1 => sp + 1 \in 1..(n - 1)
    BY <1>n
  <2>2. sp # n - 1 => Pop(filled)[sp + 1] = filled[sp + 1]
    BY <1>7, <2>1
  <2> QED
    BY <1>6, <1>12, <2>2
<1>15. \A i \in 1..(n - 1) : i # sp + 1 => e.sels[f][i] = seq[i]
  <2> SUFFICES ASSUME NEW i \in 1..(n - 1), i # sp + 1
               PROVE  e.sels[f][i] = seq[i]
    OBVIOUS
  <2>1. i \in 1..n
    BY <1>n
  <2>2. filled[i] = seq[i]
    BY <1>6, <2>1
  <2> QED
    BY <1>7, <1>12, <2>2
<1>16. \A g \in Address : /\ DOMAIN d.sels[g] = 1..Len(d.sels[g]) /\ Len(d.sels[g]) \in Nat
                          /\ \A i \in DOMAIN d.sels[g] : d.sels[g][i] \in Selector
  BY <1>2, LenProperties, ElementOfSeq
<1>17. \A i \in 1..n : seq[i] \in Selector /\ d.facet[seq[i]] = f /\ d.pos[seq[i]] = i - 1
  BY <1>1, <1>16 DEF Indexed, seq, n
<1>18. d.facet[last] = f /\ d.pos[last] = n - 1
  BY <1>n, <1>17 DEF last
<1>v. last = seq[n] /\ sp = d.pos[s] /\ n = Len(d.sels[f]) /\ seq = d.sels[f]
  BY DEF last, sp, seq, n
<1>19. \A t \in Selector : e.facet[t] # Zero =>
         /\ e.pos[t] < Len(e.sels[e.facet[t]])
         /\ e.sels[e.facet[t]][e.pos[t] + 1] = t
  <2> SUFFICES ASSUME NEW t \in Selector, e.facet[t] # Zero
               PROVE  /\ e.pos[t] < Len(e.sels[e.facet[t]])
                      /\ e.sels[e.facet[t]][e.pos[t] + 1] = t
    OBVIOUS
  <2> SUFFICES ASSUME NEW g, g = d.facet[t], NEW tp, tp = d.pos[t]
               PROVE  e.pos[t] < Len(e.sels[g]) /\ e.sels[g][e.pos[t] + 1] = t
    BY <1>11
  <2>1. t # s /\ g \in Address /\ g # Zero
    BY <1>2, <1>11, DiamondAssumption
  <2>2. tp \in Nat /\ tp < Len(d.sels[g]) /\ d.sels[g][tp + 1] = t
    BY <1>1, <1>2, <2>1 DEF Indexed
  <2>3. CASE t = last
    <3>1. g = f /\ sp # n - 1
      BY <1>3, <1>n, <1>v, <1>18, <2>1, <2>3
    <3>2. sp + 1 \in 1..(n - 1) /\ e.pos[t] = sp
      BY <1>3, <1>4, <1>10, <2>1, <2>3, <3>1
    <3> QED
      <4>1. sp < n - 1
        BY <1>n, <3>1
      <4> QED
        BY <1>13, <1>14, <2>3, <3>1, <3>2, <4>1
  <2>4. CASE t # last /\ g = f
    <3>1. seq[tp + 1] = t /\ tp < n
      BY <1>v, <2>2, <2>4
    <3>2. tp # n - 1 /\ tp # sp
      <4>1. tp = n - 1 => tp + 1 = n
        BY <1>n, <2>2
      <4> QED
        BY <1>v, <1>3, <2>1, <2>4, <3>1, <4>1
    <3>3. tp + 1 \in 1..(n - 1) /\ tp + 1 # sp + 1 /\ e.pos[t] = tp
      <4>1. tp \in Nat /\ tp < n /\ tp # n - 1 /\ tp # sp
        BY <2>2, <3>1, <3>2
      <4>2. tp + 1 \in 1..(n - 1) /\ tp + 1 # sp + 1
        <5>1. n \in Nat /\ sp \in Nat
          BY <1>n
        <5> QED
          BY <4>1, <5>1
      <4> QED
        BY <1>10, <2>1, <2>4, <4>2
    <3>4. e.sels[f][tp + 1] = t
      BY <1>15, <3>1, <3>3
    <3> QED
      <4>1. tp < n - 1
        <5>1. n \in Nat /\ tp \in Nat /\ tp < n /\ tp # n - 1
          BY <1>n, <2>2, <3>1, <3>2
        <5> QED
          BY <5>1
      <4> QED
        BY <1>13, <2>4, <3>3, <3>4, <4>1
  <2>5. CASE g # f
    <3>1. t # last
      BY <1>18, <2>5
    <3> QED
      BY <1>10, <1>12, <2>1, <2>2, <2>5, <3>1
  <2> QED
    BY <2>3, <2>4, <2>5
<1>20. \A g \in Address : \A i \in DOMAIN e.sels[g] :
         e.facet[e.sels[g][i]] = g /\ e.pos[e.sels[g][i]] = i - 1
  <2> SUFFICES ASSUME NEW g \in Address, NEW i \in DOMAIN e.sels[g],
                      NEW t, t = e.sels[g][i]
               PROVE  e.facet[t] = g /\ e.pos[t] = i - 1
    OBVIOUS
  <2>1. CASE g # f
    <3>1. i \in DOMAIN d.sels[g] /\ t = d.sels[g][i] /\ t \in Selector
      BY <1>12, <1>16, <2>1
    <3>2. d.facet[t] = g /\ d.pos[t] = i - 1
      BY <1>1, <3>1 DEF Indexed
    <3>3. t # s /\ t # last
      BY <1>18, <2>1, <3>2
    <3> QED
      BY <1>10, <1>11, <3>1, <3>2, <3>3
  <2>2. CASE g = f /\ i = sp + 1
    <3>1. t = last /\ sp # n - 1 /\ i - 1 = sp
      BY <1>3, <1>4, <1>13, <1>14, <2>2
    <3>2. last # s
      BY <1>v, <1>18, <3>1
    <3> QED
      BY <1>5, <1>10, <1>11, <1>18, <2>2, <3>1, <3>2
  <2>3. CASE g = f /\ i # sp + 1
    <3>1. i \in 1..n /\ i # n /\ i # sp + 1 /\ t = seq[i]
      <4>1. i \in 1..(n - 1)
        BY <1>13, <2>3
      <4>2. i \in 1..n /\ i # n
        BY <1>n, <4>1
      <4> QED
        BY <1>15, <2>3, <4>1, <4>2
    <3>2. t \in Selector /\ d.facet[t] = f /\ d.pos[t] = i - 1
      BY <1>17, <3>1
    <3>3. t # s /\ t # last
      <4>1. d.pos[t] # sp /\ d.pos[t] # n - 1
        BY <1>3, <1>4, <3>1, <3>2
      <4> QED
        BY <1>v, <1>18, <3>2, <4>1
    <3> QED
      BY <1>10, <1>11, <2>3, <3>2, <3>3
  <2> QED
    BY <2>1, <2>2, <2>3
<1>21. Indexed(e)
  BY <1>19, <1>20 DEF Indexed
<1>22. (e.sels[f] = <<>> <=> n = 1) /\ d.sels[f] # <<>>
  <2>1. e.sels[f] \in Seq(Selector)
    BY <1>7, <1>12
  <2>2. e.sels[f] = <<>> <=> Len(e.sels[f]) = 0
    BY <2>1, EmptySeq
  <2> QED
    BY <1>n, <1>13, <2>2, EmptySeq DEF n
<1>23. FacetsIndexed(e, IF n = 1 THEN pending \union {f} ELSE pending)
  <2>1. \A g \in Address : Listed(e, g) <=> (d.sels[g] # <<>> \/ g \in pending)
    BY <1>1, <1>8 DEF FacetsIndexed, Listed
  <2>2. \A i \in DOMAIN e.addrs : e.facetPos[e.addrs[i]] = i - 1
    BY <1>1, <1>8 DEF FacetsIndexed
  <2> QED
    BY <1>12, <1>22, <2>1, <2>2 DEF FacetsIndexed
<1>24. Clean(e)
  <2>1. \A t \in Selector : e.facet[t] = Zero => e.pos[t] = 0
    <3> SUFFICES ASSUME NEW t \in Selector, e.facet[t] = Zero, t # s
                 PROVE  e.pos[t] = 0
      BY <1>10
    <3>1. d.facet[t] = Zero /\ t # last
      BY <1>11, <1>18, DiamondAssumption
    <3> QED
      BY <1>1, <1>10, <3>1 DEF Clean
  <2>2. \A g \in Address : ~Listed(e, g) => e.facetPos[g] = 0
    BY <1>1, <1>8 DEF Clean, Listed
  <2> QED
    BY <2>1, <2>2 DEF Clean
<1>25. ServersHaveCode(e)
  BY <1>1, <1>12, <1>22 DEF ServersHaveCode
<1>26. Good(e, IF n = 1 THEN pending \union {f} ELSE pending)
  BY <1>9, <1>21, <1>23, <1>24, <1>25 DEF Good
<1> QED
  BY <1>v, <1>4, <1>8, <1>12, <1>13, <1>26 DEF SelectorTaken

\* Dropping a facet that has lost its selectors from the list of facets.
LEMMA DropFacetGood ==
  ASSUME NEW d, NEW pending \in SUBSET Address, NEW f \in Address, f \notin pending,
         Good(d, pending \union {f}), d.sels[f] = <<>>,
         NEW e, e = DropFacet(d, f)
  PROVE  /\ Good(e, pending)
         /\ e.facet = d.facet /\ e.sels = d.sels
         /\ e.owner = d.owner /\ e.frozen = d.frozen
<1> DEFINE seq == d.addrs
           n == Len(seq)
           last == seq[n]
           fap == d.facetPos[f]
           filled == [seq EXCEPT ![fap + 1] = last]
<1>1. d \in Storage /\ Indexed(d) /\ FacetsIndexed(d, pending \union {f}) /\ Clean(d) /\ ServersHaveCode(d)
  BY DEF Good
<1>2. seq \in Seq(Address) /\ d.facetPos \in [Address -> Nat]
  BY <1>1 DEF Storage
<1>3. n \in Nat /\ DOMAIN seq = 1..n /\ \A i \in 1..n : seq[i] \in Address
  BY <1>2, LenProperties, ElementOfSeq
<1>4. PICK k \in 1..n : seq[k] = f
  BY <1>1, <1>3 DEF FacetsIndexed, Listed
<1>5. \A i \in 1..n : d.facetPos[seq[i]] = i - 1
  BY <1>1, <1>3 DEF FacetsIndexed
<1>6. fap \in Nat /\ fap + 1 \in 1..n /\ seq[fap + 1] = f /\ n # 0
  BY <1>2, <1>3, <1>4, <1>5
<1>7. last \in Address /\ n \in 1..n
  BY <1>3, <1>6
<1>8. /\ filled \in Seq(Address) /\ Len(filled) = n
      /\ \A i \in 1..n : i # fap + 1 => filled[i] = seq[i]
      /\ filled[fap + 1] = last
  BY <1>2, <1>6, <1>7, ExceptSeq
<1> HIDE DEF filled
<1>9. filled # <<>>
  BY <1>6, <1>8, EmptySeq
<1>10. /\ Pop(filled) \in Seq(Address) /\ Len(Pop(filled)) = n - 1
       /\ \A i \in 1..(n - 1) : Pop(filled)[i] = filled[i]
  BY <1>8, <1>9, PopFacts
<1>11. /\ e.addrs = Pop(filled)
       /\ e.facetPos = [d.facetPos EXCEPT ![last] = fap, ![f] = 0]
       /\ e.facet = d.facet /\ e.sels = d.sels /\ e.pos = d.pos
       /\ e.owner = d.owner /\ e.frozen = d.frozen
       /\ e = [d EXCEPT !.addrs = e.addrs, !.facetPos = e.facetPos]
  BY <1>1 DEF DropFacet, Storage, filled
<1>12. n \in Nat /\ n # 0 /\ fap \in Nat /\ fap <= n - 1 /\ last = seq[n]
  BY <1>3, <1>6
<1>13. d.facetPos[last] = n - 1
  BY <1>5, <1>7
<1> HIDE DEF n, last, fap
<1>14. e \in Storage
  <2>1. e.facetPos \in [Address -> Nat]
    BY <1>2, <1>6, <1>7, <1>11
  <2> QED
    BY <1>1, <1>10, <1>11, <2>1 DEF Storage
<1>15. e.facetPos[f] = 0 /\ (last # f => e.facetPos[last] = fap)
       /\ \A g \in Address : g # f /\ g # last => e.facetPos[g] = d.facetPos[g]
  BY <1>2, <1>7, <1>11
<1>16. DOMAIN e.addrs = 1..(n - 1)
  BY <1>10, <1>11, LenProperties
<1>17. \A i \in 1..(n - 1) : i \in 1..n /\ i # n
  BY <1>12
<1>18. \A i \in 1..(n - 1) : e.addrs[i] = IF i = fap + 1 THEN last ELSE seq[i]
  BY <1>8, <1>10, <1>11, <1>17
<1>19. \A i \in DOMAIN e.addrs : e.facetPos[e.addrs[i]] = i - 1 /\ e.addrs[i] # f
  <2> SUFFICES ASSUME NEW i \in 1..(n - 1)
               PROVE  e.facetPos[e.addrs[i]] = i - 1 /\ e.addrs[i] # f
    BY <1>16
  <2>1. i \in 1..n /\ i # n /\ i \in Nat
    BY <1>17
  <2>2. CASE i = fap + 1
    <3>1. fap # n - 1 /\ i - 1 = fap
      BY <1>12, <2>1, <2>2
    <3>2. last # f
      BY <1>5, <1>6, <1>13, <3>1 DEF fap
    <3> QED
      BY <1>15, <1>18, <2>2, <3>1, <3>2
  <2>3. CASE i # fap + 1
    <3>1. d.facetPos[seq[i]] = i - 1 /\ i - 1 # fap /\ i - 1 # n - 1 /\ seq[i] \in Address
      BY <1>3, <1>5, <1>12, <2>1, <2>3
    <3>2. seq[i] # f /\ seq[i] # last
      BY <1>13, <3>1 DEF fap
    <3> QED
      BY <1>15, <1>18, <2>3, <3>1, <3>2
  <2> QED
    BY <2>2, <2>3
<1>20. \A g \in Address : Listed(e, g) <=> Listed(d, g) /\ g # f
  <2>1. ASSUME NEW g \in Address, Listed(e, g)
        PROVE  Listed(d, g) /\ g # f
    <3>1. PICK i \in 1..(n - 1) : e.addrs[i] = g
      BY <1>16, <2>1 DEF Listed
    <3> QED
      BY <1>3, <1>7, <1>12, <1>16, <1>17, <1>18, <1>19, <3>1 DEF Listed
  <2>2. ASSUME NEW g \in Address, Listed(d, g), g # f
        PROVE  Listed(e, g)
    <3>1. PICK i \in 1..n : seq[i] = g
      BY <1>3, <2>2 DEF Listed
    <3>2. CASE i = n
      <4>1. g = last /\ fap # n - 1
        BY <1>6, <1>12, <2>2, <3>1, <3>2
      <4>2. fap + 1 \in 1..(n - 1)
        BY <1>12, <4>1
      <4> QED
        BY <1>16, <1>18, <4>1, <4>2 DEF Listed
    <3>3. CASE i # n
      <4>1. i \in 1..(n - 1)
        BY <1>12, <3>3
      <4> QED
        BY <1>6, <1>16, <1>18, <2>2, <3>1, <4>1 DEF Listed
    <3> QED
      BY <3>2, <3>3
  <2> QED
    BY <2>1, <2>2
<1>21. FacetsIndexed(e, pending)
  <2>1. \A g \in Address : Listed(e, g) <=> (e.sels[g] # <<>> \/ g \in pending)
    BY <1>1, <1>11, <1>20 DEF FacetsIndexed
  <2> QED
    BY <1>19, <2>1 DEF FacetsIndexed
<1>22. Clean(e)
  <2>1. \A g \in Address : ~Listed(e, g) => e.facetPos[g] = 0
    <3>1. Listed(d, last)
      BY <1>3, <1>7, <1>12 DEF Listed
    <3> QED
      BY <1>1, <1>15, <1>20, <3>1 DEF Clean
  <2> QED
    BY <1>1, <1>11, <2>1 DEF Clean
<1>23. Indexed(e) /\ ServersHaveCode(e)
  BY <1>1, <1>11 DEF Indexed, ServersHaveCode
<1> QED
  BY <1>11, <1>14, <1>21, <1>22, <1>23 DEF Good

\* __removeFunction as a whole keeps an image consistent.
LEMMA RemoveFunctionGood ==
  ASSUME NEW d, NEW pending \in SUBSET Address, Good(d, pending),
         NEW s \in Selector, NEW f \in Address, d.facet[s] = f, f \notin pending,
         NEW e, e = RemoveFunction(d, f, s)
  PROVE  /\ Good(e, pending)
         /\ e.facet = [d.facet EXCEPT ![s] = Zero]
         /\ e.owner = d.owner /\ e.frozen = d.frozen
         /\ \A g \in Address : g # f => e.sels[g] = d.sels[g]
<1> DEFINE n == Len(d.sels[f])
           cut == TakeSelector(d, f, s)
<1>1. /\ Good(cut, IF n = 1 THEN pending \union {f} ELSE pending)
      /\ n \in Nat \ {0}
      /\ cut.facet = [d.facet EXCEPT ![s] = Zero]
      /\ cut.owner = d.owner /\ cut.frozen = d.frozen
      /\ Len(cut.sels[f]) = n - 1
      /\ \A g \in Address : g # f => cut.sels[g] = d.sels[g]
  <2> HIDE DEF cut
  <2>1. SelectorTaken(d, pending, s, f, cut)
    BY TakeSelectorGood DEF cut
  <2> QED
    BY <2>1 DEF SelectorTaken
<1> HIDE DEF cut, n
<1>2. CASE n = 1
  <2>1. cut.sels[f] = <<>>
    <3>1. cut.sels[f] \in Seq(Selector) /\ Len(cut.sels[f]) = 0
      BY <1>1, <1>2 DEF Good, Storage
    <3> QED
      BY <3>1, EmptySeq
  <2>2. e = DropFacet(cut, f)
    BY <1>2 DEF RemoveFunction, cut, n
  <2>3. /\ Good(e, pending)
        /\ e.facet = cut.facet /\ e.sels = cut.sels
        /\ e.owner = cut.owner /\ e.frozen = cut.frozen
    BY <1>1, <1>2, <2>1, <2>2, DropFacetGood
  <2> QED
    BY <1>1, <2>3
<1>3. CASE n # 1
  BY <1>1, <1>3 DEF RemoveFunction, cut, n
<1> QED
  BY <1>2, <1>3

\* __addFacet lists a facet that is about to get its first selector.
LEMMA AddFacetGood ==
  ASSUME NEW d, Good(d, {}), NEW f \in Address, d.sels[f] = <<>>,
         NEW e, e = AddFacet(d, f)
  PROVE  /\ Good(e, {f})
         /\ e.facet = d.facet /\ e.sels = d.sels
         /\ e.owner = d.owner /\ e.frozen = d.frozen
<1> DEFINE seq == d.addrs
           n == Len(seq)
<1>1. d \in Storage /\ Indexed(d) /\ FacetsIndexed(d, {}) /\ Clean(d) /\ ServersHaveCode(d)
  BY DEF Good
<1>2. seq \in Seq(Address) /\ d.facetPos \in [Address -> Nat]
  BY <1>1 DEF Storage
<1>3. n \in Nat /\ DOMAIN seq = 1..n
  BY <1>2, LenProperties
<1>4. /\ e.addrs = Append(seq, f)
      /\ e.facetPos = [d.facetPos EXCEPT ![f] = n]
      /\ e.facet = d.facet /\ e.sels = d.sels /\ e.pos = d.pos
      /\ e.owner = d.owner /\ e.frozen = d.frozen
      /\ e = [d EXCEPT !.addrs = e.addrs, !.facetPos = e.facetPos]
  BY <1>1 DEF AddFacet, Storage
<1>5. /\ Append(seq, f) \in Seq(Address) /\ Len(Append(seq, f)) = n + 1
      /\ \A i \in 1..n : Append(seq, f)[i] = seq[i]
      /\ Append(seq, f)[n + 1] = f
  BY <1>2, AppendProperties
<1>6. DOMAIN e.addrs = 1..(n + 1)
  BY <1>4, <1>5, LenProperties
<1>7. \A g \in Address : Listed(d, g) <=> d.sels[g] # <<>>
  BY <1>1 DEF FacetsIndexed
<1>8. \A i \in 1..n : seq[i] # f /\ seq[i] \in Address /\ d.facetPos[seq[i]] = i - 1
  BY <1>1, <1>2, <1>3, <1>7, ElementOfSeq DEF FacetsIndexed, Listed
<1> HIDE DEF n
<1>9. e \in Storage
  <2>1. e.facetPos \in [Address -> Nat] /\ e.addrs \in Seq(Address)
    BY <1>2, <1>3, <1>4, <1>5
  <2> QED
    BY <1>1, <1>4, <2>1 DEF Storage
<1>10. \A i \in 1..(n + 1) : i \in 1..n \/ i = n + 1
  BY <1>3
<1>11. n + 1 - 1 = n /\ n + 1 \in 1..(n + 1) /\ \A i \in 1..n : i \in 1..(n + 1)
  BY <1>3
<1>12. \A i \in DOMAIN e.addrs : e.facetPos[e.addrs[i]] = i - 1
  <2> SUFFICES ASSUME NEW i \in 1..(n + 1)
               PROVE  e.facetPos[e.addrs[i]] = i - 1
    BY <1>6
  <2>1. CASE i \in 1..n
    BY <1>2, <1>4, <1>5, <1>8, <2>1
  <2>2. CASE i = n + 1
    <3>1. e.addrs[i] = f
      BY <1>4, <1>5, <2>2
    <3>2. e.facetPos[f] = n
      BY <1>2, <1>4
    <3>3. i - 1 = n
      BY <1>3, <2>2
    <3> QED
      BY <3>1, <3>2, <3>3
  <2> QED
    BY <1>10, <2>1, <2>2
<1>13. \A g \in Address : Listed(e, g) <=> Listed(d, g) \/ g = f
  BY <1>3, <1>4, <1>5, <1>6, <1>10, <1>11 DEF Listed
<1>14. FacetsIndexed(e, {f})
  BY <1>4, <1>7, <1>12, <1>13 DEF FacetsIndexed
<1>15. Clean(e)
  BY <1>1, <1>2, <1>4, <1>13 DEF Clean
<1>16. Indexed(e) /\ ServersHaveCode(e)
  BY <1>1, <1>4 DEF Indexed, ServersHaveCode
<1> QED
  BY <1>4, <1>9, <1>14, <1>15, <1>16 DEF Good

\* What AddFunction makes of an image d.
FunctionAdded(d, s, f, e) ==
  /\ Good(e, {})
  /\ e.facet = [d.facet EXCEPT ![s] = f]
  /\ e.owner = d.owner /\ e.frozen = d.frozen
  /\ Len(d.sels[f]) \in Nat /\ Len(e.sels[f]) = Len(d.sels[f]) + 1

\* __addFunction appends a selector that nobody serves to a facet that is listed.
LEMMA AddFunctionGood ==
  ASSUME NEW d, NEW f \in HasCode, NEW pending \in SUBSET {f}, Good(d, pending),
         NEW s \in Selector, d.facet[s] = Zero,
         d.sels[f] = <<>> => f \in pending,
         NEW e, e = AddFunction(d, s, Len(d.sels[f]), f)
  PROVE  FunctionAdded(d, s, f, e)
<1> DEFINE seq == d.sels[f]
           n == Len(seq)
<1>1. d \in Storage /\ Indexed(d) /\ FacetsIndexed(d, pending) /\ Clean(d) /\ ServersHaveCode(d)
  BY DEF Good
<1>2. d.pos \in [Selector -> Nat] /\ d.sels \in [Address -> Seq(Selector)]
      /\ d.facet \in [Selector -> Facet] /\ f \in Address /\ f # Zero
  BY <1>1, DiamondAssumption DEF Storage
<1>3. seq \in Seq(Selector) /\ n \in Nat /\ DOMAIN seq = 1..n
  BY <1>2, LenProperties
<1>4. /\ e.sels = [d.sels EXCEPT ![f] = Append(seq, s)]
      /\ e.pos = [d.pos EXCEPT ![s] = n]
      /\ e.facet = [d.facet EXCEPT ![s] = f]
      /\ e.addrs = d.addrs /\ e.facetPos = d.facetPos
      /\ e.owner = d.owner /\ e.frozen = d.frozen
      /\ e = [d EXCEPT !.sels = e.sels, !.pos = e.pos, !.facet = e.facet]
  BY <1>1 DEF AddFunction, Storage
<1>5. /\ Append(seq, s) \in Seq(Selector) /\ Len(Append(seq, s)) = n + 1
      /\ \A i \in 1..n : Append(seq, s)[i] = seq[i]
      /\ Append(seq, s)[n + 1] = s
  BY <1>3, AppendProperties
<1>6. Len(e.sels[f]) = n + 1 /\ DOMAIN e.sels[f] = 1..(n + 1) /\ e.sels[f] # <<>>
  <2>1. e.sels[f] = Append(seq, s)
    BY <1>2, <1>4
  <2>2. DOMAIN Append(seq, s) = 1..(n + 1) /\ Append(seq, s) # <<>>
    BY <1>3, <1>5, LenProperties, EmptySeq
  <2> QED
    BY <1>5, <2>1, <2>2
<1>7. \A g \in Address : g # f => e.sels[g] = d.sels[g]
  BY <1>2, <1>4
<1>8. e.sels[f][n + 1] = s /\ \A i \in 1..n : e.sels[f][i] = seq[i]
  BY <1>2, <1>4, <1>5
<1>9. e.facet[s] = f /\ \A t \in Selector : t # s => e.facet[t] = d.facet[t]
  BY <1>2, <1>4
<1>10. e.pos[s] = n /\ \A t \in Selector : t # s => e.pos[t] = d.pos[t]
  BY <1>2, <1>4
<1>11. \A g \in Address : \A i \in DOMAIN d.sels[g] :
         d.sels[g][i] \in Selector \ {s} /\ d.facet[d.sels[g][i]] = g /\ d.pos[d.sels[g][i]] = i - 1
  <2>1. \A g \in Address : g # Zero
    BY DiamondAssumption
  <2> QED
    BY <1>1, <1>2, <2>1, LenProperties, ElementOfSeq DEF Indexed
<1> HIDE DEF seq, n
<1>12. e \in Storage
  <2>1. e.pos \in [Selector -> Nat] /\ e.facet \in [Selector -> Facet]
        /\ e.sels \in [Address -> Seq(Selector)]
    BY <1>2, <1>3, <1>4, <1>5
  <2> QED
    BY <1>1, <1>4, <2>1 DEF Storage
<1>13. \A t \in Selector : e.facet[t] # Zero =>
         /\ e.pos[t] < Len(e.sels[e.facet[t]])
         /\ e.sels[e.facet[t]][e.pos[t] + 1] = t
  <2> SUFFICES ASSUME NEW t \in Selector, e.facet[t] # Zero
               PROVE  /\ e.pos[t] < Len(e.sels[e.facet[t]])
                      /\ e.sels[e.facet[t]][e.pos[t] + 1] = t
    OBVIOUS
  <2>1. CASE t = s
    BY <1>3, <1>6, <1>8, <1>9, <1>10, <2>1
  <2>2. CASE t # s
    <3>1. /\ e.facet[t] = d.facet[t] /\ e.pos[t] = d.pos[t] /\ d.facet[t] \in Address
          /\ d.pos[t] \in Nat /\ d.pos[t] < Len(d.sels[d.facet[t]])
          /\ d.sels[d.facet[t]][d.pos[t] + 1] = t
      BY <1>1, <1>2, <1>9, <1>10, <2>2 DEF Indexed
    <3>2. CASE d.facet[t] = f
      <4>1. d.pos[t] < n /\ seq[d.pos[t] + 1] = t
        BY <3>1, <3>2 DEF n, seq
      <4>2. d.pos[t] + 1 \in 1..n /\ d.pos[t] < n + 1
        BY <1>3, <3>1, <4>1
      <4> QED
        BY <1>6, <1>8, <3>1, <3>2, <4>1, <4>2
    <3>3. CASE d.facet[t] # f
      BY <1>7, <3>1, <3>3
    <3> QED
      BY <3>2, <3>3
  <2> QED
    BY <2>1, <2>2
<1>14. \A g \in Address : \A i \in DOMAIN e.sels[g] :
         e.facet[e.sels[g][i]] = g /\ e.pos[e.sels[g][i]] = i - 1
  <2> SUFFICES ASSUME NEW g \in Address, NEW i \in DOMAIN e.sels[g]
               PROVE  e.facet[e.sels[g][i]] = g /\ e.pos[e.sels[g][i]] = i - 1
    OBVIOUS
  <2>1. CASE g # f
    BY <1>7, <1>9, <1>10, <1>11, <2>1
  <2>2. CASE g = f /\ i = n + 1
    BY <1>3, <1>8, <1>9, <1>10, <2>2
  <2>3. CASE g = f /\ i # n + 1
    <3>1. i \in 1..n
      BY <1>3, <1>6, <2>3
    <3>2. e.sels[g][i] = d.sels[g][i] /\ i \in DOMAIN d.sels[g]
      BY <1>3, <1>8, <2>3, <3>1 DEF seq
    <3> QED
      BY <1>9, <1>10, <1>11, <3>2
  <2> QED
    BY <2>1, <2>2, <2>3
<1>15. Indexed(e)
  BY <1>13, <1>14 DEF Indexed
<1>16. FacetsIndexed(e, {})
  <2>1. \A i \in DOMAIN e.addrs : e.facetPos[e.addrs[i]] = i - 1
    BY <1>1, <1>4 DEF FacetsIndexed
  <2>2. \A g \in Address : Listed(e, g) <=> e.sels[g] # <<>>
    BY <1>1, <1>4, <1>6, <1>7 DEF FacetsIndexed, Listed
  <2> QED
    BY <2>1, <2>2 DEF FacetsIndexed
<1>17. Clean(e)
  BY <1>1, <1>2, <1>4, <1>9, <1>10 DEF Clean, Listed
<1>18. ServersHaveCode(e)
  BY <1>1, <1>7 DEF ServersHaveCode
<1> QED
  BY <1>3, <1>4, <1>6, <1>12, <1>15, <1>16, <1>17, <1>18 DEF FunctionAdded, Good, n, seq

--------------------------------------------------------------------------------
(* The inductive invariant. *)

\* The facet that a frame has listed and not yet given a selector.
PendingOf(fr) ==
  IF fr.phase = "cut" /\ fr.act \in {"add", "replace"} /\ ~fr.seen /\ fr.sp = 0
  THEN {fr.to} ELSE {}

\* What diamondCut, having read the flag and __sp once, still knows in its loops.
LocalsFit(fr, d) ==
  /\ fr.phase = "cut" => ~d.frozen
  /\ fr.phase = "cut" /\ fr.act \in {"add", "replace"} =>
       /\ fr.to \in HasCode
       /\ fr.sp = Len(d.sels[fr.to])
       /\ fr.seen => fr.sp # 0

Inv ==
  /\ frames \in Seq(Frame)
  /\ \A i \in DOMAIN frames : Good(frames[i].snap, {})
  /\ \A i \in DOMAIN frames : i # Len(frames) => frames[i].phase = "ext"
  /\ frames = <<>> => Good(store, {})
  /\ frames # <<>> => Good(store, PendingOf(Top)) /\ LocalsFit(Top, store)

\* A call that starts when nothing is pending.
LEMMA PushKeepsInv ==
  ASSUME Inv, NEW fr \in Frame, fr.snap = store, fr.act = "none",
         fr.phase = "cut" => ~store.frozen,
         frames # <<>> => Top.phase = "ext",
         frames' = Append(frames, fr), store' = store
  PROVE  Inv'
<1> DEFINE n == Len(frames)
<1>1. frames \in Seq(Frame) /\ n \in Nat /\ DOMAIN frames = 1..n
  BY LenProperties DEF Inv
<1>2. /\ frames' \in Seq(Frame) /\ Len(frames') = n + 1 /\ frames' # <<>>
      /\ \A i \in 1..n : frames'[i] = frames[i]
      /\ frames'[n + 1] = fr
  BY <1>1, AppendProperties, EmptySeq
<1>3. DOMAIN frames' = 1..(n + 1) /\ Top' = fr
  BY <1>2, LenProperties DEF Top
<1>4. Good(store, {})
  BY DEF Inv, PendingOf
<1>5. \A i \in 1..(n + 1) : i \in 1..n \/ i = n + 1
  BY <1>1
<1> HIDE DEF n
<1>6. \A i \in DOMAIN frames' : Good(frames'[i].snap, {})
  BY <1>1, <1>2, <1>3, <1>4, <1>5 DEF Inv
<1>7. \A i \in DOMAIN frames' : i # Len(frames') => frames'[i].phase = "ext"
  <2> SUFFICES ASSUME NEW i \in 1..n
               PROVE  frames[i].phase = "ext"
    BY <1>2, <1>3, <1>5
  <2>1. frames # <<>>
    BY <1>1, EmptySeq DEF n
  <2> QED
    BY <1>1, <2>1 DEF Inv, Top, n
<1>8. PendingOf(Top') = {} /\ LocalsFit(Top', store')
  BY <1>3 DEF PendingOf, LocalsFit
<1> QED
  BY <1>2, <1>4, <1>6, <1>7, <1>8 DEF Inv

\* A step inside the innermost call.
LEMMA SetTopKeepsInv ==
  ASSUME Inv, frames # <<>>, NEW fr \in Frame, fr.snap = Top.snap,
         SetTop(fr), Good(store', PendingOf(fr)), LocalsFit(fr, store')
  PROVE  Inv'
<1> DEFINE n == Len(frames)
<1>1. frames \in Seq(Frame) /\ n \in Nat /\ DOMAIN frames = 1..n /\ n \in 1..n
  BY LenProperties, EmptySeq DEF Inv
<1>2. /\ frames' \in Seq(Frame) /\ Len(frames') = n
      /\ \A i \in 1..n : frames'[i] = IF i = n THEN fr ELSE frames[i]
  BY <1>1, ExceptSeq DEF SetTop
<1>3. DOMAIN frames' = 1..n /\ Top' = fr /\ frames' # <<>>
  BY <1>1, <1>2, LenProperties, EmptySeq DEF Top
<1> HIDE DEF n
<1>4. \A i \in DOMAIN frames' : Good(frames'[i].snap, {})
  BY <1>1, <1>2, <1>3 DEF Inv, Top, n
<1>5. \A i \in DOMAIN frames' : i # Len(frames') => frames'[i].phase = "ext"
  BY <1>1, <1>2, <1>3 DEF Inv, n
<1> QED
  BY <1>2, <1>3, <1>4, <1>5 DEF Inv

\* The innermost call ends, for good or undone.
LEMMA PopKeepsInv ==
  ASSUME Inv, frames # <<>>, frames' = Pop(frames), Good(store', {})
  PROVE  Inv'
<1> DEFINE n == Len(frames)
<1>1. frames \in Seq(Frame) /\ n \in Nat \ {0} /\ DOMAIN frames = 1..n
  BY LenProperties, EmptySeq DEF Inv
<1>2. /\ frames' \in Seq(Frame) /\ Len(frames') = n - 1
      /\ \A i \in 1..(n - 1) : frames'[i] = frames[i]
  BY <1>1, PopFacts
<1>3. DOMAIN frames' = 1..(n - 1)
  BY <1>2, LenProperties
<1> HIDE DEF n
<1>4. \A i \in 1..(n - 1) : i \in 1..n /\ i # n
  <2>1. n \in Nat
    BY <1>1
  <2> QED
    BY <2>1
<1>5. \A i \in DOMAIN frames' : Good(frames'[i].snap, {}) /\ frames'[i].phase = "ext"
  BY <1>1, <1>2, <1>3, <1>4 DEF Inv, n
<1>6. ASSUME frames' # <<>>
      PROVE  Top'.phase = "ext"
  <2>1. n - 1 \in 1..(n - 1)
    BY <1>1, <1>2, <1>6, EmptySeq
  <2> QED
    BY <1>2, <1>3, <1>5, <2>1 DEF Top
<1>7. frames' # <<>> => PendingOf(Top') = {} /\ LocalsFit(Top', store')
  BY <1>6 DEF PendingOf, LocalsFit
<1> QED
  BY <1>2, <1>5, <1>7 DEF Inv

--------------------------------------------------------------------------------
(* Every action keeps the invariant. *)

\* The initial storage is empty, hence consistent.
LEMMA InitInv == Init => Inv
<1> SUFFICES ASSUME Init PROVE Inv
  OBVIOUS
<1>1. frames = <<>> /\ frames \in Seq(Frame) /\ DOMAIN frames = {}
  BY EmptySeq DEF Init
<1>2. store \in Storage
  BY EmptySeq, DiamondAssumption DEF Init, Storage
<1>3. /\ \A s \in Selector : store.facet[s] = Zero /\ store.pos[s] = 0
      /\ \A f \in Address : store.sels[f] = <<>> /\ store.facetPos[f] = 0
      /\ store.addrs = <<>>
  BY DEF Init
<1>4. Good(store, {})
  BY <1>2, <1>3, DiamondAssumption DEF Good, Indexed, FacetsIndexed, Clean, ServersHaveCode, Listed
<1> QED
  BY <1>1, <1>4 DEF Inv

\* While no loop runs, nothing is pending.
LEMMA QuietGood ==
  ASSUME Inv, frames # <<>> => Top.phase = "ext" \/ Top.act = "none"
  PROVE  Good(store, {})
  BY DEF Inv, PendingOf

\* Changing the owner or the flag leaves the tables alone.
LEMMA FlagsGood ==
  ASSUME NEW d, Good(d, {}), NEW owner \in Facet, NEW frozen \in BOOLEAN,
         NEW e, e = [d EXCEPT !.owner = owner, !.frozen = frozen]
  PROVE  Good(e, {})
<1>1. d \in Storage
  BY DEF Good
<1>2. /\ e \in Storage
      /\ e.facet = d.facet /\ e.pos = d.pos /\ e.sels = d.sels
      /\ e.facetPos = d.facetPos /\ e.addrs = d.addrs
  BY <1>1 DEF Storage
<1> QED
  BY <1>2 DEF Good, Indexed, FacetsIndexed, Clean, ServersHaveCode, Listed

LEMMA TopFacts ==
  ASSUME Inv, frames # <<>>
  PROVE  Top \in Frame /\ Good(Top.snap, {}) /\ Good(store, PendingOf(Top)) /\ LocalsFit(Top, store)
<1>1. frames \in Seq(Frame) /\ Len(frames) \in 1..Len(frames)
  BY EmptySeq, LenProperties DEF Inv
<1> QED
  BY <1>1, LenProperties, ElementOfSeq DEF Inv, Top

\* A step that leaves the frames alone and the tables consistent.
LEMMA SameFramesKeepsInv ==
  ASSUME Inv, frames # <<>> => Top.phase = "ext", frames' = frames, Good(store', {})
  PROVE  Inv'
<1>1. Top' = Top
  BY DEF Top
<1>2. frames # <<>> => PendingOf(Top) = {} /\ LocalsFit(Top, store')
  BY DEF PendingOf, LocalsFit
<1> QED
  BY <1>1, <1>2 DEF Inv

LEMMA CallsKeepInv ==
  ASSUME Inv, NEW sender \in Address,
         \/ \E newOwner \in Facet : TransferOwnership(sender, newOwner)
         \/ FreezeDiamond(sender)
         \/ \E s \in Selector : Route(sender, s)
         \/ DiamondCut(sender)
  PROVE  Inv'
<1>1. Good(store, {}) /\ (frames # <<>> => Top.phase = "ext")
  BY QuietGood DEF CanCall, TransferOwnership, FreezeDiamond, Route, DiamondCut
<1>2. CASE \E newOwner \in Facet : TransferOwnership(sender, newOwner)
  <2>1. PICK newOwner \in Facet : store' = [store EXCEPT !.owner = newOwner] /\ frames' = frames
    BY <1>2 DEF TransferOwnership
  <2>2. store \in Storage /\ store.frozen \in BOOLEAN
    BY <1>1 DEF Good, Storage
  <2>3. store' = [store EXCEPT !.owner = newOwner, !.frozen = store.frozen]
    BY <2>1, <2>2 DEF Storage
  <2> QED
    BY <1>1, <2>1, <2>2, <2>3, FlagsGood, SameFramesKeepsInv
<1>3. CASE FreezeDiamond(sender)
  <2>1. store' = [store EXCEPT !.frozen = TRUE] /\ frames' = frames
    BY <1>3 DEF FreezeDiamond
  <2>2. store \in Storage /\ store.owner \in Facet
    BY <1>1 DEF Good, Storage
  <2>3. store' = [store EXCEPT !.owner = store.owner, !.frozen = TRUE]
    BY <2>1, <2>2 DEF Storage
  <2> QED
    BY <1>1, <2>1, <2>2, <2>3, FlagsGood, SameFramesKeepsInv
<1>4. ASSUME NEW phase \in {"cut", "ext"}, phase = "cut" => ~store.frozen, Enter(phase)
      PROVE  Inv'
  <2> DEFINE fr == [snap |-> store, phase |-> phase, act |-> "none",
                    to |-> Zero, sp |-> 0, seen |-> FALSE]
  <2>1. fr \in Frame /\ fr.snap = store /\ fr.act = "none" /\ (fr.phase = "cut" => ~store.frozen)
    BY <1>1, <1>4 DEF Good, Frame
  <2>2. frames' = Append(frames, fr) /\ store' = store
    BY <1>4 DEF Enter
  <2> HIDE DEF fr
  <2> QED
    BY <1>1, <2>1, <2>2, PushKeepsInv
<1>5. CASE \E s \in Selector : Route(sender, s)
  BY <1>4, <1>5 DEF Route
<1>6. CASE DiamondCut(sender)
  BY <1>4, <1>6 DEF DiamondCut
<1> QED
  BY <1>2, <1>3, <1>5, <1>6

LEMMA EndsKeepInv ==
  ASSUME Inv, FinishCut \/ ExtReturns \/ CallReverts
  PROVE  Inv'
<1>1. CASE FinishCut \/ ExtReturns
  <2>1. Good(store, {}) /\ frames # <<>>
    BY <1>1, QuietGood DEF FinishCut, ExtReturns, Applying, Cutting
  <2>2. frames' = Pop(frames) /\ store' = store
    BY <1>1 DEF FinishCut, ExtReturns, Return
  <2> QED
    BY <2>1, <2>2, PopKeepsInv
<1>2. CASE CallReverts
  <2>1. frames # <<>> /\ store' = Top.snap /\ frames' = Pop(frames)
    BY <1>2 DEF CallReverts, Revert
  <2> QED
    BY <2>1, TopFacts, PopKeepsInv
<1> QED
  BY <1>1, <1>2

LEMMA QuietStepsKeepInv ==
  ASSUME Inv, StartRemove \/ EndFacetCut \/ \E init \in Address : DelegateInit(init)
  PROVE  Inv'
<1>1. frames # <<>> /\ store' = store /\ Top.phase = "cut"
  BY DEF StartRemove, EndFacetCut, DelegateInit, Applying, Cutting
<1>2. Top \in Frame /\ Good(store, PendingOf(Top)) /\ LocalsFit(Top, store)
  BY <1>1, TopFacts
<1>3. PICK fr : /\ SetTop(fr) /\ fr \in Frame /\ fr.snap = Top.snap
                /\ fr.act \in {"none", "remove"} \/ fr.phase = "ext"
  <2>1. CASE StartRemove
    <3> DEFINE fr == [Top EXCEPT !.act = "remove", !.to = Zero, !.seen = FALSE]
    <3>1. fr \in Frame /\ fr.snap = Top.snap /\ fr.act = "remove"
      BY <1>2 DEF Frame
    <3> QED
      BY <2>1, <3>1 DEF StartRemove
  <2>2. CASE EndFacetCut
    <3> DEFINE fr == [Top EXCEPT !.act = "none", !.to = Zero, !.sp = 0, !.seen = FALSE]
    <3>1. fr \in Frame /\ fr.snap = Top.snap /\ fr.act = "none"
      BY <1>2 DEF Frame
    <3> QED
      BY <2>2, <3>1 DEF EndFacetCut
  <2>3. CASE \E init \in Address : DelegateInit(init)
    BY <1>2, <2>3 DEF DelegateInit, Frame
  <2> QED
    BY <2>1, <2>2, <2>3
<1>4. PendingOf(Top) = {}
  BY <1>2 DEF PendingOf, LocalsFit, StartRemove, EndFacetCut, DelegateInit, Applying
<1>5. PendingOf(fr) = {} /\ LocalsFit(fr, store')
  BY <1>1, <1>2, <1>3 DEF PendingOf, LocalsFit
<1> QED
  BY <1>1, <1>2, <1>3, <1>4, <1>5, SetTopKeepsInv

\* What an Add or a Replace knows when it comes to its next selector.
LEMMA AddingFacts ==
  ASSUME Inv, Applying("add") \/ Applying("replace")
  PROVE  /\ frames # <<>> /\ Top \in Frame /\ Top.phase = "cut" /\ Top.act \in {"add", "replace"}
         /\ ~store.frozen
         /\ Good(store, PendingOf(Top)) /\ PendingOf(Top) \in SUBSET {Top.to}
         /\ Top.to \in HasCode /\ Top.to \in Address /\ Top.to # Zero
         /\ Top.sp = Len(store.sels[Top.to])
         /\ store.sels[Top.to] = <<>> => Top.to \in PendingOf(Top)
         /\ store \in Storage
<1>1. /\ frames # <<>> /\ Top \in Frame /\ Top.phase = "cut" /\ Top.act \in {"add", "replace"}
      /\ Good(store, PendingOf(Top)) /\ LocalsFit(Top, store)
  BY TopFacts DEF Applying, Cutting
<1>2. /\ Top.to \in HasCode /\ Top.to \in Address /\ Top.to # Zero /\ ~store.frozen
      /\ Top.sp = Len(store.sels[Top.to]) /\ (Top.seen => Top.sp # 0)
  BY <1>1, DiamondAssumption DEF LocalsFit
<1>3. Len(<<>>) = 0
  BY EmptySeq
<1>4. PendingOf(Top) \in SUBSET {Top.to}
  BY DEF PendingOf
<1>5. store.sels[Top.to] = <<>> => Top.to \in PendingOf(Top)
  BY <1>1, <1>2, <1>3 DEF PendingOf
<1> QED
  BY <1>1, <1>2, <1>4, <1>5 DEF Good

LEMMA StartAddOrReplaceKeepsInv ==
  ASSUME Inv, NEW act \in {"add", "replace"}, NEW f \in Address, StartAddOrReplace(act, f)
  PROVE  Inv'
<1> DEFINE sp == Len(store.sels[f])
           fr == [Top EXCEPT !.act = act, !.to = f, !.sp = sp, !.seen = FALSE]
<1>1. frames # <<>> /\ Top.phase = "cut" /\ Top.act = "none"
  BY DEF StartAddOrReplace, Applying, Cutting
<1>2. Top \in Frame /\ Good(store, {}) /\ ~store.frozen
  BY <1>1, TopFacts, QuietGood DEF LocalsFit
<1>3. store.sels[f] \in Seq(Selector)
  BY <1>2 DEF Good, Storage
<1>4. sp \in Nat /\ (sp = 0 <=> store.sels[f] = <<>>)
  BY <1>3, EmptySeq, LenProperties
<1>5. /\ sp = 0 => f \in HasCode
      /\ store' = IF sp = 0 THEN AddFacet(store, f) ELSE store
      /\ SetTop(fr)
  BY DEF StartAddOrReplace
<1>6. f \in HasCode
  BY <1>2, <1>4, <1>5 DEF Good, ServersHaveCode
<1>7. /\ fr \in Frame /\ fr.snap = Top.snap /\ fr.phase = "cut"
      /\ fr.act = act /\ fr.to = f /\ fr.sp = sp /\ fr.seen = FALSE
  BY <1>1, <1>2, <1>4 DEF Frame
<1>8. PendingOf(fr) = IF sp = 0 THEN {f} ELSE {}
  BY <1>7 DEF PendingOf
<1>9. Good(store', PendingOf(fr)) /\ store'.sels[f] = store.sels[f] /\ store'.frozen = store.frozen
  BY <1>2, <1>4, <1>5, <1>8, AddFacetGood
<1>10. LocalsFit(fr, store')
  BY <1>2, <1>6, <1>7, <1>9 DEF LocalsFit
<1> HIDE DEF fr
<1> QED
  BY <1>1, <1>5, <1>7, <1>9, <1>10, SetTopKeepsInv

\* An Add or a Replace has appended its selector: the local __sp follows.
LEMMA SelectorAddedKeepsInv ==
  ASSUME Inv, Applying("add") \/ Applying("replace"),
         Good(store', {}), store'.frozen = store.frozen,
         Len(store'.sels[Top.to]) = Top.sp + 1,
         SetTop([Top EXCEPT !.sp = Top.sp + 1, !.seen = TRUE])
  PROVE  Inv'
<1> DEFINE fr == [Top EXCEPT !.sp = Top.sp + 1, !.seen = TRUE]
<1>1. frames # <<>> /\ Top \in Frame /\ Top.to \in HasCode /\ ~store.frozen
  BY AddingFacts
<1>2. Top.sp + 1 \in Nat /\ Top.sp + 1 # 0
  <2>1. Top.sp \in Nat
    BY <1>1 DEF Frame
  <2> QED
    BY <2>1
<1>3. /\ fr \in Frame /\ fr.snap = Top.snap /\ fr.to = Top.to
      /\ fr.sp = Top.sp + 1 /\ fr.seen = TRUE
  BY <1>1, <1>2 DEF Frame
<1>4. PendingOf(fr) = {} /\ LocalsFit(fr, store')
  BY <1>1, <1>2, <1>3 DEF PendingOf, LocalsFit
<1> HIDE DEF fr
<1> QED
  BY <1>1, <1>3, <1>4, SetTopKeepsInv DEF fr

LEMMA AddSelectorKeepsInv ==
  ASSUME Inv, NEW s \in Selector, AddSelector(s)
  PROVE  Inv' /\ store'.facet = [store.facet EXCEPT ![s] = Top.to] /\ store'.frozen = store.frozen
<1>1. Applying("add") /\ store.facet[s] = Zero
      /\ store' = AddFunction(store, s, Top.sp, Top.to)
      /\ SetTop([Top EXCEPT !.sp = Top.sp + 1, !.seen = TRUE])
  BY DEF AddSelector
<1>2. /\ Good(store, PendingOf(Top)) /\ PendingOf(Top) \in SUBSET {Top.to}
      /\ Top.to \in HasCode /\ Top.sp = Len(store.sels[Top.to])
      /\ store.sels[Top.to] = <<>> => Top.to \in PendingOf(Top)
  BY <1>1, AddingFacts
<1>3. /\ Good(store', {})
      /\ store'.facet = [store.facet EXCEPT ![s] = Top.to]
      /\ store'.frozen = store.frozen
      /\ Len(store'.sels[Top.to]) = Top.sp + 1
  <2>1. FunctionAdded(store, s, Top.to, store')
    BY <1>1, <1>2, AddFunctionGood
  <2> QED
    BY <1>2, <2>1 DEF FunctionAdded
<1> QED
  BY <1>1, <1>3, SelectorAddedKeepsInv

LEMMA ReplaceSelectorKeepsInv ==
  ASSUME Inv, NEW s \in Selector, ReplaceSelector(s)
  PROVE  Inv' /\ store'.facet = [store.facet EXCEPT ![s] = Top.to] /\ store'.frozen = store.frozen
<1> DEFINE old == store.facet[s]
           cut == RemoveFunction(store, old, s)
<1>1. Applying("replace") /\ old \notin {Top.to, Zero, Self}
      /\ store' = AddFunction(cut, s, Top.sp, Top.to)
      /\ SetTop([Top EXCEPT !.sp = Top.sp + 1, !.seen = TRUE])
  BY DEF ReplaceSelector
<1>2. /\ Good(store, PendingOf(Top)) /\ PendingOf(Top) \in SUBSET {Top.to}
      /\ Top.to \in HasCode /\ Top.to \in Address /\ Top.sp = Len(store.sels[Top.to])
      /\ store.sels[Top.to] = <<>> => Top.to \in PendingOf(Top)
      /\ store \in Storage
  BY <1>1, AddingFacts
<1>3. old \in Address /\ old \notin PendingOf(Top) /\ PendingOf(Top) \in SUBSET Address
      /\ store.facet \in [Selector -> Facet]
  BY <1>1, <1>2 DEF Storage
<1> HIDE DEF cut
<1>4. /\ Good(cut, PendingOf(Top))
      /\ cut.facet = [store.facet EXCEPT ![s] = Zero]
      /\ cut.frozen = store.frozen
      /\ \A g \in Address : g # old => cut.sels[g] = store.sels[g]
  BY <1>2, <1>3, RemoveFunctionGood DEF cut
<1>5. cut.sels[Top.to] = store.sels[Top.to] /\ cut.facet[s] = Zero
  BY <1>1, <1>2, <1>3, <1>4
<1>6. /\ Good(store', {})
      /\ store'.facet = [cut.facet EXCEPT ![s] = Top.to]
      /\ store'.frozen = cut.frozen
      /\ Len(store'.sels[Top.to]) = Top.sp + 1
  <2>1. store' = AddFunction(cut, s, Len(cut.sels[Top.to]), Top.to)
    BY <1>1, <1>2, <1>5
  <2>2. cut.sels[Top.to] = <<>> => Top.to \in PendingOf(Top)
    BY <1>2, <1>5
  <2>3. FunctionAdded(cut, s, Top.to, store')
    BY <1>2, <1>4, <1>5, <2>1, <2>2, AddFunctionGood
  <2> QED
    BY <1>2, <1>5, <2>3 DEF FunctionAdded
<1>7. Inv'
  BY <1>1, <1>4, <1>6, SelectorAddedKeepsInv
<1> QED
  BY <1>3, <1>4, <1>6, <1>7

LEMMA RemoveSelectorKeepsInv ==
  ASSUME Inv, NEW s \in Selector, RemoveSelector(s)
  PROVE  Inv' /\ store'.facet = [store.facet EXCEPT ![s] = Zero] /\ store'.frozen = store.frozen
<1> DEFINE old == store.facet[s]
           fr == [Top EXCEPT !.seen = TRUE]
<1>1. /\ frames # <<>> /\ Top.phase = "cut" /\ Top.act = "remove" /\ old \notin {Zero, Self}
      /\ store' = RemoveFunction(store, old, s) /\ SetTop(fr)
  BY DEF RemoveSelector, Applying, Cutting
<1>2. Top \in Frame /\ Good(store, {}) /\ ~store.frozen
  BY <1>1, TopFacts DEF PendingOf, LocalsFit
<1>3. old \in Address
  BY <1>1, <1>2 DEF Good, Storage
<1>4. /\ Good(store', {})
      /\ store'.facet = [store.facet EXCEPT ![s] = Zero]
      /\ store'.frozen = store.frozen
  BY <1>1, <1>2, <1>3, RemoveFunctionGood
<1>5. fr \in Frame /\ fr.snap = Top.snap /\ fr.act = "remove"
  BY <1>1, <1>2 DEF Frame
<1>6. PendingOf(fr) = {} /\ LocalsFit(fr, store')
  BY <1>2, <1>4, <1>5 DEF PendingOf, LocalsFit
<1> HIDE DEF fr
<1> QED
  BY <1>1, <1>4, <1>5, <1>6, SetTopKeepsInv

\* The invariant is inductive.
THEOREM NextInv == Inv /\ [Next]_vars => Inv'
<1> SUFFICES ASSUME Inv, [Next]_vars PROVE Inv'
  OBVIOUS
<1>1. CASE UNCHANGED vars
  BY <1>1 DEF vars, Inv, Top
<1>2. CASE \E sender \in Address :
             \/ \E newOwner \in Facet : TransferOwnership(sender, newOwner)
             \/ FreezeDiamond(sender)
             \/ \E s \in Selector : Route(sender, s)
             \/ DiamondCut(sender)
  BY <1>2, CallsKeepInv
<1>3. CASE \E act \in {"add", "replace"}, f \in Address : StartAddOrReplace(act, f)
  BY <1>3, StartAddOrReplaceKeepsInv
<1>4. CASE \E s \in Selector : AddSelector(s) \/ ReplaceSelector(s) \/ RemoveSelector(s)
  BY <1>4, AddSelectorKeepsInv, ReplaceSelectorKeepsInv, RemoveSelectorKeepsInv
<1>5. CASE StartRemove \/ EndFacetCut \/ \E init \in Address : DelegateInit(init)
  BY <1>5, QuietStepsKeepInv
<1>6. CASE FinishCut \/ ExtReturns \/ CallReverts
  BY <1>6, EndsKeepInv
<1> QED
  BY <1>1, <1>2, <1>3, <1>4, <1>5, <1>6 DEF Next

THEOREM SpecInv == Spec => []Inv
  BY InitInv, NextInv, PTL DEF Spec

\* Every reachable storage and call stack is well typed.
THEOREM SpecTypeOK == Spec => []TypeOK
<1>1. Inv => TypeOK
  BY DEF Inv, TypeOK, Good
<1> QED
  BY <1>1, SpecInv, PTL

\* The selector index and the selector arrays are inverse of one another in every
\* reachable image of the storage.
THEOREM SpecSelectorsIndexed == Spec => []SelectorsIndexed
<1>1. Inv => SelectorsIndexed
  BY DEF Inv, SelectorsIndexed, Good
<1> QED
  BY <1>1, SpecInv, PTL

\* facetAddresses() never holds a stale or a doubled address.
THEOREM SpecNoStaleFacet == Spec => []NoStaleFacet
<1>1. Inv => NoStaleFacet
  <2> SUFFICES ASSUME Inv PROVE NoStaleFacet
    OBVIOUS
  <2>1. Pending = IF frames = <<>> THEN {} ELSE PendingOf(Top)
    BY DEF Pending, PendingOf, Cutting
  <2> QED
    BY <2>1 DEF Inv, NoStaleFacet, Good
<1> QED
  BY <1>1, SpecInv, PTL

\* Removed selectors and dropped facets leave no position behind.
THEOREM SpecNoResidue == Spec => []NoResidue
<1>1. Inv => NoResidue
  BY DEF Inv, NoResidue, Good
<1> QED
  BY <1>1, SpecInv, PTL

LEMMA GoodRoutes ==
  ASSUME NEW d, NEW pending, Good(d, pending)
  PROVE  d.facet \in [Selector -> HasCode \union {Zero}]
<1>1. d \in Storage /\ Indexed(d) /\ ServersHaveCode(d)
  BY DEF Good
<1> SUFFICES ASSUME NEW s \in Selector, d.facet[s] # Zero
             PROVE  d.facet[s] \in HasCode
  BY <1>1 DEF Storage
<1>2. d.facet[s] \in Address /\ d.pos[s] \in Nat /\ d.pos[s] < Len(d.sels[d.facet[s]])
  BY <1>1 DEF Indexed, Storage
<1>3. d.sels[d.facet[s]] # <<>>
  BY <1>2, EmptySeq
<1> QED
  BY <1>1, <1>2, <1>3 DEF ServersHaveCode

\* No selector is ever routed to an address without code.
THEOREM SpecRoutedFacetsHaveCode == Spec => []RoutedFacetsHaveCode
<1>1. Inv => RoutedFacetsHaveCode
  BY GoodRoutes DEF Inv, RoutedFacetsHaveCode
<1> QED
  BY <1>1, SpecInv, PTL

\* The local __sp of Add and Replace is the length of the facet's array.
THEOREM SpecPositionTracksLength == Spec => []PositionTracksLength
<1>1. Inv => PositionTracksLength
  BY DEF Inv, PositionTracksLength, LocalsFit, Cutting
<1> QED
  BY <1>1, SpecInv, PTL

\* In every reachable state the five storage fields are one table.
THEOREM SpecIndexesConsistent == Spec => []IndexesConsistent
  BY SpecTypeOK, SpecSelectorsIndexed, SpecNoStaleFacet, SpecNoResidue,
     SpecRoutedFacetsHaveCode, SpecPositionTracksLength, PTL DEF IndexesConsistent

--------------------------------------------------------------------------------
(* The loupe. *)

\* In a consistent image with nothing pending, an entry of facets() that shows the
\* selector s stands at the place that the index has for s.
LEMMA EntryIsIndexed ==
  ASSUME NEW d, Good(d, {}), NEW s \in Selector,
         NEW i \in DOMAIN d.addrs, NEW j \in DOMAIN d.sels[d.addrs[i]],
         d.sels[d.addrs[i]][j] = s
  PROVE  /\ d.facet[s] = d.addrs[i] /\ d.addrs[i] # Zero
         /\ i = d.facetPos[d.facet[s]] + 1
         /\ j = d.pos[s] + 1
<1>1. d \in Storage /\ Indexed(d) /\ FacetsIndexed(d, {})
  BY DEF Good
<1>2. d.addrs \in Seq(Address) /\ d.sels \in [Address -> Seq(Selector)]
  BY <1>1 DEF Storage
<1>3. d.addrs[i] \in Address /\ i \in Int
  BY <1>2, ElementOfSeq, LenProperties
<1>4. j \in Int
  BY <1>2, <1>3, LenProperties
<1>5. d.facet[s] = d.addrs[i] /\ d.pos[s] = j - 1
  BY <1>1, <1>3 DEF Indexed
<1>6. d.facetPos[d.addrs[i]] = i - 1
  BY <1>1 DEF FacetsIndexed
<1> QED
  BY <1>3, <1>4, <1>5, <1>6, DiamondAssumption

\* A routed selector has that entry.
LEMMA RoutedHasEntry ==
  ASSUME NEW d, Good(d, {}), NEW s \in Selector, d.facet[s] # Zero
  PROVE  \E i \in DOMAIN d.addrs :
           \E j \in DOMAIN d.sels[d.addrs[i]] : d.sels[d.addrs[i]][j] = s
<1> DEFINE f == d.facet[s]
           j == d.pos[s] + 1
<1>1. d \in Storage /\ Indexed(d) /\ FacetsIndexed(d, {})
  BY DEF Good
<1>2. f \in Address /\ d.pos[s] \in Nat /\ d.sels[f] \in Seq(Selector)
  BY <1>1 DEF Storage
<1>3. d.pos[s] < Len(d.sels[f]) /\ d.sels[f][j] = s
  BY <1>1 DEF Indexed
<1>4. j \in DOMAIN d.sels[f] /\ d.sels[f] # <<>>
  BY <1>2, <1>3, LenProperties, EmptySeq
<1>5. PICK i \in DOMAIN d.addrs : d.addrs[i] = f
  BY <1>1, <1>2, <1>4 DEF FacetsIndexed, Listed
<1> QED
  BY <1>3, <1>4, <1>5

\* Whenever another contract can ask, facets() shows each routed selector exactly once,
\* under the facet that the router would delegatecall, and no other selector.
THEOREM SpecLoupeMatchesRouter == Spec => []LoupeMatchesRouter
<1>1. ASSUME Inv, ~Cutting, NEW s \in Selector,
             NEW reported,
             reported = UNION {{i} \X DOMAIN facets[i].functionSelectors : i \in DOMAIN facets},
             NEW entries,
             entries = {e \in reported : facets[e[1]].functionSelectors[e[2]] = s}
      PROVE  IF store.facet[s] = Zero THEN entries = {}
             ELSE \E e \in entries :
                    entries = {e} /\ facets[e[1]].facetAddress = store.facet[s]
  <2>1. Good(store, {})
    <3>1. frames # <<>> => Top \in Frame /\ Top.phase # "cut"
      BY <1>1, TopFacts DEF Cutting
    <3>2. frames # <<>> => Top.phase = "ext"
      BY <3>1 DEF Frame
    <3> QED
      BY <1>1, <3>2, QuietGood
  <2>2. /\ DOMAIN facets = DOMAIN store.addrs
        /\ \A i \in DOMAIN facets :
             /\ facets[i].facetAddress = store.addrs[i]
             /\ facets[i].functionSelectors = store.sels[store.addrs[i]]
    BY DEF facets
  <2> DEFINE IsEntry(i, j) ==
               i \in DOMAIN store.addrs /\ j \in DOMAIN store.sels[store.addrs[i]]
               /\ store.sels[store.addrs[i]][j] = s
  <2>3. ASSUME NEW e \in entries
        PROVE  e = <<e[1], e[2]>> /\ IsEntry(e[1], e[2])
    BY <1>1, <2>2, <2>3
  <2>4. ASSUME NEW i, NEW j, IsEntry(i, j)
        PROVE  <<i, j>> \in entries
    <3>1. <<i, j>> \in reported
      BY <1>1, <2>2, <2>4
    <3> QED
      BY <1>1, <2>2, <2>4, <3>1
  <2>5. CASE store.facet[s] = Zero
    <3>1. \A i, j : ~IsEntry(i, j)
      BY <2>1, <2>5, EntryIsIndexed
    <3> QED
      BY <2>3, <2>5, <3>1
  <2>6. CASE store.facet[s] # Zero
    <3>1. PICK i, j : IsEntry(i, j)
      BY <2>1, <2>6, RoutedHasEntry
    <3>2. \A k, l : IsEntry(k, l) => k = i /\ l = j
      BY <2>1, <3>1, EntryIsIndexed
    <3>3. entries = {<<i, j>>}
      BY <2>3, <2>4, <3>1, <3>2
    <3>4. facets[i].facetAddress = store.facet[s]
      BY <2>1, <2>2, <3>1, EntryIsIndexed
    <3> QED
      BY <2>6, <3>3, <3>4
  <2> QED
    BY <2>5, <2>6
<1>2. Inv => LoupeMatchesRouter
  BY <1>1 DEF LoupeMatchesRouter
<1> QED
  BY <1>2, SpecInv, PTL

--------------------------------------------------------------------------------
(* The array model implements the abstract registry. *)

Image(d) == [route |-> d.facet, frozen |-> d.frozen]
UndoOf(fs) == [i \in DOMAIN fs |-> Image(fs[i].snap)]

LEMMA UndoSeq ==
  ASSUME NEW fs \in Seq(Frame), \A i \in DOMAIN fs : Good(fs[i].snap, {})
  PROVE  /\ UndoOf(fs) \in Seq(Registry!Image)
         /\ Len(UndoOf(fs)) = Len(fs)
         /\ \A i \in 1..Len(fs) : UndoOf(fs)[i] = Image(fs[i].snap)
<1>1. Len(fs) \in Nat /\ DOMAIN fs = 1..Len(fs)
  BY LenProperties
<1>2. \A i \in DOMAIN fs : Image(fs[i].snap) \in Registry!Image
  BY GoodRoutes DEF Image, Registry!Image, Good, Storage
<1>3. UndoOf(fs) \in [1..Len(fs) -> Registry!Image]
  BY <1>1, <1>2 DEF UndoOf
<1> QED
  BY <1>1, <1>3, SeqDef DEF UndoOf

\* Appending a frame appends its image.
LEMMA UndoPush ==
  ASSUME NEW fs \in Seq(Frame), \A i \in DOMAIN fs : Good(fs[i].snap, {}),
         NEW fr \in Frame, Good(fr.snap, {})
  PROVE  UndoOf(Append(fs, fr)) = Append(UndoOf(fs), Image(fr.snap))
<1> DEFINE gs == Append(fs, fr)
           n == Len(fs)
           us == UndoOf(fs)
           vs == Append(us, Image(fr.snap))
<1>1. n \in Nat /\ DOMAIN fs = 1..n
  BY LenProperties
<1>2. /\ gs \in Seq(Frame) /\ Len(gs) = n + 1 /\ DOMAIN gs = 1..(n + 1)
      /\ gs[n + 1] = fr /\ \A i \in 1..n : gs[i] = fs[i]
  BY AppendProperties, LenProperties
<1>3. /\ us \in Seq(Registry!Image) /\ Len(us) = n
      /\ \A i \in 1..n : us[i] = Image(fs[i].snap)
  BY UndoSeq
<1>4. Image(fr.snap) \in Registry!Image
  BY GoodRoutes DEF Image, Registry!Image, Good, Storage
<1> HIDE DEF gs, us, n
<1>5. /\ vs \in Seq(Registry!Image) /\ Len(vs) = n + 1
      /\ vs[n + 1] = Image(fr.snap) /\ \A i \in 1..n : vs[i] = us[i]
  BY <1>3, <1>4, AppendProperties
<1>6. \A i \in 1..(n + 1) : i \in 1..n \/ i = n + 1
  BY <1>1
<1>7. \A i \in DOMAIN gs : Good(gs[i].snap, {})
  BY <1>1, <1>2, <1>6
<1>8. /\ UndoOf(gs) \in Seq(Registry!Image) /\ Len(UndoOf(gs)) = n + 1
      /\ \A i \in 1..(n + 1) : UndoOf(gs)[i] = Image(gs[i].snap)
  BY <1>2, <1>7, UndoSeq
<1> HIDE DEF vs
<1>9. \A i \in 1..(n + 1) : UndoOf(gs)[i] = vs[i]
  BY <1>2, <1>3, <1>5, <1>6, <1>8
<1>10. UndoOf(gs) = vs
  BY <1>5, <1>8, <1>9, SeqEqual
<1> QED
  BY <1>10 DEF gs, vs, us

\* Popping a frame pops its image.
LEMMA UndoPop ==
  ASSUME NEW fs \in Seq(Frame), fs # <<>>, \A i \in DOMAIN fs : Good(fs[i].snap, {})
  PROVE  /\ UndoOf(Pop(fs)) = Registry!Pop(UndoOf(fs))
         /\ UndoOf(fs) # <<>>
         /\ UndoOf(fs)[Len(UndoOf(fs))] = Image(fs[Len(fs)].snap)
<1> DEFINE gs == Pop(fs)
           n == Len(fs)
           us == UndoOf(fs)
           vs == Pop(us)
<1>1. n \in Nat \ {0} /\ DOMAIN fs = 1..n
  BY LenProperties, EmptySeq
<1>2. /\ gs \in Seq(Frame) /\ Len(gs) = n - 1 /\ DOMAIN gs = 1..(n - 1)
      /\ \A i \in 1..(n - 1) : gs[i] = fs[i]
  BY PopFacts, LenProperties
<1>3. /\ us \in Seq(Registry!Image) /\ Len(us) = n
      /\ \A i \in 1..n : us[i] = Image(fs[i].snap)
  BY UndoSeq
<1>4. us # <<>> /\ us[n] = Image(fs[n].snap)
  BY <1>1, <1>3, EmptySeq
<1> HIDE DEF gs, us, n
<1>5. /\ vs \in Seq(Registry!Image) /\ Len(vs) = n - 1
      /\ \A i \in 1..(n - 1) : vs[i] = us[i]
  <2>1. /\ vs \in Seq(Registry!Image) /\ Len(vs) = Len(us) - 1
        /\ \A i \in 1..(Len(us) - 1) : vs[i] = us[i]
    BY <1>3, <1>4, PopFacts
  <2> QED
    BY <1>3, <2>1
<1>6. \A i \in 1..(n - 1) : i \in 1..n
  <2>1. n \in Nat
    BY <1>1
  <2> QED
    BY <2>1
<1>7. \A i \in DOMAIN gs : Good(gs[i].snap, {})
  BY <1>1, <1>2, <1>6
<1>8. /\ UndoOf(gs) \in Seq(Registry!Image) /\ Len(UndoOf(gs)) = n - 1
      /\ \A i \in 1..(n - 1) : UndoOf(gs)[i] = Image(gs[i].snap)
  BY <1>2, <1>7, UndoSeq
<1> HIDE DEF vs
<1>9. \A i \in 1..(n - 1) : UndoOf(gs)[i] = vs[i]
  BY <1>2, <1>3, <1>5, <1>6, <1>8
<1>10. UndoOf(gs) = vs
  BY <1>5, <1>8, <1>9, SeqEqual
<1> QED
  BY <1>3, <1>4, <1>10 DEF gs, vs, us, n, Pop, Registry!Pop

\* A step inside the innermost call keeps every image.
LEMMA UndoSet ==
  ASSUME Inv, frames # <<>>, NEW fr \in Frame, fr.snap = Top.snap, SetTop(fr)
  PROVE  UndoOf(frames') = UndoOf(frames)
<1>1. frames \in Seq(Frame) /\ DOMAIN frames = 1..Len(frames) /\ Len(frames) \in DOMAIN frames
  BY EmptySeq, LenProperties DEF Inv
<1>2. DOMAIN frames' = DOMAIN frames /\ \A i \in DOMAIN frames : frames'[i].snap = frames[i].snap
  BY <1>1 DEF SetTop, Top
<1> QED
  BY <1>2 DEF UndoOf

\* A call that starts pushes the image that its revert restores.
LEMMA EnterMaps ==
  ASSUME Inv, Good(store, {}), NEW phase \in {"cut", "ext"}, Enter(phase)
  PROVE  UndoOf(frames') = Append(UndoOf(frames), Image(store)) /\ store' = store
<1> DEFINE fr == [snap |-> store, phase |-> phase, act |-> "none", to |-> Zero, sp |-> 0, seen |-> FALSE]
<1>1. frames' = Append(frames, fr) /\ store' = store
  BY DEF Enter
<1>2. fr \in Frame /\ fr.snap = store
  BY DEF Good, Frame
<1>3. frames \in Seq(Frame) /\ \A i \in DOMAIN frames : Good(frames[i].snap, {})
  BY DEF Inv
<1> HIDE DEF fr
<1>4. UndoOf(Append(frames, fr)) = Append(UndoOf(frames), Image(fr.snap))
  BY <1>2, <1>3, UndoPush
<1> QED
  BY <1>1, <1>2, <1>4

\* One step of the abstract registry, on the mapped variables.
RegistryStep ==
  LET undo  == UndoOf(frames)
      undo2 == UndoOf(frames')
      same  == store'.facet = store.facet /\ store'.frozen = store.frozen
      last  == undo[Len(undo)]
  IN  \/ same /\ undo2 = undo
      \/ same /\ undo2 = Append(undo, Image(store))
      \/ undo # <<>> /\ same /\ undo2 = Registry!Pop(undo)
      \/ undo # <<>> /\ Image(store') = last /\ undo2 = Registry!Pop(undo)
      \/ store'.frozen = TRUE /\ store'.facet = store.facet /\ undo2 = undo
      \/ /\ undo # <<>> /\ ~store.frozen /\ store'.frozen = store.frozen /\ undo2 = undo
         /\ \E s \in Selector :
              \/ \E f \in HasCode :
                   /\ store.facet[s] = Zero \/ store.facet[s] \notin {Zero, Self, f}
                   /\ store'.facet = [store.facet EXCEPT ![s] = f]
              \/ /\ store.facet[s] \notin {Zero, Self}
                 /\ store'.facet = [store.facet EXCEPT ![s] = Zero]

LEMMA RegistryStepIsNext == RegistryStep => [Registry!Next]_(Registry!vars)
<1> SUFFICES ASSUME RegistryStep PROVE [Registry!Next]_(Registry!vars)
  OBVIOUS
<1> DEFINE undo == UndoOf(frames)
           undo2 == UndoOf(frames')
           same == store'.facet = store.facet /\ store'.frozen = store.frozen
<1>1. CASE same /\ undo2 = undo
  BY <1>1 DEF Registry!vars, UndoOf, Image
<1>2. CASE same /\ undo2 = Append(undo, Image(store))
  BY <1>2 DEF Registry!Next, Registry!Enter, UndoOf, Image
<1>3. CASE undo # <<>> /\ same /\ undo2 = Registry!Pop(undo)
  BY <1>3 DEF Registry!Next, Registry!Return, UndoOf, Image
<1>4. CASE undo # <<>> /\ Image(store') = undo[Len(undo)] /\ undo2 = Registry!Pop(undo)
  <2>1. store'.facet = undo[Len(undo)].route /\ store'.frozen = undo[Len(undo)].frozen
    BY <1>4 DEF Image
  <2> QED
    BY <1>4, <2>1 DEF Registry!Next, Registry!Revert, UndoOf, Image
<1>5. CASE store'.frozen = TRUE /\ store'.facet = store.facet /\ undo2 = undo
  BY <1>5 DEF Registry!Next, Registry!Freeze, UndoOf, Image
<1>6. CASE /\ undo # <<>> /\ ~store.frozen /\ store'.frozen = store.frozen /\ undo2 = undo
           /\ \E s \in Selector :
                \/ \E f \in HasCode :
                     /\ store.facet[s] = Zero \/ store.facet[s] \notin {Zero, Self, f}
                     /\ store'.facet = [store.facet EXCEPT ![s] = f]
                \/ /\ store.facet[s] \notin {Zero, Self}
                   /\ store'.facet = [store.facet EXCEPT ![s] = Zero]
  BY <1>6 DEF Registry!Next, Registry!Install, Registry!Reroute, Registry!Uninstall, UndoOf, Image
<1> QED
  BY <1>1, <1>2, <1>3, <1>4, <1>5, <1>6 DEF RegistryStep

\* Every step of the diamond is a step of the registry, or none.
LEMMA StepRefines == Inv /\ [Next]_vars => RegistryStep
<1> SUFFICES ASSUME Inv, [Next]_vars PROVE RegistryStep
  OBVIOUS
<1> DEFINE undo == UndoOf(frames)
           undo2 == UndoOf(frames')
<1>0. ASSUME frames' = frames
      PROVE  undo2 = undo
  BY <1>0
<1>1. ASSUME frames # <<>>, frames' = Pop(frames)
      PROVE  undo # <<>> /\ undo2 = Registry!Pop(undo) /\ undo[Len(undo)] = Image(Top.snap)
  BY <1>1, UndoPop DEF Inv, Top
<1>2. ASSUME NEW phase \in {"cut", "ext"}, frames # <<>> => Top.phase = "ext", Enter(phase)
      PROVE  RegistryStep
  BY <1>2, QuietGood, EnterMaps DEF RegistryStep
<1>3. CASE UNCHANGED vars
  BY <1>3, <1>0 DEF vars, RegistryStep
<1>4. CASE \E sender \in Address :
             \/ \E newOwner \in Facet : TransferOwnership(sender, newOwner)
             \/ FreezeDiamond(sender)
  <2>1. store \in Storage
    BY DEF Inv, Good
  <2>2. /\ frames' = frames /\ store'.facet = store.facet
        /\ store'.frozen = store.frozen \/ store'.frozen = TRUE
    BY <1>4, <2>1 DEF TransferOwnership, FreezeDiamond, Storage
  <2> QED
    BY <1>0, <2>2 DEF RegistryStep
<1>5. CASE \E sender \in Address : (\E s \in Selector : Route(sender, s)) \/ DiamondCut(sender)
  BY <1>5, <1>2 DEF Route, DiamondCut, CanCall
<1>6. ASSUME frames # <<>>, NEW fr \in Frame, fr.snap = Top.snap, SetTop(fr)
      PROVE  undo2 = undo /\ undo # <<>>
  <2>1. undo2 = undo
    BY <1>6, UndoSet
  <2>2. undo # <<>>
    BY <1>6, UndoPop DEF Inv
  <2> QED
    BY <2>1, <2>2
<1>7. CASE \E act \in {"add", "replace"}, f \in Address : StartAddOrReplace(act, f)
  <2>1. PICK act \in {"add", "replace"}, f \in Address : StartAddOrReplace(act, f)
    BY <1>7
  <2> DEFINE fr == [Top EXCEPT !.act = act, !.to = f, !.sp = Len(store.sels[f]), !.seen = FALSE]
  <2>2. frames # <<>> /\ Top \in Frame /\ store \in Storage /\ SetTop(fr)
    BY <2>1, TopFacts DEF StartAddOrReplace, Applying, Cutting, Good
  <2>3. fr \in Frame /\ fr.snap = Top.snap
    BY <2>2, LenProperties DEF Frame, Storage
  <2>4. store'.facet = store.facet /\ store'.frozen = store.frozen
    BY <2>1, <2>2 DEF StartAddOrReplace, AddFacet, Storage
  <2> QED
    BY <1>6, <2>2, <2>3, <2>4 DEF RegistryStep
<1>8. CASE \E s \in Selector : AddSelector(s) \/ ReplaceSelector(s)
  <2>1. PICK s \in Selector : AddSelector(s) \/ ReplaceSelector(s)
    BY <1>8
  <2> DEFINE fr == [Top EXCEPT !.sp = Top.sp + 1, !.seen = TRUE]
  <2>2. Applying("add") \/ Applying("replace")
    BY <2>1 DEF AddSelector, ReplaceSelector
  <2>3. frames # <<>> /\ Top \in Frame /\ Top.to \in HasCode /\ ~store.frozen
    BY <2>2, AddingFacts
  <2>4. SetTop(fr)
    BY <2>1 DEF AddSelector, ReplaceSelector
  <2>5. fr \in Frame /\ fr.snap = Top.snap
    <3>1. Top.sp + 1 \in Nat
      BY <2>3 DEF Frame
    <3> QED
      BY <2>3, <3>1 DEF Frame
  <2>6. undo2 = undo /\ undo # <<>>
    BY <1>6, <2>3, <2>4, <2>5
  <2>7. store'.facet = [store.facet EXCEPT ![s] = Top.to] /\ store'.frozen = store.frozen
    BY <2>1, AddSelectorKeepsInv, ReplaceSelectorKeepsInv
  <2>8. store.facet[s] = Zero \/ store.facet[s] \notin {Zero, Self, Top.to}
    BY <2>1 DEF AddSelector, ReplaceSelector
  <2> QED
    BY <2>3, <2>6, <2>7, <2>8 DEF RegistryStep
<1>9. CASE \E s \in Selector : RemoveSelector(s)
  <2>1. PICK s \in Selector : RemoveSelector(s)
    BY <1>9
  <2> DEFINE fr == [Top EXCEPT !.seen = TRUE]
  <2>2. frames # <<>> /\ Top \in Frame /\ ~store.frozen
    BY <2>1, TopFacts DEF RemoveSelector, Applying, Cutting, LocalsFit
  <2>3. SetTop(fr) /\ store.facet[s] \notin {Zero, Self}
    BY <2>1 DEF RemoveSelector
  <2>4. fr \in Frame /\ fr.snap = Top.snap
    BY <2>2 DEF Frame
  <2>5. undo2 = undo /\ undo # <<>>
    BY <1>6, <2>2, <2>3, <2>4
  <2>6. store'.facet = [store.facet EXCEPT ![s] = Zero] /\ store'.frozen = store.frozen
    BY <2>1, RemoveSelectorKeepsInv
  <2> QED
    BY <2>1, <2>2, <2>3, <2>5, <2>6 DEF RegistryStep
<1>10. CASE StartRemove \/ EndFacetCut \/ \E init \in Address : DelegateInit(init)
  <2>1. frames # <<>> /\ store' = store
    BY <1>10 DEF StartRemove, EndFacetCut, DelegateInit, Applying, Cutting
  <2>2. DOMAIN frames' = DOMAIN frames /\ \A i \in DOMAIN frames : frames'[i].snap = frames[i].snap
    <3>1. Top \in Frame
      BY <2>1, TopFacts
    <3>2. PICK fr : SetTop(fr) /\ fr.snap = Top.snap
      <4>1. CASE StartRemove
        <5> DEFINE fr == [Top EXCEPT !.act = "remove", !.to = Zero, !.seen = FALSE]
        <5>1. fr.snap = Top.snap
          BY <3>1 DEF Frame
        <5> QED
          BY <4>1, <5>1 DEF StartRemove
      <4>2. CASE EndFacetCut
        <5> DEFINE fr == [Top EXCEPT !.act = "none", !.to = Zero, !.sp = 0, !.seen = FALSE]
        <5>1. fr.snap = Top.snap
          BY <3>1 DEF Frame
        <5> QED
          BY <4>2, <5>1 DEF EndFacetCut
      <4>3. CASE \E init \in Address : DelegateInit(init)
        BY <3>1, <4>3 DEF DelegateInit, Frame
      <4> QED
        BY <1>10, <4>1, <4>2, <4>3
    <3> QED
      BY <3>2, LenProperties DEF SetTop, Top, Inv
  <2> QED
    BY <2>1, <2>2 DEF RegistryStep, UndoOf
<1>11. CASE FinishCut \/ ExtReturns
  <2>1. frames # <<>> /\ frames' = Pop(frames) /\ store' = store
    BY <1>11 DEF FinishCut, ExtReturns, Return, Applying, Cutting
  <2> QED
    BY <1>1, <2>1 DEF RegistryStep
<1>12. CASE CallReverts
  <2>1. frames # <<>> /\ frames' = Pop(frames) /\ store' = Top.snap
    BY <1>12 DEF CallReverts, Revert
  <2> QED
    BY <1>1, <2>1 DEF RegistryStep
<1> QED
  BY <1>3, <1>4, <1>5, <1>7, <1>8, <1>9, <1>10, <1>11, <1>12 DEF Next

\* The generated array diamond implements the abstract registry: cuts, freezing,
\* routed calls and reverts included, for any number of selectors and facets.
THEOREM SpecImplementsRegistry == Spec => ImplementsRegistry
<1>1. Init => Registry!Init
  BY DEF Init, Registry!Init
<1>2. Inv /\ [Next]_vars => [Registry!Next]_(Registry!vars)
  BY StepRefines, RegistryStepIsNext
<1> QED
  BY <1>1, <1>2, SpecInv, PTL DEF Spec, ImplementsRegistry, Registry!Spec

--------------------------------------------------------------------------------
(* What a committed diamond promises. *)

\* Image e keeps what image d has fixed: all of it once it is frozen, otherwise the
\* selectors that are routed to the diamond itself.
Keeps(d, e) ==
  /\ d.frozen => e.frozen /\ e.facet = d.facet /\ e.addrs = d.addrs
  /\ \A s \in Selector : d.facet[s] = Self => e.facet[s] = Self

\* The running storage, and every image that a revert can bring back, keep what the
\* storage outside all calls has fixed.
CommittedIsKept ==
  /\ Keeps(Committed, store)
  /\ \A i \in DOMAIN frames : Keeps(Committed, frames[i].snap)

LEMMA KeepsTransitive ==
  ASSUME NEW c, NEW d, NEW e, Keeps(c, d), Keeps(d, e)
  PROVE  Keeps(c, e)
  BY DEF Keeps

\* One selector moves in a diamond that is not frozen: none of those routed to itself.
LEMMA MoveKeeps ==
  ASSUME NEW d, d.facet \in [Selector -> Facet], ~d.frozen,
         NEW s \in Selector, d.facet[s] # Self,
         NEW f, NEW e, e.facet = [d.facet EXCEPT ![s] = f]
  PROVE  Keeps(d, e)
  BY DEF Keeps

\* The steps of diamondCut that write the tables.
LEMMA CutKeeps ==
  ASSUME Inv,
         \/ \E act \in {"add", "replace"}, f \in Address : StartAddOrReplace(act, f)
         \/ \E s \in Selector : AddSelector(s) \/ ReplaceSelector(s) \/ RemoveSelector(s)
  PROVE  Keeps(store, store')
<1>1. frames # <<>> /\ Top.phase = "cut"
  BY DEF StartAddOrReplace, AddSelector, ReplaceSelector, RemoveSelector, Applying, Cutting
<1>2. ~store.frozen /\ store \in Storage
  BY <1>1, TopFacts DEF LocalsFit, Good
<1>3. store.facet \in [Selector -> Facet] /\ Self # Zero
  BY <1>2, DiamondAssumption DEF Storage
<1>4. CASE \E act \in {"add", "replace"}, f \in Address : StartAddOrReplace(act, f)
  <2>1. store'.facet = store.facet
    BY <1>2, <1>4 DEF StartAddOrReplace, AddFacet, Storage
  <2> QED
    BY <1>2, <2>1 DEF Keeps
<1>5. ASSUME NEW s \in Selector, AddSelector(s) \/ ReplaceSelector(s) \/ RemoveSelector(s)
      PROVE  Keeps(store, store')
  <2>1. store.facet[s] # Self
    BY <1>3, <1>5 DEF AddSelector, ReplaceSelector, RemoveSelector
  <2>2. \E f : store'.facet = [store.facet EXCEPT ![s] = f]
    BY <1>5, AddSelectorKeepsInv, ReplaceSelectorKeepsInv, RemoveSelectorKeepsInv
  <2> QED
    BY <1>2, <1>3, <2>1, <2>2, MoveKeeps
<1> QED
  BY <1>4, <1>5

\* Every step but a revert keeps what the storage before it has fixed.
LEMMA StepKeeps ==
  ASSUME Inv, [Next]_vars
  PROVE  \/ Keeps(store, store')
         \/ frames # <<>> /\ store' = Top.snap /\ frames' = Pop(frames)
<1>1. CASE \/ \E act \in {"add", "replace"}, f \in Address : StartAddOrReplace(act, f)
           \/ \E s \in Selector : AddSelector(s) \/ ReplaceSelector(s) \/ RemoveSelector(s)
  BY <1>1, CutKeeps
<1>2. CASE \E sender \in Address :
             \/ \E newOwner \in Facet : TransferOwnership(sender, newOwner)
             \/ FreezeDiamond(sender)
  <2>1. store \in Storage
    BY DEF Inv, Good
  <2>2. /\ store'.facet = store.facet /\ store'.addrs = store.addrs
        /\ store.frozen => store'.frozen
    BY <1>2, <2>1 DEF TransferOwnership, FreezeDiamond, Storage
  <2> QED
    BY <2>2 DEF Keeps
<1>3. CASE store' = store
  BY <1>3 DEF Keeps
<1>4. CASE CallReverts
  BY <1>4 DEF CallReverts, Revert
<1> QED
  BY <1>1, <1>2, <1>3, <1>4
     DEF Next, vars, Route, DiamondCut, Enter, StartRemove, EndFacetCut, FinishCut, DelegateInit,
         ExtReturns, Return

\* What a step does to the stack of calls.
StackKept ==
  Len(frames') = Len(frames) /\ \A i \in 1..Len(frames) : frames'[i].snap = frames[i].snap

StackPushed ==
  /\ Len(frames') = Len(frames) + 1
  /\ \A i \in 1..Len(frames) : frames'[i].snap = frames[i].snap
  /\ frames'[Len(frames')].snap = store
  /\ store' = store

StackPopped ==
  /\ frames # <<>> /\ Len(frames') = Len(frames) - 1
  /\ \A i \in 1..Len(frames') : frames'[i].snap = frames[i].snap
  /\ store' \in {store, Top.snap}

\* Steps inside the innermost call leave its image alone.
LEMMA SetTopKeepsStack ==
  ASSUME Inv, [Next]_vars, frames # <<>>, NEW fr, fr.snap = Top.snap, SetTop(fr)
  PROVE  StackKept
<1> DEFINE m == Len(frames')
           n == Len(frames)
<1>1. frames \in Seq(Frame) /\ n \in Nat /\ DOMAIN frames = 1..n /\ n \in 1..n
  BY LenProperties, EmptySeq DEF Inv
<1>2. frames' \in Seq(Frame) /\ m \in Nat /\ DOMAIN frames' = 1..m
  BY NextInv, LenProperties DEF Inv
<1>3. DOMAIN frames' = DOMAIN frames /\ \A i \in DOMAIN frames : frames'[i].snap = frames[i].snap
  BY <1>1 DEF SetTop, Top
<1>4. m = n
  <2> HIDE DEF m, n
  <2> QED
    BY <1>1, <1>2, <1>3
<1> QED
  BY <1>1, <1>3, <1>4 DEF StackKept

LEMMA StepStack ==
  ASSUME Inv, [Next]_vars
  PROVE  StackKept \/ StackPushed \/ StackPopped
<1>1. frames \in Seq(Frame) /\ Len(frames) \in Nat
  BY LenProperties DEF Inv
<1>2. frames # <<>> => Top \in Frame
  BY TopFacts
<1>3. CASE frames' = frames
  BY <1>3 DEF StackKept
<1>4. ASSUME NEW phase \in {"cut", "ext"}, Enter(phase), store \in Storage
      PROVE  StackPushed
  <2> DEFINE fr == [snap |-> store, phase |-> phase, act |-> "none", to |-> Zero, sp |-> 0, seen |-> FALSE]
  <2>1. fr \in Frame /\ fr.snap = store
    BY <1>4 DEF Frame
  <2>2. frames' = Append(frames, fr) /\ store' = store
    BY <1>4 DEF Enter
  <2> HIDE DEF fr
  <2> QED
    BY <1>1, <2>1, <2>2, AppendProperties DEF StackPushed
<1>5. CASE FinishCut \/ ExtReturns \/ CallReverts
  <2>1. frames # <<>> /\ frames' = Pop(frames) /\ store' \in {store, Top.snap}
    BY <1>5 DEF FinishCut, ExtReturns, CallReverts, Return, Revert, Applying, Cutting
  <2> QED
    BY <1>1, <2>1, PopFacts DEF StackPopped
<1>6. ASSUME NEW fr, frames # <<>>, SetTop(fr), fr.snap = Top.snap
      PROVE  StackKept
  BY <1>6, SetTopKeepsStack
<1>7. CASE StartRemove \/ EndFacetCut \/ \E init \in Address : DelegateInit(init)
  <2>1. frames # <<>>
    BY <1>7 DEF StartRemove, EndFacetCut, DelegateInit, Applying, Cutting
  <2>2. CASE StartRemove
    BY <1>2, <1>6, <2>1, <2>2 DEF StartRemove, Frame
  <2>3. CASE EndFacetCut
    BY <1>2, <1>6, <2>1, <2>3 DEF EndFacetCut, Frame
  <2>4. CASE \E init \in Address : DelegateInit(init)
    BY <1>2, <1>6, <2>1, <2>4 DEF DelegateInit, Frame
  <2> QED
    BY <1>7, <2>2, <2>3, <2>4
<1>8. CASE \/ \E act \in {"add", "replace"}, f \in Address : StartAddOrReplace(act, f)
           \/ \E s \in Selector : AddSelector(s) \/ ReplaceSelector(s) \/ RemoveSelector(s)
  <2>1. frames # <<>> /\ Top \in Frame
    BY <1>2, <1>8
       DEF StartAddOrReplace, AddSelector, ReplaceSelector, RemoveSelector, Applying, Cutting
  <2>2. CASE \E act \in {"add", "replace"}, f \in Address : StartAddOrReplace(act, f)
    <3>1. PICK act, f : SetTop([Top EXCEPT !.act = act, !.to = f, !.sp = Len(store.sels[f]), !.seen = FALSE])
      BY <2>2 DEF StartAddOrReplace
    <3> DEFINE fr == [Top EXCEPT !.act = act, !.to = f, !.sp = Len(store.sels[f]), !.seen = FALSE]
    <3>2. fr.snap = Top.snap
      BY <2>1 DEF Frame
    <3> QED
      BY <1>6, <2>1, <3>1, <3>2
  <2>3. CASE \E s \in Selector : AddSelector(s) \/ ReplaceSelector(s)
    <3> DEFINE fr == [Top EXCEPT !.sp = Top.sp + 1, !.seen = TRUE]
    <3>1. SetTop(fr)
      BY <2>3 DEF AddSelector, ReplaceSelector
    <3>2. fr.snap = Top.snap
      BY <2>1 DEF Frame
    <3> QED
      BY <1>6, <2>1, <3>1, <3>2
  <2>4. CASE \E s \in Selector : RemoveSelector(s)
    <3> DEFINE fr == [Top EXCEPT !.seen = TRUE]
    <3>1. SetTop(fr)
      BY <2>4 DEF RemoveSelector
    <3>2. fr.snap = Top.snap
      BY <2>1 DEF Frame
    <3> QED
      BY <1>6, <2>1, <3>1, <3>2
  <2> QED
    BY <1>8, <2>2, <2>3, <2>4
<1>9. CASE \E sender \in Address :
             \/ \E newOwner \in Facet : TransferOwnership(sender, newOwner)
             \/ FreezeDiamond(sender)
             \/ \E s \in Selector : Route(sender, s)
             \/ DiamondCut(sender)
  <2>1. store \in Storage
    BY DEF Inv, Good
  <2> QED
    BY <1>3, <1>4, <1>9, <2>1 DEF TransferOwnership, FreezeDiamond, Route, DiamondCut
<1> QED
  BY <1>3, <1>5, <1>7, <1>8, <1>9 DEF Next, vars

--------------------------------------------------------------------------------

LEMMA InitCommitted == Init => CommittedIsKept
<1>1. DOMAIN <<>> = {}
  OBVIOUS
<1> QED
  BY <1>1 DEF Init, CommittedIsKept, Committed, Keeps

\* The images of the calls keep what is committed, and what is committed is kept.
LEMMA NextCommitted ==
  ASSUME Inv, CommittedIsKept, [Next]_vars
  PROVE  CommittedIsKept' /\ Keeps(Committed, Committed')
<1> SUFFICES ASSUME NEW n, n = Len(frames), NEW m, m = Len(frames')
             PROVE  CommittedIsKept' /\ Keeps(Committed, Committed')
  OBVIOUS
<1>1. frames \in Seq(Frame) /\ n \in Nat /\ DOMAIN frames = 1..n /\ (frames = <<>> <=> n = 0)
  BY LenProperties, EmptySeq DEF Inv
<1>2. frames' \in Seq(Frame) /\ m \in Nat /\ DOMAIN frames' = 1..m /\ (frames' = <<>> <=> m = 0)
  BY NextInv, LenProperties, EmptySeq DEF Inv
<1>3. Keeps(Committed, store')
  <2>1. CASE Keeps(store, store')
    BY <2>1, KeepsTransitive DEF CommittedIsKept
  <2>2. CASE frames # <<>> /\ store' = Top.snap
    BY <1>1, <2>2 DEF CommittedIsKept, Top
  <2> QED
    BY <2>1, <2>2, StepKeeps
<1>4. \/ m = n /\ \A i \in 1..m : frames'[i].snap = frames[i].snap
      \/ m = n + 1 /\ (\A i \in 1..n : frames'[i].snap = frames[i].snap) /\ frames'[m].snap = store
         /\ store' = store
      \/ n # 0 /\ m = n - 1 /\ \A i \in 1..m : frames'[i].snap = frames[i].snap
  BY <1>1, StepStack DEF StackKept, StackPushed, StackPopped
<1>5. \A i \in 1..m : frames'[i].snap = store \/ (i \in 1..n /\ frames'[i].snap = frames[i].snap)
  BY <1>1, <1>2, <1>4
<1>6. \A i \in 1..m : Keeps(Committed, frames'[i].snap)
  BY <1>1, <1>5 DEF CommittedIsKept
<1>7. Committed' = IF m = 0 THEN store' ELSE frames'[1].snap
  BY <1>2 DEF Committed
<1>8. m # 0 => 1 \in 1..m
  BY <1>2
<1>9. Keeps(Committed, Committed')
  BY <1>3, <1>6, <1>7, <1>8
<1>10. CASE m = 0
  <2>1. Keeps(store', store')
    BY DEF Keeps
  <2>2. DOMAIN frames' = {}
    BY <1>2, <1>10
  <2> QED
    BY <1>7, <1>9, <1>10, <2>1, <2>2 DEF CommittedIsKept
<1>11. CASE m # 0 /\ n # 0
  <2>1. 1 \in 1..n /\ frames'[1].snap = frames[1].snap
    BY <1>1, <1>2, <1>4, <1>11
  <2>2. Committed' = Committed
    BY <1>1, <1>7, <1>11, <2>1 DEF Committed
  <2> QED
    BY <1>2, <1>3, <1>6, <1>9, <2>2 DEF CommittedIsKept
<1>12. CASE m # 0 /\ n = 0
  <2>1. m = 1 /\ frames'[1].snap = store /\ store' = store
    BY <1>1, <1>2, <1>4, <1>12
  <2>2. Committed' = store /\ DOMAIN frames' = {1}
    BY <1>2, <1>7, <2>1
  <2>3. Keeps(store, store)
    BY DEF Keeps
  <2> QED
    BY <1>9, <2>1, <2>2, <2>3 DEF CommittedIsKept
<1> QED
  BY <1>9, <1>10, <1>11, <1>12

THEOREM SpecCommittedIsKept == Spec => []CommittedIsKept
  BY SpecInv, InitCommitted, NextCommitted, PTL DEF Spec

\* Once a frozen diamond is committed nothing thaws or reroutes it, and a selector
\* routed to the diamond itself stays there, whatever calls nest, fail or revert.
THEOREM SpecRoutesKept == Spec => RoutesKept
<1>1. ASSUME Inv, CommittedIsKept, [Next]_vars
      PROVE  /\ Committed.frozen => /\ Committed'.frozen
                                    /\ Committed'.facet = Committed.facet
                                    /\ Committed'.addrs = Committed.addrs
             /\ \A s \in Selector : Committed.facet[s] = Self => Committed'.facet[s] = Self
  BY <1>1, NextCommitted DEF Keeps
<1>2. Spec => FrozenForever
  BY <1>1, SpecInv, SpecCommittedIsKept, PTL DEF Spec, FrozenForever
<1>3. Spec => ImmutableSelectors
  BY <1>1, SpecInv, SpecCommittedIsKept, PTL DEF Spec, ImmutableSelectors
<1> QED
  BY <1>2, <1>3 DEF RoutesKept
================================================================================
