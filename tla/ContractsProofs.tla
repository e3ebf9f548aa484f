---------------------------- MODULE ContractsProofs ----------------------------
(***************************************************************************)
(* What holds of deployed contracts that call one another, for any number  *)
(* of them and any depth of calls: the reentrancy guard, then the proxies. *)
(***************************************************************************)
EXTENDS ReentrancyGuard, Proxies, SequenceTheorems, TLAPS

(***************************************************************************)
(* The guard: mutual exclusion of guarded bodies and the meaning of the    *)
(* guard word.  The two properties are not inductive: a revert brings back *)
(* a word that was saved when the frame started, and that word is right    *)
(* only because the frames below have not moved since.  GuardInv says both.*)
(***************************************************************************)

Holds(i, c) == Inside(i) /\ frames[i].context = c

\* Every frame below the top is in its body: it is waiting for the call it made.
LowerWait == \A i \in 1..(Len(frames) - 1) : frames[i].phase = "body"

\* The words a frame would restore are right for the frames below it.
SnapsRight ==
  \A i \in DOMAIN frames : \A c \in Contract :
    frames[i].snap[c] <=> \E j \in 1..(i - 1) : Holds(j, c)

WordsRight == \A c \in Contract : tslot[c] <=> \E j \in 1..Len(frames) : Holds(j, c)

GuardInv ==
  /\ TypeOK
  /\ LowerWait
  /\ SnapsRight
  /\ WordsRight
  /\ MutualExclusion

--------------------------------------------------------------------------------

(* The three shapes a step gives to the stack of frames. *)

\* Length, domain and elements of a sequence.
LEMMA FramesFacts ==
  ASSUME NEW T, NEW seq \in Seq(T)
  PROVE  /\ Len(seq) \in Nat
         /\ DOMAIN seq = 1..Len(seq)
         /\ \A i \in 1..Len(seq) : seq[i] \in T
         /\ seq # <<>> => Len(seq) \in 1..Len(seq)
<1>1. Len(seq) \in Nat /\ DOMAIN seq = 1..Len(seq)
  BY LenProperties
<1>2. \A i \in 1..Len(seq) : seq[i] \in T
  BY ElementOfSeq
<1>3. seq # <<>> => Len(seq) # 0
  BY EmptySeq
<1> QED
  BY <1>1, <1>2, <1>3

\* Popping keeps everything but the last element.
LEMMA PopFacts ==
  ASSUME NEW T, NEW seq \in Seq(T), seq # <<>>
  PROVE  /\ Pop(seq) \in Seq(T)
         /\ Len(Pop(seq)) = Len(seq) - 1
         /\ \A i \in 1..(Len(seq) - 1) : Pop(seq)[i] = seq[i]
<1> DEFINE n == Len(seq) - 1
           popped == SubSeq(seq, 1, n)
<1>1. n \in Nat
  BY FramesFacts
<1>2. \A i \in 1..n : seq[i] \in T
  BY FramesFacts
<1> HIDE DEF n
<1>3. /\ popped \in Seq(T)
      /\ Len(popped) = IF 1 <= n THEN n - 1 + 1 ELSE 0
      /\ \A i \in 1..(n - 1 + 1) : popped[i] = seq[1 + i - 1]
  BY <1>1, <1>2, SubSeqProperties
<1>4. Pop(seq) = popped
  BY DEF Pop, n
<1> HIDE DEF popped
<1>5. Len(popped) = n /\ \A i \in 1..n : popped[i] = seq[i]
  BY <1>1, <1>3 DEF popped
<1> QED
  BY <1>3, <1>4, <1>5 DEF n

\* Pushing adds one element and keeps the others.
LEMMA PushFacts ==
  ASSUME NEW T, NEW seq \in Seq(T), NEW x \in T
  PROVE  /\ Append(seq, x) \in Seq(T)
         /\ Len(Append(seq, x)) = Len(seq) + 1
         /\ \A i \in 1..Len(seq) : Append(seq, x)[i] = seq[i]
         /\ Append(seq, x)[Len(seq) + 1] = x
  BY AppendProperties

\* Replacing the last element keeps the others.
LEMMA SetFacts ==
  ASSUME NEW T, NEW seq \in Seq(T), seq # <<>>, NEW x \in T
  PROVE  /\ [seq EXCEPT ![Len(seq)] = x] \in Seq(T)
         /\ Len([seq EXCEPT ![Len(seq)] = x]) = Len(seq)
         /\ \A i \in 1..(Len(seq) - 1) : [seq EXCEPT ![Len(seq)] = x][i] = seq[i]
         /\ [seq EXCEPT ![Len(seq)] = x][Len(seq)] = x
<1> DEFINE n == Len(seq)
           set == [seq EXCEPT ![n] = x]
<1>1. n \in 1..n /\ n \in Nat
  BY FramesFacts
<1>2. /\ set \in Seq(T)
      /\ Len(set) = n
      /\ \A i \in 1..n : set[i] = IF i = n THEN x ELSE seq[i]
  BY <1>1, ExceptSeq
<1> HIDE DEF n, set
<1>3. \A i \in 1..(n - 1) : i \in 1..n /\ i # n
  BY <1>1
<1>4. /\ set \in Seq(T) /\ Len(set) = n
      /\ \A i \in 1..(n - 1) : set[i] = seq[i]
      /\ set[n] = x
  BY <1>1, <1>2, <1>3
<1> QED
  BY <1>4 DEF set, n

--------------------------------------------------------------------------------
(* The frames. *)

\* They are numbered 1 to Len(frames), and their fields are typed.
LEMMA Numbered ==
  ASSUME TypeOK
  PROVE  /\ Len(frames) \in Nat
         /\ DOMAIN frames = 1..Len(frames)
         /\ \A i \in 1..Len(frames) : frames[i] \in Frame
         /\ frames # <<>> => /\ Len(frames) \in 1..Len(frames)
                             /\ Len(frames) - 1 \in Nat
                             /\ Top = frames[Len(frames)]
                             /\ Top \in Frame
         /\ frames = <<>> => Len(frames) = 0
<1>1. frames \in Seq(Frame)
  BY DEF TypeOK
<1>2. /\ Len(frames) \in Nat
      /\ DOMAIN frames = 1..Len(frames)
      /\ \A i \in 1..Len(frames) : frames[i] \in Frame
      /\ frames # <<>> => Len(frames) \in 1..Len(frames)
  BY <1>1, FramesFacts
<1>3. frames = <<>> => Len(frames) = 0
  OBVIOUS
<1> QED
  BY <1>2, <1>3 DEF Top

\* What a frame that a step keeps holds, it goes on holding.
LEMMA KeptFrames ==
  ASSUME NEW k \in Nat, \A i \in 1..k : frames'[i] = frames[i]
  PROVE  /\ \A i \in 1..k : Inside(i)' <=> Inside(i)
         /\ \A i \in 1..k : \A c : Holds(i, c)' <=> Holds(i, c)
<1>1. ASSUME NEW i \in 1..k PROVE Inside(i)' <=> Inside(i)
  <2>1. frames'[i] = frames[i]
    OBVIOUS
  <2> QED
    BY <2>1 DEF Inside
<1>2. ASSUME NEW i \in 1..k, NEW c PROVE Holds(i, c)' <=> Holds(i, c)
  <2>1. frames'[i] = frames[i]
    OBVIOUS
  <2> QED
    BY <1>1, <2>1 DEF Holds
<1> QED
  BY <1>1, <1>2

--------------------------------------------------------------------------------
(* The invariant. *)

\* A step that leaves k frames as they were, all in their body, and at most one frame
\* above them.  Every step of the contract has this shape.
LEMMA ShapeInv ==
  ASSUME GuardInv, TypeOK', NEW k \in Nat, k <= Len(frames),
         \A i \in 1..k : frames'[i] = frames[i],
         \A i \in 1..k : frames[i].phase = "body",
         Len(frames') \in {k, k + 1},
         Len(frames') = k + 1 =>
           /\ \A c \in Contract : frames'[k + 1].snap[c] <=> \E j \in 1..k : Holds(j, c)
           /\ Inside(k + 1)' => ~\E j \in 1..k : Holds(j, frames'[k + 1].context),
         \A c \in Contract :
           tslot'[c] <=> \/ \E j \in 1..k : Holds(j, c)
                         \/ Len(frames') = k + 1 /\ Holds(k + 1, c)'
  PROVE  GuardInv'
<1> DEFINE n == Len(frames)
           m == Len(frames')
<1>1. /\ n \in Nat /\ DOMAIN frames = 1..n
      /\ m \in Nat /\ DOMAIN frames' = 1..m
  BY Numbered, FramesFacts DEF GuardInv, TypeOK
<1>2. /\ \A i \in 1..k : Inside(i)' <=> Inside(i)
      /\ \A i \in 1..k : \A c : Holds(i, c)' <=> Holds(i, c)
  BY KeptFrames
<1>0. k <= n /\ (m = k \/ m = k + 1)
  OBVIOUS
<1> HIDE DEF n, m
<1>3. \A i \in 1..k : i \in 1..n /\ i \in 1..m
  BY <1>0, <1>1
<1>4. \A i \in 1..m : i \in 1..k \/ (i = k + 1 /\ m = k + 1)
  BY <1>0
<1>5. m = k + 1 => k + 1 \in 1..m
  BY <1>1
<1>6. LowerWait'
  <2>1. \A i \in 1..(m - 1) : i \in 1..k
    BY <1>0
  <2>2. \A i \in 1..(m - 1) : frames'[i].phase = "body"
    BY <2>1
  <2> QED
    BY <2>2 DEF LowerWait, m
<1>7. WordsRight'
  <2> SUFFICES ASSUME NEW c \in Contract
               PROVE  tslot'[c] <=> \E j \in 1..m : Holds(j, c)'
    BY DEF WordsRight, m
  <2>1. tslot'[c] <=> \/ \E j \in 1..k : Holds(j, c)'
                      \/ m = k + 1 /\ Holds(k + 1, c)'
    BY <1>2 DEF m
  <2> QED
    BY <1>3, <1>4, <1>5, <2>1
<1>8. SnapsRight'
  <2> SUFFICES ASSUME NEW i \in 1..m, NEW c \in Contract
               PROVE  frames'[i].snap[c] <=> \E j \in 1..(i - 1) : Holds(j, c)'
    BY <1>1 DEF SnapsRight
  <2>1. CASE i \in 1..k
    <3>1. frames[i].snap[c] <=> \E j \in 1..(i - 1) : Holds(j, c)
      BY <1>1, <1>3, <2>1 DEF GuardInv, SnapsRight
    <3>2. \A j \in 1..(i - 1) : j \in 1..k
      BY <2>1
    <3>3. frames'[i] = frames[i]
      BY <2>1
    <3> QED
      BY <1>2, <3>1, <3>2, <3>3
  <2>2. CASE i = k + 1 /\ m = k + 1
    <3>1. frames'[k + 1].snap[c] <=> \E j \in 1..k : Holds(j, c)
      BY <2>2 DEF m
    <3>2. i - 1 = k
      BY <2>2
    <3> QED
      BY <1>2, <2>2, <3>1, <3>2
  <2> QED
    BY <1>4, <2>1, <2>2
<1>9. MutualExclusion'
  <2> SUFFICES ASSUME NEW i \in 1..m, NEW j \in 1..m,
                      Inside(i)', Inside(j)', frames'[i].context = frames'[j].context
               PROVE  i = j
    BY <1>1 DEF MutualExclusion
  <2>1. CASE i \in 1..k /\ j \in 1..k
    <3>1. Inside(i) /\ Inside(j) /\ frames[i].context = frames[j].context
      BY <1>2, <2>1
    <3> QED
      BY <1>1, <1>3, <2>1, <3>1 DEF GuardInv, MutualExclusion
  <2>2. ASSUME m = k + 1, Inside(k + 1)', NEW l \in 1..k, Inside(l)',
               frames'[l].context = frames'[k + 1].context
        PROVE  FALSE
    <3>1. Inside(l) /\ frames[l].context = frames'[k + 1].context
      BY <1>2, <2>2
    <3>2. Holds(l, frames'[k + 1].context)
      BY <3>1 DEF Holds
    <3> QED
      BY <2>2, <3>2 DEF m
  <2> QED
    BY <1>4, <2>1, <2>2
<1> QED
  BY <1>6, <1>7, <1>8, <1>9 DEF GuardInv

LEMMA GuardInitInv == Init => GuardInv
<1> SUFFICES ASSUME Init PROVE GuardInv
  OBVIOUS
<1>1. frames = <<>> /\ Len(frames) = 0 /\ DOMAIN frames = {} /\ frames \in Seq(Frame)
  BY DEF Init
<1>2. tslot \in [Contract -> BOOLEAN] /\ \A c \in Contract : ~tslot[c]
  BY DEF Init
<1>3. 1..Len(frames) = {} /\ 1..(Len(frames) - 1) = {}
  BY <1>1
<1>4. WordsRight
  BY <1>2, <1>3 DEF WordsRight
<1>5. LowerWait
  BY <1>3 DEF LowerWait
<1> QED
  BY <1>1, <1>2, <1>4, <1>5 DEF GuardInv, TypeOK, SnapsRight, MutualExclusion

\* The words that stand when the frames 1 to k are all there is.
LEMMA WordsBelow ==
  ASSUME GuardInv, frames # <<>>, NEW n, n = Len(frames)
  PROVE  /\ \A c \in Contract :
              tslot[c] <=> (\E j \in 1..(n - 1) : Holds(j, c)) \/ Holds(n, c)
         /\ \A c \in Contract : Top.snap[c] <=> \E j \in 1..(n - 1) : Holds(j, c)
         /\ \A i \in 1..(n - 1) : frames[i].phase = "body"
         /\ n \in Nat /\ n - 1 \in Nat /\ (n - 1) + 1 = n
         /\ Top = frames[n] /\ Top \in Frame
<1>1. n \in 1..n /\ n \in Nat /\ n - 1 \in Nat /\ Top = frames[n] /\ Top \in Frame
  BY Numbered DEF GuardInv
<1>2. \A j \in 1..n : j \in 1..(n - 1) \/ j = n
  BY <1>1
<1>3. \A j \in 1..(n - 1) : j \in 1..n
  BY <1>1
<1>4. \A c \in Contract : tslot[c] <=> \E j \in 1..n : Holds(j, c)
  BY DEF GuardInv, WordsRight
<1>5. n \in DOMAIN frames
  BY <1>1, Numbered DEF GuardInv
<1>6. \A c \in Contract : frames[n].snap[c] <=> \E j \in 1..(n - 1) : Holds(j, c)
  BY <1>5 DEF GuardInv, SnapsRight
<1>7. \A i \in 1..(n - 1) : frames[i].phase = "body"
  BY DEF GuardInv, LowerWait
<1>8. (n - 1) + 1 = n
  BY <1>1
<1> QED
  BY <1>1, <1>2, <1>3, <1>4, <1>6, <1>7, <1>8

\* A call pushes a frame that holds nothing yet and saves the current words.
LEMMA CallInv ==
  ASSUME GuardInv, NEW context \in Contract, NEW guarded \in BOOLEAN, Call(context, guarded)
  PROVE  GuardInv'
<1>0. PICK n \in Nat : n = Len(frames)
  BY Numbered DEF GuardInv
<1> DEFINE fr == [context |-> context, guarded |-> guarded, phase |-> "decode", snap |-> tslot]
<1>1. tslot \in [Contract -> BOOLEAN] /\ frames \in Seq(Frame) /\ tslot' = tslot
  BY DEF GuardInv, TypeOK, Call
<1>2. fr \in Frame
  BY <1>1 DEF Frame
<1>3. fr.phase = "decode" /\ fr.snap = tslot
  OBVIOUS
<1> HIDE DEF fr
<1>4. frames' = Append(frames, fr)
  BY DEF Call, fr
<1>5. /\ frames' \in Seq(Frame) /\ Len(frames') = n + 1
      /\ \A i \in 1..n : frames'[i] = frames[i]
      /\ frames'[n + 1] = fr
  BY <1>0, <1>1, <1>2, <1>4, PushFacts
<1>6. TypeOK'
  BY <1>1, <1>5 DEF TypeOK
<1>8. \A i \in 1..n : frames[i].phase = "body"
  <2>1. CASE frames = <<>>
    BY <1>0, <2>1, Numbered DEF GuardInv
  <2>2. CASE frames # <<>>
    <3>1. frames[n].phase = "body" /\ \A i \in 1..(n - 1) : frames[i].phase = "body"
      BY <1>0, <2>2, WordsBelow DEF Call
    <3>2. \A i \in 1..n : i \in 1..(n - 1) \/ i = n
      OBVIOUS
    <3> QED
      BY <3>1, <3>2
  <2> QED
    BY <2>1, <2>2
<1>9. ~Inside(n + 1)' /\ \A c : ~Holds(n + 1, c)'
  <2>1. frames'[n + 1].phase = "decode"
    BY <1>3, <1>5
  <2>2. ~Inside(n + 1)'
    BY <2>1 DEF Inside
  <2> QED
    BY <2>2 DEF Holds
<1>10. \A c \in Contract : tslot[c] <=> \E j \in 1..n : Holds(j, c)
  BY <1>0 DEF GuardInv, WordsRight
<1>11. frames'[n + 1].snap = tslot
  BY <1>3, <1>5
<1>12. n <= Len(frames) /\ Len(frames') \in {n, n + 1}
  BY <1>0, <1>5
<1> QED
  BY <1>1, <1>5, <1>6, <1>8, <1>9, <1>10, <1>11, <1>12, ShapeInv

\* Moving the top frame to its next phase changes nothing else of the stack.
LEMMA SetTopFacts ==
  ASSUME GuardInv, frames # <<>>, NEW p \in {"body", "reset"},
         SetTop([Top EXCEPT !.phase = p]), NEW n, n = Len(frames)
  PROVE  /\ frames' \in Seq(Frame)
         /\ Len(frames') = n
         /\ \A i \in 1..(n - 1) : frames'[i] = frames[i]
         /\ frames'[n].phase = p
         /\ frames'[n].context = frames[n].context
         /\ frames'[n].context \in Contract
         /\ frames'[n].guarded = frames[n].guarded
         /\ frames'[n].snap = frames[n].snap
<1> DEFINE fr == [Top EXCEPT !.phase = p]
<1>1. Top \in Frame /\ Top = frames[n] /\ frames \in Seq(Frame)
  BY WordsBelow DEF GuardInv, TypeOK
<1>2. /\ fr \in Frame
      /\ fr.phase = p
      /\ fr.context = Top.context
      /\ fr.context \in Contract
      /\ fr.guarded = Top.guarded
      /\ fr.snap = Top.snap
  BY <1>1 DEF Frame
<1> HIDE DEF fr
<1>3. frames' = [frames EXCEPT ![Len(frames)] = fr]
  BY DEF SetTop, fr
<1>4. /\ frames' \in Seq(Frame)
      /\ Len(frames') = Len(frames)
      /\ \A i \in 1..(Len(frames) - 1) : frames'[i] = frames[i]
      /\ frames'[Len(frames)] = fr
  BY <1>1, <1>2, <1>3, SetFacts
<1> QED
  BY <1>1, <1>2, <1>4

\* The top frame moves on and the words follow it.
LEMMA TopStepInv ==
  ASSUME GuardInv, frames # <<>>, NEW p \in {"body", "reset"},
         SetTop([Top EXCEPT !.phase = p]),
         tslot' \in [Contract -> BOOLEAN],
         \A c \in Contract :
           c # Top.context => tslot'[c] = tslot[c],
         Top.guarded /\ p = "body" => ~tslot[Top.context] /\ tslot'[Top.context],
         Top.guarded /\ p = "reset" => Top.phase = "body" /\ ~tslot'[Top.context],
         ~Top.guarded => tslot' = tslot
  PROVE  GuardInv'
<1>0. PICK n : n = Len(frames)
  OBVIOUS
<1>1. /\ frames' \in Seq(Frame)
      /\ Len(frames') = n
      /\ \A i \in 1..(n - 1) : frames'[i] = frames[i]
      /\ frames'[n].phase = p
      /\ frames'[n].context = frames[n].context
      /\ frames'[n].context \in Contract
      /\ frames'[n].guarded = frames[n].guarded
      /\ frames'[n].snap = frames[n].snap
  BY <1>0, SetTopFacts
<1>2. /\ \A c \in Contract :
           tslot[c] <=> (\E j \in 1..(n - 1) : Holds(j, c)) \/ Holds(n, c)
      /\ \A c \in Contract : Top.snap[c] <=> \E j \in 1..(n - 1) : Holds(j, c)
      /\ \A i \in 1..(n - 1) : frames[i].phase = "body"
      /\ n \in Nat /\ n - 1 \in Nat /\ (n - 1) + 1 = n
      /\ Top = frames[n] /\ Top \in Frame
  BY <1>0, WordsBelow
<1>3. \A c \in Contract : tslot'[c] \in BOOLEAN /\ tslot[c] \in BOOLEAN
  BY DEF GuardInv, TypeOK
<1>4. \A c : Holds(n, c) <=> Top.guarded /\ Top.phase = "body" /\ Top.context = c
  BY <1>2 DEF Holds, Inside
<1>5. \A c : Holds(n, c)' <=> Top.guarded /\ p = "body" /\ Top.context = c
  BY <1>1, <1>2 DEF Holds, Inside
<1>6. \A i, j \in 1..n : Holds(i, Top.context) /\ Holds(j, Top.context) => i = j
  <2>1. DOMAIN frames = 1..n
    BY <1>0, Numbered DEF GuardInv
  <2> QED
    BY <2>1 DEF GuardInv, MutualExclusion, Holds
<1>7. n \in 1..n /\ \A j \in 1..(n - 1) : j \in 1..n /\ j # n
  BY <1>0, Numbered DEF GuardInv
<1>8. \A c \in Contract :
        tslot'[c] <=> (\E j \in 1..(n - 1) : Holds(j, c)) \/ Holds(n, c)'
  <2> SUFFICES ASSUME NEW c \in Contract
               PROVE  tslot'[c] <=> (\E j \in 1..(n - 1) : Holds(j, c)) \/ Holds(n, c)'
    OBVIOUS
  <2>1. CASE c # Top.context \/ ~Top.guarded
    BY <1>2, <1>4, <1>5, <2>1
  <2>2. CASE c = Top.context /\ Top.guarded /\ p = "body"
    BY <1>5, <2>2
  <2>3. CASE c = Top.context /\ Top.guarded /\ p = "reset"
    <3>1. Holds(n, c)
      BY <1>4, <2>3
    <3>2. ~\E j \in 1..(n - 1) : Holds(j, c)
      BY <1>6, <1>7, <2>3, <3>1
    <3> QED
      BY <1>5, <2>3, <3>2
  <2> QED
    BY <2>1, <2>2, <2>3
<1>9. Inside(n)' => ~\E j \in 1..(n - 1) : Holds(j, frames'[n].context)
  <2> SUFFICES ASSUME Inside(n)' PROVE ~\E j \in 1..(n - 1) : Holds(j, Top.context)
    BY <1>1, <1>2
  <2>1. Top.guarded /\ p = "body" /\ Top.context \in Contract
    BY <1>1, <1>2 DEF Inside
  <2> QED
    BY <1>2, <2>1
<1>10. TypeOK'
  BY <1>1 DEF TypeOK
<1>11. n - 1 <= Len(frames) /\ Len(frames') \in {n - 1, (n - 1) + 1}
  BY <1>0, <1>1, <1>2
<1>12. \A c \in Contract : frames'[n].snap[c] <=> \E j \in 1..(n - 1) : Holds(j, c)
  BY <1>1, <1>2
<1>13. PICK k \in Nat : k = n - 1 /\ k + 1 = n
  BY <1>2
<1> QED
  BY <1>1, <1>2, <1>8, <1>9, <1>10, <1>11, <1>12, <1>13, ShapeInv

LEMMA EnterPlainInv == ASSUME GuardInv, EnterPlain PROVE GuardInv'
<1>1. /\ frames # <<>> /\ ~Top.guarded /\ tslot' = tslot
      /\ SetTop([Top EXCEPT !.phase = "body"])
  BY DEF EnterPlain
<1>2. tslot \in [Contract -> BOOLEAN]
  BY DEF GuardInv, TypeOK
<1> QED
  BY <1>1, <1>2, TopStepInv

LEMMA EnterGuardedInv == ASSUME GuardInv, EnterGuarded PROVE GuardInv'
<1>1. /\ frames # <<>> /\ Top.guarded /\ ~tslot[Top.context]
      /\ tslot' = [tslot EXCEPT ![Top.context] = TRUE]
      /\ SetTop([Top EXCEPT !.phase = "body"])
  BY DEF EnterGuarded
<1>2. tslot \in [Contract -> BOOLEAN] /\ Top.context \in Contract
  BY <1>1, Numbered DEF GuardInv, TypeOK, Frame
<1>3. /\ tslot' \in [Contract -> BOOLEAN]
      /\ \A c \in Contract : c # Top.context => tslot'[c] = tslot[c]
      /\ tslot'[Top.context]
  BY <1>1, <1>2
<1> QED
  BY <1>1, <1>3, TopStepInv

LEMMA ResetInv == ASSUME GuardInv, Reset PROVE GuardInv'
<1>1. /\ frames # <<>> /\ Top.guarded /\ Top.phase = "body"
      /\ tslot' = [tslot EXCEPT ![Top.context] = FALSE]
      /\ SetTop([Top EXCEPT !.phase = "reset"])
  BY DEF Reset
<1>2. tslot \in [Contract -> BOOLEAN] /\ Top.context \in Contract
  BY <1>1, Numbered DEF GuardInv, TypeOK, Frame
<1>3. /\ tslot' \in [Contract -> BOOLEAN]
      /\ \A c \in Contract : c # Top.context => tslot'[c] = tslot[c]
      /\ ~tslot'[Top.context]
  BY <1>1, <1>2
<1> QED
  BY <1>1, <1>3, TopStepInv

\* A frame ends, and leaves words that are right for the frames below it.
LEMMA PopInv ==
  ASSUME GuardInv, frames # <<>>, frames' = Pop(frames),
         NEW t \in [Contract -> BOOLEAN], tslot' = Wiped(t, frames'),
         \A c \in Contract : t[c] <=> \E j \in 1..(Len(frames) - 1) : Holds(j, c)
  PROVE  GuardInv'
<1>0. PICK n : n = Len(frames)
  OBVIOUS
<1>1. /\ \A i \in 1..(n - 1) : frames[i].phase = "body"
      /\ n \in Nat /\ n - 1 \in Nat /\ (n - 1) + 1 = n
  BY <1>0, WordsBelow
<1>2. /\ frames' \in Seq(Frame) /\ Len(frames') = n - 1
      /\ \A i \in 1..(n - 1) : frames'[i] = frames[i]
  BY <1>0, PopFacts DEF GuardInv, TypeOK
<1>3. \A c \in Contract : tslot'[c] <=> \E j \in 1..(n - 1) : Holds(j, c)
  <2>1. CASE frames' = <<>>
    <3>1. 1..(n - 1) = {}
      BY <1>1, <1>2, <2>1
    <3>2. \A c \in Contract : ~tslot'[c]
      BY <2>1 DEF Wiped
    <3> QED
      BY <3>1, <3>2
  <2>2. CASE frames' # <<>>
    BY <1>0, <2>2 DEF Wiped
  <2> QED
    BY <2>1, <2>2
<1>4. TypeOK'
  BY <1>2 DEF TypeOK, Wiped
<1>5. PICK k \in Nat : k = n - 1 /\ k + 1 = n /\ k <= n /\ k # k + 1
  BY <1>1
<1> QED
  BY <1>0, <1>1, <1>2, <1>3, <1>4, <1>5, ShapeInv

LEMMA ReturnInv == ASSUME GuardInv, Return PROVE GuardInv'
<1>0. PICK n : n = Len(frames)
  OBVIOUS
<1>1. /\ frames # <<>> /\ frames' = Pop(frames) /\ tslot' = Wiped(tslot, frames')
      /\ Top.phase = (IF Top.guarded THEN "reset" ELSE "body")
  BY DEF Return
<1>2. /\ \A c \in Contract :
           tslot[c] <=> (\E j \in 1..(n - 1) : Holds(j, c)) \/ Holds(n, c)
      /\ Top = frames[n]
  BY <1>0, <1>1, WordsBelow
<1>3. \A c : ~Holds(n, c)
  BY <1>1, <1>2 DEF Holds, Inside
<1>4. tslot \in [Contract -> BOOLEAN]
  BY DEF GuardInv, TypeOK
<1> QED
  BY <1>0, <1>1, <1>2, <1>3, <1>4, PopInv

LEMMA RevertsInv == ASSUME GuardInv, Reverts PROVE GuardInv'
<1>1. frames # <<>> /\ frames' = Pop(frames) /\ tslot' = Wiped(Top.snap, frames')
  BY DEF Reverts
<1>2. /\ \A c \in Contract :
           Top.snap[c] <=> \E j \in 1..(Len(frames) - 1) : Holds(j, c)
      /\ Top \in Frame
  BY <1>1, WordsBelow
<1>3. Top.snap \in [Contract -> BOOLEAN]
  BY <1>2 DEF Frame
<1> QED
  BY <1>1, <1>2, <1>3, PopInv

--------------------------------------------------------------------------------
(* The theorems. *)

\* Every step of every contract keeps the invariant.
LEMMA GuardNextInv == GuardInv /\ [Next]_vars => GuardInv'
<1> SUFFICES ASSUME GuardInv, [Next]_vars PROVE GuardInv'
  OBVIOUS
<1>1. ASSUME NEW context \in Contract, NEW guarded \in BOOLEAN, Call(context, guarded)
      PROVE  GuardInv'
  BY <1>1, CallInv
<1>2. CASE UNCHANGED vars
  BY <1>2 DEF vars, GuardInv, TypeOK, LowerWait, SnapsRight, WordsRight, MutualExclusion,
              Holds, Inside
<1> QED
  BY <1>1, <1>2, EnterPlainInv, EnterGuardedInv, ResetInv, ReturnInv, RevertsInv DEF Next

LEMMA GuardSpecInv == Spec => []GuardInv
  BY GuardInitInv, GuardNextInv, PTL DEF Spec

\* Two guarded bodies of one contract never run inside one another.
THEOREM SpecMutualExclusion == Spec => []MutualExclusion
<1>1. GuardInv => MutualExclusion
  BY DEF GuardInv
<1> QED
  BY GuardSpecInv, <1>1, PTL

\* The guard word is set exactly while a guarded body of the contract runs.
THEOREM SpecLockedIffInside == Spec => []LockedIffInside
<1>1. ASSUME GuardInv PROVE LockedIffInside
  <2>1. DOMAIN frames = 1..Len(frames)
    BY <1>1, Numbered DEF GuardInv
  <2>2. \A c \in Contract : tslot[c] <=> \E j \in DOMAIN frames : Holds(j, c)
    BY <1>1, <2>1 DEF GuardInv, WordsRight
  <2> QED
    BY <2>2 DEF LockedIffInside, Holders, Holds
<1> QED
  BY GuardSpecInv, <1>1, PTL

--------------------------------------------------------------------------------
(***************************************************************************)
(* The proxies: the three properties of every proxy, for any number of     *)
(* proxies, beacons and implementations and any depth of nested            *)
(* migrations.                                                             *)
(*                                                                         *)
(* None is inductive.  A revert brings back a storage that was saved when  *)
(* the frame started, so StackInv speaks of every saved storage: it is     *)
(* sound by itself, and it is Akin to the running one: the same contracts  *)
(* are deployed, with the same admins, and a slot that has moved since was *)
(* moved by a transaction of that admin.  A constructor that runs its      *)
(* initialization data is the outermost frame, and the proxy it builds is  *)
(* ready although it has no code yet.                                      *)
(***************************************************************************)

\* What h delegates to has code in the image d of the storage.
Ready(d, h) ==
  IF h \in BeaconProxy THEN BeaconOf[h] \in d.live ELSE d.impl[h] \in Impl \cup d.live

Sound(d) ==
  /\ d \in Store
  /\ d.announced = d.impl
  /\ \A h \in d.live : Ready(d, h)

\* Two images of one transaction, sent by o.
Akin(d, e, o) ==
  /\ e.live = d.live
  /\ \A h \in d.live :
       /\ e.admin[h] = d.admin[h]
       /\ e.impl[h] # d.impl[h] => o = d.admin[h]

\* Frame fr at depth i, while the storage is d.
Fits(fr, i, d, o) ==
  /\ fr \in Delegation
  /\ Sound(fr.snap) /\ Akin(d, fr.snap, o)
  /\ fr.sender \in Account => fr.sender = o
  /\ IF fr.fn = "init" THEN i = 1 /\ fr.proxy \notin d.live ELSE fr.proxy \in d.live

StackInv(d, fs, o) ==
  /\ Sound(d)
  /\ fs \in Seq(Delegation)
  /\ o \in Account \cup {Nobody}
  /\ \A i \in 1..Len(fs) : Fits(fs[i], i, d, o)
  /\ fs # <<>> /\ fs[1].fn = "init" =>
       /\ Ready(d, fs[1].proxy)
       /\ \A i \in 2..Len(fs) : Ready(fs[i].snap, fs[1].proxy)

Inv == StackInv(store, calls, origin)

--------------------------------------------------------------------------------
(* Sequences. *)

\* Length, domain and elements of a sequence.
LEMMA SeqFacts ==
  ASSUME NEW T, NEW seq \in Seq(T)
  PROVE  /\ Len(seq) \in Nat
         /\ DOMAIN seq = 1..Len(seq)
         /\ \A i \in 1..Len(seq) : seq[i] \in T
         /\ seq = <<>> <=> Len(seq) = 0
<1>1. Len(seq) \in Nat /\ DOMAIN seq = 1..Len(seq)
  BY LenProperties
<1>2. \A i \in 1..Len(seq) : seq[i] \in T
  BY ElementOfSeq
<1>3. seq = <<>> <=> Len(seq) = 0
  BY EmptySeq
<1> QED
  BY <1>1, <1>2, <1>3

LEMMA FrontFacts ==
  ASSUME NEW T, NEW seq \in Seq(T), seq # <<>>
  PROVE  /\ Front(seq) \in Seq(T)
         /\ Len(Front(seq)) = Len(seq) - 1
         /\ \A i \in 1..(Len(seq) - 1) : Front(seq)[i] = seq[i]
         /\ Last(seq) = seq[Len(seq)] /\ Len(seq) \in 1..Len(seq)
<1> DEFINE n == Len(seq) - 1
           front == SubSeq(seq, 1, n)
<1>1. n \in Nat /\ Len(seq) = n + 1
  BY SeqFacts
<1>2. \A i \in 1..n : seq[i] \in T
  <2>1. \A i \in 1..n : i \in 1..Len(seq)
    BY <1>1
  <2> QED
    BY <2>1, SeqFacts
<1> HIDE DEF n
<1>3. /\ front \in Seq(T)
      /\ Len(front) = IF 1 <= n THEN n - 1 + 1 ELSE 0
      /\ \A i \in 1..(n - 1 + 1) : front[i] = seq[1 + i - 1]
  BY <1>1, <1>2, SubSeqProperties
<1>4. Front(seq) = front /\ Last(seq) = seq[Len(seq)]
  BY DEF Front, Last, n
<1> HIDE DEF front
<1>5. Len(front) = n /\ \A i \in 1..n : front[i] = seq[i]
  BY <1>1, <1>3
<1>6. Len(seq) \in 1..Len(seq) /\ n = Len(seq) - 1
  BY <1>1 DEF n
<1> QED
  BY <1>3, <1>4, <1>5, <1>6

LEMMA AppendFacts ==
  ASSUME NEW T, NEW seq \in Seq(T), NEW x \in T
  PROVE  /\ Append(seq, x) \in Seq(T) /\ Append(seq, x) # <<>>
         /\ Len(Append(seq, x)) = Len(seq) + 1
         /\ \A i \in 1..Len(seq) : Append(seq, x)[i] = seq[i]
         /\ Append(seq, x)[Len(seq) + 1] = x
<1>1. /\ Append(seq, x) \in Seq(T)
      /\ Len(Append(seq, x)) = Len(seq) + 1
      /\ \A i \in 1..Len(seq) : Append(seq, x)[i] = seq[i]
      /\ Append(seq, x)[Len(seq) + 1] = x
  BY AppendProperties
<1>2. Len(seq) + 1 # 0
  <2>1. Len(seq) \in Nat
    BY SeqFacts
  <2> QED
    BY <2>1
<1> QED
  BY <1>1, <1>2, EmptySeq

--------------------------------------------------------------------------------
(* What may happen to a stack of calls. *)

\* Images of one transaction are akin among each other.
LEMMA AkinTransitive ==
  ASSUME NEW c, NEW d, NEW e, NEW o, Akin(d, c, o), Akin(d, e, o)
  PROVE  Akin(c, e, o)
  BY DEF Akin

\* A sound image has the proxies' answer: Resolve finds code.
LEMMA SoundResolves ==
  ASSUME ProxiesAssumption, NEW d, Sound(d), NEW p \in d.live \cap Proxy
  PROVE  d.impl[IF p \in BeaconProxy THEN BeaconOf[p] ELSE p] \in Impl \cup d.live
<1>1. CASE p \in BeaconProxy
  <2>1. BeaconOf[p] \in d.live /\ BeaconOf[p] \in Beacon
    BY <1>1 DEF Sound, Ready, ProxiesAssumption
  <2>2. BeaconOf[p] \notin BeaconProxy
    BY <2>1 DEF ProxiesAssumption, Proxy
  <2> QED
    BY <1>1, <2>1, <2>2 DEF Sound, Ready
<1> QED
  BY <1>1 DEF Sound, Ready

\* Between two transactions nothing can be undone.
LEMMA EmptyStack ==
  ASSUME NEW d, Sound(d), NEW o \in Account \cup {Nobody}
  PROVE  StackInv(d, <<>>, o)
<1>1. <<>> \in Seq(Delegation) /\ Len(<<>>) = 0
  OBVIOUS
<1> QED
  BY <1>1 DEF StackInv

\* The innermost call ends.
LEMMA FrontStack ==
  ASSUME NEW d, NEW fs, NEW o, StackInv(d, fs, o), fs # <<>>
  PROVE  StackInv(d, Front(fs), o)
<1> DEFINE gs == Front(fs)
           n == Len(fs)
<1>1. /\ n \in Nat /\ n # 0
      /\ gs \in Seq(Delegation) /\ Len(gs) = n - 1 /\ \A i \in 1..(n - 1) : gs[i] = fs[i]
  BY SeqFacts, FrontFacts DEF StackInv
<1>2. gs # <<>> => Len(gs) # 0
  BY <1>1, SeqFacts
<1> HIDE DEF gs, n
<1>3. \A i \in 1..Len(gs) : i \in 1..n /\ gs[i] = fs[i]
  BY <1>1
<1>4. gs # <<>> => gs[1] = fs[1]
  BY <1>1, <1>2, <1>3
<1>5. \A i \in 2..Len(gs) : i \in 2..n /\ gs[i] = fs[i]
  BY <1>1
<1> QED
  BY <1>1, <1>3, <1>4, <1>5 DEF StackInv, gs, n

\* A call starts inside the calls fs.
LEMMA PushStack ==
  ASSUME NEW d, NEW fs, NEW o, StackInv(d, fs, o), NEW fr, Fits(fr, Len(fs) + 1, d, o),
         IF fs = <<>> THEN fr.fn = "init" => Ready(d, fr.proxy)
                      ELSE fs[1].fn = "init" => Ready(fr.snap, fs[1].proxy)
  PROVE  StackInv(d, Append(fs, fr), o)
<1> DEFINE gs == Append(fs, fr)
           n == Len(fs)
<1>1. fs \in Seq(Delegation) /\ fr \in Delegation
  BY DEF StackInv, Fits
<1>2. /\ n \in Nat /\ (fs = <<>> <=> n = 0)
      /\ gs \in Seq(Delegation) /\ gs # <<>> /\ Len(gs) = n + 1
      /\ \A i \in 1..n : gs[i] = fs[i]
      /\ gs[n + 1] = fr
  BY <1>1, SeqFacts, AppendFacts
<1>3. /\ Sound(d) /\ o \in Account \cup {Nobody}
      /\ \A i \in 1..n : Fits(fs[i], i, d, o)
      /\ fs # <<>> /\ fs[1].fn = "init" =>
           Ready(d, fs[1].proxy) /\ \A i \in 2..n : Ready(fs[i].snap, fs[1].proxy)
      /\ Fits(fr, n + 1, d, o)
  BY DEF StackInv
<1> HIDE DEF gs, n
<1>4. \A i \in 1..Len(gs) : Fits(gs[i], i, d, o)
  <2>1. \A i \in 1..(n + 1) : i \in 1..n \/ i = n + 1
    BY <1>2
  <2> QED
    BY <1>2, <1>3, <2>1
<1>5. CASE n = 0
  <2>1. gs[1] = fr /\ Len(gs) = 1
    BY <1>2, <1>5
  <2>2. gs[1].fn = "init" => Ready(d, gs[1].proxy) /\ \A i \in 2..Len(gs) : Ready(gs[i].snap, gs[1].proxy)
    BY <1>2, <1>5, <2>1
  <2> QED
    BY <1>2, <1>3, <1>4, <2>2 DEF StackInv, gs
<1>6. CASE n # 0
  <2>1. 1 \in 1..n /\ gs[1] = fs[1] /\ fs # <<>>
    BY <1>2, <1>6
  <2>2. \A i \in 2..Len(gs) : gs[i] = fr \/ (i \in 2..n /\ gs[i] = fs[i])
    <3>1. \A i \in 2..(n + 1) : i = n + 1 \/ (i \in 2..n /\ i \in 1..n)
      BY <1>2
    <3> QED
      BY <1>2, <3>1
  <2> QED
    BY <1>2, <1>3, <1>4, <2>1, <2>2 DEF StackInv, gs
<1> QED
  BY <1>5, <1>6

\* Image e is d after the slot of h is written and the event emitted.
Moved(d, h, target, e) ==
  /\ e \in Store /\ e.live = d.live /\ e.admin = d.admin
  /\ e.impl = [d.impl EXCEPT ![h] = target]
  /\ e.announced = [d.announced EXCEPT ![h] = target]

\* The admin's transaction moves the slot of a deployed contract to an address with code.
LEMMA MoveStack ==
  ASSUME NEW d, NEW fs, NEW o, StackInv(d, fs, o),
         NEW h \in d.live, o = d.admin[h],
         NEW target \in Target, target \in Impl \cup d.live,
         NEW e, Moved(d, h, target, e)
  PROVE  StackInv(e, fs, o) /\ Akin(d, e, o)
<1>1. Sound(d) /\ d \in Store /\ h \in Holder
  BY DEF StackInv, Sound, Store
<1>2. /\ e \in Store /\ e.live = d.live /\ e.admin = d.admin /\ e.announced = e.impl
      /\ e.impl[h] = target /\ \A g \in Holder : g # h => e.impl[g] = d.impl[g]
  BY <1>1 DEF Sound, Store, Moved
<1>3. d.live \subseteq Holder
  BY <1>1 DEF Store
<1>4. Sound(e)
  BY <1>1, <1>2, <1>3 DEF Sound, Ready
<1>5. Akin(d, e, o)
  BY <1>2, <1>3 DEF Akin
<1>6. \A i \in 1..Len(fs) : Fits(fs[i], i, e, o)
  <2> SUFFICES ASSUME NEW i \in 1..Len(fs)
               PROVE  Fits(fs[i], i, e, o)
    OBVIOUS
  <2>1. Fits(fs[i], i, d, o)
    BY DEF StackInv
  <2>2. Akin(e, fs[i].snap, o)
    BY <1>5, <2>1, AkinTransitive DEF Fits
  <2> QED
    BY <1>2, <2>1, <2>2 DEF Fits
<1>7. ASSUME fs # <<>>, fs[1].fn = "init"
      PROVE  Ready(e, fs[1].proxy)
  <2>1. Ready(d, fs[1].proxy) /\ fs \in Seq(Delegation)
    BY <1>7 DEF StackInv
  <2>2. 1 \in 1..Len(fs)
    BY <1>7, <2>1, SeqFacts
  <2>3. fs[1] \in Delegation /\ fs[1].proxy \notin d.live
    BY <1>7, <2>2 DEF StackInv, Fits
  <2> QED
    BY <1>2, <2>1, <2>3 DEF Ready, Delegation, Holder
<1> QED
  BY <1>4, <1>5, <1>6, <1>7 DEF StackInv

\* The innermost call is undone.
LEMMA RevertStack ==
  ASSUME NEW d, NEW fs, NEW o, StackInv(d, fs, o), fs # <<>>
  PROVE  StackInv(Last(fs).snap, Front(fs), o) /\ Akin(d, Last(fs).snap, o)
<1> DEFINE n == Len(fs)
           e == Last(fs).snap
           gs == Front(fs)
<1>1. fs \in Seq(Delegation) /\ n \in Nat /\ n \in 1..n /\ Last(fs) = fs[n]
  BY SeqFacts, FrontFacts DEF StackInv
<1>2. Sound(e) /\ Akin(d, e, o)
  BY <1>1 DEF StackInv, Fits
<1>3. StackInv(d, gs, o)
  BY FrontStack
<1>4. Len(gs) = n - 1 /\ (gs = <<>> <=> n = 1) /\ \A i \in 1..(n - 1) : gs[i] = fs[i]
  <2>1. gs \in Seq(Delegation) /\ Len(gs) = n - 1 /\ \A i \in 1..(n - 1) : gs[i] = fs[i]
    BY <1>1, FrontFacts
  <2>2. gs = <<>> <=> n - 1 = 0
    BY <2>1, SeqFacts
  <2> QED
    BY <1>1, <2>1, <2>2
<1>5. \A i \in 1..Len(gs) : Fits(gs[i], i, e, o)
  <2> SUFFICES ASSUME NEW i \in 1..Len(gs)
               PROVE  Fits(gs[i], i, e, o)
    OBVIOUS
  <2>1. Fits(gs[i], i, d, o)
    BY <1>3 DEF StackInv
  <2>2. Akin(e, gs[i].snap, o)
    BY <1>2, <2>1, AkinTransitive DEF Fits
  <2> QED
    BY <1>2, <2>1, <2>2 DEF Fits, Akin
<1>6. gs # <<>> /\ gs[1].fn = "init" => Ready(e, gs[1].proxy)
  <2>1. gs # <<>> => gs[1] = fs[1] /\ n \in 2..n /\ fs # <<>>
    BY <1>1, <1>4, SeqFacts
  <2> QED
    BY <1>1, <2>1 DEF StackInv
<1> HIDE DEF e, gs, n
<1>7. StackInv(e, gs, o)
  BY <1>2, <1>3, <1>5, <1>6 DEF StackInv
<1> QED
  BY <1>2, <1>7 DEF e, gs

--------------------------------------------------------------------------------
(* Every action keeps the invariant, and what it does to the deployed contracts *)
(* its admins have asked for.                                                   *)

\* What a step may do to the contracts that are deployed.
Stepped == Inv' /\ \A h \in store.live : store'.impl[h] # store.impl[h] => origin' = store.admin[h]

LEMMA UpgradedMoves ==
  ASSUME store \in Store, NEW h \in Holder, NEW target \in Target
  PROVE  Moved(store, h, target, Upgraded(h, target))
  BY DEF Moved, Upgraded, Store

\* A caller that is an account has sent the transaction.
LEMMA CallFromFacts ==
  ASSUME ProxiesAssumption, Inv, NEW sender \in Account \cup Proxy, CallFrom(sender)
  PROVE  /\ origin' \in Account \cup {Nobody}
         /\ sender \in Account => sender = origin'
         /\ StackInv(store, calls, origin')
<1>1. CASE calls = <<>>
  BY <1>1, EmptyStack DEF CallFrom, Inv, StackInv
<1>2. CASE calls # <<>>
  <2>1. calls \in Seq(Delegation) /\ Innermost \in Delegation
    <3>1. calls \in Seq(Delegation)
      BY DEF Inv, StackInv
    <3>2. Last(calls) = calls[Len(calls)] /\ Len(calls) \in 1..Len(calls)
      BY <1>2, <3>1, FrontFacts
    <3> QED
      BY <3>1, <3>2, SeqFacts DEF Innermost
  <2>2. sender = Innermost.proxy /\ Innermost.proxy \in Proxy /\ origin' = origin
    BY <1>2, <2>1 DEF CallFrom, Delegation
  <2> QED
    BY <2>2 DEF ProxiesAssumption, Inv, StackInv
<1> QED
  BY <1>1, <1>2

\* Only an account is the admin of anything, so an admin's call is its transaction.
LEMMA AdminSends ==
  ASSUME ProxiesAssumption, Inv, NEW sender \in Account \cup Proxy, CallFrom(sender),
         NEW h \in store.live, sender = store.admin[h]
  PROVE  sender \in Account /\ origin' = store.admin[h] /\ h \in Holder
<1>1. store \in Store
  BY DEF Inv, StackInv, Sound
<1>2. h \in Holder /\ store.admin[h] \in Account \cup {Nobody}
  BY <1>1 DEF Store
<1> QED
  BY <1>2, CallFromFacts DEF ProxiesAssumption

\* The storage moves h to an address with code, on its admin's behalf; a migration may
\* start in the calls below, which are those that run or all but the innermost.
LEMMA UpgradeSteps ==
  ASSUME ProxiesAssumption, Inv, StackInv(store, calls, origin'),
         NEW h \in store.live, h \in Proxy, origin' = store.admin[h],
         NEW target \in Target, NEW withData \in BOOLEAN,
         NEW sender \in Account \cup Proxy, sender = store.admin[h],
         NEW below, NEW snap,
         \/ below = calls /\ snap = store
         \/ calls # <<>> /\ below = Front(calls) /\ snap = Innermost.snap /\ Innermost.fn # "init",
         Upgrade(h, target, withData, sender, below, snap)
  PROVE  Stepped
<1> DEFINE e == Upgraded(h, target)
<1>1. target \in Impl \cup store.live /\ store' = e
  BY DEF Upgrade, HasCode
<1>2. StackInv(e, calls, origin') /\ Akin(store, e, origin')
  <2>1. store \in Store /\ h \in Holder
    BY DEF Inv, StackInv, Sound, Holder
  <2> HIDE DEF e
  <2>2. Moved(store, h, target, e)
    BY <2>1, UpgradedMoves DEF e
  <2> QED
    BY <1>1, <2>2, MoveStack
<1>3. \A g \in store.live : store'.impl[g] # store.impl[g] => origin' = store.admin[g]
  BY <1>1, <1>2 DEF Akin
<1> HIDE DEF e
<1>4. StackInv(e, below, origin')
  BY <1>2, FrontStack
<1>5. CASE calls' = below
  BY <1>1, <1>3, <1>4, <1>5 DEF Stepped, Inv
<1>6. ASSUME NEW fn \in {"run", "upgrade"},
             NEW fr, fr = [fn |-> fn, proxy |-> h, sender |-> sender, snap |-> snap],
             calls' = Append(below, fr)
      PROVE  Stepped
  <2>1. calls \in Seq(Delegation) /\ (calls # <<>> => Len(calls) \in 1..Len(calls) /\ Last(calls) = calls[Len(calls)])
    BY FrontFacts DEF Inv, StackInv
  <2>2. Sound(snap) /\ Akin(e, snap, origin')
    <3>1. CASE snap = store
      BY <1>2, <3>1 DEF Inv, StackInv, Akin
    <3>2. CASE calls # <<>> /\ snap = Innermost.snap
      BY <1>2, <2>1, <3>2 DEF StackInv, Fits, Innermost
    <3> QED
      BY <3>1, <3>2
  <2>3. fr \in Delegation
    BY <1>6, <2>2 DEF Delegation, Sound
  <2>4. Fits(fr, Len(below) + 1, e, origin')
    BY <1>2, <1>6, <2>2, <2>3 DEF Fits, Akin
  <2>5. below # <<>> /\ below[1].fn = "init" => Ready(fr.snap, below[1].proxy)
    <3>1. CASE below = calls /\ snap = store
      BY <1>6, <3>1 DEF Inv, StackInv
    <3>2. CASE calls # <<>> /\ below = Front(calls) /\ snap = Innermost.snap
      BY <1>6, <3>2, RevertStack DEF Inv, StackInv, Innermost
    <3> QED
      BY <3>1, <3>2
  <2>6. StackInv(e, Append(below, fr), origin')
    BY <1>4, <1>6, <2>4, <2>5, PushStack
  <2> QED
    BY <1>1, <1>3, <1>6, <2>6 DEF Stepped, Inv
<1> QED
  BY <1>5, <1>6 DEF Upgrade, Delegate

LEMMA DeployBeaconSteps ==
  ASSUME ProxiesAssumption, Inv, NEW b \in Beacon, NEW target \in Target, DeployBeacon(b, target)
  PROVE  Stepped
<1>1. calls = <<>> /\ calls' = <<>> /\ b \notin store.live /\ target \in Impl \cup store.live
  BY DEF DeployBeacon, HasCode
<1>2. PICK owner \in Account :
        /\ CallFrom(owner)
        /\ store' = [Upgraded(b, target) EXCEPT !.live = @ \cup {b}, !.admin[b] = owner]
  BY DEF DeployBeacon
<1>3. origin' \in Account \cup {Nobody}
  BY <1>2, CallFromFacts
<1>4. store \in Store /\ b \in Holder /\ b \notin BeaconProxy
  BY DEF Inv, StackInv, Sound, Holder, Proxy, ProxiesAssumption
<1>5. /\ store' \in Store /\ store'.live = store.live \cup {b} /\ store'.announced = store'.impl
      /\ store'.impl[b] = target /\ \A g \in Holder : g # b => store'.impl[g] = store.impl[g]
  BY <1>2, <1>4 DEF Upgraded, Store, Inv, StackInv, Sound
<1>6. store.live \subseteq Holder
  BY <1>4 DEF Store
<1>7. Sound(store')
  BY <1>1, <1>4, <1>5, <1>6 DEF Inv, StackInv, Sound, Ready
<1> QED
  BY <1>1, <1>3, <1>5, <1>6, <1>7, EmptyStack DEF Stepped, Inv

LEMMA UpgradeBeaconSteps ==
  ASSUME ProxiesAssumption, Inv, NEW b \in Beacon, NEW sender \in Account \cup Proxy,
         NEW target \in Target, UpgradeBeacon(b, sender, target)
  PROVE  Stepped
<1>1. /\ b \in store.live /\ CallFrom(sender) /\ sender = store.admin[b]
      /\ target \in Impl \cup store.live
      /\ store' = Upgraded(b, target) /\ calls' = calls
  BY DEF UpgradeBeacon, HasCode
<1>2. StackInv(store, calls, origin') /\ origin' = store.admin[b]
  BY <1>1, CallFromFacts, AdminSends
<1>3. StackInv(store', calls, origin') /\ Akin(store, store', origin')
  <2>1. store \in Store /\ b \in Holder
    BY DEF Inv, StackInv, Sound, Holder
  <2>2. Moved(store, b, target, store')
    BY <1>1, <2>1, UpgradedMoves
  <2> QED
    BY <1>1, <1>2, <2>2, MoveStack
<1> QED
  BY <1>1, <1>3 DEF Stepped, Inv, Akin

\* A proxy is deployed: its constructor has returned, or runs the initialization data.
LEMMA DeploySteps ==
  ASSUME ProxiesAssumption, Inv, NEW p \in Proxy, NEW target \in Target,
         NEW admin \in Account \cup {Nobody}, NEW withData \in BOOLEAN,
         Deploy(p, target, admin, withData)
  PROVE  Stepped
<1> DEFINE w == Written(p, target, admin)
<1>1. /\ calls = <<>> /\ p \notin store.live
      /\ (IF p \in BeaconProxy THEN BeaconOf[p] ELSE target) \in Impl \cup store.live
  BY DEF Deploy, HasCode
<1>2. PICK deployer \in Account :
        /\ CallFrom(deployer)
        /\ IF withData
           THEN /\ store' = w
                /\ Delegate("init", IF p \in BeaconProxy THEN Resolve(p) ELSE target,
                            p, deployer, calls, store)
           ELSE /\ store' = [w EXCEPT !.live = @ \cup {p}]
                /\ UNCHANGED calls
  BY DEF Deploy
<1>3. origin' \in Account \cup {Nobody} /\ deployer = origin'
  BY <1>2, CallFromFacts
<1>4. Sound(store) /\ store \in Store /\ p \in Holder /\ store.live \subseteq Holder
  BY DEF Inv, StackInv, Sound, Holder, Store
<1>5. /\ w \in Store /\ w.live = store.live /\ w.announced = w.impl
      /\ \A g \in Holder : g # p => w.impl[g] = store.impl[g] /\ w.admin[g] = store.admin[g]
      /\ p \notin BeaconProxy => w.impl[p] = target
  BY <1>4 DEF Written, Upgraded, Store, Sound
<1> HIDE DEF w
<1>6. Sound(w) /\ Ready(w, p)
  <2>1. p \in BeaconProxy => BeaconOf[p] \in store.live
    BY <1>1 DEF ProxiesAssumption, Holder
  <2> QED
    BY <1>1, <1>4, <1>5, <2>1 DEF Sound, Ready
<1>7. \A g \in store.live : w.impl[g] = store.impl[g] /\ w.admin[g] = store.admin[g]
  BY <1>1, <1>4, <1>5
<1>8. CASE withData
  <2> DEFINE fr == [fn |-> "init", proxy |-> p, sender |-> deployer, snap |-> store]
  <2>1. store' = w /\ calls' = Append(<<>>, fr)
    BY <1>1, <1>2, <1>8 DEF Delegate
  <2>2. Akin(w, store, origin')
    BY <1>5, <1>7 DEF Akin
  <2>3. Fits(fr, Len(<<>>) + 1, w, origin')
    BY <1>1, <1>3, <1>4, <1>5, <2>2 DEF Fits, Delegation
  <2>4. StackInv(w, <<>>, origin')
    BY <1>3, <1>6, EmptyStack
  <2>5. fr.proxy = p
    OBVIOUS
  <2> HIDE DEF fr
  <2>6. StackInv(w, Append(<<>>, fr), origin')
    BY <1>6, <2>3, <2>4, <2>5, PushStack
  <2> QED
    BY <1>7, <2>1, <2>6 DEF Stepped, Inv
<1>9. CASE ~withData
  <2>1. store' = [w EXCEPT !.live = @ \cup {p}] /\ calls' = <<>>
    BY <1>1, <1>2, <1>9
  <2>2. /\ store' \in Store /\ store'.live = store.live \cup {p}
        /\ store'.impl = w.impl /\ store'.announced = w.announced
    BY <1>4, <1>5, <2>1 DEF Store
  <2>3. Sound(store')
    BY <1>5, <1>6, <2>2 DEF Sound, Ready
  <2> QED
    BY <1>3, <1>7, <2>1, <2>2, <2>3, EmptyStack DEF Stepped, Inv
<1> QED
  BY <1>8, <1>9

LEMMA AdminUpgradeSteps ==
  ASSUME ProxiesAssumption, Inv, NEW p \in Proxy, NEW sender \in Account \cup Proxy,
         NEW target \in Target, NEW withData \in BOOLEAN,
         AdminUpgrade(p, sender, target, withData)
  PROVE  Stepped
<1>1. /\ p \in store.live /\ CallFrom(sender) /\ sender = store.admin[p]
      /\ Upgrade(p, target, withData, sender, calls, store)
  BY DEF AdminUpgrade
<1>2. StackInv(store, calls, origin') /\ origin' = store.admin[p]
  BY <1>1, CallFromFacts, AdminSends
<1> QED
  BY <1>1, <1>2, UpgradeSteps

LEMMA CallSteps ==
  ASSUME ProxiesAssumption, Inv, NEW p \in Proxy, NEW sender \in Account \cup Proxy,
         NEW fn \in {"run", "upgrade"}, ProxyCall(p, sender, fn)
  PROVE  Stepped
<1> DEFINE fr == [fn |-> fn, proxy |-> p, sender |-> sender, snap |-> store]
<1>1. /\ p \in store.live /\ CallFrom(sender)
      /\ calls' = Append(calls, fr) /\ store' = store
  BY DEF ProxyCall, Delegate
<1>2. StackInv(store, calls, origin') /\ (sender \in Account => sender = origin')
  BY <1>1, CallFromFacts
<1>3. Sound(store) /\ store \in Store /\ Akin(store, store, origin')
  BY DEF Inv, StackInv, Sound, Akin
<1>4. fr.fn # "init" /\ fr.snap = store
  OBVIOUS
<1>5. Fits(fr, Len(calls) + 1, store, origin')
  BY <1>1, <1>2, <1>3 DEF Fits, Delegation
<1> HIDE DEF fr
<1>6. StackInv(store, Append(calls, fr), origin')
  <2>1. calls # <<>> /\ calls[1].fn = "init" => Ready(fr.snap, calls[1].proxy)
    BY <1>4 DEF Inv, StackInv
  <2> QED
    BY <1>2, <1>4, <1>5, <2>1, PushStack
<1> QED
  BY <1>1, <1>6 DEF Stepped, Inv

\* The frame that runs now.
LEMMA TopFits ==
  ASSUME Inv, calls # <<>>
  PROVE  /\ calls \in Seq(Delegation) /\ Len(calls) \in Nat \ {0} /\ Innermost = calls[Len(calls)]
         /\ Fits(Innermost, Len(calls), store, origin) /\ Innermost \in Delegation
<1>1. /\ calls \in Seq(Delegation) /\ Len(calls) \in 1..Len(calls)
      /\ Innermost = calls[Len(calls)]
  BY FrontFacts DEF Inv, StackInv, Innermost
<1>2. Len(calls) \in Nat \ {0}
  BY <1>1, SeqFacts
<1>3. Fits(Innermost, Len(calls), store, origin)
  BY <1>1 DEF Inv, StackInv
<1> QED
  BY <1>1, <1>2, <1>3 DEF Fits

LEMMA UpgradeToAndCallSteps ==
  ASSUME ProxiesAssumption, Inv, NEW target \in Target, NEW withData \in BOOLEAN,
         UpgradeToAndCall(target, withData)
  PROVE  Stepped
<1>1. /\ calls # <<>> /\ Innermost.fn = "upgrade" /\ Innermost.sender = store.admin[Innermost.proxy]
      /\ Upgrade(Innermost.proxy, target, withData, Innermost.sender, Front(calls), Innermost.snap)
      /\ origin' = origin
  BY DEF UpgradeToAndCall
<1>2. Fits(Innermost, Len(calls), store, origin) /\ Innermost \in Delegation
  BY <1>1, TopFits
<1>3. Innermost.proxy \in store.live /\ Innermost.proxy \in Proxy /\ Innermost.sender \in Account \cup Proxy
  BY <1>1, <1>2 DEF Fits, Delegation
<1>4. Innermost.sender = origin
  <2>1. store \in Store
    BY DEF Inv, StackInv, Sound
  <2>2. Innermost.sender \in Account \cup {Nobody}
    BY <1>1, <1>3, <2>1 DEF Store, Holder
  <2> QED
    BY <1>2, <1>3, <2>2 DEF Fits, ProxiesAssumption
<1> QED
  BY <1>1, <1>3, <1>4, UpgradeSteps DEF Inv

LEMMA ReturnSteps ==
  ASSUME ProxiesAssumption, Inv, DelegateReturns
  PROVE  Stepped
<1>1. /\ calls # <<>> /\ calls' = Front(calls) /\ origin' = origin
      /\ store' = IF Innermost.fn = "init" THEN [store EXCEPT !.live = @ \cup {Innermost.proxy}] ELSE store
  BY DEF DelegateReturns
<1>2. Fits(Innermost, Len(calls), store, origin) /\ Innermost = calls[Len(calls)]
  BY <1>1, TopFits
<1>3. CASE Innermost.fn # "init"
  BY <1>1, <1>3, FrontStack DEF Stepped, Inv
<1>4. CASE Innermost.fn = "init"
  <2>1. Len(calls) = 1 /\ Ready(store, Innermost.proxy) /\ Innermost.proxy \in Proxy
    BY <1>1, <1>2, <1>4 DEF Fits, Delegation, Inv, StackInv
  <2>2. Front(calls) = <<>>
    <3>1. Front(calls) \in Seq(Delegation) /\ Len(Front(calls)) = 1 - 1
      BY <1>1, <2>1, FrontFacts DEF Inv, StackInv
    <3> QED
      BY <3>1, SeqFacts
  <2>3. store \in Store /\ Sound(store) /\ origin \in Account \cup {Nobody}
    BY DEF Inv, StackInv, Sound
  <2>4. /\ store' \in Store /\ store'.live = store.live \cup {Innermost.proxy}
        /\ store'.impl = store.impl /\ store'.announced = store.announced
    BY <1>1, <1>4, <2>1, <2>3 DEF Store, Holder
  <2>5. Sound(store')
    BY <2>1, <2>3, <2>4 DEF Sound, Ready
  <2> QED
    BY <1>1, <2>2, <2>3, <2>4, <2>5, EmptyStack DEF Stepped, Inv
<1> QED
  BY <1>3, <1>4

LEMMA RevertsSteps ==
  ASSUME Inv, DelegateReverts
  PROVE  Stepped
<1>1. calls # <<>> /\ calls' = Front(calls) /\ store' = Innermost.snap /\ origin' = origin
  BY DEF DelegateReverts
<1>2. StackInv(Innermost.snap, Front(calls), origin) /\ Akin(store, Innermost.snap, origin)
  BY <1>1, RevertStack DEF Inv, Innermost
<1> QED
  BY <1>1, <1>2 DEF Stepped, Inv, Akin

LEMMA InitInv == ProxyInit => Inv
<1> SUFFICES ASSUME ProxyInit PROVE Inv
  OBVIOUS
<1>1. store \in Store /\ store.announced = store.impl /\ store.live = {}
  BY DEF ProxyInit, Store
<1>2. calls = <<>> /\ origin \in Account \cup {Nobody}
  BY DEF ProxyInit
<1> QED
  BY <1>1, <1>2, EmptyStack DEF Inv, Sound

\* The invariant is inductive, and no step moves a slot behind its admin's back.
THEOREM NextStepped == ProxiesAssumption /\ Inv /\ [ProxyNext]_proxyVars => Stepped
<1> SUFFICES ASSUME ProxiesAssumption, Inv, [ProxyNext]_proxyVars PROVE Stepped
  OBVIOUS
<1>1. CASE UNCHANGED proxyVars
  BY <1>1 DEF proxyVars, Stepped, Inv
<1>2. CASE \E b \in Beacon, target \in Target : DeployBeacon(b, target)
  BY <1>2, DeployBeaconSteps
<1>3. CASE \E b \in Beacon, sender \in Account \cup Proxy, target \in Target :
             UpgradeBeacon(b, sender, target)
  BY <1>3, UpgradeBeaconSteps
<1>4. CASE \E p \in Proxy, target \in Target, admin \in Account \cup {Nobody}, withData \in BOOLEAN :
             Deploy(p, target, admin, withData)
  BY <1>4, DeploySteps
<1>5. CASE \E p \in Proxy, sender \in Account \cup Proxy, target \in Target, withData \in BOOLEAN :
             AdminUpgrade(p, sender, target, withData)
  BY <1>5, AdminUpgradeSteps
<1>6. CASE \E p \in Proxy, sender \in Account \cup Proxy, fn \in {"run", "upgrade"} :
             ProxyCall(p, sender, fn)
  BY <1>6, CallSteps
<1>7. CASE \E target \in Target, withData \in BOOLEAN : UpgradeToAndCall(target, withData)
  BY <1>7, UpgradeToAndCallSteps
<1>8. CASE DelegateReturns \/ DelegateReverts
  BY <1>8, ReturnSteps, RevertsSteps
<1> QED
  BY <1>1, <1>2, <1>3, <1>4, <1>5, <1>6, <1>7, <1>8 DEF ProxyNext

THEOREM SpecInv == ProxySpec => []Inv
<1>1. Inv /\ [ProxyNext]_proxyVars => Inv'
  BY ProxiesAssumption, NextStepped DEF Stepped
<1>2. ProxyInit => Inv
  BY InitInv
<1> QED
  BY <1>1, <1>2, PTL DEF ProxySpec

\* Every storage, saved or running, and every frame is well typed.
THEOREM SpecTypeOK == ProxySpec => []ProxyTypeOK
<1>1. Inv => ProxyTypeOK
  BY DEF Inv, StackInv, Sound, ProxyTypeOK
<1> QED
  BY <1>1, SpecInv, PTL

\* A deployed proxy delegates to code, to the implementation it has announced last,
\* and its initialization data run alone: whatever migrations start and reverts undo.
THEOREM SpecProxiesRouteToCode == ProxySpec => []ProxiesRouteToCode
<1>1. ASSUME Inv PROVE ProxiesRouteToCode
  <2>1. RoutesToCode
    BY ProxiesAssumption, <1>1, SoundResolves DEF Inv, StackInv, RoutesToCode, HasCode, Resolve
  <2>2. AnnouncedIsCurrent
    BY <1>1 DEF Inv, StackInv, Sound, AnnouncedIsCurrent
  <2>3. ASSUME NEW i \in DOMAIN calls, NEW j \in DOMAIN calls,
               calls[i].fn = "init", calls[i].proxy = calls[j].proxy
        PROVE  i = j
    <3>1. Fits(calls[i], i, store, origin) /\ Fits(calls[j], j, store, origin)
      BY <1>1, <2>3, SeqFacts DEF Inv, StackInv
    <3> QED
      BY <2>3, <3>1 DEF Fits
  <2> QED
    BY <2>1, <2>2, <2>3 DEF ProxiesRouteToCode, InitializedAlone
<1> QED
  BY <1>1, SpecInv, PTL

\* The implementation of a deployed contract moves only in a transaction of its admin,
\* be it by an upgrade, by the migration of another one or by a revert.
THEOREM SpecAdminBehindEveryMove == ProxySpec => AdminBehindEveryMove
<1>1. Inv /\ [ProxyNext]_proxyVars =>
        \A h \in store.live : store'.impl[h] # store.impl[h] => origin' = store.admin[h]
  BY ProxiesAssumption, NextStepped DEF Stepped
<1> QED
  BY <1>1, SpecInv, PTL DEF ProxySpec, AdminBehindEveryMove

--------------------------------------------------------------------------------
(* The anti-brick check.  It asks proxiableUUID(), and a proxy passes the       *)
(* question on to its own implementation, so that the check lets the code of    *)
(* an @uups class pass, or a proxy.  A proxy that delegates to a proxy sleeps:  *)
(* nothing runs in it any more.                                                 *)

Acceptable == UupsImpl \cup Proxy

\* Two images agree on which deployed proxies have passed the check.
SameUpgradeable(d, e) ==
  \A p \in d.live \cap Uups : e.impl[p] \in Acceptable <=> d.impl[p] \in Acceptable

\* No call can undo the ability to upgrade, and an upgrade entry that runs is that of a
\* proxy which passes the check.
Steady ==
  \A i \in 1..Len(calls) :
    /\ SameUpgradeable(store, calls[i].snap)
    /\ calls[i].fn = "upgrade" /\ calls[i].proxy \in Uups =>
         store.impl[calls[i].proxy] \in Acceptable

\* A frame that a step has started.
Started(fr) ==
  /\ fr.snap = store \/ (calls # <<>> /\ fr.snap = Innermost.snap)
  /\ fr.fn = "upgrade" /\ fr.proxy \in Uups => store'.impl[fr.proxy] \in Acceptable

\* A step leaves the calls alone that go on.
Stacked ==
  \A i \in 1..Len(calls') : (i \in 1..Len(calls) /\ calls'[i] = calls[i]) \/ Started(calls'[i])

LEMMA StackedByPush ==
  ASSUME Inv, NEW below, below = calls \/ (calls # <<>> /\ below = Front(calls)),
         NEW fr \in Delegation, Started(fr), calls' = Append(below, fr)
  PROVE  Stacked
<1>1. /\ below \in Seq(Delegation) /\ Len(below) \in Nat /\ Len(calls) \in Nat
      /\ \A i \in 1..Len(below) : i \in 1..Len(calls) /\ below[i] = calls[i]
  <2>1. calls \in Seq(Delegation)
    BY DEF Inv, StackInv
  <2>2. CASE below = calls
    BY <2>1, <2>2, SeqFacts
  <2>3. CASE calls # <<>> /\ below = Front(calls)
    <3>1. /\ below \in Seq(Delegation) /\ Len(calls) \in Nat /\ Len(below) = Len(calls) - 1
          /\ \A i \in 1..(Len(calls) - 1) : below[i] = calls[i]
      BY <2>1, <2>3, SeqFacts, FrontFacts
    <3>2. Len(below) \in Nat
      BY <3>1, SeqFacts
    <3> QED
      BY <3>1, <3>2
  <2> QED
    BY <2>2, <2>3
<1>2. /\ Len(calls') = Len(below) + 1 /\ calls'[Len(below) + 1] = fr
      /\ \A i \in 1..Len(below) : calls'[i] = below[i]
  BY <1>1, AppendFacts
<1>3. \A i \in 1..(Len(below) + 1) : i \in 1..Len(below) \/ i = Len(below) + 1
  BY <1>1
<1> QED
  BY <1>1, <1>2, <1>3 DEF Stacked

LEMMA StackedByEnd ==
  ASSUME Inv, calls' = calls \/ (calls # <<>> /\ calls' = Front(calls))
  PROVE  Stacked
<1>1. calls \in Seq(Delegation) /\ Len(calls) \in Nat
  BY SeqFacts DEF Inv, StackInv
<1>2. CASE calls' = calls
  BY <1>2 DEF Stacked
<1>3. CASE calls # <<>> /\ calls' = Front(calls)
  <2>1. Len(calls') = Len(calls) - 1 /\ \A i \in 1..(Len(calls) - 1) : calls'[i] = calls[i]
    BY <1>1, <1>3, FrontFacts
  <2> QED
    BY <1>1, <2>1 DEF Stacked
<1> QED
  BY <1>2, <1>3

LEMMA StackedByUpgrade ==
  ASSUME Inv, Inv', NEW h \in Proxy, NEW target \in Target, NEW withData, NEW sender \in Account \cup Proxy,
         NEW below, NEW snap,
         \/ below = calls /\ snap = store
         \/ calls # <<>> /\ below = Front(calls) /\ snap = Innermost.snap,
         Upgrade(h, target, withData, sender, below, snap)
  PROVE  Stacked /\ store'.impl = [store.impl EXCEPT ![h] = target]
<1>0. store \in Store /\ h \in Holder
  BY DEF Inv, StackInv, Sound, Holder
<1>1. store'.impl = [store.impl EXCEPT ![h] = target]
  <2>1. store' = Upgraded(h, target)
    BY DEF Upgrade
  <2>2. Moved(store, h, target, store')
    BY <1>0, <2>1, UpgradedMoves
  <2> QED
    BY <2>2 DEF Moved
<1>u. store'.impl[h] = target
  BY <1>0, <1>1 DEF Store
<1>2. CASE calls' = below
  BY <1>1, <1>2, StackedByEnd
<1>3. ASSUME NEW fn \in {"run", "upgrade"}, Delegate(fn, target, h, sender, below, snap)
      PROVE  Stacked
  <2> DEFINE fr == [fn |-> fn, proxy |-> h, sender |-> sender, snap |-> snap]
  <2>1. calls' = Append(below, fr) /\ (fn = "upgrade" => target \in UupsImpl)
    BY <1>3 DEF Delegate
  <2>2. snap \in Store
    BY TopFits DEF Inv, StackInv, Sound, Delegation
  <2>3. fr \in Delegation /\ Started(fr)
    BY <1>u, <2>1, <2>2 DEF Delegation, Started, Acceptable
  <2> HIDE DEF fr
  <2> QED
    BY <2>1, <2>3, StackedByPush
<1> QED
  BY <1>1, <1>2, <1>3 DEF Upgrade

\* Every step keeps the deployed proxies upgradeable.
LEMMA StepKeepsUpgradeable ==
  ASSUME ProxiesAssumption, Inv, Inv', Steady, [ProxyNext]_proxyVars
  PROVE  Stacked /\ SameUpgradeable(store, store')
<1>0. store \in Store
  BY DEF Inv, StackInv, Sound
<1>1. store \in Store /\ calls \in Seq(Delegation) /\ store.impl \in [Holder -> Target \cup {Nobody}]
      /\ store.live \subseteq Holder
  BY DEF Inv, StackInv, Sound, Store
<1>2. ASSUME NEW h \in Holder, h \notin Uups \cap store.live, NEW target,
             store'.impl = [store.impl EXCEPT ![h] = target]
      PROVE  SameUpgradeable(store, store')
  BY <1>1, <1>2 DEF SameUpgradeable
<1>3. CASE UNCHANGED proxyVars
  BY <1>3, StackedByEnd DEF proxyVars, SameUpgradeable
<1>4. ASSUME NEW b \in Beacon, NEW target \in Target, DeployBeacon(b, target)
      PROVE  Stacked /\ SameUpgradeable(store, store')
  <2>1. b \in Holder /\ b \notin Uups
    BY DEF Holder, Proxy, ProxiesAssumption
  <2>2. PICK e, owner : e = Upgraded(b, target) /\ store' = [e EXCEPT !.live = @ \cup {b}, !.admin[b] = owner]
    BY <1>4 DEF DeployBeacon
  <2>3. store'.impl = [store.impl EXCEPT ![b] = target]
    <3>1. e \in Store /\ e.impl = [store.impl EXCEPT ![b] = target]
      <4>1. Moved(store, b, target, e)
        BY <1>0, <2>1, <2>2, UpgradedMoves
      <4> QED
        BY <4>1 DEF Moved
    <3> QED
      BY <2>2, <3>1 DEF Store
  <2> QED
    BY <1>2, <1>4, <2>1, <2>3, StackedByEnd DEF DeployBeacon
<1>5. ASSUME NEW b \in Beacon, NEW sender \in Account \cup Proxy, NEW target \in Target,
             UpgradeBeacon(b, sender, target)
      PROVE  Stacked /\ SameUpgradeable(store, store')
  <2>1. b \in Holder /\ b \notin Uups
    BY DEF Holder, Proxy, ProxiesAssumption
  <2>2. store'.impl = [store.impl EXCEPT ![b] = target]
    <3>1. store' = Upgraded(b, target)
      BY <1>5 DEF UpgradeBeacon
    <3>2. Moved(store, b, target, store')
      BY <1>0, <2>1, <3>1, UpgradedMoves
    <3> QED
      BY <3>2 DEF Moved
  <2> QED
    BY <1>2, <1>5, <2>1, <2>2, StackedByEnd DEF UpgradeBeacon
<1>6. ASSUME NEW p \in Proxy, NEW target \in Target, NEW admin \in Account \cup {Nobody},
             NEW withData \in BOOLEAN, Deploy(p, target, admin, withData)
      PROVE  Stacked /\ SameUpgradeable(store, store')
  <2> DEFINE w == Written(p, target, admin)
  <2>1. calls = <<>> /\ p \notin store.live /\ p \in Holder
    BY <1>6 DEF Deploy, Holder
  <2>2. /\ w \in Store /\ \A g \in Holder : g # p => w.impl[g] = store.impl[g]
    BY <1>1, <2>1 DEF Written, Upgraded, Store
  <2> HIDE DEF w
  <2>3. store'.impl = w.impl
    BY <1>6, <2>2 DEF Deploy, Store, w
  <2>4. SameUpgradeable(store, store')
    BY <1>1, <2>1, <2>2, <2>3 DEF SameUpgradeable
  <2>5. CASE calls' = calls
    BY <2>4, <2>5, StackedByEnd
  <2>6. ASSUME NEW deployer \in Account,
               NEW fr, fr = [fn |-> "init", proxy |-> p, sender |-> deployer, snap |-> store],
               calls' = Append(calls, fr)
        PROVE  Stacked
    <3>1. fr \in Delegation /\ Started(fr)
      BY <1>1, <2>6 DEF Delegation, Started
    <3> QED
      BY <2>6, <3>1, StackedByPush
  <2> QED
    BY <1>6, <2>4, <2>5, <2>6 DEF Deploy, Delegate
<1>7. ASSUME NEW p \in Proxy, NEW sender \in Account \cup Proxy, NEW target \in Target,
             NEW withData \in BOOLEAN, AdminUpgrade(p, sender, target, withData)
      PROVE  Stacked /\ SameUpgradeable(store, store')
  <2>1. Upgrade(p, target, withData, sender, calls, store) /\ p \in Transparent \cup Plain
    BY <1>7 DEF AdminUpgrade
  <2>2. Stacked /\ store'.impl = [store.impl EXCEPT ![p] = target]
    BY <2>1, StackedByUpgrade
  <2>3. p \in Holder /\ p \notin Uups
    BY <2>1 DEF Holder, ProxiesAssumption
  <2> QED
    BY <1>2, <2>2, <2>3
<1>8. ASSUME NEW p \in Proxy, NEW sender \in Account \cup Proxy, NEW fn \in {"run", "upgrade"},
             ProxyCall(p, sender, fn)
      PROVE  Stacked /\ SameUpgradeable(store, store')
  <2> DEFINE fr == [fn |-> fn, proxy |-> p, sender |-> sender, snap |-> store]
  <2>1. /\ store' = store /\ calls' = Append(calls, fr)
        /\ fn = "upgrade" => Resolve(p) \in UupsImpl
    BY <1>8 DEF ProxyCall, Delegate
  <2>2. p \in Uups => Resolve(p) = store.impl[p]
    BY DEF Resolve, ProxiesAssumption
  <2>3. fr \in Delegation /\ Started(fr)
    BY <1>1, <2>1, <2>2 DEF Delegation, Started, Acceptable
  <2> HIDE DEF fr
  <2> QED
    BY <2>1, <2>3, StackedByPush DEF SameUpgradeable
<1>9. ASSUME NEW target \in Target, NEW withData \in BOOLEAN, UpgradeToAndCall(target, withData)
      PROVE  Stacked /\ SameUpgradeable(store, store')
  <2>1. /\ calls # <<>> /\ Innermost.fn = "upgrade" /\ ProxiableUUID(target, Innermost.proxy)
        /\ Upgrade(Innermost.proxy, target, withData, Innermost.sender, Front(calls), Innermost.snap)
    BY <1>9 DEF UpgradeToAndCall
  <2>2. /\ Len(calls) \in Nat \ {0} /\ Innermost = calls[Len(calls)] /\ Innermost \in Delegation
        /\ Fits(Innermost, Len(calls), store, origin)
    BY <2>1, TopFits
  <2>3. Innermost.proxy \in Proxy /\ Innermost.sender \in Account \cup Proxy /\ Innermost.proxy \in Holder
    BY <2>2 DEF Delegation, Holder
  <2>4. Stacked /\ store'.impl = [store.impl EXCEPT ![Innermost.proxy] = target]
    BY <2>1, <2>3, StackedByUpgrade
  <2>5. target \in Acceptable
    BY <2>1 DEF ProxiableUUID, Acceptable
  <2>6. Innermost.proxy \in Uups => store.impl[Innermost.proxy] \in Acceptable
    BY <2>1, <2>2 DEF Steady
  <2>7. SameUpgradeable(store, store')
    BY <1>1, <2>3, <2>4, <2>5, <2>6 DEF SameUpgradeable
  <2> QED
    BY <2>4, <2>7
<1>10. CASE DelegateReturns
  <2>1. calls # <<>> /\ calls' = Front(calls) /\ store'.impl = store.impl
    BY <1>1, <1>10 DEF DelegateReturns, Store
  <2> QED
    BY <2>1, StackedByEnd DEF SameUpgradeable
<1>11. CASE DelegateReverts
  <2>1. calls # <<>> /\ calls' = Front(calls) /\ store' = Innermost.snap
    BY <1>11 DEF DelegateReverts
  <2>2. Len(calls) \in 1..Len(calls) /\ Innermost = calls[Len(calls)]
    BY <1>1, <2>1, FrontFacts DEF Innermost
  <2> QED
    BY <2>1, <2>2, StackedByEnd DEF Steady
<1> QED
  BY <1>3, <1>4, <1>5, <1>6, <1>7, <1>8, <1>9, <1>10, <1>11 DEF ProxyNext

LEMMA NextSteady ==
  ASSUME ProxiesAssumption, Inv, Inv', Steady, [ProxyNext]_proxyVars
  PROVE  Steady' /\ SameUpgradeable(store, store')
<1>1. Stacked /\ SameUpgradeable(store, store')
  BY StepKeepsUpgradeable
<1>2. \A i \in 1..Len(calls) : Fits(calls[i], i, store, origin)
  BY DEF Inv, StackInv
<1>3. \A i \in 1..Len(calls') : Fits(calls'[i], i, store', origin')
  BY DEF Inv, StackInv
<1>4. ASSUME NEW i \in 1..Len(calls')
      PROVE  /\ SameUpgradeable(store', calls'[i].snap)
             /\ calls'[i].fn = "upgrade" /\ calls'[i].proxy \in Uups =>
                  store'.impl[calls'[i].proxy] \in Acceptable
  <2>1. calls'[i].snap.live = store'.live
    BY <1>3 DEF Fits, Akin
  <2>2. CASE i \in 1..Len(calls) /\ calls'[i] = calls[i]
    <3>1. /\ calls[i].snap.live = store.live /\ SameUpgradeable(store, calls[i].snap)
          /\ calls[i].fn = "upgrade" => calls[i].proxy \in store.live
      BY <1>2, <2>2 DEF Fits, Akin, Steady
    <3> QED
      BY <1>1, <2>1, <2>2, <3>1 DEF SameUpgradeable, Steady
  <2>3. CASE Started(calls'[i])
    <3>1. calls # <<>> => /\ Len(calls) \in 1..Len(calls) /\ Innermost = calls[Len(calls)]
      BY FrontFacts DEF Inv, StackInv, Innermost
    <3>2. calls'[i].snap.live = store.live /\ SameUpgradeable(store, calls'[i].snap)
      BY <1>2, <2>3, <3>1 DEF Started, Fits, Akin, Steady, SameUpgradeable
    <3> QED
      BY <1>1, <2>1, <2>3, <3>2 DEF Started, SameUpgradeable
  <2> QED
    BY <1>1, <2>2, <2>3 DEF Stacked
<1> QED
  BY <1>1, <1>4 DEF Steady

\* A proxy that slept when a call started has slept since, and no call above it runs in
\* the proxy: what could wake it is below and will meet the revert first.
AsleepIn(d, fs) ==
  \A i \in 1..Len(fs), p \in Uups \cap d.live :
    fs[i].snap.impl[p] \in Proxy =>
      /\ d.impl[p] = fs[i].snap.impl[p]
      /\ \A j \in i..Len(fs) : fs[j].proxy # p /\ fs[j].snap.impl[p] = fs[i].snap.impl[p]

Asleep == AsleepIn(store, calls)

\* Two images that agree on the deployed proxies whose upgrades are in their
\* implementation, but for those in S.
AgreeBut(d, e, S) == e.live = d.live /\ \A p \in (Uups \cap d.live) \ S : e.impl[p] = d.impl[p]

LEMMA AsleepEmpty == ASSUME NEW d, NEW fs, fs = <<>> PROVE AsleepIn(d, fs)
<1>1. Len(fs) = 0
  BY EmptySeq
<1> QED
  BY <1>1 DEF AsleepIn

LEMMA AsleepMoved ==
  ASSUME NEW d, NEW e, NEW fs, AsleepIn(d, fs), AgreeBut(d, e, {})
  PROVE  AsleepIn(e, fs)
  BY DEF AsleepIn, AgreeBut

\* The innermost call ends, having written to the proxy it ran in at most.
LEMMA AsleepFront ==
  ASSUME NEW d, NEW e, NEW fs \in Seq(Delegation), fs # <<>>, AsleepIn(d, fs),
         AgreeBut(d, e, {Last(fs).proxy})
  PROVE  AsleepIn(e, Front(fs))
<1>1. /\ Len(fs) \in Nat /\ Len(fs) \in 1..Len(fs) /\ Last(fs) = fs[Len(fs)]
      /\ Len(Front(fs)) = Len(fs) - 1 /\ \A i \in 1..(Len(fs) - 1) : Front(fs)[i] = fs[i]
  BY SeqFacts, FrontFacts
<1> SUFFICES ASSUME NEW i \in 1..Len(Front(fs)), NEW p \in Uups \cap e.live,
                    Front(fs)[i].snap.impl[p] \in Proxy
             PROVE  /\ e.impl[p] = Front(fs)[i].snap.impl[p]
                    /\ \A j \in i..Len(Front(fs)) :
                         Front(fs)[j].proxy # p /\ Front(fs)[j].snap.impl[p] = Front(fs)[i].snap.impl[p]
  BY DEF AsleepIn
<1>2. /\ i \in 1..(Len(fs) - 1) /\ i \in 1..Len(fs) /\ Len(fs) \in i..Len(fs)
      /\ \A j \in i..Len(Front(fs)) : j \in 1..(Len(fs) - 1) /\ j \in i..Len(fs)
  BY <1>1
<1>3. p \in Uups \cap d.live /\ fs[i].snap.impl[p] \in Proxy
  BY <1>1, <1>2 DEF AgreeBut
<1>4. /\ d.impl[p] = fs[i].snap.impl[p]
      /\ \A j \in i..Len(fs) : fs[j].proxy # p /\ fs[j].snap.impl[p] = fs[i].snap.impl[p]
  BY <1>2, <1>3 DEF AsleepIn
<1>5. e.impl[p] = d.impl[p]
  BY <1>1, <1>2, <1>3, <1>4 DEF AgreeBut
<1> QED
  BY <1>1, <1>2, <1>4, <1>5

\* The innermost call fails.
LEMMA AsleepReverted ==
  ASSUME NEW d, NEW fs \in Seq(Delegation), fs # <<>>, AsleepIn(d, fs), Last(fs).snap.live = d.live
  PROVE  AsleepIn(Last(fs).snap, Front(fs))
<1>1. /\ Len(fs) \in Nat /\ Len(fs) \in 1..Len(fs) /\ Last(fs) = fs[Len(fs)]
      /\ Len(Front(fs)) = Len(fs) - 1 /\ \A i \in 1..(Len(fs) - 1) : Front(fs)[i] = fs[i]
  BY SeqFacts, FrontFacts
<1> SUFFICES ASSUME NEW i \in 1..Len(Front(fs)), NEW p \in Uups \cap d.live,
                    Front(fs)[i].snap.impl[p] \in Proxy
             PROVE  /\ Last(fs).snap.impl[p] = Front(fs)[i].snap.impl[p]
                    /\ \A j \in i..Len(Front(fs)) :
                         Front(fs)[j].proxy # p /\ Front(fs)[j].snap.impl[p] = Front(fs)[i].snap.impl[p]
  BY DEF AsleepIn
<1>2. /\ i \in 1..(Len(fs) - 1) /\ i \in 1..Len(fs) /\ Len(fs) \in i..Len(fs)
      /\ \A j \in i..Len(Front(fs)) : j \in 1..(Len(fs) - 1) /\ j \in i..Len(fs)
  BY <1>1
<1>3. \A j \in i..Len(fs) : fs[j].proxy # p /\ fs[j].snap.impl[p] = fs[i].snap.impl[p]
  BY <1>1, <1>2 DEF AsleepIn
<1> QED
  BY <1>1, <1>2, <1>3

\* A call starts in a proxy that does not sleep.
LEMMA AsleepPush ==
  ASSUME NEW d, NEW fs \in Seq(Delegation), NEW fr \in Delegation, AsleepIn(d, fs), fr.snap = d,
         fr.proxy \in Uups \cap d.live => d.impl[fr.proxy] \notin Proxy
  PROVE  AsleepIn(d, Append(fs, fr))
<1> DEFINE gs == Append(fs, fr)
<1>1. /\ Len(fs) \in Nat /\ Len(gs) = Len(fs) + 1 /\ gs[Len(fs) + 1] = fr
      /\ \A i \in 1..Len(fs) : gs[i] = fs[i]
  BY SeqFacts, AppendFacts
<1> HIDE DEF gs
<1> SUFFICES ASSUME NEW i \in 1..Len(gs), NEW p \in Uups \cap d.live, gs[i].snap.impl[p] \in Proxy
             PROVE  /\ d.impl[p] = gs[i].snap.impl[p]
                    /\ \A j \in i..Len(gs) : gs[j].proxy # p /\ gs[j].snap.impl[p] = gs[i].snap.impl[p]
  BY DEF AsleepIn, gs
<1>2. CASE i = Len(fs) + 1
  <2>1. d.impl[p] \in Proxy /\ gs[i] = fr /\ fr.proxy # p /\ \A j \in i..Len(gs) : j = i
    BY <1>1, <1>2
  <2> QED
    BY <2>1
<1>3. CASE i \in 1..Len(fs)
  <2>1. gs[i] = fs[i] /\ \A j \in i..Len(gs) : (j \in i..Len(fs) /\ j \in 1..Len(fs)) \/ j = Len(fs) + 1
    BY <1>1, <1>3
  <2>2. /\ d.impl[p] = fs[i].snap.impl[p]
        /\ \A j \in i..Len(fs) : fs[j].proxy # p /\ fs[j].snap.impl[p] = fs[i].snap.impl[p]
    BY <1>3, <2>1 DEF AsleepIn
  <2>3. fr.proxy # p
    BY <2>1, <2>2
  <2> QED
    BY <1>1, <2>1, <2>2, <2>3
<1> QED
  BY <1>1, <1>2, <1>3

\* The innermost call gives way to another in the same proxy.
LEMMA AsleepReplaced ==
  ASSUME NEW d, NEW e, NEW fs \in Seq(Delegation), fs # <<>>, NEW fr \in Delegation, AsleepIn(d, fs),
         fr.snap = Last(fs).snap, fr.proxy = Last(fs).proxy, AgreeBut(d, e, {Last(fs).proxy})
  PROVE  AsleepIn(e, Append(Front(fs), fr))
<1> DEFINE gs == Append(Front(fs), fr)
<1>1. /\ Len(fs) \in Nat /\ Len(fs) \in 1..Len(fs) /\ Last(fs) = fs[Len(fs)] /\ Front(fs) \in Seq(Delegation)
      /\ Len(Front(fs)) = Len(fs) - 1 /\ \A i \in 1..(Len(fs) - 1) : Front(fs)[i] = fs[i]
  BY SeqFacts, FrontFacts
<1>2. /\ Len(gs) = Len(fs) /\ gs[Len(fs)] = fr /\ \A i \in 1..(Len(fs) - 1) : gs[i] = fs[i]
  <2>1. /\ Len(gs) = Len(Front(fs)) + 1 /\ gs[Len(Front(fs)) + 1] = fr
        /\ \A i \in 1..Len(Front(fs)) : gs[i] = Front(fs)[i]
    BY <1>1, AppendFacts
  <2> QED
    BY <1>1, <2>1
<1> HIDE DEF gs
<1>3. \A i \in 1..Len(fs) : gs[i].snap = fs[i].snap /\ gs[i].proxy = fs[i].proxy
  <2>1. \A i \in 1..Len(fs) : i \in 1..(Len(fs) - 1) \/ i = Len(fs)
    BY <1>1
  <2> QED
    BY <1>1, <1>2, <2>1
<1> SUFFICES ASSUME NEW i \in 1..Len(gs), NEW p \in Uups \cap e.live, gs[i].snap.impl[p] \in Proxy
             PROVE  /\ e.impl[p] = gs[i].snap.impl[p]
                    /\ \A j \in i..Len(gs) : gs[j].proxy # p /\ gs[j].snap.impl[p] = gs[i].snap.impl[p]
  BY DEF AsleepIn, gs
<1>4. /\ i \in 1..Len(fs) /\ Len(fs) \in i..Len(fs)
      /\ \A j \in i..Len(gs) : j \in 1..Len(fs) /\ j \in i..Len(fs)
  BY <1>1, <1>2
<1>5. p \in Uups \cap d.live /\ fs[i].snap.impl[p] \in Proxy
  BY <1>3, <1>4 DEF AgreeBut
<1>6. /\ d.impl[p] = fs[i].snap.impl[p]
      /\ \A j \in i..Len(fs) : fs[j].proxy # p /\ fs[j].snap.impl[p] = fs[i].snap.impl[p]
  BY <1>4, <1>5 DEF AsleepIn
<1>7. e.impl[p] = d.impl[p]
  BY <1>1, <1>4, <1>5, <1>6 DEF AgreeBut
<1> QED
  BY <1>3, <1>4, <1>6, <1>7

\* What the deployed proxies of @uups implementations may move to.
Accepts ==
  \A p \in store.live \cap Uups :
    store.impl[p] \in UupsImpl => store'.impl[p] \in UupsImpl \/ AnswersForAnother(store'.impl[p])

LEMMA KeptAccepts == ASSUME AgreeBut(store, store', {}) PROVE Accepts
  BY DEF AgreeBut, Accepts

\* An upgrade of h, which agrees with the storage before on all but h.
LEMMA UpgradeAgrees ==
  ASSUME Inv, NEW h \in Proxy, NEW target \in Target, NEW withData, NEW sender, NEW below, NEW snap,
         Upgrade(h, target, withData, sender, below, snap)
  PROVE  /\ AgreeBut(store, store', {h}) /\ store'.impl[h] = target
         /\ \/ calls' = below
            \/ \E fn \in {"run", "upgrade"} :
                 calls' = Append(below, [fn |-> fn, proxy |-> h, sender |-> sender, snap |-> snap])
<1>1. store \in Store /\ h \in Holder
  BY DEF Inv, StackInv, Sound, Holder
<1>2. store' = Upgraded(h, target)
  BY DEF Upgrade
<1>3. store'.impl = [store.impl EXCEPT ![h] = target] /\ store'.live = store.live
  BY <1>1, <1>2 DEF Upgraded, Store
<1>4. store.impl \in [Holder -> Target \cup {Nobody}] /\ Uups \subseteq Holder
  BY <1>1 DEF Store, Holder, Proxy
<1> QED
  BY <1>1, <1>3, <1>4 DEF AgreeBut, Upgrade, Delegate

LEMMA NextAsleep ==
  ASSUME ProxiesAssumption, Inv, Steady, Asleep, [ProxyNext]_proxyVars
  PROVE  Asleep' /\ Accepts
<1>1. /\ store \in Store /\ calls \in Seq(Delegation) /\ store.impl \in [Holder -> Target \cup {Nobody}]
      /\ store.live \subseteq Holder
  BY DEF Inv, StackInv, Sound, Store
<1>2. ASSUME AgreeBut(store, store', {}), calls' = calls \/ calls' = <<>> PROVE Asleep' /\ Accepts
  <2>1. AsleepIn(store', calls)
    BY <1>2, AsleepMoved DEF Asleep
  <2> QED
    BY <1>2, <2>1, AsleepEmpty, KeptAccepts DEF Asleep
<1>3. CASE UNCHANGED proxyVars
  <2>1. AgreeBut(store, store', {}) /\ calls' = calls
    BY <1>3 DEF proxyVars, AgreeBut
  <2> QED
    BY <1>2, <2>1
<1>4. ASSUME NEW b \in Beacon, NEW target \in Target, DeployBeacon(b, target)
      PROVE  Asleep' /\ Accepts
  <2>1. calls = <<>> /\ calls' = calls /\ b \notin Uups
    BY <1>4 DEF DeployBeacon, ProxiesAssumption, Proxy
  <2>2. PICK owner : store' = [Upgraded(b, target) EXCEPT !.live = @ \cup {b}, !.admin[b] = owner]
    BY <1>4 DEF DeployBeacon
  <2>3. \A p \in Uups : store'.impl[p] = store.impl[p]
    BY <1>1, <2>1, <2>2 DEF Upgraded, Store, Holder, Proxy
  <2> QED
    BY <2>1, <2>3, AsleepEmpty DEF Asleep, Accepts
<1>5. ASSUME NEW b \in Beacon, NEW sender \in Account \cup Proxy, NEW target \in Target,
             UpgradeBeacon(b, sender, target)
      PROVE  Asleep' /\ Accepts
  <2>1. store' = Upgraded(b, target) /\ calls' = calls /\ b \notin Uups
    BY <1>5 DEF UpgradeBeacon, ProxiesAssumption, Proxy
  <2>2. AgreeBut(store, store', {})
    BY <1>1, <2>1 DEF Upgraded, Store, Holder, Proxy, AgreeBut
  <2> QED
    BY <1>2, <2>1, <2>2
<1>6. ASSUME NEW p \in Proxy, NEW target \in Target, NEW admin \in Account \cup {Nobody},
             NEW withData \in BOOLEAN, Deploy(p, target, admin, withData)
      PROVE  Asleep' /\ Accepts
  <2> DEFINE w == Written(p, target, admin)
  <2>1. calls = <<>> /\ p \notin store.live /\ p \in Holder
    BY <1>6 DEF Deploy, Holder
  <2>2. w \in Store /\ w.live = store.live /\ \A h \in Holder : h # p => w.impl[h] = store.impl[h]
    BY <1>1, <2>1 DEF Written, Upgraded, Store
  <2> HIDE DEF w
  <2>3. store'.impl = w.impl
    BY <1>6, <2>2 DEF Deploy, Store, w
  <2>4. Accepts
    BY <1>1, <2>1, <2>2, <2>3 DEF Accepts
  <2>5. CASE calls' = calls
    BY <2>1, <2>4, <2>5, AsleepEmpty DEF Asleep
  <2>6. ASSUME NEW deployer \in Account,
               NEW fr, fr = [fn |-> "init", proxy |-> p, sender |-> deployer, snap |-> store],
               calls' = Append(calls, fr), store' = w
        PROVE  Asleep'
    <3>1. fr \in Delegation /\ fr.snap = store /\ fr.proxy \notin store.live
      BY <1>1, <2>1, <2>6 DEF Delegation
    <3>2. AsleepIn(store, Append(calls, fr))
      BY <1>1, <3>1, AsleepPush DEF Asleep
    <3>3. AgreeBut(store, store', {})
      BY <1>1, <2>1, <2>2, <2>6 DEF AgreeBut
    <3> QED
      BY <2>6, <3>2, <3>3, AsleepMoved DEF Asleep
  <2> QED
    BY <1>6, <2>4, <2>5, <2>6 DEF Deploy, Delegate, w
<1>7. ASSUME NEW p \in Proxy, NEW sender \in Account \cup Proxy, NEW target \in Target,
             NEW withData \in BOOLEAN, AdminUpgrade(p, sender, target, withData)
      PROVE  Asleep' /\ Accepts
  <2>1. Upgrade(p, target, withData, sender, calls, store) /\ p \notin Uups
    BY <1>7 DEF AdminUpgrade, ProxiesAssumption
  <2>2. /\ AgreeBut(store, store', {p})
        /\ \/ calls' = calls
           \/ \E fn \in {"run", "upgrade"} :
                calls' = Append(calls, [fn |-> fn, proxy |-> p, sender |-> sender, snap |-> store])
    BY <2>1, UpgradeAgrees
  <2>3. AgreeBut(store, store', {})
    BY <2>1, <2>2 DEF AgreeBut
  <2>4. ASSUME NEW fn \in {"run", "upgrade"},
               NEW fr, fr = [fn |-> fn, proxy |-> p, sender |-> sender, snap |-> store],
               calls' = Append(calls, fr)
        PROVE  Asleep'
    <3>1. fr \in Delegation /\ fr.snap = store /\ fr.proxy \notin Uups
      BY <1>1, <2>1, <2>4 DEF Delegation
    <3>2. AsleepIn(store, Append(calls, fr))
      BY <1>1, <3>1, AsleepPush DEF Asleep
    <3> QED
      BY <2>3, <2>4, <3>2, AsleepMoved DEF Asleep
  <2> QED
    BY <1>2, <2>2, <2>3, <2>4, KeptAccepts
<1>8. ASSUME NEW p \in Proxy, NEW sender \in Account \cup Proxy, NEW fn \in {"run", "upgrade"},
             ProxyCall(p, sender, fn)
      PROVE  Asleep' /\ Accepts
  <2> DEFINE fr == [fn |-> fn, proxy |-> p, sender |-> sender, snap |-> store]
  <2>1. store' = store /\ calls' = Append(calls, fr) /\ Resolve(p) \in Impl
    BY <1>8 DEF ProxyCall, Delegate, ProxiesAssumption
  <2>2. p \in Uups => store.impl[p] \notin Proxy
    BY <2>1 DEF Resolve, ProxiesAssumption, Holder
  <2>3. fr \in Delegation /\ fr.snap = store /\ fr.proxy = p
    BY <1>1 DEF Delegation
  <2> HIDE DEF fr
  <2>4. AsleepIn(store, Append(calls, fr))
    BY <1>1, <2>2, <2>3, AsleepPush DEF Asleep
  <2>5. AgreeBut(store, store', {})
    BY <2>1 DEF AgreeBut
  <2> QED
    BY <2>1, <2>4, <2>5, KeptAccepts DEF Asleep
<1>9. ASSUME NEW target \in Target, NEW withData \in BOOLEAN, UpgradeToAndCall(target, withData)
      PROVE  Asleep' /\ Accepts
  <2>1. PICK h, sender, below, snap :
          /\ h = Innermost.proxy /\ sender = Innermost.sender /\ below = Front(calls) /\ snap = Innermost.snap
          /\ calls # <<>> /\ ProxiableUUID(target, h)
          /\ Upgrade(h, target, withData, sender, below, snap)
    BY <1>9 DEF UpgradeToAndCall
  <2>2. Innermost \in Delegation /\ h \in Proxy /\ Innermost = Last(calls)
    BY <2>1, TopFits DEF Delegation, Innermost
  <2>3. /\ AgreeBut(store, store', {h}) /\ store'.impl[h] = target
        /\ \/ calls' = below
           \/ \E fn \in {"run", "upgrade"} :
                calls' = Append(below, [fn |-> fn, proxy |-> h, sender |-> sender, snap |-> snap])
    <3>1. Upgrade(h, target, withData, sender, below, snap) /\ h \in Proxy
      BY <2>1, <2>2
    <3> QED
      BY <3>1, UpgradeAgrees
  <2>4. Accepts
    BY <2>1, <2>3 DEF ProxiableUUID, AnswersForAnother, Accepts, AgreeBut
  <2>5. CASE calls' = below
    <3>1. AsleepIn(store', Front(calls))
      BY <1>1, <2>1, <2>2, <2>3, AsleepFront DEF Asleep
    <3> QED
      BY <2>1, <2>4, <2>5, <3>1 DEF Asleep
  <2>6. ASSUME NEW fn \in {"run", "upgrade"},
               NEW fr, fr = [fn |-> fn, proxy |-> h, sender |-> sender, snap |-> snap],
               calls' = Append(below, fr)
        PROVE  Asleep'
    <3>1. fr \in Delegation /\ fr.snap = Last(calls).snap /\ fr.proxy = Last(calls).proxy
      BY <2>1, <2>2, <2>6 DEF Delegation
    <3>2. AsleepIn(store', Append(Front(calls), fr))
      BY <1>1, <2>1, <2>2, <2>3, <3>1, AsleepReplaced DEF Asleep
    <3> QED
      BY <2>1, <2>6, <3>2 DEF Asleep
  <2> QED
    BY <2>3, <2>4, <2>5, <2>6
<1>10. CASE DelegateReturns
  <2>1. calls # <<>> /\ calls' = Front(calls)
    BY <1>10 DEF DelegateReturns
  <2>2. /\ Len(calls) \in Nat \ {0} /\ Fits(Innermost, Len(calls), store, origin)
        /\ Front(calls) \in Seq(Delegation) /\ Len(Front(calls)) = Len(calls) - 1
    BY <1>1, <2>1, TopFits, FrontFacts
  <2>3. CASE Innermost.fn = "init"
    <3>1. Len(calls) = 1 /\ Innermost.proxy \notin store.live
      BY <2>2, <2>3 DEF Fits
    <3>2. Front(calls) = <<>>
      BY <2>2, <3>1, SeqFacts
    <3>3. store'.impl = store.impl
      BY <1>1, <1>10 DEF DelegateReturns, Store
    <3> QED
      BY <2>1, <3>2, <3>3, AsleepEmpty DEF Asleep, Accepts
  <2>4. CASE Innermost.fn # "init"
    <3>1. AgreeBut(store, store', {}) /\ AgreeBut(store, store', {Last(calls).proxy})
      BY <1>10, <2>4 DEF DelegateReturns, AgreeBut
    <3> QED
      BY <1>1, <2>1, <3>1, AsleepFront, KeptAccepts DEF Asleep
  <2> QED
    BY <2>3, <2>4
<1>11. CASE DelegateReverts
  <2>1. calls # <<>> /\ calls' = Front(calls) /\ store' = Innermost.snap
    BY <1>11 DEF DelegateReverts
  <2>2. Len(calls) \in 1..Len(calls) /\ Innermost = calls[Len(calls)] /\ Innermost = Last(calls)
    BY <1>1, <2>1, FrontFacts DEF Innermost
  <2>3. Innermost.snap.live = store.live
    BY <2>1, TopFits DEF Fits, Akin
  <2>4. Asleep'
    BY <1>1, <2>1, <2>2, <2>3, AsleepReverted DEF Asleep
  <2>5. ASSUME NEW p \in store.live \cap Uups, store.impl[p] \in UupsImpl
        PROVE  store'.impl[p] \in UupsImpl
    <3>1. store'.impl[p] \in Acceptable
      BY <2>1, <2>2, <2>5 DEF Steady, SameUpgradeable, Acceptable
    <3>2. store'.impl[p] \in Proxy => store.impl[p] \in Proxy
      <4>1. calls[Len(calls)].snap.impl[p] \in Proxy => store.impl[p] = calls[Len(calls)].snap.impl[p]
        BY <2>2, <2>5 DEF Asleep, AsleepIn
      <4> QED
        BY <2>1, <2>2, <4>1
    <3>3. UupsImpl \cap Proxy = {}
      BY DEF ProxiesAssumption, Holder
    <3> QED
      BY <2>5, <3>1, <3>2, <3>3 DEF Acceptable
  <2> QED
    BY <2>4, <2>5 DEF Accepts
<1> QED
  BY <1>3, <1>4, <1>5, <1>6, <1>7, <1>8, <1>9, <1>10, <1>11 DEF ProxyNext

\* A proxy that upgrades through its @uups implementation never moves to code without
\* the upgrade entry, by whatever upgrades, migrations and reverts; what it may move to
\* besides is a proxy that passed the question on to such code.
THEOREM SpecStaysUpgradeable == ProxySpec => StaysUpgradeable
<1>1. ProxyInit => Steady /\ Asleep
  BY SeqFacts, EmptySeq, AsleepEmpty DEF ProxyInit, Steady, Asleep
<1>2. Inv /\ Inv' /\ Steady /\ [ProxyNext]_proxyVars => Steady'
  BY ProxiesAssumption, NextSteady
<1>3. Inv /\ Steady /\ Asleep /\ [ProxyNext]_proxyVars => Asleep'
  BY ProxiesAssumption, NextAsleep
<1>4. Inv /\ Steady /\ Asleep /\ [ProxyNext]_proxyVars =>
        \A p \in store.live \cap Uups :
          store.impl[p] \in UupsImpl =>
            store'.impl[p] \in UupsImpl \/ AnswersForAnother(store'.impl[p])
  BY ProxiesAssumption, NextAsleep DEF Accepts
<1> QED
  BY <1>1, <1>2, <1>3, <1>4, SpecInv, PTL DEF ProxySpec, StaysUpgradeable
================================================================================
