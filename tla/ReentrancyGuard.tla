---------------------------- MODULE ReentrancyGuard ----------------------------
(***************************************************************************)
(* The mutex that @nonReentrant puts around an external entry (src/yul.ts, *)
(* emitDispatchCase): one transient word per contract, tested and set      *)
(* after the arguments are decoded, cleared before every `return(`.        *)
(*                                                                         *)
(* A frame is a running call.  It runs some code in the transient storage  *)
(* of a contract: an ordinary call in that of the callee, a delegatecall   *)
(* (a proxy to its implementation, a diamond to a facet) in that of the    *)
(* caller.  The EVM restores the words a reverting frame has written and   *)
(* wipes them when the transaction ends.                                   *)
(***************************************************************************)
EXTENDS Integers, Sequences

CONSTANTS
  Contract,   \* the contracts, each with its transient storage
  MaxDepth    \* bound: calls running inside one another (1024 in the EVM)

ASSUME GuardAssumption == MaxDepth \in Nat

VARIABLES
  tslot,      \* contract -> the word at REENTRANCY_TSLOT is set
  frames      \* the calls that are running, outermost first

vars == <<tslot, frames>>

\* guarded: the frame's entry is @nonReentrant; phase "decode" before the guard is
\* passed, "body" while its code runs, "reset" after tstore(slot, 0).
Frame ==
  [ context : Contract,
    guarded : BOOLEAN,
    phase   : {"decode", "body", "reset"},
    snap    : [Contract -> BOOLEAN] ]

TypeOK ==
  /\ tslot \in [Contract -> BOOLEAN]
  /\ frames \in Seq(Frame)

Pop(seq) == SubSeq(seq, 1, Len(seq) - 1)
Top == frames[Len(frames)]
SetTop(frame) == frames' = [frames EXCEPT ![Len(frames)] = frame]

Init ==
  /\ tslot = [c \in Contract |-> FALSE]
  /\ frames = <<>>

\* A transaction, or the body of the innermost frame, calls a contract or runs code in
\* its own context by delegatecall (context is then the frame's own).
Call(context, guarded) ==
  /\ frames # <<>> => Top.phase = "body"
  /\ Len(frames) < MaxDepth
  /\ frames' = Append(frames, [context |-> context, guarded |-> guarded,
                               phase |-> "decode", snap |-> tslot])
  /\ UNCHANGED tslot

\* An entry that is not guarded goes straight to its body.
EnterPlain ==
  /\ frames # <<>>
  /\ Top.phase = "decode" /\ ~Top.guarded
  /\ SetTop([Top EXCEPT !.phase = "body"])
  /\ UNCHANGED tslot

\* Mutant: the word is set without being tested.
EnterGuardedUntested ==
  /\ frames # <<>>
  /\ Top.phase = "decode" /\ Top.guarded
  /\ tslot' = [tslot EXCEPT ![Top.context] = TRUE]
  /\ SetTop([Top EXCEPT !.phase = "body"])

\* if tload(slot) { revert }; tstore(slot, 1)
EnterGuarded ==
  /\ frames # <<>>
  /\ Top.phase = "decode" /\ Top.guarded
  /\ ~tslot[Top.context]
  /\ tslot' = [tslot EXCEPT ![Top.context] = TRUE]
  /\ SetTop([Top EXCEPT !.phase = "body"])

\* Mutant: the reset is forgotten.
ResetNothing ==
  /\ frames # <<>>
  /\ Top.phase = "body" /\ Top.guarded
  /\ SetTop([Top EXCEPT !.phase = "reset"])
  /\ UNCHANGED tslot

\* The line before `return(`: the returned value is already in memory, so nothing
\* that could call out runs between the reset and the return.
Reset ==
  /\ frames # <<>>
  /\ Top.phase = "body" /\ Top.guarded
  /\ tslot' = [tslot EXCEPT ![Top.context] = FALSE]
  /\ SetTop([Top EXCEPT !.phase = "reset"])

\* The end of a transaction wipes transient storage.
Wiped(t, rest) == IF rest = <<>> THEN [c \in Contract |-> FALSE] ELSE t

Return ==
  /\ frames # <<>>
  /\ Top.phase = (IF Top.guarded THEN "reset" ELSE "body")
  /\ frames' = Pop(frames)
  /\ tslot' = Wiped(tslot, frames')

\* The guard trips, the body fails or a callee's failure is bubbled up.
Reverts ==
  /\ frames # <<>>
  /\ frames' = Pop(frames)
  /\ tslot' = Wiped(Top.snap, frames')

Next ==
  \/ \E context \in Contract, guarded \in BOOLEAN : Call(context, guarded)
  \/ EnterPlain
  \/ EnterGuarded
  \/ Reset
  \/ Return
  \/ Reverts

Spec == Init /\ [][Next]_vars

--------------------------------------------------------------------------------

\* Frame i is between its guard and its reset.
Inside(i) == frames[i].guarded /\ frames[i].phase = "body"

Holders(c) == {i \in DOMAIN frames : frames[i].context = c /\ Inside(i)}

\* At most one guarded body of a contract is running, however calls, delegatecalls and
\* reverts nest: the guide's "reverts on guarded re-entry", for all guarded entries.
MutualExclusion ==
  \A i, j \in DOMAIN frames :
    Inside(i) /\ Inside(j) /\ frames[i].context = frames[j].context => i = j

\* The word is set exactly while a guarded body of the contract runs: no path, caught
\* reverts of inner calls included, leaves a contract locked for the rest of the
\* transaction, and none unlocks it under a running body.
LockedIffInside == \A c \in Contract : tslot[c] <=> Holders(c) # {}
================================================================================
