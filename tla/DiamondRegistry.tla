---------------------------- MODULE DiamondRegistry ----------------------------
(***************************************************************************)
(* What every generated @diamond promises, whatever its storage model: a   *)
(* table from function selectors to facets that calls edit one selector at *)
(* a time, and whose edits vanish when the call that made them reverts.    *)
(* DiamondArray, DiamondPacked and DiamondSolidstate implement this module.*)
(***************************************************************************)
EXTENDS Integers, Sequences

CONSTANTS
  Selector,   \* the bytes4 function selectors
  Address,    \* the non-zero addresses
  Zero,       \* address(0)
  Self,       \* address(this): the diamond
  HasCode     \* the addresses whose code is not empty

VARIABLES
  route,      \* selector -> the facet it is routed to, Zero when none
  frozen,     \* freezeDiamond() has run
  undo        \* what each running call restores if it reverts, outermost first

vars == <<route, frozen, undo>>

Image == [route : [Selector -> HasCode \union {Zero}], frozen : BOOLEAN]

TypeOK ==
  /\ route \in [Selector -> HasCode \union {Zero}]
  /\ frozen \in BOOLEAN
  /\ undo \in Seq(Image)

Init ==
  /\ route = [s \in Selector |-> Zero]
  /\ frozen = FALSE
  /\ undo = <<>>

Pop(stack) == SubSeq(stack, 1, Len(stack) - 1)

\* A call into the diamond starts; what it does can still be undone.
Enter ==
  /\ undo' = Append(undo, [route |-> route, frozen |-> frozen])
  /\ UNCHANGED <<route, frozen>>

\* A selector that nobody serves is given to a facet that has code.
Install(s, f) ==
  /\ undo # <<>> /\ ~frozen
  /\ route[s] = Zero
  /\ route' = [route EXCEPT ![s] = f]
  /\ UNCHANGED <<frozen, undo>>

\* A served selector moves to another facet, unless the diamond itself serves it.
Reroute(s, f) ==
  /\ undo # <<>> /\ ~frozen
  /\ route[s] \notin {Zero, Self, f}
  /\ route' = [route EXCEPT ![s] = f]
  /\ UNCHANGED <<frozen, undo>>

\* A served selector is dropped, unless the diamond itself serves it.
Uninstall(s) ==
  /\ undo # <<>> /\ ~frozen
  /\ route[s] \notin {Zero, Self}
  /\ route' = [route EXCEPT ![s] = Zero]
  /\ UNCHANGED <<frozen, undo>>

\* Freezing has no inverse: only the revert of the freezing call undoes it.
Freeze ==
  /\ frozen' = TRUE
  /\ UNCHANGED <<route, undo>>

Return ==
  /\ undo # <<>>
  /\ undo' = Pop(undo)
  /\ UNCHANGED <<route, frozen>>

Revert ==
  /\ undo # <<>>
  /\ route' = undo[Len(undo)].route
  /\ frozen' = undo[Len(undo)].frozen
  /\ undo' = Pop(undo)

Next ==
  \/ Enter
  \/ \E s \in Selector, f \in HasCode : Install(s, f) \/ Reroute(s, f)
  \/ \E s \in Selector : Uninstall(s)
  \/ Freeze
  \/ Return
  \/ Revert

Spec == Init /\ [][Next]_vars

\* The image of the table outside every running call: what a block explorer sees.
Committed == IF undo = <<>> THEN [route |-> route, frozen |-> frozen] ELSE undo[1]

================================================================================
