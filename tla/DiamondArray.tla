------------------------------ MODULE DiamondArray ------------------------------
(***************************************************************************)
(* The contract that `@diamond('array')` expands to (src/diamond.ts,       *)
(* synthesizeDiamondBody): the diamond-3 storage layout, in which every    *)
(* selector knows its facet and its place in the facet's selector array,   *)
(* and every facet knows its place in the array of facets.                 *)
(*                                                                         *)
(* `store` is the diamond's storage.  A call into the diamond is a frame   *)
(* that keeps the storage it started from, because the EVM restores it     *)
(* when the call reverts.  The words of the calldata are chosen as the     *)
(* loops of diamondCut read them, which yields every possible calldata.    *)
(* Array indices are zero-based as in the code: element i of an array is   *)
(* element i + 1 of the sequence that stands for it.                       *)
(***************************************************************************)
EXTENDS Integers, Sequences, FiniteSets

CONSTANTS
  Selector,   \* the bytes4 function selectors
  Address,    \* the non-zero addresses
  Zero,       \* address(0)
  Self,       \* address(this): the diamond
  HasCode,    \* the addresses whose code.length > 0
  OwnSelector,\* the selectors of the diamond's own functions
  MaxDepth    \* bound: calls running inside one another

ASSUME DiamondAssumption ==
  /\ Zero \notin Address
  /\ HasCode \subseteq Address
  /\ Self \in HasCode
  /\ OwnSelector \subseteq Selector
  /\ MaxDepth \in Nat

VARIABLES
  store,      \* the storage at the diamond.standard.diamond.storage base
  frames      \* the calls that are running, outermost first

vars == <<store, frames>>

Facet == Address \union {Zero}

Storage ==
  [ owner    : Facet,
    frozen   : BOOLEAN,
    facet    : [Selector -> Facet],          \* _sel2facet[s].facetAddress
    pos      : [Selector -> Nat],            \* _sel2facet[s].functionSelectorPosition
    sels     : [Address -> Seq(Selector)],   \* _facetSelectors[f].functionSelectors
    facetPos : [Address -> Nat],             \* _facetSelectors[f].facetAddressPosition
    addrs    : Seq(Address) ]                \* _facetAddresses

\* phase "cut": diamondCut is in its loops; "ext": code outside the diamond runs
\* (the _init delegatecall, or a facet reached through the router).
\* act: the action of the FacetCut being applied, "none" between two of them;
\* sp: its local __sp; seen: it has applied a selector.
Frame ==
  [ snap  : Storage,
    phase : {"cut", "ext"},
    act   : {"none", "add", "replace", "remove"},
    to    : Facet,
    sp    : Nat,
    seen  : BOOLEAN ]

TypeOK ==
  /\ store \in Storage
  /\ frames \in Seq(Frame)

--------------------------------------------------------------------------------
(* Storage helpers: the three internal functions of the synthesized contract. *)

Pop(seq) == SubSeq(seq, 1, Len(seq) - 1)

\* __addFacet, after its require
AddFacet(d, f) ==
  [d EXCEPT !.facetPos[f] = Len(d.addrs), !.addrs = Append(@, f)]

\* __addFunction
AddFunction(d, s, sp, f) ==
  [d EXCEPT !.pos[s] = sp, !.sels[f] = Append(@, s), !.facet[s] = f]

\* Mutant: the selector that fills the gap keeps its old place.
TakeSelectorStalePosition(d, f, s) ==
  [d EXCEPT !.sels[f] = Pop([@ EXCEPT ![d.pos[s] + 1] = d.sels[f][Len(d.sels[f])]]),
            !.pos[s] = 0, !.facet[s] = Zero]

\* __removeFunction: the last selector of the facet fills the gap, the array is
\* popped and the record deleted.  (The code skips the move when the selector is
\* itself the last one, which is the same.)
TakeSelector(d, f, s) ==
  LET sp      == d.pos[s]
      lastSel == d.sels[f][Len(d.sels[f])]
  IN  [d EXCEPT !.sels[f] = Pop([@ EXCEPT ![sp + 1] = lastSel]),
                !.pos     = [@ EXCEPT ![lastSel] = sp, ![s] = 0],
                !.facet[s] = Zero]

\* __removeFunction: a facet left without selectors leaves _facetAddresses in the
\* same way.
DropFacet(d, f) ==
  LET fap    == d.facetPos[f]
      lastFa == d.addrs[Len(d.addrs)]
  IN  [d EXCEPT !.addrs    = Pop([@ EXCEPT ![fap + 1] = lastFa]),
                !.facetPos = [@ EXCEPT ![lastFa] = fap, ![f] = 0]]

\* Mutant: the facet is dropped while one selector is left.
RemoveFunctionEarly(d, f, s) ==
  IF Len(d.sels[f]) = 2 THEN DropFacet(TakeSelector(d, f, s), f)
                        ELSE TakeSelector(d, f, s)

RemoveFunction(d, f, s) ==
  IF Len(d.sels[f]) = 1 THEN DropFacet(TakeSelector(d, f, s), f)
                        ELSE TakeSelector(d, f, s)

--------------------------------------------------------------------------------
(* Calls.  A call that fails a require before it changes anything is a stutter. *)

Top == frames[Len(frames)]

\* Who may call the diamond now: anybody when no call runs, otherwise the code
\* that the innermost frame has handed control to.
CanCall(sender) ==
  \/ frames = <<>> /\ sender \in Address
  \/ frames # <<>> /\ Top.phase = "ext" /\ sender \in HasCode

Enter(phase) ==
  /\ Len(frames) < MaxDepth
  /\ frames' = Append(frames, [snap |-> store, phase |-> phase, act |-> "none",
                               to |-> Zero, sp |-> 0, seen |-> FALSE])
  /\ UNCHANGED store

Return ==
  /\ frames' = Pop(frames)
  /\ UNCHANGED store

Revert ==
  /\ store' = Top.snap
  /\ frames' = Pop(frames)

SetTop(frame) == frames' = [frames EXCEPT ![Len(frames)] = frame]

Cutting == frames # <<>> /\ Top.phase = "cut"
Applying(act) == Cutting /\ Top.act = act

Init ==
  /\ \E owner \in Facet :
       store = [owner |-> owner, frozen |-> FALSE,
                facet |-> [s \in Selector |-> Zero], pos |-> [s \in Selector |-> 0],
                sels |-> [f \in Address |-> <<>>], facetPos |-> [f \in Address |-> 0],
                addrs |-> <<>>]
  /\ frames = <<>>

TransferOwnership(sender, newOwner) ==
  /\ CanCall(sender)
  /\ sender = store.owner
  /\ store' = [store EXCEPT !.owner = newOwner]
  /\ UNCHANGED frames

FreezeDiamond(sender) ==
  /\ CanCall(sender)
  /\ sender = store.owner
  /\ store' = [store EXCEPT !.frozen = TRUE]
  /\ UNCHANGED frames

\* A selector that is not one of the diamond's own reaches the router, which
\* delegatecalls the facet registered for it and reverts when there is none.
Route(sender, s) ==
  /\ CanCall(sender)
  /\ s \notin OwnSelector
  /\ store.facet[s] # Zero
  /\ Enter("ext")

\* Mutant: the frozen flag is not read.
DiamondCutWhileFrozen(sender) ==
  /\ CanCall(sender)
  /\ sender = store.owner
  /\ Enter("cut")

DiamondCut(sender) ==
  /\ CanCall(sender)
  /\ sender = store.owner
  /\ ~store.frozen
  /\ Enter("cut")

--------------------------------------------------------------------------------
(* The loops of diamondCut. *)

\* Head of the outer loop: the requires on one FacetCut, and __addFacet when the
\* facet of an Add or a Replace has no selector yet.
StartAddOrReplace(act, f) ==
  /\ Applying("none")
  /\ f # Zero
  /\ LET sp == Len(store.sels[f]) IN
       /\ sp = 0 => f \in HasCode
       /\ store' = IF sp = 0 THEN AddFacet(store, f) ELSE store
       /\ SetTop([Top EXCEPT !.act = act, !.to = f, !.sp = sp, !.seen = FALSE])

StartRemove ==
  /\ Applying("none")
  /\ SetTop([Top EXCEPT !.act = "remove", !.to = Zero, !.seen = FALSE])
  /\ UNCHANGED store

\* Mutant: a selector that is already served is added again.
AddSelectorTwice(s) ==
  /\ Applying("add")
  /\ store' = AddFunction(store, s, Top.sp, Top.to)
  /\ SetTop([Top EXCEPT !.sp = @ + 1, !.seen = TRUE])

AddSelector(s) ==
  /\ Applying("add")
  /\ store.facet[s] = Zero
  /\ store' = AddFunction(store, s, Top.sp, Top.to)
  /\ SetTop([Top EXCEPT !.sp = @ + 1, !.seen = TRUE])

ReplaceSelector(s) ==
  /\ Applying("replace")
  /\ store.facet[s] \notin {Top.to, Zero, Self}
  /\ store' = AddFunction(RemoveFunction(store, store.facet[s], s), s, Top.sp, Top.to)
  /\ SetTop([Top EXCEPT !.sp = @ + 1, !.seen = TRUE])

RemoveSelector(s) ==
  /\ Applying("remove")
  /\ store.facet[s] \notin {Zero, Self}
  /\ store' = RemoveFunction(store, store.facet[s], s)
  /\ SetTop([Top EXCEPT !.seen = TRUE])

\* The inner loop ends; __m > 0 was required, so it ran at least once.
EndFacetCut ==
  /\ Cutting /\ Top.act # "none" /\ Top.seen
  /\ SetTop([Top EXCEPT !.act = "none", !.to = Zero, !.sp = 0, !.seen = FALSE])
  /\ UNCHANGED store

\* DiamondCut is emitted; without an _init the call returns, otherwise _init must
\* have code and is delegatecalled.
FinishCut ==
  /\ Applying("none")
  /\ Return

DelegateInit(init) ==
  /\ Applying("none")
  /\ init \in HasCode
  /\ SetTop([Top EXCEPT !.phase = "ext"])
  /\ UNCHANGED store

ExtReturns ==
  /\ frames # <<>> /\ Top.phase = "ext"
  /\ Return

\* A require fails, a checked operation panics, the _init address has no code,
\* or the delegatecalled code fails: the whole call is undone.
CallReverts ==
  /\ frames # <<>>
  /\ Revert

Next ==
  \/ \E sender \in Address :
       \/ \E newOwner \in Facet : TransferOwnership(sender, newOwner)
       \/ FreezeDiamond(sender)
       \/ \E s \in Selector : Route(sender, s)
       \/ DiamondCut(sender)
  \/ \E act \in {"add", "replace"}, f \in Address : StartAddOrReplace(act, f)
  \/ StartRemove
  \/ \E s \in Selector : AddSelector(s) \/ ReplaceSelector(s) \/ RemoveSelector(s)
  \/ EndFacetCut
  \/ FinishCut
  \/ \E init \in Address : DelegateInit(init)
  \/ ExtReturns
  \/ CallReverts

Spec == Init /\ [][Next]_vars

--------------------------------------------------------------------------------
(* What makes the five storage fields one table. *)

Listed(d, f) == \E i \in DOMAIN d.addrs : d.addrs[i] = f

\* The facet that StartAddOrReplace has just listed and that has no selector yet.
Pending ==
  IF Cutting /\ Top.act \in {"add", "replace"} /\ ~Top.seen /\ Top.sp = 0 THEN {Top.to} ELSE {}

Indexed(d) ==
  /\ \A s \in Selector : d.facet[s] # Zero =>
       /\ d.pos[s] < Len(d.sels[d.facet[s]])
       /\ d.sels[d.facet[s]][d.pos[s] + 1] = s
  /\ \A f \in Address : \A i \in DOMAIN d.sels[f] :
       /\ d.facet[d.sels[f][i]] = f
       /\ d.pos[d.sels[f][i]] = i - 1

FacetsIndexed(d, pending) ==
  /\ \A i \in DOMAIN d.addrs : d.facetPos[d.addrs[i]] = i - 1
  /\ \A f \in Address : Listed(d, f) <=> (d.sels[f] # <<>> \/ f \in pending)

Clean(d) ==
  /\ \A s \in Selector : d.facet[s] = Zero => d.pos[s] = 0
  /\ \A f \in Address : ~Listed(d, f) => d.facetPos[f] = 0

\* The selector index and the selector arrays of the facets are inverse of one
\* another after every storage write group of diamondCut and in every image a
\* revert can bring back, so swap-and-pop never moves or drops a wrong selector.
SelectorsIndexed ==
  /\ Indexed(store)
  /\ \A i \in DOMAIN frames : Indexed(frames[i].snap)

\* facetAddresses() lists exactly the facets that serve a selector, each once and
\* at the place its record says: the guide's "contains no stale address".
NoStaleFacet ==
  /\ FacetsIndexed(store, Pending)
  /\ \A i \in DOMAIN frames : FacetsIndexed(frames[i].snap, {})

\* What Remove and the swaps leave behind is zero: a selector or a facet that is
\* installed again does not inherit a position.
NoResidue ==
  /\ Clean(store)
  /\ \A i \in DOMAIN frames : Clean(frames[i].snap)

\* A facet is only asked for its code when its selector array is empty; still no
\* selector is ever routed to an address without code.
RoutedFacetsHaveCode == \A s \in Selector : store.facet[s] \in HasCode \union {Zero}

\* The local __sp of Add and Replace, read once before the inner loop and counted
\* up, stays the length of the facet's array, although a Replace shrinks arrays.
PositionTracksLength ==
  Cutting /\ Top.act \in {"add", "replace"} => Top.sp = Len(store.sels[Top.to])

\* The five storage fields are one table, and the locals of a running cut fit it.
IndexesConsistent ==
  /\ TypeOK
  /\ SelectorsIndexed
  /\ NoStaleFacet
  /\ NoResidue
  /\ RoutedFacetsHaveCode
  /\ PositionTracksLength

\* The four loupe functions of the generated contract.
facetAddresses == store.addrs
facetFunctionSelectors(f) == store.sels[f]
facets == [i \in DOMAIN store.addrs |->
             [facetAddress |-> store.addrs[i], functionSelectors |-> store.sels[store.addrs[i]]]]

\* Whenever another contract can ask, facets() reports every routed selector once,
\* under the facet the router would delegatecall for it, and nothing else.
LoupeMatchesRouter ==
  ~Cutting =>
    \A s \in Selector :
      LET reported == UNION {{i} \X DOMAIN facets[i].functionSelectors : i \in DOMAIN facets}
          entries  == {e \in reported : facets[e[1]].functionSelectors[e[2]] = s}
      IN  IF store.facet[s] = Zero THEN entries = {}
          ELSE \E e \in entries :
                 /\ entries = {e}
                 /\ facets[e[1]].facetAddress = store.facet[s]

\* The storage outside every running call.
Committed == IF frames = <<>> THEN store ELSE frames[1].snap

\* Once a frozen diamond is committed, no call sequence, reentered or reverted,
\* changes the routing or thaws it.
FrozenForever ==
  [][Committed.frozen => /\ Committed'.frozen
                         /\ Committed'.facet = Committed.facet
                         /\ Committed'.addrs = Committed.addrs]_vars

\* A selector routed to the diamond itself is immutable: neither Replace nor Remove
\* moves it, whatever the order in which it was added.
ImmutableSelectors ==
  [][\A s \in Selector : Committed.facet[s] = Self => Committed'.facet[s] = Self]_vars

\* What is promised of the routing of a committed diamond, whatever calls follow.
RoutesKept == FrozenForever /\ ImmutableSelectors

\* The array model implements the table of DiamondRegistry.
Registry == INSTANCE DiamondRegistry WITH
  route  <- store.facet,
  frozen <- store.frozen,
  undo   <- [i \in DOMAIN frames |-> [route |-> frames[i].snap.facet,
                                      frozen |-> frames[i].snap.frozen]]

\* Every call of diamondCut, freezeDiamond and the router is a sequence of the
\* abstract table's edits, and every revert is its undo.
ImplementsRegistry == Registry!Spec
================================================================================
