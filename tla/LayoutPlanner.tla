---------------------------- MODULE LayoutPlanner ----------------------------
(* A contract, or a struct, declared one variable after the other, and the   *)
(* places the planner gives its variables.                                   *)
EXTENDS StorageLayout, FiniteSets

CONSTANTS Types,      \* the types a variable may have
          MaxVars     \* bound: variables declared

VARIABLE declared     \* the types, in declaration order

Init == declared = <<>>

\* the planner is given the variables in declaration order
Declare(t) == /\ Len(declared) < MaxVars
              /\ declared' = Append(declared, t)

Next == \E t \in Types : Declare(t)

Spec == Init /\ [][Next]_declared

-----------------------------------------------------------------------------
Whole == Struct(declared)

\* the lanes a leaf takes, numbered through storage
LanesOf(leaf) == LET first == leaf.slot * Lanes + leaf.off
                 IN first .. first + leaf.type.size - 1

\* The values of a whole declaration, and of an array of such structs, take
\* lanes of their own, all inside the slots counted for it, and one word each,
\* in order, of the unpacked image (layout.ts planLayout, types.ts
\* storageSlotCount and structStorageLeaves, written apart, agree).
Apart(t) ==
  LET leaves == Leaves(t)
  IN /\ \A i \in DOMAIN leaves :
          /\ leaves[i].word = i - 1
          /\ leaves[i].off + leaves[i].type.size <= Lanes
          /\ leaves[i].slot < SlotCount(t)
     /\ Cardinality(UNION { LanesOf(leaves[i]) : i \in DOMAIN leaves })
          = FoldLeft(LAMBDA n, l : n + l.type.size, 0, leaves)

ValuesApart == IsStatic(Whole) => Apart(Whole) /\ Apart(Fixed(Whole, 2))

\* Each variable stands at the first place after the one before it that
\* Solidity's rules allow: a small value inside one slot, everything else at
\* the start of one (layout.ts "reproduces Solidity's slot assignment").
Extent(t) == IF IsValue(t) THEN t.size ELSE SlotCount(t) * Lanes

Allowed(t, p) == IF IsValue(t) THEN (p % Lanes) + t.size <= Lanes ELSE p % Lanes = 0

FirstFit ==
  LET plan == Plan(declared)
      at(i) == plan[i].slot * Lanes + plan[i].off
      after(i) == IF i = 1 THEN 0 ELSE at(i - 1) + Extent(declared[i - 1])
  IN \A i \in DOMAIN declared :
       /\ at(i) >= after(i)
       /\ Allowed(declared[i], at(i))
       /\ \A p \in after(i) .. at(i) - 1 : ~Allowed(declared[i], p)

\* The slots counted for a declaration reach the end of its last variable and
\* no further, so the next namespace or struct begins right after it.
CountedExactly ==
  declared # <<>> =>
    LET last == Last(Plan(declared))
        end == last.slot * Lanes + last.off + Extent(Last(declared))
    IN /\ PlanSlots(declared) = CeilDiv(end, Lanes)
       /\ SlotCount(Whole) = PlanSlots(declared)
=============================================================================
