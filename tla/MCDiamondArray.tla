---------------------------- MODULE MCDiamondArray ----------------------------
(* Model values for DiamondArray; the names say which parts they play. *)
EXTENDS DiamondArray, TLC

CONSTANTS OwnSel, SelA, SelB, FacetA, FacetB, Eoa

\* Facets and routed selectors are interchangeable; the diamond, the account
\* without code and the diamond's own selector are not.
Interchangeable == Permutations({SelA, SelB}) \union Permutations({FacetA, FacetB})

\* Bound: while calls are nested the diamond knows one facet and routes one
\* selector beside its own.
NestedCallsAreSmall ==
  Len(frames) > 1 =>
    LET images == {store} \union {frames[i].snap : i \in DOMAIN frames}
    IN  /\ \E f \in {FacetA, FacetB} : \A d \in images :
             (\A s \in Selector : d.facet[s] # f) /\ (\A i \in DOMAIN d.addrs : d.addrs[i] # f)
        /\ \E s \in {SelA, SelB} : \A d \in images : d.facet[s] = Zero
================================================================================
