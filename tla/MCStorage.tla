------------------------------ MODULE MCStorage ------------------------------
(* Storage of four lanes to a slot: two small integers share one, an address *)
(* leaves room for a flag.  A behaviour either runs statements on variables  *)
(* of one type or declares variables for the planner.                        *)
EXTENDS StorageArrays

CONSTANT Scenarios

VARIABLES scenario, declared

Small == Uint(2)

\* The types of the variables, each with its bounds: the elements an array may
\* have and the words of storage that may be in use.
Bounds ==
  \* arrays of values and byte strings
     Dyn(Small) :> <<3, 6>> @@ Dyn(Address(3)) :> <<2, 7>> @@ Dyn(Bytes) :> <<2, 7>>
  @@ Fixed(Bytes, 2) :> <<1, 9>> @@ Map(Bytes) :> <<1, 7>>
  \* arrays of arrays, with a length or without
  @@ Dyn(Dyn(Small)) :> <<2, 6>> @@ Fixed(Dyn(Small), 2) :> <<2, 6>>
  @@ Dyn(Fixed(Uint(4), 2)) :> <<2, 6>> @@ Dyn(Fixed(Bytes, 2)) :> <<2, 6>>
  @@ Dyn(Fixed(Small, 2)) :> <<2, 5>>
  \* structs: with arrays inside, inside an array, with a mapping
  @@ Struct(<<Uint(1), Address(3), Dyn(Small), Bytes, Fixed(Uint(1), 2)>>) :> <<2, 4>>
  @@ Dyn(Struct(<<Uint(1), Dyn(Small), Bytes>>)) :> <<2, 5>>
  @@ Dyn(Struct(<<Uint(1), Uint(4)>>)) :> <<2, 6>>
  @@ Struct(<<Map(Small), Uint(1), Bytes>>) :> <<2, 7>>

MCTypes == DOMAIN Bounds
MCMaxLen == [t \in MCTypes |-> Bounds[t][1]]
MCMaxWords == [t \in MCTypes |-> Bounds[t][2]]
MCEffects == {"none", "grow", "shrink"}

\* values of one, two and three lanes, an address, whole slots, and aggregates
\* with a slot begun
Planner == INSTANCE LayoutPlanner WITH
  MaxVars <- 4,
  Types <- { Uint(1), Uint(2), Uint(3), Uint(4), Address(3), Bytes, Dyn(Uint(1)),
             Fixed(Uint(2), 3), Fixed(Address(3), 2), Fixed(Uint(3), 2),
             Struct(<<Uint(1), Address(3), Uint(2)>>), Fixed(Fixed(Uint(2), 3), 2) }

MCvars == <<scenario, vars, declared>>

MCInit == /\ scenario \in Scenarios
          /\ Init
          /\ scenario = "planner" => type = Map(Bytes)
          /\ Planner!Init

MCNext == /\ UNCHANGED scenario
          /\ \/ scenario = "statements" /\ Next /\ UNCHANGED declared
             \/ scenario = "planner" /\ Planner!Next /\ UNCHANGED vars

MCSpec == MCInit /\ [][MCNext]_MCvars

\* The variables of a contract take lanes of their own at the first places the
\* layout rules allow, and the slots counted for them end where they end.
PlacesAsSolidity == Planner!ValuesApart /\ Planner!FirstFit /\ Planner!CountedExactly
=============================================================================
