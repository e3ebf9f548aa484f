------------------------------ MODULE MCContracts ------------------------------
(* Deployed contracts that call one another: guarded entries, and proxies in  *)
(* three deployments.  A behaviour is of one scenario, the rest stands still. *)
EXTENDS ReentrancyGuard, Proxies, TLC

CONSTANTS Scenarios, A, B, Alice, Eve, T, U, P, Q, K, I, J, X

VARIABLE scenario

\* Every beacon proxy is built with the one beacon.
MCBeaconOf == [q \in BeaconProxy |-> K]

\* A transparent proxy and one of a @uups implementation, two implementations of
\* which one is @uups.
Upgrades == INSTANCE Proxies WITH
  Plain <- {}, BeaconProxy <- {}, Beacon <- {}, BeaconOf <- [q \in {} |-> K], Target <- {I, J}

\* A plain proxy, a beacon and its proxy; X is an address without code.
Beacons == INSTANCE Proxies WITH Transparent <- {}, Uups <- {}

\* The same two proxies, and upgrades that may name a proxy.  The beacon can always be
\* called when the proxies are lost.
ProxyTargets == INSTANCE Proxies WITH
  Plain <- {}, BeaconProxy <- {}, BeaconOf <- [q \in {} |-> K],
  Target <- {I, J, T, U}, MaxCalls <- 4

ASSUME Upgrades!ProxiesAssumption /\ Beacons!ProxiesAssumption /\ ProxyTargets!ProxiesAssumption

MCvars == <<scenario, vars, proxyVars>>

MCInit ==
  /\ scenario \in Scenarios
  /\ Init
  /\ CASE scenario \in {"guard", "upgrades"} -> Upgrades!ProxyInit
       [] scenario = "beacons" -> Beacons!ProxyInit
       [] scenario = "proxy targets" -> ProxyTargets!ProxyInit

MCNext ==
  /\ UNCHANGED scenario
  /\ \/ scenario = "guard" /\ Next /\ UNCHANGED proxyVars
     \/ scenario = "upgrades" /\ Upgrades!ProxyNext /\ UNCHANGED vars
     \/ scenario = "beacons" /\ Beacons!ProxyNext /\ UNCHANGED vars
     \/ scenario = "proxy targets" /\ ProxyTargets!ProxyNext /\ UNCHANGED vars

MCSpec == MCInit /\ [][MCNext]_MCvars

\* The scenarios with proxies do not tell the two accounts apart, nor the guard's
\* the two contracts.
Interchangeable == Permutations({A, B}) \cup Permutations({Alice, Eve})
================================================================================
