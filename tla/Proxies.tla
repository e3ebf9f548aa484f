-------------------------------- MODULE Proxies --------------------------------
(***************************************************************************)
(* The upgradeable contracts JETH generates (src/yul.ts): the EIP-1967     *)
(* proxies of @proxy, plain, transparent and beacon, the upgrade entry of  *)
(* @uups implementations, and the @beacon contract.                        *)
(*                                                                         *)
(* A frame is a constructor or a call that runs an implementation in the   *)
(* storage of a proxy.  Implementations are code of somebody else: while   *)
(* one runs it may call any proxy or beacon, and it writes the EIP-1967    *)
(* slots only through the upgrade entry JETH gives it.                     *)
(***************************************************************************)
EXTENDS Integers, Sequences, SequencesExt

CONSTANTS
  Transparent,  \* @proxy('transparent')
  Plain,        \* @proxy with an upgrade entry of its own, open to proxyAdmin()
  Uups,         \* @proxy that leaves upgrades to its @uups implementations
  BeaconProxy,  \* @proxy('beacon')
  Beacon,       \* @beacon
  BeaconOf,     \* the beacon each beacon proxy is built with
  Impl,         \* addresses of implementation code
  UupsImpl,     \* those compiled from @uups classes
  Account,      \* accounts that send transactions
  Target,       \* bound: addresses that deployments and upgrades name
  Nobody,       \* the zero word
  MaxCalls      \* bound: calls running inside one another (1024 in the EVM)

Proxy == Transparent \cup Plain \cup Uups \cup BeaconProxy

\* The contracts that hold the address of an implementation.
Holder == Proxy \cup Beacon

\* An address is an account, implementation code or one kind of contract.
ASSUME ProxiesAssumption ==
  /\ Proxy \cap Beacon = {} /\ Holder \cap Impl = {}
  /\ BeaconProxy \cap (Transparent \cup Plain \cup Uups) = {}
  /\ Uups \cap (Transparent \cup Plain) = {}
  /\ Proxy \cap Account = {} /\ Nobody \notin Account \cup Proxy
  /\ UupsImpl \subseteq Impl
  /\ BeaconOf \in [BeaconProxy -> Beacon]
  /\ MaxCalls \in Nat

VARIABLES
  store,   \* what a reverting call undoes: see Store
  calls,   \* the calls that are running, outermost first
  origin   \* history: the account that sent the last transaction

proxyVars == <<store, calls, origin>>

Store ==
  [ live      : SUBSET Holder,                       \* deployed: it has code
    impl      : [Holder -> Target \cup {Nobody}],    \* implementation slot
    announced : [Holder -> Target \cup {Nobody}],    \* the last Upgraded event
    admin     : [Holder -> Account \cup {Nobody}] ]  \* admin slot, or the owner

\* fn: what the delegated call runs. "init" is a constructor's initialization data,
\* "upgrade" the upgradeToAndCall of a @uups implementation, up to its gate.
Delegation == [fn : {"init", "run", "upgrade"}, proxy : Proxy, sender : Account \cup Proxy,
          snap : Store]

ProxyTypeOK ==
  /\ store \in Store
  /\ calls \in Seq(Delegation)
  /\ origin \in Account \cup {Nobody}

Innermost == Last(calls)

ProxyInit ==
  /\ store = [live      |-> {},
              impl      |-> [h \in Holder |-> Nobody],
              announced |-> [h \in Holder |-> Nobody],
              admin     |-> [h \in Holder |-> Nobody]]
  /\ calls = <<>>
  /\ origin = Nobody

--------------------------------------------------------------------------------
\* extcodesize(a) # 0
HasCode(a) == a \in Impl \cup store.live

\* The implementation a proxy delegates to: its own slot, or what its beacon answers.
Resolve(p) == store.impl[IF p \in BeaconProxy THEN BeaconOf[p] ELSE p]

\* An account starts a transaction, or the innermost running code makes a call; the
\* code of an implementation calls in the name of the proxy it runs in.
CallFrom(sender) ==
  IF calls = <<>> THEN sender \in Account /\ origin' = sender
                   ELSE sender = Innermost.proxy /\ UNCHANGED origin

\* A delegatecall in the name of proxy p, before which the storage was snap.
\* A proxy given as implementation would read p's slot again and never end.
Delegate(fn, code, p, sender, below, snap) ==
  /\ Len(below) < MaxCalls
  /\ code \in IF fn = "upgrade" THEN UupsImpl ELSE Impl
  /\ calls' = Append(below, [fn |-> fn, proxy |-> p, sender |-> sender, snap |-> snap])

\* sstore of the implementation slot, and the Upgraded event.
Upgraded(h, target) ==
  [store EXCEPT !.impl[h] = target, !.announced[h] = target]

\* upgradeProxy and its two copies: code check, slot, event, then the migration data
\* in the new implementation, whose failure fails the whole upgrade.
Upgrade(h, target, withData, sender, below, snap) ==
  /\ HasCode(target)
  /\ store' = Upgraded(h, target)
  /\ \/ ~withData /\ calls' = below
     \/ withData /\ \E fn \in {"run", "upgrade"} :
                      Delegate(fn, target, h, sender, below, snap)

--------------------------------------------------------------------------------
\* constructor of @beacon
DeployBeacon(b, target) ==
  /\ calls = <<>> /\ b \notin store.live
  /\ HasCode(target)
  /\ \E owner \in Account :
       /\ CallFrom(owner)
       /\ store' = [Upgraded(b, target) EXCEPT !.live = @ \cup {b}, !.admin[b] = owner]
  /\ UNCHANGED calls

\* Mutant: the address is not checked for code.
UpgradeBeaconUnchecked(b, sender, target) ==
  /\ b \in store.live /\ CallFrom(sender)
  /\ sender = store.admin[b]
  /\ store' = Upgraded(b, target)
  /\ UNCHANGED calls

\* upgradeTo of @beacon
UpgradeBeacon(b, sender, target) ==
  /\ b \in store.live /\ CallFrom(sender)
  /\ sender = store.admin[b]
  /\ HasCode(target)
  /\ store' = Upgraded(b, target)
  /\ UNCHANGED calls

\* What the constructor has written when the initialization data run; the owner of a
\* @uups implementation is set by those data.
Written(p, target, admin) ==
  IF p \in BeaconProxy THEN store
  ELSE [Upgraded(p, target) EXCEPT !.admin[p] = admin]

\* proxyInit, proxyInitBeacon: the proxy has code once its constructor has returned.
Deploy(p, target, admin, withData) ==
  /\ calls = <<>> /\ p \notin store.live
  /\ p \in Uups /\ ~withData => admin = Nobody
  /\ HasCode(IF p \in BeaconProxy THEN BeaconOf[p] ELSE target)
  /\ \E deployer \in Account :
       /\ CallFrom(deployer)
       /\ IF withData
          THEN /\ store' = Written(p, target, admin)
               /\ Delegate("init", IF p \in BeaconProxy THEN Resolve(p) ELSE target,
                           p, deployer, calls, store)
          ELSE /\ store' = [Written(p, target, admin) EXCEPT !.live = @ \cup {p}]
               /\ UNCHANGED calls

\* Mutant: the caller is not compared with the admin.
AdminUpgradeByAnyone(p, sender, target, withData) ==
  /\ p \in store.live \cap (Transparent \cup Plain) /\ CallFrom(sender)
  /\ Upgrade(p, target, withData, sender, calls, store)

\* The admin branch of a transparent proxy, or the own entry of a plain one.
AdminUpgrade(p, sender, target, withData) ==
  /\ p \in store.live \cap (Transparent \cup Plain) /\ CallFrom(sender)
  /\ sender = store.admin[p]
  /\ Upgrade(p, target, withData, sender, calls, store)

\* The delegate fallback. The admin of a transparent proxy never gets to it.
ProxyCall(p, sender, fn) ==
  /\ p \in store.live /\ CallFrom(sender)
  /\ ~(p \in Transparent /\ sender = store.admin[p])
  /\ Delegate(fn, Resolve(p), p, sender, calls, store)
  /\ UNCHANGED store

\* target.proxiableUUID() returns the implementation slot, asked by proxy p.
\* A proxy passes the question on to its own implementation.
ProxiableUUID(target, p) ==
  \/ target \in UupsImpl
  \/ /\ target \in store.live \cap Proxy
     /\ ~(target \in Transparent /\ p = store.admin[target])
     /\ Resolve(target) \in UupsImpl

\* Mutant: no proxiableUUID staticcall.
UpgradeToAndCallUnasked(target, withData) ==
  /\ calls # <<>> /\ Innermost.fn = "upgrade"
  /\ Innermost.sender = store.admin[Innermost.proxy]
  /\ Upgrade(Innermost.proxy, target, withData, Innermost.sender, Front(calls), Innermost.snap)
  /\ UNCHANGED origin

\* upgradeToAndCall of @uups, from the user's authorizeUpgrade on (the gate is the
\* documented one, the proxy's owner; it may have made calls before it answers).
UpgradeToAndCall(target, withData) ==
  /\ calls # <<>> /\ Innermost.fn = "upgrade"
  /\ Innermost.sender = store.admin[Innermost.proxy]
  /\ ProxiableUUID(target, Innermost.proxy)
  /\ Upgrade(Innermost.proxy, target, withData, Innermost.sender, Front(calls), Innermost.snap)
  /\ UNCHANGED origin

\* The delegated code ends; a constructor leaves the proxy's code behind.
DelegateReturns ==
  /\ calls # <<>> /\ Innermost.fn \in {"init", "run"}
  /\ calls' = Front(calls)
  /\ store' = IF Innermost.fn = "init" THEN [store EXCEPT !.live = @ \cup {Innermost.proxy}] ELSE store
  /\ UNCHANGED origin

\* The delegated code fails, or a gate, a check or a migration does.
DelegateReverts ==
  /\ calls # <<>>
  /\ calls' = Front(calls)
  /\ store' = Innermost.snap
  /\ UNCHANGED origin

ProxyNext ==
  \/ \E b \in Beacon, target \in Target : DeployBeacon(b, target)
  \/ \E b \in Beacon, sender \in Account \cup Proxy, target \in Target :
       UpgradeBeacon(b, sender, target)
  \/ \E p \in Proxy, target \in Target, admin \in Account \cup {Nobody}, withData \in BOOLEAN :
       Deploy(p, target, admin, withData)
  \/ \E p \in Proxy, sender \in Account \cup Proxy, target \in Target, withData \in BOOLEAN :
       AdminUpgrade(p, sender, target, withData)
  \/ \E p \in Proxy, sender \in Account \cup Proxy, fn \in {"run", "upgrade"} :
       ProxyCall(p, sender, fn)
  \/ \E target \in Target, withData \in BOOLEAN : UpgradeToAndCall(target, withData)
  \/ DelegateReturns
  \/ DelegateReverts

ProxySpec == ProxyInit /\ [][ProxyNext]_proxyVars

--------------------------------------------------------------------------------

\* A deployed proxy never delegates to an address without code, where a delegatecall
\* succeeds and does nothing: whatever beacons, upgrades and reverts do, also the
\* upgrades that migrations and initializations start.
RoutesToCode == \A p \in store.live \cap Proxy : HasCode(Resolve(p))

\* Who follows the Upgraded events knows the implementation: events and slots agree
\* when upgrades nest in migrations and when calls revert.
AnnouncedIsCurrent == store.announced = store.impl

\* Nothing runs in the storage of a proxy while its initialization data do.
InitializedAlone ==
  \A i, j \in DOMAIN calls :
    calls[i].fn = "init" /\ calls[i].proxy = calls[j].proxy => i = j

\* What a proxy delegates to: code, the one announced last, and alone until it is set up.
ProxiesRouteToCode == RoutesToCode /\ AnnouncedIsCurrent /\ InitializedAlone

\* The implementation of a deployed contract moves only in a transaction that its admin
\* (or owner) has sent, when that is an account.
AdminBehindEveryMove ==
  [][\A h \in store.live :
       store'.impl[h] # store.impl[h] => origin' = store.admin[h]]_proxyVars

\* A proxy that answers proxiableUUID() with its implementation's answer.
AnswersForAnother(target) == target \in store.live \cap Proxy /\ Resolve(target) \in UupsImpl

\* The anti-brick check: a proxy that upgrades through its @uups implementation never
\* moves to code without the upgrade entry, be it by an upgrade from inside another one
\* or by a revert. What it may move to besides is a proxy that passed the question on.
StaysUpgradeable ==
  [][\A p \in store.live \cap Uups :
       store.impl[p] \in UupsImpl =>
         store'.impl[p] \in UupsImpl \/ AnswersForAnother(store'.impl[p])]_proxyVars

\* "byte-identical to OZ": a proxy never loses the ability to upgrade again.
NeverBricked ==
  [][\A p \in store.live \cap Uups :
       store.impl[p] \in UupsImpl => store'.impl[p] \in UupsImpl]_proxyVars
================================================================================
