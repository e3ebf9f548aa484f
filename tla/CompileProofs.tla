--------------------------- MODULE CompileProofs ----------------------------
(* Around the compiler proper, for any number of callers, pids, inputs and     *)
(* versions, and any program: the cached compiler implements the uncached one, *)
(* and the bundler bundles what it should, in order, and names keep meaning    *)
(* what their files say.                                                       *)
EXTENDS YulCache, ImportBundler, MemberScopes, FiniteSetTheorems, SequenceTheorems, TLAPS

\* What the steps of a call have established.
CallState ==
  \A p \in Proc :
    /\ (pc[p] = "idle") <=> (asked[p] = Idle)
    /\ pc[p] \in {"open", "write", "rename"} => KeyOf(p) \notin Rejected
    /\ (fd[p] # "none") <=> (pc[p] = "write")

TmpHoldsItsKey ==
  \A q \in Pid, k \in Key : Whole(tmp[q][k]) => tmp[q][k] = k /\ k \notin Rejected

IInv == TypeOK /\ CallState /\ NoForeignResult /\ TmpHoldsItsKey

\* With pids of their own, callers write tmp files of their own, and a caller's
\* file stays where it is until that caller renames it or the directory goes.
OwnFiles ==
  OwnPids => \A p \in Proc :
    /\ fd[p] # "json"
    /\ pc[p] = "rename" \/ fd[p] = "unlinked" => tmp[pidOf[p]][KeyOf(p)] # Torn

(***************************************************************************)
(* A caller inside a call holds a key.                                     *)
(***************************************************************************)
LEMMA KeyInKey ==
  ASSUME TypeOK, CallState, NEW p \in Proc, pc[p] # "idle"
  PROVE  /\ asked[p] \in Input
         /\ KeyOf(p) \in Key
         /\ KeyOf(p) \notin Rejected => Assembled(asked[p], solcOf[p]) = KeyOf(p)
BY ServiceAssumption DEF TypeOK, CallState, KeyOf, Key, Result, Assembled

LEMMA InitIInv == CacheInit => IInv
<1> SUFFICES ASSUME CacheInit PROVE IInv
  OBVIOUS
<1> USE DEF CacheInit, Init
<1>1. TypeOK
  BY DEF TypeOK, Steps
<1>2. CallState
  BY DEF CallState
<1>3. NoForeignResult
  BY DEF NoForeignResult, Whole
<1>4. TmpHoldsItsKey
  BY DEF TmpHoldsItsKey, Whole
<1> QED BY <1>1, <1>2, <1>3, <1>4 DEF IInv

(***************************************************************************)
(* The type invariant.                                                     *)
(***************************************************************************)
LEMMA TypeStep ==
  ASSUME IInv, [CacheNext]_cacheVars
  PROVE  TypeOK'
<1>0. pidOf' = pidOf
  BY DEF CacheNext, Step, cacheVars
<1> USE ServiceAssumption, CacheAssumption, <1>0
<1>1. ASSUME NEW p \in Proc, NEW i \in Input, CompileYul(p, i) PROVE TypeOK'
  BY <1>1 DEF IInv, TypeOK, CompileYul, Ask, Goto, Steps, disk
<1>2. ASSUME NEW p \in Proc, LookInMemory(p) PROVE TypeOK'
  <2>1. KeyOf(p) \in Key
    BY <1>2, KeyInKey DEF IInv, LookInMemory
  <2>2. CASE mem[p][KeyOf(p)] # Idle /\ Return(p, mem[p][KeyOf(p)])
    <3>1. mem[p][KeyOf(p)] \in Result
      BY <2>1, <2>2 DEF IInv, TypeOK, Key
    <3> QED BY <1>2, <2>2, <3>1 DEF IInv, TypeOK, LookInMemory, Return, Goto, Steps, disk
  <2>3. CASE Goto(p, "exists") /\ CallOpen
    BY <1>2, <2>3 DEF IInv, TypeOK, LookInMemory, CallOpen, Goto, Steps, disk
  <2> QED BY <1>2, <2>2, <2>3 DEF LookInMemory
<1>3. ASSUME NEW p \in Proc, FileExists(p) PROVE TypeOK'
  BY <1>3 DEF IInv, TypeOK, FileExists, CallOpen, Goto, Steps, disk
<1>4. ASSUME NEW p \in Proc, ReadFile(p) PROVE TypeOK'
  <2>1. KeyOf(p) \in Key
    BY <1>4, KeyInKey DEF IInv, ReadFile
  <2>2. CASE Hit(p)
    BY <1>4, <2>1, <2>2 DEF IInv, TypeOK, ReadFile, Hit, Whole, Return, Goto, Steps, disk, Key
  <2>3. CASE ~Whole(json[KeyOf(p)]) /\ Goto(p, "assemble") /\ CallOpen /\ UNCHANGED mem
    BY <1>4, <2>3 DEF IInv, TypeOK, ReadFile, CallOpen, Goto, Steps, disk
  <2> QED BY <1>4, <2>2, <2>3 DEF ReadFile
<1>5. ASSUME NEW p \in Proc, Assemble(p) PROVE TypeOK'
  <2>1. KeyOf(p) \in Key /\ Assembled(asked[p], solcOf[p]) \in Result \cup {Fail}
    BY <1>5, KeyInKey DEF IInv, Assemble, Assembled, KeyOf, Key
  <2>2. CASE Return(p, Fail) /\ UNCHANGED mem
    BY <1>5, <2>2 DEF IInv, TypeOK, Assemble, Return, Goto, Steps, disk
  <2>3. CASE /\ Assembled(asked[p], solcOf[p]) # Fail
             /\ mem' = [mem EXCEPT ![p][KeyOf(p)] = Assembled(asked[p], solcOf[p])]
             /\ Goto(p, "open") /\ CallOpen
    BY <1>5, <2>1, <2>3 DEF IInv, TypeOK, Assemble, CallOpen, Goto, Steps, disk
  <2> QED BY <1>5, <2>2, <2>3 DEF Assemble
<1>6. ASSUME NEW p \in Proc, OpenTmp(p) PROVE TypeOK'
  BY <1>6 DEF IInv, TypeOK, OpenTmp, CallOpen, Goto, Steps
<1>7. ASSUME NEW p \in Proc, WriteTmp(p) PROVE TypeOK'
  <2>1. KeyOf(p) \in Key /\ Assembled(asked[p], solcOf[p]) \in Result
    BY <1>7, KeyInKey DEF IInv, CallState, WriteTmp, Key
  <2> QED BY <1>7, <2>1 DEF IInv, TypeOK, WriteTmp, CallOpen, Goto, Steps
<1>8. ASSUME NEW p \in Proc, RenameTmp(p) PROVE TypeOK'
  <2>1. KeyOf(p) \in Key /\ Assembled(asked[p], solcOf[p]) \in Result
    BY <1>8, KeyInKey DEF IInv, CallState, RenameTmp, Key
  <2> QED BY <1>8, <2>1 DEF IInv, TypeOK, RenameTmp, Publish, Return, Goto, Steps
<1>9. ASSUME NEW p \in Proc, WriteFails(p) PROVE TypeOK'
  <2>1. Assembled(asked[p], solcOf[p]) \in Result
    BY <1>9, KeyInKey DEF IInv, CallState, WriteFails, Key
  <2> QED BY <1>9, <2>1 DEF IInv, TypeOK, WriteFails, Return, Goto, Steps
<1>10. ASSUME NEW dead \in SUBSET Proc, Die(dead)
       PROVE /\ asked' \in [Proc -> Input \cup {Idle}]
             /\ solcOf' \in [Proc -> Version]
             /\ answer' \in [Proc -> Result \cup {Idle, Fail}]
             /\ pc' \in [Proc -> Steps]
             /\ mem' \in [Proc -> [Key -> Result \cup {Idle}]]
             /\ dirReady' \in [Proc -> BOOLEAN] /\ dir' \in BOOLEAN
             /\ tmp' \in [Pid -> [Key -> Result \cup {Torn, Idle}]]
             /\ fd' \in [Proc -> {"none", "tmp", "json", "unlinked"}]
  BY <1>10 DEF IInv, TypeOK, Die, Restart, Steps
<1>11. ASSUME NEW dead \in SUBSET Proc, Kill(dead) PROVE TypeOK'
  BY <1>10, <1>11 DEF IInv, TypeOK, Kill
<1>12. ASSUME NEW k \in Key, PowerLoss(k) PROVE TypeOK'
  BY <1>10, <1>12 DEF IInv, TypeOK, PowerLoss
<1>13. ASSUME RemoveDir PROVE TypeOK'
  BY <1>13 DEF IInv, TypeOK, RemoveDir, CallOpen
<1>14. ASSUME UNCHANGED cacheVars PROVE TypeOK'
  BY <1>14 DEF IInv, TypeOK, cacheVars, disk
<1> QED
  BY <1>1, <1>2, <1>3, <1>4, <1>5, <1>6, <1>7, <1>8, <1>9, <1>11, <1>12, <1>13, <1>14
  DEF CacheNext, Step

(***************************************************************************)
(* What the steps of a call have established stays so.                     *)
(***************************************************************************)
LEMMA CallStep ==
  ASSUME IInv, [CacheNext]_cacheVars
  PROVE  CallState'
<1> USE ServiceAssumption DEF IInv, TypeOK, CallState, KeyOf
<1>1. ASSUME NEW p \in Proc, NEW i \in Input, CompileYul(p, i) PROVE CallState'
  BY <1>1 DEF CompileYul, Ask, Goto, disk
<1>2. ASSUME NEW p \in Proc, LookInMemory(p) PROVE CallState'
  BY <1>2 DEF LookInMemory, Return, CallOpen, Goto, disk
<1>3. ASSUME NEW p \in Proc, FileExists(p) PROVE CallState'
  BY <1>3 DEF FileExists, CallOpen, Goto, disk
<1>4. ASSUME NEW p \in Proc, ReadFile(p) PROVE CallState'
  BY <1>4 DEF ReadFile, Hit, Return, CallOpen, Goto, disk
<1>5. ASSUME NEW p \in Proc, Assemble(p) PROVE CallState'
  BY <1>5 DEF Assemble, Assembled, Return, CallOpen, Goto, disk
<1>6. ASSUME NEW p \in Proc, OpenTmp(p) PROVE CallState'
  BY <1>6 DEF OpenTmp, CallOpen, Goto
<1>7. ASSUME NEW p \in Proc, WriteTmp(p) PROVE CallState'
  BY <1>7 DEF WriteTmp, CallOpen, Goto
<1>8. ASSUME NEW p \in Proc, RenameTmp(p) PROVE CallState'
  BY <1>8 DEF RenameTmp, Publish, Sharers, Readers, Return, Goto
<1>9. ASSUME NEW p \in Proc, WriteFails(p) PROVE CallState'
  BY <1>9 DEF WriteFails, Return, Goto
<1>10. ASSUME NEW dead \in SUBSET Proc, Die(dead) PROVE CallState'
  BY <1>10 DEF Die, Restart
<1>11. ASSUME RemoveDir PROVE CallState'
  BY <1>11 DEF RemoveDir, CallOpen
<1>12. ASSUME UNCHANGED cacheVars PROVE CallState'
  BY <1>12 DEF cacheVars, disk
<1> QED
  BY <1>1, <1>2, <1>3, <1>4, <1>5, <1>6, <1>7, <1>8, <1>9, <1>10, <1>11, <1>12
  DEF CacheNext, Step, Kill, PowerLoss

(***************************************************************************)
(* Memory, files and half-made files hold only their own key's result.     *)
(***************************************************************************)
LEMMA ResultStep ==
  ASSUME IInv, [CacheNext]_cacheVars
  PROVE  NoForeignResult' /\ TmpHoldsItsKey'
<1> DEFINE MemOK == \A p \in Proc, k \in Key : mem[p][k] # Idle => mem[p][k] = k /\ k \notin Rejected
           JsonOK == \A k \in Key : Whole(json[k]) => json[k] = k /\ k \notin Rejected
<1> SUFFICES MemOK' /\ JsonOK' /\ TmpHoldsItsKey'
  BY DEF NoForeignResult
<1>a. MemOK /\ JsonOK /\ TmpHoldsItsKey /\ TypeOK
  BY DEF IInv, NoForeignResult
<1>b. ASSUME UNCHANGED <<mem, json, tmp>> PROVE MemOK' /\ JsonOK' /\ TmpHoldsItsKey'
  BY <1>a, <1>b DEF TmpHoldsItsKey, Whole
<1>1. ASSUME NEW p \in Proc, NEW i \in Input, CompileYul(p, i) PROVE UNCHANGED <<mem, json, tmp>>
  BY <1>1 DEF CompileYul, disk
<1>2. ASSUME NEW p \in Proc, LookInMemory(p) \/ FileExists(p) \/ WriteFails(p)
      PROVE UNCHANGED <<mem, json, tmp>>
  BY <1>2 DEF LookInMemory, FileExists, WriteFails, disk
<1>3. ASSUME NEW p \in Proc, ReadFile(p) PROVE MemOK' /\ JsonOK' /\ TmpHoldsItsKey'
  <2>1. KeyOf(p) \in Key /\ UNCHANGED <<json, tmp>>
    BY <1>3, KeyInKey DEF IInv, ReadFile, disk
  <2>2. CASE Hit(p)
    BY <1>a, <2>1, <2>2 DEF Hit, Whole, TypeOK, TmpHoldsItsKey
  <2>3. CASE UNCHANGED mem
    BY <1>b, <2>1, <2>3
  <2> QED BY <1>3, <2>2, <2>3 DEF ReadFile
<1>4. ASSUME NEW p \in Proc, Assemble(p) PROVE MemOK' /\ JsonOK' /\ TmpHoldsItsKey'
  <2>1. KeyOf(p) \in Key /\ UNCHANGED <<json, tmp>>
    BY <1>4, KeyInKey DEF IInv, Assemble, disk
  <2>2. CASE Assembled(asked[p], solcOf[p]) # Fail
    <3>1. Assembled(asked[p], solcOf[p]) = KeyOf(p) /\ KeyOf(p) \notin Rejected
      BY <2>2 DEF Assembled, KeyOf
    <3>2. mem' = [mem EXCEPT ![p][KeyOf(p)] = KeyOf(p)]
      BY <1>4, <2>2, <3>1 DEF Assemble
    <3> QED BY <1>a, <2>1, <3>1, <3>2 DEF TypeOK, TmpHoldsItsKey, Whole
  <2>3. CASE Assembled(asked[p], solcOf[p]) = Fail
    BY <1>4, <1>b, <2>1, <2>3 DEF Assemble
  <2> QED BY <2>2, <2>3
<1>5. ASSUME NEW p \in Proc, OpenTmp(p) PROVE MemOK' /\ JsonOK' /\ TmpHoldsItsKey'
  BY <1>a, <1>5 DEF OpenTmp, TypeOK, TmpHoldsItsKey, Whole
<1>6. ASSUME NEW p \in Proc, WriteTmp(p) PROVE MemOK' /\ JsonOK' /\ TmpHoldsItsKey'
  <2>1. /\ KeyOf(p) \in Key /\ KeyOf(p) \notin Rejected
        /\ Assembled(asked[p], solcOf[p]) = KeyOf(p) /\ UNCHANGED mem
    BY <1>6, KeyInKey DEF IInv, CallState, WriteTmp
  <2> QED BY <1>a, <1>6, <2>1 DEF WriteTmp, TypeOK, TmpHoldsItsKey, Whole
<1>7. ASSUME NEW p \in Proc, RenameTmp(p) PROVE MemOK' /\ JsonOK' /\ TmpHoldsItsKey'
  <2>1. KeyOf(p) \in Key /\ pidOf[p] \in Pid
    BY <1>7, KeyInKey, CacheAssumption DEF IInv, TypeOK, RenameTmp
  <2> QED BY <1>a, <1>7, <2>1 DEF RenameTmp, Publish, TypeOK, TmpHoldsItsKey, Whole
<1>8. ASSUME NEW dead \in SUBSET Proc, Kill(dead) PROVE MemOK' /\ JsonOK' /\ TmpHoldsItsKey'
  BY <1>a, <1>8 DEF Kill, Die, TypeOK, TmpHoldsItsKey, Whole
<1>9. ASSUME NEW k \in Key, PowerLoss(k) PROVE MemOK' /\ JsonOK' /\ TmpHoldsItsKey'
  BY <1>a, <1>9 DEF PowerLoss, Die, TypeOK, TmpHoldsItsKey, Whole
<1>10. ASSUME RemoveDir PROVE MemOK' /\ JsonOK' /\ TmpHoldsItsKey'
  BY <1>a, <1>10 DEF RemoveDir, TmpHoldsItsKey, Whole
<1>11. ASSUME UNCHANGED cacheVars PROVE UNCHANGED <<mem, json, tmp>>
  BY <1>11 DEF cacheVars, disk
<1> HIDE DEF MemOK, JsonOK
<1> QED
  BY <1>b, <1>1, <1>2, <1>3, <1>4, <1>5, <1>6, <1>7, <1>8, <1>9, <1>10, <1>11
  DEF CacheNext, Step

(***************************************************************************)
(* Files of one's own.                                                     *)
(***************************************************************************)
LEMMA OwnFilesStep ==
  ASSUME IInv, OwnFiles, RenamePublishesWhole, [CacheNext]_cacheVars
  PROVE  OwnFiles' /\ RenamePublishesWhole'
<1>0. pidOf' = pidOf
  BY DEF CacheNext, Step, cacheVars
<1> SUFFICES ASSUME OwnPids
             PROVE  /\ \A p \in Proc : fd'[p] # "json"
                    /\ \A p \in Proc : pc'[p] = "rename" \/ fd'[p] = "unlinked" =>
                         tmp'[pidOf[p]][<<asked'[p], solcOf'[p]>>] # Torn
                    /\ \A k \in Key : json'[k] = Torn => k \in lost'
  BY <1>0 DEF OwnFiles, RenamePublishesWhole, OwnPids, KeyOf
<1> DEFINE Goal == /\ \A p \in Proc : fd'[p] # "json"
                   /\ \A p \in Proc : pc'[p] = "rename" \/ fd'[p] = "unlinked" =>
                        tmp'[pidOf[p]][<<asked'[p], solcOf'[p]>>] # Torn
                   /\ \A k \in Key : json'[k] = Torn => k \in lost'
<1>a. /\ \A p \in Proc : fd[p] # "json"
      /\ \A p \in Proc : pc[p] = "rename" \/ fd[p] = "unlinked" => tmp[pidOf[p]][<<asked[p], solcOf[p]>>] # Torn
      /\ \A k \in Key : json[k] = Torn => k \in lost
      /\ \A p \in Proc : fd[p] # "none" <=> pc[p] = "write"
      /\ \A p, q \in Proc : pidOf[p] = pidOf[q] => p = q
      /\ TypeOK
      /\ pidOf \in [Proc -> Pid] /\ Idle # Torn
  BY CacheAssumption DEF IInv, TypeOK, CallState, OwnFiles, RenamePublishesWhole, OwnPids, KeyOf
<1> USE <1>a DEF TypeOK
<1>1. ASSUME NEW p \in Proc, NEW i \in Input, CompileYul(p, i) PROVE Goal
  BY <1>1 DEF CompileYul, Ask, Goto, disk
<1>2. ASSUME NEW p \in Proc, LookInMemory(p) PROVE Goal
  BY <1>2 DEF LookInMemory, Return, CallOpen, Goto, disk
<1>3. ASSUME NEW p \in Proc, FileExists(p) PROVE Goal
  BY <1>3 DEF FileExists, CallOpen, Goto, disk
<1>4. ASSUME NEW p \in Proc, ReadFile(p) PROVE Goal
  BY <1>4 DEF ReadFile, Hit, Return, CallOpen, Goto, disk
<1>5. ASSUME NEW p \in Proc, Assemble(p) PROVE Goal
  BY <1>5 DEF Assemble, Return, CallOpen, Goto, disk
<1>6. ASSUME NEW p \in Proc, OpenTmp(p) PROVE Goal
  BY <1>6 DEF OpenTmp, CallOpen, Goto
<1>7. ASSUME NEW p \in Proc, WriteTmp(p) PROVE Goal
  <2>1. /\ KeyOf(p) \in Key /\ Assembled(asked[p], solcOf[p]) = KeyOf(p)
    BY <1>7, KeyInKey DEF IInv, CallState, WriteTmp
  <2>2. KeyOf(p) # Torn
    BY <2>1, CacheAssumption DEF Key, Result
  <2>3. fd' = [fd EXCEPT ![p] = "none"] /\ pc' = [pc EXCEPT ![p] = "rename"]
        /\ UNCHANGED <<asked, solcOf, json, lost>> /\ fd[p] \in {"tmp", "unlinked"}
    BY <1>7 DEF WriteTmp, CallOpen, Goto
  <2>4. tmp' = IF fd[p] = "tmp" THEN [tmp EXCEPT ![pidOf[p]][KeyOf(p)] = KeyOf(p)] ELSE tmp
    BY <1>7, <2>1 DEF WriteTmp
  <2>5. pidOf[p] \in Pid /\ tmp[pidOf[p]] \in [Key -> Result \cup {Torn, Idle}]
    OBVIOUS
  <2>6. \A q \in Proc : fd'[q] # "json"
    BY <2>3
  <2>7. \A k \in Key : json'[k] = Torn => k \in lost'
    BY <2>3
  <2>8. ASSUME NEW q \in Proc, pc'[q] = "rename" \/ fd'[q] = "unlinked"
        PROVE  tmp'[pidOf[q]][<<asked'[q], solcOf'[q]>>] # Torn
    <3>1. CASE q = p
      <4>1. CASE fd[p] = "tmp"
        <5>1. tmp'[pidOf[p]][KeyOf(p)] = KeyOf(p)
          BY <2>1, <2>4, <2>5, <4>1
        <5> QED BY <2>2, <2>3, <3>1, <5>1 DEF KeyOf
      <4>2. CASE fd[p] = "unlinked"
        BY <1>7, <2>3, <2>4, <3>1, <4>2 DEF WriteTmp
      <4> QED BY <2>3, <4>1, <4>2
    <3>2. CASE q # p
      <4>1. (pc[q] = "rename" \/ fd[q] = "unlinked") /\ pidOf[q] # pidOf[p]
        BY <2>3, <2>8, <3>2
      <4>2. tmp'[pidOf[q]] = tmp[pidOf[q]]
        BY <2>4, <4>1
      <4> QED BY <2>3, <4>1, <4>2
    <3> QED BY <3>1, <3>2
  <2> QED BY <2>6, <2>7, <2>8
<1>8. ASSUME NEW p \in Proc, RenameTmp(p) PROVE Goal
  <2>1. KeyOf(p) \in Key /\ pidOf[p] \in Pid
    BY <1>8, KeyInKey DEF IInv, RenameTmp
  <2>2. Sharers(p) = {} /\ \A k \in Key : Readers(k) = {}
    BY <1>8 DEF RenameTmp, Sharers, Readers
  <2> QED BY <1>8, <2>1, <2>2 DEF RenameTmp, Publish, Return, Goto, KeyOf
<1>9. ASSUME NEW p \in Proc, WriteFails(p) PROVE Goal
  BY <1>9 DEF WriteFails, Return, Goto
<1>10. ASSUME NEW dead \in SUBSET Proc, Kill(dead) PROVE Goal
  BY <1>10 DEF Kill, Die, Restart
<1>11. ASSUME NEW k \in Key, PowerLoss(k) PROVE Goal
  BY <1>11 DEF PowerLoss, Die, Restart
<1>12. ASSUME RemoveDir PROVE Goal
  <2>1. \A p \in Proc : pc[p] \in {"rename", "write"} => <<asked[p], solcOf[p]>> \in Key
    BY KeyInKey DEF IInv, KeyOf
  <2> QED BY <1>12, <2>1 DEF RemoveDir, CallOpen
<1>13. ASSUME UNCHANGED cacheVars PROVE Goal
  BY <1>13 DEF cacheVars, disk
<1> QED
  BY <1>1, <1>2, <1>3, <1>4, <1>5, <1>6, <1>7, <1>8, <1>9, <1>10, <1>11, <1>12, <1>13
  DEF CacheNext, Step

(***************************************************************************)
(* Every step is a step of the uncached service, or changes nothing of it. *)
(***************************************************************************)
LEMMA ServiceStep ==
  ASSUME IInv, [CacheNext]_cacheVars
  PROVE  [Next]_vars
<1>a. ASSUME CallOpen PROVE [Next]_vars
  BY <1>a DEF CallOpen, vars
<1>b. ASSUME NEW p \in Proc, pc[p] # "idle", Return(p, Assembled(asked[p], solcOf[p])) PROVE [Next]_vars
  BY <1>b DEF Return, Next, Reply, IInv, CallState
<1>1. ASSUME NEW p \in Proc, NEW i \in Input, CompileYul(p, i) PROVE [Next]_vars
  BY <1>1 DEF CompileYul, Next
<1>2. ASSUME NEW p \in Proc, LookInMemory(p) PROVE [Next]_vars
  <2>1. KeyOf(p) \in Key /\ (KeyOf(p) \notin Rejected => Assembled(asked[p], solcOf[p]) = KeyOf(p))
    BY <1>2, KeyInKey DEF IInv, LookInMemory
  <2> QED BY <1>2, <1>a, <1>b, <2>1 DEF LookInMemory, IInv, NoForeignResult
<1>3. ASSUME NEW p \in Proc, ReadFile(p) PROVE [Next]_vars
  <2>1. KeyOf(p) \in Key /\ (KeyOf(p) \notin Rejected => Assembled(asked[p], solcOf[p]) = KeyOf(p))
    BY <1>3, KeyInKey DEF IInv, ReadFile
  <2> QED BY <1>3, <1>a, <1>b, <2>1 DEF ReadFile, Hit, IInv, NoForeignResult
<1>4. ASSUME NEW p \in Proc, Assemble(p) PROVE [Next]_vars
  BY <1>4, <1>a, <1>b DEF Assemble
<1>5. ASSUME NEW p \in Proc, FileExists(p) \/ OpenTmp(p) \/ WriteTmp(p) PROVE [Next]_vars
  BY <1>5, <1>a DEF FileExists, OpenTmp, WriteTmp
<1>6. ASSUME NEW p \in Proc, RenameTmp(p) \/ WriteFails(p) PROVE [Next]_vars
  BY <1>6, <1>b DEF RenameTmp, Publish, WriteFails
<1>7. ASSUME NEW dead \in SUBSET Proc, Die(dead) PROVE [Next]_vars
  BY <1>7 DEF Die, Next
<1>8. ASSUME RemoveDir PROVE [Next]_vars
  BY <1>8, <1>a DEF RemoveDir
<1>9. ASSUME UNCHANGED cacheVars PROVE [Next]_vars
  BY <1>9 DEF cacheVars, vars
<1> QED
  BY <1>1, <1>2, <1>3, <1>4, <1>5, <1>6, <1>7, <1>8, <1>9 DEF CacheNext, Step, Kill, PowerLoss

LEMMA SpecIInv == CacheSpec => []IInv
<1>1. CacheInit => IInv
  BY InitIInv
<1>2. IInv /\ [CacheNext]_cacheVars => IInv'
  <2> SUFFICES ASSUME IInv, [CacheNext]_cacheVars PROVE IInv'
    OBVIOUS
  <2>1. TypeOK'
    BY TypeStep
  <2>2. CallState'
    BY CallStep
  <2>3. NoForeignResult' /\ TmpHoldsItsKey'
    BY ResultStep
  <2> QED BY <2>1, <2>2, <2>3 DEF IInv
<1> QED BY <1>1, <1>2, PTL DEF CacheSpec

(* Every variable of the cache keeps its type.                               *)
THEOREM SpecTypeOK == CacheSpec => []TypeOK
<1>1. IInv => TypeOK
  BY DEF IInv
<1> QED BY <1>1, SpecIInv, PTL

(* src/solc.ts:33-40: no failure is cached, and neither a map nor a file     *)
(* answers one key with another's result.                                    *)
THEOREM SpecNoForeignResult == CacheSpec => []NoForeignResult
<1>1. IInv => NoForeignResult
  BY DEF IInv
<1> QED BY <1>1, SpecIInv, PTL

(* With a pid to each caller, writeYulCache's rename publishes whole files.  *)
THEOREM SpecRenamePublishesWhole == CacheSpec => []RenamePublishesWhole
<1>1. CacheInit => OwnFiles /\ RenamePublishesWhole
  BY CacheAssumption DEF CacheInit, OwnFiles, RenamePublishesWhole
<1>2. /\ IInv /\ OwnFiles /\ RenamePublishesWhole /\ [CacheNext]_cacheVars
      => OwnFiles' /\ RenamePublishesWhole'
  BY OwnFilesStep
<1> QED BY <1>1, <1>2, SpecIInv, PTL DEF CacheSpec

(* The cache keeps its types, answers no key with another's result and       *)
(* publishes whole files.                                                    *)
THEOREM SpecCacheIsSound == CacheSpec => []CacheIsSound
<1>1. TypeOK /\ NoForeignResult /\ RenamePublishesWhole => CacheIsSound
  BY DEF CacheIsSound
<1> QED BY <1>1, SpecTypeOK, SpecNoForeignResult, SpecRenamePublishesWhole, PTL

(* compileYul with the cache implements compileYul without it: every call    *)
(* answers what assembling its own input gives, whatever the other callers,  *)
(* the disk and the operating system do.                                     *)
THEOREM SpecAnswersAsAssembled == CacheSpec => AnswersAsAssembled /\ Spec
<1>1. CacheInit => Init
  BY DEF CacheInit
<1>2. IInv /\ [CacheNext]_cacheVars => [Next]_vars
  BY ServiceStep
<1> QED BY <1>1, <1>2, SpecIInv, PTL DEF CacheSpec, Spec, AnswersAsAssembled


-----------------------------------------------------------------------------
(* The walk of the bundler.                                                  *)

Imp(k, n) == File(k).imports[n]
Size(k) == Len(File(k).imports)
FromEntry == Reached({Entry})
Below(k) == Reached(Importees({k}))

Frames == [key : DOMAIN program, stmt : Nat, step : {"enter", "import", "bind"}]
EdgeType == [local : Names, target : DOMAIN program, original : Names]

(***************************************************************************)
(* A program and its files have their types.                               *)
(***************************************************************************)
LEMMA FileFacts ==
  ASSUME program \in Programs
  PROVE  /\ DOMAIN program \subseteq Keys /\ Entry \in DOMAIN program
         /\ \A k \in DOMAIN program : File(k) \in FileType /\ Size(k) \in Nat
         /\ \A k \in DOMAIN program : \A n \in 1 .. Size(k) : Imp(k, n) \in ImportType
<1>1. DOMAIN program \subseteq Keys /\ Entry \in DOMAIN program /\ program \in [DOMAIN program -> FileType]
  BY ProgramsAssumption
<1>2. \A k \in DOMAIN program : File(k) \in FileType
  BY <1>1 DEF File
<1>3. \A k \in DOMAIN program : File(k).imports \in Seq(ImportType)
  BY <1>2 DEF FileType
<1> QED
  BY <1>1, <1>2, <1>3 DEF Size, Imp

LEMMA ImporteesFacts ==
  ASSUME program \in Programs, NEW ks \in SUBSET DOMAIN program
  PROVE  /\ Importees(ks) \subseteq DOMAIN program
         /\ \A k \in ks : \A n \in 1 .. Size(k) : Resolves(Imp(k, n)) => Imp(k, n).target \in Importees(ks)
         /\ \A t \in Importees(ks) : \E k \in ks : \E n \in 1 .. Size(k) : Resolves(Imp(k, n)) /\ t = Imp(k, n).target
<1>1. \A k \in ks : Imports(k) = { i \in { Imp(k, n) : n \in 1 .. Size(k) } : Resolves(i) }
  <2>1. \A k \in ks : File(k).imports \in Seq(ImportType)
    BY FileFacts DEF FileType
  <2> QED BY <2>1 DEF Imports, ToSet, Imp, Size
<1> QED
  BY <1>1 DEF Importees, Resolves

(***************************************************************************)
(* Reached(ks) is the least set that holds ks and what its files import.   *)
(***************************************************************************)
LEMMA ReachedFacts ==
  ASSUME program \in Programs, NEW ks \in SUBSET DOMAIN program
  PROVE  /\ ks \subseteq Reached(ks) /\ Reached(ks) \subseteq DOMAIN program
         /\ \A k \in Reached(ks) : \A n \in 1 .. Size(k) : Resolves(Imp(k, n)) => Imp(k, n).target \in Reached(ks)
         /\ \A S \in SUBSET DOMAIN program :
              /\ ks \subseteq S
              /\ \A k \in S : \A n \in 1 .. Size(k) : Resolves(Imp(k, n)) => Imp(k, n).target \in S
              => Reached(ks) \subseteq S
<1>1. ks \subseteq Reached(ks) /\ Reached(ks) \subseteq DOMAIN program
  BY DEF Reached
<1>2. ASSUME NEW k \in Reached(ks), NEW n \in 1 .. Size(k), Resolves(Imp(k, n))
      PROVE  Imp(k, n).target \in Reached(ks)
  <2>1. Imp(k, n).target \in DOMAIN program
    BY <1>2 DEF Resolves
  <2>2. ASSUME NEW S \in SUBSET DOMAIN program, ks \subseteq S, Importees(S) \subseteq S
        PROVE  Imp(k, n).target \in S
    BY <1>2, <2>2, ImporteesFacts DEF Reached
  <2> QED BY <2>1, <2>2 DEF Reached
<1>3. ASSUME NEW S \in SUBSET DOMAIN program, ks \subseteq S,
             \A k \in S : \A n \in 1 .. Size(k) : Resolves(Imp(k, n)) => Imp(k, n).target \in S
      PROVE  Reached(ks) \subseteq S
  <2>1. Importees(S) \subseteq S
    BY <1>3, ImporteesFacts
  <2> QED BY <1>3, <2>1 DEF Reached
<1> QED
  BY <1>1, <1>2, <1>3

LEMMA BelowFacts ==
  ASSUME program \in Programs, NEW k \in DOMAIN program
  PROVE  /\ \A n \in 1 .. Size(k) : Resolves(Imp(k, n)) => Imp(k, n).target \in Below(k)
         /\ Below(k) \subseteq DOMAIN program
         /\ \A h \in Below(k) : \A n \in 1 .. Size(h) : Resolves(Imp(h, n)) => Imp(h, n).target \in Below(k)
         /\ Cyclic(k) <=> k \in Below(k)
<1>1. Importees({k}) \in SUBSET DOMAIN program
  BY ImporteesFacts
<1>2. \A n \in 1 .. Size(k) : Resolves(Imp(k, n)) => Imp(k, n).target \in Importees({k})
  BY ImporteesFacts
<1> QED
  BY <1>1, <1>2, ReachedFacts DEF Below, Cyclic

(***************************************************************************)
(* What is said of the program alone stays so.                             *)
(***************************************************************************)
LEMMA SameProgram ==
  ASSUME program' = program
  PROVE  /\ \A k : File(k)' = File(k) /\ Size(k)' = Size(k) /\ Below(k)' = Below(k)
         /\ \A k, n : Imp(k, n)' = Imp(k, n)
         /\ \A imp : Resolves(imp)' <=> Resolves(imp)
         /\ FromEntry' = FromEntry /\ Frames' = Frames /\ EdgeType' = EdgeType
         /\ \A k : Cyclic(k)' <=> Cyclic(k)
<1>1. /\ \A k : File(k)' = File(k) /\ Size(k)' = Size(k)
      /\ \A k, n : Imp(k, n)' = Imp(k, n)
      /\ \A imp : Resolves(imp)' <=> Resolves(imp)
      /\ Frames' = Frames /\ EdgeType' = EdgeType
  BY DEF File, Size, Imp, Resolves, Frames, EdgeType
<1>2. FromEntry' = FromEntry
  BY DEF FromEntry, Reached, Importees, Imports, Resolves, File
<1>3. \A k : Below(k)' = Below(k)
  BY DEF Below, Reached, Importees, Imports, Resolves, File
<1>4. \A k : Cyclic(k)' <=> Cyclic(k)
  BY DEF Cyclic, Reached, Importees, Imports, Resolves, File
<1> QED
  BY <1>1, <1>2, <1>3, <1>4


(***************************************************************************)
(* What the walk has done and holds.                                       *)
(***************************************************************************)
\* The first n imports of k are of files that are done, and are bound.
Walked(k, n) ==
  /\ \A i \in 1 .. n :
       /\ Imp(k, i).form = "named" /\ Resolves(Imp(k, i)) /\ Imp(k, i).target \in visited
       /\ \A el \in ToSet(Imp(k, i).list) :
            /\ el[1] \in Exported(File(Imp(k, i).target))
            /\ el[1] # el[2] => el[2] \notin ReservedNames
  /\ bindings[k] = UNION { Edges(Imp(k, i)) : i \in 1 .. n }
  /\ OneMeaning(bindings[k])

\* A file that is being walked.
OpenFrame(f) ==
  /\ ~Flawed(File(f.key), f.key = Entry)
  /\ f.key \notin visited
  /\ f.stmt \in 1 .. Size(f.key) + 1
  /\ Walked(f.key, f.stmt - 1)
  /\ f.step = "bind" =>
       /\ f.stmt <= Size(f.key)
       /\ Imp(f.key, f.stmt).form = "named" /\ Resolves(Imp(f.key, f.stmt))

\* A file that is done.
DoneFile(k) ==
  ~Flawed(File(k), k = Entry) /\ Walked(k, Size(k)) /\ Renameable(k, k = Entry)

WalkTypes ==
  /\ program \in Programs
  /\ stack \in Seq(Frames)
  /\ visited \subseteq DOMAIN program /\ order \in Seq(DOMAIN program)
  /\ bindings \in [DOMAIN program -> SUBSET EdgeType]

\* Only the file on top may be new; those below wait for the one above.
StackInv ==
  /\ stack # <<>> => stack[1].key = Entry /\ Entry \notin visited
  /\ \A i \in 1 .. Len(stack), f \in Frames : f = stack[i] =>
       /\ IF f.step = "enter" THEN i = Len(stack) /\ f.stmt = 1 ELSE OpenFrame(f)
       /\ f.step = "bind" => IF i = Len(stack) THEN Imp(f.key, f.stmt).target \in visited
                             ELSE Imp(f.key, f.stmt).target = stack[i + 1].key
  /\ \A i \in 1 .. Len(stack) : i < Len(stack) => stack[i].step = "bind"
  /\ \A i, j \in 1 .. Len(stack) :
       i < j /\ stack[j].step # "enter" => stack[i].key # stack[j].key

OrderInv ==
  /\ visited = ToSet(order) /\ IsInjective(order)
  /\ \A i \in 1 .. Len(order), k \in DOMAIN program : k = order[i] =>
       \A n \in 1 .. Size(k) : \E j \in 1 .. i - 1 : order[j] = Imp(k, n).target
  /\ stack = <<>> => Len(order) > 0 /\ order[Len(order)] = Entry

FilesInv ==
  /\ \A k \in visited : DoneFile(k)
  /\ \A k \in DOMAIN program \ visited :
       bindings[k] = {} \/ \E i \in 1 .. Len(stack) : stack[i].key = k /\ stack[i].step # "enter"

Walk == WalkTypes /\ StackInv /\ OrderInv /\ FilesInv

LEMMA InitWalk == BundlerInit => Walk
<1> SUFFICES ASSUME BundlerInit PROVE Walk
  OBVIOUS
<1>1. WalkTypes
  BY FileFacts DEF BundlerInit, WalkTypes, Frames
<1>2. StackInv
  BY DEF BundlerInit, StackInv
<1>3. OrderInv
  BY DEF BundlerInit, OrderInv, ToSet, IsInjective
<1>4. FilesInv
  BY DEF BundlerInit, FilesInv
<1> QED
  BY <1>1, <1>2, <1>3, <1>4 DEF Walk

LEMMA SameWalk ==
  ASSUME Walk, UNCHANGED <<program, stack, visited, order, bindings>>
  PROVE  Walk'
<1> USE SameProgram
<1>1. \A k, n : Walked(k, n)' <=> Walked(k, n)
  BY DEF Walked, Edges, Exported
<1>2. \A f : OpenFrame(f)' <=> OpenFrame(f)
  BY <1>1 DEF OpenFrame
<1>3. \A k : DoneFile(k)' <=> DoneFile(k)
  BY <1>1 DEF DoneFile, Renameable, Locals, Declared, TopNames
<1>4. WalkTypes'
  BY DEF Walk, WalkTypes
<1>5. StackInv'
  BY <1>2 DEF Walk, StackInv
<1>6. OrderInv'
  BY DEF Walk, OrderInv
<1>7. FilesInv'
  BY <1>3 DEF Walk, FilesInv
<1> QED
  BY <1>4, <1>5, <1>6, <1>7 DEF Walk


LEMMA FrontFacts ==
  ASSUME NEW S, NEW s \in Seq(S), s # <<>>
  PROVE  /\ Len(s) \in Nat \ {0} /\ Front(s) \in Seq(S) /\ Len(Front(s)) = Len(s) - 1
         /\ \A i \in 1 .. Len(s) - 1 : Front(s)[i] = s[i]
<1> DEFINE n == Len(s) - 1
           front == SubSeq(s, 1, n)
<1>1. n \in Nat /\ Len(s) = n + 1
  OBVIOUS
<1>2. \A i \in 1 .. n : s[i] \in S
  OBVIOUS
<1>3. Front(s) = front
  BY DEF Front
<1> HIDE DEF n
<1>4. front \in Seq(S) /\ Len(front) = n
  BY <1>1, <1>2, SubSeqProperties
<1>5. \A i \in 1 .. n : front[i] = s[i]
  BY <1>1, <1>2, SubSeqProperties
<1> HIDE DEF front
<1>6. Len(s) - 1 = n
  BY DEF n
<1> QED
  BY <1>1, <1>3, <1>4, <1>5, <1>6

LEMMA TopFacts ==
  ASSUME Walk, stack # <<>>
  PROVE  /\ Len(stack) \in Nat \ {0} /\ Len(stack) \in 1 .. Len(stack)
         /\ Top = stack[Len(stack)] /\ Top \in Frames
         /\ Top.key \in DOMAIN program
<1>1. stack \in Seq(Frames) /\ Len(stack) \in Nat \ {0}
  BY DEF Walk, WalkTypes
<1>2. Top = stack[Len(stack)] /\ Top \in Frames
  BY <1>1 DEF Top
<1> QED
  BY <1>1, <1>2 DEF Frames

(***************************************************************************)
(* A file that was done before is not walked again.                        *)
(***************************************************************************)
LEMMA SkipStep ==
  ASSUME Walk, SkipVisited
  PROVE  Walk'
<1> USE SameProgram
<1>1. /\ stack # <<>> /\ Top.step = "enter" /\ Top.key \in visited
      /\ stack' = Front(stack) /\ UNCHANGED <<program, visited, order, bindings>>
  BY DEF SkipVisited, At
<1>2. /\ Len(stack) \in Nat \ {0} /\ stack' \in Seq(Frames) /\ Len(stack') = Len(stack) - 1
      /\ \A i \in 1 .. Len(stack') : i \in 1 .. Len(stack) /\ i < Len(stack) /\ stack'[i] = stack[i]
      /\ Top = stack[Len(stack)]
  BY <1>1, FrontFacts DEF Walk, WalkTypes, Top
<1>3. Len(stack') > 0
  BY <1>1, <1>2 DEF Walk, StackInv
<1>4. \A k, n : Walked(k, n)' <=> Walked(k, n)
  BY <1>1 DEF Walked, Edges, Exported
<1>5. \A f : OpenFrame(f)' <=> OpenFrame(f)
  BY <1>1, <1>4 DEF OpenFrame
<1>6. \A k : DoneFile(k)' <=> DoneFile(k)
  BY <1>1, <1>4 DEF DoneFile, Renameable, Locals, Declared, TopNames
<1>7. WalkTypes'
  BY <1>1, <1>2 DEF Walk, WalkTypes
<1>8. StackInv'
  <2>1. stack'[1].key = Entry /\ Entry \notin visited'
    BY <1>1, <1>2, <1>3 DEF Walk, StackInv
  <2>2. ASSUME NEW i \in 1 .. Len(stack'), NEW f \in Frames, f = stack'[i]
        PROVE  /\ IF f.step = "enter" THEN i = Len(stack') /\ f.stmt = 1 ELSE OpenFrame(f)'
               /\ f.step = "bind" => IF i = Len(stack') THEN Imp(f.key, f.stmt).target \in visited
                                     ELSE Imp(f.key, f.stmt).target = stack'[i + 1].key
    <3>1. i \in 1 .. Len(stack) /\ i < Len(stack) /\ f = stack[i] /\ i + 1 \in 1 .. Len(stack)
          /\ (i < Len(stack') => stack'[i + 1] = stack[i + 1])
      BY <1>2, <2>2
    <3>2. f.step # "enter" /\ OpenFrame(f) /\ (f.step = "bind" => Imp(f.key, f.stmt).target = stack[i + 1].key)
      BY <3>1 DEF Walk, StackInv
    <3>3. i = Len(stack') => stack[i + 1].key \in visited
      BY <1>1, <1>2, <3>1
    <3> QED BY <1>5, <2>2, <3>1, <3>2, <3>3
  <2>4. \A i \in 1 .. Len(stack') : i < Len(stack') => stack'[i].step = "bind"
    BY <1>2 DEF Walk, StackInv
  <2>5. \A i, j \in 1 .. Len(stack') :
          i < j /\ stack'[j].step # "enter" => stack'[i].key # stack'[j].key
    BY <1>2 DEF Walk, StackInv
  <2> QED BY <1>1, <2>1, <2>2, <2>4, <2>5 DEF StackInv
<1>9. OrderInv'
  BY <1>1, <1>2, <1>3 DEF Walk, OrderInv
<1>10. FilesInv'
  <2>1. ASSUME NEW k \in DOMAIN program \ visited, NEW i \in 1 .. Len(stack),
               stack[i].key = k, stack[i].step # "enter"
        PROVE  i \in 1 .. Len(stack') /\ stack'[i] = stack[i]
    BY <1>1, <1>2, <2>1
  <2> QED BY <1>1, <1>6, <2>1 DEF Walk, FilesInv
<1> QED
  BY <1>7, <1>8, <1>9, <1>10 DEF Walk


LEMMA RetopFacts ==
  ASSUME Walk, stack # <<>>, NEW f \in Frames, Retop(f)
  PROVE  /\ stack' \in Seq(Frames) /\ Len(stack') = Len(stack)
         /\ stack'[Len(stack)] = f
         /\ \A i \in 1 .. Len(stack) : i # Len(stack) => stack'[i] = stack[i]
BY TopFacts DEF Retop, Walk, WalkTypes

(***************************************************************************)
(* A file that is opened is new: no file below it is the same.             *)
(***************************************************************************)
LEMMA OpenStep ==
  ASSUME Walk, OpenFile
  PROVE  Walk'
<1> USE SameProgram
<1> DEFINE n == Len(stack)
           new == [Top EXCEPT !.step = "import"]
<1>1. /\ stack # <<>> /\ Top.step = "enter" /\ Top.key \notin visited
      /\ ~InStack /\ ~Flawed(File(Top.key), IsEntry)
      /\ Retop(new) /\ UNCHANGED <<program, visited, order, bindings>>
  BY DEF OpenFile, At
<1>2. /\ n \in Nat \ {0} /\ Top = stack[n] /\ Top \in Frames /\ Top.key \in DOMAIN program
  BY <1>1, TopFacts
<1>3. new \in Frames /\ new.key = Top.key /\ new.stmt = Top.stmt /\ new.step = "import"
  BY <1>2 DEF Frames
<1>4. /\ stack' \in Seq(Frames) /\ Len(stack') = n /\ stack'[n] = new
      /\ \A i \in 1 .. n : i # n => stack'[i] = stack[i]
  BY <1>1, <1>3, RetopFacts
<1>5. Top.stmt = 1 /\ (Top.key = Entry <=> IsEntry)
  <2>1. Top.stmt = 1
    BY <1>1, <1>2 DEF Walk, StackInv
  <2>2. stack[1].key = Entry
    BY <1>1 DEF Walk, StackInv
  <2>3. n # 1 => Top.key # stack[1].key
    <3> HIDE DEF n
    <3>1. n # 1 => 1 \in 1 .. n - 1
      BY <1>2
    <3>2. \A i \in 1 .. n - 1 : stack[i].key # Top.key
      BY <1>1 DEF InStack, n
    <3> QED BY <3>1, <3>2
  <2> QED BY <1>2, <2>1, <2>2, <2>3 DEF IsEntry
<1>6. bindings[Top.key] = {}
  <2>1. ASSUME NEW i \in 1 .. n, stack[i].key = Top.key, stack[i].step # "enter"
        PROVE  FALSE
    BY <1>1, <1>2, <2>1 DEF InStack
  <2> QED BY <1>1, <1>2, <2>1 DEF Walk, FilesInv
<1> HIDE DEF n, new
<1>7. \A k, m : Walked(k, m)' <=> Walked(k, m)
  BY <1>1 DEF Walked, Edges, Exported
<1>8. \A f : OpenFrame(f)' <=> OpenFrame(f)
  BY <1>1, <1>7 DEF OpenFrame
<1>9. OpenFrame(new)
  <2>1. Walked(Top.key, 0)
    BY <1>6 DEF Walked, OneMeaning
  <2>2. Size(Top.key) \in Nat /\ new.stmt - 1 = 0 /\ new.stmt \in 1 .. Size(Top.key) + 1
    BY <1>2, <1>3, <1>5, FileFacts DEF Walk, WalkTypes
  <2>3. new.key = Top.key /\ new.step # "bind" /\ ~Flawed(File(new.key), new.key = Entry) /\ new.key \notin visited
    BY <1>1, <1>3, <1>5
  <2>4. Walked(new.key, new.stmt - 1)
    BY <2>1, <2>2, <2>3
  <2> QED BY <2>2, <2>3, <2>4 DEF OpenFrame
<1>10. WalkTypes'
  BY <1>1, <1>4 DEF Walk, WalkTypes
<1>11. StackInv'
  <2>1. stack'[1].key = Entry /\ Entry \notin visited'
    BY <1>1, <1>2, <1>3, <1>4 DEF Walk, StackInv, n
  <2>2. ASSUME NEW i \in 1 .. Len(stack'), NEW f \in Frames, f = stack'[i]
        PROVE  /\ IF f.step = "enter" THEN i = Len(stack') /\ f.stmt = 1 ELSE OpenFrame(f)'
               /\ f.step = "bind" => IF i = Len(stack') THEN Imp(f.key, f.stmt).target \in visited
                                     ELSE Imp(f.key, f.stmt).target = stack'[i + 1].key
    <3>1. CASE i = n
      <4>1. f = new
        BY <1>4, <2>2, <3>1
      <4>2. f.step = "import" /\ OpenFrame(f)
        BY <1>3, <1>9, <4>1
      <4> QED BY <1>8, <4>2
    <3>2. CASE i # n
      <4>1. i \in 1 .. n /\ i + 1 \in 1 .. n /\ f = stack[i] /\ stack'[i + 1].key = stack[i + 1].key
        BY <1>2, <1>3, <1>4, <2>2, <3>2
      <4> QED BY <1>4, <1>8, <3>2, <4>1 DEF Walk, StackInv, n
    <3> QED BY <3>1, <3>2
  <2>3. \A i \in 1 .. Len(stack') : i < Len(stack') => stack'[i].step = "bind"
    BY <1>2, <1>4 DEF Walk, StackInv, n
  <2>4. ASSUME NEW i \in 1 .. n, NEW j \in 1 .. n, i < j, stack'[j].step # "enter"
        PROVE  stack'[i].key # stack'[j].key
    <3>1. CASE j = n
      BY <1>1, <1>2, <1>3, <1>4, <2>4, <3>1 DEF InStack, n
    <3>2. CASE j # n
      BY <1>2, <1>4, <2>4, <3>2 DEF Walk, StackInv, n
    <3> QED BY <3>1, <3>2
  <2> QED BY <1>1, <1>4, <2>1, <2>2, <2>3, <2>4 DEF StackInv
<1>12. OrderInv'
  BY <1>1, <1>2, <1>4 DEF Walk, OrderInv
<1>13. FilesInv'
  <2>1. \A k : DoneFile(k)' <=> DoneFile(k)
    BY <1>1, <1>7 DEF DoneFile, Renameable, Locals, Declared, TopNames
  <2>2. ASSUME NEW k \in DOMAIN program \ visited, NEW i \in 1 .. n,
               stack[i].key = k, stack[i].step # "enter"
        PROVE  stack'[i].key = k /\ stack'[i].step # "enter"
    BY <1>1, <1>2, <1>4, <2>2
  <2> QED BY <1>1, <1>4, <2>1, <2>2 DEF Walk, FilesInv, n
<1> QED
  BY <1>10, <1>11, <1>12, <1>13 DEF Walk


(***************************************************************************)
(* A target is visited on top of the file that imports it, which waits.    *)
(***************************************************************************)
LEMMA VisitStep ==
  ASSUME Walk, VisitTarget
  PROVE  Walk'
<1> USE SameProgram
<1> DEFINE n == Len(stack)
           wait == [Top EXCEPT !.step = "bind"]
           new == [key |-> Statement.target, stmt |-> 1, step |-> "enter"]
<1>a. CASE Reject("overflow")
  BY <1>a, SameWalk DEF Reject
<1>b. CASE ~Reject("overflow")
  <2>1. /\ stack # <<>> /\ Top.step = "import" /\ Top.stmt <= Size(Top.key)
        /\ Statement = Imp(Top.key, Top.stmt) /\ Statement.form = "named" /\ Resolves(Statement)
        /\ stack' = Append([stack EXCEPT ![Len(stack)].step = "bind"], new)
        /\ UNCHANGED <<program, visited, order, bindings>>
    BY <1>b DEF VisitTarget, MoreStatements, At, Statement, Imp, Size
  <2>2. /\ n \in Nat \ {0} /\ Top = stack[n] /\ Top \in Frames /\ Top.key \in DOMAIN program
        /\ stack \in Seq(Frames)
    BY <2>1, TopFacts DEF Walk, WalkTypes
  <2>3. new \in Frames /\ wait \in Frames /\ wait.key = Top.key /\ wait.stmt = Top.stmt /\ wait.step = "bind"
    BY <2>1, <2>2 DEF Frames, Resolves
  <2>4. [stack EXCEPT ![Len(stack)].step = "bind"] = [stack EXCEPT ![n] = wait]
    BY <2>2
  <2>5. /\ stack' \in Seq(Frames) /\ Len(stack') = n + 1 /\ stack'[n + 1] = new /\ stack'[n] = wait
        /\ \A i \in 1 .. n : i # n => stack'[i] = stack[i]
    <3> DEFINE waiting == [stack EXCEPT ![n] = wait]
    <3>1. stack' = Append(waiting, new)
      BY <2>1, <2>4
    <3> HIDE DEF wait, new
    <3>2. waiting \in Seq(Frames) /\ Len(waiting) = n /\ waiting[n] = wait
          /\ \A i \in 1 .. n : i # n => waiting[i] = stack[i]
      BY <2>2, <2>3
    <3> HIDE DEF waiting, n
    <3> QED BY <2>2, <2>3, <3>1, <3>2
  <2>6. OpenFrame(Top)
    BY <2>1, <2>2 DEF Walk, StackInv
  <2>7. OpenFrame(wait) /\ Imp(wait.key, wait.stmt) = Statement /\ new.key = Statement.target /\ new.step = "enter" /\ new.stmt = 1
    BY <2>1, <2>3, <2>6 DEF OpenFrame
  <2> HIDE DEF n, wait, new
  <2>8. \A k, m : Walked(k, m)' <=> Walked(k, m)
    BY <2>1 DEF Walked, Edges, Exported
  <2>9. \A f : OpenFrame(f)' <=> OpenFrame(f)
    BY <2>1, <2>8 DEF OpenFrame
  <2>10. WalkTypes'
    BY <2>1, <2>5 DEF Walk, WalkTypes
  <2>11. StackInv'
    <3>1. stack'[1].key = Entry /\ Entry \notin visited'
      BY <2>1, <2>2, <2>3, <2>5 DEF Walk, StackInv, n
    <3>2. ASSUME NEW i \in 1 .. Len(stack'), NEW f \in Frames, f = stack'[i]
          PROVE  /\ IF f.step = "enter" THEN i = Len(stack') /\ f.stmt = 1 ELSE OpenFrame(f)'
                 /\ f.step = "bind" => IF i = Len(stack') THEN Imp(f.key, f.stmt).target \in visited
                                       ELSE Imp(f.key, f.stmt).target = stack'[i + 1].key
      <4>1. CASE i = n + 1
        BY <2>5, <2>7, <3>2, <4>1
      <4>2. CASE i = n
        <5>1. f = wait /\ i # Len(stack')
          BY <2>2, <2>5, <3>2, <4>2
        <5> QED BY <2>3, <2>5, <2>7, <2>9, <4>2, <5>1
      <4>3. CASE i # n /\ i # n + 1
        <5>1. i \in 1 .. n /\ i + 1 \in 1 .. n /\ f = stack[i] /\ stack'[i + 1].key = stack[i + 1].key /\ i # Len(stack')
          BY <2>2, <2>3, <2>5, <3>2, <4>3
        <5> QED BY <2>9, <4>3, <5>1 DEF Walk, StackInv, n
      <4> QED BY <4>1, <4>2, <4>3
    <3>3. \A i \in 1 .. Len(stack') : i < Len(stack') => stack'[i].step = "bind"
      BY <2>2, <2>3, <2>5 DEF Walk, StackInv, n
    <3>4. ASSUME NEW i \in 1 .. n + 1, NEW j \in 1 .. n + 1, i < j, stack'[j].step # "enter"
          PROVE  stack'[i].key # stack'[j].key
      <4>1. j \in 1 .. n /\ i \in 1 .. n /\ i # n
        BY <2>2, <2>5, <2>7, <3>4
      <4>2. stack[j].step # "enter"
        BY <2>1, <2>2, <2>5, <3>4, <4>1
      <4>3. stack'[i].key = stack[i].key /\ stack'[j].key = stack[j].key
        BY <2>2, <2>3, <2>5, <4>1
      <4> QED BY <3>4, <4>1, <4>2, <4>3 DEF Walk, StackInv, n
    <3> QED BY <2>1, <2>5, <3>1, <3>2, <3>3, <3>4 DEF StackInv
  <2>12. OrderInv'
    BY <2>1, <2>2, <2>5 DEF Walk, OrderInv
  <2>13. FilesInv'
    <3>1. \A k : DoneFile(k)' <=> DoneFile(k)
      BY <2>1, <2>8 DEF DoneFile, Renameable, Locals, Declared, TopNames
    <3>2. ASSUME NEW k \in DOMAIN program \ visited, NEW i \in 1 .. n,
                 stack[i].key = k, stack[i].step # "enter"
          PROVE  i \in 1 .. Len(stack') /\ stack'[i].key = k /\ stack'[i].step # "enter"
      BY <2>2, <2>3, <2>5, <3>2
    <3>3. \A k \in visited : DoneFile(k)'
      BY <3>1 DEF Walk, FilesInv
    <3>4. ASSUME NEW k \in DOMAIN program \ visited
          PROVE  bindings[k] = {} \/ \E i \in 1 .. Len(stack') : stack'[i].key = k /\ stack'[i].step # "enter"
      BY <3>2 DEF Walk, FilesInv, n
    <3> QED BY <2>1, <3>3, <3>4 DEF FilesInv
  <2> QED BY <2>10, <2>11, <2>12, <2>13 DEF Walk
<1> QED
  BY <1>a, <1>b


(***************************************************************************)
(* The names of a statement are bound when its target is done.             *)
(***************************************************************************)
LEMMA BindStep ==
  ASSUME Walk, BindNames
  PROVE  Walk'
<1> USE SameProgram
<1>0. PICK top : top = Top
  OBVIOUS
<1> DEFINE n == Len(stack)
           new == [key |-> top.key, stmt |-> top.stmt + 1, step |-> "import"]
<1>1. /\ stack # <<>> /\ top.step = "bind" /\ Statement = Imp(top.key, top.stmt)
      /\ Bindable(Imp(top.key, top.stmt), bindings[top.key])
      /\ bindings' = [bindings EXCEPT ![top.key] = @ \cup Edges(Imp(top.key, top.stmt))]
      /\ Retop(new) /\ UNCHANGED <<program, visited, order>>
  BY <1>0 DEF BindNames, At, Statement, Imp
<1>2. /\ n \in Nat \ {0} /\ top = stack[n] /\ top \in Frames /\ top.key \in DOMAIN program
  BY <1>0, <1>1, TopFacts
<1>3. new \in Frames /\ new.key = top.key /\ new.stmt = top.stmt + 1 /\ new.step = "import"
  BY <1>2 DEF Frames
<1>4. /\ stack' \in Seq(Frames) /\ Len(stack') = n /\ stack'[n] = new
      /\ \A i \in 1 .. n : i # n => stack'[i] = stack[i]
  BY <1>1, <1>3, RetopFacts
<1> HIDE DEF n, new
<1>5. PICK k \in DOMAIN program, m \in Nat : k = top.key /\ m = top.stmt
  BY <1>2 DEF Frames
<1>6. /\ OpenFrame(top) /\ Imp(k, m).target \in visited
      /\ Imp(k, m).form = "named" /\ Resolves(Imp(k, m)) /\ m \in 1 .. Size(k)
      /\ Size(k) \in Nat /\ Imp(k, m) \in ImportType /\ k \notin visited
  <2>1. OpenFrame(top) /\ Imp(k, m).target \in visited
    BY <1>1, <1>2, <1>5 DEF Walk, StackInv, n
  <2>2. m \in 1 .. Size(k) /\ Size(k) \in Nat /\ k \notin visited
    BY <1>1, <1>5, <2>1, FileFacts DEF OpenFrame, Walk, WalkTypes
  <2> QED BY <1>1, <1>5, <2>1, <2>2, FileFacts DEF OpenFrame, Walk, WalkTypes
<1>7. Edges(Imp(k, m)) \in SUBSET EdgeType
  <2>1. Imp(k, m).list \in Seq(Names \X Names) /\ Imp(k, m).target \in DOMAIN program
    BY <1>6 DEF ImportType, Resolves
  <2>2. \A el \in ToSet(Imp(k, m).list) : el[1] \in Names /\ el[2] \in Names
    BY <2>1 DEF ToSet
  <2> QED BY <2>1, <2>2 DEF Edges, EdgeType
<1>8. ASSUME NEW h \in DOMAIN program, h # k, NEW i
      PROVE  Walked(h, i)' <=> Walked(h, i)
  <2>1. bindings'[h] = bindings[h]
    BY <1>1, <1>5, <1>8 DEF Walk, WalkTypes
  <2>2. program' = program /\ visited' = visited
    BY <1>1
  <2> QED BY <2>1, <2>2 DEF Walked, Edges, Exported, Imp, File, Resolves
<1>9. \A f \in Frames : f.key # k => (OpenFrame(f)' <=> OpenFrame(f))
  BY <1>1, <1>8 DEF OpenFrame, Frames
<1>10. Walked(k, m)'
  <2>1. Walked(k, m - 1)
    BY <1>5, <1>6 DEF OpenFrame
  <2>2. bindings'[k] = bindings[k] \cup Edges(Imp(k, m)) /\ OneMeaning(bindings'[k])
    BY <1>1, <1>5 DEF Walk, WalkTypes, Bindable
  <2>3. ASSUME NEW i \in 1 .. m
        PROVE  /\ Imp(k, i).form = "named" /\ Resolves(Imp(k, i)) /\ Imp(k, i).target \in visited
               /\ \A el \in ToSet(Imp(k, i).list) :
                    /\ el[1] \in Exported(File(Imp(k, i).target))
                    /\ el[1] # el[2] => el[2] \notin ReservedNames
    <3>1. CASE i = m
      BY <1>1, <1>5, <1>6, <3>1 DEF Bindable
    <3>2. CASE i # m
      <4>1. i \in 1 .. m - 1
        BY <3>2
      <4> QED BY <2>1, <4>1 DEF Walked
    <3> QED BY <3>1, <3>2
  <2>4. bindings'[k] = UNION { Edges(Imp(k, i)) : i \in 1 .. m }
    <3>1. bindings[k] = UNION { Edges(Imp(k, i)) : i \in 1 .. m - 1 }
      BY <2>1 DEF Walked
    <3>2. \A i : i \in 1 .. m <=> i \in 1 .. (m - 1) \/ i = m
      BY <1>6
    <3> QED BY <2>2, <3>1, <3>2
  <2> QED BY <1>1, <2>2, <2>3, <2>4 DEF Walked, Exported, Edges
<1>11. OpenFrame(new)'
  <2>1. new.key = k /\ new.stmt = m + 1 /\ new.step = "import" /\ new \in Frames
    BY <1>3, <1>5
  <2>2. ~Flawed(File(k), k = Entry)
    BY <1>5, <1>6 DEF OpenFrame
  <2>3. \A f \in Frames : f.key = k /\ f.stmt = m + 1 /\ f.step = "import" => OpenFrame(f)'
    BY <1>1, <1>6, <1>10, <2>2 DEF OpenFrame, Flawed, HasSyntaxError, HasRetiredPragma, DeclaresContract
  <2> QED BY <2>1, <2>3
<1>12. WalkTypes'
  <2>1. bindings' \in [DOMAIN program -> SUBSET EdgeType]
    BY <1>1, <1>5, <1>7 DEF Walk, WalkTypes
  <2> QED BY <1>1, <1>4, <2>1 DEF Walk, WalkTypes
<1>13. \A i \in 1 .. n : i # n => stack[i].key # k
  BY <1>1, <1>2, <1>5 DEF Walk, StackInv, n
<1>14. StackInv'
  <2>1. stack'[1].key = Entry /\ Entry \notin visited'
    BY <1>1, <1>2, <1>3, <1>4 DEF Walk, StackInv, n
  <2>2. ASSUME NEW i \in 1 .. Len(stack'), NEW f \in Frames, f = stack'[i]
        PROVE  /\ IF f.step = "enter" THEN i = Len(stack') /\ f.stmt = 1 ELSE OpenFrame(f)'
               /\ f.step = "bind" => IF i = Len(stack') THEN Imp(f.key, f.stmt).target \in visited
                                     ELSE Imp(f.key, f.stmt).target = stack'[i + 1].key
    <3>1. CASE i = n
      <4>1. f = new
        BY <1>4, <2>2, <3>1
      <4>2. ASSUME NEW g, g = new PROVE OpenFrame(g)'
        BY <1>11, <4>2
      <4>3. OpenFrame(f)'
        BY <1>11, <4>1
      <4> QED BY <1>3, <4>1, <4>3
    <3>2. CASE i # n
      <4>1. i \in 1 .. n /\ i + 1 \in 1 .. n /\ f = stack[i] /\ stack'[i + 1].key = stack[i + 1].key /\ f.key # k
        BY <1>2, <1>3, <1>4, <1>13, <2>2, <3>2
      <4>2. f.step = "bind" /\ OpenFrame(f) /\ Imp(f.key, f.stmt).target = stack[i + 1].key
        BY <1>2, <3>2, <4>1 DEF Walk, StackInv, n
      <4> QED BY <1>4, <1>9, <2>2, <3>2, <4>1, <4>2
    <3> QED BY <3>1, <3>2
  <2>3. \A i \in 1 .. Len(stack') : i < Len(stack') => stack'[i].step = "bind"
    BY <1>2, <1>4 DEF Walk, StackInv, n
  <2>4. ASSUME NEW i \in 1 .. n, NEW j \in 1 .. n, i < j
        PROVE  stack'[i].key # stack'[j].key
    <3>1. CASE j = n
      BY <1>2, <1>3, <1>4, <1>5, <1>13, <2>4, <3>1
    <3>2. CASE j # n
      BY <1>2, <1>4, <2>4, <3>2 DEF Walk, StackInv, n
    <3> QED BY <3>1, <3>2
  <2> QED BY <1>1, <1>4, <2>1, <2>2, <2>3, <2>4 DEF StackInv
<1>15. OrderInv'
  BY <1>1, <1>2, <1>4 DEF Walk, OrderInv
<1>16. FilesInv'
  <2>1. ASSUME NEW h \in visited PROVE DoneFile(h)'
    <3>1. h \in DOMAIN program /\ h # k /\ DoneFile(h) /\ bindings'[h] = bindings[h]
      BY <1>1, <1>5, <1>6 DEF Walk, WalkTypes, FilesInv
    <3>2. Walked(h, Size(h))'
      <4>1. PICK z : z = Size(h)
        OBVIOUS
      <4>2. Walked(h, z)'
        BY <1>8, <3>1, <4>1 DEF DoneFile
      <4> QED BY <1>1, <4>1, <4>2
    <3>3. program' = program
      BY <1>1
    <3> QED BY <3>1, <3>2, <3>3 DEF DoneFile, Renameable, Locals, Declared, TopNames, Flawed, HasSyntaxError, HasRetiredPragma, DeclaresContract
  <2>2. ASSUME NEW h \in DOMAIN program \ visited
        PROVE  bindings'[h] = {} \/ \E i \in 1 .. Len(stack') : stack'[i].key = h /\ stack'[i].step # "enter"
    <3>1. CASE h = k
      BY <1>2, <1>3, <1>4, <1>5, <3>1
    <3>2. CASE h # k
      <4>1. bindings'[h] = bindings[h]
        BY <1>1, <1>5, <3>2 DEF Walk, WalkTypes
      <4>2. ASSUME NEW i \in 1 .. n, stack[i].key = h, stack[i].step # "enter"
            PROVE  i \in 1 .. Len(stack') /\ stack'[i].key = h /\ stack'[i].step # "enter"
        BY <1>2, <1>4, <1>5, <3>2, <4>2
      <4> QED BY <4>1, <4>2 DEF Walk, FilesInv, n
    <3> QED BY <3>1, <3>2
  <2> QED BY <1>1, <2>1, <2>2 DEF FilesInv
<1> QED
  BY <1>12, <1>14, <1>15, <1>16 DEF Walk


(***************************************************************************)
(* A file is done after everything it imports.                             *)
(***************************************************************************)
LEMMA CloseStep ==
  ASSUME Walk, CloseFile
  PROVE  Walk'
<1> USE SameProgram
<1>0. PICK top : top = Top
  OBVIOUS
<1> DEFINE n == Len(stack)
<1>1. /\ stack # <<>> /\ top.step = "import" /\ top.stmt > Size(top.key)
      /\ Renameable(top.key, IsEntry)
      /\ stack' = Front(stack) /\ visited' = visited \cup {top.key}
      /\ order' = Append(order, top.key) /\ UNCHANGED <<program, bindings>>
  BY <1>0 DEF CloseFile, NoMoreStatements, At, Size
<1>2. /\ n \in Nat \ {0} /\ top = stack[n] /\ top \in Frames /\ top.key \in DOMAIN program
  BY <1>0, <1>1, TopFacts
<1>3. /\ stack' \in Seq(Frames) /\ Len(stack') = n - 1
      /\ \A i \in 1 .. Len(stack') : i \in 1 .. n /\ i < n /\ stack'[i] = stack[i]
  BY <1>1, FrontFacts DEF Walk, WalkTypes
<1>4. PICK k \in DOMAIN program : k = top.key
  BY <1>2
<1> HIDE DEF n
<1>5. OpenFrame(top) /\ Size(k) \in Nat /\ top.stmt - 1 = Size(k) /\ k \notin visited
  <2>1. OpenFrame(top)
    BY <1>1, <1>2 DEF Walk, StackInv, n
  <2>2. Size(k) \in Nat /\ top.stmt \in 1 .. Size(k) + 1 /\ k \notin visited
    BY <1>4, <2>1, FileFacts DEF OpenFrame, Walk, WalkTypes
  <2>3. top.stmt > Size(k) /\ top.stmt \in Nat
    BY <1>1, <1>2, <1>4 DEF Frames
  <2> QED BY <2>1, <2>2, <2>3
<1>6. \A i \in 1 .. n : i # n => stack[i].key # k
  BY <1>1, <1>2, <1>4 DEF Walk, StackInv, n
<1>7. (k = Entry <=> n = 1) /\ (IsEntry <=> n = 1)
  <2>1. stack[1].key = Entry /\ 1 \in 1 .. n
    BY <1>1, <1>2 DEF Walk, StackInv
  <2> QED BY <1>2, <1>4, <1>6, <2>1 DEF IsEntry, n
<1>8. ASSUME NEW h, NEW m, Walked(h, m) PROVE Walked(h, m)'
  <2>1. program' = program /\ bindings' = bindings /\ visited \subseteq visited'
    BY <1>1
  <2>2. ASSUME NEW i \in 1 .. m
        PROVE  /\ Imp(h, i)'.form = "named" /\ Resolves(Imp(h, i))' /\ Imp(h, i)'.target \in visited'
               /\ \A el \in ToSet(Imp(h, i)'.list) :
                    /\ el[1] \in Exported(File(Imp(h, i).target))'
                    /\ el[1] # el[2] => el[2] \notin ReservedNames
    <3>1. /\ Imp(h, i).form = "named" /\ Resolves(Imp(h, i)) /\ Imp(h, i).target \in visited
          /\ \A el \in ToSet(Imp(h, i).list) :
               /\ el[1] \in Exported(File(Imp(h, i).target))
               /\ el[1] # el[2] => el[2] \notin ReservedNames
      BY <1>8 DEF Walked
    <3>2. Imp(h, i)' = Imp(h, i) /\ Imp(h, i).target \in visited'
      BY <2>1, <3>1 DEF Imp, File
    <3>3. Resolves(Imp(h, i))'
      BY <2>1, <3>1 DEF Imp, File, Resolves
    <3>4. Exported(File(Imp(h, i).target))' = Exported(File(Imp(h, i).target))
      BY <2>1 DEF Imp, File, Exported
    <3> QED BY <3>1, <3>2, <3>3, <3>4
  <2>3. (bindings[h] = UNION { Edges(Imp(h, i)) : i \in 1 .. m })' /\ OneMeaning(bindings[h])'
    BY <1>8, <2>1 DEF Walked, Edges, Imp, File, OneMeaning
  <2> QED BY <2>2, <2>3 DEF Walked
<1>9. ASSUME NEW f \in Frames, OpenFrame(f), f.key # k PROVE OpenFrame(f)'
  <2>1. PICK m : m = f.stmt - 1
    OBVIOUS
  <2>2. Walked(f.key, m)'
    BY <1>8, <1>9, <2>1 DEF OpenFrame
  <2>3. program' = program /\ f.key \notin visited'
    BY <1>1, <1>4, <1>9 DEF OpenFrame
  <2> QED BY <1>9, <2>1, <2>2, <2>3 DEF OpenFrame, Flawed, HasSyntaxError, HasRetiredPragma, DeclaresContract
<1>10. DoneFile(k)'
  <2>1. PICK m : m = Size(k)
    OBVIOUS
  <2>2. Walked(k, m)'
    BY <1>4, <1>5, <1>8, <2>1 DEF OpenFrame
  <2>3. ~Flawed(File(k), k = Entry) /\ Renameable(k, k = Entry)
    <3>1. ~Flawed(File(k), k = Entry)
      BY <1>4, <1>5 DEF OpenFrame
    <3>2. Renameable(k, IsEntry) /\ (IsEntry <=> k = Entry)
      BY <1>1, <1>4, <1>7
    <3> QED BY <3>1, <3>2 DEF Renameable
  <2>4. program' = program /\ bindings' = bindings
    BY <1>1
  <2> QED BY <2>1, <2>2, <2>3, <2>4 DEF DoneFile, Renameable, Locals, Declared, TopNames, Flawed, HasSyntaxError, HasRetiredPragma, DeclaresContract
<1>11. WalkTypes'
  BY <1>1, <1>2, <1>3 DEF Walk, WalkTypes
<1>12. StackInv'
  <2>1. stack' # <<>> => stack'[1].key = Entry /\ Entry \notin visited'
    BY <1>1, <1>2, <1>3, <1>4, <1>7 DEF Walk, StackInv
  <2>2. ASSUME NEW i \in 1 .. Len(stack'), NEW f \in Frames, f = stack'[i]
        PROVE  /\ IF f.step = "enter" THEN i = Len(stack') /\ f.stmt = 1 ELSE OpenFrame(f)'
               /\ f.step = "bind" => IF i = Len(stack') THEN Imp(f.key, f.stmt).target \in visited'
                                     ELSE Imp(f.key, f.stmt).target = stack'[i + 1].key
    <3>1. i \in 1 .. n /\ i + 1 \in 1 .. n /\ f = stack[i] /\ i < n /\ f.key # k
          /\ (i < Len(stack') => stack'[i + 1] = stack[i + 1])
      BY <1>2, <1>3, <1>6, <2>2
    <3>2. f.step = "bind" /\ OpenFrame(f) /\ Imp(f.key, f.stmt).target = stack[i + 1].key
      BY <3>1 DEF Walk, StackInv, n
    <3>3. i = Len(stack') => stack[i + 1].key \in visited'
      BY <1>1, <1>2, <1>3, <1>4, <3>1
    <3> QED BY <1>3, <1>9, <2>2, <3>1, <3>2, <3>3
  <2>4. \A i \in 1 .. Len(stack') : i < Len(stack') => stack'[i].step = "bind"
    BY <1>2, <1>3 DEF Walk, StackInv, n
  <2>5. \A i, j \in 1 .. Len(stack') :
          i < j /\ stack'[j].step # "enter" => stack'[i].key # stack'[j].key
    BY <1>3 DEF Walk, StackInv, n
  <2> QED BY <1>1, <2>1, <2>2, <2>4, <2>5 DEF StackInv
<1>13. OrderInv'
  <2> DEFINE z == Len(order)
  <2>1. order \in Seq(DOMAIN program) /\ z \in Nat /\ visited = ToSet(order)
    BY DEF Walk, WalkTypes, OrderInv
  <2>2. /\ order' \in Seq(DOMAIN program) /\ Len(order') = z + 1 /\ order'[z + 1] = k
        /\ \A i \in 1 .. z : order'[i] = order[i]
    BY <1>1, <1>4, <2>1
  <2>3. \A h : h \in visited <=> \E i \in 1 .. z : order[i] = h
    BY <2>1 DEF ToSet
  <2> HIDE DEF z
  <2>4. visited' = ToSet(order')
    <3>1. ToSet(order') = {order'[i] : i \in 1 .. z + 1}
      BY <2>2 DEF ToSet
    <3> QED BY <1>1, <1>4, <2>1, <2>2, <2>3, <3>1
  <2>5. IsInjective(order')
    <3>1. \A i, j \in 1 .. z : order[i] = order[j] => i = j
      BY <2>1 DEF Walk, OrderInv, IsInjective, z
    <3>2. ASSUME NEW i \in 1 .. z + 1, NEW j \in 1 .. z + 1, order'[i] = order'[j] PROVE i = j
      <4>1. CASE i \in 1 .. z /\ j \in 1 .. z
        BY <2>2, <3>1, <3>2, <4>1
      <4>2. CASE i \notin 1 .. z \/ j \notin 1 .. z
        BY <1>5, <2>1, <2>2, <2>3, <3>2, <4>2
      <4> QED BY <4>1, <4>2
    <3>3. DOMAIN order' = 1 .. z + 1
      BY <2>2
    <3> QED BY <3>2, <3>3 DEF IsInjective
  <2>6. ASSUME NEW i \in 1 .. z + 1, NEW h, h = order'[i], NEW m \in 1 .. Size(h)
        PROVE  \E j \in 1 .. i - 1 : order'[j] = Imp(h, m).target
    <3>1. CASE i = z + 1
      <4>1. h = k /\ Walked(k, Size(k))
        BY <1>4, <1>5, <2>2, <2>6, <3>1 DEF OpenFrame
      <4>2. Imp(h, m).target \in visited
        BY <2>6, <4>1 DEF Walked
      <4>3. PICK j \in 1 .. z : order[j] = Imp(h, m).target
        BY <2>3, <4>2
      <4> QED BY <2>1, <2>2, <3>1, <4>3
    <3>2. CASE i # z + 1
      <4>1. i \in 1 .. z /\ order[i] = h
        BY <2>1, <2>2, <2>6, <3>2
      <4>2. \E j \in 1 .. i - 1 : order[j] = Imp(h, m).target
        <5>1. h \in DOMAIN program
          BY <2>1, <4>1 DEF z
        <5>2. i \in 1 .. Len(order) /\ h = order[i]
          BY <4>1 DEF z
        <5> QED BY <2>6, <5>1, <5>2 DEF Walk, OrderInv
      <4> QED BY <2>1, <2>2, <4>1, <4>2
    <3> QED BY <3>1, <3>2
  <2>7. stack' = <<>> => order'[Len(order')] = Entry
    BY <1>2, <1>3, <1>7, <2>1, <2>2
  <2>8. ASSUME NEW i \in 1 .. Len(order'), NEW h \in DOMAIN program, h = order'[i], NEW m \in 1 .. Size(h)
        PROVE  \E j \in 1 .. i - 1 : order'[j] = Imp(h, m).target
    BY <2>2, <2>6, <2>8
  <2>9. (stack = <<>> => Len(order) > 0 /\ order[Len(order)] = Entry)'
    BY <2>1, <2>2, <2>7
  <2> QED BY <1>1, <2>4, <2>5, <2>8, <2>9 DEF OrderInv
<1>14. FilesInv'
  <2>1. ASSUME NEW h \in visited PROVE DoneFile(h)'
    <3>1. DoneFile(h)
      BY DEF Walk, FilesInv
    <3>2. PICK m : m = Size(h)
      OBVIOUS
    <3>3. Walked(h, m)'
      BY <1>8, <3>1, <3>2 DEF DoneFile
    <3>4. program' = program /\ bindings' = bindings
      BY <1>1
    <3> QED BY <3>1, <3>2, <3>3, <3>4 DEF DoneFile, Renameable, Locals, Declared, TopNames, Flawed, HasSyntaxError, HasRetiredPragma, DeclaresContract
  <2>2. \A h \in visited' : DoneFile(h)'
    BY <1>1, <1>4, <1>10, <2>1
  <2>3. ASSUME NEW h \in DOMAIN program \ visited', bindings[h] # {}
        PROVE  \E i \in 1 .. Len(stack') : stack'[i].key = h /\ stack'[i].step # "enter"
    <3>1. h \in DOMAIN program \ visited /\ h # k
      BY <1>1, <1>4, <2>3
    <3>2. PICK i \in 1 .. n : stack[i].key = h /\ stack[i].step # "enter"
      BY <2>3, <3>1 DEF Walk, FilesInv, n
    <3>3. i # n
      BY <1>2, <1>4, <3>1, <3>2
    <3>4. i \in 1 .. Len(stack')
      BY <1>2, <1>3, <3>3
    <3> QED BY <1>3, <3>2, <3>4
  <2>4. \A h \in DOMAIN program' \ visited' :
          bindings'[h] = {} \/ \E i \in 1 .. Len(stack') : stack'[i].key = h /\ stack'[i].step # "enter"
    BY <1>1, <2>3
  <2> QED BY <2>2, <2>4 DEF FilesInv
<1> QED
  BY <1>11, <1>12, <1>13, <1>14 DEF Walk

(***************************************************************************)
(* The walk as a whole; once there is a verdict it is over.                *)
(***************************************************************************)
LEMMA WalkStep ==
  ASSUME Walk, [BundlerNext]_bundlerVars
  PROVE  Walk'
<1>1. CASE RejectCycle \/ RejectFile \/ RejectImport \/ RejectNames \/ RejectScope
  BY <1>1, SameWalk DEF RejectCycle, RejectFile, RejectImport, RejectNames, RejectScope, Reject
<1>2. CASE Finish \/ LaySegment \/ UNCHANGED bundlerVars
  BY <1>2, SameWalk DEF Finish, LaySegment, bundlerVars
<1> QED
  BY <1>1, <1>2, SkipStep, OpenStep, VisitStep, BindStep, CloseStep DEF BundlerNext

\* The walk keeps to the files the entry reaches, each below those that wait for it.
Traced ==
  /\ visited \subseteq FromEntry
  /\ \A k \in DOMAIN program, i \in 1 .. Len(stack) : stack[i].key = k => k \in FromEntry
  /\ \A k, h \in DOMAIN program, i, j \in 1 .. Len(stack) :
       i < j /\ stack[i].key = k /\ stack[j].key = h => h \in Below(k)

LEMMA InitTraced == BundlerInit => Traced
<1> SUFFICES ASSUME BundlerInit PROVE Traced
  OBVIOUS
<1>1. program \in Programs /\ Entry \in DOMAIN program
  BY FileFacts DEF BundlerInit
<1>2. Entry \in FromEntry
  <2>1. {Entry} \in SUBSET DOMAIN program
    BY <1>1
  <2> QED BY <1>1, <2>1, ReachedFacts DEF FromEntry
<1> QED
  BY <1>1, <1>2 DEF BundlerInit, Traced

\* A step that leaves the stack's keys, or takes some off.
LEMMA ShorterTraced ==
  ASSUME Traced, program' = program, Len(stack) \in Nat, Len(stack') \in Nat, Len(stack') <= Len(stack),
         \A i \in 1 .. Len(stack') : stack'[i].key = stack[i].key,
         visited' \subseteq visited \cup {stack[i].key : i \in 1 .. Len(stack)},
         \A i \in 1 .. Len(stack) : stack[i].key \in DOMAIN program
  PROVE  Traced'
<1> USE SameProgram
<1>1. \A k \in DOMAIN program, i \in 1 .. Len(stack') : stack'[i].key = k => k \in FromEntry
  BY DEF Traced
<1>2. ASSUME NEW k \in DOMAIN program, NEW h \in DOMAIN program,
             NEW i \in 1 .. Len(stack'), NEW j \in 1 .. Len(stack'),
             i < j, stack'[i].key = k, stack'[j].key = h
      PROVE  h \in Below(k)
  <2>1. i \in 1 .. Len(stack) /\ j \in 1 .. Len(stack) /\ stack[i].key = k /\ stack[j].key = h
    BY <1>2
  <2> QED BY <1>2, <2>1 DEF Traced
<1>3. visited' \subseteq FromEntry
  BY DEF Traced
<1> QED
  BY <1>1, <1>2, <1>3 DEF Traced

LEMMA TracedStep ==
  ASSUME Walk, Traced, [BundlerNext]_bundlerVars
  PROVE  Traced'
<1> USE SameProgram
<1>0. /\ stack \in Seq(Frames) /\ Len(stack) \in Nat
      /\ \A i \in 1 .. Len(stack) : stack[i].key \in DOMAIN program
  <2>1. stack \in Seq(Frames)
    BY DEF Walk, WalkTypes
  <2>2. \A i \in 1 .. Len(stack) : stack[i] \in Frames
    BY <2>1
  <2> QED BY <2>1, <2>2 DEF Frames
<1>1. CASE UNCHANGED <<program, stack, visited>>
  BY <1>0, <1>1, ShorterTraced
<1>2. CASE SkipVisited \/ CloseFile
  <2>1. stack # <<>> /\ stack' = Front(stack) /\ program' = program /\ visited' \subseteq visited \cup {Top.key}
    BY <1>2 DEF SkipVisited, CloseFile, NoMoreStatements, At
  <2>2. /\ Len(stack) \in Nat \ {0} /\ Len(stack') = Len(stack) - 1
        /\ \A i \in 1 .. Len(stack) - 1 : stack'[i] = stack[i]
    BY <1>0, <2>1, FrontFacts
  <2>3. Top.key \in {stack[i].key : i \in 1 .. Len(stack)}
    BY <2>2 DEF Top
  <2>4. visited' \subseteq visited \cup {stack[i].key : i \in 1 .. Len(stack)}
    BY <2>1, <2>3
  <2> QED BY <1>0, <2>1, <2>2, <2>4, ShorterTraced
<1>3. CASE OpenFile \/ BindNames
  <2>1. PICK f : Retop(f) /\ f.key = Top.key /\ stack # <<>> /\ UNCHANGED <<program, visited>>
    BY <1>3, TopFacts DEF OpenFile, BindNames, At, Frames
  <2>2. /\ Len(stack) \in 1 .. Len(stack) /\ Top = stack[Len(stack)]
        /\ stack' = [stack EXCEPT ![Len(stack)] = f]
    BY <2>1, TopFacts DEF Retop
  <2>3. Len(stack') = Len(stack) /\ \A i \in 1 .. Len(stack) : stack'[i].key = stack[i].key
    BY <1>0, <2>1, <2>2
  <2> QED BY <1>0, <2>1, <2>3, ShorterTraced
<1>4. CASE VisitTarget /\ ~Reject("overflow")
  <2>0. PICK top : top = Top
    OBVIOUS
  <2>1. /\ stack # <<>> /\ top.step = "import" /\ top.stmt <= Size(top.key)
        /\ Statement = Imp(top.key, top.stmt) /\ Resolves(Imp(top.key, top.stmt))
        /\ stack' = Append([stack EXCEPT ![Len(stack)].step = "bind"],
                           [key |-> Imp(top.key, top.stmt).target, stmt |-> 1, step |-> "enter"])
        /\ UNCHANGED <<program, visited>>
    BY <1>4, <2>0 DEF VisitTarget, MoreStatements, At, Statement, Imp, Size
  <2>2. Len(stack) \in 1 .. Len(stack) /\ top = stack[Len(stack)] /\ top \in Frames /\ program \in Programs
    BY <2>0, <2>1, TopFacts DEF Walk, WalkTypes
  <2>3. PICK k \in DOMAIN program, m \in Nat, n \in Nat \ {0} : k = top.key /\ m = top.stmt /\ n = Len(stack)
    BY <1>0, <2>2 DEF Frames
  <2>4. m \in 1 .. Size(k) /\ Imp(k, m).target \in DOMAIN program /\ Resolves(Imp(k, m))
    <3>1. OpenFrame(top)
      BY <2>1, <2>2 DEF Walk, StackInv
    <3>2. m \in 1 .. Size(k) + 1 /\ m <= Size(k) /\ Size(k) \in Nat
      BY <2>1, <2>2, <2>3, <3>1, FileFacts DEF OpenFrame
    <3> QED BY <2>1, <2>3, <3>2 DEF Resolves
  <2>5. Imp(k, m).target \in Below(k) /\ \A h \in DOMAIN program : k \in Below(h) => Imp(k, m).target \in Below(h)
    BY <2>2, <2>4, BelowFacts
  <2>6. k \in FromEntry /\ Imp(k, m).target \in FromEntry
    <3>1. k \in FromEntry
      BY <2>2, <2>3 DEF Traced
    <3>2. {Entry} \in SUBSET DOMAIN program
      BY <2>2, FileFacts
    <3> QED BY <2>2, <2>4, <3>1, <3>2, ReachedFacts DEF FromEntry
  <2>7. /\ Len(stack') = n + 1 /\ stack'[n + 1].key = Imp(k, m).target
        /\ \A i \in 1 .. n : stack'[i].key = stack[i].key
    <3> DEFINE wait == [top EXCEPT !.step = "bind"]
               below == [stack EXCEPT ![n] = wait]
               frame == [key |-> Imp(k, m).target, stmt |-> 1, step |-> "enter"]
    <3>1. [stack EXCEPT ![n].step = "bind"] = below
      BY <2>2, <2>3
    <3>2. stack' = Append(below, frame)
      BY <2>1, <2>3, <3>1
    <3>3. wait \in Frames /\ wait.key = k /\ frame \in Frames
      BY <2>2, <2>3, <2>4 DEF Frames, Resolves
    <3> HIDE DEF wait
    <3>4. below \in Seq(Frames) /\ Len(below) = n /\ \A i \in 1 .. n : below[i].key = stack[i].key
      BY <1>0, <2>2, <2>3, <3>3
    <3>5. frame.key = Imp(k, m).target
      OBVIOUS
    <3> HIDE DEF below, frame
    <3> QED BY <2>3, <3>2, <3>3, <3>4, <3>5
  <2>8. \A h \in DOMAIN program, i \in 1 .. n + 1 : stack'[i].key = h => h \in FromEntry
    <3>1. \A i \in 1 .. n + 1 : i \in 1 .. n \/ i = n + 1
      BY <2>3
    <3> QED BY <2>3, <2>6, <2>7, <3>1 DEF Traced
  <2>9. ASSUME NEW g \in DOMAIN program, NEW h \in DOMAIN program, NEW i \in 1 .. n + 1, NEW j \in 1 .. n + 1,
               i < j, stack'[i].key = g, stack'[j].key = h
        PROVE  h \in Below(g)
    <3>1. i \in 1 .. n /\ stack[i].key = g
      BY <2>3, <2>7, <2>9
    <3>2. CASE j # n + 1
      <4>1. j \in 1 .. n /\ stack[j].key = h
        BY <2>3, <2>7, <2>9, <3>2
      <4> QED BY <2>3, <2>9, <3>1, <4>1 DEF Traced
    <3>3. CASE j = n + 1 /\ i = n
      BY <2>2, <2>3, <2>5, <2>7, <2>9, <3>1, <3>3
    <3>4. CASE j = n + 1 /\ i # n
      <4>1. i < n /\ n \in 1 .. n /\ stack[n].key = k
        BY <2>2, <2>3, <3>1, <3>4
      <4>2. k \in Below(g)
        BY <2>3, <3>1, <4>1 DEF Traced
      <4> QED BY <2>5, <2>7, <2>9, <3>4, <4>2
    <3> QED BY <3>2, <3>3, <3>4
  <2>10. visited \subseteq FromEntry
    BY DEF Traced
  <2> QED BY <2>1, <2>7, <2>8, <2>9, <2>10 DEF Traced
<1>5. CASE RejectCycle \/ RejectFile \/ RejectImport \/ RejectNames \/ RejectScope \/ Reject("overflow")
  BY <1>1, <1>5 DEF RejectCycle, RejectFile, RejectImport, RejectNames, RejectScope, Reject
<1>6. CASE Finish \/ LaySegment \/ UNCHANGED bundlerVars
  BY <1>1, <1>6 DEF Finish, LaySegment, bundlerVars
<1> QED
  BY <1>2, <1>3, <1>4, <1>5, <1>6 DEF BundlerNext

(***************************************************************************)
(* A walked file's bindings are its imported names.                        *)
(***************************************************************************)
\* All imports of a file that are there, as WellFormedFile wants them.
LEMMA ImportsFacts ==
  ASSUME program \in Programs, NEW k \in DOMAIN program
  PROVE  /\ \A n \in 1 .. Size(k) : Imp(k, n) \in ToSet(File(k).imports)
         /\ \A i \in ToSet(File(k).imports) : i \in ImportType /\ \E n \in 1 .. Size(k) : i = Imp(k, n)
         /\ Imports(k) = { i \in ToSet(File(k).imports) : Resolves(i) }
<1>1. File(k).imports \in Seq(ImportType)
  BY FileFacts DEF FileType
<1> QED
  BY <1>1 DEF Imports, ToSet, Imp, Size

LEMMA BoundFacts ==
  ASSUME program \in Programs, NEW k \in DOMAIN program, Walked(k, Size(k))
  PROVE  /\ Locals(k) = ImportedNames(k)
         /\ \A n : n \notin Declared(File(k)) =>
              Means(k, n) = { <<e.target, e.original>> : e \in { e \in bindings[k] : e.local = n } }
<1>1. Imports(k) = { Imp(k, n) : n \in 1 .. Size(k) }
  BY ImportsFacts DEF Walked
<1>2. bindings[k] = UNION { Edges(i) : i \in Imports(k) }
  BY <1>1 DEF Walked
<1>3. ASSUME NEW i \in Imports(k), NEW el \in ToSet(i.list)
      PROVE  \E e \in bindings[k] : e.local = el[2] /\ e.target = i.target /\ e.original = el[1]
  <2> DEFINE e == [local |-> el[2], target |-> i.target, original |-> el[1]]
  <2>1. e \in Edges(i)
    BY DEF Edges
  <2>2. e \in bindings[k] /\ e.local = el[2] /\ e.target = i.target /\ e.original = el[1]
    BY <1>2, <2>1
  <2> QED BY <2>2
<1>4. ASSUME NEW e \in bindings[k]
      PROVE  \E i \in Imports(k) : \E el \in ToSet(i.list) :
               e.local = el[2] /\ e.target = i.target /\ e.original = el[1]
  <2>1. PICK i \in Imports(k) : e \in Edges(i)
    BY <1>2
  <2>2. PICK el \in ToSet(i.list) : e = [local |-> el[2], target |-> i.target, original |-> el[1]]
    BY <2>1 DEF Edges
  <2> QED BY <2>2
<1>5. Locals(k) = ImportedNames(k)
  <2>1. \A n : n \in Locals(k) <=> \E e \in bindings[k] : n = e.local
    BY DEF Locals
  <2>2. \A n : n \in ImportedNames(k) <=> \E i \in Imports(k) : \E el \in ToSet(i.list) : n = el[2]
    BY DEF ImportedNames
  <2>3. ASSUME NEW n \in Locals(k) PROVE n \in ImportedNames(k)
    <3>1. PICK e \in bindings[k] : n = e.local
      BY <2>1
    <3>2. PICK i \in Imports(k) : \E el \in ToSet(i.list) : e.local = el[2]
      BY <1>4
    <3> QED BY <2>2, <3>1, <3>2
  <2>4. ASSUME NEW n \in ImportedNames(k) PROVE n \in Locals(k)
    <3>1. PICK i \in Imports(k) : \E el \in ToSet(i.list) : n = el[2]
      BY <2>2
    <3>2. PICK el \in ToSet(i.list) : n = el[2]
      BY <3>1
    <3>3. PICK e \in bindings[k] : e.local = el[2]
      BY <1>3
    <3> QED BY <2>1, <3>2, <3>3
  <2> QED BY <2>3, <2>4
<1>6. ASSUME NEW n, n \notin Declared(File(k))
      PROVE  Means(k, n) = { <<e.target, e.original>> : e \in { e \in bindings[k] : e.local = n } }
  <2>1. Means(k, n) =
          UNION { { <<i.target, el[1]>> : el \in { el \in ToSet(i.list) : el[2] = n } } : i \in Imports(k) }
    BY <1>6 DEF Means
  <2>2. \A i \in Imports(k) : \A el \in ToSet(i.list) : el[2] = n =>
          \E e \in bindings[k] : e.local = n /\ <<i.target, el[1]>> = <<e.target, e.original>>
    BY <1>3
  <2>3. \A e \in bindings[k] : e.local = n =>
          \E i \in Imports(k) : \E el \in ToSet(i.list) :
            el[2] = n /\ <<i.target, el[1]>> = <<e.target, e.original>>
    BY <1>4
  <2> QED BY <2>1, <2>2, <2>3
<1> QED
  BY <1>5, <1>6

(***************************************************************************)
(* The files on the stack, the top one apart if it is being entered, are   *)
(* different: a chain of imports is no longer than there are files.        *)
(***************************************************************************)
LEMMA StackFits ==
  ASSUME Walk, stack # <<>>, Top.step # "enter"
  PROVE  Len(stack) < MaxDepth
<1> DEFINE n == Len(stack)
           keyAt == [i \in 1 .. n |-> stack[i].key]
<1>1. n \in Nat \ {0} /\ Top = stack[n] /\ stack \in Seq(Frames)
  BY TopFacts DEF Walk, WalkTypes
<1>2. \A i \in 1 .. n : stack[i].step # "enter"
  BY <1>1 DEF Walk, StackInv
<1>3. \A i \in 1 .. n : stack[i].key \in DOMAIN program
  <2>1. \A i \in 1 .. n : stack[i] \in Frames
    BY <1>1
  <2> QED BY <2>1 DEF Frames
<1>4. \A i, j \in 1 .. n : i < j => stack[i].key # stack[j].key
  BY <1>2 DEF Walk, StackInv
<1>5. DOMAIN program \subseteq Keys
  BY FileFacts DEF Walk, WalkTypes
<1>6. keyAt \in Injection(1 .. n, Keys)
  <2> HIDE DEF n
  <2>1. \A i, j \in 1 .. n : stack[i].key = stack[j].key => i = j
    BY <1>1, <1>4
  <2> QED BY <1>3, <1>5, <2>1 DEF Injection, IsInjective
<1>7. IsFiniteSet(1 .. n) /\ Cardinality(1 .. n) = n
  BY <1>1, FS_Interval
<1>8. Cardinality(1 .. n) <= Cardinality(Keys)
  BY <1>6, DepthAssumption, FS_Injection
<1>9. Cardinality(Keys) \in Nat
  BY DepthAssumption, FS_CardinalityType
<1> HIDE DEF n
<1>10. n < MaxDepth
  BY <1>1, <1>7, <1>8, <1>9, DepthAssumption
<1> QED
  BY <1>10 DEF n

(***************************************************************************)
(* The entry is at the bottom of the stack, and nowhere else.              *)
(***************************************************************************)
LEMMA EntryIsBottom ==
  ASSUME Walk, stack # <<>>, ~InStack \/ Top.step # "enter"
  PROVE  IsEntry <=> Top.key = Entry
<1> DEFINE n == Len(stack)
<1>1. n \in Nat \ {0} /\ Top = stack[n] /\ stack[1].key = Entry
  BY TopFacts DEF Walk, StackInv
<1>2. n # 1 => stack[1].key # stack[n].key
  <2>1. CASE ~InStack
    <3>1. \A i \in 1 .. n - 1 : stack[i].key # Top.key
      BY <2>1 DEF InStack
    <3> HIDE DEF n
    <3>2. n # 1 => 1 \in 1 .. n - 1
      BY <1>1
    <3> QED BY <1>1, <3>1, <3>2
  <2>2. CASE Top.step # "enter"
    <3>1. \A i, j \in 1 .. n : i < j /\ stack[j].step # "enter" => stack[i].key # stack[j].key
      BY DEF Walk, StackInv
    <3> HIDE DEF n
    <3>2. 1 \in 1 .. n /\ n \in 1 .. n /\ (n # 1 => 1 < n)
      BY <1>1
    <3> QED BY <1>1, <2>2, <3>1, <3>2
  <2> QED BY <2>1, <2>2
<1> HIDE DEF n
<1> QED
  BY <1>1, <1>2 DEF IsEntry, n

LEMMA TopTraced ==
  ASSUME Walk, Traced, stack # <<>>
  PROVE  Top.key \in FromEntry
BY TopFacts DEF Traced

(***************************************************************************)
(* A program that keeps the rules is not rejected.                         *)
(***************************************************************************)
LEMMA CycleIsCyclic ==
  ASSUME Walk, Traced, RejectCycle
  PROVE  \E k \in FromEntry : Cyclic(k)
<1> DEFINE n == Len(stack)
<1>1. stack # <<>> /\ InStack
  BY DEF RejectCycle, At
<1>2. n \in Nat \ {0} /\ Top = stack[n] /\ Top.key \in DOMAIN program /\ Top.key \in FromEntry
  BY <1>1, TopFacts, TopTraced
<1>3. PICK k \in DOMAIN program : k = Top.key
  BY <1>2
<1>4. PICK i \in 1 .. n - 1 : stack[i].key = k
  BY <1>1, <1>3 DEF InStack
<1>5. k \in Below(k)
  BY <1>2, <1>3, <1>4 DEF Traced
<1>6. Cyclic(k)
  BY <1>5 DEF Cyclic, Below
<1> QED
  BY <1>2, <1>3, <1>6

LEMMA NotRejected ==
  ASSUME Walk, Traced, WellFormed
  PROVE  ~(RejectCycle \/ RejectFile \/ RejectImport \/ RejectNames \/ RejectScope)
<1>1. \A k \in FromEntry : ~Cyclic(k) /\ WellFormedFile(k, FromEntry)
  BY DEF WellFormed, FromEntry
<1>2. program \in Programs
  BY DEF Walk, WalkTypes
<1>3. ASSUME RejectCycle PROVE FALSE
  BY <1>1, <1>3, CycleIsCyclic
<1>4. ASSUME RejectFile PROVE FALSE
  <2>1. stack # <<>> /\ ~InStack /\ Flawed(File(Top.key), IsEntry)
    BY <1>4 DEF RejectFile, At
  <2>2. WellFormedFile(Top.key, FromEntry) /\ (IsEntry <=> Top.key = Entry)
    BY <1>1, <2>1, TopTraced, EntryIsBottom
  <2> QED BY <2>1, <2>2 DEF WellFormedFile, Flawed, HasSyntaxError, HasRetiredPragma, DeclaresContract
\* The file whose statements are read.
<1>5. ASSUME At("import") \/ At("bind")
      PROVE  /\ stack # <<>> /\ Top.key \in FromEntry /\ Top.key \in DOMAIN program /\ OpenFrame(Top)
             /\ (IsEntry <=> Top.key = Entry) /\ Top.stmt \in Nat
             /\ WellFormedFile(Top.key, FromEntry)
  <2>1. stack # <<>> /\ Top.step # "enter"
    BY <1>5 DEF At
  <2>2. /\ Len(stack) \in 1 .. Len(stack) /\ Top = stack[Len(stack)] /\ Top \in Frames
        /\ Top.key \in DOMAIN program
    BY <2>1, TopFacts
  <2>3. OpenFrame(Top)
    BY <2>1, <2>2 DEF Walk, StackInv
  <2>4. Top.key \in FromEntry /\ (IsEntry <=> Top.key = Entry)
    BY <2>1, TopTraced, EntryIsBottom
  <2> QED BY <1>1, <2>1, <2>2, <2>3, <2>4 DEF Frames
<1>6. ASSUME NEW k \in DOMAIN program, WellFormedFile(k, FromEntry), NEW m \in 1 .. Size(k)
      PROVE  /\ Imp(k, m).form = "named" /\ Resolves(Imp(k, m))
             /\ \A el \in ToSet(Imp(k, m).list) :
                  /\ el[1] \in Exported(File(Imp(k, m).target))
                  /\ el[2] \in ReservedNames => el[1] = el[2]
  <2>1. Imp(k, m) \in ToSet(File(k).imports)
    BY <1>2, ImportsFacts
  <2> QED BY <1>6, <2>1 DEF WellFormedFile
<1>7. ASSUME RejectImport PROVE FALSE
  <2>0. PICK top : top = Top
    OBVIOUS
  <2>1. /\ At("import") /\ top.stmt <= Size(top.key)
        /\ Imp(top.key, top.stmt).form # "named" \/ ~Resolves(Imp(top.key, top.stmt))
    BY <1>7, <2>0 DEF RejectImport, MoreStatements, Statement, Imp, Size
  <2>2. top.key \in DOMAIN program /\ OpenFrame(top) /\ WellFormedFile(top.key, FromEntry)
    BY <1>5, <2>0, <2>1
  <2>3. top.stmt \in 1 .. Size(top.key)
    BY <1>2, <2>1, <2>2, FileFacts DEF OpenFrame
  <2> QED BY <1>6, <2>1, <2>2, <2>3
<1>8. ASSUME RejectScope PROVE FALSE
  <2>0. PICK k : k = Top.key
    OBVIOUS
  <2>1. At("import") /\ Top.stmt > Size(k) /\ ~Renameable(k, IsEntry)
    BY <1>8, <2>0 DEF RejectScope, NoMoreStatements, Size
  <2>2. /\ k \in DOMAIN program /\ OpenFrame(Top) /\ WellFormedFile(k, FromEntry)
        /\ (IsEntry <=> k = Entry) /\ Size(k) \in Nat
    BY <1>2, <1>5, <2>0, <2>1, FileFacts
  <2>3. Top.stmt - 1 = Size(k)
    BY <2>0, <2>1, <2>2 DEF OpenFrame
  <2>4. Walked(k, Size(k))
    BY <2>0, <2>2, <2>3 DEF OpenFrame
  <2>5. Locals(k) = ImportedNames(k)
    BY <1>2, <2>2, <2>4, BoundFacts
  <2> QED BY <2>1, <2>2, <2>5 DEF WellFormedFile, Renameable
<1>9. ASSUME RejectNames PROVE FALSE
  <2>0. PICK k, m : k = Top.key /\ m = Top.stmt
    OBVIOUS
  <2>1. At("bind") /\ ~Bindable(Imp(k, m), bindings[k])
    BY <1>9, <2>0 DEF RejectNames, Statement, Imp
  <2>2. k \in DOMAIN program /\ OpenFrame(Top) /\ WellFormedFile(k, FromEntry) /\ m \in Nat /\ Size(k) \in Nat
    BY <1>2, <1>5, <2>0, <2>1, FileFacts
  <2>3. m \in 1 .. Size(k) /\ Walked(k, m - 1)
    BY <2>0, <2>1, <2>2 DEF OpenFrame, At
  <2>4. bindings[k] = UNION { Edges(Imp(k, i)) : i \in 1 .. m - 1 }
    BY <2>3 DEF Walked
  <2>5. ASSUME NEW e \in bindings[k] \cup Edges(Imp(k, m))
        PROVE  /\ e.local \in ImportedNames(k) /\ <<e.target, e.original>> \in Means(k, e.local)
               /\ e = [local |-> e.local, target |-> e.target, original |-> e.original]
    <3>1. PICK i \in 1 .. Size(k) : e \in Edges(Imp(k, i))
      <4>1. CASE e \in bindings[k]
        <5>1. PICK i \in 1 .. m - 1 : e \in Edges(Imp(k, i))
          BY <2>4, <4>1
        <5>2. i \in 1 .. Size(k)
          BY <2>2, <2>3
        <5> QED BY <5>1, <5>2
      <4> QED BY <2>3, <2>5, <4>1
    <3>2. Imp(k, i) \in Imports(k)
      BY <1>2, <1>6, <2>2, ImportsFacts
    <3>3. PICK el \in ToSet(Imp(k, i).list) :
            e = [local |-> el[2], target |-> Imp(k, i).target, original |-> el[1]]
      BY <3>1 DEF Edges
    <3>4. e.local = el[2] /\ e.target = Imp(k, i).target /\ e.original = el[1]
      BY <3>3
    <3>5. el[2] \in ImportedNames(k)
      BY <3>2 DEF ImportedNames
    <3>6. el[2] \notin Declared(File(k))
      BY <2>2, <3>5 DEF WellFormedFile
    <3>7. <<Imp(k, i).target, el[1]>> \in Means(k, el[2])
      BY <3>2, <3>6 DEF Means
    <3> QED BY <3>3, <3>4, <3>5, <3>7
  <2>6. ASSUME NEW e \in bindings[k] \cup Edges(Imp(k, m)), NEW d \in bindings[k] \cup Edges(Imp(k, m)),
               e.local = d.local
        PROVE  e = d
    <3>0. \A n \in ImportedNames(k) : \A x, y \in Means(k, n) : x = y
      BY <2>2 DEF WellFormedFile
    <3>1. <<e.target, e.original>> = <<d.target, d.original>>
      BY <2>5, <2>6, <3>0
    <3>2. e.target = d.target /\ e.original = d.original
      BY <3>1
    <3> QED BY <2>5, <2>6, <3>2
  <2>7. OneMeaning(bindings[k] \cup Edges(Imp(k, m)))
    BY <2>6 DEF OneMeaning
  <2> QED BY <1>6, <2>1, <2>2, <2>3, <2>7 DEF Bindable
<1> QED
  BY <1>3, <1>4, <1>7, <1>8, <1>9

LEMMA NothingStray ==
  ASSUME Walk, Traced, WellFormed, NEW k \in visited
  PROVE  StrayReferences(k) = {} /\ ReservedSpelling(k) = {}
<1>1. /\ WellFormedFile(k, FromEntry) /\ Bundled \subseteq FromEntry
      /\ program \in Programs /\ k \in DOMAIN program /\ Walked(k, Size(k))
  <2>1. k \in FromEntry /\ Bundled = visited
    BY DEF Traced, Walk, OrderInv, Bundled
  <2> QED BY <2>1 DEF WellFormed, FromEntry, Traced, Walk, WalkTypes, FilesInv, DoneFile
<1>2. Locals(k) = ImportedNames(k)
  BY <1>1, BoundFacts
<1>3. ASSUME NEW r \in StrayReferences(k) PROVE FALSE
  <2>1. /\ r \in File(k).refs /\ r \notin Declared(File(k)) /\ r \notin Locals(k) /\ r \notin File(k).locals
        /\ \E j \in Bundled : r \in Declared(File(j))
    BY <1>3 DEF StrayReferences
  <2>2. Means(k, r) = {}
    <3>1. Means(k, r) = { <<e.target, e.original>> : e \in { e \in bindings[k] : e.local = r } }
      BY <1>1, <2>1, BoundFacts
    <3>2. ~ \E e \in bindings[k] : e.local = r
      BY <2>1 DEF Locals
    <3> QED BY <3>1, <3>2
  <2>3. \A j \in FromEntry : r \notin Declared(File(j))
    BY <1>1, <2>1, <2>2 DEF WellFormedFile
  <2> QED BY <1>1, <2>1, <2>3
<1>4. ReservedSpelling(k) = {}
  BY <1>1 DEF WellFormedFile, ReservedSpelling
<1> QED
  BY <1>3, <1>4

(***************************************************************************)
(* A bundle that was finished holds the files the entry reaches, and they  *)
(* keep the rules.                                                         *)
(***************************************************************************)
LEMMA BundleIsWhole ==
  ASSUME Walk, Traced, stack = <<>>
  PROVE  /\ visited = FromEntry /\ ToSet(order) = FromEntry
         /\ Len(order) > 0 /\ order[Len(order)] = Entry
         /\ \A k \in FromEntry : DoneFile(k)
<1>1. Len(order) \in Nat /\ Len(order) > 0 /\ order[Len(order)] = Entry /\ visited = ToSet(order)
  BY DEF Walk, WalkTypes, OrderInv
<1>2. Entry \in visited
  BY <1>1 DEF ToSet
<1>3. program \in Programs /\ {Entry} \in SUBSET DOMAIN program /\ visited \in SUBSET DOMAIN program
  BY <1>2 DEF Walk, WalkTypes
<1>4. \A k \in visited : \A n \in 1 .. Size(k) : Imp(k, n).target \in visited
  BY DEF Walk, FilesInv, DoneFile, Walked
<1>5. FromEntry \subseteq visited
  BY <1>2, <1>3, <1>4, ReachedFacts DEF FromEntry
<1> QED
  BY <1>1, <1>5 DEF Traced, Walk, FilesInv

LEMMA BundleIsAcyclic ==
  ASSUME Walk, NEW k \in visited
  PROVE  ~Cyclic(k)
<1>1. /\ program \in Programs /\ order \in Seq(DOMAIN program) /\ Len(order) \in Nat
      /\ visited = ToSet(order) /\ IsInjective(order) /\ k \in DOMAIN program
  BY DEF Walk, WalkTypes, OrderInv
<1>2. PICK i \in 1 .. Len(order) : order[i] = k
  BY <1>1 DEF ToSet
<1> DEFINE before == { order[j] : j \in 1 .. i - 1 }
<1>3. before \in SUBSET DOMAIN program
  BY <1>1, <1>2
<1>4. ASSUME NEW h \in DOMAIN program, NEW j \in 1 .. i, order[j] = h, NEW n \in 1 .. Size(h)
      PROVE  Imp(h, n).target \in before
  <2>1. j \in 1 .. Len(order)
    BY <1>1, <1>2
  <2>2. PICK l \in 1 .. j - 1 : order[l] = Imp(h, n).target
    BY <1>4, <2>1 DEF Walk, OrderInv
  <2>3. l \in 1 .. i - 1
    BY <1>1, <1>2, <2>2
  <2> QED BY <2>2, <2>3
<1>5. Importees({k}) \subseteq before
  <2>1. \A t \in Importees({k}) : \E n \in 1 .. Size(k) : t = Imp(k, n).target
    BY <1>1, ImporteesFacts
  <2>2. i \in 1 .. i
    BY <1>1, <1>2
  <2> HIDE DEF before
  <2>3. \A n \in 1 .. Size(k) : Imp(k, n).target \in before
    BY <1>1, <1>2, <1>4, <2>2
  <2> QED BY <2>1, <2>3
<1>6. ASSUME NEW h \in before, NEW n \in 1 .. Size(h) PROVE Imp(h, n).target \in before
  <2>1. PICK j \in 1 .. i - 1 : order[j] = h
    OBVIOUS
  <2>2. j \in 1 .. i
    BY <1>1, <1>2
  <2> QED BY <1>3, <1>4, <1>6, <2>1, <2>2
<1>7. k \notin before
  <2>1. \A j \in 1 .. i - 1 : j \in 1 .. Len(order) /\ j # i
    BY <1>1, <1>2
  <2>2. \A j \in 1 .. Len(order) : order[j] = order[i] => j = i
    BY <1>1, <1>2 DEF IsInjective
  <2> QED BY <1>2, <2>1, <2>2
<1> HIDE DEF before
<1>8. Importees({k}) \in SUBSET DOMAIN program
  BY <1>3, <1>5
<1>9. Below(k) \subseteq before
  BY <1>1, <1>3, <1>5, <1>6, <1>8, ReachedFacts DEF Below
<1> QED
  BY <1>1, <1>7, <1>9, BelowFacts

LEMMA BundledIsWellFormed ==
  ASSUME Walk, Traced, stack = <<>>,
         \A k \in visited : StrayReferences(k) = {} /\ ReservedSpelling(k) = {}
  PROVE  WellFormed
<1>1. /\ visited = FromEntry /\ Bundled = FromEntry /\ program \in Programs /\ FromEntry \subseteq DOMAIN program
      /\ \A k \in FromEntry : DoneFile(k)
  BY BundleIsWhole DEF Bundled, Walk, WalkTypes
<1>2. ASSUME NEW k \in FromEntry PROVE WellFormedFile(k, FromEntry)
  <2>1. /\ DoneFile(k) /\ StrayReferences(k) = {} /\ ReservedSpelling(k) = {} /\ k \in DOMAIN program
        /\ Walked(k, Size(k)) /\ Renameable(k, k = Entry) /\ ~Flawed(File(k), k = Entry)
    BY <1>1 DEF DoneFile
  <2>2. Locals(k) = ImportedNames(k)
    BY <1>1, <2>1, BoundFacts
  <2>3. File(k).flaw \in {"none"} \cup (IF k = Entry THEN {"contract"} ELSE {})
    <3>1. File(k).flaw \in Flaws
      BY <1>1, <2>1, FileFacts DEF FileType
    <3> QED BY <2>1, <3>1 DEF Flawed, HasSyntaxError, HasRetiredPragma, DeclaresContract, Flaws
  <2>4. ASSUME NEW i \in ToSet(File(k).imports)
        PROVE  /\ i.form = "named" /\ Resolves(i)
               /\ \A el \in ToSet(i.list) :
                    /\ el[1] \in Exported(File(i.target))
                    /\ el[2] \in ReservedNames => el[1] = el[2]
    <3>1. PICK n \in 1 .. Size(k) : i = Imp(k, n)
      BY <1>1, <2>1, ImportsFacts
    <3> QED BY <2>1, <3>1 DEF Walked
  <2>5. ASSUME NEW n \in ImportedNames(k)
        PROVE  /\ \A d, e \in Means(k, n) : d = e
               /\ n \notin Declared(File(k)) \cup File(k).locals
    <3>1. n \notin Declared(File(k)) \cup File(k).locals
      BY <2>1, <2>2, <2>5 DEF Renameable
    <3>2. Means(k, n) = { <<e.target, e.original>> : e \in { e \in bindings[k] : e.local = n } }
      BY <1>1, <2>1, <3>1, BoundFacts
    <3>3. \A e, d \in bindings[k] : e.local = d.local => e = d
      BY <2>1 DEF Walked, OneMeaning
    <3> QED BY <3>1, <3>2, <3>3
  <2>6. k # Entry => TopNames(File(k)) \cap (ReservedNames \cup File(k).locals \cup File(k).nested) = {}
    BY <2>1 DEF Renameable
  <2>7. ASSUME NEW r \in File(k).refs, r \notin File(k).locals, Means(k, r) = {}, NEW j \in FromEntry
        PROVE  r \notin Declared(File(j))
    <3>1. r \notin Declared(File(k))
      BY <2>7 DEF Means
    <3>2. r \notin Locals(k)
      <4>1. Means(k, r) = { <<e.target, e.original>> : e \in { e \in bindings[k] : e.local = r } }
        BY <1>1, <2>1, <3>1, BoundFacts
      <4> QED BY <2>7, <4>1 DEF Locals
    <3> QED BY <1>1, <2>1, <2>7, <3>1, <3>2 DEF StrayReferences
  <2>8. \A n \in Declared(File(k)) \cup File(k).locals \cup File(k).refs : Written(n)
    BY <2>1 DEF ReservedSpelling
  <2> QED BY <2>3, <2>4, <2>5, <2>6, <2>7, <2>8 DEF WellFormedFile
<1> QED
  BY <1>1, <1>2, BundleIsAcyclic DEF WellFormed, FromEntry

(***************************************************************************)
(* Verdicts.                                                               *)
(***************************************************************************)
Rejections == {"cycle", "file", "import", "names", "scope", "reference", "spelling"}

Judged ==
  /\ verdict \in {"running", "bundled"} \cup Rejections
  /\ verdict \in Rejections => ~WellFormed
  /\ verdict = "cycle" => \E k \in FromEntry : Cyclic(k)
  /\ verdict = "bundled" =>
       stack = <<>> /\ \A k \in visited : StrayReferences(k) = {} /\ ReservedSpelling(k) = {}

LEMMA JudgedStep ==
  ASSUME Walk, Traced, Judged, [BundlerNext]_bundlerVars
  PROVE  Judged'
<1> USE SameProgram
<1>0. program' = program
  BY DEF BundlerNext, RejectCycle, SkipVisited, RejectFile, OpenFile, RejectImport, VisitTarget,
         RejectNames, BindNames, RejectScope, CloseFile, Finish, Reject, LaySegment, bundlerVars
<1>1. WellFormed' <=> WellFormed
  BY <1>0 DEF WellFormed, WellFormedFile, Cyclic, Reached, Importees, Imports, Resolves, File,
              Exported, ImportedNames, Means, Declared, TopNames
<1>2. CASE UNCHANGED <<stack, visited, order, bindings, verdict>>
  <2>1. \A k : StrayReferences(k)' = StrayReferences(k) /\ ReservedSpelling(k)' = ReservedSpelling(k)
    BY <1>0, <1>2 DEF StrayReferences, ReservedSpelling, Declared, TopNames, Locals, Bundled, File
  <2> QED BY <1>0, <1>1, <1>2, <2>1 DEF Judged
<1>3. CASE verdict' = verdict /\ verdict = "running"
  BY <1>3 DEF Judged, Rejections
<1>4. CASE RejectCycle
  <2>1. verdict' = "cycle" /\ (\E k \in FromEntry : Cyclic(k)) /\ ~WellFormed
    BY <1>4, CycleIsCyclic, NotRejected DEF RejectCycle, Reject
  <2>2. \E k \in FromEntry' : Cyclic(k)'
    BY <1>0, <2>1
  <2> QED BY <1>1, <2>1, <2>2 DEF Judged, Rejections
<1>5. CASE RejectFile \/ RejectImport \/ RejectNames \/ RejectScope
  <2>1. verdict' \in Rejections /\ verdict' # "cycle" /\ verdict' # "bundled" /\ ~WellFormed
    BY <1>5, NotRejected DEF RejectFile, RejectImport, RejectNames, RejectScope, Reject, Rejections
  <2> QED BY <1>1, <2>1 DEF Judged
<1>6. CASE VisitTarget /\ Reject("overflow")
  <2>1. stack # <<>> /\ Top.step # "enter" /\ Len(stack) < MaxDepth
    BY <1>6, StackFits DEF VisitTarget, MoreStatements, At
  <2>2. Len(stack) = MaxDepth \/ verdict' = verdict
    BY <1>6 DEF VisitTarget
  <2>3. verdict' = verdict /\ UNCHANGED <<stack, visited, order, bindings>>
    BY <1>6, <2>1, <2>2, DepthAssumption, TopFacts DEF Reject
  <2> QED BY <1>2, <2>3
<1>7. CASE Finish
  <2>1. Bundled = visited
    BY DEF Walk, OrderInv, Bundled
  <2>2. \A k \in visited : WellFormed => StrayReferences(k) = {} /\ ReservedSpelling(k) = {}
    BY NothingStray
  <2>3. UNCHANGED <<program, stack, visited, order, bindings>> /\ stack = <<>>
    BY <1>7 DEF Finish
  <2>4. \A k : StrayReferences(k)' = StrayReferences(k) /\ ReservedSpelling(k)' = ReservedSpelling(k)
    BY <2>3 DEF StrayReferences, ReservedSpelling, Declared, TopNames, Locals, Bundled, File
  <2>5. verdict' \in {"reference", "spelling"} => ~WellFormed
    BY <1>7, <2>1, <2>2 DEF Finish
  <2>6. verdict' \in {"reference", "spelling", "bundled"}
    BY <1>7 DEF Finish
  <2>7. verdict' = "bundled" => \A k \in visited : StrayReferences(k) = {} /\ ReservedSpelling(k) = {}
    BY <1>7, <2>1 DEF Finish
  <2> QED BY <1>1, <2>3, <2>4, <2>5, <2>6, <2>7 DEF Judged, Rejections
<1>8. CASE LaySegment \/ UNCHANGED bundlerVars
  BY <1>2, <1>8 DEF LaySegment, bundlerVars
<1> QED
  BY <1>2, <1>3, <1>4, <1>5, <1>6, <1>7, <1>8
  DEF BundlerNext, SkipVisited, OpenFile, BindNames, CloseFile, VisitTarget

(***************************************************************************)
(* The lines of one file, and texts one after the other.                   *)
(***************************************************************************)
LEMMA LinesFacts ==
  ASSUME NEW S, NEW k \in S, NEW c \in Nat, NEW lines, lines = [n \in 1 .. c |-> <<k, n>>]
  PROVE  /\ lines \in Seq(S \X Nat) /\ Len(lines) = c
         /\ \A n \in 1 .. c : lines[n] = <<k, n>>
<1>1. \A n \in Nat : <<k, n>> \in S \X Nat
  OBVIOUS
<1>2. PICK P : P = S \X Nat
  OBVIOUS
<1>3. lines \in [1 .. c -> P]
  BY <1>1, <1>2
<1>4. lines \in Seq(P) /\ Len(lines) = c
  BY <1>3
<1> QED
  BY <1>2, <1>4

LEMMA ConcatFacts ==
  ASSUME NEW S, NEW s \in Seq(S), NEW t \in Seq(S)
  PROVE  s \o t \in Seq(S) /\ Len(s \o t) = Len(s) + Len(t)
  OBVIOUS

(***************************************************************************)
(* The segments lie one after the other, and cover the text.               *)
(***************************************************************************)
SegmentType == [file : DOMAIN program, startLine : Nat \ {0}, lineCount : Nat]

Laid ==
  /\ segments \in Seq(SegmentType) /\ text \in Seq((DOMAIN program) \X Nat) /\ line = Len(text) + 1
  /\ \A i \in 1 .. Len(segments), s \in SegmentType : s = segments[i] =>
       /\ s.startLine + s.lineCount <= line
       /\ \A n \in 1 .. s.lineCount : text[s.startLine + n - 1] = <<s.file, n>>
  /\ \A i, j \in 1 .. Len(segments) :
       i < j => segments[i].startLine + segments[i].lineCount <= segments[j].startLine
  /\ \A l \in 1 .. Len(text) : \E i \in 1 .. Len(segments) :
       l >= segments[i].startLine /\ l < segments[i].startLine + segments[i].lineCount

LEMMA LaidStep ==
  ASSUME Walk, Laid, [BundlerNext]_bundlerVars
  PROVE  Laid'
<1>0. program' = program
  BY DEF BundlerNext, RejectCycle, SkipVisited, RejectFile, OpenFile, RejectImport, VisitTarget,
         RejectNames, BindNames, RejectScope, CloseFile, Finish, Reject, LaySegment, bundlerVars
<1>1. SegmentType' = SegmentType
  BY <1>0 DEF SegmentType
<1>2. CASE UNCHANGED <<segments, line, text>>
  BY <1>0, <1>1, <1>2 DEF Laid
<1>3. CASE LaySegment
  <2>1. PICK k, c : k = order[Len(segments) + 1] /\ c = File(k).lines
    OBVIOUS
  <2> DEFINE new == [file |-> k, startLine |-> line, lineCount |-> c]
             lines == [n \in 1 .. c |-> <<k, n>>]
             m == Len(segments)
             z == Len(text)
  <2>2. /\ segments' = Append(segments, new) /\ text' = text \o lines /\ line' = line + c
        /\ m < Len(order)
    BY <1>3, <2>1 DEF LaySegment, MoreSegments
  <2>3. /\ segments \in Seq(SegmentType) /\ text \in Seq((DOMAIN program) \X Nat) /\ line = z + 1
        /\ m \in Nat /\ z \in Nat
    BY DEF Laid
  <2>4. k \in DOMAIN program /\ c \in Nat
    <3>1. order \in Seq(DOMAIN program) /\ program \in Programs
      BY DEF Walk, WalkTypes
    <3>2. k \in DOMAIN program
      BY <2>1, <2>2, <2>3, <3>1
    <3> QED BY <2>1, <3>1, <3>2, FileFacts DEF FileType
  <2>5. new \in SegmentType /\ new.file = k /\ new.startLine = z + 1 /\ new.lineCount = c
    BY <2>3, <2>4 DEF SegmentType
  <2>6. lines \in Seq((DOMAIN program) \X Nat) /\ Len(lines) = c /\ \A n \in 1 .. c : lines[n] = <<k, n>>
    <3>1. lines = [n \in 1 .. c |-> <<k, n>>]
      OBVIOUS
    <3> HIDE DEF lines
    <3> QED BY <2>4, <3>1, LinesFacts
  <2> HIDE DEF new, lines
  <2>7. /\ segments' \in Seq(SegmentType) /\ Len(segments') = m + 1 /\ segments'[m + 1] = new
        /\ \A i \in 1 .. m : segments'[i] = segments[i]
    BY <2>2, <2>3, <2>5
  <2>8. text' \in Seq((DOMAIN program) \X Nat) /\ Len(text') = z + c
    BY <2>2, <2>3, <2>6, ConcatFacts
  <2>9. (\A l \in 1 .. z : text'[l] = text[l]) /\ \A n \in 1 .. c : text'[z + n] = <<k, n>>
    BY <2>2, <2>3, <2>4, <2>6
  <2>10. \A i \in 1 .. m : segments[i] \in SegmentType
    BY <2>3
  <2>11. \A i \in 1 .. m : /\ segments[i].startLine \in Nat \ {0} /\ segments[i].lineCount \in Nat
                           /\ segments[i].startLine + segments[i].lineCount <= z + 1
    BY <2>3, <2>10 DEF Laid, SegmentType
  <2> HIDE DEF m, z
  <2>12. ASSUME NEW i \in 1 .. m + 1, NEW s \in SegmentType, s = segments'[i]
         PROVE  /\ s.startLine + s.lineCount <= z + c + 1
                /\ \A n \in 1 .. s.lineCount : text'[s.startLine + n - 1] = <<s.file, n>>
    <3>1. CASE i = m + 1
      <4>1. s.startLine = z + 1 /\ s.lineCount = c /\ s.file = k
        BY <2>5, <2>7, <2>12, <3>1
      <4>2. ASSUME NEW n \in 1 .. c PROVE text'[s.startLine + n - 1] = <<s.file, n>>
        <5>1. s.startLine + n - 1 = z + n
          BY <2>3, <2>4, <4>1
        <5> QED BY <2>9, <4>1, <4>2, <5>1
      <4>3. \A n \in 1 .. s.lineCount : text'[s.startLine + n - 1] = <<s.file, n>>
        BY <4>1, <4>2
      <4>4. s.startLine + s.lineCount <= z + c + 1
        BY <2>3, <2>4, <4>1
      <4> QED BY <4>3, <4>4
    <3>2. CASE i # m + 1
      <4>1. i \in 1 .. m /\ s = segments[i]
        BY <2>3, <2>7, <2>12, <3>2
      <4>2. \A n \in 1 .. s.lineCount : text[s.startLine + n - 1] = <<s.file, n>>
        BY <4>1 DEF Laid, m
      <4>3. s.startLine \in Nat \ {0} /\ s.lineCount \in Nat /\ s.startLine + s.lineCount <= z + 1
        BY <2>11, <4>1
      <4>4. ASSUME NEW n \in 1 .. s.lineCount PROVE text'[s.startLine + n - 1] = <<s.file, n>>
        <5>1. PICK l : l = s.startLine + n - 1
          OBVIOUS
        <5>2. l \in 1 .. z
          BY <2>3, <4>3, <5>1
        <5> QED BY <2>9, <4>2, <5>1, <5>2
      <4> QED BY <2>3, <2>4, <4>3, <4>4
    <3> QED BY <3>1, <3>2
  <2>13. ASSUME NEW i \in 1 .. m + 1, NEW j \in 1 .. m + 1, i < j
         PROVE  segments'[i].startLine + segments'[i].lineCount <= segments'[j].startLine
    <3>1. i \in 1 .. m /\ segments'[i] = segments[i]
      BY <2>3, <2>7, <2>13
    <3>2. CASE j = m + 1
      BY <2>5, <2>7, <2>11, <3>1, <3>2
    <3>3. CASE j # m + 1
      <4>1. j \in 1 .. m /\ segments'[j] = segments[j]
        BY <2>3, <2>7, <3>3
      <4> QED BY <2>13, <3>1, <4>1 DEF Laid, m
    <3> QED BY <3>2, <3>3
  <2>14. ASSUME NEW l \in 1 .. z + c
         PROVE  \E i \in 1 .. m + 1 :
                  l >= segments'[i].startLine /\ l < segments'[i].startLine + segments'[i].lineCount
    <3>1. CASE l \in 1 .. z
      <4>1. PICK i \in 1 .. m : l >= segments[i].startLine /\ l < segments[i].startLine + segments[i].lineCount
        BY <3>1 DEF Laid, m, z
      <4>2. i \in 1 .. m + 1 /\ segments'[i] = segments[i]
        BY <2>3, <2>7
      <4> QED BY <4>1, <4>2
    <3>2. CASE l \notin 1 .. z
      <4>1. l >= z + 1 /\ l < z + 1 + c
        BY <2>3, <2>4, <3>2
      <4>2. m + 1 \in 1 .. m + 1
        BY <2>3
      <4> QED BY <2>5, <2>7, <4>1, <4>2
    <3> QED BY <3>1, <3>2
  <2>15. line' = z + c + 1
    BY <2>2, <2>3, <2>4
  <2>16. Len(segments') = m + 1 /\ Len(text') = z + c
    BY <2>7, <2>8
  <2> QED BY <1>0, <1>1, <2>7, <2>8, <2>12, <2>13, <2>14, <2>15, <2>16 DEF Laid
<1>4. CASE ~LaySegment
  BY <1>2, <1>4 DEF BundlerNext, bundlerVars
<1> QED
  BY <1>3, <1>4

(***************************************************************************)
(* The inductive invariant of the bundler, and what follows from it.       *)
(***************************************************************************)
BundlerInv == Walk /\ Traced /\ Judged /\ Laid

LEMMA InitBundlerInv == BundlerInit => BundlerInv
<1> SUFFICES ASSUME BundlerInit PROVE BundlerInv
  OBVIOUS
<1>1. Judged
  BY DEF BundlerInit, Judged, Rejections
<1>2. Laid
  BY DEF BundlerInit, Laid
<1> QED
  BY <1>1, <1>2, InitWalk, InitTraced DEF BundlerInv

LEMMA SpecBundlerInv == BundlerSpec => []BundlerInv
<1>1. BundlerInv /\ [BundlerNext]_bundlerVars => BundlerInv'
  BY WalkStep, TracedStep, JudgedStep, LaidStep DEF BundlerInv
<1> QED BY <1>1, InitBundlerInv, PTL DEF BundlerSpec

LEMMA InvTypeOK == BundlerInv => BundlerTypeOK
<1> SUFFICES ASSUME BundlerInv PROVE BundlerTypeOK
  OBVIOUS
<1>1. Walk /\ Judged /\ program \in Programs /\ stack \in Seq(Frames)
  BY DEF BundlerInv, Walk, WalkTypes
<1>2. ASSUME NEW i \in 1 .. Len(stack)
      PROVE  /\ stack[i].key \in DOMAIN program /\ stack[i].step \in {"enter", "import", "bind"}
             /\ stack[i].stmt \in 1 .. Len(File(stack[i].key).imports) + 1
  <2>1. PICK f \in Frames : f = stack[i]
    BY <1>1
  <2>2. f.key \in DOMAIN program /\ f.step \in {"enter", "import", "bind"} /\ Size(f.key) \in Nat
    BY <1>1, FileFacts DEF Frames
  <2>3. f.stmt \in 1 .. Size(f.key) + 1
    BY <1>1, <2>1, <2>2 DEF Walk, StackInv, OpenFrame
  <2> QED BY <2>1, <2>2, <2>3 DEF Size
<1>3. visited \subseteq DOMAIN program /\ ToSet(order) = visited
  BY <1>1 DEF Walk, WalkTypes, OrderInv
<1>4. \A k \in DOMAIN program : \A e \in bindings[k] : e.target \in DOMAIN program
  <2>1. \A k \in DOMAIN program : bindings[k] \subseteq EdgeType
    BY <1>1 DEF Walk, WalkTypes
  <2> QED BY <2>1 DEF EdgeType
<1>5. verdict \in {"running", "cycle", "file", "import", "names", "scope", "reference",
                   "spelling", "overflow", "bundled"}
  BY <1>1 DEF Judged, Rejections
<1> QED
  BY <1>2, <1>3, <1>4, <1>5 DEF BundlerTypeOK

LEMMA InvVerdictIsDue == BundlerInv => VerdictIsDue
<1> SUFFICES ASSUME BundlerInv PROVE VerdictIsDue
  OBVIOUS
<1>1. verdict = "bundled" => WellFormed
  BY BundledIsWellFormed DEF BundlerInv, Judged
<1>2. verdict \in {"running", "bundled"} \cup Rejections /\ (verdict \in Rejections => ~WellFormed)
  BY DEF BundlerInv, Judged
<1>3. verdict = "cycle" => \E k \in Reached({Entry}) : Cyclic(k)
  BY DEF BundlerInv, Judged, FromEntry
<1>4. verdict # "overflow"
  BY <1>2 DEF Rejections
<1> QED
  BY <1>1, <1>2, <1>3, <1>4 DEF VerdictIsDue

LEMMA InvDependenciesFirst == BundlerInv => DependenciesFirst
<1> SUFFICES ASSUME BundlerInv PROVE DependenciesFirst
  OBVIOUS
<1>1. /\ Walk /\ program \in Programs /\ order \in Seq(DOMAIN program) /\ Len(order) \in Nat
      /\ IsInjective(order)
  BY DEF BundlerInv, Walk, WalkTypes, OrderInv
<1>2. ASSUME NEW i \in 1 .. Len(order), NEW t \in Importees({order[i]})
      PROVE  \E j \in 1 .. i - 1 : order[j] = t
  <2>1. PICK k \in DOMAIN program : k = order[i]
    BY <1>1
  <2>2. PICK n \in 1 .. Size(k) : t = Imp(k, n).target
    BY <1>1, <1>2, <2>1, ImporteesFacts
  <2> QED BY <1>1, <2>1, <2>2 DEF Walk, OrderInv
<1>3. ASSUME verdict = "bundled"
      PROVE  ToSet(order) = Reached({Entry}) /\ Last(order) = Entry
  BY <1>3, BundleIsWhole DEF BundlerInv, Judged, FromEntry, Last
<1> QED
  BY <1>1, <1>2, <1>3 DEF DependenciesFirst

LEMMA InvLinesComeHome == BundlerInv => LinesComeHome
<1> SUFFICES ASSUME BundlerInv, NEW l \in 1 .. Len(text) PROVE Origin(l) = text[l]
  BY DEF LinesComeHome
<1> DEFINE covers(i) == l >= segments[i].startLine /\ l < segments[i].startLine + segments[i].lineCount
           here == { i \in 1 .. Len(segments) : covers(i) }
<1>1. Laid /\ segments \in Seq(SegmentType) /\ text \in Seq((DOMAIN program) \X Nat)
  BY DEF BundlerInv, Laid
<1>0. l \in Nat /\ Len(segments) \in Nat
  BY <1>1
<1>2. \A i \in 1 .. Len(segments) : segments[i].startLine \in Nat /\ segments[i].lineCount \in Nat
  <2>1. \A i \in 1 .. Len(segments) : segments[i] \in SegmentType
    BY <1>1
  <2> QED BY <2>1 DEF SegmentType
<1>3. PICK i \in 1 .. Len(segments) : covers(i)
  BY <1>1 DEF Laid
<1>4. ASSUME NEW j \in 1 .. Len(segments), covers(j) PROVE j = i
  <2>1. \A a, b \in 1 .. Len(segments) :
          a < b => segments[a].startLine + segments[a].lineCount <= segments[b].startLine
    BY <1>1 DEF Laid
  <2>2. ASSUME NEW a \in 1 .. Len(segments), NEW b \in 1 .. Len(segments), covers(a), covers(b) PROVE ~(a < b)
    <3>1. ASSUME a < b PROVE segments[a].startLine + segments[a].lineCount <= segments[b].startLine
      BY <2>1, <3>1
    <3>2. /\ segments[a].startLine \in Nat /\ segments[a].lineCount \in Nat
          /\ segments[b].startLine \in Nat
      BY <1>2
    <3>3. l < segments[a].startLine + segments[a].lineCount /\ segments[b].startLine <= l
      BY <1>0, <1>2, <2>2
    <3> HIDE DEF covers, here
    <3> QED BY <1>0, <3>1, <3>2, <3>3
  <2>3. ~(i < j) /\ ~(j < i)
    BY <1>3, <1>4, <2>2
  <2> QED BY <1>0, <2>3
<1>5. here = {i}
  BY <1>3, <1>4
<1>6. Origin(l) = <<segments[i].file, l - segments[i].startLine + 1>>
  <2>1. Origin(l) = LET first == CHOOSE j \in here : \A m \in here : j <= m IN
                    <<segments[first].file, l - segments[first].startLine + 1>>
    BY <1>5 DEF Origin
  <2>2. (CHOOSE j \in here : \A m \in here : j <= m) = i
    BY <1>5
  <2> QED BY <2>1, <2>2
<1>7. PICK s \in SegmentType : s = segments[i]
  BY <1>1
<1>8. \A n \in 1 .. s.lineCount : text[s.startLine + n - 1] = <<s.file, n>>
  BY <1>1, <1>7 DEF Laid
<1>9. PICK n \in Nat : n = l - s.startLine + 1 /\ n \in 1 .. s.lineCount /\ s.startLine + n - 1 = l
  <2>1. /\ s.startLine \in Nat /\ s.lineCount \in Nat
        /\ l >= s.startLine /\ l < s.startLine + s.lineCount
    BY <1>2, <1>3, <1>7
  <2>2. /\ l - s.startLine + 1 \in Nat /\ l - s.startLine + 1 \in 1 .. s.lineCount
        /\ s.startLine + (l - s.startLine + 1) - 1 = l
    BY <1>0, <2>1
  <2> QED BY <2>2
<1>10. text[l] = <<s.file, n>>
  BY <1>8, <1>9
<1> QED
  BY <1>6, <1>7, <1>9, <1>10

(* Whatever the import graph: a program is bundled exactly when every file   *)
(* the entry reaches keeps the rules, each file is bundled once, after what  *)
(* it imports, and each line of the bundle is told in the file and at the    *)
(* line it was written on.                                                   *)
THEOREM SpecBundleIsDue == BundlerSpec => []BundleIsDue
<1>1. BundlerInv => BundleIsDue
  BY InvTypeOK, InvVerdictIsDue, InvDependenciesFirst, InvLinesComeHome DEF BundleIsDue
<1> QED BY <1>1, SpecBundlerInv, PTL

-----------------------------------------------------------------------------
(* What the renamed names mean.                                              *)

(***************************************************************************)
(* Names as they are written, in scopes of different files, differ.        *)
(***************************************************************************)
LEMMA ScopedFacts ==
  ASSUME NEW n \in Names, Written(n), NEW i \in Nat
  PROVE  /\ ~Written(Scoped(i, n))
         /\ \A m \in Names, j \in Nat : Written(m) /\ Scoped(i, n) = Scoped(j, m) => i = j /\ n = m
<1>1. \A m \in Names : Written(m) => m = <<m[1], <<>> >>
  BY DEF Names, Written
<1>2. \A m \in Names, j \in Nat : Written(m) => Scoped(j, m) = <<m[1], <<j>> >>
  BY DEF Names, Written, Scoped
<1>3. ~Written(Scoped(i, n))
  <2>1. Scoped(i, n)[2] = <<i>>
    BY <1>2
  <2> QED BY <2>1 DEF Written
<1>4. ASSUME NEW m \in Names, NEW j \in Nat, Written(m), Scoped(i, n) = Scoped(j, m)
      PROVE  i = j /\ n = m
  <2>1. <<n[1], <<i>> >> = <<m[1], <<j>> >>
    BY <1>2, <1>4
  <2>2. n[1] = m[1] /\ <<i>> = <<j>>
    BY <2>1
  <2>3. i = j
    BY <2>2
  <2> QED BY <1>1, <1>4, <2>2, <2>3
<1> QED
  BY <1>3, <1>4

\* A finished bundle.
Finished ==
  /\ Walk /\ Traced /\ stack = <<>>
  /\ \A k \in visited : StrayReferences(k) = {} /\ ReservedSpelling(k) = {}

LEMMA FinishedFacts ==
  ASSUME Finished
  PROVE  /\ Bundled = visited /\ visited \subseteq DOMAIN program /\ program \in Programs
         /\ Entry \in visited
         /\ \A k \in visited : Walked(k, Size(k)) /\ Renameable(k, k = Entry)
         /\ \A k \in visited : bindings[k] \subseteq EdgeType
<1>1. ToSet(order) = visited /\ \A k \in visited : DoneFile(k)
  BY BundleIsWhole DEF Finished
<1>2. Len(order) > 0 /\ order[Len(order)] = Entry /\ order \in Seq(DOMAIN program)
  BY BundleIsWhole DEF Finished, Walk, WalkTypes
<1>3. Entry \in visited
  <2>1. Len(order) \in 1 .. Len(order)
    BY <1>2
  <2> QED BY <1>1, <1>2, <2>1 DEF ToSet
<1> QED
  BY <1>1, <1>3 DEF Finished, Bundled, Walk, WalkTypes, DoneFile

(***************************************************************************)
(* Each file of a bundle has an index of its own, and the entry, which is  *)
(* last, is imported by none.                                              *)
(***************************************************************************)
LEMMA DepIndexFacts ==
  ASSUME Finished
  PROVE  /\ \A k \in visited : DepIndex(k) \in Nat
         /\ \A k, h \in visited : DepIndex(k) = DepIndex(h) => k = h
<1>1. order \in Seq(DOMAIN program) /\ visited = ToSet(order) /\ Len(order) \in Nat
  BY DEF Finished, Walk, WalkTypes, OrderInv
<1>2. ASSUME NEW k \in visited
      PROVE  \E i \in 1 .. Len(order) : order[i] = k /\ DepIndex(k) = i - 1
  <2> DEFINE place == CHOOSE i \in 1 .. Len(order) : order[i] = k
  <2>1. \E i \in 1 .. Len(order) : order[i] = k
    BY <1>1 DEF ToSet
  <2>2. place \in 1 .. Len(order) /\ order[place] = k
    BY <2>1
  <2>3. DepIndex(k) = place - 1
    BY DEF DepIndex
  <2> HIDE DEF place
  <2> QED BY <2>2, <2>3
<1>3. \A k \in visited : DepIndex(k) \in Nat
  BY <1>1, <1>2
<1>4. ASSUME NEW k \in visited, NEW h \in visited, DepIndex(k) = DepIndex(h) PROVE k = h
  <2>1. PICK i \in 1 .. Len(order) : order[i] = k /\ DepIndex(k) = i - 1
    BY <1>2
  <2>2. PICK j \in 1 .. Len(order) : order[j] = h /\ DepIndex(h) = j - 1
    BY <1>2
  <2>3. i - 1 = j - 1
    BY <1>4, <2>1, <2>2, Zenon
  <2>4. i = j
    BY <1>1, <2>3
  <2> QED BY <2>1, <2>2, <2>4
<1> QED
  BY <1>3, <1>4

LEMMA TargetFacts ==
  ASSUME Finished, NEW k \in visited, NEW e \in bindings[k]
  PROVE  /\ e.target \in visited /\ e.target # Entry
         /\ e.original \in TopNames(File(e.target))
         /\ e = [local |-> e.local, target |-> e.target, original |-> e.original]
<1>1. Walked(k, Size(k)) /\ k \in DOMAIN program
  BY FinishedFacts
<1>2. PICK n \in 1 .. Size(k) : e \in Edges(Imp(k, n))
  BY <1>1 DEF Walked
<1>3. PICK el \in ToSet(Imp(k, n).list) :
        e = [local |-> el[2], target |-> Imp(k, n).target, original |-> el[1]]
  BY <1>2 DEF Edges
<1>4. Imp(k, n).target \in visited /\ el[1] \in Exported(File(Imp(k, n).target))
  BY <1>1 DEF Walked
<1>5. Imp(k, n).target # Entry
  <2>1. /\ order \in Seq(DOMAIN program) /\ visited = ToSet(order) /\ IsInjective(order)
        /\ order[Len(order)] = Entry /\ Len(order) \in Nat \ {0}
    BY BundleIsWhole DEF Finished, Walk, WalkTypes, OrderInv
  <2>2. PICK i \in 1 .. Len(order) : order[i] = k
    BY <2>1 DEF ToSet
  <2>3. PICK j \in 1 .. i - 1 : order[j] = Imp(k, n).target
    BY <1>1, <2>2 DEF Finished, Walk, OrderInv
  <2>4. j \in 1 .. Len(order) /\ Len(order) \in 1 .. Len(order) /\ j # Len(order)
    BY <2>1, <2>2, <2>3
  <2> QED BY <2>1, <2>3, <2>4 DEF IsInjective
<1>6. e.target = Imp(k, n).target /\ e.original = el[1] /\ e.local = el[2]
  BY <1>3
<1> QED
  BY <1>3, <1>4, <1>5, <1>6 DEF Exported, TopNames

(***************************************************************************)
(* What the renaming makes of a file's own names and of those it imports.  *)
(***************************************************************************)
LEMMA OwnNames ==
  ASSUME Finished, NEW k \in visited, NEW n \in Declared(File(k))
  PROVE  /\ n \in Names /\ Written(n) /\ n \notin Locals(k)
         /\ Final(k, n) = IF n \in TopNames(File(k)) /\ k # Entry THEN Scoped(DepIndex(k), n) ELSE n
<1>1. Renameable(k, k = Entry) /\ File(k) \in FileType
  BY FinishedFacts, FileFacts
<1>2. n \notin Locals(k)
  BY <1>1 DEF Renameable
<1>3. n \in Names
  BY <1>1 DEF FileType, Declared, TopNames
<1>4. Written(n)
  BY DEF Finished, ReservedSpelling
<1>5. CASE n \in TopNames(File(k)) /\ k # Entry
  <2>1. n \in DOMAIN Renames(k)
    BY <1>5 DEF Renames
  <2>2. Renames(k)[n] = Scoped(DepIndex(k), n)
    BY <1>2, <1>5 DEF Renames
  <2> QED BY <1>2, <1>3, <1>4, <1>5, <2>1, <2>2 DEF Final
<1>6. CASE ~(n \in TopNames(File(k)) /\ k # Entry)
  <2>1. n \notin DOMAIN Renames(k)
    BY <1>2, <1>6 DEF Renames
  <2> QED BY <1>2, <1>3, <1>4, <1>6, <2>1 DEF Final
<1> QED
  BY <1>2, <1>3, <1>4, <1>5, <1>6

LEMMA BoundNames ==
  ASSUME Finished, NEW k \in visited, NEW e \in bindings[k]
  PROVE  Final(k, e.local) = Scoped(DepIndex(e.target), e.original)
<1>1. \A d \in bindings[k] : d.local = e.local => d = e
  BY FinishedFacts DEF Walked, OneMeaning
<1>2. (CHOOSE d \in bindings[k] : d.local = e.local) = e
  BY <1>1
<1>3. e.local \in Locals(k)
  BY DEF Locals
<1> QED
  BY <1>2, <1>3 DEF Final, Renames

LEMMA FreeNames ==
  ASSUME Finished, NEW k \in visited, NEW n, n \notin Declared(File(k)), n \notin Locals(k)
  PROVE  Final(k, n) = n
BY DEF Final, Renames, Declared

LEMMA UnitNamesFacts ==
  ASSUME Finished
  PROVE  /\ \A d \in UnitNames :
              /\ d.file \in visited /\ d.name \in TopNames(File(d.file)) /\ d.final = Final(d.file, d.name)
              /\ d = [file |-> d.file, name |-> d.name, final |-> d.final]
         /\ \A k \in visited : \A n \in TopNames(File(k)) :
              \E d \in UnitNames : d.file = k /\ d.name = n /\ d.final = Final(k, n)
         /\ \A k \in visited : \A n \in File(k).nested :
              \E d \in NestedNames : d.final = n
<1>1. Bundled = visited
  BY FinishedFacts
<1>2. ASSUME NEW d \in UnitNames
      PROVE  /\ d.file \in visited /\ d.name \in TopNames(File(d.file)) /\ d.final = Final(d.file, d.name)
             /\ d = [file |-> d.file, name |-> d.name, final |-> d.final]
  <2>1. PICK k \in visited : \E n \in TopNames(File(k)) : d = [file |-> k, name |-> n, final |-> Final(k, n)]
    BY <1>1, <1>2 DEF UnitNames
  <2>2. PICK n \in TopNames(File(k)) : d = [file |-> k, name |-> n, final |-> Final(k, n)]
    BY <2>1
  <2> QED BY <2>2
<1>3. ASSUME NEW k \in visited, NEW n \in TopNames(File(k))
      PROVE  \E d \in UnitNames : d.file = k /\ d.name = n /\ d.final = Final(k, n)
  <2> DEFINE d == [file |-> k, name |-> n, final |-> Final(k, n)]
  <2>1. d \in UnitNames
    BY <1>1 DEF UnitNames
  <2> QED BY <2>1
<1>4. ASSUME NEW k \in visited, NEW n \in File(k).nested
      PROVE  \E d \in NestedNames : d.final = n
  <2> DEFINE d == [file |-> k, name |-> n, final |-> n]
  <2>1. d \in NestedNames
    BY <1>1 DEF NestedNames
  <2> QED BY <2>1
<1> QED
  BY <1>2, <1>3, <1>4

(***************************************************************************)
(* No two top-level declarations of the unit share a name.                 *)
(***************************************************************************)
LEMMA FinalNamesDiffer ==
  ASSUME Finished, NEW d \in UnitNames, NEW e \in UnitNames, d.final = e.final
  PROVE  d = e
<1>1. PICK k, n : k = d.file /\ n = d.name
  OBVIOUS
<1>2. PICK h, m : h = e.file /\ m = e.name
  OBVIOUS
<1>3. /\ k \in visited /\ n \in TopNames(File(k)) /\ d.final = Final(k, n)
      /\ h \in visited /\ m \in TopNames(File(h)) /\ e.final = Final(h, m)
      /\ d = [file |-> k, name |-> n, final |-> d.final] /\ e = [file |-> h, name |-> m, final |-> e.final]
  BY <1>1, <1>2, UnitNamesFacts
<1>4. n \in Declared(File(k)) /\ m \in Declared(File(h))
  BY <1>3 DEF Declared
<1>5. /\ n \in Names /\ Written(n) /\ (k = Entry => d.final = n) /\ (k # Entry => d.final = Scoped(DepIndex(k), n))
      /\ m \in Names /\ Written(m) /\ (h = Entry => e.final = m) /\ (h # Entry => e.final = Scoped(DepIndex(h), m))
  BY <1>3, <1>4, OwnNames
<1>6. DepIndex(k) \in Nat /\ DepIndex(h) \in Nat /\ (DepIndex(k) = DepIndex(h) => k = h)
  BY <1>3, DepIndexFacts
<1>7. k = h /\ n = m
  <2>1. CASE k = Entry /\ h = Entry
    BY <1>5, <2>1
  <2>2. CASE k # Entry
    <3>1. ~Written(d.final)
      BY <1>5, <1>6, <2>2, ScopedFacts
    <3>2. h # Entry
      BY <1>5, <3>1
    <3> QED BY <1>5, <1>6, <2>2, <3>2, ScopedFacts
  <2>3. CASE h # Entry
    <3>1. ~Written(e.final)
      BY <1>5, <1>6, <2>3, ScopedFacts
    <3>2. k # Entry
      BY <1>5, <3>1
    <3> QED BY <1>5, <1>6, <2>3, <3>2, ScopedFacts
  <2> QED BY <2>1, <2>2, <2>3
<1> QED
  BY <1>3, <1>7

(***************************************************************************)
(* A reference means what its file says.                                   *)
(***************************************************************************)
LEMMA ReferencesMeanTheirFiles ==
  ASSUME Finished, NEW k \in visited, NEW r \in File(k).refs \ File(k).locals,
         \A d \in NestedNames : d.final # Final(k, r)
  PROVE  { <<d.file, d.name>> : d \in { d \in UnitNames : d.final = Final(k, r) } } = Means(k, r)
<1> DEFINE found == { <<d.file, d.name>> : d \in { d \in UnitNames : d.final = Final(k, r) } }
\* A declaration that has the reference's final name is all that is found.
<1>1. ASSUME NEW d \in UnitNames, d.final = Final(k, r) PROVE found = {<<d.file, d.name>>}
  BY <1>1, FinalNamesDiffer
<1>2. CASE r \in Locals(k)
  <2>1. PICK e \in bindings[k] : r = e.local
    BY <1>2 DEF Locals
  <2>2. /\ e.target \in visited /\ e.target # Entry /\ e.original \in TopNames(File(e.target))
    BY TargetFacts
  <2>3. e.original \in Declared(File(e.target))
    BY <2>2 DEF Declared
  <2>4. Final(e.target, e.original) = Scoped(DepIndex(e.target), e.original)
    BY <2>2, <2>3, OwnNames
  <2>5. Final(k, r) = Final(e.target, e.original)
    BY <2>1, <2>4, BoundNames
  <2>6. found = {<<e.target, e.original>>}
    BY <1>1, <2>2, <2>5, UnitNamesFacts
  <2>7. Means(k, r) = {<<e.target, e.original>>}
    <3>1. r \notin Declared(File(k)) /\ OneMeaning(bindings[k])
      BY <1>2, OwnNames, FinishedFacts DEF Walked
    <3>2. Means(k, r) = { <<d.target, d.original>> : d \in { d \in bindings[k] : d.local = r } }
      BY <3>1, FinishedFacts, BoundFacts
    <3> QED BY <2>1, <3>1, <3>2 DEF OneMeaning
  <2> QED BY <2>6, <2>7
<1>3. CASE r \in TopNames(File(k))
  <2>1. found = {<<k, r>>}
    BY <1>1, <1>3, UnitNamesFacts
  <2>2. Means(k, r) = {<<k, r>>}
    BY <1>3 DEF Means, Declared
  <2> QED BY <2>1, <2>2
<1>4. r \in File(k).nested => r \in TopNames(File(k))
  <2>1. ASSUME r \in File(k).nested, r \notin TopNames(File(k)) PROVE FALSE
    <3>1. Final(k, r) = r
      BY <2>1, OwnNames DEF Declared
    <3> QED BY <2>1, <3>1, UnitNamesFacts
  <2> QED BY <2>1
<1>5. CASE r \notin Declared(File(k)) /\ r \notin Locals(k)
  <2>1. Final(k, r) = r /\ Written(r)
    BY <1>5, FreeNames DEF Finished, ReservedSpelling
  <2>2. Means(k, r) = {}
    <3>1. Means(k, r) = { <<d.target, d.original>> : d \in { d \in bindings[k] : d.local = r } }
      BY <1>5, FinishedFacts, BoundFacts
    <3> QED BY <1>5, <3>1 DEF Locals
  <2>3. ASSUME NEW d \in UnitNames, d.final = r PROVE FALSE
    <3>1. PICK h, n : h = d.file /\ n = d.name
      OBVIOUS
    <3>2. h \in visited /\ n \in TopNames(File(h)) /\ Final(h, n) = r
      BY <2>3, <3>1, UnitNamesFacts
    <3>3. n \in Declared(File(h))
      BY <3>2 DEF Declared
    <3>4. /\ n \in Names /\ Written(n) /\ DepIndex(h) \in Nat
          /\ r = IF h # Entry THEN Scoped(DepIndex(h), n) ELSE n
      BY <3>2, <3>3, OwnNames, DepIndexFacts
    <3>5. h = Entry /\ r = n
      BY <2>1, <3>4, ScopedFacts
    <3>6. h # k
      BY <1>5, <3>3, <3>5
    <3>7. r \in StrayReferences(k)
      BY <1>5, <3>2, <3>3, <3>5, <3>6, FinishedFacts DEF StrayReferences
    <3> QED BY <3>7 DEF Finished
  <2> QED BY <2>1, <2>2, <2>3
<1> QED
  BY <1>2, <1>3, <1>4, <1>5 DEF Declared

(* imports.ts:9-15: in a bundle no two top-level declarations share a name,  *)
(* and a reference means its own file's declaration, or the one the file     *)
(* imports, whatever the other files of the unit declare.                    *)
THEOREM SpecNamesMeanTheirFiles == BundlerSpec => []NamesMeanTheirFiles
<1>1. BundlerInv => NamesMeanTheirFiles
  <2> SUFFICES ASSUME BundlerInv, verdict = "bundled"
               PROVE  /\ \A d, e \in UnitNames : d.final = e.final => d = e
                      /\ \A k \in Bundled : \A r \in File(k).refs \ File(k).locals :
                           (\A d \in NestedNames : d.final # Final(k, r)) =>
                             { <<d.file, d.name>> : d \in { d \in UnitNames : d.final = Final(k, r) } }
                               = Means(k, r)
    BY DEF NamesMeanTheirFiles
  <2>1. Finished
    BY DEF BundlerInv, Judged, Finished
  <2>2. Bundled = visited
    BY <2>1, FinishedFacts
  <2> QED BY <2>1, <2>2, FinalNamesDiffer, ReferencesMeanTheirFiles
<1> QED BY <1>1, SpecBundlerInv, PTL

-----------------------------------------------------------------------------
(***************************************************************************)
(* Members beside file-level names.                                        *)
(***************************************************************************)

\* The reports of the three passes; they hang on the unit alone.
PrepassReports == { [by |-> "prepass", class |-> Route, name |-> n] : n \in Collisions }
StrayReports == { [by |-> "legacy", class |-> s[1], name |-> s[2]] : s \in Strays }
Gated == { n \in MemberNames : AnalyzerCollides(n) }
GateReports == { [by |-> "analyzer", class |-> Route, name |-> n] : n \in Gated }

\* What the passes so far have reported, and the shadows the pre-pass lifted.
PassesReported ==
  /\ unit \in Units
  /\ stage \in {"prepass", "strays", "analyze", "done"}
  /\ stage = "prepass" => reports = {} /\ fired = [c \in UnitClasses |-> {}]
  /\ stage # "prepass" => fired = [c \in UnitClasses |-> IF c \in Chain THEN Collisions ELSE {}]
  /\ stage = "strays" => reports = PrepassReports
  /\ stage = "analyze" => reports = PrepassReports \cup StrayReports
  /\ stage = "done" => reports = PrepassReports \cup StrayReports \cup GateReports

LEMMA UnitFixed ==
  ASSUME unit' = unit
  PROVE  /\ Chain' = Chain
         /\ Collisions' = Collisions
         /\ Strays' = Strays
         /\ Gated' = Gated
<1>1. Chain' = Chain
  BY DEF Chain, ChainOf, Upward, Bases
<1>2. MemberNames' = MemberNames
  BY DEF MemberNames
<1>3. ASSUME NEW final PROVE DeclaredAs(final)' = DeclaredAs(final)
  BY DEF DeclaredAs
<1>4. ASSUME NEW f, NEW n PROVE FinalNameIn(f, n)' = FinalNameIn(f, n)
  BY DEF FinalNameIn
<1>5. ASSUME NEW n PROVE InScope(n)' = InScope(n)
  BY <1>1, <1>4 DEF InScope, ScopeFiles
<1>6. ASSUME NEW n PROVE KindsIn(n)' = KindsIn(n)
  BY <1>1 DEF KindsIn
<1>7. ASSUME NEW n, NEW d PROVE Clashes(n, d)' = Clashes(n, d)
  BY <1>6 DEF Clashes, MayCoexist
<1>8. ASSUME NEW n PROVE ImportCollides(n)' = ImportCollides(n)
  BY <1>3, <1>5, <1>7 DEF ImportCollides, AnalyzerSees
<1>9. Collisions' = Collisions
  BY <1>2, <1>8 DEF Collisions
<1>10. ASSUME NEW c PROVE ChainOf(c)' = ChainOf(c)
  BY DEF ChainOf, Upward, Bases
<1>11. ASSUME NEW c PROVE VisibleMethods(c)' = VisibleMethods(c)
  BY <1>2, <1>10 DEF VisibleMethods
<1>12. Strays' = Strays
  BY <1>1, <1>2, <1>3, <1>4, <1>11 DEF Strays, StrayCollides
<1>13. Gated' = Gated
  BY <1>2, <1>7 DEF Gated, AnalyzerCollides
<1> QED BY <1>1, <1>9, <1>12, <1>13

LEMMA PassesReportedHolds == ScopesSpec => []PassesReported
<1>1. ScopesInit => PassesReported
  BY DEF ScopesInit, PassesReported
<1>2. ASSUME PassesReported, [ScopesNext]_scopeVars PROVE PassesReported'
  <2> USE DEF PassesReported
  <2>1. unit' = unit /\ unit' \in Units
    BY <1>2 DEF ScopesNext, CollectCollisions, CollectStrays, Analyze, scopeVars
  <2>2. /\ PrepassReports' = PrepassReports /\ StrayReports' = StrayReports
        /\ GateReports' = GateReports
        /\ Collisions' = Collisions /\ Chain' = Chain
    BY <2>1, UnitFixed DEF PrepassReports, StrayReports, GateReports
  <2>3. CASE CollectCollisions
    BY <1>2, <2>1, <2>2, <2>3 DEF CollectCollisions, PrepassReports
  <2>4. CASE CollectStrays
    BY <1>2, <2>1, <2>2, <2>4 DEF CollectStrays, StrayReports
  <2>5. CASE Analyze
    BY <1>2, <2>1, <2>2, <2>5 DEF Analyze, GateReports, Gated
  <2>6. CASE UNCHANGED scopeVars
    BY <1>2, <2>1, <2>2, <2>6 DEF scopeVars
  <2> QED BY <1>2, <2>3, <2>4, <2>5, <2>6 DEF ScopesNext
<1> QED BY <1>1, <1>2, PTL DEF ScopesSpec

(***************************************************************************)
(* Classes and their chains.                                               *)
(***************************************************************************)
LEMMA ChainFacts ==
  /\ Route \in Chain /\ Chain \subseteq UnitClasses
  /\ \A c \in Chain : ChainOf(c) \subseteq Chain
<1>1. Route \in Chain /\ Chain \subseteq UnitClasses
  BY UnitsAssumption DEF Chain, ChainOf
<1>2. ASSUME NEW c \in Chain, NEW b \in ChainOf(c) PROVE b \in Chain
  BY <1>2 DEF Chain, ChainOf
<1> QED BY <1>1, <1>2

\* What a class of the dependency extends is the dependency's.
LEMMA DependencyExtendsOwn ==
  ASSUME unit \in Units, NEW c \in UnitClasses, unit.file[c] = "dep", NEW b \in ChainOf(c)
  PROVE  unit.file[b] = "dep"
<1> DEFINE Own == { d \in UnitClasses : unit.file[d] = "dep" }
<1>1. Sound(unit)
  BY UnitsAssumption
<1>2. ASSUME NEW d \in Own, NEW e \in Bases(d) PROVE e \in Own
  <2>1. PICK x \in ToSet(unit.bases[d]) : e = x.class
    BY <1>2 DEF Bases
  <2>2. unit.bases[d] \in Seq([class : UnitClasses, call : BOOLEAN])
    BY <1>1, <1>2 DEF Sound
  <2>3. x \in [class : UnitClasses, call : BOOLEAN]
    <3>1. PICK i \in DOMAIN unit.bases[d] : x = unit.bases[d][i]
      BY <2>1 DEF ToSet
    <3>2. i \in 1..Len(unit.bases[d])
      BY <2>2, <3>1
    <3> QED BY <2>2, <3>1, <3>2, ElementOfSeq
  <2> QED BY <1>1, <1>2, <2>1, <2>3 DEF Sound
<1>3. c \in Own /\ Upward(Own)
  BY <1>2 DEF Upward
<1>4. b \in Own
  BY <1>3 DEF ChainOf
<1> QED BY <1>4

\* The shadow follows the first, bare base.
LEMMA ShadowFollowsPlain ==
  ASSUME unit \in Units, NEW c \in UnitClasses
  PROVE  ShadowLine(c) \subseteq ChainOf(c) /\ ShadowLine(c) = PlainLine(c)
<1>1. ASSUME NEW d \in UnitClasses
      PROVE  /\ ShadowBase(d) \subseteq Bases(d)
             /\ ShadowBase(d) = { e \in UnitClasses :
                  unit.bases[d] # <<>> /\ Head(unit.bases[d]) = [class |-> e, call |-> FALSE] }
  <2>1. unit.bases[d] \in Seq([class : UnitClasses, call : BOOLEAN])
    BY UnitsAssumption DEF Sound
  <2>2. CASE unit.bases[d] = <<>>
    BY <2>1, <2>2 DEF ShadowBase, Bases, ToSet
  <2>3. CASE unit.bases[d] # <<>>
    <3>1. 1 \in DOMAIN unit.bases[d] /\ Head(unit.bases[d]) = unit.bases[d][1]
      BY <2>1, <2>3
    <3>2. Head(unit.bases[d]) \in ToSet(unit.bases[d])
      BY <3>1 DEF ToSet
    <3>3. Head(unit.bases[d]) \in [class : UnitClasses, call : BOOLEAN]
      BY <2>1, <2>3, HeadTailProperties
    <3>4. ShadowBase(d) \subseteq Bases(d)
      BY <2>3, <3>2 DEF ShadowBase, Bases
    <3>5. ASSUME NEW e \in UnitClasses
          PROVE  e \in ShadowBase(d) <=> Head(unit.bases[d]) = [class |-> e, call |-> FALSE]
      <4> DEFINE h == Head(unit.bases[d])
      <4>1. h = [class |-> e, call |-> FALSE] <=> h.class = e /\ h.call = FALSE
        <5> HIDE DEF h
        <5>1. h = [class |-> h.class, call |-> h.call]
          BY <3>3 DEF h
        <5> QED BY <5>1
      <4>2. h.call \in BOOLEAN
        BY <3>3
      <4> QED BY <2>3, <4>1, <4>2 DEF ShadowBase
    <3>6. ShadowBase(d) \subseteq UnitClasses
      BY <3>3 DEF ShadowBase
    <3> QED BY <2>3, <3>4, <3>5, <3>6
  <2> QED BY <2>2, <2>3
<1>2. ShadowLine(c) \subseteq ChainOf(c)
  BY <1>1 DEF ShadowLine, ChainOf, Upward
<1>3. ASSUME NEW S \in SUBSET UnitClasses
      PROVE  OverFirstBases(S) <=> \A d \in S : ShadowBase(d) \subseteq S
  BY <1>1 DEF OverFirstBases
<1> QED BY <1>2, <1>3 DEF ShadowLine, PlainLine

(***************************************************************************)
(* The gate of the analyzer sees exactly the entry's own declarations.     *)
(***************************************************************************)
LEMMA Declarations ==
  ASSUME unit \in Units, NEW n \in MemberNames
  PROVE  /\ InScope(n) \subseteq { FinalNameIn("entry", n), FinalNameIn("dep", n) }
         /\ FinalNameIn("entry", n) \in InScope(n)
         /\ unit.declared.entry[n] # "none" =>
              FinalNameIn("entry", n) = <<n>> /\ FinalNameIn("dep", n) = <<n>>
         /\ DeclaredAs(<<n>>) = unit.declared.entry[n]
<1>1. Sound(unit) /\ Route \in UnitClasses
  BY UnitsAssumption
<1>2. \A c \in UnitClasses : unit.file[c] \in {"entry", "dep"}
  BY <1>1 DEF Sound
<1>3. ScopeFiles(n) \subseteq {"entry", "dep"}
  BY <1>1, <1>2, ChainFacts DEF ScopeFiles
<1>4. "entry" \in ScopeFiles(n)
  BY <1>1 DEF Sound, ScopeFiles
<1>5. /\ unit.imported[n] # "none" => unit.declared.entry[n] = "none"
      /\ unit.declared.dep[n] # "none" => unit.declared.entry[n] = "none"
  BY <1>1 DEF Sound, MemberNames
<1>6. unit.declared.entry[n] # "none" =>
        FinalNameIn("entry", n) = <<n>> /\ FinalNameIn("dep", n) = <<n>>
  BY <1>5 DEF FinalNameIn
<1>7. DeclaredAs(<<n>>) = unit.declared.entry[n]
  BY DEF DeclaredAs
<1> QED BY <1>3, <1>4, <1>6, <1>7 DEF InScope

LEMMA GateSees ==
  ASSUME unit \in Units, NEW n \in MemberNames
  PROVE  /\ AnalyzerSees(n) <=> unit.declared.entry[n] # "none"
         /\ AnalyzerSees(n) => InScope(n) = {<<n>>}
BY Declarations DEF AnalyzerSees

\* Of the collisions of the one file, the pre-pass reports some and the analyzer
\* the others.
LEMMA CollisionsSplit ==
  ASSUME unit \in Units, NEW n \in MemberNames
  PROVE  /\ ImportCollides(n) => ~Clashes(n, unit.declared.entry[n])
         /\ (\E final \in InScope(n) : Clashes(n, DeclaredAs(final))) <=>
              ImportCollides(n) \/ Clashes(n, unit.declared.entry[n])
<1>1. Clashes(n, unit.declared.entry[n]) => unit.declared.entry[n] # "none"
  BY DEF Clashes
<1>2. DeclaredAs(<<n>>) = unit.declared.entry[n]
  BY Declarations
<1> QED BY <1>1, <1>2, GateSees DEF ImportCollides

(***************************************************************************)
(* A route rejects a name once, where the one file is rejected.            *)
(***************************************************************************)
LEMMA RejectsFromReports == PassesReported => RejectsAsOneFile
<1> SUFFICES ASSUME PassesReported PROVE RejectsAsOneFile
  OBVIOUS
<1> USE DEF PassesReported
<1>1. \A n \in MemberNames : n \in Gated => n \notin Collisions
  BY CollisionsSplit DEF Gated, AnalyzerCollides, Collisions
<1>2. Collisions \subseteq MemberNames /\ Gated \subseteq MemberNames
  BY DEF Collisions, Gated
<1>3. Strays \subseteq (UnitClasses \ Chain) \X MemberNames
  BY DEF Strays
<1>4. \A r \in reports :
        \/ r \in PrepassReports \/ r \in StrayReports \/ r \in GateReports
  OBVIOUS
<1>5. \A r \in PrepassReports : \E n \in Collisions : r = [by |-> "prepass", class |-> Route, name |-> n]
  BY DEF PrepassReports
<1>6. \A r \in GateReports : \E n \in Gated : r = [by |-> "analyzer", class |-> Route, name |-> n]
  BY DEF GateReports
<1>7. \A r \in StrayReports :
        /\ r = [by |-> "legacy", class |-> r.class, name |-> r.name]
        /\ r.class \in UnitClasses \ Chain /\ r.name \in MemberNames
  BY <1>3 DEF StrayReports
<1>8. ScopesTypeOK
  <2>1. reports \subseteq [by : {"prepass", "legacy", "analyzer"}, class : UnitClasses, name : MemberNames]
    BY <1>2, <1>4, <1>5, <1>6, <1>7, UnitsAssumption
  <2>2. fired \in [UnitClasses -> SUBSET MemberNames]
    BY <1>2
  <2> QED BY <2>1, <2>2 DEF ScopesTypeOK
<1>9. ReportedOnce
  <2> SUFFICES ASSUME NEW r \in reports, NEW s \in reports, r.class = s.class, r.name = s.name
               PROVE  r = s
    BY DEF ReportedOnce
  <2>1. CASE r \in StrayReports \/ s \in StrayReports
    <3>1. r \in StrayReports /\ s \in StrayReports
      BY <1>4, <1>5, <1>6, <1>7, <2>1, ChainFacts
    <3> QED BY <1>7, <3>1
  <2>2. CASE r \notin StrayReports /\ s \notin StrayReports
    <3>1. CASE r \in PrepassReports /\ s \in PrepassReports
      BY <1>5, <3>1
    <3>2. CASE r \in GateReports /\ s \in GateReports
      BY <1>6, <3>2
    <3>3. CASE r \in PrepassReports /\ s \in GateReports
      BY <1>1, <1>2, <1>5, <1>6, <3>3
    <3>4. CASE r \in GateReports /\ s \in PrepassReports
      BY <1>1, <1>2, <1>5, <1>6, <3>4
    <3> QED BY <1>4, <2>2, <3>1, <3>2, <3>3, <3>4
  <2> QED BY <2>1, <2>2
<1>10. ASSUME stage = "done" /\ ~unit.stray
       PROVE  Reported = { n \in MemberNames : CollidesInOneFile(n) }
  <2>1. Reported = Collisions \cup Gated
    <3>1. ASSUME NEW r \in reports, r.by # "legacy" PROVE r.name \in Collisions \cup Gated
      BY <1>4, <1>5, <1>6, <1>7, <3>1
    <3>2. ASSUME NEW n \in Collisions PROVE n \in Reported
      <4>1. [by |-> "prepass", class |-> Route, name |-> n] \in reports
        BY <1>10 DEF PrepassReports
      <4> QED BY <4>1 DEF Reported
    <3>3. ASSUME NEW n \in Gated PROVE n \in Reported
      <4>1. [by |-> "analyzer", class |-> Route, name |-> n] \in reports
        BY <1>10 DEF GateReports
      <4> QED BY <4>1 DEF Reported
    <3> QED BY <3>1, <3>2, <3>3 DEF Reported
  <2>2. \A n \in MemberNames : CollidesInOneFile(n) <=> n \in Collisions \cup Gated
    BY <1>10, CollisionsSplit DEF CollidesInOneFile, Collisions, Gated, AnalyzerCollides
  <2> QED BY <1>2, <2>1, <2>2
<1> QED BY <1>8, <1>9, <1>10 DEF RejectsAsOneFile

\* For every unit: the pre-pass and the analyzer between them report a shared
\* name once, and exactly where the program written as one file is rejected
\* (collectImportedMemberTypeCollisions and the gate in analyzeContract).
THEOREM SpecRejectsAsOneFile == ScopesSpec => []RejectsAsOneFile
BY PassesReportedHolds, RejectsFromReports, PTL

(***************************************************************************)
(* A raise of a shared name.                                               *)
(***************************************************************************)

\* A name some class at or above c declares is judged in c's file.
LEMMA ScopeOfReference ==
  ASSUME unit \in Units, NEW c \in Chain, NEW n \in MemberNames,
         NEW b \in ChainOf(c), unit.members[b][n] # "none"
  PROVE  FinalNameIn(unit.file[c], n) \in InScope(n)
<1>1. c \in UnitClasses /\ b \in Chain
  BY ChainFacts
<1>2. unit.file[c] \in {"entry", "dep"}
  BY <1>1, UnitsAssumption DEF Sound
<1>3. CASE unit.file[c] = "entry"
  BY <1>3, Declarations
<1>4. CASE unit.file[c] = "dep"
  <2>1. unit.file[b] = "dep"
    BY <1>1, <1>4, DependencyExtendsOwn
  <2>2. "dep" \in ScopeFiles(n)
    BY <1>1, <2>1 DEF ScopeFiles
  <2> QED BY <1>4, <2>2 DEF InScope
<1> QED BY <1>2, <1>3, <1>4

LEMMA RaisesFromReports ==
  ASSUME PassesReported, stage = "done", NEW c \in Chain, NEW n \in MemberNames, Comparable(c, n)
  PROVE  AsInOneFile(c, n) <=> ~LosesMember(c, n)
<1> USE DEF PassesReported
<1> DEFINE own == FinalNameIn(unit.file[c], n)
<1>1. c \in UnitClasses /\ fired[c] = Collisions
  BY ChainFacts
<1>2. own \in {<<n>>} \/ \E m : own = <<1, m>>
  BY DEF FinalNameIn
<1>3. /\ ShadowOf(c) = { m \in MemberNames : \E b \in PlainLine(c) : unit.members[b][m] \in ValueKinds }
      /\ PlainLine(c) \subseteq ChainOf(c)
  BY <1>1, ShadowFollowsPlain DEF ShadowOf
<1>4. ASSUME "error" \in KindsIn(n)
      PROVE  AsInOneFile(c, n) <=> ~LosesMember(c, n)
  <2>1. n \notin Collisions
    <3>1. ASSUME n \in Collisions PROVE n \in Reported
      <4>1. [by |-> "prepass", class |-> Route, name |-> n] \in reports
        BY <3>1 DEF PrepassReports
      <4> QED BY <4>1 DEF Reported
    <3> QED BY <1>4, <3>1 DEF Comparable
  <2>2. ASSUME NEW b \in PlainLine(c)
        PROVE  unit.members[b][n] \in ValueKinds <=> unit.members[b][n] = "error"
    <3>1. unit.members[b][n] = "none" \/ unit.members[b][n] \in KindsIn(n)
      BY <1>3, ChainFacts DEF KindsIn
    <3>2. KindsIn(n) = {"error"}
      BY <1>4 DEF Comparable
    <3> QED BY <3>1, <3>2 DEF ValueKinds
  <2>3. n \in ShadowOf(c) <=> \E b \in PlainLine(c) : unit.members[b][n] = "error"
    BY <1>3, <2>2
  <2>4. AsInOneFile(c, n) <=> RenamedIn(c, n) = <<n>>
    <3>1. RenamedIn(c, n) = <<n>> \/ \E m : RenamedIn(c, n) = <<1, m>>
      BY <1>2 DEF RenamedIn
    <3>2. ResolveInOneFile(c, n) = <<"member", n>>
      BY <1>4 DEF ResolveInOneFile
    <3>3. RenamedIn(c, n) = <<n>> => ResolveError(RenamedIn(c, n)) = <<"member", n>>
      BY <1>4 DEF ResolveError
    <3>4. \A m : RenamedIn(c, n) = <<1, m>> =>
             /\ ResolveError(RenamedIn(c, n)) # <<"member", n>>
             /\ RenamedIn(c, n) # <<n>>
      BY DEF ResolveError
    <3> QED BY <3>1, <3>2, <3>3, <3>4 DEF AsInOneFile
  <2> QED BY <1>1, <1>4, <2>1, <2>3, <2>4 DEF RenamedIn, LosesMember
<1>5. ASSUME "error" \notin KindsIn(n)
      PROVE  ResolveError(RenamedIn(c, n)) = ResolveInOneFile(c, n)
  <2>1. \A final : (final = <<n>> \/ \E m : final = <<1, m>>) =>
          ResolveError(final) = IF DeclaredAs(final) = "error" THEN <<"file", final>> ELSE <<"unknown">>
    BY <1>5 DEF ResolveError
  <2>2. ResolveInOneFile(c, n) = IF DeclaredAs(own) = "error" THEN <<"file", own>> ELSE <<"unknown">>
    BY <1>5 DEF ResolveInOneFile
  <2>3. CASE RenamedIn(c, n) = own
    BY <1>2, <2>1, <2>2, <2>3
  <2>4. CASE RenamedIn(c, n) # own
    <3>1. RenamedIn(c, n) = <<n>> /\ n \in ShadowOf(c) /\ n \notin Collisions /\ own # <<n>>
      BY <1>1, <2>4 DEF RenamedIn
    <3>2. PICK b \in ChainOf(c) : unit.members[b][n] \in ValueKinds
      BY <1>3, <3>1
    <3>3. own \in InScope(n)
      BY <3>2, ScopeOfReference DEF ValueKinds
    <3>4. unit.declared.entry[n] = "none" /\ ~AnalyzerSees(n)
      BY <3>1, <3>3, GateSees
    <3>5. unit.members[b][n] \in KindsIn(n)
      BY <3>2, ChainFacts DEF KindsIn, ValueKinds
    <3>6. DeclaredAs(own) # "error"
      <4> SUFFICES ASSUME DeclaredAs(own) = "error" PROVE FALSE
        OBVIOUS
      <4>1. ~MayCoexist(unit.members[b][n], "error")
        BY <1>5, <3>2, <3>5 DEF MayCoexist, ValueKinds
      <4>2. Clashes(n, DeclaredAs(own))
        BY <3>5, <4>1 DEF Clashes, Comparable
      <4> QED BY <3>1, <3>3, <3>4, <4>2 DEF Collisions, ImportCollides
    <3>7. DeclaredAs(<<n>>) # "error"
      BY <3>4, Declarations
    <3> QED BY <2>1, <2>2, <3>1, <3>6, <3>7
  <2> QED BY <2>3, <2>4
<1>6. ASSUME "error" \notin KindsIn(n)
      PROVE  AsInOneFile(c, n) /\ ~LosesMember(c, n)
  BY <1>5, <1>6 DEF AsInOneFile, LosesMember
<1> QED BY <1>4, <1>6

\* For every unit and every hierarchy of its classes: a raise of a shared name
\* binds what it binds in one file, whatever the renaming and the pre-pass made
\* of it, unless the error comes through another base than the shadow follows
\* (rewriteModuleScopes, shadowNamesFor).
THEOREM SpecRaisesAsOneFile == ScopesSpec => []RaisesAsOneFile
<1>1. PassesReported => RaisesAsOneFile
  BY RaisesFromReports DEF RaisesAsOneFile
<1> QED BY <1>1, PassesReportedHolds, PTL
================================================================================
