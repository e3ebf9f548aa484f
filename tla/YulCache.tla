------------------------------ MODULE YulCache ------------------------------
(* The Yul-backend cache of src/solc.ts, enabled by JETH_COMPILE_CACHE: a    *)
(* map in each process in front of a directory of JSON files all processes   *)
(* share. A file is written to <key>.<pid>.tmp and renamed; nothing locks    *)
(* it. Worker threads of one process have a map each and one pid.            *)
EXTENDS CompileService

CONSTANTS Torn,         \* a file cut short: it does not parse
          Pid           \* the process ids

ASSUME CacheAssumption ==
  /\ Idle # Torn
  /\ Torn \notin Input \X Version

VARIABLES pidOf,     \* each caller's process; threads of one process share it
          pc,        \* where in compileYul each caller is
          mem,       \* yulMemCache: the results each caller remembers, by key
          dirReady,  \* yulCacheDirReady
          dir,       \* does YUL_CACHE_DIR exist?
          json,      \* <key>.json: a whole result, Torn, or Idle for no file
          tmp,       \* <key>.<pid>.tmp, likewise
          fd,        \* what the file each caller has open is called by now
          lost       \* history: keys whose json file a power loss tore

disk == <<dirReady, dir, json, tmp, fd, lost>>
cacheVars == <<asked, solcOf, answer, pidOf, pc, mem, disk>>

Result == Input \X Version
Key == Result
Steps == {"idle", "mem", "exists", "read", "assemble", "open", "write", "rename"}

TypeOK ==
  /\ asked \in [Proc -> Input \cup {Idle}]
  /\ solcOf \in [Proc -> Version]
  /\ answer \in [Proc -> Result \cup {Idle, Fail}]
  /\ pidOf \in [Proc -> Pid]
  /\ pc \in [Proc -> Steps]
  /\ mem \in [Proc -> [Key -> Result \cup {Idle}]]
  /\ dirReady \in [Proc -> BOOLEAN] /\ dir \in BOOLEAN
  /\ json \in [Key -> Result \cup {Torn, Idle}]
  /\ tmp \in [Pid -> [Key -> Result \cup {Torn, Idle}]]
  /\ fd \in [Proc -> {"none", "tmp", "json", "unlinked"}]
  /\ lost \in SUBSET Key

\* Mutant: the key leaves out the version of solc.
KeyWithoutVersion(p) ==
  CHOOSE k \in Key : k[1] = asked[p]
\* yulCacheKey: everything the assembly depends on
KeyOf(p) == <<asked[p], solcOf[p]>>

CacheInit ==
  /\ Init
  /\ pidOf \in [Proc -> Pid]
  /\ pc = [p \in Proc |-> "idle"]
  /\ mem = [p \in Proc |-> [k \in Key |-> Idle]]
  /\ dirReady = [p \in Proc |-> FALSE] /\ dir = FALSE
  /\ json = [k \in Key |-> Idle]
  /\ tmp = [q \in Pid |-> [k \in Key |-> Idle]]
  /\ fd = [p \in Proc |-> "none"]
  /\ lost = {}

Goto(p, step) == pc' = [pc EXCEPT ![p] = step]

Return(p, res) ==
  /\ asked' = [asked EXCEPT ![p] = Idle]
  /\ answer' = [answer EXCEPT ![p] = res]
  /\ Goto(p, "idle")
  /\ UNCHANGED solcOf

CallOpen == UNCHANGED <<asked, solcOf, answer>>

CompileYul(p, i) ==
  /\ pc[p] = "idle" /\ Ask(p, i)
  /\ Goto(p, "mem")
  /\ UNCHANGED <<mem, disk>>

LookInMemory(p) ==
  /\ pc[p] = "mem"
  /\ \/ mem[p][KeyOf(p)] # Idle /\ Return(p, mem[p][KeyOf(p)])
     \/ mem[p][KeyOf(p)] = Idle /\ Goto(p, "exists") /\ CallOpen
  /\ UNCHANGED <<mem, disk>>

\* readYulCache, one step per call to the file system
FileExists(p) ==
  /\ pc[p] = "exists"
  /\ Goto(p, IF json[KeyOf(p)] # Idle THEN "read" ELSE "assemble")
  /\ CallOpen /\ UNCHANGED <<mem, disk>>

Whole(file) == file \notin {Idle, Torn}

Hit(p) ==
  /\ Whole(json[KeyOf(p)])
  /\ mem' = [mem EXCEPT ![p][KeyOf(p)] = json[KeyOf(p)]]
  /\ Return(p, json[KeyOf(p)])

\* Mutant: a torn file is read again instead of assembled anew.
ReadFileAgain(p) ==
  /\ pc[p] = "read"
  /\ \/ Hit(p)
     \/ /\ ~Whole(json[KeyOf(p)])
        /\ Goto(p, IF json[KeyOf(p)] = Idle THEN "assemble" ELSE "read")
        /\ CallOpen /\ UNCHANGED mem
  /\ UNCHANGED disk
\* The file may be gone, or torn: a strict prefix of a JSON object does not parse.
ReadFile(p) ==
  /\ pc[p] = "read"
  /\ \/ Hit(p)
     \/ ~Whole(json[KeyOf(p)]) /\ Goto(p, "assemble") /\ CallOpen /\ UNCHANGED mem
  /\ UNCHANGED disk

Assemble(p) ==
  /\ pc[p] = "assemble"
  /\ LET res == Assembled(asked[p], solcOf[p]) IN
     \/ res = Fail /\ Return(p, Fail) /\ UNCHANGED mem
     \/ /\ res # Fail
        /\ mem' = [mem EXCEPT ![p][KeyOf(p)] = res]
        /\ Goto(p, "open") /\ CallOpen
  /\ UNCHANGED disk

\* writeYulCache: mkdirSync the first time, then open and truncate the tmp file.
OpenTmp(p) ==
  /\ pc[p] = "open"
  /\ dir \/ ~dirReady[p]
  /\ dir' = TRUE
  /\ dirReady' = [dirReady EXCEPT ![p] = TRUE]
  /\ tmp' = [tmp EXCEPT ![pidOf[p]][KeyOf(p)] = Torn]
  /\ fd' = [fd EXCEPT ![p] = "tmp"]
  /\ Goto(p, "write") /\ CallOpen
  /\ UNCHANGED <<mem, json, lost>>

\* The bytes go to the open file, wherever it is by now.
WriteTmp(p) ==
  LET k == KeyOf(p)
      res == Assembled(asked[p], solcOf[p])
  IN
  /\ pc[p] = "write"
  /\ tmp' = IF fd[p] = "tmp" THEN [tmp EXCEPT ![pidOf[p]][k] = res] ELSE tmp
  /\ json' = IF fd[p] = "json" THEN [json EXCEPT ![k] = res] ELSE json
  /\ fd' = [fd EXCEPT ![p] = "none"]
  /\ Goto(p, "rename") /\ CallOpen
  /\ UNCHANGED <<mem, dirReady, dir, lost>>

Sharers(p) == { q \in Proc : pidOf[q] = pidOf[p] /\ fd[q] = "tmp" /\ KeyOf(q) = KeyOf(p) }
Readers(k) == { q \in Proc : fd[q] = "json" /\ KeyOf(q) = k }

\* renameSync moves the file, open or not, and unlinks the one it replaces.
Publish(p) ==
  LET k == KeyOf(p) IN
  /\ tmp[pidOf[p]][k] # Idle
  /\ json' = [json EXCEPT ![k] = tmp[pidOf[p]][k]]
  /\ tmp' = [tmp EXCEPT ![pidOf[p]][k] = Idle]
  /\ fd' = [q \in Proc |-> IF q \in Sharers(p) THEN "json"
                           ELSE IF q \in Readers(k) THEN "unlinked" ELSE fd[q]]
  /\ lost' = lost \ {k}
  /\ Return(p, Assembled(asked[p], solcOf[p]))
  /\ UNCHANGED <<mem, dirReady, dir>>

\* Mutant: the file is renamed before it is written.
RenameEarly(p) == pc[p] = "write" /\ Publish(p)
RenameTmp(p) == pc[p] = "rename" /\ Publish(p)

\* Any call of writeYulCache may fail (no directory, no tmp file, no room, no
\* permission); the catch swallows it. mkdirSync may have succeeded before.
WriteFails(p) ==
  /\ pc[p] \in {"open", "write", "rename"}
  /\ fd' = [fd EXCEPT ![p] = "none"]
  /\ \/ UNCHANGED <<dir, dirReady>>
     \/ /\ pc[p] = "open" /\ ~dirReady[p]
        /\ dir' = TRUE
        /\ dirReady' = [dirReady EXCEPT ![p] = TRUE]
  /\ Return(p, Assembled(asked[p], solcOf[p]))
  /\ UNCHANGED <<mem, json, tmp, lost>>

\* The callers of some pids die at any point and are started again.
Die(dead) ==
  /\ dead # {}
  /\ \A p \in dead, q \in Proc : pidOf[p] = pidOf[q] => q \in dead
  /\ Restart(dead)
  /\ pc' = [p \in Proc |-> IF p \in dead THEN "idle" ELSE pc[p]]
  /\ mem' = [p \in Proc |-> IF p \in dead THEN [k \in Key |-> Idle] ELSE mem[p]]
  /\ dirReady' = [p \in Proc |-> p \notin dead /\ dirReady[p]]
  /\ fd' = [p \in Proc |-> IF p \in dead THEN "none" ELSE fd[p]]
  /\ UNCHANGED <<dir, tmp>>

Kill(dead) == Die(dead) /\ UNCHANGED <<json, lost>>

\* Nothing is fsynced: a power loss may tear a file already renamed. (A torn
\* tmp file is one whose writer died.)
PowerLoss(k) ==
  /\ Die(Proc)
  /\ json[k] # Idle
  /\ json' = [json EXCEPT ![k] = Torn]
  /\ lost' = lost \cup {k}

\* npm ci deletes node_modules under the running processes.
RemoveDir ==
  /\ dir
  /\ dir' = FALSE
  /\ json' = [k \in Key |-> Idle]
  /\ tmp' = [q \in Pid |-> [k \in Key |-> Idle]]
  /\ fd' = [p \in Proc |-> IF fd[p] = "none" THEN "none" ELSE "unlinked"]
  /\ lost' = {}
  /\ CallOpen /\ UNCHANGED <<pc, mem, dirReady>>

Step(p) ==
  /\ \/ LookInMemory(p) \/ FileExists(p) \/ ReadFile(p) \/ Assemble(p)
     \/ OpenTmp(p) \/ WriteTmp(p) \/ RenameTmp(p) \/ WriteFails(p)
  /\ UNCHANGED pidOf

CacheNext ==
  \/ \E p \in Proc : Step(p)
  \/ /\ \/ \E p \in Proc, i \in Input : CompileYul(p, i)
        \/ \E dead \in SUBSET Proc : Kill(dead)
        \/ \E k \in Key : PowerLoss(k)
        \/ RemoveDir
     /\ UNCHANGED pidOf

CacheSpec == CacheInit /\ [][CacheNext]_cacheVars

\* Every call of compileYul is synchronous code: a process that is scheduled
\* and not killed goes on.
FairSpec == CacheSpec /\ \A p \in Proc : WF_cacheVars(Step(p))

-----------------------------------------------------------------------------
(* src/solc.ts:33-40: the memoization is transparent; whatever the other     *)
(* processes write, and wherever any of them dies, a call answers what       *)
(* assembling its own input would.                                           *)
AnswersAsAssembled == [][Next]_vars

(* A failed assembly is remembered nowhere, and no key remembers another     *)
(* key's result: neither in memory nor in a file that parses.                *)
NoForeignResult ==
  /\ \A p \in Proc, k \in Key : mem[p][k] # Idle => mem[p][k] = k /\ k \notin Rejected
  /\ \A k \in Key : Whole(json[k]) => json[k] = k /\ k \notin Rejected

OwnPids == \A p, q \in Proc : pidOf[p] = pidOf[q] => p = q

(* Where no two callers share a pid, a reader never meets a file a writer is *)
(* still filling, nor one a writer died filling: only a power loss tears a   *)
(* published file.                                                           *)
RenamePublishesWhole ==
  OwnPids => \A k \in Key : json[k] = Torn => k \in lost

(* The cache keeps its types, answers no key with another's result and       *)
(* publishes whole files.                                                    *)
CacheIsSound == TypeOK /\ NoForeignResult /\ RenamePublishesWhole

(* Every call ends, in an answer or a thrown error, unless its process dies: *)
(* no torn file, missing directory or failing disk holds it up.              *)
CallsEnd == \A p \in Proc : pc[p] # "idle" ~> pc[p] = "idle"
=============================================================================
