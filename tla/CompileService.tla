--------------------------- MODULE CompileService ---------------------------
(* What compileYul (src/solc.ts) promises whoever calls it, cached or not:   *)
(* a call answers what assembling its own input with the caller's solc       *)
(* gives, bytecode or an error.                                              *)
CONSTANTS Proc,         \* the callers, each a process (or thread) with its own solc
          Input,        \* what is compiled: Yul text, contract name and EVM version
          Version,      \* versions of solc
          Rejected,     \* the <<input, version>> pairs solc reports an error for
          Idle, Fail    \* no call, or no answer; the thrown SolcError2

ASSUME ServiceAssumption ==
  /\ Rejected \subseteq Input \X Version
  /\ Idle \notin Input
  /\ Idle \notin Input \X Version
  /\ Idle # Fail

VARIABLES asked,    \* the input of each caller's open call, or Idle
          solcOf,   \* the version of solc each caller has loaded
          answer    \* what each caller's last call answered

vars == <<asked, solcOf, answer>>

Assembled(i, v) == IF <<i, v>> \in Rejected THEN Fail ELSE <<i, v>>

Init ==
  /\ asked = [p \in Proc |-> Idle]
  /\ solcOf \in [Proc -> Version]
  /\ answer = [p \in Proc |-> Idle]

Ask(p, i) ==
  /\ asked[p] = Idle
  /\ asked' = [asked EXCEPT ![p] = i]
  /\ answer' = [answer EXCEPT ![p] = Idle]
  /\ UNCHANGED solcOf

Reply(p) ==
  /\ asked[p] # Idle
  /\ asked' = [asked EXCEPT ![p] = Idle]
  /\ answer' = [answer EXCEPT ![p] = Assembled(asked[p], solcOf[p])]
  /\ UNCHANGED solcOf

\* Some of the processes die and are started again, perhaps with another solc.
Restart(dead) ==
  /\ asked' = [p \in Proc |-> IF p \in dead THEN Idle ELSE asked[p]]
  /\ answer' = [p \in Proc |-> IF p \in dead THEN Idle ELSE answer[p]]
  /\ solcOf' \in [Proc -> Version]
  /\ \A p \in Proc \ dead : solcOf'[p] = solcOf[p]

Next ==
  \/ \E p \in Proc, i \in Input : Ask(p, i)
  \/ \E p \in Proc : Reply(p)
  \/ \E dead \in SUBSET Proc : Restart(dead)

Spec == Init /\ [][Next]_vars
=============================================================================
