------------------------------ MODULE MCCompile ------------------------------
(* What compile() does around the compiler proper: the bundler before it, the *)
(* cache of assembled Yul behind it.  A behaviour is one bundling, or callers *)
(* of the cache: two processes, or two worker threads of one process.         *)
EXTENDS YulCache, ImportBundler, TLC

CONSTANTS Scenarios, p1, p2, i1, i2, v1, v2

VARIABLE scenario

TwoPids == p1 :> 1 @@ p2 :> 2

Failing == {<<i2, v1>>}

\* Two processes with one input, where solc of the first may be upgraded between
\* restarts; two threads with one solc, where an input may be rejected.
TwoProcesses == pidOf = TwoPids /\ solcOf[p2] = v1 /\ \A p \in Proc : asked[p] # i2
TwoThreads == pidOf = [p \in Proc |-> 1] /\ \A p \in Proc : solcOf[p] = v1

-----------------------------------------------------------------------------
(* Programs: import graphs over four files, flawed files among them, and two  *)
(* or three files that declare, import and use names.                         *)
X == <<"X", <<>>>>
Y == <<"Y", <<>>>>
U == <<"u256", <<>>>>
XAsDep == <<"X", <<0>>>>    \* written $m0$X in the source
MCReserved == {U}

Named(k, list) == [form |-> "named", target |-> k, list |-> list]
Plain(imports) ==
  [imports |-> imports, tops |-> {}, nested |-> {}, locals |-> {}, refs |-> {},
   lines |-> 1, flaw |-> "none", present |-> TRUE]
NoFile == [Plain(<<>>) EXCEPT !.present = FALSE]

\* lists of at most n imports of files of S, with no names to bind
Graphs(S, n) == { [i \in 1 .. Len(s) |-> Named(s[i], <<>>)] : s \in UNION { [1 .. m -> S] : m \in 0 .. n } }
FlawedOne(flaw) == [Plain(<<>>) EXCEPT !.flaw = flaw, !.lines = 2]

GraphPrograms ==
  { ("e" :> [Plain(e) EXCEPT !.flaw = "contract"] @@ "a" :> [Plain(a) EXCEPT !.lines = 3]
     @@ "b" :> Plain(b) @@ "c" :> Plain(c)) :
      e \in Graphs({"a", "b", "c"}, 2), a \in Graphs({"e", "b", "c"}, 2),
      b \in Graphs({"a", "b", "c"}, 1), c \in Graphs({"e", "a", "b"}, 1) }
FlawPrograms ==
  { ("e" :> [Plain(e) EXCEPT !.flaw = flawE] @@ "a" :> Plain(a) @@ "b" :> b
     @@ "c" :> NoFile) :
      e \in Graphs({"a", "b"}, 2), a \in Graphs({"b", "c"}, 1), flawE \in Flaws,
      b \in { FlawedOne(flaw) : flaw \in Flaws } \cup
            { Plain(<<[Named("a", <<>>) EXCEPT !.form = "namespace"]>>) } }
MCGraphs == GraphPrograms \cup FlawPrograms

Tops(names) ==
  UNION { { { [name |-> n, exported |-> n \in exported] : n \in declared } : exported \in SUBSET declared } :
          declared \in SUBSET names }
Aliased == { <<>>, <<<<X, X>>>>, <<<<X, Y>>>>, <<<<Y, X>>>>, <<<<X, U>>>>, <<<<X, X>>, <<Y, Y>>>>, <<<<X, Y>>, <<Y, Y>>>> }

\* an entry and one dependency, with every use of two names
PairPrograms ==
  { ("e" :> [Plain(<<Named("a", list)>>) EXCEPT !.tops = topsE, !.locals = localsE, !.refs = refsE, !.nested = nestedE]
     @@ "a" :> [Plain(<<>>) EXCEPT !.tops = topsA, !.nested = nestedA, !.locals = localsA, !.refs = {X}]) :
      list \in Aliased, topsE \in {{}, {[name |-> X, exported |-> FALSE]}},
      nestedE \in {{}, {Y}},
      localsE \in SUBSET {Y}, refsE \in {{X}, {X, Y}}, topsA \in Tops({X, Y}),
      nestedA \in {{}, {X}}, localsA \in {{}, {X}} }
\* an entry that imports two dependencies, one of which may import the other
TriplePrograms ==
  { ("e" :> [Plain(<<Named("a", listA), Named("b", listB)>>) EXCEPT !.refs = refsE]
     @@ "a" :> [Plain(imports) EXCEPT !.tops = topsA, !.refs = {Y}]
     @@ "b" :> [Plain(<<>>) EXCEPT !.tops = topsB, !.refs = {X}]) :
      listA \in Aliased, listB \in { list \in Aliased : Len(list) < 2 }, refsE \in {{X, Y}},
      topsA \in Tops({X, Y}), topsB \in Tops({X, Y}), imports \in {<<>>, <<Named("b", <<<<Y, Y>>>>)>>} }
\* names that no import may take, or no dependency may declare
ReservedPrograms ==
  { ("e" :> Plain(<<Named("a", list)>>)
     @@ "a" :> [Plain(<<>>) EXCEPT !.tops = { [name |-> n, exported |-> TRUE] : n \in names }]) :
      list \in {<<>>, <<<<X, U>>>>, <<<<U, U>>>>, <<<<U, X>>>>}, names \in SUBSET {X, U, XAsDep} }
  \cup { ("e" :> [Plain(<<Named("a", <<<<X, X>>>>)>>) EXCEPT !.tops = {[name |-> XAsDep, exported |-> FALSE]}]
          @@ "a" :> [Plain(<<>>) EXCEPT !.tops = {[name |-> X, exported |-> TRUE]}]) }
MCNames == PairPrograms \cup TriplePrograms \cup ReservedPrograms

MCPrograms == MCGraphs \cup MCNames

-----------------------------------------------------------------------------
MCvars == <<scenario, cacheVars, bundlerVars>>

\* What the other one rests on.
NoProgram == program = CHOOSE p \in ReservedPrograms : TRUE
NoCaller == CacheInit /\ TwoThreads

MCInit ==
  /\ scenario \in Scenarios
  /\ CASE scenario = "imports" -> BundlerInit /\ NoCaller
       [] scenario = "processes" -> CacheInit /\ TwoProcesses /\ NoProgram /\ BundlerInit
       [] scenario = "threads" -> CacheInit /\ TwoThreads /\ NoProgram /\ BundlerInit

BundlerStep == scenario = "imports" /\ BundlerNext /\ UNCHANGED <<scenario, cacheVars>>

MCNext ==
  \/ BundlerStep
  \/ /\ CacheNext /\ UNCHANGED <<scenario, bundlerVars>>
     /\ \/ scenario = "processes" /\ TwoProcesses'
        \/ scenario = "threads" /\ TwoThreads'

\* Synchronous code that is scheduled and not killed goes on.
CallerStep(p) == Step(p) /\ scenario # "imports" /\ UNCHANGED <<scenario, bundlerVars>>

MCSpec == /\ MCInit /\ [][MCNext]_MCvars
          /\ WF_MCvars(BundlerStep)
          /\ \A p \in Proc : WF_MCvars(CallerStep(p))

\* Every call of compileYul ends, and every walk of the bundler.
CompilesEnd ==
  /\ CallsEnd
  /\ scenario = "imports" ~> verdict # "running"
=============================================================================
