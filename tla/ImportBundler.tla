--------------------------- MODULE ImportBundler ----------------------------
(* bundleImports (src/imports.ts) and the renaming compile() does with its   *)
(* result: the files an entry imports become one unit, dependencies first,   *)
(* each dependency's declarations renamed so that files cannot see or        *)
(* capture each other's names except through an import.                      *)
EXTENDS Naturals, Sequences, FiniteSets, SequencesExt

CONSTANTS Keys,          \* of files
          Entry,         \* the entry's key
          Spellings,     \* what names are made of
          ReservedNames, \* primitives, markers and globals: no alias, no dependency's name
          Programs,      \* the programs compiled: a file for some keys
          MaxDepth       \* bounds the stack: where the host's call stack overflows

\* A name is a spelling and the scopes put before it: x as it is written,
\* $mn$x with the scope n.
Names == Spellings \X Seq(Nat)
Written(name) == name[2] = <<>>
Scoped(n, name) == <<name[1], Append(name[2], n)>>

\* A file: its import statements, its declarations (top-level ones with their
\* export mark, nested ones), the names it binds locally, the names it
\* refers to, its number of lines and what may be wrong with it.
ImportType ==
  [form : {"named", "default", "namespace", "bare"}, target : Keys, list : Seq(Names \X Names)]
Flaws == {"none", "syntax", "pragma", "contract"}
FileType ==
  [imports : Seq(ImportType), tops : SUBSET [name : Names, exported : BOOLEAN],
   nested : SUBSET Names, locals : SUBSET Names, refs : SUBSET Names,
   lines : Nat, flaw : Flaws, present : BOOLEAN]

ASSUME ProgramsAssumption ==
  \A p \in Programs : DOMAIN p \subseteq Keys /\ Entry \in DOMAIN p /\ p \in [DOMAIN p -> FileType]
\* A chain of imports fits the host's stack.
ASSUME DepthAssumption == IsFiniteSet(Keys) /\ MaxDepth \in Nat /\ Cardinality(Keys) < MaxDepth

VARIABLES program,   \* the files of this compilation
          stack,     \* visit's activations: key, statement reached, step within it
          visited,
          order,     \* the files of the bundle so far
          bindings,  \* what each file has imported: local name, target file, original
          verdict,
          segments,  \* of the bundle's text: the file, its first line, how many it has
          line,      \* the line the next one starts at
          text       \* the bundle's text: the file and line each line was written on

bundlerVars == <<program, stack, visited, order, bindings, verdict, segments, line, text>>

File(k) == program[k]
Resolves(imp) == imp.target \in DOMAIN program /\ program[imp.target].present
TopNames(f) == { d.name : d \in f.tops }
Exported(f) == { d.name : d \in { d \in f.tops : d.exported } }
Declared(f) == TopNames(f) \cup f.nested
Top == stack[Len(stack)]
IsEntry == Len(stack) = 1

BundlerInit ==
  /\ program \in Programs
  /\ stack = << [key |-> Entry, stmt |-> 1, step |-> "enter"] >>
  /\ visited = {} /\ order = <<>>
  /\ bindings = [k \in DOMAIN program |-> {}]
  /\ verdict = "running"
  /\ segments = <<>> /\ line = 1 /\ text = <<>>

Reject(why) == verdict' = why /\ UNCHANGED <<program, stack, visited, order, bindings>>
At(step) == stack # <<>> /\ Top.step = step
Retop(frame) == stack' = [stack EXCEPT ![Len(stack)] = frame]

\* Mutant: no cycle check.
InStackNever == FALSE
InStack == \E i \in 1 .. Len(stack) - 1 : stack[i].key = Top.key

RejectCycle == At("enter") /\ InStack /\ Reject("cycle")

SkipVisited ==
  /\ At("enter") /\ ~InStack /\ Top.key \in visited
  /\ stack' = Front(stack)
  /\ UNCHANGED <<program, visited, order, bindings, verdict>>

HasSyntaxError(f) == f.flaw = "syntax"
HasRetiredPragma(f) == f.flaw = "pragma"
\* a class, nested ones included, that is neither abstract nor static nor a type
DeclaresContract(f) == f.flaw = "contract"
Flawed(f, isEntry) ==
  HasSyntaxError(f) \/ HasRetiredPragma(f) \/ (~isEntry /\ DeclaresContract(f))

RejectFile ==
  /\ At("enter") /\ ~InStack /\ Top.key \notin visited
  /\ Flawed(File(Top.key), IsEntry)
  /\ Reject("file")

OpenFile ==
  /\ At("enter") /\ ~InStack /\ Top.key \notin visited
  /\ ~Flawed(File(Top.key), IsEntry)
  /\ Retop([Top EXCEPT !.step = "import"])
  /\ UNCHANGED <<program, visited, order, bindings, verdict>>

Statement == File(Top.key).imports[Top.stmt]
MoreStatements == At("import") /\ Top.stmt <= Len(File(Top.key).imports)

\* Default, namespace, side-effect and non-relative imports, and paths to no file.
RejectImport ==
  /\ MoreStatements
  /\ Statement.form # "named" \/ ~Resolves(Statement)
  /\ Reject("import")

VisitTarget ==
  /\ MoreStatements
  /\ Statement.form = "named" /\ Resolves(Statement)
  /\ \/ /\ Len(stack) < MaxDepth
        /\ stack' = Append([stack EXCEPT ![Len(stack)].step = "bind"],
                           [key |-> Statement.target, stmt |-> 1, step |-> "enter"])
        /\ UNCHANGED <<program, visited, order, bindings, verdict>>
     \/ Len(stack) = MaxDepth /\ Reject("overflow")

Edges(imp) ==
  { [local |-> el[2], target |-> imp.target, original |-> el[1]] : el \in ToSet(imp.list) }

OneMeaning(edges) == \A e, d \in edges : e.local = d.local => e = d

\* May this statement's names be bound beside those already bound?
Bindable(imp, bound) ==
  /\ \A el \in ToSet(imp.list) :
       /\ el[1] \in Exported(File(imp.target))
       /\ el[1] # el[2] => el[2] \notin ReservedNames
  /\ OneMeaning(bound \cup Edges(imp))

RejectNames ==
  /\ At("bind")
  /\ ~Bindable(Statement, bindings[Top.key])
  /\ Reject("names")

BindNames ==
  /\ At("bind")
  /\ Bindable(Statement, bindings[Top.key])
  /\ bindings' = [bindings EXCEPT ![Top.key] = @ \cup Edges(Statement)]
  /\ Retop([key |-> Top.key, stmt |-> Top.stmt + 1, step |-> "import"])
  /\ UNCHANGED <<program, visited, order, verdict>>

Locals(k) == { e.local : e \in bindings[k] }

\* The renaming is blind to scopes, so no name it touches may be bound twice.
Renameable(k, isEntry) ==
  /\ Locals(k) \cap (Declared(File(k)) \cup File(k).locals) = {}
  /\ ~isEntry =>
       TopNames(File(k)) \cap (ReservedNames \cup File(k).locals \cup File(k).nested) = {}

NoMoreStatements == At("import") /\ Top.stmt > Len(File(Top.key).imports)

RejectScope ==
  /\ NoMoreStatements
  /\ ~Renameable(Top.key, IsEntry)
  /\ Reject("scope")

CloseFile ==
  /\ NoMoreStatements /\ Renameable(Top.key, IsEntry)
  /\ stack' = Front(stack)
  /\ visited' = visited \cup {Top.key}
  /\ order' = Append(order, Top.key)
  /\ UNCHANGED <<program, bindings, verdict>>

Bundled == ToSet(order)

\* checkCrossFileReferences: names of other files used without an import
StrayReferences(k) ==
  { r \in File(k).refs :
      /\ r \notin Declared(File(k)) \cup Locals(k) \cup File(k).locals
      /\ \E j \in Bundled \ {k} : r \in Declared(File(j)) }

\* Mutant: spellings of the form $mN$x are let through.
ReservedSpellingNone(k) == {}
\* rejectReservedModuleIdentifiers
ReservedSpelling(k) ==
  { n \in Declared(File(k)) \cup File(k).locals \cup File(k).refs : ~Written(n) }

Finish ==
  /\ stack = <<>> /\ verdict = "running"
  /\ verdict' = IF \E k \in Bundled : StrayReferences(k) # {} THEN "reference"
                ELSE IF \E k \in Bundled : ReservedSpelling(k) # {} THEN "spelling"
                ELSE "bundled"
  /\ UNCHANGED <<program, stack, visited, order, bindings>>

MoreSegments == verdict = "bundled" /\ Len(segments) < Len(order)

\* Mutant: a file's line count is one short.
LaySegmentShort ==
  LET k == order[Len(segments) + 1] IN
  /\ MoreSegments
  /\ segments' = Append(segments, [file |-> k, startLine |-> line, lineCount |-> File(k).lines])
  /\ text' = text \o [n \in 1 .. File(k).lines |-> <<k, n>>]
  /\ line' = line + File(k).lines - 1
  /\ UNCHANGED <<program, stack, visited, order, bindings, verdict>>
\* The texts of the files are joined, in order.
LaySegment ==
  LET k == order[Len(segments) + 1] IN
  /\ MoreSegments
  /\ segments' = Append(segments, [file |-> k, startLine |-> line, lineCount |-> File(k).lines])
  /\ text' = text \o [n \in 1 .. File(k).lines |-> <<k, n>>]
  /\ line' = line + File(k).lines
  /\ UNCHANGED <<program, stack, visited, order, bindings, verdict>>

BundlerNext ==
  \/ /\ verdict = "running"
     /\ \/ RejectCycle \/ SkipVisited \/ RejectFile \/ OpenFile
        \/ RejectImport \/ VisitTarget \/ RejectNames \/ BindNames
        \/ RejectScope \/ CloseFile \/ Finish
     /\ UNCHANGED <<segments, line, text>>
  \/ LaySegment
  \/ verdict # "running" /\ ~MoreSegments /\ UNCHANGED bundlerVars

BundlerSpec == BundlerInit /\ [][BundlerNext]_bundlerVars

\* visit and compile are synchronous code: once called they go on.
FairBundlerSpec == BundlerSpec /\ WF_bundlerVars(BundlerNext)

-----------------------------------------------------------------------------
\* The scope index of a dependency: its place in post-order.
DepIndex(k) == (CHOOSE i \in 1 .. Len(order) : order[i] = k) - 1

\* renamesByFile: a dependency's own top-level names and every file's imports
Renames(k) ==
  [n \in (IF k = Entry THEN {} ELSE TopNames(File(k))) \cup Locals(k) |->
     IF n \in Locals(k)
     THEN LET e == CHOOSE e \in bindings[k] : e.local = n IN Scoped(DepIndex(e.target), e.original)
     ELSE Scoped(DepIndex(k), n)]

\* rewriteModuleScopes: what a reference or a top-level declaration is called
Final(k, n) == IF n \in DOMAIN Renames(k) THEN Renames(k)[n] ELSE n

\* Every declaration of the unit under its final name; nested ones keep theirs.
UnitNames ==
  UNION { { [file |-> k, name |-> n, final |-> Final(k, n)] : n \in TopNames(File(k)) } : k \in Bundled }
NestedNames ==
  UNION { { [file |-> k, name |-> n, final |-> n] : n \in File(k).nested } : k \in Bundled }

\* remapDiagnostics: the file and line a line of the bundle came from
Origin(l) ==
  LET here == { i \in 1 .. Len(segments) :
                  l >= segments[i].startLine /\ l < segments[i].startLine + segments[i].lineCount } IN
  IF here = {} THEN <<>>
  ELSE LET i == CHOOSE i \in here : \A j \in here : i <= j IN
       <<segments[i].file, l - segments[i].startLine + 1>>

-----------------------------------------------------------------------------
(* What the header of src/imports.ts and docs/guide say a program must be.   *)
Imports(k) == { i \in ToSet(File(k).imports) : Resolves(i) }
Importees(ks) == { i.target : i \in UNION { Imports(k) : k \in ks } }

\* the files reached from ks, ks included
Reached(ks) ==
  { k \in DOMAIN program :
      \A S \in SUBSET DOMAIN program : ks \subseteq S /\ Importees(S) \subseteq S => k \in S }
Cyclic(k) == k \in Reached(Importees({k}))

\* The declaration a name means in a file: its own, or the one it imports.
Means(k, n) ==
  IF n \in Declared(File(k)) THEN {<<k, n>>}
  ELSE UNION { { <<i.target, el[1]>> : el \in { el \in ToSet(i.list) : el[2] = n } } : i \in Imports(k) }

ImportedNames(k) == UNION { { el[2] : el \in ToSet(i.list) } : i \in Imports(k) }

WellFormedFile(k, unit) ==
  LET f == File(k) IN
  /\ f.flaw \in {"none"} \cup (IF k = Entry THEN {"contract"} ELSE {})
  /\ \A i \in ToSet(f.imports) :
       /\ i.form = "named" /\ Resolves(i)
       /\ \A el \in ToSet(i.list) :
            /\ el[1] \in Exported(File(i.target))
            /\ el[2] \in ReservedNames => el[1] = el[2]
  /\ \A n \in ImportedNames(k) :
       /\ \A d, e \in Means(k, n) : d = e
       /\ n \notin Declared(f) \cup f.locals
  /\ k # Entry => TopNames(f) \cap (ReservedNames \cup f.locals \cup f.nested) = {}
  /\ \A r \in f.refs : r \notin f.locals /\ Means(k, r) = {} =>
       \A j \in unit : r \notin Declared(File(j))
  /\ \A n \in Declared(f) \cup f.locals \cup f.refs : Written(n)

WellFormed ==
  LET unit == Reached({Entry}) IN
  \A k \in unit : ~Cyclic(k) /\ WellFormedFile(k, unit)

BundlerTypeOK ==
  /\ \A i \in 1 .. Len(stack) :
       /\ stack[i].key \in DOMAIN program /\ stack[i].step \in {"enter", "import", "bind"}
       /\ stack[i].stmt \in 1 .. Len(File(stack[i].key).imports) + 1
  /\ visited \subseteq DOMAIN program /\ ToSet(order) = visited
  /\ \A k \in DOMAIN program : \A e \in bindings[k] : e.target \in DOMAIN program
  /\ verdict \in {"running", "cycle", "file", "import", "names", "scope", "reference",
                  "spelling", "overflow", "bundled"}

(* imports.ts:1-35: a program is bundled exactly when every file the entry   *)
(* reaches keeps the rules, and a cycle is what is said to be one.           *)
VerdictIsDue ==
  /\ verdict # "running" => (verdict = "bundled" <=> WellFormed)
  /\ verdict = "cycle" => \E k \in Reached({Entry}) : Cyclic(k)
  /\ verdict # "overflow"

(* imports.ts:25: a file imported along several paths is bundled once, after *)
(* everything it imports; the entry comes last and nothing else is bundled.  *)
DependenciesFirst ==
  /\ IsInjective(order)
  /\ \A i \in 1 .. Len(order) : \A k \in Importees({order[i]}) :
       \E j \in 1 .. i - 1 : order[j] = k
  /\ verdict = "bundled" => ToSet(order) = Reached({Entry}) /\ Last(order) = Entry

(* imports.ts:9-15: after the renaming no two top-level declarations of the  *)
(* unit share a name, and a reference means what its own file's declarations *)
(* and imports say, and nothing else in the unit. Two cases stay open and    *)
(* are said so there: a name the file also binds locally, and a declaration  *)
(* nested in a block, which the analyzer's duplicate checks see.             *)
NamesMeanTheirFiles ==
  verdict = "bundled" =>
    /\ \A d, e \in UnitNames : d.final = e.final => d = e
    /\ \A k \in Bundled : \A r \in File(k).refs \ File(k).locals :
         (\A d \in NestedNames : d.final # Final(k, r)) =>
           { <<d.file, d.name>> : d \in { d \in UnitNames : d.final = Final(k, r) } } = Means(k, r)

(* imports.ts:88: a line of the bundle is reported in the file, and at the   *)
(* line, it was written on.                                                  *)
LinesComeHome == \A l \in 1 .. Len(text) : Origin(l) = text[l]

(* A program is bundled when it should be, each file once and in its place,   *)
(* and the lines of the bundle can be told where they were written.          *)
BundleIsDue == BundlerTypeOK /\ VerdictIsDue /\ DependenciesFirst /\ LinesComeHome

(* Whatever the import graph, the bundler comes to a verdict.                *)
VerdictReached == <>(verdict # "running")
=============================================================================
