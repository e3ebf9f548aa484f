---------------------------- MODULE MemberScopes ----------------------------
(* A bundled unit whose contract members share names with file-level          *)
(* declarations (src/compile.ts): the pre-pass that rejects a member that     *)
(* collides with an import, the renaming that leaves a member's references    *)
(* alone, and the analyzer's own gate (src/analyzer.ts). The three must give  *)
(* what the analyzer gives the same program written as one file.              *)
EXTENDS Naturals, Sequences, SequencesExt

CONSTANTS Units,        \* the units compiled
          Route,        \* the class the route compiles
          UnitClasses   \* the classes of the unit, Route among them

(* A unit: declared[f][n] is what file f ("entry", "dep") declares as n at    *)
(* file level; imported[n] the dependency's name the entry imports as n;      *)
(* file[c] the file of class c; members[c][n] the kinds of c's member n;      *)
(* bases[c] the classes c extends, a base written `B(7)` marked by call;      *)
(* stray, that the route is a follow-up check of an abstract class nothing    *)
(* extends. "none" stands for no declaration and no import.                   *)

\* What the bundler lets through, and what can be one file: imports go from
\* the entry to the dependency and have their targets, and no name means two
\* things: it is declared or imported, and of one file.
Sound(u) ==
  /\ u.file[Route] = "entry"
  /\ \A n \in DOMAIN u.members[Route] :
       /\ u.imported[n] # "none" =>
            u.declared.entry[n] = "none" /\ u.declared.dep[u.imported[n]] # "none"
       /\ u.declared.dep[n] # "none" => u.declared.entry[n] = "none" /\ u.imported[n] \in {"none", n}
  /\ \A c \in UnitClasses :
       /\ u.file[c] \in {"entry", "dep"}
       /\ u.bases[c] \in Seq([class : UnitClasses, call : BOOLEAN])
       /\ u.file[c] = "dep" => \A b \in ToSet(u.bases[c]) : u.file[b.class] = "dep"

ASSUME UnitsAssumption == Route \in UnitClasses /\ \A u \in Units : Sound(u)

VARIABLES unit, stage,
          reports,   \* the JETH133 reports: who made it, about which class and name
          fired      \* the names the pre-pass reported, by class

scopeVars == <<unit, stage, reports, fired>>

MemberNames == DOMAIN unit.members[Route]

\* finalNameIn: <<n>> as written, <<1, n>> for the spelling $m1$n.
FinalNameIn(f, n) ==
  IF f = "dep"
  THEN IF unit.declared.dep[n] = "none" THEN <<n>> ELSE <<1, n>>
  ELSE IF unit.imported[n] = "none" THEN <<n>> ELSE <<1, unit.imported[n]>>

\* declByFinal: the kind of the file-level declaration with this final name.
DeclaredAs(final) ==
  IF Len(final) = 2 THEN unit.declared.dep[final[2]] ELSE unit.declared.entry[final[1]]

Bases(c) == { b.class : b \in ToSet(unit.bases[c]) }

\* chainOf: a class with all it extends.
Upward(S) == \A c \in S : Bases(c) \subseteq S
ChainOf(c) == { b \in UnitClasses : \A S \in SUBSET UnitClasses : c \in S /\ Upward(S) => b \in S }
Chain == ChainOf(Route)

KindsIn(n) == { unit.members[c][n] : c \in Chain } \ {"none"}

\* Two declarations of one name the analyzer accepts side by side.
MayCoexist(member, decl) ==
  \/ member = decl /\ decl \in {"error", "event"}
  \/ member = "modifier" /\ decl = "type"

\* The member n, of one kind throughout the chain, may not stand beside decl.
Clashes(n, decl) ==
  decl # "none" /\ \E kind \in KindsIn(n) : KindsIn(n) = {kind} /\ ~MayCoexist(kind, decl)

\* The file-level names a member's name may meet: those of the route's file
\* and of every file that declares the member.
ScopeFiles(n) ==
  {unit.file[Route]} \cup { unit.file[c] : c \in { c \in Chain : unit.members[c][n] # "none" } }
InScope(n) == { FinalNameIn(f, n) : f \in ScopeFiles(n) }

AnalyzerSees(n) == \E final \in InScope(n) : final = <<n>> /\ DeclaredAs(final) # "none"

\* Mutant: it reports what the analyzer reports too.
ImportCollidesTwice(n) == \E final \in InScope(n) : Clashes(n, DeclaredAs(final))
ImportCollides(n) ==
  ~AnalyzerSees(n) /\ \E final \in InScope(n) : Clashes(n, DeclaredAs(final))

Collisions == { n \in MemberNames : ImportCollides(n) }

ScopesInit ==
  /\ unit \in Units
  /\ stage = "prepass"
  /\ reports = {}
  /\ fired = [c \in UnitClasses |-> {}]

CollectCollisions ==
  /\ stage = "prepass"
  /\ reports' = { [by |-> "prepass", class |-> Route, name |-> n] : n \in Collisions }
  /\ fired' = [c \in UnitClasses |-> IF c \in Chain THEN Collisions ELSE {}]
  /\ stage' = "strays"
  /\ UNCHANGED unit

\* Classes off the route's chain: their methods against the imports of their file.
VisibleMethods(c) ==
  { n \in MemberNames : \E b \in ChainOf(c) : unit.members[b][n] = "function" }

StrayCollides(c, n) ==
  /\ n \in VisibleMethods(c)
  /\ unit.file[c] = "entry" /\ unit.imported[n] # "none"
  /\ DeclaredAs(FinalNameIn("entry", n)) # "none"
Strays == { s \in (UnitClasses \ Chain) \X MemberNames : StrayCollides(s[1], s[2]) }

CollectStrays ==
  /\ stage = "strays"
  /\ reports' = reports \cup { [by |-> "legacy", class |-> s[1], name |-> s[2]] : s \in Strays }
  /\ stage' = "analyze"
  /\ UNCHANGED <<unit, fired>>

\* The analyzer's gate, after the renaming: no member is renamed, and of the
\* declarations only the entry's keep their names.
AnalyzerCollides(n) == ~unit.stray /\ Clashes(n, unit.declared.entry[n])

Analyze ==
  /\ stage = "analyze"
  /\ reports' = reports \cup
       { [by |-> "analyzer", class |-> Route, name |-> n] : n \in { n \in MemberNames : AnalyzerCollides(n) } }
  /\ stage' = "done"
  /\ UNCHANGED <<unit, fired>>

ScopesNext == CollectCollisions \/ CollectStrays \/ Analyze
ScopesSpec == ScopesInit /\ [][ScopesNext]_scopeVars

(* The renaming of a reference to n in the body of class c, and what the      *)
(* analyzer then takes it for.                                                *)

\* The one base the shadow is inherited through: the first, written bare.
ShadowBase(c) ==
  IF unit.bases[c] = <<>> \/ Head(unit.bases[c]).call THEN {} ELSE {Head(unit.bases[c]).class}

ValueKinds == {"storage", "error", "event"}

\* Mutant: a class is shadowed by its own members only.
ShadowOfOwn(c) == { n \in MemberNames : unit.members[c][n] \in ValueKinds }
ShadowLine(c) ==
  { b \in UnitClasses : \A S \in SUBSET UnitClasses :
      c \in S /\ (\A d \in S : ShadowBase(d) \subseteq S) => b \in S }
ShadowOf(c) == { n \in MemberNames : \E b \in ShadowLine(c) : unit.members[b][n] \in ValueKinds }

RenamedIn(c, n) ==
  IF n \in ShadowOf(c) /\ n \notin fired[c] THEN <<n>> ELSE FinalNameIn(unit.file[c], n)

\* resolveErrorDeclInScope: a member error, then a file-level one.
ResolveError(final) ==
  IF Len(final) = 1 /\ "error" \in KindsIn(final[1]) THEN <<"member", final[1]>>
  ELSE IF DeclaredAs(final) = "error" THEN <<"file", final>> ELSE <<"unknown">>

\* What the unit written as one file gives: every declaration in the scope of
\* the class goes by the name it has there.
ResolveInOneFile(c, n) ==
  IF "error" \in KindsIn(n) THEN <<"member", n>>
  ELSE IF DeclaredAs(FinalNameIn(unit.file[c], n)) = "error"
       THEN <<"file", FinalNameIn(unit.file[c], n)>> ELSE <<"unknown">>

CollidesInOneFile(n) == ~unit.stray /\ \E final \in InScope(n) : Clashes(n, DeclaredAs(final))

-----------------------------------------------------------------------------
Reported == { r.name : r \in { r \in reports : r.by # "legacy" } }

ScopesTypeOK ==
  /\ stage \in {"prepass", "strays", "analyze", "done"}
  /\ reports \subseteq [by : {"prepass", "legacy", "analyzer"}, class : UnitClasses, name : MemberNames]
  /\ fired \in [UnitClasses -> SUBSET MemberNames]

\* One collision is never reported twice, by the pre-pass and the analyzer or
\* by both halves of the pre-pass.
ReportedOnce ==
  \A r, s \in reports : r.class = s.class /\ r.name = s.name => r = s

\* A member that meets a declaration or an import is reported for JETH133 once,
\* and exactly where the same program written as one file is rejected
\* ("MULTI-FILE behavior must equal SINGLE-FILE behavior EXACTLY",
\* collectImportedMemberTypeCollisions).
RejectsAsOneFile ==
  /\ ScopesTypeOK /\ ReportedOnce
  /\ stage = "done" /\ ~unit.stray => Reported = { n \in MemberNames : CollidesInOneFile(n) }

\* A raise of n in c that can be compared: n is a member of one kind or none, and
\* a member error is unreported and the class's own or inherited. (What a base's
\* body makes of a member error that only a derived class has is left open.)
Comparable(c, n) ==
  /\ \A kind \in KindsIn(n) : KindsIn(n) = {kind}
  /\ "error" \in KindsIn(n) =>
       n \notin Reported /\ \E b \in ChainOf(c) : unit.members[b][n] = "error"

AsInOneFile(c, n) == ResolveError(RenamedIn(c, n)) = ResolveInOneFile(c, n)

\* `revert(N(...))` anywhere in the route's classes raises the error the same
\* program raises as one file: a member's, the class's own or inherited, before
\* an imported one.
RaisesAlike ==
  stage = "done" => \A c \in Chain, n \in MemberNames : Comparable(c, n) => AsInOneFile(c, n)

\* What c reaches by first bases alone, each extended without arguments.
OverFirstBases(S) ==
  \A d \in S, e \in UnitClasses :
    unit.bases[d] # <<>> /\ Head(unit.bases[d]) = [class |-> e, call |-> FALSE] => e \in S
PlainLine(c) ==
  { b \in UnitClasses : \A S \in SUBSET UnitClasses : c \in S /\ OverFirstBases(S) => b \in S }

\* The raises that bind otherwise, in any hierarchy: of a member error that c
\* inherits through none of these, when its file gives the name to an import or
\* to the dependency.
LosesMember(c, n) ==
  /\ "error" \in KindsIn(n) /\ FinalNameIn(unit.file[c], n) # <<n>>
  /\ \A b \in PlainLine(c) : unit.members[b][n] # "error"

\* A raise binds what it binds in one file exactly when it loses no member: where
\* the shadow is not the analyzer's chain, RaisesAlike fails, and nowhere else
\* (rewriteModuleScopes, shadowNamesFor; resolveErrorDeclInScope).
RaisesAsOneFile ==
  stage = "done" =>
    \A c \in Chain, n \in MemberNames :
      Comparable(c, n) => (AsInOneFile(c, n) <=> ~LosesMember(c, n))

\* The same of the names a route reports, member errors included: then the
\* diagnostics beside JETH133 are the one file's ("the companion code list
\* matches the single-file twin's exactly", collectImportedMemberTypeCollisions).
CompanionsAsOneFile ==
  stage = "done" =>
    \A c \in Chain, n \in Reported : ResolveError(RenamedIn(c, n)) = ResolveInOneFile(c, n)
=============================================================================
