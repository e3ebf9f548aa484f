------------------------------ MODULE Modifiers ------------------------------
(***************************************************************************)
(* User modifiers: a body with one or more placeholders `_;`, spliced      *)
(* around a function or a constructor.  The compiler has three ways to do  *)
(* it.  A guard with nothing after its placeholder is put in front of the  *)
(* body; any other shape on a function runs the body as a Yul function     *)
(* from the dispatch entry; on a constructor the body is copied in place   *)
(* of every placeholder, or outlined into a Yul function when a `return;`  *)
(* or a name makes copying wrong.  Names are looked up when the IR is      *)
(* lowered, in a stack of flat maps, one per Yul block.                    *)
(*                                                                         *)
(* Modelled: the choice of the way, the IR it builds and what that IR      *)
(* does.  What it should do is Solidity's meaning, `Layer` below: each     *)
(* application has its own scope, its arguments are read in the scope of   *)
(* the function, and a return leaves one layer only.                       *)
(*                                                                         *)
(* A run is observed by its marks (the value of a name at some point) and  *)
(* by the value returned.  Conditions read one bit each of an oracle, and  *)
(* FALSE when it is used up, so every loop ends.                           *)
(***************************************************************************)
EXTENDS Integers, Sequences, FiniteSets, SequencesExt

CONSTANTS Literal,  \* the names that stand for numbers, with their numbers
          Effects   \* those among them that stand for a call that marks its result

-----------------------------------------------------------------------------
(* Statements, of the source and of the IR                                 *)

Mark(e) == [k |-> "mark", e |-> e]
Assign(x, e) == [k |-> "assign", x |-> x, e |-> e]
Decl(x, e) == [k |-> "decl", x |-> x, e |-> e]
Nested(kind, body) == [k |-> kind, body |-> body]
If(body) == Nested("if", body)
While(body) == Nested("while", body)
DoWhile(body) == Nested("do", body)
For(post, body) == [k |-> "for", post |-> post, body |-> body]
Break == [k |-> "break"]
Continue == [k |-> "continue"]
Return == [k |-> "return"]
ReturnValue(e) == [k |-> "returnValue", e |-> e]
Hole == [k |-> "hole"]

\* Only in the IR
Block(body) == Nested("block", body)
LayerBlock(body) == Nested("layer", body)
LayerReturn == [k |-> "layerReturn"]
BodyCall == [k |-> "bodyCall"]
OutlineBind(id, params, body) ==
    [k |-> "bind", id |-> id, params |-> params, body |-> body]
OutlineCall(id) == [k |-> "call", id |-> id]

Compound == {"if", "while", "do", "for", "block", "layer"}

\* How many statements of a kind a body holds, at any depth.
RECURSIVE Count(_, _)
Count(kind, body) ==
    FoldLeft(LAMBDA n, s: n + (IF s.k = kind THEN 1 ELSE 0)
                            + (IF s.k \in Compound THEN Count(kind, s.body) ELSE 0),
             0, body)

Toplevel(kind, body) == \E i \in DOMAIN body: body[i].k = kind

-----------------------------------------------------------------------------
(* The machine: a stack of flat maps from names to registers, the          *)
(* registers, what was observed, the bits left and how control leaves the  *)
(* current statement.                                                      *)

Active == "(active)"

Fresh(m, scope) == [m EXCEPT !.scopes = <<m.globals, scope>>]

Holders(m, x) == {i \in DOMAIN m.scopes: x \in DOMAIN m.scopes[i]}
Bound(m, x) == Holders(m, x) # {}
Register(m, x) ==
    LET i == CHOOSE i \in Holders(m, x): \A j \in Holders(m, x): j <= i
    IN  m.scopes[i][x]
Value(m, e) == IF e \in DOMAIN Literal THEN Literal[e] ELSE m.regs[Register(m, e)]

With(scope, x, r) ==
    [n \in DOMAIN scope \cup {x} |-> IF n = x THEN r ELSE scope[n]]

Declare(m, x, v) ==
    [m EXCEPT !.regs = Append(@, v),
              !.scopes[Len(m.scopes)] = With(@, x, Len(m.regs) + 1)]

\* Declare x with the value e has in `home`; a call is observed.
Bind(m, home, x, e) ==
    Declare([m EXCEPT !.trace = IF e \in Effects THEN Append(@, Value(home, e)) ELSE @],
            x, Value(home, e))

Push(m) == [m EXCEPT !.scopes = Append(@, <<>>)]
Pop(m, to) == [m EXCEPT !.scopes = SubSeq(@, 1, Len(to.scopes))]

Bit(m) == m.bits # <<>> /\ Head(m.bits)
Spend(m) == [m EXCEPT !.bits = IF @ = <<>> THEN @ ELSE Tail(@)]

\* A modifier layer that has returned skips what is left of it.
Live(m) == Bound(m, Active) => Value(m, Active) = 1
Going(m) == m.flow = "go"
Go(m) == [m EXCEPT !.flow = "go"]
-----------------------------------------------------------------------------
(* What the lowered statements do.  A `leave` ends the Yul function it is  *)
(* in; the end of a layer is a test in front of every statement and of     *)
(* every round of a loop.                                                  *)

RECURSIVE Exec(_, _), Run(_, _), Loop(_, _), Layer(_, _)

Run(body, m) ==
    IF body = <<>> \/ ~Going(m) \/ ~Live(m) THEN m
    ELSE Run(Tail(body), Exec(Head(body), m))

Scoped(body, m) == Pop(Run(body, Push(m)), m)

\* Call a Yul function on copies of registers: a scope of its own, left by `leave`.
Enter(m, params, regs) ==
    FoldLeft(LAMBDA n, i: Declare(n, params[i], m.regs[regs[i]]),
             Fresh(m, <<>>), [i \in DOMAIN params |-> i])
Leave(callee, m) == [callee EXCEPT !.scopes = m.scopes, !.flow = "go"]

\* userfn_<key>: the arguments are the registers of the dispatch entry, the
\* return variable starts at zero in every call.
CallBody(m) ==
    Leave(Run(m.unit.body, [Enter(m, m.unit.params, m.args) EXCEPT !.ret = 0]), m)

\* An outlined unit takes the parameters in and gives them back.
CallOutlined(m, unit) ==
    LET entered == Enter(m, unit.params, unit.regs)
        done == Run(unit.body, entered)
        back == [i \in DOMAIN unit.params |->
                    done.regs[entered.scopes[2][unit.params[i]]]]
        Written(r) == {i \in DOMAIN unit.regs: unit.regs[i] = r}
    IN  Leave([done EXCEPT !.regs =
                  [r \in DOMAIN @ |-> IF Written(r) = {} THEN @[r]
                                      ELSE back[CHOOSE i \in Written(r): TRUE]]], m)

Break1(m) == IF m.flow = "break" THEN Go(m) ELSE m

\* One round of a loop whose condition has just been met, then the next.
Round(s, m) ==
    LET r == Scoped(s.body, m)
        next == Go(r)
    IN  IF r.flow \notin {"go", "continue"} THEN Break1(r)
        ELSE IF s.k = "for" /\ Live(next) THEN Loop(s, Run(s.post, next))
        ELSE Loop(s, next)

Loop(s, m) ==
    IF ~Live(m) THEN m
    ELSE IF Bit(m) THEN Round(s, Spend(m)) ELSE Spend(m)

Exec(s, m) ==
    CASE s.k = "mark" -> [m EXCEPT !.trace = Append(@, Value(m, s.e))]
      [] s.k = "assign" -> [m EXCEPT !.regs[Register(m, s.x)] = Value(m, s.e)]
      [] s.k = "decl" -> Bind(m, m, s.x, s.e)
      [] s.k = "block" -> Scoped(s.body, m)
      [] s.k = "layer" -> Pop(Run(s.body, Declare(Push(m), Active, 1)), m)
      [] s.k = "layerReturn" -> [m EXCEPT !.regs[Register(m, Active)] = 0]
      [] s.k = "if" -> IF Bit(m) THEN Scoped(s.body, Spend(m)) ELSE Spend(m)
      [] s.k \in {"while", "for"} -> Loop(s, m)
      [] s.k = "do" -> Round(s, m)
      [] s.k = "break" -> [m EXCEPT !.flow = "break"]
      [] s.k = "continue" -> [m EXCEPT !.flow = "continue"]
      [] s.k = "return" -> [m EXCEPT !.flow = "leave"]
      [] s.k = "returnValue" -> [m EXCEPT !.ret = Value(m, s.e), !.flow = "leave"]
      [] s.k = "bind" ->
           [m EXCEPT !.outlined[s.id] =
               [params |-> s.params, body |-> s.body,
                regs |-> [i \in DOMAIN s.params |-> Register(m, s.params[i])]]]
      [] s.k = "call" -> CallOutlined(m, m.outlined[s.id])
      [] s.k = "bodyCall" -> CallBody(m)
      [] s.k = "hole" -> Layer(m.level + 1, m)

-----------------------------------------------------------------------------
(* Solidity: the application at a level (1 is the outermost) around the    *)
(* ones inside it.  Its arguments are read in the function's scope, its    *)
(* parameters and locals are its own, a return resumes after the           *)
(* placeholder of the enclosing layer.  The function's parameters and its  *)
(* return variable are one set of slots for every run of the body.         *)

Layer(level, m) ==
    LET apps == m.unit.apps
        home == [m EXCEPT !.scopes = m.home]
        app == apps[level]
        entered == FoldLeft(LAMBDA n, i: Bind(n, home, app.modifier.params[i], app.args[i]),
                            [Fresh(m, <<>>) EXCEPT !.level = level],
                            [i \in DOMAIN app.args |-> i])
        done == IF level > Len(apps) THEN Scoped(m.unit.body, home)
                ELSE Run(app.modifier.body, entered)
    IN  [Leave(done, m) EXCEPT !.level = m.level]
-----------------------------------------------------------------------------
(* The compiler: a modifier is collected into a shape ...                  *)

BareReturn(modifier) == Count("return", modifier.body) > 0

\* The canonical shape: one placeholder, at top level, and no return.
Flat(modifier) ==
    /\ Count("hole", modifier.body) = 1
    /\ Toplevel("hole", modifier.body)
    /\ ~BareReturn(modifier)

HoleAt(body) == CHOOSE i \in DOMAIN body: body[i].k = "hole"
PreStmts(modifier) == SubSeq(modifier.body, 1, HoleAt(modifier.body) - 1)
PostStmts(modifier) == SubSeq(modifier.body, HoleAt(modifier.body) + 1, Len(modifier.body))

\* More than a guard in front of the body.
Buffered(modifier) == ~Flat(modifier) \/ PostStmts(modifier) # <<>>

(* ... and each application is spliced around what it wraps, the innermost *)
(* first.                                                                  *)

ArgDecls(app) ==
    [i \in DOMAIN app.args |-> Decl(app.modifier.params[i], app.args[i])]

\* A statement of a modifier: the placeholder becomes what it wraps, in the
\* same block, and a return leaves the layer.
RECURSIVE Splice(_, _)

Splice(body, inner) ==
    LET One(s) == CASE s.k = "hole" -> inner
                    [] s.k = "return" -> <<LayerReturn>>
                    [] s.k \in Compound -> <<[s EXCEPT !.body = Splice(@, inner)]>>
                    [] OTHER -> <<s>>
    IN  FoldLeft(LAMBDA done, s: done \o One(s), <<>>, body)

\* The guard is popped before the body runs.
InlineGuard(app, inner) ==
    <<Block(ArgDecls(app) \o PreStmts(app.modifier))>> \o inner

\* The whole body of the modifier, in one block.
WrapBody(app, inner) ==
    LET body == ArgDecls(app) \o Splice(app.modifier.body, inner)
    IN  IF BareReturn(app.modifier) THEN <<LayerBlock(body)>> ELSE <<Block(body)>>

Wrapped(Wrap(_, _), apps, inner) == FoldRight(Wrap, apps, inner)

\* A function: all its modifiers are guards, or all of them wrap a call.
usesBufferedModifierPath(unit) == \E i \in DOMAIN unit.apps: Buffered(unit.apps[i].modifier)
WrapModifiers(unit) ==
    IF usesBufferedModifierPath(unit) THEN Wrapped(WrapBody, unit.apps, <<BodyCall>>)
    ELSE Wrapped(InlineGuard, unit.apps, unit.body)

\* A constructor's application: a guard, or the whole modifier copied.
InlineModifier(app, inner) ==
    IF Buffered(app.modifier) THEN WrapBody(app, inner) ELSE InlineGuard(app, inner)

HasReturn(unit) == Count("return", unit.body) > 0
AnyBodyRoute(unit) == usesBufferedModifierPath(unit)
AnyModReturn(unit) == \E i \in DOMAIN unit.apps: BareReturn(unit.apps[i].modifier)

\* A modifier and the constructor have a parameter of the same name.
ModParamCollision(unit) ==
    \E i \in DOMAIN unit.apps:
        ToSet(unit.apps[i].modifier.params) \cap ToSet(unit.params) # {}

\* Mutant: only a base's return is thought to need it.
NeedBodyOutlineBase(unit, isBase) ==
    \/ HasReturn(unit) /\ isBase
    \/ AnyBodyRoute(unit) /\ ModParamCollision(unit)

\* What follows the body in the merged constructor must still run.
NeedBodyOutline(unit, isBase) ==
    \/ HasReturn(unit) /\ (isBase \/ AnyBodyRoute(unit))
    \/ AnyBodyRoute(unit) /\ ModParamCollision(unit)

\* One level of the merged constructor; outlined units are numbered by level.
BuildCtorLevel(unit, isBase, level) ==
    LET body == 2 * level
        wrap == 2 * level + 1
        inner == IF NeedBodyOutline(unit, isBase)
                 THEN <<OutlineBind(body, unit.params, unit.body)>>
                      \o Wrapped(InlineModifier, unit.apps, <<OutlineCall(body)>>)
                 ELSE Wrapped(InlineModifier, unit.apps, unit.body)
    IN  IF AnyModReturn(unit) /\ isBase
        THEN <<OutlineBind(wrap, unit.params, inner), OutlineCall(wrap)>>
        ELSE inner
-----------------------------------------------------------------------------
(* The start of a call, with the arguments 11, 12, ... .  A constructor    *)
(* stages immutables in variables every unit of it shares; one of them is  *)
(* kept here, as the only global name.                                     *)

Immutable == "immutable"

Start(u, b) ==
    LET n == Len(u.params)
        scope == [x \in ToSet(u.params) |->
                    1 + (CHOOSE i \in DOMAIN u.params: u.params[i] = x)]
        globals == [x \in {Immutable} |-> 1]
    IN  [unit |-> u, globals |-> globals, home |-> <<globals, scope>>,
         scopes |-> <<globals, scope>>, regs |-> <<0>> \o [i \in 1..n |-> 10 + i],
         args |-> [i \in 1..n |-> 1 + i], outlined |-> [i \in 0..9 |-> <<>>],
         ret |-> 0, level |-> 0, trace |-> <<>>, bits |-> b, flow |-> "go"]

Observed(m) == [trace |-> m.trace, ret |-> m.ret, immutable |-> m.regs[1]]

\* The immutable's own initializer, when it has one.
ImmutableInits(u) == IF u.staged THEN <<Assign(Immutable, "seven")>> ELSE <<>>

=============================================================================
