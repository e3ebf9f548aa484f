---------------------------- MODULE NestedValues ----------------------------
(* What the statements of a contract promise of its state variables: every   *)
(* variable holds a value, a sequence of values nested to any depth, and a   *)
(* push, a pop, an assignment or a delete changes the part of it that the    *)
(* statement names and nothing else, or reverts and changes nothing.         *)
(*                                                                           *)
(* A path leads from the variables to a part: the first step is a variable   *)
(* (the variables are the fields of one struct), a further step the number   *)
(* of a field, a key, or an index counted from zero.                         *)
EXTENDS StorageLayout

CONSTANT Keys         \* keys of a mapping

ASSUME KeysAssumption == Keys \in Nat

RECURSIVE Zero(_)
Zero(t) == CASE IsValue(t) \/ t.kind = "bytes" -> 0
             [] t.kind = "dyn" -> <<>>
             [] t.kind = "fixed" -> [i \in 1 .. t.len |-> Zero(t.elem)]
             [] t.kind = "struct" -> [i \in DOMAIN t.fields |-> Zero(t.fields[i])]
             [] t.kind = "map" -> [k \in 1 .. Keys |-> Zero(t.elem)]

\* what `delete` leaves of a value: mappings keep what they hold
RECURSIVE Deleted(_, _)
Deleted(t, v) ==
  CASE t.kind = "map" -> v
    [] t.kind = "struct" -> [i \in DOMAIN v |-> Deleted(t.fields[i], v[i])]
    [] t.kind = "fixed" -> [i \in DOMAIN v |-> Deleted(t.elem, v[i])]
    [] OTHER -> Zero(t)

\* a step's place in the sequence, and the type found there
Nth(t, step) == IF t.kind \in {"dyn", "fixed"} THEN step + 1 ELSE step
Part(t, step) == IF t.kind = "struct" THEN t.fields[step] ELSE t.elem

TypeAt(t, path) == FoldLeft(Part, t, path)

RECURSIVE Within(_, _, _)
Within(t, v, path) ==
  path = <<>> \/ /\ Nth(t, Head(path)) \in DOMAIN v
                 /\ Within(Part(t, Head(path)), v[Nth(t, Head(path))], Tail(path))

RECURSIVE At(_, _, _)
At(t, v, path) ==
  IF path = <<>> THEN v
  ELSE At(Part(t, Head(path)), v[Nth(t, Head(path))], Tail(path))

RECURSIVE Put(_, _, _, _)
Put(t, v, path, x) ==
  IF path = <<>> THEN x
  ELSE [v EXCEPT ![Nth(t, Head(path))] = Put(Part(t, Head(path)), @, Tail(path), x)]

-----------------------------------------------------------------------------
(* Requests.  A value is given ("memory" or "built"), left out ("none"), or  *)
(* copied from another part ("storage"); while a given value is evaluated a  *)
(* call may push onto the variable the statement is about, or pop from it.   *)

\* the value with n elements in an array, more and more in the arrays inside
RECURSIVE Sample(_, _, _)
Sample(t, n, k) ==
  CASE IsValue(t) -> IF k = 1 THEN 1 ELSE 2^Size(t) - 1
    [] t.kind = "bytes" -> IF n = 0 THEN 0 ELSE 2 * k - 1
    [] t.kind = "dyn" -> [i \in 1 .. n |-> Sample(t.elem, i, k)]
    [] t.kind = "fixed" -> [i \in 1 .. t.len |-> Sample(t.elem, n, k)]
    [] t.kind = "struct" -> [i \in DOMAIN t.fields |-> Sample(t.fields[i], n, k)]

\* the variables after the call a value's expression makes
Called(t, v, r) ==
  CASE r.during = "grow" -> [v EXCEPT ![r.at[1]] = Append(@, Zero(t.fields[r.at[1]].elem))]
    [] r.during = "shrink" -> [v EXCEPT ![r.at[1]] = Front(@)]
    [] OTHER -> v

Given(t, v, r) ==
  CASE r.how = "none" -> Zero(TypeAt(t, r.at).elem)
    [] r.how = "storage" -> At(t, v, r.from)
    [] OTHER -> LET u == TypeAt(t, r.at)
                IN Sample(IF r.op = "push" THEN u.elem ELSE u, r.n, r.k)

Changed(t, v, r) ==
  LET old == At(t, v, r.at)
  IN CASE r.op = "push" -> Append(old, Given(t, v, r))
       [] r.op = "pop" -> Front(old)
       [] r.op = "assign" -> Given(t, v, r)
       [] r.op = "delete" -> Deleted(TypeAt(t, r.at), old)

\* A value is evaluated in full before the location it is assigned to is
\* found; the array of a push or a pop is found first.
Allows(t, v, r) ==
  /\ r.op \in {"push", "pop"} => Within(t, v, r.at)
  /\ r.during = "shrink" => v[r.at[1]] # <<>>
  /\ LET w == Called(t, v, r)
     IN /\ r.how = "storage" => Within(t, w, r.from)
        /\ Within(t, w, r.at)
        /\ r.op = "pop" => At(t, w, r.at) # <<>>

\* the variables after a statement; a statement that panics is undone
After(t, v, r) ==
  IF Allows(t, v, r) THEN LET w == Called(t, v, r) IN Put(t, w, r.at, Changed(t, w, r))
  ELSE v
=============================================================================
